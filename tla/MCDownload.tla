------------------------------ MODULE MCDownload ------------------------------
(* Instances of Download: a registered version of three blocks and, where  *)
(* the publisher replaces it, one of two.                                  *)
EXTENDS Download

CONSTANTS v1, v2

Sizes == [v \in Version |-> IF v = v1 THEN 3 ELSE 2]
=============================================================================
