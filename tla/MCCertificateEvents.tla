------------------------- MODULE MCCertificateEvents -------------------------
(* Four sources joined pairwise, the shape of the four-source case study:  *)
(* three rounds, the first with 4! orders.                                 *)
EXTENDS CertificateEvents

Op(id, inputs) == [id |-> id, inputs |-> inputs]

FourSourcePlan ==
  [operators |-> <<Op("join", {"left", "right"}), Op("left", {"a", "b"}), Op("right", {"c", "d"}),
                   Op("a", {}), Op("b", {}), Op("c", {}), Op("d", {})>>,
   output |-> "join"]
=============================================================================
