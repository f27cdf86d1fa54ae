-------------------------- MODULE MCCertificateAudit --------------------------
(* A join of two scans: the smallest plan with independent branches and a  *)
(* path longer than one edge when a mask follows it.                       *)
EXTENDS CertificateAudit

Op(id, inputs) == [id |-> id, inputs |-> inputs]

ScanPlan == [operators |-> <<Op("scan", {})>>, output |-> "scan"]

JoinPlan ==
  [operators |-> <<Op("scan", {}), Op("scan2", {}), Op("join", {"scan", "scan2"}),
                   Op("mask", {"join"})>>,
   output |-> "mask"]
=============================================================================
