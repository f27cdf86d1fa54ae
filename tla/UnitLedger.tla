------------------------------ MODULE UnitLedger ------------------------------
(***************************************************************************)
(* What a resumable experiment promises, however often it is interrupted:  *)
(* the result of every declared unit enters the ledger once and never      *)
(* changes, and what is published is the whole ledger.                     *)
(***************************************************************************)
CONSTANT None

VARIABLES declared,   \* the units of the frozen configuration
          ledger,     \* unit -> result, for the units that count as measured
          published   \* the ledger a summary was computed from

ledgerVars == <<declared, ledger, published>>

Init ==
  /\ ledger = [u \in {} |-> None]
  /\ published = None

\* Any result may be entered.
Record(u) ==
  /\ u \in declared \ DOMAIN ledger
  /\ DOMAIN ledger' = DOMAIN ledger \cup {u}
  /\ ledger' = [v \in DOMAIN ledger' |-> ledger'[v]]
  /\ \A v \in DOMAIN ledger : ledger'[v] = ledger[v]
  /\ UNCHANGED <<declared, published>>

Publish ==
  /\ DOMAIN ledger = declared
  /\ published' = ledger
  /\ UNCHANGED <<declared, ledger>>

Next == Publish \/ \E u \in declared : Record(u)

Spec == Init /\ [][Next]_ledgerVars
=============================================================================
