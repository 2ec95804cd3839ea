--------------------------- MODULE AccessLifecycle ---------------------------
(***************************************************************************)
(* What the platform contracts promise of a work order, whatever workflow  *)
(* a published path spells out (platform-contracts/README.md, ADR-0057):   *)
(* the conditions are frozen before the change is authored; the observer's *)
(* access is created only after its clean-up is registered and a human     *)
(* merged, is used in one fixed order, and is taken away at the end of     *)
(* that order or by the clean-up, never with somebody else's.              *)
(***************************************************************************)
EXTENDS Naturals

CONSTANT WorkOrders

VARIABLES written,  \* [WorkOrders -> 0..Authored]
          access,   \* [WorkOrders -> 0..Revoked]
          live,     \* the work orders whose observer objects exist
          over      \* the work orders that ended or were given up

vars == <<written, access, live, over>>

Frozen == 1
Authored == 2

Registered == 2
Provisioned == 3
Revoked == 11

Init ==
  /\ written = [w \in WorkOrders |-> 0]
  /\ access = [w \in WorkOrders |-> 0]
  /\ live = {}
  /\ over = {}

Write(w) ==
  /\ w \notin over
  /\ written[w] < Authored
  /\ written' = [written EXCEPT ![w] = @ + 1]
  /\ UNCHANGED <<access, live, over>>

Proceed(w) ==
  /\ w \notin over
  /\ access[w] < Revoked
  /\ access' = [access EXCEPT ![w] = @ + 1]
  /\ live' = IF access'[w] = Provisioned THEN live \cup {w}
             ELSE IF access'[w] = Revoked THEN live \ {w} ELSE live
  /\ UNCHANGED <<written, over>>

End(w) ==
  /\ w \notin over
  /\ over' = over \cup {w}
  /\ UNCHANGED <<written, access, live>>

CleanUp(w) ==
  /\ w \in over /\ access[w] >= Registered
  /\ live' = live \ {w}
  /\ UNCHANGED <<written, access, over>>

Next == \E w \in WorkOrders : Write(w) \/ Proceed(w) \/ End(w) \/ CleanUp(w)

Spec == Init /\ [][Next]_vars

=============================================================================
