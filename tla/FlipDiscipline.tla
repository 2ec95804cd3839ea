--------------------------- MODULE FlipDiscipline ---------------------------
(***************************************************************************)
(* What the caps of safety.go promise to whoever resolves the domain,      *)
(* without the controller's states, files or evaluations: the domain moves *)
(* from the primary to the secondary provider at most MaxDailyFailovers    *)
(* times a day, and never twice within FailoverCooldown.                   *)
(***************************************************************************)
EXTENDS Integers

CONSTANTS FailoverCooldown, MaxDailyFailovers

VARIABLES
    ns,         \* "primary" or "secondary"
    sinceFlip,  \* age of the last move to the secondary, up to the cooldown
    flipsToday  \* moves to the secondary since midnight

vars == <<ns, sinceFlip, flipsToday>>

Init ==
    /\ ns = "primary"
    /\ sinceFlip = FailoverCooldown
    /\ flipsToday = 0

FlipOver ==
    /\ ns = "primary"
    /\ sinceFlip >= FailoverCooldown
    /\ flipsToday < MaxDailyFailovers
    /\ ns' = "secondary"
    /\ sinceFlip' = 0
    /\ flipsToday' = flipsToday + 1

FlipBack ==
    /\ ns = "secondary"
    /\ ns' = "primary"
    /\ UNCHANGED <<sinceFlip, flipsToday>>

Elapse ==
    /\ sinceFlip < FailoverCooldown
    /\ sinceFlip' = sinceFlip + 1
    /\ UNCHANGED <<ns, flipsToday>>

Midnight ==
    /\ flipsToday' = 0
    /\ UNCHANGED <<ns, sinceFlip>>

Next == FlipOver \/ FlipBack \/ Elapse \/ Midnight

Spec == Init /\ [][Next]_vars

=============================================================================
