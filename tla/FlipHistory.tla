---------------------------- MODULE FlipHistory ----------------------------
(***************************************************************************)
(* The failover controller with history variables for what the outside     *)
(* sees: when the domain last moved to the secondary provider, and how     *)
(* often it did so today.                                                  *)
(***************************************************************************)
EXTENDS FailoverController

VARIABLES
    sinceFlip,    \* age of the last move to the secondary, up to the cooldown
    flipsToday    \* moves to the secondary since midnight

historyVars == <<sinceFlip, flipsToday>>

fhVars == <<vars, historyVars>>

FlipsOver == ns = "primary" /\ ns' = "secondary"

FHInit ==
    /\ Init
    /\ sinceFlip = FailoverCooldown
    /\ flipsToday = 0

FHElapse ==
    /\ Elapse
    /\ sinceFlip' = Older(sinceFlip, FailoverCooldown)
    /\ UNCHANGED flipsToday

FHMidnight ==
    /\ Midnight
    /\ flipsToday' = 0
    /\ UNCHANGED sinceFlip

FHStep ==
    /\ ProcessStep \/ EnvironmentStep
    /\ sinceFlip' = IF FlipsOver THEN 0 ELSE sinceFlip
    /\ flipsToday' = IF FlipsOver THEN flipsToday + 1 ELSE flipsToday

FHNext == FHStep \/ FHElapse \/ FHMidnight

FHSpec == FHInit /\ [][FHNext]_fhVars

-----------------------------------------------------------------------------

\* When evaluations may straddle midnight, one failover can be counted on the
\* day before (Load fixes the day, Save writes it back).
MidnightSlack == IF "straddle" \in Faults THEN 1 ELSE 0

Promise == INSTANCE FlipDiscipline
              WITH MaxDailyFailovers <- MaxDailyFailovers + MidnightSlack

\* The controller keeps the promise of safety.go: whatever fails and wherever
\* it crashes, two moves of the domain to the secondary are FailoverCooldown
\* apart and MaxDailyFailovers a day, provided the state file survives; one
\* more, and never two, where evaluations straddle midnight.
KeepsFlipDiscipline == Promise!Spec

\* Two moves of the domain to the secondary are FailoverCooldown apart, even
\* when evaluations straddle midnight: the age of a failover (handleFailingOver
\* stamps it after the move) never understates that of the move.
FlipsRespectCooldown ==
    [][FlipsOver => sinceFlip >= FailoverCooldown]_fhVars

\* Once moved to the secondary the domain stays there for a while: the record
\* dwells in FAILED_OVER before a recovery can begin, and the recovery waits
\* for RecoveryCooldown, whatever fails and even if the state file is lost.
\* (Stated for FailoverCooldown >= MinTimeInState + RecoveryCooldown, where
\* sinceFlip can tell.)
SecondaryServesAWhile ==
    [][ns = "secondary" /\ ns' = "primary" =>
          sinceFlip >= MinTimeInState + RecoveryCooldown]_fhVars

=============================================================================
