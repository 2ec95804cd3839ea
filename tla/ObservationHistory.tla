------------------------- MODULE ObservationHistory -------------------------
(***************************************************************************)
(* The failover controller with history variables for what its evaluations *)
(* observed of the primary provider: how many found it bad since the       *)
(* controller was last HEALTHY, and how long ago the last one did.         *)
(***************************************************************************)
EXTENDS FailoverController

VARIABLES
    badSeen,  \* evaluations that found the primary bad since the record, and
              \* the copy of it in use, said HEALTHY
    sinceBad  \* age of the last one whose abort of a recovery was not lost with
              \* a failed save, up to RecoveryCooldown

ohVars == <<vars, badSeen, sinceBad>>

SeesBad == ScoreStep /\ primary = "bad"

\* The transition of a recovery abort is valid, and its save fails.
LosesAbort ==
    RecoveryAborts /\ mem.sinceTransition >= MinTimeInState
                   /\ PersistedState' = "RECOVERING"

OneMore(n) == Older(n, ConsecutiveDegradedChecksRequired)

OHInit ==
    /\ Init
    /\ badSeen = 0
    /\ sinceBad = RecoveryCooldown

OHElapse ==
    /\ Elapse
    /\ sinceBad' = Older(sinceBad, RecoveryCooldown)
    /\ UNCHANGED badSeen

OHStep ==
    /\ ProcessStep \/ EnvironmentStep \/ Midnight
    /\ badSeen' = IF PersistedState' = "HEALTHY" /\ mem' = NoState THEN 0
                  ELSE IF SeesBad THEN OneMore(badSeen) ELSE badSeen
    /\ sinceBad' = IF SeesBad /\ ~LosesAbort THEN 0 ELSE sinceBad

OHNext == OHStep \/ OHElapse

OHSpec == OHInit /\ [][OHNext]_ohVars

OHFairSpec == OHSpec /\ Fairness

-----------------------------------------------------------------------------

StartsFailover == PersistedState # "FAILING_OVER"
                  /\ PersistedState' = "FAILING_OVER"

StartsFailback == ns = "secondary" /\ ns' = "primary"

\* No failover begins before the required number of evaluations have found
\* the primary bad since the controller was last HEALTHY, whatever saves are
\* lost and wherever it crashes (they need not have been consecutive).
FailoverHasEvidence ==
    [][StartsFailover => badSeen' >= ConsecutiveDegradedChecksRequired]_ohVars

\* What handleRecovering guarantees of a primary that flaps: no evaluation
\* found it bad between the end of MinTimeInState and the failback, unless the
\* save of the abort failed.  (A bad score seen earlier does not abort:
\* transition blocks the abort.)
QuietBeforeFailback ==
    [][StartsFailback => sinceBad >= RecoveryCooldown - MinTimeInState]_ohVars

=============================================================================
