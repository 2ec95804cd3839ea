------------------------- MODULE AtMostOnceDelivery -------------------------
(***************************************************************************)
(* What a buffered writer without acknowledgements can promise about a     *)
(* row: once written it waits, and later it is stored or lost, for good.   *)
(* It is never stored twice, and a lost row does not come back.            *)
(***************************************************************************)
CONSTANT Rows

VARIABLE fate  \* what has become of each row

Init == fate = [r \in Rows |-> "unwritten"]

Write(r) ==
    /\ fate[r] = "unwritten"
    /\ fate' = [fate EXCEPT ![r] = "waiting"]

\* A batch of waiting rows is stored or lost as a whole.
Settle(batch, end) ==
    /\ \A r \in batch : fate[r] = "waiting"
    /\ fate' = [r \in Rows |-> IF r \in batch THEN end ELSE fate[r]]

Next ==
    \/ \E r \in Rows : Write(r)
    \/ \E batch \in SUBSET Rows, end \in {"stored", "lost"} : Settle(batch, end)

Spec == Init /\ [][Next]_fate

=============================================================================
