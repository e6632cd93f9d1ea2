---------------------------- MODULE FreshSample ----------------------------
(***************************************************************************)
(* What the cached pressure sample of a coordinator promises its lock-free *)
(* readers, whatever the representation: a cell that is either withdrawn   *)
(* (NoSample) or holds one whole sample, changed in one step.  A reader    *)
(* asks for the sample of an epoch; it comes back with what the cell held  *)
(* at one moment of the call, if that is of the epoch it asked for, or     *)
(* with nothing.                                                           *)
(***************************************************************************)
CONSTANTS Readers, Samples, Epochs, NoSample

VARIABLES
    cell,     \* the sample offered to readers
    asked,    \* asked[r]: the epoch r asks for, NoSample outside a call
    held,     \* held[r]: what the call of r saw in the cell, if anything
    result    \* result[r]: what the last call of r returned

vars == <<cell, asked, held, result>>

Init ==
    /\ cell = NoSample
    /\ asked = [r \in Readers |-> NoSample]
    /\ held = [r \in Readers |-> NoSample]
    /\ result = [r \in Readers |-> NoSample]

Ask(r, e) ==
    /\ asked[r] = NoSample
    /\ asked' = [asked EXCEPT ![r] = e]
    /\ result' = [result EXCEPT ![r] = NoSample]
    /\ UNCHANGED <<cell, held>>

Look(r) ==
    /\ asked[r] # NoSample /\ held[r] = NoSample
    /\ cell # NoSample
    /\ held' = [held EXCEPT ![r] = cell]
    /\ UNCHANGED <<cell, asked, result>>

Return(r) ==
    /\ asked[r] # NoSample
    /\ result' = [result EXCEPT ![r] =
                    IF held[r] # NoSample /\ held[r].epoch = asked[r]
                    THEN held[r] ELSE NoSample]
    /\ asked' = [asked EXCEPT ![r] = NoSample]
    /\ held' = [held EXCEPT ![r] = NoSample]
    /\ UNCHANGED cell

\* A call may come back empty-handed at any time.
Miss(r) ==
    /\ asked[r] # NoSample
    /\ result' = [result EXCEPT ![r] = NoSample]
    /\ asked' = [asked EXCEPT ![r] = NoSample]
    /\ held' = [held EXCEPT ![r] = NoSample]
    /\ UNCHANGED cell

\* The writer changes the cell; calls it overtakes may lose what they saw.
Write ==
    /\ cell' \in Samples \cup {NoSample}
    /\ \E lost \in SUBSET Readers :
         held' = [r \in Readers |-> IF r \in lost THEN NoSample ELSE held[r]]
    /\ UNCHANGED <<asked, result>>

Next ==
    \/ \E r \in Readers :
         (\E e \in Epochs : Ask(r, e)) \/ Look(r) \/ Return(r) \/ Miss(r)
    \/ Write

Spec == Init /\ [][Next]_vars
=============================================================================
