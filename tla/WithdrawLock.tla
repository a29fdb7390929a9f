------------------------------ MODULE WithdrawLock ------------------------------
(***************************************************************************)
(* What the circuit breaker promises to whoever holds a withdrawal: the    *)
(* lock closes exactly when a decided block is critical, and it opens      *)
(* again only in a healthy block that carries a valid re-anchoring proof,  *)
(* after HysteresisWait healthy blocks of the recovery in progress.        *)
(***************************************************************************)
EXTENDS Naturals

CONSTANT HysteresisWait

VARIABLES
    locked,      \* withdrawals are halted
    block,       \* the last decided block: [healthy, critical, proofValid]
    healthySeen  \* healthy blocks of this recovery, counted up to HysteresisWait

vars == <<locked, block, healthySeen>>

Blocks == [healthy : BOOLEAN, critical : BOOLEAN, proofValid : BOOLEAN]

Init ==
    /\ locked = FALSE
    /\ block \in Blocks
    /\ healthySeen = 0

\* An open lock stays open while blocks are not critical ...
StayOpen ==
    /\ ~locked /\ ~block'.critical
    /\ locked' = FALSE /\ healthySeen' = 0

\* ... and closes in the first critical one.
Trip ==
    /\ ~locked /\ block'.critical
    /\ locked' = TRUE /\ healthySeen' = 0

\* While closed, a healthy block may count and a regression starts again.
StayClosed ==
    /\ locked /\ locked' = TRUE
    /\ \/ healthySeen' \in {0, healthySeen}
       \/ block'.healthy /\ healthySeen' = healthySeen + 1

Open ==
    /\ locked
    /\ healthySeen >= HysteresisWait
    /\ block'.healthy /\ ~block'.critical /\ block'.proofValid
    /\ locked' = FALSE /\ healthySeen' = 0

Next == block' \in Blocks /\ (StayOpen \/ Trip \/ StayClosed \/ Open)

Spec == Init /\ [][Next]_vars
=============================================================================
