----------------------------- MODULE SovereigntyFSM -----------------------------
(***************************************************************************)
(* The sovereignty FSM driven one block at a time, as BeginBlocker does:   *)
(* each block brings one set of peripheral metrics and a verdict on the    *)
(* re-anchoring proof, moves the FSM and updates its counters.  The        *)
(* environment chooses the metrics and the verdict freely.                 *)
(***************************************************************************)
EXTENDS CircuitBreaker

CONSTANT Readings   \* the metrics a block may bring

ASSUME ReadingsAssumption == Readings \subseteq Metrics

VARIABLES
    fsm,           \* the committed FSM record
    block,         \* what the last block brought: [healthy, critical, proofValid]
    unhealthyRun,  \* history: consecutive unhealthy blocks, up to the cap
    healthySeen,   \* history: healthy blocks of this recovery, up to HysteresisWait
    parity         \* of the height: no block is a stuttering step

vars == <<fsm, block, unhealthyRun, healthySeen, parity>>

Blocks == [healthy : BOOLEAN, critical : BOOLEAN, proofValid : BOOLEAN]

Init ==
    /\ fsm = GenesisFSM
    /\ block = [healthy |-> TRUE, critical |-> FALSE, proofValid |-> FALSE]
    /\ unhealthyRun = 0
    /\ healthySeen = 0
    /\ parity = 0

NextUnhealthyRun(healthy) ==
    IF healthy THEN 0
    ELSE IF unhealthyRun < MaxDownHysteresisThreshold
         THEN unhealthyRun + 1 ELSE unhealthyRun

NextHealthySeen(target, healthy) ==
    IF target # Recovering \/ fsm.state # Recovering THEN 0
    ELSE IF healthy /\ healthySeen < HysteresisWait
         THEN healthySeen + 1 ELSE healthySeen

BeginBlocker(m, proofValid) ==
    LET target  == CalculateNextState(fsm, m, proofValid)
        healthy == IsHealthyCondition(m)
    IN  /\ fsm' = CommitFSM(fsm, target, healthy)
        /\ block' = [healthy    |-> healthy,
                     critical   |-> IsCriticalCondition(m, fsm.suspiciousDuration),
                     proofValid |-> proofValid]
        /\ unhealthyRun' = NextUnhealthyRun(healthy)
        /\ healthySeen' = NextHealthySeen(target, healthy)
        /\ parity' = 1 - parity

Next == \E m \in Readings, proofValid \in BOOLEAN : BeginBlocker(m, proofValid)

Spec == Init /\ [][Next]_vars

\* The FSM alone, whatever else a block does: what the committed FSM of every
\* module that composes this one is to implement.
FSMStep ==
    \E m \in Readings, proofValid \in BOOLEAN :
        fsm' = CommitFSM(fsm, CalculateNextState(fsm, m, proofValid),
                         IsHealthyCondition(m))

FSMSpec == fsm = GenesisFSM /\ [][FSMStep]_fsm

\* Consensus keeps deciding blocks.
FairSpec == Spec /\ WF_vars(Next)

-----------------------------------------------------------------------------
(* Properties *)

\* The FSM record, the last block and the history counters have their types.
TypeOK ==
    /\ fsm \in FSM
    /\ block \in Blocks
    /\ unhealthyRun \in Nat
    /\ healthySeen \in Nat
    /\ parity \in {0, 1}

\* Every counter belongs to its state: outside it the counter reads 0, so no
\* state is entered with credit or blame earned before (circuit_breaker.go:107-196).
CountersBelongToState ==
    /\ fsm.safeBlocks > 0 => fsm.state = Recovering
    /\ fsm.suspiciousSafeBlocks > 0 => fsm.state = Suspicious
    /\ fsm.suspiciousDuration > 0 <=> fsm.state = Suspicious
    /\ fsm.unhealthyStreak > 0 => fsm.state \in {Anchored, Recovering}

\* SUSPICIOUS never outlasts the gray-failure timeout: the cap of
\* NextSuspiciousDuration at MaxSuspiciousTime + 1 is never reached.
GrayFailureBounded == fsm.suspiciousDuration <= MaxSuspiciousTime

\* Absorbed noise stays below the threshold of the state that absorbs it, the
\* doubled one in RECOVERING, whatever attempts came before.
AbsorbedNoiseBounded ==
    fsm.unhealthyStreak > 0 =>
        fsm.unhealthyStreak <
            IF fsm.state = Anchored
            THEN DownHysteresisThreshold
            ELSE EffectiveDownHysteresisThreshold(fsm.failedRecoveryAttempts)

\* The doubled threshold was still below its cap before the last failed
\* attempt: the attempts counter saturates (circuit_breaker.go:167-179).
AttemptsSaturate ==
    fsm.failedRecoveryAttempts > 0 =>
        EffectiveDownHysteresisThreshold(fsm.failedRecoveryAttempts - 1)
            < MaxDownHysteresisThreshold

\* Healthy credit is earned in this recovery, never carried over.
CreditIsEarned == fsm.safeBlocks <= healthySeen /\ healthySeen <= HysteresisWait

\* A streak counts blocks that really were unhealthy, one after the other.
StreakIsReal == fsm.unhealthyStreak <= unhealthyRun

\* Without a critical block, a demotion takes as many consecutive unhealthy
\* blocks as the threshold in force: the flapping fix of circuit_breaker.go:43-45.
DemotionNeedsStreak ==
    [][ /\ fsm.state = Anchored /\ fsm'.state = Suspicious
            => unhealthyRun' >= DownHysteresisThreshold
        /\ fsm.state = Recovering /\ fsm'.state = Sovereign /\ ~block'.critical
            => unhealthyRun' >= EffectiveDownHysteresisThreshold(
                                  fsm.failedRecoveryAttempts) ]_vars

\* The withdraw lock the FSM implements: it closes in critical blocks, opens
\* after a full recovery with a valid proof (WithdrawLock).
Lock == INSTANCE WithdrawLock WITH locked <- WithdrawLocked(fsm.state)

LockSpec == Lock!Spec

\* Layers that stay unhealthy end in SOVEREIGN for good, through every
\* hysteresis: the gray-failure timeout makes SUSPICIOUS transient and the
\* capped streak makes RECOVERING transient.
LastingFailureIsSovereign ==
    <>[](~block.healthy) => <>[](fsm.state = Sovereign)

\* Layers that stay healthy, with a proof, end in ANCHORED for good.
LastingHealthAnchors ==
    <>[](block.healthy /\ block.proofValid) => <>[](fsm.state = Anchored)
=============================================================================
