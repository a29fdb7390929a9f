----------------------------- MODULE CircuitBreaker -----------------------------
(***************************************************************************)
(* The pure part of the sovereignty module: the health predicates of       *)
(* types/predicates.go and the transition function and counter updates of  *)
(* keeper/circuit_breaker.go.  Every other module drives these operators.  *)
(*                                                                         *)
(* The FSM part of the keeper's committed state is one record `fsm`.  A    *)
(* PeripheralMetrics snapshot is a record `m`:                             *)
(*   btcGap         BtcGap, in Bitcoin blocks                              *)
(*   btcSpvFailed   IsBtcSpvFailed                                         *)
(*   daGap          DaGap, in Engram blocks                                *)
(*   daFailed       IsDasFailed or IsAttestationFailed (the code only ever *)
(*                  reads their disjunction)                               *)
(*   activeAnchors  ActiveAnchors                                          *)
(*   peerQuality    the five other comparisons of IsP2PQualityHealthy      *)
(*                  (diversity, clean peers, churn, tenure, latency)       *)
(***************************************************************************)
EXTENDS Naturals

CONSTANTS
    SuspiciousThreshold,         \* btc gap at which BTC is suspicious
    SovereignThreshold,          \* btc gap at which BTC is critical
    DAThreshold,                 \* da gap at which DA is unhealthy
    MinAnchorPeers,              \* anchor peers a healthy node has
    HysteresisWait,              \* safe blocks before RECOVERING may anchor
    DownHysteresisThreshold,     \* unhealthy blocks absorbed before demotion
    MaxDownHysteresisThreshold,  \* cap of the doubled threshold
    SuspiciousHysteresisWait,    \* healthy blocks before leaving SUSPICIOUS
    MaxSuspiciousTime            \* gray-failure timeout, in blocks

\* What Params.Validate checks of these fields, and no more.
ASSUME ParamsAssumption ==
    /\ SuspiciousThreshold \in Nat \ {0} /\ SovereignThreshold \in Nat
    /\ SuspiciousThreshold < SovereignThreshold
    /\ DAThreshold \in Nat \ {0}
    /\ MinAnchorPeers \in Nat
    /\ HysteresisWait \in Nat /\ SuspiciousHysteresisWait \in Nat
    /\ DownHysteresisThreshold \in Nat /\ MaxDownHysteresisThreshold \in Nat
    /\ DownHysteresisThreshold <= MaxDownHysteresisThreshold
    /\ MaxSuspiciousTime \in Nat

-----------------------------------------------------------------------------
Anchored   == "ANCHORED"
Suspicious == "SUSPICIOUS"
Sovereign  == "SOVEREIGN"
Recovering == "RECOVERING"

FSMStates == {Anchored, Suspicious, Sovereign, Recovering}

WithdrawLocked(state) == state \in {Sovereign, Recovering}

Metrics == [btcGap : Nat, btcSpvFailed : BOOLEAN, daGap : Nat,
            daFailed : BOOLEAN, activeAnchors : Nat, peerQuality : BOOLEAN]

\* The FSM fields of the keeper.
FSM == [state : FSMStates, safeBlocks : Nat, suspiciousDuration : Nat,
        suspiciousSafeBlocks : Nat, unhealthyStreak : Nat,
        failedRecoveryAttempts : Nat]

\* DefaultGenesis, as InitChain writes it; the counters it leaves unset read 0.
GenesisFSM == [state |-> Anchored, safeBlocks |-> 0, suspiciousDuration |-> 0,
               suspiciousSafeBlocks |-> 0, unhealthyStreak |-> 0,
               failedRecoveryAttempts |-> 0]

-----------------------------------------------------------------------------
(* types/predicates.go *)

IsBTCGapSuspicious(m) ==
    SuspiciousThreshold <= m.btcGap /\ m.btcGap < SovereignThreshold

IsBTCGapSovereign(m) == m.btcGap >= SovereignThreshold

IsBTCHealthy(m) ==
    ~IsBTCGapSuspicious(m) /\ ~IsBTCGapSovereign(m) /\ ~m.btcSpvFailed

IsDAHealthy(m) == m.daGap < DAThreshold /\ ~m.daFailed

IsP2PQualityHealthy(m) == m.activeAnchors >= MinAnchorPeers /\ m.peerQuality

\* Mutant: the gray-failure timeout one block late.
IsCriticalConditionLate(m, suspiciousDuration) ==
    \/ IsBTCGapSovereign(m)
    \/ m.btcSpvFailed
    \/ m.activeAnchors = 0
    \/ suspiciousDuration > MaxSuspiciousTime

IsCriticalCondition(m, suspiciousDuration) ==
    \/ IsBTCGapSovereign(m)
    \/ m.btcSpvFailed
    \/ m.activeAnchors = 0
    \/ suspiciousDuration >= MaxSuspiciousTime

IsWarningCondition(m) ==
    IsBTCGapSuspicious(m) \/ ~IsDAHealthy(m) \/ ~IsP2PQualityHealthy(m)

IsHealthyCondition(m) ==
    IsBTCHealthy(m) /\ IsDAHealthy(m) /\ IsP2PQualityHealthy(m)

-----------------------------------------------------------------------------
(* keeper/circuit_breaker.go *)

PowerOf2[n \in Nat] == IF n = 0 THEN 1 ELSE 2 * PowerOf2[n - 1]

\* The doubling loop in closed form: doubled while it stays within the cap.
\* HysteresisArithmetic has the loop itself, and that it computes this form.
CappedDoubling(down, max, failedRecoveryAttempts) ==
    LET doubled == down * PowerOf2[failedRecoveryAttempts]
    IN  IF doubled \in 0 .. max THEN doubled ELSE max

EffectiveDownHysteresisThreshold(failedRecoveryAttempts) ==
    CappedDoubling(DownHysteresisThreshold, MaxDownHysteresisThreshold,
                   failedRecoveryAttempts)

\* Mutants: the proof forgotten; the hysteresis counter compared past its cap.
RecoveryCompleteNoProof(fsm, proofValid) == fsm.safeBlocks = HysteresisWait
RecoveryCompletePastCap(fsm, proofValid) ==
    fsm.safeBlocks = HysteresisWait + 1 /\ proofValid

RecoveryComplete(fsm, proofValid) ==
    fsm.safeBlocks = HysteresisWait /\ proofValid

CalculateNextState(fsm, m, proofValid) ==
    LET healthy   == IsHealthyCondition(m)
        streak    == fsm.unhealthyStreak + 1
        effective == EffectiveDownHysteresisThreshold(fsm.failedRecoveryAttempts)
    IN  CASE fsm.state = Sovereign ->
                IF healthy THEN Recovering ELSE Sovereign
          [] fsm.state # Sovereign
             /\ IsCriticalCondition(m, fsm.suspiciousDuration) -> Sovereign
          [] OTHER ->
                CASE fsm.state = Anchored ->
                        IF IsWarningCondition(m) /\ streak >= DownHysteresisThreshold
                        THEN Suspicious ELSE Anchored
                  [] fsm.state = Suspicious ->
                        IF healthy /\ fsm.suspiciousSafeBlocks + 1
                                        >= SuspiciousHysteresisWait
                        THEN Anchored ELSE Suspicious
                  [] fsm.state = Recovering ->
                        IF ~healthy
                        THEN IF streak >= effective THEN Sovereign ELSE Recovering
                        ELSE IF RecoveryComplete(fsm, proofValid)
                             THEN Anchored ELSE Recovering

\* A counter that climbs to `cap` on healthy blocks and leaks one on the others.
Leaky(n, healthy, cap) ==
    CASE healthy /\ n + 1 > cap   -> cap
      [] healthy /\ n + 1 <= cap  -> n + 1
      [] ~healthy /\ n = 0        -> 0
      [] OTHER                    -> n - 1

\* Mutants: no reset when RECOVERING is left; no reset when it is entered.
NextSafeBlocksKeptOnExit(fsm, target, healthy) ==
    IF fsm.state # Recovering THEN 0
    ELSE Leaky(fsm.safeBlocks, healthy, HysteresisWait)
NextSafeBlocksCountsEntry(fsm, target, healthy) ==
    IF target # Recovering THEN 0
    ELSE Leaky(fsm.safeBlocks, healthy, HysteresisWait)

NextSafeBlocks(fsm, target, healthy) ==
    IF target # Recovering \/ fsm.state # Recovering
    THEN 0
    ELSE Leaky(fsm.safeBlocks, healthy, HysteresisWait)

NextSuspiciousSafeBlocks(fsm, target, healthy) ==
    IF target # Suspicious \/ fsm.state # Suspicious
    THEN 0
    ELSE Leaky(fsm.suspiciousSafeBlocks, healthy, SuspiciousHysteresisWait)

\* Mutants: every state absorbs; a healthy block does not end the streak.
NextUnhealthyStreakAnyState(fsm, target, healthy) ==
    IF target = fsm.state /\ ~healthy THEN fsm.unhealthyStreak + 1 ELSE 0
NextUnhealthyStreakSticky(fsm, target, healthy) ==
    IF target = fsm.state /\ fsm.state \in {Anchored, Recovering}
    THEN fsm.unhealthyStreak + (IF healthy THEN 0 ELSE 1)
    ELSE 0

NextUnhealthyStreak(fsm, target, healthy) ==
    IF target = fsm.state /\ fsm.state \in {Anchored, Recovering} /\ ~healthy
    THEN fsm.unhealthyStreak + 1
    ELSE 0

\* Mutant: the attempts counter never saturates.
NextFailedRecoveryAttemptsUnbounded(fsm, target) ==
    CASE fsm.state = Recovering /\ target = Sovereign ->
            fsm.failedRecoveryAttempts + 1
      [] fsm.state = Recovering /\ target = Anchored -> 0
      [] OTHER -> fsm.failedRecoveryAttempts

NextFailedRecoveryAttempts(fsm, target) ==
    LET attempts == fsm.failedRecoveryAttempts
    IN  CASE fsm.state = Recovering /\ target = Sovereign ->
                IF EffectiveDownHysteresisThreshold(attempts)
                     >= MaxDownHysteresisThreshold
                THEN attempts ELSE attempts + 1
          [] fsm.state = Recovering /\ target = Anchored -> 0
          [] OTHER -> attempts

\* Mutant: only the entry block counts.
NextSuspiciousDurationEntryOnly(fsm, target) ==
    IF target # Suspicious THEN 0 ELSE 1

NextSuspiciousDuration(fsm, target) ==
    IF target # Suspicious
    THEN 0
    ELSE IF fsm.suspiciousDuration + 1 > MaxSuspiciousTime + 1
         THEN MaxSuspiciousTime + 1
         ELSE fsm.suspiciousDuration + 1

\* Step 3 of CommitFSMTransition: the FSM fields a decided block leaves.
CommitFSM(fsm, target, healthy) ==
    [state                  |-> target,
     safeBlocks             |-> NextSafeBlocks(fsm, target, healthy),
     suspiciousDuration     |-> NextSuspiciousDuration(fsm, target),
     suspiciousSafeBlocks   |-> NextSuspiciousSafeBlocks(fsm, target, healthy),
     unhealthyStreak        |-> NextUnhealthyStreak(fsm, target, healthy),
     failedRecoveryAttempts |-> NextFailedRecoveryAttempts(fsm, target)]
=============================================================================
