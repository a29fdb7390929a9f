-------------------------- MODULE SovereigntyFSMProofs --------------------------
(***************************************************************************)
(* Proofs about SovereigntyFSM and its threshold arithmetic for every      *)
(* value of the parameters that Params.Validate accepts and for every set  *)
(* of readings.                                                            *)
(***************************************************************************)
EXTENDS HysteresisArithmetic, Induction

(***************************************************************************)
(* Facts about the operators of CircuitBreaker.                            *)
(***************************************************************************)

\* The doubled threshold never exceeds its cap (circuit_breaker.go:25-37).
LEMMA EffectiveBounded ==
    ASSUME NEW n
    PROVE  /\ EffectiveDownHysteresisThreshold(n) \in Nat
           /\ EffectiveDownHysteresisThreshold(n) <= MaxDownHysteresisThreshold
  <1> DEFINE doubled == DownHysteresisThreshold * PowerOf2[n]
  <1>1. CASE doubled \in 0 .. MaxDownHysteresisThreshold
    <2> HIDE DEF doubled
    <2>1. doubled \in Nat /\ doubled <= MaxDownHysteresisThreshold
      BY <1>1, ParamsAssumption
    <2>2. EffectiveDownHysteresisThreshold(n) = doubled
      BY <1>1 DEF EffectiveDownHysteresisThreshold, CappedDoubling, doubled
    <2> QED BY <2>1, <2>2
  <1>2. CASE doubled \notin 0 .. MaxDownHysteresisThreshold
    <2>1. EffectiveDownHysteresisThreshold(n) = MaxDownHysteresisThreshold
      BY <1>2 DEF EffectiveDownHysteresisThreshold, CappedDoubling
    <2> QED BY <2>1, ParamsAssumption
  <1> QED BY <1>1, <1>2

\* The defining equations of PowerOf2.
LEMMA PowerOf2Equations ==
    /\ PowerOf2 \in [Nat -> Nat \ {0}]
    /\ PowerOf2[0] = 1
    /\ \A n \in Nat : PowerOf2[n + 1] = 2 * PowerOf2[n]
  <1> DEFINE R    == Nat
             step == [n \in Nat |-> [p \in R |-> 2 * p]]
             one  == 1
  <1>1. step \in Steps(R) /\ one \in R
    BY DEF Steps
  <1> HIDE DEF step, R, one
  <1>2. PICK f : Unfolds(f, R, one, step)
    BY <1>1, RecursionExists
  <1>3. f = [n \in Nat |-> IF n = 0 THEN 1 ELSE 2 * f[n - 1]]
    BY <1>2, UnfoldsBackwards DEF R, one, step
  <1>4. PowerOf2 = [n \in Nat |-> IF n = 0 THEN 1 ELSE 2 * PowerOf2[n - 1]]
    BY <1>3 DEF PowerOf2
  <1>5. PowerOf2[0] = 1 /\ \A n \in Nat : PowerOf2[n + 1] = 2 * PowerOf2[n]
    BY <1>4
  <1>6. \A n \in Nat : PowerOf2[n] \in Nat \ {0}
    <2> DEFINE S == {n \in Nat : PowerOf2[n] \in Nat \ {0}}
    <2>1. 0 \in S BY <1>5
    <2>2. \A n \in Nat : n \in S => n + 1 \in S BY <1>5
    <2> HIDE DEF S
    <2>3. \A n \in Nat : n \in S  BY <2>1, <2>2, SetInduction
    <2> QED BY <2>3 DEF S
  <1> QED BY <1>4, <1>5, <1>6

\* A value below the modulus is not changed by the wrap.
LEMMA NoWrap ==
    ASSUME NEW e \in Nat, NEW modulus \in Nat, e < modulus
    PROVE  e % modulus = e
  OBVIOUS

\* The locals of the loop, as LoopBody types them.
Locals == [effective : Nat, returned : BOOLEAN]

\* The loop after i rounds: not returned, it holds the plain product, and it
\* has not wrapped; returned, it holds the cap, which the product has reached.
LEMMA LoopRounds ==
    ASSUME NEW max \in 0 .. PowerOf2[Width - 1], NEW down \in 0 .. max,
           NEW attempts \in Nat
    PROVE  LET l == Loop(down, max, attempts)
           IN  /\ l \in Locals
               /\ ~l.returned => l.effective = down * PowerOf2[attempts]
               /\ l.returned => l.effective = max /\ down * PowerOf2[attempts] >= max
  <1> DEFINE step  == [i \in Nat |-> [l \in Locals |->
                         IF l.returned THEN l ELSE LoopBody(l.effective, max)]]
             start == [effective |-> down, returned |-> FALSE]
             after[i \in Nat] ==
               IF i = 0 THEN [effective |-> down, returned |-> FALSE]
               ELSE IF after[i - 1].returned THEN after[i - 1]
               ELSE LoopBody(after[i - 1].effective, max)
  <1>0. /\ Width - 1 \in Nat /\ (Width - 1) + 1 = Width
        /\ PowerOf2[Width - 1] \in Nat \ {0}
        /\ PowerOf2[Width] = 2 * PowerOf2[Width - 1]
    <2>1. Width - 1 \in Nat /\ (Width - 1) + 1 = Width
      BY WidthAssumption
    <2> QED BY <2>1, PowerOf2Equations
  <1>1. max \in Nat /\ down \in Nat /\ down <= max /\ 2 * max <= PowerOf2[Width]
    BY <1>0
  <1>2. ASSUME NEW e \in Nat
        PROVE  /\ LoopBody(e, max) \in Locals
               /\ e >= max => LoopBody(e, max) = [effective |-> max, returned |-> TRUE]
               /\ e < max => LoopBody(e, max) = [effective |-> 2 * e, returned |-> FALSE]
    <2>1. CASE e >= max
      BY <1>1, <2>1 DEF LoopBody, Locals
    <2>2. CASE e < max
      <3>1. e * 2 = 2 * e /\ 2 * e \in Nat /\ 2 * e < PowerOf2[Width] /\ PowerOf2[Width] \in Nat
        BY <1>0, <1>1, <2>2
      <3>2. (e * 2) % PowerOf2[Width] = 2 * e
        <4>1. PICK t, w \in Nat : t = e * 2 /\ w = PowerOf2[Width] /\ t < w
          BY <3>1
        <4>2. t % w = t
          BY <4>1, NoWrap
        <4> QED BY <3>1, <4>1, <4>2
      <3>3. LoopBody(e, max) = [effective |-> 2 * e, returned |-> FALSE]
        <4>1. ~(e >= max)  BY <1>1, <2>2
        <4> QED BY <4>1, <3>2 DEF LoopBody
      <3> QED BY <1>1, <2>2, <3>1, <3>3 DEF Locals
    <2> QED BY <1>1, <2>1, <2>2
  <1>3. step \in Steps(Locals) /\ start \in Locals
    BY <1>1, <1>2 DEF Steps, Locals
  <1> HIDE DEF step, start
  <1>4. PICK f : Unfolds(f, Locals, start, step)
    BY <1>3, RecursionExists
  <1>5. f = [i \in Nat |-> IF i = 0 THEN [effective |-> down, returned |-> FALSE]
               ELSE IF f[i - 1].returned THEN f[i - 1]
               ELSE LoopBody(f[i - 1].effective, max)]
    <2>1. /\ f = [i \in Nat |-> IF i = 0 THEN start ELSE step[i - 1][f[i - 1]]]
          /\ \A i \in Nat \ {0} : f[i - 1] \in Locals
      BY <1>4, UnfoldsBackwards
    <2>2. ASSUME NEW i \in Nat, i # 0
          PROVE  step[i - 1][f[i - 1]] = IF f[i - 1].returned THEN f[i - 1]
                                         ELSE LoopBody(f[i - 1].effective, max)
      <3>1. PICK j \in Nat : j = i - 1
        BY <2>2
      <3>2. i \in Nat \ {0}
        BY <2>2
      <3>3. f[j] \in Locals
        BY <2>1, <3>1, <3>2
      <3>4. step[j][f[j]] = IF f[j].returned THEN f[j] ELSE LoopBody(f[j].effective, max)
        BY <3>3 DEF step
      <3> QED BY <3>1, <3>4
    <2> QED BY <2>1, <2>2 DEF start
  <1>6. after = [i \in Nat |-> IF i = 0 THEN [effective |-> down, returned |-> FALSE]
               ELSE IF after[i - 1].returned THEN after[i - 1]
               ELSE LoopBody(after[i - 1].effective, max)]
    BY <1>5
  <1>7. Loop(down, max, attempts) = after[attempts]
    BY DEF Loop
  <1> HIDE DEF after
  <1>8. after[0] = start /\ \A i \in Nat : after[i + 1] =
               IF after[i].returned THEN after[i]
               ELSE LoopBody(after[i].effective, max)
    BY <1>6 DEF start
  <1> DEFINE Inv(i) == 
               /\ after[i] \in Locals
               /\ ~after[i].returned => after[i].effective = down * PowerOf2[i]
               /\ after[i].returned => after[i].effective = max /\ down * PowerOf2[i] >= max
             S == {i \in Nat : Inv(i)}
  <1>9. 0 \in S
    <2>1. PowerOf2[0] = 1 /\ down * 1 = down
      BY <1>1, PowerOf2Equations
    <2>2. start \in Locals /\ ~start.returned /\ start.effective = down
      BY <1>1 DEF start, Locals
    <2> QED BY <1>8, <2>1, <2>2
  <1>10. ASSUME NEW i \in Nat, Inv(i) PROVE Inv(i + 1)
    <2>0. PICK p \in Nat \ {0} : p = PowerOf2[i]
      BY PowerOf2Equations
    <2>1. PICK e \in Nat : e = after[i].effective
      BY <1>10 DEF Locals
    <2>2. PowerOf2[i + 1] = 2 * p
      BY <2>0, PowerOf2Equations
    <2>3. down * p \in Nat /\ down * (2 * p) = 2 * (down * p)
      BY <1>1
    <2>4. CASE after[i].returned
      BY <1>1, <1>8, <1>10, <2>0, <2>2, <2>3, <2>4
    <2>5. CASE ~after[i].returned
      <3>1. after[i + 1] = LoopBody(e, max) /\ e = down * p
        BY <1>8, <1>10, <2>0, <2>1, <2>5
      <3>2. CASE e >= max
        BY <1>1, <1>2, <2>2, <2>3, <3>1, <3>2
      <3>3. CASE e < max
        BY <1>1, <1>2, <2>2, <2>3, <3>1, <3>3
      <3> QED BY <1>1, <3>2, <3>3
    <2> QED BY <2>4, <2>5
  <1>11. \A i \in Nat : i \in S
    <2>1. \A i \in Nat : i \in S => i + 1 \in S
      BY <1>10
    <2> HIDE DEF S
    <2> QED BY <1>9, <2>1, SetInduction
  <1>12. Inv(attempts)
    BY <1>11
  <1> QED BY <1>7, <1>12

\* For every width, threshold, cap and number of attempts the loop of
\* EffectiveDownHysteresisThreshold computes the closed form the models use
\* (circuit_breaker.go:25-37).
THEOREM LoopIsCappedDoubling ==
    ASSUME NEW max \in 0 .. PowerOf2[Width - 1], NEW down \in 0 .. max,
           NEW attempts \in Nat
    PROVE  EffectiveThresholdLoop(down, max, attempts) = CappedDoubling(down, max, attempts)
  <1> DEFINE l == Loop(down, max, attempts)
             d == down * PowerOf2[attempts]
  <1>0. PowerOf2[Width - 1] \in Nat /\ PowerOf2[attempts] \in Nat
    <2>1. Width - 1 \in Nat  BY WidthAssumption
    <2> QED BY <2>1, PowerOf2Equations
  <1>1. max \in Nat /\ down \in Nat /\ d \in Nat
    BY <1>0
  <1>2. /\ l \in Locals
        /\ ~l.returned => l.effective = d
        /\ l.returned => l.effective = max /\ d >= max
    BY LoopRounds
  <1>3. EffectiveThresholdLoop(down, max, attempts)
          = IF l.returned THEN l.effective ELSE AfterLoop(l.effective, max)
    BY DEF EffectiveThresholdLoop
  <1>4. CappedDoubling(down, max, attempts) = IF d \in 0 .. max THEN d ELSE max
    BY DEF CappedDoubling
  <1> HIDE DEF l, d
  <1>5. CASE l.returned
    BY <1>1, <1>2, <1>3, <1>4, <1>5
  <1>6. CASE ~l.returned
    BY <1>1, <1>2, <1>3, <1>4, <1>6 DEF AfterLoop
  <1> QED BY <1>5, <1>6

\* The remark in NextUnhealthyStreak's comment (circuit_breaker.go:149-151):
\* short of a critical condition, a warning is the same as not being healthy.
THEOREM WarningIsUnhealthy ==
    ASSUME NEW m \in Metrics, NEW d \in Nat, ~IsCriticalCondition(m, d)
    PROVE  IsWarningCondition(m) <=> ~IsHealthyCondition(m)
  BY DEF IsCriticalCondition, IsWarningCondition, IsHealthyCondition, IsBTCHealthy

\* A leaky counter stays between 0 and its cap.
LEMMA LeakyBounded ==
    ASSUME NEW n \in Nat, NEW healthy \in BOOLEAN, NEW cap \in Nat, n <= cap
    PROVE  /\ Leaky(n, healthy, cap) \in Nat
           /\ Leaky(n, healthy, cap) <= cap
           /\ Leaky(n, healthy, cap) <= n + 1
           /\ ~healthy => Leaky(n, healthy, cap) <= n
  BY DEF Leaky

\* The transitions CalculateNextState allows and what each of them requires.
LEMMA NextStateCases ==
    ASSUME NEW f \in FSM, NEW m \in Metrics, NEW pv \in BOOLEAN,
           NEW t, t = CalculateNextState(f, m, pv)
    PROVE  LET critical == IsCriticalCondition(m, f.suspiciousDuration)
               healthy  == IsHealthyCondition(m)
           IN /\ t \in FSMStates
              /\ f.state = Sovereign =>
                    t = IF healthy THEN Recovering ELSE Sovereign
              /\ f.state # Sovereign /\ critical => t = Sovereign
              /\ f.state = Anchored /\ ~critical =>
                    t = IF ~healthy /\ f.unhealthyStreak + 1
                                         >= DownHysteresisThreshold
                        THEN Suspicious ELSE Anchored
              /\ f.state = Suspicious /\ ~critical => t \in {Anchored, Suspicious}
              /\ f.state = Recovering /\ ~critical /\ ~healthy =>
                    t = IF f.unhealthyStreak + 1 >=
                             EffectiveDownHysteresisThreshold(
                               f.failedRecoveryAttempts)
                        THEN Sovereign ELSE Recovering
              /\ f.state = Recovering /\ ~critical /\ healthy =>
                    t = IF f.safeBlocks = HysteresisWait /\ pv
                        THEN Anchored ELSE Recovering
  <1>0. f.state \in FSMStates /\ f.suspiciousDuration \in Nat
    BY DEF FSM
  <1>1. ~IsCriticalCondition(m, f.suspiciousDuration) =>
           (IsWarningCondition(m) <=> ~IsHealthyCondition(m))
    BY <1>0, WarningIsUnhealthy
  <1>2. CASE f.state = Sovereign
    BY <1>2 DEF CalculateNextState, FSMStates, Anchored, Suspicious, Sovereign,
                Recovering
  <1>3. CASE f.state # Sovereign /\ IsCriticalCondition(m, f.suspiciousDuration)
    BY <1>3 DEF CalculateNextState, FSMStates, Anchored, Suspicious, Sovereign,
                Recovering
  <1>4. CASE f.state # Sovereign /\ ~IsCriticalCondition(m, f.suspiciousDuration)
    <2>1. CASE f.state = Anchored
      BY <1>1, <1>4, <2>1 DEF CalculateNextState, FSMStates, Anchored, Suspicious,
                              Sovereign, Recovering
    <2>2. CASE f.state = Suspicious
      BY <1>4, <2>2 DEF CalculateNextState, FSMStates, Anchored, Suspicious,
                        Sovereign, Recovering
    <2>3. CASE f.state = Recovering
      BY <1>4, <2>3 DEF CalculateNextState, RecoveryComplete, FSMStates, Anchored,
                        Suspicious, Sovereign, Recovering
    <2> QED BY <1>0, <1>4, <2>1, <2>2, <2>3 DEF FSMStates
  <1> QED BY <1>2, <1>3, <1>4

-----------------------------------------------------------------------------
(***************************************************************************)
(* The inductive invariant.  The properties hold one another up: a streak  *)
(* is real only because it stays below a threshold no larger than the cap  *)
(* of the history counter, and the gray-failure bound needs the duration   *)
(* to be 0 outside SUSPICIOUS.                                             *)
(***************************************************************************)

\* SUSPICIOUS credit never reaches the wait: reaching it leaves the state.
SuspiciousCreditBounded ==
    fsm.suspiciousSafeBlocks <= SuspiciousHysteresisWait

RunBounded == unhealthyRun <= MaxDownHysteresisThreshold

IInv ==
    /\ TypeOK
    /\ CountersBelongToState
    /\ GrayFailureBounded
    /\ SuspiciousCreditBounded
    /\ AbsorbedNoiseBounded
    /\ AttemptsSaturate
    /\ CreditIsEarned
    /\ StreakIsReal
    /\ RunBounded

\* What the FSM's own part of the invariant says, without the history.
RecoveryCreditBounded == fsm.safeBlocks <= HysteresisWait

FSMInv ==
    /\ fsm \in FSM
    /\ CountersBelongToState
    /\ GrayFailureBounded
    /\ SuspiciousCreditBounded
    /\ RecoveryCreditBounded
    /\ AbsorbedNoiseBounded
    /\ AttemptsSaturate

\* Genesis satisfies the FSM's part (types/genesis.go, app.go:162-209).
LEMMA InitFSMInv == fsm = GenesisFSM => FSMInv
  BY ParamsAssumption
  DEF FSMInv, CountersBelongToState, GrayFailureBounded, SuspiciousCreditBounded,
      RecoveryCreditBounded, AbsorbedNoiseBounded, AttemptsSaturate, GenesisFSM,
      FSM, FSMStates, Anchored, Suspicious, Sovereign, Recovering

\* Genesis satisfies the inductive invariant (types/genesis.go, app.go:162-209).
LEMMA InitIInv == Init => IInv
  BY InitFSMInv, ParamsAssumption
  DEF Init, IInv, FSMInv, TypeOK, CreditIsEarned, StreakIsReal, RunBounded,
      GenesisFSM, Blocks

\* A committed reading preserves the FSM's part, whatever the history
\* (step 3 of CommitFSMTransition).
LEMMA StepFSMInv ==
    ASSUME FSMInv, NEW m \in Metrics, NEW pv \in BOOLEAN,
           fsm' = CommitFSM(fsm, CalculateNextState(fsm, m, pv), IsHealthyCondition(m))
    PROVE  FSMInv'
  <1> DEFINE target   == CalculateNextState(fsm, m, pv)
             healthy  == IsHealthyCondition(m)
             critical == IsCriticalCondition(m, fsm.suspiciousDuration)
             eff      == EffectiveDownHysteresisThreshold(fsm.failedRecoveryAttempts)
  <1>f. fsm \in FSM
    BY DEF FSMInv
  <1>t. /\ fsm.state \in FSMStates /\ fsm.safeBlocks \in Nat
        /\ fsm.suspiciousDuration \in Nat /\ fsm.suspiciousSafeBlocks \in Nat
        /\ fsm.unhealthyStreak \in Nat /\ fsm.failedRecoveryAttempts \in Nat
    BY <1>f DEF FSM
  <1>h. healthy \in BOOLEAN /\ critical \in BOOLEAN
    BY DEF IsHealthyCondition, IsBTCHealthy, IsCriticalCondition
  <1>e. eff \in Nat /\ eff <= MaxDownHysteresisThreshold
    BY EffectiveBounded
  <1>n. /\ target \in FSMStates
        /\ fsm.state = Sovereign =>
              target = IF healthy THEN Recovering ELSE Sovereign
        /\ fsm.state # Sovereign /\ critical => target = Sovereign
        /\ fsm.state = Anchored /\ ~critical =>
              target = IF ~healthy /\ fsm.unhealthyStreak + 1
                                       >= DownHysteresisThreshold
                       THEN Suspicious ELSE Anchored
        /\ fsm.state = Suspicious /\ ~critical => target \in {Anchored, Suspicious}
        /\ fsm.state = Recovering /\ ~critical /\ ~healthy =>
              target = IF fsm.unhealthyStreak + 1 >= eff
                       THEN Sovereign ELSE Recovering
        /\ fsm.state = Recovering /\ ~critical /\ healthy =>
              target = IF fsm.safeBlocks = HysteresisWait /\ pv
                       THEN Anchored ELSE Recovering
    BY <1>f, NextStateCases
  <1>u. /\ fsm'.state = target
        /\ fsm'.safeBlocks = NextSafeBlocks(fsm, target, healthy)
        /\ fsm'.suspiciousDuration = NextSuspiciousDuration(fsm, target)
        /\ fsm'.suspiciousSafeBlocks = NextSuspiciousSafeBlocks(fsm, target, healthy)
        /\ fsm'.unhealthyStreak = NextUnhealthyStreak(fsm, target, healthy)
        /\ fsm'.failedRecoveryAttempts = NextFailedRecoveryAttempts(fsm, target)
        /\ fsm' = CommitFSM(fsm, target, healthy)
    BY DEF CommitFSM
  <1> HIDE DEF target, healthy, critical, eff
  <1> USE DEF Anchored, Suspicious, Sovereign, Recovering
  <1>1. /\ fsm'.safeBlocks \in Nat
        /\ fsm'.safeBlocks > 0 => fsm'.state = Recovering
        /\ fsm'.safeBlocks <= HysteresisWait
    <2>1. CASE target # Recovering \/ fsm.state # Recovering
      BY <1>u, <2>1, ParamsAssumption DEF NextSafeBlocks
    <2>2. CASE target = Recovering /\ fsm.state = Recovering
      <3>1. fsm'.safeBlocks = Leaky(fsm.safeBlocks, healthy, HysteresisWait)
        BY <1>u, <2>2 DEF NextSafeBlocks
      <3>2. fsm.safeBlocks <= HysteresisWait /\ HysteresisWait \in Nat
        BY ParamsAssumption DEF FSMInv, RecoveryCreditBounded
      <3>3. LET leaky == Leaky(fsm.safeBlocks, healthy, HysteresisWait)
            IN  leaky \in Nat /\ leaky <= HysteresisWait
        BY <1>t, <1>h, <3>2, LeakyBounded, Zenon
      <3> QED BY <1>u, <2>2, <3>1, <3>3
    <2> QED BY <2>1, <2>2
  <1>2. /\ fsm'.suspiciousSafeBlocks \in Nat
        /\ fsm'.suspiciousSafeBlocks > 0 => fsm'.state = Suspicious
        /\ fsm'.suspiciousSafeBlocks <= SuspiciousHysteresisWait
    <2>1. CASE target # Suspicious \/ fsm.state # Suspicious
      BY <1>u, <2>1, ParamsAssumption DEF NextSuspiciousSafeBlocks
    <2>2. CASE target = Suspicious /\ fsm.state = Suspicious
      <3>1. fsm'.suspiciousSafeBlocks =
               Leaky(fsm.suspiciousSafeBlocks, healthy, SuspiciousHysteresisWait)
        BY <1>u, <2>2 DEF NextSuspiciousSafeBlocks
      <3>2. fsm.suspiciousSafeBlocks <= SuspiciousHysteresisWait
        BY DEF FSMInv, SuspiciousCreditBounded
      <3>3. SuspiciousHysteresisWait \in Nat
        BY ParamsAssumption
      <3>4. LET leaky == Leaky(fsm.suspiciousSafeBlocks, healthy,
                               SuspiciousHysteresisWait)
            IN  leaky \in Nat /\ leaky <= SuspiciousHysteresisWait
        BY <1>t, <1>h, <3>2, <3>3, LeakyBounded, Zenon
      <3> QED BY <1>u, <2>2, <3>1, <3>4
    <2> QED BY <2>1, <2>2
  <1>3. /\ fsm'.suspiciousDuration \in Nat
        /\ fsm'.suspiciousDuration > 0 <=> fsm'.state = Suspicious
        /\ fsm'.suspiciousDuration <= MaxSuspiciousTime
    <2>1. CASE target # Suspicious
      BY <1>u, <2>1, ParamsAssumption DEF NextSuspiciousDuration
    <2>2. CASE target = Suspicious
      <3>1. ~critical
        BY <1>n, <1>t, <2>2 DEF FSMStates
      <3>2. fsm.suspiciousDuration < MaxSuspiciousTime
        BY <1>t, <3>1, ParamsAssumption DEF critical, IsCriticalCondition
      <3>3. fsm'.suspiciousDuration = fsm.suspiciousDuration + 1
        BY <1>t, <1>u, <2>2, <3>2, ParamsAssumption DEF NextSuspiciousDuration
      <3> QED BY <1>t, <1>u, <2>2, <3>2, <3>3, ParamsAssumption
    <2> QED BY <2>1, <2>2
  <1>4. /\ fsm'.unhealthyStreak \in Nat
        /\ fsm'.unhealthyStreak > 0 => fsm'.state \in {Anchored, Recovering}
        /\ fsm'.unhealthyStreak > 0 =>
              fsm'.unhealthyStreak < IF fsm'.state = Anchored
                                     THEN DownHysteresisThreshold
                                     ELSE EffectiveDownHysteresisThreshold(
                                            fsm'.failedRecoveryAttempts)
    <2>1. CASE ~(target = fsm.state /\ fsm.state \in {Anchored, Recovering} /\ ~healthy)
      BY <1>u, <2>1 DEF NextUnhealthyStreak
    <2>2. CASE target = fsm.state /\ fsm.state \in {Anchored, Recovering} /\ ~healthy
      <3>1. fsm'.unhealthyStreak = fsm.unhealthyStreak + 1
        BY <1>u, <2>2 DEF NextUnhealthyStreak
      <3>2. fsm'.failedRecoveryAttempts = fsm.failedRecoveryAttempts
        BY <1>u, <2>2 DEF NextFailedRecoveryAttempts
      <3>3. EffectiveDownHysteresisThreshold(fsm'.failedRecoveryAttempts) = eff
        BY <3>2 DEF eff
      <3>4. ~critical
        BY <1>n, <2>2
      <3>5. fsm.unhealthyStreak + 1 < IF fsm.state = Anchored
                                      THEN DownHysteresisThreshold ELSE eff
        BY <1>e, <1>n, <1>t, <2>2, <3>4, ParamsAssumption
      <3> QED BY <1>e, <1>t, <1>u, <2>2, <3>1, <3>3, <3>5, ParamsAssumption
    <2> QED BY <2>1, <2>2
  <1>5. /\ fsm'.failedRecoveryAttempts \in Nat
        /\ fsm'.failedRecoveryAttempts > 0 =>
              EffectiveDownHysteresisThreshold(fsm'.failedRecoveryAttempts - 1)
                < MaxDownHysteresisThreshold
    <2>0. fsm.failedRecoveryAttempts > 0 =>
             EffectiveDownHysteresisThreshold(fsm.failedRecoveryAttempts - 1)
               < MaxDownHysteresisThreshold
      BY DEF FSMInv, AttemptsSaturate
    <2>1. CASE fsm'.failedRecoveryAttempts = fsm.failedRecoveryAttempts
      BY <1>t, <2>0, <2>1
    <2>2. CASE fsm'.failedRecoveryAttempts = 0
      BY <2>2
    <2>3. CASE /\ fsm'.failedRecoveryAttempts = fsm.failedRecoveryAttempts + 1
               /\ eff < MaxDownHysteresisThreshold
      <3>1. fsm'.failedRecoveryAttempts - 1 = fsm.failedRecoveryAttempts
        BY <1>t, <2>3
      <3>2. EffectiveDownHysteresisThreshold(fsm'.failedRecoveryAttempts - 1) = eff
        BY <3>1 DEF eff
      <3> QED BY <1>t, <2>3, <3>2
    <2>4. \/ fsm'.failedRecoveryAttempts = fsm.failedRecoveryAttempts
          \/ fsm'.failedRecoveryAttempts = 0
          \/ /\ fsm'.failedRecoveryAttempts = fsm.failedRecoveryAttempts + 1
             /\ eff < MaxDownHysteresisThreshold
      <3>1. NextFailedRecoveryAttempts(fsm, target) =
               CASE fsm.state = Recovering /\ target = Sovereign ->
                       IF eff >= MaxDownHysteresisThreshold
                       THEN fsm.failedRecoveryAttempts
                       ELSE fsm.failedRecoveryAttempts + 1
                 [] fsm.state = Recovering /\ target = Anchored -> 0
                 [] OTHER -> fsm.failedRecoveryAttempts
        BY DEF NextFailedRecoveryAttempts, eff
      <3>2. ~(eff >= MaxDownHysteresisThreshold) => eff < MaxDownHysteresisThreshold
        BY <1>e, ParamsAssumption
      <3> QED BY <1>u, <3>1, <3>2
    <2> QED BY <2>1, <2>2, <2>3, <2>4
  <1>6. fsm' \in FSM
    <2>1. fsm' = [state                  |-> fsm'.state,
                  safeBlocks             |-> fsm'.safeBlocks,
                  suspiciousDuration     |-> fsm'.suspiciousDuration,
                  suspiciousSafeBlocks   |-> fsm'.suspiciousSafeBlocks,
                  unhealthyStreak        |-> fsm'.unhealthyStreak,
                  failedRecoveryAttempts |-> fsm'.failedRecoveryAttempts]
      BY <1>u DEF CommitFSM
    <2> QED BY <1>n, <1>u, <1>1, <1>2, <1>3, <1>4, <1>5, <2>1 DEF FSM
  <1> QED
    BY <1>1, <1>2, <1>3, <1>4, <1>5, <1>6
    DEF FSMInv, CountersBelongToState, GrayFailureBounded, SuspiciousCreditBounded,
        RecoveryCreditBounded, AbsorbedNoiseBounded, AttemptsSaturate

\* A block preserves the inductive invariant (abci.go:13-106).
LEMMA BlockIInv ==
    ASSUME IInv, NEW m \in Readings, NEW pv \in BOOLEAN, BeginBlocker(m, pv)
    PROVE  IInv'
  <1> DEFINE target  == CalculateNextState(fsm, m, pv)
             healthy == IsHealthyCondition(m)
  <1>f. /\ fsm \in FSM /\ unhealthyRun \in Nat /\ healthySeen \in Nat
        /\ fsm.safeBlocks \in Nat /\ fsm.unhealthyStreak \in Nat
    BY DEF IInv, TypeOK, FSM
  <1>h. healthy \in BOOLEAN
    BY DEF IsHealthyCondition, IsBTCHealthy
  <1>u. /\ fsm' = CommitFSM(fsm, target, healthy)
        /\ fsm'.safeBlocks = NextSafeBlocks(fsm, target, healthy)
        /\ fsm'.unhealthyStreak = NextUnhealthyStreak(fsm, target, healthy)
        /\ unhealthyRun' = NextUnhealthyRun(healthy)
        /\ healthySeen' = NextHealthySeen(target, healthy)
    BY DEF BeginBlocker, CommitFSM
  <1>i. FSMInv'
    <2>1. FSMInv
      BY <1>f, ParamsAssumption DEF IInv, TypeOK, FSMInv, RecoveryCreditBounded, CreditIsEarned
    <2>2. m \in Metrics
      BY ReadingsAssumption
    <2> QED BY <1>u, <2>1, <2>2, StepFSMInv
  <1>b. block' \in Blocks /\ parity' \in {0, 1}
    <2>1. IsCriticalCondition(m, fsm.suspiciousDuration) \in BOOLEAN
      BY DEF IsCriticalCondition
    <2> QED BY <1>h, <2>1 DEF BeginBlocker, Blocks, IInv, TypeOK
  <1> HIDE DEF target, healthy
  <1> USE DEF Anchored, Suspicious, Sovereign, Recovering
  <1>1. healthySeen' \in Nat /\ CreditIsEarned'
    <2>0. /\ fsm.safeBlocks <= healthySeen /\ healthySeen <= HysteresisWait
          /\ HysteresisWait \in Nat /\ fsm.safeBlocks <= HysteresisWait
      BY <1>f, ParamsAssumption DEF IInv, CreditIsEarned
    <2>1. CASE target # Recovering \/ fsm.state # Recovering
      BY <1>u, <2>0, <2>1 DEF NextSafeBlocks, NextHealthySeen, CreditIsEarned
    <2>2. CASE target = Recovering /\ fsm.state = Recovering
      <3> DEFINE leaky == Leaky(fsm.safeBlocks, healthy, HysteresisWait)
      <3>1. fsm'.safeBlocks = leaky
        BY <1>u, <2>2 DEF NextSafeBlocks
      <3>2. /\ leaky \in Nat /\ leaky <= HysteresisWait
            /\ leaky <= fsm.safeBlocks + 1
            /\ ~healthy => leaky <= fsm.safeBlocks
        BY <1>f, <1>h, <2>0, LeakyBounded, Zenon
      <3>3. healthySeen' = IF healthy /\ healthySeen < HysteresisWait
                           THEN healthySeen + 1 ELSE healthySeen
        BY <1>u, <2>2 DEF NextHealthySeen
      <3> HIDE DEF leaky
      <3> QED BY <1>f, <2>0, <3>1, <3>2, <3>3 DEF CreditIsEarned
    <2> QED BY <2>1, <2>2
  <1>2. unhealthyRun' \in Nat /\ RunBounded' /\ StreakIsReal'
    <2>0. unhealthyRun <= MaxDownHysteresisThreshold /\ fsm.unhealthyStreak <= unhealthyRun
      BY DEF IInv, RunBounded, StreakIsReal
    <2>1. /\ unhealthyRun' \in Nat /\ unhealthyRun' <= MaxDownHysteresisThreshold
          /\ ~healthy => unhealthyRun' = IF unhealthyRun < MaxDownHysteresisThreshold
                                         THEN unhealthyRun + 1 ELSE unhealthyRun
      BY <1>f, <1>h, <1>u, <2>0, ParamsAssumption DEF NextUnhealthyRun
    <2>2. fsm'.unhealthyStreak <= unhealthyRun'
      <3>1. CASE fsm'.unhealthyStreak = 0
        BY <2>1, <3>1
      <3>2. CASE fsm'.unhealthyStreak # 0
        <4>1. ~healthy /\ fsm'.unhealthyStreak = fsm.unhealthyStreak + 1
          BY <1>u, <3>2 DEF NextUnhealthyStreak
        <4>2. fsm'.unhealthyStreak < MaxDownHysteresisThreshold
          <5>1. \A n : EffectiveDownHysteresisThreshold(n) \in Nat
                       /\ EffectiveDownHysteresisThreshold(n) <= MaxDownHysteresisThreshold
            BY EffectiveBounded
          <5>2. fsm'.unhealthyStreak < IF fsm'.state = Anchored
                                       THEN DownHysteresisThreshold
                                       ELSE EffectiveDownHysteresisThreshold(
                                              fsm'.failedRecoveryAttempts)
            BY <1>f, <1>i, <4>1 DEF FSMInv, AbsorbedNoiseBounded
          <5> QED BY <1>f, <4>1, <5>1, <5>2, ParamsAssumption
        <4> QED BY <1>f, <2>0, <2>1, <4>1, <4>2, ParamsAssumption
      <3> QED BY <3>1, <3>2
    <2> QED BY <2>1, <2>2 DEF RunBounded, StreakIsReal
  <1> QED BY <1>i, <1>b, <1>1, <1>2 DEF IInv, FSMInv, TypeOK

\* The FSM's part is an invariant of whatever implements FSMSpec.
THEOREM FSMInvariance == FSMSpec => []FSMInv
  <1>1. FSMInv /\ [FSMStep]_fsm => FSMInv'
    <2> SUFFICES ASSUME FSMInv, [FSMStep]_fsm PROVE FSMInv'
      OBVIOUS
    <2>1. CASE FSMStep
      BY <2>1, StepFSMInv, ReadingsAssumption DEF FSMStep
    <2>2. CASE UNCHANGED fsm
      BY <2>2
      DEF FSMInv, CountersBelongToState, GrayFailureBounded, SuspiciousCreditBounded,
          RecoveryCreditBounded, AbsorbedNoiseBounded, AttemptsSaturate
    <2> QED BY <2>1, <2>2
  <1> QED BY <1>1, InitFSMInv, PTL DEF FSMSpec

\* The FSM keeps its inductive invariant (BeginBlocker, abci.go:13-106).
THEOREM Invariance == Spec => []IInv
  <1>1. IInv /\ [Next]_vars => IInv'
    <2> SUFFICES ASSUME IInv, [Next]_vars PROVE IInv'
      OBVIOUS
    <2>1. CASE Next
      BY <2>1, BlockIInv DEF Next
    <2>2. CASE UNCHANGED vars
      BY <2>2
      DEF vars, IInv, TypeOK, CountersBelongToState, GrayFailureBounded,
          SuspiciousCreditBounded, AbsorbedNoiseBounded, AttemptsSaturate,
          CreditIsEarned, StreakIsReal, RunBounded
    <2> QED BY <2>1, <2>2
  <1> QED BY <1>1, InitIInv, PTL DEF Spec

\* The FSM record is always well formed (circuit_breaker.go:107-196).
THEOREM TypeCorrect == Spec => []TypeOK
  BY Invariance, PTL DEF IInv

\* No counter outlives its state (circuit_breaker.go:107-196).
THEOREM CountersTheorem == Spec => []CountersBelongToState
  BY Invariance, PTL DEF IInv

\* SUSPICIOUS lasts at most MaxSuspiciousTime blocks (circuit_breaker.go:186-196).
THEOREM GrayFailureTheorem == Spec => []GrayFailureBounded
  BY Invariance, PTL DEF IInv

\* Absorbed noise stays below the threshold in force (circuit_breaker.go:46-101).
THEOREM AbsorbedNoiseTheorem == Spec => []AbsorbedNoiseBounded
  BY Invariance, PTL DEF IInv

\* The attempts counter saturates (circuit_breaker.go:167-179).
THEOREM AttemptsTheorem == Spec => []AttemptsSaturate
  BY Invariance, PTL DEF IInv

\* safe_blocks counts healthy blocks of the recovery in progress only
\* (circuit_breaker.go:107-121).
THEOREM CreditTheorem == Spec => []CreditIsEarned
  BY Invariance, PTL DEF IInv

\* The streak counts blocks that really were unhealthy (circuit_breaker.go:154-161).
THEOREM StreakTheorem == Spec => []StreakIsReal
  BY Invariance, PTL DEF IInv

\* A demotion without a critical block takes a full streak of unhealthy blocks
\* (circuit_breaker.go:43-45 and 82-91).
THEOREM DemotionTheorem == Spec => DemotionNeedsStreak
  <1> DEFINE A ==
        /\ fsm.state = Anchored /\ fsm'.state = Suspicious
             => unhealthyRun' >= DownHysteresisThreshold
        /\ fsm.state = Recovering /\ fsm'.state = Sovereign /\ ~block'.critical
             => unhealthyRun' >= EffectiveDownHysteresisThreshold(
                                   fsm.failedRecoveryAttempts)
  <1>1. ASSUME IInv, NEW m \in Readings, NEW pv \in BOOLEAN, BeginBlocker(m, pv)
        PROVE  A
    <2> DEFINE target   == CalculateNextState(fsm, m, pv)
               healthy  == IsHealthyCondition(m)
               critical == IsCriticalCondition(m, fsm.suspiciousDuration)
               eff      == EffectiveDownHysteresisThreshold(
                             fsm.failedRecoveryAttempts)
    <2>1. m \in Metrics /\ fsm \in FSM /\ unhealthyRun \in Nat
      BY <1>1, ReadingsAssumption DEF IInv, TypeOK
    <2>2. /\ fsm.state = Anchored /\ critical => target = Sovereign
          /\ fsm.state = Anchored /\ ~critical =>
                target = IF ~healthy /\ fsm.unhealthyStreak + 1
                                         >= DownHysteresisThreshold
                         THEN Suspicious ELSE Anchored
          /\ fsm.state = Recovering /\ ~critical /\ ~healthy =>
                target = IF fsm.unhealthyStreak + 1 >= eff
                         THEN Sovereign ELSE Recovering
          /\ fsm.state = Recovering /\ ~critical /\ healthy =>
                target = IF fsm.safeBlocks = HysteresisWait /\ pv
                         THEN Anchored ELSE Recovering
      BY <2>1, NextStateCases DEF Anchored, Sovereign
    <2>3. /\ fsm'.state = target /\ block'.critical = critical
          /\ unhealthyRun' = NextUnhealthyRun(healthy)
      BY <1>1 DEF BeginBlocker, CommitFSM
    <2>4. /\ fsm.unhealthyStreak \in Nat /\ fsm.unhealthyStreak <= unhealthyRun
          /\ unhealthyRun <= MaxDownHysteresisThreshold
      BY <1>1, <2>1 DEF IInv, StreakIsReal, RunBounded, FSM
    <2>5. eff \in Nat /\ eff <= MaxDownHysteresisThreshold
      BY EffectiveBounded
    <2> HIDE DEF target, healthy, critical, eff
    <2>6. ASSUME fsm.state = Anchored, fsm'.state = Suspicious
          PROVE  unhealthyRun' >= DownHysteresisThreshold
      BY <2>1, <2>2, <2>3, <2>4, <2>6, ParamsAssumption
      DEF NextUnhealthyRun, Anchored, Suspicious, Sovereign
    <2>7. ASSUME fsm.state = Recovering, fsm'.state = Sovereign, ~block'.critical
          PROVE  unhealthyRun' >= eff
      BY <2>1, <2>2, <2>3, <2>4, <2>5, <2>7, ParamsAssumption
      DEF NextUnhealthyRun, Anchored, Sovereign, Recovering
    <2> QED BY <2>6, <2>7 DEF eff
  <1>2. IInv /\ [Next]_vars => [A]_vars
    BY <1>1 DEF Next
  <1> QED BY <1>2, Invariance, PTL DEF Spec, DemotionNeedsStreak

(***************************************************************************)
(* Refinement of WithdrawLock.                                             *)
(***************************************************************************)

\* The FSM implements the withdraw lock: no sequence of readings, absorbed
\* noise and regressions opens it early or leaves it open in a critical block.
THEOREM LockRefinement == Spec => LockSpec
  <1>1. Init => Lock!Init
    BY DEF Init, Lock!Init, Blocks, Lock!Blocks, GenesisFSM, WithdrawLocked,
           Anchored, Sovereign, Recovering
  <1>2. ASSUME IInv, NEW m \in Readings, NEW pv \in BOOLEAN, BeginBlocker(m, pv)
        PROVE  Lock!Next
    <2> DEFINE target   == CalculateNextState(fsm, m, pv)
               healthy  == IsHealthyCondition(m)
               critical == IsCriticalCondition(m, fsm.suspiciousDuration)
    <2>1. m \in Metrics /\ fsm \in FSM /\ healthySeen \in Nat
      BY <1>2, ReadingsAssumption DEF IInv, TypeOK
    <2>2. /\ target \in FSMStates
          /\ fsm.state = Sovereign =>
                target = IF healthy THEN Recovering ELSE Sovereign
          /\ fsm.state # Sovereign /\ critical => target = Sovereign
          /\ fsm.state = Anchored /\ ~critical => target \in {Anchored, Suspicious}
          /\ fsm.state = Suspicious /\ ~critical => target \in {Anchored, Suspicious}
          /\ fsm.state = Recovering /\ ~critical /\ ~healthy =>
                target \in {Sovereign, Recovering}
          /\ fsm.state = Recovering /\ ~critical /\ healthy =>
                target = IF fsm.safeBlocks = HysteresisWait /\ pv
                         THEN Anchored ELSE Recovering
      BY <2>1, NextStateCases
    <2>3. /\ fsm'.state = target
          /\ block' = [healthy |-> healthy, critical |-> critical, proofValid |-> pv]
          /\ healthySeen' = NextHealthySeen(target, healthy)
      BY <1>2 DEF BeginBlocker, CommitFSM
    <2>4. fsm.state \in FSMStates /\ fsm.safeBlocks \in Nat
      BY <2>1 DEF FSM
    <2>5. fsm.safeBlocks <= healthySeen /\ HysteresisWait \in Nat
      BY <1>2, ParamsAssumption DEF IInv, CreditIsEarned
    <2>6. healthy \in BOOLEAN /\ critical \in BOOLEAN
      BY DEF IsHealthyCondition, IsBTCHealthy, IsCriticalCondition
    <2>7. block' \in Lock!Blocks
      BY <2>3, <2>6 DEF Lock!Blocks
    <2>8. block'.healthy = healthy /\ block'.critical = critical
          /\ block'.proofValid = pv
      BY <2>3
    <2> HIDE DEF target, healthy, critical
    <2> USE DEF Anchored, Suspicious, Sovereign, Recovering, WithdrawLocked
    <2>9. CASE fsm.state \in {Anchored, Suspicious} /\ ~critical
      <3>1. target \in {Anchored, Suspicious}
        BY <2>2, <2>9
      <3> QED BY <2>3, <2>7, <2>8, <2>9, <3>1
              DEF Lock!Next, Lock!StayOpen, NextHealthySeen
    <2>10. CASE fsm.state \in {Anchored, Suspicious} /\ critical
      <3>1. target = Sovereign
        BY <2>2, <2>10
      <3> QED BY <2>3, <2>7, <2>8, <2>10, <3>1
              DEF Lock!Next, Lock!Trip, NextHealthySeen
    <2>11. CASE fsm.state \in {Sovereign, Recovering} /\ target \in {Sovereign, Recovering}
      <3>1. \/ healthySeen' \in {0, healthySeen}
            \/ healthy /\ healthySeen' = healthySeen + 1
        BY <2>3 DEF NextHealthySeen
      <3> QED BY <2>3, <2>7, <2>8, <2>11, <3>1 DEF Lock!Next, Lock!StayClosed
    <2>12. CASE fsm.state \in {Sovereign, Recovering} /\ target \in {Anchored, Suspicious}
      <3>1. /\ fsm.state = Recovering /\ ~critical /\ healthy /\ pv
            /\ fsm.safeBlocks = HysteresisWait
        BY <2>2, <2>6, <2>12
      <3>2. healthySeen >= HysteresisWait /\ healthySeen' = 0
        BY <2>1, <2>3, <2>4, <2>5, <2>12, <3>1 DEF NextHealthySeen
      <3>3. WithdrawLocked(fsm.state) /\ WithdrawLocked(fsm'.state) = FALSE
        BY <2>3, <2>12
      <3>4. block'.healthy /\ ~block'.critical /\ block'.proofValid
        BY <2>8, <3>1
      <3> QED BY <2>7, <3>2, <3>3, <3>4 DEF Lock!Next, Lock!Open
    <2> QED BY <2>2, <2>4, <2>6, <2>9, <2>10, <2>11, <2>12 DEF FSMStates
  <1>3. IInv /\ [Next]_vars => [Lock!Next]_(Lock!vars)
    <2> SUFFICES ASSUME IInv, [Next]_vars PROVE [Lock!Next]_(Lock!vars)
      OBVIOUS
    <2>1. CASE Next
      BY <1>2, <2>1 DEF Next
    <2>2. CASE UNCHANGED vars
      BY <2>2 DEF vars, Lock!vars
    <2> QED BY <2>1, <2>2
  <1> QED BY <1>1, <1>3, Invariance, PTL DEF Spec, LockSpec, Lock!Spec

-----------------------------------------------------------------------------
(* The threshold arithmetic *)

\* In every state the loop computes the closed form, for every parameter pair
\* and every number of attempts still ahead (circuit_breaker.go:25-37).
THEOREM LoopTheorem == Spec => []LoopMatchesClosedForm
  <1>1. IInv => LoopMatchesClosedForm
    <2> SUFFICES ASSUME IInv,
                        NEW max \in 0 .. PowerOf2[Width - 1],
                        NEW attempts \in fsm.failedRecoveryAttempts .. MaxAttempts,
                        NEW down \in 0 .. max
                 PROVE  EffectiveThresholdLoop(down, max, attempts)
                          = CappedDoubling(down, max, attempts)
      BY DEF LoopMatchesClosedForm
    <2>1. fsm.failedRecoveryAttempts \in Nat
      BY DEF IInv, TypeOK, FSM
    <2>2. attempts \in Nat
      BY <2>1, WidthAssumption
    <2> QED BY <2>2, LoopIsCappedDoubling
  <1> QED BY <1>1, Invariance, PTL

\* The attempts counter, and with it the rounds of the loop, stay logarithmic
\* in the cap when the threshold is at least one block (circuit_breaker.go:163-179).
AttemptsLogarithmic ==
    fsm.failedRecoveryAttempts > 0 =>
        DownHysteresisThreshold * PowerOf2[fsm.failedRecoveryAttempts - 1]
            < MaxDownHysteresisThreshold

\* The attempts counter is logarithmic in the cap (circuit_breaker.go:163-179).
THEOREM AttemptsLogarithmicTheorem == Spec => []AttemptsLogarithmic
  <1>1. IInv => AttemptsLogarithmic
    <2> SUFFICES ASSUME IInv, fsm.failedRecoveryAttempts > 0
                 PROVE  DownHysteresisThreshold * PowerOf2[fsm.failedRecoveryAttempts - 1]
                          < MaxDownHysteresisThreshold
      BY DEF AttemptsLogarithmic
    <2>1. fsm.failedRecoveryAttempts \in Nat
      BY DEF IInv, TypeOK, FSM
    <2>2. PICK n \in Nat : n = fsm.failedRecoveryAttempts - 1
      BY <2>1
    <2>3. CappedDoubling(DownHysteresisThreshold, MaxDownHysteresisThreshold, n)
            < MaxDownHysteresisThreshold
      BY <2>2 DEF IInv, AttemptsSaturate, EffectiveDownHysteresisThreshold
    <2>4. PICK d \in Nat : d = DownHysteresisThreshold * PowerOf2[n]
      <3>1. PowerOf2[n] \in Nat
        BY PowerOf2Equations
      <3> QED BY <3>1, ParamsAssumption
    <2>5. (IF d \in 0 .. MaxDownHysteresisThreshold THEN d ELSE MaxDownHysteresisThreshold)
            < MaxDownHysteresisThreshold
      BY <2>3, <2>4 DEF CappedDoubling
    <2>6. d < MaxDownHysteresisThreshold
      BY <2>5, ParamsAssumption
    <2> QED BY <2>2, <2>4, <2>6
  <1> QED BY <1>1, Invariance, PTL
=============================================================================
