--------------------------- MODULE ReanchoringProofs ----------------------------
(***************************************************************************)
(* The header history, the rolling checkpoint and the latch of an accepted *)
(* proof stay consistent for all parameters, intervals of any length and   *)
(* any order of proving, submitting, including and regressing.             *)
(***************************************************************************)
EXTENDS Reanchoring, FiniteSetTheorems, SequenceTheorems, TLAPS

\* The store is a record of these fields.
AppShape ==
    app = [fsm |-> app.fsm, height |-> app.height,
           hBtcAnchored |-> app.hBtcAnchored,
           hEngramVerified |-> app.hEngramVerified,
           hBtcSubmitted |-> app.hBtcSubmitted, hBtcCurrent |-> app.hBtcCurrent,
           realProof |-> app.realProof, headers |-> app.headers,
           lastRoot |-> app.lastRoot, forced |-> app.forced]

AppTypes ==
    /\ app.fsm.state \in FSMStates
    /\ app.height \in Nat /\ app.lastRoot \in Nat /\ app.realProof \in Nat
    /\ start \in Nat

\* A proof covers recorded heights only, and one that is about to execute covers
\* none of the block it executes in.
ProofsAreOld ==
    /\ \A p \in proofs : /\ p.kind = "proof" /\ p.rtNew \in Nat
                         /\ p.rtNew <= app.height
    /\ txs \in Seq(proofs)
    /\ \A i \in 1 .. Len(txs) : txs[i].rtNew < app.height

CheckpointBelowTip == Locked => app.lastRoot <= app.height

\* Start and coverage are recorded for the current interval only.
StartOfInterval ==
    IF Locked THEN start <= app.height + 1 /\ start # 0
    ELSE start = 0 /\ covered = {}

\* Applied proofs lie below all that is tracked.
AppliedBelowHistory ==
    \A p \in applied : /\ p.rtNew \in Nat /\ p.rtNew <= app.height
                       /\ \A h \in app.headers : p.rtNew < h

\* A latched proof covered a part of this interval.
LatchMeansCovered == app.realProof > 0 => covered # {}

IInv ==
    /\ AppShape /\ AppTypes /\ ProofsAreOld
    /\ CheckpointBelowTip /\ HistoryFollowsCheckpoint /\ LatchBelowHistory
    /\ StartOfInterval /\ IntervalAccountedFor
    /\ AppliedBelowHistory /\ LatchMeansCovered

-----------------------------------------------------------------------------
\* The lock opens from RECOVERING only, healthy, with the hysteresis satisfied
\* and a valid proof (circuit_breaker.go:46-101).
LEMMA LockOpens ==
    ASSUME NEW f, f.state \in FSMStates, NEW m, NEW pv
    PROVE  LET t == CalculateNextState(f, m, pv)
           IN  /\ t \in FSMStates
               /\ WithdrawLocked(f.state) /\ ~WithdrawLocked(t) =>
                     f.state = Recovering /\ f.safeBlocks = HysteresisWait /\ pv
<1> USE DEF FSMStates, WithdrawLocked, Anchored, Suspicious, Sovereign, Recovering
<1>1. CASE f.state = Sovereign
  BY <1>1 DEF CalculateNextState
<1>2. CASE f.state # Sovereign /\ IsCriticalCondition(m, f.suspiciousDuration)
  BY <1>2 DEF CalculateNextState
<1>3. CASE f.state # Sovereign /\ ~IsCriticalCondition(m, f.suspiciousDuration)
  <2>1. CASE f.state = Anchored
    BY <1>3, <2>1 DEF CalculateNextState
  <2>2. CASE f.state = Suspicious
    BY <1>3, <2>2 DEF CalculateNextState
  <2>3. CASE f.state = Recovering
    BY <1>3, <2>3 DEF CalculateNextState, RecoveryComplete
  <2> QED BY <1>3, <2>1, <2>2, <2>3
<1> QED BY <1>1, <1>2, <1>3

\* What a decided block makes of the fields the invariant speaks of.
LEMMA DecideBlockFields ==
    ASSUME IInv, DecideBlock
    PROVE  \E target \in FSMStates, included \in Seq(proofs) :
             /\ txs = << >>
             /\ app'.fsm.state = target
             /\ app'.height = app.height + 1
             /\ app'.realProof = CommitProofLatch(app, target)
             /\ app'.headers = CommitHeaders(app, target)
             /\ app'.lastRoot = CommitLastRoot(app, target)
             /\ txs' = included /\ proofs' = proofs /\ applied' = applied
             /\ start' = IF ~WithdrawLocked(target) THEN 0
                         ELSE IF start = 0 THEN app.height + 1 ELSE start
             /\ covered' = IF WithdrawLocked(target) THEN covered ELSE {}
             /\ AppShape'
             /\ Locked /\ ~WithdrawLocked(target) =>
                   app.fsm.state = Recovering /\ ReanchoringProofValid(app)
<1>1. PICK view \in Views, round \in 0 .. MaxRound, included \in BlockTxs :
        LET block == PrepareProposal(app, view, included)
            target == block.ext.fsmState
        IN  /\ app' = PreBlock(app, block.ext, {})
            /\ txs' = included
            /\ start' = IF ~WithdrawLocked(target) THEN 0
                        ELSE IF start = 0 THEN app.height + 1 ELSE start
            /\ covered' = IF WithdrawLocked(target) THEN covered ELSE {}
  BY Zenon DEF DecideBlock
<1> DEFINE ext == ProposeExt(app, view)
           target == TargetState(app, view)
<1>2. /\ app' = PreBlock(app, ext, {})
      /\ start' = IF ~WithdrawLocked(ext.fsmState) THEN 0
                  ELSE IF start = 0 THEN app.height + 1 ELSE start
      /\ covered' = IF WithdrawLocked(ext.fsmState) THEN covered ELSE {}
  BY <1>1 DEF PrepareProposal
<1>3. ext.fsmState = target
  BY DEF ProposeExt
<1>4. included \in Seq(proofs)
  BY ReanchoringAssumption DEF BlockTxs
<1>5. /\ target \in FSMStates
      /\ Locked /\ ~WithdrawLocked(target) =>
           app.fsm.state = Recovering /\ ReanchoringProofValid(app)
  BY LockOpens DEF IInv, AppTypes, TargetState, Locked
<1> HIDE DEF ext, target
<1>6. /\ app'.fsm.state = target
      /\ app'.height = app.height + 1
      /\ app'.realProof = CommitProofLatch(app, target)
      /\ app'.headers = CommitHeaders(app, target)
      /\ app'.lastRoot = CommitLastRoot(app, target)
  BY <1>2, <1>3 DEF PreBlock, CommitFSM
<1>7. AppShape'
  BY <1>2 DEF PreBlock, AppShape
<1> USE <1>4, <1>5
<1> WITNESS target \in FSMStates, included \in Seq(proofs)
<1> QED BY <1>1, <1>2, <1>3, <1>6, <1>7 DEF DecideBlock

\* Genesis is outside any interval.
LEMMA InitIInv == Init => IInv
<1> SUFFICES ASSUME Init PROVE IInv
  OBVIOUS
<1> USE DEF Init, GenesisApp, GenesisFSM
<1>1. AppShape
  BY DEF AppShape
<1>2. AppTypes /\ ~Locked
  BY DEF AppTypes, Locked, WithdrawLocked, FSMStates, Anchored, Sovereign, Recovering
<1>3. ProofsAreOld
  BY DEF ProofsAreOld
<1> QED BY <1>1, <1>2, <1>3
        DEF IInv, CheckpointBelowTip, HistoryFollowsCheckpoint, LatchBelowHistory,
            StartOfInterval, IntervalAccountedFor, AppliedBelowHistory,
            LatchMeansCovered

\* An interval one header longer.
LEMMA OneLonger ==
    ASSUME NEW a \in Nat, NEW b \in Nat, a <= b
    PROVE  /\ a .. (b + 1) = (a .. b) \cup {b + 1}
           /\ (a + 1) .. (b + 1) = ((a + 1) .. b) \cup {b + 1}
<1>1. a .. (b + 1) = (a .. b) \cup {b + 1}
  OBVIOUS
<1>2. (a + 1) .. (b + 1) = ((a + 1) .. b) \cup {b + 1}
  OBVIOUS
<1> QED BY <1>1, <1>2

\* What is left of an interval above one of its headers.
LEMMA PrunedInterval ==
    ASSUME NEW a \in Nat, NEW b \in Nat, NEW H \in {a .. b, (a + 1) .. b}, NEW r \in H
    PROVE  {g \in H : g > r} = (r + 1) .. b
<1>1. CASE H = a .. b
  BY <1>1
<1>2. CASE H = (a + 1) .. b
  BY <1>2
<1> QED BY <1>1, <1>2

\* A decided block extends the history, starts it or ends it.
LEMMA DecideBlockIInv == IInv /\ DecideBlock => IInv'
<1> SUFFICES ASSUME IInv, DecideBlock PROVE IInv'
  OBVIOUS
<1>1. PICK target \in FSMStates, included \in Seq(proofs) :
             /\ txs = << >>
             /\ app'.fsm.state = target
             /\ app'.height = app.height + 1
             /\ app'.realProof = CommitProofLatch(app, target)
             /\ app'.headers = CommitHeaders(app, target)
             /\ app'.lastRoot = CommitLastRoot(app, target)
             /\ txs' = included /\ proofs' = proofs /\ applied' = applied
             /\ start' = IF ~WithdrawLocked(target) THEN 0
                         ELSE IF start = 0 THEN app.height + 1 ELSE start
             /\ covered' = IF WithdrawLocked(target) THEN covered ELSE {}
             /\ AppShape'
             /\ Locked /\ ~WithdrawLocked(target) =>
                   app.fsm.state = Recovering /\ ReanchoringProofValid(app)
  BY DecideBlockFields
<1>t. AppTypes /\ (Locked <=> WithdrawLocked(app.fsm.state))
  BY DEF IInv, Locked
<1>l. Locked' <=> WithdrawLocked(target)
  BY <1>1 DEF Locked
<1>2. ProofsAreOld'
  <2>1. \A p \in proofs' : p.kind = "proof" /\ p.rtNew \in Nat /\ p.rtNew <= app'.height
    BY <1>1, <1>t DEF IInv, ProofsAreOld, AppTypes
  <2>2. \A i \in 1 .. Len(included) : included[i] \in proofs
    BY <1>1
  <2>3. \A i \in 1 .. Len(included) : included[i].rtNew < app'.height
    BY <1>1, <1>t, <2>2 DEF IInv, ProofsAreOld, AppTypes
  <2> QED BY <1>1, <2>1, <2>3 DEF ProofsAreOld
<1>3. CASE WithdrawLocked(target) /\ Locked
  <2>1. /\ app'.headers = app.headers \cup {app.height + 1}
        /\ app'.lastRoot = app.lastRoot
        /\ app'.realProof \in {0, app.realProof}
        /\ start' = start /\ covered' = covered
    BY <1>1, <1>3, <1>t DEF CommitHeaders, CommitLastRoot, CommitProofLatch, IInv,
                            StartOfInterval
  <2>2. /\ app.headers \in {app.lastRoot .. app.height,
                            (app.lastRoot + 1) .. app.height}
        /\ app.lastRoot <= app.height
        /\ start <= app.height + 1 /\ start # 0
        /\ covered \cup app.headers = start .. app.height
        /\ covered \cap app.headers = {}
    BY <1>3 DEF IInv, HistoryFollowsCheckpoint, CheckpointBelowTip, StartOfInterval,
                IntervalAccountedFor
  <2>3. AppTypes'
    BY <1>1, <1>t, <2>1 DEF AppTypes
  <2>4. CheckpointBelowTip' /\ HistoryFollowsCheckpoint' /\ StartOfInterval'
    <3>1. CheckpointBelowTip' /\ StartOfInterval'
      BY <1>1, <1>l, <1>3, <1>t, <2>1, <2>2
         DEF CheckpointBelowTip, StartOfInterval, AppTypes
    <3>2. PICK a \in Nat, b \in Nat : /\ a = app.lastRoot /\ b = app.height /\ a <= b
                                      /\ app'.height = b + 1 /\ app'.lastRoot = a
      BY <1>1, <1>t, <2>1, <2>2 DEF AppTypes
    <3>3. /\ app.headers \in {a .. b, (a + 1) .. b}
          /\ app'.headers = app.headers \cup {b + 1}
      BY <2>1, <2>2, <3>2
    <3>4. app'.headers \in {a .. (b + 1), (a + 1) .. (b + 1)}
      BY <3>2, <3>3, OneLonger
    <3>5. app'.headers \in {app'.lastRoot .. app'.height,
                            (app'.lastRoot + 1) .. app'.height}
      BY <3>2, <3>4
    <3> QED BY <1>3, <1>l, <3>1, <3>5 DEF HistoryFollowsCheckpoint
  <2>5. IntervalAccountedFor'
    BY <1>1, <1>l, <1>3, <1>t, <2>1, <2>2 DEF IntervalAccountedFor, AppTypes
  <2>6. LatchBelowHistory' /\ LatchMeansCovered'
    BY <1>1, <1>l, <1>3, <1>t, <2>1, <2>2
       DEF IInv, LatchBelowHistory, LatchMeansCovered, AppTypes
  <2>7. AppliedBelowHistory'
    BY <1>1, <1>t, <2>1 DEF IInv, AppliedBelowHistory, AppTypes
  <2> QED BY <1>1, <1>2, <2>3, <2>4, <2>5, <2>6, <2>7 DEF IInv
<1>4. CASE WithdrawLocked(target) /\ ~Locked
  <2>1. /\ app.headers = {} /\ app.realProof = 0 /\ start = 0
        /\ app.fsm.state # Recovering
    BY <1>4, <1>t DEF IInv, HistoryFollowsCheckpoint, LatchBelowHistory, AppTypes,
                      StartOfInterval, WithdrawLocked
  <2>2. /\ app'.headers = {app.height + 1} /\ app'.lastRoot = app.height + 1
        /\ app'.realProof = 0 /\ start' = app.height + 1 /\ covered' = covered
    BY <1>1, <1>4, <1>t, <2>1
       DEF CommitHeaders, CommitLastRoot, CommitProofLatch
  <2>3. covered = {}
    BY <1>4 DEF IInv, StartOfInterval
  <2>4. AppTypes'
    BY <1>1, <1>t, <2>2 DEF AppTypes
  <2>5. /\ CheckpointBelowTip' /\ HistoryFollowsCheckpoint' /\ StartOfInterval'
        /\ LatchBelowHistory' /\ LatchMeansCovered'
    BY <1>1, <1>l, <1>4, <1>t, <2>2
       DEF CheckpointBelowTip, HistoryFollowsCheckpoint, StartOfInterval, AppTypes,
           LatchBelowHistory, LatchMeansCovered
  <2>6. IntervalAccountedFor'
    BY <1>1, <1>l, <1>4, <1>t, <2>2, <2>3 DEF IntervalAccountedFor, AppTypes
  <2>7. AppliedBelowHistory'
    BY <1>1, <1>t, <2>2 DEF IInv, AppliedBelowHistory, AppTypes
  <2> QED BY <1>1, <1>2, <2>4, <2>5, <2>6, <2>7 DEF IInv
<1>5. CASE ~WithdrawLocked(target)
  <2>1. /\ app'.headers = {} /\ app'.lastRoot = app.lastRoot
        /\ start' = 0 /\ covered' = {}
    BY <1>1, <1>5, <1>t DEF CommitHeaders, CommitLastRoot, IInv,
                            HistoryFollowsCheckpoint
  <2>2. app'.realProof = 0
    <3>1. CASE Locked
      BY <1>1, <1>5, <3>1
         DEF CommitProofLatch, WithdrawLocked, Recovering
    <3>2. CASE ~Locked
      BY <1>1, <1>t, <3>2 DEF CommitProofLatch, IInv, LatchBelowHistory, AppTypes
    <3> QED BY <3>1, <3>2
  <2>3. AppTypes'
    BY <1>1, <1>t, <2>1, <2>2 DEF AppTypes
  <2>4. /\ CheckpointBelowTip' /\ HistoryFollowsCheckpoint' /\ StartOfInterval'
        /\ LatchBelowHistory' /\ LatchMeansCovered' /\ IntervalAccountedFor'
    BY <1>l, <1>5, <2>1, <2>2
       DEF CheckpointBelowTip, HistoryFollowsCheckpoint, StartOfInterval,
           LatchBelowHistory, LatchMeansCovered, IntervalAccountedFor
  <2>5. AppliedBelowHistory'
    BY <1>1, <1>t, <2>1 DEF IInv, AppliedBelowHistory, AppTypes
  <2> QED BY <1>1, <1>2, <2>2, <2>3, <2>4, <2>5 DEF IInv
<1> QED BY <1>3, <1>4, <1>5

\* A transaction in execution is a submitted proof that covers none of the block
\* it executes in; accepted, it moves a prefix of the history into `covered`.
LEMMA ExecuteTxFields ==
    ASSUME IInv, ExecuteTx
    PROVE  /\ Head(txs) \in proofs /\ Head(txs).rtNew < app.height
           /\ Head(txs).kind = "proof" /\ Head(txs).rtNew \in Nat
           /\ app' = SubmitRecoveryProof(app, Head(txs))
           /\ ProofsAreOld' \/ app'.height # app.height
<1>1. txs # << >> /\ txs \in Seq(proofs)
  BY DEF ExecuteTx, IInv, ProofsAreOld
<1>2. Head(txs) = txs[1] /\ 1 \in 1 .. Len(txs) /\ Head(txs) \in proofs
  BY <1>1
<1>3. Head(txs).rtNew < app.height /\ Head(txs).kind = "proof"
      /\ Head(txs).rtNew \in Nat
  BY <1>2 DEF IInv, ProofsAreOld
<1>4. app' = SubmitRecoveryProof(app, Head(txs))
  BY <1>3 DEF ExecuteTx, DeliverTx
<1>5. CASE app'.height = app.height
  <2>1. /\ Tail(txs) \in Seq(proofs) /\ Len(Tail(txs)) = Len(txs) - 1
        /\ \A i \in 1 .. Len(Tail(txs)) : Tail(txs)[i] = txs[i + 1]
    BY <1>1, HeadTailProperties
  <2>2. \A i \in 1 .. Len(Tail(txs)) : i + 1 \in 1 .. Len(txs)
    BY <1>1, <2>1, LenProperties
  <2>3. \A i \in 1 .. Len(Tail(txs)) : Tail(txs)[i].rtNew < app.height
    BY <2>1, <2>2 DEF IInv, ProofsAreOld
  <2>4. txs' = Tail(txs) /\ proofs' = proofs
    BY DEF ExecuteTx
  <2>5. \A p \in proofs' : /\ p.kind = "proof" /\ p.rtNew \in Nat
                           /\ p.rtNew <= app'.height
    BY <1>5, <2>4 DEF IInv, ProofsAreOld
  <2>6. txs' \in Seq(proofs') /\ \A i \in 1 .. Len(txs') : txs'[i].rtNew < app'.height
    BY <1>5, <2>1, <2>3, <2>4
  <2> QED BY <1>2, <1>3, <1>4, <2>5, <2>6 DEF ProofsAreOld
<1> QED BY <1>2, <1>3, <1>4, <1>5

\* Executing a transaction keeps the inductive invariant.
LEMMA ExecuteTxIInv == IInv /\ ExecuteTx => IInv'
<1> SUFFICES ASSUME IInv, ExecuteTx PROVE IInv'
  OBVIOUS
<1> DEFINE tx == Head(txs)
<1>1. /\ tx \in proofs /\ tx.rtNew < app.height /\ tx.rtNew \in Nat
      /\ app' = SubmitRecoveryProof(app, tx)
      /\ ProofsAreOld' \/ app'.height # app.height
  BY ExecuteTxFields
<1>2. /\ start' = start
      /\ IF ProofBinds(app, tx)
         THEN /\ applied' = applied \cup {tx}
              /\ covered' = covered \cup {h \in app.headers : h <= tx.rtNew}
         ELSE applied' = applied /\ covered' = covered
  BY DEF ExecuteTx
<1> HIDE DEF tx
<1>t. AppTypes /\ AppShape
  BY DEF IInv
<1>3. CASE ~ProofBinds(app, tx)
  <2>1. app' = app /\ applied' = applied /\ covered' = covered
    BY <1>1, <1>2, <1>3 DEF SubmitRecoveryProof
  <2>2. ProofsAreOld'
    BY <1>1, <2>1
  <2> QED BY <1>2, <2>1, <2>2
          DEF IInv, AppShape, AppTypes, Locked, CheckpointBelowTip,
              HistoryFollowsCheckpoint, LatchBelowHistory, StartOfInterval,
              IntervalAccountedFor, AppliedBelowHistory, LatchMeansCovered
<1>4. CASE ProofBinds(app, tx)
  <2>1. app' = [fsm |-> app.fsm, height |-> app.height,
                hBtcAnchored |-> app.hBtcAnchored,
                hEngramVerified |-> app.hEngramVerified,
                hBtcSubmitted |-> app.hBtcSubmitted,
                hBtcCurrent |-> app.hBtcCurrent,
                realProof |-> tx.rtNew,
                headers |-> {g \in app.headers : g > tx.rtNew},
                lastRoot |-> tx.rtNew, forced |-> app.forced]
    BY <1>1, <1>4, <1>t DEF SubmitRecoveryProof, PruneHeaderHistoryUpTo, AppShape
  <2>2. /\ app'.fsm = app.fsm /\ app'.height = app.height
        /\ app'.realProof = tx.rtNew /\ app'.lastRoot = tx.rtNew
        /\ app'.headers = {g \in app.headers : g > tx.rtNew}
    BY <2>1
  <2>3. AppShape' /\ AppTypes' /\ (Locked' <=> Locked) /\ ProofsAreOld'
    BY <1>1, <1>2, <1>t, <2>1, <2>2 DEF AppShape, AppTypes, Locked
  <2>4. tx.rtNew \in app.headers /\ Locked
    BY <1>4 DEF ProofBinds, IInv, HistoryFollowsCheckpoint
  <2>5. /\ app.headers \in {app.lastRoot .. app.height,
                            (app.lastRoot + 1) .. app.height}
        /\ covered \cup app.headers = start .. app.height
        /\ covered \cap app.headers = {}
    BY <2>4 DEF IInv, HistoryFollowsCheckpoint, IntervalAccountedFor
  <2>6. app'.headers = (tx.rtNew + 1) .. app.height
    <3>1. PICK a \in Nat, b \in Nat : a = app.lastRoot /\ b = app.height
      BY <1>t DEF AppTypes
    <3>2. app.headers \in {a .. b, (a + 1) .. b}
      BY <2>5, <3>1
    <3>3. {g \in app.headers : g > tx.rtNew} = (tx.rtNew + 1) .. b
      BY <2>4, <3>2, PrunedInterval
    <3> QED BY <2>2, <3>1, <3>3
  <2>7. /\ CheckpointBelowTip' /\ HistoryFollowsCheckpoint' /\ LatchBelowHistory'
    BY <1>1, <1>t, <2>2, <2>3, <2>4, <2>6
       DEF CheckpointBelowTip, HistoryFollowsCheckpoint, LatchBelowHistory, AppTypes
  <2>8. covered' \cup app'.headers = start .. app.height /\ covered' \cap app'.headers = {}
        /\ covered' # {}
    BY <1>1, <1>2, <1>4, <1>t, <2>2, <2>4, <2>5 DEF AppTypes
  <2>9. IntervalAccountedFor' /\ StartOfInterval' /\ LatchMeansCovered'
    BY <1>2, <2>2, <2>3, <2>4, <2>8
       DEF IInv, IntervalAccountedFor, StartOfInterval, LatchMeansCovered
  <2>10. AppliedBelowHistory'
    BY <1>1, <1>2, <1>4, <1>t, <2>2, <2>6 DEF IInv, AppliedBelowHistory, AppTypes
  <2> QED BY <2>3, <2>7, <2>9, <2>10 DEF IInv
<1> QED BY <1>3, <1>4

\* The prover proves what is recorded.
LEMMA ProveIInv == IInv /\ Prove => IInv'
<1> SUFFICES ASSUME IInv, Prove PROVE IInv'
  OBVIOUS
<1>1. PICK last \in ProvenSegment(app.headers) :
        proofs' = proofs \cup {ProofTx(app.lastRoot, last)}
  BY DEF Prove
<1>2. last \in Nat /\ last <= app.height
  BY DEF ProvenSegment, IInv, HistoryFollowsCheckpoint, AppTypes
<1>3. /\ txs = << >> /\ txs' = txs
      /\ app' = app /\ applied' = applied /\ start' = start /\ covered' = covered
  BY DEF Prove
<1>4. ProofsAreOld'
  BY <1>1, <1>2, <1>3 DEF IInv, ProofsAreOld, ProofTx
<1> QED BY <1>3, <1>4
        DEF IInv, AppShape, AppTypes, Locked, CheckpointBelowTip,
            HistoryFollowsCheckpoint, LatchBelowHistory, StartOfInterval,
            IntervalAccountedFor, AppliedBelowHistory, LatchMeansCovered

-----------------------------------------------------------------------------
\* The inductive invariant holds throughout.
THEOREM Invariance == Spec => []IInv
<1>1. IInv /\ UNCHANGED vars => IInv'
  BY DEF vars, IInv, AppShape, AppTypes, Locked, ProofsAreOld, CheckpointBelowTip,
         HistoryFollowsCheckpoint, LatchBelowHistory, StartOfInterval,
         IntervalAccountedFor, AppliedBelowHistory, LatchMeansCovered
<1>2. IInv /\ [Next]_vars => IInv'
  BY <1>1, DecideBlockIInv, ExecuteTxIInv, ProveIInv DEF Next
<1> QED BY <1>2, InitIInv, PTL DEF Spec

\* The header history is the contiguous part of the interval that follows the
\* rolling checkpoint (preblock.go:158-183, msg_server.go:79-96).
THEOREM HistoryTheorem == Spec => []HistoryFollowsCheckpoint
<1>1. IInv => HistoryFollowsCheckpoint
  BY DEF IInv
<1> QED BY <1>1, Invariance, PTL

\* The unsigned difference of sensors_refresh.go:203-207 never wraps.
THEOREM LatchTheorem == Spec => []LatchBelowHistory
<1>1. IInv => LatchBelowHistory
  BY DEF IInv
<1> QED BY <1>1, Invariance, PTL

\* Accepted proofs and the history account for every block of the interval.
THEOREM IntervalTheorem == Spec => []IntervalAccountedFor
<1>1. IInv => IntervalAccountedFor
  BY DEF IInv
<1> QED BY <1>1, Invariance, PTL

\* The interval growing leaves a proof in flight acceptable.
THEOREM GrowthTheorem == Spec => []GrowthKeepsProofsGood
<1>1. IInv => GrowthKeepsProofsGood
  BY DEF IInv, GrowthKeepsProofsGood, HistoryFollowsCheckpoint, ProofBinds,
         ProofsAreOld, AppTypes
<1> QED BY <1>1, Invariance, PTL

\* No proof is accepted twice, in one interval or in two (msg_server.go:58-98).
THEOREM AcceptedOnceTheorem == Spec => AcceptedOnce
<1>1. IInv /\ [Next]_vars =>
        [txs # << >> /\ txs' = Tail(txs) /\ Head(txs) \in applied => app' = app]_vars
  <2> SUFFICES ASSUME IInv, Next, txs # << >>, Head(txs) \in applied
               PROVE  app' = app
    OBVIOUS
  <2>1. CASE DecideBlock
    BY <2>1 DEF DecideBlock
  <2>2. CASE Prove
    BY <2>2 DEF Prove
  <2>3. CASE ExecuteTx
    <3>1. app' = SubmitRecoveryProof(app, Head(txs))
      BY <2>3, ExecuteTxFields
    <3>2. Head(txs).rtNew \notin app.headers
      BY DEF IInv, AppliedBelowHistory
    <3> QED BY <3>1, <3>2 DEF SubmitRecoveryProof, ProofBinds
  <2> QED BY <2>1, <2>2, <2>3 DEF Next
<1> QED BY <1>1, Invariance, PTL DEF Spec, AcceptedOnce

\* Without the confirmation heuristic, withdrawals reopen only with a proof of
\* this interval and a short unproven tail (sensors_refresh.go:193-212).
THEOREM UnlockTheorem == Spec => UnlockNeedsCoverage
<1>1. IInv /\ [Next]_vars =>
        [Locked /\ ~Locked' /\ ~HeuristicValid(app) =>
            /\ covered # {}
            /\ Cardinality(app.headers) <= MaxUnprovenTailBlocks]_vars
  <2> SUFFICES ASSUME IInv, Next, Locked, ~Locked', ~HeuristicValid(app)
               PROVE  covered # {} /\ Cardinality(app.headers) <= MaxUnprovenTailBlocks
    OBVIOUS
  <2>1. CASE DecideBlock
    <3>1. ReanchoringProofValid(app)
      <4>1. \E target \in FSMStates :
              /\ app'.fsm.state = target
              /\ Locked /\ ~WithdrawLocked(target) => ReanchoringProofValid(app)
        BY <2>1, DecideBlockFields
      <4> QED BY <4>1 DEF Locked
    <3>2. PICK tip \in app.headers : /\ app.realProof > 0
                                     /\ tip >= app.realProof
                                     /\ tip - app.realProof <= MaxUnprovenTailBlocks
                                     /\ \A h \in app.headers : h <= tip
      BY <3>1 DEF ReanchoringProofValid, RealProofValid
    <3>3. covered # {}
      BY <3>2 DEF IInv, LatchMeansCovered
    <3>4. /\ app.lastRoot = app.realProof
          /\ app.lastRoot \in Nat /\ app.height \in Nat
          /\ app.headers \in {app.lastRoot .. app.height,
                              (app.lastRoot + 1) .. app.height}
          /\ \A h \in app.headers : h > app.realProof
      BY <3>2 DEF IInv, LatchBelowHistory, HistoryFollowsCheckpoint, AppTypes
    <3>5. app.headers = (app.lastRoot + 1) .. app.height
      <4> SUFFICES ASSUME app.headers = app.lastRoot .. app.height PROVE FALSE
        BY <3>4
      <4>1. app.lastRoot \in app.headers
        BY <3>2, <3>4
      <4> QED BY <3>4, <4>1
    <3>6. tip = app.height
      <4>1. tip \in Nat /\ tip >= app.lastRoot + 1 /\ tip <= app.height
        BY <3>4, <3>5
      <4>2. app.height \in app.headers
        BY <3>4, <3>5, <4>1
      <4> QED BY <3>2, <3>4, <4>1, <4>2
    <3>7. Cardinality(app.headers) =
            IF app.lastRoot + 1 > app.height THEN 0
            ELSE app.height - (app.lastRoot + 1) + 1
      <4>1. app.lastRoot + 1 \in Int /\ app.height \in Int
        BY <3>4
      <4> QED BY <3>5, <4>1, FS_Interval
    <3>8. Cardinality(app.headers) <= MaxUnprovenTailBlocks
      BY <3>2, <3>4, <3>6, <3>7, KeeperAssumption
    <3> QED BY <3>3, <3>8
  <2>2. CASE ExecuteTx
    BY <2>2, ExecuteTxFields
       DEF SubmitRecoveryProof, Locked, IInv, AppShape
  <2>3. CASE Prove
    BY <2>3 DEF Prove, Locked
  <2> QED BY <2>1, <2>2, <2>3 DEF Next
<1> QED BY <1>1, Invariance, PTL DEF Spec, UnlockNeedsCoverage

-----------------------------------------------------------------------------
(***************************************************************************)
(* Refinement: through proofs, regressions and repeated intervals the      *)
(* committed FSM is a run of SovereigntyFSM.  FSMSpec and FSMInv speak of  *)
(* the FSM only; the history variables of SovereigntyFSM and the integers  *)
(* of HysteresisArithmetic play no part in them.                           *)
(***************************************************************************)
Breaker == INSTANCE SovereigntyFSMProofs
    WITH fsm <- app.fsm, Readings <- Metrics,
         block <- 0, unhealthyRun <- 0, healthySeen <- 0, parity <- 0,
         Width <- 1, MaxAttempts <- 0

\* The settled heights are numbers.
SettledHeights == app.hBtcAnchored \in Nat /\ app.hEngramVerified \in Nat

\* The instance has the operators of this module, ...
LEMMA SameOperators ==
    /\ Breaker!Metrics = Metrics
    /\ Breaker!GenesisFSM = GenesisFSM
    /\ \A f, m, pv : Breaker!CalculateNextState(f, m, pv) = CalculateNextState(f, m, pv)
    /\ \A m : Breaker!IsHealthyCondition(m) = IsHealthyCondition(m)
    /\ \A f, t, h : Breaker!CommitFSM(f, t, h) = CommitFSM(f, t, h)
<1> USE DEF Breaker!Anchored, Anchored, Breaker!Suspicious, Suspicious,
            Breaker!Sovereign, Sovereign, Breaker!Recovering, Recovering,
            Breaker!EffectiveDownHysteresisThreshold, EffectiveDownHysteresisThreshold,
            Breaker!CappedDoubling, CappedDoubling, Breaker!PowerOf2, PowerOf2
<1>1. Breaker!Metrics = Metrics /\ Breaker!GenesisFSM = GenesisFSM
  BY DEF Breaker!Metrics, Metrics, Breaker!GenesisFSM, GenesisFSM
<1>2. \A m : Breaker!IsHealthyCondition(m) = IsHealthyCondition(m)
  BY DEF Breaker!IsHealthyCondition, IsHealthyCondition, Breaker!IsBTCHealthy,
         IsBTCHealthy, Breaker!IsDAHealthy, IsDAHealthy, Breaker!IsP2PQualityHealthy,
         IsP2PQualityHealthy, Breaker!IsBTCGapSuspicious, IsBTCGapSuspicious,
         Breaker!IsBTCGapSovereign, IsBTCGapSovereign
<1>3. \A f, m, pv : Breaker!CalculateNextState(f, m, pv) = CalculateNextState(f, m, pv)
  BY DEF Breaker!CalculateNextState, CalculateNextState,
         Breaker!IsHealthyCondition, IsHealthyCondition, Breaker!IsBTCHealthy,
         IsBTCHealthy, Breaker!IsDAHealthy, IsDAHealthy, Breaker!IsP2PQualityHealthy,
         IsP2PQualityHealthy, Breaker!IsBTCGapSuspicious, IsBTCGapSuspicious,
         Breaker!IsBTCGapSovereign, IsBTCGapSovereign,
         Breaker!IsCriticalCondition, IsCriticalCondition,
         Breaker!IsWarningCondition, IsWarningCondition,
         Breaker!RecoveryComplete, RecoveryComplete
<1>4. \A f, t, h : Breaker!CommitFSM(f, t, h) = CommitFSM(f, t, h)
  BY DEF Breaker!CommitFSM, CommitFSM, Breaker!NextSafeBlocks, NextSafeBlocks,
         Breaker!NextSuspiciousDuration, NextSuspiciousDuration,
         Breaker!NextSuspiciousSafeBlocks, NextSuspiciousSafeBlocks,
         Breaker!NextUnhealthyStreak, NextUnhealthyStreak,
         Breaker!NextFailedRecoveryAttempts, NextFailedRecoveryAttempts,
         Breaker!Leaky, Leaky
<1> QED BY <1>1, <1>2, <1>3, <1>4, Zenon

\* ... and its assumptions hold here.
LEMMA BreakerAssumptions ==
    Breaker!ParamsAssumption /\ Breaker!ReadingsAssumption /\ Breaker!WidthAssumption
<1>1. Metrics \subseteq Breaker!Metrics
  BY SameOperators, Zenon
<1>2. 1 \in Nat \ {0} /\ 0 \in Nat
  OBVIOUS
<1> QED BY <1>1, <1>2, ParamsAssumption, Zenon
        DEF Breaker!ParamsAssumption, Breaker!ReadingsAssumption, Breaker!WidthAssumption

\* A decided block follows one reading, and leaves numbers as settled heights.
LEMMA DecideBlockReading ==
    ASSUME IInv, SettledHeights, DecideBlock
    PROVE  /\ SettledHeights'
           /\ \E m \in Metrics :
                app'.fsm = CommitFSM(app.fsm,
                             CalculateNextState(app.fsm, m, ReanchoringProofValid(app)),
                             IsHealthyCondition(m))
<1>1. PICK view \in Views, included \in BlockTxs :
        app' = PreBlock(app, PrepareProposal(app, view, included).ext, {})
  BY Zenon DEF DecideBlock
<1> DEFINE ext == ProposeExt(app, view)
<1>2. app' = PreBlock(app, ext, {})
  BY <1>1 DEF PrepareProposal
<1>3. /\ view.btcHeight = BtcTip /\ view.confirmed \in {0, 1}
      /\ view.daVerified \in {app.hEngramVerified, app.height + 1}
      /\ view.anchors = MinAnchorPeers /\ view.peerQuality = TRUE
  BY DEF Views
<1>4. app.height \in Nat /\ app.hBtcAnchored \in Nat /\ app.hEngramVerified \in Nat
  BY DEF IInv, AppTypes, SettledHeights
<1>5. view.daVerified \in Nat /\ view.confirmed \in Nat
  BY <1>3, <1>4
<1>6. /\ app'.hBtcAnchored = ProposedBtcHeight(app, view)
      /\ app'.hEngramVerified = ProposedDAHeight(app, view)
      /\ app'.fsm = CommitFSM(app.fsm, TargetState(app, view), Healthy(app, view))
  BY <1>2 DEF PreBlock, ProposeExt
<1>7. SettledHeights'
  BY <1>4, <1>5, <1>6 DEF ProposedBtcHeight, ProposedDAHeight, SettledHeights
<1>8. RefreshMetrics(app, view) \in Metrics
  <2>1. \A a, b \in Nat : Monus(a, b) \in Nat
    BY DEF Monus
  <2>2. BtcGap(app, view) \in Nat
    <3>1. Monus(view.btcHeight, app.hBtcAnchored) \in Nat
      BY <1>3, <1>4, <2>1, ReanchoringAssumption
    <3> QED BY <3>1, ParamsAssumption DEF BtcGap
  <2>3. Monus(app.height + 1, view.daVerified) \in Nat
    <3>1. app.height + 1 \in Nat
      BY <1>4
    <3> QED BY <1>5, <2>1, <3>1, Zenon
  <2>4. SpvFailed(app, view) \in BOOLEAN /\ view.anchors \in Nat
    BY <1>3, ParamsAssumption DEF SpvFailed
  <2>5. view.peerQuality \in BOOLEAN /\ (~view.daUp) \in BOOLEAN
    BY <1>3
  <2> QED BY <2>2, <2>3, <2>4, <2>5 DEF RefreshMetrics, Metrics
<1> QED BY <1>6, <1>7, <1>8, Zenon DEF TargetState, Healthy

\* Transactions and the prover leave the FSM and the settled heights alone.
LEMMA OthersKeepFSM ==
    ASSUME IInv, [Next]_vars, ~DecideBlock
    PROVE  /\ app'.fsm = app.fsm /\ app'.hBtcAnchored = app.hBtcAnchored
           /\ app'.hEngramVerified = app.hEngramVerified
<1>1. CASE ExecuteTx
  <2>1. app' = SubmitRecoveryProof(app, Head(txs))
    BY <1>1, ExecuteTxFields
  <2> QED BY <2>1 DEF SubmitRecoveryProof, IInv, AppShape
<1>2. CASE Prove \/ UNCHANGED vars
  BY <1>2 DEF Prove, vars
<1> QED BY <1>1, <1>2 DEF Next

\* The settled heights stay numbers (preblock.go:79-168).
THEOREM SettledHeightsTheorem == Spec => []SettledHeights
<1>1. Init => SettledHeights
  BY DEF Init, GenesisApp, SettledHeights
<1>2. IInv /\ SettledHeights /\ [Next]_vars => SettledHeights'
  BY DecideBlockReading, OthersKeepFSM DEF SettledHeights
<1> QED BY <1>1, <1>2, Invariance, PTL DEF Spec

\* The committed FSM moves only by BeginBlocker's rule on one reading a block:
\* neither executing proofs nor submitting them touches it (msg_server.go:40-110).
THEOREM ReanchoringImplementsFSM == Spec => Breaker!FSMSpec
<1>1. Init => app.fsm = Breaker!GenesisFSM
  BY SameOperators DEF Init, GenesisApp
<1>2. IInv /\ SettledHeights /\ [Next]_vars => [Breaker!FSMStep]_(app.fsm)
  <2> SUFFICES ASSUME IInv, SettledHeights, [Next]_vars, app'.fsm # app.fsm
               PROVE  Breaker!FSMStep
    OBVIOUS
  <2>1. PICK m \in Metrics :
           app'.fsm = CommitFSM(app.fsm,
                        CalculateNextState(app.fsm, m, ReanchoringProofValid(app)),
                        IsHealthyCondition(m))
    BY DecideBlockReading, OthersKeepFSM
  <2>2. ReanchoringProofValid(app) \in BOOLEAN
    BY DEF ReanchoringProofValid
  <2> QED BY <2>1, <2>2, SameOperators, Zenon DEF Breaker!FSMStep
<1> QED BY <1>1, <1>2, Invariance, SettledHeightsTheorem, PTL DEF Spec, Breaker!FSMSpec

\* The FSM's invariants, of the FSM that is committed between proofs.
CommittedFSMInv ==
    /\ Breaker!CountersBelongToState
    /\ Breaker!GrayFailureBounded
    /\ Breaker!AbsorbedNoiseBounded
    /\ Breaker!AttemptsSaturate
    /\ app.fsm.safeBlocks <= HysteresisWait

\* Every invariant of the single FSM holds through intervals, proofs and
\* regressions (circuit_breaker.go:107-196 behind preblock.go:79-168).
THEOREM CommittedFSMTheorem == Spec => []CommittedFSMInv
<1>1. Breaker!FSMSpec => []Breaker!FSMInv
  BY Breaker!FSMInvariance, BreakerAssumptions, PTL
<1>2. Breaker!FSMInv => CommittedFSMInv
  BY DEF Breaker!FSMInv, Breaker!RecoveryCreditBounded, CommittedFSMInv
<1> QED BY <1>1, <1>2, ReanchoringImplementsFSM, PTL

\* Withdrawals reopen only in a decided block, out of a RECOVERING whose hysteresis
\* is complete, while a re-anchoring proof is valid on the committed store.
ReopensAtTheGate ==
    [][Locked /\ ~Locked' =>
          /\ DecideBlock
          /\ app.fsm.state = Recovering /\ app.fsm.safeBlocks = HysteresisWait
          /\ ReanchoringProofValid(app)]_vars

\* An accepted proof opens nothing by itself: the lock opens at the gate of
\* RECOVERING, in a block decided there (circuit_breaker.go:92-98).
THEOREM ReopenTheorem == Spec => ReopensAtTheGate
<1>1. IInv /\ [Next]_vars =>
        [Locked /\ ~Locked' =>
          /\ DecideBlock
          /\ app.fsm.state = Recovering /\ app.fsm.safeBlocks = HysteresisWait
          /\ ReanchoringProofValid(app)]_vars
  <2> SUFFICES ASSUME IInv, [Next]_vars, Locked, ~Locked'
               PROVE  /\ DecideBlock
                      /\ app.fsm.state = Recovering /\ app.fsm.safeBlocks = HysteresisWait
                      /\ ReanchoringProofValid(app)
    OBVIOUS
  <2>1. DecideBlock
    BY OthersKeepFSM DEF Locked
  <2>2. PICK view \in Views, included \in BlockTxs :
          app' = PreBlock(app, PrepareProposal(app, view, included).ext, {})
    BY <2>1, Zenon DEF DecideBlock
  <2>3. app'.fsm.state = TargetState(app, view)
    BY <2>2 DEF PreBlock, CommitFSM, PrepareProposal, ProposeExt
  <2>4. WithdrawLocked(app.fsm.state) /\ ~WithdrawLocked(TargetState(app, view))
    BY <2>3 DEF Locked
  <2> QED BY <2>1, <2>4, LockOpens DEF IInv, AppTypes, TargetState
<1> QED BY <1>1, Invariance, PTL DEF Spec, ReopensAtTheGate
=============================================================================
