--------------------------- MODULE EngramChainProofs ----------------------------
(***************************************************************************)
(* For any number of validators, all parameters and every disagreement     *)
(* between sensors: what is decided is what each accepting validator's own *)
(* sensors said.                                                           *)
(***************************************************************************)
EXTENDS EngramChain, FiniteSetTheorems, TLAPS

\* A proposal never lowers a settled height.
ProposalIsAbove ==
    block # NoBlock =>
        /\ block.ext.fsmState \in FSMStates
        /\ block.ext.btcHeight \in Nat /\ block.ext.btcHeight >= app.hBtcAnchored
        /\ block.ext.daHeight \in Nat /\ block.ext.daHeight >= app.hEngramVerified
        /\ block.ext.daAttested => block.ext.daHeight > 0

\* The widest lag of attested data any round admits.
MaxDALag == DAThreshold + DATolerance(3)

\* A proposal for ANCHORED or RECOVERING that a validator accepted, in whatever
\* round, carries attested data within that lag.
VotedDataIsFresh ==
    \A v \in Validators :
        votes[v].accept /\ block.ext.fsmState \in {Anchored, Recovering} =>
            /\ block.ext.daAttested
            /\ block.ext.daHeight <= app.height + 1
            /\ app.height + 1 - block.ext.daHeight <= MaxDALag

\* What an accepting validator read at its own moment is what the proposal says.
VotesMatchProposal ==
    /\ votes = [v \in Validators |-> votes[v]]
    /\ \A v \in Validators : votes[v].accept =>
          /\ block # NoBlock
          /\ block.ext.fsmState = votes[v].target
          /\ block.ext.healthy = votes[v].healthy
          /\ WithdrawCheck(block.ext, block.txs)
          /\ ~WithdrawLocked(block.ext.fsmState) => votes[v].settled

IInv == AppTypes /\ BtcTypes /\ ProposalIsAbove /\ VotesMatchProposal

\* The data part is inductive on top of IInv.
DataInv == round \in Nat /\ VotedDataIsFresh /\ AnchoredDataIsFresh

-----------------------------------------------------------------------------
\* With withdrawals open, the reading was not critical (circuit_breaker.go:46-101).
LEMMA OpenIsNotCritical ==
    ASSUME NEW f, f.state \in FSMStates, NEW m, NEW pv
    PROVE  LET t == CalculateNextState(f, m, pv)
           IN  /\ t \in FSMStates
               /\ ~WithdrawLocked(t) => ~IsCriticalCondition(m, f.suspiciousDuration)
<1> USE DEF FSMStates, WithdrawLocked, Anchored, Suspicious, Sovereign, Recovering
<1>1. CASE f.state = Sovereign
  BY <1>1 DEF CalculateNextState
<1>2. CASE f.state # Sovereign /\ IsCriticalCondition(m, f.suspiciousDuration)
  BY <1>2 DEF CalculateNextState
<1>3. CASE f.state # Sovereign /\ ~IsCriticalCondition(m, f.suspiciousDuration)
  <2>1. CASE f.state = Anchored
    BY <1>3, <2>1 DEF CalculateNextState
  <2>2. CASE f.state = Suspicious
    BY <1>3, <2>2 DEF CalculateNextState
  <2>3. CASE f.state = Recovering
    BY <1>3, <2>3 DEF CalculateNextState, RecoveryComplete
  <2> QED BY <1>3, <2>1, <2>2, <2>3
<1> QED BY <1>1, <1>2, <1>3

\* A node whose target leaves withdrawals open has reached Bitcoin and found the
\* agreed checkpoint there.
LEMMA OpenIsSettled ==
    ASSUME AppTypes, NEW view \in Views, ~WithdrawLocked(TargetState(app, view))
    PROVE  /\ view.btcUp
           /\ app.hBtcAnchored > 0 => VerifyAnchor(view, app.hBtcAnchored)
<1>1. ~IsCriticalCondition(RefreshMetrics(app, view), app.fsm.suspiciousDuration)
  BY OpenIsNotCritical DEF AppTypes, TargetState
<1>2. /\ RefreshMetrics(app, view).btcGap = BtcGap(app, view)
      /\ RefreshMetrics(app, view).btcSpvFailed = SpvFailed(app, view)
  BY DEF RefreshMetrics
<1>3. ~(BtcGap(app, view) >= SovereignThreshold) /\ ~SpvFailed(app, view)
  BY <1>1, <1>2 DEF IsCriticalCondition, IsBTCGapSovereign
<1>4. view.btcUp
  BY <1>3, ParamsAssumption DEF BtcGap
<1> QED BY <1>3, <1>4 DEF SpvFailed

\* A proposer proposes at least the committed heights.
LEMMA ProposalsAreAbove ==
    ASSUME IInv, NEW view \in Views, NEW mempool,
           NEW b, b = PrepareProposal(app, view, mempool)
    PROVE  /\ b.ext.fsmState \in FSMStates
           /\ b.ext.btcHeight \in Nat /\ b.ext.btcHeight >= app.hBtcAnchored
           /\ b.ext.daHeight \in Nat /\ b.ext.daHeight >= app.hEngramVerified
           /\ b.ext.daAttested => b.ext.daHeight > 0
<1>1. /\ b.ext.fsmState = TargetState(app, view)
      /\ b.ext.btcHeight = ProposedBtcHeight(app, view)
      /\ b.ext.daHeight = ProposedDAHeight(app, view)
      /\ b.ext.daAttested = (ProposedDAHeight(app, view) > 0)
  BY DEF PrepareProposal, ProposeExt
<1>2. b.ext.fsmState \in FSMStates
  BY <1>1, OpenIsNotCritical DEF TargetState, IInv, AppTypes
<1>3. view.confirmed \in Nat /\ view.daVerified \in Nat
  <2>1. view.confirmed \in {0} \cup settled /\ view.daVerified \in 0 .. app.height + 1
    BY Zenon DEF Views
  <2>2. settled \subseteq Nat /\ app.height \in Nat
    BY DEF IInv, BtcTypes, AppTypes
  <2>3. \A c : c \in {0} \cup settled => c \in Nat
    BY <2>2
  <2>4. \A d : d \in 0 .. app.height + 1 => d \in Nat
    BY <2>2
  <2> QED BY <2>1, <2>3, <2>4, Zenon
<1>4. b.ext.btcHeight \in Nat /\ b.ext.btcHeight >= app.hBtcAnchored
  BY <1>1, <1>3 DEF ProposedBtcHeight, IInv, AppTypes
<1>5. b.ext.daHeight \in Nat /\ b.ext.daHeight >= app.hEngramVerified
  BY <1>1, <1>3 DEF ProposedDAHeight, IInv, AppTypes
<1>6. b.ext.daAttested => b.ext.daHeight > 0
  BY <1>1, Zenon
<1> QED BY <1>2, <1>4, <1>5, <1>6, Zenon

\* Genesis: nothing proposed, no vote.
LEMMA InitIInv == Init => IInv
  BY DEF Init, IInv, GenesisApp, GenesisFSM, AppTypes, BtcTypes, ProposalIsAbove,
         VotesMatchProposal, NoVote, FSMStates, Anchored

\* Every step of Bitcoin, of a proposer, of a validator and of the engine keeps
\* the votes tied to the proposal and the proposal tied to the store.
LEMMA NextIInv == IInv /\ [Next]_vars => IInv'
<1> SUFFICES ASSUME IInv, [Next]_vars PROVE IInv'
  OBVIOUS
<1>b. ASSUME BtcTypes', UNCHANGED <<app, block, votes>> PROVE IInv'
  BY <1>b DEF IInv, AppTypes, ProposalIsAbove, VotesMatchProposal
<1>1. CASE MineBtc
  <2>1. PICK tags \in {{}, {btc.height + 1}} :
          SetBtc([height |-> btc.height + 1, tagged |-> btc.tagged \cup tags])
    BY <1>1 DEF MineBtc
  <2>2. btc.height + 1 \in Nat /\ btc.tagged \cup tags \in SUBSET Nat
    BY DEF IInv, BtcTypes
  <2>3. btc' \in [height : Nat, tagged : SUBSET Nat]
    BY <2>1, <2>2, Zenon DEF SetBtc
  <2>4. settled' \subseteq Nat
    BY <2>1, <2>2 DEF SetBtc, Deep, IInv, BtcTypes
  <2> QED BY <2>1, <2>3, <2>4, <1>b DEF SetBtc, BtcTypes
<1>2. CASE ReorgBtc
  <2>1. PICK d \in 1 .. MaxReorg :
          SetBtc([btc EXCEPT !.tagged = {h \in @ : h <= btc.height - d}])
    BY <1>2 DEF ReorgBtc
  <2> QED BY <2>1, <1>b DEF SetBtc, Deep, IInv, BtcTypes
<1>3. CASE Propose
  <2>1. PICK view \in Views, mempool \in Mempools :
          block' = PrepareProposal(app, view, mempool)
    BY <1>3 DEF Propose
  <2>2. UNCHANGED <<app, btc, settled, votes>> /\ block = NoBlock
    BY <1>3 DEF Propose
  <2>3. ProposalIsAbove'
    BY <2>1, <2>2, ProposalsAreAbove DEF ProposalIsAbove
  <2> QED BY <2>2, <2>3 DEF IInv, AppTypes, BtcTypes, VotesMatchProposal
<1>4. ASSUME NEW u \in Validators, Accept(u) PROVE IInv'
  <2>1. PICK view \in Views :
          /\ ProcessProposal(app, block, view, round)
          /\ votes' = [votes EXCEPT ![u] =
                [accept  |-> TRUE,
                 target  |-> TargetState(app, view),
                 healthy |-> Healthy(app, view),
                 settled |-> /\ view.btcUp
                             /\ app.hBtcAnchored > 0 =>
                                    VerifyAnchor(view, app.hBtcAnchored)]]
    BY <1>4 DEF Accept
  <2>2. UNCHANGED <<app, btc, settled, block>> /\ block # NoBlock
    BY <1>4 DEF Accept
  <2>3. /\ block.ext.fsmState = TargetState(app, view)
        /\ block.ext.healthy = Healthy(app, view)
        /\ WithdrawCheck(block.ext, block.txs)
    BY <2>1 DEF ProcessProposal, StateAndHealthCheck
  <2>4. ~WithdrawLocked(block.ext.fsmState) =>
           view.btcUp /\ (app.hBtcAnchored > 0 => VerifyAnchor(view, app.hBtcAnchored))
    BY <2>3, OpenIsSettled DEF IInv
  <2>5. /\ votes'[u].target = TargetState(app, view)
        /\ votes'[u].healthy = Healthy(app, view)
        /\ votes'[u].settled = (/\ view.btcUp
                                /\ app.hBtcAnchored > 0 =>
                                       VerifyAnchor(view, app.hBtcAnchored))
    BY <2>1 DEF IInv, VotesMatchProposal
  <2>6. /\ votes' = [v \in Validators |-> votes'[v]]
        /\ \A v \in Validators : v # u => votes'[v] = votes[v]
    BY <2>1 DEF IInv, VotesMatchProposal
  <2>7. ASSUME NEW v \in Validators, votes'[v].accept
        PROVE  /\ block.ext.fsmState = votes'[v].target
               /\ block.ext.healthy = votes'[v].healthy
               /\ WithdrawCheck(block.ext, block.txs)
               /\ ~WithdrawLocked(block.ext.fsmState) => votes'[v].settled
    <3>1. CASE v = u
      BY <2>3, <2>4, <2>5, <3>1
    <3>2. CASE v # u
      BY <2>6, <2>7, <3>2 DEF IInv, VotesMatchProposal
    <3> QED BY <3>1, <3>2
  <2>8. VotesMatchProposal'
    BY <2>2, <2>6, <2>7 DEF VotesMatchProposal
  <2> QED BY <2>2, <2>8 DEF IInv, AppTypes, BtcTypes, ProposalIsAbove
<1>n. ASSUME NEW r, NewRound(r) PROVE ProposalIsAbove' /\ VotesMatchProposal'
  BY <1>n DEF NewRound, ProposalIsAbove, VotesMatchProposal, NoVote
<1>5. CASE GiveUpRound
  BY <1>5, <1>n DEF GiveUpRound, IInv, AppTypes, BtcTypes
<1>6. CASE Decide
  <2>1. block # NoBlock \/ Accepting = {}
    BY DEF IInv, VotesMatchProposal, Accepting
  <2>2. block # NoBlock
    <3>1. Cardinality(Validators) \in Nat
      BY ChainAssumption, FS_CardinalityType
    <3> QED BY <1>6, <2>1, <3>1, FS_EmptySet DEF Decide
  <2>3. AppTypes'
    BY <1>6, <2>2 DEF Decide, PreBlock, CommitFSM, IInv, AppTypes, ProposalIsAbove
  <2> QED BY <1>6, <1>n, <2>3 DEF Decide, IInv, BtcTypes
<1>7. CASE UNCHANGED vars
  BY <1>7 DEF vars, IInv, AppTypes, BtcTypes, ProposalIsAbove, VotesMatchProposal
<1> QED BY <1>1, <1>2, <1>3, <1>4, <1>5, <1>6, <1>7 DEF Next

\* The inductive invariant holds throughout.
THEOREM Invariance == Spec => []IInv
  BY InitIInv, NextIInv, PTL DEF Spec

\* The committed store and Bitcoin keep their types: every decided state is one of
\* the four, whoever proposed it (preblock.go:79-168).
THEOREM TypeCorrect == Spec => []TypeOK
<1>1. IInv => TypeOK
  BY DEF IInv, TypeOK
<1> QED BY <1>1, Invariance, PTL

\* The step that moves the chain is Decide, on a proposal.
LEMMA OnlyDecideCommits ==
    ASSUME IInv, [Next]_vars, app' # app
    PROVE  /\ Decide
           /\ app' = PreBlock(app, block.ext, Included(block.txs))
           /\ block # NoBlock
<1>1. Decide
  BY DEF Next, MineBtc, ReorgBtc, SetBtc, Propose, Accept, GiveUpRound, vars
<1>2. Cardinality(Validators) \in Nat
  BY ChainAssumption, FS_CardinalityType
<1>3. block # NoBlock \/ Accepting = {}
  BY DEF IInv, VotesMatchProposal, Accepting
<1>4. 3 * Cardinality(Accepting) > 2 * Cardinality(Validators)
  BY <1>1 DEF Decide
<1>5. Accepting # {}
  BY <1>2, <1>4, FS_EmptySet
<1> QED BY <1>1, <1>3, <1>5 DEF Decide

\* The tolerance grows with the round and stops growing at the third.
LEMMA ToleranceBounded ==
    ASSUME NEW r \in Nat
    PROVE  DATolerance(r) \in Nat /\ DATolerance(r) <= DATolerance(3)
<1>1. DATolerance(3) = 4
  BY DEF DATolerance
<1>2. CASE r <= 1
  BY <1>1, <1>2 DEF DATolerance
<1>3. CASE r = 2
  BY <1>1, <1>3 DEF DATolerance
<1>4. CASE r >= 3
  BY <1>1, <1>4 DEF DATolerance
<1> QED BY <1>2, <1>3, <1>4

\* A height that is not older than a round's tolerance allows is within the
\* widest lag.
LEMMA LagBounded ==
    ASSUME NEW d \in Nat, NEW h \in Nat, NEW r \in Nat,
           d <= h, d >= Monus(h, DAThreshold + DATolerance(r))
    PROVE  h - d <= MaxDALag
<1>1. DATolerance(r) \in Nat /\ DATolerance(3) \in Nat /\ DATolerance(r) <= DATolerance(3)
  BY ToleranceBounded
<1>2. DAThreshold \in Nat
  BY ParamsAssumption
<1> QED BY <1>1, <1>2 DEF Monus, MaxDALag

\* Acceptances bring fresh data, decisions commit what was accepted.
LEMMA NextDataInv == IInv /\ DataInv /\ [Next]_vars => DataInv'
<1> SUFFICES ASSUME IInv, DataInv, [Next]_vars PROVE DataInv'
  OBVIOUS
<1>1. ASSUME UNCHANGED <<app, round, block, votes>> PROVE DataInv'
  BY <1>1 DEF DataInv, VotedDataIsFresh, AnchoredDataIsFresh
<1>2. CASE Propose
  <2>1. UNCHANGED <<app, round, votes>> /\ block = NoBlock
    BY <1>2 DEF Propose
  <2>2. \A v \in Validators : ~votes[v].accept
    BY <2>1 DEF IInv, VotesMatchProposal
  <2> QED BY <2>1, <2>2 DEF DataInv, VotedDataIsFresh, AnchoredDataIsFresh
<1>3. ASSUME NEW u \in Validators, Accept(u) PROVE DataInv'
  <2>1. PICK view \in Views : ProcessProposal(app, block, view, round)
    BY <1>3 DEF Accept
  <2>2. UNCHANGED <<app, round, block>> /\ block # NoBlock
    BY <1>3 DEF Accept
  <2>3. VerifyDAReceipt(block.ext, IsDAHealthy(RefreshMetrics(app, view)),
                        app.height + 1, round)
    BY <2>1 DEF ProcessProposal, ReceiptChecks
  <2>4. block.ext.fsmState \in {Anchored, Recovering} =>
          /\ block.ext.daAttested
          /\ block.ext.daHeight <= app.height + 1
          /\ app.height + 1 - block.ext.daHeight <= MaxDALag
    <3>1. /\ app.height \in Nat /\ app.height + 1 \in Nat
          /\ round \in Nat /\ block.ext.daHeight \in Nat
      BY <2>2 DEF IInv, AppTypes, DataInv, ProposalIsAbove
    <3>2. block.ext.fsmState \in {Anchored, Recovering} =>
            /\ block.ext.daAttested
            /\ block.ext.daHeight <= app.height + 1
            /\ block.ext.daHeight >= Monus(app.height + 1, DAThreshold + DATolerance(round))
      BY <2>3, Zenon DEF VerifyDAReceipt
    <3>3. block.ext.fsmState \in {Anchored, Recovering} =>
            /\ block.ext.daHeight <= app.height + 1
            /\ block.ext.daHeight >= Monus(app.height + 1, DAThreshold + DATolerance(round))
      BY <3>2, Zenon
    <3>4. block.ext.fsmState \in {Anchored, Recovering} =>
            app.height + 1 - block.ext.daHeight <= MaxDALag
      <4>1. PICK h \in Nat : h = app.height + 1
        BY <3>1
      <4>2. PICK d \in Nat : d = block.ext.daHeight
        BY <3>1
      <4>3. block.ext.fsmState \in {Anchored, Recovering} =>
              d <= h /\ d >= Monus(h, DAThreshold + DATolerance(round))
        BY <3>3, <4>1, <4>2, Zenon
      <4>4. block.ext.fsmState \in {Anchored, Recovering} => h - d <= MaxDALag
        BY <3>1, <4>3, LagBounded, Zenon
      <4>5. MaxDALag \in Nat
        BY ParamsAssumption, ToleranceBounded DEF MaxDALag
      <4> QED BY <3>1, <4>1, <4>2, <4>4, <4>5
    <3> QED BY <3>2, <3>4, Zenon
  <2> QED BY <2>2, <2>4 DEF DataInv, VotedDataIsFresh, AnchoredDataIsFresh
<1>4. CASE GiveUpRound
  <2>1. round' = round + 1 /\ app' = app /\ \A v \in Validators : ~votes'[v].accept
    BY <1>4 DEF GiveUpRound, NewRound, NoVote
  <2> QED BY <2>1 DEF DataInv, VotedDataIsFresh, AnchoredDataIsFresh
<1>5. CASE Decide
  <2>1. Cardinality(Validators) \in Nat
    BY ChainAssumption, FS_CardinalityType
  <2>2. Accepting # {}
    BY <1>5, <2>1, FS_EmptySet DEF Decide
  <2>3. PICK v \in Validators : votes[v].accept
    BY <2>2 DEF Accepting
  <2>4. block # NoBlock
    BY <2>3 DEF IInv, VotesMatchProposal
  <2>5. /\ app'.height = app.height + 1
        /\ app'.hEngramVerified = block.ext.daHeight
        /\ app'.fsm.state = block.ext.fsmState
    BY <1>5 DEF Decide, PreBlock, CommitFSM
  <2>6. block.ext.daHeight \in Nat /\ (block.ext.daAttested => block.ext.daHeight > 0)
    BY <2>4 DEF IInv, ProposalIsAbove
  <2>7. AnchoredDataIsFresh'
    <3>1. CASE block.ext.fsmState \notin {Anchored, Recovering}
      BY <2>5, <3>1 DEF AnchoredDataIsFresh
    <3>2. CASE block.ext.fsmState \in {Anchored, Recovering}
      <4>1. /\ block.ext.daAttested
            /\ block.ext.daHeight <= app.height + 1
            /\ app.height + 1 - block.ext.daHeight <= MaxDALag
        BY <2>3, <3>2 DEF DataInv, VotedDataIsFresh
      <4>2. block.ext.daHeight > 0
        BY <2>6, <4>1, Zenon
      <4>3. app'.hEngramVerified \in 1 .. app'.height
        BY <2>5, <2>6, <4>1, <4>2 DEF IInv, AppTypes
      <4>4. app'.height - app'.hEngramVerified <= DAThreshold + DATolerance(3)
        <5>1. app.height + 1 - block.ext.daHeight <= MaxDALag
          BY <4>1, Zenon
        <5>2. app'.height = app.height + 1 /\ app'.hEngramVerified = block.ext.daHeight
          BY <2>5, Zenon
        <5>3. /\ app.height \in Nat /\ block.ext.daHeight \in Nat
              /\ DAThreshold \in Nat /\ DATolerance(3) \in Nat
          BY <2>6, ParamsAssumption, ToleranceBounded DEF IInv, AppTypes
        <5> QED BY <5>1, <5>2, <5>3 DEF MaxDALag
      <4> QED BY <4>3, <4>4 DEF AnchoredDataIsFresh
    <3> QED BY <3>1, <3>2
  <2>8. round' = 0 /\ \A w \in Validators : ~votes'[w].accept
    BY <1>5 DEF Decide, NewRound, NoVote
  <2> QED BY <2>7, <2>8 DEF DataInv, VotedDataIsFresh
<1>6. CASE MineBtc \/ ReorgBtc \/ UNCHANGED vars
  BY <1>1, <1>6 DEF MineBtc, ReorgBtc, SetBtc, vars
<1> QED BY <1>2, <1>3, <1>4, <1>5, <1>6 DEF Next

\* ANCHORED and RECOVERING always rest on attested data that lags by at most the
\* widest tolerance, in however late a round they were decided (da/verify.go:16-58).
THEOREM FreshDataTheorem == Spec => []AnchoredDataIsFresh
<1>1. Init => DataInv
  BY DEF Init, DataInv, VotedDataIsFresh, AnchoredDataIsFresh, NoVote, GenesisApp
<1>2. DataInv => AnchoredDataIsFresh
  BY DEF DataInv
<1> QED BY <1>1, <1>2, NextDataInv, Invariance, PTL DEF Spec

\* "Sensors propose, consensus decides": the committed FSM is the one every
\* accepting validator computed from its own sensors (proposal.go:302-311).
THEOREM SensorsTheorem == Spec => SensorsProposeConsensusDecides
<1>1. IInv /\ [Next]_vars =>
        [app'.height # app.height =>
           \A v \in Accepting :
             app'.fsm = CommitFSM(app.fsm, votes[v].target, votes[v].healthy)]_vars
  <2> SUFFICES ASSUME IInv, [Next]_vars, app'.height # app.height,
                      NEW v \in Accepting
               PROVE  app'.fsm = CommitFSM(app.fsm, votes[v].target, votes[v].healthy)
    OBVIOUS
  <2>1. app' = PreBlock(app, block.ext, Included(block.txs))
    BY OnlyDecideCommits
  <2>2. app'.fsm = CommitFSM(app.fsm, block.ext.fsmState, block.ext.healthy)
    BY <2>1 DEF PreBlock
  <2>3. block.ext.fsmState = votes[v].target /\ block.ext.healthy = votes[v].healthy
    BY DEF IInv, VotesMatchProposal, Accepting
  <2> QED BY <2>2, <2>3
<1> QED BY <1>1, Invariance, PTL DEF Spec, SensorsProposeConsensusDecides

\* The settled Bitcoin and DA heights never go back (proposal.go:164-183).
THEOREM MonotoneTheorem == Spec => SettledHeightsMonotone
<1>1. IInv /\ [Next]_vars =>
        [/\ app'.hBtcAnchored >= app.hBtcAnchored
         /\ app'.hEngramVerified >= app.hEngramVerified]_vars
  <2> SUFFICES ASSUME IInv, [Next]_vars
               PROVE  /\ app'.hBtcAnchored >= app.hBtcAnchored
                      /\ app'.hEngramVerified >= app.hEngramVerified
    OBVIOUS
  <2>1. CASE app' = app
    BY <2>1 DEF IInv, AppTypes
  <2>2. CASE app' # app
    <3>1. app' = PreBlock(app, block.ext, Included(block.txs)) /\ block # NoBlock
      BY <2>2, OnlyDecideCommits
    <3>2. /\ app'.hBtcAnchored = block.ext.btcHeight
          /\ app'.hEngramVerified = block.ext.daHeight
      BY <3>1 DEF PreBlock
    <3> QED BY <3>1, <3>2 DEF IInv, ProposalIsAbove
  <2> QED BY <2>1, <2>2
<1> QED BY <1>1, Invariance, PTL DEF Spec, SettledHeightsMonotone

\* A decided withdrawal was accepted by nodes that all found the agreed checkpoint
\* on Bitcoin (sensors_refresh.go:176-182, proposal.go:340-346).
THEOREM WithdrawalsTheorem == Spec => WithdrawalsAreSettled
<1>1. IInv /\ [Next]_vars =>
        [app'.height # app.height
           /\ (\E i \in DOMAIN block.txs : ContainsWithdrawal(block.txs[i]))
              => \A v \in Accepting : votes[v].settled]_vars
  <2> SUFFICES ASSUME IInv, NEW i \in DOMAIN block.txs,
                      ContainsWithdrawal(block.txs[i]), NEW v \in Accepting
               PROVE  votes[v].settled
    OBVIOUS
  <2>1. WithdrawCheck(block.ext, block.txs)
        /\ (~WithdrawLocked(block.ext.fsmState) => votes[v].settled)
    BY DEF IInv, VotesMatchProposal, Accepting
  <2> QED BY <2>1 DEF WithdrawCheck
<1> QED BY <1>1, Invariance, PTL DEF Spec, WithdrawalsAreSettled
-----------------------------------------------------------------------------
(***************************************************************************)
(* Refinement: however the validators' readings differ, the FSM they       *)
(* commit is a run of SovereigntyFSM, one reading a block.  FSMSpec and    *)
(* FSMInv speak of the FSM only; the history variables of SovereigntyFSM   *)
(* and the integers of HysteresisArithmetic play no part in them.          *)
(***************************************************************************)
Breaker == INSTANCE SovereigntyFSMProofs
    WITH fsm <- app.fsm, Readings <- Metrics,
         unhealthyRun <- 0, healthySeen <- 0, parity <- 0,
         Width <- 1, MaxAttempts <- 0

\* What an accepting validator voted on is one reading of its sensors, on the
\* store that is still committed when the block is decided.
VotesAreReadings ==
    \A v \in Validators : votes[v].accept =>
        \E m \in Metrics :
            /\ votes[v].target = CalculateNextState(app.fsm, m, ReanchoringProofValid(app))
            /\ votes[v].healthy = IsHealthyCondition(m)

\* The instance has the operators of this module, ...
LEMMA SameOperators ==
    /\ Breaker!Metrics = Metrics
    /\ Breaker!GenesisFSM = GenesisFSM
    /\ \A f, m, pv : Breaker!CalculateNextState(f, m, pv) = CalculateNextState(f, m, pv)
    /\ \A m : Breaker!IsHealthyCondition(m) = IsHealthyCondition(m)
    /\ \A f, t, h : Breaker!CommitFSM(f, t, h) = CommitFSM(f, t, h)
<1> USE DEF Breaker!Anchored, Anchored, Breaker!Suspicious, Suspicious,
            Breaker!Sovereign, Sovereign, Breaker!Recovering, Recovering,
            Breaker!EffectiveDownHysteresisThreshold, EffectiveDownHysteresisThreshold,
            Breaker!CappedDoubling, CappedDoubling, Breaker!PowerOf2, PowerOf2
<1>1. Breaker!Metrics = Metrics /\ Breaker!GenesisFSM = GenesisFSM
  BY DEF Breaker!Metrics, Metrics, Breaker!GenesisFSM, GenesisFSM
<1>2. \A m : Breaker!IsHealthyCondition(m) = IsHealthyCondition(m)
  BY DEF Breaker!IsHealthyCondition, IsHealthyCondition, Breaker!IsBTCHealthy,
         IsBTCHealthy, Breaker!IsDAHealthy, IsDAHealthy, Breaker!IsP2PQualityHealthy,
         IsP2PQualityHealthy, Breaker!IsBTCGapSuspicious, IsBTCGapSuspicious,
         Breaker!IsBTCGapSovereign, IsBTCGapSovereign
<1>3. \A f, m, pv : Breaker!CalculateNextState(f, m, pv) = CalculateNextState(f, m, pv)
  BY DEF Breaker!CalculateNextState, CalculateNextState,
         Breaker!IsHealthyCondition, IsHealthyCondition, Breaker!IsBTCHealthy,
         IsBTCHealthy, Breaker!IsDAHealthy, IsDAHealthy, Breaker!IsP2PQualityHealthy,
         IsP2PQualityHealthy, Breaker!IsBTCGapSuspicious, IsBTCGapSuspicious,
         Breaker!IsBTCGapSovereign, IsBTCGapSovereign,
         Breaker!IsCriticalCondition, IsCriticalCondition,
         Breaker!IsWarningCondition, IsWarningCondition,
         Breaker!RecoveryComplete, RecoveryComplete
<1>4. \A f, t, h : Breaker!CommitFSM(f, t, h) = CommitFSM(f, t, h)
  BY DEF Breaker!CommitFSM, CommitFSM, Breaker!NextSafeBlocks, NextSafeBlocks,
         Breaker!NextSuspiciousDuration, NextSuspiciousDuration,
         Breaker!NextSuspiciousSafeBlocks, NextSuspiciousSafeBlocks,
         Breaker!NextUnhealthyStreak, NextUnhealthyStreak,
         Breaker!NextFailedRecoveryAttempts, NextFailedRecoveryAttempts,
         Breaker!Leaky, Leaky
<1> QED BY <1>1, <1>2, <1>3, <1>4, Zenon

\* ... and its assumptions hold here.
LEMMA BreakerAssumptions ==
    Breaker!ParamsAssumption /\ Breaker!ReadingsAssumption /\ Breaker!WidthAssumption
<1>1. Metrics \subseteq Breaker!Metrics
  BY SameOperators, Zenon
<1>2. 1 \in Nat \ {0} /\ 0 \in Nat
  OBVIOUS
<1> QED BY <1>1, <1>2, ParamsAssumption, Zenon
        DEF Breaker!ParamsAssumption, Breaker!ReadingsAssumption, Breaker!WidthAssumption

\* RefreshMetrics makes a snapshot of every view (sensors_refresh.go:91-160).
LEMMA ViewsAreMetrics ==
    ASSUME IInv, NEW view \in Views PROVE RefreshMetrics(app, view) \in Metrics
<1>1. /\ view.btcHeight \in {h \in (btc.height - MaxLag) .. btc.height : h >= 0}
      /\ view.daVerified \in 0 .. app.height + 1
      /\ view.anchors \in {0, MinAnchorPeers} /\ view.peerQuality \in {TRUE}
      /\ view.daUp \in BOOLEAN
  BY Zenon DEF Views
<1>2. app.height \in Nat /\ app.hBtcAnchored \in Nat
  BY DEF IInv, AppTypes
<1>3. view.btcHeight \in Nat /\ view.daVerified \in Nat
  <2>1. \A h : h \in (btc.height - MaxLag) .. btc.height /\ h >= 0 => h \in Nat
    OBVIOUS
  <2>2. \A d : d \in 0 .. app.height + 1 => d \in Nat
    BY <1>2
  <2> QED BY <1>1, <2>1, <2>2, Zenon
<1>4. \A a, b \in Nat : Monus(a, b) \in Nat
  BY DEF Monus
<1>5. BtcGap(app, view) \in Nat
  <2>1. Monus(view.btcHeight, app.hBtcAnchored) \in Nat
    BY <1>2, <1>3, <1>4, Zenon
  <2> QED BY <2>1, ParamsAssumption DEF BtcGap
<1>6. Monus(app.height + 1, view.daVerified) \in Nat
  <2>1. app.height + 1 \in Nat
    BY <1>2
  <2> QED BY <1>3, <1>4, <2>1, Zenon
<1>7. SpvFailed(app, view) \in BOOLEAN /\ view.anchors \in Nat
  BY <1>1, ParamsAssumption DEF SpvFailed
<1>8. view.peerQuality \in BOOLEAN /\ (~view.daUp) \in BOOLEAN
  BY <1>1
<1> QED BY <1>5, <1>6, <1>7, <1>8 DEF RefreshMetrics, Metrics

\* Votes stay readings of the committed store: it moves only when they are cleared.
LEMMA NextReadings == IInv /\ VotesAreReadings /\ [Next]_vars => VotesAreReadings'
<1> SUFFICES ASSUME IInv, VotesAreReadings, [Next]_vars PROVE VotesAreReadings'
  OBVIOUS
<1>1. ASSUME UNCHANGED <<app, votes>> PROVE VotesAreReadings'
  BY <1>1, Zenon DEF VotesAreReadings
<1>2. ASSUME NEW u \in Validators, Accept(u) PROVE VotesAreReadings'
  <2>1. PICK view \in Views :
          votes' = [votes EXCEPT ![u] =
                [accept  |-> TRUE,
                 target  |-> TargetState(app, view),
                 healthy |-> Healthy(app, view),
                 settled |-> /\ view.btcUp
                             /\ app.hBtcAnchored > 0 =>
                                    VerifyAnchor(view, app.hBtcAnchored)]]
    BY <1>2 DEF Accept
  <2>2. app' = app
    BY <1>2 DEF Accept
  <2>3. /\ votes'[u].target = TargetState(app, view)
        /\ votes'[u].healthy = Healthy(app, view)
        /\ \A v \in Validators : v # u => votes'[v] = votes[v]
    BY <2>1 DEF IInv, VotesMatchProposal
  <2>4. SUFFICES ASSUME NEW v \in Validators, votes'[v].accept
                 PROVE  \E m \in Metrics :
                          /\ votes'[v].target =
                               CalculateNextState(app.fsm, m, ReanchoringProofValid(app))
                          /\ votes'[v].healthy = IsHealthyCondition(m)
    BY <2>2, Zenon DEF VotesAreReadings
  <2>5. CASE v = u
    <3>1. RefreshMetrics(app, view) \in Metrics
      BY ViewsAreMetrics
    <3> QED BY <2>3, <2>5, <3>1, Zenon DEF TargetState, Healthy
  <2>6. CASE v # u
    BY <2>3, <2>4, <2>6, Zenon DEF VotesAreReadings
  <2> QED BY <2>5, <2>6
<1>3. ASSUME NEW r, NewRound(r) PROVE VotesAreReadings'
  BY <1>3 DEF NewRound, NoVote, VotesAreReadings
<1>4. CASE GiveUpRound \/ Decide
  BY <1>3, <1>4 DEF GiveUpRound, Decide
<1>5. CASE MineBtc \/ ReorgBtc \/ Propose \/ UNCHANGED vars
  BY <1>1, <1>5 DEF MineBtc, ReorgBtc, SetBtc, Propose, vars
<1> QED BY <1>2, <1>4, <1>5 DEF Next

\* A decision is a vote of some validator: the decided FSM follows one reading.
LEMMA DecisionIsAReading ==
    ASSUME IInv, VotesAreReadings, [Next]_vars, app' # app
    PROVE  /\ Decide
           /\ \E m \in Metrics :
                 app'.fsm = CommitFSM(app.fsm,
                              CalculateNextState(app.fsm, m, ReanchoringProofValid(app)),
                              IsHealthyCondition(m))
<1>1. Decide /\ app' = PreBlock(app, block.ext, Included(block.txs))
  BY OnlyDecideCommits
<1>2. PICK v \in Validators : votes[v].accept
  <2>1. Cardinality(Validators) \in Nat
    BY ChainAssumption, FS_CardinalityType
  <2>2. Accepting # {}
    BY <1>1, <2>1, FS_EmptySet DEF Decide
  <2> QED BY <2>2, Zenon DEF Accepting
<1>3. block.ext.fsmState = votes[v].target /\ block.ext.healthy = votes[v].healthy
  BY <1>2 DEF IInv, VotesMatchProposal
<1>4. app'.fsm = CommitFSM(app.fsm, votes[v].target, votes[v].healthy)
  BY <1>1, <1>3 DEF PreBlock
<1> QED BY <1>1, <1>2, <1>4, Zenon DEF VotesAreReadings

\* At every moment each vote is one reading on the committed store (proposal.go:302-311).
THEOREM ReadingsInvariance == Spec => []VotesAreReadings
<1>1. Init => VotesAreReadings
  BY DEF Init, VotesAreReadings, NoVote
<1> QED BY <1>1, NextReadings, Invariance, PTL DEF Spec

\* The committed FSM moves only by BeginBlocker's rule, on one reading a block that
\* some validator's sensors really gave (preblock.go:79-168): no mixture of
\* proposals, rounds and disagreeing sensors commits anything else.
THEOREM ChainImplementsFSM == Spec => Breaker!FSMSpec
<1>1. Init => app.fsm = Breaker!GenesisFSM
  BY SameOperators DEF Init, GenesisApp
<1>2. IInv /\ VotesAreReadings /\ [Next]_vars => [Breaker!FSMStep]_(app.fsm)
  <2> SUFFICES ASSUME IInv, VotesAreReadings, [Next]_vars, app'.fsm # app.fsm
               PROVE  Breaker!FSMStep
    OBVIOUS
  <2>1. PICK m \in Metrics :
           app'.fsm = CommitFSM(app.fsm,
                        CalculateNextState(app.fsm, m, ReanchoringProofValid(app)),
                        IsHealthyCondition(m))
    BY DecisionIsAReading
  <2>2. ReanchoringProofValid(app) \in BOOLEAN
    BY DEF ReanchoringProofValid
  <2> QED BY <2>1, <2>2, SameOperators, Zenon DEF Breaker!FSMStep
<1> QED BY <1>1, <1>2, Invariance, ReadingsInvariance, PTL DEF Spec, Breaker!FSMSpec

\* The FSM's invariants, of the FSM that consensus commits.
CommittedFSMInv ==
    /\ Breaker!CountersBelongToState
    /\ Breaker!GrayFailureBounded
    /\ Breaker!AbsorbedNoiseBounded
    /\ Breaker!AttemptsSaturate
    /\ app.fsm.safeBlocks <= HysteresisWait

\* Every invariant of the single FSM holds of the FSM that validators with
\* disagreeing sensors commit (circuit_breaker.go:107-196 behind preblock.go:79-168).
THEOREM CommittedFSMTheorem == Spec => []CommittedFSMInv
<1>1. Breaker!FSMSpec => []Breaker!FSMInv
  BY Breaker!FSMInvariance, BreakerAssumptions, PTL
<1>2. Breaker!FSMInv => CommittedFSMInv
  BY DEF Breaker!FSMInv, Breaker!RecoveryCreditBounded, CommittedFSMInv
<1> QED BY <1>1, <1>2, ChainImplementsFSM, PTL
=============================================================================
