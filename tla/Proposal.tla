-------------------------------- MODULE Proposal --------------------------------
(***************************************************************************)
(* The two proposal handlers of proposal.go and what they call: the sensor *)
(* snapshot of sensors_refresh.go and the receipt checks of x/da and       *)
(* x/anchor.  Both handlers run on a branch of the committed store that is *)
(* thrown away, so they are functions of `app` and of what the node's own  *)
(* sensors answer, its `view`:                                             *)
(*   btcUp        bitcoind answers Reachable and CurrentHeight             *)
(*   btcHeight    CurrentHeight                                            *)
(*   tagged       the Bitcoin heights BlockContainsTag finds tagged (a     *)
(*                height whose RPC fails counts as untagged, as in both    *)
(*                callers of VerifyAnchor)                                 *)
(*   confirmed    ConfirmedAnchorHeight, 0 for none                        *)
(*   daUp         ProbeHealthy and not Failed                              *)
(*   daVerified   VerifiedHeight, 0 for none                               *)
(*   anchors, peerQuality   the P2P snapshot                               *)
(* Nodes with a live Bitcoin and Celestia source are modelled; the static  *)
(* sensors of a node without one are not.                                  *)
(***************************************************************************)
EXTENDS SovereigntyKeeper

CONSTANTS
    KDeepFinality,        \* Bitcoin blocks above a settled checkpoint
    MaxCensorshipRounds,  \* rounds after which the censorship check is skipped
    Withdrawals           \* the transactions containsWithdrawal recognises

\* What Params.Validate adds for these fields.
ASSUME ProposalAssumption ==
    /\ KDeepFinality \in Nat \ {0} /\ KDeepFinality + 1 < SuspiciousThreshold
    /\ MaxCensorshipRounds \in Nat /\ MaxIgnoreRounds < MaxCensorshipRounds

Monus(a, b) == IF a <= b THEN 0 ELSE a - b

-----------------------------------------------------------------------------
(* x/anchor and x/da: receipt checks *)

VerifyAnchor(view, h) ==
    /\ view.btcUp
    /\ h <= view.btcHeight /\ view.btcHeight - h >= KDeepFinality
    /\ h \in view.tagged

\* livenessMargin is 2.
BTCTolerance(round) == KDeepFinality + 2 + round

\* The hash is a function of the height, so every honest receipt carries it.
VerifySPVProof(btcHeight, hBtcCurrent, hBtcAnchored) ==
    btcHeight <= hBtcCurrent /\ btcHeight >= hBtcAnchored

VerifyBTCReceipt(ext, btcHealthy, hBtcCurrent, hBtcAnchored, round) ==
    ext.fsmState \in {Anchored, Recovering} \/ btcHealthy =>
        /\ ext.btcHeight >= Monus(hBtcCurrent, BTCTolerance(round))
        /\ VerifySPVProof(ext.btcHeight, hBtcCurrent, hBtcAnchored)

DATolerance(round) ==
    CASE round <= 1 -> 0
      [] round = 2  -> 2
      [] round >= 3 -> 4

\* Mutant: the receipt is only looked at while the DA sensor is healthy.
VerifyDAReceiptIfHealthy(ext, daHealthy, hEngramCurrent, round) ==
    daHealthy =>
        /\ ext.daAttested
        /\ ext.daHeight <= hEngramCurrent
        /\ ext.daHeight >= Monus(hEngramCurrent, DAThreshold + DATolerance(round))

VerifyDAReceipt(ext, daHealthy, hEngramCurrent, round) ==
    ext.fsmState \in {Anchored, Recovering} \/ daHealthy =>
        /\ ext.daAttested
        /\ ext.daHeight <= hEngramCurrent
        /\ ext.daHeight >= Monus(hEngramCurrent, DAThreshold + DATolerance(round))

-----------------------------------------------------------------------------
(* sensors_refresh.go *)

\* HBtcCurrent as the handler's branch reads it after RefreshMetrics.
HBtcCurrent(app, view) == IF view.btcUp THEN view.btcHeight ELSE app.hBtcCurrent

\* Mutant: the agreed anchor is trusted without looking at Bitcoin.
SpvFailedNever(app, view) == FALSE

SpvFailed(app, view) ==
    /\ view.btcUp /\ app.hBtcAnchored > 0
    /\ ~VerifyAnchor(view, app.hBtcAnchored)

BtcGap(app, view) ==
    IF view.btcUp THEN Monus(view.btcHeight, app.hBtcAnchored)
    ELSE SovereignThreshold

RefreshMetrics(app, view) ==
    [btcGap        |-> BtcGap(app, view),
     btcSpvFailed  |-> SpvFailed(app, view),
     daGap         |-> Monus(app.height + 1, view.daVerified),
     daFailed      |-> ~view.daUp,
     activeAnchors |-> view.anchors,
     peerQuality   |-> view.peerQuality]

TargetState(app, view) ==
    CalculateNextState(app.fsm, RefreshMetrics(app, view),
                       ReanchoringProofValid(app))

Healthy(app, view) == IsHealthyCondition(RefreshMetrics(app, view))

-----------------------------------------------------------------------------
(* PrepareProposal *)

\* Mutants: a checkpoint above this node's own Bitcoin tip; one below the
\* committed checkpoint.
ProposedBtcHeightUncapped(app, view) ==
    IF view.confirmed > app.hBtcAnchored
    THEN view.confirmed ELSE app.hBtcAnchored
ProposedBtcHeightOwn(app, view) ==
    IF view.confirmed > 0 /\ view.confirmed <= HBtcCurrent(app, view)
    THEN view.confirmed ELSE app.hBtcAnchored

ProposedBtcHeight(app, view) ==
    IF /\ view.confirmed > app.hBtcAnchored
       /\ view.confirmed <= HBtcCurrent(app, view)
    THEN view.confirmed
    ELSE app.hBtcAnchored

ProposedDAHeight(app, view) ==
    IF view.daVerified > app.hEngramVerified
    THEN view.daVerified ELSE app.hEngramVerified

\* The re-anchoring gate: RECOVERING with its hysteresis satisfied.
AtProofGate(app, target) ==
    target = Recovering /\ app.fsm.safeBlocks = HysteresisWait

ProposedProofRef(app, view, target) ==
    /\ AtProofGate(app, target)
    /\ ProposedDAHeight(app, view) > app.hEngramVerified
    /\ app.lastRoot # 0

ProposeExt(app, view) ==
    LET target == TargetState(app, view)
    IN  [fsmState   |-> target,
         healthy    |-> Healthy(app, view),
         btcHeight  |-> ProposedBtcHeight(app, view),
         daHeight   |-> ProposedDAHeight(app, view),
         daAttested |-> ProposedDAHeight(app, view) > 0,
         zkProofRef |-> ProposedProofRef(app, view, target)]

\* containsWithdrawal looks at bytes: forcing a withdrawal contains it too.
ContainsWithdrawal(tx) == tx.kind \in {"plain", "force"} /\ tx.tx \in Withdrawals

\* The loop that copies what containsWithdrawal does not recognise.
WithoutWithdrawals(mempool) ==
    LET filtered[i \in 0 .. Len(mempool)] ==
          IF i = 0 THEN << >>
          ELSE IF ContainsWithdrawal(mempool[i]) THEN filtered[i - 1]
          ELSE Append(filtered[i - 1], mempool[i])
    IN  filtered[Len(mempool)]

\* Mutant: the filter looks at the state before the block.
ProposedTxsByCurrentState(app, target, mempool) ==
    IF WithdrawLocked(app.fsm.state) THEN WithoutWithdrawals(mempool) ELSE mempool

ProposedTxs(app, target, mempool) ==
    IF WithdrawLocked(target) THEN WithoutWithdrawals(mempool) ELSE mempool

PrepareProposal(app, view, mempool) ==
    LET ext == ProposeExt(app, view)
    IN  [ext |-> ext, txs |-> ProposedTxs(app, ext.fsmState, mempool)]

-----------------------------------------------------------------------------
(* ProcessProposal, check by check *)

Included(txs) == {txs[i].tx : i \in {j \in DOMAIN txs : txs[j].kind = "plain"}}

\* Mutants: the included transactions are not looked at; one block too late.
IsCensoringBlindly(app, txs) ==
    \E t \in DOMAIN app.forced : app.forced[t] >= MaxIgnoreRounds
IsCensoringLate(app, txs) ==
    \E t \in DOMAIN app.forced :
        app.forced[t] > MaxIgnoreRounds /\ t \notin Included(txs)

IsCensoring(app, txs) ==
    \E t \in DOMAIN app.forced :
        app.forced[t] >= MaxIgnoreRounds /\ t \notin Included(txs)

\* Mutant: the check is never skipped.
CensorshipCheckForever(app, txs, round) == ~IsCensoring(app, txs)

CensorshipCheck(app, txs, round) ==
    round < MaxCensorshipRounds => ~IsCensoring(app, txs)

\* Mutant: the state is compared, the health flag is not.
StateCheckOnly(app, ext, view) == ext.fsmState = TargetState(app, view)

StateAndHealthCheck(app, ext, view) ==
    /\ ext.fsmState = TargetState(app, view)
    /\ ext.healthy = Healthy(app, view)

ReceiptChecks(app, ext, view, round) ==
    LET m == RefreshMetrics(app, view)
    IN  /\ VerifyDAReceipt(ext, IsDAHealthy(m), app.height + 1, round)
        /\ VerifyBTCReceipt(ext, IsBTCHealthy(m), HBtcCurrent(app, view),
                            app.hBtcAnchored, round)
        /\ ext.btcHeight > app.hBtcAnchored => VerifyAnchor(view, ext.btcHeight)

WithdrawCheck(ext, txs) ==
    WithdrawLocked(ext.fsmState) =>
        \A i \in DOMAIN txs : ~ContainsWithdrawal(txs[i])

VerifyZkProofFlag(app, ext) ==
    ext.zkProofRef /\ ext.daAttested /\ ext.daHeight > app.hEngramVerified

ProofGateCheck(app, ext) ==
    IF AtProofGate(app, ext.fsmState)
    THEN VerifyZkProofFlag(app, ext)
    ELSE ~ext.zkProofRef

ProcessProposal(app, block, view, round) ==
    /\ CensorshipCheck(app, block.txs, round)
    /\ StateAndHealthCheck(app, block.ext, view)
    /\ ReceiptChecks(app, block.ext, view, round)
    /\ WithdrawCheck(block.ext, block.txs)
    /\ ProofGateCheck(app, block.ext)
=============================================================================
