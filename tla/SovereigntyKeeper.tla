--------------------------- MODULE SovereigntyKeeper ----------------------------
(***************************************************************************)
(* The committed store of the sovereignty keeper and what writes it: the   *)
(* PreBlocker of a decided block (preblock.go) and the messages its        *)
(* transactions carry (keeper/msg_server.go, behind app/ante.go).          *)
(*                                                                         *)
(* The store is one record `app`:                                          *)
(*   fsm              the FSM record of CircuitBreaker                      *)
(*   height           the last finalized height                            *)
(*   hBtcAnchored, hBtcCurrent, hBtcSubmitted, hEngramVerified             *)
(*                    the collections of those names, 0 when never set     *)
(*   realProof        RealProofSubmittedHeight                             *)
(*   headers          the heights HeaderHistory holds                      *)
(*   lastRoot         LastAnchoredRoot, 0 when never set                   *)
(*   forced           TxIgnoredRounds, a function on ForcedTxQueue         *)
(* The AppHash in the header of block h is represented by h: the state     *)
(* roots of two heights differ.  HEngramCurrent, Metrics and               *)
(* ReanchoringProofValid are rewritten by RefreshMetrics before each read  *)
(* and are not part of the record.                                         *)
(***************************************************************************)
EXTENDS CircuitBreaker, Sequences, FiniteSets

CONSTANTS
    MaxUnprovenTailBlocks,       \* headers a valid proof may leave uncovered
    MaxIgnoreRounds,             \* blocks a forced transaction may be left out
    MaxSuspiciousForcedTxQueue   \* forced queue length admitted in SUSPICIOUS

ASSUME KeeperAssumption ==
    /\ MaxUnprovenTailBlocks \in Nat
    /\ MaxIgnoreRounds \in Nat
    /\ MaxSuspiciousForcedTxQueue \in Nat

\* A transaction is [kind |-> "plain", tx |-> t], [kind |-> "force", tx |-> t]
\* (MsgSubmitForcedTx of t) or [kind |-> "proof", rtLast |-> r, rtNew |-> s]
\* (MsgSubmitRecoveryProof whose proof the verifier accepts).
PlainTx(t) == [kind |-> "plain", tx |-> t]
ForceTx(t) == [kind |-> "force", tx |-> t]
ProofTx(r, s) == [kind |-> "proof", rtLast |-> r, rtNew |-> s]

GenesisApp == [fsm |-> GenesisFSM, height |-> 0, hBtcAnchored |-> 0,
               hBtcCurrent |-> 0, hBtcSubmitted |-> 0, hEngramVerified |-> 0,
               realProof |-> 0, headers |-> {}, lastRoot |-> 0,
               forced |-> << >>]

-----------------------------------------------------------------------------
(* preblock.go *)

\* The counter of a forced transaction that a block leaves out.
NextIgnoredRounds(count) ==
    IF count + 1 > MaxIgnoreRounds + 1 THEN MaxIgnoreRounds + 1 ELSE count + 1

\* The forced queue after a block that includes the transactions `included`.
UpdateForcedTxTracking(forced, included) ==
    [t \in DOMAIN forced \ included |-> NextIgnoredRounds(forced[t])]

\* Mutant: the latch of a proof survives the recovery.
CommitProofLatchKept(app, target) == app.realProof

\* The latch a decided block leaves.
CommitProofLatch(app, target) ==
    IF app.fsm.state = Recovering /\ target # Recovering THEN 0 ELSE app.realProof

\* Mutant: a regression to SOVEREIGN drops the history the checkpoint needs.
CommitHeadersForgetful(app, target) ==
    CASE target = Sovereign -> {app.height + 1}
      [] target = Recovering -> app.headers \cup {app.height + 1}
      [] OTHER -> {}

\* Step 6: one header a locked block, none once the interval has ended.
CommitHeaders(app, target) ==
    CASE WithdrawLocked(target) -> app.headers \cup {app.height + 1}
      [] ~WithdrawLocked(target) /\ WithdrawLocked(app.fsm.state) -> {}
      [] OTHER -> app.headers

\* Mutant: every locked block moves the start of the interval.
CommitLastRootRolling(app, target) ==
    IF WithdrawLocked(target) THEN app.height + 1 ELSE app.lastRoot

\* The first block of an interval binds rt_last to its own incoming AppHash.
CommitLastRoot(app, target) ==
    IF WithdrawLocked(target) /\ ~WithdrawLocked(app.fsm.state)
    THEN app.height + 1
    ELSE app.lastRoot

\* The whole PreBlocker on a decided block: `ext` is the agreed proposal of
\* Txs[0] and `included` the plain transactions that follow it.
PreBlock(app, ext, included) ==
    LET reanchors == app.fsm.state = Recovering /\ ext.fsmState = Anchored
    IN  [fsm             |-> CommitFSM(app.fsm, ext.fsmState, ext.healthy),
         height          |-> app.height + 1,
         hBtcAnchored    |-> ext.btcHeight,
         hEngramVerified |-> ext.daHeight,
         hBtcSubmitted   |-> IF ext.fsmState = Recovering /\ ext.zkProofRef
                             THEN app.hBtcCurrent ELSE app.hBtcSubmitted,
         hBtcCurrent     |-> IF reanchors THEN ext.btcHeight ELSE app.hBtcCurrent,
         realProof       |-> CommitProofLatch(app, ext.fsmState),
         headers         |-> CommitHeaders(app, ext.fsmState),
         lastRoot        |-> CommitLastRoot(app, ext.fsmState),
         forced          |-> UpdateForcedTxTracking(app.forced, included)]

-----------------------------------------------------------------------------
(* keeper/msg_server.go and app/ante.go *)

\* Mutant: the proof is not bound to a tracked header.
ProofBindsNoHeader(app, tx) == tx.rtLast = app.lastRoot

ProofBinds(app, tx) == tx.rtLast = app.lastRoot /\ tx.rtNew \in app.headers

\* Mutant: the proven prefix is kept.
PruneHeaderHistoryUpToBelow(headers, h) == {g \in headers : g >= h}

PruneHeaderHistoryUpTo(headers, h) == {g \in headers : g > h}

SubmitRecoveryProof(app, tx) ==
    IF ProofBinds(app, tx)
    THEN [app EXCEPT !.lastRoot  = tx.rtNew,
                     !.headers   = PruneHeaderHistoryUpTo(app.headers, tx.rtNew),
                     !.realProof = tx.rtNew]
    ELSE app

\* The ante handler's throttle, on the state the block has just committed.
Throttled(app) ==
    /\ app.fsm.state = Suspicious
    /\ Cardinality(DOMAIN app.forced) >= MaxSuspiciousForcedTxQueue

\* Setting a key that is already queued leaves its ignored rounds alone.
SubmitForcedTx(app, t) ==
    IF Throttled(app)
    THEN app
    ELSE [app EXCEPT !.forced = [u \in DOMAIN app.forced \cup {t} |->
              IF u \in DOMAIN app.forced THEN app.forced[u] ELSE 0]]

\* One transaction of a finalized block: plain ones do not touch the keeper.
DeliverTx(app, tx) ==
    CASE tx.kind = "proof" -> SubmitRecoveryProof(app, tx)
      [] tx.kind = "force" -> SubmitForcedTx(app, tx.tx)
      [] OTHER -> app

-----------------------------------------------------------------------------
(* The reanchoring_proof_valid that refreshReanchoringProofValid derives *)

HeuristicValid(app) ==
    app.hBtcAnchored >= app.hBtcSubmitted /\ app.hBtcSubmitted > 0

\* tipHeight - RealProofSubmittedHeight is a uint64: below zero it is huge.
RealProofValid(app) ==
    /\ app.realProof > 0
    /\ \E tip \in app.headers :
          /\ \A h \in app.headers : h <= tip
          /\ tip >= app.realProof
          /\ tip - app.realProof <= MaxUnprovenTailBlocks

ReanchoringProofValid(app) ==
    app.fsm.state = Recovering /\ (HeuristicValid(app) \/ RealProofValid(app))
=============================================================================
