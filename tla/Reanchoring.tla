------------------------------ MODULE Reanchoring -------------------------------
(***************************************************************************)
(* Locked intervals and the proofs that end them.  From the first SOVEREIGN *)
(* block to the return to ANCHORED the keeper records one header a block;  *)
(* the prover (scripts/reanchoring_prover) reads the recorded headers,     *)
(* proves the oldest of them and submits the proof as a transaction, while *)
(* the interval grows, regresses or ends underneath.  A submitted proof    *)
(* may be included late, out of order, or again: a prover that times out   *)
(* proves and submits the same segment once more.                          *)
(*                                                                         *)
(* The nodes agree on what they see here (EngramChain is about the nodes   *)
(* that do not): a block is decided when the proposer's own view makes     *)
(* ProcessProposal accept it.                                              *)
(***************************************************************************)
EXTENDS Proposal

CONSTANTS
    NMax,       \* headers one proof covers (N_MAX = 256 in the circuit)
    BtcTip,     \* Bitcoin's height; block 1 carries the anchor tag
    MaxHeight,  \* bound: blocks decided
    MaxRound,   \* bound: the round a block is decided in
    MaxTxs      \* bound: proofs in one block

ASSUME ReanchoringAssumption ==
    /\ NMax \in Nat \ {0} /\ BtcTip \in Nat
    /\ MaxHeight \in Nat /\ MaxRound \in Nat /\ MaxTxs \in Nat

VARIABLES
    app,       \* the store, after the last executed transaction
    txs,       \* transactions of the finalized block still to execute
    proofs,    \* every proof the prover has submitted
    applied,   \* history: the proofs the chain has accepted
    start,     \* history: first height of the interval, 0 outside
    covered    \* history: heights of the interval that accepted proofs cover

vars == <<app, txs, proofs, applied, start, covered>>

Init ==
    /\ app = GenesisApp
    /\ txs = << >>
    /\ proofs = {} /\ applied = {}
    /\ start = 0 /\ covered = {}

-----------------------------------------------------------------------------
\* Healthy layers, with or without fresh data; DA down; Bitcoin down.
Views ==
    [btcUp : BOOLEAN, btcHeight : {BtcTip}, tagged : {{1}}, confirmed : {0, 1},
     daUp : BOOLEAN, daVerified : {app.hEngramVerified, app.height + 1},
     anchors : {MinAnchorPeers}, peerQuality : {TRUE}]

BlockTxs == UNION {[1 .. n -> proofs] : n \in 0 .. MaxTxs}

\* A block is decided and its PreBlocker runs.  The withdrawal filter leaves its
\* proofs alone.
DecideBlock ==
    /\ txs = << >> /\ app.height < MaxHeight
    /\ \E view \in Views, round \in 0 .. MaxRound, included \in BlockTxs :
          LET block == PrepareProposal(app, view, included)
              target == block.ext.fsmState
          IN  /\ ProcessProposal(app, block, view, round)
              /\ app' = PreBlock(app, block.ext, {})
              /\ txs' = included
              /\ start' = IF ~WithdrawLocked(target) THEN 0
                          ELSE IF start = 0 THEN app.height + 1 ELSE start
              /\ covered' = IF WithdrawLocked(target) THEN covered ELSE {}
    /\ UNCHANGED <<proofs, applied>>

\* The next transaction of the block executes.
ExecuteTx ==
    /\ txs # << >>
    /\ LET tx == Head(txs)
       IN  /\ app' = DeliverTx(app, tx)
           /\ IF ProofBinds(app, tx)
              THEN /\ applied' = applied \cup {tx}
                   /\ covered' = covered \cup {h \in app.headers : h <= tx.rtNew}
              ELSE UNCHANGED <<applied, covered>>
    /\ txs' = Tail(txs)
    /\ UNCHANGED <<proofs, start>>

\* The oldest min(N, N_MAX) headers.
ProvenSegment(headers) ==
    {h \in headers : Cardinality({g \in headers : g <= h}) <= NMax}

\* The prover reads the committed store and submits a proof of the segment
\* that starts at rt_last.
Prove ==
    /\ txs = << >>
    /\ \E last \in ProvenSegment(app.headers) :
          /\ \A h \in ProvenSegment(app.headers) : h <= last
          /\ proofs' = proofs \cup {ProofTx(app.lastRoot, last)}
    /\ UNCHANGED <<app, txs, applied, start, covered>>

Next == DecideBlock \/ ExecuteTx \/ Prove

Spec == Init /\ [][Next]_vars

\* Blocks keep being decided, transactions executed.
FairSpec == Spec /\ WF_vars(Next)

-----------------------------------------------------------------------------
(* Properties *)

Locked == WithdrawLocked(app.fsm.state)

\* The header history is exactly the part of the interval after the rolling
\* checkpoint: contiguous up to the tip, and empty outside an interval.
HistoryFollowsCheckpoint ==
    IF Locked
    THEN app.headers \in {app.lastRoot .. app.height,
                          (app.lastRoot + 1) .. app.height}
    ELSE app.headers = {}

\* A latched proof height lies below every tracked header, so the uint64
\* difference tip - RealProofSubmittedHeight never wraps and the branch for an
\* empty history is never taken (sensors_refresh.go:203-207).
LatchBelowHistory ==
    app.realProof > 0 =>
        /\ Locked
        /\ app.realProof = app.lastRoot
        /\ app.headers # {}
        /\ \A h \in app.headers : h > app.realProof

\* Every block of the interval is either covered by an accepted proof or still
\* in the history for the next one, through every regression to SOVEREIGN.
IntervalAccountedFor ==
    Locked => /\ covered \cup app.headers = start .. app.height
              /\ covered \cap app.headers = {}

\* The interval growing does not make a submitted proof stale: while its rt_last
\* is the tracked root, its rt_new is a tracked header.
GrowthKeepsProofsGood ==
    Locked => \A p \in proofs :
        p.rtLast = app.lastRoot /\ p.rtNew > app.lastRoot => ProofBinds(app, p)

\* A proof that was accepted once is never accepted again, in this interval or
\* in a later one (msg_server.go:64-79).
AcceptedOnce ==
    [][txs # << >> /\ txs' = Tail(txs) /\ Head(txs) \in applied => app' = app]_vars

\* Without the confirmation heuristic, withdrawals reopen only after a proof of
\* this interval, and with no more than MaxUnprovenTailBlocks blocks unproven.
UnlockNeedsCoverage ==
    [][Locked /\ ~Locked' /\ ~HeuristicValid(app) =>
          /\ covered # {}
          /\ Cardinality(app.headers) <= MaxUnprovenTailBlocks]_vars

\* docs/DEVELOPMENT.md:245-246: without the prover "zk_proof_ref stays null
\* forever and the FSM can never leave RECOVERING"; preblock.go:150: "A proof
\* only applies to the interval it was proven against".
UnlockNeedsProofOfInterval == [][Locked /\ ~Locked' => covered # {}]_vars
=============================================================================
