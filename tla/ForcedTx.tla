-------------------------------- MODULE ForcedTx --------------------------------
(***************************************************************************)
(* Forced inclusion.  A user who fears that leaders leave a transaction    *)
(* out registers its bytes with MsgSubmitForcedTx; from then on every      *)
(* decided block counts, and a proposal that still leaves it out after     *)
(* MaxIgnoreRounds blocks is rejected, until MaxCensorshipRounds rounds    *)
(* have failed.  Nothing puts a registered transaction into a proposal:    *)
(* it must also reach the proposers' mempools like any other.              *)
(*                                                                         *)
(* Proposers take turns; the ones in Omitters leave out what they like.    *)
(* All nodes see the same layers, with fresh data, so a proposal is only   *)
(* rejected for its transactions.                                          *)
(***************************************************************************)
EXTENDS Proposal

CONSTANTS
    Txs,           \* the transactions users care about
    ProposerCount, \* proposers, in turn
    Omitters,      \* the turns whose proposer leaves transactions out
    MaxHeight      \* bound: blocks decided

ASSUME ForcedTxAssumption ==
    /\ ProposerCount \in 1 .. MaxCensorshipRounds
    /\ \E p \in 0 .. ProposerCount - 1 : p \notin Omitters

\* Past MaxCensorshipRounds no check here depends on the round.
MaxRound == MaxCensorshipRounds + ProposerCount

VARIABLES
    app,    \* the committed store
    round,  \* the round of the next height
    txs,    \* transactions of the finalized block still to execute
    sent,   \* what users have broadcast
    pool,   \* the part of it in the mempools: not yet in a block
    early   \* history: the part of pool that was there in round 0

vars == <<app, round, txs, sent, pool, early>>

Init ==
    /\ app = GenesisApp /\ round = 0
    /\ txs = << >> /\ sent = {} /\ pool = {} /\ early = {}

\* A transaction or its registration is broadcast, once, in either order.
Broadcast ==
    /\ \E tx \in ({PlainTx(t) : t \in Txs} \cup {ForceTx(t) : t \in Txs}) \ sent :
          /\ sent' = sent \cup {tx} /\ pool' = pool \cup {tx}
          /\ early' = IF round = 0 THEN early \cup {tx} ELSE early
    /\ UNCHANGED <<app, round, txs>>

-----------------------------------------------------------------------------
\* DA up or down, Bitcoin up or down.
Views ==
    [btcUp : BOOLEAN, btcHeight : {0}, tagged : {{}}, confirmed : {0},
     daUp : BOOLEAN, daVerified : {app.height + 1},
     anchors : {MinAnchorPeers}, peerQuality : {TRUE}]

\* The sequences that hold each member of S once.
Orders(S) ==
    {s \in [1 .. Cardinality(S) -> S] : \A tx \in S : \E i \in DOMAIN s : s[i] = tx}

\* What the mempool of the proposer in turn hands to PrepareProposal.
Reaped ==
    IF (app.height + round) % ProposerCount \in Omitters
    THEN UNION {Orders(S) : S \in SUBSET pool}
    ELSE Orders(pool)

TxSet(seq) == {seq[i] : i \in DOMAIN seq}

\* One round: propose, check, and decide or give up.
Round ==
    /\ txs = << >> /\ app.height < MaxHeight
    /\ \E view \in Views, mempool \in Reaped :
       \E block \in {PrepareProposal(app, view, mempool)} :
          IF ProcessProposal(app, block, view, round)
          THEN /\ app' = PreBlock(app, block.ext, Included(block.txs))
               /\ txs' = block.txs
               /\ pool' = pool \ TxSet(block.txs) /\ early' = pool'
               /\ round' = 0
          ELSE /\ round' = IF round < MaxRound THEN round + 1 ELSE round
               /\ UNCHANGED <<app, txs, pool, early>>
    /\ UNCHANGED sent

ExecuteTx ==
    /\ txs # << >>
    /\ app' = DeliverTx(app, Head(txs))
    /\ txs' = Tail(txs)
    /\ UNCHANGED <<round, sent, pool, early>>

Next == Broadcast \/ Round \/ ExecuteTx

Spec == Init /\ [][Next]_vars

\* Rounds follow each other and a finalized block is executed.
FairSpec == Spec /\ WF_vars(Round) /\ WF_vars(ExecuteTx)

-----------------------------------------------------------------------------
(* Properties *)

Decided == app'.height # app.height

\* While the check is in force no decided block leaves out a transaction that
\* has been left out of MaxIgnoreRounds blocks: the counter kept by the
\* PreBlocker and the bound of the check agree (preblock.go:59, proposal.go:282).
NoBlockIsCensoring ==
    [][Decided /\ round < MaxCensorshipRounds =>
          \A t \in DOMAIN app'.forced : app'.forced[t] <= MaxIgnoreRounds]_vars

\* The escape hatch is only needed for transactions nobody can include: ones no
\* mempool held when the height began, or withdrawals, which every round that
\* sees the lock closed must leave out.
HatchOnlyForUncommittable ==
    [][Decided /\ round >= MaxCensorshipRounds =>
          \E t \in DOMAIN app.forced :
              /\ app.forced[t] >= MaxIgnoreRounds
              /\ PlainTx(t) \notin early \/ t \in Withdrawals]_vars

\* No forced transaction, includable or not, halts the chain.
CensorshipNeverHalts ==
    \A h \in 0 .. MaxHeight - 1 : app.height = h ~> app.height > h

\* preblock.go:47-48: "Dequeues a forced tx once included instead of resetting
\* its counter: txs are one-shot, so a leftover queued tx would trip IsCensoring
\* (check #0) forever."
NoLeftover ==
    txs = << >> => \A t \in DOMAIN app.forced : PlainTx(t) \notin sent \ pool
=============================================================================
