------------------------------ MODULE Degradation -------------------------------
(***************************************************************************)
(* Does the chain keep deciding blocks when Bitcoin or the DA layer fails? *)
(* All nodes see the same layers here, so that only the handlers' own      *)
(* conditions can reject a proposal; rounds follow each other until one of *)
(* them decides.  Failures last as long as the environment likes.          *)
(***************************************************************************)
EXTENDS Proposal

CONSTANTS
    Mempool,      \* the transactions every proposer holds
    MaxHeight,    \* bound: blocks decided
    MaxBtc,       \* bound: Bitcoin's height
    MaxOutages    \* bound: failures of the two layers together

\* From this round on no check becomes more tolerant: DATolerance stops growing
\* at 3 and BTCTolerance then covers every gap that is not critical.
MaxRound == 3 + SovereignThreshold

VARIABLES
    app,         \* the committed store
    round,       \* the round of the next height, counted up to MaxRound
    btcUp, btc,  \* Bitcoin: reachable, and its height; every block is tagged
    confirmed,   \* the nodes' confirmed anchor height
    daUp,        \* the DA layer accepts and serves blobs
    daVerified,  \* the nodes' verified height
    outages      \* failures so far

vars == <<app, round, btcUp, btc, confirmed, daUp, daVerified, outages>>

Init ==
    /\ app = GenesisApp /\ round = 0
    /\ btcUp = TRUE /\ btc = 0 /\ confirmed = 0
    /\ daUp = TRUE /\ daVerified = 0
    /\ outages = 0

-----------------------------------------------------------------------------
(* The layers *)

MineBtc ==
    /\ btc < MaxBtc
    /\ btc' = btc + 1
    /\ UNCHANGED <<app, round, btcUp, confirmed, daUp, daVerified, outages>>

BtcFails ==
    /\ btcUp /\ outages < MaxOutages
    /\ btcUp' = FALSE /\ outages' = outages + 1
    /\ UNCHANGED <<app, round, btc, confirmed, daUp, daVerified>>

BtcRecovers ==
    /\ ~btcUp /\ btcUp' = TRUE
    /\ UNCHANGED <<app, round, btc, confirmed, daUp, daVerified, outages>>

DAFails ==
    /\ daUp /\ outages < MaxOutages
    /\ daUp' = FALSE /\ outages' = outages + 1
    /\ UNCHANGED <<app, round, btcUp, btc, confirmed, daVerified>>

DARecovers ==
    /\ ~daUp /\ daUp' = TRUE
    /\ UNCHANGED <<app, round, btcUp, btc, confirmed, daVerified, outages>>

\* MaybeSubmit finds the nodes' submission KDeepFinality + 1 times confirmed.
ConfirmAnchor ==
    /\ btcUp /\ confirmed < btc - KDeepFinality
    /\ confirmed' = btc - KDeepFinality
    /\ UNCHANGED <<app, round, btcUp, btc, daUp, daVerified, outages>>

\* MaybePublish finds the blob of the height in progress retrievable.
ConfirmDA ==
    /\ daUp /\ daVerified < app.height + 1
    /\ daVerified' = app.height + 1
    /\ UNCHANGED <<app, round, btcUp, btc, confirmed, daUp, outages>>

-----------------------------------------------------------------------------
View == [btcUp |-> btcUp, btcHeight |-> btc, tagged |-> 1 .. btc,
         confirmed |-> confirmed, daUp |-> daUp, daVerified |-> daVerified,
         anchors |-> MinAnchorPeers, peerQuality |-> TRUE]

\* One round: propose, check, and decide or give up.
Round ==
    /\ app.height < MaxHeight
    /\ \E block \in {PrepareProposal(app, View, Mempool)} :
           IF ProcessProposal(app, block, View, round)
           THEN app' = PreBlock(app, block.ext, Included(block.txs)) /\ round' = 0
           ELSE /\ app' = app
                /\ round' = IF round < MaxRound THEN round + 1 ELSE round
    /\ UNCHANGED <<btcUp, btc, confirmed, daUp, daVerified, outages>>

Next ==
    \/ MineBtc \/ BtcFails \/ BtcRecovers \/ DAFails \/ DARecovers
    \/ ConfirmAnchor \/ ConfirmDA \/ Round

Spec == Init /\ [][Next]_vars

\* The engine keeps starting rounds and every round calls MaybeSubmit and
\* MaybePublish; nothing makes a layer come back.
FairSpec ==
    Spec /\ WF_vars(Round) /\ WF_vars(ConfirmAnchor) /\ WF_vars(ConfirmDA)

-----------------------------------------------------------------------------
(* Properties *)

\* In SOVEREIGN the next block is decided, whatever is down and for how long:
\* neither a missing receipt nor a cached anchor that nobody can verify any more
\* blocks the fallback (proposal.go:166-175, anchor/verify.go:70-86).
SovereignKeepsDeciding ==
    \A h \in 0 .. MaxHeight - 1 :
        app.height = h /\ app.fsm.state = Sovereign ~> app.height > h

\* With a DA layer that stays up, every state keeps deciding blocks, whatever
\* Bitcoin does: some round's tolerance covers every gap that is not critical,
\* and the proof gate of RECOVERING is passed as data gets published.
DecidesWhileDAIsUp == <>[]daUp => <>(app.height = MaxHeight)

\* docs/DEVELOPMENT.md:37 "When those layers degrade, the chain does not halt",
\* and its table at line 48 gives RECOVERING "full" block production.
RecoveringKeepsDeciding ==
    \A h \in 0 .. MaxHeight - 1 :
        app.height = h /\ app.fsm.state = Recovering ~> app.height > h
=============================================================================
