----------------------------- MODULE AnchorTracker ------------------------------
(***************************************************************************)
(* anchor.AnchorTracker on every validator, against one Bitcoin chain.     *)
(* MaybeSubmit runs under the tracker's mutex from both proposal handlers: *)
(* it confirms the pending checkpoint once that is deep enough and only    *)
(* then broadcasts the next.  Bitcoin mines, reorganises and is out of     *)
(* reach on its own schedule; what a tracker knows dies with its process.  *)
(***************************************************************************)
EXTENDS Naturals, FiniteSets

CONSTANTS
    Trackers,       \* the validators
    KDeepFinality,  \* params.KDeepFinality
    MaxTip          \* bound: Bitcoin heights

ASSUME TrackerAssumption ==
    /\ IsFiniteSet(Trackers) /\ Trackers # {}
    /\ KDeepFinality \in Nat \ {0} /\ MaxTip \in Nat

VARIABLES
    tip,        \* Bitcoin's best height
    tagged,     \* heights whose block holds an OP_RETURN with the AnchorTag
    forgotten,  \* a broadcast checkpoint of a restarted node is in the mempool
    pending,    \* per tracker: pendingTxid # ""
    minedAt,    \* per tracker: height of the pending checkpoint, 0 in the mempool
    confirmed   \* per tracker: lastConfirmedHeight, 0 while hasConfirmed is false

vars == <<tip, tagged, forgotten, pending, minedAt, confirmed>>
bitcoin == <<tip, tagged, forgotten>>

Init ==
    /\ tip = 0 /\ tagged = {} /\ forgotten = FALSE
    /\ pending = [n \in Trackers |-> FALSE]
    /\ minedAt = [n \in Trackers |-> 0]
    /\ confirmed = [n \in Trackers |-> 0]

-----------------------------------------------------------------------------
(* The node *)

\* gettransaction counts the block a transaction is in.
Confirmations(n) == IF minedAt[n] = 0 THEN 0 ELSE tip - minedAt[n] + 1

\* Mutant: as deep as the parameter says, by bitcoind's inclusive count.
DeepEnoughInclusive(n) == Confirmations(n) >= KDeepFinality

\* Mutant: any mined checkpoint will do.
DeepEnoughOnceMined(n) == Confirmations(n) > 0

DeepEnough(n) == Confirmations(n) >= KDeepFinality + 1

\* What lastConfirmedHeight is set to.
AnchorHeight(n) == minedAt[n]

\* A new checkpoint: sent, or withheld by the pause file or a failing RPC.
Submit(n) ==
    /\ pending' \in {[pending EXCEPT ![n] = sent] : sent \in BOOLEAN}
    /\ minedAt' = [minedAt EXCEPT ![n] = 0]

\* The pending checkpoint is confirmed and the next one sent; or it is not deep
\* enough, or the check fails, and nothing changes; or none was pending.
MaybeSubmit(n) ==
    /\ \/ /\ pending[n] /\ DeepEnough(n)
          /\ confirmed' = [confirmed EXCEPT ![n] = AnchorHeight(n)]
          /\ Submit(n)
       \/ /\ pending[n]
          /\ UNCHANGED <<pending, minedAt, confirmed>>
       \/ /\ ~pending[n] /\ Submit(n)
          /\ UNCHANGED confirmed
    /\ UNCHANGED bitcoin

\* What a validator answers about a height another one claims.
VerifyAnchor(h) == tip >= h /\ tip - h >= KDeepFinality /\ h \in tagged

\* NewAnchorTracker: the pending checkpoint stays broadcast, unknown to its node.
Restart(n) ==
    /\ forgotten' = (forgotten \/ (pending[n] /\ minedAt[n] = 0))
    /\ pending' = [pending EXCEPT ![n] = FALSE]
    /\ minedAt' = [minedAt EXCEPT ![n] = 0]
    /\ confirmed' = [confirmed EXCEPT ![n] = 0]
    /\ UNCHANGED <<tip, tagged>>

-----------------------------------------------------------------------------
(* Bitcoin *)

Waiting == {n \in Trackers : pending[n] /\ minedAt[n] = 0}

\* The next block holds some of the waiting checkpoints.
MineBlock ==
    /\ tip < MaxTip
    /\ tip' = tip + 1
    /\ \E in \in SUBSET Waiting, old \in {FALSE, forgotten} :
          /\ minedAt' = [n \in Trackers |-> IF n \in in THEN tip + 1 ELSE minedAt[n]]
          /\ tagged' = IF in # {} \/ old THEN tagged \cup {tip + 1} ELSE tagged
          /\ forgotten' = (forgotten /\ ~old)
    /\ UNCHANGED <<pending, confirmed>>

\* The last d blocks lose to d + 1 others, d within the assumed finality; what
\* they held is waiting again.
Reorg ==
    /\ tip < MaxTip
    /\ \E d \in 1 .. KDeepFinality :
          /\ d <= tip
          /\ LET kept == 0 .. tip - d
             IN /\ minedAt' = [n \in Trackers |->
                                 IF minedAt[n] \in kept THEN minedAt[n] ELSE 0]
                /\ tagged' = tagged \cap kept
                /\ forgotten' = (forgotten \/ tagged \ kept # {})
    /\ tip' = tip + 1
    /\ UNCHANGED <<pending, confirmed>>

Next ==
    \/ \E n \in Trackers : MaybeSubmit(n) \/ Restart(n)
    \/ MineBlock \/ Reorg

Spec == Init /\ [][Next]_vars

-----------------------------------------------------------------------------
(* Properties *)

FlagsOK == forgotten \in BOOLEAN /\ pending \in [Trackers -> BOOLEAN]

HeightsOK ==
    /\ tip \in Nat /\ tagged \subseteq 1 .. tip
    /\ minedAt \in [Trackers -> 0 .. tip]
    /\ confirmed \in [Trackers -> 0 .. tip]

\* Heights lie on the chain, the rest are flags.
TypeOK == FlagsOK /\ HeightsOK

\* A height a node proposes as its own checkpoint passes every validator's
\* VerifyAnchor, then and after every later reorganisation within the assumed
\* depth.  bitcoind's count is inclusive and VerifyAnchor's is not, so the two
\* thresholds differ by one (anchor.go:79-82, :98, :146).
OwnCheckpointVerifies ==
    \A n \in Trackers : confirmed[n] # 0 => VerifyAnchor(confirmed[n])

\* One checkpoint at a time: while a node lives, the next one it confirms is more
\* than the finality depth above the last, whatever was reorganised in between.
CheckpointsAreSpaced ==
    [][\A n \in Trackers :
         confirmed[n] # 0 /\ confirmed'[n] \notin {0, confirmed[n]}
           => confirmed'[n] > confirmed[n] + KDeepFinality]_vars
=============================================================================
