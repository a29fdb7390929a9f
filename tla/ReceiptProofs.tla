------------------------------ MODULE ReceiptProofs ------------------------------
(***************************************************************************)
(* The two sources of receipts.  For any number of validators, any         *)
(* finality depth and chains of any length: a confirmed checkpoint         *)
(* verifies everywhere and checkpoints of one node are spaced.  For chains *)
(* of any length and any patience: the DA publisher's two threads never    *)
(* hold two blobs, and what they report verified is stored.                *)
(***************************************************************************)
EXTENDS AnchorTracker, DAPublisher, TLAPS

\* A mined checkpoint is in a block that exists, above the last confirmed one and
\* too far above it for a reorganisation of the latter.
PendingIsAbove ==
    \A n \in Trackers :
      minedAt[n] # 0 =>
        /\ minedAt[n] \in tagged
        /\ confirmed[n] # 0 => minedAt[n] > confirmed[n] + KDeepFinality

IInv == HeightsOK /\ OwnCheckpointVerifies /\ PendingIsAbove

\* A fresh chain and fresh trackers satisfy the inductive invariant.
LEMMA InitIInv == Init => IInv
  BY TrackerAssumption
     DEF Init, IInv, HeightsOK, OwnCheckpointVerifies, VerifyAnchor, PendingIsAbove

\* Every call of a tracker, every restart and every Bitcoin block keeps it.
LEMMA NextIInv == IInv /\ [Next]_vars => IInv'
<1> USE TrackerAssumption
<1> SUFFICES ASSUME IInv, [Next]_vars PROVE IInv'
  OBVIOUS
<1>1. ASSUME NEW n \in Trackers, MaybeSubmit(n) PROVE IInv'
  <2>1. CASE /\ pending[n] /\ DeepEnough(n)
             /\ confirmed' = [confirmed EXCEPT ![n] = AnchorHeight(n)]
             /\ Submit(n)
    <3>1. minedAt[n] # 0 /\ tip - minedAt[n] >= KDeepFinality
      BY <2>1 DEF DeepEnough, Confirmations, IInv, HeightsOK
    <3>2. HeightsOK'
      BY <1>1, <2>1 DEF MaybeSubmit, Submit, AnchorHeight, bitcoin, IInv, HeightsOK
    <3>3. OwnCheckpointVerifies'
      BY <1>1, <2>1, <3>1
         DEF MaybeSubmit, AnchorHeight, bitcoin, IInv, HeightsOK,
             OwnCheckpointVerifies, VerifyAnchor, PendingIsAbove
    <3>4. PendingIsAbove'
      BY <1>1, <2>1
         DEF MaybeSubmit, Submit, bitcoin, IInv, HeightsOK, PendingIsAbove
    <3> QED BY <3>2, <3>3, <3>4 DEF IInv
  <2>2. CASE UNCHANGED <<pending, minedAt, confirmed>>
    BY <1>1, <2>2 DEF MaybeSubmit, bitcoin, IInv, HeightsOK, OwnCheckpointVerifies,
                      VerifyAnchor, PendingIsAbove
  <2>3. CASE Submit(n) /\ UNCHANGED confirmed
    BY <1>1, <2>3
       DEF MaybeSubmit, Submit, bitcoin, IInv, HeightsOK, OwnCheckpointVerifies,
           VerifyAnchor, PendingIsAbove
  <2> QED BY <1>1, <2>1, <2>2, <2>3 DEF MaybeSubmit
<1>2. ASSUME NEW n \in Trackers, Restart(n) PROVE IInv'
  BY <1>2 DEF Restart, IInv, HeightsOK, OwnCheckpointVerifies, VerifyAnchor,
              PendingIsAbove
<1>3. CASE MineBlock
  <2>1. PICK in \in SUBSET Waiting, old \in {FALSE, forgotten} :
          /\ minedAt' = [n \in Trackers |-> IF n \in in THEN tip + 1 ELSE minedAt[n]]
          /\ tagged' = IF in # {} \/ old THEN tagged \cup {tip + 1} ELSE tagged
          /\ forgotten' = (forgotten /\ ~old)
    BY <1>3 DEF MineBlock, IInv, HeightsOK
  <2>2. HeightsOK'
    BY <1>3, <2>1 DEF MineBlock, IInv, HeightsOK
  <2>3. OwnCheckpointVerifies'
    BY <1>3, <2>1 DEF MineBlock, IInv, HeightsOK, OwnCheckpointVerifies, VerifyAnchor
  <2>4. PendingIsAbove'
    BY <1>3, <2>1 DEF MineBlock, IInv, HeightsOK, OwnCheckpointVerifies,
                      VerifyAnchor, PendingIsAbove
  <2> QED BY <2>2, <2>3, <2>4 DEF IInv
<1>4. CASE Reorg
  <2>1. PICK d \in 1 .. KDeepFinality :
          /\ d <= tip
          /\ minedAt' = [n \in Trackers |->
                           IF minedAt[n] \in 0 .. tip - d THEN minedAt[n] ELSE 0]
          /\ tagged' = tagged \cap (0 .. tip - d)
          /\ forgotten' = (forgotten \/ tagged \ (0 .. tip - d) # {})
    BY <1>4 DEF Reorg
  <2>2. HeightsOK'
    BY <1>4, <2>1 DEF Reorg, IInv, HeightsOK
  <2>3. OwnCheckpointVerifies'
    BY <1>4, <2>1 DEF Reorg, IInv, HeightsOK, OwnCheckpointVerifies, VerifyAnchor
  <2>4. PendingIsAbove'
    BY <1>4, <2>1 DEF Reorg, IInv, HeightsOK, PendingIsAbove
  <2> QED BY <2>2, <2>3, <2>4 DEF IInv
<1>5. CASE UNCHANGED vars
  BY <1>5 DEF vars, IInv, HeightsOK, OwnCheckpointVerifies, VerifyAnchor,
              PendingIsAbove
<1> QED BY <1>1, <1>2, <1>3, <1>4, <1>5 DEF Next

\* The inductive invariant holds throughout.
THEOREM Invariance == Spec => []IInv
  BY InitIInv, NextIInv, PTL DEF Spec

\* What a tracker reports, and where its checkpoint was mined, are heights of the
\* chain there is, reorganised or not (anchor.go:83-124).
THEOREM TypeCorrect == Spec => []TypeOK
<1>1. Init => FlagsOK
  BY DEF Init, FlagsOK
<1>2. FlagsOK /\ [Next]_vars => FlagsOK'
  <2> SUFFICES ASSUME FlagsOK, [Next]_vars PROVE FlagsOK'
    OBVIOUS
  <2>1. ASSUME NEW n \in Trackers, MaybeSubmit(n) PROVE FlagsOK'
    BY <2>1 DEF MaybeSubmit, Submit, bitcoin, FlagsOK
  <2>2. ASSUME NEW n \in Trackers, Restart(n) PROVE FlagsOK'
    BY <2>2 DEF Restart, FlagsOK
  <2>3. CASE MineBlock
    BY <2>3 DEF MineBlock, FlagsOK
  <2>4. CASE Reorg
    BY <2>4 DEF Reorg, FlagsOK
  <2>5. CASE UNCHANGED vars
    BY <2>5 DEF vars, FlagsOK
  <2> QED BY <2>1, <2>2, <2>3, <2>4, <2>5 DEF Next
<1>3. IInv => HeightsOK
  BY DEF IInv
<1> QED BY <1>1, <1>2, <1>3, Invariance, PTL DEF Spec, TypeOK

\* Whatever Bitcoin does within the assumed depth, a height a node proposes as its
\* own checkpoint passes VerifyAnchor (anchor.go:98 against :146).
THEOREM OwnCheckpointTheorem == Spec => []OwnCheckpointVerifies
<1>1. IInv => OwnCheckpointVerifies
  BY DEF IInv
<1> QED BY <1>1, Invariance, PTL

\* A living node's next confirmed checkpoint lies more than the finality depth
\* above its last (anchor.go:87-104).
THEOREM SpacingTheorem == Spec => CheckpointsAreSpaced
<1>1. IInv /\ [Next]_vars =>
        [\A n \in Trackers :
           confirmed[n] # 0 /\ confirmed'[n] \notin {0, confirmed[n]}
             => confirmed'[n] > confirmed[n] + KDeepFinality]_vars
  <2> SUFFICES ASSUME IInv, Next,
                      NEW n \in Trackers,
                      confirmed[n] # 0, confirmed'[n] \notin {0, confirmed[n]}
               PROVE  confirmed'[n] > confirmed[n] + KDeepFinality
    OBVIOUS
  <2>1. PICK m \in Trackers : MaybeSubmit(m) \/ Restart(m)
    BY DEF Next, MineBlock, Reorg
  <2>2. CASE Restart(m)
    BY <2>2 DEF Restart, IInv, HeightsOK
  <2>3. CASE MaybeSubmit(m)
    BY <2>3 DEF MaybeSubmit, AnchorHeight, IInv, HeightsOK, PendingIsAbove
  <2> QED BY <2>1, <2>2, <2>3
<1> QED BY <1>1, Invariance, PTL DEF Spec, CheckpointsAreSpaced

-----------------------------------------------------------------------------
(* The DA publisher *)

\* What is pending and not lost is stored.
BlobIsStored == blob # 0 /\ ~lost => blob \in stored

BlobsOK == /\ PublisherHeightsOK /\ OneBlobAtATime
           /\ VerifiedIsStored /\ BlobIsStored

PublisherInv == PublisherFlagsOK /\ BlobsOK

\* A fresh publisher satisfies the inductive invariant.
LEMMA PublisherInitInv == PublisherInit => PublisherInv
<1>1. PublisherInit => PublisherFlagsOK
  BY Zenon DEF PublisherInit, PublisherFlagsOK
<1>2. PublisherInit => BlobsOK
  BY PublisherAssumption DEF BlobsOK, PublisherInit, PublisherHeightsOK,
         OneBlobAtATime, VerifiedIsStored, BlobIsStored
<1> QED BY <1>1, <1>2 DEF PublisherInv

\* The flags stay Boolean.
LEMMA PublisherNextFlags == PublisherFlagsOK /\ [PublisherNext]_publisherVars => PublisherFlagsOK'
<1> USE DEF PublisherFlagsOK
<1> SUFFICES ASSUME PublisherFlagsOK, [PublisherNext]_publisherVars PROVE PublisherFlagsOK'
  OBVIOUS
<1>1. CASE PublishIdle
  BY <1>1, Zenon DEF PublishIdle, StartSubmit
<1>2. CASE PublishExpired
  BY <1>2, Zenon DEF PublishExpired, Expired, StartSubmit
<1>3. CASE PublishCheckFails
  BY <1>3, Zenon DEF PublishCheckFails
<1>4. CASE PublishConfirms
  BY <1>4, Zenon DEF PublishConfirms, StartSubmit
<1>5. CASE SubmitReturns
  BY <1>5, Zenon DEF SubmitReturns
<1>6. CASE SubmitFails
  BY <1>6, Zenon DEF SubmitFails
<1>7. CASE NewHeight
  BY <1>7, Zenon DEF NewHeight
<1>8. CASE Outage
  BY <1>8, Zenon DEF Outage
<1>9. CASE NewPublisher
  BY <1>9, Zenon DEF NewPublisher
<1>10. CASE UNCHANGED publisherVars
  BY <1>10, Zenon DEF publisherVars
<1> QED BY <1>1, <1>2, <1>3, <1>4, <1>5, <1>6, <1>7, <1>8, <1>9, <1>10
        DEF PublisherNext, Publish

\* Every path through MaybePublish, both ends of the goroutine and every step of
\* the environment keep the heights in step.
LEMMA PublisherNextHeights ==
  BlobsOK /\ [PublisherNext]_publisherVars => BlobsOK'
<1> USE PublisherAssumption DEF BlobsOK, PublisherHeightsOK, OneBlobAtATime,
            VerifiedIsStored, BlobIsStored
<1> SUFFICES ASSUME BlobsOK, [PublisherNext]_publisherVars
             PROVE  BlobsOK'
  OBVIOUS
<1>1. CASE PublishIdle
  BY <1>1 DEF PublishIdle, StartSubmit
<1>2. CASE PublishExpired
  BY <1>2 DEF PublishExpired, Expired, StartSubmit
<1>3. CASE PublishCheckFails
  BY <1>3 DEF PublishCheckFails
<1>4. CASE PublishConfirms
  BY <1>4 DEF PublishConfirms, StartSubmit
<1>5. CASE SubmitReturns
  BY <1>5 DEF SubmitReturns
<1>6. CASE SubmitFails
  BY <1>6 DEF SubmitFails
<1>7. CASE NewHeight
  BY <1>7 DEF NewHeight
<1>8. CASE Outage
  BY <1>8 DEF Outage
<1>9. CASE NewPublisher
  BY <1>9 DEF NewPublisher
<1>10. CASE UNCHANGED publisherVars
  BY <1>10 DEF publisherVars
<1> QED BY <1>1, <1>2, <1>3, <1>4, <1>5, <1>6, <1>7, <1>8, <1>9, <1>10
        DEF PublisherNext, Publish

\* The inductive invariant holds throughout.
THEOREM PublisherInvariance == PublisherSpec => []PublisherInv
<1>1. PublisherInv /\ [PublisherNext]_publisherVars => PublisherInv'
  BY PublisherNextFlags, PublisherNextHeights DEF PublisherInv
<1> QED BY <1>1, PublisherInitInv, PTL DEF PublisherSpec

\* The publisher's heights are heights of the chain (publisher.go:64-121).
THEOREM PublisherTypeCorrect == PublisherSpec => []PublisherTypeOK
<1>1. PublisherInv => PublisherTypeOK
  BY DEF PublisherInv, BlobsOK, PublisherTypeOK
<1> QED BY <1>1, PublisherInvariance, PTL

\* No Submit is in flight while a blob is pending: the goroutine of one height
\* never overwrites the blob of another (publisher.go:77-121).
THEOREM OneBlobTheorem == PublisherSpec => []OneBlobAtATime
<1>1. PublisherInv => OneBlobAtATime
  BY DEF PublisherInv, BlobsOK
<1> QED BY <1>1, PublisherInvariance, PTL

\* A height reported as verified is one whose blob was stored (publisher.go:88-95).
THEOREM VerifiedTheorem == PublisherSpec => []VerifiedIsStored
<1>1. PublisherInv => VerifiedIsStored
  BY DEF PublisherInv, BlobsOK
<1> QED BY <1>1, PublisherInvariance, PTL
=============================================================================
