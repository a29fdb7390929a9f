------------------------------ MODULE DAPublisher -------------------------------
(***************************************************************************)
(* da.Publisher: one node's blobs on the DA layer.  MaybePublish is called *)
(* under the mutex from the proposal handlers, any number of times for a   *)
(* height; Submit runs in a goroutine of its own, for many blocks, and     *)
(* takes the mutex when it ends.  A blob may be accepted and never become  *)
(* retrievable, the layer may fail, the node may restart and forget.       *)
(*                                                                         *)
(* What AnchorTracker, the other source of receipts, also has is named     *)
(* Publisher... here, so that one module can reason about both.            *)
(***************************************************************************)
EXTENDS Naturals

CONSTANTS
    MaxPendingBlocks,  \* maxPendingBlocks: 60 in the code
    MaxHeight          \* bound: Engram heights

ASSUME PublisherAssumption ==
    MaxPendingBlocks \in Nat /\ MaxHeight \in Nat \ {0}

VARIABLES
    height,      \* the height the handlers are called for
    daUp,        \* the bridge answers
    submitting,  \* height of the Submit in flight, 0 for none
    blob,        \* pendingEngramHeight, 0 for none; pendingSinceHeight always equals it
    lost,        \* the pending blob will never be retrievable
    verified,    \* verifiedHeight, 0 while hasVerified is false
    failed,      \* lastSubmitFailed
    stored       \* history: heights whose blob is retrievable

publisherVars == <<height, daUp, submitting, blob, lost, verified, failed, stored>>

PublisherInit ==
    /\ height = 1 /\ daUp = TRUE
    /\ submitting = 0 /\ blob = 0 /\ lost = FALSE
    /\ verified = 0 /\ failed = FALSE /\ stored = {}

-----------------------------------------------------------------------------
(* MaybePublish, one action per path through it *)

Expired == blob # 0 /\ height > blob /\ height - blob > MaxPendingBlocks

\* The last lines: a new Submit, unless one is in flight.
StartSubmit == submitting' = IF submitting = 0 THEN height ELSE submitting

\* Nothing is pending.
PublishIdle ==
    /\ blob = 0
    /\ StartSubmit
    /\ UNCHANGED <<height, daUp, blob, lost, verified, failed, stored>>

\* Mutant: the abandoned blob is remembered and gates off the next one.
PublishExpiredKept ==
    /\ Expired
    /\ failed' = TRUE
    /\ UNCHANGED <<height, daUp, submitting, blob, lost, verified, stored>>

\* The pending blob was checked for too long and is abandoned.
PublishExpired ==
    /\ Expired
    /\ blob' = 0 /\ lost' = FALSE /\ failed' = TRUE
    /\ StartSubmit
    /\ UNCHANGED <<height, daUp, verified, stored>>

\* Mutant: falls through to a second Submit while the first blob is pending.
PublishCheckFailsThrough ==
    /\ blob # 0 /\ ~Expired
    /\ ~daUp
    /\ failed' = TRUE
    /\ StartSubmit
    /\ UNCHANGED <<height, daUp, blob, lost, verified, stored>>

\* Available returns an error.
PublishCheckFails ==
    /\ blob # 0 /\ ~Expired
    /\ ~daUp
    /\ failed' = TRUE
    /\ UNCHANGED <<height, daUp, submitting, blob, lost, verified, stored>>

\* Mutant: the height of the call is recorded, not that of the blob.
PublishConfirmsCaller ==
    /\ blob # 0 /\ ~Expired
    /\ daUp /\ ~lost
    /\ verified' = height /\ failed' = FALSE /\ blob' = 0
    /\ StartSubmit
    /\ UNCHANGED <<height, daUp, lost, stored>>

\* Available says yes.  (When it says not yet, nothing changes.)
PublishConfirms ==
    /\ blob # 0 /\ ~Expired
    /\ daUp /\ ~lost
    /\ verified' = blob /\ failed' = FALSE /\ blob' = 0
    /\ StartSubmit
    /\ UNCHANGED <<height, daUp, lost, stored>>

-----------------------------------------------------------------------------
(* The goroutine *)

\* A blob may be lost, early enough for the publisher to see it expire.
SubmitReturns ==
    /\ submitting # 0 /\ daUp
    /\ blob' = submitting /\ submitting' = 0
    /\ \E gone \in {FALSE} \cup {g \in {TRUE} :
                                   submitting + MaxPendingBlocks < MaxHeight} :
          /\ lost' = gone
          /\ stored' = IF gone THEN stored ELSE stored \cup {submitting}
    /\ UNCHANGED <<height, daUp, verified, failed>>

SubmitFails ==
    /\ submitting # 0 /\ ~daUp
    /\ submitting' = 0 /\ failed' = TRUE
    /\ UNCHANGED <<height, daUp, blob, lost, verified, stored>>

-----------------------------------------------------------------------------
(* The environment *)

NewHeight ==
    /\ height < MaxHeight /\ height' = height + 1
    /\ UNCHANGED <<daUp, submitting, blob, lost, verified, failed, stored>>

Outage ==
    /\ daUp' = ~daUp
    /\ UNCHANGED <<height, submitting, blob, lost, verified, failed, stored>>

\* NewPublisher: nothing survives a restart.
NewPublisher ==
    /\ submitting' = 0 /\ blob' = 0 /\ lost' = FALSE
    /\ verified' = 0 /\ failed' = FALSE
    /\ UNCHANGED <<height, daUp, stored>>

Publish ==
    PublishIdle \/ PublishExpired \/ PublishCheckFails \/ PublishConfirms

PublisherNext ==
    \/ Publish \/ SubmitReturns \/ SubmitFails
    \/ NewHeight \/ Outage \/ NewPublisher

PublisherSpec == PublisherInit /\ [][PublisherNext]_publisherVars

\* Blocks are decided, every one of them calls MaybePublish, the RPC client's
\* timeout ends every Submit, and a retrievable blob is found when asked for.
FairSpec ==
    /\ PublisherSpec
    /\ WF_publisherVars(NewHeight) /\ WF_publisherVars(Publish)
    /\ WF_publisherVars(SubmitReturns \/ SubmitFails)

-----------------------------------------------------------------------------
(* Properties *)

PublisherFlagsOK == daUp \in BOOLEAN /\ lost \in BOOLEAN /\ failed \in BOOLEAN

PublisherHeightsOK ==
    /\ height \in 1 .. MaxHeight
    /\ submitting \in 0 .. MaxHeight /\ blob \in 0 .. MaxHeight
    /\ verified \in 0 .. MaxHeight /\ stored \subseteq 1 .. MaxHeight

\* The publisher's heights are heights of the chain, the rest are flags.
PublisherTypeOK == PublisherFlagsOK /\ PublisherHeightsOK

\* The goroutine never overwrites a blob that is still being checked: no Submit
\* is in flight while one is pending, though the two flags are set by different
\* threads at different times (publisher.go:77-121).
OneBlobAtATime == submitting # 0 => blob = 0

\* What the node reports as verified is the height of a blob that was stored,
\* however far the chain moved on while it was being submitted and checked.
VerifiedIsStored == verified # 0 => verified \in stored

\* Once the layer stays up and the node stays alive, lost blobs and failed
\* submissions are left behind and the newest height gets verified.
PublishesInTheEnd ==
    <>[]daUp /\ <>[][~NewPublisher]_publisherVars => <>(verified = MaxHeight)
=============================================================================
