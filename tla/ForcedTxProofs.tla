----------------------------- MODULE ForcedTxProofs -----------------------------
(***************************************************************************)
(* For any transactions, proposers and parameters: while the censorship    *)
(* check is in force, no decided block censors.                            *)
(***************************************************************************)
EXTENDS ForcedTx, Induction, FiniteSetTheorems

\* The queue maps transactions to numbers of blocks, at most one past the bound
\* of the check, where NextIgnoredRounds stops counting.
QueueTypes ==
    /\ {"height", "forced", "lastRoot", "headers", "realProof"} \subseteq DOMAIN app
    /\ app.height \in Nat
    /\ app.forced = [t \in DOMAIN app.forced |-> app.forced[t]]
    /\ \A t \in DOMAIN app.forced : app.forced[t] \in 0 .. MaxIgnoreRounds + 1

\* A counter grows by one until it has passed the bound (types/censorship.go, NextIgnoredRounds).
LEMMA CountersSaturate ==
    ASSUME NEW c \in 0 .. MaxIgnoreRounds + 1
    PROVE  /\ NextIgnoredRounds(c) \in 0 .. MaxIgnoreRounds + 1
           /\ c < MaxIgnoreRounds => NextIgnoredRounds(c) <= MaxIgnoreRounds
  BY KeeperAssumption DEF NextIgnoredRounds

\* Executing a transaction leaves the height alone; it may start counting for
\* one more, from zero (msg_server.go:34-44).
LEMMA DeliverKeepsQueue ==
    ASSUME QueueTypes, NEW tx, app' = DeliverTx(app, tx)
    PROVE  QueueTypes' /\ app'.height = app.height
<1>1. CASE tx.kind = "proof"
  BY <1>1 DEF DeliverTx, SubmitRecoveryProof, QueueTypes
<1>2. CASE tx.kind = "force"
  <2>1. CASE Throttled(app)
    BY <1>2, <2>1 DEF DeliverTx, SubmitForcedTx, QueueTypes
  <2>2. CASE ~Throttled(app)
    <3>1. app' = [app EXCEPT !.forced = [u \in DOMAIN app.forced \cup {tx.tx} |->
                    IF u \in DOMAIN app.forced THEN app.forced[u] ELSE 0]]
      BY <1>2, <2>2 DEF DeliverTx, SubmitForcedTx
    <3>2. /\ DOMAIN app' = DOMAIN app /\ app'.height = app.height
          /\ app'.forced = [u \in DOMAIN app.forced \cup {tx.tx} |->
                    IF u \in DOMAIN app.forced THEN app.forced[u] ELSE 0]
      BY <3>1 DEF QueueTypes
    <3> QED BY <3>2, KeeperAssumption DEF QueueTypes
  <2> QED BY <2>1, <2>2
<1>3. CASE tx.kind \notin {"proof", "force"}
  BY <1>3 DEF DeliverTx, QueueTypes
<1> QED BY <1>1, <1>2, <1>3

\* The queue a decided block leaves: the included transactions are gone, the
\* others have been left out once more (preblock.go:49-74).
LEMMA BlockCounts ==
    ASSUME QueueTypes, NEW ext, NEW included, app' = PreBlock(app, ext, included)
    PROVE  /\ QueueTypes'
           /\ DOMAIN app'.forced = DOMAIN app.forced \ included
           /\ \A t \in DOMAIN app'.forced : app'.forced[t] = NextIgnoredRounds(app.forced[t])
<1>1. /\ {"height", "forced", "lastRoot", "headers", "realProof"} \subseteq DOMAIN app'
      /\ app'.height = app.height + 1
      /\ app'.forced = [t \in DOMAIN app.forced \ included |->
                          NextIgnoredRounds(app.forced[t])]
  BY DEF PreBlock, UpdateForcedTxTracking
<1>2. \A t \in DOMAIN app.forced :
        NextIgnoredRounds(app.forced[t]) \in 0 .. MaxIgnoreRounds + 1
  BY CountersSaturate DEF QueueTypes
<1> QED BY <1>1, <1>2 DEF QueueTypes

\* A round either decides a block that passed the checks or leaves the store alone.
LEMMA RoundDecides ==
    ASSUME Round, app' # app
    PROVE  \E ext, txl :
              /\ app' = PreBlock(app, ext, Included(txl))
              /\ CensorshipCheck(app, txl, round)
<1>1. PICK view \in Views, mempool \in Reaped :
        \E block \in {PrepareProposal(app, view, mempool)} :
          IF ProcessProposal(app, block, view, round)
          THEN app' = PreBlock(app, block.ext, Included(block.txs))
          ELSE UNCHANGED app
  BY Zenon DEF Round
<1>2. PICK block :
          IF ProcessProposal(app, block, view, round)
          THEN app' = PreBlock(app, block.ext, Included(block.txs))
          ELSE UNCHANGED app
  BY <1>1, Zenon
<1>3. ProcessProposal(app, block, view, round)
  BY <1>2, Zenon
<1>4. CensorshipCheck(app, block.txs, round)
  BY <1>3, Zenon DEF ProcessProposal
<1> QED BY <1>2, <1>3, <1>4, Zenon

\* The queue keeps its type through every step.
LEMMA NextQueueTypes == QueueTypes /\ [Next]_vars => QueueTypes'
<1> SUFFICES ASSUME QueueTypes, [Next]_vars PROVE QueueTypes'
  OBVIOUS
<1>1. CASE app' = app
  BY <1>1, Zenon DEF QueueTypes
<1>2. CASE Round /\ app' # app
  BY <1>2, RoundDecides, BlockCounts, Zenon
<1>3. CASE ExecuteTx
  BY <1>3, DeliverKeepsQueue, Zenon DEF ExecuteTx
<1> QED BY <1>1, <1>2, <1>3, Zenon DEF Next, Broadcast, vars

\* The queue has its type throughout: no counter passes the bound of the check by
\* more than one, however long a transaction is left out (types/censorship.go, NextIgnoredRounds).
THEOREM QueueTypesTheorem == Spec => []QueueTypes
<1>1. Init => QueueTypes
  BY KeeperAssumption DEF Init, GenesisApp, QueueTypes
<1> QED BY <1>1, NextQueueTypes, PTL DEF Spec

\* While the check is in force no decided block leaves out a transaction that has
\* been left out of MaxIgnoreRounds blocks (proposal.go:282, preblock.go:59).
THEOREM CensorshipTheorem == Spec => NoBlockIsCensoring
<1>1. QueueTypes /\ [Next]_vars =>
        [Decided /\ round < MaxCensorshipRounds =>
           \A t \in DOMAIN app'.forced : app'.forced[t] <= MaxIgnoreRounds]_vars
  <2> SUFFICES ASSUME QueueTypes, [Next]_vars, Decided, round < MaxCensorshipRounds,
                      NEW t \in DOMAIN app'.forced
               PROVE  app'.forced[t] <= MaxIgnoreRounds
    BY Zenon
  <2>1. app' # app
    BY Zenon DEF Decided
  <2>2. ~ExecuteTx
    BY DeliverKeepsQueue, Zenon DEF ExecuteTx, Decided
  <2>3. Round
    BY <2>1, <2>2, Zenon DEF Next, Broadcast, vars
  <2>4. PICK ext, txl : /\ app' = PreBlock(app, ext, Included(txl))
                        /\ CensorshipCheck(app, txl, round)
    BY <2>1, <2>3, RoundDecides, Zenon
  <2>5. /\ t \in DOMAIN app.forced /\ t \notin Included(txl)
        /\ app'.forced[t] = NextIgnoredRounds(app.forced[t])
    BY <2>4, BlockCounts, Zenon
  <2>6. ~(app.forced[t] >= MaxIgnoreRounds)
    BY <2>4, <2>5, Zenon DEF CensorshipCheck, IsCensoring
  <2>7. app.forced[t] \in 0 .. MaxIgnoreRounds + 1
    BY <2>5, Zenon DEF QueueTypes
  <2>8. app.forced[t] < MaxIgnoreRounds
    BY <2>6, <2>7, KeeperAssumption
  <2>9. NextIgnoredRounds(app.forced[t]) <= MaxIgnoreRounds
    BY <2>7, <2>8, CountersSaturate, Zenon
  <2> QED BY <2>5, <2>9, Zenon
<1> QED BY <1>1, QueueTypesTheorem, PTL DEF Spec, NoBlockIsCensoring

-----------------------------------------------------------------------------
(* The withdrawal filter of PrepareProposal, on a mempool of any length *)

\* The filter keeps what containsWithdrawal does not recognise, and only that
\* (proposal.go:215-223).
LEMMA FilterKeeps ==
    ASSUME NEW T, NEW q \in Seq(T)
    PROVE  LET r == WithoutWithdrawals(q)
           IN  /\ r \in Seq(T)
               /\ \A j \in DOMAIN r : ~ContainsWithdrawal(r[j])
               /\ \A i \in DOMAIN q : ~ContainsWithdrawal(q[i]) =>
                     \E j \in DOMAIN r : r[j] = q[i]
<1> DEFINE n == Len(q)
           body == [i \in 1 .. n |-> [s \in Seq(T) |->
                      IF ContainsWithdrawal(q[i]) THEN s ELSE Append(s, q[i])]]
           filtered[i \in 0 .. Len(q)] ==
             IF i = 0 THEN << >>
             ELSE IF ContainsWithdrawal(q[i]) THEN filtered[i - 1]
             ELSE Append(filtered[i - 1], q[i])
<1>0. n \in Nat /\ DOMAIN q = 1 .. n /\ << >> \in Seq(T) /\ \A i \in 1 .. n : q[i] \in T
  OBVIOUS
<1>1. body \in [1 .. n -> [Seq(T) -> Seq(T)]]
  <2>1. ASSUME NEW i \in 1 .. n, NEW s \in Seq(T)
        PROVE  (IF ContainsWithdrawal(q[i]) THEN s ELSE Append(s, q[i])) \in Seq(T)
    BY <1>0
  <2> QED BY <2>1
<1> HIDE DEF body
<1>2. PICK f \in [0 .. n -> Seq(T)] :
        f = [i \in 0 .. n |-> IF i = 0 THEN << >> ELSE body[i][f[i - 1]]]
  <2> DEFINE R == Seq(T)
             b == << >>
  <2> HIDE DEF R, n, b
  <2>1. b \in R /\ n \in Nat /\ body \in Bodies(R, n)
    BY <1>0, <1>1 DEF R, b, Bodies
  <2>2. \E f : Rounds(f, R, b, n, body)
    BY <2>1, LoopExists
  <2> QED BY <2>2 DEF R, b, Rounds
<1>3. f = [i \in 0 .. n |-> IF i = 0 THEN << >>
                            ELSE IF ContainsWithdrawal(q[i]) THEN f[i - 1]
                            ELSE Append(f[i - 1], q[i])]
  <2>1. ASSUME NEW i \in 0 .. n, i # 0
        PROVE  body[i][f[i - 1]] = IF ContainsWithdrawal(q[i]) THEN f[i - 1]
                                   ELSE Append(f[i - 1], q[i])
    <3>1. PICK j \in 0 .. n : j = i - 1
      BY <1>0, <2>1
    <3>2. f[j] \in Seq(T) /\ i \in 1 .. n
      <4>1. i \in 1 .. n
        BY <1>0, <2>1
      <4> QED BY <1>2, <4>1
    <3>3. body[i][f[j]] = IF ContainsWithdrawal(q[i]) THEN f[j] ELSE Append(f[j], q[i])
      BY <3>2 DEF body
    <3> QED BY <3>1, <3>3
  <2>2. DOMAIN f = 0 .. n /\ f[0] = << >>
    BY <1>0, <1>2
  <2>3. \A i \in 0 .. n : f[i] = IF i = 0 THEN << >>
                            ELSE IF ContainsWithdrawal(q[i]) THEN f[i - 1]
                            ELSE Append(f[i - 1], q[i])
    BY <1>2, <2>1
  <2> QED BY <1>2, <2>3
<1>4. filtered = [i \in 0 .. n |-> IF i = 0 THEN << >>
                            ELSE IF ContainsWithdrawal(q[i]) THEN filtered[i - 1]
                            ELSE Append(filtered[i - 1], q[i])]
  BY <1>3
<1>5. WithoutWithdrawals(q) = filtered[n]
  BY DEF WithoutWithdrawals
<1> HIDE DEF filtered
<1> DEFINE Good(k) ==
             /\ filtered[k] \in Seq(T)
             /\ \A j \in DOMAIN filtered[k] : ~ContainsWithdrawal(filtered[k][j])
             /\ \A i \in 1 .. k : ~ContainsWithdrawal(q[i]) =>
                   \E j \in DOMAIN filtered[k] : filtered[k][j] = q[i]
           S == {k \in 0 .. n : Good(k)}
<1> HIDE DEF n
<1>6. 0 \in S
  <2>1. filtered[0] = << >>
    BY <1>0, <1>4
  <2>2. DOMAIN << >> = {} /\ 1 .. 0 = {} /\ 0 \in 0 .. n
    BY <1>0
  <2>3. Good(0)
    BY <1>0, <2>1, <2>2
  <2> QED BY <2>2, <2>3
<1>7. ASSUME NEW k \in 0 .. n - 1, k \in S PROVE k + 1 \in S
  <2>1. PICK i \in 1 .. n : i = k + 1 /\ k = i - 1 /\ i \in 0 .. n /\ i # 0
    BY <1>0
  <2>2. filtered[i] = IF ContainsWithdrawal(q[i]) THEN filtered[k]
                      ELSE Append(filtered[k], q[i])
    BY <1>4, <2>1
  <2>3. Good(k)
    BY <1>7
  <2>4. Good(i)
    <3>1. CASE ContainsWithdrawal(q[i])
      <4>1. filtered[i] = filtered[k]
        BY <2>2, <3>1
      <4>2. \A j \in 1 .. i : j = i \/ j \in 1 .. k
        BY <1>0, <2>1
      <4> QED BY <2>3, <3>1, <4>1, <4>2
    <3>2. CASE ~ContainsWithdrawal(q[i])
      <4> DEFINE s == filtered[k]
                 r == filtered[i]
      <4>1. r = Append(s, q[i]) /\ s \in Seq(T) /\ q[i] \in T
        BY <1>0, <2>2, <2>3, <3>2
      <4> HIDE DEF s, r
      <4>2. /\ r \in Seq(T) /\ Len(s) \in Nat /\ DOMAIN s = 1 .. Len(s)
            /\ DOMAIN r = 1 .. Len(s) + 1
            /\ r[Len(s) + 1] = q[i]
            /\ \A j \in 1 .. Len(s) : r[j] = s[j]
        BY <4>1
      <4>3. \A j \in DOMAIN r : ~ContainsWithdrawal(r[j])
        <5> SUFFICES ASSUME NEW j \in DOMAIN r PROVE ~ContainsWithdrawal(r[j])
          OBVIOUS
        <5>1. j = Len(s) + 1 \/ j \in 1 .. Len(s)
          BY <4>2
        <5>2. j \in 1 .. Len(s) => ~ContainsWithdrawal(s[j])
          BY <2>3, <4>2 DEF s
        <5> QED BY <3>2, <4>2, <5>1, <5>2
      <4>4. ASSUME NEW h \in 1 .. i, ~ContainsWithdrawal(q[h])
            PROVE  \E j \in DOMAIN r : r[j] = q[h]
        <5>1. CASE h = i
          <6>1. Len(s) + 1 \in DOMAIN r
            BY <4>2
          <6> QED BY <4>2, <5>1, <6>1
        <5>2. CASE h # i
          <6>1. h \in 1 .. k
            BY <1>0, <2>1, <5>2
          <6>2. PICK j \in DOMAIN s : s[j] = q[h]
            BY <2>3, <4>4, <6>1 DEF s
          <6>3. j \in DOMAIN r /\ r[j] = s[j]
            BY <4>2
          <6> QED BY <6>2, <6>3
        <5> QED BY <5>1, <5>2
      <4> QED BY <4>2, <4>3, <4>4 DEF r
    <3> QED BY <3>1, <3>2
  <2> QED BY <2>1, <2>4
<1>8. Good(n)
  <2> HIDE DEF S
  <2>1. \A k \in 0 .. n : k \in S
    BY <1>0, <1>6, <1>7, BoundedInduction
  <2>2. n \in S
    BY <1>0, <2>1
  <2> QED BY <2>2 DEF S
<1> QED BY <1>0, <1>5, <1>8

-----------------------------------------------------------------------------
(* Proposers take turns: arithmetic of the rotation *)

\* A positive multiple of k is at least k.
LEMMA Times ==
    ASSUME NEW k \in Nat \ {0}, NEW d \in Int, d >= 1
    PROVE  k * d >= k
<1>1. k * d = k * (d - 1) + k
  OBVIOUS
<1>2. d - 1 \in Nat
  OBVIOUS
<1>3. \A e \in Nat : k * e >= 0
  OBVIOUS
<1> QED BY <1>1, <1>2, <1>3

\* Remainders are unique.
LEMMA Unique ==
    ASSUME NEW k \in Nat \ {0}, NEW q \in Int, NEW p \in Int,
           NEW r \in 0 .. k - 1, NEW s \in 0 .. k - 1, k * q + r = k * p + s
    PROVE  r = s
<1>1. k * (q - p) = s - r /\ k * (p - q) = r - s
  OBVIOUS
<1>2. CASE q = p
  BY <1>2
<1>3. CASE q > p
  <2>1. PICK d \in Int : d = q - p
    OBVIOUS
  <2>2. d >= 1
    BY <1>3, <2>1
  <2>3. k * d >= k
    BY <2>2, Times
  <2> QED BY <1>1, <2>1, <2>3
<1>4. CASE p > q
  <2>1. PICK d \in Int : d = p - q
    OBVIOUS
  <2>2. d >= 1
    BY <1>4, <2>1
  <2>3. k * d >= k
    BY <2>2, Times
  <2> QED BY <1>1, <2>1, <2>3
<1> QED BY <1>2, <1>3, <1>4

\* What % leaves is the number less a multiple of k, ...
LEMMA Euclid ==
    ASSUME NEW h \in Int, NEW k \in Int, k > 0
    PROVE  \E q \in Int : h % k = h - k * q
  OBVIOUS

\* ... and less than k.
LEMMA Remainder ==
    ASSUME NEW h \in Nat, NEW k \in Nat \ {0}
    PROVE  h % k \in 0 .. k - 1
  OBVIOUS

\* The proposer of a round is the proposer k rounds later.
LEMMA ModShift ==
    ASSUME NEW h \in Nat, NEW k \in Nat \ {0}
    PROVE  (h + k) % k = h % k
<1>0. h \in Int /\ k \in Int /\ k > 0
  OBVIOUS
<1>1. PICK q \in Int : h % k = h - k * q
  BY <1>0, Euclid
<1>2. PICK g \in Nat : g = h + k
  OBVIOUS
<1>3. PICK p \in Int : g % k = g - k * p
  BY <1>0, Euclid
<1>4. g % k \in 0 .. k - 1 /\ h % k \in 0 .. k - 1
  BY Remainder
<1>5. PICK r, s \in 0 .. k - 1 : r = g % k /\ s = h % k
  BY <1>4
<1>6. k * p + r = k * (q + 1) + s
  BY <1>1, <1>2, <1>3, <1>5
<1>7. PICK t \in Int : t = q + 1
  OBVIOUS
<1>8. r = s
  BY <1>6, <1>7, Unique
<1> QED BY <1>8, <1>5, <1>2

\* Among k rounds in a row every proposer of k has a turn, from whatever height the
\* rounds start (the rotation CometBFT gives equal powers).
LEMMA EveryTurnComes ==
    ASSUME NEW k \in Nat \ {0}, NEW p \in 0 .. k - 1
    PROVE  \A h \in Nat : \E r \in 0 .. k - 1 : (h + r) % k = p
  <1> DEFINE S == {h \in Nat : \E r \in 0 .. k - 1 : (h + r) % k = p}
  <1>1. 0 \in S
    <2>1. p % k = p /\ 0 + p = p
      OBVIOUS
    <2> QED BY <2>1
  <1>2. ASSUME NEW h \in Nat, h \in S PROVE h + 1 \in S
    <2>1. PICK r \in 0 .. k - 1 : (h + r) % k = p
      BY <1>2
    <2>2. CASE r # 0
      <3>1. r - 1 \in 0 .. k - 1 /\ (h + 1) + (r - 1) = h + r
        BY <2>2
      <3>2. PICK j \in 0 .. k - 1 : (h + 1) + j = h + r
        BY <3>1
      <3> QED BY <2>1, <3>2
    <2>3. CASE r = 0
      <3>1. k - 1 \in 0 .. k - 1 /\ (h + 1) + (k - 1) = h + k /\ h + 0 = h
        OBVIOUS
      <3>2. (h + k) % k = p
        BY <2>1, <2>3, <3>1, ModShift
      <3>3. PICK j \in 0 .. k - 1 : (h + 1) + j = h + k
        BY <3>1
      <3> QED BY <3>2, <3>3
    <2> QED BY <2>2, <2>3
  <1> HIDE DEF S
  <1>3. \A h \in Nat : h \in S
    BY <1>1, <1>2, SetInduction
  <1> QED BY <1>3 DEF S

-----------------------------------------------------------------------------
(***************************************************************************)
(* The escape hatch.  An honest proposer's block passes its own node's     *)
(* checks (HonestProposalPasses), and every proposer has a turn in the     *)
(* MaxCensorshipRounds rounds before the hatch opens.  So a height that    *)
(* reaches the hatch held a transaction no honest proposer could include.  *)
(***************************************************************************)

\* What the checks other than the censorship check need of the store.
Store ==
    /\ {"fsm", "hBtcAnchored", "hBtcCurrent", "hEngramVerified"} \subseteq DOMAIN app
    /\ app.fsm.state \in FSMStates
    /\ app.hBtcAnchored = 0 /\ app.hBtcCurrent = 0
    /\ app.hEngramVerified \in Nat /\ app.hEngramVerified <= app.height
    /\ app.headers \subseteq Nat \ {0}
    /\ WithdrawLocked(app.fsm.state) => app.lastRoot # 0

\* Mempools are finite, and a block's transactions execute before the next round.
Mempools ==
    /\ IsFiniteSet(pool) /\ early \subseteq pool
    /\ round \in Nat /\ (txs # << >> => round = 0)

\* A transaction that trips the check and that no honest proposer can include.
Stuck ==
    \E t \in DOMAIN app.forced :
        /\ app.forced[t] >= MaxIgnoreRounds
        /\ PlainTx(t) \notin early \/ t \in Withdrawals

\* Only proposers that omit transactions have had their turn.
OnlyOmitters ==
    ~Stuck => \A r \in 0 .. round - 1 : (app.height + r) % ProposerCount \in Omitters

HatchInv == QueueTypes /\ Store /\ Mempools /\ OnlyOmitters

\* The target is one of the four states, and RECOVERING is reached from the locked
\* states only (circuit_breaker.go:46-101).
LEMMA TargetFacts ==
    ASSUME NEW f, f.state \in FSMStates, NEW m, NEW pv
    PROVE  /\ CalculateNextState(f, m, pv) \in FSMStates
           /\ CalculateNextState(f, m, pv) = Recovering => WithdrawLocked(f.state)
  BY DEF CalculateNextState, FSMStates, WithdrawLocked, Anchored, Suspicious,
         Sovereign, Recovering

\* What a node that sees fresh data proposes.
LEMMA ExtFacts ==
    ASSUME QueueTypes, Store, NEW view \in Views, NEW ext, ext = ProposeExt(app, view)
    PROVE  /\ ext.fsmState = TargetState(app, view)
           /\ ext.healthy = Healthy(app, view)
           /\ ext.btcHeight = 0
           /\ ext.daHeight = app.height + 1 /\ ext.daHeight > app.hEngramVerified
           /\ ext.daAttested
           /\ ext.zkProofRef = (AtProofGate(app, ext.fsmState) /\ app.lastRoot # 0)
           /\ ext.fsmState \in FSMStates
           /\ ext.fsmState = Recovering => app.lastRoot # 0
<1>1. /\ view.confirmed = 0 /\ view.btcHeight = 0 /\ view.daVerified = app.height + 1
  BY DEF Views
<1>2. app.height \in Nat /\ app.hEngramVerified \in Nat /\ app.hEngramVerified <= app.height
  BY DEF QueueTypes, Store
<1>3. app.height + 1 > app.hEngramVerified /\ app.height + 1 > 0
  BY <1>2
<1>4. ProposedDAHeight(app, view) = app.height + 1
  BY <1>1, <1>3 DEF ProposedDAHeight
<1>5. ProposedBtcHeight(app, view) = 0
  <2>1. app.hBtcAnchored = 0 /\ ~(0 > 0)
    BY DEF Store
  <2> QED BY <1>1, <2>1 DEF ProposedBtcHeight
<1>6. /\ ext.fsmState = TargetState(app, view) /\ ext.healthy = Healthy(app, view)
      /\ ext.btcHeight = ProposedBtcHeight(app, view)
      /\ ext.daHeight = ProposedDAHeight(app, view)
      /\ ext.daAttested = (ProposedDAHeight(app, view) > 0)
      /\ ext.zkProofRef = ProposedProofRef(app, view, ext.fsmState)
  BY DEF ProposeExt
<1>7. ext.fsmState \in FSMStates /\ (ext.fsmState = Recovering => WithdrawLocked(app.fsm.state))
  BY <1>6, TargetFacts DEF TargetState, Store
<1>8. ext.zkProofRef = (AtProofGate(app, ext.fsmState) /\ app.lastRoot # 0)
  BY <1>3, <1>4, <1>6, Zenon DEF ProposedProofRef
<1>9. ext.fsmState = Recovering => app.lastRoot # 0
  BY <1>7 DEF Store
<1>10. ext.daAttested /\ ext.daHeight > app.hEngramVerified
  BY <1>3, <1>4, <1>6
<1> QED BY <1>4, <1>5, <1>6, <1>7, <1>8, <1>9, <1>10

\* The receipts of such a proposal pass, in every round (x/da and x/anchor).
LEMMA HonestReceiptsPass ==
    ASSUME QueueTypes, Store, NEW view \in Views, NEW ext, ext = ProposeExt(app, view),
           round \in Nat
    PROVE  ReceiptChecks(app, ext, view, round)
<1>1. /\ ext.btcHeight = 0 /\ ext.daHeight = app.height + 1 /\ ext.daAttested
  BY ExtFacts
<1>2. PICK h \in Nat : h = app.height + 1
  BY DEF QueueTypes
<1>3. PICK tol \in Nat : tol = DAThreshold + DATolerance(round)
  <2>1. DATolerance(round) \in Nat
    BY DEF DATolerance
  <2> QED BY <2>1, ParamsAssumption
<1>4. h <= h /\ h >= Monus(h, tol)
  BY DEF Monus
<1>5. VerifyDAReceipt(ext, IsDAHealthy(RefreshMetrics(app, view)), app.height + 1, round)
  BY <1>1, <1>2, <1>3, <1>4, Zenon DEF VerifyDAReceipt
<1>6. HBtcCurrent(app, view) = 0 /\ app.hBtcAnchored = 0
  BY DEF HBtcCurrent, Views, Store
<1>7. PICK b \in Nat : b = BTCTolerance(round)
  BY ProposalAssumption DEF BTCTolerance
<1>8. 0 >= Monus(0, b) /\ 0 <= 0 /\ 0 >= 0 /\ ~(0 > 0)
  BY DEF Monus
<1>9. VerifyBTCReceipt(ext, IsBTCHealthy(RefreshMetrics(app, view)),
                       HBtcCurrent(app, view), app.hBtcAnchored, round)
  BY <1>1, <1>6, <1>7, <1>8, Zenon DEF VerifyBTCReceipt, VerifySPVProof
<1>10. ~(ext.btcHeight > app.hBtcAnchored)
  BY <1>1, <1>6, <1>8, Zenon
<1> QED BY <1>5, <1>9, <1>10, Zenon DEF ReceiptChecks

\* The whole pool, in any order, proposed by a node that sees fresh data, passes
\* that node's own ProcessProposal unless a transaction is stuck (proposal.go:259-360).
LEMMA HonestProposalPasses ==
    ASSUME HatchInv, ~Stuck, NEW view \in Views, NEW mempool \in Orders(pool)
    PROVE  ProcessProposal(app, PrepareProposal(app, view, mempool), view, round)
<1> DEFINE ext == ProposeExt(app, view)
           blk == PrepareProposal(app, view, mempool)
           kept == WithoutWithdrawals(mempool)
<1>0. QueueTypes /\ Store /\ round \in Nat /\ IsFiniteSet(pool) /\ early \subseteq pool
  BY DEF HatchInv, Mempools
<1>1. blk.ext = ext /\ blk.txs = ProposedTxs(app, ext.fsmState, mempool)
  BY DEF PrepareProposal
<1>2. mempool \in Seq(pool) /\ \A tx \in pool : \E i \in DOMAIN mempool : mempool[i] = tx
  <2>1. PICK n \in Nat : n = Cardinality(pool)
    BY <1>0, FS_CardinalityType
  <2>2. mempool \in [1 .. n -> pool]
    BY <2>1 DEF Orders
  <2> QED BY <2>2 DEF Orders
<1>3. /\ \A j \in DOMAIN kept : ~ContainsWithdrawal(kept[j])
      /\ \A i \in DOMAIN mempool : ~ContainsWithdrawal(mempool[i]) =>
            \E j \in DOMAIN kept : kept[j] = mempool[i]
  BY <1>2, FilterKeeps, Zenon
<1> HIDE DEF ext, blk, kept
<1>4. CensorshipCheck(app, blk.txs, round)
  <2> SUFFICES ASSUME NEW t \in DOMAIN app.forced, app.forced[t] >= MaxIgnoreRounds
               PROVE  t \in Included(blk.txs)
    BY Zenon DEF CensorshipCheck, IsCensoring
  <2>1. PlainTx(t) \in pool /\ t \notin Withdrawals
    BY <1>0, Zenon DEF Stuck
  <2>2. PICK i \in DOMAIN mempool : mempool[i] = PlainTx(t)
    BY <1>2, <2>1, Zenon
  <2>3. PlainTx(t).kind = "plain" /\ PlainTx(t).tx = t
    BY DEF PlainTx
  <2>4. ~ContainsWithdrawal(mempool[i])
    BY <2>1, <2>2, <2>3, Zenon DEF ContainsWithdrawal
  <2>5. PICK j \in DOMAIN kept : kept[j] = mempool[i]
    BY <1>3, <2>4, Zenon
  <2>6. \E k \in DOMAIN blk.txs : blk.txs[k] = PlainTx(t)
    BY <1>1, <2>2, <2>5, Zenon DEF ProposedTxs, kept
  <2> QED BY <2>3, <2>6, Zenon DEF Included
<1>5. StateAndHealthCheck(app, ext, view)
  BY <1>0, ExtFacts, Zenon DEF StateAndHealthCheck, ext
<1>6. ReceiptChecks(app, ext, view, round)
  BY <1>0, HonestReceiptsPass, Zenon DEF ext
<1>7. WithdrawCheck(ext, blk.txs)
  BY <1>1, <1>3, Zenon DEF WithdrawCheck, ProposedTxs, kept
<1>8. ProofGateCheck(app, ext)
  <2>1. /\ ext.zkProofRef = (AtProofGate(app, ext.fsmState) /\ app.lastRoot # 0)
        /\ ext.daAttested /\ ext.daHeight > app.hEngramVerified
        /\ ext.fsmState = Recovering => app.lastRoot # 0
    BY <1>0, ExtFacts, Zenon DEF ext
  <2>2. AtProofGate(app, ext.fsmState) => ext.fsmState = Recovering
    BY Zenon DEF AtProofGate
  <2> QED BY <2>1, <2>2, Zenon DEF ProofGateCheck, VerifyZkProofFlag
<1> QED BY <1>1, <1>4, <1>5, <1>6, <1>7, <1>8, Zenon DEF ProcessProposal, blk

\* Messages leave alone what Store is about, but for the checkpoint and the
\* headers, which a proof moves together (msg_server.go:52-89).
LEMMA DeliverKeepsStore ==
    ASSUME QueueTypes, Store, NEW tx, app' = DeliverTx(app, tx)
    PROVE  Store'
<1>1. CASE app' = app
  BY <1>1, Zenon DEF Store
<1>2. CASE tx.kind = "proof" /\ ProofBinds(app, tx)
  <2>1. app' = [app EXCEPT !.lastRoot  = tx.rtNew,
                           !.headers   = PruneHeaderHistoryUpTo(app.headers, tx.rtNew),
                           !.realProof = tx.rtNew]
    BY <1>2 DEF DeliverTx, SubmitRecoveryProof
  <2>2. /\ DOMAIN app' = DOMAIN app /\ app'.fsm = app.fsm /\ app'.height = app.height
        /\ app'.hBtcAnchored = app.hBtcAnchored /\ app'.hBtcCurrent = app.hBtcCurrent
        /\ app'.hEngramVerified = app.hEngramVerified
        /\ app'.lastRoot = tx.rtNew
        /\ app'.headers = PruneHeaderHistoryUpTo(app.headers, tx.rtNew)
    BY <2>1 DEF QueueTypes, Store
  <2>3. tx.rtNew # 0
    BY <1>2 DEF ProofBinds, Store
  <2>4. app'.headers \subseteq app.headers
    BY <2>2 DEF PruneHeaderHistoryUpTo
  <2> QED BY <2>2, <2>3, <2>4, Zenon DEF Store
<1>3. CASE tx.kind = "force" /\ ~Throttled(app)
  <2>1. app' = [app EXCEPT !.forced = [u \in DOMAIN app.forced \cup {tx.tx} |->
                  IF u \in DOMAIN app.forced THEN app.forced[u] ELSE 0]]
    BY <1>3 DEF DeliverTx, SubmitForcedTx
  <2>2. /\ DOMAIN app' = DOMAIN app /\ app'.fsm = app.fsm /\ app'.height = app.height
        /\ app'.hBtcAnchored = app.hBtcAnchored /\ app'.hBtcCurrent = app.hBtcCurrent
        /\ app'.hEngramVerified = app.hEngramVerified
        /\ app'.lastRoot = app.lastRoot /\ app'.headers = app.headers
    BY <2>1 DEF QueueTypes, Store
  <2> QED BY <2>2, Zenon DEF Store
<1>4. app' = app \/ (tx.kind = "proof" /\ ProofBinds(app, tx))
                 \/ (tx.kind = "force" /\ ~Throttled(app))
  BY DEF DeliverTx, SubmitRecoveryProof, SubmitForcedTx
<1> QED BY <1>1, <1>2, <1>3, <1>4, Zenon

\* A decided block keeps Store: it moves the receipts with the height and binds
\* the checkpoint when the lock closes (preblock.go).
LEMMA DecideKeepsStore ==
    ASSUME QueueTypes, Store, NEW view \in Views, NEW ext, ext = ProposeExt(app, view),
           NEW included, app' = PreBlock(app, ext, included)
    PROVE  Store'
<1>1. /\ ext.btcHeight = 0 /\ ext.daHeight = app.height + 1 /\ ext.fsmState \in FSMStates
  BY ExtFacts
<1>2. /\ {"fsm", "hBtcAnchored", "hBtcCurrent", "hEngramVerified"} \subseteq DOMAIN app'
      /\ app'.fsm = CommitFSM(app.fsm, ext.fsmState, ext.healthy)
      /\ app'.height = app.height + 1
      /\ app'.hBtcAnchored = ext.btcHeight /\ app'.hEngramVerified = ext.daHeight
      /\ app'.hBtcCurrent = IF app.fsm.state = Recovering /\ ext.fsmState = Anchored
                            THEN ext.btcHeight ELSE app.hBtcCurrent
      /\ app'.headers = CommitHeaders(app, ext.fsmState)
      /\ app'.lastRoot = CommitLastRoot(app, ext.fsmState)
  BY DEF PreBlock
<1>3. app'.fsm.state = ext.fsmState
  BY <1>2 DEF CommitFSM
<1>4. app'.hBtcAnchored = 0 /\ app'.hBtcCurrent = 0
  BY <1>1, <1>2 DEF Store
<1>5. PICK h \in Nat \ {0} : h = app.height + 1
  BY DEF QueueTypes
<1>6. app'.hEngramVerified \in Nat /\ app'.hEngramVerified <= app'.height
  BY <1>1, <1>2, <1>5
<1>7. app'.headers \subseteq Nat \ {0}
  <2>1. app.headers \subseteq Nat \ {0}
    BY DEF Store
  <2>2. app'.headers \subseteq app.headers \cup {h}
    BY <1>2, <1>5 DEF CommitHeaders
  <2> QED BY <1>5, <2>1, <2>2
<1>8. WithdrawLocked(app'.fsm.state) => app'.lastRoot # 0
  <2>1. WithdrawLocked(ext.fsmState) /\ ~WithdrawLocked(app.fsm.state) => app'.lastRoot = h
    BY <1>2, <1>5, Zenon DEF CommitLastRoot
  <2>2. WithdrawLocked(app.fsm.state) => app'.lastRoot = app.lastRoot /\ app.lastRoot # 0
    BY <1>2, Zenon DEF CommitLastRoot, Store
  <2>3. h # 0
    BY <1>5
  <2> QED BY <1>3, <2>1, <2>2, <2>3, Zenon
<1> QED BY <1>1, <1>2, <1>3, <1>4, <1>6, <1>7, <1>8, Zenon DEF Store

\* What a round does to the variables.
LEMMA RoundFacts ==
    ASSUME Round
    PROVE  /\ txs = << >>
           /\ \E view \in Views, mempool \in Reaped :
                LET block == PrepareProposal(app, view, mempool)
                IN  \/ /\ ProcessProposal(app, block, view, round)
                       /\ app' = PreBlock(app, block.ext, Included(block.txs))
                       /\ pool' = pool \ TxSet(block.txs) /\ early' = pool'
                       /\ round' = 0
                    \/ /\ ~ProcessProposal(app, block, view, round)
                       /\ round' \in {round, round + 1}
                       /\ UNCHANGED <<app, txs, pool, early>>
  BY Zenon DEF Round

\* With the rotation: a height without a stuck transaction is decided before the
\* hatch opens.
LEMMA HatchStaysShut ==
    ASSUME HatchInv, ~Stuck
    PROVE  round < MaxCensorshipRounds
<1> SUFFICES ASSUME round >= MaxCensorshipRounds PROVE FALSE
  BY ProposalAssumption DEF HatchInv, Mempools
<1>1. PICK p \in 0 .. ProposerCount - 1 : p \notin Omitters
  BY ForcedTxAssumption
<1>2. ProposerCount \in Nat \ {0} /\ ProposerCount <= MaxCensorshipRounds
  BY ForcedTxAssumption, ProposalAssumption
<1>3. app.height \in Nat /\ round \in Nat
  BY DEF HatchInv, QueueTypes, Mempools
<1>4. PICK r \in 0 .. ProposerCount - 1 : (app.height + r) % ProposerCount = p
  BY <1>2, <1>3, EveryTurnComes
<1>5. r \in 0 .. round - 1
  BY <1>2, <1>3, ProposalAssumption
<1> QED BY <1>1, <1>4, <1>5, Zenon DEF HatchInv, OnlyOmitters

\* A round of an honest proposer decides unless a transaction is stuck.
LEMMA FailedRoundOmits ==
    ASSUME HatchInv, ~Stuck, NEW view \in Views, NEW mempool \in Reaped,
           ~ProcessProposal(app, PrepareProposal(app, view, mempool), view, round)
    PROVE  (app.height + round) % ProposerCount \in Omitters
  BY HonestProposalPasses, Zenon DEF Reaped

\* A round before the next one is a round before this one, or this one.
LEMMA EarlierRound ==
    ASSUME NEW a \in Nat, NEW b, b \in {a, a + 1}, NEW r, r \in 0 .. b - 1
    PROVE  r \in 0 .. a - 1 \/ r = a
<1>1. CASE b = a
  BY <1>1
<1>2. CASE b = a + 1
  <2>1. r \in Int /\ 0 <= r /\ r <= a + 1 - 1
    BY <1>2
  <2> QED BY <2>1
<1> QED BY <1>1, <1>2

\* Every action keeps the invariant: a new height starts with no round given up, a
\* failed round was an omitting proposer's, and the pools only lose what was decided.
LEMMA HatchStep == HatchInv /\ [Next]_vars => HatchInv'
<1> SUFFICES ASSUME HatchInv, [Next]_vars PROVE HatchInv'
  OBVIOUS
<1>q. QueueTypes'
  BY NextQueueTypes, Zenon DEF HatchInv
<1>0. QueueTypes /\ Store /\ Mempools /\ OnlyOmitters
  BY Zenon DEF HatchInv
<1>1. CASE UNCHANGED vars
  <2>1. app' = app /\ round' = round /\ txs' = txs /\ pool' = pool /\ early' = early
    BY <1>1, Zenon DEF vars
  <2> QED BY <1>q, <1>0, <2>1, Zenon DEF HatchInv, Store, Mempools, OnlyOmitters, Stuck
<1>2. CASE Broadcast
  <2>1. PICK tx : /\ pool' = pool \cup {tx}
                  /\ early' = IF round = 0 THEN early \cup {tx} ELSE early
    BY <1>2, Zenon DEF Broadcast
  <2>2. app' = app /\ round' = round /\ txs' = txs
    BY <1>2, Zenon DEF Broadcast
  <2>3. Store'
    BY <1>0, <2>2, Zenon DEF Store
  <2>4. Mempools'
    <3>1. IsFiniteSet(pool')
      BY <1>0, <2>1, FS_AddElement, Zenon DEF Mempools
    <3>2. early' \subseteq pool'
      BY <1>0, <2>1 DEF Mempools
    <3> QED BY <1>0, <2>2, <3>1, <3>2, Zenon DEF Mempools
  <2>5. OnlyOmitters'
    <3>1. CASE round = 0
      <4>1. 0 .. round' - 1 = {}
        BY <2>2, <3>1
      <4> QED BY <4>1, Zenon DEF OnlyOmitters
    <3>2. CASE round # 0
      <4>1. early' = early
        BY <2>1, <3>2, Zenon
      <4> QED BY <1>0, <2>2, <4>1, Zenon DEF OnlyOmitters, Stuck
    <3> QED BY <3>1, <3>2, Zenon
  <2> QED BY <1>q, <2>3, <2>4, <2>5, Zenon DEF HatchInv
<1>3. CASE ExecuteTx
  <2>1. app' = DeliverTx(app, Head(txs)) /\ txs # << >>
        /\ round' = round /\ pool' = pool /\ early' = early
    BY <1>3, Zenon DEF ExecuteTx
  <2>2. Store'
    BY <1>0, <2>1, DeliverKeepsStore, Zenon
  <2>3. round = 0 /\ round \in Nat
    BY <1>0, <2>1, Zenon DEF Mempools
  <2>4. Mempools'
    BY <1>0, <2>1, <2>3, Zenon DEF Mempools
  <2>5. 0 .. round' - 1 = {}
    BY <2>1, <2>3
  <2>6. OnlyOmitters'
    BY <2>5, Zenon DEF OnlyOmitters
  <2> QED BY <1>q, <2>2, <2>4, <2>6, Zenon DEF HatchInv
<1>4. CASE Round
  <2>1. PICK view \in Views, mempool \in Reaped :
          LET block == PrepareProposal(app, view, mempool)
          IN  \/ /\ ProcessProposal(app, block, view, round)
                 /\ app' = PreBlock(app, block.ext, Included(block.txs))
                 /\ pool' = pool \ TxSet(block.txs) /\ early' = pool'
                 /\ round' = 0
              \/ /\ ~ProcessProposal(app, block, view, round)
                 /\ round' \in {round, round + 1}
                 /\ UNCHANGED <<app, txs, pool, early>>
    BY <1>4, RoundFacts, Zenon
  <2> DEFINE block == PrepareProposal(app, view, mempool)
  <2>2. CASE ProcessProposal(app, block, view, round)
    <3>1. /\ app' = PreBlock(app, block.ext, Included(block.txs))
          /\ pool' = pool \ TxSet(block.txs) /\ early' = pool' /\ round' = 0
      BY <2>1, <2>2, Zenon
    <3>2. block.ext = ProposeExt(app, view)
      BY DEF PrepareProposal
    <3> HIDE DEF block
    <3>3. Store'
      BY <1>0, <3>1, <3>2, DecideKeepsStore, Zenon
    <3>4. Mempools'
      <4>1. IsFiniteSet(pool')
        <5>1. pool' \subseteq pool
          BY <3>1
        <5> QED BY <1>0, <5>1, FS_Subset, Zenon DEF Mempools
      <4>2. round' \in Nat /\ early' \subseteq pool'
        BY <3>1
      <4> QED BY <3>1, <4>1, <4>2, Zenon DEF Mempools
    <3>5. 0 .. round' - 1 = {}
      BY <3>1
    <3>6. OnlyOmitters'
      BY <3>5, Zenon DEF OnlyOmitters
    <3> QED BY <1>q, <3>3, <3>4, <3>6, Zenon DEF HatchInv
  <2>3. CASE ~ProcessProposal(app, block, view, round)
    <3>1. round' \in {round, round + 1} /\ UNCHANGED <<app, txs, pool, early>>
      BY <2>1, <2>3, Zenon
    <3>2. txs = << >>
      BY <1>4, RoundFacts, Zenon
    <3>3. Store'
      BY <1>0, <3>1, Zenon DEF Store
    <3>4. round \in Nat /\ round' \in Nat
      BY <1>0, <3>1 DEF Mempools
    <3>5. Mempools'
      BY <1>0, <3>1, <3>2, <3>4, Zenon DEF Mempools
    <3>6. OnlyOmitters'
      <4> SUFFICES ASSUME ~Stuck', NEW r \in 0 .. round' - 1
                   PROVE  (app'.height + r) % ProposerCount \in Omitters
        BY Zenon DEF OnlyOmitters
      <4>1. ~Stuck /\ app' = app
        BY <3>1, Zenon DEF Stuck
      <4>2. r \in 0 .. round - 1 \/ r = round
        <5>1. r \in 0 .. round' - 1 /\ round' \in {round, round + 1}
          BY <3>1, Zenon
        <5> QED BY <3>4, <5>1, EarlierRound, Zenon
      <4>3. CASE r \in 0 .. round - 1
        BY <1>0, <4>1, <4>3, Zenon DEF OnlyOmitters
      <4>4. CASE r = round
        BY <2>3, <4>1, <4>4, FailedRoundOmits, Zenon
      <4> QED BY <4>2, <4>3, <4>4, Zenon
    <3> QED BY <1>q, <3>3, <3>5, <3>6, Zenon DEF HatchInv
  <2> QED BY <2>2, <2>3, Zenon
<1> QED BY <1>1, <1>2, <1>3, <1>4, Zenon DEF Next

\* The invariant behind the escape hatch, for any proposers and parameters.
THEOREM HatchInvariance == Spec => []HatchInv
<1>1. Init => HatchInv
  <2> SUFFICES ASSUME Init PROVE HatchInv
    OBVIOUS
  <2>1. QueueTypes
    BY KeeperAssumption DEF Init, GenesisApp, QueueTypes
  <2>2. /\ {"fsm", "hBtcAnchored", "hBtcCurrent", "hEngramVerified"} \subseteq DOMAIN app
        /\ app.fsm = GenesisFSM /\ app.hBtcAnchored = 0 /\ app.hBtcCurrent = 0
        /\ app.hEngramVerified = 0 /\ app.height = 0 /\ app.headers = {}
    BY DEF Init, GenesisApp
  <2>3. app.fsm.state = Anchored
    BY <2>2 DEF GenesisFSM
  <2>4. Store
    <3>1. 0 <= 0 /\ 0 \in Nat
      OBVIOUS
    <3>2. Anchored \in FSMStates /\ ~WithdrawLocked(Anchored)
      BY DEF FSMStates, WithdrawLocked, Anchored, Sovereign, Recovering
    <3> QED BY <2>2, <2>3, <3>1, <3>2 DEF Store
  <2>5. Mempools
    BY FS_EmptySet DEF Init, Mempools
  <2>6. OnlyOmitters
    <3>1. 0 .. round - 1 = {}
      BY DEF Init
    <3> QED BY <3>1 DEF OnlyOmitters
  <2> QED BY <2>1, <2>4, <2>5, <2>6 DEF HatchInv
<1> QED BY <1>1, HatchStep, PTL DEF Spec

\* The hatch of proposal.go:282 is used only for what no honest proposer could
\* include: a transaction that was in no mempool when the height began, or a
\* withdrawal.
THEOREM HatchTheorem == Spec => HatchOnlyForUncommittable
<1>1. HatchInv /\ [Next]_vars =>
        [Decided /\ round >= MaxCensorshipRounds =>
          \E t \in DOMAIN app.forced :
              /\ app.forced[t] >= MaxIgnoreRounds
              /\ PlainTx(t) \notin early \/ t \in Withdrawals]_vars
  <2> SUFFICES ASSUME HatchInv, round >= MaxCensorshipRounds PROVE Stuck
    BY Zenon DEF Stuck
  <2>1. round \in Nat /\ MaxCensorshipRounds \in Nat
    BY ProposalAssumption DEF HatchInv, Mempools
  <2>2. ~(round < MaxCensorshipRounds)
    BY <2>1
  <2> QED BY <2>2, HatchStaysShut, Zenon
<1> QED BY <1>1, HatchInvariance, PTL DEF Spec, HatchOnlyForUncommittable
=============================================================================
