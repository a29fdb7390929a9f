--------------------------- MODULE ObserverProofs ---------------------------
(***************************************************************************)
(* What the experiments conclude from their samples is true of the chain,  *)
(* for any number of nodes, any chain and any number of rounds.            *)
(*                                                                         *)
(* The argument: the heights a node is seen at never go down, since a node *)
(* never un-executes a block and the states are read from what it has      *)
(* executed.  A Tracker therefore sees a subsequence of the chain's        *)
(* states, and between two states that differ the chain has made at least  *)
(* one transition (History).  The two requests of one sample are tied      *)
(* together by the node's own order, store first and execute next (Nodes   *)
(* and Replies).                                                           *)
(***************************************************************************)
EXTENDS Observer, Induction

\* The account the chain keeps of itself is monotone and misses nothing.
History ==
  \A i, j \in 1 .. Len(chain) : i <= j =>
    /\ chain[i].changes <= chain[j].changes
    /\ chain[i].state # chain[j].state => chain[i].changes < chain[j].changes
    /\ chain[i].returns <= chain[j].returns
    /\ chain[i].state # "ANCHORED" /\ chain[j].state = "ANCHORED"
         => chain[i].returns < chain[j].returns

\* A node has executed what it stores, but for the last block.
Nodes ==
  \A n \in Node : /\ 1 <= applied[n] /\ applied[n] <= stored[n]
                  /\ stored[n] <= applied[n] + 1 /\ stored[n] <= Len(chain)

\* A hash that was reported for n is of its height, and of a branch only if n
\* is on one.
Genuine(n, h, hash) == hash[1] = h /\ (hash[2] = 0 \/ branch[n] # 0)

Replies ==
  reply # NoReply => /\ at \in Node
                     /\ applied[at] >= reply.height - 1
                     /\ Genuine(at, reply.height, reply.hash)

Samples ==
  \A n \in Node :
    /\ samples[n].state # "" => /\ samples[n].of \in 1 .. applied[n]
                                /\ samples[n].state = chain[samples[n].of].state
                                /\ seen[n] <= samples[n].of
    /\ samples[n].height > 0 => /\ samples[n].of >= samples[n].height - 1
                                /\ Genuine(n, samples[n].height, samples[n].hash)

Notes ==
  \A n \in Node :
    /\ seen[n] <= applied[n]
    /\ last_state[n] # "" => /\ seen[n] >= 1
                             /\ last_state[n] = chain[seen[n]].state
                             /\ transitions[n] <= chain[seen[n]].changes
    /\ last_state[n] = "" => transitions[n] = 0
    /\ n \in anchored_reached_at => seen[n] >= 1 /\ chain[seen[n]].returns > 0

IInv == /\ TypeOK /\ History /\ Nodes /\ Replies /\ Samples /\ Notes /\ NoFalseAlarm


\* An element of a sequence is a member of what the sequence is over.
LEMMA ElementType == ASSUME NEW S, NEW c \in Seq(S), NEW i \in 1 .. Len(c) PROVE c[i] \in S
OBVIOUS

\* The row query_node appends on an exception (logger.py) has no state and no height.
LEMMA ErrorSampleFacts ==
  ErrorSample \in Sample /\ ErrorSample.state = "" /\ ~(ErrorSample.height > 0)
<1>1. ErrorSample.height = -1
    BY DEF ErrorSample
<1>2. ErrorSample \in Sample /\ ErrorSample.state = ""
    BY DEF ErrorSample, Sample
<1>3. ~(ErrorSample.height > 0)
    BY <1>1
<1> QED BY <1>2, <1>3

\* A fresh chain that nobody has sampled.
LEMMA InitOK == Init => IInv
<1> SUFFICES ASSUME Init PROVE IInv
    OBVIOUS
<1> USE ObserverAssumption
<1> DEFINE genesis == [state |-> "ANCHORED", changes |-> 0, returns |-> 0]
<1>1. genesis \in Block
    BY DEF Block, States
<1>2. chain = <<genesis>>
    BY DEF Init
<1>3. chain \in Seq(Block) /\ Len(chain) = 1 /\ chain[1] = genesis
    <2> HIDE DEF genesis
    <2> QED BY <1>1, <1>2
<1>4. NoReply \in [height : Nat, hash : Nat \X Nat]
    BY DEF NoReply
<1>5. ChainType
    BY <1>3 DEF ChainType
<1>a. /\ stored = [n \in Node |-> 1] /\ applied = [n \in Node |-> 1]
      /\ branch = [n \in Node |-> 0]
    BY DEF Init
<1>b. at = 1 /\ reply = NoReply /\ samples = [n \in Node |-> ErrorSample]
    BY DEF Init
<1>c. /\ last_state = [n \in Node |-> ""] /\ seen = [n \in Node |-> 0]
      /\ transitions = [n \in Node |-> 0] /\ anchored_reached_at = {} /\ alarms = {}
    BY DEF Init
<1>d. rounds = 0 /\ states_by_node = [n \in Node |-> <<>>]
    BY DEF Init
<1>6. NodesType /\ TrackersType
    BY <1>a, <1>c DEF NodesType, TrackersType
<1>7. SamplerType
    <2>1. at \in 1 .. N + 1
        BY <1>b
    <2>2. samples \in [Node -> Sample]
        BY <1>b, ErrorSampleFacts
    <2> QED BY <2>1, <2>2, <1>4, <1>b DEF SamplerType
<1>8. KeptType
    BY <1>d DEF KeptType
<1>9. History
    <2>1. \A i \in 1 .. Len(chain) : chain[i] = genesis
        BY <1>3
    <2> QED BY <2>1 DEF History
<1>10. Nodes /\ Replies
    BY <1>3, <1>a, <1>b DEF Nodes, Replies
<1>11. Samples
    BY <1>b, ErrorSampleFacts DEF Samples
<1>12. Notes
    <2> SUFFICES ASSUME NEW n \in Node PROVE Notes!(n)
        BY DEF Notes
    <2>1. seen[n] = 0 /\ applied[n] = 1
        BY <1>a, <1>c
    <2>2. last_state[n] = "" /\ transitions[n] = 0 /\ n \notin anchored_reached_at
        BY <1>c
    <2>3. seen[n] <= applied[n]
        BY <2>1
    <2> QED BY <2>2, <2>3
<1>13. NoFalseAlarm
    BY <1>c DEF NoFalseAlarm
<1> QED BY <1>5, <1>6, <1>7, <1>8, <1>9, <1>10, <1>11, <1>12, <1>13 DEF IInv, TypeOK

\* A new block is counted, and changes nothing below it.
LEMMA CommitBlockOK == IInv /\ CommitBlock => IInv'
<1> SUFFICES ASSUME IInv, CommitBlock PROVE IInv'
    OBVIOUS
<1>0. /\ UNCHANGED <<stored, applied, branch, at, reply, samples>>
      /\ UNCHANGED <<rounds, last_state, seen, transitions, anchored_reached_at, alarms,
                     states_by_node>>
    BY DEF CommitBlock, sampler, trackers
<1>t. ChainType /\ NodesType /\ SamplerType /\ TrackersType /\ KeptType
    BY DEF IInv, TypeOK
<1> DEFINE L == Len(chain)
<1>2. chain \in Seq(Block) /\ L \in Nat /\ L >= 1 /\ L \in 1 .. L
    BY <1>t DEF ChainType
<1>3. Tip \in Block /\ Tip = chain[L]
    BY <1>2, ElementType DEF Tip
<1> DEFINE b(s) == [state    |-> s,
                    changes  |-> IF s = Tip.state THEN Tip.changes ELSE Tip.changes + 1,
                    returns  |-> IF s = "ANCHORED" /\ Tip.state # s THEN Tip.returns + 1
                                                                    ELSE Tip.returns]
<1>4. PICK s \in Successors[Tip.state] : chain' = Append(chain, b(s))
    BY DEF CommitBlock
<1>5. Tip.state \in States /\ Tip.changes \in Nat /\ Tip.returns \in Nat
    BY <1>3 DEF Block
<1>6. s \in States
    BY <1>4, <1>5 DEF Successors, States
<1>7. b(s) \in Block
    BY <1>5, <1>6 DEF Block
<1>8. /\ b(s).state = s
      /\ b(s).changes >= Tip.changes
      /\ s # Tip.state => b(s).changes > Tip.changes
      /\ b(s).returns >= Tip.returns
      /\ s = "ANCHORED" /\ Tip.state # "ANCHORED" => b(s).returns > Tip.returns
    BY <1>5
<1> HIDE DEF b
<1>9. /\ chain' \in Seq(Block) /\ Len(chain') = L + 1
      /\ \A i \in 1 .. L : chain'[i] = chain[i]
      /\ chain'[L + 1] = b(s)
    BY <1>2, <1>4, <1>7
<1> HIDE DEF L
<1>10. TypeOK'
    <2>1. ChainType'
        BY <1>2, <1>9 DEF ChainType
    <2>2. NodesType' /\ SamplerType' /\ TrackersType' /\ KeptType'
        BY <1>0, <1>t DEF NodesType, SamplerType, TrackersType, KeptType
    <2> QED BY <2>1, <2>2 DEF TypeOK
<1>11. History'
    <2> SUFFICES ASSUME NEW i \in 1 .. L + 1, NEW j \in 1 .. L + 1, i <= j
                 PROVE  /\ chain'[i].changes <= chain'[j].changes
                        /\ chain'[i].state # chain'[j].state
                             => chain'[i].changes < chain'[j].changes
                        /\ chain'[i].returns <= chain'[j].returns
                        /\ chain'[i].state # "ANCHORED" /\ chain'[j].state = "ANCHORED"
                             => chain'[i].returns < chain'[j].returns
        BY <1>9 DEF History
    <2>1. CASE j \in 1 .. L
        <3>1. i \in 1 .. L
            BY <1>2, <2>1
        <3> QED BY <2>1, <3>1, <1>9 DEF IInv, History, L
    <2>2. CASE j = L + 1 /\ i \in 1 .. L
        <3>1. /\ chain[i].changes <= Tip.changes
              /\ chain[i].state # Tip.state => chain[i].changes < Tip.changes
              /\ chain[i].returns <= Tip.returns
              /\ chain[i].state # "ANCHORED" /\ Tip.state = "ANCHORED"
                   => chain[i].returns < Tip.returns
            BY <2>2, <1>2, <1>3 DEF IInv, History, L
        <3>2. chain'[j] = b(s) /\ chain'[i] = chain[i]
            BY <2>2, <1>9
        <3>3. /\ chain[i].changes \in Nat /\ b(s).changes \in Nat
              /\ chain[i].returns \in Nat /\ b(s).returns \in Nat
            <4>1. chain[i] \in Block
                BY <2>2, <1>2, ElementType DEF L
            <4> QED BY <4>1, <1>7 DEF Block
        <3> QED BY <3>1, <3>2, <3>3, <1>5, <1>8
    <2>3. CASE i = L + 1
        <3>1. i = j
            BY <2>3, <1>2
        <3>2. b(s).changes \in Nat /\ b(s).returns \in Nat
            BY <1>7 DEF Block
        <3> QED BY <2>3, <3>1, <3>2, <1>9
    <2> QED BY <2>1, <2>2, <2>3, <1>2
<1>12. Nodes'
    BY <1>0, <1>2, <1>9, <1>t DEF IInv, NodesType, Nodes, L
<1>13. Replies' /\ NoFalseAlarm'
    BY <1>0 DEF IInv, Replies, NoFalseAlarm, Genuine
<1>14. Samples'
    <2> SUFFICES ASSUME NEW n \in Node PROVE Samples!(n)'
        BY DEF Samples
    <2>1. samples[n].state # "" => samples[n].of \in 1 .. L
        <3>1. applied[n] \in Nat /\ stored[n] \in Nat /\ samples[n].of \in Nat
            BY <1>t DEF NodesType, SamplerType, Sample
        <3>2. applied[n] <= stored[n] /\ stored[n] <= L
            BY DEF IInv, Nodes, L
        <3>3. samples[n].state # "" => samples[n].of \in 1 .. applied[n]
            BY DEF IInv, Samples
        <3>4. samples[n].of \in 1 .. applied[n] => samples[n].of \in 1 .. L
            BY <3>1, <3>2, <1>2
        <3> QED BY <3>3, <3>4
    <2> QED BY <2>1, <1>0, <1>9 DEF IInv, Samples, Genuine
<1>15. Notes'
    <2> SUFFICES ASSUME NEW n \in Node PROVE Notes!(n)'
        BY DEF Notes
    <2>1. seen[n] >= 1 => seen[n] \in 1 .. L
        <3>1. applied[n] \in Nat /\ stored[n] \in Nat /\ seen[n] \in Nat
            BY <1>t DEF NodesType, TrackersType
        <3>2. applied[n] <= stored[n] /\ stored[n] <= L
            BY DEF IInv, Nodes, L
        <3>3. seen[n] <= applied[n]
            BY DEF IInv, Notes
        <3> QED BY <3>1, <3>2, <3>3, <1>2
    <2> QED BY <2>1, <1>0, <1>9 DEF IInv, Notes
<1> QED BY <1>10, <1>11, <1>12, <1>13, <1>14, <1>15 DEF IInv

\* What the steps of a node leave alone.
LEMMA ReceiveOK == ASSUME IInv, NEW n \in Node, Receive(n) PROVE IInv'
<1>0. /\ UNCHANGED <<chain, applied, branch, at, reply, samples>>
      /\ UNCHANGED <<rounds, last_state, seen, transitions, anchored_reached_at, alarms,
                     states_by_node>>
    BY DEF Receive, sampler, trackers
<1>t. ChainType /\ NodesType /\ SamplerType /\ TrackersType /\ KeptType
    BY DEF IInv, TypeOK
<1>1. /\ applied[n] = stored[n] /\ stored[n] < Len(chain)
      /\ stored' = [stored EXCEPT ![n] = stored[n] + 1]
    BY DEF Receive
<1>2. stored' \in [Node -> Nat]
    BY <1>1, <1>t DEF NodesType
<1>3. TypeOK'
    <2>1. ChainType' /\ NodesType'
        BY <1>0, <1>2, <1>t DEF ChainType, NodesType
    <2>2. SamplerType' /\ TrackersType' /\ KeptType'
        BY <1>0, <1>t DEF SamplerType, TrackersType, KeptType
    <2> QED BY <2>1, <2>2 DEF TypeOK
<1>4. Nodes'
    <2>1. Len(chain) \in Nat
        BY <1>t DEF ChainType
    <2> QED BY <1>0, <1>1, <1>t, <2>1 DEF IInv, Nodes, NodesType
<1>5. History' /\ Replies' /\ Samples' /\ Notes' /\ NoFalseAlarm'
    BY <1>0 DEF IInv, History, Replies, Samples, Notes, NoFalseAlarm, Genuine
<1> QED BY <1>3, <1>4, <1>5 DEF IInv

\* A node that executes its last stored block catches up with it.
LEMMA ExecuteOK == ASSUME IInv, NEW n \in Node, Execute(n) PROVE IInv'
<1>0. /\ UNCHANGED <<chain, stored, branch, at, reply, samples>>
      /\ UNCHANGED <<rounds, last_state, seen, transitions, anchored_reached_at, alarms,
                     states_by_node>>
    BY DEF Execute, sampler, trackers
<1>t. ChainType /\ NodesType /\ SamplerType /\ TrackersType /\ KeptType
    BY DEF IInv, TypeOK
<1>1. applied[n] < stored[n] /\ applied' = [applied EXCEPT ![n] = applied[n] + 1]
    BY DEF Execute
<1>2. /\ applied' \in [Node -> Nat]
      /\ \A m \in Node : applied[m] \in Nat /\ applied'[m] \in Nat /\ applied[m] <= applied'[m]
    BY <1>1, <1>t DEF NodesType
<1>3. TypeOK'
    <2>1. ChainType' /\ NodesType'
        BY <1>0, <1>2, <1>t DEF ChainType, NodesType
    <2>2. SamplerType' /\ TrackersType' /\ KeptType'
        BY <1>0, <1>t DEF SamplerType, TrackersType, KeptType
    <2> QED BY <2>1, <2>2 DEF TypeOK
<1>4. Nodes'
    BY <1>0, <1>1, <1>t DEF IInv, Nodes, NodesType
<1>5. Replies'
    <2> SUFFICES ASSUME reply # NoReply PROVE Replies!2'
        BY <1>0 DEF Replies
    <2>1. at \in Node /\ applied[at] >= reply.height - 1 /\ Genuine(at, reply.height, reply.hash)
        BY DEF IInv, Replies
    <2>2. reply.height \in Nat
        BY <1>t DEF SamplerType
    <2>3. applied'[at] >= reply.height - 1
        BY <1>2, <2>1, <2>2
    <2> QED BY <1>0, <2>1, <2>3 DEF Genuine
<1>6. Samples'
    <2> SUFFICES ASSUME NEW m \in Node PROVE Samples!(m)'
        BY DEF Samples
    <2>1. samples[m].of \in Nat
        BY <1>t DEF SamplerType, Sample
    <2>2. samples[m].of \in 1 .. applied[m] => samples[m].of \in 1 .. applied'[m]
        BY <1>2, <2>1
    <2> QED BY <1>0, <2>2 DEF IInv, Samples, Genuine
<1>7. Notes'
    <2> SUFFICES ASSUME NEW m \in Node PROVE Notes!(m)'
        BY DEF Notes
    <2>1. seen[m] \in Nat
        BY <1>t DEF TrackersType
    <2>2. seen[m] <= applied[m] => seen[m] <= applied'[m]
        BY <1>2, <2>1
    <2> QED BY <1>0, <2>2 DEF IInv, Notes
<1>8. History' /\ NoFalseAlarm'
    BY <1>0 DEF IInv, History, NoFalseAlarm
<1> QED BY <1>3, <1>4, <1>5, <1>6, <1>7, <1>8 DEF IInv

\* A node that forks keeps the states of the main chain below its branch.
LEMMA ForkOK == ASSUME IInv, NEW n \in Node, Fork(n) PROVE IInv'
<1>0. /\ UNCHANGED <<chain, stored, applied, at, reply, samples>>
      /\ UNCHANGED <<rounds, last_state, seen, transitions, anchored_reached_at, alarms,
                     states_by_node>>
    BY DEF Fork, sampler, trackers
<1>t. ChainType /\ NodesType /\ SamplerType /\ TrackersType /\ KeptType
    BY DEF IInv, TypeOK
<1>1. branch' = [branch EXCEPT ![n] = stored[n]]
    BY DEF Fork
<1>2. stored[n] \in Nat /\ stored[n] # 0
    BY <1>t DEF IInv, Nodes, NodesType
<1>3. branch' \in [Node -> Nat] /\ \A m \in Node : branch[m] # 0 => branch'[m] # 0
    BY <1>1, <1>2, <1>t DEF NodesType
<1>4. TypeOK'
    <2>1. ChainType' /\ NodesType'
        BY <1>0, <1>3, <1>t DEF ChainType, NodesType
    <2>2. SamplerType' /\ TrackersType' /\ KeptType'
        BY <1>0, <1>t DEF SamplerType, TrackersType, KeptType
    <2> QED BY <2>1, <2>2 DEF TypeOK
<1>5. Nodes' /\ History' /\ Notes'
    BY <1>0 DEF IInv, Nodes, History, Notes
<1>6. Replies' /\ Samples'
    BY <1>0, <1>3 DEF IInv, Replies, Samples, Genuine
<1>7. NoFalseAlarm'
    BY <1>0, <1>3, <1>t DEF IInv, NoFalseAlarm, TrackersType
<1> QED BY <1>4, <1>5, <1>6, <1>7 DEF IInv

\* The first request of query_node reads a stored height.
LEMMA StatusOK == ASSUME IInv, Status PROVE IInv'
<1>0. /\ UNCHANGED <<chain, stored, applied, branch, at, samples>>
      /\ UNCHANGED <<rounds, last_state, seen, transitions, anchored_reached_at, alarms,
                     states_by_node>>
    BY DEF Status, nodes, trackers
<1>t. ChainType /\ NodesType /\ SamplerType /\ TrackersType /\ KeptType
    BY DEF IInv, TypeOK
<1>1. at \in Node /\ reply' = [height |-> stored[at], hash |-> Hash(at, stored[at])]
    BY DEF Status
<1>2. stored[at] \in Nat /\ branch[at] \in Nat /\ applied[at] \in Nat /\ at \in Nat
    BY <1>1, <1>t, ObserverAssumption DEF NodesType, Node
<1>3. Hash(at, stored[at]) \in Nat \X Nat /\ Genuine(at, stored[at], Hash(at, stored[at]))
    BY <1>2 DEF Hash, Genuine
<1>4. /\ reply' \in [height : Nat, hash : Nat \X Nat]
      /\ reply'.height = stored[at] /\ reply'.hash = Hash(at, stored[at])
    BY <1>1, <1>2, <1>3
<1>5. TypeOK'
    <2>1. ChainType' /\ NodesType' /\ TrackersType' /\ KeptType'
        BY <1>0, <1>t DEF ChainType, NodesType, TrackersType, KeptType
    <2>2. SamplerType'
        BY <1>0, <1>4, <1>t DEF SamplerType
    <2> QED BY <2>1, <2>2 DEF TypeOK
<1>6. Replies'
    <2>1. applied[at] >= stored[at] - 1
        BY <1>1, <1>2 DEF IInv, Nodes
    <2> QED BY <1>0, <1>1, <1>3, <1>4, <2>1 DEF Replies, Genuine
<1>7. History' /\ Nodes' /\ Samples' /\ Notes' /\ NoFalseAlarm'
    BY <1>0 DEF IInv, History, Nodes, Samples, Notes, NoFalseAlarm, Genuine
<1> QED BY <1>5, <1>6, <1>7 DEF IInv

\* After a node comes the next one, or the end of the round.
LEMMA NextNode == at \in Node => at + 1 \in 1 .. N + 1
BY ObserverAssumption DEF Node

\* A NodeSample put together from its fields.
LEMMA SampleType ==
  ASSUME NEW h \in Nat, NEW a \in Nat \X Nat, NEW z \in States, NEW k \in Nat
  PROVE  [height |-> h, hash |-> a, state |-> z, of |-> k] \in Sample
<1>1. h \in Int
    OBVIOUS
<1>2. z \in States \cup {""}
    OBVIOUS
<1> QED BY <1>1, <1>2 DEF Sample

\* A sample that is true of its node may be stored.
LEMMA SampledOK ==
  ASSUME IInv, at \in Node, NEW s \in Sample, Sampled(s),
         s.state # "" => /\ s.of \in 1 .. applied[at]
                         /\ s.state = chain[s.of].state
                         /\ seen[at] <= s.of,
         s.height > 0 => s.of >= s.height - 1 /\ Genuine(at, s.height, s.hash)
  PROVE  IInv'
<1>0. /\ UNCHANGED <<chain, stored, applied, branch>>
      /\ UNCHANGED <<rounds, last_state, seen, transitions, anchored_reached_at, alarms,
                     states_by_node>>
    BY DEF Sampled, nodes, trackers
<1>t. ChainType /\ NodesType /\ SamplerType /\ TrackersType /\ KeptType
    BY DEF IInv, TypeOK
<1>1. /\ samples' = [samples EXCEPT ![at] = s]
      /\ at' = at + 1 /\ reply' = NoReply
    BY DEF Sampled
<1>2. TypeOK'
    <2>1. ChainType' /\ NodesType' /\ TrackersType' /\ KeptType'
        BY <1>0, <1>t DEF ChainType, NodesType, TrackersType, KeptType
    <2>2. at' \in 1 .. N + 1
        BY <1>1, NextNode
    <2>3. reply' \in [height : Nat, hash : Nat \X Nat]
        BY <1>1 DEF NoReply
    <2>4. samples' \in [Node -> Sample]
        BY <1>1, <1>t DEF SamplerType
    <2> QED BY <2>1, <2>2, <2>3, <2>4 DEF TypeOK, SamplerType
<1>3. Samples'
    <2> SUFFICES ASSUME NEW n \in Node PROVE Samples!(n)'
        BY DEF Samples
    <2>1. CASE n = at
        <3>1. samples'[n] = s
            BY <1>1, <1>t, <2>1 DEF SamplerType
        <3> QED BY <1>0, <2>1, <3>1 DEF Genuine
    <2>2. CASE n # at
        <3>1. samples'[n] = samples[n]
            BY <1>1, <1>t, <2>2 DEF SamplerType
        <3> QED BY <1>0, <3>1 DEF IInv, Samples, Genuine
    <2> QED BY <2>1, <2>2
<1>4. Replies'
    BY <1>1 DEF Replies
<1>5. History' /\ Nodes' /\ Notes' /\ NoFalseAlarm'
    BY <1>0 DEF IInv, History, Nodes, Notes, NoFalseAlarm
<1> QED BY <1>2, <1>3, <1>4, <1>5 DEF IInv

\* The second request of query_node reads the executed state and closes the sample.
LEMMA AbciQueryOK == ASSUME IInv, AbciQuery PROVE IInv'
<1>t. ChainType /\ NodesType /\ SamplerType /\ TrackersType
    BY DEF IInv, TypeOK
<1> DEFINE s == [height |-> reply.height, hash |-> reply.hash,
                 state |-> chain[applied[at]].state, of |-> applied[at]]
<1>1. at \in Node /\ reply # NoReply /\ Sampled(s)
    BY DEF AbciQuery
<1>2. /\ applied[at] \in Nat /\ stored[at] \in Nat /\ Len(chain) \in Nat
      /\ reply.height \in Nat /\ reply.hash \in Nat \X Nat
    BY <1>1, <1>t DEF NodesType, ChainType, SamplerType
<1>3. applied[at] \in 1 .. Len(chain) /\ applied[at] \in 1 .. applied[at]
    BY <1>1, <1>2 DEF IInv, Nodes
<1>4. chain[applied[at]] \in Block
    BY <1>3, <1>t, ElementType DEF ChainType
<1>5. chain[applied[at]].state \in States
    BY <1>4 DEF Block
<1>6. s \in Sample
    BY <1>2, <1>5, SampleType
<1>7. seen[at] <= applied[at]
    BY <1>1 DEF IInv, Notes
<1>8. applied[at] >= reply.height - 1 /\ Genuine(at, reply.height, reply.hash)
    BY <1>1 DEF IInv, Replies
<1>9. /\ s.of = applied[at] /\ s.state = chain[applied[at]].state
      /\ s.height = reply.height /\ s.hash = reply.hash
    OBVIOUS
<1> HIDE DEF s
<1>10. s.of \in 1 .. applied[at] /\ s.state = chain[s.of].state /\ seen[at] <= s.of
    <2>1. s.of \in 1 .. applied[at] /\ seen[at] <= s.of
        BY <1>3, <1>7, <1>9
    <2>2. s.state = chain[s.of].state
        BY <1>9
    <2> QED BY <2>1, <2>2
<1>11. s.of >= s.height - 1 /\ Genuine(at, s.height, s.hash)
    BY <1>8, <1>9
<1> QED BY <1>1, <1>6, <1>10, <1>11, SampledOK

\* A request that fails leaves the error sample.
LEMMA RequestFailsOK == ASSUME IInv, RequestFails PROVE IInv'
<1>1. at \in Node /\ Sampled(ErrorSample)
    BY DEF RequestFails
<1> QED BY <1>1, ErrorSampleFacts, SampledOK

\* Between two heights at which a node was seen the chain has done what the
\* Tracker notes.
LEMMA SeenTwice ==
  ASSUME ChainType, History, NEW i \in 1 .. Len(chain), NEW j \in 1 .. Len(chain), i <= j
  PROVE  /\ chain[i].changes \in Nat /\ chain[j].changes \in Nat
         /\ chain[i].returns \in Nat /\ chain[j].returns \in Nat
         /\ chain[i].changes <= chain[j].changes
         /\ chain[i].state # chain[j].state => chain[i].changes + 1 <= chain[j].changes
         /\ chain[i].returns <= chain[j].returns
         /\ chain[i].state # "ANCHORED" /\ chain[j].state = "ANCHORED"
              => chain[j].returns > 0
<1>1. chain[i] \in Block /\ chain[j] \in Block
    BY ElementType DEF ChainType
<1>2. /\ chain[i].changes \in Nat /\ chain[j].changes \in Nat
      /\ chain[i].returns \in Nat /\ chain[j].returns \in Nat
    BY <1>1 DEF Block
<1>3. /\ chain[i].changes <= chain[j].changes
      /\ chain[i].state # chain[j].state => chain[i].changes < chain[j].changes
      /\ chain[i].returns <= chain[j].returns
      /\ chain[i].state # "ANCHORED" /\ chain[j].state = "ANCHORED"
           => chain[i].returns < chain[j].returns
    BY DEF History
<1>4. chain[i].changes < chain[j].changes => chain[i].changes + 1 <= chain[j].changes
    BY <1>2
<1>5. chain[i].returns < chain[j].returns => chain[j].returns > 0
    BY <1>2
<1> QED BY <1>2, <1>3, <1>4, <1>5

\* poll: the trackers take the samples of a whole round at once.
LEMMA EndRoundOK == ASSUME IInv, EndRound PROVE IInv'
<1>0. UNCHANGED <<chain, stored, applied, branch>>
    BY DEF EndRound, nodes
<1>t. ChainType /\ NodesType /\ SamplerType /\ TrackersType /\ KeptType
    BY DEF IInv, TypeOK
<1>1. /\ at' = 1 /\ reply' = NoReply /\ samples' = [n \in Node |-> ErrorSample]
      /\ rounds' = rounds + 1
      /\ states_by_node' = [n \in Node |-> Append(states_by_node[n], samples[n].state)]
    BY DEF EndRound
<1>2. /\ last_state' = [n \in Node |-> IF samples[n].state # "" THEN samples[n].state
                                                              ELSE last_state[n]]
      /\ seen' = [n \in Node |-> IF samples[n].state # "" THEN samples[n].of ELSE seen[n]]
      /\ transitions' = [n \in Node |->
           IF IsTransition(n, samples[n]) THEN transitions[n] + 1 ELSE transitions[n]]
      /\ anchored_reached_at' = anchored_reached_at \cup
           {n \in Node : ReachedAnchored(n, samples[n])}
    BY DEF EndRound
<1>3. alarms' = alarms \cup
       {p \in SUBSET Witness : \E m, n \in Witness : p = {m, n} /\ Diverges(m, n)}
    BY DEF EndRound, divergence_events
<1>4. \A n \in Node : /\ samples[n] \in Sample /\ samples[n].of \in Nat
                      /\ samples[n].state \in States \cup {""}
    BY <1>t DEF SamplerType, Sample
<1>5. Witness \subseteq Node
    BY ObserverAssumption DEF Node
<1>6. SamplerType'
    <2>1. at' \in 1 .. N + 1
        BY <1>1, ObserverAssumption
    <2>2. reply' \in [height : Nat, hash : Nat \X Nat]
        BY <1>1 DEF NoReply
    <2>3. samples' \in [Node -> Sample]
        BY <1>1, ErrorSampleFacts
    <2> QED BY <2>1, <2>2, <2>3 DEF SamplerType
<1>7. TrackersType'
    <2>1. last_state' \in [Node -> States \cup {""}]
        BY <1>2, <1>4, <1>t DEF TrackersType
    <2>2. seen' \in [Node -> Nat]
        <3>1. \A n \in Node : seen[n] \in Nat
            BY <1>t DEF TrackersType
        <3>2. \A n \in Node : (IF samples[n].state # "" THEN samples[n].of ELSE seen[n]) \in Nat
            BY <3>1, <1>4
        <3> QED BY <1>2, <3>2
    <2>a. transitions' \in [Node -> Nat]
        <3>0. transitions \in [Node -> Nat]
            BY <1>t DEF TrackersType
        <3>1. \A n \in Node : transitions[n] \in Nat /\ transitions[n] + 1 \in Nat
            BY <3>0
        <3>2. \A n \in Node : (IF IsTransition(n, samples[n]) THEN transitions[n] + 1
                                                             ELSE transitions[n]) \in Nat
            BY <3>1
        <3>3. transitions' = [n \in Node |->
                IF IsTransition(n, samples[n]) THEN transitions[n] + 1 ELSE transitions[n]]
            BY <1>2
        <3> QED BY <3>2, <3>3
    <2>3. anchored_reached_at' \subseteq Node /\ alarms' \subseteq SUBSET Node
        BY <1>2, <1>3, <1>5, <1>t DEF TrackersType
    <2> QED BY <2>1, <2>2, <2>a, <2>3 DEF TrackersType
<1>8. KeptType'
    <2>1. \A n \in Node : Append(states_by_node[n], samples[n].state) \in Seq(States \cup {""})
        <3> SUFFICES ASSUME NEW n \in Node
                     PROVE  Append(states_by_node[n], samples[n].state)
                              \in Seq(States \cup {""})
            OBVIOUS
        <3>1. states_by_node[n] \in Seq(States \cup {""})
            BY <1>t DEF KeptType
        <3>2. samples[n].state \in States \cup {""}
            BY <1>4
        <3> DEFINE S == States \cup {""}
        <3> HIDE DEF S
        <3>3. \A q \in Seq(S), z \in S : Append(q, z) \in Seq(S)
            OBVIOUS
        <3> QED BY <3>1, <3>2, <3>3 DEF S
    <2>2. rounds' \in Nat
        <3>1. rounds' = rounds + 1 /\ rounds \in Nat
            BY <1>1, <1>t DEF KeptType
        <3> QED BY <3>1
    <2>3. states_by_node' \in [Node -> Seq(States \cup {""})]
        BY <1>1, <2>1
    <2> QED BY <2>2, <2>3 DEF KeptType
<1>9. ChainType' /\ NodesType' /\ History' /\ Nodes'
    BY <1>0, <1>t DEF IInv, ChainType, NodesType, History, Nodes
<1>10. Replies' /\ Samples'
    BY <1>1, ErrorSampleFacts DEF Replies, Samples
<1>11. Notes'
    <2> SUFFICES ASSUME NEW n \in Node PROVE Notes!(n)'
        BY DEF Notes
    <2>1. /\ n \in anchored_reached_at' => \/ n \in anchored_reached_at
                                           \/ ReachedAnchored(n, samples[n])
          /\ transitions'[n] = IF IsTransition(n, samples[n]) THEN transitions[n] + 1
                                                              ELSE transitions[n]
        BY <1>2
    <2>2. /\ seen[n] \in Nat /\ transitions[n] \in Nat /\ applied[n] \in Nat
          /\ stored[n] \in Nat /\ Len(chain) \in Nat
        <3>1. seen[n] \in Nat /\ transitions[n] \in Nat
            BY <1>t DEF TrackersType
        <3>2. applied[n] \in Nat /\ stored[n] \in Nat
            BY <1>t DEF NodesType
        <3>3. Len(chain) \in Nat
            BY <1>t DEF ChainType
        <3> QED BY <3>1, <3>2, <3>3
    <2>3. applied[n] <= Len(chain)
        BY <2>2 DEF IInv, Nodes
    <2>4. Notes!(n)
        BY DEF IInv, Notes
    <2>5. CASE samples[n].state = ""
        <3>1. /\ last_state'[n] = last_state[n] /\ seen'[n] = seen[n]
              /\ transitions'[n] = transitions[n]
              /\ n \in anchored_reached_at' => n \in anchored_reached_at
            BY <1>2, <2>1, <2>5 DEF IsTransition, ReachedAnchored
        <3> QED BY <3>1, <2>4, <1>0
    <2>6. CASE samples[n].state # ""
        <3> DEFINE j == samples[n].of
        <3>1. last_state'[n] = samples[n].state /\ seen'[n] = j
            BY <1>2, <2>6
        <3>2. j \in 1 .. applied[n] /\ samples[n].state = chain[j].state /\ seen[n] <= j
            BY <2>6 DEF IInv, Samples
        <3>3. j \in 1 .. Len(chain) /\ j <= applied[n] /\ j >= 1
            <4>1. j \in 1 .. applied[n] /\ j \in Nat
                BY <3>2, <1>4
            <4> HIDE DEF j
            <4> QED BY <4>1, <2>2, <2>3
        <3> HIDE DEF j
        <3>4. CASE last_state[n] = ""
            <4>1. transitions'[n] = 0 /\ ~ReachedAnchored(n, samples[n])
                BY <2>1, <2>4, <3>4 DEF IsTransition, ReachedAnchored
            <4>2. n \in anchored_reached_at => chain[j].returns > 0
                <5> SUFFICES ASSUME n \in anchored_reached_at PROVE chain[j].returns > 0
                    OBVIOUS
                <5>1. seen[n] >= 1 /\ chain[seen[n]].returns > 0
                    BY <2>4
                <5>2. seen[n] \in 1 .. Len(chain)
                    BY <5>1, <2>2, <3>2, <3>3
                <5>3. /\ chain[seen[n]].returns <= chain[j].returns
                      /\ chain[seen[n]].returns \in Nat /\ chain[j].returns \in Nat
                    BY <5>2, <3>2, <3>3, <1>t, SeenTwice DEF IInv
                <5> QED BY <5>1, <5>3
            <4>3. chain[j].changes \in Nat
                BY <3>3, <1>t, SeenTwice DEF IInv
            <4>4. 0 <= chain[j].changes
                BY <4>3
            <4> QED BY <1>0, <2>1, <3>1, <3>2, <3>3, <4>1, <4>2, <4>4
        <3>5. CASE last_state[n] # ""
            <4> DEFINE i == seen[n]
            <4>1. /\ i >= 1 /\ last_state[n] = chain[i].state
                  /\ transitions[n] <= chain[i].changes
                BY <2>4, <3>5
            <4>2. i \in 1 .. Len(chain)
                BY <4>1, <2>2, <3>2, <3>3
            <4>3. /\ chain[i].changes \in Nat /\ chain[j].changes \in Nat
                  /\ chain[i].returns \in Nat /\ chain[j].returns \in Nat
                  /\ chain[i].changes <= chain[j].changes
                  /\ chain[i].state # chain[j].state
                       => chain[i].changes + 1 <= chain[j].changes
                  /\ chain[i].returns <= chain[j].returns
                  /\ chain[i].state # "ANCHORED" /\ chain[j].state = "ANCHORED"
                       => chain[j].returns > 0
                BY <4>2, <3>2, <3>3, <1>t, SeenTwice DEF IInv
            <4> HIDE DEF i
            <4>4. IsTransition(n, samples[n]) => chain[i].state # chain[j].state
                BY <4>1, <3>2 DEF IsTransition
            <4>5. transitions'[n] <= chain[j].changes
                <5>1. CASE IsTransition(n, samples[n])
                    <6>1. /\ transitions'[n] = transitions[n] + 1
                          /\ chain[i].changes + 1 <= chain[j].changes
                        BY <5>1, <4>3, <4>4, <2>1
                    <6>2. /\ chain[i].changes \in Nat /\ chain[j].changes \in Nat
                          /\ transitions[n] \in Nat /\ transitions[n] <= chain[i].changes
                        BY <4>1, <4>3, <2>2
                    <6> QED BY <6>1, <6>2
                <5>2. CASE ~IsTransition(n, samples[n])
                    <6>1. transitions'[n] = transitions[n]
                        BY <5>2, <2>1
                    <6> QED BY <6>1, <4>1, <4>3, <2>2
                <5> QED BY <5>1, <5>2
            <4>6. n \in anchored_reached_at => chain[j].returns > 0
                <5>1. n \in anchored_reached_at => chain[i].returns > 0
                    BY <2>4 DEF i
                <5>2. chain[i].returns > 0 => chain[j].returns > 0
                    BY <4>3
                <5> QED BY <5>1, <5>2
            <4>7. ReachedAnchored(n, samples[n]) => chain[j].returns > 0
                BY <4>1, <4>3, <4>4, <3>2 DEF ReachedAnchored
            <4> QED BY <1>0, <2>1, <2>6, <3>1, <3>2, <3>3, <4>5, <4>6, <4>7
        <3> QED BY <3>4, <3>5
    <2> QED BY <2>5, <2>6
<1>12. NoFalseAlarm'
    <2> SUFFICES ASSUME NEW pair \in alarms', pair \notin alarms
                 PROVE  \E n \in pair : branch[n] # 0
        BY <1>0 DEF IInv, NoFalseAlarm
    <2>1. PICK m \in Witness, n \in Witness : pair = {m, n} /\ Diverges(m, n)
        BY <1>3
    <2>2. /\ Genuine(m, samples[m].height, samples[m].hash)
          /\ Genuine(n, samples[n].height, samples[n].hash)
        BY <1>5, <2>1 DEF IInv, Samples, Diverges
    <2>3. samples[m].hash \in Nat \X Nat /\ samples[n].hash \in Nat \X Nat
        BY <1>4, <1>5 DEF Sample
    <2>4. branch[m] # 0 \/ branch[n] # 0
        BY <2>1, <2>2, <2>3 DEF Genuine, Diverges
    <2> QED BY <2>1, <2>4
<1> QED BY <1>6, <1>7, <1>8, <1>9, <1>10, <1>11, <1>12 DEF IInv, TypeOK

\* A step that changes nothing keeps the invariant.
LEMMA StutterOK == IInv /\ UNCHANGED vars => IInv'
<1> SUFFICES ASSUME IInv, UNCHANGED vars PROVE IInv'
    OBVIOUS
<1>1. /\ UNCHANGED <<chain, stored, applied, branch>>
      /\ UNCHANGED <<at, reply, samples>>
      /\ UNCHANGED <<rounds, last_state, seen, transitions, anchored_reached_at, alarms,
                     states_by_node>>
    BY DEF vars, nodes, sampler, trackers
<1>2. TypeOK'
    BY <1>1 DEF IInv, TypeOK, ChainType, NodesType, SamplerType, TrackersType, KeptType
<1>3. History' /\ Nodes' /\ Replies' /\ Samples' /\ Notes' /\ NoFalseAlarm'
    BY <1>1 DEF IInv, History, Nodes, Replies, Samples, Notes, NoFalseAlarm, Genuine
<1> QED BY <1>2, <1>3 DEF IInv

\* Every action keeps the invariant.
LEMMA StepOK == IInv /\ [Next]_vars => IInv'
<1> SUFFICES ASSUME IInv, [Next]_vars PROVE IInv'
    OBVIOUS
<1>1. CASE CommitBlock
    BY <1>1, CommitBlockOK
<1>2. CASE \E n \in Node : Receive(n)
    BY <1>2, ReceiveOK
<1>3. CASE \E n \in Node : Execute(n)
    BY <1>3, ExecuteOK
<1>4. CASE \E n \in Node : Fork(n)
    BY <1>4, ForkOK
<1>5. CASE query_node
    BY <1>5, StatusOK, AbciQueryOK, RequestFailsOK DEF query_node
<1>6. CASE EndRound
    BY <1>6, EndRoundOK
<1>7. CASE UNCHANGED vars
    BY <1>7, StutterOK
<1> QED BY <1>1, <1>2, <1>3, <1>4, <1>5, <1>6, <1>7 DEF Next

\* The inductive invariant holds throughout.
LEMMA Invariance == Spec => []IInv
<1>1. Init => IInv
    BY InitOK
<1>2. IInv /\ [Next]_vars => IInv'
    BY StepOK
<1> QED BY <1>1, <1>2, PTL DEF Spec

-----------------------------------------------------------------------------

\* Samples, heights and notes keep their types.
THEOREM TypeCorrect == Spec => []TypeOK
<1>1. IInv => TypeOK
    BY DEF IInv
<1> QED BY <1>1, Invariance, PTL

\* query_node: the two requests of a sample, in the order the code makes them,
\* never pair a height with a state older than the block before it.
THEOREM TornReads == Spec => []TornReadBounded
<1>1. IInv => TornReadBounded
    BY DEF IInv, Samples, TornReadBounded
<1> QED BY <1>1, Invariance, PTL

\* Tracker.poll and live_recovery_flow.py: no transition is reported that the
\* chain did not make.
THEOREM ObservedTransitions == Spec => []TransitionsAreReal
<1>1. IInv => TransitionsAreReal
    <2> SUFFICES ASSUME IInv, NEW n \in Node, transitions[n] > 0
                 PROVE  transitions[n] <= chain[seen[n]].changes
        BY DEF TransitionsAreReal
    <2>0. transitions[n] \in Nat
        BY DEF IInv, TypeOK, TrackersType
    <2>1. transitions[n] # 0
        BY <2>0
    <2> QED BY <2>1 DEF IInv, Notes
<1> QED BY <1>1, Invariance, PTL

\* live_recovery_flow.py: "reached ANCHORED" is a return to ANCHORED.
THEOREM ReachedAnchoredTheorem == Spec => []AnchoredReachedIsAReturn
<1>1. IInv => AnchoredReachedIsAReturn
    <2> SUFFICES ASSUME IInv, NEW n \in anchored_reached_at
                 PROVE  \E h \in 1 .. seen[n] : chain[h].returns > 0
        BY DEF AnchoredReachedIsAReturn
    <2>1. n \in Node
        BY DEF IInv, TypeOK, TrackersType
    <2>2. seen[n] >= 1 /\ chain[seen[n]].returns > 0
        BY <2>1 DEF IInv, Notes
    <2>3. seen[n] \in Nat
        BY <2>1 DEF IInv, TypeOK, TrackersType
    <2>4. seen[n] \in 1 .. seen[n]
        BY <2>2, <2>3
    <2> QED BY <2>2, <2>4
<1> QED BY <1>1, Invariance, PTL

\* The divergence checks of e4 and e8 raise no alarm on a chain whose
\* witnesses agree, whatever heights they are sampled at.
THEOREM DivergenceTheorem == Spec => []NoFalseAlarm
<1>1. IInv => NoFalseAlarm
    BY DEF IInv
<1> QED BY <1>1, Invariance, PTL

-----------------------------------------------------------------------------
(***************************************************************************)
(* compute_metrics, whose loop runs over samples of any number: what it    *)
(* returns for one sample more follows from what it returned before        *)
(* (MetricsAppend), so it can be compared with a Tracker that counts while *)
(* it polls.                                                               *)
(***************************************************************************)

Word == States \cup {""}

Metrics == [total_transitions : Nat, flapping_count : Nat, demotion_count : Nat,
            exit_count : Nat, prev : Word, last_transition : Word \X Word]

\* The loop's body keeps the metrics' types.
LEMMA MetricsStepType ==
  ASSUME NEW m \in Metrics, NEW s \in Word PROVE MetricsStep(m, s) \in Metrics
<1>1. /\ m.total_transitions + 1 \in Nat /\ m.flapping_count + 1 \in Nat
      /\ m.demotion_count + 1 \in Nat /\ m.exit_count + 1 \in Nat
    BY DEF Metrics
<1>2. Transition(m, s) \in Metrics
    BY <1>1 DEF Transition, Metrics
<1>3. [m EXCEPT !.prev = s] \in Metrics
    BY DEF Metrics
<1> QED BY <1>2, <1>3 DEF MetricsStep

\* The metrics before the first sample have their types.
LEMMA NoMetricsType == NoMetrics \in Metrics
<1>1. "" \in Word
    BY DEF Word
<1> QED BY <1>1 DEF NoMetrics, Metrics

\* The loop over q as a step function: position i + 1 of q, and nothing past it.
Loop(q) == [i \in Nat |-> [m \in Metrics |->
              IF i + 1 \in 1 .. Len(q) THEN MetricsStep(m, q[i + 1]) ELSE m]]

\* The loop as a step function is one on metrics.
LEMMA LoopType == ASSUME NEW q \in Seq(Word) PROVE Loop(q) \in [Nat -> [Metrics -> Metrics]]
<1>1. ASSUME NEW i \in Nat, NEW m \in Metrics
      PROVE (IF i + 1 \in 1 .. Len(q) THEN MetricsStep(m, q[i + 1]) ELSE m) \in Metrics
    <2>1. PICK j \in Nat : j = i + 1
        OBVIOUS
    <2>2. j \in 1 .. Len(q) => q[j] \in Word
        BY ElementType
    <2> QED BY <2>1, <2>2, MetricsStepType
<1> QED BY <1>1 DEF Loop

\* What compute_metrics computes is the last value of a beginning of the loop.
LEMMA MetricsUnfold ==
  ASSUME NEW q \in Seq(Word)
  PROVE  \E g \in Beginnings(Metrics, NoMetrics, Loop(q), Len(q)) :
            compute_metrics(q) = g[Len(q)]
<1> DEFINE after[i \in 0 .. Len(q)] ==
             IF i = 0 THEN NoMetrics ELSE MetricsStep(after[i - 1], q[i])
<1>0. Len(q) \in Nat
    OBVIOUS
<1>1. PICK g : g \in Beginnings(Metrics, NoMetrics, Loop(q), Len(q))
    BY <1>0, NoMetricsType, LoopType, BeginningsExist
<1>2. g \in [0 .. Len(q) -> Metrics] /\ g[0] = NoMetrics
    BY <1>1 DEF Beginnings
<1>3. ASSUME NEW i \in 0 .. Len(q), i # 0 PROVE g[i] = MetricsStep(g[i - 1], q[i])
    <2>1. PICK j \in 0 .. Len(q) - 1 : i = j + 1 /\ j = i - 1 /\ i \in 1 .. Len(q)
        BY <1>0, <1>3
    <2>2. g[j + 1] = Loop(q)[j][g[j]] /\ g[j] \in Metrics /\ j \in Nat
        BY <1>0, <1>1, <1>2 DEF Beginnings
    <2>3. Loop(q)[j][g[j]] = MetricsStep(g[j], q[j + 1])
        BY <2>1, <2>2 DEF Loop
    <2> QED BY <2>1, <2>2, <2>3
<1>4. g = [i \in 0 .. Len(q) |-> IF i = 0 THEN NoMetrics ELSE MetricsStep(g[i - 1], q[i])]
    BY <1>2, <1>3
<1>5. after = [i \in 0 .. Len(q) |->
                 IF i = 0 THEN NoMetrics ELSE MetricsStep(after[i - 1], q[i])]
    BY <1>4
<1>6. compute_metrics(q) = after[Len(q)]
    BY DEF compute_metrics
<1> HIDE DEF after
<1>7. after[0] = NoMetrics
    BY <1>0, <1>5
<1>8. ASSUME NEW i \in 0 .. Len(q) - 1, after[i] \in Metrics
      PROVE  after[i + 1] = Loop(q)[i][after[i]] /\ after[i + 1] \in Metrics
    <2>1. PICK j \in 1 .. Len(q) : j = i + 1 /\ i = j - 1 /\ j \in 0 .. Len(q) /\ j # 0
        BY <1>0
    <2>2. after[j] = MetricsStep(after[j - 1], q[j])
        BY <1>5, <2>1
    <2>3. i \in Nat /\ q[j] \in Word
        BY <1>0, ElementType
    <2>4. Loop(q)[i][after[i]] = MetricsStep(after[i], q[i + 1])
        BY <1>8, <2>1, <2>3 DEF Loop
    <2>5. MetricsStep(after[i], q[j]) \in Metrics
        BY <1>8, <2>3, MetricsStepType
    <2> QED BY <2>1, <2>2, <2>4, <2>5
<1>9. \A i \in 0 .. Len(q) : after[i] \in Metrics
    <2> DEFINE S == {i \in 0 .. Len(q) : after[i] \in Metrics}
    <2>1. 0 \in S
        BY <1>0, <1>7, NoMetricsType
    <2>2. ASSUME NEW i \in 0 .. Len(q) - 1, i \in S PROVE i + 1 \in S
        BY <1>0, <1>8, <2>2
    <2> HIDE DEF S
    <2>3. \A i \in 0 .. Len(q) : i \in S
        BY <1>0, <2>1, <2>2, BoundedInduction
    <2> QED BY <2>3 DEF S
<1>10. \A i \in 0 .. Len(q) - 1 : after[i + 1] = Loop(q)[i][after[i]]
    <2> SUFFICES ASSUME NEW i \in 0 .. Len(q) - 1
                 PROVE  after[i + 1] = Loop(q)[i][after[i]]
        OBVIOUS
    <2>1. i \in 0 .. Len(q)
        BY <1>0
    <2> QED BY <1>8, <1>9, <2>1
<1>11. after \in [0 .. Len(q) -> Metrics]
    BY <1>5, <1>9
<1>12. after \in Beginnings(Metrics, NoMetrics, Loop(q), Len(q))
    BY <1>7, <1>10, <1>11 DEF Beginnings
<1> QED BY <1>6, <1>12

\* One sample more is one step more.
LEMMA MetricsAppend ==
  ASSUME NEW q \in Seq(Word), NEW s \in Word
  PROVE  /\ compute_metrics(q) \in Metrics
         /\ compute_metrics(Append(q, s)) = MetricsStep(compute_metrics(q), s)
<1> DEFINE r == Append(q, s)
<1>1. r \in Seq(Word) /\ Len(r) = Len(q) + 1 /\ Len(q) \in Nat /\ r[Len(q) + 1] = s
      /\ \A i \in 1 .. Len(q) : r[i] = q[i]
    OBVIOUS
<1> HIDE DEF r
<1>2. PICK g \in Beginnings(Metrics, NoMetrics, Loop(q), Len(q)) :
         compute_metrics(q) = g[Len(q)]
    BY MetricsUnfold
<1>3. PICK h \in Beginnings(Metrics, NoMetrics, Loop(r), Len(r)) :
         compute_metrics(r) = h[Len(r)]
    BY <1>1, MetricsUnfold
<1>4. g \in Beginnings(Metrics, NoMetrics, Loop(r), Len(q))
    <2>1. ASSUME NEW i \in 0 .. Len(q) - 1 PROVE g[i + 1] = Loop(r)[i][g[i]]
        <3>0. i \in Nat /\ i \in 0 .. Len(q)
            BY <1>1
        <3>1. g[i + 1] = Loop(q)[i][g[i]] /\ g[i] \in Metrics /\ i \in Nat
            BY <1>2, <3>0 DEF Beginnings
        <3>2. i + 1 \in 1 .. Len(q) /\ i + 1 \in 1 .. Len(r) /\ r[i + 1] = q[i + 1]
            BY <1>1
        <3>3. Loop(q)[i][g[i]] = MetricsStep(g[i], q[i + 1])
            <4>1. PICK x \in Metrics : x = g[i]
                BY <3>1
            <4>2. Loop(q)[i][x] = MetricsStep(x, q[i + 1])
                BY <3>1, <3>2 DEF Loop
            <4> QED BY <4>1, <4>2
        <3>4. Loop(r)[i][g[i]] = MetricsStep(g[i], r[i + 1])
            <4>1. PICK x \in Metrics : x = g[i]
                BY <3>1
            <4>2. Loop(r)[i][x] = MetricsStep(x, r[i + 1])
                BY <3>1, <3>2 DEF Loop
            <4> QED BY <4>1, <4>2
        <3> QED BY <3>1, <3>2, <3>3, <3>4
    <2>2. g \in [0 .. Len(q) -> Metrics] /\ g[0] = NoMetrics
        BY <1>2 DEF Beginnings
    <2> QED BY <2>1, <2>2 DEF Beginnings
<1>5. g[Len(q)] = h[Len(q)] /\ g[Len(q)] \in Metrics
    <2>1. Len(q) <= Len(r) /\ Len(r) \in Nat
        BY <1>1
    <2>2. Loop(r) \in [Nat -> [Metrics -> Metrics]]
        BY <1>1, LoopType
    <2>3. \A i \in 0 .. Len(q) : g[i] = h[i]
        <3> DEFINE lp == Loop(r)
                   m  == Len(q)
                   n  == Len(r)
        <3>1. /\ m \in Nat /\ n \in Nat /\ m <= n
              /\ g \in Beginnings(Metrics, NoMetrics, lp, m)
              /\ h \in Beginnings(Metrics, NoMetrics, lp, n)
            BY <1>1, <1>3, <1>4, <2>1
        <3> HIDE DEF lp, m, n
        <3>2. \A i \in 0 .. m : g[i] = h[i]
            BY <3>1, BeginningsAgree
        <3> QED BY <3>2 DEF m
    <2>4. g \in [0 .. Len(q) -> Metrics]
        BY <1>2 DEF Beginnings
    <2> QED BY <1>1, <2>3, <2>4
<1>6. h[Len(r)] = Loop(r)[Len(q)][h[Len(q)]]
    BY <1>1, <1>3 DEF Beginnings
<1>7. Loop(r)[Len(q)][h[Len(q)]] = MetricsStep(h[Len(q)], r[Len(q) + 1])
    <2>1. Len(q) + 1 \in 1 .. Len(r)
        BY <1>1
    <2> QED BY <1>1, <1>5, <2>1 DEF Loop
<1> QED BY <1>1, <1>2, <1>3, <1>5, <1>6, <1>7 DEF r

\* No samples, no metrics.
LEMMA MetricsEmpty == compute_metrics(<<>>) = NoMetrics
<1>1. <<>> \in Seq(Word) /\ Len(<<>>) = 0
    OBVIOUS
<1>2. PICK g \in Beginnings(Metrics, NoMetrics, Loop(<<>>), Len(<<>>)) :
         compute_metrics(<<>>) = g[Len(<<>>)]
    BY <1>1, MetricsUnfold
<1> QED BY <1>1, <1>2 DEF Beginnings

\* What holds of the metrics after every sample: m is what the loop has counted,
\* a flap needs a transition before it, and of two neighbouring transitions at
\* most one is a demotion, and at most one an exit.
Sound(m) ==
  /\ m.prev = "" => m.total_transitions = 0
  /\ m.total_transitions = 0 => m.last_transition = <<"", "">> /\ m.flapping_count = 0
  /\ m.total_transitions > 0 => /\ m.last_transition[2] = m.prev
                                /\ m.flapping_count < m.total_transitions
  /\ m.demotion_count + m.exit_count <= m.total_transitions
  /\ 2 * m.demotion_count <= m.total_transitions + 1
  /\ m.last_transition # <<"ANCHORED", "SUSPICIOUS">> =>
       2 * m.demotion_count <= m.total_transitions
  /\ 2 * m.exit_count <= m.total_transitions + 1
  /\ m.last_transition # <<"SUSPICIOUS", "ANCHORED">> =>
       2 * m.exit_count <= m.total_transitions

\* Pairs are equal in both components.
LEMMA TuplesDiffer ==
  \A a, b, c, d : /\ <<a, b>> = <<c, d>> <=> (a = c /\ b = d)
                  /\ <<a, b>>[2] = b
OBVIOUS

\* One sample keeps the summary sound.
LEMMA SoundStep ==
  ASSUME NEW m \in Metrics, NEW s \in Word, Sound(m) PROVE Sound(MetricsStep(m, s))
<1>0. /\ m.total_transitions \in Nat /\ m.flapping_count \in Nat
      /\ m.demotion_count \in Nat /\ m.exit_count \in Nat
      /\ m.last_transition \in Word \X Word /\ m.prev \in Word
    BY DEF Metrics
<1>1. CASE s \in {"", m.prev}
    BY <1>1 DEF MetricsStep
<1>2. CASE s \notin {"", m.prev} /\ m.prev = ""
    <2> DEFINE r == [m EXCEPT !.prev = s]
    <2>1. MetricsStep(m, s) = r
        BY <1>2 DEF MetricsStep
    <2>2. /\ r.total_transitions = m.total_transitions
          /\ r.flapping_count = m.flapping_count /\ r.demotion_count = m.demotion_count
          /\ r.exit_count = m.exit_count /\ r.last_transition = m.last_transition
        BY DEF Metrics
    <2>3. m.total_transitions = 0
        BY <1>2 DEF Sound
    <2>4. ~(m.total_transitions > 0)
        BY <2>3
    <2> HIDE DEF r
    <2> QED BY <2>1, <2>2, <2>3, <2>4 DEF Sound
<1>3. CASE s \notin {"", m.prev} /\ m.prev # ""
    <2> DEFINE r    == Transition(m, s)
               flap == m.last_transition = <<s, m.prev>>
               down == m.prev = "ANCHORED" /\ s = "SUSPICIOUS"
               up   == m.prev = "SUSPICIOUS" /\ s = "ANCHORED"
    <2>1. PICK t, f, d, e \in Nat :
             /\ t = m.total_transitions /\ f = m.flapping_count
             /\ d = m.demotion_count /\ e = m.exit_count
        BY <1>0
    <2>2. MetricsStep(m, s) = r
        BY <1>3 DEF MetricsStep
    <2>3. /\ r.prev = s /\ r.last_transition = <<m.prev, s>>
          /\ r.last_transition[2] = s
        BY DEF Transition
    <2>4. /\ r.total_transitions = t + 1
          /\ r.flapping_count = IF flap THEN f + 1 ELSE f
          /\ r.demotion_count = IF down THEN d + 1 ELSE d
          /\ r.exit_count = IF up THEN e + 1 ELSE e
        BY <2>1 DEF Transition
    <2>5. /\ t = 0 => ~flap /\ f = 0
          /\ t > 0 => f < t
          /\ d + e <= t
          /\ 2 * d <= t + 1 /\ 2 * e <= t + 1
        <3>1. t = 0 => m.last_transition = <<"", "">> /\ f = 0
            BY <2>1 DEF Sound
        <3>2. m.last_transition = <<"", "">> => ~flap
            <4>1. s # ""
                BY <1>3
            <4>2. <<"", "">> # <<s, m.prev>>
                BY <4>1, TuplesDiffer
            <4> QED BY <4>2
        <3>3. /\ t > 0 => f < t
              /\ d + e <= t
              /\ 2 * d <= t + 1 /\ 2 * e <= t + 1
            BY <2>1 DEF Sound
        <3> QED BY <3>1, <3>2, <3>3
    <2>6. (down => 2 * d <= t) /\ (up => 2 * e <= t)
        <3>1. m.last_transition = <<"", "">> \/ m.last_transition[2] = m.prev
            <4>1. t = 0 \/ t > 0
                BY <2>1
            <4>2. t = 0 => m.last_transition = <<"", "">>
                BY <2>1 DEF Sound
            <4>3. t > 0 => m.last_transition[2] = m.prev
                BY <2>1 DEF Sound
            <4> QED BY <4>1, <4>2, <4>3
        <3>2. down => m.last_transition # <<"ANCHORED", "SUSPICIOUS">>
            <4>1. m.last_transition = <<"ANCHORED", "SUSPICIOUS">>
                    => m.last_transition # <<"", "">> /\ m.last_transition[2] = "SUSPICIOUS"
                BY TuplesDiffer
            <4> QED BY <3>1, <4>1
        <3>3. up => m.last_transition # <<"SUSPICIOUS", "ANCHORED">>
            <4>1. m.last_transition = <<"SUSPICIOUS", "ANCHORED">>
                    => m.last_transition # <<"", "">> /\ m.last_transition[2] = "ANCHORED"
                BY TuplesDiffer
            <4> QED BY <3>1, <4>1
        <3>4. m.last_transition # <<"ANCHORED", "SUSPICIOUS">> => 2 * d <= t
            BY <2>1 DEF Sound
        <3>5. m.last_transition # <<"SUSPICIOUS", "ANCHORED">> => 2 * e <= t
            BY <2>1 DEF Sound
        <3> QED BY <3>2, <3>3, <3>4, <3>5
    <2>7. ~(down /\ up)
        OBVIOUS
    <2>8. /\ r.last_transition = <<"ANCHORED", "SUSPICIOUS">> <=> down
          /\ r.last_transition = <<"SUSPICIOUS", "ANCHORED">> <=> up
        BY <2>3
    <2>9. r.prev # ""
        BY <1>3, <2>3
    <2> HIDE DEF r, flap, down, up
    <2>10. /\ r.total_transitions # 0 /\ r.flapping_count < r.total_transitions
           /\ r.demotion_count + r.exit_count <= r.total_transitions
        BY <2>4, <2>5, <2>7
    <2>11. /\ 2 * r.demotion_count <= r.total_transitions + 1
           /\ ~down => 2 * r.demotion_count <= r.total_transitions
        BY <2>4, <2>5, <2>6
    <2>12. /\ 2 * r.exit_count <= r.total_transitions + 1
           /\ ~up => 2 * r.exit_count <= r.total_transitions
        BY <2>4, <2>5, <2>6
    <2> QED BY <2>2, <2>3, <2>8, <2>9, <2>10, <2>11, <2>12 DEF Sound
<1> QED BY <1>1, <1>2, <1>3

\* A Tracker and the loop over the samples kept so far have counted the same.
Summaries ==
  \A n \in Node :
    LET m == compute_metrics(states_by_node[n])
    IN  /\ m.total_transitions = transitions[n]
        /\ m.prev = last_state[n]
        /\ Sound(m)

\* Nothing sampled, nothing counted.
LEMMA InitSummaries == Init => Summaries
<1> SUFFICES ASSUME Init, NEW n \in Node PROVE Summaries!(n)
    BY DEF Summaries
<1>1. states_by_node[n] = <<>> /\ transitions[n] = 0 /\ last_state[n] = ""
    BY DEF Init
<1>2. compute_metrics(states_by_node[n]) = NoMetrics
    BY <1>1, MetricsEmpty
<1>3. /\ NoMetrics.total_transitions = 0 /\ NoMetrics.flapping_count = 0
      /\ NoMetrics.demotion_count = 0 /\ NoMetrics.exit_count = 0
      /\ NoMetrics.prev = "" /\ NoMetrics.last_transition = <<"", "">>
    BY DEF NoMetrics
<1>4. ~(0 > 0) /\ 0 + 0 <= 0 /\ 2 * 0 <= 0 + 1 /\ 2 * 0 <= 0
    OBVIOUS
<1>5. Sound(NoMetrics)
    BY <1>3, <1>4, Zenon DEF Sound
<1> QED BY <1>1, <1>2, <1>3, <1>5

\* A round adds one sample to each node and one poll to each tracker.
LEMMA EndRoundSummaries == ASSUME IInv, Summaries, EndRound PROVE Summaries'
<1> SUFFICES ASSUME NEW n \in Node PROVE Summaries!(n)'
    BY DEF Summaries
<1> DEFINE q == states_by_node[n]
           s == samples[n].state
           m == compute_metrics(q)
<1>1. q \in Seq(Word) /\ s \in Word
    BY DEF IInv, TypeOK, KeptType, SamplerType, Sample, Word
<1>2. m \in Metrics /\ compute_metrics(Append(q, s)) = MetricsStep(m, s)
    BY <1>1, MetricsAppend
<1>3. states_by_node'[n] = Append(q, s)
    BY DEF EndRound
<1>4. /\ last_state'[n] = IF s # "" THEN s ELSE last_state[n]
      /\ transitions'[n] = IF s # "" /\ last_state[n] # "" /\ last_state[n] # s
                           THEN transitions[n] + 1 ELSE transitions[n]
    BY DEF EndRound, IsTransition
<1>5. m.total_transitions = transitions[n] /\ m.prev = last_state[n] /\ Sound(m)
    BY DEF Summaries
<1> HIDE DEF q, s, m
<1>6. Sound(MetricsStep(m, s))
    BY <1>1, <1>2, <1>5, SoundStep
<1>7. /\ MetricsStep(m, s).total_transitions = transitions'[n]
      /\ MetricsStep(m, s).prev = last_state'[n]
    <2>1. CASE s \in {"", m.prev}
        <3>1. MetricsStep(m, s) = m
            BY <2>1 DEF MetricsStep
        <3> QED BY <2>1, <3>1, <1>4, <1>5
    <2>2. CASE s \notin {"", m.prev} /\ m.prev = ""
        <3>1. MetricsStep(m, s) = [m EXCEPT !.prev = s]
            BY <2>2 DEF MetricsStep
        <3>2. /\ MetricsStep(m, s).total_transitions = m.total_transitions
              /\ MetricsStep(m, s).prev = s
            BY <3>1, <1>2 DEF Metrics
        <3> QED BY <2>2, <3>2, <1>4, <1>5
    <2>3. CASE s \notin {"", m.prev} /\ m.prev # ""
        <3>1. MetricsStep(m, s) = Transition(m, s)
            BY <2>3 DEF MetricsStep
        <3>2. /\ MetricsStep(m, s).total_transitions = m.total_transitions + 1
              /\ MetricsStep(m, s).prev = s
            BY <3>1 DEF Transition
        <3> QED BY <2>3, <3>2, <1>4, <1>5
    <2> QED BY <2>1, <2>2, <2>3
<1>8. compute_metrics(states_by_node[n])' = MetricsStep(m, s)
    BY <1>2, <1>3
<1> QED BY <1>6, <1>7, <1>8

\* Every other step leaves the samples kept and the Trackers' notes alone.
LEMMA SummariesStep == IInv /\ Summaries /\ [Next]_vars => Summaries'
<1> SUFFICES ASSUME IInv, Summaries, [Next]_vars PROVE Summaries'
    OBVIOUS
<1>1. CASE EndRound
    BY <1>1, EndRoundSummaries
<1>2. CASE UNCHANGED <<states_by_node, transitions, last_state>>
    BY <1>2 DEF Summaries
<1>3. CASE UNCHANGED trackers
    BY <1>2, <1>3 DEF trackers
<1>4. EndRound \/ UNCHANGED trackers
    BY DEF Next, vars, CommitBlock, Receive, Execute, Fork, query_node, Status,
           AbciQuery, RequestFails, Sampled
<1> QED BY <1>1, <1>3, <1>4

\* live_spot_check.py and live_spot_check_absorb.py: however many samples are
\* kept, and wherever error samples lie among them, compute_metrics agrees with
\* the Trackers, and its counts are consistent with each other.
THEOREM MetricsTheorem == Spec => []MetricsMatchTracker
<1>1. IInv /\ Summaries => MetricsMatchTracker
    <2> SUFFICES ASSUME IInv, Summaries, NEW n \in Node PROVE MetricsMatchTracker!(n)
        BY DEF MetricsMatchTracker
    <2> DEFINE m == compute_metrics(states_by_node[n])
    <2>1. m.total_transitions = transitions[n] /\ Sound(m)
        BY DEF Summaries
    <2>2. m \in Metrics
        <3>1. states_by_node[n] \in Seq(Word) /\ "" \in Word
            BY DEF IInv, TypeOK, KeptType, Word
        <3> QED BY <3>1, MetricsAppend
    <2> HIDE DEF m
    <2>3. m.total_transitions \in Nat /\ m.flapping_count \in Nat
        BY <2>2 DEF Metrics
    <2>4. m.flapping_count > 0 => m.flapping_count < m.total_transitions
        <3>1. m.total_transitions = 0 => m.flapping_count = 0
            BY <2>1 DEF Sound
        <3>2. m.total_transitions > 0 => m.flapping_count < m.total_transitions
            BY <2>1 DEF Sound
        <3> QED BY <2>3, <3>1, <3>2
    <2>5. /\ m.demotion_count + m.exit_count <= m.total_transitions
          /\ 2 * m.demotion_count <= m.total_transitions + 1
          /\ 2 * m.exit_count <= m.total_transitions + 1
        BY <2>1 DEF Sound
    <2> QED BY <2>1, <2>4, <2>5 DEF m
<1> QED BY <1>1, InitSummaries, SummariesStep, Invariance, PTL DEF Spec
=============================================================================
