------------------------------ MODULE Observer ------------------------------
(***************************************************************************)
(* How the live experiments see the chain: query_node and                  *)
(* sample_all_nodes of scripts/framework/logger.py, and what the scripts   *)
(* conclude from the samples.                                              *)
(*                                                                         *)
(* The validators run on while they are asked.  One sample is two          *)
(* requests: /status reports the height and the header's app hash of the   *)
(* block store, /abci_query the FSM state of the last block executed, and  *)
(* the node may receive or execute a block, die or come back between the   *)
(* two.  The nodes are asked one after the other, so a round is not a      *)
(* snapshot either.  At the end of a round every consumer has its turn:    *)
(*   - the Trackers of e2, e9 and live_recovery_flow.py note transitions;  *)
(*   - live_recovery_flow.py notes when a node has reached ANCHORED;       *)
(*   - the Trackers of e4 and e8 compare app hashes for divergence;        *)
(*   - the spot checks of e5 keep the states for compute_metrics.          *)
(* The chain's own account of its transitions is kept beside it: what the  *)
(* scripts report is measured against that.                                *)
(***************************************************************************)
EXTENDS Integers, Sequences, FiniteSets

CONSTANTS N,          \* validators, asked in the order of NODE_RPC_PORTS
          Witness,    \* HONEST_NODES, SAFETY_WITNESS_NODES, ALL_VALIDATORS
          MaxHeight,  \* bound on the chain
          MaxRounds,  \* bound on the rounds of a poll
          MaxForks    \* bound on the nodes that leave the others' chain

ASSUME ObserverAssumption ==
  /\ N \in Nat \ {0} /\ Witness \subseteq 1 .. N
  /\ MaxHeight \in Nat /\ MaxRounds \in Nat /\ MaxForks \in Nat

VARIABLES
  chain,     \* per block: the FSM state it leaves, and how often the chain
             \* has changed state, and come back to ANCHORED, up to it
  stored,    \* per node, the height of its block store
  applied,   \* per node, the last height it executed: stored or one less
  branch,    \* per node, the height above which it is on a branch of its own, or 0
  at,        \* the node being asked, N + 1 at the end of a round
  reply,     \* what /status answered for it
  samples,   \* the samples of this round
  rounds,    \* complete rounds
  last_state,           \* per node, the Tracker's
  seen,                 \* per node, the height last_state is of
  transitions,          \* per node, transitions noted
  anchored_reached_at,  \* the nodes noted as back in ANCHORED
  alarms,               \* the Trackers' divergence_events so far
  states_by_node        \* what the spot checks keep

nodes    == <<chain, stored, applied, branch>>
sampler  == <<at, reply, samples>>
trackers == <<rounds, last_state, seen, transitions, anchored_reached_at, alarms,
              states_by_node>>
vars     == <<nodes, sampler, trackers>>

Node   == 1 .. N
States == {"ANCHORED", "SUSPICIOUS", "SOVEREIGN", "RECOVERING"}

\* The edges of the FSM (module CircuitBreaker), staying included.
Successors ==
  [ANCHORED   |-> {"ANCHORED", "SUSPICIOUS", "SOVEREIGN"},
   SUSPICIOUS |-> {"SUSPICIOUS", "ANCHORED", "SOVEREIGN"},
   SOVEREIGN  |-> {"SOVEREIGN", "RECOVERING"},
   RECOVERING |-> {"RECOVERING", "ANCHORED", "SOVEREIGN"}]

\* The app hash in the header of n's block h: it is of the state block h - 1
\* left, so that a branch shows from its second block on.
Hash(n, h) == <<h, IF branch[n] # 0 /\ h > branch[n] + 1 THEN n ELSE 0>>

\* NodeSample; of is the height whose state it carries.  An error sample has
\* height -1 and the empty state.
ErrorSample == [height |-> -1, hash |-> <<0, 0>>, state |-> "", of |-> 0]
NoReply     == [height |-> 0, hash |-> <<0, 0>>]

-----------------------------------------------------------------------------
(* The testnet *)

Init ==
  /\ chain = <<[state |-> "ANCHORED", changes |-> 0, returns |-> 0]>>
  /\ stored = [n \in Node |-> 1] /\ applied = stored
  /\ branch = [n \in Node |-> 0]
  /\ at = 1 /\ reply = NoReply /\ samples = [n \in Node |-> ErrorSample]
  /\ rounds = 0
  /\ last_state = [n \in Node |-> ""] /\ seen = [n \in Node |-> 0]
  /\ transitions = [n \in Node |-> 0] /\ anchored_reached_at = {}
  /\ alarms = {} /\ states_by_node = [n \in Node |-> <<>>]

Tip == chain[Len(chain)]

CommitBlock ==
  /\ Len(chain) < MaxHeight
  /\ \E s \in Successors[Tip.state] :
       chain' = Append(chain,
                  [state    |-> s,
                   changes  |-> IF s = Tip.state THEN Tip.changes ELSE Tip.changes + 1,
                   returns  |-> IF s = "ANCHORED" /\ Tip.state # s THEN Tip.returns + 1
                                                                   ELSE Tip.returns])
  /\ UNCHANGED <<stored, applied, branch, sampler, trackers>>

\* A block is stored first and executed next.  A node that is down answers
\* nothing (RequestFails), and replays what it has stored before it answers
\* again: seen from outside that is Execute.
Receive(n) ==
  /\ applied[n] = stored[n] /\ stored[n] < Len(chain)
  /\ stored' = [stored EXCEPT ![n] = @ + 1]
  /\ UNCHANGED <<chain, applied, branch, sampler, trackers>>

Execute(n) ==
  /\ applied[n] < stored[n]
  /\ applied' = [applied EXCEPT ![n] = @ + 1]
  /\ UNCHANGED <<chain, stored, branch, sampler, trackers>>

\* The safety violation the attacks are watched for: from here on n decides
\* blocks of its own (their FSM states are the same, their app hashes are not).
Fork(n) ==
  /\ branch[n] = 0 /\ Cardinality({m \in Node : branch[m] # 0}) < MaxForks
  /\ branch' = [branch EXCEPT ![n] = stored[n]]
  /\ UNCHANGED <<chain, stored, applied, sampler, trackers>>

-----------------------------------------------------------------------------
(* query_node and sample_all_nodes *)

Status ==
  /\ at \in Node /\ reply = NoReply /\ rounds < MaxRounds
  /\ reply' = [height |-> stored[at], hash |-> Hash(at, stored[at])]
  /\ UNCHANGED <<nodes, at, samples, trackers>>

Sampled(s) ==
  /\ samples' = [samples EXCEPT ![at] = s]
  /\ at' = at + 1 /\ reply' = NoReply
  /\ UNCHANGED <<nodes, trackers>>

\* Mutant: the state is asked for first, while the block reply has seen is
\* being executed, and the height next.
AbciQueryFirst ==
  /\ at \in Node /\ reply # NoReply
  /\ Sampled([height |-> stored[at], hash |-> Hash(at, stored[at]),
              state |-> chain[IF reply.height > 1 THEN reply.height - 1 ELSE 1].state,
              of |-> IF reply.height > 1 THEN reply.height - 1 ELSE 1])

AbciQuery ==
  /\ at \in Node /\ reply # NoReply
  /\ Sampled([height |-> reply.height, hash |-> reply.hash,
              state |-> chain[applied[at]].state, of |-> applied[at]])

\* Either request fails or times out: the whole sample is an error sample.
RequestFails == at \in Node /\ rounds < MaxRounds /\ Sampled(ErrorSample)

query_node == Status \/ AbciQuery \/ RequestFails

-----------------------------------------------------------------------------
(* What the scripts make of a round *)

\* Mutant: an error sample counts as a state of its own.
IsTransitionAny(n, s) == last_state[n] # "" /\ last_state[n] # s.state

\* Tracker.poll, wait_for_state and live_recovery_flow.py: a transition is a
\* state that differs from the node's last one, error samples left out.
IsTransition(n, s) == s.state # "" /\ last_state[n] # "" /\ last_state[n] # s.state

\* Mutant: a node that is in ANCHORED has reached it.
ReachedAnchoredAtOnce(n, s) == s.state = "ANCHORED"

\* live_recovery_flow.py: a transition whose target is ANCHORED.
ReachedAnchored(n, s) == IsTransition(n, s) /\ s.state = "ANCHORED"

\* Mutant: the witnesses of a round are compared whatever their heights.
DivergesAcrossHeights(m, n) ==
  samples[m].height > 0 /\ samples[n].height > 0 /\ samples[m].hash # samples[n].hash

\* Two witnesses, the same height, different app hashes.
Diverges(m, n) ==
  /\ samples[m].height > 0 /\ samples[m].height = samples[n].height
  /\ samples[m].hash # samples[n].hash

divergence_events ==
  {p \in SUBSET Witness : \E m, n \in Witness : p = {m, n} /\ Diverges(m, n)}

EndRound ==
  /\ at = N + 1
  /\ rounds' = rounds + 1
  /\ last_state' = [n \in Node |-> IF samples[n].state # "" THEN samples[n].state
                                                          ELSE last_state[n]]
  /\ seen' = [n \in Node |-> IF samples[n].state # "" THEN samples[n].of ELSE seen[n]]
  /\ transitions' = [n \in Node |->
       IF IsTransition(n, samples[n]) THEN transitions[n] + 1 ELSE transitions[n]]
  /\ anchored_reached_at' = anchored_reached_at \cup
       {n \in Node : ReachedAnchored(n, samples[n])}
  /\ alarms' = alarms \cup divergence_events
  /\ states_by_node' = [n \in Node |-> Append(states_by_node[n], samples[n].state)]
  /\ at' = 1 /\ reply' = NoReply /\ samples' = [n \in Node |-> ErrorSample]
  /\ UNCHANGED nodes

\* What compute_metrics counts for one transition, prev and last_transition being
\* the last two fields.
Transition(m, s) ==
  [total_transitions |-> m.total_transitions + 1,
   flapping_count    |-> IF m.last_transition = <<s, m.prev>>
                         THEN m.flapping_count + 1 ELSE m.flapping_count,
   demotion_count    |-> IF m.prev = "ANCHORED" /\ s = "SUSPICIOUS"
                         THEN m.demotion_count + 1 ELSE m.demotion_count,
   exit_count        |-> IF m.prev = "SUSPICIOUS" /\ s = "ANCHORED"
                         THEN m.exit_count + 1 ELSE m.exit_count,
   prev              |-> s,
   last_transition   |-> <<m.prev, s>>]

NoMetrics == [total_transitions |-> 0, flapping_count |-> 0, demotion_count |-> 0,
              exit_count |-> 0, prev |-> "", last_transition |-> <<"", "">>]

\* Mutant: the error samples are kept.
MetricsStepAll(m, s) ==
  IF s = m.prev THEN m
  ELSE IF m.prev = "" THEN [m EXCEPT !.prev = s]
  ELSE Transition(m, s)

\* One sample in compute_metrics' loop: error samples are dropped, and the first
\* state only starts the comparison.
MetricsStep(m, s) ==
  IF s \in {"", m.prev} THEN m
  ELSE IF m.prev = "" THEN [m EXCEPT !.prev = s]
  ELSE Transition(m, s)

compute_metrics(states) ==
  LET after[i \in 0 .. Len(states)] ==
        IF i = 0 THEN NoMetrics ELSE MetricsStep(after[i - 1], states[i])
  IN  after[Len(states)]

-----------------------------------------------------------------------------
Next ==
  \/ CommitBlock
  \/ \E n \in Node : Receive(n) \/ Execute(n) \/ Fork(n)
  \/ query_node
  \/ EndRound

Spec == Init /\ [][Next]_vars

-----------------------------------------------------------------------------
(* Properties *)

Block  == [state : States, changes : Nat, returns : Nat]
Sample == [height : Int, hash : Nat \X Nat, state : States \cup {""}, of : Nat]

ChainType == chain \in Seq(Block) /\ Len(chain) >= 1

NodesType ==
  stored \in [Node -> Nat] /\ applied \in [Node -> Nat] /\ branch \in [Node -> Nat]

SamplerType ==
  /\ at \in 1 .. N + 1
  /\ reply \in [height : Nat, hash : Nat \X Nat]
  /\ samples \in [Node -> Sample]

TrackersType ==
  /\ last_state \in [Node -> States \cup {""}]
  /\ seen \in [Node -> Nat] /\ transitions \in [Node -> Nat]
  /\ anchored_reached_at \subseteq Node /\ alarms \subseteq SUBSET Node

KeptType == rounds \in Nat /\ states_by_node \in [Node -> Seq(States \cup {""})]

\* Heights, samples and the trackers' notes have their types.
TypeOK == ChainType /\ NodesType /\ SamplerType /\ TrackersType /\ KeptType

\* A sample never carries a height whose block's predecessor is newer than the
\* state beside it: whatever happens to the node between the two requests, the
\* state is at least as recent as the app hash (query_node's order).
TornReadBounded ==
  \A n \in Node : samples[n].height > 0 => samples[n].of >= samples[n].height - 1

\* The transitions a Tracker reports for a node ("Real transitions observed",
\* live_recovery_flow.py) never exceed those the chain made up to the height
\* the node was last seen at: polling misses transitions and invents none, a
\* node that dies and comes back included.
TransitionsAreReal ==
  \A n \in Node : transitions[n] > 0 => transitions[n] <= chain[seen[n]].changes

\* A node reported as "reached ANCHORED" saw the chain come back to it: one
\* that never left ANCHORED in the window is not taken for recovered.
AnchoredReachedIsAReturn ==
  \A n \in anchored_reached_at : \E h \in 1 .. seen[n] : chain[h].returns > 0

\* A divergence event is a divergence: one of the two witnesses is on a branch
\* of its own, and no lag between nodes or between requests raises one
\* (the comment at live_byzantine_attacks.py:128-132).
NoFalseAlarm == \A pair \in alarms : \E n \in pair : branch[n] # 0

\* The summaries of e5, computed from the kept samples at the end, agree with
\* the Trackers that count while they poll; every flap, demotion and exit in
\* them is one of the transitions counted, and no two demotions, nor two exits,
\* are neighbours.
MetricsMatchTracker ==
  \A n \in Node :
    LET m == compute_metrics(states_by_node[n])
    IN  /\ m.total_transitions = transitions[n]
        /\ m.flapping_count > 0 => m.flapping_count < m.total_transitions
        /\ m.demotion_count + m.exit_count <= m.total_transitions
        /\ 2 * m.demotion_count <= m.total_transitions + 1
        /\ 2 * m.exit_count <= m.total_transitions + 1
=============================================================================
