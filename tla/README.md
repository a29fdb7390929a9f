# Engram sovereign FSM: TLA+ models, checks and proofs

`engramd` is a Cosmos SDK / CometBFT chain that treats the health of the layers
it depends on (Bitcoin for settlement, Celestia for data availability, its own
P2P network) as part of consensus. A four-state machine, `ANCHORED`,
`SUSPICIOUS`, `SOVEREIGN`, `RECOVERING`, decides whether withdrawals are open,
how proposals are checked, and when a zero-knowledge proof of the locked interval
lets the chain re-anchor. A framework of Python scripts injects faults into a
running testnet, samples its nodes and reports what the machine did. This
directory models the Go code of that machine and what drives it, and the scripts
that test it live; it checks the models with TLC on small instances, and proves
the central invariants with TLAPS for all parameters.

Paths below are relative to the repository. Line numbers of every definition are
in `PROJECT.json` under `map`.

## 1. Inventory

| Part | State it keeps | Operations | What makes it hard |
|---|---|---|---|
| Circuit breaker (`x/sovereignty/keeper/circuit_breaker.go`, `types/predicates.go`, `abci.go`) | FSM state, `safe_blocks`, `suspicious_duration`, `suspicious_safe_blocks`, `unhealthy_streak`, `failed_recovery_attempts` | `CalculateNextState`, the `Next*` counter updates, `BeginBlocker` | long sequences of flapping readings; unsigned counters that leak; a doubled threshold |
| PreBlocker (`preblock.go`) | the committed store of the keeper | `CommitFSMTransition`, `updateForcedTxTracking`, `recordDetectedEvidence` | must use the agreed proposal only, never local sensors |
| Proposal handlers (`proposal.go`, `sensors_refresh.go`) | none: they work on a branch that is thrown away | `PrepareProposal`, `ProcessProposal`, `RefreshMetrics` | every node reads its own sensors at its own moment; each check may reject for ever |
| Re-anchoring (`keeper/msg_server.go`, `preblock.go`, `sensors_refresh.go`) | `HeaderHistory`, `LastAnchoredRoot`, `RealProofSubmittedHeight`, `HBtcSubmitted` | recording, pruning, `SubmitRecoveryProof`, `refreshReanchoringProofValid` | proofs take many blocks, arrive late, twice, or in a later interval |
| Prover (`scripts/reanchoring_prover`, `circuit/`) | none on chain | reads the history, proves the oldest headers, submits | races the growing interval |
| Forced inclusion (`types/censorship.go`, `msg_server.go`, `app/ante.go`) | `ForcedTxQueue`, `TxIgnoredRounds` | `SubmitForcedTx`, counting, `IsCensoring`, the escape hatch | a transaction nobody can include must not halt the chain |
| DA publisher (`x/da`) | pending blob, submission in flight, verified height (memory only) | `MaybePublish`, the `Submit` goroutine | two threads, lost blobs, restarts |
| Anchor tracker (`x/anchor`) | pending transaction, confirmed height (memory only) | `MaybeSubmit`, `VerifyAnchor` | reorganisations between polls, two ways of counting depth |
| Parameters, genesis, start (`types/params.go`, `app/app.go`, `module.go`, `cmd/engramd`) | `Params` (memory only) | `Validate`, `InitChain`, export | a restart does not restore `Params` |
| P2P sensor and peer filter (`cmd/engramd/main.go`, `keeper/peer_filter.go`) | peers seen, churn window | `PeerHealthSnapshot`, `FilterPeerByAddr` | time windows |
| Evidence, queries, CLI, encoding | | | no feedback into the FSM |
| Fault injectors (`scripts/framework/injector.py`) | containers and `tc` rules of docker, nothing of their own | `start_pumba_profile`, `cleanup_profile`, `wait_for_no_active_netem`, the WAN pair | a stopped injector leaves its rule; one that meets a rule does nothing and looks finished |
| Live experiments (`scripts/e2..e9`) | the faults they have put on the testnet | `main()` of each: break, observe, heal | every command may fail, time out after taking effect, or fail unnoticed; only some steps are inside a `try` |
| Spot checks and sweep (`scripts/e5_hysteresis_flapping`) | measurement window, `.env`, the genesis deployed, the report | the toggling window, `drive_to_suspicious`, `redeploy`, `run_spot_check` | a value that is reported must be the one that was deployed |
| Sampling (`scripts/framework/logger.py`, the `Tracker` classes) | samples, last states, divergence events | `query_node`, `sample_all_nodes`, `poll`, `compute_metrics` | two requests per sample, one node after the other, while the chain moves |

How they interact in one height: CometBFT asks the round's proposer for a
proposal. `RefreshMetrics` reads Bitcoin, calls `MaybeSubmit` and `MaybePublish`,
reads the DA layer and the peers; the proposer computes the target state and puts
it, its health flag and its two receipts into `Txs[0]`. Every validator repeats
the computation on its own sensors and rejects what differs. A decided block's
`Txs[0]` is committed by the PreBlocker of every node, then the messages of the
other transactions execute. The prover watches the committed header history from
outside and sends proofs as transactions.

The scripts meet the chain only from outside: through docker (containers killed,
stopped, delayed) and through the nodes' RPC port. What they do to it is within
what the chain's models already allow (layers that fail and return, nodes that
lag or answer nothing), so the two halves are modelled apart.

What makes each part correct, and where it can go wrong in a way a test would
hardly reach, is the list `hazards` in `PROJECT.json`, each entry with its line
and the properties that cover it.

## 2. Modules

| Module | Models | Used by |
|---|---|---|
| `CircuitBreaker` | predicates, transition function, counters, as pure operators | all below |
| `SovereigntyFSM` | the FSM one block at a time (`BeginBlocker`); `FSMSpec` is the FSM alone, without the history variables | `SovereigntyFSMProofs`; implemented by `EngramChain` and `Reanchoring` |
| `WithdrawLock` | abstract: what the breaker promises about withdrawals | refined by `SovereigntyFSM` |
| `HysteresisArithmetic` | the doubling loop on fixed-width integers, on the states of `SovereigntyFSM` | `MCSovereigntyFSM` |
| `SovereigntyKeeper` | the committed store, PreBlocker, messages, ante throttle, as operators on one record | `Proposal` |
| `Proposal` | both proposal handlers, the sensor snapshot, the receipt checks, as operators | next four |
| `EngramChain` | validators with different views deciding blocks, Bitcoin growing and reorganising | `EngramChainProofs` |
| `Reanchoring` | locked intervals, proofs, the rolling checkpoint | `ReanchoringProofs` |
| `Degradation` | layers failing for as long as they like: does the chain go on? | - |
| `ForcedTx` | forced inclusion with omitting proposers | `ForcedTxProofs` |
| `DAPublisher` | one node's publisher and its data-availability layer | `ReceiptProofs` |
| `AnchorTracker` | the trackers of all validators and one Bitcoin chain | `ReceiptProofs` |
| `Injector` | Pumba containers, the rules they put on targets, and the framework's functions on them, as operators | `ExperimentScripts` |
| `ExperimentScripts` | every live experiment as a program, a sequence of steps | `Experiments`, `ScriptOutline` |
| `Experiments` | the interpreter of the programs, with every failure of every step | `ExperimentsProofs` |
| `ScriptOutline` | no code: for each step of each program, what is certainly not in force there, computed from the programs | `ExperimentsProofs`, `MCObserver` |
| `Induction` | no code: induction and recursion over the natural numbers, as lemmas | the proofs about loops, filters and rotations |
| `Observer` | nodes that commit, lag, fail and fork while they are sampled; what the scripts conclude | `ObserverProofs` |

The composition is by operators rather than by `INSTANCE`: the Go handlers are
functions of the committed store and of the node's sensors, so `Proposal` and
`SovereigntyKeeper` define them once and each of the four system modules gives
them a different environment. `EngramChain` has nodes that disagree but no
proofs; `Reanchoring` has proofs but nodes that agree; `Degradation` and
`ForcedTx` add rounds and fairness. Putting all in one module would multiply the
states without a property that needs them together.

### How the models correspond to the code

- `fsm` is the record of the six FSM collections of the keeper; `app` adds the
  heights, the header history, the checkpoint root, the latch and the forced
  queue. One `PreBlock` is the whole PreBlocker of a decided block.
- A *view* is what a node's sensors answer during one handler call. The separate
  RPCs of one call see one state of Bitcoin; a change between two of them leads
  to a rejected round, which `EngramChain` allows at any moment.
- The reduced AppHash in the header of height h is represented by h. Every block
  rewrites keys of the store, so roots of different heights differ.
- A submitted proof is one the verifier accepts; the circuit is not modelled.
- A failing `gettransaction`, a paused submission and a failing
  `SubmitOpReturn` are nondeterministic outcomes of `MaybeSubmit`.
- `peerQuality` is the conjunction of the five P2P comparisons other than the
  anchor count; `daFailed` is the disjunction of the two DA flags. The code never
  uses the parts separately.
- `HEngramCurrent`, `Metrics` and `ReanchoringProofValid` are rewritten by
  `RefreshMetrics` before every read on a node with live sensors, so they are
  derived, not stored.
- Proposers follow `PrepareProposal`; the one deviation modelled is leaving
  transactions out (`ForcedTx`). CometBFT is external: a round has one proposal,
  it may be given up at any moment, a block needs more than two thirds. Locking
  and re-proposal of a valid block inside the engine are not modelled.
- An experiment is a sequence of steps, one per call of its `main()` that changes
  the testnet, takes time or may end the script (`live_scenario_matrix`,
  `Measurement`, ...). A step's action has all its outcomes: a `check=True` command
  raises, one with `timeout=` raises whether or not docker did the work, an
  unchecked one that fails is remembered only in the history variable `silent`.
  An exception goes to the step's handler (`h`) or ends the script.
- Time is counted in units of five seconds; injectors run for the `--duration` of
  their compose entry. Polls may take `PollSlip` longer than asked.
- Loops of the code whose results are proved about are recursive functions: the
  doubling loop (`Loop`, and `PowerOf2` in its closed form `CappedDoubling`), the
  withdrawal filter (`WithoutWithdrawals`), `compute_metrics`.
- In `Observer` a branch of a node has the FSM states of the main chain and other
  app hashes, and a header carries the hash its predecessor left.

## 3. Runs

| Run | Instance | Shows |
|---|---|---|
| `fsm` | all combinations of readings at and around each threshold; waits of 2, cap 5 (not a power-of-two multiple of 2, so that the cap cuts a doubling), timeout 5; for the loop, 5-bit integers, all caps up to 16, up to 7 attempts | counters belong to their state, the bounds on absorbed noise and gray failure, the refinement of `WithdrawLock`, and under fairness that lasting failure ends in `SOVEREIGN`, lasting health with a proof in `ANCHORED`; the doubling loop equals the closed form the other modules use |
| `chain` | 4 validators (symmetric), 3 heights, Bitcoin up to 3, reorganisations of 2, nodes lagging by 1, 2 rounds | what is decided is what each accepting node's own sensors said; settled heights never go back; withdrawals only over a verified checkpoint |
| `reanchoring` | 8 heights, proofs of at most 2 headers, one proof a block | history, checkpoint and latch stay consistent through regressions and repeated intervals |
| `unproven_unlock` (violation) | as above, 9 heights | withdrawals reopen without any proof of the interval |
| `degradation` | 5 heights, Bitcoin up to 4, two outages of either layer | `SOVEREIGN` never stalls; nothing stalls while DA is up |
| `recovering_halts` (violation) | as above | a DA failure at the proof gate of `RECOVERING` stops block production |
| `forced_tx` | a transfer and a withdrawal, 2 proposers of which one omits, hatch after 2 rounds, 5 heights | no censoring block is decided, the hatch is only needed for uncommittable transactions, the chain goes on |
| `forced_leftover` (violation) | as above | a registration that executes with or after its transaction stays queued |
| `da_publisher` | 6 heights, a blob abandoned after 2 | one blob at a time, nothing reported that was not stored, the newest height is verified in the end |
| `anchor_tracker` | 2 trackers, finality depth 2, 9 Bitcoin blocks, reorganisations up to 2, restarts | own checkpoints pass every peer's check; checkpoints are spaced |
| `experiments` | all 23 scripts and variants, each run twice on the same testnet (the sweep once), windows of 9 rounds, polls that slip by one unit | a run that goes through leaves nothing behind, whatever an earlier run left; on a clean testnet a started injector is in force; finally blocks release what is held; the sweep measured what it had deployed; every script ends |
| `observer` | 2 nodes, 3 heights, 3 rounds of samples, one fork; the programs with windows of 60 rounds and the sweep's five default values | the state in a sample is at most one block behind its height; no transition, recovery or divergence is reported that did not happen; the summaries agree with the trackers; and, evaluated once at the start, that every script has an outline that ends clean (`ScriptsAreOutlined`) |

Each property has a mutant in `PROJECT.json`: a plausible change of one mapped
definition under which TLC finds the property violated.

**Why the bounds are enough.** The FSM's behaviour depends on readings only
through the comparisons with the thresholds, so readings at both sides of each
threshold are all the cases; `fsm` has no bound on the number of blocks. In
`chain` three heights reach every state (a critical reading reaches `SOVEREIGN`
in one block, `HysteresisWait = 0` lets `RECOVERING` follow), and a reorganisation
of 2 removes a checkpoint of depth 1. In `reanchoring` eight heights hold an
interval with a regression, two proofs, the return to `ANCHORED` and the start of a
second interval. In `degradation` rounds are counted up to the one after which no
tolerance grows. In `experiments` the durations are those of the compose file; only
the spot checks' window is cut, from 300 s to 9 rounds, which still toggles the
bridge twice (its period is 4) and ends with it down, and the sweep goes through
one value per edge. Two runs let a run meet every leftover a first run can produce, at once or
after all injectors have expired. In `observer`
three heights let a state change and change back between or within samples, and
three rounds give the trackers a lost answer between two good ones. What the bounds cut off is covered by the proofs of section 4
where there are some, and by nothing for the liveness properties.

`ScriptsAreOutlined` is evaluated with `observer` and not with `experiments`: the
mutants of `experiments` change the programs, and a changed program has no outline, so
the assumption would fail before TLC had met the property that the mutant breaks.

**Fairness, and why the code justifies it.** `SovereigntyFSM`: blocks keep being
decided (weak fairness of the one action, the engine's own liveness).
`Degradation`, `ForcedTx`: the engine keeps starting rounds, and every round calls
`MaybeSubmit` and `MaybePublish`, so their confirmations happen once they can; no
fairness makes a layer come back. `DAPublisher`: heights advance, each calls
`MaybePublish`, and the RPC client's timeout ends every `Submit`. Nothing is
assumed about restarts or outages: `PublishesInTheEnd` has their end as its
premise. `Experiments`: a script is one sequential
process whose calls all return, raise or time out (weak fairness of its step);
nothing forces it to be run again. In `ForcedTx` proposers take turns and at least one does not omit.
Deadlock checking is off where a bound on heights or a returned call ends the
behaviour.

### What the violations mean

- `unproven_unlock`: `docs/DEVELOPMENT.md:245-246` and `preblock.go:150` describe an
  accepted proof as the only way out of `RECOVERING`. The code also accepts
  `HBtcAnchored >= HBtcSubmitted > 0`. At the proof gate the proposal's
  `zk_proof_ref` is just `LastAnchoredRoot`, its commit sets `HBtcSubmitted`, and
  `HBtcSubmitted` is never reset, so the heuristic opens the lock without the
  prover. `docs/EXPERIMENT.md:1107-1113` saw it live.
- `recovering_halts`: at the gate every proposal must carry a DA height newer than
  the committed one. A DA failure there is absorbed (the target stays
  `RECOVERING`), no node has a newer height, and the streak that would demote to
  `SOVEREIGN` only moves with decided blocks.
- `forced_leftover`: the queue is cleaned when a block *includes* a queued
  transaction; a registration executed in that block or later is never cleaned and
  costs `MaxCensorshipRounds` rounds at every later height.

Besides these, the comment at `circuit_breaker.go:40-41` that no state reaches
`SOVEREIGN` without `SUSPICIOUS` contradicts the code (and the rest of the comment):
a critical reading takes `ANCHORED` to `SOVEREIGN` in one block, as `WithdrawLock`
states.

## 4. Proofs

All theorems hold for every value of the constants that satisfies the named
assumptions; those are what `Params.Validate` checks (`ParamsAssumption`,
`KeeperAssumption`, `ProposalAssumption`), finiteness of the validator set
(`ChainAssumption`, `TrackerAssumption`) and that bounds are natural numbers. One goes
beyond the code: `ForcedTxAssumption` has at most `MaxCensorshipRounds` proposers, one
of them not omitting. `Params.Validate` does not know the validator set, so this is a
condition on the deployment; with more validators, enough omitting ones in a row reach
the hatch and `HatchOnlyForUncommittable` does not hold.

`ScriptsAreOutlined` is of another kind: a statement about the 23 given programs,
without variables, that TLC evaluates. `ExperimentsProofs` proves that the interpreter
keeps to the outline of any program that has one; what the assumption adds is that these
programs have one, and that it ends clean. It depends on `Rounds` and `SweepValues`: the run has the
values the scripts default to, it is also true for the other values that were
tried (0, 1, 3, 9, 40 rounds; no value, one, several), and it is false for each of the
mutated programs. Who runs a script with other values evaluates it again; the number of
runs and the slip of a poll are not in it.

| Module | Proved | Argument |
|---|---|---|
| `Induction` | a set with 0 and all successors holds every number; every start and step have a function that unfolds that way, and a loop's locals are its values | the least element of a set of naturals exists by `WellFoundedInduction`'s facts without an operator parameter; a function is put together from its finite beginnings, which exist and agree by induction |
| `SovereigntyFSMProofs` | the type invariant and the invariants of `fsm` on the FSM's state, `StreakIsReal`, `DemotionNeedsStreak`, the refinement `LockSpec`, `LoopMatchesClosedForm`, that the attempts stay logarithmic in the cap, and `FSMInv` of whatever implements `FSMSpec` | the properties are inductive together: a streak is real only because it stays below a threshold that the history counter can count to; the gray-failure bound needs the duration to be 0 outside `SUSPICIOUS`; opening the lock needs the credit bound. Added: `SuspiciousCreditBounded`, `RunBounded`. `NextStateCases` states the transition function by cases, once. `FSMInv` is the part of the invariant that needs no history: it is inductive alone, with `RecoveryCreditBounded`. `LoopIsCappedDoubling`: by induction over the rounds, a loop that has not returned holds `down * 2^i` below the cap, and a cap of at most half the range keeps the next doubling from wrapping |
| `EngramChainProofs` | `TypeCorrect`, `AnchoredDataIsFresh`, `SensorsProposeConsensusDecides`, `SettledHeightsMonotone`, `WithdrawalsAreSettled`; the refinement `ChainImplementsFSM` and through it the FSM's invariants (`CommittedFSMInv`) | `IInv` relates each recorded vote to the proposal it was cast for (`VotesMatchProposal`) and the proposal to the committed store (`ProposalIsAbove`). Lemma `OpenIsSettled`: a target with withdrawals open is never computed from a reading with a failed SPV check or without Bitcoin. A decision needs an accepting validator, since more than two thirds accept. `DataInv`, inductive on top of it, says the same of the data: an accepted proposal for `ANCHORED` or `RECOVERING` is attested and within the tolerance of the third round, whichever round accepted it. For the refinement `VotesAreReadings`: each vote is one reading on the store that is still committed when the block is decided; a decision has a vote, so it is one step of the FSM. In `EngramChain` no proof is ever submitted, so its FSM never leaves `RECOVERING` for `ANCHORED`; that part of the refinement is `Reanchoring`'s |
| `ReanchoringProofs` | the four invariants, `AcceptedOnce`, `UnlockNeedsCoverage`; the refinement `ReanchoringImplementsFSM`, the FSM's invariants, and `ReopensAtTheGate` | `IInv` adds that a proof about to execute covers nothing of the block it executes in (`ProofsAreOld`), that applied proofs lie below all tracked headers (`AppliedBelowHistory`, why none is accepted twice) and that a latch means coverage in this interval. One lemma per action, after a lemma that lists the fields the action writes. A decided block is one reading (`DecideBlockReading`), and transactions leave the FSM alone (`OthersKeepFSM`) |
| `ForcedTxProofs` | `NoBlockIsCensoring`, that the counters saturate, `HatchOnlyForUncommittable` | `QueueTypes`: every counter is a number at most one past the bound. The check looks at the counters before the block and the PreBlocker adds one after it, so `count < MaxIgnoreRounds` before is `count <= MaxIgnoreRounds` after; the same `Included` set feeds both. The hatch rests on `HatchInv`: in a height without an uncommittable overdue transaction, every round given up was an omitting proposer's (`OnlyOmitters`), because the proposal of an honest one passes every check (`HonestProposalPasses`, which needs `Store`: receipts above the committed heights, a root whenever the lock is closed) and the filter drops nothing but withdrawals (`FilterKeeps`). Among `ProposerCount <= MaxCensorshipRounds` rounds in a row everyone has a turn (`EveryTurnComes`), so an honest one decides before the hatch opens |
| `ReceiptProofs` | of `AnchorTracker`: `TypeCorrect`, `OwnCheckpointVerifies`, `CheckpointsAreSpaced`; of `DAPublisher`: `PublisherTypeCorrect`, `OneBlobAtATime`, `VerifiedIsStored` | the tracker's are inductive with `PendingIsAbove`: a mined pending checkpoint lies in a tagged block, more than the finality depth above the last confirmed one; the publisher's with `BlobIsStored`: a pending blob that is not lost is stored |
| `ExperimentsProofs` | `OrderlyEndIsClean`, `FinallyReleases`, `MeasuredOnWhatWasDeployed`, and the action property `NoSilentNoOp`, for any number of runs and any slip of a poll | In three layers. The network: rules belong to an injector that has the target (`GoodNet`), and each function of `Injector` is shown once to leave what it does not touch (`Quiet`) and to take away what it is for. The steps: every action of the interpreter puts in force at most what `Dirties` says of its step, takes back what `Cleans` says when it succeeds, and goes only to the next step, to one that it skips to, or to its handler (`Follows`, one lemma per action). The outline: `Settled`, what the outline knows at the step the script is at is not in force there, follows from these and from `GoodLabels` without another look at the actions; the properties are then what `GoodEnds` says at the ends, at a `reraise` and at a `start`, and for the sweep what `GoodProgram` says of a `record`. A run may begin on what an aborted one left, so the outline has two starts, and `Never` (a script puts in force nothing that is not in its footprint) gives what holds even then. Parts of `IInv` for what an outline of a set cannot say: `ExpiredBeforeStop` (the injectors started by hand have run out when their containers are stopped), `WindowOpen` and `BridgeKnown` (the script is right about the bridge it toggles when it comes to restore it), `EnvWritten` and `DeployedKnown` (the parameter of a measurement is in `.env` at the redeploy and on the testnet until the next) |
| `ObserverProofs` | `TypeCorrect`, `TornReadBounded`, `TransitionsAreReal`, `AnchoredReachedIsAReturn`, `NoFalseAlarm`, `MetricsMatchTracker` | `IInv` has one part per stage a reading goes through. `History`: the counts of changes and returns grow along the chain, by one exactly where the state changes. `Nodes`: a node has executed what it stored, or all but the last block. `Replies`, `Samples`: what was read is a block that existed, and no node goes back below it, so the state of a sample is at most one block behind its height. `Notes`: `last_state` is the state of block `seen`, and transitions noted are at most the changes up to it. Two different states at two heights mean a change between them, which is the step that counts. Equal hashes at equal heights off any branch give `NoFalseAlarm`. For the summaries, `MetricsAppend`: one sample more is one step of the loop more, by the recursion of `Induction`. `Summaries` then keeps `compute_metrics` of the kept samples equal to the tracker's count, and `Sound`, what holds after every sample: a demotion or an exit is never next to one of its own kind |

`FSMSpec` (of `SovereigntyFSM`), `CommittedFSMInv` and `ReopensAtTheGate` (of the
proof modules) are proved and not among the properties of the runs; TLC agrees with the last two on the instances of
`chain` and `reanchoring`.

Trying to prove `MetricsMatchTracker` showed that its earlier form, demotions and exits
differing by at most one, is false: `ANCHORED, SUSPICIOUS, RECOVERING, ANCHORED,
SUSPICIOUS` has two demotions and no exit (a node that is sampled seldom enough skips
`SOVEREIGN`). The instance of `observer` is too short for it. The property now
says what does hold, that no two demotions and no two exits are neighbours.

Induction over data is possible here only through `Induction`: the library's theorems
take an operator as a parameter, which the installed provers cannot instantiate, so the
lemmas take sets and step functions instead.

Only model-checked:

- all liveness properties (`LastingFailureIsSovereign`, `LastingHealthAnchors`,
  `SovereignKeepsDeciding`, `DecidesWhileDAIsUp`, `CensorshipNeverHalts`,
  `PublishesInTheEnd`, `EveryScriptEnds`): liveness under fairness is out of this
  prover's reach;
- `ScriptsAreOutlined`, a statement about given programs, which TLC evaluates; to
  prove it would be to evaluate it in the prover.

Every invariant and every safety property of an action that a passing run checks is
proved.

## 5. Not modelled

Of the chain: the circuit and its verifier; JSON-RPC, authentication and the coin
locking of the shared Bitcoin wallet; the wire format of the extended proposal;
evidence recording (written, never read); the churn window, tenure and subnet
filter of the P2P sensor (free inputs of the FSM here); static sensors of nodes
without a live source; a restart of a node with its parameters; the genesis round
trip; Byzantine proposers other than omitting ones.

Of the scripts: figures, tables and data collectors (`live_figure_builder.py`,
`data_preprocessor.py`, `live_single_timeline.py`, `simulate_eclipse_attack.py`, `sensor_log_scraper.py`
and their like), which read files and write plots, without state that outlives a
call; csv and markdown output of the experiments; arithmetic on wall-clock
timestamps (block intervals, latencies); the docker statistics; the live tests
under `tests/`, which have the shape of the modelled scripts.

Docker files and the older specifications under `spec/` are not modelled either:
what docker does with a command is part of `Injector` and `Experiments`.

Three observations have no property. The thresholds are validated against a healthy
gap of `KDeepFinality + 1` (`types/params.go:115`), but one checkpoint at a time, each
confirmed `KDeepFinality + 1` deep, lets the gap of a healthy chain climb to twice
`KDeepFinality`. The spot checks restart the bridge inside the `try`, not in the
`finally` (`live_spot_check.py:192`), so an aborted window leaves the DA layer down. And
`Validate` bounds `MaxDownHysteresisThreshold` only from below (`types/params.go:133`):
above half the integer range the doubling wraps.

## 6. Plan

Done: the FSM and its abstract lock; store, handlers and chain; re-anchoring;
degradation; forced inclusion; publisher; tracker; injectors, experiments and
sampling; the proofs above, with the committed FSM shown to implement `SovereigntyFSM`, and the scripts shown to keep
to their outlines.

Next, in this order:

1. `NodeRestart`: per-node stores and `Params`. `InitChain` is the only place that
   sets `Params` (`app/app.go:205`), so a node that restarts runs the defaults;
   property: nodes that commit the same blocks hold the same store.
2. The genesis round trip (`module.go:86-140` against `app/app.go:162-209`): which
   counters survive an export.
3. Eviction of a pending checkpoint and the coin locking of `SubmitOpReturn`, in
   `AnchorTracker`, with liveness of checkpointing.
4. The P2P sensor: churn window, tenure, anchors, and the subnet filter.
5. The watcher and the submitting CLI: polling thresholds, the 30 s wait, retries.
6. Byzantine proposals in `EngramChain`: an arbitrary extended proposal instead of
   `PrepareProposal`'s.
7. Proofs: the withdraw lock of `WithdrawLock` with its count of healthy blocks, of the
   committed FSM rather than of `SovereigntyFSM`, which needs that count as a history
   variable of `Reanchoring`; what `wait_for_no_active_netem` adds to `NoSilentNoOp`,
   which is proved of testnets that were clean, on one with leftovers.
