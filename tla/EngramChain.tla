------------------------------ MODULE EngramChain -------------------------------
(***************************************************************************)
(* Validators deciding blocks, each on what its own sensors answer: the    *)
(* proposer runs PrepareProposal, every validator runs ProcessProposal at  *)
(* a moment of its own, a block that more than two thirds accept is        *)
(* decided and every node's PreBlocker commits it.  Between any two of     *)
(* these steps Bitcoin may grow or reorganise and any layer may fail or    *)
(* come back, for one node and not for another.                            *)
(*                                                                         *)
(* The consensus engine is external: a round has one proposal, proposers   *)
(* are chosen freely, a round may be given up at any moment.  All nodes    *)
(* hold the same committed store, since PreBlock is a function of it and   *)
(* of the decided block.                                                   *)
(***************************************************************************)
EXTENDS Proposal

CONSTANTS
    Validators,   \* the validator set, with equal power
    Mempools,     \* the transaction lists a proposer may hold
    MaxHeight,    \* bound: blocks decided
    MaxBtc,       \* bound: Bitcoin's height
    MaxRound,     \* bound: rounds of one height
    MaxReorg,     \* Bitcoin blocks one reorganisation may replace
    MaxLag        \* Bitcoin blocks a node's bitcoind may be behind

ASSUME ChainAssumption == IsFiniteSet(Validators)

VARIABLES
    app,      \* the committed store
    btc,      \* Bitcoin: [height, tagged], tagged the blocks with an anchor tag
    settled,  \* tagged heights that were KDeepFinality deep at some moment
    round,    \* the round of height app.height + 1
    block,    \* its proposal, or NoBlock
    votes     \* what each validator read when it accepted the proposal

vars == <<app, btc, settled, round, block, votes>>

NoBlock == [ext |-> << >>, txs |-> << >>]
NoVote == [accept |-> FALSE]

Init ==
    /\ app = GenesisApp
    /\ btc = [height |-> 0, tagged |-> {}]
    /\ settled = {}
    /\ round = 0
    /\ block = NoBlock
    /\ votes = [v \in Validators |-> NoVote]

-----------------------------------------------------------------------------
(* Bitcoin *)

Deep(chain) == {h \in chain.tagged : chain.height - h >= KDeepFinality}

SetBtc(chain) ==
    /\ btc' = chain
    /\ settled' = settled \cup Deep(chain)
    /\ UNCHANGED <<app, round, block, votes>>

\* A Bitcoin block, with or without one of the submissions of the trackers.
MineBtc ==
    /\ btc.height < MaxBtc
    /\ \E tags \in {{}, {btc.height + 1}} :
          SetBtc([height |-> btc.height + 1, tagged |-> btc.tagged \cup tags])

\* The last d blocks are replaced by as many that carry no tag.
ReorgBtc ==
    \E d \in 1 .. MaxReorg :
        SetBtc([btc EXCEPT !.tagged = {h \in @ : h <= btc.height - d}])

-----------------------------------------------------------------------------
(* The nodes *)

\* What the sensors of a node may answer now.  Its tracker has confirmed any of
\* the settled heights, its publisher any height up to the one being decided,
\* and both have nothing after a restart.
Views ==
    [btcUp : BOOLEAN,
     btcHeight : {h \in (btc.height - MaxLag) .. btc.height : h >= 0},
     tagged : {btc.tagged},
     confirmed : {0} \cup settled,
     daUp : BOOLEAN,
     daVerified : 0 .. app.height + 1,
     anchors : {0, MinAnchorPeers},
     peerQuality : {TRUE}]

Propose ==
    /\ block = NoBlock
    /\ app.height < MaxHeight
    /\ \E view \in Views, mempool \in Mempools :
          block' = PrepareProposal(app, view, mempool)
    /\ UNCHANGED <<app, btc, settled, round, votes>>

\* A validator that rejects prevotes nil, which changes nothing here.
Accept(v) ==
    /\ block # NoBlock /\ ~votes[v].accept
    /\ \E view \in Views :
          /\ ProcessProposal(app, block, view, round)
          /\ votes' = [votes EXCEPT ![v] =
                [accept  |-> TRUE,
                 target  |-> TargetState(app, view),
                 healthy |-> Healthy(app, view),
                 settled |-> /\ view.btcUp
                             /\ app.hBtcAnchored > 0 =>
                                    VerifyAnchor(view, app.hBtcAnchored)]]
    /\ UNCHANGED <<app, btc, settled, round, block>>

Accepting == {v \in Validators : votes[v].accept}

NewRound(r) ==
    /\ round' = r
    /\ block' = NoBlock
    /\ votes' = [v \in Validators |-> NoVote]

GiveUpRound ==
    /\ block # NoBlock
    /\ round < MaxRound
    /\ NewRound(round + 1)
    /\ UNCHANGED <<app, btc, settled>>

Decide ==
    /\ 3 * Cardinality(Accepting) > 2 * Cardinality(Validators)
    /\ app' = PreBlock(app, block.ext, Included(block.txs))
    /\ NewRound(0)
    /\ UNCHANGED <<btc, settled>>

Next ==
    \/ MineBtc \/ ReorgBtc
    \/ Propose \/ GiveUpRound \/ Decide
    \/ \E v \in Validators : Accept(v)

Spec == Init /\ [][Next]_vars

-----------------------------------------------------------------------------
(* Properties *)

AppTypes ==
    /\ app.fsm.state \in FSMStates
    /\ app.hBtcAnchored \in Nat /\ app.hEngramVerified \in Nat
    /\ app.height \in Nat

BtcTypes ==
    /\ btc \in [height : Nat, tagged : SUBSET Nat]
    /\ settled \subseteq Nat

\* The committed store and Bitcoin have their types.
TypeOK == AppTypes /\ BtcTypes

\* "Sensors propose, consensus decides" (docs/DEVELOPMENT.md, the first rule):
\* the FSM, counters included, moves exactly as the own sensors of each of the
\* accepting two thirds said when they voted, whoever proposed and when.
SensorsProposeConsensusDecides ==
    [][app'.height # app.height =>
          \A v \in Accepting :
              app'.fsm = CommitFSM(app.fsm, votes[v].target, votes[v].healthy)]_vars

\* The settled heights never go back, though the proposer's own tracker and
\* publisher may know less than the chain does (proposal.go:164-183).
SettledHeightsMonotone ==
    [][ /\ app'.hBtcAnchored >= app.hBtcAnchored
        /\ app'.hEngramVerified >= app.hEngramVerified ]_vars

\* A decided withdrawal was accepted by nodes that all reached Bitcoin and found
\* the agreed checkpoint there, KDeepFinality deep and tagged: a checkpoint that
\* a reorganisation removed, or that cannot be checked, stops withdrawals.
WithdrawalsAreSettled ==
    [][app'.height # app.height
         /\ (\E i \in DOMAIN block.txs : ContainsWithdrawal(block.txs[i]))
            => \A v \in Accepting : votes[v].settled]_vars

\* ANCHORED and RECOVERING are never entered or kept without attested data that
\* lags by no more than the widest tolerance allows (da/verify.go:16-58).
AnchoredDataIsFresh ==
    app.height > 0 /\ app.fsm.state \in {Anchored, Recovering} =>
        /\ app.hEngramVerified \in 1 .. app.height
        /\ app.height - app.hEngramVerified <= DAThreshold + DATolerance(3)
=============================================================================
