------------------------------ MODULE Injector ------------------------------
(***************************************************************************)
(* The fault injectors of the experiment framework                         *)
(* (scripts/framework/injector.py), as operators on the state of docker's  *)
(* network emulation.                                                      *)
(*                                                                         *)
(* An injector is a Pumba container.  Once up it puts a root qdisc on the  *)
(* network namespace of each of its targets, holds it for the --duration   *)
(* its compose entry names, removes it and exits.  Three facts about Pumba *)
(* and tc (the comments at injector.py:130-141 record how they were met)   *)
(* make the scripts hard to get right:                                     *)
(*   - a target has at most one root qdisc: an injector that finds one in  *)
(*     place exits at once without adding its own, and its container then  *)
(*     reads "exited" exactly as one that finished;                        *)
(*   - stopping the container does not remove the qdisc it put in place;   *)
(*   - a target whose container is recreated loses its namespace, and the  *)
(*     qdisc with it.                                                      *)
(*                                                                         *)
(* net.left[c]  is the time container c still has to run: Missing when     *)
(*              there is no such container, 0 when it has exited;          *)
(* net.qdisc[t] is the injector whose rule is on target t, or NoRule.      *)
(* One unit of time is five seconds.                                       *)
(***************************************************************************)
EXTENDS Integers, FiniteSets

Validators == {"node01", "node02", "node03", "node04"}

\* The links between node01 and its peers, node04's side of the one to node01,
\* and node04's other links: what e2's S4 and e4's A4 put their delay on.
Links == {"link01", "link04to01", "link04"}

Targets == Validators \cup Links \cup {"bitcoin", "attacker"}

\* p2p_partial is the anonymous set of injectors e2's S4 starts by hand.
PROFILE_TO_NETEM_TARGETS ==
  [chaos_delay         |-> Validators,
   chaos_loss          |-> {"node01", "node02"},
   chaos_crash         |-> {},
   chaos_eclipse       |-> {"node01"},
   chaos_btc_delay     |-> {"bitcoin"},
   chaos_p2p_churn     |-> {"attacker"},
   chaos_relay_latency |-> {"node04"},
   p2p_partial         |-> {"link01", "link04to01"},
   chaos_wan_latency   |-> Validators,
   chaos_wan_loss      |-> Validators]

\* chaos_crash sends one SIGKILL and is done; the others hold their rule.
Duration ==
  [chaos_delay |-> 60, chaos_loss |-> 24, chaos_crash |-> 1,
   chaos_eclipse |-> 36, chaos_btc_delay |-> 24, chaos_p2p_churn |-> 36,
   chaos_relay_latency |-> 120, p2p_partial |-> 24,
   chaos_wan_latency |-> 120, chaos_wan_loss |-> 120]

WanProfiles == {"chaos_wan_latency", "chaos_wan_loss"}

PROFILE_TO_SERVICE == DOMAIN Duration \ (WanProfiles \cup {"p2p_partial"})

\* A WAN profile has one container per validator, every other profile one.
Services(p) ==
  IF p \in WanProfiles THEN {<<p, v>> : v \in Validators} ELSE {<<p, "all">>}

Containers == UNION {Services(p) : p \in DOMAIN Duration}

TargetsOf(c) ==
  IF c[2] = "all" THEN PROFILE_TO_NETEM_TARGETS[c[1]] ELSE {c[2]}

Missing == -1
NoRule  == <<"none", "none">>

container_status(net, c) ==
  CASE net.left[c] = Missing -> "missing"
    [] net.left[c] = 0       -> "exited"
    [] OTHER                 -> "running"

is_running(net, c) == container_status(net, c) = "running"

NoInjector == [left  |-> [c \in Containers |-> Missing],
               qdisc |-> [t \in Targets |-> NoRule]]

\* docker compose up -d of one container: a running one is left alone, one
\* that meets a rule on a target exits at once, any other takes its targets.
UpOne(net, c) ==
  IF is_running(net, c) THEN net
  ELSE IF \E t \in TargetsOf(c) : net.qdisc[t] # NoRule
    THEN [net EXCEPT !.left[c] = 0]
    ELSE [left  |-> [net.left EXCEPT ![c] = Duration[c[1]]],
          qdisc |-> [t \in Targets |->
                       IF t \in TargetsOf(c) THEN c ELSE net.qdisc[t]]]

\* The containers of one profile have disjoint targets (WAN: one validator
\* each), so that bringing some of them up is one simultaneous step.
_up_detached(net, cs) ==
  [left  |-> [c \in Containers |->
                IF c \in cs THEN UpOne(net, c).left[c] ELSE net.left[c]],
   qdisc |-> [t \in Targets |->
                IF \E c \in cs : UpOne(net, c).qdisc[t] # net.qdisc[t]
                THEN CHOOSE c \in cs : UpOne(net, c).qdisc[t] # net.qdisc[t]
                ELSE net.qdisc[t]]]

start_pumba_profile(net, p) == _up_detached(net, Services(p))

\* docker stop, then rm: the container goes, its rules stay.
StopAndRemove(net, cs) ==
  [net EXCEPT !.left = [c \in Containers |->
                          IF c \in cs THEN Missing ELSE net.left[c]]]

\* tc qdisc del: whatever rule is on these targets goes, whoever put it there.
_clear_netem_qdisc(net, ts) ==
  [net EXCEPT !.qdisc = [t \in Targets |->
                           IF t \in ts THEN NoRule ELSE net.qdisc[t]]]

\* Mutant: Pumba is trusted to take its rule with it when it is stopped.
cleanup_profile_stop_only(net, p) == StopAndRemove(net, Services(p))

cleanup_profile(net, p) ==
  _clear_netem_qdisc(StopAndRemove(net, Services(p)),
                     PROFILE_TO_NETEM_TARGETS[p])

\* n units pass: an injector whose time runs out takes its rules with it.
Elapse(net, n) ==
  LET over == {c \in Containers : net.left[c] > 0 /\ net.left[c] <= n}
  IN  [left  |-> [c \in Containers |->
                    IF net.left[c] <= 0 THEN net.left[c]
                    ELSE IF c \in over THEN 0 ELSE net.left[c] - n],
       qdisc |-> [t \in Targets |->
                    IF net.qdisc[t] \in over THEN NoRule ELSE net.qdisc[t]]]

\* The containers wait_for_no_active_netem asks about: neither the WAN
\* profiles' nor e2's hand-started ones are among them.
netem_containers ==
  UNION {Services(p) : p \in PROFILE_TO_SERVICE \ {"chaos_crash"}}

ActiveNetem(net) == {c \in netem_containers : is_running(net, c)}

\* Its timeout: 20 s.
GuardTimeout == 4

\* The wait until the last of them exits, at most the timeout; whether it
\* returns, or refuses with a RuntimeError.
GuardWait(net) ==
  CHOOSE n \in 0 .. GuardTimeout :
    /\ n = GuardTimeout \/ ActiveNetem(Elapse(net, n)) = {}
    /\ \A m \in 0 .. n - 1 : ActiveNetem(Elapse(net, m)) # {}

wait_for_no_active_netem(net) ==
  [net |-> Elapse(net, GuardWait(net)), returns |-> GuardWait(net) < GuardTimeout]

\* A container recreated by docker has a fresh network namespace.
Recreated(net, ts) == _clear_netem_qdisc(net, ts)

\* No injector and no rule left behind.
NetClean(net) ==
  /\ \A c \in Containers : ~is_running(net, c)
  /\ \A t \in Targets : net.qdisc[t] = NoRule

\* The fault of profile p is really on its targets.
InForce(net, p) == \A c \in Services(p) : \A t \in TargetsOf(c) : net.qdisc[t] = c
=============================================================================
