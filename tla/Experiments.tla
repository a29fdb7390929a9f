----------------------------- MODULE Experiments -----------------------------
(***************************************************************************)
(* Running the programs of module ExperimentScripts.  One interpreter      *)
(* gives every kind of step its meaning, its failures included: a call with*)
(* check=True raises CalledProcessError ("called"), one with timeout=      *)
(* raises TimeoutExpired ("timeout") whether or not docker carried the     *)
(* command out, an unchecked one that fails is not noticed at all          *)
(* (silent), and a sample may raise what query_node does not catch.        *)
(* An exception goes to the step's handler, the next step whose op is its  *)
(* name, or ends the script.                                               *)
(*                                                                         *)
(* A script is run MaxRuns times, any time apart, so that a run also meets *)
(* what an earlier run of it left behind.                                  *)
(***************************************************************************)
EXTENDS ExperimentScripts

CONSTANTS MaxRuns,     \* runs of the script
          PollSlip     \* how much longer than asked a poll may take

ASSUME ConstantsOK == MaxRuns \in Nat \ {0} /\ PollSlip \in Nat

VARIABLES
  script,      \* the script being run
  pc,          \* the step it is at
  exc,         \* the exception being handled, or "none"
  status,      \* "running", "done", "exit1" (sys.exit) or "aborted" (uncaught)
  diedAt,      \* the op that ended an aborted run
  net,         \* injectors and rules (module Injector)
  faults,      \* the other faults in force on the testnet
  window,      \* the measurement loop: rounds left, rounds to the next toggle,
               \* and the script's belief da_down
  tries,       \* attempts of a retried command
  silent,      \* a failure was passed over in this run: of an unchecked
               \* command, or of a measurement of the sweep
  runs,        \* runs so far
  cleanStart,  \* this run started on a clean testnet
  envfile,     \* the parameters in .env, per edge
  deployed,    \* the parameters the running genesis has
  result       \* the sweep's latest entry

vars == <<script, pc, exc, status, diedAt, net, faults, window, tries, silent,
          runs, cleanStart, envfile, deployed, result>>

world == <<net, faults, silent>>
sweep == <<envfile, deployed, result>>
local == <<window, tries>>

\* The network namespaces a fault's command recreates.
Namespaces(f) ==
  CASE f = "byzantine" -> {"node04", "link04", "link04to01"}
    [] f = "bitcoin"   -> {"bitcoin"}
    [] f = "a3"        -> {"attacker"}
    [] OTHER           -> {}

Step == Program[script][pc]

\* The values .env.example ships.
DefaultEnv == [e \in Edges |-> 2]

Clean == NetClean(net) /\ faults = {}

-----------------------------------------------------------------------------
(* Control *)

At(op) == status = "running" /\ pc <= Len(Program[script]) /\ Step.op = op

GoTo(q)  == /\ pc' = q
            /\ UNCHANGED <<script, exc, status, diedAt, runs, cleanStart>>
Continue == GoTo(pc + 1)

End(s) == /\ status' = s
          /\ diedAt' = IF s = "aborted" THEN Step.op ELSE diedAt
          /\ UNCHANGED <<script, pc, exc, runs, cleanStart>>

Raise(kind) ==
  IF Catches(Step.h, kind)
  THEN /\ pc' = FirstAt(Program[script], pc + 1, Step.h)
       /\ exc' = kind
       /\ UNCHANGED <<script, status, diedAt, runs, cleanStart>>
  ELSE End("aborted")

\* An unchecked command with a timeout: done, failed unnoticed, or given up on
\* after it took effect or before.
Unchecked(effect) ==
  /\ \/ effect /\ Continue /\ UNCHANGED silent
     \/ UNCHANGED <<net, faults>> /\ Continue /\ silent' = TRUE
     \/ (effect \/ UNCHANGED <<net, faults>>) /\ Raise("timeout") /\ UNCHANGED silent
  /\ UNCHANGED <<local, sweep>>

BreakFault(f) == /\ faults' = faults \cup Parts(f)
                 /\ net' = Recreated(net, Namespaces(f))
HealFault(f)  == /\ faults' = faults \ Parts(f)
                 /\ net' = Recreated(net, Namespaces(f))

Pass(n) == net' = Elapse(net, n)

\* How far a command on several containers came: none, the first, or all.
Begun(all, first) == {{}, all \cap {first}, all}

-----------------------------------------------------------------------------
(* What each kind of step does *)

Init ==
  /\ script \in Scripts
  /\ pc = 1 /\ exc = "none" /\ status = "running" /\ diedAt = "none"
  /\ net = NoInjector /\ faults = {}
  /\ window = [left |-> 0, next |-> 0, down |-> FALSE] /\ tries = 0
  /\ silent = FALSE /\ runs = 1 /\ cleanStart = TRUE
  /\ envfile = DefaultEnv /\ deployed = DefaultEnv
  /\ result = [edge |-> "down", value |-> 0, st |-> "none",
               params |-> DefaultEnv, old |-> FALSE]

\* Sampling for a while.  query_node does not catch everything a broken
\* connection raises (http.client.IncompleteRead is no OSError).
DoPoll ==
  /\ At("poll")
  /\ \/ \E slip \in 0 .. PollSlip : Pass(Step.n + slip) /\ Continue
     \/ UNCHANGED net /\ Raise("http")
  /\ UNCHANGED <<faults, silent, local, sweep>>

DoSleep ==
  /\ At("sleep")
  /\ \E slip \in 0 .. PollSlip : Pass(Step.n + slip)
  /\ Continue
  /\ UNCHANGED <<faults, silent, local, sweep>>

\* wait_for_state: all nodes agree early, or the timeout passes; the scripts
\* go on either way.
DoWait ==
  /\ At("wait")
  /\ \/ \E n \in {1, Step.n} : Pass(n) /\ Continue
     \/ UNCHANGED net /\ Raise("http")
  /\ UNCHANGED <<faults, silent, local, sweep>>

DoGuard ==
  /\ At("guard")
  /\ LET g == wait_for_no_active_netem(net)
     IN  /\ net' = g.net
         /\ IF g.returns THEN Continue ELSE Raise("runtime")
  /\ UNCHANGED <<faults, silent, local, sweep>>

\* start_pumba_profile and start_pumba_wan_profile: up is checked, and may
\* have brought some containers up when it fails.
DoStart ==
  /\ At("start")
  /\ \/ net' = start_pumba_profile(net, Step.arg) /\ Continue
     \/ \E cs \in Begun(Services(Step.arg), <<Step.arg, "node01">>) :
          net' = _up_detached(net, cs) /\ Raise("called")
  /\ UNCHANGED <<faults, silent, local, sweep>>

DoUntil ==
  /\ At("until")
  /\ IF is_running(net, <<Step.arg, "all">>)
     THEN \/ Pass(1) /\ GoTo(pc)
          \/ UNCHANGED net /\ Raise("http")
     ELSE UNCHANGED net /\ Continue
  /\ UNCHANGED <<faults, silent, local, sweep>>

DoDockerWait ==
  /\ At("dockerwait")
  /\ LET left == net.left[<<Step.arg, "all">>]
     IN  \/ left \in 0 .. Step.n /\ Pass(left) /\ Continue
         \/ left >= Step.n /\ Pass(Step.n - 1) /\ Raise("timeout")
  /\ UNCHANGED <<faults, silent, local, sweep>>

\* cleanup_profile and cleanup_wan_profile: stop and rm are neither checked nor
\* timed; the rule is taken off one target after the other, each with a timeout.
DoCleanup ==
  /\ At("cleanup")
  /\ LET p  == Step.arg
         ts == PROFILE_TO_NETEM_TARGETS[p]
     IN  \/ net' = cleanup_profile(net, p) /\ Continue /\ UNCHANGED silent
         \/ net' = _clear_netem_qdisc(net, ts) /\ Continue /\ silent' = TRUE
         \/ \E some \in Begun(ts, "node01") \ {ts} :
              /\ net' = _clear_netem_qdisc(StopAndRemove(net, Services(p)), some)
              /\ \/ Continue /\ silent' = TRUE
                 \/ Raise("timeout") /\ UNCHANGED silent
  /\ UNCHANGED <<faults, local, sweep>>

DoBreak == At("break") /\ Unchecked(BreakFault(Step.arg))
DoHeal  == At("heal")  /\ Unchecked(HealFault(Step.arg))

\* A checked command, retried when it fails (Step.n attempts), never when it
\* times out.
DoChecked ==
  /\ At("checked")
  /\ \/ BreakFault(Step.arg) /\ Continue /\ tries' = 0
     \/ /\ BreakFault(Step.arg) \/ UNCHANGED <<net, faults>>
        /\ \/ tries + 1 < Step.n /\ GoTo(pc) /\ tries' = tries + 1
           \/ tries + 1 = Step.n /\ Raise("called") /\ tries' = 0
           \/ Raise("timeout") /\ tries' = 0
  /\ UNCHANGED <<silent, window, sweep>>

\* e2's S4: six docker run -d, unchecked; and a docker stop of every Pumba
\* container there is, which takes no rule off.
start_p2p_eclipse_partial ==
  /\ At("partial")
  /\ Unchecked(net' = start_pumba_profile(net, "p2p_partial") /\ UNCHANGED faults)

cleanup_p2p_eclipse_partial ==
  /\ At("stoppumba")
  /\ Unchecked(/\ net' = [net EXCEPT !.left = [c \in Containers |->
                            IF ~is_running(net, c) THEN net.left[c]
                            ELSE IF c[1] = "p2p_partial" THEN Missing ELSE 0]]
               /\ UNCHANGED faults)

-----------------------------------------------------------------------------
(* The spot checks' measurement window *)

OpenWindow ==
  /\ At("open")
  /\ window' = [left |-> Step.n, next |-> 0, down |-> Step.arg]
  /\ Continue
  /\ UNCHANGED <<world, tries, sweep>>

\* One round: sample, toggle the bridge when its time has come, sleep; k is
\* what it takes off the time to the deadline.
RoundTaking(k) ==
  LET toggles == Step.arg.on > 0 /\ window.next = 0
      bridge  == IF window.down THEN faults \ {"bridge"} ELSE faults \cup {"bridge"}
      period  == IF window.down THEN Step.arg.off ELSE Step.arg.on
  IN  /\ At("round") /\ window.left > 0
      /\ \/ Raise("http") /\ UNCHANGED <<world, window>>
         \/ /\ toggles
            /\ faults' \in {bridge, faults}
            /\ Raise("timeout") /\ UNCHANGED <<net, silent, window>>
         \/ /\ Pass(1) /\ GoTo(pc)
            /\ window' = [left |-> window.left - k,
                          next |-> IF toggles THEN period - 1
                                   ELSE IF window.next > 0 THEN window.next - 1 ELSE 0,
                          down |-> IF toggles THEN ~window.down ELSE window.down]
            /\ IF ~toggles THEN UNCHANGED <<faults, silent>>
               ELSE \/ faults' = bridge /\ UNCHANGED silent
                    \/ faults' = faults /\ silent' = TRUE
      /\ UNCHANGED <<tries, sweep>>

\* Mutant: the deadline is set anew in every round.
WindowRoundNoDeadline == RoundTaking(0)

WindowRound == RoundTaking(1)

CloseWindow ==
  /\ At("round") /\ window.left = 0
  /\ Continue
  /\ UNCHANGED <<world, local, sweep>>

\* if da_down: docker start, inside the try and not in the finally.
Restore ==
  /\ At("restore")
  /\ IF window.down THEN Unchecked(HealFault(Step.arg))
                    ELSE Continue /\ UNCHANGED <<world, local, sweep>>

DoFinally ==
  /\ At("finally") /\ Continue
  /\ UNCHANGED <<world, local, sweep>>

DoReraise ==
  /\ At("reraise")
  /\ IF exc = "none" THEN Continue ELSE Raise(exc)
  /\ UNCHANGED <<world, local, sweep>>

\* The polling of drive_to_suspicious.
DoDrive ==
  /\ At("drive")
  /\ \/ Pass(1) /\ GoTo(pc + 1 + Step.skip)
     \/ Pass(Step.n) /\ Continue
     \/ UNCHANGED net /\ Raise("http")
  /\ UNCHANGED <<faults, silent, local, sweep>>

DoExit1 ==
  /\ At("exit1")
  /\ IF Step.h = "none" THEN End("exit1") ELSE Raise("called")
  /\ UNCHANGED <<world, local, sweep>>

-----------------------------------------------------------------------------
(* run_absorb_sweep.py *)

\* Rewrites the field's line in .env; a missing line is a RuntimeError.
set_env_param ==
  /\ At("setenv")
  /\ \/ envfile' = [envfile EXCEPT ![Step.arg] = Step.n] /\ Continue
     \/ UNCHANGED envfile /\ Raise("runtime")
  /\ UNCHANGED <<world, local, deployed, result>>

\* Stops and removes the validators, then make testnet-up: a genesis with what
\* .env says now, Bitcoin and Celestia up, validators created with fresh
\* namespaces.  The removal is unchecked: validators that survive it are left as
\* they are by docker compose up, and go on with the genesis they started from.
redeploy ==
  /\ At("redeploy")
  /\ \/ /\ deployed' = envfile
        /\ faults' = faults \ {"bridge", "validators", "oldValidators"}
        /\ net' = Elapse(Recreated(net, Validators \cup Links), 24)
        /\ Continue /\ UNCHANGED silent
     \/ /\ faults' = (faults \ {"bridge"}) \cup {"oldValidators"}
        /\ Pass(24)
        /\ Continue /\ silent' = TRUE
        /\ UNCHANGED deployed
     \/ /\ faults' = faults \cup {"validators"}
        /\ net' = Recreated(net, Validators \cup Links)
        /\ UNCHANGED <<deployed, silent>> /\ Raise("called")
  /\ UNCHANGED <<local, envfile, result>>

\* A line of the sweep's report, and what the testnet was when it was written.
Entry(st) == [edge |-> Step.arg, value |-> Step.n, st |-> st,
              params |-> deployed, old |-> "oldValidators" \in faults]

\* wait_for_healthy_anchored: True, and the child process starts, or the
\* timeout and the entry is skipped.
Healthy ==
  /\ At("healthy")
  /\ \/ Pass(2) /\ Continue /\ UNCHANGED result
     \/ /\ Pass(300)
        /\ result' = Entry("SKIPPED")
        /\ GoTo(1 + FirstAt(Program[script], pc + 1, "record"))
     \/ Pass(0) /\ Raise("http") /\ UNCHANGED result
  /\ UNCHANGED <<faults, silent, local, envfile, deployed>>

\* run_spot_check returned, or raised CalledProcessError.
RecordResult ==
  /\ At("record")
  /\ result' = Entry(IF exc = "none" THEN "OK" ELSE "FAILED")
  /\ pc' = pc + 1 /\ exc' = "none"
  /\ silent' = (silent \/ exc # "none")
  /\ UNCHANGED <<script, status, diedAt, runs, cleanStart>>
  /\ UNCHANGED <<net, faults, local, envfile, deployed>>

-----------------------------------------------------------------------------
(* The relay-latency attack, and the ends of the others *)

pairwise_link_interfaces ==
  /\ At("ifaces")
  /\ GoTo(pc + 1 + Step.skip) \/ Continue \/ Raise("called")
  /\ UNCHANGED <<world, local, sweep>>

\* tc qdisc add per interface: fails on an interface that has a rule.
apply_delay ==
  LET Delayed(ts) == [net EXCEPT !.qdisc = [t \in Targets |->
                                              IF t \in ts THEN ByTc ELSE net.qdisc[t]]]
      free == {t \in Node04Links : net.qdisc[t] = NoRule}
  IN  /\ At("applydelay")
      /\ \/ free = Node04Links /\ net' = Delayed(Node04Links) /\ GoTo(pc + 1 + Step.skip)
         \/ \E ts \in SUBSET free : net' = Delayed(ts) /\ (Raise("called") \/ Raise("timeout"))
      /\ UNCHANGED <<faults, silent, local, sweep>>

clear_delay ==
  /\ At("cleardelay")
  /\ Unchecked(net' = _clear_netem_qdisc(net, Node04Links) /\ UNCHANGED faults)

DoQuery ==
  /\ At("query")
  /\ Continue \/ Raise("http")
  /\ UNCHANGED <<world, local, sweep>>

\* build_binary and init_home: checked, on homes that are wiped first.
init_home ==
  /\ At("setup")
  /\ Continue \/ Raise("called")
  /\ UNCHANGED <<world, local, sweep>>

\* Popen: started, or an OSError.
start_node ==
  /\ At("spawn")
  /\ \/ faults' = faults \cup {Step.arg} /\ Continue
     \/ UNCHANGED faults /\ Raise("os")
  /\ UNCHANGED <<net, silent, local, sweep>>

\* Payloads are built by a child process each (RuntimeError, TimeoutExpired),
\* sent and sampled until the deadline; a failed broadcast is only counted.
run_load_phase ==
  /\ At("load")
  /\ \/ Pass(Step.n) /\ Continue
     \/ UNCHANGED net /\ \E kind \in {"runtime", "timeout", "http"} : Raise(kind)
  /\ UNCHANGED <<faults, silent, local, sweep>>

\* terminate, wait ten seconds, kill: every process started is gone.
StopProcesses ==
  /\ At("stopprocs") /\ Continue
  /\ faults' = faults \ {"localNormal", "localVanilla"}
  /\ UNCHANGED <<net, silent, local, sweep>>

DoRaise ==
  /\ At("raise") /\ Raise(Step.arg)
  /\ UNCHANGED <<world, local, sweep>>

\* sys.exit(1) when a safety verdict does not hold.
Verdict ==
  /\ At("verdict")
  /\ Continue \/ End("exit1")
  /\ UNCHANGED <<world, local, sweep>>

Finish ==
  /\ status = "running" /\ pc > Len(Program[script])
  /\ status' = "done"
  /\ UNCHANGED <<script, pc, exc, diedAt, runs, cleanStart, world, local, sweep>>

\* The script is run again, at once or when every injector has expired.
Rerun ==
  /\ status # "running" /\ Repeated(script) /\ runs < MaxRuns
  /\ Pass(0) \/ Pass(120)
  /\ pc' = 1 /\ exc' = "none" /\ status' = "running" /\ diedAt' = "none"
  /\ silent' = FALSE /\ runs' = runs + 1
  /\ cleanStart' = (NetClean(net') /\ faults = {})
  /\ window' = [left |-> 0, next |-> 0, down |-> FALSE] /\ tries' = 0
  /\ UNCHANGED <<script, faults, sweep>>

ScriptStep ==
  \/ DoPoll \/ DoSleep \/ DoWait \/ DoGuard \/ DoStart \/ DoUntil \/ DoDockerWait
  \/ DoCleanup \/ DoBreak \/ DoHeal \/ DoChecked
  \/ start_p2p_eclipse_partial \/ cleanup_p2p_eclipse_partial
  \/ OpenWindow \/ WindowRound \/ CloseWindow \/ Restore \/ DoFinally \/ DoReraise
  \/ DoDrive \/ DoExit1 \/ set_env_param \/ redeploy \/ Healthy \/ RecordResult
  \/ pairwise_link_interfaces \/ apply_delay \/ clear_delay
  \/ init_home \/ start_node \/ run_load_phase \/ StopProcesses
  \/ DoQuery \/ DoRaise \/ Verdict \/ Finish

Next == ScriptStep \/ Rerun

Spec == Init /\ [][Next]_vars /\ WF_vars(ScriptStep)

-----------------------------------------------------------------------------
(* Properties *)

\* Whatever an earlier run of a script left behind when it was aborted, a run
\* of it that goes through with no command failing unnoticed leaves no
\* injector, no rule on any interface and no other fault (the cleanups at the
\* end of the scripts' main(), and injector.py's cleanup_profile).  A script
\* that gives up by itself (sys.exit(1): the links are not found, the delay
\* cannot be set, SUSPICIOUS is not reached, safety did not hold) has taken
\* back what it did.
OrderlyEndIsClean ==
  /\ status = "done" /\ ~silent => Clean
  /\ status = "exit1" /\ ~silent /\ cleanStart => Clean

\* On a testnet that was clean when the script started, an injector that was
\* started is really on its targets: none of the scripts meets its own rules,
\* where Pumba would exit at once and the phase would measure nothing
\* (injector.py's note at PROFILE_TO_NETEM_TARGETS).
NoSilentNoOp ==
  [][At("start") /\ pc' = pc + 1 /\ cleanStart /\ ~silent
       => InForce(net', Step.arg)]_vars

\* However the try block of a script ends, its finally block has released what
\* the script holds: the WAN profile of a spot check (live_spot_check.py,
\* live_spot_check_absorb.py), the local nodes of live_throughput_latency.py.
FinallyReleases ==
  status = "aborted" /\ diedAt = "reraise" /\ ~silent =>
    NetClean(net) /\ faults \cap {"localNormal", "localVanilla"} = {}

\* Every measurement the sweep reports as OK was made on a genesis that has the
\* value it is reported under, whichever of the measurements before it failed or
\* were skipped (redeploy, run_spot_check): unless the removal of the validators
\* failed unnoticed, which the sweep has no way to tell.
MeasuredOnWhatWasDeployed ==
  result.st = "OK" /\ ~result.old => result.params[result.edge] = result.value

\* Every run of every script comes to an end: no retry, no measurement loop and
\* no wait for an injector goes on for ever.
EveryScriptEnds == status = "running" ~> status # "running"
=============================================================================
