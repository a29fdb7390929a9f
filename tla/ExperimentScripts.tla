-------------------------- MODULE ExperimentScripts --------------------------
(***************************************************************************)
(* The live experiments (scripts/e2 .. e9) as programs: each main() drives *)
(* a running testnet through a fixed sequence of faults, observes it, and  *)
(* is supposed to put everything back.                                     *)
(*                                                                         *)
(* A script is a sequence of steps, one for each call of its main() that   *)
(* changes the testnet, takes time or may end the script, in the order of  *)
(* the source; printing, csv and markdown are left out.  What a step does  *)
(* is defined in Experiments.                                              *)
(***************************************************************************)
EXTENDS Injector, Sequences, SequencesExt

CONSTANTS Rounds,      \* rounds of a spot check's measurement window
          SweepValues  \* the values run_absorb_sweep.py goes through

ASSUME ScriptConstants == Rounds \in Nat /\ SweepValues \in Seq(Nat)

-----------------------------------------------------------------------------
(* Steps *)

Do(op, arg, n) == [op |-> op, arg |-> arg, n |-> n, h |-> "none", skip |-> 0]

Poll(n)     == Do("poll", "", n)           \* tr.poll, poll_for, poll_timeline
Sleep(n)    == Do("sleep", "", n)          \* time.sleep
Wait(n)     == Do("wait", "", n)           \* tr.wait_for_state, result ignored
Guard       == Do("guard", "", 0)          \* wait_for_no_active_netem
Start(p)    == Do("start", p, 0)           \* start_pumba_(wan_)profile
Until(p)    == Do("until", p, 0)           \* while is_running: sample
Cleanup(p)  == Do("cleanup", p, 0)         \* cleanup_(wan_)profile
Break(f)    == Do("break", f, 0)           \* an unchecked command that breaks
Heal(f)     == Do("heal", f, 0)            \* an unchecked command that heals
Checked(f)  == Do("checked", f, 1)         \* a checked one that breaks
Retried(f)  == Do("checked", f, 3)         \* the same with three attempts
Try(s, h)   == [i \in DOMAIN s |-> IF s[i].h = "none" THEN [s[i] EXCEPT !.h = h]
                                                      ELSE s[i]]
Exit1       == Do("exit1", "", 0)
Reraise     == Do("reraise", "", 0)        \* the end of a finally block

-----------------------------------------------------------------------------
(* The scripts *)

\* CHAOS_TARGET_CONTAINER knows four of the profiles the parser offers: for
\* the others main() ends with a KeyError before it does anything.
live_chaos_experiment(p) ==
  IF p \in {"chaos_delay", "chaos_loss", "chaos_crash", "chaos_eclipse"}
  THEN <<Poll(4), Guard, Start(p), Until(p), Cleanup(p), Poll(9)>>
  ELSE <<Do("raise", "key", 0)>>

\* docker wait gives up after 600 s, which is chaos_relay_latency's duration.
run_pumba_profile(p) == <<Start(p), Do("dockerwait", p, 120), Cleanup(p)>>

\* make chaos-<profile>, and later make chaos-stop.
manual_cli(p) == <<Start(p), Sleep(10), Cleanup(p)>>

toggle_profile_bursts(p, on, off, cycles) ==
  FlattenSeq([i \in 1 .. cycles |->
                <<Start(p), Sleep(on), Cleanup(p), Sleep(off), Guard>>])

live_scenario_matrix ==
  <<Poll(3),                                                         \* S1
    Break("submission"), Poll(36), Heal("submission"), Wait(18),     \* S2
    Break("bridge"), Poll(12), Heal("bridge"), Wait(18),             \* S3
    Guard, Do("partial", "p2p_partial", 0), Poll(26),                \* S4
    Do("stoppumba", "", 0), Wait(18),
    Guard, Start("chaos_eclipse"), Poll(38),                         \* S5
    Cleanup("chaos_eclipse"), Wait(18),
    Break("bitcoin"), Break("bridge"), Poll(18),                     \* S6
    Heal("bitcoin"), Heal("bridge"), Wait(120)>>                     \* S7

\* --wan-profile none leaves these steps out.
IfWan(wan, s) == IF wan = "none" THEN <<>> ELSE <<s>>

\* Mutant: the WAN profile is taken off at the end of the try block.
MeasurementNoFinally(wan, down, on, off) ==
  IfWan(wan, Start(wan)) \o <<Do("open", down, Rounds)>>
    \o Try(<<Do("round", [on |-> on, off |-> off], 0), Do("restore", "bridge", 0)>>
             \o IfWan(wan, Cleanup(wan)), "finally")
    \o <<Do("finally", "", 0), Reraise>>

\* The measurement window of both spot checks, with its finally block: down is
\* da_down's first value, on and off the noise periods (0: env "stable").
Measurement(wan, down, on, off) ==
  IfWan(wan, Start(wan)) \o <<Do("open", down, Rounds)>>
    \o Try(<<Do("round", [on |-> on, off |-> off], 0), Do("restore", "bridge", 0)>>,
           "finally")
    \o <<Do("finally", "", 0)>> \o IfWan(wan, Cleanup(wan)) \o <<Reraise>>

live_spot_check(env, wan) ==
  IF env = "noisy_da" THEN Measurement(wan, FALSE, 4, 4)
                      ELSE Measurement(wan, FALSE, 0, 0)

\* Mutant: gives up with the bridge still stopped.
DriveAndGiveUp ==
  <<Break("bridge"), [Do("drive", "", 24) EXCEPT !.skip = 1], Exit1>>

\* --edge suspicious_exit stops the bridge first, waits for SUSPICIOUS and
\* gives up with the bridge started again when it does not come.
drive_to_suspicious ==
  <<Break("bridge"), [Do("drive", "", 24) EXCEPT !.skip = 2],
    Heal("bridge"), Exit1>>

live_spot_check_absorb(edge, env, wan) ==
  LET on  == IF env = "noisy_da" THEN 4 ELSE 0
      off == IF edge = "suspicious_exit" /\ on > 0 THEN 1 ELSE on
  IN  IF edge = "suspicious_exit"
      THEN drive_to_suspicious \o Measurement(wan, TRUE, on, off)
      ELSE Measurement(wan, FALSE, on, off)

\* Mutant: the parameter is written once the testnet is up again.
SweepSetsAfterwards(edges, values, envs) ==
  FlattenSeq([k \in 1 .. Len(edges) * Len(values) |->
    LET e == edges[((k - 1) \div Len(values)) + 1]
        v == values[((k - 1) % Len(values)) + 1]
    IN  <<Do("redeploy", e, v), Do("setenv", e, v)>>
          \o live_spot_check_absorb(e, envs[1], "none") \o <<Do("record", e, v)>>])

\* One redeploy per (edge, value), one measurement per env on it; a child
\* process that fails, however it fails, is a CalledProcessError here.
run_absorb_sweep(edges, values, envs) ==
  FlattenSeq([k \in 1 .. Len(edges) * Len(values) |->
    LET e == edges[((k - 1) \div Len(values)) + 1]
        v == values[((k - 1) % Len(values)) + 1]
    IN  <<Do("setenv", e, v), Do("redeploy", e, v)>>
          \o FlattenSeq([j \in 1 .. Len(envs) |->
               <<Do("healthy", e, v)>>
                 \o Try(live_spot_check_absorb(e, envs[j], "chaos_wan_latency"),
                        "record")
                 \o <<Do("record", e, v)>>])])

\* P4: three short bursts of packet loss.
Churn == FlattenSeq([i \in 1 .. 3 |->
           <<Guard, Start("chaos_loss"), Poll(4), Cleanup("chaos_loss"), Poll(2)>>])

\* Mutant: the guard is trusted to see the WAN profile, which is not paused.
TraceKeepsWan(wan) ==
  IfWan(wan, Start(wan)) \o <<Poll(3), Break("bridge"), Poll(12)>> \o Churn
    \o <<Heal("bridge"), Poll(6), Wait(120)>> \o IfWan(wan, Cleanup(wan))

live_combined_trace(wan) ==
  IfWan(wan, Start(wan))
    \o <<Poll(3),                                                    \* P1
         Guard, Start("chaos_btc_delay"), Poll(12),                  \* P2
         Break("bridge"), Poll(12)>>                                 \* P3
    \o IfWan(wan, Cleanup(wan)) \o Churn                             \* P4
    \o (IF wan = "none" THEN <<>> ELSE <<Guard, Start(wan)>>)
    \o <<Poll(6),                                                    \* P5
         Cleanup("chaos_btc_delay"), Heal("bridge"), Poll(6),        \* P6
         Wait(120)>>                                                 \* P7
    \o IfWan(wan, Cleanup(wan))

live_sybil_attack(swarm) ==
  <<Poll(6), Retried(swarm), Poll(18), Heal(swarm), Poll(12)>>

live_churn_attack(cycles) ==
  <<Poll(6), Retried("a3"), Poll(4)>>
    \o FlattenSeq([i \in 1 .. cycles |->
         <<Heal("a3running"), Poll(3), Break("a3running"), Poll(4)>>])
    \o <<Heal("a3"), Poll(24)>>

live_relay_latency_attack ==
  <<[Do("ifaces", "", 0) EXCEPT !.skip = 1], Exit1, Poll(6),
    [Do("applydelay", "", 0) EXCEPT !.h = "cleardelay", !.skip = 2],
    Do("cleardelay", "", 0), Exit1,
    Poll(48), Do("cleardelay", "", 0), Poll(24)>>

live_byzantine_attacks(scenarios) ==
  FlattenSeq([i \in 1 .. scenarios |->
                <<Poll(3), Checked("byzantine"), Poll(12),
                  Heal("byzantine"), Poll(6)>>])
    \o <<Do("verdict", "", 0)>>

live_combined_attack ==
  <<Poll(3), Checked("byzantine"), Checked("swarm_a1"), Poll(24),
    Heal("swarm_a1"), Heal("byzantine"), Poll(12), Do("verdict", "", 0)>>

\* Its poll_once catches whatever a sample raises: the phases are only time.
live_sensor_mismatch ==
  <<Do("query", "", 0), Sleep(4), Break("daLink"), Sleep(12),
    Heal("daLink"), Sleep(6)>>

\* Two local nodes instead of the testnet: built and initialised first, started
\* and loaded inside a try whose finally stops whatever was started.
live_throughput_latency ==
  <<Do("setup", "", 0)>>
    \o Try(<<Do("spawn", "localNormal", 0), Sleep(1),
             Do("spawn", "localVanilla", 0), Sleep(2),
             Do("load", "", 12), Do("load", "", 12)>>, "finally")
    \o <<Do("finally", "", 0), Do("stopprocs", "", 0), Reraise>>

Program ==
  [chaos_delay      |-> live_chaos_experiment("chaos_delay"),
   chaos_loss       |-> live_chaos_experiment("chaos_loss"),
   chaos_crash      |-> live_chaos_experiment("chaos_crash"),
   chaos_btc_delay  |-> live_chaos_experiment("chaos_btc_delay"),
   pumba            |-> run_pumba_profile("chaos_relay_latency"),
   cli              |-> manual_cli("chaos_eclipse"),
   bursts           |-> toggle_profile_bursts("chaos_p2p_churn", 4, 2, 2),
   matrix           |-> live_scenario_matrix,
   spot_stable      |-> live_spot_check("stable", "none"),
   spot_noisy       |-> live_spot_check("noisy_da", "chaos_wan_loss"),
   absorb_down      |-> live_spot_check_absorb("down", "noisy_da", "chaos_wan_latency"),
   absorb_exit      |-> live_spot_check_absorb("suspicious_exit", "stable", "chaos_wan_loss"),
   absorb_exit_da   |-> live_spot_check_absorb("suspicious_exit", "noisy_da", "chaos_wan_loss"),
   sweep            |-> run_absorb_sweep(<<"down", "suspicious_exit">>, SweepValues,
                                         <<"stable", "noisy_da">>),
   trace            |-> live_combined_trace("chaos_wan_latency"),
   sybil_a1         |-> live_sybil_attack("swarm_a1"),
   sybil_a2         |-> live_sybil_attack("swarm_a2"),
   churn            |-> live_churn_attack(2),
   relay            |-> live_relay_latency_attack,
   byzantine        |-> live_byzantine_attacks(3),
   combined         |-> live_combined_attack,
   mismatch         |-> live_sensor_mismatch,
   throughput       |-> live_throughput_latency]

Scripts == DOMAIN Program

\* The sweep is a sequence of measurements as it is and is not repeated.
Repeated(s) == s # "sweep"

-----------------------------------------------------------------------------
(* Where a step may lead, and what it is about *)

\* The first step from q on whose op is the given one.
FirstAt(prog, q, op) ==
  CHOOSE r \in q .. Len(prog) :
    prog[r].op = op /\ \A i \in q .. r - 1 : prog[i].op # op

\* finally and the sweep's except catch whatever ends the block (for the sweep
\* a child process has failed); the relay attack catches only a failed command.
Catches(h, kind) == h \in {"finally", "record"} \/ (h = "cleardelay" /\ kind = "called")

\* The attackers of A3 are brought up running, and stopped and started.
Parts(f) == IF f = "a3" THEN {"a3", "a3running"} ELSE {f}

\* The two thresholds of the sweep.
Edges == {"down", "suspicious_exit"}

\* What the relay-latency attack delays.  The rules tc adds by itself have no
\* injector.
Node04Links == {"link04", "link04to01"}
ByTc == <<"tc", "tc">>
=============================================================================
