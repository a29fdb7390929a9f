---------------------------- MODULE ScriptOutline ----------------------------
(***************************************************************************)
(* A proof outline of the experiment scripts: for every step of every      *)
(* script, what is certainly not in force on the testnet when the script   *)
(* arrives there.  It is computed from the programs alone, from what a     *)
(* step may put in force (Dirties) and what it takes back when it succeeds *)
(* (Cleans), and says nothing about runs in which a failure was passed     *)
(* over.  That the interpreter of Experiments keeps to the outlines is     *)
(* proved in ExperimentsProofs, for every program; that the programs have  *)
(* outlines that end clean is the assumption of this module, a statement   *)
(* about constants that TLC evaluates.                                     *)
(***************************************************************************)
EXTENDS ExperimentScripts

Profiles == DOMAIN Duration

FaultNames ==
  {"submission", "bridge", "bitcoin", "swarm_a1", "swarm_a2", "a3", "a3running",
   "byzantine", "daLink", "localNormal", "localVanilla", "validators",
   "oldValidators"}

\* What can be in force: an injector or its rules, the rules tc adds by itself,
\* another fault.
NetItems == Profiles \cup {"tc"}
Items    == NetItems \cup FaultNames

LocalNodes == {"localNormal", "localVanilla"}

\* What a step may put in force.
Dirties(s) ==
  CASE s.op \in {"start", "partial", "spawn"} -> {s.arg}
    [] s.op \in {"break", "checked"}          -> Parts(s.arg)
    [] s.op = "round"      -> IF s.arg.on > 0 /\ Rounds > 0 THEN {"bridge"} ELSE {}
    [] s.op = "redeploy"   -> {"validators", "oldValidators"}
    [] s.op = "applydelay" -> {"tc"}
    [] OTHER               -> {}

\* What it takes back when it does what it is for.  A poll that is long enough
\* outlasts the injectors e2's S4 starts by hand.
Cleans(s) ==
  CASE s.op \in {"cleanup", "restore"} -> {s.arg}
    [] s.op = "heal"       -> Parts(s.arg)
    [] s.op = "cleardelay" -> {"tc"}
    [] s.op = "stopprocs"  -> LocalNodes
    [] s.op = "redeploy"   -> {"bridge", "validators", "oldValidators"}
    [] s.op = "poll" /\ s.n >= Duration["p2p_partial"] -> {"p2p_partial"}
    [] OTHER               -> {}

\* The steps that may stay where they are.
Loops(s) == s.op \in {"round", "until", "checked"}

\* Where a step may go other than to the next one: without an exception, and
\* with one.
Skips(prog, q) ==
  CASE prog[q].op \in {"drive", "ifaces", "applydelay"} -> {q + 1 + prog[q].skip}
    [] prog[q].op = "healthy" -> {1 + FirstAt(prog, q + 1, "record")}
    [] OTHER                  -> {}

Handlers(prog, q) ==
  IF prog[q].h \in {"finally", "record", "cleardelay"}
  THEN {FirstAt(prog, q + 1, prog[q].h)} ELSE {}

Jumps(prog, q) == Skips(prog, q) \cup Handlers(prog, q)

\* No jump arrives at step q.
OnlyFromAbove(prog, q) == \A i \in DOMAIN prog : q \notin Jumps(prog, i)

-----------------------------------------------------------------------------
(* The outlines *)

Starts == {"clean", "any"}       \* what the run found: a clean testnet, or anything
Modes  == {"normal", "handling"} \* whether an exception is being handled

StartsOf(s) == IF Repeated(s) THEN Starts ELSE {"clean"}

Footprint(s) == UNION {Dirties(Program[s][q]) : q \in DOMAIN Program[s]}

\* What is certainly not in force after a step that did not do what it is for.
Kept(prog, lab, i, m) == lab[i][m] \ Dirties(prog[i])

\* A record ends the handling, with the failure noted; a finally block that was
\* entered with an exception does not go on behind its end.
Passes(prog, i, m) == m = "handling" => prog[i].op \notin {"record", "reraise"}

\* What is certainly not in force at step q, from the labels of those before it.
Entering(prog, lab, q, m) ==
  {x \in Items :
     /\ q > 1 /\ Passes(prog, q - 1, m) =>
          x \in Kept(prog, lab, q - 1, m) \cup Cleans(prog[q - 1])
     /\ \A i \in 1 .. q - 1 : q \in Skips(prog, i) => x \in Kept(prog, lab, i, m)
     /\ m = "handling" =>
          \A i \in 1 .. q - 1 : q \in Handlers(prog, i) =>
            \A k \in Modes : x \in Kept(prog, lab, i, k)}

Label(s, st, lab, q) ==
  LET prog  == Program[s]
      found == IF q = 1 /\ st = "any" THEN Items \ Footprint(s) ELSE Items
      again == IF q <= Len(prog) /\ Loops(prog[q]) THEN Dirties(prog[q]) ELSE {}
  IN  [normal   |-> (found \cap Entering(prog, lab, q, "normal")) \ again,
       handling |-> (found \cap Entering(prog, lab, q, "handling")) \ again]

Known ==
  [s \in Scripts |-> [st \in Starts |->
     FoldLeft(LAMBDA lab, q : Append(lab, Label(s, st, lab, q)), <<>>,
              [q \in 1 .. Len(Program[s]) + 1 |-> q])]]

-----------------------------------------------------------------------------
(* What is required of a program and its outline *)

\* The arguments of a step are of the kind its op needs.
GoodArguments(s) ==
  /\ s.n \in Nat
  /\ s.op \in {"start", "cleanup", "partial"} => s.arg \in Profiles
  /\ s.op = "cleanup"  => s.arg # "p2p_partial"
  /\ s.op = "partial"  => s.arg = "p2p_partial"
  /\ s.op \in {"break", "checked", "heal"} =>
       Parts(s.arg) \subseteq FaultNames \ {"validators", "oldValidators"}
  /\ s.op = "spawn"    => s.arg \in LocalNodes
  /\ s.op = "restore"  => s.arg = "bridge"
  /\ s.op = "open"     => s.n = Rounds /\ s.arg \in BOOLEAN
  /\ s.op = "raise"    => s.arg # "none"
  /\ s.op = "dockerwait" => s.n > 0
  /\ s.op \in {"setenv", "redeploy", "record"} => s.arg \in Edges

\* Steps that rely on the one before: a window is opened, run through, and the
\* bridge restored; the injectors started by hand have expired when Pumba's
\* containers are stopped; .env is written just before the testnet is redeployed.
GoodNeighbours(prog) ==
  \A q \in DOMAIN prog :
    /\ prog[q].op \in {"round", "restore", "stoppumba", "redeploy"} =>
         q > 1 /\ OnlyFromAbove(prog, q)
    /\ prog[q].op = "round"     => prog[q - 1].op = "open"
    /\ prog[q].op = "restore"   => prog[q - 1].op = "round"
    /\ prog[q].op = "stoppumba" => /\ prog[q - 1].op = "poll"
                                   /\ prog[q - 1].n >= Duration["p2p_partial"]
    /\ prog[q].op = "redeploy"  => /\ prog[q - 1].op = "setenv"
                                   /\ prog[q - 1].arg = prog[q].arg
                                   /\ prog[q - 1].n = prog[q].n

\* Step q runs on the testnet that the redeploy at r brought up.
DeployedAt(prog, r, q) ==
  /\ r \in 1 .. q - 1 /\ prog[r].op = "redeploy"
  /\ \A i \in r + 1 .. q - 1 : prog[i].op # "redeploy"
  /\ \A i \in 1 .. r : Jumps(prog, i) \cap (r .. q) = {}

GoodProgram(prog) ==
  /\ Len(prog) \in Nat /\ DOMAIN prog = 1 .. Len(prog)
  /\ \A q \in DOMAIN prog :
       GoodArguments(prog[q]) /\ Jumps(prog, q) \subseteq q + 1 .. Len(prog) + 1
  /\ GoodNeighbours(prog)
  /\ \A q \in DOMAIN prog : prog[q].op = "record" =>
       \E r \in DOMAIN prog : /\ DeployedAt(prog, r, q)
                              /\ prog[r].arg = prog[q].arg /\ prog[r].n = prog[q].n

\* The labels follow the program: nothing is known at a step that is not known
\* on every way to it.
GoodLabels(prog, lab) ==
  \A q \in DOMAIN prog : \A m \in Modes :
    /\ Passes(prog, q, m) =>
         lab[q + 1][m] \subseteq Kept(prog, lab, q, m) \cup Cleans(prog[q])
    /\ Loops(prog[q]) => lab[q][m] \cap Dirties(prog[q]) = {}
    /\ \A j \in Skips(prog, q) : lab[j][m] \subseteq Kept(prog, lab, q, m)
    /\ \A j \in Handlers(prog, q) : lab[j]["handling"] \subseteq Kept(prog, lab, q, m)

\* The rules of x are on some target of profile p, or it is p itself.
Rivals(p) ==
  {x \in NetItems :
     \/ x = p
     \/ PROFILE_TO_NETEM_TARGETS[p]
          \cap (IF x = "tc" THEN Node04Links ELSE PROFILE_TO_NETEM_TARGETS[x]) # {}}

\* What is known where it matters: everything is taken back at the end; what a
\* finally block is for, at its end; the targets of an injector are free when it
\* is started, and nothing is in force when a script gives up, if the testnet was
\* clean; and the script is right about the bridge when it restores it.
GoodEnds(prog, st, lab) ==
  /\ \A m \in Modes : Items \subseteq lab[Len(prog) + 1][m]
  /\ \A q \in DOMAIN prog :
       /\ prog[q].op = "reraise" /\ prog[q].h \notin {"finally", "record"} =>
            NetItems \cup LocalNodes \subseteq lab[q]["handling"]
       /\ prog[q].op = "start" => q + 1 \notin Handlers(prog, q)
       /\ st = "clean" => \A m \in Modes :
            /\ prog[q].op = "start" => Rivals(prog[q].arg) \subseteq lab[q][m]
            /\ prog[q].op = "verdict" \/ (prog[q].op = "exit1" /\ prog[q].h = "none") =>
                 Items \subseteq lab[q][m]
       /\ prog[q].op = "round" =>
            \/ prog[q - 1].arg
            \/ Rounds > 0 /\ prog[q].arg.on > 0
            \/ \A m \in Modes : "bridge" \in lab[q - 1][m]

Outlined(s) ==
  /\ GoodProgram(Program[s])
  /\ \A st \in StartsOf(s) :
       LET lab == Known[s][st]
       IN  /\ lab[1]["normal"] \subseteq
                (IF st = "clean" THEN Items ELSE Items \ Footprint(s))
           /\ GoodLabels(Program[s], lab)
           /\ GoodEnds(Program[s], st, lab)

\* Every script has an outline that ends clean.
ASSUME ScriptsAreOutlined == \A s \in Scripts : Outlined(s)
=============================================================================
