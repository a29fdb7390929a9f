-------------------------- MODULE ExperimentsProofs --------------------------
(***************************************************************************)
(* For every number of runs, any slip of a poll, and all rounds and values *)
(* for which the scripts have outlines: the scripts put back what they did *)
(* and the sweep reports what it measured.                                 *)
(*                                                                         *)
(* The interpreter of Experiments keeps to the outlines of the scripts     *)
(* (module ScriptOutline).  What each injector operation does to the       *)
(* network comes first (GoodNet, Quiet); then every kind of step is shown  *)
(* to put in force at most what Dirties says, to take back what Cleans     *)
(* says and to go only where the outline expects (Follows); from which     *)
(* every part of the invariant follows without another look at the         *)
(* actions.                                                                *)
(***************************************************************************)
EXTENDS Experiments, ScriptOutline, TLAPS

-----------------------------------------------------------------------------
(* Injectors and rules *)

Partial == <<"p2p_partial", "all">>

Times == Nat \cup {Missing}

Nets == [left : [Containers -> Times], qdisc : [Targets -> Containers \cup {NoRule, ByTc}]]

\* A rule is on a target of the injector that put it there; an injector runs no
\* longer than its duration; those started by hand are not stopped while their
\* rules are in place.
GoodNet(n) ==
  /\ n \in Nets
  /\ \A c \in Containers : n.left[c] <= Duration[c[1]]
  /\ \A t \in Targets :
       /\ n.qdisc[t] \in Containers => t \in TargetsOf(n.qdisc[t])
       /\ n.qdisc[t] = ByTc => t \in Node04Links
       /\ n.qdisc[t] = Partial => n.left[Partial] > 0

\* Nothing of x is in force on the network.
Quiet(n, x) ==
  /\ \A c \in Containers : c[1] = x => n.left[c] <= 0
  /\ \A t \in Targets : n.qdisc[t][1] # x

\* The profiles, by name.
LEMMA ProfileNames ==
  Profiles = {"chaos_delay", "chaos_loss", "chaos_crash", "chaos_eclipse",
              "chaos_btc_delay", "chaos_p2p_churn", "chaos_relay_latency",
              "p2p_partial", "chaos_wan_latency", "chaos_wan_loss"}
  BY DEF Profiles, Duration

\* They are the profiles that have targets.
LEMMA ProfileTargets ==
  \A p \in Profiles : PROFILE_TO_NETEM_TARGETS[p] \subseteq Targets
  BY ProfileNames DEF PROFILE_TO_NETEM_TARGETS, Targets, Validators, Links

\* Every injector runs for a while.
LEMMA Durations ==
  /\ \A p \in Profiles : Duration[p] \in Nat \ {0}
  /\ Duration["p2p_partial"] = 24
  BY ProfileNames DEF Duration

\* The containers of a profile are the ones that bear its name.
LEMMA ServicesOfProfile ==
  \A p \in Profiles : Services(p) = {c \in Containers : c[1] = p}
<1>1. ASSUME NEW p \in Profiles, NEW c \in Services(p) PROVE c[1] = p /\ c \in Containers
  BY DEF Services, Containers, Profiles
<1>2. ASSUME NEW p \in Profiles, NEW c \in Containers, c[1] = p PROVE c \in Services(p)
  <2>1. PICK r \in Profiles : c \in Services(r)
    BY DEF Containers, Profiles
  <2> QED BY <2>1, <1>1, <1>2
<1> QED BY <1>1, <1>2

\* A container has targets of its profile, and no other container of the profile
\* has them.
LEMMA ContainerTargets ==
  /\ \A c \in Containers : c[1] \in Profiles
       /\ TargetsOf(c) \subseteq PROFILE_TO_NETEM_TARGETS[c[1]]
       /\ TargetsOf(c) \subseteq Targets
  /\ \A p \in Profiles : \A t \in PROFILE_TO_NETEM_TARGETS[p] :
       \E c \in Services(p) : t \in TargetsOf(c)
  /\ \A c, d \in Containers : \A t \in TargetsOf(c) \cap TargetsOf(d) :
       c[1] = d[1] => c = d
<1>1. ASSUME NEW c \in Containers
      PROVE  c[1] \in Profiles /\ TargetsOf(c) \subseteq PROFILE_TO_NETEM_TARGETS[c[1]]
  <2>1. PICK p \in Profiles : c \in Services(p)
    BY DEF Containers, Profiles
  <2>2. CASE p \in WanProfiles
    <3>1. PICK v \in Validators : c = <<p, v>>
      BY <2>1, <2>2 DEF Services
    <3>2. v # "all" /\ PROFILE_TO_NETEM_TARGETS[p] = Validators
      BY <2>2, <3>1 DEF WanProfiles, PROFILE_TO_NETEM_TARGETS, Validators
    <3> QED BY <2>1, <3>1, <3>2 DEF TargetsOf
  <2>3. CASE p \notin WanProfiles
    BY <2>1, <2>3 DEF Services, TargetsOf
  <2> QED BY <2>2, <2>3
<1>2. ASSUME NEW p \in Profiles, NEW t \in PROFILE_TO_NETEM_TARGETS[p]
      PROVE  \E c \in Services(p) : t \in TargetsOf(c)
  <2>1. CASE p \in WanProfiles
    <3>1. t \in Validators /\ t # "all"
      BY <2>1 DEF WanProfiles, PROFILE_TO_NETEM_TARGETS, Validators
    <3>2. <<p, t>> \in Services(p) /\ t \in TargetsOf(<<p, t>>)
      BY <2>1, <3>1 DEF Services, TargetsOf
    <3> QED BY <3>2
  <2>2. CASE p \notin WanProfiles
    BY <2>2 DEF Services, TargetsOf
  <2> QED BY <2>1, <2>2
<1>3. ASSUME NEW c \in Containers, NEW d \in Containers, c[1] = d[1],
             NEW t \in TargetsOf(c) \cap TargetsOf(d)
      PROVE  c = d
  <2>1. c \in Services(c[1]) /\ d \in Services(c[1]) /\ c[1] \in Profiles
    BY <1>1, <1>3, ServicesOfProfile
  <2>2. CASE c[1] \in WanProfiles
    <3>1. PICK v \in Validators : c = <<c[1], v>>
      BY <2>1, <2>2 DEF Services
    <3>2. PICK w \in Validators : d = <<c[1], w>>
      BY <2>1, <2>2 DEF Services
    <3>3. t = v /\ t = w
      BY <3>1, <3>2, <1>3 DEF TargetsOf, Validators
    <3> QED BY <3>1, <3>2, <3>3
  <2>3. CASE c[1] \notin WanProfiles
    BY <2>1, <2>3 DEF Services
  <2> QED BY <2>2, <2>3
<1> QED BY <1>1, <1>2, <1>3, ProfileTargets

\* No rule, and tc's own, are not an injector's.
LEMMA OtherRules ==
  /\ NoRule \notin Containers /\ ByTc \notin Containers /\ NoRule # ByTc
  /\ NoRule[1] = "none" /\ ByTc[1] = "tc"
  /\ "none" \notin Profiles /\ "tc" \notin Profiles
  /\ Partial \in Containers /\ Partial[1] = "p2p_partial"
<1>1. "none" \notin Profiles /\ "tc" \notin Profiles /\ "p2p_partial" \in Profiles
  BY ProfileNames
<1>2. NoRule[1] = "none" /\ ByTc[1] = "tc" /\ Partial[1] = "p2p_partial"
  BY DEF NoRule, ByTc, Partial
<1>3. Partial \in Services("p2p_partial")
  BY DEF Services, Partial, WanProfiles
<1> QED BY <1>1, <1>2, <1>3, ContainerTargets, ServicesOfProfile

\* A rule is an injector's, tc's own, or none: so a fault that is not on the
\* network leaves it quiet.
LEMMA FaultsAreQuiet ==
  ASSUME NEW n, GoodNet(n), NEW x, x \notin NetItems, x # "none"
  PROVE  Quiet(n, x)
<1>1. \A t \in Targets : n.qdisc[t] \in Containers \cup {NoRule, ByTc}
  BY DEF GoodNet, Nets
<1>2. x \notin Profiles /\ x # "tc"
  BY DEF NetItems
<1>3. \A c \in Containers : c[1] # x
  BY <1>2, ContainerTargets
<1>4. \A t \in Targets : n.qdisc[t][1] # x
  BY <1>1, <1>2, <1>3, OtherRules
<1> QED BY <1>3, <1>4 DEF Quiet

\* A network with nothing of any item in force is clean.
LEMMA QuietIsClean ==
  ASSUME NEW n, GoodNet(n), \A x \in NetItems : Quiet(n, x)
  PROVE  NetClean(n)
<1>1. ASSUME NEW c \in Containers PROVE ~is_running(n, c)
  <2>1. c[1] \in NetItems
    BY ContainerTargets DEF NetItems
  <2>2. n.left[c] <= 0 /\ n.left[c] \in Times
    BY <2>1 DEF Quiet, GoodNet, Nets
  <2> QED BY <2>2 DEF is_running, container_status, Times, Missing
<1>2. ASSUME NEW t \in Targets PROVE n.qdisc[t] = NoRule
  <2>1. n.qdisc[t] \in Containers \cup {NoRule, ByTc}
    BY DEF GoodNet, Nets
  <2>2. n.qdisc[t] \notin Containers
    BY ContainerTargets DEF Quiet, NetItems
  <2>3. n.qdisc[t] # ByTc
    BY OtherRules DEF Quiet, NetItems
  <2> QED BY <2>1, <2>2, <2>3
<1> QED BY <1>1, <1>2 DEF NetClean

\* ... and the other way round.
LEMMA CleanIsQuiet ==
  ASSUME NEW n, GoodNet(n), NetClean(n), NEW x, x # "none"
  PROVE  Quiet(n, x)
<1>1. ASSUME NEW c \in Containers PROVE n.left[c] <= 0
  <2>1. ~is_running(n, c) /\ n.left[c] \in Times
    BY DEF NetClean, GoodNet, Nets
  <2> QED BY <2>1 DEF is_running, container_status, Times, Missing
<1>2. \A t \in Targets : n.qdisc[t] = NoRule
  BY DEF NetClean
<1> QED BY <1>1, <1>2, OtherRules DEF Quiet

\* A network is its two fields.
LEMMA NetFields ==
  /\ \A l \in [Containers -> Times], q \in [Targets -> Containers \cup {NoRule, ByTc}] :
       /\ [left |-> l, qdisc |-> q] \in Nets
       /\ [left |-> l, qdisc |-> q].left = l /\ [left |-> l, qdisc |-> q].qdisc = q
  /\ \A n \in Nets :
       /\ n.left \in [Containers -> Times]
       /\ n.qdisc \in [Targets -> Containers \cup {NoRule, ByTc}]
       /\ \A l : [n EXCEPT !.left = l] = [left |-> l, qdisc |-> n.qdisc]
       /\ \A q : [n EXCEPT !.qdisc = q] = [left |-> n.left, qdisc |-> q]
  BY DEF Nets

\* Time passes: an injector may end, with its rules; after the whole duration of
\* the ones started by hand they have.
LEMMA ElapseLemma ==
  ASSUME NEW n, GoodNet(n), NEW k \in Nat
  PROVE  /\ GoodNet(Elapse(n, k))
         /\ \A x : x # "none" /\ Quiet(n, x) => Quiet(Elapse(n, k), x)
         /\ k >= Duration["p2p_partial"] => Quiet(Elapse(n, k), "p2p_partial")
<1> DEFINE over == {c \in Containers : n.left[c] > 0 /\ n.left[c] <= k}
           l == [c \in Containers |-> IF n.left[c] <= 0 THEN n.left[c]
                                      ELSE IF c \in over THEN 0 ELSE n.left[c] - k]
           q == [t \in Targets |-> IF n.qdisc[t] \in over THEN NoRule ELSE n.qdisc[t]]
           e == Elapse(n, k)
<1>1. n \in Nets /\ n.left \in [Containers -> Times]
      /\ n.qdisc \in [Targets -> Containers \cup {NoRule, ByTc}]
  BY NetFields DEF GoodNet
<1>2. l \in [Containers -> Times] /\ q \in [Targets -> Containers \cup {NoRule, ByTc}]
  BY <1>1 DEF Times, Missing
<1>3. e = [left |-> l, qdisc |-> q]
  BY DEF Elapse
<1>4. e \in Nets /\ e.left = l /\ e.qdisc = q
  BY <1>2, <1>3, NetFields
<1>5. \A c \in Containers : e.left[c] <= n.left[c] /\ (n.left[c] <= 0 => e.left[c] <= 0)
                            /\ (n.left[c] <= k => e.left[c] <= 0)
  BY <1>1, <1>4 DEF Times, Missing
<1>6. \A t \in Targets : \/ e.qdisc[t] = NoRule
                         \/ e.qdisc[t] = n.qdisc[t] /\ n.qdisc[t] \notin over
  BY <1>4
<1>7. Partial \notin over /\ n.left[Partial] > 0 => e.left[Partial] > 0
  BY <1>1, <1>4, OtherRules DEF Times, Missing
<1> HIDE DEF e, l, q
<1>8. GoodNet(e)
  <2>1. \A c \in Containers : e.left[c] <= Duration[c[1]]
    BY <1>1, <1>4, <1>2, <1>5, Durations, ContainerTargets DEF GoodNet, Times, Missing
  <2>2. ASSUME NEW t \in Targets
        PROVE  /\ e.qdisc[t] \in Containers => t \in TargetsOf(e.qdisc[t])
               /\ e.qdisc[t] = ByTc => t \in Node04Links
               /\ e.qdisc[t] = Partial => e.left[Partial] > 0
    BY <1>6, <1>7, OtherRules DEF GoodNet
  <2> QED BY <1>4, <2>1, <2>2 DEF GoodNet
<1>9. ASSUME NEW x, x # "none", Quiet(n, x) PROVE Quiet(e, x)
  BY <1>5, <1>6, <1>9, OtherRules DEF Quiet
<1>10. ASSUME k >= Duration["p2p_partial"] PROVE Quiet(e, "p2p_partial")
  <2>1. ASSUME NEW c \in Containers, c[1] = "p2p_partial" PROVE e.left[c] <= 0
    <3>1. n.left[c] <= k
      BY <1>1, <1>10, <2>1, Durations DEF GoodNet, Times, Missing
    <3> QED BY <1>5, <3>1
  <2>2. ASSUME NEW t \in Targets PROVE e.qdisc[t][1] # "p2p_partial"
    <3>1. CASE e.qdisc[t] = NoRule
      BY <3>1, OtherRules
    <3>2. CASE e.qdisc[t] = n.qdisc[t] /\ n.qdisc[t] \notin over
      <4>1. n.qdisc[t] # Partial
        <5>1. n.left[Partial] <= k
          BY <1>1, <1>10, Durations, OtherRules DEF GoodNet, Times, Missing
        <5> QED BY <3>2, <5>1, OtherRules DEF GoodNet
      <4>2. n.qdisc[t] \in Containers \cup {NoRule, ByTc}
        BY <1>1
      <4>3. ASSUME NEW c \in Containers, c[1] = "p2p_partial" PROVE c = Partial
        BY <4>3, ServicesOfProfile, ProfileNames DEF Services, Partial, WanProfiles
      <4> QED BY <3>2, <4>1, <4>2, <4>3, OtherRules
    <3> QED BY <1>6, <3>1, <3>2
  <2> QED BY <2>1, <2>2 DEF Quiet
<1> QED BY <1>8, <1>9, <1>10 DEF e

\* An injector runs while it has time left.
LEMMA RunningLemma ==
  ASSUME NEW n \in Nets, NEW c \in Containers
  PROVE  is_running(n, c) <=> n.left[c] > 0
<1>1. n.left[c] \in Times
  BY NetFields
<1> QED BY <1>1 DEF is_running, container_status, Times, Missing

\* tc qdisc del takes off whatever is there.
LEMMA ClearLemma ==
  ASSUME NEW n, GoodNet(n), NEW ts
  PROVE  /\ GoodNet(_clear_netem_qdisc(n, ts))
         /\ \A x : x # "none" /\ Quiet(n, x) => Quiet(_clear_netem_qdisc(n, ts), x)
         /\ _clear_netem_qdisc(n, ts).left = n.left
         /\ \A t \in Targets : _clear_netem_qdisc(n, ts).qdisc[t]
                                 = IF t \in ts THEN NoRule ELSE n.qdisc[t]
<1> DEFINE q == [t \in Targets |-> IF t \in ts THEN NoRule ELSE n.qdisc[t]]
           e == _clear_netem_qdisc(n, ts)
<1>1. n \in Nets /\ n.left \in [Containers -> Times]
      /\ n.qdisc \in [Targets -> Containers \cup {NoRule, ByTc}]
  BY NetFields DEF GoodNet
<1>2. q \in [Targets -> Containers \cup {NoRule, ByTc}]
  BY <1>1
<1>3. e = [left |-> n.left, qdisc |-> q]
  BY <1>1, NetFields DEF _clear_netem_qdisc
<1>4. e \in Nets /\ e.left = n.left /\ e.qdisc = q
  BY <1>1, <1>2, <1>3, NetFields
<1>5. \A t \in Targets : e.qdisc[t] = IF t \in ts THEN NoRule ELSE n.qdisc[t]
  BY <1>4
<1> HIDE DEF e, q
<1>6. GoodNet(e)
  BY <1>4, <1>5, OtherRules DEF GoodNet
<1>7. ASSUME NEW x, x # "none", Quiet(n, x) PROVE Quiet(e, x)
  BY <1>4, <1>5, <1>7, OtherRules DEF Quiet
<1> QED BY <1>4, <1>5, <1>6, <1>7 DEF e

\* Stopping an injector leaves its rules: not those started by hand while they
\* are in force.
LEMMA StopLemma ==
  ASSUME NEW n, GoodNet(n), NEW l \in [Containers -> Times],
         \A c \in Containers : l[c] <= 0 \/ l[c] = n.left[c],
         l[Partial] = n.left[Partial] \/ Quiet(n, "p2p_partial")
  PROVE  /\ GoodNet([n EXCEPT !.left = l])
         /\ [n EXCEPT !.left = l].left = l
         /\ \A x : Quiet(n, x) => Quiet([n EXCEPT !.left = l], x)
<1> DEFINE e == [n EXCEPT !.left = l]
<1>1. n \in Nets /\ n.left \in [Containers -> Times]
      /\ n.qdisc \in [Targets -> Containers \cup {NoRule, ByTc}]
  BY NetFields DEF GoodNet
<1>a. e = [left |-> l, qdisc |-> n.qdisc]
  BY <1>1, NetFields
<1>2. e \in Nets /\ e.left = l /\ e.qdisc = n.qdisc
  BY <1>1, <1>a, NetFields
<1> HIDE DEF e
<1>3. \A c \in Containers : l[c] <= Duration[c[1]]
  BY Durations, ContainerTargets DEF GoodNet, Times, Missing
<1>4. ASSUME NEW t \in Targets, n.qdisc[t] = Partial PROVE l[Partial] > 0
  BY <1>4, OtherRules DEF Quiet, GoodNet
<1>5. GoodNet(e)
  BY <1>2, <1>3, <1>4 DEF GoodNet
<1>6. ASSUME NEW x, Quiet(n, x) PROVE Quiet(e, x)
  BY <1>2, <1>6 DEF Quiet
<1> QED BY <1>2, <1>5, <1>6 DEF e

\* docker stop and rm of some containers.
LEMMA StopAndRemoveLemma ==
  ASSUME NEW n, GoodNet(n), NEW cs, Partial \notin cs
  PROVE  /\ GoodNet(StopAndRemove(n, cs))
         /\ \A x : Quiet(n, x) => Quiet(StopAndRemove(n, cs), x)
         /\ \A c \in Containers \cap cs : StopAndRemove(n, cs).left[c] <= 0
<1> DEFINE l == [c \in Containers |-> IF c \in cs THEN Missing ELSE n.left[c]]
<1>1. l \in [Containers -> Times]
  BY NetFields DEF GoodNet, Times
<1>2. /\ \A c \in Containers : l[c] <= 0 \/ l[c] = n.left[c]
      /\ \A c \in Containers \cap cs : l[c] <= 0
      /\ l[Partial] = n.left[Partial]
  BY OtherRules DEF Missing
<1>3. StopAndRemove(n, cs) = [n EXCEPT !.left = l]
  BY DEF StopAndRemove
<1> HIDE DEF l
<1> QED BY <1>1, <1>2, <1>3, StopLemma

\* What a cleanup of profile p leaves, if some of the rules were not taken off and
\* if all were.
LEMMA CleanupLemma ==
  ASSUME NEW n, GoodNet(n), NEW p \in Profiles, p # "p2p_partial", NEW ts,
         NEW e, e = _clear_netem_qdisc(StopAndRemove(n, Services(p)), ts)
  PROVE  /\ GoodNet(e)
         /\ \A x : x # "none" /\ Quiet(n, x) => Quiet(e, x)
         /\ PROFILE_TO_NETEM_TARGETS[p] \subseteq ts => Quiet(e, p)
<1>1. Partial \notin Services(p)
  BY ServicesOfProfile, OtherRules
<1> DEFINE s == StopAndRemove(n, Services(p))
<1>2. /\ GoodNet(s)
      /\ \A x : Quiet(n, x) => Quiet(s, x)
      /\ \A c \in Containers \cap Services(p) : s.left[c] <= 0
  BY <1>1, StopAndRemoveLemma
<1>3. e = _clear_netem_qdisc(s, ts)
  OBVIOUS
<1> HIDE DEF s
<1>4. /\ GoodNet(e)
      /\ \A x : x # "none" /\ Quiet(s, x) => Quiet(e, x)
      /\ e.left = s.left
      /\ \A t \in Targets : e.qdisc[t] = IF t \in ts THEN NoRule ELSE s.qdisc[t]
  BY <1>2, <1>3, ClearLemma
<1>5. ASSUME PROFILE_TO_NETEM_TARGETS[p] \subseteq ts PROVE Quiet(e, p)
  <2>1. \A c \in Containers : c[1] = p => e.left[c] <= 0
    BY <1>2, <1>4, ServicesOfProfile
  <2>2. ASSUME NEW t \in Targets PROVE e.qdisc[t][1] # p
    <3>1. CASE t \in ts
      BY <1>4, <3>1, OtherRules
    <3>2. CASE t \notin ts
      <4>1. s.qdisc[t] \in Containers \cup {NoRule, ByTc}
            /\ (s.qdisc[t] \in Containers => t \in TargetsOf(s.qdisc[t]))
        BY <1>2 DEF GoodNet, Nets
      <4>2. s.qdisc[t] \in Containers => s.qdisc[t][1] # p
        BY <1>5, <3>2, <4>1, ContainerTargets
      <4> QED BY <1>4, <3>2, <4>1, <4>2, OtherRules
    <3> QED BY <3>1, <3>2
  <2> QED BY <2>1, <2>2 DEF Quiet
<1> QED BY <1>2, <1>4, <1>5

\* Bringing containers of profile p up puts their rules on their targets, where
\* there was none, and touches nothing else.
LEMMA UpLemma ==
  ASSUME NEW n, GoodNet(n), NEW p \in Profiles, NEW cs \in SUBSET Services(p),
         NEW e, e = _up_detached(n, cs)
  PROVE  /\ GoodNet(e)
         /\ \A x : x # p /\ Quiet(n, x) => Quiet(e, x)
         /\ \A c \in cs : /\ n.left[c] <= 0
                          /\ \A t \in TargetsOf(c) : n.qdisc[t] = NoRule
                          => \A t \in TargetsOf(c) : e.qdisc[t] = c
<1> DEFINE Takes(c) == /\ n.left[c] <= 0
                       /\ \A t \in TargetsOf(c) : n.qdisc[t] = NoRule
           l == [c \in Containers |-> IF c \in cs THEN UpOne(n, c).left[c] ELSE n.left[c]]
           Chosen(t) == CHOOSE c \in cs : UpOne(n, c).qdisc[t] # n.qdisc[t]
           q == [t \in Targets |->
                   IF \E c \in cs : UpOne(n, c).qdisc[t] # n.qdisc[t]
                   THEN Chosen(t) ELSE n.qdisc[t]]
<1>1. n \in Nets /\ n.left \in [Containers -> Times]
      /\ n.qdisc \in [Targets -> Containers \cup {NoRule, ByTc}]
  BY NetFields DEF GoodNet
<1>2. cs \subseteq Containers /\ \A c \in cs : c[1] = p
  BY ServicesOfProfile
<1>3. ASSUME NEW c \in cs, Takes(c)
      PROVE  /\ UpOne(n, c).left[c] = Duration[p]
             /\ \A t \in Targets : UpOne(n, c).qdisc[t]
                                     = IF t \in TargetsOf(c) THEN c ELSE n.qdisc[t]
  <2>1. ~is_running(n, c) /\ ~(\E t \in TargetsOf(c) : n.qdisc[t] # NoRule)
    <3>1. n.left[c] \in Times /\ n.left[c] <= 0 /\ (is_running(n, c) <=> n.left[c] > 0)
      BY <1>1, <1>2, <1>3, RunningLemma
    <3> QED BY <1>3, <3>1 DEF Times, Missing
  <2>2. UpOne(n, c) = [left  |-> [n.left EXCEPT ![c] = Duration[c[1]]],
                       qdisc |-> [t \in Targets |->
                                    IF t \in TargetsOf(c) THEN c ELSE n.qdisc[t]]]
    BY <2>1 DEF UpOne
  <2> QED BY <1>1, <1>2, <2>2
<1>4. ASSUME NEW c \in cs, ~Takes(c)
      PROVE  /\ UpOne(n, c).left[c] \in {0, n.left[c]}
             /\ UpOne(n, c).qdisc = n.qdisc
  <2>1. CASE is_running(n, c)
    BY <2>1 DEF UpOne
  <2>2. CASE ~is_running(n, c)
    <3>1. \E t \in TargetsOf(c) : n.qdisc[t] # NoRule
      <4>1. n.left[c] <= 0
        BY <1>1, <1>2, <2>2, RunningLemma DEF Times, Missing
      <4> QED BY <1>4, <4>1
    <3>2. UpOne(n, c) = [n EXCEPT !.left[c] = 0]
      BY <2>2, <3>1 DEF UpOne
    <3> QED BY <1>1, <1>2, <3>2 DEF Nets
  <2> QED BY <2>1, <2>2
<1>5. ASSUME NEW c \in cs PROVE UpOne(n, c).left[c] \in {0, n.left[c], Duration[p]}
  BY <1>3, <1>4
<1>6. ASSUME NEW t \in Targets
      PROVE  \/ q[t] = n.qdisc[t]
             \/ q[t] \in cs /\ Takes(q[t]) /\ t \in TargetsOf(q[t])
  <2>1. CASE \E c \in cs : UpOne(n, c).qdisc[t] # n.qdisc[t]
    <3>1. Chosen(t) \in cs /\ UpOne(n, Chosen(t)).qdisc[t] # n.qdisc[t]
      BY <2>1
    <3>2. q[t] = Chosen(t)
      BY <2>1
    <3> QED BY <3>1, <3>2, <1>3, <1>4
  <2>2. CASE ~(\E c \in cs : UpOne(n, c).qdisc[t] # n.qdisc[t])
    BY <2>2
  <2> QED BY <2>1, <2>2
<1>7. l \in [Containers -> Times] /\ q \in [Targets -> Containers \cup {NoRule, ByTc}]
  <2>1. \A c \in Containers : l[c] \in Times
    BY <1>1, <1>2, <1>5, Durations DEF Times
  <2>2. \A t \in Targets : q[t] \in Containers \cup {NoRule, ByTc}
    BY <1>1, <1>2, <1>6
  <2> QED BY <2>1, <2>2
<1>8. e = [left |-> l, qdisc |-> q]
  BY DEF _up_detached
<1> HIDE DEF l, q
<1>9. e \in Nets /\ e.left = l /\ e.qdisc = q
  BY <1>7, <1>8, NetFields
<1>10. \A c \in Containers : c \notin cs => e.left[c] = n.left[c]
  BY <1>9 DEF l
<1>11. ASSUME NEW c \in cs
       PROVE  e.left[c] \in {0, n.left[c], Duration[p]} /\ (Takes(c) => e.left[c] = Duration[p])
  BY <1>2, <1>3, <1>5, <1>9 DEF l
<1>12. ASSUME NEW c \in cs, Takes(c), NEW t \in TargetsOf(c) PROVE e.qdisc[t] = c
  <2>1. t \in Targets
    BY <1>2, ContainerTargets
  <2>2. UpOne(n, c).qdisc[t] = c /\ n.qdisc[t] = NoRule /\ c # NoRule
    BY <1>2, <1>3, <1>12, <2>1, OtherRules
  <2>3. Chosen(t) \in cs /\ UpOne(n, Chosen(t)).qdisc[t] # n.qdisc[t] /\ q[t] = Chosen(t)
    BY <1>12, <2>1, <2>2 DEF q
  <2>4. t \in TargetsOf(Chosen(t))
    BY <1>3, <1>4, <2>1, <2>3
  <2>5. Chosen(t) = c
    BY <1>2, <1>12, <2>3, <2>4, ContainerTargets
  <2> QED BY <1>9, <2>3, <2>5
<1>13. \A t \in Targets : \/ e.qdisc[t] = n.qdisc[t]
                          \/ e.qdisc[t] \in cs /\ Takes(e.qdisc[t]) /\ t \in TargetsOf(e.qdisc[t])
  BY <1>6, <1>9
<1> HIDE DEF Chosen
<1>14. GoodNet(e)
  <2>1. \A c \in Containers : e.left[c] <= Duration[c[1]]
    BY <1>1, <1>2, <1>10, <1>11, Durations, ContainerTargets DEF GoodNet, Times, Missing
  <2>2. ASSUME NEW t \in Targets
        PROVE  /\ e.qdisc[t] \in Containers => t \in TargetsOf(e.qdisc[t])
               /\ e.qdisc[t] = ByTc => t \in Node04Links
    BY <1>2, <1>13, OtherRules DEF GoodNet
  <2>3. ASSUME NEW t \in Targets, e.qdisc[t] = Partial PROVE e.left[Partial] > 0
    <3>1. CASE Takes(Partial) /\ Partial \in cs
      BY <1>11, <3>1, Durations
    <3>2. CASE n.qdisc[t] = Partial
      <4>1. n.left[Partial] > 0
        BY <3>2 DEF GoodNet
      <4>2. ASSUME Partial \in cs PROVE e.left[Partial] = n.left[Partial]
        <5>1. is_running(n, Partial)
          BY <1>1, <4>1, OtherRules, RunningLemma
        <5>2. UpOne(n, Partial).left[Partial] = n.left[Partial]
          BY <5>1 DEF UpOne
        <5> QED BY <1>9, <4>2, <5>2, OtherRules DEF l
      <4> QED BY <4>1, <4>2, <1>10, OtherRules
    <3> QED BY <1>13, <2>3, <3>1, <3>2
  <2> QED BY <1>9, <2>1, <2>2, <2>3 DEF GoodNet
<1>15. ASSUME NEW x, x # p, Quiet(n, x) PROVE Quiet(e, x)
  <2>1. \A c \in Containers : c[1] = x => e.left[c] <= 0
    BY <1>2, <1>10, <1>15 DEF Quiet
  <2>2. \A t \in Targets : e.qdisc[t][1] # x
    BY <1>2, <1>13, <1>15 DEF Quiet
  <2> QED BY <2>1, <2>2 DEF Quiet
<1> QED BY <1>12, <1>14, <1>15

\* A profile whose rivals are quiet is in force once it is started.
LEMMA InForceLemma ==
  ASSUME NEW n, GoodNet(n), NEW p \in Profiles, \A x \in Rivals(p) : Quiet(n, x)
  PROVE  InForce(start_pumba_profile(n, p), p)
<1>1. p \in Rivals(p)
  BY DEF Rivals, NetItems
<1>2. ASSUME NEW c \in Services(p), NEW t \in TargetsOf(c)
      PROVE  n.qdisc[t] = NoRule
  <2>1. c \in Containers /\ c[1] = p
    BY ServicesOfProfile
  <2>2. t \in PROFILE_TO_NETEM_TARGETS[p] /\ t \in Targets
    BY <2>1, ContainerTargets
  <2>3. n.qdisc[t] \in Containers \cup {NoRule, ByTc}
    BY <2>2 DEF GoodNet, Nets
  <2>4. n.qdisc[t] \notin Containers
    <3>1. SUFFICES ASSUME n.qdisc[t] \in Containers PROVE FALSE
      OBVIOUS
    <3> DEFINE x == n.qdisc[t][1]
    <3>2. x \in Profiles /\ t \in PROFILE_TO_NETEM_TARGETS[x]
      BY <2>2, <3>1, ContainerTargets DEF GoodNet
    <3>3. x # "tc" /\ x \in NetItems
      BY <3>2, OtherRules DEF NetItems
    <3>4. x \in Rivals(p)
      BY <2>2, <3>2, <3>3 DEF Rivals
    <3> QED BY <2>2, <3>4 DEF Quiet
  <2>5. n.qdisc[t] # ByTc
    <3>1. SUFFICES ASSUME n.qdisc[t] = ByTc PROVE FALSE
      OBVIOUS
    <3>2. t \in Node04Links
      BY <2>2, <3>1 DEF GoodNet
    <3>3. "tc" \in Rivals(p)
      BY <2>2, <3>2 DEF Rivals, NetItems
    <3> QED BY <2>2, <3>1, <3>3, OtherRules DEF Quiet
  <2> QED BY <2>3, <2>4, <2>5
<1>3. \A c \in Services(p) : n.left[c] <= 0
  BY <1>1, ServicesOfProfile DEF Quiet
<1> DEFINE cs == Services(p)
           e  == _up_detached(n, cs)
<1>4. \A c \in cs : /\ n.left[c] <= 0
                    /\ \A t \in TargetsOf(c) : n.qdisc[t] = NoRule
                    => \A t \in TargetsOf(c) : e.qdisc[t] = c
  <2>1. cs \in SUBSET Services(p)
    OBVIOUS
  <2> HIDE DEF cs, e
  <2>2. e = _up_detached(n, cs)
    BY DEF e
  <2> QED BY <2>1, <2>2, UpLemma
<1>5. \A c \in cs : \A t \in TargetsOf(c) : e.qdisc[t] = c
  BY <1>2, <1>3, <1>4
<1> QED BY <1>5 DEF InForce, start_pumba_profile

\* tc's own rules are put on node04's links, where there is none.
LEMMA DelayLemma ==
  ASSUME NEW n, GoodNet(n), NEW ts \in SUBSET Node04Links,
         NEW q \in [Targets -> Containers \cup {NoRule, ByTc}],
         \A t \in Targets : q[t] = IF t \in ts THEN ByTc ELSE n.qdisc[t]
  PROVE  /\ GoodNet([n EXCEPT !.qdisc = q])
         /\ \A x : x # "tc" /\ Quiet(n, x) => Quiet([n EXCEPT !.qdisc = q], x)
<1> DEFINE e == [n EXCEPT !.qdisc = q]
<1>1. n \in Nets /\ n.left \in [Containers -> Times]
  BY NetFields DEF GoodNet
<1>2. e = [left |-> n.left, qdisc |-> q]
  BY <1>1, NetFields
<1>3. e \in Nets /\ e.left = n.left /\ e.qdisc = q
  BY <1>1, <1>2, NetFields
<1> HIDE DEF e
<1>4. GoodNet(e)
  BY <1>3, OtherRules DEF GoodNet
<1>5. ASSUME NEW x, x # "tc", Quiet(n, x) PROVE Quiet(e, x)
  BY <1>3, <1>5, OtherRules DEF Quiet
<1> QED BY <1>4, <1>5 DEF e

\* The guard waits for a while.
LEMMA GuardLemma ==
  ASSUME NEW n PROVE GuardWait(n) \in Nat
<1> DEFINE P(k) == ActiveNetem(Elapse(n, k)) = {}
<1> HIDE DEF P
<1>1. \E k \in 0 .. 4 : (k = 4 \/ P(k)) /\ \A m \in 0 .. k - 1 : ~P(m)
  <2>1. CASE P(0)
    BY <2>1
  <2>2. CASE ~P(0) /\ P(1)
    <3>1. \A m \in 0 .. 1 - 1 : m = 0
      OBVIOUS
    <3> QED BY <2>2, <3>1
  <2>3. CASE ~P(0) /\ ~P(1) /\ P(2)
    <3>1. \A m \in 0 .. 2 - 1 : m \in {0, 1}
      OBVIOUS
    <3> QED BY <2>3, <3>1
  <2>4. CASE ~P(0) /\ ~P(1) /\ ~P(2) /\ P(3)
    <3>1. \A m \in 0 .. 3 - 1 : m \in {0, 1, 2}
      OBVIOUS
    <3> QED BY <2>4, <3>1
  <2>5. CASE ~P(0) /\ ~P(1) /\ ~P(2) /\ ~P(3)
    <3>1. \A m \in 0 .. 4 - 1 : m \in {0, 1, 2, 3}
      OBVIOUS
    <3> QED BY <2>5, <3>1
  <2> QED BY <2>1, <2>2, <2>3, <2>4, <2>5
<1>2. GuardWait(n) \in 0 .. 4
  BY <1>1 DEF GuardWait, GuardTimeout, P
<1> QED BY <1>2

\* Stopping Pumba's containers, once those started by hand have expired.
LEMMA StopPumbaLemma ==
  ASSUME NEW n, GoodNet(n), Quiet(n, "p2p_partial"),
         NEW e, e = [n EXCEPT !.left = [c \in Containers |->
                       IF ~is_running(n, c) THEN n.left[c]
                       ELSE IF c[1] = "p2p_partial" THEN Missing ELSE 0]]
  PROVE  /\ GoodNet(e)
         /\ \A x : Quiet(n, x) => Quiet(e, x)
<1> DEFINE l == [c \in Containers |-> IF ~is_running(n, c) THEN n.left[c]
                                      ELSE IF c[1] = "p2p_partial" THEN Missing ELSE 0]
<1>1. l \in [Containers -> Times]
  BY NetFields DEF GoodNet, Times
<1>2. \A c \in Containers : l[c] <= 0 \/ l[c] = n.left[c]
  BY DEF Missing
<1>3. e = [n EXCEPT !.left = l]
  OBVIOUS
<1> HIDE DEF l
<1> QED BY <1>1, <1>2, <1>3, StopLemma

-----------------------------------------------------------------------------
(* The inductive invariant *)

Prog  == Program[script]
Mode  == IF exc = "none" THEN "normal" ELSE "handling"
Found == IF cleanStart THEN "clean" ELSE "any"

\* What the outline says is certainly not in force at step q.
Outline(q, m) == Known[script][Found][q][m]

Free(x) == x \notin faults /\ Quiet(net, x)

Types ==
  /\ script \in Scripts /\ pc \in 1 .. Len(Prog) + 1
  /\ status \in {"running", "done", "exit1", "aborted"}
  /\ faults \subseteq FaultNames
  /\ window.down \in BOOLEAN
  /\ envfile \in [Edges -> Nat]

\* Only a script that is repeated meets what an earlier run left.
FirstRunIsClean == ~Repeated(script) => cleanStart

\* A script never puts in force what none of its steps does.
Never == \A x \in Items \ Footprint(script) : Free(x)

\* The script is where its outline says.
Settled ==
  status = "running" /\ ~silent =>
    \A x \in Items : x \in Outline(pc, Mode) => Free(x)

\* When Pumba's containers are stopped, those started by hand have expired.
ExpiredBeforeStop == At("stoppumba") => Quiet(net, "p2p_partial")

\* The bridge is stopped only while the script believes it is, or it is about to
\* be toggled for the first time.
BridgeKnown ==
  ~silent =>
    /\ At("round") => \/ "bridge" \in faults => window.down
                      \/ /\ Rounds > 0 /\ window.left = Rounds
                         /\ Step.arg.on > 0 /\ window.next = 0
    /\ At("restore") => ("bridge" \in faults => window.down)

\* The parameter a redeploy is for is in .env.
EnvWritten == At("redeploy") => envfile[Step.arg] = Step.n

\* It is what the testnet has, until the next one, if the old validators are gone.
DeployedKnown ==
  status = "running" =>
    \A r \in DOMAIN Prog :
      DeployedAt(Prog, r, pc) => \/ deployed[Prog[r].arg] = Prog[r].n
                                 \/ "oldValidators" \in faults

\* A round is taken only when there are rounds.
WindowOpen == At("round") /\ window.left > 0 => Rounds > 0

Auxiliary == /\ Types /\ GoodNet(net) /\ FirstRunIsClean
             /\ Never /\ ExpiredBeforeStop /\ WindowOpen

IInv == /\ Auxiliary /\ Settled /\ BridgeKnown /\ EnvWritten /\ DeployedKnown
        /\ OrderlyEndIsClean /\ FinallyReleases /\ MeasuredOnWhatWasDeployed

-----------------------------------------------------------------------------
(* What a step does, in terms of the outline *)

\* Nothing comes into force but what is in D.
WorldKept(D) ==
  /\ GoodNet(net') /\ faults' \subseteq FaultNames
  /\ \A x \in Items \ D : Free(x) => Free(x)'

Keeps == /\ UNCHANGED <<script, cleanStart>>
         /\ WorldKept(Dirties(Step))
         /\ silent => silent'

\* Each part of the sweep's and the window's state has its steps.
Spares ==
  /\ Step.op # "redeploy" =>
       deployed' = deployed /\ ("oldValidators" \in faults => "oldValidators" \in faults')
  /\ Step.op # "setenv" => envfile' = envfile
  /\ Step.op # "record" => result' = result \/ result'.st # "OK"
  /\ Step.op \notin {"open", "round"} => window' = window

Advances == /\ status' = "running" /\ pc' = pc + 1
            /\ ~silent' => /\ exc' = exc /\ Passes(Prog, pc, Mode)
                           /\ \A x \in Cleans(Step) : Free(x)'
Skipping == status' = "running" /\ exc' = exc /\ pc' \in Skips(Prog, pc)
Staying  == status' = "running" /\ exc' = exc /\ pc' = pc /\ Loops(Step)
Handled  == status' = "running" /\ exc' # "none" /\ pc' \in Handlers(Prog, pc)
Aborts   == /\ status' = "aborted" /\ diedAt' = Step.op /\ pc' = pc
            /\ Step.op = "reraise" => /\ exc # "none" /\ UNCHANGED world
                                      /\ Step.h \notin {"finally", "record"}
GivesUp  == /\ status' = "exit1" /\ pc' = pc /\ UNCHANGED world
            /\ Step.op = "verdict" \/ (Step.op = "exit1" /\ Step.h = "none")

Moves == Advances \/ Skipping \/ Staying \/ Handled \/ Aborts \/ GivesUp

Follows == Keeps /\ Spares /\ Moves

\* The items, and the names that are none.
LEMMA ItemNames ==
  /\ "none" \notin Items
  /\ "bridge" \in FaultNames /\ "validators" \in FaultNames /\ "oldValidators" \in FaultNames
  /\ LocalNodes \subseteq FaultNames
  /\ FaultNames \subseteq Items /\ NetItems \subseteq Items /\ Profiles \subseteq Items
  /\ \A x \in FaultNames : x \notin NetItems /\ x # "none"
  /\ "p2p_partial" \in Profiles
  BY ProfileNames DEF Items, NetItems, FaultNames, LocalNodes

\* The script that is run has an outline.
LEMMA ScriptFacts ==
  ASSUME Types
  PROVE  /\ Outlined(script) /\ GoodProgram(Prog)
         /\ Len(Prog) \in Nat /\ DOMAIN Prog = 1 .. Len(Prog) /\ pc \in Nat
<1>1. Outlined(script)
  BY ScriptsAreOutlined DEF Types
<1>2. GoodProgram(Prog)
  BY <1>1 DEF Outlined, Prog
<1>3. Len(Prog) \in Nat /\ DOMAIN Prog = 1 .. Len(Prog)
  BY <1>2 DEF GoodProgram
<1> QED BY <1>1, <1>2, <1>3 DEF Types

\* The step the script is at.
LEMMA StepFacts ==
  ASSUME Types, NEW op, At(op)
  PROVE  /\ status = "running" /\ pc \in DOMAIN Prog /\ pc <= Len(Prog)
         /\ Step = Prog[pc] /\ Step.op = op /\ GoodArguments(Step)
<1>1. pc \in DOMAIN Prog /\ Step = Prog[pc]
  BY ScriptFacts DEF Types, At, Prog, Step
<1> QED BY <1>1, ScriptFacts DEF At, Prog, GoodProgram

\* An exception is handled or ends the script.
LEMMA RaiseMoves ==
  ASSUME Types, NEW op, At(op), NEW kind, kind # "none", Raise(kind), op # "reraise"
  PROVE  Moves /\ UNCHANGED <<script, cleanStart>>
<1>1. Step.op = op /\ status = "running"
  BY StepFacts
<1>2. CASE Catches(Step.h, kind)
  <2>1. Step.h \in {"finally", "record", "cleardelay"}
    BY <1>2 DEF Catches
  <2>2. pc' = FirstAt(Program[script], pc + 1, Step.h) /\ exc' = kind
        /\ UNCHANGED <<script, status, cleanStart>>
    BY <1>2 DEF Raise
  <2>3. pc' \in Handlers(Prog, pc)
    BY <2>1, <2>2 DEF Handlers, Prog, Step
  <2> QED BY <1>1, <2>2, <2>3 DEF Moves, Handled
<1>3. CASE ~Catches(Step.h, kind)
  BY <1>1, <1>3 DEF Raise, End, Moves, Aborts
<1> QED BY <1>2, <1>3

\* Going on.
LEMMA ContinueMoves ==
  ASSUME Types, NEW op, At(op), op \notin {"record", "reraise"}, Continue,
         ~silent' => \A x \in Cleans(Step) : Free(x)'
  PROVE  Moves /\ UNCHANGED <<script, cleanStart>>
<1>1. Step.op = op /\ status = "running" /\ Step = Prog[pc]
  BY StepFacts
<1>2. Passes(Prog, pc, Mode)
  BY <1>1 DEF Passes
<1> QED BY <1>1, <1>2 DEF Moves, Advances, Continue, GoTo

\* Staying for another turn, ...
LEMMA LoopMoves ==
  ASSUME Types, NEW op, At(op), op \in {"round", "until", "checked"}, GoTo(pc)
  PROVE  Moves /\ UNCHANGED <<script, cleanStart>>
  BY StepFacts DEF Moves, Staying, Loops, GoTo

\* ... and skipping some steps.
LEMMA SkipMoves ==
  ASSUME Types, NEW op, At(op), NEW j \in Skips(Prog, pc), GoTo(j)
  PROVE  Moves /\ UNCHANGED <<script, cleanStart>>
  BY StepFacts DEF Moves, Skipping, GoTo

\* The world as it is.
LEMMA SameWorld ==
  ASSUME Types, GoodNet(net), net' = net, faults' = faults, NEW D
  PROVE  WorldKept(D)
  BY DEF WorldKept, Types, Free

\* Time passes.
LEMMA PassWorld ==
  ASSUME Types, GoodNet(net), NEW k \in Nat, Pass(k), faults' = faults, NEW D
  PROVE  WorldKept(D)
<1>1. net' = Elapse(net, k)
  BY DEF Pass
<1>2. GoodNet(net') /\ \A x : x # "none" /\ Quiet(net, x) => Quiet(net', x)
  BY <1>1, ElapseLemma
<1> QED BY <1>2, ItemNames DEF WorldKept, Types, Free

\* A fault comes into force, with some network namespaces recreated.
LEMMA BreakWorld ==
  ASSUME Types, GoodNet(net), NEW f, Parts(f) \subseteq FaultNames, BreakFault(f)
  PROVE  WorldKept(Parts(f))
<1>1. GoodNet(net') /\ \A x : x # "none" /\ Quiet(net, x) => Quiet(net', x)
  BY ClearLemma DEF BreakFault, Recreated
<1> QED BY <1>1, ItemNames DEF WorldKept, Types, Free, BreakFault

\* A fault is taken back.
LEMMA HealWorld ==
  ASSUME Types, GoodNet(net), NEW f, Parts(f) \subseteq FaultNames, HealFault(f), NEW D
  PROVE  WorldKept(D) /\ \A x \in Parts(f) : Free(x)'
<1>1. GoodNet(net') /\ \A x : x # "none" /\ Quiet(net, x) => Quiet(net', x)
  BY ClearLemma DEF HealFault, Recreated
<1>2. WorldKept(D)
  BY <1>1, ItemNames DEF WorldKept, Types, Free, HealFault
<1>3. ASSUME NEW x \in Parts(f) PROVE Free(x)'
  <2>1. Quiet(net', x)
    BY <1>1, ItemNames, FaultsAreQuiet
  <2> QED BY <2>1 DEF Free, HealFault
<1> QED BY <1>2, <1>3

-----------------------------------------------------------------------------
(* Every step follows the outline *)

\* A step that changes nothing but the network, ...
LEMMA NetworkFollows ==
  ASSUME UNCHANGED <<faults, silent, local, sweep>>, WorldKept(Dirties(Step)),
         Moves /\ UNCHANGED <<script, cleanStart>>
  PROVE  Follows
  BY DEF Follows, Keeps, Spares, local, sweep

\* ... only lets time pass, ...
LEMMA TimeFollows ==
  ASSUME Auxiliary, UNCHANGED <<faults, silent, local, sweep>>, NEW k \in Nat, Pass(k),
         Moves /\ UNCHANGED <<script, cleanStart>>
  PROVE  Follows
  BY PassWorld, NetworkFollows DEF Auxiliary

\* ... or does not even that.
LEMMA IdleFollows ==
  ASSUME Auxiliary, UNCHANGED <<faults, silent, local, sweep>>, UNCHANGED net,
         Moves /\ UNCHANGED <<script, cleanStart>>
  PROVE  Follows
  BY SameWorld, NetworkFollows DEF Auxiliary

\* Sampling: nothing but time, after which a long enough poll has outlasted S4.
LEMMA PollFollows ==
  ASSUME Auxiliary, DoPoll PROVE Follows
<1>1. At("poll") /\ UNCHANGED <<faults, silent, local, sweep>> /\ Types /\ GoodNet(net)
  BY DEF DoPoll, Auxiliary
<1>2. Step.op = "poll" /\ Step.n \in Nat
  BY <1>1, StepFacts DEF GoodArguments
<1>3. ASSUME NEW slip \in 0 .. PollSlip, Pass(Step.n + slip), Continue PROVE Follows
  <2>1. Step.n + slip \in Nat /\ Step.n + slip >= Step.n
    BY <1>2, <1>3, ConstantsOK
  <2>2. ASSUME NEW x \in Cleans(Step) PROVE Free(x)'
    <3>1. x = "p2p_partial" /\ Step.n >= Duration["p2p_partial"]
      BY <1>2, <2>2 DEF Cleans
    <3>2. Step.n + slip >= Duration["p2p_partial"]
      BY <1>2, <2>1, <3>1, Durations
    <3>3. Quiet(net', x)
      BY <1>1, <1>3, <2>1, <3>1, <3>2, ElapseLemma DEF Pass
    <3>4. x \notin faults'
      BY <1>1, <3>1, ItemNames DEF Types, NetItems
    <3> QED BY <3>3, <3>4 DEF Free
  <2>3. Moves /\ UNCHANGED <<script, cleanStart>>
    BY <1>1, <1>3, <2>2, ContinueMoves
  <2> QED BY <1>1, <1>3, <2>1, <2>3, TimeFollows
<1>4. ASSUME UNCHANGED net, Raise("http") PROVE Follows
  BY <1>1, <1>4, RaiseMoves, IdleFollows
<1> QED BY <1>3, <1>4 DEF DoPoll

\* Sleeping.
LEMMA SleepFollows ==
  ASSUME Auxiliary, DoSleep PROVE Follows
<1>1. At("sleep") /\ UNCHANGED <<faults, silent, local, sweep>> /\ Types /\ Continue
  BY DEF DoSleep, Auxiliary
<1>2. Step.op = "sleep" /\ Step.n \in Nat
  BY <1>1, StepFacts DEF GoodArguments
<1>3. PICK slip \in 0 .. PollSlip : Pass(Step.n + slip)
  BY DEF DoSleep
<1>4. Step.n + slip \in Nat
  BY <1>2, <1>3, ConstantsOK
<1>5. Moves /\ UNCHANGED <<script, cleanStart>>
  BY <1>1, <1>2, ContinueMoves DEF Cleans
<1> QED BY <1>1, <1>3, <1>4, <1>5, TimeFollows

\* Waiting for a state.
LEMMA WaitFollows ==
  ASSUME Auxiliary, DoWait PROVE Follows
<1>1. At("wait") /\ UNCHANGED <<faults, silent, local, sweep>> /\ Types
  BY DEF DoWait, Auxiliary
<1>2. Step.op = "wait" /\ Step.n \in Nat
  BY <1>1, StepFacts DEF GoodArguments
<1>3. ASSUME NEW n \in {1, Step.n}, Pass(n), Continue PROVE Follows
  BY <1>1, <1>2, <1>3, ContinueMoves, TimeFollows DEF Cleans
<1>4. ASSUME UNCHANGED net, Raise("http") PROVE Follows
  BY <1>1, <1>4, RaiseMoves, IdleFollows
<1> QED BY <1>3, <1>4 DEF DoWait

\* The guard lets time pass, and returns or refuses.
LEMMA GuardFollows ==
  ASSUME Auxiliary, DoGuard PROVE Follows
<1>1. At("guard") /\ UNCHANGED <<faults, silent, local, sweep>> /\ Types
  BY DEF DoGuard, Auxiliary
<1>2. Step.op = "guard"
  BY <1>1, StepFacts
<1>3. Pass(GuardWait(net)) /\ (Continue \/ Raise("runtime"))
  BY DEF DoGuard, wait_for_no_active_netem, Pass
<1>4. Moves /\ UNCHANGED <<script, cleanStart>>
  BY <1>1, <1>2, <1>3, ContinueMoves, RaiseMoves DEF Cleans
<1> QED BY <1>1, <1>3, <1>4, GuardLemma, TimeFollows

\* Sampling while an injector runs.
LEMMA UntilFollows ==
  ASSUME Auxiliary, DoUntil PROVE Follows
<1>1. At("until") /\ UNCHANGED <<faults, silent, local, sweep>> /\ Types
  BY DEF DoUntil, Auxiliary
<1>2. Step.op = "until"
  BY <1>1, StepFacts
<1>3. ASSUME Pass(1), GoTo(pc) PROVE Follows
  BY <1>1, <1>3, LoopMoves, TimeFollows
<1>4. ASSUME UNCHANGED net, Raise("http") PROVE Follows
  BY <1>1, <1>4, RaiseMoves, IdleFollows
<1>5. ASSUME UNCHANGED net, Continue PROVE Follows
  BY <1>1, <1>2, <1>5, ContinueMoves, IdleFollows DEF Cleans
<1> QED BY <1>3, <1>4, <1>5 DEF DoUntil

\* docker wait.
LEMMA DockerWaitFollows ==
  ASSUME Auxiliary, DoDockerWait PROVE Follows
<1>1. At("dockerwait") /\ UNCHANGED <<faults, silent, local, sweep>> /\ Types
  BY DEF DoDockerWait, Auxiliary
<1>2. Step.op = "dockerwait" /\ Step.n \in Nat /\ Step.n - 1 \in Nat
  BY <1>1, StepFacts DEF GoodArguments
<1> DEFINE left == net.left[<<Step.arg, "all">>]
<1>3. ASSUME left \in 0 .. Step.n, Pass(left), Continue PROVE Follows
  <2>1. left \in Nat
    BY <1>2, <1>3
  <2> HIDE DEF left
  <2> QED BY <1>1, <1>2, <1>3, <2>1, ContinueMoves, TimeFollows DEF Cleans
<1>4. ASSUME left >= Step.n, Pass(Step.n - 1), Raise("timeout") PROVE Follows
  <2>1. Moves /\ UNCHANGED <<script, cleanStart>>
    BY <1>1, <1>4, RaiseMoves
  <2> QED BY <1>1, <1>2, <1>4, <2>1, TimeFollows
<1> QED BY <1>3, <1>4 DEF DoDockerWait

\* Waiting for SUSPICIOUS.
LEMMA DriveFollows ==
  ASSUME Auxiliary, DoDrive PROVE Follows
<1>1. At("drive") /\ UNCHANGED <<faults, silent, local, sweep>> /\ Types
  BY DEF DoDrive, Auxiliary
<1>2. Step.op = "drive" /\ Step.n \in Nat /\ Step = Prog[pc]
  BY <1>1, StepFacts DEF GoodArguments
<1>3. ASSUME Pass(1), GoTo(pc + 1 + Step.skip) PROVE Follows
  <2>1. pc + 1 + Step.skip \in Skips(Prog, pc)
    BY <1>2 DEF Skips
  <2> QED BY <1>1, <1>3, <2>1, SkipMoves, TimeFollows
<1>4. ASSUME Pass(Step.n), Continue PROVE Follows
  BY <1>1, <1>2, <1>4, ContinueMoves, TimeFollows DEF Cleans
<1>5. ASSUME UNCHANGED net, Raise("http") PROVE Follows
  BY <1>1, <1>5, RaiseMoves, IdleFollows
<1> QED BY <1>3, <1>4, <1>5 DEF DoDrive

\* The load phases of the throughput measurement.
LEMMA LoadFollows ==
  ASSUME Auxiliary, run_load_phase PROVE Follows
<1>1. At("load") /\ UNCHANGED <<faults, silent, local, sweep>> /\ Types
  BY DEF run_load_phase, Auxiliary
<1>2. Step.op = "load" /\ Step.n \in Nat
  BY <1>1, StepFacts DEF GoodArguments
<1>3. ASSUME Pass(Step.n), Continue PROVE Follows
  BY <1>1, <1>2, <1>3, ContinueMoves, TimeFollows DEF Cleans
<1>4. ASSUME NEW kind \in {"runtime", "timeout", "http"}, UNCHANGED net, Raise(kind)
      PROVE  Follows
  BY <1>1, <1>4, RaiseMoves, IdleFollows
<1> QED BY <1>3, <1>4 DEF run_load_phase

\* The steps that leave the testnet alone.
LEMMA ControlFollows ==
  ASSUME Auxiliary,
         DoFinally \/ DoReraise \/ DoExit1 \/ pairwise_link_interfaces \/ DoQuery
           \/ init_home \/ DoRaise \/ Verdict
  PROVE  Follows
<1>1. Types /\ UNCHANGED <<faults, silent, local, sweep>> /\ UNCHANGED net
  BY DEF Auxiliary, DoFinally, DoReraise, DoExit1, pairwise_link_interfaces, DoQuery,
         init_home, DoRaise, Verdict, world
<1>2. UNCHANGED world
  BY <1>1 DEF world
<1>3. Moves /\ UNCHANGED <<script, cleanStart>>
  <2>1. CASE DoFinally
    BY <1>1, <2>1, StepFacts, ContinueMoves DEF DoFinally, Cleans
  <2>2. CASE DoReraise
    <3>1. At("reraise") /\ Step.op = "reraise" /\ status = "running"
      BY <1>1, <2>2, StepFacts DEF DoReraise
    <3>2. CASE exc = "none"
      <4>1. Continue
        BY <2>2, <3>2 DEF DoReraise
      <4>2. Passes(Prog, pc, Mode) /\ Cleans(Step) = {}
        BY <3>1, <3>2 DEF Passes, Mode, Cleans
      <4> QED BY <3>1, <4>1, <4>2 DEF Moves, Advances, Continue, GoTo
    <3>3. CASE exc # "none" /\ Catches(Step.h, exc)
      <4>1. Step.h \in {"finally", "record", "cleardelay"}
        BY <3>3 DEF Catches
      <4>2. pc' = FirstAt(Program[script], pc + 1, Step.h) /\ exc' = exc
            /\ UNCHANGED <<script, status, cleanStart>>
        BY <2>2, <3>3 DEF DoReraise, Raise
      <4>3. pc' \in Handlers(Prog, pc)
        BY <4>1, <4>2 DEF Handlers, Prog, Step
      <4> QED BY <3>1, <3>3, <4>2, <4>3 DEF Moves, Handled
    <3>4. CASE exc # "none" /\ ~Catches(Step.h, exc)
      <4>1. Step.h \notin {"finally", "record"}
        BY <3>4 DEF Catches
      <4>2. End("aborted")
        BY <2>2, <3>4 DEF DoReraise, Raise
      <4> QED BY <1>2, <3>4, <4>1, <4>2 DEF End, Moves, Aborts
    <3> QED BY <3>2, <3>3, <3>4
  <2>3. CASE DoExit1
    <3>1. At("exit1") /\ Step.op = "exit1"
      BY <1>1, <2>3, StepFacts DEF DoExit1
    <3>2. CASE Step.h = "none"
      BY <1>2, <2>3, <3>1, <3>2 DEF DoExit1, End, Moves, GivesUp
    <3>3. CASE Step.h # "none"
      BY <1>1, <2>3, <3>1, <3>3, RaiseMoves DEF DoExit1
    <3> QED BY <3>2, <3>3
  <2>4. CASE pairwise_link_interfaces
    <3>1. At("ifaces") /\ Step.op = "ifaces" /\ Step = Prog[pc]
      BY <1>1, <2>4, StepFacts DEF pairwise_link_interfaces
    <3>2. pc + 1 + Step.skip \in Skips(Prog, pc) /\ Cleans(Step) = {}
      BY <3>1 DEF Skips, Cleans
    <3> QED BY <1>1, <2>4, <3>1, <3>2, SkipMoves, ContinueMoves, RaiseMoves
            DEF pairwise_link_interfaces
  <2>5. CASE DoQuery
    BY <1>1, <2>5, StepFacts, ContinueMoves, RaiseMoves DEF DoQuery, Cleans
  <2>6. CASE init_home
    BY <1>1, <2>6, StepFacts, ContinueMoves, RaiseMoves DEF init_home, Cleans
  <2>7. CASE DoRaise
    <3>1. At("raise") /\ Raise(Step.arg) /\ Step.arg # "none"
      BY <1>1, <2>7, StepFacts DEF DoRaise, GoodArguments
    <3> QED BY <1>1, <3>1, RaiseMoves
  <2>8. CASE Verdict
    <3>1. At("verdict") /\ Step.op = "verdict" /\ Cleans(Step) = {}
      BY <1>1, <2>8, StepFacts DEF Verdict, Cleans
    <3>2. CASE Continue
      BY <1>1, <3>1, <3>2, ContinueMoves
    <3>3. CASE End("exit1")
      BY <1>2, <3>1, <3>3 DEF End, Moves, GivesUp
    <3> QED BY <2>8, <3>2, <3>3 DEF Verdict
  <2> QED BY <2>1, <2>2, <2>3, <2>4, <2>5, <2>6, <2>7, <2>8
<1> QED BY <1>1, <1>3, IdleFollows

\* Starting a profile, or some of its containers.
LEMMA StartFollows ==
  ASSUME Auxiliary, DoStart PROVE Follows
<1>1. At("start") /\ UNCHANGED <<faults, silent, local, sweep>> /\ Types /\ GoodNet(net)
  BY DEF DoStart, Auxiliary
<1>2. Step.op = "start" /\ Step.arg \in Profiles
  BY <1>1, StepFacts DEF GoodArguments
<1>3. Dirties(Step) = {Step.arg} /\ Cleans(Step) = {}
  BY <1>2 DEF Dirties, Cleans
<1>4. PICK cs \in SUBSET Services(Step.arg) :
        net' = _up_detached(net, cs) /\ (Continue \/ Raise("called"))
  BY DEF DoStart, start_pumba_profile, Begun
<1>5. GoodNet(net') /\ \A x : x # Step.arg /\ Quiet(net, x) => Quiet(net', x)
  BY <1>1, <1>2, <1>4, UpLemma
<1>6. WorldKept(Dirties(Step))
  BY <1>1, <1>3, <1>5 DEF WorldKept, Types, Free
<1>7. Moves /\ UNCHANGED <<script, cleanStart>>
  BY <1>1, <1>3, <1>4, ContinueMoves, RaiseMoves
<1> QED BY <1>1, <1>6, <1>7, NetworkFollows

\* tc qdisc add, on some of the links or on all.
LEMMA DelayFollows ==
  ASSUME Auxiliary, apply_delay PROVE Follows
<1>1. At("applydelay") /\ UNCHANGED <<faults, silent, local, sweep>> /\ Types /\ GoodNet(net)
  BY DEF apply_delay, Auxiliary
<1>2. Step.op = "applydelay" /\ Step = Prog[pc]
  BY <1>1, StepFacts
<1>3. Dirties(Step) = {"tc"} /\ pc + 1 + Step.skip \in Skips(Prog, pc)
  BY <1>2 DEF Dirties, Skips
<1> DEFINE Rules(ts) == [t \in Targets |-> IF t \in ts THEN ByTc ELSE net.qdisc[t]]
<1>4. PICK ts \in SUBSET Node04Links :
        /\ net' = [net EXCEPT !.qdisc = Rules(ts)]
        /\ GoTo(pc + 1 + Step.skip) \/ Raise("called") \/ Raise("timeout")
  BY DEF apply_delay
<1>5. WorldKept(Dirties(Step))
  <2> DEFINE q == Rules(ts)
  <2>1. net.qdisc \in [Targets -> Containers \cup {NoRule, ByTc}]
    BY <1>1, NetFields DEF GoodNet
  <2>2. q \in [Targets -> Containers \cup {NoRule, ByTc}]
        /\ \A t \in Targets : q[t] = IF t \in ts THEN ByTc ELSE net.qdisc[t]
    BY <2>1
  <2>3. net' = [net EXCEPT !.qdisc = q]
    BY <1>4
  <2> HIDE DEF q, Rules
  <2>4. GoodNet(net') /\ \A x : x # "tc" /\ Quiet(net, x) => Quiet(net', x)
    BY <1>1, <2>2, <2>3, DelayLemma
  <2> QED BY <1>1, <1>3, <2>4 DEF WorldKept, Types, Free
<1>6. Moves /\ UNCHANGED <<script, cleanStart>>
  BY <1>1, <1>3, <1>4, SkipMoves, RaiseMoves
<1> QED BY <1>1, <1>5, <1>6, NetworkFollows

\* An unchecked command that may fail unnoticed.
LEMMA UncheckedFollows ==
  ASSUME Auxiliary, NEW op, At(op), op \notin {"record", "reraise"},
         UNCHANGED <<local, sweep>>, WorldKept(Dirties(Step)),
         "oldValidators" \in faults => "oldValidators" \in faults',
         \/ Continue /\ silent' = silent /\ \A x \in Cleans(Step) : Free(x)'
         \/ Continue /\ silent' = TRUE
         \/ Raise("timeout") /\ silent' = silent
  PROVE  Follows
<1>1. Types
  BY DEF Auxiliary
<1>2. Moves /\ UNCHANGED <<script, cleanStart>>
  BY <1>1, ContinueMoves, RaiseMoves
<1>3. silent => silent'
  OBVIOUS
<1> QED BY <1>2, <1>3 DEF Follows, Keeps, Spares, local, sweep

\* An unchecked command that breaks something.
LEMMA BreakFollows ==
  ASSUME Auxiliary, DoBreak PROVE Follows
<1>1. At("break") /\ Types /\ GoodNet(net) /\ Unchecked(BreakFault(Step.arg))
  BY DEF DoBreak, Auxiliary
<1>2. Step.op = "break" /\ Parts(Step.arg) \subseteq FaultNames
  BY <1>1, StepFacts DEF GoodArguments
<1>3. Dirties(Step) = Parts(Step.arg) /\ Cleans(Step) = {}
  BY <1>2 DEF Dirties, Cleans
<1>4. /\ UNCHANGED <<local, sweep>>
      /\ BreakFault(Step.arg) \/ (net' = net /\ faults' = faults)
      /\ \/ Continue /\ silent' = silent
         \/ Continue /\ silent' = TRUE
         \/ Raise("timeout") /\ silent' = silent
  BY <1>1 DEF Unchecked
<1>5. WorldKept(Dirties(Step)) /\ faults \subseteq faults'
  <2>1. CASE BreakFault(Step.arg)
    BY <1>1, <1>2, <1>3, <2>1, BreakWorld DEF BreakFault
  <2>2. CASE net' = net /\ faults' = faults
    BY <1>1, <2>2, SameWorld
  <2> QED BY <1>4, <2>1, <2>2
<1> QED BY <1>1, <1>3, <1>4, <1>5, UncheckedFollows

\* What a heal does, if anything: a step that heals follows its outline.
LEMMA HealedFollows ==
  ASSUME Auxiliary, NEW op \in {"heal", "restore"}, At(op), Unchecked(HealFault(Step.arg))
  PROVE  Follows
<1>1. Types /\ GoodNet(net)
  BY DEF Auxiliary
<1>2. Step.op = op /\ GoodArguments(Step)
  BY <1>1, StepFacts
<1>3. Parts(Step.arg) \subseteq FaultNames \ {"oldValidators"}
  <2>1. CASE op = "heal"
    BY <1>2, <2>1 DEF GoodArguments
  <2>2. CASE op = "restore"
    BY <1>2, <2>2, ItemNames DEF GoodArguments, Parts
  <2> QED BY <2>1, <2>2
<1>4. Cleans(Step) \subseteq Parts(Step.arg)
  BY <1>2 DEF Cleans, Parts, GoodArguments
<1>5. /\ UNCHANGED <<local, sweep>>
      /\ \/ HealFault(Step.arg) /\ Continue /\ silent' = silent
         \/ net' = net /\ faults' = faults /\ Continue /\ silent' = TRUE
         \/ /\ HealFault(Step.arg) \/ (net' = net /\ faults' = faults)
            /\ Raise("timeout") /\ silent' = silent
  BY DEF Unchecked
<1>6. ASSUME HealFault(Step.arg)
      PROVE  /\ WorldKept(Dirties(Step)) /\ \A x \in Cleans(Step) : Free(x)'
             /\ "oldValidators" \in faults => "oldValidators" \in faults'
  BY <1>1, <1>3, <1>4, <1>6, HealWorld DEF HealFault
<1>7. ASSUME net' = net, faults' = faults PROVE WorldKept(Dirties(Step))
  BY <1>1, <1>7, SameWorld
<1>8. /\ WorldKept(Dirties(Step))
      /\ "oldValidators" \in faults => "oldValidators" \in faults'
  BY <1>5, <1>6, <1>7
<1>9. \/ Continue /\ silent' = silent /\ \A x \in Cleans(Step) : Free(x)'
      \/ Continue /\ silent' = TRUE
      \/ Raise("timeout") /\ silent' = silent
  BY <1>5, <1>6
<1> QED BY <1>5, <1>8, <1>9, UncheckedFollows

\* An unchecked command that heals it.
LEMMA HealFollows ==
  ASSUME Auxiliary, DoHeal PROVE Follows
  BY HealedFollows DEF DoHeal

\* The bridge is started at the end of the window: when da_down is false it is up.
LEMMA RestoreFollows ==
  ASSUME Auxiliary, BridgeKnown, Restore PROVE Follows
<1>1. At("restore") /\ Types /\ GoodNet(net)
  BY DEF Restore, Auxiliary
<1>2. Step.op = "restore" /\ Step.arg = "bridge"
  BY <1>1, StepFacts DEF GoodArguments
<1>3. CASE window.down
  BY <1>1, <1>3, HealedFollows DEF Restore
<1>4. CASE ~window.down
  <2>1. Continue /\ UNCHANGED <<faults, silent, local, sweep>> /\ UNCHANGED net
    BY <1>4 DEF Restore, world
  <2>2. ASSUME ~silent, NEW x \in Cleans(Step) PROVE Free(x)'
    <3>1. x = "bridge"
      BY <1>2, <2>2 DEF Cleans
    <3>2. "bridge" \notin faults
      BY <1>1, <1>4, <2>2 DEF BridgeKnown
    <3>3. Quiet(net, "bridge")
      BY <1>1, ItemNames, FaultsAreQuiet
    <3> QED BY <2>1, <3>1, <3>2, <3>3 DEF Free
  <2>3. Moves /\ UNCHANGED <<script, cleanStart>>
    BY <1>1, <2>1, <2>2, ContinueMoves
  <2> QED BY <2>1, <2>3, IdleFollows
<1> QED BY <1>3, <1>4

\* The injectors of S4, started by hand.
LEMMA PartialFollows ==
  ASSUME Auxiliary, start_p2p_eclipse_partial PROVE Follows
<1>1. At("partial") /\ Types /\ GoodNet(net)
  BY DEF start_p2p_eclipse_partial, Auxiliary
<1>2. Step.op = "partial" /\ Step.arg = "p2p_partial"
  BY <1>1, StepFacts DEF GoodArguments
<1>3. Dirties(Step) = {"p2p_partial"} /\ Cleans(Step) = {}
  BY <1>2 DEF Dirties, Cleans
<1>4. /\ UNCHANGED <<local, sweep>> /\ faults' = faults
      /\ net' = start_pumba_profile(net, "p2p_partial") \/ net' = net
      /\ \/ Continue /\ silent' = silent
         \/ Continue /\ silent' = TRUE
         \/ Raise("timeout") /\ silent' = silent
  BY DEF start_p2p_eclipse_partial, Unchecked
<1>5. WorldKept(Dirties(Step))
  <2>1. CASE net' = start_pumba_profile(net, "p2p_partial")
    <3>1. net' = _up_detached(net, Services("p2p_partial"))
      BY <2>1 DEF start_pumba_profile
    <3>2. GoodNet(net') /\ \A x : x # "p2p_partial" /\ Quiet(net, x) => Quiet(net', x)
      BY <1>1, <3>1, UpLemma, ItemNames
    <3> QED BY <1>1, <1>3, <1>4, <3>2 DEF WorldKept, Types, Free
  <2>2. CASE net' = net
    BY <1>1, <1>4, <2>2, SameWorld
  <2> QED BY <1>4, <2>1, <2>2
<1> QED BY <1>1, <1>3, <1>4, <1>5, UncheckedFollows

\* Stopping whatever Pumba containers there are.
LEMMA StopPumbaFollows ==
  ASSUME Auxiliary, cleanup_p2p_eclipse_partial PROVE Follows
<1>1. At("stoppumba") /\ Types /\ GoodNet(net) /\ Quiet(net, "p2p_partial")
  BY DEF cleanup_p2p_eclipse_partial, Auxiliary, ExpiredBeforeStop
<1>2. Step.op = "stoppumba"
  BY <1>1, StepFacts
<1>3. Cleans(Step) = {}
  BY <1>2 DEF Cleans
<1>4. /\ UNCHANGED <<local, sweep>> /\ faults' = faults
      /\ \/ net' = [net EXCEPT !.left = [c \in Containers |->
                     IF ~is_running(net, c) THEN net.left[c]
                     ELSE IF c[1] = "p2p_partial" THEN Missing ELSE 0]]
         \/ net' = net
      /\ \/ Continue /\ silent' = silent
         \/ Continue /\ silent' = TRUE
         \/ Raise("timeout") /\ silent' = silent
  BY DEF cleanup_p2p_eclipse_partial, Unchecked
<1>5. GoodNet(net') /\ \A x : Quiet(net, x) => Quiet(net', x)
  BY <1>1, <1>4, StopPumbaLemma
<1>6. WorldKept(Dirties(Step))
  BY <1>1, <1>4, <1>5 DEF WorldKept, Types, Free
<1> QED BY <1>1, <1>3, <1>4, <1>6, UncheckedFollows

\* tc qdisc del on the links.
LEMMA ClearDelayFollows ==
  ASSUME Auxiliary, clear_delay PROVE Follows
<1>1. At("cleardelay") /\ Types /\ GoodNet(net)
  BY DEF clear_delay, Auxiliary
<1>2. Step.op = "cleardelay"
  BY <1>1, StepFacts
<1>3. Cleans(Step) = {"tc"}
  BY <1>2 DEF Cleans
<1> DEFINE e == _clear_netem_qdisc(net, Node04Links)
<1>4. /\ UNCHANGED <<local, sweep>> /\ faults' = faults
      /\ \/ net' = e /\ Continue /\ silent' = silent
         \/ net' = net /\ Continue /\ silent' = TRUE
         \/ (net' = e \/ net' = net) /\ Raise("timeout") /\ silent' = silent
  BY DEF clear_delay, Unchecked
<1>5. /\ GoodNet(e) /\ \A x : x # "none" /\ Quiet(net, x) => Quiet(e, x)
      /\ e.left = net.left
      /\ \A t \in Targets : e.qdisc[t] = IF t \in Node04Links THEN NoRule ELSE net.qdisc[t]
  BY <1>1, ClearLemma
<1> HIDE DEF e
<1>6. WorldKept(Dirties(Step))
  <2>1. CASE net' = e
    BY <1>1, <1>4, <1>5, <2>1, ItemNames DEF WorldKept, Types, Free
  <2>2. CASE net' = net
    BY <1>1, <1>4, <2>2, SameWorld
  <2> QED BY <1>4, <2>1, <2>2
<1>7. ASSUME net' = e PROVE Free("tc")'
  <2>1. ASSUME NEW t \in Targets PROVE e.qdisc[t][1] # "tc"
    <3>1. net.qdisc[t] \in Containers \cup {NoRule, ByTc}
          /\ (net.qdisc[t] = ByTc => t \in Node04Links)
      BY <1>1 DEF GoodNet, Nets
    <3> QED BY <1>5, <3>1, OtherRules, ContainerTargets
  <2>2. ASSUME NEW c \in Containers PROVE c[1] # "tc"
    BY OtherRules, ContainerTargets
  <2>3. "tc" \notin faults
    BY <1>1, ItemNames DEF Types, NetItems
  <2> QED BY <1>4, <1>7, <2>1, <2>2, <2>3 DEF Free, Quiet
<1>8. \/ Continue /\ silent' = silent /\ \A x \in Cleans(Step) : Free(x)'
      \/ Continue /\ silent' = TRUE
      \/ Raise("timeout") /\ silent' = silent
  BY <1>3, <1>4, <1>7
<1> QED BY <1>1, <1>4, <1>6, <1>8, UncheckedFollows

\* A cleanup of a profile, or what a part of it leaves.
LEMMA CleanupFollows ==
  ASSUME Auxiliary, DoCleanup PROVE Follows
<1> DEFINE p  == Step.arg
           ts == PROFILE_TO_NETEM_TARGETS[p]
           Cleared(some) == _clear_netem_qdisc(StopAndRemove(net, Services(p)), some)
<1>1. At("cleanup") /\ Types /\ GoodNet(net) /\ faults' = faults /\ UNCHANGED <<local, sweep>>
  BY DEF DoCleanup, Auxiliary
<1>2. Step.op = "cleanup" /\ p \in Profiles /\ p # "p2p_partial"
  BY <1>1, StepFacts DEF GoodArguments
<1>3. Cleans(Step) = {p}
  BY <1>2 DEF Cleans
<1>4. ASSUME NEW some, net' = Cleared(some)
      PROVE  /\ GoodNet(net') /\ \A x : x # "none" /\ Quiet(net, x) => Quiet(net', x)
             /\ some = ts => Quiet(net', p)
  BY <1>1, <1>2, <1>4, CleanupLemma
<1>5. ASSUME net' = _clear_netem_qdisc(net, ts)
      PROVE  GoodNet(net') /\ \A x : x # "none" /\ Quiet(net, x) => Quiet(net', x)
  BY <1>1, <1>5, ClearLemma
<1>6. \/ net' = Cleared(ts) /\ Continue /\ silent' = silent
      \/ net' = _clear_netem_qdisc(net, ts) /\ Continue /\ silent' = TRUE
      \/ \E some : /\ net' = Cleared(some)
                   /\ \/ Continue /\ silent' = TRUE
                      \/ Raise("timeout") /\ silent' = silent
  BY DEF DoCleanup, cleanup_profile
<1> HIDE DEF p, ts, Cleared
<1>7. WorldKept(Dirties(Step))
  BY <1>1, <1>4, <1>5, <1>6, ItemNames DEF WorldKept, Types, Free
<1>8. ASSUME net' = Cleared(ts) PROVE \A x \in Cleans(Step) : Free(x)'
  <2>1. p \notin faults
    BY <1>1, <1>2, ItemNames DEF Types, NetItems
  <2> QED BY <1>1, <1>3, <1>4, <1>8, <2>1 DEF Free
<1>9. \/ Continue /\ silent' = silent /\ \A x \in Cleans(Step) : Free(x)'
      \/ Continue /\ silent' = TRUE
      \/ Raise("timeout") /\ silent' = silent
  BY <1>6, <1>8
<1> QED BY <1>1, <1>7, <1>9, UncheckedFollows

\* A checked command and its retries.
LEMMA CheckedFollows ==
  ASSUME Auxiliary, DoChecked PROVE Follows
<1>1. At("checked") /\ Types /\ GoodNet(net) /\ UNCHANGED <<silent, window, sweep>>
  BY DEF DoChecked, Auxiliary
<1>2. Step.op = "checked" /\ Parts(Step.arg) \subseteq FaultNames
  BY <1>1, StepFacts DEF GoodArguments
<1>3. Dirties(Step) = Parts(Step.arg) /\ Cleans(Step) = {}
  BY <1>2 DEF Dirties, Cleans
<1>4. /\ BreakFault(Step.arg) \/ (net' = net /\ faults' = faults)
      /\ Continue \/ GoTo(pc) \/ Raise("called") \/ Raise("timeout")
  BY DEF DoChecked
<1>5. WorldKept(Dirties(Step)) /\ faults \subseteq faults'
  <2>1. CASE BreakFault(Step.arg)
    BY <1>1, <1>2, <1>3, <2>1, BreakWorld DEF BreakFault
  <2>2. CASE net' = net /\ faults' = faults
    BY <1>1, <2>2, SameWorld
  <2> QED BY <1>4, <2>1, <2>2
<1>6. Moves /\ UNCHANGED <<script, cleanStart>>
  BY <1>1, <1>3, <1>4, ContinueMoves, LoopMoves, RaiseMoves
<1> QED BY <1>1, <1>5, <1>6 DEF Follows, Keeps, Spares, sweep

\* A local node is started.
LEMMA SpawnFollows ==
  ASSUME Auxiliary, start_node PROVE Follows
<1>1. At("spawn") /\ Types /\ GoodNet(net) /\ UNCHANGED <<net, silent, local, sweep>>
  BY DEF start_node, Auxiliary
<1>2. Step.op = "spawn" /\ Step.arg \in FaultNames
  BY <1>1, StepFacts, ItemNames DEF GoodArguments
<1>3. Dirties(Step) = {Step.arg} /\ Cleans(Step) = {}
  BY <1>2 DEF Dirties, Cleans
<1>4. /\ faults' \in {faults, faults \cup {Step.arg}}
      /\ Continue \/ Raise("os")
  BY DEF start_node
<1>5. WorldKept(Dirties(Step))
  BY <1>1, <1>2, <1>3, <1>4 DEF WorldKept, Types, Free
<1>6. Moves /\ UNCHANGED <<script, cleanStart>>
  BY <1>1, <1>3, <1>4, ContinueMoves, RaiseMoves
<1> QED BY <1>1, <1>4, <1>5, <1>6 DEF Follows, Keeps, Spares, local, sweep

\* The local nodes are stopped.
LEMMA StopProcessesFollows ==
  ASSUME Auxiliary, StopProcesses PROVE Follows
<1>1. At("stopprocs") /\ Types /\ GoodNet(net) /\ UNCHANGED <<net, silent, local, sweep>>
      /\ Continue /\ faults' = faults \ LocalNodes
  BY DEF StopProcesses, Auxiliary, LocalNodes
<1>2. Step.op = "stopprocs"
  BY <1>1, StepFacts
<1>3. Cleans(Step) = LocalNodes
  BY <1>2 DEF Cleans
<1>4. WorldKept(Dirties(Step))
  BY <1>1 DEF WorldKept, Types, Free
<1>5. ASSUME NEW x \in Cleans(Step) PROVE Free(x)'
  <2>1. Quiet(net, x)
    BY <1>1, <1>3, <1>5, ItemNames, FaultsAreQuiet
  <2> QED BY <1>1, <1>3, <1>5, <2>1 DEF Free
<1>6. Moves /\ UNCHANGED <<script, cleanStart>>
  BY <1>1, <1>5, ContinueMoves
<1>7. "oldValidators" \notin LocalNodes
  BY DEF LocalNodes
<1> QED BY <1>1, <1>4, <1>6, <1>7 DEF Follows, Keeps, Spares, local, sweep

\* The measurement window opens, ...
LEMMA OpenFollows ==
  ASSUME Auxiliary, OpenWindow PROVE Follows
<1>1. At("open") /\ Types /\ GoodNet(net) /\ UNCHANGED <<net, faults, silent, sweep>> /\ Continue
  BY DEF OpenWindow, Auxiliary, world
<1>2. Step.op = "open"
  BY <1>1, StepFacts
<1>3. Moves /\ UNCHANGED <<script, cleanStart>>
  BY <1>1, <1>2, ContinueMoves DEF Cleans
<1>4. WorldKept(Dirties(Step))
  BY <1>1, SameWorld
<1> QED BY <1>1, <1>2, <1>3, <1>4 DEF Follows, Keeps, Spares, sweep

\* ... each round may toggle the bridge, ...
LEMMA RoundFollows ==
  ASSUME Auxiliary, WindowRound PROVE Follows
<1> DEFINE toggles == Step.arg.on > 0 /\ window.next = 0
<1>1. At("round") /\ Types /\ GoodNet(net) /\ Rounds > 0 /\ UNCHANGED sweep
  BY DEF WindowRound, RoundTaking, Auxiliary, WindowOpen
<1>2. Step.op = "round"
  BY <1>1, StepFacts
<1>3. Dirties(Step) = IF Step.arg.on > 0 THEN {"bridge"} ELSE {}
  BY <1>1, <1>2 DEF Dirties
<1>4. /\ \/ faults' = faults
         \/ toggles /\ faults' = faults \cup {"bridge"}
         \/ toggles /\ faults' = faults \ {"bridge"}
      /\ net' = net \/ Pass(1)
      /\ silent' = silent \/ silent' = TRUE
      /\ Raise("http") \/ Raise("timeout") \/ GoTo(pc)
  BY DEF WindowRound, RoundTaking, world
<1>5. GoodNet(net') /\ \A x : x # "none" /\ Quiet(net, x) => Quiet(net', x)
  BY <1>1, <1>4, ElapseLemma DEF Pass
<1>6. WorldKept(Dirties(Step))
  BY <1>1, <1>3, <1>4, <1>5, ItemNames DEF WorldKept, Types, Free
<1>7. Moves /\ UNCHANGED <<script, cleanStart>>
  BY <1>1, <1>4, LoopMoves, RaiseMoves
<1>8. "oldValidators" \in faults => "oldValidators" \in faults'
  BY <1>4
<1> QED BY <1>1, <1>2, <1>4, <1>6, <1>7, <1>8 DEF Follows, Keeps, Spares, sweep

\* ... and it closes.
LEMMA CloseFollows ==
  ASSUME Auxiliary, CloseWindow PROVE Follows
<1>1. At("round") /\ Types /\ UNCHANGED <<faults, silent, local, sweep>> /\ UNCHANGED net
      /\ Continue
  BY DEF CloseWindow, Auxiliary, world
<1> QED BY <1>1, StepFacts, ContinueMoves, IdleFollows DEF Cleans

\* .env is rewritten.
LEMMA SetEnvFollows ==
  ASSUME Auxiliary, set_env_param PROVE Follows
<1>1. At("setenv") /\ Types /\ GoodNet(net) /\ UNCHANGED <<net, faults, silent, local, deployed, result>>
      /\ (Continue \/ Raise("runtime"))
  BY DEF set_env_param, Auxiliary, world
<1>2. Step.op = "setenv"
  BY <1>1, StepFacts
<1>3. Moves /\ UNCHANGED <<script, cleanStart>>
  BY <1>1, <1>2, ContinueMoves, RaiseMoves DEF Cleans
<1>4. WorldKept(Dirties(Step))
  BY <1>1, SameWorld
<1> QED BY <1>1, <1>2, <1>3, <1>4 DEF Follows, Keeps, Spares, local

\* The testnet is redeployed, on the old validators perhaps, or not at all.
LEMMA RedeployFollows ==
  ASSUME Auxiliary, redeploy PROVE Follows
<1>1. At("redeploy") /\ Types /\ GoodNet(net) /\ UNCHANGED <<local, envfile, result>>
  BY DEF redeploy, Auxiliary
<1>2. Step.op = "redeploy"
  BY <1>1, StepFacts
<1>3. Dirties(Step) = {"validators", "oldValidators"}
      /\ Cleans(Step) = {"bridge", "validators", "oldValidators"}
  BY <1>2 DEF Dirties, Cleans
<1> DEFINE fresh == Recreated(net, Validators \cup Links)
<1>4. \/ /\ faults' = faults \ {"bridge", "validators", "oldValidators"}
         /\ net' = Elapse(fresh, 24) /\ Continue /\ silent' = silent
      \/ /\ faults' = (faults \ {"bridge"}) \cup {"oldValidators"}
         /\ net' = Elapse(net, 24) /\ Continue /\ silent' = TRUE
      \/ /\ faults' = faults \cup {"validators"}
         /\ net' = fresh /\ Raise("called") /\ silent' = silent
  BY DEF redeploy, Pass
<1>5. GoodNet(fresh) /\ \A x : x # "none" /\ Quiet(net, x) => Quiet(fresh, x)
  BY <1>1, ClearLemma DEF Recreated
<1> HIDE DEF fresh
<1>6. GoodNet(net') /\ \A x : x # "none" /\ Quiet(net, x) => Quiet(net', x)
  BY <1>1, <1>4, <1>5, ElapseLemma
<1>7. WorldKept(Dirties(Step))
  BY <1>1, <1>3, <1>4, <1>6, ItemNames DEF WorldKept, Types, Free
<1>8. ASSUME faults' = faults \ {"bridge", "validators", "oldValidators"}
      PROVE  \A x \in Cleans(Step) : Free(x)'
  BY <1>3, <1>6, <1>8, ItemNames, FaultsAreQuiet DEF Free
<1>9. Moves /\ UNCHANGED <<script, cleanStart>>
  BY <1>1, <1>4, <1>8, ContinueMoves, RaiseMoves
<1>10. silent => silent'
  BY <1>4
<1> QED BY <1>1, <1>2, <1>7, <1>9, <1>10 DEF Follows, Keeps, Spares, local

\* The measurement starts, or is skipped.
LEMMA HealthyFollows ==
  ASSUME Auxiliary, Healthy PROVE Follows
<1>1. At("healthy") /\ Types /\ GoodNet(net)
      /\ UNCHANGED <<faults, silent, local, envfile, deployed>>
  BY DEF Healthy, Auxiliary
<1>2. Step.op = "healthy" /\ Step = Prog[pc]
  BY <1>1, StepFacts
<1>3. 1 + FirstAt(Prog, pc + 1, "record") \in Skips(Prog, pc) /\ Cleans(Step) = {}
  BY <1>2 DEF Skips, Cleans
<1>4. /\ Pass(2) \/ Pass(300) \/ Pass(0)
      /\ result' = result \/ result' = Entry("SKIPPED")
      /\ Continue \/ GoTo(1 + FirstAt(Prog, pc + 1, "record")) \/ Raise("http")
  BY DEF Healthy, Prog
<1>5. Moves /\ UNCHANGED <<script, cleanStart>>
  BY <1>1, <1>3, <1>4, ContinueMoves, SkipMoves, RaiseMoves
<1>6. WorldKept(Dirties(Step))
  BY <1>1, <1>4, PassWorld
<1>7. Entry("SKIPPED").st # "OK"
  BY DEF Entry
<1> QED BY <1>1, <1>4, <1>5, <1>6, <1>7 DEF Follows, Keeps, Spares, local

\* The measurement is recorded; a failed one counts as passed over.
LEMMA RecordFollows ==
  ASSUME Auxiliary, RecordResult PROVE Follows
<1>1. At("record") /\ Types /\ GoodNet(net) /\ UNCHANGED <<net, faults, local, envfile, deployed>>
  BY DEF RecordResult, Auxiliary
<1>2. Step.op = "record" /\ status = "running"
  BY <1>1, StepFacts
<1>3. pc' = pc + 1 /\ exc' = "none" /\ UNCHANGED <<script, status, cleanStart>>
      /\ (silent \/ exc # "none" => silent')
  BY DEF RecordResult
<1>4. WorldKept(Dirties(Step))
  BY <1>1, SameWorld
<1>5. Cleans(Step) = {} /\ (exc = "none" => Passes(Prog, pc, Mode))
  BY <1>2 DEF Cleans, Passes, Mode
<1>6. Advances
  BY <1>2, <1>3, <1>5 DEF Advances
<1> QED BY <1>1, <1>2, <1>3, <1>4, <1>6 DEF Follows, Keeps, Spares, Moves, local

-----------------------------------------------------------------------------
(* What some of the steps have done when the next one is reached *)

\* The script goes on to the step below and no jump has led there.
Arrives == status' = "running" /\ pc' # pc /\ pc' \notin Jumps(Prog, pc)

Delivers ==
  /\ window'.down \in BOOLEAN /\ envfile' \in [Edges -> Nat]
  /\ Step.op = "poll" /\ Arrives /\ Step.n >= Duration["p2p_partial"] =>
       Quiet(net', "p2p_partial")
  /\ Step.op = "start" => \/ net' = start_pumba_profile(net, Step.arg)
                          \/ pc' = pc \/ pc' \in Handlers(Prog, pc)
  /\ Step.op = "open" => /\ faults' = faults
                         /\ window' = [left |-> Step.n, next |-> 0, down |-> Step.arg]
  /\ Step.op = "round" /\ Arrives =>
       window.left = 0 /\ faults' = faults /\ window' = window /\ silent' = silent
  /\ Step.op = "round" /\ status' = "running" /\ pc' = pc =>
       /\ Rounds > 0
       /\ ~silent' => ("bridge" \in faults' => window'.down)
  /\ Step.op = "setenv" /\ Arrives => envfile'[Step.arg] = Step.n
  /\ Step.op = "redeploy" /\ Arrives => deployed' = envfile \/ "oldValidators" \in faults'
  /\ Step.op = "record" => \E st : result' = Entry(st)

\* Where an exception leads.
LEMMA RaiseGoes ==
  ASSUME Types, NEW op, At(op), NEW kind, Raise(kind)
  PROVE  /\ ~Arrives
         /\ \/ pc' = pc /\ status' = "aborted"
            \/ pc' \in Handlers(Prog, pc)
<1>1. CASE Catches(Step.h, kind)
  <2>1. Step.h \in {"finally", "record", "cleardelay"}
    BY <1>1 DEF Catches
  <2>2. pc' = FirstAt(Program[script], pc + 1, Step.h)
    BY <1>1 DEF Raise
  <2>3. pc' \in Handlers(Prog, pc)
    BY <2>1, <2>2 DEF Handlers, Prog, Step
  <2> QED BY <2>3 DEF Arrives, Jumps
<1>2. CASE ~Catches(Step.h, kind)
  BY <1>2 DEF Raise, End, Arrives
<1> QED BY <1>1, <1>2

OrdinaryStep ==
  \/ DoSleep \/ DoWait \/ DoGuard \/ DoUntil \/ DoDockerWait
  \/ DoCleanup \/ DoBreak \/ DoHeal \/ DoChecked
  \/ start_p2p_eclipse_partial \/ cleanup_p2p_eclipse_partial
  \/ Restore \/ DoFinally \/ DoReraise \/ DoDrive \/ DoExit1 \/ Healthy
  \/ pairwise_link_interfaces \/ apply_delay \/ clear_delay
  \/ init_home \/ start_node \/ run_load_phase \/ StopProcesses
  \/ DoQuery \/ DoRaise \/ Verdict

OtherOps == {"sleep", "wait", "guard", "until", "dockerwait", "cleanup", "break",
             "heal", "checked", "partial", "stoppumba", "restore", "finally", "reraise",
             "drive", "exit1", "healthy", "ifaces", "applydelay", "cleardelay", "setup",
             "spawn", "load", "stopprocs", "query", "raise", "verdict"}

\* The ordinary steps are told apart from the others by their ops.
LEMMA OrdinaryOps ==
  ASSUME OrdinaryStep PROVE \E op \in OtherOps : At(op)
<1> USE DEF OtherOps
<1>1. CASE DoSleep \/ DoWait \/ DoGuard \/ DoUntil \/ DoDockerWait
  BY <1>1 DEF DoSleep, DoWait, DoGuard, DoUntil, DoDockerWait
<1>2. CASE DoCleanup \/ DoBreak \/ DoHeal \/ DoChecked
  BY <1>2 DEF DoCleanup, DoBreak, DoHeal, DoChecked
<1>3. CASE start_p2p_eclipse_partial \/ cleanup_p2p_eclipse_partial \/ Restore
  BY <1>3 DEF start_p2p_eclipse_partial, cleanup_p2p_eclipse_partial, Restore
<1>4. CASE DoFinally \/ DoReraise \/ DoDrive \/ DoExit1 \/ Healthy
  BY <1>4 DEF DoFinally, DoReraise, DoDrive, DoExit1, Healthy
<1>5. CASE pairwise_link_interfaces \/ apply_delay \/ clear_delay \/ init_home
  BY <1>5 DEF pairwise_link_interfaces, apply_delay, clear_delay, init_home
<1>6. CASE start_node \/ run_load_phase \/ StopProcesses
  BY <1>6 DEF start_node, run_load_phase, StopProcesses
<1>7. CASE DoQuery \/ DoRaise \/ Verdict
  BY <1>7 DEF DoQuery, DoRaise, Verdict
<1> QED BY <1>1, <1>2, <1>3, <1>4, <1>5, <1>6, <1>7 DEF OrdinaryStep

\* They follow the outline.
LEMMA OrdinaryFollows ==
  ASSUME Auxiliary, BridgeKnown, OrdinaryStep PROVE Follows
  BY SleepFollows, WaitFollows, GuardFollows, UntilFollows, DockerWaitFollows,
     CleanupFollows, BreakFollows, HealFollows, CheckedFollows, PartialFollows,
     StopPumbaFollows, RestoreFollows, ControlFollows, DriveFollows, HealthyFollows,
     DelayFollows, ClearDelayFollows, SpawnFollows, LoadFollows, StopProcessesFollows
  DEF OrdinaryStep

\* Every step of a script follows its outline and delivers.
LEMMA StepLemma ==
  ASSUME Auxiliary, BridgeKnown, ScriptStep, ~Finish
  PROVE  Follows /\ Delivers /\ \E op : At(op)
<1>1. Types /\ GoodNet(net)
  BY DEF Auxiliary
<1>2. CASE OrdinaryStep
  <2>1. PICK op \in OtherOps : At(op)
    BY <1>2, OrdinaryOps
  <2>2. Follows
    BY <1>2, OrdinaryFollows
  <2>3. Step.op \in OtherOps
    BY <1>1, <2>1, StepFacts
  <2>4. window' = window /\ envfile' = envfile
    BY <2>2, <2>3 DEF Follows, Spares, OtherOps
  <2>5. Delivers
    BY <1>1, <2>3, <2>4 DEF Delivers, Types, OtherOps
  <2> QED BY <2>1, <2>2, <2>5
<1>3. CASE DoPoll
  <2>1. At("poll") /\ UNCHANGED <<window, envfile>>
    BY <1>3 DEF DoPoll, local, sweep
  <2>2. Step.op = "poll" /\ Step.n \in Nat
    BY <1>1, <2>1, StepFacts DEF GoodArguments
  <2>3. ASSUME Arrives, Step.n >= Duration["p2p_partial"] PROVE Quiet(net', "p2p_partial")
    <3>1. ~Raise("http")
      BY <1>1, <2>1, <2>3, RaiseGoes
    <3>2. PICK slip \in 0 .. PollSlip : Pass(Step.n + slip)
      BY <1>3, <3>1 DEF DoPoll
    <3>3. Step.n + slip \in Nat /\ Step.n + slip >= Duration["p2p_partial"]
      BY <2>2, <2>3, <3>2, ConstantsOK, Durations
    <3> QED BY <1>1, <3>2, <3>3, ElapseLemma DEF Pass
  <2>4. Delivers
    BY <1>1, <2>1, <2>2, <2>3 DEF Delivers, Types
  <2> QED BY <1>3, <2>1, <2>4, PollFollows
<1>4. CASE DoStart
  <2>1. At("start") /\ UNCHANGED <<window, envfile>>
    BY <1>4 DEF DoStart, local, sweep
  <2>2. Step.op = "start"
    BY <1>1, <2>1, StepFacts
  <2>3. net' = start_pumba_profile(net, Step.arg) \/ Raise("called")
    BY <1>4 DEF DoStart
  <2>4. Delivers
    BY <1>1, <2>1, <2>2, <2>3, RaiseGoes DEF Delivers, Types
  <2> QED BY <1>4, <2>1, <2>4, StartFollows
<1>5. CASE OpenWindow
  <2>1. /\ At("open") /\ UNCHANGED <<faults, envfile>>
        /\ window' = [left |-> Step.n, next |-> 0, down |-> Step.arg]
    BY <1>5 DEF OpenWindow, world, sweep
  <2>2. Step.op = "open" /\ Step.arg \in BOOLEAN
    BY <1>1, <2>1, StepFacts DEF GoodArguments
  <2>3. window'.down \in BOOLEAN
    BY <2>1, <2>2
  <2>4. Delivers
    BY <1>1, <2>1, <2>2, <2>3 DEF Delivers, Types
  <2> QED BY <1>5, <2>1, <2>4, OpenFollows
<1>6. CASE WindowRound
  <2> DEFINE toggles == Step.arg.on > 0 /\ window.next = 0
  <2>1. At("round") /\ Rounds > 0 /\ UNCHANGED envfile
    BY <1>6 DEF WindowRound, RoundTaking, Auxiliary, WindowOpen, sweep
  <2>2. Step.op = "round" /\ status = "running"
    BY <1>1, <2>1, StepFacts
  <2>3. \/ (Raise("http") \/ Raise("timeout")) /\ window' = window
        \/ /\ GoTo(pc)
           /\ window'.down = IF toggles THEN ~window.down ELSE window.down
           /\ \/ ~toggles /\ faults' = faults /\ silent' = silent
              \/ /\ toggles /\ silent' = silent
                 /\ faults' = IF window.down THEN faults \ {"bridge"} ELSE faults \cup {"bridge"}
              \/ silent' = TRUE
    BY <1>6 DEF WindowRound, RoundTaking, world
  <2>4. ~Arrives
    BY <1>1, <2>1, <2>3, RaiseGoes DEF Arrives, GoTo
  <2>5. window'.down \in BOOLEAN
    <3>1. window.down \in BOOLEAN
      BY <1>1 DEF Types
    <3> QED BY <2>3, <3>1
  <2>6. ASSUME status' = "running", pc' = pc, ~silent', "bridge" \in faults'
        PROVE  window'.down
    <3>1. pc \notin Handlers(Prog, pc)
      BY <1>1, <2>1, StepFacts, ScriptFacts DEF GoodProgram, Jumps
    <3>2. ~Raise("http") /\ ~Raise("timeout")
      BY <1>1, <2>1, <2>6, <3>1, RaiseGoes
    <3>3. CASE ~toggles /\ faults' = faults /\ silent' = silent
      BY <2>1, <2>3, <2>6, <3>2, <3>3 DEF BridgeKnown
    <3>4. CASE toggles /\ faults' = IF window.down THEN faults \ {"bridge"}
                                                   ELSE faults \cup {"bridge"}
      <4>1. ~window.down
        BY <2>6, <3>4
      <4> QED BY <2>3, <3>2, <3>4, <4>1
    <3> QED BY <2>3, <2>6, <3>2, <3>3, <3>4
  <2>7. Delivers
    BY <1>1, <2>1, <2>2, <2>4, <2>5, <2>6 DEF Delivers, Types
  <2> QED BY <1>6, <2>1, <2>7, RoundFollows
<1>7. CASE CloseWindow
  <2>1. /\ At("round") /\ window.left = 0 /\ Continue
        /\ UNCHANGED <<faults, silent, window, envfile>>
    BY <1>7 DEF CloseWindow, world, local, sweep
  <2>2. Step.op = "round" /\ pc' # pc
    BY <1>1, <2>1, StepFacts, ScriptFacts DEF Continue, GoTo
  <2>3. Delivers
    BY <1>1, <2>1, <2>2 DEF Delivers, Types
  <2> QED BY <1>7, <2>1, <2>3, CloseFollows
<1>8. CASE set_env_param
  <2>1. /\ At("setenv") /\ UNCHANGED window
        /\ \/ envfile' = [envfile EXCEPT ![Step.arg] = Step.n]
           \/ envfile' = envfile /\ Raise("runtime")
    BY <1>8 DEF set_env_param, local
  <2>2. Step.op = "setenv" /\ Step.arg \in Edges /\ Step.n \in Nat
    BY <1>1, <2>1, StepFacts DEF GoodArguments
  <2>3. envfile' \in [Edges -> Nat] /\ (Arrives => envfile'[Step.arg] = Step.n)
    BY <1>1, <2>1, <2>2, RaiseGoes DEF Types
  <2>4. Delivers
    BY <1>1, <2>1, <2>2, <2>3 DEF Delivers, Types
  <2> QED BY <1>8, <2>1, <2>4, SetEnvFollows
<1>9. CASE redeploy
  <2>1. /\ At("redeploy") /\ UNCHANGED <<window, envfile>>
        /\ deployed' = envfile \/ "oldValidators" \in faults' \/ Raise("called")
    BY <1>9 DEF redeploy, local
  <2>2. Step.op = "redeploy"
    BY <1>1, <2>1, StepFacts
  <2>3. Delivers
    BY <1>1, <2>1, <2>2, RaiseGoes DEF Delivers, Types
  <2> QED BY <1>9, <2>1, <2>3, RedeployFollows
<1>10. CASE RecordResult
  <2>1. /\ At("record") /\ UNCHANGED <<window, envfile>>
        /\ \E st : result' = Entry(st)
    BY <1>10 DEF RecordResult, local
  <2>2. Step.op = "record"
    BY <1>1, <2>1, StepFacts
  <2>3. Delivers
    BY <1>1, <2>1, <2>2 DEF Delivers, Types
  <2> QED BY <1>10, <2>1, <2>3, RecordFollows
<1> QED BY <1>2, <1>3, <1>4, <1>5, <1>6, <1>7, <1>8, <1>9, <1>10
        DEF ScriptStep, OrdinaryStep

-----------------------------------------------------------------------------
(* The invariant is kept *)

\* What the outline of the script that is run says.
LEMMA OutlineFacts ==
  ASSUME Auxiliary
  PROVE  /\ Found \in StartsOf(script)
         /\ GoodLabels(Prog, Known[script][Found])
         /\ GoodEnds(Prog, Found, Known[script][Found])
         /\ Known[script][Found][1]["normal"] \subseteq
              (IF Found = "clean" THEN Items ELSE Items \ Footprint(script))
<1>1. Found \in StartsOf(script)
  BY DEF Auxiliary, FirstRunIsClean, Found, StartsOf, Starts
<1>2. Outlined(script)
  BY ScriptFacts DEF Auxiliary
<1> QED BY <1>1, <1>2 DEF Outlined, Prog

\* If nothing is in force the testnet is clean.
LEMMA FreeIsClean ==
  ASSUME Types, GoodNet(net), \A x \in Items : Free(x)
  PROVE  Clean
<1>1. NetClean(net)
  BY QuietIsClean, ItemNames DEF Free
<1>2. faults = {}
  BY ItemNames DEF Types, Free
<1> QED BY <1>1, <1>2 DEF Clean

\* Types, the good shape of the network, and the script.
LEMMA TypesKept ==
  ASSUME Auxiliary, NEW op, At(op), Follows, Delivers
  PROVE  Types' /\ GoodNet(net)' /\ FirstRunIsClean' /\ Prog' = Prog
<1>1. Types /\ pc \in DOMAIN Prog /\ GoodProgram(Prog)
  BY StepFacts, ScriptFacts DEF Auxiliary
<1>2. Len(Prog) \in Nat /\ DOMAIN Prog = 1 .. Len(Prog)
      /\ Jumps(Prog, pc) \subseteq pc + 1 .. Len(Prog) + 1
  BY <1>1 DEF GoodProgram
<1>3. Prog' = Prog /\ script' = script /\ cleanStart' = cleanStart
  BY DEF Follows, Keeps, Prog
<1>4. status' \in {"running", "aborted", "exit1"}
  BY DEF Follows, Moves, Advances, Skipping, Staying, Handled, Aborts, GivesUp
<1>5. pc' \in 1 .. Len(Prog) + 1
  BY <1>1, <1>2
     DEF Follows, Moves, Advances, Skipping, Staying, Handled, Aborts, GivesUp, Jumps
<1>6. GoodNet(net') /\ faults' \subseteq FaultNames
  BY DEF Follows, Keeps, WorldKept
<1>7. Types'
  BY <1>1, <1>3, <1>4, <1>5, <1>6 DEF Types, Delivers
<1> QED BY <1>3, <1>6, <1>7 DEF Auxiliary, FirstRunIsClean

\* What no step of the script does stays undone.
LEMMA NeverKept ==
  ASSUME Auxiliary, NEW op, At(op), Follows
  PROVE  Never'
<1>1. Types /\ Never
  BY DEF Auxiliary
<1>2. pc \in DOMAIN Program[script] /\ Step = Program[script][pc]
  BY <1>1, StepFacts DEF Prog
<1>3. Dirties(Step) \subseteq Footprint(script)
  BY <1>2 DEF Footprint
<1>4. script' = script /\ \A x \in Items \ Dirties(Step) : Free(x) => Free(x)'
  BY DEF Follows, Keeps, WorldKept
<1> QED BY <1>1, <1>3, <1>4 DEF Never

\* The labels of the outline are kept along every way a step may go.
LEMMA SettledKept ==
  ASSUME Auxiliary, Settled, NEW op, At(op), Follows
  PROVE  Settled'
<1> SUFFICES ASSUME status' = "running", ~silent',
                    NEW x \in Items, x \in Outline(pc, Mode)'
             PROVE  Free(x)'
  BY DEF Settled
<1> DEFINE lab == Known[script][Found]
<1>1. Types /\ pc \in DOMAIN Prog /\ status = "running" /\ Step = Prog[pc] /\ pc \in Nat
  BY StepFacts, ScriptFacts DEF Auxiliary
<1>2. ~silent /\ script' = script /\ cleanStart' = cleanStart
      /\ \A y \in Items \ Dirties(Step) : Free(y) => Free(y)'
  BY DEF Follows, Keeps, WorldKept
<1>3. \A y \in Items : y \in lab[pc][Mode] => Free(y)
  BY <1>1, <1>2 DEF Settled, Outline
<1>4. x \in lab[pc'][Mode']
  BY <1>2 DEF Outline, Found
<1>5. GoodLabels(Prog, lab)
  BY OutlineFacts
<1>6. Mode \in Modes
  BY DEF Mode, Modes
<1> HIDE DEF lab
<1>7. /\ Passes(Prog, pc, Mode) =>
           lab[pc + 1][Mode] \subseteq Kept(Prog, lab, pc, Mode) \cup Cleans(Step)
      /\ Loops(Step) => lab[pc][Mode] \cap Dirties(Step) = {}
      /\ \A j \in Skips(Prog, pc) : lab[j][Mode] \subseteq Kept(Prog, lab, pc, Mode)
      /\ \A j \in Handlers(Prog, pc) :
           lab[j]["handling"] \subseteq Kept(Prog, lab, pc, Mode)
  BY <1>1, <1>5, <1>6 DEF GoodLabels
<1>8. x \in Kept(Prog, lab, pc, Mode) => Free(x)'
  BY <1>1, <1>2, <1>3 DEF Kept
<1>9. CASE Advances
  <2>1. pc' = pc + 1 /\ exc' = exc /\ Passes(Prog, pc, Mode)
        /\ \A y \in Cleans(Step) : Free(y)'
    BY <1>9 DEF Advances
  <2>2. Mode' = Mode
    BY <2>1 DEF Mode
  <2> QED BY <1>4, <1>7, <1>8, <2>1, <2>2
<1>10. CASE Skipping
  <2>1. pc' \in Skips(Prog, pc) /\ Mode' = Mode
    BY <1>10 DEF Skipping, Mode
  <2> QED BY <1>4, <1>7, <1>8, <2>1
<1>11. CASE Staying
  <2>1. pc' = pc /\ Loops(Step) /\ Mode' = Mode
    BY <1>11 DEF Staying, Mode
  <2> QED BY <1>2, <1>3, <1>4, <1>7, <2>1
<1>12. CASE Handled
  <2>1. pc' \in Handlers(Prog, pc) /\ Mode' = "handling"
    BY <1>12 DEF Handled, Mode
  <2> QED BY <1>4, <1>7, <1>8, <2>1
<1>13. CASE Aborts \/ GivesUp
  BY <1>13 DEF Aborts, GivesUp
<1> QED BY <1>9, <1>10, <1>11, <1>12, <1>13 DEF Follows, Moves

\* A step that is reached from above only is reached so.
LEMMA FromAbove ==
  ASSUME Auxiliary, NEW op, At(op), Follows, Delivers,
         NEW next \in {"round", "restore", "stoppumba", "redeploy"}, At(next)'
  PROVE  \/ pc' = pc /\ next = op /\ Loops(Step) /\ Step' = Step
         \/ /\ Arrives /\ pc' = pc + 1 /\ pc' \in DOMAIN Prog /\ pc' - 1 = pc
            /\ Step = Prog[pc' - 1] /\ Step' = Prog[pc']
<1>1. Types /\ pc \in DOMAIN Prog /\ Step = Prog[pc] /\ Step.op = op
      /\ pc \in Nat /\ GoodProgram(Prog)
  BY StepFacts, ScriptFacts DEF Auxiliary
<1>2. Types' /\ Prog' = Prog /\ script' = script
  BY TypesKept DEF Follows, Keeps
<1>3. status' = "running" /\ Step' = Prog[pc'] /\ Step'.op = next
  BY <1>2 DEF At, Step, Prog
<1>4. pc' \in DOMAIN Prog
  BY <1>1, <1>2, ScriptFacts DEF At, Prog, Types
<1>5. OnlyFromAbove(Prog, pc')
  BY <1>1, <1>3, <1>4 DEF GoodProgram, GoodNeighbours
<1>6. pc' \notin Jumps(Prog, pc)
  BY <1>1, <1>5 DEF OnlyFromAbove
<1>7. Advances \/ Staying
  BY <1>3, <1>6 DEF Follows, Moves, Skipping, Handled, Aborts, GivesUp, Jumps
<1>8. CASE Staying
  BY <1>1, <1>3, <1>8 DEF Staying
<1>9. CASE Advances
  BY <1>1, <1>3, <1>4, <1>6, <1>9 DEF Advances, Arrives
<1> QED BY <1>7, <1>8, <1>9

\* The poll before the containers are stopped is long enough.
LEMMA ExpiredKept ==
  ASSUME Auxiliary, NEW op, At(op), Follows, Delivers
  PROVE  ExpiredBeforeStop'
<1> SUFFICES ASSUME At("stoppumba")' PROVE Quiet(net, "p2p_partial")'
  BY DEF ExpiredBeforeStop
<1>1. Types /\ Step.op = op /\ GoodProgram(Prog)
  BY StepFacts, ScriptFacts DEF Auxiliary
<1>2. Step'.op = "stoppumba"
  BY DEF At
<1>3. CASE pc' = pc /\ op = "stoppumba" /\ Loops(Step)
  BY <1>1, <1>3 DEF Loops
<1>4. CASE /\ Arrives /\ pc' \in DOMAIN Prog
           /\ Step = Prog[pc' - 1] /\ Step' = Prog[pc']
  <2>1. Step.op = "poll" /\ Step.n >= Duration["p2p_partial"]
    BY <1>1, <1>2, <1>4 DEF GoodProgram, GoodNeighbours
  <2> QED BY <1>4, <2>1 DEF Delivers
<1> QED BY <1>3, <1>4, FromAbove

\* The script stays right about the bridge.
LEMMA WindowKept ==
  ASSUME Auxiliary, Settled, BridgeKnown, NEW op, At(op), Follows, Delivers
  PROVE  WindowOpen' /\ BridgeKnown'
<1>1. /\ Types /\ Step.op = op /\ GoodProgram(Prog) /\ GoodArguments(Step)
      /\ pc \in Nat /\ pc \in DOMAIN Prog /\ status = "running"
  BY StepFacts, ScriptFacts DEF Auxiliary
<1>2. ASSUME At("round")'
      PROVE  /\ window'.left > 0 => Rounds > 0
             /\ ~silent' => \/ "bridge" \in faults' => window'.down
                            \/ /\ Rounds > 0 /\ window'.left = Rounds
                               /\ Step'.arg.on > 0 /\ window'.next = 0
  <2>1. status' = "running" /\ Step'.op = "round"
    BY <1>2 DEF At
  <2>2. CASE pc' = pc /\ op = "round"
    BY <1>1, <2>1, <2>2 DEF Delivers
  <2>3. CASE /\ Arrives /\ pc' \in DOMAIN Prog /\ pc' - 1 = pc
             /\ Step = Prog[pc' - 1] /\ Step' = Prog[pc']
    <3>1. Step.op = "open"
      BY <1>1, <2>1, <2>3 DEF GoodProgram, GoodNeighbours
    <3>2. /\ faults' = faults
          /\ window' = [left |-> Step.n, next |-> 0, down |-> Step.arg]
          /\ Step.n = Rounds
      BY <1>1, <3>1 DEF Delivers, GoodArguments
    <3>3. window'.left = Rounds /\ window'.next = 0 /\ window'.down = Step.arg
      BY <3>2
    <3>4. \/ Step.arg
          \/ Rounds > 0 /\ Step'.arg.on > 0
          \/ \A m \in Modes : "bridge" \in Known[script][Found][pc][m]
      BY <2>1, <2>3, OutlineFacts DEF GoodEnds
    <3>5. ASSUME ~silent', \A m \in Modes : "bridge" \in Known[script][Found][pc][m]
          PROVE  "bridge" \notin faults
      <4>1. ~silent /\ Mode \in Modes
        BY <3>5 DEF Follows, Keeps, Mode, Modes
      <4>2. "bridge" \in Items /\ "bridge" \in Outline(pc, Mode)
        BY <3>5, <4>1, ItemNames DEF Outline
      <4>3. Free("bridge")
        BY <1>1, <4>1, <4>2 DEF Settled
      <4> QED BY <4>3 DEF Free
    <3> QED BY <3>2, <3>3, <3>4, <3>5
  <2> QED BY <1>2, <2>2, <2>3, FromAbove
<1>3. ASSUME At("restore")', ~silent', "bridge" \in faults' PROVE window'.down
  <2>1. Step'.op = "restore"
    BY <1>3 DEF At
  <2>2. CASE pc' = pc /\ op = "restore" /\ Loops(Step)
    BY <1>1, <2>2 DEF Loops
  <2>3. CASE /\ Arrives /\ pc' \in DOMAIN Prog
             /\ Step = Prog[pc' - 1] /\ Step' = Prog[pc']
    <3>1. Step.op = "round"
      BY <1>1, <2>1, <2>3 DEF GoodProgram, GoodNeighbours
    <3>2. window.left = 0 /\ faults' = faults /\ window' = window /\ silent' = silent
      BY <2>3, <3>1 DEF Delivers
    <3>3. \/ "bridge" \in faults => window.down
          \/ Rounds > 0 /\ window.left = Rounds
      BY <1>1, <1>3, <3>1, <3>2 DEF BridgeKnown
    <3> QED BY <1>3, <3>2, <3>3
  <2> QED BY <1>3, <2>2, <2>3, FromAbove
<1>4. WindowOpen'
  BY <1>2 DEF WindowOpen
<1>5. BridgeKnown'
  BY <1>2, <1>3 DEF BridgeKnown
<1> QED BY <1>4, <1>5

\* .env is written before the testnet is redeployed.
LEMMA EnvKept ==
  ASSUME Auxiliary, NEW op, At(op), Follows, Delivers
  PROVE  EnvWritten'
<1> SUFFICES ASSUME At("redeploy")' PROVE envfile'[Step'.arg] = Step'.n
  BY DEF EnvWritten
<1>1. Types /\ Step.op = op /\ GoodProgram(Prog)
  BY StepFacts, ScriptFacts DEF Auxiliary
<1>2. Step'.op = "redeploy"
  BY DEF At
<1>3. CASE pc' = pc /\ op = "redeploy" /\ Loops(Step)
  BY <1>1, <1>3 DEF Loops
<1>4. CASE /\ Arrives /\ pc' \in DOMAIN Prog
           /\ Step = Prog[pc' - 1] /\ Step' = Prog[pc']
  <2>1. Step.op = "setenv" /\ Step.arg = Step'.arg /\ Step.n = Step'.n
    BY <1>1, <1>2, <1>4 DEF GoodProgram, GoodNeighbours
  <2> QED BY <1>4, <2>1 DEF Delivers
<1> QED BY <1>3, <1>4, FromAbove

\* Intervals grow with their end.
LEMMA IntervalsGrow ==
  ASSUME NEW a \in Nat, NEW b \in Nat, NEW c \in Nat, c >= b
  PROVE  (a + 1 .. b - 1 \subseteq a + 1 .. c - 1) /\ (a .. b \subseteq a .. c)
  OBVIOUS

\* No jump leads past a redeploy into what follows it.
LEMMA DeployedKept ==
  ASSUME Auxiliary, EnvWritten, DeployedKnown, NEW op, At(op), Follows, Delivers
  PROVE  DeployedKnown'
<1>1. /\ Types /\ Step = Prog[pc] /\ Step.op = op /\ pc \in DOMAIN Prog
      /\ pc \in Nat /\ Len(Prog) \in Nat /\ DOMAIN Prog = 1 .. Len(Prog)
      /\ GoodProgram(Prog) /\ status = "running"
  BY StepFacts, ScriptFacts DEF Auxiliary
<1>2. Prog' = Prog
  BY TypesKept
<1> SUFFICES ASSUME status' = "running", NEW r \in DOMAIN Prog, DeployedAt(Prog, r, pc')
             PROVE  deployed'[Prog[r].arg] = Prog[r].n \/ "oldValidators" \in faults'
  BY <1>2 DEF DeployedKnown
<1>3. Jumps(Prog, pc) \subseteq pc + 1 .. Len(Prog) + 1
  BY <1>1 DEF GoodProgram
<1>4. pc' = pc \/ pc' = pc + 1 \/ pc' \in Jumps(Prog, pc)
  BY DEF Follows, Moves, Advances, Skipping, Staying, Handled, Aborts, GivesUp, Jumps
<1>5. pc' \in Nat /\ pc' >= pc /\ r \in Nat /\ r < pc' /\ Prog[r].op = "redeploy"
  BY <1>1, <1>3, <1>4 DEF DeployedAt
<1>6. CASE r < pc
  <2>1. /\ \A i \in r + 1 .. pc' - 1 : Prog[i].op # "redeploy"
        /\ \A i \in 1 .. r : Jumps(Prog, i) \cap (r .. pc') = {}
    BY DEF DeployedAt
  <2>2. DeployedAt(Prog, r, pc)
    <3>1. r \in 1 .. pc - 1
      BY <1>1, <1>5, <1>6
    <3>2. r + 1 .. pc - 1 \subseteq r + 1 .. pc' - 1
      BY <1>1, <1>5, IntervalsGrow
    <3>3. r .. pc \subseteq r .. pc'
      BY <1>1, <1>5, IntervalsGrow
    <3> QED BY <1>5, <2>1, <3>1, <3>2, <3>3 DEF DeployedAt
  <2>3. Step.op # "redeploy"
    <3>1. CASE pc' = pc
      BY <1>1, <1>3, <3>1
         DEF Follows, Moves, Advances, Skipping, Staying, Handled, Aborts, GivesUp, Jumps, Loops
    <3>2. CASE pc' # pc
      <4>1. pc \in r + 1 .. pc' - 1
        BY <1>1, <1>5, <1>6, <3>2
      <4> QED BY <1>1, <2>1, <4>1
    <3> QED BY <3>1, <3>2
  <2>4. deployed' = deployed /\ ("oldValidators" \in faults => "oldValidators" \in faults')
    BY <2>3 DEF Follows, Spares
  <2> QED BY <1>1, <2>2, <2>4 DEF DeployedKnown
<1>7. CASE r >= pc
  <2>1. pc \in 1 .. r /\ pc' \in r .. pc'
    BY <1>1, <1>5, <1>7
  <2>2. pc' \notin Jumps(Prog, pc)
    BY <2>1 DEF DeployedAt
  <2>3. r = pc /\ pc' # pc
    BY <1>1, <1>4, <1>5, <1>7, <2>2
  <2>4. Arrives
    BY <2>2, <2>3 DEF Arrives
  <2>5. envfile[Step.arg] = Step.n
    BY <1>1, <1>5, <2>3 DEF EnvWritten
  <2> QED BY <1>1, <1>5, <2>3, <2>4, <2>5 DEF Delivers
<1> QED BY <1>1, <1>5, <1>6, <1>7

\* What has to be taken back is, when the script gives up or is ended by an exception.
LEMMA EndsKept ==
  ASSUME Auxiliary, Settled, NEW op, At(op), Follows, Delivers
  PROVE  OrderlyEndIsClean' /\ FinallyReleases'
<1>1. Types /\ GoodNet(net) /\ Step = Prog[pc] /\ pc \in DOMAIN Prog /\ status = "running"
  BY StepFacts DEF Auxiliary
<1>2. GoodEnds(Prog, Found, Known[script][Found])
  BY OutlineFacts
<1>3. ASSUME status' = "exit1", ~silent', cleanStart' PROVE Clean'
  <2>1. GivesUp
    BY <1>3 DEF Follows, Moves, Advances, Skipping, Staying, Handled, Aborts
  <2>2. net' = net /\ faults' = faults /\ ~silent
    BY <1>3, <2>1 DEF GivesUp, world
  <2>3. Found = "clean" /\ Mode \in Modes
    BY <1>3 DEF Follows, Keeps, Found, Mode, Modes
  <2>4. Items \subseteq Outline(pc, Mode)
    BY <1>1, <1>2, <2>1, <2>3 DEF GoodEnds, Outline, GivesUp
  <2>5. Clean
    BY <1>1, <2>2, <2>4, FreeIsClean DEF Settled
  <2> QED BY <2>2, <2>5 DEF Clean
<1>4. ASSUME status' = "aborted", diedAt' = "reraise", ~silent'
      PROVE  NetClean(net') /\ faults' \cap {"localNormal", "localVanilla"} = {}
  <2>1. Aborts
    BY <1>4 DEF Follows, Moves, Advances, Skipping, Staying, Handled, GivesUp
  <2>2. Step.op = "reraise" /\ exc # "none" /\ Step.h \notin {"finally", "record"}
        /\ net' = net /\ faults' = faults /\ ~silent
    BY <1>4, <2>1 DEF Aborts, world
  <2>3. NetItems \cup LocalNodes \subseteq Outline(pc, Mode)
    BY <1>1, <1>2, <2>2 DEF GoodEnds, Outline, Mode
  <2>4. \A x \in NetItems \cup LocalNodes : Free(x)
    BY <1>1, <2>2, <2>3, ItemNames DEF Settled
  <2>5. NetClean(net)
    BY <1>1, <2>4, QuietIsClean DEF Free
  <2> QED BY <2>2, <2>4, <2>5 DEF Free, LocalNodes
<1>5. status' # "done"
  BY DEF Follows, Moves, Advances, Skipping, Staying, Handled, Aborts, GivesUp
<1> QED BY <1>3, <1>4, <1>5 DEF OrderlyEndIsClean, FinallyReleases

\* An entry names what is deployed.
LEMMA MeasuredKept ==
  ASSUME Auxiliary, DeployedKnown, MeasuredOnWhatWasDeployed,
         NEW op, At(op), Follows, Delivers
  PROVE  MeasuredOnWhatWasDeployed'
<1>1. /\ Types /\ Step = Prog[pc] /\ Step.op = op /\ pc \in DOMAIN Prog
      /\ GoodProgram(Prog) /\ status = "running"
  BY StepFacts, ScriptFacts DEF Auxiliary
<1>2. CASE op # "record"
  BY <1>1, <1>2 DEF Follows, Spares, MeasuredOnWhatWasDeployed
<1>3. CASE op = "record"
  <2>1. PICK st : result' = Entry(st)
    BY <1>1, <1>3 DEF Delivers
  <2>2. /\ result'.edge = Step.arg /\ result'.value = Step.n
        /\ result'.params = deployed /\ result'.old = ("oldValidators" \in faults)
    BY <2>1 DEF Entry
  <2>3. PICK r \in DOMAIN Prog : /\ DeployedAt(Prog, r, pc)
                                 /\ Prog[r].arg = Step.arg /\ Prog[r].n = Step.n
    BY <1>1, <1>3 DEF GoodProgram
  <2>4. deployed[Step.arg] = Step.n \/ "oldValidators" \in faults
    BY <1>1, <2>3 DEF DeployedKnown
  <2> QED BY <2>2, <2>4 DEF MeasuredOnWhatWasDeployed
<1> QED BY <1>2, <1>3

-----------------------------------------------------------------------------
(* The theorems *)

\* No script begins with a step that relies on the one before.
LEMMA FirstStep ==
  ASSUME NEW prog, GoodProgram(prog), 1 \in DOMAIN prog
  PROVE  prog[1].op \notin {"round", "restore", "stoppumba", "redeploy"}
<1>1. GoodNeighbours(prog)
  BY DEF GoodProgram
<1>2. ASSUME prog[1].op \in {"round", "restore", "stoppumba", "redeploy"} PROVE 1 > 1
  BY <1>1, <1>2 DEF GoodNeighbours
<1> QED BY <1>2

\* Scripts start on a clean testnet.
LEMMA InitLemma ==
  ASSUME Init PROVE IInv
<1>1. Types
  <2>1. script \in Scripts /\ pc = 1
    BY DEF Init
  <2>2. GoodProgram(Prog)
    BY <2>1, ScriptsAreOutlined DEF Outlined, Prog
  <2>3. pc \in 1 .. Len(Prog) + 1
    BY <2>1, <2>2 DEF GoodProgram
  <2> QED BY <2>1, <2>3 DEF Init, Types, DefaultEnv
<1>2. GoodNet(net)
  <2> DEFINE l == [c \in Containers |-> Missing]
             q == [t \in Targets |-> NoRule]
  <2>1. l \in [Containers -> Times] /\ q \in [Targets -> Containers \cup {NoRule, ByTc}]
    BY DEF Times
  <2>2. net = [left |-> l, qdisc |-> q]
    BY DEF Init, NoInjector
  <2>3. /\ \A c \in Containers : l[c] = Missing
        /\ \A t \in Targets : q[t] = NoRule
    OBVIOUS
  <2> HIDE DEF l, q
  <2>4. net \in Nets /\ net.left = l /\ net.qdisc = q
    BY <2>1, <2>2, NetFields
  <2>5. \A c \in Containers : Missing <= Duration[c[1]]
    BY Durations, ContainerTargets DEF Missing
  <2> QED BY <2>3, <2>4, <2>5, OtherRules DEF GoodNet
<1>3. ASSUME NEW x \in Items PROVE Free(x)
  <2>1. NetClean(net)
    <3>1. /\ \A c \in Containers : net.left[c] = Missing
          /\ \A t \in Targets : net.qdisc[t] = NoRule
      BY DEF Init, NoInjector
    <3> QED BY <3>1 DEF NetClean, is_running, container_status
  <2> QED BY <1>2, <2>1, CleanIsQuiet, ItemNames DEF Free, Init
<1>4. Never /\ Settled /\ FirstRunIsClean
  BY <1>3 DEF Never, Settled, FirstRunIsClean, Init
<1>5. ExpiredBeforeStop
  BY <1>3, ItemNames DEF ExpiredBeforeStop, Free
<1>6. /\ WindowOpen /\ BridgeKnown
  BY DEF WindowOpen, BridgeKnown, Init
<1>7. ~At("redeploy")
  <2>1. SUFFICES ASSUME At("redeploy") PROVE FALSE
    OBVIOUS
  <2>2. pc \in DOMAIN Prog /\ Prog[pc].op = "redeploy" /\ pc = 1 /\ GoodProgram(Prog)
    BY <1>1, <2>1, StepFacts, ScriptFacts DEF Init
  <2> QED BY <2>2, FirstStep
<1>8. EnvWritten /\ DeployedKnown
  BY <1>7 DEF EnvWritten, DeployedKnown, DeployedAt, Init
<1>9. OrderlyEndIsClean /\ FinallyReleases /\ MeasuredOnWhatWasDeployed
  BY DEF OrderlyEndIsClean, FinallyReleases, MeasuredOnWhatWasDeployed, Init
<1> QED BY <1>1, <1>2, <1>4, <1>5, <1>6, <1>8, <1>9 DEF IInv, Auxiliary

\* The script has come to its end.
LEMMA FinishLemma ==
  ASSUME IInv, Finish PROVE IInv'
<1>1. /\ status = "running" /\ pc > Len(Prog) /\ status' = "done"
      /\ UNCHANGED <<script, pc, exc, cleanStart, net, faults, silent, window,
                     envfile, deployed, result>>
  BY DEF Finish, world, local, sweep, Prog
<1>2. Types /\ GoodNet(net) /\ pc = Len(Prog) + 1
  <2>1. Types /\ GoodNet(net) /\ Len(Prog) \in Nat
    BY ScriptFacts DEF IInv, Auxiliary
  <2>2. pc \in 1 .. Len(Prog) + 1
    BY <2>1 DEF Types
  <2> QED BY <1>1, <2>1, <2>2
<1>3. ASSUME ~silent PROVE Clean
  <2>1. Mode \in Modes
    BY DEF Mode, Modes
  <2>2. Items \subseteq Outline(pc, Mode)
    BY <1>2, <2>1, OutlineFacts DEF IInv, GoodEnds, Outline
  <2>3. \A x \in Items : Free(x)
    BY <1>1, <1>3, <2>2 DEF IInv, Settled
  <2> QED BY <1>2, <2>3, FreeIsClean
<1>4. OrderlyEndIsClean'
  BY <1>1, <1>3 DEF OrderlyEndIsClean, Clean
<1>5. Types' /\ GoodNet(net)' /\ FirstRunIsClean' /\ Never' /\ MeasuredOnWhatWasDeployed'
  BY <1>1 DEF IInv, Auxiliary, Types, Prog, FirstRunIsClean, Never, Free,
              MeasuredOnWhatWasDeployed
<1>6. ExpiredBeforeStop' /\ WindowOpen' /\ Settled' /\ BridgeKnown' /\ EnvWritten'
      /\ DeployedKnown' /\ FinallyReleases'
  BY <1>1 DEF ExpiredBeforeStop, WindowOpen, Settled, BridgeKnown, EnvWritten,
              DeployedKnown, FinallyReleases, At
<1> QED BY <1>4, <1>5, <1>6 DEF IInv, Auxiliary

\* The script is run again: on what the earlier run left.
LEMMA RerunLemma ==
  ASSUME IInv, Rerun PROVE IInv'
<1>1. /\ Pass(0) \/ Pass(120)
      /\ pc' = 1 /\ exc' = "none" /\ status' = "running" /\ Repeated(script)
      /\ cleanStart' = (NetClean(net') /\ faults = {})
      /\ window' = [left |-> 0, next |-> 0, down |-> FALSE]
      /\ UNCHANGED <<script, faults, envfile, deployed, result>>
  BY DEF Rerun, sweep
<1>2. Types /\ GoodNet(net) /\ GoodProgram(Prog) /\ Len(Prog) \in Nat
  BY ScriptFacts DEF IInv, Auxiliary
<1>3. GoodNet(net') /\ \A x : x # "none" /\ Quiet(net, x) => Quiet(net', x)
  BY <1>1, <1>2, ElapseLemma DEF Pass
<1>4. window'.down = FALSE /\ window'.left = 0
  BY <1>1
<1>5. Types' /\ Prog' = Prog
  BY <1>1, <1>2, <1>4 DEF Types, Prog
<1>6. FirstRunIsClean'
  BY <1>1 DEF FirstRunIsClean
<1>7. Never'
  BY <1>1, <1>3, ItemNames DEF IInv, Auxiliary, Never, Free
<1>8. Settled'
  <2> SUFFICES ASSUME NEW x \in Items, x \in Outline(pc, Mode)'
               PROVE  Free(x)'
    BY DEF Settled
  <2>1. Mode' = "normal"
    BY <1>1 DEF Mode
  <2>2. /\ Found' \in Starts
        /\ Found' = "clean" => NetClean(net') /\ faults' = {}
    BY <1>1 DEF Found, Starts
  <2>3. x \in Known[script][Found'][1]["normal"]
    BY <1>1, <2>1 DEF Outline
  <2>4. Known[script][Found'][1]["normal"] \subseteq
          (IF Found' = "clean" THEN Items ELSE Items \ Footprint(script))
    BY <1>1, <1>2, <2>2, ScriptFacts DEF Outlined, StartsOf
  <2>5. CASE Found' = "clean"
    BY <1>3, <2>2, <2>5, CleanIsQuiet, ItemNames DEF Free
  <2>6. CASE Found' # "clean"
    BY <1>1, <1>7, <2>3, <2>4, <2>6 DEF Never
  <2> QED BY <2>5, <2>6
<1>9. ASSUME NEW op \in {"round", "restore", "stoppumba", "redeploy"} PROVE ~At(op)'
  <2>1. SUFFICES ASSUME At(op)' PROVE FALSE
    OBVIOUS
  <2>2. 1 \in DOMAIN Prog /\ Prog[1].op = op
    BY <1>1, <1>2, <1>5, <2>1 DEF At, Step, Prog, GoodProgram
  <2> QED BY <1>2, <2>2, FirstStep
<1>10. ExpiredBeforeStop' /\ WindowOpen' /\ BridgeKnown' /\ EnvWritten'
  BY <1>9 DEF ExpiredBeforeStop, WindowOpen, BridgeKnown, EnvWritten
<1>11. DeployedKnown'
  BY <1>1, <1>5 DEF DeployedKnown, DeployedAt
<1>12. OrderlyEndIsClean' /\ FinallyReleases' /\ MeasuredOnWhatWasDeployed'
  BY <1>1 DEF IInv, OrderlyEndIsClean, FinallyReleases, MeasuredOnWhatWasDeployed
<1> QED BY <1>3, <1>5, <1>6, <1>7, <1>8, <1>10, <1>11, <1>12 DEF IInv, Auxiliary

\* Whatever happens, the invariant is kept.
LEMMA NextLemma ==
  ASSUME IInv, [Next]_vars PROVE IInv'
<1>1. CASE ScriptStep /\ ~Finish
  <2>1. Auxiliary /\ Settled /\ BridgeKnown /\ EnvWritten /\ DeployedKnown
        /\ MeasuredOnWhatWasDeployed
    BY DEF IInv
  <2>2. Follows /\ Delivers
    BY <1>1, <2>1, StepLemma
  <2>3. PICK op : At(op)
    BY <1>1, <2>1, StepLemma
  <2>4. Types' /\ GoodNet(net)' /\ FirstRunIsClean'
    BY <2>1, <2>2, <2>3, TypesKept
  <2>5. Never' /\ Settled' /\ ExpiredBeforeStop'
    BY <2>1, <2>2, <2>3, NeverKept, SettledKept, ExpiredKept
  <2>6. WindowOpen' /\ BridgeKnown' /\ EnvWritten' /\ DeployedKnown'
    BY <2>1, <2>2, <2>3, WindowKept, EnvKept, DeployedKept
  <2>7. OrderlyEndIsClean' /\ FinallyReleases' /\ MeasuredOnWhatWasDeployed'
    BY <2>1, <2>2, <2>3, EndsKept, MeasuredKept
  <2> QED BY <2>4, <2>5, <2>6, <2>7 DEF IInv, Auxiliary
<1>2. CASE Finish
  BY <1>2, FinishLemma
<1>3. CASE Rerun
  BY <1>3, RerunLemma
<1>4. CASE UNCHANGED vars
  <2>1. UNCHANGED <<script, pc, exc, status, diedAt, net, faults, window, tries, silent,
                    runs, cleanStart, envfile, deployed, result>>
    BY <1>4 DEF vars
  <2> QED BY <2>1 DEF IInv, Auxiliary, Types, Prog, FirstRunIsClean, Never, Free,
        ExpiredBeforeStop, WindowOpen, At, Step, Settled, Outline, Found, Mode, BridgeKnown,
        EnvWritten, DeployedKnown, OrderlyEndIsClean, Clean, FinallyReleases,
        MeasuredOnWhatWasDeployed
<1> QED BY <1>1, <1>2, <1>3, <1>4 DEF Next

\* The inductive invariant holds throughout.
THEOREM Invariance == Spec => []IInv
<1>1. Init => IInv
  BY InitLemma
<1>2. IInv /\ [Next]_vars => IInv'
  BY NextLemma
<1> QED BY <1>1, <1>2, PTL DEF Spec

\* A run that goes through with no failure passed over, whatever an earlier one
\* left, ends on a clean testnet; and so does a script that gives up by itself, if
\* it found the testnet clean (the cleanups at the end of every main()).
THEOREM OrderlyEnds == Spec => []OrderlyEndIsClean
<1>1. IInv => OrderlyEndIsClean
  BY DEF IInv
<1> QED BY <1>1, Invariance, PTL

\* A script that is ended by an exception at the end of its finally block has
\* released its injectors and its local nodes (live_spot_check.py,
\* live_spot_check_absorb.py, live_throughput_latency.py).
THEOREM FinallyIsKept == Spec => []FinallyReleases
<1>1. IInv => FinallyReleases
  BY DEF IInv
<1> QED BY <1>1, Invariance, PTL

\* What the sweep reports as OK was measured on the value it is reported under
\* (run_absorb_sweep.py).
THEOREM SweepIsHonest == Spec => []MeasuredOnWhatWasDeployed
<1>1. IInv => MeasuredOnWhatWasDeployed
  BY DEF IInv
<1> QED BY <1>1, Invariance, PTL

\* An injector that is started on a testnet that was clean is really on its
\* targets (the note at injector.py's PROFILE_TO_NETEM_TARGETS).
THEOREM StartsTakeEffect == Spec => NoSilentNoOp
<1>1. ASSUME IInv, [Next]_vars
      PROVE  [At("start") /\ pc' = pc + 1 /\ cleanStart /\ ~silent
                => InForce(net', Step.arg)]_vars
  <2> SUFFICES ASSUME Next, At("start"), pc' = pc + 1, cleanStart, ~silent
               PROVE  InForce(net', Step.arg)
    BY <1>1
  <2>1. Auxiliary /\ BridgeKnown /\ Types /\ GoodNet(net) /\ Settled
    BY <1>1 DEF IInv, Auxiliary
  <2>2. /\ Step.op = "start" /\ Step.arg \in Profiles /\ Step = Prog[pc] /\ pc \in DOMAIN Prog
        /\ status = "running" /\ pc <= Len(Prog) /\ pc \in Nat /\ Len(Prog) \in Nat
    BY <2>1, StepFacts, ScriptFacts DEF GoodArguments
  <2>3. ~Rerun
    BY <2>2 DEF Rerun
  <2>4. ~Finish
    <3>1. pc # pc + 1
      BY <2>2
    <3> QED BY <3>1 DEF Finish
  <2>5. ScriptStep /\ ~Finish
    BY <2>3, <2>4 DEF Next
  <2>6. Delivers
    BY <2>1, <2>5, StepLemma
  <2>7. Found = "clean" /\ Mode \in Modes
    BY DEF Found, Mode, Modes
  <2>8. /\ pc + 1 \notin Handlers(Prog, pc)
        /\ Rivals(Step.arg) \subseteq Outline(pc, Mode)
    BY <2>1, <2>2, <2>7, OutlineFacts DEF GoodEnds, Outline
  <2>9. net' = start_pumba_profile(net, Step.arg)
    BY <2>2, <2>6, <2>8 DEF Delivers
  <2>10. \A x \in Rivals(Step.arg) : x \in Items
    BY ItemNames DEF Rivals
  <2>11. \A x \in Rivals(Step.arg) : Quiet(net, x)
    BY <2>1, <2>2, <2>8, <2>10 DEF Settled, Free
  <2> QED BY <2>1, <2>2, <2>9, <2>11, InForceLemma
<1>2. IInv /\ [Next]_vars =>
        [At("start") /\ pc' = pc + 1 /\ cleanStart /\ ~silent
           => InForce(net', Step.arg)]_vars
  BY <1>1
<1> QED BY <1>2, Invariance, PTL DEF Spec, NoSilentNoOp
=============================================================================
