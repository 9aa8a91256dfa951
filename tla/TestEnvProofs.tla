---------------------------- MODULE TestEnvProofs ----------------------------
(***************************************************************************)
(* Theorems about TestEnv, for any number of invocations of any number of  *)
(* tests: whose services a test works with, what a teardown leaves, what   *)
(* compose.log shows afterwards and whose runner answers a healthcheck.    *)
(***************************************************************************)
EXTENDS TestEnv, TLAPS

-----------------------------------------------------------------------------
(* The inductive invariant                                                 *)

\* A service is left to probe until all of them answered.
ProbesLeft(e) == env[e].probe <= Len(Probes) \/ At(e, "ready")

\* The types, those of the history variables included.
EnvTypes ==
    /\ TypeOK
    /\ \A e \in Envs : ProbesLeft(e)
    /\ began \in [Names -> Envs \cup {None}]
    /\ started \in [Envs -> SUBSET Services]

\* A container belongs to the project of the env it was made for, which has
\* been through compose up; if that env is gone, it left the container there.
RowsAreKnown ==
    \A n \in Names : \A r \in containers[n] :
        /\ NameOf[r[2]] = n
        /\ ~At(r[2], "new") /\ ~At(r[2], "cleanup")
        /\ At(r[2], "gone") => r[2] \in abandoned

\* No other env of the same name is under way.
Sole(e) == \A f \in Envs \ {e} : NameOf[f] = NameOf[e] => ~Active(f)

\* An env that never had a namesake beside it is the last of its name while it
\* is active, and the only active one as long as it is the last.
LatestIsSole ==
    \A e \in Envs :
        /\ At(e, "new") => began[NameOf[e]] # e
        /\ e \notin mixed /\ Active(e) => began[NameOf[e]] = e
        /\ e \notin mixed /\ began[NameOf[e]] = e => Sole(e)

\* How the project of an undisturbed env comes to hold its services only.
OwnServices(e) ==
    e \notin mixed \cup uncleaned =>
        /\ At(e, "compose") => containers[NameOf[e]] = {}
        /\ env[e].pc \in {"ports", "probe", "ready"} =>
             containers[NameOf[e]] = Services \X {e}
        /\ env[e].pc \in {"probe", "ready"} => env[e].urls = Services \X {e}

Logged(e) == log[NameOf[e]].by = e /\ started[e] \X {e} \subseteq log[NameOf[e]].rows

\* Until compose down, what an env started is there to be captured; from then
\* on it has been captured, for as long as no later env of the name captures.
OwnLogs(e) ==
    e \notin mixed \cup unlogged \cup abandoned =>
        /\ env[e].pc \in {"ports", "probe", "ready", "down_log", "drop_log"} =>
             started[e] \X {e} \subseteq containers[NameOf[e]]
        /\ env[e].pc \in {"down_stop", "drop_stop"} => Logged(e)
        /\ At(e, "gone") /\ began[NameOf[e]] = e => Logged(e)

\* A runner that may still answer has its TestStack or lost it without down,
\* and two TestStacks at one time are beside each other.
RunnersAreKnown ==
    /\ \A e \in Envs :
         runner[e] \in {"starting", "listening"} => env[e].stack # "none" \/ e \in leaked
    /\ \A e, f \in Envs :
         e # f /\ env[e].stack # "none" /\ env[f].stack # "none" => f \in beside
    /\ HealthyRunnerIsOwn

EnvInv ==
    /\ EnvTypes
    /\ RowsAreKnown
    /\ LatestIsSole
    /\ \A e \in Envs : OwnServices(e) /\ OwnLogs(e)
    /\ RunnersAreKnown

-----------------------------------------------------------------------------
(* What the parts of an action do                                          *)

Pcs == {"new", "cleanup", "compose", "ports", "probe", "ready",
        "down_log", "down_stop", "drop_log", "drop_stop", "gone"}

\* What a step makes of the record of e; the others stay.
Moved(e, pc, urls, stack) ==
    /\ env' \in [Envs -> Env]
    /\ \A f \in Envs \ {e} : env'[f] = env[f]
    /\ env'[e].pc = pc /\ env'[e].urls = urls /\ env'[e].stack = stack
    /\ ProbesLeft(e)'

LEMMA GoesMoves ==
    ASSUME EnvTypes, NEW e \in Envs, ~At(e, "ready"), NEW pc \in Pcs, Goes(e, pc)
    PROVE  Moved(e, pc, env[e].urls, env[e].stack)
<1>1. env \in [Envs -> Env] /\ env' = [env EXCEPT ![e] = [env[e] EXCEPT !.pc = pc]]
  BY DEF EnvTypes, TypeOK, Goes
<1>2. [env[e] EXCEPT !.pc = pc] \in Env
  BY <1>1 DEF Env, Pcs
<1>3. env' \in [Envs -> Env] /\ env'[e] = [env[e] EXCEPT !.pc = pc]
  BY <1>1, <1>2
<1>4. /\ env'[e].pc = pc /\ env'[e].urls = env[e].urls /\ env'[e].stack = env[e].stack
      /\ env'[e].probe = env[e].probe
  BY <1>1, <1>3 DEF Env
<1> QED
  BY <1>1, <1>3, <1>4 DEF Moved, ProbesLeft, EnvTypes, At

LEMMA DropsMoves ==
    ASSUME EnvTypes, NEW e \in Envs, Drops(e)
    PROVE  Moved(e, "drop_log", {}, env[e].stack)
<1> DEFINE dropped == [env[e] EXCEPT !.pc = "drop_log", !.urls = {}, !.probe = 1]
<1>1. env \in [Envs -> Env] /\ env' = [env EXCEPT ![e] = dropped]
  BY DEF EnvTypes, TypeOK, Drops
<1>2. 1 \in 1..(Len(Probes) + 1)
  BY DEF Probes
<1>3. dropped \in Env
  BY <1>1, <1>2 DEF Env
<1>4. /\ dropped.pc = "drop_log" /\ dropped.urls = {} /\ dropped.stack = env[e].stack
      /\ dropped.probe = 1
  BY <1>1 DEF Env
<1> HIDE DEF dropped
<1>5. env' \in [Envs -> Env] /\ env'[e] = dropped
  BY <1>1, <1>3
<1> QED
  BY <1>1, <1>4, <1>5 DEF Moved, ProbesLeft, Probes

LEMMA StackMoves ==
    ASSUME EnvTypes, NEW e \in Envs, NEW stack \in {"none", "up", "checking"},
           env' = [env EXCEPT ![e].stack = stack]
    PROVE  Moved(e, env[e].pc, env[e].urls, stack)
<1>1. env \in [Envs -> Env] /\ env' = [env EXCEPT ![e] = [env[e] EXCEPT !.stack = stack]]
  BY DEF EnvTypes, TypeOK
<1>2. [env[e] EXCEPT !.stack = stack] \in Env
  BY <1>1 DEF Env
<1>3. env' \in [Envs -> Env] /\ env'[e] = [env[e] EXCEPT !.stack = stack]
  BY <1>1, <1>2
<1>4. /\ env'[e].pc = env[e].pc /\ env'[e].urls = env[e].urls /\ env'[e].stack = stack
      /\ env'[e].probe = env[e].probe
  BY <1>1, <1>3 DEF Env
<1> QED
  BY <1>1, <1>3, <1>4 DEF Moved, ProbesLeft, EnvTypes, At

LEMMA ReleasedMoves ==
    ASSUME EnvTypes, NEW e \in Envs, NEW pc \in Pcs, Released(e, pc)
    PROVE  /\ Moved(e, pc, {}, "none")
           /\ leaked' = IF env[e].stack = "none" THEN leaked ELSE leaked \cup {e}
<1>1. env' = [env EXCEPT ![e] = [pc |-> pc, urls |-> {}, probe |-> 1, stack |-> "none"]]
  BY DEF Released
<1>2. [pc |-> pc, urls |-> {}, probe |-> 1, stack |-> "none"] \in Env
  BY DEF Env, Pcs, Probes
<1>3. env' \in [Envs -> Env] /\ env'[e] = [pc |-> pc, urls |-> {}, probe |-> 1, stack |-> "none"]
  BY <1>1, <1>2 DEF EnvTypes, TypeOK
<1>4. ProbesLeft(e)'
  BY <1>3 DEF ProbesLeft, Probes
<1> QED
  BY <1>1, <1>3, <1>4 DEF EnvTypes, TypeOK, Moved, Released

\* docker compose down of n touches the project n only, and only to remove.
LEMMA ComposeDownDoes ==
    ASSUME EnvTypes, NEW n \in Names, NEW ok \in BOOLEAN, ComposeDown(n, ok)
    PROVE  /\ containers' \in [Names -> SUBSET Rows]
           /\ \A m \in Names \ {n} : containers'[m] = containers[m]
           /\ containers'[n] \subseteq containers[n]
           /\ ok => containers'[n] = {}
<1>1. PICK kept \in SUBSET containers[n] :
        (ok => kept = {}) /\ containers' = [containers EXCEPT ![n] = kept]
  BY DEF ComposeDown
<1>2. kept \in SUBSET Rows
  BY DEF EnvTypes, TypeOK
<1> QED
  BY <1>1, <1>2 DEF EnvTypes, TypeOK

\* docker compose up of e's project: what it makes are the services missing.
LEMMA ComposeUpDoes ==
    ASSUME EnvTypes, NEW e \in Envs, NEW ok \in BOOLEAN, ComposeUp(e, ok)
    PROVE  /\ containers' \in [Names -> SUBSET Rows]
           /\ \A m \in Names \ {NameOf[e]} : containers'[m] = containers[m]
           /\ containers'[NameOf[e]] = containers[NameOf[e]] \cup (started'[e] \X {e})
           /\ started' \in [Envs -> SUBSET Services]
           /\ \A f \in Envs \ {e} : started'[f] = started[f]
           /\ started'[e] \subseteq Missing(e) /\ (ok => started'[e] = Missing(e))
<1>1. PICK made \in SUBSET Missing(e) :
        /\ ok => made = Missing(e)
        /\ containers' = [containers EXCEPT ![NameOf[e]] = @ \cup (made \X {e})]
        /\ started' = [started EXCEPT ![e] = made]
  BY DEF ComposeUp
<1>2. NameOf[e] \in Names /\ made \in SUBSET Services /\ made \X {e} \subseteq Rows
  BY DEF Names, Missing, Rows
<1>3. started'[e] = made /\ started' \in [Envs -> SUBSET Services]
  BY <1>1, <1>2 DEF EnvTypes
<1>4. \A f \in Envs \ {e} : started'[f] = started[f]
  BY <1>1 DEF EnvTypes
<1>5. /\ containers'[NameOf[e]] = containers[NameOf[e]] \cup (made \X {e})
      /\ \A m \in Names \ {NameOf[e]} : containers'[m] = containers[m]
      /\ containers' \in [Names -> SUBSET Rows]
  BY <1>1, <1>2 DEF EnvTypes, TypeOK
<1> QED
  BY <1>1, <1>3, <1>4, <1>5

\* capture_compose_logs of e writes its log only, and unless it is noted as
\* failed the log shows e's containers.
LEMMA CapturedDoes ==
    ASSUME EnvTypes, NEW e \in Envs, Captured(e)
    PROVE  /\ log' \in [Names -> [by: Envs \cup {None}, rows: SUBSET Rows]]
           /\ \A m \in Names \ {NameOf[e]} : log'[m] = log[m]
           /\ unlogged \subseteq unlogged'
           /\ e \notin unlogged' =>
                log'[NameOf[e]].by = e /\ log'[NameOf[e]].rows = containers[NameOf[e]]
<1>1. NameOf[e] \in Names
  BY DEF Names
<1>2. CASE /\ log' = [log EXCEPT ![NameOf[e]] = [by |-> e, rows |-> containers[NameOf[e]]]]
           /\ UNCHANGED unlogged
  BY <1>1, <1>2 DEF EnvTypes, TypeOK
<1>3. CASE /\ log' = [log EXCEPT ![NameOf[e]] = [by |-> e, rows |-> {}]]
           /\ unlogged' = unlogged \cup {e}
  BY <1>1, <1>3 DEF EnvTypes, TypeOK
<1>4. CASE UNCHANGED log /\ unlogged' = unlogged \cup {e}
  BY <1>4 DEF EnvTypes, TypeOK
<1> QED
  BY <1>2, <1>3, <1>4 DEF Captured

-----------------------------------------------------------------------------
(* What a step leaves alone                                                *)

\* A step by e changes no other env, and touches a project or a log only while
\* e is active, its own.
Frame(e) ==
    /\ \A f \in Envs \ {e} : env'[f] = env[f] /\ started'[f] = started[f]
    /\ \A n \in Names : n # NameOf[e] \/ ~Active(e) =>
          containers'[n] = containers[n] /\ log'[n] = log[n]
    /\ \A n \in Names : began'[n] \in {began[n], e}
    /\ mixed \subseteq mixed' /\ uncleaned \subseteq uncleaned'
    /\ unlogged \subseteq unlogged' /\ abandoned \subseteq abandoned'

\* What the invariant says of the project of another env survives such a step.
LEMMA OthersKeep ==
    ASSUME EnvInv, NEW e \in Envs, NEW f \in Envs \ {e}, Frame(e)
    PROVE  OwnServices(f)' /\ OwnLogs(f)'
<1>1. NameOf[f] \in Names /\ NameOf[e] \in Names
  BY DEF Names
<1>2. /\ env'[f] = env[f] /\ started'[f] = started[f] /\ began'[NameOf[f]] \in {began[NameOf[f]], e}
      /\ f \in mixed => f \in mixed'
      /\ f \in uncleaned => f \in uncleaned'
      /\ f \in unlogged => f \in unlogged'
      /\ f \in abandoned => f \in abandoned'
  BY <1>1 DEF Frame
<1>3. ASSUME f \notin mixed, Active(f) \/ began[NameOf[f]] = f
      PROVE  containers'[NameOf[f]] = containers[NameOf[f]] /\ log'[NameOf[f]] = log[NameOf[f]]
  <2>1. Sole(f)
    BY <1>3 DEF EnvInv, LatestIsSole
  <2>2. NameOf[f] # NameOf[e] \/ ~Active(e)
    BY <2>1 DEF Sole
  <2> QED
    BY <1>1, <2>2 DEF Frame
<1>4. OwnServices(f)'
  BY <1>2, <1>3 DEF EnvInv, OwnServices, At, Active
<1>5. OwnLogs(f)'
  BY <1>2, <1>3 DEF EnvInv, OwnLogs, At, Active, Logged
<1> QED
  BY <1>4, <1>5

\* Only begin changes which env is the latest of its name, and only begin makes
\* an env active.
LEMMA LatestKept ==
    ASSUME EnvInv, began' = began, mixed' = mixed,
           \A f \in Envs : Active(f)' => Active(f),
           \A f \in Envs : At(f, "new")' => At(f, "new")
    PROVE  LatestIsSole'
BY DEF EnvInv, LatestIsSole, Sole

\* Rows of a project stay known when some go and the env that steps is past
\* compose up, and gives them up when it goes.
LEMMA RowsKept ==
    ASSUME EnvInv, NEW e \in Envs, \A f \in Envs \ {e} : env'[f] = env[f],
           \A n \in Names : containers'[n] \subseteq containers[n],
           abandoned \subseteq abandoned',
           \/ At(e, "new")
           \/ At(e, "cleanup")
           \/ /\ env'[e].pc \notin {"new", "cleanup"}
              /\ At(e, "gone")' => e \in abandoned' \/ containers'[NameOf[e]] = {}
    PROVE  RowsAreKnown'
<1> SUFFICES ASSUME NEW n \in Names, NEW r \in containers'[n]
             PROVE  /\ NameOf[r[2]] = n
                    /\ ~At(r[2], "new")' /\ ~At(r[2], "cleanup")'
                    /\ At(r[2], "gone")' => r[2] \in abandoned'
  BY DEF RowsAreKnown
<1>1. r \in containers[n] /\ r[2] \in Envs
  BY DEF EnvInv, EnvTypes, TypeOK, Rows
<1>2. /\ NameOf[r[2]] = n
      /\ ~At(r[2], "new") /\ ~At(r[2], "cleanup")
      /\ At(r[2], "gone") => r[2] \in abandoned
  BY <1>1 DEF EnvInv, RowsAreKnown
<1>3. CASE r[2] = e
  BY <1>2, <1>3 DEF At
<1>4. CASE r[2] # e
  BY <1>1, <1>2, <1>4 DEF At
<1> QED
  BY <1>3, <1>4

\* A step that leaves the runners and the TestStacks alone.
LEMMA RunnersKept ==
    ASSUME EnvInv, NEW e \in Envs, \A f \in Envs \ {e} : env'[f] = env[f],
           env'[e].stack = env[e].stack,
           UNCHANGED <<runner, leaked, beside, seen>>
    PROVE  RunnersAreKnown'
<1>1. \A f \in Envs : env'[f].stack = env[f].stack
  OBVIOUS
<1>2. runner' = runner /\ leaked' = leaked /\ beside' = beside /\ seen' = seen
  OBVIOUS
<1> QED
  BY <1>1, <1>2 DEF EnvInv, RunnersAreKnown, HealthyRunnerIsOwn

\* A step of a TestStack leaves the projects alone.
LEMMA ProjectsKept ==
    ASSUME EnvInv, \A f \in Envs : env'[f].pc = env[f].pc /\ env'[f].urls = env[f].urls,
           UNCHANGED <<containers, log, began, mixed, uncleaned, started, unlogged, abandoned>>
    PROVE  RowsAreKnown' /\ LatestIsSole' /\ \A e \in Envs : OwnServices(e)' /\ OwnLogs(e)'
<1>1. /\ containers' = containers /\ log' = log /\ began' = began /\ mixed' = mixed
      /\ uncleaned' = uncleaned /\ started' = started /\ unlogged' = unlogged
      /\ abandoned' = abandoned
  OBVIOUS
<1>2. RowsAreKnown'
  BY <1>1 DEF EnvInv, RowsAreKnown, At, EnvTypes, TypeOK, Rows
<1>3. LatestIsSole'
  BY <1>1, LatestKept DEF Active, At
<1>4. ASSUME NEW e \in Envs PROVE OwnServices(e)' /\ OwnLogs(e)'
  BY <1>1 DEF EnvInv, OwnServices, OwnLogs, Logged, At
<1> QED
  BY <1>2, <1>3, <1>4

-----------------------------------------------------------------------------
(* The steps of a TestEnv                                                  *)

\* A step that makes no container has its types, given those of what it writes.
LEMMA TypesKept ==
    ASSUME EnvInv, env' \in [Envs -> Env], NEW e \in Envs,
           \A f \in Envs \ {e} : env'[f] = env[f], ProbesLeft(e)',
           containers' \in [Names -> SUBSET Rows],
           \A n \in Names : containers'[n] \subseteq containers[n],
           log' \in [Names -> [by: Envs \cup {None}, rows: SUBSET Rows]],
           began' \in [Names -> Envs \cup {None}],
           UNCHANGED <<runner, port, started>>
    PROVE  EnvTypes'
<1>1. \A f \in Envs : ProbesLeft(f)'
  BY DEF EnvInv, EnvTypes, ProbesLeft, At
<1> QED
  BY <1>1 DEF EnvInv, EnvTypes, TypeOK

\* What has to be shown of a step by e.
LEMMA EnvStep ==
    ASSUME EnvInv, NEW e \in Envs, Frame(e), EnvTypes', RowsAreKnown', LatestIsSole',
           OwnServices(e)', OwnLogs(e)', RunnersAreKnown'
    PROVE  EnvInv'
<1>1. \A f \in Envs \ {e} : OwnServices(f)' /\ OwnLogs(f)'
  BY OthersKeep
<1>2. \A f \in Envs : OwnServices(f)' /\ OwnLogs(f)'
  BY <1>1
<1> QED
  BY <1>2 DEF EnvInv

LEMMA Step_begin == ASSUME EnvInv, NEW e \in Envs, begin(e) PROVE EnvInv'
<1> DEFINE others == {f \in Envs : Active(f) /\ NameOf[f] = NameOf[e]}
<1>1. At(e, "new") /\ EnvTypes /\ NameOf[e] \in Names
  BY DEF begin, EnvInv, Names
<1>2. /\ containers' = containers /\ log' = log /\ runner' = runner /\ port' = port
      /\ uncleaned' = uncleaned /\ started' = started /\ unlogged' = unlogged
      /\ abandoned' = abandoned /\ leaked' = leaked /\ beside' = beside /\ seen' = seen
  BY DEF begin
<1>3. \/ /\ Moved(e, "cleanup", env[e].urls, env[e].stack)
         /\ mixed' = mixed \cup others \cup (IF others = {} THEN {} ELSE {e})
         /\ began' = [began EXCEPT ![NameOf[e]] = e]
      \/ /\ Moved(e, "gone", env[e].urls, env[e].stack)
         /\ mixed' = mixed /\ began' = began
  BY <1>1, GoesMoves DEF begin, Pcs, At
<1>4. /\ env' \in [Envs -> Env] /\ \A f \in Envs \ {e} : env'[f] = env[f]
      /\ env'[e].stack = env[e].stack /\ env'[e].pc \in {"cleanup", "gone"}
      /\ ProbesLeft(e)'
      /\ mixed \subseteq mixed'
  BY <1>3 DEF Moved
<1>5. /\ began' \in [Names -> Envs \cup {None}]
      /\ \A n \in Names : began'[n] \in {began[n], e}
      /\ \A n \in Names \ {NameOf[e]} : began'[n] = began[n]
  BY <1>1, <1>3 DEF EnvTypes
<1>6. Frame(e)
  BY <1>2, <1>4, <1>5 DEF Frame
<1>7. EnvTypes'
  BY <1>1, <1>2, <1>4, <1>5, TypesKept DEF EnvTypes, TypeOK
<1>8. RowsAreKnown'
  BY <1>1, <1>2, <1>4, RowsKept
<1>9. LatestIsSole'
  <2>1. CASE env'[e].pc = "gone"
    <3>1. mixed' = mixed /\ began' = began
      BY <1>3, <2>1 DEF Moved
    <3>2. \A f \in Envs : (Active(f)' => Active(f)) /\ (At(f, "new")' => At(f, "new"))
      BY <1>4, <2>1 DEF Active, At
    <3> QED
      BY <3>1, <3>2, LatestKept
  <2>2. CASE env'[e].pc = "cleanup"
    <3>1. /\ mixed' = mixed \cup others \cup (IF others = {} THEN {} ELSE {e})
          /\ began'[NameOf[e]] = e /\ Active(e)' /\ ~At(e, "new")'
      BY <1>1, <1>3, <2>2 DEF Moved, EnvTypes, Active, At
    <3>2. ASSUME NEW f \in Envs \ {e}
          PROVE  /\ At(f, "new")' => began'[NameOf[f]] # f
                 /\ f \notin mixed' /\ Active(f)' => began'[NameOf[f]] = f
                 /\ f \notin mixed' /\ began'[NameOf[f]] = f => Sole(f)'
      <4>1. (Active(f)' <=> Active(f)) /\ (At(f, "new")' <=> At(f, "new")) /\ NameOf[f] \in Names
        BY <1>4 DEF Active, At, Names
      <4>2. CASE NameOf[f] = NameOf[e]
        BY <3>1, <4>1, <4>2
      <4>3. CASE NameOf[f] # NameOf[e]
        <5>1. began'[NameOf[f]] = began[NameOf[f]]
          BY <1>5, <4>1, <4>3
        <5>2. Sole(f) => Sole(f)'
          BY <1>4, <4>3 DEF Sole, Active
        <5> QED
          BY <1>4, <4>1, <5>1, <5>2 DEF EnvInv, LatestIsSole
      <4> QED
        BY <4>2, <4>3
    <3>3. e \notin mixed' => Sole(e)'
      <4>1. ASSUME others = {}, NEW f \in Envs \ {e}, NameOf[f] = NameOf[e] PROVE ~Active(f)'
        BY <1>4, <4>1 DEF Active
      <4> QED
        BY <3>1, <4>1 DEF Sole
    <3> QED
      BY <3>1, <3>2, <3>3 DEF LatestIsSole
  <2> QED
    BY <1>4, <2>1, <2>2
<1>10. OwnServices(e)' /\ OwnLogs(e)'
  <2>1. OwnServices(e)'
    BY <1>4 DEF OwnServices, At
  <2>2. env'[e].pc = "gone" => began'[NameOf[e]] # e
    BY <1>1, <1>3 DEF EnvInv, LatestIsSole, Moved
  <2> QED
    BY <1>4, <2>1, <2>2 DEF OwnLogs, At
<1>11. RunnersAreKnown'
  BY <1>2, <1>4, RunnersKept
<1> QED
  BY <1>6, <1>7, <1>8, <1>9, <1>10, <1>11, EnvStep

LEMMA Step_cleanup == ASSUME EnvInv, NEW e \in Envs, cleanup(e) PROVE EnvInv'
<1>1. At(e, "cleanup") /\ EnvTypes /\ NameOf[e] \in Names
  BY DEF cleanup, EnvInv, Names
<1>2. /\ log' = log /\ runner' = runner /\ port' = port /\ began' = began /\ mixed' = mixed
      /\ started' = started /\ unlogged' = unlogged
      /\ abandoned' = abandoned /\ leaked' = leaked /\ beside' = beside /\ seen' = seen
      /\ uncleaned' = IF containers'[NameOf[e]] = {} THEN uncleaned ELSE uncleaned \cup {e}
  BY DEF cleanup
<1>3. Moved(e, "compose", env[e].urls, env[e].stack)
  BY <1>1, GoesMoves DEF cleanup, Pcs, At
<1>4. /\ containers' \in [Names -> SUBSET Rows]
      /\ \A m \in Names \ {NameOf[e]} : containers'[m] = containers[m]
      /\ containers'[NameOf[e]] \subseteq containers[NameOf[e]]
  BY <1>1, ComposeDownDoes DEF cleanup
<1>5. Frame(e)
  BY <1>1, <1>2, <1>3, <1>4 DEF Frame, Moved, Active, At
<1>6. \A n \in Names : containers'[n] \subseteq containers[n]
  BY <1>4
<1>7. EnvTypes'
  BY <1>1, <1>2, <1>3, <1>4, <1>6, TypesKept DEF EnvTypes, TypeOK, Moved
<1>8. RowsAreKnown'
  BY <1>1, <1>2, <1>3, <1>6, RowsKept DEF Moved
<1>9. LatestIsSole'
  BY <1>1, <1>2, <1>3, LatestKept DEF Moved, Active, At
<1>10. OwnServices(e)' /\ OwnLogs(e)'
  BY <1>2, <1>3 DEF OwnServices, OwnLogs, Moved, At
<1>11. RunnersAreKnown'
  BY <1>2, <1>3, RunnersKept DEF Moved
<1> QED
  BY <1>5, <1>7, <1>8, <1>9, <1>10, <1>11, EnvStep

LEMMA Step_compose_up == ASSUME EnvInv, NEW e \in Envs, compose_up(e) PROVE EnvInv'
<1>1. At(e, "compose") /\ EnvTypes /\ NameOf[e] \in Names
  BY DEF compose_up, EnvInv, Names
<1>2. /\ log' = log /\ runner' = runner /\ port' = port /\ began' = began /\ mixed' = mixed
      /\ uncleaned' = uncleaned /\ unlogged' = unlogged
      /\ abandoned' = abandoned /\ leaked' = leaked /\ beside' = beside /\ seen' = seen
  BY DEF compose_up
<1>3. PICK ok \in BOOLEAN : ComposeUp(e, ok) /\ Goes(e, IF ok THEN "ports" ELSE "drop_log")
  BY DEF compose_up
<1>4. Moved(e, IF ok THEN "ports" ELSE "drop_log", env[e].urls, env[e].stack)
  BY <1>1, <1>3, GoesMoves DEF Pcs, At
<1>5. /\ containers' \in [Names -> SUBSET Rows]
      /\ \A m \in Names \ {NameOf[e]} : containers'[m] = containers[m]
      /\ containers'[NameOf[e]] = containers[NameOf[e]] \cup (started'[e] \X {e})
      /\ started' \in [Envs -> SUBSET Services]
      /\ \A f \in Envs \ {e} : started'[f] = started[f]
      /\ started'[e] \subseteq Missing(e) /\ (ok => started'[e] = Missing(e))
  BY <1>1, <1>3, ComposeUpDoes
<1>6. Frame(e)
  BY <1>1, <1>2, <1>4, <1>5 DEF Frame, Moved, Active, At
<1>7. EnvTypes'
  <2>1. ASSUME NEW n \in Names, NEW r \in containers'[n], NEW t \in containers'[n], r[1] = t[1]
        PROVE  r = t
    <3>1. CASE n # NameOf[e]
      BY <1>1, <1>5, <2>1, <3>1 DEF EnvTypes, TypeOK
    <3>2. CASE n = NameOf[e]
      <4>1. ASSUME NEW x \in containers[n], NEW y \in started'[e] \X {e} PROVE x[1] # y[1]
        BY <1>5, <3>2, <4>1 DEF Missing
      <4>2. \A x, y \in started'[e] \X {e} : x[1] = y[1] => x = y
        OBVIOUS
      <4> QED
        BY <1>1, <1>5, <2>1, <3>2, <4>1, <4>2 DEF EnvTypes, TypeOK
    <3> QED
      BY <3>1, <3>2
  <2>2. \A f \in Envs : ProbesLeft(f)'
    BY <1>1, <1>4 DEF EnvTypes, Moved, ProbesLeft, At
  <2> QED
    BY <1>1, <1>2, <1>4, <1>5, <2>1, <2>2 DEF EnvTypes, TypeOK, Moved
<1>8. RowsAreKnown'
  <2> SUFFICES ASSUME NEW n \in Names, NEW r \in containers'[n]
               PROVE  /\ NameOf[r[2]] = n
                      /\ ~At(r[2], "new")' /\ ~At(r[2], "cleanup")'
                      /\ At(r[2], "gone")' => r[2] \in abandoned'
    BY DEF RowsAreKnown
  <2>1. r \in containers[n] \/ (n = NameOf[e] /\ r \in started'[e] \X {e})
    BY <1>5
  <2>2. CASE r[2] = e
    <3>1. NameOf[e] = n
      BY <2>1, <2>2 DEF EnvInv, RowsAreKnown
    <3> QED
      BY <1>4, <2>2, <3>1 DEF Moved, At
  <2>3. CASE r[2] # e
    <3>1. r \in containers[n] /\ r[2] \in Envs \ {e}
      BY <1>1, <2>1, <2>3 DEF EnvTypes, TypeOK, Rows
    <3> QED
      BY <1>2, <1>4, <3>1 DEF Moved, At, EnvInv, RowsAreKnown
  <2> QED
    BY <2>2, <2>3
<1>9. LatestIsSole'
  BY <1>1, <1>2, <1>4, LatestKept DEF Moved, Active, At
<1>10. OwnServices(e)'
  <2>1. CASE e \notin mixed \cup uncleaned /\ ok
    <3>1. containers[NameOf[e]] = {}
      BY <1>1, <2>1 DEF EnvInv, OwnServices
    <3>2. Missing(e) = Services
      BY <3>1 DEF Missing
    <3>3. containers'[NameOf[e]] = Services \X {e}
      BY <1>5, <2>1, <3>1, <3>2
    <3> QED
      BY <1>4, <2>1, <3>3 DEF OwnServices, Moved, At
  <2>2. CASE ~(e \notin mixed \cup uncleaned /\ ok)
    BY <1>2, <1>4, <2>2 DEF OwnServices, Moved, At
  <2> QED
    BY <2>1, <2>2
<1>11. OwnLogs(e)'
  BY <1>4, <1>5 DEF OwnLogs, Moved, At
<1>12. RunnersAreKnown'
  BY <1>2, <1>4, RunnersKept DEF Moved
<1> QED
  BY <1>6, <1>7, <1>8, <1>9, <1>10, <1>11, <1>12, EnvStep

LEMMA Step_service_host_ports ==
    ASSUME EnvInv, NEW e \in Envs, service_host_ports(e) PROVE EnvInv'
<1>1. At(e, "ports") /\ EnvTypes /\ NameOf[e] \in Names
  BY DEF service_host_ports, EnvInv, Names
<1>2. /\ containers' = containers /\ log' = log /\ runner' = runner /\ port' = port
      /\ began' = began /\ mixed' = mixed /\ uncleaned' = uncleaned /\ started' = started
      /\ unlogged' = unlogged /\ abandoned' = abandoned /\ leaked' = leaked
      /\ beside' = beside /\ seen' = seen
  BY DEF service_host_ports, history
<1>3. \/ Moved(e, "probe", containers[NameOf[e]], env[e].stack)
      \/ Moved(e, "drop_log", env[e].urls, env[e].stack)
  <2>1. CASE env' = [env EXCEPT ![e].pc = "probe", ![e].urls = containers[NameOf[e]]]
    <3> DEFINE probing == [env[e] EXCEPT !.pc = "probe", !.urls = containers[NameOf[e]]]
    <3>1. /\ env \in [Envs -> Env] /\ env' = [env EXCEPT ![e] = probing]
          /\ containers[NameOf[e]] \in SUBSET Rows
      BY <1>1, <2>1 DEF EnvTypes, TypeOK
    <3>2. probing \in Env
      BY <3>1 DEF Env
    <3>3. /\ probing.pc = "probe" /\ probing.urls = containers[NameOf[e]]
          /\ probing.stack = env[e].stack /\ probing.probe = env[e].probe
      BY <3>1 DEF Env
    <3> HIDE DEF probing
    <3>4. env' \in [Envs -> Env] /\ env'[e] = probing
      BY <3>1, <3>2
    <3> QED
      BY <1>1, <3>1, <3>3, <3>4 DEF Moved, EnvTypes, ProbesLeft, At
  <2>2. CASE Goes(e, "drop_log")
    BY <1>1, <2>2, GoesMoves DEF Pcs, At
  <2> QED
    BY <2>1, <2>2 DEF service_host_ports
<1>4. /\ env' \in [Envs -> Env] /\ \A f \in Envs \ {e} : env'[f] = env[f]
      /\ env'[e].pc \in {"probe", "drop_log"} /\ env'[e].stack = env[e].stack
      /\ ProbesLeft(e)'
      /\ env'[e].pc = "probe" => env'[e].urls = containers[NameOf[e]]
  BY <1>3 DEF Moved
<1>5. Frame(e)
  BY <1>2, <1>4 DEF Frame
<1>6. EnvTypes'
  BY <1>1, <1>2, <1>4, TypesKept DEF EnvTypes, TypeOK
<1>7. RowsAreKnown'
  BY <1>2, <1>4, RowsKept DEF At
<1>8. LatestIsSole'
  BY <1>1, <1>2, <1>4, LatestKept DEF Active, At
<1>9. OwnServices(e)'
  BY <1>1, <1>2, <1>4 DEF EnvInv, OwnServices, At
<1>10. OwnLogs(e)'
  BY <1>1, <1>2, <1>4 DEF EnvInv, OwnLogs, At
<1>11. RunnersAreKnown'
  BY <1>2, <1>4, RunnersKept
<1> QED
  BY <1>5, <1>6, <1>7, <1>8, <1>9, <1>10, <1>11, EnvStep

LEMMA Step_probe == ASSUME EnvInv, NEW e \in Envs, probe(e) PROVE EnvInv'
<1>1. At(e, "probe") /\ EnvTypes /\ NameOf[e] \in Names
  BY DEF probe, EnvInv, Names
<1>2. /\ containers' = containers /\ log' = log /\ runner' = runner /\ port' = port
      /\ began' = began /\ mixed' = mixed /\ uncleaned' = uncleaned /\ started' = started
      /\ unlogged' = unlogged /\ abandoned' = abandoned /\ leaked' = leaked
      /\ beside' = beside /\ seen' = seen
  BY DEF probe, history
<1>3. \/ \E pc \in {"probe", "ready"} : Moved(e, pc, env[e].urls, env[e].stack)
      \/ Moved(e, "drop_log", {}, env[e].stack)
  <2>1. CASE /\ \E r \in env[e].urls :
                  r[1] = Probes[env[e].probe] /\ r \in containers[NameOf[e]]
             /\ env' = [env EXCEPT ![e].probe = @ + 1,
                                   ![e].pc = IF env[e].probe = Len(Probes) THEN "ready" ELSE @]
    <3> DEFINE next == IF env[e].probe = Len(Probes) THEN "ready" ELSE "probe"
               probed == [env[e] EXCEPT !.probe = @ + 1, !.pc = next]
    <3>1. env \in [Envs -> Env] /\ env' = [env EXCEPT ![e] = probed]
      BY <1>1, <2>1 DEF EnvTypes, TypeOK, At
    <3>2. env[e].probe \in 1..4 /\ Len(Probes) = 4 /\ env[e].probe + 1 \in 1..(Len(Probes) + 1)
      BY <1>1, <3>1 DEF Env, EnvTypes, ProbesLeft, At, Probes
    <3>3. probed \in Env
      BY <3>1, <3>2 DEF Env
    <3>4. /\ probed.pc = next /\ probed.urls = env[e].urls /\ probed.stack = env[e].stack
          /\ probed.probe = env[e].probe + 1
      BY <3>1 DEF Env
    <3>5. next \in {"probe", "ready"} /\ (env[e].probe + 1 <= Len(Probes) \/ next = "ready")
      BY <3>2
    <3> HIDE DEF probed, next
    <3>6. env' \in [Envs -> Env] /\ env'[e] = probed
      BY <3>1, <3>3
    <3> QED
      BY <3>1, <3>4, <3>5, <3>6 DEF Moved, ProbesLeft, At
  <2>2. CASE Drops(e)
    BY <1>1, <2>2, DropsMoves
  <2> QED
    BY <2>1, <2>2 DEF probe
<1>4. /\ env' \in [Envs -> Env] /\ \A f \in Envs \ {e} : env'[f] = env[f]
      /\ env'[e].pc \in {"probe", "ready", "drop_log"} /\ env'[e].stack = env[e].stack
      /\ ProbesLeft(e)'
      /\ env'[e].pc # "drop_log" => env'[e].urls = env[e].urls
  BY <1>3 DEF Moved
<1>5. Frame(e)
  BY <1>2, <1>4 DEF Frame
<1>6. EnvTypes'
  BY <1>1, <1>2, <1>4, TypesKept DEF EnvTypes, TypeOK
<1>7. RowsAreKnown'
  BY <1>2, <1>4, RowsKept DEF At
<1>8. LatestIsSole'
  BY <1>1, <1>2, <1>4, LatestKept DEF Active, At
<1>9. OwnServices(e)'
  BY <1>1, <1>2, <1>4 DEF EnvInv, OwnServices, At
<1>10. OwnLogs(e)'
  BY <1>1, <1>2, <1>4 DEF EnvInv, OwnLogs, At
<1>11. RunnersAreKnown'
  BY <1>2, <1>4, RunnersKept
<1> QED
  BY <1>5, <1>6, <1>7, <1>8, <1>9, <1>10, <1>11, EnvStep

\* The two captures: what is kept of a log is what the containers show.
LEMMA Step_down_log == ASSUME EnvInv, NEW e \in Envs, down_log(e) PROVE EnvInv'
<1>1. At(e, "down_log") /\ EnvTypes /\ NameOf[e] \in Names
  BY DEF down_log, EnvInv, Names
<1>2. /\ containers' = containers /\ runner' = runner /\ port' = port
      /\ began' = began /\ mixed' = mixed /\ uncleaned' = uncleaned /\ started' = started
      /\ abandoned' = abandoned /\ leaked' = leaked /\ beside' = beside /\ seen' = seen
  BY DEF down_log
<1>3. /\ log' \in [Names -> [by: Envs \cup {None}, rows: SUBSET Rows]]
      /\ \A m \in Names \ {NameOf[e]} : log'[m] = log[m]
      /\ unlogged \subseteq unlogged'
  BY <1>1, CapturedDoes DEF down_log, EnvTypes, TypeOK
<1>4. \/ /\ Moved(e, "down_stop", env[e].urls, env[e].stack)
         /\ e \notin unlogged' =>
              log'[NameOf[e]].by = e /\ log'[NameOf[e]].rows = containers[NameOf[e]]
      \/ Moved(e, "drop_log", env[e].urls, env[e].stack)
  BY <1>1, GoesMoves, CapturedDoes DEF down_log, Pcs, At
<1>5. /\ env' \in [Envs -> Env] /\ \A f \in Envs \ {e} : env'[f] = env[f]
      /\ env'[e].pc \in {"down_stop", "drop_log"} /\ env'[e].stack = env[e].stack
      /\ ProbesLeft(e)'
      /\ env'[e].pc = "down_stop" /\ e \notin unlogged' =>
           log'[NameOf[e]].by = e /\ log'[NameOf[e]].rows = containers[NameOf[e]]
  BY <1>4 DEF Moved
<1>6. Frame(e)
  BY <1>1, <1>2, <1>3, <1>5 DEF Frame, Active, At
<1>7. EnvTypes'
  BY <1>1, <1>2, <1>3, <1>5, TypesKept DEF EnvTypes, TypeOK
<1>8. RowsAreKnown'
  BY <1>2, <1>5, RowsKept DEF At
<1>9. LatestIsSole'
  BY <1>1, <1>2, <1>5, LatestKept DEF Active, At
<1>10. OwnServices(e)'
  BY <1>5 DEF OwnServices, At
<1>11. OwnLogs(e)'
  BY <1>1, <1>2, <1>3, <1>5 DEF EnvInv, OwnLogs, Logged, At
<1>12. RunnersAreKnown'
  BY <1>2, <1>5, RunnersKept
<1> QED
  BY <1>6, <1>7, <1>8, <1>9, <1>10, <1>11, <1>12, EnvStep

LEMMA Step_drop_log == ASSUME EnvInv, NEW e \in Envs, drop_log(e) PROVE EnvInv'
<1>1. At(e, "drop_log") /\ EnvTypes /\ NameOf[e] \in Names
  BY DEF drop_log, EnvInv, Names
<1>2. /\ containers' = containers /\ runner' = runner /\ port' = port
      /\ began' = began /\ mixed' = mixed /\ uncleaned' = uncleaned /\ started' = started
      /\ abandoned' = abandoned /\ leaked' = leaked /\ beside' = beside /\ seen' = seen
  BY DEF drop_log
<1>3. /\ log' \in [Names -> [by: Envs \cup {None}, rows: SUBSET Rows]]
      /\ \A m \in Names \ {NameOf[e]} : log'[m] = log[m]
      /\ unlogged \subseteq unlogged'
      /\ e \notin unlogged' =>
           log'[NameOf[e]].by = e /\ log'[NameOf[e]].rows = containers[NameOf[e]]
  BY <1>1, CapturedDoes DEF drop_log
<1>4. Moved(e, "drop_stop", env[e].urls, env[e].stack)
  BY <1>1, GoesMoves DEF drop_log, Pcs, At
<1>5. Frame(e)
  BY <1>1, <1>2, <1>3, <1>4 DEF Frame, Moved, Active, At
<1>6. EnvTypes'
  BY <1>1, <1>2, <1>3, <1>4, TypesKept DEF EnvTypes, TypeOK, Moved
<1>7. RowsAreKnown'
  BY <1>2, <1>4, RowsKept DEF Moved, At
<1>8. LatestIsSole'
  BY <1>1, <1>2, <1>4, LatestKept DEF Moved, Active, At
<1>9. OwnServices(e)'
  BY <1>4 DEF OwnServices, Moved, At
<1>10. OwnLogs(e)'
  BY <1>1, <1>2, <1>3, <1>4 DEF EnvInv, OwnLogs, Logged, Moved, At
<1>11. RunnersAreKnown'
  BY <1>2, <1>4, RunnersKept DEF Moved
<1> QED
  BY <1>5, <1>6, <1>7, <1>8, <1>9, <1>10, <1>11, EnvStep

LEMMA Step_down_stop == ASSUME EnvInv, NEW e \in Envs, down_stop(e) PROVE EnvInv'
<1>1. At(e, "down_stop") /\ EnvTypes /\ NameOf[e] \in Names
  BY DEF down_stop, EnvInv, Names
<1>2. /\ log' = log /\ runner' = runner /\ port' = port
      /\ began' = began /\ mixed' = mixed /\ uncleaned' = uncleaned /\ started' = started
      /\ abandoned' = abandoned /\ leaked' = leaked /\ beside' = beside /\ seen' = seen
  BY DEF down_stop
<1>3. PICK ok \in BOOLEAN :
        /\ ComposeDown(NameOf[e], ok)
        /\ Goes(e, IF ok THEN "gone" ELSE "drop_log")
        /\ unlogged' = IF ok THEN unlogged ELSE unlogged \cup {e}
  BY DEF down_stop
<1>4. Moved(e, IF ok THEN "gone" ELSE "drop_log", env[e].urls, env[e].stack)
  BY <1>1, <1>3, GoesMoves DEF Pcs, At
<1>5. /\ containers' \in [Names -> SUBSET Rows]
      /\ \A m \in Names \ {NameOf[e]} : containers'[m] = containers[m]
      /\ containers'[NameOf[e]] \subseteq containers[NameOf[e]]
      /\ ok => containers'[NameOf[e]] = {}
  BY <1>1, <1>3, ComposeDownDoes
<1>6. /\ env' \in [Envs -> Env] /\ \A f \in Envs \ {e} : env'[f] = env[f]
      /\ env'[e].pc = (IF ok THEN "gone" ELSE "drop_log") /\ env'[e].stack = env[e].stack
      /\ ProbesLeft(e)'
      /\ \A n \in Names : containers'[n] \subseteq containers[n]
  BY <1>4, <1>5 DEF Moved
<1>7. Frame(e)
  BY <1>1, <1>2, <1>3, <1>5, <1>6 DEF Frame, Active, At
<1>8. EnvTypes'
  BY <1>1, <1>2, <1>5, <1>6, TypesKept DEF EnvTypes, TypeOK
<1>9. RowsAreKnown'
  BY <1>2, <1>5, <1>6, RowsKept DEF At
<1>10. LatestIsSole'
  BY <1>1, <1>2, <1>6, LatestKept DEF Active, At
<1>11. OwnServices(e)'
  BY <1>6 DEF OwnServices, At
<1>12. OwnLogs(e)'
  BY <1>1, <1>2, <1>3, <1>6 DEF EnvInv, OwnLogs, Logged, At
<1>13. RunnersAreKnown'
  BY <1>2, <1>6, RunnersKept
<1> QED
  BY <1>7, <1>8, <1>9, <1>10, <1>11, <1>12, <1>13, EnvStep

LEMMA Step_drop_stop == ASSUME EnvInv, NEW e \in Envs, drop_stop(e) PROVE EnvInv'
<1>1. At(e, "drop_stop") /\ EnvTypes /\ NameOf[e] \in Names
  BY DEF drop_stop, EnvInv, Names
<1>2. /\ log' = log /\ runner' = runner /\ port' = port
      /\ began' = began /\ mixed' = mixed /\ uncleaned' = uncleaned /\ started' = started
      /\ unlogged' = unlogged /\ leaked' = leaked /\ beside' = beside /\ seen' = seen
  BY DEF drop_stop
<1>3. PICK ok \in BOOLEAN :
        /\ ComposeDown(NameOf[e], ok)
        /\ abandoned' = IF ok THEN abandoned ELSE abandoned \cup {e}
  BY DEF drop_stop
<1>4. Moved(e, "gone", env[e].urls, env[e].stack)
  BY <1>1, GoesMoves DEF drop_stop, Pcs, At
<1>5. /\ containers' \in [Names -> SUBSET Rows]
      /\ \A m \in Names \ {NameOf[e]} : containers'[m] = containers[m]
      /\ containers'[NameOf[e]] \subseteq containers[NameOf[e]]
      /\ ok => containers'[NameOf[e]] = {}
  BY <1>1, <1>3, ComposeDownDoes
<1>6. /\ env' \in [Envs -> Env] /\ \A f \in Envs \ {e} : env'[f] = env[f]
      /\ env'[e].pc = "gone" /\ env'[e].stack = env[e].stack
      /\ ProbesLeft(e)'
      /\ \A n \in Names : containers'[n] \subseteq containers[n]
      /\ abandoned \subseteq abandoned'
  BY <1>3, <1>4, <1>5 DEF Moved
<1>7. Frame(e)
  BY <1>1, <1>2, <1>5, <1>6 DEF Frame, Active, At
<1>8. EnvTypes'
  BY <1>1, <1>2, <1>5, <1>6, TypesKept DEF EnvTypes, TypeOK
<1>9. RowsAreKnown'
  BY <1>2, <1>3, <1>5, <1>6, RowsKept DEF At
<1>10. LatestIsSole'
  BY <1>1, <1>2, <1>6, LatestKept DEF Active, At
<1>11. OwnServices(e)'
  BY <1>6 DEF OwnServices, At
<1>12. OwnLogs(e)'
  BY <1>1, <1>2, <1>6 DEF EnvInv, OwnLogs, Logged, At
<1>13. RunnersAreKnown'
  BY <1>2, <1>6, RunnersKept
<1> QED
  BY <1>7, <1>8, <1>9, <1>10, <1>11, <1>12, <1>13, EnvStep

\* A TestStack that goes with its TestEnv leaves its runner behind.
LEMMA ReleasedRunners ==
    ASSUME EnvInv, NEW e \in Envs, \A f \in Envs \ {e} : env'[f] = env[f],
           env'[e].stack = "none",
           leaked' = IF env[e].stack = "none" THEN leaked ELSE leaked \cup {e},
           \A f \in Envs : runner'[f] \in {runner[f], "dead"},
           UNCHANGED <<beside, seen>>
    PROVE  RunnersAreKnown'
<1>1. \A f \in Envs :
        runner'[f] \in {"starting", "listening"} => env'[f].stack # "none" \/ f \in leaked'
  BY DEF EnvInv, RunnersAreKnown
<1>2. \A f \in Envs : env'[f].stack # "none" => env[f].stack # "none"
  OBVIOUS
<1>3. beside' = beside /\ seen' = seen /\ leaked \subseteq leaked'
  OBVIOUS
<1> QED
  BY <1>1, <1>2, <1>3 DEF EnvInv, RunnersAreKnown, HealthyRunnerIsOwn

LEMMA Step_finish == ASSUME EnvInv, NEW e \in Envs, finish(e) PROVE EnvInv'
<1>1. At(e, "ready") /\ EnvTypes /\ NameOf[e] \in Names
  BY DEF finish, EnvInv, Names
<1>2. /\ containers' = containers /\ log' = log /\ runner' = runner /\ port' = port
      /\ began' = began /\ mixed' = mixed /\ uncleaned' = uncleaned /\ started' = started
      /\ unlogged' = unlogged /\ abandoned' = abandoned /\ beside' = beside /\ seen' = seen
  BY DEF finish
<1>3. PICK pc \in {"down_log", "drop_log"} : Released(e, pc)
  BY DEF finish
<1>4. /\ Moved(e, pc, {}, "none")
      /\ leaked' = IF env[e].stack = "none" THEN leaked ELSE leaked \cup {e}
  BY <1>1, <1>3, ReleasedMoves DEF Pcs
<1>5. Frame(e)
  BY <1>1, <1>2, <1>4 DEF Frame, Moved
<1>6. EnvTypes'
  BY <1>1, <1>2, <1>4, TypesKept DEF EnvTypes, TypeOK, Moved
<1>7. RowsAreKnown'
  BY <1>2, <1>4, RowsKept DEF Moved, At
<1>8. LatestIsSole'
  BY <1>1, <1>2, <1>4, LatestKept DEF Moved, Active, At
<1>9. OwnServices(e)' /\ OwnLogs(e)'
  BY <1>1, <1>2, <1>4 DEF EnvInv, OwnServices, OwnLogs, Moved, At
<1>10. RunnersAreKnown'
  BY <1>2, <1>4, ReleasedRunners DEF Moved
<1> QED
  BY <1>5, <1>6, <1>7, <1>8, <1>9, <1>10, EnvStep

\* Who runs and who has the port go together.
PortTypes ==
    /\ runner \in [Envs -> {"none", "starting", "listening", "dead"}]
    /\ port \in Envs \cup {None}
    /\ \A f \in Envs : port = f <=> runner[f] = "listening"

LEMMA EndsDoes ==
    ASSUME EnvTypes, NEW e \in Envs, Ends(e)
    PROVE  /\ PortTypes'
           /\ \A f \in Envs : runner'[f] \in {runner[f], "dead"}
           /\ runner'[e] \in {"none", "dead"}
<1>1. /\ runner' = [runner EXCEPT ![e] = IF runner[e] = "none" THEN "none" ELSE "dead"]
      /\ port' = IF port = e THEN None ELSE port
      /\ PortTypes
  BY DEF Ends, EnvTypes, TypeOK, PortTypes
<1>2. /\ runner' \in [Envs -> {"none", "starting", "listening", "dead"}]
      /\ runner'[e] = IF runner[e] = "none" THEN "none" ELSE "dead"
      /\ \A f \in Envs \ {e} : runner'[f] = runner[f]
  BY <1>1 DEF PortTypes
<1>3. \A f \in Envs : port' = f <=> runner'[f] = "listening"
  BY <1>1, <1>2, EnvAssumption DEF PortTypes
<1>4. port' \in Envs \cup {None}
  BY <1>1 DEF PortTypes
<1> QED
  BY <1>2, <1>3, <1>4 DEF PortTypes

LEMMA Step_kill == ASSUME EnvInv, NEW e \in Envs, kill(e) PROVE EnvInv'
<1>1. Active(e) /\ EnvTypes /\ NameOf[e] \in Names
  BY DEF kill, EnvInv, Names
<1>2. /\ containers' = containers /\ log' = log
      /\ began' = began /\ mixed' = mixed /\ uncleaned' = uncleaned /\ started' = started
      /\ unlogged' = unlogged /\ abandoned' = abandoned \cup {e} /\ beside' = beside
      /\ seen' = seen
  BY DEF kill
<1>3. /\ Moved(e, "gone", {}, "none")
      /\ leaked' = IF env[e].stack = "none" THEN leaked ELSE leaked \cup {e}
  BY <1>1, ReleasedMoves DEF kill, Pcs
<1>4. PortTypes' /\ \A f \in Envs : runner'[f] \in {runner[f], "dead"}
  <2>1. CASE Ends(e)
    BY <1>1, <2>1, EndsDoes
  <2>2. CASE UNCHANGED <<runner, port>>
    BY <1>1, <2>2 DEF PortTypes, EnvTypes, TypeOK
  <2> QED
    BY <2>1, <2>2 DEF kill
<1>5. Frame(e)
  BY <1>1, <1>2, <1>3 DEF Frame, Moved
<1>6. EnvTypes'
  <2>1. \A f \in Envs : ProbesLeft(f)'
    BY <1>1, <1>3 DEF EnvTypes, Moved, ProbesLeft, At
  <2> QED
    BY <1>1, <1>2, <1>3, <1>4, <2>1 DEF EnvTypes, TypeOK, PortTypes, Moved
<1>7. RowsAreKnown'
  BY <1>2, <1>3, RowsKept DEF Moved, At
<1>8. LatestIsSole'
  BY <1>1, <1>2, <1>3, LatestKept DEF Moved, Active, At
<1>9. OwnServices(e)' /\ OwnLogs(e)'
  BY <1>2, <1>3 DEF OwnServices, OwnLogs, Moved, At
<1>10. RunnersAreKnown'
  BY <1>2, <1>3, <1>4, ReleasedRunners DEF Moved
<1> QED
  BY <1>5, <1>6, <1>7, <1>8, <1>9, <1>10, EnvStep

-----------------------------------------------------------------------------
(* The steps of a TestStack                                                *)

\* What has to be shown of a step of a TestStack or its runner: it leaves the
\* projects alone.
LEMMA StackStep ==
    ASSUME EnvInv, env' \in [Envs -> Env], PortTypes', RunnersAreKnown',
           \A f \in Envs : /\ env'[f].pc = env[f].pc /\ env'[f].urls = env[f].urls
                           /\ ProbesLeft(f)',
           UNCHANGED <<containers, log, began, mixed, uncleaned, started, unlogged, abandoned>>
    PROVE  EnvInv'
<1>1. RowsAreKnown' /\ LatestIsSole' /\ \A f \in Envs : OwnServices(f)' /\ OwnLogs(f)'
  BY ProjectsKept
<1>2. containers' = containers /\ log' = log /\ began' = began /\ started' = started
  OBVIOUS
<1>3. EnvTypes'
  BY <1>2 DEF EnvInv, EnvTypes, TypeOK, PortTypes
<1> QED
  BY <1>1, <1>3 DEF EnvInv

\* The records after a step that sets the TestStack of e.
LEMMA StackSet ==
    ASSUME EnvTypes, NEW e \in Envs, NEW stack \in {"none", "up", "checking"},
           env' = [env EXCEPT ![e].stack = stack]
    PROVE  /\ env' \in [Envs -> Env]
           /\ env'[e].stack = stack
           /\ \A f \in Envs \ {e} : env'[f] = env[f]
           /\ \A f \in Envs : /\ env'[f].pc = env[f].pc /\ env'[f].urls = env[f].urls
                              /\ ProbesLeft(f)'
<1>1. Moved(e, env[e].pc, env[e].urls, stack)
  BY StackMoves
<1> QED
  BY <1>1 DEF Moved, EnvTypes, ProbesLeft, At

LEMMA Step_up_stack == ASSUME EnvInv, NEW e \in Envs, up_stack(e) PROVE EnvInv'
<1> DEFINE others == {f \in Envs \ {e} : env[f].stack # "none"}
<1>1. /\ env[e].stack = "none" /\ runner[e] = "none" /\ EnvTypes
      /\ runner' = [runner EXCEPT ![e] = "starting"]
      /\ beside' = beside \cup others \cup (IF others = {} THEN {} ELSE {e})
      /\ port' = port /\ seen' = seen
  BY DEF up_stack, EnvInv
<1>2. UNCHANGED <<containers, log, began, mixed, uncleaned, started, unlogged, abandoned>>
  BY DEF up_stack
<1>3. /\ runner'[e] = "starting" /\ \A f \in Envs \ {e} : runner'[f] = runner[f]
      /\ PortTypes'
  BY <1>1 DEF EnvTypes, TypeOK, PortTypes
<1>4. /\ env' \in [Envs -> Env]
      /\ \A f \in Envs \ {e} : env'[f] = env[f]
      /\ \A f \in Envs : /\ env'[f].pc = env[f].pc /\ env'[f].urls = env[f].urls
                         /\ ProbesLeft(f)'
      /\ env'[e].stack # "none" \/ e \in leaked'
      /\ leaked \subseteq leaked'
  <2>1. CASE env' = [env EXCEPT ![e].stack = "up"] /\ UNCHANGED leaked
    <3>1. leaked' = leaked
      BY <2>1
    <3> QED
      BY <1>1, <2>1, <3>1, StackSet
  <2>2. CASE UNCHANGED env /\ leaked' = leaked \cup {e}
    <3>1. env' = env
      BY <2>2
    <3>2. \A f \in Envs : ProbesLeft(f)'
      BY <1>1, <3>1 DEF EnvTypes, ProbesLeft, At
    <3> QED
      BY <1>1, <2>2, <3>1, <3>2 DEF EnvTypes, TypeOK
  <2> QED
    BY <2>1, <2>2 DEF up_stack
<1>5. RunnersAreKnown'
  <2>1. ASSUME NEW f \in Envs, runner'[f] \in {"starting", "listening"}
        PROVE  env'[f].stack # "none" \/ f \in leaked'
    BY <1>3, <1>4, <2>1 DEF EnvInv, RunnersAreKnown
  <2>2. ASSUME NEW f \in Envs, NEW g \in Envs, f # g,
               env'[f].stack # "none", env'[g].stack # "none"
        PROVE  g \in beside'
    <3>1. CASE f = e
      <4>1. g \in others
        BY <1>4, <2>2, <3>1
      <4> QED
        BY <1>1, <4>1
    <3>2. CASE g = e
      <4>1. f \in others
        BY <1>4, <2>2, <3>2
      <4> QED
        BY <1>1, <3>2, <4>1
    <3>3. CASE f # e /\ g # e
      BY <1>1, <1>4, <2>2, <3>3 DEF EnvInv, RunnersAreKnown
    <3> QED
      BY <3>1, <3>2, <3>3
  <2>3. HealthyRunnerIsOwn'
    BY <1>1, <1>4 DEF EnvInv, RunnersAreKnown, HealthyRunnerIsOwn
  <2> QED
    BY <2>1, <2>2, <2>3 DEF RunnersAreKnown
<1> QED
  BY <1>2, <1>3, <1>4, <1>5, StackStep

LEMMA Step_listen == ASSUME EnvInv, NEW e \in Envs, listen(e) PROVE EnvInv'
<1>1. /\ runner[e] = "starting" /\ EnvTypes /\ PortTypes
      /\ env' = env /\ leaked' = leaked /\ beside' = beside /\ seen' = seen
      /\ UNCHANGED <<containers, log, began, mixed, uncleaned, started, unlogged, abandoned>>
  BY DEF listen, EnvInv, EnvTypes, TypeOK, PortTypes, history
<1>2. /\ runner'[e] \in {"listening", "dead"} /\ \A f \in Envs \ {e} : runner'[f] = runner[f]
      /\ PortTypes'
  <2>1. CASE port = None /\ port' = e /\ runner' = [runner EXCEPT ![e] = "listening"]
    BY <1>1, <2>1, EnvAssumption DEF PortTypes
  <2>2. CASE UNCHANGED port /\ runner' = [runner EXCEPT ![e] = "dead"]
    <3>1. port' = port
      BY <2>2
    <3> QED
      BY <1>1, <2>2, <3>1 DEF PortTypes
  <2> QED
    BY <2>1, <2>2 DEF listen
<1>3. RunnersAreKnown'
  BY <1>1, <1>2 DEF EnvInv, RunnersAreKnown, HealthyRunnerIsOwn
<1>4. /\ env' \in [Envs -> Env]
      /\ \A f \in Envs : /\ env'[f].pc = env[f].pc /\ env'[f].urls = env[f].urls
                         /\ ProbesLeft(f)'
  BY <1>1 DEF EnvTypes, TypeOK, ProbesLeft, At
<1> QED
  BY <1>1, <1>2, <1>3, <1>4, StackStep

LEMMA Step_ensure_running ==
    ASSUME EnvInv, NEW e \in Envs, ensure_running(e) PROVE EnvInv'
<1>1. /\ env[e].stack = "up" /\ EnvTypes /\ PortTypes
      /\ env' = [env EXCEPT ![e].stack = "checking"]
      /\ runner' = runner /\ port' = port /\ leaked' = leaked /\ beside' = beside
      /\ seen' = seen
      /\ UNCHANGED <<containers, log, began, mixed, uncleaned, started, unlogged, abandoned>>
  BY DEF ensure_running, EnvInv, EnvTypes, TypeOK, PortTypes, history
<1>2. /\ env' \in [Envs -> Env] /\ env'[e].stack = "checking"
      /\ \A f \in Envs \ {e} : env'[f] = env[f]
      /\ \A f \in Envs : /\ env'[f].pc = env[f].pc /\ env'[f].urls = env[f].urls
                         /\ ProbesLeft(f)'
  BY <1>1, StackSet
<1>3. RunnersAreKnown' /\ PortTypes'
  <2>1. \A f \in Envs : env'[f].stack # "none" <=> env[f].stack # "none"
    BY <1>1, <1>2
  <2> QED
    BY <1>1, <2>1 DEF EnvInv, RunnersAreKnown, HealthyRunnerIsOwn, PortTypes
<1> QED
  BY <1>1, <1>2, <1>3, StackStep

\* Whoever answers the healthcheck has the port, so it runs: it has a TestStack
\* beside this one, or lost it.
LEMMA Step_connect == ASSUME EnvInv, NEW e \in Envs, connect(e) PROVE EnvInv'
<1>1. /\ env[e].stack = "checking" /\ EnvTypes /\ PortTypes
      /\ env' = [env EXCEPT ![e].stack = "up"] /\ seen' = [seen EXCEPT ![e] = port]
      /\ runner' = runner /\ port' = port /\ leaked' = leaked /\ beside' = beside
      /\ UNCHANGED <<containers, log, began, mixed, uncleaned, started, unlogged, abandoned>>
  BY DEF connect, EnvInv, EnvTypes, TypeOK, PortTypes
<1>2. /\ env' \in [Envs -> Env] /\ env'[e].stack = "up"
      /\ \A f \in Envs \ {e} : env'[f] = env[f]
      /\ \A f \in Envs : /\ env'[f].pc = env[f].pc /\ env'[f].urls = env[f].urls
                         /\ ProbesLeft(f)'
  BY <1>1, StackSet
<1>3. port \notin {None, e} => port \in leaked \cup beside
  <2>1. ASSUME NEW f \in Envs, f # e, port = f PROVE f \in leaked \cup beside
    <3>1. runner[f] = "listening"
      BY <1>1, <2>1 DEF PortTypes
    <3> QED
      BY <1>1, <2>1, <3>1 DEF EnvInv, RunnersAreKnown
  <2> QED
    BY <1>1, <2>1 DEF PortTypes
<1>4. HealthyRunnerIsOwn'
  BY <1>1, <1>3 DEF EnvInv, RunnersAreKnown, HealthyRunnerIsOwn, EnvTypes
<1>5. RunnersAreKnown' /\ PortTypes'
  <2>1. \A f \in Envs : env'[f].stack # "none" <=> env[f].stack # "none"
    BY <1>1, <1>2
  <2> QED
    BY <1>1, <1>4, <2>1 DEF EnvInv, RunnersAreKnown, PortTypes
<1> QED
  BY <1>1, <1>2, <1>5, StackStep

LEMMA Step_stack_down == ASSUME EnvInv, NEW e \in Envs, stack_down(e) PROVE EnvInv'
<1>1. /\ EnvTypes /\ Ends(e)
      /\ env' = [env EXCEPT ![e].stack = "none"]
      /\ leaked' = leaked /\ beside' = beside /\ seen' = seen
      /\ UNCHANGED <<containers, log, began, mixed, uncleaned, started, unlogged, abandoned>>
  BY DEF stack_down, Stop, EnvInv, history
<1>2. /\ env' \in [Envs -> Env] /\ env'[e].stack = "none"
      /\ \A f \in Envs \ {e} : env'[f] = env[f]
      /\ \A f \in Envs : /\ env'[f].pc = env[f].pc /\ env'[f].urls = env[f].urls
                         /\ ProbesLeft(f)'
  BY <1>1, StackSet
<1>3. /\ PortTypes'
      /\ \A f \in Envs : runner'[f] \in {runner[f], "dead"}
      /\ runner'[e] \in {"none", "dead"}
  BY <1>1, EndsDoes
<1>4. RunnersAreKnown'
  <2>1. \A f \in Envs : env'[f].stack # "none" => env[f].stack # "none"
    BY <1>2
  <2>2. \A f \in Envs : runner'[f] \in {"starting", "listening"} =>
                            env'[f].stack # "none" \/ f \in leaked'
    BY <1>1, <1>2, <1>3 DEF EnvInv, RunnersAreKnown
  <2> QED
    BY <1>1, <2>1, <2>2 DEF EnvInv, RunnersAreKnown, HealthyRunnerIsOwn
<1> QED
  BY <1>1, <1>2, <1>3, <1>4, StackStep

-----------------------------------------------------------------------------
(* The theorems                                                            *)

LEMMA InitEnvInv == ASSUME Init PROVE EnvInv
<1> USE DEF Init
<1>1. TypeOK
  <2>1. /\ containers \in [Names -> SUBSET Rows] /\ \A n \in Names : containers[n] = {}
        /\ log \in [Names -> [by: Envs \cup {None}, rows: SUBSET Rows]]
    OBVIOUS
  <2>2. env \in [Envs -> Env]
    <3>1. [pc |-> "new", urls |-> {}, probe |-> 1, stack |-> "none"] \in Env
      BY DEF Env, Probes
    <3> QED
      BY <3>1
  <2>3. PortTypes
    BY EnvAssumption DEF PortTypes
  <2> QED
    BY <2>1, <2>2, <2>3 DEF TypeOK, PortTypes
<1>2. EnvTypes
  <2>1. \A e \in Envs : ProbesLeft(e)
    BY DEF ProbesLeft, Probes
  <2> QED
    BY <1>1, <2>1 DEF EnvTypes
<1>3. \A e \in Envs : At(e, "new") /\ env[e].stack = "none" /\ runner[e] = "none"
  BY DEF At
<1>4. RowsAreKnown
  BY DEF RowsAreKnown
<1>5. LatestIsSole
  <2>1. \A e \in Envs : NameOf[e] \in Names /\ began[NameOf[e]] # e /\ ~Active(e)
    BY EnvAssumption DEF Names, Active
  <2> QED
    BY <2>1 DEF LatestIsSole
<1>6. \A e \in Envs : OwnServices(e) /\ OwnLogs(e)
  BY <1>3 DEF OwnServices, OwnLogs, At
<1>7. RunnersAreKnown
  BY <1>3 DEF RunnersAreKnown, HealthyRunnerIsOwn
<1> QED
  BY <1>2, <1>4, <1>5, <1>6, <1>7 DEF EnvInv

LEMMA NextEnvInv == ASSUME EnvInv, [Next]_vars PROVE EnvInv'
<1>1. ASSUME NEW e \in Envs,
             \/ begin(e) \/ cleanup(e) \/ compose_up(e) \/ service_host_ports(e) \/ probe(e)
             \/ finish(e) \/ down_log(e) \/ down_stop(e) \/ drop_log(e) \/ drop_stop(e)
             \/ kill(e)
      PROVE  EnvInv'
  BY <1>1, Step_begin, Step_cleanup, Step_compose_up, Step_service_host_ports, Step_probe,
     Step_finish, Step_down_log, Step_down_stop, Step_drop_log, Step_drop_stop, Step_kill
<1>2. ASSUME NEW e \in Envs,
             up_stack(e) \/ listen(e) \/ ensure_running(e) \/ connect(e) \/ stack_down(e)
      PROVE  EnvInv'
  BY <1>2, Step_up_stack, Step_listen, Step_ensure_running, Step_connect, Step_stack_down
<1>3. ASSUME UNCHANGED vars PROVE EnvInv'
  <2>1. /\ env' = env /\ runner' = runner /\ port' = port
        /\ leaked' = leaked /\ beside' = beside /\ seen' = seen
        /\ UNCHANGED <<containers, log, began, mixed, uncleaned, started, unlogged, abandoned>>
    BY <1>3 DEF vars, history
  <2>2. PortTypes' /\ RunnersAreKnown'
    BY <2>1 DEF EnvInv, EnvTypes, TypeOK, PortTypes, RunnersAreKnown, HealthyRunnerIsOwn
  <2>3. /\ env' \in [Envs -> Env]
        /\ \A f \in Envs : /\ env'[f].pc = env[f].pc /\ env'[f].urls = env[f].urls
                           /\ ProbesLeft(f)'
    BY <2>1 DEF EnvInv, EnvTypes, TypeOK, ProbesLeft, At
  <2> QED
    BY <2>1, <2>2, <2>3, StackStep
<1> QED
  BY <1>1, <1>2, <1>3 DEF Next

LEMMA EnvInvHolds == Spec => []EnvInv
BY InitEnvInv, NextEnvInv, PTL DEF Spec

\* The types of the TestEnvs, the containers, the runners and the logs.
THEOREM EnvsHaveTypes == Spec => []TypeOK
BY EnvInvHolds, PTL DEF EnvInv, EnvTypes

\* Whatever else ran before: a test that up let begin, with a cleanup that
\* succeeded and no namesake beside it, has its own services, all running.
THEOREM ServicesAreOwn == Spec => []ReadyServicesAreOwn
<1>1. EnvInv => ReadyServicesAreOwn
  BY DEF EnvInv, OwnServices, ReadyServicesAreOwn, At
<1> QED
  BY <1>1, EnvInvHolds, PTL

\* Only a killed test, or a last teardown that failed, leaves containers.
THEOREM NothingIsLeft == Spec => []TeardownLeavesNothing
<1>1. EnvInv => TeardownLeavesNothing
  BY DEF EnvInv, RowsAreKnown, TeardownLeavesNothing
<1> QED
  BY <1>1, EnvInvHolds, PTL

\* compose.log shows what the last test of its name started.
THEOREM LogsAreKept == Spec => []LogsSurviveTeardown
<1>1. EnvInv => LogsSurviveTeardown
  BY DEF EnvInv, OwnLogs, Logged, LogsSurviveTeardown
<1> QED
  BY <1>1, EnvInvHolds, PTL

\* No runner that was taken down answers a healthcheck.
THEOREM RunnersAreOwn == Spec => []HealthyRunnerIsOwn
<1>1. EnvInv => HealthyRunnerIsOwn
  BY DEF EnvInv, RunnersAreKnown
<1> QED
  BY <1>1, EnvInvHolds, PTL

=============================================================================
