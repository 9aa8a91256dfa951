------------------------- MODULE GtestScenariosProofs -------------------------
(***************************************************************************)
(* Theorems about GtestScenarios, for any scenarios, steps and flags: what *)
(* a scenario that passed has checked, what its commands ran with, what    *)
(* its step logs show and whose trace a replay hint names.                 *)
(***************************************************************************)
EXTENDS GtestScenarios, FiniteSetTheorems, TLAPS

-----------------------------------------------------------------------------
(* The inductive invariant                                                 *)

Exits == Codes \cup {Nothing}
Artifacts == [logs: SUBSET ((Nat \ {0}) \X Owners \X Exits), trace: Owners \cup {Nothing}]
Result == [status: {"none", "passed", "failed"}, hint: Owners \cup {Nothing}]
Ran == Scenarios \X Nat \X Exits \X (SUBSET Names) \X (SUBSET Faults)

\* A scenario is running.
Underway == phase = "running" /\ current # Nothing

\* The types; the directory of the scenario that runs is there.
ScenarioTypes ==
    /\ run_opts \in RunOptions
    /\ phase \in {"start", "running", "passed", "failed", "error"}
    /\ waiting \subseteq Scenarios
    /\ current \in Scenarios \cup {Nothing}
    /\ ctx \in Context
    /\ current # Nothing => at \in 1..(Len(StepsOf[current]) + 1)
    /\ workdirs \subseteq DirNames \cup Scenarios
    /\ trace \in [Dirs -> Owners \cup {Nothing}]
    /\ artifacts \in [DirNames -> Artifacts]
    /\ results \in [Scenarios -> Result]
    /\ ran \subseteq Ran /\ IsFiniteSet(ran)
    /\ current # Nothing => ScenarioWorkdir(current) \in workdirs
    /\ \A d \in Dirs : trace[d] # Nothing => d \in workdirs \cup Places

\* A scenario is waiting, then runs, then has a result, and runs once.  At the
\* start there is only what an earlier invocation left.
OneByOne ==
    /\ current \notin waiting
    /\ phase = "start" =>
          /\ waiting = Scenarios /\ current = Nothing
          /\ \A n \in DirNames : artifacts[n].trace \in {"earlier", Nothing}
    /\ \A s \in Scenarios : results[s].status # "none" \/ results[s].hint # Nothing =>
          s \notin waiting /\ s # current
    /\ \A r \in ran : r[1] \notin waiting
    /\ Underway => \A r \in RanBy(current) : r[2] < at

\* What the first i - 1 steps of s set and make fail.
SetBy(s, i) == {StepsOf[s][j].name : j \in Kinds(s, i, "set")}
FaultsBy(s, i) == {StepsOf[s][j].fault : j \in Kinds(s, i, "fail")}

\* The context holds what the steps so far make of it, and counts the commands.
OwnContext ==
    Underway =>
        /\ ctx.vars = SetBy(current, at) /\ ctx.faults = FaultsBy(current, at)
        /\ ctx.step_index = Cardinality(RanBy(current))

\* The paths of the context are those of the scenario's steps.
PathsOf(c, s) ==
    /\ c.cwd \in {ScenarioWorkdir(s)} \cup Visits[s]
    /\ c.out \in {"none"} \cup TargetsOf[s]
    /\ c.arg \in {"none"} \cup TargetsOf[s]
OwnPaths == Underway => PathsOf(ctx, current)

\* An exit code the scenario expects before the next command.
Met(r) ==
    \E j \in (r[2] + 1)..Len(StepsOf[r[1]]) :
        /\ StepsOf[r[1]][j] = [kind |-> "expect_exit", code |-> r[3]]
        /\ \A k \in (r[2] + 1)..j : StepsOf[r[1]][k].kind # "command"

\* The last command so far, its exit code not expected yet.
Awaited(r) ==
    /\ ctx.last = "run" /\ ctx.exit = r[3] /\ ~ctx.checked
    /\ \A k \in (r[2] + 1)..(at - 1) : StepsOf[r[1]][k].kind # "command"

ExitsMet ==
    /\ Underway /\ ~ctx.failure =>
          \A r \in RanBy(current) : r[3] \notin {0, Nothing} => Met(r) \/ Awaited(r)
    /\ \A r \in ran : results[r[1]].status = "passed" /\ r[3] \notin {0, Nothing} => Met(r)

\* Whose trace may lie in a directory, under a name of the artifacts, or be
\* named by the hint of a scenario of that name.
FromProcess == IF run_opts.env_trace THEN {"process"} ELSE {}
OfDir(d) ==
    {t \in Scenarios : ScenarioWorkdir(t) = d \/ d \in WritesTo[t]}
    \cup (IF run_opts.workdir \/ d \in Places THEN {"earlier"} ELSE {})
OfName(n) ==
    {t \in Scenarios : \/ NameOf[t] = n
                       \/ \E u \in Scenarios : NameOf[u] = n /\ WritesTo[t] \cap ReadsFrom[u] # {}}
    \cup (IF \/ run_opts.keep_artifacts \/ run_opts.workdir
             \/ \E u \in Scenarios : NameOf[u] = n /\ ReadsFrom[u] # {}
          THEN {"earlier"} ELSE {})
    \cup FromProcess

\* Once the artifacts of an earlier invocation have been dealt with.
Cleaned == phase = "running" \/ waiting # Scenarios

TracesAreOwn ==
    /\ \A d \in Dirs : trace[d] \in OfDir(d) \cup {Nothing}
    /\ Cleaned => \A n \in DirNames : artifacts[n].trace \in OfName(n) \cup {Nothing}
    /\ \A s \in Scenarios : results[s].hint # Nothing =>
          results[s].hint \in OfName(NameOf[s]) /\ artifacts[NameOf[s]].trace # Nothing

\* The step logs of the commands of s.
LogsOf(s) == {<<Cardinality({q \in RanBy(s) : q[2] <= r[2]}), s, r[3]>> : r \in RanBy(s)}

LogsAreOwn ==
    \A s \in Scenarios :
        /\ Cleaned /\ (s = current => phase = "running")
        /\ run_opts.artifacts_dir /\ ~run_opts.keep_artifacts /\ Namesakes(s) = {s}
        => artifacts[NameOf[s]].logs = LogsOf(s)

ScenarioInv ==
    /\ ScenarioTypes /\ OneByOne
    /\ OwnContext /\ OwnPaths /\ ContextIsScenarioOwn
    /\ ExitsMet /\ TracesAreOwn /\ LogsAreOwn

-----------------------------------------------------------------------------
(* Names, directories and steps                                            *)

LEMMA NamesAndDirs ==
    ASSUME NEW s \in Scenarios
    PROVE  /\ NameOf[s] \in DirNames
           /\ ScenarioWorkdir(s) \in DirNames \cup Scenarios
           /\ ScenarioWorkdir(s) \in Dirs
           /\ s # Nothing
BY ScenarioAssumption DEF DirNames, ScenarioWorkdir, Owners, Dirs

\* The places of a scenario.
LEMMA PlacesOf ==
    ASSUME NEW s \in Scenarios
    PROVE  /\ Visits[s] \subseteq Places /\ TargetsOf[s] \subseteq Targets
           /\ Visits[s] \subseteq WritesTo[s] /\ TargetsOf[s] \cap Places \subseteq WritesTo[s]
           /\ Visits[s] \subseteq ReadsFrom[s] /\ TargetsOf[s] \cap Places \subseteq ReadsFrom[s]
           /\ RunsCargo(s) => RepoRoot \in WritesTo[s]
           /\ "relative" \in TargetsOf[s] => RepoRoot \in ReadsFrom[s]
           /\ WritesTo[s] \subseteq Places /\ ReadsFrom[s] \subseteq Places
           /\ Places \subseteq Dirs
<1>1. Visits[s] \subseteq Places /\ TargetsOf[s] \subseteq Targets
  BY DEF Visits, TargetsOf
<1>2. /\ WritesTo[s] = Visits[s] \cup (TargetsOf[s] \cap Places)
                       \cup (IF RunsCargo(s) THEN {RepoRoot} ELSE {})
      /\ ReadsFrom[s] = Visits[s] \cup (TargetsOf[s] \cap Places)
                       \cup (IF "relative" \in TargetsOf[s] THEN {RepoRoot} ELSE {})
  BY Zenon DEF WritesTo, ReadsFrom
<1>3. RepoRoot \in Places
  BY ScenarioAssumption
<1> QED
  BY <1>1, <1>2, <1>3 DEF Dirs

\* Whose traces may lie where depends on the plans and the flags only.
LEMMA SameOwners ==
    ASSUME run_opts' = run_opts
    PROVE  /\ \A d : OfDir(d)' = OfDir(d)
           /\ \A n : OfName(n)' = OfName(n)
           /\ \A s : ScenarioWorkdir(s)' = ScenarioWorkdir(s)
BY DEF OfDir, OfName, FromProcess, ScenarioWorkdir

LEMMA NothingOwns ==
    ASSUME NEW n PROVE Nothing \notin OfName(n)
BY ScenarioAssumption DEF OfName, FromProcess, Owners

\* The step a scenario is at.
LEMMA StepIsTyped ==
    ASSUME ScenarioTypes, NEW kind, AtScenarioStep(kind)
    PROVE  /\ Underway /\ current \in Scenarios /\ ~ctx.failure
           /\ at \in 1..Len(StepsOf[current])
           /\ StepNow \in ScenarioStep /\ StepNow.kind = kind
           /\ at + 1 \in 1..(Len(StepsOf[current]) + 1)
<1>1. current \in Scenarios /\ Underway /\ ~ctx.failure /\ StepNow.kind = kind
  BY DEF ScenarioTypes, AtScenarioStep, Underway
<1>2. StepsOf[current] \in Seq(ScenarioStep)
  BY <1>1, ScenarioAssumption
<1>3. Len(StepsOf[current]) \in Nat /\ at \in 1..Len(StepsOf[current])
  BY <1>1, <1>2 DEF ScenarioTypes, AtScenarioStep
<1>4. StepNow \in ScenarioStep
  BY <1>2, <1>3 DEF StepNow
<1> QED
  BY <1>1, <1>3, <1>4

LEMMA KindsGrow ==
    ASSUME NEW s \in Scenarios, NEW i \in 1..Len(StepsOf[s]), NEW kind
    PROVE  Kinds(s, i + 1, kind) =
             Kinds(s, i, kind) \cup (IF StepsOf[s][i].kind = kind THEN {i} ELSE {})
<1>1. 1..((i + 1) - 1) = (1..(i - 1)) \cup {i}
  OBVIOUS
<1> QED
  BY <1>1 DEF Kinds

\* What one more step adds to what the steps set and make fail.
LEMMA OwnGrows ==
    ASSUME NEW s \in Scenarios, NEW i \in 1..Len(StepsOf[s])
    PROVE  /\ SetBy(s, i + 1) = SetBy(s, i) \cup
                (IF StepsOf[s][i].kind = "set" THEN {StepsOf[s][i].name} ELSE {})
           /\ FaultsBy(s, i + 1) = FaultsBy(s, i) \cup
                (IF StepsOf[s][i].kind = "fail" THEN {StepsOf[s][i].fault} ELSE {})
<1>1. Kinds(s, i + 1, "set") =
        Kinds(s, i, "set") \cup (IF StepsOf[s][i].kind = "set" THEN {i} ELSE {})
  BY KindsGrow
<1>2. Kinds(s, i + 1, "fail") =
        Kinds(s, i, "fail") \cup (IF StepsOf[s][i].kind = "fail" THEN {i} ELSE {})
  BY KindsGrow
<1> QED
  BY <1>1, <1>2 DEF SetBy, FaultsBy

LEMMA NothingBefore ==
    ASSUME NEW s
    PROVE  SetBy(s, 1) = {} /\ FaultsBy(s, 1) = {}
<1>1. 1..(1 - 1) = {}
  OBVIOUS
<1> QED
  BY <1>1 DEF SetBy, FaultsBy, Kinds

-----------------------------------------------------------------------------
(* What steps have in common                                               *)

LEMMA SameLogsOf == ASSUME NEW s, RanBy(s)' = RanBy(s) PROVE LogsOf(s)' = LogsOf(s)
BY Zenon DEF LogsOf

\* Nothing is written: the traces and the logs are whose they were.
LEMMA WritesNothing ==
    ASSUME ScenarioInv,
           UNCHANGED <<run_opts, phase, waiting, current, trace, artifacts, results, ran>>
    PROVE  TracesAreOwn' /\ LogsAreOwn'
<1>1. /\ run_opts' = run_opts /\ phase' = phase /\ waiting' = waiting /\ current' = current
      /\ trace' = trace /\ artifacts' = artifacts /\ results' = results /\ ran' = ran
  OBVIOUS
<1>2. TracesAreOwn'
  BY <1>1, SameOwners DEF ScenarioInv, TracesAreOwn, Cleaned
<1>3. LogsAreOwn'
  <2>1. \A s \in Scenarios : LogsOf(s)' = LogsOf(s)
    BY <1>1, SameLogsOf DEF RanBy
  <2> QED
    BY <1>1, <2>1 DEF ScenarioInv, LogsAreOwn, Cleaned
<1> QED
  BY <1>2, <1>3

\* The types after a step that goes on in the same scenario.
LEMMA TypesKept ==
    ASSUME ScenarioInv, ctx' \in Context, current # Nothing => at' \in 1..(Len(StepsOf[current]) + 1),
           trace' \in [Dirs -> Owners \cup {Nothing}],
           \A d \in Dirs : trace'[d] # Nothing => d \in workdirs \cup Places,
           artifacts' \in [DirNames -> Artifacts],
           UNCHANGED <<run_opts, phase, waiting, current, workdirs, results, ran>>
    PROVE  ScenarioTypes'
<1>1. /\ run_opts' = run_opts /\ phase' = phase /\ waiting' = waiting /\ current' = current
      /\ workdirs' = workdirs /\ results' = results /\ ran' = ran
  OBVIOUS
<1> QED
  BY <1>1 DEF ScenarioInv, ScenarioTypes, ScenarioWorkdir

\* A step that fails ends the scenario where it is.
LEMMA StepFails ==
    ASSUME ScenarioInv, NEW kind, AtScenarioStep(kind), Fail,
           UNCHANGED <<run_opts, phase, waiting, current, workdirs, trace, artifacts, results, ran>>
    PROVE  ScenarioInv'
<1>1. /\ run_opts' = run_opts /\ phase' = phase /\ waiting' = waiting /\ current' = current
      /\ workdirs' = workdirs /\ trace' = trace /\ artifacts' = artifacts /\ results' = results
      /\ ran' = ran /\ at' = at /\ ctx' = [ctx EXCEPT !.failure = TRUE]
  BY DEF Fail
<1>2. /\ ctx' \in Context /\ ctx'.failure /\ ctx'.vars = ctx.vars /\ ctx'.faults = ctx.faults
      /\ ctx'.step_index = ctx.step_index
      /\ ctx'.cwd = ctx.cwd /\ ctx'.out = ctx.out /\ ctx'.arg = ctx.arg
  BY <1>1 DEF ScenarioInv, ScenarioTypes, Context
<1>3. ScenarioTypes'
  BY <1>1, <1>2, TypesKept DEF ScenarioInv, ScenarioTypes
<1>4. OneByOne' /\ ContextIsScenarioOwn'
  BY <1>1 DEF ScenarioInv, OneByOne, ContextIsScenarioOwn, Underway, RanBy
<1>5. OwnContext' /\ OwnPaths'
  BY <1>1, <1>2 DEF ScenarioInv, OwnContext, OwnPaths, PathsOf, ScenarioWorkdir, Underway, RanBy
<1>6. ExitsMet'
  BY <1>1, <1>2 DEF ScenarioInv, ExitsMet
<1>7. TracesAreOwn' /\ LogsAreOwn'
  BY <1>1, WritesNothing
<1> QED
  BY <1>3, <1>4, <1>5, <1>6, <1>7 DEF ScenarioInv

\* A step that is not a command goes on: the context grows by what the step
\* says, and an exit code is expected only by an #EXPECT_EXIT of it.
LEMMA StepGoesOn ==
    ASSUME ScenarioInv, NEW kind, AtScenarioStep(kind), kind # "command", at' = at + 1,
           /\ ctx' \in Context
           /\ ctx'.vars = ctx.vars \cup (IF kind = "set" THEN {StepNow.name} ELSE {})
           /\ ctx'.faults = ctx.faults \cup (IF kind = "fail" THEN {StepNow.fault} ELSE {})
           /\ ctx'.step_index = ctx.step_index
           /\ ctx'.last = ctx.last /\ ctx'.exit = ctx.exit
           /\ PathsOf(ctx', current)
           /\ \/ ctx'.checked = ctx.checked
              \/ StepNow = [kind |-> "expect_exit", code |-> ctx.exit],
           UNCHANGED <<run_opts, phase, waiting, current, workdirs, results, ran>>
    PROVE  OneByOne' /\ OwnContext' /\ OwnPaths' /\ ContextIsScenarioOwn' /\ ExitsMet'
<1>1. /\ run_opts' = run_opts /\ phase' = phase /\ waiting' = waiting /\ current' = current
      /\ results' = results /\ ran' = ran
  OBVIOUS
<1>2. /\ Underway /\ current \in Scenarios /\ ~ctx.failure
      /\ at \in 1..Len(StepsOf[current]) /\ StepNow.kind = kind /\ StepNow = StepsOf[current][at]
  BY StepIsTyped DEF ScenarioInv, StepNow
<1>3. OneByOne'
  <2>1. \A r \in RanBy(current) : r[2] \in Nat /\ r[2] < at
    BY <1>2 DEF ScenarioInv, ScenarioTypes, OneByOne, RanBy, Ran
  <2>2. \A r \in RanBy(current)' : r[2] < at'
    BY <1>1, <1>2, <2>1 DEF RanBy
  <2> QED
    BY <1>1, <1>2, <2>2 DEF ScenarioInv, OneByOne, Underway
<1>4. OwnContext' /\ OwnPaths'
  <2>1. OwnContext'
    BY <1>1, <1>2, OwnGrows DEF ScenarioInv, OwnContext, Underway, RanBy
  <2>2. OwnPaths'
    BY <1>1 DEF OwnPaths, PathsOf, ScenarioWorkdir
  <2> QED
    BY <2>1, <2>2
<1>5. ContextIsScenarioOwn'
  BY <1>1 DEF ScenarioInv, ContextIsScenarioOwn
<1>6. ExitsMet'
  <2>1. ASSUME NEW r \in RanBy(current), r[3] \notin {0, Nothing} PROVE Met(r) \/ Awaited(r)'
    <3>1. Met(r) \/ Awaited(r)
      BY <1>2, <2>1 DEF ScenarioInv, ExitsMet
    <3>2. r[1] = current /\ r[2] \in Nat /\ r[2] < at
      BY <1>2 DEF ScenarioInv, ScenarioTypes, OneByOne, RanBy, Ran
    <3>3. ASSUME Awaited(r)
          PROVE  \A k \in (r[2] + 1)..at : StepsOf[current][k].kind # "command"
      <4>1. \A k \in (r[2] + 1)..(at - 1) : StepsOf[current][k].kind # "command"
        BY <3>2, <3>3 DEF Awaited
      <4>2. \A k \in (r[2] + 1)..at : k = at \/ k \in (r[2] + 1)..(at - 1)
        BY <1>2, <3>2
      <4> QED
        BY <1>2, <4>1, <4>2
    <3>4. CASE Awaited(r) /\ ctx'.checked = ctx.checked
      <4>1. (at + 1) - 1 = at
        BY <1>2
      <4> QED
        BY <1>2, <3>2, <3>3, <3>4, <4>1 DEF Awaited
    <3>5. CASE Awaited(r) /\ StepNow = [kind |-> "expect_exit", code |-> ctx.exit]
      <4>1. at \in (r[2] + 1)..Len(StepsOf[r[1]])
        BY <1>2, <3>2
      <4>2. StepsOf[r[1]][at] = [kind |-> "expect_exit", code |-> r[3]]
        BY <1>2, <3>2, <3>5 DEF Awaited
      <4> QED
        BY <3>2, <3>3, <3>5, <4>1, <4>2 DEF Met
    <3> QED
      BY <3>1, <3>4, <3>5
  <2>2. RanBy(current)' = RanBy(current)
    BY <1>1 DEF RanBy
  <2> QED
    BY <1>1, <2>1, <2>2 DEF ScenarioInv, ExitsMet, Met
<1> QED
  BY <1>3, <1>4, <1>5, <1>6

-----------------------------------------------------------------------------
(* The steps of a scenario that are no commands                            *)

\* One that goes on and writes nothing.
LEMMA StepIsQuiet ==
    ASSUME ScenarioInv, NEW kind, AtScenarioStep(kind), kind # "command", at' = at + 1,
           /\ ctx' \in Context
           /\ ctx'.vars = ctx.vars \cup (IF kind = "set" THEN {StepNow.name} ELSE {})
           /\ ctx'.faults = ctx.faults \cup (IF kind = "fail" THEN {StepNow.fault} ELSE {})
           /\ ctx'.step_index = ctx.step_index
           /\ ctx'.last = ctx.last /\ ctx'.exit = ctx.exit
           /\ PathsOf(ctx', current)
           /\ \/ ctx'.checked = ctx.checked
              \/ StepNow = [kind |-> "expect_exit", code |-> ctx.exit],
           UNCHANGED <<run_opts, phase, waiting, current, workdirs, trace, artifacts, results, ran>>
    PROVE  ScenarioInv'
<1>1. OneByOne' /\ OwnContext' /\ OwnPaths' /\ ContextIsScenarioOwn' /\ ExitsMet'
  BY StepGoesOn
<1>2. TracesAreOwn' /\ LogsAreOwn'
  BY WritesNothing
<1>3. at' \in 1..(Len(StepsOf[current]) + 1) /\ trace' = trace /\ artifacts' = artifacts
  BY StepIsTyped DEF ScenarioInv
<1>4. ScenarioTypes'
  BY <1>3, TypesKept DEF ScenarioInv, ScenarioTypes
<1> QED
  BY <1>1, <1>2, <1>4 DEF ScenarioInv

LEMMA PathsStay ==
    ASSUME ScenarioInv, NEW kind, AtScenarioStep(kind),
           ctx'.cwd = ctx.cwd, ctx'.out = ctx.out, ctx'.arg = ctx.arg
    PROVE  PathsOf(ctx', current) /\ PathsOf(ctx, current)
BY StepIsTyped DEF ScenarioInv, OwnPaths, PathsOf

LEMMA Step_refused == ASSUME ScenarioInv, refused PROVE ScenarioInv'
BY StepFails DEF refused

LEMMA Step_set == ASSUME ScenarioInv, set PROVE ScenarioInv'
<1>1. /\ AtScenarioStep("set")
      /\ UNCHANGED <<run_opts, phase, waiting, current, workdirs, trace, artifacts, results, ran>>
      /\ Fail \/ Proceed([ctx EXCEPT !.vars = @ \cup {StepNow.name}])
  BY DEF set
<1>2. CASE Proceed([ctx EXCEPT !.vars = @ \cup {StepNow.name}])
  <2>1. StepNow.name \in Names
    BY <1>1, StepIsTyped DEF ScenarioInv, ScenarioStep
  <2>2. ctx' = [ctx EXCEPT !.vars = ctx.vars \cup {StepNow.name}] /\ at' = at + 1
    BY <1>2 DEF Proceed
  <2>3. /\ ctx' \in Context /\ ctx'.vars = ctx.vars \cup {StepNow.name}
        /\ ctx'.faults = ctx.faults /\ ctx'.step_index = ctx.step_index
        /\ ctx'.last = ctx.last /\ ctx'.exit = ctx.exit /\ ctx'.checked = ctx.checked
        /\ ctx'.cwd = ctx.cwd /\ ctx'.out = ctx.out /\ ctx'.arg = ctx.arg
    BY <2>1, <2>2 DEF ScenarioInv, ScenarioTypes, Context
  <2>4. PathsOf(ctx', current)
    BY <1>1, <2>3, PathsStay
  <2> QED
    BY <1>1, <2>2, <2>3, <2>4, StepIsQuiet
<1>3. CASE Fail
  BY <1>1, <1>3, StepFails
<1> QED
  BY <1>1, <1>2, <1>3

LEMMA Step_fail == ASSUME ScenarioInv, fail PROVE ScenarioInv'
<1>1. /\ AtScenarioStep("fail")
      /\ UNCHANGED <<run_opts, phase, waiting, current, workdirs, trace, artifacts, results, ran>>
      /\ Fail \/ (ctx' = [ctx EXCEPT !.faults = ctx.faults \cup {StepNow.fault}] /\ at' = at + 1)
  BY DEF fail, Proceed
<1>2. StepNow.fault \in Faults
  BY <1>1, StepIsTyped DEF ScenarioInv, ScenarioStep
<1>3. CASE ctx' = [ctx EXCEPT !.faults = ctx.faults \cup {StepNow.fault}] /\ at' = at + 1
  <2>1. /\ ctx' \in Context /\ ctx'.faults = ctx.faults \cup {StepNow.fault}
        /\ ctx'.vars = ctx.vars /\ ctx'.step_index = ctx.step_index
        /\ ctx'.last = ctx.last /\ ctx'.exit = ctx.exit /\ ctx'.checked = ctx.checked
        /\ ctx'.cwd = ctx.cwd /\ ctx'.out = ctx.out /\ ctx'.arg = ctx.arg
    BY <1>2, <1>3 DEF ScenarioInv, ScenarioTypes, Context
  <2>2. PathsOf(ctx', current)
    BY <1>1, <2>1, PathsStay
  <2> QED
    BY <1>1, <1>3, <2>1, <2>2, StepIsQuiet
<1> QED
  BY <1>1, <1>3, StepFails

\* The path #ENV names for traces is one of the scenario's.
LEMMA Step_env_trace_out == ASSUME ScenarioInv, env_trace_out PROVE ScenarioInv'
<1>1. /\ AtScenarioStep("env_trace_out")
      /\ UNCHANGED <<run_opts, phase, waiting, current, workdirs, trace, artifacts, results, ran>>
      /\ Fail \/ (ctx' = [ctx EXCEPT !.out = StepNow.to] /\ at' = at + 1)
  BY DEF env_trace_out, Proceed
<1>2. CASE ctx' = [ctx EXCEPT !.out = StepNow.to] /\ at' = at + 1
  <2>1. StepNow.to \in Targets /\ StepNow.to \in TargetsOf[current]
    <3>1. /\ current \in Scenarios /\ StepNow \in ScenarioStep /\ StepNow.kind = "env_trace_out"
          /\ at \in 1..Len(StepsOf[current]) /\ StepNow = StepsOf[current][at]
      BY <1>1, StepIsTyped DEF ScenarioInv, StepNow
    <3>2. StepNow.to \in Targets
      BY <3>1 DEF ScenarioStep
    <3>3. at \in DOMAIN StepsOf[current]
      BY <3>1, ScenarioAssumption
    <3> QED
      BY <3>1, <3>2, <3>3 DEF TargetsOf
  <2>2. /\ ctx' \in Context /\ ctx'.faults = ctx.faults
        /\ ctx'.vars = ctx.vars /\ ctx'.step_index = ctx.step_index
        /\ ctx'.last = ctx.last /\ ctx'.exit = ctx.exit /\ ctx'.checked = ctx.checked
        /\ ctx'.cwd = ctx.cwd /\ ctx'.out = StepNow.to /\ ctx'.arg = ctx.arg
    BY <1>2, <2>1 DEF ScenarioInv, ScenarioTypes, Context
  <2>3. Underway
    BY <1>1, StepIsTyped DEF ScenarioInv
  <2>4. PathsOf(ctx', current)
    BY <2>1, <2>2, <2>3 DEF ScenarioInv, OwnPaths, PathsOf
  <2> QED
    BY <1>1, <1>2, <2>2, <2>4, StepIsQuiet
<1> QED
  BY <1>1, <1>2, StepFails

\* The directory #WORKDIR enters is the scenario's own or one of its places.
LEMMA Step_enter_workdir == ASSUME ScenarioInv, enter_workdir PROVE ScenarioInv'
<1>1. PICK dir : dir = Resolved(StepNow.to, ctx.cwd)
  OBVIOUS
<1>2. /\ AtScenarioStep("workdir")
      /\ UNCHANGED <<run_opts, phase, waiting, current, workdirs, trace, artifacts, results, ran>>
      /\ Fail \/ (ctx' = [ctx EXCEPT !.cwd = dir] /\ at' = at + 1)
  BY <1>1 DEF enter_workdir, Proceed
<1>3. CASE ctx' = [ctx EXCEPT !.cwd = dir] /\ at' = at + 1
  <2>1. dir \in Dirs /\ dir \in {ScenarioWorkdir(current)} \cup Visits[current]
    <3>1. /\ current \in Scenarios /\ StepNow \in ScenarioStep /\ StepNow.kind = "workdir"
          /\ at \in 1..Len(StepsOf[current]) /\ StepNow = StepsOf[current][at]
      BY <1>2, StepIsTyped DEF ScenarioInv, StepNow
    <3>2. StepNow.to \in {"workdir"} \cup Places
      BY <3>1 DEF ScenarioStep
    <3>3. at \in DOMAIN StepsOf[current]
      BY <3>1, ScenarioAssumption
    <3>4. ScenarioWorkdir(current) \in Dirs
      BY <3>1, NamesAndDirs
    <3>5. CASE StepNow.to = "workdir"
      BY <1>1, <3>4, <3>5 DEF Resolved
    <3>6. CASE StepNow.to \in Places
      <4>1. dir = StepNow.to
        BY <1>1, <3>6, ScenarioAssumption DEF Resolved
      <4>2. StepNow.to \in Visits[current]
        BY <3>1, <3>3, <3>6 DEF Visits
      <4> QED
        BY <3>6, <4>1, <4>2 DEF Dirs
    <3> QED
      BY <3>2, <3>5, <3>6
  <2>2. /\ ctx' \in Context /\ ctx'.faults = ctx.faults
        /\ ctx'.vars = ctx.vars /\ ctx'.step_index = ctx.step_index
        /\ ctx'.last = ctx.last /\ ctx'.exit = ctx.exit /\ ctx'.checked = ctx.checked
        /\ ctx'.cwd = dir /\ ctx'.out = ctx.out /\ ctx'.arg = ctx.arg
    BY <1>3, <2>1 DEF ScenarioInv, ScenarioTypes, Context
  <2>3. Underway
    BY <1>2, StepIsTyped DEF ScenarioInv
  <2>4. PathsOf(ctx', current)
    BY <2>1, <2>2, <2>3 DEF ScenarioInv, OwnPaths, PathsOf
  <2> QED
    BY <1>2, <1>3, <2>2, <2>4, StepIsQuiet
<1> QED
  BY <1>2, <1>3, StepFails

LEMMA Step_expect_exit == ASSUME ScenarioInv, expect_exit PROVE ScenarioInv'
<1>1. /\ AtScenarioStep("expect_exit")
      /\ UNCHANGED <<run_opts, phase, waiting, current, workdirs, trace, artifacts, results, ran>>
      /\ \/ Fail
         \/ ctx.exit = StepNow.code /\ Proceed([ctx EXCEPT !.checked = TRUE])
  BY DEF expect_exit
<1>2. CASE ctx.exit = StepNow.code /\ Proceed([ctx EXCEPT !.checked = TRUE])
  <2>1. ctx' = [ctx EXCEPT !.checked = TRUE] /\ at' = at + 1
    BY <1>2 DEF Proceed
  <2>2. /\ ctx' \in Context /\ ctx'.vars = ctx.vars
        /\ ctx'.faults = ctx.faults /\ ctx'.step_index = ctx.step_index
        /\ ctx'.last = ctx.last /\ ctx'.exit = ctx.exit
        /\ ctx'.cwd = ctx.cwd /\ ctx'.out = ctx.out /\ ctx'.arg = ctx.arg
    BY <2>1 DEF ScenarioInv, ScenarioTypes, Context
  <2>3. StepNow = [kind |-> "expect_exit", code |-> ctx.exit]
    BY <1>1, <1>2, StepIsTyped DEF ScenarioInv, ScenarioStep
  <2>4. PathsOf(ctx', current)
    BY <1>1, <2>2, PathsStay
  <2> QED
    BY <1>1, <2>1, <2>2, <2>3, <2>4, StepIsQuiet
<1>3. CASE Fail
  BY <1>1, <1>3, StepFails
<1> QED
  BY <1>1, <1>2, <1>3

LEMMA Step_expect_output == ASSUME ScenarioInv, expect_output PROVE ScenarioInv'
<1>1. /\ AtScenarioStep("expect_output")
      /\ UNCHANGED <<run_opts, phase, waiting, current, workdirs, trace, artifacts, results, ran>>
      /\ (ctx' = ctx /\ at' = at + 1) \/ Fail
  BY DEF expect_output, Proceed
<1>2. ctx \in Context
  BY DEF ScenarioInv, ScenarioTypes
<1>3. CASE ctx' = ctx /\ at' = at + 1
  <2>1. PathsOf(ctx', current)
    BY <1>1, <1>3, PathsStay
  <2> QED
    BY <1>1, <1>2, <1>3, <2>1, StepIsQuiet
<1> QED
  BY <1>1, <1>3, StepFails

LEMMA Step_files == ASSUME ScenarioInv, files PROVE ScenarioInv'
<1>1. /\ AtScenarioStep("files")
      /\ UNCHANGED <<run_opts, phase, waiting, current, workdirs, trace, artifacts, results, ran>>
      /\ (ctx' = ctx /\ at' = at + 1) \/ Fail
  BY DEF files, Proceed
<1>2. ctx \in Context
  BY DEF ScenarioInv, ScenarioTypes
<1>3. CASE ctx' = ctx /\ at' = at + 1
  <2>1. PathsOf(ctx', current)
    BY <1>1, <1>3, PathsStay
  <2> QED
    BY <1>1, <1>2, <1>3, <2>1, StepIsQuiet
<1> QED
  BY <1>1, <1>3, StepFails

\* The current directory is one the scenario may write to and read from.
LEMMA HereIsOwn ==
    ASSUME ScenarioInv, NEW kind, AtScenarioStep(kind)
    PROVE  /\ ctx.cwd \in Dirs /\ ctx.cwd \in workdirs \cup Places
           /\ ctx.cwd \in {ScenarioWorkdir(current)} \cup WritesTo[current]
           /\ ctx.cwd \in {ScenarioWorkdir(current)} \cup ReadsFrom[current]
           /\ current \in OfDir(ctx.cwd)
<1>1. current \in Scenarios /\ Underway
  BY StepIsTyped DEF ScenarioInv
<1>2. ctx.cwd \in {ScenarioWorkdir(current)} \cup Visits[current]
  BY <1>1 DEF ScenarioInv, OwnPaths, PathsOf
<1>3. ScenarioWorkdir(current) \in workdirs /\ ScenarioWorkdir(current) \in Dirs
  BY <1>1, NamesAndDirs DEF ScenarioInv, ScenarioTypes, Underway
<1>4. /\ ctx.cwd \in Dirs /\ ctx.cwd \in workdirs \cup Places
      /\ ctx.cwd \in {ScenarioWorkdir(current)} \cup WritesTo[current]
      /\ ctx.cwd \in {ScenarioWorkdir(current)} \cup ReadsFrom[current]
  BY <1>1, <1>2, <1>3, PlacesOf
<1> QED
  BY <1>1, <1>4 DEF OfDir

\* Traces are written where they may lie, and saved under the scenario's name
\* where they may come under it.
LEMMA TraceWritten ==
    ASSUME ScenarioInv, current \in Scenarios, run_opts' = run_opts, results' = results,
           Cleaned' => Cleaned,
           \A d \in Dirs : trace'[d] = trace[d] \/ trace'[d] \in OfDir(d),
           \A n \in DirNames :
              \/ artifacts'[n].trace = artifacts[n].trace
              \/ n = NameOf[current] /\ artifacts'[n].trace \in OfName(n)
    PROVE  TracesAreOwn'
<1>1. /\ \A n \in DirNames : OfName(n)' = OfName(n) /\ Nothing \notin OfName(n)
      /\ \A d \in Dirs : OfDir(d)' = OfDir(d)
  BY SameOwners, NothingOwns
<1>2. \A d \in Dirs : trace'[d] \in OfDir(d)' \cup {Nothing}
  BY <1>1 DEF ScenarioInv, TracesAreOwn
<1>3. Cleaned' => \A n \in DirNames : artifacts'[n].trace \in OfName(n)' \cup {Nothing}
  BY <1>1 DEF ScenarioInv, TracesAreOwn
<1>4. \A s \in Scenarios : results[s].hint # Nothing =>
        results[s].hint \in OfName(NameOf[s])' /\ artifacts'[NameOf[s]].trace # Nothing
  BY <1>1, NamesAndDirs DEF ScenarioInv, TracesAreOwn
<1> QED
  BY <1>2, <1>3, <1>4 DEF TracesAreOwn

LEMMA Step_write_trace == ASSUME ScenarioInv, write_trace PROVE ScenarioInv'
<1>1. AtScenarioStep("write_trace") /\ artifacts' = artifacts
      /\ UNCHANGED <<run_opts, phase, waiting, current, workdirs, results, ran>>
  BY DEF write_trace
<1>2. PICK here \in Dirs : here = ctx.cwd
  BY <1>1, HereIsOwn
<1>3. CASE Proceed(ctx) /\ trace' = [trace EXCEPT ![here] = current]
  <2>1. /\ current \in Scenarios /\ at + 1 \in 1..(Len(StepsOf[current]) + 1)
        /\ here \in workdirs \cup Places /\ current \in OfDir(here)
        /\ current \in Owners /\ ctx' = ctx /\ at' = at + 1 /\ ctx \in Context
        /\ current # Nothing /\ Cleaned /\ Cleaned' = Cleaned
    BY <1>1, <1>2, <1>3, StepIsTyped, HereIsOwn, NamesAndDirs
       DEF ScenarioInv, ScenarioTypes, Proceed, Owners, Underway, Cleaned
  <2>2. /\ trace' \in [Dirs -> Owners \cup {Nothing}]
        /\ trace'[here] = current
        /\ \A d \in Dirs \ {here} : trace'[d] = trace[d]
    BY <1>3, <2>1 DEF ScenarioInv, ScenarioTypes
  <2>3. PathsOf(ctx', current)
    BY <1>1, <2>1, PathsStay
  <2>4. OneByOne' /\ OwnContext' /\ OwnPaths' /\ ContextIsScenarioOwn' /\ ExitsMet'
    BY <1>1, <2>1, <2>3, StepGoesOn
  <2>5. ScenarioTypes'
    BY <1>1, <2>1, <2>2, TypesKept DEF ScenarioInv, ScenarioTypes
  <2>6. TracesAreOwn'
    BY <1>1, <2>1, <2>2, TraceWritten
  <2>7. LogsAreOwn'
    <3>1. \A s \in Scenarios : LogsOf(s)' = LogsOf(s)
      BY <1>1, SameLogsOf DEF RanBy
    <3> QED
      BY <1>1, <3>1 DEF ScenarioInv, LogsAreOwn, Cleaned
  <2> QED
    BY <2>4, <2>5, <2>6, <2>7 DEF ScenarioInv
<1>4. CASE Fail /\ UNCHANGED trace
  BY <1>1, <1>4, StepFails
<1> QED
  BY <1>2, <1>3, <1>4 DEF write_trace

\* A trace found where a scenario reads may come under its name.
LEMMA TraceRead ==
    ASSUME ScenarioInv, NEW s \in Scenarios, NEW d \in {ScenarioWorkdir(s)} \cup ReadsFrom[s],
           trace[d] # Nothing
    PROVE  trace[d] \in OfName(NameOf[s]) /\ trace[d] \in Owners
<1>1. d \in Dirs /\ WritesTo \in [Scenarios -> SUBSET Places]
  <2>1. d \in Dirs
    BY NamesAndDirs, PlacesOf
  <2>2. \A t \in Scenarios : WritesTo[t] \subseteq Places
    BY PlacesOf
  <2> QED
    BY <2>1, <2>2 DEF WritesTo
<1>2. trace[d] \in OfDir(d) /\ trace[d] \in Owners
  BY <1>1 DEF ScenarioInv, TracesAreOwn, ScenarioTypes
<1>3. CASE d = ScenarioWorkdir(s)
  <2>1. d \notin Places
    BY <1>3, NamesAndDirs, ScenarioAssumption
  <2>2. \A t \in Scenarios : ScenarioWorkdir(t) = d => NameOf[t] = NameOf[s]
    BY <1>3 DEF ScenarioWorkdir
  <2> QED
    BY <1>1, <1>2, <2>1, <2>2 DEF OfDir, OfName
<1>4. CASE d \in ReadsFrom[s]
  <2>1. d \in Places
    BY <1>4, PlacesOf
  <2>2. \A t \in Scenarios : ScenarioWorkdir(t) # d
    BY <2>1, NamesAndDirs, ScenarioAssumption
  <2>3. \A t \in Scenarios : d \in WritesTo[t] => WritesTo[t] \cap ReadsFrom[s] # {}
    BY <1>4
  <2>4. ReadsFrom[s] # {}
    BY <1>4
  <2> QED
    BY <1>2, <2>2, <2>3, <2>4 DEF OfDir, OfName
<1> QED
  BY <1>3, <1>4

LEMMA Step_try_save_trace == ASSUME ScenarioInv, try_save_trace PROVE ScenarioInv'
<1> DEFINE found == trace[ctx.cwd]
<1>1. AtScenarioStep("try_save_trace") /\ trace' = trace
      /\ UNCHANGED <<run_opts, phase, waiting, current, workdirs, results, ran>>
  BY DEF try_save_trace
<1>2. \/ Fail /\ artifacts' = artifacts
      \/ Proceed(ctx) /\ artifacts' = artifacts
      \/ /\ Proceed(ctx) /\ found # Nothing
         /\ artifacts' = [artifacts EXCEPT ![NameOf[current]].trace = found]
  BY DEF try_save_trace
<1>3. /\ current \in Scenarios /\ at + 1 \in 1..(Len(StepsOf[current]) + 1)
      /\ NameOf[current] \in DirNames /\ ctx \in Context /\ Underway
  BY <1>1, StepIsTyped, NamesAndDirs DEF ScenarioInv, ScenarioTypes
<1>4. CASE Fail /\ artifacts' = artifacts
  BY <1>1, <1>4, StepFails
<1>5. CASE Proceed(ctx) /\ artifacts' = artifacts
  <2>1. ctx' = ctx /\ at' = at + 1
    BY <1>5 DEF Proceed
  <2>2. PathsOf(ctx', current)
    BY <1>1, <2>1, PathsStay
  <2> QED
    BY <1>1, <1>3, <1>5, <2>1, <2>2, StepIsQuiet
<1>6. CASE /\ Proceed(ctx) /\ found # Nothing
           /\ artifacts' = [artifacts EXCEPT ![NameOf[current]].trace = found]
  <2>1. ctx' = ctx /\ at' = at + 1
    BY <1>6 DEF Proceed
  <2>2. found \in OfName(NameOf[current]) /\ found \in Owners
    BY <1>1, <1>3, <1>6, HereIsOwn, TraceRead
  <2>3. /\ artifacts' \in [DirNames -> Artifacts]
        /\ artifacts'[NameOf[current]].trace = found
        /\ \A n \in DirNames : artifacts'[n].logs = artifacts[n].logs
        /\ \A n \in DirNames \ {NameOf[current]} : artifacts'[n] = artifacts[n]
    BY <1>3, <1>6, <2>2 DEF ScenarioInv, ScenarioTypes, Artifacts
  <2>4. OneByOne' /\ OwnContext' /\ OwnPaths' /\ ContextIsScenarioOwn' /\ ExitsMet'
    <3>1. PathsOf(ctx', current)
      BY <1>1, <2>1, PathsStay
    <3> QED
      BY <1>1, <1>3, <2>1, <3>1, StepGoesOn
  <2>5. ScenarioTypes'
    BY <1>1, <1>3, <2>1, <2>3, TypesKept DEF ScenarioInv, ScenarioTypes
  <2>6. TracesAreOwn'
    BY <1>1, <1>3, <2>2, <2>3, TraceWritten DEF Cleaned
  <2>7. LogsAreOwn'
    <3>1. \A s \in Scenarios : LogsOf(s)' = LogsOf(s) /\ NameOf[s] \in DirNames
      BY <1>1, SameLogsOf, NamesAndDirs DEF RanBy
    <3> QED
      BY <1>1, <2>3, <3>1 DEF ScenarioInv, LogsAreOwn, Cleaned
  <2> QED
    BY <2>4, <2>5, <2>6, <2>7 DEF ScenarioInv
<1> QED
  BY <1>2, <1>4, <1>5, <1>6

-----------------------------------------------------------------------------
(* The commands                                                            *)

\* Where the child of a command leaves a trace.
LEMMA TargetIsOwn ==
    ASSUME ScenarioInv, AtScenarioStep("command"), TraceOut(StepNow) \in Targets,
           NEW here \in {ctx.cwd} \cup (IF StepNow.cargo THEN {RepoRoot} ELSE {}),
           NEW d, d = Resolved(TraceOut(StepNow), here)
    PROVE  d \in Dirs /\ d \in workdirs \cup Places /\ current \in OfDir(d)
<1>1. /\ current \in Scenarios /\ Underway /\ StepNow.kind = "command"
      /\ StepNow = StepsOf[current][at] /\ at \in DOMAIN StepsOf[current]
  <2>1. /\ current \in Scenarios /\ Underway /\ StepNow.kind = "command"
        /\ at \in 1..Len(StepsOf[current])
    BY StepIsTyped DEF ScenarioInv
  <2> QED
    BY <2>1, ScenarioAssumption DEF StepNow
<1>2. StepNow.cargo => RunsCargo(current)
  BY <1>1 DEF RunsCargo
<1>3. here \in {ScenarioWorkdir(current)} \cup WritesTo[current]
  BY <1>1, <1>2, HereIsOwn, PlacesOf
<1>4. TraceOut(StepNow) \in TargetsOf[current]
  <2>1. CASE StepNow.trace = "env"
    <3>1. TraceOut(StepNow) = ctx.out /\ ctx.out \in {"none"} \cup TargetsOf[current]
      BY <1>1, <2>1 DEF TraceOut, ScenarioInv, OwnPaths, PathsOf
    <3>2. "none" \notin Targets
      BY ScenarioAssumption DEF Targets
    <3> QED
      BY <3>1, <3>2
  <2>2. CASE StepNow.trace # "env"
    <3>1. TraceOut(StepNow) = StepNow.trace
      BY <2>2 DEF TraceOut
    <3> QED
      BY <1>1, <3>1 DEF TargetsOf
  <2> QED
    BY <2>1, <2>2
<1>5. d \in {ScenarioWorkdir(current)} \cup WritesTo[current]
  <2>1. TraceOut(StepNow) \in Places => TraceOut(StepNow) \in WritesTo[current]
    BY <1>1, <1>4, PlacesOf
  <2> QED
    BY <1>3, <2>1 DEF Resolved, Targets
<1>6. ScenarioWorkdir(current) \in workdirs /\ ScenarioWorkdir(current) \in Dirs
  BY <1>1, NamesAndDirs DEF ScenarioInv, ScenarioTypes, Underway
<1>7. WritesTo[current] \subseteq Places /\ Places \subseteq Dirs
  BY <1>1, PlacesOf
<1> QED
  BY <1>1, <1>5, <1>6, <1>7 DEF OfDir

\* What a command and its logs leave.
LEMMA TracesDoes ==
    ASSUME ScenarioInv, AtScenarioStep("command"), NEW wrote \in BOOLEAN,
           NEW logged \in [DirNames -> Artifacts], Traces(wrote, logged)
    PROVE  /\ trace' \in [Dirs -> Owners \cup {Nothing}]
           /\ \A d \in Dirs :
                \/ trace'[d] = trace[d]
                \/ d \in workdirs \cup Places /\ trace'[d] \in OfDir(d)
           /\ artifacts' \in [DirNames -> Artifacts]
           /\ \A n \in DirNames :
                /\ artifacts'[n].logs = logged[n].logs
                /\ \/ artifacts'[n].trace = logged[n].trace
                   \/ n = NameOf[current] /\ artifacts'[n].trace = current
<1>1. /\ current \in Scenarios /\ NameOf[current] \in DirNames /\ current \in Owners
      /\ trace \in [Dirs -> Owners \cup {Nothing}]
  BY StepIsTyped, NamesAndDirs DEF ScenarioInv, ScenarioTypes, Owners
<1>2. PICK here \in {ctx.cwd} \cup (IF StepNow.cargo THEN {RepoRoot} ELSE {}) :
        /\ \/ trace' = trace
           \/ /\ TraceOut(StepNow) \in Targets
              /\ trace' = [trace EXCEPT ![Resolved(TraceOut(StepNow), here)] = current]
        /\ \/ artifacts' = [logged EXCEPT ![NameOf[current]].trace = current]
           \/ artifacts' = logged
  BY DEF Traces
<1>3. /\ trace' \in [Dirs -> Owners \cup {Nothing}]
      /\ \A d \in Dirs :
            \/ trace'[d] = trace[d]
            \/ d \in workdirs \cup Places /\ trace'[d] \in OfDir(d)
  <2>1. CASE trace' = trace
    BY <1>1, <2>1
  <2>2. ASSUME TraceOut(StepNow) \in Targets, NEW where,
               where = Resolved(TraceOut(StepNow), here),
               trace' = [trace EXCEPT ![where] = current]
        PROVE  /\ trace' \in [Dirs -> Owners \cup {Nothing}]
               /\ \A d \in Dirs :
                     \/ trace'[d] = trace[d]
                     \/ d \in workdirs \cup Places /\ trace'[d] \in OfDir(d)
    <3>1. where \in Dirs /\ where \in workdirs \cup Places /\ current \in OfDir(where)
      BY <2>2, TargetIsOwn
    <3> QED
      BY <1>1, <2>2, <3>1
  <2> QED
    BY <1>2, <2>1, <2>2
<1>4. CASE artifacts' = logged
  BY <1>3, <1>4
<1>5. CASE artifacts' = [logged EXCEPT ![NameOf[current]].trace = current]
  <2>1. artifacts' \in [DirNames -> Artifacts]
    BY <1>1, <1>5 DEF Artifacts
  <2>2. /\ artifacts'[NameOf[current]].trace = current
        /\ \A n \in DirNames : artifacts'[n].logs = logged[n].logs
        /\ \A n \in DirNames \ {NameOf[current]} : artifacts'[n].trace = logged[n].trace
    BY <1>1, <1>5 DEF Artifacts
  <2> QED
    BY <1>3, <2>1, <2>2
<1> QED
  BY <1>2, <1>4, <1>5

\* One more command of the scenario gets the next number, the others keep theirs.
LEMMA LogsGrow ==
    ASSUME ScenarioInv, Underway, NEW s, s = current, NEW exit, NEW names, NEW faults,
           NEW i \in Nat, i = at,
           ran' = ran \cup {<<s, i, exit, names, faults>>}
    PROVE  /\ LogsOf(s)' = LogsOf(s) \cup {<<ctx.step_index + 1, s, exit>>}
           /\ \A l \in LogsOf(s) : l[1] # ctx.step_index + 1
           /\ Cardinality(RanBy(s)') = ctx.step_index + 1
           /\ ctx.step_index \in Nat
           /\ \A t \in Scenarios \ {s} : RanBy(t)' = RanBy(t)
<1> DEFINE new == <<s, i, exit, names, faults>>
           old == RanBy(s)
           all == old \cup {new}
           Upto(R, r) == {q \in R : q[2] <= r[2]}
<1>1. \A r \in old : r[2] \in Nat /\ r[2] < i
  BY DEF ScenarioInv, ScenarioTypes, OneByOne, RanBy, Ran
<1>2. new \notin old /\ new[1] = s /\ new[2] = i /\ new[3] = exit
  BY <1>1
<1>3. RanBy(s)' = all
  BY <1>2 DEF RanBy
<1>4. \A t \in Scenarios \ {s} : RanBy(t)' = RanBy(t)
  BY <1>2 DEF RanBy
<1>5. IsFiniteSet(old)
  <2>1. old \subseteq ran /\ IsFiniteSet(ran)
    BY DEF RanBy, ScenarioInv, ScenarioTypes
  <2> QED
    BY <2>1, FS_Subset
<1>6. Cardinality(old) = ctx.step_index /\ Cardinality(old) \in Nat
  BY <1>5, FS_CardinalityType DEF ScenarioInv, OwnContext
<1>7. LogsOf(s) = {<<Cardinality(Upto(old, r)), s, r[3]>> : r \in old}
  BY DEF LogsOf
<1>8. LogsOf(s)' = {<<Cardinality(Upto(all, r)), s, r[3]>> : r \in all}
  BY <1>3, Zenon DEF LogsOf
<1> HIDE DEF new, old
<1>9. Cardinality(all) = ctx.step_index + 1
  BY <1>2, <1>5, <1>6, FS_AddElement
<1>10. ASSUME NEW r \in old
       PROVE  /\ Upto(all, r) = Upto(old, r)
              /\ Cardinality(Upto(old, r)) \in Nat /\ Cardinality(Upto(old, r)) <= ctx.step_index
  <2>1. Upto(all, r) = Upto(old, r)
    BY <1>1, <1>2
  <2>2. Upto(old, r) \subseteq old
    OBVIOUS
  <2> HIDE DEF Upto
  <2>3. IsFiniteSet(Upto(old, r)) /\ Cardinality(Upto(old, r)) <= Cardinality(old)
    BY <1>5, <2>2, FS_Subset
  <2>4. Cardinality(Upto(old, r)) \in Nat
    BY <2>3, FS_CardinalityType
  <2> QED
    BY <1>6, <2>1, <2>3, <2>4
<1>11. Upto(all, new) = all
  BY <1>1, <1>2
<1> HIDE DEF Upto
<1>12. \A l \in LogsOf(s) : l[1] # ctx.step_index + 1
  <2>1. ASSUME NEW r \in old PROVE Cardinality(Upto(old, r)) # ctx.step_index + 1
    BY <1>6, <1>10
  <2> QED
    BY <1>7, <2>1
<1>13. LogsOf(s)' = LogsOf(s) \cup {<<ctx.step_index + 1, s, exit>>}
  <2>1. <<Cardinality(Upto(all, new)), s, new[3]>> = <<ctx.step_index + 1, s, exit>>
    BY <1>2, <1>9, <1>11
  <2>2. \A r \in old : <<Cardinality(Upto(all, r)), s, r[3]>> = <<Cardinality(Upto(old, r)), s, r[3]>>
    BY <1>10
  <2> QED
    BY <1>7, <1>8, <2>1, <2>2
<1> QED
  BY <1>3, <1>4, <1>6, <1>9, <1>12, <1>13

\* A command runs only when the exit code of the one before was expected, and
\* with the context of its own scenario.
LEMMA Step_command == ASSUME ScenarioInv, scenario_command PROVE ScenarioInv'
<1>1. /\ AtScenarioStep("command") /\ ~Unexpected
      /\ run_opts' = run_opts /\ workdirs' = workdirs
  BY DEF scenario_command
<1>2. PICK exit \in Codes \cup {Nothing}, wrote \in BOOLEAN :
         /\ ran' = ran \cup {<<current, at, exit, ctx.vars, ctx.faults>>}
         /\ \/ /\ Proceed(LastRun(exit, TraceArg(StepNow)))
               /\ Traces(wrote, IF run_opts.artifacts_dir THEN WriteLogs(exit) ELSE artifacts)
               /\ UNCHANGED <<phase, waiting, current, results>>
            \/ run_opts.artifacts_dir /\ Abort /\ Traces(wrote, artifacts)
  BY DEF scenario_command
<1>3. PICK c \in Scenarios, i \in Nat : c = current /\ i = at /\ i \in 1..Len(StepsOf[c])
  BY <1>1, StepIsTyped DEF ScenarioInv
<1>4. /\ Underway /\ ~ctx.failure /\ StepsOf[c][i].kind = "command" /\ c # Nothing
      /\ i + 1 \in 1..(Len(StepsOf[c]) + 1) /\ i \in Nat
  BY <1>1, <1>3, StepIsTyped, NamesAndDirs DEF ScenarioInv, StepNow
<1> DEFINE new == <<c, i, exit, ctx.vars, ctx.faults>>
<1>5. /\ ran' = ran \cup {new} /\ waiting' = waiting /\ current' = current /\ results' = results
  BY <1>2, <1>3 DEF Abort
<1>6. phase' \in {"running", "error"} /\ at' \in {i, i + 1} /\ (phase' = "error" => ctx' = ctx)
  BY <1>2, <1>3, <1>4 DEF Proceed, Abort, Underway
<1>7. new \in Ran /\ IsFiniteSet(ran')
  <2>1. new \in Ran
    BY <1>3 DEF Ran, Exits, ScenarioInv, ScenarioTypes, Context
  <2>2. IsFiniteSet(ran \cup {new})
    BY FS_AddElement DEF ScenarioInv, ScenarioTypes
  <2> QED
    BY <1>5, <2>1, <2>2
<1>8. /\ LogsOf(c)' = LogsOf(c) \cup {<<ctx.step_index + 1, c, exit>>}
      /\ \A l \in LogsOf(c) : l[1] # ctx.step_index + 1
      /\ Cardinality(RanBy(c)') = ctx.step_index + 1
      /\ ctx.step_index \in Nat
      /\ \A t \in Scenarios \ {c} : RanBy(t)' = RanBy(t)
  BY <1>3, <1>4, <1>5, LogsGrow
<1>9. phase' = "running" =>
        /\ Proceed(LastRun(exit, TraceArg(StepNow)))
        /\ at' = i + 1
        /\ PathsOf(ctx', c)
        /\ ctx' \in Context /\ ctx'.vars = ctx.vars /\ ctx'.faults = ctx.faults
        /\ ctx'.last = "run" /\ ctx'.exit = exit /\ ~ctx'.checked
        /\ ctx'.step_index = ctx.step_index + 1
  <2>1. phase' = "running" => Proceed(LastRun(exit, TraceArg(StepNow)))
    BY <1>2 DEF Abort
  <2>2. LastRun(exit, TraceArg(StepNow)) =
          [ctx EXCEPT !.last = "run", !.exit = exit, !.arg = TraceArg(StepNow),
                      !.step_index = ctx.step_index + 1, !.checked = FALSE]
    BY DEF LastRun
  <2>3. /\ TraceArg(StepNow) \in {"none"} \cup Targets
        /\ TraceArg(StepNow) \in {"none"} \cup TargetsOf[c]
    <3>1. i \in DOMAIN StepsOf[c] /\ StepNow = StepsOf[c][i] /\ StepNow.kind = "command"
      BY <1>3, <1>4, ScenarioAssumption DEF StepNow
    <3> QED
      BY <1>3, <3>1 DEF TraceArg, TargetsOf
  <2> DEFINE arg == TraceArg(StepNow)
             next == [ctx EXCEPT !.last = "run", !.exit = exit, !.arg = arg,
                                 !.step_index = ctx.step_index + 1, !.checked = FALSE]
  <2> HIDE DEF arg
  <2>4. /\ next \in Context /\ next.vars = ctx.vars /\ next.faults = ctx.faults
        /\ next.last = "run" /\ next.exit = exit /\ ~next.checked
        /\ next.step_index = ctx.step_index + 1
        /\ next.cwd = ctx.cwd /\ next.out = ctx.out /\ next.arg = arg
    <3>1. arg \in {"none"} \cup Targets /\ ctx \in Context
      BY <2>3 DEF arg, ScenarioInv, ScenarioTypes
    <3>2. exit \in Codes \cup {Nothing} /\ ctx.step_index + 1 \in Nat
      BY <1>2, <1>8
    <3> DEFINE count == ctx.step_index + 1
    <3> HIDE DEF count
    <3>3. count \in Nat /\ exit \in Codes \cup {Nothing}
      BY <3>2 DEF count
    <3>4. next = [ctx EXCEPT !.last = "run", !.exit = exit, !.arg = arg, !.step_index = count,
                             !.checked = FALSE]
      BY DEF count
    <3> HIDE DEF next
    <3>5. next \in Context
      BY <3>1, <3>3, <3>4 DEF Context
    <3>6. /\ next.vars = ctx.vars /\ next.faults = ctx.faults /\ next.last = "run"
          /\ next.exit = exit /\ next.checked = FALSE /\ next.step_index = count
          /\ next.cwd = ctx.cwd /\ next.out = ctx.out /\ next.arg = arg
      BY <3>1, <3>4 DEF Context
    <3> QED
      BY <3>5, <3>6 DEF count
  <2>5. phase' = "running" => ctx' = next /\ at' = i + 1
    BY <1>3, <2>1, <2>2 DEF Proceed, arg
  <2> HIDE DEF next
  <2>6. PathsOf(next, c)
    BY <1>3, <1>4, <2>3, <2>4 DEF arg, ScenarioInv, OwnPaths, PathsOf
  <2> QED
    BY <2>1, <2>4, <2>5, <2>6
<1>10. OneByOne'
  <2>1. ASSUME phase' = "running", NEW r \in RanBy(c)' PROVE r[2] < at'
    <3>1. r = new \/ (r \in RanBy(c) /\ r[2] \in Nat)
      BY <1>5 DEF RanBy, ScenarioInv, ScenarioTypes, Ran
    <3>2. r \in RanBy(c) => r[2] < i
      BY <1>3, <1>4 DEF ScenarioInv, OneByOne
    <3> QED
      BY <1>4, <1>9, <2>1, <3>1, <3>2
  <2>2. \A r \in ran' : r[1] \notin waiting'
    BY <1>3, <1>5 DEF ScenarioInv, OneByOne
  <2> QED
    BY <1>3, <1>5, <1>6, <2>1, <2>2 DEF ScenarioInv, OneByOne, Underway
<1>11. OwnContext' /\ OwnPaths'
  <2>1. SetBy(c, i + 1) = SetBy(c, i) /\ FaultsBy(c, i + 1) = FaultsBy(c, i)
    <3>1. StepsOf[c][i].kind # "set" /\ StepsOf[c][i].kind # "fail"
      BY <1>4
    <3>2. /\ SetBy(c, i + 1) = SetBy(c, i) \cup
                (IF StepsOf[c][i].kind = "set" THEN {StepsOf[c][i].name} ELSE {})
          /\ FaultsBy(c, i + 1) = FaultsBy(c, i) \cup
                (IF StepsOf[c][i].kind = "fail" THEN {StepsOf[c][i].fault} ELSE {})
      BY <1>3, OwnGrows
    <3> QED
      BY <3>1, <3>2
  <2>2. OwnContext'
    BY <1>3, <1>4, <1>5, <1>8, <1>9, <2>1 DEF ScenarioInv, OwnContext, Underway
  <2>3. OwnPaths'
    <3>1. ScenarioWorkdir(c)' = ScenarioWorkdir(c)
      BY <1>1, SameOwners
    <3> QED
      BY <1>3, <1>5, <1>9, <3>1 DEF OwnPaths, PathsOf, Underway
  <2> QED
    BY <2>2, <2>3
<1>12. ContextIsScenarioOwn'
  <2>1. new[4] = SetBy(c, i) /\ new[5] = FaultsBy(c, i)
    BY <1>3, <1>4 DEF ScenarioInv, OwnContext
  <2> QED
    BY <1>5, <2>1 DEF ScenarioInv, ContextIsScenarioOwn, SetBy, FaultsBy
<1>13. ExitsMet'
  <2>1. ASSUME NEW r \in RanBy(c), r[3] \notin {0, Nothing} PROVE Met(r)
    <3>1. Met(r) \/ Awaited(r)
      BY <1>3, <1>4, <2>1 DEF ScenarioInv, ExitsMet
    <3>2. ~Awaited(r)
      BY <1>1, <2>1 DEF Awaited, Unexpected
    <3> QED
      BY <3>1, <3>2
  <2>2. ASSUME phase' = "running", NEW r, r[1] = c, r[2] = i, r[3] = exit PROVE Awaited(r)'
    <3>1. (i + 1)..((i + 1) - 1) = {}
      BY <1>4
    <3> QED
      BY <1>9, <2>2, <3>1 DEF Awaited
  <2>3. RanBy(c)' = RanBy(c) \cup {new}
    BY <1>5 DEF RanBy
  <2>4. results[c].status # "passed"
    BY <1>3 DEF ScenarioInv, OneByOne
  <2>5. Underway' => \A r \in RanBy(c)' : r[3] \notin {0, Nothing} => Met(r) \/ Awaited(r)'
    <3>1. Underway' => phase' = "running"
      BY DEF Underway
    <3>2. new[1] = c /\ new[2] = i /\ new[3] = exit
      OBVIOUS
    <3> HIDE DEF new
    <3> QED
      BY <2>1, <2>2, <2>3, <3>1, <3>2
  <2>6. \A r \in ran' : results'[r[1]].status = "passed" /\ r[3] \notin {0, Nothing} => Met(r)
    BY <1>5, <2>4 DEF ScenarioInv, ExitsMet
  <2> QED
    BY <1>3, <1>5, <2>5, <2>6 DEF ExitsMet, Met
<1>14. PICK logged \in [DirNames -> Artifacts] :
          /\ Traces(wrote, logged)
          /\ \A n \in DirNames : logged[n].trace = artifacts[n].trace
          /\ \A n \in DirNames \ {NameOf[c]} : logged[n].logs = artifacts[n].logs
          /\ phase' = "running" /\ run_opts.artifacts_dir =>
               logged[NameOf[c]].logs =
                  {l \in artifacts[NameOf[c]].logs : l[1] # ctx.step_index + 1}
                  \cup {<<ctx.step_index + 1, c, exit>>}
  <2>1. artifacts \in [DirNames -> Artifacts] /\ NameOf[c] \in DirNames
    BY NamesAndDirs DEF ScenarioInv, ScenarioTypes
  <2>2. CASE Traces(wrote, artifacts) /\ ~(phase' = "running" /\ run_opts.artifacts_dir)
    BY <2>1, <2>2
  <2>3. CASE Traces(wrote, WriteLogs(exit))
    <3> DEFINE ls == {l \in artifacts[NameOf[c]].logs : l[1] # ctx.step_index + 1}
                      \cup {<<ctx.step_index + 1, c, exit>>}
    <3>1. WriteLogs(exit) = [artifacts EXCEPT ![NameOf[c]].logs = ls]
      BY <1>3 DEF WriteLogs
    <3>2. ls \in SUBSET ((Nat \ {0}) \X Owners \X Exits)
      <4>1. artifacts[NameOf[c]].logs \in SUBSET ((Nat \ {0}) \X Owners \X Exits)
        BY <2>1 DEF Artifacts
      <4>2. <<ctx.step_index + 1, c, exit>> \in (Nat \ {0}) \X Owners \X Exits
        BY <1>8 DEF Owners, Exits
      <4> QED
        BY <4>1, <4>2
    <3> HIDE DEF ls
    <3>3. [artifacts EXCEPT ![NameOf[c]].logs = ls] \in [DirNames -> Artifacts]
      BY <2>1, <3>2 DEF Artifacts
    <3>4. /\ [artifacts EXCEPT ![NameOf[c]].logs = ls][NameOf[c]].logs = ls
          /\ \A n \in DirNames :
                [artifacts EXCEPT ![NameOf[c]].logs = ls][n].trace = artifacts[n].trace
          /\ \A n \in DirNames \ {NameOf[c]} :
                [artifacts EXCEPT ![NameOf[c]].logs = ls][n] = artifacts[n]
      BY <2>1 DEF Artifacts
    <3> QED
      BY <2>3, <3>1, <3>3, <3>4 DEF ls
  <2> QED
    BY <1>2, <1>4, <2>2, <2>3 DEF Abort, Underway
<1>15. /\ trace' \in [Dirs -> Owners \cup {Nothing}]
       /\ \A d \in Dirs :
            \/ trace'[d] = trace[d]
            \/ d \in workdirs \cup Places /\ trace'[d] \in OfDir(d)
       /\ artifacts' \in [DirNames -> Artifacts]
       /\ \A n \in DirNames :
            /\ artifacts'[n].logs = logged[n].logs
            /\ \/ artifacts'[n].trace = artifacts[n].trace
               \/ n = NameOf[current] /\ artifacts'[n].trace = current
  BY <1>1, <1>3, <1>14, TracesDoes
<1>16. ScenarioTypes'
  <2>1. ctx' \in Context
    BY <1>6, <1>9 DEF ScenarioInv, ScenarioTypes
  <2>2. current # Nothing => at' \in 1..(Len(StepsOf[current]) + 1) /\ ScenarioWorkdir(current) \in workdirs
    BY <1>3, <1>4, <1>6 DEF ScenarioInv, ScenarioTypes
  <2>3. \A d \in Dirs : trace'[d] # Nothing => d \in workdirs \cup Places
    BY <1>3, <1>15, <2>2, <1>4 DEF ScenarioInv, ScenarioTypes
  <2>4. ran' \subseteq Ran
    BY <1>5, <1>7 DEF ScenarioInv, ScenarioTypes
  <2> QED
    BY <1>1, <1>5, <1>6, <1>7, <1>15, <2>1, <2>2, <2>3, <2>4
       DEF ScenarioInv, ScenarioTypes, ScenarioWorkdir
<1>17. TracesAreOwn'
  <2>1. current \in OfName(NameOf[current]) /\ (Cleaned' => Cleaned)
    BY <1>3, <1>4, <1>5 DEF OfName, Cleaned, Underway
  <2> QED
    BY <1>1, <1>3, <1>5, <1>15, <2>1, TraceWritten
<1>18. LogsAreOwn'
  <2> SUFFICES ASSUME NEW s \in Scenarios, s = current => phase' = "running",
                      run_opts.artifacts_dir, ~run_opts.keep_artifacts, Namesakes(s) = {s}
               PROVE  artifacts'[NameOf[s]].logs = LogsOf(s)'
    BY <1>1, <1>5 DEF LogsAreOwn
  <2>1. NameOf[s] \in DirNames /\ artifacts[NameOf[s]].logs = LogsOf(s)
    BY <1>4, NamesAndDirs DEF ScenarioInv, LogsAreOwn, Cleaned, Underway
  <2>2. CASE s = c
    <3>1. artifacts'[NameOf[s]].logs =
            {l \in LogsOf(s) : l[1] # ctx.step_index + 1} \cup {<<ctx.step_index + 1, s, exit>>}
      BY <1>3, <1>14, <1>15, <2>1, <2>2
    <3> QED
      BY <1>8, <2>2, <3>1
  <2>3. CASE s # c
    <3>1. NameOf[s] # NameOf[c]
      BY <2>3 DEF Namesakes
    <3>2. LogsOf(s)' = LogsOf(s)
      BY <1>8, <2>3, SameLogsOf
    <3> QED
      BY <1>14, <1>15, <2>1, <3>1, <3>2
  <2> QED
    BY <2>2, <2>3
<1> QED
  BY <1>10, <1>11, <1>12, <1>13, <1>16, <1>17, <1>18 DEF ScenarioInv

-----------------------------------------------------------------------------
(* The start and the end of a scenario, and of the run                     *)

\* Nothing runs and nothing is done but to say so.
LEMMA Stops ==
    ASSUME ScenarioInv, phase = "running", current = Nothing,
           phase' \in {"passed", "failed", "error"},
           UNCHANGED <<run_opts, waiting, current, at, ctx, workdirs, trace, artifacts, results, ran>>
    PROVE  ScenarioInv'
<1>1. /\ run_opts' = run_opts /\ waiting' = waiting /\ current' = Nothing /\ at' = at /\ ctx' = ctx
      /\ workdirs' = workdirs /\ trace' = trace /\ artifacts' = artifacts /\ results' = results
      /\ ran' = ran /\ ~Underway' /\ Cleaned /\ phase' # "start"
  BY DEF Underway, Cleaned
<1>2. ScenarioTypes'
  BY <1>1 DEF ScenarioInv, ScenarioTypes
<1>3. OneByOne' /\ OwnContext' /\ OwnPaths' /\ ContextIsScenarioOwn' /\ ExitsMet'
  BY <1>1 DEF ScenarioInv, OneByOne, OwnContext, OwnPaths, ContextIsScenarioOwn, ExitsMet, Met
<1>4. TracesAreOwn'
  BY <1>1, SameOwners DEF ScenarioInv, TracesAreOwn
<1>5. LogsAreOwn'
  <2>1. \A s \in Scenarios : LogsOf(s)' = LogsOf(s) /\ s # current
    BY <1>1, SameLogsOf, NamesAndDirs DEF RanBy
  <2> QED
    BY <1>1, <2>1 DEF ScenarioInv, LogsAreOwn
<1> QED
  BY <1>2, <1>3, <1>4, <1>5 DEF ScenarioInv

LEMMA Step_report == ASSUME ScenarioInv, write_report PROVE ScenarioInv'
BY Stops DEF write_report

\* Before the first scenario nothing has run; the artifacts of an earlier
\* invocation are kept, or gone.
LEMMA Step_run_scenarios == ASSUME ScenarioInv, run_scenarios PROVE ScenarioInv'
<1>1. /\ run_opts' = run_opts /\ waiting' = waiting /\ current' = current /\ at' = at /\ ctx' = ctx
      /\ workdirs' = workdirs /\ trace' = trace /\ results' = results /\ ran' = ran
      /\ phase = "start" /\ waiting = Scenarios /\ current = Nothing
      /\ \A n \in DirNames : artifacts[n].trace \in {"earlier", Nothing}
  BY DEF run_scenarios, ScenarioInv, OneByOne
<1>2. ran = {} /\ \A s \in Scenarios : results[s].status = "none" /\ results[s].hint = Nothing
  <2>1. \A r \in ran : r[1] \in Scenarios /\ r[1] \notin Scenarios
    BY <1>1 DEF ScenarioInv, ScenarioTypes, OneByOne, Ran
  <2>2. \A s \in Scenarios : results[s].status = "none" /\ results[s].hint = Nothing
    BY <1>1 DEF ScenarioInv, OneByOne
  <2> QED
    BY <2>1, <2>2
<1>3. \/ phase' = "running" /\ Cleanup
      \/ phase' = "error" /\ artifacts' = artifacts
  BY DEF run_scenarios
<1>4. /\ artifacts' \in [DirNames -> Artifacts]
      /\ phase' = "running" => \A n \in DirNames :
           \/ run_opts.keep_artifacts /\ artifacts'[n] = artifacts[n]
           \/ ~run_opts.keep_artifacts /\ artifacts'[n] = NoArtifacts
  <2>1. artifacts \in [DirNames -> Artifacts] /\ NoArtifacts \in Artifacts
    BY DEF ScenarioInv, ScenarioTypes, Artifacts, NoArtifacts
  <2> QED
    BY <1>3, <2>1 DEF Cleanup
<1>5. ScenarioTypes'
  BY <1>1, <1>3, <1>4 DEF ScenarioInv, ScenarioTypes
<1>6. OneByOne' /\ OwnContext' /\ OwnPaths' /\ ContextIsScenarioOwn' /\ ExitsMet'
  BY <1>1, <1>2, <1>3 DEF ScenarioInv, OneByOne, OwnContext, OwnPaths, ContextIsScenarioOwn,
                          ExitsMet, Underway
<1>7. TracesAreOwn'
  <2>1. \A d \in Dirs : trace'[d] \in OfDir(d)' \cup {Nothing}
    BY <1>1, SameOwners DEF ScenarioInv, TracesAreOwn
  <2>2. ASSUME Cleaned', NEW n \in DirNames PROVE artifacts'[n].trace \in OfName(n)' \cup {Nothing}
    <3>1. phase' = "running"
      BY <1>1, <1>3, <2>2 DEF Cleaned
    <3>2. CASE run_opts.keep_artifacts /\ artifacts'[n] = artifacts[n]
      BY <1>1, <3>2 DEF OfName
    <3>3. CASE artifacts'[n] = NoArtifacts
      BY <3>3 DEF NoArtifacts
    <3> QED
      BY <1>4, <3>1, <3>2, <3>3
  <2> QED
    BY <1>1, <1>2, <2>1, <2>2 DEF TracesAreOwn
<1>8. LogsAreOwn'
  <2> SUFFICES ASSUME NEW s \in Scenarios, Cleaned', ~run_opts.keep_artifacts
               PROVE  artifacts'[NameOf[s]].logs = LogsOf(s)'
    BY <1>1 DEF LogsAreOwn
  <2>1. phase' = "running" /\ NameOf[s] \in DirNames
    BY <1>1, <1>3, NamesAndDirs DEF Cleaned
  <2>2. artifacts'[NameOf[s]].logs = {}
    BY <1>4, <2>1 DEF NoArtifacts
  <2>3. RanBy(s)' = {}
    BY <1>1, <1>2 DEF RanBy
  <2>4. LogsOf(s)' = {}
    BY <2>3, Zenon DEF LogsOf
  <2> QED
    BY <2>2, <2>4
<1> QED
  BY <1>5, <1>6, <1>7, <1>8 DEF ScenarioInv

LEMMA NewContextIsTyped == ASSUME NEW dir \in Dirs PROVE NewContext(dir) \in Context
BY DEF NewContext, Context

\* A scenario starts with an empty context and has run nothing.
LEMMA Step_begin ==
    ASSUME ScenarioInv, NEW s \in Scenarios, begin_scenario(s) PROVE ScenarioInv'
<1>1. /\ phase = "running" /\ current = Nothing /\ s \in waiting
      /\ run_opts' = run_opts /\ trace' = trace /\ artifacts' = artifacts /\ ran' = ran
  BY DEF begin_scenario
<1>2. CASE Abort /\ UNCHANGED workdirs
  BY <1>1, <1>2, Stops DEF Abort
<1>3. CASE /\ workdirs' = workdirs \cup {ScenarioWorkdir(s)}
           /\ current' = s /\ at' = 1 /\ ctx' = Fresh(s)
           /\ waiting' = waiting \ {s}
           /\ UNCHANGED <<phase, results>>
  <2>1. /\ workdirs' = workdirs \cup {ScenarioWorkdir(s)} /\ current' = s /\ at' = 1
        /\ ctx' = NewContext(ScenarioWorkdir(s))
        /\ waiting' = waiting \ {s} /\ phase' = "running" /\ results' = results
    BY <1>1, <1>3 DEF Fresh
  <2>2. RanBy(s) = {} /\ RanBy(s)' = {}
    BY <1>1 DEF ScenarioInv, OneByOne, RanBy
  <2>3. ScenarioTypes'
    <3>1. NewContext(ScenarioWorkdir(s)) \in Context
      BY <1>1, NewContextIsTyped, NamesAndDirs DEF ScenarioInv, ScenarioTypes
    <3>2. 1 \in 1..(Len(StepsOf[s]) + 1)
      BY ScenarioAssumption
    <3>3. ScenarioWorkdir(s) \in DirNames \cup Scenarios /\ ScenarioWorkdir(s)' = ScenarioWorkdir(s)
      BY <1>1, NamesAndDirs DEF ScenarioWorkdir
    <3> QED
      BY <1>1, <2>1, <3>1, <3>2, <3>3 DEF ScenarioInv, ScenarioTypes
  <2>4. OneByOne'
    BY <1>1, <2>1, <2>2 DEF ScenarioInv, OneByOne, Underway
  <2>5. OwnContext'
    <3>1. Cardinality(RanBy(s)') = 0
      BY <2>2, FS_EmptySet
    <3>2. SetBy(s, 1) = {} /\ FaultsBy(s, 1) = {}
      BY NothingBefore
    <3> QED
      BY <2>1, <3>1, <3>2 DEF OwnContext, NewContext
  <2>9. OwnPaths'
    BY <1>1, <2>1, SameOwners DEF OwnPaths, PathsOf, NewContext
  <2>6. ContextIsScenarioOwn' /\ ExitsMet'
    BY <1>1, <2>1, <2>2 DEF ScenarioInv, ContextIsScenarioOwn, ExitsMet, Met
  <2>7. TracesAreOwn'
    BY <1>1, <2>1, SameOwners DEF ScenarioInv, TracesAreOwn, Cleaned
  <2>8. LogsAreOwn'
    <3>1. \A t \in Scenarios : LogsOf(t)' = LogsOf(t) /\ t # current
      BY <1>1, SameLogsOf, NamesAndDirs DEF RanBy
    <3> QED
      BY <1>1, <2>1, <3>1 DEF ScenarioInv, LogsAreOwn, Cleaned
  <2> QED
    BY <2>3, <2>4, <2>5, <2>6, <2>7, <2>8, <2>9 DEF ScenarioInv
<1> QED
  BY <1>2, <1>3 DEF begin_scenario

\* What is found at a path of the context may come under the scenario's name.
LEMMA FoundIsOwn ==
    ASSUME ScenarioInv, Underway, NEW target \in {"none"} \cup TargetsOf[current],
           Found(target) # Nothing
    PROVE  Found(target) \in OfName(NameOf[current]) /\ Found(target) \in Owners
<1>1. current \in Scenarios
  BY DEF ScenarioInv, ScenarioTypes, Underway
<1>2. PICK d : d = Resolved(target, RepoRoot)
  OBVIOUS
<1>3. target \in Targets /\ Found(target) = trace[d]
  BY <1>2 DEF Found
<1>4. target \in TargetsOf[current]
  BY <1>3, ScenarioAssumption DEF Targets
<1>5. d \in {ScenarioWorkdir(current)} \cup ReadsFrom[current]
  <2>1. CASE target = "relative"
    BY <1>1, <1>2, <1>4, <2>1, PlacesOf DEF Resolved
  <2>2. CASE target = "workdir"
    BY <1>2, <2>2 DEF Resolved
  <2>3. CASE target \in Places
    <3>1. d = target
      BY <1>2, <2>3, ScenarioAssumption DEF Resolved
    <3> QED
      BY <1>1, <1>4, <2>3, <3>1, PlacesOf
  <2> QED
    BY <1>3, <2>1, <2>2, <2>3 DEF Targets
<1> QED
  BY <1>1, <1>3, <1>5, TraceRead

\* The trace a hint names may come under the scenario's name.
LEMMA HintIsOwn ==
    ASSUME ScenarioInv, Underway, NEW hint \in HintTraces(current), hint # Nothing
    PROVE  hint \in OfName(NameOf[current]) /\ hint \in Owners
<1>1. current \in Scenarios /\ NameOf[current] \in DirNames
  BY NamesAndDirs DEF ScenarioInv, ScenarioTypes, Underway
<1>2. /\ artifacts[NameOf[current]].trace \in OfName(NameOf[current]) \cup {Nothing}
      /\ artifacts[NameOf[current]].trace \in Owners \cup {Nothing}
  BY <1>1 DEF ScenarioInv, ScenarioTypes, Artifacts, TracesAreOwn, Cleaned, Underway
<1>3. run_opts.env_trace => "process" \in OfName(NameOf[current]) /\ "process" \in Owners
  BY DEF OfName, FromProcess, Owners
<1>4. ctx.out \in {"none"} \cup TargetsOf[current] /\ ctx.arg \in {"none"} \cup TargetsOf[current]
  BY DEF ScenarioInv, OwnPaths, PathsOf
<1>5. /\ Found(ctx.out) # Nothing =>
            Found(ctx.out) \in OfName(NameOf[current]) /\ Found(ctx.out) \in Owners
      /\ Found(ctx.arg) # Nothing =>
            Found(ctx.arg) \in OfName(NameOf[current]) /\ Found(ctx.arg) \in Owners
  BY <1>4, FoundIsOwn
<1>6. \/ hint = artifacts[NameOf[current]].trace
      \/ hint = discover_trace_path
  BY DEF HintTraces
<1> QED
  BY <1>2, <1>3, <1>5, <1>6 DEF discover_trace_path

\* A scenario passes when no step failed and no exit code is left unexpected;
\* the hint of one that failed lies under its name.
LEMMA Step_end_scenario == ASSUME ScenarioInv, end_scenario PROVE ScenarioInv'
<1>1. PICK c \in Scenarios : c = current
  BY DEF end_scenario, ScenarioInv, ScenarioTypes
<1> DEFINE failed == ctx.failure \/ Unexpected
           gone == ~failed /\ ~run_opts.keep_workdir
           ends(hint) ==
              /\ results' = [results EXCEPT ![c] =
                               [status |-> IF failed THEN "failed" ELSE "passed", hint |-> hint]]
              /\ workdirs' = IF gone THEN workdirs \ {ScenarioWorkdir(c)} ELSE workdirs
              /\ trace' = IF gone THEN [trace EXCEPT ![ScenarioWorkdir(c)] = Nothing] ELSE trace
              /\ current' = Nothing /\ at' = 1
              /\ UNCHANGED <<phase, waiting, ctx>>
           aborts == Abort /\ UNCHANGED <<workdirs, trace>>
<1>2. PICK hint \in IF failed THEN HintTraces(c) ELSE {Nothing} :
        /\ phase = "running" /\ run_opts' = run_opts /\ ran' = ran
        /\ artifacts' = IF hint = Nothing THEN artifacts
                        ELSE [artifacts EXCEPT ![NameOf[c]].trace = hint]
        /\ ends(hint) \/ aborts
  BY <1>1 DEF end_scenario
<1>3. /\ Underway /\ Cleaned /\ c # Nothing /\ NameOf[c] \in DirNames
      /\ ScenarioWorkdir(c) \in DirNames \cup Scenarios
  BY <1>1, <1>2, NamesAndDirs DEF Underway, Cleaned
<1>4. hint = Nothing \/ (hint \in OfName(NameOf[c]) /\ hint \in Owners)
  BY <1>1, <1>2, <1>3, HintIsOwn
<1>5. hint # Nothing => failed
  BY <1>2
<1>6. /\ artifacts' \in [DirNames -> Artifacts]
      /\ \A n \in DirNames :
           /\ artifacts'[n].logs = artifacts[n].logs
           /\ \/ artifacts'[n].trace = artifacts[n].trace
              \/ n = NameOf[c] /\ artifacts'[n].trace \in OfName(n)
      /\ hint # Nothing => artifacts'[NameOf[c]].trace = hint
  <2>1. artifacts \in [DirNames -> Artifacts]
    BY DEF ScenarioInv, ScenarioTypes
  <2>2. CASE hint = Nothing
    BY <1>2, <2>1, <2>2
  <2>3. CASE hint \in OfName(NameOf[c]) /\ hint \in Owners /\ hint # Nothing
    <3>1. artifacts' = [artifacts EXCEPT ![NameOf[c]].trace = hint]
      BY <1>2, <2>3
    <3>2. artifacts' \in [DirNames -> Artifacts]
      BY <1>3, <2>1, <2>3, <3>1 DEF Artifacts
    <3>3. /\ artifacts'[NameOf[c]].trace = hint
          /\ \A n \in DirNames : artifacts'[n].logs = artifacts[n].logs
          /\ \A n \in DirNames \ {NameOf[c]} : artifacts'[n].trace = artifacts[n].trace
      BY <1>3, <2>1, <3>1 DEF Artifacts
    <3> QED
      BY <2>3, <3>2, <3>3
  <2> QED
    BY <1>4, <2>2, <2>3
<1>7. /\ \A s \in Scenarios : LogsOf(s)' = LogsOf(s) /\ NameOf[s] \in DirNames
      /\ \A s \in Scenarios : RanBy(s)' = RanBy(s)
  BY <1>2, SameLogsOf, NamesAndDirs DEF RanBy
<1>8. ContextIsScenarioOwn'
  BY <1>2 DEF ScenarioInv, ContextIsScenarioOwn
<1>9. \A s \in Scenarios :
        run_opts.artifacts_dir /\ ~run_opts.keep_artifacts /\ Namesakes(s) = {s} =>
            artifacts'[NameOf[s]].logs = LogsOf(s)'
  BY <1>2, <1>3, <1>6, <1>7 DEF ScenarioInv, LogsAreOwn
<1>10. LogsAreOwn'
  BY <1>2, <1>9 DEF LogsAreOwn
<1>11. CASE aborts
  <2>1. /\ phase' = "error" /\ waiting' = waiting /\ current' = current /\ at' = at /\ ctx' = ctx
        /\ results' = results /\ workdirs' = workdirs /\ trace' = trace /\ ~Underway'
    BY <1>11 DEF Abort, Underway
  <2>2. ScenarioTypes'
    BY <1>2, <1>6, <2>1 DEF ScenarioInv, ScenarioTypes, ScenarioWorkdir
  <2>3. OneByOne' /\ OwnContext' /\ OwnPaths' /\ ExitsMet'
    BY <1>2, <2>1 DEF ScenarioInv, OneByOne, OwnContext, OwnPaths, ExitsMet, Met
  <2>4. TracesAreOwn'
    BY <1>1, <1>2, <1>3, <1>6, <2>1, TraceWritten
  <2> QED
    BY <1>8, <1>10, <2>2, <2>3, <2>4 DEF ScenarioInv
<1>12. CASE ends(hint)
  <2>1. /\ phase' = "running" /\ waiting' = waiting /\ current' = Nothing /\ at' = 1 /\ ctx' = ctx
        /\ ~Underway'
    BY <1>2, <1>12 DEF Underway
  <2> DEFINE result == [status |-> IF failed THEN "failed" ELSE "passed", hint |-> hint]
  <2>2. result \in Result
    BY <1>4 DEF Result
  <2>3. /\ results' \in [Scenarios -> Result] /\ results'[c] = result
        /\ \A s \in Scenarios \ {c} : results'[s] = results[s]
    <3>1. results' = [results EXCEPT ![c] = result]
      BY <1>12
    <3> HIDE DEF result
    <3> QED
      BY <2>2, <3>1 DEF ScenarioInv, ScenarioTypes
  <2>4. /\ result.status = "passed" => ~failed
        /\ result.hint = hint
    OBVIOUS
  <2> HIDE DEF result
  <2>5. /\ trace' \in [Dirs -> Owners \cup {Nothing}]
        /\ workdirs' \subseteq DirNames \cup Scenarios
        /\ \A d \in Dirs :
              /\ trace'[d] # Nothing => d \in workdirs' \cup Places
              /\ trace'[d] \in {trace[d], Nothing}
    <3>1. /\ trace \in [Dirs -> Owners \cup {Nothing}]
          /\ workdirs \subseteq DirNames \cup Scenarios
          /\ \A d \in Dirs : trace[d] # Nothing => d \in workdirs \cup Places
          /\ ScenarioWorkdir(c) \in Dirs
      BY NamesAndDirs DEF ScenarioInv, ScenarioTypes
    <3>2. CASE gone
      <4>1. workdirs' = workdirs \ {ScenarioWorkdir(c)} /\ trace' = [trace EXCEPT ![ScenarioWorkdir(c)] = Nothing]
        BY <1>12, <3>2
      <4> QED
        BY <1>3, <3>1, <4>1
    <3>3. CASE ~gone
      <4>1. workdirs' = workdirs /\ trace' = trace
        BY <1>12, <3>3
      <4> QED
        BY <3>1, <4>1
    <3> QED
      BY <3>2, <3>3
  <2>6. ScenarioTypes'
    BY <1>2, <1>6, <2>1, <2>3, <2>5 DEF ScenarioInv, ScenarioTypes
  <2>7. OneByOne'
    <3>1. ASSUME NEW s \in Scenarios,
                 results'[s].status # "none" \/ results'[s].hint # Nothing
          PROVE  s \notin waiting /\ s # Nothing
      <4>1. s # Nothing
        BY NamesAndDirs
      <4>2. CASE s = c
        BY <1>1, <4>1, <4>2 DEF ScenarioInv, OneByOne
      <4>3. CASE s # c
        BY <2>3, <3>1, <4>1, <4>3 DEF ScenarioInv, OneByOne
      <4> QED
        BY <4>2, <4>3
    <3>2. Nothing \notin waiting
      BY NamesAndDirs DEF ScenarioInv, ScenarioTypes
    <3>3. \A r \in ran : r[1] \notin waiting
      BY DEF ScenarioInv, OneByOne
    <3> QED
      BY <1>2, <2>1, <3>1, <3>2, <3>3 DEF OneByOne
  <2>8. OwnContext' /\ OwnPaths'
    BY <2>1 DEF OwnContext, OwnPaths
  <2>9. ExitsMet'
    <3>1. ASSUME NEW r \in ran, results'[r[1]].status = "passed", r[3] \notin {0, Nothing}
          PROVE  Met(r)
      <4>1. r[1] \in Scenarios
        BY DEF ScenarioInv, ScenarioTypes, Ran
      <4>2. CASE r[1] = c
        <5>1. ~ctx.failure /\ ~Unexpected
          BY <2>3, <2>4, <3>1, <4>2
        <5>2. Met(r) \/ Awaited(r)
          BY <1>1, <1>3, <3>1, <4>2, <5>1 DEF ScenarioInv, ExitsMet, RanBy
        <5> QED
          BY <3>1, <5>1, <5>2 DEF Awaited, Unexpected
      <4>3. CASE r[1] # c
        BY <2>3, <3>1, <4>1, <4>3 DEF ScenarioInv, ExitsMet
      <4> QED
        BY <4>2, <4>3
    <3> QED
      BY <1>2, <2>1, <3>1 DEF ExitsMet, Met
  <2>10. TracesAreOwn'
    <3>1. /\ \A n \in DirNames : OfName(n)' = OfName(n) /\ Nothing \notin OfName(n)
          /\ \A d \in Dirs : OfDir(d)' = OfDir(d)
      BY <1>2, SameOwners, NothingOwns
    <3>2. \A d \in Dirs : trace'[d] \in OfDir(d)' \cup {Nothing}
      BY <2>5, <3>1 DEF ScenarioInv, TracesAreOwn
    <3>3. \A n \in DirNames : artifacts'[n].trace \in OfName(n)' \cup {Nothing}
      BY <1>3, <1>6, <3>1 DEF ScenarioInv, TracesAreOwn
    <3>4. ASSUME NEW s \in Scenarios, results'[s].hint # Nothing
          PROVE  results'[s].hint \in OfName(NameOf[s])' /\ artifacts'[NameOf[s]].trace # Nothing
      <4>1. CASE s = c
        BY <1>3, <1>4, <1>6, <2>3, <2>4, <3>1, <3>4, <4>1
      <4>2. CASE s # c
        <5>1. /\ results[s].hint # Nothing /\ results'[s].hint = results[s].hint
              /\ results[s].hint \in OfName(NameOf[s]) /\ artifacts[NameOf[s]].trace # Nothing
          BY <2>3, <3>4, <4>2 DEF ScenarioInv, TracesAreOwn
        <5> QED
          BY <1>6, <1>7, <3>1, <5>1
      <4> QED
        BY <4>1, <4>2
    <3> QED
      BY <3>2, <3>3, <3>4 DEF TracesAreOwn
  <2> QED
    BY <1>8, <1>10, <2>6, <2>7, <2>8, <2>9, <2>10 DEF ScenarioInv
<1> QED
  BY <1>2, <1>11, <1>12

-----------------------------------------------------------------------------
(* The invariant, and the theorems                                         *)

LEMMA InitScenarioInv == ScenariosInit => ScenarioInv
<1> SUFFICES ASSUME ScenariosInit PROVE ScenarioInv
  OBVIOUS
<1>1. PICK left \in BOOLEAN, there \in SUBSET Places :
         /\ workdirs = IF left /\ run_opts.workdir THEN DirNames ELSE {}
         /\ trace = [d \in Dirs |-> IF d \in workdirs \cup there THEN "earlier" ELSE Nothing]
         /\ artifacts = [n \in DirNames |->
                           IF left /\ run_opts.artifacts_dir
                           THEN [logs |-> {<<1, "earlier", 0>>}, trace |-> "earlier"]
                           ELSE NoArtifacts]
  BY DEF ScenariosInit
<1>2. /\ run_opts \in RunOptions /\ phase = "start" /\ waiting = Scenarios /\ current = Nothing
      /\ ctx = NewContext(RepoRoot) /\ ran = {} /\ ~Underway /\ ~Cleaned
      /\ results = [s \in Scenarios |-> [status |-> "none", hint |-> Nothing]]
  BY DEF ScenariosInit, Underway, Cleaned
<1>3. /\ artifacts \in [DirNames -> Artifacts]
      /\ \A n \in DirNames : artifacts[n].trace \in {"earlier", Nothing}
  <2>1. NoArtifacts \in Artifacts /\ NoArtifacts.trace = Nothing
    BY DEF NoArtifacts, Artifacts
  <2> DEFINE remains == [logs |-> {<<1, "earlier", 0>>}, trace |-> "earlier"]
  <2>2. remains \in Artifacts /\ remains.trace = "earlier"
    BY DEF Artifacts, Owners, Exits, Codes
  <2> HIDE DEF remains
  <2> QED
    BY <1>1, <2>1, <2>2 DEF remains
<1>4. ScenarioTypes
  <2>1. NewContext(RepoRoot) \in Context
    BY NewContextIsTyped, ScenarioAssumption DEF Dirs
  <2>2. results \in [Scenarios -> Result]
    BY <1>2 DEF Result
  <2>3. workdirs \subseteq DirNames
    BY <1>1
  <2>4. /\ trace \in [Dirs -> Owners \cup {Nothing}]
        /\ \A d \in Dirs : trace[d] # Nothing => d \in workdirs \cup Places
    BY <1>1 DEF Owners
  <2>5. IsFiniteSet(ran)
    BY <1>2, FS_EmptySet
  <2> QED
    BY <1>2, <1>3, <2>1, <2>2, <2>3, <2>4, <2>5 DEF ScenarioTypes
<1>5. OneByOne
  BY <1>2, <1>3, NamesAndDirs DEF OneByOne
<1>6. OwnContext /\ OwnPaths /\ ContextIsScenarioOwn /\ ExitsMet
  BY <1>2 DEF OwnContext, OwnPaths, ContextIsScenarioOwn, ExitsMet
<1>7. TracesAreOwn
  BY <1>1, <1>2 DEF TracesAreOwn, OfDir
<1>8. LogsAreOwn
  BY <1>2 DEF LogsAreOwn
<1> QED
  BY <1>4, <1>5, <1>6, <1>7, <1>8 DEF ScenarioInv

LEMMA NextScenarioInv == ScenarioInv /\ [ScenariosNext]_scenarioVars => ScenarioInv'
<1> SUFFICES ASSUME ScenarioInv, [ScenariosNext]_scenarioVars PROVE ScenarioInv'
  OBVIOUS
<1>1. ASSUME UNCHANGED scenarioVars PROVE ScenarioInv'
  <2>1. /\ run_opts' = run_opts /\ phase' = phase /\ waiting' = waiting /\ current' = current /\ at' = at
        /\ ctx' = ctx /\ workdirs' = workdirs /\ trace' = trace /\ artifacts' = artifacts
        /\ results' = results /\ ran' = ran
    BY <1>1 DEF scenarioVars
  <2>2. ScenarioTypes' /\ OneByOne' /\ OwnContext' /\ OwnPaths'
    BY <2>1 DEF ScenarioInv, ScenarioTypes, OneByOne, OwnContext, OwnPaths, PathsOf, Underway, RanBy,
                ScenarioWorkdir
  <2>3. ContextIsScenarioOwn' /\ ExitsMet'
    BY <2>1 DEF ScenarioInv, ContextIsScenarioOwn, ExitsMet, Underway, RanBy, Met, Awaited
  <2>4. TracesAreOwn' /\ LogsAreOwn'
    BY <2>1, WritesNothing
  <2> QED
    BY <2>2, <2>3, <2>4 DEF ScenarioInv
<1> QED
  BY <1>1, Step_run_scenarios, Step_begin, Step_refused, Step_command, Step_set,
     Step_env_trace_out, Step_enter_workdir, Step_expect_exit, Step_fail, Step_expect_output, Step_files, Step_write_trace,
     Step_try_save_trace, Step_end_scenario, Step_report DEF ScenariosNext

LEMMA ScenarioInvHolds == ScenariosSpec => []ScenarioInv
BY InitScenarioInv, NextScenarioInv, PTL DEF ScenariosSpec

\* The variables of the executor keep their types, and a trace lies only in a
\* workdir that exists.
THEOREM ScenariosHaveTypes == ScenariosSpec => []ScenariosTypeOK
<1>1. ScenarioInv => ScenariosTypeOK
  BY DEF ScenarioInv, ScenarioTypes, ScenariosTypeOK, Artifacts, Result, Exits
<1> QED
  BY <1>1, ScenarioInvHolds, PTL

\* Every exit code other than 0 of a scenario that passed has an #EXPECT_EXIT of
\* that code before the next command.
THEOREM PassingMeetsExits == ScenariosSpec => []PassedMeansExitsMet
<1>1. ScenarioInv => PassedMeansExitsMet
  BY DEF ScenarioInv, ExitsMet, Met, PassedMeansExitsMet
<1> QED
  BY <1>1, ScenarioInvHolds, PTL

\* A command runs with the variables and faults of the directives before it in
\* its scenario, and with no others.
THEOREM ContextIsOwn == ScenariosSpec => []ContextIsScenarioOwn
<1>1. ScenarioInv => ContextIsScenarioOwn
  BY DEF ScenarioInv
<1> QED
  BY <1>1, ScenarioInvHolds, PTL

\* The step logs of a finished scenario are those of its commands, in order.
THEOREM LogsAreComplete == ScenariosSpec => []LogsTellTheRun
<1>1. ScenarioInv => LogsTellTheRun
  BY DEF ScenarioInv, OneByOne, LogsAreOwn, LogsTellTheRun, Cleaned, LogsOf
<1> QED
  BY <1>1, ScenarioInvHolds, PTL

\* A replay hint names the scenario's own trace, now and to the end, but for
\* what the plans and the flags let in by name, path or #WORKDIR.
THEOREM HintsAreOwn == ScenariosSpec => []HintNamesOwnTrace
<1>1. ScenarioInv => HintNamesOwnTrace
  <2> SUFFICES ASSUME ScenarioInv, NEW s \in Scenarios, results[s].hint # Nothing
               PROVE  {results[s].hint, artifacts[NameOf[s]].trace} \subseteq TracesAllowed(s)
    BY DEF HintNamesOwnTrace
  <2>1. Cleaned
    BY DEF ScenarioInv, OneByOne, Cleaned
  <2>2. results[s].hint \in OfName(NameOf[s]) /\ artifacts[NameOf[s]].trace \in OfName(NameOf[s])
    BY <2>1, NamesAndDirs DEF ScenarioInv, TracesAreOwn
  <2>3. OfName(NameOf[s]) \subseteq TracesAllowed(s)
    BY DEF OfName, TracesAllowed, Namesakes, FromProcess
  <2> QED
    BY <2>2, <2>3
<1> QED
  BY <1>1, ScenarioInvHolds, PTL

=============================================================================
