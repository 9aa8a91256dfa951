--------------------------- MODULE GtestScenarios ---------------------------
(***************************************************************************)
(* The tester's `run --gtest` mode: scenarios of `#` directives run one    *)
(* after the other, with step logs, a saved trace and a replay hint.       *)
(*                                                                         *)
(* Nothing runs concurrently here.  What is hard is what one scenario      *)
(* leaves to the next: the context, the working directory and the          *)
(* artifacts directory, both named for the file stem, the directories that *)
(* several scenarios enter with #WORKDIR or write a trace to, and what an  *)
(* earlier invocation left in any of them.                                 *)
(***************************************************************************)
EXTENDS Naturals, Sequences, FiniteSets

CONSTANTS
    Scenarios,   \* the discovered .gtest files
    NameOf,      \* NameOf[s]: the sanitized file stem of s
    StepsOf,     \* StepsOf[s]: the steps s parses to
    RunOptions,  \* the combinations of flags tried
    Names,       \* names of #SET and #ENV variables
    Faults,      \* the GREENTIC_FAIL_ variables
    Places,      \* directories that are no scenario's working directory
    RepoRoot,    \* the one the tester runs in
    Nothing

Codes == {0, 1}
Owners == Scenarios \cup {"earlier", "process"}
DirNames == {NameOf[s] : s \in Scenarios}
Dirs == DirNames \cup Scenarios \cup Places

\* Where the path of a trace file leads: to the directory the one who opens it
\* runs in, to the scenario's ${WORK_DIR}, or to one of the Places.
Targets == {"relative", "workdir"} \cup Places

\* A command, with the variables its line names, where it writes a trace, if it
\* does (where $GREENTIC_TRACE_OUT says, or its own --trace-out), and whether it
\* is a `cargo` without --manifest-path; #SET and #ENV; #ENV of
\* GREENTIC_TRACE_OUT; #WORKDIR; #EXPECT_EXIT; #FAIL; a #WRITE of a trace file;
\* #TRY_SAVE_TRACE of that file; any other directive, which needs a command's
\* output, or files, or nothing.
ScenarioStep ==
    [kind: {"command"}, uses: SUBSET Names, trace: {"none", "env"} \cup Targets, cargo: BOOLEAN]
    \cup [kind: {"set"}, name: Names, uses: SUBSET Names]
    \cup [kind: {"env_trace_out"}, to: Targets]
    \cup [kind: {"workdir"}, to: {"workdir"} \cup Places]
    \cup [kind: {"expect_exit"}, code: Codes]
    \cup [kind: {"fail"}, fault: Faults]
    \cup [kind: {"write_trace", "try_save_trace", "expect_output", "files"}]

ASSUME ScenarioAssumption ==
    /\ IsFiniteSet(Scenarios)
    /\ StepsOf \in [Scenarios -> Seq(ScenarioStep)]
    /\ DirNames \cap Scenarios = {}
    /\ Places \cap (DirNames \cup Scenarios \cup {"none", "env", "relative", "workdir"}) = {}
    /\ RepoRoot \in Places
    /\ RunOptions \subseteq [workdir: BOOLEAN, keep_workdir: BOOLEAN, artifacts_dir: BOOLEAN,
                             keep_artifacts: BOOLEAN, env_trace: BOOLEAN]
    /\ Nothing \notin Codes /\ Nothing \notin Owners

VARIABLES
    run_opts,   \* RunOptions, and whether $GREENTIC_TRACE_OUT names a file; never changes
    phase,      \* "start", "running", "passed" or "failed" (reported), "error" (no report)
    waiting,    \* scenarios not run yet
    current,    \* the scenario that runs, or Nothing
    at,         \* its next step
    ctx,        \* its ExecutionContext
    workdirs,   \* working directories that exist
    trace,      \* trace[d]: whose trace file lies in directory d
    artifacts,  \* artifacts[n]: the step logs and the trace.json under that name
    results     \* status and replay hint of each scenario

\* History variable: <<s, i, exit, vars, faults>>, the i-th step of s was a
\* command, run with this context to this exit code.
VARIABLE ran

scenarioVars == <<run_opts, phase, waiting, current, at, ctx, workdirs, trace, artifacts, results, ran>>

Context ==
    [cwd: Dirs,
     vars: SUBSET Names,               \* substitution.test_vars, .env_vars
     faults: SUBSET Faults,            \* of env_overrides
     out: {"none"} \cup Targets,       \* what #ENV says for GREENTIC_TRACE_OUT
     last: {"no run", "run"},          \* last_run
     exit: Codes \cup {Nothing},       \* last_run.exit; Nothing for a killed child
     arg: {"none"} \cup Targets,       \* the --trace-out of last_run.argv
     checked: BOOLEAN,                 \* last_run_exit_checked
     step_index: Nat,
     failure: BOOLEAN]

NewContext(dir) ==
    [cwd |-> dir, vars |-> {}, faults |-> {}, out |-> "none", last |-> "no run", exit |-> Nothing,
     arg |-> "none", checked |-> FALSE, step_index |-> 0, failure |-> FALSE]

NoArtifacts == [logs |-> {}, trace |-> Nothing]

ScenariosTypeOK ==
    /\ run_opts \in RunOptions
    /\ phase \in {"start", "running", "passed", "failed", "error"}
    /\ waiting \subseteq Scenarios
    /\ current \in Scenarios \cup {Nothing}
    /\ ctx \in Context
    /\ current # Nothing => at \in 1..(Len(StepsOf[current]) + 1)
    /\ workdirs \subseteq DirNames \cup Scenarios
    /\ \A d \in Dirs : trace[d] # Nothing => d \in workdirs \cup Places /\ trace[d] \in Owners
    /\ \A n \in DirNames :
         /\ artifacts[n].logs \subseteq (Nat \ {0}) \X Owners \X (Codes \cup {Nothing})
         /\ artifacts[n].trace \in Owners \cup {Nothing}
    /\ results \in [Scenarios -> [status: {"none", "passed", "failed"},
                                  hint: Owners \cup {Nothing}]]

\* A previous invocation may have left its files under either directory, and
\* anyone a trace in the other places.
ScenariosInit ==
    /\ run_opts \in RunOptions
    /\ phase = "start"
    /\ waiting = Scenarios
    /\ current = Nothing /\ at = 1 /\ ctx = NewContext(RepoRoot)
    /\ \E left \in BOOLEAN, there \in SUBSET Places :
         /\ workdirs = IF left /\ run_opts.workdir THEN DirNames ELSE {}
         /\ trace = [d \in Dirs |-> IF d \in workdirs \cup there THEN "earlier" ELSE Nothing]
         /\ artifacts = [n \in DirNames |->
                           IF left /\ run_opts.artifacts_dir
                           THEN [logs |-> {<<1, "earlier", 0>>}, trace |-> "earlier"]
                           ELSE NoArtifacts]
    /\ results = [s \in Scenarios |-> [status |-> "none", hint |-> Nothing]]
    /\ ran = {}

ScenarioWorkdir(s) == IF run_opts.workdir THEN NameOf[s] ELSE s

\* An Err leaves run_scenarios and run_new: no report is written.
Abort == phase' = "error" /\ UNCHANGED <<waiting, current, at, ctx, results>>

-----------------------------------------------------------------------------
\* cleanup_artifacts_root.
Cleanup == artifacts' = IF run_opts.keep_artifacts THEN artifacts
                        ELSE [n \in DirNames |-> NoArtifacts]

\* run_scenarios up to its loop; the directory may be impossible to delete.
run_scenarios ==
    /\ phase = "start"
    /\ \/ phase' = "running" /\ Cleanup
       \/ /\ run_opts.artifacts_dir /\ ~run_opts.keep_artifacts
          /\ phase' = "error" /\ UNCHANGED artifacts
    /\ UNCHANGED <<run_opts, waiting, current, at, ctx, workdirs, trace, results, ran>>

\* Mutant: what the scenario before has set stays set.
MutantFresh(s) == [NewContext(ScenarioWorkdir(s)) EXCEPT !.vars = ctx.vars, !.out = ctx.out]

\* The ExecutionContext a scenario starts with.
Fresh(s) == NewContext(ScenarioWorkdir(s))

\* prepare_workdir, the artifacts directories, and a new context.
begin_scenario(s) ==
    /\ phase = "running" /\ current = Nothing
    /\ s \in waiting
    /\ \/ /\ workdirs' = workdirs \cup {ScenarioWorkdir(s)}
          /\ current' = s /\ at' = 1 /\ ctx' = Fresh(s)
          /\ waiting' = waiting \ {s}
          /\ UNCHANGED <<phase, results>>
       \/ Abort /\ UNCHANGED workdirs
    /\ UNCHANGED <<run_opts, trace, artifacts, ran>>

-----------------------------------------------------------------------------
(* run_scenario's loop                                                     *)

StepNow == StepsOf[current][at]
AtScenarioStep(kind) ==
    /\ phase = "running" /\ current # Nothing /\ ~ctx.failure
    /\ at <= Len(StepsOf[current])
    /\ StepNow.kind = kind

Proceed(c) == ctx' = c /\ at' = at + 1
Fail == ctx' = [ctx EXCEPT !.failure = TRUE] /\ UNCHANGED at

\* The last command failed and no #EXPECT_EXIT said it would.  A child killed
\* by a signal has no exit code and counts as 0.
Unexpected == ctx.last = "run" /\ ctx.exit \notin {0, Nothing} /\ ~ctx.checked

\* Mutant: the next command is covered by the #EXPECT_EXIT of this one.
MutantLastRun(exit, arg) ==
    [ctx EXCEPT !.last = "run", !.exit = exit, !.arg = arg, !.step_index = @ + 1]

\* The context once a command has run.
LastRun(exit, arg) ==
    [ctx EXCEPT !.last = "run", !.exit = exit, !.arg = arg, !.step_index = @ + 1,
                !.checked = FALSE]

\* Mutant: a step's logs are numbered by the commands before it.
MutantWriteLogs(exit) ==
    [artifacts EXCEPT ![NameOf[current]].logs =
        {l \in @ : l[1] # ctx.step_index} \cup {<<ctx.step_index, current, exit>>}]

\* write_step_artifacts.
WriteLogs(exit) ==
    [artifacts EXCEPT ![NameOf[current]].logs =
        {l \in @ : l[1] # ctx.step_index + 1} \cup {<<ctx.step_index + 1, current, exit>>}]

\* Where the path of a trace leads whoever runs in `here`.
Resolved(target, here) ==
    IF target = "relative" THEN here
    ELSE IF target = "workdir" THEN ScenarioWorkdir(current)
    ELSE target

\* The --trace-out of a command, and the path its child writes a trace to: its
\* own, or that of $GREENTIC_TRACE_OUT; "none" stands for trace.json of the
\* artifacts directory there.
TraceArg(step) == IF step.trace \in Targets THEN step.trace ELSE "none"
TraceOut(step) == IF step.trace = "env" THEN ctx.out ELSE step.trace

\* What the child leaves: a trace, if it is one that writes it and gets so far.
\* It runs in ctx.cwd, or, a `cargo` where there is no manifest, in RepoRoot.
Traces(wrote, logged) ==
    \E here \in {ctx.cwd} \cup (IF StepNow.cargo THEN {RepoRoot} ELSE {}) :
        LET out == TraceOut(StepNow)
        IN  /\ trace' = IF wrote /\ out \in Targets
                        THEN [trace EXCEPT ![Resolved(out, here)] = current] ELSE trace
            /\ artifacts' = IF /\ wrote /\ StepNow.trace = "env" /\ out = "none"
                               /\ run_opts.artifacts_dir
                            THEN [logged EXCEPT ![NameOf[current]].trace = current] ELSE logged

\* A command: the check of the one before, substitution, and the child, which
\* may not start (no such program or directory).
refused ==
    /\ AtScenarioStep("command")
    /\ Fail
    /\ UNCHANGED <<run_opts, phase, waiting, current, workdirs, trace, artifacts, results, ran>>

scenario_command ==
    /\ AtScenarioStep("command")
    /\ ~Unexpected /\ StepNow.uses \subseteq ctx.vars
    /\ \E exit \in Codes \cup {Nothing}, wrote \in BOOLEAN :
         /\ ran' = ran \cup {<<current, at, exit, ctx.vars, ctx.faults>>}
         /\ \/ /\ Proceed(LastRun(exit, TraceArg(StepNow)))
               /\ Traces(wrote, IF run_opts.artifacts_dir THEN WriteLogs(exit) ELSE artifacts)
               /\ UNCHANGED <<phase, waiting, current, results>>
            \/ run_opts.artifacts_dir /\ Abort /\ Traces(wrote, artifacts)
    /\ UNCHANGED <<run_opts, workdirs>>

\* #SET and #ENV.
set ==
    /\ AtScenarioStep("set")
    /\ IF StepNow.uses \subseteq ctx.vars
       THEN Proceed([ctx EXCEPT !.vars = @ \cup {StepNow.name}]) ELSE Fail
    /\ UNCHANGED <<run_opts, phase, waiting, current, workdirs, trace, artifacts, results, ran>>

\* #ENV GREENTIC_TRACE_OUT.
env_trace_out ==
    /\ AtScenarioStep("env_trace_out")
    /\ Proceed([ctx EXCEPT !.out = StepNow.to]) \/ Fail
    /\ UNCHANGED <<run_opts, phase, waiting, current, workdirs, trace, artifacts, results, ran>>

\* #WORKDIR: a directory under the test root, or an absolute one, there or not.
enter_workdir ==
    /\ AtScenarioStep("workdir")
    /\ Proceed([ctx EXCEPT !.cwd = Resolved(StepNow.to, ctx.cwd)]) \/ Fail
    /\ UNCHANGED <<run_opts, phase, waiting, current, workdirs, trace, artifacts, results, ran>>

expect_exit ==
    /\ AtScenarioStep("expect_exit")
    /\ IF ctx.last = "run" /\ ctx.exit = StepNow.code
       THEN Proceed([ctx EXCEPT !.checked = TRUE]) ELSE Fail
    /\ UNCHANGED <<run_opts, phase, waiting, current, workdirs, trace, artifacts, results, ran>>

\* #FAIL; a delay or a ratio may be none.
fail ==
    /\ AtScenarioStep("fail")
    /\ Proceed([ctx EXCEPT !.faults = @ \cup {StepNow.fault}]) \/ Fail
    /\ UNCHANGED <<run_opts, phase, waiting, current, workdirs, trace, artifacts, results, ran>>

\* #EXPECT_STDOUT_CONTAINS, #CAPTURE_JSON, ...: no command, no output.
expect_output ==
    /\ AtScenarioStep("expect_output")
    /\ (ctx.last = "run" /\ Proceed(ctx)) \/ Fail
    /\ UNCHANGED <<run_opts, phase, waiting, current, workdirs, trace, artifacts, results, ran>>

\* #MKDIR, #NORMALIZE_JSON, #DIFF_JSON, #EXPECT_JSONPATH, ...
files ==
    /\ AtScenarioStep("files")
    /\ Proceed(ctx) \/ Fail
    /\ UNCHANGED <<run_opts, phase, waiting, current, workdirs, trace, artifacts, results, ran>>

\* #WRITE trace.json, in the current directory.
write_trace ==
    /\ AtScenarioStep("write_trace")
    /\ \/ Proceed(ctx) /\ trace' = [trace EXCEPT ![ctx.cwd] = current]
       \/ Fail /\ UNCHANGED trace
    /\ UNCHANGED <<run_opts, phase, waiting, current, workdirs, artifacts, results, ran>>

\* #TRY_SAVE_TRACE fails without --artifacts-dir, not without the file.
try_save_trace ==
    /\ AtScenarioStep("try_save_trace")
    /\ LET found == trace[ctx.cwd]
       IN  IF ~run_opts.artifacts_dir THEN Fail /\ UNCHANGED artifacts
           ELSE \/ /\ Proceed(ctx)
                   /\ artifacts' = IF found = Nothing THEN artifacts
                                   ELSE [artifacts EXCEPT ![NameOf[current]].trace = found]
                \/ found # Nothing /\ Fail /\ UNCHANGED artifacts
    /\ UNCHANGED <<run_opts, phase, waiting, current, workdirs, trace, results, ran>>

-----------------------------------------------------------------------------
(* The end of a scenario                                                   *)

\* What the tester, which runs in RepoRoot, finds at the path of a trace.
Found(target) == IF target \in Targets THEN trace[Resolved(target, RepoRoot)] ELSE Nothing

discover_trace_path ==
    IF Found(ctx.out) # Nothing THEN Found(ctx.out)
    ELSE IF run_opts.env_trace THEN "process"
    ELSE Found(ctx.arg)

\* build_replay_hint: the traces the hint may name.  One that is found is copied
\* to artifacts/trace.json, unless that fails.
HintTraces(s) ==
    IF ~run_opts.artifacts_dir THEN {Nothing}
    ELSE IF artifacts[NameOf[s]].trace # Nothing THEN {artifacts[NameOf[s]].trace}
    ELSE {discover_trace_path, Nothing}

\* A scenario that passed loses its workdir.  Writing scenario.meta.json may fail.
end_scenario ==
    /\ phase = "running" /\ current # Nothing
    /\ ctx.failure \/ at > Len(StepsOf[current])
    /\ LET failed == ctx.failure \/ Unexpected
           gone   == ~failed /\ ~run_opts.keep_workdir
       IN  \E hint \in IF failed THEN HintTraces(current) ELSE {Nothing} :
           /\ artifacts' = IF hint = Nothing THEN artifacts
                           ELSE [artifacts EXCEPT ![NameOf[current]].trace = hint]
           /\ \/ /\ results' = [results EXCEPT ![current] =
                                  [status |-> IF failed THEN "failed" ELSE "passed",
                                   hint |-> hint]]
                 /\ workdirs' = IF gone THEN workdirs \ {ScenarioWorkdir(current)} ELSE workdirs
                 /\ trace' = IF gone THEN [trace EXCEPT ![ScenarioWorkdir(current)] = Nothing]
                             ELSE trace
                 /\ current' = Nothing /\ at' = 1
                 /\ UNCHANGED <<phase, waiting, ctx>>
              \/ run_opts.artifacts_dir /\ Abort /\ UNCHANGED <<workdirs, trace>>
    /\ UNCHANGED <<run_opts, ran>>

\* run_new after run_scenarios: the JUnit report, the hints, the exit code.
write_report ==
    /\ phase = "running" /\ current = Nothing /\ waiting = {}
    /\ phase' = IF \E s \in Scenarios : results[s].status = "failed" THEN "failed" ELSE "passed"
    /\ UNCHANGED <<run_opts, waiting, current, at, ctx, workdirs, trace, artifacts, results, ran>>

ScenariosNext ==
    \/ run_scenarios
    \/ \E s \in Scenarios : begin_scenario(s)
    \/ refused
    \/ scenario_command
    \/ set
    \/ env_trace_out
    \/ enter_workdir
    \/ expect_exit
    \/ fail
    \/ expect_output
    \/ files
    \/ write_trace
    \/ try_save_trace
    \/ end_scenario
    \/ write_report

ScenariosSpec == ScenariosInit /\ [][ScenariosNext]_scenarioVars

-----------------------------------------------------------------------------
(* Properties                                                              *)

Namesakes(s) == {t \in Scenarios : NameOf[t] = NameOf[s]}
Kinds(s, i, kind) == {j \in 1..(i - 1) : StepsOf[s][j].kind = kind}
RanBy(s) == {r \in ran : r[1] = s}

\* A scenario that passed has, for every command that exited with a code other
\* than 0, an #EXPECT_EXIT of just that code after it and before the next
\* command: no expectation covers two commands, and none comes too late.
PassedMeansExitsMet ==
    \A r \in ran :
        results[r[1]].status = "passed" /\ r[3] \notin {0, Nothing} =>
            \E j \in (r[2] + 1)..Len(StepsOf[r[1]]) :
                /\ StepsOf[r[1]][j] = [kind |-> "expect_exit", code |-> r[3]]
                /\ \A k \in (r[2] + 1)..j : StepsOf[r[1]][k].kind # "command"

\* Each command runs with exactly the variables and the injected faults of the
\* directives before it in its own scenario: "Drop state writes for subsequent
\* commands" (docs/README.md:55) means all of those and no other scenario's.
ContextIsScenarioOwn ==
    \A r \in ran :
        /\ r[4] = {StepsOf[r[1]][j].name : j \in Kinds(r[1], r[2], "set")}
        /\ r[5] = {StepsOf[r[1]][j].fault : j \in Kinds(r[1], r[2], "fail")}

\* The step logs of a finished scenario number its commands in the order they
\* ran and show their exit codes, and there are no others, unless the logs of
\* a namesake or, with --keep-artifacts, of an earlier invocation mix in.
LogsTellTheRun ==
    \A s \in Scenarios :
        /\ results[s].status # "none" /\ run_opts.artifacts_dir
        /\ ~run_opts.keep_artifacts /\ Namesakes(s) = {s}
        => artifacts[NameOf[s]].logs =
             {<<Cardinality({q \in RanBy(s) : q[2] <= r[2]}), s, r[3]>> : r \in RanBy(s)}

\* The places s enters, those it names for a trace, and those where it may so
\* leave one (a `cargo` may run in RepoRoot) or have one looked for (RepoRoot is
\* where the tester resolves a relative path).
TargetsOf == [s \in Scenarios |->
    {x \in Targets : \E i \in DOMAIN StepsOf[s] :
        \/ StepsOf[s][i].kind = "command" /\ StepsOf[s][i].trace = x
        \/ StepsOf[s][i].kind = "env_trace_out" /\ StepsOf[s][i].to = x}]
Visits == [s \in Scenarios |->
    {p \in Places : \E i \in DOMAIN StepsOf[s] :
        StepsOf[s][i].kind = "workdir" /\ StepsOf[s][i].to = p}]
RunsCargo(s) ==
    \E i \in DOMAIN StepsOf[s] : StepsOf[s][i].kind = "command" /\ StepsOf[s][i].cargo
WritesTo == [s \in Scenarios |->
    Visits[s] \cup (TargetsOf[s] \cap Places) \cup (IF RunsCargo(s) THEN {RepoRoot} ELSE {})]
ReadsFrom == [s \in Scenarios |->
    Visits[s] \cup (TargetsOf[s] \cap Places)
    \cup (IF "relative" \in TargetsOf[s] THEN {RepoRoot} ELSE {})]

\* Whose trace may come under the name of s: that of a namesake, since the
\* directories are named for the stem; of a scenario that writes where one of
\* the name reads, outside their working directories; an earlier one, where
\* --keep-artifacts, --workdir or such a place kept it; or the file of
\* $GREENTIC_TRACE_OUT.
TracesAllowed(s) ==
    Namesakes(s)
    \cup {t \in Scenarios : \E u \in Namesakes(s) : WritesTo[t] \cap ReadsFrom[u] # {}}
    \cup (IF \/ run_opts.keep_artifacts \/ run_opts.workdir
             \/ \E u \in Namesakes(s) : ReadsFrom[u] # {}
          THEN {"earlier"} ELSE {})
    \cup (IF run_opts.env_trace THEN {"process"} ELSE {})

\* The trace a replay hint names is the failed scenario's own, to the end of the
\* run, but for those that the plans and flags themselves let in: what a
\* scenario writes to its working directory, sets with #ENV or passes as
\* --trace-out never shows up in the hint of an unrelated one.
HintNamesOwnTrace ==
    \A s \in Scenarios :
        results[s].hint # Nothing =>
            {results[s].hint, artifacts[NameOf[s]].trace} \subseteq TracesAllowed(s)
=============================================================================
