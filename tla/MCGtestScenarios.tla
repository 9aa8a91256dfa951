-------------------------- MODULE MCGtestScenarios --------------------------
(* Small instances of GtestScenarios.                                      *)
EXTENDS GtestScenarios, TLC

CONSTANTS sA, sB, sC, nameAB, nameC, varV, varW, dropWrite, root, shared

ScenarioCommand(uses, out) ==
    [kind |-> "command", uses |-> uses, trace |-> out, cargo |-> FALSE]
Cargo(uses, out) == [kind |-> "command", uses |-> uses, trace |-> out, cargo |-> TRUE]
Set(name, uses) == [kind |-> "set", name |-> name, uses |-> uses]
EnvTraceOut(to) == [kind |-> "env_trace_out", to |-> to]
Workdir(to) == [kind |-> "workdir", to |-> to]
ExpectExit(code) == [kind |-> "expect_exit", code |-> code]
Fault(fault) == [kind |-> "fail", fault |-> fault]
Directive(kind) == [kind |-> kind]

\* Two scenarios of one stem, a directive of the second naming what only the
\* first defines, and a third that saves a trace file by hand.  The first and
\* the third enter the same directory; the second has its trace written to the
\* tester's own, where `cargo` may run and relative paths are looked up.
MCSteps ==
    (sA :> <<Set(varV, {}), Workdir(shared), Directive("write_trace"), Cargo({varV}, "relative"),
             Directive("expect_output")>>)
    @@ (sB :> <<Directive("files"), EnvTraceOut(root), ScenarioCommand({}, "env"),
                Set(varW, {varV})>>)
    @@ (sC :> <<Workdir(shared), Fault(dropWrite), ScenarioCommand({}, "env"), ExpectExit(1),
                Directive("try_save_trace"), ScenarioCommand({}, "workdir")>>)
MCNames == (sA :> nameAB) @@ (sB :> nameAB) @@ (sC :> nameC)
Flags(workdir, keep_workdir, artifacts_dir, keep_artifacts, env_trace) ==
    [workdir |-> workdir, keep_workdir |-> keep_workdir, artifacts_dir |-> artifacts_dir,
     keep_artifacts |-> keep_artifacts, env_trace |-> env_trace]
MCRunOptions == {Flags(FALSE, TRUE, FALSE, FALSE, FALSE), Flags(FALSE, FALSE, TRUE, FALSE, TRUE),
                 Flags(TRUE, FALSE, TRUE, TRUE, FALSE)}
=============================================================================
