-------------------------------- MODULE Tester --------------------------------
(***************************************************************************)
(* One invocation of greentic-integration-tester: main_entry leads either  *)
(* to the workers of `--test` (TestSuite) or to `run --gtest`              *)
(* (GtestScenarios).  The state of the other mode stays as it was.         *)
(***************************************************************************)
EXTENDS TestSuite, GtestScenarios

VARIABLE mode   \* "test", or "run" (CliCommand::Run)

testerVars == <<vars, scenarioVars, mode>>

\* In the mode that is not chosen nothing was left, and the flags do not count.
NoSuite == opts = CHOOSE o \in Options : TRUE
NoScenarios ==
    /\ run_opts = CHOOSE o \in RunOptions : TRUE
    /\ workdirs = {} /\ \A d \in Dirs : trace[d] = Nothing
    /\ \A n \in DirNames : artifacts[n] = NoArtifacts

TesterInit ==
    /\ Init /\ ScenariosInit
    /\ \/ mode = "test" /\ NoScenarios
       \/ mode = "run" /\ NoSuite

main_entry ==
    \/ mode = "test" /\ Next /\ UNCHANGED <<scenarioVars, mode>>
    \/ mode = "run" /\ ScenariosNext /\ UNCHANGED <<vars, mode>>

TesterSpec == TesterInit /\ [][main_entry]_testerVars
=============================================================================
