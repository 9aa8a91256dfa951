------------------------------- MODULE ScriptRun -------------------------------
(* A script that is read and then run: once the reader has returned the       *)
(* plan, its first step is executed: a command, a check of a document, or     *)
(* one of the `packs` commands.  Scripts of other steps are only read.        *)
EXTENDS PlanReader, CommandRun, JsonChecks, PackQueries

CONSTANTS
    Programs,   \* Programs[text]: what the program on such a line may do
    Checking,   \* the text of a line that checks a document
    Asking      \* the text of a line that is a `packs` command

ASSUME ScriptAssumption == \A text \in DOMAIN Programs : Programs[text] \subseteq Trees

scriptRunVars == <<vars, commandVars, check, packsVars>>

RunInit == Init /\ CommandInit /\ CheckInit /\ PacksInit

reads_script ==
    /\ Next
    /\ waiter = "ready" /\ check = NoCheck /\ packs_at = "start"
    /\ UNCHANGED <<commandVars, check, packsVars>>

\* run_plan and run_scenario of a plan with a step to execute.
AtStep == outcome = "done" /\ kept = None /\ steps # <<>>

\* The step is a command, or an @set, the one directive that runs a process.
executes_step ==
    /\ AtStep
    /\ LET step == Head(steps)
           text == step.raw.text
       IN  /\ text \in DOMAIN Programs
           /\ \E t \in Programs[text] :
                \/ reader = "legacy" /\ step.kind = "command" /\ execute_command(t)
                \/ reader = "legacy" /\ step.kind = "directive" /\ run_set_command(t)
                \/ reader = "gtest" /\ step.kind = "command" /\ execute_scenario_command(t)
    /\ UNCHANGED <<vars, check, packsVars>>

executing == CommandSteps /\ UNCHANGED <<vars, check, packsVars>>

checks_document ==
    /\ AtStep /\ Head(steps).raw.text = Checking
    /\ checks
    /\ UNCHANGED <<vars, commandVars, packsVars>>

asks_for_packs ==
    /\ AtStep /\ Head(steps).raw.text = Asking
    /\ PacksNext
    /\ UNCHANGED <<vars, commandVars, check>>

RunNext == reads_script \/ executes_step \/ executing \/ checks_document \/ asks_for_packs

\* Fair are the processes and the threads of the command alone.
RunSpec == RunInit /\ [][RunNext]_scriptRunVars /\ CommandFairness

=============================================================================
