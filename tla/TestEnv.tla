------------------------------- MODULE TestEnv -------------------------------
(***************************************************************************)
(* The end-to-end harness: TestEnv (a Docker Compose project with NATS and *)
(* Postgres) and TestStack (a runner process on one fixed port), as tests  *)
(* use them, side by side and one after the other.                         *)
(*                                                                         *)
(* Two things are shared and outlive a test: the Compose project and the   *)
(* directory, both named for the test, and the runner port.  Docker and    *)
(* the runner program are external; containers do not stop by themselves.  *)
(***************************************************************************)
EXTENDS Naturals, Sequences, FiniteSets

CONSTANTS
    Envs,    \* invocations of tests; each makes one TestEnv
    NameOf,  \* NameOf[e]: its resolved test name
    None

\* The services, in the order wait_for_ports and then ensure_services_ready
\* probe them.
Services == {"nats", "postgres"}
Probes == <<"nats", "postgres", "nats", "postgres">>

Names == {NameOf[e] : e \in Envs}

ASSUME EnvAssumption == IsFiniteSet(Envs) /\ None \notin Envs

VARIABLES
    containers,  \* containers[n]: the running ones, each with the env it was made for
    env,         \* each TestEnv
    runner,      \* the runner process of each env's TestStack
    port,        \* the env whose runner listens on RUNNER_PORT, or None
    log          \* log[n]: who wrote compose.log and whose output it shows

\* History variables: read by properties, never by a guard.
VARIABLES
    began,      \* began[n]: the last env of that name
    mixed,      \* envs that ran beside a namesake
    uncleaned,  \* envs whose cleanup left containers of an earlier run
    started,    \* started[e]: the services e's compose up made
    unlogged,   \* envs of which docker compose logs failed, or whose logs Drop
                \* captured again because compose down failed
    abandoned,  \* envs whose process was killed, or whose last compose down failed
    leaked,     \* envs whose TestStack went without down
    beside,     \* envs whose TestStack was up beside another one
    seen        \* seen[e]: whose runner answered e's healthcheck of its stack

history == <<began, mixed, uncleaned, started, unlogged, abandoned, leaked, beside, seen>>
vars == <<containers, env, runner, port, log, history>>

Rows == Services \X Envs

\* up runs from "new" to "ready"; down goes through "down_log" and
\* "down_stop", Drop through "drop_log" and "drop_stop".
Env ==
    [pc: {"new", "cleanup", "compose", "ports", "probe", "ready",
          "down_log", "down_stop", "drop_log", "drop_stop", "gone"},
     urls: SUBSET Rows,         \* the containers nats_url and db_url lead to
     probe: 1..(Len(Probes) + 1),
     stack: {"none", "up", "checking"}]

TypeOK ==
    /\ containers \in [Names -> SUBSET Rows]
    /\ \A n \in Names : \A r, s \in containers[n] : r[1] = s[1] => r = s
    /\ env \in [Envs -> Env]
    /\ runner \in [Envs -> {"none", "starting", "listening", "dead"}]
    /\ port \in Envs \cup {None}
    /\ \A e \in Envs : port = e <=> runner[e] = "listening"
    /\ log \in [Names -> [by: Envs \cup {None}, rows: SUBSET Rows]]

Init ==
    /\ containers = [n \in Names |-> {}]
    /\ env = [e \in Envs |-> [pc |-> "new", urls |-> {}, probe |-> 1, stack |-> "none"]]
    /\ runner = [e \in Envs |-> "none"]
    /\ port = None
    /\ log = [n \in Names |-> [by |-> None, rows |-> {}]]
    /\ began = [n \in Names |-> None]
    /\ started = [e \in Envs |-> {}]
    /\ seen = [e \in Envs |-> None]
    /\ mixed = {} /\ uncleaned = {} /\ unlogged = {} /\ abandoned = {}
    /\ leaked = {} /\ beside = {}

At(e, pc) == env[e].pc = pc
Goes(e, pc) == env' = [env EXCEPT ![e].pc = pc]
Drops(e) == env' = [env EXCEPT ![e].pc = "drop_log", ![e].urls = {}, ![e].probe = 1]
Active(e) == env[e].pc \notin {"new", "gone"}

-----------------------------------------------------------------------------
(* docker compose, external.  Each command takes effect on the project of  *)
(* the test's name, whoever started what is there.                         *)

\* down -v, which on an error may have removed some of the containers.
ComposeDown(n, ok) ==
    \E kept \in SUBSET containers[n] :
        /\ ok => kept = {}
        /\ containers' = [containers EXCEPT ![n] = kept]

\* up -d makes what is missing and leaves running what runs.
Missing(e) == Services \ {r[1] : r \in containers[NameOf[e]]}
ComposeUp(e, ok) ==
    \E made \in SUBSET Missing(e) :
        /\ ok => made = Missing(e)
        /\ containers' = [containers EXCEPT ![NameOf[e]] = @ \cup (made \X {e})]
        /\ started' = [started EXCEPT ![e] = made]

\* capture_compose_logs: what the containers there are have written, or a
\* note that docker compose logs failed, or nothing when it cannot be run.
Captured(e) ==
    \/ /\ log' = [log EXCEPT ![NameOf[e]] = [by |-> e, rows |-> containers[NameOf[e]]]]
       /\ UNCHANGED unlogged
    \/ /\ log' = [log EXCEPT ![NameOf[e]] = [by |-> e, rows |-> {}]]
       /\ unlogged' = unlogged \cup {e}
    \/ UNCHANGED log /\ unlogged' = unlogged \cup {e}

-----------------------------------------------------------------------------
(* TestEnv::up                                                             *)

\* The directories; without them, or without the compose file, there is no
\* TestEnv and nothing to tear down.
begin(e) ==
    /\ At(e, "new")
    /\ \/ /\ Goes(e, "cleanup")
          /\ LET others == {f \in Envs : Active(f) /\ NameOf[f] = NameOf[e]}
             IN  mixed' = mixed \cup others \cup (IF others = {} THEN {} ELSE {e})
          /\ began' = [began EXCEPT ![NameOf[e]] = e]
       \/ Goes(e, "gone") /\ UNCHANGED <<mixed, began>>
    /\ UNCHANGED <<containers, runner, port, log, uncleaned, started, unlogged, abandoned,
                   leaked, beside, seen>>

\* Mutant: no cleanup of what a crashed run left.
MutantCleanup(e) ==
    /\ At(e, "cleanup")
    /\ Goes(e, "compose")
    /\ UNCHANGED <<containers, runner, port, log, history>>

\* "Best effort cleanup in case a previous run crashed": errors are ignored.
cleanup(e) ==
    /\ At(e, "cleanup")
    /\ Goes(e, "compose")
    /\ \E ok \in BOOLEAN : ComposeDown(NameOf[e], ok)
    /\ uncleaned' = IF containers'[NameOf[e]] = {} THEN uncleaned ELSE uncleaned \cup {e}
    /\ UNCHANGED <<runner, port, log, began, mixed, started, unlogged, abandoned, leaked,
                   beside, seen>>

\* An error here, or in any later step of up, drops the TestEnv.
compose_up(e) ==
    /\ At(e, "compose")
    /\ \E ok \in BOOLEAN :
         /\ ComposeUp(e, ok)
         /\ Goes(e, IF ok THEN "ports" ELSE "drop_log")
    /\ UNCHANGED <<runner, port, log, began, mixed, uncleaned, unlogged, abandoned, leaked,
                   beside, seen>>

\* service_host_port, once per service, then env.json and READY.
service_host_ports(e) ==
    /\ At(e, "ports")
    /\ \/ /\ Missing(e) = {}
          /\ env' = [env EXCEPT ![e].pc = "probe", ![e].urls = containers[NameOf[e]]]
       \/ Goes(e, "drop_log")
    /\ UNCHANGED <<containers, runner, port, log, history>>

\* wait_for_ports and ensure_services_ready: a probe that succeeds has
\* reached the container the url was made for; one that runs into its
\* deadline ends up.
probe(e) ==
    /\ At(e, "probe")
    /\ \/ /\ \E r \in env[e].urls : r[1] = Probes[env[e].probe] /\ r \in containers[NameOf[e]]
          /\ env' = [env EXCEPT ![e].probe = @ + 1,
                                ![e].pc = IF env[e].probe = Len(Probes) THEN "ready" ELSE @]
       \/ Drops(e)
    /\ UNCHANGED <<containers, runner, port, log, history>>

-----------------------------------------------------------------------------
(* TestStack                                                               *)

\* boot_stack spawns a runner, or its stub.  An error after the spawn loses
\* the child without killing it.
up_stack(e) ==
    /\ At(e, "ready") /\ env[e].stack = "none" /\ runner[e] = "none"
    /\ runner' = [runner EXCEPT ![e] = "starting"]
    /\ \/ env' = [env EXCEPT ![e].stack = "up"] /\ UNCHANGED leaked
       \/ UNCHANGED env /\ leaked' = leaked \cup {e}
    /\ LET others == {f \in Envs \ {e} : env[f].stack # "none"}
       IN  beside' = beside \cup others \cup (IF others = {} THEN {} ELSE {e})
    /\ UNCHANGED <<containers, port, log, began, mixed, uncleaned, started, unlogged,
                   abandoned, seen>>

\* The process listens, or ends because it cannot.
listen(e) ==
    /\ runner[e] = "starting"
    /\ \/ port = None /\ port' = e /\ runner' = [runner EXCEPT ![e] = "listening"]
       \/ UNCHANGED port /\ runner' = [runner EXCEPT ![e] = "dead"]
    /\ UNCHANGED <<containers, env, log, history>>

\* TestStack::healthcheck: the child still runs, ...
ensure_running(e) ==
    /\ At(e, "ready") /\ env[e].stack = "up"
    /\ runner[e] # "dead"
    /\ env' = [env EXCEPT ![e].stack = "checking"]
    /\ UNCHANGED <<containers, runner, port, log, history>>

\* ... and something answers on the port; otherwise around again.
connect(e) ==
    /\ At(e, "ready") /\ env[e].stack = "checking"
    /\ env' = [env EXCEPT ![e].stack = "up"]
    /\ seen' = [seen EXCEPT ![e] = port]
    /\ UNCHANGED <<containers, runner, port, log, began, mixed, uncleaned, started, unlogged,
                   abandoned, leaked, beside>>

Ends(e) ==
    /\ runner' = [runner EXCEPT ![e] = IF @ = "none" THEN @ ELSE "dead"]
    /\ port' = IF port = e THEN None ELSE port

\* Mutant: stop takes a child that has not exited for one that has.
MutantStop(e) == UNCHANGED <<runner, port>>

\* Mutant: the child is killed and not waited for.
MutantStopAtOnce(e) ==
    runner' = [runner EXCEPT ![e] = IF @ = "none" THEN @ ELSE "dead"] /\ UNCHANGED port

\* ServiceProcess::stop: kill and wait, if the child has not exited.
Stop(e) == Ends(e)

stack_down(e) ==
    /\ At(e, "ready") /\ env[e].stack = "up"
    /\ Stop(e)
    /\ env' = [env EXCEPT ![e].stack = "none"]
    /\ UNCHANGED <<containers, log, history>>

-----------------------------------------------------------------------------
(* TestEnv::down and Drop                                                  *)

\* The test is over: it calls down, or fails and unwinds.  A TestStack it
\* still has goes with it, and dropping a Child does not kill it.
Released(e, pc) ==
    /\ env' = [env EXCEPT ![e] = [pc |-> pc, urls |-> {}, probe |-> 1, stack |-> "none"]]
    /\ leaked' = IF env[e].stack = "none" THEN leaked ELSE leaked \cup {e}

finish(e) ==
    /\ At(e, "ready")
    /\ \E pc \in {"down_log", "drop_log"} : Released(e, pc)
    /\ UNCHANGED <<containers, runner, port, log, began, mixed, uncleaned, started, unlogged,
                   abandoned, beside, seen>>

down_log(e) ==
    /\ At(e, "down_log")
    /\ \/ Goes(e, "down_stop") /\ Captured(e)
       \/ Goes(e, "drop_log") /\ (Captured(e) \/ UNCHANGED <<log, unlogged>>)
    /\ UNCHANGED <<containers, runner, port, began, mixed, uncleaned, started, abandoned,
                   leaked, beside, seen>>

\* Mutant: shutdown is set although compose down failed.
MutantDownStop(e) ==
    /\ At(e, "down_stop")
    /\ \E ok \in BOOLEAN : ComposeDown(NameOf[e], ok)
    /\ Goes(e, "gone")
    /\ UNCHANGED <<runner, port, log, history>>

\* An error leaves shutdown unset, and Drop tries again.
down_stop(e) ==
    /\ At(e, "down_stop")
    /\ \E ok \in BOOLEAN :
         /\ ComposeDown(NameOf[e], ok)
         /\ Goes(e, IF ok THEN "gone" ELSE "drop_log")
         /\ unlogged' = IF ok THEN unlogged ELSE unlogged \cup {e}
    /\ UNCHANGED <<runner, port, log, began, mixed, uncleaned, started, abandoned, leaked,
                   beside, seen>>

\* Mutant: Drop goes straight to the teardown.
MutantDropLog(e) ==
    /\ At(e, "drop_log")
    /\ Goes(e, "drop_stop")
    /\ UNCHANGED <<containers, runner, port, log, history>>

drop_log(e) ==
    /\ At(e, "drop_log")
    /\ Goes(e, "drop_stop")
    /\ Captured(e)
    /\ UNCHANGED <<containers, runner, port, began, mixed, uncleaned, started, abandoned,
                   leaked, beside, seen>>

drop_stop(e) ==
    /\ At(e, "drop_stop")
    /\ Goes(e, "gone")
    /\ \E ok \in BOOLEAN :
         /\ ComposeDown(NameOf[e], ok)
         /\ abandoned' = IF ok THEN abandoned ELSE abandoned \cup {e}
    /\ UNCHANGED <<runner, port, log, began, mixed, uncleaned, started, unlogged, leaked,
                   beside, seen>>

\* The test process is killed: no Drop runs.  Its runner may go with it.
kill(e) ==
    /\ Active(e)
    /\ Released(e, "gone")
    /\ abandoned' = abandoned \cup {e}
    /\ Ends(e) \/ UNCHANGED <<runner, port>>
    /\ UNCHANGED <<containers, log, began, mixed, uncleaned, started, unlogged, beside, seen>>

Next ==
    \E e \in Envs :
        \/ begin(e)
        \/ cleanup(e)
        \/ compose_up(e)
        \/ service_host_ports(e)
        \/ probe(e)
        \/ up_stack(e)
        \/ listen(e)
        \/ ensure_running(e)
        \/ connect(e)
        \/ stack_down(e)
        \/ finish(e)
        \/ down_log(e)
        \/ down_stop(e)
        \/ drop_log(e)
        \/ drop_stop(e)
        \/ kill(e)

Spec == Init /\ [][Next]_vars

-----------------------------------------------------------------------------
(* Properties                                                              *)

\* A test that up has let begin works with services of its own, empty and
\* running, unless the cleanup failed or a namesake ran beside it: what a
\* killed test left behind never gets into the next one.
ReadyServicesAreOwn ==
    \A e \in Envs : At(e, "ready") /\ e \notin mixed \cup uncleaned =>
        /\ env[e].urls = Services \X {e}
        /\ containers[NameOf[e]] = env[e].urls

\* Containers outlive the test they were made for only if its process was
\* killed or the last attempt to tear them down, the one in Drop, failed.
TeardownLeavesNothing ==
    \A n \in Names : \A r \in containers[n] :
        At(r[2], "gone") => r[2] \in abandoned

\* "Logs are captured under target/e2e/<test-name>/logs/compose.log before
\* teardown" (README.md:194): after the last test of a name ended, compose.log
\* shows the services it started, unless docker compose logs failed, a
\* namesake ran beside it, or Drop captured again after a teardown that got
\* half way.
LogsSurviveTeardown ==
    \A e \in Envs :
        /\ At(e, "gone") /\ began[NameOf[e]] = e
        /\ e \notin abandoned \cup unlogged \cup mixed
        => log[NameOf[e]].by = e /\ started[e] \X {e} \subseteq log[NameOf[e]].rows

\* A healthcheck of a TestStack is answered by the runner of that stack, or by
\* one that another test left running (it failed, or was killed, before
\* TestStack::down), or whose stack was up at the same time: a runner that was
\* taken down answers nobody.
HealthyRunnerIsOwn ==
    \A e \in Envs : seen[e] \notin {None, e} => seen[e] \in leaked \cup beside
=============================================================================
