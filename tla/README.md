# TLA+ models of greentic-integration

This directory holds TLA+ modules that model the stateful parts of this
repository, the readers of its test scripts, the commands and checks these
scripts make, the TLC configurations that check them on small instances, and
proofs that TLAPS checks for every instance. Every definition is translated from
the source; `PROJECT.json` names the lines behind each one.

    tlc -config session_server.cfg MCSessionServer     # one run
    tlapm SessionServerProofs.tla                       # the proofs of one module

## 1. The system

The repository is the integration workbench of the Greentic platform. It has two
programs with state of their own, and a test harness.

| Part | Source | State it keeps | Operations that change it |
|---|---|---|---|
| Session endpoints | `crates/app/src/main.rs` | none of their own; one task per request | `POST /sessions`, `POST /sessions/resume`, `DELETE /sessions` |
| Session stores | `crates/app/src/session.rs` | a map under a mutex; map and JSON file; a Redis hash | `upsert`, `remove`, `purge`, opening |
| Runner event log | `main.rs` | `AppState.runner_events`, at most 100 | `POST /runner/emit`, a resume, `DELETE /runner/events` |
| Pack index | `main.rs` | `AppState.pack_index` under a lock | the build at start, `POST /packs/reload`, the watcher |
| Watcher | `main.rs`, `watch_packs` | channel of file events, `last_reload` | receives an event, debounces, reloads |
| Runner proxy | `main.rs`, `proxy_runner_loop` | channel of commands | forwards each new index to the runner host |
| Shutdown | `main.rs`, `serve` | the join set of the watch task | ctrl-c, drain, join |
| `sessions purge` | `main.rs` | a store of its own, opened on the same file | one purge |
| Tester, `--test` | `crates/greentic-integration-tester/src/lib.rs` | worker pool, fail-fast flag, working directories | the steps of a plan, triage, minimization, report |
| Tester, `run --gtest` | `.../src/gtest/executor.rs` | execution context, workdirs, artifacts directories | the `#` directives, replay hint, report |
| Test environment | `crates/app/src/harness/` | containers, child processes, marker files | `up`, `down`, `Drop`, `boot_stack` |
| Script readers | `crates/greentic-integration-core/src/parse.rs`, `.../src/gtest/parser.rs` | the include stack and a cursor per file, while they read | one line, with its body or the file it includes |
| Commands of a script | `execute_command` of both testers, `run_set_command`, `read_limited` | a child and what it starts, two pipes, two reader threads, a timeout | the processes' steps, reads, wait, kill, joins, the verdict |
| Checks of a document | `crates/greentic-integration-validator/src/main.rs`, `.../src/json/assert.rs`, `@assert jsonpath` | none | none; a check is a function of a document, a path and what is asked |
| Pack queries | `main.rs`, `PackIndex::resolve_for`, `list_packs`, `plan_pack` | the index a command builds | builds the index, resolves, reads the chosen manifest again |
| Pure parts | config layers, JSON normalization and diff, JUnit, deployment plans, pack audit, path safety | none | none |

### How the parts interact

- Handlers of the server run concurrently on one `AppState`. They share the
  store (one call is atomic on the memory and file backends, one *command* is
  atomic on Redis), the event log (one mutex) and the index (one lock).
- A reload reads manifests without a lock, replaces the index under the lock, and
  submits the new index to the proxy's channel after releasing it. Handlers and
  the watcher do this independently of each other.
- The file backend is also opened by `sessions purge`, another process. The only
  thing they share is the file.
- An invocation of the tester is either `--test` or `run --gtest`. Workers of the
  first share the fail-fast flag and, under `--workdir`, the
  directories named for the file stem. `run --gtest` is sequential; its scenarios
  share directories named for the stem, and those they enter with `#WORKDIR` or
  write a trace to, with each other and with earlier invocations. `--test` reads the output of its own minimizer again when a user
  copies `minimized.gtest` beside the other scripts.
- A command of a script is a process with two piped outputs. A thread per pipe
  empties it, a third thread waits for the child, with a timeout in `--test`, and
  then for the two readers, whom the child's descendants may keep waiting.
- A check runs either in the tester (`@assert`, `#EXPECT_JSONPATH`) or as the
  validator, a command of the script. Each has a path parser and an evaluator of
  its own, the same code three times over with differences.
- `packs list`, `packs plan` and `GET /packs` resolve the same index. `packs plan`
  reads the manifest it has chosen a second time.
- Test environments of one test name share a compose project, a log file and
  marker files; all stacks share one fixed runner port.

### What is hard, and what correct means

The hazards are listed with their lines in `PROJECT.json`. In short:

- **Sessions.** A resume is a find, a remove by key and a record with other
  requests in between; a Redis purge is a read and many deletes; a write can fail
  after the map has changed; a server can die at any point. Correct: what is
  echoed is one real session of the right tenant; a session is echoed twice only
  by overlapping resumes; a session is removed unread only in a race; the log is
  the newest events.
- **The file.** Map and file part ways after a failed, torn or foreign write.
  Correct: as long as none of these has happened, the store is a durable map.
- **Packs.** Reloads overtake each other between build, install and submit;
  events are dropped in the debounce window. Correct: the index goes back only
  when overtaken, the runner host has the index the server shows, a change the
  idle watcher hears of is picked up, a shut-down server ends.
- **Tester.** Expectations are armed for one command; the fail-fast flag is set
  late; working and artifacts directories are shared by stem and outlive a
  run; a relative `--trace-out` is looked up in the tester's directory, wherever the
  command ran. Correct: a test that is reported ok met every stated exit code; the
  minimized repro is a boundary; what a scenario runs with, logs and names in its
  hint is its own.
- **Test environments.** `up` can fail after every step, `down` can fail half way
  and `Drop` then starts over, a killed test runs neither, and dropping a child
  process does not end it. Correct: a test works with containers of its own, what
  is left behind is left by a kill or a failed teardown, the logs are those of the
  last test, and a runner that answers is the test's own or one that leaked.
- **Scripts.** Includes go through links and `../`, bodies of heredocs move the
  cursor, arguments are split before variables are expanded, and two readers share
  the extension `.gtest`. Correct: a plan is what the script means, file by file,
  and a process gets the arguments its author quoted, empty quotes excepted.
- **Commands.** A full pipe blocks the writer, an open one the reader, a running
  child the waiter; a child may end between the timeout and the kill; a signal
  leaves no exit code; output is cut at a limit. Correct: a command that nobody
  keeps from ending comes to a verdict, what passes has ended by itself as expected,
  and what is kept is what was written first.
- **Checks.** A path is written in several ways and read by three parsers; counts,
  `--all` and comparisons combine; CBOR has keys and values JSON has not. Correct:
  a check passes exactly when the document is as the check says.
- **Pack queries.** Overrides are looked for by tenant, team and user, any of them
  missing or from the configuration. Correct: packs of the asker are shown,
  the most specific first, and the plan is of the one chosen.

## 2. The modules

| Module | Models | Checked by |
|---|---|---|
| `SessionFilters` | how a request's tenant, team and user become a filter or a record, and which records a filter selects | through the next two |
| `SessionServer` | session endpoints and event log over the three backends | `MCSessionServer` |
| `SessionServerProofs` | theorems about `SessionServer` | TLAPS |
| `DurableSessions` | abstract: what a durable store promises | refined by the next |
| `FileSessionStore` | map, file, failing and mixed writes, other processes | `MCFileStore` |
| `FileSessionStoreProofs` | theorems about `FileSessionStore`, the refinement included | TLAPS |
| `PackReload` | index, reloads, watcher, proxy, shutdown | `MCPackReload` |
| `PackReloadProofs` | theorems about `PackReload` | TLAPS |
| `TestSuite` | the `--test` pool | `MCTester`, on the plans of `MCTestSuite` |
| `TestSuiteProofs` | theorems about `TestSuite` | TLAPS |
| `GtestScenarios` | `run --gtest` | `MCTester`, on the scenarios of `MCGtestScenarios` |
| `GtestScenariosProofs` | theorems about `GtestScenarios` | TLAPS |
| `Tester` | composition: `main_entry`, which leads to one of the two | `MCTester` |
| `TestEnv` | `TestEnv` and `TestStack` of the end-to-end tests | `MCTestEnv` |
| `TestEnvProofs` | theorems about `TestEnv` | TLAPS |
| `PlanReader` | both readers of scripts, tokenizer, substitution, the minimized script | `MCPlanReader`, `MCScriptRun` |
| `CommandRun` | one command from the spawn to the verdict | `MCScriptRun`, `MCCommandRun` |
| `CommandRunProofs` | theorems about `CommandRun` | TLAPS |
| `JsonChecks` | path parsers and evaluators of the validator and of both testers | `MCScriptRun` |
| `PackQueries` | `packs list`, `packs plan`, `GET /packs` | `MCScriptRun` |
| `ScriptRun` | composition: a script is read, then its first step is executed | `MCScriptRun` |
| `ScriptRunProofs` | `ScriptRun` implements `CommandRun` and `PlanReader`; theorems about the reader, its plans, the checks and the `packs` commands | TLAPS |

### Correspondence

**SessionServer.** `sessions` is what the store's operations see, `durable` what a
restart would load: the file for the file backend, the hash itself for Redis
(where both are the same), nothing for memory. `task[r]` is a handler that has
started and not ended: `found` after `store.find`, `cleared` after
`store.remove`, `purge` after the Redis `HGETALL`. `Write(new, ok)` is a call that
changed the store and returned `ok`: the file store has changed its map even if
it returns an error, a Redis command may have taken effect although its reply was
lost. `restart` is the end of the process and a start on the same store. The
other variables are history, read by the properties and by the bounds alone.
`stamp` stands for `updated_at_epoch_ms` and makes each stored record unique.
`GET` handlers change nothing and have no action.

**FileSessionStore.** One operation is split where the process can die or another
process can look: `Change` locks, changes the map and truncates the file;
`FinishWrite`, `FailWrite` or `Exit` is the rest of `fs::write`. `Open` with a
missing file also creates it, in one step. `disturbed` becomes true when
something happens that makes map and file differ, and false again when the
server has written its whole map undisturbed or has started from the file.

**PackReload.** `reload[x]` is the local state of one reload: directories not yet
read, what has been read, whether another reload installed in the meantime.
`n` in a manifest or index entry is the number of the change that made it so, by
which older and newer contents are told apart. `debouncing` is
`last_reload.elapsed() < 500ms`. The runner host is external: `runner` is the
last index it accepted. Events for merely opening a file are left out; they could
only start a reload or be dropped, as the events of a change may.

**TestSuite.** `worker[w]` is what one thread of the pool is at: the step, the
armed expectation, and, since triage and minimization rerun the same plan on the
same thread, which run it is (`run`, `upto`) and the bounds of the bisection.
`dirs` holds, for each working directory, the tests whose files are in it. What
a directive does to variables and captures is abstracted to whether it succeeds;
exit codes are free, so tests may be flaky. File system errors of the tester
itself are left out.

**GtestScenarios.** `ctx` is `ExecutionContext`, `trace` and `artifacts` say
*whose* trace file and step logs lie in a directory. Directives are grouped by
their effect: `#SET` and `#ENV`, `#ENV` of `GREENTIC_TRACE_OUT`, `#WORKDIR`,
`#EXPECT_EXIT`, `#FAIL`, writing a trace file, `#TRY_SAVE_TRACE`, those that need an
output, and those that may only fail. A directory is a scenario's working
directory or one of `Places`: directories under the test root, or anywhere else, that
several scenarios may enter or write to. `RepoRoot` is the one the tester runs in
(`run_new` takes it for the repository's root too): a `cargo` without a manifest runs
there, and there `discover_trace_path` looks for a relative path, while the command
that got it ran in `ctx.cwd`. So `Resolved` takes the directory a path is read in.
A replay hint fails the run only through the files it writes.

**Tester.** `mode` is what the command line says: with `run` the steps are those of
`GtestScenarios`, else of `TestSuite`. The state of the other mode stays as it
was at the start. No step of one mode reads what the other changes; one run checks both.

**TestEnv.** `env[e].pc` runs through `TestEnv::up` ("new", "cleanup",
"compose", "ports", "probe") to "ready", then through `down` ("down_log",
"down_stop") or `Drop` ("drop_log", "drop_stop") to "gone"; an error of `up`, or
of `down`, leads to `Drop`. A row of `containers[n]` is a service with the
environment whose `compose up` made it, which is what Docker Compose does not
tell a test. `runner[e]` is the child of the `TestStack` and `port` who listens on
`RUNNER_PORT`; `ensure_running` and `connect` are the two halves of one round of the
healthcheck. `log[n]` is `compose.log`. Docker Compose and the runner program are
external: a command may fail, having done part of its work; containers do not
stop by themselves. The two `docker compose port` calls are one step, a host port
leads to the container it was read from, and `kill` of a live child succeeds.

**PlanReader.** A line is its characters; what follows the name of a directive is
abstracted to whether the reader accepts it, and the path after `@include` to a
name that `Resolve` looks up from the directory of the including file, as the code
does. `frames` are the nested calls of `parse_gtest_contents`, `stack` is the include
stack by canonical path. The reader for `run --gtest` has no includes and no
heredocs but `#WRITE`; `reader` chooses between the two. `Tokenize` and `substitute`
are recursive functions of how many characters have been read, with the modes of the
code's loops. `write_plan_file` writes the lines of the steps that triage kept and starts the
reader on them. `Meaning` is the reference: what each line says (`LineSays`), and what a
path says to whom is inside some files (`Says`), without a cursor and without a stack of
calls. `args` of a line is what its author meant: arguments of pieces, each a character or a
variable, in the quotes he put it in; `LineOf` is how they are written, and `IsWritten`
that the text is. Here and in the other modules the guards of a `CASE` exclude each other, so that
TLC, which takes the first that holds, and the proofs are about the same choice.

**CommandRun.** `tree` is what the child and its one descendant may do, chosen at
the spawn; the processes themselves are external. `waiter` is the thread in
`execute_command`: "waiting", "expired" after `wait_timeout` returned `None`,
"killed", "join_out" and "join_err" at the two joins, "joined", then "recorded"
or "panicked". `thread`, `buf` and `remaining` are the two threads of
`read_limited`. A byte is named by who wrote it and when, so that a lost or
repeated one is seen. `kills` kills the child alone; a descendant keeps the pipes
open as long as it has not closed them, as the kernel has it.

**JsonChecks.** A document is the function from the addresses of its nodes to
labels, an address the steps from the root. `parse_path` is the code's loop over the
characters and `eval_path` its loop over the segments, each a function of how many have been
taken; `find_in_cbor` is a function from the leaves up; `ValueAt` is the value at a match. `evaluate_path_matches`, `evaluate_cbor_matches`,
`apply_assertion` and `evaluate_jsonpath` keep the order in which the code looks at its
options. `CheckMeans` is the reference: it goes by the steps the author meant and
parses nothing. `IsSpelt` says how a step may be written. Regular expressions are left out.

**PackQueries.** `entries` is the index in the order of `read_dir`, `Desired` the
keys `resolve_for` looks for, `Matched` its loop over them. A name is the sequence of its parts between colons, by which
the key `tenant:team:user` is a concatenation as in the code. `replaces` is
somebody else who installs a pack between the index and the second read.

**ScriptRun.** `reads_script` is a step of the reader; once the plan is there, its
first step is a command (`executes_step`, then `executing` until the verdict), a
check or a `packs` command. `RunSpec` adds the fairness of `CommandRun`.

## 3. The runs

| Run | Question | Bounds |
|---|---|---|
| `session_server` | Do three interleaving handlers, failing writes and restarts keep the five invariants on each backend? | 3 handlers, 2 upserts, 3 events, cap 2 |
| `resume_race` (violated) | Is a session echoed once? | same |
| `file_store` | When is the file store a durable map (refinement of `DurableSessions`), and when is a purge final? | server and 2 commands, 2 upserts |
| `cli_purge` (violated) | Does a purge that succeeded stay? | server and 1 command |
| `pack_reload` | When may the index go back, does the runner host have the server's index, is a lone change picked up, does a server without `--watch` end (the last two liveness)? | 2 packs, 1 request and the watcher, 2 edits |
| `watch_debounce` (violated) | Is every readable change picked up? | 2 edits |
| `watch_shutdown` (violated) | Does a draining server with `--watch` end? | no edits |
| `tester` | Verdicts, fail-fast, working directories and minimization of `--test`, and verdicts, contexts, logs and hints of `run --gtest`, under the flags | 2 workers, 4 plans, 1 triage run; 3 scenarios, 2 of one stem and 2 in one directory |
| `test_env` | Whose containers and runner does a test work with, what does it leave, whose logs are kept? | 2 invocations of one test |
| `plan_reader` | Is the plan what the script means, does a process get the arguments meant, does a minimized script read back? And when a step is executed: what is kept of a command's output, what is its verdict about and does it come to one (liveness); do checks say what the author meant; which packs do `packs list` and `packs plan` choose? | 3 files, scripts of up to 3, 2 and 1 lines; 2 arguments; 2 processes, pipes of 2 bytes, limits of 3 and 2 |
| `timed_out` (violated) | Does a command fail that timed out? | children alone, up to 1 byte |
| `minimized_heredoc` (violated) | Does a minimized script with a heredoc read back? | the scripts alone |

Why the bounds are enough to be interesting:

- *3 handlers, 2 upserts*: a race here needs two handlers on one record and a
  third party that replaces it; two stamps tell an old from a new record under one
  key. *Cap 2 of the event log, 3 events*: the log overflows, is cleared and fills
  again. The code's cap is 100; the theorems hold for every cap.
- *2 commands on the file*: two writers can mix while the server restarts; two
  upserts give the file something to lose and something to keep.
- *2 packs, 2 edits*: a scan can read one pack before and the other after a change,
  and two scans can see the two changes in opposite orders. One request and the
  watcher are two concurrent reloaders; the safety properties are proved for any
  number of requests, packs and edits (section 4). `MaxPending` caps the
  unread events at 2; further ones would be received like these, so the cap only
  merges states that differ in how many events are still to be dropped.
- *The plans of the test suite* cover `@expect` with equals and not_equals,
  `@assert` on the exit code, `@skip`, a failing directive, a command that cannot
  start, and two tests of one stem; the longest has two commands, so
  minimization has a choice of prefixes to make.
- *The scenarios* cover a variable only a namesake defines, an expected failure, a
  fault injected between two commands, and traces by option, by environment and
  by hand. Two enter the same directory, the third has its trace written to the tester's
  own, where a `cargo` of another may run; any of them may hold an earlier trace.
- *2 invocations of one test*: they run side by side, or the second after the first
  ended, failed half way or was killed. Tests of different names share nothing
  but the runner port, which one name already contends for.
- *The scripts*: `main` includes `sub`, a leaf and the link to it, `sub` includes the
  leaf and `main`, so that chains, cycles through a link and repeated includes
  occur next to heredocs, their terminators and broken lines. *The arguments*: one
  or two, of up to two pieces, among them spaces, both quotes, a backslash, a
  newline, `<`, `$` and three variables, in every quotes that can hold them: both pieces in
  one pair, each in its own, or one bare beside one quoted, or nothing between quotes. `V` is
  defined in two scopes and its value holds a space and `${W}`; the value of `E` is empty, and
  arguments of nothing stand alone, before, after and around another.
- *The commands*: a child alone writes up to two bytes and ends with 0, 1, a signal or
  never; one that starts a descendant does so before, between and after its
  writes, and the descendant ends, hangs, writes or closes the pipes; longer
  texts pass both limits, some of characters of two bytes. A pipe of 2 bytes is
  filled by the longest, `Limit = 3` cuts a chunk of 2 in the middle, and
  `TranscriptLimit = 2` cuts inside and between characters. The code reads 4
  KiB at a time and keeps 1 MiB, 8 KiB of it for the transcript; a pipe of the kernel
  holds 64 KiB or so. As there, the kept output exceeds a pipe and the transcript.
  `OutputIsFirstBytes` and `VerdictIsOfChild` are proved for all sizes and all trees.
- *The checks*: 25 documents around lists of nothing, numbers, unlike items, bytes and
  maps, with a key that holds a dot, one that is a digit and one that is not text; 9
  paths with every question of every tool, and every spelling of the paths of up to
  two steps on the documents that tell them apart.
- *The packs*: every directory of up to two packs of seven kinds, among them a
  manifest that is no JSON, one without id and one without version, and the six
  orders of three packs that override each other; every combination of the names
  given and configured.

`CHECK_DEADLOCK FALSE` is set where the program really ends (a suite or a
scenario run that has reported, a server that has exited). Symmetry is used for
handlers, workers and test environments, only in runs without liveness.
`LogsSurviveTeardown` exempts a test whose `compose down` failed half way: `Drop` then
captures the logs again, of what is left. `ProcessGetsMeantArgs` exempts lines of the
legacy reader with `<<` in quotes, which it reads as heredocs, and states what the code
makes of an argument of nothing between quotes and what triage adds. `HintNamesOwnTrace`
names the cases in which another trace than the scenario's own may be hinted at
(`TracesAllowed`).

### Fairness

`PackReload` states fairness for its two liveness properties: weak fairness of each step of a reload that has begun (tokio schedules a task
that can run), of the watch task, of time (the 500 ms pass), and of `exit` once
its conditions hold. Changes of files, requests, ctrl-c and the answers of the
runner host are not assumed. `LoneEditIsPickedUp` and `ShutdownWithoutWatchEnds`
hold under it; `WatchPicksUpChanges` and `ShutdownEnds` fail under the same
fairness, so it is the code and not idling that breaks them.

`CommandRun` states weak fairness of each process, of each reader thread and of
the thread that waits: the operating system schedules them, and `wait_timeout`
returns. That covers only steps that can be taken: a writer at a full pipe, a
reader of an open empty one and a join of a running thread are blocked, and
whether they are ever released is the question of `CommandIsRecorded`. It exempts
what the code cannot end: a child that runs for ever without a timeout, and a
descendant that runs for ever with a pipe open.

### What the violated runs show

1. **`resume_race`**: `docs/APP_DESIGN.md:139` says a resume "clears the session
   entry so the next message starts fresh". Two resumes can both find the session
   before either removes it; removal of a missing key succeeds, and both are
   echoed as continuations of it.
2. **`cli_purge`**: `docs/APP_DESIGN.md:60` says the purge is used "to guarantee a
   clean slate". A running server that uses the file backend still has the
   purged records in its map and writes them back with its next change.
3. **`watch_debounce`**: `main.rs:1187` tells users that servers started with
   `--watch` pick up changes. A change within 500 ms of the last reload, after that
   reload has read the manifest, is dropped with its event.
4. **`watch_shutdown`**: `serve` joins the watch task after ctrl-c. The task owns
   the watcher whose callback owns the sender it receives from, so it never ends
   and `server shut down cleanly` is never logged.
5. **`timed_out`**: `.codex/done/PR-02.md:56` says a step whose timeout triggers is
   marked failed. The kill may find the child ended by itself; its exit code then
   decides alone, and the step passes, described as timed out.
6. **`minimized_heredoc`**: `docs/flake-triage.md:33` says to copy the
   `minimized.gtest` that triage wrote into `tests/gtests/`. The minimized script
   holds the first line of each step; the body of a heredoc and its terminator are
   lost, and the reader refuses the file.

### What the models say that a reader may not expect

Met while modelling, stated by no run; the properties hold with these cases named.

- *Timeouts.* Only the direct child is killed, so a descendant can hold up
  the test after its timeout (`EndsInTime`). What a child gets that ends as expected
  after its timeout is left open by `VerdictIsOfChild`; the run `timed_out` is about it.
- *Arguments.* Both tokenizers drop an argument of nothing between quotes
  (`parse.rs:575`, `parse.rs:632`), and a line of only such arguments is refused as an empty
  command; `${E}` of an empty value stays an argument, since it is expanded after the
  split. In the runs of a triage a `greentic-runner` that is not asked for a trace
  gets `--trace-out` and a path after its own arguments (`lib.rs:1478`, `lib.rs:1733`).
- *Traces.* A relative `--trace-out`, or `GREENTIC_TRACE_OUT`, is a path of the
  command's directory when the trace is written and of the tester's when it is looked for
  (`executor.rs:820-836`): the scenario's own trace may be missed, or another's named.
  Scenarios that share a directory by `#WORKDIR` can save each other's traces.
- *The transcript* is cut at a byte; inside a character that panics
  (`OnlyOfOneByte` in `CommandIsRecorded`).
- *A scenario* reads a child killed by a signal as one that ended with 0; `--test` and
  `@set` do not.
- *Checks.* Beside `--exists`, the validator ignores `--eq` for JSON; for CBOR, `--all`
  passes without a match (`Overlooked`). A value that is no JSON literal is an
  error in the validator and a text in the testers. The path parsers cut a quoted
  key at a `]`, close an open bracket at the end and take `[+1]` for `[1]`;
  CBOR entries whose key is not text are not compared (`Comparable`).
- *Packs.* `docs/APP_DESIGN.md:122-125` says `GET /packs` resolves the most specific match
  of tenant, team and user. The code shows the match of every level, the most specific
  first (`PackIndex::resolve_for`); `PacksFollowOverrides` asks for the order and leaves
  open whether the others follow. A team
  without a tenant and a user without a team are ignored; the team of the
  configuration also applies to another tenant; without a match all packs are
  shown; and `packs plan --pack-id X` does not find a pack of the index that the
  overrides have hidden.

## 4. The proofs

`SessionServerProofs` proves, for every set of texts, handlers, inputs and
bounds and for each backend:

| Theorem | States |
|---|---|
| `TypeCorrect` | `Spec => []TypeOK` |
| `EchoesAreAuthentic` | `Spec => []EchoIsAuthentic` |
| `OneEchoWithoutOverlap` | `Spec => []DoubleEchoNeedsOverlap` |
| `NoLossWithoutRace` | `Spec => []LossNeedsRace` |
| `LogKeepsNewest` | `Spec => []EventLogKeepsNewest` |

Assumptions: `TextAssumption` (`None` is not a text, trimming is idempotent, the
defaults are texts or absent) and `ServerAssumption` (the inputs have the types
the deserializer enforces, generated keys are not texts a client may send, the
cap of the log is not zero). TLC evaluates both in every run of the module.

The argument. None of the properties but the types is inductive. The inductive
invariant `IInv` adds to them:

- `UniqueKeys`: a key has one record, as the maps of the backends have it.
- `Provenance`: everything in a store or held by a handler was once stored by an
  upsert, and a stamp names one record. Without it nothing connects an event to
  a session.
- `Holding`: a resume that is past its find holds exactly one record, which has a
  flow, and whose tenant and user are the request's.
- `Consumed`: a session whose event is recorded, or about to be, is in neither
  store. This is what keeps a restart from bringing it back: a file write that
  failed also fails the handler, so a `cleared` handler implies that the file was
  rewritten. `MemoryHasNoFile` is its case for the memory backend.
- `Exclusive`: two resumes that hold one record have overlapped, and a held record
  that has been echoed has too.
- `Guarded`: under a key a handler is about to remove there is the record it read,
  or one stored since.

`NextInv` has one step per action, each a lemma `Step...`; the stores enter only
through `WriteFacts`. The event log has its own invariant `Log`, which needs
`IInv` only for the types and for the flow of a held record. `PushKeepsNewest` is the
arithmetic of a push onto a full or a filling log.

`PackReloadProofs` proves, for every set of packs and requests, with or without a
runner host, and for every bound:

| Theorem | States |
|---|---|
| `ReloadTypes` | `Safety => []TypeOK` |
| `RunnerKeepsUp` | `Safety => []RunnerHasServerIndex` |
| `IndexGoesForward` | `Safety => IndexGoesBackOnlyWhenCrossed` |

`Safety` is `Spec` without its fairness, so they hold of `Spec` too. The assumption is
`ReloadAssumption` (the watcher is not a request, the bounds are numbers). The
inductive invariant `ReloadInv` adds to the types:

- `NotNewer`: nothing read or installed is newer than the disk. It makes reading a
  manifest never a step back.
- `Fresh`: what a reload that nobody overtook has read is at least as new as the
  index. This is why only an overtaken install can go back.
- `Passed`: unless installs raced, the index is held by the one reload that has not
  submitted it, or is the last command in the channel, or is with the runner
  host. It is `RunnerHasServerIndex` for every state and not only a settled one.

The last of the channel's commands is what matters in `Passed`; that taking the
first leaves the last is the library's `HeadTailProperties`.

`CommandRunProofs` proves, for everything the processes of a command may do and for
pipes, reads and limits of any size:

| Theorem | States |
|---|---|
| `KeptOutputIsFirst` | `CommandSafety => []OutputIsFirstBytes` |
| `VerdictFollowsChild` | `CommandSafety => []VerdictIsOfChild` |

`CommandSafety` is `CommandSpec` without its fairness. The assumption is
`CommandAssumption`: the operations of a process end with its end, nobody writes or
forks after closing the pipes, and the child forks at most once. The inductive
invariant `CommandInv` adds to the types:

- `Keeps`: what was written to a pipe is what was read of it, followed by what is in it,
  and what is kept is the first `Limit` bytes of the former. `KeepsOnWrite` and
  `KeepsOnRead` are the arithmetic of a byte and of a chunk that may not fit.
- `EndedForGood`: once a reader has ended, its pipe is empty and nobody has a write
  end. A process that still writes or forks has one (`WriterIsRead`), so a reader
  that has ended misses nothing. It needs `OnTrack`, which places each process in
  its tree.
- `JoinsInOrder`: the output is looked at after both readers have ended.
- `ChildIsJudged`: the exit code is that of the child's end, a killed child has ended
  by the signal, and only `--test` has a timeout.

`ScriptRunProofs` proves `RunImplementsCommand`, `RunSpec => CommandSpec`: each step of a
script's run is a step of its command or leaves it alone, and the fairness is the same.
`RunKeepsFirstOutput` and `RunVerdictFollowsChild` carry the two theorems over to
`RunSpec`, the specification the run `plan_reader` checks.

The module also proves, for any files and scripts and any index and names:

| Theorem | States |
|---|---|
| `RunImplementsReader` | `RunSpec => Spec`, the specification of `PlanReader` |
| `IncludesAreFinite` | `RunSpec => []NoFileInsideItself` |
| `PlanIsWhatScriptSays` | `RunSpec => []PlanIsMeaning` |
| `ArgsAreWhatAuthorWrote` | `RunSpec => []ProcessGetsMeantArgs` |
| `ChecksSayWhatIsMeant` | `RunSpec => []ChecksAreMeant` |
| `MinimizedIsSame` | `RunSpec => []PlainMinimizedReadsBack` |
| `PacksAreTheAskers` | `RunSpec => []PacksFollowOverrides` |

`IncludesAreFinite` is about the reader alone (`RunStepIsReaderStep`). The assumption is
`ReaderAssumption`: paths lead to files or to nothing, of finitely many files, the
minimized script has one of them, and a file is a sequence of lines.
`ReaderInv` adds to the types that the include stack of the legacy reader holds the
files of its calls (`StackIsCalls`), so that the test of the stack before an include is
a test of the calls; the gtest reader includes nothing and has one call. That a line
read is one of the file needs that the cursor only moves on, past a heredoc or a body
that has its end in the file (`BodyMovesOn`, `CommandMovesOn`).

`PlanIsWhatScriptSays` compares a loop with a cursor and a stack of calls with a
function that is recursive over files. `PlanInv` adds to `ReaderInv` what has been read
so far (`ReadSoFar`). Each call stands at a line of its file: every body that was opened
before it ends before it (`BodiesBehind`), and the line before it says exactly what the script
of the next call says (`Included`). The steps read so far are what the lines behind
each call say, from the outermost to the innermost (`Before`), and nothing of it is
refused. So a line that is refused makes the script refused, through however many
includes (`RefusalsRise`), and what a call has read at its end is what the line with the
`@include` stands for (`ReadsOut`). The invariant takes the whole include stack along:
that the steps so far are a prefix of the meaning is true as well, but says nothing about
where a call goes on. The lemmas about the reference come first: that the functions
`BodyEnds`, `Says` and `Flat` exist and satisfy their equations is shown by a
least counterexample over lines, over how many files a script is inside of (hence the finite
number of files), and over parts (`BodyEndsAre`, `SaysIs`, `FlattenIsFlat`).
`ParsedIsPastBody` ties the cursor of the code to the bodies of the reference.

`ArgsAreWhatAuthorWrote` takes two more assumptions: the scopes hold texts
(`ReaderAssumption`), and a line whose author's intent is known is how he wrote it
(`WritingAssumption`). The second is what "meant" means: arguments of pieces, bare, in single
or in double quotes, a piece alone in its quotes or together with others, or nothing in them, with `\`
before a quote, a backslash or the `n` of a newline in double quotes. It says
nothing of what the code makes of such a line. Both loops over characters are
functions of how many have been read; `Run` says that a loop gets from one state to another
over a text, and such runs compose (`RunOverBoth`, `RunOverParts`). `MarkedRun` is one piece with
its quotes: the mode before it and after it is agreed with its neighbours, and what it adds to
the argument is the piece itself. So a line splits into its arguments
(`TokenizeLine`), and trimming it beforehand takes nothing away, because its first and last characters are
of arguments (`TrimLine`). `SubstituteArgument` is the other loop, piece by piece; between two pieces
a `$` may be pending, and a variable after it is still read as one. The value of a variable is
added to the output and never looked at again. An argument of nothing between quotes is in
neither the line's split nor in `Meant`. `ArgsInv` is the invariant over the reader: every
line on the disk is written, the minimized script's being lines of steps, and a step that is a
command has the arguments its line splits into.

`ChecksSayWhatIsMeant` is about one step: a run comes to any check of `Checks` or to none, and for
each of them what the tool answers is what the check means (`EveryCheckIsMeant`). Two assumptions
say what a check is: a tool, a finite tree for a document and what that tool can be asked
(`CheckAssumption`), and a path of at least one step, each spelt in brackets or, a key, after a dot
(`SpellingAssumption`). The characters are those of `PathChars`: the digits 0 and 1 and two letters
stand for the others, the five the parser looks for are all there. As in the arguments, the runs of
the parser's loop compose, here step by step of the path: a bracket is closed with its step, and a
key after a dot is pending until the next step or the end (`ParsesAs`, `SegmentRun`), so the segments are
the steps (`ParsesPath`). `EvalPathIs` gives the loop over the segments a closed form, the nodes
whose address fits the path. `find_in_cbor` is recursive over a tree: that it has a value, and that
this is whether something is found below the node, is shown from the longest address at which it would not be
(`LongestIs`, `TheFoundIsFound`). The rest is the order in which each tool looks at its options.
What is left out is in `Comparable` (what a tool has no answer for) and `Overlooked`.

`MinimizedIsSame` rests on `MinimizedInv`: every step the legacy reader has made of a
line without a heredoc is what that line gives wherever it stands (`LineGives`), and
while the minimized script is read back its k-th step is that of its k-th line. The
heredocs it excludes are those `minimized_heredoc` shows to be lost.

`PacksAreTheAskers` is about the `packs` commands alone (`RunStepIsPacksStep`). The
assumption is `PacksAssumption`, the types of what is asked and installed. `MatchesFirst`
states what the loop of `resolve_for` has matched after `n` keys: the first entry of
each of them that has one, in their order. `MatchesOneMore` is one turn of the loop. The
keys differ because a name is longer than its prefix (`LongerDiffers`), and are
the reference's levels in reverse (`DesiredIsOwn`); `ResolvesOverrides` puts the two together.
`PacksInv` adds that until a manifest is replaced an entry has the id of its manifest. There
are at most three keys, so the loop is unrolled and no induction over data is needed.

`FileSessionStoreProofs` proves, for any sessions and filters and any number of
commands beside the server:

| Theorem | States |
|---|---|
| `FileTypes` | `Spec => []TypeOK` |
| `MapAndFileAgree` | `Spec => []FileFollowsMap` |
| `LonePurgesAreFinal` | `Spec => []LonePurgeIsFinal` |
| `StoreIsDurable` | `Spec => ImplementsDurableSessions` |

The assumption is `FileAssumption` (the server is not a command, the inputs have their
types). The inductive invariant `FileInv` adds to the types:

- `OfUpserts`: a record in the file, in a map or in a purge was made by an earlier
  upsert, so a new record is none of those a purge has taken.
- `OwnMaps`: a process that is down has no map, and what a command takes away is not
  in its map any more.
- `AloneAre`: a command that has been alone on the file still is; whoever opens the
  file later makes it not alone, and reads what it left.

`StoreIsDurable` takes the refinement step by step: `StepImplements` maps each action to
an upsert, a removal, a purge, a disturbance or a stutter of `DurableSessions`. The
stutters are where the work is: a stop and a start keep the sessions because the
file follows the map.

`TestSuiteProofs` proves, for any plans, any finite number of tests and workers, and
all flags:

| Theorem | States |
|---|---|
| `SuiteHasTypes` | `Spec => []TypeOK` |
| `OkIsEarned` | `Spec => []OkMeansEveryExitMet` |
| `FailFastHolds` | `Spec => []FailFastLimitsFailures` |
| `WorkdirsStay` | `Spec => []FailedWorkdirStays` |
| `RunsKeepWorkdirs` | `Spec => []RunningPlanHasWorkdir` |
| `MinimizationFindsBoundary` | `Spec => []MinimizedIsBoundary` |

The assumption is `SuiteAssumption` (a finite number of workers, at least one, and of
tests; the plans are sequences of steps). The inductive invariant `SuiteInv` adds:

- `OneEach`: a test is pending, then one worker's, then has an outcome. Every other
  part needs that two workers are never at one test.
- `JobShape`: the expectation a run has armed is `Stated`, the one that the text of
  the plan states for the next step. The `Stated...` lemmas say how it moves on
  with a command, an `@expect` and any other step.
- `JobSearch`: while the search goes on, the last prefix run below `low` passed and `best`
  failed, with `high = best - 1`. At its end, with `low > high`, the two are neighbours.
- `JobMet`: a command that was not met ends the first run as failed.
- `JobDirs`, and for tests that are done `TestsInv`: whose files a directory holds.
- `FewFail`: under `--fail-fast`, from the first failure on, the tests that failed and
  the workers that are still at one are together at most as many as the workers. The
  property alone is not inductive: a worker that is still at its test may fail it.

`GtestScenariosProofs` proves, for any scenarios, steps and options:

| Theorem | States |
|---|---|
| `ScenariosHaveTypes` | `ScenariosSpec => []ScenariosTypeOK` |
| `PassingMeetsExits` | `ScenariosSpec => []PassedMeansExitsMet` |
| `ContextIsOwn` | `ScenariosSpec => []ContextIsScenarioOwn` |
| `LogsAreComplete` | `ScenariosSpec => []LogsTellTheRun` |
| `HintsAreOwn` | `ScenariosSpec => []HintNamesOwnTrace` |

The assumption is `ScenarioAssumption` (finitely many scenarios, whose names are not
those of the directories of artifacts, and none of them a place; the tester runs in one of the
places). The inductive invariant `ScenarioInv` adds:

- `OneByOne`: a scenario is pending, then runs, then has a result, and none of its
  commands runs twice.
- `OwnContext`: the context holds what the steps so far set and make fail, and its step
  index is the number of the scenario's commands, which is what numbers the logs.
- `ExitsMet`: in a scenario that has not failed, every exit code but 0 is expected by
  a directive already read (`Met`), or is that of the last command and has not been
  looked at (`Awaited`).
- `OwnPaths`: the current directory and the trace paths of the context are named by steps
  of the scenario itself.
- `TracesAreOwn`: whose trace may lie in each working directory, in each place (of a scenario
  that writes there, or an earlier one) and under each name of the artifacts. A hint is
  about the last, which is copied from one of the others: from a directory that the
  scenario's own steps name, or from where the tester looks for them (`FoundIsOwn`).
- `LogsAreOwn`: the logs of a name without namesake are those of the commands so
  far, from the cleanup on.

`TestEnvProofs` proves, for any number of tests and of names they share:

| Theorem | States |
|---|---|
| `EnvsHaveTypes` | `Spec => []TypeOK` |
| `ServicesAreOwn` | `Spec => []ReadyServicesAreOwn` |
| `NothingIsLeft` | `Spec => []TeardownLeavesNothing` |
| `LogsAreKept` | `Spec => []LogsSurviveTeardown` |
| `RunnersAreOwn` | `Spec => []HealthyRunnerIsOwn` |

The assumption is `EnvAssumption` (the environments are finitely many, none of them
`None`). The inductive invariant `EnvInv` adds:

- `RowsAreKnown`: a container belongs to the project of the name of its environment,
  which has been through `compose up`; one that outlives it was abandoned.
- `LatestIsSole`: an environment that had no namesake beside it is the last of its name
  and the only active one, so nobody else touches its project.
- `OwnServices` and `OwnLogs`: what an undisturbed environment's project, ports and
  `compose.log` hold at each stage of `up`, `down` and `Drop`.
- `RunnersAreKnown`: a runner that may still answer has its `TestStack`, or was leaked.

Only model-checked:

- `LoneEditIsPickedUp` and `ShutdownWithoutWatchEnds` of `PackReload` and
  `CommandIsRecorded` of `CommandRun`: liveness under fairness, out of the reach of the provers.

## 5. What is not modelled, and why

- Pure conversions (what a deployment plan copies from a manifest, JSON
  normalization and diff, JUnit, path safety): no state and no interleaving.
- Of the checks: regular expressions and the validator's file checks, one call of
  a library each.
- The layers of the configuration: a merge of one record over another.
- What follows the name of a directive in a script. `TestSuite` and
  `GtestScenarios` start from parsed steps of every kind. `ScriptRun` executes the
  first step only; how the steps of a plan follow each other is `TestSuite`.
- `GET` endpoints but `GET /packs`, metrics of requests and logging: they change
  nothing the properties tell apart.
- `RunnerCommand::Emit`, which no code submits, and `EmitActivity`, which only `runner emit`
  without `--server` submits (`main.rs:1727`): to a proxy and an event log of its own process, which
  ends right after. The log of a server is not touched.
- Of the session server: `fs::write` truncates the file before it writes (`session.rs:189`), so a
  failed persist may leave it torn or empty. `SessionServer` has the failed persist with the
  old file only; the torn and the empty one are in `FileSessionStore`. There, opening a
  store whose file is missing (`exists`, then a write of `[]`) is one step: no other process comes
  between.
- Of the commands: a read error ends a reader with the pipe not empty (`lib.rs:1699`).
- Of the scenarios: steps that reach into the working directory or the artifacts of another
  scenario by its path, and a `trace.json` beside its own `artifacts` directory
  (`executor.rs:838-847`), which nothing in this code writes. `#SAVE_ARTIFACT` is one of the
  directives that may only fail, also for a file named `trace.json`.
- The NATS scenario runner: one task that makes a sequence of external calls.
- Of the test environment: the tenant secrets file and the search for binaries.
- `pack.rs`, scripts and CI: sequences of external tools. `pack_audit.rs`: one pass over
  the pages of a registry that writes a report and keeps nothing.
- The simulators, the smoke runner and the WASM test components: doubles that answer
  one call with a fixed document.

## 6. Plan

Done, in this order: sessions over three backends with proofs; the file store and
its abstract specification; packs, watcher and shutdown with proofs of their
safety; the test suite; gtest scenarios; the test environment; the script
readers; commands, checks and pack queries, composed with the readers; proofs
about commands; proofs about the file store, the test environment, both testers, the
pack queries, and the reader: its includes, its plans, the arguments of a process and the
minimized script; proofs about the checks of a document; and, in the scenarios, the
directories they share.

Next:

1. The layers of the configuration as an operator module.

Each invariant is first strengthened to an inductive one that TLC checks.
