------------------------------ MODULE TestSuite ------------------------------
(***************************************************************************)
(* The tester's `--test` mode: a pool of workers runs `.gtest` plans with  *)
(* fail-fast, working directories, and flake triage with minimization.     *)
(*                                                                         *)
(* Workers interleave step by step.  They share the fail-fast flag, the    *)
(* directories under --workdir, and the fate of the whole suite: an Err    *)
(* from any one test makes main_entry return without a report.             *)
(***************************************************************************)
EXTENDS Naturals, Sequences, FiniteSets

CONSTANTS
    Workers,      \* the threads of the pool; one when --concurrency is 1
    Tests,        \* the discovered .gtest files
    StemOf,       \* StemOf[t]: the sanitized file stem of t
    PlanOf,       \* PlanOf[t]: the steps t parses to; <<>> when it does not parse
    Options,      \* the combinations of flags tried
    TriageRuns,   \* --triage-runs
    None

ExitCodes == {0, 1}
Expectation == [equals: ExitCodes \cup {None}, not_equals: ExitCodes \cup {None}]

\* A command; one that cannot be started (a missing variable or program); an
\* @expect; an @assert on the last exit code; a directive that can only fail,
\* or not, by its substitution; @skip.
Step == [kind: {"command", "unstartable", "directive", "skip"}]
        \cup [kind: {"expect"}, expect: Expectation]
        \cup [kind: {"assert"}, code: ExitCodes]

ASSUME SuiteAssumption ==
    /\ IsFiniteSet(Workers) /\ Workers # {}
    /\ IsFiniteSet(Tests)
    /\ PlanOf \in [Tests -> Seq(Step)]
    /\ Options \subseteq [fail_fast: BOOLEAN, workdir: BOOLEAN,
                          keep_workdir: BOOLEAN, triage_flakes: BOOLEAN]
    /\ TriageRuns \in Nat
    /\ None \notin ExitCodes

VARIABLES
    opts,       \* LegacyArgs; never changes
    pending,    \* tests no worker has taken
    worker,     \* what each worker is at
    dirs,       \* <<d, t>>: directory d exists and holds files of test t
    fail_fast,  \* the flag the workers share
    outcome,    \* what became of each test
    report      \* "none", "ok", "failed" (written), "error" (main_entry gave up)

\* History variables: read by properties, never by a guard.
VARIABLES
    unmet,      \* tests whose first run had a command exit other than expected
    tried,      \* <<t, n, ok>>: a triage run of the first n steps of t, its result
    minimized   \* minimized[t]: length of the minimized plan, 0 when there is none

history == <<unmet, tried, minimized>>
vars == <<opts, pending, worker, dirs, fail_fast, outcome, report, history>>

default_exit_zero == [equals |-> 0, not_equals |-> None]

\* Expectation::matches, on the exit code of a child that may have none (it
\* was killed by a signal, or by the timeout).
Expected(e, exit) ==
    /\ exit # None
    /\ IF e.equals # None THEN exit = e.equals
       ELSE e.not_equals # None => exit # e.not_equals

\* run = 0 is the first run of a test, 1..TriageRuns are the reruns, and
\* TriageRuns + 1 the runs of minimize_failure.
Job ==
    [pc: {"idle", "begin", "steps", "ended"},
     test: Tests \cup {None},
     run: 0..(TriageRuns + 1),
     upto: Nat,               \* number of steps of the (truncated) plan
     at: Nat \ {0},           \* next step
     expect: Expectation,     \* expect_next
     exit: ExitCodes \cup {None},  \* of last_run; None also before the first
     status: {"ok", "failed", "skipped"},
     low: Nat, high: Nat, best: Nat]

Free == [pc |-> "idle", test |-> None, run |-> 0, upto |-> 0, at |-> 1,
         expect |-> default_exit_zero, exit |-> None, status |-> "ok",
         low |-> 0, high |-> 0, best |-> 0]

TypeOK ==
    /\ opts \in Options
    /\ pending \subseteq Tests
    /\ worker \in [Workers -> Job]
    /\ \A w \in Workers : worker[w].pc # "idle" =>
         /\ worker[w].test \in Tests /\ worker[w].upto <= Len(PlanOf[worker[w].test])
         /\ worker[w].pc = "steps" => worker[w].at <= worker[w].upto + 1
    /\ \A d \in dirs : d[2] \in Tests
    /\ fail_fast \in BOOLEAN
    /\ outcome \in [Tests -> {"none", "ok", "skipped", "failed", "error", "not run"}]
    /\ report \in {"none", "ok", "failed", "error"}
    /\ unmet \subseteq Tests
    /\ tried \subseteq Tests \X Nat \X BOOLEAN
    /\ \A x \in tried : x[2] <= Len(PlanOf[x[1]])
    /\ minimized \in [Tests -> Nat]
    /\ \A t \in Tests : minimized[t] <= Len(PlanOf[t])

Init ==
    /\ opts \in Options
    /\ pending = Tests
    /\ worker = [w \in Workers |-> Free]
    /\ dirs = {}
    /\ fail_fast = FALSE
    /\ outcome = [t \in Tests |-> "none"]
    /\ report = "none"
    /\ unmet = {} /\ tried = {} /\ minimized = [t \in Tests |-> 0]

Aborted == \E t \in Tests : outcome[t] = "error"

\* Mutant: the directory is named for the stem alone.
MutantWorkdirOf(job) == <<StemOf[job.test], 0>>

\* prepare_workdir: a shared directory named for the stem, or a fresh one.
WorkdirOf(job) == IF opts.workdir THEN <<StemOf[job.test], 0>>
                  ELSE <<job.test, job.run, job.upto>>
Exists(d) == \E x \in dirs : x[1] = d

-----------------------------------------------------------------------------
(* Taking a test                                                           *)

\* Mutant: the flag is not looked at again after the first failure.
MutantScheduled == TRUE

\* Whether a worker may still start a test.
Scheduled == ~(opts.fail_fast /\ fail_fast)

\* run_single_test: parse, then the first run.  A plan that does not parse is
\* an Err of the suite.
start(w, t) ==
    /\ worker[w].pc = "idle" /\ t \in pending
    /\ Scheduled
    /\ Aborted => Cardinality(Workers) > 1
    /\ pending' = pending \ {t}
    /\ IF PlanOf[t] = <<>>
       THEN outcome' = [outcome EXCEPT ![t] = "error"] /\ UNCHANGED worker
       ELSE /\ worker' = [worker EXCEPT ![w] =
                            [Free EXCEPT !.pc = "begin", !.test = t, !.upto = Len(PlanOf[t])]]
            /\ UNCHANGED outcome
    /\ UNCHANGED <<opts, dirs, fail_fast, report, history>>

\* The fail-fast flag, or an Err seen by the collecting pool, drops a test.
drop(w, t) ==
    /\ worker[w].pc = "idle" /\ t \in pending
    /\ ~Scheduled \/ Aborted
    /\ pending' = pending \ {t}
    /\ outcome' = [outcome EXCEPT ![t] = "not run"]
    /\ UNCHANGED <<opts, worker, dirs, fail_fast, report, history>>

-----------------------------------------------------------------------------
(* run_plan                                                                *)

begin_plan(w) ==
    /\ worker[w].pc = "begin"
    /\ dirs' = dirs \cup {<<WorkdirOf(worker[w]), worker[w].test>>}
    /\ worker' = [worker EXCEPT ![w].pc = "steps", ![w].at = 1, ![w].status = "ok",
                                ![w].expect = default_exit_zero, ![w].exit = None]
    /\ UNCHANGED <<opts, pending, fail_fast, outcome, report, history>>

AtStep(w, kind) ==
    /\ worker[w].pc = "steps" /\ worker[w].at <= worker[w].upto
    /\ PlanOf[worker[w].test][worker[w].at].kind = kind
StepOf(w) == PlanOf[worker[w].test][worker[w].at]

\* The loop goes on with job, or breaks with a status.
GoOn(w, job)  == worker' = [worker EXCEPT ![w] = [job EXCEPT !.at = @ + 1]]
Break(w, status) == worker' = [worker EXCEPT ![w].pc = "ended", ![w].status = status]

\* An Err leaves run_plan, run_single_test and main_entry.
Err(w) ==
    /\ outcome' = [outcome EXCEPT ![worker[w].test] = "error"]
    /\ worker' = [worker EXCEPT ![w] = Free]

\* Mutant: the expectation is not reset after the command it was for.
MutantExpectNext(job) == job.expect

\* ctx.expect_next once a command has been run.
ExpectNext(job) == default_exit_zero

\* The expectation the text of a plan states for its i-th step, a command:
\* the last @expect since the command before it, or exit code 0.
Stated(plan, i) ==
    LET since == {j \in 1..(i - 1) : /\ plan[j].kind = "expect"
                                     /\ \A k \in j..(i - 1) : plan[k].kind # "command"}
    IN  IF since = {} THEN default_exit_zero
        ELSE plan[CHOOSE j \in since : \A k \in since : k <= j].expect

\* execute_command in the workdir, whose absence fails the spawn.
command(w) ==
    /\ AtStep(w, "command")
    /\ IF ~Exists(WorkdirOf(worker[w]))
       THEN Err(w) /\ UNCHANGED unmet
       ELSE \E exit \in ExitCodes \cup {None} :
              LET job == worker[w]
              IN  /\ IF Expected(job.expect, exit)
                     THEN GoOn(w, [job EXCEPT !.exit = exit, !.expect = ExpectNext(job)])
                     ELSE Break(w, "failed")
                  /\ unmet' = IF job.run > 0 \/ Expected(Stated(PlanOf[job.test], job.at), exit)
                              THEN unmet ELSE unmet \cup {job.test}
                  /\ UNCHANGED outcome
    /\ UNCHANGED <<opts, pending, dirs, fail_fast, report, tried, minimized>>

\* A command that cannot be started is an Err, not a failed test.
unstartable(w) ==
    /\ AtStep(w, "unstartable")
    /\ Err(w)
    /\ UNCHANGED <<opts, pending, dirs, fail_fast, report, history>>

\* handle_directive.  A @skip whose reason names a missing variable fails.
directive(w) ==
    /\ \/ AtStep(w, "directive") /\ GoOn(w, worker[w])
       \/ AtStep(w, "directive") /\ Break(w, "failed")
       \/ AtStep(w, "expect") /\ GoOn(w, [worker[w] EXCEPT !.expect = StepOf(w).expect])
       \/ AtStep(w, "skip") /\ (Break(w, "skipped") \/ Break(w, "failed"))
       \/ /\ AtStep(w, "assert")
          /\ IF worker[w].exit = StepOf(w).code THEN GoOn(w, worker[w]) ELSE Break(w, "failed")
    /\ UNCHANGED <<opts, pending, dirs, fail_fast, outcome, report, history>>

\* Mutant: every run cleans up after itself.
MutantCleansUp(job) == ~opts.keep_workdir

\* Which runs remove their workdir.
CleansUp(job) == job.status = "ok" /\ ~opts.keep_workdir

-----------------------------------------------------------------------------
(* What a run's end leads to                                               *)

\* Mutant: the upper half is searched after a failing prefix.
MutantNextSearch(job) ==
    IF job.status = "failed"
    THEN [job EXCEPT !.best = job.upto, !.low = job.upto + 1]
    ELSE [job EXCEPT !.low = job.upto + 1]

\* Mutant: a passing prefix is left behind two steps at a time.
MutantSearchStride(job) ==
    IF job.status = "failed"
    THEN [job EXCEPT !.best = job.upto, !.high = job.upto - 1]
    ELSE [job EXCEPT !.low = job.upto + 2]

\* minimize_failure: the search after the run of the first upto steps.
NextSearch(job) ==
    IF job.status = "failed"
    THEN [job EXCEPT !.best = job.upto, !.high = job.upto - 1]
    ELSE [job EXCEPT !.low = job.upto + 1]

\* Mutant: the search starts one step past the end of the plan.
MutantFirstSearch(job) ==
    [job EXCEPT !.run = TriageRuns + 1, !.low = 1, !.high = Len(PlanOf[job.test]) + 1, !.best = 0]

FirstSearch(job) ==
    [job EXCEPT !.run = TriageRuns + 1, !.low = 1, !.high = Len(PlanOf[job.test]), !.best = 0]
Mid(job) == (job.low + job.high) \div 2
Commands(plan) == {i \in DOMAIN plan : plan[i].kind \in {"command", "unstartable"}}

\* The end of run_single_test: the verdict is that of the first run.
Finish(w, job, verdict) ==
    /\ outcome' = [outcome EXCEPT ![job.test] = verdict]
    /\ fail_fast' = (fail_fast \/ (verdict = "failed" /\ opts.fail_fast))
    /\ minimized' = [minimized EXCEPT ![job.test] = job.best]
    /\ worker' = [worker EXCEPT ![w] = Free]

Rerun(w, job) ==
    /\ worker' = [worker EXCEPT ![w] = [job EXCEPT !.pc = "begin"]]
    /\ UNCHANGED <<outcome, fail_fast, minimized>>

\* The search goes on while low <= high; it has to run to be told the result.
Search(w, job) ==
    IF job.low <= job.high THEN Rerun(w, [job EXCEPT !.upto = Mid(job)])
    ELSE Finish(w, job, "failed")

end_plan(w) ==
    LET job == worker[w]
        ended == IF job.pc = "ended" THEN job ELSE [job EXCEPT !.status = "ok"]
    IN  /\ job.pc = "ended" \/ (job.pc = "steps" /\ job.at > job.upto)
        /\ dirs' = IF CleansUp(ended) THEN {x \in dirs : x[1] # WorkdirOf(job)} ELSE dirs
        /\ tried' = IF job.run = 0 THEN tried
                    ELSE tried \cup {<<job.test, job.upto, ended.status # "failed">>}
        /\ \/ /\ job.run = 0 /\ ~(ended.status = "failed" /\ opts.triage_flakes)
              /\ Finish(w, ended, ended.status)
           \/ /\ job.run < TriageRuns
              /\ job.run > 0 \/ (ended.status = "failed" /\ opts.triage_flakes)
              /\ Rerun(w, [ended EXCEPT !.run = job.run + 1])
           \/ /\ job.run = TriageRuns
              /\ job.run > 0 \/ (ended.status = "failed" /\ opts.triage_flakes)
              /\ IF Cardinality(Commands(PlanOf[job.test])) <= 1
                 THEN Finish(w, ended, "failed")
                 ELSE Search(w, FirstSearch(ended))
           \/ /\ job.run = TriageRuns + 1
              /\ Search(w, NextSearch(ended))
    /\ UNCHANGED <<opts, pending, report, unmet>>

\* main_entry once run_all returned: no report after an Err, otherwise the
\* report and an exit code that tells whether a test failed.
finish_suite ==
    /\ report = "none"
    /\ pending = {} /\ \A w \in Workers : worker[w].pc = "idle"
    /\ report' = IF Aborted THEN "error"
                 ELSE IF \E t \in Tests : outcome[t] = "failed" THEN "failed" ELSE "ok"
    /\ UNCHANGED <<opts, pending, worker, dirs, fail_fast, outcome, history>>

Next ==
    \/ \E w \in Workers, t \in Tests : start(w, t)
    \/ \E w \in Workers, t \in Tests : drop(w, t)
    \/ \E w \in Workers : begin_plan(w)
    \/ \E w \in Workers : command(w)
    \/ \E w \in Workers : unstartable(w)
    \/ \E w \in Workers : directive(w)
    \/ \E w \in Workers : end_plan(w)
    \/ finish_suite

Spec == Init /\ [][Next]_vars

-----------------------------------------------------------------------------
(* Properties                                                              *)

SharesStem(t) == \E u \in Tests \ {t} : StemOf[u] = StemOf[t]

\* A test that is reported ok ran every command to the exit code stated for
\* it by the nearest @expect since the command before, or to 0: neither a
\* stale nor an early expectation, nor a signal, lets a command through.
OkMeansEveryExitMet == \A t \in Tests : outcome[t] = "ok" => t \notin unmet

\* "Stop scheduling new tests after the first failure" (lib.rs:117): with
\* --fail-fast at most one test per worker fails, triage or not.
FailFastLimitsFailures ==
    opts.fail_fast =>
        Cardinality({t \in Tests : outcome[t] = "failed"}) <= Cardinality(Workers)

\* The workdir a failed test's transcript names is still there, with that
\* test's files, unless --workdir lets its own reruns or a test of the same
\* stem remove it.
FailedWorkdirStays ==
    \A t \in Tests : outcome[t] = "failed" =>
        \/ <<WorkdirOf([test |-> t, run |-> 0, upto |-> Len(PlanOf[t])]), t>> \in dirs
        \/ opts.workdir /\ (opts.triage_flakes \/ SharesStem(t))

\* A plan in the middle of its run keeps its workdir, unless a test of the
\* same stem runs under the same --workdir.
RunningPlanHasWorkdir ==
    \A w \in Workers : worker[w].pc = "steps" =>
        Exists(WorkdirOf(worker[w])) \/ (opts.workdir /\ SharesStem(worker[w].test))

\* The minimized repro is a prefix that failed when it was run, and the
\* prefix one step shorter, if there is one, passed when it was run.
MinimizedIsBoundary ==
    \A t \in Tests : LET n == minimized[t] IN
        n > 0 => /\ <<t, n, FALSE>> \in tried
                 /\ n > 1 => <<t, n - 1, TRUE>> \in tried
=============================================================================
