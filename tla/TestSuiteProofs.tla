--------------------------- MODULE TestSuiteProofs ---------------------------
(***************************************************************************)
(* Theorems about TestSuite, for any tests, plans, workers and flags: what *)
(* an "ok" means, which directories are left, what minimization returns,   *)
(* and how many tests may fail under --fail-fast.                          *)
(***************************************************************************)
EXTENDS TestSuite, FiniteSetTheorems, TLAPS

-----------------------------------------------------------------------------
(* The inductive invariant                                                 *)

SuiteTypes ==
    /\ opts \in Options
    /\ pending \subseteq Tests
    /\ worker \in [Workers -> Job]
    /\ \A d \in dirs : d[2] \in Tests
    /\ fail_fast \in BOOLEAN
    /\ outcome \in [Tests -> {"none", "ok", "skipped", "failed", "error", "not run"}]
    /\ report \in {"none", "ok", "failed", "error"}
    /\ unmet \subseteq Tests
    /\ tried \subseteq Tests \X Nat \X BOOLEAN
    /\ \A x \in tried : x[2] <= Len(PlanOf[x[1]])
    /\ minimized \in [Tests -> Nat]
    /\ \A t \in Tests : minimized[t] <= Len(PlanOf[t])

Busy(w) == worker[w].pc # "idle"

\* A test is pending, then one worker's, then has an outcome.
OneEach ==
    /\ \A w \in Workers : Busy(w) =>
          /\ worker[w].test \in Tests \ pending
          /\ outcome[worker[w].test] = "none"
    /\ \A v, w \in Workers : Busy(v) /\ Busy(w) /\ worker[v].test = worker[w].test => v = w

\* The plan of a run, whole unless it is one of the search's; the expectation
\* is the one the text of the plan states for the next step.
JobShape(j) ==
    /\ j.test \in Tests
    /\ j.upto <= Len(PlanOf[j.test])
    /\ j.run = 0 => j.upto = Len(PlanOf[j.test])
    /\ j.run > 0 => opts.triage_flakes
    /\ j.run <= TriageRuns => j.best = 0
    /\ j.pc = "steps" => j.at <= j.upto + 1 /\ j.expect = Stated(PlanOf[j.test], j.at)

\* The search: all below low passed that were run last, best failed.
Bounds(j) ==
    /\ 1 <= j.low /\ j.low <= j.high + 1 /\ j.high <= Len(PlanOf[j.test])
    /\ j.low > 1 => <<j.test, j.low - 1, TRUE>> \in tried
    /\ j.best > 0 => <<j.test, j.best, FALSE>> \in tried /\ j.high = j.best - 1

JobSearch(j) ==
    j.run = TriageRuns + 1 => Bounds(j) /\ j.low <= j.upto /\ j.upto <= j.high

\* A command that was not met ends the first run as failed.
JobMet(j) ==
    j.run = 0 /\ j.test \in unmet => j.pc = "ended" /\ j.status = "failed"

FirstDir(t) == WorkdirOf([test |-> t, run |-> 0, upto |-> Len(PlanOf[t])])

\* The workdir of the first run of t is there.
FirstDirStays(t) ==
    \/ <<FirstDir(t), t>> \in dirs
    \/ opts.workdir /\ (opts.triage_flakes \/ SharesStem(t))

JobDirs(j) ==
    /\ j.pc \in {"steps", "ended"} =>
          <<WorkdirOf(j), j.test>> \in dirs \/ (opts.workdir /\ SharesStem(j.test))
    /\ j.run > 0 => FirstDirStays(j.test)

JobInv(j) == JobShape(j) /\ JobSearch(j) /\ JobMet(j) /\ JobDirs(j)

\* What holds of tests that wait, and of those that are done.
TestsInv ==
    /\ \A t \in pending : outcome[t] = "none" /\ t \notin unmet
    /\ \A t \in Tests : outcome[t] = "failed" => FirstDirStays(t)
    /\ OkMeansEveryExitMet
    /\ MinimizedIsBoundary

Failed == {t \in Tests : outcome[t] = "failed"}
Occupied == {w \in Workers : Busy(w)}

\* Under --fail-fast, no test starts once one failed: those that have failed and
\* those that still run are at most as many as the workers.
FewFail ==
    opts.fail_fast =>
        /\ fail_fast \/ Failed = {}
        /\ Cardinality(Failed) + Cardinality(Occupied) <= Cardinality(Workers)

JobsInv == \A w \in Workers : Busy(w) => \A j \in {worker[w]} : JobInv(j)

SuiteInv == SuiteTypes /\ OneEach /\ JobsInv /\ TestsInv /\ FewFail

-----------------------------------------------------------------------------
(* The expectation a plan states                                           *)

LEMMA PlansAreTyped ==
    ASSUME NEW t \in Tests
    PROVE  /\ PlanOf[t] \in Seq(Step) /\ Len(PlanOf[t]) \in Nat
           /\ \A i \in 1..Len(PlanOf[t]) : PlanOf[t][i] \in Step
BY SuiteAssumption

Since(plan, i) ==
    {j \in 1..(i - 1) : plan[j].kind = "expect" /\ \A k \in j..(i - 1) : plan[k].kind # "command"}

Latest(S) == CHOOSE j \in S : \A k \in S : k <= j

LEMMA StatedIs ==
    ASSUME NEW plan, NEW i
    PROVE  Stated(plan, i) = IF Since(plan, i) = {} THEN default_exit_zero
                             ELSE plan[Latest(Since(plan, i))].expect
BY DEF Stated, Since, Latest

LEMMA StatedFirst == ASSUME NEW plan PROVE Stated(plan, 1) = default_exit_zero
<1>1. Since(plan, 1) = {}
  BY DEF Since
<1> QED
  BY <1>1, StatedIs

LEMMA StatedAfterCommand ==
    ASSUME NEW plan, NEW i \in Nat \ {0}, plan[i].kind = "command"
    PROVE  Stated(plan, i + 1) = default_exit_zero
<1>1. \A j \in 1..((i + 1) - 1) : i \in j..((i + 1) - 1)
  OBVIOUS
<1>2. Since(plan, i + 1) = {}
  BY <1>1 DEF Since
<1> QED
  BY <1>2, StatedIs

LEMMA StatedAfterExpect ==
    ASSUME NEW plan, NEW i \in Nat \ {0}, plan[i].kind = "expect"
    PROVE  Stated(plan, i + 1) = plan[i].expect
<1> DEFINE S == Since(plan, i + 1)
<1>1. i \in S
  <2>1. i..((i + 1) - 1) = {i} /\ i \in 1..((i + 1) - 1)
    OBVIOUS
  <2> QED
    BY <2>1 DEF Since
<1>2. S \subseteq 1..i
  BY DEF Since
<1> HIDE DEF S
<1>3. Latest(S) = i
  <2>1. \A k \in S : k <= i
    BY <1>2
  <2>2. \A j \in S : (\A k \in S : k <= j) => j = i
    BY <1>1, <1>2
  <2> QED
    BY <1>1, <2>1, <2>2 DEF Latest
<1> QED
  BY <1>1, <1>3, StatedIs DEF S

LEMMA StatedGoesOn ==
    ASSUME NEW plan, NEW i \in Nat \ {0}, plan[i].kind \notin {"command", "expect"}
    PROVE  Stated(plan, i + 1) = Stated(plan, i)
<1>1. Since(plan, i + 1) \subseteq Since(plan, i)
  <2>1. \A j \in 1..((i + 1) - 1) : j \in 1..(i - 1) \/ j = i
    OBVIOUS
  <2>2. \A j \in 1..(i - 1) : \A k \in j..(i - 1) : k \in j..((i + 1) - 1)
    OBVIOUS
  <2> QED
    BY <2>1, <2>2 DEF Since
<1>2. Since(plan, i) \subseteq Since(plan, i + 1)
  <2>1. \A j \in 1..(i - 1) : j \in 1..((i + 1) - 1)
    OBVIOUS
  <2>2. \A j \in 1..(i - 1) : \A k \in j..((i + 1) - 1) : k \in j..(i - 1) \/ k = i
    OBVIOUS
  <2> QED
    BY <2>1, <2>2 DEF Since
<1>3. Since(plan, i + 1) = Since(plan, i)
  BY <1>1, <1>2
<1> QED
  BY <1>3, StatedIs

-----------------------------------------------------------------------------
(* Working directories                                                     *)

\* Two tests use one directory only if they share a stem under --workdir.
LEMMA DirsAreOwn ==
    ASSUME NEW j, NEW o, j.test \in Tests, o.test \in Tests, j.test # o.test,
           WorkdirOf(j) = WorkdirOf(o)
    PROVE  opts.workdir /\ SharesStem(j.test)
<1>1. CASE opts.workdir
  <2>1. <<StemOf[j.test], 0>> = <<StemOf[o.test], 0>>
    BY <1>1 DEF WorkdirOf
  <2> QED
    BY <1>1, <2>1 DEF SharesStem
<1>2. CASE ~opts.workdir
  <2>1. <<j.test, j.run, j.upto>> = <<o.test, o.run, o.upto>>
    BY <1>2 DEF WorkdirOf
  <2> QED
    BY <2>1
<1> QED
  BY <1>1, <1>2

\* The workdir of the first run is another than that of a rerun.
LEMMA FirstDirIsOwn ==
    ASSUME NEW t \in Tests, NEW o, o.test = t, o.run # 0, WorkdirOf(o) = FirstDir(t)
    PROVE  opts.workdir
<1>1. CASE ~opts.workdir
  <2>1. <<o.test, o.run, o.upto>> = <<t, 0, Len(PlanOf[t])>>
    BY <1>1 DEF WorkdirOf, FirstDir
  <2> QED
    BY <2>1
<1> QED
  BY <1>1

-----------------------------------------------------------------------------
(* What the other workers' tests keep                                      *)

\* Another run of the test of o only adds what it tried, and only removes the
\* workdir of o.
Only(o) ==
    /\ opts' = opts
    /\ tried \subseteq tried'
    /\ unmet' \subseteq unmet \cup {o.test}
    /\ \A x \in dirs : x[1] # WorkdirOf(o) => x \in dirs'

LEMMA FirstDirKept ==
    ASSUME NEW o, o.test \in Tests, Only(o), NEW t \in Tests, t # o.test, FirstDirStays(t)
    PROVE  FirstDirStays(t)'
<1>1. opts' = opts /\ FirstDir(t)' = FirstDir(t)
  BY DEF Only, FirstDir, WorkdirOf
<1>2. CASE opts.workdir /\ (opts.triage_flakes \/ SharesStem(t))
  BY <1>1, <1>2 DEF FirstDirStays
<1>3. CASE <<FirstDir(t), t>> \in dirs
  <2> DEFINE first == [test |-> t, run |-> 0, upto |-> Len(PlanOf[t])]
  <2>1. first.test = t /\ FirstDir(t) = WorkdirOf(first)
    BY DEF FirstDir
  <2> HIDE DEF first
  <2>2. CASE FirstDir(t) # WorkdirOf(o)
    <3>1. <<FirstDir(t), t>> \in dirs'
      BY <1>3, <2>2 DEF Only
    <3> QED
      BY <1>1, <3>1 DEF FirstDirStays
  <2>3. CASE FirstDir(t) = WorkdirOf(o)
    <3>1. opts.workdir /\ SharesStem(first.test)
      BY <2>1, <2>3, DirsAreOwn
    <3> QED
      BY <1>1, <2>1, <3>1 DEF FirstDirStays
  <2> QED
    BY <2>2, <2>3
<1> QED
  BY <1>2, <1>3 DEF FirstDirStays

LEMMA OthersKeep ==
    ASSUME NEW o, o.test \in Tests, Only(o), NEW j, j.test # o.test, JobInv(j)
    PROVE  JobInv(j)'
<1>1. j.test \in Tests /\ opts' = opts /\ WorkdirOf(j)' = WorkdirOf(j)
  BY DEF JobInv, JobShape, Only, WorkdirOf
<1>2. JobShape(j)'
  BY <1>1 DEF JobInv, JobShape
<1>3. JobSearch(j)'
  BY DEF JobInv, JobSearch, Bounds, Only
<1>4. JobMet(j)'
  BY DEF JobInv, JobMet, Only
<1>5. JobDirs(j)'
  <2>1. ASSUME <<WorkdirOf(j), j.test>> \in dirs
        PROVE  <<WorkdirOf(j), j.test>> \in dirs' \/ (opts.workdir /\ SharesStem(j.test))
    <3>1. CASE WorkdirOf(j) # WorkdirOf(o)
      BY <2>1, <3>1 DEF Only
    <3>2. CASE WorkdirOf(j) = WorkdirOf(o)
      BY <1>1, <3>2, DirsAreOwn
    <3> QED
      BY <3>1, <3>2
  <2>2. FirstDirStays(j.test) => FirstDirStays(j.test)'
    BY <1>1, FirstDirKept
  <2> QED
    BY <1>1, <2>1, <2>2 DEF JobInv, JobDirs
<1> QED
  BY <1>2, <1>3, <1>4, <1>5 DEF JobInv

\* What is known of the other tests, done or waiting.
LEMMA OtherTestsKeep ==
    ASSUME SuiteInv, NEW o, o.test \in Tests, Only(o), NEW t \in Tests, t # o.test,
           outcome'[t] = outcome[t], minimized'[t] = minimized[t]
    PROVE  /\ outcome'[t] = "failed" => FirstDirStays(t)'
           /\ outcome'[t] = "ok" => t \notin unmet'
           /\ minimized'[t] > 0 =>
                /\ <<t, minimized'[t], FALSE>> \in tried'
                /\ minimized'[t] > 1 => <<t, minimized'[t] - 1, TRUE>> \in tried'
<1>1. FirstDirStays(t) => FirstDirStays(t)'
  BY FirstDirKept
<1>2. t \in unmet' => t \in unmet
  BY DEF Only
<1>3. tried \subseteq tried'
  BY DEF Only
<1> QED
  BY <1>1, <1>2, <1>3 DEF SuiteInv, TestsInv, OkMeansEveryExitMet, MinimizedIsBoundary

-----------------------------------------------------------------------------
(* Counting                                                                *)

LEMMA Finite ==
    /\ IsFiniteSet(Failed) /\ IsFiniteSet(Occupied) /\ IsFiniteSet(Workers)
    /\ Cardinality(Failed) \in Nat /\ Cardinality(Occupied) \in Nat
    /\ Cardinality(Workers) \in Nat /\ Cardinality(Occupied) <= Cardinality(Workers)
<1>1. Failed \subseteq Tests /\ Occupied \subseteq Workers
  BY DEF Failed, Occupied
<1> QED
  BY <1>1, SuiteAssumption, FS_Subset, FS_CardinalityType

LEMMA FailFastIsBoolean ==
    ASSUME SuiteTypes
    PROVE  opts.fail_fast \in BOOLEAN /\ opts.triage_flakes \in BOOLEAN /\ opts.workdir \in BOOLEAN
BY SuiteAssumption DEF SuiteTypes

\* Nobody starts, and nobody else fails.
LEMMA CountStays ==
    ASSUME FewFail, opts' = opts, fail_fast' = fail_fast, Failed' = Failed,
           Occupied' \subseteq Occupied
    PROVE  FewFail'
<1>1. /\ Cardinality(Occupied') <= Cardinality(Occupied) /\ Cardinality(Occupied) \in Nat
      /\ Cardinality(Occupied') \in Nat
  BY Finite, FS_Subset, FS_CardinalityType
<1>2. Cardinality(Failed) \in Nat /\ Cardinality(Workers) \in Nat
  BY Finite
<1>3. Cardinality(Failed)' = Cardinality(Failed)
  BY Zenon
<1> DEFINE c == Cardinality(Occupied)
           d == Cardinality(Occupied')
           f == Cardinality(Failed)
           n == Cardinality(Workers)
<1>4. opts.fail_fast => (fail_fast \/ Failed = {}) /\ f + c <= n
  BY DEF FewFail
<1>5. opts.fail_fast => f + d <= n
  <2> HIDE DEF c, d, f, n
  <2>1. d <= c /\ c \in Nat /\ d \in Nat /\ f \in Nat /\ n \in Nat
    BY <1>1, <1>2 DEF c, d, f, n
  <2> QED
    BY <1>4, <2>1
<1> QED
  BY <1>3, <1>4, <1>5 DEF FewFail

\* A worker is done with a test that failed.
LEMMA CountFails ==
    ASSUME FewFail, opts' = opts, opts.fail_fast => fail_fast',
           NEW w \in Occupied, Occupied' = Occupied \ {w},
           NEW t, Failed' = Failed \cup {t}
    PROVE  FewFail'
<1>1. /\ Cardinality(Occupied') = Cardinality(Occupied) - 1
      /\ Cardinality(Occupied) \in Nat
  BY Finite, FS_RemoveElement, Zenon
<1>2. /\ Cardinality(Failed)' <= Cardinality(Failed) + 1 /\ Cardinality(Failed) \in Nat
      /\ Cardinality(Failed)' \in Nat
  <2>1. Cardinality(Failed \cup {t}) \in {Cardinality(Failed), Cardinality(Failed) + 1}
    <3>1. t \in Failed => Failed \cup {t} = Failed
      OBVIOUS
    <3> QED
      BY <3>1, Finite, FS_AddElement
  <2>2. Cardinality(Failed)' = Cardinality(Failed \cup {t})
    BY Zenon
  <2> QED
    BY <2>1, <2>2, Finite
<1>3. Cardinality(Workers) \in Nat
  BY Finite
<1> QED
  BY <1>1, <1>2, <1>3 DEF FewFail

-----------------------------------------------------------------------------
(* What a worker's step leads to                                           *)

LEMMA TheJob ==
    ASSUME SuiteInv, NEW w \in Workers, Busy(w), NEW o, o = worker[w]
    PROVE  /\ o \in Job /\ JobInv(o) /\ o.pc # "idle"
           /\ o.test \in Tests \ pending /\ outcome[o.test] = "none"
           /\ \A v \in Workers \ {w} : Busy(v) => worker[v].test # o.test
BY DEF SuiteInv, SuiteTypes, OneEach, JobsInv, Busy

LEMMA FreeIsJob ==
    /\ Free \in Job /\ Free.pc = "idle" /\ Free.run = 0 /\ Free.best = 0
    /\ default_exit_zero \in Expectation
<1>1. default_exit_zero \in Expectation
  BY DEF Expectation, default_exit_zero, ExitCodes
<1>2. 0 \in 0..(TriageRuns + 1)
  BY SuiteAssumption
<1> QED
  BY <1>1, <1>2 DEF Free, Job

\* The files and what was tried keep their types.
Written ==
    /\ \A d \in dirs : d[2] \in Tests
    /\ tried \subseteq Tests \X Nat \X BOOLEAN
    /\ \A x \in tried : x[2] <= Len(PlanOf[x[1]])

\* The worker goes on with its test.
LEMMA Works ==
    ASSUME SuiteInv, NEW w \in Workers, Busy(w), NEW o, o = worker[w],
           NEW j \in Job, worker' = [worker EXCEPT ![w] = j], j.pc # "idle", j.test = o.test,
           Only(o), Written', JobInv(j)',
           UNCHANGED <<pending, fail_fast, outcome, report, minimized>>
    PROVE  SuiteInv'
<1>1. /\ o.test \in Tests \ pending /\ outcome[o.test] = "none" /\ o.pc # "idle"
      /\ \A v \in Workers \ {w} : Busy(v) => worker[v].test # o.test
  BY TheJob
<1>2. /\ worker' \in [Workers -> Job] /\ worker'[w] = j
      /\ \A v \in Workers \ {w} : worker'[v] = worker[v]
  BY DEF SuiteInv, SuiteTypes
<1>3. /\ opts' = opts /\ pending' = pending /\ fail_fast' = fail_fast /\ outcome' = outcome
      /\ report' = report /\ minimized' = minimized
      /\ tried \subseteq tried' /\ unmet' \subseteq unmet \cup {o.test}
  BY DEF Only
<1>4. \A v \in Workers : (Busy(v)' <=> Busy(v)) /\ worker'[v].test = worker[v].test
  BY <1>1, <1>2 DEF Busy
<1>5. SuiteTypes'
  BY <1>1, <1>2, <1>3 DEF SuiteInv, SuiteTypes, Written
<1>6. OneEach'
  BY <1>3, <1>4 DEF SuiteInv, OneEach
<1>7. JobsInv'
  <2> SUFFICES ASSUME NEW v \in Workers, Busy(v)', NEW k \in {worker'[v]} PROVE JobInv(k)'
    BY DEF JobsInv
  <2>1. CASE v = w
    <3>1. k = j
      BY <1>2, <2>1
    <3> QED
      BY <3>1
  <2>2. CASE v # w
    <3>1. k = worker[v] /\ Busy(v) /\ k.test # o.test
      BY <1>1, <1>2, <1>4, <2>2
    <3>2. JobInv(k)
      BY <3>1 DEF SuiteInv, JobsInv
    <3> QED
      BY <1>1, <3>1, <3>2, OthersKeep
  <2> QED
    BY <2>1, <2>2
<1>8. TestsInv'
  <2>1. \A t \in pending : outcome[t] = "none" /\ t \notin unmet'
    BY <1>1, <1>3 DEF SuiteInv, SuiteTypes, TestsInv
  <2>2. ASSUME NEW t \in Tests
        PROVE  /\ outcome'[t] = "failed" => FirstDirStays(t)'
               /\ outcome'[t] = "ok" => t \notin unmet'
               /\ minimized'[t] > 0 =>
                    /\ <<t, minimized'[t], FALSE>> \in tried'
                    /\ minimized'[t] > 1 => <<t, minimized'[t] - 1, TRUE>> \in tried'
    <3>1. CASE t = o.test
      BY <1>1, <1>3, <3>1 DEF SuiteInv, TestsInv, MinimizedIsBoundary
    <3>2. CASE t # o.test
      BY <1>1, <1>3, <3>2, OtherTestsKeep
    <3> QED
      BY <3>1, <3>2
  <2> QED
    BY <1>3, <2>1, <2>2 DEF TestsInv, OkMeansEveryExitMet, MinimizedIsBoundary
<1>9. FewFail'
  <2>1. Failed' = Failed /\ Occupied' = Occupied
    BY <1>3, <1>4 DEF Failed, Occupied
  <2> QED
    BY <1>3, <2>1, CountStays DEF SuiteInv
<1> QED
  BY <1>5, <1>6, <1>7, <1>8, <1>9 DEF SuiteInv

\* The worker is done with its test.
LEMMA Leaves ==
    ASSUME SuiteInv, NEW w \in Workers, Busy(w), NEW o, o = worker[w],
           NEW verdict \in {"ok", "skipped", "failed", "error"}, NEW n \in Nat,
           worker' = [worker EXCEPT ![w] = Free],
           outcome' = [outcome EXCEPT ![o.test] = verdict],
           minimized' = [minimized EXCEPT ![o.test] = n],
           fail_fast' = (fail_fast \/ (verdict = "failed" /\ opts.fail_fast)),
           Only(o), Written', UNCHANGED <<pending, report>>,
           verdict = "ok" => o.test \notin unmet',
           verdict = "failed" => FirstDirStays(o.test)',
           n <= Len(PlanOf[o.test]),
           n > 0 => /\ <<o.test, n, FALSE>> \in tried'
                    /\ n > 1 => <<o.test, n - 1, TRUE>> \in tried'
    PROVE  SuiteInv'
<1>1. /\ o.test \in Tests \ pending /\ outcome[o.test] = "none" /\ o.pc # "idle"
      /\ \A v \in Workers \ {w} : Busy(v) => worker[v].test # o.test
  BY TheJob
<1>2. /\ worker' \in [Workers -> Job] /\ worker'[w].pc = "idle"
      /\ \A v \in Workers \ {w} : worker'[v] = worker[v]
  <2> QED
    BY FreeIsJob DEF SuiteInv, SuiteTypes
<1>3. /\ outcome' \in [Tests -> {"none", "ok", "skipped", "failed", "error", "not run"}]
      /\ outcome'[o.test] = verdict /\ \A t \in Tests \ {o.test} : outcome'[t] = outcome[t]
      /\ minimized' \in [Tests -> Nat]
      /\ minimized'[o.test] = n /\ \A t \in Tests \ {o.test} : minimized'[t] = minimized[t]
  BY <1>1 DEF SuiteInv, SuiteTypes
<1>4. /\ opts' = opts /\ pending' = pending /\ report' = report
      /\ tried \subseteq tried' /\ unmet' \subseteq unmet \cup {o.test}
  BY DEF Only
<1>5. \A v \in Workers :
        Busy(v)' => Busy(v) /\ v # w /\ worker'[v] = worker[v] /\ worker[v].test # o.test
  BY <1>1, <1>2 DEF Busy
<1>6. SuiteTypes'
  <2>1. fail_fast' \in BOOLEAN
    OBVIOUS
  <2>2. \A t \in Tests : minimized'[t] <= Len(PlanOf[t])
    BY <1>3 DEF SuiteInv, SuiteTypes
  <2>3. /\ opts' \in Options /\ pending' \subseteq Tests /\ unmet' \subseteq Tests
        /\ report' \in {"none", "ok", "failed", "error"}
    BY <1>1, <1>4 DEF SuiteInv, SuiteTypes
  <2> QED
    BY <1>2, <1>3, <2>1, <2>2, <2>3 DEF SuiteTypes, Written
<1>7. OneEach'
  <2>1. \A v \in Workers : Busy(v)' =>
          worker'[v].test \in Tests \ pending /\ outcome'[worker'[v].test] = "none"
    BY <1>3, <1>5 DEF SuiteInv, OneEach
  <2>2. \A u, v \in Workers : Busy(u)' /\ Busy(v)' /\ worker'[u].test = worker'[v].test => u = v
    BY <1>5 DEF SuiteInv, OneEach
  <2> QED
    BY <1>4, <2>1, <2>2 DEF OneEach
<1>8. JobsInv'
  <2> SUFFICES ASSUME NEW v \in Workers, Busy(v)', NEW k \in {worker'[v]} PROVE JobInv(k)'
    BY DEF JobsInv
  <2>1. k = worker[v] /\ Busy(v) /\ k.test # o.test
    BY <1>5
  <2>2. JobInv(k)
    BY <2>1 DEF SuiteInv, JobsInv
  <2> QED
    BY <1>1, <2>1, <2>2, OthersKeep
<1>9. TestsInv'
  <2>1. \A t \in pending : outcome'[t] = "none" /\ t \notin unmet'
    BY <1>1, <1>3, <1>4 DEF SuiteInv, SuiteTypes, TestsInv
  <2>2. ASSUME NEW t \in Tests
        PROVE  /\ outcome'[t] = "failed" => FirstDirStays(t)'
               /\ outcome'[t] = "ok" => t \notin unmet'
               /\ minimized'[t] > 0 =>
                    /\ <<t, minimized'[t], FALSE>> \in tried'
                    /\ minimized'[t] > 1 => <<t, minimized'[t] - 1, TRUE>> \in tried'
    <3>1. CASE t = o.test
      <4>1. (outcome'[t] = "failed") => FirstDirStays(t)'
        <5>1. outcome'[t] = "failed" => verdict = "failed"
          BY <1>3, <3>1
        <5>2. FirstDirStays(o.test)' => FirstDirStays(t)'
          BY <3>1 DEF FirstDirStays, FirstDir, WorkdirOf
        <5> QED
          BY <5>1, <5>2
      <4> QED
        BY <1>3, <3>1, <4>1
    <3>2. CASE t # o.test
      BY <1>1, <1>3, <3>2, OtherTestsKeep
    <3> QED
      BY <3>1, <3>2
  <2> QED
    BY <1>4, <2>1, <2>2 DEF TestsInv, OkMeansEveryExitMet, MinimizedIsBoundary
<1>10. FewFail'
  <2>1. w \in Occupied /\ Occupied' = Occupied \ {w}
    BY <1>2, <1>5 DEF Occupied, Busy
  <2>2. CASE verdict = "failed"
    <3>1. Failed' = Failed \cup {o.test}
      <4>1. o.test \in Tests /\ outcome'[o.test] = "failed"
        BY <1>1, <1>3, <2>2
      <4>2. \A t \in Tests \ {o.test} : outcome'[t] = outcome[t]
        BY <1>3
      <4> QED
        BY <4>1, <4>2 DEF Failed
    <3> QED
      BY <1>4, <2>1, <2>2, <3>1, CountFails DEF SuiteInv
  <2>3. CASE verdict # "failed"
    <3>1. Failed' = Failed
      BY <1>1, <1>3, <2>3 DEF Failed
    <3>2. fail_fast' = fail_fast
      BY <2>3 DEF SuiteInv, SuiteTypes
    <3>3. Occupied' \subseteq Occupied
      BY <2>1
    <3> QED
      BY <1>4, <3>1, <3>2, <3>3, CountStays DEF SuiteInv
  <2> QED
    BY <2>2, <2>3
<1> QED
  BY <1>6, <1>7, <1>8, <1>9, <1>10 DEF SuiteInv

LEMMA SameJob ==
    ASSUME NEW j, JobInv(j), opts' = opts, dirs' = dirs, unmet' = unmet, tried' = tried
    PROVE  JobInv(j)'
<1>1. JobShape(j)' /\ JobMet(j)'
  BY DEF JobInv, JobShape, JobMet
<1>2. JobSearch(j)'
  BY DEF JobInv, JobSearch, Bounds
<1>3. JobDirs(j)'
  BY DEF JobInv, JobDirs, FirstDirStays, FirstDir, WorkdirOf
<1> QED
  BY <1>1, <1>2, <1>3 DEF JobInv

\* Only the report is written, if anything.
LEMMA Stays ==
    ASSUME SuiteInv, report' \in {"none", "ok", "failed", "error"},
           UNCHANGED <<opts, pending, worker, dirs, fail_fast, outcome, history>>
    PROVE  SuiteInv'
<1>1. /\ opts' = opts /\ pending' = pending /\ worker' = worker /\ dirs' = dirs
      /\ fail_fast' = fail_fast /\ outcome' = outcome /\ unmet' = unmet /\ tried' = tried
      /\ minimized' = minimized
  BY DEF history
<1>2. SuiteTypes' /\ OneEach'
  BY <1>1 DEF SuiteInv, SuiteTypes, OneEach, Busy
<1>3. JobsInv'
  BY <1>1, SameJob DEF SuiteInv, JobsInv, Busy
<1>4. TestsInv'
  BY <1>1 DEF SuiteInv, TestsInv, OkMeansEveryExitMet, MinimizedIsBoundary, FirstDirStays,
              FirstDir, WorkdirOf
<1>5. FewFail'
  BY <1>1, CountStays DEF SuiteInv, Failed, Occupied, Busy
<1> QED
  BY <1>2, <1>3, <1>4, <1>5 DEF SuiteInv

\* What a step of no worker leaves.
LEMMA SameJobs ==
    ASSUME SuiteInv, UNCHANGED <<opts, worker, dirs, history>>
    PROVE  /\ JobsInv'
           /\ \A t \in Tests : FirstDirStays(t)' <=> FirstDirStays(t)
           /\ MinimizedIsBoundary'
           /\ unmet' = unmet
<1>1. /\ opts' = opts /\ worker' = worker /\ dirs' = dirs
      /\ unmet' = unmet /\ tried' = tried /\ minimized' = minimized
  BY DEF history
<1>2. JobsInv'
  BY <1>1, SameJob DEF SuiteInv, JobsInv, Busy
<1> QED
  BY <1>1, <1>2 DEF SuiteInv, TestsInv, MinimizedIsBoundary, FirstDirStays, FirstDir, WorkdirOf

\* A test that waits is given up.
LEMMA Skips ==
    ASSUME SuiteInv, NEW t \in pending, NEW verdict \in {"error", "not run"},
           pending' = pending \ {t}, outcome' = [outcome EXCEPT ![t] = verdict],
           UNCHANGED <<opts, worker, dirs, fail_fast, report, history>>
    PROVE  SuiteInv'
<1>1. /\ opts' = opts /\ worker' = worker /\ dirs' = dirs /\ fail_fast' = fail_fast
      /\ report' = report /\ unmet' = unmet /\ tried' = tried /\ minimized' = minimized
      /\ t \in Tests /\ outcome[t] = "none"
  BY DEF history, SuiteInv, SuiteTypes, TestsInv
<1>2. /\ outcome' \in [Tests -> {"none", "ok", "skipped", "failed", "error", "not run"}]
      /\ outcome'[t] = verdict /\ \A u \in Tests \ {t} : outcome'[u] = outcome[u]
  BY <1>1 DEF SuiteInv, SuiteTypes
<1>3. SuiteTypes'
  BY <1>1, <1>2 DEF SuiteInv, SuiteTypes
<1>4. OneEach'
  <2>1. \A w \in Workers : Busy(w) =>
          /\ worker[w].test \in Tests \ pending /\ worker[w].test # t
          /\ outcome[worker[w].test] = "none"
    BY DEF SuiteInv, OneEach
  <2>2. \A w \in Workers : Busy(w)' <=> Busy(w)
    BY <1>1 DEF Busy
  <2>3. \A w \in Workers : Busy(w) =>
          worker[w].test \in Tests \ pending' /\ outcome'[worker[w].test] = "none"
    BY <1>2, <2>1
  <2>4. \A v, w \in Workers : Busy(v) /\ Busy(w) /\ worker[v].test = worker[w].test => v = w
    BY DEF SuiteInv, OneEach
  <2> QED
    BY <1>1, <2>2, <2>3, <2>4 DEF OneEach
<1>5. JobsInv' /\ MinimizedIsBoundary' /\ \A u \in Tests : FirstDirStays(u)' <=> FirstDirStays(u)
  BY <1>1, SameJobs
<1>6. TestsInv'
  BY <1>1, <1>2, <1>5 DEF SuiteInv, SuiteTypes, TestsInv, OkMeansEveryExitMet
<1>7. FewFail'
  <2>1. Failed' = Failed /\ Occupied' = Occupied
    BY <1>1, <1>2 DEF Failed, Occupied, Busy
  <2> QED
    BY <1>1, <2>1, CountStays DEF SuiteInv
<1> QED
  BY <1>3, <1>4, <1>5, <1>6, <1>7 DEF SuiteInv

LEMMA Step_drop ==
    ASSUME SuiteInv, NEW w \in Workers, NEW t \in Tests, drop(w, t) PROVE SuiteInv'
BY Skips DEF drop

\* Under --fail-fast a test starts only while none has failed.
LEMMA Step_start ==
    ASSUME SuiteInv, NEW w \in Workers, NEW t \in Tests, start(w, t) PROVE SuiteInv'
<1> DEFINE j == [Free EXCEPT !.pc = "begin", !.test = t, !.upto = Len(PlanOf[t])]
<1>1. /\ worker[w].pc = "idle" /\ t \in pending /\ Scheduled /\ pending' = pending \ {t}
      /\ UNCHANGED <<opts, dirs, fail_fast, report, history>>
  BY DEF start
<1>2. CASE outcome' = [outcome EXCEPT ![t] = "error"] /\ UNCHANGED worker
  BY <1>1, <1>2, Skips
<1>3. CASE worker' = [worker EXCEPT ![w] = j] /\ UNCHANGED outcome
  <2>1. /\ j \in Job /\ j.pc = "begin" /\ j.test = t /\ j.upto = Len(PlanOf[t]) /\ j.run = 0
        /\ j.best = 0
    BY PlansAreTyped, FreeIsJob DEF Job
  <2>2. /\ opts' = opts /\ dirs' = dirs /\ fail_fast' = fail_fast /\ report' = report
        /\ unmet' = unmet /\ tried' = tried /\ minimized' = minimized /\ outcome' = outcome
    BY <1>1, <1>3 DEF history
  <2> HIDE DEF j
  <2>3. /\ worker' \in [Workers -> Job] /\ worker'[w] = j
        /\ \A v \in Workers \ {w} : worker'[v] = worker[v]
    BY <1>3, <2>1 DEF SuiteInv, SuiteTypes
  <2>4. /\ outcome[t] = "none" /\ t \notin unmet
        /\ \A v \in Workers : Busy(v) => worker[v].test # t
    BY <1>1 DEF SuiteInv, TestsInv, OneEach
  <2>5. Only(j)
    BY <2>2 DEF Only
  <2>6. SuiteTypes'
    BY <1>1, <2>2, <2>3 DEF SuiteInv, SuiteTypes
  <2>7. OneEach'
    <3>1. \A v \in Workers : Busy(v)' =>
            \/ v = w /\ worker'[v].test = t
            \/ v # w /\ Busy(v) /\ worker'[v].test = worker[v].test
      BY <2>1, <2>3 DEF Busy
    <3> QED
      BY <1>1, <2>2, <2>4, <3>1 DEF SuiteInv, OneEach
  <2>8. JobsInv'
    <3> SUFFICES ASSUME NEW v \in Workers, Busy(v)', NEW k \in {worker'[v]} PROVE JobInv(k)'
      BY DEF JobsInv
    <3>1. CASE v = w
      <4>1. k = j
        BY <2>3, <3>1
      <4>2. JobShape(k)'
        BY <2>1, <4>1, PlansAreTyped DEF JobShape
      <4>3. JobSearch(k)' /\ JobMet(k)' /\ JobDirs(k)'
        <5>1. k.run # TriageRuns + 1 /\ k.run = 0 /\ k.test = t /\ k.pc = "begin"
          BY <2>1, <4>1, SuiteAssumption
        <5> QED
          BY <2>2, <2>4, <5>1 DEF JobSearch, JobMet, JobDirs
      <4> QED
        BY <4>2, <4>3 DEF JobInv
    <3>2. CASE v # w
      <4>1. k = worker[v] /\ Busy(v) /\ k.test # j.test
        BY <2>1, <2>3, <2>4, <3>2 DEF Busy
      <4>2. JobInv(k)
        BY <4>1 DEF SuiteInv, JobsInv
      <4> QED
        BY <2>1, <2>5, <4>1, <4>2, OthersKeep
    <3> QED
      BY <3>1, <3>2
  <2>9. TestsInv'
    BY <1>1, <2>2 DEF SuiteInv, SuiteTypes, TestsInv, OkMeansEveryExitMet, MinimizedIsBoundary,
                      FirstDirStays, FirstDir, WorkdirOf
  <2>10. FewFail'
    <3>1. opts.fail_fast => Failed = {} /\ Failed' = Failed
      BY <1>1, <2>2 DEF Scheduled, SuiteInv, FewFail, Failed
    <3>2. /\ Cardinality(Occupied') <= Cardinality(Workers) /\ Cardinality(Workers) \in Nat
          /\ Cardinality(Occupied') \in Nat
      <4>1. Occupied' \subseteq Workers
        BY DEF Occupied
      <4> QED
        BY <4>1, SuiteAssumption, FS_Subset, FS_CardinalityType
    <3>3. opts.fail_fast => Cardinality(Failed') = 0
      BY <3>1, FS_EmptySet
    <3> QED
      BY <2>2, <3>1, <3>2, <3>3 DEF FewFail
  <2> QED
    BY <2>6, <2>7, <2>8, <2>9, <2>10 DEF SuiteInv
<1> QED
  BY <1>2, <1>3 DEF start

-----------------------------------------------------------------------------
(* The steps of a run                                                      *)

LEMMA Step_begin_plan ==
    ASSUME SuiteInv, NEW w \in Workers, begin_plan(w) PROVE SuiteInv'
<1>1. PICK o \in Job : o = worker[w]
  BY DEF SuiteInv, SuiteTypes
<1> DEFINE j == [o EXCEPT !.pc = "steps", !.at = 1, !.status = "ok",
                          !.expect = default_exit_zero, !.exit = None]
<1>2. /\ Busy(w) /\ worker' = [worker EXCEPT ![w] = j]
      /\ dirs' = dirs \cup {<<WorkdirOf(o), o.test>>}
      /\ UNCHANGED <<pending, fail_fast, outcome, report, minimized>>
      /\ opts' = opts /\ unmet' = unmet /\ tried' = tried
  BY <1>1 DEF begin_plan, Busy, history, SuiteInv, SuiteTypes
<1>3. /\ j \in Job /\ j.pc = "steps" /\ j.test = o.test /\ j.run = o.run /\ j.upto = o.upto
      /\ j.low = o.low /\ j.high = o.high /\ j.best = o.best /\ j.at = 1
      /\ j.expect = default_exit_zero
  <2> DEFINE expect == default_exit_zero
  <2>1. expect \in Expectation /\ None \in ExitCodes \cup {None} /\ 1 \in Nat \ {0}
    BY FreeIsJob
  <2>2. j = [o EXCEPT !.pc = "steps", !.at = 1, !.status = "ok", !.expect = expect, !.exit = None]
    OBVIOUS
  <2> HIDE DEF expect, j
  <2>3. j \in Job
    BY <2>1, <2>2 DEF Job
  <2>4. /\ j.pc = "steps" /\ j.test = o.test /\ j.run = o.run /\ j.upto = o.upto
        /\ j.low = o.low /\ j.high = o.high /\ j.best = o.best /\ j.at = 1
        /\ j.expect = expect
    BY <2>2 DEF Job
  <2> QED
    BY <2>3, <2>4 DEF expect
<1> HIDE DEF j
<1>4. JobInv(o) /\ o.test \in Tests /\ o.pc = "begin"
  BY <1>1, <1>2, TheJob DEF begin_plan
<1>5. Only(o) /\ Written'
  <2>1. \A d \in dirs' : d[2] \in Tests
    <3>1. <<WorkdirOf(o), o.test>>[2] = o.test
      OBVIOUS
    <3>2. \A d \in dirs : d[2] \in Tests
      BY DEF SuiteInv, SuiteTypes
    <3> QED
      BY <1>2, <1>4, <3>1, <3>2
  <2> QED
    BY <1>2, <2>1 DEF Only, Written, SuiteInv, SuiteTypes
<1>6. WorkdirOf(j) = WorkdirOf(o) /\ WorkdirOf(j)' = WorkdirOf(j)
  BY <1>2, <1>3 DEF WorkdirOf
<1>7. JobInv(j)'
  <2>1. JobShape(j)'
    <3>1. j.expect = Stated(PlanOf[j.test], j.at)
      BY <1>3, StatedFirst
    <3>2. j.at <= j.upto + 1
      BY <1>3 DEF Job
    <3> QED
      BY <1>2, <1>3, <1>4, <3>1, <3>2 DEF JobInv, JobShape
  <2>2. JobSearch(j)'
    BY <1>2, <1>3, <1>4 DEF JobInv, JobSearch, Bounds
  <2>3. JobMet(j)'
    BY <1>2, <1>3, <1>4 DEF JobInv, JobMet
  <2>4. JobDirs(j)'
    <3>1. FirstDirStays(o.test) => FirstDirStays(j.test)'
      BY <1>2, <1>3 DEF FirstDirStays, FirstDir, WorkdirOf
    <3> QED
      BY <1>2, <1>3, <1>4, <1>6, <3>1 DEF JobInv, JobDirs
  <2> QED
    BY <2>1, <2>2, <2>3, <2>4 DEF JobInv
<1> QED
  BY <1>1, <1>2, <1>3, <1>5, <1>7, Works

\* The loop goes on with the expectation stated for the next step.
LEMMA LoopGoesOn ==
    ASSUME SuiteInv, NEW w \in Workers, NEW o \in Job, o = worker[w],
           o.pc = "steps", o.at <= o.upto,
           NEW expect \in Expectation, expect = Stated(PlanOf[o.test], o.at + 1),
           NEW exit \in ExitCodes \cup {None}, NEW j,
           j = [o EXCEPT !.at = o.at + 1, !.expect = expect, !.exit = exit],
           worker' = [worker EXCEPT ![w] = j],
           UNCHANGED <<opts, pending, dirs, fail_fast, outcome, report, history>>
    PROVE  SuiteInv'
<1>1. o.at + 1 \in Nat \ {0} /\ o.upto \in Nat /\ o.at \in Nat
  BY DEF Job
<1>2. /\ j \in Job /\ j.pc = "steps" /\ j.test = o.test /\ j.run = o.run /\ j.upto = o.upto
      /\ j.low = o.low /\ j.high = o.high /\ j.best = o.best /\ j.at = o.at + 1
      /\ j.expect = expect
  BY <1>1 DEF Job
<1>3. /\ opts' = opts /\ dirs' = dirs /\ unmet' = unmet /\ tried' = tried
      /\ UNCHANGED <<pending, fail_fast, outcome, report, minimized>>
  BY DEF history
<1>4. Busy(w) /\ JobInv(o) /\ o.test \in Tests
  BY TheJob DEF Busy
<1>5. Only(o) /\ Written'
  BY <1>3 DEF Only, Written, SuiteInv, SuiteTypes
<1>6. JobInv(j)'
  <2>1. JobShape(j)'
    BY <1>1, <1>2, <1>3, <1>4 DEF JobInv, JobShape
  <2>2. JobSearch(j)' /\ JobMet(j)'
    BY <1>2, <1>3, <1>4 DEF JobInv, JobSearch, Bounds, JobMet
  <2>3. JobDirs(j)'
    BY <1>2, <1>3, <1>4 DEF JobInv, JobDirs, FirstDirStays, FirstDir, WorkdirOf
  <2> QED
    BY <2>1, <2>2, <2>3 DEF JobInv
<1> QED
  BY <1>2, <1>3, <1>4, <1>5, <1>6, Works

\* The loop breaks; a command that is not met breaks it as failed.
LEMMA LoopBreaks ==
    ASSUME SuiteInv, NEW w \in Workers, NEW o \in Job, o = worker[w],
           o.pc = "steps", NEW status \in {"failed", "skipped"}, Break(w, status),
           unmet' = unmet \/ (status = "failed" /\ unmet' = unmet \cup {o.test}),
           UNCHANGED <<opts, pending, dirs, fail_fast, outcome, report, tried, minimized>>
    PROVE  SuiteInv'
<1> DEFINE j == [o EXCEPT !.pc = "ended", !.status = status]
<1>1. worker' = [worker EXCEPT ![w] = j]
  BY DEF Break, SuiteInv, SuiteTypes
<1>2. /\ j \in Job /\ j.pc = "ended" /\ j.test = o.test /\ j.run = o.run /\ j.upto = o.upto
      /\ j.low = o.low /\ j.high = o.high /\ j.best = o.best /\ j.status = status
  BY DEF Job
<1> HIDE DEF j
<1>3. /\ opts' = opts /\ dirs' = dirs /\ tried' = tried
      /\ UNCHANGED <<pending, fail_fast, outcome, report, minimized>>
  OBVIOUS
<1>4. Busy(w) /\ JobInv(o) /\ o.test \in Tests
  BY TheJob DEF Busy
<1>5. Only(o) /\ Written'
  BY <1>3 DEF Only, Written, SuiteInv, SuiteTypes
<1>6. JobInv(j)'
  <2>1. JobShape(j)' /\ JobSearch(j)'
    BY <1>2, <1>3, <1>4 DEF JobInv, JobShape, JobSearch, Bounds
  <2>2. JobMet(j)'
    BY <1>2, <1>4 DEF JobInv, JobMet
  <2>3. JobDirs(j)'
    BY <1>2, <1>3, <1>4 DEF JobInv, JobDirs, FirstDirStays, FirstDir, WorkdirOf
  <2> QED
    BY <2>1, <2>2, <2>3 DEF JobInv
<1> QED
  BY <1>1, <1>2, <1>3, <1>4, <1>5, <1>6, Works

\* An Err gives the test up without a verdict.
LEMMA LoopErrs ==
    ASSUME SuiteInv, NEW w \in Workers, Busy(w), Err(w),
           UNCHANGED <<opts, pending, dirs, fail_fast, report, history>>
    PROVE  SuiteInv'
<1>1. PICK o \in Job : o = worker[w]
  BY DEF SuiteInv, SuiteTypes
<1>2. o.test \in Tests
  BY <1>1, TheJob
<1>3. PICK n \in Nat : n = minimized[o.test]
  BY <1>2 DEF SuiteInv, SuiteTypes
<1>4. /\ worker' = [worker EXCEPT ![w] = Free] /\ outcome' = [outcome EXCEPT ![o.test] = "error"]
      /\ minimized' = minimized
  BY <1>1 DEF Err, history
<1>5. minimized' = [minimized EXCEPT ![o.test] = n]
  BY <1>3, <1>4 DEF SuiteInv, SuiteTypes
<1>6. /\ n <= Len(PlanOf[o.test])
      /\ n > 0 => /\ <<o.test, n, FALSE>> \in tried
                  /\ n > 1 => <<o.test, n - 1, TRUE>> \in tried
  BY <1>2, <1>3 DEF SuiteInv, SuiteTypes, TestsInv, MinimizedIsBoundary
<1>7. Only(o) /\ Written' /\ tried' = tried /\ UNCHANGED <<pending, report>>
  BY DEF Only, Written, SuiteInv, SuiteTypes, history
<1>8. fail_fast' = (fail_fast \/ ("error" = "failed" /\ opts.fail_fast))
  BY DEF SuiteInv, SuiteTypes
<1> DEFINE verdict == "error"
<1>9. /\ verdict \in {"ok", "skipped", "failed", "error"}
      /\ verdict # "ok" /\ verdict # "failed"
  OBVIOUS
<1> HIDE DEF verdict
<1> QED
  BY <1>1, <1>4, <1>5, <1>6, <1>7, <1>8, <1>9, Leaves DEF verdict

\* The step a worker is at, and the expectation stated for it.
LEMMA AtStepIs ==
    ASSUME SuiteInv, NEW w \in Workers, NEW o \in Job, o = worker[w], NEW kind, AtStep(w, kind)
    PROVE  /\ Busy(w) /\ o.pc = "steps" /\ o.at <= o.upto /\ o.at \in Nat \ {0}
           /\ o.test \in Tests /\ StepOf(w) = PlanOf[o.test][o.at]
           /\ StepOf(w) \in Step /\ StepOf(w).kind = kind
           /\ o.expect = Stated(PlanOf[o.test], o.at)
           /\ o.expect \in Expectation /\ o.exit \in ExitCodes \cup {None}
<1>1. Busy(w) /\ o.pc = "steps" /\ o.at <= o.upto /\ StepOf(w).kind = kind
  BY DEF AtStep, StepOf, Busy
<1>2. JobInv(o) /\ o.test \in Tests
  BY <1>1, TheJob
<1>3. /\ o.at \in Nat \ {0} /\ o.upto \in Nat
      /\ o.expect \in Expectation /\ o.exit \in ExitCodes \cup {None}
  BY DEF Job
<1>4. o.upto <= Len(PlanOf[o.test]) /\ o.expect = Stated(PlanOf[o.test], o.at)
  BY <1>1, <1>2 DEF JobInv, JobShape
<1>5. o.at \in 1..Len(PlanOf[o.test])
  BY <1>1, <1>2, <1>3, <1>4, PlansAreTyped
<1> QED
  BY <1>1, <1>2, <1>3, <1>4, <1>5, PlansAreTyped DEF StepOf

LEMMA OneStep ==
    ASSUME NEW o \in Job, NEW expect, NEW exit
    PROVE  /\ [[o EXCEPT !.exit = exit, !.expect = expect] EXCEPT !.at = @ + 1] =
                [o EXCEPT !.at = o.at + 1, !.expect = expect, !.exit = exit]
           /\ [[o EXCEPT !.expect = expect] EXCEPT !.at = @ + 1] =
                [o EXCEPT !.at = o.at + 1, !.expect = expect, !.exit = o.exit]
           /\ [o EXCEPT !.at = @ + 1] =
                [o EXCEPT !.at = o.at + 1, !.expect = o.expect, !.exit = o.exit]
BY DEF Job

LEMMA Step_command ==
    ASSUME SuiteInv, NEW w \in Workers, command(w) PROVE SuiteInv'
<1>1. PICK o \in Job : o = worker[w]
  BY DEF SuiteInv, SuiteTypes
<1>2. /\ AtStep(w, "command")
      /\ UNCHANGED <<opts, pending, dirs, fail_fast, report, tried, minimized>>
  BY DEF command
<1>3. /\ Busy(w) /\ o.pc = "steps" /\ o.at <= o.upto /\ o.at \in Nat \ {0}
      /\ PlanOf[o.test][o.at].kind = "command" /\ o.expect = Stated(PlanOf[o.test], o.at)
  BY <1>1, <1>2, AtStepIs
<1>4. CASE Err(w) /\ UNCHANGED unmet
  BY <1>2, <1>3, <1>4, LoopErrs DEF history
<1>5. ASSUME NEW exit \in ExitCodes \cup {None}, outcome' = outcome,
             Expected(o.expect, exit),
             GoOn(w, [o EXCEPT !.exit = exit, !.expect = ExpectNext(o)]),
             unmet' = unmet
      PROVE  SuiteInv'
  <2> DEFINE expect == default_exit_zero
             j == [o EXCEPT !.at = o.at + 1, !.expect = expect, !.exit = exit]
  <2>1. expect \in Expectation /\ expect = Stated(PlanOf[o.test], o.at + 1)
    BY <1>3, FreeIsJob, StatedAfterCommand
  <2>2. worker' = [worker EXCEPT ![w] = j]
    <3> DEFINE k == [o EXCEPT !.exit = exit, !.expect = expect]
    <3>1. GoOn(w, k)
      BY <1>5 DEF ExpectNext
    <3> HIDE DEF expect
    <3>2. [k EXCEPT !.at = @ + 1] = j
      BY DEF Job
    <3> HIDE DEF k, j
    <3> QED
      BY <3>1, <3>2 DEF GoOn
  <2> HIDE DEF expect
  <2> QED
    BY <1>1, <1>2, <1>3, <1>5, <2>1, <2>2, LoopGoesOn DEF history
<1>6. ASSUME outcome' = outcome, Break(w, "failed"),
             unmet' = unmet \/ unmet' = unmet \cup {o.test}
      PROVE  SuiteInv'
  <2> DEFINE status == "failed"
  <2>1. status \in {"failed", "skipped"} /\ Break(w, status) /\ status = "failed"
    BY <1>6
  <2> HIDE DEF status
  <2> QED
    BY <1>1, <1>2, <1>3, <1>6, <2>1, LoopBreaks
<1>7. CASE ~(Err(w) /\ UNCHANGED unmet)
  <2>1. PICK exit \in ExitCodes \cup {None} :
          /\ IF Expected(o.expect, exit)
             THEN GoOn(w, [o EXCEPT !.exit = exit, !.expect = ExpectNext(o)])
             ELSE Break(w, "failed")
          /\ unmet' = IF o.run > 0 \/ Expected(Stated(PlanOf[o.test], o.at), exit)
                      THEN unmet ELSE unmet \cup {o.test}
          /\ UNCHANGED outcome
    BY <1>1, <1>7 DEF command
  <2> QED
    BY <1>3, <1>5, <1>6, <2>1
<1> QED
  BY <1>4, <1>7

LEMMA Step_unstartable ==
    ASSUME SuiteInv, NEW w \in Workers, unstartable(w) PROVE SuiteInv'
BY LoopErrs DEF unstartable, AtStep, Busy

LEMMA Step_directive ==
    ASSUME SuiteInv, NEW w \in Workers, directive(w) PROVE SuiteInv'
<1>1. PICK o \in Job : o = worker[w]
  BY DEF SuiteInv, SuiteTypes
<1>2. /\ UNCHANGED <<opts, pending, dirs, fail_fast, outcome, report, history>>
      /\ unmet' = unmet /\ UNCHANGED <<tried, minimized>>
  BY DEF directive, history
<1>3. ASSUME NEW kind \in {"directive", "assert"}, AtStep(w, kind), GoOn(w, o) PROVE SuiteInv'
  <2>1. /\ o.pc = "steps" /\ o.at <= o.upto /\ o.at \in Nat \ {0}
        /\ PlanOf[o.test][o.at].kind = kind /\ o.expect = Stated(PlanOf[o.test], o.at)
        /\ o.expect \in Expectation /\ o.exit \in ExitCodes \cup {None}
    BY <1>1, <1>3, AtStepIs
  <2>2. o.expect = Stated(PlanOf[o.test], o.at + 1)
    BY <2>1, StatedGoesOn
  <2>3. worker' = [worker EXCEPT
                     ![w] = [o EXCEPT !.at = o.at + 1, !.expect = o.expect, !.exit = o.exit]]
    BY <1>3, OneStep DEF GoOn
  <2> QED
    BY <1>1, <1>2, <2>1, <2>2, <2>3, LoopGoesOn
<1>4. ASSUME AtStep(w, "expect"), GoOn(w, [o EXCEPT !.expect = StepOf(w).expect])
      PROVE  SuiteInv'
  <2>1. /\ o.pc = "steps" /\ o.at <= o.upto /\ o.at \in Nat \ {0}
        /\ PlanOf[o.test][o.at].kind = "expect" /\ PlanOf[o.test][o.at] \in Step
        /\ StepOf(w) = PlanOf[o.test][o.at]
        /\ o.exit \in ExitCodes \cup {None}
    BY <1>1, <1>4, AtStepIs
  <2>2. PICK expect \in Expectation : expect = PlanOf[o.test][o.at].expect
    BY <2>1 DEF Step
  <2>3. expect = Stated(PlanOf[o.test], o.at + 1)
    BY <2>1, <2>2, StatedAfterExpect
  <2>4. worker' = [worker EXCEPT
                     ![w] = [o EXCEPT !.at = o.at + 1, !.expect = expect, !.exit = o.exit]]
    <3> DEFINE k == [o EXCEPT !.expect = expect]
               j == [o EXCEPT !.at = o.at + 1, !.expect = expect, !.exit = o.exit]
    <3>1. GoOn(w, k)
      BY <1>4, <2>1, <2>2
    <3>2. [k EXCEPT !.at = @ + 1] = j
      BY OneStep
    <3> HIDE DEF k, j
    <3>3. worker' = [worker EXCEPT ![w] = j]
      BY <3>1, <3>2 DEF GoOn
    <3> QED
      BY <3>3 DEF j
  <2> QED
    BY <1>1, <1>2, <2>1, <2>3, <2>4, LoopGoesOn
<1>5. ASSUME NEW kind, AtStep(w, kind), NEW status \in {"failed", "skipped"}, Break(w, status)
      PROVE  SuiteInv'
  <2>1. o.pc = "steps"
    BY <1>1, <1>5, AtStepIs
  <2> QED
    BY <1>1, <1>2, <1>5, <2>1, LoopBreaks
<1> QED
  BY <1>1, <1>3, <1>4, <1>5 DEF directive

-----------------------------------------------------------------------------
(* The end of a run                                                        *)

LEMMA Middle ==
    ASSUME NEW low \in Nat, NEW high \in Nat, low <= high
    PROVE  (low + high) \div 2 \in Nat /\ low <= (low + high) \div 2 /\ (low + high) \div 2 <= high
OBVIOUS

\* The search runs the middle, or is done: low - 1 passed and best failed.
LEMMA Searches ==
    ASSUME SuiteInv, NEW w \in Workers, Busy(w), NEW o, o = worker[w], Only(o), Written',
           UNCHANGED <<pending, report>>, opts.triage_flakes, FirstDirStays(o.test)',
           NEW s \in Job, s.test = o.test, s.run = TriageRuns + 1, Bounds(s)', Search(w, s)
    PROVE  SuiteInv'
<1>1. opts' = opts /\ unmet' \subseteq unmet \cup {o.test} /\ o.test \in Tests
  BY TheJob DEF Only
<1>2. s.low \in Nat /\ s.high \in Nat /\ s.best \in Nat /\ Len(PlanOf[o.test]) \in Nat
  BY <1>1, PlansAreTyped DEF Job
<1>3. /\ 1 <= s.low /\ s.low <= s.high + 1 /\ s.high <= Len(PlanOf[o.test])
      /\ s.low > 1 => <<o.test, s.low - 1, TRUE>> \in tried'
      /\ s.best > 0 => <<o.test, s.best, FALSE>> \in tried' /\ s.high = s.best - 1
  BY DEF Bounds
<1>4. CASE s.low <= s.high
  <2> DEFINE mid == Mid(s)
             k == [s EXCEPT !.upto = mid]
             j == [k EXCEPT !.pc = "begin"]
  <2>1. mid \in Nat /\ s.low <= mid /\ mid <= s.high
    BY <1>2, <1>4, Middle DEF Mid
  <2>2. /\ worker' = [worker EXCEPT ![w] = j]
        /\ UNCHANGED <<outcome, fail_fast, minimized>>
    BY <1>4 DEF Search, Rerun
  <2> HIDE DEF mid
  <2>3. k \in Job
    BY <2>1 DEF Job
  <2>4. /\ j \in Job /\ j.pc = "begin" /\ j.test = o.test /\ j.run = TriageRuns + 1
        /\ j.upto = mid /\ j.low = s.low /\ j.high = s.high /\ j.best = s.best
    BY <2>3 DEF Job
  <2> HIDE DEF j
  <2>5. j.run > 0 /\ j.run # 0 /\ ~(j.run <= TriageRuns)
    BY <2>4, SuiteAssumption
  <2>6. JobShape(j)'
    BY <1>1, <1>2, <1>3, <2>1, <2>4, <2>5 DEF JobShape
  <2>7. JobSearch(j)'
    BY <1>3, <2>1, <2>4 DEF JobSearch, Bounds
  <2>8. JobMet(j)' /\ JobDirs(j)'
    <3>1. FirstDirStays(o.test)' => FirstDirStays(j.test)'
      BY <2>4 DEF FirstDirStays, FirstDir, WorkdirOf
    <3> QED
      BY <2>4, <2>5, <3>1 DEF JobMet, JobDirs
  <2>9. JobInv(j)'
    BY <2>6, <2>7, <2>8 DEF JobInv
  <2> QED
    BY <2>2, <2>4, <2>9, Works
<1>5. CASE ~(s.low <= s.high)
  <2> DEFINE verdict == "failed"
             n == s.best
  <2>1. /\ worker' = [worker EXCEPT ![w] = Free]
        /\ outcome' = [outcome EXCEPT ![o.test] = verdict]
        /\ minimized' = [minimized EXCEPT ![o.test] = n]
        /\ fail_fast' = (fail_fast \/ (verdict = "failed" /\ opts.fail_fast))
    BY <1>5 DEF Search, Finish
  <2>2. n > 0 => /\ <<o.test, n, FALSE>> \in tried'
                 /\ n > 1 => <<o.test, n - 1, TRUE>> \in tried'
    <3>1. n > 0 => s.low = n
      BY <1>2, <1>3, <1>5
    <3> QED
      BY <1>2, <1>3, <3>1
  <2>3. n \in Nat /\ n <= Len(PlanOf[o.test])
    <3>1. <<o.test, n, FALSE>>[1] = o.test /\ <<o.test, n, FALSE>>[2] = n
      OBVIOUS
    <3>2. n > 0 => n <= Len(PlanOf[o.test])
      BY <1>3, <3>1 DEF Written
    <3> QED
      BY <1>2, <3>2
  <2>4. verdict \in {"ok", "skipped", "failed", "error"} /\ verdict # "ok"
    OBVIOUS
  <2> HIDE DEF verdict, n
  <2> QED
    BY <2>1, <2>2, <2>3, <2>4, Leaves
<1> QED
  BY <1>4, <1>5

LEMMA Step_end_plan ==
    ASSUME SuiteInv, NEW w \in Workers, end_plan(w) PROVE SuiteInv'
<1>1. PICK o \in Job : o = worker[w]
  BY DEF SuiteInv, SuiteTypes
<1> DEFINE e == IF o.pc = "ended" THEN o ELSE [o EXCEPT !.status = "ok"]
           t == o.test
<1>2. /\ o.pc \in {"steps", "ended"}
      /\ dirs' = IF CleansUp(e) THEN {x \in dirs : x[1] # WorkdirOf(o)} ELSE dirs
      /\ tried' = IF o.run = 0 THEN tried
                  ELSE tried \cup {<<t, o.upto, e.status # "failed">>}
      /\ opts' = opts /\ pending' = pending /\ report' = report /\ unmet' = unmet
      /\ \/ /\ o.run = 0 /\ ~(e.status = "failed" /\ opts.triage_flakes)
            /\ Finish(w, e, e.status)
         \/ /\ o.run < TriageRuns
            /\ o.run > 0 \/ (e.status = "failed" /\ opts.triage_flakes)
            /\ Rerun(w, [e EXCEPT !.run = o.run + 1])
         \/ /\ o.run = TriageRuns
            /\ o.run > 0 \/ (e.status = "failed" /\ opts.triage_flakes)
            /\ \/ Finish(w, e, "failed")
               \/ Search(w, FirstSearch(e))
         \/ /\ o.run = TriageRuns + 1
            /\ Search(w, NextSearch(e))
  BY <1>1 DEF end_plan
<1>3. /\ Busy(w) /\ JobInv(o) /\ t \in Tests
  BY <1>1, <1>2, TheJob DEF Busy
<1>4. /\ e \in Job /\ e.pc = o.pc /\ e.test = t /\ e.run = o.run /\ e.upto = o.upto
      /\ e.low = o.low /\ e.high = o.high /\ e.best = o.best
      /\ e.status \in {"ok", "failed", "skipped"}
      /\ e.status = "failed" <=> (o.pc = "ended" /\ o.status = "failed")
  BY DEF Job
<1> HIDE DEF e
<1>5. /\ o.run \in Nat /\ o.upto \in Nat /\ o.low \in Nat /\ o.high \in Nat /\ o.best \in Nat
      /\ o.run <= TriageRuns + 1 /\ TriageRuns \in Nat /\ Len(PlanOf[t]) \in Nat
  BY <1>3, SuiteAssumption, PlansAreTyped DEF Job
<1>6. o.upto <= Len(PlanOf[t])
  BY <1>3 DEF JobInv, JobShape
<1>7. Only(o)
  BY <1>2 DEF Only
<1>8. Written'
  <2>1. \A d \in dirs' : d[2] \in Tests
    BY <1>2 DEF SuiteInv, SuiteTypes
  <2>2. (e.status # "failed") \in BOOLEAN
    OBVIOUS
  <2> DEFINE passed == e.status # "failed"
             new == <<t, o.upto, passed>>
  <2> HIDE DEF passed
  <2>3. new \in Tests \X Nat \X BOOLEAN /\ new[1] = t /\ new[2] = o.upto
    BY <1>3, <1>5, <2>2 DEF passed
  <2>4. tried' \subseteq tried \cup {new}
    BY <1>2 DEF passed
  <2>5. /\ tried \subseteq Tests \X Nat \X BOOLEAN
        /\ \A x \in tried : x[2] <= Len(PlanOf[x[1]])
    BY DEF SuiteInv, SuiteTypes
  <2> HIDE DEF new
  <2> QED
    BY <1>6, <2>1, <2>3, <2>4, <2>5 DEF Written
\* A test that failed, once at least, keeps the workdir of its first run.
<1>9. o.run > 0 \/ e.status = "failed" => FirstDirStays(t)'
  <2>1. CASE o.run = 0 /\ e.status = "failed"
    <3>1. dirs' = dirs
      BY <1>2, <2>1 DEF CleansUp
    <3>2. FirstDir(t) = WorkdirOf(o)
      BY <1>3, <2>1 DEF JobInv, JobShape, FirstDir, WorkdirOf
    <3>3. <<FirstDir(t), t>> \in dirs \/ (opts.workdir /\ SharesStem(t))
      BY <1>2, <1>3, <3>2 DEF JobInv, JobDirs
    <3>4. FirstDir(t)' = FirstDir(t)
      BY <1>2 DEF FirstDir, WorkdirOf
    <3> QED
      BY <1>2, <3>1, <3>3, <3>4 DEF FirstDirStays
  <2>2. CASE o.run > 0
    <3>1. FirstDirStays(t) /\ opts.triage_flakes
      BY <1>3, <2>2 DEF JobInv, JobShape, JobDirs
    <3>2. FirstDir(t)' = FirstDir(t) /\ o.run # 0
      BY <1>2, <1>5, <2>2 DEF FirstDir, WorkdirOf
    <3>3. <<FirstDir(t), t>> \in dirs => <<FirstDir(t), t>> \in dirs' \/ opts.workdir
      BY <1>2, <1>3, <3>2, FirstDirIsOwn
    <3> QED
      BY <1>2, <3>1, <3>2, <3>3 DEF FirstDirStays
  <2> QED
    BY <1>5, <2>1, <2>2
<1>10. o.run > 0 => opts.triage_flakes
  BY <1>3 DEF JobInv, JobShape
<1>11. o.run <= TriageRuns => o.best = 0
  BY <1>3 DEF JobInv, JobShape
\* The verdict of the first run.
<1>12. CASE /\ o.run = 0 /\ ~(e.status = "failed" /\ opts.triage_flakes)
            /\ Finish(w, e, e.status)
  <2>1. /\ worker' = [worker EXCEPT ![w] = Free]
        /\ outcome' = [outcome EXCEPT ![t] = e.status]
        /\ minimized' = [minimized EXCEPT ![t] = e.best]
        /\ fail_fast' = (fail_fast \/ (e.status = "failed" /\ opts.fail_fast))
    BY <1>4, <1>12 DEF Finish
  <2>2. e.best = 0
    BY <1>4, <1>5, <1>11, <1>12
  <2>3. e.status = "ok" => t \notin unmet'
    BY <1>2, <1>3, <1>4, <1>12 DEF JobInv, JobMet
  <2> DEFINE verdict == e.status
             n == e.best
  <2>4. verdict \in {"ok", "skipped", "failed", "error"} /\ n \in Nat /\ n = 0
    BY <1>4, <2>2
  <2> HIDE DEF verdict, n
  <2>5. n <= Len(PlanOf[t]) /\ ~(n > 0)
    BY <1>5, <2>4
  <2> QED
    BY <1>1, <1>2, <1>3, <1>7, <1>8, <1>9, <2>1, <2>3, <2>4, <2>5, Leaves DEF verdict, n
\* A rerun.
<1>13. CASE /\ o.run < TriageRuns
            /\ o.run > 0 \/ (e.status = "failed" /\ opts.triage_flakes)
            /\ Rerun(w, [e EXCEPT !.run = o.run + 1])
  <2> DEFINE run == o.run + 1
             k == [e EXCEPT !.run = run]
             j == [k EXCEPT !.pc = "begin"]
  <2>1. worker' = [worker EXCEPT ![w] = j] /\ UNCHANGED <<outcome, fail_fast, minimized>>
    BY <1>13 DEF Rerun
  <2>2. run \in 0..(TriageRuns + 1) /\ run > 0 /\ run <= TriageRuns /\ run # TriageRuns + 1
        /\ run # 0
    BY <1>5, <1>13
  <2> HIDE DEF run
  <2>3. k \in Job
    BY <1>4, <2>2 DEF Job
  <2>4. /\ j \in Job /\ j.pc = "begin" /\ j.test = t /\ j.run = run /\ j.upto = o.upto
        /\ j.best = o.best
    BY <1>4, <2>3 DEF Job
  <2> HIDE DEF j
  <2>5. JobShape(j)'
    <3>1. opts.triage_flakes /\ o.best = 0
      BY <1>5, <1>10, <1>11, <1>13
    <3> QED
      BY <1>2, <1>3, <1>6, <2>2, <2>4, <3>1 DEF JobShape
  <2>6. JobSearch(j)' /\ JobMet(j)'
    BY <2>2, <2>4 DEF JobSearch, JobMet
  <2>7. JobDirs(j)'
    <3>1. FirstDirStays(t)' => FirstDirStays(j.test)'
      BY <2>4 DEF FirstDirStays, FirstDir, WorkdirOf
    <3> QED
      BY <1>9, <1>13, <2>4, <3>1 DEF JobDirs
  <2>8. JobInv(j)'
    BY <2>5, <2>6, <2>7 DEF JobInv
  <2> QED
    BY <1>1, <1>2, <1>3, <1>7, <1>8, <2>1, <2>4, <2>8, Works
\* The search is pointless, or begins.
<1>14. CASE /\ o.run = TriageRuns
            /\ o.run > 0 \/ (e.status = "failed" /\ opts.triage_flakes)
            /\ Finish(w, e, "failed")
  <2> DEFINE verdict == "failed"
             n == e.best
  <2>1. /\ worker' = [worker EXCEPT ![w] = Free]
        /\ outcome' = [outcome EXCEPT ![t] = verdict]
        /\ minimized' = [minimized EXCEPT ![t] = n]
        /\ fail_fast' = (fail_fast \/ (verdict = "failed" /\ opts.fail_fast))
    BY <1>4, <1>14 DEF Finish
  <2>2. n \in Nat /\ n = 0 /\ verdict # "ok"
        /\ verdict \in {"ok", "skipped", "failed", "error"}
    BY <1>4, <1>5, <1>11, <1>14
  <2> HIDE DEF verdict, n
  <2>3. n <= Len(PlanOf[t]) /\ ~(n > 0)
    BY <1>5, <2>2
  <2> QED
    BY <1>1, <1>2, <1>3, <1>7, <1>8, <1>9, <1>14, <2>1, <2>2, <2>3, Leaves
<1>15. CASE /\ o.run = TriageRuns
            /\ o.run > 0 \/ (e.status = "failed" /\ opts.triage_flakes)
            /\ Search(w, FirstSearch(e))
  <2> DEFINE run == TriageRuns + 1
             high == Len(PlanOf[t])
             s == [e EXCEPT !.run = run, !.low = 1, !.high = high, !.best = 0]
  <2>1. Search(w, s)
    BY <1>4, <1>15 DEF FirstSearch
  <2>2. run \in 0..(TriageRuns + 1) /\ high \in Nat
    BY <1>5
  <2> HIDE DEF run, high
  <2>3. /\ s \in Job /\ s.test = t /\ s.run = run /\ s.low = 1 /\ s.high = high /\ s.best = 0
    BY <1>4, <2>2 DEF Job
  <2> HIDE DEF s
  <2>4. Bounds(s)'
    BY <2>2, <2>3 DEF Bounds, high
  <2>5. s.run = TriageRuns + 1 /\ opts.triage_flakes /\ FirstDirStays(t)'
    BY <1>9, <1>10, <1>15, <2>3 DEF run
  <2> QED
    BY <1>1, <1>2, <1>3, <1>7, <1>8, <2>1, <2>3, <2>4, <2>5, Searches
\* The search goes on.
<1>16. CASE o.run = TriageRuns + 1 /\ Search(w, NextSearch(e))
  <2>1. /\ Bounds(o) /\ o.low <= o.upto /\ o.upto <= o.high
        /\ 1 <= o.low /\ o.high <= Len(PlanOf[t])
    BY <1>3, <1>16 DEF JobInv, JobSearch, Bounds
  <2>2. opts.triage_flakes /\ FirstDirStays(t)' /\ o.run # 0
    BY <1>5, <1>9, <1>10, <1>16
  <2>3. CASE e.status = "failed"
    <3> DEFINE high == o.upto - 1
               s == [e EXCEPT !.best = o.upto, !.high = high]
    <3>1. Search(w, s)
      BY <1>4, <1>16, <2>3 DEF NextSearch
    <3>2. high \in Nat /\ high + 1 = o.upto
      BY <1>5, <2>1
    <3>3. <<t, o.upto, FALSE>> \in tried'
      <4>1. (e.status # "failed") = FALSE
        BY <2>3
      <4> QED
        BY <1>2, <2>2, <4>1
    <3> HIDE DEF high
    <3>4. /\ s \in Job /\ s.test = t /\ s.run = o.run /\ s.low = o.low /\ s.high = high
          /\ s.best = o.upto
      BY <1>4, <1>5, <3>2 DEF Job
    <3> HIDE DEF s
    <3>5. Bounds(s)'
      <4>1. s.low > 1 => <<t, s.low - 1, TRUE>> \in tried'
        BY <1>2, <2>1, <3>4 DEF Bounds
      <4>2. s.low <= s.high + 1 /\ s.high <= Len(PlanOf[t]) /\ s.high = s.best - 1
        BY <1>5, <2>1, <3>2, <3>4
      <4> QED
        BY <2>1, <3>3, <3>4, <4>1, <4>2 DEF Bounds
    <3> QED
      BY <1>1, <1>2, <1>3, <1>7, <1>8, <1>16, <2>2, <3>1, <3>4, <3>5, Searches
  <2>4. CASE e.status # "failed"
    <3> DEFINE low == o.upto + 1
               s == [e EXCEPT !.low = low]
    <3>1. Search(w, s)
      BY <1>4, <1>16, <2>4 DEF NextSearch
    <3>2. low \in Nat /\ low - 1 = o.upto
      BY <1>5
    <3>3. <<t, o.upto, TRUE>> \in tried'
      <4>1. (e.status # "failed") = TRUE
        BY <2>4
      <4> QED
        BY <1>2, <2>2, <4>1
    <3> HIDE DEF low
    <3>4. /\ s \in Job /\ s.test = t /\ s.run = o.run /\ s.low = low /\ s.high = o.high
          /\ s.best = o.best
      BY <1>4, <1>5, <3>2 DEF Job
    <3> HIDE DEF s
    <3>5. Bounds(s)'
      <4>1. s.best > 0 => <<t, s.best, FALSE>> \in tried' /\ s.high = s.best - 1
        BY <1>2, <2>1, <3>4 DEF Bounds
      <4>2. 1 <= s.low /\ s.low <= s.high + 1 /\ s.high <= Len(PlanOf[t])
        BY <1>5, <2>1, <3>2, <3>4
      <4> QED
        BY <3>2, <3>3, <3>4, <4>1, <4>2 DEF Bounds
    <3> QED
      BY <1>1, <1>2, <1>3, <1>7, <1>8, <1>16, <2>2, <3>1, <3>4, <3>5, Searches
  <2> QED
    BY <2>3, <2>4
<1> QED
  BY <1>2, <1>12, <1>13, <1>14, <1>15, <1>16

LEMMA Step_finish_suite == ASSUME SuiteInv, finish_suite PROVE SuiteInv'
<1>1. report' \in {"none", "ok", "failed", "error"}
  BY DEF finish_suite
<1> QED
  BY <1>1, Stays DEF finish_suite

-----------------------------------------------------------------------------
(* The invariant, and the theorems                                         *)

LEMMA InitSuiteInv == Init => SuiteInv
<1> SUFFICES ASSUME Init PROVE SuiteInv
  OBVIOUS
<1>1. /\ opts \in Options /\ pending = Tests /\ worker = [w \in Workers |-> Free]
      /\ dirs = {} /\ fail_fast = FALSE /\ outcome = [t \in Tests |-> "none"]
      /\ report = "none" /\ unmet = {} /\ tried = {} /\ minimized = [t \in Tests |-> 0]
  BY DEF Init
<1>2. \A w \in Workers : ~Busy(w)
  BY <1>1, FreeIsJob DEF Busy
<1>3. SuiteTypes
  <2>1. \A t \in Tests : minimized[t] <= Len(PlanOf[t])
    BY <1>1, PlansAreTyped
  <2>2. worker \in [Workers -> Job]
    BY <1>1, FreeIsJob
  <2> QED
    BY <1>1, <2>1, <2>2 DEF SuiteTypes
<1>4. OneEach /\ JobsInv
  BY <1>2 DEF OneEach, JobsInv
<1>5. TestsInv
  BY <1>1 DEF TestsInv, OkMeansEveryExitMet, MinimizedIsBoundary
<1>6. FewFail
  <2>1. Failed = {} /\ Occupied = {}
    BY <1>1, <1>2 DEF Failed, Occupied
  <2>2. Cardinality(Workers) \in Nat
    BY Finite
  <2> QED
    BY <2>1, <2>2, FS_EmptySet DEF FewFail
<1> QED
  BY <1>3, <1>4, <1>5, <1>6 DEF SuiteInv

LEMMA NextSuiteInv == SuiteInv /\ [Next]_vars => SuiteInv'
<1> SUFFICES ASSUME SuiteInv, [Next]_vars PROVE SuiteInv'
  OBVIOUS
<1>1. ASSUME UNCHANGED vars PROVE SuiteInv'
  <2>1. /\ UNCHANGED <<opts, pending, worker, dirs, fail_fast, outcome, history>>
        /\ report' = report
    BY <1>1 DEF vars
  <2>2. report' \in {"none", "ok", "failed", "error"}
    BY <2>1 DEF SuiteInv, SuiteTypes
  <2> QED
    BY <2>1, <2>2, Stays
<1> QED
  BY <1>1, Step_start, Step_drop, Step_begin_plan, Step_command, Step_unstartable,
     Step_directive, Step_end_plan, Step_finish_suite DEF Next

LEMMA SuiteInvHolds == Spec => []SuiteInv
BY InitSuiteInv, NextSuiteInv, PTL DEF Spec

\* The variables of the pool keep their types, and a search never runs more of
\* a plan than there is.
THEOREM SuiteHasTypes == Spec => []TypeOK
<1>1. SuiteInv => TypeOK
  <2> SUFFICES ASSUME SuiteInv PROVE TypeOK
    OBVIOUS
  <2>1. ASSUME NEW w \in Workers, worker[w].pc # "idle"
        PROVE  /\ worker[w].test \in Tests /\ worker[w].upto <= Len(PlanOf[worker[w].test])
               /\ worker[w].pc = "steps" => worker[w].at <= worker[w].upto + 1
    BY <2>1 DEF SuiteInv, JobsInv, Busy, JobInv, JobShape
  <2> QED
    BY <2>1 DEF SuiteInv, SuiteTypes, TypeOK
<1> QED
  BY <1>1, SuiteInvHolds, PTL

\* A test reported ok met the exit code stated for each of its commands.
THEOREM OkIsEarned == Spec => []OkMeansEveryExitMet
<1>1. SuiteInv => OkMeansEveryExitMet
  BY DEF SuiteInv, TestsInv
<1> QED
  BY <1>1, SuiteInvHolds, PTL

\* Under --fail-fast no more tests fail than there are workers.
THEOREM FailFastHolds == Spec => []FailFastLimitsFailures
<1>1. SuiteInv => FailFastLimitsFailures
  <2> SUFFICES ASSUME SuiteInv, opts.fail_fast
               PROVE  Cardinality(Failed) <= Cardinality(Workers)
    BY DEF FailFastLimitsFailures, Failed
  <2> QED
    BY Finite DEF SuiteInv, FewFail
<1> QED
  BY <1>1, SuiteInvHolds, PTL

\* The workdir a failed test's transcript names stays.
THEOREM WorkdirsStay == Spec => []FailedWorkdirStays
<1>1. SuiteInv => FailedWorkdirStays
  BY DEF SuiteInv, TestsInv, FirstDirStays, FirstDir, FailedWorkdirStays
<1> QED
  BY <1>1, SuiteInvHolds, PTL

\* No run loses its workdir to another test, but for a shared stem.
THEOREM RunsKeepWorkdirs == Spec => []RunningPlanHasWorkdir
<1>1. SuiteInv => RunningPlanHasWorkdir
  <2> SUFFICES ASSUME SuiteInv, NEW w \in Workers, worker[w].pc = "steps"
               PROVE  Exists(WorkdirOf(worker[w])) \/ (opts.workdir /\ SharesStem(worker[w].test))
    BY DEF RunningPlanHasWorkdir
  <2>1. PICK o \in Job : o = worker[w]
    BY DEF SuiteInv, SuiteTypes
  <2>2. <<WorkdirOf(o), o.test>> \in dirs \/ (opts.workdir /\ SharesStem(o.test))
    BY <2>1 DEF SuiteInv, JobsInv, Busy, JobInv, JobDirs
  <2>3. <<WorkdirOf(o), o.test>>[1] = WorkdirOf(o)
    OBVIOUS
  <2> QED
    BY <2>1, <2>2, <2>3 DEF Exists
<1> QED
  BY <1>1, SuiteInvHolds, PTL

\* Minimization ends at a prefix that failed, next to one that passed.
THEOREM MinimizationFindsBoundary == Spec => []MinimizedIsBoundary
<1>1. SuiteInv => MinimizedIsBoundary
  BY DEF SuiteInv, TestsInv
<1> QED
  BY <1>1, SuiteInvHolds, PTL

=============================================================================
