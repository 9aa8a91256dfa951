----------------------------- MODULE MCTestSuite -----------------------------
(* Small instances of TestSuite.                                           *)
EXTENDS TestSuite, TLC

CONSTANTS w1, w2, tA, tB, tC, tD, stemAB

Command == [kind |-> "command"]
Expect(eq, ne) == [kind |-> "expect", expect |-> [equals |-> eq, not_equals |-> ne]]
AssertExit(code) == [kind |-> "assert", code |-> code]
Plain(kind) == [kind |-> kind]

\* Two tests of one stem, a skipped one, and one with a command that cannot
\* be started after a directive.
MCPlans == (tA :> <<Expect(None, 0), Command, AssertExit(1), Command>>)
        @@ (tB :> <<Expect(1, None), Command>>)
        @@ (tC :> <<Plain("skip"), Command>>)
        @@ (tD :> <<Plain("directive"), Plain("unstartable")>>)
MCStems == (tA :> stemAB) @@ (tB :> stemAB) @@ (tC :> tC) @@ (tD :> tD)
MCOptions == [fail_fast: BOOLEAN, workdir: BOOLEAN, keep_workdir: {FALSE},
              triage_flakes: BOOLEAN]
             \cup {[fail_fast |-> FALSE, workdir |-> TRUE, keep_workdir |-> TRUE,
                    triage_flakes |-> TRUE]}

WorkerSymmetry == Permutations(Workers)
=============================================================================
