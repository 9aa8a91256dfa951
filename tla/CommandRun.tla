------------------------------ MODULE CommandRun ------------------------------
(***************************************************************************)
(* One command of a test, from the spawn to the verdict: execute_command   *)
(* of --test, which has a timeout, the one of `run --gtest` and            *)
(* run_set_command, which have none.                                       *)
(*                                                                         *)
(* Four parties run at once: the process and what it starts, the threads   *)
(* that empty its two pipes, and the thread that waits for it.  A full     *)
(* pipe blocks the writer, an open one the reader, a running child the     *)
(* waiter.                                                                 *)
(***************************************************************************)
EXTENDS Naturals, Sequences, SequencesExt, FiniteSetsExt

CONSTANTS
    Trees,           \* what the processes of a command may do, see Tree
    PipeSize,        \* bytes a pipe holds
    Chunk,           \* bytes one read returns at most
    Limit,           \* STDOUT_LIMIT and STDERR_LIMIT
    TranscriptLimit  \* TRANSCRIPT_LIMIT

Pipes == {"out", "err"}
Processes == {"child", "kid"}

\* What a process does, in order: write a byte to stdout (a character of one
\* byte, the halves of a character of two) or to stderr, start its one
\* descendant, close both pipes, and end with a code or by a signal, or run
\* for ever.
Written == {"a", "h", "t", "e"}
Ends == {"0", "1", "signal", "hang"}
PipeOf(op) == IF op = "e" THEN "err" ELSE "out"
Tree == [Processes -> Seq(Written \cup Ends \cup {"fork", "close"})]

ASSUME CommandAssumption ==
    /\ Trees \subseteq Tree
    /\ \A t \in Trees, p \in Processes :
         /\ t[p] # <<>> /\ Last(t[p]) \in Ends
         /\ \A i, j \in DOMAIN t[p] :
               t[p][i] = "close" /\ j > i => t[p][j] \notin Written \cup {"fork"}
         /\ \A i, j \in DOMAIN t[p] :
               t[p][i] = "fork" => p = "child" /\ (t[p][j] = "fork" => i = j)
    /\ PipeSize \in Nat \ {0} /\ Chunk \in Nat \ {0}
    /\ Limit \in Nat /\ TranscriptLimit \in Nat

VARIABLES
    waiter,     \* where the thread that runs the command is
    caller,     \* for whom: a plan, a scenario or an @set
    expect,     \* expect_next: "zero", or "nonzero" after @expect exit!=0
    timeout,    \* whether there is a timeout
    tree,       \* what the processes do
    proc,       \* proc[p]: its next operation and how it is
    pipe,       \* bytes written to each pipe and not read
    thread,     \* the threads of read_limited: "reading", "ended"
    buf,        \* what each of them keeps
    remaining,  \* and how much more it may keep
    timed_out,  \* the wait ended with the timeout
    exit,       \* the exit code, "none" for a signal
    passed      \* the verdict: "none", "yes", "no"

\* History: all that was written to each pipe; the kill hit a running child.
VARIABLES said, killed

commandVars == <<waiter, caller, expect, timeout, tree, proc, pipe, thread, buf, remaining,
                 timed_out, exit, passed, said, killed>>
processVars == <<proc, pipe, said>>
readerVars == <<thread, buf, remaining>>
chosen == <<caller, expect, timeout, tree>>

NoTree == [p \in Processes |-> <<"0">>]

CommandInit ==
    /\ waiter = "ready"
    /\ caller = "test" /\ expect = "zero" /\ timeout = FALSE /\ tree = NoTree
    /\ proc = [p \in Processes |-> [at |-> 1, is |-> "absent"]]
    /\ pipe = [s \in Pipes |-> <<>>]
    /\ thread = [s \in Pipes |-> "ended"]
    /\ buf = [s \in Pipes |-> <<>>] /\ remaining = [s \in Pipes |-> Limit]
    /\ timed_out = FALSE /\ exit = "none" /\ passed = "none"
    /\ said = [s \in Pipes |-> <<>>] /\ killed = FALSE

-----------------------------------------------------------------------------
(* The processes                                                           *)

Started(ps, p) == [ps EXCEPT ![p] = [at |-> 1, is |-> "running"]]

Op(p) == tree[p][proc[p].at]
At(p, ops) == proc[p].is = "running" /\ Op(p) \in ops
Stepped(ps, p) == [ps EXCEPT ![p].at = @ + 1]

\* p has the write ends open: it inherits both, and has not closed them.
Holds(p) == /\ proc[p].is = "running"
            /\ \A i \in 1..(proc[p].at - 1) : tree[p][i] # "close"

\* A byte is named by its writer and the operation that wrote it.
writes(p) ==
    /\ At(p, Written)
    /\ LET s == PipeOf(Op(p))
           byte == <<p, proc[p].at>>
       IN  /\ Len(pipe[s]) < PipeSize
           /\ pipe' = [pipe EXCEPT ![s] = Append(@, byte)]
           /\ said' = [said EXCEPT ![s] = Append(@, byte)]
    /\ proc' = Stepped(proc, p)
    /\ UNCHANGED <<waiter, chosen, readerVars, timed_out, exit, passed, killed>>

forks ==
    /\ At("child", {"fork"})
    /\ proc' = Started(Stepped(proc, "child"), "kid")
    /\ UNCHANGED <<waiter, chosen, pipe, said, readerVars, timed_out, exit, passed, killed>>

closes(p) ==
    /\ At(p, {"close"})
    /\ proc' = Stepped(proc, p)
    /\ UNCHANGED <<waiter, chosen, pipe, said, readerVars, timed_out, exit, passed, killed>>

ends(p) ==
    /\ At(p, Ends \ {"hang"})
    /\ proc' = [proc EXCEPT ![p].is = Op(p)]
    /\ UNCHANGED <<waiter, chosen, pipe, said, readerVars, timed_out, exit, passed, killed>>

-----------------------------------------------------------------------------
(* read_limited, in a thread for each pipe                                 *)

\* Mutant: a pipe is emptied only once the child has been waited for.
MutantReading(s) == thread[s] = "reading" /\ waiter \notin {"waiting", "expired", "killed"}

Reading(s) == thread[s] = "reading"

\* Mutant: a chunk that does not fit is dropped, not cut.
MutantTaken(s, n) == IF n <= remaining[s] THEN n ELSE 0

\* How much of a chunk of n bytes is kept.
Taken(s, n) == Min({remaining[s], n})

reads(s) ==
    /\ Reading(s) /\ pipe[s] # <<>>
    /\ \E n \in 1..Min({Chunk, Len(pipe[s])}) :
         /\ buf' = [buf EXCEPT ![s] = @ \o SubSeq(pipe[s], 1, Taken(s, n))]
         /\ remaining' = [remaining EXCEPT ![s] = @ - Taken(s, n)]
         /\ pipe' = [pipe EXCEPT ![s] = SubSeq(@, n + 1, Len(@))]
    /\ UNCHANGED <<waiter, chosen, proc, thread, timed_out, exit, passed, said, killed>>

\* A read of no bytes: the pipe is empty and nobody can write to it any more.
reads_end(s) ==
    /\ Reading(s) /\ pipe[s] = <<>>
    /\ \A p \in Processes : ~Holds(p)
    /\ thread' = [thread EXCEPT ![s] = "ended"]
    /\ UNCHANGED <<waiter, chosen, processVars, buf, remaining, timed_out, exit, passed, killed>>

-----------------------------------------------------------------------------
(* The thread that runs the command                                        *)

\* The process is started with its arguments, directory and environment, here
\* a tree of what it may do; both its outputs are piped and get a reader.
spawn(c, t) ==
    /\ waiter = "ready"
    /\ waiter' = "waiting" /\ caller' = c /\ tree' = t
    /\ proc' = Started(proc, "child")
    /\ thread' = [s \in Pipes |-> "reading"]
    /\ UNCHANGED <<pipe, buf, remaining, timed_out, exit, passed, said, killed>>

\* --test alone knows an expectation, set before the command, and a timeout.
execute_command(t) ==
    /\ spawn("test", t)
    /\ timeout' \in BOOLEAN /\ expect' \in {"zero", "nonzero"}

execute_scenario_command(t) == spawn("gtest", t) /\ UNCHANGED <<timeout, expect>>

run_set_command(t) == spawn("set", t) /\ UNCHANGED <<timeout, expect>>

\* Mutant: a child without an exit code counts as one that ended well.
MutantCode(status) == IF status = "signal" THEN "0" ELSE status

\* ExitStatus::code.
Code(status) == IF status = "signal" THEN "none" ELSE status

ChildEnded == proc["child"].is # "running"

\* wait, or wait_timeout in time.
waits ==
    /\ waiter = "waiting" /\ ChildEnded
    /\ exit' = Code(proc["child"].is)
    /\ waiter' = "join_out"
    /\ UNCHANGED <<chosen, processVars, readerVars, timed_out, passed, killed>>

\* wait_timeout returns None: the child was running when it last looked.
expires ==
    /\ waiter = "waiting" /\ timeout /\ ~ChildEnded
    /\ waiter' = "expired" /\ timed_out' = TRUE
    /\ UNCHANGED <<chosen, processVars, readerVars, exit, passed, killed>>

\* Child::kill: the child alone, if it has not ended meanwhile.
kills ==
    /\ waiter = "expired"
    /\ waiter' = "killed"
    /\ killed' = ~ChildEnded
    /\ proc' = IF ChildEnded THEN proc ELSE [proc EXCEPT !["child"].is = "signal"]
    /\ UNCHANGED <<chosen, pipe, said, readerVars, timed_out, exit, passed>>

waits_again ==
    /\ waiter = "killed" /\ ChildEnded
    /\ exit' = Code(proc["child"].is)
    /\ waiter' = "join_out"
    /\ UNCHANGED <<chosen, processVars, readerVars, timed_out, passed, killed>>

joins(s) ==
    /\ waiter = (IF s = "out" THEN "join_out" ELSE "join_err") /\ thread[s] = "ended"
    /\ waiter' = IF s = "out" THEN "join_err" ELSE "joined"
    /\ UNCHANGED <<chosen, processVars, readerVars, timed_out, exit, passed, killed>>

\* Whether the command has done what was expected.  A scenario reads a
\* missing code as 0, the other two as a failure.
ExpectationMatches == exit # "none" /\ (exit = "0") = (expect = "zero")
ScenarioGoesOn == exit \in {"0", "none"}
ValueIsSet == exit = "0"

Passes ==
    \/ caller = "test" /\ ExpectationMatches
    \/ caller = "gtest" /\ ScenarioGoesOn
    \/ caller = "set" /\ ValueIsSet

\* String::from_utf8_lossy: the width of the character that byte i begins;
\* half a character becomes one of three bytes.
Kind(byte) == tree[byte[1]][byte[2]]
Width(bytes, i) ==
    LET is(k, j) == j \in DOMAIN bytes /\ Kind(bytes[j]) = k
    IN  CASE is("h", i) -> IF is("t", i + 1) THEN 2 ELSE 3
          [] is("t", i) -> IF is("h", i - 1) THEN 0 ELSE 3
          [] OTHER -> 1
WidthTo(bytes, n) == FoldLeft(+, 0, [i \in 1..n |-> Width(bytes, i)])

\* truncate_for_transcript slices at a byte, which panics inside a character.
CutFails(bytes) ==
    /\ WidthTo(bytes, Len(bytes)) > TranscriptLimit
    /\ \A n \in 0..Len(bytes) : WidthTo(bytes, n) # TranscriptLimit

\* The run becomes last_run, or the value of the @set; --test copies the two
\* outputs to the transcript.
records ==
    /\ waiter = "joined"
    /\ waiter' = IF caller = "test" /\ \E s \in Pipes : CutFails(buf[s]) THEN "panicked"
                 ELSE "recorded"
    /\ passed' = IF Passes THEN "yes" ELSE "no"
    /\ UNCHANGED <<chosen, processVars, readerVars, timed_out, exit, killed>>

Waiter == waits \/ expires \/ kills \/ waits_again \/ records \/ \E s \in Pipes : joins(s)
Process(p) == writes(p) \/ forks \/ closes(p) \/ ends(p)
Reader(s) == reads(s) \/ reads_end(s)

CommandSteps ==
    \/ Waiter
    \/ \E p \in Processes : Process(p)
    \/ \E s \in Pipes : Reader(s)

CommandNext ==
    \/ \E t \in Trees : execute_command(t) \/ execute_scenario_command(t) \/ run_set_command(t)
    \/ CommandSteps

\* Processes and threads are scheduled, and the time of a timeout passes.
CommandFairness ==
    /\ WF_commandVars(Waiter)
    /\ \A p \in Processes : WF_commandVars(Process(p))
    /\ \A s \in Pipes : WF_commandVars(Reader(s))

CommandSpec == CommandInit /\ [][CommandNext]_commandVars /\ CommandFairness

-----------------------------------------------------------------------------
(* Properties                                                              *)

\* Nobody keeps the command from ending: the child does not run for ever
\* unless there is a timeout, and what it leaves behind ends or lets go of
\* the pipes, for the readers wait for that.
Performs(p, op) == \E i \in DOMAIN tree[p] : tree[p][i] = op
EndsInTime ==
    /\ Performs("child", "hang") => timeout
    /\ Performs("child", "fork") /\ Performs("kid", "hang") => Performs("kid", "close")

\* A cut inside a character needs a character of several bytes.
OnlyOfOneByte == \A p \in Processes, half \in {"h", "t"} : ~Performs(p, half)

\* A command that nobody keeps from ending comes to a verdict, however much
\* it writes to either pipe and whoever writes it: neither the wait nor the
\* joins of execute_command block for ever, and the transcript can be cut.
CommandIsRecorded ==
    (waiter = "waiting" /\ EndsInTime /\ OnlyOfOneByte) ~> (waiter = "recorded")

\* What is kept of a pipe is what was written to it first, in order and up to
\* the limit, by the child and by all it left behind: read_limited loses,
\* repeats and reorders nothing, and nobody looks at it before its end.
OutputIsFirstBytes ==
    waiter \in {"joined", "recorded", "panicked"} =>
        \A s \in Pipes : buf[s] = SubSeq(said[s], 1, Min({Limit, Len(said[s])}))

\* The verdict is about how the child ended, not about what it left behind.
\* Whatever passes has ended by itself, and as expected: a child the timeout
\* killed never passes.  One that ended as expected in time does pass.  What a
\* child should get that ends as expected after its timeout is TimedOutIsFailed.
EndsAsExpected ==
    proc["child"].is \in (IF caller = "gtest" THEN {"0", "signal"}
                          ELSE IF expect = "nonzero" THEN {"1"}
                          ELSE {"0"})
VerdictIsOfChild ==
    waiter = "recorded" =>
        /\ passed = "yes" => ~killed /\ EndsAsExpected
        /\ ~timed_out /\ EndsAsExpected => passed = "yes"

\* "If timeout triggers: kill process, mark step failed with `TimedOut`"
\* (.codex/done/PR-02.md:56).
TimedOutIsFailed == waiter = "recorded" /\ timed_out => passed = "no"

=============================================================================
