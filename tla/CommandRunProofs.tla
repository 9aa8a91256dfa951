--------------------------- MODULE CommandRunProofs ---------------------------
(***************************************************************************)
(* Theorems about CommandRun, for all that processes may do and for pipes, *)
(* chunks and limits of any size: what is kept of the output of a command, *)
(* and what its verdict is about.                                          *)
(***************************************************************************)
EXTENDS CommandRun, SequenceTheorems, TLAPS

CommandSafety == CommandInit /\ [][CommandNext]_commandVars

-----------------------------------------------------------------------------
(* The inductive invariant                                                 *)

Byte == Processes \X Nat
Ended == {"0", "1", "signal"}
Joining == {"join_out", "join_err", "joined", "recorded", "panicked"}

CommandTypes ==
    /\ waiter \in {"ready", "waiting", "expired", "killed"} \cup Joining
    /\ caller \in {"test", "gtest", "set"} /\ expect \in {"zero", "nonzero"}
    /\ timeout \in BOOLEAN /\ killed \in BOOLEAN
    /\ tree \in Tree
    /\ proc \in [Processes -> [at : Nat \ {0}, is : {"absent", "running"} \cup Ended]]
    /\ pipe \in [Pipes -> Seq(Byte)] /\ said \in [Pipes -> Seq(Byte)]
    /\ buf \in [Pipes -> Seq(Byte)] /\ remaining \in [Pipes -> Nat]
    /\ thread \in [Pipes -> {"reading", "ended"}]

\* Before the spawn there is no process; after it the tree is a given one,
\* and a running process is at one of its operations.
OnTrack ==
    /\ waiter = "ready" => \A p \in Processes : proc[p].is = "absent"
    /\ waiter # "ready" => tree \in Trees /\ proc["child"].is # "absent"
    /\ \A p \in Processes : proc[p].is = "running" => proc[p].at \in DOMAIN tree[p]

\* What is kept (b, with room for r more) of what was written to a pipe (w)
\* while some of it is unread (q): its first bytes, up to the limit.
Keeps(b, r, q, w) ==
    /\ Len(q) <= Len(w)
    /\ Len(b) = (IF Limit <= Len(w) - Len(q) THEN Limit ELSE Len(w) - Len(q))
    /\ r = Limit - Len(b)
    /\ \A i \in 1..Len(b) : b[i] = w[i]
    /\ \A i \in 1..Len(q) : q[i] = w[Len(w) - Len(q) + i]

KeepsFirst == \A s \in Pipes : Keeps(buf[s], remaining[s], pipe[s], said[s])

\* A reader ends when nobody can write any more, and so nobody does.
EndedForGood ==
    \A s \in Pipes :
        thread[s] = "ended" => pipe[s] = <<>> /\ \A p \in Processes : ~Holds(p)

\* A join returns when the reader has ended.
JoinsInOrder ==
    /\ waiter \in {"join_err", "joined", "recorded", "panicked"} => thread["out"] = "ended"
    /\ waiter \in {"joined", "recorded", "panicked"} => thread["err"] = "ended"

\* A timeout and an expectation are for --test alone; a child that was killed
\* has ended by the signal; the exit code is that of the child's end.
ChildIsJudged ==
    /\ waiter = "ready" \/ caller # "test" => ~timeout /\ expect = "zero"
    /\ waiter = "expired" => timeout
    /\ waiter \in {"expired", "killed"} \/ killed => timed_out
    /\ killed => timeout /\ waiter \in {"killed"} \cup Joining /\ proc["child"].is = "signal"
    /\ waiter \in Joining => proc["child"].is \in Ended /\ exit = Code(proc["child"].is)
    /\ waiter = "recorded" => (passed = "yes" <=> Passes)

CommandInv ==
    CommandTypes /\ OnTrack /\ KeepsFirst /\ EndedForGood /\ JoinsInOrder /\ ChildIsJudged

-----------------------------------------------------------------------------
(* Sequences                                                               *)

\* The least of two numbers.
LEMMA MinOfTwo ==
    ASSUME NEW m \in Nat, NEW n \in Nat
    PROVE  Min({m, n}) = IF m <= n THEN m ELSE n
<1> DEFINE least == IF m <= n THEN m ELSE n
<1>1. least \in {m, n} /\ \A y \in {m, n} : least <= y
  OBVIOUS
<1>2. \A x \in {m, n} : (\A y \in {m, n} : x <= y) => x = least
  OBVIOUS
<1> QED
  BY <1>1, <1>2 DEF Min

\* A byte that is written waits behind the unread ones.
LEMMA KeepsOnWrite ==
    ASSUME NEW b \in Seq(Byte), NEW r, NEW q \in Seq(Byte), NEW w \in Seq(Byte),
           NEW byte \in Byte, Keeps(b, r, q, w)
    PROVE  Keeps(b, r, Append(q, byte), Append(w, byte))
<1> DEFINE qq == Append(q, byte)
           ww == Append(w, byte)
<1>1. /\ Len(qq) = Len(q) + 1 /\ Len(ww) = Len(w) + 1
      /\ Len(q) \in Nat /\ Len(w) \in Nat /\ Len(b) \in Nat
  OBVIOUS
<1>2. Len(b) <= Len(w)
  BY <1>1, CommandAssumption DEF Keeps
<1>3. \A i \in 1..Len(b) : b[i] = ww[i]
  BY <1>1, <1>2 DEF Keeps
<1>4. ASSUME NEW i \in 1..Len(qq)
      PROVE  qq[i] = ww[Len(ww) - Len(qq) + i]
  <2>1. CASE i = Len(qq)
    BY <1>1, <2>1
  <2>2. CASE i # Len(qq)
    <3>1. i \in 1..Len(q) /\ Len(ww) - Len(qq) + i \in 1..Len(w)
      BY <1>1, <2>2 DEF Keeps
    <3> QED
      BY <1>1, <3>1 DEF Keeps
  <2> QED
    BY <2>1, <2>2
<1> HIDE DEF qq, ww
<1>5. /\ Len(qq) <= Len(ww) /\ Len(ww) - Len(qq) = Len(w) - Len(q)
      /\ Len(b) = (IF Limit <= Len(w) - Len(q) THEN Limit ELSE Len(w) - Len(q))
      /\ r = Limit - Len(b)
  BY <1>1 DEF Keeps
<1>6. Keeps(b, r, qq, ww)
  BY <1>3, <1>4, <1>5 DEF Keeps
<1> QED
  BY <1>6 DEF qq, ww

\* The lengths at a read of n bytes: of what is written (lw), unread before it
\* (lq) and kept (lb).
LEMMA RoomAtRead ==
    ASSUME NEW limit \in Nat, NEW lw \in Nat, NEW lq \in Nat, NEW lb \in Nat, NEW r \in Nat,
           NEW n \in 1..lq, NEW taken \in Nat, taken = IF r <= n THEN r ELSE n,
           lq <= lw, lb = (IF limit <= lw - lq THEN limit ELSE lw - lq), r = limit - lb
    PROVE  /\ lb + taken = (IF limit <= lw - (lq - n) THEN limit ELSE lw - (lq - n))
           /\ r - taken = limit - (lb + taken)
<1>1. CASE r <= n
  BY <1>1
<1>2. CASE ~(r <= n)
  BY <1>2
<1> QED
  BY <1>1, <1>2

\* A read of n bytes keeps what there is room for.
LEMMA KeepsOnRead ==
    ASSUME NEW b \in Seq(Byte), NEW r \in Nat, NEW q \in Seq(Byte), NEW w \in Seq(Byte),
           Keeps(b, r, q, w), NEW n \in 1..Len(q),
           NEW taken \in Nat, taken = IF r <= n THEN r ELSE n
    PROVE  Keeps(b \o SubSeq(q, 1, taken), r - taken, SubSeq(q, n + 1, Len(q)), w)
<1> DEFINE first == SubSeq(q, 1, taken)
           rest == SubSeq(q, n + 1, Len(q))
           bb == b \o first
<1>1. /\ Len(q) \in Nat /\ Len(w) \in Nat /\ Len(b) \in Nat /\ n \in Nat
      /\ taken <= n /\ taken <= Len(q) /\ Limit \in Nat
  BY CommandAssumption
<1>2. first \in Seq(Byte) /\ Len(first) = taken /\ \A i \in 1..taken : first[i] = q[i]
  BY <1>1, SubSeqProperties
<1>3. /\ rest \in Seq(Byte) /\ Len(rest) = Len(q) - n
      /\ \A i \in 1..(Len(q) - n) : rest[i] = q[n + i]
  BY <1>1, SubSeqProperties
<1>4. /\ Len(bb) = Len(b) + taken
      /\ \A i \in 1..Len(b) : bb[i] = b[i]
      /\ \A i \in 1..taken : bb[Len(b) + i] = q[i]
  <2>1. /\ Len(bb) = Len(b) + Len(first)
        /\ \A i \in 1..(Len(b) + Len(first)) :
              bb[i] = IF i <= Len(b) THEN b[i] ELSE first[i - Len(b)]
    <3> HIDE DEF first
    <3> QED
      BY <1>2, ConcatProperties
  <2> HIDE DEF first, bb
  <2>3. ASSUME NEW i \in 1..taken PROVE bb[Len(b) + i] = first[i]
    <3> DEFINE j == Len(b) + i
    <3>1. j \in 1..(Len(b) + Len(first)) /\ ~(j <= Len(b)) /\ j - Len(b) = i
      BY <1>1, <1>2
    <3> HIDE DEF j
    <3>2. bb[j] = first[j - Len(b)]
      BY <2>1, <3>1
    <3>3. bb[j] = first[i]
      BY <3>1, <3>2
    <3> QED
      BY <3>3 DEF j
  <2> QED
    BY <1>1, <1>2, <2>1, <2>3
<1> HIDE DEF first, rest, bb
<1>a. /\ Len(q) <= Len(w) /\ r = Limit - Len(b)
      /\ Len(b) = (IF Limit <= Len(w) - Len(q) THEN Limit ELSE Len(w) - Len(q))
  BY DEF Keeps
<1>5. Len(rest) <= Len(w)
  BY <1>a, <1>1, <1>3
<1>b. /\ Len(b) + taken = (IF Limit <= Len(w) - (Len(q) - n) THEN Limit ELSE Len(w) - (Len(q) - n))
      /\ r - taken = Limit - (Len(b) + taken)
  <2> DEFINE lb == Len(b)
             lw == Len(w)
             lq == Len(q)
  <2>1. /\ lb \in Nat /\ lw \in Nat /\ lq \in Nat /\ n \in 1..lq /\ lq <= lw /\ r = Limit - lb
        /\ lb = (IF Limit <= lw - lq THEN Limit ELSE lw - lq) /\ Limit \in Nat
    BY <1>a, <1>1
  <2> HIDE DEF lb, lw, lq
  <2>2. /\ lb + taken = (IF Limit <= lw - (lq - n) THEN Limit ELSE lw - (lq - n))
        /\ r - taken = Limit - (lb + taken)
    BY <2>1, RoomAtRead
  <2> QED
    BY <2>2 DEF lb, lw, lq
<1>6. Len(bb) = (IF Limit <= Len(w) - Len(rest) THEN Limit ELSE Len(w) - Len(rest))
  BY <1>b, <1>3, <1>4
<1>7. r - taken = Limit - Len(bb)
  BY <1>b, <1>4
<1>8. ASSUME NEW i \in 1..Len(bb) PROVE bb[i] = w[i]
  <2>1. CASE i <= Len(b)
    <3>1. i \in 1..Len(b)
      BY <1>1, <2>1
    <3> QED
      BY <1>4, <3>1 DEF Keeps
  <2>2. CASE i > Len(b)
    <3>1. i - Len(b) \in 1..taken /\ i - Len(b) \in 1..Len(q)
      BY <1>1, <1>4, <2>2
    <3>2. bb[i] = q[i - Len(b)]
      BY <1>1, <1>4, <3>1
    <3>3. Len(b) = Len(w) - Len(q)
      BY <1>1, <3>1 DEF Keeps
    <3>4. q[i - Len(b)] = w[Len(w) - Len(q) + (i - Len(b))]
      BY <3>1 DEF Keeps
    <3> QED
      BY <1>1, <3>2, <3>3, <3>4
  <2> QED
    BY <1>1, <1>4, <2>1, <2>2
<1>9. ASSUME NEW i \in 1..Len(rest) PROVE rest[i] = w[Len(w) - Len(rest) + i]
  <2>1. n + i \in 1..Len(q) /\ rest[i] = q[n + i]
    BY <1>1, <1>3
  <2>2. q[n + i] = w[Len(w) - Len(q) + (n + i)]
    BY <2>1 DEF Keeps
  <2>3. Len(w) - Len(q) + (n + i) = Len(w) - Len(rest) + i
    BY <1>1, <1>3
  <2> QED
    BY <2>1, <2>2, <2>3
<1>10. Keeps(bb, r - taken, rest, w)
  BY <1>5, <1>6, <1>7, <1>8, <1>9 DEF Keeps
<1> QED
  BY <1>10 DEF bb, first, rest

\* With nothing unread, what is kept is a prefix.
LEMMA KeepsAtEnd ==
    ASSUME NEW b \in Seq(Byte), NEW r, NEW w \in Seq(Byte), Keeps(b, r, <<>>, w)
    PROVE  b = SubSeq(w, 1, Min({Limit, Len(w)}))
<1> DEFINE n == Min({Limit, Len(w)})
<1>1. Len(w) \in Nat /\ Len(b) \in Nat /\ Limit \in Nat
  BY CommandAssumption
<1>2. n = (IF Limit <= Len(w) THEN Limit ELSE Len(w))
  BY <1>1, MinOfTwo
<1> HIDE DEF n
<1>a. /\ Len(<<>>) = 0
      /\ Len(b) = (IF Limit <= Len(w) - 0 THEN Limit ELSE Len(w) - 0)
      /\ \A i \in 1..Len(b) : b[i] = w[i]
  BY DEF Keeps
<1>3. Len(b) = n /\ n \in Nat /\ n <= Len(w) /\ \A i \in 1..n : b[i] = w[i]
  BY <1>a, <1>1, <1>2
<1>4. SubSeq(w, 1, n) \in Seq(Byte) /\ Len(SubSeq(w, 1, n)) = n
      /\ \A i \in 1..n : SubSeq(w, 1, n)[i] = w[i]
  BY <1>1, <1>3, SubSeqProperties
<1>5. b = SubSeq(w, 1, n)
  BY <1>3, <1>4, SeqEqual
<1> QED
  BY <1>5 DEF n

-----------------------------------------------------------------------------
(* The steps of the processes                                              *)

LEMMA InitCommandInv == ASSUME CommandInit PROVE CommandInv
<1> USE DEF CommandInit
<1>1. NoTree \in Tree
  BY DEF NoTree, Tree, Ends, Written, Processes
<1>2. <<>> \in Seq(Byte) /\ Len(<<>>) = 0 /\ Limit \in Nat
  BY CommandAssumption
<1>3. CommandTypes
  <2>1. proc \in [Processes -> [at : Nat \ {0}, is : {"absent", "running"} \cup Ended]]
    OBVIOUS
  <2>2. /\ pipe \in [Pipes -> Seq(Byte)] /\ said \in [Pipes -> Seq(Byte)]
        /\ buf \in [Pipes -> Seq(Byte)] /\ remaining \in [Pipes -> Nat]
        /\ thread \in [Pipes -> {"reading", "ended"}]
    BY <1>2
  <2> QED
    BY <1>1, <2>1, <2>2 DEF CommandTypes
<1>4. OnTrack /\ JoinsInOrder
  BY DEF OnTrack, JoinsInOrder
<1>5. KeepsFirst
  BY <1>2 DEF KeepsFirst, Keeps
<1>6. EndedForGood
  BY DEF EndedForGood, Holds
<1>7. ChildIsJudged
  BY DEF ChildIsJudged, Joining
<1> QED
  BY <1>3, <1>4, <1>5, <1>6, <1>7 DEF CommandInv

\* A process that does not end by its operation has another one.
LEMMA OperationFollows ==
    ASSUME CommandTypes, OnTrack, NEW p \in Processes, proc[p].is = "running", Op(p) \notin Ends
    PROVE  /\ tree \in Trees /\ waiter # "ready"
           /\ proc[p].at \in DOMAIN tree[p] /\ proc[p].at + 1 \in DOMAIN tree[p]
           /\ proc[p].at \in Nat \ {0}
<1>1. tree \in Trees /\ waiter # "ready" /\ proc[p].at \in DOMAIN tree[p]
  BY DEF OnTrack
<1>2. tree[p] \in Seq(Written \cup Ends \cup {"fork", "close"})
  BY DEF CommandTypes, Tree
<1>3. Last(tree[p]) \in Ends
  BY <1>1, CommandAssumption
<1>4. DOMAIN tree[p] = 1..Len(tree[p]) /\ Len(tree[p]) \in Nat
  BY <1>2
<1>5. proc[p].at # Len(tree[p])
  BY <1>3 DEF Last, Op
<1> QED
  BY <1>1, <1>4, <1>5

\* Who writes or forks has the write ends open, so that both readers go on.
LEMMA WriterIsRead ==
    ASSUME CommandTypes, OnTrack, EndedForGood, NEW p \in Processes,
           proc[p].is = "running", Op(p) \in Written \cup {"fork"}
    PROVE  Holds(p) /\ \A s \in Pipes : thread[s] = "reading"
<1>1. Op(p) \notin Ends
  BY DEF Written, Ends
<1>2. /\ tree \in Trees /\ proc[p].at \in DOMAIN tree[p] /\ proc[p].at \in Nat \ {0}
      /\ DOMAIN tree[p] = 1..Len(tree[p]) /\ Len(tree[p]) \in Nat
  BY <1>1, OperationFollows DEF CommandTypes, Tree
<1>3. ASSUME NEW i \in 1..(proc[p].at - 1) PROVE tree[p][i] # "close"
  <2>1. i \in DOMAIN tree[p] /\ proc[p].at > i
    BY <1>2
  <2> QED
    BY <1>2, <2>1, CommandAssumption DEF Op
<1>4. Holds(p)
  BY <1>3 DEF Holds
<1> QED
  BY <1>4 DEF EndedForGood, CommandTypes

\* The verdict stands while only other processes than the child come and go.
LEMMA JudgedAsBefore ==
    ASSUME ChildIsJudged, proc'["child"].is = proc["child"].is,
           UNCHANGED <<waiter, caller, expect, timeout, timed_out, exit, passed, killed>>
    PROVE  ChildIsJudged'
<1>1. Passes' = Passes
  BY DEF Passes, ExpectationMatches, ScenarioGoesOn, ValueIsSet
<1> QED
  BY <1>1 DEF ChildIsJudged

\* A process takes a step that is not its last.
LEMMA SteppedOn ==
    ASSUME CommandTypes, OnTrack, NEW p \in Processes, proc[p].is = "running", Op(p) \notin Ends,
           proc' = Stepped(proc, p), tree' = tree, waiter' = waiter
    PROVE  /\ proc' \in [Processes -> [at : Nat \ {0}, is : {"absent", "running"} \cup Ended]]
           /\ OnTrack'
           /\ \A q \in Processes : proc'[q].is = proc[q].is
           /\ \A q \in Processes : Holds(q)' => Holds(q)
<1>1. /\ waiter # "ready" /\ proc[p].at + 1 \in DOMAIN tree[p] /\ proc[p].at \in Nat \ {0}
  BY OperationFollows
<1>2. /\ \A q \in Processes : proc'[q].is = proc[q].is
      /\ \A q \in Processes \ {p} : proc'[q] = proc[q]
      /\ proc'[p].at = proc[p].at + 1
      /\ proc' \in [Processes -> [at : Nat \ {0}, is : {"absent", "running"} \cup Ended]]
  BY <1>1 DEF CommandTypes, Stepped
<1>3. OnTrack'
  BY <1>1, <1>2 DEF OnTrack, Processes
<1>4. ASSUME NEW q \in Processes, Holds(q)' PROVE Holds(q)
  <2>1. CASE q = p
    <3>1. \A i \in 1..(proc[p].at - 1) : i \in 1..(proc'[p].at - 1)
      BY <1>1, <1>2
    <3> QED
      BY <1>2, <1>4, <2>1, <3>1 DEF Holds
  <2>2. CASE q # p
    BY <1>2, <1>4, <2>2 DEF Holds
  <2> QED
    BY <2>1, <2>2
<1> QED
  BY <1>2, <1>3, <1>4

LEMMA StepWrites == ASSUME CommandInv, NEW p \in Processes, writes(p) PROVE CommandInv'
<1> DEFINE s == PipeOf(Op(p))
           byte == <<p, proc[p].at>>
<1> USE DEF CommandInv
<1>1. /\ proc[p].is = "running" /\ Op(p) \in Written /\ proc' = Stepped(proc, p)
      /\ pipe' = [pipe EXCEPT ![s] = Append(@, byte)]
      /\ said' = [said EXCEPT ![s] = Append(@, byte)]
      /\ UNCHANGED <<waiter, chosen, readerVars, timed_out, exit, passed, killed>>
  BY DEF writes, At
<1>2. Op(p) \notin Ends
  BY <1>1 DEF Written, Ends
<1>3. s \in Pipes /\ byte \in Byte
  BY DEF PipeOf, Pipes, Byte, CommandTypes
<1>4. /\ tree' = tree /\ caller' = caller /\ expect' = expect /\ timeout' = timeout
      /\ thread' = thread /\ buf' = buf /\ remaining' = remaining /\ waiter' = waiter
      /\ timed_out' = timed_out
      /\ exit' = exit /\ passed' = passed /\ killed' = killed
  BY <1>1 DEF chosen, readerVars
<1>5. /\ proc' \in [Processes -> [at : Nat \ {0}, is : {"absent", "running"} \cup Ended]]
      /\ OnTrack' /\ \A q \in Processes : proc'[q].is = proc[q].is
  BY <1>1, <1>2, <1>4, SteppedOn
<1>6. \A z \in Pipes : thread[z] = "reading"
  BY <1>1, WriterIsRead
<1> HIDE DEF s, byte
<1>7. CommandTypes'
  BY <1>1, <1>3, <1>4, <1>5 DEF CommandTypes
<1>8. KeepsFirst'
  <2> SUFFICES ASSUME NEW z \in Pipes PROVE Keeps(buf'[z], remaining'[z], pipe'[z], said'[z])
    BY DEF KeepsFirst, Keeps
  <2>1. CASE z = s
    <3>1. pipe'[z] = Append(pipe[z], byte) /\ said'[z] = Append(said[z], byte)
      BY <1>1, <1>3, <2>1 DEF CommandTypes
    <3>2. Keeps(buf[z], remaining[z], pipe[z], said[z])
      BY DEF KeepsFirst
    <3>3. buf[z] \in Seq(Byte) /\ pipe[z] \in Seq(Byte) /\ said[z] \in Seq(Byte)
      BY DEF CommandTypes
    <3> QED
      BY <1>3, <1>4, <3>1, <3>2, <3>3, KeepsOnWrite
  <2>2. CASE z # s
    BY <1>1, <1>4, <2>2 DEF KeepsFirst, CommandTypes
  <2> QED
    BY <2>1, <2>2
<1>9. EndedForGood'
  BY <1>4, <1>6 DEF EndedForGood
<1>10. JoinsInOrder'
  BY <1>4 DEF JoinsInOrder
<1>11. ChildIsJudged'
  BY <1>4, <1>5, JudgedAsBefore DEF Processes
<1> QED
  BY <1>5, <1>7, <1>8, <1>9, <1>10, <1>11

\* The pipes and what is kept of them are as before.
LEMMA KeptAsBefore ==
    ASSUME KeepsFirst, UNCHANGED <<buf, remaining, pipe, said>>
    PROVE  KeepsFirst'
BY DEF KeepsFirst, Keeps

LEMMA StepForks == ASSUME CommandInv, forks PROVE CommandInv'
<1> USE DEF CommandInv
<1> DEFINE on == Stepped(proc, "child")
<1>1. /\ proc["child"].is = "running" /\ Op("child") = "fork"
      /\ proc' = Started(on, "kid") /\ "child" \in Processes
      /\ UNCHANGED <<waiter, chosen, pipe, said, readerVars, timed_out, exit, passed, killed>>
  BY DEF forks, At, Processes
<1>2. Op("child") \notin Ends
  BY <1>1 DEF Ends
<1>3. /\ tree' = tree /\ caller' = caller /\ expect' = expect /\ timeout' = timeout
      /\ thread' = thread /\ buf' = buf /\ remaining' = remaining /\ waiter' = waiter
      /\ timed_out' = timed_out
      /\ exit' = exit /\ passed' = passed /\ killed' = killed /\ pipe' = pipe /\ said' = said
  BY <1>1 DEF chosen, readerVars
<1>4. /\ tree \in Trees /\ waiter # "ready" /\ proc["child"].at + 1 \in DOMAIN tree["child"]
      /\ proc["child"].at \in Nat \ {0}
  BY <1>1, <1>2, OperationFollows
<1>5. /\ proc'["child"] = [proc["child"] EXCEPT !.at = @ + 1]
      /\ proc'["kid"] = [at |-> 1, is |-> "running"]
      /\ proc' \in [Processes -> [at : Nat \ {0}, is : {"absent", "running"} \cup Ended]]
  BY <1>1, <1>4 DEF CommandTypes, Started, Stepped, Processes
<1>6. 1 \in DOMAIN tree["kid"]
  <2>1. tree["kid"] # <<>> /\ tree["kid"] \in Seq(Written \cup Ends \cup {"fork", "close"})
    BY <1>4, CommandAssumption DEF Tree, CommandTypes, Processes
  <2> QED
    BY <2>1
<1>7. \A z \in Pipes : thread[z] = "reading"
  BY <1>1, WriterIsRead
<1>8. proc'["child"].is = proc["child"].is /\ proc'["child"].at = proc["child"].at + 1
  BY <1>5 DEF CommandTypes, Processes
<1>9. CommandTypes'
  BY <1>3, <1>5 DEF CommandTypes
<1>10. OnTrack'
  BY <1>1, <1>3, <1>4, <1>5, <1>6, <1>8 DEF OnTrack, Processes
<1>11. KeepsFirst'
  BY <1>3, KeptAsBefore
<1>12. EndedForGood'
  BY <1>3, <1>7 DEF EndedForGood
<1>13. JoinsInOrder'
  BY <1>3 DEF JoinsInOrder
<1>14. ChildIsJudged'
  BY <1>3, <1>8, JudgedAsBefore
<1> QED
  BY <1>9, <1>10, <1>11, <1>12, <1>13, <1>14

LEMMA StepCloses == ASSUME CommandInv, NEW p \in Processes, closes(p) PROVE CommandInv'
<1> USE DEF CommandInv
<1>1. /\ proc[p].is = "running" /\ Op(p) = "close" /\ proc' = Stepped(proc, p)
      /\ UNCHANGED <<waiter, chosen, pipe, said, readerVars, timed_out, exit, passed, killed>>
  BY DEF closes, At
<1>2. Op(p) \notin Ends
  BY <1>1 DEF Ends
<1>3. /\ tree' = tree /\ caller' = caller /\ expect' = expect /\ timeout' = timeout
      /\ thread' = thread /\ buf' = buf /\ remaining' = remaining /\ waiter' = waiter
      /\ timed_out' = timed_out
      /\ exit' = exit /\ passed' = passed /\ killed' = killed /\ pipe' = pipe /\ said' = said
  BY <1>1 DEF chosen, readerVars
<1>4. /\ proc' \in [Processes -> [at : Nat \ {0}, is : {"absent", "running"} \cup Ended]]
      /\ OnTrack' /\ \A q \in Processes : proc'[q].is = proc[q].is
      /\ \A q \in Processes : Holds(q)' => Holds(q)
  BY <1>1, <1>2, <1>3, SteppedOn
<1>5. CommandTypes'
  BY <1>3, <1>4 DEF CommandTypes
<1>6. KeepsFirst'
  BY <1>3, KeptAsBefore
<1>7. EndedForGood'
  BY <1>3, <1>4 DEF EndedForGood
<1>8. JoinsInOrder'
  BY <1>3 DEF JoinsInOrder
<1>9. ChildIsJudged'
  BY <1>3, <1>4, JudgedAsBefore DEF Processes
<1> QED
  BY <1>4, <1>5, <1>6, <1>7, <1>8, <1>9

LEMMA StepEnds == ASSUME CommandInv, NEW p \in Processes, ends(p) PROVE CommandInv'
<1> USE DEF CommandInv
<1>1. /\ proc[p].is = "running" /\ Op(p) \in Ended /\ proc' = [proc EXCEPT ![p].is = Op(p)]
      /\ UNCHANGED <<waiter, chosen, pipe, said, readerVars, timed_out, exit, passed, killed>>
  BY DEF ends, At, Ends, Ended
<1>2. /\ tree' = tree /\ caller' = caller /\ expect' = expect /\ timeout' = timeout
      /\ thread' = thread /\ buf' = buf /\ remaining' = remaining /\ waiter' = waiter
      /\ timed_out' = timed_out
      /\ exit' = exit /\ passed' = passed /\ killed' = killed /\ pipe' = pipe /\ said' = said
  BY <1>1 DEF chosen, readerVars
<1>3. /\ proc'[p].is \in Ended /\ proc'[p].is # "running" /\ proc'[p].is # "absent"
      /\ \A q \in Processes \ {p} : proc'[q] = proc[q]
      /\ proc' \in [Processes -> [at : Nat \ {0}, is : {"absent", "running"} \cup Ended]]
  BY <1>1 DEF CommandTypes, Ended
<1>4. CommandTypes'
  BY <1>2, <1>3 DEF CommandTypes
<1>5. OnTrack'
  BY <1>1, <1>2, <1>3 DEF OnTrack, Processes
<1>6. KeepsFirst'
  BY <1>2, KeptAsBefore
<1>7. \A q \in Processes : Holds(q)' => Holds(q)
  BY <1>2, <1>3 DEF Holds
<1>8. EndedForGood'
  BY <1>2, <1>7 DEF EndedForGood
<1>9. JoinsInOrder'
  BY <1>2 DEF JoinsInOrder
<1>10. ChildIsJudged'
  <2>1. CASE p = "child"
    <3>1. waiter \notin Joining /\ ~killed
      BY <1>1, <2>1 DEF ChildIsJudged, Ended
    <3> QED
      BY <1>2, <3>1 DEF ChildIsJudged, Joining
  <2>2. CASE p # "child"
    BY <1>2, <1>3, <2>2, JudgedAsBefore DEF Processes
  <2> QED
    BY <2>1, <2>2
<1> QED
  BY <1>4, <1>5, <1>6, <1>8, <1>9, <1>10

-----------------------------------------------------------------------------
(* The steps of the readers                                                *)

LEMMA StepReads == ASSUME CommandInv, NEW s \in Pipes, reads(s) PROVE CommandInv'
<1> USE DEF CommandInv
<1>1. PICK n \in 1..Min({Chunk, Len(pipe[s])}) :
        /\ buf' = [buf EXCEPT ![s] = @ \o SubSeq(pipe[s], 1, Taken(s, n))]
        /\ remaining' = [remaining EXCEPT ![s] = @ - Taken(s, n)]
        /\ pipe' = [pipe EXCEPT ![s] = SubSeq(@, n + 1, Len(@))]
  BY DEF reads
<1>2. /\ tree' = tree /\ caller' = caller /\ expect' = expect /\ timeout' = timeout
      /\ thread' = thread /\ waiter' = waiter /\ proc' = proc /\ said' = said
      /\ timed_out' = timed_out
      /\ exit' = exit /\ passed' = passed /\ killed' = killed
      /\ thread[s] = "reading"
  BY DEF reads, chosen, Reading
<1>3. /\ pipe[s] \in Seq(Byte) /\ said[s] \in Seq(Byte) /\ buf[s] \in Seq(Byte)
      /\ remaining[s] \in Nat /\ Chunk \in Nat \ {0} /\ Len(pipe[s]) \in Nat
      /\ Keeps(buf[s], remaining[s], pipe[s], said[s])
  BY CommandAssumption DEF CommandTypes, KeepsFirst
<1> DEFINE taken == Taken(s, n)
           bb == buf[s] \o SubSeq(pipe[s], 1, taken)
           rest == SubSeq(pipe[s], n + 1, Len(pipe[s]))
<1>4. n \in 1..Len(pipe[s])
  <2>1. Min({Chunk, Len(pipe[s])}) = IF Chunk <= Len(pipe[s]) THEN Chunk ELSE Len(pipe[s])
    BY <1>3, MinOfTwo
  <2> QED
    BY <1>3, <2>1
<1>5. taken \in Nat /\ taken = (IF remaining[s] <= n THEN remaining[s] ELSE n)
  BY <1>3, <1>4, MinOfTwo DEF Taken
<1>6. bb \in Seq(Byte) /\ rest \in Seq(Byte) /\ remaining[s] - taken \in Nat
  <2>1. taken <= Len(pipe[s]) /\ remaining[s] - taken \in Nat
    BY <1>3, <1>4, <1>5
  <2>2. SubSeq(pipe[s], 1, taken) \in Seq(Byte) /\ rest \in Seq(Byte)
    BY <1>3, <1>4, <1>5, <2>1, SubSeqProperties
  <2> QED
    BY <1>3, <2>1, <2>2, ConcatProperties
<1>7. Keeps(bb, remaining[s] - taken, rest, said[s])
  BY <1>3, <1>4, <1>5, KeepsOnRead
<1> HIDE DEF taken, bb, rest
<1>8. /\ buf' = [buf EXCEPT ![s] = bb] /\ pipe' = [pipe EXCEPT ![s] = rest]
      /\ remaining' = [remaining EXCEPT ![s] = remaining[s] - taken]
  BY <1>1 DEF taken, bb, rest
<1>9. CommandTypes'
  BY <1>2, <1>6, <1>8 DEF CommandTypes
<1>10. OnTrack'
  BY <1>2 DEF OnTrack
<1>11. KeepsFirst'
  <2> SUFFICES ASSUME NEW z \in Pipes PROVE Keeps(buf'[z], remaining'[z], pipe'[z], said'[z])
    BY DEF KeepsFirst, Keeps
  <2>1. CASE z = s
    BY <1>2, <1>7, <1>8, <2>1 DEF CommandTypes
  <2>2. CASE z # s
    BY <1>2, <1>8, <2>2 DEF KeepsFirst, CommandTypes
  <2> QED
    BY <2>1, <2>2
<1>12. EndedForGood'
  <2>1. \A z \in Pipes \ {s} : pipe'[z] = pipe[z]
    BY <1>8 DEF CommandTypes
  <2>2. \A q \in Processes : Holds(q)' => Holds(q)
    BY <1>2 DEF Holds
  <2> QED
    BY <1>2, <2>1, <2>2 DEF EndedForGood
<1>13. JoinsInOrder'
  BY <1>2 DEF JoinsInOrder
<1>14. ChildIsJudged'
  BY <1>2, JudgedAsBefore
<1> QED
  BY <1>9, <1>10, <1>11, <1>12, <1>13, <1>14

LEMMA StepReadsEnd == ASSUME CommandInv, NEW s \in Pipes, reads_end(s) PROVE CommandInv'
<1> USE DEF CommandInv
<1>1. /\ pipe[s] = <<>> /\ \A p \in Processes : ~Holds(p)
      /\ thread' = [thread EXCEPT ![s] = "ended"]
      /\ tree' = tree /\ caller' = caller /\ expect' = expect /\ timeout' = timeout
      /\ buf' = buf /\ remaining' = remaining /\ waiter' = waiter /\ proc' = proc
      /\ timed_out' = timed_out
      /\ exit' = exit /\ passed' = passed /\ killed' = killed /\ pipe' = pipe /\ said' = said
  BY DEF reads_end, chosen, processVars
<1>2. CommandTypes'
  BY <1>1 DEF CommandTypes
<1>3. OnTrack'
  BY <1>1 DEF OnTrack
<1>4. KeepsFirst'
  BY <1>1, KeptAsBefore
<1>5. EndedForGood'
  <2>1. \A q \in Processes : Holds(q)' => Holds(q)
    BY <1>1 DEF Holds
  <2>2. \A z \in Pipes \ {s} : thread'[z] = thread[z]
    BY <1>1 DEF CommandTypes
  <2> QED
    BY <1>1, <2>1, <2>2 DEF EndedForGood
<1>6. JoinsInOrder'
  BY <1>1 DEF JoinsInOrder, CommandTypes, Pipes
<1>7. ChildIsJudged'
  BY <1>1, JudgedAsBefore
<1> QED
  BY <1>2, <1>3, <1>4, <1>5, <1>6, <1>7

-----------------------------------------------------------------------------
(* The steps of the thread that runs the command                           *)

\* A step of this thread that leaves the processes and the readers alone
\* keeps what is said of them.
LEMMA OthersAsBefore ==
    ASSUME CommandInv, waiter # "ready", waiter' # "ready",
           UNCHANGED <<chosen, processVars, readerVars>>
    PROVE  OnTrack' /\ KeepsFirst' /\ EndedForGood'
<1> USE DEF CommandInv
<1>1. tree' = tree /\ proc' = proc /\ pipe' = pipe /\ said' = said /\ thread' = thread
      /\ buf' = buf /\ remaining' = remaining
  BY DEF chosen, processVars, readerVars
<1>2. OnTrack'
  BY <1>1 DEF OnTrack
<1>3. KeepsFirst'
  BY <1>1, KeptAsBefore
<1>4. \A q \in Processes : Holds(q)' => Holds(q)
  BY <1>1 DEF Holds
<1>5. EndedForGood'
  BY <1>1, <1>4 DEF EndedForGood
<1> QED
  BY <1>2, <1>3, <1>5

LEMMA StepSpawn ==
    ASSUME CommandInv, NEW t \in Trees,
           execute_command(t) \/ execute_scenario_command(t) \/ run_set_command(t)
    PROVE  CommandInv'
<1> USE DEF CommandInv
<1>1. /\ waiter = "ready" /\ waiter' = "waiting" /\ tree' = t
      /\ proc' = Started(proc, "child") /\ thread' = [s \in Pipes |-> "reading"]
      /\ pipe' = pipe /\ said' = said /\ buf' = buf /\ remaining' = remaining
      /\ timed_out' = timed_out
      /\ exit' = exit /\ passed' = passed /\ killed' = killed
  BY DEF execute_command, execute_scenario_command, run_set_command, spawn
<1>2. \/ caller' = "test" /\ timeout' \in BOOLEAN /\ expect' \in {"zero", "nonzero"}
      \/ caller' \in {"gtest", "set"} /\ timeout' = timeout /\ expect' = expect
  BY DEF execute_command, execute_scenario_command, run_set_command, spawn
<1>3. ~timeout /\ expect = "zero" /\ ~killed
  BY <1>1 DEF ChildIsJudged, CommandTypes, Joining
<1>4. t \in Tree /\ t["child"] # <<>>
  BY CommandAssumption DEF Processes
<1>5. 1 \in DOMAIN t["child"]
  <2>1. t["child"] \in Seq(Written \cup Ends \cup {"fork", "close"})
    BY <1>4 DEF Tree, Processes
  <2> QED
    BY <1>4, <2>1
<1>6. /\ proc'["child"] = [at |-> 1, is |-> "running"] /\ proc'["kid"] = proc["kid"]
      /\ proc["kid"].is = "absent"
      /\ proc' \in [Processes -> [at : Nat \ {0}, is : {"absent", "running"} \cup Ended]]
  BY <1>1 DEF CommandTypes, OnTrack, Started, Processes
<1>7. CommandTypes'
  BY <1>1, <1>2, <1>3, <1>4, <1>6 DEF CommandTypes
<1>8. OnTrack'
  BY <1>1, <1>5, <1>6 DEF OnTrack, Processes
<1>9. KeepsFirst'
  BY <1>1, KeptAsBefore
<1>10. EndedForGood'
  BY <1>1 DEF EndedForGood
<1>11. JoinsInOrder'
  BY <1>1 DEF JoinsInOrder
<1>12. ChildIsJudged'
  BY <1>1, <1>2, <1>3 DEF ChildIsJudged, Joining
<1> QED
  BY <1>7, <1>8, <1>9, <1>10, <1>11, <1>12

\* What a child that was spawned and does not run is.
LEMMA ChildHasEnded ==
    ASSUME CommandInv, waiter # "ready", ChildEnded
    PROVE  proc["child"].is \in Ended
BY DEF CommandInv, CommandTypes, OnTrack, ChildEnded, Processes

LEMMA StepWaits == ASSUME CommandInv, waits \/ waits_again PROVE CommandInv'
<1> USE DEF CommandInv
<1>1. /\ waiter \in {"waiting", "killed"} /\ ChildEnded /\ waiter' = "join_out"
      /\ exit' = Code(proc["child"].is)
      /\ UNCHANGED <<chosen, processVars, readerVars, timed_out, passed, killed>>
  BY DEF waits, waits_again
<1>2. /\ tree' = tree /\ caller' = caller /\ expect' = expect /\ timeout' = timeout
      /\ thread' = thread /\ buf' = buf /\ remaining' = remaining /\ proc' = proc
      /\ killed' = killed /\ pipe' = pipe /\ said' = said
  BY <1>1 DEF chosen, readerVars, processVars
<1>3. proc["child"].is \in Ended
  BY <1>1, ChildHasEnded
<1>4. CommandTypes'
  BY <1>1, <1>2 DEF CommandTypes, Joining
<1>5. OnTrack' /\ KeepsFirst' /\ EndedForGood'
  BY <1>1, OthersAsBefore
<1>6. JoinsInOrder'
  BY <1>1 DEF JoinsInOrder
<1>7. ChildIsJudged'
  BY <1>1, <1>2, <1>3 DEF ChildIsJudged, Joining, Code
<1> QED
  BY <1>4, <1>5, <1>6, <1>7

LEMMA StepExpires == ASSUME CommandInv, expires PROVE CommandInv'
<1> USE DEF CommandInv
<1>1. /\ waiter = "waiting" /\ timeout /\ waiter' = "expired" /\ timed_out' = TRUE
      /\ UNCHANGED <<chosen, processVars, readerVars, exit, passed, killed>>
  BY DEF expires
<1>2. /\ tree' = tree /\ caller' = caller /\ expect' = expect /\ timeout' = timeout
      /\ thread' = thread /\ buf' = buf /\ remaining' = remaining /\ proc' = proc
      /\ killed' = killed /\ pipe' = pipe /\ said' = said /\ exit' = exit /\ passed' = passed
  BY <1>1 DEF chosen, readerVars, processVars
<1>3. CommandTypes'
  BY <1>1, <1>2 DEF CommandTypes
<1>4. OnTrack' /\ KeepsFirst' /\ EndedForGood'
  BY <1>1, OthersAsBefore
<1>5. JoinsInOrder'
  BY <1>1 DEF JoinsInOrder
<1>6. ChildIsJudged'
  BY <1>1, <1>2 DEF ChildIsJudged, Joining
<1> QED
  BY <1>3, <1>4, <1>5, <1>6

LEMMA StepKills == ASSUME CommandInv, kills PROVE CommandInv'
<1> USE DEF CommandInv
<1>1. /\ waiter = "expired" /\ waiter' = "killed" /\ killed' = ~ChildEnded
      /\ proc' = IF ChildEnded THEN proc ELSE [proc EXCEPT !["child"].is = "signal"]
      /\ UNCHANGED <<chosen, pipe, said, readerVars, timed_out, exit, passed>>
  BY DEF kills
<1>2. /\ tree' = tree /\ caller' = caller /\ expect' = expect /\ timeout' = timeout
      /\ thread' = thread /\ buf' = buf /\ remaining' = remaining
      /\ pipe' = pipe /\ said' = said /\ exit' = exit /\ passed' = passed
      /\ timed_out' = timed_out
  BY <1>1 DEF chosen, readerVars
<1>3. /\ proc' \in [Processes -> [at : Nat \ {0}, is : {"absent", "running"} \cup Ended]]
      /\ \A q \in Processes : proc'[q] = proc[q] \/ (q = "child" /\ proc'[q].is = "signal")
      /\ ~ChildEnded => proc'["child"].is = "signal"
  BY <1>1 DEF CommandTypes, Processes, Ended
<1>4. CommandTypes'
  BY <1>1, <1>2, <1>3 DEF CommandTypes, ChildEnded
<1>5. OnTrack'
  BY <1>1, <1>2, <1>3 DEF OnTrack, Processes
<1>6. KeepsFirst'
  BY <1>2, KeptAsBefore
<1>7. \A q \in Processes : Holds(q)' => Holds(q)
  BY <1>2, <1>3 DEF Holds
<1>8. EndedForGood'
  BY <1>2, <1>7 DEF EndedForGood
<1>9. JoinsInOrder'
  BY <1>1 DEF JoinsInOrder
<1>10. ChildIsJudged'
  <2>1. killed' => timeout /\ timed_out /\ proc'["child"].is = "signal"
    BY <1>1, <1>2, <1>3 DEF ChildIsJudged
  <2> QED
    BY <1>1, <1>2, <2>1 DEF ChildIsJudged, Joining
<1> QED
  BY <1>4, <1>5, <1>6, <1>8, <1>9, <1>10

LEMMA StepJoins == ASSUME CommandInv, NEW s \in Pipes, joins(s) PROVE CommandInv'
<1> USE DEF CommandInv
<1>1. /\ \/ s = "out" /\ waiter = "join_out" /\ waiter' = "join_err"
         \/ s = "err" /\ waiter = "join_err" /\ waiter' = "joined"
      /\ thread[s] = "ended"
      /\ UNCHANGED <<chosen, processVars, readerVars, timed_out, exit, passed, killed>>
  BY DEF joins, Pipes
<1>2. /\ tree' = tree /\ caller' = caller /\ expect' = expect /\ timeout' = timeout
      /\ thread' = thread /\ buf' = buf /\ remaining' = remaining /\ proc' = proc
      /\ killed' = killed /\ pipe' = pipe /\ said' = said /\ exit' = exit /\ passed' = passed
  BY <1>1 DEF chosen, readerVars, processVars
<1>3. CommandTypes'
  BY <1>1, <1>2 DEF CommandTypes, Joining
<1>4. OnTrack' /\ KeepsFirst' /\ EndedForGood'
  BY <1>1, OthersAsBefore
<1>5. JoinsInOrder'
  BY <1>1, <1>2 DEF JoinsInOrder
<1>6. ChildIsJudged'
  BY <1>1, <1>2 DEF ChildIsJudged, Joining
<1> QED
  BY <1>3, <1>4, <1>5, <1>6

LEMMA StepRecords == ASSUME CommandInv, records PROVE CommandInv'
<1> USE DEF CommandInv
<1>1. /\ waiter = "joined" /\ waiter' \in {"recorded", "panicked"}
      /\ passed' = IF Passes THEN "yes" ELSE "no"
      /\ UNCHANGED <<chosen, processVars, readerVars, timed_out, exit, killed>>
  BY DEF records
<1>2. /\ tree' = tree /\ caller' = caller /\ expect' = expect /\ timeout' = timeout
      /\ thread' = thread /\ buf' = buf /\ remaining' = remaining /\ proc' = proc
      /\ killed' = killed /\ pipe' = pipe /\ said' = said /\ exit' = exit
  BY <1>1 DEF chosen, readerVars, processVars
<1>3. CommandTypes'
  BY <1>1, <1>2 DEF CommandTypes, Joining
<1>4. OnTrack' /\ KeepsFirst' /\ EndedForGood'
  BY <1>1, OthersAsBefore
<1>5. JoinsInOrder'
  BY <1>1, <1>2 DEF JoinsInOrder
<1>6. Passes' = Passes
  BY <1>2 DEF Passes, ExpectationMatches, ScenarioGoesOn, ValueIsSet
<1>7. ChildIsJudged'
  BY <1>1, <1>2, <1>6 DEF ChildIsJudged, Joining
<1> QED
  BY <1>3, <1>4, <1>5, <1>7

-----------------------------------------------------------------------------
(* The theorems                                                            *)

LEMMA NextCommandInv ==
    ASSUME CommandInv, [CommandNext]_commandVars
    PROVE  CommandInv'
<1>1. CASE \E t \in Trees :
             execute_command(t) \/ execute_scenario_command(t) \/ run_set_command(t)
  BY <1>1, StepSpawn
<1>2. CASE Waiter
  BY <1>2, StepWaits, StepExpires, StepKills, StepJoins, StepRecords DEF Waiter
<1>3. CASE \E p \in Processes : Process(p)
  BY <1>3, StepWrites, StepForks, StepCloses, StepEnds DEF Process
<1>4. CASE \E s \in Pipes : Reader(s)
  BY <1>4, StepReads, StepReadsEnd DEF Reader
<1>5. CASE UNCHANGED commandVars
  <2>1. /\ UNCHANGED <<waiter, caller, expect, timeout, tree, proc, pipe, thread, buf>>
        /\ UNCHANGED <<remaining, timed_out, exit, passed, said, killed>>
    BY <1>5 DEF commandVars
  <2>2. \A q \in Processes : Holds(q)' = Holds(q)
    BY <2>1 DEF Holds
  <2>3. Passes' = Passes
    BY <2>1 DEF Passes, ExpectationMatches, ScenarioGoesOn, ValueIsSet
  <2>4. CommandTypes' /\ OnTrack' /\ JoinsInOrder'
    BY <2>1 DEF CommandInv, CommandTypes, OnTrack, JoinsInOrder
  <2>5. KeepsFirst' /\ EndedForGood' /\ ChildIsJudged'
    BY <2>1, <2>2, <2>3, KeptAsBefore DEF CommandInv, EndedForGood, ChildIsJudged
  <2> QED
    BY <2>4, <2>5 DEF CommandInv
<1> QED
  BY <1>1, <1>2, <1>3, <1>4, <1>5 DEF CommandNext, CommandSteps

LEMMA CommandInvHolds == CommandSafety => []CommandInv
BY InitCommandInv, NextCommandInv, PTL DEF CommandSafety

\* What is kept of a pipe is what was written to it first, whoever wrote it,
\* whatever the sizes of pipes and reads and whatever the limit.
THEOREM KeptOutputIsFirst == CommandSafety => []OutputIsFirstBytes
<1>1. ASSUME CommandInv PROVE OutputIsFirstBytes
  <2> SUFFICES ASSUME waiter \in {"joined", "recorded", "panicked"}, NEW s \in Pipes
               PROVE  buf[s] = SubSeq(said[s], 1, Min({Limit, Len(said[s])}))
    BY DEF OutputIsFirstBytes
  <2>1. thread[s] = "ended"
    BY <1>1 DEF CommandInv, JoinsInOrder, Pipes
  <2>2. pipe[s] = <<>>
    BY <1>1, <2>1 DEF CommandInv, EndedForGood
  <2>3. /\ Keeps(buf[s], remaining[s], <<>>, said[s])
        /\ buf[s] \in Seq(Byte) /\ said[s] \in Seq(Byte)
    BY <1>1, <2>2 DEF CommandInv, KeepsFirst, CommandTypes
  <2> QED
    BY <2>3, KeepsAtEnd
<1> QED
  BY <1>1, CommandInvHolds, PTL

\* The verdict is about how the child ended, and a child the timeout killed
\* does not pass, whatever the processes do and whenever the timeout strikes.
THEOREM VerdictFollowsChild == CommandSafety => []VerdictIsOfChild
<1>1. ASSUME CommandInv PROVE VerdictIsOfChild
  <2> SUFFICES ASSUME waiter = "recorded"
               PROVE  /\ passed = "yes" => ~killed /\ EndsAsExpected
                      /\ ~timed_out /\ EndsAsExpected => passed = "yes"
    BY DEF VerdictIsOfChild
  <2>1. /\ proc["child"].is \in Ended /\ exit = Code(proc["child"].is)
        /\ passed = "yes" <=> Passes
        /\ killed => timeout /\ timed_out /\ proc["child"].is = "signal"
        /\ caller # "test" => ~timeout /\ expect = "zero"
        /\ caller \in {"test", "gtest", "set"} /\ expect \in {"zero", "nonzero"}
        /\ killed \in BOOLEAN /\ timeout \in BOOLEAN
    BY <1>1 DEF CommandInv, CommandTypes, ChildIsJudged, Joining
  <2>2. /\ exit = "0" <=> proc["child"].is = "0"
        /\ exit = "1" <=> proc["child"].is = "1"
        /\ exit = "none" <=> proc["child"].is = "signal"
        /\ exit \in {"0", "1", "none"}
    BY <2>1 DEF Code, Ended
  <2>3. CASE caller = "test"
    BY <2>1, <2>2, <2>3 DEF EndsAsExpected, Passes, ExpectationMatches, Ended
  <2>4. CASE caller = "gtest"
    BY <2>1, <2>2, <2>4 DEF EndsAsExpected, Passes, ScenarioGoesOn, Ended
  <2>5. CASE caller = "set"
    BY <2>1, <2>2, <2>5 DEF EndsAsExpected, Passes, ValueIsSet, Ended
  <2> QED
    BY <2>1, <2>3, <2>4, <2>5
<1> QED
  BY <1>1, CommandInvHolds, PTL

=============================================================================
