---------------------------- MODULE ScriptRunProofs ----------------------------
(***************************************************************************)
(* A script that is read and run runs its command as CommandRun says, so   *)
(* that the theorems of CommandRunProofs hold of it; its reader never      *)
(* enters a file from within that file, returns the plan that the script   *)
(* says, reads back the script that triage minimized, and gives a process  *)
(* the arguments that the author of the script meant; its checks of a      *)
(* document say what is meant; and its `packs` command shows and plans the *)
(* packs of who asks.                                                      *)
(***************************************************************************)
EXTENDS ScriptRun, CommandRunProofs, WellFoundedInduction, FiniteSetTheorems

\* A step of a run is a step of its command, or leaves the command alone.
LEMMA RunStepIsCommandStep == ASSUME [RunNext]_scriptRunVars PROVE [CommandNext]_commandVars
<1>1. CASE reads_script
  BY <1>1 DEF reads_script
<1>2. CASE executes_step
  <2>1. PICK text \in DOMAIN Programs : \E t \in Programs[text] :
           execute_command(t) \/ execute_scenario_command(t) \/ run_set_command(t)
    BY <1>2 DEF executes_step
  <2>2. Programs[text] \subseteq Trees
    BY ScriptAssumption
  <2> QED
    BY <2>1, <2>2 DEF CommandNext
<1>3. CASE executing
  BY <1>3 DEF executing, CommandNext
<1>4. CASE checks_document
  BY <1>4 DEF checks_document
<1>5. CASE asks_for_packs
  BY <1>5 DEF asks_for_packs
<1>6. CASE UNCHANGED scriptRunVars
  BY <1>6 DEF scriptRunVars
<1> QED
  BY <1>1, <1>2, <1>3, <1>4, <1>5, <1>6 DEF RunNext

\* The run of a script implements the specification of a command, fairness
\* included.
THEOREM RunImplementsCommand == RunSpec => CommandSpec
<1>1. RunInit => CommandInit
  BY DEF RunInit
<1> QED
  BY <1>1, RunStepIsCommandStep, PTL DEF RunSpec, CommandSpec

\* In a run the kept output of the command is what was written first.
THEOREM RunKeepsFirstOutput == RunSpec => []OutputIsFirstBytes
BY RunImplementsCommand, KeptOutputIsFirst, PTL DEF CommandSpec, CommandSafety

\* In a run the verdict is about how the child ended.
THEOREM RunVerdictFollowsChild == RunSpec => []VerdictIsOfChild
BY RunImplementsCommand, VerdictFollowsChild, PTL DEF CommandSpec, CommandSafety

-----------------------------------------------------------------------------
(* The reader                                                              *)

Less == {ss \in Nat \X Nat : ss[1] < ss[2]}

\* A set of numbers has a least one.
LEMMA MinIsLeast ==
    ASSUME NEW S \in SUBSET Nat, S # {}
    PROVE  Min(S) \in S /\ \A y \in S : Min(S) <= y
<1>1. OpToRel(<, Nat) = Less
  BY DEF OpToRel, Less
<1>2. IsWellFoundedOn(Less, Nat)
  BY <1>1, NatLessThanWellFounded, Zenon
<1>3. PICK x \in S : \A y \in S : ~(<<y, x>> \in Less)
  BY <1>2, WFMin, Zenon
<1>4. ASSUME NEW y \in S PROVE x <= y
  <2>1. x \in Nat /\ y \in Nat
    OBVIOUS
  <2>2. <<y, x>> \notin Less
    BY <1>3
  <2> QED
    BY <2>1, <2>2 DEF Less
<1> QED
  BY <1>4 DEF Min

\* Whatever a line is, the cursor moves on: past its body, if it has one.
LEMMA BodyMovesOn ==
    ASSUME NEW kind, NEW lines \in Seq(ScriptLine), NEW i \in 1..Len(lines), NEW word,
           WithBody(kind, lines, i, Terminator(lines, i, word)).kind # "error"
    PROVE  WithBody(kind, lines, i, Terminator(lines, i, word)).next \in Nat \ {0}
<1> DEFINE terminators == {k \in (i + 1)..Len(lines) : lines[k].text = word}
<1>1. Terminator(lines, i, word) = IF terminators = {} THEN 0 ELSE Min(terminators)
  BY DEF Terminator
<1>2. terminators \in SUBSET Nat
  OBVIOUS
<1>3. terminators # {} => Min(terminators) \in Nat
  BY <1>2, MinIsLeast
<1>4. Terminator(lines, i, word) # 0
  BY DEF WithBody, Failed
<1>5. Terminator(lines, i, word) \in Nat
  BY <1>1, <1>3
<1> HIDE DEF terminators
<1> QED
  BY <1>4, <1>5 DEF WithBody

LEMMA CommandMovesOn ==
    ASSUME NEW s, NEW i \in Nat, Command(s, i).kind # "error"
    PROVE  Command(s, i).next \in Nat \ {0}
BY DEF Command, Failed

LEMMA DirectiveMovesOn ==
    ASSUME NEW i \in Nat
    PROVE  Directive(i).next \in Nat \ {0}
BY DEF Directive

LEMMA ParsedMovesOn ==
    ASSUME NEW r, NEW lines \in Seq(ScriptLine), NEW i \in 1..Len(lines),
           Parsed(r, lines, i).kind # "error"
    PROVE  Parsed(r, lines, i).next \in Nat \ {0}
<1>1. ASSUME parse_command_line(lines, i).kind # "error"
      PROVE  parse_command_line(lines, i).next \in Nat \ {0}
  BY <1>1, BodyMovesOn, CommandMovesOn DEF parse_command_line, Failed
<1>2. ASSUME parse_hash_directive(lines, i).kind # "error"
      PROVE  parse_hash_directive(lines, i).next \in Nat \ {0}
  BY <1>2, BodyMovesOn, CommandMovesOn, DirectiveMovesOn DEF parse_hash_directive, Failed
<1>3. ASSUME parse_directive(lines, i).kind # "error"
      PROVE  parse_directive(lines, i).next \in Nat \ {0}
  BY <1>3, DirectiveMovesOn DEF parse_directive, Failed
<1> QED
  BY <1>1, <1>2, <1>3, CommandMovesOn DEF Parsed

\* While a file is read there is a call for it, and the legacy reader's
\* include stack is the files of its calls; the other reader has one call.
StackIsCalls ==
    outcome = "reading" =>
        /\ frames # <<>>
        /\ reader = "legacy" =>
              /\ Len(stack) = Len(frames)
              /\ \A i \in DOMAIN frames : stack[i] = Target[frames[i].path]
        /\ reader # "legacy" => Len(frames) = 1

Calls == Seq([path: Paths, next: Nat \ {0}])

LEMMA CallsAre ==
    ASSUME NEW fs \in Calls
    PROVE  /\ Len(fs) \in Nat /\ DOMAIN fs = 1..Len(fs)
           /\ \A i \in 1..Len(fs) :
                 /\ fs[i] \in [path: Paths, next: Nat \ {0}]
                 /\ fs[i].path \in Paths /\ fs[i].next \in Nat \ {0}
<1>1. \A i \in 1..Len(fs) : fs[i] \in [path: Paths, next: Nat \ {0}]
  BY ElementOfSeq DEF Calls
<1> QED
  BY <1>1 DEF Calls

\* The steps so far were read from lines.
StepsAreLines == \E read : steps \in Seq(read) /\ \A s \in read : s.raw \in ScriptLine

ReaderInv ==
    /\ script \in Paths /\ disk \in [Files -> Seq(ScriptLine)]
    /\ stack \in Seq(Files) /\ frames \in Calls
    /\ \A i \in DOMAIN frames : Target[frames[i].path] # None
    /\ StepsAreLines
    /\ StackIsCalls
    /\ NoFileInsideItself

LEMMA InitReaderInv == ASSUME Init PROVE ReaderInv
<1>1. frames \in Calls /\ stack \in Seq(Files) /\ DOMAIN frames = {}
  BY DEF Init, Calls
<1>2. script \in Paths /\ disk \in [Files -> Seq(ScriptLine)]
  BY ReaderAssumption DEF Init
<1>3. StepsAreLines
  <2>1. steps \in Seq({})
    BY DEF Init
  <2> QED
    BY <2>1 DEF StepsAreLines
<1>4. StackIsCalls
  BY DEF Init, StackIsCalls
<1> QED
  BY <1>1, <1>2, <1>3, <1>4 DEF ReaderInv, NoFileInsideItself

\* The line a reader is at.
LEMMA FrameHasLine ==
    ASSUME ReaderInv, AtLine
    PROVE  /\ Len(frames) \in DOMAIN frames /\ Frame = frames[Len(frames)]
           /\ Frame.path \in Paths /\ Frame.next \in Nat \ {0}
           /\ Lines \in Seq(ScriptLine) /\ Frame.next \in 1..Len(Lines)
           /\ Line \in ScriptLine
<1>1. Len(frames) \in DOMAIN frames /\ Frame = frames[Len(frames)]
  BY DEF ReaderInv, StackIsCalls, AtLine, Calls, Frame, Last
<1>2. Frame.path \in Paths /\ Frame.next \in Nat \ {0} /\ Target[Frame.path] # None
  BY <1>1, CallsAre DEF ReaderInv
<1>3. Target[Frame.path] \in Files
  BY <1>2, ReaderAssumption
<1>4. Lines \in Seq(ScriptLine)
  BY <1>3 DEF ReaderInv, Lines
<1>5. Frame.next \in 1..Len(Lines)
  BY <1>2, <1>4 DEF AtLine
<1> QED
  BY <1>1, <1>2, <1>4, <1>5 DEF Line

\* A cursor moves, the calls stay.
LEMMA MovedCalls ==
    ASSUME ReaderInv, outcome = "reading", NEW next \in Nat \ {0}
    PROVE  /\ Moved(next) \in Calls
           /\ Len(Moved(next)) = Len(frames)
           /\ DOMAIN Moved(next) = DOMAIN frames
           /\ \A i \in DOMAIN frames : Moved(next)[i].path = frames[i].path
<1> DEFINE frame == [frames[Len(frames)] EXCEPT !.next = next]
<1>1. Len(frames) \in 1..Len(frames) /\ DOMAIN frames = 1..Len(frames)
  BY DEF ReaderInv, StackIsCalls, Calls
<1>2. frames[Len(frames)] \in [path: Paths, next: Nat \ {0}]
  BY <1>1, CallsAre DEF ReaderInv
<1>3. frame \in [path: Paths, next: Nat \ {0}] /\ frame.path = frames[Len(frames)].path
  BY <1>2
<1>4. Moved(next) = [frames EXCEPT ![Len(frames)] = frame]
  BY DEF Moved
<1> HIDE DEF frame
<1>5. /\ Moved(next) \in Calls /\ Len(Moved(next)) = Len(frames)
      /\ \A j \in 1..Len(frames) :
            Moved(next)[j] = IF j = Len(frames) THEN frame ELSE frames[j]
  BY <1>1, <1>3, <1>4, ExceptSeq DEF ReaderInv, Calls
<1>6. DOMAIN Moved(next) = 1..Len(frames)
  BY <1>5, CallsAre
<1> QED
  BY <1>1, <1>3, <1>5, <1>6

\* Where only a cursor moves, and where nothing is read any more.
LEMMA ReaderMoves ==
    ASSUME ReaderInv, outcome = "reading", UNCHANGED <<reader, script, disk, stack, outcome>>,
           NEW next \in Nat \ {0}, frames' = Moved(next), StepsAreLines'
    PROVE  ReaderInv'
<1>1. /\ frames' \in Calls /\ Len(frames') = Len(frames) /\ DOMAIN frames' = DOMAIN frames
      /\ \A i \in DOMAIN frames : frames'[i].path = frames[i].path
  BY MovedCalls
<1>2. /\ \A i \in DOMAIN frames' : Target[frames'[i].path] = Target[frames[i].path]
      /\ \A i \in DOMAIN frames' : Target[frames'[i].path] # None
  BY <1>1 DEF ReaderInv
<1>3. NoFileInsideItself'
  <2> SUFFICES ASSUME NEW i \in DOMAIN frames, NEW j \in DOMAIN frames,
                      Target[frames'[i].path] = Target[frames'[j].path]
               PROVE  i = j
    BY <1>1 DEF NoFileInsideItself
  <2>1. Target[frames[i].path] = Target[frames[j].path]
    BY <1>1, <1>2
  <2> QED
    BY <2>1 DEF ReaderInv, NoFileInsideItself
<1>4. frames' # <<>>
  BY <1>1 DEF ReaderInv, StackIsCalls
<1>5. StackIsCalls'
  BY <1>1, <1>4 DEF ReaderInv, StackIsCalls
<1> QED
  BY <1>1, <1>2, <1>3, <1>5 DEF ReaderInv

LEMMA ReaderFails ==
    ASSUME ReaderInv, outcome' # "reading", UNCHANGED <<script, disk, frames, stack, steps>>
    PROVE  ReaderInv'
BY DEF ReaderInv, StepsAreLines, StackIsCalls, NoFileInsideItself

LEMMA StepParseFile == ASSUME ReaderInv, parse_gtest_file PROVE ReaderInv'
<1>1. CASE Target[script] = None
  BY <1>1, ReaderFails DEF parse_gtest_file
<1>2. CASE Target[script] # None
  <2>1. frames' = <<[path |-> script, next |-> 1]>>
    BY <1>2 DEF parse_gtest_file
  <2>2. frames' \in Calls /\ Len(frames') = 1 /\ DOMAIN frames' = {1}
        /\ frames'[1].path = script
    BY <2>1 DEF ReaderInv, Calls
  <2>3. Target[script] \in Files
    BY <1>2, ReaderAssumption DEF ReaderInv
  <2>4. /\ stack' \in Seq(Files)
        /\ reader = "legacy" => Len(stack') = 1 /\ stack'[1] = Target[script]
    <3>1. stack' = IF reader = "legacy" THEN <<Target[script]>> ELSE <<>>
      BY <1>2 DEF parse_gtest_file, Key
    <3> QED
      BY <2>3, <3>1
  <2>5. UNCHANGED <<reader, script, disk, steps>>
    BY DEF parse_gtest_file
  <2>6. StackIsCalls' /\ NoFileInsideItself'
    BY <2>2, <2>4, <2>5 DEF StackIsCalls, NoFileInsideItself
  <2> QED
    BY <1>2, <2>2, <2>4, <2>5, <2>6 DEF ReaderInv, StepsAreLines
<1> QED
  BY <1>1, <1>2

\* A file that is read for an @include is none of those being read.
LEMMA StepInclude == ASSUME ReaderInv, include_line PROVE ReaderInv'
<1> DEFINE p == Resolve[Frame.path][Line.to]
           before == Moved(Frame.next + 1)
<1>1. outcome = "reading" /\ reader = "legacy" /\ AtLine
  BY DEF include_line, AtLine, IsInclude
<1>2. UNCHANGED <<reader, disk, script, steps>>
  BY DEF include_line
<1>3. CASE outcome' = "error" /\ UNCHANGED <<frames, stack>>
  BY <1>2, <1>3, ReaderFails
<1>4. CASE /\ Line.to # None /\ ~Contains(stack, Key(p)) /\ Target[p] # None
           /\ stack' = Append(stack, Key(p))
           /\ frames' = Append(before, [path |-> p, next |-> 1])
           /\ UNCHANGED outcome
  <2>1. p \in Paths
    BY <1>1, <1>4, FrameHasLine, ReaderAssumption DEF ScriptLine
  <2>2. Key(p) = Target[p] /\ Target[p] \in Files
    BY <1>4, <2>1, ReaderAssumption DEF Key
  <2>3. /\ before \in Calls /\ Len(before) = Len(frames)
        /\ \A i \in DOMAIN frames : before[i].path = frames[i].path
    BY <1>1, FrameHasLine, MovedCalls
  <2> HIDE DEF p, before
  <2>4. /\ stack' \in Seq(Files) /\ Len(stack') = Len(stack) + 1
        /\ stack'[Len(stack) + 1] = Target[p]
        /\ \A i \in 1..Len(stack) : stack'[i] = stack[i]
    BY <1>4, <2>2, AppendProperties DEF ReaderInv
  <2>5. /\ frames' \in Calls /\ Len(frames') = Len(frames) + 1
        /\ frames'[Len(frames) + 1].path = p
        /\ \A i \in 1..Len(frames) : frames'[i].path = frames[i].path
    <3>1. [path |-> p, next |-> 1] \in [path: Paths, next: Nat \ {0}]
      BY <2>1
    <3>2. /\ frames' \in Calls /\ Len(frames') = Len(before) + 1
          /\ frames'[Len(before) + 1] = [path |-> p, next |-> 1]
          /\ \A i \in 1..Len(before) : frames'[i] = before[i]
      BY <1>4, <2>3, <3>1, AppendProperties DEF Calls
    <3>3. DOMAIN frames = 1..Len(frames)
      BY DEF ReaderInv, Calls
    <3> QED
      BY <2>3, <3>2, <3>3
  <2>6. /\ Len(stack) = Len(frames) /\ Len(frames) \in Nat
        /\ \A i \in 1..Len(frames) : stack[i] = Target[frames[i].path]
        /\ DOMAIN frames = 1..Len(frames) /\ DOMAIN frames' = 1..(Len(frames) + 1)
    BY <1>1, <2>5 DEF ReaderInv, StackIsCalls, Calls
  <2>7. \A i \in 1..Len(frames) : Target[frames[i].path] # Target[p]
    BY <1>4, <2>2, <2>6 DEF Contains
  <2>8. \A i \in DOMAIN frames' : Target[frames'[i].path] # None
    <3>1. \A i \in 1..Len(frames) : Target[frames[i].path] # None
      BY <2>6 DEF ReaderInv
    <3>2. \A i \in 1..(Len(frames) + 1) : i \in 1..Len(frames) \/ i = Len(frames) + 1
      BY <2>6
    <3> QED
      BY <1>4, <2>5, <2>6, <3>1, <3>2
  <2>9. NoFileInsideItself'
    <3>1. ASSUME NEW i \in 1..(Len(frames) + 1), NEW j \in 1..(Len(frames) + 1),
                 Target[frames'[i].path] = Target[frames'[j].path]
          PROVE  i = j
      <4>1. CASE i \in 1..Len(frames) /\ j \in 1..Len(frames)
        <5>1. Target[frames[i].path] = Target[frames[j].path]
          BY <2>5, <3>1, <4>1
        <5> QED
          BY <2>6, <4>1, <5>1 DEF ReaderInv, NoFileInsideItself
      <4>2. CASE i = Len(frames) + 1 \/ j = Len(frames) + 1
        BY <2>5, <2>6, <2>7, <3>1, <4>2
      <4> QED
        BY <2>6, <4>1, <4>2
    <3> QED
      BY <2>6, <3>1 DEF NoFileInsideItself
  <2>10. StackIsCalls'
    <3>1. \A i \in 1..(Len(frames) + 1) : i = Len(frames) + 1 \/ i \in 1..Len(frames)
      BY <2>6
    <3>2. \A i \in 1..Len(frames) : stack'[i] = Target[frames'[i].path]
      BY <2>4, <2>5, <2>6
    <3>3. stack'[Len(frames) + 1] = Target[frames'[Len(frames) + 1].path]
      BY <2>4, <2>5, <2>6
    <3>4. \A i \in DOMAIN frames' : stack'[i] = Target[frames'[i].path]
      BY <2>6, <3>1, <3>2, <3>3
    <3>5. frames' # <<>> /\ Len(stack') = Len(frames')
      BY <2>4, <2>5, <2>6
    <3> QED
      BY <1>1, <1>2, <3>4, <3>5 DEF StackIsCalls
  <2> QED
    BY <1>2, <2>4, <2>5, <2>8, <2>9, <2>10 DEF ReaderInv, StepsAreLines
<1> QED
  BY <1>3, <1>4 DEF include_line

LEMMA StepSkip == ASSUME ReaderInv, skip_line PROVE ReaderInv'
<1>1. Frame.next + 1 \in Nat \ {0}
  BY FrameHasLine DEF skip_line
<1>2. StepsAreLines'
  BY DEF ReaderInv, skip_line, StepsAreLines
<1> QED
  BY <1>1, <1>2, ReaderMoves DEF skip_line, AtLine

LEMMA StepReadStep == ASSUME ReaderInv, step_line PROVE ReaderInv'
<1> DEFINE parsed == Parsed(reader, Lines, Frame.next)
           step == StepOf(Frame.path, Frame.next, Line, parsed)
<1>1. outcome = "reading" /\ AtLine /\ UNCHANGED <<reader, disk, script, stack>>
  BY DEF step_line, AtLine
<1>2. CASE outcome' = "error" /\ UNCHANGED <<frames, steps>>
  BY <1>1, <1>2, ReaderFails
<1>3. CASE /\ parsed.kind # "error" /\ steps' = Append(steps, step)
           /\ frames' = Moved(parsed.next) /\ UNCHANGED outcome
  <2>1. parsed.next \in Nat \ {0}
    BY <1>1, <1>3, FrameHasLine, ParsedMovesOn
  <2>2. step.raw = Line
    BY DEF StepOf
  <2>3. Line \in ScriptLine
    BY <1>1, FrameHasLine
  <2> HIDE DEF parsed, step
  <2>4. StepsAreLines'
    <3>1. PICK read : steps \in Seq(read) /\ \A s \in read : s.raw \in ScriptLine
      BY DEF ReaderInv, StepsAreLines
    <3>2. Append(steps, step) \in Seq(read \cup {step})
      BY <3>1
    <3>3. \A s \in read \cup {step} : s.raw \in ScriptLine
      BY <2>2, <2>3, <3>1
    <3> QED
      BY <1>3, <3>2, <3>3 DEF StepsAreLines
  <2> QED
    BY <1>1, <1>3, <2>1, <2>4, ReaderMoves
<1> QED
  BY <1>2, <1>3 DEF step_line

LEMMA StepReturn == ASSUME ReaderInv, return PROVE ReaderInv'
<1>1. /\ outcome = "reading" /\ UNCHANGED <<reader, disk, script, steps>>
      /\ frames' = SubSeq(frames, 1, Len(frames) - 1)
      /\ stack' = IF Len(frames) = 1 THEN stack ELSE SubSeq(stack, 1, Len(stack) - 1)
      /\ outcome' = IF Len(frames) = 1 THEN "done" ELSE "reading"
  BY DEF return, Front
<1>2. Len(frames) \in Nat \ {0} /\ DOMAIN frames = 1..Len(frames) /\ Len(stack) \in Nat
  BY <1>1 DEF ReaderInv, StackIsCalls, Calls
<1>3. /\ frames' \in Calls /\ Len(frames') = Len(frames) - 1
      /\ DOMAIN frames' = 1..(Len(frames) - 1)
      /\ \A i \in 1..(Len(frames) - 1) : frames'[i] = frames[i]
  <2> DEFINE n == Len(frames) - 1
  <2>1. n \in 0..Len(frames) /\ n >= 0
    BY <1>2
  <2>2. /\ SubSeq(frames, 1, n) \in Calls /\ Len(SubSeq(frames, 1, n)) = n
        /\ \A i \in 1..n : SubSeq(frames, 1, n)[i] = frames[i]
    <3>1. \A i \in 1..n : frames[i] \in [path: Paths, next: Nat \ {0}]
      BY <2>1, CallsAre DEF ReaderInv
    <3>2. 1 \in Int /\ n \in Int /\ n >= 0 /\ n - 1 + 1 = n
      BY <1>2
    <3> HIDE DEF n
    <3>3. /\ SubSeq(frames, 1, n) \in Seq([path: Paths, next: Nat \ {0}])
          /\ Len(SubSeq(frames, 1, n)) = IF 1 <= n THEN n - 1 + 1 ELSE 0
          /\ \A i \in 1..(n - 1 + 1) : SubSeq(frames, 1, n)[i] = frames[1 + i - 1]
      BY <3>1, <3>2, SubSeqProperties
    <3> QED
      BY <3>2, <3>3 DEF Calls
  <2> QED
    BY <1>1, <2>2, CallsAre
<1>4. NoFileInsideItself' /\ \A i \in DOMAIN frames' : Target[frames'[i].path] # None
  <2>1. \A i \in DOMAIN frames' : i \in DOMAIN frames /\ frames'[i] = frames[i]
    BY <1>2, <1>3
  <2> QED
    BY <2>1 DEF ReaderInv, NoFileInsideItself
<1>5. stack' \in Seq(Files)
  BY <1>1, <1>2 DEF ReaderInv
<1>6. StackIsCalls'
  <2>1. CASE outcome' # "reading"
    BY <2>1 DEF StackIsCalls
  <2>2. CASE outcome' = "reading"
    <3>1. Len(frames) > 1 /\ reader = "legacy" /\ Len(stack) = Len(frames)
      BY <1>1, <1>2, <2>2 DEF ReaderInv, StackIsCalls
    <3>2. /\ Len(stack') = Len(frames')
          /\ \A i \in 1..(Len(frames) - 1) : stack'[i] = stack[i]
      BY <1>1, <1>3, <3>1, SubSeqProperties DEF ReaderInv
    <3>3. frames' # <<>>
      BY <1>3, <3>1
    <3>4. \A i \in DOMAIN frames' :
             /\ i \in 1..(Len(frames) - 1) /\ i \in DOMAIN frames
             /\ frames'[i] = frames[i]
      BY <1>2, <1>3
    <3>5. \A i \in DOMAIN frames' : stack'[i] = Target[frames'[i].path]
      BY <1>1, <3>1, <3>2, <3>4 DEF ReaderInv, StackIsCalls
    <3> QED
      BY <1>1, <3>1, <3>2, <3>3, <3>5 DEF StackIsCalls
  <2> QED
    BY <2>1, <2>2
<1> QED
  BY <1>1, <1>3, <1>4, <1>5, <1>6 DEF ReaderInv, StepsAreLines

\* The minimized script is of lines that were read.
LEMMA StepWritePlan == ASSUME ReaderInv, write_plan_file PROVE ReaderInv'
<1>1. PICK read : steps \in Seq(read) /\ \A s \in read : s.raw \in ScriptLine
  BY DEF ReaderInv, StepsAreLines
<1>2. PICK best \in DOMAIN steps :
         disk' = [disk EXCEPT ![Target[Minimized]] = Contents(SubSeq(steps, 1, best))]
  BY DEF write_plan_file
<1>3. SubSeq(steps, 1, best) \in Seq(read)
  BY <1>1, <1>2
<1>4. Contents(SubSeq(steps, 1, best)) \in Seq(ScriptLine)
  <2> DEFINE ss == SubSeq(steps, 1, best)
  <2> HIDE DEF ss
  <2>1. ss \in Seq(read)
    BY <1>3 DEF ss
  <2>2. [i \in DOMAIN ss |-> ss[i].raw] \in Seq(ScriptLine)
    BY <1>1, <2>1, IsASeq
  <2> QED
    BY <2>2 DEF Contents, ss
<1>5. disk' \in [Files -> Seq(ScriptLine)]
  BY <1>2, <1>4 DEF ReaderInv
<1>6. frames' \in Calls /\ DOMAIN frames' = {} /\ stack' \in Seq(Files) /\ steps' \in Seq({})
  BY DEF write_plan_file, Calls
<1>7. script' \in Paths /\ outcome' = "start"
  BY ReaderAssumption DEF write_plan_file
<1> QED
  BY <1>5, <1>6, <1>7 DEF ReaderInv, StepsAreLines, StackIsCalls, NoFileInsideItself

LEMMA NextReaderInv == ASSUME ReaderInv, [Next]_vars PROVE ReaderInv'
<1>1. CASE UNCHANGED vars
  BY <1>1 DEF vars, ReaderInv, StepsAreLines, StackIsCalls, NoFileInsideItself
<1> QED
  BY <1>1, StepParseFile, StepSkip, StepInclude, StepReadStep, StepReturn, StepWritePlan DEF Next

\* A step of a run is a step of its reader, or leaves the reader alone.
LEMMA RunStepIsReaderStep == ASSUME [RunNext]_scriptRunVars PROVE [Next]_vars
BY DEF RunNext, scriptRunVars, reads_script, executes_step, executing, checks_document,
       asks_for_packs

\* The run of a script implements the specification of its reader.
THEOREM RunImplementsReader == RunSpec => Spec
<1>1. RunInit => Init
  BY DEF RunInit
<1> QED
  BY <1>1, RunStepIsReaderStep, PTL DEF RunSpec, Spec

\* No file is read inside itself, whichever paths and links lead to it, so
\* that includes are at most as deep as there are files: the include stack of
\* parse_gtest_contents (parse.rs), for any files, links and scripts.
THEOREM IncludesAreFinite == RunSpec => []NoFileInsideItself
<1>1. RunInit => ReaderInv
  BY InitReaderInv DEF RunInit
<1>2. ReaderInv => NoFileInsideItself
  BY DEF ReaderInv
<1> QED
  BY <1>1, <1>2, NextReaderInv, RunStepIsReaderStep, PTL DEF RunSpec

-----------------------------------------------------------------------------
(* The minimized script                                                    *)

\* Wherever the legacy reader meets this line, it makes of it this step, and
\* goes on with the next line.
LineGives(line, s) ==
    \A lines \in Seq(ScriptLine) : \A i \in 1..Len(lines) : lines[i] = line =>
        /\ Parsed("legacy", lines, i).kind = s.kind
        /\ Parsed("legacy", lines, i).argv = s.argv
        /\ Parsed("legacy", lines, i).body = s.body
        /\ Parsed("legacy", lines, i).next = i + 1

ReadsAlone(s) ==
    /\ s.raw \in ScriptLine /\ ~Skipped("legacy", s.raw)
    /\ ~(IsDirective("legacy", s.raw) /\ s.raw.directive = "include")
    /\ s.kind # "error"
    /\ s.kind # "script" => LineGives(s.raw, s)

Same(s, t) == s.kind = t.kind /\ s.argv = t.argv /\ s.body = t.body

\* What has been read back of the minimized script is what was written.
ReadingBack ==
    /\ outcome \in {"start", "reading", "done"}
    /\ outcome = "start" => steps = <<>>
    /\ outcome = "reading" => frames = <<[path |-> Minimized, next |-> Len(steps) + 1]>>
    /\ outcome = "done" => Len(steps) = Len(kept)
    /\ Len(steps) <= Len(kept)
    /\ \A i \in 1..Len(steps) : Same(steps[i], kept[i])

LinesRead == reader = "legacy" => \A i \in DOMAIN steps : ReadsAlone(steps[i])
KeptIsWritten ==
    kept # None =>
        /\ reader = "legacy" /\ script = Minimized
        /\ DOMAIN kept = 1..Len(kept) /\ Len(kept) \in Nat
        /\ \A i \in DOMAIN kept : ReadsAlone(kept[i])
        /\ disk[Target[Minimized]] = Contents(kept)
PlainIsReadBack ==
    (kept # None /\ \A i \in DOMAIN kept : kept[i].kind # "script") => ReadingBack
MinimizedInv == LinesRead /\ KeptIsWritten /\ PlainIsReadBack

LEMMA PlainLineGives ==
    ASSUME NEW lines \in Seq(ScriptLine), NEW i \in 1..Len(lines), NEW s,
           s.kind = Parsed("legacy", lines, i).kind, s.argv = Parsed("legacy", lines, i).argv,
           s.body = Parsed("legacy", lines, i).body, s.kind \notin {"error", "script"}
    PROVE  LineGives(lines[i], s)
<1> SUFFICES ASSUME NEW others \in Seq(ScriptLine), NEW j \in 1..Len(others),
                    others[j] = lines[i]
             PROVE  /\ Parsed("legacy", others, j).kind = s.kind
                    /\ Parsed("legacy", others, j).argv = s.argv
                    /\ Parsed("legacy", others, j).body = s.body
                    /\ Parsed("legacy", others, j).next = j + 1
  BY DEF LineGives
<1>1. CASE IsDirective("legacy", lines[i])
  <2>1. Parsed("legacy", lines, i) = parse_directive(lines, i)
    BY <1>1 DEF Parsed
  <2>2. Parsed("legacy", others, j) = parse_directive(others, j)
    BY <1>1 DEF Parsed
  <2> QED
    BY <2>1, <2>2 DEF parse_directive, Directive, Failed
<1>2. CASE ~IsDirective("legacy", lines[i])
  <2> DEFINE text == Trim(lines[i].text)
  <2>1. Parsed("legacy", lines, i) = parse_command_line(lines, i)
    BY <1>2 DEF Parsed
  <2>2. Parsed("legacy", others, j) = parse_command_line(others, j)
    BY <1>2 DEF Parsed
  <2>3. Markers(text) = {}
    BY <2>1 DEF parse_command_line, WithBody, Failed
  <2>4. Parsed("legacy", lines, i) = Command(text, i)
    BY <2>1, <2>3 DEF parse_command_line
  <2>5. Parsed("legacy", others, j) = Command(text, j)
    BY <2>2, <2>3 DEF parse_command_line
  <2> HIDE DEF text
  <2> QED
    BY <2>4, <2>5 DEF Command, Failed
<1> QED
  BY <1>1, <1>2

\* A step that is read is one its line gives wherever it stands.
LEMMA StepReadsAlone ==
    ASSUME ReaderInv, reader = "legacy", AtLine, ~Skipped(reader, Line), ~IsInclude,
           NEW parsed, parsed = Parsed(reader, Lines, Frame.next), parsed.kind # "error"
    PROVE  ReadsAlone(StepOf(Frame.path, Frame.next, Line, parsed))
<1> DEFINE step == StepOf(Frame.path, Frame.next, Line, parsed)
<1>1. /\ step.raw = Line /\ step.kind = parsed.kind
      /\ step.argv = parsed.argv /\ step.body = parsed.body
  BY DEF StepOf
<1>2. /\ Lines \in Seq(ScriptLine) /\ Frame.next \in 1..Len(Lines)
      /\ Line \in ScriptLine /\ Line = Lines[Frame.next]
  BY FrameHasLine DEF Line
<1> HIDE DEF step
<1>3. step.kind # "script" => LineGives(Lines[Frame.next], step)
  BY <1>1, <1>2, PlainLineGives
<1> QED
  BY <1>1, <1>2, <1>3 DEF ReadsAlone, IsInclude, step

LEMMA StepsAreSequence == ASSUME ReaderInv PROVE DOMAIN steps = 1..Len(steps) /\ Len(steps) \in Nat
BY DEF ReaderInv, StepsAreLines

LEMMA AppendedReadsAlone ==
    ASSUME ReaderInv, LinesRead, NEW step, reader = "legacy", ReadsAlone(step),
           steps' = Append(steps, step), UNCHANGED reader
    PROVE  LinesRead'
<1>1. PICK read : steps \in Seq(read)
  BY DEF ReaderInv, StepsAreLines
<1>2. steps \in Seq(read \cup {step})
  BY <1>1
<1>3. /\ steps' \in Seq(read \cup {step})
      /\ Len(steps') = Len(steps) + 1
      /\ steps'[Len(steps) + 1] = step
      /\ \A i \in 1..Len(steps) : steps'[i] = steps[i]
  BY <1>2, AppendProperties
<1>4. DOMAIN steps' = 1..(Len(steps) + 1)
  BY <1>3
<1>5. \A i \in 1..(Len(steps) + 1) : i = Len(steps) + 1 \/ i \in DOMAIN steps
  BY StepsAreSequence
<1> QED
  BY <1>3, <1>4, <1>5, StepsAreSequence DEF LinesRead

\* While the minimized script is read back, the line is that of the next step.
LEMMA LineIsKept ==
    ASSUME ReaderInv, MinimizedInv, kept # None, \A i \in DOMAIN kept : kept[i].kind # "script",
           outcome = "reading"
    PROVE  /\ reader = "legacy" /\ Len(frames) = 1 /\ Frame.next = Len(steps) + 1
           /\ DOMAIN Lines = DOMAIN kept /\ Len(Lines) = Len(kept)
           /\ AtLine => /\ Len(steps) + 1 \in DOMAIN kept
                        /\ Line = kept[Len(steps) + 1].raw
                        /\ ReadsAlone(kept[Len(steps) + 1])
                        /\ LineGives(Line, kept[Len(steps) + 1])
<1>1. /\ frames = <<[path |-> Minimized, next |-> Len(steps) + 1]>> /\ reader = "legacy"
      /\ DOMAIN kept = 1..Len(kept) /\ Len(kept) \in Nat
      /\ \A i \in DOMAIN kept : ReadsAlone(kept[i])
      /\ disk[Target[Minimized]] = Contents(kept)
  BY DEF MinimizedInv, KeptIsWritten, PlainIsReadBack, ReadingBack
<1>2. Frame = [path |-> Minimized, next |-> Len(steps) + 1] /\ Len(frames) = 1
  BY <1>1 DEF Frame, Last
<1>3. Lines = [i \in DOMAIN kept |-> kept[i].raw]
  BY <1>1, <1>2 DEF Lines, Contents
<1>4. Lines \in Seq(ScriptLine)
  BY ReaderAssumption, <1>2 DEF ReaderInv, Lines
<1>5. Len(Lines) = Len(kept)
  BY <1>1, <1>3, <1>4, LenProperties
<1>6. AtLine => Len(steps) + 1 \in DOMAIN kept
  BY <1>1, <1>2, <1>5, StepsAreSequence DEF AtLine
<1> QED
  BY <1>1, <1>2, <1>3, <1>5, <1>6 DEF Line, ReadsAlone

LEMMA InitMinimizedInv == ASSUME Init PROVE MinimizedInv
BY DEF Init, MinimizedInv, LinesRead, KeptIsWritten, PlainIsReadBack

LEMMA MinimizedParseFile == ASSUME ReaderInv, MinimizedInv, parse_gtest_file PROVE MinimizedInv'
<1>1. UNCHANGED <<reader, disk, script, steps, kept>> /\ outcome = "start"
  BY DEF parse_gtest_file
<1>2. LinesRead' /\ KeptIsWritten'
  BY <1>1 DEF MinimizedInv, LinesRead, KeptIsWritten
<1>3. ASSUME kept # None, \A i \in DOMAIN kept : kept[i].kind # "script"
      PROVE  ReadingBack'
  <2>1. script = Minimized /\ steps = <<>> /\ Len(kept) \in Nat
    BY <1>1, <1>3 DEF MinimizedInv, KeptIsWritten, PlainIsReadBack, ReadingBack
  <2>2. Target[script] # None
    BY <2>1, ReaderAssumption
  <2>3. outcome' = "reading" /\ frames' = <<[path |-> Minimized, next |-> 1]>>
    BY <2>1, <2>2 DEF parse_gtest_file
  <2>4. steps' = <<>> /\ Len(steps') = 0 /\ kept' = kept
    BY <1>1, <2>1
  <2> QED
    BY <2>1, <2>3, <2>4 DEF ReadingBack
<1> QED
  BY <1>1, <1>2, <1>3 DEF MinimizedInv, PlainIsReadBack

LEMMA MinimizedSkip == ASSUME ReaderInv, MinimizedInv, skip_line PROVE MinimizedInv'
<1>1. UNCHANGED <<reader, disk, script, steps, kept>> /\ AtLine /\ outcome = "reading"
  BY DEF skip_line, AtLine
<1>2. LinesRead' /\ KeptIsWritten'
  BY <1>1 DEF MinimizedInv, LinesRead, KeptIsWritten
<1>3. ~(kept # None /\ \A i \in DOMAIN kept : kept[i].kind # "script")
  BY <1>1, LineIsKept DEF skip_line, ReadsAlone
<1> QED
  BY <1>1, <1>2, <1>3 DEF MinimizedInv, PlainIsReadBack

LEMMA MinimizedInclude == ASSUME ReaderInv, MinimizedInv, include_line PROVE MinimizedInv'
<1>1. UNCHANGED <<reader, disk, script, steps, kept>> /\ AtLine /\ outcome = "reading"
  BY DEF include_line, AtLine
<1>2. LinesRead' /\ KeptIsWritten'
  BY <1>1 DEF MinimizedInv, LinesRead, KeptIsWritten
<1>3. ~(kept # None /\ \A i \in DOMAIN kept : kept[i].kind # "script")
  BY <1>1, LineIsKept DEF include_line, IsInclude, ReadsAlone
<1> QED
  BY <1>1, <1>2, <1>3 DEF MinimizedInv, PlainIsReadBack

LEMMA MinimizedReadStep == ASSUME ReaderInv, MinimizedInv, step_line PROVE MinimizedInv'
<1> DEFINE parsed == Parsed(reader, Lines, Frame.next)
           step == StepOf(Frame.path, Frame.next, Line, parsed)
<1>1. UNCHANGED <<reader, disk, script, kept>> /\ AtLine /\ outcome = "reading"
  BY DEF step_line, AtLine
<1>2. KeptIsWritten'
  BY <1>1 DEF MinimizedInv, KeptIsWritten
<1>3. LinesRead'
  <2>1. CASE reader # "legacy" \/ steps' = steps
    BY <1>1, <2>1 DEF MinimizedInv, LinesRead
  <2>2. CASE reader = "legacy" /\ steps' # steps
    <3>1. parsed.kind # "error" /\ steps' = Append(steps, step)
      BY <2>2 DEF step_line
    <3>2. ReadsAlone(step)
      BY <1>1, <2>2, <3>1, StepReadsAlone DEF step_line
    <3> HIDE DEF step
    <3> QED
      BY <1>1, <2>2, <3>1, <3>2, AppendedReadsAlone DEF MinimizedInv
  <2> QED
    BY <2>1, <2>2
<1>4. ASSUME kept # None, \A i \in DOMAIN kept : kept[i].kind # "script"
      PROVE  ReadingBack'
  <2> DEFINE n == Len(steps) + 1
             next == kept[n]
  <2>1. /\ reader = "legacy" /\ Len(frames) = 1 /\ Frame.next = n
        /\ n \in DOMAIN kept /\ ReadsAlone(next) /\ LineGives(Line, next)
    BY <1>1, <1>4, LineIsKept
  <2>2. Lines \in Seq(ScriptLine) /\ n \in 1..Len(Lines) /\ Line = Lines[n]
    BY <1>1, <2>1, FrameHasLine DEF Line
  <2>3. /\ parsed.kind = next.kind /\ parsed.argv = next.argv /\ parsed.body = next.body
        /\ parsed.next = n + 1 /\ parsed.kind # "error"
    BY <2>1, <2>2 DEF LineGives, ReadsAlone
  <2>4. Same(step, next)
    BY <2>3 DEF StepOf, Same
  <2>5. steps' = Append(steps, step) /\ frames' = Moved(parsed.next) /\ outcome' = "reading"
    BY <1>1, <2>3 DEF step_line
  <2>6. frames = <<[path |-> Minimized, next |-> n]>>
    BY <1>1, <1>4 DEF MinimizedInv, PlainIsReadBack, ReadingBack
  <2>7. /\ Len(kept) \in Nat /\ DOMAIN kept = 1..Len(kept)
        /\ \A i \in 1..Len(steps) : Same(steps[i], kept[i])
    BY <1>4 DEF MinimizedInv, KeptIsWritten, PlainIsReadBack, ReadingBack
  <2> HIDE DEF parsed, step
  <2>8. frames' = <<[path |-> Minimized, next |-> n + 1]>>
    BY <2>1, <2>3, <2>5, <2>6 DEF Moved
  <2>9. /\ Len(steps') = n /\ steps'[n] = step
        /\ \A i \in 1..Len(steps) : steps'[i] = steps[i]
    <3>1. PICK read : steps \in Seq(read)
      BY DEF ReaderInv, StepsAreLines
    <3>2. steps \in Seq(read \cup {step})
      BY <3>1
    <3> QED
      BY <2>5, <3>2, AppendProperties
  <2>10. \A i \in 1..n : i = n \/ i \in 1..Len(steps)
    BY StepsAreSequence
  <2>11. \A i \in 1..Len(steps') : Same(steps'[i], kept'[i])
    BY <1>1, <2>4, <2>7, <2>9, <2>10
  <2> QED
    BY <1>1, <2>1, <2>5, <2>7, <2>8, <2>9, <2>11 DEF ReadingBack
<1> QED
  BY <1>1, <1>2, <1>3, <1>4 DEF MinimizedInv, PlainIsReadBack

LEMMA MinimizedReturn == ASSUME ReaderInv, MinimizedInv, return PROVE MinimizedInv'
<1>1. UNCHANGED <<reader, disk, script, steps, kept>> /\ outcome = "reading"
  BY DEF return
<1>2. LinesRead' /\ KeptIsWritten'
  BY <1>1 DEF MinimizedInv, LinesRead, KeptIsWritten
<1>3. ASSUME kept # None, \A i \in DOMAIN kept : kept[i].kind # "script"
      PROVE  ReadingBack'
  <2>1. Len(frames) = 1 /\ Frame.next = Len(steps) + 1 /\ Len(Lines) = Len(kept)
    BY <1>1, <1>3, LineIsKept
  <2>2. outcome' = "done" /\ Len(steps) + 1 > Len(kept)
    BY <2>1 DEF return
  <2>3. /\ Len(kept) \in Nat /\ Len(steps) <= Len(kept)
        /\ \A i \in 1..Len(steps) : Same(steps[i], kept[i])
    BY <1>1, <1>3 DEF MinimizedInv, KeptIsWritten, PlainIsReadBack, ReadingBack
  <2>4. Len(steps) = Len(kept)
    BY <2>2, <2>3, StepsAreSequence
  <2> QED
    BY <1>1, <2>2, <2>3, <2>4 DEF ReadingBack
<1> QED
  BY <1>1, <1>2, <1>3 DEF MinimizedInv, PlainIsReadBack

LEMMA MinimizedWritePlan == ASSUME ReaderInv, MinimizedInv, write_plan_file PROVE MinimizedInv'
<1>1. PICK best \in DOMAIN steps :
         /\ kept' = SubSeq(steps, 1, best)
         /\ disk' = [disk EXCEPT ![Target[Minimized]] = Contents(kept')]
  BY DEF write_plan_file
<1>2. /\ reader = "legacy" /\ UNCHANGED reader /\ script' = Minimized /\ outcome' = "start"
      /\ steps' = <<>>
  BY DEF write_plan_file
<1>3. /\ DOMAIN kept' = 1..Len(kept') /\ Len(kept') \in Nat
      /\ \A i \in DOMAIN kept' : i \in DOMAIN steps /\ kept'[i] = steps[i]
  <2>1. PICK read : steps \in Seq(read)
    BY DEF ReaderInv, StepsAreLines
  <2>2. best \in 1..Len(steps) /\ Len(steps) \in Nat
    BY StepsAreSequence
  <2>3. \A i \in 1..best : steps[i] \in read
    BY <2>1, <2>2
  <2>4. /\ SubSeq(steps, 1, best) \in Seq(read) /\ Len(SubSeq(steps, 1, best)) = best
        /\ \A i \in 1..best : SubSeq(steps, 1, best)[i] = steps[i]
    BY <2>1, <2>2, <2>3, SubSeqProperties
  <2> QED
    BY <1>1, <2>2, <2>4, StepsAreSequence
<1>4. LinesRead'
  BY <1>2 DEF LinesRead
<1>5. KeptIsWritten'
  <2>1. disk'[Target[Minimized]] = Contents(kept')
    BY <1>1, ReaderAssumption DEF ReaderInv
  <2>2. \A i \in DOMAIN kept' : ReadsAlone(kept'[i])
    BY <1>2, <1>3 DEF MinimizedInv, LinesRead
  <2>3. Contents(kept)' = Contents(kept')
    BY DEF Contents
  <2> QED
    BY <1>2, <1>3, <2>1, <2>2, <2>3 DEF KeptIsWritten
<1>6. ReadingBack'
  BY <1>2, <1>3 DEF ReadingBack
<1> QED
  BY <1>4, <1>5, <1>6 DEF MinimizedInv, PlainIsReadBack

LEMMA NextMinimizedInv == ASSUME ReaderInv, MinimizedInv, [Next]_vars PROVE MinimizedInv'
<1>1. CASE UNCHANGED vars
  BY <1>1 DEF vars, MinimizedInv, LinesRead, KeptIsWritten, PlainIsReadBack, ReadingBack
<1> QED
  BY <1>1, MinimizedParseFile, MinimizedSkip, MinimizedInclude, MinimizedReadStep,
     MinimizedReturn, MinimizedWritePlan DEF Next

LEMMA MinimizedInvReadsBack == ASSUME ReaderInv, MinimizedInv PROVE PlainMinimizedReadsBack
<1> SUFFICES ASSUME kept # None, \A i \in DOMAIN kept : kept[i].kind # "script"
             PROVE  ReadsBack
  BY DEF PlainMinimizedReadsBack
<1>1. ReadingBack /\ DOMAIN kept = 1..Len(kept)
  BY DEF MinimizedInv, KeptIsWritten, PlainIsReadBack
<1>2. outcome = "done" => Essence(steps) = Essence(kept)
  BY <1>1, StepsAreSequence DEF ReadingBack, Same, Essence
<1> QED
  BY <1>1, <1>2 DEF ReadingBack, ReadsBack

\* A minimized script without heredocs, read by the reader that read the
\* original, gives the steps of the prefix that failed: write_plan_file
\* (lib.rs) against parse_gtest_contents (parse.rs), for any scripts.
THEOREM MinimizedIsSame == RunSpec => []PlainMinimizedReadsBack
<1>1. RunInit => ReaderInv /\ MinimizedInv
  BY InitReaderInv, InitMinimizedInv DEF RunInit
<1>2. ReaderInv /\ MinimizedInv /\ [RunNext]_scriptRunVars => (ReaderInv /\ MinimizedInv)'
  BY NextReaderInv, NextMinimizedInv, RunStepIsReaderStep
<1>3. ReaderInv /\ MinimizedInv => PlainMinimizedReadsBack
  BY MinimizedInvReadsBack
<1> QED
  BY <1>1, <1>2, <1>3, PTL DEF RunSpec

-----------------------------------------------------------------------------
(* Counting                                                                *)

\* Induction, as far as a number: what holds at the first, and of each number if
\* of the one before.
LEMMA CountingFrom ==
    ASSUME NEW m \in Nat, NEW n \in Nat, NEW S, m \in S,
           \A i \in (m + 1)..n : i - 1 \in S => i \in S
    PROVE  \A i \in m..n : i \in S
<1> DEFINE missing == {i \in m..n : i \notin S}
<1> SUFFICES ASSUME missing # {} PROVE FALSE
  OBVIOUS
<1>1. missing \in SUBSET Nat
  OBVIOUS
<1> HIDE DEF missing
<1>2. Min(missing) \in missing /\ \A y \in missing : Min(missing) <= y
  BY <1>1, MinIsLeast
<1>3. Min(missing) \in m..n /\ Min(missing) \notin S
  BY <1>2 DEF missing
<1>4. Min(missing) \in (m + 1)..n
  BY <1>3
<1>5. Min(missing) - 1 \in S
  BY <1>1, <1>2, <1>4 DEF missing
<1> QED
  BY <1>3, <1>4, <1>5

LEMMA CountingUp ==
    ASSUME NEW N \in Nat, NEW S, 0 \in S, \A i \in 1..N : i - 1 \in S => i \in S
    PROVE  \A i \in 0..N : i \in S
<1>1. 0 \in Nat /\ 0 + 1 = 1
  OBVIOUS
<1>2. \A i \in (0 + 1)..N : i - 1 \in S => i \in S
  BY <1>1
<1> QED
  BY <1>1, <1>2, CountingFrom, Zenon

-----------------------------------------------------------------------------
(* What a script says                                                      *)

\* FlattenSeq, prefix by prefix.
FlatUpTo(at, f) == [i \in 0..Len(at) |-> IF i = 0 THEN <<>> ELSE f[i - 1] \o at[i]]
Flat(at) == CHOOSE f : f = FlatUpTo(at, f)

LEMMA FlatExists ==
    ASSUME NEW at, Len(at) \in Nat
    PROVE  Flat(at) = FlatUpTo(at, Flat(at))
<1> DEFINE Body(f, n) == [i \in 0..n |-> IF i = 0 THEN <<>> ELSE f[i - 1] \o at[i]]
           good == {n \in 0..Len(at) : \E f : f = Body(f, n)}
<1>1. 0 \in good
  <2>1. [i \in 0..0 |-> <<>>] = Body([i \in 0..0 |-> <<>>], 0)
    OBVIOUS
  <2>2. 0 \in 0..Len(at)
    OBVIOUS
  <2> HIDE DEF Body
  <2> QED
    BY <2>1, <2>2
<1>2. ASSUME NEW n \in 1..Len(at), n - 1 \in good PROVE n \in good
  <2>1. PICK f : f = Body(f, n - 1)
    BY <1>2
  <2> DEFINE more == [i \in 0..n |-> IF i = n THEN f[n - 1] \o at[n] ELSE f[i]]
  <2>2. ASSUME NEW i \in 0..n
        PROVE  more[i] = IF i = 0 THEN <<>> ELSE more[i - 1] \o at[i]
    <3>1. CASE i = n
      BY <3>1
    <3>2. CASE i # n
      <4>1. i \in 0..(n - 1) /\ (i # 0 => i - 1 \in 0..n /\ i - 1 # n)
        BY <3>2
      <4>2. f[i] = IF i = 0 THEN <<>> ELSE f[i - 1] \o at[i]
        BY <2>1, <4>1
      <4>3. more[i] = f[i] /\ (i # 0 => more[i - 1] = f[i - 1])
        BY <3>2, <4>1
      <4> HIDE DEF more
      <4> QED
        BY <4>2, <4>3
    <3> QED
      BY <3>1, <3>2
  <2>3. more = Body(more, n)
    <3>1. more = [i \in 0..n |-> more[i]]
      OBVIOUS
    <3> HIDE DEF more
    <3> QED
      BY <2>2, <3>1
  <2>4. n \in 0..Len(at)
    OBVIOUS
  <2> HIDE DEF Body, more
  <2> QED
    BY <2>3, <2>4
<1> HIDE DEF good
<1>3. Len(at) \in good
  <2>1. Len(at) \in 0..Len(at)
    OBVIOUS
  <2> QED
    BY <1>1, <1>2, <2>1, CountingUp, Zenon
<1>4. \E f : f = FlatUpTo(at, f)
  BY <1>3 DEF good, FlatUpTo
<1> QED
  BY <1>4 DEF Flat

LEMMA FlatSteps ==
    ASSUME NEW at, Len(at) \in Nat
    PROVE  /\ Flat(at)[0] = <<>>
           /\ \A i \in 1..Len(at) : Flat(at)[i] = Flat(at)[i - 1] \o at[i]
<1> DEFINE f == Flat(at)
<1>1. f = [i \in 0..Len(at) |-> IF i = 0 THEN <<>> ELSE f[i - 1] \o at[i]]
  BY FlatExists DEF FlatUpTo
<1> HIDE DEF f
<1>2. f[0] = <<>>
  BY <1>1
<1>3. ASSUME NEW i \in 1..Len(at) PROVE f[i] = f[i - 1] \o at[i]
  <2>1. i \in 0..Len(at) /\ i # 0
    OBVIOUS
  <2> QED
    BY <1>1, <2>1, Zenon
<1> QED
  BY <1>2, <1>3 DEF f

LEMMA FlatStarts == ASSUME NEW X, NEW at \in Seq(Seq(X)) PROVE Flat(at)[0] = <<>>
<1> Len(at) \in Nat
  OBVIOUS
<1> QED
  BY FlatSteps, Zenon

LEMMA FlatGoesOn ==
    ASSUME NEW X, NEW at \in Seq(Seq(X)), NEW i \in 1..Len(at)
    PROVE  Flat(at)[i] = Flat(at)[i - 1] \o at[i]
<1> Len(at) \in Nat
  OBVIOUS
<1> QED
  BY FlatSteps, Zenon

LEMMA PartIsSeq ==
    ASSUME NEW X, NEW at \in Seq(Seq(X)), NEW i \in 1..Len(at)
    PROVE  at[i] \in Seq(X)
BY ElementOfSeq, Zenon

LEMMA EmptyBefore == ASSUME NEW X, NEW s \in Seq(X) PROVE <<>> \o s = s /\ s \o <<>> = s
OBVIOUS

LEMMA FlatIsSeq ==
    ASSUME NEW X, NEW at \in Seq(Seq(X))
    PROVE  \A i \in 0..Len(at) : Flat(at)[i] \in Seq(X)
<1> DEFINE good == {i \in 0..Len(at) : Flat(at)[i] \in Seq(X)}
<1>1. Len(at) \in Nat
  OBVIOUS
<1>2. 0 \in good
  <2>1. Flat(at)[0] = <<>>
    BY FlatStarts, Zenon
  <2>2. Flat(at)[0] \in Seq(X)
    BY <2>1
  <2> QED
    BY <2>2
<1>3. ASSUME NEW i \in 1..Len(at), i - 1 \in good PROVE i \in good
  <2>1. Flat(at)[i] = Flat(at)[i - 1] \o at[i]
    BY FlatGoesOn, Zenon
  <2>2. at[i] \in Seq(X)
    BY PartIsSeq, Zenon
  <2>3. Flat(at)[i - 1] \in Seq(X)
    BY <1>3
  <2>4. Flat(at)[i - 1] \o at[i] \in Seq(X)
    BY <2>2, <2>3
  <2>5. Flat(at)[i] \in Seq(X)
    BY <2>1, <2>4, Zenon
  <2>6. i \in 0..Len(at)
    OBVIOUS
  <2> QED
    BY <2>5, <2>6
<1> HIDE DEF good
<1>4. \A i \in 0..Len(at) : i \in good
  BY <1>1, <1>2, <1>3, CountingUp, Zenon
<1> QED
  BY <1>4 DEF good

LEMMA FlattenIsFlat ==
    ASSUME NEW X, NEW at \in Seq(Seq(X))
    PROVE  FlattenSeq(at) = Flat(at)[Len(at)]
<1>1. CASE Len(at) = 0
  <2>1. FlattenSeq(at) = at
    BY <1>1 DEF FlattenSeq
  <2>2. at = <<>>
    BY <1>1
  <2>3. Flat(at)[0] = <<>>
    BY FlatStarts, Zenon
  <2> QED
    BY <1>1, <2>1, <2>2, <2>3, Zenon
<1>2. CASE Len(at) # 0
  <2> DEFINE Body(g) == [i \in 1..Len(at) |-> IF i = 1 THEN at[i] ELSE g[i - 1] \o at[i]]
             g == CHOOSE h : h = Body(h)
             f == [i \in 1..Len(at) |-> Flat(at)[i]]
  <2>1. f = Body(f)
    <3> SUFFICES ASSUME NEW i \in 1..Len(at)
                 PROVE  Flat(at)[i] = IF i = 1 THEN at[i] ELSE f[i - 1] \o at[i]
      OBVIOUS
    <3>1. Flat(at)[i] = Flat(at)[i - 1] \o at[i]
      BY FlatGoesOn, Zenon
    <3>2. CASE i = 1
      <4>1. Flat(at)[i - 1] = <<>>
        BY <3>2, FlatStarts
      <4>2. at[i] \in Seq(X)
        BY PartIsSeq, Zenon
      <4> QED
        BY <3>1, <3>2, <4>1, <4>2, EmptyBefore, Zenon
    <3>3. CASE i # 1
      <4>1. i - 1 \in 1..Len(at)
        BY <3>3
      <4>2. f[i - 1] = Flat(at)[i - 1]
        BY <4>1, Zenon
      <4> HIDE DEF f
      <4> QED
        BY <3>1, <3>3, <4>2, Zenon
    <3> QED
      BY <3>2, <3>3, Zenon
  <2>2. g = Body(g)
    <3> HIDE DEF f, Body
    <3> QED
      BY <2>1
  <2>3. FlattenSeq(at) = g[Len(at)]
    BY <1>2 DEF FlattenSeq
  <2> DEFINE good == {i \in 0..Len(at) : i # 0 => g[i] = Flat(at)[i]}
  <2>4. 0 \in good
    OBVIOUS
  <2>5. ASSUME NEW i \in 1..Len(at), i - 1 \in good PROVE i \in good
    <3> HIDE DEF g
    <3>1. g[i] = IF i = 1 THEN at[i] ELSE g[i - 1] \o at[i]
      BY <2>2, Zenon
    <3>2. Flat(at)[i] = Flat(at)[i - 1] \o at[i]
      BY FlatGoesOn, Zenon
    <3>3. g[i] = Flat(at)[i]
      <4>1. CASE i = 1
        <5>1. Flat(at)[i - 1] = <<>>
          BY <4>1, FlatStarts
        <5>2. at[i] \in Seq(X)
          BY PartIsSeq, Zenon
        <5> QED
          BY <3>1, <3>2, <4>1, <5>1, <5>2, EmptyBefore, Zenon
      <4>2. CASE i # 1
        <5>1. i - 1 # 0
          BY <4>2
        <5>2. g[i - 1] = Flat(at)[i - 1]
          BY <2>5, <5>1
        <5> QED
          BY <3>1, <3>2, <4>2, <5>2, Zenon
      <4> QED
        BY <4>1, <4>2
    <3>4. i \in 0..Len(at)
      OBVIOUS
    <3> QED
      BY <3>3, <3>4
  <2> HIDE DEF good, g
  <2>6. Len(at) \in good
    <3>1. Len(at) \in Nat /\ Len(at) \in 0..Len(at)
      OBVIOUS
    <3> QED
      BY <2>4, <2>5, <3>1, CountingUp, Zenon
  <2> QED
    BY <1>2, <2>3, <2>6 DEF good
<1> QED
  BY <1>1, <1>2

\* Lines that say nothing.
LEMMA FlatSkips ==
    ASSUME NEW X, NEW at \in Seq(Seq(X)), NEW m \in 0..Len(at), NEW n \in m..Len(at),
           \A i \in (m + 1)..n : at[i] = <<>>
    PROVE  Flat(at)[n] = Flat(at)[m]
<1> DEFINE good == {i \in m..n : Flat(at)[i] = Flat(at)[m]}
<1>1. m \in Nat /\ n \in Nat /\ m \in good /\ n \in m..n
  OBVIOUS
<1>2. ASSUME NEW i \in (m + 1)..n, i - 1 \in good PROVE i \in good
  <2>1. i \in 1..Len(at) /\ i - 1 \in 0..Len(at) /\ i \in m..n
    OBVIOUS
  <2>2. Flat(at)[i] = Flat(at)[i - 1] \o at[i]
    BY <2>1, FlatGoesOn, Zenon
  <2>3. at[i] = <<>>
    BY Zenon
  <2>4. Flat(at)[i - 1] \in Seq(X)
    BY <2>1, FlatIsSeq, Zenon
  <2>5. Flat(at)[i] = Flat(at)[i - 1]
    BY <2>2, <2>3, <2>4, EmptyBefore, Zenon
  <2>6. Flat(at)[i - 1] = Flat(at)[m]
    BY <1>2
  <2> QED
    BY <2>1, <2>5, <2>6
<1> HIDE DEF good
<1>3. n \in good
  BY <1>1, <1>2, CountingFrom, Zenon
<1> QED
  BY <1>3 DEF good

\* A refused part makes the whole refused.
LEMMA RefusedPart ==
    ASSUME NEW X, NEW s \in Seq(X), NEW t \in Seq(X), IsRefused(s) \/ IsRefused(t)
    PROVE  IsRefused(s \o t)
<1>1. /\ s \o t \in Seq(X) /\ Len(s \o t) = Len(s) + Len(t)
      /\ \A i \in 1..Len(s) : (s \o t)[i] = s[i]
      /\ \A i \in 1..Len(t) : (s \o t)[Len(s) + i] = t[i]
  OBVIOUS
<1>2. DOMAIN s = 1..Len(s) /\ DOMAIN t = 1..Len(t) /\ DOMAIN (s \o t) = 1..(Len(s) + Len(t))
      /\ Len(s) \in Nat /\ Len(t) \in Nat
  BY <1>1
<1>3. CASE IsRefused(s)
  <2>1. PICK i \in 1..Len(s) : s[i].kind = "error"
    BY <1>2, <1>3 DEF IsRefused
  <2>2. i \in DOMAIN (s \o t) /\ (s \o t)[i] = s[i]
    BY <1>1, <1>2
  <2> QED
    BY <2>1, <2>2 DEF IsRefused
<1>4. CASE IsRefused(t)
  <2>1. PICK i \in 1..Len(t) : t[i].kind = "error"
    BY <1>2, <1>4 DEF IsRefused
  <2>2. Len(s) + i \in DOMAIN (s \o t) /\ (s \o t)[Len(s) + i] = t[i]
    BY <1>1, <1>2
  <2> QED
    BY <2>1, <2>2 DEF IsRefused
<1> QED
  BY <1>3, <1>4

LEMMA FlatRefused ==
    ASSUME NEW X, NEW at \in Seq(Seq(X)), NEW i \in 1..Len(at), IsRefused(at[i])
    PROVE  IsRefused(Flat(at)[Len(at)])
<1> DEFINE good == {k \in i..Len(at) : IsRefused(Flat(at)[k])}
<1>1. i \in Nat /\ Len(at) \in Nat /\ i \in i..Len(at) /\ Len(at) \in i..Len(at)
  OBVIOUS
<1>2. ASSUME NEW k \in 1..Len(at), IsRefused(at[k]) \/ IsRefused(Flat(at)[k - 1])
      PROVE  IsRefused(Flat(at)[k])
  <2>1. k - 1 \in 0..Len(at)
    OBVIOUS
  <2>2. Flat(at)[k] = Flat(at)[k - 1] \o at[k]
    BY FlatGoesOn, Zenon
  <2>3. at[k] \in Seq(X)
    BY PartIsSeq, Zenon
  <2>4. Flat(at)[k - 1] \in Seq(X)
    BY <2>1, FlatIsSeq, Zenon
  <2> QED
    BY <1>2, <2>2, <2>3, <2>4, RefusedPart, Zenon
<1>3. i \in good
  <2>1. IsRefused(Flat(at)[i])
    BY <1>2, Zenon
  <2> QED
    BY <1>1, <2>1
<1>4. ASSUME NEW k \in (i + 1)..Len(at), k - 1 \in good PROVE k \in good
  <2>1. k \in 1..Len(at) /\ k \in i..Len(at)
    OBVIOUS
  <2>2. IsRefused(Flat(at)[k - 1])
    BY <1>4
  <2>3. IsRefused(Flat(at)[k])
    BY <1>2, <2>1, <2>2, Zenon
  <2> QED
    BY <2>1, <2>3
<1> HIDE DEF good
<1>5. Len(at) \in good
  BY <1>1, <1>3, <1>4, CountingFrom, Zenon
<1> QED
  BY <1>5 DEF good

\* The bodies, from the first line on.
LEMMA BodyEndsAre ==
    ASSUME NEW r, NEW lines, Len(lines) \in Nat
    PROVE  \A i \in 1..Len(lines) :
              BodyEnds(r, lines)[i] = IF InBody(r, lines, i) THEN 0 ELSE BodyEnd(r, lines, i)
<1> DEFINE Of(f, i) == IF \E j \in 1..(i - 1) : f[j] >= i THEN 0 ELSE BodyEnd(r, lines, i)
           Body(f, n) == [i \in 1..n |-> Of(f, i)]
           good == {n \in 0..Len(lines) : \E f : f = Body(f, n)}
<1>1. 0 \in good
  <2>1. [i \in 1..0 |-> 0] = Body([i \in 1..0 |-> 0], 0)
    OBVIOUS
  <2>2. 0 \in 0..Len(lines)
    OBVIOUS
  <2> HIDE DEF Body
  <2> QED
    BY <2>1, <2>2
<1>2. ASSUME NEW n \in 1..Len(lines), n - 1 \in good PROVE n \in good
  <2>1. PICK f : f = Body(f, n - 1)
    BY <1>2
  <2> DEFINE more == [i \in 1..n |-> IF i = n THEN Of(f, n) ELSE f[i]]
  <2>2. ASSUME NEW i \in 1..n PROVE more[i] = Of(more, i)
    <3>1. \A j \in 1..(i - 1) : more[j] = f[j]
      OBVIOUS
    <3>2. more[i] = Of(f, i)
      <4>1. CASE i = n
        BY <4>1
      <4>2. CASE i # n
        <5>1. i \in 1..(n - 1)
          BY <4>2
        <5>2. f[i] = Of(f, i)
          <6> HIDE DEF Of
          <6> QED
            BY <2>1, <5>1
        <5> HIDE DEF Of
        <5> QED
          BY <4>2, <5>2
      <4> QED
        BY <4>1, <4>2
    <3>3. Of(f, i) = Of(more, i)
      <4> HIDE DEF more
      <4> QED
        BY <3>1
    <3> QED
      BY <3>2, <3>3
  <2>3. more = Body(more, n)
    <3>1. more = [i \in 1..n |-> more[i]]
      OBVIOUS
    <3> HIDE DEF more, Of
    <3> QED
      BY <2>2, <3>1
  <2>4. n \in 0..Len(lines)
    OBVIOUS
  <2> HIDE DEF Body, more
  <2> QED
    BY <2>3, <2>4
<1> HIDE DEF good
<1>3. Len(lines) \in good
  <2>1. Len(lines) \in 0..Len(lines)
    OBVIOUS
  <2> QED
    BY <1>1, <1>2, <2>1, CountingUp, Zenon
<1> DEFINE last == CHOOSE f : f = Body(f, Len(lines))
<1>4. last = Body(last, Len(lines))
  <2>1. \E f : f = Body(f, Len(lines))
    BY <1>3 DEF good
  <2> HIDE DEF Body
  <2> QED
    BY <2>1
<1>5. BodyEnds(r, lines) = last
  BY DEF BodyEnds
<1> HIDE DEF last
<1>6. ASSUME NEW i \in 1..Len(lines)
      PROVE  last[i] = IF \E j \in 1..(i - 1) : last[j] >= i THEN 0 ELSE BodyEnd(r, lines, i)
  BY <1>4
<1> QED
  BY <1>5, <1>6 DEF InBody

\* What is said of a path, given what is said of others inside more files.
Reads == (SUBSET Files) \X Paths
OneSays(r, d, of, read) ==
    IF Target[read[2]] = None \/ Target[read[2]] \in read[1] THEN <<Failed>>
    ELSE FlattenSeq(FileSays(r, d[Target[read[2]]], of, read[1] \cup {Target[read[2]]}, read[2]))
AllSteps(r, d) ==
    {Failed} \cup
    {StepOf(p, i, d[Target[p]][i], Parsed(r, d[Target[p]], i)) : p \in Paths, i \in Nat}

\* An include names a path.
LEMMA IncludedPath ==
    ASSUME NEW p \in Paths, NEW line \in ScriptLine, line.to # None
    PROVE  Resolve[p][line.to] \in Paths
<1>1. line.to \in Texts
  BY DEF ScriptLine
<1> QED
  BY <1>1, ReaderAssumption

\* A file's meaning depends on that of what it includes alone.
LEMMA FileSaysOfIncluded ==
    ASSUME NEW r, NEW lines \in Seq(ScriptLine), NEW inside, NEW p \in Paths, NEW f, NEW g,
           \A q \in Paths : f[<<inside, q>>] = g[<<inside, q>>]
    PROVE  FileSays(r, lines, f, inside, p) = FileSays(r, lines, g, inside, p)
<1>1. ASSUME NEW i \in 1..Len(lines)
      PROVE  LineSays(r, lines, f, inside, p, i) = LineSays(r, lines, g, inside, p, i)
  <2>1. lines[i] \in ScriptLine
    BY ElementOfSeq, Zenon
  <2>2. lines[i].to # None => Resolve[p][lines[i].to] \in Paths
    BY <2>1, IncludedPath, Zenon
  <2> QED
    BY <2>2, Zenon DEF LineSays
<1> QED
  BY <1>1, Zenon DEF FileSays

\* Files inside which nothing is said are as many as there are files.
Deep(n) == {read \in Reads : Cardinality(read[1]) + n > Cardinality(Files)}

LEMMA InsideOneMore ==
    ASSUME NEW read \in Reads, NEW n \in Nat, Cardinality(read[1]) + n + 1 > Cardinality(Files),
           NEW file \in Files, file \notin read[1], NEW q \in Paths
    PROVE  <<read[1] \cup {file}, q>> \in Deep(n)
<1>1. read[1] \in SUBSET Files
  BY DEF Reads
<1>2. IsFiniteSet(read[1])
  BY <1>1, FS_Subset, ReaderAssumption
<1>3. /\ Cardinality(read[1] \cup {file}) = Cardinality(read[1]) + 1
      /\ Cardinality(read[1]) \in Nat /\ Cardinality(Files) \in Nat
  BY <1>2, FS_AddElement, FS_CardinalityType, ReaderAssumption
<1>4. <<read[1] \cup {file}, q>> \in Reads
  BY <1>1 DEF Reads
<1>5. <<read[1] \cup {file}, q>>[1] = read[1] \cup {file}
  OBVIOUS
<1>6. Cardinality(read[1] \cup {file}) + n > Cardinality(Files)
  BY <1>3
<1> QED
  BY <1>4, <1>5, <1>6, Zenon DEF Deep

LEMMA PathHasFile ==
    ASSUME NEW read \in Reads, Target[read[2]] # None
    PROVE  Target[read[2]] \in Files /\ read[2] \in Paths
BY ReaderAssumption DEF Reads

\* What is said inside as many files depends on what is said inside more.
LEMMA OneSaysOfDeeper ==
    ASSUME NEW r, NEW d \in [Files -> Seq(ScriptLine)], NEW n \in Nat,
           NEW read \in Reads, Cardinality(read[1]) + n + 1 > Cardinality(Files),
           NEW f, NEW g, \A deeper \in Deep(n) : f[deeper] = g[deeper]
    PROVE  OneSays(r, d, f, read) = OneSays(r, d, g, read)
<1>1. CASE Target[read[2]] = None \/ Target[read[2]] \in read[1]
  BY <1>1 DEF OneSays
<1>2. CASE ~(Target[read[2]] = None \/ Target[read[2]] \in read[1])
  <2> DEFINE file == Target[read[2]]
             inside == read[1] \cup {file}
  <2>1. file \in Files /\ read[2] \in Paths
    BY <1>2, PathHasFile
  <2>2. d[file] \in Seq(ScriptLine)
    BY <2>1
  <2>3. ASSUME NEW q \in Paths PROVE f[<<inside, q>>] = g[<<inside, q>>]
    <3>1. <<inside, q>> \in Deep(n)
      BY <1>2, <2>1, InsideOneMore
    <3> QED
      BY <3>1
  <2>4. FileSays(r, d[file], f, inside, read[2]) = FileSays(r, d[file], g, inside, read[2])
    <3> HIDE DEF file, inside
    <3> QED
      BY <2>1, <2>2, <2>3, FileSaysOfIncluded
  <2> QED
    BY <1>2, <2>4 DEF OneSays
<1> QED
  BY <1>1, <1>2

LEMMA SaysIs ==
    ASSUME NEW r, NEW d \in [Files -> Seq(ScriptLine)]
    PROVE  \A read \in Reads : Says(r, d)[read] = OneSays(r, d, Says(r, d), read)
<1> DEFINE N == Cardinality(Files) + 1
           Body(f, n) == [read \in Deep(n) |-> OneSays(r, d, f, read)]
           good == {n \in 0..N : \E f : f = Body(f, n)}
<1>1. Cardinality(Files) \in Nat
  BY FS_CardinalityType, ReaderAssumption
<1>2. \A read \in Reads : Cardinality(read[1]) \in Nat /\ Cardinality(read[1]) <= Cardinality(Files)
  <2> SUFFICES ASSUME NEW read \in Reads
               PROVE  Cardinality(read[1]) \in Nat /\ Cardinality(read[1]) <= Cardinality(Files)
    OBVIOUS
  <2>1. read[1] \in SUBSET Files
    BY DEF Reads
  <2> QED
    BY <2>1, FS_Subset, FS_CardinalityType, ReaderAssumption
<1>3. 0 \in good
  <2>1. Deep(0) = {}
    BY <1>1, <1>2 DEF Deep
  <2>2. \E f : f = Body(f, 0)
    <3> DEFINE none == [read \in {} |-> Failed]
    <3>1. none = Body(none, 0)
      BY <2>1
    <3> HIDE DEF none, Body
    <3> QED
      BY <3>1
  <2>3. 0 \in 0..N
    BY <1>1
  <2> HIDE DEF Body, N
  <2> QED
    BY <2>2, <2>3
<1>4. ASSUME NEW n \in 1..N, n - 1 \in good PROVE n \in good
  <2>1. n - 1 \in Nat /\ n - 1 + 1 = n /\ n \in 0..N /\ n \in Nat
    BY <1>1
  <2>2. PICK f : f = Body(f, n - 1)
    BY <1>4
  <2> DEFINE more == [read \in Deep(n) |->
                        IF read \in Deep(n - 1) THEN f[read] ELSE OneSays(r, d, f, read)]
  <2> HIDE DEF N, good
  <2>3. \A deeper \in Deep(n - 1) : deeper \in Deep(n) /\ more[deeper] = f[deeper]
    <3>1. \A deeper \in Deep(n - 1) : deeper \in Deep(n)
      BY <1>1, <1>2, <2>1 DEF Deep
    <3> QED
      BY <3>1
  <2>4. ASSUME NEW read \in Deep(n) PROVE more[read] = OneSays(r, d, more, read)
    <3>1. more[read] = OneSays(r, d, f, read)
      <4>1. read \in Deep(n - 1) => f[read] = OneSays(r, d, f, read)
        BY <2>2
      <4> QED
        BY <4>1
    <3>2. read \in Reads /\ Cardinality(read[1]) + (n - 1) + 1 > Cardinality(Files)
      BY <1>1, <1>2, <2>1 DEF Deep
    <3> HIDE DEF more
    <3> QED
      BY <2>1, <2>3, <3>1, <3>2, OneSaysOfDeeper
  <2>5. more = Body(more, n)
    <3>1. more = [read \in Deep(n) |-> more[read]]
      OBVIOUS
    <3> HIDE DEF more
    <3> QED
      BY <2>4, <3>1
  <2> HIDE DEF Body, more
  <2> QED
    BY <2>1, <2>5 DEF good
<1> HIDE DEF good
<1>5. N \in good
  <2>1. N \in Nat /\ N \in 0..N
    BY <1>1
  <2> HIDE DEF N
  <2> QED
    BY <1>3, <1>4, <2>1, CountingUp, Zenon
<1>6. Deep(N) = Reads
  BY <1>1, <1>2 DEF Deep
<1> DEFINE Whole(f) == [read \in Reads |-> OneSays(r, d, f, read)]
           of == CHOOSE f : f = Whole(f)
<1>7. of = Whole(of)
  <2>1. \E f : f = Body(f, N)
    <3> HIDE DEF N, Body
    <3> QED
      BY <1>5 DEF good
  <2>2. \E f : f = Whole(f)
    BY <1>6, <2>1
  <2> HIDE DEF Whole
  <2> QED
    BY <2>2
<1>8. Says(r, d) = of
  BY DEF Says, OneSays, Reads
<1> HIDE DEF of
<1> QED
  BY <1>7, <1>8

\* What scripts say are steps.
LEMMA FileSaysSteps ==
    ASSUME NEW r, NEW d \in [Files -> Seq(ScriptLine)], NEW p \in Paths, Target[p] \in Files,
           NEW inside, NEW of, \A q \in Paths : of[<<inside, q>>] \in Seq(AllSteps(r, d))
    PROVE  FileSays(r, d[Target[p]], of, inside, p) \in Seq(Seq(AllSteps(r, d)))
<1> DEFINE lines == d[Target[p]]
           X == AllSteps(r, d)
<1>1. lines \in Seq(ScriptLine)
  OBVIOUS
<1>2. Failed \in X /\ \A i \in Nat : StepOf(p, i, lines[i], Parsed(r, lines, i)) \in X
  BY DEF AllSteps
<1>3. \A x \in X : <<x>> \in Seq(X)
  OBVIOUS
<1>4. <<>> \in Seq(X)
  OBVIOUS
<1> HIDE DEF lines, X
<1>5. ASSUME NEW i \in 1..Len(lines) PROVE LineSays(r, lines, of, inside, p, i) \in Seq(X)
  <2>1. lines[i] \in ScriptLine
    BY <1>1, ElementOfSeq, Zenon
  <2>2. lines[i].to # None => of[<<inside, Resolve[p][lines[i].to]>>] \in Seq(X)
    BY <2>1, IncludedPath, Zenon DEF X
  <2>3. <<Failed>> \in Seq(X)
    BY <1>2, <1>3, Zenon
  <2>4. i \in Nat
    OBVIOUS
  <2>5. <<StepOf(p, i, lines[i], Parsed(r, lines, i))>> \in Seq(X)
    BY <1>2, <1>3, <2>4, Zenon
  <2> QED
    BY <1>4, <2>2, <2>3, <2>5, Zenon DEF LineSays
<1>6. Len(lines) \in Nat
  BY <1>1
<1>7. FileSays(r, lines, of, inside, p) \in [1..Len(lines) -> Seq(X)]
  BY <1>5, Zenon DEF FileSays
<1>8. FileSays(r, lines, of, inside, p) \in Seq(Seq(X))
  BY <1>6, <1>7
<1> QED
  BY <1>8 DEF lines, X

LEMMA SaysSteps ==
    ASSUME NEW r, NEW d \in [Files -> Seq(ScriptLine)]
    PROVE  \A read \in Reads : Says(r, d)[read] \in Seq(AllSteps(r, d))
<1> DEFINE N == Cardinality(Files) + 1
           of == Says(r, d)
           X == AllSteps(r, d)
           good == {n \in 0..N : \A read \in Deep(n) : of[read] \in Seq(X)}
<1>1. Cardinality(Files) \in Nat
  BY FS_CardinalityType, ReaderAssumption
<1>2. \A read \in Reads : Cardinality(read[1]) \in Nat /\ Cardinality(read[1]) <= Cardinality(Files)
  <2> SUFFICES ASSUME NEW read \in Reads
               PROVE  Cardinality(read[1]) \in Nat /\ Cardinality(read[1]) <= Cardinality(Files)
    OBVIOUS
  <2>1. read[1] \in SUBSET Files
    BY DEF Reads
  <2> QED
    BY <2>1, FS_Subset, FS_CardinalityType, ReaderAssumption
<1> HIDE DEF of, X
<1>3. 0 \in good
  <2>1. Deep(0) = {}
    BY <1>1, <1>2 DEF Deep
  <2> QED
    BY <1>1, <2>1
<1>4. ASSUME NEW n \in 1..N, n - 1 \in good PROVE n \in good
  <2>1. n - 1 \in Nat /\ n - 1 + 1 = n /\ n \in 0..N /\ n \in Nat
    BY <1>1
  <2>2. \A deeper \in Deep(n - 1) : of[deeper] \in Seq(X)
    BY <1>4
  <2> HIDE DEF N, good
  <2>3. ASSUME NEW read \in Deep(n) PROVE of[read] \in Seq(X)
    <3> DEFINE file == Target[read[2]]
               inside == read[1] \cup {file}
    <3>1. read \in Reads /\ Cardinality(read[1]) + (n - 1) + 1 > Cardinality(Files)
      BY <1>1, <1>2, <2>1 DEF Deep
    <3>2. of[read] = OneSays(r, d, of, read)
      BY <3>1, SaysIs, Zenon DEF of
    <3>3. CASE file = None \/ file \in read[1]
      <4>1. of[read] = <<Failed>> /\ Failed \in X
        BY <3>2, <3>3 DEF OneSays, X, AllSteps
      <4> QED
        BY <4>1
    <3>4. CASE ~(file = None \/ file \in read[1])
      <4>1. file \in Files /\ read[2] \in Paths
        BY <3>1, <3>4, PathHasFile
      <4>2. ASSUME NEW q \in Paths PROVE of[<<inside, q>>] \in Seq(X)
        <5>1. <<inside, q>> \in Deep(n - 1)
          BY <2>1, <3>1, <3>4, <4>1, InsideOneMore
        <5> QED
          BY <2>2, <5>1
      <4>3. FileSays(r, d[file], of, inside, read[2]) \in Seq(Seq(X))
        <5> HIDE DEF inside
        <5> QED
          BY <4>1, <4>2, FileSaysSteps, Zenon DEF X
      <4>4. of[read] = FlattenSeq(FileSays(r, d[file], of, inside, read[2]))
        BY <3>2, <3>4, Zenon DEF OneSays
      <4> DEFINE at == FileSays(r, d[file], of, inside, read[2])
      <4> HIDE DEF at
      <4>5. at \in Seq(Seq(X))
        BY <4>3 DEF at
      <4>6. Len(at) \in 0..Len(at)
        BY <4>5
      <4>7. FlattenSeq(at) \in Seq(X)
        BY <4>5, <4>6, FlattenIsFlat, FlatIsSeq, Zenon
      <4> QED
        BY <4>4, <4>7 DEF at
    <3> QED
      BY <3>3, <3>4
  <2> QED
    BY <2>1, <2>3 DEF good
<1> HIDE DEF good
<1>5. N \in good
  <2>1. N \in Nat /\ N \in 0..N
    BY <1>1
  <2> HIDE DEF N
  <2> QED
    BY <1>3, <1>4, <2>1, CountingUp, Zenon
<1>6. Deep(N) = Reads
  BY <1>1, <1>2 DEF Deep
<1>7. \A read \in Deep(N) : of[read] \in Seq(X)
  <2> HIDE DEF N
  <2> QED
    BY <1>5 DEF good
<1> QED
  BY <1>6, <1>7 DEF of, X

-----------------------------------------------------------------------------
(* What has been read so far                                               *)

\* Of the j-th of some calls: its file, the files it is inside, what its lines
\* say, and what its script says.
FileOf(fs, j) == Target[fs[j].path]
Around(fs, j) == {FileOf(fs, i) : i \in 1..(j - 1)}
Told(r, d, fs, j) ==
    FileSays(r, d[FileOf(fs, j)], Says(r, d), Around(fs, j) \cup {FileOf(fs, j)}, fs[j].path)
SaidOf(r, d, fs, j) == Says(r, d)[<<Around(fs, j), fs[j].path>>]

GoodCalls(fs) ==
    /\ fs \in Calls /\ fs # <<>>
    /\ \A i \in 1..Len(fs) : FileOf(fs, i) # None
    /\ \A i, j \in 1..Len(fs) : FileOf(fs, i) = FileOf(fs, j) => i = j

LEMMA GoodCall ==
    ASSUME NEW fs, GoodCalls(fs), NEW j \in 1..Len(fs)
    PROVE  /\ FileOf(fs, j) \in Files /\ fs[j].path \in Paths /\ fs[j].next \in Nat \ {0}
           /\ Around(fs, j) \in SUBSET Files /\ FileOf(fs, j) \notin Around(fs, j)
           /\ Len(fs) \in Nat \ {0} /\ DOMAIN fs = 1..Len(fs)
<1>1. /\ Len(fs) \in Nat /\ DOMAIN fs = 1..Len(fs)
      /\ \A i \in 1..Len(fs) : fs[i].path \in Paths /\ fs[i].next \in Nat \ {0}
  BY CallsAre DEF GoodCalls
<1>2. \A i \in 1..Len(fs) : FileOf(fs, i) \in Files
  BY <1>1, ReaderAssumption DEF GoodCalls, FileOf
<1>3. \A i \in 1..(j - 1) : i \in 1..Len(fs) /\ i # j
  BY <1>1
<1>4. Around(fs, j) \in SUBSET Files
  BY <1>2, <1>3 DEF Around
<1>5. FileOf(fs, j) \notin Around(fs, j)
  BY <1>3 DEF GoodCalls, Around
<1> QED
  BY <1>1, <1>2, <1>4, <1>5

LEMMA ToldIsSaid ==
    ASSUME NEW r, NEW d \in [Files -> Seq(ScriptLine)], NEW fs, GoodCalls(fs),
           NEW j \in 1..Len(fs)
    PROVE  /\ Told(r, d, fs, j) \in Seq(Seq(AllSteps(r, d)))
           /\ Len(Told(r, d, fs, j)) = Len(d[FileOf(fs, j)])
           /\ SaidOf(r, d, fs, j) = Flat(Told(r, d, fs, j))[Len(Told(r, d, fs, j))]
<1> DEFINE file == FileOf(fs, j)
           inside == Around(fs, j) \cup {file}
           at == Told(r, d, fs, j)
           X == AllSteps(r, d)
<1>1. /\ file \in Files /\ fs[j].path \in Paths /\ Around(fs, j) \in SUBSET Files
      /\ file \notin Around(fs, j)
  BY GoodCall
<1>2. ASSUME NEW q \in Paths PROVE Says(r, d)[<<inside, q>>] \in Seq(X)
  <2>1. <<inside, q>> \in Reads
    BY <1>1 DEF Reads
  <2> QED
    BY <2>1, SaysSteps
<1>3. at \in Seq(Seq(X))
  BY <1>1, <1>2, FileSaysSteps DEF Told, FileOf
<1>4. Len(at) = Len(d[file])
  <2>1. d[file] \in Seq(ScriptLine)
    BY <1>1
  <2>2. at \in [1..Len(d[file]) -> {at[i] : i \in 1..Len(d[file])}]
    BY DEF Told, FileSays
  <2>3. Len(d[file]) \in Nat /\ DOMAIN at = 1..Len(d[file])
    BY <2>1, <2>2
  <2> HIDE DEF at, file
  <2> QED
    BY <1>3, <2>3
<1>5. SaidOf(r, d, fs, j) = FlattenSeq(at)
  <2>1. <<Around(fs, j), fs[j].path>> \in Reads
    BY <1>1 DEF Reads
  <2>2. SaidOf(r, d, fs, j) = OneSays(r, d, Says(r, d), <<Around(fs, j), fs[j].path>>)
    BY <2>1, SaysIs, Zenon DEF SaidOf
  <2>3. file # None
    BY DEF GoodCalls
  <2> QED
    BY <1>1, <2>2, <2>3 DEF OneSays, Told, FileOf
<1>6. FlattenSeq(at) = Flat(at)[Len(at)]
  BY <1>3, FlattenIsFlat, Zenon
<1> QED
  BY <1>3, <1>4, <1>5, <1>6

\* Calls of the same paths, wherever they are in them.
LEMMA SameAround ==
    ASSUME NEW fs, NEW gs, NEW j \in Nat, \A i \in 1..(j - 1) : fs[i].path = gs[i].path
    PROVE  Around(fs, j) = Around(gs, j)
<1>1. \A i \in 1..(j - 1) : FileOf(fs, i) = FileOf(gs, i)
  BY DEF FileOf
<1> QED
  BY <1>1 DEF Around

LEMMA SamePaths ==
    ASSUME NEW r, NEW d, NEW fs, NEW gs, NEW j \in Nat \ {0},
           \A i \in 1..j : fs[i].path = gs[i].path
    PROVE  /\ FileOf(fs, j) = FileOf(gs, j)
           /\ Told(r, d, fs, j) = Told(r, d, gs, j)
           /\ SaidOf(r, d, fs, j) = SaidOf(r, d, gs, j)
<1>1. Around(fs, j) = Around(gs, j)
  BY SameAround
<1>2. fs[j].path = gs[j].path /\ FileOf(fs, j) = FileOf(gs, j)
  BY DEF FileOf
<1> QED
  BY <1>1, <1>2, Zenon DEF Told, SaidOf

LEMMA SameCalls ==
    ASSUME NEW r, NEW d, NEW fs, NEW gs, NEW k \in Nat, \A i \in 1..k : gs[i].path = fs[i].path
    PROVE  \A j \in 1..k : /\ FileOf(gs, j) = FileOf(fs, j)
                           /\ Told(r, d, gs, j) = Told(r, d, fs, j)
                           /\ SaidOf(r, d, gs, j) = SaidOf(r, d, fs, j)
<1> SUFFICES ASSUME NEW j \in 1..k
             PROVE  /\ FileOf(gs, j) = FileOf(fs, j)
                    /\ Told(r, d, gs, j) = Told(r, d, fs, j)
                    /\ SaidOf(r, d, gs, j) = SaidOf(r, d, fs, j)
  OBVIOUS
<1>1. j \in Nat \ {0} /\ \A i \in 1..j : gs[i].path = fs[i].path
  OBVIOUS
<1> QED
  BY <1>1, SamePaths, Zenon

\* The bodies of the lines before line n are before it.
BodiesBehind(r, lines, n) ==
    \A i \in 1..Len(lines) : i < n /\ ~InBody(r, lines, i) => BodyEnd(r, lines, i) < n

\* The line a call is past says what the script of the next call says.
Included(r, d, fs, j) ==
    /\ fs[j].next - 1 \in 1..Len(Told(r, d, fs, j))
    /\ Told(r, d, fs, j)[fs[j].next - 1] = SaidOf(r, d, fs, j + 1)

\* a \o b, for facts that are not about its elements.
Then(a, b) == a \o b

LEMMA ThenInAnyOrder ==
    ASSUME NEW X, NEW a \in Seq(X), NEW b \in Seq(X), NEW c \in Seq(X)
    PROVE  Then(Then(a, b), c) = Then(a, Then(b, c))
BY ConcatAssociative DEF Then

\* The steps read before each of the calls, and by it until it called the next.
Before(r, d, fs, ss, before) ==
    /\ before[1] = <<>>
    /\ \A j \in 1..Len(fs) : before[j] \in Seq(AllSteps(r, d))
    /\ \A j \in 1..(Len(fs) - 1) :
          before[j + 1] = Then(before[j], Flat(Told(r, d, fs, j))[fs[j].next - 2])
    /\ ss = Then(before[Len(fs)], Flat(Told(r, d, fs, Len(fs)))[fs[Len(fs)].next - 1])

ReadSoFar(r, d, fs, ss) ==
    /\ GoodCalls(fs)
    /\ \A j \in 1..Len(fs) : /\ BodiesBehind(r, d[FileOf(fs, j)], fs[j].next)
                             /\ fs[j].next - 1 \in 0..Len(Told(r, d, fs, j))
    /\ \A j \in 1..(Len(fs) - 1) : Included(r, d, fs, j)
    /\ \E before : Before(r, d, fs, ss, before)
    /\ ss \in Seq(AllSteps(r, d)) /\ ~IsRefused(ss)

\* What is wrong in a file is wrong in the script that includes it.
LEMMA RefusalsRise ==
    ASSUME NEW r, NEW d \in [Files -> Seq(ScriptLine)], NEW fs, NEW ss,
           ReadSoFar(r, d, fs, ss), NEW i \in 1..Len(Told(r, d, fs, Len(fs))),
           IsRefused(Told(r, d, fs, Len(fs))[i])
    PROVE  IsRefused(Says(r, d)[<<{}, fs[1].path>>])
<1> DEFINE k == Len(fs)
           good == {m \in 0..(k - 1) : IsRefused(SaidOf(r, d, fs, k - m))}
<1>1. GoodCalls(fs) /\ k \in Nat \ {0}
  BY CallsAre DEF ReadSoFar, GoodCalls, Calls
<1>2. ASSUME NEW j \in 1..k, NEW n \in 1..Len(Told(r, d, fs, j)), IsRefused(Told(r, d, fs, j)[n])
      PROVE  IsRefused(SaidOf(r, d, fs, j))
  <2>1. /\ Told(r, d, fs, j) \in Seq(Seq(AllSteps(r, d)))
        /\ SaidOf(r, d, fs, j) = Flat(Told(r, d, fs, j))[Len(Told(r, d, fs, j))]
    BY <1>1, ToldIsSaid
  <2>2. IsRefused(Flat(Told(r, d, fs, j))[Len(Told(r, d, fs, j))])
    BY <1>2, <2>1, FlatRefused, Zenon
  <2> QED
    BY <2>1, <2>2
<1>3. 0 \in good
  <2>1. k \in 1..k /\ k - 0 = k /\ 0 \in 0..(k - 1)
    BY <1>1
  <2>2. IsRefused(SaidOf(r, d, fs, k))
    BY <1>2, <2>1
  <2> QED
    BY <2>1, <2>2
<1>4. ASSUME NEW m \in 1..(k - 1), m - 1 \in good PROVE m \in good
  <2>1. k - m \in 1..(k - 1) /\ k - m \in 1..k /\ k - (m - 1) = k - m + 1 /\ m \in 0..(k - 1)
    BY <1>1
  <2>2. IsRefused(SaidOf(r, d, fs, k - m + 1))
    BY <1>4, <2>1
  <2>3. Included(r, d, fs, k - m)
    BY <2>1 DEF ReadSoFar
  <2>4. IsRefused(SaidOf(r, d, fs, k - m))
    BY <1>2, <2>1, <2>2, <2>3 DEF Included
  <2> QED
    BY <2>1, <2>4
<1> HIDE DEF good
<1>5. k - 1 \in good
  <2>1. k - 1 \in Nat /\ k - 1 \in 0..(k - 1)
    BY <1>1
  <2> HIDE DEF k
  <2> QED
    BY <1>3, <1>4, <2>1, CountingUp, Zenon
<1>6. IsRefused(SaidOf(r, d, fs, 1))
  <2>1. k - (k - 1) = 1
    BY <1>1
  <2> QED
    BY <1>5, <2>1 DEF good
<1>7. Around(fs, 1) = {}
  BY DEF Around
<1> QED
  BY <1>6, <1>7 DEF SaidOf

\* No body reaches past the bodies behind a line.
LEMMA BehindIsOutside ==
    ASSUME NEW r, NEW lines, Len(lines) \in Nat, NEW n \in 1..Len(lines),
           BodiesBehind(r, lines, n), \A i \in 1..Len(lines) : BodyEnd(r, lines, i) \in Nat
    PROVE  ~InBody(r, lines, n)
<1> SUFFICES ASSUME NEW j \in 1..(n - 1), BodyEnds(r, lines)[j] >= n PROVE FALSE
  BY DEF InBody
<1>1. j \in 1..Len(lines) /\ j < n
  OBVIOUS
<1>2. BodyEnds(r, lines)[j] = IF InBody(r, lines, j) THEN 0 ELSE BodyEnd(r, lines, j)
  BY <1>1, BodyEndsAre, Zenon
<1>3. BodyEnds(r, lines)[j] < n
  BY <1>1, <1>2 DEF BodiesBehind
<1>4. BodyEnds(r, lines)[j] \in Nat
  BY <1>1, <1>2
<1> QED
  BY <1>3, <1>4

LEMMA TerminatorIs ==
    ASSUME NEW lines, Len(lines) \in Nat, NEW i \in 1..Len(lines), NEW word
    PROVE  Terminator(lines, i, word) = 0 \/ Terminator(lines, i, word) \in (i + 1)..Len(lines)
<1> DEFINE found == {k \in (i + 1)..Len(lines) : lines[k].text = word}
<1>1. found \in SUBSET Nat
  OBVIOUS
<1>2. Terminator(lines, i, word) = IF found = {} THEN 0 ELSE Min(found)
  BY DEF Terminator
<1>3. found # {} => Min(found) \in found
  <2> HIDE DEF found
  <2> QED
    BY <1>1, MinIsLeast
<1>4. found \subseteq (i + 1)..Len(lines)
  OBVIOUS
<1> HIDE DEF found
<1> QED
  BY <1>2, <1>3, <1>4

LEMMA BodyEndIs ==
    ASSUME NEW r, NEW lines, Len(lines) \in Nat, NEW i \in 1..Len(lines)
    PROVE  BodyEnd(r, lines, i) = 0 \/ BodyEnd(r, lines, i) \in (i + 1)..Len(lines)
BY TerminatorIs DEF BodyEnd

\* The reader goes on after the line and its body.
LEMMA ParsedIsPastBody ==
    ASSUME NEW r \in Readers, NEW lines, Len(lines) \in Nat, NEW i \in 1..Len(lines),
           ~Skipped(r, lines[i]), Parsed(r, lines, i).kind # "error"
    PROVE  Parsed(r, lines, i).next =
              IF BodyEnd(r, lines, i) = 0 THEN i + 1 ELSE BodyEnd(r, lines, i) + 1
<1> DEFINE line == lines[i]
           s == Trim(line.text)
<1>1. /\ Failed.kind = "error" /\ Directive(i).next = i + 1
      /\ \A t : Command(t, i).kind # "error" => Command(t, i).next = i + 1
  BY DEF Failed, Directive, Command
<1>2. ASSUME NEW kind, NEW end, WithBody(kind, lines, i, end).kind # "error"
      PROVE  end # 0 /\ WithBody(kind, lines, i, end).next = end + 1
  BY <1>2 DEF WithBody, Failed
<1>3. CASE r = "legacy" /\ IsDirective(r, line)
  <2>1. BodyEnd(r, lines, i) = 0
    BY <1>3 DEF BodyEnd
  <2>2. Parsed(r, lines, i) = parse_directive(lines, i)
    BY <1>3 DEF Parsed
  <2> QED
    BY <1>1, <2>1, <2>2 DEF parse_directive
<1>4. CASE r = "legacy" /\ ~IsDirective(r, line)
  <2>1. Parsed(r, lines, i) = parse_command_line(lines, i)
    BY <1>4 DEF Parsed
  <2>2. BodyEnd(r, lines, i) = IF Markers(s) = {} THEN 0
                               ELSE Terminator(lines, i, HeredocWord(s))
    BY <1>4 DEF BodyEnd
  <2>3. CASE Markers(s) = {}
    BY <1>1, <2>1, <2>2, <2>3 DEF parse_command_line
  <2>4. CASE Markers(s) # {}
    <3>1. Parsed(r, lines, i) = WithBody("script", lines, i, Terminator(lines, i, HeredocWord(s)))
      BY <1>1, <2>1, <2>4 DEF parse_command_line
    <3> QED
      BY <1>2, <2>2, <2>4, <3>1
  <2> QED
    BY <2>3, <2>4
<1>5. CASE r = "gtest" /\ IsDirective(r, line)
  <2>1. Parsed(r, lines, i) = parse_hash_directive(lines, i)
    BY <1>5 DEF Parsed
  <2>2. BodyEnd(r, lines, i) = IF line.directive # "write" THEN 0
                               ELSE Terminator(lines, i, <<"E">>)
    BY <1>5 DEF BodyEnd
  <2>3. CASE line.directive = "write"
    <3>1. Parsed(r, lines, i) = WithBody("directive", lines, i, Terminator(lines, i, <<"E">>))
      BY <2>1, <2>3 DEF parse_hash_directive
    <3> QED
      BY <1>2, <2>2, <2>3, <3>1
  <2>4. CASE line.directive # "write"
    <3>1. \/ Parsed(r, lines, i) = Directive(i)
          \/ Parsed(r, lines, i) = Command(Trim(SubSeq(s, 4, Len(s))), i)
          \/ Parsed(r, lines, i) = Failed
      BY <2>1, <2>4 DEF parse_hash_directive
    <3> QED
      BY <1>1, <2>2, <2>4, <3>1
  <2> QED
    BY <2>3, <2>4
<1>6. CASE r = "gtest" /\ ~IsDirective(r, line)
  <2>1. BodyEnd(r, lines, i) = 0
    BY <1>6 DEF BodyEnd
  <2>2. Parsed(r, lines, i) = Command(s, i)
    BY <1>6 DEF Parsed
  <2> QED
    BY <1>1, <2>1, <2>2
<1> QED
  BY <1>3, <1>4, <1>5, <1>6 DEF Readers

\* The line a call is at stands for what it says, unless it is in a body.
LEMMA LineIsTold ==
    ASSUME NEW r \in Readers, NEW d \in [Files -> Seq(ScriptLine)], NEW fs, NEW ss,
           ReadSoFar(r, d, fs, ss), fs[Len(fs)].next <= Len(d[FileOf(fs, Len(fs))])
    PROVE  LET k == Len(fs)
               n == fs[k].next
               lines == d[FileOf(fs, k)]
           IN  /\ k \in 1..k /\ n \in 1..Len(lines) /\ Len(lines) = Len(Told(r, d, fs, k))
               /\ lines \in Seq(ScriptLine)
               /\ ~InBody(r, lines, n)
               /\ Told(r, d, fs, k)[n] =
                     LineSays(r, lines, Says(r, d), Around(fs, k) \cup {FileOf(fs, k)},
                              fs[k].path, n)
<1> DEFINE k == Len(fs)
           n == fs[k].next
           lines == d[FileOf(fs, k)]
<1>1. k \in 1..k /\ GoodCalls(fs)
  BY CallsAre DEF ReadSoFar, GoodCalls, Calls
<1>2. FileOf(fs, k) \in Files /\ n \in Nat \ {0}
  BY <1>1, GoodCall
<1>3. lines \in Seq(ScriptLine) /\ Len(lines) \in Nat /\ n \in 1..Len(lines)
  <2>1. lines \in Seq(ScriptLine) /\ n <= Len(lines)
    BY <1>2
  <2> HIDE DEF lines, n
  <2> QED
    BY <1>2, <2>1
<1>4. Len(lines) = Len(Told(r, d, fs, k))
  <2>1. k \in 1..Len(fs)
    BY <1>1
  <2> HIDE DEF k
  <2>2. /\ Told(r, d, fs, k) \in Seq(Seq(AllSteps(r, d)))
        /\ Len(Told(r, d, fs, k)) = Len(d[FileOf(fs, k)])
        /\ SaidOf(r, d, fs, k) = Flat(Told(r, d, fs, k))[Len(Told(r, d, fs, k))]
    BY <1>1, <2>1, ToldIsSaid, Zenon
  <2> QED
    BY <2>2
<1>5. BodiesBehind(r, lines, n)
  BY <1>1 DEF ReadSoFar
<1>6. \A i \in 1..Len(lines) : BodyEnd(r, lines, i) \in Nat
  <2> HIDE DEF lines
  <2> QED
    BY <1>3, BodyEndIs
<1>7. ~InBody(r, lines, n)
  <2> HIDE DEF lines, n
  <2> QED
    BY <1>3, <1>5, <1>6, BehindIsOutside
<1>8. Told(r, d, fs, k)[n] =
         LineSays(r, lines, Says(r, d), Around(fs, k) \cup {FileOf(fs, k)}, fs[k].path, n)
  BY <1>3, Zenon DEF Told, FileSays
<1> QED
  BY <1>1, <1>3, <1>4, <1>7, <1>8

\* The last call moves.
LEMMA CallMoves ==
    ASSUME NEW fs, GoodCalls(fs), NEW m \in Nat \ {0}
    PROVE  LET k == Len(fs)
               gs == [fs EXCEPT ![k].next = m]
           IN  /\ k \in Nat \ {0} /\ k \in 1..k
               /\ gs \in Calls /\ Len(gs) = k
               /\ \A i \in 1..k : gs[i].path = fs[i].path
               /\ \A i \in 1..(k - 1) : gs[i] = fs[i]
               /\ gs[k].next = m
<1> DEFINE k == Len(fs)
           call == [fs[k] EXCEPT !.next = m]
           gs == [fs EXCEPT ![k].next = m]
<1>1. fs \in Calls /\ fs # <<>>
  BY DEF GoodCalls
<1>2. k \in Nat \ {0} /\ DOMAIN fs = 1..k
  BY <1>1 DEF Calls
<1>3. k \in 1..k /\ \A i \in 1..(k - 1) : i \in 1..k /\ i # k
  <2> HIDE DEF k
  <2> QED
    BY <1>2
<1>4. fs[k] \in [path: Paths, next: Nat \ {0}]
  BY <1>1, <1>3, CallsAre
<1>5. call \in [path: Paths, next: Nat \ {0}] /\ call.path = fs[k].path /\ call.next = m
  BY <1>4
<1>6. gs = [fs EXCEPT ![k] = call]
  OBVIOUS
<1> HIDE DEF call, gs
<1>7. /\ gs \in Calls /\ Len(gs) = k
      /\ \A i \in 1..k : gs[i] = IF i = k THEN call ELSE fs[i]
  BY <1>1, <1>3, <1>5, <1>6, ExceptSeq DEF Calls
<1> HIDE DEF k
<1>8. /\ \A i \in 1..k : gs[i].path = fs[i].path
      /\ \A i \in 1..(k - 1) : gs[i] = fs[i]
      /\ gs[k].next = m
  BY <1>3, <1>5, <1>7
<1> QED
  BY <1>2, <1>3, <1>7, <1>8 DEF gs, k

\* Another is entered from it.
LEMMA CallEnters ==
    ASSUME NEW fs, GoodCalls(fs), NEW n \in Nat \ {0}, NEW p \in Paths
    PROVE  LET k == Len(fs)
               gs == Append([fs EXCEPT ![k].next = n + 1], [path |-> p, next |-> 1])
           IN  /\ k \in Nat \ {0} /\ k \in 1..k
               /\ gs \in Calls /\ Len(gs) = k + 1
               /\ \A i \in 1..k : gs[i].path = fs[i].path
               /\ \A i \in 1..(k - 1) : gs[i] = fs[i]
               /\ gs[k].next = n + 1 /\ gs[k + 1].path = p /\ gs[k + 1].next = 1
<1> DEFINE k == Len(fs)
           es == [fs EXCEPT ![k].next = n + 1]
           call == [path |-> p, next |-> 1]
           gs == Append(es, call)
<1>1. /\ k \in Nat \ {0} /\ k \in 1..k
      /\ es \in Calls /\ Len(es) = k
      /\ \A i \in 1..k : es[i].path = fs[i].path
      /\ \A i \in 1..(k - 1) : es[i] = fs[i]
      /\ es[k].next = n + 1
  <2>1. PICK m \in Nat \ {0} : m = n + 1
    OBVIOUS
  <2> DEFINE moved == [fs EXCEPT ![k].next = m]
  <2>2. /\ k \in Nat \ {0} /\ k \in 1..k
        /\ moved \in Calls /\ Len(moved) = k
        /\ \A i \in 1..k : moved[i].path = fs[i].path
        /\ \A i \in 1..(k - 1) : moved[i] = fs[i]
        /\ moved[k].next = m
    BY CallMoves, Zenon
  <2>3. moved = es
    BY <2>1
  <2> HIDE DEF moved, es
  <2> QED
    BY <2>1, <2>2, <2>3
<1>2. call \in [path: Paths, next: Nat \ {0}] /\ call.path = p /\ call.next = 1
  OBVIOUS
<1> HIDE DEF es, call
<1>3. /\ gs \in Calls /\ Len(gs) = k + 1 /\ gs[k + 1] = call
      /\ \A i \in 1..k : gs[i] = es[i]
  BY <1>1, <1>2, AppendProperties DEF Calls
<1> HIDE DEF k, gs
<1>4. \A i \in 1..(k - 1) : i \in 1..k
  BY <1>1
<1>5. /\ \A i \in 1..k : gs[i].path = fs[i].path
      /\ \A i \in 1..(k - 1) : gs[i] = fs[i]
      /\ gs[k].next = n + 1 /\ gs[k + 1].path = p /\ gs[k + 1].next = 1
  BY <1>1, <1>2, <1>3, <1>4
<1> QED
  BY <1>1, <1>3, <1>5 DEF k, gs, es, call

\* The last call moves on over lines that say t, of which nothing is wrong.
LEMMA ReadsOn ==
    ASSUME NEW r, NEW d \in [Files -> Seq(ScriptLine)], NEW fs, NEW ss, ReadSoFar(r, d, fs, ss),
           NEW m \in Nat \ {0}, NEW t \in Seq(AllSteps(r, d)), ~IsRefused(t),
           m - 1 \in 0..Len(Told(r, d, fs, Len(fs))),
           Flat(Told(r, d, fs, Len(fs)))[m - 1] =
              Then(Flat(Told(r, d, fs, Len(fs)))[fs[Len(fs)].next - 1], t),
           BodiesBehind(r, d[FileOf(fs, Len(fs))], m)
    PROVE  ReadSoFar(r, d, [fs EXCEPT ![Len(fs)].next = m], Then(ss, t))
<1> DEFINE k == Len(fs)
           gs == [fs EXCEPT ![k].next = m]
           at == Told(r, d, fs, k)
           X == AllSteps(r, d)
<1>1. GoodCalls(fs)
  BY DEF ReadSoFar
<1>2. /\ k \in Nat \ {0} /\ k \in 1..k
      /\ gs \in Calls /\ Len(gs) = k
      /\ \A i \in 1..k : gs[i].path = fs[i].path
      /\ \A i \in 1..(k - 1) : gs[i] = fs[i]
      /\ gs[k].next = m
  BY <1>1, CallMoves, Zenon
<1> HIDE DEF gs
<1>3. \A j \in 1..k : /\ FileOf(gs, j) = FileOf(fs, j)
                      /\ Told(r, d, gs, j) = Told(r, d, fs, j)
                      /\ SaidOf(r, d, gs, j) = SaidOf(r, d, fs, j)
  <2>1. k \in Nat /\ \A i \in 1..k : gs[i].path = fs[i].path
    BY <1>2
  <2> HIDE DEF k
  <2> QED
    BY <2>1, SameCalls, Zenon
<1>4. GoodCalls(gs)
  BY <1>1, <1>2, <1>3 DEF GoodCalls
<1>5. ASSUME NEW j \in 1..k
      PROVE  /\ BodiesBehind(r, d[FileOf(gs, j)], gs[j].next)
             /\ gs[j].next - 1 \in 0..Len(Told(r, d, gs, j))
  <2>1. CASE j = k
    BY <1>2, <1>3, <2>1
  <2>2. CASE j # k
    <3>1. j \in 1..(k - 1)
      <4> HIDE DEF k
      <4> QED
        BY <1>1, <1>2, <2>2
    <3>2. gs[j] = fs[j]
      BY <1>2, <3>1, Zenon
    <3> QED
      BY <1>3, <3>2 DEF ReadSoFar
  <2> QED
    BY <2>1, <2>2
<1>6. ASSUME NEW j \in 1..(k - 1) PROVE Included(r, d, gs, j)
  <2>1. j \in 1..k /\ j + 1 \in 1..k
    BY <1>1, <1>2
  <2>2. Included(r, d, fs, j) /\ gs[j] = fs[j]
    BY <1>2 DEF ReadSoFar
  <2> QED
    BY <1>3, <2>1, <2>2, Zenon DEF Included
<1>7. \E before : Before(r, d, gs, Then(ss, t), before)
  <2>1. PICK before : Before(r, d, fs, ss, before)
    BY DEF ReadSoFar
  <2> DEFINE F == Flat(at)[fs[k].next - 1]
  <2>2. before[k] \in Seq(X) /\ F \in Seq(X) /\ t \in Seq(X)
    <3>1. at \in Seq(Seq(X)) /\ fs[k].next - 1 \in 0..Len(at)
      BY <1>1, <1>2, ToldIsSaid DEF ReadSoFar
    <3>2. F \in Seq(X)
      BY <3>1, FlatIsSeq, Zenon
    <3> QED
      BY <1>1, <1>2, <2>1, <3>2 DEF Before
  <2>3. ss = Then(before[k], F)
    BY <2>1 DEF Before
  <2>4. Then(ss, t) = Then(before[k], Flat(at)[m - 1])
    <3>1. Flat(at)[m - 1] = Then(F, t)
      OBVIOUS
    <3> HIDE DEF F, X, k, at
    <3> QED
      BY <2>2, <2>3, <3>1, ThenInAnyOrder
  <2>5. Then(ss, t) = Then(before[k], Flat(Told(r, d, gs, k))[gs[k].next - 1])
    BY <1>1, <1>2, <1>3, <2>4
  <2>6. ASSUME NEW j \in 1..(k - 1)
        PROVE  before[j + 1] = Then(before[j], Flat(Told(r, d, gs, j))[gs[j].next - 2])
    <3>1. j \in 1..k /\ gs[j] = fs[j] /\ Told(r, d, gs, j) = Told(r, d, fs, j)
      BY <1>1, <1>2, <1>3
    <3>2. before[j + 1] = Then(before[j], Flat(Told(r, d, fs, j))[fs[j].next - 2])
      BY <2>1 DEF Before
    <3> QED
      BY <3>1, <3>2, Zenon
  <2>7. before[1] = <<>> /\ \A j \in 1..k : before[j] \in Seq(X)
    BY <2>1 DEF Before
  <2>8. Before(r, d, gs, Then(ss, t), before)
    BY <1>2, <2>5, <2>6, <2>7 DEF Before
  <2> QED
    BY <2>8
<1>8. Then(ss, t) \in Seq(X) /\ ~IsRefused(Then(ss, t))
  <2>1. ss \in Seq(X) /\ ~IsRefused(ss)
    BY DEF ReadSoFar
  <2> HIDE DEF X
  <2>2. t \in Seq(X)
    BY DEF X
  <2>3. /\ ss \o t \in Seq(X) /\ Len(ss \o t) = Len(ss) + Len(t)
        /\ \A i \in 1..(Len(ss) + Len(t)) :
              (ss \o t)[i] = IF i <= Len(ss) THEN ss[i] ELSE t[i - Len(ss)]
    BY <2>1, <2>2
  <2>4. ASSUME NEW i \in DOMAIN (ss \o t) PROVE (ss \o t)[i].kind # "error"
    <3>1. i \in 1..(Len(ss) + Len(t)) /\ Len(ss) \in Nat /\ Len(t) \in Nat
          /\ DOMAIN ss = 1..Len(ss) /\ DOMAIN t = 1..Len(t)
      BY <2>1, <2>2, <2>3
    <3>2. CASE i <= Len(ss)
      <4>1. i \in DOMAIN ss /\ (ss \o t)[i] = ss[i]
        BY <2>3, <3>1, <3>2
      <4> QED
        BY <2>1, <4>1 DEF IsRefused
    <3>3. CASE ~(i <= Len(ss))
      <4>1. i - Len(ss) \in DOMAIN t /\ (ss \o t)[i] = t[i - Len(ss)]
        BY <2>3, <3>1, <3>3
      <4> QED
        BY <4>1 DEF IsRefused
    <3> QED
      BY <3>2, <3>3
  <2> QED
    BY <2>3, <2>4 DEF IsRefused, X, Then
<1> QED
  BY <1>2, <1>4, <1>5, <1>6, <1>7, <1>8 DEF ReadSoFar, gs

\* A script of which nothing has been read.
LEMMA ReadsNothing ==
    ASSUME NEW r, NEW d \in [Files -> Seq(ScriptLine)], NEW p \in Paths, Target[p] # None
    PROVE  ReadSoFar(r, d, <<[path |-> p, next |-> 1]>>, <<>>)
<1> DEFINE fs == <<[path |-> p, next |-> 1]>>
           before == <<<<>>>>
<1>1. /\ fs \in Calls /\ Len(fs) = 1 /\ fs # <<>> /\ fs[1].path = p /\ fs[1].next = 1
      /\ 1..1 = {1} /\ 1..(1 - 1) = {}
  BY DEF Calls
<1>2. before[1] = <<>> /\ 1 \in 1..1 /\ 1 - 1 = 0
  OBVIOUS
<1> HIDE DEF fs, before
<1>3. GoodCalls(fs)
  BY <1>1 DEF GoodCalls, FileOf
<1>4. /\ Told(r, d, fs, 1) \in Seq(Seq(AllSteps(r, d)))
      /\ Flat(Told(r, d, fs, 1))[0] = <<>>
  <2>1. Told(r, d, fs, 1) \in Seq(Seq(AllSteps(r, d)))
    BY <1>1, <1>2, <1>3, ToldIsSaid
  <2> QED
    BY <2>1, FlatStarts, Zenon
<1>5. \A i \in 1..Len(d[FileOf(fs, 1)]) : ~(i < 1)
  OBVIOUS
<1>6. BodiesBehind(r, d[FileOf(fs, 1)], 1)
  BY <1>5 DEF BodiesBehind
<1>7. 0 \in 0..Len(Told(r, d, fs, 1))
  BY <1>4
<1>8. <<>> = Then(<<>>, <<>>) /\ <<>> \in Seq(AllSteps(r, d))
  BY DEF Then
<1>9. Before(r, d, fs, <<>>, before)
  BY <1>1, <1>2, <1>4, <1>8, Zenon DEF Before
<1>10. ~IsRefused(<<>>)
  BY DEF IsRefused
<1>11. \A j \in 1..(1 - 1) : Included(r, d, fs, j)
  BY <1>1, Zenon
<1>12. \A j \in 1..1 : /\ BodiesBehind(r, d[FileOf(fs, j)], fs[j].next)
                       /\ fs[j].next - 1 \in 0..Len(Told(r, d, fs, j))
  BY <1>1, <1>2, <1>6, <1>7, Zenon
<1> QED
  BY <1>1, <1>3, <1>8, <1>9, <1>10, <1>11, <1>12, Zenon DEF ReadSoFar, fs

\* The script that was called first has been read: this is what it says.
LEMMA ReadsAll ==
    ASSUME NEW r, NEW d \in [Files -> Seq(ScriptLine)], NEW fs, NEW ss, ReadSoFar(r, d, fs, ss),
           Len(fs) = 1, fs[1].next - 1 = Len(Told(r, d, fs, 1))
    PROVE  ss = Says(r, d)[<<{}, fs[1].path>>] /\ ~IsRefused(ss)
<1> DEFINE at == Told(r, d, fs, 1)
           X == AllSteps(r, d)
<1>1. GoodCalls(fs) /\ 1 \in 1..Len(fs) /\ ~IsRefused(ss)
  BY DEF ReadSoFar
<1>2. PICK before : Before(r, d, fs, ss, before)
  BY DEF ReadSoFar
<1>3. ss = Then(<<>>, Flat(at)[Len(at)])
  BY <1>2, Zenon DEF Before
<1>4. at \in Seq(Seq(X)) /\ SaidOf(r, d, fs, 1) = Flat(at)[Len(at)]
  BY <1>1, ToldIsSaid
<1> HIDE DEF at, X
<1>5. Len(at) \in 0..Len(at)
  BY <1>4
<1>6. Flat(at)[Len(at)] \in Seq(X)
  BY <1>4, <1>5, FlatIsSeq, Zenon
<1>7. Then(<<>>, Flat(at)[Len(at)]) = Flat(at)[Len(at)]
  BY <1>6, EmptyBefore, Zenon DEF Then
<1>8. Around(fs, 1) = {}
  BY DEF Around
<1> QED
  BY <1>1, <1>3, <1>4, <1>7, <1>8, Zenon DEF SaidOf

\* An @include at line n of the last call names p, and what p says is what the
\* line stands for.
Enters(r, d, fs, p, n) ==
    LET k == Len(fs)
        inside == Around(fs, k) \cup {FileOf(fs, k)}
    IN  /\ n = fs[k].next /\ n \in 1..Len(Told(r, d, fs, k))
        /\ Target[p] # None /\ Target[p] \notin inside
        /\ Told(r, d, fs, k)[n] = Says(r, d)[<<inside, p>>]
        /\ BodiesBehind(r, d[FileOf(fs, k)], n + 1)

LEMMA ReadsInto ==
    ASSUME NEW r, NEW d \in [Files -> Seq(ScriptLine)], NEW fs, NEW ss, ReadSoFar(r, d, fs, ss),
           NEW p \in Paths, NEW n \in Nat \ {0}, Enters(r, d, fs, p, n)
    PROVE  ReadSoFar(r, d, Append([fs EXCEPT ![Len(fs)].next = n + 1],
                                  [path |-> p, next |-> 1]), ss)
<1> DEFINE k == Len(fs)
           gs == Append([fs EXCEPT ![k].next = n + 1], [path |-> p, next |-> 1])
           at == Told(r, d, fs, k)
           X == AllSteps(r, d)
<1>1. n + 1 \in Nat \ {0} /\ GoodCalls(fs)
  BY DEF ReadSoFar
<1>2. /\ k \in Nat \ {0} /\ k \in 1..k
      /\ gs \in Calls /\ Len(gs) = k + 1
      /\ \A i \in 1..k : gs[i].path = fs[i].path
      /\ \A i \in 1..(k - 1) : gs[i] = fs[i]
      /\ gs[k].next = n + 1 /\ gs[k + 1].path = p /\ gs[k + 1].next = 1
  BY <1>1, CallEnters, Zenon
<1>3. gs \in Calls /\ Len(gs) = k + 1 /\ GoodCalls(fs)
  BY <1>1, <1>2
<1>4. /\ \A i \in 1..k : gs[i].path = fs[i].path
      /\ \A i \in 1..(k - 1) : gs[i] = fs[i]
      /\ gs[k].next = n + 1 /\ gs[k + 1].path = p /\ gs[k + 1].next = 1
  BY <1>2
<1> HIDE DEF gs
<1>5. \A j \in 1..k : /\ FileOf(gs, j) = FileOf(fs, j)
                      /\ Told(r, d, gs, j) = Told(r, d, fs, j)
                      /\ SaidOf(r, d, gs, j) = SaidOf(r, d, fs, j)
  <2>1. k \in Nat
    BY <1>2
  <2> QED
    BY <1>4, <2>1, SameCalls, Zenon
<1>6. /\ n = fs[k].next /\ n \in 1..Len(at)
      /\ Target[p] # None /\ Target[p] \notin Around(fs, k) \cup {FileOf(fs, k)}
      /\ at[n] = Says(r, d)[<<Around(fs, k) \cup {FileOf(fs, k)}, p>>]
      /\ BodiesBehind(r, d[FileOf(fs, k)], n + 1)
  BY Zenon DEF Enters
<1>7. FileOf(gs, k + 1) = Target[p] /\ \A i \in 1..k : FileOf(fs, i) # Target[p]
  <2>1. FileOf(gs, k + 1) = Target[p]
    BY <1>4 DEF FileOf
  <2>2. ASSUME NEW i \in 1..k PROVE i = k \/ i \in 1..(k - 1)
    <3> HIDE DEF k
    <3> QED
      BY <1>2
  <2>3. ASSUME NEW i \in 1..k PROVE FileOf(fs, i) # Target[p]
    BY <1>6, <2>2, Zenon DEF Around
  <2> QED
    BY <2>1, <2>3
<1>8. \A i \in 1..(k + 1) : i = k + 1 \/ i \in 1..k
  <2> HIDE DEF k
  <2> QED
    BY <1>2
<1>9. GoodCalls(gs)
  <2>1. gs # <<>>
    BY <1>2, <1>3
  <2>2. \A i \in 1..(k + 1) : FileOf(gs, i) # None
    BY <1>3, <1>5, <1>7, <1>8, <1>6 DEF GoodCalls
  <2>3. ASSUME NEW i \in 1..(k + 1), NEW j \in 1..(k + 1), FileOf(gs, i) = FileOf(gs, j)
        PROVE  i = j
    <3>1. CASE i \in 1..k /\ j \in 1..k
      BY <1>3, <1>5, <2>3, <3>1, Zenon DEF GoodCalls
    <3>2. CASE ~(i \in 1..k /\ j \in 1..k)
      BY <1>5, <1>7, <1>8, <2>3, <3>2, Zenon
    <3> QED
      BY <3>1, <3>2
  <2> QED
    BY <1>3, <2>1, <2>2, <2>3 DEF GoodCalls
<1>10. SaidOf(r, d, gs, k + 1) = at[n]
  <2>1. Around(gs, k + 1) = Around(fs, k) \cup {FileOf(fs, k)}
    <3>1. k + 1 - 1 = k /\ 1..k = 1..(k - 1) \cup {k}
      <4> HIDE DEF k
      <4> QED
        BY <1>2
    <3>2. Around(gs, k + 1) = {FileOf(fs, i) : i \in 1..k}
      BY <1>5, <3>1 DEF Around
    <3> QED
      BY <3>1, <3>2 DEF Around
  <2> QED
    BY <1>4, <1>6, <2>1 DEF SaidOf
<1>11. /\ Told(r, d, gs, k + 1) \in Seq(Seq(X))
       /\ Flat(Told(r, d, gs, k + 1))[0] = <<>>
  <2>1. k + 1 \in 1..Len(gs)
    BY <1>2, <1>3
  <2>2. Told(r, d, gs, k + 1) \in Seq(Seq(X))
    BY <1>9, <2>1, ToldIsSaid
  <2> QED
    BY <2>2, FlatStarts, Zenon
<1>12. ASSUME NEW j \in 1..(k + 1)
       PROVE  /\ BodiesBehind(r, d[FileOf(gs, j)], gs[j].next)
              /\ gs[j].next - 1 \in 0..Len(Told(r, d, gs, j))
  <2>1. CASE j = k + 1
    <3>1. \A i \in 1..Len(d[FileOf(gs, j)]) : ~(i < 1)
      OBVIOUS
    <3>2. 0 \in 0..Len(Told(r, d, gs, j)) /\ gs[j].next = 1 /\ 1 - 1 = 0
      BY <1>4, <1>11, <2>1
    <3> QED
      BY <3>1, <3>2 DEF BodiesBehind
  <2>2. CASE j = k
    <3>1. gs[j].next = n + 1 /\ n + 1 - 1 = n /\ n \in 0..Len(Told(r, d, fs, k))
      BY <1>4, <1>6, <2>2
    <3> QED
      BY <1>2, <1>5, <1>6, <2>2, <3>1
  <2>3. CASE j \in 1..(k - 1)
    <3>1. j \in 1..k
      <4> HIDE DEF k
      <4> QED
        BY <1>2, <2>3
    <3>2. gs[j] = fs[j]
      BY <1>4, <2>3, Zenon
    <3> QED
      BY <1>5, <3>1, <3>2 DEF ReadSoFar
  <2> QED
    <3>1. j = k + 1 \/ j = k \/ j \in 1..(k - 1)
      <4> HIDE DEF k
      <4> QED
        BY <1>2
    <3> QED
      BY <2>1, <2>2, <2>3, <3>1
<1>13. ASSUME NEW j \in 1..k PROVE Included(r, d, gs, j)
  <2>1. CASE j = k
    <3>1. gs[k].next - 1 = n
      BY <1>4
    <3> QED
      BY <1>2, <1>5, <1>10, <1>6, <2>1, <3>1 DEF Included
  <2>2. CASE j \in 1..(k - 1)
    <3>1. j \in 1..k /\ j + 1 \in 1..k
      <4> HIDE DEF k
      <4> QED
        BY <1>2, <2>2
    <3>2. Included(r, d, fs, j) /\ gs[j] = fs[j]
      BY <1>4, <2>2 DEF ReadSoFar
    <3> QED
      BY <1>5, <3>1, <3>2, Zenon DEF Included
  <2> QED
    <3>1. j = k \/ j \in 1..(k - 1)
      <4> HIDE DEF k
      <4> QED
        BY <1>2
    <3> QED
      BY <2>1, <2>2, <3>1
<1>14. ss \in Seq(X) /\ ~IsRefused(ss)
  BY DEF ReadSoFar
<1>15. \E before : Before(r, d, gs, ss, before)
  <2>1. PICK old : Before(r, d, fs, ss, old)
    BY DEF ReadSoFar
  <2> DEFINE before == [i \in 1..(k + 1) |-> IF i = k + 1 THEN ss ELSE old[i]]
  <2>2. before[k + 1] = ss /\ \A i \in 1..k : before[i] = old[i] /\ i \in 1..(k + 1)
    <3>1. k + 1 \in 1..(k + 1) /\ \A i \in 1..k : i \in 1..(k + 1) /\ i # k + 1
      <4> HIDE DEF k
      <4> QED
        BY <1>2
    <3> QED
      BY <3>1, Zenon
  <2> HIDE DEF before
  <2>3. before[1] = <<>>
    <3>1. 1 \in 1..k
      <4> HIDE DEF k
      <4> QED
        BY <1>2
    <3> QED
      BY <2>1, <2>2, <3>1, Zenon DEF Before
  <2>4. \A i \in 1..(k + 1) : before[i] \in Seq(X)
    BY <1>8, <1>14, <2>1, <2>2, Zenon DEF Before
  <2>5. ASSUME NEW j \in 1..k
        PROVE  before[j + 1] = Then(before[j], Flat(Told(r, d, gs, j))[gs[j].next - 2])
    <3>1. CASE j = k
      <4>1. gs[k].next - 2 = n - 1
        BY <1>4
      <4>2. ss = Then(old[k], Flat(Told(r, d, fs, k))[n - 1])
        BY <1>6, <2>1 DEF Before
      <4> QED
        BY <1>2, <1>5, <2>2, <3>1, <4>1, <4>2, Zenon
    <3>2. CASE j \in 1..(k - 1)
      <4>1. j \in 1..k /\ j + 1 \in 1..k
        <5> HIDE DEF k
        <5> QED
          BY <1>2, <3>2
      <4>2. old[j + 1] = Then(old[j], Flat(Told(r, d, fs, j))[fs[j].next - 2])
        BY <2>1, <3>2 DEF Before
      <4>3. gs[j] = fs[j]
        BY <1>4, <3>2
      <4> QED
        BY <1>5, <2>2, <4>1, <4>2, <4>3, Zenon
    <3> QED
      <4>1. j = k \/ j \in 1..(k - 1)
        <5> HIDE DEF k
        <5> QED
          BY <1>2
      <4> QED
        BY <3>1, <3>2, <4>1
  <2>6. ss = Then(before[k + 1], Flat(Told(r, d, gs, k + 1))[gs[k + 1].next - 1])
    <3>1. gs[k + 1].next - 1 = 0
      BY <1>4
    <3>2. ss = Then(ss, <<>>)
      BY <1>14, EmptyBefore, Zenon DEF Then
    <3> QED
      BY <1>11, <2>2, <3>1, <3>2, Zenon
  <2>7. Len(gs) = k + 1 /\ Len(gs) - 1 = k
    BY <1>2, <1>3
  <2> HIDE DEF k
  <2>8. Before(r, d, gs, ss, before)
    BY <2>3, <2>4, <2>5, <2>6, <2>7 DEF Before, X
  <2> QED
    BY <2>8
<1>16. Len(gs) = k + 1 /\ Len(gs) - 1 = k
  BY <1>2, <1>3
<1>17. ReadSoFar(r, d, gs, ss)
  <2> HIDE DEF k
  <2> QED
    BY <1>9, <1>12, <1>13, <1>14, <1>15, <1>16 DEF ReadSoFar
<1> QED
  BY <1>17 DEF gs

\* The last call returns to the one before it.
LEMMA CallReturns ==
    ASSUME NEW fs, GoodCalls(fs), Len(fs) > 1
    PROVE  LET k == Len(fs) - 1
               gs == SubSeq(fs, 1, k)
           IN  /\ k \in Nat \ {0} /\ Len(fs) = k + 1 /\ GoodCalls(gs) /\ Len(gs) = k
               /\ \A i \in 1..k : gs[i] = fs[i]
<1> DEFINE k == Len(fs) - 1
           gs == SubSeq(fs, 1, k)
           Call == [path: Paths, next: Nat \ {0}]
<1>1. fs \in Seq(Call) /\ Len(fs) \in Nat
  BY DEF GoodCalls, Calls
<1>2. k \in Nat \ {0} /\ Len(fs) = k + 1
  BY <1>1
<1> HIDE DEF k, Call
<1>3. 1 \in Int /\ k \in Int /\ k - 1 + 1 = k
      /\ \A i \in 1..k : i \in 1..Len(fs) /\ 1 + i - 1 = i
  BY <1>2
<1>4. \A i \in 1..k : fs[i] \in Call
  BY <1>1, <1>3, ElementOfSeq, Zenon
<1>5. /\ gs \in Seq(Call) /\ Len(gs) = k
      /\ \A i \in 1..k : gs[i] = fs[i]
  <2>1. /\ gs \in Seq(Call)
        /\ Len(gs) = IF 1 <= k THEN k - 1 + 1 ELSE 0
        /\ \A i \in 1..(k - 1 + 1) : gs[i] = fs[1 + i - 1]
    BY <1>3, <1>4, SubSeqProperties
  <2> HIDE DEF gs
  <2> QED
    BY <1>2, <1>3, <2>1
<1> HIDE DEF gs
<1>6. GoodCalls(gs)
  <2>1. gs \in Calls /\ gs # <<>>
    BY <1>2, <1>5 DEF Calls, Call
  <2>2. \A i \in 1..k : FileOf(gs, i) = FileOf(fs, i)
    BY <1>5 DEF FileOf
  <2> QED
    BY <1>3, <1>5, <2>1, <2>2 DEF GoodCalls
<1> QED
  BY <1>2, <1>5, <1>6 DEF k, gs

Returns(r, d, fs) == Len(fs) > 1 /\ fs[Len(fs)].next - 1 = Len(Told(r, d, fs, Len(fs)))

\* What the script of the last call said is what the line with the @include
\* stands for.
LEMMA ReadsOut ==
    ASSUME NEW r, NEW d \in [Files -> Seq(ScriptLine)], NEW fs, NEW ss, ReadSoFar(r, d, fs, ss),
           Returns(r, d, fs)
    PROVE  ReadSoFar(r, d, SubSeq(fs, 1, Len(fs) - 1), ss)
<1> DEFINE k == Len(fs) - 1
           gs == SubSeq(fs, 1, k)
           at == Told(r, d, fs, k)
           X == AllSteps(r, d)
<1>1. GoodCalls(fs) /\ Len(fs) > 1
  BY DEF ReadSoFar, Returns
<1>2. /\ k \in Nat \ {0} /\ Len(fs) = k + 1 /\ GoodCalls(gs) /\ Len(gs) = k
      /\ \A i \in 1..k : gs[i] = fs[i]
  BY <1>1, CallReturns, Zenon
<1> HIDE DEF gs, k
<1>3. /\ k \in 1..k /\ k \in Nat /\ k \in 1..Len(fs) /\ k + 1 \in 1..Len(fs)
      /\ \A i \in 1..k : i \in 1..Len(fs) /\ gs[i].path = fs[i].path
      /\ \A i \in 1..(k - 1) : i \in 1..k /\ i \in 1..(Len(fs) - 1) /\ i + 1 \in 1..k
      /\ k \in 1..(Len(fs) - 1)
  BY <1>2
<1>4. \A j \in 1..k : /\ FileOf(gs, j) = FileOf(fs, j)
                      /\ Told(r, d, gs, j) = Told(r, d, fs, j)
                      /\ SaidOf(r, d, gs, j) = SaidOf(r, d, fs, j)
  BY <1>3, SameCalls, Zenon
<1>5. \A j \in 1..k : /\ BodiesBehind(r, d[FileOf(gs, j)], gs[j].next)
                      /\ gs[j].next - 1 \in 0..Len(Told(r, d, gs, j))
  <2>1. \A j \in 1..k : /\ BodiesBehind(r, d[FileOf(fs, j)], fs[j].next)
                        /\ fs[j].next - 1 \in 0..Len(Told(r, d, fs, j))
    BY <1>3 DEF ReadSoFar
  <2> QED
    BY <1>2, <1>4, <2>1, Zenon
<1>6. \A j \in 1..k : Included(r, d, fs, j)
  BY <1>2, <1>3 DEF ReadSoFar
<1>7. \A j \in 1..(k - 1) : Included(r, d, gs, j)
  BY <1>2, <1>3, <1>4, <1>6, Zenon DEF Included
<1>8. ss \in Seq(X) /\ ~IsRefused(ss)
  BY DEF ReadSoFar
<1>9. \E before : Before(r, d, gs, ss, before)
  <2>1. PICK before : Before(r, d, fs, ss, before)
    BY DEF ReadSoFar
  <2> DEFINE n == fs[k].next - 1
             F == Flat(at)[n - 1]
             S == SaidOf(r, d, fs, k + 1)
  <2>2. n \in 1..Len(at) /\ at[n] = S
    BY <1>3, <1>6 DEF Included
  <2>3. at \in Seq(Seq(X))
    BY <1>1, <1>3, ToldIsSaid
  <2>4. ss = Then(before[k + 1], S)
    <3>1. ss = Then(before[Len(fs)], Flat(Told(r, d, fs, Len(fs)))[fs[Len(fs)].next - 1])
      BY <2>1 DEF Before
    <3>2. fs[Len(fs)].next - 1 = Len(Told(r, d, fs, Len(fs)))
      BY DEF Returns
    <3>3. SaidOf(r, d, fs, Len(fs)) = Flat(Told(r, d, fs, Len(fs)))[Len(Told(r, d, fs, Len(fs)))]
      <4>1. Len(fs) \in 1..Len(fs)
        BY <1>2
      <4> QED
        BY <1>1, <4>1, ToldIsSaid
    <3> QED
      BY <1>2, <3>1, <3>2, <3>3, Zenon
  <2>5. before[k + 1] = Then(before[k], F)
    <3>1. before[k + 1] = Then(before[k], Flat(at)[fs[k].next - 2])
      BY <1>3, <2>1 DEF Before
    <3>2. fs[k].next - 2 = n - 1
      <4>1. fs[k].next \in Nat
        BY <1>1, <1>3, GoodCall
      <4> QED
        BY <4>1
    <3> QED
      BY <3>1, <3>2, Zenon
  <2>6. before[k] \in Seq(X)
    BY <1>3, <2>1 DEF Before
  <2> HIDE DEF n, at, X
  <2>7. Flat(at)[n] = Then(F, at[n])
    BY <2>2, <2>3, FlatGoesOn DEF Then
  <2>8. F \in Seq(X) /\ S \in Seq(X)
    <3>1. n - 1 \in 0..Len(at)
      BY <2>2
    <3>2. at[n] \in Seq(X)
      BY <2>2, <2>3, PartIsSeq, Zenon
    <3> QED
      BY <2>2, <2>3, <3>1, <3>2, FlatIsSeq, Zenon
  <2>9. ss = Then(before[k], Flat(at)[n])
    <3> HIDE DEF F, S
    <3> QED
      BY <2>2, <2>4, <2>5, <2>6, <2>7, <2>8, ThenInAnyOrder
  <2>10. ss = Then(before[k], Flat(Told(r, d, gs, k))[gs[k].next - 1])
    BY <1>2, <1>3, <1>4, <2>9, Zenon DEF n, at
  <2>11. \A j \in 1..(k - 1) :
            before[j + 1] = Then(before[j], Flat(Told(r, d, gs, j))[gs[j].next - 2])
    <3>1. \A j \in 1..(k - 1) :
             before[j + 1] = Then(before[j], Flat(Told(r, d, fs, j))[fs[j].next - 2])
      BY <1>3, <2>1 DEF Before
    <3> QED
      BY <1>2, <1>3, <1>4, <3>1, Zenon
  <2>12. before[1] = <<>> /\ \A j \in 1..k : before[j] \in Seq(X)
    BY <1>3, <2>1 DEF Before, X
  <2>13. Before(r, d, gs, ss, before)
    BY <1>2, <2>10, <2>11, <2>12 DEF Before, X
  <2> QED
    BY <2>13
<1>10. ReadSoFar(r, d, gs, ss)
  BY <1>2, <1>5, <1>7, <1>8, <1>9 DEF ReadSoFar
<1> QED
  BY <1>10 DEF gs, k

-----------------------------------------------------------------------------
(* The plan of a script                                                    *)

PlanInv ==
    /\ ReaderInv /\ reader \in Readers
    /\ outcome \in {"start", "reading", "done", "error"}
    /\ outcome = "start" => steps = <<>>
    /\ outcome = "reading" => frames[1].path = script /\ ReadSoFar(reader, disk, frames, steps)
    /\ PlanIsMeaning

LEMMA InitPlanInv == ASSUME Init PROVE PlanInv
<1>1. ReaderInv
  BY InitReaderInv
<1>2. reader \in Readers
  BY ReaderAssumption DEF Init
<1>3. outcome = "start" /\ steps = <<>>
  BY DEF Init
<1> QED
  BY <1>1, <1>2, <1>3 DEF PlanInv, PlanIsMeaning

\* While the reader reads, its calls are those it should be in.
LEMMA WhileReading ==
    ASSUME PlanInv, outcome = "reading"
    PROVE  /\ ReadSoFar(reader, disk, frames, steps) /\ disk \in [Files -> Seq(ScriptLine)]
           /\ reader \in Readers /\ frames \in Calls /\ frames # <<>>
           /\ Frame = frames[Len(frames)] /\ Lines = disk[FileOf(frames, Len(frames))]
           /\ GoodCalls(frames) /\ frames[1].path = script
<1>1. Frame = frames[Len(frames)]
  BY DEF Frame, Last
<1>2. Lines = disk[FileOf(frames, Len(frames))]
  BY <1>1 DEF Lines, FileOf
<1>3. /\ ReadSoFar(reader, disk, frames, steps) /\ disk \in [Files -> Seq(ScriptLine)]
      /\ reader \in Readers /\ frames[1].path = script
  BY DEF PlanInv, ReaderInv
<1>4. GoodCalls(frames) /\ frames \in Calls /\ frames # <<>>
  BY <1>3 DEF ReadSoFar, GoodCalls
<1> QED
  BY <1>1, <1>2, <1>3, <1>4

LEMMA FailsRightly ==
    ASSUME PlanInv, outcome = "reading", ReaderInv', outcome' = "error",
           UNCHANGED <<reader, disk, script>>,
           IsRefused(Meaning(reader, disk, script))
    PROVE  PlanInv'
<1>1. PlanIsMeaning'
  BY DEF PlanIsMeaning
<1> QED
  BY <1>1 DEF PlanInv

\* What is wrong with the line a call is at is wrong with the script.
LEMMA LineIsRefused ==
    ASSUME PlanInv, outcome = "reading", NEW n, n = Frame.next,
           n \in 1..Len(Told(reader, disk, frames, Len(frames))),
           IsRefused(Told(reader, disk, frames, Len(frames))[n])
    PROVE  IsRefused(Meaning(reader, disk, script))
<1>1. ReadSoFar(reader, disk, frames, steps) /\ disk \in [Files -> Seq(ScriptLine)]
      /\ frames[1].path = script
  BY WhileReading
<1>2. IsRefused(Says(reader, disk)[<<{}, frames[1].path>>])
  BY <1>1, RefusalsRise, Zenon
<1> QED
  BY <1>1, <1>2 DEF Meaning

LEMMA GoesOn ==
    ASSUME PlanInv, outcome = "reading", outcome' = "reading", ReaderInv',
           UNCHANGED <<reader, disk, script>>, frames'[1].path = frames[1].path,
           ReadSoFar(reader, disk, frames', steps')
    PROVE  PlanInv'
<1>1. PlanIsMeaning'
  BY DEF PlanIsMeaning
<1> QED
  BY <1>1 DEF PlanInv

\* The line that is read next: it is in no body, and its call knows what it says.
LEMMA NextLine ==
    ASSUME PlanInv, AtLine
    PROVE  LET k == Len(frames)
               n == Frame.next
               at == Told(reader, disk, frames, k)
               inside == Around(frames, k) \cup {FileOf(frames, k)}
           IN  /\ n \in 1..Len(Lines) /\ Len(Lines) = Len(at) /\ Len(Lines) \in Nat
               /\ at \in Seq(Seq(AllSteps(reader, disk)))
               /\ BodiesBehind(reader, Lines, n) /\ ~InBody(reader, Lines, n)
               /\ Line \in ScriptLine /\ Frame.path \in Paths /\ inside \in SUBSET Files
               /\ Frame.path = frames[k].path /\ n = frames[k].next /\ k \in 1..k
               /\ at[n] = LineSays(reader, Lines, Says(reader, disk), inside, Frame.path, n)
<1> DEFINE k == Len(frames)
           n == Frame.next
           at == Told(reader, disk, frames, k)
           inside == Around(frames, k) \cup {FileOf(frames, k)}
<1>1. outcome = "reading" /\ n <= Len(Lines)
  BY DEF AtLine
<1>2. /\ ReadSoFar(reader, disk, frames, steps) /\ disk \in [Files -> Seq(ScriptLine)]
      /\ reader \in Readers /\ frames \in Calls /\ frames # <<>>
      /\ Frame = frames[k] /\ Lines = disk[FileOf(frames, k)] /\ GoodCalls(frames)
  BY <1>1, WhileReading
<1>3. /\ k \in 1..k /\ n \in 1..Len(Lines) /\ Len(Lines) = Len(at)
      /\ Lines \in Seq(ScriptLine) /\ ~InBody(reader, Lines, n)
      /\ at[n] = LineSays(reader, Lines, Says(reader, disk), inside, Frame.path, n)
  BY <1>1, <1>2, LineIsTold
<1>4. at \in Seq(Seq(AllSteps(reader, disk)))
  BY <1>2, <1>3, ToldIsSaid
<1>5. BodiesBehind(reader, Lines, n)
  BY <1>2, <1>3 DEF ReadSoFar
<1>6. Frame.path \in Paths /\ inside \in SUBSET Files
  BY <1>2, <1>3, GoodCall
<1>7. Line \in ScriptLine
  BY <1>3, ElementOfSeq, Zenon DEF Line
<1>8. Len(Lines) \in Nat
  BY <1>3
<1> QED
  BY <1>2, <1>3, <1>4, <1>5, <1>6, <1>7, <1>8

\* Past a line and its body.
LEMMA PastBody ==
    ASSUME NEW r, NEW lines, Len(lines) \in Nat, NEW n \in 1..Len(lines),
           BodiesBehind(r, lines, n), ~InBody(r, lines, n),
           NEW m, m = IF BodyEnd(r, lines, n) = 0 THEN n + 1 ELSE BodyEnd(r, lines, n) + 1
    PROVE  /\ m \in Nat \ {0} /\ m - 1 \in n..Len(lines)
           /\ BodiesBehind(r, lines, m)
           /\ \A i \in (n + 1)..(m - 1) : InBody(r, lines, i)
<1>1. BodyEnd(r, lines, n) = 0 \/ BodyEnd(r, lines, n) \in (n + 1)..Len(lines)
  BY BodyEndIs
<1>2. m \in Nat \ {0} /\ m - 1 \in n..Len(lines) /\ n < m /\ BodyEnd(r, lines, n) < m
  BY <1>1
<1>3. ASSUME NEW i \in (n + 1)..(m - 1) PROVE InBody(r, lines, i)
  <2>1. m - 1 = BodyEnd(r, lines, n) /\ i <= m - 1 /\ n \in 1..(i - 1)
    BY <1>1
  <2>2. BodyEnds(r, lines)[n] = BodyEnd(r, lines, n)
    BY BodyEndsAre, Zenon
  <2>3. BodyEnds(r, lines)[n] >= i
    BY <1>1, <2>1, <2>2
  <2> QED
    BY <2>1, <2>3 DEF InBody
<1>4. BodiesBehind(r, lines, m)
  <2> SUFFICES ASSUME NEW i \in 1..Len(lines), i < m, ~InBody(r, lines, i)
               PROVE  BodyEnd(r, lines, i) < m
    BY DEF BodiesBehind
  <2>1. CASE i < n
    <3>1. BodyEnd(r, lines, i) < n
      BY <2>1 DEF BodiesBehind
    <3>2. BodyEnd(r, lines, i) \in Nat
      BY BodyEndIs
    <3> QED
      BY <1>2, <3>1, <3>2
  <2>2. CASE i = n
    BY <1>2, <2>2
  <2>3. CASE i > n
    <3>1. i \in (n + 1)..(m - 1)
      BY <1>2, <2>3
    <3> QED
      BY <1>3, <3>1
  <2> QED
    BY <2>1, <2>2, <2>3
<1> QED
  BY <1>2, <1>3, <1>4

\* The first call is that of the script.
LEMMA FirstStays ==
    ASSUME NEW fs, GoodCalls(fs), NEW n \in Nat \ {0}
    PROVE  [fs EXCEPT ![Len(fs)].next = n][1].path = fs[1].path
<1> DEFINE k == Len(fs)
           gs == [fs EXCEPT ![k].next = n]
<1>1. k \in 1..k /\ k \in Nat \ {0} /\ \A i \in 1..k : gs[i].path = fs[i].path
  BY CallMoves, Zenon
<1> HIDE DEF k, gs
<1>2. 1 \in 1..k
  BY <1>1
<1>3. gs[1].path = fs[1].path
  BY <1>1, <1>2
<1> QED
  BY <1>3 DEF gs, k

\* The reader goes on past a line and its body, with what the line says.
LEMMA MovesOn ==
    ASSUME PlanInv, AtLine, outcome' = "reading", ReaderInv', UNCHANGED <<reader, disk, script>>,
           NEW t, t = Told(reader, disk, frames, Len(frames))[Frame.next], ~IsRefused(t),
           steps' = Then(steps, t),
           NEW m, m = IF BodyEnd(reader, Lines, Frame.next) = 0 THEN Frame.next + 1
                      ELSE BodyEnd(reader, Lines, Frame.next) + 1,
           frames' = Moved(m)
    PROVE  PlanInv'
<1> DEFINE k == Len(frames)
           n == Frame.next
           at == Told(reader, disk, frames, k)
           X == AllSteps(reader, disk)
           inside == Around(frames, k) \cup {FileOf(frames, k)}
<1>1. /\ n \in 1..Len(Lines) /\ Len(Lines) = Len(at) /\ Len(Lines) \in Nat
      /\ at \in Seq(Seq(X))
      /\ BodiesBehind(reader, Lines, n) /\ ~InBody(reader, Lines, n)
      /\ n = frames[k].next
  BY NextLine
<1>2. /\ ReadSoFar(reader, disk, frames, steps) /\ disk \in [Files -> Seq(ScriptLine)]
      /\ Lines = disk[FileOf(frames, k)] /\ GoodCalls(frames)
      /\ outcome = "reading"
  BY WhileReading DEF AtLine
<1>3. /\ m \in Nat \ {0} /\ m - 1 \in n..Len(Lines)
      /\ BodiesBehind(reader, Lines, m)
      /\ \A i \in (n + 1)..(m - 1) : InBody(reader, Lines, i)
  BY <1>1, PastBody
<1>4. ASSUME NEW i \in (n + 1)..(m - 1) PROVE at[i] = <<>>
  <2>1. i \in 1..Len(Lines) /\ InBody(reader, Lines, i)
    BY <1>1, <1>3
  <2>2. at[i] = LineSays(reader, Lines, Says(reader, disk), inside, frames[k].path, i)
    BY <1>2, <2>1, Zenon DEF Told, FileSays
  <2> QED
    BY <2>1, <2>2, Zenon DEF LineSays
<1>5. t \in Seq(X) /\ Flat(at)[m - 1] = Then(Flat(at)[n - 1], t)
  <2> HIDE DEF at, X, n
  <2>1. n \in 1..Len(at) /\ n \in 0..Len(at) /\ m - 1 \in n..Len(at)
    BY <1>1, <1>3
  <2>2. t = at[n]
    BY DEF at, n
  <2>3. Flat(at)[n] = Then(Flat(at)[n - 1], at[n]) /\ at[n] \in Seq(X)
    BY <1>1, <2>1, FlatGoesOn, PartIsSeq, Zenon DEF Then
  <2>4. Flat(at)[m - 1] = Flat(at)[n]
    BY <1>1, <1>4, <2>1, FlatSkips
  <2> QED
    BY <2>2, <2>3, <2>4
<1>6. m - 1 \in 0..Len(at)
  <2> HIDE DEF at, n
  <2> QED
    BY <1>1, <1>3
<1>7. ReadSoFar(reader, disk, [frames EXCEPT ![k].next = m], Then(steps, t))
  <2>1. Flat(at)[m - 1] = Then(Flat(at)[frames[k].next - 1], t)
    BY <1>1, <1>5
  <2>2. BodiesBehind(reader, disk[FileOf(frames, k)], m)
    BY <1>2, <1>3
  <2> QED
    BY <1>2, <1>3, <1>5, <1>6, <2>1, <2>2, ReadsOn
<1>8. ReadSoFar(reader, disk, frames', steps')
  BY <1>7 DEF Moved
<1>9. frames'[1].path = frames[1].path
  BY <1>2, <1>3, FirstStays DEF Moved
<1> QED
  BY <1>2, <1>8, <1>9, GoesOn

LEMMA PlanSkip == ASSUME PlanInv, skip_line PROVE PlanInv'
<1> DEFINE n == Frame.next
           at == Told(reader, disk, frames, Len(frames))
<1>1. AtLine /\ Skipped(reader, Line) /\ frames' = Moved(n + 1)
      /\ UNCHANGED <<reader, disk, script, stack, steps, outcome, kept>>
  BY DEF skip_line
<1>2. ReaderInv'
  BY StepSkip DEF PlanInv
<1>3. outcome' = "reading"
  BY <1>1 DEF AtLine
<1>4. at[n] = <<>> /\ BodyEnd(reader, Lines, n) = 0
  <2>1. at[n] = LineSays(reader, Lines, Says(reader, disk),
                         Around(frames, Len(frames)) \cup {FileOf(frames, Len(frames))},
                         Frame.path, n)
    BY <1>1, NextLine
  <2>2. Skipped(reader, Lines[n])
    BY <1>1 DEF Line
  <2>3. at[n] = <<>>
    BY <2>1, <2>2, Zenon DEF LineSays
  <2>4. BodyEnd(reader, Lines, n) = 0
    BY <2>2, Zenon DEF BodyEnd
  <2> QED
    BY <2>3, <2>4
<1>5. steps' = Then(steps, <<>>) /\ ~IsRefused(<<>>)
  <2>1. steps \in Seq(AllSteps(reader, disk))
    BY <1>1 DEF PlanInv, ReadSoFar, AtLine
  <2>2. Then(steps, <<>>) = steps
    BY <2>1, EmptyBefore DEF Then
  <2> QED
    BY <1>1, <2>2 DEF IsRefused
<1> QED
  BY <1>1, <1>2, <1>3, <1>4, <1>5, MovesOn

LEMMA PlanReadStep == ASSUME PlanInv, step_line PROVE PlanInv'
<1> DEFINE n == Frame.next
           at == Told(reader, disk, frames, Len(frames))
           parsed == Parsed(reader, Lines, n)
           step == StepOf(Frame.path, n, Line, parsed)
           X == AllSteps(reader, disk)
<1>1. /\ AtLine /\ ~Skipped(reader, Line) /\ ~IsInclude /\ outcome = "reading"
      /\ UNCHANGED <<reader, disk, script, stack, kept>>
  BY DEF step_line, AtLine
<1>2. ReaderInv'
  BY StepReadStep DEF PlanInv
<1>3. /\ n \in 1..Len(Lines) /\ Len(Lines) = Len(at) /\ Len(Lines) \in Nat
      /\ ~InBody(reader, Lines, n) /\ at \in Seq(Seq(X))
      /\ at[n] = LineSays(reader, Lines, Says(reader, disk),
                          Around(frames, Len(frames)) \cup {FileOf(frames, Len(frames))},
                          Frame.path, n)
  BY <1>1, NextLine
<1>4. at[n] = <<step>>
  <2>1. ~Skipped(reader, Lines[n])
    BY <1>1 DEF Line
  <2>2. ~(reader = "legacy" /\ IsDirective(reader, Lines[n]) /\ Lines[n].directive = "include")
    BY <1>1 DEF Line, IsInclude
  <2> QED
    BY <1>3, <2>1, <2>2, Zenon DEF LineSays, Line
<1>5. step.kind = parsed.kind
  BY DEF StepOf
<1>6. IsRefused(<<step>>) <=> parsed.kind = "error"
  <2> HIDE DEF step, parsed
  <2> QED
    BY <1>5 DEF IsRefused
<1>7. CASE parsed.kind = "error"
  <2>1. outcome' = "error"
    BY <1>7 DEF step_line
  <2>2. IsRefused(at[n]) /\ n \in 1..Len(at)
    BY <1>3, <1>4, <1>6, <1>7
  <2>3. IsRefused(Meaning(reader, disk, script))
    BY <1>1, <2>2, LineIsRefused
  <2> QED
    BY <1>1, <1>2, <2>1, <2>3, FailsRightly
<1>8. CASE parsed.kind # "error"
  <2>1. steps' = Append(steps, step) /\ frames' = Moved(parsed.next) /\ UNCHANGED outcome
    BY <1>8 DEF step_line
  <2>2. reader \in Readers
    BY DEF PlanInv
  <2>3. parsed.next = IF BodyEnd(reader, Lines, n) = 0 THEN n + 1
                      ELSE BodyEnd(reader, Lines, n) + 1
    BY <1>1, <1>3, <1>8, <2>2, ParsedIsPastBody DEF Line
  <2>4. steps \in Seq(X)
    BY <1>1, WhileReading DEF ReadSoFar
  <2>5. step \in X
    <3>1. <<step>> \in Seq(X)
      BY <1>3, <1>4, PartIsSeq, Zenon
    <3> HIDE DEF step, X
    <3>2. 1 \in 1..Len(<<step>>) /\ <<step>>[1] = step
      OBVIOUS
    <3> QED
      BY <3>1, <3>2, ElementOfSeq, Zenon
  <2>6. steps' = Then(steps, <<step>>)
    <3> HIDE DEF step, X
    <3> QED
      BY <2>1, <2>4, <2>5, AppendProperties DEF Then
  <2>7. ~IsRefused(at[n])
    BY <1>4, <1>6, <1>8
  <2>8. steps' = Then(steps, at[n]) /\ outcome' = "reading"
    BY <1>1, <1>4, <2>1, <2>6
  <2> QED
    BY <1>1, <1>2, <2>1, <2>3, <2>7, <2>8, MovesOn
<1> QED
  BY <1>7, <1>8

\* The stack of the legacy reader is the files of its calls.
LEMMA StackIsAround ==
    ASSUME PlanInv, outcome = "reading", reader = "legacy"
    PROVE  \A f : Contains(stack, f) <=>
              f \in Around(frames, Len(frames)) \cup {FileOf(frames, Len(frames))}
<1> DEFINE k == Len(frames)
<1>1. /\ Len(stack) = k /\ \A i \in DOMAIN frames : stack[i] = Target[frames[i].path]
      /\ stack \in Seq(Files) /\ frames \in Calls /\ frames # <<>>
  BY WhileReading DEF PlanInv, ReaderInv, StackIsCalls
<1>2. k \in Nat \ {0} /\ DOMAIN frames = 1..k /\ DOMAIN stack = 1..k
  BY <1>1 DEF Calls
<1>3. \A i \in 1..k : stack[i] = FileOf(frames, i)
  BY <1>1, <1>2 DEF FileOf
<1> HIDE DEF k
<1>4. \A i \in 1..k : i = k \/ i \in 1..(k - 1)
  BY <1>2
<1>5. k \in 1..k /\ \A i \in 1..(k - 1) : i \in 1..k
  BY <1>2
<1> SUFFICES ASSUME NEW f
             PROVE  (\E i \in 1..k : stack[i] = f)
                    <=> f \in Around(frames, k) \cup {FileOf(frames, k)}
  BY <1>1 DEF Contains, k
<1> QED
  BY <1>3, <1>4, <1>5, Zenon DEF Around

LEMMA PlanInclude == ASSUME PlanInv, include_line PROVE PlanInv'
<1> DEFINE k == Len(frames)
           n == Frame.next
           at == Told(reader, disk, frames, k)
           inside == Around(frames, k) \cup {FileOf(frames, k)}
           p == Resolve[Frame.path][Line.to]
<1>1. /\ AtLine /\ ~Skipped(reader, Line) /\ IsInclude /\ outcome = "reading"
      /\ UNCHANGED <<reader, disk, script, steps, kept>> /\ reader = "legacy"
  BY DEF include_line, AtLine, IsInclude
<1>2. ReaderInv'
  BY StepInclude DEF PlanInv
<1>3. /\ n \in 1..Len(Lines) /\ Len(Lines) = Len(at) /\ Len(Lines) \in Nat
      /\ BodiesBehind(reader, Lines, n) /\ ~InBody(reader, Lines, n)
      /\ Line \in ScriptLine /\ Frame.path \in Paths /\ inside \in SUBSET Files
      /\ n = frames[k].next
      /\ at[n] = LineSays(reader, Lines, Says(reader, disk), inside, Frame.path, n)
  BY <1>1, NextLine
<1>4. at[n] = IF Line.to = None THEN <<Failed>> ELSE Says(reader, disk)[<<inside, p>>]
  <2>1. ~Skipped(reader, Lines[n])
    BY <1>1 DEF Line
  <2>2. IsDirective(reader, Lines[n]) /\ Lines[n].directive = "include"
    BY <1>1 DEF Line, IsInclude
  <2> QED
    BY <1>1, <1>3, <2>1, <2>2, Zenon DEF LineSays, Line
<1>5. IsRefused(<<Failed>>)
  BY DEF IsRefused, Failed
<1>6. Line.to # None => p \in Paths /\ <<inside, p>> \in Reads
  BY <1>3, IncludedPath DEF Reads
<1>7. /\ disk \in [Files -> Seq(ScriptLine)] /\ ReadSoFar(reader, disk, frames, steps)
      /\ GoodCalls(frames) /\ Lines = disk[FileOf(frames, k)]
  BY <1>1, WhileReading
<1>8. CASE outcome' = "error" /\ (Line.to = None \/ Contains(stack, Key(p)) \/ Target[p] = None)
  <2>1. at[n] = <<Failed>>
    <3>1. CASE Line.to = None
      BY <1>4, <3>1
    <3>2. CASE Line.to # None
      <4>1. Says(reader, disk)[<<inside, p>>] =
               OneSays(reader, disk, Says(reader, disk), <<inside, p>>)
        BY <1>6, <1>7, <3>2, SaysIs, Zenon
      <4>2. Target[p] = None \/ Target[p] \in inside
        BY <1>1, <1>8, <3>2, StackIsAround DEF Key
      <4>3. Says(reader, disk)[<<inside, p>>] = <<Failed>>
        BY <4>1, <4>2 DEF OneSays
      <4> QED
        BY <1>4, <3>2, <4>3
    <3> QED
      BY <3>1, <3>2
  <2>2. IsRefused(at[n]) /\ n \in 1..Len(at)
    BY <1>3, <1>5, <2>1
  <2>3. IsRefused(Meaning(reader, disk, script))
    BY <1>1, <2>2, LineIsRefused
  <2> QED
    BY <1>1, <1>2, <1>8, <2>3, FailsRightly
<1>9. CASE /\ Line.to # None /\ ~Contains(stack, Key(p)) /\ Target[p] # None
           /\ frames' = Append(Moved(n + 1), [path |-> p, next |-> 1]) /\ UNCHANGED outcome
  <2>1. p \in Paths /\ n \in Nat \ {0}
    BY <1>3, <1>6, <1>9
  <2>2. Target[p] \notin inside
    BY <1>1, <1>9, StackIsAround DEF Key
  <2>3. BodyEnd(reader, Lines, n) = 0
    BY <1>1 DEF BodyEnd, IsInclude, Line
  <2>4. BodiesBehind(reader, Lines, n + 1)
    BY <1>3, <2>3, PastBody
  <2>5. Enters(reader, disk, frames, p, n)
    BY <1>3, <1>4, <1>7, <1>9, <2>2, <2>4 DEF Enters
  <2>6. ReadSoFar(reader, disk, frames', steps')
    <3>1. ReadSoFar(reader, disk, Append([frames EXCEPT ![k].next = n + 1],
                                         [path |-> p, next |-> 1]), steps)
      BY <1>7, <2>1, <2>5, ReadsInto, Zenon
    <3> QED
      BY <1>1, <1>9, <3>1 DEF Moved
  <2>7. frames'[1].path = frames[1].path
    <3> DEFINE gs == Append([frames EXCEPT ![k].next = n + 1], [path |-> p, next |-> 1])
    <3>1. k \in Nat \ {0} /\ \A i \in 1..k : gs[i].path = frames[i].path
      BY <1>7, <2>1, CallEnters, Zenon
    <3>2. frames' = gs
      BY <1>9 DEF Moved
    <3> HIDE DEF gs, k
    <3>3. 1 \in 1..k
      BY <3>1
    <3> QED
      BY <3>1, <3>2, <3>3, Zenon
  <2> QED
    BY <1>1, <1>2, <1>9, <2>6, <2>7, GoesOn
<1> QED
  BY <1>8, <1>9 DEF include_line

LEMMA PlanParseFile == ASSUME PlanInv, parse_gtest_file PROVE PlanInv'
<1>1. outcome = "start" /\ UNCHANGED <<reader, disk, script, steps, kept>>
  BY DEF parse_gtest_file
<1>2. ReaderInv'
  BY StepParseFile DEF PlanInv
<1>3. /\ script \in Paths /\ disk \in [Files -> Seq(ScriptLine)] /\ steps = <<>>
      /\ reader \in Readers
  BY <1>1 DEF PlanInv, ReaderInv
<1>4. CASE Target[script] = None /\ outcome' = "error"
  <2>1. <<{}, script>> \in Reads
    BY <1>3 DEF Reads
  <2>2. Meaning(reader, disk, script) = OneSays(reader, disk, Says(reader, disk), <<{}, script>>)
    BY <1>3, <2>1, SaysIs, Zenon DEF Meaning
  <2>3. Meaning(reader, disk, script) = <<Failed>>
    BY <1>4, <2>2 DEF OneSays
  <2>4. IsRefused(Meaning(reader, disk, script))
    BY <2>3 DEF IsRefused, Failed
  <2>5. PlanIsMeaning'
    BY <1>1, <1>4, <2>4 DEF PlanIsMeaning
  <2> QED
    BY <1>1, <1>2, <1>3, <1>4, <2>5 DEF PlanInv
<1>5. CASE /\ Target[script] # None /\ outcome' = "reading"
           /\ frames' = <<[path |-> script, next |-> 1]>>
  <2>1. ReadSoFar(reader, disk, <<[path |-> script, next |-> 1]>>, <<>>)
    BY <1>3, <1>5, ReadsNothing
  <2>2. ReadSoFar(reader', disk', frames', steps') /\ frames'[1].path = script'
    BY <1>1, <1>3, <1>5, <2>1
  <2>3. PlanIsMeaning'
    BY <1>5 DEF PlanIsMeaning
  <2> QED
    BY <1>1, <1>2, <1>3, <1>5, <2>2, <2>3 DEF PlanInv
<1> QED
  BY <1>4, <1>5 DEF parse_gtest_file

LEMMA PlanReturn == ASSUME PlanInv, return PROVE PlanInv'
<1> DEFINE k == Len(frames)
<1>1. /\ outcome = "reading" /\ Frame.next > Len(Lines)
      /\ UNCHANGED <<reader, disk, script, steps, kept>>
      /\ outcome' = (IF Len(frames) = 1 THEN "done" ELSE "reading") /\ frames' = Front(frames)
  BY DEF return
<1>2. ReaderInv'
  BY StepReturn DEF PlanInv
<1>3. /\ ReadSoFar(reader, disk, frames, steps) /\ disk \in [Files -> Seq(ScriptLine)]
      /\ reader \in Readers /\ GoodCalls(frames) /\ frames[1].path = script
      /\ Frame = frames[k] /\ Lines = disk[FileOf(frames, k)]
  BY <1>1, WhileReading
<1>4. k \in Nat \ {0} /\ k \in 1..k
  BY <1>3, CallsAre DEF GoodCalls, Calls
<1>5. frames[k].next - 1 = Len(Told(reader, disk, frames, k))
  <2>1. Len(Told(reader, disk, frames, k)) = Len(Lines) /\ frames[k].next \in Nat \ {0}
    <3>1. /\ disk \in [Files -> Seq(ScriptLine)] /\ GoodCalls(frames)
          /\ k \in 1..Len(frames)
      BY <1>3, <1>4
    <3>2. /\ Told(reader, disk, frames, k) \in Seq(Seq(AllSteps(reader, disk)))
          /\ Len(Told(reader, disk, frames, k)) = Len(disk[FileOf(frames, k)])
          /\ SaidOf(reader, disk, frames, k) =
                Flat(Told(reader, disk, frames, k))[Len(Told(reader, disk, frames, k))]
      BY <3>1, ToldIsSaid, Zenon
    <3>3. frames[k].next \in Nat \ {0}
      BY <1>3, <1>4, GoodCall, Zenon
    <3> QED
      BY <1>3, <3>2, <3>3, Zenon
  <2>2. frames[k].next - 1 \in 0..Len(Told(reader, disk, frames, k))
    BY <1>3, <1>4 DEF ReadSoFar
  <2>3. frames[k].next > Len(Told(reader, disk, frames, k))
    BY <1>1, <1>3, <2>1
  <2>4. Len(Lines) \in Nat
    <3>1. FileOf(frames, k) \in Files
      BY <1>3, <1>4, GoodCall
    <3>2. Lines \in Seq(ScriptLine)
      BY <1>3, <3>1
    <3> QED
      BY <3>2
  <2> HIDE DEF k
  <2> QED
    BY <2>1, <2>2, <2>3, <2>4
<1>6. CASE k = 1
  <2>1. steps = Meaning(reader, disk, script) /\ ~IsRefused(steps)
    BY <1>3, <1>5, <1>6, ReadsAll DEF Meaning
  <2>2. outcome' = "done"
    BY <1>1, <1>6
  <2>3. PlanIsMeaning'
    BY <1>1, <2>1, <2>2 DEF PlanIsMeaning
  <2> QED
    BY <1>1, <1>2, <1>3, <2>2, <2>3 DEF PlanInv
<1>7. CASE k # 1
  <2>1. Len(frames) > 1 /\ frames' = SubSeq(frames, 1, k - 1)
    <3>1. Len(frames) > 1
      <4>1. k > 1
        <5> HIDE DEF k
        <5> QED
          BY <1>4, <1>7
      <4> QED
        BY <4>1
    <3> QED
      BY <1>1, <3>1 DEF Front
  <2>2. Returns(reader, disk, frames)
    BY <1>5, <2>1 DEF Returns
  <2>3. ReadSoFar(reader, disk, frames', steps')
    BY <1>1, <1>3, <2>1, <2>2, ReadsOut
  <2>4. frames'[1].path = frames[1].path
    <3>1. /\ k - 1 \in Nat \ {0}
          /\ \A i \in 1..(k - 1) : SubSeq(frames, 1, k - 1)[i] = frames[i]
      BY <1>3, <2>1, CallReturns, Zenon
    <3> HIDE DEF k
    <3>2. 1 \in 1..(k - 1)
      BY <1>4, <3>1
    <3>3. frames' = SubSeq(frames, 1, k - 1)
      BY <2>1
    <3> QED
      BY <3>1, <3>2, <3>3, Zenon
  <2>5. outcome' = "reading"
    BY <1>1, <1>7
  <2> QED
    BY <1>1, <1>2, <2>3, <2>4, <2>5, GoesOn
<1> QED
  BY <1>6, <1>7

LEMMA NextPlanInv == ASSUME PlanInv, [Next]_vars PROVE PlanInv'
<1>1. CASE write_plan_file
  <2>1. outcome' = "start" /\ steps' = <<>> /\ UNCHANGED reader
    BY <1>1 DEF write_plan_file
  <2>2. ReaderInv'
    BY <1>1, StepWritePlan DEF PlanInv
  <2>3. PlanIsMeaning'
    BY <2>1 DEF PlanIsMeaning
  <2> QED
    BY <2>1, <2>2, <2>3 DEF PlanInv
<1>2. CASE UNCHANGED vars
  <2>1. ReaderInv'
    BY <1>2, NextReaderInv DEF PlanInv
  <2>2. UNCHANGED <<reader, disk, script, frames, steps, outcome>>
    BY <1>2 DEF vars
  <2> QED
    BY <2>1, <2>2 DEF PlanInv, PlanIsMeaning
<1> QED
  BY <1>1, <1>2, PlanParseFile, PlanSkip, PlanInclude, PlanReadStep, PlanReturn DEF Next

\* The plan that parse_gtest_file returns is what the script says, with what
\* each @include names in its place and every body with the line that opens it,
\* and a script is refused only for what it says: for any files, links and
\* scripts, and either reader.
THEOREM PlanIsWhatScriptSays == RunSpec => []PlanIsMeaning
<1>1. RunInit => PlanInv
  BY InitPlanInv DEF RunInit
<1>2. PlanInv => PlanIsMeaning
  BY DEF PlanInv
<1> QED
  BY <1>1, <1>2, NextPlanInv, RunStepIsReaderStep, PTL DEF RunSpec

-----------------------------------------------------------------------------
(* What an author writes is what a process gets                            *)

\* The loops over characters, of tokenize_command, of substitute and of
\* parse_path.
OneChar(loop, acc, c) ==
    IF loop = "tokenize" THEN Token(acc, c)
    ELSE IF loop = "substitute" THEN Substituted(acc, c) ELSE PathStep(acc, c)

\* The loop gets from a to b over s.
Run(loop, a, s, b) ==
    \E acc : /\ acc[0] = a /\ acc[Len(s)] = b
             /\ \A i \in 1..Len(s) : acc[i] = OneChar(loop, acc[i - 1], s[i])

LEMMA RunOverNothing == ASSUME NEW loop, NEW a PROVE Run(loop, a, <<>>, a)
<1> DEFINE acc == [i \in {0} |-> a]
<1>1. acc[0] = a /\ acc[Len(<<>>)] = a /\ \A i \in 1..Len(<<>>) : FALSE
  OBVIOUS
<1> QED
  BY <1>1 DEF Run

LEMMA RunOverOne == ASSUME NEW loop, NEW a, NEW c PROVE Run(loop, a, <<c>>, OneChar(loop, a, c))
<1> DEFINE acc == [i \in {0, 1} |-> IF i = 0 THEN a ELSE OneChar(loop, a, c)]
<1>1. /\ acc[0] = a /\ acc[1] = OneChar(loop, a, c) /\ Len(<<c>>) = 1 /\ 1..1 = {1}
      /\ <<c>>[1] = c /\ 1 - 1 = 0
  OBVIOUS
<1> HIDE DEF acc
<1> QED
  BY <1>1, Zenon DEF Run

LEMMA RunOverBoth ==
    ASSUME NEW loop, NEW X, NEW s \in Seq(X), NEW t \in Seq(X), NEW a, NEW b, NEW c,
           Run(loop, a, s, b), Run(loop, b, t, c)
    PROVE  Run(loop, a, s \o t, c)
<1> DEFINE m == Len(s)
           n == Len(t)
<1>1. /\ m \in Nat /\ n \in Nat /\ Len(s \o t) = m + n
      /\ \A i \in 1..m : (s \o t)[i] = s[i]
      /\ \A i \in 1..n : (s \o t)[m + i] = t[i]
  OBVIOUS
<1>2. PICK f : f[0] = a /\ f[m] = b /\ \A i \in 1..m : f[i] = OneChar(loop, f[i - 1], s[i])
  BY DEF Run
<1>3. PICK g : g[0] = b /\ g[n] = c /\ \A i \in 1..n : g[i] = OneChar(loop, g[i - 1], t[i])
  BY DEF Run
<1> DEFINE u == s \o t
           acc == [i \in 0..(m + n) |-> IF i <= m THEN f[i] ELSE g[i - m]]
<1>4. \A i \in 0..(m + n) : acc[i] = IF i <= m THEN f[i] ELSE g[i - m]
  OBVIOUS
<1> HIDE DEF u, acc, m, n
<1>5. acc[0] = a
  BY <1>1, <1>2, <1>4
<1>6. acc[m + n] = c
  <2>1. CASE n = 0
    <3>1. m + n \in 0..(m + n) /\ m + n <= m /\ m + n = m
      BY <1>1, <2>1
    <3>2. f[m] = c
      BY <1>2, <1>3, <2>1
    <3> QED
      BY <1>4, <3>1, <3>2
  <2>2. CASE n # 0
    <3>1. PICK i \in 0..(m + n) : i = m + n
      BY <1>1
    <3>2. ~(i <= m) /\ i - m = n
      BY <1>1, <2>2, <3>1
    <3>3. acc[i] = g[n]
      BY <1>4, <3>2
    <3> QED
      BY <1>3, <3>1, <3>3
  <2> QED
    BY <2>1, <2>2
<1>7. ASSUME NEW i \in 1..(m + n) PROVE acc[i] = OneChar(loop, acc[i - 1], u[i])
  <2>1. i \in 0..(m + n) /\ i - 1 \in 0..(m + n)
    BY <1>1
  <2>2. CASE i <= m
    <3>1. i \in 1..m /\ i - 1 <= m
      BY <1>1, <2>2
    <3>2. u[i] = s[i]
      BY <1>1, <3>1 DEF u
    <3>3. acc[i] = f[i] /\ acc[i - 1] = f[i - 1]
      BY <1>4, <2>1, <2>2, <3>1
    <3> QED
      BY <1>2, <3>1, <3>2, <3>3
  <2>3. CASE ~(i <= m)
    <3>1. i - m \in 1..n /\ m + (i - m) = i /\ i - 1 - m = i - m - 1
      BY <1>1, <2>3
    <3>2. u[i] = t[i - m]
      <4>1. PICK k \in 1..n : k = i - m
        BY <3>1
      <4>2. (s \o t)[m + k] = t[k]
        BY <1>1
      <4> QED
        BY <3>1, <4>1, <4>2 DEF u
    <3>3. acc[i] = g[i - m]
      BY <1>4, <2>1, <2>3
    <3>4. acc[i - 1] = g[i - m - 1]
      <4>1. CASE i - 1 <= m
        <5>1. i - 1 = m /\ i - m - 1 = 0
          BY <1>1, <2>3, <4>1
        <5>2. acc[i - 1] = f[i - 1]
          BY <1>4, <2>1, <4>1
        <5> QED
          BY <1>2, <1>3, <5>1, <5>2
      <4>2. CASE ~(i - 1 <= m)
        BY <1>4, <2>1, <3>1, <4>2
      <4> QED
        BY <4>1, <4>2
    <3>5. g[i - m] = OneChar(loop, g[i - m - 1], t[i - m])
      BY <1>3, <3>1
    <3> QED
      BY <3>2, <3>3, <3>4, <3>5
  <2> QED
    BY <2>2, <2>3
<1>8. Run(loop, a, u, c)
  <2>1. Len(u) = m + n
    BY <1>1 DEF u
  <2> QED
    BY <1>5, <1>6, <1>7, <2>1 DEF Run
<1> QED
  BY <1>8 DEF u

\* The loop is at acc[i] after i characters, and gets to one place.
Loops(loop, a, s, acc) ==
    acc[0] = a /\ \A i \in 1..Len(s) : acc[i] = OneChar(loop, acc[i - 1], s[i])

LEMMA RunIsOne ==
    ASSUME NEW loop, NEW s, Len(s) \in Nat, NEW a, NEW b, Run(loop, a, s, b),
           NEW acc, Loops(loop, a, s, acc)
    PROVE  acc[Len(s)] = b
<1> DEFINE n == Len(s)
<1>1. PICK f : f[0] = a /\ f[n] = b /\ \A i \in 1..n : f[i] = OneChar(loop, f[i - 1], s[i])
  BY DEF Run
<1>2. acc[0] = a /\ \A i \in 1..n : acc[i] = OneChar(loop, acc[i - 1], s[i])
  BY DEF Loops
<1> DEFINE same == {i \in 0..n : acc[i] = f[i]}
<1> HIDE DEF n
<1>3. n \in Nat /\ n \in 0..n /\ 0 \in 0..n
  BY DEF n
<1>4. 0 \in same
  BY <1>2, <1>1, <1>3
<1>5. \A i \in 1..n : i - 1 \in same => i \in same
  <2> SUFFICES ASSUME NEW i \in 1..n, i - 1 \in same PROVE i \in same
    OBVIOUS
  <2>1. acc[i] = OneChar(loop, acc[i - 1], s[i]) /\ f[i] = OneChar(loop, f[i - 1], s[i])
    BY <1>2, <1>1
  <2>2. i \in 0..n
    BY <1>3
  <2> QED
    BY <2>1, <2>2
<1> HIDE DEF same
<1>6. n \in same
  BY <1>3, <1>4, <1>5, CountingUp, Zenon
<1> QED
  BY <1>1, <1>6 DEF n, same

\* What the tokenizer has at some point.
Tokens(ts, cur, m) == [tokens |-> ts, current |-> cur, mode |-> m]

LEMMA TokenizeIs ==
    ASSUME NEW s, Len(s) \in Nat, NEW ts, NEW cur,
           Run("tokenize", Tokens(<<>>, <<>>, "normal"), s, Tokens(ts, cur, "normal"))
    PROVE  Tokenize(s) = IF cur = <<>> THEN ts ELSE Append(ts, cur)
<1> DEFINE start == Tokens(<<>>, <<>>, "normal")
           Whole(f) == [i \in 0..Len(s) |-> IF i = 0 THEN start ELSE Token(f[i - 1], s[i])]
           acc == CHOOSE f : f = Whole(f)
<1>1. PICK f : /\ f[0] = start
               /\ \A i \in 1..Len(s) : f[i] = OneChar("tokenize", f[i - 1], s[i])
  BY DEF Run
<1>2. \E g : g = Whole(g)
  <2> DEFINE g == [i \in 0..Len(s) |-> f[i]]
  <2>1. \A i \in 0..Len(s) : /\ g[i] = f[i]
                             /\ i = 0 \/ (i \in 1..Len(s) /\ i - 1 \in 0..Len(s))
    OBVIOUS
  <2>2. \A i \in 0..Len(s) : g[i] = IF i = 0 THEN start ELSE Token(g[i - 1], s[i])
    <3> HIDE DEF g, start
    <3> QED
      BY <1>1, <2>1 DEF OneChar
  <2>3. g = Whole(g)
    BY <2>2, Zenon
  <2> QED
    BY <2>3
<1>3. acc = Whole(acc)
  <2> HIDE DEF Whole
  <2> QED
    BY <1>2
<1> HIDE DEF acc
<1>4. acc[0] = start /\ \A i \in 1..Len(s) : acc[i] = OneChar("tokenize", acc[i - 1], s[i])
  <2>1. \A i \in 0..Len(s) : acc[i] = IF i = 0 THEN start ELSE Token(acc[i - 1], s[i])
    BY <1>3, Zenon
  <2>2. 0 \in 0..Len(s) /\ \A i \in 1..Len(s) : i \in 0..Len(s) /\ i # 0
    OBVIOUS
  <2> HIDE DEF start, Whole
  <2> QED
    BY <2>1, <2>2 DEF OneChar
<1>5. acc[Len(s)] = Tokens(ts, cur, "normal")
  <2> DEFINE end == Tokens(ts, cur, "normal")
  <2> HIDE DEF Whole, start, end
  <2>1. Run("tokenize", start, s, end)
    BY DEF start, end
  <2>2. acc[0] = start
    BY <1>4
  <2>3. \A i \in 1..Len(s) : acc[i] = OneChar("tokenize", acc[i - 1], s[i])
    BY <1>4
  <2>4. Len(s) \in Nat
    OBVIOUS
  <2>5. Loops("tokenize", start, s, acc)
    BY <2>2, <2>3 DEF Loops
  <2>6. acc[Len(s)] = end
    BY <2>1, <2>4, <2>5, RunIsOne
  <2> QED
    BY <2>6 DEF end
<1>6. Tokenize(s) = LET end == acc[Len(s)]
                        all == IF end.current = <<>> THEN end.tokens
                               ELSE Append(end.tokens, end.current)
                    IN  IF end.mode # "normal" THEN <<>> ELSE all
  BY Zenon DEF Tokenize, acc, Tokens
<1> HIDE DEF Whole
<1> QED
  BY <1>5, <1>6 DEF Tokens

\* What the substitution has at some point, but for a $ that may open a
\* variable.
Expands(o, var, m) == [out |-> o, var |-> var, mode |-> m]
Substitutes(acc, out) ==
    \E o \in Seq(Chars) : \E var :
        \/ acc = Expands(o, var, "text") /\ out = o
        \/ acc = Expands(o, var, "dollar") /\ out = Append(o, "$")

LEMMA SubstituteIs ==
    ASSUME NEW s, Len(s) \in Nat, NEW end, NEW out,
           Run("substitute", Expands(<<>>, <<>>, "text"), s, end),
           Substitutes(end, out)
    PROVE  substitute(s) = out
<1> DEFINE start == Expands(<<>>, <<>>, "text")
           Whole(f) == [i \in 0..Len(s) |-> IF i = 0 THEN start ELSE Substituted(f[i - 1], s[i])]
           acc == CHOOSE f : f = Whole(f)
<1>1. PICK f : /\ f[0] = start
               /\ \A i \in 1..Len(s) : f[i] = OneChar("substitute", f[i - 1], s[i])
  BY DEF Run
<1>2. \E g : g = Whole(g)
  <2> DEFINE g == [i \in 0..Len(s) |-> f[i]]
  <2>1. \A i \in 0..Len(s) : /\ g[i] = f[i]
                             /\ i = 0 \/ (i \in 1..Len(s) /\ i - 1 \in 0..Len(s))
    OBVIOUS
  <2>2. \A i \in 0..Len(s) : g[i] = IF i = 0 THEN start ELSE Substituted(g[i - 1], s[i])
    <3> HIDE DEF g, start
    <3> QED
      BY <1>1, <2>1 DEF OneChar
  <2>3. g = Whole(g)
    BY <2>2, Zenon
  <2> QED
    BY <2>3
<1>3. acc = Whole(acc)
  <2> HIDE DEF Whole
  <2> QED
    BY <1>2
<1> HIDE DEF acc
<1>4. acc[0] = start /\ \A i \in 1..Len(s) : acc[i] = OneChar("substitute", acc[i - 1], s[i])
  <2>1. \A i \in 0..Len(s) : acc[i] = IF i = 0 THEN start ELSE Substituted(acc[i - 1], s[i])
    BY <1>3, Zenon
  <2>2. 0 \in 0..Len(s) /\ \A i \in 1..Len(s) : i \in 0..Len(s) /\ i # 0
    OBVIOUS
  <2> HIDE DEF start, Whole
  <2> QED
    BY <2>1, <2>2 DEF OneChar
<1>5. acc[Len(s)] = end
  <2> HIDE DEF Whole, start
  <2>1. Run("substitute", start, s, end)
    BY DEF start
  <2>2. acc[0] = start
    BY <1>4
  <2>3. \A i \in 1..Len(s) : acc[i] = OneChar("substitute", acc[i - 1], s[i])
    BY <1>4
  <2>4. Len(s) \in Nat
    OBVIOUS
  <2>5. Loops("substitute", start, s, acc)
    BY <2>2, <2>3 DEF Loops
  <2> QED
    BY <2>1, <2>4, <2>5, RunIsOne
<1>6. substitute(s) = CASE acc[Len(s)].mode = "text" -> acc[Len(s)].out
                        [] acc[Len(s)].mode = "dollar" -> Append(acc[Len(s)].out, "$")
                        [] OTHER -> None
  BY Zenon DEF substitute, acc, Expands
<1> HIDE DEF Whole
<1> QED
  BY <1>5, <1>6 DEF Substitutes, Expands

\* The loop goes over a sequence of parts, one after the other.
LEMMA RunOverParts ==
    ASSUME NEW loop, NEW X, NEW at \in Seq(Seq(X)), NEW st,
           \A i \in 1..Len(at) : Run(loop, st[i - 1], at[i], st[i])
    PROVE  Run(loop, st[0], FlattenSeq(at), st[Len(at)])
<1> DEFINE N == Len(at)
           good == {i \in 0..N : Run(loop, st[0], Flat(at)[i], st[i])}
<1>1. N \in Nat /\ N \in 0..N /\ 0 \in 0..N
  OBVIOUS
<1>2. 0 \in good
  <2>1. Flat(at)[0] = <<>>
    BY FlatStarts, Zenon
  <2>2. Run(loop, st[0], <<>>, st[0])
    BY RunOverNothing, Zenon
  <2> QED
    BY <1>1, <2>1, <2>2
<1>3. ASSUME NEW i \in 1..N, i - 1 \in good PROVE i \in good
  <2>1. Flat(at)[i] = Flat(at)[i - 1] \o at[i]
    BY FlatGoesOn, Zenon
  <2>2. at[i] \in Seq(X)
    BY PartIsSeq, Zenon
  <2>3. i - 1 \in 0..Len(at) /\ i \in 0..Len(at)
    OBVIOUS
  <2>4. Flat(at)[i - 1] \in Seq(X)
    BY <2>3, FlatIsSeq, Zenon
  <2>5. Run(loop, st[0], Flat(at)[i - 1], st[i - 1])
    BY <1>3
  <2>6. Run(loop, st[i - 1], at[i], st[i])
    OBVIOUS
  <2>7. Run(loop, st[0], Flat(at)[i - 1] \o at[i], st[i])
    BY <2>2, <2>4, <2>5, <2>6, RunOverBoth, Zenon
  <2> QED
    BY <2>1, <2>3, <2>7
<1> HIDE DEF good
<1>4. N \in good
  <2> HIDE DEF N
  <2> QED
    BY <1>1, <1>2, <1>3, CountingUp, Zenon
<1>5. Run(loop, st[0], Flat(at)[N], st[N])
  BY <1>4 DEF good
<1>6. FlattenSeq(at) = Flat(at)[Len(at)]
  BY FlattenIsFlat, Zenon
<1> QED
  BY <1>5, <1>6

\* In quotes, and out of them.
Mode(style) == IF style = "bare" THEN "normal" ELSE style

IsPlain(c, style) ==
    c \notin CASE style = "bare" -> {"sp", "sq", "dq"}
               [] style = "single" -> {"sq"}
               [] style = "double" -> {"dq", "bs"}

LEMMA TokenIsPlain ==
    ASSUME NEW style \in Styles, NEW c, IsPlain(c, style), NEW ts, NEW cur
    PROVE  Token(Tokens(ts, cur, Mode(style)), c) = Tokens(ts, Append(cur, c), Mode(style))
BY DEF Token, Tokens, Mode, IsPlain, Styles

LEMMA PlainRun ==
    ASSUME NEW style \in Styles, NEW s \in Seq(Chars), \A i \in 1..Len(s) : IsPlain(s[i], style),
           NEW ts, NEW cur \in Seq(Chars)
    PROVE  Run("tokenize", Tokens(ts, cur, Mode(style)), s, Tokens(ts, cur \o s, Mode(style)))
<1> DEFINE m == Mode(style)
           n == Len(s)
           at(i) == Tokens(ts, cur \o SubSeq(s, 1, i), m)
           acc == [i \in 0..n |-> at(i)]
<1>1. n \in Nat /\ 0 \in 0..n /\ n \in 0..n /\ \A i \in 1..n : i \in 0..n /\ i - 1 \in 0..n
  OBVIOUS
<1>2. cur \o SubSeq(s, 1, 0) = cur /\ cur \o SubSeq(s, 1, n) = cur \o s
  OBVIOUS
<1>3. \A i \in 1..n : cur \o SubSeq(s, 1, i) = Append(cur \o SubSeq(s, 1, i - 1), s[i])
  OBVIOUS
<1> HIDE DEF n, m
<1>4. acc[0] = Tokens(ts, cur, m) /\ acc[n] = Tokens(ts, cur \o s, m)
  BY <1>1, <1>2
<1>5. ASSUME NEW i \in 1..n PROVE acc[i] = OneChar("tokenize", acc[i - 1], s[i])
  <2>1. acc[i] = at(i) /\ acc[i - 1] = at(i - 1)
    BY <1>1
  <2>2. IsPlain(s[i], style)
    BY DEF n
  <2>3. Token(Tokens(ts, cur \o SubSeq(s, 1, i - 1), m), s[i])
            = Tokens(ts, Append(cur \o SubSeq(s, 1, i - 1), s[i]), m)
    BY <2>2, TokenIsPlain DEF m
  <2> HIDE DEF acc
  <2> QED
    BY <1>3, <2>1, <2>3 DEF OneChar
<1> HIDE DEF acc
<1> QED
  BY <1>4, <1>5 DEF Run, m, n

\* What an argument is: pieces, and what is written for them.
Held(p) == IF p.style = "double" THEN Escaped(p.is) ELSE p.is
IsPiece(p) ==
    /\ p \in Piece
    /\ IsVariable(p.is) \/ (Len(p.is) = 1 /\ p.is # <<"{">>)
       \/ (p.is = <<>> /\ p.style # "bare" /\ ~p.joined)
    /\ p.style = "bare" => p.is \notin {<<"sp">>, <<"sq">>, <<"dq">>, <<"nl">>}
    /\ p.style = "single" => p.is \notin {<<"sq">>, <<"nl">>}

LEMMA InnerPart ==
    ASSUME NEW X, NEW s \in Seq(X), NEW n \in Nat, Len(s) = n, n > 3
    PROVE  /\ SubSeq(s, 3, n - 1) \in Seq(X) /\ Len(SubSeq(s, 3, n - 1)) = n - 3
           /\ \A i \in 1..(n - 3) : SubSeq(s, 3, n - 1)[i] = s[i + 2]
OBVIOUS

LEMMA OneAfter ==
    ASSUME NEW X, NEW s \in Seq(X), NEW c \in X
    PROVE  /\ s \o <<c>> \in Seq(X) /\ Len(s \o <<c>>) = Len(s) + 1 /\ (s \o <<c>>)[Len(s) + 1] = c
           /\ \A i \in 1..Len(s) : (s \o <<c>>)[i] = s[i]
OBVIOUS

\* The same, for a term with a name of its own.
HasOneMore(X, s, c, u) ==
    /\ u \in Seq(X) /\ Len(u) = Len(s) + 1 /\ u[Len(s) + 1] = c
    /\ \A i \in 1..Len(s) : u[i] = s[i]
LEMMA OneMoreAfter ==
    ASSUME NEW X, NEW s \in Seq(X), NEW c \in X, NEW u, u = s \o <<c>>
    PROVE  HasOneMore(X, s, c, u)
BY OneAfter DEF HasOneMore

LEMMA TwoBefore ==
    ASSUME NEW X, NEW s \in Seq(X), NEW c \in X, NEW d \in X
    PROVE  /\ <<c, d>> \o s \in Seq(X) /\ Len(<<c, d>> \o s) = Len(s) + 2
           /\ (<<c, d>> \o s)[1] = c /\ (<<c, d>> \o s)[2] = d
           /\ \A i \in 1..Len(s) : (<<c, d>> \o s)[i + 2] = s[i]
OBVIOUS

LEMMA SplitInThree ==
    ASSUME NEW X, NEW s \in Seq(X), NEW n \in Nat, Len(s) = n, n > 3
    PROVE  s = <<s[1], s[2]>> \o (SubSeq(s, 3, n - 1) \o <<s[n]>>)
<1>1. PICK name : name = SubSeq(s, 3, n - 1)
  OBVIOUS
<1>2. s[1] \in X /\ s[2] \in X /\ s[n] \in X
  OBVIOUS
<1>3. name \in Seq(X) /\ Len(name) = n - 3 /\ \A i \in 1..(n - 3) : name[i] = s[i + 2]
  BY <1>1, InnerPart
<1>4. PICK u : u = name \o <<s[n]>>
  OBVIOUS
<1>5. /\ u \in Seq(X) /\ Len(u) = Len(name) + 1 /\ u[Len(name) + 1] = s[n]
      /\ \A i \in 1..Len(name) : u[i] = name[i]
  BY <1>2, <1>3, <1>4, OneAfter
<1>6. PICK t : t = <<s[1], s[2]>> \o u
  OBVIOUS
<1>7. /\ t \in Seq(X) /\ Len(t) = Len(u) + 2 /\ t[1] = s[1] /\ t[2] = s[2]
      /\ \A i \in 1..Len(u) : t[i + 2] = u[i]
  BY <1>2, <1>5, <1>6, TwoBefore
<1>8. Len(name) + 1 = n - 2 /\ Len(u) = n - 2 /\ Len(t) = n
  BY <1>3, <1>5, <1>7
<1>9. ASSUME NEW i \in 1..n PROVE t[i] = s[i]
  <2>1. CASE i = 1
    BY <1>7, <2>1
  <2>2. CASE i = 2
    BY <1>7, <2>2
  <2>3. CASE i = n
    <3>1. n - 2 \in 1..(n - 2) /\ n - 2 + 2 = n
      OBVIOUS
    <3>2. t[n - 2 + 2] = u[n - 2] /\ u[n - 2] = s[n]
      BY <1>5, <1>7, <1>8, <3>1
    <3> QED
      BY <2>3, <3>1, <3>2
  <2>4. CASE i # 1 /\ i # 2 /\ i # n
    <3>1. PICK k \in 1..(n - 3) : k + 2 = i
      BY <2>4
    <3>2. k \in 1..(n - 2)
      OBVIOUS
    <3>3. t[k + 2] = u[k] /\ u[k] = name[k] /\ name[k] = s[k + 2]
      BY <1>3, <1>5, <1>7, <1>8, <3>2
    <3> QED
      BY <3>1, <3>3
  <2> QED
    BY <2>1, <2>2, <2>3, <2>4
<1>10. t = s
  <2>1. Len(t) = Len(s) /\ \A i \in 1..Len(t) : t[i] = s[i]
    BY <1>8, <1>9
  <2> QED
    BY <1>7, <2>1, SeqEqual, Zenon
<1> QED
  BY <1>1, <1>4, <1>6, <1>10

\* A variable is ${, its name, and }.
LEMMA VariableIs ==
    ASSUME NEW s \in Seq(Chars), IsVariable(s)
    PROVE  /\ VariableName(s) \in Seq(Chars) /\ VariableName(s) # <<>>
           /\ \A i \in 1..Len(VariableName(s)) : VariableName(s)[i] \in IdentChars
           /\ lookup_var(VariableName(s)) # None
           /\ s = <<"$", "{">> \o (VariableName(s) \o <<"}">>)
           /\ \A i \in 1..Len(s) : s[i] \in IdentChars \cup {"$", "{", "}"}
           /\ Len(s) > 3 /\ s[1] = "$" /\ s[Len(s)] = "}"
<1>1. PICK name, n : name = VariableName(s) /\ n = Len(s)
  OBVIOUS
<1>2. name = SubSeq(s, 3, n - 1) /\ n \in Nat
  BY <1>1 DEF VariableName
<1>3. /\ n > 3 /\ IsPrefix(<<"$", "{">>, s) /\ s[n] = "}" /\ lookup_var(name) # None
      /\ ToSet(name) \subseteq IdentChars
  BY <1>1, Zenon DEF IsVariable, Last
<1>4. n > 3
  BY <1>3
<1>5. s[1] = "$" /\ s[2] = "{"
  <2>1. SubSeq(<<"$", "{">>, 1, 2) = SubSeq(s, 1, 2)
    BY <1>3 DEF IsPrefix
  <2>2. SubSeq(<<"$", "{">>, 1, 2)[1] = "$" /\ SubSeq(<<"$", "{">>, 1, 2)[2] = "{"
    OBVIOUS
  <2>3. SubSeq(s, 1, 2)[1] = s[1] /\ SubSeq(s, 1, 2)[2] = s[2]
    OBVIOUS
  <2> QED
    BY <2>1, <2>2, <2>3
<1>6. name \in Seq(Chars) /\ Len(name) = n - 3 /\ \A i \in 1..(n - 3) : name[i] = s[i + 2]
  BY <1>1, <1>2, <1>4, InnerPart
<1>7. \A i \in 1..Len(name) : name[i] \in IdentChars
  <2>1. DOMAIN name = 1..Len(name)
    BY <1>6
  <2> QED
    BY <1>3, <2>1 DEF ToSet
<1>8. s = <<"$", "{">> \o (name \o <<"}">>)
  <2>1. s = <<s[1], s[2]>> \o (SubSeq(s, 3, n - 1) \o <<s[n]>>)
    BY <1>1, <1>2, <1>4, SplitInThree
  <2> QED
    BY <1>2, <1>3, <1>5, <2>1
<1>9. \A i \in 1..n : s[i] \in IdentChars \cup {"$", "{", "}"}
  <2> SUFFICES ASSUME NEW i \in 1..n PROVE s[i] \in IdentChars \cup {"$", "{", "}"}
    OBVIOUS
  <2>1. CASE i = 1
    BY <1>5, <2>1
  <2>2. CASE i = 2
    BY <1>5, <2>2
  <2>3. CASE i = n
    BY <1>3, <2>3
  <2>4. CASE i # 1 /\ i # 2 /\ i # n
    <3>1. PICK k \in 1..(n - 3) : k + 2 = i
      BY <1>2, <1>4, <2>4
    <3>2. k \in 1..Len(name)
      BY <1>6
    <3>3. name[k] = s[k + 2] /\ name[k] \in IdentChars
      BY <1>6, <1>7, <3>2
    <3> QED
      BY <3>1, <3>3
  <2> QED
    BY <2>1, <2>2, <2>3, <2>4
<1>10. name # <<>>
  <2>1. Len(name) # 0
    BY <1>2, <1>4, <1>6
  <2>2. Len(<<>>) = 0
    OBVIOUS
  <2> QED
    BY <2>1, <2>2
<1> QED
  BY <1>1, <1>3, <1>4, <1>5, <1>6, <1>7, <1>8, <1>9, <1>10

LEMMA VariableIsLong == ASSUME NEW s, IsVariable(s) PROVE s # <<>>
<1>1. Len(s) > 3
  BY Zenon DEF IsVariable
<1> QED
  BY <1>1

LEMMA RunOverTwo ==
    ASSUME NEW loop, NEW a, NEW c, NEW d
    PROVE  Run(loop, a, <<c, d>>, OneChar(loop, OneChar(loop, a, c), d))
<1> DEFINE b == OneChar(loop, a, c)
           e == OneChar(loop, b, d)
           acc == [i \in {0, 1, 2} |-> IF i = 0 THEN a ELSE IF i = 1 THEN b ELSE e]
<1>1. /\ acc[0] = a /\ acc[1] = b /\ acc[2] = e /\ Len(<<c, d>>) = 2 /\ 1..2 = {1, 2}
      /\ <<c, d>>[1] = c /\ <<c, d>>[2] = d /\ 1 - 1 = 0 /\ 2 - 1 = 1
  OBVIOUS
<1>2. b = OneChar(loop, a, c) /\ e = OneChar(loop, b, d)
  OBVIOUS
<1> HIDE DEF acc, b, e
<1>3. Run(loop, a, <<c, d>>, e)
  BY <1>1, <1>2, Zenon DEF Run
<1> QED
  BY <1>3 DEF b, e

LEMMA HeldRun ==
    ASSUME NEW p, IsPiece(p), NEW ts, NEW cur \in Seq(Chars)
    PROVE  /\ Held(p) \in Seq(Chars)
           /\ Run("tokenize", Tokens(ts, cur, Mode(p.style)), Held(p),
                  Tokens(ts, cur \o p.is, Mode(p.style)))
<1>1. p.is \in Seq(Chars) /\ p.style \in Styles
  BY DEF IsPiece, Piece
<1>2. CASE p.style = "double" /\ p.is \in {<<"dq">>, <<"bs">>, <<"nl">>}
  <2> DEFINE c == IF p.is = <<"nl">> THEN "n" ELSE p.is[1]
             a == Tokens(ts, cur, "double")
             b == Tokens(ts, cur, "escape")
  <2>1. Held(p) = <<"bs", c>> /\ c \in Chars /\ "bs" \in Chars
    <3> DEFINE q == p.is
    <3>1. /\ q[1] = "dq" => q = <<"dq">> /\ q # <<"bs">> /\ q # <<"nl">>
          /\ q[1] = "bs" => q = <<"bs">> /\ q # <<"dq">> /\ q # <<"nl">>
          /\ q[1] = "nl" => q = <<"nl">> /\ q # <<"dq">> /\ q # <<"bs">>
      <4>1. <<"dq">>[1] = "dq" /\ <<"bs">>[1] = "bs" /\ <<"nl">>[1] = "nl"
        OBVIOUS
      <4> HIDE DEF q
      <4>2. q \in {<<"dq">>, <<"bs">>, <<"nl">>}
        BY <1>2 DEF q
      <4> QED
        BY <4>1, <4>2
    <3>2. q[1] \in {"dq", "bs", "nl"}
      BY <1>2
    <3>3. Held(p) = Escaped(q) /\ c = IF q = <<"nl">> THEN "n" ELSE q[1]
      BY <1>2 DEF Held
    <3> HIDE DEF q, c
    <3>4. CASE q[1] = "dq"
      <4>1. Escaped(q) = <<"bs", "dq">>
        BY <3>1, <3>4, Zenon DEF Escaped
      <4> QED
        BY <3>1, <3>3, <3>4, <4>1 DEF Chars
    <3>5. CASE q[1] = "bs"
      <4>1. Escaped(q) = <<"bs", "bs">>
        BY <3>1, <3>5, Zenon DEF Escaped
      <4> QED
        BY <3>1, <3>3, <3>5, <4>1 DEF Chars
    <3>6. CASE q[1] = "nl"
      <4>1. Escaped(q) = <<"bs", "n">>
        BY <3>1, <3>6, Zenon DEF Escaped
      <4> QED
        BY <3>1, <3>3, <3>6, <4>1 DEF Chars
    <3> QED
      BY <3>2, <3>4, <3>5, <3>6
  <2>2. p.is = <<IF c = "n" THEN "nl" ELSE c>>
    BY <1>2
  <2>3. OneChar("tokenize", a, "bs") = b
    BY DEF OneChar, Token, Tokens
  <2>4. OneChar("tokenize", b, c) = Tokens(ts, Append(cur, IF c = "n" THEN "nl" ELSE c), "double")
    <3> HIDE DEF c
    <3> QED
      BY DEF OneChar, Token, Tokens
  <2>5. OneChar("tokenize", b, c) = Tokens(ts, cur \o p.is, "double")
    <3> HIDE DEF c
    <3>1. Append(cur, IF c = "n" THEN "nl" ELSE c) = cur \o <<IF c = "n" THEN "nl" ELSE c>>
      OBVIOUS
    <3> QED
      BY <2>2, <2>4, <3>1
  <2>6. Run("tokenize", a, <<"bs", c>>, OneChar("tokenize", OneChar("tokenize", a, "bs"), c))
    BY RunOverTwo, Zenon
  <2>7. Mode(p.style) = "double"
    BY <1>2 DEF Mode
  <2>8. <<"bs", c>> \in Seq(Chars)
    BY <2>1
  <2> HIDE DEF a, b, c
  <2> QED
    BY <2>1, <2>3, <2>5, <2>6, <2>7, <2>8 DEF a
<1>3. CASE ~(p.style = "double" /\ p.is \in {<<"dq">>, <<"bs">>, <<"nl">>})
  <2>1. Held(p) = p.is
    BY <1>3 DEF Held, Escaped
  <2>2. \A i \in 1..Len(p.is) : IsPlain(p.is[i], p.style)
    <3>1. CASE IsVariable(p.is)
      <4>1. \A i \in 1..Len(p.is) : p.is[i] \in IdentChars \cup {"$", "{", "}"}
        BY <1>1, <3>1, VariableIs
      <4>2. \A c \in IdentChars \cup {"$", "{", "}"} : IsPlain(c, p.style)
        BY <1>1 DEF IdentChars, IsPlain, Styles
      <4> QED
        BY <4>1, <4>2
    <3>2. CASE Len(p.is) = 1
      <4>1. p.is = <<p.is[1]>> /\ \A i \in 1..Len(p.is) : i = 1
        BY <1>1, <3>2
      <4>2. IsPlain(p.is[1], p.style)
        <5>1. CASE p.style = "bare"
          BY <4>1, <5>1 DEF IsPiece, IsPlain
        <5>2. CASE p.style = "single"
          BY <4>1, <5>2 DEF IsPiece, IsPlain
        <5>3. CASE p.style = "double"
          BY <1>3, <4>1, <5>3 DEF IsPiece, IsPlain
        <5> QED
          BY <1>1, <5>1, <5>2, <5>3 DEF Styles
      <4> QED
        BY <4>1, <4>2
    <3>3. CASE p.is = <<>>
      BY <3>3
    <3> QED
      BY <3>1, <3>2, <3>3 DEF IsPiece
  <2>3. Run("tokenize", Tokens(ts, cur, Mode(p.style)), p.is, Tokens(ts, cur \o p.is, Mode(p.style)))
    BY <1>1, <2>2, PlainRun, Zenon
  <2> QED
    BY <1>1, <2>1, <2>3
<1> QED
  BY <1>2, <1>3

LEMMA QuoteRun ==
    ASSUME NEW style \in Styles, NEW ts, NEW cur
    PROVE  /\ Quote(style) \in Seq(Chars)
           /\ Run("tokenize", Tokens(ts, cur, "normal"), Quote(style), Tokens(ts, cur, Mode(style)))
           /\ Run("tokenize", Tokens(ts, cur, Mode(style)), Quote(style), Tokens(ts, cur, "normal"))
<1> DEFINE a == Tokens(ts, cur, "normal")
           b == Tokens(ts, cur, Mode(style))
<1>1. CASE style = "bare"
  <2>1. a = b /\ Quote(style) = <<>>
    BY <1>1 DEF Mode, Quote
  <2>2. Run("tokenize", a, <<>>, a)
    BY RunOverNothing, Zenon
  <2>3. <<>> \in Seq(Chars)
    OBVIOUS
  <2> HIDE DEF a, b
  <2>4. /\ Quote(style) \in Seq(Chars) /\ Run("tokenize", a, Quote(style), b)
        /\ Run("tokenize", b, Quote(style), a)
    BY <2>1, <2>2, <2>3
  <2> QED
    BY <2>4 DEF a, b
<1>2. CASE style # "bare"
  <2> DEFINE q == IF style = "single" THEN "sq" ELSE "dq"
  <2>1. Quote(style) = <<q>> /\ q \in Chars /\ Mode(style) = style
    BY <1>2 DEF Quote, Styles, Chars, Mode
  <2>2. OneChar("tokenize", a, q) = b /\ OneChar("tokenize", b, q) = a
    BY <1>2 DEF OneChar, Token, Tokens, Mode, Styles
  <2>3. /\ Run("tokenize", a, <<q>>, OneChar("tokenize", a, q))
        /\ Run("tokenize", b, <<q>>, OneChar("tokenize", b, q))
    BY RunOverOne, Zenon
  <2> HIDE DEF a, b, q
  <2>4. <<q>> \in Seq(Chars)
    BY <2>1
  <2>5. /\ Quote(style) \in Seq(Chars) /\ Run("tokenize", a, Quote(style), b)
        /\ Run("tokenize", b, Quote(style), a)
    BY <2>1, <2>2, <2>3, <2>4
  <2> QED
    BY <2>5 DEF a, b
<1> QED
  BY <1>1, <1>2

\* The mode before and behind a piece, which the piece before and the piece
\* behind agree on.
ModeBefore(arg, i) == IF arg[i].joined THEN Mode(arg[i].style) ELSE "normal"
ModeBehind(arg, i) ==
    IF i < Len(arg) /\ arg[i + 1].joined THEN Mode(arg[i].style) ELSE "normal"

LEMMA ArgumentPieces ==
    ASSUME NEW arg \in Seq(Piece), IsArgument(arg)
    PROVE  /\ Len(arg) \in Nat \ {0}
           /\ \A i \in 1..Len(arg) : IsPiece(arg[i])
           /\ ModeBefore(arg, 1) = "normal" /\ ModeBehind(arg, Len(arg)) = "normal"
           /\ ~arg[1].joined
           /\ \A i \in 2..Len(arg) : ModeBefore(arg, i) = ModeBehind(arg, i - 1)
<1>1. arg # <<>>
  BY Zenon DEF IsArgument
<1>2. arg # <<>> /\ Len(arg) \in Nat \ {0} /\ DOMAIN arg = 1..Len(arg)
  BY <1>1
<1>3. \A i \in 1..Len(arg) : IsPiece(arg[i])
  <2> SUFFICES ASSUME NEW i \in 1..Len(arg) PROVE IsPiece(arg[i])
    OBVIOUS
  <2>1. arg[i] \in Piece
    OBVIOUS
  <2> QED
    BY <1>2, <2>1 DEF IsArgument, IsPiece
<1>4. \A i \in 1..Len(arg) : arg[i].joined => i > 1 /\ arg[i - 1].style = arg[i].style
  BY <1>2 DEF IsArgument
<1>5. 1 \in 1..Len(arg) /\ ~(1 > 1) /\ ~(Len(arg) < Len(arg))
  BY <1>2
<1>6. ~arg[1].joined
  BY <1>4, <1>5
<1>7. ASSUME NEW i \in 2..Len(arg) PROVE ModeBefore(arg, i) = ModeBehind(arg, i - 1)
  <2>1. i - 1 < Len(arg) /\ i - 1 + 1 = i /\ i \in 1..Len(arg)
    BY <1>2
  <2> QED
    BY <1>4, <2>1 DEF ModeBefore, ModeBehind
<1> QED
  BY <1>2, <1>3, <1>5, <1>6, <1>7 DEF ModeBefore, ModeBehind

LEMMA MarkedRun ==
    ASSUME NEW arg, NEW i, IsPiece(arg[i]), NEW ts, NEW cur \in Seq(Chars)
    PROVE  /\ Marked(arg, i) \in Seq(Chars)
           /\ Run("tokenize", Tokens(ts, cur, ModeBefore(arg, i)), Marked(arg, i),
                  Tokens(ts, cur \o arg[i].is, ModeBehind(arg, i)))
<1> DEFINE p == arg[i]
           start == IF p.joined THEN <<>> ELSE Quote(p.style)
           end == IF i < Len(arg) /\ arg[i + 1].joined THEN <<>> ELSE Quote(p.style)
           held == Held(p)
           more == cur \o p.is
           a == Tokens(ts, cur, ModeBefore(arg, i))
           b == Tokens(ts, cur, Mode(p.style))
           c == Tokens(ts, more, Mode(p.style))
           d == Tokens(ts, more, ModeBehind(arg, i))
<1>1. p.style \in Styles /\ p.is \in Seq(Chars)
  BY DEF IsPiece, Piece
<1>2. <<>> \in Seq(Chars)
  OBVIOUS
<1>3. start \in Seq(Chars) /\ Run("tokenize", a, start, b)
  <2>1. CASE p.joined
    <3>1. a = b /\ start = <<>>
      BY <2>1, Zenon DEF ModeBefore
    <3>2. Run("tokenize", b, <<>>, b)
      BY RunOverNothing, Zenon
    <3> HIDE DEF a, b, start
    <3> QED
      BY <1>2, <3>1, <3>2
  <2>2. CASE ~p.joined
    <3>1. a = Tokens(ts, cur, "normal") /\ start = Quote(p.style)
      BY <2>2, Zenon DEF ModeBefore
    <3>2. Quote(p.style) \in Seq(Chars) /\ Run("tokenize", Tokens(ts, cur, "normal"), Quote(p.style), b)
      BY <1>1, QuoteRun, Zenon
    <3> HIDE DEF a, b, start
    <3> QED
      BY <3>1, <3>2
  <2> QED
    BY <2>1, <2>2
<1>4. held \in Seq(Chars) /\ Run("tokenize", b, held, c)
  BY HeldRun, Zenon
<1>5. end \in Seq(Chars) /\ Run("tokenize", c, end, d)
  <2>1. CASE i < Len(arg) /\ arg[i + 1].joined
    <3>1. d = c /\ end = <<>>
      BY <2>1, Zenon DEF ModeBehind
    <3>2. Run("tokenize", c, <<>>, c)
      BY RunOverNothing, Zenon
    <3> HIDE DEF c, d, end
    <3> QED
      BY <1>2, <3>1, <3>2
  <2>2. CASE ~(i < Len(arg) /\ arg[i + 1].joined)
    <3>1. d = Tokens(ts, more, "normal") /\ end = Quote(p.style)
      BY <2>2, Zenon DEF ModeBehind
    <3>2. Quote(p.style) \in Seq(Chars) /\ Run("tokenize", c, Quote(p.style), Tokens(ts, more, "normal"))
      BY <1>1, QuoteRun, Zenon
    <3> HIDE DEF c, d, end, more
    <3> QED
      BY <3>1, <3>2
  <2> QED
    BY <2>1, <2>2
<1>6. Marked(arg, i) = start \o held \o end
  BY Zenon DEF Marked, Held
<1> HIDE DEF a, b, c, d, start, end, held
<1>7. start \o held \in Seq(Chars) /\ start \o held \o end \in Seq(Chars)
  BY <1>3, <1>4, <1>5
<1>8. Run("tokenize", a, start \o held, c)
  BY <1>3, <1>4, RunOverBoth, Zenon
<1>9. Run("tokenize", a, start \o held \o end, d)
  BY <1>5, <1>7, <1>8, RunOverBoth, Zenon
<1>10. Marked(arg, i) \in Seq(Chars) /\ Run("tokenize", a, Marked(arg, i), d)
  BY <1>6, <1>7, <1>9
<1> QED
  BY <1>10 DEF a, d

\* The characters of an argument, and what is written for them.
Characters(arg) == [i \in 1..Len(arg) |-> arg[i].is]
AllMarked(arg) == [i \in 1..Len(arg) |-> Marked(arg, i)]

LEMMA PieceHolds ==
    ASSUME NEW p, IsPiece(p)
    PROVE  p.is \in Seq(Chars) /\ p.style \in Styles
BY DEF IsPiece, Piece

LEMMA MapIsSeq ==
    ASSUME NEW n \in Nat, NEW S, NEW f \in [1..n -> S]
    PROVE  f \in Seq(S) /\ Len(f) = n
OBVIOUS

LEMMA CharactersAre ==
    ASSUME NEW arg \in Seq(Piece), IsArgument(arg)
    PROVE  /\ Characters(arg) \in Seq(Seq(Chars)) /\ Len(Characters(arg)) = Len(arg)
           /\ AllMarked(arg) \in Seq(Seq(Chars)) /\ Len(AllMarked(arg)) = Len(arg)
           /\ \A i \in 1..Len(arg) : Characters(arg)[i] = arg[i].is /\ AllMarked(arg)[i] = Marked(arg, i)
<1>1. Len(arg) \in Nat \ {0} /\ \A i \in 1..Len(arg) : IsPiece(arg[i])
  BY ArgumentPieces, Zenon
<1>2. ASSUME NEW i \in 1..Len(arg)
      PROVE  arg[i].is \in Seq(Chars) /\ Marked(arg, i) \in Seq(Chars)
  <2>1. IsPiece(arg[i])
    BY <1>1
  <2>2. arg[i].is \in Seq(Chars)
    BY <2>1 DEF IsPiece, Piece
  <2>3. <<>> \in Seq(Chars)
    OBVIOUS
  <2>4. Marked(arg, i) \in Seq(Chars)
    BY <2>1, <2>3, MarkedRun, Zenon
  <2> QED
    BY <2>2, <2>4, Zenon
<1>3. Characters(arg) \in [1..Len(arg) -> Seq(Chars)] /\ AllMarked(arg) \in [1..Len(arg) -> Seq(Chars)]
  BY <1>2 DEF Characters, AllMarked
<1>4. Characters(arg) \in Seq(Seq(Chars)) /\ AllMarked(arg) \in Seq(Seq(Chars))
  BY <1>1, <1>3, MapIsSeq
<1>5. Len(Characters(arg)) = Len(arg) /\ Len(AllMarked(arg)) = Len(arg)
  BY <1>1, <1>3, MapIsSeq
<1>6. \A i \in 1..Len(arg) : Characters(arg)[i] = arg[i].is /\ AllMarked(arg)[i] = Marked(arg, i)
  BY DEF Characters, AllMarked
<1> QED
  BY <1>2, <1>4, <1>5, <1>6

\* One argument.
LEMMA ArgumentRun ==
    ASSUME NEW arg \in Seq(Piece), IsArgument(arg), NEW ts
    PROVE  Run("tokenize", Tokens(ts, <<>>, "normal"), FlattenSeq(AllMarked(arg)),
               Tokens(ts, FlattenSeq(Characters(arg)), "normal"))
<1>1. PICK n, at, is : n = Len(arg) /\ at = AllMarked(arg) /\ is = Characters(arg)
  OBVIOUS
<1>2. /\ is \in Seq(Seq(Chars)) /\ Len(is) = n /\ at \in Seq(Seq(Chars)) /\ Len(at) = n
      /\ \A i \in 1..n : is[i] = arg[i].is /\ at[i] = Marked(arg, i)
  BY <1>1, CharactersAre
<1>3. /\ n \in Nat \ {0} /\ \A i \in 1..n : IsPiece(arg[i])
      /\ ModeBefore(arg, 1) = "normal" /\ ModeBehind(arg, n) = "normal"
      /\ \A i \in 2..n : ModeBefore(arg, i) = ModeBehind(arg, i - 1)
  BY <1>1, ArgumentPieces
<1> DEFINE mode(i) == IF i = 0 THEN "normal" ELSE ModeBehind(arg, i)
           st == [i \in 0..n |-> Tokens(ts, Flat(is)[i], mode(i))]
<1>4. \A i \in 1..n : ModeBefore(arg, i) = mode(i - 1) /\ ModeBehind(arg, i) = mode(i)
  <2> SUFFICES ASSUME NEW i \in 1..n
               PROVE  ModeBefore(arg, i) = mode(i - 1) /\ ModeBehind(arg, i) = mode(i)
    OBVIOUS
  <2>1. i = 1 \/ (i \in 2..n /\ i - 1 # 0)
    BY <1>3
  <2>2. i # 0
    OBVIOUS
  <2> QED
    BY <1>3, <2>1, <2>2
<1> HIDE DEF mode
<1>5. \A i \in 0..n : st[i] = Tokens(ts, Flat(is)[i], mode(i))
  OBVIOUS
<1> HIDE DEF st
<1>6. ASSUME NEW i \in 1..n PROVE Run("tokenize", st[i - 1], at[i], st[i])
  <2>1. i - 1 \in 0..n /\ i \in 0..n /\ i - 1 \in 0..Len(is) /\ i \in 1..Len(is)
    BY <1>2
  <2>2. Flat(is)[i - 1] \in Seq(Chars)
    BY <1>2, <2>1, FlatIsSeq, Zenon
  <2>3. Flat(is)[i] = Flat(is)[i - 1] \o is[i]
    BY <1>2, <2>1, FlatGoesOn, Zenon
  <2>4. Run("tokenize", Tokens(ts, Flat(is)[i - 1], ModeBefore(arg, i)), Marked(arg, i),
            Tokens(ts, Flat(is)[i - 1] \o arg[i].is, ModeBehind(arg, i)))
    BY <1>3, <2>2, MarkedRun, Zenon
  <2>5. st[i - 1] = Tokens(ts, Flat(is)[i - 1], ModeBefore(arg, i))
    BY <1>4, <1>5, <2>1
  <2>6. st[i] = Tokens(ts, Flat(is)[i - 1] \o arg[i].is, ModeBehind(arg, i))
    BY <1>2, <1>4, <1>5, <2>1, <2>3
  <2> QED
    BY <1>2, <2>4, <2>5, <2>6
<1>7. Run("tokenize", st[0], FlattenSeq(at), st[n])
  BY <1>2, <1>6, RunOverParts
<1>8. st[0] = Tokens(ts, <<>>, "normal") /\ st[n] = Tokens(ts, Flat(is)[n], "normal")
  <2>1. 0 \in 0..n /\ n \in 0..n /\ n # 0
    BY <1>3
  <2>2. Flat(is)[0] = <<>>
    BY <1>2, FlatStarts, Zenon
  <2> QED
    BY <1>3, <1>5, <2>1, <2>2 DEF mode
<1>9. Flat(is)[n] = FlattenSeq(is)
  BY <1>2, FlattenIsFlat
<1> QED
  BY <1>1, <1>7, <1>8, <1>9

LEMMA FlattenedIsSeq ==
    ASSUME NEW X, NEW at \in Seq(Seq(X)) PROVE FlattenSeq(at) \in Seq(X)
<1>1. Len(at) \in 0..Len(at)
  OBVIOUS
<1>2. Flat(at)[Len(at)] \in Seq(X)
  BY <1>1, FlatIsSeq, Zenon
<1>3. FlattenSeq(at) = Flat(at)[Len(at)]
  BY FlattenIsFlat, Zenon
<1> QED
  BY <1>2, <1>3

LEMMA FirstOfBoth ==
    ASSUME NEW X, NEW s \in Seq(X), NEW t \in Seq(X), s # <<>>
    PROVE  s \o t \in Seq(X) /\ s \o t # <<>> /\ (s \o t)[1] = s[1]
OBVIOUS

LEMMA LastOfBoth ==
    ASSUME NEW X, NEW s \in Seq(X), NEW t \in Seq(X), t # <<>>
    PROVE  s \o t \in Seq(X) /\ s \o t # <<>> /\ (s \o t)[Len(s \o t)] = t[Len(t)]
<1>1. PICK u : u = s \o t
  OBVIOUS
<1>2. u \in Seq(X) /\ Len(u) = Len(s) + Len(t) /\ Len(t) \in Nat \ {0} /\ Len(s) \in Nat
  BY <1>1
<1>3. \A i \in 1..Len(t) : u[Len(s) + i] = t[i]
  BY <1>1
<1>4. u[Len(s) + Len(t)] = t[Len(t)]
  BY <1>2, <1>3
<1>5. u # <<>>
  BY <1>2
<1> QED
  BY <1>1, <1>2, <1>4, <1>5

\* The ends of what is put together from parts.
LEMMA FlatEnds ==
    ASSUME NEW X, NEW at \in Seq(Seq(X)), NEW n \in Nat \ {0}, Len(at) = n,
           at[1] # <<>>, at[n] # <<>>
    PROVE  LET all == FlattenSeq(at)
           IN  /\ all \in Seq(X) /\ all # <<>>
               /\ all[1] = at[1][1] /\ all[Len(all)] = at[n][Len(at[n])]
<1>1. /\ Len(at) \in Nat /\ 1 \in 1..n /\ n \in 1..n /\ n - 1 \in 0..n /\ n \in 0..n /\ n \in 1..n
      /\ 1 - 1 = 0
  OBVIOUS
<1>2. \A i \in 0..n : Flat(at)[i] \in Seq(X)
  BY FlatIsSeq
<1>3. \A i \in 1..n : Flat(at)[i] = Flat(at)[i - 1] \o at[i]
  BY FlatGoesOn
<1>4. \A i \in 1..n : at[i] \in Seq(X)
  OBVIOUS
<1> DEFINE good == {i \in 1..n : Flat(at)[i] # <<>> /\ Flat(at)[i][1] = at[1][1]}
<1>5. 1 \in good
  <2>1. Flat(at)[0] = <<>>
    BY FlatStarts, Zenon
  <2>2. Flat(at)[1] = <<>> \o at[1]
    BY <1>1, <1>3, <2>1
  <2>3. Flat(at)[1] = at[1]
    BY <1>1, <1>4, <2>2, EmptyBefore
  <2> QED
    BY <1>1, <2>3
<1>6. ASSUME NEW i \in 2..n, i - 1 \in good PROVE i \in good
  <2>1. i \in 1..n /\ i - 1 \in 0..n
    OBVIOUS
  <2>2. PICK s, t : s = Flat(at)[i - 1] /\ t = at[i]
    OBVIOUS
  <2>3. s \in Seq(X) /\ t \in Seq(X) /\ s # <<>> /\ s[1] = at[1][1] /\ Flat(at)[i] = s \o t
    BY <1>2, <1>3, <1>4, <1>6, <2>1, <2>2
  <2>4. s \o t # <<>> /\ (s \o t)[1] = s[1]
    BY <2>3
  <2> QED
    BY <2>1, <2>3, <2>4
<1> HIDE DEF good
<1>7. n \in good
  <2>1. 1 \in Nat /\ n \in Nat /\ 1 + 1 = 2
    OBVIOUS
  <2>2. \A i \in (1 + 1)..n : i - 1 \in good => i \in good
    BY <1>6, <2>1
  <2>3. \A i \in 1..n : i \in good
    BY <1>5, <2>1, <2>2, CountingFrom, Zenon
  <2> QED
    BY <1>1, <2>3
<1>8. FlattenSeq(at) = Flat(at)[n]
  BY FlattenIsFlat
<1>9. PICK s, t : s = Flat(at)[n - 1] /\ t = at[n]
  OBVIOUS
<1>10. s \in Seq(X) /\ t \in Seq(X) /\ t # <<>> /\ Flat(at)[n] = s \o t
  BY <1>1, <1>2, <1>3, <1>4, <1>9
<1>11. Len(s \o t) = Len(s) + Len(t) /\ (s \o t)[Len(s) + Len(t)] = t[Len(t)]
  BY <1>10
<1>12. Flat(at)[n][Len(Flat(at)[n])] = at[n][Len(at[n])]
  BY <1>9, <1>10, <1>11
<1> QED
  BY <1>1, <1>2, <1>7, <1>8, <1>12 DEF good

\* A line of arguments.
AreArguments(args) ==
    /\ args \in Seq(Seq(Piece)) /\ args # <<>> /\ \A n \in 1..Len(args) : IsArgument(args[n])

\* What is written at the ends of a piece is no space.
LEMMA MarkedEnds ==
    ASSUME NEW arg, NEW i, IsPiece(arg[i])
    PROVE  LET s == Marked(arg, i)
           IN  /\ s \in Seq(Chars) /\ s # <<>>
               /\ ~arg[i].joined => s[1] # "sp"
               /\ ~(i < Len(arg) /\ arg[i + 1].joined) => s[Len(s)] # "sp"
<1> DEFINE p == arg[i]
<1>1. PICK start, held, end : /\ start = IF p.joined THEN <<>> ELSE Quote(p.style)
                              /\ held = Held(p)
                              /\ end = IF i < Len(arg) /\ arg[i + 1].joined THEN <<>> ELSE Quote(p.style)
  OBVIOUS
<1>2. Marked(arg, i) = start \o held \o end
  BY <1>1, Zenon DEF Marked, Held
<1>3. p.style \in Styles /\ p.is \in Seq(Chars)
  BY DEF IsPiece, Piece
<1>4. p.style = "bare" => Quote(p.style) = <<>>
  BY DEF Quote
<1>5. p.style # "bare" => Quote(p.style) \in {<<"sq">>, <<"dq">>}
  BY <1>3 DEF Quote, Styles
<1>6. /\ held \in Seq(Chars)
      /\ p.style = "bare" => held # <<>> /\ held[1] # "sp" /\ held[Len(held)] # "sp"
      /\ p.joined => held # <<>>
  <2>1. held \in Seq(Chars)
    <3>1. <<>> \in Seq(Chars)
      OBVIOUS
    <3>2. Held(p) \in Seq(Chars)
      BY <3>1, HeldRun, Zenon
    <3> QED
      BY <1>1, <3>2
  <2>2. /\ p.style = "bare" => p.is # <<>> /\ p.is[1] # "sp" /\ p.is[Len(p.is)] # "sp"
        /\ p.joined => p.is # <<>>
    <3>1. CASE IsVariable(p.is)
      <4>1. Len(p.is) > 3 /\ p.is[1] = "$" /\ p.is[Len(p.is)] = "}"
        BY <1>3, <3>1, VariableIs
      <4>2. p.is # <<>>
        BY <3>1, VariableIsLong
      <4> QED
        BY <4>1, <4>2
    <3>2. CASE Len(p.is) = 1
      <4>1. p.is = <<p.is[1]>> /\ p.is # <<>>
        BY <1>3, <3>2
      <4>2. p.style = "bare" => p.is # <<"sp">>
        BY DEF IsPiece
      <4> QED
        BY <3>2, <4>1, <4>2
    <3>3. CASE p.is = <<>>
      <4>1. p.style # "bare" /\ ~p.joined
        BY <3>3, VariableIsLong DEF IsPiece
      <4> QED
        BY <4>1
    <3> QED
      BY <3>1, <3>2, <3>3 DEF IsPiece
  <2>3. CASE p.style # "double"
    BY <1>1, <2>1, <2>2, <2>3 DEF Held
  <2>4. CASE p.style = "double"
    <3>1. held = Escaped(p.is)
      BY <1>1, <2>4 DEF Held
    <3>2. held \in {p.is, <<"bs", "dq">>, <<"bs", "bs">>, <<"bs", "n">>}
      BY <3>1, Zenon DEF Escaped
    <3>3. <<"bs", "dq">> # <<>> /\ <<"bs", "bs">> # <<>> /\ <<"bs", "n">> # <<>>
      OBVIOUS
    <3>4. p.joined => held # <<>>
      BY <2>2, <3>2, <3>3, Zenon
    <3> QED
      BY <2>1, <2>4, <3>4
  <2> QED
    BY <2>3, <2>4
<1>7. start \in Seq(Chars) /\ end \in Seq(Chars)
  <2>1. <<>> \in Seq(Chars) /\ <<"sq">> \in Seq(Chars) /\ <<"dq">> \in Seq(Chars)
    BY DEF Chars
  <2> QED
    BY <1>1, <1>4, <1>5, <2>1
<1>8. Marked(arg, i) \in Seq(Chars) /\ Marked(arg, i) # <<>>
  <2>1. start # <<>> \/ held # <<>>
    <3>1. CASE p.joined \/ p.style = "bare"
      BY <1>6, <3>1
    <3>2. CASE ~(p.joined \/ p.style = "bare")
      <4>1. start \in {<<"sq">>, <<"dq">>}
        BY <1>1, <1>5, <3>2
      <4> QED
        BY <4>1
    <3> QED
      BY <3>1, <3>2
  <2> QED
    BY <1>2, <1>6, <1>7, <2>1
<1>9. ASSUME ~p.joined PROVE Marked(arg, i)[1] # "sp"
  <2>1. CASE p.style = "bare"
    <3>1. start = <<>>
      BY <1>1, <1>4, <1>9, <2>1
    <3>2. held # <<>> /\ held[1] # "sp" /\ start \o held = held
      BY <1>6, <2>1, <3>1
    <3>3. (held \o end)[1] = held[1]
      BY <1>6, <1>7, <3>2, FirstOfBoth
    <3> QED
      BY <1>2, <3>2, <3>3
  <2>2. CASE p.style # "bare"
    <3>1. start \in {<<"sq">>, <<"dq">>}
      BY <1>1, <1>5, <1>9, <2>2
    <3>2. Len(start) = 1 /\ start[1] # "sp"
      BY <3>1
    <3>3. PICK more : more = start \o held
      OBVIOUS
    <3>4. start # <<>>
      BY <3>1
    <3>5. more \in Seq(Chars) /\ more # <<>> /\ more[1] = start[1]
      BY <1>6, <1>7, <3>3, <3>4, FirstOfBoth
    <3>6. (more \o end)[1] = more[1]
      BY <1>7, <3>5, FirstOfBoth
    <3> QED
      BY <1>2, <3>2, <3>3, <3>5, <3>6
  <2> QED
    BY <2>1, <2>2
<1>10. ASSUME ~(i < Len(arg) /\ arg[i + 1].joined)
       PROVE  Marked(arg, i)[Len(Marked(arg, i))] # "sp"
  <2>1. PICK all : all = start \o held \o end
    OBVIOUS
  <2>2. CASE p.style = "bare"
    <3>1. end = <<>>
      BY <1>1, <1>4, <1>10, <2>2
    <3>2. all = start \o held
      BY <1>6, <1>7, <2>1, <3>1
    <3>3. held # <<>> /\ held[Len(held)] # "sp"
      BY <1>6, <2>2
    <3>4. all[Len(all)] = held[Len(held)]
      BY <1>6, <1>7, <3>2, <3>3, LastOfBoth
    <3> QED
      BY <1>2, <2>1, <3>3, <3>4
  <2>3. CASE p.style # "bare"
    <3>1. end \in {<<"sq">>, <<"dq">>}
      BY <1>1, <1>5, <1>10, <2>3
    <3>2. Len(end) = 1 /\ end[1] # "sp"
      BY <3>1
    <3>3. PICK more : more = start \o held
      OBVIOUS
    <3>4. more \in Seq(Chars) /\ all = more \o end
      BY <1>6, <1>7, <2>1, <3>3
    <3>5. end # <<>>
      BY <3>1
    <3>6. all[Len(all)] = end[Len(end)]
      BY <1>7, <3>4, <3>5, LastOfBoth
    <3> QED
      BY <1>2, <2>1, <3>2, <3>6
  <2> QED
    BY <2>2, <2>3
<1> QED
  BY <1>8, <1>9, <1>10

\* What is written for an argument begins and ends without a space.
LEMMA ArgumentEnds ==
    ASSUME NEW arg \in Seq(Piece), IsArgument(arg)
    PROVE  LET s == FlattenSeq(AllMarked(arg))
           IN  s \in Seq(Chars) /\ s # <<>> /\ s[1] # "sp" /\ s[Len(s)] # "sp"
<1>1. PICK n, at : n = Len(arg) /\ at = AllMarked(arg)
  OBVIOUS
<1>2. /\ at \in Seq(Seq(Chars)) /\ Len(at) = n /\ \A i \in 1..n : at[i] = Marked(arg, i)
  BY <1>1, CharactersAre
<1>3. /\ n \in Nat \ {0} /\ \A i \in 1..n : IsPiece(arg[i]) /\ ~arg[1].joined
  BY <1>1, ArgumentPieces
<1>4. 1 \in 1..n /\ n \in 1..n /\ ~(n < Len(arg))
  BY <1>1, <1>3
<1>5. at[1] # <<>> /\ at[1][1] # "sp"
  BY <1>2, <1>3, <1>4, MarkedEnds
<1>6. at[n] # <<>> /\ at[n][Len(at[n])] # "sp"
  BY <1>2, <1>3, <1>4, MarkedEnds
<1>7. /\ FlattenSeq(at) \in Seq(Chars) /\ FlattenSeq(at) # <<>>
      /\ FlattenSeq(at)[1] = at[1][1]
      /\ FlattenSeq(at)[Len(FlattenSeq(at))] = at[n][Len(at[n])]
  BY <1>2, <1>3, <1>5, <1>6, FlatEnds
<1> QED
  BY <1>1, <1>5, <1>6, <1>7

\* The arguments an author writes, with their variables in them; those of
\* nothing are dropped.
ArgumentOf(arg) == FlattenSeq(Characters(arg))
IfAny(s, x) == IF s = <<>> THEN <<>> ELSE <<x>>
Kept(args) == [n \in 1..Len(args) |-> IfAny(ArgumentOf(args[n]), ArgumentOf(args[n]))]
Arguments(args) == FlattenSeq(Kept(args))
MarkedArguments(args) == [n \in 1..Len(args) |-> MarkedArgument(args, n)]
Space(n) == IF n = 1 THEN <<>> ELSE <<"sp">>

LEMMA ArgumentIs ==
    ASSUME NEW arg \in Seq(Piece), IsArgument(arg)
    PROVE  ArgumentOf(arg) \in Seq(Chars)
<1>1. PICK is : is = Characters(arg)
  OBVIOUS
<1>2. is \in Seq(Seq(Chars))
  BY <1>1, CharactersAre
<1>3. FlattenSeq(is) \in Seq(Chars)
  BY <1>2, FlattenedIsSeq, Zenon
<1> QED
  BY <1>1, <1>3 DEF ArgumentOf

\* None or one.
LEMMA IfAnyIs ==
    ASSUME NEW X, NEW s, NEW x \in X
    PROVE  IfAny(s, x) \in Seq(X)
BY DEF IfAny

LEMMA SpaceIs == ASSUME NEW n PROVE Space(n) \in Seq(Chars) /\ Space(1) = <<>>
<1>1. "sp" \in Chars
  BY DEF Chars
<1>2. <<>> \in Seq(Chars) /\ <<"sp">> \in Seq(Chars)
  BY <1>1
<1> QED
  BY <1>2 DEF Space

LEMMA PartIs ==
    ASSUME NEW args, AreArguments(args), NEW n \in 1..Len(args)
    PROVE  /\ args[n] \in Seq(Piece) /\ IsArgument(args[n])
           /\ MarkedArgument(args, n) = Space(n) \o FlattenSeq(AllMarked(args[n]))
           /\ FlattenSeq(AllMarked(args[n])) \in Seq(Chars)
           /\ MarkedArgument(args, n) \in Seq(Chars)
<1>1. args[n] \in Seq(Piece) /\ IsArgument(args[n])
  BY DEF AreArguments
<1>2. MarkedArgument(args, n) = Space(n) \o FlattenSeq(AllMarked(args[n]))
  BY Zenon DEF MarkedArgument, Space, AllMarked
<1>3. FlattenSeq(AllMarked(args[n])) \in Seq(Chars)
  BY <1>1, ArgumentEnds
<1>4. Space(n) \in Seq(Chars)
  BY SpaceIs
<1>5. Space(n) \o FlattenSeq(AllMarked(args[n])) \in Seq(Chars)
  BY <1>3, <1>4
<1> QED
  BY <1>1, <1>2, <1>3, <1>5

LEMMA PartsAre ==
    ASSUME NEW args, AreArguments(args)
    PROVE  /\ Len(args) \in Nat \ {0}
           /\ MarkedArguments(args) \in Seq(Seq(Chars)) /\ Len(MarkedArguments(args)) = Len(args)
           /\ Kept(args) \in Seq(Seq(Seq(Chars))) /\ Len(Kept(args)) = Len(args)
           /\ \A n \in 1..Len(args) :
                 /\ MarkedArguments(args)[n] = MarkedArgument(args, n)
                 /\ ArgumentOf(args[n]) \in Seq(Chars)
                 /\ Kept(args)[n] = IfAny(ArgumentOf(args[n]), ArgumentOf(args[n]))
           /\ LineOf(args) = FlattenSeq(MarkedArguments(args))
<1>1. Len(args) \in Nat \ {0}
  BY DEF AreArguments
<1>2. ASSUME NEW n \in 1..Len(args)
      PROVE  /\ MarkedArgument(args, n) \in Seq(Chars) /\ ArgumentOf(args[n]) \in Seq(Chars)
             /\ IfAny(ArgumentOf(args[n]), ArgumentOf(args[n])) \in Seq(Seq(Chars))
  <2>1. MarkedArgument(args, n) \in Seq(Chars) /\ ArgumentOf(args[n]) \in Seq(Chars)
    BY PartIs, ArgumentIs
  <2> QED
    BY <2>1, IfAnyIs, Zenon
<1>3. /\ MarkedArguments(args) \in [1..Len(args) -> Seq(Chars)]
      /\ Kept(args) \in [1..Len(args) -> Seq(Seq(Chars))]
  BY <1>2 DEF MarkedArguments, Kept
<1>4. \A n \in 1..Len(args) : /\ MarkedArguments(args)[n] = MarkedArgument(args, n)
                              /\ Kept(args)[n] = IfAny(ArgumentOf(args[n]), ArgumentOf(args[n]))
  BY DEF MarkedArguments, Kept
<1>5. LineOf(args) = FlattenSeq(MarkedArguments(args))
  BY Zenon DEF LineOf, MarkedArguments
<1>6. /\ MarkedArguments(args) \in Seq(Seq(Chars)) /\ Len(MarkedArguments(args)) = Len(args)
      /\ Kept(args) \in Seq(Seq(Seq(Chars))) /\ Len(Kept(args)) = Len(args)
  BY <1>1, <1>3, MapIsSeq
<1> QED
  BY <1>1, <1>2, <1>4, <1>5, <1>6

\* At a space the argument before it is kept, if there is any of it.
LEMMA SpaceKeeps ==
    ASSUME NEW us \in Seq(Seq(Chars)), NEW cur \in Seq(Chars)
    PROVE  OneChar("tokenize", Tokens(us, cur, "normal"), "sp") =
               Tokens(us \o IfAny(cur, cur), <<>>, "normal")
<1>1. CASE cur = <<>>
  <2>1. us \o <<>> = us
    OBVIOUS
  <2>2. OneChar("tokenize", Tokens(us, cur, "normal"), "sp") = Tokens(us, cur, "normal")
    BY <1>1 DEF OneChar, Token, Tokens
  <2> QED
    BY <1>1, <2>1, <2>2 DEF IfAny
<1>2. CASE cur # <<>>
  <2>1. us \o <<cur>> = Append(us, cur)
    OBVIOUS
  <2>2. OneChar("tokenize", Tokens(us, cur, "normal"), "sp") = Tokens(Append(us, cur), <<>>, "normal")
    BY <1>2 DEF OneChar, Token, Tokens
  <2> QED
    BY <1>2, <2>1, <2>2 DEF IfAny
<1> QED
  BY <1>1, <1>2

\* A line is split where its author ended an argument.
LEMMA TokenizeLine ==
    ASSUME NEW args, AreArguments(args)
    PROVE  Tokenize(LineOf(args)) = Arguments(args)
<1>1. PICK n, at, is : n = Len(args) /\ at = MarkedArguments(args) /\ is = Kept(args)
  OBVIOUS
<1>2. /\ n \in Nat \ {0} /\ at \in Seq(Seq(Chars)) /\ Len(at) = n
      /\ is \in Seq(Seq(Seq(Chars))) /\ Len(is) = n
      /\ \A i \in 1..n : /\ at[i] = MarkedArgument(args, i)
                         /\ ArgumentOf(args[i]) \in Seq(Chars)
                         /\ is[i] = IfAny(ArgumentOf(args[i]), ArgumentOf(args[i]))
      /\ LineOf(args) = FlattenSeq(at)
  BY <1>1, PartsAre
<1> DEFINE start == Tokens(<<>>, <<>>, "normal")
           upto(i) == Tokens(Flat(is)[i - 1], ArgumentOf(args[i]), "normal")
           st == [i \in 0..n |-> IF i = 0 THEN start ELSE upto(i)]
<1>3. \A i \in 0..n : st[i] = IF i = 0 THEN start ELSE upto(i)
  OBVIOUS
<1> HIDE DEF st
<1>4. ASSUME NEW i \in 1..n PROVE Run("tokenize", st[i - 1], at[i], st[i])
  <2>1. /\ args[i] \in Seq(Piece) /\ IsArgument(args[i])
        /\ MarkedArgument(args, i) = Space(i) \o FlattenSeq(AllMarked(args[i]))
        /\ FlattenSeq(AllMarked(args[i])) \in Seq(Chars)
    BY <1>1, PartIs
  <2>2. PICK ts : ts = Flat(is)[i - 1]
    OBVIOUS
  <2>3. Run("tokenize", st[i - 1], Space(i), Tokens(ts, <<>>, "normal"))
    <3>1. CASE i = 1
      <4>1. st[i - 1] = start /\ ts = <<>> /\ Space(i) = <<>>
        <5>1. 1 - 1 = 0 /\ 0 \in 0..n
          BY <1>2
        <5>2. Flat(is)[0] = <<>>
          BY <1>2, FlatStarts, Zenon
        <5> QED
          BY <1>3, <2>2, <3>1, <5>1, <5>2, SpaceIs
      <4>2. Run("tokenize", start, <<>>, start)
        BY RunOverNothing, Zenon
      <4> QED
        BY <4>1, <4>2
    <3>2. CASE i # 1
      <4>1. /\ i - 1 \in 0..n /\ i - 1 # 0 /\ i - 1 \in 1..n
            /\ i - 1 \in 1..Len(is) /\ i - 1 - 1 \in 0..Len(is)
        BY <1>2, <3>2
      <4>2. PICK us, cur : us = Flat(is)[i - 1 - 1] /\ cur = ArgumentOf(args[i - 1])
        OBVIOUS
      <4>3. st[i - 1] = Tokens(us, cur, "normal") /\ is[i - 1] = IfAny(cur, cur)
        BY <1>2, <1>3, <4>1, <4>2
      <4>4. us \in Seq(Seq(Chars)) /\ cur \in Seq(Chars)
        <5>1. Flat(is)[i - 1 - 1] \in Seq(Seq(Chars))
          BY <1>2, <4>1, FlatIsSeq, Zenon
        <5> QED
          BY <1>2, <4>1, <4>2, <5>1
      <4>5. ts = us \o IfAny(cur, cur)
        <5>1. Flat(is)[i - 1] = Flat(is)[i - 1 - 1] \o is[i - 1]
          BY <1>2, <4>1, FlatGoesOn, Zenon
        <5> QED
          BY <2>2, <4>2, <4>3, <5>1
      <4>6. OneChar("tokenize", Tokens(us, cur, "normal"), "sp") = Tokens(ts, <<>>, "normal")
        BY <4>4, <4>5, SpaceKeeps
      <4>7. Run("tokenize", Tokens(us, cur, "normal"), <<"sp">>,
                OneChar("tokenize", Tokens(us, cur, "normal"), "sp"))
        BY RunOverOne, Zenon
      <4>8. Space(i) = <<"sp">>
        BY <3>2 DEF Space
      <4> QED
        BY <4>3, <4>6, <4>7, <4>8
    <3> QED
      BY <3>1, <3>2
  <2>4. Run("tokenize", Tokens(ts, <<>>, "normal"), FlattenSeq(AllMarked(args[i])),
            Tokens(ts, FlattenSeq(Characters(args[i])), "normal"))
    BY <2>1, ArgumentRun, Zenon
  <2>5. st[i] = Tokens(ts, FlattenSeq(Characters(args[i])), "normal")
    <3>1. i \in 0..n /\ i # 0
      OBVIOUS
    <3> QED
      BY <1>2, <1>3, <2>2, <3>1 DEF ArgumentOf
  <2>6. Space(i) \in Seq(Chars)
    BY SpaceIs
  <2>7. Run("tokenize", st[i - 1], Space(i) \o FlattenSeq(AllMarked(args[i])), st[i])
    BY <2>1, <2>3, <2>4, <2>5, <2>6, RunOverBoth
  <2> QED
    BY <1>2, <2>1, <2>7
<1>5. Run("tokenize", st[0], FlattenSeq(at), st[n])
  BY <1>2, <1>4, RunOverParts
<1>6. PICK ts, cur : ts = Flat(is)[n - 1] /\ cur = ArgumentOf(args[n])
  OBVIOUS
<1>7. st[0] = Tokens(<<>>, <<>>, "normal") /\ st[n] = Tokens(ts, cur, "normal")
  <2>1. 0 \in 0..n /\ n \in 0..n /\ n # 0 /\ n \in 1..n
    BY <1>2
  <2> QED
    BY <1>2, <1>3, <1>6, <2>1
<1>8. Len(FlattenSeq(at)) \in Nat
  <2>1. FlattenSeq(at) \in Seq(Chars)
    BY <1>2, FlattenedIsSeq, Zenon
  <2> QED
    BY <2>1
<1>9. Tokenize(FlattenSeq(at)) = IF cur = <<>> THEN ts ELSE Append(ts, cur)
  BY <1>5, <1>7, <1>8, TokenizeIs
<1>10. FlattenSeq(is) = ts \o IfAny(cur, cur)
  <2>1. n \in 1..Len(is) /\ n \in 1..n
    BY <1>2
  <2>2. Flat(is)[n] = Flat(is)[n - 1] \o is[n]
    BY <1>2, <2>1, FlatGoesOn, Zenon
  <2>3. FlattenSeq(is) = Flat(is)[n]
    BY <1>2, FlattenIsFlat
  <2> QED
    BY <1>2, <1>6, <2>1, <2>2, <2>3
<1>11. ts \in Seq(Seq(Chars))
  <2>1. n - 1 \in 0..Len(is)
    BY <1>2
  <2>2. Flat(is)[n - 1] \in Seq(Seq(Chars))
    BY <1>2, <2>1, FlatIsSeq, Zenon
  <2> QED
    BY <1>6, <2>2
<1>12. Tokenize(FlattenSeq(at)) = FlattenSeq(is)
  <2>1. CASE cur = <<>>
    <3>1. ts \o <<>> = ts
      BY <1>11
    <3> QED
      BY <1>9, <1>10, <2>1, <3>1 DEF IfAny
  <2>2. CASE cur # <<>>
    <3>1. ts \o <<cur>> = Append(ts, cur)
      BY <1>11
    <3> QED
      BY <1>9, <1>10, <2>2, <3>1 DEF IfAny
  <2> QED
    BY <2>1, <2>2
<1> QED
  BY <1>1, <1>2, <1>12 DEF Arguments

\* A set of numbers up to one in it has that for its greatest.
LEMMA MaxIsLast ==
    ASSUME NEW S, NEW n \in S, S \subseteq Nat, \A x \in S : x <= n
    PROVE  Max(S) = n
<1>1. \A x \in S : (\A y \in S : x >= y) => x = n
  OBVIOUS
<1>2. \A y \in S : n >= y
  OBVIOUS
<1> QED
  BY <1>1, <1>2 DEF Max

LEMMA MinIsFirst ==
    ASSUME NEW S, NEW n \in S, S \subseteq Nat, \A x \in S : n <= x
    PROVE  Min(S) = n
<1>1. \A x \in S : (\A y \in S : x <= y) => x = n
  OBVIOUS
<1>2. \A y \in S : n <= y
  OBVIOUS
<1> QED
  BY <1>1, <1>2 DEF Min

LEMMA TrimNothing ==
    ASSUME NEW X, NEW s \in Seq(X), s # <<>>, s[1] # "sp", s[Len(s)] # "sp"
    PROVE  Trim(s) = s
<1> DEFINE solid == {i \in DOMAIN s : s[i] # "sp"}
           n == Len(s)
<1>1. n \in Nat \ {0} /\ DOMAIN s = 1..n
  OBVIOUS
<1>2. 1 \in solid /\ n \in solid /\ solid \subseteq Nat /\ \A x \in solid : 1 <= x /\ x <= n
  BY <1>1
<1> HIDE DEF solid
<1>3. Min(solid) = 1 /\ Max(solid) = n
  BY <1>2, MinIsFirst, MaxIsLast
<1>4. Trim(s) = IF solid = {} THEN <<>> ELSE SubSeq(s, Min(solid), Max(solid))
  BY Zenon DEF Trim, Stripped, solid
<1>5. Trim(s) = SubSeq(s, 1, n)
  BY <1>2, <1>3, <1>4
<1> QED
  BY <1>1, <1>5

LEMMA TrimLine ==
    ASSUME NEW args, AreArguments(args)
    PROVE  LineOf(args) \in Seq(Chars) /\ LineOf(args) # <<>> /\ Trim(LineOf(args)) = LineOf(args)
<1>1. PICK n, at : n = Len(args) /\ at = MarkedArguments(args)
  OBVIOUS
<1>2. /\ n \in Nat \ {0} /\ at \in Seq(Seq(Chars)) /\ Len(at) = n
      /\ \A i \in 1..n : at[i] = MarkedArgument(args, i)
      /\ LineOf(args) = FlattenSeq(at)
  BY <1>1, PartsAre
<1>3. 1 \in 1..n /\ n \in 1..n
  BY <1>2
<1>4. ASSUME NEW i \in 1..n
      PROVE  /\ at[i] # <<>> /\ at[i][Len(at[i])] # "sp"
             /\ i = 1 => at[i][1] # "sp"
  <2>1. PICK s, t : s = Space(i) /\ t = FlattenSeq(AllMarked(args[i]))
    OBVIOUS
  <2>2. at[i] = s \o t
    BY <1>1, <1>2, <2>1, PartIs
  <2>3. t \in Seq(Chars) /\ t # <<>> /\ t[1] # "sp" /\ t[Len(t)] # "sp"
    BY <1>1, <2>1, PartIs, ArgumentEnds
  <2>4. s \in Seq(Chars) /\ (i = 1 => s = <<>>)
    BY <2>1, SpaceIs
  <2>5. at[i] # <<>> /\ at[i][Len(at[i])] = t[Len(t)]
    BY <2>2, <2>3, <2>4, LastOfBoth
  <2>6. i = 1 => at[i] = t
    BY <2>2, <2>3, <2>4, EmptyBefore
  <2> QED
    BY <2>3, <2>5, <2>6
<1>5. /\ FlattenSeq(at) \in Seq(Chars) /\ FlattenSeq(at) # <<>>
      /\ FlattenSeq(at)[1] = at[1][1]
      /\ FlattenSeq(at)[Len(FlattenSeq(at))] = at[n][Len(at[n])]
  BY <1>2, <1>3, <1>4, FlatEnds
<1>6. FlattenSeq(at)[1] # "sp" /\ FlattenSeq(at)[Len(FlattenSeq(at))] # "sp"
  BY <1>3, <1>4, <1>5
<1>7. Trim(FlattenSeq(at)) = FlattenSeq(at)
  BY <1>5, <1>6, TrimNothing
<1> QED
  BY <1>2, <1>5, <1>7

\* What the scopes hold are texts.
LEMMA LookupIs == ASSUME NEW v, lookup_var(v) # None PROVE lookup_var(v) \in Seq(Chars)
<1> DEFINE scopes == {n \in DOMAIN Scopes : v \in DOMAIN Scopes[n]}
<1>1. lookup_var(v) = IF scopes = {} THEN None ELSE Scopes[Min(scopes)][v]
  BY Zenon DEF lookup_var
<1>2. scopes \in SUBSET Nat
  BY ReaderAssumption
<1>3. \A n \in scopes : Scopes[n][v] \in Seq(Chars)
  BY ReaderAssumption
<1> HIDE DEF scopes
<1>4. scopes # {}
  BY <1>1
<1>5. Min(scopes) \in scopes
  BY <1>2, <1>4, MinIsLeast
<1> QED
  BY <1>1, <1>3, <1>4, <1>5

LEMMA ShortSeqs ==
    ASSUME NEW X, NEW c \in X, NEW d \in X
    PROVE  <<>> \in Seq(X) /\ <<c>> \in Seq(X) /\ <<c, d>> \in Seq(X)
OBVIOUS

LEMMA OneInIt == ASSUME NEW X, NEW s \in Seq(X), Len(s) = 1 PROVE s[1] \in X /\ s = <<s[1]>>
<1>1. s[1] \in X
  OBVIOUS
<1>2. s = <<s[1]>>
  OBVIOUS
<1> QED
  BY <1>1, <1>2

LEMMA LongerIsSeq ==
    ASSUME NEW X, NEW s \in Seq(X)
    PROVE  /\ \A c \in X : Append(s, c) \in Seq(X)
           /\ \A t \in Seq(X) : s \o t \in Seq(X)
OBVIOUS

LEMMA CharSubstituted ==
    ASSUME NEW acc, NEW out \in Seq(Chars), Substitutes(acc, out), NEW c \in Chars, c # "{"
    PROVE  Substitutes(OneChar("substitute", acc, c), Append(out, c))
<1>1. PICK o \in Seq(Chars) : \E var :
          \/ acc = Expands(o, var, "text") /\ out = o
          \/ acc = Expands(o, var, "dollar") /\ out = Append(o, "$")
  BY Zenon DEF Substitutes
<1>2. PICK var :
          \/ acc = Expands(o, var, "text") /\ out = o
          \/ acc = Expands(o, var, "dollar") /\ out = Append(o, "$")
  BY <1>1, Zenon
<1>3. "$" \in Chars
  BY DEF Chars
<1>4. Append(o, "$") \in Seq(Chars) /\ Append(o, c) \in Seq(Chars) /\ Append(Append(o, "$"), c) \in Seq(Chars)
  <2>1. Append(o, "$") \in Seq(Chars)
    BY <1>3, LongerIsSeq, Zenon
  <2> QED
    BY <1>3, <2>1, LongerIsSeq, Zenon
<1>5. CASE acc = Expands(o, var, "text") /\ out = o
  <2>1. CASE c = "$"
    <3>1. OneChar("substitute", acc, c) = Expands(o, var, "dollar")
      BY <1>5, <2>1 DEF OneChar, Substituted, Expands
    <3> QED
      BY <1>5, <2>1, <3>1, Zenon DEF Substitutes
  <2>2. CASE c # "$"
    <3>1. OneChar("substitute", acc, c) = Expands(Append(o, c), var, "text")
      BY <1>5, <2>2 DEF OneChar, Substituted, Expands
    <3> QED
      BY <1>4, <1>5, <3>1, Zenon DEF Substitutes
  <2> QED
    BY <2>1, <2>2
<1>6. CASE acc = Expands(o, var, "dollar") /\ out = Append(o, "$")
  <2>1. CASE c = "$"
    <3>1. OneChar("substitute", acc, c) = Expands(Append(o, "$"), var, "dollar")
      BY <1>6, <2>1 DEF OneChar, Substituted, Expands
    <3> QED
      BY <1>4, <1>6, <2>1, <3>1, Zenon DEF Substitutes
  <2>2. CASE c # "$"
    <3>1. OneChar("substitute", acc, c) = Expands(Append(Append(o, "$"), c), var, "text")
      BY <1>6, <2>2 DEF OneChar, Substituted, Expands
    <3> QED
      BY <1>4, <1>6, <3>1, Zenon DEF Substitutes
  <2> QED
    BY <2>1, <2>2
<1> QED
  BY <1>2, <1>5, <1>6

\* The name of a variable.
LEMMA NameRun ==
    ASSUME NEW name \in Seq(Chars), \A i \in 1..Len(name) : name[i] \in IdentChars, NEW out
    PROVE  Run("substitute", Expands(out, <<>>, "var"), name, Expands(out, name, "var"))
<1> DEFINE n == Len(name)
           at(i) == Expands(out, SubSeq(name, 1, i), "var")
           acc == [i \in 0..n |-> at(i)]
<1>1. n \in Nat /\ 0 \in 0..n /\ n \in 0..n /\ \A i \in 1..n : i \in 0..n /\ i - 1 \in 0..n
  OBVIOUS
<1>2. SubSeq(name, 1, 0) = <<>> /\ SubSeq(name, 1, n) = name
  OBVIOUS
<1>3. \A i \in 1..n : SubSeq(name, 1, i) = Append(SubSeq(name, 1, i - 1), name[i])
  OBVIOUS
<1>4. \A i \in 1..n : name[i] # "}"
  BY DEF IdentChars
<1> HIDE DEF n
<1>5. acc[0] = Expands(out, <<>>, "var") /\ acc[n] = Expands(out, name, "var")
  BY <1>1, <1>2
<1>6. ASSUME NEW i \in 1..n PROVE acc[i] = OneChar("substitute", acc[i - 1], name[i])
  <2>1. acc[i] = at(i) /\ acc[i - 1] = at(i - 1)
    BY <1>1
  <2>2. PICK part, c : part = SubSeq(name, 1, i - 1) /\ c = name[i]
    OBVIOUS
  <2>3. Substituted(Expands(out, part, "var"), c) = Expands(out, Append(part, c), "var")
    BY <1>4, <2>2 DEF Substituted, Expands
  <2> HIDE DEF acc
  <2> QED
    BY <1>3, <2>1, <2>2, <2>3 DEF OneChar
<1> HIDE DEF acc
<1> QED
  BY <1>5, <1>6 DEF Run, n

LEMMA VariableSubstituted ==
    ASSUME NEW acc, NEW out \in Seq(Chars), Substitutes(acc, out),
           NEW s \in Seq(Chars), IsVariable(s)
    PROVE  \E end : /\ Run("substitute", acc, s, end)
                    /\ Substitutes(end, out \o lookup_var(VariableName(s)))
<1>1. PICK name, value : name = VariableName(s) /\ value = lookup_var(name)
  OBVIOUS
<1>2. /\ name \in Seq(Chars) /\ name # <<>> /\ \A i \in 1..Len(name) : name[i] \in IdentChars
      /\ value # None /\ s = <<"$", "{">> \o (name \o <<"}">>)
  BY <1>1, VariableIs
<1>3. value \in Seq(Chars) /\ out \o value \in Seq(Chars)
  <2>1. value \in Seq(Chars)
    BY <1>1, <1>2, LookupIs
  <2> QED
    BY <2>1
<1>4. PICK o \in Seq(Chars) : \E var :
          \/ acc = Expands(o, var, "text") /\ out = o
          \/ acc = Expands(o, var, "dollar") /\ out = Append(o, "$")
  BY Zenon DEF Substitutes
<1>5. PICK var :
          \/ acc = Expands(o, var, "text") /\ out = o
          \/ acc = Expands(o, var, "dollar") /\ out = Append(o, "$")
  BY <1>4, Zenon
<1>6. OneChar("substitute", acc, "$") = Expands(out, var, "dollar")
  <2>1. CASE acc = Expands(o, var, "text") /\ out = o
    BY <2>1 DEF OneChar, Substituted, Expands
  <2>2. CASE acc = Expands(o, var, "dollar") /\ out = Append(o, "$")
    BY <2>2 DEF OneChar, Substituted, Expands
  <2> QED
    BY <1>5, <2>1, <2>2
<1>7. OneChar("substitute", Expands(out, var, "dollar"), "{") = Expands(out, <<>>, "var")
  BY DEF OneChar, Substituted, Expands
<1>8. OneChar("substitute", Expands(out, name, "var"), "}") = Expands(out \o value, name, "text")
  <2>1. ToSet(name) \subseteq IdentChars
    <3>1. name \in Seq(Chars) /\ \A i \in 1..Len(name) : name[i] \in IdentChars
      BY <1>2, Zenon
    <3>2. DOMAIN name = 1..Len(name)
      BY <3>1
    <3> QED
      BY <3>1, <3>2 DEF ToSet
  <2>2. Substituted(Expands(out, name, "var"), "}")
            = [Expands(out, name, "var") EXCEPT !.out = @ \o value, !.mode = "text"]
    BY <1>1, <1>2, <2>1 DEF Substituted, Expands
  <2> QED
    BY <2>2 DEF OneChar, Expands
<1>9. Run("substitute", acc, <<"$", "{">>, Expands(out, <<>>, "var"))
  <2>1. Run("substitute", acc, <<"$", "{">>, OneChar("substitute", OneChar("substitute", acc, "$"), "{"))
    BY RunOverTwo, Zenon
  <2> QED
    BY <1>6, <1>7, <2>1
<1>10. Run("substitute", Expands(out, <<>>, "var"), name, Expands(out, name, "var"))
  BY <1>2, NameRun, Zenon
<1>11. Run("substitute", Expands(out, name, "var"), <<"}">>, Expands(out \o value, name, "text"))
  <2>1. Run("substitute", Expands(out, name, "var"), <<"}">>,
            OneChar("substitute", Expands(out, name, "var"), "}"))
    BY RunOverOne, Zenon
  <2> QED
    BY <1>8, <2>1
<1>12. <<"$", "{">> \in Seq(Chars) /\ <<"}">> \in Seq(Chars)
  <2>1. "$" \in Chars /\ "{" \in Chars /\ "}" \in Chars
    BY DEF Chars
  <2> QED
    BY <2>1, ShortSeqs
<1>13. name \o <<"}">> \in Seq(Chars)
  <2>1. name \in Seq(Chars) /\ <<"}">> \in Seq(Chars)
    BY <1>2, <1>12, Zenon
  <2> QED
    BY <2>1, LongerIsSeq, Zenon
<1>14. Run("substitute", Expands(out, <<>>, "var"), name \o <<"}">>, Expands(out \o value, name, "text"))
  BY <1>2, <1>10, <1>11, <1>12, RunOverBoth, Zenon
<1>15. Run("substitute", acc, <<"$", "{">> \o (name \o <<"}">>), Expands(out \o value, name, "text"))
  BY <1>9, <1>12, <1>13, <1>14, RunOverBoth, Zenon
<1>16. Substitutes(Expands(out \o value, name, "text"), out \o value)
  BY <1>3, Zenon DEF Substitutes
<1> QED
  BY <1>1, <1>2, <1>15, <1>16

\* What an author means by a piece, and by an argument.
MeantPieces(arg) == [i \in 1..Len(arg) |-> MeantBy(arg[i].is)]

LEMMA PieceSubstituted ==
    ASSUME NEW p, IsPiece(p), NEW acc, NEW out \in Seq(Chars), Substitutes(acc, out)
    PROVE  /\ MeantBy(p.is) \in Seq(Chars)
           /\ \E end : Run("substitute", acc, p.is, end) /\ Substitutes(end, out \o MeantBy(p.is))
<1>1. PICK s : s = p.is
  OBVIOUS
<1>2. s \in Seq(Chars)
  BY <1>1, PieceHolds
<1>3. CASE IsVariable(s)
  <2>1. lookup_var(VariableName(s)) # None
    BY <1>2, <1>3, VariableIs
  <2>2. MeantBy(s) = lookup_var(VariableName(s))
    BY <1>3, Zenon DEF MeantBy
  <2>3. lookup_var(VariableName(s)) \in Seq(Chars)
    BY <2>1, LookupIs
  <2>4. \E end : Run("substitute", acc, s, end) /\ Substitutes(end, out \o lookup_var(VariableName(s)))
    BY <1>2, <1>3, VariableSubstituted, Zenon
  <2> QED
    BY <1>1, <2>2, <2>3, <2>4, Zenon
<1>4. CASE ~IsVariable(s) /\ s # <<>>
  <2>1. Len(s) = 1 /\ s # <<"{">>
    BY <1>1, <1>4 DEF IsPiece
  <2>2. PICK c \in Chars : s = <<c>> /\ c # "{"
    <3>1. s[1] \in Chars /\ s = <<s[1]>>
      BY <1>2, <2>1, OneInIt
    <3> QED
      BY <2>1, <3>1
  <2>3. MeantBy(s) = s
    BY <1>4, Zenon DEF MeantBy
  <2>4. Run("substitute", acc, <<c>>, OneChar("substitute", acc, c))
    BY RunOverOne, Zenon
  <2>5. Substitutes(OneChar("substitute", acc, c), Append(out, c))
    BY <2>2, CharSubstituted, Zenon
  <2>6. Append(out, c) = out \o <<c>>
    OBVIOUS
  <2> QED
    BY <1>1, <1>2, <2>2, <2>3, <2>4, <2>5, <2>6
<1>5. CASE ~IsVariable(s) /\ s = <<>>
  <2>1. MeantBy(s) = <<>>
    BY <1>5, Zenon DEF MeantBy
  <2>2. Run("substitute", acc, <<>>, acc)
    BY RunOverNothing, Zenon
  <2>3. out \o <<>> = out /\ <<>> \in Seq(Chars)
    OBVIOUS
  <2> QED
    BY <1>1, <1>5, <2>1, <2>2, <2>3
<1> QED
  BY <1>3, <1>4, <1>5

\* An argument is substituted piece by piece.
LEMMA SubstituteArgument ==
    ASSUME NEW arg \in Seq(Piece), IsArgument(arg)
    PROVE  /\ substitute(ArgumentOf(arg)) = FlattenSeq(MeantPieces(arg))
           /\ FlattenSeq(MeantPieces(arg)) \in Seq(Chars)
<1>1. PICK n, is, means : n = Len(arg) /\ is = Characters(arg) /\ means = MeantPieces(arg)
  OBVIOUS
<1>2. /\ is \in Seq(Seq(Chars)) /\ Len(is) = n /\ \A i \in 1..n : is[i] = arg[i].is
  BY <1>1, CharactersAre
<1>3. n \in Nat \ {0} /\ \A i \in 1..n : IsPiece(arg[i])
  BY <1>1, ArgumentPieces
<1> DEFINE start == Expands(<<>>, <<>>, "text")
<1>4. <<>> \in Seq(Chars) /\ Substitutes(start, <<>>)
  <2>1. <<>> \in Seq(Chars)
    OBVIOUS
  <2> QED
    BY <2>1, Zenon DEF Substitutes
<1>5. means \in Seq(Seq(Chars)) /\ Len(means) = n /\ \A i \in 1..n : means[i] = MeantBy(arg[i].is)
  <2>1. \A i \in 1..n : MeantBy(arg[i].is) \in Seq(Chars)
    BY <1>3, <1>4, PieceSubstituted, Zenon
  <2>2. means \in [1..n -> Seq(Chars)]
    BY <1>1, <2>1 DEF MeantPieces
  <2>3. \A i \in 1..n : means[i] = MeantBy(arg[i].is)
    BY <1>1 DEF MeantPieces
  <2> QED
    BY <1>3, <2>2, <2>3, MapIsSeq
<1> HIDE DEF start
<1> DEFINE good == {i \in 0..n : \E end : /\ Run("substitute", start, Flat(is)[i], end)
                                          /\ Substitutes(end, Flat(means)[i])}
<1>6. 0 \in good
  <2>1. Flat(is)[0] = <<>> /\ Flat(means)[0] = <<>>
    BY <1>2, <1>5, FlatStarts, Zenon
  <2>2. Run("substitute", start, <<>>, start)
    BY RunOverNothing, Zenon
  <2>3. 0 \in 0..n
    BY <1>3
  <2> QED
    BY <1>4, <2>1, <2>2, <2>3
<1>7. ASSUME NEW i \in 1..n, i - 1 \in good PROVE i \in good
  <2>1. i \in 0..n /\ i - 1 \in 0..Len(is) /\ i - 1 \in 0..Len(means) /\ i \in 1..Len(is) /\ i \in 1..Len(means)
    BY <1>2, <1>3, <1>5
  <2>2. PICK a : Run("substitute", start, Flat(is)[i - 1], a) /\ Substitutes(a, Flat(means)[i - 1])
    BY <1>7
  <2>3. Flat(is)[i] = Flat(is)[i - 1] \o is[i] /\ Flat(means)[i] = Flat(means)[i - 1] \o means[i]
    BY <1>2, <1>5, <2>1, FlatGoesOn, Zenon
  <2>4. Flat(is)[i - 1] \in Seq(Chars) /\ Flat(means)[i - 1] \in Seq(Chars) /\ is[i] \in Seq(Chars)
    BY <1>2, <1>5, <2>1, FlatIsSeq, PartIsSeq, Zenon
  <2>5. IsPiece(arg[i]) /\ is[i] = arg[i].is /\ means[i] = MeantBy(arg[i].is)
    BY <1>2, <1>3, <1>5
  <2>6. PICK b : /\ Run("substitute", a, arg[i].is, b)
                 /\ Substitutes(b, Flat(means)[i - 1] \o MeantBy(arg[i].is))
    BY <2>2, <2>4, <2>5, PieceSubstituted, Zenon
  <2>7. Run("substitute", a, is[i], b) /\ Substitutes(b, Flat(means)[i])
    BY <2>3, <2>5, <2>6
  <2>8. Run("substitute", start, Flat(is)[i - 1] \o is[i], b)
    BY <2>2, <2>4, <2>7, RunOverBoth, Zenon
  <2>9. Run("substitute", start, Flat(is)[i], b)
    BY <2>3, <2>8
  <2> QED
    BY <2>1, <2>7, <2>9
<1> HIDE DEF good
<1>8. n \in good
  <2>1. n \in Nat /\ n \in 0..n
    BY <1>3
  <2> QED
    BY <1>6, <1>7, <2>1, CountingUp, Zenon
<1>9. FlattenSeq(is) = Flat(is)[n] /\ FlattenSeq(means) = Flat(means)[n]
  BY <1>2, <1>5, FlattenIsFlat
<1>10. PICK end : Run("substitute", start, FlattenSeq(is), end) /\ Substitutes(end, FlattenSeq(means))
  BY <1>8, <1>9 DEF good
<1>11. Len(FlattenSeq(is)) \in Nat
  <2>1. ArgumentOf(arg) \in Seq(Chars)
    BY ArgumentIs
  <2> QED
    BY <1>1, <2>1 DEF ArgumentOf
<1>13. FlattenSeq(means) \in Seq(Chars)
  BY <1>5, FlattenedIsSeq, Zenon
<1>12. substitute(FlattenSeq(is)) = FlattenSeq(means)
  BY <1>10, <1>11, SubstituteIs, Zenon DEF start
<1> QED
  BY <1>1, <1>12, <1>13 DEF ArgumentOf

\* What substitute makes of each argument.
Expanded(argv) == [i \in DOMAIN argv |-> substitute(argv[i])]
Means(args) == [n \in 1..Len(args) |-> IfAny(ArgumentOf(args[n]), MeantArgument(args[n]))]

LEMMA ExpandedOneMore ==
    ASSUME NEW s \in Seq(Seq(Chars)), NEW x \in Seq(Chars), NEW m \in Seq(Chars), substitute(x) = m,
           Expanded(s) \in Seq(Seq(Chars))
    PROVE  Expanded(s \o <<x>>) = Expanded(s) \o <<m>>
<1>1. PICK u, v, e : u = s \o <<x>> /\ e = Expanded(s) /\ v = e \o <<m>>
  OBVIOUS
<1>2. /\ u \in Seq(Seq(Chars)) /\ Len(u) = Len(s) + 1 /\ u[Len(s) + 1] = x
      /\ \A i \in 1..Len(s) : u[i] = s[i]
  BY <1>1, OneAfter
<1>3. e \in Seq(Seq(Chars)) /\ Len(e) = Len(s) /\ \A i \in 1..Len(s) : e[i] = substitute(s[i])
  <2>1. DOMAIN e = DOMAIN s /\ \A i \in DOMAIN s : e[i] = substitute(s[i])
    BY <1>1, Zenon DEF Expanded
  <2>2. e \in Seq(Seq(Chars)) /\ DOMAIN s = 1..Len(s) /\ Len(s) \in Nat
    BY <1>1
  <2>3. DOMAIN e = 1..Len(e) /\ Len(e) \in Nat
    BY <2>2
  <2>4. 1..Len(e) = 1..Len(s)
    BY <2>1, <2>2, <2>3
  <2>5. Len(e) = Len(s)
    <3>1. PICK k, l : k = Len(e) /\ l = Len(s)
      OBVIOUS
    <3>2. k \in Nat /\ l \in Nat /\ 1..k = 1..l
      BY <2>2, <2>3, <2>4, <3>1
    <3>3. k = l
      <4>1. (k = 0 \/ k \in 1..k) /\ (l = 0 \/ l \in 1..l)
        BY <3>2
      <4>2. (k = 0 \/ k <= l) /\ (l = 0 \/ l <= k)
        BY <3>2, <4>1
      <4> QED
        BY <3>2, <4>2
    <3> QED
      BY <3>1, <3>3
  <2> QED
    BY <2>1, <2>2, <2>5
<1>4. /\ v \in Seq(Seq(Chars)) /\ Len(v) = Len(e) + 1 /\ v[Len(e) + 1] = m
      /\ \A i \in 1..Len(e) : v[i] = e[i]
  <2>1. HasOneMore(Seq(Chars), e, m, v)
    BY <1>1, <1>3, OneMoreAfter, Zenon
  <2> QED
    BY <2>1 DEF HasOneMore
<1>5. Len(s) \in Nat /\ DOMAIN u = 1..(Len(s) + 1) /\ DOMAIN v = 1..(Len(s) + 1)
  BY <1>2, <1>3, <1>4
<1>6. ASSUME NEW i \in 1..(Len(s) + 1) PROVE substitute(u[i]) = v[i]
  <2>1. i \in 1..Len(s) \/ i = Len(s) + 1
    BY <1>5
  <2> QED
    BY <1>2, <1>3, <1>4, <2>1
<1>7. v = [i \in 1..(Len(s) + 1) |-> v[i]]
  BY <1>4, <1>5
<1>8. Expanded(u) = v
  BY <1>5, <1>6, <1>7, Zenon DEF Expanded
<1> QED
  BY <1>1, <1>8

\* Each argument that is kept is replaced by what is meant by it.
LEMMA ExpandedArguments ==
    ASSUME NEW args, AreArguments(args)
    PROVE  Expanded(Arguments(args)) = Meant(args)
<1>1. PICK n, is, means : n = Len(args) /\ is = Kept(args) /\ means = Means(args)
  OBVIOUS
<1>2. /\ n \in Nat \ {0} /\ is \in Seq(Seq(Seq(Chars))) /\ Len(is) = n
      /\ \A i \in 1..n : /\ ArgumentOf(args[i]) \in Seq(Chars)
                         /\ is[i] = IfAny(ArgumentOf(args[i]), ArgumentOf(args[i]))
  BY <1>1, PartsAre
<1>3. \A i \in 1..n : /\ MeantArgument(args[i]) \in Seq(Chars)
                      /\ substitute(ArgumentOf(args[i])) = MeantArgument(args[i])
  <2> SUFFICES ASSUME NEW i \in 1..n
               PROVE  /\ MeantArgument(args[i]) \in Seq(Chars)
                      /\ substitute(ArgumentOf(args[i])) = MeantArgument(args[i])
    OBVIOUS
  <2>1. args[i] \in Seq(Piece) /\ IsArgument(args[i])
    BY <1>1, PartIs
  <2>2. MeantArgument(args[i]) = FlattenSeq(MeantPieces(args[i]))
    BY Zenon DEF MeantArgument, MeantPieces
  <2> QED
    BY <2>1, <2>2, SubstituteArgument
<1>4. /\ means \in Seq(Seq(Seq(Chars))) /\ Len(means) = n
      /\ \A i \in 1..n : means[i] = IfAny(ArgumentOf(args[i]), MeantArgument(args[i]))
  <2>1. \A i \in 1..n : IfAny(ArgumentOf(args[i]), MeantArgument(args[i])) \in Seq(Seq(Chars))
    BY <1>3, IfAnyIs, Zenon
  <2>2. means \in [1..n -> Seq(Seq(Chars))]
    BY <1>1, <2>1 DEF Means
  <2>3. \A i \in 1..n : means[i] = IfAny(ArgumentOf(args[i]), MeantArgument(args[i]))
    BY <1>1 DEF Means
  <2> QED
    BY <1>2, <2>2, <2>3, MapIsSeq
<1> DEFINE good == {i \in 0..n : Expanded(Flat(is)[i]) = Flat(means)[i]}
<1>5. 0 \in good
  <2>1. Flat(is)[0] = <<>> /\ Flat(means)[0] = <<>>
    BY <1>2, <1>4, FlatStarts, Zenon
  <2>2. Expanded(<<>>) = <<>>
    BY DEF Expanded
  <2> QED
    BY <1>2, <2>1, <2>2
<1>6. ASSUME NEW i \in 1..n, i - 1 \in good PROVE i \in good
  <2>1. i \in 0..n /\ i - 1 \in 0..Len(is) /\ i - 1 \in 0..Len(means) /\ i \in 1..Len(is) /\ i \in 1..Len(means)
    BY <1>2, <1>4
  <2>2. PICK s, t, x, m : /\ s = Flat(is)[i - 1] /\ t = Flat(means)[i - 1]
                          /\ x = ArgumentOf(args[i]) /\ m = MeantArgument(args[i])
    OBVIOUS
  <2>3. Flat(is)[i] = s \o IfAny(x, x) /\ Flat(means)[i] = t \o IfAny(x, m)
    <3>1. Flat(is)[i] = Flat(is)[i - 1] \o is[i] /\ Flat(means)[i] = Flat(means)[i - 1] \o means[i]
      BY <1>2, <1>4, <2>1, FlatGoesOn, Zenon
    <3> QED
      BY <1>2, <1>4, <2>2, <3>1
  <2>4. s \in Seq(Seq(Chars)) /\ t \in Seq(Seq(Chars)) /\ x \in Seq(Chars) /\ m \in Seq(Chars)
    <3>1. Flat(is)[i - 1] \in Seq(Seq(Chars)) /\ Flat(means)[i - 1] \in Seq(Seq(Chars))
      BY <1>2, <1>4, <2>1, FlatIsSeq, Zenon
    <3> QED
      BY <1>2, <1>3, <2>2, <3>1
  <2>5. Expanded(s) = t /\ substitute(x) = m
    BY <1>3, <1>6, <2>2
  <2>6. Expanded(s \o IfAny(x, x)) = t \o IfAny(x, m)
    <3>1. CASE x = <<>>
      <4>1. s \o <<>> = s /\ t \o <<>> = t
        BY <2>4
      <4> QED
        BY <2>5, <3>1, <4>1 DEF IfAny
    <3>2. CASE x # <<>>
      <4>1. Expanded(s \o <<x>>) = Expanded(s) \o <<m>>
        BY <2>4, <2>5, ExpandedOneMore
      <4> QED
        BY <2>5, <3>2, <4>1 DEF IfAny
    <3> QED
      BY <3>1, <3>2
  <2> QED
    BY <2>1, <2>3, <2>6
<1> HIDE DEF good
<1>7. n \in good
  <2>1. n \in Nat /\ n \in 0..n
    BY <1>2
  <2> QED
    BY <1>5, <1>6, <2>1, CountingUp, Zenon
<1>8. FlattenSeq(is) = Flat(is)[n] /\ FlattenSeq(means) = Flat(means)[n]
  BY <1>2, <1>4, FlattenIsFlat
<1>9. Meant(args) = FlattenSeq(Means(args))
  BY Zenon DEF Meant, Means, IfAny, ArgumentOf, Characters, Unmarked
<1> QED
  BY <1>1, <1>7, <1>8, <1>9 DEF good, Arguments

\* A line of arguments that are all dropped is no command.
LEMMA NothingIsMeant ==
    ASSUME NEW args, AreArguments(args)
    PROVE  /\ Arguments(args) \in Seq(Seq(Chars))
           /\ Arguments(args) = <<>> <=> Meant(args) = <<>>
<1>1. PICK argv : argv = Arguments(args)
  OBVIOUS
<1>2. argv \in Seq(Seq(Chars))
  <2>1. Kept(args) \in Seq(Seq(Seq(Chars)))
    BY PartsAre
  <2>2. FlattenSeq(Kept(args)) \in Seq(Seq(Chars))
    BY <2>1, FlattenedIsSeq, Zenon
  <2> QED
    BY <1>1, <2>2 DEF Arguments
<1>3. Meant(args) = Expanded(argv)
  BY <1>1, ExpandedArguments
<1>4. DOMAIN Expanded(argv) = DOMAIN argv
  BY DEF Expanded
<1>5. ASSUME argv = <<>> PROVE Expanded(argv) = <<>>
  BY <1>5 DEF Expanded
<1>6. ASSUME Expanded(argv) = <<>> PROVE argv = <<>>
  <2>1. DOMAIN argv = {}
    BY <1>4, <1>6
  <2> QED
    BY <1>2, <2>1
<1> QED
  BY <1>1, <1>2, <1>3, <1>5, <1>6

\* Every line is what its author wrote, and every step that is the command of
\* one has the arguments that the line is split into.
Splits(r, s) ==
    /\ IsWritten(s.raw)
    /\ s.raw.args # None /\ ~(r = "legacy" /\ Markers(s.raw.text) # {}) =>
           s.kind = "command" /\ s.argv = Tokenize(s.raw.text)
ArgsInv ==
    /\ \A f \in Files : \A i \in DOMAIN disk[f] : IsWritten(disk[f][i])
    /\ \A i \in DOMAIN steps : Splits(reader, steps[i])

LEMMA WrittenLineHas ==
    ASSUME NEW line \in ScriptLine, IsWritten(line), line.args # None
    PROVE  /\ AreArguments(line.args) /\ line.text = LineOf(line.args)
           /\ line.text[1] \notin {"#", "@"}
<1>1. line.args \in Seq(Seq(Piece))
  BY DEF ScriptLine
<1>2. /\ line.args # <<>> /\ \A n \in DOMAIN line.args : IsArgument(line.args[n])
      /\ line.text = LineOf(line.args) /\ line.text[1] \notin {"#", "@"}
  BY Zenon DEF IsWritten
<1>3. DOMAIN line.args = 1..Len(line.args)
  BY <1>1
<1> QED
  BY <1>1, <1>2, <1>3 DEF AreArguments

\* A line of arguments is read as the command it is.
LEMMA WrittenLineSplits ==
    ASSUME NEW r \in Readers, NEW lines, NEW i, lines[i] \in ScriptLine, IsWritten(lines[i]),
           lines[i].args # None, ~(r = "legacy" /\ Markers(lines[i].text) # {})
    PROVE  /\ Parsed(r, lines, i).kind = "error" <=> Meant(lines[i].args) = <<>>
           /\ Parsed(r, lines, i).kind # "error" =>
                 /\ Parsed(r, lines, i).kind = "command"
                 /\ Parsed(r, lines, i).argv = Tokenize(lines[i].text)
<1>1. PICK args, s : args = lines[i].args /\ s = lines[i].text
  OBVIOUS
<1>2. AreArguments(args) /\ s = LineOf(args) /\ s[1] \notin {"#", "@"}
  BY <1>1, WrittenLineHas
<1>3. Trim(s) = s /\ Tokenize(s) = Arguments(args)
  BY <1>2, TrimLine, TokenizeLine
<1>4. Tokenize(s) = <<>> <=> Meant(args) = <<>>
  BY <1>2, <1>3, NothingIsMeant
<1>5. ~IsDirective(r, lines[i])
  BY <1>1, <1>2, <1>3, Zenon DEF IsDirective, Starts
<1>6. Parsed(r, lines, i) = Command(s, i)
  <2>1. CASE r = "legacy"
    <3>1. Parsed(r, lines, i) = parse_command_line(lines, i)
      BY <1>5, <2>1, Zenon DEF Parsed
    <3>2. Markers(s) = {}
      BY <1>1, <2>1
    <3> QED
      BY <1>1, <1>3, <3>1, <3>2, Zenon DEF parse_command_line
  <2>2. CASE r # "legacy"
    BY <1>1, <1>3, <1>5, <2>2, Zenon DEF Parsed
  <2> QED
    BY <2>1, <2>2
<1>7. CASE Tokenize(s) = <<>>
  <2>1. Command(s, i) = Failed
    BY <1>7, Zenon DEF Command
  <2>2. Failed.kind = "error"
    BY DEF Failed
  <2> QED
    BY <1>1, <1>4, <1>6, <1>7, <2>1, <2>2
<1>8. CASE Tokenize(s) # <<>>
  <2>1. Command(s, i) = [kind |-> "command", argv |-> Tokenize(s), body |-> <<>>, next |-> i + 1]
    BY <1>8, Zenon DEF Command
  <2>2. Command(s, i).kind = "command" /\ Command(s, i).argv = Tokenize(s) /\ "command" # "error"
    BY <2>1
  <2> QED
    BY <1>1, <1>4, <1>6, <1>8, <2>2
<1> QED
  BY <1>7, <1>8

LEMMA InitArgsInv == ASSUME Init PROVE ArgsInv
BY WritingAssumption DEF Init, ArgsInv

LEMMA LineIsWritten == ASSUME ReaderInv, ArgsInv, AtLine PROVE IsWritten(Line)
<1>1. /\ Len(frames) \in DOMAIN frames /\ Frame = frames[Len(frames)]
      /\ Frame.path \in Paths /\ Lines \in Seq(ScriptLine) /\ Frame.next \in 1..Len(Lines)
  BY FrameHasLine
<1>2. Target[Frame.path] \in Files
  BY <1>1, ReaderAssumption DEF ReaderInv
<1>3. Frame.next \in DOMAIN Lines
  BY <1>1
<1> QED
  BY <1>2, <1>3 DEF ArgsInv, Lines, Line

LEMMA ArgsReadStep == ASSUME ReaderInv, reader \in Readers, ArgsInv, step_line PROVE ArgsInv'
<1> DEFINE parsed == Parsed(reader, Lines, Frame.next)
           step == StepOf(Frame.path, Frame.next, Line, parsed)
<1>1. outcome = "reading" /\ AtLine /\ UNCHANGED <<reader, disk>>
  BY DEF step_line, AtLine
<1>2. CASE UNCHANGED steps
  BY <1>1, <1>2 DEF ArgsInv
<1>3. CASE steps' = Append(steps, step) /\ parsed.kind # "error"
  <2>1. /\ step.raw = Line /\ step.kind = parsed.kind /\ step.argv = parsed.argv
    BY DEF StepOf
  <2>2. /\ Lines \in Seq(ScriptLine) /\ Frame.next \in 1..Len(Lines)
        /\ Line \in ScriptLine /\ Line = Lines[Frame.next]
    BY <1>1, FrameHasLine DEF Line
  <2>4. IsWritten(Line)
    BY <1>1, LineIsWritten
  <2>5. Splits(reader, step)
    <3>1. Line.args # None /\ ~(reader = "legacy" /\ Markers(Line.text) # {}) =>
              parsed.kind = "command" /\ parsed.argv = Tokenize(Line.text)
      BY <1>3, <2>2, <2>4, WrittenLineSplits
    <3> HIDE DEF step, parsed
    <3> QED
      BY <2>1, <2>4, <3>1 DEF Splits
  <2> HIDE DEF step
  <2>6. \A i \in DOMAIN steps' :
           (i \in DOMAIN steps /\ steps'[i] = steps[i]) \/ steps'[i] = step
    <3>1. PICK read : steps \in Seq(read)
      BY DEF ReaderInv, StepsAreLines
    <3>2. steps \in Seq(read \cup {step})
      BY <3>1
    <3>3. /\ steps' \in Seq(read \cup {step}) /\ Len(steps') = Len(steps) + 1
          /\ steps'[Len(steps) + 1] = step
          /\ \A i \in 1..Len(steps) : steps'[i] = steps[i]
      BY <1>3, <3>2, AppendProperties
    <3>4. DOMAIN steps' = 1..(Len(steps) + 1)
      BY <3>3
    <3> QED
      BY <3>3, <3>4, StepsAreSequence
  <2> QED
    BY <1>1, <2>5, <2>6 DEF ArgsInv
<1> QED
  BY <1>2, <1>3 DEF step_line

LEMMA ArgsWritePlan == ASSUME ReaderInv, ArgsInv, write_plan_file PROVE ArgsInv'
<1>1. PICK best \in DOMAIN steps :
         disk' = [disk EXCEPT ![Target[Minimized]] = Contents(SubSeq(steps, 1, best))]
  BY DEF write_plan_file
<1>2. steps' = <<>> /\ UNCHANGED reader
  BY DEF write_plan_file
<1> DEFINE ss == SubSeq(steps, 1, best)
<1>3. DOMAIN ss = 1..best /\ \A i \in 1..best : i \in DOMAIN steps /\ ss[i] = steps[i]
  BY StepsAreSequence
<1> HIDE DEF ss
<1>4. \A i \in DOMAIN Contents(ss) : IsWritten(Contents(ss)[i])
  BY <1>3 DEF Contents, ArgsInv, Splits
<1>5. disk' = [disk EXCEPT ![Target[Minimized]] = Contents(ss)]
  BY <1>1 DEF ss
<1>6. \A f \in Files : disk'[f] = Contents(ss) \/ disk'[f] = disk[f]
  BY <1>5 DEF ReaderInv
<1>7. \A f \in Files : \A i \in DOMAIN disk'[f] : IsWritten(disk'[f][i])
  BY <1>4, <1>6 DEF ArgsInv
<1> QED
  BY <1>2, <1>7 DEF ArgsInv

LEMMA NextArgsInv ==
    ASSUME ReaderInv, reader \in Readers, ArgsInv, [Next]_vars
    PROVE  reader' \in Readers /\ ArgsInv'
<1>1. CASE UNCHANGED <<reader, disk, steps>>
  BY <1>1 DEF ArgsInv
<1>2. CASE step_line
  BY <1>2, ArgsReadStep DEF step_line
<1>3. CASE write_plan_file
  BY <1>3, ArgsWritePlan DEF write_plan_file
<1> QED
  BY <1>1, <1>2, <1>3
     DEF Next, vars, parse_gtest_file, skip_line, include_line, return

LEMMA ArgsAreMeant == ASSUME ReaderInv, reader \in Readers, ArgsInv PROVE ProcessGetsMeantArgs
<1>1. ASSUME NEW i \in DOMAIN steps, IsPlainCommand(steps[i].raw)
      PROVE  LET meant == Meant(steps[i].raw.args)
             IN  /\ steps[i].kind = "command"
                 /\ ProcessArgs(steps[i], FALSE) = meant
                 /\ reader = "legacy" =>
                       ProcessArgs(steps[i], TRUE) =
                           (IF IsUntracedRunner(meant) THEN meant \o TraceArgs ELSE meant)
  <2>1. PICK s, args : s = steps[i] /\ args = s.raw.args
    OBVIOUS
  <2>2. s.raw.args # None /\ ~(reader = "legacy" /\ Markers(s.raw.text) # {})
    BY <1>1, <2>1, Zenon DEF IsPlainCommand
  <2>3. s.kind = "command" /\ s.argv = Tokenize(s.raw.text) /\ IsWritten(s.raw)
    BY <2>1, <2>2 DEF ArgsInv, Splits
  <2>4. s.raw \in ScriptLine
    <3>1. PICK read : steps \in Seq(read) /\ \A t \in read : t.raw \in ScriptLine
      BY DEF ReaderInv, StepsAreLines
    <3>2. steps[i] \in read
      BY <3>1
    <3> QED
      BY <2>1, <3>1, <3>2
  <2>5. AreArguments(args) /\ s.raw.text = LineOf(args)
    BY <2>1, <2>2, <2>3, <2>4, WrittenLineHas
  <2>6. s.argv = Arguments(args)
    BY <2>3, <2>5, TokenizeLine
  <2>7. Expanded(s.argv) = Meant(args)
    BY <2>5, <2>6, ExpandedArguments
  <2>8. \A triaged : ProcessArgs(s, triaged) = maybe_inject_trace(Meant(args), triaged)
    BY <2>7, Zenon DEF ProcessArgs, Expanded
  <2>9. maybe_inject_trace(Meant(args), FALSE) = Meant(args)
    BY Zenon DEF maybe_inject_trace
  <2>10. maybe_inject_trace(Meant(args), TRUE) =
             IF IsUntracedRunner(Meant(args)) THEN Meant(args) \o TraceArgs ELSE Meant(args)
    BY Zenon DEF maybe_inject_trace
  <2> QED
    BY <2>1, <2>3, <2>8, <2>9, <2>10, Zenon
<1>2. ASSUME AtLine, IsPlainCommand(Line)
      PROVE  Parsed(reader, Lines, Frame.next).kind = "error" <=> Meant(Line.args) = <<>>
  <2>1. outcome = "reading"
    BY <1>2 DEF AtLine
  <2>2. /\ Lines \in Seq(ScriptLine) /\ Frame.next \in 1..Len(Lines)
        /\ Line \in ScriptLine /\ Line = Lines[Frame.next]
    BY <1>2, <2>1, FrameHasLine DEF Line
  <2>3. IsWritten(Line)
    BY <1>2, LineIsWritten
  <2>4. Line.args # None /\ ~(reader = "legacy" /\ Markers(Line.text) # {})
    BY <1>2, Zenon DEF IsPlainCommand
  <2> QED
    BY <2>2, <2>3, <2>4, WrittenLineSplits
<1> QED
  BY <1>1, <1>2, Zenon DEF ProcessGetsMeantArgs

\* A process is started with the arguments the author of the script meant,
\* however they are quoted and escaped, each with the value of its variables,
\* neither split nor expanded again: tokenize_command (parse.rs, parser.rs),
\* substitute (substitute.rs) and execute_command (lib.rs), for any line that
\* can be written and any scopes.
THEOREM ArgsAreWhatAuthorWrote == RunSpec => []ProcessGetsMeantArgs
<1>1. RunInit => ReaderInv /\ reader \in Readers /\ ArgsInv
  BY InitReaderInv, InitArgsInv, ReaderAssumption DEF RunInit, Init
<1>2. /\ ReaderInv /\ reader \in Readers /\ ArgsInv /\ [RunNext]_scriptRunVars
      => (ReaderInv /\ reader \in Readers /\ ArgsInv)'
  BY NextReaderInv, NextArgsInv, RunStepIsReaderStep
<1>3. ReaderInv /\ reader \in Readers /\ ArgsInv => ProcessGetsMeantArgs
  BY ArgsAreMeant
<1> QED
  BY <1>1, <1>2, <1>3, PTL DEF RunSpec

-----------------------------------------------------------------------------
(* What an author names is what a check looks at                           *)

\* What the parser of a path has at some point, and the path this stands for.
Parses(segs, cur, in, m) == [segments |-> segs, current |-> cur, inner |-> in, mode |-> m]
ParsesAs(acc, path) ==
    \E segs \in Seq(NodeSteps \cup {AnyIndex}) : \E cur \in Seq(PathChars) : \E in :
        /\ acc = Parses(segs, cur, in, "plain")
        /\ path = IF cur = <<>> THEN segs ELSE Append(segs, KeyStep(cur))

LEMMA KeyCharacter ==
    ASSUME NEW segs, NEW cur, NEW in, NEW c, c \notin {".", "["}
    PROVE  PathStep(Parses(segs, cur, in, "plain"), c) = Parses(segs, Append(cur, c), in, "plain")
BY DEF PathStep, Parses

LEMMA BracketCharacter ==
    ASSUME NEW segs, NEW cur, NEW in, NEW c, c # "]"
    PROVE  PathStep(Parses(segs, cur, in, "bracket"), c) = Parses(segs, cur, Append(in, c), "bracket")
BY DEF PathStep, Parses

LEMMA OtherCharacters ==
    ASSUME NEW segs, NEW cur, NEW in
    PROVE  /\ PathStep(Parses(segs, cur, in, "bracket"), "]") = Closed(Parses(segs, cur, in, "bracket"))
           /\ PathStep(Parses(segs, cur, in, "plain"), ".") = Flushed(Parses(segs, cur, in, "plain"))
           /\ PathStep(Parses(segs, cur, in, "plain"), "[")
                  = [Flushed(Parses(segs, cur, in, "plain")) EXCEPT !.mode = "bracket", !.inner = <<>>]
BY DEF PathStep, Parses

LEMMA FlushedIs ==
    ASSUME NEW segs, NEW cur, NEW in, NEW m
    PROVE  Flushed(Parses(segs, cur, in, m))
               = Parses(IF cur = <<>> THEN segs ELSE Append(segs, KeyStep(cur)), <<>>, in, m)
<1>1. CASE cur = <<>>
  BY <1>1 DEF Flushed, Parses
<1>2. CASE cur # <<>>
  BY <1>2 DEF Flushed, Parses
<1> QED
  BY <1>1, <1>2

\* A key is read as it is, and so is what stands between brackets.
LEMMA KeyRun ==
    ASSUME NEW s \in Seq(PathChars), \A i \in 1..Len(s) : s[i] \notin {".", "["},
           NEW segs, NEW cur \in Seq(PathChars), NEW in
    PROVE  Run("path", Parses(segs, cur, in, "plain"), s, Parses(segs, cur \o s, in, "plain"))
<1> DEFINE n == Len(s)
           at(i) == Parses(segs, cur \o SubSeq(s, 1, i), in, "plain")
           acc == [i \in 0..n |-> at(i)]
<1>1. n \in Nat /\ 0 \in 0..n /\ n \in 0..n /\ \A i \in 1..n : i \in 0..n /\ i - 1 \in 0..n
  OBVIOUS
<1>2. cur \o SubSeq(s, 1, 0) = cur /\ cur \o SubSeq(s, 1, n) = cur \o s
  OBVIOUS
<1>3. \A i \in 1..n : cur \o SubSeq(s, 1, i) = Append(cur \o SubSeq(s, 1, i - 1), s[i])
  OBVIOUS
<1> HIDE DEF n
<1>4. acc[0] = Parses(segs, cur, in, "plain") /\ acc[n] = Parses(segs, cur \o s, in, "plain")
  BY <1>1, <1>2
<1>5. ASSUME NEW i \in 1..n PROVE acc[i] = OneChar("path", acc[i - 1], s[i])
  <2>1. acc[i] = at(i) /\ acc[i - 1] = at(i - 1)
    BY <1>1
  <2>2. PICK part, c : part = cur \o SubSeq(s, 1, i - 1) /\ c = s[i]
    OBVIOUS
  <2>3. PathStep(Parses(segs, part, in, "plain"), c) = Parses(segs, Append(part, c), in, "plain")
    <3>1. c \notin {".", "["}
      BY <2>2 DEF n
    <3> QED
      BY <3>1, KeyCharacter, Zenon
  <2> HIDE DEF acc
  <2> QED
    BY <1>3, <2>1, <2>2, <2>3 DEF OneChar
<1> HIDE DEF acc
<1> QED
  BY <1>4, <1>5 DEF Run, n

LEMMA BracketRun ==
    ASSUME NEW s \in Seq(PathChars), \A i \in 1..Len(s) : s[i] # "]", NEW segs, NEW cur
    PROVE  Run("path", Parses(segs, cur, <<>>, "bracket"), s, Parses(segs, cur, s, "bracket"))
<1> DEFINE n == Len(s)
           at(i) == Parses(segs, cur, SubSeq(s, 1, i), "bracket")
           acc == [i \in 0..n |-> at(i)]
<1>1. n \in Nat /\ 0 \in 0..n /\ n \in 0..n /\ \A i \in 1..n : i \in 0..n /\ i - 1 \in 0..n
  OBVIOUS
<1>2. SubSeq(s, 1, 0) = <<>> /\ SubSeq(s, 1, n) = s
  OBVIOUS
<1>3. \A i \in 1..n : SubSeq(s, 1, i) = Append(SubSeq(s, 1, i - 1), s[i])
  OBVIOUS
<1> HIDE DEF n
<1>4. acc[0] = Parses(segs, cur, <<>>, "bracket") /\ acc[n] = Parses(segs, cur, s, "bracket")
  BY <1>1, <1>2
<1>5. ASSUME NEW i \in 1..n PROVE acc[i] = OneChar("path", acc[i - 1], s[i])
  <2>1. acc[i] = at(i) /\ acc[i - 1] = at(i - 1)
    BY <1>1
  <2>2. PICK part, c : part = SubSeq(s, 1, i - 1) /\ c = s[i]
    OBVIOUS
  <2>3. PathStep(Parses(segs, cur, part, "bracket"), c) = Parses(segs, cur, Append(part, c), "bracket")
    <3>1. c # "]"
      BY <2>2 DEF n
    <3> QED
      BY <3>1, BracketCharacter
  <2> HIDE DEF acc
  <2> QED
    BY <1>3, <2>1, <2>2, <2>3 DEF OneChar
<1> HIDE DEF acc
<1> QED
  BY <1>4, <1>5 DEF Run, n

\* What stands between brackets for a step.
Bracketed(step, in) ==
    /\ in \in Seq(PathChars) /\ \A i \in 1..Len(in) : in[i] # "]"
    /\ \/ step = AnyIndex /\ in = <<"*">>
       \/ in # <<>> /\ ToSet(in) \subseteq Digits /\ step = IndexStep(NumberOf(in))
       \/ \E key \in Seq(PathChars) : step = KeyStep(key) /\ in = <<"dq">> \o (key \o <<"dq">>)

LEMMA BetweenTwo ==
    ASSUME NEW X, NEW s \in Seq(X), NEW c \in X, NEW d \in X, NEW t, t = <<c>> \o (s \o <<d>>)
    PROVE  /\ t \in Seq(X) /\ Len(t) = Len(s) + 2 /\ t[1] = c /\ t[Len(t)] = d
           /\ SubSeq(t, 2, Len(t) - 1) = s
           /\ \A i \in 1..Len(s) : t[i + 1] = s[i]
OBVIOUS

LEMMA ClosedIs ==
    ASSUME NEW segs, NEW cur, NEW step, NEW in, Bracketed(step, in)
    PROVE  Closed(Parses(segs, cur, in, "bracket")) = Parses(Append(segs, step), cur, in, "plain")
<1>1. CASE step = AnyIndex /\ in = <<"*">>
  <2>1. ~IsQuoted(in) /\ Len(in) = 1 /\ in[1] = "*"
    BY <1>1 DEF IsQuoted
  <2>2. ~(in # <<>> /\ ToSet(in) \subseteq Digits)
    <3>1. "*" \in ToSet(in)
      BY <2>1 DEF ToSet
    <3> QED
      BY <3>1 DEF Digits
  <2> QED
    BY <1>1, <2>1, <2>2 DEF Closed, Parses
<1>2. CASE in # <<>> /\ ToSet(in) \subseteq Digits /\ step = IndexStep(NumberOf(in))
  <2>1. in \in Seq(PathChars) /\ 1 \in 1..Len(in)
    BY <1>2 DEF Bracketed
  <2>2. in[1] \in {"0", "1"}
    BY <1>2, <2>1 DEF ToSet, Digits
  <2>3. in # <<"*">> /\ ~IsQuoted(in)
    BY <2>2 DEF IsQuoted
  <2> QED
    BY <1>2, <2>3 DEF Closed, Parses
<1>3. CASE \E key \in Seq(PathChars) : step = KeyStep(key) /\ in = <<"dq">> \o (key \o <<"dq">>)
  <2>1. PICK key \in Seq(PathChars) : step = KeyStep(key) /\ in = <<"dq">> \o (key \o <<"dq">>)
    BY <1>3
  <2>2. /\ in \in Seq(PathChars) /\ Len(in) = Len(key) + 2 /\ in[1] = "dq" /\ in[Len(in)] = "dq"
        /\ SubSeq(in, 2, Len(in) - 1) = key
        /\ \A i \in 1..Len(key) : in[i + 1] = key[i]
    <3>1. "dq" \in PathChars
      BY DEF PathChars
    <3> QED
      BY <2>1, <3>1, BetweenTwo
  <2>3. in # <<"*">> /\ IsQuoted(in)
    BY <2>2 DEF IsQuoted, Last
  <2>4. ~(in # <<>> /\ ToSet(in) \subseteq Digits)
    <3>1. "dq" \in ToSet(in)
      BY <2>2 DEF ToSet
    <3> QED
      BY <3>1 DEF Digits
  <2> QED
    BY <2>1, <2>2, <2>3, <2>4 DEF Closed, Parses
<1> QED
  BY <1>1, <1>2, <1>3 DEF Bracketed

Grouped(s, t, u) == (s \o t) \o u = s \o (t \o u)

LEMMA OnceMore ==
    ASSUME NEW X, NEW s \in Seq(X), NEW t \in Seq(X), NEW u \in Seq(X)
    PROVE  Grouped(s, t, u)
BY DEF Grouped

LEMMA PairIsTwo ==
    ASSUME NEW X, NEW a \in X, NEW b \in X
    PROVE  <<a, b>> = <<a>> \o <<b>>
<1>1. PICK s, u, t : s = <<a>> /\ u = <<b>> /\ t = s \o <<b>>
  OBVIOUS
<1>2. s \in Seq(X) /\ Len(s) = 1 /\ s[1] = a
  BY <1>1
<1>3. HasOneMore(X, s, b, t)
  BY <1>1, <1>2, OneMoreAfter, Zenon
<1>5. t \in Seq(X) /\ Len(t) = 2 /\ t[1] = a /\ t[2] = b
  BY <1>2, <1>3 DEF HasOneMore
<1>6. t = <<a, b>>
  BY <1>5
<1> QED
  BY <1>1, <1>6

LEMMA Between ==
    ASSUME NEW X, NEW s \in Seq(X), NEW a \in X, NEW b \in X
    PROVE  (<<a>> \o s) \o <<b>> = <<a>> \o (s \o <<b>>)
<1>1. <<a>> \in Seq(X) /\ <<b>> \in Seq(X)
  OBVIOUS
<1>2. Grouped(<<a>>, s, <<b>>)
  BY <1>1, OnceMore, Zenon
<1> QED
  BY <1>2 DEF Grouped

\* What is written around a text can be read from either end.
FromEitherEnd(s, a, b, c, d) == (<<a, b>> \o s) \o <<c, d>> = <<a>> \o ((<<b>> \o (s \o <<c>>)) \o <<d>>)

LEMMA FiveParts ==
    ASSUME NEW X, NEW s \in Seq(X), NEW A \in Seq(X), NEW B \in Seq(X), NEW C \in Seq(X), NEW D \in Seq(X)
    PROVE  ((A \o B) \o s) \o (C \o D) = A \o ((B \o (s \o C)) \o D)
<1>1. B \o s \in Seq(X) /\ s \o C \in Seq(X) /\ C \o D \in Seq(X)
  OBVIOUS
<1>2. Grouped(A, B, s) /\ Grouped(B, s, C)
  BY OnceMore, Zenon
<1>3. Grouped(A, B \o s, C \o D) /\ Grouped(B \o s, C, D)
  BY <1>1, OnceMore, Zenon
<1> QED
  BY <1>2, <1>3, Zenon DEF Grouped

LEMMA WrittenAround ==
    ASSUME NEW X, NEW s \in Seq(X), NEW a \in X, NEW b \in X, NEW c \in X, NEW d \in X
    PROVE  FromEitherEnd(s, a, b, c, d)
<1>1. <<a>> \in Seq(X) /\ <<b>> \in Seq(X) /\ <<c>> \in Seq(X) /\ <<d>> \in Seq(X)
  OBVIOUS
<1>2. <<a, b>> = <<a>> \o <<b>> /\ <<c, d>> = <<c>> \o <<d>>
  BY PairIsTwo
<1>3. ((<<a>> \o <<b>>) \o s) \o (<<c>> \o <<d>>) = <<a>> \o ((<<b>> \o (s \o <<c>>)) \o <<d>>)
  <2>1. PICK A, B, C, D : A = <<a>> /\ B = <<b>> /\ C = <<c>> /\ D = <<d>>
    OBVIOUS
  <2>2. ((A \o B) \o s) \o (C \o D) = A \o ((B \o (s \o C)) \o D)
    BY <1>1, <2>1, FiveParts
  <2> QED
    BY <2>1, <2>2, Zenon
<1>4. (<<a, b>> \o s) \o <<c, d>> = <<a>> \o ((<<b>> \o (s \o <<c>>)) \o <<d>>)
  BY <1>2, <1>3, Zenon
<1> QED
  BY <1>4, Zenon DEF FromEitherEnd

LEMMA OneByOneExcept ==
    ASSUME NEW r
    PROVE  [r EXCEPT !.mode = "bracket", !.inner = <<>>]
               = [[r EXCEPT !.mode = "bracket"] EXCEPT !.inner = <<>>]
OBVIOUS

LEMMA OpenedIs ==
    ASSUME NEW segs, NEW cur, NEW in, NEW m
    PROVE  [Parses(segs, cur, in, m) EXCEPT !.mode = "bracket", !.inner = <<>>]
               = Parses(segs, cur, <<>>, "bracket")
<1>1. [Parses(segs, cur, in, m) EXCEPT !.mode = "bracket"] = Parses(segs, cur, in, "bracket")
  BY DEF Parses
<1>2. [Parses(segs, cur, in, "bracket") EXCEPT !.inner = <<>>] = Parses(segs, cur, <<>>, "bracket")
  BY DEF Parses
<1> QED
  BY <1>1, <1>2, OneByOneExcept

LEMMA NamesStep ==
    ASSUME NEW step \in NodeSteps \cup {AnyIndex}, step[1] = "key"
    PROVE  step[2] \in Seq(PathChars) /\ step = KeyStep(step[2])
<1>1. step \in {"key"} \X Seq(PathChars)
  BY DEF NodeSteps, AnyIndex
<1>2. PICK key \in Seq(PathChars) : step = <<"key", key>>
  BY <1>1
<1> QED
  BY <1>2 DEF KeyStep

\* The two forms of a step in a path.
InBrackets(step, s) ==
    \E in \in Seq(PathChars) : Bracketed(step, in) /\ s = <<"[">> \o (in \o <<"]">>)
AsKey(step, first, s) ==
    \E key \in Seq(PathChars) :
        /\ step = KeyStep(key) /\ key # <<>> /\ \A i \in 1..Len(key) : key[i] \notin {".", "["}
        /\ s = (IF first THEN <<>> ELSE <<".">>) \o key

LEMMA SpeltIs ==
    ASSUME NEW step \in NodeSteps \cup {AnyIndex}, NEW first \in BOOLEAN,
           NEW s \in Seq(PathChars), IsSpelt(step, first, s)
    PROVE  InBrackets(step, s) \/ AsKey(step, first, s)
<1>1. /\ "[" \in PathChars /\ "]" \in PathChars /\ "dq" \in PathChars /\ "*" \in PathChars
      /\ "." \in PathChars
  BY DEF PathChars
<1>2. CASE step = AnyIndex /\ s = <<"[", "*", "]">>
  <2>1. <<"*">> \in Seq(PathChars) /\ s = <<"[">> \o (<<"*">> \o <<"]">>)
    BY <1>1, <1>2
  <2>2. Bracketed(step, <<"*">>)
    BY <1>2, <2>1 DEF Bracketed
  <2> QED
    BY <2>1, <2>2 DEF InBrackets
<1>3. CASE LET inner == SubSeq(s, 2, Len(s) - 1)
           IN  /\ inner # <<>> /\ ToSet(inner) \subseteq Digits /\ s = <<"[">> \o inner \o <<"]">>
               /\ step = IndexStep(NumberOf(inner))
  <2>1. PICK in : /\ in = SubSeq(s, 2, Len(s) - 1)
                  /\ in # <<>> /\ ToSet(in) \subseteq Digits /\ s = <<"[">> \o in \o <<"]">>
                  /\ step = IndexStep(NumberOf(in))
    BY <1>3
  <2>2. in \in Seq(PathChars)
    BY <2>1
  <2>3. s = <<"[">> \o (in \o <<"]">>)
    <3>1. (<<"[">> \o in) \o <<"]">> = <<"[">> \o (in \o <<"]">>)
      BY <1>1, <2>2, Between
    <3> QED
      BY <2>1, <3>1
  <2>4. \A i \in 1..Len(in) : in[i] # "]"
    <3>1. \A i \in 1..Len(in) : in[i] \in ToSet(in)
      BY <2>2 DEF ToSet
    <3> QED
      BY <2>1, <3>1 DEF Digits
  <2>5. Bracketed(step, in)
    BY <2>1, <2>2, <2>4 DEF Bracketed
  <2> QED
    BY <2>2, <2>3, <2>5 DEF InBrackets
<1>4. CASE /\ step[1] = "key" /\ "]" \notin ToSet(step[2])
           /\ s = <<"[", "dq">> \o step[2] \o <<"dq", "]">>
  <2>1. PICK key \in Seq(PathChars) : key = step[2] /\ step = KeyStep(key)
    BY <1>4, NamesStep
  <2>2. PICK in : in = <<"dq">> \o (key \o <<"dq">>)
    OBVIOUS
  <2>3. /\ in \in Seq(PathChars) /\ Len(in) = Len(key) + 2 /\ in[1] = "dq" /\ in[Len(in)] = "dq"
        /\ SubSeq(in, 2, Len(in) - 1) = key
        /\ \A i \in 1..Len(key) : in[i + 1] = key[i]
    BY <1>1, <2>2, BetweenTwo
  <2>4. s = <<"[">> \o (in \o <<"]">>)
    <3>1. s = <<"[", "dq">> \o key \o <<"dq", "]">>
      BY <1>4, <2>1
    <3>2. FromEitherEnd(key, "[", "dq", "dq", "]")
      <4>1. /\ key \in Seq(PathChars) /\ "[" \in PathChars /\ "dq" \in PathChars
            /\ "dq" \in PathChars /\ "]" \in PathChars
        BY <1>1
      <4> QED
        BY <4>1, WrittenAround, Zenon
    <3> QED
      BY <2>2, <3>1, <3>2 DEF FromEitherEnd
  <2>5. \A i \in 1..Len(in) : in[i] # "]"
    <3>1. \A i \in 1..Len(key) : key[i] # "]"
      BY <1>4, <2>1 DEF ToSet
    <3>2. ASSUME NEW i \in 1..Len(in) PROVE in[i] # "]"
      <4>1. i = 1 \/ i = Len(in) \/ \E k \in 1..Len(key) : k + 1 = i
        BY <2>3
      <4> QED
        BY <2>3, <3>1, <4>1
    <3> QED
      BY <3>2
  <2>6. Bracketed(step, in)
    BY <2>1, <2>2, <2>3, <2>5 DEF Bracketed
  <2> QED
    BY <2>3, <2>4, <2>6 DEF InBrackets
<1>5. CASE /\ step[1] = "key" /\ step[2] # <<>> /\ ToSet(step[2]) \cap {".", "["} = {}
           /\ s = (IF first THEN <<>> ELSE <<".">>) \o step[2]
  <2>1. PICK key \in Seq(PathChars) : key = step[2] /\ step = KeyStep(key)
    BY <1>5, NamesStep
  <2>2. \A i \in 1..Len(key) : key[i] \notin {".", "["}
    <3>1. \A i \in 1..Len(key) : key[i] \in ToSet(key)
      BY DEF ToSet
    <3>2. ToSet(key) \cap {".", "["} = {}
      BY <1>5, <2>1
    <3> QED
      BY <3>1, <3>2
  <2> QED
    BY <1>5, <2>1, <2>2 DEF AsKey
<1> QED
  BY <1>2, <1>3, <1>4, <1>5 DEF IsSpelt

LEMMA SegmentRun ==
    ASSUME NEW step \in NodeSteps \cup {AnyIndex}, NEW first \in BOOLEAN,
           NEW s \in Seq(PathChars), IsSpelt(step, first, s),
           NEW acc, NEW path \in Seq(NodeSteps \cup {AnyIndex}), ParsesAs(acc, path),
           first => path = <<>>
    PROVE  \E end : Run("path", acc, s, end) /\ ParsesAs(end, Append(path, step))
<1>1. PICK segs \in Seq(NodeSteps \cup {AnyIndex}), cur \in Seq(PathChars) :
          \E in : /\ acc = Parses(segs, cur, in, "plain")
                  /\ path = IF cur = <<>> THEN segs ELSE Append(segs, KeyStep(cur))
  BY DEF ParsesAs
<1>2. PICK old : /\ acc = Parses(segs, cur, old, "plain")
                 /\ path = IF cur = <<>> THEN segs ELSE Append(segs, KeyStep(cur))
  BY <1>1
<1>3. /\ "[" \in PathChars /\ "]" \in PathChars /\ "." \in PathChars /\ <<>> \in Seq(PathChars)
  BY DEF PathChars
<1>4. Flushed(acc) = Parses(path, <<>>, old, "plain")
  BY <1>2, FlushedIs
<1>5. Append(path, step) \in Seq(NodeSteps \cup {AnyIndex})
  OBVIOUS
<1>6. CASE InBrackets(step, s)
  <2>1. PICK in \in Seq(PathChars) : Bracketed(step, in) /\ s = <<"[">> \o (in \o <<"]">>)
    BY <1>6 DEF InBrackets
  <2> DEFINE opened == Parses(path, <<>>, <<>>, "bracket")
             read == Parses(path, <<>>, in, "bracket")
             end == Parses(Append(path, step), <<>>, in, "plain")
  <2>2. OneChar("path", acc, "[") = opened
    <3>1. PathStep(acc, "[") = [Flushed(acc) EXCEPT !.mode = "bracket", !.inner = <<>>]
      BY <1>2, OtherCharacters
    <3>2. [Parses(path, <<>>, old, "plain") EXCEPT !.mode = "bracket", !.inner = <<>>] = opened
      BY OpenedIs
    <3>3. PathStep(acc, "[") = opened
      BY <1>4, <3>1, <3>2
    <3> QED
      BY <3>3 DEF OneChar
  <2>3. Run("path", acc, <<"[">>, opened)
    BY <2>2, RunOverOne
  <2>4. Run("path", opened, in, read)
    <3>1. \A i \in 1..Len(in) : in[i] # "]"
      BY <2>1 DEF Bracketed
    <3> QED
      BY <3>1, BracketRun, Zenon
  <2>5. OneChar("path", read, "]") = end
    <3>1. PathStep(read, "]") = Closed(read)
      BY OtherCharacters
    <3>2. Closed(read) = end
      BY <2>1, ClosedIs
    <3> QED
      BY <3>1, <3>2 DEF OneChar
  <2>6. Run("path", read, <<"]">>, end)
    BY <2>5, RunOverOne
  <2>7. <<"[">> \in Seq(PathChars) /\ <<"]">> \in Seq(PathChars) /\ in \o <<"]">> \in Seq(PathChars)
    BY <1>3
  <2> HIDE DEF opened, read, end
  <2>8. Run("path", opened, in \o <<"]">>, end)
    BY <2>4, <2>6, <2>7, RunOverBoth, Zenon
  <2>9. Run("path", acc, <<"[">> \o (in \o <<"]">>), end)
    BY <2>3, <2>7, <2>8, RunOverBoth, Zenon
  <2>10. ParsesAs(end, Append(path, step))
    BY <1>3, <1>5, Zenon DEF ParsesAs, end
  <2> QED
    BY <2>1, <2>9, <2>10
<1>7. CASE AsKey(step, first, s)
  <2>1. PICK key \in Seq(PathChars) :
                 /\ step = KeyStep(key) /\ key # <<>> /\ \A i \in 1..Len(key) : key[i] \notin {".", "["}
                 /\ s = (IF first THEN <<>> ELSE <<".">>) \o key
    BY <1>7 DEF AsKey
  <2> DEFINE begun == Parses(path, <<>>, old, "plain")
             end == Parses(path, key, old, "plain")
  <2>2. <<>> \o key = key
    OBVIOUS
  <2>3. Run("path", begun, key, end)
    <3>1. Run("path", begun, key, Parses(path, <<>> \o key, old, "plain"))
      BY <1>3, <2>1, KeyRun, Zenon
    <3> QED
      BY <2>2, <3>1
  <2>4. ParsesAs(end, Append(path, step))
    BY <2>1, Zenon DEF ParsesAs
  <2>5. CASE first
    <3>1. path = <<>>
      BY <2>5
    <3>2. cur = <<>> /\ segs = path
      BY <1>2, <3>1
    <3>3. acc = begun /\ s = key
      BY <1>2, <2>1, <2>2, <2>5, <3>2
    <3> QED
      BY <2>3, <2>4, <3>3
  <2>6. CASE ~first
    <3>1. OneChar("path", acc, ".") = begun
      BY <1>2, <1>4, OtherCharacters DEF OneChar
    <3>2. Run("path", acc, <<".">>, begun)
      BY <3>1, RunOverOne
    <3>3. <<".">> \in Seq(PathChars)
      BY <1>3
    <3> HIDE DEF begun, end
    <3>4. Run("path", acc, <<".">> \o key, end)
      BY <2>3, <3>2, <3>3, RunOverBoth, Zenon
    <3>5. s = <<".">> \o key
      BY <2>1, <2>6
    <3> QED
      BY <2>4, <3>4, <3>5
  <2> QED
    BY <2>5, <2>6
<1>8. InBrackets(step, s) \/ AsKey(step, first, s)
  BY SpeltIs, Zenon
<1> QED
  BY <1>6, <1>7, <1>8, Zenon

LEMMA ParsePathIs ==
    ASSUME NEW s, Len(s) \in Nat, NEW end, NEW path,
           Run("path", Parses(<<>>, <<>>, <<>>, "plain"), s, end), ParsesAs(end, path)
    PROVE  parse_path(s) = path
<1> DEFINE start == Parses(<<>>, <<>>, <<>>, "plain")
           Whole(f) == [i \in 0..Len(s) |-> IF i = 0 THEN start ELSE PathStep(f[i - 1], s[i])]
           acc == CHOOSE f : f = Whole(f)
<1>1. PICK f : /\ f[0] = start
               /\ \A i \in 1..Len(s) : f[i] = OneChar("path", f[i - 1], s[i])
  BY DEF Run
<1>2. \E g : g = Whole(g)
  <2> DEFINE g == [i \in 0..Len(s) |-> f[i]]
  <2>1. \A i \in 0..Len(s) : /\ g[i] = f[i]
                             /\ i = 0 \/ (i \in 1..Len(s) /\ i - 1 \in 0..Len(s))
    OBVIOUS
  <2>2. \A i \in 0..Len(s) : g[i] = IF i = 0 THEN start ELSE PathStep(g[i - 1], s[i])
    <3> HIDE DEF g, start
    <3> QED
      BY <1>1, <2>1 DEF OneChar
  <2>3. g = Whole(g)
    BY <2>2, Zenon
  <2> QED
    BY <2>3
<1>3. acc = Whole(acc)
  <2> HIDE DEF Whole
  <2> QED
    BY <1>2
<1> HIDE DEF acc
<1>4. acc[0] = start /\ \A i \in 1..Len(s) : acc[i] = OneChar("path", acc[i - 1], s[i])
  <2>1. \A i \in 0..Len(s) : acc[i] = IF i = 0 THEN start ELSE PathStep(acc[i - 1], s[i])
    BY <1>3, Zenon
  <2>2. 0 \in 0..Len(s) /\ \A i \in 1..Len(s) : i \in 0..Len(s) /\ i # 0
    OBVIOUS
  <2> HIDE DEF start, Whole
  <2> QED
    BY <2>1, <2>2 DEF OneChar
<1>5. acc[Len(s)] = end
  <2> HIDE DEF Whole, start
  <2>1. Run("path", start, s, end)
    BY DEF start
  <2>2. acc[0] = start
    BY <1>4
  <2>3. \A i \in 1..Len(s) : acc[i] = OneChar("path", acc[i - 1], s[i])
    BY <1>4
  <2>4. Len(s) \in Nat
    OBVIOUS
  <2>5. Loops("path", start, s, acc)
    BY <2>2, <2>3 DEF Loops
  <2> QED
    BY <2>1, <2>4, <2>5, RunIsOne
<1>6. parse_path(s) = LET read == acc[Len(s)]
                          last == Flushed(IF read.mode = "bracket" THEN Closed(read) ELSE read)
                      IN  IF last.mode = "error" THEN <<>> ELSE last.segments
  BY Zenon DEF parse_path, acc, Parses
<1>7. PICK segs, cur, in : /\ end = Parses(segs, cur, in, "plain")
                           /\ path = IF cur = <<>> THEN segs ELSE Append(segs, KeyStep(cur))
  BY Zenon DEF ParsesAs
<1>8. end.mode = "plain"
  BY <1>7 DEF Parses
<1>9. Flushed(end) = Parses(path, <<>>, in, "plain")
  BY <1>7, FlushedIs
<1>10. Flushed(end).mode = "plain" /\ Flushed(end).segments = path
  BY <1>9 DEF Parses
<1> HIDE DEF Whole
<1> QED
  BY <1>5, <1>6, <1>8, <1>10

\* However a path is spelt, the parser finds the steps its author meant.
LEMMA ParsesPath ==
    ASSUME NEW path, IsPath(path)
    PROVE  parse_path(path.text) = path.meant
<1> DEFINE Steps == NodeSteps \cup {AnyIndex}
<1>1. PICK n, spelt, meant : n = Len(path.meant) /\ spelt = path.spelt /\ meant = path.meant
  OBVIOUS
<1>2. /\ meant \in Seq(Steps) /\ spelt \in Seq(Seq(PathChars)) /\ Len(spelt) = n /\ Len(meant) = n
      /\ \A i \in 1..n : IsSpelt(meant[i], i = 1, spelt[i])
      /\ path.text = FlattenSeq(spelt)
  BY <1>1 DEF IsPath
<1> HIDE DEF Steps
<1>3. n \in Nat /\ 0 \in 0..n /\ n \in 0..n
  BY <1>2
<1>4. /\ SubSeq(meant, 1, 0) = <<>> /\ SubSeq(meant, 1, n) = meant
      /\ \A i \in 0..n : SubSeq(meant, 1, i) \in Seq(Steps)
      /\ \A i \in 1..n : SubSeq(meant, 1, i) = Append(SubSeq(meant, 1, i - 1), meant[i])
      /\ \A i \in 1..n : meant[i] \in Steps
  BY <1>2
<1> DEFINE start == Parses(<<>>, <<>>, <<>>, "plain")
           good == {i \in 0..n : \E end : /\ Run("path", start, Flat(spelt)[i], end)
                                          /\ ParsesAs(end, SubSeq(meant, 1, i))}
<1>5. 0 \in good
  <2>1. Flat(spelt)[0] = <<>>
    BY <1>2, FlatStarts, Zenon
  <2>2. Run("path", start, <<>>, start)
    BY RunOverNothing, Zenon
  <2>3. ParsesAs(start, <<>>)
    <3>1. <<>> \in Seq(NodeSteps \cup {AnyIndex}) /\ <<>> \in Seq(PathChars)
      OBVIOUS
    <3> QED
      BY <3>1, Zenon DEF ParsesAs
  <2> HIDE DEF start
  <2> QED
    BY <1>3, <1>4, <2>1, <2>2, <2>3
<1> HIDE DEF start
<1>6. ASSUME NEW i \in 1..n, i - 1 \in good PROVE i \in good
  <2>1. i \in 0..n /\ i - 1 \in 0..Len(spelt) /\ i \in 1..Len(spelt) /\ i - 1 \in 0..n
    BY <1>2, <1>3
  <2>2. PICK a : Run("path", start, Flat(spelt)[i - 1], a) /\ ParsesAs(a, SubSeq(meant, 1, i - 1))
    BY <1>6
  <2>3. Flat(spelt)[i] = Flat(spelt)[i - 1] \o spelt[i]
    BY <1>2, <2>1, FlatGoesOn, Zenon
  <2>4. Flat(spelt)[i - 1] \in Seq(PathChars) /\ spelt[i] \in Seq(PathChars)
    BY <1>2, <2>1, FlatIsSeq, PartIsSeq, Zenon
  <2>5. PICK b : Run("path", a, spelt[i], b) /\ ParsesAs(b, Append(SubSeq(meant, 1, i - 1), meant[i]))
    <3>1. PICK first \in BOOLEAN : first <=> i = 1
      OBVIOUS
    <3>2. IsSpelt(meant[i], first, spelt[i])
      <4>1. first = (i = 1)
        BY <3>1
      <4> QED
        BY <1>2, <4>1
    <3>3. PICK before : before = SubSeq(meant, 1, i - 1)
      OBVIOUS
    <3>4. before \in Seq(NodeSteps \cup {AnyIndex}) /\ meant[i] \in NodeSteps \cup {AnyIndex}
      BY <1>4, <2>1, <3>3 DEF Steps
    <3>5. first => before = <<>>
      BY <1>4, <3>1, <3>3
    <3>6. ParsesAs(a, before)
      BY <2>2, <3>3
    <3>7. \E b : Run("path", a, spelt[i], b) /\ ParsesAs(b, Append(before, meant[i]))
      BY <2>4, <3>2, <3>4, <3>5, <3>6, SegmentRun, Zenon
    <3> QED
      BY <3>3, <3>7
  <2>6. ParsesAs(b, SubSeq(meant, 1, i))
    BY <1>4, <2>5
  <2>7. Run("path", start, Flat(spelt)[i - 1] \o spelt[i], b)
    BY <2>2, <2>4, <2>5, RunOverBoth, Zenon
  <2>8. Run("path", start, Flat(spelt)[i], b)
    BY <2>3, <2>7
  <2> QED
    BY <2>1, <2>6, <2>8
<1> HIDE DEF good
<1>7. n \in good
  BY <1>3, <1>5, <1>6, CountingUp, Zenon
<1>8. FlattenSeq(spelt) = Flat(spelt)[n]
  BY <1>2, FlattenIsFlat
<1>9. PICK end : Run("path", start, FlattenSeq(spelt), end) /\ ParsesAs(end, meant)
  BY <1>4, <1>7, <1>8 DEF good
<1>10. Len(FlattenSeq(spelt)) \in Nat
  <2>1. Flat(spelt)[n] \in Seq(PathChars)
    BY <1>2, <1>3, FlatIsSeq
  <2> QED
    BY <1>8, <2>1
<1>11. parse_path(FlattenSeq(spelt)) = meant
  BY <1>9, <1>10, ParsePathIs, Zenon DEF start
<1> QED
  BY <1>1, <1>2, <1>11

LEMMA FrontIs ==
    ASSUME NEW X, NEW s \in Seq(X), s # <<>>
    PROVE  /\ Front(s) \in Seq(X) /\ Len(Front(s)) = Len(s) - 1 /\ Len(s) \in Nat \ {0}
           /\ \A i \in 1..(Len(s) - 1) : Front(s)[i] = s[i]
           /\ Last(s) = s[Len(s)] /\ Last(s) \in X
           /\ s = Append(Front(s), s[Len(s)])
<1>1. Len(s) \in Nat \ {0}
  OBVIOUS
<1>2. PICK n, f : n = Len(s) - 1 /\ f = SubSeq(s, 1, n)
  OBVIOUS
<1>3. f \in Seq(X) /\ Len(f) = n /\ n \in Nat /\ n + 1 = Len(s) /\ \A i \in 1..n : f[i] = s[i]
  BY <1>1, <1>2
<1>4. s[n + 1] \in X
  BY <1>3
<1>5. s = Append(f, s[n + 1])
  BY <1>2, <1>3, <1>4
<1>6. Front(s) = f /\ Last(s) = s[n + 1]
  BY <1>2, <1>3 DEF Front, Last
<1> QED
  BY <1>1, <1>2, <1>3, <1>4, <1>5, <1>6

LEMMA AppendIs ==
    ASSUME NEW X, NEW s \in Seq(X), NEW x \in X
    PROVE  /\ Append(s, x) \in Seq(X) /\ Len(Append(s, x)) = Len(s) + 1
           /\ \A i \in 1..Len(s) : Append(s, x)[i] = s[i]
           /\ Append(s, x)[Len(s) + 1] = x /\ Append(s, x) # <<>>
OBVIOUS

LEMMA StepIsNotAny ==
    ASSUME NEW step \in NodeSteps
    PROVE  step # AnyIndex
<1>1. CASE step \in {"key"} \X Seq(PathChars)
  <2>1. PICK key \in Seq(PathChars) : step = <<"key", key>>
    BY <1>1
  <2> QED
    BY <2>1 DEF AnyIndex
<1>2. CASE step \in {"index", "other"} \X Nat
  <2>1. PICK kind \in {"index", "other"}, n \in Nat : step = <<kind, n>>
    BY <1>2
  <2> QED
    BY <2>1 DEF AnyIndex
<1> QED
  BY <1>1, <1>2 DEF NodeSteps

\* The nodes whose address is that of the first n steps of a path.
Fitting(doc, path, n) ==
    {a \in DOMAIN doc : Len(a) = n /\ \A i \in 1..n : Fits(a[i], path[i])}

LEMMA FollowedFits ==
    ASSUME NEW doc, IsDocument(doc), NEW path \in Seq(NodeSteps \cup {AnyIndex}),
           NEW n \in 1..Len(path), NEW at \in Fitting(doc, path, n - 1),
           NEW b \in Followed(doc, at, path[n])
    PROVE  b \in Fitting(doc, path, n)
<1>1. at \in DOMAIN doc /\ at \in Seq(NodeSteps) /\ Len(at) = n - 1 /\ n \in Nat \ {0}
  BY DEF Fitting, IsDocument
<1>2. \A i \in 1..(n - 1) : Fits(at[i], path[i])
  BY DEF Fitting
<1>3. b \in DOMAIN doc /\ b \in Seq(NodeSteps)
  BY DEF Followed, IsDocument
<1>4. /\ Len(b) = n /\ \A i \in 1..(n - 1) : b[i] = at[i]
      /\ Fits(b[n], path[n])
  <2>1. CASE path[n] = AnyIndex
    <3>1. b # <<>> /\ Front(b) = at /\ Last(b)[1] = "index"
      BY <2>1 DEF Followed
    <3>2. /\ Len(at) = Len(b) - 1 /\ Len(b) \in Nat \ {0}
          /\ \A i \in 1..(Len(b) - 1) : at[i] = b[i]
          /\ Last(b) = b[Len(b)]
      BY <1>3, <3>1, FrontIs
    <3>3. Len(b) = n
      BY <1>1, <3>2
    <3> QED
      BY <2>1, <3>1, <3>2, <3>3 DEF Fits
  <2>2. CASE path[n] # AnyIndex
    <3>1. b = Append(at, path[n])
      BY <2>2 DEF Followed
    <3>2. path[n] \in NodeSteps
      <4>1. path[n] \in NodeSteps \cup {AnyIndex}
        BY ElementOfSeq
      <4> QED
        BY <2>2, <4>1
    <3>3. /\ Len(b) = Len(at) + 1 /\ \A i \in 1..Len(at) : b[i] = at[i]
          /\ b[Len(at) + 1] = path[n]
      BY <1>1, <3>1, <3>2, AppendIs
    <3>4. Len(at) + 1 = n
      BY <1>1
    <3> QED
      BY <1>1, <3>3, <3>4 DEF Fits
  <2> QED
    BY <2>1, <2>2
<1>5. \A i \in 1..n : Fits(b[i], path[i])
  <2> SUFFICES ASSUME NEW i \in 1..n PROVE Fits(b[i], path[i])
    OBVIOUS
  <2>1. i = n \/ i \in 1..(n - 1)
    BY <1>1
  <2> QED
    BY <1>2, <1>4, <2>1
<1> QED
  BY <1>3, <1>4, <1>5 DEF Fitting

LEMMA FittingIsFollowed ==
    ASSUME NEW doc, IsDocument(doc), NEW path \in Seq(NodeSteps \cup {AnyIndex}),
           NEW n \in 1..Len(path), NEW b \in Fitting(doc, path, n)
    PROVE  \E at \in Fitting(doc, path, n - 1) : b \in Followed(doc, at, path[n])
<1>1. b \in DOMAIN doc /\ b \in Seq(NodeSteps) /\ Len(b) = n /\ n \in Nat \ {0} /\ b # <<>>
  BY DEF Fitting, IsDocument
<1>2. \A i \in 1..n : Fits(b[i], path[i])
  BY DEF Fitting
<1>3. PICK at : at = Front(b)
  OBVIOUS
<1>4. /\ Len(at) = n - 1 /\ \A i \in 1..(n - 1) : at[i] = b[i]
      /\ Last(b) = b[n] /\ b = Append(at, b[n]) /\ b[n] \in NodeSteps
  BY <1>1, <1>3, FrontIs
<1>5. at \in DOMAIN doc
  BY <1>1, <1>3 DEF IsDocument
<1>6. at \in Fitting(doc, path, n - 1)
  <2>1. \A i \in 1..(n - 1) : i \in 1..n
    BY <1>1
  <2> QED
    BY <1>2, <1>4, <1>5, <2>1 DEF Fitting
<1>7. Fits(b[n], path[n])
  BY <1>1, <1>2
<1>8. CASE path[n] = AnyIndex
  <2>1. Last(b)[1] = "index"
    BY <1>4, <1>7, <1>8, StepIsNotAny DEF Fits
  <2>2. b \in Followed(doc, at, path[n])
    BY <1>1, <1>3, <1>8, <2>1 DEF Followed
  <2> QED
    BY <1>6, <2>2
<1>9. CASE path[n] # AnyIndex
  <2>1. b = Append(at, path[n])
    BY <1>4, <1>7, <1>9 DEF Fits
  <2>2. b \in Followed(doc, at, path[n])
    BY <1>1, <1>9, <2>1 DEF Followed
  <2> QED
    BY <1>6, <2>2
<1> QED
  BY <1>8, <1>9

\* The evaluators follow a path to the nodes whose address it is.
LEMMA EvalPathIs ==
    ASSUME NEW doc, IsDocument(doc), NEW path \in Seq(NodeSteps \cup {AnyIndex})
    PROVE  eval_path(doc, path) = Fitting(doc, path, Len(path))
<1> DEFINE N == Len(path)
           Reached(s, n) == UNION {Followed(doc, at, path[n]) : at \in s}
           Whole(f) == [n \in 0..N |-> IF n = 0 THEN {<<>>} ELSE Reached(f[n - 1], n)]
           current == CHOOSE f : f = Whole(f)
           fitting == [n \in 0..N |-> Fitting(doc, path, n)]
<1>1. N \in Nat /\ \A n \in 0..N : n = 0 \/ (n \in 1..N /\ n - 1 \in 0..N)
  OBVIOUS
<1>2. Fitting(doc, path, 0) = {<<>>}
  <2>1. \A a \in DOMAIN doc : a \in Seq(NodeSteps)
    BY DEF IsDocument
  <2>2. <<>> \in DOMAIN doc /\ Len(<<>>) = 0 /\ 1..0 = {}
    BY DEF IsDocument
  <2>3. \A a \in DOMAIN doc : Len(a) = 0 => a = <<>>
    BY <2>1
  <2> QED
    BY <2>2, <2>3 DEF Fitting
<1>3. ASSUME NEW n \in 1..N PROVE Fitting(doc, path, n) = Reached(Fitting(doc, path, n - 1), n)
  <2>1. ASSUME NEW b \in Fitting(doc, path, n) PROVE b \in Reached(Fitting(doc, path, n - 1), n)
    BY FittingIsFollowed
  <2>2. ASSUME NEW b \in Reached(Fitting(doc, path, n - 1), n) PROVE b \in Fitting(doc, path, n)
    <3>1. PICK at \in Fitting(doc, path, n - 1) : b \in Followed(doc, at, path[n])
      OBVIOUS
    <3> QED
      BY <3>1, FollowedFits
  <2> QED
    BY <2>1, <2>2
<1>4. \E f : f = Whole(f)
  <2>1. \A n \in 0..N : fitting[n] = IF n = 0 THEN {<<>>} ELSE Reached(fitting[n - 1], n)
    <3> SUFFICES ASSUME NEW n \in 0..N
                 PROVE  fitting[n] = IF n = 0 THEN {<<>>} ELSE Reached(fitting[n - 1], n)
      OBVIOUS
    <3>1. CASE n = 0
      BY <1>1, <1>2, <3>1
    <3>2. CASE n # 0
      <4>1. n \in 1..N /\ n - 1 \in 0..N
        BY <1>1, <3>2
      <4>2. fitting[n] = Fitting(doc, path, n) /\ fitting[n - 1] = Fitting(doc, path, n - 1)
        BY <4>1
      <4> HIDE DEF fitting, Reached
      <4> QED
        BY <1>3, <3>2, <4>1, <4>2
    <3> QED
      BY <3>1, <3>2
  <2>2. fitting = Whole(fitting)
    BY <2>1, Zenon
  <2> QED
    BY <2>2
<1>5. current = Whole(current)
  <2> HIDE DEF Whole
  <2> QED
    BY <1>4
<1> HIDE DEF current
<1>6. \A n \in 0..N : current[n] = IF n = 0 THEN {<<>>} ELSE Reached(current[n - 1], n)
  BY <1>5, Zenon
<1> DEFINE good == {n \in 0..N : current[n] = Fitting(doc, path, n)}
<1>7. 0 \in good
  <2>1. 0 \in 0..N
    BY <1>1
  <2> HIDE DEF Reached, N
  <2>2. current[0] = {<<>>}
    BY <1>6, <2>1
  <2> QED
    BY <1>2, <2>1, <2>2
<1>8. ASSUME NEW n \in 1..N, n - 1 \in good PROVE n \in good
  <2>1. n \in 0..N /\ n # 0 /\ current[n - 1] = Fitting(doc, path, n - 1)
    BY <1>1, <1>8
  <2>2. current[n] = Reached(current[n - 1], n)
    BY <1>6, <2>1
  <2> HIDE DEF Reached
  <2> QED
    BY <1>3, <2>1, <2>2
<1> HIDE DEF good
<1>9. N \in good
  <2>1. N \in Nat /\ N \in 0..N
    BY <1>1
  <2> HIDE DEF N
  <2> QED
    BY <1>7, <1>8, <2>1, CountingUp, Zenon
<1>10. eval_path(doc, path) = current[N]
  BY Zenon DEF eval_path, current
<1> QED
  BY <1>9, <1>10 DEF good

LEMMA BoundedLengths ==
    ASSUME NEW X, NEW S, IsFiniteSet(S), S \subseteq Seq(X)
    PROVE  \E m \in Nat : \A a \in S : Len(a) <= m
<1>1. PICK n \in Nat : \E f : f \in [1..n -> S] /\ \A a \in S : \E i \in 1..n : f[i] = a
  <2>1. Cardinality(S) \in Nat /\ ExistsBijection(1..Cardinality(S), S)
    BY FS_CardinalityType
  <2>2. PICK f : f \in Bijection(1..Cardinality(S), S)
    BY <2>1 DEF ExistsBijection
  <2>3. f \in Surjection(1..Cardinality(S), S)
    BY <2>2 DEF Bijection
  <2>4. f \in [1..Cardinality(S) -> S] /\ \A a \in S : \E i \in 1..Cardinality(S) : f[i] = a
    BY <2>3 DEF Surjection
  <2> QED
    BY <2>1, <2>4
<1>9. PICK f : f \in [1..n -> S] /\ \A a \in S : \E i \in 1..n : f[i] = a
  BY <1>1
<1> DEFINE good == {k \in 0..n : \E m \in Nat : \A i \in 1..k : Len(f[i]) <= m}
<1>2. 0 \in good
  OBVIOUS
<1>3. ASSUME NEW k \in 1..n, k - 1 \in good PROVE k \in good
  <2>1. PICK m \in Nat : \A i \in 1..(k - 1) : Len(f[i]) <= m
    BY <1>3
  <2>2. f[k] \in Seq(X)
    BY <1>9
  <2>3. PICK l \in Nat : l = Len(f[k])
    BY <2>2
  <2>4. \A i \in 1..k : Len(f[i]) <= m + l
    <3> SUFFICES ASSUME NEW i \in 1..k PROVE Len(f[i]) <= m + l
      OBVIOUS
    <3>1. f[i] \in Seq(X)
      BY <1>9
    <3>2. Len(f[i]) \in Nat
      BY <3>1
    <3>3. i = k \/ i \in 1..(k - 1)
      OBVIOUS
    <3> QED
      BY <2>1, <2>3, <3>2, <3>3
  <2>5. m + l \in Nat /\ k \in 0..n
    OBVIOUS
  <2> QED
    BY <2>4, <2>5
<1> HIDE DEF good
<1>4. n \in good
  <2>1. n \in 0..n
    OBVIOUS
  <2> QED
    BY <1>2, <1>3, <2>1, CountingUp, Zenon
<1>5. PICK m \in Nat : \A i \in 1..n : Len(f[i]) <= m
  BY <1>4 DEF good
<1> QED
  BY <1>5, <1>9

LEMMA LongestIs ==
    ASSUME NEW X, NEW S, IsFiniteSet(S), S \subseteq Seq(X), S # {}
    PROVE  \E a \in S : \A b \in S : Len(b) <= Len(a)
<1>1. PICK m \in Nat : \A a \in S : Len(a) <= m
  BY BoundedLengths
<1> DEFINE left == {m - Len(a) : a \in S}
<1>2. \A a \in S : Len(a) \in Nat /\ Len(a) <= m /\ m - Len(a) \in Nat
  BY <1>1
<1>3. left \in SUBSET Nat /\ left # {}
  BY <1>2
<1>4. Min(left) \in left /\ \A y \in left : Min(left) <= y
  BY <1>3, MinIsLeast
<1>5. PICK a \in S : m - Len(a) = Min(left)
  BY <1>4
<1>6. ASSUME NEW b \in S PROVE Len(b) <= Len(a)
  <2>1. m - Len(a) <= m - Len(b)
    BY <1>4, <1>5
  <2> QED
    BY <1>2, <2>1
<1> QED
  BY <1>6

\* The beginning of an address is that of a node around it.
LEMMA BeginningIsNode ==
    ASSUME NEW doc, IsDocument(doc), NEW b \in DOMAIN doc, NEW k \in 0..Len(b)
    PROVE  SubSeq(b, 1, k) \in DOMAIN doc
<1>1. PICK n : n = Len(b)
  OBVIOUS
<1>2. b \in Seq(NodeSteps) /\ n \in Nat
  BY <1>1 DEF IsDocument
<1> DEFINE good == {i \in 0..n : SubSeq(b, 1, n - i) \in DOMAIN doc}
<1>3. 0 \in good
  <2>1. n - 0 = n /\ 0 \in 0..n
    BY <1>2
  <2>2. SubSeq(b, 1, n) = b
    BY <1>1, <1>2
  <2>3. SubSeq(b, 1, n - 0) \in DOMAIN doc
    BY <2>1, <2>2
  <2> QED
    BY <2>1, <2>3
<1>4. ASSUME NEW i \in 1..n, i - 1 \in good PROVE i \in good
  <2>1. PICK s : s = SubSeq(b, 1, n - (i - 1))
    OBVIOUS
  <2>2. s \in DOMAIN doc
    BY <1>4, <2>1
  <2>3. s # <<>> /\ SubSeq(b, 1, n - i) = Front(s)
    <3>1. /\ s \in Seq(NodeSteps) /\ Len(s) = n - (i - 1) /\ n - (i - 1) - 1 = n - i
          /\ SubSeq(s, 1, n - i) = SubSeq(b, 1, n - i)
      BY <1>1, <1>2, <2>1
    <3> QED
      BY <1>2, <3>1 DEF Front
  <2>4. Front(s) \in DOMAIN doc
    BY <2>2, <2>3 DEF IsDocument
  <2>5. i \in 0..n
    BY <1>2
  <2> QED
    BY <2>3, <2>4, <2>5
<1> HIDE DEF good
<1>5. \A i \in 0..n : i \in good
  BY <1>2, <1>3, <1>4, CountingUp, Zenon
<1>6. n - k \in 0..n /\ n - (n - k) = k
  BY <1>1, <1>2
<1>7. SubSeq(b, 1, n - (n - k)) \in DOMAIN doc
  BY <1>5, <1>6 DEF good
<1> QED
  BY <1>6, <1>7

\* What find looks for: a key that leads to a node, or a text that is one.
IsAsked(c, b) == "string" \in c.asks /\ c.doc[b] = <<"text", c.expected.raw>>
LeadsTo(c, b) == "key" \in c.asks /\ Last(b) = KeyStep(c.expected.raw)
Inside(a, b) == Len(a) <= Len(b) /\ SubSeq(b, 1, Len(a)) = a
IsFound(c, a) ==
    \E b \in DOMAIN c.doc : Inside(a, b) /\ (IsAsked(c, b) \/ (b # a /\ LeadsTo(c, b)))
Children(doc, a) == {b \in DOMAIN doc : b # <<>> /\ Front(b) = a}

LEMMA InsideChild ==
    ASSUME NEW doc, IsDocument(doc), NEW a \in DOMAIN doc, NEW b \in DOMAIN doc, Inside(a, b), b # a
    PROVE  \E child \in Children(doc, a) : Inside(child, b)
<1>1. a \in Seq(NodeSteps) /\ b \in Seq(NodeSteps)
  BY DEF IsDocument
<1>2. PICK n, m : n = Len(a) /\ m = Len(b)
  OBVIOUS
<1>3. n \in Nat /\ m \in Nat /\ n < m
  <2>1. n \in Nat /\ m \in Nat /\ n <= m /\ SubSeq(b, 1, n) = a
    BY <1>1, <1>2 DEF Inside
  <2>2. n # m
    BY <1>1, <1>2, <2>1
  <2> QED
    BY <2>1, <2>2
<1>4. PICK child : child = SubSeq(b, 1, n + 1)
  OBVIOUS
<1>5. n + 1 \in 0..Len(b)
  BY <1>2, <1>3
<1>6. child \in DOMAIN doc
  BY <1>4, <1>5, BeginningIsNode
<1>7. /\ child \in Seq(NodeSteps) /\ Len(child) = n + 1 /\ SubSeq(child, 1, n) = SubSeq(b, 1, n)
      /\ child # <<>>
  BY <1>1, <1>2, <1>3, <1>4
<1>8. Front(child) = a
  <2>1. n + 1 - 1 = n
    BY <1>3
  <2> QED
    BY <1>2, <1>7, <2>1 DEF Front, Inside
<1>9. Inside(child, b)
  BY <1>2, <1>3, <1>4, <1>7 DEF Inside
<1> QED
  BY <1>6, <1>7, <1>8, <1>9 DEF Children

LEMMA ChildIsInside ==
    ASSUME NEW doc, IsDocument(doc), NEW a \in DOMAIN doc, NEW child \in Children(doc, a)
    PROVE  /\ child \in DOMAIN doc /\ Inside(a, child) /\ Len(child) > Len(a) /\ Len(child) \in Nat
           /\ \A b \in DOMAIN doc : Inside(child, b) => Inside(a, b) /\ b # a
<1>1. child \in DOMAIN doc /\ child # <<>> /\ Front(child) = a /\ child \in Seq(NodeSteps)
  BY DEF Children, IsDocument
<1>2. a \in Seq(NodeSteps)
  BY DEF IsDocument
<1>3. PICK n : n = Len(a)
  OBVIOUS
<1>4. Len(child) = n + 1 /\ n \in Nat /\ SubSeq(child, 1, n) = a
  <2>1. n \in Nat
    BY <1>2, <1>3
  <2>2. Len(child) \in Nat /\ Len(child) - 1 = n
    BY <1>1, <1>3, FrontIs
  <2> QED
    BY <1>1, <2>1, <2>2 DEF Front
<1>5. ASSUME NEW b \in DOMAIN doc, Inside(child, b) PROVE Inside(a, b) /\ b # a
  <2>1. b \in Seq(NodeSteps)
    BY DEF IsDocument
  <2>2. n + 1 <= Len(b) /\ SubSeq(b, 1, n + 1) = child
    BY <1>4, <1>5 DEF Inside
  <2>3. SubSeq(SubSeq(b, 1, n + 1), 1, n) = SubSeq(b, 1, n)
    BY <1>4, <2>1, <2>2
  <2>4. Len(b) \in Nat /\ n <= Len(b) /\ Len(b) # n
    BY <1>4, <2>1, <2>2
  <2> QED
    BY <1>3, <1>4, <2>2, <2>3, <2>4 DEF Inside
<1> QED
  BY <1>1, <1>3, <1>4, <1>5 DEF Inside

LEMMA FoundIs ==
    ASSUME NEW c, IsDocument(c.doc), NEW a \in DOMAIN c.doc
    PROVE  IsFound(c, a) <=> \/ \E b \in Children(c.doc, a) : IsFound(c, b) \/ LeadsTo(c, b)
                             \/ IsAsked(c, a)
<1>1. PICK doc : doc = c.doc
  OBVIOUS
<1>2. IsDocument(doc) /\ a \in DOMAIN doc
  BY <1>1
<1>3. \A x \in DOMAIN doc : Inside(x, x)
  <2>1. \A x \in DOMAIN doc : x \in Seq(NodeSteps)
    BY <1>2 DEF IsDocument
  <2> QED
    BY <2>1 DEF Inside
<1>4. ASSUME IsFound(c, a)
      PROVE  (\E b \in Children(doc, a) : IsFound(c, b) \/ LeadsTo(c, b)) \/ IsAsked(c, a)
  <2>1. PICK b \in DOMAIN doc : Inside(a, b) /\ (IsAsked(c, b) \/ (b # a /\ LeadsTo(c, b)))
    BY <1>1, <1>4 DEF IsFound
  <2>2. CASE b = a
    BY <2>1, <2>2
  <2>3. CASE b # a
    <3>1. PICK child \in Children(doc, a) : Inside(child, b)
      BY <1>2, <2>1, <2>3, InsideChild
    <3>2. IsFound(c, child) \/ LeadsTo(c, child)
      BY <1>1, <2>1, <3>1 DEF IsFound
    <3> QED
      BY <3>1, <3>2
  <2> QED
    BY <2>2, <2>3
<1>5. ASSUME IsAsked(c, a) PROVE IsFound(c, a)
  BY <1>1, <1>2, <1>3, <1>5 DEF IsFound
<1>6. ASSUME NEW child \in Children(doc, a), IsFound(c, child) \/ LeadsTo(c, child)
      PROVE  IsFound(c, a)
  <2>1. /\ child \in DOMAIN doc /\ Inside(a, child)
        /\ \A b \in DOMAIN doc : Inside(child, b) => Inside(a, b) /\ b # a
    BY <1>2, ChildIsInside
  <2>2. CASE LeadsTo(c, child)
    <3>1. child # a
      BY <1>3, <2>1
    <3> QED
      BY <1>1, <2>1, <2>2, <3>1 DEF IsFound
  <2>3. CASE IsFound(c, child)
    <3>1. PICK b \in DOMAIN doc : Inside(child, b) /\ (IsAsked(c, b) \/ (b # child /\ LeadsTo(c, b)))
      BY <1>1, <2>3 DEF IsFound
    <3> QED
      BY <1>1, <2>1, <3>1 DEF IsFound
  <2> QED
    BY <1>6, <2>2, <2>3
<1> QED
  BY <1>1, <1>4, <1>5, <1>6

\* What find says of a node, from the leaves up: f is it for each node.
FoundStep(c, f) ==
    [a \in DOMAIN c.doc |->
        LET children == {b \in DOMAIN c.doc : b # <<>> /\ Front(b) = a}
        IN  \/ \E b \in children :
                   \/ f[b]
                   \/ "key" \in c.asks /\ Last(b) = KeyStep(c.expected.raw)
            \/ "string" \in c.asks /\ c.doc[a] = <<"text", c.expected.raw>>]
TheFound(c) == CHOOSE f : f = FoundStep(c, f)
FoundAt(c, f, a) ==
    \/ \E b \in Children(c.doc, a) : f[b] \/ LeadsTo(c, b)
    \/ IsAsked(c, a)

LEMMA FoundStepIs ==
    ASSUME NEW c, NEW f
    PROVE  FoundStep(c, f) = [a \in DOMAIN c.doc |-> FoundAt(c, f, a)]
BY Zenon DEF FoundStep, FoundAt, Children, LeadsTo, IsAsked

LEMMA TheFoundIs ==
    ASSUME NEW c, IsDocument(c.doc)
    PROVE  TheFound(c) = FoundStep(c, TheFound(c))
<1> DEFINE g == [a \in DOMAIN c.doc |-> IsFound(c, a)]
<1>1. \A a \in DOMAIN c.doc : IsFound(c, a) <=> FoundAt(c, g, a)
  <2> SUFFICES ASSUME NEW a \in DOMAIN c.doc PROVE IsFound(c, a) <=> FoundAt(c, g, a)
    OBVIOUS
  <2>1. \A b \in Children(c.doc, a) : b \in DOMAIN c.doc
    BY DEF Children
  <2>2. \A b \in Children(c.doc, a) : g[b] <=> IsFound(c, b)
    BY <2>1, Zenon
  <2> HIDE DEF g
  <2>3. FoundAt(c, g, a) <=> (\/ \E b \in Children(c.doc, a) : IsFound(c, b) \/ LeadsTo(c, b)
                             \/ IsAsked(c, a))
    BY <2>2, Zenon DEF FoundAt
  <2> QED
    BY <2>3, FoundIs, Zenon
<1>2. g = [a \in DOMAIN c.doc |-> FoundAt(c, g, a)]
  BY <1>1, Zenon DEF FoundAt, IsFound
<1>3. g = FoundStep(c, g)
  BY <1>2, FoundStepIs, Zenon
<1> HIDE DEF g
<1> QED
  BY <1>3, Zenon DEF TheFound

LEMMA TheFoundAt ==
    ASSUME NEW c, IsDocument(c.doc), NEW a \in DOMAIN c.doc
    PROVE  TheFound(c)[a] <=> FoundAt(c, TheFound(c), a)
<1>1. TheFound(c) = [x \in DOMAIN c.doc |-> FoundAt(c, TheFound(c), x)]
  BY TheFoundIs, FoundStepIs, Zenon
<1>2. PICK f : f = TheFound(c)
  OBVIOUS
<1>3. f = [x \in DOMAIN c.doc |-> FoundAt(c, f, x)]
  BY <1>1, <1>2, Zenon
<1>4. f[a] <=> FoundAt(c, f, a)
  BY <1>3, Zenon
<1> QED
  BY <1>2, <1>4, Zenon

LEMMA TheFoundIsFound ==
    ASSUME NEW c, IsDocument(c.doc), NEW a \in DOMAIN c.doc
    PROVE  TheFound(c)[a] <=> IsFound(c, a)
<1> DEFINE says(x) == TheFound(c)[x]
           bad == {x \in DOMAIN c.doc : ~(says(x) <=> IsFound(c, x))}
<1>1. \A x \in DOMAIN c.doc : says(x) <=> (\/ \E b \in Children(c.doc, x) : says(b) \/ LeadsTo(c, b)
                                           \/ IsAsked(c, x))
  BY TheFoundAt, Zenon DEF FoundAt
<1> HIDE DEF says
<1>2. ASSUME bad # {} PROVE FALSE
  <2>1. IsFiniteSet(DOMAIN c.doc) /\ DOMAIN c.doc \subseteq Seq(NodeSteps)
    BY DEF IsDocument
  <2>2. IsFiniteSet(bad) /\ bad \subseteq Seq(NodeSteps)
    BY <2>1, FS_Subset
  <2>3. PICK x \in bad : \A b \in bad : Len(b) <= Len(x)
    BY <1>2, <2>2, LongestIs
  <2>4. x \in DOMAIN c.doc /\ Len(x) \in Nat
    BY <2>1, <2>3
  <2>5. ASSUME NEW b \in Children(c.doc, x) PROVE says(b) <=> IsFound(c, b)
    <3>1. b \in DOMAIN c.doc /\ Len(b) > Len(x) /\ Len(b) \in Nat
      BY <2>4, ChildIsInside
    <3>2. b \notin bad
      BY <2>3, <2>4, <3>1
    <3> QED
      BY <3>1, <3>2
  <2>6. says(x) <=> IsFound(c, x)
    BY <1>1, <2>4, <2>5, FoundIs, Zenon
  <2> QED
    BY <2>3, <2>6
<1>3. says(a) <=> IsFound(c, a)
  BY <1>2, Zenon
<1> QED
  BY <1>3 DEF says

LEMMA FindIs ==
    ASSUME NEW c, IsDocument(c.doc), c.asks \in {{"key"}, {"string"}}
    PROVE  find_in_cbor(c) = Verdict(IsFound(c, <<>>))
<1>1. Cardinality(c.asks) = 1
  <2>1. PICK x : c.asks = {x}
    OBVIOUS
  <2> QED
    BY <2>1, FS_Singleton
<1>2. find_in_cbor(c) = IF Cardinality(c.asks) # 1 THEN "error" ELSE Verdict(TheFound(c)[<<>>])
  BY Zenon DEF find_in_cbor, TheFound, FoundStep
<1>3. find_in_cbor(c) = Verdict(TheFound(c)[<<>>])
  BY <1>1, <1>2, Zenon
<1>4. <<>> \in DOMAIN c.doc
  BY DEF IsDocument
<1>5. TheFound(c)[<<>>] <=> IsFound(c, <<>>)
  BY <1>4, TheFoundIsFound, Zenon
<1> QED
  BY <1>3, <1>5, Zenon DEF Verdict

LEMMA VerdictIs ==
    ASSUME NEW p
    PROVE  Verdict(p) = "pass" <=> p
BY Zenon DEF Verdict

LEMMA FindMeans ==
    ASSUME NEW c \in Checks, c.tool = "find", c.asks \in {{"key"}, {"string"}}, c.count = {},
           IsDocument(c.doc)
    PROVE  Answer(c) = "pass" <=> CheckMeans(c)
<1>1. Answer(c) = Verdict(IsFound(c, <<>>))
  BY FindIs DEF Answer
<1>2. Answer(c) = "pass" <=> IsFound(c, <<>>)
  <2>1. Verdict(IsFound(c, <<>>)) = "pass" <=> IsFound(c, <<>>)
    BY VerdictIs, Zenon
  <2> QED
    BY <1>1, <2>1, Zenon
<1>3. \A b \in DOMAIN c.doc : Inside(<<>>, b)
  <2>1. \A b \in DOMAIN c.doc : b \in Seq(NodeSteps)
    BY DEF IsDocument
  <2>2. Len(<<>>) = 0 /\ \A b \in Seq(NodeSteps) : 0 <= Len(b) /\ SubSeq(b, 1, 0) = <<>>
    OBVIOUS
  <2> QED
    BY <2>1, <2>2 DEF Inside
<1>4. IsFound(c, <<>>) <=> \E b \in DOMAIN c.doc : IsAsked(c, b) \/ (b # <<>> /\ LeadsTo(c, b))
  BY <1>3, Zenon DEF IsFound
<1>5. CASE c.asks = {"key"}
  <2>1. CheckMeans(c) <=> \E a \in DOMAIN c.doc : a # <<>> /\ Last(a) = KeyStep(c.expected.raw)
    BY <1>5 DEF CheckMeans
  <2>2. \A b \in DOMAIN c.doc : ~IsAsked(c, b) /\ (LeadsTo(c, b) <=> Last(b) = KeyStep(c.expected.raw))
    BY <1>5 DEF IsAsked, LeadsTo
  <2> QED
    BY <1>2, <1>4, <2>1, <2>2, Zenon
<1>6. CASE c.asks = {"string"}
  <2>1. CheckMeans(c) <=> <<"text", c.expected.raw>> \in Range(c.doc)
    BY <1>6 DEF CheckMeans
  <2>2. \A b \in DOMAIN c.doc : ~LeadsTo(c, b) /\ (IsAsked(c, b) <=> c.doc[b] = <<"text", c.expected.raw>>)
    BY <1>6 DEF IsAsked, LeadsTo
  <2>3. Range(c.doc) = {c.doc[b] : b \in DOMAIN c.doc}
    BY DEF Range
  <2>4. PICK x : x = <<"text", c.expected.raw>>
    OBVIOUS
  <2>5. x \in Range(c.doc) <=> \E b \in DOMAIN c.doc : c.doc[b] = x
    BY <2>3, Zenon
  <2> QED
    BY <1>2, <1>4, <2>1, <2>2, <2>4, <2>5, Zenon
<1> QED
  BY <1>5, <1>6

LEMMA MatchesAreNamed ==
    ASSUME NEW c \in Checks, c.tool # "find"
    PROVE  parse_path(c.text) # <<>> /\ Matches(c) = Named(c)
<1>1. PICK path : path = [meant |-> c.meant, spelt |-> c.spelt, text |-> c.text]
  OBVIOUS
<1>2. IsPath(path)
  BY <1>1, SpellingAssumption
<1>3. parse_path(c.text) = c.meant
  <2>1. parse_path(path.text) = path.meant
    BY <1>2, ParsesPath
  <2> QED
    BY <1>1, <2>1
<1>4. c.meant # <<>> /\ c.meant \in Seq(NodeSteps \cup {AnyIndex})
  BY <1>1, <1>2 DEF IsPath
<1>5. IsDocument(c.doc)
  BY CheckAssumption
<1>6. Matches(c) = Fitting(c.doc, c.meant, Len(c.meant))
  BY <1>3, <1>4, <1>5, EvalPathIs DEF Matches
<1>7. Fitting(c.doc, c.meant, Len(c.meant)) = Named(c)
  <2>1. ASSUME NEW a \in DOMAIN c.doc
        PROVE  Len(a) = Len(c.meant) => DOMAIN a = 1..Len(c.meant)
    <3>1. a \in Seq(NodeSteps)
      BY <1>5 DEF IsDocument
    <3> QED
      BY <3>1
  <2> QED
    BY <2>1, Zenon DEF Fitting, Named
<1> QED
  BY <1>3, <1>4, <1>6, <1>7

LEMMA JsonMeans ==
    ASSUME NEW c \in Checks, c.tool = "json", Comparable(c), ~Overlooked(c)
    PROVE  Answer(c) = "pass" <=> CheckMeans(c)
<1>1. c.asks \in SUBSET {"exists", "equals"} /\ c.count = {}
  BY CheckAssumption DEF AskedOf
<1>2. /\ "exists" \in c.asks \/ "equals" \in c.asks
      /\ ~("exists" \in c.asks /\ "equals" \in c.asks)
      /\ "equals" \in c.asks => c.expected.literal
  BY <1>1 DEF Comparable, Overlooked
<1> DEFINE equal(a) == ValueAt(c.doc, a) = c.expected.value
<1>3. /\ "not_exists" \notin c.asks /\ "all" \notin c.asks /\ "contains" \notin c.asks
      /\ "key" \notin c.asks /\ "string" \notin c.asks
  BY <1>1
<1>4. Answer(c) = evaluate_path_matches(c, Named(c))
  BY MatchesAreNamed DEF Answer, handle_json
<1>5. CASE "exists" \in c.asks
  <2>1. Answer(c) = IF Named(c) # {} THEN "pass" ELSE "fail"
    BY <1>2, <1>4, <1>5 DEF evaluate_path_matches
  <2>2. CheckMeans(c) <=> Named(c) # {}
    BY <1>1, <1>2, <1>3, <1>5, Zenon DEF CheckMeans
  <2> QED
    BY <2>1, <2>2
<1>6. CASE "equals" \in c.asks
  <2>1. c.asks \cap {"exists", "equals"} # {} /\ "exists" \notin c.asks
    BY <1>2, <1>6
  <2>2. Answer(c) = Verdict(\E a \in Named(c) : equal(a))
    BY <1>2, <1>4, <1>6, <2>1, Zenon DEF evaluate_path_matches
  <2>3. CheckMeans(c) <=> \E a \in Named(c) : equal(a)
    BY <1>1, <1>3, <1>6, <2>1, Zenon DEF CheckMeans
  <2> QED
    BY <2>2, <2>3, VerdictIs, Zenon
<1> QED
  BY <1>2, <1>5, <1>6

LEMMA CborMeans ==
    ASSUME NEW c \in Checks, c.tool = "cbor", Comparable(c), ~Overlooked(c)
    PROVE  Answer(c) = "pass" <=> CheckMeans(c)
<1>1. c.asks \in SUBSET {"exists", "equals", "all"}
  BY CheckAssumption DEF AskedOf
<1>2. /\ "exists" \in c.asks \/ "equals" \in c.asks
      /\ ~("exists" \in c.asks /\ "equals" \in c.asks /\ "all" \in c.asks)
      /\ "equals" \in c.asks => c.expected.literal
      /\ "equals" \in c.asks =>
            \A a \in Named(c) : cbor_to_json(ValueAt(c.doc, a)) = {ValueAt(c.doc, a)}
  BY <1>1 DEF Comparable, Overlooked
<1> DEFINE equal(a) == ValueAt(c.doc, a) = c.expected.value
           counted == \A n \in c.count : Cardinality(Named(c)) = n
           converted == [a \in Named(c) |-> cbor_to_json(ValueAt(c.doc, a))]
<1>3. /\ "not_exists" \notin c.asks /\ "contains" \notin c.asks
      /\ "key" \notin c.asks /\ "string" \notin c.asks /\ c.asks \cap {"exists", "equals"} # {}
  BY <1>1, <1>2
<1>4. Answer(c) = evaluate_cbor_matches(c, Named(c))
  BY MatchesAreNamed DEF Answer, handle_cbor
<1>5. CheckMeans(c) <=> /\ "exists" \in c.asks => Named(c) # {}
                        /\ "equals" \in c.asks => IF "all" \in c.asks THEN \A a \in Named(c) : equal(a)
                                                  ELSE \E a \in Named(c) : equal(a)
                        /\ counted
  BY <1>3, Zenon DEF CheckMeans
<1>6. CASE ~counted
  <2>1. Answer(c) = "fail"
    BY <1>3, <1>4, <1>6, Zenon DEF evaluate_cbor_matches
  <2> QED
    BY <1>5, <1>6, <2>1
<1>7. CASE counted /\ "equals" \notin c.asks
  <2>1. ~\E n \in c.count : Cardinality(Named(c)) # n
    BY <1>7, Zenon
  <2>2. Answer(c) = Verdict(Named(c) # {})
    BY <1>3, <1>4, <1>7, <2>1, Zenon DEF evaluate_cbor_matches
  <2>3. CheckMeans(c) <=> Named(c) # {}
    BY <1>2, <1>5, <1>7, Zenon
  <2> QED
    BY <2>2, <2>3, VerdictIs, Zenon
<1>8. CASE counted /\ "equals" \in c.asks
  <2>1. ~\E n \in c.count : Cardinality(Named(c)) # n
    BY <1>8, Zenon
  <2>2. /\ c.expected.literal
        /\ \A a \in Named(c) : converted[a] = {ValueAt(c.doc, a)}
    BY <1>2, <1>8
  <2> HIDE DEF converted
  <2>3. /\ ~(~c.expected.literal \/ \E a \in Named(c) : converted[a] = NotConverted)
        /\ \A a \in Named(c) : converted[a] = {c.expected.value} <=> equal(a)
    BY <2>2 DEF NotConverted
  <2>4. Answer(c) = IF "all" \in c.asks
                    THEN Verdict(\A a \in Named(c) : converted[a] = {c.expected.value})
                    ELSE Verdict(\E a \in Named(c) : converted[a] = {c.expected.value})
    BY <1>3, <1>4, <1>8, <2>1, <2>3, Zenon DEF evaluate_cbor_matches, converted
  <2> HIDE DEF equal, counted
  <2>5. CASE "all" \in c.asks
    <3>1. Answer(c) = Verdict(\A a \in Named(c) : equal(a))
      BY <2>3, <2>4, <2>5, Zenon DEF Verdict
    <3>2. CheckMeans(c) <=> \A a \in Named(c) : equal(a)
      BY <1>2, <1>5, <1>8, <2>5, Zenon
    <3> QED
      BY <3>1, <3>2, VerdictIs, Zenon
  <2>6. CASE "all" \notin c.asks
    <3>1. Answer(c) = Verdict(\E a \in Named(c) : equal(a))
      BY <2>3, <2>4, <2>6, Zenon DEF Verdict
    <3>2. (\E a \in Named(c) : equal(a)) => Named(c) # {}
      OBVIOUS
    <3>3. CheckMeans(c) <=> \E a \in Named(c) : equal(a)
      BY <1>5, <1>8, <2>6, <3>2, Zenon
    <3> QED
      BY <3>1, <3>3, VerdictIs, Zenon
  <2> QED
    BY <2>5, <2>6
<1> QED
  BY <1>6, <1>7, <1>8

LEMMA AssertMeans ==
    ASSUME NEW c \in Checks, c.tool \in {"assert", "expect"}
    PROVE  Answer(c) = "pass" <=> CheckMeans(c)
<1>1. /\ c.count = {}
      /\ c.asks \in {{"exists"}, {"not_exists"}, {"equals"}, {"contains"}}
      /\ c.tool = "assert" => c.asks # {"contains"}
  BY CheckAssumption DEF AskedOf
<1> DEFINE equal(a) == ValueAt(c.doc, a) = c.expected.value
           has(a) == contains_value(ValueAt(c.doc, a), c.expected)
<1>2. Answer(c) = IF c.tool = "assert" THEN apply_assertion(c, Named(c))
                  ELSE evaluate_jsonpath(c, Named(c))
  BY MatchesAreNamed DEF Answer
<1>3. CASE c.asks = {"exists"}
  <2>1. Answer(c) = Verdict(Named(c) # {})
    BY <1>2, <1>3 DEF apply_assertion, evaluate_jsonpath
  <2>2. CheckMeans(c) <=> Named(c) # {}
    BY <1>1, <1>3 DEF CheckMeans
  <2> QED
    BY <2>1, <2>2, VerdictIs, Zenon
<1>4. CASE c.asks = {"not_exists"}
  <2>1. Answer(c) = Verdict(Named(c) = {})
    BY <1>2, <1>4 DEF apply_assertion, evaluate_jsonpath
  <2>2. CheckMeans(c) <=> Named(c) = {}
    BY <1>1, <1>4 DEF CheckMeans
  <2> QED
    BY <2>1, <2>2, VerdictIs, Zenon
<1>5. CASE c.asks = {"equals"}
  <2>1. "exists" \notin c.asks /\ "not_exists" \notin c.asks /\ "equals" \in c.asks
    BY <1>5
  <2>2. Answer(c) = Verdict(\E a \in Named(c) : equal(a))
    BY <1>2, <2>1, Zenon DEF apply_assertion, evaluate_jsonpath, jsonpath_equals
  <2>3. "all" \notin c.asks /\ "contains" \notin c.asks /\ "key" \notin c.asks /\ "string" \notin c.asks
    BY <1>5
  <2>4. CheckMeans(c) <=> \E a \in Named(c) : equal(a)
    BY <1>1, <2>1, <2>3, Zenon DEF CheckMeans
  <2> QED
    BY <2>2, <2>4, VerdictIs, Zenon
<1>6. CASE c.asks = {"contains"}
  <2>1. /\ "exists" \notin c.asks /\ "not_exists" \notin c.asks /\ "equals" \notin c.asks
        /\ "contains" \in c.asks /\ c.tool # "assert"
    BY <1>1, <1>6
  <2>2. Answer(c) = Verdict(\E a \in Named(c) : has(a))
    BY <1>2, <2>1, Zenon DEF evaluate_jsonpath
  <2>3. "key" \notin c.asks /\ "string" \notin c.asks
    BY <1>6
  <2>4. CheckMeans(c) <=> \E a \in Named(c) : has(a)
    BY <1>1, <2>1, <2>3, Zenon DEF CheckMeans
  <2> QED
    BY <2>2, <2>4, VerdictIs, Zenon
<1> QED
  BY <1>1, <1>3, <1>4, <1>5, <1>6

LEMMA EveryCheckIsMeant ==
    ASSUME NEW c \in Checks, Comparable(c), ~Overlooked(c)
    PROVE  Answer(c) = "pass" <=> CheckMeans(c)
<1>1. c.tool \in {"json", "cbor", "find", "assert", "expect"}
  BY CheckAssumption DEF AskedOf
<1>2. CASE c.tool = "find"
  <2>1. c.asks \in {{"key"}, {"string"}} /\ c.count = {} /\ IsDocument(c.doc)
    BY <1>2, CheckAssumption DEF Comparable
  <2> QED
    BY <1>2, <2>1, FindMeans
<1> QED
  BY <1>1, <1>2, JsonMeans, CborMeans, AssertMeans

LEMMA InitCheck == CheckInit => check = NoCheck \/ check \in Checks
BY DEF CheckInit

\* A step of a run comes to a check that is made, or leaves the check alone.
LEMMA NextCheck ==
    ASSUME check = NoCheck \/ check \in Checks, [RunNext]_scriptRunVars
    PROVE  (check = NoCheck \/ check \in Checks)'
<1>1. CASE checks_document
  BY <1>1 DEF checks_document, checks
<1>2. CASE ~checks_document
  <2>1. check' = check
    BY <1>2 DEF RunNext, scriptRunVars, reads_script, executes_step, executing, asks_for_packs
  <2> QED
    BY <2>1 DEF NoCheck
<1> QED
  BY <1>1, <1>2

\* A check that a run makes passes exactly when the document is as the check
\* says: parse_path and eval_path as the validator and the two testers have them,
\* find_in_cbor and the verdicts made of their matches (the validator's main.rs,
\* json/assert.rs and lib.rs of the tester), for every document, every path that
\* can be spelt with PathChars and every value expected.
THEOREM ChecksSayWhatIsMeant == RunSpec => []ChecksAreMeant
<1>1. RunInit => check = NoCheck \/ check \in Checks
  BY InitCheck DEF RunInit
<1>2. (check = NoCheck \/ check \in Checks) /\ [RunNext]_scriptRunVars
      => (check = NoCheck \/ check \in Checks)'
  BY NextCheck
<1>3. check = NoCheck \/ check \in Checks => ChecksAreMeant
  BY EveryCheckIsMeant, Zenon DEF ChecksAreMeant
<1> QED
  BY <1>1, <1>2, <1>3, PTL DEF RunSpec

-----------------------------------------------------------------------------
(* What resolve_for finds                                                  *)

Entry == [id: Name, at: Nat \ {0}]
AskerNames == [tenant: Name, team: Name, user: Name]

\* The loop over the keys, for the three there are at most: what it has matched
\* after each key.
LEMMA MatchedIsLoop ==
    ASSUME NEW index, NEW keys, Len(keys) \in 0..3
    PROVE  \E f : /\ f[0] = <<>>
                  /\ \A n \in 1..Len(keys) :
                        f[n] = IF Having(index, keys[n]) = {} THEN f[n - 1]
                               ELSE Append(f[n - 1], index[Min(Having(index, keys[n]))])
                  /\ Matched(index, keys) = f[Len(keys)]
<1> DEFINE Plus(s, n) == IF Having(index, keys[n]) = {} THEN s
                         ELSE Append(s, index[Min(Having(index, keys[n]))])
           one == Plus(<<>>, 1)
           two == Plus(one, 2)
           three == Plus(two, 3)
           Body(g) == [n \in 0..Len(keys) |-> IF n = 0 THEN <<>> ELSE Plus(g[n - 1], n)]
           known == [n \in 0..Len(keys) |->
                        IF n = 0 THEN <<>> ELSE IF n = 1 THEN one ELSE IF n = 2 THEN two ELSE three]
           f == CHOOSE g : g = Body(g)
<1>1. known = Body(known)
  <2> SUFFICES ASSUME NEW n \in 0..Len(keys)
               PROVE  known[n] = IF n = 0 THEN <<>> ELSE Plus(known[n - 1], n)
    OBVIOUS
  <2>1. CASE n = 0
    BY <2>1
  <2>2. CASE n = 1
    <3>1. known[0] = <<>> /\ known[1] = one
      BY <2>2
    <3> HIDE DEF known, Plus
    <3> QED
      BY <2>2, <3>1
  <2>3. CASE n = 2
    BY <2>3
  <2>4. CASE n = 3
    BY <2>4
  <2> QED
    BY <2>1, <2>2, <2>3, <2>4
<1>2. f = Body(f)
  <2> HIDE DEF known, Body
  <2> QED
    BY <1>1
<1>3. Matched(index, keys) = f[Len(keys)]
  BY DEF Matched
<1>4. f[0] = <<>> /\ \A n \in 1..Len(keys) : f[n] = Plus(f[n - 1], n)
  <2> HIDE DEF f, Plus
  <2> QED
    BY <1>2
<1> QED
  <2> HIDE DEF f
  <2> QED
    BY <1>3, <1>4

\* What the loop has matched after n keys: the first entry of each of them
\* that has one, in the order of the keys.
Hit(index, key, e) ==
    /\ Having(index, key) # {} /\ e = index[Min(Having(index, key))]
    /\ e \in Entry /\ e.id = key

MatchesFirst(index, keys, n, s) ==
    /\ s \in Seq(Entry)
    /\ \A i \in 1..Len(s) : \E m \in 1..n : Hit(index, keys[m], s[i])
    /\ \A m \in 1..n : Having(index, keys[m]) # {} => \E i \in 1..Len(s) : s[i].id = keys[m]
    /\ \A i, j \in 1..Len(s), m, k \in 1..n :
          i < j /\ s[i].id = keys[m] /\ s[j].id = keys[k] => m < k

Differ(keys) == \A m, n \in 1..Len(keys) : keys[m] = keys[n] => m = n

LEMMA FirstIsHit ==
    ASSUME NEW index \in Seq(Entry), NEW key, Having(index, key) # {}
    PROVE  /\ Min(Having(index, key)) \in 1..Len(index)
           /\ Hit(index, key, index[Min(Having(index, key))])
           /\ \A j \in Having(index, key) : Min(Having(index, key)) <= j
<1>1. Having(index, key) \in SUBSET Nat /\ DOMAIN index = 1..Len(index)
  BY DEF Having
<1>2. /\ Min(Having(index, key)) \in Having(index, key)
      /\ \A j \in Having(index, key) : Min(Having(index, key)) <= j
  BY <1>1, MinIsLeast
<1>3. Min(Having(index, key)) \in 1..Len(index) /\ index[Min(Having(index, key))].id = key
  BY <1>1, <1>2 DEF Having
<1>4. index[Min(Having(index, key))] \in Entry
  BY <1>3, ElementOfSeq
<1> QED
  BY <1>2, <1>3, <1>4 DEF Hit

LEMMA MatchesOneMore ==
    ASSUME NEW index \in Seq(Entry), NEW keys, Len(keys) \in Nat, Differ(keys),
           NEW n \in 1..Len(keys), NEW s, MatchesFirst(index, keys, n - 1, s),
           NEW t, t = IF Having(index, keys[n]) = {} THEN s
                      ELSE Append(s, index[Min(Having(index, keys[n]))])
    PROVE  MatchesFirst(index, keys, n, t)
<1>1. CASE Having(index, keys[n]) = {}
  <2>1. t = s /\ s \in Seq(Entry)
    BY <1>1 DEF MatchesFirst
  <2>2. \A i \in 1..Len(s) : \E m \in 1..(n - 1) : Hit(index, keys[m], s[i])
    BY DEF MatchesFirst
  <2>3. \A i \in 1..Len(s) : s[i].id # keys[n]
    BY <1>1, <2>2 DEF Hit, Differ
  <2>4. \A m \in 1..n : m = n \/ m \in 1..(n - 1)
    OBVIOUS
  <2>5. \A i \in 1..Len(s) : \E m \in 1..n : Hit(index, keys[m], s[i])
    BY <2>2
  <2>6. \A m \in 1..n : Having(index, keys[m]) # {} => \E i \in 1..Len(s) : s[i].id = keys[m]
    BY <1>1, <2>4 DEF MatchesFirst
  <2>7. \A i, j \in 1..Len(s), m, k \in 1..n :
           i < j /\ s[i].id = keys[m] /\ s[j].id = keys[k] => m < k
    BY <2>3, <2>4 DEF MatchesFirst
  <2> QED
    BY <2>1, <2>5, <2>6, <2>7 DEF MatchesFirst
<1>2. CASE Having(index, keys[n]) # {}
  <2> DEFINE e == index[Min(Having(index, keys[n]))]
  <2>1. Hit(index, keys[n], e)
    BY <1>2, FirstIsHit
  <2>2. e \in Entry /\ e.id = keys[n]
    BY <2>1 DEF Hit
  <2>3. t = Append(s, e) /\ s \in Seq(Entry)
    BY <1>2 DEF MatchesFirst
  <2> HIDE DEF e
  <2>4. /\ t \in Seq(Entry) /\ Len(t) = Len(s) + 1 /\ Len(s) \in Nat
        /\ t[Len(s) + 1] = e
        /\ \A i \in 1..Len(s) : t[i] = s[i]
    BY <2>2, <2>3, AppendProperties
  <2>5. \A i \in 1..Len(t) : i = Len(s) + 1 \/ i \in 1..Len(s)
    BY <2>4
  <2>6. \A m \in 1..n : m = n \/ m \in 1..(n - 1)
    OBVIOUS
  <2>7. \A i \in 1..Len(t) : \E m \in 1..n : Hit(index, keys[m], t[i])
    <3>1. \A i \in 1..Len(s) : \E m \in 1..(n - 1) : Hit(index, keys[m], s[i])
      BY DEF MatchesFirst
    <3> QED
      BY <2>1, <2>4, <2>5, <3>1
  <2>8. \A m \in 1..n : Having(index, keys[m]) # {} => \E i \in 1..Len(t) : t[i].id = keys[m]
    <3>1. \A m \in 1..(n - 1) :
             Having(index, keys[m]) # {} => \E i \in 1..Len(s) : s[i].id = keys[m]
      BY DEF MatchesFirst
    <3>2. 1..Len(s) \subseteq 1..Len(t) /\ Len(s) + 1 \in 1..Len(t)
      BY <2>4
    <3>3. t[Len(s) + 1].id = keys[n]
      BY <2>2, <2>4
    <3>4. ASSUME NEW m \in 1..(n - 1), Having(index, keys[m]) # {}
          PROVE  \E i \in 1..Len(t) : t[i].id = keys[m]
      <4>1. PICK i \in 1..Len(s) : s[i].id = keys[m]
        BY <3>1, <3>4
      <4> QED
        BY <2>4, <3>2, <4>1
    <3> QED
      BY <2>6, <3>2, <3>3, <3>4
  <2>9. ASSUME NEW i \in 1..Len(t), NEW j \in 1..Len(t), NEW m \in 1..n, NEW k \in 1..n,
               i < j, t[i].id = keys[m], t[j].id = keys[k]
        PROVE  m < k
    <3>1. i \in 1..Len(s) /\ t[i] = s[i]
      BY <2>4, <2>5, <2>9
    <3>2. PICK l \in 1..(n - 1) : s[i].id = keys[l]
      BY <3>1 DEF MatchesFirst, Hit
    <3>3. m = l
      BY <2>9, <3>1, <3>2 DEF Differ
    <3>4. CASE j = Len(s) + 1
      <4>1. keys[k] = keys[n]
        BY <2>2, <2>4, <2>9, <3>4
      <4>2. k = n
        BY <4>1 DEF Differ
      <4> QED
        BY <3>3, <4>2
    <3>5. CASE j \in 1..Len(s)
      <4>1. t[j] = s[j]
        BY <2>4, <3>5
      <4>2. PICK o \in 1..(n - 1) : s[j].id = keys[o]
        BY <3>5 DEF MatchesFirst, Hit
      <4>3. k = o
        BY <2>9, <4>1, <4>2 DEF Differ
      <4> QED
        BY <2>9, <3>1, <3>2, <3>3, <3>5, <4>1, <4>2, <4>3 DEF MatchesFirst
    <3> QED
      BY <2>5, <3>4, <3>5
  <2> QED
    BY <2>4, <2>7, <2>8, <2>9 DEF MatchesFirst
<1> QED
  BY <1>1, <1>2

LEMMA MatchedMatches ==
    ASSUME NEW index \in Seq(Entry), NEW keys, Len(keys) \in 0..3, Differ(keys)
    PROVE  MatchesFirst(index, keys, Len(keys), Matched(index, keys))
<1>1. PICK f : /\ f[0] = <<>>
               /\ \A n \in 1..Len(keys) :
                     f[n] = IF Having(index, keys[n]) = {} THEN f[n - 1]
                            ELSE Append(f[n - 1], index[Min(Having(index, keys[n]))])
               /\ Matched(index, keys) = f[Len(keys)]
  BY MatchedIsLoop
<1>2. MatchesFirst(index, keys, 0, f[0])
  <2>1. <<>> \in Seq(Entry) /\ Len(<<>>) = 0
    OBVIOUS
  <2> QED
    BY <1>1, <2>1 DEF MatchesFirst
<1>3. ASSUME NEW n \in 1..Len(keys), MatchesFirst(index, keys, n - 1, f[n - 1])
      PROVE  MatchesFirst(index, keys, n, f[n])
  <2>1. Len(keys) \in Nat
    OBVIOUS
  <2>2. f[n] = IF Having(index, keys[n]) = {} THEN f[n - 1]
               ELSE Append(f[n - 1], index[Min(Having(index, keys[n]))])
    BY <1>1
  <2> QED
    BY <1>3, <2>1, <2>2, MatchesOneMore
<1>4. Len(keys) >= 1 => MatchesFirst(index, keys, 1, f[1])
  <2> SUFFICES ASSUME Len(keys) >= 1 PROVE MatchesFirst(index, keys, 1, f[1])
    OBVIOUS
  <2>1. 1 \in 1..Len(keys) /\ 1 - 1 = 0
    OBVIOUS
  <2> QED
    BY <1>2, <1>3, <2>1
<1>5. Len(keys) >= 2 => MatchesFirst(index, keys, 2, f[2])
  <2> SUFFICES ASSUME Len(keys) >= 2 PROVE MatchesFirst(index, keys, 2, f[2])
    OBVIOUS
  <2>1. 2 \in 1..Len(keys) /\ 2 - 1 = 1
    OBVIOUS
  <2> QED
    BY <1>3, <1>4, <2>1
<1>6. Len(keys) >= 3 => MatchesFirst(index, keys, 3, f[3])
  <2> SUFFICES ASSUME Len(keys) >= 3 PROVE MatchesFirst(index, keys, 3, f[3])
    OBVIOUS
  <2>1. 3 \in 1..Len(keys) /\ 3 - 1 = 2
    OBVIOUS
  <2> QED
    BY <1>3, <1>5, <2>1
<1> QED
  BY <1>1, <1>2, <1>4, <1>5, <1>6

LEMMA TwoInOrder ==
    ASSUME NEW x, NEW y, NEW z
    PROVE  /\ DOMAIN (<<x>> \o <<y>>) = 1..2 /\ Len(<<x>> \o <<y>>) = 2
           /\ (<<x>> \o <<y>>)[1] = x /\ (<<x>> \o <<y>>)[2] = y
           /\ DOMAIN ((<<x>> \o <<y>>) \o <<z>>) = 1..3
           /\ Len((<<x>> \o <<y>>) \o <<z>>) = 3
           /\ ((<<x>> \o <<y>>) \o <<z>>)[1] = x
           /\ ((<<x>> \o <<y>>) \o <<z>>)[2] = y
           /\ ((<<x>> \o <<y>>) \o <<z>>)[3] = z
<1> DEFINE S == {x, y, z}
           two == <<x>> \o <<y>>
<1>1. <<x>> \in Seq(S) /\ <<y>> \in Seq(S) /\ <<z>> \in Seq(S)
  OBVIOUS
<1>2. two \in Seq(S) /\ Len(two) = 2 /\ two[1] = x /\ two[2] = y
  BY <1>1, ConcatProperties
<1> HIDE DEF two, S
<1>3. /\ two \o <<z>> \in Seq(S) /\ Len(two \o <<z>>) = 3
      /\ (two \o <<z>>)[1] = two[1] /\ (two \o <<z>>)[2] = two[2] /\ (two \o <<z>>)[3] = z
  <2>1. /\ two \o <<z>> \in Seq(S) /\ Len(two \o <<z>>) = 2 + Len(<<z>>)
        /\ \A i \in 1..(2 + Len(<<z>>)) :
              (two \o <<z>>)[i] = IF i <= 2 THEN two[i] ELSE <<z>>[i - 2]
    <3>1. /\ two \o <<z>> \in Seq(S) /\ Len(two \o <<z>>) = Len(two) + Len(<<z>>)
          /\ \A i \in 1..(Len(two) + Len(<<z>>)) :
                (two \o <<z>>)[i] = IF i <= Len(two) THEN two[i] ELSE <<z>>[i - Len(two)]
      BY <1>1, <1>2, ConcatProperties
    <3> QED
      BY <1>2, <3>1
  <2>2. Len(<<z>>) = 1 /\ <<z>>[1] = z /\ 3 - 2 = 1
    OBVIOUS
  <2> QED
    BY <2>1, <2>2
<1>4. DOMAIN two = 1..2 /\ DOMAIN (two \o <<z>>) = 1..3
  BY <1>2, <1>3
<1> QED
  BY <1>2, <1>3, <1>4 DEF two

LEMMA LongerDiffers ==
    ASSUME NEW S, NEW s \in Seq(S), NEW t \in Seq(S), NEW u \in Seq(S)
    PROVE  /\ t # <<>> => s # s \o t /\ s # s \o t \o u
           /\ u # <<>> => s \o t # s \o t \o u
<1>1. s \o t \in Seq(S) /\ t \o u \in Seq(S) /\ (s \o t) \o u = s \o (t \o u)
  BY ConcatProperties, ConcatAssociative
<1>2. (s \o t = s <=> t = <<>>) /\ (s \o (t \o u) = s <=> t \o u = <<>>)
  BY <1>1, ConcatEqualIffEmpty
<1>3. t \o u = <<>> <=> t = <<>> /\ u = <<>>
  BY ConcatEqualIffEmpty
<1>4. (s \o t) \o u = s \o t <=> u = <<>>
  <2>1. \A st \in Seq(S) : st \o u = st <=> u = <<>>
    BY ConcatEqualIffEmpty
  <2> QED
    BY <1>1, <2>1, Zenon
<1> QED
  BY <1>1, <1>2, <1>3, <1>4

\* The keys looked for are the ids of the asker's packs, the last one first.
LEMMA DesiredIsOwn ==
    ASSUME NEW a \in AskerNames
    PROVE  /\ Len(Own(a)) \in 0..3 /\ Len(Desired(a)) = Len(Own(a))
           /\ DOMAIN Own(a) = 1..Len(Own(a)) /\ DOMAIN Desired(a) = 1..Len(Own(a))
           /\ \A n \in 1..Len(Own(a)) : Desired(a)[n] = Own(a)[Len(Own(a)) + 1 - n]
           /\ \A m, n \in 1..Len(Own(a)) : Own(a)[m] = Own(a)[n] => m = n
<1> DEFINE pair == a.tenant \o a.team
           triple == a.tenant \o a.team \o a.user
<1>1. a.tenant \in Seq(Parts) /\ a.team \in Seq(Parts) /\ a.user \in Seq(Parts)
  BY DEF AskerNames, Name
<1>3. /\ a.team # <<>> => a.tenant # pair /\ a.tenant # triple
      /\ a.user # <<>> => pair # triple
  BY <1>1, LongerDiffers
<1> HIDE DEF pair, triple
<1>4. CASE a.tenant = <<>>
  BY <1>4 DEF Own, Desired
<1>5. CASE a.tenant # <<>> /\ a.team = <<>>
  <2>1. Own(a) = <<a.tenant>> /\ Desired(a) = <<a.tenant>>
    BY <1>5 DEF Own, Desired
  <2> QED
    BY <2>1
<1>6. CASE a.tenant # <<>> /\ a.team # <<>> /\ a.user = <<>>
  <2>1. Own(a) = <<a.tenant, pair>>
    BY <1>6 DEF Own, pair
  <2>2. /\ DOMAIN Desired(a) = 1..2 /\ Len(Desired(a)) = 2
        /\ Desired(a)[1] = pair /\ Desired(a)[2] = a.tenant
    <3>1. Desired(a) = (<<>> \o <<pair>>) \o <<a.tenant>>
      BY <1>6 DEF Desired, pair
    <3>2. <<pair>> \in Seq({pair})
      OBVIOUS
    <3>3. Desired(a) = <<pair>> \o <<a.tenant>>
      BY <3>1, <3>2, ConcatEmptySeq
    <3> QED
      BY <3>3, TwoInOrder
  <2> QED
    BY <1>3, <1>6, <2>1, <2>2
<1>7. CASE a.tenant # <<>> /\ a.team # <<>> /\ a.user # <<>>
  <2>1. Own(a) = <<a.tenant, pair, triple>>
    BY <1>7 DEF Own, pair, triple
  <2>2. /\ DOMAIN Desired(a) = 1..3 /\ Len(Desired(a)) = 3
        /\ Desired(a)[1] = triple /\ Desired(a)[2] = pair /\ Desired(a)[3] = a.tenant
    <3> DEFINE keys == (<<triple>> \o <<pair>>) \o <<a.tenant>>
    <3>1. Desired(a) = keys
      BY <1>7 DEF Desired, pair, triple
    <3>2. /\ DOMAIN keys = 1..3 /\ Len(keys) = 3
          /\ keys[1] = triple /\ keys[2] = pair /\ keys[3] = a.tenant
      BY TwoInOrder
    <3> QED
      BY <3>1, <3>2
  <2> QED
    BY <1>3, <1>7, <2>1, <2>2
<1> QED
  BY <1>4, <1>5, <1>6, <1>7

\* The keys differ, so for each of them its first entry is matched, in order.
LEMMA DesiredMatches ==
    ASSUME NEW index \in Seq(Entry), NEW a \in AskerNames
    PROVE  MatchesFirst(index, Desired(a), Len(Own(a)), Matched(index, Desired(a)))
<1> DEFINE keys == Desired(a)
           last == Len(Own(a)) + 1
<1>1. /\ Len(Own(a)) \in 0..3 /\ Len(keys) = Len(Own(a))
      /\ \A n \in 1..Len(Own(a)) : keys[n] = Own(a)[last - n]
      /\ \A m, n \in 1..Len(Own(a)) : Own(a)[m] = Own(a)[n] => m = n
  BY DesiredIsOwn
<1>2. ASSUME NEW m \in 1..Len(keys), NEW n \in 1..Len(keys), keys[m] = keys[n]
      PROVE  m = n
  <2>1. /\ last - m \in 1..Len(Own(a)) /\ last - n \in 1..Len(Own(a))
        /\ Own(a)[last - m] = Own(a)[last - n]
    BY <1>1, <1>2
  <2>2. last - m = last - n
    BY <1>1, <2>1
  <2> QED
    BY <1>1, <2>2
<1>3. Differ(keys) /\ Len(keys) \in 0..3
  BY <1>1, <1>2 DEF Differ
<1> QED
  BY <1>1, <1>3, MatchedMatches

\* Whatever the index and the names are: the asker's own packs, if there are
\* any, the most specific first, and otherwise all.
LEMMA ResolvesOverrides ==
    ASSUME NEW index \in Seq(Entry), \A i \in DOMAIN index : index[i].at = i,
           NEW a \in AskerNames
    PROVE  ShowsOverrides(index, a, resolve_for(index, a).resolved)
<1> DEFINE own == Own(a)
           keys == Desired(a)
           last == Len(own) + 1
           matched == Matched(index, keys)
           levels == {Level(a, index[i].id) : i \in DOMAIN index} \ {0}
<1>1. /\ Len(own) \in 0..3 /\ Len(keys) = Len(own) /\ DOMAIN own = 1..Len(own)
      /\ \A n \in 1..Len(own) : keys[n] = own[last - n]
      /\ \A m, n \in 1..Len(own) : own[m] = own[n] => m = n
  <2>1. /\ Len(Own(a)) \in 0..3 /\ Len(Desired(a)) = Len(Own(a))
        /\ DOMAIN Own(a) = 1..Len(Own(a))
        /\ \A n \in 1..Len(Own(a)) : Desired(a)[n] = Own(a)[Len(Own(a)) + 1 - n]
        /\ \A m, n \in 1..Len(Own(a)) : Own(a)[m] = Own(a)[n] => m = n
    BY DesiredIsOwn, Zenon
  <2>2. DOMAIN own = 1..Len(own)
    BY <2>1
  <2>3. \A n \in 1..Len(own) : keys[n] = own[last - n]
    BY <2>1
  <2>4. Len(own) \in 0..3 /\ Len(keys) = Len(own)
    BY <2>1
  <2>5. \A m, n \in 1..Len(own) : own[m] = own[n] => m = n
    BY <2>1
  <2> QED
    BY <2>2, <2>3, <2>4, <2>5
<1>2. \A n \in 1..Len(own) : last - n \in 1..Len(own) /\ last - (last - n) = n
  BY <1>1
<1>3. MatchesFirst(index, keys, Len(own), matched)
  BY DesiredMatches
<1>4. \A n \in 1..Len(own) : Level(a, own[n]) = n
  <2> SUFFICES ASSUME NEW n \in 1..Len(own) PROVE Level(a, own[n]) = n
    OBVIOUS
  <2>1. {k \in DOMAIN own : own[n] = own[k]} = {n}
    BY <1>1
  <2>2. Max({n}) = n
    BY DEF Max
  <2> QED
    BY <2>1, <2>2 DEF Level
<1>5. ASSUME NEW id, Level(a, id) # 0
      PROVE  \E n \in 1..Len(own) : id = own[n] /\ Level(a, id) = n
  <2>1. {k \in DOMAIN own : id = own[k]} # {}
    BY <1>5 DEF Level
  <2> QED
    BY <1>1, <1>4, <2>1
<1>6. \A n \in 1..Len(own) : Level(a, keys[n]) = last - n /\ last - n # 0
  BY <1>1, <1>2, <1>4
<1> HIDE DEF own, keys, last, matched
<1>7. \A i \in 1..Len(matched) : \E n \in 1..Len(own) : Hit(index, keys[n], matched[i])
  BY <1>3 DEF MatchesFirst
<1>8. \A i \in 1..Len(matched) : Level(a, matched[i].id) \in levels
  <2> SUFFICES ASSUME NEW i \in 1..Len(matched) PROVE Level(a, matched[i].id) \in levels
    OBVIOUS
  <2>1. PICK n \in 1..Len(own) : Hit(index, keys[n], matched[i])
    BY <1>7
  <2>2. matched[i].id = keys[n] /\ Having(index, keys[n]) # {}
    BY <2>1 DEF Hit
  <2>3. PICK j \in DOMAIN index : index[j].id = keys[n]
    BY <2>2 DEF Having
  <2> QED
    BY <1>6, <2>2, <2>3
<1>9. ASSUME NEW level \in levels
       PROVE  \E i \in 1..Len(matched) : Level(a, matched[i].id) = level
  <2>1. PICK j \in DOMAIN index : level = Level(a, index[j].id) /\ level # 0
    OBVIOUS
  <2>2. PICK n \in 1..Len(own) : index[j].id = own[n] /\ level = n
    BY <1>5, <2>1
  <2>3. last - n \in 1..Len(own) /\ keys[last - n] = own[n]
    BY <1>1, <1>2
  <2>4. Having(index, keys[last - n]) # {}
    BY <2>2, <2>3 DEF Having
  <2>5. PICK i \in 1..Len(matched) : matched[i].id = keys[last - n]
    BY <1>3, <2>3, <2>4 DEF MatchesFirst
  <2> QED
    BY <2>1, <2>2, <2>3, <2>5
<1>10. matched \in Seq(Entry) /\ DOMAIN matched = 1..Len(matched) /\ Len(matched) \in Nat
  BY <1>3 DEF MatchesFirst
<1>11. matched = <<>> <=> levels = {}
  <2>1. ASSUME matched = <<>> PROVE levels = {}
    <3>1. Len(matched) = 0
      BY <2>1
    <3>2. ~\E i \in 1..Len(matched) : TRUE
      BY <3>1
    <3> HIDE DEF levels
    <3> QED
      BY <1>9, <3>2
  <2>2. ASSUME levels = {} PROVE matched = <<>>
    <3>1. ~(1 \in 1..Len(matched))
      BY <1>8, <2>2
    <3>2. Len(matched) = 0
      BY <1>10, <3>1
    <3> QED
      BY <1>10, <3>2, EmptySeq
  <2> QED
    BY <2>1, <2>2
<1>12. resolve_for(index, a).resolved = IF matched = <<>> THEN index ELSE matched
  BY DEF resolve_for, matched, keys
<1>13. \A i \in DOMAIN matched : Level(a, matched[i].id) \in levels
  BY <1>8, <1>10
<1>14. ASSUME NEW i \in DOMAIN matched, NEW j \in DOMAIN matched, i < j
       PROVE  Level(a, matched[i].id) > Level(a, matched[j].id)
  <2>1. PICK m \in 1..Len(own) : Hit(index, keys[m], matched[i])
    BY <1>7, <1>10
  <2>2. PICK n \in 1..Len(own) : Hit(index, keys[n], matched[j])
    BY <1>7, <1>10
  <2>3. matched[i].id = keys[m] /\ matched[j].id = keys[n]
    BY <2>1, <2>2 DEF Hit
  <2>4. m < n
    BY <1>3, <1>10, <1>14, <2>3 DEF MatchesFirst
  <2>5. Level(a, matched[i].id) = last - m /\ Level(a, matched[j].id) = last - n
    BY <1>6, <2>3
  <2>6. last \in Nat
    BY <1>1 DEF last
  <2> QED
    BY <2>4, <2>5, <2>6
<1>15. ASSUME NEW i \in DOMAIN matched, NEW j \in DOMAIN index, index[j].id = matched[i].id
       PROVE  matched[i].at <= j
  <2>1. PICK n \in 1..Len(own) : Hit(index, keys[n], matched[i])
    BY <1>7, <1>10
  <2>2. /\ matched[i].id = keys[n] /\ Having(index, keys[n]) # {}
        /\ matched[i] = index[Min(Having(index, keys[n]))]
    BY <2>1 DEF Hit
  <2>3. Min(Having(index, keys[n])) \in 1..Len(index)
    BY <2>2, FirstIsHit
  <2>4. j \in Having(index, keys[n])
    BY <1>15, <2>2 DEF Having
  <2>5. Min(Having(index, keys[n])) <= j
    BY <2>2, <2>4, FirstIsHit
  <2>6. matched[i].at = Min(Having(index, keys[n]))
    BY <2>2, <2>3
  <2> QED
    BY <2>5, <2>6
<1>16. \A i \in DOMAIN matched : Level(a, matched[i].id) \in Int
  <2> SUFFICES ASSUME NEW i \in DOMAIN matched PROVE Level(a, matched[i].id) \in Int
    OBVIOUS
  <2>1. PICK n \in 1..Len(own) : Hit(index, keys[n], matched[i])
    BY <1>7, <1>10
  <2>2. Level(a, matched[i].id) = last - n /\ last \in Nat
    BY <1>1, <1>6, <2>1 DEF Hit, last
  <2> QED
    BY <2>2
<1>17. ASSUME NEW level \in levels PROVE Level(a, matched[1].id) >= level
  <2>1. PICK i \in 1..Len(matched) : Level(a, matched[i].id) = level
    BY <1>9
  <2>2. 1 \in DOMAIN matched /\ i \in DOMAIN matched
    BY <1>10, <2>1
  <2>3. i = 1 \/ 1 < i
    BY <1>10, <2>1
  <2>4. Level(a, matched[1].id) \in Int /\ Level(a, matched[i].id) \in Int
    BY <1>16, <2>2
  <2>5. CASE i = 1
    BY <2>1, <2>4, <2>5
  <2>6. CASE 1 < i
    BY <1>14, <2>1, <2>2, <2>4, <2>6
  <2> QED
    BY <2>3, <2>5, <2>6
<1>18. CASE levels = {}
  BY <1>11, <1>12, <1>18 DEF ShowsOverrides
<1>19. CASE levels # {}
  <2>1. resolve_for(index, a).resolved = matched /\ matched # <<>>
    BY <1>11, <1>12, <1>19
  <2> HIDE DEF levels
  <2>2. ShowsOverrides(index, a, matched)
    BY <1>13, <1>14, <1>15, <1>17, <1>19, <2>1 DEF ShowsOverrides, levels
  <2> QED
    BY <2>1, <2>2
<1> QED
  BY <1>18, <1>19

\* What is resolved are entries of the index, each at its own place of it.
LEMMA ResolvesEntries ==
    ASSUME NEW index \in Seq(Entry), \A i \in DOMAIN index : index[i].at = i,
           NEW a \in AskerNames
    PROVE  /\ resolve_for(index, a).resolved \in Seq(Entry)
           /\ \A i \in DOMAIN resolve_for(index, a).resolved :
                 LET e == resolve_for(index, a).resolved[i]
                 IN  e.at \in DOMAIN index /\ index[e.at] = e
<1> DEFINE keys == Desired(a)
           matched == Matched(index, keys)
<1>1. MatchesFirst(index, keys, Len(Own(a)), matched)
  BY DesiredMatches
<1> HIDE DEF keys, matched
<1>2. matched \in Seq(Entry) /\ DOMAIN matched = 1..Len(matched)
  BY <1>1 DEF MatchesFirst
<1>3. ASSUME NEW i \in DOMAIN matched
      PROVE  matched[i].at \in DOMAIN index /\ index[matched[i].at] = matched[i]
  <2>1. PICK n \in 1..Len(Own(a)) : Hit(index, keys[n], matched[i])
    BY <1>1, <1>2 DEF MatchesFirst
  <2>2. Having(index, keys[n]) # {} /\ matched[i] = index[Min(Having(index, keys[n]))]
    BY <2>1 DEF Hit
  <2>3. Min(Having(index, keys[n])) \in DOMAIN index
    BY <2>2, FirstIsHit
  <2> QED
    BY <2>2, <2>3
<1>4. resolve_for(index, a).resolved = IF matched = <<>> THEN index ELSE matched
  BY DEF resolve_for, matched, keys
<1> QED
  BY <1>2, <1>3, <1>4

\* An index is of the packs in their order and, until one of them is replaced,
\* has their ids; only an index is asked for what it shows.
PackQuestion ==
    [command: {"list", "plan"}, tenant: Name, team: Name, user: Name, pack_id: Name,
     defaults: [tenant: Name, team: Name]]

IndexInOrder ==
    packs_at = "indexed" =>
        /\ entries \in Seq(Entry)
        /\ \A i \in DOMAIN entries : entries[i].at = i
QuestionTyped == packs_at = "indexed" => question \in PackQuestion
IndexHasIds ==
    packs_at = "indexed" /\ ~replaced =>
        \A i \in DOMAIN entries : entries[i].id = Or(directory[i].id, Unknown)
PacksInv == IndexInOrder /\ QuestionTyped /\ IndexHasIds /\ PacksFollowOverrides

LEMMA AskerIsOfNames == ASSUME NEW q \in PackQuestion PROVE Asker(q) \in AskerNames
<1>1. \A name, other \in Name : Or(name, other) \in Name
  BY DEF Or
<1>2. Dev \in Name /\ <<>> \in Name
  <2>1. "dev" \in Parts
    BY PacksAssumption
  <2> QED
    BY <2>1 DEF Dev, Name
<1>3. /\ q.tenant \in Name /\ q.team \in Name /\ q.user \in Name
      /\ q.defaults.tenant \in Name /\ q.defaults.team \in Name
  BY DEF PackQuestion
<1> HIDE DEF Name
<1> QED
  BY <1>1, <1>2, <1>3 DEF Asker, AskerNames

LEMMA InitPacksInv == PacksInit => PacksInv
BY DEF PacksInit, PacksInv, IndexInOrder, QuestionTyped, IndexHasIds, PacksFollowOverrides

LEMMA StepIndex ==
    ASSUME PacksInv, NEW q \in Questions, NEW defaults \in Defaults, NEW d \in Directories,
           build_pack_index(q, defaults, d)
    PROVE  PacksInv'
<1>1. CASE packs_at' = "failed"
  BY <1>1 DEF PacksInv, IndexInOrder, QuestionTyped, IndexHasIds, PacksFollowOverrides
<1>2. CASE packs_at' # "failed"
  <2>1. /\ packs_at' = "indexed" /\ directory' = d
        /\ entries' = [i \in DOMAIN d |-> [id |-> Or(d[i].id, Unknown), at |-> i]]
        /\ question' = [command |-> q.command, tenant |-> q.tenant, team |-> q.team,
                        user |-> q.user, pack_id |-> q.pack_id, defaults |-> defaults]
    BY <1>2 DEF build_pack_index
  <2>2. d \in Seq(PackManifest) /\ DOMAIN d = 1..Len(d) /\ Len(d) \in Nat
    BY PacksAssumption
  <2>3. \A i \in DOMAIN d : Or(d[i].id, Unknown) \in Name
    <3>1. Unknown \in Name
      <4>1. "unknown" \in Parts
        BY PacksAssumption
      <4> QED
        BY <4>1 DEF Unknown, Name
    <3>2. \A i \in DOMAIN d : d[i] \in PackManifest
      BY <2>2, ElementOfSeq
    <3> HIDE DEF Name
    <3> QED
      BY <3>1, <3>2 DEF PackManifest, Or
  <2>4. entries' \in [1..Len(d) -> Entry]
    <3> HIDE DEF Name
    <3> QED
      BY <2>1, <2>2, <2>3 DEF Entry
  <2>5. entries' \in Seq(Entry)
    BY <2>2, <2>4
  <2>6. IndexInOrder'
    BY <2>1, <2>5 DEF IndexInOrder
  <2>7. QuestionTyped'
    <3> HIDE DEF Name
    <3> QED
      BY <2>1, PacksAssumption DEF QuestionTyped, PackQuestion
  <2>8. IndexHasIds'
    BY <2>1 DEF IndexHasIds
  <2>9. PacksFollowOverrides'
    BY <2>1 DEF PacksFollowOverrides
  <2> QED
    BY <2>6, <2>7, <2>8, <2>9 DEF PacksInv
<1> QED
  BY <1>1, <1>2

LEMMA StepReplaces ==
    ASSUME PacksInv, NEW i \in DOMAIN directory, NEW m \in Manifests, replaces(i, m)
    PROVE  PacksInv'
BY DEF PacksInv, replaces, IndexInOrder, QuestionTyped, IndexHasIds, PacksFollowOverrides

LEMMA StepList == ASSUME PacksInv, list_packs PROVE PacksInv'
<1>1. /\ packs_at' = "shown" /\ shown' = resolve_for(entries, Asker(question))
      /\ question' = question /\ entries' = entries /\ question.command = "list"
      /\ packs_at = "indexed"
  BY DEF list_packs
<1>2. ShowsOverrides(entries, Asker(question), shown'.resolved)
  BY <1>1, AskerIsOfNames, ResolvesOverrides DEF PacksInv, IndexInOrder, QuestionTyped
<1>3. PacksFollowOverrides'
  BY <1>1, <1>2 DEF PacksFollowOverrides
<1> QED
  BY <1>1, <1>3 DEF PacksInv, IndexInOrder, QuestionTyped, IndexHasIds

LEMMA StepPlan == ASSUME PacksInv, plan_pack PROVE PacksInv'
<1> DEFINE resolved == shown'.resolved
           found == Chosen(resolved, question.pack_id)
           entry == resolved[Min(found)]
<1>1. /\ packs_at = "indexed" /\ question.command = "plan"
      /\ shown' = resolve_for(entries, Asker(question))
      /\ plan' = IF found = {} THEN NoPlan ELSE PlanOf(entry)
      /\ packs_at' = IF plan' = NoPlan THEN "failed" ELSE "shown"
      /\ directory' = directory /\ question' = question /\ entries' = entries
      /\ replaced' = replaced
  BY DEF plan_pack
<1>2. /\ entries \in Seq(Entry) /\ \A i \in DOMAIN entries : entries[i].at = i
      /\ Asker(question) \in AskerNames
  BY <1>1, AskerIsOfNames DEF PacksInv, IndexInOrder, QuestionTyped
<1>3. ShowsOverrides(entries, Asker(question), resolved)
  BY <1>1, <1>2, ResolvesOverrides
<1>4. /\ resolved \in Seq(Entry)
      /\ \A i \in DOMAIN resolved :
            resolved[i].at \in DOMAIN entries /\ entries[resolved[i].at] = resolved[i]
  BY <1>1, <1>2, ResolvesEntries
<1> HIDE DEF resolved
<1>5. CASE plan' = NoPlan
  BY <1>1, <1>5 DEF PacksInv, IndexInOrder, QuestionTyped, IndexHasIds, PacksFollowOverrides
<1>6. CASE plan' # NoPlan
  <2>1. found # {} /\ plan' = PlanOf(entry) /\ packs_at' = "shown"
    BY <1>1, <1>6
  <2>2. found \in SUBSET Nat /\ found \subseteq DOMAIN resolved
    BY <1>4 DEF Chosen
  <2>3. Min(found) \in found /\ \A y \in found : Min(found) <= y
    BY <2>1, <2>2, MinIsLeast
  <2>4. /\ Min(found) \in DOMAIN resolved
        /\ question.pack_id = <<>> \/ entry.id = question.pack_id
    BY <2>3 DEF Chosen
  <2>5. question.pack_id = <<>> => entry = Head(resolved)
    <3> SUFFICES ASSUME question.pack_id = <<>> PROVE entry = Head(resolved)
      OBVIOUS
    <3>1. DOMAIN resolved = 1..Len(resolved) /\ Len(resolved) \in Nat
      BY <1>4
    <3>2. 1 \in DOMAIN resolved
      BY <2>4, <3>1
    <3>3. 1 \in found
      BY <3>2 DEF Chosen
    <3>4. Min(found) = 1
      BY <2>3, <2>4, <3>1, <3>3
    <3>5. resolved # <<>>
      BY <3>2
    <3> QED
      BY <1>4, <3>4, <3>5, HeadTailProperties
  <2> HIDE DEF found, entry
  <2>6. LET m == directory[entry.at]
        IN  m.id # <<>> /\ plan' = [pack_id |-> m.id, runner |-> entry.id]
    BY <1>6, <2>1 DEF PlanOf
  <2>7. plan'.runner = Or(question.pack_id, Head(resolved).id)
    BY <2>4, <2>5, <2>6 DEF Or
  <2>8. entry.at \in DOMAIN entries /\ entries[entry.at] = entry
    BY <1>4, <2>4 DEF entry
  <2>9. ~replaced => plan'.pack_id = plan'.runner
    BY <1>1, <2>6, <2>8 DEF PacksInv, IndexHasIds, Or
  <2>10. PacksFollowOverrides'
    BY <1>1, <1>3, <2>7, <2>9 DEF PacksFollowOverrides, resolved
  <2> QED
    BY <2>1, <2>10 DEF PacksInv, IndexInOrder, QuestionTyped, IndexHasIds
<1> QED
  BY <1>5, <1>6

LEMMA NextPacksInv == PacksInv /\ [PacksNext]_packsVars => PacksInv'
<1> SUFFICES ASSUME PacksInv, [PacksNext]_packsVars PROVE PacksInv'
  OBVIOUS
<1>1. CASE UNCHANGED packsVars
  BY <1>1 DEF packsVars, PacksInv, IndexInOrder, QuestionTyped, IndexHasIds,
              PacksFollowOverrides
<1> QED
  BY <1>1, StepIndex, StepReplaces, StepList, StepPlan DEF PacksNext

\* A step of a run is a step of its `packs` command, or leaves it alone.
LEMMA RunStepIsPacksStep == ASSUME [RunNext]_scriptRunVars PROVE [PacksNext]_packsVars
<1>1. CASE UNCHANGED scriptRunVars
  BY <1>1 DEF scriptRunVars
<1> QED
  BY <1>1 DEF RunNext, reads_script, executes_step, executing, checks_document, asks_for_packs

\* What a `packs` command of a run shows to who asks are his own packs alone,
\* if there are any, the most specific first, and its plan is of the first of
\* them or of the one asked for: load_pack_index, resolve_for and plan_pack
\* (main.rs), for every packs root, every asker and every replacement.
THEOREM PacksAreTheAskers == RunSpec => []PacksFollowOverrides
<1>1. RunInit => PacksInv
  BY InitPacksInv DEF RunInit
<1>2. PacksInv /\ [RunNext]_scriptRunVars => PacksInv'
  BY NextPacksInv, RunStepIsPacksStep
<1>3. PacksInv => PacksFollowOverrides
  BY DEF PacksInv
<1> QED
  BY <1>1, <1>2, <1>3, PTL DEF RunSpec

=============================================================================
