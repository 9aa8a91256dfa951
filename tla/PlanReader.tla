------------------------------ MODULE PlanReader ------------------------------
(***************************************************************************)
(* From .gtest files to the arguments a process is started with: the two   *)
(* readers (greentic_integration_core::parse for --test, gtest/parser.rs   *)
(* for run --gtest), the tokenizer both have, the substitution of           *)
(* variables, and the minimized script that triage writes for the reader   *)
(* to read again.                                                          *)
(*                                                                         *)
(* A line is its characters; what follows the name of a directive is       *)
(* abstracted to what the reader makes of it.                              *)
(***************************************************************************)
EXTENDS Naturals, Sequences, SequencesExt, FiniteSetsExt, TLC

CONSTANTS
    Files, Paths,   \* files of the disk, and the paths that may be written
    Target,         \* Target[p]: the file p leads to (links followed), or None
    Resolve,        \* Resolve[p][t]: the path of an @include t in the file at p
    Texts,          \* what may stand after @include
    Root,           \* the path of the script that is read first
    Minimized,      \* the path of minimized.gtest, copied beside the script
    Inputs,         \* sets of [reader, disk]: what is read, and by which reader
    Scopes,         \* the four maps of variables, as lookup_var asks them
    Runners,        \* the programs whose file name is one of greentic-runner's
    TraceFlags,     \* arguments that ask for a trace: --trace, --trace-out, ...
    TraceArgs,      \* --trace-out and a path in the trace directory of a triage
    None

Readers == {"legacy", "gtest"}

\* Lines: `directive` is what the text after its first character, @ or #,
\* stands for; `to` the text after @include; `args` what the author of a
\* command meant, where that is known: arguments of pieces, each a character or
\* a variable, with the quotes he put it in, maybe those of the piece before.
Chars == {"x", "n", "E", "sp", "sq", "dq", "bs", "nl", "<", "$", "{", "}", "#", "@", "V", "W"}
IdentChars == {"x", "n", "E", "V", "W"}
Styles == {"bare", "single", "double"}
Piece == [is: Seq(Chars), style: Styles, joined: BOOLEAN]
Directives == {"none", "valid", "invalid", "include", "write", "run"}
ScriptLine ==
    [text: Seq(Chars), directive: Directives, to: {None} \cup Texts,
     args: {None} \cup Seq(Seq(Piece))]

ASSUME ReaderAssumption ==
    /\ Target \in [Paths -> Files \cup {None}] /\ None \notin Files \cup Texts
    /\ IsFiniteSet(Files)
    /\ Resolve \in [Paths -> [Texts -> Paths]]
    /\ Root \in Paths /\ Minimized \in Paths /\ Target[Minimized] \in Files
    /\ \A kind \in Inputs : \A in \in kind :
          in.reader \in Readers /\ in.disk \in [Files -> Seq(ScriptLine)]
    /\ \A n \in DOMAIN Scopes : \A v \in DOMAIN Scopes[n] : Scopes[n][v] \in Seq(Chars)
    /\ DOMAIN Scopes \subseteq Nat
    /\ TraceArgs \in Seq(Seq(Chars))

VARIABLES
    reader,   \* which reader
    disk,     \* disk[f]: the lines of f
    script,   \* the path parse_gtest_file is called with
    frames,   \* the calls of parse_gtest_contents: [path, next]
    stack,    \* the include stack of the legacy reader
    steps,    \* the steps read so far
    outcome,  \* "start", "reading", "done", "error"
    kept      \* history: the steps write_plan_file was given, or None

vars == <<reader, disk, script, frames, stack, steps, outcome, kept>>

-----------------------------------------------------------------------------
(* Which lines are read, and which are directives                          *)

\* str::trim, and trim_start_matches('\'') with trim_end_matches('\'').
Stripped(s, c) ==
    LET solid == {i \in DOMAIN s : s[i] # c}
    IN  IF solid = {} THEN <<>> ELSE SubSeq(s, Min(solid), Max(solid))
Trim(s) == Stripped(s, "sp")
Unquoted(s) == Stripped(s, "sq")

Starts(s, c) == s # <<>> /\ s[1] = c

\* Comments and empty lines.  The gtest reader has directives where the
\* legacy reader has comments.
Skipped(r, line) ==
    LET s == Trim(line.text)
    IN  \/ s = <<>>
        \/ r = "legacy" /\ Starts(s, "#")
        \/ r = "gtest" /\ s = <<"#">>
        \/ r = "gtest" /\ \E c \in {"#", "sp"} : IsPrefix(<<"#", c>>, s)

IsDirective(r, line) == Starts(Trim(line.text), IF r = "legacy" THEN "@" ELSE "#")

-----------------------------------------------------------------------------
(* tokenize_command                                                        *)

Token(acc, c) ==
    CASE acc.mode = "normal" /\ c = "sp" ->
            IF acc.current = <<>> THEN acc
            ELSE [acc EXCEPT !.tokens = Append(@, acc.current), !.current = <<>>]
      [] acc.mode = "normal" /\ c = "sq" -> [acc EXCEPT !.mode = "single"]
      [] acc.mode = "normal" /\ c = "dq" -> [acc EXCEPT !.mode = "double"]
      [] acc.mode = "single" /\ c = "sq" -> [acc EXCEPT !.mode = "normal"]
      [] acc.mode = "double" /\ c = "dq" -> [acc EXCEPT !.mode = "normal"]
      [] acc.mode = "double" /\ c = "bs" -> [acc EXCEPT !.mode = "escape"]
      [] acc.mode = "escape" -> [acc EXCEPT !.current = Append(@, IF c = "n" THEN "nl" ELSE c),
                                            !.mode = "double"]
      [] OTHER -> [acc EXCEPT !.current = Append(@, c)]

\* The arguments, or <<>> where the code returns an error: an open quote or
\* escape, or nothing at all.
Tokenize(s) ==
    LET acc[i \in 0..Len(s)] ==
            IF i = 0 THEN [tokens |-> <<>>, current |-> <<>>, mode |-> "normal"]
            ELSE Token(acc[i - 1], s[i])
        end == acc[Len(s)]
        all == IF end.current = <<>> THEN end.tokens ELSE Append(end.tokens, end.current)
    IN  IF end.mode # "normal" THEN <<>> ELSE all

-----------------------------------------------------------------------------
(* substitute                                                              *)

\* lookup_var: @set variables, then @env, then the environment of the
\* process, then the builtin names.
lookup_var(v) ==
    LET scopes == {n \in DOMAIN Scopes : v \in DOMAIN Scopes[n]}
    IN  IF scopes = {} THEN None ELSE Scopes[Min(scopes)][v]

Substituted(acc, c) ==
    CASE acc.mode = "error" -> acc
      [] acc.mode = "text" /\ c = "$" -> [acc EXCEPT !.mode = "dollar"]
      [] acc.mode = "text" /\ c # "$" -> [acc EXCEPT !.out = Append(@, c)]
      [] acc.mode = "dollar" /\ c = "{" -> [acc EXCEPT !.mode = "var", !.var = <<>>]
      [] acc.mode = "dollar" /\ c = "$" -> [acc EXCEPT !.out = Append(@, "$")]
      [] acc.mode = "dollar" /\ c \notin {"{", "$"} ->
            [acc EXCEPT !.out = Append(Append(@, "$"), c), !.mode = "text"]
      [] acc.mode = "var" /\ c # "}" -> [acc EXCEPT !.var = Append(@, c)]
      [] OTHER -> IF \/ acc.var = <<>> \/ ~ToSet(acc.var) \subseteq IdentChars
                     \/ lookup_var(acc.var) = None
                  THEN [acc EXCEPT !.mode = "error"]
                  ELSE [acc EXCEPT !.out = @ \o lookup_var(acc.var), !.mode = "text"]

\* None stands for an error: an unclosed, empty, ill-formed or unknown name.
substitute(s) ==
    LET acc[i \in 0..Len(s)] ==
            IF i = 0 THEN [out |-> <<>>, var |-> <<>>, mode |-> "text"]
            ELSE Substituted(acc[i - 1], s[i])
        end == acc[Len(s)]
    IN  CASE end.mode = "text" -> end.out
          [] end.mode = "dollar" -> Append(end.out, "$")
          [] OTHER -> None

\* A runner that is not asked for a trace is, in the runs of a triage.
IsUntracedRunner(argv) ==
    argv # <<>> /\ argv[1] \in Runners /\ ToSet(argv) \cap TraceFlags = {}
maybe_inject_trace(argv, triaged) ==
    IF triaged /\ IsUntracedRunner(argv) THEN argv \o TraceArgs ELSE argv

\* Mutant: variables are expanded in the line, before it is split.
MutantProcessArgs(step, triaged) ==
    maybe_inject_trace(Tokenize(substitute(Trim(step.raw.text))), triaged)

\* execute_command: the arguments of the process, each expanded on its own.
ProcessArgs(step, triaged) ==
    maybe_inject_trace([i \in DOMAIN step.argv |-> substitute(step.argv[i])], triaged)

-----------------------------------------------------------------------------
(* One line, with the lines of its body                                    *)

\* The first later line that is exactly the terminator, or 0.
Terminator(lines, i, word) ==
    LET ends == {k \in (i + 1)..Len(lines) : lines[k].text = word}
    IN  IF ends = {} THEN 0 ELSE Min(ends)

\* A heredoc: any << in a command, quoted or not, and what follows it.
Markers(s) == {k \in 1..(Len(s) - 1) : s[k] = "<" /\ s[k + 1] = "<"}
HeredocWord(s) == Trim(Unquoted(Trim(SubSeq(s, Min(Markers(s)) + 2, Len(s)))))

Failed == [kind |-> "error", argv |-> <<>>, body |-> <<>>, next |-> 0]
Directive(i) == [kind |-> "directive", argv |-> <<>>, body |-> <<>>, next |-> i + 1]
Command(s, i) ==
    IF Tokenize(s) = <<>> THEN Failed
    ELSE [kind |-> "command", argv |-> Tokenize(s), body |-> <<>>, next |-> i + 1]
\* Mutant: the cursor stays at the opening line.
MutantWithBody(kind, lines, i, end) ==
    IF end = 0 THEN Failed
    ELSE [kind |-> kind, argv |-> <<>>, body |-> SubSeq(lines, i + 1, end - 1), next |-> i + 1]
WithBody(kind, lines, i, end) ==
    IF end = 0 THEN Failed
    ELSE [kind |-> kind, argv |-> <<>>, body |-> SubSeq(lines, i + 1, end - 1), next |-> end + 1]

parse_command_line(lines, i) ==
    LET s == Trim(lines[i].text)
    IN  IF Markers(s) = {} THEN Command(s, i)
        ELSE IF HeredocWord(s) = <<>> THEN Failed
        ELSE WithBody("script", lines, i, Terminator(lines, i, HeredocWord(s)))

\* #WRITE takes a body up to a line EOF; #RUN is a command.
parse_hash_directive(lines, i) ==
    LET s == Trim(lines[i].text)
    IN  CASE lines[i].directive = "valid" -> Directive(i)
          [] lines[i].directive = "run" -> Command(Trim(SubSeq(s, 4, Len(s))), i)
          [] lines[i].directive = "write" ->
                WithBody("directive", lines, i, Terminator(lines, i, <<"E">>))
          [] OTHER -> Failed

\* The legacy reader's parse_directive.
parse_directive(lines, i) == IF lines[i].directive = "valid" THEN Directive(i) ELSE Failed

Parsed(r, lines, i) ==
    IF IsDirective(r, lines[i])
    THEN IF r = "legacy" THEN parse_directive(lines, i) ELSE parse_hash_directive(lines, i)
    ELSE IF r = "legacy" THEN parse_command_line(lines, i)
         ELSE Command(Trim(lines[i].text), i)

StepOf(path, i, line, parsed) ==
    [path |-> path, line_no |-> i, raw |-> line,
     kind |-> parsed.kind, argv |-> parsed.argv, body |-> parsed.body]

-----------------------------------------------------------------------------
(* The readers                                                             *)

\* Mutant: paths are compared as they are written.
MutantKey(p) == p

\* canonicalize_for_stack: the file, or the path where there is none.
Key(p) == IF Target[p] = None THEN p ELSE Target[p]

Init ==
    /\ \E kind \in Inputs : \E in \in kind : reader = in.reader /\ disk = in.disk
    /\ script = Root
    /\ frames = <<>> /\ stack = <<>> /\ steps = <<>>
    /\ outcome = "start"
    /\ kept = None

parse_gtest_file ==
    /\ outcome = "start"
    /\ IF Target[script] = None
       THEN outcome' = "error" /\ UNCHANGED <<frames, stack>>
       ELSE /\ outcome' = "reading"
            /\ frames' = <<[path |-> script, next |-> 1]>>
            /\ stack' = IF reader = "legacy" THEN <<Key(script)>> ELSE <<>>
    /\ UNCHANGED <<reader, disk, script, steps, kept>>

\* The innermost call, its lines and the one it is at.
Frame == Last(frames)
Lines == disk[Target[Frame.path]]
Line == Lines[Frame.next]
AtLine == outcome = "reading" /\ Frame.next <= Len(Lines)
IsInclude == reader = "legacy" /\ IsDirective(reader, Line) /\ Line.directive = "include"
Moved(next) == [frames EXCEPT ![Len(frames)].next = next]

skip_line ==
    /\ AtLine /\ Skipped(reader, Line)
    /\ frames' = Moved(Frame.next + 1)
    /\ UNCHANGED <<reader, disk, script, stack, steps, outcome, kept>>

\* @include: no path, a file that is being read, or one that cannot be, is an
\* error; otherwise parse_gtest_contents calls itself.
include_line ==
    /\ AtLine /\ ~Skipped(reader, Line) /\ IsInclude
    /\ IF Line.to = None
       THEN outcome' = "error" /\ UNCHANGED <<frames, stack>>
       ELSE LET p == Resolve[Frame.path][Line.to]
            IN  IF Contains(stack, Key(p)) \/ Target[p] = None
                THEN outcome' = "error" /\ UNCHANGED <<frames, stack>>
                ELSE /\ stack' = Append(stack, Key(p))
                     /\ frames' = Append(Moved(Frame.next + 1), [path |-> p, next |-> 1])
                     /\ UNCHANGED outcome
    /\ UNCHANGED <<reader, disk, script, steps, kept>>

step_line ==
    /\ AtLine /\ ~Skipped(reader, Line) /\ ~IsInclude
    /\ LET parsed == Parsed(reader, Lines, Frame.next)
       IN  IF parsed.kind = "error"
           THEN outcome' = "error" /\ UNCHANGED <<frames, steps>>
           ELSE /\ steps' = Append(steps, StepOf(Frame.path, Frame.next, Line, parsed))
                /\ frames' = Moved(parsed.next)
                /\ UNCHANGED outcome
    /\ UNCHANGED <<reader, disk, script, stack, kept>>

\* The end of a file.
return ==
    /\ outcome = "reading" /\ Frame.next > Len(Lines)
    /\ frames' = Front(frames)
    /\ stack' = IF Len(frames) = 1 THEN stack ELSE Front(stack)
    /\ outcome' = IF Len(frames) = 1 THEN "done" ELSE "reading"
    /\ UNCHANGED <<reader, disk, script, steps, kept>>

Runs(ss) == Cardinality({i \in DOMAIN ss : ss[i].kind # "directive"})

\* Mutant: only the commands are written.
MutantContents(ss) == LET cs == SelectSeq(ss, LAMBDA s : s.kind # "directive")
                      IN  [i \in DOMAIN cs |-> cs[i].raw]

\* The line each step was read at, without its body.
Contents(ss) == [i \in DOMAIN ss |-> ss[i].raw]

\* minimize_failure found a prefix that still fails, of a plan of several
\* commands; the script it writes is copied beside the others and read.
write_plan_file ==
    /\ outcome = "done" /\ reader = "legacy" /\ kept = None /\ Runs(steps) > 1
    /\ \E best \in DOMAIN steps :
         /\ kept' = SubSeq(steps, 1, best)
         /\ disk' = [disk EXCEPT ![Target[Minimized]] = Contents(kept')]
    /\ script' = Minimized /\ outcome' = "start"
    /\ frames' = <<>> /\ stack' = <<>> /\ steps' = <<>>
    /\ UNCHANGED reader

Next == parse_gtest_file \/ skip_line \/ include_line \/ step_line \/ return \/ write_plan_file

Spec == Init /\ [][Next]_vars

-----------------------------------------------------------------------------
(* Properties                                                              *)

\* No file is read inside itself, through whichever paths and links, so
\* reading always ends.
NoFileInsideItself ==
    \A i, j \in DOMAIN frames :
        Target[frames[i].path] = Target[frames[j].path] => i = j

(* What a script means, file by file.                                      *)

\* The last line of the body a line opens, 0 where it opens none.
BodyEnd(r, lines, i) ==
    LET s == Trim(lines[i].text)
        opens == /\ ~Skipped(r, lines[i])
                 /\ IF IsDirective(r, lines[i]) THEN r = "gtest" /\ lines[i].directive = "write"
                    ELSE r = "legacy" /\ Markers(s) # {}
    IN  IF ~opens THEN 0
        ELSE Terminator(lines, i, IF r = "gtest" THEN <<"E">> ELSE HeredocWord(s))

\* Of each line, the last line of its body; a line in a body has none.
BodyEnds(r, lines) ==
    LET last[i \in 1..Len(lines)] ==
            IF \E j \in 1..(i - 1) : last[j] >= i THEN 0 ELSE BodyEnd(r, lines, i)
    IN  last
InBody(r, lines, i) == \E j \in 1..(i - 1) : BodyEnds(r, lines)[j] >= i

\* What line i of the file at p says, where of[<<inside, q>>] is what the
\* script at q says to whom is inside these files.
LineSays(r, lines, of, inside, p, i) ==
    IF Skipped(r, lines[i]) \/ InBody(r, lines, i) THEN <<>>
    ELSE IF r = "legacy" /\ IsDirective(r, lines[i]) /\ lines[i].directive = "include"
    THEN IF lines[i].to = None THEN <<Failed>> ELSE of[<<inside, Resolve[p][lines[i].to]>>]
    ELSE <<StepOf(p, i, lines[i], Parsed(r, lines, i))>>
FileSays(r, lines, of, inside, p) ==
    [i \in 1..Len(lines) |-> LineSays(r, lines, of, inside, p, i)]

\* What the script at a path says: its steps, an error being a step of kind
\* "error".
Says(r, d) ==
    LET of[read \in (SUBSET Files) \X Paths] ==
            LET file == Target[read[2]]
            IN  IF file = None \/ file \in read[1] THEN <<Failed>>
                ELSE FlattenSeq(FileSays(r, d[file], of, read[1] \cup {file}, read[2]))
    IN  of
Meaning(r, d, path) == Says(r, d)[<<{}, path>>]
IsRefused(meaning) == \E i \in DOMAIN meaning : meaning[i].kind = "error"

\* The plan holds each line of the script that is neither a comment nor in a
\* body once, in order, with what an @include names in its place, found from
\* the directory of the file it stands in.  It is refused only for what is
\* wrong in it: including one file twice is not.
PlanIsMeaning ==
    outcome \in {"done", "error"} =>
        \A meaning \in {Meaning(reader, disk, script)} :
            IF IsRefused(meaning) THEN outcome = "error"
            ELSE outcome = "done" /\ steps = meaning

(* What an author writes for arguments.                                    *)

VariableName(chars) == SubSeq(chars, 3, Len(chars) - 1)
IsVariable(chars) ==
    /\ Len(chars) > 3 /\ IsPrefix(<<"$", "{">>, chars) /\ Last(chars) = "}"
    /\ ToSet(VariableName(chars)) \subseteq IdentChars /\ lookup_var(VariableName(chars)) # None

\* A piece is a variable, a character that opens none, in quotes that can hold
\* it, or nothing between quotes.
IsArgument(arg) ==
    /\ arg # <<>>
    /\ \A i \in DOMAIN arg :
          LET p == arg[i]
          IN  /\ \/ IsVariable(p.is)
                 \/ Len(p.is) = 1 /\ p.is # <<"{">>
                 \/ p.is = <<>> /\ p.style # "bare" /\ ~p.joined
              /\ p.style = "bare" => p.is \notin {<<"sp">>, <<"sq">>, <<"dq">>, <<"nl">>}
              /\ p.style = "single" => p.is \notin {<<"sq">>, <<"nl">>}
              /\ p.joined => i > 1 /\ arg[i - 1].style = p.style

Quote(style) ==
    CASE style = "single" -> <<"sq">> [] style = "double" -> <<"dq">> [] style = "bare" -> <<>>
Escaped(chars) ==
    CASE chars = <<"dq">> -> <<"bs", "dq">> [] chars = <<"bs">> -> <<"bs", "bs">>
      [] chars = <<"nl">> -> <<"bs", "n">> [] OTHER -> chars
Marked(arg, i) ==
    LET p == arg[i]
    IN  (IF p.joined THEN <<>> ELSE Quote(p.style))
        \o (IF p.style = "double" THEN Escaped(p.is) ELSE p.is)
        \o (IF i < Len(arg) /\ arg[i + 1].joined THEN <<>> ELSE Quote(p.style))
MarkedArgument(args, n) ==
    (IF n = 1 THEN <<>> ELSE <<"sp">>)
    \o FlattenSeq([i \in 1..Len(args[n]) |-> Marked(args[n], i)])
LineOf(args) == FlattenSeq([n \in 1..Len(args) |-> MarkedArgument(args, n)])

IsWritten(line) ==
    line.args # None =>
        /\ line.args # <<>> /\ \A n \in DOMAIN line.args : IsArgument(line.args[n])
        /\ line.text = LineOf(line.args) /\ line.text[1] \notin {"#", "@"}

ASSUME WritingAssumption ==
    \A kind \in Inputs : \A in \in kind : \A f \in Files : \A i \in DOMAIN in.disk[f] :
        IsWritten(in.disk[f][i])

\* The characters of an argument, and those it stands for.
Unmarked(arg) == FlattenSeq([i \in 1..Len(arg) |-> arg[i].is])
MeantBy(chars) == IF IsVariable(chars) THEN lookup_var(VariableName(chars)) ELSE chars
MeantArgument(arg) == FlattenSeq([i \in 1..Len(arg) |-> MeantBy(arg[i].is)])

\* The arguments meant, but for '' and "", which nothing is made of.
Meant(args) ==
    FlattenSeq([n \in 1..Len(args) |->
        IF Unmarked(args[n]) = <<>> THEN <<>> ELSE <<MeantArgument(args[n])>>])

IsPlainCommand(line) == line.args # None /\ ~(reader = "legacy" /\ Markers(line.text) # {})

\* A process gets the arguments the author quoted, however they were quoted,
\* each with its variables replaced by the value of the nearest scope, which
\* is neither split nor read again, so that one of an empty value is still an
\* argument; after them, in a triage, come the two that ask a runner for a trace
\* it was not asked for.  But an argument written as nothing between quotes is
\* dropped, a line of no other is refused, and the legacy reader takes a line
\* with << in it for a heredoc even where it is quoted.
ProcessGetsMeantArgs ==
    /\ \A i \in DOMAIN steps : IsPlainCommand(steps[i].raw) =>
          LET meant == Meant(steps[i].raw.args)
          IN  /\ steps[i].kind = "command"
              /\ ProcessArgs(steps[i], FALSE) = meant
              /\ reader = "legacy" =>
                    ProcessArgs(steps[i], TRUE) =
                        (IF IsUntracedRunner(meant) THEN meant \o TraceArgs ELSE meant)
    /\ AtLine /\ IsPlainCommand(Line) =>
          (Parsed(reader, Lines, Frame.next).kind = "error" <=> Meant(Line.args) = <<>>)

\* The steps, wherever they were read.
Essence(ss) == [i \in DOMAIN ss |-> <<ss[i].kind, ss[i].argv, ss[i].body>>]
ReadsBack ==
    kept # None =>
        /\ outcome # "error"
        /\ outcome = "done" => Essence(steps) = Essence(kept)

\* A minimized script without heredocs reads back as the steps that failed.
PlainMinimizedReadsBack ==
    (kept # None /\ \A i \in DOMAIN kept : kept[i].kind # "script") => ReadsBack

\* "Copy `minimized.gtest` into `tests/gtests/`" (docs/flake-triage.md:33):
\* the script that triage wrote is one that can be run.
MinimizedReadsBack == ReadsBack
=============================================================================
