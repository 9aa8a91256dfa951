------------------------------ MODULE JsonChecks ------------------------------
(***************************************************************************)
(* The checks of a document that scripts make: `validator json path`,      *)
(* `validator cbor path` and `cbor find`, @assert jsonpath of --test and   *)
(* #EXPECT_JSONPATH of run --gtest.  Each of the four has a path parser    *)
(* and an evaluator of its own, three times the same code.                 *)
(*                                                                         *)
(* A document is the function from the addresses of its nodes to their     *)
(* labels; an address is the steps from the root: the key of a map         *)
(* ("other" for a CBOR key that is not text) or the index in a list.       *)
(***************************************************************************)
EXTENDS Naturals, Sequences, SequencesExt, FiniteSetsExt, Functions

CONSTANT Checks   \* the checks that are made, see Check

\* A check: the tool, the document, the path the author meant, how he spelt
\* each of its steps and the text this makes, what is asked, how many matches
\* are asked for (none or one number), and the value expected: what is written,
\* whether that is a JSON literal, and the document it stands for.
AskedOf ==
    [json |-> SUBSET {"exists", "equals"}, cbor |-> SUBSET {"exists", "equals", "all"},
     find |-> SUBSET {"key", "string"}, assert |-> {{"exists"}, {"not_exists"}, {"equals"}},
     expect |-> {{"exists"}, {"not_exists"}, {"equals"}, {"contains"}}]
Check(tool, doc, path, asks, count, expected) ==
    [tool |-> tool, doc |-> doc, meant |-> path.meant, spelt |-> path.spelt, text |-> path.text,
     asks |-> asks, count |-> count, expected |-> expected]

PathChars == {"a", "b", "0", "1", ".", "*", "[", "]", "dq"}
NodeSteps == ({"key"} \X Seq(PathChars)) \cup ({"index", "other"} \X Nat)
IsDocument(doc) ==
    /\ <<>> \in DOMAIN doc /\ IsFiniteSet(DOMAIN doc)
    /\ \A at \in DOMAIN doc : at \in Seq(NodeSteps) /\ (at # <<>> => Front(at) \in DOMAIN doc)
IsJson(doc) ==
    \A at \in DOMAIN doc : doc[at] # <<"bytes">> /\ \A i \in DOMAIN at : at[i][1] # "other"

ASSUME CheckAssumption ==
    /\ \A c \in Checks :
          /\ c.tool \in DOMAIN AskedOf /\ c.asks \in AskedOf[c.tool]
          /\ c.tool # "cbor" => c.count = {}
    /\ \A doc \in {c.doc : c \in Checks} : IsDocument(doc)
    /\ \A doc \in {c.doc : c \in {c \in Checks : c.tool \notin {"cbor", "find"}}} : IsJson(doc)

VARIABLE check   \* the check a script has come to, or NoCheck

NoCheck == [tool |-> "none"]

-----------------------------------------------------------------------------
(* parse_path                                                              *)

KeyStep(k) == <<"key", k>>
IndexStep(n) == <<"index", n>>
AnyIndex == <<"any">>

Digits == {"0", "1"}
NumberOf(s) == FoldLeft(LAMBDA n, c : 10 * n + (IF c = "1" THEN 1 ELSE 0), 0, s)

Flushed(acc) ==
    IF acc.current = <<>> THEN acc
    ELSE [acc EXCEPT !.segments = Append(@, KeyStep(acc.current)), !.current = <<>>]

\* What stands between brackets: *, a key in quotes, or a number (the code
\* also takes a leading +).
IsQuoted(s) == Len(s) >= 2 /\ s[1] = "dq" /\ Last(s) = "dq"
Closed(acc) ==
    LET s == acc.inner
        is(segment) == [acc EXCEPT !.segments = Append(@, segment), !.mode = "plain"]
    IN  CASE s = <<"*">> -> is(AnyIndex)
          [] IsQuoted(s) -> is(KeyStep(SubSeq(s, 2, Len(s) - 1)))
          [] s # <<>> /\ ToSet(s) \subseteq Digits -> is(IndexStep(NumberOf(s)))
          [] OTHER -> [acc EXCEPT !.mode = "error"]

PathStep(acc, c) ==
    CASE acc.mode = "error" -> acc
      [] acc.mode = "bracket" ->
            IF c = "]" THEN Closed(acc) ELSE [acc EXCEPT !.inner = Append(@, c)]
      [] acc.mode = "plain" /\ c = "." -> Flushed(acc)
      [] acc.mode = "plain" /\ c = "[" ->
            [Flushed(acc) EXCEPT !.mode = "bracket", !.inner = <<>>]
      [] OTHER -> [acc EXCEPT !.current = Append(@, c)]

\* The segments, or <<>> for an error.  An open bracket is closed by the end.
parse_path(text) ==
    LET acc[i \in 0..Len(text)] ==
            IF i = 0
            THEN [segments |-> <<>>, current |-> <<>>, inner |-> <<>>, mode |-> "plain"]
            ELSE PathStep(acc[i - 1], text[i])
        read == acc[Len(text)]
        end == Flushed(IF read.mode = "bracket" THEN Closed(read) ELSE read)
    IN  IF end.mode = "error" THEN <<>> ELSE end.segments

-----------------------------------------------------------------------------
(* The evaluators                                                          *)

\* The nodes one segment leads to from the node at `at`: the value of a key,
\* an item, or all items of a list.
Followed(doc, at, segment) ==
    IF segment = AnyIndex
    THEN {b \in DOMAIN doc : b # <<>> /\ Front(b) = at /\ Last(b)[1] = "index"}
    ELSE {Append(at, segment)} \cap DOMAIN doc

\* The addresses of the matches.
eval_path(doc, segments) ==
    LET current[n \in 0..Len(segments)] ==
            IF n = 0 THEN {<<>>}
            ELSE UNION {Followed(doc, at, segments[n]) : at \in current[n - 1]}
    IN  current[Len(segments)]

\* The value of the node at an address, a document again.
ValueAt(doc, at) ==
    LET below == {SubSeq(b, Len(at) + 1, Len(b)) : b \in {b \in DOMAIN doc : IsPrefix(at, b)}}
    IN  [b \in below |-> doc[at \o b]]

\* cbor_to_json drops the entries whose key is not text, and has no answer
\* where bytes are left.
NotConverted == {}
cbor_to_json(value) ==
    LET kept == {b \in DOMAIN value : \A i \in DOMAIN b : b[i][1] # "other"}
    IN  IF \E b \in kept : value[b] = <<"bytes">> THEN NotConverted ELSE {Restrict(value, kept)}

Verdict(passes) == IF passes THEN "pass" ELSE "fail"

evaluate_path_matches(c, found) ==
    IF c.asks \cap {"exists", "equals"} = {} THEN "error"
    ELSE IF "exists" \in c.asks /\ found # {} THEN "pass"
    ELSE IF "equals" \notin c.asks THEN "fail"
    ELSE IF ~c.expected.literal THEN "error"
    ELSE Verdict(\E a \in found : ValueAt(c.doc, a) = c.expected.value)

\* Mutant: the count is checked after --exists.
MutantEvaluateCborMatches(c, found) ==
    IF c.asks = {"exists"} /\ found # {} THEN "pass"
    ELSE Verdict(\E a \in found : ValueAt(c.doc, a) = c.expected.value)

evaluate_cbor_matches(c, found) ==
    LET converted == [a \in found |-> cbor_to_json(ValueAt(c.doc, a))]
        equal(a) == converted[a] = {c.expected.value}
    IN  IF c.asks \cap {"exists", "equals"} = {} THEN "error"
        ELSE IF \E n \in c.count : Cardinality(found) # n THEN "fail"
        ELSE IF "equals" \notin c.asks THEN Verdict(found # {})
        ELSE IF ~c.expected.literal \/ \E a \in found : converted[a] = NotConverted THEN "error"
        ELSE IF "all" \in c.asks THEN Verdict(\A a \in found : equal(a))
        ELSE Verdict(\E a \in found : equal(a))

\* contains_value: a substring of a text, or an item of a list.
Within(s, t) == \E i \in 0..(Len(t) - Len(s)) : SubSeq(t, i + 1, i + Len(s)) = s
contains_value(value, expected) ==
    \/ value[<<>>][1] = "text" /\ Within(expected.raw, value[<<>>][2])
    \/ /\ value[<<>>] = <<"list">>
       /\ \E b \in DOMAIN value : Len(b) = 1 /\ ValueAt(value, b) = expected.value

\* What is expected and is not a JSON literal stands for the text itself.
jsonpath_equals(c, found) == \E at \in found : ValueAt(c.doc, at) = c.expected.value

evaluate_jsonpath(c, found) ==
    IF "exists" \in c.asks THEN Verdict(found # {})
    ELSE IF "not_exists" \in c.asks THEN Verdict(found = {})
    ELSE IF "equals" \in c.asks THEN Verdict(jsonpath_equals(c, found))
    ELSE IF "contains" \in c.asks
    THEN Verdict(\E at \in found : contains_value(ValueAt(c.doc, at), c.expected))
    ELSE "error"

apply_assertion(c, found) ==
    IF "exists" \in c.asks THEN Verdict(found # {})
    ELSE IF "not_exists" \in c.asks THEN Verdict(found = {})
    ELSE IF "equals" \in c.asks THEN Verdict(jsonpath_equals(c, found))
    ELSE "error"

\* find_in_cbor, from the leaves up.
find_in_cbor(c) ==
    LET found[a \in DOMAIN c.doc] ==
            LET children == {b \in DOMAIN c.doc : b # <<>> /\ Front(b) = a}
            IN  \/ \E b \in children :
                       \/ found[b]
                       \/ "key" \in c.asks /\ Last(b) = KeyStep(c.expected.raw)
                \/ "string" \in c.asks /\ c.doc[a] = <<"text", c.expected.raw>>
    IN  IF Cardinality(c.asks) # 1 THEN "error" ELSE Verdict(found[<<>>])

\* The matches of the path as it is written.
Matches(c) == eval_path(c.doc, parse_path(c.text))
handle_json(c) == evaluate_path_matches(c, Matches(c))
handle_cbor(c) == evaluate_cbor_matches(c, Matches(c))

\* What the tool says.
Answer(c) ==
    IF c.tool = "find" THEN find_in_cbor(c)
    ELSE IF parse_path(c.text) = <<>> THEN "error"
    ELSE CASE c.tool = "json" -> handle_json(c)
           [] c.tool = "cbor" -> handle_cbor(c)
           [] c.tool = "assert" -> apply_assertion(c, Matches(c))
           [] OTHER -> evaluate_jsonpath(c, Matches(c))

CheckInit == check = NoCheck

\* A script comes to a check; it is made once.
checks ==
    /\ check = NoCheck
    /\ check' \in Checks

-----------------------------------------------------------------------------
(* Properties                                                              *)

\* The ways to write a step of a path: in brackets, a key in quotes; or a key
\* after a dot.
IsSpelt(step, first, s) ==
    LET inner == SubSeq(s, 2, Len(s) - 1)
        key == step[2]
    IN  \/ step = AnyIndex /\ s = <<"[", "*", "]">>
        \/ /\ inner # <<>> /\ ToSet(inner) \subseteq Digits /\ s = <<"[">> \o inner \o <<"]">>
           /\ step = IndexStep(NumberOf(inner))
        \/ step[1] = "key" /\ "]" \notin ToSet(key) /\ s = <<"[", "dq">> \o key \o <<"dq", "]">>
        \/ /\ step[1] = "key" /\ key # <<>> /\ ToSet(key) \cap {".", "["} = {}
           /\ s = (IF first THEN <<>> ELSE <<".">>) \o key
IsPath(path) ==
    /\ path.meant \in Seq(NodeSteps \cup {AnyIndex}) /\ path.meant # <<>>
    /\ path.spelt \in Seq(Seq(PathChars)) /\ Len(path.spelt) = Len(path.meant)
    /\ \A i \in 1..Len(path.meant) : IsSpelt(path.meant[i], i = 1, path.spelt[i])
    /\ path.text = FlattenSeq(path.spelt)

ASSUME SpellingAssumption ==
    \A path \in {[meant |-> c.meant, spelt |-> c.spelt, text |-> c.text] :
                    c \in {c \in Checks : c.tool # "find"}} : IsPath(path)

\* The nodes an author means: those whose address has a step for each he
\* named, the key, the index or any index.
Fits(step, meant) == step = meant \/ (meant = AnyIndex /\ step[1] = "index")
Named(c) == {a \in DOMAIN c.doc :
                Len(a) = Len(c.meant) /\ \A i \in DOMAIN a : Fits(a[i], c.meant[i])}

CheckMeans(c) ==
    LET equal(a) == ValueAt(c.doc, a) = c.expected.value
        asks(what) == what \in c.asks
    IN  /\ asks("exists") => Named(c) # {}
        /\ asks("not_exists") => Named(c) = {}
        /\ asks("equals") => IF asks("all") THEN \A a \in Named(c) : equal(a)
                             ELSE \E a \in Named(c) : equal(a)
        /\ asks("contains") => \E a \in Named(c) : contains_value(ValueAt(c.doc, a), c.expected)
        /\ asks("key") => \E a \in DOMAIN c.doc : a # <<>> /\ Last(a) = KeyStep(c.expected.raw)
        /\ asks("string") => <<"text", c.expected.raw>> \in Range(c.doc)
        /\ \A n \in c.count : Cardinality(Named(c)) = n

\* What no tool decides: a check that asks for nothing, or for two things to
\* find, and in a validator a value that is no JSON literal, CBOR bytes and keys
\* that are not text.
Comparable(c) ==
    /\ c.tool \in {"json", "cbor"} => c.asks \cap {"exists", "equals"} # {}
    /\ c.tool = "find" => c.asks \in {{"key"}, {"string"}}
    /\ "equals" \in c.asks =>
          /\ c.tool \in {"json", "cbor"} => c.expected.literal
          /\ c.tool = "cbor" =>
                \A a \in Named(c) : cbor_to_json(ValueAt(c.doc, a)) = {ValueAt(c.doc, a)}

\* What it does not look at: beside --exists, the value of --eq in JSON, and
\* in CBOR, with --all, whether there is a match.
Overlooked(c) ==
    /\ {"exists", "equals"} \subseteq c.asks
    /\ c.tool = "json" \/ "all" \in c.asks

\* A check passes exactly when the document is as the check says, however the
\* path is written and whichever of the four tools makes it, but for what the
\* validator cannot compare or does not look at.
ChecksAreMeant ==
    check # NoCheck /\ Comparable(check) /\ ~Overlooked(check) =>
        (Answer(check) = "pass" <=> CheckMeans(check))

=============================================================================
