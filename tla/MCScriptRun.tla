------------------------------ MODULE MCScriptRun ------------------------------
(* Small instances of ScriptRun: the scripts of MCPlanReader, and five of     *)
(* one step each that is executed.                                            *)
EXTENDS MCPlanReader, ScriptRun

\* A command of either reader, an @set of the legacy one, a check and a
\* `packs` command.
Expect == Plain(<<"#", "E">>, "valid", None)
Exec == Plain(<<"E", "sp", "x">>, "none", None)
Set == Plain(<<"@", "E">>, "valid", None)
Packs == Plain(<<"E", "sp", "E">>, "none", None)
MCPacks == Packs.text
MCChecking == Expect.text
MCScripts ==
    MCInputs \cup {{[reader |-> "legacy", disk |-> OnDisk(<<Exec>>, << >>, << >>)],
                    [reader |-> "gtest", disk |-> OnDisk(<<Exec>>, << >>, << >>)],
                    [reader |-> "legacy", disk |-> OnDisk(<<Set>>, << >>, << >>)],
                    [reader |-> "gtest", disk |-> OnDisk(<<Expect>>, << >>, << >>)],
                    [reader |-> "gtest", disk |-> OnDisk(<<Packs>>, << >>, << >>)]}}

\* A child alone that writes up to two bytes and ends in every way; one that
\* starts a descendant before, between and after what it writes; and longer
\* text, some of it of characters of two bytes, around the two limits.
Alone ==
    {[child |-> ops \o <<end>>, kid |-> <<"0">>] :
        ops \in UNION {[1..n -> {"a", "e"}] : n \in 0..2}, end \in Ends}
Forking ==
    {[child |-> ops \o <<end>>, kid |-> k] :
        ops \in {<<"fork">>, <<"a", "fork">>, <<"fork", "a">>, <<"fork", "e", "close">>,
                 <<"a", "a", "fork">>},
        end \in Ends,
        k \in {<<"0">>, <<"hang">>, <<"a", "0">>, <<"e", "hang">>, <<"a", "close", "hang">>,
               <<"close", "hang">>}}
Long ==
    {[child |-> ops \o <<"0">>, kid |-> <<"0">>] :
        ops \in {<<"a", "a", "a", "a">>, <<"e", "a", "e", "e", "e">>, <<"h", "t", "a">>,
                 <<"a", "h", "t", "a">>, <<"h", "a", "a">>, <<"a", "a", "h", "t">>}}
MCTrees == Alone \cup Forking \cup Long
MCPrograms == [text \in {Exec.text, Set.text} |-> MCTrees]

-----------------------------------------------------------------------------
(* Checks                                                                  *)

a == <<"a">>
b == <<"b">>
Number == <<>> :> <<"number", "1">>
Text(chars) == <<>> :> <<"text", chars>>
Bytes == <<>> :> <<"bytes">>

\* A node with its children: <<step, document>>.
Node(label, children) ==
    [at \in {<<>>} \cup UNION {{<<c[1]>> \o below : below \in DOMAIN c[2]} : c \in children} |->
        IF at = <<>> THEN label
        ELSE (CHOOSE c \in children : c[1] = Head(at))[2][Tail(at)]]
List(items) == Node(<<"list">>, {<<IndexStep(i - 1), items[i]>> : i \in DOMAIN items})
Map1(k, value) == Node(<<"map">>, {<<k, value>>})
Map2(k, value, l, other) == Node(<<"map">>, {<<k, value>>, <<l, other>>})

\* Lists of nothing, of unlike items, of bytes, and of maps with and without a key.
Lists == {List(<<>>), List(<<Number>>), List(<<Number, Text(a)>>), List(<<Text(a), Bytes>>),
          List(<<Map1(KeyStep(a), Number), Map1(KeyStep(a), Text(a)), Map1(KeyStep(b), Number)>>)}
Around(list) ==
    {list, Map1(KeyStep(a), list), Map1(KeyStep(a), Map1(KeyStep(b), list)),
     Map2(KeyStep(a), Map1(KeyStep(b), Text(a \o b)), KeyStep(<<"a", ".", "b">>), list),
     Map2(KeyStep(a), Map1(<<"other", 0>>, list), KeyStep(<<"1">>), Number)}
Docs == UNION {Around(list) : list \in Lists}
Odd == Map2(KeyStep(<<>>), Map1(KeyStep(<<"[">>), List(<<Number>>)), KeyStep(<<"*">>), List(<<Text(a)>>))

\* The ways to write a path: a plain key after a dot or in quotes, any other
\* in quotes alone.
Spelt(segment, first) ==
    LET key == segment[2]
        quoted == <<"[", "dq">> \o key \o <<"dq", "]">>
    IN  CASE segment = AnyIndex -> {<<"[", "*", "]">>}
          [] segment[1] = "index" -> {<<"[", ToString(segment[2]), "]">>}
          [] key = <<>> \/ ToSet(key) \cap {".", "["} # {} -> {quoted}
          [] OTHER -> {quoted, (IF first THEN <<>> ELSE <<".">>) \o key}
Spellings(meant) ==
    {[meant |-> meant, spelt |-> spelt, text |-> FlattenSeq(spelt)] :
        spelt \in {s \in [DOMAIN meant -> UNION {Spelt(meant[i], first) :
                                                     i \in DOMAIN meant, first \in BOOLEAN}] :
                      \A i \in DOMAIN meant : s[i] \in Spelt(meant[i], i = 1)}}

Indices == {IndexStep(0), IndexStep(1), AnyIndex}
Keys == {KeyStep(a), KeyStep(b), KeyStep(<<"a", ".", "b">>), KeyStep(<<"1">>), KeyStep(<<"*">>),
         KeyStep(<<"[">>), KeyStep(<<>>)}
Meanings ==
    [1..1 -> Keys \cup Indices] \cup [1..2 -> Keys \cup Indices]
    \cup {<<KeyStep(<<>>), KeyStep(<<"[">>), i>> : i \in Indices}
Plainly(meant) == CHOOSE p \in Spellings(meant) : \A q \in Spellings(meant) : Len(p.text) <= Len(q.text)
Selected == {Plainly(m) : m \in {<<AnyIndex>>, <<IndexStep(1)>>, <<KeyStep(a)>>,
    <<AnyIndex, KeyStep(a)>>, <<KeyStep(a), AnyIndex>>, <<KeyStep(a), IndexStep(0)>>,
    <<KeyStep(a), KeyStep(b)>>, <<KeyStep(a), KeyStep(b), AnyIndex>>,
    <<KeyStep(a), AnyIndex, KeyStep(a)>>}}

Expected(raw, literal, value) == [raw |-> raw, literal |-> literal, value |-> value]
Nothing == Expected(<<>>, FALSE, Text(<<>>))
Values == {Expected(<<"1">>, TRUE, Number), Expected(<<"dq", "a", "dq">>, TRUE, Text(a)),
           Expected(a, FALSE, Text(a)), Expected(<<"[", "]">>, TRUE, List(<<>>))}

Askings ==
    {<<"json", asks, {}, Nothing>> : asks \in {{"exists"}, {}}}
    \cup {<<"json", asks, {}, v>> : asks \in {{"equals"}, {"exists", "equals"}}, v \in Values}
    \cup {<<"cbor", {"exists"}, count, Nothing>> : count \in {{}, {1}, {2}}}
    \cup {<<"cbor", asks, count, v>> :
             asks \in {{"equals"}, {"exists", "equals"}, {"equals", "all"}}, count \in {{}, {2}},
             v \in Values}
    \cup {<<tool, asks, {}, Nothing>> :
             tool \in {"assert", "expect"}, asks \in {{"exists"}, {"not_exists"}}}
    \cup {<<tool, {"equals"}, {}, v>> : tool \in {"assert", "expect"}, v \in Values}
    \cup {<<"expect", {"contains"}, {}, v>> : v \in Values}

MCChecks ==
    {c \in {Check(q[1], d, p, q[2], q[3], q[4]) : d \in Docs, p \in Selected, q \in Askings} :
        c.tool = "cbor" \/ IsJson(c.doc)}
    \cup {Check(tool, d, p, {"exists"}, {}, Nothing) :
             tool \in {"json", "cbor", "assert", "expect"},
             d \in {x \in {Odd} \cup Around(List(<<Number, Text(a)>>)) : IsJson(x)},
             p \in UNION {Spellings(m) : m \in Meanings}}
    \cup {Check("find", d, CHOOSE p \in Selected : TRUE, asks, {}, v) :
             d \in Docs, asks \in {{"key"}, {"string"}},
             v \in {Expected(k, FALSE, Text(k)) : k \in {a, b, a \o b}}}

-----------------------------------------------------------------------------
(* Packs                                                                   *)

Of(id) == Manifest(TRUE, id, TRUE)
t == <<"t">>
team == <<"m">>
user == <<"s">>
blank == <<"">>
Installed == {Of(t), Of(t \o team), Of(t \o team \o user), Of(<<"u">>), Of(<<>>), Of(blank),
              Manifest(TRUE, t, FALSE), Manifest(FALSE, t, FALSE)}

\* Up to two packs of every kind, and three that override each other.
MCDirectories ==
    Scripts(Installed, 2)
    \cup {d \in [1..3 -> {Of(t), Of(t \o team), Of(t \o team \o user)}] : IsInjective(d)}
MCManifests == {Of(<<"u">>), Of(<<>>), Manifest(FALSE, t, FALSE)}
MCDefaults == {[tenant |-> <<>>, team |-> <<>>], [tenant |-> t, team |-> team],
               [tenant |-> <<"u">>, team |-> team]}
MCQuestions ==
    [command: {"list"}, tenant: {<<>>, t, blank}, team: {<<>>, team}, user: {<<>>, user}, pack_id: {<<>>}]
    \cup [command: {"plan"}, tenant: {<<>>, t}, team: {<<>>}, user: {<<>>},
          pack_id: {<<>>, t, <<"u">>}]

=============================================================================
