----------------------------- MODULE MCPlanReader -----------------------------
(* Small instances of PlanReader.                                          *)
EXTENDS PlanReader

CONSTANTS main, sub, leaf, repro

\* A directory with sub and leaf, above it main, repro and a link to leaf.
\* What an include names depends on the directory of the file it stands in.
MCPaths == {"main", "dir/sub", "dir/leaf", "leaf", "repro", "lost"}
MCTarget == [p \in MCPaths |->
    CASE p = "main" -> main
      [] p = "dir/sub" -> sub
      [] p \in {"dir/leaf", "leaf"} -> leaf
      [] p = "repro" -> repro
      [] OTHER -> None]
MCTexts == {"leaf", "dir/sub", "../leaf", "../main"}
MCResolve == [p \in MCPaths |-> [t \in MCTexts |->
    CASE p \in {"dir/sub", "dir/leaf"} ->
            (CASE t = "leaf" -> "dir/leaf" [] t = "../leaf" -> "leaf" [] t = "../main" -> "main"
               [] OTHER -> "lost")
      [] OTHER -> IF t \in {"leaf", "dir/sub"} THEN t ELSE "lost"]]

\* V is defined in two scopes, its value looks like two arguments, and one of
\* them like a variable; W is builtin alone; E is empty.
MCScopes == << << >>, (<<"V">> :> <<"x", "sp", "$", "{", "W", "}">>),
               << >>, (<<"V">> :> <<"n">>) @@ (<<"W">> :> <<"dq">>) @@ (<<"E">> :> << >>) >>

\* The runner is x, or a quote, which W stands for; n asks for a trace.
MCRunners == {<<"x">>, <<"dq">>}
MCTraceFlags == {<<"n">>}
MCTraceArgs == <<<<"n">>, <<"E", "x">>>>

Plain(text, directive, to) ==
    [text |-> text, directive |-> directive, to |-> to, args |-> None]
Include(t) == Plain(<<"@", "x">>, "include", t)

\* Files: commands, heredocs, their terminator, directives of both kinds and
\* includes.
Heredoc == Plain(<<"x", "sp", "<", "<", "sq", "E", "sq">>, "none", None)
End == Plain(<<"E">>, "none", None)
Shifted == Plain(<<"sp", "E">>, "none", None)
Valid == Plain(<<"@", "x">>, "valid", None)
Bad == Plain(<<"@", "n">>, "invalid", None)
Open == Plain(<<"x", "sq">>, "none", None)
Hash == Plain(<<"#", "x">>, "valid", None)
Note == Plain(<<"#", "sp">>, "none", None)
Write == Plain(<<"#", "n">>, "write", None)
Run == Plain(<<"#", "E", "sp", "x">>, "run", None)

Scripts(lines, n) == UNION {[1..k -> lines] : k \in 0..n}
OnDisk(m, s, l) ==
    [f \in Files |-> CASE f = main -> m [] f = sub -> s [] f = leaf -> l [] OTHER -> << >>]

Includes ==
    {[reader |-> "legacy", disk |-> OnDisk(m, s, l)] :
        m \in Scripts({Include("dir/sub"), Include("leaf"), Heredoc, End, Valid}, 3),
        s \in Scripts({Include("leaf"), Include("../main"), End, Heredoc}, 2),
        l \in Scripts({Include("../leaf"), Include(None), Valid}, 1)}
Singles ==
    {[reader |-> r, disk |-> OnDisk(m, << >>, << >>)] :
        r \in Readers,
        m \in Scripts({Write, Run, End, Shifted, Hash, Note, Heredoc, Bad, Open}, 3)}

\* Lines of one or two arguments of up to two pieces, in quotes of every kind,
\* and arguments of two pieces in quotes of their own.
Pieces == {<<"x">>, <<"n">>, <<"sp">>, <<"sq">>, <<"dq">>, <<"bs">>, <<"nl">>, <<"<">>, <<"$">>,
           <<"$", "{", "V", "}">>, <<"$", "{", "W", "}">>, <<"$", "{", "E", "}">>, << >>}
InQuotes(pieces, style, joined) ==
    [i \in DOMAIN pieces |-> [is |-> pieces[i], style |-> style[i], joined |-> joined[i]]]
Ones == {InQuotes(p, <<s>>, <<FALSE>>) : p \in [1..1 -> Pieces], s \in Styles}
Twos == {InQuotes(p, <<s, s>>, <<FALSE, TRUE>>) : p \in [1..2 -> Pieces], s \in Styles}
Mixed == {InQuotes(p, s, <<FALSE, FALSE>>) : p \in [1..2 -> Pieces], s \in [1..2 -> Styles]}
Quoted(as) == {a \in as : IsArgument(a)}
Blanks == {a \in Quoted(Ones) : a[1].is = << >>}
Commands ==
    {[text |-> LineOf(args), directive |-> "none", to |-> None, args |-> args] :
        args \in {<<a>> : a \in Quoted(Ones \cup Twos \cup Mixed)}
                 \cup {<<a, b>> : a \in Quoted(Ones \cup Twos), b \in Quoted(Ones)}
                 \cup {<<a, b, c>> : a \in Blanks, b \in Quoted(Ones), c \in Blanks}}
Quotings ==
    {[reader |-> r, disk |-> OnDisk(<<c>>, << >>, << >>)] : r \in Readers, c \in Commands}

MCInputs == {Includes, Singles, Quotings}
=============================================================================
