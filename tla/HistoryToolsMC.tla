---------------------------- MODULE HistoryToolsMC ----------------------------
(* HistoryTools for TLC: what the files and the databases hold.            *)
EXTENDS HistoryTools

Columned(S) == [c \in Columns |-> IF c \in S THEN "source" ELSE NULL]
E(mode, command, time, columns) ==
  [mode |-> mode, command |-> command, time |-> time, value |-> Columned(columns)]
OldRow(command, time, value) == [command |-> command, time |-> time, value |-> value]

\* A command twice, to repair in two steps; one without a time, as R's own files have it,
\* next to one with; both databases, and what is passed over.
TheSources ==
  { <<E("r", "a", 1, {"exit_status"}), E("browse", "a", 1, {"exit_status", "more_info"})>>,
    <<E("r", "a", NULL, {}), E("unspecified", "a", 1, {"more_info"})>>,
    <<E("unsupported", "a", NULL, {}), E("r", Blank, NULL, {})>>,
    FromExport([shell |-> <<OldRow("a", 1, [Unset EXCEPT !["exit_status"] = "session",
                                                        !["more_info"] = "malformed"])>>]) }

TheOptions ==
  { [dedup |-> TRUE, override |-> FALSE], [dedup |-> TRUE, override |-> TRUE],
    [dedup |-> FALSE, override |-> FALSE] }

NoRows    == <<>>
\* By an import that kept only command and time; unreadable; of a command that still runs.
Imported  == <<OldRow("a", 1, Unset)>>
Malformed == <<OldRow("a", 1, [Unset EXCEPT !["more_info"] = "malformed"])>>
Running1  == <<OldRow("a", 1, [Unset EXCEPT !["hostname"] = "session"])>>

TheDatabases ==
  { [t \in Targets |-> NoRows],
    [r |-> Running1, shell |-> Imported],
    [r |-> Malformed, shell |-> NoRows] }

R(own, recent, found, meets, score) ==
  [own |-> own, recent |-> recent, found |-> found, meets |-> meets, score |-> score]

\* Rows that differ in everything a query or a filter looks at.
TheRows ==
  <<R(TRUE, TRUE, TRUE, TRUE, 1), R(TRUE, FALSE, TRUE, FALSE, 2),
    R(FALSE, TRUE, TRUE, TRUE, 2), R(TRUE, TRUE, FALSE, TRUE, 0)>>

-----------------------------------------------------------------------------
(* Programs for EvalPolicy: trees two deep, of two names and an operator. *)

Id(name) == Node("identifier", name, <<>>)
Small == {Id("f"), Id(Quoted), Node("literal", "", <<>>), Node("dots", "", <<>>)}
Leaves == Small \cup
  { Node("namespace_operator", op, <<Id("p"), Id("f")>>) : op \in {"::", ":::"} }

Arguments(S) ==
  {Node("arguments", "", <<>>)} \cup
  { Node("arguments", "", <<Node("argument", "", <<a>>), Node("comma", "", <<>>)>>) : a \in S }

\* Trees over those of S, each with at most one other child, of T.
Over(S, T) ==
  { Node("call", "", <<c, a>>) : c \in S, a \in Arguments(T) } \cup
  { Node("call", "", <<c, a>>) : c \in T, a \in Arguments(S) } \cup
  { Node("binary_operator", op, <<a, b>>) : op \in {"+", "<-", "|>"}, a \in S, b \in T } \cup
  { Node("binary_operator", "+", <<a, b>>) : a \in T, b \in S } \cup
  { Node("unary_operator", "+", <<a>>) : a \in S } \cup
  { Node("subset", "[", <<a, b>>) : a \in T, b \in Arguments(S) } \cup
  { Node("extract_operator", "$", <<a, b>>) : a \in S, b \in T } \cup
  { Node("parenthesized_expression", "", <<a>>) : a \in S } \cup
  { Node("parenthesized_expression", "", <<a, Node("comment", "", <<>>)>>) : a \in S } \cup
  { Node("special", "", <<a>>) : a \in S }

OneDeep == Over(Leaves, Leaves)
MCTrees == Leaves \cup OneDeep \cup Over(OneDeep, {Id("f")})

Program(broken, kids) == [broken |-> broken, children |-> kids]
TheCodes ==
  { Program(FALSE, <<t>>) : t \in MCTrees } \cup
  { Program(FALSE, <<Id("f"), Node("comment", "", <<>>), t>>) : t \in OneDeep } \cup
  { Program(TRUE, <<Id("f")>>), Program(FALSE, <<>>),
    Program(FALSE, <<Node("comment", "", <<>>)>>) }

\* With all subtrees; none is deeper than six. TLC evaluates what a constant stands for at
\* every use: TheTrees only names the set, which is evaluated once.
Below(S) == UNION {{n.kids[i] : i \in DOMAIN n.kids} : n \in S}
Top   == UNION {{c.children[i] : i \in DOMAIN c.children} : c \in TheCodes}
One   == Below(Top)
Two   == Below(One)
Three == Below(Two)
Four  == Below(Three)
Five  == Below(Four)
AllTrees == Top \cup One \cup Two \cup Three \cup Four \cup Five
TheTrees == AllTrees

RECURSIVE TheHeight(_)
TheHeight(n) ==
  IF n.kids = <<>> THEN 0 ELSE 1 + Max({TheHeight(n.kids[i]) : i \in DOMAIN n.kids})

TheLists == { {}, {<<"f">>, <<"+">>}, {<<"p", "f">>, <<"[">>, <<"$">>, <<"<-">>, <<"|>">>} }

Symmetry == Permutations(Jobs) \cup Permutations(Processes)
==============================================================================
