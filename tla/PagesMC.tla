------------------------------- MODULE PagesMC -------------------------------
(* Pager and Pages for TLC.                                                *)
EXTENDS Pager, Pages, TLC

Topic(name, kind) == [name |-> name, kind |-> kind]
\* One more than is shown, and one that is not a help page.
MCTopics ==
  <<Topic(<<"a">>, "help"), Topic(<<"a", "b">>, "demo"), Topic(<<"b">>, "help"),
    Topic(<<"a", "a">>, "help"), Topic(<<"b", "b">>, "help")>>
MCMinSize == [cols |-> 30, rows |-> 8]
MCTerminals ==
  {[cols |-> 40, rows |-> 8], [cols |-> 40, rows |-> 10], [cols |-> 30, rows |-> 10],
   [cols |-> 40, rows |-> 7]}
MCWrapped == (30 :> 12) @@ (40 :> 9)
MCSchema == <<"text", "sql", "text", "end", "text", "r", "text", "text", "end">>

\* Every short line on every narrow page.
MCWraps ==
  {[chars |-> c, width |-> w, indent |-> i] :
     c \in UNION {[1..n -> {"blank", "wide", "letter"}] : n \in 0..4}, w \in 0..3, i \in 0..1}
MCTables ==
  {t \in [natural : [1..3 -> 0..3], available : 1..7] :
     t.natural[1] + t.natural[2] + t.natural[3] > t.available}
==============================================================================
