----------------------------- MODULE CompleterMC -----------------------------
EXTENDS Completer

MCMarks == {"x", "y", "p", "=", "$", "::", ":::"}

x == <<"x">>
xy == <<"x", "y">>
inX == <<"x", "$", "y">>
deep == <<"x", "$", "y", "$", "y">>
export == <<"p", "::", "y">>

MCSessions ==
  {[names |-> {x, xy, inX, deep, export}, packages |-> {<<"p">>}, files |-> {x, xy},
    programs |-> {x}],
   [names |-> {x, inX}, packages |-> {<<"x">>}, files |-> {}, programs |-> {}]}
MCArguments == {<<"y", "=">>, <<"x", "=">>}
MCFunctions == {xy, export}
MCLines ==
  {[scope |-> "name", token |-> x], [scope |-> "name", token |-> xy],
   [scope |-> "argument", token |-> x],
   [scope |-> "member", token |-> <<"x", "$">>],
   [scope |-> "member", token |-> <<"x", "$", "y", "$">>],
   [scope |-> "exports", token |-> <<"p", "::">>],
   [scope |-> "library", token |-> x],
   [scope |-> "string", token |-> x], [scope |-> "program", token |-> x]}
MCSettings ==
  {[fuzzy |-> TRUE, parens |-> TRUE, commands |-> FALSE],
   [fuzzy |-> FALSE, parens |-> TRUE, commands |-> TRUE]}
=============================================================================
