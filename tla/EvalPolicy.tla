----------------------------- MODULE EvalPolicy -----------------------------
(***************************************************************************)
(* The policy for silent evaluation (ipc/policy.rs): a walk over the       *)
(* syntax tree of the code, which lets through only calls of functions on  *)
(* the allowlist, checked against what R calls when it evaluates the code. *)
(* A tree is what the parser (tree-sitter-r, not modelled) makes of code:  *)
(* nodes with a kind, an operator or name, and named children.             *)
(***************************************************************************)
EXTENDS Naturals, Sequences, FiniteSets

CONSTANTS
  Trees,      \* bound: syntax trees, with all of their subtrees
  Height(_),  \* of each of them
  Codes,      \* bound: programs, each [broken |-> has_error, children |-> trees]
  Allowlists  \* bound: lists of [ipc.eval].allowed_functions and --ipc-eval-allow-function

Node(kind, op, kids) == [kind |-> kind, op |-> op, kids |-> kids]

LeafKinds == {"identifier", "literal"}
Inert == {"comment", "comma"}
OperatorKinds == {"binary_operator", "unary_operator", "subset", "subset2", "extract_operator"}
GroupKinds == {"arguments", "argument", "parenthesized_expression"}
Assignments == {"<-", "<<-", "->", "->>", "=", ":="}

\* The grammar, as far as the walk relies on it: "special" is every kind the walk does not
\* know; commas and arguments are only where arguments are; only binary operators assign.
Grammatical(n) ==
  /\ n.kind \in LeafKinds \cup Inert \cup OperatorKinds \cup GroupKinds
                 \cup {"dots", "call", "namespace_operator", "special"}
  /\ n.kind = "call" => n.kids # <<>>
  /\ n.kind \in OperatorKinds => \A i \in DOMAIN n.kids : n.kids[i].kind # "comma"
  /\ n.kind \in OperatorKinds \ {"binary_operator"} => n.op \notin Assignments \cup {"|>"}

ASSUME PolicyAssumption ==
  /\ \A n \in Trees :
       /\ Grammatical(n) /\ n.kids \in Seq(Trees)
       /\ Height(n) \in Nat /\ \A i \in DOMAIN n.kids : Height(n.kids[i]) < Height(n)
  /\ \A code \in Codes :
       /\ code.broken \in BOOLEAN /\ code.children \in Seq(Trees)
       /\ \A i \in DOMAIN code.children :
            code.children[i].kind \notin {"arguments", "argument", "comma"}
  /\ \A l \in Allowlists : IsFiniteSet(l) /\ \A name \in l : Len(name) \in {1, 2}

VARIABLES
  evalPolicy,  \* POLICY: allowlist, unrestricted, and the send policy
  evalCode,    \* the code to validate
  evalVerdict  \* what validate has returned

policyVars == <<evalPolicy, evalCode, evalVerdict>>

NoCode == [broken |-> FALSE, children |-> <<>>]

\* The function a call names outright, f as <<"f">> and p::f as <<"p", "f">>: none for a
\* name in backticks (its op is Quoted), for ::: and for what has to be computed.
Quoted == "backticks"
NoTarget == <<>>
call_target(n) ==
  CASE n.kind = "identifier" /\ n.op # Quoted -> <<n.op>>
    [] n.kind = "namespace_operator" /\ n.op = "::"
         /\ \A i \in 1..2 : n.kids[i].kind = "identifier" /\ n.kids[i].op # Quoted ->
         <<n.kids[1].op, n.kids[2].op>>
    [] OTHER -> NoTarget

------------------------------------------------------------------------------
(* The walk; valid is what it says of the trees below.                     *)

\* Mutant: what is extracted is not walked.
validate_operator_LeftOnly(n, allowlist, valid) ==
  /\ n.op \notin Assignments \cup {"|>"}
  /\ <<n.op>> \in allowlist
  /\ valid[n.kids[1]]

\* Binary and unary operators, [ and [[, and $ and @: fields in order, a missing one refused.
validate_operator(n, allowlist, valid) ==
  /\ n.kind = "binary_operator" => n.op \notin Assignments \cup {"|>"}
  /\ <<n.op>> \in allowlist
  /\ \A i \in DOMAIN n.kids : valid[n.kids[i]]

validate_call(n, allowlist, valid) ==
  /\ n.kids # <<>>
  /\ LET target == call_target(n.kids[1]) IN target # NoTarget /\ target \in allowlist
  /\ \A i \in 2..Len(n.kids) : n.kids[i].kind \in Inert \/ valid[n.kids[i]]

validate_group(n, valid) ==
  \A i \in DOMAIN n.kids : n.kids[i].kind \in Inert \/ valid[n.kids[i]]

validate_expression(allowlist) ==
  LET valid[n \in Trees] ==
        \/ n.kind \in LeafKinds \cup {"comment", "dots"}
        \/ n.kind = "call" /\ validate_call(n, allowlist, valid)
        \/ n.kind \in OperatorKinds /\ validate_operator(n, allowlist, valid)
        \/ n.kind \in GroupKinds /\ validate_group(n, valid)
  IN valid

Uncommented(kids) == {i \in DOMAIN kids : kids[i].kind # "comment"}

validate_top_level(allowlist) ==
  LET valid[n \in Trees] ==
        \/ n.kind \in LeafKinds \cup {"comment"}
        \/ n.kind \in OperatorKinds \cup {"call"} /\ validate_expression(allowlist)[n]
        \/ /\ n.kind = "parenthesized_expression"
           /\ \E i \in DOMAIN n.kids : Uncommented(n.kids) = {i} /\ valid[n.kids[i]]
  IN valid

validate_with_policy(code, policy) ==
  /\ ~code.broken
  /\ \/ policy.unrestricted
     \/ /\ Uncommented(code.children) # {}
        /\ \A i \in Uncommented(code.children) :
             validate_top_level(policy.allowlist)[code.children[i]]

\* What session results, the headless readiness line and :info tell of the policy.
policy_description(policy, session) ==
  [silent |-> IF policy.unrestricted THEN <<"Unrestricted">>
              ELSE <<"Restricted", policy.allowlist>>,
   visible |-> IF session = "Interactive" /\ ~policy.send_allow
               THEN "ApprovalRequired" ELSE "ApprovalNotRequired"]

------------------------------------------------------------------------------
(* A session sets its policy as it starts, and requests come.              *)

PolicyInit ==
  /\ evalPolicy = [allowlist |-> {}, unrestricted |-> FALSE, send_allow |-> FALSE]
  /\ evalCode = NoCode /\ evalVerdict = "none"

\* From the configuration and the command line, in main and run_headless.
set_policy ==
  /\ evalVerdict = "none"
  /\ \E config, cli \in Allowlists, unrestricted, allow \in BOOLEAN :
       evalPolicy' = [allowlist |-> config \cup cli, unrestricted |-> unrestricted,
                      send_allow |-> allow]
  /\ evalVerdict' = "unasked"
  /\ UNCHANGED evalCode

validate ==
  /\ evalVerdict = "unasked"
  /\ evalCode' \in Codes
  /\ evalVerdict' = IF validate_with_policy(evalCode', evalPolicy) THEN "allowed" ELSE "refused"
  /\ UNCHANGED evalPolicy

PolicyNext == set_policy \/ validate

PolicySpec == PolicyInit /\ [][PolicyNext]_policyVars

------------------------------------------------------------------------------
(* What R does.                                                            *)

\* The functions R calls for a tree: those named, operators by their names; NoTarget for
\* one that only evaluation finds, and Special for what assigns, controls or defines.
Special == <<"special", "form", "">>
Calls[n \in Trees] ==
  LET of(positions) == UNION {Calls[n.kids[i]] : i \in positions}
      target == call_target(n.kids[1])
  IN CASE n.kind = "call" ->
            {target} \cup of(2..Len(n.kids)) \cup (IF target = NoTarget THEN of({1}) ELSE {})
       [] n.kind \in OperatorKinds ->
            of(DOMAIN n.kids)
              \cup (IF n.op \in Assignments \cup {"|>"} THEN {Special} ELSE {<<n.op>>})
       [] n.kind \in GroupKinds -> of(DOMAIN n.kids)
       [] n.kind = "namespace_operator" -> {Special}
       [] n.kind = "special" -> {Special} \cup of(DOMAIN n.kids)
       [] OTHER -> {}

CallsOf(code) == UNION {Calls[code.children[i]] : i \in DOMAIN code.children}

\* Code of which the rules for the top level say nothing more: no parentheses that hold
\* several things, and no dots, which mean nothing there.
Plain(code) ==
  /\ ~code.broken /\ Uncommented(code.children) # {}
  /\ \A i \in DOMAIN code.children :
       code.children[i].kind \notin {"parenthesized_expression", "dots"} \cup Inert

\* Under a policy that clients are told is restricted, code is let through only if all R
\* calls for it is on the list they are told; and plain code that calls nothing else is.
OnlyListedRuns ==
  evalVerdict \in {"allowed", "refused"} =>
    LET told == policy_description(evalPolicy, "Headless").silent
    IN /\ evalVerdict = "allowed" => ~evalCode.broken
       /\ told[1] = "Restricted" =>
            /\ evalVerdict = "allowed" => CallsOf(evalCode) \subseteq told[2]
            /\ Plain(evalCode) /\ CallsOf(evalCode) \subseteq told[2] => evalVerdict = "allowed"
=============================================================================
