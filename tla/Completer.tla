------------------------------ MODULE Completer ------------------------------
(***************************************************************************)
(* What Tab offers: completion of R code by R itself, of namespaces and    *)
(* packages, of paths in strings and of programs in shell mode, with the   *)
(* caches that stand between the user and R. A name is a sequence of       *)
(* marks; "$", "::" and ":::" are the marks that change what is being      *)
(* completed, all others are characters of identifiers.                    *)
(***************************************************************************)
EXTENDS Naturals, FiniteSets, Sequences, SequencesExt

CONSTANTS
  Marks,              \* what names are made of
  Sessions,           \* what may exist: R's names, packages, files and programs
  Arguments,          \* argument names R offers inside a call
  FunctionNames,      \* the names that stand for functions
  Lines,              \* what may be completed: a scope and the token at the cursor
  CompletionSettings, \* the configuration: fuzzy, parens and commands
  Debounce,           \* ticks for which an equal request is answered again
  Lifetime            \* ticks for which packages and exports are kept (5 minutes)

VARIABLES
  settings,      \* the configuration in force
  session,       \* what exists now
  unchanged,     \* ticks since the session last changed
  cache,         \* RCompleter.cache
  filledFor,     \* whether that cache tells of the session as it is, and of which scope
  exportsOf,     \* RCompleter.namespace_cache
  fuzzyCache,    \* RCompleter.namespace_fuzzy_cache
  packageCache,  \* PACKAGE_CACHE
  programs,      \* ShellCompleter.command_cache
  offered        \* the request just answered

completerVars == <<settings, session, unchanged, cache, filledFor, exportsOf, fuzzyCache,
                   packageCache, programs, offered>>

Nothing == [none |-> TRUE]
Oldest == Lifetime + Debounce

-----------------------------------------------------------------------------
(* Names and tokens.                                                       *)

Structural == {"$", "::", ":::"}
Namespaces == {"::", ":::"}
Identifier(marks) == Range(marks) \cap Structural = {}

\* R's rules for the names of packages allow letters, digits and dots.
ASSUME CompleterAssumption ==
  /\ Debounce \in Nat \ {0} /\ Lifetime \in Nat \ {0}
  /\ Structural \subseteq Marks /\ Arguments \subseteq Seq(Marks)
  /\ \A l \in Lines : l.token \in Seq(Marks)
  /\ \A s \in Sessions :
       /\ s.names \subseteq Seq(Marks) /\ s.packages \subseteq Seq(Marks)
       /\ \A p \in s.packages : Identifier(p)

\* Whether typing on, in identifier characters only, leads from one to the other.
is_prefix_extension(token, longer) ==
  IsPrefix(token, longer) /\ Identifier(SubSeq(longer, Len(token) + 1, Len(longer)))

\* The typed marks occur in the name in their order, from some place on.
fuzzy_match(typed, name) ==
  \E at \in [DOMAIN typed -> DOMAIN name] :
    /\ \A i \in DOMAIN typed : name[at[i]] = typed[i]
    /\ \A i, j \in DOMAIN typed : i < j => at[i] < at[j]

\* pkg:: or pkg::: of a token, and what is typed after it.
parse_namespace_token(token) ==
  [key |-> SubSeq(token, 1, 2), partial |-> SubSeq(token, 3, Len(token))]

ExportsIn(s, key) == {n \in s.names : Len(n) > 2 /\ IsPrefix(key, n)}
has_special_suffix(name) == name # <<>> /\ name[Len(name)] \in Namespaces \cup {"="}

\* Which of the names are functions, asked of R at every answer.
check_if_functions(names, s) ==
  IF settings.parens THEN names \cap FunctionNames \cap s.names ELSE {}

\* The suggestions: a name that is already typed is offered only for its parentheses.
Suggestions(names, token, s) ==
  LET calls == {n \in check_if_functions(names, s) : ~has_special_suffix(n)}
  IN {[name |-> n, call |-> n \in calls] : n \in {m \in names : m # token \/ m \in calls}}

Kept(entry) == entry # Nothing /\ entry.age < Lifetime

-----------------------------------------------------------------------------
(* What R and the disk would answer.                                       *)

\* Where the cursor is, as it is made out from the text before it: in a string, behind
\* pkg:: or pkg:::, at the first argument of library() or require(), or, in the shell
\* editor, where a program is named or behind one. The scope of a line is the first of
\* these that fits; the others are for R.
detect_string_context(line) == line.scope = "string"
in_namespace(line) == line.scope \in {"exports", "internals"}
detect_library_context(line) == line.scope = "library"
is_command_position(line) == line.scope = "program"
InShell(line) == line.scope \in {"program", "operand"}

\* R's own completion of a token.
get_r_builtin_completions(line, s) ==
  {n \in s.names : is_prefix_extension(line.token, n)}
    \cup (IF line.scope = "argument" THEN {a \in Arguments : IsPrefix(line.token, a)} ELSE {})

\* An identifier is being typed, so it may become the name of a package.
detect_namespace_context(line) ==
  ~detect_library_context(line) /\ line.token # <<>> /\ line.token[Len(line.token)] \notin Structural
get_namespace_completions(packages) == {Append(p, "::") : p \in packages}

StartingWith(token, names) == {n \in names : IsPrefix(token, n)}

complete_path(partial, s) == {f \in s.files : fuzzy_match(partial, f)}

\* What would be offered for a line if nothing were cached and R were quick.
Ideal(line, s) ==
  LET ns == parse_namespace_token(line.token)
      plain(names) == {[name |-> n, call |-> FALSE] : n \in names}
  IN CASE line.scope \in {"string", "operand"} -> plain(complete_path(line.token, s))
       [] line.scope \in {"exports", "internals"} /\ settings.fuzzy ->
            LET fits == {n \in ExportsIn(s, ns.key) :
                           fuzzy_match(ns.partial, SubSeq(n, 3, Len(n)))}
            IN {[name |-> n, call |-> n \in check_if_functions(fits, s)] : n \in fits}
       [] line.scope = "library" /\ settings.fuzzy ->
            plain({p \in s.packages : fuzzy_match(line.token, p)})
       [] line.scope = "library" /\ ~settings.fuzzy ->
            Suggestions(StartingWith(line.token, s.packages), line.token, s)
       [] OTHER ->
            Suggestions(
              get_r_builtin_completions(line, s)
                \cup (IF detect_namespace_context(line)
                      THEN StartingWith(line.token, get_namespace_completions(s.packages))
                      ELSE {}),
              line.token, s)
-----------------------------------------------------------------------------
CompleterTypeOK ==
  /\ settings \in CompletionSettings
  /\ session \in Sessions
  /\ unchanged \in 0..Oldest
  /\ cache # Nothing => cache.age \in 0..Debounce /\ cache.token # <<>> /\ cache.completions # {}
  /\ \A key \in DOMAIN exportsOf :
       exportsOf[key] # Nothing => exportsOf[key].age \in 0..Lifetime
  /\ packageCache # Nothing => packageCache.age \in 0..Lifetime

NamespaceKeys ==
  {parse_namespace_token(l.token).key : l \in {k \in Lines : in_namespace(k)}}

CompleterInit ==
  /\ settings \in CompletionSettings
  /\ session \in Sessions
  /\ unchanged = Oldest
  /\ cache = Nothing /\ filledFor = [scope |-> "name", now |-> FALSE]
  /\ exportsOf = [key \in NamespaceKeys |-> Nothing]
  /\ fuzzyCache = Nothing /\ packageCache = Nothing /\ programs = Nothing
  /\ offered = Nothing

Answer(line, from, cut, suggestions) ==
  offered' = [line |-> line, from |-> from, cut |-> cut, suggestions |-> suggestions]

-----------------------------------------------------------------------------
(* The caches.                                                             *)

\* Mutant: the rest may be anything, also a step into the object.
extends_cached_Anyhow(token) == IsPrefix(cache.token, token)

\* The cache tells of this token: the same within the debounce time, or a
\* shorter one that it continues, however long ago that was.
extends_cached(token) == is_prefix_extension(cache.token, token)
should_use_cache(token) ==
  /\ cache # Nothing /\ token # <<>>
  /\ Range(token \o cache.token) \cap Namespaces = {}
  /\ IF cache.token = token THEN cache.age < Debounce ELSE extends_cached(token)

\* The installed packages: kept, or read again when they are too old. Reading
\* asks R for its library paths, which may fail.
Installed == IF Kept(packageCache) THEN packageCache.packages ELSE session.packages
get_installed_packages(failed) ==
  IF Kept(packageCache) THEN ~failed /\ UNCHANGED packageCache
  ELSE packageCache' = IF failed THEN packageCache ELSE [packages |-> Installed, age |-> 0]

\* Exports that are found replace the entry, and expired ones go; none found
\* drops the entry, so that the next request asks again.
store_namespace_exports(key, exports) ==
  exportsOf' = IF exports = {}
               THEN [exportsOf EXCEPT ![key] = Nothing]
               ELSE [k \in DOMAIN exportsOf |->
                       IF k = key THEN [exports |-> exports, age |-> 0]
                       ELSE IF Kept(exportsOf[k]) THEN exportsOf[k] ELSE Nothing]
ensure_namespace_cached(key) ==
  IF Kept(exportsOf[key])
  THEN UNCHANGED exportsOf
  ELSE store_namespace_exports(key, ExportsIn(session, key))

\* What R answered is kept unless there is nothing to keep.
Remember(line, completions, cut) ==
  IF completions = {} \/ line.token = <<>>
  THEN UNCHANGED <<cache, filledFor>>
  ELSE /\ cache' = [token |-> line.token, completions |-> completions, age |-> 0]
       /\ filledFor' = [scope |-> line.scope, now |-> unchanged >= Lifetime /\ ~cut]

invalidate_cache == cache' = Nothing /\ fuzzyCache' = Nothing /\ UNCHANGED filledFor
-----------------------------------------------------------------------------
(* A request.                                                              *)

\* In a string, and for what is no program in shell mode: the directory is read.
CompletePath(line) ==
  /\ detect_string_context(line) \/ (InShell(line) /\ ~is_command_position(line))
  /\ Answer(line, "disk", FALSE,
            {[name |-> f, call |-> FALSE] : f \in complete_path(line.token, session)})
  /\ UNCHANGED <<cache, filledFor, exportsOf, fuzzyCache, packageCache, programs>>

\* Where a program is named: paths, and what PATH held at the first such request.
CompleteProgram(line) ==
  /\ is_command_position(line)
  /\ programs' = IF settings.commands /\ programs = Nothing
                 THEN [names |-> session.programs] ELSE programs
  /\ Answer(line, "programs", FALSE,
            {[name |-> f, call |-> FALSE] :
               f \in complete_path(line.token, session)
                       \cup (IF settings.commands
                             THEN StartingWith(line.token, programs'.names) ELSE {})})
  /\ UNCHANGED <<cache, filledFor, exportsOf, fuzzyCache, packageCache>>

FuzzyHit(line) == fuzzyCache # Nothing /\ fuzzyCache.line = line /\ fuzzyCache.age < Debounce

\* pkg::name with fuzzy matching: the exports are R's, the choice is made here.
complete_namespace_fuzzy(line) ==
  /\ settings.fuzzy /\ in_namespace(line)
  /\ IF FuzzyHit(line)
     THEN Answer(line, "exports", FALSE, fuzzyCache.suggestions)
            /\ UNCHANGED <<exportsOf, fuzzyCache>>
     ELSE LET ns == parse_namespace_token(line.token)
          IN /\ ensure_namespace_cached(ns.key)
             /\ LET entry == exportsOf'[ns.key]
                    fits == IF entry = Nothing THEN {}
                            ELSE {n \in entry.exports :
                                    fuzzy_match(ns.partial, SubSeq(n, 3, Len(n)))}
                    made == {[name |-> n, call |-> n \in check_if_functions(fits, session)] :
                               n \in fits}
                IN /\ Answer(line, "exports", FALSE, made)
                   /\ fuzzyCache' = [line |-> line, suggestions |-> made, age |-> 0]
  /\ UNCHANGED <<cache, filledFor, packageCache, programs>>

\* library(name with fuzzy matching.
complete_library_fuzzy(line) ==
  /\ settings.fuzzy /\ detect_library_context(line)
  /\ \E failed \in BOOLEAN :
       /\ get_installed_packages(failed)
       /\ Answer(line, "packages", failed,
                 {[name |-> p, call |-> FALSE] :
                    p \in {q \in Installed : ~failed /\ fuzzy_match(line.token, q)}})
  /\ UNCHANGED <<cache, filledFor, exportsOf, fuzzyCache, programs>>

\* All else is for R, or for what R answered before.
ForR(line) ==
  /\ ~detect_string_context(line) /\ ~InShell(line)
  /\ ~(settings.fuzzy /\ (in_namespace(line) \/ detect_library_context(line)))

CompleteFromCache(line) ==
  /\ ForR(line) /\ should_use_cache(line.token)
  /\ Answer(line, "cache", FALSE,
            Suggestions(StartingWith(line.token, cache.completions), line.token, session))
  /\ UNCHANGED <<cache, filledFor, exportsOf, fuzzyCache, packageCache, programs>>

\* R is asked; its own part is cut off, and empty, when it takes too long.
CompleteFromR(line) ==
  /\ ForR(line) /\ ~should_use_cache(line.token)
  /\ \E failed, cut \in BOOLEAN :
       /\ IF detect_library_context(line) \/ detect_namespace_context(line)
          THEN get_installed_packages(failed)
          ELSE ~failed /\ UNCHANGED packageCache
       /\ failed \/ detect_library_context(line) => ~cut
       /\ LET builtin == IF cut THEN {} ELSE get_r_builtin_completions(line, session)
              fresh == IF detect_library_context(line) THEN StartingWith(line.token, Installed)
                       ELSE builtin \cup
                              (IF detect_namespace_context(line)
                               THEN get_namespace_completions(Installed) ELSE {})
          IN IF failed
             THEN invalidate_cache /\ Answer(line, "R", TRUE, {})
             ELSE /\ Remember(line, fresh, cut)
                  /\ Answer(line, "R", cut, Suggestions(StartingWith(line.token, fresh),
                                                        line.token, session))
                  /\ UNCHANGED fuzzyCache
  /\ UNCHANGED <<exportsOf, programs>>

complete ==
  /\ offered = Nothing
  /\ \E line \in Lines :
       \/ CompletePath(line) \/ CompleteProgram(line)
       \/ complete_namespace_fuzzy(line) \/ complete_library_fuzzy(line)
       \/ CompleteFromCache(line) \/ CompleteFromR(line)
  /\ UNCHANGED <<settings, session, unchanged>>

\* The menu is closed, or what was typed calls for another answer.
TakeOffer ==
  /\ offered # Nothing /\ offered' = Nothing
  /\ UNCHANGED <<settings, session, unchanged, cache, filledFor, exportsOf, fuzzyCache,
                 packageCache, programs>>

\* A command runs, or another process installs a package or writes a file.
SessionChanges ==
  /\ offered = Nothing
  /\ session' \in Sessions \ {session} /\ unchanged' = 0
  /\ filledFor' = [filledFor EXCEPT !.now = FALSE]
  /\ UNCHANGED <<settings, cache, exportsOf, fuzzyCache, packageCache, programs, offered>>

Older(entry, limit) ==
  IF entry = Nothing \/ entry.age = limit THEN entry ELSE [entry EXCEPT !.age = @ + 1]

PromptWaits ==
  /\ offered = Nothing
  /\ unchanged' = IF unchanged = Oldest THEN Oldest ELSE unchanged + 1
  /\ cache' = Older(cache, Debounce) /\ fuzzyCache' = Older(fuzzyCache, Debounce)
  /\ exportsOf' = [k \in DOMAIN exportsOf |-> Older(exportsOf[k], Lifetime)]
  /\ packageCache' = Older(packageCache, Lifetime)
  /\ UNCHANGED <<settings, session, filledFor, programs, offered>>

CompleterNext == complete \/ TakeOffer \/ SessionChanges \/ PromptWaits

CompleterSpec == CompleterInit /\ [][CompleterNext]_completerVars
-----------------------------------------------------------------------------
(* Four caches of different ages stand between the user and R, two of them
   filled from others. Once the session has stayed as it is for as long as
   the oldest answer may be kept, Tab offers exactly what R and the disk
   would offer now: nothing that is gone and all that is new. Left out are
   the names of programs (read once for all), an answer that R could not
   finish in time, and one taken from a cache that was filled before, or for
   a line of another kind. *)
CatchesUp ==
  /\ offered # Nothing /\ ~offered.cut /\ offered.line.scope # "program"
  /\ unchanged + 1 >= Lifetime + Debounce
  /\ offered.from = "cache" => filledFor = [scope |-> offered.line.scope, now |-> TRUE]
  => offered.suggestions = Ideal(offered.line, session)
=============================================================================
