------------------------------- MODULE Imports ------------------------------
(* How source modules are loaded: Parser::CheckModuleTerm and ModuleLoader *)
(* (src/module_loader/module_loader.cpp, module_registry.cpp).  The parser *)
(* that meets an import \id(...) loads the module with another parser      *)
(* before it goes on.  (\id::name only asks whether a module of that id    *)
(* has been loaded by now, and changes nothing.)  An id is relative to the *)
(* directory of the file that imports, to the base directory or absolute,  *)
(* so one id can mean two files; the files are known by their paths, and   *)
(* the names of both kinds share one table.                                *)
EXTENDS Naturals, Sequences, FiniteSets, SequencesExt

CONSTANTS
  Files,     \* paths of modules, the main one among them
  Main,
  Ids,       \* module ids as they are written
  Target,    \* file -> id -> the file that the id means there
  Missing,   \* what an id means when there is no such file
  MaxImports \* imports in a file (bound)

ASSUME ImportAssumption ==
  /\ IsFiniteSet(Files) /\ Files \cap Ids = {}
  /\ Main \in Files /\ Missing \notin Files
  /\ Target \in [Files -> [Ids -> Files \cup {Missing}]]

VARIABLES
  text,      \* file -> the ids it imports, in order
  registry,  \* the modules in the order of their registration: path and body
  index,     \* m_indexByName: path or id -> place in the registry, 0 if none
  parsers,   \* m_moduleStack with the parsers: module, imports left, files got
  scopes,    \* scopes of macros (Macro::PushScope)
  ended      \* "no", "loaded", "fatal"

importVars == <<text, registry, index, parsers, scopes, ended>>

NoBody == <<>>

ImportInit ==
  /\ text \in [Files -> BoundedSeq(Ids, MaxImports)]
  /\ registry = <<>>
  /\ index = [name \in Files \cup Ids |-> 0]
  /\ parsers = <<>>
  /\ scopes = 1
  /\ ended = "no"

\* A module's body is the files its imports were given.
Loaded(i) == registry[i].done
Current == parsers[Len(parsers)]
Here == registry[Current.module].path

\* A fatal error unwinds all parsers; each one takes its scope along.
Fatal ==
  /\ ended' = "fatal"
  /\ parsers' = <<>>
  /\ scopes' = scopes - Len(parsers)
  /\ UNCHANGED <<text, registry, index>>

\* parseSourceModule: a module that is registered but has no body yet is
\* being loaded by a parser further down.
StartsToLoad(path) ==
  /\ registry' = Append(registry, [path |-> path, body |-> NoBody, done |-> FALSE])
  /\ index' = [index EXCEPT ![path] = Len(registry) + 1]
  /\ parsers' = Append(parsers, [module |-> Len(registry) + 1, left |-> text[path], body |-> NoBody])
  /\ scopes' = scopes + 1
  /\ UNCHANGED <<text, ended>>

Unfinished(name) == index[name] # 0 /\ ~Loaded(index[name])

LoadMain ==
  /\ registry = <<>>
  /\ StartsToLoad(Main)

\* The import that the last of the parsers is at gets its file.
Gives(ps, path) ==
  [ps EXCEPT ![Len(ps)].left = Tail(@), ![Len(ps)].body = Append(@, path)]

\* Mutant: an id that is in the table stands for the same module everywhere.
ImportById ==
  LET id == Head(Current.left)
      path == Target[Here][id]
      refused == IF index[id] # 0 THEN Unfinished(id)
                 ELSE IF path = Missing THEN TRUE ELSE Unfinished(path)
      known == IF index[id] # 0 THEN index[id] ELSE IF path = Missing THEN 0 ELSE index[path]
  IN  /\ ended = "no" /\ parsers # <<>>
      /\ Current.left # <<>>
      /\ \/ refused /\ Fatal
         \/ ~refused /\ known = 0 /\ StartsToLoad(path)
         \/ /\ ~refused /\ known # 0
            /\ parsers' = Gives(parsers, registry[known].path)
            /\ index' = [index EXCEPT ![id] = known]
            /\ UNCHANGED <<text, registry, scopes, ended>>

\* ensureLoaded up to the parser of the module.
Import ==
  LET id == Head(Current.left)
      path == Target[Here][id]
      refused == IF path = Missing THEN TRUE ELSE Unfinished(id) \/ Unfinished(path)
  IN  /\ ended = "no" /\ parsers # <<>>
      /\ Current.left # <<>>
      /\ \/ refused /\ Fatal
         \/ ~refused /\ index[path] = 0 /\ StartsToLoad(path)
         \/ /\ ~refused /\ index[path] # 0
            /\ parsers' = Gives(parsers, path)
            /\ index' = [index EXCEPT ![id] = index[path]]
            /\ UNCHANGED <<text, registry, scopes, ended>>

\* The parser of a module is through: its body is registered, and the import
\* that asked for it goes on with the file it got.
Finish ==
  LET done == Current.module
      path == registry[done].path
      below == SubSeq(parsers, 1, Len(parsers) - 1)
  IN  /\ ended = "no" /\ parsers # <<>>
      /\ Current.left = <<>>
      /\ registry' = [registry EXCEPT ![done].body = Current.body, ![done].done = TRUE]
      /\ scopes' = scopes - 1
      /\ IF below = <<>>
         THEN parsers' = below /\ ended' = "loaded" /\ UNCHANGED index
         ELSE /\ parsers' = Gives(below, path)
              /\ index' = [index EXCEPT ![Head(below[Len(below)].left)] = done]
              /\ UNCHANGED ended
      /\ UNCHANGED text

ImportNext == LoadMain \/ Import \/ Finish

ImportSpec == ImportInit /\ [][ImportNext]_importVars

-----------------------------------------------------------------------------
\* The table and the stack of parsers refer to registered modules, and those
\* that are being parsed are not loaded yet.
ImportTypeOK ==
  /\ parsers \in Seq([module : 1 .. Len(registry), left : Seq(Ids), body : Seq(Files)])
  /\ \A k \in DOMAIN parsers : ~Loaded(parsers[k].module)
  /\ registry \in Seq([path : Files, body : Seq(Files), done : BOOLEAN])
  /\ index \in [Files \cup Ids -> 0 .. Len(registry)]
  /\ scopes \in Nat
  /\ ended \in {"no", "loaded", "fatal"}

\* What the texts alone say: the files each file imports, and the files that
\* are reached from the main one.
ImportedBy(f) == {Target[f][text[f][i]] : i \in DOMAIN text[f]}
ReachedFrom(start) ==
  LET R[n \in 0 .. Cardinality(Files)] == IF n = 0 THEN start
                         ELSE R[n - 1] \cup UNION {ImportedBy(f) : f \in R[n - 1] \cap Files}
  IN  R[Cardinality(Files)]
Needed == ReachedFrom({Main})
OnCycle(f) == f \in ReachedFrom(ImportedBy(f))

\* Loading ends in the fatal error exactly when a file that is needed is
\* missing or imports itself through others; otherwise the needed files, and
\* no others, are each loaded once, and every import carries the file its id
\* means where it stands.  The scopes of macros are those of the parsers that
\* are at work (module_loader.cpp:45-128).
ImportsFollowText ==
  /\ scopes = 1 + Len(parsers)
  /\ ended = "fatal" => Missing \in Needed \/ \E f \in Needed \cap Files : OnCycle(f)
  /\ ended = "loaded" =>
       /\ Missing \notin Needed /\ \A f \in Needed : ~OnCycle(f)
       /\ \A f \in Files : f \in Needed <=> \E i \in DOMAIN registry : registry[i].path = f
       /\ \A i, j \in DOMAIN registry : registry[i].path = registry[j].path => i = j
       /\ \A i \in DOMAIN registry :
            LET path == registry[i].path
            IN  registry[i].body = [k \in DOMAIN text[path] |-> Target[path][text[path][k]]]
=============================================================================
