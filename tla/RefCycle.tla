------------------------------ MODULE RefCycle ------------------------------
(* The check of the semantic analysis that forbids classes to hold         *)
(* references in a cycle (src/semantic/ref_cycle.cpp): what a field holds, *)
(* the strongly connected components of what the classes hold, and the     *)
(* three kinds of cycles that are errors.                                  *)
EXTENDS Integers, Sequences, FiniteSets, SequencesExt

CONSTANTS
  NumTypes,    \* number of record types
  FieldTypes,  \* types a field may have
  MaxFields    \* fields of a class (bound)

ASSUME TypesAssumption == NumTypes \in Nat \ {0}

VARIABLES
  graph,    \* type -> what its fields hold
  pass,     \* the cycles that are looked for, then "done" and "running"
  errors,   \* the kinds of cycles that were reported
  counter,  \* the next number
  num,      \* type -> its number, 0 until it is visited
  low,      \* type -> the least number on the stack found from it
  stk,      \* visited types whose component is not complete
  sccs,     \* components
  path,     \* the calls of strongconnect that have not returned, innermost last
  todo      \* type -> successors its call has still to look at

tarjanVars == <<counter, num, low, stk, sccs, path, todo>>
cycleVars == <<graph, pass, errors, tarjanVars>>

Types == 1 .. NumTypes

\* A field is the wrappers around a record type, outermost first.  A base
\* class is a field without wrappers; an instance of a template, inside the
\* template, stands for the template itself.
Wrappers == {"shared", "unique", "static", "weak", "array", "constarray", "range"}

ASSUME FieldsAssumption ==
  \A f \in FieldTypes : f.wraps \in Seq(Wrappers) /\ f.rec \in Types

\* collectHolds, one wrapper: a unique with a deleter is a pointer, one
\* without (static) holds its value inline; a mutable array keeps its elements
\* on the heap; what does not own ends the descent.
Through(kind, wrapper) ==
  CASE kind = "none" -> "none"
    [] wrapper = "shared" -> "shared"
    [] wrapper = "unique" /\ kind # "shared" -> "unique"
    [] wrapper \in {"weak", "range"} -> "none"
    [] wrapper = "array" /\ kind = "inline" -> "heap"
    [] OTHER -> kind

HoldKind(field) == FoldLeft(Through, "inline", field.wraps)

Edges(fields, t) ==
  {[kind |-> HoldKind(f), to |-> f.rec] : f \in {g \in fields[t] : HoldKind(g) # "none"}}

Classes == UNION {[Types -> {fs \in SUBSET FieldTypes : Cardinality(fs) <= MaxFields}]}

AllKinds == {"inline", "heap", "unique", "shared"}

\* Mutant: the first pass goes along shared references only.
KindsOfName(p) ==
  CASE p = "shared" -> {"shared"}
    [] p = "value" -> {"inline"}
    [] OTHER -> {"unique"}

\* The passes of finalize, and the edges each goes along.
KindsOf(p) ==
  CASE p = "shared" -> AllKinds
    [] p = "value" -> {"inline"}
    [] OTHER -> {"unique"}

Following(p) ==
  CASE p = "shared" -> "value"
    [] p = "value" -> "unique"
    [] OTHER -> "done"

AdjOf(g, kinds) == [t \in Types |-> {e.to : e \in {d \in g[t] : d.kind \in kinds}}]
Adj == AdjOf(graph, KindsOf(pass))

\* The least set that holds start and, with every element, what follows it.
Closure(all, start, next) ==
  {u \in all : \A D \in SUBSET all : start \subseteq D /\ (\A v \in D : next[v] \subseteq D) => u \in D}

-----------------------------------------------------------------------------
(* tarjanScc *)

Least(a, b) == IF a < b THEN a ELSE b

Unvisited == [t \in Types |-> 0]
NoEdges == [t \in Types |-> {}]

NothingVisited ==
  /\ counter = 1 /\ num = Unvisited /\ low = Unvisited
  /\ stk = <<>> /\ sccs = {} /\ path = <<>> /\ todo = NoEdges

CycleInit ==
  /\ \E fields \in Classes : graph = [t \in Types |-> Edges(fields, t)]
  /\ pass = "shared"
  /\ errors = {}
  /\ NothingVisited

\* strongconnect(v), up to its loop
Enter(v, rest) ==
  /\ num' = [num EXCEPT ![v] = counter]
  /\ low' = [low EXCEPT ![v] = counter]
  /\ counter' = counter + 1
  /\ stk' = Append(stk, v)
  /\ path' = Append(path, v)
  /\ todo' = [rest EXCEPT ![v] = Adj[v]]
  /\ UNCHANGED <<graph, pass, errors, sccs>>

Looking == pass \in {"shared", "value", "unique"}

\* The loop over all types calls it for one that was not visited.
Connect(v) ==
  /\ Looking
  /\ path = <<>>
  /\ num[v] = 0 /\ \A u \in 1 .. v - 1 : num[u] # 0
  /\ Enter(v, todo)

Caller == path[Len(path)]
OnStack == {stk[i] : i \in DOMAIN stk}

\* The innermost call looks at a successor: one that was not visited gets a
\* call of its own.
LooksAt(w) == path # <<>> /\ w \in todo[Caller]
Rest(w) == [todo EXCEPT ![Caller] = @ \ {w}]

Descend(w) ==
  /\ LooksAt(w)
  /\ num[w] = 0
  /\ Enter(w, Rest(w))

\* Mutant: a type of a complete component is taken for one on the stack.
LookBackAtAll(w) ==
  /\ LooksAt(w)
  /\ num[w] # 0
  /\ low' = [low EXCEPT ![Caller] = Least(@, num[w])]
  /\ todo' = Rest(w)
  /\ UNCHANGED <<graph, pass, errors, counter, num, stk, sccs, path>>

LookBack(w) ==
  /\ LooksAt(w)
  /\ num[w] # 0
  /\ low' = IF w \in OnStack THEN [low EXCEPT ![Caller] = Least(@, num[w])] ELSE low
  /\ todo' = Rest(w)
  /\ UNCHANGED <<graph, pass, errors, counter, num, stk, sccs, path>>

\* What the stack holds from a type on.
Base(v) == CHOOSE i \in DOMAIN stk : stk[i] = v
Above(v) == {stk[i] : i \in Base(v) .. Len(stk)}

\* The innermost call is through; a type that reaches no earlier one completes
\* a component.  Its caller takes over what was found.
Leave ==
  /\ path # <<>>
  /\ todo[Caller] = {}
  /\ path' = SubSeq(path, 1, Len(path) - 1)
  /\ low' = IF Len(path) = 1 THEN low
            ELSE [low EXCEPT ![path[Len(path) - 1]] = Least(@, low[Caller])]
  /\ IF low[Caller] = num[Caller]
     THEN /\ stk' = SubSeq(stk, 1, Base(Caller) - 1)
          /\ sccs' = sccs \cup {Above(Caller)}
     ELSE UNCHANGED <<stk, sccs>>
  /\ UNCHANGED <<graph, pass, errors, counter, num, todo>>

-----------------------------------------------------------------------------
\* A shared reference inside a component of all edges lies on a cycle.
RecursiveShared ==
  \E c \in sccs : \E t \in c : \E e \in graph[t] : e.kind = "shared" /\ e.to \in c

\* Values inside each other, or a value inside itself.
RecursiveValue == \E c \in sccs : Cardinality(c) >= 2 \/ \E t \in c : t \in Adj[t]

\* Unique pointers of different classes to each other; a list, of one class
\* that owns another object of its own, is legal.
RecursiveUnique == \E c \in sccs : Cardinality(c) >= 2

Recursive ==
  CASE pass = "shared" -> RecursiveShared
    [] pass = "value" -> RecursiveValue
    [] OTHER -> RecursiveUnique

\* The end of a pass: its errors are reported and the next one begins.
Report ==
  /\ Looking
  /\ path = <<>>
  /\ \A t \in Types : num[t] # 0
  /\ errors' = IF Recursive THEN errors \cup {pass} ELSE errors
  /\ pass' = Following(pass)
  /\ counter' = 1 /\ num' = Unvisited /\ low' = Unvisited
  /\ stk' = <<>> /\ sccs' = {} /\ path' = <<>> /\ todo' = NoEdges
  /\ UNCHANGED graph

CycleNext == (\E t \in Types : Connect(t) \/ Descend(t) \/ LookBack(t)) \/ Leave \/ Report

Accepted == pass = "done" /\ errors = {}

-----------------------------------------------------------------------------
\* The tables of the check only hold types, and numbers that were given out.
CycleTypeOK ==
  /\ graph \in [Types -> SUBSET [kind : AllKinds, to : Types]]
  /\ pass \in {"shared", "value", "unique", "done", "running"}
  /\ errors \subseteq {"shared", "value", "unique"}
  /\ counter \in Nat \ {0}
  /\ num \in [Types -> 0 .. counter - 1] /\ low \in [Types -> 0 .. counter - 1]
  /\ stk \in Seq(Types) /\ path \in Seq(Types)
  /\ sccs \subseteq SUBSET Types
  /\ todo \in [Types -> SUBSET Types]

\* What a type leads to by fields of some kinds.
Chain(kinds, t) == Closure(Types, {t}, AdjOf(graph, kinds))

SharedCycle ==
  \E t \in Types : \E e \in graph[t] : e.kind = "shared" /\ t \in Chain(AllKinds, e.to)
ValueCycle == \E t \in Types : \E u \in AdjOf(graph, {"inline"})[t] : t \in Chain({"inline"}, u)
UniqueCycle ==
  \E t \in Types : \E u \in Chain({"unique"}, t) : u # t /\ t \in Chain({"unique"}, u)

\* Each pass reports its kind of cycle exactly when the declarations have one:
\* a shared reference that leads back to its own type through anything, a value
\* inside itself, classes that own each other (ref_cycle.cpp:16-17, 134-177).
CyclesReported ==
  /\ "shared" \in errors <=> pass # "shared" /\ SharedCycle
  /\ "value" \in errors <=> pass \notin {"shared", "value"} /\ ValueCycle
  /\ "unique" \in errors <=> pass \in {"done", "running"} /\ UniqueCycle
=============================================================================
