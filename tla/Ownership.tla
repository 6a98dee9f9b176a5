----------------------------- MODULE Ownership ------------------------------
(* The owning references of the runtime (include/runtime/trust/            *)
(* trusted-cpp.hpp) at work in a program whose classes passed the check of *)
(* RefCycle: Shared with its count of owners, Weak, Unique, the guard of a *)
(* captured object, and the references that objects hold in their fields,  *)
(* those the check does not see included: an alias, which owns another     *)
(* object than its type tells, and what fields of Any, Dict and Function   *)
(* keep.  to_unique, detach and set through an alias are left out: they    *)
(* concern the part it points to.                                          *)
EXTENDS RefCycle

CONSTANTS
  Objs,        \* objects on the heap
  Names,       \* local variables that hold references
  Null

ASSUME OwnAssumption == IsFiniteSet(Objs) /\ IsFiniteSet(Names) /\ Null \notin Objs

VARIABLES
  holds,    \* type -> references inside an object of it, nested values included
  declared, \* type -> those of them its declarations tell
  heap,     \* object -> who owns it, its type, its count and its references
  ref       \* name -> the reference it holds

ownVars == <<cycleVars, holds, declared, heap, ref>>

Slots == [kind : {"shared", "unique"}, to : Types]

\* The types whose values lie within an object of type t.  An array holds one
\* element here.
Within(t) == Closure(Types, {t}, AdjOf(graph, {"inline", "heap"}))

Declared ==
  [t \in Types |-> UNION {{s \in graph[u] : s.kind \in {"shared", "unique"}} : u \in Within(t)}]

\* A field of Any, Dict or Function takes a shared reference to anything, and
\* collectHolds finds nothing in it; opaque are the classes with such a field.
\* alias(owner, ptr) is a reference to the type of ptr that owns owner, whatever
\* its type: it goes into any shared field, one of a plain type included, for
\* which a class counts as opaque too.
Undeclared(opaque, t) ==
  IF \E u \in Within(t) : u \in opaque \/ \E e \in graph[u] : e.kind = "shared"
  THEN {s \in Slots : s.kind = "shared"} ELSE {}

Free == [is |-> "free", type |-> 1, strong |-> 0, slots |-> [s \in Slots |-> Null]]
Nothing == [kind |-> "none", obj |-> Null]

OwnInit ==
  /\ CycleInit
  /\ holds = NoEdges /\ declared = NoEdges
  /\ heap = [o \in Objs |-> Free]
  /\ ref = [x \in Names |-> Nothing]

\* A program the check accepts begins; the compiler's tables are gone.
Run ==
  /\ Accepted
  /\ declared' = Declared
  /\ \E opaque \in SUBSET Types :
       holds' = [t \in Types |-> Declared[t] \cup Undeclared(opaque, t)]
  /\ pass' = "running"
  /\ graph' = NoEdges
  /\ UNCHANGED <<errors, tarjanVars, heap, ref>>

\* What the references inside the object o refer to.  One of each kind and
\* type is enough, so no object is held twice by another one.
HeldBy(h, o, kinds) == {h[o].slots[s] : s \in {t \in Slots : t.kind \in kinds}} \ {Null}
Owning == {"shared", "unique"}

\* How many owners p loses when those of gone lose one and the objects of D are
\* destroyed.
Releases(h, gone, D, p) ==
  Cardinality({o \in D : p \in HeldBy(h, o, Owning)}) + (IF p \in gone THEN 1 ELSE 0)

\* The object of a Unique is destroyed with it, that of a Shared or of a guard
\* with the last one.
Falls(h, gone, D, p) ==
  /\ h[p].is # "free"
  /\ Releases(h, gone, D, p) >= IF h[p].is = "shared" THEN h[p].strong ELSE 1

\* A destroyed object lets go of what it holds, and so on.
Destroyed(h, gone) ==
  {p \in Objs : \A D \in SUBSET Objs : (\A q \in Objs : Falls(h, gone, D, q) => q \in D) => p \in D}

\* Each object of gone loses an owner.
LetGo(h, gone) ==
  LET dead == Destroyed(h, gone)
  IN  [p \in Objs |->
         IF p \in dead THEN Free
         ELSE IF h[p].is = "shared" THEN [h[p] EXCEPT !.strong = @ - Releases(h, gone, dead, p)]
         ELSE h[p]]

\* Observers of an object that has no shared owner any more have expired.
Expire(h, r) ==
  [x \in Names |-> IF r[x].kind = "weak" /\ r[x].obj # Null /\ h[r[x].obj].is # "shared"
                   THEN [r[x] EXCEPT !.obj = Null] ELSE r[x]]

Settle(h, r) == heap' = h /\ ref' = Expire(h, r) /\ UNCHANGED <<holds, declared>>

\* The object a variable owns.
OwnedBy(x) == IF ref[x].kind \in {"shared", "unique", "guard"} THEN {ref[x].obj} ELSE {}

\* The new reference is there before the old one goes.
Rebind(x, kind, o, h, r) ==
  Settle(LetGo(h, OwnedBy(x)), [r EXCEPT ![x] = [kind |-> kind, obj |-> o]])

Shares(o) == [heap EXCEPT ![o].strong = @ + 1]

\* The objects a program can get at, from its variables and through fields.
From(start, kinds) == Closure(Objs, start, [o \in Objs |-> HeldBy(heap, o, kinds)])
Roots == UNION {OwnedBy(x) : x \in Names}
Reached == From(Roots, Owning)

-----------------------------------------------------------------------------
\* Shared(value), Unique(value), make_unique
Make(x, kind, t) ==
  \E o \in Objs :
    /\ heap[o].is = "free"
    /\ Rebind(x, kind, o,
           [heap EXCEPT ![o] = [Free EXCEPT !.is = kind, !.type = t,
                                            !.strong = IF kind = "shared" THEN 1 ELSE 0]], ref)

Copy(x, y) ==
  /\ ref[y].kind = "shared"
  /\ Rebind(x, "shared", ref[y].obj, Shares(ref[y].obj), ref)

MoveTo(x, y) ==
  /\ ref[y].kind \in {"shared", "unique"}
  /\ x # y
  /\ Rebind(x, ref[y].kind, ref[y].obj, heap, [ref EXCEPT ![y] = Nothing])

Weaken(x, y) ==
  /\ ref[y].kind = "shared"
  /\ x # y
  /\ Rebind(x, "weak", ref[y].obj, heap, ref)

\* Shared::lock, Weak::lock, SharedBorrowedRef::access: an observer that has
\* expired throws.
Lock(x, y) ==
  /\ ref[y].kind \in {"shared", "weak"}
  /\ ref[y].obj # Null
  /\ x # y
  /\ Rebind(x, "guard", ref[y].obj, Shares(ref[y].obj), ref)

\* reset, or the end of a scope
Drop(x) ==
  /\ ref[x].kind # "none"
  /\ Rebind(x, "none", Null, heap, ref)

SlotOf(o, s) == o \in Reached /\ s \in holds[heap[o].type]

\* o.s = y, o.s = alias(y, ptr)
Store(o, s, y) ==
  /\ SlotOf(o, s)
  /\ s.kind = "shared" /\ ref[y].kind = "shared"
  /\ heap[ref[y].obj].type = s.to
  /\ Settle(LetGo([Shares(ref[y].obj) EXCEPT ![o].slots[s] = ref[y].obj],
                  {heap[o].slots[s]} \ {Null}), ref)

\* o.s = move(y)
StoreMoved(o, s, y) ==
  /\ SlotOf(o, s)
  /\ s.kind = "unique" /\ ref[y].kind = "unique"
  /\ heap[ref[y].obj].type = s.to
  /\ Settle(LetGo([heap EXCEPT ![o].slots[s] = ref[y].obj], {heap[o].slots[s]} \ {Null}),
            [ref EXCEPT ![y] = Nothing])

\* x = o.s, and x = move(o.s)
Load(x, o, s) ==
  LET p == heap[o].slots[s]
  IN  /\ SlotOf(o, s)
      /\ p # Null
      /\ \/ s.kind = "shared" /\ Rebind(x, "shared", p, Shares(p), ref)
         \/ s.kind = "unique" /\ Rebind(x, "unique", p, [heap EXCEPT ![o].slots[s] = Null], ref)

Clear(o, s) ==
  /\ SlotOf(o, s)
  /\ heap[o].slots[s] # Null
  /\ Settle(LetGo([heap EXCEPT ![o].slots[s] = Null], {heap[o].slots[s]}), ref)

\* to_shared
Promote(x) ==
  /\ ref[x].kind = "unique"
  /\ Settle([heap EXCEPT ![ref[x].obj].is = "shared", ![ref[x].obj].strong = 1],
            [ref EXCEPT ![x].kind = "shared"])

\* to_unique: with other owners it throws.  The value goes on under another
\* identity, so its observers expire.
Demote(x) ==
  /\ ref[x].kind = "shared"
  /\ heap[ref[x].obj].strong = 1
  /\ Settle([heap EXCEPT ![ref[x].obj].is = "unique", ![ref[x].obj].strong = 0],
            [ref EXCEPT ![x].kind = "unique"])

\* The value of o copied into the object p.  What holds a unique reference
\* cannot be copied.
Copyable(o) == \A s \in holds[heap[o].type] : s.kind = "shared"
Retained(h, o) ==
  [q \in Objs |-> IF q \in HeldBy(heap, o, {"shared"}) THEN [h[q] EXCEPT !.strong = @ + 1]
                  ELSE h[q]]
Copied(x, kind, o) ==
  /\ Copyable(o)
  /\ \E p \in Objs :
       /\ heap[p].is = "free"
       /\ Rebind(x, kind, p,
              Retained([heap EXCEPT ![p] = [heap[o] EXCEPT !.is = kind,
                                              !.strong = IF kind = "shared" THEN 1 ELSE 0]], o),
              ref)

\* detach: a private copy of an object that has other owners.
Detach(x) ==
  /\ ref[x].kind = "shared"
  /\ heap[ref[x].obj].strong # 1
  /\ Copied(x, "shared", ref[x].obj)

\* clone
Clone(x, y) == ref[y].kind \in {"shared", "unique"} /\ x # y /\ Copied(x, ref[y].kind, ref[y].obj)

\* x.set(*y): the value of one object is assigned to another.
Overwrite(x, y) ==
  LET o == ref[x].obj
      p == ref[y].obj
  IN  /\ ref[x].kind \in {"shared", "weak", "guard"} /\ ref[y].kind \in {"shared", "unique"}
      /\ o # Null /\ o # p
      /\ heap[o].type = heap[p].type /\ Copyable(p)
      /\ Settle(LetGo([Retained(heap, p) EXCEPT ![o].slots = heap[p].slots],
                      HeldBy(heap, o, Owning)), ref)

\* Unique::swap
Swap(x, y) ==
  /\ ref[x].kind = "unique" /\ ref[y].kind = "unique"
  /\ Settle(heap, [ref EXCEPT ![x] = ref[y], ![y] = ref[x]])

\* shared_from_this of a captured object
ShareThis(x, y) ==
  /\ ref[y].kind = "guard"
  /\ x # y
  /\ Rebind(x, "shared", ref[y].obj, Shares(ref[y].obj), ref)

ProgramStep ==
  \/ \E x \in Names :
       \/ \E kind \in {"shared", "unique"}, t \in Types : Make(x, kind, t)
       \/ \E y \in Names : Copy(x, y) \/ MoveTo(x, y) \/ Weaken(x, y) \/ Lock(x, y)
                           \/ Clone(x, y) \/ Overwrite(x, y) \/ Swap(x, y) \/ ShareThis(x, y)
       \/ Drop(x) \/ Promote(x) \/ Demote(x) \/ Detach(x)
  \/ \E o \in Objs, s \in Slots :
       \/ \E x \in Names : Store(o, s, x) \/ StoreMoved(o, s, x) \/ Load(x, o, s)
       \/ Clear(o, s)

OwnNext ==
  \/ CycleNext /\ UNCHANGED <<holds, declared, heap, ref>>
  \/ Run
  \/ pass = "running" /\ ProgramStep /\ UNCHANGED cycleVars

OwnSpec == OwnInit /\ [][OwnNext]_ownVars

-----------------------------------------------------------------------------
\* References hold what their kind says: an owner's object is alive.
OwnTypeOK ==
  /\ CycleTypeOK
  /\ holds \in [Types -> SUBSET Slots] /\ declared \in [Types -> SUBSET Slots]
  /\ heap \in [Objs -> [is : {"free", "shared", "unique"}, type : Types, strong : Nat,
                        slots : [Slots -> Objs \cup {Null}]]]
  /\ ref \in [Names -> [kind : {"none", "shared", "unique", "weak", "guard"},
                        obj : Objs \cup {Null}]]

Lost == {o \in Objs : heap[o].is # "free"} \ Reached

OwnsItself(o) == o \in From(HeldBy(heap, o, {"unique"}), {"unique"})

\* What an object holds otherwise than its declarations tell, and whether this
\* closes a circle.
HeldAside(o) == {heap[o].slots[s] : s \in Slots \ declared[heap[o].type]} \ {Null}
ClosesAside(o) == \E p \in HeldAside(o) : o \in From({p}, Owning)

\* In a program the check accepts no object outlives its last reference,
\* but for two cases: a unique reference that was moved into what it owns
\* itself, which the check leaves legal for the sake of owned lists
\* (ref_cycle.cpp:134-177, REFType.md 11.11), and a shared reference that closes
\* a circle from a field whose declaration does not tell it: an alias, or the
\* content of an Any, a Dict or a Function (ref_cycle.cpp:273).
NoLeak ==
  \A o \in Lost : \E p \in Lost : (OwnsItself(p) \/ ClosesAside(p)) /\ o \in From({p}, Owning)

\* "Strong cyclic references are forbidden" (ref_cycle.hpp:4-5,
\* REFType.md 11.11): no object of an accepted program keeps itself alive through
\* shared references.  An alias or a field of Any, Dict or Function breaks it.
NoStrongCycle == \A o \in Objs : o \notin From(HeldBy(heap, o, {"shared"}), {"shared"})
=============================================================================
