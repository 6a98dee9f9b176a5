--------------------------- MODULE SyncLocksProofs ---------------------------
(* Proofs about SyncLocks, for any threads, objects, policies and timeouts. *)
EXTENDS SyncLocks, FiniteSetTheorems, NaturalsInduction, WellFoundedInduction,
        TLAPS

-----------------------------------------------------------------------------
(* The inductive invariant.                                                *)

\* The guard variables a capture is going to fill are empty and distinct.
SlotsReserved ==
  \A t \in Threads : capture[t] # None =>
    \A k \in DOMAIN capture[t].todo :
      /\ guard[<<t, capture[t].todo[k].slot>>] = None
      /\ \A l \in DOMAIN capture[t].todo :
           capture[t].todo[k].slot = capture[t].todo[l].slot => k = l

\* An ordered thread goes up: what it is still to lock lies above what it
\* holds, the next one first.
Ascending ==
  \A t \in Ordered : capture[t] # None =>
    \A k \in DOMAIN capture[t].todo :
      /\ \A l \in DOMAIN capture[t].todo :
           k < l => capture[t].todo[k].obj < capture[t].todo[l].obj
      /\ \A i \in Lockers : guard[<<t, i>>] # None =>
           guard[<<t, i>>].obj < capture[t].todo[k].obj

IInv == TypeOK /\ LocksMatchGuards /\ MutualExclusion /\ SlotsReserved /\ Ascending

-----------------------------------------------------------------------------
(* Numbers and finite sets.                                                *)

LEMMA Greatest ==
  ASSUME NEW m \in Nat, NEW T \in SUBSET (0..m), T # {}
  PROVE  \E x \in T : \A y \in T : y <= x
<1> DEFINE R == OpToRel(<, Nat)
           D == {n \in Nat : m - n \in T}
<1>1. IsWellFoundedOn(R, Nat)
  BY NatLessThanWellFounded
<1>2. \A a, b \in Nat : a < b => <<a, b>> \in R
  BY DEF OpToRel
<1>3. D \subseteq Nat /\ D # {}
  <2>1. PICK x \in T : x \in 0..m
    OBVIOUS
  <2>2. m - x \in Nat /\ m - (m - x) = x
    BY <2>1
  <2> QED BY <2>1, <2>2
<1> HIDE DEF R
<1>4. PICK d \in D : \A e \in D : <<e, d>> \notin R
  <2> HIDE DEF D
  <2> QED BY <1>1, <1>3, WFMin
<1>5. ASSUME NEW y \in T PROVE y <= m - d
  <2>1. y \in 0..m
    OBVIOUS
  <2>2. m - y \in Nat /\ m - (m - y) = y
    BY <2>1
  <2>3. m - y \in D
    BY <2>2
  <2>4. ~(m - y < d)
    BY <2>2, <2>3, <1>2, <1>4
  <2> QED BY <2>1, <2>4
<1> QED BY <1>4, <1>5

LEMMA LockRecord ==
  ASSUME NEW w \in BOOLEAN, NEW n \in Nat, NEW x, x = [writer |-> w, readers |-> n]
  PROVE  (x.writer <=> w) /\ x.readers = n /\ x \in [writer : BOOLEAN, readers : Nat]
<1>1. x.writer = w
  OBVIOUS
<1> QED
  BY <1>1

LEMMA CellsFinite ==
  /\ IsFiniteSet(Cells)
  /\ \A o : /\ IsFiniteSet(Readers(o)) /\ IsFiniteSet(Writers(o))
            /\ Cardinality(Readers(o)) \in Nat
            /\ \A C : /\ IsFiniteSet(C \cap Readers(o))
                      /\ Cardinality(C \cap Readers(o)) \in Nat
                      /\ Cardinality(C \cap Readers(o)) <= Cardinality(Readers(o))
<1>1. IsFiniteSet(Cells)
  BY SyncAssumption, FS_Product DEF Cells
<1>2. \A o : IsFiniteSet(Readers(o)) /\ IsFiniteSet(Writers(o))
  BY <1>1, FS_Subset DEF Readers, Writers
<1> QED
  BY <1>1, <1>2, FS_CardinalityType, FS_Intersection

-----------------------------------------------------------------------------
(* Destroying guards.                                                      *)

LEMMA DestroyedSets ==
  ASSUME NEW t, NEW C \in SUBSET Cells, TypeOK, Destroy(t, C), NEW o \in Objects
  PROVE  Readers(o)' = Readers(o) \ C /\ Writers(o)' = Writers(o) \ C
  BY DEF Destroy, Readers, Writers, Reads, Writes

LEMMA DestroyLocks ==
  ASSUME NEW t, NEW C \in SUBSET Cells, TypeOK, LocksMatchGuards, MutualExclusion,
         Destroy(t, C)
  PROVE  /\ lock' \in [Objects -> [writer : BOOLEAN, readers : Nat]]
         /\ guard' \in [Cells -> Guards \cup {None}]
         /\ LocksMatchGuards' /\ MutualExclusion'
<1>1. guard' \in [Cells -> Guards \cup {None}]
  BY DEF TypeOK, Destroy
<1>2. ASSUME NEW o \in Objects
      PROVE  /\ lock'[o] \in [writer : BOOLEAN, readers : Nat]
             /\ lock'[o].writer <=> Writers(o)' # {}
             /\ lock'[o].readers = Cardinality(Readers(o)')
  <2>1. lock'[o] = [writer |-> lock[o].writer /\ C \cap Writers(o) = {},
                    readers |-> lock[o].readers - Cardinality(C \cap Readers(o))]
    BY DEF Destroy, Unlocked
  <2>2. lock[o].readers = Cardinality(Readers(o)) /\ (lock[o].writer <=> Writers(o) # {})
    BY DEF LocksMatchGuards
  <2>3. Cardinality(Readers(o)') = Cardinality(Readers(o)) - Cardinality(C \cap Readers(o))
    <3>1. IsFiniteSet(Readers(o))
      BY CellsFinite
    <3>2. Cardinality(Readers(o) \ C) = Cardinality(Readers(o)) - Cardinality(Readers(o) \cap C)
      BY <3>1, FS_Difference
    <3>3. Readers(o) \cap C = C \cap Readers(o)
      OBVIOUS
    <3>4. Readers(o)' = Readers(o) \ C
      BY DestroyedSets
    <3> QED BY <3>2, <3>3, <3>4
  <2>4. Writers(o)' # {} <=> Writers(o) # {} /\ C \cap Writers(o) = {}
    <3>1. \A c, d \in Writers(o) : c = d
      BY DEF MutualExclusion, Writers, Writes
    <3> QED BY <3>1, DestroyedSets
  <2>5. Cardinality(Readers(o)) - Cardinality(C \cap Readers(o)) \in Nat
    <3> DEFINE n == Cardinality(Readers(o))
               k == Cardinality(C \cap Readers(o))
    <3>1. n \in Nat /\ k \in Nat /\ k <= n
      BY CellsFinite
    <3> HIDE DEF n, k
    <3>2. n - k \in Nat
      BY <3>1
    <3> QED BY <3>2 DEF n, k
  <2>6. /\ lock'[o].writer <=> lock[o].writer /\ C \cap Writers(o) = {}
        /\ lock'[o].readers = lock[o].readers - Cardinality(C \cap Readers(o))
        /\ lock'[o] \in [writer : BOOLEAN, readers : Nat]
    <3> DEFINE w == lock[o].writer /\ C \cap Writers(o) = {}
               n == lock[o].readers - Cardinality(C \cap Readers(o))
    <3>1. lock[o].writer \in BOOLEAN /\ w \in BOOLEAN
      BY DEF TypeOK
    <3>2. n \in Nat
      BY <2>2, <2>5
    <3>3. lock'[o] = [writer |-> w, readers |-> n]
      BY <2>1
    <3> HIDE DEF w, n
    <3>4. (lock'[o].writer <=> w) /\ lock'[o].readers = n
          /\ lock'[o] \in [writer : BOOLEAN, readers : Nat]
      BY <3>1, <3>2, <3>3, LockRecord
    <3> QED BY <3>4 DEF w, n
  <2>7. lock'[o].writer <=> Writers(o)' # {}
    BY <2>2, <2>4, <2>6, Zenon
  <2>8. lock'[o].readers = Cardinality(Readers(o)')
    BY <2>2, <2>3, <2>6
  <2> QED BY <2>6, <2>7, <2>8
<1>3. lock' = [o \in Objects |-> lock'[o]]
  BY DEF Destroy, Unlocked
<1>4. MutualExclusion'
  BY DEF MutualExclusion, Destroy, Reads
<1> QED
  BY <1>1, <1>2, <1>3, <1>4 DEF LocksMatchGuards

\* Guards are destroyed and at most their thread's capture ends.
LEMMA DestroyKeeps ==
  ASSUME NEW t, NEW C \in SUBSET Cells, IInv, Destroy(t, C),
         capture' \in [Threads -> Captures \cup {None}],
         \A u \in Threads : capture'[u] = capture[u] \/ capture'[u] = None
  PROVE  IInv'
<1>1. TypeOK /\ LocksMatchGuards /\ MutualExclusion /\ SlotsReserved /\ Ascending
  BY DEF IInv
<1>2. \A c \in Cells : guard'[c] = guard[c] \/ guard'[c] = None
  BY DEF Destroy
<1>3. TypeOK'
  BY <1>1, DestroyLocks DEF TypeOK
<1>4. LocksMatchGuards' /\ MutualExclusion'
  BY <1>1, DestroyLocks
<1>5. \A u \in Threads, i \in Lockers : <<u, i>> \in Cells
  BY DEF Cells
<1>6. ASSUME NEW u \in Threads, capture'[u] # None, NEW k \in DOMAIN capture'[u].todo
      PROVE  /\ guard'[<<u, capture'[u].todo[k].slot>>] = None
             /\ \A l \in DOMAIN capture'[u].todo :
                  capture'[u].todo[k].slot = capture'[u].todo[l].slot => k = l
  <2>1. capture'[u] = capture[u] /\ capture[u] # None
    BY <1>6
  <2>2. capture[u].todo[k].slot \in Lockers
    <3>1. capture[u].todo \in Seq(Requests)
      BY <1>1, <2>1 DEF TypeOK, Captures
    <3>2. capture[u].todo[k] \in Requests
      BY <3>1, <2>1, <1>6
    <3> QED BY <3>2 DEF Requests
  <2>3. guard[<<u, capture[u].todo[k].slot>>] = None
    BY <1>1, <1>6, <2>1 DEF SlotsReserved
  <2>4. guard'[<<u, capture[u].todo[k].slot>>] = None
    BY <1>2, <1>5, <2>2, <2>3
  <2> QED BY <1>1, <1>6, <2>1, <2>4 DEF SlotsReserved
<1>7. SlotsReserved'
  BY <1>6 DEF SlotsReserved
<1>8. Ascending'
  <2>1. Ordered \subseteq Threads
    BY SyncAssumption
  <2> QED BY <1>1, <1>2, <1>5, <2>1 DEF Ascending
<1> QED
  BY <1>3, <1>4, <1>7, <1>8 DEF IInv

-----------------------------------------------------------------------------
(* Beginning a capture.                                                    *)

LEMMA BeginKeeps ==
  ASSUME NEW t \in Threads, NEW todo \in Seq(Requests), todo # << >>,
         IInv, Begin(t, todo),
         \A k \in DOMAIN todo :
           /\ todo[k].slot \notin Holding(t)
           /\ \A l \in DOMAIN todo : todo[k].slot = todo[l].slot => k = l,
         t \in Ordered =>
           /\ Holding(t) = {}
           /\ \A k, l \in DOMAIN todo : k < l => todo[k].obj < todo[l].obj
  PROVE  IInv'
<1>1. TypeOK /\ LocksMatchGuards /\ MutualExclusion /\ SlotsReserved /\ Ascending
  BY DEF IInv
<1>2. lock' = lock /\ guard' = guard
  BY DEF Begin
<1>3. /\ capture'[t] = [todo |-> todo, taken |-> {}]
      /\ \A u \in Threads \ {t} : capture'[u] = capture[u]
      /\ capture' \in [Threads -> Captures \cup {None}]
  BY <1>1 DEF Begin, TypeOK, Captures
<1>4. capture'[t].todo = todo
  BY <1>3
<1>5. TypeOK'
  BY <1>1, <1>2, <1>3, <1>4 DEF TypeOK
<1>6. LocksMatchGuards' /\ MutualExclusion'
  <2>1. \A obj : Readers(obj)' = Readers(obj) /\ Writers(obj)' = Writers(obj)
    BY <1>2 DEF Readers, Writers, Reads, Writes
  <2>2. LocksMatchGuards'
    BY <1>1, <1>2, <2>1 DEF LocksMatchGuards
  <2>3. MutualExclusion'
    BY <1>1, <1>2 DEF MutualExclusion, Reads
  <2> QED BY <2>2, <2>3
<1>7. SlotsReserved'
  <2>1. ASSUME NEW k \in DOMAIN todo PROVE guard[<<t, todo[k].slot>>] = None
    <3>1. todo[k] \in Requests
      OBVIOUS
    <3>2. todo[k].slot \in Lockers
      BY <3>1 DEF Requests
    <3> QED BY <3>2 DEF Holding
  <2> QED BY <1>1, <1>2, <1>3, <1>4, <2>1 DEF SlotsReserved
<1>8. Ascending'
  <2>1. Ordered \subseteq Threads
    BY SyncAssumption
  <2> QED BY <1>1, <1>2, <1>3, <1>4, <2>1 DEF Ascending, Holding
<1> QED
  BY <1>5, <1>6, <1>7, <1>8 DEF IInv

LEMMA CaptureOneKeeps ==
  ASSUME NEW t \in Threads, IInv, CaptureOne(t)
  PROVE  IInv'
<1>1. PICK q \in Requests : q.slot \notin Holding(t) /\ Begin(t, <<q>>)
  BY DEF CaptureOne
<1>2. t \notin Ordered
  BY DEF CaptureOne
<1>3. <<q>> \in Seq(Requests) /\ <<q>> # << >> /\ DOMAIN <<q>> = {1} /\ <<q>>[1] = q
  OBVIOUS
<1> QED
  BY <1>1, <1>2, <1>3, BeginKeeps

LEMMA CaptureBothKeeps ==
  ASSUME NEW t \in Threads, IInv, CaptureBoth(t)
  PROVE  IInv'
<1>1. PICK a, b \in Requests :
        /\ a.slot # b.slot /\ {a.slot, b.slot} \cap Holding(t) = {}
        /\ t \in Ordered => a.obj # b.obj /\ Holding(t) = {}
        /\ Begin(t, ByAddress(a, b))
  BY DEF CaptureBoth
<1> DEFINE todo == ByAddress(a, b)
<1>2. a.obj \in Nat /\ b.obj \in Nat
  <2>1. a.obj \in Objects /\ b.obj \in Objects
    BY DEF Requests
  <2>2. Objects \subseteq Nat
    BY SyncAssumption
  <2> QED BY <2>1, <2>2
<1>3. /\ todo \in Seq(Requests) /\ todo # << >> /\ DOMAIN todo = {1, 2}
      /\ \/ todo[1] = a /\ todo[2] = b /\ a.obj < b.obj
         \/ todo[1] = b /\ todo[2] = a /\ b.obj <= a.obj
  BY <1>2 DEF ByAddress
<1> HIDE DEF todo
<1>4. \A k \in DOMAIN todo :
        /\ todo[k].slot \notin Holding(t)
        /\ \A l \in DOMAIN todo : todo[k].slot = todo[l].slot => k = l
  BY <1>1, <1>3
<1>5. t \in Ordered =>
        /\ Holding(t) = {}
        /\ \A k, l \in DOMAIN todo : k < l => todo[k].obj < todo[l].obj
  BY <1>1, <1>2, <1>3
<1>6. Begin(t, todo)
  BY <1>1 DEF todo
<1> QED
  BY <1>3, <1>4, <1>5, <1>6, BeginKeeps

-----------------------------------------------------------------------------
(* Acquiring a lock.                                                       *)

\* The request an acquisition serves, and the cell it fills.
LEMMA Served ==
  ASSUME NEW t \in Threads, IInv, Acquire(t)
  PROVE  LET q == Head(capture[t].todo)
             cell == <<t, q.slot>>
             g == [obj |-> q.obj, shared |-> q.shared]
         IN /\ q \in Requests /\ q = capture[t].todo[1] /\ 1 \in DOMAIN capture[t].todo
            /\ q.obj \in Objects /\ q.slot \in Lockers /\ q.shared \in BOOLEAN
            /\ cell \in Cells /\ guard[cell] = None
            /\ g \in Guards /\ g # None
            /\ (Reads(g) <=> Reads(q)) /\ (Writes(g) <=> Writes(q))
            /\ Free(t, q) /\ lock' = Locked(q)
            /\ guard' = [guard EXCEPT ![cell] = g]
<1> DEFINE q == Head(capture[t].todo)
           g == [obj |-> q.obj, shared |-> q.shared]
<1>1. TypeOK /\ SlotsReserved /\ capture[t] # None
  BY DEF IInv, Acquire
<1>2. capture[t].todo \in Seq(Requests) /\ capture[t].todo # << >>
  BY <1>1 DEF TypeOK, Captures
<1>3. q \in Requests /\ q = capture[t].todo[1] /\ 1 \in DOMAIN capture[t].todo
  BY <1>2
<1>4. q.obj \in Objects /\ q.slot \in Lockers /\ q.shared \in BOOLEAN
  BY <1>3 DEF Requests
<1>5. <<t, q.slot>> \in Cells
  BY <1>4 DEF Cells
<1>6. guard[<<t, q.slot>>] = None
  BY <1>1, <1>3 DEF SlotsReserved
<1>7. g \in Guards /\ g # None
  BY <1>4, NoneAssumption DEF Guards
<1>8. (Reads(g) <=> Reads(q)) /\ (Writes(g) <=> Writes(q))
  <2>1. g.obj = q.obj /\ g.shared = q.shared
    OBVIOUS
  <2> HIDE DEF g, q
  <2> QED BY <2>1 DEF Reads, Writes
<1>9. Free(t, q) /\ lock' = Locked(q) /\ guard' = [guard EXCEPT ![<<t, q.slot>>] = g]
  BY DEF Acquire
<1> HIDE DEF q, g
<1>10. QED
  BY <1>3, <1>4, <1>5, <1>6, <1>7, <1>8, <1>9 DEF q, g

LEMMA AcquireLocks ==
  ASSUME NEW t \in Threads, IInv, Acquire(t)
  PROVE  LocksMatchGuards' /\ MutualExclusion'
         /\ lock' \in [Objects -> [writer : BOOLEAN, readers : Nat]]
<1> DEFINE q == Head(capture[t].todo)
           cell == <<t, q.slot>>
           g == [obj |-> q.obj, shared |-> q.shared]
<1>1. TypeOK /\ LocksMatchGuards /\ MutualExclusion
  BY DEF IInv
<1>2. /\ q.obj \in Objects /\ cell \in Cells /\ guard[cell] = None
      /\ g # None /\ (Reads(g) <=> Reads(q)) /\ (Writes(g) <=> Writes(q))
      /\ Free(t, q) /\ lock' = Locked(q) /\ guard' = [guard EXCEPT ![cell] = g]
      /\ g.obj = q.obj /\ cell[1] = t
  BY Served
<1> HIDE DEF q, cell, g
<1>3. /\ guard'[cell] = g
      /\ \A c \in Cells \ {cell} : guard'[c] = guard[c]
      /\ guard \in [Cells -> Guards \cup {None}]
  BY <1>1, <1>2 DEF TypeOK
<1>4. ASSUME NEW o \in Objects
      PROVE  /\ cell \notin Readers(o) /\ cell \notin Writers(o)
             /\ Readers(o)' = IF o = q.obj /\ Reads(q) THEN Readers(o) \cup {cell} ELSE Readers(o)
             /\ Writers(o)' = IF o = q.obj /\ Writes(q) THEN Writers(o) \cup {cell} ELSE Writers(o)
  BY <1>2, <1>3 DEF Readers, Writers, Reads, Writes
<1>5. ASSUME NEW o \in Objects
      PROVE  /\ lock'[o].writer <=> lock[o].writer \/ (o = q.obj /\ Writes(q))
             /\ lock'[o].readers = IF o = q.obj /\ Reads(q) THEN lock[o].readers + 1
                                   ELSE lock[o].readers
             /\ lock'[o] \in [writer : BOOLEAN, readers : Nat]
  <2>1. lock[o] \in [writer : BOOLEAN, readers : Nat]
    BY <1>1 DEF TypeOK
  <2>2. CASE o = q.obj
    <3> DEFINE w == lock[o].writer \/ Writes(q)
               n == IF Reads(q) THEN lock[o].readers + 1 ELSE lock[o].readers
    <3>1. w \in BOOLEAN /\ n \in Nat
      BY <2>1
    <3>2. lock'[o] = [writer |-> w, readers |-> n]
      BY <1>1, <1>2, <2>2 DEF TypeOK, Locked
    <3> HIDE DEF w, n
    <3>3. (lock'[o].writer <=> w) /\ lock'[o].readers = n
          /\ lock'[o] \in [writer : BOOLEAN, readers : Nat]
      BY <3>1, <3>2, LockRecord
    <3>4. lock'[o].writer <=> lock[o].writer \/ (o = q.obj /\ Writes(q))
      BY <2>2, <3>3, Zenon DEF w
    <3>5. lock'[o].readers = IF o = q.obj /\ Reads(q) THEN lock[o].readers + 1
                            ELSE lock[o].readers
      BY <2>2, <3>3 DEF n
    <3> QED BY <3>3, <3>4, <3>5
  <2>3. CASE o # q.obj
    <3>1. lock'[o] = lock[o]
      BY <1>1, <1>2, <2>3 DEF TypeOK, Locked
    <3> QED BY <2>1, <2>3, <3>1, Zenon
  <2> QED BY <2>2, <2>3
<1>6. ASSUME NEW o \in Objects
      PROVE  lock'[o].writer <=> Writers(o)' # {}
  <2>1. lock[o].writer <=> Writers(o) # {}
    BY <1>1 DEF LocksMatchGuards
  <2>2. Writers(o)' # {} <=> Writers(o) # {} \/ (o = q.obj /\ Writes(q))
    BY <1>4
  <2> QED BY <2>1, <2>2, <1>5, Zenon
<1>7. ASSUME NEW o \in Objects
      PROVE  lock'[o].readers = Cardinality(Readers(o)')
  <2>1. lock[o].readers = Cardinality(Readers(o))
    BY <1>1 DEF LocksMatchGuards
  <2>2. CASE o = q.obj /\ Reads(q)
    <3>1. lock'[o].readers = lock[o].readers + 1
      BY <2>2, <1>5
    <3>2. IsFiniteSet(Readers(o)) /\ cell \notin Readers(o)
      BY CellsFinite, <1>4
    <3>3. Cardinality(Readers(o) \cup {cell}) = Cardinality(Readers(o)) + 1
      BY <3>2, FS_AddElement
    <3> QED BY <3>1, <3>3, <2>1, <2>2, <1>4
  <2>3. CASE ~(o = q.obj /\ Reads(q))
    <3>1. lock'[o].readers = lock[o].readers
      BY <2>3, <1>5
    <3>2. Readers(o)' = Readers(o)
      BY <2>3, <1>4
    <3> QED BY <3>1, <3>2, <2>1
  <2> QED BY <2>2, <2>3
<1>8. lock' \in [Objects -> [writer : BOOLEAN, readers : Nat]]
  <2>1. lock' = [o \in Objects |-> lock'[o]]
    BY <1>1, <1>2 DEF Locked, TypeOK
  <2>2. \A o \in Objects : lock'[o] \in [writer : BOOLEAN, readers : Nat]
    BY <1>5
  <2> QED BY <2>1, <2>2
<1>9. ASSUME NEW c \in Cells \ {cell}, guard[c] # None, guard[c].obj = q.obj
      PROVE  IF Kind[q.obj] = "single" THEN c[1] = Home[q.obj] /\ t = Home[q.obj]
             ELSE Reads(guard[c]) /\ Reads(g)
  <2>1. CASE Kind[q.obj] = "single"
    BY <1>1, <1>2, <1>9, <2>1 DEF Free, MutualExclusion
  <2>2. CASE Kind[q.obj] # "single"
    <3>1. ~lock[q.obj].writer /\ (Reads(q) \/ lock[q.obj].readers = 0)
      BY <2>2, <1>2 DEF Free
    <3>2. Writers(q.obj) = {}
      BY <3>1, <1>1, <1>2 DEF LocksMatchGuards
    <3>3. Reads(guard[c])
      BY <3>2, <2>2, <1>9 DEF Writers, Writes
    <3>4. c \in Readers(q.obj)
      BY <3>3, <1>9 DEF Readers
    <3>5. Readers(q.obj) # {} => Cardinality(Readers(q.obj)) # 0
      BY CellsFinite, FS_EmptySet
    <3>6. lock[q.obj].readers # 0
      BY <3>4, <3>5, <1>1, <1>2 DEF LocksMatchGuards
    <3> QED BY <3>1, <3>3, <3>6, <2>2, <1>2
  <2> QED BY <2>1, <2>2
<1>10. Kind[q.obj] = "single" => t = Home[q.obj]
  BY <1>2 DEF Free
<1>11. MutualExclusion'
  <2> SUFFICES ASSUME NEW c \in Cells, NEW d \in Cells,
                      guard'[c] # None, guard'[d] # None, guard'[c].obj = guard'[d].obj
               PROVE  IF Kind[guard'[c].obj] = "single" THEN c[1] = Home[guard'[c].obj]
                      ELSE c = d \/ (Reads(guard'[c]) /\ Reads(guard'[d]))
    BY DEF MutualExclusion, Reads
  <2>1. CASE c = cell /\ d = cell
    BY <2>1, <1>2, <1>3, <1>10
  <2>2. CASE c = cell /\ d # cell
    BY <2>2, <1>2, <1>3, <1>9, <1>10
  <2>3. CASE c # cell /\ d = cell
    BY <2>3, <1>2, <1>3, <1>9
  <2>4. CASE c # cell /\ d # cell
    BY <2>4, <1>1, <1>3 DEF MutualExclusion
  <2> QED BY <2>1, <2>2, <2>3, <2>4
<1> QED
  BY <1>6, <1>7, <1>8, <1>11 DEF LocksMatchGuards

LEMMA AcquireKeeps ==
  ASSUME NEW t \in Threads, IInv, Acquire(t)
  PROVE  IInv'
<1> DEFINE todo == capture[t].todo
           q == Head(todo)
           rest == Tail(todo)
           cell == <<t, q.slot>>
           g == [obj |-> q.obj, shared |-> q.shared]
<1>1. TypeOK /\ SlotsReserved /\ Ascending /\ capture[t] # None
  BY DEF IInv, Acquire
<1>2. /\ q.slot \in Lockers /\ q = todo[1] /\ 1 \in DOMAIN todo
      /\ cell \in Cells /\ g \in Guards /\ guard' = [guard EXCEPT ![cell] = g]
      /\ g.obj = q.obj
  BY Served
<1>3. capture' = [capture EXCEPT ![t] =
                    IF rest = << >> THEN None
                    ELSE [todo |-> rest, taken |-> capture[t].taken \cup {q.slot}]]
  BY DEF Acquire
<1>4. /\ todo \in Seq(Requests) /\ todo # << >> /\ capture[t].taken \subseteq Lockers
      /\ capture \in [Threads -> Captures \cup {None}]
  BY <1>1 DEF TypeOK, Captures
<1>5. /\ rest \in Seq(Requests)
      /\ \A k \in DOMAIN rest : /\ k \in Nat /\ k + 1 \in DOMAIN todo
                                /\ rest[k] = todo[k + 1] /\ 1 < k + 1
  BY <1>4
<1>5a. \A a, b \in DOMAIN todo :
         /\ guard[<<t, todo[a].slot>>] = None
         /\ todo[a].slot = todo[b].slot => a = b
  BY <1>1 DEF SlotsReserved
<1> HIDE DEF todo, q, rest, cell, g
<1>6. /\ \A u \in Threads \ {t} : capture'[u] = capture[u]
      /\ capture'[t] # None =>
           rest # << >> /\ capture'[t].todo = rest
           /\ capture'[t].taken = capture[t].taken \cup {q.slot}
      /\ capture' \in [Threads -> Captures \cup {None}]
  <2>1. [todo |-> rest, taken |-> capture[t].taken \cup {q.slot}] \in Captures
    BY <1>2, <1>4, <1>5 DEF Captures
  <2> QED BY <2>1, <1>3, <1>4
<1>7. guard' \in [Cells -> Guards \cup {None}] /\ guard'[cell] = g
      /\ \A c \in Cells \ {cell} : guard'[c] = guard[c]
  BY <1>1, <1>2 DEF TypeOK
<1>8. TypeOK'
  <2>1. lock' \in [Objects -> [writer : BOOLEAN, readers : Nat]]
    BY AcquireLocks
  <2>2. \A u \in Threads : capture'[u] # None => capture'[u].todo # << >>
    BY <1>1, <1>6 DEF TypeOK
  <2> QED BY <2>1, <2>2, <1>6, <1>7 DEF TypeOK
<1>9. ASSUME NEW u \in Threads, capture'[u] # None, NEW k \in DOMAIN capture'[u].todo
      PROVE  /\ guard'[<<u, capture'[u].todo[k].slot>>] = None
             /\ \A l \in DOMAIN capture'[u].todo :
                  capture'[u].todo[k].slot = capture'[u].todo[l].slot => k = l
  <2>1. CASE u = t
    <3>1. capture'[u].todo = rest
      BY <1>6, <1>9, <2>1
    <3>2. /\ guard[<<t, todo[k + 1].slot>>] = None
          /\ todo[k + 1].slot # q.slot
      <4>1. k + 1 \in DOMAIN todo /\ k + 1 # 1
        BY <1>5, <1>9, <3>1
      <4> QED BY <4>1, <1>2, <1>5a
    <3>3. todo[k + 1] \in Requests
      BY <1>4, <1>5, <1>9, <3>1
    <3>4. <<t, todo[k + 1].slot>> \in Cells \ {cell}
      BY <3>2, <3>3 DEF Cells, cell, Requests
    <3>5. guard'[<<u, capture'[u].todo[k].slot>>] = None
      BY <1>5, <1>7, <1>9, <2>1, <3>1, <3>2, <3>4
    <3>6. ASSUME NEW l \in DOMAIN rest, rest[k].slot = rest[l].slot PROVE k = l
      <4>1. k + 1 = l + 1
        <5>1. k + 1 \in DOMAIN todo /\ l + 1 \in DOMAIN todo
          BY <1>5, <1>9, <3>1, <3>6
        <5>2. todo[k + 1].slot = todo[l + 1].slot
          BY <1>5, <1>9, <3>1, <3>6
        <5> QED BY <5>1, <5>2, <1>5a
      <4> QED BY <4>1, <1>5, <1>9, <3>1
    <3> QED BY <3>1, <3>5, <3>6
  <2>2. CASE u # t
    <3>1. capture'[u] = capture[u]
      BY <1>6, <2>2
    <3>2. capture[u].todo \in Seq(Requests)
      BY <1>4, <1>9, <3>1 DEF Captures
    <3>3. capture[u].todo[k] \in Requests
      BY <1>9, <3>1, <3>2
    <3>4. <<u, capture[u].todo[k].slot>> \in Cells \ {cell}
      BY <3>3, <2>2 DEF Cells, cell, Requests
    <3>5. guard[<<u, capture[u].todo[k].slot>>] = None
      BY <1>1, <1>9, <3>1 DEF SlotsReserved
    <3>6. guard'[<<u, capture'[u].todo[k].slot>>] = None
      BY <1>7, <3>1, <3>4, <3>5
    <3> QED BY <1>1, <1>9, <3>1, <3>6 DEF SlotsReserved
  <2> QED BY <2>1, <2>2
<1>10. ASSUME NEW u \in Ordered, capture'[u] # None, NEW k \in DOMAIN capture'[u].todo
       PROVE  /\ \A l \in DOMAIN capture'[u].todo :
                   k < l => capture'[u].todo[k].obj < capture'[u].todo[l].obj
              /\ \A i \in Lockers : guard'[<<u, i>>] # None =>
                   guard'[<<u, i>>].obj < capture'[u].todo[k].obj
  <2>1. u \in Threads /\ \A i \in Lockers : <<u, i>> \in Cells
    BY SyncAssumption DEF Cells
  <2>2. CASE u = t
    <3>1. capture'[u].todo = rest
      BY <1>6, <1>10, <2>2
    <3>2. ASSUME NEW l \in DOMAIN rest, k < l PROVE rest[k].obj < rest[l].obj
      <4>1. k + 1 \in DOMAIN todo /\ l + 1 \in DOMAIN todo /\ k + 1 < l + 1
        BY <1>5, <1>10, <3>1, <3>2
      <4> QED BY <4>1, <1>1, <1>5, <1>10, <2>2, <3>1, <3>2 DEF Ascending, todo
    <3>3. ASSUME NEW i \in Lockers, guard'[<<u, i>>] # None
          PROVE  guard'[<<u, i>>].obj < rest[k].obj
      <4>1. CASE <<u, i>> = cell
        <5>1. q.obj < todo[k + 1].obj
          BY <1>1, <1>2, <1>5, <1>10, <2>2, <3>1 DEF Ascending, todo
        <5> QED BY <5>1, <4>1, <1>2, <1>5, <1>7, <1>10, <3>1
      <4>2. CASE <<u, i>> # cell
        <5>1. guard'[<<u, i>>] = guard[<<u, i>>]
          BY <4>2, <1>7, <2>1
        <5>2. k + 1 \in DOMAIN todo
          BY <1>5, <1>10, <3>1
        <5>3. guard[<<u, i>>].obj < todo[k + 1].obj
          BY <1>1, <1>10, <2>2, <3>3, <5>1, <5>2 DEF Ascending, todo
        <5> QED BY <5>1, <5>3, <1>5, <1>10, <3>1
      <4> QED BY <4>1, <4>2
    <3> QED BY <3>1, <3>2, <3>3
  <2>3. CASE u # t
    <3>1. capture'[u] = capture[u] /\ \A i \in Lockers : guard'[<<u, i>>] = guard[<<u, i>>]
      BY <1>6, <1>7, <2>1, <2>3 DEF cell
    <3> QED BY <3>1, <1>1, <1>10 DEF Ascending
  <2> QED BY <2>2, <2>3
<1>11. SlotsReserved' /\ Ascending'
  BY <1>9, <1>10 DEF SlotsReserved, Ascending
<1> QED
  BY <1>8, <1>11, AcquireLocks DEF IInv

LEMMA GiveUpKeeps ==
  ASSUME NEW t \in Threads, IInv, GiveUp(t)
  PROVE  IInv'
<1>1. TypeOK /\ capture[t] # None
  BY DEF IInv, GiveUp
<1>2. {t} \X capture[t].taken \in SUBSET Cells
  BY <1>1 DEF TypeOK, Captures, Cells
<1>3. Destroy(t, {t} \X capture[t].taken) /\ capture' = [capture EXCEPT ![t] = None]
  BY DEF GiveUp
<1>4. /\ capture' \in [Threads -> Captures \cup {None}]
      /\ \A u \in Threads : capture'[u] = capture[u] \/ capture'[u] = None
  BY <1>1, <1>3 DEF TypeOK
<1> QED
  BY <1>2, <1>3, <1>4, DestroyKeeps

-----------------------------------------------------------------------------
(* Guards.                                                                 *)

LEMMA ReleaseKeeps ==
  ASSUME NEW t \in Threads, IInv, Release(t)
  PROVE  IInv'
<1>1. PICK i \in Lockers : Destroy(t, {<<t, i>>})
  BY DEF Release, Holding
<1>2. {<<t, i>>} \in SUBSET Cells
  BY DEF Cells
<1>3. /\ capture' \in [Threads -> Captures \cup {None}]
      /\ \A u \in Threads : capture'[u] = capture[u] \/ capture'[u] = None
  BY DEF IInv, TypeOK, Release
<1> QED
  BY <1>1, <1>2, <1>3, DestroyKeeps

LEMMA MoveKeeps ==
  ASSUME NEW t \in Threads, IInv, Move(t)
  PROVE  IInv'
<1>1. TypeOK /\ LocksMatchGuards /\ MutualExclusion /\ SlotsReserved /\ Ascending
  BY DEF IInv
<1>2. PICK i \in Lockers, j \in Lockers :
        /\ guard[<<t, i>>] # None /\ guard[<<t, j>>] = None
        /\ guard' = [guard EXCEPT ![<<t, j>>] = guard[<<t, i>>], ![<<t, i>>] = None]
  BY DEF Move, Holding
<1>3. capture[t] = None /\ capture' = capture /\ lock' = lock
  BY DEF Move
<1> DEFINE ci == <<t, i>>
           cj == <<t, j>>
<1>4. ci \in Cells /\ cj \in Cells /\ ci # cj /\ ci[1] = t /\ cj[1] = t
  BY <1>2 DEF Cells
<1>5. guard' = [guard EXCEPT ![cj] = guard[ci], ![ci] = None]
      /\ guard[ci] # None /\ guard[cj] = None
  BY <1>2
<1> HIDE DEF ci, cj
<1>6. /\ guard'[cj] = guard[ci] /\ guard'[ci] = None
      /\ \A c \in Cells \ {ci, cj} : guard'[c] = guard[c]
      /\ guard' \in [Cells -> Guards \cup {None}]
  BY <1>1, <1>4, <1>5 DEF TypeOK
<1>7. TypeOK'
  BY <1>1, <1>3, <1>6 DEF TypeOK
<1>8. ASSUME NEW o \in Objects
      PROVE  /\ Readers(o)' = IF ci \in Readers(o) THEN (Readers(o) \ {ci}) \cup {cj}
                              ELSE Readers(o)
             /\ Writers(o)' = IF ci \in Writers(o) THEN (Writers(o) \ {ci}) \cup {cj}
                              ELSE Writers(o)
             /\ cj \notin Readers(o)
  BY <1>4, <1>5, <1>6 DEF Readers, Writers, Reads, Writes
<1>9. ASSUME NEW o \in Objects
      PROVE  /\ Writers(o)' # {} <=> Writers(o) # {}
             /\ Cardinality(Readers(o)') = Cardinality(Readers(o))
  <2>1. Writers(o)' # {} <=> Writers(o) # {}
    BY <1>8
  <2>2. CASE ci \in Readers(o)
    <3>1. IsFiniteSet(Readers(o)) /\ Cardinality(Readers(o)) \in Nat
      BY CellsFinite
    <3>2. /\ IsFiniteSet(Readers(o) \ {ci})
          /\ Cardinality(Readers(o) \ {ci}) = Cardinality(Readers(o)) - 1
      BY <3>1, <2>2, FS_RemoveElement
    <3>3. Cardinality((Readers(o) \ {ci}) \cup {cj}) = Cardinality(Readers(o) \ {ci}) + 1
      BY <3>2, <1>8, FS_AddElement
    <3>4. Readers(o)' = (Readers(o) \ {ci}) \cup {cj}
      BY <2>2, <1>8
    <3>5. cj \notin Readers(o) \ {ci}
      BY <1>8
    <3>6. Cardinality(Readers(o)') = (Cardinality(Readers(o)) - 1) + 1
      BY <3>2, <3>3, <3>4
    <3>7. \A n \in Nat : (n - 1) + 1 = n
      OBVIOUS
    <3> QED BY <3>1, <3>6, <3>7, <2>1
  <2>3. CASE ci \notin Readers(o)
    BY <2>1, <2>3, <1>8
  <2> QED BY <2>2, <2>3
<1>10. LocksMatchGuards'
  BY <1>1, <1>3, <1>9, Zenon DEF LocksMatchGuards
<1>11. MutualExclusion'
  <2> SUFFICES ASSUME NEW c \in Cells, NEW d \in Cells,
                      guard'[c] # None, guard'[d] # None, guard'[c].obj = guard'[d].obj
               PROVE  IF Kind[guard'[c].obj] = "single" THEN c[1] = Home[guard'[c].obj]
                      ELSE c = d \/ (Reads(guard'[c]) /\ Reads(guard'[d]))
    BY DEF MutualExclusion, Reads
  <2> DEFINE From(e) == IF e = cj THEN ci ELSE e
  <2>1. /\ c # ci /\ d # ci
        /\ guard'[c] = guard[From(c)] /\ guard'[d] = guard[From(d)]
        /\ From(c) \in Cells /\ From(d) \in Cells
        /\ From(c)[1] = c[1] /\ (From(c) = From(d) => c = d)
    BY <1>4, <1>6
  <2> HIDE DEF From
  <2> QED BY <2>1, <1>1 DEF MutualExclusion
<1>12. \A u \in Threads \ {t}, k \in Lockers :
         <<u, k>> \in Cells /\ guard'[<<u, k>>] = guard[<<u, k>>]
  BY <1>6 DEF Cells, ci, cj
<1>13. SlotsReserved'
  <2>1. ASSUME NEW u \in Threads, capture[u] # None, NEW k \in DOMAIN capture[u].todo
        PROVE  guard'[<<u, capture[u].todo[k].slot>>] = None
    <3>1. capture[u].todo \in Seq(Requests)
      BY <1>1, <2>1 DEF TypeOK, Captures
    <3>2. capture[u].todo[k] \in Requests
      BY <3>1, <2>1
    <3>3. capture[u].todo[k].slot \in Lockers /\ u # t
      BY <3>2, <2>1, <1>3 DEF Requests
    <3> QED BY <3>3, <2>1, <1>1, <1>12 DEF SlotsReserved
  <2> QED BY <2>1, <1>1, <1>3 DEF SlotsReserved
<1>14. Ascending'
  <2>1. Ordered \subseteq Threads
    BY SyncAssumption
  <2> QED BY <2>1, <1>1, <1>3, <1>12 DEF Ascending
<1> QED
  BY <1>7, <1>10, <1>11, <1>13, <1>14 DEF IInv

-----------------------------------------------------------------------------
(* The invariant holds.                                                    *)

LEMMA InitInvariant == Init => IInv
<1> SUFFICES ASSUME Init PROVE IInv
  OBVIOUS
<1>1. \A o \in Objects : lock[o] = [writer |-> FALSE, readers |-> 0]
  BY DEF Init
<1>2. \A c \in Cells : guard[c] = None
  BY DEF Init
<1>3. \A t \in Threads : capture[t] = None
  BY DEF Init
<1>4. TypeOK
  BY DEF Init, TypeOK
<1>5. \A o \in Objects : Readers(o) = {} /\ Writers(o) = {}
  BY <1>2 DEF Readers, Writers
<1>6. LocksMatchGuards
  <2>1. Cardinality({}) = 0
    BY FS_EmptySet
  <2> QED BY <1>1, <1>5, <2>1 DEF LocksMatchGuards
<1>7. MutualExclusion
  BY <1>2 DEF MutualExclusion
<1>8. SlotsReserved /\ Ascending
  BY <1>3, SyncAssumption DEF SlotsReserved, Ascending
<1> QED
  BY <1>4, <1>6, <1>7, <1>8 DEF IInv

LEMMA NextInvariant == IInv /\ [Next]_vars => IInv'
<1> SUFFICES ASSUME IInv, [Next]_vars PROVE IInv'
  OBVIOUS
<1>1. ASSUME NEW t \in Threads, Step(t) PROVE IInv'
  <2>1. CASE CaptureOne(t)
    BY <2>1, CaptureOneKeeps
  <2>2. CASE CaptureBoth(t)
    BY <2>2, CaptureBothKeeps
  <2>3. CASE Acquire(t)
    BY <2>3, AcquireKeeps
  <2>4. CASE GiveUp(t)
    BY <2>4, GiveUpKeeps
  <2>5. CASE Release(t)
    BY <2>5, ReleaseKeeps
  <2>6. CASE Move(t)
    BY <2>6, MoveKeeps
  <2> QED BY <1>1, <2>1, <2>2, <2>3, <2>4, <2>5, <2>6 DEF Step
<1>2. CASE UNCHANGED vars
  <2>1. lock' = lock /\ guard' = guard /\ capture' = capture
    BY <1>2 DEF vars
  <2>2. TypeOK'
    BY <2>1 DEF IInv, TypeOK
  <2>3. LocksMatchGuards'
    BY <2>1 DEF IInv, LocksMatchGuards, Readers, Writers, Reads, Writes
  <2>4. MutualExclusion'
    BY <2>1 DEF IInv, MutualExclusion, Reads
  <2>5. SlotsReserved' /\ Ascending'
    BY <2>1 DEF IInv, SlotsReserved, Ascending
  <2> QED BY <2>2, <2>3, <2>4, <2>5 DEF IInv
<1> QED
  BY <1>1, <1>2 DEF Next

THEOREM IInvHolds == Spec => []IInv
  BY InitInvariant, NextInvariant, PTL DEF Spec

-----------------------------------------------------------------------------
(* The theorems.                                                           *)

\* The locks and guards stay well typed; no reader count falls below zero.
THEOREM TypeCorrect == Spec => []TypeOK
  BY IInvHolds, PTL DEF IInv

\* A guard that gives write access is alone on its object, and a confined
\* object is held by its own thread only.
THEOREM GuardsExclude == Spec => []MutualExclusion
  BY IInvHolds, PTL DEF IInv

\* No mutex stays locked without a guard, nor is a guard without its mutex,
\* as long as no guard is move-assigned over another.
THEOREM LocksFollowGuards == Spec => []LocksMatchGuards
  BY IInvHolds, PTL DEF IInv

\* In a set of ordered threads that wait, nothing in the set blocks the one
\* that asks for the highest address: its owner would be asking for a higher
\* one still.
LEMMA AscentBreaksCircles == IInv => NoCircularWait
<1> SUFFICES ASSUME IInv, NEW S \in SUBSET Ordered, S # {}
             PROVE  \E t \in S : \A u \in S : ~WaitsFor(t, u)
  BY DEF NoCircularWait
<1>1. TypeOK /\ Ascending
  BY DEF IInv
<1>2. CASE \E t \in S : capture[t] = None
  BY <1>2 DEF WaitsFor
<1>3. CASE \A t \in S : capture[t] # None
  <2> DEFINE Want(t) == Head(capture[t].todo).obj
             Wanted == {Want(t) : t \in S}
  <2>1. ASSUME NEW t \in S
        PROVE  /\ Want(t) \in 0..MaxAddress
               /\ Want(t) = capture[t].todo[1].obj /\ 1 \in DOMAIN capture[t].todo
    <3>1. capture[t] # None /\ t \in Threads
      BY <1>3, SyncAssumption
    <3>2. capture[t].todo \in Seq(Requests) /\ capture[t].todo # << >>
      BY <3>1, <1>1 DEF TypeOK, Captures
    <3>3. /\ Head(capture[t].todo) \in Requests /\ 1 \in DOMAIN capture[t].todo
          /\ Head(capture[t].todo) = capture[t].todo[1]
      BY <3>2
    <3>4. Head(capture[t].todo).obj \in Objects
      BY <3>3 DEF Requests
    <3> QED BY <3>3, <3>4, SyncAssumption
  <2>2. Wanted \in SUBSET (0..MaxAddress) /\ Wanted # {}
    BY <2>1
  <2>3. PICK x \in Wanted : \A y \in Wanted : y <= x
    <3> HIDE DEF Wanted
    <3>1. MaxAddress \in Nat
      BY SyncAssumption
    <3> QED BY <2>2, <3>1, Greatest
  <2>4. PICK t \in S : Want(t) = x
    OBVIOUS
  <2>5. ASSUME NEW u \in S, WaitsFor(t, u) PROVE FALSE
    <3>1. PICK i \in Lockers : guard[<<u, i>>] # None /\ guard[<<u, i>>].obj = Want(t)
      BY <2>5 DEF WaitsFor
    <3>2. guard[<<u, i>>].obj < capture[u].todo[1].obj
      BY <1>1, <1>3, <2>1, <3>1 DEF Ascending
    <3>3. Want(u) <= Want(t)
      BY <2>3, <2>4
    <3>4. Want(t) < Want(u)
      BY <2>1, <3>1, <3>2
    <3>5. Want(t) \in Int /\ Want(u) \in Int
      BY <2>1
    <3> HIDE DEF Want
    <3> QED BY <3>3, <3>4, <3>5
  <2> QED BY <2>5
<1> QED
  BY <1>2, <1>3

\* Threads that lock pairs by lock_all alone never deadlock one another.
THEOREM LockAllNeverDeadlocks == Spec => []NoCircularWait
  BY IInvHolds, AscentBreaksCircles, PTL

=============================================================================
