---------------------------- MODULE ThreadProofs -----------------------------
(* Proofs about the places where a process serves many requests with a     *)
(* thread each, for any number of threads: the connections of the server   *)
(* (Connections), the slots of a worker (Subprocess), and an instance that *)
(* is either of them (MCThreads).                                          *)
EXTENDS MCThreads, FiniteSetTheorems, TLAPS

-----------------------------------------------------------------------------
(* Connections of the server: the inductive invariant of their slots.      *)

Records == [at : Places, pool : Pools, cur : Nat, prev : Nat,
            next : {"reading", "starting", "handling", "writing", "closing"}]

Bumping == {"counting", "loading", "comparing", "swapping"}

\* The pool a thread is busy with follows from where it is.
PoolFits(e) ==
  /\ e.at \in {"new", "starting", "stranded", "reading", "writing", "closing"} => e.pool = "all"
  /\ e.at \in {"handling", "releasing"} => e.pool \in Classes
  /\ e.at \in Bumping => e.next = IF e.pool = "all" THEN "starting" ELSE "handling"
  /\ e.at = "releasing" => e.next \in {"writing", "closing"}
  /\ e.at = "lowering" /\ e.pool \in Classes => e.next \in {"writing", "closing"}

Placed == \A c \in Conns : PoolFits(conn[c])

Balanced ==
  \A p \in Pools : /\ free[p] + Cardinality(UsersOf(p)) = ConnLimit[p]
                   /\ used[p] = Cardinality(Counting(p))

SlotInv == ConnTypeOK /\ Placed /\ Balanced

HoldsIn(e, p) ==
  /\ e.at # "new"
  /\ IF p = "all" THEN ~(e.at = "lowering" /\ e.pool = "all")
     ELSE e.pool = p /\ e.at # "lowering"

CountsIn(e, p) ==
  /\ e.at # "new"
  /\ p = "all" \/ e.pool = p
  /\ ~(e.at = "counting" /\ e.pool = p)

-----------------------------------------------------------------------------
(* Sets of connections.                                                    *)

LEMMA SetMoves ==
  ASSUME NEW S \in SUBSET Conns, NEW T \in SUBSET Conns, NEW c \in Conns,
         \A d \in Conns \ {c} : d \in S <=> d \in T
  PROVE  /\ Cardinality(S) \in Nat
         /\ Cardinality(T) \in Nat
         /\ (c \in S <=> c \in T) => Cardinality(T) = Cardinality(S)
         /\ c \notin S /\ c \in T => Cardinality(T) = Cardinality(S) + 1
         /\ c \in S /\ c \notin T => Cardinality(S) = Cardinality(T) + 1
<1>1. IsFiniteSet(S) /\ IsFiniteSet(T)
  BY FS_Subset, ConnAssumption
<1>2. Cardinality(S) \in Nat /\ Cardinality(T) \in Nat
  BY <1>1, FS_CardinalityType
<1>3. (c \in S <=> c \in T) => S = T
  OBVIOUS
<1>4. c \notin S /\ c \in T => T = S \cup {c}
  OBVIOUS
<1>5. c \in S /\ c \notin T => S = T \cup {c}
  OBVIOUS
<1>6. c \notin S => Cardinality(S \cup {c}) = Cardinality(S) + 1
  BY <1>1, FS_AddElement
<1>7. c \notin T => Cardinality(T \cup {c}) = Cardinality(T) + 1
  BY <1>1, FS_AddElement
<1> QED BY <1>2, <1>3, <1>4, <1>5, <1>6, <1>7

\* When one thread moves, the counts of a pool change by what this thread
\* holds and counts before and after.
LEMMA OneMoves ==
  ASSUME ConnTypeOK, NEW c \in Conns, NEW r \in Records,
         conn' = [conn EXCEPT ![c] = r], NEW p \in Pools
  PROVE  /\ Cardinality(UsersOf(p)) \in Nat /\ Cardinality(UsersOf(p)') \in Nat
         /\ Cardinality(Counting(p)) \in Nat /\ Cardinality(Counting(p)') \in Nat
         /\ (HoldsIn(conn[c], p) <=> HoldsIn(r, p))
              => Cardinality(UsersOf(p)') = Cardinality(UsersOf(p))
         /\ ~HoldsIn(conn[c], p) /\ HoldsIn(r, p)
              => Cardinality(UsersOf(p)') = Cardinality(UsersOf(p)) + 1
         /\ HoldsIn(conn[c], p) /\ ~HoldsIn(r, p)
              => Cardinality(UsersOf(p)) = Cardinality(UsersOf(p)') + 1
         /\ (CountsIn(conn[c], p) <=> CountsIn(r, p))
              => Cardinality(Counting(p)') = Cardinality(Counting(p))
         /\ ~CountsIn(conn[c], p) /\ CountsIn(r, p)
              => Cardinality(Counting(p)') = Cardinality(Counting(p)) + 1
         /\ CountsIn(conn[c], p) /\ ~CountsIn(r, p)
              => Cardinality(Counting(p)) = Cardinality(Counting(p)') + 1
<1>1. conn'[c] = r /\ \A d \in Conns \ {c} : conn'[d] = conn[d]
  BY DEF ConnTypeOK
<1>2. \A d \in Conns : /\ d \in UsersOf(p) <=> HoldsIn(conn[d], p)
                       /\ d \in UsersOf(p)' <=> HoldsIn(conn'[d], p)
  BY DEF UsersOf, HoldsIn
<1>3. \A d \in Conns : /\ d \in Counting(p) <=> CountsIn(conn[d], p)
                       /\ d \in Counting(p)' <=> CountsIn(conn'[d], p)
  BY DEF Counting, CountsIn
<1>4. /\ UsersOf(p) \in SUBSET Conns /\ UsersOf(p)' \in SUBSET Conns
      /\ Counting(p) \in SUBSET Conns /\ Counting(p)' \in SUBSET Conns
  BY DEF UsersOf, Counting
<1>5. /\ \A d \in Conns \ {c} : d \in UsersOf(p) <=> d \in UsersOf(p)'
      /\ \A d \in Conns \ {c} : d \in Counting(p) <=> d \in Counting(p)'
  BY <1>1, <1>2, <1>3
<1>6. /\ c \in UsersOf(p) <=> HoldsIn(conn[c], p)
      /\ c \in UsersOf(p)' <=> HoldsIn(r, p)
      /\ c \in Counting(p) <=> CountsIn(conn[c], p)
      /\ c \in Counting(p)' <=> CountsIn(r, p)
  BY <1>1, <1>2, <1>3
<1>7. /\ Cardinality(UsersOf(p)) \in Nat /\ Cardinality(UsersOf(p)') \in Nat
      /\ (c \in UsersOf(p) <=> c \in UsersOf(p)')
           => Cardinality(UsersOf(p)') = Cardinality(UsersOf(p))
      /\ c \notin UsersOf(p) /\ c \in UsersOf(p)'
           => Cardinality(UsersOf(p)') = Cardinality(UsersOf(p)) + 1
      /\ c \in UsersOf(p) /\ c \notin UsersOf(p)'
           => Cardinality(UsersOf(p)) = Cardinality(UsersOf(p)') + 1
  BY <1>4, <1>5, SetMoves
<1>8. /\ Cardinality(Counting(p)) \in Nat /\ Cardinality(Counting(p)') \in Nat
      /\ (c \in Counting(p) <=> c \in Counting(p)')
           => Cardinality(Counting(p)') = Cardinality(Counting(p))
      /\ c \notin Counting(p) /\ c \in Counting(p)'
           => Cardinality(Counting(p)') = Cardinality(Counting(p)) + 1
      /\ c \in Counting(p) /\ c \notin Counting(p)'
           => Cardinality(Counting(p)) = Cardinality(Counting(p)') + 1
  BY <1>4, <1>5, SetMoves
<1> QED BY <1>6, <1>7, <1>8

\* A step of one thread keeps the balance if it changes a semaphore against
\* what the thread holds and a counter along with what it counts.
LEMMA StepBalances ==
  ASSUME SlotInv, NEW c \in Conns, NEW r \in Records, PoolFits(r),
         conn' = [conn EXCEPT ![c] = r],
         free' \in [Pools -> Nat], used' \in [Pools -> Int],
         peak' \in [Pools -> Nat], top' \in [Pools -> Nat], accepting' \in BOOLEAN,
         \A p \in Pools :
           /\ free'[p] = IF HoldsIn(conn[c], p) = HoldsIn(r, p) THEN free[p]
                         ELSE IF HoldsIn(r, p) THEN free[p] - 1 ELSE free[p] + 1
           /\ used'[p] = IF CountsIn(conn[c], p) = CountsIn(r, p) THEN used[p]
                         ELSE IF CountsIn(r, p) THEN used[p] + 1 ELSE used[p] - 1
  PROVE  SlotInv'
<1> USE DEF SlotInv
<1>1. ASSUME NEW p \in Pools
      PROVE  /\ free'[p] + Cardinality(UsersOf(p)') = ConnLimit[p]
             /\ used'[p] = Cardinality(Counting(p)')
             /\ used'[p] \in Nat
  <2>1. /\ free[p] \in Nat /\ used[p] \in Nat
        /\ free'[p] \in Nat /\ used'[p] \in Int /\ ConnLimit[p] \in Nat
    BY ConnAssumption DEF ConnTypeOK
  <2>2. /\ free[p] + Cardinality(UsersOf(p)) = ConnLimit[p]
        /\ used[p] = Cardinality(Counting(p))
    BY DEF Balanced
  <2>3. /\ free'[p] = IF HoldsIn(conn[c], p) = HoldsIn(r, p) THEN free[p]
                      ELSE IF HoldsIn(r, p) THEN free[p] - 1 ELSE free[p] + 1
        /\ used'[p] = IF CountsIn(conn[c], p) = CountsIn(r, p) THEN used[p]
                      ELSE IF CountsIn(r, p) THEN used[p] + 1 ELSE used[p] - 1
    OBVIOUS
  <2>4. /\ HoldsIn(conn[c], p) \in BOOLEAN /\ HoldsIn(r, p) \in BOOLEAN
        /\ CountsIn(conn[c], p) \in BOOLEAN /\ CountsIn(r, p) \in BOOLEAN
    BY DEF HoldsIn, CountsIn
  <2> DEFINE h == Cardinality(UsersOf(p))
             hn == Cardinality(UsersOf(p)')
             u == Cardinality(Counting(p))
             un == Cardinality(Counting(p)')
  <2>5. /\ h \in Nat /\ hn \in Nat
        /\ (HoldsIn(conn[c], p) <=> HoldsIn(r, p)) => hn = h
        /\ ~HoldsIn(conn[c], p) /\ HoldsIn(r, p) => hn = h + 1
        /\ HoldsIn(conn[c], p) /\ ~HoldsIn(r, p) => h = hn + 1
    BY OneMoves
  <2>6. /\ u \in Nat /\ un \in Nat
        /\ (CountsIn(conn[c], p) <=> CountsIn(r, p)) => un = u
        /\ ~CountsIn(conn[c], p) /\ CountsIn(r, p) => un = u + 1
        /\ CountsIn(conn[c], p) /\ ~CountsIn(r, p) => u = un + 1
    BY OneMoves
  <2>7. free[p] + h = ConnLimit[p] /\ used[p] = u
    BY <2>2
  <2> HIDE DEF h, hn, u, un
  <2>8. free'[p] + hn = ConnLimit[p]
    BY <2>1, <2>3, <2>4, <2>5, <2>7
  <2>9. used'[p] = un
    BY <2>1, <2>3, <2>4, <2>6, <2>7
  <2> QED BY <2>6, <2>8, <2>9 DEF hn, un
<1>2. Balanced'
  BY <1>1 DEF Balanced
<1>3. used' \in [Pools -> Nat]
  BY <1>1
<1>4. conn' \in [Conns -> Records]
  BY DEF ConnTypeOK, Records
<1>5. ConnTypeOK'
  BY <1>3, <1>4 DEF ConnTypeOK, Records
<1>6. Placed'
  BY DEF Placed, ConnTypeOK
<1> QED BY <1>2, <1>5, <1>6

\* The values a thread passes on its way are those its step gives it.
LEMMA LargerOf ==
  ASSUME NEW a \in Nat, NEW b \in Nat
  PROVE  Max({a, b}) = IF a < b THEN b ELSE a
BY DEF Max

LEMMA AcceptBalances ==
  ASSUME SlotInv, NEW c \in Conns, Accept(c)
  PROVE  SlotInv'
<1> DEFINE e == conn[c]
           r == [Nowhere EXCEPT !.at = "counting", !.next = "starting"]
<1>1. /\ e \in Records /\ PoolFits(e)
      /\ peak[e.pool] \in Nat /\ used[e.pool] \in Nat
  BY DEF SlotInv, ConnTypeOK, Records, Placed
<1>2. r \in Records
  BY <1>1 DEF Accept, Records, Places, Nowhere, Pools, Classes, PoolFits, Bumping
<1>3. PoolFits(r)
  BY <1>1, <1>2 DEF Accept, Records, Places, Nowhere, Pools, Classes, PoolFits, Bumping
<1>4. conn' = [conn EXCEPT ![c] = r]
  BY <1>1 DEF Accept, Goes, SlotInv, ConnTypeOK, Records
<1>5. /\ free' \in [Pools -> Nat] /\ used' \in [Pools -> Int]
      /\ peak' \in [Pools -> Nat] /\ top' \in [Pools -> Nat] /\ accepting' \in BOOLEAN
  BY <1>1 DEF Accept, SlotInv, ConnTypeOK, Records, Pools, Classes
<1>6. ASSUME NEW p \in Pools
      PROVE  /\ free'[p] = IF HoldsIn(e, p) = HoldsIn(r, p) THEN free[p]
                           ELSE IF HoldsIn(r, p) THEN free[p] - 1 ELSE free[p] + 1
             /\ used'[p] = IF CountsIn(e, p) = CountsIn(r, p) THEN used[p]
                           ELSE IF CountsIn(r, p) THEN used[p] + 1 ELSE used[p] - 1
  BY <1>1, <1>2 DEF Accept, SlotInv, ConnTypeOK, Records, Places, PoolFits, Bumping, Pools, Classes,
                    HoldsIn, CountsIn, Nowhere
<1> HIDE DEF r
<1> QED BY <1>2, <1>3, <1>4, <1>5, <1>6, StepBalances

LEMMA CountBalances ==
  ASSUME SlotInv, NEW c \in Conns, Count(c)
  PROVE  SlotInv'
<1> DEFINE e == conn[c]
           r == [e EXCEPT !.at = "loading"]
<1>1. /\ e \in Records /\ PoolFits(e)
      /\ peak[e.pool] \in Nat /\ used[e.pool] \in Nat
  BY DEF SlotInv, ConnTypeOK, Records, Placed
<1>2. r \in Records
  BY <1>1 DEF Count, Records, Places, Nowhere, Pools, Classes, PoolFits, Bumping
<1>3. PoolFits(r)
  BY <1>1, <1>2 DEF Count, Records, Places, Nowhere, Pools, Classes, PoolFits, Bumping
<1>4. conn' = [conn EXCEPT ![c] = r]
  BY <1>1 DEF Count, Goes, SlotInv, ConnTypeOK, Records
<1>5. /\ free' \in [Pools -> Nat] /\ used' \in [Pools -> Int]
      /\ peak' \in [Pools -> Nat] /\ top' \in [Pools -> Nat] /\ accepting' \in BOOLEAN
  BY <1>1 DEF Count, SlotInv, ConnTypeOK, Records, Pools, Classes
<1>6. ASSUME NEW p \in Pools
      PROVE  /\ free'[p] = IF HoldsIn(e, p) = HoldsIn(r, p) THEN free[p]
                           ELSE IF HoldsIn(r, p) THEN free[p] - 1 ELSE free[p] + 1
             /\ used'[p] = IF CountsIn(e, p) = CountsIn(r, p) THEN used[p]
                           ELSE IF CountsIn(r, p) THEN used[p] + 1 ELSE used[p] - 1
  BY <1>1, <1>2 DEF Count, SlotInv, ConnTypeOK, Records, Places, PoolFits, Bumping, Pools, Classes,
                    HoldsIn, CountsIn, Nowhere
<1> HIDE DEF r
<1> QED BY <1>2, <1>3, <1>4, <1>5, <1>6, StepBalances

LEMMA LoadUsedBalances ==
  ASSUME SlotInv, NEW c \in Conns, LoadUsed(c)
  PROVE  SlotInv'
<1> DEFINE e == conn[c]
           r == [e EXCEPT !.at = "comparing", !.cur = used[e.pool]]
<1>1. /\ e \in Records /\ PoolFits(e)
      /\ peak[e.pool] \in Nat /\ used[e.pool] \in Nat
  BY DEF SlotInv, ConnTypeOK, Records, Placed
<1>2. r \in Records
  BY <1>1 DEF LoadUsed, Records, Places, Nowhere, Pools, Classes, PoolFits, Bumping
<1>3. PoolFits(r)
  BY <1>1, <1>2 DEF LoadUsed, Records, Places, Nowhere, Pools, Classes, PoolFits, Bumping
<1>4. conn' = [conn EXCEPT ![c] = r]
  BY <1>1 DEF LoadUsed, Goes, SlotInv, ConnTypeOK, Records
<1>7. used[e.pool] \in Nat /\ top[e.pool] \in Nat
  BY <1>1 DEF SlotInv, ConnTypeOK, Records
<1>8. Max({top[e.pool], used[e.pool]}) \in Nat
  BY <1>7, LargerOf
<1>5. /\ free' \in [Pools -> Nat] /\ used' \in [Pools -> Int]
      /\ peak' \in [Pools -> Nat] /\ top' \in [Pools -> Nat] /\ accepting' \in BOOLEAN
  BY <1>1, <1>8 DEF LoadUsed, SlotInv, ConnTypeOK, Records, Pools, Classes
<1>6. ASSUME NEW p \in Pools
      PROVE  /\ free'[p] = IF HoldsIn(e, p) = HoldsIn(r, p) THEN free[p]
                           ELSE IF HoldsIn(r, p) THEN free[p] - 1 ELSE free[p] + 1
             /\ used'[p] = IF CountsIn(e, p) = CountsIn(r, p) THEN used[p]
                           ELSE IF CountsIn(r, p) THEN used[p] + 1 ELSE used[p] - 1
  BY <1>1, <1>2 DEF LoadUsed, SlotInv, ConnTypeOK, Records, Places, PoolFits, Bumping, Pools, Classes,
                    HoldsIn, CountsIn, Nowhere
<1> HIDE DEF r
<1> QED BY <1>2, <1>3, <1>4, <1>5, <1>6, StepBalances

LEMMA LoadPeakBalances ==
  ASSUME SlotInv, NEW c \in Conns, LoadPeak(c)
  PROVE  SlotInv'
<1> DEFINE e == conn[c]
           r == [e EXCEPT !.at = "swapping", !.prev = peak[e.pool]]
<1>1. /\ e \in Records /\ PoolFits(e)
      /\ peak[e.pool] \in Nat /\ used[e.pool] \in Nat
  BY DEF SlotInv, ConnTypeOK, Records, Placed
<1>2. r \in Records
  BY <1>1 DEF LoadPeak, Records, Places, Nowhere, Pools, Classes, PoolFits, Bumping
<1>3. PoolFits(r)
  BY <1>1, <1>2 DEF LoadPeak, Records, Places, Nowhere, Pools, Classes, PoolFits, Bumping
<1>4. conn' = [conn EXCEPT ![c] = r]
  BY <1>1 DEF LoadPeak, Goes, SlotInv, ConnTypeOK, Records
<1>5. /\ free' \in [Pools -> Nat] /\ used' \in [Pools -> Int]
      /\ peak' \in [Pools -> Nat] /\ top' \in [Pools -> Nat] /\ accepting' \in BOOLEAN
  BY <1>1 DEF LoadPeak, SlotInv, ConnTypeOK, Records, Pools, Classes
<1>6. ASSUME NEW p \in Pools
      PROVE  /\ free'[p] = IF HoldsIn(e, p) = HoldsIn(r, p) THEN free[p]
                           ELSE IF HoldsIn(r, p) THEN free[p] - 1 ELSE free[p] + 1
             /\ used'[p] = IF CountsIn(e, p) = CountsIn(r, p) THEN used[p]
                           ELSE IF CountsIn(r, p) THEN used[p] + 1 ELSE used[p] - 1
  BY <1>1, <1>2 DEF LoadPeak, SlotInv, ConnTypeOK, Records, Places, PoolFits, Bumping, Pools, Classes,
                    HoldsIn, CountsIn, Nowhere
<1> HIDE DEF r
<1> QED BY <1>2, <1>3, <1>4, <1>5, <1>6, StepBalances

LEMMA StartBalances ==
  ASSUME SlotInv, NEW c \in Conns, Start(c)
  PROVE  SlotInv'
<1> DEFINE e == conn[c]
           r == [e EXCEPT !.at = "reading"]
<1>1. /\ e \in Records /\ PoolFits(e)
      /\ peak[e.pool] \in Nat /\ used[e.pool] \in Nat
  BY DEF SlotInv, ConnTypeOK, Records, Placed
<1>2. r \in Records
  BY <1>1 DEF Start, Records, Places, Nowhere, Pools, Classes, PoolFits, Bumping
<1>3. PoolFits(r)
  BY <1>1, <1>2 DEF Start, Records, Places, Nowhere, Pools, Classes, PoolFits, Bumping
<1>4. conn' = [conn EXCEPT ![c] = r]
  BY <1>1 DEF Start, Goes, SlotInv, ConnTypeOK, Records
<1>5. /\ free' \in [Pools -> Nat] /\ used' \in [Pools -> Int]
      /\ peak' \in [Pools -> Nat] /\ top' \in [Pools -> Nat] /\ accepting' \in BOOLEAN
  BY <1>1 DEF Start, SlotInv, ConnTypeOK, Records, Pools, Classes
<1>6. ASSUME NEW p \in Pools
      PROVE  /\ free'[p] = IF HoldsIn(e, p) = HoldsIn(r, p) THEN free[p]
                           ELSE IF HoldsIn(r, p) THEN free[p] - 1 ELSE free[p] + 1
             /\ used'[p] = IF CountsIn(e, p) = CountsIn(r, p) THEN used[p]
                           ELSE IF CountsIn(r, p) THEN used[p] + 1 ELSE used[p] - 1
  BY <1>1, <1>2 DEF Start, SlotInv, ConnTypeOK, Records, Places, PoolFits, Bumping, Pools, Classes,
                    HoldsIn, CountsIn, Nowhere
<1> HIDE DEF r
<1> QED BY <1>2, <1>3, <1>4, <1>5, <1>6, StepBalances

LEMMA StartFailsBalances ==
  ASSUME SlotInv, NEW c \in Conns, StartFails(c)
  PROVE  SlotInv'
<1> DEFINE e == conn[c]
           r == [e EXCEPT !.at = "stranded"]
<1>1. /\ e \in Records /\ PoolFits(e)
      /\ peak[e.pool] \in Nat /\ used[e.pool] \in Nat
  BY DEF SlotInv, ConnTypeOK, Records, Placed
<1>2. r \in Records
  BY <1>1 DEF StartFails, Records, Places, Nowhere, Pools, Classes, PoolFits, Bumping
<1>3. PoolFits(r)
  BY <1>1, <1>2 DEF StartFails, Records, Places, Nowhere, Pools, Classes, PoolFits, Bumping
<1>4. conn' = [conn EXCEPT ![c] = r]
  BY <1>1 DEF StartFails, Goes, SlotInv, ConnTypeOK, Records
<1>7. accepting' \in BOOLEAN
  BY Zenon DEF StartFails
<1>5. /\ free' \in [Pools -> Nat] /\ used' \in [Pools -> Int]
      /\ peak' \in [Pools -> Nat] /\ top' \in [Pools -> Nat] /\ accepting' \in BOOLEAN
  BY <1>1, <1>7 DEF StartFails, SlotInv, ConnTypeOK, Records, Pools, Classes
<1>6. ASSUME NEW p \in Pools
      PROVE  /\ free'[p] = IF HoldsIn(e, p) = HoldsIn(r, p) THEN free[p]
                           ELSE IF HoldsIn(r, p) THEN free[p] - 1 ELSE free[p] + 1
             /\ used'[p] = IF CountsIn(e, p) = CountsIn(r, p) THEN used[p]
                           ELSE IF CountsIn(r, p) THEN used[p] + 1 ELSE used[p] - 1
  BY <1>1, <1>2 DEF StartFails, SlotInv, ConnTypeOK, Records, Places, PoolFits, Bumping, Pools, Classes,
                    HoldsIn, CountsIn, Nowhere
<1> HIDE DEF r
<1> QED BY <1>2, <1>3, <1>4, <1>5, <1>6, StepBalances

LEMMA DismissBalances ==
  ASSUME SlotInv, NEW c \in Conns, Dismiss(c)
  PROVE  SlotInv'
<1> DEFINE e == conn[c]
           r == [e EXCEPT !.at = "writing"]
<1>1. /\ e \in Records /\ PoolFits(e)
      /\ peak[e.pool] \in Nat /\ used[e.pool] \in Nat
  BY DEF SlotInv, ConnTypeOK, Records, Placed
<1>2. r \in Records
  BY <1>1 DEF Dismiss, Records, Places, Nowhere, Pools, Classes, PoolFits, Bumping
<1>3. PoolFits(r)
  BY <1>1, <1>2 DEF Dismiss, Records, Places, Nowhere, Pools, Classes, PoolFits, Bumping
<1>4. conn' = [conn EXCEPT ![c] = r]
  BY <1>1 DEF Dismiss, Goes, SlotInv, ConnTypeOK, Records
<1>5. /\ free' \in [Pools -> Nat] /\ used' \in [Pools -> Int]
      /\ peak' \in [Pools -> Nat] /\ top' \in [Pools -> Nat] /\ accepting' \in BOOLEAN
  BY <1>1 DEF Dismiss, SlotInv, ConnTypeOK, Records, Pools, Classes
<1>6. ASSUME NEW p \in Pools
      PROVE  /\ free'[p] = IF HoldsIn(e, p) = HoldsIn(r, p) THEN free[p]
                           ELSE IF HoldsIn(r, p) THEN free[p] - 1 ELSE free[p] + 1
             /\ used'[p] = IF CountsIn(e, p) = CountsIn(r, p) THEN used[p]
                           ELSE IF CountsIn(r, p) THEN used[p] + 1 ELSE used[p] - 1
  BY <1>1, <1>2 DEF Dismiss, SlotInv, ConnTypeOK, Records, Places, PoolFits, Bumping, Pools, Classes,
                    HoldsIn, CountsIn, Nowhere
<1> HIDE DEF r
<1> QED BY <1>2, <1>3, <1>4, <1>5, <1>6, StepBalances

LEMMA WriteBalances ==
  ASSUME SlotInv, NEW c \in Conns, Write(c)
  PROVE  SlotInv'
<1> DEFINE e == conn[c]
           r == [e EXCEPT !.at = "closing"]
<1>1. /\ e \in Records /\ PoolFits(e)
      /\ peak[e.pool] \in Nat /\ used[e.pool] \in Nat
  BY DEF SlotInv, ConnTypeOK, Records, Placed
<1>2. r \in Records
  BY <1>1 DEF Write, Records, Places, Nowhere, Pools, Classes, PoolFits, Bumping
<1>3. PoolFits(r)
  BY <1>1, <1>2 DEF Write, Records, Places, Nowhere, Pools, Classes, PoolFits, Bumping
<1>4. conn' = [conn EXCEPT ![c] = r]
  BY <1>1 DEF Write, Goes, SlotInv, ConnTypeOK, Records
<1>5. /\ free' \in [Pools -> Nat] /\ used' \in [Pools -> Int]
      /\ peak' \in [Pools -> Nat] /\ top' \in [Pools -> Nat] /\ accepting' \in BOOLEAN
  BY <1>1 DEF Write, SlotInv, ConnTypeOK, Records, Pools, Classes
<1>6. ASSUME NEW p \in Pools
      PROVE  /\ free'[p] = IF HoldsIn(e, p) = HoldsIn(r, p) THEN free[p]
                           ELSE IF HoldsIn(r, p) THEN free[p] - 1 ELSE free[p] + 1
             /\ used'[p] = IF CountsIn(e, p) = CountsIn(r, p) THEN used[p]
                           ELSE IF CountsIn(r, p) THEN used[p] + 1 ELSE used[p] - 1
  BY <1>1, <1>2 DEF Write, SlotInv, ConnTypeOK, Records, Places, PoolFits, Bumping, Pools, Classes,
                    HoldsIn, CountsIn, Nowhere
<1> HIDE DEF r
<1> QED BY <1>2, <1>3, <1>4, <1>5, <1>6, StepBalances

LEMMA ReleaseBalances ==
  ASSUME SlotInv, NEW c \in Conns, GiveBack(c)
  PROVE  SlotInv'
<1> DEFINE e == conn[c]
           r == [e EXCEPT !.at = "lowering", !.pool = IF e.at = "closing" THEN "all" ELSE e.pool]
<1>1. /\ e \in Records /\ PoolFits(e)
      /\ peak[e.pool] \in Nat /\ used[e.pool] \in Nat
  BY DEF SlotInv, ConnTypeOK, Records, Placed
<1>2. r \in Records
  BY <1>1 DEF GiveBack, Records, Places, Nowhere, Pools, Classes, PoolFits, Bumping
<1>3. PoolFits(r)
  BY <1>1, <1>2 DEF GiveBack, Records, Places, Nowhere, Pools, Classes, PoolFits, Bumping
<1>4. conn' = [conn EXCEPT ![c] = r]
  BY <1>1 DEF GiveBack, Goes, SlotInv, ConnTypeOK, Records
<1>5. /\ free' \in [Pools -> Nat] /\ used' \in [Pools -> Int]
      /\ peak' \in [Pools -> Nat] /\ top' \in [Pools -> Nat] /\ accepting' \in BOOLEAN
  BY <1>1 DEF GiveBack, SlotInv, ConnTypeOK, Records, Pools, Classes
<1>6. ASSUME NEW p \in Pools
      PROVE  /\ free'[p] = IF HoldsIn(e, p) = HoldsIn(r, p) THEN free[p]
                           ELSE IF HoldsIn(r, p) THEN free[p] - 1 ELSE free[p] + 1
             /\ used'[p] = IF CountsIn(e, p) = CountsIn(r, p) THEN used[p]
                           ELSE IF CountsIn(r, p) THEN used[p] + 1 ELSE used[p] - 1
  BY <1>1, <1>2 DEF GiveBack, SlotInv, ConnTypeOK, Records, Places, PoolFits, Bumping, Pools, Classes,
                    HoldsIn, CountsIn, Nowhere
<1> HIDE DEF r
<1> QED BY <1>2, <1>3, <1>4, <1>5, <1>6, StepBalances

LEMMA LowerBalances ==
  ASSUME SlotInv, NEW c \in Conns, Lower(c)
  PROVE  SlotInv'
<1> DEFINE e == conn[c]
           r == IF e.pool = "all" THEN Nowhere ELSE [Nowhere EXCEPT !.at = e.next]
<1>1. /\ e \in Records /\ PoolFits(e)
      /\ peak[e.pool] \in Nat /\ used[e.pool] \in Nat
  BY DEF SlotInv, ConnTypeOK, Records, Placed
<1>2. r \in Records
  BY <1>1 DEF Lower, Records, Places, Nowhere, Pools, Classes, PoolFits, Bumping
<1>3. PoolFits(r)
  BY <1>1, <1>2 DEF Lower, Records, Places, Nowhere, Pools, Classes, PoolFits, Bumping
<1>4. conn' = [conn EXCEPT ![c] = r]
  BY <1>1 DEF Lower, Goes, SlotInv, ConnTypeOK, Records
<1>5. /\ free' \in [Pools -> Nat] /\ used' \in [Pools -> Int]
      /\ peak' \in [Pools -> Nat] /\ top' \in [Pools -> Nat] /\ accepting' \in BOOLEAN
  BY <1>1 DEF Lower, SlotInv, ConnTypeOK, Records, Pools, Classes
<1>6. ASSUME NEW p \in Pools
      PROVE  /\ free'[p] = IF HoldsIn(e, p) = HoldsIn(r, p) THEN free[p]
                           ELSE IF HoldsIn(r, p) THEN free[p] - 1 ELSE free[p] + 1
             /\ used'[p] = IF CountsIn(e, p) = CountsIn(r, p) THEN used[p]
                           ELSE IF CountsIn(r, p) THEN used[p] + 1 ELSE used[p] - 1
  BY <1>1, <1>2 DEF Lower, SlotInv, ConnTypeOK, Records, Places, PoolFits, Bumping, Pools, Classes,
                    HoldsIn, CountsIn, Nowhere
<1> HIDE DEF r
<1> QED BY <1>2, <1>3, <1>4, <1>5, <1>6, StepBalances

LEMMA SwapBalances ==
  ASSUME SlotInv, NEW c \in Conns, Swap(c)
  PROVE  SlotInv'
<1> DEFINE e == conn[c]
           r == IF e.cur > e.prev /\ peak[e.pool] # e.prev
                THEN [e EXCEPT !.prev = peak[e.pool]] ELSE Bumped(c)
<1>1. /\ e \in Records /\ PoolFits(e)
      /\ peak[e.pool] \in Nat /\ used[e.pool] \in Nat
  BY DEF SlotInv, ConnTypeOK, Records, Placed
<1>2. r \in Records
  BY <1>1 DEF Swap, Records, Places, Nowhere, Pools, Classes, PoolFits, Bumping, Bumped
<1>3. PoolFits(r)
  BY <1>1, <1>2 DEF Swap, Records, Places, Nowhere, Pools, Classes, PoolFits, Bumping, Bumped
<1>4. conn' = [conn EXCEPT ![c] = r]
  BY <1>1 DEF Swap, Goes, SlotInv, ConnTypeOK, Records, Bumped
<1>5. /\ free' \in [Pools -> Nat] /\ used' \in [Pools -> Int]
      /\ peak' \in [Pools -> Nat] /\ top' \in [Pools -> Nat] /\ accepting' \in BOOLEAN
  BY <1>1 DEF Swap, SlotInv, ConnTypeOK, Records, Pools, Classes, Bumped
<1>6. ASSUME NEW p \in Pools
      PROVE  /\ free'[p] = IF HoldsIn(e, p) = HoldsIn(r, p) THEN free[p]
                           ELSE IF HoldsIn(r, p) THEN free[p] - 1 ELSE free[p] + 1
             /\ used'[p] = IF CountsIn(e, p) = CountsIn(r, p) THEN used[p]
                           ELSE IF CountsIn(r, p) THEN used[p] + 1 ELSE used[p] - 1
  BY <1>1, <1>2 DEF Swap, SlotInv, ConnTypeOK, Records, Places, PoolFits, Bumping, Pools, Classes,
                    HoldsIn, CountsIn, Nowhere, Bumped
<1> HIDE DEF r
<1> QED BY <1>2, <1>3, <1>4, <1>5, <1>6, StepBalances

LEMMA EnterClassBalances ==
  ASSUME SlotInv, NEW c \in Conns, NEW class \in Classes, EnterClass(c, class)
  PROVE  SlotInv'
<1> DEFINE e == conn[c]
           r == [Nowhere EXCEPT !.at = "counting", !.pool = class, !.next = "handling"]
<1>1. /\ e \in Records /\ PoolFits(e)
      /\ peak[e.pool] \in Nat /\ used[e.pool] \in Nat
  BY DEF SlotInv, ConnTypeOK, Records, Placed
<1>2. r \in Records
  BY <1>1 DEF EnterClass, Records, Places, Nowhere, Pools, Classes, PoolFits, Bumping
<1>3. PoolFits(r)
  BY <1>1, <1>2 DEF EnterClass, Records, Places, Nowhere, Pools, Classes, PoolFits, Bumping
<1>4. conn' = [conn EXCEPT ![c] = r]
  BY <1>1 DEF EnterClass, Goes, SlotInv, ConnTypeOK, Records
<1>5. /\ free' \in [Pools -> Nat] /\ used' \in [Pools -> Int]
      /\ peak' \in [Pools -> Nat] /\ top' \in [Pools -> Nat] /\ accepting' \in BOOLEAN
  BY <1>1 DEF EnterClass, SlotInv, ConnTypeOK, Records, Pools, Classes
<1>6. ASSUME NEW p \in Pools
      PROVE  /\ free'[p] = IF HoldsIn(e, p) = HoldsIn(r, p) THEN free[p]
                           ELSE IF HoldsIn(r, p) THEN free[p] - 1 ELSE free[p] + 1
             /\ used'[p] = IF CountsIn(e, p) = CountsIn(r, p) THEN used[p]
                           ELSE IF CountsIn(r, p) THEN used[p] + 1 ELSE used[p] - 1
  BY <1>1, <1>2 DEF EnterClass, SlotInv, ConnTypeOK, Records, Places, PoolFits, Bumping, Pools, Classes,
                    HoldsIn, CountsIn, Nowhere
<1> HIDE DEF r
<1> QED BY <1>2, <1>3, <1>4, <1>5, <1>6, StepBalances

LEMMA HandledBalances ==
  ASSUME SlotInv, NEW c \in Conns, NEW outcome \in {"writing", "closing"}, Handled(c, outcome)
  PROVE  SlotInv'
<1> DEFINE e == conn[c]
           r == [e EXCEPT !.at = "releasing", !.next = outcome]
<1>1. /\ e \in Records /\ PoolFits(e)
      /\ peak[e.pool] \in Nat /\ used[e.pool] \in Nat
  BY DEF SlotInv, ConnTypeOK, Records, Placed
<1>2. r \in Records
  BY <1>1 DEF Handled, Records, Places, Nowhere, Pools, Classes, PoolFits, Bumping
<1>3. PoolFits(r)
  BY <1>1, <1>2 DEF Handled, Records, Places, Nowhere, Pools, Classes, PoolFits, Bumping
<1>4. conn' = [conn EXCEPT ![c] = r]
  BY <1>1 DEF Handled, Goes, SlotInv, ConnTypeOK, Records
<1>5. /\ free' \in [Pools -> Nat] /\ used' \in [Pools -> Int]
      /\ peak' \in [Pools -> Nat] /\ top' \in [Pools -> Nat] /\ accepting' \in BOOLEAN
  BY <1>1 DEF Handled, SlotInv, ConnTypeOK, Records, Pools, Classes
<1>6. ASSUME NEW p \in Pools
      PROVE  /\ free'[p] = IF HoldsIn(e, p) = HoldsIn(r, p) THEN free[p]
                           ELSE IF HoldsIn(r, p) THEN free[p] - 1 ELSE free[p] + 1
             /\ used'[p] = IF CountsIn(e, p) = CountsIn(r, p) THEN used[p]
                           ELSE IF CountsIn(r, p) THEN used[p] + 1 ELSE used[p] - 1
  BY <1>1, <1>2 DEF Handled, SlotInv, ConnTypeOK, Records, Places, PoolFits, Bumping, Pools, Classes,
                    HoldsIn, CountsIn, Nowhere
<1> HIDE DEF r
<1> QED BY <1>2, <1>3, <1>4, <1>5, <1>6, StepBalances

LEMMA SlotsStay == SlotInv /\ [ConnNext]_connVars => SlotInv'
<1> SUFFICES ASSUME SlotInv, [ConnNext]_connVars PROVE SlotInv'
  OBVIOUS
<1>1. CASE StopAccepting
  BY <1>1 DEF StopAccepting, SlotInv, ConnTypeOK, Placed, Balanced, UsersOf, Counting
<1>2. CASE UNCHANGED connVars
  BY <1>2 DEF connVars, SlotInv, ConnTypeOK, Placed, Balanced, UsersOf, Counting
<1>3. CASE \E c \in Conns : Accept(c) \/ StartFails(c) \/ Write(c)
  BY <1>3, AcceptBalances, StartFailsBalances, WriteBalances
<1>4. CASE \E c \in Conns : ConnStep(c)
  BY <1>4, CountBalances, LoadUsedBalances, LoadPeakBalances, SwapBalances, StartBalances,
     EnterClassBalances, DismissBalances, HandledBalances, ReleaseBalances, LowerBalances
     DEF ConnStep
<1> QED BY <1>1, <1>2, <1>3, <1>4 DEF ConnNext

-----------------------------------------------------------------------------
(* Slots are exact.                                                        *)

LEMMA SlotInvStarts == ConnInit => SlotInv
<1> SUFFICES ASSUME ConnInit PROVE SlotInv
  OBVIOUS
<1> USE DEF ConnInit, Nowhere, Pools, Classes
<1>1. \A p \in Pools : UsersOf(p) = {} /\ Counting(p) = {}
  BY DEF UsersOf, Counting
<1>2. \A p \in Pools : ConnLimit[p] \in Nat
  BY ConnAssumption
<1>3. Balanced
  <2> SUFFICES ASSUME NEW p \in Pools
      PROVE  /\ free[p] + Cardinality(UsersOf(p)) = ConnLimit[p]
             /\ used[p] = Cardinality(Counting(p))
    BY DEF Balanced
  <2>1. Cardinality(UsersOf(p)) = 0 /\ Cardinality(Counting(p)) = 0
    BY <1>1, FS_EmptySet
  <2>2. free[p] = ConnLimit[p] /\ used[p] = 0
    OBVIOUS
  <2> QED BY <1>2, <2>1, <2>2
<1>4. ConnTypeOK
  BY ConnAssumption DEF ConnTypeOK, Places
<1>5. Placed
  BY DEF Placed, PoolFits, Bumping
<1> QED BY <1>3, <1>4, <1>5 DEF SlotInv

LEMMA SlotInvExact == SlotInv => ConnSlotsExact
<1> SUFFICES ASSUME SlotInv, NEW p \in Pools
             PROVE  /\ free[p] + Cardinality(UsersOf(p)) = ConnLimit[p]
                    /\ used[p] = Cardinality(Counting(p))
                    /\ used[p] <= ConnLimit[p] + Cardinality(Lowering(p))
  BY DEF ConnSlotsExact
<1>1. free[p] + Cardinality(UsersOf(p)) = ConnLimit[p] /\ used[p] = Cardinality(Counting(p))
  BY DEF SlotInv, Balanced
<1>2. /\ Counting(p) \subseteq UsersOf(p) \cup Lowering(p)
      /\ UsersOf(p) \subseteq Conns /\ Lowering(p) \subseteq Conns
  BY DEF Counting, UsersOf, Lowering, Pools, Classes
<1>3. IsFiniteSet(UsersOf(p)) /\ IsFiniteSet(Lowering(p))
  BY <1>2, FS_Subset, ConnAssumption
<1>4. /\ IsFiniteSet(UsersOf(p) \cup Lowering(p))
      /\ Cardinality(UsersOf(p) \cup Lowering(p)) =
           Cardinality(UsersOf(p)) + Cardinality(Lowering(p))
             - Cardinality(UsersOf(p) \cap Lowering(p))
  BY <1>3, FS_Union
<1>5. Cardinality(Counting(p)) <= Cardinality(UsersOf(p) \cup Lowering(p))
  BY <1>2, <1>4, FS_Subset
<1>6. IsFiniteSet(UsersOf(p) \cap Lowering(p)) /\ IsFiniteSet(Counting(p))
  BY <1>2, <1>3, <1>4, FS_Subset
<1>7. /\ Cardinality(UsersOf(p)) \in Nat /\ Cardinality(Lowering(p)) \in Nat
      /\ Cardinality(UsersOf(p) \cap Lowering(p)) \in Nat
      /\ Cardinality(Counting(p)) \in Nat
      /\ Cardinality(UsersOf(p) \cup Lowering(p)) \in Nat
  BY <1>3, <1>4, <1>6, FS_CardinalityType
<1>8. free[p] \in Nat /\ ConnLimit[p] \in Nat
  BY ConnAssumption DEF SlotInv, ConnTypeOK
<1> QED BY <1>1, <1>4, <1>5, <1>7, <1>8

\* The threads of the server keep their places and counters well typed: no
\* counter of connections falls below zero (server.cpp:1315-1347).
THEOREM ConnTypes == ConnSpec => []ConnTypeOK
<1>1. SlotInv => ConnTypeOK
  BY DEF SlotInv
<1> QED BY <1>1, SlotInvStarts, SlotsStay, PTL DEF ConnSpec

\* For any number of connections and any limits, slots are neither lost nor
\* duplicated, and a counter exceeds its limit at most by the connections
\* that are on their way out (server.cpp:1325-1349).
THEOREM SlotsNeverDrift == ConnSpec => []ConnSlotsExact
BY SlotInvStarts, SlotsStay, SlotInvExact, PTL DEF ConnSpec

-----------------------------------------------------------------------------
(* Peaks are never lost.                                                   *)

\* What a thread in bumpPeak has read is not above what was seen, and what it
\* compares with is not above the peak.
ReadsArePast ==
  \A c \in Conns :
    /\ conn[c].at \in {"comparing", "swapping"} => conn[c].cur <= top[conn[c].pool]
    /\ conn[c].at = "swapping" => conn[c].prev <= peak[conn[c].pool]

PeakInv == ConnTypeOK /\ ReadsArePast /\ PeakNeverLost

Bumps(c) == conn[c].at \in {"comparing", "swapping"}

\* Steps outside bumpPeak.
LEMMA PeakUntouched ==
  ASSUME PeakInv, ConnTypeOK', UNCHANGED <<peak, top>>,
         \A c \in Conns : \/ conn'[c] = conn[c]
                          \/ ~Bumps(c) /\ conn'[c].at \notin {"comparing", "swapping"}
  PROVE  PeakInv'
<1>1. ReadsArePast'
  BY DEF PeakInv, ReadsArePast, Bumps
<1>2. PeakNeverLost'
  <2> SUFFICES ASSUME NEW p \in Pools
      PROVE  /\ peak[p] <= top[p]
             /\ peak[p] = top[p] \/ \E c \in Conns : /\ conn'[c].pool = p
                                                     /\ conn'[c].at \in {"comparing", "swapping"}
                                                     /\ conn'[c].cur = top[p]
    BY DEF PeakNeverLost
  <2>1. /\ peak[p] <= top[p]
        /\ peak[p] = top[p] \/ \E c \in Conns : /\ conn[c].pool = p
                                                /\ conn[c].at \in {"comparing", "swapping"}
                                                /\ conn[c].cur = top[p]
    BY DEF PeakInv, PeakNeverLost
  <2> QED BY <2>1 DEF Bumps
<1> QED BY <1>1, <1>2 DEF PeakInv

LEMMA PeakLoadUsed ==
  ASSUME PeakInv, ConnTypeOK', NEW c \in Conns, LoadUsed(c)
  PROVE  PeakInv'
<1> DEFINE p == conn[c].pool
<1> USE DEF PeakInv
<1>1. /\ p \in Pools /\ used[p] \in Nat
      /\ \A q \in Pools : top[q] \in Nat /\ peak[q] \in Nat
      /\ \A d \in Conns : conn[d].cur \in Nat /\ conn[d].pool \in Pools
  BY DEF ConnTypeOK
<1>2. /\ peak' = peak
      /\ conn'[c] = [conn[c] EXCEPT !.at = "comparing", !.cur = used[p]]
      /\ \A d \in Conns \ {c} : conn'[d] = conn[d]
      /\ \A q \in Pools \ {p} : top'[q] = top[q]
      /\ top'[p] = IF top[p] < used[p] THEN used[p] ELSE top[p]
  BY <1>1, LargerOf DEF LoadUsed, ConnTypeOK
<1>3. conn[c].at = "loading"
  BY DEF LoadUsed
<1>4. /\ conn'[c].at = "comparing" /\ conn'[c].cur = used[p] /\ conn'[c].pool = p
  BY <1>2 DEF ConnTypeOK
<1> HIDE DEF p
<1>5. \A q \in Pools : top[q] <= top'[q]
  BY <1>1, <1>2
<1>6. ReadsArePast'
  <2> SUFFICES ASSUME NEW d \in Conns
      PROVE  /\ conn'[d].at \in {"comparing", "swapping"} => conn'[d].cur <= top'[conn'[d].pool]
             /\ conn'[d].at = "swapping" => conn'[d].prev <= peak'[conn'[d].pool]
    BY DEF ReadsArePast
  <2>1. CASE d = c
    BY <2>1, <1>1, <1>2, <1>4
  <2>2. CASE d # c
    <3>1. top[conn[d].pool] <= top'[conn[d].pool]
      BY <1>1, <1>5
    <3>2. top[conn[d].pool] \in Nat /\ top'[conn[d].pool] \in Nat /\ conn[d].cur \in Nat
      BY <1>1, <1>2
    <3> QED BY <2>2, <3>1, <3>2, <1>2 DEF ReadsArePast
  <2> QED BY <2>1, <2>2
<1>7. PeakNeverLost'
  <2> SUFFICES ASSUME NEW q \in Pools
      PROVE  /\ peak'[q] <= top'[q]
             /\ peak'[q] = top'[q] \/ \E d \in Conns : /\ conn'[d].pool = q
                                                       /\ conn'[d].at \in {"comparing", "swapping"}
                                                       /\ conn'[d].cur = top'[q]
    BY DEF PeakNeverLost
  <2>1. /\ peak[q] <= top[q]
        /\ peak[q] = top[q] \/ \E d \in Conns : /\ conn[d].pool = q
                                                /\ conn[d].at \in {"comparing", "swapping"}
                                                /\ conn[d].cur = top[q]
    BY DEF PeakNeverLost
  <2>2. peak'[q] <= top'[q]
    BY <2>1, <1>1, <1>2
  <2>3. CASE q = p /\ top[p] < used[p]
    BY <2>2, <2>3, <1>2, <1>4
  <2>4. CASE ~(q = p /\ top[p] < used[p])
    <3>1. top'[q] = top[q] /\ peak'[q] = peak[q]
      BY <2>4, <1>2
    <3> QED BY <2>1, <2>2, <3>1, <1>2, <1>3
  <2> QED BY <2>3, <2>4
<1> QED BY <1>6, <1>7

LEMMA PeakLoadPeak ==
  ASSUME PeakInv, ConnTypeOK', NEW c \in Conns, LoadPeak(c)
  PROVE  PeakInv'
<1> USE DEF PeakInv
<1>1. /\ peak' = peak /\ top' = top
      /\ conn[c].at = "comparing"
      /\ conn'[c] = [conn[c] EXCEPT !.at = "swapping", !.prev = peak[conn[c].pool]]
      /\ \A d \in Conns \ {c} : conn'[d] = conn[d]
  BY DEF LoadPeak, ConnTypeOK
<1>2. /\ conn'[c].at = "swapping" /\ conn'[c].prev = peak[conn[c].pool]
      /\ conn'[c].cur = conn[c].cur /\ conn'[c].pool = conn[c].pool
      /\ peak[conn[c].pool] \in Nat
  BY <1>1 DEF ConnTypeOK
<1>3. ReadsArePast'
  <2> SUFFICES ASSUME NEW d \in Conns
      PROVE  /\ conn'[d].at \in {"comparing", "swapping"} => conn'[d].cur <= top'[conn'[d].pool]
             /\ conn'[d].at = "swapping" => conn'[d].prev <= peak'[conn'[d].pool]
    BY DEF ReadsArePast
  <2>1. CASE d = c
    BY <2>1, <1>1, <1>2 DEF ReadsArePast
  <2>2. CASE d # c
    BY <2>2, <1>1 DEF ReadsArePast
  <2> QED BY <2>1, <2>2
<1>4. PeakNeverLost'
  <2> SUFFICES ASSUME NEW q \in Pools
      PROVE  /\ peak[q] <= top[q]
             /\ peak[q] = top[q] \/ \E d \in Conns : /\ conn'[d].pool = q
                                                     /\ conn'[d].at \in {"comparing", "swapping"}
                                                     /\ conn'[d].cur = top[q]
    BY <1>1 DEF PeakNeverLost
  <2>1. /\ peak[q] <= top[q]
        /\ peak[q] = top[q] \/ \E d \in Conns : /\ conn[d].pool = q
                                                /\ conn[d].at \in {"comparing", "swapping"}
                                                /\ conn[d].cur = top[q]
    BY DEF PeakNeverLost
  <2>2. CASE peak[q] = top[q]
    BY <2>1, <2>2
  <2>3. CASE peak[q] # top[q]
    <3>1. PICK d \in Conns : /\ conn[d].pool = q
                            /\ conn[d].at \in {"comparing", "swapping"}
                            /\ conn[d].cur = top[q]
      BY <2>1, <2>3
    <3>2. CASE d = c
      <4>1. conn'[d].pool = q /\ conn'[d].at = "swapping" /\ conn'[d].cur = top[q]
        BY <1>2, <3>1, <3>2
      <4> QED BY <2>1, <4>1
    <3>3. CASE d # c
      <4>1. conn'[d] = conn[d]
        BY <1>1, <3>3
      <4> QED BY <2>1, <3>1, <4>1
    <3> QED BY <3>2, <3>3
  <2> QED BY <2>2, <2>3
<1> QED BY <1>3, <1>4

LEMMA PeakSwap ==
  ASSUME PeakInv, ConnTypeOK', NEW c \in Conns, Swap(c)
  PROVE  PeakInv'
<1> DEFINE p == conn[c].pool
<1> USE DEF PeakInv
<1>1. /\ p \in Pools
      /\ \A q \in Pools : top[q] \in Nat /\ peak[q] \in Nat
      /\ conn[c].cur \in Nat /\ conn[c].prev \in Nat
      /\ top' = top
      /\ conn[c].at = "swapping"
      /\ \A d \in Conns \ {c} : conn'[d] = conn[d]
      /\ \A d \in Conns : conn[d].pool \in Pools /\ conn[d].prev \in Nat
  BY DEF Swap, ConnTypeOK
<1>2. conn[c].cur <= top[p] /\ conn[c].prev <= peak[p] /\ peak[p] <= top[p]
  BY <1>1 DEF ReadsArePast, PeakNeverLost
<1>3. \/ /\ conn[c].cur <= conn[c].prev
         /\ peak' = peak
         /\ conn'[c].at \in {"starting", "handling", "reading", "writing", "closing"}
      \/ /\ conn[c].cur > conn[c].prev /\ peak[p] = conn[c].prev
         /\ peak' = [peak EXCEPT ![p] = conn[c].cur]
         /\ conn'[c].at \in {"starting", "handling", "reading", "writing", "closing"}
      \/ /\ peak' = peak
         /\ conn'[c] = [conn[c] EXCEPT !.prev = peak[p]]
  BY DEF Swap, Bumped, Nowhere, ConnTypeOK
<1> HIDE DEF p
<1>4. /\ \A q \in Pools \ {p} : peak'[q] = peak[q]
      /\ \/ peak[p] <= peak'[p] /\ peak'[p] <= top[p] /\ conn[c].cur <= peak'[p]
         \/ peak' = peak /\ conn'[c] = [conn[c] EXCEPT !.prev = peak[p]]
      /\ peak[p] <= peak'[p]
      /\ peak'[p] \in Nat
  <2>1. peak[p] \in Nat /\ top[p] \in Nat
    BY <1>1
  <2>2. peak \in [Pools -> Nat]
    BY DEF ConnTypeOK
  <2>3. CASE conn[c].cur <= conn[c].prev /\ peak' = peak
    BY <2>1, <2>3, <1>1, <1>2
  <2>4. CASE conn[c].cur > conn[c].prev /\ peak[p] = conn[c].prev
               /\ peak' = [peak EXCEPT ![p] = conn[c].cur]
    <3>1. peak'[p] = conn[c].cur /\ \A q \in Pools \ {p} : peak'[q] = peak[q]
      BY <2>2, <2>4, <1>1
    <3> QED BY <2>1, <2>4, <3>1, <1>1, <1>2
  <2>5. CASE peak' = peak /\ conn'[c] = [conn[c] EXCEPT !.prev = peak[p]]
    BY <2>1, <2>5
  <2> QED BY <2>3, <2>4, <2>5, <1>3
<1>5. \A q \in Pools : peak[q] <= peak'[q]
  BY <1>1, <1>4
<1>6. ReadsArePast'
  <2> SUFFICES ASSUME NEW d \in Conns
      PROVE  /\ conn'[d].at \in {"comparing", "swapping"} => conn'[d].cur <= top[conn'[d].pool]
             /\ conn'[d].at = "swapping" => conn'[d].prev <= peak'[conn'[d].pool]
    BY <1>1 DEF ReadsArePast
  <2>1. CASE d = c
    <3>1. CASE conn'[c].at \in {"starting", "handling", "reading", "writing", "closing"}
      BY <2>1, <3>1
    <3>2. CASE peak' = peak /\ conn'[c] = [conn[c] EXCEPT !.prev = peak[p]]
      <4>1. /\ conn'[c].cur = conn[c].cur /\ conn'[c].pool = p /\ conn'[c].prev = peak[p]
        BY <3>2 DEF ConnTypeOK, p
      <4> QED BY <2>1, <3>2, <4>1, <1>1, <1>2
    <3> QED BY <3>1, <3>2, <1>3
  <2>2. CASE d # c
    <3>1. peak[conn[d].pool] <= peak'[conn[d].pool] /\ peak'[conn[d].pool] \in Nat
      BY <1>1, <1>4, <1>5
    <3>2. conn'[d] = conn[d] /\ conn[d].prev \in Nat /\ peak[conn[d].pool] \in Nat
      BY <2>2, <1>1
    <3> QED BY <3>1, <3>2 DEF ReadsArePast
  <2> QED BY <2>1, <2>2
<1>7. PeakNeverLost'
  <2> SUFFICES ASSUME NEW q \in Pools
      PROVE  /\ peak'[q] <= top[q]
             /\ peak'[q] = top[q] \/ \E d \in Conns : /\ conn'[d].pool = q
                                                      /\ conn'[d].at \in {"comparing", "swapping"}
                                                      /\ conn'[d].cur = top[q]
    BY <1>1 DEF PeakNeverLost
  <2>1. /\ peak[q] <= top[q]
        /\ peak[q] = top[q] \/ \E d \in Conns : /\ conn[d].pool = q
                                                /\ conn[d].at \in {"comparing", "swapping"}
                                                /\ conn[d].cur = top[q]
    BY DEF PeakNeverLost
  <2>2. CASE peak' = peak /\ conn'[c] = [conn[c] EXCEPT !.prev = peak[p]]
    <3>1. conn'[c].cur = conn[c].cur /\ conn'[c].pool = conn[c].pool /\ conn'[c].at = conn[c].at
      BY <2>2 DEF ConnTypeOK
    <3> QED BY ZenonT(60), <2>1, <2>2, <3>1, <1>1
  <2>3. CASE peak[p] <= peak'[p] /\ peak'[p] <= top[p] /\ conn[c].cur <= peak'[p]
    <3>1. CASE q = p
      <4>1. peak'[p] = top[p] \/ (peak'[p] < top[p] /\ peak[p] < top[p] /\ conn[c].cur < top[p])
        BY <2>3, <1>1, <1>4
      <4> QED BY <2>1, <2>3, <3>1, <4>1, <1>1
    <3>2. CASE q # p
      <4>1. peak'[q] = peak[q]
        BY <3>2, <1>4
      <4> QED BY <2>1, <3>2, <4>1, <1>1 DEF p
    <3> QED BY <3>1, <3>2
  <2> QED BY <2>2, <2>3, <1>4
<1> QED BY <1>6, <1>7

LEMMA PeakStays == SlotInv /\ PeakInv /\ [ConnNext]_connVars => PeakInv'
<1> SUFFICES ASSUME SlotInv, PeakInv, [ConnNext]_connVars PROVE PeakInv'
  OBVIOUS
<1>1. ConnTypeOK'
  BY SlotsStay DEF SlotInv
<1>2. CASE StopAccepting \/ UNCHANGED connVars
  BY <1>1, <1>2, PeakUntouched DEF StopAccepting, connVars
<1>3. ASSUME NEW c \in Conns,
             \/ Accept(c) \/ StartFails(c) \/ Write(c) \/ Count(c) \/ Start(c)
             \/ \E class \in Classes : EnterClass(c, class)
             \/ Dismiss(c) \/ (\E outcome \in {"writing", "closing"} : Handled(c, outcome))
             \/ GiveBack(c) \/ Lower(c)
      PROVE  PeakInv'
  <2>1. /\ peak' = peak /\ top' = top
        /\ \A d \in Conns \ {c} : conn'[d] = conn[d]
    BY <1>3 DEF Accept, StartFails, Write, Count, Start, EnterClass, Dismiss, Handled, GiveBack,
                Lower, Goes, PeakInv, ConnTypeOK
  <2>2. CASE Accept(c)
    <3>1. ~Bumps(c) /\ conn'[c].at = "counting"
      BY <2>2 DEF Accept, PeakInv, ConnTypeOK, Nowhere, Bumps
    <3> QED BY <1>1, <2>1, <3>1, PeakUntouched
  <2>6. ASSUME NEW class \in Classes, EnterClass(c, class) PROVE PeakInv'
    <3>1. ~Bumps(c) /\ conn'[c].at = "counting"
      BY <2>6 DEF EnterClass, PeakInv, ConnTypeOK, Nowhere, Bumps
    <3> QED BY <1>1, <2>1, <3>1, PeakUntouched
  <2>3. CASE StartFails(c) \/ Write(c) \/ Start(c) \/ Dismiss(c) \/ Count(c)
    <3>1. ~Bumps(c) /\ conn'[c].at \in {"stranded", "closing", "reading", "writing", "loading"}
      BY <2>3 DEF StartFails, Write, Start, Dismiss, Count, Goes, PeakInv, ConnTypeOK, Bumps
    <3> QED BY <1>1, <2>1, <3>1, PeakUntouched
  <2>4. CASE (\E outcome \in {"writing", "closing"} : Handled(c, outcome)) \/ GiveBack(c)
    <3>1. ~Bumps(c) /\ conn'[c].at \in {"releasing", "lowering"}
      BY <2>4 DEF Handled, GiveBack, PeakInv, ConnTypeOK, Bumps
    <3> QED BY <1>1, <2>1, <3>1, PeakUntouched
  <2>5. CASE Lower(c)
    <3>1. conn[c].pool = "all" \/ conn[c].next \in {"writing", "closing"}
      BY <2>5 DEF Lower, SlotInv, ConnTypeOK, Placed, PoolFits, Pools
    <3>2. ~Bumps(c) /\ conn'[c].at \in {"new", "writing", "closing"}
      BY <2>5, <3>1 DEF Lower, PeakInv, ConnTypeOK, Nowhere, Bumps
    <3> QED BY <1>1, <2>1, <3>2, PeakUntouched
  <2> QED BY <1>3, <2>2, <2>3, <2>4, <2>5, <2>6
<1>4. ASSUME NEW c \in Conns, LoadUsed(c) \/ LoadPeak(c) \/ Swap(c) PROVE PeakInv'
  BY <1>1, <1>4, PeakLoadUsed, PeakLoadPeak, PeakSwap
<1> QED BY <1>2, <1>3, <1>4 DEF ConnNext, ConnStep

LEMMA PeakStarts == ConnInit => PeakInv
<1> SUFFICES ASSUME ConnInit PROVE PeakInv
  OBVIOUS
<1>1. ConnTypeOK
  BY SlotInvStarts DEF SlotInv
<1>2. PeakNeverLost /\ ReadsArePast
  BY DEF ConnInit, Nowhere, PeakNeverLost, ReadsArePast, Pools, Classes
<1> QED BY <1>1, <1>2 DEF PeakInv

\* However the loads and exchanges of bumpPeak interleave, the greatest value
\* any thread saw is recorded or its thread is still at it
\* (server.cpp:212-217).
THEOREM PeaksSurvive == ConnSpec => []PeakNeverLost
<1>1. PeakInv => PeakNeverLost
  BY DEF PeakInv
<1> QED BY <1>1, SlotInvStarts, SlotsStay, PeakStarts, PeakStays, PTL DEF ConnSpec

-----------------------------------------------------------------------------
(* Slots of a worker: the inductive invariant of their children and pipes. *)

\* The ends of its own pipes that a slot still has open, by where it is.
OpenAt(where) ==
  CASE where \in {"forking", "parting"} -> Ends
    [] where = "feeding" -> {"inWrite", "outRead"}
    [] where = "draining" -> {"outRead"}
    [] OTHER -> {}

EndsTidy == \A s \in Slots : \A e \in Ends \ OpenAt(slot[s].at) : <<s, e>> \notin held

\* A slot has a child from the fork until it has reaped it, and what has
\* exited keeps no file open.
ChildrenTidy ==
  \A s \in Slots :
    /\ up /\ slot[s].at \in {"idle", "piping", "forking"} => child[s].is = "none"
    /\ child[s].is # "running" => child[s].fds = {}

LeftInv == ProcTypeOK /\ EndsTidy /\ ChildrenTidy

Ats == {"idle", "piping", "forking", "parting", "feeding", "draining", "waiting", "reaping"}
SlotRecords == [at : Ats, big : BOOLEAN]
ChildRecords == [is : {"none", "running", "exited"}, conduct : Conduct,
                 fds : SUBSET (Slots \X Ends)]

-----------------------------------------------------------------------------
(* One step of one slot or of its child.                                   *)

\* A step disturbs only the slot it belongs to.
LEMMA StepTidies ==
  ASSUME LeftInv, NEW s \in Slots, up' = up,
         NEW a \in SlotRecords, NEW k \in ChildRecords,
         slot' = [slot EXCEPT ![s] = a], child' = [child EXCEPT ![s] = k],
         held' \subseteq Slots \X Ends,
         \A t \in Slots \ {s}, e \in Ends : <<t, e>> \in held' => <<t, e>> \in held,
         \A e \in Ends \ OpenAt(a.at) : <<s, e>> \notin held',
         up /\ a.at \in {"idle", "piping", "forking"} => k.is = "none",
         k.is # "running" => k.fds = {},
         result' \in [Slots -> {"none", "answer", "error", "timeout"}],
         lost' \in 0 .. MaxLost
  PROVE  LeftInv'
<1> USE DEF LeftInv
<1>1. /\ slot'[s] = a /\ child'[s] = k
      /\ \A t \in Slots \ {s} : slot'[t] = slot[t] /\ child'[t] = child[t]
  BY DEF ProcTypeOK
<1>2. ProcTypeOK'
  BY DEF ProcTypeOK, SlotRecords, ChildRecords, Ats
<1>3. EndsTidy'
  <2> SUFFICES ASSUME NEW t \in Slots, NEW e \in Ends \ OpenAt(slot'[t].at)
               PROVE  <<t, e>> \notin held'
    BY DEF EndsTidy
  <2>1. CASE t = s
    BY <1>1, <2>1
  <2>2. CASE t # s
    BY <1>1, <2>2 DEF EndsTidy
  <2> QED BY <2>1, <2>2
<1>4. ChildrenTidy'
  BY <1>1 DEF ChildrenTidy
<1> QED BY <1>2, <1>3, <1>4

LEMMA OtherEnds ==
  ASSUME NEW s, NEW t, s # t, NEW S \in SUBSET Ends, NEW e \in Ends
  PROVE  /\ <<t, e>> \notin {s} \X S
         /\ <<s, e>> \in {s} \X S <=> e \in S
OBVIOUS

LEMMA ExitsMeans ==
  ASSUME child \in [Slots -> ChildRecords], NEW s \in Slots, Exits(s)
  PROVE  child' = [child EXCEPT ![s] = [child[s] EXCEPT !.is = "exited", !.fds = {}]]
<1> DEFINE mid == [child EXCEPT ![s].is = "exited"]
           k == [child[s] EXCEPT !.is = "exited", !.fds = {}]
<1>1. child' = [mid EXCEPT ![s].fds = {}]
  BY DEF Exits
<1>2. mid \in [Slots -> ChildRecords] /\ mid[s] = [child[s] EXCEPT !.is = "exited"]
  BY DEF ChildRecords
<1>3. [mid[s] EXCEPT !.fds = {}] = k
  BY <1>2 DEF ChildRecords
<1>4. child' = [mid EXCEPT ![s] = k]
  BY <1>1, <1>2, <1>3
<1> QED BY <1>2, <1>4 DEF ChildRecords

LEMMA TakeJobTidies ==
  ASSUME LeftInv, NEW s \in Slots, NEW big \in BOOLEAN, TakeJob(s, big)
  PROVE  LeftInv'
<1> DEFINE a == [at |-> "piping", big |-> big]
           k == child[s]
<1>1. /\ slot[s] \in SlotRecords /\ child[s] \in ChildRecords
      /\ slot = [slot EXCEPT ![s] = slot[s]] /\ child = [child EXCEPT ![s] = child[s]]
  BY DEF LeftInv, ProcTypeOK, SlotRecords, ChildRecords, Ats
<1>2. /\ a \in SlotRecords /\ k \in ChildRecords
      /\ slot' = [slot EXCEPT ![s] = a] /\ child' = [child EXCEPT ![s] = k]
      /\ up' = up
  BY <1>1 DEF TakeJob, LeftInv, ProcTypeOK, SlotRecords, ChildRecords, Ats, At, To, Exits, NoChild,
             Conduct
<1>3. /\ \A e \in Ends \ OpenAt(slot[s].at) : <<s, e>> \notin held
      /\ held \subseteq Slots \X Ends
  BY DEF LeftInv, EndsTidy, ProcTypeOK
<1>4. /\ held' \subseteq Slots \X Ends
      /\ \A t \in Slots \ {s}, e \in Ends : <<t, e>> \in held' => <<t, e>> \in held
  BY <1>3 DEF TakeJob, EndsOf, Ends
<1>5. \A e \in Ends \ OpenAt(a.at) : <<s, e>> \notin held'
  BY <1>1, <1>2, <1>3 DEF TakeJob, EndsOf, Ends, OpenAt, At, SlotRecords, Ats
<1>6. /\ up /\ a.at \in {"idle", "piping", "forking"} => k.is = "none"
      /\ k.is # "running" => k.fds = {}
  BY <1>1, <1>2 DEF TakeJob, LeftInv, ChildrenTidy, At, SlotRecords, ChildRecords, Ats, NoChild
<1>7. /\ result' \in [Slots -> {"none", "answer", "error", "timeout"}]
      /\ lost' \in 0 .. MaxLost
  BY DEF TakeJob, LeftInv, ProcTypeOK, Answers
<1> HIDE DEF a, k
<1> QED BY <1>2, <1>4, <1>5, <1>6, <1>7, StepTidies

LEMMA OpenPipesTidies ==
  ASSUME LeftInv, NEW s \in Slots, OpenPipes(s)
  PROVE  LeftInv'
<1> DEFINE a == [slot[s] EXCEPT !.at = "forking"]
           k == child[s]
<1>1. /\ slot[s] \in SlotRecords /\ child[s] \in ChildRecords
      /\ slot = [slot EXCEPT ![s] = slot[s]] /\ child = [child EXCEPT ![s] = child[s]]
  BY DEF LeftInv, ProcTypeOK, SlotRecords, ChildRecords, Ats
<1>2. /\ a \in SlotRecords /\ k \in ChildRecords
      /\ slot' = [slot EXCEPT ![s] = a] /\ child' = [child EXCEPT ![s] = k]
      /\ up' = up
  BY <1>1 DEF OpenPipes, LeftInv, ProcTypeOK, SlotRecords, ChildRecords, Ats, At, To, Exits, NoChild,
             Conduct
<1>3. /\ \A e \in Ends \ OpenAt(slot[s].at) : <<s, e>> \notin held
      /\ held \subseteq Slots \X Ends
  BY DEF LeftInv, EndsTidy, ProcTypeOK
<1>4. /\ held' \subseteq Slots \X Ends
      /\ \A t \in Slots \ {s}, e \in Ends : <<t, e>> \in held' => <<t, e>> \in held
  BY <1>3 DEF OpenPipes, EndsOf, Ends
<1>5. \A e \in Ends \ OpenAt(a.at) : <<s, e>> \notin held'
  BY <1>1, <1>2, <1>3 DEF OpenPipes, EndsOf, Ends, OpenAt, At, SlotRecords, Ats
<1>6. /\ up /\ a.at \in {"idle", "piping", "forking"} => k.is = "none"
      /\ k.is # "running" => k.fds = {}
  BY <1>1, <1>2 DEF OpenPipes, LeftInv, ChildrenTidy, At, SlotRecords, ChildRecords, Ats, NoChild
<1>7. /\ result' \in [Slots -> {"none", "answer", "error", "timeout"}]
      /\ lost' \in 0 .. MaxLost
  BY DEF OpenPipes, LeftInv, ProcTypeOK, Answers
<1> HIDE DEF a, k
<1> QED BY <1>2, <1>4, <1>5, <1>6, <1>7, StepTidies

LEMMA PipesFailTidies ==
  ASSUME LeftInv, NEW s \in Slots, PipesFail(s)
  PROVE  LeftInv'
<1> DEFINE a == [slot[s] EXCEPT !.at = "idle"]
           k == child[s]
<1>1. /\ slot[s] \in SlotRecords /\ child[s] \in ChildRecords
      /\ slot = [slot EXCEPT ![s] = slot[s]] /\ child = [child EXCEPT ![s] = child[s]]
  BY DEF LeftInv, ProcTypeOK, SlotRecords, ChildRecords, Ats
<1>2. /\ a \in SlotRecords /\ k \in ChildRecords
      /\ slot' = [slot EXCEPT ![s] = a] /\ child' = [child EXCEPT ![s] = k]
      /\ up' = up
  BY <1>1 DEF PipesFail, LeftInv, ProcTypeOK, SlotRecords, ChildRecords, Ats, At, To, Exits, NoChild,
             Conduct
<1>3. /\ \A e \in Ends \ OpenAt(slot[s].at) : <<s, e>> \notin held
      /\ held \subseteq Slots \X Ends
  BY DEF LeftInv, EndsTidy, ProcTypeOK
<1>4. /\ held' \subseteq Slots \X Ends
      /\ \A t \in Slots \ {s}, e \in Ends : <<t, e>> \in held' => <<t, e>> \in held
  BY <1>3 DEF PipesFail, EndsOf, Ends
<1>5. \A e \in Ends \ OpenAt(a.at) : <<s, e>> \notin held'
  BY <1>1, <1>2, <1>3 DEF PipesFail, EndsOf, Ends, OpenAt, At, SlotRecords, Ats
<1>6. /\ up /\ a.at \in {"idle", "piping", "forking"} => k.is = "none"
      /\ k.is # "running" => k.fds = {}
  BY <1>1, <1>2 DEF PipesFail, LeftInv, ChildrenTidy, At, SlotRecords, ChildRecords, Ats, NoChild
<1>7. /\ result' \in [Slots -> {"none", "answer", "error", "timeout"}]
      /\ lost' \in 0 .. MaxLost
  BY DEF PipesFail, LeftInv, ProcTypeOK, Answers
<1> HIDE DEF a, k
<1> QED BY <1>2, <1>4, <1>5, <1>6, <1>7, StepTidies

LEMMA ForkChildTidies ==
  ASSUME LeftInv, NEW s \in Slots, NEW conduct \in Conduct, ForkChild(s, conduct)
  PROVE  LeftInv'
<1> DEFINE a == [slot[s] EXCEPT !.at = "parting"]
           k == [is |-> "running", conduct |-> conduct,
                 fds |-> held \ {<<s, "inWrite">>, <<s, "outRead">>}]
<1>1. /\ slot[s] \in SlotRecords /\ child[s] \in ChildRecords
      /\ slot = [slot EXCEPT ![s] = slot[s]] /\ child = [child EXCEPT ![s] = child[s]]
  BY DEF LeftInv, ProcTypeOK, SlotRecords, ChildRecords, Ats
<1>2. /\ a \in SlotRecords /\ k \in ChildRecords
      /\ slot' = [slot EXCEPT ![s] = a] /\ child' = [child EXCEPT ![s] = k]
      /\ up' = up
  BY <1>1 DEF ForkChild, LeftInv, ProcTypeOK, SlotRecords, ChildRecords, Ats, At, To, Exits, NoChild,
             Conduct
<1>3. /\ \A e \in Ends \ OpenAt(slot[s].at) : <<s, e>> \notin held
      /\ held \subseteq Slots \X Ends
  BY DEF LeftInv, EndsTidy, ProcTypeOK
<1>4. /\ held' \subseteq Slots \X Ends
      /\ \A t \in Slots \ {s}, e \in Ends : <<t, e>> \in held' => <<t, e>> \in held
  BY <1>3 DEF ForkChild, EndsOf, Ends
<1>5. \A e \in Ends \ OpenAt(a.at) : <<s, e>> \notin held'
  BY <1>1, <1>2, <1>3 DEF ForkChild, EndsOf, Ends, OpenAt, At, SlotRecords, Ats
<1>6. /\ up /\ a.at \in {"idle", "piping", "forking"} => k.is = "none"
      /\ k.is # "running" => k.fds = {}
  BY <1>1, <1>2 DEF ForkChild, LeftInv, ChildrenTidy, At, SlotRecords, ChildRecords, Ats, NoChild
<1>7. /\ result' \in [Slots -> {"none", "answer", "error", "timeout"}]
      /\ lost' \in 0 .. MaxLost
  BY DEF ForkChild, LeftInv, ProcTypeOK, Answers
<1> HIDE DEF a, k
<1> QED BY <1>2, <1>4, <1>5, <1>6, <1>7, StepTidies

LEMMA ForkFailsTidies ==
  ASSUME LeftInv, NEW s \in Slots, ForkFails(s)
  PROVE  LeftInv'
<1> DEFINE a == [slot[s] EXCEPT !.at = "idle"]
           k == child[s]
<1>1. /\ slot[s] \in SlotRecords /\ child[s] \in ChildRecords
      /\ slot = [slot EXCEPT ![s] = slot[s]] /\ child = [child EXCEPT ![s] = child[s]]
  BY DEF LeftInv, ProcTypeOK, SlotRecords, ChildRecords, Ats
<1>2. /\ a \in SlotRecords /\ k \in ChildRecords
      /\ slot' = [slot EXCEPT ![s] = a] /\ child' = [child EXCEPT ![s] = k]
      /\ up' = up
  BY <1>1 DEF ForkFails, LeftInv, ProcTypeOK, SlotRecords, ChildRecords, Ats, At, To, Exits, NoChild,
             Conduct
<1>3. /\ \A e \in Ends \ OpenAt(slot[s].at) : <<s, e>> \notin held
      /\ held \subseteq Slots \X Ends
  BY DEF LeftInv, EndsTidy, ProcTypeOK
<1>4. /\ held' \subseteq Slots \X Ends
      /\ \A t \in Slots \ {s}, e \in Ends : <<t, e>> \in held' => <<t, e>> \in held
  BY <1>3 DEF ForkFails, EndsOf, Ends
<1>5. \A e \in Ends \ OpenAt(a.at) : <<s, e>> \notin held'
  BY <1>1, <1>2, <1>3 DEF ForkFails, EndsOf, Ends, OpenAt, At, SlotRecords, Ats
<1>6. /\ up /\ a.at \in {"idle", "piping", "forking"} => k.is = "none"
      /\ k.is # "running" => k.fds = {}
  BY <1>1, <1>2 DEF ForkFails, LeftInv, ChildrenTidy, At, SlotRecords, ChildRecords, Ats, NoChild
<1>7. /\ result' \in [Slots -> {"none", "answer", "error", "timeout"}]
      /\ lost' \in 0 .. MaxLost
  BY DEF ForkFails, LeftInv, ProcTypeOK, Answers
<1> HIDE DEF a, k
<1> QED BY <1>2, <1>4, <1>5, <1>6, <1>7, StepTidies

LEMMA PartEndsTidies ==
  ASSUME LeftInv, NEW s \in Slots, PartEnds(s)
  PROVE  LeftInv'
<1> DEFINE a == [slot[s] EXCEPT !.at = "feeding"]
           k == child[s]
<1>1. /\ slot[s] \in SlotRecords /\ child[s] \in ChildRecords
      /\ slot = [slot EXCEPT ![s] = slot[s]] /\ child = [child EXCEPT ![s] = child[s]]
  BY DEF LeftInv, ProcTypeOK, SlotRecords, ChildRecords, Ats
<1>2. /\ a \in SlotRecords /\ k \in ChildRecords
      /\ slot' = [slot EXCEPT ![s] = a] /\ child' = [child EXCEPT ![s] = k]
      /\ up' = up
  BY <1>1 DEF PartEnds, LeftInv, ProcTypeOK, SlotRecords, ChildRecords, Ats, At, To, Exits, NoChild,
             Conduct
<1>3. /\ \A e \in Ends \ OpenAt(slot[s].at) : <<s, e>> \notin held
      /\ held \subseteq Slots \X Ends
  BY DEF LeftInv, EndsTidy, ProcTypeOK
<1>4. /\ held' \subseteq Slots \X Ends
      /\ \A t \in Slots \ {s}, e \in Ends : <<t, e>> \in held' => <<t, e>> \in held
  BY <1>3 DEF PartEnds, EndsOf, Ends
<1>5. \A e \in Ends \ OpenAt(a.at) : <<s, e>> \notin held'
  BY <1>1, <1>2, <1>3 DEF PartEnds, EndsOf, Ends, OpenAt, At, SlotRecords, Ats
<1>6. /\ up /\ a.at \in {"idle", "piping", "forking"} => k.is = "none"
      /\ k.is # "running" => k.fds = {}
  BY <1>1, <1>2 DEF PartEnds, LeftInv, ChildrenTidy, At, SlotRecords, ChildRecords, Ats, NoChild
<1>7. /\ result' \in [Slots -> {"none", "answer", "error", "timeout"}]
      /\ lost' \in 0 .. MaxLost
  BY DEF PartEnds, LeftInv, ProcTypeOK, Answers
<1> HIDE DEF a, k
<1> QED BY <1>2, <1>4, <1>5, <1>6, <1>7, StepTidies

LEMMA FeedChildTidies ==
  ASSUME LeftInv, NEW s \in Slots, FeedChild(s)
  PROVE  LeftInv'
<1> DEFINE a == [slot[s] EXCEPT !.at = "draining"]
           k == child[s]
<1>1. /\ slot[s] \in SlotRecords /\ child[s] \in ChildRecords
      /\ slot = [slot EXCEPT ![s] = slot[s]] /\ child = [child EXCEPT ![s] = child[s]]
  BY DEF LeftInv, ProcTypeOK, SlotRecords, ChildRecords, Ats
<1>2. /\ a \in SlotRecords /\ k \in ChildRecords
      /\ slot' = [slot EXCEPT ![s] = a] /\ child' = [child EXCEPT ![s] = k]
      /\ up' = up
  BY <1>1 DEF FeedChild, LeftInv, ProcTypeOK, SlotRecords, ChildRecords, Ats, At, To, Exits, NoChild,
             Conduct
<1>3. /\ \A e \in Ends \ OpenAt(slot[s].at) : <<s, e>> \notin held
      /\ held \subseteq Slots \X Ends
  BY DEF LeftInv, EndsTidy, ProcTypeOK
<1>4. /\ held' \subseteq Slots \X Ends
      /\ \A t \in Slots \ {s}, e \in Ends : <<t, e>> \in held' => <<t, e>> \in held
  BY <1>3 DEF FeedChild, EndsOf, Ends
<1>5. \A e \in Ends \ OpenAt(a.at) : <<s, e>> \notin held'
  BY <1>1, <1>2, <1>3 DEF FeedChild, EndsOf, Ends, OpenAt, At, SlotRecords, Ats
<1>6. /\ up /\ a.at \in {"idle", "piping", "forking"} => k.is = "none"
      /\ k.is # "running" => k.fds = {}
  BY <1>1, <1>2 DEF FeedChild, LeftInv, ChildrenTidy, At, SlotRecords, ChildRecords, Ats, NoChild
<1>7. /\ result' \in [Slots -> {"none", "answer", "error", "timeout"}]
      /\ lost' \in 0 .. MaxLost
  BY DEF FeedChild, LeftInv, ProcTypeOK, Answers
<1> HIDE DEF a, k
<1> QED BY <1>2, <1>4, <1>5, <1>6, <1>7, StepTidies

LEMMA ChildAnswersTidies ==
  ASSUME LeftInv, NEW s \in Slots, ChildAnswers(s)
  PROVE  LeftInv'
<1> DEFINE a == slot[s]
           k == [child[s] EXCEPT !.is = "exited", !.fds = {}]
<1>1. /\ slot[s] \in SlotRecords /\ child[s] \in ChildRecords
      /\ slot = [slot EXCEPT ![s] = slot[s]] /\ child = [child EXCEPT ![s] = child[s]]
  BY DEF LeftInv, ProcTypeOK, SlotRecords, ChildRecords, Ats
<1>8. child \in [Slots -> ChildRecords] /\ Exits(s)
  BY DEF ChildAnswers, LeftInv, ProcTypeOK, ChildRecords
<1>9. child' = [child EXCEPT ![s] = k]
  BY <1>8, ExitsMeans
<1>2. /\ a \in SlotRecords /\ k \in ChildRecords
      /\ slot' = [slot EXCEPT ![s] = a] /\ child' = [child EXCEPT ![s] = k]
      /\ up' = up
  BY <1>1, <1>9 DEF ChildAnswers, LeftInv, ProcTypeOK, SlotRecords, ChildRecords, Ats, At, To, NoChild,
             Conduct
<1>3. /\ \A e \in Ends \ OpenAt(slot[s].at) : <<s, e>> \notin held
      /\ held \subseteq Slots \X Ends
  BY DEF LeftInv, EndsTidy, ProcTypeOK
<1>4. /\ held' \subseteq Slots \X Ends
      /\ \A t \in Slots \ {s}, e \in Ends : <<t, e>> \in held' => <<t, e>> \in held
  BY <1>3 DEF ChildAnswers, EndsOf, Ends
<1>5. \A e \in Ends \ OpenAt(a.at) : <<s, e>> \notin held'
  BY <1>1, <1>2, <1>3 DEF ChildAnswers, EndsOf, Ends, OpenAt, At, SlotRecords, Ats
<1>6. /\ up /\ a.at \in {"idle", "piping", "forking"} => k.is = "none"
      /\ k.is # "running" => k.fds = {}
  BY <1>1, <1>2 DEF ChildAnswers, LeftInv, ChildrenTidy, Running, At, SlotRecords, ChildRecords, Ats, NoChild
<1>7. /\ result' \in [Slots -> {"none", "answer", "error", "timeout"}]
      /\ lost' \in 0 .. MaxLost
  BY DEF ChildAnswers, LeftInv, ProcTypeOK, Answers
<1> HIDE DEF a, k
<1> QED BY <1>2, <1>4, <1>5, <1>6, <1>7, StepTidies

LEMMA ChildDiesTidies ==
  ASSUME LeftInv, NEW s \in Slots, ChildDies(s)
  PROVE  LeftInv'
<1> DEFINE a == slot[s]
           k == [child[s] EXCEPT !.is = "exited", !.fds = {}]
<1>1. /\ slot[s] \in SlotRecords /\ child[s] \in ChildRecords
      /\ slot = [slot EXCEPT ![s] = slot[s]] /\ child = [child EXCEPT ![s] = child[s]]
  BY DEF LeftInv, ProcTypeOK, SlotRecords, ChildRecords, Ats
<1>8. child \in [Slots -> ChildRecords] /\ Exits(s)
  BY DEF ChildDies, LeftInv, ProcTypeOK, ChildRecords
<1>9. child' = [child EXCEPT ![s] = k]
  BY <1>8, ExitsMeans
<1>2. /\ a \in SlotRecords /\ k \in ChildRecords
      /\ slot' = [slot EXCEPT ![s] = a] /\ child' = [child EXCEPT ![s] = k]
      /\ up' = up
  BY <1>1, <1>9 DEF ChildDies, LeftInv, ProcTypeOK, SlotRecords, ChildRecords, Ats, At, To, NoChild,
             Conduct
<1>3. /\ \A e \in Ends \ OpenAt(slot[s].at) : <<s, e>> \notin held
      /\ held \subseteq Slots \X Ends
  BY DEF LeftInv, EndsTidy, ProcTypeOK
<1>4. /\ held' \subseteq Slots \X Ends
      /\ \A t \in Slots \ {s}, e \in Ends : <<t, e>> \in held' => <<t, e>> \in held
  BY <1>3 DEF ChildDies, EndsOf, Ends
<1>5. \A e \in Ends \ OpenAt(a.at) : <<s, e>> \notin held'
  BY <1>1, <1>2, <1>3 DEF ChildDies, EndsOf, Ends, OpenAt, At, SlotRecords, Ats
<1>6. /\ up /\ a.at \in {"idle", "piping", "forking"} => k.is = "none"
      /\ k.is # "running" => k.fds = {}
  BY <1>1, <1>2 DEF ChildDies, LeftInv, ChildrenTidy, Running, At, SlotRecords, ChildRecords, Ats, NoChild
<1>7. /\ result' \in [Slots -> {"none", "answer", "error", "timeout"}]
      /\ lost' \in 0 .. MaxLost
  BY DEF ChildDies, LeftInv, ProcTypeOK, Answers
<1> HIDE DEF a, k
<1> QED BY <1>2, <1>4, <1>5, <1>6, <1>7, StepTidies

LEMMA AfterDrainTidies ==
  ASSUME LeftInv, NEW s \in Slots, At(s, "draining"), AfterDrain(s)
  PROVE  LeftInv'
<1> DEFINE a == [slot[s] EXCEPT !.at = "waiting"]
           k == child[s]
<1>1. /\ slot[s] \in SlotRecords /\ child[s] \in ChildRecords
      /\ slot = [slot EXCEPT ![s] = slot[s]] /\ child = [child EXCEPT ![s] = child[s]]
  BY DEF LeftInv, ProcTypeOK, SlotRecords, ChildRecords, Ats
<1>2. /\ a \in SlotRecords /\ k \in ChildRecords
      /\ slot' = [slot EXCEPT ![s] = a] /\ child' = [child EXCEPT ![s] = k]
      /\ up' = up
  BY <1>1 DEF AfterDrain, LeftInv, ProcTypeOK, SlotRecords, ChildRecords, Ats, At, To, Exits, NoChild,
             Conduct
<1>3. /\ \A e \in Ends \ OpenAt(slot[s].at) : <<s, e>> \notin held
      /\ held \subseteq Slots \X Ends
  BY DEF LeftInv, EndsTidy, ProcTypeOK
<1>4. /\ held' \subseteq Slots \X Ends
      /\ \A t \in Slots \ {s}, e \in Ends : <<t, e>> \in held' => <<t, e>> \in held
  BY <1>3 DEF AfterDrain, EndsOf, Ends
<1>5. \A e \in Ends \ OpenAt(a.at) : <<s, e>> \notin held'
  BY <1>1, <1>2, <1>3 DEF AfterDrain, EndsOf, Ends, OpenAt, At, SlotRecords, Ats
<1>6. /\ up /\ a.at \in {"idle", "piping", "forking"} => k.is = "none"
      /\ k.is # "running" => k.fds = {}
  BY <1>1, <1>2 DEF AfterDrain, LeftInv, ChildrenTidy, At, SlotRecords, ChildRecords, Ats, NoChild
<1>7. /\ result' \in [Slots -> {"none", "answer", "error", "timeout"}]
      /\ lost' \in 0 .. MaxLost
  BY DEF AfterDrain, LeftInv, ProcTypeOK, Answers
<1> HIDE DEF a, k
<1> QED BY <1>2, <1>4, <1>5, <1>6, <1>7, StepTidies

LEMMA ChildReapedTidies ==
  ASSUME LeftInv, NEW s \in Slots, ChildReaped(s)
  PROVE  LeftInv'
<1> DEFINE a == [slot[s] EXCEPT !.at = "idle"]
           k == NoChild
<1>1. /\ slot[s] \in SlotRecords /\ child[s] \in ChildRecords
      /\ slot = [slot EXCEPT ![s] = slot[s]] /\ child = [child EXCEPT ![s] = child[s]]
  BY DEF LeftInv, ProcTypeOK, SlotRecords, ChildRecords, Ats
<1>2. /\ a \in SlotRecords /\ k \in ChildRecords
      /\ slot' = [slot EXCEPT ![s] = a] /\ child' = [child EXCEPT ![s] = k]
      /\ up' = up
  BY <1>1 DEF ChildReaped, LeftInv, ProcTypeOK, SlotRecords, ChildRecords, Ats, At, To, Exits, NoChild,
             Conduct
<1>3. /\ \A e \in Ends \ OpenAt(slot[s].at) : <<s, e>> \notin held
      /\ held \subseteq Slots \X Ends
  BY DEF LeftInv, EndsTidy, ProcTypeOK
<1>4. /\ held' \subseteq Slots \X Ends
      /\ \A t \in Slots \ {s}, e \in Ends : <<t, e>> \in held' => <<t, e>> \in held
  BY <1>3 DEF ChildReaped, EndsOf, Ends
<1>5. \A e \in Ends \ OpenAt(a.at) : <<s, e>> \notin held'
  BY <1>1, <1>2, <1>3 DEF ChildReaped, EndsOf, Ends, OpenAt, At, SlotRecords, Ats
<1>6. /\ up /\ a.at \in {"idle", "piping", "forking"} => k.is = "none"
      /\ k.is # "running" => k.fds = {}
  BY <1>1, <1>2 DEF ChildReaped, LeftInv, ChildrenTidy, At, SlotRecords, ChildRecords, Ats, NoChild
<1>7. /\ result' \in [Slots -> {"none", "answer", "error", "timeout"}]
      /\ lost' \in 0 .. MaxLost
  BY DEF ChildReaped, LeftInv, ProcTypeOK, Answers
<1> HIDE DEF a, k
<1> QED BY <1>2, <1>4, <1>5, <1>6, <1>7, StepTidies

LEMMA WaitTimesOutTidies ==
  ASSUME LeftInv, NEW s \in Slots, WaitTimesOut(s)
  PROVE  LeftInv'
<1> DEFINE a == [slot[s] EXCEPT !.at = "reaping"]
           k == [child[s] EXCEPT !.is = "exited", !.fds = {}]
<1>1. /\ slot[s] \in SlotRecords /\ child[s] \in ChildRecords
      /\ slot = [slot EXCEPT ![s] = slot[s]] /\ child = [child EXCEPT ![s] = child[s]]
  BY DEF LeftInv, ProcTypeOK, SlotRecords, ChildRecords, Ats
<1>8. child \in [Slots -> ChildRecords] /\ Exits(s)
  BY DEF WaitTimesOut, LeftInv, ProcTypeOK, ChildRecords
<1>9. child' = [child EXCEPT ![s] = k]
  BY <1>8, ExitsMeans
<1>2. /\ a \in SlotRecords /\ k \in ChildRecords
      /\ slot' = [slot EXCEPT ![s] = a] /\ child' = [child EXCEPT ![s] = k]
      /\ up' = up
  BY <1>1, <1>9 DEF WaitTimesOut, LeftInv, ProcTypeOK, SlotRecords, ChildRecords, Ats, At, To, NoChild,
             Conduct
<1>3. /\ \A e \in Ends \ OpenAt(slot[s].at) : <<s, e>> \notin held
      /\ held \subseteq Slots \X Ends
  BY DEF LeftInv, EndsTidy, ProcTypeOK
<1>4. /\ held' \subseteq Slots \X Ends
      /\ \A t \in Slots \ {s}, e \in Ends : <<t, e>> \in held' => <<t, e>> \in held
  BY <1>3 DEF WaitTimesOut, EndsOf, Ends
<1>5. \A e \in Ends \ OpenAt(a.at) : <<s, e>> \notin held'
  BY <1>1, <1>2, <1>3 DEF WaitTimesOut, EndsOf, Ends, OpenAt, At, SlotRecords, Ats
<1>6. /\ up /\ a.at \in {"idle", "piping", "forking"} => k.is = "none"
      /\ k.is # "running" => k.fds = {}
  BY <1>1, <1>2 DEF WaitTimesOut, LeftInv, ChildrenTidy, Running, At, SlotRecords, ChildRecords, Ats, NoChild
<1>7. /\ result' \in [Slots -> {"none", "answer", "error", "timeout"}]
      /\ lost' \in 0 .. MaxLost
  BY DEF WaitTimesOut, LeftInv, ProcTypeOK, Answers
<1> HIDE DEF a, k
<1> QED BY <1>2, <1>4, <1>5, <1>6, <1>7, StepTidies

LEMMA KilledReapedTidies ==
  ASSUME LeftInv, NEW s \in Slots, KilledReaped(s)
  PROVE  LeftInv'
<1> DEFINE a == [slot[s] EXCEPT !.at = "idle"]
           k == NoChild
<1>1. /\ slot[s] \in SlotRecords /\ child[s] \in ChildRecords
      /\ slot = [slot EXCEPT ![s] = slot[s]] /\ child = [child EXCEPT ![s] = child[s]]
  BY DEF LeftInv, ProcTypeOK, SlotRecords, ChildRecords, Ats
<1>2. /\ a \in SlotRecords /\ k \in ChildRecords
      /\ slot' = [slot EXCEPT ![s] = a] /\ child' = [child EXCEPT ![s] = k]
      /\ up' = up
  BY <1>1 DEF KilledReaped, LeftInv, ProcTypeOK, SlotRecords, ChildRecords, Ats, At, To, Exits, NoChild,
             Conduct
<1>3. /\ \A e \in Ends \ OpenAt(slot[s].at) : <<s, e>> \notin held
      /\ held \subseteq Slots \X Ends
  BY DEF LeftInv, EndsTidy, ProcTypeOK
<1>4. /\ held' \subseteq Slots \X Ends
      /\ \A t \in Slots \ {s}, e \in Ends : <<t, e>> \in held' => <<t, e>> \in held
  BY <1>3 DEF KilledReaped, EndsOf, Ends
<1>5. \A e \in Ends \ OpenAt(a.at) : <<s, e>> \notin held'
  BY <1>1, <1>2, <1>3 DEF KilledReaped, EndsOf, Ends, OpenAt, At, SlotRecords, Ats
<1>6. /\ up /\ a.at \in {"idle", "piping", "forking"} => k.is = "none"
      /\ k.is # "running" => k.fds = {}
  BY <1>1, <1>2 DEF KilledReaped, LeftInv, ChildrenTidy, At, SlotRecords, ChildRecords, Ats, NoChild
<1>7. /\ result' \in [Slots -> {"none", "answer", "error", "timeout"}]
      /\ lost' \in 0 .. MaxLost
  BY DEF KilledReaped, LeftInv, ProcTypeOK, Answers
<1> HIDE DEF a, k
<1> QED BY <1>2, <1>4, <1>5, <1>6, <1>7, StepTidies

-----------------------------------------------------------------------------
(* The worker dies, and the invariant as a whole.                          *)

LEMMA BrokenPipeTidies ==
  ASSUME LeftInv, NEW s \in Slots, BrokenPipe(s)
  PROVE  LeftInv'
<1>1. up' = FALSE /\ held' = {} /\ UNCHANGED <<slot, child, result, lost>>
  BY DEF BrokenPipe
<1>2. EndsTidy'
  BY <1>1 DEF EndsTidy
<1>3. ChildrenTidy'
  BY <1>1 DEF LeftInv, ChildrenTidy
<1>4. up' \in BOOLEAN
  BY <1>1
<1>5. ProcTypeOK'
  BY <1>1, <1>4 DEF LeftInv, ProcTypeOK
<1> QED BY <1>2, <1>3, <1>5 DEF LeftInv

LEMMA LeftStarts == ASSUME ProcInit PROVE LeftInv
<1>1. \A s \in Slots : slot[s].at = "idle" /\ child[s] = NoChild
  BY DEF ProcInit
<1>2. EndsTidy
  BY DEF ProcInit, EndsTidy
<1>6. NoChild.is = "none" /\ NoChild.fds = {}
  BY DEF NoChild
<1>5. \A s \in Slots : child[s].is = "none" /\ child[s].fds = {}
  BY <1>1, <1>6, Zenon
<1>3. ChildrenTidy
  BY <1>5 DEF ChildrenTidy
<1>4. ProcTypeOK
  BY ProcAssumption DEF ProcInit, ProcTypeOK, NoChild, Conduct
<1> QED BY <1>2, <1>3, <1>4 DEF LeftInv

LEMMA LeftStays == LeftInv /\ [ProcNext]_procVars => LeftInv'
<1> SUFFICES ASSUME LeftInv, [ProcNext]_procVars PROVE LeftInv'
  OBVIOUS
<1>1. CASE UNCHANGED procVars
  BY <1>1 DEF procVars, LeftInv, ProcTypeOK, EndsTidy, ChildrenTidy
<1>2. ASSUME NEW s \in Slots, NEW big \in BOOLEAN, TakeJob(s, big) PROVE LeftInv'
  BY <1>2, TakeJobTidies
<1>3. ASSUME NEW s \in Slots, ChildStep(s) PROVE LeftInv'
  BY <1>3, ChildAnswersTidies, ChildDiesTidies DEF ChildStep
<1>4. ASSUME NEW s \in Slots, SlotStep(s) PROVE LeftInv'
  <2>1. ASSUME NEW conduct \in Conduct, ForkChild(s, conduct) PROVE LeftInv'
    BY <2>1, ForkChildTidies
  <2>2. CASE DrainEnds(s)
    BY <2>2, AfterDrainTidies DEF DrainEnds
  <2>3. CASE DrainTimesOut(s)
    BY <2>3, AfterDrainTidies DEF DrainTimesOut
  <2>4. CASE OpenPipes(s) \/ PipesFail(s) \/ ForkFails(s) \/ PartEnds(s) \/ FeedChild(s)
    BY <2>4, OpenPipesTidies, PipesFailTidies, ForkFailsTidies, PartEndsTidies, FeedChildTidies
  <2>5. CASE BrokenPipe(s) \/ ChildReaped(s) \/ WaitTimesOut(s) \/ KilledReaped(s)
    BY <2>5, BrokenPipeTidies, ChildReapedTidies, WaitTimesOutTidies, KilledReapedTidies
  <2> QED BY <1>4, <2>1, <2>2, <2>3, <2>4, <2>5 DEF SlotStep
<1> QED BY <1>1, <1>2, <1>3, <1>4 DEF ProcNext

\* The slots of a worker stay well typed (worker.cpp:236-418).
THEOREM ProcTypes == ProcSpec => []ProcTypeOK
<1>1. ProcInit => LeftInv
  BY LeftStarts
<1>2. LeftInv => ProcTypeOK
  BY DEF LeftInv
<1> QED BY <1>1, <1>2, LeftStays, PTL DEF ProcSpec

\* Whatever fails on the way, between two jobs no slot of any number leaves a
\* child to be reaped or an end of a pipe open (worker.cpp:270-279, 338-354).
THEOREM SlotsTidyUp == ProcSpec => []NothingLeftBehind
<1>1. ProcInit => LeftInv
  BY LeftStarts
<1>2. LeftInv => NothingLeftBehind
  BY DEF LeftInv, NothingLeftBehind, EndsTidy, ChildrenTidy, OpenAt, At
<1> QED BY <1>1, <1>2, LeftStays, PTL DEF ProcSpec

\* A quick program is reported as timed out only while the child of another
\* slot holds an inherited end of its input open (worker.cpp:264-271,
\* 341-366).
THEOREM TimeoutsHaveCauses == ProcSpec => TimeoutHasCause
<1>1. ProcInit => LeftInv
  BY LeftStarts
<1>2. ASSUME LeftInv, NEW s \in Slots, WaitTimesOut(s)
      PROVE  \/ child[s].conduct = "hangs"
             \/ \E t \in Slots \ {s} : /\ Running(t)
                                       /\ <<s, "inWrite">> \in child[t].fds
  <2>1. slot[s].at = "waiting" /\ Undecided(s)
    BY <1>2 DEF WaitTimesOut, At
  <2>2. <<s, "inWrite">> \notin held
    BY <1>2, <2>1 DEF LeftInv, EndsTidy, OpenAt, Ends
  <2>3. child[s].conduct \in Conduct
    BY <1>2 DEF LeftInv, ProcTypeOK
  <2>4. CASE child[s].conduct = "quick"
    <3>1. PICK t \in Slots \ {s} : <<s, "inWrite">> \in child[t].fds
      BY <2>1, <2>2, <2>4 DEF Undecided, OpenElsewhere
    <3>2. Running(t)
      BY <1>2, <3>1 DEF LeftInv, ChildrenTidy, Running
    <3> QED BY <3>1, <3>2
  <2> QED BY <2>1, <2>3, <2>4 DEF Undecided, Conduct
<1>3. LeftInv /\ [ProcNext]_procVars =>
        [\A s \in Slots :
           WaitTimesOut(s) => \/ child[s].conduct = "hangs"
                              \/ \E t \in Slots \ {s} : /\ Running(t)
                                                        /\ <<s, "inWrite">> \in child[t].fds]_procVars
  BY <1>2
<1> QED BY <1>1, <1>3, LeftStays, PTL DEF ProcSpec, TimeoutHasCause

-----------------------------------------------------------------------------
(* A process of either kind.                                               *)

ThreadInv == SlotInv /\ PeakInv /\ LeftInv

LEMMA ThreadsStart == ThreadInit => ThreadInv
BY SlotInvStarts, PeakStarts, LeftStarts DEF ThreadInit, ThreadInv

LEMMA ThreadsStay == ThreadInv /\ [ThreadNext]_threadVars => ThreadInv'
<1> SUFFICES ASSUME ThreadInv, [ThreadNext]_threadVars PROVE ThreadInv'
  OBVIOUS
<1>1. [ConnNext]_connVars /\ [ProcNext]_procVars
  BY DEF ThreadNext, OfConns, OfSlots, threadVars, connVars, procVars
<1> QED BY <1>1, SlotsStay, PeakStays, LeftStays DEF ThreadInv

\* Threads are only where the code lets them be, with a pool, a class, a
\* child and open files of their place (server.cpp:1312-1405,
\* worker.cpp:250-366).
THEOREM ThreadTypes == ThreadSpec => []ThreadTypeOK
<1>1. ThreadInv => ThreadTypeOK
  BY DEF ThreadInv, SlotInv, LeftInv, ThreadTypeOK
<1> QED BY <1>1, ThreadsStart, ThreadsStay, PTL DEF ThreadSpec
=============================================================================
