--------------------------- MODULE OwnershipProofs ---------------------------
(* Proofs about RefCycle and Ownership, for any number of types, objects   *)
(* and variables: the search for components never splits a cycle of        *)
(* classes, counts are exact, and in an accepted program an object only    *)
(* outlives its last owner by a unique reference into what it owns, or by  *)
(* a shared one that no declaration tells.                                 *)
EXTENDS Ownership, DataLemmas, SequenceTheorems

-----------------------------------------------------------------------------
(* What a field holds.                                                     *)

HoldKinds == AllKinds \cup {"none"}
FoldStep(w, h, s) == IF s = {} THEN "inline" ELSE Through(h[s \ {Max(s)}], w[Max(s)])
Small(n, m) == {s \in SUBSET (1 .. n) : Cardinality(s) <= m}
FoldTable(w, U, h) == h = [s \in U |-> FoldStep(w, h, s)]

LEMMA ThroughType ==
  ASSUME NEW k \in HoldKinds, NEW x
  PROVE  Through(k, x) \in HoldKinds
BY DEF Through, HoldKinds, AllKinds

LEMMA IntervalParts ==
  ASSUME NEW n \in Nat, NEW s \in SUBSET (1 .. n)
  PROVE  /\ IsFiniteSet(s) /\ Cardinality(s) \in Nat /\ Cardinality(s) <= n
         /\ Cardinality(s) = 0 <=> s = {}
<1>1. IsFiniteSet(1 .. n) /\ Cardinality(1 .. n) = n
  BY FS_Interval
<1>2. IsFiniteSet(s) /\ Cardinality(s) <= Cardinality(1 .. n)
  BY <1>1, FS_Subset
<1> QED BY <1>1, <1>2, FS_CardinalityType, FS_EmptySet

LEMMA LargestTaken ==
  ASSUME NEW n \in Nat, NEW s \in SUBSET (1 .. n), s # {}
  PROVE  /\ Max(s) \in s /\ s \ {Max(s)} \in SUBSET (1 .. n)
         /\ IsFiniteSet(s) /\ Cardinality(s) \in Nat
         /\ Cardinality(s \ {Max(s)}) = Cardinality(s) - 1
<1>2. IsFiniteSet(s) /\ Cardinality(s) \in Nat
  BY IntervalParts
<1>3. Max(s) \in s
  BY LastPlace
<1> QED BY <1>2, <1>3, FS_RemoveElement

LEMMA FoldTableExists ==
  ASSUME NEW n \in Nat, NEW w
  PROVE  \E h : FoldTable(w, SUBSET (1 .. n), h)
<1> DEFINE T == {m \in Nat : \E h : FoldTable(w, Small(n, m), h)}
<1>1. \A s \in SUBSET (1 .. n) : IsFiniteSet(s) /\ Cardinality(s) \in Nat /\ Cardinality(s) <= n
  BY IntervalParts
<1>2. 0 \in T
  <2>1. \A s \in Small(n, 0) : s = {}
    BY <1>1, IntervalParts DEF Small
  <2> DEFINE h == [s \in Small(n, 0) |-> "inline"]
  <2>2. FoldTable(w, Small(n, 0), h)
    BY <2>1 DEF FoldTable, FoldStep
  <2> QED BY <2>2
<1>3. ASSUME NEW m \in Nat, m \in T PROVE m + 1 \in T
  <2>1. PICK h : FoldTable(w, Small(n, m), h)
    BY <1>3
  <2> DEFINE k == [s \in Small(n, m + 1) |-> FoldStep(w, h, s)]
  <2>2. \A s \in Small(n, m) : s \in Small(n, m + 1) /\ k[s] = h[s]
    <3>1. \A s \in Small(n, m) : s \in Small(n, m + 1) /\ h[s] = FoldStep(w, h, s)
      BY <1>1, <2>1 DEF FoldTable, Small
    <3> QED BY <3>1
  <2>3. ASSUME NEW s \in Small(n, m + 1) PROVE FoldStep(w, h, s) = FoldStep(w, k, s)
    <3>1. CASE s = {}
      BY <3>1 DEF FoldStep
    <3>2. CASE s # {}
      <4>1. s \ {Max(s)} \in Small(n, m)
        BY <1>1, <3>2, LargestTaken DEF Small
      <4> QED BY <2>2, <4>1 DEF FoldStep
    <3> QED BY <3>1, <3>2
  <2>4. FoldTable(w, Small(n, m + 1), k)
    BY <2>3 DEF FoldTable
  <2>5. \E g : FoldTable(w, Small(n, m + 1), g)
    BY <2>4
  <2> QED BY <1>3, <2>5
<1>4. n \in T
  <2> HIDE DEF T
  <2> QED BY <1>2, <1>3, ByInduction
<1>5. Small(n, n) = SUBSET (1 .. n)
  BY <1>1 DEF Small
<1> QED BY <1>4, <1>5

LEMMA FoldTableType ==
  ASSUME NEW n \in Nat, NEW w, NEW h, FoldTable(w, SUBSET (1 .. n), h)
  PROVE  h[1 .. n] \in HoldKinds
<1> DEFINE T == {m \in Nat : \A s \in SUBSET (1 .. n) : Cardinality(s) = m => h[s] \in HoldKinds}
<1>1. \A s \in SUBSET (1 .. n) : h[s] = FoldStep(w, h, s)
  BY DEF FoldTable
<1>2. 0 \in T
  <2>1. \A s \in SUBSET (1 .. n) : Cardinality(s) = 0 => s = {}
    BY IntervalParts
  <2> QED BY <1>1, <2>1 DEF FoldStep, HoldKinds, AllKinds
<1>3. ASSUME NEW m \in Nat, m \in T PROVE m + 1 \in T
  <2> SUFFICES ASSUME NEW s \in SUBSET (1 .. n), Cardinality(s) = m + 1 PROVE h[s] \in HoldKinds
    OBVIOUS
  <2>1. s # {}
    <3>1. Cardinality(s) # 0
      BY <1>3
    <3> QED BY <3>1, IntervalParts
  <2> DEFINE r == s \ {Max(s)}
  <2>2. h[r] \in HoldKinds
    <3>1. r \in SUBSET (1 .. n) /\ Cardinality(r) = m
      <4>1. Cardinality(r) = (m + 1) - 1 /\ r \in SUBSET (1 .. n)
        BY <2>1, LargestTaken
      <4> QED BY <1>3, <4>1
    <3> HIDE DEF r
    <3> QED BY <1>3, <3>1
  <2> QED BY <1>1, <2>1, <2>2, ThroughType DEF FoldStep
<1>4. Cardinality(1 .. n) \in T
  <2>1. Cardinality(1 .. n) \in Nat
    BY FS_Interval, FS_CardinalityType
  <2> HIDE DEF T
  <2> QED BY <1>2, <1>3, <2>1, ByInduction
<1> QED BY <1>4

LEMMA HoldKindType ==
  ASSUME NEW f \in FieldTypes
  PROVE  HoldKind(f) \in HoldKinds
<1> DEFINE w == f.wraps
           n == Len(w)
<1>1. w \in Seq(Wrappers)
  BY FieldsAssumption
<1>2. n \in Nat /\ DOMAIN w = 1 .. n
  BY <1>1
<1>3. HoldKind(f) = (CHOOSE h : FoldTable(w, SUBSET DOMAIN w, h))[DOMAIN w]
  BY Zenon DEF HoldKind, FoldLeft, MapThenFoldSet, FoldTable, FoldStep
<1> HIDE DEF w
<1> QED BY <1>2, <1>3, FoldTableExists, FoldTableType

-----------------------------------------------------------------------------
(* The tables of the check.                                                *)

LEMMA EdgesType ==
  ASSUME NEW fields \in Classes, NEW t \in Types
  PROVE  Edges(fields, t) \in SUBSET [kind : AllKinds, to : Types]
<1>1. fields[t] \in SUBSET FieldTypes
  BY DEF Classes
<1>2. \A f \in fields[t] : f.rec \in Types /\ HoldKind(f) \in HoldKinds
  BY <1>1, FieldsAssumption, HoldKindType
<1> QED BY <1>2 DEF Edges, HoldKinds

LEMMA AdjType ==
  ASSUME CycleTypeOK, NEW kinds
  PROVE  AdjOf(graph, kinds) \in [Types -> SUBSET Types]
BY DEF AdjOf, CycleTypeOK

LEMMA CheckStartsTyped ==
  ASSUME CycleInit
  PROVE  CycleTypeOK
<1>1. PICK fields \in Classes : graph = [t \in Types |-> Edges(fields, t)]
  BY DEF CycleInit
<1>2. graph \in [Types -> SUBSET [kind : AllKinds, to : Types]]
  BY <1>1, EdgesType
<1> QED BY <1>2 DEF CycleInit, NothingVisited, Unvisited, NoEdges, CycleTypeOK

Calls == {path[i] : i \in DOMAIN path}

LEMMA CallerIsType ==
  ASSUME CycleTypeOK, path # <<>>
  PROVE  Caller \in Types /\ Len(path) \in DOMAIN path /\ Caller \in Calls
BY DEF CycleTypeOK, Caller, Calls

\* What a call of strongconnect does before its loop.
LEMMA EnterTypes ==
  ASSUME CycleTypeOK, NEW v \in Types, NEW rest \in [Types -> SUBSET Types], Enter(v, rest)
  PROVE  CycleTypeOK'
<1>1. counter' = counter + 1 /\ counter \in Nat \ {0} /\ counter' \in Nat \ {0}
  BY DEF Enter, CycleTypeOK
<1>2. num' \in [Types -> 0 .. counter' - 1] /\ low' \in [Types -> 0 .. counter' - 1]
  <2>1. \A f \in [Types -> 0 .. counter - 1] :
          [f EXCEPT ![v] = counter] \in [Types -> 0 .. counter' - 1]
    BY <1>1
  <2> QED BY <2>1 DEF Enter, CycleTypeOK
<1>3. stk' \in Seq(Types) /\ path' \in Seq(Types)
  BY DEF Enter, CycleTypeOK
<1>4. todo' \in [Types -> SUBSET Types]
  <2>1. Adj \in [Types -> SUBSET Types]
    BY AdjType DEF Adj
  <2> QED BY <2>1 DEF Enter
<1> QED BY <1>1, <1>2, <1>3, <1>4 DEF Enter, CycleTypeOK

LEMMA RestType ==
  ASSUME CycleTypeOK, NEW w \in Types, LooksAt(w)
  PROVE  /\ Caller \in Types /\ Rest(w) \in [Types -> SUBSET Types]
         /\ \A t \in Types : Rest(w)[t] = IF t = Caller THEN todo[t] \ {w} ELSE todo[t]
BY CallerIsType DEF LooksAt, CycleTypeOK, Rest

LEMMA DescendTypes ==
  ASSUME CycleTypeOK, NEW w \in Types, Descend(w)
  PROVE  CycleTypeOK'
BY RestType, EnterTypes DEF Descend

LEMMA LookBackTypes ==
  ASSUME CycleTypeOK, NEW w \in Types, LookBack(w)
  PROVE  CycleTypeOK'
<1>1. LooksAt(w)
  BY DEF LookBack
<1>2. low' \in [Types -> 0 .. counter - 1]
  BY <1>1, RestType DEF LookBack, CycleTypeOK, Least
<1> QED BY <1>1, <1>2, RestType DEF LookBack, CycleTypeOK

LEMMA ConnectTypes ==
  ASSUME CycleTypeOK, NEW v \in Types, Connect(v)
  PROVE  CycleTypeOK'
BY EnterTypes DEF Connect, CycleTypeOK

LEMMA BaseOf ==
  ASSUME CycleTypeOK, NEW v \in Types, v \in OnStack
  PROVE  /\ Base(v) \in 1 .. Len(stk) /\ stk[Base(v)] = v
         /\ SubSeq(stk, 1, Base(v) - 1) \in Seq(Types)
         /\ Len(SubSeq(stk, 1, Base(v) - 1)) = Base(v) - 1
         /\ \A i \in 1 .. Base(v) - 1 : SubSeq(stk, 1, Base(v) - 1)[i] = stk[i]
         /\ Above(v) \in SUBSET Types
<1>1. stk \in Seq(Types) /\ DOMAIN stk = 1 .. Len(stk) /\ Len(stk) \in Nat
  BY DEF CycleTypeOK
<1>2. \E i \in DOMAIN stk : stk[i] = v
  BY DEF OnStack
<1>3. Base(v) \in DOMAIN stk /\ stk[Base(v)] = v
  BY <1>2 DEF Base
<1> QED BY <1>1, <1>3 DEF Above

\* The innermost call goes from the path.
LEMMA PathShrinks ==
  ASSUME CycleTypeOK, Leave
  PROVE  /\ Len(path) \in Nat \ {0} /\ path' \in Seq(Types) /\ Len(path') = Len(path) - 1
         /\ DOMAIN path = 1 .. Len(path) /\ DOMAIN path' = 1 .. Len(path) - 1
         /\ \A i \in 1 .. Len(path) - 1 : path'[i] = path[i] /\ path[i] \in Types
         /\ path[Len(path)] = Caller /\ Caller \in Types
<1>1. path \in Seq(Types) /\ path # <<>>
  BY DEF CycleTypeOK, Leave
<1>2. Len(path) \in Nat \ {0} /\ DOMAIN path = 1 .. Len(path)
  BY <1>1
<1>3. path' = SubSeq(path, 1, Len(path) - 1)
  BY DEF Leave
<1> QED BY <1>1, <1>2, <1>3, CallerIsType DEF Caller

LEMMA LeaveTypes ==
  ASSUME CycleTypeOK, Leave, Caller \in OnStack
  PROVE  CycleTypeOK'
<1>1. low' \in [Types -> 0 .. counter - 1]
  <2>1. Len(path) # 1 => path[Len(path) - 1] \in Types
    BY PathShrinks
  <2> QED BY <2>1, PathShrinks DEF Leave, CycleTypeOK, Least
<1>2. stk' \in Seq(Types) /\ sccs' \subseteq SUBSET Types
  <2>1. Caller \in Types
    BY PathShrinks
  <2>2. SubSeq(stk, 1, Base(Caller) - 1) \in Seq(Types) /\ Above(Caller) \in SUBSET Types
    BY <2>1, BaseOf
  <2>3. stk \in Seq(Types) /\ sccs \subseteq SUBSET Types
    BY DEF CycleTypeOK
  <2> QED BY <2>2, <2>3 DEF Leave
<1> QED BY <1>1, <1>2, PathShrinks DEF Leave, CycleTypeOK

LEMMA ReportTypes ==
  ASSUME CycleTypeOK, Report
  PROVE  CycleTypeOK'
<1>1. pass \in {"shared", "value", "unique"}
  BY DEF Report, Looking
<1>2. pass' \in {"value", "unique", "done"} /\ errors' \subseteq {"shared", "value", "unique"}
  BY <1>1 DEF Report, Following, CycleTypeOK
<1>3. num' \in [Types -> 0 .. counter' - 1] /\ low' \in [Types -> 0 .. counter' - 1]
  BY DEF Report, Unvisited
<1> QED BY <1>2, <1>3 DEF Report, CycleTypeOK, NoEdges

-----------------------------------------------------------------------------
(* Numbers: the stack and the calls are in the order of the numbers, all   *)
(* calls are on the stack, and the first call is the first of the stack.   *)

NumbersOK ==
  /\ \A t \in Types : low[t] <= num[t]
  /\ \A i, j \in DOMAIN stk : i < j => num[stk[i]] < num[stk[j]]
  /\ \A i, j \in DOMAIN path : i < j => num[path[i]] < num[path[j]]
  /\ \A i \in DOMAIN path : path[i] \in OnStack /\ num[path[1]] <= low[path[i]]
  /\ \A i \in DOMAIN stk : path # <<>> /\ num[stk[i]] # 0 /\ num[path[1]] <= num[stk[i]]

LEMMA TableTypes ==
  ASSUME CycleTypeOK
  PROVE  /\ Len(stk) \in Nat /\ DOMAIN stk = 1 .. Len(stk) /\ \A i \in DOMAIN stk : stk[i] \in Types
         /\ Len(path) \in Nat /\ DOMAIN path = 1 .. Len(path) /\ \A i \in DOMAIN path : path[i] \in Types
         /\ counter \in Nat
         /\ \A t \in Types : num[t] \in Nat /\ low[t] \in Nat /\ num[t] < counter /\ low[t] < counter
         /\ path = <<>> <=> Len(path) = 0
BY DEF CycleTypeOK

LEMMA EnterEffects ==
  ASSUME CycleTypeOK, NEW v \in Types, NEW rest \in [Types -> SUBSET Types], Enter(v, rest)
  PROVE  /\ DOMAIN stk' = 1 .. Len(stk) + 1 /\ stk'[Len(stk) + 1] = v
         /\ \A i \in 1 .. Len(stk) : stk'[i] = stk[i]
         /\ DOMAIN path' = 1 .. Len(path) + 1 /\ path'[Len(path) + 1] = v
         /\ \A i \in 1 .. Len(path) : path'[i] = path[i]
         /\ Len(path') = Len(path) + 1 /\ path' # <<>>
         /\ \A t \in Types : /\ num'[t] = IF t = v THEN counter ELSE num[t]
                             /\ low'[t] = IF t = v THEN counter ELSE low[t]
                             /\ todo'[t] = IF t = v THEN Adj[v] ELSE rest[t]
                             /\ t \in OnStack' <=> t \in OnStack \/ t = v
         /\ counter' = counter + 1 /\ sccs' = sccs /\ Adj' = Adj
<1>1. stk' = Append(stk, v) /\ path' = Append(path, v) /\ stk \in Seq(Types) /\ path \in Seq(Types)
  BY DEF Enter, CycleTypeOK
<1>2. /\ DOMAIN stk' = 1 .. Len(stk) + 1 /\ stk'[Len(stk) + 1] = v
      /\ \A i \in 1 .. Len(stk) : stk'[i] = stk[i]
      /\ Len(stk) \in Nat /\ DOMAIN stk = 1 .. Len(stk)
  BY <1>1
<1>3. /\ DOMAIN path' = 1 .. Len(path) + 1 /\ path'[Len(path) + 1] = v
      /\ \A i \in 1 .. Len(path) : path'[i] = path[i]
      /\ Len(path') = Len(path) + 1 /\ path' # <<>>
  BY <1>1
<1>4. \A t \in Types : /\ num'[t] = IF t = v THEN counter ELSE num[t]
                       /\ low'[t] = IF t = v THEN counter ELSE low[t]
                       /\ todo'[t] = IF t = v THEN Adj[v] ELSE rest[t]
  BY DEF Enter, CycleTypeOK
<1>5. ASSUME NEW t \in Types PROVE t \in OnStack' <=> t \in OnStack \/ t = v
  <2>1. t \in OnStack' <=> \E i \in 1 .. Len(stk) + 1 : stk'[i] = t
    BY <1>2 DEF OnStack
  <2>2. t \in OnStack <=> \E i \in 1 .. Len(stk) : stk[i] = t
    BY <1>2 DEF OnStack
  <2>3. \A i \in 1 .. Len(stk) + 1 : i \in 1 .. Len(stk) \/ i = Len(stk) + 1
    BY <1>2
  <2>4. \A i \in 1 .. Len(stk) : i \in 1 .. Len(stk) + 1
    BY <1>2
  <2>5. Len(stk) + 1 \in 1 .. Len(stk) + 1
    BY <1>2
  <2> QED BY <1>2, <2>1, <2>2, <2>3, <2>4, <2>5
<1>6. counter' = counter + 1 /\ sccs' = sccs /\ Adj' = Adj
  BY DEF Enter, Adj
<1> QED BY <1>2, <1>3, <1>4, <1>5, <1>6

LEMMA EnterNumbers ==
  ASSUME CycleTypeOK, NumbersOK, NEW v \in Types, num[v] = 0,
         NEW rest \in [Types -> SUBSET Types], Enter(v, rest)
  PROVE  NumbersOK'
<1>1. /\ \A i \in DOMAIN stk : num[stk[i]] # 0
      /\ \A i \in DOMAIN path : num[path[i]] # 0
  BY TableTypes DEF NumbersOK, OnStack
<1>2. \A i \in DOMAIN stk : stk[i] # v /\ stk[i] \in Types
  BY <1>1, TableTypes
<1>3. \A i \in DOMAIN path : path[i] # v /\ path[i] \in Types
  BY <1>1, TableTypes
<1>4. \A t \in Types : low'[t] <= num'[t]
  BY EnterEffects, TableTypes DEF NumbersOK
<1>5. \A i \in 1 .. Len(stk) : num'[stk'[i]] = num[stk[i]] /\ num'[stk'[i]] < counter
  BY <1>2, EnterEffects, TableTypes
<1>6. \A i \in 1 .. Len(path) : /\ num'[path'[i]] = num[path[i]] /\ num'[path'[i]] < counter
                                /\ low'[path'[i]] = low[path[i]]
  BY <1>3, EnterEffects, TableTypes
<1>7. \A i, j \in DOMAIN stk' : i < j => num'[stk'[i]] < num'[stk'[j]]
  <2> SUFFICES ASSUME NEW i \in 1 .. Len(stk) + 1, NEW j \in 1 .. Len(stk) + 1, i < j
               PROVE  num'[stk'[i]] < num'[stk'[j]]
    BY EnterEffects
  <2>1. i \in 1 .. Len(stk) /\ (j \in 1 .. Len(stk) \/ j = Len(stk) + 1)
    BY TableTypes
  <2>2. num'[stk'[Len(stk) + 1]] = counter
    BY EnterEffects
  <2> QED BY <1>5, <2>1, <2>2, TableTypes DEF NumbersOK
<1>8. \A i, j \in DOMAIN path' : i < j => num'[path'[i]] < num'[path'[j]]
  <2> SUFFICES ASSUME NEW i \in 1 .. Len(path) + 1, NEW j \in 1 .. Len(path) + 1, i < j
               PROVE  num'[path'[i]] < num'[path'[j]]
    BY EnterEffects
  <2>1. i \in 1 .. Len(path) /\ (j \in 1 .. Len(path) \/ j = Len(path) + 1)
    BY TableTypes
  <2>2. num'[path'[Len(path) + 1]] = counter
    BY EnterEffects
  <2> QED BY <1>6, <2>1, <2>2, TableTypes DEF NumbersOK
<1>9. num'[path'[1]] <= counter
  <2>1. 1 \in 1 .. Len(path) \/ 1 = Len(path) + 1
    BY TableTypes
  <2> QED BY SMTT(30), <1>6, <2>1, EnterEffects, TableTypes
<1>10. ASSUME NEW i \in 1 .. Len(path) + 1
       PROVE  path'[i] \in OnStack' /\ num'[path'[1]] <= low'[path'[i]]
  <2>1. CASE i = Len(path) + 1
    BY <1>9, <2>1, EnterEffects
  <2>2. CASE i \in 1 .. Len(path)
    <3>1. 1 \in 1 .. Len(path)
      BY <2>2, TableTypes
    <3>2. path[i] \in OnStack /\ path[i] \in Types /\ path'[i] = path[i]
      BY <2>2, TableTypes, EnterEffects DEF NumbersOK
    <3>3. path'[i] \in OnStack'
      BY <3>2, EnterEffects
    <3> QED BY <1>6, <2>2, <3>1, <3>3, TableTypes DEF NumbersOK
  <2> QED BY <2>1, <2>2, TableTypes
<1>11. ASSUME NEW i \in 1 .. Len(stk) + 1
       PROVE  path' # <<>> /\ num'[stk'[i]] # 0 /\ num'[path'[1]] <= num'[stk'[i]]
  <2>1. CASE i = Len(stk) + 1
    <3>1. num'[stk'[i]] = counter /\ counter # 0
      BY SMTT(30), <2>1, EnterEffects DEF CycleTypeOK
    <3> QED BY <1>9, <3>1, EnterEffects, TableTypes
  <2>2. CASE i \in 1 .. Len(stk)
    <3>1. 1 \in 1 .. Len(path)
      BY <2>2, TableTypes DEF NumbersOK
    <3> QED BY SMTT(30), <1>5, <1>6, <2>2, <3>1, EnterEffects, TableTypes DEF NumbersOK
  <2> QED BY <2>1, <2>2, TableTypes
<1> QED BY <1>4, <1>7, <1>8, <1>10, <1>11, EnterEffects DEF NumbersOK

LEMMA LookBackEffects ==
  ASSUME CycleTypeOK, NEW w \in Types, LookBack(w)
  PROVE  /\ Caller \in Types /\ Len(path) \in DOMAIN path /\ path[Len(path)] = Caller
         /\ w \in todo[Caller] /\ num[w] # 0
         /\ path' = path /\ stk' = stk /\ num' = num /\ sccs' = sccs /\ Adj' = Adj
         /\ OnStack' = OnStack /\ Calls' = Calls
         /\ \A t \in Types :
              /\ todo'[t] = IF t = Caller THEN todo[t] \ {w} ELSE todo[t]
              /\ low'[t] <= low[t]
              /\ low'[t] = low[t] \/ (t = Caller /\ w \in OnStack /\ low'[t] = num[w])
         /\ w \in OnStack => low'[Caller] <= num[w]
<1>1. LooksAt(w)
  BY DEF LookBack
<1>2. /\ Caller \in Types /\ Len(path) \in DOMAIN path /\ path[Len(path)] = Caller
      /\ w \in todo[Caller]
  BY <1>1, CallerIsType DEF LooksAt, Caller
<1>3. /\ path' = path /\ stk' = stk /\ num' = num /\ sccs' = sccs
      /\ graph' = graph /\ pass' = pass /\ num[w] # 0 /\ todo' = Rest(w)
      /\ low' = IF w \in OnStack THEN [low EXCEPT ![Caller] = Least(@, num[w])] ELSE low
  BY DEF LookBack
<1>4. Adj' = Adj
  BY <1>3 DEF Adj
<1>5. OnStack' = OnStack /\ Calls' = Calls
  BY <1>3 DEF OnStack, Calls
<1>6. \A t \in Types : todo'[t] = IF t = Caller THEN todo[t] \ {w} ELSE todo[t]
  BY <1>1, <1>3, RestType
<1>7. \A t \in Types : low'[t] = IF t = Caller /\ w \in OnStack THEN Least(low[t], num[w]) ELSE low[t]
  BY <1>3, <1>2 DEF CycleTypeOK
<1>8. \A t \in Types : /\ low'[t] <= low[t]
                       /\ low'[t] = low[t] \/ (t = Caller /\ w \in OnStack /\ low'[t] = num[w])
  BY <1>7, TableTypes DEF Least
<1>9. w \in OnStack => low'[Caller] <= num[w]
  BY <1>2, <1>7, TableTypes DEF Least
<1> QED BY <1>2, <1>3, <1>4, <1>5, <1>6, <1>8, <1>9

LEMMA LookBackNumbers ==
  ASSUME CycleTypeOK, NumbersOK, NEW w \in Types, LookBack(w)
  PROVE  NumbersOK'
<1>1. CycleTypeOK'
  BY LookBackTypes
<1>2. \A t \in Types : low'[t] <= num'[t]
  <2>1. \A t \in Types : low'[t] \in Nat /\ low[t] \in Nat /\ num[t] \in Nat /\ num'[t] = num[t]
    BY <1>1, TableTypes, LookBackEffects DEF CycleTypeOK
  <2>2. \A t \in Types : low'[t] <= low[t]
    BY LookBackEffects
  <2>3. \A t \in Types : low[t] <= num[t]
    BY DEF NumbersOK
  <2> QED BY <2>1, <2>2, <2>3
<1>3. ASSUME NEW i \in DOMAIN path
      PROVE  num[path[1]] <= low'[path[i]]
  <2>1. path[i] \in Types
    BY TableTypes
  <2>2. CASE low'[path[i]] = low[path[i]]
    BY <2>2 DEF NumbersOK
  <2>3. CASE w \in OnStack /\ low'[path[i]] = num[w]
    BY <2>3 DEF NumbersOK, OnStack
  <2> QED BY <2>1, <2>2, <2>3, LookBackEffects
<1> QED BY <1>2, <1>3, LookBackEffects DEF NumbersOK

\* What a call does when it returns.
Completes == low[Caller] = num[Caller]

LEMMA LeaveEffects ==
  ASSUME CycleTypeOK, NumbersOK, Leave
  PROVE  /\ Caller \in Types /\ Caller \in OnStack /\ todo[Caller] = {}
         /\ Len(path) \in Nat \ {0} /\ Len(path') = Len(path) - 1
         /\ DOMAIN path = 1 .. Len(path) /\ DOMAIN path' = 1 .. Len(path) - 1
         /\ path[Len(path)] = Caller
         /\ \A i \in 1 .. Len(path) - 1 : path'[i] = path[i] /\ path[i] \in Types
         /\ num' = num /\ Adj' = Adj /\ todo' = todo
         /\ \A t \in Types :
              /\ low'[t] <= low[t]
              /\ \/ low'[t] = low[t]
                 \/ Len(path) # 1 /\ t = path[Len(path) - 1] /\ low'[t] = low[Caller]
         /\ Len(path) # 1 => low'[path[Len(path) - 1]] <= low[Caller]
         /\ OnStack \subseteq Types
         /\ ~Completes => stk' = stk /\ OnStack' = OnStack /\ sccs' = sccs
         /\ Completes => /\ DOMAIN stk' \subseteq DOMAIN stk
                         /\ \A i \in DOMAIN stk' : stk'[i] = stk[i]
                         /\ sccs' = sccs \cup {Above(Caller)}
                         /\ OnStack' = {u \in OnStack : num[u] < num[Caller]}
                         /\ Above(Caller) = {u \in OnStack : num[Caller] <= num[u]}
<1> DEFINE v == Caller
<1>1. /\ v \in Types /\ Len(path) \in Nat \ {0} /\ Len(path') = Len(path) - 1
      /\ DOMAIN path = 1 .. Len(path) /\ DOMAIN path' = 1 .. Len(path) - 1
      /\ path[Len(path)] = v
      /\ \A i \in 1 .. Len(path) - 1 : path'[i] = path[i] /\ path[i] \in Types
  BY PathShrinks
<1>2. v \in OnStack
  BY <1>1 DEF NumbersOK
<1>3. num' = num /\ todo' = todo /\ todo[v] = {} /\ Adj' = Adj
  BY DEF Leave, Adj
<1>4. /\ \A t \in Types :
           /\ low'[t] <= low[t]
           /\ \/ low'[t] = low[t]
              \/ Len(path) # 1 /\ t = path[Len(path) - 1] /\ low'[t] = low[v]
      /\ Len(path) # 1 => low'[path[Len(path) - 1]] <= low[v]
  <2>1. CASE Len(path) = 1
    BY <2>1, TableTypes DEF Leave
  <2>2. CASE Len(path) # 1
    <3> DEFINE p == path[Len(path) - 1]
    <3>1. p \in Types
      BY <1>1, <2>2
    <3>2. \A t \in Types : low'[t] = IF t = p THEN Least(low[p], low[v]) ELSE low[t]
      BY <2>2, <3>1 DEF Leave, CycleTypeOK
    <3> QED BY SMTT(30), <1>1, <2>2, <3>1, <3>2, TableTypes DEF Least
  <2> QED BY <2>1, <2>2
<1>5. OnStack \subseteq Types
  BY TableTypes DEF OnStack
<1>6. CASE ~Completes
  BY SMTT(30), <1>1, <1>2, <1>3, <1>4, <1>5, <1>6 DEF Leave, Completes, OnStack
<1>7. CASE Completes
  <2>1. /\ stk' = SubSeq(stk, 1, Base(v) - 1) /\ sccs' = sccs \cup {Above(v)}
    BY <1>7 DEF Leave, Completes
  <2>2. /\ Base(v) \in 1 .. Len(stk) /\ stk[Base(v)] = v
        /\ Len(stk') = Base(v) - 1 /\ stk' \in Seq(Types)
        /\ \A i \in 1 .. Base(v) - 1 : stk'[i] = stk[i]
    BY <1>1, <1>2, <2>1, BaseOf
  <2>3. DOMAIN stk' = 1 .. Base(v) - 1 /\ DOMAIN stk = 1 .. Len(stk) /\ Len(stk) \in Nat
    BY <2>2, TableTypes
  <2>4. \A i \in 1 .. Len(stk) : /\ num[stk[i]] < num[v] <=> i < Base(v)
                                 /\ num[v] <= num[stk[i]] <=> i >= Base(v)
    <3> SUFFICES ASSUME NEW i \in 1 .. Len(stk)
                 PROVE  /\ num[stk[i]] < num[v] <=> i < Base(v)
                        /\ num[v] <= num[stk[i]] <=> i >= Base(v)
      OBVIOUS
    <3>1. /\ i < Base(v) => num[stk[i]] < num[v]
          /\ i > Base(v) => num[v] < num[stk[i]]
          /\ i = Base(v) => num[v] = num[stk[i]]
      BY <2>2, <2>3 DEF NumbersOK
    <3>2. num[v] \in Nat /\ num[stk[i]] \in Nat /\ i \in Int /\ Base(v) \in Int
      BY <1>1, <2>2, TableTypes
    <3> QED BY <3>1, <3>2
  <2>5. OnStack' = {u \in OnStack : num[u] < num[v]}
    <3>1. OnStack' = {stk[i] : i \in 1 .. Base(v) - 1}
      BY <2>2, <2>3 DEF OnStack
    <3>2. \A i \in 1 .. Base(v) - 1 : i \in 1 .. Len(stk) /\ i < Base(v)
      BY <2>2, <2>3
    <3>3. \A i \in 1 .. Len(stk) : i < Base(v) => i \in 1 .. Base(v) - 1
      BY <2>2, <2>3
    <3>4. OnStack = {stk[i] : i \in 1 .. Len(stk)}
      BY <2>3 DEF OnStack
    <3> QED BY <2>4, <3>1, <3>2, <3>3, <3>4
  <2>6. Above(v) = {u \in OnStack : num[v] <= num[u]}
    <3>1. \A i \in Base(v) .. Len(stk) : i \in 1 .. Len(stk) /\ i >= Base(v)
      BY <2>2, <2>3
    <3>2. \A i \in 1 .. Len(stk) : i >= Base(v) => i \in Base(v) .. Len(stk)
      BY <2>2, <2>3
    <3>3. OnStack = {stk[i] : i \in 1 .. Len(stk)}
      BY <2>3 DEF OnStack
    <3> QED BY <2>4, <3>1, <3>2, <3>3 DEF Above
  <2>7. DOMAIN stk' \subseteq DOMAIN stk /\ \A i \in DOMAIN stk' : stk'[i] = stk[i]
    BY <2>2, <2>3
  <2> HIDE DEF v
  <2> QED BY <1>1, <1>2, <1>3, <1>4, <1>5, <1>7, <2>1, <2>5, <2>6, <2>7 DEF v
<1> QED BY <1>6, <1>7

LEMMA LeaveNumbers ==
  ASSUME CycleTypeOK, NumbersOK, Leave
  PROVE  NumbersOK'
<1>1. CycleTypeOK'
  BY LeaveTypes, LeaveEffects
<1>2. \A t \in Types : low'[t] <= num'[t]
  <2>1. \A t \in Types : low'[t] \in Nat /\ low[t] \in Nat /\ num[t] \in Nat /\ num'[t] = num[t]
    BY <1>1, TableTypes, LeaveEffects DEF CycleTypeOK
  <2>2. \A t \in Types : low'[t] <= low[t]
    BY LeaveEffects
  <2>3. \A t \in Types : low[t] <= num[t]
    BY DEF NumbersOK
  <2> QED BY <2>1, <2>2, <2>3
<1>3. DOMAIN stk' \subseteq DOMAIN stk /\ \A i \in DOMAIN stk' : stk'[i] = stk[i]
  BY LeaveEffects
<1>4. \A i, j \in DOMAIN stk' : i < j => num'[stk'[i]] < num'[stk'[j]]
  BY <1>3, LeaveEffects DEF NumbersOK
<1>5. \A i, j \in DOMAIN path' : i < j => num'[path'[i]] < num'[path'[j]]
  <2>1. \A i \in DOMAIN path' : i \in DOMAIN path /\ path'[i] = path[i]
    BY LeaveEffects
  <2> QED BY <2>1, LeaveEffects DEF NumbersOK
<1>6. ASSUME NEW i \in DOMAIN path'
      PROVE  path'[i] \in OnStack' /\ num'[path'[1]] <= low'[path'[i]]
  <2>1. /\ i \in 1 .. Len(path) - 1 /\ path'[i] = path[i] /\ path'[1] = path[1]
        /\ path[i] \in Types /\ i \in DOMAIN path /\ i < Len(path) /\ Len(path) \in DOMAIN path
    BY LeaveEffects
  <2>2. path[i] \in OnStack /\ num[path[i]] < num[Caller]
    BY <2>1, LeaveEffects DEF NumbersOK
  <2>3. path'[i] \in OnStack'
    BY <2>1, <2>2, LeaveEffects
  <2>4. num[path[1]] <= low[path[i]] /\ num[path[1]] <= low[Caller]
    BY <2>1, LeaveEffects DEF NumbersOK
  <2> QED BY <2>1, <2>3, <2>4, LeaveEffects
<1>7. ASSUME NEW i \in DOMAIN stk'
      PROVE  path' # <<>> /\ num'[stk'[i]] # 0 /\ num'[path'[1]] <= num'[stk'[i]]
  <2>1. i \in DOMAIN stk /\ stk'[i] = stk[i] /\ stk[i] \in Types
    BY <1>3, TableTypes
  <2>2. num[stk[i]] # 0 /\ num[path[1]] <= num[stk[i]]
    BY <2>1 DEF NumbersOK
  <2>3. CASE Len(path) = 1
    <3>1. path[1] = Caller /\ 1 \in DOMAIN path
      BY <2>3, LeaveEffects
    <3>2. num[Caller] <= low[Caller] /\ low[Caller] <= num[Caller]
      BY <3>1, LeaveEffects DEF NumbersOK
    <3>3. Completes
      BY <3>2, LeaveEffects, TableTypes DEF Completes
    <3>4. stk'[i] \in OnStack'
      BY DEF OnStack
    <3>5. num[stk[i]] < num[Caller]
      BY <2>1, <3>3, <3>4, LeaveEffects
    <3> QED BY <2>1, <2>2, <3>1, <3>5, TableTypes, LeaveEffects
  <2>4. CASE Len(path) # 1
    <3>1. path'[1] = path[1] /\ path' # <<>>
      BY <2>4, LeaveEffects
    <3> QED BY <2>1, <2>2, <3>1, LeaveEffects
  <2> QED BY <2>3, <2>4
<1> QED BY <1>2, <1>4, <1>5, <1>6, <1>7 DEF NumbersOK

-----------------------------------------------------------------------------
(* Visited types are on the stack or in a component; what is in a          *)
(* component only leads to components.                                     *)

Settled == UNION sccs

VisitedOK ==
  /\ \A t \in Types : num[t] # 0 <=> t \in OnStack \/ t \in Settled
  /\ \A t \in Settled : t \notin OnStack
  /\ \A t \in Types : t \notin Calls => todo[t] = {}
  /\ \A t \in Types : num[t] # 0 => \A w \in Adj[t] \ todo[t] : num[w] # 0
  /\ \A t \in Settled : Adj[t] \subseteq Settled

LEMMA EnterVisited ==
  ASSUME CycleTypeOK, NumbersOK, VisitedOK, NEW v \in Types, num[v] = 0,
         NEW rest \in [Types -> SUBSET Types], Enter(v, rest),
         \A t \in Types : todo[t] \ {v} \subseteq rest[t],
         \A t \in Types : t \notin Calls => rest[t] = {}
  PROVE  VisitedOK'
<1>1. Adj \in [Types -> SUBSET Types]
  BY AdjType DEF Adj
<1>2. \A t \in Types : num'[t] # 0 <=> num[t] # 0 \/ t = v
  <2>1. counter # 0
    BY DEF CycleTypeOK
  <2>2. \A t \in Types : num'[t] = IF t = v THEN counter ELSE num[t]
    BY EnterEffects
  <2> QED BY <2>1, <2>2
<1>3. Settled' = Settled /\ Settled \subseteq Types
  <2>1. sccs' = sccs
    BY EnterEffects
  <2>2. sccs \subseteq SUBSET Types
    BY DEF CycleTypeOK
  <2> QED BY <2>1, <2>2 DEF Settled
<1>4. v \notin Settled
  BY DEF VisitedOK
<1>5. \A t \in Types : t \notin Calls' => t \notin Calls /\ t # v
  <2>1. v \in Calls'
    BY EnterEffects, TableTypes DEF Calls
  <2>2. Calls \subseteq Calls'
    <3> SUFFICES ASSUME NEW i \in DOMAIN path PROVE path[i] \in Calls'
      BY DEF Calls
    <3>1. i \in 1 .. Len(path) /\ i \in DOMAIN path' /\ path'[i] = path[i]
      BY EnterEffects, TableTypes
    <3> QED BY <3>1 DEF Calls
  <2> QED BY <2>1, <2>2
<1>6. \A t \in Types : num'[t] # 0 <=> t \in OnStack' \/ t \in Settled'
  BY <1>2, <1>3, EnterEffects DEF VisitedOK
<1>7. \A t \in Settled' : t \notin OnStack'
  BY <1>3, <1>4, EnterEffects DEF VisitedOK
<1>8. \A t \in Types : t \notin Calls' => todo'[t] = {}
  BY <1>5, EnterEffects
<1>9. ASSUME NEW t \in Types, num'[t] # 0, NEW w \in Adj'[t] \ todo'[t]
      PROVE  num'[w] # 0
  <2>1. w \in Types /\ t # v /\ w \in Adj[t] /\ w \notin rest[t]
    BY <1>1, <1>9, EnterEffects
  <2>2. w = v \/ w \notin todo[t]
    BY <2>1
  <2> QED BY <1>2, <1>9, <2>1, <2>2 DEF VisitedOK
<1>10. \A t \in Settled' : Adj'[t] \subseteq Settled'
  BY <1>3, EnterEffects DEF VisitedOK
<1> QED BY <1>6, <1>7, <1>8, <1>9, <1>10 DEF VisitedOK

LEMMA LookBackVisited ==
  ASSUME CycleTypeOK, NumbersOK, VisitedOK, NEW w \in Types, LookBack(w)
  PROVE  VisitedOK'
<1>1. Settled' = Settled
  BY LookBackEffects DEF Settled
<1>2. ASSUME NEW t \in Types, t \notin Calls'
      PROVE  todo'[t] = {}
  BY <1>2, LookBackEffects DEF VisitedOK
<1>3. ASSUME NEW t \in Types, num'[t] # 0, NEW u \in Adj'[t] \ todo'[t]
      PROVE  num'[u] # 0
  <2>1. u \in Adj[t] /\ (u \notin todo[t] \/ u = w)
    BY ZenonT(30), <1>3, LookBackEffects
  <2> QED BY <1>3, <2>1, LookBackEffects DEF VisitedOK
<1> QED BY <1>1, <1>2, <1>3, LookBackEffects DEF VisitedOK

\* A type the stack has from the call that returns on was looked at to the end.
LowOK ==
  \A i \in DOMAIN path, x \in Types : \A w \in Adj[x] \ todo[x] :
    /\ x \in OnStack /\ w \in OnStack /\ num[path[i]] <= num[x]
    /\ i < Len(path) => num[x] < num[path[i + 1]]
    => low[path[i]] <= num[w]

LEMMA AboveIsThrough ==
  ASSUME CycleTypeOK, NumbersOK, VisitedOK, Leave, NEW x \in OnStack, num[Caller] <= num[x]
  PROVE  x \in Types /\ todo[x] = {}
<1>1. x \in Types /\ Caller \in Types
  BY LeaveEffects
<1>2. CASE x \in Calls
  <2>1. PICK i \in DOMAIN path : x = path[i]
    BY <1>2 DEF Calls
  <2>2. i \in 1 .. Len(path) /\ Len(path) \in DOMAIN path /\ path[Len(path)] = Caller
    BY LeaveEffects
  <2>3. i < Len(path) => num[x] < num[Caller]
    BY <2>1, <2>2 DEF NumbersOK
  <2>4. i = Len(path)
    BY <1>1, <2>2, <2>3, TableTypes
  <2> QED BY <1>1, <2>1, <2>2, <2>4, LeaveEffects
<1>3. CASE x \notin Calls
  BY <1>1, <1>3 DEF VisitedOK
<1> QED BY <1>2, <1>3

\* A component leads to itself and to earlier ones.
LEMMA ComponentIsClosed ==
  ASSUME CycleTypeOK, NumbersOK, VisitedOK, LowOK, Leave, Completes,
         NEW x \in Above(Caller), NEW w \in Adj[x]
  PROVE  w \in Settled \/ w \in Above(Caller)
<1>1. x \in OnStack /\ num[Caller] <= num[x]
  BY LeaveEffects
<1>2. x \in Types /\ todo[x] = {}
  BY <1>1, AboveIsThrough
<1>3. w \in Types
  BY <1>2, AdjType DEF Adj
<1>4. num[x] # 0
  BY <1>1, <1>2 DEF VisitedOK
<1>5. num[w] # 0
  BY <1>2, <1>4 DEF VisitedOK
<1>6. CASE w \in OnStack
  <2>1. Len(path) \in DOMAIN path /\ path[Len(path)] = Caller /\ Len(path) \in Nat
    BY LeaveEffects
  <2>2. low[Caller] <= num[w]
    BY <1>1, <1>2, <1>6, <2>1 DEF LowOK
  <2> QED BY <1>6, <2>2, LeaveEffects DEF Completes
<1> QED BY <1>3, <1>5, <1>6 DEF VisitedOK

LEMMA LeaveVisited ==
  ASSUME CycleTypeOK, NumbersOK, VisitedOK, LowOK, Leave
  PROVE  VisitedOK'
<1>1. \A t \in Types : t \notin Calls' => todo'[t] = {}
  <2> SUFFICES ASSUME NEW t \in Types, t \notin Calls' PROVE todo'[t] = {}
    OBVIOUS
  <2>1. CASE t = Caller
    BY <2>1, LeaveEffects
  <2>2. CASE t # Caller
    <3>1. t \notin Calls
      <4> SUFFICES ASSUME NEW i \in DOMAIN path, t = path[i] PROVE FALSE
        BY DEF Calls
      <4>1. i \in 1 .. Len(path) - 1
        BY <2>2, LeaveEffects
      <4>2. i \in DOMAIN path' /\ path'[i] = t
        BY <4>1, LeaveEffects
      <4> QED BY <4>2 DEF Calls
    <3> QED BY <3>1, LeaveEffects DEF VisitedOK
  <2> QED BY <2>1, <2>2
<1>2. CASE ~Completes
  <2>1. Settled' = Settled
    BY <1>2, LeaveEffects DEF Settled
  <2> QED BY <1>1, <1>2, <2>1, LeaveEffects DEF VisitedOK
<1>3. CASE Completes
  <2>1. Settled' = Settled \cup Above(Caller)
    BY <1>3, LeaveEffects DEF Settled
  <2>2. /\ OnStack' = {u \in OnStack : num[u] < num[Caller]} /\ OnStack \subseteq Types
        /\ Above(Caller) = {u \in OnStack : num[Caller] <= num[u]} /\ Caller \in Types
    BY <1>3, LeaveEffects
  <2>3. \A u \in OnStack : num[u] < num[Caller] <=> ~(num[Caller] <= num[u])
    BY <2>2, TableTypes
  <2>4. \A t \in Types : num'[t] # 0 <=> t \in OnStack' \/ t \in Settled'
    BY <2>1, <2>2, <2>3, LeaveEffects DEF VisitedOK
  <2>5. \A t \in Settled' : t \notin OnStack'
    BY <2>1, <2>2, <2>3 DEF VisitedOK
  <2>6. \A t \in Settled' : Adj'[t] \subseteq Settled'
    BY <1>3, <2>1, ComponentIsClosed, LeaveEffects DEF VisitedOK
  <2> QED BY <1>1, <2>4, <2>5, <2>6, LeaveEffects DEF VisitedOK
<1> QED BY <1>2, <1>3

LEMMA LowStated ==
  ASSUME LowOK, NEW i \in DOMAIN path, NEW x \in Types, NEW w \in Adj[x] \ todo[x],
         x \in OnStack, w \in OnStack, num[path[i]] <= num[x],
         i < Len(path) => num[x] < num[path[i + 1]]
  PROVE  low[path[i]] <= num[w]
BY DEF LowOK

LEMMA EnterLow ==
  ASSUME CycleTypeOK, NumbersOK, VisitedOK, LowOK, NEW v \in Types, num[v] = 0,
         NEW rest \in [Types -> SUBSET Types], Enter(v, rest),
         \A t \in Types : todo[t] \ {v} \subseteq rest[t]
  PROVE  LowOK'
<1> SUFFICES ASSUME NEW i \in 1 .. Len(path) + 1, NEW x \in Types, NEW w \in Adj[x] \ todo'[x],
                    x \in OnStack', w \in OnStack', num'[path'[i]] <= num'[x],
                    i < Len(path) + 1 => num'[x] < num'[path'[i + 1]]
             PROVE  low'[path'[i]] <= num'[w]
  <2>1. DOMAIN path' = 1 .. Len(path) + 1 /\ Len(path') = Len(path) + 1 /\ Adj' = Adj
    BY EnterEffects
  <2> QED BY <2>1 DEF LowOK
<1>1. x # v /\ w \in Adj[x] \ rest[x]
  BY EnterEffects
<1>2. /\ num'[x] = num[x] /\ num[x] < counter /\ num'[v] = counter /\ low'[v] = counter
      /\ counter \in Nat /\ num[x] \in Nat
  BY <1>1, EnterEffects, TableTypes
<1>3. i \in 1 .. Len(path)
  <2>1. i = Len(path) + 1 => num'[path'[i]] = counter
    BY <1>2, EnterEffects
  <2> QED BY <1>2, <2>1, TableTypes
<1>4. path[i] \in Types /\ path'[i] = path[i] /\ path[i] \in OnStack /\ i \in DOMAIN path
  BY <1>3, EnterEffects, TableTypes DEF NumbersOK
<1>5. path[i] # v
  BY <1>4 DEF VisitedOK
<1>6. low'[path'[i]] = low[path[i]] /\ num'[path'[i]] = num[path[i]] /\ low[path[i]] < counter
  BY <1>4, <1>5, EnterEffects, TableTypes
<1>7. CASE w = v
  BY <1>2, <1>4, <1>6, <1>7, TableTypes
<1>8. CASE w # v
  <2>1. w \in Types /\ w \in OnStack /\ x \in OnStack
    <3>1. w \in Types
      BY <1>1, AdjType DEF Adj
    <3> QED BY <1>1, <1>8, <3>1, EnterEffects
  <2>2. w \in Adj[x] \ todo[x]
    BY <1>1, <1>8
  <2>3. num'[w] = num[w]
    BY <1>8, <2>1, EnterEffects
  <2>4. i < Len(path) => num[x] < num[path[i + 1]]
    <3> SUFFICES ASSUME i < Len(path) PROVE num[x] < num[path[i + 1]]
      OBVIOUS
    <3>1. i + 1 \in 1 .. Len(path) /\ i < Len(path) + 1
      BY <1>3, TableTypes
    <3>2. /\ path'[i + 1] = path[i + 1] /\ path[i + 1] \in Types /\ path[i + 1] \in OnStack
      BY <3>1, EnterEffects, TableTypes DEF NumbersOK
    <3>3. path[i + 1] # v
      BY <3>2 DEF VisitedOK
    <3> QED BY <1>2, <3>1, <3>2, <3>3, EnterEffects
  <2>5. num[path[i]] <= num[x]
    BY <1>2, <1>6
  <2>6. low[path[i]] <= num[w]
    BY <1>4, <2>1, <2>2, <2>4, <2>5, LowStated
  <2> QED BY <1>6, <2>3, <2>6
<1> QED BY <1>7, <1>8

LEMMA LookBackLow ==
  ASSUME CycleTypeOK, NumbersOK, LowOK, NEW u \in Types, LookBack(u)
  PROVE  LowOK'
<1> SUFFICES ASSUME NEW i \in DOMAIN path, NEW x \in Types, NEW w \in Adj[x] \ todo'[x],
                    x \in OnStack, w \in OnStack, num[path[i]] <= num[x],
                    i < Len(path) => num[x] < num[path[i + 1]]
             PROVE  low'[path[i]] <= num[w]
  BY LookBackEffects DEF LowOK
<1>1. CycleTypeOK'
  BY LookBackTypes
<1>2. path[i] \in Types /\ low'[path[i]] \in Nat /\ low[path[i]] \in Nat /\ num[w] \in Nat
  <2>1. path[i] \in Types /\ w \in Types
    BY TableTypes, AdjType DEF Adj
  <2> QED BY <1>1, <2>1, TableTypes DEF CycleTypeOK
<1>3. CASE w \notin todo[x]
  <2>1. low[path[i]] <= num[w]
    BY <1>3, LowStated
  <2>2. low'[path[i]] <= low[path[i]]
    BY <1>2, LookBackEffects
  <2> QED BY <1>2, <2>1, <2>2
<1>4. CASE w \in todo[x]
  <2>1. x = Caller /\ w = u
    <3>1. todo'[x] = IF x = Caller THEN todo[x] \ {u} ELSE todo[x]
      BY LookBackEffects
    <3> QED BY <1>4, <3>1
  <2>2. i = Len(path)
    <3>1. Len(path) \in DOMAIN path /\ path[Len(path)] = Caller /\ DOMAIN path = 1 .. Len(path)
      BY LookBackEffects, TableTypes
    <3>2. CASE i < Len(path)
      <4>1. i + 1 \in DOMAIN path /\ (i + 1 < Len(path) \/ i + 1 = Len(path))
        BY <3>1, <3>2, TableTypes
      <4>2. num[path[i + 1]] <= num[Caller]
        <5>1. num[path[i + 1]] \in Nat /\ num[Caller] \in Nat
          BY <3>1, <4>1, TableTypes
        <5>2. CASE i + 1 < Len(path)
          <6>1. num[path[i + 1]] < num[path[Len(path)]]
            BY <3>1, <4>1, <5>2 DEF NumbersOK
          <6> QED BY <3>1, <5>1, <6>1
        <5>3. CASE i + 1 = Len(path)
          BY <3>1, <5>1, <5>3
        <5> QED BY <4>1, <5>2, <5>3
      <4> QED BY <2>1, <3>1, <3>2, <4>1, <4>2, TableTypes
    <3> QED BY <3>1, <3>2, TableTypes
  <2> QED BY <2>1, <2>2, LookBackEffects
<1> QED BY <1>3, <1>4

LEMMA LeaveLow ==
  ASSUME CycleTypeOK, NumbersOK, LowOK, Leave
  PROVE  LowOK'
<1> DEFINE n == Len(path)
<1> SUFFICES ASSUME NEW i \in 1 .. n - 1, NEW x \in Types, NEW w \in Adj[x] \ todo[x],
                    x \in OnStack', w \in OnStack', num[path[i]] <= num[x],
                    i < n - 1 => num[x] < num[path[i + 1]]
             PROVE  low'[path[i]] <= num[w]
  <2>1. \A j \in 1 .. n - 1 : j < n - 1 => path'[j + 1] = path[j + 1]
    <3> SUFFICES ASSUME NEW j \in 1 .. n - 1, j < n - 1 PROVE path'[j + 1] = path[j + 1]
      OBVIOUS
    <3>1. j + 1 \in 1 .. n - 1
      BY LeaveEffects
    <3> QED BY <3>1, LeaveEffects
  <2> QED BY SMTT(30), <2>1, LeaveEffects DEF LowOK
<1>1. CycleTypeOK'
  BY LeaveTypes, LeaveEffects
<1>2. x \in OnStack /\ w \in OnStack /\ w \in Types
  <2>1. OnStack' \subseteq OnStack
    BY LeaveEffects
  <2> QED BY <2>1, LeaveEffects
<1>3. /\ n \in Nat \ {0} /\ i \in DOMAIN path /\ n \in DOMAIN path /\ path[n] = Caller
      /\ path[i] \in Types /\ Caller \in Types /\ i \in Nat
  BY LeaveEffects
<1>4. /\ low'[path[i]] \in Nat /\ low[path[i]] \in Nat /\ num[w] \in Nat /\ low[Caller] \in Nat
      /\ num[x] \in Nat /\ num[Caller] \in Nat
  BY <1>1, <1>2, <1>3, TableTypes DEF CycleTypeOK
<1>5. low'[path[i]] <= low[path[i]]
  BY <1>3, LeaveEffects
<1>6. CASE i < n - 1 \/ num[x] < num[Caller]
  <2>1. i < n => num[x] < num[path[i + 1]]
    <3>1. CASE i < n - 1
      BY <3>1
    <3>2. CASE i = n - 1
      <4>1. i + 1 = n
        BY <1>3, <3>2
      <4> QED BY <1>3, <1>6, <3>2, <4>1
    <3> QED BY <1>3, <3>1, <3>2
  <2>2. low[path[i]] <= num[w]
    BY <1>2, <1>3, <2>1, LowStated
  <2> QED BY <1>4, <1>5, <2>2
<1>7. CASE i = n - 1 /\ num[Caller] <= num[x]
  <2>1. low[Caller] <= num[w]
    <3>1. n < Len(path) => num[x] < num[path[n + 1]]
      BY <1>3
    <3>2. low[path[n]] <= num[w]
      BY <1>2, <1>3, <1>7, <3>1, LowStated
    <3> QED BY <1>3, <3>2
  <2>2. low'[path[i]] <= low[Caller]
    BY <1>3, <1>7, LeaveEffects
  <2> QED BY <1>4, <2>1, <2>2
<1> QED BY <1>3, <1>4, <1>6, <1>7

-----------------------------------------------------------------------------
(* Closures.                                                               *)

LEMMA ClosureKeeps ==
  ASSUME NEW all, NEW start, start \subseteq all, NEW next
  PROVE  /\ start \subseteq Closure(all, start, next)
         /\ Closure(all, start, next) \subseteq all
BY DEF Closure

LEMMA ClosureFollows ==
  ASSUME NEW all, NEW start, NEW next, NEW v \in Closure(all, start, next), next[v] \subseteq all
  PROVE  next[v] \subseteq Closure(all, start, next)
BY DEF Closure

LEMMA ClosureIsLeast ==
  ASSUME NEW all, NEW start, NEW next, NEW D \in SUBSET all,
         start \subseteq D, \A v \in D : next[v] \subseteq D
  PROVE  Closure(all, start, next) \subseteq D
BY DEF Closure

LEMMA ClosureGrows ==
  ASSUME NEW all, NEW start, start \subseteq all, NEW next, NEW more,
         \A v \in all : next[v] \subseteq all /\ more[v] \subseteq all,
         NEW first, first \subseteq Closure(all, start, next),
         \A v \in Closure(all, start, next) : more[v] \subseteq next[v]
  PROVE  Closure(all, first, more) \subseteq Closure(all, start, next)
<1> DEFINE D == Closure(all, start, next)
<1>1. D \in SUBSET all
  BY ClosureKeeps
<1>2. \A v \in D : next[v] \subseteq D
  BY <1>1, ClosureFollows
<1> HIDE DEF D
<1>3. \A v \in D : more[v] \subseteq D
  BY <1>2 DEF D
<1> QED BY <1>1, <1>3, ClosureIsLeast DEF D

-----------------------------------------------------------------------------
(* The components are the classes of types that lead to each other.        *)

LeadsTo(t) == Closure(Types, {t}, Adj)

LEMMA LeadsToType ==
  ASSUME CycleTypeOK, NEW t \in Types
  PROVE  t \in LeadsTo(t) /\ LeadsTo(t) \subseteq Types
BY ClosureKeeps DEF LeadsTo

LEMMA LeadsOn ==
  ASSUME CycleTypeOK, NEW t \in Types, NEW u \in LeadsTo(t), NEW w \in Adj[u]
  PROVE  w \in LeadsTo(t)
<1>1. Adj[u] \subseteq Types
  BY LeadsToType, AdjType DEF Adj
<1> QED BY <1>1, ClosureFollows DEF LeadsTo

LEMMA LeadsFurther ==
  ASSUME CycleTypeOK, NEW t \in Types, NEW u \in LeadsTo(t)
  PROVE  LeadsTo(u) \subseteq LeadsTo(t)
<1>1. \A v \in Types : Adj[v] \subseteq Types
  BY AdjType DEF Adj
<1>2. {u} \subseteq Closure(Types, {t}, Adj)
  BY DEF LeadsTo
<1> QED BY <1>1, <1>2, ClosureGrows DEF LeadsTo

LEMMA LeadsWithin ==
  ASSUME CycleTypeOK, NEW D \in SUBSET Types, \A v \in D : Adj[v] \subseteq D, NEW t \in D
  PROVE  LeadsTo(t) \subseteq D
BY ClosureIsLeast DEF LeadsTo

Separated ==
  \A c \in sccs : \A t \in c : \A u \in LeadsTo(t) : t \in LeadsTo(u) => u \in c

LEMMA LeaveSeparated ==
  ASSUME CycleTypeOK, NumbersOK, VisitedOK, LowOK, Separated, Leave
  PROVE  Separated'
<1>1. \A t : LeadsTo(t)' = LeadsTo(t)
  BY LeaveEffects DEF LeadsTo
<1>2. CASE ~Completes
  BY <1>1, <1>2, LeaveEffects DEF Separated
<1>3. CASE Completes
  <2> DEFINE D == Settled \cup Above(Caller)
  <2>1. Settled \subseteq Types /\ Above(Caller) \subseteq Types
    BY <1>3, LeaveEffects DEF Settled, CycleTypeOK
  <2>2. \A v \in D : Adj[v] \subseteq D
    BY <1>3, ComponentIsClosed DEF VisitedOK
  <2>3. \A v \in Settled : Adj[v] \subseteq Settled
    BY DEF VisitedOK
  <2>4. \A t \in Above(Caller) : t \notin Settled
    BY <1>3, LeaveEffects DEF VisitedOK
  <2>5. ASSUME NEW t \in Above(Caller), NEW u \in LeadsTo(t), t \in LeadsTo(u)
        PROVE  u \in Above(Caller)
    <3>1. u \in D
      <4>1. LeadsTo(t) \subseteq D
        <5>1. D \in SUBSET Types /\ t \in D
          BY <2>1
        <5> HIDE DEF D
        <5> QED BY <2>2, <5>1, LeadsWithin
      <4> QED BY <4>1, <2>5
    <3>2. CASE u \in Settled
      <4>1. LeadsTo(u) \subseteq Settled
        BY <2>1, <2>3, <3>2, LeadsWithin
      <4> QED BY <2>4, <2>5, <4>1
    <3> QED BY <3>1, <3>2
  <2>6. sccs' = sccs \cup {Above(Caller)}
    BY <1>3, LeaveEffects
  <2> QED BY <1>1, <2>5, <2>6 DEF Separated
<1> QED BY <1>2, <1>3

-----------------------------------------------------------------------------
(* The members of a component lead to each other.                          *)

\* A call leads to what the stack has from it on, and to the type its low is
\* the number of; what a finished call left on the stack leads further down.
Joined ==
  /\ \A t \in Types : todo[t] \subseteq Adj[t]
  /\ \A i \in DOMAIN path, x \in OnStack : num[path[i]] <= num[x] => x \in LeadsTo(path[i])
  /\ \A i \in DOMAIN path : \E y \in OnStack : num[y] = low[path[i]] /\ y \in LeadsTo(path[i])
  /\ \A x \in OnStack \ Calls : \E y \in OnStack : num[y] < num[x] /\ y \in LeadsTo(x)
  /\ \A c \in sccs : \A t, u \in c : u \in LeadsTo(t)

LEMMA EnterJoined ==
  ASSUME CycleTypeOK, NumbersOK, VisitedOK, Joined, NEW v \in Types, num[v] = 0,
         NEW rest \in [Types -> SUBSET Types], Enter(v, rest),
         \A t \in Types : rest[t] \subseteq todo[t],
         \A i \in DOMAIN path : v \in LeadsTo(path[i])
  PROVE  Joined'
<1>1. OnStack \subseteq Types /\ v \notin OnStack /\ OnStack' = OnStack \cup {v}
  <2>1. OnStack \subseteq Types /\ OnStack' \subseteq Types
    BY EnterTypes, TableTypes, EnterEffects DEF OnStack, CycleTypeOK
  <2> QED BY <2>1, EnterEffects DEF VisitedOK
<1>2. \A t : LeadsTo(t)' = LeadsTo(t)
  BY EnterEffects DEF LeadsTo
<1>3. \A x \in OnStack : num'[x] = num[x] /\ num[x] < counter /\ num[x] \in Nat
  BY <1>1, EnterEffects, TableTypes
<1>4. num'[v] = counter /\ low'[v] = counter /\ counter \in Nat
  BY EnterEffects, TableTypes
<1>5. /\ Len(path) \in Nat /\ DOMAIN path' = 1 .. Len(path) + 1 /\ path'[Len(path) + 1] = v
      /\ \A i \in 1 .. Len(path) : /\ path'[i] = path[i] /\ path[i] \in OnStack /\ i \in DOMAIN path
                                   /\ low'[path[i]] = low[path[i]]
  <2>1. \A i \in 1 .. Len(path) : path[i] \in OnStack /\ path[i] \in Types /\ i \in DOMAIN path
    BY TableTypes DEF NumbersOK
  <2> QED BY <1>1, <2>1, EnterEffects, TableTypes
<1>6. Calls' = Calls \cup {v}
  <2>1. Calls' = {path'[i] : i \in 1 .. Len(path) + 1}
    BY <1>5 DEF Calls
  <2>2. Calls = {path[i] : i \in 1 .. Len(path)}
    BY TableTypes DEF Calls
  <2>3. \A i \in 1 .. Len(path) + 1 : i \in 1 .. Len(path) \/ i = Len(path) + 1
    BY <1>5
  <2>4. \A i \in 1 .. Len(path) : i \in 1 .. Len(path) + 1
    BY <1>5
  <2>5. Len(path) + 1 \in 1 .. Len(path) + 1
    BY <1>5
  <2> QED BY <1>5, <2>1, <2>2, <2>3, <2>4, <2>5
<1>7. ASSUME NEW i \in 1 .. Len(path) + 1, NEW x \in OnStack', num'[path'[i]] <= num'[x]
      PROVE  x \in LeadsTo(path'[i])
  <2>1. CASE i = Len(path) + 1
    <3>1. x = v
      BY <1>1, <1>3, <1>4, <1>5, <1>7, <2>1
    <3> QED BY <1>5, <2>1, <3>1, LeadsToType
  <2>2. CASE i \in 1 .. Len(path)
    <3>1. CASE x = v
      BY <1>5, <2>2, <3>1
    <3>2. CASE x \in OnStack
      BY <1>3, <1>5, <1>7, <2>2, <3>2 DEF Joined
    <3> QED BY <1>1, <3>1, <3>2
  <2> QED BY <1>5, <2>1, <2>2
<1>8. ASSUME NEW i \in 1 .. Len(path) + 1
      PROVE  \E y \in OnStack' : num'[y] = low'[path'[i]] /\ y \in LeadsTo(path'[i])
  <2>1. CASE i = Len(path) + 1
    BY <1>1, <1>4, <1>5, <2>1, LeadsToType
  <2>2. CASE i \in 1 .. Len(path)
    <3>1. PICK y \in OnStack : num[y] = low[path[i]] /\ y \in LeadsTo(path[i])
      BY <1>5, <2>2 DEF Joined
    <3> QED BY <1>1, <1>3, <1>5, <2>2, <3>1
  <2> QED BY <1>5, <2>1, <2>2
<1>9. ASSUME NEW x \in OnStack' \ Calls'
      PROVE  \E y \in OnStack' : num'[y] < num'[x] /\ y \in LeadsTo(x)
  <2>1. x \in OnStack \ Calls
    BY <1>1, <1>6
  <2>2. PICK y \in OnStack : num[y] < num[x] /\ y \in LeadsTo(x)
    BY <2>1 DEF Joined
  <2> QED BY <1>1, <1>3, <2>1, <2>2
<1>10. \A c \in sccs' : \A t, u \in c : u \in LeadsTo(t)
  BY EnterEffects DEF Joined
<1>11. \A t \in Types : todo'[t] \subseteq Adj'[t]
  BY EnterEffects DEF Joined
<1> QED BY <1>2, <1>5, <1>7, <1>8, <1>9, <1>10, <1>11 DEF Joined

LEMMA CallerLeadsOn ==
  ASSUME CycleTypeOK, NumbersOK, Joined, path # <<>>, NEW w \in Adj[Caller],
         NEW i \in DOMAIN path
  PROVE  w \in LeadsTo(path[i])
<1>1. Len(path) \in DOMAIN path /\ path[Len(path)] = Caller /\ path[i] \in Types
  BY CallerIsType, TableTypes DEF Caller
<1>2. Caller \in OnStack /\ Caller \in Types
  BY <1>1, CallerIsType DEF NumbersOK
<1>3. num[path[i]] <= num[Caller]
  <2>1. i < Len(path) \/ i = Len(path)
    BY <1>1, TableTypes
  <2>2. CASE i < Len(path)
    BY <1>1, <1>2, <2>2, TableTypes DEF NumbersOK
  <2>3. CASE i = Len(path)
    BY <1>1, <1>2, <2>3, TableTypes
  <2> QED BY <2>1, <2>2, <2>3
<1>4. Caller \in LeadsTo(path[i])
  BY <1>2, <1>3 DEF Joined
<1> QED BY <1>1, <1>4, LeadsOn

LEMMA LookBackJoined ==
  ASSUME CycleTypeOK, NumbersOK, Joined, NEW w \in Types, LookBack(w)
  PROVE  Joined'
<1>1. \A t : LeadsTo(t)' = LeadsTo(t)
  BY LookBackEffects DEF LeadsTo
<1>2. ASSUME NEW i \in DOMAIN path
      PROVE  \E y \in OnStack : num[y] = low'[path[i]] /\ y \in LeadsTo(path[i])
  <2>1. path[i] \in Types
    BY TableTypes
  <2>2. CASE low'[path[i]] = low[path[i]]
    BY <2>2 DEF Joined
  <2>3. CASE path[i] = Caller /\ w \in OnStack /\ low'[path[i]] = num[w]
    <3>1. w \in Adj[Caller]
      BY LookBackEffects DEF Joined
    <3> QED BY <2>3, <3>1, CallerLeadsOn
  <2> QED BY <2>1, <2>2, <2>3, LookBackEffects
<1>3. \A t \in Types : todo'[t] \subseteq Adj'[t]
  <2>1. \A t \in Types : todo'[t] \subseteq todo[t]
    BY LookBackEffects
  <2>2. Adj' = Adj
    BY LookBackEffects
  <2>3. \A t \in Types : todo[t] \subseteq Adj[t]
    BY DEF Joined
  <2> QED BY <2>1, <2>2, <2>3
<1> QED BY <1>1, <1>2, <1>3, LookBackEffects DEF Joined

\* A call that returns is no call any more, and nothing else changes that.
LEMMA CallsShrink ==
  ASSUME CycleTypeOK, NumbersOK, Leave
  PROVE  Calls \subseteq Calls' \cup {Caller}
<1> SUFFICES ASSUME NEW i \in DOMAIN path, path[i] # Caller PROVE path[i] \in Calls'
  BY DEF Calls
<1>1. i \in 1 .. Len(path) - 1
  BY LeaveEffects
<1>2. i \in DOMAIN path' /\ path'[i] = path[i]
  BY <1>1, LeaveEffects
<1> QED BY <1>2 DEF Calls

\* What a call completes leads back to it.
LEMMA ComponentLeadsBack ==
  ASSUME CycleTypeOK, NumbersOK, VisitedOK, LowOK, Joined, Leave, Completes,
         NEW x \in Above(Caller)
  PROVE  Caller \in LeadsTo(x)
<1>1. /\ Above(Caller) = {u \in OnStack : num[Caller] <= num[u]} /\ OnStack \subseteq Types
      /\ Caller \in Types
  BY LeaveEffects
<1> DEFINE astray == {num[u] : u \in {z \in Above(Caller) : Caller \notin LeadsTo(z)}}
<1>2. SUFFICES ASSUME astray # {} PROVE FALSE
  OBVIOUS
<1>3. astray \subseteq Nat
  BY <1>1, TableTypes
<1> HIDE DEF astray
<1>4. PICK k \in astray : \A m \in astray : k <= m
  BY <1>2, <1>3, LeastExists
<1>5. PICK u \in Above(Caller) : k = num[u] /\ Caller \notin LeadsTo(u)
  BY <1>4 DEF astray
<1>6. u \in OnStack /\ u \in Types /\ num[Caller] <= num[u] /\ u # Caller
  BY <1>1, <1>5, LeadsToType
<1>7. u \notin Calls
  <2> SUFFICES ASSUME NEW i \in DOMAIN path, u = path[i] PROVE FALSE
    BY DEF Calls
  <2>1. i \in 1 .. Len(path) /\ Len(path) \in DOMAIN path /\ path[Len(path)] = Caller
    BY LeaveEffects
  <2>2. i < Len(path)
    BY <1>6, <2>1, TableTypes
  <2>3. num[u] < num[Caller]
    BY <2>1, <2>2 DEF NumbersOK
  <2> QED BY <1>1, <1>6, <2>3, TableTypes
<1>8. PICK y \in OnStack : num[y] < num[u] /\ y \in LeadsTo(u)
  BY <1>6, <1>7 DEF Joined
<1>9. y \in Above(Caller)
  <2> DEFINE D == Settled \cup Above(Caller)
  <2>1. D \in SUBSET Types /\ u \in D
    BY <1>1, <1>5 DEF Settled, CycleTypeOK
  <2>2. \A v \in D : Adj[v] \subseteq D
    BY ComponentIsClosed DEF VisitedOK
  <2>3. y \notin Settled
    BY <1>8 DEF VisitedOK
  <2>4. y \in D
    <3> HIDE DEF D
    <3> QED BY <1>8, <2>1, <2>2, LeadsWithin
  <2> QED BY <2>3, <2>4
<1>10. Caller \in LeadsTo(y)
  <2>1. ASSUME Caller \notin LeadsTo(y) PROVE num[y] \in astray
    BY <1>9, <2>1 DEF astray
  <2>2. num[y] \in Nat /\ num[u] \in Nat
    BY <1>1, <1>6, <1>8, TableTypes
  <2> QED BY <1>4, <1>5, <1>8, <2>1, <2>2
<1>11. LeadsTo(y) \subseteq LeadsTo(u)
  BY <1>6, <1>8, LeadsFurther
<1> QED BY <1>5, <1>10, <1>11

LEMMA LeaveJoined ==
  ASSUME CycleTypeOK, NumbersOK, VisitedOK, LowOK, Joined, Leave
  PROVE  Joined'
<1> DEFINE n == Len(path)
<1>1. \A t : LeadsTo(t)' = LeadsTo(t)
  BY LeaveEffects DEF LeadsTo
<1>2. /\ n \in DOMAIN path /\ path[n] = Caller /\ Caller \in Types /\ Caller \in OnStack
      /\ OnStack \subseteq Types /\ num' = num
      /\ \A i \in DOMAIN path' : /\ i \in DOMAIN path /\ path'[i] = path[i] /\ path[i] \in Types
                               /\ i < n /\ num[path[i]] < num[Caller]
  <2>1. /\ n \in DOMAIN path /\ path[n] = Caller /\ Caller \in Types /\ Caller \in OnStack
        /\ OnStack \subseteq Types /\ num' = num
        /\ \A i \in DOMAIN path' : i \in DOMAIN path /\ path'[i] = path[i] /\ path[i] \in Types /\ i < n
    BY LeaveEffects
  <2> QED BY <2>1 DEF NumbersOK
<1>3. OnStack' \subseteq OnStack
  BY LeaveEffects
<1>4. \A t \in Types : todo'[t] \subseteq Adj'[t]
  BY LeaveEffects DEF Joined
<1>5. \A i \in DOMAIN path', x \in OnStack' : num'[path'[i]] <= num'[x] => x \in LeadsTo(path'[i])
  BY <1>2, <1>3 DEF Joined
<1>6. ASSUME NEW x \in OnStack' \ Calls', x # Caller
      PROVE  \E y \in OnStack : num[y] < num[x] /\ y \in LeadsTo(x)
  BY <1>3, <1>6, CallsShrink DEF Joined
<1>7. CASE Completes
  <2>1. /\ sccs' = sccs \cup {Above(Caller)}
        /\ OnStack' = {u \in OnStack : num[u] < num[Caller]}
        /\ Above(Caller) = {u \in OnStack : num[Caller] <= num[u]}
    BY <1>7, LeaveEffects
  <2>2. ASSUME NEW i \in DOMAIN path'
        PROVE  \E y \in OnStack' : num[y] = low'[path[i]] /\ y \in LeadsTo(path[i])
    <3>1. path[i] \in Types /\ i \in DOMAIN path /\ num[path[i]] < num[Caller]
      BY <1>2
    <3>2. low[path[i]] <= num[path[i]] /\ low[Caller] = num[Caller]
      BY <1>7, <3>1 DEF NumbersOK, Completes
    <3>3. /\ low'[path[i]] <= low[path[i]]
          /\ low'[path[i]] = low[path[i]] \/ low'[path[i]] = low[Caller]
      BY <3>1, LeaveEffects
    <3>4. low[path[i]] < num[Caller] /\ low'[path[i]] = low[path[i]]
      BY <1>2, <3>1, <3>2, <3>3, TableTypes
    <3>5. PICK y \in OnStack : num[y] = low[path[i]] /\ y \in LeadsTo(path[i])
      BY <3>1 DEF Joined
    <3> QED BY <2>1, <3>4, <3>5
  <2>3. ASSUME NEW x \in OnStack' \ Calls'
        PROVE  \E y \in OnStack' : num[y] < num[x] /\ y \in LeadsTo(x)
    <3>1. num[x] < num[Caller] /\ x \in Types
      BY <1>2, <2>1
    <3>2. x # Caller
      BY <1>2, <3>1, TableTypes
    <3>3. PICK y \in OnStack : num[y] < num[x] /\ y \in LeadsTo(x)
      BY <1>6, <3>2
    <3>4. num[y] < num[Caller]
      BY <1>2, <3>1, <3>3, TableTypes
    <3> QED BY <2>1, <3>3, <3>4
  <2>4. ASSUME NEW t \in Above(Caller), NEW u \in Above(Caller) PROVE u \in LeadsTo(t)
    <3>1. Caller \in LeadsTo(t)
      BY <1>7, ComponentLeadsBack
    <3>2. u \in LeadsTo(Caller)
      BY <1>2, <2>1 DEF Joined
    <3>3. LeadsTo(Caller) \subseteq LeadsTo(t)
      BY <1>2, <2>1, <3>1, LeadsFurther
    <3> QED BY <3>2, <3>3
  <2>5. \A c \in sccs' : \A t, u \in c : u \in LeadsTo(t)
    BY <2>1, <2>4 DEF Joined
  <2> QED BY <1>1, <1>2, <1>4, <1>5, <2>2, <2>3, <2>5 DEF Joined
<1>8. CASE ~Completes
  <2>1. OnStack' = OnStack /\ sccs' = sccs
    BY <1>8, LeaveEffects
  <2>2. PICK z \in OnStack : num[z] = low[Caller] /\ z \in LeadsTo(Caller)
    BY <1>2 DEF Joined
  <2>3. ASSUME NEW i \in DOMAIN path'
        PROVE  \E y \in OnStack : num[y] = low'[path[i]] /\ y \in LeadsTo(path[i])
    <3>1. path[i] \in Types /\ i \in DOMAIN path /\ num[path[i]] < num[Caller]
      BY <1>2
    <3>2. CASE low'[path[i]] = low[path[i]]
      BY <3>1, <3>2 DEF Joined
    <3>3. CASE low'[path[i]] = low[Caller]
      <4>1. Caller \in LeadsTo(path[i])
        <5>1. num[path[i]] <= num[Caller]
          BY <1>2, <3>1, TableTypes
        <5> QED BY <1>2, <3>1, <5>1 DEF Joined
      <4>2. LeadsTo(Caller) \subseteq LeadsTo(path[i])
        BY <3>1, <4>1, LeadsFurther
      <4> QED BY <2>2, <3>3, <4>2
    <3> QED BY <3>1, <3>2, <3>3, LeaveEffects
  <2>4. ASSUME NEW x \in OnStack \ Calls'
        PROVE  \E y \in OnStack : num[y] < num[x] /\ y \in LeadsTo(x)
    <3>1. CASE x # Caller
      BY <1>6, <2>1, <3>1
    <3>2. CASE x = Caller
      <4>1. low[Caller] <= num[Caller] /\ low[Caller] # num[Caller]
        BY <1>2, <1>8 DEF NumbersOK, Completes
      <4>2. num[z] < num[Caller]
        BY <1>2, <2>2, <4>1, TableTypes
      <4> QED BY <2>2, <3>2, <4>2
    <3> QED BY <3>1, <3>2
  <2>5. \A c \in sccs' : \A t, u \in c : u \in LeadsTo(t)
    BY <2>1 DEF Joined
  <2> QED BY <1>1, <1>2, <1>4, <1>5, <2>1, <2>3, <2>4, <2>5 DEF Joined
<1> QED BY <1>7, <1>8

-----------------------------------------------------------------------------
(* The check as a whole.                                                   *)

SearchOK == NumbersOK /\ VisitedOK /\ LowOK /\ Separated /\ Joined

LEMMA NothingIsFound == CycleTypeOK /\ NothingVisited => SearchOK
<1> SUFFICES ASSUME CycleTypeOK, NothingVisited PROVE SearchOK
  OBVIOUS
<1>1. /\ DOMAIN stk = {} /\ DOMAIN path = {} /\ OnStack = {} /\ Calls = {} /\ Settled = {}
      /\ \A t \in Types : num[t] = 0 /\ low[t] = 0 /\ todo[t] = {}
  BY DEF NothingVisited, OnStack, Calls, Settled, Unvisited, NoEdges
<1>2. NumbersOK
  BY <1>1 DEF NumbersOK
<1>3. VisitedOK
  BY <1>1 DEF VisitedOK
<1>4. LowOK
  BY <1>1 DEF LowOK
<1>5. Separated
  BY DEF NothingVisited, Separated
<1>6. Joined
  BY <1>1 DEF NothingVisited, Joined
<1> QED BY <1>2, <1>3, <1>4, <1>5, <1>6 DEF SearchOK

LEMMA EnterKeeps ==
  ASSUME CycleTypeOK, SearchOK, NEW v \in Types, num[v] = 0,
         NEW rest \in [Types -> SUBSET Types], Enter(v, rest),
         \A t \in Types : todo[t] \ {v} \subseteq rest[t] /\ rest[t] \subseteq todo[t],
         \A t \in Types : t \notin Calls => rest[t] = {},
         \A i \in DOMAIN path : v \in LeadsTo(path[i])
  PROVE  SearchOK'
<1>1. NumbersOK /\ VisitedOK /\ LowOK /\ Separated /\ Joined
  BY DEF SearchOK
<1>2. NumbersOK' /\ VisitedOK' /\ LowOK' /\ Joined'
  BY <1>1, EnterNumbers, EnterVisited, EnterLow, EnterJoined
<1>3. Separated'
  BY <1>1, EnterEffects DEF Separated, LeadsTo
<1> QED BY <1>2, <1>3 DEF SearchOK

LEMMA ConnectKeeps ==
  ASSUME CycleTypeOK, SearchOK, NEW v \in Types, Connect(v)
  PROVE  SearchOK'
<1>1. todo \in [Types -> SUBSET Types] /\ num[v] = 0 /\ Enter(v, todo)
  BY DEF CycleTypeOK, Connect
<1>2. \A t \in Types : t \notin Calls => todo[t] = {}
  BY DEF SearchOK, VisitedOK
<1>3. DOMAIN path = {}
  BY DEF Connect
<1> QED BY <1>1, <1>2, <1>3, EnterKeeps

LEMMA DescendKeeps ==
  ASSUME CycleTypeOK, SearchOK, NEW w \in Types, Descend(w)
  PROVE  SearchOK'
<1>1. num[w] = 0 /\ Enter(w, Rest(w)) /\ LooksAt(w) /\ path # <<>>
  BY DEF Descend, LooksAt
<1>2. /\ Rest(w) \in [Types -> SUBSET Types]
      /\ \A t \in Types : Rest(w)[t] = IF t = Caller THEN todo[t] \ {w} ELSE todo[t]
  BY <1>1, RestType
<1>3. \A t \in Types : t \notin Calls => Rest(w)[t] = {}
  BY <1>1, <1>2, CallerIsType DEF SearchOK, VisitedOK
<1>4. \A t \in Types : todo[t] \ {w} \subseteq Rest(w)[t] /\ Rest(w)[t] \subseteq todo[t]
  BY <1>2
<1>5. ASSUME NEW i \in DOMAIN path PROVE w \in LeadsTo(path[i])
  <2>1. w \in Adj[Caller]
    BY <1>1, CallerIsType DEF LooksAt, SearchOK, Joined
  <2> QED BY <1>1, <2>1, CallerLeadsOn DEF SearchOK
<1> QED BY <1>1, <1>2, <1>3, <1>4, <1>5, EnterKeeps

LEMMA LookBackKeeps ==
  ASSUME CycleTypeOK, SearchOK, NEW w \in Types, LookBack(w)
  PROVE  SearchOK'
<1>1. NumbersOK /\ VisitedOK /\ LowOK /\ Separated /\ Joined
  BY DEF SearchOK
<1>2. NumbersOK' /\ VisitedOK' /\ LowOK' /\ Joined'
  BY <1>1, LookBackNumbers, LookBackVisited, LookBackLow, LookBackJoined
<1>3. Separated'
  BY <1>1, LookBackEffects DEF Separated, LeadsTo
<1> QED BY <1>2, <1>3 DEF SearchOK

LEMMA LeaveKeeps ==
  ASSUME CycleTypeOK, SearchOK, Leave
  PROVE  SearchOK'
<1>1. NumbersOK /\ VisitedOK /\ LowOK /\ Separated /\ Joined
  BY DEF SearchOK
<1> QED BY <1>1, LeaveNumbers, LeaveVisited, LeaveLow, LeaveSeparated, LeaveJoined DEF SearchOK

-----------------------------------------------------------------------------
(* The cycles of the three rules.                                          *)

\* At the end of a pass the components are the classes of types that lead to
\* each other.
LEMMA PassEnds ==
  ASSUME CycleTypeOK, SearchOK, Report
  PROVE  /\ \A t \in Types : \E c \in sccs : t \in c
         /\ \A c \in sccs : /\ c \subseteq Types
                          /\ \A t \in c, u \in Types :
                               u \in c <=> u \in LeadsTo(t) /\ t \in LeadsTo(u)
<1>1. ASSUME NEW t \in Types PROVE \E c \in sccs : t \in c
  <2>1. path = <<>> /\ num[t] # 0
    BY DEF Report
  <2>2. OnStack = {}
    BY <2>1 DEF SearchOK, NumbersOK, OnStack
  <2>3. t \in Settled
    BY <2>1, <2>2 DEF SearchOK, VisitedOK
  <2> QED BY <2>3 DEF Settled
<1>2. \A c \in sccs : c \subseteq Types
  BY DEF CycleTypeOK
<1>3. ASSUME NEW c \in sccs, NEW t \in c, NEW u \in Types
      PROVE  u \in c <=> u \in LeadsTo(t) /\ t \in LeadsTo(u)
  BY DEF SearchOK, Separated, Joined
<1> QED BY <1>1, <1>2, <1>3

\* A way to another type begins with a field.
LEMMA FirstField ==
  ASSUME CycleTypeOK, NEW t \in Types, NEW u \in LeadsTo(t), u # t
  PROVE  \E w \in Adj[t] : u \in LeadsTo(w)
<1> DEFINE D == {v \in Types : v = t \/ \E w \in Adj[t] : v \in LeadsTo(w)}
<1>1. \A v \in Types : Adj[v] \subseteq Types
  BY AdjType DEF Adj
<1>2. ASSUME NEW v \in D, NEW z \in Adj[v] PROVE z \in D
  <2>1. v \in Types /\ z \in Types
    BY <1>1
  <2>2. CASE v = t
    BY <2>1, <2>2, LeadsToType
  <2>3. CASE \E w \in Adj[t] : v \in LeadsTo(w)
    <3>1. PICK w \in Adj[t] : v \in LeadsTo(w)
      BY <2>3
    <3>2. w \in Types
      BY <1>1
    <3>3. z \in LeadsTo(w)
      BY <3>1, <3>2, LeadsOn
    <3> QED BY <2>1, <3>3
  <2> QED BY <2>2, <2>3
<1>3. LeadsTo(t) \subseteq D
  <2>1. D \in SUBSET Types /\ t \in D
    OBVIOUS
  <2> HIDE DEF D
  <2> QED BY <1>2, <2>1, LeadsWithin
<1> QED BY <1>3

LEMMA SharedIsExact ==
  ASSUME CycleTypeOK, SearchOK, Report, pass = "shared"
  PROVE  RecursiveShared <=> SharedCycle
<1>1. Adj = AdjOf(graph, AllKinds) /\ \A t : Chain(AllKinds, t) = LeadsTo(t)
  BY DEF Adj, KindsOf, Chain, LeadsTo
<1>2. ASSUME NEW t \in Types, NEW e \in graph[t]
      PROVE  e.to \in Types /\ e.to \in LeadsTo(t)
  <2>1. e \in [kind : AllKinds, to : Types]
    BY DEF CycleTypeOK
  <2>2. e.to \in Types /\ e.to \in Adj[t]
    BY <1>1, <2>1 DEF AdjOf
  <2> QED BY <2>2, LeadsToType, LeadsOn
<1>3. ASSUME RecursiveShared PROVE SharedCycle
  <2>1. PICK c \in sccs : \E t \in c : \E e \in graph[t] : e.kind = "shared" /\ e.to \in c
    BY <1>3 DEF RecursiveShared
  <2>2. PICK t \in c : \E e \in graph[t] : e.kind = "shared" /\ e.to \in c
    BY <2>1
  <2>3. t \in Types
    BY PassEnds
  <2>4. PICK e \in graph[t] : e.kind = "shared" /\ e.to \in c
    BY <2>2
  <2>5. t \in LeadsTo(e.to)
    BY <2>3, <2>4, PassEnds
  <2> QED BY <1>1, <2>3, <2>4, <2>5 DEF SharedCycle
<1>4. ASSUME SharedCycle PROVE RecursiveShared
  <2>1. PICK t \in Types : \E e \in graph[t] : e.kind = "shared" /\ t \in Chain(AllKinds, e.to)
    BY <1>4 DEF SharedCycle
  <2>2. PICK e \in graph[t] : e.kind = "shared" /\ t \in LeadsTo(e.to)
    BY <1>1, <2>1
  <2>3. PICK c \in sccs : t \in c
    BY PassEnds
  <2>4. e.to \in c
    BY <1>2, <2>2, <2>3, PassEnds
  <2> QED BY <2>2, <2>3, <2>4 DEF RecursiveShared
<1> QED BY <1>3, <1>4

\* Components of two types or more.
LEMMA LargeComponent ==
  ASSUME NEW c, c \subseteq Types
  PROVE  Cardinality(c) >= 2 <=> \E t, u \in c : t # u
<1>1. NumTypes \in Nat /\ IsFiniteSet(1 .. NumTypes)
  BY TypesAssumption, FS_Interval
<1>2. IsFiniteSet(c)
  BY <1>1, FS_Subset DEF Types
<1>3. Cardinality(c) \in Nat
  BY <1>2, FS_CardinalityType
<1>4. ASSUME NEW t \in c, NEW u \in c, t # u PROVE Cardinality(c) >= 2
  <2>1. IsFiniteSet({t}) /\ Cardinality({t}) = 1
    BY FS_Singleton
  <2>2. {t} \in SUBSET c
    OBVIOUS
  <2>3. Cardinality({t}) <= Cardinality(c) /\ (Cardinality({t}) = Cardinality(c) => {t} = c)
    BY <1>2, <2>2, FS_Subset
  <2>4. {t} # c
    BY <1>4
  <2> QED BY <1>3, <2>1, <2>3, <2>4
<1>5. ASSUME Cardinality(c) >= 2 PROVE \E t, u \in c : t # u
  <2>1. c # {}
    BY <1>5, FS_EmptySet
  <2>2. PICK t \in c : TRUE
    BY <2>1
  <2>3. c # {t}
    BY <1>5, FS_Singleton
  <2> QED BY <2>2, <2>3
<1> QED BY <1>4, <1>5

LEMMA ValueIsExact ==
  ASSUME CycleTypeOK, SearchOK, Report, pass = "value"
  PROVE  RecursiveValue <=> ValueCycle
<1>1. Adj = AdjOf(graph, {"inline"}) /\ \A t : Chain({"inline"}, t) = LeadsTo(t)
  BY DEF Adj, KindsOf, Chain, LeadsTo
<1>2. \A t \in Types : Adj[t] \subseteq Types
  BY AdjType DEF Adj
<1>3. ASSUME RecursiveValue PROVE ValueCycle
  <2>1. PICK c \in sccs : Cardinality(c) >= 2 \/ \E t \in c : t \in Adj[t]
    BY <1>3 DEF RecursiveValue
  <2>2. c \subseteq Types
    BY PassEnds
  <2>3. CASE \E t \in c : t \in Adj[t]
    BY <1>1, <2>2, <2>3, LeadsToType DEF ValueCycle
  <2>4. CASE Cardinality(c) >= 2
    <3>1. PICK t \in c, u \in c : t # u
      BY <2>2, <2>4, LargeComponent
    <3>2. u \in LeadsTo(t) /\ t \in LeadsTo(u) /\ t \in Types /\ u \in Types
      BY <2>2, PassEnds
    <3>3. PICK w \in Adj[t] : u \in LeadsTo(w)
      BY <3>1, <3>2, FirstField
    <3>4. t \in LeadsTo(w)
      BY <1>2, <3>2, <3>3, LeadsFurther
    <3> QED BY <1>1, <3>2, <3>3, <3>4 DEF ValueCycle
  <2> QED BY <2>1, <2>3, <2>4
<1>4. ASSUME ValueCycle PROVE RecursiveValue
  <2>1. PICK t \in Types : \E u \in Adj[t] : t \in LeadsTo(u)
    BY <1>1, <1>4 DEF ValueCycle
  <2>2. PICK u \in Adj[t] : t \in LeadsTo(u)
    BY <2>1
  <2>3. PICK c \in sccs : t \in c
    BY PassEnds
  <2>4. u \in LeadsTo(t) /\ u \in Types
    BY <1>2, LeadsToType, LeadsOn
  <2>5. u \in c /\ c \subseteq Types
    BY <2>2, <2>3, <2>4, PassEnds
  <2>6. CASE u = t
    BY <2>2, <2>3, <2>6 DEF RecursiveValue
  <2>7. CASE u # t
    BY <2>3, <2>5, <2>7, LargeComponent DEF RecursiveValue
  <2> QED BY <2>6, <2>7
<1> QED BY <1>3, <1>4

LEMMA UniqueIsExact ==
  ASSUME CycleTypeOK, SearchOK, Report, pass = "unique"
  PROVE  RecursiveUnique <=> UniqueCycle
<1>1. Adj = AdjOf(graph, {"unique"}) /\ \A t : Chain({"unique"}, t) = LeadsTo(t)
  BY DEF Adj, KindsOf, Chain, LeadsTo
<1>2. ASSUME RecursiveUnique PROVE UniqueCycle
  <2>1. PICK c \in sccs : Cardinality(c) >= 2
    BY <1>2 DEF RecursiveUnique
  <2>2. c \subseteq Types
    BY PassEnds
  <2>3. PICK t \in c, u \in c : t # u
    BY <2>1, <2>2, LargeComponent
  <2>4. u \in LeadsTo(t) /\ t \in LeadsTo(u) /\ t \in Types
    BY <2>2, PassEnds
  <2> QED BY <1>1, <2>3, <2>4 DEF UniqueCycle
<1>3. ASSUME UniqueCycle PROVE RecursiveUnique
  <2>1. PICK t \in Types : \E u \in LeadsTo(t) : u # t /\ t \in LeadsTo(u)
    BY <1>1, <1>3 DEF UniqueCycle
  <2>2. PICK u \in LeadsTo(t) : u # t /\ t \in LeadsTo(u)
    BY <2>1
  <2>3. PICK c \in sccs : t \in c
    BY PassEnds
  <2>4. u \in c /\ c \subseteq Types
    BY <2>2, <2>3, LeadsToType, PassEnds
  <2> QED BY <2>2, <2>3, <2>4, LargeComponent DEF RecursiveUnique
<1> QED BY <1>2, <1>3

CheckInv ==
  /\ CycleTypeOK
  /\ SearchOK
  /\ pass \in {"done", "running"} => NothingVisited
  /\ CyclesReported

LEMMA CheckStarts ==
  ASSUME CycleInit
  PROVE  CheckInv
BY CheckStartsTyped, NothingIsFound DEF CheckInv, CycleInit, CyclesReported

LEMMA ReportKeeps ==
  ASSUME CheckInv, Report
  PROVE  CheckInv'
<1>1. CycleTypeOK /\ SearchOK /\ graph' = graph
  BY DEF CheckInv, Report
<1>2. CycleTypeOK' /\ NothingVisited'
  BY <1>1, ReportTypes DEF Report, NothingVisited
<1>3. SearchOK'
  BY <1>2, NothingIsFound, PTL
<1>4. SharedCycle' = SharedCycle /\ ValueCycle' = ValueCycle /\ UniqueCycle' = UniqueCycle
  BY <1>1 DEF SharedCycle, ValueCycle, UniqueCycle, Chain
<1>5. /\ pass \in {"shared", "value", "unique"} /\ pass' = Following(pass)
      /\ errors' = IF Recursive THEN errors \cup {pass} ELSE errors
  BY DEF Report, Looking
<1>6. CyclesReported
  BY DEF CheckInv
<1>7. CyclesReported'
  <2>1. CASE pass = "shared"
    <3>1. Recursive <=> SharedCycle
      BY <1>1, <2>1, SharedIsExact DEF Recursive
    <3> QED BY <1>4, <1>5, <1>6, <2>1, <3>1 DEF CyclesReported, Following
  <2>2. CASE pass = "value"
    <3>1. Recursive <=> ValueCycle
      BY <1>1, <2>2, ValueIsExact DEF Recursive
    <3> QED BY <1>4, <1>5, <1>6, <2>2, <3>1 DEF CyclesReported, Following
  <2>3. CASE pass = "unique"
    <3>1. Recursive <=> UniqueCycle
      BY <1>1, <2>3, UniqueIsExact DEF Recursive
    <3> QED BY <1>4, <1>5, <1>6, <2>3, <3>1 DEF CyclesReported, Following
  <2> QED BY <1>5, <2>1, <2>2, <2>3
<1> QED BY <1>2, <1>3, <1>7 DEF CheckInv

LEMMA CheckSteps ==
  ASSUME CheckInv, CycleNext
  PROVE  CheckInv'
<1>0. CycleTypeOK /\ SearchOK
  BY DEF CheckInv
<1>1. ASSUME CycleTypeOK', SearchOK', graph' = graph, pass' = pass, errors' = errors,
             pass \notin {"done", "running"}
      PROVE  CheckInv'
  BY <1>1 DEF CheckInv, CyclesReported, SharedCycle, ValueCycle, UniqueCycle, Chain
<1>2. ASSUME path # <<>> PROVE pass \notin {"done", "running"}
  BY <1>2 DEF CheckInv, NothingVisited
<1>3. ASSUME NEW t \in Types, Connect(t) PROVE CheckInv'
  <2>1. graph' = graph /\ pass' = pass /\ errors' = errors /\ pass \notin {"done", "running"}
    BY <1>3 DEF Connect, Enter, Looking
  <2> QED BY <1>0, <1>1, <1>3, <2>1, ConnectTypes, ConnectKeeps
<1>4. ASSUME NEW t \in Types, Descend(t) PROVE CheckInv'
  <2>1. graph' = graph /\ pass' = pass /\ errors' = errors /\ path # <<>>
    BY <1>4 DEF Descend, Enter, LooksAt
  <2> QED BY <1>0, <1>1, <1>2, <1>4, <2>1, DescendTypes, DescendKeeps
<1>5. ASSUME NEW t \in Types, LookBack(t) PROVE CheckInv'
  <2>1. graph' = graph /\ pass' = pass /\ errors' = errors /\ path # <<>>
    BY <1>5 DEF LookBack, LooksAt
  <2> QED BY <1>0, <1>1, <1>2, <1>5, <2>1, LookBackTypes, LookBackKeeps
<1>6. CASE Leave
  <2>1. graph' = graph /\ pass' = pass /\ errors' = errors /\ path # <<>>
    BY <1>6 DEF Leave
  <2>2. CycleTypeOK'
    BY <1>0, <1>6, LeaveEffects, LeaveTypes DEF SearchOK
  <2> QED BY <1>0, <1>1, <1>2, <1>6, <2>1, <2>2, LeaveKeeps
<1> QED BY <1>3, <1>4, <1>5, <1>6, ReportKeeps DEF CycleNext

-----------------------------------------------------------------------------
(* What the references of a program's objects can form.                    *)

HoldsNoCycle ==
  \A t \in Types : \A s \in declared[t] :
    s.kind = "shared" => t \notin Closure(Types, {s.to}, [u \in Types |-> {e.to : e \in declared[u]}])

\* Which references an object has, and which of them its declarations tell.
HoldsTyped == holds \in [Types -> SUBSET Slots] /\ declared \in [Types -> SUBSET Slots]

\* A nested value's references are its owner's: what an object holds is held by
\* what lies within it.
LEMMA RunFromAccepted ==
  ASSUME CheckInv, Run
  PROVE  HoldsNoCycle' /\ HoldsTyped'
<1>1. CycleTypeOK /\ ~SharedCycle /\ declared' = Declared
  BY DEF Run, Accepted, CheckInv, CyclesReported
<1> DEFINE next == AdjOf(graph, AllKinds)
           inner == AdjOf(graph, {"inline", "heap"})
           after == [u \in Types |-> {e.to : e \in Declared[u]}]
<1>2. \A u \in Types : next[u] \subseteq Types /\ inner[u] \subseteq next[u]
  BY <1>1 DEF CycleTypeOK, AdjOf, AllKinds
<1>3. ASSUME NEW t \in Types PROVE t \in Chain(AllKinds, t) /\ Chain(AllKinds, t) \subseteq Types
  BY ClosureKeeps DEF Chain
<1>4. ASSUME NEW t \in Types, NEW u \in Chain(AllKinds, t) PROVE next[u] \subseteq Chain(AllKinds, t)
  <2>1. u \in Types
    BY <1>3
  <2> HIDE DEF next
  <2>2. next[u] \subseteq Types
    BY <1>2, <2>1
  <2>3. Chain(AllKinds, t) = Closure(Types, {t}, next)
    BY DEF Chain, next
  <2> QED BY <1>4, <2>2, <2>3, ClosureFollows
<1>5. ASSUME NEW t \in Types, NEW u \in Chain(AllKinds, t)
      PROVE  Chain(AllKinds, u) \subseteq Chain(AllKinds, t)
  <2>1. Chain(AllKinds, t) \in SUBSET Types /\ {u} \subseteq Chain(AllKinds, t)
    BY <1>3
  <2> HIDE DEF next
  <2>2. \A v \in Chain(AllKinds, t) : next[v] \subseteq Chain(AllKinds, t)
    BY <1>4
  <2>3. Closure(Types, {u}, next) \subseteq Chain(AllKinds, t)
    BY <2>1, <2>2, ClosureIsLeast
  <2> QED BY <2>3 DEF Chain, next
<1>6. ASSUME NEW t \in Types PROVE Within(t) \subseteq Chain(AllKinds, t)
  <2>1. Chain(AllKinds, t) \in SUBSET Types /\ {t} \subseteq Chain(AllKinds, t)
    BY <1>3
  <2> HIDE DEF next, inner
  <2>2. \A v \in Chain(AllKinds, t) : inner[v] \subseteq Chain(AllKinds, t)
    BY <1>2, <1>3, <1>4
  <2>3. Closure(Types, {t}, inner) \subseteq Chain(AllKinds, t)
    BY <2>1, <2>2, ClosureIsLeast
  <2> QED BY <2>3 DEF Within, inner
<1>7. ASSUME NEW t \in Types, NEW s \in Declared[t]
      PROVE  \E u \in Within(t) : u \in Types /\ s \in graph[u] /\ s \in Slots
  <2>1. PICK u \in Within(t) : s \in graph[u] /\ s.kind \in {"shared", "unique"}
    BY <1>7 DEF Declared
  <2>2. u \in Types
    BY <1>3, <1>6
  <2> QED BY <1>1, <2>1, <2>2 DEF CycleTypeOK, Slots
<1>8. ASSUME NEW t \in Types, NEW u \in Chain(AllKinds, t) PROVE after[u] \subseteq Chain(AllKinds, t)
  <2> SUFFICES ASSUME NEW e \in Declared[u] PROVE e.to \in Chain(AllKinds, t)
    BY <1>3
  <2>1. PICK v \in Within(u) : v \in Types /\ e \in graph[v] /\ e \in Slots
    BY <1>3, <1>7
  <2>2. v \in Chain(AllKinds, t)
    BY <1>3, <1>5, <1>6
  <2>3. e.to \in next[v]
    BY <2>1 DEF AdjOf, Slots, AllKinds
  <2> QED BY <1>4, <2>2, <2>3
<1>9. HoldsNoCycle'
  <2> SUFFICES ASSUME NEW t \in Types, NEW s \in Declared[t], s.kind = "shared",
                      t \in Closure(Types, {s.to}, after)
               PROVE  FALSE
    BY <1>1 DEF HoldsNoCycle
  <2>1. PICK u \in Within(t) : u \in Types /\ s \in graph[u] /\ s \in Slots
    BY <1>7
  <2>2. s.to \in Types
    BY <2>1 DEF Slots
  <2>3. Closure(Types, {s.to}, after) \subseteq Chain(AllKinds, s.to)
    <3> HIDE DEF after
    <3>1. Chain(AllKinds, s.to) \in SUBSET Types /\ {s.to} \subseteq Chain(AllKinds, s.to)
      BY <1>3, <2>2
    <3> QED BY <1>8, <2>2, <3>1, ClosureIsLeast
  <2>4. u \in Chain(AllKinds, s.to)
    BY <1>5, <1>6, <2>2, <2>3
  <2> QED BY <1>1, <2>1, <2>4 DEF SharedCycle
<1>10. HoldsTyped'
  <2>1. Declared \in [Types -> SUBSET Slots]
    BY <1>7 DEF Declared
  <2>2. \A opaque, t : Undeclared(opaque, t) \in SUBSET Slots
    BY DEF Undeclared
  <2>3. PICK opaque \in SUBSET Types :
          holds' = [t \in Types |-> Declared[t] \cup Undeclared(opaque, t)]
    BY DEF Run
  <2> QED BY <1>1, <2>1, <2>2, <2>3 DEF HoldsTyped
<1> QED BY <1>9, <1>10
-----------------------------------------------------------------------------
(* Counting.                                                               *)

LEMMA OneElementDiffers ==
  ASSUME NEW S, IsFiniteSet(S), NEW T, NEW x, S \ {x} = T \ {x}
  PROVE  /\ IsFiniteSet(T) /\ Cardinality(S) \in Nat /\ Cardinality(T) \in Nat
         /\ Cardinality(S) + (IF x \in T THEN 1 ELSE 0) = Cardinality(T) + (IF x \in S THEN 1 ELSE 0)
<1> DEFINE R == S \ {x}
<1>1. IsFiniteSet(R) /\ Cardinality(R) \in Nat
  BY FS_RemoveElement, FS_CardinalityType
<1>2. x \notin R
  OBVIOUS
<1>3. S = R \/ S = R \cup {x}
  OBVIOUS
<1>4. T = R \/ T = R \cup {x}
  OBVIOUS
<1> HIDE DEF R
<1>5. IsFiniteSet(R \cup {x}) /\ Cardinality(R \cup {x}) = Cardinality(R) + 1
  BY <1>1, <1>2, FS_AddElement
<1>6. IsFiniteSet(T)
  BY <1>1, <1>4, <1>5
<1>7. S = R => x \notin S /\ Cardinality(S) = Cardinality(R)
  BY <1>2
<1>8. S = R \cup {x} => x \in S /\ Cardinality(S) = Cardinality(R) + 1
  BY <1>5
<1>9. T = R => x \notin T /\ Cardinality(T) = Cardinality(R)
  BY <1>2
<1>10. T = R \cup {x} => x \in T /\ Cardinality(T) = Cardinality(R) + 1
  BY <1>5
<1> QED BY <1>1, <1>3, <1>4, <1>6, <1>7, <1>8, <1>9, <1>10

LEMMA PartsCount ==
  ASSUME NEW S, IsFiniteSet(S), NEW D
  PROVE  /\ IsFiniteSet(S \cap D) /\ IsFiniteSet(S \ D)
         /\ Cardinality(S) \in Nat /\ Cardinality(S \cap D) \in Nat /\ Cardinality(S \ D) \in Nat
         /\ Cardinality(S) = Cardinality(S \cap D) + Cardinality(S \ D)
         /\ Cardinality(S) = 0 <=> S = {}
         /\ Cardinality(S \ D) = 0 <=> S \subseteq D
<1>1. /\ IsFiniteSet(S \cap D) /\ IsFiniteSet(S \ D)
      /\ Cardinality(S \ D) = Cardinality(S) - Cardinality(S \cap D)
  BY FS_Difference, FS_Intersection
<1>2. Cardinality(S) \in Nat /\ Cardinality(S \cap D) \in Nat /\ Cardinality(S \ D) \in Nat
  BY <1>1, FS_CardinalityType
<1>3. Cardinality(S \ D) = 0 <=> S \ D = {}
  BY <1>1, FS_EmptySet
<1>4. Cardinality(S) = 0 <=> S = {}
  BY FS_EmptySet
<1> QED BY <1>1, <1>2, <1>3, <1>4

-----------------------------------------------------------------------------
(* A heap and its variables: every owner is counted, the fields hold what  *)
(* their types say, and nobody owns what is not there.                     *)

Entries == [is : {"free", "shared", "unique"}, type : Types, strong : Nat,
            slots : [Slots -> Objs \cup {Null}]]
Heaps == [Objs -> Entries]
Refs == [kind : {"none", "shared", "unique", "weak", "guard"}, obj : Objs \cup {Null}]
OwnerKinds == {"shared", "unique", "guard"}

SlotOK(h, o, s) ==
  LET p == h[o].slots[s]
  IN  p # Null => /\ h[o].is # "free" /\ s \in holds[h[o].type]
                  /\ h[p].is = s.kind /\ h[p].type = s.to

HeapOK(h) ==
  /\ h \in Heaps
  /\ \A o \in Objs, s \in Slots : SlotOK(h, o, s)
  /\ \A o \in Objs : h[o].is = "free" => h[o] = Free

RefOK(h, n) ==
  /\ n \in Refs
  /\ n.kind = "none" => n.obj = Null
  /\ n.kind \in {"shared", "guard"} => n.obj \in Objs /\ h[n.obj].is = "shared"
  /\ n.kind = "unique" => n.obj \in Objs /\ h[n.obj].is = "unique"

RefsOK(h, r) == r \in [Names -> Refs] /\ \A x \in Names : RefOK(h, r[x])

Owns(n, p) == n.kind \in OwnerKinds /\ n.obj = p
Hands(r, p) == {x \in Names : Owns(r[x], p)}
Holders(h, p) == {o \in Objs : p \in HeldBy(h, o, Owning)}

CountOf(h, p) ==
  IF h[p].is = "shared" THEN h[p].strong ELSE IF h[p].is = "unique" THEN 1 ELSE 0

Owners(h, r, p) == Cardinality(Hands(r, p)) + Cardinality(Holders(h, p))

\* The objects of more are counted once more than they have owners.
Counted(h, r, more) ==
  \A p \in Objs : CountOf(h, p) = Owners(h, r, p) + (IF p \in more THEN 1 ELSE 0)

Sound(h, r, more) == HeapOK(h) /\ RefsOK(h, r) /\ Counted(h, r, more)

\* Nothing is kept without an owner, and observers are expired or observe.
Owned(h) == \A p \in Objs : h[p].is # "free" => CountOf(h, p) > 0
Observed(h, r) ==
  \A x \in Names : r[x].kind = "weak" => r[x].obj = Null \/ h[r[x].obj].is = "shared"

LEMMA HeldBySlot ==
  ASSUME NEW h, NEW o, NEW kinds, NEW p
  PROVE  p \in HeldBy(h, o, kinds)
         <=> p # Null /\ \E s \in Slots : s.kind \in kinds /\ h[o].slots[s] = p
BY DEF HeldBy

LEMMA SlotKinds == ASSUME NEW s \in Slots PROVE s.kind \in {"shared", "unique"} /\ s.to \in Types
BY DEF Slots

LEMMA HeldIsTyped ==
  ASSUME NEW h, HeapOK(h), NEW o \in Objs, NEW kinds, NEW p \in HeldBy(h, o, kinds)
  PROVE  /\ p \in Objs /\ p # Null /\ h[p].is \in kinds /\ h[p].is \in {"shared", "unique"}
         /\ h[o].is # "free"
         /\ [kind |-> h[p].is, to |-> h[p].type] \in holds[h[o].type]
         /\ h[o].slots[[kind |-> h[p].is, to |-> h[p].type]] = p
<1>1. PICK s \in Slots : s.kind \in kinds /\ h[o].slots[s] = p /\ p # Null
  BY HeldBySlot
<1>2. SlotOK(h, o, s)
  BY DEF HeapOK
<1>3. s = [kind |-> s.kind, to |-> s.to] /\ s.kind \in {"shared", "unique"}
  BY DEF Slots
<1>4. p \in Objs
  BY <1>1 DEF HeapOK, Heaps, Entries
<1>5. h[p].is = s.kind /\ h[p].type = s.to /\ h[o].is # "free" /\ s \in holds[h[o].type]
  BY <1>1, <1>2 DEF SlotOK
<1> QED BY <1>1, <1>3, <1>4, <1>5

LEMMA OwnersCounted ==
  ASSUME NEW h, NEW r, NEW p
  PROVE  /\ IsFiniteSet(Hands(r, p)) /\ IsFiniteSet(Holders(h, p))
         /\ Cardinality(Hands(r, p)) \in Nat /\ Cardinality(Holders(h, p)) \in Nat
         /\ Owners(h, r, p) \in Nat
<1>1. Hands(r, p) \in SUBSET Names /\ Holders(h, p) \in SUBSET Objs
  BY DEF Hands, Holders
<1>2. IsFiniteSet(Hands(r, p)) /\ IsFiniteSet(Holders(h, p))
  BY <1>1, OwnAssumption, FS_Subset
<1>3. Cardinality(Hands(r, p)) \in Nat /\ Cardinality(Holders(h, p)) \in Nat
  BY <1>2, FS_CardinalityType
<1> QED BY <1>2, <1>3 DEF Owners

-----------------------------------------------------------------------------
(* What falls.                                                             *)

LEMMA ReleasesParts ==
  ASSUME NEW h, NEW gone, NEW D \in SUBSET Objs, NEW p
  PROVE  /\ {o \in D : p \in HeldBy(h, o, Owning)} = Holders(h, p) \cap D
         /\ Releases(h, gone, D, p) = Cardinality(Holders(h, p) \cap D) + (IF p \in gone THEN 1 ELSE 0)
         /\ Cardinality(Holders(h, p) \cap D) \in Nat /\ Releases(h, gone, D, p) \in Nat
<1>1. {o \in D : p \in HeldBy(h, o, Owning)} = Holders(h, p) \cap D
  BY DEF Holders
<1>2. IsFiniteSet(Holders(h, p))
  BY OwnersCounted
<1>3. Cardinality(Holders(h, p) \cap D) \in Nat
  BY <1>2, PartsCount
<1> QED BY <1>1, <1>3 DEF Releases

LEMMA FallsGrows ==
  ASSUME NEW h \in Heaps, NEW gone, NEW D \in SUBSET Objs, NEW E \in SUBSET Objs, D \subseteq E,
         NEW p \in Objs, Falls(h, gone, D, p)
  PROVE  Falls(h, gone, E, p)
<1> DEFINE A == Holders(h, p) \cap D
           B == Holders(h, p) \cap E
<1>1. IsFiniteSet(B) /\ A \in SUBSET B
  BY OwnersCounted, PartsCount
<1>2. Cardinality(A) <= Cardinality(B)
  BY <1>1, FS_Subset
<1>3. Releases(h, gone, D, p) = Cardinality(A) + (IF p \in gone THEN 1 ELSE 0)
  <2>1. {o \in D : p \in HeldBy(h, o, Owning)} = A
    BY ReleasesParts
  <2> QED BY <2>1 DEF Releases
<1>4. Releases(h, gone, E, p) = Cardinality(B) + (IF p \in gone THEN 1 ELSE 0)
  <2>1. {o \in E : p \in HeldBy(h, o, Owning)} = B
    BY ReleasesParts
  <2> QED BY <2>1 DEF Releases
<1>5. Cardinality(A) \in Nat /\ Cardinality(B) \in Nat
  BY ReleasesParts
<1> HIDE DEF A, B
<1>6. Releases(h, gone, D, p) <= Releases(h, gone, E, p)
  BY <1>2, <1>3, <1>4, <1>5
<1>7. Releases(h, gone, D, p) \in Nat /\ Releases(h, gone, E, p) \in Nat /\ h[p].strong \in Nat
  BY ReleasesParts DEF Heaps, Entries
<1> QED BY <1>6, <1>7 DEF Falls

LEMMA DestroyedFall ==
  ASSUME NEW h \in Heaps, NEW gone, NEW p \in Objs
  PROVE  /\ Destroyed(h, gone) \in SUBSET Objs
         /\ p \in Destroyed(h, gone) <=> Falls(h, gone, Destroyed(h, gone), p)
<1> DEFINE dead == Destroyed(h, gone)
<1>1. dead \in SUBSET Objs
  BY DEF Destroyed
<1>2. ASSUME NEW q \in Objs, Falls(h, gone, dead, q) PROVE q \in dead
  <2> SUFFICES ASSUME NEW D \in SUBSET Objs, \A u \in Objs : Falls(h, gone, D, u) => u \in D
               PROVE  q \in D
    BY DEF Destroyed
  <2>1. dead \subseteq D
    BY DEF Destroyed
  <2> HIDE DEF dead
  <2>2. Falls(h, gone, D, q)
    BY <1>1, <1>2, <2>1, FallsGrows
  <2> QED BY <2>2
<1>3. ASSUME p \in dead PROVE Falls(h, gone, dead, p)
  <2> DEFINE D == {q \in dead : Falls(h, gone, dead, q)}
  <2>1. D \in SUBSET Objs /\ D \subseteq dead
    BY <1>1
  <2>2. ASSUME NEW q \in Objs, Falls(h, gone, D, q) PROVE q \in D
    <3>1. Falls(h, gone, dead, q)
      <4> HIDE DEF D, dead
      <4> QED BY <1>1, <2>1, <2>2, FallsGrows
    <3> QED BY <1>2, <3>1
  <2>3. p \in D
    <3> HIDE DEF D
    <3> QED BY <1>3, <2>1, <2>2 DEF Destroyed
  <2> QED BY <2>3
<1> HIDE DEF dead
<1>4. p \in dead <=> Falls(h, gone, dead, p)
  BY <1>2, <1>3
<1> QED BY <1>1, <1>4 DEF dead

LEMMA Losses ==
  ASSUME NEW h, NEW r, NEW gone, Sound(h, r, gone), NEW p \in Objs
  PROVE  LET dead == Destroyed(h, gone)
         IN  /\ p \in dead => Hands(r, p) = {} /\ Holders(h, p) \ dead = {}
             /\ p \notin dead /\ h[p].is = "shared" =>
                  /\ h[p].strong - Releases(h, gone, dead, p) \in Nat \ {0}
                  /\ h[p].strong - Releases(h, gone, dead, p)
                       = Cardinality(Hands(r, p)) + Cardinality(Holders(h, p) \ dead)
             /\ p \notin dead /\ h[p].is # "shared" =>
                  CountOf(h, p) = Cardinality(Hands(r, p)) + Cardinality(Holders(h, p) \ dead)
<1> DEFINE dead == Destroyed(h, gone)
           k == IF p \in gone THEN 1 ELSE 0
           hands == Cardinality(Hands(r, p))
           out == Cardinality(Holders(h, p) \cap dead)
           in == Cardinality(Holders(h, p) \ dead)
           loss == Releases(h, gone, dead, p)
<1>1. h \in Heaps /\ CountOf(h, p) = Owners(h, r, p) + k
  BY DEF Sound, HeapOK, Counted
<1>2. dead \in SUBSET Objs /\ (p \in dead <=> Falls(h, gone, dead, p))
  BY <1>1, DestroyedFall
<1>3. h[p].is \in {"free", "shared", "unique"} /\ h[p].strong \in Nat /\ k \in {0, 1}
  BY <1>1 DEF Heaps, Entries
<1>4. hands \in Nat /\ IsFiniteSet(Holders(h, p)) /\ (hands = 0 <=> Hands(r, p) = {})
  BY OwnersCounted, FS_EmptySet
<1>5. /\ in \in Nat /\ out \in Nat /\ Cardinality(Holders(h, p)) = out + in
      /\ in = 0 <=> Holders(h, p) \subseteq dead
  BY <1>4, PartsCount
<1>6. loss = out + k
  <2>1. {o \in dead : p \in HeldBy(h, o, Owning)} = Holders(h, p) \cap dead
    BY <1>2, ReleasesParts
  <2> QED BY <2>1 DEF Releases
<1>7. CountOf(h, p) = hands + (out + in) + k
  BY <1>1, <1>5 DEF Owners
<1>8. p \in dead <=> h[p].is # "free" /\ loss >= IF h[p].is = "shared" THEN h[p].strong ELSE 1
  BY <1>2 DEF Falls
<1> HIDE DEF dead, k, hands, out, in, loss
<1>9. p \in dead => hands = 0 /\ in = 0
  <2>1. p \in dead => loss >= CountOf(h, p)
    BY <1>3, <1>8 DEF CountOf
  <2> QED BY <1>3, <1>4, <1>5, <1>6, <1>7, <2>1
<1>10. p \notin dead /\ h[p].is = "shared" => h[p].strong - loss \in Nat \ {0} /\ h[p].strong - loss = hands + in
  <2>1. h[p].is = "shared" => CountOf(h, p) = h[p].strong
    BY DEF CountOf
  <2> QED BY <1>3, <1>4, <1>5, <1>6, <1>7, <1>8, <2>1
<1>11. p \notin dead /\ h[p].is # "shared" => CountOf(h, p) = hands + in
  <2>1. h[p].is = "free" => CountOf(h, p) = 0
    BY DEF CountOf
  <2>2. h[p].is = "unique" /\ p \notin dead => loss = 0
    BY <1>3, <1>5, <1>6, <1>8
  <2>3. h[p].is = "free" => k = 0
    BY <1>3, <1>4, <1>5, <1>7, <2>1
  <2>4. h[p].is = "free" => out = 0
    BY <1>3, <1>4, <1>5, <1>7, <2>1
  <2> QED BY <1>3, <1>4, <1>5, <1>6, <1>7, <2>2, <2>3, <2>4
<1>12. p \in dead => Hands(r, p) = {} /\ Holders(h, p) \ dead = {}
  BY <1>4, <1>5, <1>9
<1> QED BY <1>10, <1>11, <1>12 DEF dead, hands, in, loss

LEMMA LetGoParts ==
  ASSUME NEW h, NEW r, NEW gone, Sound(h, r, gone)
  PROVE  LET dead == Destroyed(h, gone)
             g == LetGo(h, gone)
         IN  /\ g \in Heaps
             /\ \A p \in dead : g[p] = Free
             /\ \A p \in Objs \ dead :
                  /\ g[p].is = h[p].is /\ g[p].type = h[p].type /\ g[p].slots = h[p].slots
                  /\ h[p].is # "shared" => g[p] = h[p]
                  /\ h[p].is = "shared" => g[p].strong = h[p].strong - Releases(h, gone, dead, p)
             /\ \A p \in Objs : Holders(g, p) = Holders(h, p) \ dead
             /\ dead \in SUBSET Objs
<1> DEFINE dead == Destroyed(h, gone)
           g == LetGo(h, gone)
           loss(p) == Releases(h, gone, dead, p)
<1>1. h \in Heaps
  BY DEF Sound, HeapOK
<1>2. dead \in SUBSET Objs
  BY DEF Destroyed
<1>3. g = [p \in Objs |-> IF p \in dead THEN Free
                          ELSE IF h[p].is = "shared" THEN [h[p] EXCEPT !.strong = @ - loss(p)]
                          ELSE h[p]]
  BY DEF LetGo
<1>4. \A p \in Objs \ dead : h[p].is = "shared" => h[p].strong - loss(p) \in Nat
  BY Losses
<1>5. Free \in Entries
  BY TypesAssumption DEF Free, Types, Entries
<1> HIDE DEF dead, g, loss
<1>6. \A p \in Objs \ dead :
        /\ h[p].is = "shared" => g[p] = [h[p] EXCEPT !.strong = @ - loss(p)]
        /\ h[p].is # "shared" => g[p] = h[p]
  BY <1>3
<1>7. \A p \in Objs \ dead :
        /\ g[p].is = h[p].is /\ g[p].type = h[p].type /\ g[p].slots = h[p].slots
        /\ h[p].is # "shared" => g[p] = h[p]
        /\ h[p].is = "shared" => g[p].strong = h[p].strong - loss(p)
  BY <1>1, <1>6 DEF Heaps, Entries
<1>8. \A p \in dead : g[p] = Free
  BY <1>2, <1>3
<1>9. g \in Heaps
  <2> SUFFICES ASSUME NEW p \in Objs
               PROVE  g[p] \in Entries
    BY <1>3 DEF Heaps
  <2>1. CASE p \in dead
    BY <1>5, <1>8, <2>1
  <2>2. CASE p \notin dead
    <3>1. h[p] \in Entries
      BY <1>1 DEF Heaps
    <3>2. \A n \in Nat : [h[p] EXCEPT !.strong = n] \in Entries
      BY <3>1 DEF Entries
    <3> QED BY <1>4, <1>6, <2>2, <3>1, <3>2
  <2> QED BY <2>1, <2>2
<1>10. ASSUME NEW p \in Objs PROVE Holders(g, p) = Holders(h, p) \ dead
  <2>1. \A o \in dead : HeldBy(g, o, Owning) = {}
    BY <1>8 DEF HeldBy, Free
  <2>2. \A o \in Objs \ dead : HeldBy(g, o, Owning) = HeldBy(h, o, Owning)
    BY <1>7 DEF HeldBy
  <2> QED BY <2>1, <2>2 DEF Holders
<1> QED BY <1>2, <1>7, <1>8, <1>9, <1>10 DEF dead, g, loss

\* What is held by an object that stays, stays.
LEMMA LetGoKeepsHeap ==
  ASSUME NEW h, NEW r, NEW gone, Sound(h, r, gone)
  PROVE  HeapOK(LetGo(h, gone))
<1> DEFINE dead == Destroyed(h, gone)
           g == LetGo(h, gone)
<1>1. /\ g \in Heaps /\ \A p \in dead : g[p] = Free
      /\ \A p \in Objs \ dead : /\ g[p].is = h[p].is /\ g[p].type = h[p].type
                                /\ g[p].slots = h[p].slots /\ (h[p].is # "shared" => g[p] = h[p])
      /\ dead \in SUBSET Objs
  BY LetGoParts
<1>2. HeapOK(h)
  BY DEF Sound
<1>3. ASSUME NEW o \in Objs, NEW s \in Slots PROVE SlotOK(g, o, s)
  <2> SUFFICES ASSUME g[o].slots[s] # Null PROVE SlotOK(g, o, s)
    BY DEF SlotOK
  <2> DEFINE p == g[o].slots[s]
  <2>1. o \notin dead
    BY <1>1 DEF Free
  <2>2. p = h[o].slots[s] /\ p \in Objs
    BY <1>1, <2>1 DEF Heaps, Entries
  <2>3. SlotOK(h, o, s)
    BY <1>2 DEF HeapOK
  <2>4. p \notin dead
    <3>1. o \in Holders(h, p)
      <4>1. s.kind \in Owning
        BY SlotKinds DEF Owning
      <4> QED BY <2>2, <4>1, HeldBySlot DEF Holders
    <3>2. p \in dead => Holders(h, p) \ dead = {}
      BY <2>2, Losses
    <3> QED BY <2>1, <3>1, <3>2
  <2> HIDE DEF p, dead, g
  <2>5. g[o].is = h[o].is /\ g[o].type = h[o].type /\ g[p].is = h[p].is /\ g[p].type = h[p].type
    BY <1>1, <2>1, <2>2, <2>4
  <2> QED BY <2>2, <2>3, <2>5 DEF SlotOK, p
<1>4. ASSUME NEW o \in Objs, g[o].is = "free" PROVE g[o] = Free
  <2>1. CASE o \in dead
    BY <1>1, <2>1
  <2>2. CASE o \notin dead
    <3>1. g[o].is = h[o].is /\ (h[o].is # "shared" => g[o] = h[o])
      BY <1>1, <2>2
    <3> QED BY <1>2, <1>4, <3>1 DEF HeapOK
  <2> QED BY <2>1, <2>2
<1> HIDE DEF dead, g
<1>5. HeapOK(g)
  BY <1>1, <1>3, <1>4 DEF HeapOK
<1> QED BY <1>5 DEF g

LEMMA LetGoCounts ==
  ASSUME NEW h, NEW r, NEW gone, Sound(h, r, gone)
  PROVE  Counted(LetGo(h, gone), r, {}) /\ Owned(LetGo(h, gone))
<1> DEFINE dead == Destroyed(h, gone)
           g == LetGo(h, gone)
<1> SUFFICES ASSUME NEW p \in Objs
             PROVE  CountOf(g, p) = Owners(g, r, p) /\ (g[p].is # "free" => CountOf(g, p) > 0)
  <2> HIDE DEF g
  <2>1. \A p \in Objs : Owners(g, r, p) + (IF p \in {} THEN 1 ELSE 0) = Owners(g, r, p)
    BY OwnersCounted
  <2>2. Counted(g, r, {}) /\ Owned(g)
    BY <2>1 DEF Counted, Owned
  <2> QED BY <2>2 DEF g
<1>1. /\ p \in dead => g[p] = Free
      /\ p \notin dead => /\ g[p].is = h[p].is /\ (h[p].is # "shared" => g[p] = h[p])
                          /\ h[p].is = "shared" => g[p].strong = h[p].strong - Releases(h, gone, dead, p)
      /\ Holders(g, p) = Holders(h, p) \ dead
  BY LetGoParts
<1>2. /\ p \in dead => Hands(r, p) = {} /\ Holders(h, p) \ dead = {}
      /\ p \notin dead /\ h[p].is = "shared" =>
           /\ h[p].strong - Releases(h, gone, dead, p) \in Nat \ {0}
           /\ h[p].strong - Releases(h, gone, dead, p)
                = Cardinality(Hands(r, p)) + Cardinality(Holders(h, p) \ dead)
      /\ p \notin dead /\ h[p].is # "shared" =>
           CountOf(h, p) = Cardinality(Hands(r, p)) + Cardinality(Holders(h, p) \ dead)
  BY Losses
<1>3. Owners(g, r, p) = Cardinality(Hands(r, p)) + Cardinality(Holders(h, p) \ dead)
  BY <1>1 DEF Owners
<1>4. h[p].is \in {"free", "shared", "unique"}
  BY DEF Sound, HeapOK, Heaps, Entries
<1> HIDE DEF dead, g
<1>5. CASE p \in dead
  <2>1. Owners(g, r, p) = 0
    <3>1. Cardinality({}) = 0
      BY FS_EmptySet
    <3>2. Hands(r, p) = {} /\ Holders(h, p) \ dead = {}
      BY <1>2, <1>5
    <3> QED BY <1>3, <3>1, <3>2
  <2>2. g[p].is = "free"
    BY <1>1, <1>5 DEF Free
  <2>3. CountOf(g, p) = 0
    BY <2>2 DEF CountOf
  <2> QED BY <2>1, <2>2, <2>3
<1>6. CASE p \notin dead /\ h[p].is = "shared"
  <2>1. CountOf(g, p) = h[p].strong - Releases(h, gone, dead, p)
    BY <1>1, <1>6 DEF CountOf
  <2> QED BY <1>2, <1>3, <1>6, <2>1
<1>7. CASE p \notin dead /\ h[p].is # "shared"
  <2>1. CountOf(g, p) = CountOf(h, p) /\ g[p].is = h[p].is
    BY <1>1, <1>7 DEF CountOf
  <2>2. h[p].is # "free" => CountOf(h, p) = 1
    BY <1>4, <1>7 DEF CountOf
  <2> QED BY <1>2, <1>3, <1>7, <2>1, <2>2
<1> QED BY <1>5, <1>6, <1>7

LEMMA ExpireParts ==
  ASSUME NEW g, NEW r \in [Names -> Refs]
  PROVE  /\ Expire(g, r) \in [Names -> Refs]
         /\ \A x \in Names : /\ Expire(g, r)[x].kind = r[x].kind
                             /\ r[x].kind # "weak" => Expire(g, r)[x] = r[x]
         /\ \A p : Hands(Expire(g, r), p) = Hands(r, p)
         /\ Observed(g, Expire(g, r))
<1> DEFINE e == Expire(g, r)
<1>1. \A x \in Names : e[x] = IF r[x].kind = "weak" /\ r[x].obj # Null /\ g[r[x].obj].is # "shared"
                              THEN [r[x] EXCEPT !.obj = Null] ELSE r[x]
  BY DEF Expire
<1>2. \A n \in Refs : /\ [n EXCEPT !.obj = Null] \in Refs
                      /\ [n EXCEPT !.obj = Null].kind = n.kind /\ [n EXCEPT !.obj = Null].obj = Null
  BY DEF Refs
<1>3. DOMAIN e = Names /\ e = [x \in Names |-> e[x]]
  BY DEF Expire
<1> HIDE DEF e
<1>4. \A x \in Names : e[x] \in Refs /\ e[x].kind = r[x].kind /\ (r[x].kind # "weak" => e[x] = r[x])
  BY <1>1, <1>2
<1>5. e \in [Names -> Refs]
  BY <1>3, <1>4
<1>6. \A p, x : x \in Names => (Owns(e[x], p) <=> Owns(r[x], p))
  <2>1. \A x \in Names : r[x].kind = "weak" => e[x].kind = "weak"
    BY <1>4
  <2> QED BY <1>4, <2>1 DEF Owns, OwnerKinds
<1>7. \A p : Hands(e, p) = Hands(r, p)
  BY <1>6 DEF Hands
<1>8. Observed(g, e)
  <2> SUFFICES ASSUME NEW x \in Names, e[x].kind = "weak", e[x].obj # Null PROVE g[e[x].obj].is = "shared"
    BY DEF Observed
  <2>1. r[x].kind = "weak"
    BY <1>4
  <2>2. CASE r[x].obj # Null /\ g[r[x].obj].is # "shared"
    <3>1. e[x] = [r[x] EXCEPT !.obj = Null] /\ r[x] \in Refs
      BY <1>1, <2>1, <2>2
    <3>2. e[x].obj = Null
      BY <1>2, <3>1
    <3> QED BY <3>2
  <2>3. CASE ~(r[x].obj # Null /\ g[r[x].obj].is # "shared")
    BY <1>1, <2>1, <2>3
  <2> QED BY <2>2, <2>3
<1> QED BY <1>4, <1>5, <1>7, <1>8 DEF e

\* An object that is owned stays what it is.
LEMMA LetGoKeepsRefs ==
  ASSUME NEW h, NEW r, NEW gone, Sound(h, r, gone)
  PROVE  RefsOK(LetGo(h, gone), r)
<1> DEFINE dead == Destroyed(h, gone)
           g == LetGo(h, gone)
<1> SUFFICES ASSUME NEW x \in Names PROVE RefOK(g, r[x])
  <2> HIDE DEF g
  <2>1. RefsOK(g, r)
    BY DEF RefsOK, Sound
  <2> QED BY <2>1 DEF g
<1>1. RefOK(h, r[x])
  BY DEF Sound, RefsOK
<1>2. ASSUME r[x].kind \in OwnerKinds PROVE r[x].obj \in Objs /\ g[r[x].obj].is = h[r[x].obj].is
  <2>1. r[x].obj \in Objs
    BY <1>1, <1>2 DEF RefOK, OwnerKinds
  <2>2. x \in Hands(r, r[x].obj)
    BY <1>2 DEF Hands, Owns
  <2>3. r[x].obj \in dead => Hands(r, r[x].obj) = {}
    BY <2>1, Losses
  <2>4. r[x].obj \in Objs \ dead
    BY <2>1, <2>2, <2>3
  <2> QED BY <2>4, LetGoParts
<1> HIDE DEF g
<1> QED BY <1>1, <1>2 DEF RefOK, OwnerKinds

LEMMA ExpireKeepsRefs ==
  ASSUME NEW g, NEW r, RefsOK(g, r)
  PROVE  RefsOK(g, Expire(g, r))
<1>1. r \in [Names -> Refs]
  BY DEF RefsOK
<1>2. /\ Expire(g, r) \in [Names -> Refs]
      /\ \A x \in Names : /\ Expire(g, r)[x].kind = r[x].kind
                          /\ r[x].kind # "weak" => Expire(g, r)[x] = r[x]
  BY <1>1, ExpireParts
<1>3. ASSUME NEW x \in Names PROVE RefOK(g, Expire(g, r)[x])
  <2>1. RefOK(g, r[x])
    BY DEF RefsOK
  <2>2. CASE r[x].kind = "weak"
    BY <1>2, <2>2 DEF RefOK
  <2>3. CASE r[x].kind # "weak"
    BY <1>2, <2>1, <2>3
  <2> QED BY <2>2, <2>3
<1> QED BY <1>2, <1>3 DEF RefsOK

LEMMA ExpireSettles ==
  ASSUME NEW g, NEW r, Sound(g, r, {}), Owned(g)
  PROVE  /\ Sound(g, Expire(g, r), {})
         /\ Observed(g, Expire(g, r))
<1>1. r \in [Names -> Refs] /\ RefsOK(g, r)
  BY DEF Sound, RefsOK
<1>2. (\A p : Hands(Expire(g, r), p) = Hands(r, p)) /\ Observed(g, Expire(g, r))
  BY <1>1, ExpireParts
<1>3. Counted(g, Expire(g, r), {})
  BY <1>2 DEF Sound, Counted, Owners
<1> QED BY <1>1, <1>2, <1>3, ExpireKeepsRefs DEF Sound

-----------------------------------------------------------------------------
(* The references of the variables.                                        *)

HeapInv == Sound(heap, ref, {}) /\ Owned(heap) /\ Observed(heap, ref)

\* A variable takes the reference over that was counted for it, and leaves the
\* one it had.
LEMMA HandOver ==
  ASSUME NEW h, NEW r, NEW more, Sound(h, r, more), NEW x \in Names, NEW n, RefOK(h, n),
         NEW left, \A p \in Objs : (p \in more <=> Owns(n, p)) /\ (p \in left <=> Owns(r[x], p))
  PROVE  Sound(h, [r EXCEPT ![x] = n], left)
<1> DEFINE q == [r EXCEPT ![x] = n]
<1>1. r \in [Names -> Refs] /\ n \in Refs /\ \A y \in Names : RefOK(h, r[y])
  BY DEF Sound, RefsOK, RefOK
<1>2. RefsOK(h, q)
  <2>1. q \in [Names -> Refs] /\ \A y \in Names : q[y] = IF y = x THEN n ELSE r[y]
    BY <1>1
  <2> HIDE DEF q
  <2> QED BY <1>1, <2>1 DEF RefsOK
<1>3. ASSUME NEW p \in Objs
      PROVE  CountOf(h, p) = Owners(h, q, p) + (IF p \in left THEN 1 ELSE 0)
  <2>1. CountOf(h, p) = Owners(h, r, p) + (IF p \in more THEN 1 ELSE 0)
    BY DEF Sound, Counted
  <2> DEFINE S == Hands(r, p)
             T == Hands(q, p)
  <2>3. \A y \in Names : q[y] = IF y = x THEN n ELSE r[y]
    BY <1>1
  <2>4. S \ {x} = T \ {x} /\ (x \in S <=> p \in left) /\ (x \in T <=> p \in more)
    <3> HIDE DEF q
    <3> QED BY <2>3 DEF Hands
  <2>5. IsFiniteSet(S) /\ Owners(h, r, p) = Cardinality(S) + Cardinality(Holders(h, p))
        /\ Owners(h, q, p) = Cardinality(T) + Cardinality(Holders(h, p))
        /\ Cardinality(Holders(h, p)) \in Nat
    BY OwnersCounted DEF Owners
  <2> HIDE DEF S, T, q
  <2>6. /\ Cardinality(S) \in Nat /\ Cardinality(T) \in Nat
        /\ Cardinality(S) + (IF x \in T THEN 1 ELSE 0) = Cardinality(T) + (IF x \in S THEN 1 ELSE 0)
    BY <2>4, <2>5, OneElementDiffers
  <2> QED BY <2>1, <2>4, <2>5, <2>6
<1> HIDE DEF q
<1>4. Sound(h, q, left)
  BY <1>2, <1>3 DEF Sound, Counted
<1> QED BY <1>4 DEF q

LEMMA SoundPrimed ==
  ASSUME NEW h, NEW r, heap' = h, ref' = r, holds' = holds,
         Sound(h, r, {}), Owned(h), Observed(h, r)
  PROVE  HeapInv'
<1>1. HeapOK(heap)'
  BY DEF Sound, HeapOK, SlotOK
<1>2. RefsOK(heap, ref)'
  BY DEF Sound, RefsOK
<1>3. Counted(heap, ref, {})'
  BY DEF Sound, Counted
<1>4. Owned(heap)' /\ Observed(heap, ref)'
  BY DEF Owned, Observed
<1> QED BY <1>1, <1>2, <1>3, <1>4 DEF HeapInv, Sound

LEMMA SettleKeeps ==
  ASSUME NEW h, NEW r, Sound(h, r, {}), Owned(h), Settle(h, r)
  PROVE  HeapInv'
<1>1. heap' = h /\ ref' = Expire(h, r) /\ holds' = holds
  BY DEF Settle
<1>2. Sound(h, Expire(h, r), {}) /\ Observed(h, Expire(h, r))
  BY ExpireSettles
<1> DEFINE e == Expire(h, r)
<1> HIDE DEF e
<1>3. ref' = e /\ Sound(h, e, {}) /\ Observed(h, e)
  BY <1>1, <1>2 DEF e
<1> QED BY <1>1, <1>3, SoundPrimed

LEMMA LetGoKeeps ==
  ASSUME NEW h, NEW r, NEW gone, Sound(h, r, gone), Settle(LetGo(h, gone), r)
  PROVE  HeapInv'
<1> DEFINE g == LetGo(h, gone)
<1>1. HeapOK(g) /\ RefsOK(g, r) /\ Counted(g, r, {}) /\ Owned(g) /\ Settle(g, r)
  BY LetGoKeepsHeap, LetGoCounts, LetGoKeepsRefs
<1> HIDE DEF g
<1>2. Sound(g, r, {})
  BY <1>1 DEF Sound
<1> QED BY <1>1, <1>2, SettleKeeps

LEMMA RebindKeeps ==
  ASSUME NEW x \in Names, NEW kind, NEW o, NEW h, NEW r, NEW more, Sound(h, r, more),
         r[x] = ref[x], RefOK(h, [kind |-> kind, obj |-> o]),
         \A p \in Objs : p \in more <=> kind \in OwnerKinds /\ o = p,
         Rebind(x, kind, o, h, r)
  PROVE  HeapInv'
<1> DEFINE n == [kind |-> kind, obj |-> o]
           q == [r EXCEPT ![x] = n]
<1>1. \A p \in Objs : p \in OwnedBy(x) <=> Owns(r[x], p)
  BY DEF OwnedBy, Owns, OwnerKinds
<1>2. \A p \in Objs : p \in more <=> Owns(n, p)
  BY DEF Owns
<1>3. Sound(h, q, OwnedBy(x))
  <2> HIDE DEF n
  <2> QED BY <1>1, <1>2, HandOver DEF n
<1>4. Settle(LetGo(h, OwnedBy(x)), q)
  BY DEF Rebind
<1> HIDE DEF q
<1> QED BY <1>3, <1>4, LetGoKeeps

-----------------------------------------------------------------------------
(* Changes of the heap.                                                    *)

LEMMA SameShape ==
  ASSUME NEW h, HeapOK(h), NEW g \in Heaps, NEW r, RefsOK(h, r),
         \A q \in Objs : /\ g[q].is = h[q].is /\ g[q].type = h[q].type /\ g[q].slots = h[q].slots
                         /\ h[q].is = "free" => g[q] = h[q]
  PROVE  /\ HeapOK(g) /\ RefsOK(g, r)
         /\ \A q : Holders(g, q) = Holders(h, q)
<1>1. ASSUME NEW o \in Objs, NEW s \in Slots PROVE SlotOK(g, o, s)
  <2>1. SlotOK(h, o, s) /\ h[o].slots[s] \in Objs \cup {Null}
    BY DEF HeapOK, Heaps, Entries
  <2> QED BY <2>1 DEF SlotOK
<1>2. \A o \in Objs : g[o].is = "free" => g[o] = Free
  BY DEF HeapOK
<1>3. \A q : Holders(g, q) = Holders(h, q)
  BY DEF Holders, HeldBy
<1>4. ASSUME NEW x \in Names PROVE RefOK(g, r[x])
  <2>1. RefOK(h, r[x])
    BY DEF RefsOK
  <2> QED BY <2>1 DEF RefOK
<1> QED BY <1>1, <1>2, <1>3, <1>4 DEF HeapOK, RefsOK

\* Every object of K is counted once more.
LEMMA CountedUp ==
  ASSUME NEW h, NEW r, Sound(h, r, {}), NEW K \in SUBSET Objs, \A q \in K : h[q].is = "shared",
         NEW g, g = [q \in Objs |-> IF q \in K THEN [h[q] EXCEPT !.strong = @ + 1] ELSE h[q]]
  PROVE  Sound(g, r, K)
<1>1. h \in Heaps /\ HeapOK(h) /\ RefsOK(h, r)
  BY DEF Sound, HeapOK
<1>2. \A e \in Entries : /\ [e EXCEPT !.strong = @ + 1] \in Entries
                         /\ [e EXCEPT !.strong = @ + 1].is = e.is
                         /\ [e EXCEPT !.strong = @ + 1].type = e.type
                         /\ [e EXCEPT !.strong = @ + 1].slots = e.slots
                         /\ [e EXCEPT !.strong = @ + 1].strong = e.strong + 1
  BY DEF Entries
<1>3. \A q \in Objs : h[q] \in Entries
  BY <1>1 DEF Heaps
<1>4. \A q \in Objs : /\ q \in K => g[q] = [h[q] EXCEPT !.strong = @ + 1]
                      /\ q \notin K => g[q] = h[q]
  OBVIOUS
<1>5. \A q \in Objs : g[q] \in Entries
  BY <1>2, <1>3, <1>4
<1>6. g \in Heaps
  BY <1>5 DEF Heaps
<1>7. \A q \in Objs : /\ g[q].is = h[q].is /\ g[q].type = h[q].type /\ g[q].slots = h[q].slots
                      /\ h[q].is = "free" => g[q] = h[q]
                      /\ q \in K => g[q].strong = h[q].strong + 1
  <2> SUFFICES ASSUME NEW q \in Objs
               PROVE  /\ g[q].is = h[q].is /\ g[q].type = h[q].type /\ g[q].slots = h[q].slots
                      /\ h[q].is = "free" => g[q] = h[q]
                      /\ q \in K => g[q].strong = h[q].strong + 1
    OBVIOUS
  <2>1. CASE q \in K
    <3>1. h[q].is # "free"
      BY <2>1
    <3> QED BY <1>2, <1>3, <1>4, <2>1, <3>1
  <2>2. CASE q \notin K
    BY <1>4, <2>2
  <2> QED BY <2>1, <2>2
<1>8. HeapOK(g) /\ RefsOK(g, r) /\ \A q : Holders(g, q) = Holders(h, q)
  BY <1>1, <1>6, <1>7, SameShape
<1>9. ASSUME NEW q \in Objs
      PROVE  CountOf(g, q) = Owners(g, r, q) + (IF q \in K THEN 1 ELSE 0)
  <2>1. CountOf(h, q) = Owners(h, r, q)
    <3>1. CountOf(h, q) = Owners(h, r, q) + 0
      BY DEF Sound, Counted
    <3> QED BY <3>1, OwnersCounted
  <2>2. Owners(g, r, q) = Owners(h, r, q)
    BY <1>8 DEF Owners
  <2>3. CASE q \in K
    <3>1. CountOf(g, q) = CountOf(h, q) + 1
      BY <1>7, <2>3 DEF CountOf
    <3> QED BY <2>1, <2>2, <2>3, <3>1
  <2>4. CASE q \notin K
    <3>1. CountOf(g, q) = CountOf(h, q)
      BY <1>4, <2>4 DEF CountOf
    <3> QED BY <2>1, <2>2, <2>4, <3>1, OwnersCounted
  <2> QED BY <2>3, <2>4
<1> QED BY <1>8, <1>9 DEF Sound, Counted

LEMMA SharesCounted ==
  ASSUME HeapInv, NEW o \in Objs, heap[o].is = "shared"
  PROVE  Sound(Shares(o), ref, {o})
<1>1. Sound(heap, ref, {}) /\ heap \in Heaps
  BY DEF HeapInv, Sound, HeapOK
<1>2. Shares(o) = [q \in Objs |-> IF q \in {o} THEN [heap[q] EXCEPT !.strong = @ + 1] ELSE heap[q]]
  BY <1>1 DEF Shares, Heaps
<1> DEFINE g == Shares(o)
<1> HIDE DEF g
<1>3. g = [q \in Objs |-> IF q \in {o} THEN [heap[q] EXCEPT !.strong = @ + 1] ELSE heap[q]]
  BY <1>2 DEF g
<1>4. Sound(g, ref, {o})
  BY <1>1, <1>3, CountedUp
<1> QED BY <1>4 DEF g

\* An object is held through the field of its kind and type only.
LEMMA HeldOnce ==
  ASSUME NEW h, HeapOK(h), NEW o \in Objs, NEW s \in Slots, NEW p \in Objs,
         h[p].is = s.kind, h[p].type = s.to
  PROVE  p \in HeldBy(h, o, Owning) <=> h[o].slots[s] = p
<1>1. s = [kind |-> s.kind, to |-> s.to] /\ s.kind \in Owning
  BY DEF Slots, Owning
<1>2. ASSUME p \in HeldBy(h, o, Owning) PROVE h[o].slots[s] = p
  BY <1>1, <1>2, HeldIsTyped
<1>3. ASSUME h[o].slots[s] = p PROVE p \in HeldBy(h, o, Owning)
  <2>1. p # Null
    BY OwnAssumption
  <2> QED BY <1>1, <1>3, <2>1, HeldBySlot
<1> QED BY <1>2, <1>3

\* References an object of h may hold in its fields, and those that replace
\* others when the objects of more have been counted and those of left are to be.
SlotsFit(h, o, slots) ==
  /\ slots \in [Slots -> Objs \cup {Null}]
  /\ \A s \in Slots : slots[s] # Null => /\ s \in holds[h[o].type]
                                         /\ h[slots[s]].is = s.kind /\ h[slots[s]].type = s.to

Exchange(more, left, old, new) ==
  \A p \in Objs :
    /\ (p \in more <=> p \in left) => (p \in new <=> p \in old)
    /\ p \in more /\ p \notin left => p \in new /\ p \notin old
    /\ p \notin more /\ p \in left => p \notin new /\ p \in old

\* The references of one object change.
LEMMA NewSlots ==
  ASSUME NEW h, NEW r, NEW more, Sound(h, r, more), NEW o \in Objs, h[o].is # "free",
         NEW slots, SlotsFit(h, o, slots), NEW g, g = [h EXCEPT ![o].slots = slots],
         NEW left, Exchange(more, left, HeldBy(h, o, Owning), HeldBy(g, o, Owning))
  PROVE  Sound(g, r, left)
<1>1. h \in Heaps /\ HeapOK(h) /\ RefsOK(h, r) /\ h[o] \in Entries
  BY DEF Sound, HeapOK, Heaps
<1>2. [h[o] EXCEPT !.slots = slots] \in Entries
  BY <1>1 DEF Entries, SlotsFit
<1>3. /\ g[o].is = h[o].is /\ g[o].type = h[o].type /\ g[o].strong = h[o].strong
      /\ g[o].slots = slots
      /\ \A q \in Objs : q # o => g[q] = h[q]
      /\ g \in Heaps
  <2>1. g[o] = [h[o] EXCEPT !.slots = slots] /\ \A q \in Objs : q # o => g[q] = h[q]
    BY <1>1 DEF Heaps
  <2>2. g \in Heaps
    BY <1>1, <1>2 DEF Heaps
  <2> QED BY <1>1, <2>1, <2>2 DEF Entries
<1>4. \A q \in Objs : g[q].is = h[q].is /\ g[q].type = h[q].type /\ g[q].strong = h[q].strong
  BY <1>3
<1>5. ASSUME NEW q \in Objs, NEW s \in Slots PROVE SlotOK(g, q, s)
  <2>1. CASE q = o
    <3>1. slots[s] \in Objs \cup {Null}
      BY DEF SlotsFit
    <3> QED BY <1>3, <1>4, <2>1, <3>1 DEF SlotOK, SlotsFit
  <2>2. CASE q # o
    <3>1. SlotOK(h, q, s) /\ h[q].slots[s] \in Objs \cup {Null}
      BY <1>1 DEF HeapOK, Heaps, Entries
    <3> QED BY <1>3, <1>4, <2>2, <3>1 DEF SlotOK
  <2> QED BY <2>1, <2>2
<1>6. HeapOK(g)
  BY <1>1, <1>3, <1>4, <1>5 DEF HeapOK
<1>7. RefsOK(g, r)
  <2>1. \A n \in Refs : RefOK(h, n) => RefOK(g, n)
    BY <1>4 DEF RefOK
  <2> QED BY <1>1, <2>1 DEF RefsOK
<1>8. ASSUME NEW p \in Objs
      PROVE  CountOf(g, p) = Owners(g, r, p) + (IF p \in left THEN 1 ELSE 0)
  <2> DEFINE S == Holders(h, p)
             T == Holders(g, p)
  <2>1. S \ {o} = T \ {o}
    <3>1. \A q \in Objs \ {o} : HeldBy(g, q, Owning) = HeldBy(h, q, Owning)
      BY <1>3 DEF HeldBy
    <3> QED BY <3>1 DEF Holders
  <2>2. (o \in S <=> p \in HeldBy(h, o, Owning)) /\ (o \in T <=> p \in HeldBy(g, o, Owning))
    BY DEF Holders
  <2>3. IsFiniteSet(S) /\ Owners(h, r, p) = Cardinality(Hands(r, p)) + Cardinality(S)
        /\ Owners(g, r, p) = Cardinality(Hands(r, p)) + Cardinality(T)
        /\ Cardinality(Hands(r, p)) \in Nat
    BY OwnersCounted DEF Owners
  <2>4. CountOf(g, p) = CountOf(h, p)
    BY <1>4 DEF CountOf
  <2>5. CountOf(h, p) = Owners(h, r, p) + (IF p \in more THEN 1 ELSE 0)
    BY DEF Sound, Counted
  <2> HIDE DEF S, T
  <2>6. /\ Cardinality(S) \in Nat /\ Cardinality(T) \in Nat
        /\ Cardinality(S) + (IF o \in T THEN 1 ELSE 0) = Cardinality(T) + (IF o \in S THEN 1 ELSE 0)
    BY <2>1, <2>3, OneElementDiffers
  <2>7. /\ (p \in more <=> p \in left) => (o \in T <=> o \in S)
        /\ p \in more /\ p \notin left => o \in T /\ o \notin S
        /\ p \notin more /\ p \in left => o \notin T /\ o \in S
    BY <2>2 DEF Exchange
  <2>8. CASE p \in more <=> p \in left
    BY <2>3, <2>4, <2>5, <2>6, <2>7, <2>8
  <2>9. CASE p \in more /\ p \notin left
    BY <2>3, <2>4, <2>5, <2>6, <2>7, <2>9
  <2>10. CASE p \notin more /\ p \in left
    BY <2>3, <2>4, <2>5, <2>6, <2>7, <2>10
  <2> QED BY <2>8, <2>9, <2>10
<1> QED BY <1>6, <1>7, <1>8 DEF Sound, Counted

\* A field takes the reference over that was counted for it, and leaves the
\* one it had.
LEMMA PutSlot ==
  ASSUME NEW h, NEW r, NEW more, Sound(h, r, more), NEW o \in Objs, h[o].is # "free",
         NEW s \in Slots, s \in holds[h[o].type], NEW v \in Objs \cup {Null},
         v # Null => h[v].is = s.kind /\ h[v].type = s.to,
         \A p \in Objs : p \in more <=> p = v
  PROVE  Sound([h EXCEPT ![o].slots[s] = v], r, {h[o].slots[s]} \ {Null})
<1> DEFINE slots == [h[o].slots EXCEPT ![s] = v]
           g == [h EXCEPT ![o].slots[s] = v]
           left == {h[o].slots[s]} \ {Null}
<1>1. h \in Heaps /\ HeapOK(h) /\ h[o] \in Entries /\ h[o].slots \in [Slots -> Objs \cup {Null}]
  BY DEF Sound, HeapOK, Heaps, Entries
<1>2. slots \in [Slots -> Objs \cup {Null}] /\ \A t \in Slots : slots[t] = IF t = s THEN v ELSE h[o].slots[t]
  BY <1>1
<1>3. g = [h EXCEPT ![o].slots = slots] /\ g[o].slots = slots
  BY <1>1 DEF Heaps, Entries
<1> HIDE DEF slots, g
<1>4. SlotsFit(h, o, slots)
  <2> SUFFICES ASSUME NEW t \in Slots, slots[t] # Null
               PROVE  /\ t \in holds[h[o].type]
                      /\ h[slots[t]].is = t.kind /\ h[slots[t]].type = t.to
    BY <1>2 DEF SlotsFit
  <2>1. CASE t = s
    BY <1>2, <2>1
  <2>2. CASE t # s
    <3>1. SlotOK(h, o, t)
      BY <1>1 DEF HeapOK
    <3> QED BY <1>2, <2>2, <3>1 DEF SlotOK
  <2> QED BY <2>1, <2>2
<1>5. ASSUME NEW p \in Objs
      PROVE  /\ (p \in more <=> p \in left) => (p \in HeldBy(g, o, Owning) <=> p \in HeldBy(h, o, Owning))
             /\ p \in more /\ p \notin left => p \in HeldBy(g, o, Owning) /\ p \notin HeldBy(h, o, Owning)
             /\ p \notin more /\ p \in left => p \notin HeldBy(g, o, Owning) /\ p \in HeldBy(h, o, Owning)
  <2>1. p # Null /\ (p \in left <=> h[o].slots[s] = p)
    BY OwnAssumption
  <2>2. p \in HeldBy(g, o, Owning) <=> \E t \in Slots : t.kind \in Owning /\ slots[t] = p
    BY <1>3, <2>1 DEF HeldBy
  <2>3. p \in HeldBy(h, o, Owning) <=> \E t \in Slots : t.kind \in Owning /\ h[o].slots[t] = p
    BY <2>1, HeldBySlot
  <2>4. s.kind \in Owning
    BY SlotKinds DEF Owning
  <2>5. CASE h[p].is = s.kind /\ h[p].type = s.to
    <3>1. p \in HeldBy(h, o, Owning) <=> h[o].slots[s] = p
      BY <1>1, <2>5, HeldOnce
    <3>2. p \in HeldBy(g, o, Owning) <=> p = v
      <4>1. ASSUME NEW t \in Slots, t # s PROVE slots[t] # p
        <5>1. SlotOK(h, o, t)
          BY <1>1 DEF HeapOK
        <5>2. h[o].slots[t] # p
          <6>1. t = [kind |-> t.kind, to |-> t.to] /\ s = [kind |-> s.kind, to |-> s.to]
            BY DEF Slots
          <6> QED BY <2>1, <2>5, <4>1, <5>1, <6>1 DEF SlotOK
        <5> QED BY <1>2, <4>1, <5>2
      <4>2. slots[s] = v
        BY <1>2
      <4> QED BY <2>2, <2>4, <4>1, <4>2
    <3> QED BY <2>1, <3>1, <3>2
  <2>6. CASE ~(h[p].is = s.kind /\ h[p].type = s.to)
    <3>1. p # v /\ p \notin more
      BY <2>1, <2>6
    <3>2. SlotOK(h, o, s)
      BY <1>1 DEF HeapOK
    <3>3. h[o].slots[s] # p
      BY <2>1, <2>6, <3>2 DEF SlotOK
    <3>4. \A t \in Slots : slots[t] = p <=> h[o].slots[t] = p
      BY <1>2, <3>1, <3>3
    <3> QED BY <2>1, <2>2, <2>3, <3>1, <3>3, <3>4
  <2> QED BY <2>5, <2>6
<1>6. Exchange(more, left, HeldBy(h, o, Owning), HeldBy(g, o, Owning))
  BY <1>5 DEF Exchange
<1> HIDE DEF left
<1>7. Sound(g, r, left)
  BY <1>3, <1>4, <1>6, NewSlots
<1> QED BY <1>7 DEF g, left

\* What an object that is copied or made holds.
EntryFits(h, e) ==
  /\ e \in Entries /\ e.is \in {"shared", "unique"} /\ (e.is = "shared" => e.strong = 1)
  /\ \A s \in Slots : e.slots[s] # Null => /\ s \in holds[e.type]
                                           /\ h[e.slots[s]].is = s.kind /\ h[e.slots[s]].type = s.to

LEMMA FreeIsUnowned ==
  ASSUME NEW h, NEW r, NEW more, Sound(h, r, more), NEW p \in Objs, h[p].is = "free"
  PROVE  Hands(r, p) = {} /\ Holders(h, p) = {} /\ p \notin more
<1>1. CountOf(h, p) = 0 /\ CountOf(h, p) = Owners(h, r, p) + (IF p \in more THEN 1 ELSE 0)
  BY DEF Sound, Counted, CountOf
<1>2. /\ Cardinality(Hands(r, p)) \in Nat /\ Cardinality(Holders(h, p)) \in Nat
      /\ IsFiniteSet(Hands(r, p)) /\ IsFiniteSet(Holders(h, p))
      /\ Owners(h, r, p) = Cardinality(Hands(r, p)) + Cardinality(Holders(h, p))
  BY OwnersCounted DEF Owners
<1>3. Cardinality(Hands(r, p)) = 0 /\ Cardinality(Holders(h, p)) = 0 /\ p \notin more
  BY <1>1, <1>2
<1> QED BY <1>2, <1>3, FS_EmptySet

\* An object takes a free place; those it holds are counted once more.
LEMMA PlacedHeap ==
  ASSUME NEW k, NEW r, NEW K, Sound(k, r, K), NEW p \in Objs, k[p].is = "free",
         NEW e, EntryFits(k, e), NEW g, g = [k EXCEPT ![p] = e]
  PROVE  HeapOK(g) /\ RefsOK(g, r)
<1>1. k \in Heaps /\ HeapOK(k) /\ RefsOK(k, r)
  BY DEF Sound, HeapOK
<1>2. g[p] = e /\ (\A q \in Objs : q # p => g[q] = k[q]) /\ g \in Heaps
  BY <1>1 DEF Heaps, EntryFits
<1>3. ASSUME NEW q \in Objs, NEW s \in Slots PROVE SlotOK(g, q, s)
  <2>1. s.kind # "free"
    BY SlotKinds
  <2>2. CASE q = p
    <3>1. e.slots[s] \in Objs \cup {Null}
      BY DEF EntryFits, Entries
    <3>2. e.slots[s] # Null => /\ s \in holds[e.type] /\ k[e.slots[s]].is = s.kind
                               /\ k[e.slots[s]].type = s.to /\ e.slots[s] # p
      BY <2>1 DEF EntryFits
    <3>3. e.is # "free"
      BY DEF EntryFits
    <3> QED BY <1>2, <2>2, <3>1, <3>2, <3>3 DEF SlotOK
  <2>3. CASE q # p
    <3>1. SlotOK(k, q, s) /\ k[q].slots[s] \in Objs \cup {Null}
      BY <1>1 DEF HeapOK, Heaps, Entries
    <3>2. k[q].slots[s] # Null => k[q].slots[s] # p
      BY <2>1, <3>1 DEF SlotOK
    <3> QED BY <1>2, <2>3, <3>1, <3>2 DEF SlotOK
  <2> QED BY <2>2, <2>3
<1>4. \A q \in Objs : g[q].is = "free" => g[q] = Free
  BY <1>1, <1>2 DEF EntryFits, HeapOK
<1>5. RefsOK(g, r)
  <2>1. \A n \in Refs : RefOK(k, n) => RefOK(g, n)
    BY <1>2 DEF RefOK
  <2> QED BY <1>1, <2>1 DEF RefsOK
<1> QED BY <1>2, <1>3, <1>4, <1>5 DEF HeapOK

LEMMA Placed ==
  ASSUME NEW k, NEW r, NEW K, Sound(k, r, K), NEW p \in Objs, k[p].is = "free",
         NEW e, EntryFits(k, e), \A q \in Objs : q \in K <=> \E s \in Slots : e.slots[s] = q,
         NEW g, g = [k EXCEPT ![p] = e]
  PROVE  Sound(g, r, {p})
<1>0. HeapOK(g) /\ RefsOK(g, r)
  BY PlacedHeap
<1>1. g[p] = e /\ \A q \in Objs : q # p => g[q] = k[q]
  BY DEF Sound, HeapOK, Heaps
<1>2. Hands(r, p) = {} /\ Holders(k, p) = {} /\ p \notin K
  BY FreeIsUnowned
<1>3. \A q \in Objs \ {p} : HeldBy(g, q, Owning) = HeldBy(k, q, Owning)
  BY <1>1 DEF HeldBy
<1>4. \A q \in Objs : q \in HeldBy(g, p, Owning) <=> q \in K
  <2>1. \A q \in Objs : q # Null
    BY OwnAssumption
  <2>2. \A s \in Slots : s.kind \in Owning
    BY SlotKinds DEF Owning
  <2> QED BY <1>1, <2>1, <2>2 DEF HeldBy
<1>5. HeldBy(k, p, Owning) = {}
  <2>1. k[p] = Free
    BY DEF Sound, HeapOK
  <2> QED BY <2>1 DEF HeldBy, Free
<1>6. ASSUME NEW q \in Objs
      PROVE  CountOf(g, q) = Owners(g, r, q) + (IF q \in {p} THEN 1 ELSE 0)
  <2>1. CASE q = p
    <3>1. Holders(g, p) = {}
      BY <1>2, <1>3, <1>4 DEF Holders
    <3>2. CountOf(g, p) = 1
      BY <1>1 DEF CountOf, EntryFits
    <3>3. Cardinality({}) = 0
      BY FS_EmptySet
    <3>4. Cardinality(Hands(r, p)) = 0 /\ Cardinality(Holders(g, p)) = 0
      BY <1>2, <3>1, <3>3
    <3>5. Owners(g, r, p) = 0
      BY <3>4 DEF Owners
    <3> QED BY <2>1, <3>2, <3>5
  <2>2. CASE q # p
    <3> DEFINE S == Holders(k, q)
               T == Holders(g, q)
    <3>1. S \ {p} = T \ {p} /\ p \notin S /\ (p \in T <=> q \in K)
      BY <1>3, <1>4, <1>5 DEF Holders
    <3>2. IsFiniteSet(S) /\ Owners(k, r, q) = Cardinality(Hands(r, q)) + Cardinality(S)
          /\ Owners(g, r, q) = Cardinality(Hands(r, q)) + Cardinality(T)
          /\ Cardinality(Hands(r, q)) \in Nat
      BY OwnersCounted DEF Owners
    <3>3. CountOf(g, q) = CountOf(k, q)
      BY <1>1, <2>2 DEF CountOf
    <3>4. CountOf(k, q) = Owners(k, r, q) + (IF q \in K THEN 1 ELSE 0)
      BY DEF Sound, Counted
    <3> HIDE DEF S, T
    <3>5. /\ Cardinality(S) \in Nat /\ Cardinality(T) \in Nat
          /\ Cardinality(S) + (IF p \in T THEN 1 ELSE 0) = Cardinality(T) + (IF p \in S THEN 1 ELSE 0)
      BY <3>1, <3>2, OneElementDiffers
    <3>6. q \notin {p}
      BY <2>2
    <3>7. CASE q \in K
      BY <3>1, <3>2, <3>3, <3>4, <3>5, <3>6, <3>7
    <3>8. CASE q \notin K
      BY <3>1, <3>2, <3>3, <3>4, <3>5, <3>6, <3>8
    <3> QED BY <3>7, <3>8
  <2> QED BY <2>1, <2>2
<1> QED BY <1>0, <1>6 DEF Sound, Counted

\* Its only owner turns an object of one kind into one of the other kind.
LEMMA Turned ==
  ASSUME HeapInv, NEW x \in Names, ref[x].kind \in {"shared", "unique"},
         CountOf(heap, ref[x].obj) = 1,
         NEW kind \in {"shared", "unique"}, NEW n \in Nat, kind = "shared" => n = 1,
         NEW g, g = [heap EXCEPT ![ref[x].obj].is = kind, ![ref[x].obj].strong = n],
         NEW r, r = [ref EXCEPT ![x].kind = kind]
  PROVE  Sound(g, r, {}) /\ Owned(g)
<1> DEFINE o == ref[x].obj
<1>1. /\ heap \in Heaps /\ HeapOK(heap) /\ RefsOK(heap, ref) /\ ref \in [Names -> Refs]
      /\ RefOK(heap, ref[x]) /\ ref[x] \in Refs /\ Counted(heap, ref, {}) /\ Owned(heap)
  BY DEF HeapInv, Sound, HeapOK, RefsOK
<1>2. o \in Objs /\ heap[o] \in Entries /\ heap[o].is \in {"shared", "unique"}
  BY <1>1 DEF RefOK, Heaps
<1>3. x \in Hands(ref, o)
  BY DEF Hands, Owns, OwnerKinds
<1>4. Hands(ref, o) = {x} /\ Holders(heap, o) = {}
  <2>1. Owners(heap, ref, o) = 1
    <3>1. CountOf(heap, o) = Owners(heap, ref, o) + 0
      BY <1>1, <1>2 DEF Counted
    <3> QED BY <3>1, OwnersCounted
  <2>2. /\ Cardinality(Hands(ref, o)) \in Nat /\ Cardinality(Holders(heap, o)) \in Nat
        /\ IsFiniteSet(Hands(ref, o)) /\ IsFiniteSet(Holders(heap, o))
        /\ Owners(heap, ref, o) = Cardinality(Hands(ref, o)) + Cardinality(Holders(heap, o))
    BY OwnersCounted DEF Owners
  <2>3. Cardinality(Hands(ref, o)) # 0
    BY <1>3, <2>2, FS_EmptySet
  <2>4. Cardinality(Hands(ref, o)) = 1 /\ Cardinality(Holders(heap, o)) = 0
    BY <2>1, <2>2, <2>3
  <2>5. PICK y : Hands(ref, o) = {y}
    BY <2>2, <2>4, FS_Singleton
  <2> QED BY <1>3, <2>2, <2>4, <2>5, FS_EmptySet
<1>5. /\ g[o].is = kind /\ g[o].type = heap[o].type /\ g[o].strong = n /\ g[o].slots = heap[o].slots
      /\ g[o] \in Entries
      /\ \A q \in Objs : q # o => g[q] = heap[q]
  <2>1. g = [heap EXCEPT ![o] = [[heap[o] EXCEPT !.is = kind] EXCEPT !.strong = n]]
    BY <1>1, <1>2 DEF Heaps
  <2>2. g[o] = [[heap[o] EXCEPT !.is = kind] EXCEPT !.strong = n]
    BY <1>1, <1>2, <2>1 DEF Heaps
  <2>3. \A q \in Objs : q # o => g[q] = heap[q]
    BY <1>1, <1>2, <2>1 DEF Heaps
  <2>4. \A e \in Entries :
          LET f == [[e EXCEPT !.is = kind] EXCEPT !.strong = n]
          IN  /\ f.is = kind /\ f.type = e.type /\ f.strong = n /\ f.slots = e.slots
              /\ f \in Entries
    BY DEF Entries
  <2> HIDE DEF o
  <2> QED BY <1>2, <2>2, <2>3, <2>4
<1>6. g \in Heaps
  <2>1. DOMAIN g = Objs /\ g = [q \in Objs |-> g[q]]
    BY <1>1 DEF Heaps
  <2> HIDE DEF o
  <2>2. \A q \in Objs : g[q] \in Entries
    BY <1>1, <1>5 DEF Heaps
  <2> QED BY <2>1, <2>2 DEF Heaps
<1>7. /\ r \in [Names -> Refs] /\ r[x].kind = kind /\ r[x].obj = o /\ r[x] \in Refs
      /\ \A y \in Names : y # x => r[y] = ref[y]
  BY <1>1 DEF Refs
<1> HIDE DEF o
<1>8. HeapOK(g)
  <2>1. ASSUME NEW q \in Objs, NEW s \in Slots PROVE SlotOK(g, q, s)
    <3>1. SlotOK(heap, q, s) /\ heap[q].slots[s] \in Objs \cup {Null}
      BY <1>1 DEF HeapOK, Heaps, Entries
    <3>2. heap[q].slots[s] # o
      <4>1. s.kind \in Owning /\ o # Null
        BY <1>2, SlotKinds, OwnAssumption DEF Owning
      <4>2. heap[q].slots[s] = o => o \in HeldBy(heap, q, Owning)
        BY <4>1, HeldBySlot
      <4> QED BY <1>4, <4>2 DEF Holders
    <3>3. g[q].slots = heap[q].slots /\ g[q].type = heap[q].type
      BY <1>5
    <3>4. g[q].is # "free" <=> heap[q].is # "free"
      BY <1>2, <1>5
    <3> QED BY <1>5, <3>1, <3>2, <3>3, <3>4 DEF SlotOK
  <2>2. \A q \in Objs : g[q].is = "free" => g[q] = Free
    BY <1>1, <1>5 DEF HeapOK
  <2> QED BY <1>6, <2>1, <2>2 DEF HeapOK
<1>9. RefsOK(g, r)
  <2>1. ASSUME NEW y \in Names PROVE RefOK(g, r[y])
    <3>1. CASE y = x
      BY <1>2, <1>5, <1>7, <3>1 DEF RefOK
    <3>2. CASE y # x
      <4>1. RefOK(heap, ref[y])
        BY <1>1 DEF RefsOK
      <4>2. ref[y].kind \in OwnerKinds => ref[y].obj # o
        BY <1>4, <3>2 DEF Hands, Owns
      <4> QED BY ZenonT(30), <1>5, <1>7, <3>2, <4>1, <4>2 DEF RefOK, OwnerKinds
    <3> QED BY <3>1, <3>2
  <2> QED BY <1>7, <2>1 DEF RefsOK
<1>10. ASSUME NEW p \in Objs
       PROVE  CountOf(g, p) = CountOf(heap, p) /\ Owners(g, r, p) = Owners(heap, ref, p)
  <2>1. CountOf(g, p) = CountOf(heap, p)
    <3>1. CASE p = o
      BY <1>5, <3>1 DEF CountOf, o
    <3>2. CASE p # o
      <4>1. g[p] = heap[p]
        BY <1>5, <3>2
      <4> QED BY <4>1 DEF CountOf
    <3> QED BY <3>1, <3>2
  <2>2. Holders(g, p) = Holders(heap, p)
    <3>1. \A q \in Objs : g[q].slots = heap[q].slots
      BY <1>5
    <3> QED BY ZenonT(30), <3>1 DEF Holders, HeldBy
  <2>3. Hands(r, p) = Hands(ref, p)
    <3>1. \A y \in Names : Owns(r[y], p) <=> Owns(ref[y], p)
      BY <1>7 DEF Owns, OwnerKinds, o
    <3> QED BY <3>1 DEF Hands
  <2> QED BY <2>1, <2>2, <2>3 DEF Owners
<1>11. Owned(g)
  <2>1. \A p \in Objs : g[p].is # "free" => heap[p].is # "free"
    BY <1>2, <1>5
  <2> QED BY <1>1, <1>10, <2>1 DEF Owned
<1>12. Counted(g, r, {})
  BY <1>1, <1>10 DEF Counted
<1> QED BY <1>8, <1>9, <1>11, <1>12 DEF Sound
-----------------------------------------------------------------------------
(* The operations.                                                         *)

LEMMA HeapParts ==
  ASSUME HeapInv
  PROVE  /\ Sound(heap, ref, {}) /\ heap \in Heaps /\ HeapOK(heap) /\ Owned(heap)
         /\ ref \in [Names -> Refs] /\ \A x \in Names : RefOK(heap, ref[x]) /\ ref[x] \in Refs
         /\ \A o \in Objs : heap[o] \in Entries
BY DEF HeapInv, Sound, HeapOK, RefsOK, Heaps

LEMMA OwnerAlive ==
  ASSUME HeapInv, NEW x \in Names
  PROVE  /\ OwnedBy(x) \subseteq {o \in Objs : heap[o].is # "free"}
         /\ ref[x].kind \in {"shared", "guard"} => ref[x].obj \in Objs /\ heap[ref[x].obj].is = "shared"
         /\ ref[x].kind = "unique" => ref[x].obj \in Objs /\ heap[ref[x].obj].is = "unique"
         /\ ref[x].kind = "weak" /\ ref[x].obj # Null =>
              ref[x].obj \in Objs /\ heap[ref[x].obj].is = "shared"
<1>1. RefOK(heap, ref[x]) /\ Observed(heap, ref)
  BY DEF HeapInv, Sound, RefsOK
<1> QED BY <1>1 DEF RefOK, Observed, OwnedBy, Refs

\* A program only gets at what is there.
LEMMA ReachedAlive ==
  ASSUME HeapInv, NEW o \in Reached
  PROVE  o \in Objs /\ heap[o].is # "free"
<1> DEFINE alive == {q \in Objs : heap[q].is # "free"}
           next == [q \in Objs |-> HeldBy(heap, q, Owning)]
<1>1. Roots \subseteq alive
  BY OwnerAlive DEF Roots
<1>2. \A q \in alive : next[q] \subseteq alive
  <2> SUFFICES ASSUME NEW q \in Objs, NEW p \in HeldBy(heap, q, Owning)
               PROVE  p \in Objs /\ heap[p].is # "free"
    OBVIOUS
  <2>1. HeapOK(heap)
    BY HeapParts
  <2> QED BY <2>1, HeldIsTyped
<1>3. o \in Closure(Objs, Roots, next)
  BY DEF Reached, From
<1>4. alive \in SUBSET Objs
  OBVIOUS
<1> HIDE DEF alive, next
<1>5. o \in alive
  BY <1>1, <1>2, <1>3, <1>4, ClosureIsLeast
<1> QED BY <1>5 DEF alive

LEMMA MakeKeeps ==
  ASSUME HeapInv, NEW x \in Names, NEW kind \in {"shared", "unique"}, NEW t \in Types,
         Make(x, kind, t)
  PROVE  HeapInv'
<1> DEFINE e == [Free EXCEPT !.is = kind, !.type = t, !.strong = IF kind = "shared" THEN 1 ELSE 0]
<1>1. PICK o \in Objs : heap[o].is = "free" /\ Rebind(x, kind, o, [heap EXCEPT ![o] = e], ref)
  BY DEF Make
<1> DEFINE g == [heap EXCEPT ![o] = e]
<1>2. Sound(heap, ref, {}) /\ heap \in Heaps
  BY HeapParts
<1>3. /\ e.is = kind /\ e.type = t /\ e.slots = Free.slots /\ (kind = "shared" => e.strong = 1)
      /\ e \in Entries
  BY DEF Free, Entries
<1>4. \A s \in Slots : e.slots[s] = Null
  BY <1>3 DEF Free
<1> HIDE DEF e
<1>5. EntryFits(heap, e)
  BY <1>3, <1>4 DEF EntryFits
<1> DEFINE none == {}
<1>6. Sound(heap, ref, none) /\ \A q \in Objs : q \in none <=> \E s \in Slots : e.slots[s] = q
  BY <1>2, <1>4, OwnAssumption
<1> HIDE DEF none
<1>7. g[o] = e
  BY <1>2 DEF Heaps
<1>8. g = [heap EXCEPT ![o] = e]
  OBVIOUS
<1> HIDE DEF g
<1>9. Sound(g, ref, {o})
  BY <1>1, <1>5, <1>6, <1>8, Placed
<1>10. RefOK(g, [kind |-> kind, obj |-> o])
  BY <1>3, <1>7 DEF RefOK, Refs
<1>11. \A p \in Objs : p \in {o} <=> kind \in OwnerKinds /\ o = p
  BY DEF OwnerKinds
<1>12. Rebind(x, kind, o, g, ref)
  BY <1>1 DEF g
<1> QED BY <1>9, <1>10, <1>11, <1>12, RebindKeeps

\* A shared owner more: copies, locks, and loads of a shared field.
LEMMA ShareKeeps ==
  ASSUME HeapInv, NEW x \in Names, NEW kind \in {"shared", "guard"}, NEW o \in Objs,
         heap[o].is = "shared", Rebind(x, kind, o, Shares(o), ref)
  PROVE  HeapInv'
<1> DEFINE g == Shares(o)
<1>1. g[o].is = "shared"
  <2>1. heap[o] \in Entries /\ heap \in Heaps
    BY HeapParts
  <2>2. g[o] = [heap[o] EXCEPT !.strong = @ + 1]
    BY <2>1 DEF Shares, Heaps
  <2> QED BY <2>1, <2>2 DEF Entries
<1>2. Sound(g, ref, {o})
  BY SharesCounted
<1>3. Rebind(x, kind, o, g, ref)
  OBVIOUS
<1> HIDE DEF g
<1>4. RefOK(g, [kind |-> kind, obj |-> o])
  BY <1>1 DEF RefOK, Refs
<1>5. \A p \in Objs : p \in {o} <=> kind \in OwnerKinds /\ o = p
  BY DEF OwnerKinds
<1> QED BY <1>2, <1>3, <1>4, <1>5, RebindKeeps

LEMMA CopyKeeps ==
  ASSUME HeapInv, NEW x \in Names, NEW y \in Names, Copy(x, y)
  PROVE  HeapInv'
BY OwnerAlive, ShareKeeps DEF Copy

LEMMA LockKeeps ==
  ASSUME HeapInv, NEW x \in Names, NEW y \in Names, Lock(x, y)
  PROVE  HeapInv'
BY OwnerAlive, ShareKeeps DEF Lock

LEMMA ShareThisKeeps ==
  ASSUME HeapInv, NEW x \in Names, NEW y \in Names, ShareThis(x, y)
  PROVE  HeapInv'
BY OwnerAlive, ShareKeeps DEF ShareThis

\* A variable gives what it owns away.
LEMMA GivenUp ==
  ASSUME HeapInv, NEW y \in Names, ref[y].kind \in {"shared", "unique"}
  PROVE  /\ Sound(heap, [ref EXCEPT ![y] = Nothing], {ref[y].obj})
         /\ RefOK(heap, ref[y]) /\ ref[y].obj \in Objs
<1>1. Sound(heap, ref, {}) /\ ref[y].obj \in Objs /\ RefOK(heap, ref[y])
  BY HeapParts, OwnerAlive
<1>2. RefOK(heap, Nothing)
  BY DEF RefOK, Nothing, Refs
<1>3. \A p \in Objs : (p \in {} <=> Owns(Nothing, p)) /\ (p \in {ref[y].obj} <=> Owns(ref[y], p))
  BY DEF Owns, OwnerKinds, Nothing
<1> QED BY <1>1, <1>2, <1>3, HandOver

LEMMA MoveToKeeps ==
  ASSUME HeapInv, NEW x \in Names, NEW y \in Names, MoveTo(x, y)
  PROVE  HeapInv'
<1> DEFINE r == [ref EXCEPT ![y] = Nothing]
           o == ref[y].obj
           kind == ref[y].kind
<1>1. kind \in {"shared", "unique"} /\ x # y /\ Rebind(x, kind, o, heap, r)
  BY DEF MoveTo
<1>2. Sound(heap, r, {o}) /\ RefOK(heap, ref[y]) /\ o \in Objs
  BY <1>1, GivenUp
<1>3. r[x] = ref[x]
  BY <1>1, HeapParts
<1>4. RefOK(heap, [kind |-> kind, obj |-> o])
  BY <1>1, <1>2 DEF RefOK, Refs
<1>5. \A p \in Objs : p \in {o} <=> kind \in OwnerKinds /\ o = p
  BY <1>1 DEF OwnerKinds
<1> HIDE DEF r, o, kind
<1> QED BY <1>1, <1>2, <1>3, <1>4, <1>5, RebindKeeps

LEMMA WeakenKeeps ==
  ASSUME HeapInv, NEW x \in Names, NEW y \in Names, Weaken(x, y)
  PROVE  HeapInv'
<1>1. ref[y].obj \in Objs /\ Rebind(x, "weak", ref[y].obj, heap, ref) /\ Sound(heap, ref, {})
  BY OwnerAlive, HeapParts DEF Weaken
<1>2. RefOK(heap, [kind |-> "weak", obj |-> ref[y].obj])
  BY <1>1 DEF RefOK, Refs
<1>3. \A p \in Objs : p \in {} <=> "weak" \in OwnerKinds /\ ref[y].obj = p
  BY DEF OwnerKinds
<1> QED BY <1>1, <1>2, <1>3, RebindKeeps

LEMMA DropKeeps ==
  ASSUME HeapInv, NEW x \in Names, Drop(x)
  PROVE  HeapInv'
<1>1. Rebind(x, "none", Null, heap, ref) /\ Sound(heap, ref, {})
  BY HeapParts DEF Drop
<1>2. RefOK(heap, [kind |-> "none", obj |-> Null])
  BY DEF RefOK, Refs
<1>3. \A p \in Objs : p \in {} <=> "none" \in OwnerKinds /\ Null = p
  BY DEF OwnerKinds
<1> QED BY <1>1, <1>2, <1>3, RebindKeeps

LEMMA StoreKeeps ==
  ASSUME HeapInv, NEW o \in Objs, NEW s \in Slots, NEW y \in Names, Store(o, s, y)
  PROVE  HeapInv'
<1> DEFINE p == ref[y].obj
           h == Shares(p)
           g == [h EXCEPT ![o].slots[s] = p]
           left == {heap[o].slots[s]} \ {Null}
<1>1. /\ o \in Reached /\ s \in holds[heap[o].type] /\ s.kind = "shared" /\ ref[y].kind = "shared"
      /\ heap[p].type = s.to /\ Settle(LetGo(g, left), ref)
  BY DEF Store, SlotOf
<1>2. heap[o].is # "free" /\ p \in Objs /\ heap[p].is = "shared" /\ heap \in Heaps
  BY <1>1, ReachedAlive, OwnerAlive, HeapParts
<1>3. Sound(h, ref, {p})
  BY <1>2, SharesCounted
<1>4. \A q \in Objs : h[q].is = heap[q].is /\ h[q].type = heap[q].type /\ h[q].slots = heap[q].slots
  <2>1. \A q \in Objs : h[q] = IF q = p THEN [heap[q] EXCEPT !.strong = @ + 1] ELSE heap[q]
    BY <1>2 DEF Shares, Heaps
  <2>2. \A q \in Objs : heap[q] \in Entries
    BY HeapParts
  <2> QED BY <2>1, <2>2 DEF Entries
<1> HIDE DEF h
<1>5. Sound(g, ref, {h[o].slots[s]} \ {Null})
  <2>1. h[o].is # "free" /\ s \in holds[h[o].type] /\ h[p].is = s.kind /\ h[p].type = s.to
    BY <1>1, <1>2, <1>4
  <2> HIDE DEF p
  <2>2. \A q \in Objs : q \in {p} <=> q = p
    OBVIOUS
  <2> QED BY <1>2, <1>3, <2>1, <2>2, PutSlot
<1>6. Sound(g, ref, left)
  BY <1>4, <1>5
<1> HIDE DEF g, left
<1> QED BY <1>1, <1>6, LetGoKeeps

LEMMA StoreMovedKeeps ==
  ASSUME HeapInv, NEW o \in Objs, NEW s \in Slots, NEW y \in Names, StoreMoved(o, s, y)
  PROVE  HeapInv'
<1> DEFINE p == ref[y].obj
           r == [ref EXCEPT ![y] = Nothing]
           g == [heap EXCEPT ![o].slots[s] = p]
           left == {heap[o].slots[s]} \ {Null}
<1>1. /\ o \in Reached /\ s \in holds[heap[o].type] /\ s.kind = "unique" /\ ref[y].kind = "unique"
      /\ heap[p].type = s.to /\ Settle(LetGo(g, left), r)
  BY DEF StoreMoved, SlotOf
<1>2. heap[o].is # "free" /\ p \in Objs /\ heap[p].is = "unique"
  BY <1>1, ReachedAlive, OwnerAlive
<1>3. Sound(heap, r, {p})
  BY <1>1, GivenUp
<1> HIDE DEF r, p
<1>4. \A q \in Objs : q \in {p} <=> q = p
  OBVIOUS
<1>5. Sound(g, r, left)
  BY <1>1, <1>2, <1>3, <1>4, PutSlot
<1> HIDE DEF g, left
<1> QED BY <1>1, <1>5, LetGoKeeps

LEMMA Emptied ==
  ASSUME HeapInv, NEW o \in Objs, NEW s \in Slots, SlotOf(o, s)
  PROVE  Sound([heap EXCEPT ![o].slots[s] = Null], ref, {heap[o].slots[s]} \ {Null})
<1>1. heap[o].is # "free" /\ s \in holds[heap[o].type] /\ Sound(heap, ref, {})
  BY ReachedAlive, HeapParts DEF SlotOf
<1> DEFINE none == {}
           v == Null
<1>2. \A q \in Objs : q \in none <=> q = v
  BY OwnAssumption
<1>3. v \in Objs \cup {Null} /\ (v # Null => heap[v].is = s.kind /\ heap[v].type = s.to)
  OBVIOUS
<1>4. Sound(heap, ref, none)
  BY <1>1
<1> HIDE DEF none, v
<1>5. Sound([heap EXCEPT ![o].slots[s] = v], ref, {heap[o].slots[s]} \ {Null})
  BY <1>1, <1>2, <1>3, <1>4, PutSlot
<1> QED BY <1>5 DEF v

LEMMA ClearKeeps ==
  ASSUME HeapInv, NEW o \in Objs, NEW s \in Slots, Clear(o, s)
  PROVE  HeapInv'
<1> DEFINE g == [heap EXCEPT ![o].slots[s] = Null]
           p == heap[o].slots[s]
<1>1. SlotOf(o, s) /\ p # Null /\ Settle(LetGo(g, {p}), ref)
  BY DEF Clear
<1>2. Sound(g, ref, {p} \ {Null})
  BY <1>1, Emptied
<1>3. {p} \ {Null} = {p}
  BY <1>1
<1> HIDE DEF g, p
<1> QED BY <1>1, <1>2, <1>3, LetGoKeeps

LEMMA LoadKeeps ==
  ASSUME HeapInv, NEW x \in Names, NEW o \in Objs, NEW s \in Slots, Load(x, o, s)
  PROVE  HeapInv'
<1> DEFINE g == [heap EXCEPT ![o].slots[s] = Null]
           p == heap[o].slots[s]
<1>1. /\ SlotOf(o, s) /\ p # Null
      /\ \/ s.kind = "shared" /\ Rebind(x, "shared", p, Shares(p), ref)
         \/ s.kind = "unique" /\ Rebind(x, "unique", p, g, ref)
  BY DEF Load
<1>2. heap \in Heaps /\ heap[o] \in Entries /\ SlotOK(heap, o, s)
  BY HeapParts DEF HeapOK
<1>3. p \in Objs /\ heap[p].is = s.kind
  BY <1>1, <1>2 DEF SlotOK, Entries
<1>4. CASE s.kind = "shared"
  <2>1. Rebind(x, "shared", p, Shares(p), ref) /\ heap[p].is = "shared"
    BY <1>1, <1>3, <1>4
  <2> HIDE DEF p
  <2> QED BY <1>3, <2>1, ShareKeeps
<1>5. CASE s.kind = "unique"
  <2>1. Sound(g, ref, {p} \ {Null}) /\ {p} \ {Null} = {p}
    BY <1>1, Emptied
  <2>2. g[p].is = "unique"
    <3>1. \A q \in Objs : g[q].is = heap[q].is
      BY <1>2 DEF Heaps, Entries
    <3> QED BY <1>3, <1>5, <3>1
  <2>3. Rebind(x, "unique", p, g, ref)
    BY <1>1, <1>5
  <2> HIDE DEF g, p
  <2>4. RefOK(g, [kind |-> "unique", obj |-> p])
    BY <1>3, <2>2 DEF RefOK, Refs
  <2>5. \A q \in Objs : q \in {p} <=> "unique" \in OwnerKinds /\ p = q
    BY DEF OwnerKinds
  <2>6. Sound(g, ref, {p})
    BY <2>1
  <2> QED BY <2>3, <2>4, <2>5, <2>6, RebindKeeps
<1> QED BY <1>1, <1>4, <1>5

LEMMA PromoteKeeps ==
  ASSUME HeapInv, NEW x \in Names, Promote(x)
  PROVE  HeapInv'
<1> DEFINE g == [heap EXCEPT ![ref[x].obj].is = "shared", ![ref[x].obj].strong = 1]
           r == [ref EXCEPT ![x].kind = "shared"]
<1>1. ref[x].kind = "unique" /\ Settle(g, r)
  BY DEF Promote
<1>2. CountOf(heap, ref[x].obj) = 1
  BY <1>1, OwnerAlive DEF CountOf
<1>3. Sound(g, r, {}) /\ Owned(g)
  BY <1>1, <1>2, Turned
<1> HIDE DEF g, r
<1> QED BY <1>1, <1>3, SettleKeeps

LEMMA DemoteKeeps ==
  ASSUME HeapInv, NEW x \in Names, Demote(x)
  PROVE  HeapInv'
<1> DEFINE g == [heap EXCEPT ![ref[x].obj].is = "unique", ![ref[x].obj].strong = 0]
           r == [ref EXCEPT ![x].kind = "unique"]
<1>1. ref[x].kind = "shared" /\ heap[ref[x].obj].strong = 1 /\ Settle(g, r)
  BY DEF Demote
<1>2. CountOf(heap, ref[x].obj) = 1
  BY <1>1, OwnerAlive DEF CountOf
<1>3. Sound(g, r, {}) /\ Owned(g)
  BY <1>1, <1>2, Turned
<1> HIDE DEF g, r
<1> QED BY <1>1, <1>3, SettleKeeps

\* What a copy holds is shared, and counted for the copy.
LEMMA RetainedCounted ==
  ASSUME HeapInv, NEW o \in Objs, Copyable(o)
  PROVE  LET K == HeldBy(heap, o, {"shared"})
             k == Retained(heap, o)
         IN  /\ K \in SUBSET Objs
             /\ \A q \in Objs : q \in K <=> \E s \in Slots : heap[o].slots[s] = q
             /\ Sound(k, ref, K)
             /\ \A q \in Objs : /\ k[q].is = heap[q].is /\ k[q].type = heap[q].type
                                /\ k[q].slots = heap[q].slots
<1> DEFINE K == HeldBy(heap, o, {"shared"})
           k == Retained(heap, o)
<1>1. HeapOK(heap) /\ heap \in Heaps /\ Sound(heap, ref, {}) /\ \A q \in Objs : heap[q] \in Entries
  BY HeapParts
<1>2. K \in SUBSET Objs /\ \A q \in K : heap[q].is = "shared"
  <2> SUFFICES ASSUME NEW q \in HeldBy(heap, o, {"shared"}) PROVE q \in Objs /\ heap[q].is = "shared"
    OBVIOUS
  <2>1. q \in Objs /\ heap[q].is \in {"shared"}
    BY <1>1, HeldIsTyped
  <2> QED BY <2>1
<1>3. ASSUME NEW q \in Objs PROVE q \in K <=> \E s \in Slots : heap[o].slots[s] = q
  <2>1. \A s \in Slots : heap[o].slots[s] = q => s.kind = "shared"
    <3> SUFFICES ASSUME NEW s \in Slots, heap[o].slots[s] = q PROVE s.kind = "shared"
      OBVIOUS
    <3>1. SlotOK(heap, o, s) /\ q # Null
      BY <1>1, OwnAssumption DEF HeapOK
    <3> QED BY <3>1 DEF SlotOK, Copyable
  <2>2. q # Null
    BY OwnAssumption
  <2> QED BY <2>1, <2>2 DEF HeldBy
<1>4. k = [q \in Objs |-> IF q \in K THEN [heap[q] EXCEPT !.strong = @ + 1] ELSE heap[q]]
  BY DEF Retained
<1> HIDE DEF K, k
<1>5. Sound(k, ref, K)
  BY <1>1, <1>2, <1>4, CountedUp
<1>6. \A q \in Objs : /\ k[q].is = heap[q].is /\ k[q].type = heap[q].type
                      /\ k[q].slots = heap[q].slots
  <2>1. \A e \in Entries : /\ [e EXCEPT !.strong = @ + 1].is = e.is
                           /\ [e EXCEPT !.strong = @ + 1].type = e.type
                           /\ [e EXCEPT !.strong = @ + 1].slots = e.slots
    BY DEF Entries
  <2>2. \A q \in Objs : k[q] = [heap[q] EXCEPT !.strong = @ + 1] \/ k[q] = heap[q]
    BY <1>4
  <2> QED BY <1>1, <2>1, <2>2
<1> QED BY <1>2, <1>3, <1>5, <1>6 DEF K, k

LEMMA CopiedKeeps ==
  ASSUME HeapInv, NEW x \in Names, NEW kind \in {"shared", "unique"}, NEW o \in Objs,
         heap[o].is # "free", Copied(x, kind, o)
  PROVE  HeapInv'
<1> DEFINE e == [heap[o] EXCEPT !.is = kind, !.strong = IF kind = "shared" THEN 1 ELSE 0]
           K == HeldBy(heap, o, {"shared"})
           k == Retained(heap, o)
<1>1. PICK p \in Objs : heap[p].is = "free" /\ Rebind(x, kind, p, Retained([heap EXCEPT ![p] = e], o), ref)
  BY DEF Copied
<1> DEFINE g == Retained([heap EXCEPT ![p] = e], o)
<1>2. Copyable(o) /\ heap \in Heaps /\ HeapOK(heap) /\ heap[o] \in Entries
  BY HeapParts DEF Copied
<1>3. /\ K \in SUBSET Objs
      /\ \A q \in Objs : q \in K <=> \E s \in Slots : heap[o].slots[s] = q
      /\ Sound(k, ref, K)
      /\ \A q \in Objs : /\ k[q].is = heap[q].is /\ k[q].type = heap[q].type
                         /\ k[q].slots = heap[q].slots
  BY <1>2, RetainedCounted
<1>4. /\ e.is = kind /\ e.type = heap[o].type /\ e.slots = heap[o].slots
      /\ (kind = "shared" => e.strong = 1) /\ e \in Entries
  BY <1>2 DEF Entries
<1>5. EntryFits(k, e)
  <2>1. \A s \in Slots : SlotOK(heap, o, s) /\ heap[o].slots[s] \in Objs \cup {Null}
    BY <1>2 DEF HeapOK, Entries
  <2> HIDE DEF e, k
  <2> QED BY <1>3, <1>4, <2>1 DEF EntryFits, SlotOK
<1>6. k[p].is = "free" /\ p \notin K
  BY <1>1, <1>2, <1>3, HeldIsTyped
<1>7. g = [k EXCEPT ![p] = e]
  <2>1. /\ g = [q \in Objs |-> IF q \in K THEN [[heap EXCEPT ![p] = e][q] EXCEPT !.strong = @ + 1]
                                ELSE [heap EXCEPT ![p] = e][q]]
        /\ k = [q \in Objs |-> IF q \in K THEN [heap[q] EXCEPT !.strong = @ + 1] ELSE heap[q]]
    BY DEF Retained
  <2>2. \A q \in Objs : [heap EXCEPT ![p] = e][q] = IF q = p THEN e ELSE heap[q]
    BY <1>2 DEF Heaps
  <2> HIDE DEF e, K
  <2>3. \A q \in Objs : g[q] = IF q = p THEN e ELSE k[q]
    BY <1>6, <2>1, <2>2
  <2> HIDE DEF g, k
  <2> QED BY <2>1, <2>3
<1>8. \A q \in Objs : q \in K <=> \E s \in Slots : e.slots[s] = q
  BY <1>3, <1>4
<1>9. g[p].is = kind
  <2>1. DOMAIN k = Objs
    BY DEF Retained
  <2> HIDE DEF k, g
  <2> QED BY <1>4, <1>7, <2>1
<1>10. Rebind(x, kind, p, g, ref)
  BY <1>1
<1>11. Sound(k, ref, K)
  BY <1>3
<1> HIDE DEF e, K, k, g
<1>12. Sound(g, ref, {p})
  BY <1>5, <1>6, <1>7, <1>8, <1>11, Placed
<1>13. RefOK(g, [kind |-> kind, obj |-> p])
  BY <1>9 DEF RefOK, Refs
<1>14. \A q \in Objs : q \in {p} <=> kind \in OwnerKinds /\ p = q
  BY DEF OwnerKinds
<1> QED BY <1>10, <1>12, <1>13, <1>14, RebindKeeps

LEMMA DetachKeeps ==
  ASSUME HeapInv, NEW x \in Names, Detach(x)
  PROVE  HeapInv'
BY OwnerAlive, CopiedKeeps DEF Detach

LEMMA CloneKeeps ==
  ASSUME HeapInv, NEW x \in Names, NEW y \in Names, Clone(x, y)
  PROVE  HeapInv'
<1>1. ref[y].kind \in {"shared", "unique"} /\ Copied(x, ref[y].kind, ref[y].obj)
  BY DEF Clone
<1>2. ref[y].obj \in Objs /\ heap[ref[y].obj].is # "free"
  BY <1>1, OwnerAlive
<1> QED BY <1>1, <1>2, CopiedKeeps

LEMMA OverwriteKeeps ==
  ASSUME HeapInv, NEW x \in Names, NEW y \in Names, Overwrite(x, y)
  PROVE  HeapInv'
<1> DEFINE o == ref[x].obj
           p == ref[y].obj
           K == HeldBy(heap, p, {"shared"})
           k == Retained(heap, p)
           slots == heap[p].slots
           g == [k EXCEPT ![o].slots = slots]
           left == HeldBy(heap, o, Owning)
<1>1. /\ ref[x].kind \in {"shared", "weak", "guard"} /\ ref[y].kind \in {"shared", "unique"}
      /\ o # Null /\ o # p /\ heap[o].type = heap[p].type /\ Copyable(p)
      /\ Settle(LetGo(g, left), ref)
  BY DEF Overwrite
<1>2. o \in Objs /\ heap[o].is = "shared" /\ p \in Objs
  BY <1>1, OwnerAlive
<1>3. HeapOK(heap) /\ heap \in Heaps /\ heap[p] \in Entries /\ \A s \in Slots : SlotOK(heap, p, s)
  BY <1>2, HeapParts DEF HeapOK
<1>4. /\ \A q \in Objs : q \in K <=> \E s \in Slots : heap[p].slots[s] = q
      /\ Sound(k, ref, K)
      /\ \A q \in Objs : /\ k[q].is = heap[q].is /\ k[q].type = heap[q].type
                         /\ k[q].slots = heap[q].slots
  <2> HIDE DEF p
  <2> QED BY <1>1, <1>2, RetainedCounted
<1> HIDE DEF o, p, k
<1>5. SlotsFit(k, o, slots)
  <2>1. slots \in [Slots -> Objs \cup {Null}]
    BY <1>3 DEF Entries
  <2> QED BY <1>1, <1>2, <1>3, <1>4, <2>1 DEF SlotsFit, SlotOK
<1>6. Exchange(K, left, HeldBy(k, o, Owning), HeldBy(g, o, Owning))
  <2>1. HeldBy(k, o, Owning) = left
    BY <1>2, <1>4 DEF HeldBy
  <2>2. k \in Heaps
    BY <1>4 DEF Sound, HeapOK
  <2>3. g[o].slots = slots
    BY <1>2, <2>2 DEF Heaps, Entries
  <2> HIDE DEF g
  <2>4. \A q \in Objs : q \in HeldBy(g, o, Owning) <=> \E s \in Slots : slots[s] = q
    <3>1. \A q \in Objs : q # Null
      BY OwnAssumption
    <3>2. \A s \in Slots : s.kind \in Owning
      BY SlotKinds DEF Owning
    <3> QED BY <2>3, <3>1, <3>2 DEF HeldBy
  <2> HIDE DEF K, left
  <2> QED BY <1>4, <2>1, <2>4 DEF Exchange
<1>7. k[o].is # "free"
  BY <1>2, <1>4
<1>8. g = [k EXCEPT ![o].slots = slots]
  OBVIOUS
<1> HIDE DEF K, slots, g, left
<1>9. Sound(g, ref, left)
  BY <1>2, <1>4, <1>5, <1>6, <1>7, <1>8, NewSlots
<1> QED BY <1>1, <1>9, LetGoKeeps

LEMMA SwapKeeps ==
  ASSUME HeapInv, NEW x \in Names, NEW y \in Names, Swap(x, y)
  PROVE  HeapInv'
<1> DEFINE q == [ref EXCEPT ![y] = Nothing]
           m == ref[x]
           n == ref[y]
           u == [q EXCEPT ![x] = n]
           v == [u EXCEPT ![y] = m]
           r == [ref EXCEPT ![x] = ref[y], ![y] = ref[x]]
           none == {}
<1>1. m.kind = "unique" /\ n.kind = "unique" /\ Settle(heap, r)
  BY DEF Swap
<1>2. ref \in [Names -> Refs] /\ Sound(heap, ref, none) /\ Owned(heap) /\ RefOK(heap, m)
  BY HeapParts
<1>3. Sound(heap, q, {n.obj}) /\ RefOK(heap, n)
  BY <1>1, GivenUp
<1>4. CASE x = y
  <2>1. r = ref
    BY <1>2, <1>4
  <2> QED BY <1>1, <1>2, <2>1, SettleKeeps
<1>5. CASE x # y
  <2>1. q[x] = m /\ u[y] = Nothing
    BY <1>2, <1>5
  <2>2. r = v
    BY <1>2, <1>5
  <2> HIDE DEF q, m, n
  <2>3. Sound(heap, u, {m.obj})
    <3>1. \A p \in Objs : (p \in {n.obj} <=> Owns(n, p)) /\ (p \in {m.obj} <=> Owns(q[x], p))
      BY <1>1, <2>1 DEF Owns, OwnerKinds
    <3> QED BY <1>3, <3>1, HandOver
  <2> HIDE DEF u
  <2>4. Sound(heap, v, none)
    <3>1. \A p \in Objs : (p \in {m.obj} <=> Owns(m, p)) /\ (p \in none <=> Owns(u[y], p))
      BY <1>1, <2>1 DEF Owns, OwnerKinds, Nothing
    <3> HIDE DEF none
    <3> QED BY <1>2, <2>3, <3>1, HandOver
  <2> HIDE DEF v, r
  <2> QED BY <1>1, <1>2, <2>2, <2>4, SettleKeeps
<1> QED BY <1>4, <1>5

LEMMA ProgramKeeps ==
  ASSUME HeapInv, ProgramStep
  PROVE  HeapInv'
<1>1. ASSUME NEW x \in Names, \E kind \in {"shared", "unique"}, t \in Types : Make(x, kind, t)
      PROVE  HeapInv'
  BY <1>1, MakeKeeps
<1>2. ASSUME NEW x \in Names, NEW y \in Names,
             Copy(x, y) \/ MoveTo(x, y) \/ Weaken(x, y) \/ Lock(x, y)
               \/ Clone(x, y) \/ Overwrite(x, y) \/ Swap(x, y) \/ ShareThis(x, y)
      PROVE  HeapInv'
  BY <1>2, CopyKeeps, MoveToKeeps, WeakenKeeps, LockKeeps, CloneKeeps, OverwriteKeeps, SwapKeeps,
     ShareThisKeeps
<1>3. ASSUME NEW x \in Names, Drop(x) \/ Promote(x) \/ Demote(x) \/ Detach(x)
      PROVE  HeapInv'
  BY <1>3, DropKeeps, PromoteKeeps, DemoteKeeps, DetachKeeps
<1>4. ASSUME NEW o \in Objs, NEW s \in Slots, NEW x \in Names,
             Store(o, s, x) \/ StoreMoved(o, s, x) \/ Load(x, o, s)
      PROVE  HeapInv'
  BY <1>4, StoreKeeps, StoreMovedKeeps, LoadKeeps
<1>5. ASSUME NEW o \in Objs, NEW s \in Slots, Clear(o, s)
      PROVE  HeapInv'
  BY <1>5, ClearKeeps
<1> QED BY <1>1, <1>2, <1>3, <1>4, <1>5 DEF ProgramStep

-----------------------------------------------------------------------------
(* What nobody gets at any more.                                           *)

Directly == [q \in Objs |-> HeldBy(heap, q, Owning)]
OwnedFrom(p) == From({p}, Owning)
Unique == {"unique"}

LEMMA OwnedFromParts ==
  ASSUME HeapInv, NEW p \in Objs
  PROVE  /\ p \in OwnedFrom(p) /\ OwnedFrom(p) \subseteq Objs
         /\ \A u \in OwnedFrom(p) : HeldBy(heap, u, Owning) \subseteq OwnedFrom(p)
         /\ \A u \in OwnedFrom(p) : OwnedFrom(u) \subseteq OwnedFrom(p)
         /\ \A D \in SUBSET Objs :
              p \in D /\ (\A u \in D : HeldBy(heap, u, Owning) \subseteq D) => OwnedFrom(p) \subseteq D
<1> DEFINE next == Directly
<1>1. \A u : OwnedFrom(u) = Closure(Objs, {u}, next)
  BY DEF OwnedFrom, From, Directly
<1>2. \A u \in Objs : next[u] = HeldBy(heap, u, Owning) /\ next[u] \subseteq Objs
  <2>1. HeapOK(heap)
    BY HeapParts
  <2>2. \A u \in Objs : HeldBy(heap, u, Owning) \subseteq Objs
    BY <2>1, HeldIsTyped
  <2> QED BY <2>2 DEF Directly
<1> HIDE DEF next
<1>3. p \in OwnedFrom(p) /\ OwnedFrom(p) \subseteq Objs
  BY <1>1, ClosureKeeps
<1>4. \A u \in OwnedFrom(p) : HeldBy(heap, u, Owning) \subseteq OwnedFrom(p)
  <2> SUFFICES ASSUME NEW u \in OwnedFrom(p) PROVE next[u] \subseteq OwnedFrom(p)
    BY <1>2, <1>3
  <2>1. next[u] \subseteq Objs
    BY <1>2, <1>3
  <2> QED BY <1>1, <2>1, ClosureFollows
<1>5. ASSUME NEW D \in SUBSET Objs, NEW u \in D, \A w \in D : HeldBy(heap, w, Owning) \subseteq D
      PROVE  OwnedFrom(u) \subseteq D
  <2>1. \A w \in D : next[w] \subseteq D
    BY <1>2, <1>5
  <2>2. {u} \subseteq D
    OBVIOUS
  <2>3. Closure(Objs, {u}, next) \subseteq D
    BY <2>1, <2>2, ClosureIsLeast
  <2> QED BY <1>1, <2>3
<1>6. \A u \in OwnedFrom(p) : OwnedFrom(u) \subseteq OwnedFrom(p)
  BY <1>3, <1>4, <1>5
<1> QED BY <1>3, <1>4, <1>5, <1>6

\* The owners that are lost with an object.
LEMMA LostOwner ==
  ASSUME HeapInv, NEW o \in Lost
  PROVE  o \in Objs /\ \E q \in Lost : o \in HeldBy(heap, q, Owning)
<1>1. o \in Objs /\ heap[o].is # "free" /\ o \notin Reached
  BY DEF Lost
<1>2. HeapOK(heap) /\ Sound(heap, ref, {}) /\ Owned(heap)
  BY HeapParts
<1> DEFINE next == Directly
<1>3. Reached = Closure(Objs, Roots, next)
  BY DEF Reached, From, Directly
<1>4. Roots \subseteq Objs
  BY OwnerAlive DEF Roots
<1>5. \A u \in Objs : next[u] = HeldBy(heap, u, Owning) /\ next[u] \subseteq Objs
  <2>1. \A u \in Objs : HeldBy(heap, u, Owning) \subseteq Objs
    BY <1>2, HeldIsTyped
  <2> QED BY <2>1 DEF Directly
<1> HIDE DEF next
<1>6. Hands(ref, o) = {}
  <2> SUFFICES ASSUME NEW x \in Names, Owns(ref[x], o) PROVE FALSE
    BY DEF Hands
  <2>1. o \in Roots
    BY DEF Roots, OwnedBy, Owns, OwnerKinds
  <2> QED BY <1>1, <1>3, <1>4, <2>1, ClosureKeeps
<1>7. Holders(heap, o) # {}
  <2> SUFFICES ASSUME Holders(heap, o) = {} PROVE FALSE
    OBVIOUS
  <2>1. Cardinality(Hands(ref, o)) = 0 /\ Cardinality(Holders(heap, o)) = 0
    BY <1>6, FS_EmptySet
  <2>2. CountOf(heap, o) = Owners(heap, ref, o) + 0
    BY <1>1, <1>2 DEF Sound, Counted
  <2>3. CountOf(heap, o) > 0
    BY <1>1, <1>2 DEF Owned
  <2> QED BY <2>1, <2>2, <2>3 DEF Owners
<1>8. PICK q \in Objs : o \in HeldBy(heap, q, Owning)
  BY <1>7 DEF Holders
<1>9. heap[q].is # "free"
  BY <1>2, <1>8, HeldIsTyped
<1>10. q \notin Reached
  <2> SUFFICES ASSUME q \in Reached PROVE FALSE
    OBVIOUS
  <2>1. next[q] \subseteq Reached
    BY <1>3, <1>5, <1>8, ClosureFollows
  <2> QED BY <1>1, <1>5, <1>8, <2>1
<1> QED BY <1>1, <1>8, <1>9, <1>10 DEF Lost

\* No reference that its declarations do not tell closes a circle p is on.
Straight(p) == \A v \in OwnedFrom(p) : p \in OwnedFrom(v) => ~ClosesAside(v)

\* A reference on such a circle is one its declarations tell.
LEMMA CircleIsDeclared ==
  ASSUME HeapInv, NEW p \in Objs, Straight(p), NEW v \in OwnedFrom(p), p \in OwnedFrom(v),
         NEW z \in HeldBy(heap, v, Owning), v \in OwnedFrom(z)
  PROVE  [kind |-> heap[z].is, to |-> heap[z].type] \in declared[heap[v].type]
<1> DEFINE s == [kind |-> heap[z].is, to |-> heap[z].type]
<1>1. HeapOK(heap) /\ v \in Objs
  BY HeapParts, OwnedFromParts
<1>2. z \in Objs /\ z # Null /\ heap[v].slots[s] = z /\ heap[z].is \in {"shared", "unique"}
  BY <1>1, HeldIsTyped
<1>3. heap[z].type \in Types
  BY <1>2, HeapParts DEF Entries
<1>4. s \in Slots
  BY <1>2, <1>3 DEF Slots
<1> HIDE DEF s
<1>5. ASSUME s \notin declared[heap[v].type] PROVE FALSE
  <2>1. z \in HeldAside(v)
    BY <1>2, <1>4, <1>5 DEF HeldAside
  <2>2. ClosesAside(v)
    BY <2>1 DEF ClosesAside, OwnedFrom
  <2> QED BY <2>2 DEF Straight
<1> QED BY <1>5 DEF s

\* A reference between objects is one between their types.
LEMMA CycleIsUnique ==
  ASSUME HeapInv, HoldsNoCycle, HoldsTyped,
         NEW p \in Objs, Straight(p), NEW u \in OwnedFrom(p), p \in OwnedFrom(u),
         NEW w \in HeldBy(heap, u, Owning), u \in OwnedFrom(w)
  PROVE  w \in HeldBy(heap, u, Unique)
<1> DEFINE next == [t \in Types |-> {e.to : e \in declared[t]}]
           ty(v) == heap[v].type
           reach == Closure(Types, {ty(w)}, next)
           D == {v \in OwnedFrom(w) : u \in OwnedFrom(v) => ty(v) \in reach}
<1>1. HeapOK(heap) /\ u \in Objs /\ \A v \in Objs : heap[v] \in Entries /\ ty(v) \in Types
  BY HeapParts, OwnedFromParts DEF Entries
<1>2. \A v \in Objs : \A z \in HeldBy(heap, v, Owning) :
        z \in Objs /\ z # Null /\ heap[z].is \in {"shared", "unique"} /\ z \in OwnedFrom(v)
  BY <1>1, HeldIsTyped, OwnedFromParts
<1>3. w \in Objs /\ ty(w) \in Types /\ w \in OwnedFrom(u)
  BY <1>1, <1>2
<1>4. ASSUME NEW v \in OwnedFrom(w), u \in OwnedFrom(v)
      PROVE  v \in Objs /\ v \in OwnedFrom(p) /\ p \in OwnedFrom(v) /\ v \in OwnedFrom(u)
  <2>1. v \in Objs /\ v \in OwnedFrom(u)
    BY <1>1, <1>3, OwnedFromParts
  <2>2. OwnedFrom(u) \subseteq OwnedFrom(p) /\ OwnedFrom(u) \subseteq OwnedFrom(v)
    BY <1>1, <1>4, <2>1, OwnedFromParts
  <2> QED BY <2>1, <2>2
<1>5. ASSUME NEW v \in Objs, v \in OwnedFrom(p), p \in OwnedFrom(v), v \in OwnedFrom(u),
             NEW z \in HeldBy(heap, v, Owning), u \in OwnedFrom(z)
      PROVE  [kind |-> heap[z].is, to |-> ty(z)] \in declared[ty(v)] /\ ty(z) \in next[ty(v)]
  <2>1. v \in OwnedFrom(z)
    BY <1>2, <1>5, OwnedFromParts
  <2>2. [kind |-> heap[z].is, to |-> ty(z)] \in declared[ty(v)]
    BY <1>5, <2>1, CircleIsDeclared
  <2>3. ty(v) \in Types /\ ty(z) = [kind |-> heap[z].is, to |-> ty(z)].to
    BY <1>1
  <2> HIDE DEF ty
  <2> QED BY <2>2, <2>3
<1>6. \A t \in Types : next[t] \subseteq Types
  BY DEF Slots, HoldsTyped
<1> HIDE DEF next, ty
<1>7. ty(w) \in reach /\ reach \subseteq Types
  BY <1>3, ClosureKeeps
<1>8. \A t \in reach : next[t] \subseteq reach
  <2> SUFFICES ASSUME NEW t \in reach PROVE next[t] \subseteq reach
    OBVIOUS
  <2>1. next[t] \subseteq Types
    BY <1>6, <1>7
  <2> QED BY <2>1, ClosureFollows
<1> HIDE DEF reach
<1>9. ASSUME NEW v \in D, NEW z \in HeldBy(heap, v, Owning) PROVE z \in D
  <2>1. v \in Objs /\ z \in OwnedFrom(w) /\ z \in Objs
    BY <1>2, <1>3, OwnedFromParts
  <2> SUFFICES ASSUME u \in OwnedFrom(z) PROVE ty(z) \in reach
    BY <2>1
  <2>2. z \in OwnedFrom(v)
    BY <1>2, <2>1
  <2>3. u \in OwnedFrom(v)
    BY <2>1, <2>2, OwnedFromParts
  <2>4. ty(v) \in reach
    BY <2>3
  <2>5. ty(z) \in next[ty(v)]
    BY <1>4, <1>5, <2>1, <2>3
  <2> QED BY <1>8, <2>4, <2>5
<1>10. u \in D
  <2>1. D \in SUBSET Objs /\ w \in D
    BY <1>3, <1>7, OwnedFromParts
  <2>2. \A v \in D : HeldBy(heap, v, Owning) \subseteq D
    BY <1>9
  <2> HIDE DEF D
  <2> QED BY <1>3, <2>1, <2>2, OwnedFromParts
<1>11. u \in OwnedFrom(u)
  BY <1>1, OwnedFromParts
<1>12. ty(u) \in reach
  BY <1>10, <1>11
<1> DEFINE s == [kind |-> heap[w].is, to |-> ty(w)]
<1>13. s \in declared[ty(u)] /\ s.to = ty(w) /\ s.kind = heap[w].is /\ ty(u) \in Types
  BY <1>1, <1>5, <1>11
<1>14. heap[w].is = "unique"
  <2> SUFFICES ASSUME heap[w].is = "shared" PROVE FALSE
    BY <1>1, <1>2
  <2> HIDE DEF s
  <2>1. ty(u) \in Closure(Types, {s.to}, next)
    BY <1>12, <1>13 DEF reach
  <2> QED BY <1>13, <2>1 DEF HoldsNoCycle, next
<1>15. [kind |-> "unique", to |-> ty(w)] \in Slots
  BY <1>3 DEF Slots
<1>16. heap[u].slots[s] = w /\ w # Null
  BY <1>1, HeldIsTyped DEF ty
<1> QED BY <1>14, <1>15, <1>16, HeldBySlot DEF Unique

\* An object that its owner reaches is on a cycle of unique references.
LEMMA OwnedByItself ==
  ASSUME HeapInv, HoldsNoCycle, HoldsTyped, NEW p \in Objs, Straight(p),
         NEW q \in OwnedFrom(p), p \in HeldBy(heap, q, Owning)
  PROVE  OwnsItself(p)
<1> DEFINE next == [o \in Objs |-> HeldBy(heap, o, Unique)]
           start == HeldBy(heap, p, Unique)
           D == Closure(Objs, start, next)
           E == {u \in Objs : u \in D \/ u = p \/ p \notin OwnedFrom(u)}
<1>1. /\ p \in OwnedFrom(p) /\ OwnedFrom(p) \subseteq Objs
      /\ \A u \in OwnedFrom(p) : HeldBy(heap, u, Owning) \subseteq OwnedFrom(p)
      /\ \A u \in OwnedFrom(p) : OwnedFrom(u) \subseteq OwnedFrom(p)
  BY OwnedFromParts
<1>2. \A u \in Objs : /\ next[u] = HeldBy(heap, u, Unique)
                      /\ HeldBy(heap, u, Unique) \subseteq HeldBy(heap, u, Owning)
                      /\ HeldBy(heap, u, Owning) \subseteq Objs
  <2>1. HeapOK(heap)
    BY HeapParts
  <2>2. \A u \in Objs : HeldBy(heap, u, Owning) \subseteq Objs
    BY <2>1, HeldIsTyped
  <2>3. \A u \in Objs : HeldBy(heap, u, Unique) \subseteq HeldBy(heap, u, Owning)
    BY DEF HeldBy, Unique, Owning
  <2> QED BY <2>2, <2>3
<1> HIDE DEF next
<1>3. start \subseteq D /\ D \subseteq Objs /\ \A u \in D : HeldBy(heap, u, Unique) \subseteq D
  <2>1. start \subseteq Objs
    BY <1>2
  <2>2. start \subseteq D /\ D \subseteq Objs
    BY <2>1, ClosureKeeps
  <2>3. \A u \in D : next[u] \subseteq D
    <3> SUFFICES ASSUME NEW u \in D PROVE next[u] \subseteq D
      OBVIOUS
    <3>1. next[u] \subseteq Objs
      BY <1>2, <2>2
    <3> QED BY <3>1, ClosureFollows
  <2> QED BY <1>2, <2>2, <2>3
<1>4. D \subseteq OwnedFrom(p)
  <2>1. start \subseteq OwnedFrom(p) /\ OwnedFrom(p) \in SUBSET Objs
    BY <1>1, <1>2
  <2>2. \A u \in OwnedFrom(p) : next[u] \subseteq OwnedFrom(p)
    BY <1>1, <1>2
  <2> QED BY <2>1, <2>2, ClosureIsLeast
<1> HIDE DEF D
<1>5. ASSUME NEW u \in E, NEW w \in HeldBy(heap, u, Owning) PROVE w \in E
  <2>1. u \in Objs /\ w \in Objs
    BY <1>2
  <2>2. CASE p \notin OwnedFrom(w)
    BY <2>1, <2>2
  <2>3. CASE p \in OwnedFrom(w)
    <3>1. w \in OwnedFrom(u)
      BY <2>1, OwnedFromParts
    <3>2. p \in OwnedFrom(u)
      BY <2>1, <2>3, <3>1, OwnedFromParts
    <3>3. u \in D \/ u = p
      BY <3>2
    <3>4. u \in OwnedFrom(p)
      BY <1>1, <1>4, <3>3
    <3>5. u \in OwnedFrom(w)
      BY <2>1, <2>3, <3>4, OwnedFromParts
    <3>6. w \in HeldBy(heap, u, Unique)
      BY <3>2, <3>4, <3>5, CycleIsUnique
    <3>7. w \in D
      BY <1>3, <3>3, <3>6
    <3> QED BY <2>1, <3>7
  <2> QED BY <2>2, <2>3
<1>6. q \in E
  <2>1. E \in SUBSET Objs /\ p \in E
    OBVIOUS
  <2> HIDE DEF E
  <2> QED BY <1>5, <2>1, OwnedFromParts
<1>7. q \in Objs /\ p \in OwnedFrom(q)
  <2>1. q \in Objs
    BY <1>1
  <2> QED BY <2>1, OwnedFromParts
<1>8. q \in D \/ q = p
  BY <1>6, <1>7
<1>9. p \in HeldBy(heap, q, Unique)
  BY <1>7, CycleIsUnique
<1>10. p \in D
  BY <1>3, <1>8, <1>9
<1> QED BY <1>10 DEF OwnsItself, From, D, next, Unique

\* What leads to a lost object, and closes a circle, is lost as well.
LEMMA LostCircle ==
  ASSUME HeapInv, NEW p \in Lost, NEW v \in OwnedFrom(p), p \in OwnedFrom(v), ClosesAside(v)
  PROVE  v \in Lost
<1>1. p \in Objs /\ p \notin Reached /\ HeapOK(heap)
  BY HeapParts DEF Lost
<1>2. v \in Objs
  BY <1>1, OwnedFromParts
<1>3. heap[v].is # "free"
  <2>1. PICK s \in Slots : heap[v].slots[s] # Null
    BY DEF ClosesAside, HeldAside
  <2>2. SlotOK(heap, v, s)
    BY <1>1, <1>2 DEF HeapOK
  <2> QED BY <2>1, <2>2 DEF SlotOK
<1> DEFINE next == Directly
<1>4. Reached = Closure(Objs, Roots, next)
  BY DEF Reached, From, Directly
<1>5. \A u \in Objs : next[u] = HeldBy(heap, u, Owning) /\ next[u] \subseteq Objs
  <2>1. \A u \in Objs : HeldBy(heap, u, Owning) \subseteq Objs
    BY <1>1, HeldIsTyped
  <2> QED BY <2>1 DEF Directly
<1> HIDE DEF next
<1>6. Reached \in SUBSET Objs
  BY <1>4 DEF Closure
<1>7. ASSUME NEW u \in Reached PROVE HeldBy(heap, u, Owning) \subseteq Reached
  <2>1. next[u] = HeldBy(heap, u, Owning) /\ next[u] \subseteq Objs /\ u \in Closure(Objs, Roots, next)
    BY <1>4, <1>5, <1>6
  <2>2. next[u] \subseteq Closure(Objs, Roots, next)
    BY <2>1, ClosureFollows
  <2> QED BY <1>4, <2>1, <2>2
<1>8. v \notin Reached
  <2> SUFFICES ASSUME v \in Reached PROVE FALSE
    OBVIOUS
  <2>1. OwnedFrom(v) \subseteq Reached
    BY <1>2, <1>6, <1>7, OwnedFromParts
  <2> QED BY <1>1, <2>1
<1> QED BY <1>2, <1>3, <1>8 DEF Lost

\* The owners of a lost object lead back to one that owns itself, or to one
\* on a circle that an undeclared reference closes.
LEMMA LostOwnsItself ==
  ASSUME HeapInv, HoldsNoCycle, HoldsTyped
  PROVE  NoLeak
<1> SUFFICES ASSUME NEW o \in Lost
             PROVE  \E p \in Lost : (OwnsItself(p) \/ ClosesAside(p)) /\ o \in OwnedFrom(p)
  BY DEF NoLeak, OwnedFrom
<1> DEFINE above == {p \in Lost : o \in OwnedFrom(p)}
           sizes == {Cardinality(OwnedFrom(p)) : p \in above}
           n == Cardinality(Objs)
<1>1. Lost \subseteq Objs
  BY DEF Lost
<1>2. o \in above
  BY <1>1, OwnedFromParts
<1>3. \A p \in Objs : /\ IsFiniteSet(OwnedFrom(p)) /\ Cardinality(OwnedFrom(p)) \in Nat
                      /\ Cardinality(OwnedFrom(p)) <= n
  <2> SUFFICES ASSUME NEW p \in Objs
               PROVE  /\ IsFiniteSet(OwnedFrom(p)) /\ Cardinality(OwnedFrom(p)) \in Nat
                      /\ Cardinality(OwnedFrom(p)) <= n
    OBVIOUS
  <2>1. OwnedFrom(p) \in SUBSET Objs
    BY OwnedFromParts
  <2> QED BY <2>1, OwnAssumption, FS_Subset, FS_CardinalityType
<1>4. n \in Nat
  BY OwnAssumption, FS_CardinalityType
<1>5. sizes # {} /\ sizes \subseteq Int /\ \A i \in sizes : i <= n
  BY <1>1, <1>2, <1>3
<1> HIDE DEF n, sizes
<1>6. PICK k \in sizes : \A i \in sizes : i <= k
  <2>1. n \in Int
    BY <1>4
  <2> QED BY <1>5, <2>1, GreatestInteger
<1>7. PICK p \in above : k = Cardinality(OwnedFrom(p))
  BY <1>6 DEF sizes
<1>8. p \in Lost /\ o \in OwnedFrom(p) /\ p \in Objs
  BY <1>1
<1>9. PICK q \in Lost : p \in HeldBy(heap, q, Owning)
  BY <1>8, LostOwner
<1>10. q \in Objs /\ p \in OwnedFrom(q)
  <2>1. q \in Objs
    BY <1>1
  <2> QED BY <1>9, <2>1, OwnedFromParts
<1>11. OwnedFrom(p) \subseteq OwnedFrom(q)
  BY <1>10, OwnedFromParts
<1>12. Cardinality(OwnedFrom(q)) \in sizes
  BY <1>8, <1>9, <1>11 DEF sizes
<1>13. OwnedFrom(q) = OwnedFrom(p)
  <2>1. Cardinality(OwnedFrom(q)) <= Cardinality(OwnedFrom(p))
    BY <1>6, <1>7, <1>12
  <2>2. OwnedFrom(p) \in SUBSET OwnedFrom(q) /\ IsFiniteSet(OwnedFrom(q))
    BY <1>3, <1>10, <1>11
  <2>3. /\ Cardinality(OwnedFrom(p)) <= Cardinality(OwnedFrom(q))
        /\ Cardinality(OwnedFrom(q)) = Cardinality(OwnedFrom(p)) => OwnedFrom(q) = OwnedFrom(p)
    BY <2>2, FS_Subset
  <2> QED BY <1>3, <1>8, <1>10, <2>1, <2>3
<1>14. q \in OwnedFrom(p)
  BY <1>10, <1>13, OwnedFromParts
<1>15. CASE Straight(p)
  <2>1. OwnsItself(p)
    BY <1>8, <1>9, <1>14, <1>15, OwnedByItself
  <2> QED BY <1>8, <2>1
<1>16. CASE ~Straight(p)
  <2>1. PICK v \in OwnedFrom(p) : p \in OwnedFrom(v) /\ ClosesAside(v)
    BY <1>16 DEF Straight
  <2>2. v \in Lost
    BY <1>8, <2>1, LostCircle
  <2>3. v \in Objs
    BY <1>1, <2>2
  <2>4. OwnedFrom(p) \subseteq OwnedFrom(v)
    BY <2>1, <2>3, OwnedFromParts
  <2> QED BY <1>8, <2>1, <2>2, <2>4
<1> QED BY <1>15, <1>16

-----------------------------------------------------------------------------
(* The whole.                                                              *)

NoProgram == heap = [o \in Objs |-> Free] /\ ref = [x \in Names |-> Nothing]

OwnInv ==
  /\ CheckInv
  /\ HoldsTyped /\ HoldsNoCycle
  /\ HeapInv
  /\ pass # "running" => NoProgram

LEMMA NoProgramIsSound == NoProgram => HeapInv
<1> SUFFICES ASSUME NoProgram PROVE HeapInv
  OBVIOUS
<1>1. \A o \in Objs : heap[o] = Free
  BY DEF NoProgram
<1>2. \A x \in Names : ref[x] = Nothing
  BY DEF NoProgram
<1>3. HeapOK(heap)
  <2>1. Free \in Entries
    BY TypesAssumption DEF Free, Entries, Types
  <2>2. heap \in Heaps
    BY <2>1 DEF NoProgram, Heaps
  <2>3. \A s \in Slots : Free.slots[s] = Null
    BY DEF Free
  <2> QED BY <1>1, <2>2, <2>3 DEF HeapOK, SlotOK
<1>4. RefsOK(heap, ref)
  <2>1. RefOK(heap, Nothing) /\ Nothing \in Refs
    BY DEF RefOK, Nothing, Refs
  <2> QED BY <1>2, <2>1 DEF NoProgram, RefsOK
<1>5. ASSUME NEW p \in Objs
      PROVE  CountOf(heap, p) = Owners(heap, ref, p) + (IF p \in {} THEN 1 ELSE 0)
  <2>1. Hands(ref, p) = {}
    BY <1>2 DEF Hands, Owns, OwnerKinds, Nothing
  <2>2. Holders(heap, p) = {}
    BY <1>1 DEF Holders, HeldBy, Free
  <2>3. Cardinality({}) = 0
    BY FS_EmptySet
  <2>4. Cardinality(Hands(ref, p)) = 0 /\ Cardinality(Holders(heap, p)) = 0
    BY <2>1, <2>2, <2>3
  <2>5. CountOf(heap, p) = 0
    BY <1>1 DEF CountOf, Free
  <2> QED BY <2>4, <2>5 DEF Owners
<1>6. Owned(heap) /\ Observed(heap, ref)
  BY <1>1, <1>2 DEF Owned, Observed, Free, Nothing
<1> QED BY <1>3, <1>4, <1>5, <1>6 DEF HeapInv, Sound, Counted

LEMMA OwnStarts ==
  ASSUME OwnInit
  PROVE  OwnInv
<1>1. CheckInv /\ NoProgram /\ HeapInv
  BY CheckStarts, NoProgramIsSound DEF OwnInit, NoProgram
<1>2. HoldsTyped /\ HoldsNoCycle
  BY DEF OwnInit, NoEdges, HoldsNoCycle, HoldsTyped
<1>3. pass # "running"
  BY DEF OwnInit, CycleInit
<1> QED BY <1>1, <1>2, <1>3 DEF OwnInv

NoDeclarations == \A t \in Types : graph[t] = {}

LEMMA NoDeclarationsNoCycle ==
  NoDeclarations => ~SharedCycle /\ ~ValueCycle /\ ~UniqueCycle
<1> SUFFICES ASSUME NoDeclarations PROVE ~SharedCycle /\ ~ValueCycle /\ ~UniqueCycle
  OBVIOUS
<1>1. \A t \in Types : graph[t] = {}
  BY DEF NoDeclarations
<1>2. \A kinds : \A t \in Types : AdjOf(graph, kinds)[t] = {}
  BY <1>1 DEF AdjOf
<1>3. ASSUME NEW t \in Types PROVE Chain({"unique"}, t) \subseteq {t}
  <2> DEFINE next == AdjOf(graph, {"unique"})
  <2>1. next[t] = {} /\ {t} \in SUBSET Types
    BY <1>2
  <2> HIDE DEF next
  <2>2. Closure(Types, {t}, next) \subseteq {t}
    BY <2>1, ClosureIsLeast
  <2> QED BY <2>2 DEF Chain, next
<1> QED BY <1>1, <1>2, <1>3 DEF SharedCycle, ValueCycle, UniqueCycle

LEMMA RunKeeps ==
  ASSUME OwnInv, Run
  PROVE  OwnInv'
<1>1. /\ CheckInv /\ pass = "done" /\ pass' = "running" /\ graph' = NoEdges /\ errors' = errors
      /\ UNCHANGED tarjanVars /\ NoProgram /\ UNCHANGED <<heap, ref>> /\ CycleTypeOK
  BY DEF OwnInv, Run, Accepted, CheckInv
<1>2. NothingVisited'
  BY <1>1 DEF CheckInv, NothingVisited, tarjanVars
<1>3. CycleTypeOK'
  BY <1>1 DEF CycleTypeOK, tarjanVars, NoEdges
<1>4. SearchOK'
  BY <1>2, <1>3, NothingIsFound, PTL
<1>5. NoDeclarations'
  BY <1>1 DEF NoDeclarations, NoEdges
<1>6. ~SharedCycle' /\ ~ValueCycle' /\ ~UniqueCycle'
  BY <1>5, NoDeclarationsNoCycle, PTL
<1>7. errors' = {} /\ pass' = "running"
  BY <1>1 DEF Run, Accepted
<1>8. CheckInv'
  BY <1>1, <1>2, <1>3, <1>4, <1>6, <1>7 DEF CheckInv, CyclesReported
<1>9. HoldsNoCycle' /\ HoldsTyped'
  BY <1>1, RunFromAccepted
<1>10. NoProgram'
  BY <1>1 DEF NoProgram
<1>11. HeapInv'
  BY <1>10, NoProgramIsSound, PTL
<1> QED BY <1>1, <1>8, <1>9, <1>11 DEF OwnInv

LEMMA CheckUnchanged ==
  ASSUME CheckInv, UNCHANGED <<graph, pass, errors, tarjanVars>>
  PROVE  CheckInv'
<1>1. CycleTypeOK'
  BY DEF CheckInv, CycleTypeOK, tarjanVars
<1>2. Adj' = Adj /\ OnStack' = OnStack /\ Calls' = Calls /\ Settled' = Settled
  BY DEF Adj, OnStack, Calls, Settled, tarjanVars
<1>3. SearchOK'
  BY <1>2 DEF CheckInv, SearchOK, NumbersOK, VisitedOK, LowOK, Separated, Joined, LeadsTo, tarjanVars
<1>4. CyclesReported'
  BY DEF CheckInv, CyclesReported, SharedCycle, ValueCycle, UniqueCycle, Chain
<1> QED BY <1>1, <1>3, <1>4 DEF CheckInv, NothingVisited, tarjanVars

LEMMA ProgramKeepsTypes ==
  ASSUME ProgramStep
  PROVE  UNCHANGED <<holds, declared>>
<1>1. \A h, r : Settle(h, r) => UNCHANGED <<holds, declared>>
  BY DEF Settle
<1>2. \A x, kind, o, h, r : Rebind(x, kind, o, h, r) => UNCHANGED <<holds, declared>>
  BY <1>1 DEF Rebind
<1>3. ASSUME NEW x, NEW kind, NEW t, Make(x, kind, t)
      PROVE  UNCHANGED <<holds, declared>>
  BY <1>2, <1>3 DEF Make
<1>4. ASSUME NEW x, NEW y, Copy(x, y) \/ MoveTo(x, y) \/ Weaken(x, y) \/ Lock(x, y)
      PROVE  UNCHANGED <<holds, declared>>
  BY <1>1, <1>2, <1>4 DEF Copy, MoveTo, Weaken, Lock
<1>5. \A x, kind, o : Copied(x, kind, o) => UNCHANGED <<holds, declared>>
  BY <1>2 DEF Copied
<1>6. ASSUME NEW x, NEW y, Clone(x, y) \/ Swap(x, y) \/ ShareThis(x, y)
      PROVE  UNCHANGED <<holds, declared>>
  BY <1>1, <1>2, <1>5, <1>6 DEF Clone, Swap, ShareThis
<1>7. ASSUME NEW x, NEW y, Overwrite(x, y)
      PROVE  UNCHANGED <<holds, declared>>
  BY <1>1, <1>7 DEF Overwrite
<1>8. ASSUME NEW x, Drop(x) \/ Promote(x) \/ Demote(x) \/ Detach(x)
      PROVE  UNCHANGED <<holds, declared>>
  BY <1>1, <1>2, <1>5, <1>8 DEF Drop, Promote, Demote, Detach
<1>9. ASSUME NEW o, NEW s, NEW x, Store(o, s, x) \/ StoreMoved(o, s, x)
      PROVE  UNCHANGED <<holds, declared>>
  BY <1>1, <1>9 DEF Store, StoreMoved
<1>10. ASSUME NEW o, NEW s, NEW x, Load(x, o, s)
       PROVE  UNCHANGED <<holds, declared>>
  BY <1>2, <1>10 DEF Load
<1>11. ASSUME NEW o, NEW s, Clear(o, s)
       PROVE  UNCHANGED <<holds, declared>>
  BY <1>1, <1>11 DEF Clear
<1>12. CASE \E x \in Names, kind \in {"shared", "unique"}, t \in Types : Make(x, kind, t)
  BY <1>3, <1>12
<1>13. CASE \E x \in Names, y \in Names :
               Copy(x, y) \/ MoveTo(x, y) \/ Weaken(x, y) \/ Lock(x, y)
                 \/ Clone(x, y) \/ Overwrite(x, y) \/ Swap(x, y) \/ ShareThis(x, y)
  BY <1>4, <1>6, <1>7, <1>13
<1>14. CASE \E x \in Names : Drop(x) \/ Promote(x) \/ Demote(x) \/ Detach(x)
  BY <1>8, <1>14
<1>15. CASE \E o \in Objs, s \in Slots :
               (\E x \in Names : Store(o, s, x) \/ StoreMoved(o, s, x) \/ Load(x, o, s)) \/ Clear(o, s)
  BY <1>9, <1>10, <1>11, <1>15
<1> QED BY <1>12, <1>13, <1>14, <1>15, Zenon DEF ProgramStep

LEMMA OwnSteps == OwnInv /\ [OwnNext]_ownVars => OwnInv'
<1> SUFFICES ASSUME OwnInv, [OwnNext]_ownVars PROVE OwnInv'
  OBVIOUS
<1>1. CASE CycleNext /\ UNCHANGED <<holds, declared, heap, ref>>
  <2>1. CheckInv'
    BY <1>1, CheckSteps DEF OwnInv
  <2>2. pass # "running" => NoProgram
    BY DEF OwnInv
  <2>3. pass # "running"
    <3>1. Looking \/ path # <<>>
      BY <1>1 DEF CycleNext, Connect, Descend, LookBack, Leave, Report, LooksAt
    <3> QED BY <3>1 DEF OwnInv, CheckInv, NothingVisited, Looking
  <2>4. NoProgram'
    BY <1>1, <2>2, <2>3 DEF NoProgram
  <2>5. HeapInv'
    BY <2>4, NoProgramIsSound, PTL
  <2> QED BY <1>1, <2>1, <2>4, <2>5 DEF OwnInv, HoldsNoCycle, HoldsTyped
<1>2. CASE Run
  BY <1>2, RunKeeps
<1>3. CASE pass = "running" /\ ProgramStep /\ UNCHANGED cycleVars
  <2>1. HeapInv'
    BY <1>3, ProgramKeeps DEF OwnInv
  <2>2. UNCHANGED <<graph, pass, errors, tarjanVars>>
    BY <1>3 DEF cycleVars
  <2>3. CheckInv'
    BY <2>2, CheckUnchanged DEF OwnInv
  <2>4. UNCHANGED <<holds, declared>>
    BY <1>3, ProgramKeepsTypes
  <2> QED BY <1>3, <2>1, <2>2, <2>3, <2>4 DEF OwnInv, HoldsNoCycle, HoldsTyped
<1>4. CASE UNCHANGED ownVars
  <2>1. UNCHANGED <<graph, pass, errors, tarjanVars>> /\ UNCHANGED <<holds, declared, heap, ref>>
    BY <1>4 DEF ownVars, cycleVars
  <2>2. CheckInv'
    BY <2>1, CheckUnchanged DEF OwnInv
  <2>3. HeapInv'
    BY <2>1, SoundPrimed DEF OwnInv, HeapInv
  <2> QED BY <2>1, <2>2, <2>3 DEF OwnInv, HoldsNoCycle, HoldsTyped, NoProgram
<1> QED BY <1>1, <1>2, <1>3, <1>4 DEF OwnNext

-----------------------------------------------------------------------------
(* The theorems.                                                           *)

LEMMA OwnInvHolds == OwnSpec => []OwnInv
BY OwnStarts, OwnSteps, PTL DEF OwnSpec

\* The tables of the check, the objects and the references keep their types.
THEOREM OwnTypes == OwnSpec => []OwnTypeOK
<1>1. OwnInv => OwnTypeOK
  BY DEF OwnInv, CheckInv, HeapInv, Sound, HeapOK, RefsOK, Heaps, Entries, Refs, HoldsTyped, OwnTypeOK
<1> QED BY <1>1, OwnInvHolds, PTL

\* The counter of a shared object is the number of its owners, the variables,
\* guards and fields that hold it, after every operation of the program and
\* every cascade of destructors; nothing is kept without an owner.
Exact ==
  \A p \in Objs : heap[p].is = "shared" =>
     /\ heap[p].strong = Cardinality({x \in Names : p \in OwnedBy(x)})
                        + Cardinality({o \in Objs : p \in HeldBy(heap, o, Owning)})
     /\ heap[p].strong > 0

THEOREM CountsExact == OwnSpec => []Exact
<1>1. OwnInv => Exact
  <2> SUFFICES ASSUME OwnInv, NEW p \in Objs, heap[p].is = "shared"
               PROVE  /\ heap[p].strong = Cardinality({x \in Names : p \in OwnedBy(x)})
                                         + Cardinality({o \in Objs : p \in HeldBy(heap, o, Owning)})
                      /\ heap[p].strong > 0
    BY DEF Exact
  <2>1. Hands(ref, p) = {x \in Names : p \in OwnedBy(x)}
    BY DEF Hands, Owns, OwnerKinds, OwnedBy
  <2>2. Holders(heap, p) = {o \in Objs : p \in HeldBy(heap, o, Owning)}
    BY DEF Holders
  <2>3. CountOf(heap, p) = Owners(heap, ref, p) + 0 /\ CountOf(heap, p) > 0
    BY DEF OwnInv, HeapInv, Sound, Counted, Owned
  <2>4. CountOf(heap, p) = heap[p].strong /\ heap[p].strong \in Nat
    BY DEF CountOf, OwnInv, HeapInv, Sound, HeapOK, Heaps, Entries
  <2>5. IsFiniteSet(Hands(ref, p)) /\ IsFiniteSet(Holders(heap, p))
    BY OwnAssumption, FS_Subset DEF Hands, Holders
  <2>6. Cardinality(Hands(ref, p)) \in Nat /\ Cardinality(Holders(heap, p)) \in Nat
    BY <2>5, FS_CardinalityType
  <2> QED BY <2>1, <2>2, <2>3, <2>4, <2>6 DEF Owners
<1> QED BY <1>1, OwnInvHolds, PTL

\* The check is exact: it reports a kind of cycle just when the declarations
\* have one, whatever their number and the order in which the search visits them,
\* so it misses none and refuses no class without cause.
THEOREM CheckExact == OwnSpec => []CyclesReported
<1>1. OwnInv => CyclesReported
  BY DEF OwnInv, CheckInv
<1> QED BY <1>1, OwnInvHolds, PTL

\* In the program that is built from accepted classes no shared reference that a
\* declaration tells leads back to its own type, the values inside each other
\* included.
THEOREM ProgramsHoldNoCycle == OwnSpec => []HoldsNoCycle
<1>1. OwnInv => HoldsNoCycle
  BY DEF OwnInv
<1> QED BY <1>1, OwnInvHolds, PTL

\* An accepted program loses an object only in one of two ways: a unique
\* reference that was moved into what it owns itself, or a circle that a shared
\* reference closes which no declaration tells, an alias or the content of an
\* Any, a Dict or a Function.
THEOREM NoLeaks == OwnSpec => []NoLeak
<1>1. OwnInv => NoLeak
  BY LostOwnsItself DEF OwnInv
<1> QED BY <1>1, OwnInvHolds, PTL
=============================================================================
