---------------------------- MODULE ImportProofs ----------------------------
(* Loading follows the texts, for any files, any ids and any numbers of    *)
(* imports: the modules that are being loaded are those on the stack of    *)
(* parsers, each importing the next, and the loaded ones are closed under  *)
(* import and on no cycle.                                                 *)
EXTENDS Imports, DataLemmas, SequenceTheorems

-----------------------------------------------------------------------------
(* The files reached by imports, as a function of the texts.               *)

ImportsOf(tx, f) == {Target[f][tx[f][i]] : i \in DOMAIN tx[f]}
Closed(tx, S) == \A f \in S \cap Files : ImportsOf(tx, f) \subseteq S
Onward(tx, S) == S \cup UNION {ImportsOf(tx, f) : f \in S \cap Files}
Rounds(tx, start, N, r) ==
  r = [n \in 0 .. N |-> IF n = 0 THEN start ELSE Onward(tx, r[n - 1])]
Reach(tx, start) == (CHOOSE r : Rounds(tx, start, Cardinality(Files), r))[Cardinality(Files)]

LEMMA ReachedIsReach ==
  ASSUME NEW start
  PROVE  ReachedFrom(start) = Reach(text, start)
BY Zenon DEF ReachedFrom, Reach, Rounds, Onward, ImportedBy, ImportsOf

\* After N rounds: the function exists, it is the only one, and a round more
\* adds what the files reached import.
LEMMA RoundsExist ==
  ASSUME NEW tx, NEW start, NEW N \in Nat
  PROVE  \E r : Rounds(tx, start, N, r)
<1> DEFINE T == {n \in Nat : \E r : Rounds(tx, start, n, r)}
<1>1. 0 \in T
  <2> DEFINE r == [n \in 0 .. 0 |-> start]
  <2>1. Rounds(tx, start, 0, r)
    BY DEF Rounds
  <2> QED BY <2>1
<1>2. ASSUME NEW n \in Nat, n \in T PROVE n + 1 \in T
  <2>1. PICK r : Rounds(tx, start, n, r)
    BY <1>2
  <2> DEFINE s == [m \in 0 .. n + 1 |-> IF m = n + 1 THEN Onward(tx, r[n]) ELSE r[m]]
  <2>2. \A m \in 0 .. n : s[m] = r[m]
    OBVIOUS
  <2>3. ASSUME NEW m \in 0 .. n + 1
        PROVE  s[m] = IF m = 0 THEN start ELSE Onward(tx, s[m - 1])
    <3>1. CASE m = n + 1
      BY <2>2, <3>1
    <3>2. CASE m # n + 1
      <4>1. m \in 0 .. n /\ s[m] = r[m] /\ (m # 0 => s[m - 1] = r[m - 1])
        BY <2>2, <3>2
      <4> QED BY <2>1, <4>1 DEF Rounds
    <3> QED BY <3>1, <3>2
  <2>4. Rounds(tx, start, n + 1, s)
    <3>1. s = [m \in 0 .. n + 1 |-> s[m]]
      OBVIOUS
    <3> HIDE DEF s
    <3> QED BY <2>3, <3>1 DEF Rounds
  <2> QED BY <2>4
<1>3. N \in T
  <2> HIDE DEF T
  <2> QED BY <1>1, <1>2, ByInduction
<1> QED BY <1>3

LEMMA ReachByRounds ==
  ASSUME NEW tx, NEW start
  PROVE  \E r : /\ Rounds(tx, start, Cardinality(Files), r)
                /\ Reach(tx, start) = r[Cardinality(Files)]
<1>1. Cardinality(Files) \in Nat
  BY ImportAssumption, FS_CardinalityType
<1> QED BY <1>1, RoundsExist DEF Reach

LEMMA NextRound ==
  ASSUME NEW tx, NEW start, NEW N \in Nat, NEW r, Rounds(tx, start, N, r)
  PROVE  r[0] = start /\ \A n \in 0 .. N : n # 0 => r[n] = Onward(tx, r[n - 1])
<1>1. 0 \in 0 .. N
  OBVIOUS
<1> QED BY <1>1 DEF Rounds

\* What holds of the start and is closed under imports holds of all reached.
LEMMA ReachIsLeast ==
  ASSUME NEW tx, NEW start, NEW D, start \subseteq D, Closed(tx, D)
  PROVE  Reach(tx, start) \subseteq D
<1> DEFINE N == Cardinality(Files)
<1>1. N \in Nat
  BY ImportAssumption, FS_CardinalityType
<1>2. PICK r : Rounds(tx, start, N, r) /\ Reach(tx, start) = r[N]
  BY ReachByRounds
<1> HIDE DEF N
<1>3. r[0] = start /\ \A n \in 0 .. N : n # 0 => r[n] = Onward(tx, r[n - 1])
  BY <1>1, <1>2, NextRound
<1> DEFINE T == {n \in Nat : n <= N => r[n] \subseteq D}
<1>4. 0 \in T
  BY <1>3
<1>5. ASSUME NEW n \in Nat, n \in T PROVE n + 1 \in T
  <2> SUFFICES ASSUME n + 1 <= N PROVE r[n + 1] \subseteq D
    OBVIOUS
  <2>1. r[n + 1] = Onward(tx, r[n])
    BY <1>1, <1>3
  <2>2. r[n] \subseteq D
    BY <1>1, <1>5
  <2> QED BY <2>1, <2>2 DEF Onward, Closed
<1>6. N \in T
  <2> HIDE DEF T
  <2> QED BY <1>1, <1>4, <1>5, ByInduction
<1> QED BY <1>1, <1>2, <1>6

LEMMA ReachHasStart == ASSUME NEW tx, NEW start PROVE start \subseteq Reach(tx, start)
<1> DEFINE N == Cardinality(Files)
<1>1. N \in Nat
  BY ImportAssumption, FS_CardinalityType
<1>2. PICK r : Rounds(tx, start, N, r) /\ Reach(tx, start) = r[N]
  BY ReachByRounds
<1> HIDE DEF N
<1>3. r[0] = start /\ \A n \in 0 .. N : n # 0 => r[n] = Onward(tx, r[n - 1])
  BY <1>1, <1>2, NextRound
<1> DEFINE T == {n \in Nat : n <= N => start \subseteq r[n]}
<1>4. 0 \in T
  BY <1>3
<1>5. ASSUME NEW n \in Nat, n \in T PROVE n + 1 \in T
  <2> SUFFICES ASSUME n + 1 <= N PROVE start \subseteq r[n + 1]
    OBVIOUS
  <2>1. r[n + 1] = Onward(tx, r[n])
    BY <1>1, <1>3
  <2>2. start \subseteq r[n]
    BY <1>1, <1>5
  <2> QED BY <2>1, <2>2 DEF Onward
<1>6. N \in T
  <2> HIDE DEF T
  <2> QED BY <1>1, <1>4, <1>5, ByInduction
<1> QED BY <1>1, <1>2, <1>6

Texts == [Files -> Seq(Ids)]
Names == Files \cup {Missing}

LEMMA ImportsAreNames ==
  ASSUME NEW tx \in Texts, NEW f \in Files
  PROVE  ImportsOf(tx, f) \subseteq Names
<1>1. tx[f] \in Seq(Ids)
  BY DEF Texts
<1>2. \A i \in DOMAIN tx[f] : tx[f][i] \in Ids
  BY <1>1
<1> QED BY <1>2, ImportAssumption DEF ImportsOf, Names

\* As many rounds as there are files are enough: a round that is not the last
\* one adds a name, and there is one name more than files.
LEMMA ReachIsClosed ==
  ASSUME NEW tx \in Texts, NEW start, start \subseteq Names
  PROVE  Closed(tx, Reach(tx, start))
<1> DEFINE N == Cardinality(Files)
<1>1. N \in Nat
  BY ImportAssumption, FS_CardinalityType
<1>2. PICK r : Rounds(tx, start, N, r) /\ Reach(tx, start) = r[N]
  BY ReachByRounds
<1>3. IsFiniteSet(Names) /\ Cardinality(Names) = N + 1
  BY ImportAssumption, FS_AddElement DEF Names
<1> HIDE DEF N
<1>4. r[0] = start /\ \A n \in 0 .. N : n # 0 => r[n] = Onward(tx, r[n - 1])
  BY <1>1, <1>2, NextRound
<1>5. CASE start = {}
  <2>1. Reach(tx, start) = {}
    <3>1. Closed(tx, {})
      BY DEF Closed
    <3> QED BY <1>5, <3>1, ReachIsLeast
  <2> QED BY <2>1 DEF Closed
<1>6. CASE start # {}
  <2> DEFINE Grown(n) == /\ r[n] \subseteq Names
                         /\ Closed(tx, r[n]) \/ Cardinality(r[n]) >= n + 1
             T == {n \in Nat : n <= N => Grown(n)}
  <2>1. 0 \in T
    <3>1. IsFiniteSet(start) /\ Cardinality(start) \in Nat
      BY <1>3, FS_Subset, FS_CardinalityType
    <3>2. Cardinality(start) # 0
      BY <1>6, <3>1, FS_EmptySet
    <3>3. Cardinality(start) >= 0 + 1
      BY <3>1, <3>2
    <3> QED BY <1>4, <3>3
  <2>2. ASSUME NEW n \in Nat, n \in T PROVE n + 1 \in T
    <3> SUFFICES ASSUME n + 1 <= N PROVE Grown(n + 1)
      OBVIOUS
    <3>1. r[n + 1] = Onward(tx, r[n]) /\ r[n] \subseteq r[n + 1]
      BY <1>1, <1>4 DEF Onward
    <3>2. r[n] \subseteq Names /\ (Closed(tx, r[n]) \/ Cardinality(r[n]) >= n + 1)
      BY <1>1, <2>2
    <3>3. r[n + 1] \subseteq Names
      BY <3>1, <3>2, ImportsAreNames DEF Onward
    <3>4. CASE Closed(tx, r[n])
      <4>1. r[n + 1] = r[n]
        BY <3>1, <3>4 DEF Onward, Closed
      <4> QED BY <3>2, <3>4, <4>1
    <3>5. CASE ~Closed(tx, r[n])
      <4>1. r[n + 1] # r[n]
        BY <3>1, <3>5 DEF Onward, Closed
      <4>2. PICK x \in r[n + 1] : x \notin r[n]
        BY <3>1, <4>1
      <4>3. /\ IsFiniteSet(r[n + 1]) /\ IsFiniteSet(r[n]) /\ Cardinality(r[n]) \in Nat
            /\ Cardinality(r[n + 1]) \in Nat
        BY <1>3, <3>2, <3>3, FS_Subset, FS_CardinalityType
      <4>4. /\ Cardinality(r[n] \cup {x}) = Cardinality(r[n]) + 1
            /\ IsFiniteSet(r[n] \cup {x})
        BY <4>2, <4>3, FS_AddElement
      <4>5. Cardinality(r[n] \cup {x}) <= Cardinality(r[n + 1])
        BY <3>1, <4>2, <4>3, FS_Subset
      <4>6. Cardinality(r[n + 1]) >= n + 1 + 1
        BY <3>2, <3>5, <4>3, <4>4, <4>5
      <4> QED BY <3>3, <4>6
    <3> QED BY <3>4, <3>5
  <2>3. N \in T
    <3> HIDE DEF T
    <3> QED BY <1>1, <2>1, <2>2, ByInduction
  <2>4. r[N] \subseteq Names /\ (Closed(tx, r[N]) \/ Cardinality(r[N]) >= N + 1)
    BY <1>1, <2>3
  <2>5. CASE Cardinality(r[N]) >= N + 1
    <3>1. r[N] = Names
      <4>1. Cardinality(r[N]) <= Cardinality(Names) /\ Cardinality(r[N]) \in Nat
        BY <1>3, <2>4, FS_Subset, FS_CardinalityType
      <4>2. Cardinality(r[N]) = Cardinality(Names)
        BY <1>1, <1>3, <2>5, <4>1
      <4> QED BY <1>3, <2>4, <4>2, FS_Subset
    <3>2. Closed(tx, Names)
      BY ImportsAreNames DEF Closed
    <3> QED BY <1>2, <3>1, <3>2
  <2> QED BY <1>2, <2>4, <2>5
<1> QED BY <1>5, <1>6

-----------------------------------------------------------------------------
(* The inductive invariant.                                                *)

Module == [path : Files, body : Seq(Files), done : BOOLEAN]
Parsing == [module : Nat, left : Seq(Ids), body : Seq(Files)]

Typed ==
  /\ text \in Texts
  /\ registry \in Seq(Module)
  /\ index \in [Files \cup Ids -> Nat]
  /\ parsers \in Seq(Parsing)
  /\ scopes = 1 + Len(parsers)
  /\ ended \in {"no", "loaded", "fatal"}

Modules == 1 .. Len(registry)
Places == 1 .. Len(parsers)
DonePaths == {f \in Files : \E i \in Modules : registry[i].done /\ registry[i].path = f}
PathOf(k) == registry[parsers[k].module].path

\* The table knows every registered path, and an id only once its module is done.
TableKnows ==
  /\ \A name \in Files \cup Ids : index[name] # 0 => index[name] \in Modules
  /\ \A i \in Modules : index[registry[i].path] = i
  /\ \A f \in Files : index[f] # 0 => registry[index[f]].path = f
  /\ \A id \in Ids : index[id] # 0 => registry[index[id]].done

\* The modules on the stack are those that are not done, in the order of
\* their registration.
StackHoldsUnfinished ==
  /\ \A k \in Places : /\ parsers[k].module \in Modules
                       /\ ~registry[parsers[k].module].done
  /\ \A i \in Modules : ~registry[i].done => \E k \in Places : parsers[k].module = i
  /\ \A k, l \in Places : k < l => parsers[k].module < parsers[l].module

\* Each of them is at the import that asked for the next.
StackIsChain ==
  \A k \in Places : k + 1 \in Places =>
     /\ parsers[k].left # <<>>
     /\ Target[PathOf(k)][Head(parsers[k].left)] = PathOf(k + 1)

\* body holds what the first imports of f mean, left the other imports.
Splits(tx, f, body, left) ==
  /\ Len(tx[f]) = Len(body) + Len(left)
  /\ \A j \in 1 .. Len(body) : body[j] = Target[f][tx[f][j]]
  /\ \A j \in 1 .. Len(left) : left[j] = tx[f][Len(body) + j]
GotFrom(D, body) == \A j \in 1 .. Len(body) : body[j] \in D

ParsersFollow ==
  \A k \in Places : /\ Splits(text, PathOf(k), parsers[k].body, parsers[k].left)
                    /\ GotFrom(DonePaths, parsers[k].body)
BodiesFollow ==
  \A i \in Modules : registry[i].done =>
     Splits(text, registry[i].path, registry[i].body, <<>>) /\ GotFrom(DonePaths, registry[i].body)

OnlyNeeded ==
  /\ \A i \in Modules : registry[i].path \in Reach(text, {Main})
  /\ registry # <<>> => registry[1].path = Main

Circular(tx, f) == f \in Reach(tx, ImportsOf(tx, f))
NoneDoneOnCycle == \A f \in DonePaths : ~Circular(text, f)

Loading ==
  /\ StackHoldsUnfinished /\ StackIsChain /\ ParsersFollow
  /\ BodiesFollow /\ OnlyNeeded /\ NoneDoneOnCycle

Refusable ==
  \/ Missing \in Reach(text, {Main})
  \/ \E f \in Reach(text, {Main}) \cap Files : Circular(text, f)

ImportInv ==
  /\ Typed /\ TableKnows
  /\ ended # "fatal" => Loading
  /\ ended # "no" => registry # <<>> /\ parsers = <<>>
  /\ ended = "fatal" => Refusable

-----------------------------------------------------------------------------
(* Splitting the imports of a file.                                        *)

LEMMA SplitAtStart ==
  ASSUME NEW tx \in Texts, NEW f \in Files
  PROVE  Splits(tx, f, <<>>, tx[f])
<1>1. tx[f] \in Seq(Ids) /\ Len(tx[f]) \in Nat /\ Len(<<>>) = 0
  BY DEF Texts
<1> QED BY <1>1 DEF Splits

LEMMA NextIsImport ==
  ASSUME NEW tx \in Texts, NEW f \in Files, NEW body \in Seq(Files), NEW left \in Seq(Ids),
         Splits(tx, f, body, left), left # <<>>
  PROVE  Head(left) \in Ids /\ Target[f][Head(left)] \in ImportsOf(tx, f)
<1>1. tx[f] \in Seq(Ids) /\ Len(tx[f]) \in Nat /\ Len(body) \in Nat /\ Len(left) \in Nat
  BY DEF Texts
<1>2. Len(left) > 0 /\ Head(left) = left[1] /\ Head(left) \in Ids
  BY <1>1
<1>3. left[1] = tx[f][Len(body) + 1] /\ Len(body) + 1 \in 1 .. Len(tx[f])
  BY <1>1, <1>2 DEF Splits
<1>4. DOMAIN tx[f] = 1 .. Len(tx[f])
  BY <1>1
<1> QED BY <1>2, <1>3, <1>4 DEF ImportsOf

LEMMA SplitsFurther ==
  ASSUME NEW tx \in Texts, NEW f \in Files, NEW body \in Seq(Files), NEW left \in Seq(Ids),
         Splits(tx, f, body, left), left # <<>>, NEW path \in Files, path = Target[f][Head(left)]
  PROVE  Splits(tx, f, Append(body, path), Tail(left))
<1> DEFINE b == Append(body, path)
           l == Tail(left)
<1>1. Len(body) \in Nat /\ Len(left) \in Nat /\ Len(left) > 0 /\ Head(left) = left[1]
  OBVIOUS
<1>2. /\ Len(b) = Len(body) + 1 /\ b[Len(body) + 1] = path
      /\ \A j \in 1 .. Len(body) : b[j] = body[j]
  BY AppendProperties
<1>3. Len(l) = Len(left) - 1 /\ \A j \in 1 .. Len(l) : l[j] = left[j + 1]
  BY HeadTailProperties
<1> HIDE DEF b, l
<1>4. Len(tx[f]) = Len(b) + Len(l)
  BY <1>1, <1>2, <1>3 DEF Splits
<1>5. left[1] = tx[f][Len(body) + 1]
  BY <1>1 DEF Splits
<1>6. ASSUME NEW j \in 1 .. Len(b) PROVE b[j] = Target[f][tx[f][j]]
  <2>1. CASE j = Len(body) + 1
    BY <1>1, <1>2, <1>5, <2>1
  <2>2. CASE j # Len(body) + 1
    <3>1. j \in 1 .. Len(body)
      BY <1>1, <1>2, <2>2
    <3> QED BY <1>2, <3>1 DEF Splits
  <2> QED BY <2>1, <2>2
<1>7. ASSUME NEW j \in 1 .. Len(l) PROVE l[j] = tx[f][Len(b) + j]
  <2>1. j + 1 \in 1 .. Len(left) /\ Len(body) + (j + 1) = Len(b) + j
    BY <1>1, <1>2, <1>3
  <2>2. l[j] = left[j + 1]
    BY <1>3
  <2>3. left[j + 1] = tx[f][Len(body) + (j + 1)]
    BY <2>1 DEF Splits
  <2> QED BY <2>1, <2>2, <2>3
<1>8. Splits(tx, f, b, l)
  BY <1>4, <1>6, <1>7 DEF Splits
<1> QED BY <1>8 DEF b, l

LEMMA GotOneMore ==
  ASSUME NEW body \in Seq(Files), NEW D, GotFrom(D, body), NEW path \in Files, path \in D
  PROVE  GotFrom(D, Append(body, path))
<1> DEFINE b == Append(body, path)
<1>1. Len(body) \in Nat
  OBVIOUS
<1>2. /\ Len(b) = Len(body) + 1 /\ b[Len(body) + 1] = path
      /\ \A j \in 1 .. Len(body) : b[j] = body[j]
  BY AppendProperties
<1> HIDE DEF b
<1>3. ASSUME NEW j \in 1 .. Len(b) PROVE b[j] \in D
  <2>1. CASE j = Len(body) + 1
    BY <1>2, <2>1
  <2>2. CASE j # Len(body) + 1
    <3>1. j \in 1 .. Len(body)
      BY <1>1, <1>2, <2>2
    <3> QED BY <1>2, <3>1 DEF GotFrom
  <2> QED BY <2>1, <2>2
<1>4. GotFrom(D, b)
  BY <1>3 DEF GotFrom
<1> QED BY <1>4 DEF b

LEMMA AllImportsGot ==
  ASSUME NEW tx \in Texts, NEW f \in Files, NEW body \in Seq(Files), NEW D,
         Splits(tx, f, body, <<>>), GotFrom(D, body)
  PROVE  ImportsOf(tx, f) \subseteq D
<1>1. tx[f] \in Seq(Ids) /\ Len(tx[f]) \in Nat /\ Len(body) \in Nat /\ Len(<<>>) = 0
  BY DEF Texts
<1>2. Len(tx[f]) = Len(body)
  BY <1>1 DEF Splits
<1>3. DOMAIN tx[f] = 1 .. Len(body)
  BY <1>1, <1>2
<1>4. \A j \in 1 .. Len(body) : Target[f][tx[f][j]] \in D
  BY DEF Splits, GotFrom
<1> QED BY <1>3, <1>4 DEF ImportsOf

-----------------------------------------------------------------------------
(* The parsers at work.                                                    *)

LEMMA ParserIs ==
  ASSUME Typed, Loading, NEW k \in Places
  PROVE  /\ parsers[k].module \in Modules /\ PathOf(k) \in Files
         /\ parsers[k].left \in Seq(Ids) /\ parsers[k].body \in Seq(Files)
         /\ ~registry[parsers[k].module].done
         /\ Splits(text, PathOf(k), parsers[k].body, parsers[k].left)
         /\ GotFrom(DonePaths, parsers[k].body)
<1>1. parsers[k] \in Parsing
  BY DEF Typed, Places
<1>2. parsers[k].module \in Modules /\ ~registry[parsers[k].module].done
  BY DEF Loading, StackHoldsUnfinished
<1>3. registry[parsers[k].module] \in Module
  BY <1>2 DEF Typed, Modules
<1> QED BY <1>1, <1>2, <1>3 DEF Parsing, Module, PathOf, Loading, ParsersFollow

\* The parser on top is the current one.
LEMMA CurrentIsTop ==
  ASSUME Typed, parsers # <<>>
  PROVE  /\ Len(parsers) \in Places /\ Current = parsers[Len(parsers)]
         /\ Here = PathOf(Len(parsers)) /\ Len(parsers) \in Nat
<1>1. Len(parsers) \in Nat /\ Len(parsers) > 0
  BY DEF Typed
<1> QED BY <1>1 DEF Places, Current, Here, PathOf

LEMMA FilesAreModules ==
  ASSUME Typed, NEW i \in Modules
  PROVE  /\ registry[i].path \in Files /\ registry[i].body \in Seq(Files)
         /\ registry[i].done \in BOOLEAN /\ i \in Nat /\ i # 0
<1>1. registry[i] \in Module /\ Len(registry) \in Nat
  BY DEF Typed, Modules
<1> QED BY <1>1 DEF Module, Modules

LEMMA NeededIsClosed ==
  ASSUME Typed, NEW f \in Files, f \in Reach(text, {Main})
  PROVE  ImportsOf(text, f) \subseteq Reach(text, {Main})
<1>1. {Main} \subseteq Names
  BY ImportAssumption DEF Names
<1>2. Closed(text, Reach(text, {Main}))
  BY <1>1, ReachIsClosed DEF Typed
<1> QED BY <1>2 DEF Closed

\* What the current import means is needed.
LEMMA ImportIsNeeded ==
  ASSUME Typed, Loading, parsers # <<>>, Current.left # <<>>
  PROVE  /\ Here \in Files /\ Head(Current.left) \in Ids
         /\ Target[Here][Head(Current.left)] \in ImportsOf(text, Here)
         /\ Target[Here][Head(Current.left)] \in Reach(text, {Main})
<1> DEFINE k == Len(parsers)
<1>1. k \in Places /\ Current = parsers[k] /\ Here = PathOf(k)
  BY CurrentIsTop
<1> HIDE DEF k
<1>2. /\ PathOf(k) \in Files /\ parsers[k].module \in Modules
      /\ parsers[k].left \in Seq(Ids) /\ parsers[k].body \in Seq(Files)
      /\ Splits(text, PathOf(k), parsers[k].body, parsers[k].left)
  BY <1>1, ParserIs
<1>3. /\ Head(parsers[k].left) \in Ids
      /\ Target[PathOf(k)][Head(parsers[k].left)] \in ImportsOf(text, PathOf(k))
  BY <1>1, <1>2, NextIsImport DEF Typed
<1>4. PathOf(k) \in Reach(text, {Main})
  BY <1>2 DEF Loading, OnlyNeeded, PathOf
<1> QED BY <1>1, <1>2, <1>3, <1>4, NeededIsClosed

-----------------------------------------------------------------------------
(* A parser starts.                                                        *)

LEMMA StartKeeps ==
  ASSUME ImportInv, ended = "no", NEW path \in Files, index[path] = 0, StartsToLoad(path),
         \/ registry = <<>> /\ path = Main
         \/ /\ parsers # <<>> /\ Current.left # <<>>
            /\ path = Target[Here][Head(Current.left)]
  PROVE  ImportInv'
<1>1. Typed /\ TableKnows /\ Loading
  BY DEF ImportInv
<1>2. text[path] \in Seq(Ids)
  BY <1>1 DEF Typed, Texts
<1>3. PICK N \in Nat : N = Len(registry)
  BY <1>1 DEF Typed
<1>4. PICK K \in Nat : K = Len(parsers)
  BY <1>1 DEF Typed
<1> DEFINE module == [path |-> path, body |-> NoBody, done |-> FALSE]
           parser == [module |-> N + 1, left |-> text[path], body |-> NoBody]
<1>5. module \in Module /\ parser \in Parsing /\ module.path = path /\ ~module.done
  BY <1>2 DEF Module, Parsing, NoBody
<1>6. /\ registry' = Append(registry, module) /\ parsers' = Append(parsers, parser)
      /\ index' = [index EXCEPT ![path] = N + 1]
      /\ scopes' = scopes + 1 /\ text' = text /\ ended' = ended
  BY <1>3 DEF StartsToLoad
<1> HIDE DEF module
<1>7. /\ registry' \in Seq(Module) /\ Len(registry') = N + 1 /\ registry'[N + 1] = module
      /\ \A i \in 1 .. N : registry'[i] = registry[i]
  <2>1. registry \in Seq(Module)
    BY <1>1 DEF Typed
  <2> QED BY <1>3, <1>5, <1>6, <2>1, AppendProperties
<1>8. /\ parser.module = N + 1 /\ parser.left = text[path] /\ parser.body = <<>>
  BY DEF NoBody
<1> HIDE DEF parser
<1>9. /\ parsers' \in Seq(Parsing) /\ Len(parsers') = K + 1 /\ parsers'[K + 1] = parser
      /\ \A k \in 1 .. K : parsers'[k] = parsers[k]
  <2>1. parsers \in Seq(Parsing)
    BY <1>1 DEF Typed
  <2> QED BY <1>4, <1>5, <1>6, <2>1, AppendProperties
<1>10. /\ index'[path] = N + 1
      /\ \A name \in (Files \cup Ids) \ {path} : index'[name] = index[name]
      /\ index' \in [Files \cup Ids -> Nat]
  BY <1>1, <1>2, <1>6 DEF Typed
<1>11. Modules = 1 .. N /\ Modules' = 1 .. N + 1 /\ Places = 1 .. K /\ Places' = 1 .. K + 1
  BY <1>3, <1>4, <1>7, <1>9 DEF Modules, Places
<1>12. Typed'
  <2>1. scopes' = 1 + Len(parsers')
    BY <1>4, <1>1, <1>6, <1>9 DEF Typed
  <2> QED BY <1>1, <1>6, <1>7, <1>9, <1>10, <2>1 DEF Typed
<1>13. \A i \in 1 .. N : /\ registry[i].path \in Files /\ registry[i].path # path
                         /\ registry[i].done \in BOOLEAN /\ i # 0
  BY <1>1, <1>11, FilesAreModules DEF TableKnows
<1>14. TableKnows'
  <2>1. ASSUME NEW name \in Files \cup Ids, index'[name] # 0 PROVE index'[name] \in Modules'
    <3>1. CASE name = path
      BY <1>2, <1>10, <1>11, <3>1
    <3>2. CASE name # path
      <4>1. index'[name] = index[name] /\ index[name] \in 1 .. N
        BY <1>1, <1>10, <1>11, <2>1, <3>2 DEF TableKnows
      <4> QED BY <1>2, <1>11, <4>1
    <3> QED BY <3>1, <3>2
  <2>2. ASSUME NEW i \in Modules' PROVE index'[registry'[i].path] = i
    <3>1. CASE i = N + 1
      BY <1>5, <1>7, <1>10, <3>1
    <3>2. CASE i # N + 1
      <4>1. i \in 1 .. N
        BY <1>11, <3>2
      <4>2. /\ registry'[i].path = registry[i].path /\ registry[i].path \in Files
            /\ registry[i].path # path
        BY <1>7, <1>13, <4>1
      <4> QED BY <1>1, <1>10, <1>11, <4>1, <4>2 DEF TableKnows
    <3> QED BY <3>1, <3>2
  <2>3. ASSUME NEW f \in Files, index'[f] # 0 PROVE registry'[index'[f]].path = f
    <3>1. CASE f = path
      BY <1>5, <1>7, <1>10, <3>1
    <3>2. CASE f # path
      <4>1. index'[f] = index[f] /\ index[f] \in 1 .. N /\ registry[index[f]].path = f
        BY <1>1, <1>10, <1>11, <2>3, <3>2 DEF TableKnows
      <4> QED BY <1>7, <4>1
    <3> QED BY <3>1, <3>2
  <2>4. ASSUME NEW id \in Ids, index'[id] # 0 PROVE registry'[index'[id]].done
    <3>1. index'[id] = index[id]
      BY <1>10, ImportAssumption
    <3>2. index[id] \in 1 .. N /\ registry[index[id]].done
      BY <1>1, <1>11, <2>4, <3>1 DEF TableKnows
    <3> QED BY <1>7, <3>1, <3>2
  <2> QED BY <2>1, <2>2, <2>3, <2>4 DEF TableKnows
<1>15. DonePaths' = DonePaths
  <2>1. ASSUME NEW i \in 1 .. N + 1 PROVE registry'[i].done <=> i \in 1 .. N /\ registry[i].done
    <3>1. CASE i = N + 1
      BY <1>2, <1>5, <1>7, <3>1
    <3>2. CASE i # N + 1
      BY <1>2, <1>7, <3>2
    <3> QED BY <3>1, <3>2
  <2>2. \A i \in 1 .. N : i \in 1 .. N + 1 /\ registry'[i].path = registry[i].path
    BY <1>2, <1>7
  <2> QED BY <1>11, <2>1, <2>2 DEF DonePaths
<1>16. \A k \in 1 .. K : /\ parsers'[k] = parsers[k] /\ parsers[k].module \in 1 .. N
                         /\ registry'[parsers[k].module] = registry[parsers[k].module]
                         /\ PathOf(k)' = PathOf(k)
  <2> SUFFICES ASSUME NEW k \in 1 .. K
               PROVE  /\ parsers'[k] = parsers[k] /\ parsers[k].module \in 1 .. N
                      /\ registry'[parsers[k].module] = registry[parsers[k].module]
                      /\ PathOf(k)' = PathOf(k)
    OBVIOUS
  <2>1. parsers'[k] = parsers[k] /\ parsers[k].module \in 1 .. N
    BY <1>1, <1>9, <1>11, ParserIs
  <2> QED BY <1>7, <2>1 DEF PathOf
<1>17. PathOf(K + 1)' = path
  BY <1>5, <1>7, <1>8, <1>9 DEF PathOf
<1>18. StackHoldsUnfinished'
  <2>1. ASSUME NEW k \in Places' PROVE /\ parsers'[k].module \in Modules'
                                       /\ ~registry'[parsers'[k].module].done
    <3>1. CASE k = K + 1
      BY <1>2, <1>5, <1>7, <1>8, <1>9, <1>11, <3>1
    <3>2. CASE k # K + 1
      <4>1. k \in 1 .. K
        BY <1>11, <3>2
      <4>2. ~registry[parsers[k].module].done
        BY <1>1, <1>11, <4>1, ParserIs
      <4> QED BY <1>2, <1>11, <1>16, <4>1, <4>2
    <3> QED BY <3>1, <3>2
  <2>2. ASSUME NEW i \in Modules', ~registry'[i].done PROVE \E k \in Places' : parsers'[k].module = i
    <3>1. CASE i = N + 1
      BY <1>2, <1>8, <1>9, <1>11, <3>1
    <3>2. CASE i # N + 1
      <4>1. i \in 1 .. N /\ ~registry[i].done
        BY <1>2, <1>7, <1>11, <2>2, <3>2
      <4>2. PICK k \in 1 .. K : parsers[k].module = i
        BY <1>1, <1>11, <4>1 DEF Loading, StackHoldsUnfinished
      <4> QED BY <1>2, <1>9, <1>11, <4>2
    <3> QED BY <3>1, <3>2
  <2>3. ASSUME NEW k \in Places', NEW l \in Places', k < l
        PROVE  parsers'[k].module < parsers'[l].module
    <3>1. k \in 1 .. K
      BY <1>2, <1>11, <2>3
    <3>2. CASE l = K + 1
      BY <1>2, <1>8, <1>9, <1>16, <3>1, <3>2
    <3>3. CASE l # K + 1
      <4>1. l \in 1 .. K
        BY <1>2, <1>11, <3>3
      <4> QED BY <1>1, <1>11, <1>16, <2>3, <3>1, <4>1 DEF Loading, StackHoldsUnfinished
    <3> QED BY <3>2, <3>3
  <2> QED BY <2>1, <2>2, <2>3 DEF StackHoldsUnfinished
<1>19. ASSUME NEW k \in 1 .. K, k = K
       PROVE  parsers[k].left # <<>> /\ Target[PathOf(k)][Head(parsers[k].left)] = path
  <2>1. parsers[k].module \in 1 .. N
    BY <1>16
  <2>2. registry # <<>> /\ parsers # <<>>
    <3>1. N # 0 /\ K # 0
      BY <1>2, <1>19, <2>1
    <3> QED BY <1>3, <1>4, <3>1
  <2>3. Current = parsers[k] /\ Here = PathOf(k)
    BY <1>4, <1>1, <1>19, <2>2, CurrentIsTop
  <2> QED BY <2>2, <2>3
<1>20. StackIsChain'
  <2> SUFFICES ASSUME NEW k \in Places', k + 1 \in Places'
               PROVE  /\ parsers'[k].left # <<>>
                      /\ Target[PathOf(k)'][Head(parsers'[k].left)] = PathOf(k + 1)'
    BY DEF StackIsChain
  <2>1. k \in 1 .. K
    BY <1>2, <1>11
  <2>2. CASE k = K
    BY <1>16, <1>17, <1>19, <2>1, <2>2
  <2>3. CASE k # K
    <3>1. k + 1 \in 1 .. K
      BY <1>2, <2>1, <2>3
    <3>2. parsers[k].left # <<>> /\ Target[PathOf(k)][Head(parsers[k].left)] = PathOf(k + 1)
      BY <1>1, <1>11, <2>1, <3>1 DEF Loading, StackIsChain
    <3> QED BY <1>16, <2>1, <3>1, <3>2
  <2> QED BY <2>2, <2>3
<1>21. ParsersFollow'
  <2> SUFFICES ASSUME NEW k \in Places'
               PROVE  /\ Splits(text, PathOf(k)', parsers'[k].body, parsers'[k].left)
                      /\ GotFrom(DonePaths, parsers'[k].body)
    BY <1>6, <1>15 DEF ParsersFollow
  <2>1. CASE k = K + 1
    <3>1. Splits(text, path, <<>>, text[path])
      BY <1>1, SplitAtStart DEF Typed
    <3>2. GotFrom(DonePaths, <<>>)
      BY DEF GotFrom
    <3> QED BY <1>8, <1>9, <1>17, <2>1, <3>1, <3>2
  <2>2. CASE k # K + 1
    <3>1. k \in 1 .. K
      BY <1>2, <1>11, <2>2
    <3> QED BY <1>1, <1>11, <1>16, <3>1, ParserIs
  <2> QED BY <2>1, <2>2
<1>22. BodiesFollow'
  <2> SUFFICES ASSUME NEW i \in Modules', registry'[i].done
               PROVE  /\ Splits(text, registry'[i].path, registry'[i].body, <<>>)
                      /\ GotFrom(DonePaths, registry'[i].body)
    BY <1>6, <1>15 DEF BodiesFollow
  <2>1. i \in 1 .. N
    BY <1>2, <1>5, <1>7, <1>11
  <2> QED BY <1>1, <1>7, <1>11, <2>1 DEF Loading, BodiesFollow
<1>23. OnlyNeeded'
  <2>1. path \in Reach(text, {Main})
    <3>1. CASE registry = <<>> /\ path = Main
      BY <3>1, ReachHasStart
    <3>2. CASE /\ parsers # <<>> /\ Current.left # <<>>
               /\ path = Target[Here][Head(Current.left)]
      BY <1>1, <3>2, ImportIsNeeded
    <3> QED BY <3>1, <3>2
  <2>2. ASSUME NEW i \in Modules' PROVE registry'[i].path \in Reach(text, {Main})
    <3>1. CASE i = N + 1
      BY <1>5, <1>7, <2>1, <3>1
    <3>2. CASE i # N + 1
      <4>1. i \in 1 .. N
        BY <1>11, <3>2
      <4> QED BY <1>1, <1>7, <1>11, <4>1 DEF Loading, OnlyNeeded
    <3> QED BY <3>1, <3>2
  <2>3. registry'[1].path = Main
    <3>1. CASE N = 0
      <4>1. parsers = <<>>
        <5>1. ~ (1 \in 1 .. K)
          BY <1>2, <1>16, <3>1
        <5> QED BY <1>4, <1>1, <5>1 DEF Typed
      <4>2. path = Main
        BY <4>1
      <4> QED BY <1>5, <1>7, <3>1, <4>2
    <3>2. CASE N # 0
      <4>1. 1 \in 1 .. N /\ registry # <<>>
        BY <1>3, <3>2
      <4> QED BY <1>1, <1>7, <4>1 DEF Loading, OnlyNeeded
    <3> QED BY <3>1, <3>2
  <2> QED BY <1>6, <2>2, <2>3 DEF OnlyNeeded
<1>24. NoneDoneOnCycle'
  BY <1>1, <1>6, <1>15 DEF NoneDoneOnCycle, Loading
<1> QED BY <1>6, <1>12, <1>14, <1>18, <1>20, <1>21, <1>22, <1>23, <1>24 DEF ImportInv, Loading

-----------------------------------------------------------------------------
(* An import gets its file.                                                *)

\* Only the last parser has changed.
Gave(ps, K, path, new) ==
  /\ new \in Seq(Parsing) /\ Len(new) = K
  /\ \A k \in 1 .. K : k # K => new[k] = ps[k]
  /\ new[K].module = ps[K].module
  /\ new[K].left = Tail(ps[K].left)
  /\ new[K].body = Append(ps[K].body, path)

LEMMA GivesIs ==
  ASSUME NEW ps \in Seq(Parsing), NEW K \in Nat, K = Len(ps), K # 0, NEW path \in Files,
         ps[K].left # <<>>
  PROVE  Gave(ps, K, path, Gives(ps, path))
<1> DEFINE p == [ps[K] EXCEPT !.left = Tail(@), !.body = Append(@, path)]
<1>1. K \in 1 .. K /\ ps[K] \in Parsing
  OBVIOUS
<1>2. /\ ps[K].module \in Nat /\ ps[K].left \in Seq(Ids) /\ ps[K].body \in Seq(Files)
  BY <1>1 DEF Parsing
<1>3. Tail(ps[K].left) \in Seq(Ids) /\ Append(ps[K].body, path) \in Seq(Files)
  BY <1>2
<1>4. /\ p \in Parsing /\ p.module = ps[K].module
      /\ p.left = Tail(ps[K].left) /\ p.body = Append(ps[K].body, path)
  <2> DEFINE l == Tail(ps[K].left)
             b == Append(ps[K].body, path)
             q == [ps[K] EXCEPT !.left = l, !.body = b]
  <2>1. p = q
    BY <1>1 DEF Parsing
  <2>2. l \in Seq(Ids) /\ b \in Seq(Files)
    BY <1>3
  <2> HIDE DEF p, l, b
  <2>3. q \in Parsing
    BY <1>1, <2>2 DEF Parsing
  <2>4. q.left = l
    BY <1>1, <2>2 DEF Parsing
  <2>5. q.body = b
    BY <1>1, <2>2 DEF Parsing
  <2>6. q.module = ps[K].module
    BY <1>1, <2>2 DEF Parsing
  <2> HIDE DEF q
  <2> QED BY <2>1, <2>3, <2>4, <2>5, <2>6 DEF l, b
<1>5. Gives(ps, path) = [ps EXCEPT ![K] = p]
  BY DEF Gives
<1> HIDE DEF p
<1>6. /\ Gives(ps, path) \in Seq(Parsing) /\ Len(Gives(ps, path)) = K
      /\ Gives(ps, path)[K] = p
      /\ \A k \in 1 .. K : k # K => Gives(ps, path)[k] = ps[k]
  BY <1>1, <1>4, <1>5, ExceptSeq
<1> QED BY <1>4, <1>6 DEF Gave

LEMMA GiveKeeps ==
  ASSUME ImportInv, ended = "no", parsers # <<>>, Current.left # <<>>,
         NEW id, id = Head(Current.left), NEW path, path = Target[Here][id], path \in Files,
         index[path] # 0, registry[index[path]].done,
         parsers' = Gives(parsers, path), index' = [index EXCEPT ![id] = index[path]],
         UNCHANGED <<text, registry, scopes, ended>>
  PROVE  ImportInv'
<1>1. Typed /\ TableKnows /\ Loading
  BY DEF ImportInv
<1>2. PICK K \in Nat : K = Len(parsers)
  BY <1>1 DEF Typed
<1>3. K # 0 /\ K \in Places /\ Current = parsers[K] /\ Here = PathOf(K) /\ Places = 1 .. K
  BY <1>1, <1>2, CurrentIsTop DEF Places
<1>4. /\ parsers' \in Seq(Parsing) /\ Len(parsers') = K
      /\ \A k \in 1 .. K : k # K => parsers'[k] = parsers[k]
      /\ parsers'[K].module = parsers[K].module
      /\ parsers'[K].left = Tail(parsers[K].left)
      /\ parsers'[K].body = Append(parsers[K].body, path)
  <2>1. parsers \in Seq(Parsing) /\ parsers[K].left # <<>>
    BY <1>1, <1>3 DEF Typed
  <2>2. Gave(parsers, K, path, parsers')
    BY <1>2, <1>3, <2>1, GivesIs
  <2> QED BY <2>2 DEF Gave
<1>5. Places' = 1 .. K /\ Modules' = Modules
  BY <1>4 DEF Places, Modules
<1>6. \A k \in 1 .. K : parsers'[k].module = parsers[k].module /\ PathOf(k)' = PathOf(k)
  <2>1. \A k \in 1 .. K : parsers'[k].module = parsers[k].module
    BY <1>4
  <2> QED BY <2>1 DEF PathOf
<1>7. id \in Ids
  BY <1>1, ImportIsNeeded
<1>8. /\ index' \in [Files \cup Ids -> Nat] /\ index'[id] = index[path]
      /\ \A name \in (Files \cup Ids) \ {id} : index'[name] = index[name]
  BY <1>1, <1>7 DEF Typed
<1>9. Typed'
  BY <1>1, <1>2, <1>4, <1>8 DEF Typed
<1>10. TableKnows'
  <2>1. index[path] \in Modules
    BY <1>1 DEF TableKnows
  <2>2. \A name \in Files \cup Ids : index'[name] # 0 => index'[name] \in Modules
    BY <1>1, <1>8, <2>1 DEF TableKnows
  <2>3. \A f \in Files : index'[f] = index[f]
    <3>1. \A f \in Files : f \in (Files \cup Ids) \ {id}
      BY <1>7, ImportAssumption
    <3> QED BY <1>8, <3>1
  <2>4. \A i \in Modules : registry[i].path \in Files
    BY <1>1, FilesAreModules
  <2>5. \A other \in Ids : index'[other] # 0 => registry[index'[other]].done
    BY <1>1, <1>8 DEF TableKnows
  <2> QED BY <1>1, <1>5, <2>2, <2>3, <2>4, <2>5 DEF TableKnows
<1>11. DonePaths' = DonePaths
  BY <1>5 DEF DonePaths
<1>12. StackHoldsUnfinished'
  <2>1. \A k \in 1 .. K : /\ parsers'[k].module \in Modules
                         /\ ~registry'[parsers'[k].module].done
    BY <1>1, <1>3, <1>6 DEF Loading, StackHoldsUnfinished
  <2>2. ASSUME NEW i \in Modules, ~registry'[i].done PROVE \E k \in 1 .. K : parsers'[k].module = i
    <3>1. PICK k \in 1 .. K : parsers[k].module = i
      BY <1>1, <1>3, <2>2 DEF Loading, StackHoldsUnfinished
    <3> QED BY <1>6, <3>1
  <2>3. \A k, l \in 1 .. K : k < l => parsers'[k].module < parsers'[l].module
    BY <1>1, <1>3, <1>6 DEF Loading, StackHoldsUnfinished
  <2> QED BY <1>5, <2>1, <2>2, <2>3 DEF StackHoldsUnfinished
<1>13. StackIsChain'
  <2> SUFFICES ASSUME NEW k \in 1 .. K, k + 1 \in 1 .. K
               PROVE  /\ parsers'[k].left # <<>>
                      /\ Target[PathOf(k)'][Head(parsers'[k].left)] = PathOf(k + 1)'
    BY <1>5 DEF StackIsChain
  <2>1. parsers'[k] = parsers[k]
    <3>1. k # K
      OBVIOUS
    <3> QED BY <1>4, <3>1
  <2>2. parsers[k].left # <<>> /\ Target[PathOf(k)][Head(parsers[k].left)] = PathOf(k + 1)
    BY <1>1, <1>3 DEF Loading, StackIsChain
  <2> QED BY <1>6, <2>1, <2>2
<1>14. path \in DonePaths
  <2>1. index[path] \in Modules /\ registry[index[path]].path = path
    BY <1>1 DEF TableKnows
  <2> QED BY <2>1 DEF DonePaths
<1>15. ParsersFollow'
  <2> SUFFICES ASSUME NEW k \in 1 .. K
               PROVE  /\ Splits(text, PathOf(k), parsers'[k].body, parsers'[k].left)
                      /\ GotFrom(DonePaths, parsers'[k].body)
    BY <1>5, <1>6, <1>11 DEF ParsersFollow
  <2>1. /\ PathOf(k) \in Files
        /\ parsers[k].left \in Seq(Ids) /\ parsers[k].body \in Seq(Files)
        /\ Splits(text, PathOf(k), parsers[k].body, parsers[k].left)
        /\ GotFrom(DonePaths, parsers[k].body)
    BY <1>1, <1>3, ParserIs
  <2>2. CASE k # K
    BY <1>4, <2>1, <2>2
  <2>3. CASE k = K
    <3>1. parsers[k].left # <<>> /\ path = Target[PathOf(k)][Head(parsers[k].left)]
      BY <1>3, <2>3
    <3>2. Splits(text, PathOf(k), Append(parsers[k].body, path), Tail(parsers[k].left))
      BY <1>1, <2>1, <3>1, SplitsFurther DEF Typed
    <3>3. GotFrom(DonePaths, Append(parsers[k].body, path))
      BY <1>14, <2>1, GotOneMore
    <3> QED BY <1>4, <2>3, <3>2, <3>3
  <2> QED BY <2>2, <2>3
<1>16. BodiesFollow' /\ OnlyNeeded' /\ NoneDoneOnCycle'
  BY <1>1, <1>5, <1>11 DEF Loading, BodiesFollow, OnlyNeeded, NoneDoneOnCycle
<1> QED BY <1>9, <1>10, <1>12, <1>13, <1>15, <1>16 DEF ImportInv, Loading

-----------------------------------------------------------------------------
(* A parser is through.                                                    *)

\* The files imported by a file whose imports are all of done modules lead
\* to done modules only.
LEMMA DoneIsClosed ==
  ASSUME Typed, BodiesFollow
  PROVE  Closed(text, DonePaths)
<1> SUFFICES ASSUME NEW f \in DonePaths PROVE ImportsOf(text, f) \subseteq DonePaths
  BY DEF Closed
<1>1. f \in Files
  BY DEF DonePaths
<1>2. PICK i \in Modules : registry[i].done /\ registry[i].path = f
  BY DEF DonePaths
<1>3. /\ Splits(text, f, registry[i].body, <<>>) /\ GotFrom(DonePaths, registry[i].body)
      /\ registry[i].body \in Seq(Files)
  BY <1>2, FilesAreModules DEF BodiesFollow
<1> QED BY <1>1, <1>3, AllImportsGot DEF Typed

LEMMA Replaced ==
  ASSUME NEW S, NEW seq \in Seq(S), NEW i \in 1 .. Len(seq), NEW e \in S,
         NEW new, new = [seq EXCEPT ![i] = e]
  PROVE  /\ new \in Seq(S) /\ Len(new) = Len(seq) /\ new[i] = e
         /\ \A j \in 1 .. Len(seq) : j # i => new[j] = seq[j]
BY ExceptSeq

LEMMA SetsBody ==
  ASSUME Typed, NEW d \in Modules, NEW body \in Seq(Files),
         registry' = [registry EXCEPT ![d].body = body, ![d].done = TRUE]
  PROVE  /\ registry' \in Seq(Module) /\ Modules' = Modules
         /\ registry'[d].path = registry[d].path /\ registry'[d].body = body /\ registry'[d].done
         /\ \A i \in Modules : i # d => registry'[i] = registry[i]
<1> DEFINE m == [registry[d] EXCEPT !.body = body, !.done = TRUE]
<1>1. registry \in Seq(Module) /\ registry[d] \in Module
  BY DEF Typed, Modules
<1>2. m \in Module
  BY <1>1 DEF Module
<1>3. m.path = registry[d].path
  BY <1>1 DEF Module
<1>4. m.body = body
  BY <1>1 DEF Module
<1>5. m.done = TRUE
  BY <1>1 DEF Module
<1>6. PICK new : new = [registry EXCEPT ![d] = m]
  OBVIOUS
<1> HIDE DEF m
<1>7. d \in 1 .. Len(registry)
  BY DEF Modules
<1>8. /\ new \in Seq(Module) /\ Len(new) = Len(registry)
      /\ \A i \in 1 .. Len(registry) : i # d => new[i] = registry[i]
      /\ new[d] = m
  BY <1>1, <1>2, <1>6, <1>7, Replaced
<1>9. registry' = new
  BY <1>6 DEF m
<1> QED BY <1>3, <1>4, <1>9, <1>5, <1>8 DEF Modules

\* The stack without its last parser.
LEMMA BelowIs ==
  ASSUME NEW ps \in Seq(Parsing), NEW K \in Nat, K = Len(ps), K # 0
  PROVE  /\ SubSeq(ps, 1, K - 1) \in Seq(Parsing) /\ Len(SubSeq(ps, 1, K - 1)) = K - 1
         /\ \A k \in 1 .. K - 1 : SubSeq(ps, 1, K - 1)[k] = ps[k]
BY SubSeqProperties

\* What the finish of a module does to the stack and to the table of names.
FinishGives(path, below, done) ==
  IF below = <<>>
  THEN parsers' = below /\ ended' = "loaded" /\ UNCHANGED index
  ELSE /\ parsers' = Gives(below, path)
       /\ index' = [index EXCEPT ![Head(below[Len(below)].left)] = done]
       /\ UNCHANGED ended

LEMMA FinishKeeps ==
  ASSUME ImportInv, Finish
  PROVE  ImportInv'
<1>1. Typed /\ TableKnows /\ Loading /\ ended = "no" /\ parsers # <<>> /\ Current.left = <<>>
  BY DEF ImportInv, Finish
<1>2. PICK K \in Nat : K = Len(parsers)
  BY <1>1 DEF Typed
<1>3. K # 0 /\ K \in Places /\ Current = parsers[K] /\ Here = PathOf(K) /\ Places = 1 .. K
  BY <1>1, <1>2, CurrentIsTop DEF Places
<1>4. PICK d : d = parsers[K].module
  OBVIOUS
<1>5. PICK path : path = registry[d].path
  OBVIOUS
<1>6. PICK below : below = SubSeq(parsers, 1, K - 1)
  OBVIOUS
<1>7. /\ registry' = [registry EXCEPT ![d].body = parsers[K].body, ![d].done = TRUE]
      /\ scopes' = scopes - 1 /\ text' = text
  BY <1>3, <1>4 DEF Finish
<1>8. FinishGives(path, below, d)
  BY <1>2, <1>3, <1>4, <1>5, <1>6 DEF Finish, FinishGives
<1>9. /\ d \in Modules /\ path \in Files /\ path = PathOf(K) /\ ~registry[d].done
      /\ parsers[K].body \in Seq(Files) /\ parsers[K].left = <<>>
      /\ Splits(text, path, parsers[K].body, <<>>)
      /\ GotFrom(DonePaths, parsers[K].body)
  BY <1>1, <1>3, <1>4, <1>5, ParserIs DEF PathOf
<1>10. /\ registry' \in Seq(Module) /\ Modules' = Modules
       /\ registry'[d].path = path /\ registry'[d].body = parsers[K].body /\ registry'[d].done
       /\ \A i \in Modules : i # d => registry'[i] = registry[i]
  BY <1>1, <1>5, <1>7, <1>9, SetsBody
<1>11. \A i \in Modules : /\ registry'[i].path = registry[i].path /\ registry[i].path \in Files
                          /\ registry[i].done => registry'[i].done
  BY <1>1, <1>5, <1>10, FilesAreModules
<1>12. DonePaths' = DonePaths \cup {path}
  <2>1. ASSUME NEW f \in DonePaths PROVE f \in DonePaths'
    <3>1. PICK i \in Modules : registry[i].done /\ registry[i].path = f
      BY DEF DonePaths
    <3> QED BY <1>10, <1>11, <3>1 DEF DonePaths
  <2>2. path \in DonePaths'
    BY <1>9, <1>10 DEF DonePaths
  <2>3. ASSUME NEW f \in DonePaths' PROVE f \in DonePaths \cup {path}
    <3>1. f \in Files
      BY DEF DonePaths
    <3>2. PICK i \in Modules : registry'[i].done /\ registry'[i].path = f
      BY <1>10 DEF DonePaths
    <3>3. CASE i = d
      BY <1>10, <3>2, <3>3
    <3>4. CASE i # d
      BY <1>10, <3>1, <3>2, <3>4 DEF DonePaths
    <3> QED BY <3>3, <3>4
  <2> QED BY <2>1, <2>2, <2>3
<1>13. path \notin DonePaths
  <2> SUFFICES ASSUME path \in DonePaths PROVE FALSE
    OBVIOUS
  <2>1. PICK i \in Modules : registry[i].done /\ registry[i].path = path
    BY DEF DonePaths
  <2>2. index[path] = i /\ index[path] = d
    BY <1>1, <1>5, <1>9, <2>1 DEF TableKnows
  <2> QED BY <1>9, <2>1, <2>2
<1>14. BodiesFollow'
  <2> SUFFICES ASSUME NEW i \in Modules, registry'[i].done
               PROVE  /\ Splits(text, registry'[i].path, registry'[i].body, <<>>)
                      /\ GotFrom(DonePaths \cup {path}, registry'[i].body)
    BY <1>7, <1>10, <1>12 DEF BodiesFollow
  <2>1. CASE i = d
    BY <1>9, <1>10, <2>1 DEF GotFrom
  <2>2. CASE i # d
    BY <1>1, <1>10, <2>2 DEF Loading, BodiesFollow, GotFrom
  <2> QED BY <2>1, <2>2
<1>15. OnlyNeeded'
  <2>1. registry' # <<>> => registry # <<>> /\ 1 \in Modules
    BY <1>1, <1>7, <1>9 DEF Typed, Modules
  <2>2. registry' # <<>> => registry'[1].path = Main
    BY <1>1, <1>11, <2>1 DEF Loading, OnlyNeeded
  <2> QED BY <1>1, <1>7, <1>10, <1>11, <2>2 DEF Loading, OnlyNeeded
<1>16. NoneDoneOnCycle'
  <2>1. ImportsOf(text, path) \subseteq DonePaths
    BY <1>1, <1>9, AllImportsGot DEF Typed
  <2>2. Reach(text, ImportsOf(text, path)) \subseteq DonePaths
    <3>1. Closed(text, DonePaths)
      BY <1>1, DoneIsClosed DEF Loading
    <3> QED BY <2>1, <3>1, ReachIsLeast
  <2>3. ~Circular(text, path)
    BY <1>13, <2>2 DEF Circular
  <2> QED BY <1>1, <1>7, <1>12, <2>3 DEF Loading, NoneDoneOnCycle
<1>17. /\ below \in Seq(Parsing) /\ Len(below) = K - 1
       /\ \A k \in 1 .. K - 1 : below[k] = parsers[k]
  <2>1. parsers \in Seq(Parsing) /\ 1 \in Int /\ K - 1 \in Int
    BY <1>1 DEF Typed
  <2> QED BY <1>2, <1>3, <1>6, <2>1, BelowIs
<1>18. PICK L \in Nat : L = K - 1
  BY <1>3
<1>19. ASSUME NEW i \in Modules, i # d, ~registry[i].done
       PROVE  \E k \in 1 .. L : parsers[k].module = i
  <2>1. PICK k \in 1 .. K : parsers[k].module = i
    BY <1>1, <1>3, <1>19 DEF Loading, StackHoldsUnfinished
  <2>2. k # K
    BY <1>4, <1>19, <2>1
  <2> QED BY <1>18, <2>1, <2>2
<1>20. ASSUME NEW k \in 1 .. L PROVE k \in Places /\ parsers[k].module \in Modules
                                     /\ parsers[k].module # d
  <2>1. k \in Places /\ k < K
    BY <1>3, <1>18
  <2>2. parsers[k].module < parsers[K].module /\ parsers[k].module \in Modules
    BY <1>1, <1>3, <2>1 DEF Loading, StackHoldsUnfinished
  <2>3. parsers[k].module \in Nat /\ d \in Nat
    BY <1>1, <1>9, <2>2, FilesAreModules
  <2> QED BY <1>4, <2>1, <2>2, <2>3
<1>21. CASE below = <<>>
  <2>1. parsers' = <<>> /\ ended' = "loaded" /\ index' = index /\ L = 0
    BY <1>8, <1>17, <1>18, <1>21 DEF FinishGives
  <2>2. Len(parsers') = 0 /\ Places' = {}
    BY <2>1 DEF Places
  <2>3. Typed'
    BY <1>1, <1>2, <1>7, <1>10, <1>18, <2>1, <2>2 DEF Typed
  <2>4. TableKnows'
    BY <1>1, <1>10, <1>11, <2>1 DEF TableKnows
  <2>5. StackHoldsUnfinished' /\ StackIsChain' /\ ParsersFollow'
    <3>1. ASSUME NEW i \in Modules PROVE registry'[i].done
      BY <1>10, <1>19, <2>1, <3>1
    <3> QED BY <1>10, <2>2, <3>1 DEF StackHoldsUnfinished, StackIsChain, ParsersFollow
  <2>6. registry' # <<>>
    BY <1>9, <1>10 DEF Modules
  <2> QED BY <1>14, <1>15, <1>16, <2>1, <2>3, <2>4, <2>5, <2>6 DEF ImportInv, Loading
<1>22. CASE below # <<>>
  <2>1. L # 0 /\ L \in 1 .. L /\ L + 1 = K /\ below[L] = parsers[L] /\ L = Len(below)
    BY <1>17, <1>18, <1>22
  <2>2. PICK id : id = Head(parsers[L].left)
    OBVIOUS
  <2>3. /\ parsers' = Gives(below, path) /\ index' = [index EXCEPT ![id] = d] /\ ended' = ended
    BY <1>8, <1>22, <2>1, <2>2 DEF FinishGives
  <2>4. /\ parsers[L].left # <<>> /\ Target[PathOf(L)][id] = path
    <3>1. L \in Places /\ L + 1 \in Places
      BY <1>3, <2>1
    <3> QED BY <1>1, <1>9, <2>1, <2>2, <3>1 DEF Loading, StackIsChain
  <2>5. /\ PathOf(L) \in Files
        /\ parsers[L].left \in Seq(Ids) /\ parsers[L].body \in Seq(Files)
        /\ Splits(text, PathOf(L), parsers[L].body, parsers[L].left)
        /\ GotFrom(DonePaths, parsers[L].body)
    BY <1>1, <1>20, <2>1, ParserIs
  <2>6. id \in Ids
    BY <1>1, <2>2, <2>4, <2>5, NextIsImport DEF Typed
  <2>7. Gave(below, L, path, parsers')
    BY <1>9, <1>17, <2>1, <2>3, <2>4, GivesIs
  <2>8. /\ parsers' \in Seq(Parsing) /\ Len(parsers') = L
        /\ \A k \in 1 .. L : k # L => parsers'[k] = parsers[k]
        /\ parsers'[L].module = parsers[L].module
        /\ parsers'[L].left = Tail(parsers[L].left)
        /\ parsers'[L].body = Append(parsers[L].body, path)
    BY <1>17, <1>18, <2>1, <2>7 DEF Gave
  <2>9. Places' = 1 .. L
    BY <2>8 DEF Places
  <2>10. \A k \in 1 .. L : parsers'[k].module = parsers[k].module /\ PathOf(k)' = PathOf(k)
    BY <1>11, <1>20, <2>8 DEF PathOf
  <2>11. /\ index' \in [Files \cup Ids -> Nat] /\ index'[id] = d
         /\ \A name \in (Files \cup Ids) \ {id} : index'[name] = index[name]
    <3>1. d \in Nat
      BY <1>1, <1>9, FilesAreModules
    <3> QED BY <1>1, <2>3, <2>6, <3>1 DEF Typed
  <2>12. Typed'
    <3>1. scopes' = 1 + Len(parsers')
      BY <1>1, <1>2, <1>7, <1>18, <2>8 DEF Typed
    <3> QED BY <1>1, <1>7, <1>10, <2>3, <2>8, <2>11, <3>1 DEF Typed
  <2>13. TableKnows'
    <3>1. \A name \in Files \cup Ids : index'[name] # 0 => index'[name] \in Modules
      BY <1>1, <1>9, <2>11 DEF TableKnows
    <3>2. \A f \in Files : index'[f] = index[f]
      BY <2>6, <2>11, ImportAssumption
    <3>3. \A other \in Ids : index'[other] # 0 => registry'[index'[other]].done
      BY <1>1, <1>10, <1>11, <2>11 DEF TableKnows
    <3>4. \A i \in Modules : index'[registry'[i].path] = i
      BY <1>1, <1>11, <3>2 DEF TableKnows
    <3>5. \A f \in Files : index'[f] # 0 => registry'[index'[f]].path = f
      BY <1>1, <1>11, <3>2 DEF TableKnows
    <3> QED BY <1>10, <3>1, <3>3, <3>4, <3>5 DEF TableKnows
  <2>14. StackHoldsUnfinished'
    <3>1. \A k \in 1 .. L : /\ parsers'[k].module \in Modules
                           /\ ~registry'[parsers'[k].module].done
      BY <1>1, <1>10, <1>20, <2>10 DEF Loading, StackHoldsUnfinished
    <3>2. ASSUME NEW i \in Modules, ~registry'[i].done PROVE \E k \in 1 .. L : parsers'[k].module = i
      <4>1. PICK k \in 1 .. L : parsers[k].module = i
        BY <1>10, <1>11, <1>19, <3>2
      <4> QED BY <2>10, <4>1
    <3>3. \A k, l \in 1 .. L : k < l => parsers'[k].module < parsers'[l].module
      BY <1>1, <1>20, <2>10 DEF Loading, StackHoldsUnfinished
    <3> QED BY <1>10, <2>9, <3>1, <3>2, <3>3 DEF StackHoldsUnfinished
  <2>15. StackIsChain'
    <3> SUFFICES ASSUME NEW k \in 1 .. L, k + 1 \in 1 .. L
                 PROVE  /\ parsers'[k].left # <<>>
                        /\ Target[PathOf(k)'][Head(parsers'[k].left)] = PathOf(k + 1)'
      BY <2>9 DEF StackIsChain
    <3>1. parsers'[k] = parsers[k]
      <4>1. k # L
        OBVIOUS
      <4> QED BY <2>8, <4>1
    <3>2. parsers[k].left # <<>> /\ Target[PathOf(k)][Head(parsers[k].left)] = PathOf(k + 1)
      BY <1>1, <1>20 DEF Loading, StackIsChain
    <3> QED BY <2>10, <3>1, <3>2
  <2>16. ParsersFollow'
    <3> SUFFICES ASSUME NEW k \in 1 .. L
                 PROVE  /\ Splits(text, PathOf(k), parsers'[k].body, parsers'[k].left)
                        /\ GotFrom(DonePaths \cup {path}, parsers'[k].body)
      BY <1>7, <1>12, <2>9, <2>10 DEF ParsersFollow
    <3>1. CASE k # L
      <4>1. /\ Splits(text, PathOf(k), parsers[k].body, parsers[k].left)
            /\ GotFrom(DonePaths, parsers[k].body)
        BY <1>1, <1>20, ParserIs
      <4> QED BY <2>8, <3>1, <4>1 DEF GotFrom
    <3>2. CASE k = L
      <4>1. Splits(text, PathOf(L), Append(parsers[L].body, path), Tail(parsers[L].left))
        BY <1>1, <1>9, <2>2, <2>4, <2>5, SplitsFurther DEF Typed
      <4>2. GotFrom(DonePaths \cup {path}, parsers[L].body)
        BY <2>5 DEF GotFrom
      <4>3. GotFrom(DonePaths \cup {path}, Append(parsers[L].body, path))
        BY <1>9, <2>5, <4>2, GotOneMore
      <4> QED BY <2>8, <3>2, <4>1, <4>3
    <3> QED BY <3>1, <3>2
  <2> QED BY <1>1, <1>14, <1>15, <1>16, <2>3, <2>12, <2>13, <2>14, <2>15, <2>16
          DEF ImportInv, Loading
<1> QED BY <1>21, <1>22

-----------------------------------------------------------------------------
(* An import is refused.                                                   *)

\* A parser's import that another parser works on is an import of its file.
LEMMA ChainIsImport ==
  ASSUME Typed, Loading, NEW k \in Places, k + 1 \in Places
  PROVE  PathOf(k + 1) \in ImportsOf(text, PathOf(k))
<1>1. parsers[k].left # <<>> /\ Target[PathOf(k)][Head(parsers[k].left)] = PathOf(k + 1)
  BY DEF Loading, StackIsChain
<1>2. /\ PathOf(k) \in Files /\ parsers[k].left \in Seq(Ids) /\ parsers[k].body \in Seq(Files)
      /\ Splits(text, PathOf(k), parsers[k].body, parsers[k].left)
  BY ParserIs
<1> QED BY <1>1, <1>2, NextIsImport DEF Typed

\* Every file on the stack reaches those above it.
LEMMA StackIsReached ==
  ASSUME Typed, Loading, NEW k \in Places, NEW l \in Places, k < l
  PROVE  PathOf(l) \in Reach(text, ImportsOf(text, PathOf(k)))
<1>1. PICK start : start = ImportsOf(text, PathOf(k))
  OBVIOUS
<1>2. start \subseteq Names
  BY <1>1, ParserIs, ImportsAreNames DEF Typed
<1>3. PICK K \in Nat : K = Len(parsers)
  BY DEF Typed
<1>4. Places = 1 .. K
  BY <1>3 DEF Places
<1> DEFINE T == {n \in Nat : k + n + 1 \in 1 .. K => PathOf(k + n + 1) \in Reach(text, start)}
<1>5. 0 \in T
  <2> SUFFICES ASSUME k + 1 \in 1 .. K PROVE PathOf(k + 1) \in Reach(text, start)
    BY <1>4
  <2>1. PathOf(k + 1) \in start
    BY <1>1, <1>4, ChainIsImport
  <2> QED BY <2>1, ReachHasStart
<1>6. ASSUME NEW n \in Nat, n \in T PROVE n + 1 \in T
  <2> SUFFICES ASSUME k + n + 2 \in 1 .. K PROVE PathOf(k + n + 2) \in Reach(text, start)
    BY <1>4
  <2>1. PICK m \in Nat : m = k + n + 1
    BY <1>4
  <2>2. m \in Places /\ m + 1 \in Places /\ m + 1 = k + n + 2
    BY <1>4, <2>1
  <2>3. PathOf(m) \in Reach(text, start)
    BY <1>4, <1>6, <2>1, <2>2
  <2>4. PathOf(m) \in Files /\ PathOf(m + 1) \in ImportsOf(text, PathOf(m))
    BY <2>2, ParserIs, ChainIsImport
  <2>5. Closed(text, Reach(text, start))
    BY <1>2, ReachIsClosed DEF Typed
  <2> QED BY <2>2, <2>3, <2>4, <2>5 DEF Closed
<1>7. l - (k + 1) \in T
  <2> HIDE DEF T
  <2>1. l - (k + 1) \in Nat
    BY <1>4
  <2> QED BY <1>5, <1>6, <2>1, ByInduction
<1>8. k + (l - (k + 1)) + 1 = l
  BY <1>4
<1> QED BY <1>1, <1>4, <1>7, <1>8

LEMMA RefuseKeeps ==
  ASSUME ImportInv, ended = "no", parsers # <<>>, Current.left # <<>>,
         NEW id, id = Head(Current.left), NEW path, path = Target[Here][id],
         path = Missing \/ Unfinished(id) \/ Unfinished(path), Fatal
  PROVE  ImportInv'
<1>1. Typed /\ TableKnows /\ Loading
  BY DEF ImportInv
<1>2. PICK K \in Nat : K = Len(parsers)
  BY <1>1 DEF Typed
<1>3. K # 0 /\ K \in Places /\ Here = PathOf(K) /\ Places = 1 .. K
  BY <1>1, <1>2, CurrentIsTop DEF Places
<1>4. /\ Here \in Files /\ id \in Ids /\ path \in ImportsOf(text, Here)
      /\ path \in Reach(text, {Main})
  BY <1>1, ImportIsNeeded
<1>5. path \in Files \cup {Missing}
  BY <1>4, ImportAssumption
<1>6. ~Unfinished(id)
  BY <1>1, <1>4 DEF TableKnows, Unfinished, Loaded
<1>7. Refusable
  <2>1. CASE path = Missing
    BY <1>4, <2>1 DEF Refusable
  <2>2. CASE path # Missing
    <3>1. path \in Files /\ index[path] # 0 /\ ~registry[index[path]].done
      BY <1>5, <1>6, <2>2 DEF Unfinished, Loaded
    <3>2. index[path] \in Modules /\ registry[index[path]].path = path
      BY <1>1, <3>1 DEF TableKnows
    <3>3. PICK k \in Places : parsers[k].module = index[path]
      BY <1>1, <3>1, <3>2 DEF Loading, StackHoldsUnfinished
    <3>4. PathOf(k) = path
      BY <3>2, <3>3 DEF PathOf
    <3>5. CASE k = K
      BY <1>3, <1>4, <3>4, <3>5, <3>1, ReachHasStart DEF Refusable, Circular
    <3>6. CASE k # K
      <4>1. k < K
        BY <1>3, <3>6
      <4>2. Here \in Reach(text, ImportsOf(text, path))
        BY <1>1, <1>3, <3>4, <4>1, StackIsReached
      <4>3. Closed(text, Reach(text, ImportsOf(text, path)))
        BY <1>1, <3>1, ImportsAreNames, ReachIsClosed DEF Typed
      <4>4. Circular(text, path)
        BY <1>4, <4>2, <4>3 DEF Closed, Circular
      <4> QED BY <1>4, <3>1, <4>4 DEF Refusable
    <3> QED BY <3>5, <3>6
  <2> QED BY <2>1, <2>2
<1>8. /\ ended' = "fatal" /\ parsers' = <<>> /\ scopes' = scopes - K
      /\ text' = text /\ registry' = registry /\ index' = index
  BY <1>2 DEF Fatal
<1>9. Len(parsers') = 0 /\ parsers' \in Seq(Parsing)
  BY <1>8
<1>10. Typed'
  <2>1. scopes' = 1 + Len(parsers')
    BY <1>1, <1>2, <1>8, <1>9 DEF Typed
  <2> QED BY <1>1, <1>8, <1>9, <2>1 DEF Typed
<1>11. TableKnows' /\ Refusable'
  BY <1>1, <1>7, <1>8 DEF TableKnows, Modules, Refusable
<1>12. registry # <<>>
  <2>1. parsers[K].module \in Modules
    BY <1>1, <1>3, ParserIs
  <2> QED BY <2>1 DEF Modules
<1> QED BY <1>8, <1>10, <1>11, <1>12 DEF ImportInv

-----------------------------------------------------------------------------
(* Every step.                                                             *)

LEMMA MainKeeps ==
  ASSUME ImportInv, LoadMain
  PROVE  ImportInv'
<1>1. registry = <<>> /\ StartsToLoad(Main) /\ Main \in Files
  BY ImportAssumption DEF LoadMain
<1>2. ended = "no"
  BY <1>1 DEF ImportInv, Typed
<1>3. index[Main] = 0
  <2>1. Modules = {}
    BY <1>1 DEF Modules
  <2> QED BY <1>1, <2>1 DEF ImportInv, TableKnows
<1> QED BY <1>1, <1>2, <1>3, StartKeeps

LEMMA ImportKeeps ==
  ASSUME ImportInv, Import
  PROVE  ImportInv'
<1>1. PICK id : id = Head(Current.left)
  OBVIOUS
<1>2. PICK path : path = Target[Here][id]
  OBVIOUS
<1>3. ended = "no" /\ parsers # <<>> /\ Current.left # <<>>
  BY DEF Import
<1>4. \/ (path = Missing \/ Unfinished(id) \/ Unfinished(path)) /\ Fatal
      \/ /\ path # Missing /\ ~Unfinished(path)
         /\ \/ index[path] = 0 /\ StartsToLoad(path)
            \/ /\ index[path] # 0 /\ parsers' = Gives(parsers, path)
               /\ index' = [index EXCEPT ![id] = index[path]]
               /\ UNCHANGED <<text, registry, scopes, ended>>
  BY <1>1, <1>2 DEF Import
<1>5. CASE (path = Missing \/ Unfinished(id) \/ Unfinished(path)) /\ Fatal
  BY <1>1, <1>2, <1>3, <1>5, RefuseKeeps
<1>6. ASSUME path # Missing PROVE path \in Files
  <2>1. Here \in Files /\ id \in Ids
    BY <1>1, <1>3, ImportIsNeeded DEF ImportInv
  <2> QED BY <1>2, <1>6, <2>1, ImportAssumption
<1>7. CASE path # Missing /\ index[path] = 0 /\ StartsToLoad(path)
  BY <1>1, <1>2, <1>3, <1>6, <1>7, StartKeeps
<1>8. CASE /\ path # Missing /\ ~Unfinished(path) /\ index[path] # 0
           /\ parsers' = Gives(parsers, path)
           /\ index' = [index EXCEPT ![id] = index[path]]
           /\ UNCHANGED <<text, registry, scopes, ended>>
  <2>1. registry[index[path]].done
    BY <1>8 DEF Unfinished, Loaded
  <2> QED BY <1>1, <1>2, <1>3, <1>6, <1>8, <2>1, GiveKeeps
<1> QED BY <1>4, <1>5, <1>7, <1>8

LEMMA ImportStays ==
  ASSUME ImportInv, [ImportNext]_importVars
  PROVE  ImportInv'
<1>1. CASE UNCHANGED importVars
  <2>1. /\ text' = text /\ registry' = registry /\ index' = index
        /\ parsers' = parsers /\ scopes' = scopes /\ ended' = ended
    BY <1>1 DEF importVars
  <2>2. Modules' = Modules /\ Places' = Places
    BY <2>1 DEF Modules, Places
  <2>3. DonePaths' = DonePaths /\ \A k : PathOf(k)' = PathOf(k)
    BY <2>1, <2>2 DEF DonePaths, PathOf
  <2>4. Typed' = Typed /\ TableKnows' = TableKnows /\ Refusable' = Refusable
    BY <2>1, <2>2 DEF Typed, TableKnows, Refusable
  <2>5. StackHoldsUnfinished' = StackHoldsUnfinished /\ StackIsChain' = StackIsChain
    BY <2>1, <2>2, <2>3 DEF StackHoldsUnfinished, StackIsChain
  <2>6. ParsersFollow' = ParsersFollow /\ BodiesFollow' = BodiesFollow
    BY <2>1, <2>2, <2>3 DEF ParsersFollow, BodiesFollow
  <2>7. OnlyNeeded' = OnlyNeeded /\ NoneDoneOnCycle' = NoneDoneOnCycle
    BY <2>1, <2>2, <2>3 DEF OnlyNeeded, NoneDoneOnCycle
  <2> QED BY <2>1, <2>4, <2>5, <2>6, <2>7 DEF ImportInv, Loading
<1> QED BY <1>1, MainKeeps, ImportKeeps, FinishKeeps DEF ImportNext

LEMMA ImportStarts ==
  ASSUME ImportInit
  PROVE  ImportInv
<1>1. text \in Texts
  <2>1. \A s \in BoundedSeq(Ids, MaxImports) : s \in Seq(Ids)
    <3> SUFFICES ASSUME NEW m \in 0 .. MaxImports, NEW s \in [1 .. m -> Ids]
                 PROVE  s \in Seq(Ids)
      BY Zenon DEF BoundedSeq, SeqOf
    <3>1. m \in Nat
      OBVIOUS
    <3> QED BY <3>1
  <2> QED BY <2>1 DEF ImportInit, Texts
<1>2. Len(registry) = 0 /\ Len(parsers) = 0 /\ registry = <<>> /\ parsers = <<>>
  BY DEF ImportInit
<1>3. Typed
  BY <1>1, <1>2 DEF ImportInit, Typed
<1>4. Modules = {} /\ Places = {}
  BY <1>2 DEF Modules, Places
<1>5. TableKnows
  BY <1>4 DEF ImportInit, TableKnows
<1>6. DonePaths = {}
  BY <1>4 DEF DonePaths
<1>7. Loading
  BY <1>2, <1>4, <1>6 DEF Loading, StackHoldsUnfinished, StackIsChain, ParsersFollow, BodiesFollow,
     OnlyNeeded, NoneDoneOnCycle
<1> QED BY <1>3, <1>5, <1>7 DEF ImportInit, ImportInv

LEMMA ImportInvHolds == ImportSpec => []ImportInv
<1> QED BY ImportStarts, ImportStays, PTL DEF ImportSpec

-----------------------------------------------------------------------------
(* The theorems.                                                           *)

LEMMA InvTyped ==
  ASSUME ImportInv
  PROVE  ImportTypeOK
<1>1. Typed /\ TableKnows
  BY DEF ImportInv
<1>2. registry \in Seq([path : Files, body : Seq(Files), done : BOOLEAN])
  BY <1>1 DEF Typed, Module
<1>3. Len(registry) \in Nat
  BY <1>1 DEF Typed
<1>4. ASSUME NEW name \in Files \cup Ids PROVE index[name] \in 0 .. Len(registry)
  BY <1>1, <1>3 DEF Typed, TableKnows, Modules
<1>5. index \in [Files \cup Ids -> 0 .. Len(registry)]
  BY <1>1, <1>4 DEF Typed
<1>6. scopes \in Nat
  BY <1>1 DEF Typed
<1>7. ASSUME NEW k \in Places
      PROVE  /\ parsers[k] \in [module : 1 .. Len(registry), left : Seq(Ids), body : Seq(Files)]
             /\ ~Loaded(parsers[k].module)
  <2>1. ended # "fatal"
    <3>1. parsers # <<>>
      BY <1>1 DEF Typed, Places
    <3> QED BY <3>1 DEF ImportInv
  <2>2. parsers[k] \in Parsing
    BY <1>1 DEF Typed, Places
  <2>3. parsers[k].module \in Modules /\ ~registry[parsers[k].module].done
    BY <2>1 DEF ImportInv, Loading, StackHoldsUnfinished
  <2> QED BY <2>2, <2>3 DEF Parsing, Modules, Loaded
<1>8. parsers \in Seq(Parsing) /\ DOMAIN parsers = Places
  BY <1>1 DEF Typed, Places
<1>9. parsers \in Seq([module : 1 .. Len(registry), left : Seq(Ids), body : Seq(Files)])
  <2> DEFINE P == [module : 1 .. Len(registry), left : Seq(Ids), body : Seq(Files)]
  <2>1. \A k \in DOMAIN parsers : parsers[k] \in P
    BY <1>7, <1>8
  <2> HIDE DEF P
  <2>2. parsers \in Seq(P)
    BY <1>8, <2>1
  <2> QED BY <2>2 DEF P
<1> QED BY <1>1, <1>2, <1>5, <1>6, <1>7, <1>8, <1>9 DEF ImportTypeOK, Typed

\* The registry, the table of names, the stack of parsers and the scopes keep
\* their types; the table points to registered modules only, the stack to those
\* that are registered and not loaded (module_registry.cpp:11-63).
THEOREM ImportTypes == ImportSpec => []ImportTypeOK
<1> QED BY ImportInvHolds, InvTyped, PTL

\* In the words of the property: what it says is needed, and on a cycle.
LEMMA FollowsWords ==
  /\ Needed = Reach(text, {Main})
  /\ \A f : OnCycle(f) <=> Circular(text, f)
<1>1. Needed = Reach(text, {Main})
  BY ReachedIsReach DEF Needed
<1>2. ASSUME NEW f PROVE OnCycle(f) <=> Circular(text, f)
  <2>1. ImportedBy(f) = ImportsOf(text, f)
    BY DEF ImportedBy, ImportsOf
  <2>2. ReachedFrom(ImportedBy(f)) = Reach(text, ImportedBy(f))
    BY ReachedIsReach
  <2> QED BY <2>1, <2>2 DEF OnCycle, Circular
<1> QED BY <1>1, <1>2

LEMMA LoadedIsNeeded ==
  ASSUME ImportInv, ended = "loaded"
  PROVE  /\ Missing \notin Needed /\ \A f \in Needed : ~OnCycle(f)
         /\ \A f \in Files : f \in Needed <=> \E i \in Modules : registry[i].path = f
<1>1. Typed /\ TableKnows /\ Loading /\ registry # <<>> /\ parsers = <<>>
  BY DEF ImportInv
<1>2. Places = {}
  BY <1>1 DEF Places
<1>3. \A i \in Modules : registry[i].done /\ registry[i].path \in Files
  BY <1>1, <1>2, FilesAreModules DEF Loading, StackHoldsUnfinished
<1>4. DonePaths = {registry[i].path : i \in Modules}
  BY <1>3 DEF DonePaths
<1>5. Needed \subseteq DonePaths
  <2>1. 1 \in Modules
    BY <1>1 DEF Typed, Modules
  <2>2. {Main} \subseteq DonePaths
    BY <1>1, <1>4, <2>1 DEF Loading, OnlyNeeded
  <2>3. Closed(text, DonePaths)
    BY <1>1, DoneIsClosed DEF Loading
  <2> QED BY <2>2, <2>3, ReachIsLeast, FollowsWords
<1>6. DonePaths \subseteq Needed
  BY <1>1, <1>4, FollowsWords DEF Loading, OnlyNeeded
<1>7. Missing \notin DonePaths
  BY ImportAssumption DEF DonePaths
<1>8. \A f \in DonePaths : ~OnCycle(f)
  BY <1>1, FollowsWords DEF Loading, NoneDoneOnCycle
<1>9. Needed = DonePaths
  BY <1>5, <1>6
<1>10. \A f \in Files : f \in DonePaths <=> \E i \in Modules : registry[i].path = f
  BY <1>4
<1> QED BY <1>7, <1>8, <1>9, <1>10

LEMMA LoadedBodies ==
  ASSUME ImportInv, ended = "loaded", NEW i \in Modules, NEW path, path = registry[i].path
  PROVE  registry[i].body = [k \in DOMAIN text[path] |-> Target[path][text[path][k]]]
<1>1. Typed /\ Loading /\ parsers = <<>>
  BY DEF ImportInv
<1>2. Places = {}
  BY <1>1 DEF Places
<1>3. registry[i].done
  BY <1>1, <1>2 DEF Loading, StackHoldsUnfinished
<1>4. PICK body \in Seq(Files) : body = registry[i].body
  BY <1>1, FilesAreModules
<1>5. Splits(text, path, body, <<>>)
  BY <1>1, <1>3, <1>4 DEF Loading, BodiesFollow
<1>6. text[path] \in Seq(Ids)
  BY <1>1, FilesAreModules DEF Typed, Texts
<1>7. Len(text[path]) = Len(body) /\ Len(body) \in Nat
  BY <1>5, <1>6 DEF Splits
<1>8. DOMAIN text[path] = 1 .. Len(body)
  BY <1>6, <1>7
<1>9. body = [k \in 1 .. Len(body) |-> body[k]]
  BY <1>4
<1>10. \A k \in 1 .. Len(body) : body[k] = Target[path][text[path][k]]
  BY <1>5 DEF Splits
<1> QED BY <1>4, <1>8, <1>9, <1>10

LEMMA FollowHolds ==
  ASSUME ImportInv
  PROVE  ImportsFollowText
<1>1. Typed /\ TableKnows
  BY DEF ImportInv
<1>2. DOMAIN registry = Modules
  BY <1>1 DEF Typed, Modules
<1>3. scopes = 1 + Len(parsers)
  BY <1>1 DEF Typed
<1>4. ended = "fatal" => Missing \in Needed \/ \E f \in Needed \cap Files : OnCycle(f)
  BY FollowsWords DEF ImportInv, Refusable
<1>5. \A i, j \in Modules : registry[i].path = registry[j].path => i = j
  BY <1>1 DEF TableKnows
<1>6. ASSUME ended = "loaded"
      PROVE  /\ Missing \notin Needed /\ \A f \in Needed : ~OnCycle(f)
             /\ \A f \in Files : f \in Needed <=> \E i \in DOMAIN registry : registry[i].path = f
  BY <1>2, <1>6, LoadedIsNeeded
<1>7. ASSUME ended = "loaded", NEW i \in DOMAIN registry
      PROVE  registry[i].body = [k \in DOMAIN text[registry[i].path] |->
                                   Target[registry[i].path][text[registry[i].path][k]]]
  BY <1>2, <1>7, LoadedBodies
<1> QED BY <1>2, <1>3, <1>4, <1>5, <1>6, <1>7 DEF ImportsFollowText

\* For any files and imports, loading fails exactly on a missing file or a
\* cycle; otherwise just the needed files are loaded, each once, and every
\* import carries the file its id means (module_loader.cpp:45-128).
THEOREM ImportsFollowTexts == ImportSpec => []ImportsFollowText
<1> QED BY ImportInvHolds, FollowHolds, PTL
=============================================================================
