---------------------------- MODULE BorrowProofs ----------------------------
(* The borrow checker misses nothing, for any names and any nesting: its   *)
(* tables by name follow the declarations, and the innermost marked        *)
(* reference of a name is the declaration it means whenever that is marked.*)
(* The hook for views misses nothing and reports nothing else, until the   *)
(* function meets a limit of it: the root and the epoch in the entry of a  *)
(* view trace the variable it shows.                                       *)
EXTENDS BorrowCheck, BorrowedViews, DataLemmas, SequenceTheorems

Kept == [kind : {"unique", "shared", "weak"}, region : 0 .. 2]
Described == [kind : Markers, region : 0 .. 2, anchor : (Nat \X Idents) \cup {Nobody},
              param : BOOLEAN]
Frame == [smart : [Idents -> Kept \cup {Nobody}], borrows : [Idents -> Idents \cup {Nobody}]]
Rules == {"region", "moved", "mutated"}
Offences == Rules \cup {"reset", "parameter"}

Tables ==
  /\ mFrames \in Seq(Frame)
  /\ variables \in Seq([Idents -> Described \cup {Nobody}])
  /\ Len(variables) = Len(mFrames) /\ Len(mFrames) > 0
  /\ function \in 0 .. Len(mFrames)

Kind(v) == IF v.kind = "none" \/ v.param THEN Nobody ELSE [kind |-> v.kind, region |-> v.region]

\* The tables of scope i, by name, say what the declarations say.
Follows(i, n) ==
  /\ variables[i][n] = Nobody => mFrames[i].smart[n] = Nobody /\ mFrames[i].borrows[n] = Nobody
  /\ variables[i][n] # Nobody =>
       /\ mFrames[i].smart[n] = Kind(variables[i][n])
       /\ LET a == variables[i][n].anchor
          IN  /\ mFrames[i].borrows[n] = IF a = Nobody THEN Nobody ELSE a[2]
              /\ a # Nobody => a[1] \in 1 .. i /\ variables[a[1]][a[2]] # Nobody

TablesFollow == \A i \in 1 .. Len(mFrames), n \in Idents : Follows(i, n)

BorrowInv ==
  /\ Tables /\ TablesFollow
  /\ verdict \subseteq Rules /\ offence \subseteq Offences
  /\ BorrowsReported

-----------------------------------------------------------------------------
(* BorrowCheck: what a name means, and what the checker finds for it.      *)

LEMMA MeantIsInnermost ==
  ASSUME Tables, NEW n \in Visible
  PROVE  /\ n \in Idents
         /\ Meant(n) \in Introduced /\ Meant(n)[2] = n
         /\ \A d \in Introduced : d[2] = n => d[1] <= Meant(n)[1]
<1> DEFINE S == {d[1] : d \in {e \in Introduced : e[2] = n}}
<1>1. S # {} /\ S \subseteq 1 .. Len(mFrames) /\ n \in Idents
  BY DEF Visible, Introduced, Depth
<1>2. Max(S) \in S /\ \A i \in S : i <= Max(S)
  <2>1. Len(mFrames) \in Nat
    BY DEF Tables
  <2> HIDE DEF S
  <2> QED
    BY <1>1, <2>1, LastPlace
<1>3. Meant(n) = <<Max(S), n>>
  BY DEF Meant
<1>4. \A d \in Introduced : d = <<d[1], d[2]>>
  BY DEF Introduced
<1> HIDE DEF S
<1>5. \A d \in Introduced : d[2] = n => d[1] \in S
  BY DEF S
<1>6. PICK d \in Introduced : d[2] = n /\ d[1] = Max(S)
  BY <1>2 DEF S
<1>7. Meant(n) = d
  BY <1>3, <1>4, <1>6
<1> QED
  BY <1>1, <1>2, <1>5, <1>6, <1>7

LEMMA DeclaredIsTyped ==
  ASSUME Tables, NEW d \in Introduced
  PROVE  /\ d[1] \in 1 .. Len(mFrames) /\ d[2] \in Idents /\ d = <<d[1], d[2]>>
         /\ Of(d) = variables[d[1]][d[2]] /\ Of(d) # Nobody /\ Of(d) \in Described
<1>1. d[1] \in 1 .. Len(mFrames) /\ d[2] \in Idents /\ d = <<d[1], d[2]>> /\ variables[d[1]][d[2]] # Nobody
  BY DEF Introduced, Depth
<1>2. variables[d[1]] \in [Idents -> Described \cup {Nobody}]
  BY <1>1 DEF Tables
<1> QED
  BY <1>1, <1>2 DEF Of

LEMMA FrameIsTyped ==
  ASSUME Tables, NEW i \in 1 .. Len(mFrames)
  PROVE  /\ mFrames[i] \in Frame
         /\ mFrames[i].smart \in [Idents -> Kept \cup {Nobody}]
         /\ mFrames[i].borrows \in [Idents -> Idents \cup {Nobody}]
<1>1. mFrames[i] \in Frame
  BY DEF Tables
<1> QED
  BY <1>1 DEF Frame

\* The innermost marked reference of a name is what the name means, when that
\* is marked and no parameter.
LEMMA MarkedIsFound ==
  ASSUME Tables, TablesFollow, NEW n \in Visible, Of(Meant(n)).kind # "none",
         ~Of(Meant(n)).param
  PROVE  FindSmart(n) = [kind |-> Of(Meant(n)).kind, region |-> Of(Meant(n)).region]
<1> DEFINE found == {i \in 1 .. Depth : mFrames[i].smart[n] # Nobody}
           top == Meant(n)[1]
<1>1. /\ n \in Idents /\ Meant(n) \in Introduced /\ Meant(n)[2] = n
      /\ \A d \in Introduced : d[2] = n => d[1] <= top
  BY MeantIsInnermost
<1>2. /\ top \in 1 .. Len(mFrames) /\ Of(Meant(n)) = variables[top][n]
      /\ variables[top][n] # Nobody /\ variables[top][n] \in Described
  BY <1>1, DeclaredIsTyped
<1>3. mFrames[top].smart[n] = [kind |-> Of(Meant(n)).kind, region |-> Of(Meant(n)).region]
  BY <1>1, <1>2 DEF TablesFollow, Follows, Kind
<1>4. mFrames[top].smart[n] # Nobody
  <2>1. mFrames[top].smart[n] \in [kind : {"unique", "shared", "weak"}, region : Nat]
    BY <1>2, <1>3 DEF Described, Markers
  <2> QED
    BY <2>1, BorrowAssumption
<1>5. top \in found
  BY <1>2, <1>4 DEF Depth
<1>6. \A i \in found : i <= top
  <2> SUFFICES ASSUME NEW i \in found PROVE i <= top
    OBVIOUS
  <2>1. i \in 1 .. Len(mFrames) /\ variables[i][n] # Nobody
    BY <1>1 DEF Depth, TablesFollow, Follows
  <2>2. <<i, n>> \in Introduced
    BY <2>1, <1>1 DEF Introduced, Depth
  <2> QED
    BY <2>2, <1>1
<1>7. Max(found) = top
  <2>1. found \subseteq 1 .. Len(mFrames)
    BY DEF Depth
  <2>2. Max(found) \in found /\ \A i \in found : i <= Max(found)
    <3>1. Len(mFrames) \in Nat
      BY DEF Tables
    <3> HIDE DEF found
    <3> QED
      BY <2>1, <3>1, <1>5, LastPlace
  <2> QED
    BY <2>1, <2>2, <1>5, <1>6
<1>8. FindSmart(n) = mFrames[Max(found)].smart[n]
  BY <1>5 DEF FindSmart
<1> QED
  BY <1>3, <1>7, <1>8

\* While no name hides another, what is found is what the name means.
LEMMA FoundIsMeant ==
  ASSUME Tables, TablesFollow, NoneHidden, NEW n \in Visible, FindSmart(n) # Nobody
  PROVE  Of(Meant(n)).kind # "none" /\ ~Of(Meant(n)).param
<1> DEFINE found == {i \in 1 .. Depth : mFrames[i].smart[n] # Nobody}
<1>1. /\ n \in Idents /\ Meant(n) \in Introduced /\ Meant(n)[2] = n
  BY MeantIsInnermost
<1>2. PICK i \in found : TRUE
  BY DEF FindSmart
<1>3. i \in 1 .. Len(mFrames) /\ mFrames[i].smart[n] # Nobody /\ variables[i][n] # Nobody
  BY <1>1, <1>2 DEF Depth, TablesFollow, Follows
<1>4. <<i, n>> \in Introduced
  BY <1>3, <1>1 DEF Introduced, Depth
<1>5. Meant(n) = <<i, n>>
  BY <1>1, <1>4 DEF NoneHidden
<1>6. mFrames[i].smart[n] = Kind(variables[i][n])
  BY <1>1, <1>3 DEF TablesFollow, Follows
<1> QED
  BY <1>3, <1>5, <1>6 DEF Of, Kind

LEMMA ViewIsBorrow ==
  ASSUME Tables, TablesFollow, NEW d \in Introduced, ViewedOwner(d)
  PROVE  HasBorrows(d[2])
<1>1. PICK v \in Introduced : Of(v).anchor = d
  BY DEF ViewedOwner
<1>2. /\ v[1] \in 1 .. Len(mFrames) /\ v[2] \in Idents /\ variables[v[1]][v[2]] # Nobody
      /\ variables[v[1]][v[2]].anchor = d
  BY <1>1, DeclaredIsTyped
<1>3. d \in Nat \X Idents
  BY DeclaredIsTyped
<1>4. d # Nobody
  BY <1>3, BorrowAssumption
<1>5. mFrames[v[1]].borrows[v[2]] = d[2]
  BY <1>2, <1>4 DEF TablesFollow, Follows
<1> QED
  BY <1>2, <1>5 DEF HasBorrows, Depth

LEMMA BorrowIsView ==
  ASSUME Tables, TablesFollow, NoneHidden, NEW n \in Visible, HasBorrows(n)
  PROVE  \E v \in Introduced : Of(v).anchor = Meant(n)
<1>1. /\ n \in Idents /\ Meant(n) \in Introduced /\ Meant(n)[2] = n
  BY MeantIsInnermost
<1>2. PICK i \in 1 .. Len(mFrames), dep \in Idents : mFrames[i].borrows[dep] = n
  BY DEF HasBorrows, Depth
<1> DEFINE a == variables[i][dep].anchor
<1>3. n # Nobody
  BY <1>1, BorrowAssumption
<1>4. variables[i][dep] # Nobody /\ a # Nobody /\ a[2] = n /\ a[1] \in 1 .. i /\ variables[a[1]][a[2]] # Nobody
  BY <1>2, <1>3 DEF TablesFollow, Follows
<1>5. <<i, dep>> \in Introduced /\ Of(<<i, dep>>) = variables[i][dep]
  BY <1>2, <1>4 DEF Introduced, Depth, Of
<1>6. a \in Nat \X Idents
  BY <1>4, <1>5, DeclaredIsTyped DEF Described
<1>7. a \in Introduced
  BY <1>1, <1>2, <1>4, <1>6 DEF Introduced, Depth, Tables
<1>8. a = Meant(n)
  BY <1>1, <1>4, <1>7 DEF NoneHidden
<1> QED
  BY <1>5, <1>8

\* What the check finds by name is the truth by declaration, of all but
\* parameters, and nothing else while no name hides another.
LEMMA OwnersAreFound ==
  ASSUME Tables, TablesFollow, NEW n \in Visible
  PROVE  /\ ViewedOwner(Meant(n)) /\ ~Of(Meant(n)).param =>
              OwnerUnderBorrow(n) /\ FindSmart(n).kind = Of(Meant(n)).kind
         /\ NoneHidden /\ OwnerUnderBorrow(n) =>
              /\ ViewedOwner(Meant(n)) /\ ~Of(Meant(n)).param
              /\ FindSmart(n).kind = Of(Meant(n)).kind
<1>1. Meant(n) \in Introduced /\ Meant(n)[2] = n
  BY MeantIsInnermost
<1>2. ASSUME ViewedOwner(Meant(n)), ~Of(Meant(n)).param
      PROVE  OwnerUnderBorrow(n) /\ FindSmart(n).kind = Of(Meant(n)).kind
  <2>1. Of(Meant(n)).kind \in {"unique", "shared"}
    BY <1>2 DEF ViewedOwner, Owners
  <2>2. FindSmart(n) = [kind |-> Of(Meant(n)).kind, region |-> Of(Meant(n)).region]
    BY <1>2, <2>1, MarkedIsFound
  <2>3. Of(Meant(n)).region \in Nat
    BY <1>1, DeclaredIsTyped DEF Described
  <2>4. FindSmart(n) # Nobody
    BY <2>1, <2>2, <2>3, BorrowAssumption
  <2>5. HasBorrows(n)
    BY <1>1, <1>2, ViewIsBorrow
  <2> QED
    BY <2>1, <2>2, <2>4, <2>5 DEF OwnerUnderBorrow, Owners
<1>3. ASSUME NoneHidden, OwnerUnderBorrow(n)
      PROVE  /\ ViewedOwner(Meant(n)) /\ ~Of(Meant(n)).param
             /\ FindSmart(n).kind = Of(Meant(n)).kind
  <2>1. HasBorrows(n) /\ FindSmart(n) # Nobody /\ FindSmart(n).kind \in Owners
    BY <1>3 DEF OwnerUnderBorrow
  <2>2. Of(Meant(n)).kind # "none" /\ ~Of(Meant(n)).param
    BY <1>3, <2>1, FoundIsMeant
  <2>3. FindSmart(n) = [kind |-> Of(Meant(n)).kind, region |-> Of(Meant(n)).region]
    BY <2>2, MarkedIsFound
  <2>4. \E v \in Introduced : Of(v).anchor = Meant(n)
    BY <1>3, <2>1, BorrowIsView
  <2> QED
    BY <2>1, <2>2, <2>3, <2>4 DEF ViewedOwner
<1> QED
  BY <1>2, <1>3

-----------------------------------------------------------------------------
LEMMA InitEstablishes == BorrowInit => BorrowInv
<1> SUFFICES ASSUME BorrowInit PROVE BorrowInv
  OBVIOUS
<1>1. Tables
  BY DEF BorrowInit, Tables, NoFrame, Frame
<1>2. TablesFollow
  BY DEF BorrowInit, TablesFollow, Follows, NoFrame
<1>3. verdict \subseteq Rules /\ offence \subseteq Offences /\ BorrowsReported
  BY DEF BorrowInit, BorrowsReported
<1> QED
  BY <1>1, <1>2, <1>3 DEF BorrowInv

LEMMA FollowsPersists ==
  ASSUME NEW i \in Nat, NEW n \in Idents, Follows(i, n),
         \A j \in 1 .. i : mFrames'[j] = mFrames[j] /\ variables'[j] = variables[j], i > 0
  PROVE  Follows(i, n)'
<1>1. mFrames'[i] = mFrames[i] /\ variables'[i] = variables[i]
  OBVIOUS
<1>2. CASE variables[i][n] = Nobody
  BY <1>1, <1>2 DEF Follows
<1>3. CASE variables[i][n] # Nobody
  <2> DEFINE a == variables[i][n].anchor
  <2>1. /\ mFrames[i].smart[n] = Kind(variables[i][n])
        /\ mFrames[i].borrows[n] = IF a = Nobody THEN Nobody ELSE a[2]
        /\ a # Nobody => a[1] \in 1 .. i /\ variables[a[1]][a[2]] # Nobody
    BY <1>3 DEF Follows
  <2>2. a # Nobody => a[1] \in 1 .. i /\ variables'[a[1]][a[2]] # Nobody
    BY <2>1
  <2>3. (Kind(variables[i][n]))' = Kind(variables[i][n]) /\ a' = a
    BY <1>1 DEF Kind
  <2> QED
    BY <1>1, <1>3, <2>1, <2>2, <2>3 DEF Follows
<1> QED
  BY <1>2, <1>3

LEMMA EnterKeeps ==
  ASSUME BorrowInv, NEW isFunction, EnterScope(isFunction)
  PROVE  BorrowInv'
<1> DEFINE none == [n \in Idents |-> Nobody]
<1>1. Tables /\ TablesFollow
  BY DEF BorrowInv
<1>2. mFrames' = Append(mFrames, NoFrame) /\ variables' = Append(variables, none)
  BY DEF EnterScope
<1>3. Len(mFrames') = Len(mFrames) + 1 /\ Len(variables') = Len(mFrames')
  BY <1>1, <1>2 DEF Tables
<1>4. Tables'
  <2>1. NoFrame \in Frame
    BY DEF NoFrame, Frame
  <2>2. none \in [Idents -> Described \cup {Nobody}]
    OBVIOUS
  <2>3. function' \in 0 .. Len(mFrames')
    BY <1>1, <1>3 DEF EnterScope, Tables, Depth
  <2> HIDE DEF none
  <2> QED
    BY <1>1, <1>2, <1>3, <2>1, <2>2, <2>3, AppendProperties DEF Tables
<1>5. TablesFollow'
  <2>1. SUFFICES ASSUME NEW i \in 1 .. Len(mFrames'), NEW n \in Idents PROVE Follows(i, n)'
    BY DEF TablesFollow
  <2>2. \A j \in 1 .. Len(mFrames) : mFrames'[j] = mFrames[j] /\ variables'[j] = variables[j]
    BY <1>1, <1>2 DEF Tables
  <2>3. CASE i \in 1 .. Len(mFrames)
    <3>1. Follows(i, n)
      BY <1>1, <2>3 DEF TablesFollow
    <3>2. i \in Nat /\ i > 0 /\ \A j \in 1 .. i : j \in 1 .. Len(mFrames)
      BY <1>1, <2>3 DEF Tables
    <3> QED
      BY <2>2, <3>1, <3>2, FollowsPersists
  <2>4. CASE i = Len(mFrames) + 1
    <3>1. mFrames'[i] = NoFrame /\ variables'[i] = none
      BY <1>1, <1>2, <2>4 DEF Tables
    <3> QED
      BY <3>1 DEF Follows, NoFrame
  <2> QED
    BY <1>1, <1>3, <2>3, <2>4 DEF Tables
<1>6. verdict' = {} /\ offence' = {}
  BY DEF EnterScope, Walking
<1> QED
  BY <1>4, <1>5, <1>6 DEF BorrowInv, BorrowsReported

LEMMA ExitKeeps ==
  ASSUME BorrowInv, ExitScope
  PROVE  BorrowInv'
<1>1. Tables /\ TablesFollow
  BY DEF BorrowInv
<1>2. /\ mFrames' = SubSeq(mFrames, 1, Len(mFrames) - 1)
      /\ variables' = SubSeq(variables, 1, Len(mFrames) - 1)
      /\ Len(mFrames) > 1
  BY DEF ExitScope, Depth
<1>3. /\ Len(mFrames') = Len(mFrames) - 1 /\ Len(variables') = Len(mFrames')
      /\ \A j \in 1 .. Len(mFrames) - 1 : mFrames'[j] = mFrames[j] /\ variables'[j] = variables[j]
  BY <1>1, <1>2 DEF Tables
<1>4. Tables'
  <2>1. /\ mFrames' \in Seq(Frame)
        /\ variables' \in Seq([Idents -> Described \cup {Nobody}])
    <3>1. Len(mFrames) - 1 \in Nat /\ Len(mFrames) - 1 <= Len(mFrames)
      BY <1>1, <1>2 DEF Tables
    <3>2. /\ mFrames \in Seq(Frame)
          /\ variables \in Seq([Idents -> Described \cup {Nobody}]) /\ Len(variables) = Len(mFrames)
      BY <1>1 DEF Tables
    <3>3. ASSUME NEW S, NEW t \in Seq(S), NEW k \in Nat, k <= Len(t)
          PROVE  SubSeq(t, 1, k) \in Seq(S)
      BY <3>3, SubSeqProperties
    <3> QED
      BY <1>2, <3>1, <3>2, <3>3
  <2>2. function' \in 0 .. Len(mFrames')
    BY <1>1, <1>3 DEF ExitScope, Tables, Depth
  <2> QED
    BY <1>1, <1>2, <1>3, <2>1, <2>2 DEF Tables
<1>5. TablesFollow'
  <2>1. SUFFICES ASSUME NEW i \in 1 .. Len(mFrames'), NEW n \in Idents PROVE Follows(i, n)'
    BY DEF TablesFollow
  <2>2. i \in 1 .. Len(mFrames) - 1 /\ i \in 1 .. Len(mFrames)
    BY <1>1, <1>3 DEF Tables
  <2>3. Follows(i, n)
    BY <1>1, <2>2 DEF TablesFollow
  <2>4. i \in Nat /\ i > 0 /\ \A j \in 1 .. i : j \in 1 .. Len(mFrames) - 1
    BY <1>1, <2>2 DEF Tables
  <2> QED
    BY <1>3, <2>3, <2>4, FollowsPersists
<1>6. verdict' = {} /\ offence' = {}
  BY DEF ExitScope, Walking
<1> QED
  BY <1>4, <1>5, <1>6 DEF BorrowInv, BorrowsReported

LEMMA UnchangedTables ==
  ASSUME Tables, TablesFollow, UNCHANGED <<mFrames, function, variables>>
  PROVE  Tables' /\ TablesFollow' /\ (NoneHidden' <=> NoneHidden)
<1>1. Tables'
  BY DEF Tables
<1>2. TablesFollow'
  BY DEF TablesFollow, Follows, Kind
<1>3. NoneHidden' <=> NoneHidden
  BY DEF NoneHidden, Introduced, Depth
<1> QED
  BY <1>1, <1>2, <1>3

\* A plain assignment, as a reset too, is reported as a write exactly when it
\* is one to a unique owner that is no parameter.
LEMMA WriteIsMutated ==
  ASSUME Tables, TablesFollow, NEW n \in Visible, Write(n)
  PROVE  /\ Mutated(Meant(n)) \subseteq Offences /\ verdict' \subseteq Rules
         /\ Mutated(Meant(n)) \cap Covered \subseteq verdict'
         /\ NoneHidden => verdict' = Mutated(Meant(n)) \cap Covered
<1> DEFINE m == Meant(n)
<1>1. /\ ViewedOwner(m) /\ ~Of(m).param => OwnerUnderBorrow(n) /\ FindSmart(n).kind = Of(m).kind
      /\ NoneHidden /\ OwnerUnderBorrow(n) =>
           ViewedOwner(m) /\ ~Of(m).param /\ FindSmart(n).kind = Of(m).kind
  BY OwnersAreFound
<1>2. verdict' = IF OwnerUnderBorrow(n) /\ FindSmart(n).kind = "unique" THEN {"mutated"} ELSE {}
  BY DEF Write
<1>3. Mutated(m) = IF ViewedOwner(m) /\ Of(m).kind = "unique"
                   THEN {IF Of(m).param THEN "parameter" ELSE "mutated"} ELSE {}
  BY DEF Mutated, Breach
<1> HIDE DEF m
<1>4. Mutated(m) \subseteq Offences /\ verdict' \subseteq Rules
  BY <1>2, <1>3 DEF Offences, Rules
<1>5. Mutated(m) \cap Covered = IF ViewedOwner(m) /\ Of(m).kind = "unique" /\ ~Of(m).param
                                THEN {"mutated"} ELSE {}
  BY <1>3 DEF Covered
<1>6. Mutated(m) \cap Covered \subseteq verdict'
  BY <1>1, <1>2, <1>5
<1>7. NoneHidden => verdict' = Mutated(m) \cap Covered
  BY <1>1, <1>2, <1>5
<1> QED
  BY <1>4, <1>6, <1>7 DEF m

LEMMA AssignKeeps ==
  ASSUME BorrowInv, NEW n \in Idents, NEW source, AnalyzeAssign(n, source)
  PROVE  BorrowInv'
<1>1. Tables /\ TablesFollow /\ n \in Visible
  BY DEF BorrowInv, AnalyzeAssign
<1>2. Tables' /\ TablesFollow' /\ (NoneHidden' <=> NoneHidden)
  BY <1>1, UnchangedTables DEF AnalyzeAssign
<1>3. Write(n) /\ offence' = Mutated(Meant(n))
  BY DEF AnalyzeAssign
<1> QED
  BY <1>1, <1>2, <1>3, WriteIsMutated DEF BorrowInv, BorrowsReported

LEMMA ResetKeeps ==
  ASSUME BorrowInv, NEW n \in Idents, AnalyzeReset(n)
  PROVE  BorrowInv'
<1> DEFINE more == IF ViewedOwner(Meant(n)) THEN {Breach(Meant(n), "reset")} ELSE {}
<1>1. Tables /\ TablesFollow /\ n \in Visible
  BY DEF BorrowInv, AnalyzeReset
<1>2. Tables' /\ TablesFollow' /\ (NoneHidden' <=> NoneHidden)
  BY <1>1, UnchangedTables DEF AnalyzeReset
<1>3. Write(n) /\ offence' = Mutated(Meant(n)) \cup more
  BY DEF AnalyzeReset
<1>4. more \subseteq {"reset", "parameter"}
  BY DEF Breach
<1>5. more \subseteq Offences /\ more \cap Covered = {}
  BY <1>4 DEF Offences, Covered
<1> HIDE DEF more
<1>6. offence' \subseteq Offences /\ verdict' \subseteq Rules
  BY <1>1, <1>3, <1>5, WriteIsMutated
<1>7. offence' \cap Covered = Mutated(Meant(n)) \cap Covered
  BY <1>3, <1>5
<1> QED
  BY <1>1, <1>2, <1>3, <1>6, <1>7, WriteIsMutated DEF BorrowInv, BorrowsReported

\* The hook sees no parameter, and its name was not declared before.
LEMMA ParameterKeeps ==
  ASSUME BorrowInv, NEW n \in Idents, NEW marker \in Markers, Parameter(n, marker)
  PROVE  BorrowInv'
<1> DEFINE entry == [kind |-> marker, region |-> Scope, anchor |-> Nobody, param |-> TRUE]
<1>1. Tables /\ TablesFollow
  BY DEF BorrowInv
<1>2. Depth = Len(mFrames) /\ Depth = Len(variables) /\ Depth \in Nat /\ Depth > 0
  BY <1>1 DEF Depth, Tables
<1>3. /\ variables' = [variables EXCEPT ![Depth][n] = entry]
      /\ variables[Depth][n] = Nobody /\ UNCHANGED <<mFrames, function>>
  BY DEF Parameter
<1>4. entry \in Described
  BY DEF Described, Scope
<1>5. entry # Nobody
  <2>1. entry \in [kind : {"unique", "shared", "weak", "none"}, region : Nat,
                   anchor : (Nat \X Idents) \cup {Nobody}, param : BOOLEAN]
    BY DEF Markers, Scope
  <2> QED
    BY <2>1, BorrowAssumption
<1>6. entry.anchor = Nobody /\ Kind(entry) = Nobody
  BY DEF Kind
<1> HIDE DEF entry
<1>7. variables[Depth] \in [Idents -> Described \cup {Nobody}]
  BY <1>1, <1>2 DEF Tables
<1>8. /\ Len(variables') = Len(variables) /\ Len(mFrames') = Len(mFrames)
      /\ variables'[Depth] = [variables[Depth] EXCEPT ![n] = entry]
      /\ \A i \in 1 .. Depth : i # Depth => variables'[i] = variables[i]
  <2>1. PICK row : row = [variables[Depth] EXCEPT ![n] = entry]
    OBVIOUS
  <2>2. variables' = [variables EXCEPT ![Depth] = row]
    BY <1>3, <2>1
  <2>3. variables \in Seq([Idents -> Described \cup {Nobody}])
    BY <1>1 DEF Tables
  <2>4. /\ Len(variables') = Len(variables) /\ variables'[Depth] = row
        /\ \A i \in 1 .. Depth : i # Depth => variables'[i] = variables[i]
    BY <1>2, <2>2, <2>3
  <2> QED
    BY <1>3, <2>1, <2>4
<1>9. Tables'
  <2>1. [variables[Depth] EXCEPT ![n] = entry] \in [Idents -> Described \cup {Nobody}]
    BY <1>4, <1>7
  <2>2. mFrames' = mFrames /\ function' = function
    BY <1>3
  <2>3. variables' = [variables EXCEPT ![Depth] = [variables[Depth] EXCEPT ![n] = entry]]
    BY <1>3
  <2>4. variables' \in Seq([Idents -> Described \cup {Nobody}])
    BY <1>1, <1>2, <2>1, <2>3 DEF Tables
  <2> QED
    BY <1>1, <1>8, <2>2, <2>4 DEF Tables
<1>10. \A i \in 1 .. Depth, m \in Idents :
         variables'[i][m] = IF i = Depth /\ m = n THEN entry ELSE variables[i][m]
  BY <1>7, <1>8
<1>11. TablesFollow'
  <2>1. SUFFICES ASSUME NEW i \in 1 .. Len(mFrames'), NEW m \in Idents PROVE Follows(i, m)'
    BY DEF TablesFollow
  <2>2. i \in 1 .. Depth /\ Follows(i, m)
    BY <1>1, <1>2, <1>8 DEF TablesFollow
  <2>3. CASE i = Depth /\ m = n
    <3>1. mFrames[i].smart[m] = Nobody /\ mFrames[i].borrows[m] = Nobody
      BY <1>3, <2>2, <2>3 DEF Follows
    <3>2. variables'[i][m] = entry /\ (Kind(variables[i][m]))' = Kind(entry)
      BY <1>10, <2>2, <2>3 DEF Kind
    <3> QED
      BY <1>3, <1>5, <1>6, <3>1, <3>2 DEF Follows
  <2>4. CASE ~ (i = Depth /\ m = n)
    <3> DEFINE a == variables[i][m].anchor
    <3>1. variables'[i][m] = variables[i][m]
      BY <1>10, <2>2, <2>4
    <3>2. CASE variables[i][m] = Nobody
      BY <1>3, <2>2, <3>1, <3>2 DEF Follows
    <3>3. CASE variables[i][m] # Nobody
      <4>1. /\ mFrames[i].smart[m] = Kind(variables[i][m])
            /\ mFrames[i].borrows[m] = IF a = Nobody THEN Nobody ELSE a[2]
            /\ a # Nobody => a[1] \in 1 .. i /\ variables[a[1]][a[2]] # Nobody
        BY <2>2, <3>3 DEF Follows
      <4>2. <<i, m>> \in Introduced /\ Of(<<i, m>>) = variables[i][m]
        BY <2>2, <3>3 DEF Introduced, Of
      <4>3. a # Nobody => a[2] \in Idents
        BY <1>1, <4>2, DeclaredIsTyped DEF Described
      <4>4. a # Nobody => variables'[a[1]][a[2]] # Nobody
        <5>1. a # Nobody => a[1] \in 1 .. Depth
          BY <1>2, <2>2, <4>1
        <5> QED
          BY <1>5, <1>10, <4>1, <4>3, <5>1
      <4>5. (Kind(variables[i][m]))' = Kind(variables[i][m]) /\ a' = a
        BY <3>1 DEF Kind
      <4> QED
        BY <1>3, <3>1, <3>3, <4>1, <4>4, <4>5 DEF Follows
    <3> QED
      BY <3>2, <3>3
  <2> QED
    BY <2>3, <2>4
<1>12. verdict' = {} /\ offence' = {}
  BY DEF Parameter, Walking
<1> QED
  BY <1>9, <1>11, <1>12 DEF BorrowInv, BorrowsReported

LEMMA SwapKeeps ==
  ASSUME BorrowInv, NEW n \in Idents, NEW other \in Visible \cup {Nobody}, AnalyzeSwap(n, other)
  PROVE  BorrowInv'
<1> DEFINE e == IF other = Nobody THEN Meant(n) ELSE Meant(other)
           Moved(d) == ViewedOwner(d) /\ ~Of(d).param
<1>1. Tables /\ TablesFollow /\ n \in Visible
  BY DEF BorrowInv, AnalyzeSwap
<1>2. Tables' /\ TablesFollow' /\ (NoneHidden' <=> NoneHidden)
  BY <1>1, UnchangedTables DEF AnalyzeSwap
<1>3. \A m \in Visible : /\ Moved(Meant(m)) => OwnerUnderBorrow(m)
                         /\ NoneHidden /\ OwnerUnderBorrow(m) => Moved(Meant(m))
  BY <1>1, OwnersAreFound
<1>4. /\ verdict' = IF \E m \in {n, other} \ {Nobody} : OwnerUnderBorrow(m) THEN {"moved"} ELSE {}
      /\ offence' = {Breach(o, "moved") : o \in {x \in {Meant(n), e} : ViewedOwner(x)}}
  BY DEF AnalyzeSwap
<1>5. n # Nobody
  BY BorrowAssumption
<1>6. \A m \in {n, other} \ {Nobody} : m \in Visible
  BY <1>1
<1>7. Moved(Meant(n)) \/ Moved(e) => \E m \in {n, other} \ {Nobody} : OwnerUnderBorrow(m)
  <2>1. CASE other = Nobody
    BY <1>1, <1>3, <1>5, <2>1
  <2>2. CASE other # Nobody
    BY <1>1, <1>3, <1>5, <2>2
  <2> QED
    BY <2>1, <2>2
<1>8. NoneHidden /\ (\E m \in {n, other} \ {Nobody} : OwnerUnderBorrow(m)) =>
        Moved(Meant(n)) \/ Moved(e)
  BY <1>3, <1>6
<1>9. /\ verdict' \subseteq Rules /\ offence' \subseteq Offences
      /\ offence' \cap Covered = IF Moved(Meant(n)) \/ Moved(e) THEN {"moved"} ELSE {}
  <2> HIDE DEF e
  <2>1. \A d : Breach(d, "moved") = IF Of(d).param THEN "parameter" ELSE "moved"
    BY DEF Breach
  <2>2. verdict' \subseteq Rules
    BY <1>4 DEF Rules
  <2>3. offence' \subseteq {"moved", "parameter"}
    BY <1>4, <2>1
  <2>4. "moved" \in offence' <=> Moved(Meant(n)) \/ Moved(e)
    BY <1>4, <2>1
  <2> HIDE DEF Moved
  <2> QED
    BY <2>2, <2>3, <2>4 DEF Offences, Rules, Covered
<1> HIDE DEF e, Moved
<1>10. BorrowsReported'
  BY <1>2, <1>4, <1>7, <1>8, <1>9 DEF BorrowsReported
<1> QED
  BY <1>2, <1>9, <1>10 DEF BorrowInv

LEMMA VarKeepsTables ==
  ASSUME Tables, TablesFollow, NEW n \in Idents, NEW marker \in Markers, NEW isThreadLocal \in BOOLEAN,
         NEW source \in Visible \cup {Nobody}, AnalyzeVar(n, marker, isThreadLocal, source)
  PROVE  Tables' /\ TablesFollow'
<1> DEFINE region == RegionOfVar(n, isThreadLocal)
           info == IF marker = "none" THEN mFrames[Depth].smart[n] ELSE [kind |-> marker, region |-> region]
           target == IF source = Nobody THEN Nobody ELSE Meant(source)
           entry == [kind |-> marker, region |-> region, anchor |-> target, param |-> FALSE]
           frame == [smart |-> [mFrames[Depth].smart EXCEPT ![n] = info],
                     borrows |-> IF source = Nobody THEN mFrames[Depth].borrows
                                 ELSE [mFrames[Depth].borrows EXCEPT ![n] = source]]
<1>1. Depth = Len(mFrames) /\ Depth = Len(variables) /\ Depth \in Nat /\ Depth > 0
  BY DEF Depth, Tables
<1>2. /\ mFrames' = [mFrames EXCEPT ![Depth] = frame]
      /\ variables' = [variables EXCEPT ![Depth][n] = entry]
      /\ variables[Depth][n] = Nobody /\ UNCHANGED function
  BY DEF AnalyzeVar
<1>3. mFrames[Depth].smart[n] = Nobody /\ mFrames[Depth].borrows[n] = Nobody
  BY <1>1, <1>2 DEF TablesFollow, Follows
<1>4. region \in 0 .. 2
  BY DEF RegionOfVar, Scope, Thread, Program
<1>5. source # Nobody => /\ target \in Introduced /\ target[2] = source /\ source \in Idents
                         /\ target \in Nat \X Idents /\ target[1] \in 1 .. Depth
                         /\ variables[target[1]][target[2]] # Nobody
  <2>1. ASSUME source # Nobody
        PROVE  target \in Introduced /\ target[2] = source /\ source \in Idents
    <3>1. source \in Visible
      BY <2>1
    <3> QED
      BY <2>1, <3>1, MeantIsInnermost
  <2> HIDE DEF target
  <2> QED
    BY <1>1, <2>1, DeclaredIsTyped DEF Introduced
<1>6. info = Kind(entry) /\ info \in Kept \cup {Nobody}
  BY <1>3, <1>4 DEF Kind, Kept, Markers
<1>7. entry \in Described
  <2>1. target \in (Nat \X Idents) \cup {Nobody}
    BY <1>5
  <2> HIDE DEF target, region
  <2> QED
    BY <1>4, <2>1 DEF Described
<1>8. entry # Nobody
  <2>1. entry \in [kind : {"unique", "shared", "weak", "none"}, region : Nat,
                   anchor : (Nat \X Idents) \cup {Nobody}, param : BOOLEAN]
    BY <1>4, <1>7 DEF Described, Markers
  <2> QED
    BY <2>1, BorrowAssumption
<1>9. source # Nobody <=> target # Nobody
  BY <1>5, BorrowAssumption
<1> HIDE DEF info, entry, region
<1>10. frame \in Frame
  <2>1. /\ mFrames[Depth].smart \in [Idents -> Kept \cup {Nobody}]
        /\ mFrames[Depth].borrows \in [Idents -> Idents \cup {Nobody}]
    BY <1>1, FrameIsTyped
  <2>2. [mFrames[Depth].smart EXCEPT ![n] = info] \in [Idents -> Kept \cup {Nobody}]
    BY <1>6, <2>1
  <2>3. source # Nobody => [mFrames[Depth].borrows EXCEPT ![n] = source] \in [Idents -> Idents \cup {Nobody}]
    BY <1>5, <2>1
  <2> QED
    BY <2>1, <2>2, <2>3 DEF Frame
<1>11. variables[Depth] \in [Idents -> Described \cup {Nobody}]
  BY <1>1 DEF Tables
<1>12. [variables[Depth] EXCEPT ![n] = entry] \in [Idents -> Described \cup {Nobody}]
  BY <1>7, <1>11
<1>13. /\ Len(mFrames') = Len(mFrames) /\ Len(variables') = Len(variables)
       /\ mFrames'[Depth] = frame /\ variables'[Depth] = [variables[Depth] EXCEPT ![n] = entry]
       /\ \A i \in 1 .. Depth : i # Depth => mFrames'[i] = mFrames[i] /\ variables'[i] = variables[i]
  BY <1>1, <1>2 DEF Tables
<1>14. Tables'
  BY <1>1, <1>2, <1>10, <1>12, <1>13 DEF Tables
<1>15. \A i \in 1 .. Depth, m \in Idents : variables[i][m] # Nobody => variables'[i][m] = variables[i][m]
  BY <1>2, <1>11, <1>13
<1>16. TablesFollow'
  <2>1. SUFFICES ASSUME NEW i \in 1 .. Len(mFrames'), NEW m \in Idents PROVE Follows(i, m)'
    BY DEF TablesFollow
  <2>2. i \in 1 .. Depth /\ Follows(i, m)
    BY <1>1, <1>13 DEF TablesFollow
  <2>3. CASE i = Depth /\ m = n
    <3>1. variables'[i][m] = entry /\ mFrames'[i].smart[m] = info
      <4>1. mFrames[Depth].smart \in [Idents -> Kept \cup {Nobody}]
        BY <1>1, FrameIsTyped
      <4> QED
        BY <1>11, <1>13, <2>3, <4>1
    <3>2. mFrames'[i].borrows[m] = source
      <4>1. mFrames[Depth].borrows \in [Idents -> Idents \cup {Nobody}]
        BY <1>1, FrameIsTyped
      <4>2. source \in Idents \cup {Nobody}
        BY <1>5
      <4> QED
        BY <1>3, <1>13, <2>3, <4>1, <4>2
    <3>3. entry.anchor = target /\ (Kind(variables[i][m]))' = Kind(entry)
      BY <3>1 DEF entry, Kind
    <3>4. target # Nobody => target[1] \in 1 .. i /\ variables'[target[1]][target[2]] # Nobody
      <4> HIDE DEF target
      <4> QED
        BY <1>5, <1>9, <1>15, <2>3
    <3>5. source = IF target = Nobody THEN Nobody ELSE target[2]
      <4> HIDE DEF target
      <4> QED
        BY <1>5, <1>9
    <3> HIDE DEF target
    <3> QED
      BY <1>6, <1>8, <3>1, <3>2, <3>3, <3>4, <3>5 DEF Follows
  <2>4. CASE ~ (i = Depth /\ m = n)
    <3>1. variables'[i][m] = variables[i][m]
      BY <1>11, <1>13, <2>2, <2>4
    <3>2. mFrames'[i].smart[m] = mFrames[i].smart[m] /\ mFrames'[i].borrows[m] = mFrames[i].borrows[m]
      <4>1. CASE i # Depth
        BY <1>13, <2>2, <4>1
      <4>2. CASE i = Depth /\ m # n
        <5>1. /\ mFrames[Depth].smart \in [Idents -> Kept \cup {Nobody}]
              /\ mFrames[Depth].borrows \in [Idents -> Idents \cup {Nobody}]
          BY <1>1, FrameIsTyped
        <5> QED
          BY <1>13, <4>2, <5>1
      <4> QED
        BY <2>4, <4>1, <4>2
    <3> DEFINE a == variables[i][m].anchor
    <3>3. CASE variables[i][m] = Nobody
      BY <2>2, <3>1, <3>2, <3>3 DEF Follows
    <3>4. CASE variables[i][m] # Nobody
      <4>1. /\ mFrames[i].smart[m] = Kind(variables[i][m])
            /\ mFrames[i].borrows[m] = IF a = Nobody THEN Nobody ELSE a[2]
            /\ a # Nobody => a[1] \in 1 .. i /\ variables[a[1]][a[2]] # Nobody
        BY <2>2, <3>4 DEF Follows
      <4>2. <<i, m>> \in Introduced /\ Of(<<i, m>>) = variables[i][m]
        BY <2>2, <3>4 DEF Introduced, Of
      <4>3. a # Nobody => a[2] \in Idents
        BY <4>2, DeclaredIsTyped DEF Described
      <4>4. a # Nobody => variables'[a[1]][a[2]] # Nobody
        BY <1>1, <1>15, <2>2, <4>1, <4>3
      <4>5. (Kind(variables[i][m]))' = Kind(variables[i][m]) /\ a' = a
        BY <3>1 DEF Kind
      <4> QED
        BY <3>1, <3>2, <3>4, <4>1, <4>4, <4>5 DEF Follows
    <3> QED
      BY <3>3, <3>4
  <2> QED
    BY <2>3, <2>4
<1> QED
  BY <1>14, <1>16

LEMMA VarKeeps ==
  ASSUME BorrowInv, NEW n \in Idents, NEW marker \in Markers, NEW isThreadLocal \in BOOLEAN,
         NEW source \in Visible \cup {Nobody}, AnalyzeVar(n, marker, isThreadLocal, source)
  PROVE  BorrowInv'
<1> DEFINE region == RegionOfVar(n, isThreadLocal)
           anchor == IF source = Nobody THEN Nobody ELSE FindSmart(source)
           target == IF source = Nobody THEN Nobody ELSE Meant(source)
<1>1. Tables /\ TablesFollow
  BY DEF BorrowInv
<1>2. Tables' /\ TablesFollow'
  BY <1>1, VarKeepsTables
<1>3. /\ verdict' = IF anchor # Nobody /\ region > anchor.region THEN {"region"} ELSE {}
      /\ offence' = IF target # Nobody /\ Of(target).kind # "none" /\ region > Of(target).region
                    THEN {IF Of(target).param THEN "parameter" ELSE "region"} ELSE {}
  BY DEF AnalyzeVar, Breach
<1>4. NoneHidden' => NoneHidden
  <2>1. Introduced \subseteq Introduced'
    <3>1. SUFFICES ASSUME NEW d \in Introduced PROVE d \in Introduced'
      OBVIOUS
    <3>2. d[1] \in 1 .. Len(mFrames) /\ d[2] \in Idents /\ d = <<d[1], d[2]>> /\ variables[d[1]][d[2]] # Nobody
      BY <1>1, DeclaredIsTyped
    <3>3. variables' = [variables EXCEPT ![Depth][n] =
                          [kind |-> marker, region |-> region, anchor |-> target, param |-> FALSE]]
      BY DEF AnalyzeVar
    <3>4. variables[Depth][n] = Nobody /\ Len(mFrames') = Len(mFrames)
      BY <1>1 DEF AnalyzeVar, Tables, Depth
    <3>5. variables'[d[1]][d[2]] = variables[d[1]][d[2]]
      <4>1. d[1] \in DOMAIN variables /\ d[2] \in DOMAIN variables[d[1]]
        BY <1>1, <3>2 DEF Tables
      <4>2. d[1] # Depth \/ d[2] # n
        BY <3>2, <3>4
      <4> QED
        BY <3>3, <4>1, <4>2
    <3> QED
      BY <3>2, <3>4, <3>5 DEF Introduced, Depth
  <2> QED
    BY <2>1 DEF NoneHidden
<1>5. ASSUME source # Nobody, Of(target).kind # "none", ~Of(target).param
      PROVE  anchor # Nobody /\ anchor.region = Of(target).region
  <2>1. source \in Visible /\ target = Meant(source) /\ anchor = FindSmart(source)
    BY <1>5
  <2>2. target \in Introduced
    BY <1>1, <2>1, MeantIsInnermost
  <2>3. FindSmart(source) = [kind |-> Of(target).kind, region |-> Of(target).region]
    BY <1>1, <1>5, <2>1, MarkedIsFound
  <2>4. Of(target).kind \in {"unique", "shared", "weak"} /\ Of(target).region \in Nat
    <3>1. Of(target) \in Described
      BY <1>1, <2>2, DeclaredIsTyped
    <3> HIDE DEF target
    <3> QED
      BY <1>5, <3>1 DEF Described, Markers
  <2>5. FindSmart(source) \in [kind : {"unique", "shared", "weak"}, region : Nat]
    BY <2>3, <2>4
  <2> QED
    BY <2>1, <2>3, <2>5, BorrowAssumption
<1>6. ASSUME NoneHidden, anchor # Nobody
      PROVE  source # Nobody /\ Of(target).kind # "none" /\ ~Of(target).param
  <2>1. source \in Visible /\ FindSmart(source) # Nobody /\ target = Meant(source)
    BY <1>6
  <2> QED
    BY <1>1, <1>6, <2>1, FoundIsMeant
<1>7. source # Nobody => target # Nobody
  <2>1. ASSUME source # Nobody PROVE target \in Nat \X Idents
    <3>1. source \in Visible /\ target = Meant(source)
      BY <2>1
    <3>2. target \in Introduced
      BY <1>1, <3>1, MeantIsInnermost
    <3> HIDE DEF target
    <3> QED
      BY <1>1, <3>2, DeclaredIsTyped
  <2> QED
    BY <2>1, BorrowAssumption
<1>8. offence' \cap Covered \subseteq verdict'
  <2>1. target # Nobody => source # Nobody
    OBVIOUS
  <2> HIDE DEF anchor, target, region
  <2> QED
    BY <1>3, <1>5, <2>1 DEF Covered
<1>9. NoneHidden => verdict' = offence' \cap Covered
  <2> HIDE DEF anchor, target, region
  <2> QED
    BY <1>3, <1>5, <1>6, <1>7, <1>8 DEF Covered
<1>10. verdict' \subseteq Rules /\ offence' \subseteq Offences
  <2> HIDE DEF anchor, target, region
  <2> QED
    BY <1>3 DEF Rules, Offences
<1> QED
  BY <1>2, <1>4, <1>8, <1>9, <1>10 DEF BorrowInv, BorrowsReported

LEMMA StepsKeep ==
  ASSUME BorrowInv, [BorrowNext]_borrowVars
  PROVE  BorrowInv'
<1>1. ASSUME NEW isFunction \in BOOLEAN, EnterScope(isFunction) PROVE BorrowInv'
  BY <1>1, EnterKeeps
<1>2. CASE ExitScope
  BY <1>2, ExitKeeps
<1>3. ASSUME NEW n \in Idents, NEW source \in Visible \cup {Nobody}, NEW marker \in Markers,
             NEW isThreadLocal \in BOOLEAN, AnalyzeVar(n, marker, isThreadLocal, source)
      PROVE  BorrowInv'
  BY <1>3, VarKeeps
<1>4. ASSUME NEW n \in Idents, NEW source \in Visible \cup {Nobody}, AnalyzeAssign(n, source)
      PROVE  BorrowInv'
  BY <1>4, AssignKeeps
<1>5. ASSUME NEW n \in Idents, NEW source \in Visible \cup {Nobody}, AnalyzeSwap(n, source)
      PROVE  BorrowInv'
  BY <1>5, SwapKeeps
<1>6. ASSUME NEW n \in Idents, NEW marker \in Markers, Parameter(n, marker) PROVE BorrowInv'
  BY <1>6, ParameterKeeps
<1>7. ASSUME NEW n \in Idents, AnalyzeReset(n) PROVE BorrowInv'
  BY <1>7, ResetKeeps
<1>8. CASE UNCHANGED borrowVars
  <2>1. Tables' /\ TablesFollow' /\ (NoneHidden' <=> NoneHidden)
    BY <1>8, UnchangedTables DEF borrowVars, BorrowInv
  <2>2. verdict' = verdict /\ offence' = offence
    BY <1>8 DEF borrowVars
  <2> QED
    BY <2>1, <2>2 DEF BorrowInv, BorrowsReported
<1> QED
  BY <1>1, <1>2, <1>3, <1>4, <1>5, <1>6, <1>7, <1>8 DEF BorrowNext

LEMMA InvIsInvariant == BorrowSpec => []BorrowInv
BY InitEstablishes, StepsKeep, PTL DEF BorrowSpec

\* The tables of the hook keep their types and follow the open scopes, for
\* any names and any nesting (borrow_check.cpp:20-35, 128-175).
THEOREM BorrowTyped == BorrowSpec => []BorrowTypeOK
<1>1. BorrowInv => BorrowTypeOK
  <2> SUFFICES ASSUME BorrowInv PROVE BorrowTypeOK
    OBVIOUS
  <2>1. Tables /\ TablesFollow /\ verdict \subseteq Rules /\ offence \subseteq Offences
    BY DEF BorrowInv
  <2>2. /\ DOMAIN variables = 1 .. Len(variables) /\ DOMAIN mFrames = 1 .. Len(mFrames)
        /\ Len(variables) = Len(mFrames) /\ function <= Depth
    BY <2>1 DEF Tables, Depth
  <2>3. \A i \in DOMAIN mFrames : mFrames[i].borrows \in [Idents -> Idents \cup {Nobody}]
    BY <2>1, <2>2, FrameIsTyped
  <2>4. ASSUME NEW i \in DOMAIN mFrames, NEW n \in Idents, mFrames[i].smart[n] # Nobody
        PROVE  variables[i][n].kind = mFrames[i].smart[n].kind
    <3>1. Follows(i, n)
      BY <2>1, <2>2 DEF TablesFollow
    <3> QED
      BY <2>4, <3>1 DEF Follows, Kind
  <2> QED
    BY <2>1, <2>2, <2>3, <2>4 DEF BorrowTypeOK, Rules, Offences
<1> QED
  BY <1>1, InvIsInvariant, PTL

\* No borrowed variable that owns its object is swapped away, no unique one
\* written and no view made to outlive a marked variable without a report, for
\* any names, any nesting of scopes and any names that hide others, as long
\* as these are declared by statements; and while no name hides another
\* nothing else is reported (borrow_check.cpp:54-69, 116-126, 149-170,
\* 196-226).  Resets of shared owners and parameters are not among them.
THEOREM BorrowsAreReported == BorrowSpec => []BorrowsReported
<1>1. BorrowInv => BorrowsReported
  BY DEF BorrowInv
<1> QED
  BY <1>1, InvIsInvariant, PTL

-----------------------------------------------------------------------------
(* BorrowedViews: looking names up in the blocks.                          *)

Entry == [root : Vars, born : Nat]
Block == [declared : SUBSET Vars, epoch : [Vars -> Nat], dep : [Vars -> Entry \cup {None}]]
Shown == [of : (Nat \X Vars) \cup {None}, stale : BOOLEAN]
Shelf == [Vars -> Shown \cup {None}]

LEMMA FrameIs ==
  ASSUME NEW fr \in Seq(Block), NEW i \in 1 .. Len(fr), NEW n \in Vars
  PROVE  /\ fr[i] \in Block /\ fr[i].declared \in SUBSET Vars /\ fr[i].epoch \in [Vars -> Nat]
         /\ fr[i].dep \in [Vars -> Entry \cup {None}] /\ fr[i].epoch[n] \in Nat
         /\ fr[i].dep[n] \in Entry \cup {None}
<1>1. fr[i] \in Block
  OBVIOUS
<1> QED BY <1>1 DEF Block

LEMMA ShelfIs ==
  ASSUME NEW ft \in Seq(Shelf), NEW i \in 1 .. Len(ft), NEW n \in Vars, ft[i][n] # None
  PROVE  /\ ft[i][n] \in Shown /\ ft[i][n].stale \in BOOLEAN
         /\ ft[i][n].of \in (Nat \X Vars) \cup {None}
<1>1. ft[i] \in Shelf
  OBVIOUS
<1> QED BY <1>1 DEF Shelf, Shown

Alone(S, i) == i \in S /\ \A j \in S : j = i

LEMMA MaxOfAlone ==
  ASSUME NEW N \in Nat, NEW S, S \subseteq 1 .. N, NEW i, Alone(S, i)
  PROVE  Max(S) = i
<1>1. S # {}
  BY DEF Alone
<1>2. Max(S) \in S
  BY <1>1, LastPlace
<1> QED BY <1>2 DEF Alone

\* The block where a name is declared once.
LEMMA FrameOfIs ==
  ASSUME NEW fr \in Seq(Block), NEW n, NEW i \in 1 .. Len(fr), n \in fr[i].declared,
         \A j \in 1 .. Len(fr) : n \in fr[j].declared => j = i
  PROVE  FrameOf(fr, n) = i
<1> DEFINE S == {j \in DOMAIN fr : n \in fr[j].declared}
<1>1. Len(fr) \in Nat /\ DOMAIN fr = 1 .. Len(fr)
  OBVIOUS
<1>2. S \subseteq 1 .. Len(fr) /\ Alone(S, i)
  BY <1>1 DEF Alone
<1>3. FrameOf(fr, n) = IF S = {} THEN 1 ELSE Max(S)
  BY DEF FrameOf
<1> HIDE DEF S
<1>4. Max(S) = i
  BY <1>1, <1>2, MaxOfAlone
<1>5. S # {}
  BY <1>2 DEF Alone
<1> QED BY <1>3, <1>4, <1>5

\* FrameOf is a block.
LEMMA FrameOfType ==
  ASSUME NEW fr \in Seq(Block), Len(fr) > 0, NEW n
  PROVE  FrameOf(fr, n) \in 1 .. Len(fr)
<1> DEFINE S == {j \in DOMAIN fr : n \in fr[j].declared}
<1>1. Len(fr) \in Nat /\ DOMAIN fr = 1 .. Len(fr)
  OBVIOUS
<1>2. S \subseteq 1 .. Len(fr)
  BY <1>1
<1>3. FrameOf(fr, n) = IF S = {} THEN 1 ELSE Max(S)
  BY DEF FrameOf
<1> HIDE DEF S
<1>4. S # {} => Max(S) \in S
  BY <1>1, <1>2, LastPlace
<1>5. 1 \in 1 .. Len(fr)
  <2>1. Len(fr) \in Nat /\ Len(fr) > 0
    OBVIOUS
  <2> QED BY <2>1
<1> QED BY <1>2, <1>3, <1>4, <1>5

LEMMA EpochType ==
  ASSUME NEW fr \in Seq(Block), Len(fr) > 0, NEW n \in Vars
  PROVE  EpochOf(fr, n) \in Nat
BY FrameOfType, FrameIs DEF EpochOf

\* The entry of a name that has one.
LEMMA EntryOfIs ==
  ASSUME NEW fr \in Seq(Block), NEW n, NEW i \in 1 .. Len(fr), fr[i].dep[n] # None,
         \A j \in 1 .. Len(fr) : fr[j].dep[n] # None => j = i
  PROVE  Dependent(fr, n) /\ EntryOf(fr, n) = fr[i].dep[n]
<1> DEFINE S == {j \in DOMAIN fr : fr[j].dep[n] # None}
<1>1. Len(fr) \in Nat /\ DOMAIN fr = 1 .. Len(fr)
  OBVIOUS
<1>2. S \subseteq 1 .. Len(fr) /\ Alone(S, i)
  BY <1>1 DEF Alone
<1>3. EntryOf(fr, n) = fr[Max(S)].dep[n]
  BY DEF EntryOf
<1>4. Dependent(fr, n)
  BY <1>1 DEF Dependent
<1> HIDE DEF S
<1>5. Max(S) = i
  BY <1>1, <1>2, MaxOfAlone
<1> QED BY <1>3, <1>4, <1>5

LEMMA EntryOfType ==
  ASSUME NEW fr \in Seq(Block), NEW n \in Vars, Dependent(fr, n)
  PROVE  EntryOf(fr, n) \in Entry /\ EntryOf(fr, n).root \in Vars
         /\ \E i \in 1 .. Len(fr) : fr[i].dep[n] # None /\ EntryOf(fr, n) = fr[i].dep[n]
<1> DEFINE S == {j \in DOMAIN fr : fr[j].dep[n] # None}
<1>1. Len(fr) \in Nat /\ DOMAIN fr = 1 .. Len(fr)
  OBVIOUS
<1>2. S \subseteq 1 .. Len(fr) /\ S # {}
  BY <1>1 DEF Dependent
<1>3. EntryOf(fr, n) = fr[Max(S)].dep[n]
  BY DEF EntryOf
<1>4. Max(S) \in S => Max(S) \in 1 .. Len(fr) /\ fr[Max(S)].dep[n] # None
  BY <1>1
<1> HIDE DEF S
<1>5. Max(S) \in S
  BY <1>1, <1>2, LastPlace
<1>6. fr[Max(S)].dep[n] \in Entry
  BY <1>4, <1>5, FrameIs
<1> QED BY <1>3, <1>4, <1>5, <1>6 DEF Entry

-----------------------------------------------------------------------------
(* The climb to the root of a view.                                        *)

ClimbStep(fr, f, seen, m) ==
  IF ~Dependent(fr, m) THEN m
  ELSE LET up == EntryOf(fr, m).root
       IN  IF up = m \/ up \in seen THEN m ELSE f[seen \cup {up}][up]
Climbs(fr, S, f) == f = [seen \in S |-> [m \in Vars |-> ClimbStep(fr, f, seen, m)]]

LEMMA RootIsClimb ==
  ASSUME NEW fr, NEW n
  PROVE  RootOf(fr, n) = (CHOOSE f : Climbs(fr, SUBSET Vars, f))[{}][n]
BY Zenon DEF RootOf, Climbs, ClimbStep

\* The names not seen yet become fewer with each step, so the climb is defined.
Unseen(n) == {seen \in SUBSET Vars : Cardinality(Vars \ seen) <= n}

LEMMA SeesOneMore ==
  ASSUME NEW n \in Nat, NEW seen \in Unseen(n + 1), NEW up \in Vars, up \notin seen
  PROVE  seen \cup {up} \in Unseen(n)
<1>1. IsFiniteSet(Vars \ seen)
  BY ViewAssumption, FS_Subset
<1>2. up \in Vars \ seen /\ Vars \ (seen \cup {up}) = (Vars \ seen) \ {up}
  OBVIOUS
<1>3. Cardinality((Vars \ seen) \ {up}) = Cardinality(Vars \ seen) - 1
  BY <1>1, <1>2, FS_RemoveElement
<1>4. Cardinality(Vars \ seen) \in Nat /\ Cardinality(Vars \ seen) <= n + 1
  BY <1>1, FS_CardinalityType DEF Unseen
<1>5. Cardinality(Vars \ (seen \cup {up})) <= n
  BY <1>2, <1>3, <1>4
<1> QED BY <1>5 DEF Unseen

LEMMA AllAreSeen ==
  ASSUME NEW seen \in Unseen(0)
  PROVE  seen = Vars
<1>1. IsFiniteSet(Vars \ seen)
  BY ViewAssumption, FS_Subset
<1>2. Cardinality(Vars \ seen) \in Nat /\ Cardinality(Vars \ seen) <= 0
  BY <1>1, FS_CardinalityType DEF Unseen
<1>3. Cardinality(Vars \ seen) = 0
  BY <1>2
<1>4. Vars \ seen = {}
  BY <1>1, <1>3, FS_EmptySet
<1> QED BY <1>4 DEF Unseen

LEMMA ClimbExists ==
  ASSUME NEW fr \in Seq(Block)
  PROVE  \E f : Climbs(fr, SUBSET Vars, f)
<1> DEFINE T == {n \in Nat : \E f : Climbs(fr, Unseen(n), f)}
<1>1. 0 \in T
  <2> DEFINE f == [seen \in Unseen(0) |-> [m \in Vars |-> ClimbStep(fr, fr, seen, m)]]
  <2>1. ASSUME NEW seen \in Unseen(0), NEW m \in Vars, NEW g
        PROVE  ClimbStep(fr, fr, seen, m) = ClimbStep(fr, g, seen, m)
    <3>1. seen = Vars
      BY AllAreSeen
    <3>2. Dependent(fr, m) => EntryOf(fr, m).root \in Vars
      BY EntryOfType
    <3> QED BY <3>1, <3>2 DEF ClimbStep
  <2>2. Climbs(fr, Unseen(0), f)
    <3>1. ASSUME NEW g PROVE f = [seen \in Unseen(0) |-> [m \in Vars |-> ClimbStep(fr, g, seen, m)]]
      BY <2>1
    <3> QED BY <3>1 DEF Climbs
  <2> QED BY <2>2
<1>2. ASSUME NEW n \in Nat, n \in T PROVE n + 1 \in T
  <2>1. PICK f : Climbs(fr, Unseen(n), f)
    BY <1>2
  <2> DEFINE g == [seen \in Unseen(n + 1) |-> [m \in Vars |-> ClimbStep(fr, f, seen, m)]]
  <2>2. \A seen \in Unseen(n) : seen \in Unseen(n + 1) /\ g[seen] = f[seen]
    <3>1. \A seen \in Unseen(n) : seen \in Unseen(n + 1)
      <4> SUFFICES ASSUME NEW seen \in Unseen(n) PROVE seen \in Unseen(n + 1)
        OBVIOUS
      <4>1. Cardinality(Vars \ seen) \in Nat /\ Cardinality(Vars \ seen) <= n
        BY ViewAssumption, FS_Subset, FS_CardinalityType DEF Unseen
      <4>2. Cardinality(Vars \ seen) <= n + 1
        BY <4>1
      <4> QED BY <4>2 DEF Unseen
    <3>2. \A seen \in Unseen(n) : f[seen] = [m \in Vars |-> ClimbStep(fr, f, seen, m)]
      BY <2>1 DEF Climbs
    <3> QED BY <3>1, <3>2
  <2> HIDE DEF g
  <2>3. ASSUME NEW seen \in Unseen(n + 1), NEW m \in Vars
        PROVE  ClimbStep(fr, f, seen, m) = ClimbStep(fr, g, seen, m)
    <3>1. Dependent(fr, m) => EntryOf(fr, m).root \in Vars
      BY EntryOfType
    <3>2. CASE Dependent(fr, m) /\ EntryOf(fr, m).root # m /\ EntryOf(fr, m).root \notin seen
      <4>1. seen \cup {EntryOf(fr, m).root} \in Unseen(n)
        BY <3>1, <3>2, SeesOneMore
      <4> QED BY <2>2, <4>1 DEF ClimbStep
    <3>3. CASE ~(Dependent(fr, m) /\ EntryOf(fr, m).root # m /\ EntryOf(fr, m).root \notin seen)
      BY <3>3 DEF ClimbStep
    <3> QED BY <3>2, <3>3
  <2>4. Climbs(fr, Unseen(n + 1), g)
    <3>1. g = [seen \in Unseen(n + 1) |-> [m \in Vars |-> ClimbStep(fr, f, seen, m)]]
      BY DEF g
    <3> QED BY <2>3, <3>1 DEF Climbs
  <2> QED BY <2>4
<1>3. Cardinality(Vars) \in Nat
  BY ViewAssumption, FS_CardinalityType
<1>4. Cardinality(Vars) \in T
  <2> HIDE DEF T
  <2> QED BY <1>1, <1>2, <1>3, ByInduction
<1>5. Unseen(Cardinality(Vars)) = SUBSET Vars
  BY ViewAssumption, FS_Subset DEF Unseen
<1> QED BY <1>4, <1>5

LEMMA RootByClimb ==
  ASSUME NEW fr \in Seq(Block)
  PROVE  \E f : /\ \A n : RootOf(fr, n) = f[{}][n]
                /\ \A seen \in SUBSET Vars, m \in Vars : f[seen][m] = ClimbStep(fr, f, seen, m)
<1> DEFINE f == CHOOSE f : Climbs(fr, SUBSET Vars, f)
<1>1. Climbs(fr, SUBSET Vars, f)
  BY ClimbExists
<1>2. \A n : RootOf(fr, n) = f[{}][n]
  BY RootIsClimb
<1> HIDE DEF f
<1>3. \A seen \in SUBSET Vars : f[seen] = [m \in Vars |-> ClimbStep(fr, f, seen, m)]
  BY <1>1 DEF Climbs
<1>4. \A seen \in SUBSET Vars, m \in Vars : f[seen][m] = ClimbStep(fr, f, seen, m)
  BY <1>3
<1> QED BY <1>2, <1>4

LEMMA RootType ==
  ASSUME NEW fr \in Seq(Block), NEW n \in Vars
  PROVE  RootOf(fr, n) \in Vars
<1>1. PICK f : /\ \A m : RootOf(fr, m) = f[{}][m]
               /\ \A seen \in SUBSET Vars, m \in Vars : f[seen][m] = ClimbStep(fr, f, seen, m)
  BY RootByClimb
<1> DEFINE T == {k \in Nat : \A seen \in Unseen(k), m \in Vars : f[seen][m] \in Vars}
<1>2. 0 \in T
  <2> SUFFICES ASSUME NEW seen \in Unseen(0), NEW m \in Vars PROVE f[seen][m] \in Vars
    OBVIOUS
  <2>1. seen = Vars /\ (Dependent(fr, m) => EntryOf(fr, m).root \in Vars)
    BY AllAreSeen, EntryOfType
  <2>2. f[seen][m] = ClimbStep(fr, f, seen, m)
    BY <1>1 DEF Unseen
  <2> QED BY <2>1, <2>2 DEF ClimbStep
<1>3. ASSUME NEW k \in Nat, k \in T PROVE k + 1 \in T
  <2> SUFFICES ASSUME NEW seen \in Unseen(k + 1), NEW m \in Vars PROVE f[seen][m] \in Vars
    OBVIOUS
  <2>1. Dependent(fr, m) => EntryOf(fr, m).root \in Vars
    BY EntryOfType
  <2>2. f[seen][m] = ClimbStep(fr, f, seen, m)
    BY <1>1 DEF Unseen
  <2>3. ASSUME NEW up \in Vars, up \notin seen PROVE f[seen \cup {up}][up] \in Vars
    BY <1>3, <2>3, SeesOneMore
  <2> QED BY <2>1, <2>2, <2>3 DEF ClimbStep
<1>4. Cardinality(Vars) \in Nat /\ {} \in Unseen(Cardinality(Vars))
  BY ViewAssumption, FS_CardinalityType DEF Unseen
<1>5. Cardinality(Vars) \in T
  <2> HIDE DEF T
  <2> QED BY <1>2, <1>3, <1>4, ByInduction
<1> QED BY <1>1, <1>4, <1>5

\* The root of a variable that is no view is itself; that of a view of such
\* a variable is that variable.
LEMMA RootOfOwner ==
  ASSUME NEW fr \in Seq(Block), NEW n \in Vars, ~Dependent(fr, n)
  PROVE  RootOf(fr, n) = n
<1>1. PICK f : /\ \A m : RootOf(fr, m) = f[{}][m]
               /\ \A seen \in SUBSET Vars, m \in Vars : f[seen][m] = ClimbStep(fr, f, seen, m)
  BY RootByClimb
<1>2. f[{}][n] = ClimbStep(fr, f, {}, n)
  BY <1>1
<1> QED BY <1>1, <1>2 DEF ClimbStep

LEMMA RootOfView ==
  ASSUME NEW fr \in Seq(Block), NEW n \in Vars, Dependent(fr, n),
         NEW r \in Vars, r = EntryOf(fr, n).root, r # n, ~Dependent(fr, r)
  PROVE  RootOf(fr, n) = r
<1>1. PICK f : /\ \A m : RootOf(fr, m) = f[{}][m]
               /\ \A seen \in SUBSET Vars, m \in Vars : f[seen][m] = ClimbStep(fr, f, seen, m)
  BY RootByClimb
<1>2. f[{}][n] = ClimbStep(fr, f, {}, n) /\ {} \cup {r} = {r}
  BY <1>1
<1>3. f[{r}][r] = ClimbStep(fr, f, {r}, r)
  BY <1>1
<1>4. f[{r}][r] = r
  BY <1>3 DEF ClimbStep
<1> QED BY <1>1, <1>2, <1>4 DEF ClimbStep

-----------------------------------------------------------------------------
(* What the operations of the hook do to the blocks.                       *)

\* Only the entry of n in the last block has changed, it is now e.
EntrySet(new, fr, n, e) ==
  /\ new \in Seq(Block) /\ Len(new) = Len(fr)
  /\ \A i \in 1 .. Len(fr) : /\ new[i].declared = fr[i].declared
                            /\ new[i].epoch = fr[i].epoch
                            /\ \A m \in Vars : (i # Len(fr) \/ m # n) => new[i].dep[m] = fr[i].dep[m]
  /\ new[Len(fr)].dep[n] = e

LEMMA SetsEntry ==
  ASSUME NEW fr \in Seq(Block), Len(fr) > 0, NEW n \in Vars, NEW e \in Entry \cup {None}
  PROVE  EntrySet([fr EXCEPT ![Len(fr)].dep[n] = e], fr, n, e)
<1>1. PICK K : K = Len(fr)
  OBVIOUS
<1>2. K \in 1 .. Len(fr) /\ fr[K] \in Block
  BY <1>1
<1>3. PICK x : x = fr[K]
  OBVIOUS
<1> DEFINE d == [x.dep EXCEPT ![n] = e]
           y == [x EXCEPT !.dep = d]
           new == [fr EXCEPT ![K] = y]
<1>4. x.dep \in [Vars -> Entry \cup {None}]
  BY <1>2, <1>3 DEF Block
<1>5. d \in [Vars -> Entry \cup {None}] /\ d[n] = e /\ \A m \in Vars : m # n => d[m] = x.dep[m]
  BY <1>4
<1>6. [fr EXCEPT ![Len(fr)].dep[n] = e] = new
  BY <1>1, <1>3
<1> HIDE DEF d
<1>7. y \in Block
  BY <1>2, <1>3, <1>5 DEF Block
<1>8. y.dep = d
  BY <1>2, <1>3, <1>5 DEF Block
<1>9. y.declared = x.declared
  BY <1>2, <1>3, <1>5 DEF Block
<1>10. y.epoch = x.epoch
  BY <1>2, <1>3, <1>5 DEF Block
<1> HIDE DEF y
<1>11. /\ new \in Seq(Block) /\ Len(new) = Len(fr) /\ new[K] = y
       /\ \A j \in 1 .. Len(fr) : j # K => new[j] = fr[j]
  BY <1>2, <1>7, ExceptSeq
<1> HIDE DEF new
<1>12. EntrySet(new, fr, n, e)
  <2> SUFFICES ASSUME NEW i \in 1 .. Len(fr)
               PROVE  /\ new[i].declared = fr[i].declared /\ new[i].epoch = fr[i].epoch
                      /\ \A m \in Vars : (i # K \/ m # n) => new[i].dep[m] = fr[i].dep[m]
    BY <1>1, <1>5, <1>8, <1>11 DEF EntrySet
  <2>1. CASE i = K
    BY <1>3, <1>5, <1>8, <1>9, <1>10, <1>11, <2>1
  <2>2. CASE i # K
    BY <1>11, <2>2
  <2> QED BY <2>1, <2>2
<1> QED BY <1>6, <1>12

\* Only the epoch of n has grown, by one or not at all, in the block i.
EpochGrown(new, fr, i, n, by) ==
  /\ new \in Seq(Block) /\ Len(new) = Len(fr)
  /\ \A j \in 1 .. Len(fr) : /\ new[j].declared = fr[j].declared
                            /\ new[j].dep = fr[j].dep
                            /\ \A m \in Vars : (j # i \/ m # n) => new[j].epoch[m] = fr[j].epoch[m]
  /\ new[i].epoch[n] = fr[i].epoch[n] + by

LEMMA GrowsEpoch ==
  ASSUME NEW fr \in Seq(Block), NEW i \in 1 .. Len(fr), NEW n \in Vars
  PROVE  EpochGrown([fr EXCEPT ![i].epoch[n] = @ + 1], fr, i, n, 1)
<1>1. fr[i] \in Block
  OBVIOUS
<1>2. PICK x : x = fr[i]
  OBVIOUS
<1> DEFINE d == [x.epoch EXCEPT ![n] = x.epoch[n] + 1]
           y == [x EXCEPT !.epoch = d]
           new == [fr EXCEPT ![i] = y]
<1>3. x.epoch \in [Vars -> Nat] /\ x.epoch[n] \in Nat
  BY <1>1, <1>2 DEF Block
<1>4. d \in [Vars -> Nat] /\ d[n] = x.epoch[n] + 1 /\ \A m \in Vars : m # n => d[m] = x.epoch[m]
  BY <1>3
<1>5. [fr EXCEPT ![i].epoch[n] = @ + 1] = new
  BY <1>2
<1> HIDE DEF d
<1>6. y \in Block
  BY <1>1, <1>2, <1>4 DEF Block
<1>7. y.epoch = d
  BY <1>1, <1>2, <1>4 DEF Block
<1>8. y.declared = x.declared
  BY <1>1, <1>2, <1>4 DEF Block
<1>9. y.dep = x.dep
  BY <1>1, <1>2, <1>4 DEF Block
<1> HIDE DEF y
<1>10. /\ new \in Seq(Block) /\ Len(new) = Len(fr) /\ new[i] = y
       /\ \A j \in 1 .. Len(fr) : j # i => new[j] = fr[j]
  BY <1>6, ExceptSeq
<1> HIDE DEF new
<1>11. EpochGrown(new, fr, i, n, 1)
  <2> SUFFICES ASSUME NEW j \in 1 .. Len(fr)
               PROVE  /\ new[j].declared = fr[j].declared /\ new[j].dep = fr[j].dep
                      /\ \A m \in Vars : (j # i \/ m # n) => new[j].epoch[m] = fr[j].epoch[m]
    BY <1>2, <1>4, <1>7, <1>10 DEF EpochGrown
  <2>1. CASE j = i
    BY <1>2, <1>4, <1>7, <1>8, <1>9, <1>10, <2>1
  <2>2. CASE j # i
    BY <1>10, <2>2
  <2> QED BY <2>1, <2>2
<1> QED BY <1>5, <1>11

LEMMA ChangeGrows ==
  ASSUME NEW fr \in Seq(Block), Len(fr) > 0, NEW n \in Vars
  PROVE  EpochGrown(RecordChange(fr, n), fr, FrameOf(fr, n), n, IF HasDependents(fr, n) THEN 1 ELSE 0)
<1>1. PICK i \in 1 .. Len(fr) : i = FrameOf(fr, n)
  BY FrameOfType
<1>2. CASE HasDependents(fr, n)
  <2>1. RecordChange(fr, n) = [fr EXCEPT ![i].epoch[n] = @ + 1]
    BY <1>1, <1>2 DEF RecordChange, Mutate
  <2>2. EpochGrown([fr EXCEPT ![i].epoch[n] = @ + 1], fr, i, n, 1)
    BY GrowsEpoch
  <2> QED BY <1>1, <1>2, <2>1, <2>2
<1>3. CASE ~HasDependents(fr, n)
  <2>1. RecordChange(fr, n) = fr
    BY <1>3 DEF RecordChange
  <2>2. fr[i].epoch[n] \in Nat
    BY FrameIs
  <2> QED BY <1>1, <1>3, <2>1, <2>2 DEF EpochGrown
<1> QED BY <1>2, <1>3

\* Epochs have only grown.
Grown(new, fr) ==
  /\ new \in Seq(Block) /\ Len(new) = Len(fr)
  /\ \A i \in 1 .. Len(fr) : /\ new[i].declared = fr[i].declared
                            /\ new[i].dep = fr[i].dep
                            /\ \A m \in Vars : fr[i].epoch[m] <= new[i].epoch[m]

LEMMA GrownIs ==
  ASSUME NEW fr \in Seq(Block), NEW i \in 1 .. Len(fr), NEW n \in Vars, NEW by \in {0, 1},
         NEW new, EpochGrown(new, fr, i, n, by)
  PROVE  Grown(new, fr)
<1>1. ASSUME NEW j \in 1 .. Len(fr), NEW m \in Vars PROVE fr[j].epoch[m] <= new[j].epoch[m]
  <2>1. fr[j].epoch[m] \in Nat
    BY FrameIs
  <2>2. new[j].epoch[m] = fr[j].epoch[m] \/ new[j].epoch[m] = fr[j].epoch[m] + by
    BY DEF EpochGrown
  <2> QED BY <2>1, <2>2
<1> QED BY <1>1 DEF EpochGrown, Grown

LEMMA CallGrows ==
  ASSUME NEW fr \in Seq(Block), Len(fr) > 0, NEW n \in Vars, NEW call
  PROVE  EpochGrown(RecordCall(fr, n, call), fr, FrameOf(fr, n), n,
                    IF call = "bare" /\ HasDependents(fr, n) THEN 1 ELSE 0)
<1>1. CASE call = "bare"
  BY <1>1, ChangeGrows DEF RecordCall
<1>2. CASE call # "bare"
  <2>1. RecordCall(fr, n, call) = fr
    BY <1>2 DEF RecordCall
  <2>2. PICK i \in 1 .. Len(fr) : i = FrameOf(fr, n)
    BY FrameOfType
  <2>3. fr[i].epoch[n] \in Nat
    BY FrameIs
  <2> QED BY <1>2, <2>1, <2>2, <2>3 DEF EpochGrown
<1> QED BY <1>1, <1>2

LEMMA CallOnlyGrows ==
  ASSUME NEW fr \in Seq(Block), Len(fr) > 0, NEW n \in Vars \cup {None}, NEW call,
         n = None => call = "none"
  PROVE  Grown(RecordCall(fr, n, call), fr)
<1>1. CASE n \in Vars
  <2>1. PICK by \in {0, 1} : by = IF call = "bare" /\ HasDependents(fr, n) THEN 1 ELSE 0
    OBVIOUS
  <2>2. PICK i \in 1 .. Len(fr) : i = FrameOf(fr, n)
    BY FrameOfType
  <2>3. EpochGrown(RecordCall(fr, n, call), fr, i, n, by)
    BY <1>1, <2>1, <2>2, CallGrows
  <2> QED BY <1>1, <2>3, GrownIs
<1>2. CASE n = None
  <2>1. RecordCall(fr, n, call) = fr
    BY <1>2 DEF RecordCall
  <2>2. \A i \in 1 .. Len(fr), m \in Vars : fr[i].epoch[m] <= fr[i].epoch[m]
    BY FrameIs
  <2> QED BY <2>1, <2>2 DEF Grown
<1> QED BY <1>1, <1>2

\* A use that is reported still is after a later change.
LEMMA GrownReports ==
  ASSUME NEW fr \in Seq(Block), Len(fr) > 0, NEW new, Grown(new, fr), NEW m \in Vars, Reports(fr, m)
  PROVE  Reports(new, m)
<1>1. new \in Seq(Block) /\ Len(new) = Len(fr) /\ DOMAIN new = 1 .. Len(fr) /\ DOMAIN fr = 1 .. Len(fr)
  BY DEF Grown
<1>2. \A i \in 1 .. Len(fr) : new[i].dep = fr[i].dep /\ new[i].declared = fr[i].declared
  BY DEF Grown
<1>3. Dependent(fr, m) /\ Dependent(new, m)
  BY <1>1, <1>2 DEF Dependent, Reports
<1>4. PICK i \in 1 .. Len(fr) : EntryOf(fr, m) = fr[i].dep[m] /\ EntryOf(new, m) = new[i].dep[m]
  <2> DEFINE S == {i \in DOMAIN fr : fr[i].dep[m] # None}
  <2>1. S \subseteq 1 .. Len(fr) /\ S # {} /\ Len(fr) \in Nat
    BY <1>1, <1>3 DEF Dependent
  <2>2. {i \in DOMAIN new : new[i].dep[m] # None} = S
    BY <1>1, <1>2
  <2>3. EntryOf(new, m) = new[Max(S)].dep[m] /\ EntryOf(fr, m) = fr[Max(S)].dep[m]
    BY <2>2 DEF EntryOf
  <2> HIDE DEF S
  <2> QED BY <2>1, <2>3, LastPlace
<1>5. PICK e : e = EntryOf(fr, m) /\ e = EntryOf(new, m)
  BY <1>2, <1>4
<1>6. e \in Entry /\ e.root \in Vars
  BY <1>3, <1>5, EntryOfType
<1>7. FrameOf(new, e.root) = FrameOf(fr, e.root) /\ FrameOf(fr, e.root) \in 1 .. Len(fr)
  <2>1. {j \in DOMAIN new : e.root \in new[j].declared} = {j \in DOMAIN fr : e.root \in fr[j].declared}
    BY <1>1, <1>2
  <2> QED BY <2>1, FrameOfType DEF FrameOf
<1>8. /\ EpochOf(fr, e.root) <= EpochOf(new, e.root) /\ EpochOf(fr, e.root) > e.born
      /\ EpochOf(fr, e.root) \in Nat /\ EpochOf(new, e.root) \in Nat /\ e.born \in Nat
  <2>1. EpochOf(fr, e.root) <= EpochOf(new, e.root)
    BY <1>6, <1>7 DEF Grown, EpochOf
  <2>2. EpochOf(fr, e.root) > e.born
    BY <1>5 DEF Reports
  <2> QED BY <1>1, <1>6, <2>1, <2>2, EpochType DEF Entry
<1>9. EpochOf(new, e.root) > e.born
  BY <1>8
<1> QED BY <1>3, <1>5, <1>9 DEF Reports

-----------------------------------------------------------------------------
(* The check beside the truth.                                             *)

\* Each name is declared in one block, and both know the same names.
Once(ft) == \A i, j \in 1 .. Len(ft), n \in Vars : ft[i][n] # None /\ ft[j][n] # None => i = j
Matched(fr, ft) ==
  Once(ft) /\ \A i \in 1 .. Len(fr), n \in Vars : n \in fr[i].declared <=> ft[i][n] # None

\* n, declared in block i, shows r of block j: the entry of n has r as its
\* root, and the epoch of r is past the entry's exactly when n is stale.
Traced(fr, ft, i, n, j, r) ==
  /\ ft[i][n].of = <<j, r>> /\ r # n /\ ft[j][r] # None
  /\ fr[i].dep[n].root = r /\ fr[i].dep[n].born <= fr[j].epoch[r]
  /\ ft[i][n].stale <=> fr[j].epoch[r] > fr[i].dep[n].born
  /\ ~ft[i][n].stale => ft[j][r].of = None

Views(fr, ft) ==
  \A i \in 1 .. Len(fr), n \in Vars :
    /\ ft[i][n] = None => fr[i].dep[n] = None
    /\ ft[i][n] # None /\ ft[i][n].of = None => fr[i].dep[n] = None /\ ~ft[i][n].stale
    /\ ft[i][n] # None /\ ft[i][n].of # None =>
         fr[i].dep[n] # None /\ \E j \in 1 .. i, r \in Vars : Traced(fr, ft, i, n, j, r)

ViewTables(fr, ft) ==
  fr \in Seq(Block) /\ ft \in Seq(Shelf) /\ Len(fr) = Len(ft) /\ Len(fr) > 0

LEMMA NameIs ==
  ASSUME NEW fr, NEW ft, ViewTables(fr, ft), Matched(fr, ft),
         NEW i \in 1 .. Len(fr), NEW n \in Vars, ft[i][n] # None
  PROVE  /\ FrameOf(fr, n) = i /\ EpochOf(fr, n) = fr[i].epoch[n]
         /\ \A j \in 1 .. Len(fr) : ft[j][n] # None => j = i
<1>1. fr \in Seq(Block)
  BY DEF ViewTables
<1>2. \A j \in 1 .. Len(fr) : ft[j][n] # None => j = i
  BY DEF Matched, Once, ViewTables
<1>3. n \in fr[i].declared /\ \A j \in 1 .. Len(fr) : n \in fr[j].declared => j = i
  BY <1>2 DEF Matched
<1>4. FrameOf(fr, n) = i
  BY <1>1, <1>3, FrameOfIs
<1> QED BY <1>2, <1>4 DEF EpochOf

\* The entry of a view, and no entry of another name.
LEMMA ViewIs ==
  ASSUME NEW fr, NEW ft, ViewTables(fr, ft), Once(ft), Views(fr, ft),
         NEW i \in 1 .. Len(fr), NEW n \in Vars, ft[i][n] # None
  PROVE  /\ Dependent(fr, n) <=> ft[i][n].of # None
         /\ ft[i][n].of # None => EntryOf(fr, n) = fr[i].dep[n]
<1>1. fr \in Seq(Block)
  BY DEF ViewTables
<1>2. \A j \in 1 .. Len(fr) : ft[j][n] # None => j = i
  BY DEF Once, ViewTables
<1>3. \A j \in 1 .. Len(fr) : fr[j].dep[n] # None => j = i
  BY <1>2 DEF Views
<1>4. CASE ft[i][n].of # None
  <2>1. fr[i].dep[n] # None
    BY <1>4 DEF Views
  <2> QED BY <1>1, <1>3, <1>4, <2>1, EntryOfIs
<1>5. CASE ft[i][n].of = None
  <2>1. fr[i].dep[n] = None
    BY <1>5 DEF Views
  <2>2. \A j \in 1 .. Len(fr) : fr[j].dep[n] = None
    BY <1>3, <2>1
  <2>3. DOMAIN fr = 1 .. Len(fr)
    BY <1>1
  <2> QED BY <1>5, <2>2, <2>3 DEF Dependent
<1> QED BY <1>4, <1>5

LEMMA ReportsIs ==
  ASSUME NEW fr, NEW ft, ViewTables(fr, ft), Matched(fr, ft), Views(fr, ft),
         NEW i \in 1 .. Len(fr), NEW n \in Vars, ft[i][n] # None
  PROVE  Reports(fr, n) <=> ft[i][n].stale
<1>1. CASE ft[i][n].of = None
  <2>1. ~Dependent(fr, n) /\ ~ft[i][n].stale
    BY <1>1, ViewIs DEF Views, Matched
  <2> QED BY <2>1 DEF Reports
<1>2. CASE ft[i][n].of # None
  <2>1. Dependent(fr, n) /\ EntryOf(fr, n) = fr[i].dep[n]
    BY <1>2, ViewIs DEF Matched
  <2>2. PICK j \in 1 .. i, r \in Vars : Traced(fr, ft, i, n, j, r)
    BY <1>2 DEF Views
  <2>3. j \in 1 .. Len(fr)
    BY DEF ViewTables
  <2>4. /\ ft[j][r] # None /\ fr[i].dep[n].root = r
        /\ ft[i][n].stale <=> fr[j].epoch[r] > fr[i].dep[n].born
    BY <2>2 DEF Traced
  <2>5. EpochOf(fr, r) = fr[j].epoch[r]
    BY <2>3, <2>4, NameIs
  <2> QED BY <2>1, <2>4, <2>5 DEF Reports
<1> QED BY <1>1, <1>2

\* What is shown now: nothing, or a variable that is no view itself, and that
\* is the root the hook finds.
LEMMA SourceIs ==
  ASSUME NEW fr, NEW ft, ViewTables(fr, ft), Once(ft), Views(fr, ft),
         NEW i \in 1 .. Len(fr), NEW n \in Vars, ft[i][n] # None, ~ft[i][n].stale
  PROVE  /\ ft[i][n].of = None => RootOf(fr, n) = n
         /\ ft[i][n].of # None => \E j \in 1 .. i, r \in Vars :
              /\ ft[i][n].of = <<j, r>> /\ RootOf(fr, n) = r
              /\ ft[j][r] # None /\ ft[j][r].of = None
<1>1. fr \in Seq(Block)
  BY DEF ViewTables
<1>2. CASE ft[i][n].of = None
  <2>1. ~Dependent(fr, n)
    BY <1>2, ViewIs
  <2> QED BY <1>1, <1>2, <2>1, RootOfOwner
<1>3. CASE ft[i][n].of # None
  <2>1. Dependent(fr, n) /\ EntryOf(fr, n) = fr[i].dep[n]
    BY <1>3, ViewIs
  <2>2. PICK j \in 1 .. i, r \in Vars : Traced(fr, ft, i, n, j, r)
    BY <1>3 DEF Views
  <2>3. j \in 1 .. Len(fr)
    BY DEF ViewTables
  <2>4. /\ ft[i][n].of = <<j, r>> /\ r # n /\ ft[j][r] # None /\ ft[j][r].of = None
        /\ fr[i].dep[n].root = r
    BY <2>2 DEF Traced
  <2>5. ~Dependent(fr, r)
    BY <2>3, <2>4, ViewIs
  <2>6. RootOf(fr, n) = r
    BY <1>1, <2>1, <2>4, <2>5, RootOfView
  <2> QED BY <1>3, <2>4, <2>6
<1> QED BY <1>2, <1>3

\* Some variables are changed: what shows one of them is stale.
Marks(new, ft, places) ==
  \A i \in 1 .. Len(ft), m \in Vars :
    /\ new[i][m] # None <=> ft[i][m] # None
    /\ ft[i][m] # None => /\ new[i][m].of = ft[i][m].of
                          /\ new[i][m].stale <=> ft[i][m].stale \/ ft[i][m].of \in places

LEMMA EpochKeeps ==
  ASSUME NEW fr, NEW ft, ViewTables(fr, ft), Matched(fr, ft), Views(fr, ft),
         NEW h \in 1 .. Len(fr), NEW n \in Vars, ft[h][n] # None,
         NEW by \in {0, 1}, NEW newFr, EpochGrown(newFr, fr, h, n, by),
         NEW newFt, ViewTables(newFr, newFt),
         Marks(newFt, ft, IF by = 1 THEN {<<h, n>>} ELSE {})
  PROVE  Matched(newFr, newFt) /\ Views(newFr, newFt)
<1>1. Len(newFr) = Len(fr) /\ Len(ft) = Len(fr) /\ fr \in Seq(Block) /\ newFr \in Seq(Block)
  BY DEF ViewTables, EpochGrown
<1>2. \A j \in 1 .. Len(fr) : newFr[j].declared = fr[j].declared /\ newFr[j].dep = fr[j].dep
  BY DEF EpochGrown
<1>3. \A i \in 1 .. Len(fr), m \in Vars : newFt[i][m] # None <=> ft[i][m] # None
  BY <1>1 DEF Marks
<1>4. Matched(newFr, newFt)
  <2>1. Len(newFt) = Len(fr)
    BY <1>1 DEF ViewTables
  <2>2. Once(newFt)
    BY <1>1, <1>3, <2>1 DEF Matched, Once
  <2>3. \A i \in 1 .. Len(fr), m \in Vars : m \in fr[i].declared <=> ft[i][m] # None
    BY DEF Matched
  <2> QED BY <1>1, <1>2, <1>3, <2>2, <2>3 DEF Matched
<1>5. ASSUME NEW i \in 1 .. Len(fr), NEW m \in Vars, ft[i][m] # None
      PROVE  /\ newFt[i][m].of = ft[i][m].of
             /\ newFt[i][m].stale <=> ft[i][m].stale \/ (by = 1 /\ ft[i][m].of = <<h, n>>)
  BY <1>1, <1>5 DEF Marks
<1>6. ASSUME NEW i \in 1 .. Len(fr), NEW m \in Vars, ft[i][m] # None, ft[i][m].of # None
      PROVE  \E j \in 1 .. i, r \in Vars : Traced(newFr, newFt, i, m, j, r)
  <2>1. PICK j \in 1 .. i, r \in Vars : Traced(fr, ft, i, m, j, r)
    BY <1>6 DEF Views
  <2>2. j \in 1 .. Len(fr)
    BY <1>1
  <2>3. /\ ft[i][m].of = <<j, r>> /\ r # m /\ ft[j][r] # None
        /\ fr[i].dep[m].root = r /\ fr[i].dep[m].born <= fr[j].epoch[r]
        /\ ft[i][m].stale <=> fr[j].epoch[r] > fr[i].dep[m].born
        /\ ~ft[i][m].stale => ft[j][r].of = None
    BY <2>1 DEF Traced
  <2>4. fr[i].dep[m] # None /\ fr[i].dep[m] \in Entry \cup {None}
    BY <1>1, <1>6, FrameIs DEF Views
  <2>5. fr[i].dep[m].born \in Nat /\ fr[j].epoch[r] \in Nat
    BY <1>1, <2>2, <2>4, FrameIs DEF Entry
  <2>6. /\ newFr[i].dep[m] = fr[i].dep[m] /\ newFt[j][r] # None
        /\ newFt[i][m].of = <<j, r>> /\ newFt[j][r].of = ft[j][r].of
    BY <1>2, <1>3, <1>5, <1>6, <2>2, <2>3
  <2>7. CASE by = 1 /\ j = h /\ r = n
    <3>1. newFr[j].epoch[r] = fr[j].epoch[r] + 1
      BY <2>7 DEF EpochGrown
    <3>2. newFt[i][m].stale
      BY <1>5, <1>6, <2>3, <2>7
    <3>3. newFr[j].epoch[r] > fr[i].dep[m].born /\ fr[i].dep[m].born <= newFr[j].epoch[r]
      BY <2>3, <2>5, <3>1
    <3>4. Traced(newFr, newFt, i, m, j, r)
      BY <2>3, <2>6, <3>2, <3>3 DEF Traced
    <3> QED BY <3>4
  <2>8. CASE ~(by = 1 /\ j = h /\ r = n)
    <3>1. newFr[j].epoch[r] = fr[j].epoch[r]
      <4>1. CASE j = h /\ r = n
        <5>1. newFr[j].epoch[r] = fr[j].epoch[r] + 0
          BY <2>8, <4>1 DEF EpochGrown
        <5> QED BY <2>5, <5>1
      <4>2. CASE ~(j = h /\ r = n)
        BY <2>2, <4>2 DEF EpochGrown
      <4> QED BY <4>1, <4>2
    <3>2. newFt[i][m].stale <=> ft[i][m].stale
      BY <1>5, <1>6, <2>3, <2>8
    <3>3. Traced(newFr, newFt, i, m, j, r)
      BY <2>3, <2>6, <3>1, <3>2 DEF Traced
    <3> QED BY <3>3
  <2> QED BY <2>7, <2>8
<1>7. ASSUME NEW i \in 1 .. Len(fr), NEW m \in Vars
      PROVE  /\ newFt[i][m] = None => newFr[i].dep[m] = None
             /\ newFt[i][m] # None /\ newFt[i][m].of = None =>
                  newFr[i].dep[m] = None /\ ~newFt[i][m].stale
             /\ newFt[i][m] # None /\ newFt[i][m].of # None => newFr[i].dep[m] # None
  <2>1. newFr[i].dep[m] = fr[i].dep[m]
    BY <1>2
  <2>2. CASE ft[i][m] = None
    BY <1>3, <2>1, <2>2 DEF Views
  <2>3. CASE ft[i][m] # None /\ ft[i][m].of = None
    <3>1. <<h, n>> # None
      BY ViewAssumption, <1>1
    <3>2. newFt[i][m] # None /\ newFt[i][m].of = None
      BY <1>3, <1>5, <2>3
    <3>3. fr[i].dep[m] = None /\ ~ft[i][m].stale
      BY <2>3 DEF Views
    <3>4. ft[i][m].of # <<h, n>>
      BY <2>3, <3>1
    <3>5. ~newFt[i][m].stale
      BY <1>5, <2>3, <3>3, <3>4
    <3> QED BY <2>1, <3>2, <3>3, <3>5
  <2>4. CASE ft[i][m] # None /\ ft[i][m].of # None
    BY <1>3, <1>5, <2>1, <2>4 DEF Views
  <2> QED BY <2>2, <2>3, <2>4
<1>8. Views(newFr, newFt)
  BY <1>1, <1>3, <1>5, <1>6, <1>7 DEF Views
<1> QED BY <1>4, <1>8

\* What the hook records of a call of a method of n, of block h, or of another
\* change, keeps the entries true; a view of a view of n is stale already.
LEMMA CallKeeps ==
  ASSUME NEW fr, NEW ft, ViewTables(fr, ft), Matched(fr, ft), Views(fr, ft),
         NEW h \in 1 .. Len(fr), NEW n \in Vars, ft[h][n] # None, NEW call, NEW places,
         \/ call = "bare" /\ places = {<<h, n>>}
         \/ places = {} /\ (call = "none" \/ ft[h][n].of # None),
         NEW newFt, newFt \in Seq(Shelf), Len(newFt) = Len(ft), Marks(newFt, ft, places)
  PROVE  LET new == RecordCall(fr, n, call)
         IN  ViewTables(new, newFt) /\ Matched(new, newFt) /\ Views(new, newFt)
<1>1. fr \in Seq(Block) /\ Len(fr) > 0 /\ Len(ft) = Len(fr)
  BY DEF ViewTables
<1>2. FrameOf(fr, n) = h
  BY NameIs
<1>3. PICK by \in {0, 1} : by = IF call = "bare" /\ HasDependents(fr, n) THEN 1 ELSE 0
  OBVIOUS
<1>4. PICK new : new = RecordCall(fr, n, call)
  OBVIOUS
<1>5. EpochGrown(new, fr, h, n, by)
  BY <1>1, <1>2, <1>3, <1>4, CallGrows
<1>6. ViewTables(new, newFt)
  BY <1>1, <1>5 DEF ViewTables, EpochGrown
<1>7. ASSUME NEW i \in 1 .. Len(ft), NEW m \in Vars, ft[i][m] # None, ft[i][m].of = <<h, n>>
      PROVE  HasDependents(fr, n) /\ (ft[h][n].of # None => ft[i][m].stale)
  <2>1. ft[i][m].of # None
    <3>1. <<h, n>> # None
      BY ViewAssumption
    <3> QED BY <1>7, <3>1
  <2>2. PICK j \in 1 .. i, r \in Vars : Traced(fr, ft, i, m, j, r)
    BY <1>1, <1>7, <2>1 DEF Views
  <2>3. j = h /\ r = n /\ fr[i].dep[m].root = n
    BY <1>7, <2>2 DEF Traced
  <2>4. fr[i].dep[m] # None
    BY <1>1, <1>7, <2>1 DEF Views
  <2>5. HasDependents(fr, n)
    <3>1. DOMAIN fr = 1 .. Len(fr) /\ i \in DOMAIN fr
      BY <1>1
    <3> QED BY <2>3, <2>4, <3>1 DEF HasDependents
  <2> QED BY <2>2, <2>3, <2>5 DEF Traced
<1>8. Marks(newFt, ft, IF by = 1 THEN {<<h, n>>} ELSE {})
  <2> SUFFICES ASSUME NEW i \in 1 .. Len(ft), NEW m \in Vars, ft[i][m] # None
               PROVE  newFt[i][m].stale <=> ft[i][m].stale \/ (by = 1 /\ ft[i][m].of = <<h, n>>)
    BY DEF Marks
  <2>1. newFt[i][m].stale <=> ft[i][m].stale \/ ft[i][m].of \in places
    BY DEF Marks
  <2>2. CASE ft[i][m].of # <<h, n>>
    BY <2>1, <2>2
  <2>3. CASE ft[i][m].of = <<h, n>>
    <3>1. HasDependents(fr, n) /\ (ft[h][n].of # None => ft[i][m].stale)
      BY <1>7, <2>3
    <3>2. CASE call = "bare" /\ places = {<<h, n>>}
      BY <1>3, <2>1, <2>3, <3>1, <3>2
    <3>3. CASE places = {} /\ call = "none"
      BY <1>3, <2>1, <3>3
    <3>4. CASE places = {} /\ ft[h][n].of # None
      BY <2>1, <3>1, <3>4
    <3> QED BY <3>2, <3>3, <3>4
  <2> QED BY <2>2, <2>3
<1>9. Matched(new, newFt) /\ Views(new, newFt)
  BY <1>1, <1>5, <1>6, <1>8, EpochKeeps
<1> QED BY <1>4, <1>6, <1>9

\* Only what n of block h shows has changed, it is now F.
FactSet(new, ft, h, n, F) ==
  /\ new \in Seq(Shelf) /\ Len(new) = Len(ft) /\ new[h][n] = F
  /\ \A i \in 1 .. Len(ft), m \in Vars : (i # h \/ m # n) => new[i][m] = ft[i][m]

LEMMA SetsFact ==
  ASSUME NEW ft \in Seq(Shelf), NEW h \in 1 .. Len(ft), NEW n \in Vars, NEW F \in Shown
  PROVE  FactSet([ft EXCEPT ![h][n] = F], ft, h, n, F)
<1>1. ft[h] \in Shelf
  OBVIOUS
<1> DEFINE y == [ft[h] EXCEPT ![n] = F]
           new == [ft EXCEPT ![h] = y]
<1>2. y \in Shelf /\ y[n] = F /\ \A m \in Vars : m # n => y[m] = ft[h][m]
  BY <1>1 DEF Shelf
<1>3. [ft EXCEPT ![h][n] = F] = new
  OBVIOUS
<1> HIDE DEF y
<1>4. /\ new \in Seq(Shelf) /\ Len(new) = Len(ft) /\ new[h] = y
      /\ \A j \in 1 .. Len(ft) : j # h => new[j] = ft[j]
  BY <1>2, ExceptSeq
<1> HIDE DEF new
<1>5. FactSet(new, ft, h, n, F)
  BY <1>2, <1>4 DEF FactSet
<1> QED BY <1>3, <1>5

\* A new entry and the truth it stands for: n shows r of block j.
Fresh(fr, ft, h, n, F, e) ==
  \E j \in 1 .. h, r \in Vars :
    /\ r # n /\ F.of = <<j, r>> /\ ~F.stale
    /\ e \in Entry /\ e.root = r /\ e.born = fr[j].epoch[r]
    /\ ft[j][r] # None /\ ft[j][r].of = None

LEMMA SettingKeeps ==
  ASSUME NEW fr, NEW ft, ViewTables(fr, ft), Views(fr, ft), NEW h \in 1 .. Len(fr), NEW n \in Vars,
         \A j \in 1 .. Len(fr) : j # h => ft[j][n] = None,
         \A i \in 1 .. Len(fr), m \in Vars :
           ft[i][m] # None /\ ft[i][m].of = <<h, n>> => ft[i][m].stale,
         NEW F \in Shown, NEW e,
         \/ /\ F.of = None /\ ~F.stale /\ e = None
            /\ h = Len(fr) \/ (ft[h][n] # None /\ ft[h][n].of = None)
         \/ h = Len(fr) /\ Fresh(fr, ft, h, n, F, e),
         NEW newFr, EntrySet(newFr, fr, n, e), NEW newFt, FactSet(newFt, ft, h, n, F)
  PROVE  Views(newFr, newFt)
<1>1. /\ Len(newFr) = Len(fr) /\ Len(ft) = Len(fr) /\ fr \in Seq(Block) /\ Len(fr) \in Nat
      /\ Len(fr) \in 1 .. Len(fr)
  BY DEF ViewTables, EntrySet
<1>2. F # None
  BY ViewAssumption DEF Shown
<1>3. \A i \in 1 .. Len(fr) : newFr[i].epoch = fr[i].epoch
  BY DEF EntrySet
<1>4. /\ newFt[h][n] = F
      /\ \A i \in 1 .. Len(fr), m \in Vars : (i # h \/ m # n) => newFt[i][m] = ft[i][m]
  BY <1>1 DEF FactSet
<1>5. ASSUME NEW i \in 1 .. Len(fr), NEW m \in Vars, i # h \/ m # n
      PROVE  newFr[i].dep[m] = fr[i].dep[m]
  <2>1. CASE i # Len(fr) \/ m # n
    BY <2>1 DEF EntrySet
  <2>2. CASE i = Len(fr) /\ m = n
    <3>1. newFr[i].dep[m] = e /\ e = None
      BY <1>5, <2>2 DEF EntrySet
    <3>2. fr[i].dep[m] = None
      BY <1>5, <2>2 DEF Views
    <3> QED BY <3>1, <3>2
  <2> QED BY <2>1, <2>2
<1>6. ASSUME NEW i \in 1 .. Len(fr), NEW m \in Vars, i # h \/ m # n,
             ft[i][m] # None, ft[i][m].of # None
      PROVE  \E j \in 1 .. i, r \in Vars : Traced(newFr, newFt, i, m, j, r)
  <2>1. PICK j \in 1 .. i, r \in Vars : Traced(fr, ft, i, m, j, r)
    BY <1>6 DEF Views
  <2>2. j \in 1 .. Len(fr)
    BY <1>1
  <2>3. /\ ft[i][m].of = <<j, r>> /\ r # m /\ ft[j][r] # None
        /\ fr[i].dep[m].root = r /\ fr[i].dep[m].born <= fr[j].epoch[r]
        /\ ft[i][m].stale <=> fr[j].epoch[r] > fr[i].dep[m].born
        /\ ~ft[i][m].stale => ft[j][r].of = None
    BY <2>1 DEF Traced
  <2>4. newFr[i].dep[m] = fr[i].dep[m] /\ newFt[i][m] = ft[i][m] /\ newFr[j].epoch = fr[j].epoch
    BY <1>3, <1>4, <1>5, <1>6, <2>2
  <2>5. newFt[j][r] # None /\ (~ft[i][m].stale => newFt[j][r].of = None)
    <3>1. CASE j = h /\ r = n
      BY <1>2, <1>4, <1>6, <2>3, <3>1
    <3>2. CASE ~(j = h /\ r = n)
      BY <1>4, <2>2, <2>3, <3>2
    <3> QED BY <3>1, <3>2
  <2>6. Traced(newFr, newFt, i, m, j, r)
    BY <2>3, <2>4, <2>5 DEF Traced
  <2> QED BY <2>6
<1>7. CASE /\ F.of = None /\ ~F.stale /\ e = None
           /\ h = Len(fr) \/ (ft[h][n] # None /\ ft[h][n].of = None)
  <2>1. newFr[h].dep[n] = None
    <3>1. CASE h = Len(fr)
      BY <1>7, <3>1 DEF EntrySet
    <3>2. CASE h # Len(fr) /\ ft[h][n] # None /\ ft[h][n].of = None
      <4>1. fr[h].dep[n] = None
        BY <3>2 DEF Views
      <4> QED BY <3>2, <4>1 DEF EntrySet
    <3> QED BY <1>7, <3>1, <3>2
  <2> QED BY <1>1, <1>2, <1>4, <1>5, <1>6, <1>7, <2>1 DEF Views
<1>8. CASE h = Len(fr) /\ Fresh(fr, ft, h, n, F, e)
  <2>1. PICK j \in 1 .. h, r \in Vars :
          /\ r # n /\ F.of = <<j, r>> /\ ~F.stale
          /\ e \in Entry /\ e.root = r /\ e.born = fr[j].epoch[r]
          /\ ft[j][r] # None /\ ft[j][r].of = None
    BY <1>8 DEF Fresh
  <2>2. newFr[h].dep[n] = e /\ e # None
    BY <1>8, <2>1, ViewAssumption DEF EntrySet, Entry
  <2>3. j \in 1 .. Len(fr) /\ newFr[j].epoch = fr[j].epoch /\ newFt[j][r] = ft[j][r]
    BY <1>1, <1>3, <1>4, <2>1
  <2>4. fr[j].epoch[r] \in Nat
    BY <1>1, <2>3, FrameIs
  <2>5. Traced(newFr, newFt, h, n, j, r)
    BY <1>4, <2>1, <2>2, <2>3, <2>4 DEF Traced
  <2>6. F.of # None
    <3>1. <<j, r>> # None
      BY ViewAssumption, <1>1
    <3> QED BY <2>1, <3>1
  <2>7. newFt[h][n] # None /\ newFt[h][n].of # None
    BY <1>2, <1>4, <2>6
  <2>8. ASSUME NEW i \in 1 .. Len(fr), NEW m \in Vars, i # h \/ m # n
        PROVE  /\ newFt[i][m] = None => newFr[i].dep[m] = None
               /\ newFt[i][m] # None /\ newFt[i][m].of = None =>
                    newFr[i].dep[m] = None /\ ~newFt[i][m].stale
               /\ newFt[i][m] # None /\ newFt[i][m].of # None => newFr[i].dep[m] # None
    <3>1. newFt[i][m] = ft[i][m] /\ newFr[i].dep[m] = fr[i].dep[m]
      BY <1>4, <1>5, <2>8
    <3> QED BY <3>1 DEF Views
  <2>9. ASSUME NEW i \in 1 .. Len(fr), NEW m \in Vars, newFt[i][m] # None, newFt[i][m].of # None
        PROVE  \E j1 \in 1 .. i, r1 \in Vars : Traced(newFr, newFt, i, m, j1, r1)
    <3>1. CASE i = h /\ m = n
      BY <2>5, <3>1
    <3>2. CASE i # h \/ m # n
      BY <1>4, <1>6, <2>9, <3>2
    <3> QED BY <3>1, <3>2
  <2> QED BY <1>1, <2>2, <2>7, <2>8, <2>9 DEF Views
<1> QED BY <1>7, <1>8

\* What the hook says of a use depends on the entry and on the epoch and
\* the block of its root alone.
LEMMA ReportsSame ==
  ASSUME NEW fr \in Seq(Block), NEW new \in Seq(Block), Len(new) = Len(fr), NEW m \in Vars,
         \A j \in 1 .. Len(fr) : new[j].dep[m] = fr[j].dep[m] /\ new[j].epoch = fr[j].epoch,
         Len(fr) > 0,
         Dependent(fr, m) => \A j \in 1 .. Len(fr) :
           EntryOf(fr, m).root \in new[j].declared <=> EntryOf(fr, m).root \in fr[j].declared
  PROVE  Reports(new, m) <=> Reports(fr, m)
<1>1. DOMAIN fr = 1 .. Len(fr) /\ DOMAIN new = 1 .. Len(fr)
  OBVIOUS
<1>2. {i \in DOMAIN new : new[i].dep[m] # None} = {i \in DOMAIN fr : fr[i].dep[m] # None}
  BY <1>1
<1>3. Dependent(new, m) <=> Dependent(fr, m)
  BY <1>1 DEF Dependent
<1>4. ASSUME Dependent(fr, m) PROVE EntryOf(new, m) = EntryOf(fr, m)
  <2> DEFINE S == {i \in DOMAIN fr : fr[i].dep[m] # None}
  <2>1. S \subseteq 1 .. Len(fr) /\ S # {} /\ Len(fr) \in Nat
    BY <1>1, <1>4 DEF Dependent
  <2>2. EntryOf(new, m) = new[Max(S)].dep[m] /\ EntryOf(fr, m) = fr[Max(S)].dep[m]
    BY <1>2 DEF EntryOf
  <2> HIDE DEF S
  <2>3. Max(S) \in 1 .. Len(fr)
    BY <2>1, LastPlace
  <2> QED BY <2>2, <2>3
<1>5. ASSUME Dependent(fr, m) PROVE EpochOf(new, EntryOf(fr, m).root) = EpochOf(fr, EntryOf(fr, m).root)
  <2>1. PICK r : r = EntryOf(fr, m).root
    OBVIOUS
  <2>2. {i \in DOMAIN new : r \in new[i].declared} = {i \in DOMAIN fr : r \in fr[i].declared}
    BY <1>1, <1>5, <2>1
  <2>3. FrameOf(new, r) = FrameOf(fr, r)
    BY <2>2 DEF FrameOf
  <2>4. FrameOf(fr, r) \in 1 .. Len(fr)
    BY FrameOfType
  <2> QED BY <2>1, <2>3, <2>4 DEF EpochOf
<1> QED BY <1>3, <1>4, <1>5 DEF Reports

-----------------------------------------------------------------------------
(* The truth, by names.                                                    *)

LEMMA HomeType ==
  ASSUME facts \in Seq(Shelf), NEW n \in Known
  PROVE  /\ n \in Vars /\ Home(n) \in 1 .. Len(facts) /\ facts[Home(n)][n] # None
         /\ Fact(n) = facts[Home(n)][n] /\ Fact(n) \in Shown
         /\ Fact(n).stale \in BOOLEAN /\ Fact(n).of \in (Nat \X Vars) \cup {None}
<1> DEFINE S == {i \in DOMAIN facts : facts[i][n] # None}
<1>1. Len(facts) \in Nat /\ DOMAIN facts = 1 .. Len(facts)
  OBVIOUS
<1>2. S \subseteq 1 .. Len(facts) /\ S # {} /\ n \in Vars
  BY <1>1 DEF Known
<1>3. Home(n) = Max(S)
  BY DEF Home
<1>4. \A i \in S : i \in 1 .. Len(facts) /\ facts[i][n] # None
  BY <1>1
<1> HIDE DEF S
<1>5. Max(S) \in S
  BY <1>1, <1>2, LastPlace
<1>6. Home(n) \in 1 .. Len(facts) /\ facts[Home(n)][n] # None
  BY <1>3, <1>4, <1>5
<1> QED BY <1>2, <1>6, ShelfIs DEF Fact

LEMMA HomeIs ==
  ASSUME facts \in Seq(Shelf), Once(facts), NEW i \in 1 .. Len(facts), NEW n \in Vars,
         facts[i][n] # None
  PROVE  n \in Known /\ Home(n) = i
<1>1. DOMAIN facts = 1 .. Len(facts)
  OBVIOUS
<1>2. n \in Known
  BY <1>1 DEF Known
<1>3. Home(n) \in 1 .. Len(facts) /\ facts[Home(n)][n] # None
  BY <1>2, HomeType
<1> QED BY <1>2, <1>3 DEF Once

LEMMA ShowsType ==
  ASSUME facts \in Seq(Shelf), NEW source \in Known \cup {None}, NEW mark
  PROVE  Shows(source, mark) \in Shown
<1>1. Plain \in Shown
  BY DEF Plain, Shown
<1>2. CASE source = None
  BY <1>1, <1>2 DEF Shows
<1>3. CASE source \in Known
  <2>1. Home(source) \in 1 .. Len(facts) /\ source \in Vars /\ Fact(source) \in Shown
    BY <1>3, HomeType
  <2>2. Home(source) \in Nat
    BY <2>1
  <2>3. [of |-> <<Home(source), source>>, stale |-> FALSE] \in Shown
    BY <2>1, <2>2 DEF Shown
  <2> QED BY <1>1, <2>1, <2>3 DEF Shows, Place
<1> QED BY <1>2, <1>3

LEMMA SpoiltMarks ==
  ASSUME NEW ft \in Seq(Shelf), NEW h, NEW n
  PROVE  /\ Spoilt(ft, <<h, n>>) \in Seq(Shelf) /\ Len(Spoilt(ft, <<h, n>>)) = Len(ft)
         /\ Marks(Spoilt(ft, <<h, n>>), ft, {<<h, n>>})
<1> DEFINE Cell(i, m) == IF ft[i][m] # None /\ ft[i][m].of = <<h, n>>
                         THEN [ft[i][m] EXCEPT !.stale = TRUE] ELSE ft[i][m]
           new == [i \in 1 .. Len(ft) |-> [m \in Vars |-> Cell(i, m)]]
<1>1. DOMAIN ft = 1 .. Len(ft) /\ Len(ft) \in Nat
  OBVIOUS
<1>2. Spoilt(ft, <<h, n>>) = new
  BY <1>1 DEF Spoilt
<1>3. ASSUME NEW i \in 1 .. Len(ft), NEW m \in Vars
      PROVE  /\ Cell(i, m) \in Shown \cup {None}
             /\ Cell(i, m) # None <=> ft[i][m] # None
             /\ ft[i][m] # None => /\ Cell(i, m).of = ft[i][m].of
                                   /\ Cell(i, m).stale <=> ft[i][m].stale \/ ft[i][m].of = <<h, n>>
  <2>1. CASE ft[i][m] # None /\ ft[i][m].of = <<h, n>>
    <3>1. PICK x \in Shown : x = ft[i][m]
      BY <2>1, ShelfIs
    <3>2. PICK y : y = [x EXCEPT !.stale = TRUE]
      OBVIOUS
    <3>3. y \in Shown
      BY <3>2 DEF Shown
    <3>4. y.of = x.of
      BY <3>2 DEF Shown
    <3>5. y.stale = TRUE
      BY <3>2 DEF Shown
    <3>6. Cell(i, m) = y
      BY <2>1, <3>1, <3>2
    <3>7. y # None
      BY <3>3, ViewAssumption DEF Shown
    <3> HIDE DEF Cell
    <3> QED BY <2>1, <3>1, <3>3, <3>4, <3>5, <3>6, <3>7
  <2>2. CASE ft[i][m] # None /\ ft[i][m].of # <<h, n>>
    <3>1. Cell(i, m) = ft[i][m] /\ ft[i][m] \in Shown
      BY <2>2, ShelfIs
    <3> HIDE DEF Cell
    <3> QED BY <2>2, <3>1
  <2>3. CASE ft[i][m] = None
    BY <2>3
  <2> QED BY <2>1, <2>2, <2>3
<1> HIDE DEF Cell
<1>4. \A i \in 1 .. Len(ft) : [m \in Vars |-> Cell(i, m)] \in Shelf
  BY <1>3 DEF Shelf
<1>5. new \in Seq(Shelf) /\ Len(new) = Len(ft)
  BY <1>1, <1>4
<1>6. \A i \in 1 .. Len(ft), m \in Vars : new[i][m] = Cell(i, m)
  OBVIOUS
<1> HIDE DEF new
<1>7. Marks(new, ft, {<<h, n>>})
  BY <1>3, <1>6 DEF Marks
<1> QED BY <1>2, <1>5, <1>7

\* The call on the right side, in the truth.
CalledPlaces(source, call) == IF call # "none" /\ Owns(source) THEN {Place(source)} ELSE {}

LEMMA SameMarks ==
  ASSUME NEW ft
  PROVE  Marks(ft, ft, {})
BY DEF Marks

LEMMA ChangedIs ==
  ASSUME facts \in Seq(Shelf), NEW n \in Known
  PROVE  /\ Changed(facts, n) \in Seq(Shelf) /\ Len(Changed(facts, n)) = Len(facts)
         /\ Marks(Changed(facts, n), facts, IF Owns(n) THEN {Place(n)} ELSE {})
<1>1. CASE Owns(n)
  BY <1>1, SpoiltMarks DEF Changed, Place
<1>2. CASE ~Owns(n)
  BY <1>2, SameMarks DEF Changed
<1> QED BY <1>1, <1>2

LEMMA CalledIs ==
  ASSUME facts \in Seq(Shelf), NEW source \in Known \cup {None}, NEW call, source = None => call = "none"
  PROVE  /\ Called(source, call) \in Seq(Shelf) /\ Len(Called(source, call)) = Len(facts)
         /\ Marks(Called(source, call), facts, CalledPlaces(source, call))
<1>1. CASE call = "none"
  BY <1>1, SameMarks DEF Called, CalledPlaces
<1>2. CASE call # "none"
  <2>1. source \in Known
    BY <1>2
  <2> QED BY <1>2, <2>1, ChangedIs DEF Called, CalledPlaces
<1> QED BY <1>1, <1>2

\* What n of block h shows set in the tables before and after a change.
LEMMA SettingMarks ==
  ASSUME NEW ft, NEW new, Len(new) = Len(ft), NEW places, Marks(new, ft, places),
         NEW h, NEW n, NEW F \in Shown, F.of \notin places,
         NEW ft2, FactSet(ft2, ft, h, n, F), NEW new2, FactSet(new2, new, h, n, F)
  PROVE  Marks(new2, ft2, places)
<1> SUFFICES ASSUME NEW i \in 1 .. Len(ft2), NEW m \in Vars
             PROVE  /\ new2[i][m] # None <=> ft2[i][m] # None
                    /\ ft2[i][m] # None =>
                         /\ new2[i][m].of = ft2[i][m].of
                         /\ new2[i][m].stale <=> ft2[i][m].stale \/ ft2[i][m].of \in places
  BY DEF Marks
<1>1. i \in 1 .. Len(ft) /\ i \in 1 .. Len(new)
  BY DEF FactSet
<1>2. CASE i = h /\ m = n
  <2>1. new2[i][m] = F /\ ft2[i][m] = F
    BY <1>2 DEF FactSet
  <2> QED BY <2>1
<1>3. CASE ~(i = h /\ m = n)
  <2>1. new2[i][m] = new[i][m] /\ ft2[i][m] = ft[i][m]
    BY <1>1, <1>3 DEF FactSet
  <2> QED BY <1>1, <2>1 DEF Marks
<1> QED BY <1>2, <1>3

-----------------------------------------------------------------------------
(* The operations of the hook.                                             *)

Made(fr, root) == [root |-> root, born |-> EpochOf(fr, root)]

LEMMA MadeIs ==
  ASSUME NEW fr \in Seq(Block), Len(fr) > 0, NEW root \in Vars
  PROVE  /\ Made(fr, root) \in Entry /\ Made(fr, root).root = root
         /\ Made(fr, root).born = EpochOf(fr, root)
BY EpochType DEF Made, Entry

\* strong are the marks that an operation takes notice of.
AtBirth == {"call", "variable"}
AtAssignment == {"call"}
Borrowed(fr, source, mark, strong) == source # None /\ (mark \in strong \/ Dependent(fr, source))

LEMMA BirthIs ==
  ASSUME NEW fr \in Seq(Block), Len(fr) > 0, NEW n \in Vars, NEW source \in Vars \cup {None},
         NEW mark \in {"none"} \cup AtBirth
  PROVE  IF Borrowed(fr, source, mark, AtBirth) /\ RootOf(fr, source) # n
         THEN EntrySet(RecordBirth(fr, n, source, mark), fr, n, Made(fr, RootOf(fr, source)))
         ELSE RecordBirth(fr, n, source, mark) = fr
<1>1. CASE Borrowed(fr, source, mark, AtBirth) /\ RootOf(fr, source) # n
  <2>1. PICK r : r = RootOf(fr, source)
    OBVIOUS
  <2>2. r \in Vars
    BY <1>1, <2>1, RootType DEF Borrowed
  <2>3. Made(fr, r) \in Entry
    BY <2>2, MadeIs
  <2>4. RecordBirth(fr, n, source, mark) = [fr EXCEPT ![Len(fr)].dep[n] = Made(fr, r)]
    BY <1>1, <2>1 DEF RecordBirth, Enters, Made, Borrowed, AtBirth
  <2>5. EntrySet([fr EXCEPT ![Len(fr)].dep[n] = Made(fr, r)], fr, n, Made(fr, r))
    BY <2>3, SetsEntry
  <2> QED BY <1>1, <2>1, <2>4, <2>5
<1>2. CASE ~(Borrowed(fr, source, mark, AtBirth) /\ RootOf(fr, source) # n)
  BY <1>2 DEF RecordBirth, Borrowed, AtBirth
<1> QED BY <1>1, <1>2

LEMMA PropagateIs ==
  ASSUME NEW fr \in Seq(Block), Len(fr) > 0, NEW n \in Vars, NEW source \in Vars \cup {None},
         NEW mark
  PROVE  IF Borrowed(fr, source, mark, AtAssignment) /\ RootOf(fr, source) # n
         THEN EntrySet(Propagate(fr, n, source, mark), fr, n, Made(fr, RootOf(fr, source)))
         ELSE EntrySet(Propagate(fr, n, source, mark), fr, n, None)
<1>1. CASE Borrowed(fr, source, mark, AtAssignment) /\ RootOf(fr, source) # n
  <2>1. PICK r : r = RootOf(fr, source)
    OBVIOUS
  <2>2. r \in Vars
    BY <1>1, <2>1, RootType DEF Borrowed
  <2>3. Made(fr, r) \in Entry
    BY <2>2, MadeIs
  <2>4. Propagate(fr, n, source, mark) = [fr EXCEPT ![Len(fr)].dep[n] = Made(fr, r)]
    BY <1>1, <2>1 DEF Propagate, Enters, Made, Borrowed, AtAssignment
  <2>5. EntrySet([fr EXCEPT ![Len(fr)].dep[n] = Made(fr, r)], fr, n, Made(fr, r))
    BY <2>3, SetsEntry
  <2> QED BY <1>1, <2>1, <2>4, <2>5
<1>2. CASE ~(Borrowed(fr, source, mark, AtAssignment) /\ RootOf(fr, source) # n)
  <2>1. Propagate(fr, n, source, mark) = [fr EXCEPT ![Len(fr)].dep[n] = None]
    BY <1>2 DEF Propagate, Borrowed, AtAssignment
  <2>2. EntrySet([fr EXCEPT ![Len(fr)].dep[n] = None], fr, n, None)
    BY SetsEntry
  <2> QED BY <1>2, <2>1, <2>2
<1> QED BY <1>1, <1>2

\* Declaring a name changes what the last block declares.
WithName(fr, n) == [fr EXCEPT ![Len(fr)].declared = @ \cup {n}]

LEMMA WithNameIs ==
  ASSUME NEW fr \in Seq(Block), Len(fr) > 0, NEW n \in Vars
  PROVE  /\ WithName(fr, n) \in Seq(Block) /\ Len(WithName(fr, n)) = Len(fr)
         /\ \A i \in 1 .. Len(fr) : /\ WithName(fr, n)[i].epoch = fr[i].epoch
                                   /\ WithName(fr, n)[i].dep = fr[i].dep
                                   /\ \A m : m \in WithName(fr, n)[i].declared <=>
                                          m \in fr[i].declared \/ (i = Len(fr) /\ m = n)
<1>1. PICK K : K = Len(fr)
  OBVIOUS
<1>2. K \in 1 .. Len(fr) /\ fr[K] \in Block
  BY <1>1
<1>3. PICK x : x = fr[K]
  OBVIOUS
<1> DEFINE d == x.declared \cup {n}
           y == [x EXCEPT !.declared = d]
           new == [fr EXCEPT ![K] = y]
<1>4. d \in SUBSET Vars
  BY <1>2, <1>3 DEF Block
<1>5. WithName(fr, n) = new
  BY <1>1, <1>3 DEF WithName
<1>6. \A m : m \in d <=> m \in x.declared \/ m = n
  OBVIOUS
<1> HIDE DEF d
<1>7. y \in Block
  BY <1>2, <1>3, <1>4 DEF Block
<1>8. y.declared = d
  BY <1>2, <1>3 DEF Block
<1>9. y.epoch = x.epoch
  BY <1>2, <1>3 DEF Block
<1>10. y.dep = x.dep
  BY <1>2, <1>3 DEF Block
<1> HIDE DEF y
<1>11. /\ new \in Seq(Block) /\ Len(new) = Len(fr) /\ new[K] = y
       /\ \A j \in 1 .. Len(fr) : j # K => new[j] = fr[j]
  BY <1>2, <1>7, ExceptSeq
<1> HIDE DEF new
<1>12. ASSUME NEW i \in 1 .. Len(fr)
       PROVE  /\ new[i].epoch = fr[i].epoch /\ new[i].dep = fr[i].dep
              /\ \A m : m \in new[i].declared <=> m \in fr[i].declared \/ (i = K /\ m = n)
  <2>1. CASE i = K
    BY <1>3, <1>6, <1>8, <1>9, <1>10, <1>11, <2>1
  <2>2. CASE i # K
    BY <1>11, <2>2
  <2> QED BY <2>1, <2>2
<1> QED BY <1>1, <1>5, <1>11, <1>12

-----------------------------------------------------------------------------
(* What a declaration or an assignment borrows.                            *)

\* F is what n shows once it got its value from source, declared in hs.
Shares(ft, hs, source, mark, strong, F) ==
  /\ ~F.stale
  /\ source = None => F.of = None
  /\ source # None => F.of = IF ft[hs][source].of # None THEN ft[hs][source].of
                             ELSE IF mark \in strong THEN <<hs, source>> ELSE None

Agrees(fr, ft, n) ==
  \A i \in 1 .. Len(fr), m \in Vars : m # n => (m \in fr[i].declared <=> ft[i][m] # None)

LEMMA BorrowIs ==
  ASSUME NEW fr, NEW ft, ViewTables(fr, ft), Once(ft), Views(fr, ft), NEW n \in Vars, Agrees(fr, ft, n),
         NEW source \in Vars \cup {None}, source # n, NEW mark, NEW strong,
         NEW hs \in 1 .. Len(fr), NEW F, Shares(ft, hs, source, mark, strong, F),
         source # None => ft[hs][source] # None /\ ~ft[hs][source].stale,
         source # None => \A j \in 1 .. Len(fr) : ft[hs][source].of # <<j, n>>
  PROVE  /\ Borrowed(fr, source, mark, strong) <=> F.of # None
         /\ F.of # None => /\ RootOf(fr, source) # n
                           /\ Fresh(fr, ft, Len(fr), n, F, Made(fr, RootOf(fr, source)))
<1>1. fr \in Seq(Block) /\ Len(fr) > 0 /\ Len(fr) \in Nat /\ Len(ft) = Len(fr)
  BY DEF ViewTables
<1>2. CASE source = None
  BY <1>2 DEF Borrowed, Shares
<1>3. CASE source # None
  <2>1. source \in Vars /\ ft[hs][source] # None /\ ~ft[hs][source].stale
    BY <1>3
  <2>2. Dependent(fr, source) <=> ft[hs][source].of # None
    BY <2>1, ViewIs
  <2>3. \A j \in 1 .. Len(fr) : <<j, source>> # None
    BY ViewAssumption, <1>1, <2>1
  <2>4. Borrowed(fr, source, mark, strong) <=> F.of # None
    BY <1>3, <2>2, <2>3 DEF Borrowed, Shares
  <2>5. ASSUME F.of # None
        PROVE  \E j \in 1 .. Len(fr), r \in Vars :
                 /\ r # n /\ F.of = <<j, r>> /\ RootOf(fr, source) = r
                 /\ ft[j][r] # None /\ ft[j][r].of = None
    <3>1. CASE ft[hs][source].of # None
      <4>1. PICK j \in 1 .. hs, r \in Vars : /\ ft[hs][source].of = <<j, r>> /\ RootOf(fr, source) = r
                                           /\ ft[j][r] # None /\ ft[j][r].of = None
        BY <2>1, <3>1, SourceIs
      <4>2. j \in 1 .. Len(fr)
        BY <1>1
      <4>3. r # n
        BY <1>3, <4>1, <4>2
      <4>4. F.of = <<j, r>>
        BY <1>3, <3>1, <4>1 DEF Shares
      <4> QED BY <4>1, <4>2, <4>3, <4>4
    <3>2. CASE ft[hs][source].of = None
      <4>1. F.of = <<hs, source>>
        BY <1>3, <2>5, <3>2 DEF Shares
      <4>2. RootOf(fr, source) = source
        BY <2>1, <3>2, SourceIs
      <4> QED BY <2>1, <3>2, <4>1, <4>2
    <3> QED BY <3>1, <3>2
  <2>6. ASSUME F.of # None
        PROVE  /\ RootOf(fr, source) # n
               /\ Fresh(fr, ft, Len(fr), n, F, Made(fr, RootOf(fr, source)))
    <3>1. PICK j \in 1 .. Len(fr), r \in Vars :
            /\ r # n /\ F.of = <<j, r>> /\ RootOf(fr, source) = r
            /\ ft[j][r] # None /\ ft[j][r].of = None
      BY <2>5, <2>6
    <3>2. r \in fr[j].declared /\ \A i \in 1 .. Len(fr) : r \in fr[i].declared => i = j
      BY <1>1, <3>1 DEF Agrees, Once
    <3>3. EpochOf(fr, r) = fr[j].epoch[r]
      BY <1>1, <3>2, FrameOfIs DEF EpochOf
    <3>4. /\ Made(fr, r) \in Entry /\ Made(fr, r).root = r /\ Made(fr, r).born = fr[j].epoch[r]
      BY <1>1, <3>3, MadeIs
    <3>5. ~F.stale
      BY DEF Shares
    <3>6. Fresh(fr, ft, Len(fr), n, F, Made(fr, r))
      BY <3>1, <3>4, <3>5 DEF Fresh
    <3> QED BY <3>1, <3>6
  <2> QED BY <2>4, <2>6
<1> QED BY <1>2, <1>3

-----------------------------------------------------------------------------
(* The inductive invariant: typed at every step, true of the names until a *)
(* limit is met.                                                           *)

EpochsLimited(fr) == \A i \in 1 .. Len(fr), n \in Vars : fr[i].epoch[n] <= MaxEpoch
BirthsLimited(fr) ==
  \A i \in 1 .. Len(fr), n \in Vars : fr[i].dep[n] # None => fr[i].dep[n].born <= MaxEpoch

Typed ==
  /\ ViewTables(frames, facts) /\ EpochsLimited(frames) /\ BirthsLimited(frames)
  /\ reported \in BOOLEAN /\ misused \in BOOLEAN /\ limits \subseteq Limits
Sound == Matched(frames, facts) /\ Views(frames, facts)

ViewInv ==
  /\ Typed
  /\ limits = {} => (reported <=> misused) /\ (Going => Sound)

LEMMA GrownLimited ==
  ASSUME NEW fr \in Seq(Block), NEW new, Grown(new, fr)
  PROVE  /\ EpochsLimited(new) => EpochsLimited(fr)
         /\ BirthsLimited(fr) => BirthsLimited(new)
<1>1. ASSUME EpochsLimited(new), NEW i \in 1 .. Len(fr), NEW n \in Vars
      PROVE  fr[i].epoch[n] <= MaxEpoch
  <2>1. fr[i].epoch[n] <= new[i].epoch[n] /\ i \in 1 .. Len(new) /\ new \in Seq(Block)
    BY DEF Grown
  <2>2. fr[i].epoch[n] \in Nat /\ new[i].epoch[n] \in Nat /\ new[i].epoch[n] <= MaxEpoch
    BY <1>1, <2>1, FrameIs DEF EpochsLimited
  <2> QED BY <2>1, <2>2, ViewAssumption
<1> QED BY <1>1 DEF EpochsLimited, BirthsLimited, Grown

LEMMA BoundedLimited ==
  ASSUME NEW fr \in Seq(Block), Bounded(fr)
  PROVE  EpochsLimited(fr)
<1>1. DOMAIN fr = 1 .. Len(fr)
  OBVIOUS
<1> QED BY <1>1 DEF Bounded, EpochsLimited

LEMMA EntryLimited ==
  ASSUME NEW fr \in Seq(Block), Len(fr) > 0, EpochsLimited(fr), BirthsLimited(fr), NEW n \in Vars,
         NEW e, NEW new, EntrySet(new, fr, n, e),
         e = None \/ \E root \in Vars : e = Made(fr, root)
  PROVE  EpochsLimited(new) /\ BirthsLimited(new)
<1>1. e # None => e.born <= MaxEpoch
  <2> SUFFICES ASSUME NEW root \in Vars, e = Made(fr, root) PROVE e.born <= MaxEpoch
    OBVIOUS
  <2>1. FrameOf(fr, root) \in 1 .. Len(fr)
    BY FrameOfType
  <2> QED BY <2>1, MadeIs DEF EpochsLimited, EpochOf
<1> QED BY <1>1 DEF EntrySet, EpochsLimited, BirthsLimited

LEMMA ViewStarts ==
  ASSUME ViewInit
  PROVE  ViewInv
<1>1. frames = <<EmptyFrame>> /\ facts = <<NoFacts>> /\ 0 <= MaxEpoch
  BY ViewAssumption DEF ViewInit
<1>2. /\ EmptyFrame \in Block /\ EmptyFrame.declared = {}
      /\ \A n \in Vars : EmptyFrame.epoch[n] = 0 /\ EmptyFrame.dep[n] = None
  BY DEF EmptyFrame, Block
<1>3. NoFacts \in Shelf /\ \A n \in Vars : NoFacts[n] = None
  BY DEF NoFacts, Shelf
<1> HIDE DEF EmptyFrame, NoFacts
<1>4. /\ frames \in Seq(Block) /\ facts \in Seq(Shelf) /\ Len(frames) = 1 /\ Len(facts) = 1
      /\ frames[1] = EmptyFrame /\ facts[1] = NoFacts
  BY <1>1, <1>2, <1>3
<1>5. ViewTables(frames, facts)
  BY <1>4 DEF ViewTables
<1>6. EpochsLimited(frames) /\ BirthsLimited(frames)
  BY <1>1, <1>2, <1>4 DEF EpochsLimited, BirthsLimited
<1>7. Matched(frames, facts)
  BY <1>2, <1>3, <1>4 DEF Matched, Once
<1>8. Views(frames, facts)
  BY <1>2, <1>3, <1>4 DEF Views
<1> QED BY <1>5, <1>6, <1>7, <1>8 DEF ViewInit, ViewInv, Typed, Sound

LEMMA EnterViewKeeps ==
  ASSUME ViewInv, EnterBlock
  PROVE  ViewInv'
<1>1. /\ ViewTables(frames, facts) /\ EpochsLimited(frames) /\ BirthsLimited(frames)
      /\ Going /\ (limits = {} => Matched(frames, facts) /\ Views(frames, facts))
  BY DEF ViewInv, Typed, EnterBlock, Sound
<1>2. PICK K \in Nat : K = Len(frames) /\ K = Len(facts) /\ K > 0
  BY <1>1 DEF ViewTables
<1>3. /\ EmptyFrame \in Block /\ EmptyFrame.declared = {}
      /\ \A n \in Vars : EmptyFrame.epoch[n] = 0 /\ EmptyFrame.dep[n] = None
  BY DEF EmptyFrame, Block
<1>4. NoFacts \in Shelf /\ \A n \in Vars : NoFacts[n] = None
  BY DEF NoFacts, Shelf
<1>5. frames' = Append(frames, EmptyFrame) /\ facts' = Append(facts, NoFacts)
  BY DEF EnterBlock
<1> HIDE DEF EmptyFrame, NoFacts
<1>6. /\ frames' \in Seq(Block) /\ Len(frames') = K + 1 /\ frames'[K + 1] = EmptyFrame
      /\ \A i \in 1 .. K : frames'[i] = frames[i]
  BY <1>1, <1>2, <1>3, <1>5, AppendProperties DEF ViewTables
<1>7. /\ facts' \in Seq(Shelf) /\ Len(facts') = K + 1 /\ facts'[K + 1] = NoFacts
      /\ \A i \in 1 .. K : facts'[i] = facts[i]
  BY <1>1, <1>2, <1>4, <1>5, AppendProperties DEF ViewTables
<1>8. ViewTables(frames', facts')
  BY <1>6, <1>7 DEF ViewTables
<1>9. \A i \in 1 .. K + 1 : i \in 1 .. K \/ i = K + 1
  OBVIOUS
<1>10. EpochsLimited(frames') /\ BirthsLimited(frames')
  <2>1. 0 <= MaxEpoch
    BY ViewAssumption
  <2> QED BY <1>1, <1>2, <1>3, <1>6, <1>9, <2>1 DEF EpochsLimited, BirthsLimited
<1>11. ASSUME limits = {} PROVE Matched(frames', facts')
  BY <1>1, <1>2, <1>3, <1>4, <1>6, <1>7, <1>9, <1>11 DEF Matched, Once
<1>12. ASSUME limits = {} PROVE Views(frames', facts')
  <2> SUFFICES ASSUME NEW i \in 1 .. K + 1, NEW n \in Vars
               PROVE  /\ facts'[i][n] = None => frames'[i].dep[n] = None
                      /\ facts'[i][n] # None /\ facts'[i][n].of = None =>
                           frames'[i].dep[n] = None /\ ~facts'[i][n].stale
                      /\ facts'[i][n] # None /\ facts'[i][n].of # None =>
                           /\ frames'[i].dep[n] # None
                           /\ \E j \in 1 .. i, r \in Vars : Traced(frames', facts', i, n, j, r)
    BY <1>6 DEF Views
  <2>1. CASE i = K + 1
    BY <1>3, <1>4, <1>6, <1>7, <2>1
  <2>2. CASE i \in 1 .. K
    <3>1. \A j \in 1 .. i : frames'[j] = frames[j] /\ facts'[j] = facts[j]
      BY <1>2, <1>6, <1>7, <2>2
    <3>2. \A j \in 1 .. i, r \in Vars :
            Traced(frames, facts, i, n, j, r) => Traced(frames', facts', i, n, j, r)
      BY <1>6, <1>7, <2>2, <3>1 DEF Traced
    <3> QED BY <1>1, <1>2, <1>6, <1>7, <1>12, <2>2, <3>2 DEF Views
  <2> QED BY <1>9, <2>1, <2>2
<1> QED BY <1>8, <1>10, <1>11, <1>12 DEF ViewInv, Typed, EnterBlock, Sound, Going

LEMMA ExitViewKeeps ==
  ASSUME ViewInv, ExitBlock
  PROVE  ViewInv'
<1>1. /\ ViewTables(frames, facts) /\ EpochsLimited(frames) /\ BirthsLimited(frames)
      /\ Going /\ (limits = {} => Matched(frames, facts) /\ Views(frames, facts))
  BY DEF ViewInv, Typed, ExitBlock, Sound
<1>2. PICK K \in Nat : K = Len(frames) /\ K = Len(facts) /\ K > 1
  BY <1>1 DEF ViewTables, ExitBlock, Top
<1>3. PICK L \in Nat : L = K - 1 /\ L > 0
  BY <1>2
<1>4. \A i \in 1 .. L : i \in 1 .. K /\ i # K
  BY <1>3
<1> DEFINE Cell(i, n) == IF facts[i][n] # None /\ facts[i][n].of # None /\ facts[i][n].of[1] = Top
                         THEN [facts[i][n] EXCEPT !.stale = TRUE] ELSE facts[i][n]
<1>5. frames' = SubSeq(frames, 1, L) /\ facts' = [i \in 1 .. L |-> [n \in Vars |-> Cell(i, n)]]
  BY <1>2, <1>3 DEF ExitBlock, Top
<1>6. ASSUME limits = {}, NEW i \in 1 .. L, NEW n \in Vars PROVE Cell(i, n) = facts[i][n]
  <2>1. ASSUME facts[i][n] # None, facts[i][n].of # None PROVE facts[i][n].of[1] # Top
    <3>1. PICK j \in 1 .. i, r \in Vars : Traced(frames, facts, i, n, j, r)
      BY <1>1, <1>2, <1>4, <1>6, <2>1 DEF Views
    <3>2. facts[i][n].of[1] = j /\ j # K
      BY <1>3, <3>1 DEF Traced
    <3> QED BY <1>2, <3>2 DEF Top
  <2> QED BY <2>1
<1>7. facts \in Seq(Shelf) /\ frames \in Seq(Block)
  BY <1>1 DEF ViewTables
<1>8. \A i \in 1 .. L, n \in Vars : Cell(i, n) \in Shown \cup {None}
  <2> SUFFICES ASSUME NEW i \in 1 .. L, NEW n \in Vars, facts[i][n] # None
               PROVE  Cell(i, n) \in Shown
    OBVIOUS
  <2>1. PICK x \in Shown : x = facts[i][n]
    BY <1>2, <1>4, <1>7, ShelfIs
  <2>2. [x EXCEPT !.stale = TRUE] \in Shown
    BY DEF Shown
  <2> QED BY <2>1, <2>2
<1> HIDE DEF Cell
<1>9. /\ facts' \in Seq(Shelf) /\ Len(facts') = L
      /\ limits = {} => \A i \in 1 .. L, n \in Vars : facts'[i][n] = facts[i][n]
  <2>1. \A i \in 1 .. L : [n \in Vars |-> Cell(i, n)] \in Shelf
    BY <1>8 DEF Shelf
  <2>2. limits = {} => \A i \in 1 .. L, n \in Vars : facts'[i][n] = facts[i][n]
    BY <1>5, <1>6
  <2> QED BY <1>5, <2>1, <2>2
<1>10. /\ frames' \in Seq(Block) /\ Len(frames') = L
       /\ \A i \in 1 .. L : frames'[i] = frames[i]
  <2>1. L \in Nat /\ L <= Len(frames)
    BY <1>2, <1>3
  <2>2. \A i \in 1 .. L : SubSeq(frames, 1, L)[i] = frames[i]
    BY <1>7, <2>1
  <2>3. SubSeq(frames, 1, L) \in Seq(Block) /\ Len(SubSeq(frames, 1, L)) = L
    BY <1>7, <2>1
  <2> QED BY <1>5, <2>2, <2>3
<1>11. ViewTables(frames', facts')
  BY <1>3, <1>9, <1>10 DEF ViewTables
<1>12. EpochsLimited(frames') /\ BirthsLimited(frames')
  BY <1>1, <1>2, <1>4, <1>10 DEF EpochsLimited, BirthsLimited
<1>13. ASSUME limits = {} PROVE Matched(frames', facts')
  BY <1>1, <1>2, <1>4, <1>9, <1>10, <1>13 DEF Matched, Once
<1>14. ASSUME limits = {} PROVE Views(frames', facts')
  <2> SUFFICES ASSUME NEW i \in 1 .. L, NEW n \in Vars
               PROVE  /\ facts'[i][n] = None => frames'[i].dep[n] = None
                      /\ facts'[i][n] # None /\ facts'[i][n].of = None =>
                           frames'[i].dep[n] = None /\ ~facts'[i][n].stale
                      /\ facts'[i][n] # None /\ facts'[i][n].of # None =>
                           /\ frames'[i].dep[n] # None
                           /\ \E j \in 1 .. i, r \in Vars : Traced(frames', facts', i, n, j, r)
    BY <1>10 DEF Views
  <2>1. i \in 1 .. K
    BY <1>4
  <2>2. \A j \in 1 .. i : j \in 1 .. L
    BY <1>3
  <2>3. \A j \in 1 .. i, r \in Vars :
          Traced(frames, facts, i, n, j, r) => Traced(frames', facts', i, n, j, r)
    BY <1>9, <1>10, <1>14, <2>2 DEF Traced
  <2> QED BY <1>1, <1>2, <1>9, <1>10, <1>14, <2>1, <2>3 DEF Views
<1> QED BY <1>11, <1>12, <1>13, <1>14 DEF ViewInv, Typed, ExitBlock, Sound, Going

-----------------------------------------------------------------------------
(* What the steps make of true tables.                                     *)

LEMMA UseIs ==
  ASSUME NEW source \in Known \cup {None}, None \notin Vars
  PROVE  StaleUse({source}) <=> source # None /\ Fact(source).stale
BY DEF StaleUse

\* What a name shows now is shared by the variable made or given its value.
LEMMA ShowsShares ==
  ASSUME facts \in Seq(Shelf), NEW source \in Known \cup {None}, NEW mark, NEW strong,
         source # None /\ Owns(source) => (mark # "none" <=> mark \in strong),
         NEW hs, source # None => hs = Home(source),
         source # None => ~Fact(source).stale
  PROVE  Shares(facts, hs, source, mark, strong, Shows(source, mark))
<1>1. Plain.of = None /\ ~Plain.stale
  BY DEF Plain
<1>2. CASE source = None
  BY <1>1, <1>2 DEF Shows, Shares
<1>3. CASE source # None
  <2>1. source \in Known
    BY <1>3
  <2>2. Fact(source) = facts[hs][source] /\ (Owns(source) <=> facts[hs][source].of = None)
    BY <1>3, <2>1, HomeType DEF Owns
  <2>3. ~Shows(source, mark).stale
    BY <1>1, <1>3 DEF Shows
  <2>4. Shows(source, mark).of = IF facts[hs][source].of # None THEN facts[hs][source].of
                                 ELSE IF mark \in strong THEN <<hs, source>> ELSE None
    BY <1>1, <1>3, <2>2 DEF Shows, Place
  <2> QED BY <1>3, <2>3, <2>4 DEF Shares
<1> QED BY <1>2, <1>3

\* No name shows a variable that is not there.
LEMMA ShownIsThere ==
  ASSUME NEW fr, NEW ft, ViewTables(fr, ft), Views(fr, ft),
         NEW i \in 1 .. Len(fr), NEW m \in Vars, ft[i][m] # None,
         NEW j \in 1 .. Len(fr), NEW n \in Vars, ft[i][m].of = <<j, n>>
  PROVE  ft[j][n] # None
<1>1. ft[i][m].of # None
  <2>1. <<j, n>> # None
    BY ViewAssumption
  <2> QED BY <2>1
<1>2. PICK k \in 1 .. i, r \in Vars : Traced(fr, ft, i, m, k, r)
  BY <1>1 DEF Views
<1> QED BY <1>2 DEF Traced

\* A new name and what it shows, by RecordBirth.
LEMMA BornSoundly ==
  ASSUME ViewTables(frames, facts), Matched(frames, facts), Views(frames, facts),
         NEW n \in Vars, \A i \in 1 .. Len(frames) : facts[i][n] = None,
         NEW source \in Known \cup {None}, source # n, source # None => ~Fact(source).stale,
         NEW mark \in {"none"} \cup AtBirth,
         NEW ft, FactSet(ft, facts, Len(frames), n, Shows(source, mark))
  PROVE  LET made == RecordBirth(WithName(frames, n), n, source, mark)
         IN  ViewTables(made, ft) /\ Matched(made, ft) /\ Views(made, ft)
<1>1. /\ frames \in Seq(Block) /\ facts \in Seq(Shelf) /\ Len(frames) = Len(facts)
      /\ Len(frames) > 0 /\ Once(facts)
  BY DEF ViewTables, Matched
<1>2. PICK K \in Nat : K = Len(frames)
  BY <1>1
<1>3. K \in 1 .. K /\ K = Len(facts)
  BY <1>1, <1>2
<1>4. PICK fr : fr = WithName(frames, n)
  OBVIOUS
<1>5. PICK made : made = RecordBirth(fr, n, source, mark)
  OBVIOUS
<1>6. PICK F : F = Shows(source, mark)
  OBVIOUS
<1>7. /\ fr \in Seq(Block) /\ Len(fr) = K
      /\ \A i \in 1 .. K : /\ fr[i].epoch = frames[i].epoch /\ fr[i].dep = frames[i].dep
                          /\ \A m : m \in fr[i].declared <=> m \in frames[i].declared \/ (i = K /\ m = n)
  BY <1>1, <1>2, <1>4, WithNameIs
<1>8. F \in Shown /\ F # None /\ source \in Vars \cup {None} /\ None \notin Vars
  BY <1>1, <1>6, ShowsType, ViewAssumption DEF Known, Shown
<1>9. FactSet(ft, facts, K, n, F)
  BY <1>2, <1>6
<1>10. IF Borrowed(fr, source, mark, AtBirth) /\ RootOf(fr, source) # n
       THEN EntrySet(made, fr, n, Made(fr, RootOf(fr, source)))
       ELSE made = fr
  BY <1>1, <1>2, <1>5, <1>7, <1>8, BirthIs
<1>11. PICK hs \in 1 .. K : source # None => hs = Home(source)
  <2>1. source # None => Home(source) \in 1 .. K
    BY <1>1, <1>3, HomeType
  <2> QED BY <1>3, <2>1
<1>12. source # None => /\ facts[hs][source] # None /\ Fact(source) = facts[hs][source]
                        /\ source \in Vars /\ ~facts[hs][source].stale
  BY <1>1, <1>11, HomeType
<1>13. ViewTables(fr, facts)
  BY <1>1, <1>2, <1>3, <1>7 DEF ViewTables
<1>14. Views(fr, facts)
  <2>1. \A i \in 1 .. K, m \in Vars, j \in 1 .. K, r \in Vars :
          Traced(frames, facts, i, m, j, r) => Traced(fr, facts, i, m, j, r)
    BY <1>7 DEF Traced
  <2>2. \A i \in 1 .. K : \A j \in 1 .. i : j \in 1 .. K
    OBVIOUS
  <2> QED BY <1>2, <1>7, <2>1, <2>2 DEF Views
<1>15. Agrees(fr, facts, n)
  BY <1>2, <1>7 DEF Agrees, Matched
<1>16. ASSUME NEW i \in 1 .. K, NEW m \in Vars, facts[i][m] # None
       PROVE  \A j \in 1 .. K : facts[i][m].of # <<j, n>>
  BY <1>2, <1>16, ShownIsThere
<1>17. Shares(facts, hs, source, mark, AtBirth, F)
  <2>1. mark # "none" <=> mark \in AtBirth
    BY DEF AtBirth
  <2> QED BY <1>1, <1>6, <1>11, <1>12, <2>1, ShowsShares
<1>18. /\ Borrowed(fr, source, mark, AtBirth) <=> F.of # None
       /\ F.of # None => /\ RootOf(fr, source) # n
                         /\ Fresh(fr, facts, K, n, F, Made(fr, RootOf(fr, source)))
  <2>1. /\ hs \in 1 .. Len(fr)
        /\ source # None => \A j \in 1 .. Len(fr) : facts[hs][source].of # <<j, n>>
        /\ source # None => facts[hs][source] # None /\ ~facts[hs][source].stale
    BY <1>7, <1>12, <1>16
  <2>2. Len(fr) = K /\ Once(facts) /\ source \in Vars \cup {None} /\ source # n
    BY <1>1, <1>7, <1>8
  <2>3. /\ Borrowed(fr, source, mark, AtBirth) <=> F.of # None
        /\ F.of # None => /\ RootOf(fr, source) # n
                          /\ Fresh(fr, facts, Len(fr), n, F, Made(fr, RootOf(fr, source)))
    BY <1>13, <1>14, <1>15, <1>17, <2>1, <2>2, BorrowIs, ZenonT(20)
  <2> QED BY <2>2, <2>3
<1>19. PICK e : /\ EntrySet(made, fr, n, e)
                /\ \/ F.of = None /\ ~F.stale /\ e = None
                   \/ Fresh(fr, facts, K, n, F, e)
  <2>1. CASE F.of = None
    <3>1. made = fr
      BY <1>10, <1>18, <2>1
    <3>2. fr[K].dep[n] = None
      BY <1>2, <1>3, <1>7, <1>14 DEF Views
    <3>3. EntrySet(made, fr, n, None)
      BY <1>7, <3>1, <3>2 DEF EntrySet
    <3>4. ~F.stale
      BY <1>17 DEF Shares
    <3> QED BY <2>1, <3>3, <3>4
  <2>2. CASE F.of # None
    BY <1>10, <1>18, <2>2
  <2> QED BY <2>1, <2>2
<1>20. Views(made, ft)
  <2>1. \/ /\ F.of = None /\ ~F.stale /\ e = None
           /\ K = Len(fr) \/ (facts[K][n] # None /\ facts[K][n].of = None)
        \/ K = Len(fr) /\ Fresh(fr, facts, K, n, F, e)
    BY <1>7, <1>19
  <2>2. \A i \in 1 .. K, m \in Vars : facts[i][m] # None => facts[i][m].of # <<K, n>>
    BY <1>3, <1>16
  <2>3. /\ \A j \in 1 .. Len(fr) : j # K => facts[j][n] = None
        /\ \A i \in 1 .. Len(fr), m \in Vars :
             facts[i][m] # None /\ facts[i][m].of = <<K, n>> => facts[i][m].stale
    BY <1>2, <1>7, <2>2
  <2>4. K \in 1 .. Len(fr)
    BY <1>3, <1>7
  <2> QED BY <1>8, <1>9, <1>13, <1>14, <1>19, <2>1, <2>3, <2>4, SettingKeeps
<1>21. /\ made \in Seq(Block) /\ Len(made) = K
       /\ \A i \in 1 .. K : made[i].declared = fr[i].declared
  BY <1>7, <1>19 DEF EntrySet
<1>22. /\ Len(ft) = K /\ ft \in Seq(Shelf) /\ ft[K][n] = F
       /\ \A i \in 1 .. K, m \in Vars : (i # K \/ m # n) => ft[i][m] = facts[i][m]
  BY <1>3, <1>9 DEF FactSet
<1>23. Matched(made, ft)
  <2>1. \A i \in 1 .. K : ft[i][n] # None <=> i = K
    BY <1>2, <1>3, <1>8, <1>22
  <2>2. \A i \in 1 .. K, m \in Vars : m # n => ft[i][m] = facts[i][m]
    BY <1>22
  <2>3. \A i \in 1 .. K : n \in made[i].declared <=> i = K
    BY <1>2, <1>7, <1>21 DEF Matched
  <2>4. \A i \in 1 .. K, m \in Vars : m # n => (m \in made[i].declared <=> facts[i][m] # None)
    BY <1>2, <1>7, <1>21 DEF Matched
  <2>5. Once(ft)
    BY <1>1, <1>3, <1>22, <2>1, <2>2 DEF Once
  <2> QED BY <1>21, <2>1, <2>2, <2>3, <2>4, <2>5 DEF Matched
<1> QED BY <1>1, <1>2, <1>4, <1>5, <1>20, <1>21, <1>22, <1>23 DEF ViewTables

\* What an assignment gives n, of block h, by propagateBorrowOnAssign; fr and
\* ft are the tables after the change of n.
LEMMA AssignedSoundly ==
  ASSUME facts \in Seq(Shelf), NEW fr, NEW ft, ViewTables(fr, ft), Matched(fr, ft), Views(fr, ft),
         Len(fr) = Len(facts), NEW h \in 1 .. Len(fr), NEW n \in Vars, facts[h][n] # None,
         Marks(ft, facts, {<<h, n>>}),
         NEW source \in Known \cup {None}, source # n,
         source # None => ~Fact(source).stale /\ Fact(source).of # <<h, n>>,
         NEW mark \in {"none"} \cup AtBirth, source # None /\ Owns(source) => mark # "variable",
         NEW F, F = Shows(source, mark), h # Len(fr) => facts[h][n].of = None /\ F.of = None,
         NEW new, FactSet(new, ft, h, n, F)
  PROVE  LET made == Propagate(fr, n, source, mark)
         IN  ViewTables(made, new) /\ Matched(made, new) /\ Views(made, new) /\ ~Reports(made, n)
<1>1. /\ fr \in Seq(Block) /\ ft \in Seq(Shelf) /\ Len(ft) = Len(facts) /\ Len(fr) > 0 /\ Once(ft)
  BY DEF ViewTables, Matched
<1>2. PICK K \in Nat : K = Len(fr)
  BY <1>1
<1>3. K \in 1 .. K /\ K = Len(facts) /\ K = Len(ft) /\ h \in 1 .. K
  BY <1>1, <1>2
<1>4. PICK made : made = Propagate(fr, n, source, mark)
  OBVIOUS
<1>5. F \in Shown /\ F # None /\ source \in Vars \cup {None} /\ None \notin Vars
  BY ShowsType, ViewAssumption DEF Known, Shown
<1>6. IF Borrowed(fr, source, mark, AtAssignment) /\ RootOf(fr, source) # n
      THEN EntrySet(made, fr, n, Made(fr, RootOf(fr, source)))
      ELSE EntrySet(made, fr, n, None)
  BY <1>1, <1>4, <1>5, PropagateIs
<1>7. PICK hs \in 1 .. K : source # None => hs = Home(source)
  <2>1. source # None => Home(source) \in 1 .. K
    BY <1>3, HomeType
  <2> QED BY <1>3, <2>1
<1>8. source # None => /\ facts[hs][source] # None /\ Fact(source) = facts[hs][source]
                       /\ source \in Vars /\ ~facts[hs][source].stale
                       /\ facts[hs][source].of # <<h, n>>
  BY <1>7, HomeType
<1>9. source # None => /\ ft[hs][source] # None /\ ft[hs][source].of = facts[hs][source].of
                       /\ ~ft[hs][source].stale
  BY <1>3, <1>8 DEF Marks
<1>10. ft[h][n] # None /\ ft[h][n].of = facts[h][n].of /\ \A j \in 1 .. K : ft[j][n] # None => j = h
  BY <1>1, <1>3 DEF Marks, Once
<1>11. Shares(ft, hs, source, mark, AtAssignment, F)
  <2>1. source # None /\ Owns(source) => (mark # "none" <=> mark \in AtAssignment)
    BY DEF AtAssignment, AtBirth
  <2>2. Shares(facts, hs, source, mark, AtAssignment, F)
    BY <1>7, <1>8, <2>1, ShowsShares
  <2> QED BY <1>9, <2>2 DEF Shares
<1>12. source # None => \A j \in 1 .. Len(fr) : ft[hs][source].of # <<j, n>>
  <2> SUFFICES ASSUME source # None, NEW j \in 1 .. Len(fr), ft[hs][source].of = <<j, n>>
               PROVE  FALSE
    OBVIOUS
  <2>1. ft[j][n] # None
    BY <1>2, <1>5, <1>9, ShownIsThere
  <2> QED BY <1>2, <1>8, <1>9, <1>10, <2>1
<1>13. /\ Borrowed(fr, source, mark, AtAssignment) <=> F.of # None
       /\ F.of # None => /\ RootOf(fr, source) # n
                         /\ Fresh(fr, ft, K, n, F, Made(fr, RootOf(fr, source)))
  <2>1. Agrees(fr, ft, n)
    BY DEF Agrees, Matched
  <2>2. hs \in 1 .. Len(fr) /\ Once(ft)
    BY <1>1, <1>2
  <2>3. source # None => ft[hs][source] # None /\ ~ft[hs][source].stale
    BY <1>9
  <2>4. source \in Vars \cup {None}
    BY <1>5
  <2>5. /\ Borrowed(fr, source, mark, AtAssignment) <=> F.of # None
        /\ F.of # None => /\ RootOf(fr, source) # n
                          /\ Fresh(fr, ft, Len(fr), n, F, Made(fr, RootOf(fr, source)))
    BY <1>11, <1>12, <2>1, <2>2, <2>3, <2>4, BorrowIs, SMTT(60)
  <2> QED BY <1>2, <2>5
<1>14. PICK e : /\ EntrySet(made, fr, n, e)
                /\ \/ F.of = None /\ ~F.stale /\ e = None
                   \/ F.of # None /\ Fresh(fr, ft, K, n, F, e)
  <2>1. ~F.stale
    BY <1>11 DEF Shares
  <2> QED BY <1>6, <1>13, <2>1
<1>15. Views(made, new)
  <2>1. \/ /\ F.of = None /\ ~F.stale /\ e = None
           /\ h = Len(fr) \/ (ft[h][n] # None /\ ft[h][n].of = None)
        \/ h = Len(fr) /\ Fresh(fr, ft, h, n, F, e)
    BY <1>2, <1>10, <1>14
  <2>2. \A j \in 1 .. Len(fr) : j # h => ft[j][n] = None
    BY <1>2, <1>10
  <2>3. \A i \in 1 .. Len(fr), m \in Vars :
          ft[i][m] # None /\ ft[i][m].of = <<h, n>> => ft[i][m].stale
    BY <1>2, <1>3 DEF Marks
  <2> QED BY <1>5, <1>14, <2>1, <2>2, <2>3, SettingKeeps
<1>16. /\ made \in Seq(Block) /\ Len(made) = K
       /\ \A i \in 1 .. K : made[i].declared = fr[i].declared
  BY <1>2, <1>14 DEF EntrySet
<1>17. /\ new \in Seq(Shelf) /\ Len(new) = K /\ new[h][n] = F
       /\ \A i \in 1 .. K, m \in Vars : (i # h \/ m # n) => new[i][m] = ft[i][m]
  BY <1>3 DEF FactSet
<1>18. Matched(made, new)
  <2>1. \A i \in 1 .. K, m \in Vars : new[i][m] # None <=> ft[i][m] # None
    BY <1>5, <1>10, <1>17
  <2>2. Once(new)
    BY <1>1, <1>3, <1>17, <2>1 DEF Once
  <2>3. \A i \in 1 .. K, m \in Vars : m \in fr[i].declared <=> ft[i][m] # None
    BY <1>2 DEF Matched
  <2> QED BY <1>16, <2>1, <2>2, <2>3 DEF Matched
<1>19. ViewTables(made, new)
  BY <1>1, <1>2, <1>16, <1>17 DEF ViewTables
<1>20. Reports(made, n) <=> F.stale
  <2>1. h \in 1 .. Len(made) /\ new[h][n] # None
    BY <1>3, <1>5, <1>16, <1>17
  <2> QED BY <1>15, <1>17, <1>18, <1>19, <2>1, ReportsIs
<1> QED BY <1>4, <1>11, <1>15, <1>18, <1>19, <1>20 DEF Shares

\* The call on the right side, the last the walk comes to: what a change marks
\* in the truth, the hook records, and source can be used.
LEMMA RightSideKeeps ==
  ASSUME facts \in Seq(Shelf), NEW fr, NEW ft, ViewTables(fr, ft), Matched(fr, ft), Views(fr, ft),
         Len(fr) = Len(facts), NEW source \in Known \cup {None},
         NEW call \in {"none", "bare", "sigil"}, source = None => call = "none",
         call = "sigil" => ~Owns(source),
         source # None => /\ ft[Home(source)][source] # None /\ ~ft[Home(source)][source].stale
                          /\ ft[Home(source)][source].of = Fact(source).of,
         NEW new, new \in Seq(Shelf), Len(new) = Len(ft), Marks(new, ft, CalledPlaces(source, call)),
         source = None => new = ft
  PROVE  LET changed == RecordCall(fr, source, call)
         IN  /\ ViewTables(changed, new) /\ Matched(changed, new) /\ Views(changed, new)
             /\ source # None => ~Reports(changed, source)
<1>1. CASE source = None
  <2>1. RecordCall(fr, source, call) = fr
    BY <1>1 DEF RecordCall
  <2> QED BY <1>1, <2>1
<1>2. CASE source # None
  <2>1. source \in Known
    BY <1>2
  <2>2. PICK h \in 1 .. Len(fr) : h = Home(source) /\ source \in Vars
    BY <2>1, HomeType
  <2>3. /\ ft[h][source] # None /\ ~ft[h][source].stale
        /\ ft[h][source].of = None <=> Owns(source)
    BY <1>2, <2>2 DEF Owns
  <2>4. PICK places : places = CalledPlaces(source, call)
    OBVIOUS
  <2>5. /\ \/ call = "bare" /\ places = {<<h, source>>}
           \/ places = {} /\ (call = "none" \/ ft[h][source].of # None)
        /\ ft[h][source].of \notin places
    <3>1. <<h, source>> # None
      BY ViewAssumption, <2>2
    <3> QED BY <2>2, <2>3, <2>4, <3>1 DEF CalledPlaces, Place
  <2>6. Marks(new, ft, places)
    BY <2>4
  <2>7. PICK changed : changed = RecordCall(fr, source, call)
    OBVIOUS
  <2>8. ViewTables(changed, new) /\ Matched(changed, new) /\ Views(changed, new)
    BY <2>2, <2>3, <2>5, <2>6, <2>7, CallKeeps
  <2>9. h \in 1 .. Len(changed) /\ h \in 1 .. Len(ft)
    BY <2>8 DEF ViewTables
  <2>10. new[h][source] # None /\ ~new[h][source].stale
    BY <2>2, <2>3, <2>5, <2>6, <2>9 DEF Marks
  <2>11. ~Reports(changed, source)
    BY <2>2, <2>8, <2>9, <2>10, ReportsIs
  <2> QED BY <2>7, <2>8, <2>11
<1> QED BY <1>1, <1>2

\* What a source shows keeps clear of what its own call changes.
LEMMA ShowsApart ==
  ASSUME facts \in Seq(Shelf), NEW source \in Known \cup {None}, NEW mark, NEW call,
         source = None => call = "none",
         call # "none" /\ Owns(source) => mark = "none"
  PROVE  Shows(source, mark).of \notin CalledPlaces(source, call)
<1>1. CASE call # "none" /\ Owns(source)
  <2>1. source \in Known /\ source # None
    BY <1>1, ViewAssumption DEF Known
  <2>2. Shows(source, mark).of = None
    BY <1>1, <2>1 DEF Shows, Plain
  <2>3. Home(source) \in Nat /\ source \in Vars
    BY <2>1, HomeType
  <2>4. Place(source) # None
    BY <2>3, ViewAssumption DEF Place
  <2> QED BY <1>1, <2>2, <2>4 DEF CalledPlaces
<1>2. CASE ~(call # "none" /\ Owns(source))
  BY <1>2 DEF CalledPlaces
<1> QED BY <1>1, <1>2

-----------------------------------------------------------------------------
(* Every step keeps the invariant.                                         *)

LEMMA DeclareViewKeeps ==
  ASSUME ViewInv, NEW n \in Vars, NEW source \in Known \cup {None},
         NEW mark \in {"none", "call", "variable"}, NEW call \in {"none", "bare", "sigil"},
         Declare(n, source, mark, call)
  PROVE  ViewInv'
<1>1. /\ ViewTables(frames, facts) /\ EpochsLimited(frames) /\ BirthsLimited(frames)
      /\ Going /\ limits \subseteq Limits /\ (limits = {} => Sound)
  BY DEF ViewInv, Typed, Declare
<1>2. frames \in Seq(Block) /\ facts \in Seq(Shelf) /\ Len(frames) = Len(facts) /\ Len(frames) > 0
  BY <1>1 DEF ViewTables
<1>3. PICK K \in Nat : K = Len(frames) /\ K = Len(facts) /\ K = Top
  BY <1>2 DEF Top
<1>4. K \in 1 .. K
  BY <1>2, <1>3
<1>5. PICK fr : fr = WithName(frames, n)
  OBVIOUS
<1>6. PICK made : made = RecordBirth(fr, n, source, mark)
  OBVIOUS
<1>7. PICK F : F = Shows(source, mark)
  OBVIOUS
<1>8. PICK ft : ft = Called(source, call)
  OBVIOUS
<1>9. /\ frames' = RecordCall(made, source, call) /\ Bounded(frames')
      /\ facts[K][n] = None /\ source # n /\ (source = None => call = "none")
      /\ facts' = [ft EXCEPT ![K][n] = F]
      /\ reported' = (source # None /\ Reports(frames', source))
      /\ misused' = StaleUse({source})
  BY <1>3, <1>5, <1>6, <1>7, <1>8 DEF Declare, WithName, Top
<1>10. /\ fr \in Seq(Block) /\ Len(fr) = K
       /\ \A i \in 1 .. K : fr[i].epoch = frames[i].epoch /\ fr[i].dep = frames[i].dep
  BY <1>2, <1>3, <1>5, WithNameIs
<1>11. F \in Shown /\ source \in Vars \cup {None} /\ None \notin Vars /\ mark \in {"none"} \cup AtBirth
  BY <1>2, <1>7, ShowsType, ViewAssumption DEF Known, AtBirth
<1>12. IF Borrowed(fr, source, mark, AtBirth) /\ RootOf(fr, source) # n
       THEN EntrySet(made, fr, n, Made(fr, RootOf(fr, source)))
       ELSE made = fr
  BY <1>2, <1>3, <1>6, <1>10, <1>11, BirthIs
<1>13. made \in Seq(Block) /\ Len(made) = K
  BY <1>10, <1>12 DEF EntrySet
<1>14. Grown(frames', made)
  BY <1>2, <1>3, <1>9, <1>11, <1>13, CallOnlyGrows
<1>15. ft \in Seq(Shelf) /\ Len(ft) = K /\ Marks(ft, facts, CalledPlaces(source, call))
  BY <1>2, <1>3, <1>8, <1>9, CalledIs
<1>16. FactSet(facts', ft, K, n, F)
  BY <1>4, <1>9, <1>11, <1>15, SetsFact
<1>17. ViewTables(frames', facts')
  BY <1>2, <1>3, <1>13, <1>14, <1>15, <1>16 DEF ViewTables, Grown, FactSet
<1>18. EpochsLimited(frames') /\ BirthsLimited(frames')
  <2>1. EpochsLimited(fr) /\ BirthsLimited(fr)
    BY <1>1, <1>3, <1>10 DEF EpochsLimited, BirthsLimited
  <2>2. BirthsLimited(made)
    <3>1. CASE made = fr
      BY <2>1, <3>1
    <3>2. CASE Borrowed(fr, source, mark, AtBirth) /\ EntrySet(made, fr, n, Made(fr, RootOf(fr, source)))
      <4>1. PICK root \in Vars : root = RootOf(fr, source)
        BY <1>10, <1>11, <3>2, RootType DEF Borrowed
      <4> QED BY <1>2, <1>3, <1>10, <2>1, <3>2, <4>1, EntryLimited
    <3> QED BY <1>12, <3>1, <3>2
  <2>3. frames' \in Seq(Block)
    BY <1>14 DEF Grown
  <2> QED BY <1>9, <1>13, <1>14, <2>2, <2>3, GrownLimited, BoundedLimited
<1>19. reported' \in BOOLEAN /\ misused' \in BOOLEAN /\ limits' \subseteq Limits
  BY <1>1, <1>9 DEF StaleUse, Declare, Met, Limits
<1>20. ASSUME limits' = {} PROVE (reported' <=> misused') /\ (Going' => Sound')
  <2>1. /\ limits = {} /\ n \notin Known
        /\ call = "bare" /\ Owns(source) => mark = "none"
        /\ call = "sigil" => ~Owns(source)
    BY <1>20 DEF Declare, Met
  <2>2. Matched(frames, facts) /\ Views(frames, facts)
    BY <1>1, <2>1 DEF Sound
  <2>3. \A i \in 1 .. K : facts[i][n] = None
    <3>1. DOMAIN facts = 1 .. Len(facts)
      BY <1>2
    <3> QED BY <1>3, <2>1, <3>1 DEF Known
  <2>4. PICK hs \in 1 .. K : source # None => hs = Home(source)
    <3>1. source # None => Home(source) \in 1 .. K
      BY <1>2, <1>3, HomeType
    <3> QED BY <1>4, <3>1
  <2>5. source # None => facts[hs][source] # None /\ Fact(source) = facts[hs][source] /\ source \in Vars
    BY <1>2, <2>4, HomeType
  <2>6. misused' <=> source # None /\ facts[hs][source].stale
    BY <1>9, <1>11, <2>5, UseIs
  <2>7. CASE source # None /\ facts[hs][source].stale
    <3>1. Reports(frames, source)
      BY <1>1, <1>3, <2>2, <2>5, <2>7, ReportsIs
    <3>2. ASSUME Dependent(frames, source) PROVE EntryOf(frames, source).root # n
      <4>1. facts[hs][source].of # None /\ EntryOf(frames, source) = frames[hs].dep[source]
        <5>1. Once(facts) /\ hs \in 1 .. Len(frames) /\ facts[hs][source] # None /\ source \in Vars
          BY <1>3, <2>2, <2>5, <2>7 DEF Matched
        <5> QED BY <1>1, <2>2, <3>2, <5>1, ViewIs
      <4>2. PICK j \in 1 .. hs, r \in Vars : Traced(frames, facts, hs, source, j, r)
        BY <1>3, <2>2, <2>5, <2>7, <4>1 DEF Views
      <4>3. j \in 1 .. K /\ facts[j][r] # None /\ frames[hs].dep[source].root = r
        BY <4>2 DEF Traced
      <4> QED BY <2>3, <4>1, <4>3
    <3>3. ASSUME NEW i \in 1 .. K
          PROVE  /\ made[i].dep[source] = frames[i].dep[source]
                 /\ made[i].epoch = frames[i].epoch
                 /\ \A m : m # n => (m \in made[i].declared <=> m \in frames[i].declared)
      <4>1. \A m : m # n => (m \in fr[i].declared <=> m \in frames[i].declared)
        BY <1>2, <1>3, <1>5, WithNameIs
      <4>2. /\ made[i].declared = fr[i].declared /\ made[i].epoch = fr[i].epoch
            /\ \A m \in Vars : m # n => made[i].dep[m] = fr[i].dep[m]
        BY <1>10, <1>12 DEF EntrySet
      <4> QED BY <1>9, <1>10, <2>5, <2>7, <4>1, <4>2
    <3>4. Reports(made, source)
      BY <1>2, <1>3, <1>13, <2>5, <2>7, <3>1, <3>2, <3>3, ReportsSame
    <3>5. Reports(frames', source)
      BY <1>2, <1>3, <1>13, <1>14, <2>5, <2>7, <3>4, GrownReports
    <3> QED BY <1>9, <2>6, <2>7, <3>5 DEF Going
  <2>8. CASE source # None => ~facts[hs][source].stale
    <3>1. PICK ft1 : ft1 = [facts EXCEPT ![K][n] = F]
      OBVIOUS
    <3>2. FactSet(ft1, facts, K, n, F)
      BY <1>2, <1>3, <1>4, <1>11, <3>1, SetsFact
    <3>3. source # None => ~Fact(source).stale
      BY <2>5, <2>8
    <3>4. ViewTables(made, ft1) /\ Matched(made, ft1) /\ Views(made, ft1)
      BY <1>1, <1>3, <1>5, <1>6, <1>7, <1>9, <1>11, <2>2, <2>3, <3>2, <3>3, BornSoundly
    <3>5. F.of \notin CalledPlaces(source, call)
      <4>1. call # "none" /\ Owns(source) => mark = "none"
        BY <2>1
      <4> QED BY <1>2, <1>7, <1>9, <4>1, ShowsApart
    <3>6. Marks(facts', ft1, CalledPlaces(source, call))
      BY <1>3, <1>11, <1>15, <1>16, <3>2, <3>5, SettingMarks
    <3>7. source = None => facts' = ft1
      BY <1>8, <1>9, <3>1 DEF Called
    <3>8. source # None => /\ ft1[Home(source)][source] # None /\ ~ft1[Home(source)][source].stale
                           /\ ft1[Home(source)][source].of = Fact(source).of
      BY <1>3, <1>9, <2>4, <2>5, <2>8, <3>2 DEF FactSet
    <3>9. facts' \in Seq(Shelf) /\ Len(facts') = Len(ft1) /\ Len(made) = Len(facts)
      BY <1>3, <1>13, <1>15, <1>16, <3>2 DEF FactSet
    <3>10. /\ Matched(frames', facts') /\ Views(frames', facts')
           /\ source # None => ~Reports(frames', source)
      BY <1>2, <1>9, <2>1, <3>4, <3>6, <3>7, <3>8, <3>9, RightSideKeeps
    <3> QED BY <1>9, <2>6, <2>8, <3>10 DEF Sound
  <2> QED BY <2>7, <2>8
<1> QED BY <1>17, <1>18, <1>19, <1>20 DEF ViewInv, Typed

\* Two changes mark the same in either order.
LEMMA MarksCommute ==
  ASSUME NEW ft, NEW called, Len(called) = Len(ft), NEW places, Marks(called, ft, places),
         NEW mid, Len(mid) = Len(ft), NEW own, Marks(mid, ft, own), NEW new, Marks(new, called, own)
  PROVE  Marks(new, mid, places)
<1> SUFFICES ASSUME NEW i \in 1 .. Len(ft), NEW m \in Vars
             PROVE  /\ new[i][m] # None <=> mid[i][m] # None
                    /\ mid[i][m] # None =>
                         /\ new[i][m].of = mid[i][m].of
                         /\ new[i][m].stale <=> mid[i][m].stale \/ mid[i][m].of \in places
  BY DEF Marks
<1>1. /\ called[i][m] # None <=> ft[i][m] # None
      /\ ft[i][m] # None => /\ called[i][m].of = ft[i][m].of
                            /\ called[i][m].stale <=> ft[i][m].stale \/ ft[i][m].of \in places
  BY DEF Marks
<1>2. /\ mid[i][m] # None <=> ft[i][m] # None
      /\ ft[i][m] # None => /\ mid[i][m].of = ft[i][m].of
                            /\ mid[i][m].stale <=> ft[i][m].stale \/ ft[i][m].of \in own
  BY DEF Marks
<1>3. /\ new[i][m] # None <=> called[i][m] # None
      /\ called[i][m] # None => /\ new[i][m].of = called[i][m].of
                                /\ new[i][m].stale <=> called[i][m].stale \/ called[i][m].of \in own
  BY DEF Marks
<1> QED BY <1>1, <1>2, <1>3

LEMMA AssignViewKeeps ==
  ASSUME ViewInv, NEW n \in Vars, NEW source \in Known \cup {None},
         NEW mark \in {"none", "call", "variable"}, NEW call \in {"none", "bare", "sigil"},
         Assign(n, source, mark, call)
  PROVE  ViewInv'
<1>1. /\ ViewTables(frames, facts) /\ EpochsLimited(frames) /\ BirthsLimited(frames)
      /\ Going /\ limits \subseteq Limits /\ (limits = {} => Sound)
  BY DEF ViewInv, Typed, Assign
<1>2. frames \in Seq(Block) /\ facts \in Seq(Shelf) /\ Len(frames) = Len(facts) /\ Len(frames) > 0
  BY <1>1 DEF ViewTables
<1>3. PICK K \in Nat : K = Len(frames) /\ K = Len(facts) /\ K = Top
  BY <1>2 DEF Top
<1>4. K \in 1 .. K
  BY <1>2, <1>3
<1>5. PICK h \in 1 .. K : h = Home(n) /\ facts[h][n] # None /\ Fact(n) = facts[h][n]
  <2>1. n \in Known
    BY DEF Assign
  <2> QED BY <1>2, <1>3, <2>1, HomeType
<1>6. PICK fr : fr = RecordChange(frames, n)
  OBVIOUS
<1>7. PICK made : made = Propagate(fr, n, source, mark)
  OBVIOUS
<1>8. PICK F : F = Shows(source, mark)
  OBVIOUS
<1>9. PICK called : called = Called(source, call)
  OBVIOUS
<1>10. PICK spoilt : spoilt = Spoilt(called, <<h, n>>)
  OBVIOUS
<1>11. /\ frames' = RecordCall(made, source, call) /\ Bounded(frames')
       /\ (source = None => call = "none")
       /\ facts' = [spoilt EXCEPT ![h][n] = F]
       /\ reported' = (Reports(made, n) \/ (source # None /\ Reports(frames', source)))
       /\ misused' = StaleUse({source})
  BY <1>5, <1>6, <1>7, <1>8, <1>9, <1>10 DEF Assign, Place
<1>12. F \in Shown /\ source \in Vars \cup {None} /\ None \notin Vars /\ mark \in {"none"} \cup AtBirth
  BY <1>2, <1>8, ShowsType, ViewAssumption DEF Known, AtBirth
<1>13. PICK by : /\ by = (IF HasDependents(frames, n) THEN 1 ELSE 0)
                 /\ EpochGrown(fr, frames, FrameOf(frames, n), n, by)
  BY <1>2, <1>6, ChangeGrows
<1>14. Grown(fr, frames) /\ fr \in Seq(Block) /\ Len(fr) = K
  <2>1. FrameOf(frames, n) \in 1 .. Len(frames)
    BY <1>2, FrameOfType
  <2> QED BY <1>2, <1>3, <1>13, <2>1, GrownIs DEF Grown
<1>15. IF Borrowed(fr, source, mark, AtAssignment) /\ RootOf(fr, source) # n
       THEN EntrySet(made, fr, n, Made(fr, RootOf(fr, source)))
       ELSE EntrySet(made, fr, n, None)
  BY <1>2, <1>3, <1>7, <1>12, <1>14, PropagateIs
<1>16. made \in Seq(Block) /\ Len(made) = K
  BY <1>14, <1>15 DEF EntrySet
<1>17. Grown(frames', made)
  BY <1>2, <1>3, <1>11, <1>12, <1>16, CallOnlyGrows
<1>18. called \in Seq(Shelf) /\ Len(called) = K /\ Marks(called, facts, CalledPlaces(source, call))
  BY <1>2, <1>3, <1>9, <1>11, CalledIs
<1>19. spoilt \in Seq(Shelf) /\ Len(spoilt) = K /\ Marks(spoilt, called, {<<h, n>>})
  BY <1>10, <1>18, SpoiltMarks
<1>20. FactSet(facts', spoilt, h, n, F)
  BY <1>11, <1>12, <1>19, SetsFact
<1>21. ViewTables(frames', facts')
  BY <1>2, <1>3, <1>16, <1>17, <1>19, <1>20 DEF ViewTables, Grown, FactSet
<1>22. EpochsLimited(frames') /\ BirthsLimited(frames')
  <2>1. frames' \in Seq(Block)
    BY <1>17 DEF Grown
  <2>2. EpochsLimited(frames') /\ EpochsLimited(made)
    BY <1>11, <1>16, <1>17, <2>1, GrownLimited, BoundedLimited
  <2>3. EpochsLimited(fr)
    BY <1>14, <1>15, <1>16, <2>2 DEF EntrySet, EpochsLimited
  <2>4. BirthsLimited(fr)
    BY <1>1, <1>2, <1>14, GrownLimited
  <2>5. BirthsLimited(made)
    <3>1. CASE EntrySet(made, fr, n, None)
      BY <1>2, <1>3, <1>14, <2>3, <2>4, <3>1, EntryLimited
    <3>2. CASE /\ Borrowed(fr, source, mark, AtAssignment)
               /\ EntrySet(made, fr, n, Made(fr, RootOf(fr, source)))
      <4>1. PICK root \in Vars : root = RootOf(fr, source)
        BY <1>12, <1>14, <3>2, RootType DEF Borrowed
      <4> QED BY <1>2, <1>3, <1>14, <2>3, <2>4, <3>2, <4>1, EntryLimited
    <3> QED BY <1>15, <3>1, <3>2
  <2> QED BY <1>16, <1>17, <2>2, <2>5, GrownLimited
<1>23. reported' \in BOOLEAN /\ misused' \in BOOLEAN /\ limits' \subseteq Limits
  BY <1>1, <1>11 DEF StaleUse, Reports, Assign, Met, Limits
<1>24. ASSUME limits' = {} PROVE (reported' <=> misused') /\ (Going' => Sound')
  <2>1. /\ limits = {} /\ n # source /\ (source # None => Fact(source).of # <<h, n>>)
        /\ h # K => Owns(n) /\ F.of = None
        /\ call = "bare" /\ Owns(source) => mark # "call"
        /\ call = "sigil" => ~Owns(source)
        /\ source # None /\ Owns(source) => mark # "variable"
    BY <1>3, <1>5, <1>8, <1>24 DEF Assign, Met, Place
  <2>2. Matched(frames, facts) /\ Views(frames, facts)
    BY <1>1, <2>1 DEF Sound
  <2>3. PICK ft : ft = Spoilt(facts, <<h, n>>)
    OBVIOUS
  <2>4. ft \in Seq(Shelf) /\ Len(ft) = K /\ Marks(ft, facts, {<<h, n>>})
    BY <1>2, <1>3, <2>3, SpoiltMarks
  <2>5. ViewTables(fr, ft) /\ Matched(fr, ft) /\ Views(fr, ft)
    <3>1. fr = RecordCall(frames, n, "bare")
      BY <1>6 DEF RecordCall
    <3> QED BY <1>1, <1>3, <1>5, <2>2, <2>4, <3>1, CallKeeps
  <2>6. PICK hs \in 1 .. K : source # None => hs = Home(source)
    <3>1. source # None => Home(source) \in 1 .. K
      BY <1>2, <1>3, HomeType
    <3> QED BY <1>4, <3>1
  <2>7. source # None => facts[hs][source] # None /\ Fact(source) = facts[hs][source] /\ source \in Vars
    BY <1>2, <2>6, HomeType
  <2>8. misused' <=> source # None /\ facts[hs][source].stale
    BY <1>11, <1>12, <2>7, UseIs
  <2>9. source # None => /\ ft[hs][source] # None /\ ft[hs][source].of = facts[hs][source].of
                         /\ ft[hs][source].stale <=> facts[hs][source].stale
    BY <1>3, <2>1, <2>4, <2>7 DEF Marks
  <2>10. CASE source # None /\ facts[hs][source].stale
    <3>1. Reports(fr, source)
      BY <1>14, <2>5, <2>7, <2>9, <2>10, ReportsIs
    <3>2. \A j \in 1 .. K : /\ made[j].dep[source] = fr[j].dep[source]
                            /\ made[j].epoch = fr[j].epoch /\ made[j].declared = fr[j].declared
      BY <1>14, <1>15, <2>1, <2>7, <2>10 DEF EntrySet
    <3>3. Reports(made, source)
      BY <1>2, <1>3, <1>14, <1>16, <2>7, <2>10, <3>1, <3>2, ReportsSame
    <3>4. Reports(frames', source)
      BY <1>2, <1>3, <1>16, <1>17, <2>7, <2>10, <3>3, GrownReports
    <3> QED BY <1>11, <2>8, <2>10, <3>4 DEF Going
  <2>11. CASE source # None => ~facts[hs][source].stale
    <3>1. PICK ft1 : ft1 = [ft EXCEPT ![h][n] = F]
      OBVIOUS
    <3>2. FactSet(ft1, ft, h, n, F)
      BY <1>12, <2>4, <3>1, SetsFact
    <3>3. ViewTables(made, ft1) /\ Matched(made, ft1) /\ Views(made, ft1) /\ ~Reports(made, n)
      <4>1. source # None => ~Fact(source).stale /\ Fact(source).of # <<h, n>>
        BY <2>1, <2>7, <2>11
      <4>2. h # Len(fr) => facts[h][n].of = None /\ F.of = None
        BY <1>5, <1>14, <2>1 DEF Owns
      <4>3. Len(fr) = Len(facts) /\ h \in 1 .. Len(fr)
        BY <1>3, <1>14
      <4> QED BY <1>2, <1>5, <1>7, <1>8, <1>12, <2>1, <2>4, <2>5, <3>2, <4>1, <4>2, <4>3, AssignedSoundly
    <3>4. F.of \notin CalledPlaces(source, call)
      <4>1. call # "none" /\ Owns(source) => mark = "none"
        BY <1>11, <2>1
      <4> QED BY <1>2, <1>8, <1>11, <4>1, ShowsApart
    <3>5. Marks(facts', ft1, CalledPlaces(source, call))
      <4>1. Marks(spoilt, ft, CalledPlaces(source, call))
        BY <1>3, <1>18, <1>19, <2>4, MarksCommute
      <4> QED BY <1>12, <1>19, <1>20, <2>4, <3>2, <3>4, <4>1, SettingMarks
    <3>6. source = None => facts' = ft1
      BY <1>9, <1>10, <1>11, <2>3, <3>1 DEF Called
    <3>7. source # None => /\ ft1[Home(source)][source] # None /\ ~ft1[Home(source)][source].stale
                           /\ ft1[Home(source)][source].of = Fact(source).of
      BY <2>1, <2>4, <2>6, <2>7, <2>9, <2>11, <3>2 DEF FactSet
    <3>8. facts' \in Seq(Shelf) /\ Len(facts') = Len(ft1) /\ Len(made) = Len(facts)
      BY <1>3, <1>16, <1>19, <1>20, <2>4, <3>2 DEF FactSet
    <3>9. /\ Matched(frames', facts') /\ Views(frames', facts')
          /\ source # None => ~Reports(frames', source)
      BY <1>2, <1>11, <2>1, <3>3, <3>5, <3>6, <3>7, <3>8, RightSideKeeps
    <3> QED BY <1>11, <2>8, <2>11, <3>3, <3>9 DEF Sound
  <2> QED BY <2>10, <2>11
<1> QED BY <1>21, <1>22, <1>23, <1>24 DEF ViewInv, Typed

LEMMA ChangeViewKeeps ==
  ASSUME ViewInv, NEW n \in Vars, NEW how \in {"bare", "sigil", "element"}, NEW with \in Known \cup {None},
         Change(n, how, with)
  PROVE  ViewInv'
<1>1. /\ ViewTables(frames, facts) /\ EpochsLimited(frames) /\ BirthsLimited(frames)
      /\ Going /\ limits \subseteq Limits /\ (limits = {} => Sound)
  BY DEF ViewInv, Typed, Change
<1>2. frames \in Seq(Block) /\ facts \in Seq(Shelf) /\ Len(frames) = Len(facts) /\ Len(frames) > 0
  BY <1>1 DEF ViewTables
<1>3. PICK K \in Nat : K = Len(frames) /\ K = Len(facts)
  BY <1>2
<1>4. n \in Known /\ None \notin Vars
  BY ViewAssumption DEF Change
<1>5. PICK places : places = IF Owns(n) THEN {Place(n)} ELSE {}
  OBVIOUS
<1>6. /\ frames' = RecordCall(frames, n, how) /\ Bounded(frames') /\ facts' = Changed(facts, n)
      /\ reported' = (\E m \in {n, with} \ {None} : Reports(frames', m)) /\ misused' = StaleUse({n, with})
  BY DEF Change, RecordCall
<1>7. facts' \in Seq(Shelf) /\ Len(facts') = K /\ Marks(facts', facts, places)
  BY <1>2, <1>3, <1>4, <1>5, <1>6, ChangedIs
<1>8. Grown(frames', frames)
  BY <1>2, <1>4, <1>6, CallOnlyGrows
<1>9. ViewTables(frames', facts')
  BY <1>2, <1>3, <1>7, <1>8 DEF ViewTables, Grown
<1>10. EpochsLimited(frames') /\ BirthsLimited(frames')
  <2>1. frames' \in Seq(Block)
    BY <1>8 DEF Grown
  <2> QED BY <1>1, <1>2, <1>6, <1>8, <2>1, GrownLimited, BoundedLimited
<1>11. reported' \in BOOLEAN /\ misused' \in BOOLEAN /\ limits' \subseteq Limits
  BY <1>1, <1>6 DEF StaleUse, Change, Met, Limits
<1>12. ASSUME limits' = {} PROVE (reported' <=> misused') /\ Sound'
  <2>1. /\ limits = {} /\ (with # None => Fact(with).of # Place(n))
        /\ how = "bare" \/ ~Owns(n)
    BY <1>12 DEF Change, Met
  <2>2. Matched(frames, facts) /\ Views(frames, facts)
    BY <1>1, <2>1 DEF Sound
  <2>3. PICK h \in 1 .. K : h = Home(n) /\ facts[h][n] # None /\ Fact(n) = facts[h][n]
    BY <1>2, <1>3, <1>4, HomeType
  <2>4. Matched(frames', facts') /\ Views(frames', facts')
    <3>1. \/ how = "bare" /\ places = {<<h, n>>}
          \/ places = {} /\ (how = "none" \/ facts[h][n].of # None)
      BY <1>5, <2>1, <2>3 DEF Owns, Place
    <3> QED BY <1>1, <1>3, <1>6, <1>7, <2>2, <2>3, <3>1, CallKeeps
  <2>5. ASSUME NEW m \in {n, with} \ {None} PROVE Reports(frames', m) <=> Fact(m).stale
    <3>1. m \in Known /\ m \in Vars
      BY <1>4, <2>5 DEF Known
    <3>2. PICK i \in 1 .. K : facts[i][m] # None /\ Fact(m) = facts[i][m]
      BY <1>2, <1>3, <3>1, HomeType
    <3>3. facts[i][m].of \notin places
      <4>1. Place(n) # None
        BY <1>3, <2>3, ViewAssumption DEF Place
      <4> QED BY <1>5, <2>1, <2>5, <3>2, <4>1 DEF Owns
    <3>4. facts'[i][m] # None /\ (facts'[i][m].stale <=> facts[i][m].stale)
      BY <1>3, <1>7, <3>1, <3>2, <3>3 DEF Marks
    <3>5. i \in 1 .. Len(frames')
      BY <1>3, <1>8 DEF Grown
    <3> QED BY <1>9, <2>4, <3>1, <3>2, <3>4, <3>5, ReportsIs
  <2>6. reported' <=> misused'
    BY <1>6, <2>5 DEF StaleUse
  <2> QED BY <2>4, <2>6 DEF Sound
<1> QED BY <1>9, <1>10, <1>11, <1>12 DEF ViewInv, Typed

LEMMA SwapViewKeeps ==
  ASSUME ViewInv, NEW n \in Vars, NEW other \in Known \cup {None}, SwapData(n, other)
  PROVE  ViewInv'
<1>1. /\ ViewTables(frames, facts) /\ EpochsLimited(frames) /\ BirthsLimited(frames)
      /\ Going /\ limits \subseteq Limits /\ (limits = {} => Sound)
  BY DEF ViewInv, Typed, SwapData
<1>2. frames \in Seq(Block) /\ facts \in Seq(Shelf) /\ Len(frames) = Len(facts) /\ Len(frames) > 0
  BY <1>1 DEF ViewTables
<1>3. PICK K \in Nat : K = Len(frames) /\ K = Len(facts)
  BY <1>2
<1>4. n \in Known /\ n # other /\ None \notin Vars
  BY ViewAssumption DEF SwapData
<1>5. PICK there : there = IF other = None THEN n ELSE other
  OBVIOUS
<1>6. PICK gone : gone = IF other = None THEN Plain ELSE Fact(other)
  OBVIOUS
<1>7. there \in Known /\ there \in Vars
  BY <1>4, <1>5 DEF Known
<1>8. PICK h \in 1 .. K : /\ h = Home(n) /\ facts[h][n] # None /\ Fact(n) = facts[h][n]
                          /\ Fact(n) \in Shown
  BY <1>2, <1>3, <1>4, HomeType
<1>9. PICK g \in 1 .. K : g = Home(there) /\ facts[g][there] # None /\ Fact(there) = facts[g][there]
  BY <1>2, <1>3, <1>7, HomeType
<1>10. gone \in Shown
  <2>1. Plain \in Shown
    BY DEF Plain, Shown
  <2>2. other # None => Fact(other) \in Shown
    BY <1>2, HomeType
  <2> QED BY <1>6, <2>1, <2>2
<1>11. PICK p, q : p = <<h, n>> /\ q = <<g, there>>
  OBVIOUS
<1>12. PICK mid, moved : mid = Spoilt(facts, p) /\ moved = Spoilt(mid, q)
  OBVIOUS
<1>13. PICK half : half = [moved EXCEPT ![g][there] = Fact(n)]
  OBVIOUS
<1>14. /\ frames' = RecordChange(frames, n) /\ Bounded(frames') /\ facts' = [half EXCEPT ![h][n] = gone]
       /\ reported' = (\E m \in {n, other} \ {None} : Reports(frames', m))
       /\ misused' = StaleUse({n, other})
  BY <1>5, <1>6, <1>8, <1>9, <1>11, <1>12, <1>13 DEF SwapData, Place
<1>15. /\ mid \in Seq(Shelf) /\ Len(mid) = K /\ Marks(mid, facts, {p})
       /\ moved \in Seq(Shelf) /\ Len(moved) = K /\ Marks(moved, mid, {q})
  <2>1. mid \in Seq(Shelf) /\ Len(mid) = K /\ Marks(mid, facts, {p})
    BY <1>2, <1>3, <1>11, <1>12, SpoiltMarks
  <2> QED BY <1>11, <1>12, <2>1, SpoiltMarks
<1>16. FactSet(half, moved, g, there, Fact(n))
  BY <1>7, <1>8, <1>13, <1>15, SetsFact
<1>17. FactSet(facts', half, h, n, gone) /\ facts' \in Seq(Shelf) /\ Len(facts') = K
  <2>1. half \in Seq(Shelf) /\ Len(half) = K
    BY <1>15, <1>16 DEF FactSet
  <2>2. FactSet(facts', half, h, n, gone)
    BY <1>10, <1>14, <2>1, SetsFact
  <2> QED BY <2>1, <2>2 DEF FactSet
<1>18. frames' = RecordCall(frames, n, "bare") /\ Grown(frames', frames)
  <2>1. frames' = RecordCall(frames, n, "bare")
    BY <1>14 DEF RecordCall
  <2> QED BY <1>2, <1>4, <2>1, CallOnlyGrows
<1>19. ViewTables(frames', facts')
  BY <1>2, <1>3, <1>17, <1>18 DEF ViewTables, Grown
<1>20. EpochsLimited(frames') /\ BirthsLimited(frames')
  <2>1. frames' \in Seq(Block)
    BY <1>18 DEF Grown
  <2> QED BY <1>1, <1>2, <1>14, <1>18, <2>1, GrownLimited, BoundedLimited
<1>21. reported' \in BOOLEAN /\ misused' \in BOOLEAN /\ limits' \subseteq Limits
  BY <1>1, <1>14 DEF StaleUse, SwapData, Met, Limits
<1>22. ASSUME limits' = {} PROVE (reported' <=> misused') /\ Sound'
  <2>1. limits = {} /\ Owns(n) /\ (other # None => Owns(other) /\ ~Viewed(other))
    BY <1>22 DEF SwapData, Met
  <2>2. Matched(frames, facts) /\ Views(frames, facts)
    BY <1>1, <2>1 DEF Sound
  <2>3. /\ Fact(n).of = None /\ ~Fact(n).stale /\ gone.of = None /\ ~gone.stale
        /\ Fact(there).of = None /\ ~Fact(there).stale
    <3>1. Fact(n).of = None /\ ~Fact(n).stale
      BY <1>3, <1>8, <2>1, <2>2 DEF Views, Owns
    <3>2. Fact(there).of = None /\ ~Fact(there).stale
      BY <1>3, <1>5, <1>7, <1>9, <2>1, <2>2 DEF Views, Owns
    <3>3. Plain.of = None /\ ~Plain.stale
      BY DEF Plain
    <3> QED BY <1>5, <1>6, <3>1, <3>2, <3>3
  <2>4. Fact(n) # None /\ gone # None
    BY <1>8, <1>10, ViewAssumption DEF Shown
  <2>5. ASSUME NEW i \in 1 .. K, NEW m \in Vars, facts[i][m] # None, facts[i][m].of = q
        PROVE  there = n /\ g = h
    <3>1. CASE other = None
      BY <1>5, <1>8, <1>9, <3>1
    <3>2. CASE other # None
      <4>1. DOMAIN facts = 1 .. K
        BY <1>2, <1>3
      <4>2. Viewed(other)
        BY <1>5, <1>9, <1>11, <2>5, <3>2, <4>1 DEF Viewed, Place
      <4> QED BY <2>1, <3>2, <4>2
    <3> QED BY <3>1, <3>2
  <2>6. ASSUME NEW i \in 1 .. K, NEW m \in Vars
        PROVE  /\ moved[i][m] # None <=> facts[i][m] # None
               /\ facts[i][m] # None => /\ moved[i][m].of = facts[i][m].of
                                        /\ moved[i][m].stale <=> facts[i][m].stale \/ facts[i][m].of = p
    <3>1. /\ mid[i][m] # None <=> facts[i][m] # None
          /\ facts[i][m] # None => /\ mid[i][m].of = facts[i][m].of
                                   /\ mid[i][m].stale <=> facts[i][m].stale \/ facts[i][m].of = p
      BY <1>3, <1>15 DEF Marks
    <3>2. /\ moved[i][m] # None <=> mid[i][m] # None
          /\ mid[i][m] # None => /\ moved[i][m].of = mid[i][m].of
                                 /\ moved[i][m].stale <=> mid[i][m].stale \/ mid[i][m].of = q
      BY <1>15 DEF Marks
    <3> QED BY <1>11, <2>5, <3>1, <3>2
  <2>7. Marks(facts', facts, {p}) /\ p # None
    <3>1. p # None
      BY <1>11, ViewAssumption
    <3> SUFFICES ASSUME NEW i \in 1 .. K, NEW m \in Vars
                 PROVE  /\ facts'[i][m] # None <=> facts[i][m] # None
                        /\ facts[i][m] # None =>
                             /\ facts'[i][m].of = facts[i][m].of
                             /\ facts'[i][m].stale <=> facts[i][m].stale \/ facts[i][m].of = p
      BY <1>3, <3>1 DEF Marks
    <3>2. CASE i = h /\ m = n
      <4>1. facts'[i][m] = gone /\ facts[i][m] = Fact(n)
        BY <1>8, <1>17, <3>2 DEF FactSet
      <4> QED BY <2>3, <2>4, <3>1, <4>1
    <3>3. CASE i = g /\ m = there /\ ~(i = h /\ m = n)
      <4>1. facts'[i][m] = Fact(n) /\ facts[i][m] = Fact(there) /\ facts[i][m] # None
        BY <1>9, <1>15, <1>16, <1>17, <3>3 DEF FactSet
      <4> QED BY <2>3, <2>4, <3>1, <4>1
    <3>4. CASE ~(i = g /\ m = there) /\ ~(i = h /\ m = n)
      <4>1. facts'[i][m] = moved[i][m]
        BY <1>15, <1>16, <1>17, <3>4 DEF FactSet
      <4> QED BY <2>6, <4>1
    <3> QED BY <3>2, <3>3, <3>4
  <2>8. Matched(frames', facts') /\ Views(frames', facts')
    BY <1>1, <1>3, <1>8, <1>11, <1>17, <1>18, <2>2, <2>7, CallKeeps
  <2>9. ASSUME NEW m \in {n, other} \ {None} PROVE ~Reports(frames', m) /\ ~Fact(m).stale
    <3>1. m \in {n, there}
      BY <1>5, <2>9
    <3>2. PICK i \in 1 .. K : facts[i][m] # None /\ Fact(m) = facts[i][m] /\ m \in Vars
      BY <1>7, <1>8, <1>9, <3>1
    <3>3. Fact(m).of = None /\ ~Fact(m).stale
      BY <2>3, <3>1
    <3>4. facts'[i][m] # None /\ ~facts'[i][m].stale
      BY <1>3, <2>7, <3>2, <3>3 DEF Marks
    <3>5. i \in 1 .. Len(frames')
      BY <1>3, <1>18 DEF Grown
    <3> QED BY <1>19, <2>8, <3>2, <3>3, <3>4, <3>5, ReportsIs
  <2> QED BY <1>14, <2>8, <2>9 DEF Sound, StaleUse
<1> QED BY <1>19, <1>20, <1>21, <1>22 DEF ViewInv, Typed

LEMMA UseKeeps ==
  ASSUME ViewInv, NEW n \in Vars, Use(n)
  PROVE  ViewInv'
<1>1. UNCHANGED <<frames, facts, limits>> /\ Typed /\ ViewTables(frames, facts)
  BY DEF ViewInv, Typed, Use
<1>2. reported' \in BOOLEAN /\ misused' \in BOOLEAN
  BY DEF StaleUse, Reports, Use
<1>3. ASSUME limits = {} PROVE Sound /\ (reported' <=> misused')
  <2>1. Sound /\ Matched(frames, facts) /\ Views(frames, facts)
    BY <1>3 DEF ViewInv, Use, Sound
  <2>2. facts \in Seq(Shelf) /\ Len(frames) = Len(facts) /\ n \in Known
    BY <1>1 DEF ViewTables, Use
  <2>3. PICK h \in 1 .. Len(frames) : facts[h][n] # None /\ Fact(n) = facts[h][n]
    BY <2>2, HomeType
  <2>4. misused' <=> facts[h][n].stale
    BY <2>2, <2>3, UseIs, ViewAssumption DEF Use
  <2>5. reported' <=> facts[h][n].stale
    BY <1>1, <2>1, <2>3, ReportsIs DEF Use
  <2> QED BY <2>1, <2>4, <2>5
<1> QED BY <1>1, <1>2, <1>3 DEF ViewInv, Typed, Sound

LEMMA ViewInvHolds == ViewSpec => []ViewInv
<1>1. ViewInit => ViewInv
  BY ViewStarts
<1>2. ASSUME ViewInv, [ViewNext]_viewVars PROVE ViewInv'
  <2>1. CASE EnterBlock
    BY <1>2, <2>1, EnterViewKeeps
  <2>2. CASE ExitBlock
    BY <1>2, <2>2, ExitViewKeeps
  <2>3. ASSUME NEW n \in Vars, NEW source \in Known \cup {None}, NEW how \in {"bare", "sigil", "element"},
               Change(n, how, source)
        PROVE  ViewInv'
    BY <1>2, <2>3, ChangeViewKeeps
  <2>4. ASSUME NEW n \in Vars, NEW source \in Known \cup {None}, SwapData(n, source) PROVE ViewInv'
    BY <1>2, <2>4, SwapViewKeeps
  <2>5. ASSUME NEW n \in Vars, NEW source \in Known \cup {None},
               NEW mark \in {"none", "call", "variable"}, NEW call \in {"none", "bare", "sigil"},
               Declare(n, source, mark, call) \/ Assign(n, source, mark, call)
        PROVE  ViewInv'
    BY <1>2, <2>5, DeclareViewKeeps, AssignViewKeeps
  <2>6. ASSUME NEW n \in Vars, Use(n) PROVE ViewInv'
    BY <1>2, <2>6, UseKeeps
  <2>7. CASE UNCHANGED viewVars
    <3>1. ViewInv' <=> ViewInv
      BY <2>7 DEF viewVars, ViewInv, Typed, Sound, Going
    <3> QED BY <1>2, <3>1
  <2> QED BY <1>2, <2>1, <2>2, <2>3, <2>4, <2>5, <2>6, <2>7 DEF ViewNext
<1> QED BY <1>1, <1>2, PTL DEF ViewSpec

\* The tables of the hook hold names, epochs and entries within the bounds.
THEOREM ViewTypes == ViewSpec => []ViewTypeOK
<1>1. ASSUME ViewInv PROVE ViewTypeOK
  <2>1. /\ frames \in Seq(Block) /\ facts \in Seq(Shelf) /\ Len(frames) = Len(facts)
        /\ EpochsLimited(frames) /\ BirthsLimited(frames)
    BY <1>1 DEF ViewInv, Typed, ViewTables
  <2>2. ASSUME NEW i \in 1 .. Len(frames)
        PROVE  /\ frames[i].declared \subseteq Vars
               /\ frames[i].epoch \in [Vars -> 0 .. MaxEpoch]
               /\ frames[i].dep \in [Vars -> Entries \cup {None}]
    <3>1. /\ frames[i].declared \subseteq Vars /\ frames[i].epoch \in [Vars -> Nat]
          /\ frames[i].dep \in [Vars -> Entry \cup {None}]
      <4>1. frames[i] \in Block
        BY <2>1
      <4> QED BY <4>1 DEF Block
    <3>2. \A n \in Vars : frames[i].epoch[n] \in 0 .. MaxEpoch
      <4>1. \A n \in Vars : frames[i].epoch[n] \in Nat /\ frames[i].epoch[n] <= MaxEpoch
        BY <2>1, <3>1 DEF EpochsLimited
      <4> QED BY <4>1, ViewAssumption
    <3>3. ASSUME NEW n \in Vars, frames[i].dep[n] # None
          PROVE  frames[i].dep[n] \in Entries
      <4>1. PICK e \in Entry : e = frames[i].dep[n]
        BY <3>1, <3>3
      <4>2. e.root \in Vars /\ e.born \in Nat /\ e.born <= MaxEpoch
        BY <2>1, <3>3, <4>1 DEF BirthsLimited, Entry
      <4>3. e.born \in 0 .. MaxEpoch
        BY <4>2, ViewAssumption
      <4>4. e = [root |-> e.root, born |-> e.born]
        BY <4>1 DEF Entry
      <4> QED BY <4>1, <4>2, <4>3, <4>4 DEF Entries
    <3> QED BY <3>1, <3>2, <3>3
  <2>3. DOMAIN frames = 1 .. Len(frames) /\ DOMAIN facts = 1 .. Len(facts)
    BY <2>1
  <2> QED BY <1>1, <2>1, <2>2, <2>3 DEF ViewTypeOK, ViewInv, Typed
<1> QED BY <1>1, ViewInvHolds, PTL

\* However blocks nest and views are made of views, until the function meets
\* a limit of the check the first use of a view whose data has changed is
\* reported, and nothing else is: the entry of a view keeps the variable it
\* shows and the epoch it showed it at.
THEOREM ViewsAreReported == ViewSpec => []ViewsReported
<1>1. ViewInv => ViewsReported
  BY DEF ViewInv, ViewsReported
<1> QED BY <1>1, ViewInvHolds, PTL
=============================================================================
