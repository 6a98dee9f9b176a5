---------------------------- MODULE BorrowCheck -----------------------------
(* The borrow checker of smart references: BorrowCheckHook of              *)
(* src/semantic/borrow_check.cpp, as the name resolution walks over the    *)
(* declarations and assignments of nested scopes.  It goes by names and by *)
(* the markers of the declarations, since it sees a statement before its   *)
(* names are resolved.  Beside it runs the truth, by declarations: which   *)
(* variable each view was made of, and which rule of borrow_check.hpp a    *)
(* statement breaks.  The walk is followed to the first statement that is  *)
(* wrong or reported or gives a view another object.  Left out are epochs, *)
(* which are only traced, guards ( *ref ), which the hook records nothing  *)
(* of, and views of an outer variable of their own name.                   *)
EXTENDS Naturals, Sequences, FiniteSets, FiniteSetsExt

CONSTANTS
  Idents,          \* names of variables
  Qualified,       \* those with "::", names of variables of a namespace
  MaxScopes,       \* nested scopes (bound)
  MaxDeclarations, \* variables alive at one time (bound)
  Nobody

ASSUME BorrowAssumption ==
  /\ Nobody \notin Idents
  /\ Qualified \subseteq Idents
  /\ Nobody \notin [kind : {"unique", "shared", "weak"}, region : Nat]
  /\ Nobody \notin [kind : {"unique", "shared", "weak", "none"}, region : Nat,
                     anchor : (Nat \X Idents) \cup {Nobody}, param : BOOLEAN]
  /\ Nobody \notin Nat \X Idents

VARIABLES
  mFrames,     \* m_frames: per scope the marked references and the borrows, by name
  function,    \* the scope of the current function, 0 outside of functions
  variables,   \* the truth: per scope, the variables declared in it
  verdict,     \* what the check reported of the last statement
  offence,     \* the rules this statement breaks
  reassigned   \* a view was given another object, which the check does not follow

borrowVars == <<mFrames, function, variables, verdict, offence, reassigned>>

Markers == {"unique", "shared", "weak", "none"}
Owners == {"unique", "shared"}
Scope == 0
Thread == 1
Program == 2

NoFrame == [smart |-> [n \in Idents |-> Nobody], borrows |-> [n \in Idents |-> Nobody]]

BorrowInit ==
  /\ mFrames = <<NoFrame>>
  /\ function = 0
  /\ variables = <<[n \in Idents |-> Nobody]>>
  /\ verdict = {} /\ offence = {} /\ reassigned = FALSE

Depth == Len(mFrames)
Walking == verdict = {} /\ offence = {} /\ ~reassigned

FindSmart(n) ==
  LET found == {i \in 1 .. Depth : mFrames[i].smart[n] # Nobody}
  IN  IF found = {} THEN Nobody ELSE mFrames[Max(found)].smart[n]

\* Mutant: only the borrows of the current scope are looked at.
BorrowsHere(anchor) == \E dep \in Idents : mFrames[Depth].borrows[dep] = anchor

HasBorrows(anchor) == \E i \in 1 .. Depth, dep \in Idents : mFrames[i].borrows[dep] = anchor

RegionOfVar(n, isThreadLocal) ==
  IF isThreadLocal THEN Thread
  ELSE IF n \in Qualified \/ function = 0 THEN Program ELSE Scope

OwnerUnderBorrow(n) == HasBorrows(n) /\ FindSmart(n) # Nobody /\ FindSmart(n).kind \in Owners

\* The truth: a name means its innermost declaration.
Introduced == {d \in (1 .. Depth) \X Idents : variables[d[1]][d[2]] # Nobody}
Visible == {d[2] : d \in Introduced}
Meant(n) == <<Max({d[1] : d \in {e \in Introduced : e[2] = n}}), n>>
Of(d) == variables[d[1]][d[2]]
NoneHidden == \A d, e \in Introduced : d[2] = e[2] => d = e
ViewedOwner(d) == Of(d).kind \in Owners /\ \E v \in Introduced : Of(v).anchor = d

\* The rule a statement breaks at d, or that d is a parameter, of whose marker
\* the hook is told nothing: it looks at VarDecl nodes only.
Breach(d, rule) == IF Of(d).param THEN "parameter" ELSE rule

-----------------------------------------------------------------------------
EnterScope(isFunction) ==
  /\ Walking /\ Depth < MaxScopes
  /\ isFunction => function = 0
  /\ mFrames' = Append(mFrames, NoFrame)
  /\ variables' = Append(variables, [n \in Idents |-> Nobody])
  /\ function' = IF isFunction THEN Depth + 1 ELSE function
  /\ UNCHANGED <<verdict, offence, reassigned>>

ExitScope ==
  /\ Walking /\ Depth > 1
  /\ mFrames' = SubSeq(mFrames, 1, Depth - 1)
  /\ variables' = SubSeq(variables, 1, Depth - 1)
  /\ function' = IF function = Depth THEN 0 ELSE function
  /\ UNCHANGED <<verdict, offence, reassigned>>

\* declareFuncParams: an ArgNode, with a marker of its type; no hook looks at it.
Parameter(n, marker) ==
  /\ Walking /\ Depth = function /\ n \notin Qualified
  /\ variables[Depth][n] = Nobody /\ Cardinality(Introduced) < MaxDeclarations
  /\ \A m \in Idents : variables[Depth][m] # Nobody => variables[Depth][m].param
  /\ variables' = [variables EXCEPT ![Depth][n] =
                     [kind |-> marker, region |-> Scope, anchor |-> Nobody, param |-> TRUE]]
  /\ UNCHANGED <<mFrames, function, verdict, offence, reassigned>>

\* analyzeVar: n with its marker, and & source as its initial value.
AnalyzeVar(n, marker, isThreadLocal, source) ==
  LET region == RegionOfVar(n, isThreadLocal)
      info == IF marker = "none" THEN mFrames[Depth].smart[n] ELSE [kind |-> marker, region |-> region]
      anchor == IF source = Nobody THEN Nobody ELSE FindSmart(source)
      target == IF source = Nobody THEN Nobody ELSE Meant(source)
  IN  /\ Walking
      /\ variables[Depth][n] = Nobody /\ Cardinality(Introduced) < MaxDeclarations
      /\ source # n
      /\ mFrames' = [mFrames EXCEPT ![Depth] =
           [smart |-> [@.smart EXCEPT ![n] = info],
            borrows |-> IF source = Nobody THEN @.borrows ELSE [@.borrows EXCEPT ![n] = source]]]
      /\ variables' = [variables EXCEPT ![Depth][n] = 
                         [kind |-> marker, region |-> region, anchor |-> target, param |-> FALSE]]
      /\ verdict' = IF anchor # Nobody /\ region > anchor.region THEN {"region"} ELSE {}
      /\ offence' = IF target # Nobody /\ Of(target).kind # "none" /\ region > Of(target).region
                    THEN {Breach(target, "region")} ELSE {}
      /\ UNCHANGED <<function, reassigned>>

\* A plain assignment: only a unique owner is asked for.
Write(n) == verdict' = IF OwnerUnderBorrow(n) /\ FindSmart(n).kind = "unique" THEN {"mutated"} ELSE {}
Mutated(d) == IF ViewedOwner(d) /\ Of(d).kind = "unique" THEN {Breach(d, "mutated")} ELSE {}

\* n = source, with source Nobody for a value or = & source.
AnalyzeAssign(n, source) ==
  LET d == Meant(n)
      target == IF source = Nobody THEN Nobody ELSE Meant(source)
  IN  /\ Walking /\ n \in Visible
      /\ Write(n) /\ offence' = Mutated(d)
      /\ reassigned' = (target # Of(d).anchor)
      /\ UNCHANGED <<mFrames, function, variables>>

\* n = _, a reset: the hook sees an assignment like any other.
AnalyzeReset(n) ==
  LET d == Meant(n)
  IN  /\ Walking /\ n \in Visible
      /\ Write(n)
      /\ offence' = Mutated(d) \cup (IF ViewedOwner(d) THEN {Breach(d, "reset")} ELSE {})
      /\ reassigned' = (Of(d).anchor # Nobody)
      /\ UNCHANGED <<mFrames, function, variables>>

\* n :=: other, or n :=: _ when other is Nobody; two views change places.
AnalyzeSwap(n, other) ==
  LET d == Meant(n)
      e == IF other = Nobody THEN d ELSE Meant(other)
      shown == IF other = Nobody THEN Nobody ELSE Of(e).anchor
  IN  /\ Walking /\ n \in Visible
      /\ verdict' = IF \E m \in {n, other} \ {Nobody} : OwnerUnderBorrow(m) THEN {"moved"} ELSE {}
      /\ offence' = {Breach(o, "moved") : o \in {x \in {d, e} : ViewedOwner(x)}}
      /\ reassigned' = (shown # Of(d).anchor)
      /\ UNCHANGED <<mFrames, function, variables>>

BorrowNext ==
  \/ \E isFunction \in BOOLEAN : EnterScope(isFunction)
  \/ ExitScope
  \/ \E n \in Idents :
       \/ \E marker \in Markers : Parameter(n, marker)
       \/ AnalyzeReset(n)
  \/ \E n \in Idents, source \in Visible \cup {Nobody} :
       \/ \E marker \in Markers, isThreadLocal \in BOOLEAN : AnalyzeVar(n, marker, isThreadLocal, source)
       \/ AnalyzeAssign(n, source)
       \/ AnalyzeSwap(n, source)

BorrowSpec == BorrowInit /\ [][BorrowNext]_borrowVars

-----------------------------------------------------------------------------
BorrowTypeOK ==
  /\ DOMAIN variables = DOMAIN mFrames /\ function <= Depth
  /\ \A i \in DOMAIN mFrames :
       /\ mFrames[i].borrows \in [Idents -> Idents \cup {Nobody}]
       /\ \A n \in Idents : mFrames[i].smart[n] # Nobody => variables[i][n].kind = mFrames[i].smart[n].kind
  /\ verdict \subseteq {"region", "moved", "mutated"}
  /\ offence \subseteq {"region", "moved", "mutated", "reset", "parameter"}

\* The rules the hook has code for, of owners it was told of.
Covered == {"region", "moved", "mutated"}

\* No borrowed variable that owns its object is moved, no unique one written
\* and no view made to outlive a marked owner without a report, whatever names
\* hide others in the scopes between; and while no name hides another nothing
\* else is reported (borrow_check.cpp:116-126, 149-170, 196-226).  It says
\* nothing of resets and of parameters, which are reported by chance only, nor
\* of what follows a statement that gives a view another object.
BorrowsReported ==
  /\ offence \cap Covered \subseteq verdict
  /\ NoneHidden => verdict = offence \cap Covered

\* "move/reset/swap of an owner during a live borrow -> BorrowOwnerMoved"
\* (borrow_check.hpp:19); n = _ is a plain assignment to the hook (196-204).
ResetsReported == "reset" \in offence => "moved" \in verdict

\* The same line, and "a view must not outlive its anchor" (line 18), say
\* "owner" and "anchor" of any variable; the hook knows no parameter (231-234).
ParametersReported == "parameter" \in offence => verdict # {}
=============================================================================
