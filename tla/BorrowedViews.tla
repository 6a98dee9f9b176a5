--------------------------- MODULE BorrowedViews ----------------------------
(* The check for the use of a view after a change of the data it shows     *)
(* (@[borrowed]): NativeRefHook of src/semantic/nativeref.cpp with its     *)
(* epochs (include/semantic/frame_epoch.hpp), as the name resolution walks *)
(* over the statements of a function in nested blocks.  A hook sees a      *)
(* statement before the names in it are resolved.  Beside the tables of    *)
(* the check runs the truth: what each variable shows, and whether that    *)
(* has changed since.                                                      *)
EXTENDS Naturals, Sequences, FiniteSets, FiniteSetsExt

CONSTANTS
  Vars,       \* names of variables
  MaxBlocks,  \* nested blocks (bound)
  MaxEpoch,   \* changes of one variable (bound)
  Followed,   \* limits of the check past which a run goes on (bound)
  None

\* What the check cannot follow.
Limits == {"shadowed", "itself", "elsewhere", "owncall", "sigil", "element", "variable", "swapped"}

ASSUME ViewAssumption ==
  /\ IsFiniteSet(Vars) /\ MaxEpoch \in Nat /\ Followed \subseteq Limits
  /\ None \notin Vars /\ None \notin Nat \X Vars
  /\ None \notin [root : Vars, born : Nat]
  /\ None \notin [of : (Nat \X Vars) \cup {None}, stale : BOOLEAN]

VARIABLES
  frames,     \* per block: names declared, their epochs, views with root and epoch of birth
  facts,      \* per block, the truth: what a variable declared in it shows
  reported,   \* the check has reported the use of a view
  misused,    \* a view was used after its data had changed
  limits      \* limits of the check that the function has met

viewVars == <<frames, facts, reported, misused, limits>>

Entries == [root : Vars, born : 0 .. MaxEpoch]
Plain == [of |-> None, stale |-> FALSE]
EmptyFrame == [declared |-> {}, epoch |-> [n \in Vars |-> 0], dep |-> [n \in Vars |-> None]]
NoFacts == [n \in Vars |-> None]

ViewInit ==
  /\ frames = <<EmptyFrame>>
  /\ facts = <<NoFacts>>
  /\ reported = FALSE
  /\ misused = FALSE
  /\ limits = {}

Top == Len(frames)
Going == ~reported /\ ~misused /\ limits \subseteq Followed

\* FrameEpoch: the epochs of a name are kept in the block that declares it.
FrameOf(fr, n) ==
  LET declaring == {i \in DOMAIN fr : n \in fr[i].declared}
  IN  IF declaring = {} THEN 1 ELSE Max(declaring)
EpochOf(fr, n) == fr[FrameOf(fr, n)].epoch[n]
Mutate(fr, n) == [fr EXCEPT ![FrameOf(fr, n)].epoch[n] = @ + 1]

\* findFrameWithDependent: the entry of the innermost block that has one.
Dependent(fr, n) == \E i \in DOMAIN fr : fr[i].dep[n] # None
EntryOf(fr, n) == fr[Max({i \in DOMAIN fr : fr[i].dep[n] # None})].dep[n]
HasDependents(fr, n) == \E i \in DOMAIN fr, v \in Vars : fr[i].dep[v] # None /\ fr[i].dep[v].root = n

\* Mutant: a view of a view depends on that view alone.
NearestRoot(fr, n) == n

\* resolveRootSource
RootOf(fr, n) ==
  LET Climb[seen \in SUBSET Vars] == [m \in Vars |->
        IF ~Dependent(fr, m) THEN m
        ELSE LET up == EntryOf(fr, m).root
             IN  IF up = m \/ up \in seen THEN m ELSE Climb[seen \cup {up}][up]]
  IN  Climb[{}][n]

\* An entry made now, in the current block.
Enters(fr, n, source) ==
  [fr EXCEPT ![Len(fr)].dep[n] = [root |-> source, born |-> EpochOf(fr, source)]]

\* recordBirth: mark is where the attribute stands, at the method or class
\* that the right side calls or at the variable (or its class).
RecordBirth(fr, n, source, mark) ==
  IF source # None /\ (mark # "none" \/ Dependent(fr, source))
  THEN LET root == RootOf(fr, source) IN IF root = n THEN fr ELSE Enters(fr, n, root)
  ELSE fr

RecordChange(fr, n) == IF HasDependents(fr, n) THEN Mutate(fr, n) ELSE fr

\* The right side calls a method of source: "none" that changes it, or one
\* that does, written source.m() ("bare") or $source.m() ("sigil"), whose
\* name the hook does not strip of its sigil.
RecordCall(fr, source, call) == IF call = "bare" THEN RecordChange(fr, source) ELSE fr

\* propagateBorrowOnAssign looks at the right side alone.
Propagate(fr, n, source, mark) ==
  LET borrowed == source # None /\ (mark = "call" \/ Dependent(fr, source))
      root == RootOf(fr, source)
  IN  IF borrowed /\ root # n THEN Enters(fr, n, root)
      ELSE [fr EXCEPT ![Len(fr)].dep[n] = None]

\* onResolve
Reports(fr, n) == Dependent(fr, n) /\ EpochOf(fr, EntryOf(fr, n).root) > EntryOf(fr, n).born

\* The truth: a name means its innermost declaration.
Home(n) == Max({i \in DOMAIN facts : facts[i][n] # None})
Known == {n \in Vars : \E i \in DOMAIN facts : facts[i][n] # None}
Fact(n) == facts[Home(n)][n]
Place(n) == <<Home(n), n>>
Owns(n) == Fact(n).of = None
Shows(source, mark) ==
  IF source = None THEN Plain
  ELSE IF ~Owns(source) THEN Fact(source)
  ELSE IF mark # "none" THEN [of |-> Place(source), stale |-> FALSE] ELSE Plain
Spoilt(ft, where) ==
  [i \in DOMAIN ft |-> [n \in Vars |->
     IF ft[i][n] # None /\ ft[i][n].of = where THEN [ft[i][n] EXCEPT !.stale = TRUE] ELSE ft[i][n]]]
\* A change through a view leaves the views of the same data as they are.
Changed(ft, n) == IF Owns(n) THEN Spoilt(ft, Place(n)) ELSE ft
Called(source, call) == IF call = "none" THEN facts ELSE Changed(facts, source)
StaleUse(names) == \E n \in names \ {None} : Fact(n).stale
Viewed(n) == \E i \in DOMAIN facts, v \in Vars : facts[i][v] # None /\ facts[i][v].of = Place(n)

Met(limit, when) == IF when THEN {limit} ELSE {}

Bounded(fr) == \A i \in DOMAIN fr, n \in Vars : fr[i].epoch[n] <= MaxEpoch

-----------------------------------------------------------------------------
EnterBlock ==
  /\ Going /\ Top < MaxBlocks
  /\ frames' = Append(frames, EmptyFrame)
  /\ facts' = Append(facts, NoFacts)
  /\ UNCHANGED <<reported, misused, limits>>

\* What lived in the block is gone, and with it what views showed of it.
ExitBlock ==
  /\ Going /\ Top > 1
  /\ frames' = SubSeq(frames, 1, Top - 1)
  /\ facts' = [i \in 1 .. Top - 1 |-> [n \in Vars |->
       IF facts[i][n] # None /\ facts[i][n].of # None /\ facts[i][n].of[1] = Top
       THEN [facts[i][n] EXCEPT !.stale = TRUE] ELSE facts[i][n]]]
  /\ UNCHANGED <<reported, misused, limits>>

\* n := source; a source of its own name in an outer block is left out.  The
\* view is recorded at the declaration, before the walk comes to the call.
Declare(n, source, mark, call) ==
  LET declared == [frames EXCEPT ![Top].declared = @ \cup {n}]
      fr == RecordCall(RecordBirth(declared, n, source, mark), source, call)
  IN  /\ Going
      /\ facts[Top][n] = None
      /\ source # n
      /\ source = None => call = "none"
      /\ frames' = fr /\ Bounded(fr)
      /\ facts' = [Called(source, call) EXCEPT ![Top][n] = Shows(source, mark)]
      /\ reported' = (source # None /\ Reports(fr, source))
      /\ misused' = StaleUse({source})
      /\ limits' = limits
           \cup Met("shadowed", n \in Known)
           \cup Met("owncall", call = "bare" /\ Owns(source) /\ mark # "none")
           \cup Met("sigil", call = "sigil" /\ Owns(source))

\* n = source: the change of n, its new entry, the name n, then the right side.
Assign(n, source, mark, call) ==
  LET made == Propagate(RecordChange(frames, n), n, source, mark)
      fr == RecordCall(made, source, call)
  IN  /\ Going
      /\ n \in Known
      /\ source = None => call = "none"
      /\ frames' = fr /\ Bounded(fr)
      /\ facts' = [Spoilt(Called(source, call), Place(n)) EXCEPT ![Home(n)][n] = Shows(source, mark)]
      /\ reported' = (Reports(made, n) \/ (source # None /\ Reports(fr, source)))
      /\ misused' = StaleUse({source})
      /\ limits' = limits
           \cup Met("itself", n = source                 \* its entry is renewed first
                       \/ (source # None /\ Fact(source).of = Place(n)))  \* changed first
           \cup Met("elsewhere", Home(n) # Top /\        \* the entry goes with the block
                       (~Owns(n) \/ Shows(source, mark).of # None))
           \cup Met("owncall", call = "bare" /\ Owns(source) /\ mark = "call")
           \cup Met("sigil", call = "sigil" /\ Owns(source))
           \cup Met("variable", mark = "variable" /\ source # None /\ Owns(source))

\* n changes its data, with reading another name: n.method(with) or n += with
\* ("bare"), $n.method(with) ("sigil"), or n[i] = with, n[] = with and
\* n.field = with ("element"), which no rule of the hook sees.
Change(n, how, with) ==
  LET fr == IF how = "bare" THEN RecordChange(frames, n) ELSE frames
  IN  /\ Going
      /\ n \in Known
      /\ frames' = fr /\ Bounded(fr)
      /\ facts' = Changed(facts, n)
      /\ reported' = (\E m \in {n, with} \ {None} : Reports(fr, m))
      /\ misused' = StaleUse({n, with})
      /\ limits' = limits
           \cup Met("itself", with # None /\ Fact(with).of = Place(n))
           \cup Met("sigil", how = "sigil" /\ Owns(n))
           \cup Met("element", how = "element" /\ Owns(n))

\* n :=: other, or the reset n :=: _ (None): only the left side is a change.
SwapData(n, other) ==
  LET fr == RecordChange(frames, n)
      gone == IF other = None THEN Plain ELSE Fact(other)
      there == IF other = None THEN n ELSE other
      moved == Spoilt(Spoilt(facts, Place(n)), Place(there))
  IN  /\ Going
      /\ n \in Known /\ n # other
      /\ frames' = fr /\ Bounded(fr)
      /\ facts' = [moved EXCEPT ![Home(there)][there] = Fact(n), ![Home(n)][n] = gone]
      /\ reported' = (\E m \in {n, other} \ {None} : Reports(fr, m))
      /\ misused' = StaleUse({n, other})
      /\ limits' = limits \cup Met("swapped",
           ~Owns(n) \/ (other # None /\ (~Owns(other) \/ Viewed(other))))

Use(n) ==
  /\ Going
  /\ n \in Known
  /\ reported' = Reports(frames, n)
  /\ misused' = StaleUse({n})
  /\ UNCHANGED <<frames, facts, limits>>

ViewNext ==
  \/ EnterBlock \/ ExitBlock
  \/ \E n \in Vars, source \in Known \cup {None} :
       \/ \E how \in {"bare", "sigil", "element"} : Change(n, how, source)
       \/ SwapData(n, source)
       \/ \E mark \in {"none", "call", "variable"}, call \in {"none", "bare", "sigil"} :
            Declare(n, source, mark, call) \/ Assign(n, source, mark, call)
  \/ \E n \in Vars : Use(n)

ViewSpec == ViewInit /\ [][ViewNext]_viewVars

-----------------------------------------------------------------------------
ViewTypeOK ==
  /\ \A i \in DOMAIN frames :
       /\ frames[i].declared \subseteq Vars
       /\ frames[i].epoch \in [Vars -> 0 .. MaxEpoch]
       /\ frames[i].dep \in [Vars -> Entries \cup {None}]
  /\ DOMAIN facts = DOMAIN frames
  /\ reported \in BOOLEAN /\ misused \in BOOLEAN /\ limits \subseteq Limits

\* Until the function meets a limit, the check reports the first use of a
\* view after a change of its data, from whatever block and through any chain
\* of views of views, and nothing else (nativeref.cpp:202-261, 438-535).  The
\* limits, each at its action: a name is shadowed; a view gets its data from
\* itself, is assigned outside its own block or is of a variable so marked; it
\* is made by a call that changes its source; data change behind a sigil, by
\* element or as the other side of a swap.
ViewsReported == limits = {} => (reported <=> misused)

\* The header: only views born before a change of their data are invalid
\* (include/semantic/nativeref.hpp:22-23).  A view made by a method that
\* changes its object is recorded before the walk comes to the call, which
\* then counts as a change after its birth (nativeref.cpp:463-470, 493-508).
FreshViewsUsable == limits \subseteq {"owncall"} => (reported => misused)

\* The header: any change of the data by a call of a non-const method is seen
\* (include/semantic/nativeref.hpp:22-23), $d.method() too, like the
\* assignment to $d (nativeref.cpp:479); the code looks for dependents of
\* "$d" there (497-498), and none is ever recorded by that name (203, 208).
SigilChangesReported == limits \subseteq {"sigil"} => (misused => reported)
=============================================================================
