------------------------------ MODULE SyncLocks ------------------------------
(***************************************************************************)
(* Synchronised references of the runtime                                  *)
(* (src/include/runtime/trust/trusted-cpp-sync.hpp): AccessShared with its  *)
(* three policies, and the Locker guards of trusted-cpp.hpp that hold the  *)
(* locks.  Threads lock single references (lock, lock_const, try_lock,     *)
(* try_lock_const, set), pairs of them (lock_all), and destroy or move the *)
(* guards in any order.                                                    *)
(*                                                                         *)
(* Locks and guards are separate state: a lock is a std::timed_mutex or    *)
(* shared_timed_mutex, a guard the C++ object that has to unlock it.  A    *)
(* capture that gives up throws IntMinus or returns nullopt; the           *)
(* difference does not reach the locks.  Captures of a null reference fail *)
(* before anything is locked and are left out.                             *)
(***************************************************************************)
EXTENDS Integers, Sequences, FiniteSets

CONSTANTS
  Threads,
  Lockers,      \* the guard variables of each thread
  Objects,      \* control blocks, by address
  MaxAddress,
  Kind,         \* the policy of each object: "mutex", "rw" or "single"
  Home,         \* the thread that created each object
  DefaultOf,    \* its own or the global detector timeout, in milliseconds
  Timeouts,     \* the timeouts passed explicitly
  Ordered,      \* threads that capture only by lock_all of two references,
                \* and hold no guard when they do
  Width,        \* bits of the clock's tick count
  TicksPerMs,
  None

ASSUME SyncAssumption ==
  /\ IsFiniteSet(Threads) /\ IsFiniteSet(Lockers)
  /\ MaxAddress \in Nat /\ Objects \subseteq 0..MaxAddress
  /\ Kind \in [Objects -> {"mutex", "rw", "single"}]
  /\ Home \in [Objects -> Threads]
  /\ DefaultOf \in [Objects -> Int]
  /\ Timeouts \subseteq Int
  /\ Ordered \subseteq Threads
  /\ Width \in Nat \ {0}
  /\ TicksPerMs \in Nat \ {0}

\* None is no guard, no capture, no explicit timeout.
ASSUME NoneAssumption ==
  /\ None \notin Int
  /\ None \notin [obj : Objects, shared : BOOLEAN]

VARIABLES
  lock,         \* the mutex of each object
  guard,        \* what each guard variable holds
  capture       \* the call each thread is in: what it still has to lock

vars == <<lock, guard, capture>>

Cells == Threads \X Lockers

Guards == [obj : Objects, shared : BOOLEAN]

\* One try_lock_for: the guard to make, for which object, how, how long.
Requests == [slot : Lockers, obj : Objects, shared : BOOLEAN,
             timeout : Timeouts \cup {None}]

Captures == [todo : Seq(Requests), taken : SUBSET Lockers]

TypeOK ==
  /\ lock \in [Objects -> [writer : BOOLEAN, readers : Nat]]
  /\ guard \in [Cells -> Guards \cup {None}]
  /\ capture \in [Threads -> Captures \cup {None}]
  /\ \A t \in Threads : capture[t] # None => capture[t].todo # << >>

Init ==
  /\ lock = [o \in Objects |-> [writer |-> FALSE, readers |-> 0]]
  /\ guard = [c \in Cells |-> None]
  /\ capture = [t \in Threads |-> None]

-----------------------------------------------------------------------------
(* Timeouts.                                                               *)

Largest == 2^(Width - 1) - 1

\* Two's complement of Width bits.
Wrap(n) == ((n + 2^(Width - 1)) % 2^Width) - 2^(Width - 1)

\* A wait of half the range of the clock does not end while the program runs.
Forever == 2^(Width - 2)

\* effective_timeout: a negative one stands for the longest.
Effective(ms) == IF ms < 0 THEN Largest ELSE ms

\* Only the default goes through effective_timeout.  try_lock_for converts
\* milliseconds to ticks of the clock; a product out of range wraps around.
Patience(q) ==
  Wrap(TicksPerMs *
         (IF q.timeout = None THEN Effective(DefaultOf[q.obj]) ELSE q.timeout))

-----------------------------------------------------------------------------
(* The policies.                                                           *)

Reads(g) == g.shared /\ Kind[g.obj] = "rw"
Writes(g) == ~Reads(g) /\ Kind[g.obj] # "single"

\* The guards on o, of all threads, that hold its mutex in either mode.
Readers(o) == {c \in Cells : guard[c] # None /\ guard[c].obj = o /\ Reads(guard[c])}
Writers(o) == {c \in Cells : guard[c] # None /\ guard[c].obj = o /\ Writes(guard[c])}

\* Mutant: a writer does not wait for readers.
PassesReaders(t, q) ==
  \/ Kind[q.obj] = "single" /\ t = Home[q.obj]
  \/ Kind[q.obj] # "single" /\ ~lock[q.obj].writer

\* try_lock or try_lock_shared can succeed now.  A thread that captures the
\* same object again waits for itself.
Free(t, q) ==
  \/ Kind[q.obj] = "single" /\ t = Home[q.obj]
  \/ /\ Kind[q.obj] # "single"
     /\ ~lock[q.obj].writer
     /\ Reads(q) \/ lock[q.obj].readers = 0

Locked(q) ==
  [lock EXCEPT ![q.obj] =
     [writer |-> @.writer \/ Writes(q),
      readers |-> IF Reads(q) THEN @.readers + 1 ELSE @.readers]]

\* Mutant: an exclusive guard counts as a reader when it is released.
UnlockedAsReaders(C) ==
  [o \in Objects |->
     [writer |-> lock[o].writer /\ C \cap Writers(o) = {},
      readers |-> lock[o].readers
                    - Cardinality(C \cap (Readers(o) \cup Writers(o)))]]

\* SyncRelease::unlock for the guards in the cells C.
Unlocked(C) ==
  [o \in Objects |->
     [writer |-> lock[o].writer /\ C \cap Writers(o) = {},
      readers |-> lock[o].readers - Cardinality(C \cap Readers(o))]]

-----------------------------------------------------------------------------
(* Captures.                                                               *)

Holding(t) == {i \in Lockers : guard[<<t, i>>] # None}

Begin(t, todo) ==
  /\ capture[t] = None
  /\ capture' = [capture EXCEPT ![t] = [todo |-> todo, taken |-> {}]]
  /\ UNCHANGED <<lock, guard>>

\* lock, lock_const, try_lock, try_lock_const, set.
CaptureOne(t) ==
  /\ t \notin Ordered
  /\ \E q \in Requests : q.slot \notin Holding(t) /\ Begin(t, <<q>>)

\* Mutant: in the order of the arguments.
ByArgument(a, b) == <<a, b>>

\* By the address of the control block.
ByAddress(a, b) == IF a.obj < b.obj THEN <<a, b>> ELSE <<b, a>>

\* lock_all: two exclusive captures with the default timeouts.
CaptureBoth(t) ==
  \E a, b \in Requests :
    /\ a.slot # b.slot /\ {a.slot, b.slot} \cap Holding(t) = {}
    /\ ~a.shared /\ ~b.shared /\ a.timeout = None /\ b.timeout = None
    /\ t \in Ordered => a.obj # b.obj /\ Holding(t) = {}
    /\ Begin(t, ByAddress(a, b))

\* A try_lock succeeds and its guard is made.
Acquire(t) ==
  /\ capture[t] # None
  /\ LET q == Head(capture[t].todo)
         rest == Tail(capture[t].todo)
     IN /\ Free(t, q)
        /\ lock' = Locked(q)
        /\ guard' = [guard EXCEPT ![<<t, q.slot>>] = [obj |-> q.obj, shared |-> q.shared]]
        /\ capture' = [capture EXCEPT ![t] =
                         IF rest = << >> THEN None
                         ELSE [todo |-> rest, taken |-> @.taken \cup {q.slot}]]

\* Mutant: the mutex is waited for without a timeout.
GivesUpConfined(t, q) == Kind[q.obj] = "single" /\ t # Home[q.obj]

\* The capture throws, or returns nullopt: another thread's confined object,
\* or a wait that is over and not endless.
GivesUp(t, q) ==
  \/ Kind[q.obj] = "single" /\ t # Home[q.obj]
  \/ Kind[q.obj] # "single" /\ ~Free(t, q) /\ Patience(q) < Forever

\* Mutant: the guard taken first is lost, not destroyed.
UnwindNothing(t, C) ==
  /\ guard' = [c \in Cells |-> IF c \in C THEN None ELSE guard[c]]
  /\ UNCHANGED lock

\* Destructors of the guards in C run.
Destroy(t, C) ==
  /\ lock' = Unlocked(C)
  /\ guard' = [c \in Cells |-> IF c \in C THEN None ELSE guard[c]]

\* The guard that lock_all took before is destroyed on the way out.
GiveUp(t) ==
  /\ capture[t] # None
  /\ GivesUp(t, Head(capture[t].todo))
  /\ Destroy(t, {t} \X capture[t].taken)
  /\ capture' = [capture EXCEPT ![t] = None]

-----------------------------------------------------------------------------
(* Guards.                                                                 *)

\* ~Locker
Release(t) ==
  /\ capture[t] = None
  /\ \E i \in Holding(t) : Destroy(t, {<<t, i>>})
  /\ UNCHANGED capture

\* A guard is moved into a new variable, or into one moved from before.
Move(t) ==
  /\ capture[t] = None
  /\ \E i \in Holding(t), j \in Lockers \ Holding(t) :
       guard' = [guard EXCEPT ![<<t, j>>] = guard[<<t, i>>], ![<<t, i>>] = None]
  /\ UNCHANGED <<lock, capture>>

\* A guard is move-assigned over one that holds a lock: the defaulted
\* operator drops the release handle of the latter without calling unlock.
MoveOver(t) ==
  /\ capture[t] = None
  /\ \E i, j \in Holding(t) :
       /\ i # j
       /\ guard' = [guard EXCEPT ![<<t, j>>] = guard[<<t, i>>], ![<<t, i>>] = None]
  /\ UNCHANGED <<lock, capture>>

Step(t) ==
  \/ CaptureOne(t) \/ CaptureBoth(t) \/ Acquire(t) \/ GiveUp(t)
  \/ Release(t) \/ Move(t)

Next == \E t \in Threads : Step(t)

Spec == Init /\ [][Next]_vars

\* The threads of a program run, and a timed wait returns.
Fairness == \A t \in Threads : WF_vars(Acquire(t) \/ GiveUp(t))

FairSpec == Spec /\ Fairness

\* Programs that also assign to guards that hold a lock.
MovingSpec == Init /\ [][Next \/ \E t \in Threads : MoveOver(t)]_vars

-----------------------------------------------------------------------------
(* Properties.                                                             *)

\* While a guard gives access to a value no other guard may give write access
\* to it, in the same thread or in another; a confined object is accessed in
\* the thread that created it only.
MutualExclusion ==
  \A c, d \in Cells :
    guard[c] # None /\ guard[d] # None /\ guard[c].obj = guard[d].obj =>
      IF Kind[guard[c].obj] = "single" THEN c[1] = Home[guard[c].obj]
      ELSE c = d \/ (Reads(guard[c]) /\ Reads(guard[d]))

\* A mutex is locked exactly as the live guards say: none is left locked
\* without a guard that will unlock it, through moves, through exceptions
\* between the two captures of lock_all, and whatever the order of destruction.
LocksMatchGuards ==
  \A o \in Objects : /\ lock[o].writer <=> Writers(o) # {}
                     /\ lock[o].readers = Cardinality(Readers(o))

\* Thread t waits for a lock that a guard of u holds.
WaitsFor(t, u) ==
  /\ capture[t] # None
  /\ \E i \in Lockers :
       LET q == Head(capture[t].todo)
           g == guard[<<u, i>>]
       IN g # None /\ g.obj = q.obj /\ (Writes(g) \/ (Reads(g) /\ Writes(q)))

\* Threads that lock pairs of references by lock_all alone never wait for each
\* other in a circle, whatever the order of its arguments
\* (trusted-cpp-sync.hpp:458): every set of them that waits has a member that
\* none of the set blocks.
NoCircularWait ==
  \A S \in SUBSET Ordered :
    S # {} => \E t \in S : \A u \in S : ~WaitsFor(t, u)

\* Other threads may deadlock, and the detector ends it: no capture waits for
\* ever when no timeout is negative.
CapturesEnd ==
  \A t \in Threads : capture[t] # None ~> capture[t] = None

\* A capture whose default timeout is negative ends only when it has its lock
\* (trusted-cpp-sync.hpp:61: "wait until the end (block forever, deadlock
\* detector disabled)").
NegativeNeverGivesUp ==
  [][\A t \in Threads :
       /\ capture[t] # None /\ capture'[t] # capture[t]
       /\ Head(capture[t].todo).timeout = None
       /\ Kind[Head(capture[t].todo).obj] # "single"
       /\ DefaultOf[Head(capture[t].todo).obj] < 0
       => guard'[<<t, Head(capture[t].todo).slot>>] # None]_vars

=============================================================================
