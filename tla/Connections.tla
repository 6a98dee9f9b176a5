---------------------------- MODULE Connections -----------------------------
(* The connections of PlaygroundServer::run: one thread accepts, a         *)
(* detached thread serves each connection.  A connection takes a slot of   *)
(* the pool of all connections and, once its request is read, one of the   *)
(* pool of its class (workers or clients).  Each pool is a semaphore, a    *)
(* counter and the greatest value seen of that counter, and every access   *)
(* to one of the three is a step of its own.                               *)
EXTENDS Naturals, FiniteSets, FiniteSetsExt

CONSTANTS
  Conns,      \* connections that may be open, or knocking, at a time
  ConnLimit   \* slots of the pools: max_conns, max_client_conns, max_worker_conns

Classes == {"client", "worker"}
Pools == {"all"} \cup Classes

ASSUME ConnAssumption == /\ IsFiniteSet(Conns)
                         /\ ConnLimit \in [Pools -> Nat \ {0}]

VARIABLES
  free,       \* the semaphores: slots left in each pool
  used,       \* connsInUse_, clientConnsInUse_, workerConnsInUse_
  peak,       \* connsPeak_, clientConnsPeak_, workerConnsPeak_
  conn,       \* connection -> where its thread is, in which pool, what it has read
  accepting,  \* whether run() is still in its loop
  top         \* history: the greatest value a bumpPeak has loaded from a counter

connVars == <<free, used, peak, conn, accepting, top>>

Nowhere == [at |-> "new", pool |-> "all", cur |-> 0, prev |-> 0, next |-> "reading"]

ConnInit ==
  /\ free = ConnLimit
  /\ used = [p \in Pools |-> 0]
  /\ peak = [p \in Pools |-> 0]
  /\ conn = [c \in Conns |-> Nowhere]
  /\ accepting = TRUE
  /\ top = [p \in Pools |-> 0]

Goes(c, where) == conn' = [conn EXCEPT ![c].at = where]

\* Between accept() and the start of the connection's own thread the accepting
\* thread is busy with it.
BeingAccepted(c) ==
  conn[c].pool = "all" /\ conn[c].at \in {"counting", "loading", "comparing", "swapping", "starting"}

Accept(c) ==
  /\ accepting
  /\ \A d \in Conns : ~BeingAccepted(d)
  /\ conn[c].at = "new"
  /\ free["all"] > 0         \* else 503: the connection is closed at once
  /\ free' = [free EXCEPT !["all"] = @ - 1]
  /\ conn' = [conn EXCEPT ![c] = [Nowhere EXCEPT !.at = "counting", !.next = "starting"]]
  /\ UNCHANGED <<used, peak, accepting, top>>

\* Mutant: the connection is not counted.
CountMissed(c) ==
  /\ conn[c].at = "counting"
  /\ Goes(c, "loading")
  /\ UNCHANGED <<free, used, peak, accepting, top>>

Count(c) ==
  /\ conn[c].at = "counting"
  /\ used' = [used EXCEPT ![conn[c].pool] = @ + 1]
  /\ Goes(c, "loading")
  /\ UNCHANGED <<free, peak, accepting, top>>

\* bumpPeak: cur = used.load()
LoadUsed(c) ==
  LET p == conn[c].pool
  IN  /\ conn[c].at = "loading"
      /\ conn' = [conn EXCEPT ![c].at = "comparing", ![c].cur = used[p]]
      /\ top' = [top EXCEPT ![p] = Max({@, used[p]})]
      /\ UNCHANGED <<free, used, peak, accepting>>

\* bumpPeak: prev = peak.load()
LoadPeak(c) ==
  /\ conn[c].at = "comparing"
  /\ conn' = [conn EXCEPT ![c].at = "swapping", ![c].prev = peak[conn[c].pool]]
  /\ UNCHANGED <<free, used, peak, accepting, top>>

Bumped(c) == [Nowhere EXCEPT !.at = conn[c].next, !.pool = conn[c].pool]

\* Mutant: a plain store where the exchange compares.
SwapBlindly(c) ==
  LET p == conn[c].pool
  IN  /\ conn[c].at = "swapping"
      /\ peak' = [peak EXCEPT ![p] = IF conn[c].cur > conn[c].prev THEN conn[c].cur ELSE @]
      /\ conn' = [conn EXCEPT ![c] = Bumped(c)]
      /\ UNCHANGED <<free, used, accepting, top>>

\* bumpPeak: one turn of the loop; a spurious failure changes nothing.
Swap(c) ==
  LET p == conn[c].pool
  IN  /\ conn[c].at = "swapping"
      /\ \/ /\ conn[c].cur <= conn[c].prev
            /\ conn' = [conn EXCEPT ![c] = Bumped(c)]
            /\ UNCHANGED peak
         \/ /\ conn[c].cur > conn[c].prev
            /\ peak[p] = conn[c].prev
            /\ peak' = [peak EXCEPT ![p] = conn[c].cur]
            /\ conn' = [conn EXCEPT ![c] = Bumped(c)]
         \/ /\ conn[c].cur > conn[c].prev
            /\ peak[p] # conn[c].prev
            /\ conn' = [conn EXCEPT ![c].prev = peak[p]]
            /\ UNCHANGED peak
      /\ UNCHANGED <<free, used, accepting, top>>

Start(c) ==
  /\ conn[c].at = "starting"
  /\ Goes(c, "reading")
  /\ UNCHANGED <<free, used, peak, accepting, top>>

\* The thread cannot be created: the exception ends run(), and nothing gives
\* back what the connection holds.
StartFails(c) ==
  /\ conn[c].at = "starting"
  /\ Goes(c, "stranded")
  /\ accepting' = FALSE
  /\ UNCHANGED <<free, used, peak, top>>

\* A request that parses asks for a slot of its class.
EnterClass(c, class) ==
  /\ conn[c].at = "reading"
  /\ free[class] > 0
  /\ free' = [free EXCEPT ![class] = @ - 1]
  /\ conn' = [conn EXCEPT ![c] = [Nowhere EXCEPT !.at = "counting", !.pool = class,
                                                 !.next = "handling"]]
  /\ UNCHANGED <<used, peak, accepting, top>>

\* 400: no request within the read deadline, or one that does not parse;
\* 503: no slot left in its class.
Dismiss(c) ==
  /\ conn[c].at = "reading"
  /\ Goes(c, "writing")
  /\ UNCHANGED <<free, used, peak, accepting, top>>

\* Mutant: no guard, the slot is given back where handle() returns.
HandledUnguarded(c, outcome) ==
  /\ conn[c].at = "handling"
  /\ conn' = IF outcome = "writing"
             THEN [conn EXCEPT ![c].at = "releasing", ![c].next = outcome]
             ELSE [conn EXCEPT ![c] = [Nowhere EXCEPT !.at = outcome]]
  /\ UNCHANGED <<free, used, peak, accepting, top>>

\* Mutant: the response is written inside the scope of the guard.
HandledAndWritten(c, outcome) ==
  /\ conn[c].at = "handling"
  /\ conn' = [conn EXCEPT ![c].at = outcome, ![c].next = "closing"]
  /\ UNCHANGED <<free, used, peak, accepting, top>>

\* handle() returns a response or throws: the guard of the class slot runs in
\* both cases, the response is written in the first.
Handled(c, outcome) ==
  /\ conn[c].at = "handling"
  /\ conn' = [conn EXCEPT ![c].at = "releasing", ![c].next = outcome]
  /\ UNCHANGED <<free, used, peak, accepting, top>>

\* writeAll, which has no deadline, succeeds or not.
Write(c) ==
  /\ conn[c].at = "writing"
  /\ Goes(c, "closing")
  /\ UNCHANGED <<free, used, peak, accepting, top>>

\* The destructors of ClassSlotGuard and, after close(), of ConnGuard: first
\* the semaphore, then the counter.
GiveBack(c) ==
  LET p == IF conn[c].at = "closing" THEN "all" ELSE conn[c].pool
  IN  /\ conn[c].at \in {"releasing", "closing"}
      /\ free' = [free EXCEPT ![p] = @ + 1]
      /\ conn' = [conn EXCEPT ![c].at = "lowering", ![c].pool = p]
      /\ UNCHANGED <<used, peak, accepting, top>>

Lower(c) ==
  LET p == conn[c].pool
  IN  /\ conn[c].at = "lowering"
      /\ used' = [used EXCEPT ![p] = @ - 1]
      /\ conn' = [conn EXCEPT ![c] = IF p = "all" THEN Nowhere
                                     ELSE [Nowhere EXCEPT !.at = conn[c].next]]
      /\ UNCHANGED <<free, peak, accepting, top>>

\* requestStop ends the loop between two connections; the connections that
\* are open live on.
StopAccepting ==
  /\ accepting
  /\ \A c \in Conns : ~BeingAccepted(c)
  /\ accepting' = FALSE
  /\ UNCHANGED <<free, used, peak, conn, top>>

\* What the threads do by themselves; a peer may never take its response.
ConnStep(c) ==
  \/ Count(c) \/ LoadUsed(c) \/ LoadPeak(c) \/ Swap(c) \/ Start(c)
  \/ \E class \in Classes : EnterClass(c, class)
  \/ Dismiss(c)
  \/ \E outcome \in {"writing", "closing"} : Handled(c, outcome)
  \/ GiveBack(c) \/ Lower(c)

ConnNext ==
  \/ StopAccepting
  \/ \E c \in Conns : Accept(c) \/ ConnStep(c) \/ StartFails(c) \/ Write(c)

ConnFairness == \A c \in Conns : WF_connVars(ConnStep(c))

ConnSpec == ConnInit /\ [][ConnNext]_connVars /\ ConnFairness

-----------------------------------------------------------------------------
Places == {"new", "counting", "loading", "comparing", "swapping", "starting", "stranded",
           "reading", "handling", "releasing", "lowering", "writing", "closing"}

ConnTypeOK ==
  /\ free \in [Pools -> Nat]
  /\ used \in [Pools -> Nat]
  /\ peak \in [Pools -> Nat]
  /\ top \in [Pools -> Nat]
  /\ accepting \in BOOLEAN
  /\ conn \in [Conns -> [at : Places, pool : Pools, cur : Nat, prev : Nat,
                         next : {"reading", "starting", "handling", "writing", "closing"}]]

\* Connections that hold a slot of a pool, that count in it, and that have
\* given the slot back but still count.
UsersOf(p) ==
  {c \in Conns : /\ conn[c].at # "new"
                 /\ IF p = "all" THEN ~(conn[c].at = "lowering" /\ conn[c].pool = "all")
                    ELSE conn[c].pool = p /\ conn[c].at # "lowering"}
Counting(p) ==
  {c \in Conns : conn[c].at # "new" /\ (p = "all" \/ conn[c].pool = p)
                   /\ ~(conn[c].at = "counting" /\ conn[c].pool = p)}
Lowering(p) == {c \in Conns : conn[c].at = "lowering" /\ conn[c].pool = p}

\* No path of a connection, through refusals, handlers that throw, threads
\* that cannot start or the end of run(), loses or duplicates a slot of
\* either pool; and the statistics exceed a limit only by the connections
\* that are on their way out (server.cpp:1325-1349).
ConnSlotsExact ==
  \A p \in Pools :
    /\ free[p] + Cardinality(UsersOf(p)) = ConnLimit[p]
    /\ used[p] = Cardinality(Counting(p))
    /\ used[p] <= ConnLimit[p] + Cardinality(Lowering(p))

\* The recorded peak is never above what some thread saw, and a greater value
\* that a thread saw is never lost to another one's slower store: it is
\* recorded or its thread is still at it (server.cpp:212-217).
PeakNeverLost ==
  \A p \in Pools :
    /\ peak[p] <= top[p]
    /\ peak[p] = top[p] \/ \E c \in Conns : /\ conn[c].pool = p
                                            /\ conn[c].at \in {"comparing", "swapping"}
                                            /\ conn[c].cur = top[p]

\* A slot of a class comes back, whatever the peer does with the response:
\* it is not held while the response is written (server.cpp:1380-1385).
ClassSlotReturned ==
  \A c \in Conns : conn[c].pool # "all" ~> conn[c].pool = "all"
=============================================================================
