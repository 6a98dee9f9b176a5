--------------------------- MODULE BalancerProofs ---------------------------
(* Proofs about Balancer, for any numbers of requests and workers, and     *)
(* about the balancer together with its workers (Playground), for any      *)
(* numbers of crashes and any set of faults.                               *)
EXTENDS Playground, FiniteSetTheorems, SequenceTheorems, TLAPS

USE DEF Jobs, WorkerStates, Entries

-----------------------------------------------------------------------------
(* Releasing slots.                                                        *)

LEMMA SlotUpdateType ==
  ASSUME NEW x \in WorkerStates, NEW n \in Nat, NEW T \in SUBSET (Requests \X Nat)
  PROVE  /\ [x EXCEPT !.inFlight = n, !.slots = T] \in WorkerStates
         /\ [x EXCEPT !.inFlight = n, !.slots = T].inFlight = n
         /\ [x EXCEPT !.inFlight = n, !.slots = T].slots = T
  OBVIOUS

\* What a release leaves of a worker.
LEMMA ReleasedSlots ==
  ASSUME TypeOK, NEW S, NEW w \in Workers
  PROVE  /\ SlotsAfterRelease(S)[w] \in WorkerStates
         /\ SlotsAfterRelease(S)[w].inFlight
              = IF worker[w].inFlight > Cardinality(S \cap Holds(w))
                THEN worker[w].inFlight - Cardinality(S \cap Holds(w)) ELSE 0
         /\ SlotsAfterRelease(S)[w].slots = worker[w].slots \ LastSlots(S \cap Holds(w))
         /\ Cardinality(S \cap Holds(w)) \in Nat
<1> DEFINE freed == Cardinality(S \cap Holds(w))
           left == IF worker[w].inFlight > freed THEN worker[w].inFlight - freed ELSE 0
           kept == worker[w].slots \ LastSlots(S \cap Holds(w))
<1>1. IsFiniteSet(Holds(w))
  BY BalancerAssumption, FS_Subset DEF Holds
<1>2. freed \in Nat
  BY <1>1, FS_Intersection, FS_CardinalityType
<1>3. worker[w] \in WorkerStates
  BY DEF TypeOK
<1>4. left \in Nat /\ kept \in SUBSET (Requests \X Nat)
  BY <1>2, <1>3
<1>5. SlotsAfterRelease(S)[w] = [worker[w] EXCEPT !.inFlight = left, !.slots = kept]
  BY DEF SlotsAfterRelease
<1> HIDE DEF left, kept, freed
<1>6. /\ SlotsAfterRelease(S)[w] \in WorkerStates
      /\ SlotsAfterRelease(S)[w].inFlight = left
      /\ SlotsAfterRelease(S)[w].slots = kept
  BY <1>3, <1>4, <1>5
<1> QED
  BY <1>2, <1>6 DEF left, kept, freed

LEMMA ReleaseType ==
  ASSUME TypeOK, NEW S
  PROVE  SlotsAfterRelease(S) \in [Workers -> WorkerStates]
<1>1. \A w \in Workers : SlotsAfterRelease(S)[w] \in WorkerStates
  BY ReleasedSlots
<1>2. SlotsAfterRelease(S) = [w \in Workers |-> SlotsAfterRelease(S)[w]]
  BY DEF SlotsAfterRelease
<1> QED
  BY <1>1, <1>2

LEMMA JobUpdateType ==
  ASSUME NEW j \in Jobs
  PROVE  /\ Released(j) \in Jobs
         /\ Released(j).owner = j.owner
         /\ j.released \/ j.owner # None => Released(j).released
         /\ Released(j).done = j.done
         /\ Released(j).given = j.given
         /\ Requeued(j) \in Jobs
         /\ Requeued(j).owner = j.owner
         /\ Requeued(j).released = TRUE
         /\ Requeued(j).given = j.given
         /\ \A w \in Workers : [j EXCEPT !.owner = w, !.given = @ + 1] \in Jobs
         /\ \A x \in Results : [Released(j) EXCEPT !.result = x, !.done = TRUE] \in Jobs
<1>1. /\ Released(j) \in Jobs
      /\ Released(j).owner = j.owner
      /\ j.released \/ j.owner # None => Released(j).released
      /\ Released(j).done = j.done
      /\ Released(j).given = j.given
  BY DEF Released
<1>2. /\ Requeued(j) \in Jobs
      /\ Requeued(j).owner = j.owner
      /\ Requeued(j).released = TRUE
      /\ Requeued(j).given = j.given
  <2>1. \A n \in Nat :
          LET k == [j EXCEPT !.attempts = n, !.released = TRUE]
          IN k \in Jobs /\ k.owner = j.owner /\ k.released = TRUE /\ k.given = j.given
    OBVIOUS
  <2>2. j.attempts + 1 \in Nat
    OBVIOUS
  <2> QED BY <2>1, <2>2 DEF Requeued
<1>3. \A w \in Workers : [j EXCEPT !.owner = w, !.given = @ + 1] \in Jobs
  <2>1. \A w \in Workers, n \in Nat : [j EXCEPT !.owner = w, !.given = n] \in Jobs
    OBVIOUS
  <2>2. j.given + 1 \in Nat
    OBVIOUS
  <2> HIDE DEF Jobs
  <2> QED BY <2>1, <2>2
<1>4. \A x \in Results : [Released(j) EXCEPT !.result = x, !.done = TRUE] \in Jobs
  BY <1>1
<1> QED
  BY <1>1, <1>2, <1>3, <1>4

\* The two halves of a hand-out: the job has its worker, and the worker is
\* charged one slot for hand-out n.
GivenTo(jb, h, w) == [jb EXCEPT ![h] = [jb[h] EXCEPT !.owner = w, !.given = @ + 1]]

Charged(ws, w, h, n) ==
  [ws EXCEPT ![w] = [ws[w] EXCEPT !.inFlight = ws[w].inFlight + 1,
                                  !.slots = ws[w].slots \cup {<<h, n>>}]]

LEMMA HandOutParts ==
  ASSUME NEW jb \in [Requests -> Jobs], NEW ws \in [Workers -> WorkerStates],
         NEW q \in Seq(Requests), q # << >>, NEW w \in Workers, HandOut(w, jb, ws, q)
  PROVE  /\ job' = GivenTo(jb, Head(q), w)
         /\ worker' = Charged(ws, w, Head(q), jb[Head(q)].given + 1)
         /\ queue' = Tail(q)
<1>1. Head(q) \in Requests
  BY HeadTailProperties
<1> DEFINE h == Head(q)
           n == jb[h].given + 1
<1>2. job' = [jb EXCEPT ![h].owner = w, ![h].given = jb[h].given + 1]
  BY DEF HandOut
<1>3. worker' = [ws EXCEPT ![w].inFlight = ws[w].inFlight + 1,
                          ![w].slots = ws[w].slots \cup {<<h, n>>}]
  BY DEF HandOut
<1> HIDE DEF h, n
<1>4. job' = GivenTo(jb, h, w)
  BY <1>1, <1>2 DEF GivenTo, h
<1>5. worker' = Charged(ws, w, h, n)
  BY <1>3 DEF Charged
<1> QED
  BY <1>4, <1>5 DEF HandOut, h, n

LEMMA HandOutType ==
  ASSUME NEW jb \in [Requests -> Jobs], NEW ws \in [Workers -> WorkerStates],
         NEW h \in Requests, NEW w \in Workers
  PROVE  /\ GivenTo(jb, h, w) \in [Requests -> Jobs]
         /\ Charged(ws, w, h, jb[h].given + 1) \in [Workers -> WorkerStates]
<1>1. jb[h] \in Jobs /\ jb[h].given + 1 \in Nat
  OBVIOUS
<1>2. [jb[h] EXCEPT !.owner = w, !.given = @ + 1] \in Jobs
  BY <1>1, JobUpdateType
<1>3. GivenTo(jb, h, w) \in [Requests -> Jobs]
  BY <1>2 DEF GivenTo
<1>4. /\ ws[w].inFlight + 1 \in Nat /\ ws[w] \in WorkerStates
      /\ ws[w].slots \cup {<<h, jb[h].given + 1>>} \in SUBSET (Requests \X Nat)
  BY <1>1
<1>5. [ws[w] EXCEPT !.inFlight = ws[w].inFlight + 1,
                    !.slots = ws[w].slots \cup {<<h, jb[h].given + 1>>}] \in WorkerStates
  BY <1>4, SlotUpdateType
<1> QED
  BY <1>3, <1>5 DEF Charged

LEMMA SeenType ==
  ASSUME NEW ws \in [Workers -> WorkerStates], NEW w \in Workers
  PROVE  /\ [ws EXCEPT ![w].known = TRUE, ![w].fresh = TRUE] \in [Workers -> WorkerStates]
         /\ Seen(ws, w) \in [Workers -> WorkerStates]
         /\ \A u \in Workers :
              LET x == [ws EXCEPT ![w].known = TRUE, ![w].fresh = TRUE][u]
              IN x.inFlight = ws[u].inFlight /\ x.slots = ws[u].slots
  BY DEF Seen

LEMMA SeenSlots ==
  ASSUME NEW ws \in [Workers -> WorkerStates], NEW w \in Workers
  PROVE  \A u \in Workers : /\ Seen(ws, w)[u].inFlight = ws[u].inFlight
                             /\ Seen(ws, w)[u].slots = ws[u].slots
  BY DEF Seen

LEMMA OrdersType ==
  ASSUME NEW S \in SUBSET Requests, NEW order \in SetToSeqs(S)
  PROVE  /\ order \in Seq(Requests)
         /\ \A i \in DOMAIN order : order[i] \in S
<1>1. IsFiniteSet(S) /\ Cardinality(S) \in Nat
  BY BalancerAssumption, FS_Subset, FS_CardinalityType
<1>2. order \in [1..Cardinality(S) -> S]
  BY DEF SetToSeqs
<1>3. order \in Seq(S)
  BY <1>1, <1>2
<1> QED
  BY <1>2, <1>3

-----------------------------------------------------------------------------
(* Type correctness.                                                       *)

LEMMA InitType == Init => TypeOK
<1> SUFFICES ASSUME Init PROVE TypeOK
  OBVIOUS
<1>1. NewJob \in Jobs /\ UnknownWorker \in WorkerStates
  BY DEF NewJob, UnknownWorker
<1>2. queue \in Seq(Requests) /\ inFlight \subseteq Requests /\ stop \in BOOLEAN
  <2>1. queue = << >> /\ inFlight = {} /\ stop = FALSE
    BY DEF Init
  <2> QED BY <2>1, EmptySeq
<1>3. job \in [Requests -> Jobs] /\ worker \in [Workers -> WorkerStates]
  BY <1>1 DEF Init
<1> QED
  BY <1>2, <1>3 DEF Init, TypeOK

LEMMA RespondType ==
  ASSUME TypeOK, NEW r \in Requests, NEW status \in Statuses,
         NEW result \in Results \cup {None}, Respond(r, status, result)
  PROVE  /\ client' \in [Requests -> {"new", "checked", "waiting", "answered"}]
         /\ answer' \in [Requests -> [status : Statuses, result : Results \cup {None}]
                                     \cup {None}]
  BY DEF TypeOK, Respond

LEMMA HandOutStepType ==
  ASSUME NEW jb \in [Requests -> Jobs], NEW ws \in [Workers -> WorkerStates],
         NEW q \in Seq(Requests), q # << >>, NEW w \in Workers, HandOut(w, jb, ws, q)
  PROVE  /\ job' \in [Requests -> Jobs]
         /\ worker' \in [Workers -> WorkerStates]
         /\ queue' \in Seq(Requests)
<1>1. Head(q) \in Requests /\ Tail(q) \in Seq(Requests)
  BY HeadTailProperties
<1>2. /\ job' = GivenTo(jb, Head(q), w) /\ queue' = Tail(q)
      /\ worker' = Charged(ws, w, Head(q), jb[Head(q)].given + 1)
  BY HandOutParts
<1> QED
  BY <1>1, <1>2, HandOutType

\* The part of TypeOK about the waiters, which every step but a few leaves
\* alone or resets.
WaitersOK == asleep \in [Workers -> Nat] /\ dozing \subseteq Requests

LEMMA ClientWaiters ==
  ASSUME TypeOK, NEW r \in Requests, ClientStep(r)
  PROVE  WaitersOK'
<1> USE DEF WaitersOK
<1>1. CASE Refuse(r) \/ AnswerFromCache(r) \/ PassChecks(r) \/ TurnAway(r)
  BY <1>1 DEF Refuse, AnswerFromCache, PassChecks, TurnAway, sleepers, TypeOK
<1>2. CASE Enqueue(r)
  BY <1>2 DEF Enqueue
<1>3. CASE DozesOff(r)
  BY <1>3 DEF DozesOff, TypeOK
<1>4. ASSUME NEW late \in BOOLEAN, Return(r, late)
      PROVE  WaitersOK'
  BY <1>4 DEF Return, NotifyAll
<1> QED
  BY <1>1, <1>2, <1>3, <1>4 DEF ClientStep

LEMMA ClientType ==
  ASSUME TypeOK, NEW r \in Requests, ClientStep(r)
  PROVE  TypeOK'
<1> USE BalancerAssumption DEF WaitersOK
<1>0. WaitersOK'
  BY ClientWaiters
<1>1. CASE Refuse(r)
  <2>1. 429 \in Statuses
    BY DEF Statuses
  <2> QED BY <1>0, <1>1, <2>1, RespondType DEF Refuse, TypeOK
<1>2. CASE AnswerFromCache(r)
  <2>1. 200 \in Statuses
    BY DEF Statuses
  <2>2. cache[NameOf[r]] \in Entries
    BY <1>2 DEF AnswerFromCache, CacheHits, TypeOK
  <2>3. cache[NameOf[r]].result \in Results
    BY <2>2
  <2> QED BY <1>0, <1>2, <2>1, <2>3, RespondType DEF AnswerFromCache, TypeOK
<1>3. CASE PassChecks(r)
  BY <1>0, <1>3 DEF PassChecks, TypeOK
<1>4. CASE TurnAway(r)
  <2>1. 503 \in Statuses
    BY DEF Statuses
  <2> QED BY <1>0, <1>4, <2>1, RespondType DEF TurnAway, TypeOK
<1>5. CASE Enqueue(r)
  <2>1. queue' \in Seq(Requests)
    BY <1>5, AppendProperties DEF Enqueue, TypeOK
  <2> QED BY <1>0, <1>5, <2>1 DEF Enqueue, TypeOK
<1>6. ASSUME NEW late \in BOOLEAN, Return(r, late)
      PROVE  TypeOK'
  <2>1. {503, 502, 200} \subseteq Statuses
    BY DEF Statuses
  <2>2. job[r] \in Jobs /\ job[r].result \in Results \cup {None}
    BY DEF TypeOK
  <2>3. job' \in [Requests -> Jobs]
    BY ZenonT(60), <1>6, <2>2, JobUpdateType DEF Return, TypeOK
  <2>4. worker' \in [Workers -> WorkerStates]
    BY <1>6, ReleaseType DEF Return
  <2>5. \/ Respond(r, 503, None) \/ Respond(r, 502, None)
        \/ Respond(r, 200, job[r].result)
    BY <1>6 DEF Return
  <2>6. /\ client' \in [Requests -> {"new", "checked", "waiting", "answered"}]
        /\ answer' \in [Requests -> [status : Statuses, result : Results \cup {None}]
                                    \cup {None}]
    BY <2>1, <2>2, <2>5, RespondType
  <2> QED BY <1>0, <1>6, <2>3, <2>4, <2>6 DEF Return, TypeOK
<1>7. CASE DozesOff(r)
  BY <1>0, <1>7 DEF DozesOff, TypeOK
<1> QED
  BY <1>1, <1>2, <1>3, <1>4, <1>5, <1>6, <1>7 DEF ClientStep

\* The state of a poll's sweep: jobs, workers and queue before the hand-out.
SweptJobs(w) == [r \in Requests |-> IF r \in Abandoned(w) THEN Requeued(job[r]) ELSE job[r]]
SweptWorkers(w) ==
  [SlotsAfterRelease(Abandoned(w)) EXCEPT ![w].known = TRUE, ![w].fresh = TRUE]

LEMMA SweepType ==
  ASSUME TypeOK, NEW w \in Workers
  PROVE  /\ Abandoned(w) \subseteq Requests
         /\ SweptJobs(w) \in [Requests -> Jobs]
         /\ SweptWorkers(w) \in [Workers -> WorkerStates]
         /\ \A order \in SetToSeqs(Abandoned(w)) : queue \o order \in Seq(Requests)
<1>1. Abandoned(w) \subseteq Requests
  BY DEF Abandoned, TypeOK
<1>2. SweptJobs(w) \in [Requests -> Jobs]
  <2>1. \A r \in Requests : job[r] \in Jobs
    BY DEF TypeOK
  <2>2. \A r \in Requests : Requeued(job[r]) \in Jobs
    BY <2>1, JobUpdateType
  <2> QED BY <2>1, <2>2 DEF SweptJobs
<1>3. SweptWorkers(w) \in [Workers -> WorkerStates]
  BY ReleaseType, SeenType DEF SweptWorkers
<1>4. \A order \in SetToSeqs(Abandoned(w)) : queue \o order \in Seq(Requests)
  BY <1>1, OrdersType, ConcatProperties DEF TypeOK
<1> QED
  BY <1>1, <1>2, <1>3, <1>4

\* A poll's arrival, in terms of the swept state.
LEMMA ArrivalCases ==
  ASSUME NEW w \in Workers, NEW reply, PollArrives(w, reply)
  PROVE  /\ \E order \in SetToSeqs(Abandoned(w)) :
              \/ /\ queue \o order # << >>
                 /\ SweptWorkers(w)[w].inFlight < Capacity[w]
                 /\ HandOut(w, SweptJobs(w), SweptWorkers(w), queue \o order)
                 /\ polls' = polls
              \/ /\ job' = SweptJobs(w) /\ worker' = SweptWorkers(w)
                 /\ queue' = queue \o order
                 /\ (polls' = polls \/ polls' = [polls EXCEPT ![w] = @ + 1])
         /\ UNCHANGED <<inFlight, cache, client, answer, stop>>
  BY DEF PollArrives, SweptJobs, SweptWorkers

LEMMA WorkerWaiters ==
  ASSUME TypeOK, NEW w \in Workers, WorkerStep(w)
  PROVE  WaitersOK'
<1> USE DEF WaitersOK
<1>0. /\ asleep \in [Workers -> Nat] /\ dozing \subseteq Requests
      /\ \A u \in Workers : asleep[u] \in Nat
  BY DEF TypeOK
<1>1. ASSUME NEW reply, PollArrives(w, reply)
      PROVE  WaitersOK'
  <2>1. dozing' = dozing \/ dozing' = {}
    BY <1>1 DEF PollArrives, sleepers, NotifyAll
  <2>2. asleep' \in [Workers -> Nat]
    <3>1. \A u \in Workers, b, c \in BOOLEAN :
            (IF b THEN asleep[u] ELSE 0) + (IF c THEN 1 ELSE 0) \in Nat
      BY <1>0
    <3>2. \/ asleep' = asleep
          \/ asleep' = [u \in Workers |-> 0]
          \/ asleep' = [u \in Workers |->
                           (IF Abandoned(w) = {} THEN asleep[u] ELSE 0)
                             + (IF u = w /\ ~stop THEN 1 ELSE 0)]
      BY <1>1 DEF PollArrives, sleepers, NotifyAll
    <3> QED BY <1>0, <3>1, <3>2
  <2> QED BY <1>0, <2>1, <2>2
<1>2. ASSUME NEW r \in Requests, PollWakes(w, r)
      PROVE  WaitersOK'
  BY <1>0, <1>2 DEF PollWakes, sleepers
<1>3. CASE PollSleeps(w)
  <2>1. asleep[w] + 1 \in Nat
    BY <1>0
  <2> QED BY <1>0, <1>3, <2>1 DEF PollSleeps
<1>4. CASE PollExpires(w)
  <2>1. asleep[w] > 0 => asleep[w] - 1 \in Nat
    BY <1>0
  <2> QED BY <1>0, <1>4, <2>1 DEF PollExpires
<1>5. ASSUME NEW r \in Requests, NEW x \in Results, PostResult(w, r, x)
      PROVE  WaitersOK'
  BY <1>0, <1>5 DEF PostResult, NotifyAll, sleepers
<1>6. CASE FallsSilent(w)
  BY <1>0, <1>6 DEF FallsSilent, sleepers
<1> QED
  BY <1>1, <1>2, <1>3, <1>4, <1>5, <1>6 DEF WorkerStep

LEMMA WorkerType ==
  ASSUME TypeOK, NEW w \in Workers, WorkerStep(w)
  PROVE  TypeOK'
<1> USE BalancerAssumption DEF WaitersOK
<1>0. WaitersOK'
  BY WorkerWaiters
<1>1. ASSUME NEW reply, PollArrives(w, reply)
      PROVE  TypeOK'
  <2>1. /\ job' \in [Requests -> Jobs]
        /\ worker' \in [Workers -> WorkerStates]
        /\ queue' \in Seq(Requests)
        /\ polls' \in [Workers -> Nat]
    <3>1. PICK order \in SetToSeqs(Abandoned(w)) :
            \/ /\ queue \o order # << >>
               /\ HandOut(w, SweptJobs(w), SweptWorkers(w), queue \o order)
               /\ polls' = polls
            \/ /\ job' = SweptJobs(w) /\ worker' = SweptWorkers(w)
               /\ queue' = queue \o order
               /\ (polls' = polls \/ polls' = [polls EXCEPT ![w] = @ + 1])
      BY <1>1, ArrivalCases
    <3>2. polls' \in [Workers -> Nat]
      <4>1. polls \in [Workers -> Nat] /\ polls[w] + 1 \in Nat
        BY DEF TypeOK
      <4> QED BY <3>1, <4>1
    <3>3. CASE /\ queue \o order # << >>
               /\ HandOut(w, SweptJobs(w), SweptWorkers(w), queue \o order)
      BY <3>2, <3>3, SweepType, HandOutStepType
    <3>4. CASE /\ job' = SweptJobs(w) /\ worker' = SweptWorkers(w)
               /\ queue' = queue \o order
      BY <3>2, <3>4, SweepType
    <3> QED BY <3>1, <3>3, <3>4
  <2> QED BY <1>0, <1>1, <2>1, ArrivalCases DEF TypeOK
<1>2. ASSUME NEW r \in Requests, PollWakes(w, r)
      PROVE  TypeOK'
  <2>1. /\ job' \in [Requests -> Jobs]
        /\ worker' \in [Workers -> WorkerStates]
        /\ queue' \in Seq(Requests)
    BY <1>2, HandOutStepType DEF PollWakes, CanTake, TypeOK
  <2>2. polls' \in [Workers -> Nat]
    BY <1>2 DEF PollWakes, TypeOK
  <2> QED BY <1>0, <1>2, <2>1, <2>2 DEF PollWakes, TypeOK
<1>3. CASE PollExpires(w)
  BY <1>0, <1>3 DEF PollExpires, TypeOK
<1>4. ASSUME NEW r \in Requests, NEW x \in Results, PostResult(w, r, x)
      PROVE  TypeOK'
  <2>1. job' \in [Requests -> Jobs]
    <3>1. job[r] \in Jobs
      BY DEF TypeOK
    <3>2. [Released(job[r]) EXCEPT !.result = x, !.done = TRUE] \in Jobs
      BY <3>1, JobUpdateType
    <3> DEFINE new == [Released(job[r]) EXCEPT !.result = x, !.done = TRUE]
    <3>3. job' = [job EXCEPT ![r] = new] \/ job' = job
      BY <1>4 DEF PostResult
    <3> HIDE DEF new
    <3> QED BY ZenonT(60), <3>2, <3>3 DEF TypeOK, new
  <2>2. worker' \in [Workers -> WorkerStates]
    <3>1. \/ worker' = Seen(SlotsAfterRelease({r}), w)
          \/ worker' = Seen(worker, w)
      BY <1>4 DEF PostResult
    <3>2. worker \in [Workers -> WorkerStates]
      BY DEF TypeOK
    <3>3. Seen(SlotsAfterRelease({r}), w) \in [Workers -> WorkerStates]
      BY ReleaseType, SeenType
    <3>4. Seen(worker, w) \in [Workers -> WorkerStates]
      BY <3>2, SeenType
    <3> QED BY <3>1, <3>3, <3>4
  <2>3. cache' \in [Names -> Entries \cup {None}]
    <3>1. CodeOf[r] \in Codes
      OBVIOUS
    <3>2. [code |-> CodeOf[r], result |-> x] \in Entries
      BY <3>1
    <3>3. CASE CachePut(r, x)
      BY <3>2, <3>3 DEF CachePut, TypeOK
    <3>4. CASE cache' = cache
      BY <3>4 DEF TypeOK
    <3> QED BY <1>4, <3>3, <3>4 DEF PostResult
  <2> QED BY <1>0, <1>4, <2>1, <2>2, <2>3 DEF PostResult, TypeOK
<1>5. CASE FallsSilent(w)
  <2>1. worker' \in [Workers -> WorkerStates]
    BY ZenonT(60), <1>5 DEF FallsSilent, TypeOK
  <2> QED BY <1>0, <1>5, <2>1 DEF FallsSilent, TypeOK
<1>6. CASE PollSleeps(w)
  BY <1>0, <1>6 DEF PollSleeps, TypeOK
<1> QED
  BY <1>1, <1>2, <1>3, <1>4, <1>5, <1>6 DEF WorkerStep

LEMMA NextType == TypeOK /\ [Next]_vars => TypeOK'
<1> SUFFICES ASSUME TypeOK, [Next]_vars PROVE TypeOK'
  OBVIOUS
<1>1. ASSUME NEW r \in Requests, ClientStep(r) PROVE TypeOK'
  BY <1>1, ClientType
<1>2. ASSUME NEW w \in Workers, WorkerStep(w) PROVE TypeOK'
  BY <1>2, WorkerType
<1>3. CASE RequestStop
  BY <1>3 DEF RequestStop, sleepers, TypeOK
<1>4. CASE UNCHANGED vars
  BY <1>4 DEF vars, TypeOK
<1> QED
  BY <1>1, <1>2, <1>3, <1>4 DEF Next

\* The state of the balancer stays well typed, whatever workers send: counters
\* never go negative, the queue holds jobs only, responses have known forms.
THEOREM TypeCorrect == Spec => []TypeOK
  BY InitType, NextType, PTL DEF Spec

-----------------------------------------------------------------------------
(* The slot accounting.  SlotsAccounted is not inductive alone: that a      *)
(* release gives back a slot which is counted needs that the flag "released"*)
(* and the owner of a job say where its first slot is; that a later hand-out*)
(* does not disturb them needs that a queued job has released that slot     *)
(* (QueueSound), and that in turn that a new request is not in the queue    *)
(* (RequestsTracked).                                                       *)

HoldsIn(jb, w) == {r \in Requests : jb[r].owner = w /\ ~jb[r].released}

\* The counters agree with the slots, and the slots of first hand-outs with
\* the jobs.
Counters(ws) ==
  \A w \in Workers : /\ IsFiniteSet(ws[w].slots)
                     /\ ws[w].inFlight = Cardinality(ws[w].slots)
                     /\ ws[w].inFlight <= Capacity[w]

SlotsOfJobs(jb, ws) ==
  \A w \in Workers, r \in Requests :
    /\ \A n \in Nat : <<r, n>> \in ws[w].slots => 0 < n /\ n <= jb[r].given
    /\ <<r, 1>> \in ws[w].slots <=> r \in HoldsIn(jb, w)

Hands(jb) ==
  \A r \in Requests : /\ jb[r].owner = None <=> jb[r].given = 0
                      /\ jb[r].owner = None => ~jb[r].released
                      /\ jb[r].released \/ jb[r].given <= 1

Accounted(jb, ws) == Counters(ws) /\ SlotsOfJobs(jb, ws) /\ Hands(jb)

Sound(jb, q) ==
  \A i \in DOMAIN q :
    IF jb[q[i]].owner = None
    THEN \A k \in DOMAIN q : q[k] = q[i] => k = i
    ELSE jb[q[i]].released

IInv == TypeOK /\ Accounted(job, worker) /\ Sound(job, queue) /\ RequestsTracked

LEMMA NextState ==
  /\ Accounted(job, worker)' <=> Accounted(job', worker')
  /\ Sound(job, queue)' <=> Sound(job', queue')
  BY DEF Accounted, Counters, SlotsOfJobs, Hands, HoldsIn, Sound

LEMMA IInvMeans ==
  ASSUME IInv
  PROVE  SlotsAccounted /\ QueueSound
<1>1. SlotsAccounted
  BY DEF IInv, Accounted, Counters, SlotsAccounted
<1>2. ASSUME NEW i \in DOMAIN queue
      PROVE  IF job[queue[i]].given = 0
             THEN \A k \in DOMAIN queue : queue[k] = queue[i] => k = i
             ELSE FirstSlotFree(queue[i])
  <2>1. queue[i] \in Requests
    BY LenProperties DEF IInv, TypeOK
  <2>2. CASE job[queue[i]].given = 0
    BY <2>1, <2>2 DEF IInv, Accounted, Hands, Sound
  <2>3. CASE job[queue[i]].given # 0
    <3>1. job[queue[i]].released
      BY <2>1, <2>3 DEF IInv, Accounted, Hands, Sound
    <3>2. \A w \in Workers : queue[i] \notin HoldsIn(job, w)
      BY <3>1 DEF HoldsIn
    <3>3. FirstSlotFree(queue[i])
      BY <2>1, <3>2 DEF IInv, Accounted, SlotsOfJobs, FirstSlotFree
    <3> QED BY <2>3, <3>3
  <2> QED BY <2>2, <2>3
<1> QED
  BY <1>1, <1>2 DEF QueueSound

LEMMA HoldsInFinite ==
  ASSUME NEW jb, NEW w
  PROVE  IsFiniteSet(HoldsIn(jb, w)) /\ Cardinality(HoldsIn(jb, w)) \in Nat
<1>1. HoldsIn(jb, w) \subseteq Requests
  BY DEF HoldsIn
<1> QED
  BY <1>1, BalancerAssumption, FS_Subset, FS_CardinalityType

\* jb is what releasing the jobs of S leaves of the jobs.
ReleasedIn(jb, S) ==
  \A r \in Requests : /\ jb[r].owner = job[r].owner
                      /\ jb[r].given = job[r].given
                      /\ jb[r].released
                           <=> job[r].released \/ (r \in S /\ job[r].owner # None)

\* The slots that a release of S gives back at w are counted there, one for
\* each job.
LEMMA SlotsGivenBack ==
  ASSUME TypeOK, Accounted(job, worker), NEW S, NEW w \in Workers
  PROVE  LET back == S \cap Holds(w)
             gone == LastSlots(back)
         IN /\ gone \subseteq worker[w].slots
            /\ gone = {<<r, 1>> : r \in back}
            /\ Cardinality(gone) = Cardinality(back)
            /\ IsFiniteSet(gone)
<1> DEFINE back == S \cap Holds(w)
           gone == LastSlots(back)
           slot == [r \in back |-> <<r, 1>>]
<1>1. \A r \in back : /\ r \in Requests /\ job[r].given = 1
                      /\ <<r, 1>> \in worker[w].slots
  <2> SUFFICES ASSUME NEW r \in back
               PROVE  /\ r \in Requests /\ job[r].given = 1
                      /\ <<r, 1>> \in worker[w].slots
    OBVIOUS
  <2>1. r \in Requests /\ job[r].owner = w /\ ~job[r].released /\ w # None
    BY BalancerAssumption DEF Holds
  <2>2. job[r].given \in Nat
    BY <2>1 DEF TypeOK
  <2>3. job[r].given = 1
    BY <2>1, <2>2 DEF Accounted, Hands
  <2> QED BY <2>1, <2>3 DEF Accounted, SlotsOfJobs, HoldsIn
<1>2. gone = {<<r, 1>> : r \in back}
  BY <1>1 DEF LastSlots
<1>3. IsFiniteSet(back)
  <2>1. back \subseteq Requests
    BY <1>1
  <2> QED BY <2>1, BalancerAssumption, FS_Subset
<1>4. ExistsBijection(back, gone)
  <2>1. slot \in [back -> gone]
    BY <1>2
  <2>2. \A a, b \in back : slot[a] = slot[b] => a = b
    OBVIOUS
  <2>3. \A t \in gone : \E r \in back : slot[r] = t
    BY <1>2
  <2> HIDE DEF back, gone, slot
  <2>4. slot \in Bijection(back, gone)
    BY <2>1, <2>2, <2>3 DEF Bijection, Injection, Surjection, IsInjective
  <2> QED BY <2>4 DEF ExistsBijection
<1> HIDE DEF back, gone
<1>5. IsFiniteSet(gone) /\ Cardinality(gone) = Cardinality(back)
  BY <1>3, <1>4, FS_Bijection
<1> USE DEF back, gone
<1>6. gone \subseteq worker[w].slots
  BY <1>1, <1>2
<1> QED
  BY <1>2, <1>5, <1>6

LEMMA ReleaseCounts ==
  ASSUME TypeOK, Accounted(job, worker), NEW S
  PROVE  /\ Counters(SlotsAfterRelease(S))
         /\ \A w \in Workers : SlotsAfterRelease(S)[w].slots
                                 = worker[w].slots \ {<<r, 1>> : r \in S \cap Holds(w)}
<1> SUFFICES ASSUME NEW w \in Workers
             PROVE  LET x == SlotsAfterRelease(S)[w]
                    IN /\ IsFiniteSet(x.slots)
                       /\ x.inFlight = Cardinality(x.slots)
                       /\ x.inFlight <= Capacity[w]
                       /\ x.slots = worker[w].slots \ {<<r, 1>> : r \in S \cap Holds(w)}
  BY DEF Counters
<1> DEFINE T == worker[w].slots
           n == worker[w].inFlight
           gone == LastSlots(S \cap Holds(w))
           freed == Cardinality(S \cap Holds(w))
           left == IF n > freed THEN n - freed ELSE 0
<1>1. /\ gone \subseteq T /\ Cardinality(gone) = freed /\ IsFiniteSet(gone)
      /\ gone = {<<r, 1>> : r \in S \cap Holds(w)}
  BY SlotsGivenBack
<1>2. /\ IsFiniteSet(T) /\ n = Cardinality(T) /\ n <= Capacity[w]
      /\ n \in Nat /\ Capacity[w] \in Nat
      /\ worker[w] \in WorkerStates
  BY BalancerAssumption DEF Accounted, Counters, TypeOK
<1>3. freed \in Nat /\ freed <= n
  <2>1. Cardinality(gone) <= Cardinality(T) /\ Cardinality(gone) \in Nat
    BY <1>1, <1>2, FS_Subset, FS_CardinalityType
  <2> QED BY <1>1, <1>2, <2>1
<1>4. /\ IsFiniteSet(T \ gone)
      /\ Cardinality(T \ gone) = n - freed
  <2>1. Cardinality(T \ gone) = Cardinality(T) - Cardinality(T \cap gone)
    BY <1>2, FS_Difference
  <2>2. T \cap gone = gone
    BY <1>1
  <2> QED BY <1>1, <1>2, <2>1, <2>2, FS_Subset
<1>5. left = n - freed /\ left \in Nat /\ left <= Capacity[w]
  BY <1>2, <1>3
<1>6. /\ SlotsAfterRelease(S)[w].inFlight = left
      /\ SlotsAfterRelease(S)[w].slots = T \ gone
  BY ReleasedSlots
<1> HIDE DEF left, gone, freed, n, T
<1> QED
  BY <1>1, <1>4, <1>5, <1>6 DEF T

LEMMA ReleaseAccounts ==
  ASSUME TypeOK, Accounted(job, worker), NEW S, NEW jb, ReleasedIn(jb, S)
  PROVE  Accounted(jb, SlotsAfterRelease(S))
<1>1. Counters(SlotsAfterRelease(S))
  BY ReleaseCounts
<1>2. Hands(jb)
  BY DEF Accounted, Hands, ReleasedIn
<1>3. ASSUME NEW w \in Workers, NEW r \in Requests
      PROVE  LET T == SlotsAfterRelease(S)[w].slots
             IN /\ \A n \in Nat : <<r, n>> \in T => 0 < n /\ n <= jb[r].given
                /\ <<r, 1>> \in T <=> r \in HoldsIn(jb, w)
  <2>1. SlotsAfterRelease(S)[w].slots
          = worker[w].slots \ {<<x, 1>> : x \in S \cap Holds(w)}
    BY ReleaseCounts
  <2>2. /\ \A n \in Nat : <<r, n>> \in worker[w].slots => 0 < n /\ n <= job[r].given
        /\ <<r, 1>> \in worker[w].slots <=> r \in HoldsIn(job, w)
    BY DEF Accounted, SlotsOfJobs
  <2>3. jb[r].given = job[r].given
    BY DEF ReleasedIn
  <2>4. r \in HoldsIn(jb, w) <=> r \in HoldsIn(job, w) /\ r \notin S
    BY BalancerAssumption DEF HoldsIn, ReleasedIn
  <2>5. HoldsIn(job, w) = Holds(w)
    BY DEF HoldsIn, Holds
  <2>6. <<r, 1>> \in {<<x, 1>> : x \in S \cap Holds(w)} <=> r \in S \cap Holds(w)
    OBVIOUS
  <2> QED BY <2>1, <2>2, <2>3, <2>4, <2>5, <2>6
<1> QED
  BY <1>1, <1>2, <1>3 DEF Accounted, SlotsOfJobs

LEMMA ReleaseOne ==
  ASSUME TypeOK, Accounted(job, worker), NEW r \in Requests, NEW jb,
         jb[r].owner = Released(job[r]).owner,
         jb[r].given = Released(job[r]).given,
         jb[r].released = Released(job[r]).released,
         \A s \in Requests \ {r} : jb[s] = job[s]
  PROVE  ReleasedIn(jb, {r})
<1>0. job[r] \in Jobs
  BY DEF TypeOK
<1>1. /\ Released(job[r]).owner = job[r].owner
      /\ Released(job[r]).given = job[r].given
      /\ Released(job[r]).released <=> job[r].released \/ job[r].owner # None
  <2>1. Released(job[r]).released <=> job[r].released \/ job[r].owner # None
    BY <1>0 DEF Released, Accounted, Hands
  <2> QED BY <1>0, <2>1, JobUpdateType
<1> QED
  BY <1>1 DEF ReleasedIn

LEMMA AccountsKept ==
  ASSUME NEW jb, NEW ws, NEW ws2, Accounted(jb, ws),
         \A w \in Workers : /\ ws2[w].inFlight = ws[w].inFlight
                            /\ ws2[w].slots = ws[w].slots
  PROVE  Accounted(jb, ws2)
  BY DEF Accounted, Counters, SlotsOfJobs

LEMMA HandOutCounts ==
  ASSUME NEW ws \in [Workers -> WorkerStates], NEW w \in Workers, NEW h \in Requests,
         NEW n \in Nat, <<h, n>> \notin ws[w].slots,
         Counters(ws), ws[w].inFlight < Capacity[w]
  PROVE  Counters(Charged(ws, w, h, n))
<1> SUFFICES ASSUME NEW u \in Workers
             PROVE  LET x == Charged(ws, w, h, n)[u]
                    IN /\ IsFiniteSet(x.slots)
                       /\ x.inFlight = Cardinality(x.slots)
                       /\ x.inFlight <= Capacity[u]
  BY DEF Counters
<1>1. CASE u = w
  <2> DEFINE T == ws[w].slots \cup {<<h, n>>}
  <2>1. /\ ws[w] \in WorkerStates /\ ws[w].inFlight + 1 \in Nat /\ Capacity[w] \in Nat
        /\ T \in SUBSET (Requests \X Nat)
    BY BalancerAssumption
  <2>2. /\ Charged(ws, w, h, n)[w].inFlight = ws[w].inFlight + 1
        /\ Charged(ws, w, h, n)[w].slots = T
    BY <2>1, SlotUpdateType DEF Charged
  <2>3. IsFiniteSet(T) /\ Cardinality(T) = Cardinality(ws[w].slots) + 1
    BY FS_AddElement DEF Counters
  <2>4. ws[w].inFlight = Cardinality(ws[w].slots) /\ ws[w].inFlight \in Nat
    BY DEF Counters
  <2> HIDE DEF T
  <2> QED BY <1>1, <2>1, <2>2, <2>3, <2>4
<1>2. CASE u # w
  <2>1. Charged(ws, w, h, n)[u] = ws[u]
    BY <1>2 DEF Charged
  <2> QED BY <2>1 DEF Counters
<1> QED
  BY <1>1, <1>2

LEMMA HandOutAccounts ==
  ASSUME NEW jb \in [Requests -> Jobs], NEW ws \in [Workers -> WorkerStates],
         NEW q \in Seq(Requests), q # << >>, NEW w \in Workers,
         Accounted(jb, ws), Sound(jb, q), ws[w].inFlight < Capacity[w],
         HandOut(w, jb, ws, q)
  PROVE  Accounted(job', worker')
<1> DEFINE h == Head(q)
           n == jb[h].given + 1
<1>1. h \in Requests /\ 1 \in DOMAIN q /\ h = q[1]
  BY HeadTailProperties, EmptySeq, LenProperties
<1>2. jb[h].owner = None \/ jb[h].released
  BY <1>1 DEF Sound
<1>3. job' = GivenTo(jb, h, w) /\ worker' = Charged(ws, w, h, n)
  BY HandOutParts
<1> HIDE DEF h
<1>4. /\ jb[h] \in Jobs /\ jb[h].given \in Nat /\ n \in Nat /\ n # 0 /\ ~(n <= jb[h].given)
  BY <1>1
<1>5. /\ job'[h].owner = w /\ job'[h].released = jb[h].released /\ job'[h].given = n
      /\ \A r \in Requests \ {h} : job'[r] = jb[r]
  BY <1>1, <1>3, <1>4 DEF GivenTo
<1>6. /\ worker'[w].slots = ws[w].slots \cup {<<h, n>>}
      /\ \A u \in Workers \ {w} : worker'[u] = ws[u]
  BY <1>3 DEF Charged
<1>7. <<h, n>> \notin ws[w].slots
  BY <1>1, <1>4 DEF Accounted, SlotsOfJobs
<1> HIDE DEF n
<1>8. Counters(worker')
  BY <1>1, <1>3, <1>4, <1>7, HandOutCounts DEF Accounted
<1>9. jb[h].released <=> n # 1
  BY <1>1, <1>2, <1>4 DEF Accounted, Hands, n
<1>10. Hands(job')
  <2> SUFFICES ASSUME NEW r \in Requests
               PROVE  /\ job'[r].owner = None <=> job'[r].given = 0
                      /\ job'[r].owner = None => ~job'[r].released
                      /\ job'[r].released \/ job'[r].given <= 1
    BY DEF Hands
  <2>1. CASE r = h
    BY <1>4, <1>5, <1>9, <2>1, BalancerAssumption
  <2>2. CASE r # h
    BY <1>5, <2>2 DEF Accounted, Hands
  <2> QED BY <2>1, <2>2
<1>11. ASSUME NEW u \in Workers, NEW r \in Requests
       PROVE  /\ \A k \in Nat : <<r, k>> \in worker'[u].slots => 0 < k /\ k <= job'[r].given
              /\ <<r, 1>> \in worker'[u].slots <=> r \in HoldsIn(job', u)
  <2>1. /\ \A k \in Nat : <<r, k>> \in ws[u].slots => 0 < k /\ k <= jb[r].given
        /\ <<r, 1>> \in ws[u].slots <=> r \in HoldsIn(jb, u)
    BY DEF Accounted, SlotsOfJobs
  <2>2. CASE r # h
    <3>1. \A k \in Nat : <<r, k>> \in worker'[u].slots <=> <<r, k>> \in ws[u].slots
      <4>1. CASE u = w
        BY <1>6, <2>2, <4>1
      <4>2. CASE u # w
        BY <1>6, <4>2
      <4> QED BY <4>1, <4>2
    <3>2. r \in HoldsIn(job', u) <=> r \in HoldsIn(jb, u)
      BY <1>5, <2>2 DEF HoldsIn
    <3> QED BY <1>5, <2>1, <2>2, <3>1, <3>2
  <2>3. CASE r = h
    <3>1. \A k \in Nat : <<h, k>> \in worker'[u].slots
                           <=> <<h, k>> \in ws[u].slots \/ (u = w /\ k = n)
      BY <1>6
    <3>2. h \notin HoldsIn(jb, u)
      BY <1>2, BalancerAssumption DEF HoldsIn
    <3>3. h \in HoldsIn(job', u) <=> u = w /\ n = 1
      BY <1>1, <1>5, <1>9 DEF HoldsIn
    <3>4. \A k \in Nat : <<h, k>> \in worker'[u].slots => 0 < k /\ k <= n
      BY <1>4, <2>1, <2>3, <3>1 DEF n
    <3> QED BY <1>5, <2>1, <2>3, <3>1, <3>2, <3>3, <3>4
  <2> QED BY <2>2, <2>3
<1> QED
  BY <1>8, <1>10, <1>11 DEF Accounted, SlotsOfJobs

LEMMA HandOutSound ==
  ASSUME NEW jb \in [Requests -> Jobs], NEW ws \in [Workers -> WorkerStates],
         NEW q \in Seq(Requests), q # << >>, NEW w \in Workers,
         Sound(jb, q), HandOut(w, jb, ws, q)
  PROVE  Sound(job', queue')
<1> DEFINE h == Head(q)
<1>1. /\ h \in Requests /\ h = q[1] /\ Tail(q) \in Seq(Requests)
      /\ Len(Tail(q)) = Len(q) - 1
      /\ \A i \in 1..Len(Tail(q)) : Tail(q)[i] = q[i + 1]
      /\ Len(q) \in Nat \ {0}
  BY HeadTailProperties, EmptySeq, LenProperties
<1>2. DOMAIN q = 1..Len(q) /\ DOMAIN Tail(q) = 1..Len(Tail(q))
  BY <1>1, LenProperties
<1> HIDE DEF h
<1>3. job' = GivenTo(jb, h, w) /\ queue' = Tail(q)
  BY HandOutParts DEF h
<1>4. /\ job'[h].owner = w /\ job'[h].released = jb[h].released
      /\ \A r \in Requests \ {h} : job'[r] = jb[r]
  BY <1>1, <1>3 DEF GivenTo
<1> SUFFICES ASSUME NEW i \in DOMAIN Tail(q)
             PROVE  IF job'[Tail(q)[i]].owner = None
                    THEN \A k \in DOMAIN Tail(q) : Tail(q)[k] = Tail(q)[i] => k = i
                    ELSE job'[Tail(q)[i]].released
  BY <1>3 DEF Sound
<1>5. /\ i + 1 \in DOMAIN q /\ 1 \in DOMAIN q /\ i + 1 # 1
      /\ Tail(q)[i] = q[i + 1] /\ q[i + 1] \in Requests
  BY <1>1, <1>2
<1>6. CASE q[i + 1] = h
  <2>1. jb[h].owner # None /\ jb[h].released
    BY <1>1, <1>5, <1>6 DEF Sound
  <2> QED BY ZenonT(60), <1>4, <1>5, <1>6, <2>1, BalancerAssumption
<1>7. CASE q[i + 1] # h
  <2>1. job'[q[i + 1]] = jb[q[i + 1]]
    BY <1>4, <1>5, <1>7
  <2>2. CASE jb[q[i + 1]].owner = None
    <3>1. \A k \in DOMAIN q : q[k] = q[i + 1] => k = i + 1
      BY <1>5, <2>2 DEF Sound
    <3>2. ASSUME NEW k \in DOMAIN Tail(q), Tail(q)[k] = Tail(q)[i] PROVE k = i
      <4>1. k \in Nat /\ i \in Nat /\ k + 1 \in DOMAIN q /\ Tail(q)[k] = q[k + 1]
        BY <1>1, <1>2
      <4>2. k + 1 = i + 1
        BY <1>5, <3>1, <3>2, <4>1
      <4> QED BY <4>1, <4>2
    <3> QED BY <1>5, <2>1, <2>2, <3>2
  <2>3. CASE jb[q[i + 1]].owner # None
    BY <1>5, <2>1, <2>3 DEF Sound
  <2> QED BY <2>2, <2>3
<1> QED
  BY <1>6, <1>7

-----------------------------------------------------------------------------
(* What the three kinds of change do to the rest of the invariant.         *)

LEMMA ReleaseSound ==
  ASSUME TypeOK, Sound(job, queue), NEW jb, NEW S, ReleasedIn(jb, S)
  PROVE  Sound(jb, queue)
<1>1. \A i \in DOMAIN queue : queue[i] \in Requests
  BY LenProperties DEF TypeOK
<1> QED
  BY <1>1 DEF Sound, ReleasedIn

LEMMA SweepReleases ==
  ASSUME TypeOK, NEW w \in Workers
  PROVE  /\ ReleasedIn(SweptJobs(w), Abandoned(w))
         /\ \A r \in Abandoned(w) : job[r].owner # None /\ SweptJobs(w)[r].released
         /\ Accounted(SweptJobs(w), SlotsAfterRelease(Abandoned(w)))
              => Accounted(SweptJobs(w), SweptWorkers(w))
<1>1. \A r \in Requests :
        /\ SweptJobs(w)[r] = IF r \in Abandoned(w) THEN Requeued(job[r]) ELSE job[r]
        /\ job[r] \in Jobs
        /\ Requeued(job[r]).owner = job[r].owner
        /\ Requeued(job[r]).given = job[r].given
        /\ Requeued(job[r]).released
  <2>1. \A r \in Requests : job[r] \in Jobs
    BY DEF TypeOK
  <2>2. \A r \in Requests : /\ Requeued(job[r]).owner = job[r].owner
                            /\ Requeued(job[r]).given = job[r].given
                            /\ Requeued(job[r]).released
    BY <2>1, JobUpdateType
  <2>3. \A r \in Requests :
          SweptJobs(w)[r] = IF r \in Abandoned(w) THEN Requeued(job[r]) ELSE job[r]
    BY DEF SweptJobs
  <2> QED BY <2>1, <2>2, <2>3
<1>2. \A r \in Abandoned(w) : r \in Requests /\ job[r].owner # None
  BY DEF Abandoned, TypeOK
<1>3. \A u \in Workers :
        /\ SweptWorkers(w)[u].inFlight = SlotsAfterRelease(Abandoned(w))[u].inFlight
        /\ SweptWorkers(w)[u].slots = SlotsAfterRelease(Abandoned(w))[u].slots
  BY ReleaseType, SeenType DEF SweptWorkers
<1>4. ReleasedIn(SweptJobs(w), Abandoned(w))
  BY <1>1, <1>2 DEF ReleasedIn
<1>5. \A r \in Abandoned(w) : SweptJobs(w)[r].released
  BY <1>1, <1>2
<1>6. Accounted(SweptJobs(w), SlotsAfterRelease(Abandoned(w)))
        => Accounted(SweptJobs(w), SweptWorkers(w))
  BY <1>3, AccountsKept
<1> QED
  BY <1>2, <1>4, <1>5, <1>6

LEMMA SweepSound ==
  ASSUME TypeOK, Sound(job, queue), NEW w \in Workers, NEW order \in SetToSeqs(Abandoned(w))
  PROVE  Sound(SweptJobs(w), queue \o order)
<1> DEFINE q == queue \o order
           n == Len(queue)
<1>1. /\ queue \in Seq(Requests) /\ order \in Seq(Requests) /\ q \in Seq(Requests)
      /\ \A i \in DOMAIN order : order[i] \in Abandoned(w)
  BY SweepType, OrdersType DEF TypeOK
<1>2. /\ n \in Nat /\ Len(order) \in Nat /\ Len(q) = n + Len(order)
      /\ DOMAIN queue = 1..n /\ DOMAIN order = 1..Len(order) /\ DOMAIN q = 1..Len(q)
      /\ \A i \in 1..n : q[i] = queue[i] /\ queue[i] \in Requests
      /\ \A i \in DOMAIN q \ 1..n : i - n \in DOMAIN order /\ q[i] = order[i - n]
  <2>1. /\ n \in Nat /\ Len(order) \in Nat /\ Len(q) = n + Len(order)
        /\ DOMAIN queue = 1..n /\ DOMAIN order = 1..Len(order) /\ DOMAIN q = 1..Len(q)
    BY <1>1, LenProperties, ConcatProperties
  <2>2. \A i \in 1..n + Len(order) : q[i] = IF i <= n THEN queue[i] ELSE order[i - n]
    BY <1>1, ConcatProperties
  <2>3. \A i \in 1..n : queue[i] \in Requests
    BY <1>1, <2>1
  <2> HIDE DEF q, n
  <2> QED BY <2>1, <2>2, <2>3
<1> HIDE DEF q, n
<1> SUFFICES ASSUME NEW i \in DOMAIN q
             PROVE  IF SweptJobs(w)[q[i]].owner = None
                    THEN \A k \in DOMAIN q : q[k] = q[i] => k = i
                    ELSE SweptJobs(w)[q[i]].released
  BY DEF Sound, q
<1>3. ASSUME NEW k \in DOMAIN q \ 1..n
      PROVE  /\ q[k] \in Abandoned(w) /\ job[q[k]].owner # None
             /\ SweptJobs(w)[q[k]].released /\ SweptJobs(w)[q[k]].owner = job[q[k]].owner
  <2>1. q[k] \in Abandoned(w)
    BY <1>1, <1>2
  <2> QED BY <2>1, SweepReleases, SweepType DEF ReleasedIn
<1>4. CASE i \notin 1..n
  BY <1>3, <1>4
<1>5. CASE i \in 1..n
  <2>1. q[i] = queue[i] /\ q[i] \in Requests /\ i \in DOMAIN queue
    BY <1>2, <1>5
  <2>2. /\ SweptJobs(w)[q[i]].owner = job[q[i]].owner
        /\ job[q[i]].released => SweptJobs(w)[q[i]].released
    BY <2>1, SweepReleases DEF ReleasedIn
  <2>3. CASE job[q[i]].owner = None
    <3>1. \A k \in 1..n : q[k] = q[i] => k = i
      BY <1>2, <2>1, <2>3 DEF Sound
    <3>2. \A k \in DOMAIN q \ 1..n : q[k] # q[i]
      BY <1>3, <2>3
    <3> QED BY <2>2, <2>3, <3>1, <3>2
  <2>4. CASE job[q[i]].owner # None
    BY <2>1, <2>2, <2>4 DEF Sound
  <2> QED BY <2>3, <2>4
<1> QED
  BY <1>4, <1>5

\* Requests not yet queued have left no trace in jb and q.
Untouched(jb, q) ==
  \A r \in Requests : client[r] \in {"new", "checked"} =>
    jb[r] = NewJob /\ \A i \in DOMAIN q : q[i] # r

LEMMA UntouchedByHandOut ==
  ASSUME NEW jb \in [Requests -> Jobs], NEW ws \in [Workers -> WorkerStates],
         NEW q \in Seq(Requests), q # << >>, NEW w \in Workers,
         Untouched(jb, q), HandOut(w, jb, ws, q)
  PROVE  Untouched(job', queue')
<1>1. /\ Head(q) = q[1] /\ 1 \in DOMAIN q /\ Head(q) \in Requests
      /\ \A i \in DOMAIN Tail(q) : i + 1 \in DOMAIN q /\ Tail(q)[i] = q[i + 1]
  <2>1. /\ Head(q) = q[1] /\ Head(q) \in Requests /\ Tail(q) \in Seq(Requests)
        /\ Len(Tail(q)) = Len(q) - 1
        /\ \A i \in 1..Len(Tail(q)) : Tail(q)[i] = q[i + 1]
        /\ Len(q) \in Nat \ {0}
    BY HeadTailProperties, EmptySeq, LenProperties
  <2>2. DOMAIN q = 1..Len(q) /\ DOMAIN Tail(q) = 1..Len(Tail(q))
    BY <2>1, LenProperties
  <2> QED BY <2>1, <2>2
<1>2. /\ \A r \in Requests \ {Head(q)} : job'[r] = jb[r]
      /\ queue' = Tail(q)
  <2>1. job' = GivenTo(jb, Head(q), w) /\ queue' = Tail(q)
    BY HandOutParts
  <2> QED BY <2>1 DEF GivenTo
<1> QED
  BY <1>1, <1>2 DEF Untouched

LEMMA UntouchedBySweep ==
  ASSUME TypeOK, RequestsTracked, NEW w \in Workers,
         NEW order \in SetToSeqs(Abandoned(w))
  PROVE  Untouched(SweptJobs(w), queue \o order)
<1> SUFFICES ASSUME NEW r \in Requests, client[r] \in {"new", "checked"}
             PROVE  /\ SweptJobs(w)[r] = NewJob
                    /\ \A i \in DOMAIN (queue \o order) : (queue \o order)[i] # r
  BY DEF Untouched
<1>1. r \notin Abandoned(w)
  BY DEF Abandoned, RequestsTracked
<1>2. SweptJobs(w)[r] = NewJob
  BY <1>1 DEF SweptJobs, RequestsTracked
<1>3. /\ queue \in Seq(Requests) /\ order \in Seq(Requests)
      /\ \A i \in DOMAIN order : order[i] \in Abandoned(w)
      /\ DOMAIN queue = 1..Len(queue) /\ DOMAIN order = 1..Len(order)
      /\ Len(queue) \in Nat /\ Len(order) \in Nat
  BY SweepType, OrdersType, LenProperties DEF TypeOK
<1>4. /\ DOMAIN (queue \o order) = 1..Len(queue) + Len(order)
      /\ \A i \in 1..Len(queue) + Len(order) :
           (queue \o order)[i] = IF i <= Len(queue) THEN queue[i] ELSE order[i - Len(queue)]
  BY <1>3, ConcatProperties, LenProperties
<1>5. \A i \in 1..Len(queue) : queue[i] # r
  BY <1>3 DEF RequestsTracked, ToSet
<1>6. \A i \in 1..Len(order) : order[i] # r
  BY <1>1, <1>3
<1> QED
  BY <1>2, <1>3, <1>4, <1>5, <1>6

LEMMA UntouchedIsTracked ==
  ASSUME Untouched(job', queue'), client' = client, inFlight' = inFlight, RequestsTracked
  PROVE  RequestsTracked'
  BY DEF Untouched, RequestsTracked, ToSet

-----------------------------------------------------------------------------
(* The invariant, action by action.                                        *)

LEMMA InitIInv == Init => IInv
<1> SUFFICES ASSUME Init PROVE IInv
  OBVIOUS
<1>1. TypeOK
  BY InitType
<1>2. Accounted(job, worker)
  <2>1. \A r \in Requests : /\ job[r].owner = None /\ job[r].given = 0
                            /\ job[r].released = FALSE
    BY DEF Init, NewJob
  <2>2. \A w \in Workers : worker[w].inFlight = 0 /\ worker[w].slots = {}
    BY DEF Init, UnknownWorker
  <2>3. Counters(worker)
    <3>1. IsFiniteSet({}) /\ Cardinality({}) = 0
      BY FS_EmptySet
    <3>2. \A w \in Workers : 0 <= Capacity[w]
      BY BalancerAssumption
    <3> QED BY <2>2, <3>1, <3>2 DEF Counters
  <2>4. SlotsOfJobs(job, worker)
    BY <2>1, <2>2, BalancerAssumption DEF SlotsOfJobs, HoldsIn
  <2>5. Hands(job)
    BY <2>1 DEF Hands
  <2> QED BY <2>3, <2>4, <2>5 DEF Accounted
<1>3. DOMAIN queue = {}
  <2>1. queue = << >> /\ Len(queue) = 0 /\ queue \in Seq(Requests)
    BY EmptySeq DEF Init
  <2> QED BY <2>1, LenProperties
<1>4. Sound(job, queue)
  BY <1>3 DEF Sound
<1>5. RequestsTracked
  BY <1>3 DEF RequestsTracked, Init, ToSet
<1> QED
  BY <1>1, <1>2, <1>4, <1>5 DEF IInv

LEMMA ClientIInv ==
  ASSUME IInv, NEW r \in Requests, ClientStep(r)
  PROVE  Accounted(job', worker') /\ Sound(job', queue') /\ RequestsTracked'
<1> USE DEF IInv
<1>1. ASSUME client[r] \in {"new", "checked"}, client' \in {[client EXCEPT ![r] = "answered"], [client EXCEPT ![r] = "checked"]},
             client' = [client EXCEPT ![r] = "answered"] \/ client[r] = "new",
             UNCHANGED <<job, queue, inFlight, worker>>
      PROVE  Accounted(job', worker') /\ Sound(job', queue') /\ RequestsTracked'
  <2>1. Accounted(job', worker') /\ Sound(job', queue')
    BY <1>1 DEF IInv
  <2>2. RequestsTracked'
    BY <1>1 DEF RequestsTracked, TypeOK
  <2> QED BY <2>1, <2>2
<1>2. CASE Refuse(r) \/ AnswerFromCache(r) \/ PassChecks(r) \/ TurnAway(r)
  BY <1>1, <1>2 DEF Refuse, AnswerFromCache, PassChecks, TurnAway, Respond
<1>3. CASE Enqueue(r)
  <2>1. /\ job' = job /\ worker' = worker /\ client[r] = "checked"
        /\ queue' = Append(queue, r) /\ inFlight' = inFlight \cup {r}
        /\ client' = [client EXCEPT ![r] = "waiting"]
    BY <1>3 DEF Enqueue
  <2>2. job[r] = NewJob /\ \A i \in DOMAIN queue : queue[i] # r
    BY <2>1 DEF RequestsTracked, ToSet
  <2>3. /\ DOMAIN queue = 1..Len(queue) /\ DOMAIN queue' = 1..Len(queue) + 1
        /\ Len(queue) \in Nat
        /\ \A i \in 1..Len(queue) : queue'[i] = queue[i]
        /\ queue'[Len(queue) + 1] = r
    BY <2>1, AppendProperties, LenProperties DEF TypeOK
  <2>4. Accounted(job', worker')
    BY <2>1
  <2>5. Sound(job', queue')
    <3> SUFFICES ASSUME NEW i \in DOMAIN queue'
                 PROVE  IF job[queue'[i]].owner = None
                        THEN \A k \in DOMAIN queue' : queue'[k] = queue'[i] => k = i
                        ELSE job[queue'[i]].released
      BY <2>1 DEF Sound
    <3>1. CASE i = Len(queue) + 1
      <4>1. job[queue'[i]].owner = None
        BY <2>2, <2>3, <3>1 DEF NewJob
      <4> QED BY <2>2, <2>3, <3>1, <4>1
    <3>2. CASE i # Len(queue) + 1
      <4>1. i \in DOMAIN queue /\ queue'[i] = queue[i] /\ queue[i] # r
        BY <2>2, <2>3, <3>2
      <4>2. CASE job[queue[i]].owner = None
        <5>1. \A k \in DOMAIN queue : queue[k] = queue[i] => k = i
          BY <4>1, <4>2 DEF Sound
        <5> QED BY <2>3, <4>1, <4>2, <5>1
      <4>3. CASE job[queue[i]].owner # None
        BY <4>1, <4>3 DEF Sound
      <4> QED BY <4>2, <4>3
    <3> QED BY <3>1, <3>2
  <2>6. RequestsTracked'
    <3>1. inFlight' = {s \in Requests : client'[s] = "waiting"}
      BY <2>1 DEF RequestsTracked, TypeOK
    <3>2. \A s \in Requests : client'[s] \in {"new", "checked"} =>
            job'[s] = NewJob /\ s \notin ToSet(queue')
      <4> SUFFICES ASSUME NEW s \in Requests, client'[s] \in {"new", "checked"}
                   PROVE  job'[s] = NewJob /\ s \notin ToSet(queue')
        OBVIOUS
      <4>1. s # r /\ client[s] \in {"new", "checked"}
        BY <2>1 DEF TypeOK
      <4>2. job[s] = NewJob /\ \A i \in DOMAIN queue : queue[i] # s
        BY <4>1 DEF RequestsTracked, ToSet
      <4> QED BY <2>1, <2>3, <4>1, <4>2 DEF ToSet
    <3> QED BY <3>1, <3>2 DEF RequestsTracked
  <2> QED BY <2>4, <2>5, <2>6
<1>4. ASSUME NEW late \in BOOLEAN, Return(r, late)
      PROVE  Accounted(job', worker') /\ Sound(job', queue') /\ RequestsTracked'
  <2>1. /\ client[r] = "waiting" /\ worker' = SlotsAfterRelease({r})
        /\ job' = [job EXCEPT ![r] = Released(@)] /\ queue' = queue
        /\ inFlight' = inFlight \ {r} /\ client' = [client EXCEPT ![r] = "answered"]
    BY <1>4 DEF Return, Respond
  <2>2. ReleasedIn(job', {r})
    <3>1. job'[r] = Released(job[r]) /\ \A s \in Requests \ {r} : job'[s] = job[s]
      BY <2>1 DEF TypeOK
    <3> QED BY <3>1, ReleaseOne
  <2>3. Accounted(job', worker') /\ Sound(job', queue')
    BY <2>1, <2>2, ReleaseAccounts, ReleaseSound
  <2>4. RequestsTracked'
    BY <2>1 DEF RequestsTracked, TypeOK
  <2> QED BY <2>3, <2>4
<1>5. CASE DozesOff(r)
  BY <1>5 DEF DozesOff, RequestsTracked
<1> QED
  BY <1>2, <1>3, <1>4, <1>5 DEF ClientStep

LEMMA WorkerIInv ==
  ASSUME IInv, NEW w \in Workers, WorkerStep(w)
  PROVE  Accounted(job', worker') /\ Sound(job', queue') /\ RequestsTracked'
<1> USE DEF IInv
<1>1. ASSUME NEW reply, PollArrives(w, reply)
      PROVE  Accounted(job', worker') /\ Sound(job', queue') /\ RequestsTracked'
  <2>1. PICK order \in SetToSeqs(Abandoned(w)) :
            \/ /\ queue \o order # << >>
               /\ SweptWorkers(w)[w].inFlight < Capacity[w]
               /\ HandOut(w, SweptJobs(w), SweptWorkers(w), queue \o order)
            \/ /\ job' = SweptJobs(w) /\ worker' = SweptWorkers(w)
               /\ queue' = queue \o order
    BY <1>1, ArrivalCases
  <2>2. Accounted(SweptJobs(w), SweptWorkers(w))
    BY SweepReleases, ReleaseAccounts
  <2>3. Sound(SweptJobs(w), queue \o order)
    BY SweepSound
  <2>4. Untouched(SweptJobs(w), queue \o order)
    BY UntouchedBySweep
  <2>5. Accounted(job', worker') /\ Sound(job', queue') /\ Untouched(job', queue')
    <3>1. /\ SweptJobs(w) \in [Requests -> Jobs]
          /\ SweptWorkers(w) \in [Workers -> WorkerStates]
          /\ queue \o order \in Seq(Requests)
      BY SweepType
    <3>2. CASE /\ queue \o order # << >>
               /\ SweptWorkers(w)[w].inFlight < Capacity[w]
               /\ HandOut(w, SweptJobs(w), SweptWorkers(w), queue \o order)
      <4>1. Accounted(job', worker')
        BY <2>2, <2>3, <3>1, <3>2, HandOutAccounts
      <4>2. Sound(job', queue')
        BY <2>3, <3>1, <3>2, HandOutSound
      <4>3. Untouched(job', queue')
        BY <2>4, <3>1, <3>2, UntouchedByHandOut
      <4> QED BY <4>1, <4>2, <4>3
    <3>3. CASE /\ job' = SweptJobs(w) /\ worker' = SweptWorkers(w)
               /\ queue' = queue \o order
      BY <2>2, <2>3, <2>4, <3>3
    <3> QED BY <2>1, <3>2, <3>3
  <2>6. UNCHANGED <<inFlight, client>>
    BY <1>1, ArrivalCases
  <2> QED BY <2>5, <2>6, UntouchedIsTracked
<1>2. ASSUME NEW r \in Requests, PollWakes(w, r)
      PROVE  Accounted(job', worker') /\ Sound(job', queue') /\ RequestsTracked'
  <2>1. /\ queue # << >> /\ worker[w].inFlight < Capacity[w]
        /\ HandOut(w, job, worker, queue) /\ UNCHANGED <<inFlight, client>>
    BY <1>2 DEF PollWakes, CanTake
  <2>2. /\ job \in [Requests -> Jobs] /\ worker \in [Workers -> WorkerStates]
        /\ queue \in Seq(Requests)
    BY DEF TypeOK
  <2>3. Untouched(job, queue)
    BY DEF Untouched, RequestsTracked, ToSet
  <2>5. Accounted(job', worker')
    BY <2>1, <2>2, HandOutAccounts
  <2>6. Sound(job', queue')
    BY <2>1, <2>2, HandOutSound
  <2>7. Untouched(job', queue')
    BY <2>1, <2>2, <2>3, UntouchedByHandOut
  <2> QED BY <2>1, <2>5, <2>6, <2>7, UntouchedIsTracked
<1>3. CASE PollExpires(w) \/ PollSleeps(w)
  BY <1>3 DEF PollExpires, PollSleeps, RequestsTracked
<1>4. ASSUME NEW r \in Requests, NEW x \in Results, PostResult(w, r, x)
      PROVE  Accounted(job', worker') /\ Sound(job', queue') /\ RequestsTracked'
  <2>1. UNCHANGED <<queue, inFlight, client>>
    BY <1>4 DEF PostResult
  <2>2. CASE Accepts(w, r)
    <3>1. /\ job' = [job EXCEPT ![r] = [Released(@) EXCEPT !.result = x, !.done = TRUE]]
          /\ worker' = Seen(SlotsAfterRelease({r}), w)
      BY <1>4, <2>2 DEF PostResult
    <3>2. job[r] \in Jobs /\ Released(job[r]) \in Jobs
      <4>1. job[r] \in Jobs
        BY DEF TypeOK
      <4> QED BY <4>1, JobUpdateType
    <3>3. /\ job'[r].owner = Released(job[r]).owner
          /\ job'[r].given = Released(job[r]).given
          /\ job'[r].released = Released(job[r]).released
          /\ \A s \in Requests \ {r} : job'[s] = job[s]
      BY <3>1, <3>2 DEF TypeOK
    <3>4. ReleasedIn(job', {r})
      BY <3>3, ReleaseOne
    <3>5. Accounted(job', SlotsAfterRelease({r})) /\ Sound(job', queue')
      BY <2>1, <3>4, ReleaseAccounts, ReleaseSound
    <3>6. Accounted(job', worker')
      <4>1. SlotsAfterRelease({r}) \in [Workers -> WorkerStates]
        BY ReleaseType
      <4>2. \A u \in Workers :
              LET y == Seen(SlotsAfterRelease({r}), w)[u]
              IN /\ y.inFlight = SlotsAfterRelease({r})[u].inFlight
                 /\ y.slots = SlotsAfterRelease({r})[u].slots
        BY <4>1, SeenSlots
      <4> QED BY <3>1, <3>5, <4>2, AccountsKept
    <3>7. r \in inFlight
      BY <2>2 DEF Accepts
    <3>8. RequestsTracked'
      BY <2>1, <3>3, <3>7 DEF RequestsTracked
    <3> QED BY <3>5, <3>6, <3>8
  <2>3. CASE ~Accepts(w, r)
    <3>1. job' = job /\ worker' = Seen(worker, w)
      BY <1>4, <2>3 DEF PostResult
    <3>3. \A u \in Workers : /\ worker'[u].inFlight = worker[u].inFlight
                             /\ worker'[u].slots = worker[u].slots
      <4>1. worker \in [Workers -> WorkerStates]
        BY DEF TypeOK
      <4> QED BY <3>1, <4>1, SeenSlots
    <3>4. Accounted(job', worker')
      BY <3>1, <3>3, AccountsKept
    <3>5. RequestsTracked'
      BY <2>1, <3>1 DEF RequestsTracked
    <3> QED BY <2>1, <3>1, <3>4, <3>5
  <2> QED BY <2>2, <2>3
<1>5. CASE FallsSilent(w)
  <2>1. /\ worker' = [worker EXCEPT ![w].fresh = FALSE]
        /\ UNCHANGED <<job, queue, inFlight, client>>
    BY <1>5 DEF FallsSilent
  <2>2. \A u \in Workers : /\ worker'[u].inFlight = worker[u].inFlight
                           /\ worker'[u].slots = worker[u].slots
    BY <2>1 DEF TypeOK
  <2>3. Accounted(job', worker')
    <3>1. Accounted(job, worker')
      BY <2>2, AccountsKept
    <3> QED BY <2>1, <3>1
  <2> QED BY <2>1, <2>3 DEF RequestsTracked
<1> QED
  BY <1>1, <1>2, <1>3, <1>4, <1>5 DEF WorkerStep

LEMMA NextIInv == IInv /\ [Next]_vars => IInv'
<1> SUFFICES ASSUME IInv, [Next]_vars PROVE IInv'
  OBVIOUS
<1>1. TypeOK'
  BY NextType DEF IInv
<1>2. ASSUME NEW r \in Requests, ClientStep(r)
      PROVE  Accounted(job', worker') /\ Sound(job', queue') /\ RequestsTracked'
  BY <1>2, ClientIInv
<1>3. ASSUME NEW w \in Workers, WorkerStep(w)
      PROVE  Accounted(job', worker') /\ Sound(job', queue') /\ RequestsTracked'
  BY <1>3, WorkerIInv
<1>4. ASSUME UNCHANGED <<job, queue, inFlight, worker, client>>
      PROVE  Accounted(job', worker') /\ Sound(job', queue') /\ RequestsTracked'
  <2>1. Accounted(job', worker')
    BY <1>4 DEF IInv
  <2>2. Sound(job', queue')
    BY <1>4 DEF IInv
  <2>3. RequestsTracked'
    BY <1>4 DEF IInv, RequestsTracked
  <2> QED BY <2>1, <2>2, <2>3
<1>5. ASSUME RequestStop \/ UNCHANGED vars
      PROVE  Accounted(job', worker') /\ Sound(job', queue') /\ RequestsTracked'
  <2>1. UNCHANGED <<job, queue, inFlight, worker, client>>
    BY <1>5 DEF RequestStop, vars
  <2> QED BY <1>4, <2>1
<1> QED
  BY <1>1, <1>2, <1>3, <1>4, <1>5, NextState DEF Next, IInv

LEMMA IInvHolds == Spec => []IInv
  BY InitIInv, NextIInv, PTL DEF Spec

\* Whatever workers send and however requests, retries, results and deadlines
\* interleave, a worker's counter counts each hand-out whose slot was not given
\* back, once, and no other, and never exceeds the worker's capacity.
THEOREM SlotsStayAccounted == Spec => []SlotsAccounted
<1>1. IInv => SlotsAccounted
  BY IInvMeans
<1> QED
  BY <1>1, IInvHolds, PTL

\* A job is queued once before its first worker, and is queued again only with
\* the slot of its first hand-out given back.
THEOREM QueueStaysSound == Spec => []QueueSound
<1>1. IInv => QueueSound
  BY IInvMeans
<1> QED
  BY <1>1, IInvHolds, PTL

\* inFlight_ is exactly the set of jobs somebody waits for.
THEOREM RequestsStayTracked == Spec => []RequestsTracked
  BY IInvHolds, PTL DEF IInv

-----------------------------------------------------------------------------
(* The condition variable.                                                 *)

\* No handler sleeps while a condition over these variables holds.
SleepersMiss(sl, pl, q, ws) ==
  \A w \in Workers :
    /\ sl[w] <= pl[w]
    /\ sl[w] > 0 => stop \/ q = << >> \/ ws[w].inFlight >= Capacity[w]

LEMMA SleepersMissNothing ==
  ASSUME TypeOK
  PROVE  NoLostWakeup <=>
           /\ SleepersMiss(asleep, polls, queue, worker)
           /\ \A r \in dozing : client[r] = "waiting" /\ ~job[r].done
<1>1. \A w \in Workers : worker[w].inFlight \in Nat /\ Capacity[w] \in Nat
  BY BalancerAssumption DEF TypeOK
<1>2. \A w \in Workers :
        ~CanTake(w) <=> stop \/ queue = << >> \/ worker[w].inFlight >= Capacity[w]
  BY <1>1 DEF CanTake
<1> QED
  BY <1>2 DEF NoLostWakeup, SleepersMiss

LEMMA InitWakeup == Init => NoLostWakeup
<1> SUFFICES ASSUME Init PROVE NoLostWakeup
  OBVIOUS
<1>1. \A w \in Workers : asleep[w] = 0 /\ polls[w] = 0
  BY DEF Init
<1>2. dozing = {}
  BY DEF Init
<1> QED
  BY <1>1, <1>2 DEF NoLostWakeup

\* After notify_all() nobody sleeps.
LEMMA Notified ==
  ASSUME TypeOK', NotifyAll
  PROVE  NoLostWakeup'
<1>1. \A w \in Workers : asleep'[w] = 0 /\ polls'[w] \in Nat
  BY DEF NotifyAll, TypeOK
<1>2. dozing' = {}
  BY DEF NotifyAll
<1> QED
  BY <1>1, <1>2 DEF NoLostWakeup

\* A step that notifies nobody must not make any condition true.
LEMMA Unnotified ==
  ASSUME TypeOK, TypeOK', NoLostWakeup,
         \A w \in Workers : asleep'[w] <= polls'[w],
         \A w \in Workers : asleep'[w] > 0 => asleep[w] > 0 \/ ~CanTake(w)',
         \A w \in Workers : CanTake(w)' => CanTake(w),
         \A r \in dozing' :
           \/ client'[r] = "waiting" /\ ~job'[r].done
           \/ r \in dozing /\ client'[r] = client[r] /\ job'[r].done = job[r].done
  PROVE  NoLostWakeup'
  BY DEF NoLostWakeup

LEMMA ClientWakeup ==
  ASSUME IInv, TypeOK', NoLostWakeup, NEW r \in Requests, ClientStep(r)
  PROVE  NoLostWakeup'
<1> USE DEF IInv
<1>1. ASSUME UNCHANGED <<job, queue, worker, polls, asleep, dozing, stop>>,
             client[r] # "waiting", \A s \in Requests \ {r} : client'[s] = client[s]
      PROVE  NoLostWakeup'
  <2>1. \A u \in Workers : /\ asleep'[u] <= polls'[u]
                           /\ asleep'[u] > 0 => ~CanTake(u)'
    BY <1>1 DEF NoLostWakeup, CanTake
  <2>2. dozing \subseteq Requests /\ \A s \in dozing : client[s] = "waiting" /\ ~job[s].done
    BY DEF NoLostWakeup, TypeOK
  <2>3. \A s \in dozing' : client'[s] = "waiting" /\ ~job'[s].done
    BY <1>1, <2>2
  <2> QED BY <2>1, <2>3 DEF NoLostWakeup
<1>2. CASE Refuse(r) \/ AnswerFromCache(r) \/ PassChecks(r) \/ TurnAway(r)
  <2>1. /\ UNCHANGED <<job, queue, worker, polls, asleep, dozing, stop>>
        /\ client[r] # "waiting"
    BY <1>2 DEF Refuse, AnswerFromCache, PassChecks, TurnAway, sleepers
  <2>2. \A s \in Requests \ {r} : client'[s] = client[s]
    BY <1>2 DEF Refuse, AnswerFromCache, PassChecks, TurnAway, Respond, TypeOK
  <2> QED BY <1>1, <2>1, <2>2
<1>3. CASE Enqueue(r)
  <2>1. \A w \in Workers : asleep'[w] = 0 /\ polls'[w] \in Nat
    BY <1>3 DEF Enqueue, TypeOK
  <2>2. /\ job' = job /\ client[r] = "checked" /\ client'[r] = "waiting"
        /\ dozing' \subseteq {r}
    BY <1>3 DEF Enqueue, TypeOK
  <2>3. ~job[r].done
    BY <2>2 DEF RequestsTracked, NewJob
  <2> QED BY <2>1, <2>2, <2>3 DEF NoLostWakeup
<1>4. ASSUME NEW late \in BOOLEAN, Return(r, late)
      PROVE  NoLostWakeup'
  BY <1>4, Notified DEF Return
<1>5. CASE DozesOff(r)
  BY <1>5 DEF DozesOff, NoLostWakeup, CanTake
<1> QED
  BY <1>2, <1>3, <1>4, <1>5 DEF ClientStep

\* A poll that requeues nothing: slots, jobs and queue before the hand-out are
\* those of the state.
LEMMA EmptySweep ==
  ASSUME TypeOK, NEW w \in Workers, Abandoned(w) = {}
  PROVE  /\ SweptJobs(w) = job
         /\ \A u \in Workers : SweptWorkers(w)[u].inFlight = worker[u].inFlight
         /\ \A order \in SetToSeqs({}) : queue \o order = queue
<1>1. SweptJobs(w) = job
  BY DEF SweptJobs, TypeOK
<1>2. \A u \in Workers : SweptWorkers(w)[u].inFlight = worker[u].inFlight
  <2> SUFFICES ASSUME NEW u \in Workers
               PROVE  SweptWorkers(w)[u].inFlight = worker[u].inFlight
    OBVIOUS
  <2> DEFINE n == worker[u].inFlight
             left == IF n > Cardinality({} \cap Holds(u))
                     THEN n - Cardinality({} \cap Holds(u)) ELSE 0
  <2>1. worker[u] \in WorkerStates /\ n \in Nat
    BY DEF TypeOK
  <2>2. Cardinality({} \cap Holds(u)) = 0
    <3>1. {} \cap Holds(u) = {}
      OBVIOUS
    <3> QED BY <3>1, FS_EmptySet
  <2>3. left = n
    BY <2>1, <2>2
  <2>5. SlotsAfterRelease({})[u].inFlight = n
    BY <2>3, ReleasedSlots
  <2>6. SlotsAfterRelease({}) \in [Workers -> WorkerStates]
    BY ReleaseType
  <2>7. SweptWorkers(w)[u].inFlight = SlotsAfterRelease({})[u].inFlight
    BY <2>6, SeenType DEF SweptWorkers
  <2> QED BY <2>5, <2>7
<1>3. \A order \in SetToSeqs({}) : queue \o order = queue
  <2> SUFFICES ASSUME NEW order \in SetToSeqs({}) PROVE queue \o order = queue
    OBVIOUS
  <2>1. order \in Seq(Requests) /\ \A i \in DOMAIN order : order[i] \in {}
    BY OrdersType
  <2>2. DOMAIN order = {}
    BY <2>1
  <2>3. Len(order) \in Nat /\ DOMAIN order = 1..Len(order)
    BY <2>1, LenProperties
  <2>4. Len(order) = 0
    <3>1. 1 \notin 1..Len(order)
      BY <2>2, <2>3
    <3> QED BY <2>3, <3>1
  <2>5. order = << >>
    BY <2>1, <2>4, EmptySeq
  <2> QED BY <2>5, ConcatEmptySeq DEF TypeOK
<1> QED
  BY <1>1, <1>2, <1>3

\* Handing out a job takes from the queue and adds to the counters: nobody can
\* take a job who could not before.
LEMMA HandOutQuiet ==
  ASSUME TypeOK, NEW ws \in [Workers -> WorkerStates], NEW w \in Workers,
         \A u \in Workers : ws[u].inFlight = worker[u].inFlight,
         queue # << >>, HandOut(w, job, ws, queue), UNCHANGED stop
  PROVE  /\ \A u \in Workers : CanTake(u)' => CanTake(u)
         /\ \A r \in Requests : job'[r].done = job[r].done
<1>1. Head(queue) \in Requests
  BY HeadTailProperties DEF TypeOK
<1>2. \A u \in Workers : worker'[u].inFlight >= worker[u].inFlight
  <2>0. job \in [Requests -> Jobs] /\ queue \in Seq(Requests)
    BY DEF TypeOK
  <2>1. worker' = Charged(ws, w, Head(queue), job[Head(queue)].given + 1)
    BY <2>0, HandOutParts
  <2>2. /\ worker'[w].inFlight = ws[w].inFlight + 1
        /\ \A u \in Workers \ {w} : worker'[u] = ws[u]
    BY <2>1 DEF Charged
  <2>3. \A u \in Workers : worker[u].inFlight \in Nat
    BY DEF TypeOK
  <2> QED BY <2>2, <2>3
<1>3. \A u \in Workers : CanTake(u)' => CanTake(u)
  <2>1. \A u \in Workers : /\ worker[u].inFlight \in Nat /\ Capacity[u] \in Nat
                           /\ worker'[u].inFlight \in Nat
    <3>1. worker' \in [Workers -> WorkerStates]
      BY HandOutStepType DEF TypeOK
    <3> QED BY <3>1, BalancerAssumption DEF TypeOK
  <2> QED BY <1>2, <2>1 DEF CanTake
<1>4. \A r \in Requests : job'[r].done = job[r].done
  <2>0. job \in [Requests -> Jobs] /\ queue \in Seq(Requests)
    BY DEF TypeOK
  <2>1. job' = GivenTo(job, Head(queue), w)
    BY <2>0, HandOutParts
  <2> QED BY <1>1, <2>1 DEF TypeOK, GivenTo
<1> QED
  BY <1>3, <1>4

\* A poll's arrival and cv_: either jobs were requeued and everybody else is
\* notified, or nothing but the poll's own hand-out or wait happens.
LEMMA ArrivalSleepers ==
  ASSUME TypeOK, NEW w \in Workers, NEW reply, PollArrives(w, reply)
  PROVE  \/ NotifyAll
         \/ /\ Abandoned(w) = {} /\ UNCHANGED <<asleep, dozing, polls>>
            /\ queue # << >> /\ HandOut(w, SweptJobs(w), SweptWorkers(w), queue)
         \/ /\ stop /\ dozing' \subseteq dozing
            /\ UNCHANGED polls
            /\ \A u \in Workers : asleep'[u] <= asleep[u]
            /\ job' = SweptJobs(w)
         \/ /\ ~stop /\ polls' = [polls EXCEPT ![w] = @ + 1]
            /\ queue' = << >> \/ ~(worker'[w].inFlight < Capacity[w])
            /\ \/ /\ Abandoned(w) = {} /\ queue' = queue /\ dozing' = dozing
                  /\ worker' = SweptWorkers(w) /\ job' = SweptJobs(w)
                  /\ asleep' = [asleep EXCEPT ![w] = @ + 1]
               \/ /\ dozing' = {} /\ asleep' = [u \in Workers |-> IF u = w THEN 1 ELSE 0]
<1>0. \A u \in Workers : asleep[u] \in Nat
  BY DEF TypeOK
<1>1. PICK order \in SetToSeqs(Abandoned(w)) :
        \/ /\ queue \o order # << >> /\ UNCHANGED polls
           /\ HandOut(w, SweptJobs(w), SweptWorkers(w), queue \o order)
           /\ IF Abandoned(w) = {} THEN UNCHANGED sleepers ELSE NotifyAll
        \/ /\ ~(~stop /\ queue \o order # << >> /\ SweptWorkers(w)[w].inFlight < Capacity[w])
           /\ job' = SweptJobs(w) /\ worker' = SweptWorkers(w) /\ queue' = queue \o order
           /\ polls' = IF stop THEN polls ELSE [polls EXCEPT ![w] = @ + 1]
           /\ asleep' = [u \in Workers |->
                           (IF Abandoned(w) = {} THEN asleep[u] ELSE 0)
                             + (IF u = w /\ ~stop THEN 1 ELSE 0)]
           /\ dozing' = IF Abandoned(w) = {} THEN dozing ELSE {}
  BY DEF PollArrives, SweptJobs, SweptWorkers
<1>2. Abandoned(w) = {} => queue \o order = queue
  BY EmptySweep
<1>3. CASE HandOut(w, SweptJobs(w), SweptWorkers(w), queue \o order) /\ UNCHANGED polls
           /\ queue \o order # << >>
           /\ IF Abandoned(w) = {} THEN UNCHANGED sleepers ELSE NotifyAll
  BY <1>2, <1>3 DEF sleepers
<1>4. CASE /\ ~(~stop /\ queue \o order # << >> /\ SweptWorkers(w)[w].inFlight < Capacity[w])
           /\ job' = SweptJobs(w) /\ worker' = SweptWorkers(w) /\ queue' = queue \o order
           /\ polls' = IF stop THEN polls ELSE [polls EXCEPT ![w] = @ + 1]
           /\ asleep' = [u \in Workers |->
                           (IF Abandoned(w) = {} THEN asleep[u] ELSE 0)
                             + (IF u = w /\ ~stop THEN 1 ELSE 0)]
           /\ dozing' = IF Abandoned(w) = {} THEN dozing ELSE {}
  <2>1. CASE stop
    BY <1>0, <1>4, <2>1
  <2>2. CASE ~stop /\ Abandoned(w) = {}
    <3> DEFINE new == [u \in Workers |-> asleep[u] + (IF u = w THEN 1 ELSE 0)]
    <3>1. asleep' = new
      BY <1>4, <2>2
    <3>2. asleep = [u \in Workers |-> asleep[u]]
      BY DEF TypeOK
    <3>3. \A u \in Workers : new[u] = [asleep EXCEPT ![w] = @ + 1][u]
      BY <1>0, <3>2
    <3>4. new = [asleep EXCEPT ![w] = @ + 1]
      BY <3>2, <3>3
    <3>5. asleep' = [asleep EXCEPT ![w] = @ + 1]
      BY <3>1, <3>4
    <3> QED BY <1>2, <1>4, <2>2, <3>5
  <2>3. CASE ~stop /\ Abandoned(w) # {}
    <3>1. asleep' = [u \in Workers |-> IF u = w THEN 1 ELSE 0]
      BY <1>4, <2>3
    <3> QED BY <1>4, <2>3, <3>1
  <2> QED BY <2>1, <2>2, <2>3
<1> QED
  BY <1>1, <1>3, <1>4

LEMMA SweepKeepsDone ==
  ASSUME TypeOK, NEW w \in Workers
  PROVE  \A r \in Requests : SweptJobs(w)[r].done = job[r].done
<1>1. \A r \in Requests : job[r] \in Jobs
  BY DEF TypeOK
<1>2. \A r \in Requests : Requeued(job[r]).done = job[r].done
  BY <1>1 DEF Requeued
<1> QED
  BY <1>2 DEF SweptJobs

LEMMA ArrivalWakeup ==
  ASSUME IInv, TypeOK', NoLostWakeup, NEW w \in Workers, NEW reply,
         PollArrives(w, reply)
  PROVE  NoLostWakeup'
<1> USE DEF IInv
<1>0. /\ UNCHANGED <<client, stop>>
      /\ \A u \in Workers : /\ asleep[u] \in Nat /\ asleep'[u] \in Nat
                            /\ polls[u] \in Nat /\ asleep[u] <= polls[u]
      /\ \A r \in dozing : r \in Requests /\ client[r] = "waiting" /\ ~job[r].done
  BY ArrivalCases DEF NoLostWakeup, TypeOK
<1>1. CASE NotifyAll
  BY <1>1, Notified
<1>2. CASE /\ Abandoned(w) = {} /\ UNCHANGED <<asleep, dozing, polls>>
           /\ queue # << >> /\ HandOut(w, SweptJobs(w), SweptWorkers(w), queue)
  <2>1. /\ SweptJobs(w) = job
        /\ \A u \in Workers : SweptWorkers(w)[u].inFlight = worker[u].inFlight
        /\ SweptWorkers(w) \in [Workers -> WorkerStates]
    BY <1>2, EmptySweep, SweepType
  <2>2. /\ \A u \in Workers : CanTake(u)' => CanTake(u)
        /\ \A r \in Requests : job'[r].done = job[r].done
    BY <1>0, <1>2, <2>1, HandOutQuiet
  <2> QED BY <1>0, <1>2, <2>2 DEF NoLostWakeup
<1>3. CASE /\ stop /\ dozing' \subseteq dozing /\ UNCHANGED polls
           /\ \A u \in Workers : asleep'[u] <= asleep[u]
           /\ job' = SweptJobs(w)
  <2>1. \A u \in Workers : asleep'[u] <= polls'[u] /\ ~CanTake(u)'
    BY <1>0, <1>3 DEF CanTake
  <2>2. \A r \in dozing' : client'[r] = "waiting" /\ ~job'[r].done
    BY <1>0, <1>3, SweepKeepsDone
  <2> QED BY <2>1, <2>2 DEF NoLostWakeup
<1>4. ASSUME ~stop, polls' = [polls EXCEPT ![w] = @ + 1],
             queue' = << >> \/ ~(worker'[w].inFlight < Capacity[w])
      PROVE  /\ ~CanTake(w)'
             /\ polls'[w] = polls[w] + 1
             /\ \A u \in Workers \ {w} : polls'[u] = polls[u]
  BY <1>4 DEF CanTake, TypeOK
<1>5. CASE /\ ~stop /\ polls' = [polls EXCEPT ![w] = @ + 1]
           /\ queue' = << >> \/ ~(worker'[w].inFlight < Capacity[w])
           /\ Abandoned(w) = {} /\ queue' = queue /\ dozing' = dozing
           /\ worker' = SweptWorkers(w) /\ job' = SweptJobs(w)
           /\ asleep' = [asleep EXCEPT ![w] = @ + 1]
  <2>1. /\ job' = job
        /\ \A u \in Workers : worker'[u].inFlight = worker[u].inFlight
    BY <1>5, EmptySweep
  <2>2. \A u \in Workers : CanTake(u)' = CanTake(u)
    BY <1>0, <1>5, <2>1 DEF CanTake
  <2>3. /\ asleep'[w] = asleep[w] + 1
        /\ \A u \in Workers \ {w} : asleep'[u] = asleep[u]
    BY <1>5 DEF TypeOK
  <2>4. \A u \in Workers : /\ asleep'[u] <= polls'[u]
                           /\ asleep'[u] > 0 => ~CanTake(u)'
    BY <1>0, <1>4, <1>5, <2>2, <2>3 DEF NoLostWakeup
  <2> QED BY <1>0, <1>5, <2>1, <2>4 DEF NoLostWakeup
<1>6. CASE /\ ~stop /\ polls' = [polls EXCEPT ![w] = @ + 1]
           /\ queue' = << >> \/ ~(worker'[w].inFlight < Capacity[w])
           /\ dozing' = {} /\ asleep' = [u \in Workers |-> IF u = w THEN 1 ELSE 0]
  <2>1. \A u \in Workers : /\ asleep'[u] <= polls'[u]
                           /\ asleep'[u] > 0 => ~CanTake(u)'
    BY <1>0, <1>4, <1>6
  <2> QED BY <1>6, <2>1 DEF NoLostWakeup
<1> QED
  BY <1>1, <1>2, <1>3, <1>5, <1>6, ArrivalSleepers

LEMMA WorkerWakeup ==
  ASSUME IInv, TypeOK', NoLostWakeup, NEW w \in Workers, WorkerStep(w)
  PROVE  NoLostWakeup'
<1> USE DEF IInv
<1>0. /\ \A u \in Workers : /\ asleep[u] \in Nat /\ polls[u] \in Nat
                            /\ worker[u] \in WorkerStates
      /\ \A r \in dozing : r \in Requests
  BY DEF TypeOK
<1>1. ASSUME NEW reply, PollArrives(w, reply)
      PROVE  NoLostWakeup'
  BY <1>1, ArrivalWakeup
<1>2. ASSUME NEW r \in Requests, PollWakes(w, r)
      PROVE  NoLostWakeup'
  <2>1. /\ \A u \in Workers : CanTake(u)' => CanTake(u)
        /\ \A s \in Requests : job'[s].done = job[s].done
    BY <1>2, HandOutQuiet DEF PollWakes, CanTake, TypeOK
  <2>2. /\ UNCHANGED <<asleep, dozing, client>> /\ polls[w] > asleep[w]
        /\ polls'[w] = polls[w] - 1
        /\ \A u \in Workers \ {w} : polls'[u] = polls[u]
    BY <1>2 DEF PollWakes, sleepers, TypeOK
  <2>3. \A u \in Workers : asleep'[u] <= polls'[u]
    BY <1>0, <2>2 DEF NoLostWakeup
  <2> QED BY <1>0, <2>1, <2>2, <2>3 DEF NoLostWakeup
<1>3. CASE PollSleeps(w)
  <2>1. /\ UNCHANGED <<job, queue, worker, polls, dozing, client, stop>>
        /\ polls[w] > asleep[w] /\ ~CanTake(w)
        /\ asleep'[w] = asleep[w] + 1
        /\ \A u \in Workers \ {w} : asleep'[u] = asleep[u]
    BY <1>3 DEF PollSleeps, TypeOK
  <2>2. \A u \in Workers : CanTake(u)' = CanTake(u)
    BY <2>1 DEF CanTake
  <2>3. \A u \in Workers : /\ asleep'[u] <= polls'[u]
                           /\ asleep'[u] > 0 => ~CanTake(u)'
    BY <1>0, <2>1, <2>2 DEF NoLostWakeup
  <2> QED BY <2>1, <2>3 DEF NoLostWakeup
<1>4. CASE PollExpires(w)
  <2>1. /\ UNCHANGED <<job, queue, worker, dozing, client, stop>>
        /\ polls'[w] = polls[w] - 1
        /\ \A u \in Workers \ {w} : polls'[u] = polls[u] /\ asleep'[u] = asleep[u]
        /\ \/ asleep[w] > 0 /\ asleep'[w] = asleep[w] - 1
           \/ polls[w] > asleep[w] /\ asleep'[w] = asleep[w]
    BY <1>4 DEF PollExpires, TypeOK
  <2>2. \A u \in Workers : CanTake(u)' = CanTake(u)
    BY <2>1 DEF CanTake
  <2>3. \A u \in Workers : /\ asleep'[u] <= polls'[u]
                           /\ asleep'[u] > 0 => ~CanTake(u)'
    BY <1>0, <2>1, <2>2 DEF NoLostWakeup
  <2> QED BY <2>1, <2>3 DEF NoLostWakeup
<1>5. ASSUME NEW r \in Requests, NEW x \in Results, PostResult(w, r, x)
      PROVE  NoLostWakeup'
  <2>1. CASE Accepts(w, r)
    BY <1>5, <2>1, Notified DEF PostResult
  <2>2. CASE ~Accepts(w, r)
    <3>1. /\ UNCHANGED <<job, queue, polls, asleep, dozing, client, stop>>
          /\ worker' = Seen(worker, w)
      BY <1>5, <2>2 DEF PostResult, sleepers
    <3>2. \A u \in Workers : worker'[u].inFlight = worker[u].inFlight
      BY <3>1, SeenSlots DEF TypeOK
    <3>3. \A u \in Workers : CanTake(u)' = CanTake(u)
      BY <3>1, <3>2 DEF CanTake
    <3> QED BY <3>1, <3>3 DEF NoLostWakeup
  <2> QED BY <2>1, <2>2
<1>6. CASE FallsSilent(w)
  <2>1. /\ UNCHANGED <<job, queue, polls, asleep, dozing, client, stop>>
        /\ \A u \in Workers : worker'[u].inFlight = worker[u].inFlight
    BY <1>6 DEF FallsSilent, sleepers, TypeOK
  <2>2. \A u \in Workers : CanTake(u)' = CanTake(u)
    BY <2>1 DEF CanTake
  <2> QED BY <2>1, <2>2 DEF NoLostWakeup
<1> QED
  BY <1>1, <1>2, <1>3, <1>4, <1>5, <1>6 DEF WorkerStep

LEMMA NextWakeup == IInv /\ NoLostWakeup /\ [Next]_vars => NoLostWakeup'
<1> SUFFICES ASSUME IInv, NoLostWakeup, [Next]_vars PROVE NoLostWakeup'
  OBVIOUS
<1>1. TypeOK'
  BY NextType DEF IInv
<1>2. ASSUME NEW r \in Requests, ClientStep(r)
      PROVE  NoLostWakeup'
  BY <1>1, <1>2, ClientWakeup
<1>3. ASSUME NEW w \in Workers, WorkerStep(w)
      PROVE  NoLostWakeup'
  BY <1>1, <1>3, WorkerWakeup
<1>4. CASE RequestStop
  <2>1. /\ UNCHANGED <<job, polls, asleep, dozing, client>> /\ stop'
    BY <1>4 DEF RequestStop, sleepers
  <2> QED BY <2>1 DEF NoLostWakeup, CanTake
<1>5. CASE UNCHANGED vars
  BY <1>5 DEF vars, NoLostWakeup, CanTake
<1> QED
  BY <1>2, <1>3, <1>4, <1>5 DEF Next

\* Every change after which a sleeping handler could go on notifies it: no
\* worker's slot sleeps through a job, no browser through its answer.
THEOREM NoWakeupIsLost == Spec => []NoLostWakeup
<1>1. Init => IInv /\ NoLostWakeup
  BY InitIInv, InitWakeup
<1>2. IInv /\ NoLostWakeup /\ [Next]_vars => (IInv /\ NoLostWakeup)'
  BY NextIInv, NextWakeup
<1> QED
  BY <1>1, <1>2, PTL DEF Spec

-----------------------------------------------------------------------------
(* The queue: how often and to whom a job is handed out.                   *)

HIDE DEF WorkerStates, Entries

-----------------------------------------------------------------------------
(* Counting the places of a queue that hold a job of a set.                *)

Places(q, S) == {i \in DOMAIN q : q[i] \in S}
Count(q, S) == Cardinality(Places(q, S))

LEMMA CountType ==
  ASSUME NEW q \in Seq(Requests), NEW S
  PROVE  /\ IsFiniteSet(Places(q, S)) /\ Count(q, S) \in Nat
         /\ Count(q, S) <= Len(q)
<1>1. DOMAIN q = 1 .. Len(q) /\ Len(q) \in Nat
  BY LenProperties
<1>2. IsFiniteSet(1 .. Len(q)) /\ Cardinality(1 .. Len(q)) = Len(q)
  BY <1>1, FS_Interval
<1>3. Places(q, S) \in SUBSET (1 .. Len(q))
  BY <1>1 DEF Places
<1> QED BY <1>2, <1>3, FS_Subset, FS_CardinalityType DEF Count

LEMMA OneMore ==
  ASSUME NEW P, IsFiniteSet(P), NEW x
  PROVE  /\ IsFiniteSet(P \cup {x}) /\ Cardinality(P) \in Nat
         /\ Cardinality(P \cup {x}) \in Nat
         /\ Cardinality(P \cup {x}) <= Cardinality(P) + 1
<1>1. IsFiniteSet(P \cup {x}) /\ Cardinality(P \cup {x}) \in Nat /\ Cardinality(P) \in Nat
  BY FS_AddElement, FS_CardinalityType
<1>2. Cardinality(P \cup {x}) = IF x \in P THEN Cardinality(P) ELSE Cardinality(P) + 1
  BY FS_AddElement
<1> QED BY <1>1, <1>2

LEMMA CountMonotone ==
  ASSUME NEW q \in Seq(Requests), NEW S, NEW T, S \cap Requests \subseteq T
  PROVE  Count(q, S) <= Count(q, T)
<1>1. \A i \in DOMAIN q : q[i] \in Requests
  BY LenProperties
<1>2. Places(q, S) \subseteq Places(q, T)
  BY <1>1 DEF Places
<1> QED BY <1>2, CountType, FS_Subset DEF Count

LEMMA CountAppend ==
  ASSUME NEW q \in Seq(Requests), NEW r \in Requests, NEW S
  PROVE  /\ Count(Append(q, r), S) <= Count(q, S) + 1
         /\ r \notin S => Count(Append(q, r), S) = Count(q, S)
<1> DEFINE n == Len(q) + 1
           a == Append(q, r)
<1>1. /\ DOMAIN q = 1 .. Len(q) /\ Len(q) \in Nat
      /\ DOMAIN a = 1 .. n /\ a[n] = r
      /\ \A i \in 1 .. Len(q) : a[i] = q[i]
  BY AppendProperties, LenProperties
<1> HIDE DEF a
<1>2. Places(a, S) \subseteq Places(q, S) \cup {n}
  BY <1>1 DEF Places
<1>3. r \notin S => Places(a, S) = Places(q, S)
  BY <1>1 DEF Places
<1>4. /\ IsFiniteSet(Places(q, S) \cup {n})
      /\ Cardinality(Places(q, S) \cup {n}) <= Count(q, S) + 1
      /\ Cardinality(Places(q, S) \cup {n}) \in Nat
  BY CountType, OneMore DEF Count
<1>5. Cardinality(Places(a, S)) <= Cardinality(Places(q, S) \cup {n})
  BY <1>2, <1>4, FS_Subset
<1>6. Cardinality(Places(a, S)) \in Nat
  BY <1>2, <1>4, FS_Subset, FS_CardinalityType
<1>7. Count(q, S) \in Nat
  BY CountType
<1> QED BY <1>3, <1>4, <1>5, <1>6, <1>7 DEF Count, a

\* Taking the head away takes one place of it away.
LEMMA CountTail ==
  ASSUME NEW q \in Seq(Requests), q # << >>, NEW S
  PROVE  /\ Count(Tail(q), S) <= Count(q, S)
         /\ Head(q) \in S => Count(Tail(q), S) + 1 <= Count(q, S)
<1> DEFINE t == Tail(q)
           R == Places(q, S) \ {1}
           f == [i \in Places(t, S) |-> i + 1]
<1>1. /\ Head(q) = q[1] /\ t \in Seq(Requests)
      /\ Len(t) = Len(q) - 1
      /\ \A i \in 1 .. Len(t) : t[i] = q[i + 1]
      /\ Len(q) \in Nat \ {0}
      /\ DOMAIN q = 1 .. Len(q) /\ DOMAIN t = 1 .. Len(t)
  BY HeadTailProperties, EmptySeq, LenProperties
<1> HIDE DEF t
<1>2. /\ IsFiniteSet(R)
      /\ Cardinality(R) = IF 1 \in Places(q, S) THEN Count(q, S) - 1 ELSE Count(q, S)
  BY CountType, FS_RemoveElement DEF Count
<1>3. f \in Injection(Places(t, S), R)
  <2>1. \A i \in Places(t, S) : i \in Nat /\ i + 1 \in R
    BY <1>1 DEF Places
  <2> QED BY <2>1 DEF Injection, IsInjective
<1>4. Cardinality(Places(t, S)) <= Cardinality(R)
  BY <1>2, <1>3, FS_Injection
<1>5. 1 \in Places(q, S) <=> Head(q) \in S
  BY <1>1 DEF Places
<1>6. Count(q, S) \in Nat /\ Count(t, S) \in Nat
  BY <1>1, CountType
<1> QED BY <1>2, <1>4, <1>5, <1>6 DEF Count, t

\* A sweep appends each job of a set once.
LEMMA CountSweep ==
  ASSUME NEW q \in Seq(Requests), NEW A \in SUBSET Requests, NEW order \in SetToSeqs(A), NEW S
  PROVE  /\ S \cap A = {} => Count(q \o order, S) = Count(q, S)
         /\ \A r \in Requests : Count(q \o order, {r}) <= Count(q, {r}) + 1
<1> DEFINE n == Len(q)
           c == q \o order
<1>1. /\ order \in Seq(Requests) /\ DOMAIN order = 1 .. Len(order)
      /\ n \in Nat /\ Len(order) \in Nat /\ DOMAIN q = 1 .. n
      /\ \A i \in DOMAIN order : order[i] \in A
  BY OrdersType, LenProperties
<1>2. /\ DOMAIN c = 1 .. n + Len(order)
      /\ \A i \in 1 .. n + Len(order) : c[i] = IF i <= n THEN q[i] ELSE order[i - n]
  BY <1>1, ConcatProperties, LenProperties
<1>3. \A i, j \in DOMAIN order : order[i] = order[j] => i = j
  BY DEF SetToSeqs
<1> HIDE DEF c
<1>4. ASSUME S \cap A = {} PROVE Count(c, S) = Count(q, S)
  <2>1. \A i \in DOMAIN c : i \in Places(c, S) <=> i \in Places(q, S)
    BY SMTT(60), <1>1, <1>2, <1>4 DEF Places
  <2>2. Places(c, S) \subseteq DOMAIN c /\ Places(q, S) \subseteq DOMAIN c
    BY <1>1, <1>2 DEF Places
  <2>3. Places(c, S) = Places(q, S)
    BY <2>1, <2>2
  <2> QED BY <2>3 DEF Count
<1>5. ASSUME NEW r \in Requests PROVE Count(c, {r}) <= Count(q, {r}) + 1
  <2>1. PICK k : Places(c, {r}) \subseteq Places(q, {r}) \cup {k}
    <3>1. CASE \E i \in DOMAIN order : order[i] = r
      <4>1. PICK i \in DOMAIN order : order[i] = r
        BY <3>1
      <4>2. \A j \in Places(c, {r}) : j \in Places(q, {r}) \/ j = n + i
        <5> SUFFICES ASSUME NEW j \in Places(c, {r}), j \notin Places(q, {r})
                     PROVE  j = n + i
          OBVIOUS
        <5>1. j \in 1 .. n + Len(order) /\ c[j] = r
          BY <1>2 DEF Places
        <5>2. j > n
          BY <1>1, <1>2, <5>1 DEF Places
        <5>3. j - n \in DOMAIN order /\ order[j - n] = r
          BY <1>1, <1>2, <5>1, <5>2
        <5>4. j - n = i
          BY <1>3, <4>1, <5>3
        <5> QED BY <1>1, <5>1, <5>4
      <4> QED BY <4>2
    <3>2. CASE ~\E i \in DOMAIN order : order[i] = r
      <4>1. \A j \in Places(c, {r}) : j \in Places(q, {r})
        <5> SUFFICES ASSUME NEW j \in Places(c, {r}) PROVE j \in Places(q, {r})
          OBVIOUS
        <5>1. j \in 1 .. n + Len(order) /\ c[j] = r
          BY <1>2 DEF Places
        <5>2. ~(j > n)
          <6> SUFFICES ASSUME j > n PROVE FALSE
            OBVIOUS
          <6>1. j - n \in DOMAIN order /\ order[j - n] = r
            BY <1>1, <1>2, <5>1
          <6> QED BY <3>2, <6>1
        <5> QED BY <1>1, <1>2, <5>1, <5>2 DEF Places
      <4> QED BY <4>1
    <3> QED BY <3>1, <3>2
  <2>2. /\ IsFiniteSet(Places(q, {r}) \cup {k})
        /\ Cardinality(Places(q, {r}) \cup {k}) <= Count(q, {r}) + 1
        /\ Cardinality(Places(q, {r}) \cup {k}) \in Nat
        /\ Count(q, {r}) \in Nat
    BY CountType, OneMore DEF Count
  <2>3. /\ Cardinality(Places(c, {r})) <= Cardinality(Places(q, {r}) \cup {k})
        /\ Cardinality(Places(c, {r})) \in Nat
    BY <2>1, <2>2, FS_Subset, FS_CardinalityType
  <2> QED BY <2>2, <2>3 DEF Count
<1> QED BY <1>4, <1>5 DEF c

-----------------------------------------------------------------------------
(* The ledger of a job: what the queue and the job say of it must agree.   *)

Fresh(jb) == {r \in Requests : jb[r].owner = None}

DoneFreed(jb) == \A r \in Requests : jb[r].done => jb[r].owner # None /\ jb[r].released
Findable(jb, q) == \A r \in inFlight : jb[r].owner = None => \E i \in DOMAIN q : q[i] = r
Budgeted(jb, q) ==
  \A r \in Requests :
    /\ jb[r].attempts <= Retry
    /\ Count(q, {r}) + jb[r].given <= 1 + jb[r].attempts
Short(jb, q) == Count(q, Fresh(jb)) <= MaxQueue

Ledger(jb, q) == DoneFreed(jb) /\ Findable(jb, q) /\ Budgeted(jb, q) /\ Short(jb, q)

LEMMA LedgerParts ==
  ASSUME IInv
  PROVE  /\ DoneFreed(job) => DoneIsReleased
         /\ NotForgotten <=> Findable(job, queue)
         /\ DispatchBudget <=> Budgeted(job, queue)
         /\ FirstTimersBounded <=> Short(job, queue)
<1>1. \A r \in inFlight : r \in ToSet(queue) <=> \E i \in DOMAIN queue : queue[i] = r
  BY DEF ToSet
<1>2. \A r \in Requests : Count(queue, {r}) = Cardinality({i \in DOMAIN queue : queue[i] = r})
  <2> SUFFICES ASSUME NEW r \in Requests
               PROVE  Places(queue, {r}) = {i \in DOMAIN queue : queue[i] = r}
    BY DEF Count
  <2> QED BY DEF Places
<1>3. Places(queue, Fresh(job)) = {i \in DOMAIN queue : job[queue[i]].owner = None}
  <2>1. \A i \in DOMAIN queue : queue[i] \in Requests
    BY LenProperties DEF IInv, TypeOK
  <2> QED BY <2>1 DEF Places, Fresh
<1>4. DoneFreed(job) => DoneIsReleased
  <2> SUFFICES ASSUME DoneFreed(job), NEW r \in Requests, job[r].done
               PROVE  job[r].given > 0 /\ FirstSlotFree(r)
    BY DEF DoneIsReleased
  <2>1. job[r].owner # None /\ job[r].released /\ job[r].given \in Nat
    BY DEF DoneFreed, IInv, TypeOK
  <2>2. job[r].given > 0
    BY <2>1 DEF IInv, Accounted, Hands
  <2>3. \A w \in Workers : r \notin HoldsIn(job, w)
    BY <2>1 DEF HoldsIn
  <2> QED BY <2>2, <2>3 DEF IInv, Accounted, SlotsOfJobs, FirstSlotFree
<1>5. NotForgotten <=> Findable(job, queue)
  BY <1>1 DEF NotForgotten, Findable
<1>6. DispatchBudget <=> Budgeted(job, queue)
  BY <1>2 DEF DispatchBudget, Budgeted
<1>7. FirstTimersBounded <=> Short(job, queue)
  BY <1>3 DEF FirstTimersBounded, Short, Count
<1> QED BY <1>4, <1>5, <1>6, <1>7

LEMMA HandOutLedger ==
  ASSUME NEW jb \in [Requests -> Jobs], NEW ws \in [Workers -> WorkerStates],
         NEW q \in Seq(Requests), q # << >>, NEW w \in Workers,
         inFlight \subseteq Requests, Ledger(jb, q), HandOut(w, jb, ws, q)
  PROVE  Ledger(job', queue')
<1> DEFINE h == Head(q)
           t == Tail(q)
<1>1. /\ h \in Requests /\ h = q[1] /\ t \in Seq(Requests)
      /\ Len(t) = Len(q) - 1
      /\ \A i \in 1 .. Len(t) : t[i] = q[i + 1]
      /\ Len(q) \in Nat \ {0} /\ DOMAIN q = 1 .. Len(q) /\ DOMAIN t = 1 .. Len(t)
  BY HeadTailProperties, EmptySeq, LenProperties
<1>2. /\ \A r \in Requests : Count(t, {r}) \in Nat /\ Count(q, {r}) \in Nat
      /\ \A r \in Requests : Count(t, {r}) <= Count(q, {r})
      /\ Count(t, {h}) + 1 <= Count(q, {h})
  <2>1. \A r \in Requests : Count(t, {r}) \in Nat /\ Count(q, {r}) \in Nat
    BY <1>1, CountType
  <2>2. \A r \in Requests : Count(t, {r}) <= Count(q, {r})
    BY CountTail
  <2>3. Count(t, {h}) + 1 <= Count(q, {h})
    BY CountTail
  <2> QED BY <2>1, <2>2, <2>3
<1>3. Count(t, Fresh(jb)) <= Count(q, Fresh(jb))
  BY CountTail
<1> HIDE DEF h, t
<1>4. job' = GivenTo(jb, h, w) /\ queue' = t
  BY HandOutParts DEF h, t
<1>5. /\ job'[h].owner = w /\ w # None
      /\ job'[h].done = jb[h].done /\ job'[h].released = jb[h].released
      /\ job'[h].attempts = jb[h].attempts
      /\ job'[h].given = jb[h].given + 1
      /\ \A r \in Requests \ {h} : job'[r] = jb[r]
  BY <1>1, <1>4, BalancerAssumption DEF GivenTo
<1>6. DoneFreed(job')
  BY <1>5 DEF Ledger, DoneFreed
<1>7. Findable(job', queue')
  <2> SUFFICES ASSUME NEW r \in inFlight, job'[r].owner = None
               PROVE  \E i \in DOMAIN t : t[i] = r
    BY <1>4 DEF Findable
  <2>1. r \in Requests \ {h} /\ jb[r].owner = None
    BY <1>5
  <2>2. PICK i \in DOMAIN q : q[i] = r
    BY <2>1 DEF Ledger, Findable
  <2>3. i # 1 /\ i \in 1 .. Len(q)
    BY <1>1, <2>1, <2>2
  <2>4. Len(q) \in Nat /\ Len(t) = Len(q) - 1
    BY <1>1
  <2> DEFINE k == i - 1
  <2>5. k \in 1 .. Len(t) /\ k + 1 = i
    BY <2>3, <2>4
  <2> HIDE DEF k
  <2>6. DOMAIN t = 1 .. Len(t) /\ \A j \in 1 .. Len(t) : t[j] = q[j + 1]
    BY <1>1
  <2>7. t[k] = q[k + 1]
    BY <2>5, <2>6, Zenon
  <2>8. k \in DOMAIN t /\ t[k] = r
    BY <2>2, <2>5, <2>6, <2>7
  <2> QED BY <2>8
<1>8. Budgeted(job', queue')
  <2> SUFFICES ASSUME NEW r \in Requests
               PROVE  /\ job'[r].attempts <= Retry
                      /\ Count(t, {r}) + job'[r].given <= 1 + job'[r].attempts
    BY <1>4 DEF Budgeted
  <2>1. /\ jb[r].attempts <= Retry /\ jb[r].attempts \in Nat /\ jb[r].given \in Nat
        /\ Count(q, {r}) + jb[r].given <= 1 + jb[r].attempts
    BY DEF Ledger, Budgeted
  <2>2. CASE r = h
    <3>1. /\ job'[h].attempts = jb[h].attempts /\ job'[h].given = jb[h].given + 1
          /\ Count(t, {h}) + 1 <= Count(q, {h})
          /\ Count(t, {h}) \in Nat /\ Count(q, {h}) \in Nat
      BY <1>1, <1>2, <1>5
    <3> QED BY <2>1, <2>2, <3>1, BalancerAssumption
  <2>3. CASE r # h
    <3>1. job'[r] = jb[r]
      BY <1>5, <2>3
    <3>2. /\ Count(t, {r}) \in Nat /\ Count(q, {r}) \in Nat
          /\ Count(t, {r}) <= Count(q, {r})
      BY <1>2
    <3> QED BY <2>1, <3>1, <3>2
  <2> QED BY <2>2, <2>3
<1>9. Short(job', queue')
  <2>1. Fresh(job') \cap Requests \subseteq Fresh(jb)
    BY <1>5 DEF Fresh
  <2>2. Count(t, Fresh(job')) <= Count(t, Fresh(jb))
    BY <1>1, <2>1, CountMonotone
  <2>3. /\ Count(t, Fresh(job')) \in Nat /\ Count(t, Fresh(jb)) \in Nat
        /\ Count(q, Fresh(jb)) \in Nat
    BY <1>1, CountType
  <2> QED BY <1>3, <1>4, <2>2, <2>3, BalancerAssumption DEF Ledger, Short
<1> QED BY <1>6, <1>7, <1>8, <1>9 DEF Ledger

LEMMA SweepLedger ==
  ASSUME TypeOK, Ledger(job, queue), NEW w \in Workers, NEW order \in SetToSeqs(Abandoned(w))
  PROVE  Ledger(SweptJobs(w), queue \o order)
<1> DEFINE A == Abandoned(w)
           jb == SweptJobs(w)
           q == queue \o order
<1>1. /\ queue \in Seq(Requests) /\ order \in Seq(Requests) /\ q \in Seq(Requests)
      /\ A \in SUBSET Requests
      /\ \A r \in A : job[r].attempts < Retry /\ job[r].owner # None
      /\ \A r \in A : r \in Requests
  <2>1. A \in SUBSET Requests /\ q \in Seq(Requests)
    BY SweepType
  <2>2. order \in Seq(Requests)
    BY <2>1, OrdersType
  <2>3. \A r \in A : job[r].attempts < Retry /\ job[r].owner # None
    BY DEF Abandoned
  <2> QED BY <2>1, <2>2, <2>3 DEF TypeOK
<1>2. \A r \in Requests :
        /\ job[r] \in Jobs
        /\ jb[r].owner = job[r].owner /\ jb[r].done = job[r].done
        /\ jb[r].given = job[r].given
        /\ job[r].released => jb[r].released
        /\ jb[r].attempts = IF r \in A THEN job[r].attempts + 1 ELSE job[r].attempts
  <2>1. \A r \in Requests : job[r] \in Jobs
    BY DEF TypeOK
  <2>2. \A r \in Requests :
          /\ Requeued(job[r]).owner = job[r].owner /\ Requeued(job[r]).done = job[r].done
          /\ Requeued(job[r]).given = job[r].given
          /\ Requeued(job[r]).released
          /\ Requeued(job[r]).attempts = job[r].attempts + 1
    BY <2>1 DEF Requeued
  <2> QED BY <2>1, <2>2 DEF SweptJobs
<1>3. \A r \in Requests : Count(q, {r}) <= Count(queue, {r}) + 1
  BY <1>1, CountSweep
<1>4. \A S : S \cap A = {} => Count(q, S) = Count(queue, S)
  BY <1>1, CountSweep
<1>5. \A r \in Requests : Count(q, {r}) \in Nat /\ Count(queue, {r}) \in Nat
  BY <1>1, CountType
<1>6. \A r \in Requests : (\E i \in DOMAIN queue : queue[i] = r) => \E i \in DOMAIN q : q[i] = r
  <2>1. /\ DOMAIN queue = 1 .. Len(queue) /\ DOMAIN q = 1 .. Len(queue) + Len(order)
        /\ Len(queue) \in Nat /\ Len(order) \in Nat
        /\ \A i \in 1 .. Len(queue) + Len(order) :
             q[i] = IF i <= Len(queue) THEN queue[i] ELSE order[i - Len(queue)]
    BY <1>1, ConcatProperties, LenProperties
  <2> HIDE DEF q
  <2>2. \A i \in DOMAIN queue : i \in DOMAIN q /\ q[i] = queue[i]
    BY <2>1
  <2> QED BY <2>2
<1> HIDE DEF A, jb, q
<1>7. DoneFreed(jb)
  BY <1>2 DEF Ledger, DoneFreed
<1>8. Findable(jb, q)
  BY <1>2, <1>6 DEF Ledger, Findable, TypeOK
<1>9. Budgeted(jb, q)
  <2> SUFFICES ASSUME NEW r \in Requests
               PROVE  /\ jb[r].attempts <= Retry
                      /\ Count(q, {r}) + jb[r].given <= 1 + jb[r].attempts
    BY DEF Budgeted
  <2>1. /\ job[r].attempts <= Retry /\ job[r].attempts \in Nat /\ Retry \in Nat
        /\ job[r].given \in Nat
        /\ Count(queue, {r}) + job[r].given <= 1 + job[r].attempts
    BY <1>2, BalancerAssumption DEF Ledger, Budgeted
  <2>2. CASE r \in A
    <3>1. /\ job[r].attempts < Retry /\ jb[r].attempts = job[r].attempts + 1
          /\ jb[r].given = job[r].given
      BY <1>1, <1>2, <2>2
    <3>2. /\ Count(q, {r}) \in Nat /\ Count(queue, {r}) \in Nat
          /\ Count(q, {r}) <= Count(queue, {r}) + 1
      BY <1>3, <1>5
    <3> QED BY <2>1, <3>1, <3>2
  <2>3. CASE r \notin A
    <3>1. Count(q, {r}) = Count(queue, {r})
      BY <1>4, <2>3
    <3> QED BY <1>2, <2>1, <2>3, <3>1
  <2> QED BY <2>2, <2>3
<1>10. Short(jb, q)
  <2>1. Fresh(jb) = Fresh(job) /\ Fresh(job) \cap A = {}
    BY <1>1, <1>2 DEF Fresh
  <2> QED BY <1>4, <2>1 DEF Ledger, Short
<1> QED BY <1>7, <1>8, <1>9, <1>10 DEF Ledger, jb, q

-----------------------------------------------------------------------------
(* The ledger, action by action.                                           *)

LEMMA InitLedger == Init => Ledger(job, queue)
<1> SUFFICES ASSUME Init PROVE Ledger(job, queue)
  OBVIOUS
<1>1. /\ queue = << >> /\ inFlight = {} /\ queue \in Seq(Requests)
      /\ \A r \in Requests : job[r] = NewJob
  BY InitType DEF Init, TypeOK
<1>2. \A S : Count(queue, S) = 0
  <2> SUFFICES ASSUME NEW S PROVE Places(queue, S) = {}
    BY FS_EmptySet DEF Count
  <2> QED BY <1>1 DEF Places
<1>3. DoneFreed(job) /\ Findable(job, queue)
  BY <1>1 DEF DoneFreed, Findable, NewJob
<1>4. Budgeted(job, queue)
  BY <1>1, <1>2, BalancerAssumption DEF Budgeted, NewJob
<1>5. Short(job, queue)
  BY <1>2, BalancerAssumption DEF Short
<1> QED BY <1>3, <1>4, <1>5 DEF Ledger

\* A job is released, and perhaps done, by somebody who has it.
LEMMA ReleaseLedger ==
  ASSUME TypeOK, Ledger(job, queue), NEW r \in Requests, NEW j,
         j.owner = job[r].owner, j.attempts = job[r].attempts, j.given = job[r].given,
         j.done => j.owner # None /\ j.released,
         job' = [job EXCEPT ![r] = j], queue' = queue, inFlight' \subseteq inFlight
  PROVE  Ledger(job, queue)'
<1>1. /\ job'[r] = j /\ \A s \in Requests \ {r} : job'[s] = job[s]
      /\ \A s \in Requests : /\ job'[s].owner = job[s].owner
                             /\ job'[s].attempts = job[s].attempts
                             /\ job'[s].given = job[s].given
      /\ \A s \in inFlight : s \in Requests
  BY DEF TypeOK
<1>2. Fresh(job') = Fresh(job)
  BY <1>1 DEF Fresh
<1>3. DoneFreed(job)'
  BY <1>1 DEF Ledger, DoneFreed
<1>4. Findable(job, queue)'
  BY <1>1 DEF Ledger, Findable
<1>5. Budgeted(job, queue)' /\ Short(job, queue)'
  BY <1>1, <1>2 DEF Ledger, Budgeted, Short
<1> QED BY <1>3, <1>4, <1>5 DEF Ledger

LEMMA EnqueueLedger ==
  ASSUME TypeOK, RequestsTracked, Ledger(job, queue), NEW r \in Requests, Enqueue(r)
  PROVE  Ledger(job, queue)'
<1>1. /\ job' = job /\ queue' = Append(queue, r) /\ inFlight' = inFlight \cup {r}
      /\ queue \in Seq(Requests) /\ Len(queue) < MaxQueue
      /\ job[r] = NewJob /\ \A i \in DOMAIN queue : queue[i] # r
  BY DEF Enqueue, Admissible, RequestsTracked, TypeOK, ToSet
<1>2. /\ DOMAIN queue = 1 .. Len(queue) /\ DOMAIN queue' = 1 .. Len(queue) + 1
      /\ Len(queue) \in Nat
      /\ \A i \in 1 .. Len(queue) : queue'[i] = queue[i]
      /\ queue'[Len(queue) + 1] = r
  BY <1>1, AppendProperties, LenProperties
<1>3. DoneFreed(job)'
  BY <1>1 DEF Ledger, DoneFreed
<1>4. Findable(job, queue)'
  <2> SUFFICES ASSUME NEW s \in inFlight', job[s].owner = None
               PROVE  \E i \in DOMAIN queue' : queue'[i] = s
    BY <1>1 DEF Findable
  <2>1. CASE s = r
    BY <1>2, <2>1
  <2>2. CASE s # r
    <3>1. PICK i \in DOMAIN queue : queue[i] = s
      BY <1>1, <2>2 DEF Ledger, Findable
    <3> QED BY <1>2, <3>1
  <2> QED BY <2>1, <2>2
<1>5. Budgeted(job, queue)'
  <2> SUFFICES ASSUME NEW s \in Requests
               PROVE  /\ job[s].attempts <= Retry
                      /\ Count(queue', {s}) + job[s].given <= 1 + job[s].attempts
    BY <1>1 DEF Budgeted
  <2>1. /\ job[s].attempts <= Retry
        /\ Count(queue, {s}) + job[s].given <= 1 + job[s].attempts
    BY DEF Ledger, Budgeted
  <2>2. CASE s = r
    <3>1. Count(queue, {r}) = 0
      <4>1. Places(queue, {r}) = {}
        BY <1>1 DEF Places
      <4> QED BY <4>1, FS_EmptySet DEF Count
    <3>2. Count(queue', {r}) <= 1
      <4>1. Count(queue', {r}) <= Count(queue, {r}) + 1
        BY <1>1, CountAppend
      <4> QED BY <3>1, <4>1
    <3>3. Count(queue', {r}) \in Nat
      <4>1. queue' \in Seq(Requests)
        BY <1>1, AppendProperties
      <4> QED BY <4>1, CountType
    <3> QED BY <1>1, <2>1, <2>2, <3>2, <3>3 DEF NewJob
  <2>3. CASE s # r
    <3>1. Count(queue', {s}) = Count(queue, {s})
      BY <1>1, <2>3, CountAppend
    <3> QED BY <2>1, <3>1
  <2> QED BY <2>2, <2>3
<1>6. Short(job, queue)'
  <2>1. Count(queue', Fresh(job)) <= Count(queue, Fresh(job)) + 1
    BY <1>1, CountAppend
  <2>2. Count(queue, Fresh(job)) <= Len(queue) /\ Count(queue, Fresh(job)) \in Nat
    BY <1>1, CountType
  <2>3. Count(queue', Fresh(job)) \in Nat
    <3>1. queue' \in Seq(Requests)
      BY <1>1, AppendProperties
    <3> QED BY <3>1, CountType
  <2> QED BY <1>1, <1>2, <2>1, <2>2, <2>3, BalancerAssumption DEF Short
<1> QED BY <1>3, <1>4, <1>5, <1>6 DEF Ledger

LEMMA IdleLedger ==
  ASSUME Ledger(job, queue), UNCHANGED <<job, queue, inFlight>>
  PROVE  Ledger(job, queue)'
BY DEF Ledger, DoneFreed, Findable, Budgeted, Short

LEMMA ClientLedger ==
  ASSUME IInv, Ledger(job, queue), NEW r \in Requests, ClientStep(r)
  PROVE  Ledger(job, queue)'
<1> USE DEF IInv
<1>1. CASE Refuse(r) \/ AnswerFromCache(r) \/ PassChecks(r) \/ TurnAway(r) \/ DozesOff(r)
  BY <1>1, IdleLedger DEF Refuse, AnswerFromCache, PassChecks, TurnAway, DozesOff
<1>2. CASE Enqueue(r)
  BY <1>2, EnqueueLedger
<1>3. ASSUME NEW late \in BOOLEAN, Return(r, late) PROVE Ledger(job, queue)'
  <2> DEFINE j == Released(job[r])
  <2>1. /\ job' = [job EXCEPT ![r] = j] /\ queue' = queue /\ inFlight' \subseteq inFlight
    BY <1>3 DEF Return
  <2>2. /\ j.owner = job[r].owner /\ j.attempts = job[r].attempts /\ j.given = job[r].given
        /\ j.done => j.owner # None /\ j.released
    <3>1. job[r] \in Jobs /\ (job[r].done => job[r].owner # None /\ job[r].released)
      BY DEF TypeOK, Ledger, DoneFreed
    <3> QED BY <3>1 DEF Released
  <2> HIDE DEF j
  <2> QED BY <2>1, <2>2, ReleaseLedger
<1> QED BY <1>1, <1>2, <1>3 DEF ClientStep

LEMMA WorkerLedger ==
  ASSUME IInv, Ledger(job, queue), NEW w \in Workers, WorkerStep(w)
  PROVE  Ledger(job, queue)'
<1> USE DEF IInv
<1>1. ASSUME NEW reply, PollArrives(w, reply) PROVE Ledger(job, queue)'
  <2>1. inFlight' = inFlight /\ inFlight \subseteq Requests
    BY <1>1, ArrivalCases DEF TypeOK
  <2>2. PICK order \in SetToSeqs(Abandoned(w)) :
          \/ /\ queue \o order # << >>
             /\ HandOut(w, SweptJobs(w), SweptWorkers(w), queue \o order)
          \/ job' = SweptJobs(w) /\ queue' = queue \o order
    BY <1>1, ArrivalCases
  <2>3. /\ Ledger(SweptJobs(w), queue \o order)
        /\ SweptJobs(w) \in [Requests -> Jobs] /\ queue \o order \in Seq(Requests)
        /\ SweptWorkers(w) \in [Workers -> WorkerStates]
    BY SweepLedger, SweepType
  <2>4. CASE /\ queue \o order # << >>
             /\ HandOut(w, SweptJobs(w), SweptWorkers(w), queue \o order)
    <3>1. Ledger(job', queue')
      BY <2>1, <2>3, <2>4, HandOutLedger
    <3> QED BY <2>1, <3>1 DEF Ledger, Findable, DoneFreed, Budgeted, Short
  <2>5. CASE job' = SweptJobs(w) /\ queue' = queue \o order
    BY <2>1, <2>3, <2>5 DEF Ledger, Findable, DoneFreed, Budgeted, Short
  <2> QED BY <2>2, <2>4, <2>5
<1>2. ASSUME NEW r \in Requests, PollWakes(w, r) PROVE Ledger(job, queue)'
  <2>1. /\ HandOut(w, job, worker, queue) /\ queue # << >> /\ inFlight' = inFlight
        /\ job \in [Requests -> Jobs] /\ queue \in Seq(Requests) /\ inFlight \subseteq Requests
        /\ worker \in [Workers -> WorkerStates]
    BY <1>2 DEF PollWakes, CanTake, TypeOK
  <2>2. Ledger(job', queue')
    BY <2>1, HandOutLedger
  <2> QED BY <2>1, <2>2 DEF Ledger, Findable, DoneFreed, Budgeted, Short
<1>3. CASE PollSleeps(w) \/ PollExpires(w) \/ FallsSilent(w)
  BY <1>3, IdleLedger DEF PollSleeps, PollExpires, FallsSilent
<1>4. ASSUME NEW r \in Requests, NEW x \in Results, PostResult(w, r, x) PROVE Ledger(job, queue)'
  <2>1. CASE ~Accepts(w, r)
    BY <1>4, <2>1, IdleLedger DEF PostResult
  <2>2. CASE Accepts(w, r)
    <3> DEFINE j == [Released(job[r]) EXCEPT !.result = x, !.done = TRUE]
    <3>1. job' = [job EXCEPT ![r] = j] /\ queue' = queue /\ inFlight' = inFlight
      BY <1>4, <2>2 DEF PostResult
    <3>2. /\ j.owner = job[r].owner /\ j.attempts = job[r].attempts /\ j.given = job[r].given
          /\ j.owner # None /\ j.released
      <4>1. job[r] \in Jobs /\ job[r].owner # None
        BY <2>2, BalancerAssumption DEF TypeOK, Accepts
      <4> QED BY <4>1 DEF Released
    <3> HIDE DEF j
    <3> QED BY <3>1, <3>2, ReleaseLedger
  <2> QED BY <2>1, <2>2
<1> QED BY <1>1, <1>2, <1>3, <1>4 DEF WorkerStep

LEMMA NextLedger == IInv /\ Ledger(job, queue) /\ [Next]_vars => Ledger(job, queue)'
<1> SUFFICES ASSUME IInv, Ledger(job, queue), [Next]_vars PROVE Ledger(job, queue)'
  OBVIOUS
<1>1. CASE RequestStop \/ UNCHANGED vars
  BY <1>1, IdleLedger DEF RequestStop, vars
<1>2. CASE (\E r \in Requests : ClientStep(r)) \/ (\E w \in Workers : WorkerStep(w))
  BY <1>2, ClientLedger, WorkerLedger
<1> QED BY <1>1, <1>2 DEF Next

LEMMA LedgerHolds ==
  Spec => [](DoneIsReleased /\ NotForgotten /\ DispatchBudget /\ FirstTimersBounded)
<1>1. Init => IInv /\ Ledger(job, queue)
  BY InitIInv, InitLedger
<1>2. IInv /\ Ledger(job, queue) /\ [Next]_vars => (IInv /\ Ledger(job, queue))'
  BY NextIInv, NextLedger
<1>3. IInv /\ Ledger(job, queue) =>
        DoneIsReleased /\ NotForgotten /\ DispatchBudget /\ FirstTimersBounded
  BY LedgerParts DEF IInv, Ledger
<1> QED BY <1>1, <1>2, <1>3, PTL DEF Spec

\* A job that nobody has taken and whose browser waits is in the queue.
THEOREM NobodyIsForgotten == Spec => []NotForgotten
BY LedgerHolds, PTL

\* A job that is done was done by a worker it was given to, and the slot of its
\* first hand-out is not counted any more.
THEOREM DoneJobsAreReleased == Spec => []DoneIsReleased
BY LedgerHolds, PTL

\* A job is handed out at most once more than it may be retried.
THEOREM DispatchStaysBudgeted == Spec => []DispatchBudget
BY LedgerHolds, PTL

\* max_queue bounds the jobs that wait for their first worker.
THEOREM FirstTimersStayBounded == Spec => []FirstTimersBounded
BY LedgerHolds, PTL

-----------------------------------------------------------------------------
(* Without retries a job is handed out once: every counted slot is that of *)
(* a first hand-out, which the job can still give back.                    *)

LEMMA HandedOutOnce ==
  ASSUME IInv, Ledger(job, queue), Retry = 0, NEW r \in Requests
  PROVE  job[r].given <= 1
<1>1. /\ job[r].attempts <= 0 /\ job[r].attempts \in Nat /\ job[r].given \in Nat
      /\ Count(queue, {r}) + job[r].given <= 1 + job[r].attempts
  BY DEF IInv, Ledger, Budgeted, TypeOK
<1>2. Count(queue, {r}) \in Nat
  BY CountType DEF IInv, TypeOK
<1> QED
  BY <1>1, <1>2

LEMMA ExactWithoutRetry ==
  ASSUME IInv, Ledger(job, queue), Retry = 0
  PROVE  SlotsExact
<1> SUFFICES ASSUME NEW w \in Workers
             PROVE  worker[w].inFlight = Cardinality(Holds(w))
  BY DEF SlotsExact
<1> DEFINE gone == LastSlots(Requests \cap Holds(w))
<1>1. /\ gone \subseteq worker[w].slots
      /\ gone = {<<r, 1>> : r \in Requests \cap Holds(w)}
      /\ Cardinality(gone) = Cardinality(Requests \cap Holds(w))
  BY SlotsGivenBack DEF IInv
<1>2. ASSUME NEW p \in worker[w].slots PROVE p \in gone
  <2>1. worker[w].slots \subseteq Requests \X Nat
    <3>1. worker[w] \in WorkerStates
      BY DEF IInv, TypeOK
    <3> QED BY <3>1 DEF WorkerStates
  <2>2. PICK r \in Requests, n \in Nat : p = <<r, n>>
    BY <1>2, <2>1
  <2>3. 0 < n /\ n <= job[r].given
    BY <2>2 DEF IInv, Accounted, SlotsOfJobs
  <2>4. job[r].given <= 1 /\ job[r].given \in Nat
    BY HandedOutOnce DEF IInv, TypeOK
  <2>5. n = 1
    BY <2>3, <2>4
  <2>6. r \in HoldsIn(job, w)
    BY <2>2, <2>5 DEF IInv, Accounted, SlotsOfJobs
  <2>7. r \in Requests \cap Holds(w)
    BY <2>6 DEF HoldsIn, Holds
  <2>8. p \in {<<x, 1>> : x \in Requests \cap Holds(w)}
    BY <2>2, <2>5, <2>7
  <2> HIDE DEF gone
  <2> QED BY <1>1, <2>8
<1>3. worker[w].slots = gone /\ Requests \cap Holds(w) = Holds(w)
  BY <1>1, <1>2 DEF Holds
<1> HIDE DEF gone
<1> QED
  BY <1>1, <1>3 DEF IInv, Accounted, Counters

\* When cfg.retry is 0, the slots counted for a worker are exactly those of the
\* jobs it was given whose slot is still to be released.
THEOREM SlotsStayExact == ASSUME Retry = 0 PROVE Spec => []SlotsExact
<1> DEFINE Inv == IInv /\ Ledger(job, queue)
<1>1. Init => Inv
  BY InitIInv, InitLedger
<1>2. Inv /\ [Next]_vars => Inv'
  BY NextIInv, NextLedger
<1>3. Inv => SlotsExact
  BY ExactWithoutRetry
<1> QED BY <1>1, <1>2, <1>3, PTL DEF Spec

-----------------------------------------------------------------------------
(* Every step of the playground is one of the balancer, or none of it.     *)

LEMMA BrowserIsClient ==
  ASSUME NEW r \in Requests, Browser(r)
  PROVE  ClientStep(r)
<1>1. CASE Return(r, DeadlinePasses)
  <2>1. CASE DeadlinePasses
    <3>1. Return(r, TRUE)
      BY <1>1, <2>1 DEF Return
    <3> QED BY <3>1 DEF ClientStep
  <2>2. CASE ~DeadlinePasses
    <3>1. Return(r, FALSE)
      BY <1>1, <2>2 DEF Return
    <3> QED BY <3>1 DEF ClientStep
  <2> QED BY <2>1, <2>2
<1> QED BY <1>1 DEF Browser, ClientStep

LEMMA WorkerNextIsStep ==
  ASSUME PlaygroundTypeOK, NEW w \in Workers, WorkerNext(w)
  PROVE  WorkerStep(w) \/ UNCHANGED vars
<1>1. CASE SlotPolls(w)
  BY <1>1 DEF SlotPolls, WorkerStep
<1>2. CASE SlotGetsJob(w) \/ OrphanGetsJob(w)
  BY <1>2 DEF SlotGetsJob, OrphanGetsJob, WorkerStep
<1>3. CASE HandlerSleeps(w) \/ SlotGetsNothing(w) \/ OrphanExpires(w)
  BY <1>3 DEF HandlerSleeps, SlotGetsNothing, OrphanExpires, WorkerStep
<1>4. CASE SlotPosts(w)
  <2>1. PICK r \in Requests : \E x \in OutputsOf[r] : PostResult(w, r, x)
    BY <1>4 DEF SlotPosts
  <2>2. OutputsOf[r] \subseteq Results
    BY DEF OutputsOf
  <2> QED BY <2>1, <2>2 DEF WorkerStep
<1>5. CASE DelayedArrives(w)
  BY <1>5 DEF DelayedArrives, PlaygroundTypeOK, WorkerStep
<1>6. CASE PollDrops(w) \/ PostIsLost(w) \/ PostIsDelayed(w) \/ Crash(w) \/ Restart(w)
  BY <1>6 DEF PollDrops, PostIsLost, PostIsDelayed, Crash, Restart
<1>7. CASE Silence(w)
  BY <1>7 DEF Silence, WorkerStep
<1> QED BY <1>1, <1>2, <1>3, <1>4, <1>5, <1>6, <1>7 DEF WorkerNext

LEMMA StepIsBalancers == PlaygroundTypeOK /\ [PlaygroundNext]_allVars => [Next]_vars
<1> SUFFICES ASSUME PlaygroundTypeOK, [PlaygroundNext]_allVars PROVE [Next]_vars
  OBVIOUS
<1>1. CASE UNCHANGED allVars
  BY <1>1 DEF allVars
<1>2. ASSUME NEW r \in Requests, Browser(r) PROVE [Next]_vars
  BY <1>2, BrowserIsClient DEF Next
<1>3. ASSUME NEW w \in Workers, WorkerNext(w) PROVE [Next]_vars
  BY <1>3, WorkerNextIsStep DEF Next
<1>4. CASE Stopping
  BY <1>4 DEF Stopping, Next
<1> QED BY <1>1, <1>2, <1>3, <1>4 DEF PlaygroundNext

-----------------------------------------------------------------------------
(* Type correctness.                                                       *)

\* The part of the type invariant about the worker processes.
SlotsTyped ==
  /\ up \in [Workers -> BOOLEAN]
  /\ idle \in [Workers -> Nat] /\ awaiting \in [Workers -> Nat]
  /\ running \in [Workers -> [Requests -> Nat]]
  /\ delayed \subseteq Workers \X Requests \X Results
  /\ crashes \in 0..MaxCrashes

LEMMA CountUp ==
  ASSUME NEW f \in [Workers -> Nat], NEW w \in Workers
  PROVE  /\ More(f, w) \in [Workers -> Nat]
         /\ f[w] > 0 => Less(f, w) \in [Workers -> Nat]
BY DEF More, Less

LEMMA RunsType ==
  ASSUME SlotsTyped, NEW w \in Workers, NEW r \in Requests
  PROVE  /\ Start(w, r) => running' \in [Workers -> [Requests -> Nat]]
         /\ running[w][r] > 0 /\ Finish(w, r) => running' \in [Workers -> [Requests -> Nat]]
<1>1. running[w] \in [Requests -> Nat] /\ running[w][r] \in Nat
  BY DEF SlotsTyped
<1>2. ASSUME NEW n \in Nat PROVE [running[w] EXCEPT ![r] = n] \in [Requests -> Nat]
  BY <1>1
<1>3. ASSUME NEW n \in Nat, running' = [running EXCEPT ![w] = [running[w] EXCEPT ![r] = n]]
      PROVE  running' \in [Workers -> [Requests -> Nat]]
  BY <1>2, <1>3 DEF SlotsTyped
<1>4. ASSUME Start(w, r) PROVE running' \in [Workers -> [Requests -> Nat]]
  <2>1. running[w][r] + 1 \in Nat
    BY <1>1
  <2>2. running' = [running EXCEPT ![w] = [running[w] EXCEPT ![r] = running[w][r] + 1]]
    BY <1>4 DEF Start
  <2> QED BY <1>3, <2>1, <2>2
<1>5. ASSUME running[w][r] > 0, Finish(w, r) PROVE running' \in [Workers -> [Requests -> Nat]]
  <2>1. running[w][r] - 1 \in Nat
    BY <1>1, <1>5
  <2>2. running' = [running EXCEPT ![w] = [running[w] EXCEPT ![r] = running[w][r] - 1]]
    BY <1>5 DEF Finish
  <2> QED BY <1>3, <2>1, <2>2
<1> QED BY <1>4, <1>5

LEMMA SlotsStayTyped ==
  ASSUME SlotsTyped, NEW w \in Workers, WorkerNext(w)
  PROVE  SlotsTyped'
<1>0. /\ idle \in [Workers -> Nat] /\ awaiting \in [Workers -> Nat]
      /\ More(idle, w) \in [Workers -> Nat] /\ More(awaiting, w) \in [Workers -> Nat]
      /\ idle[w] > 0 => Less(idle, w) \in [Workers -> Nat]
      /\ awaiting[w] > 0 => Less(awaiting, w) \in [Workers -> Nat]
  BY CountUp DEF SlotsTyped
<1>1. CASE SlotPolls(w)
  <2>1. /\ idle[w] > 0 /\ UNCHANGED <<up, delayed, crashes>>
        /\ \/ \E r \in Requests : /\ \/ Start(w, r) /\ idle' = Less(idle, w)
                                     \/ UNCHANGED <<running, idle>>
                                  /\ UNCHANGED awaiting
           \/ UNCHANGED <<idle, awaiting, running>>
           \/ /\ idle' = Less(idle, w) /\ awaiting' = More(awaiting, w)
              /\ UNCHANGED running
    BY <1>1 DEF SlotPolls
  <2>2. running' \in [Workers -> [Requests -> Nat]]
    BY <2>1, RunsType DEF SlotsTyped
  <2>3. idle' \in [Workers -> Nat] /\ awaiting' \in [Workers -> Nat]
    BY <1>0, <2>1
  <2> QED BY <2>1, <2>2, <2>3 DEF SlotsTyped
<1>2. CASE SlotGetsJob(w)
  <2>1. running' \in [Workers -> [Requests -> Nat]]
    BY <1>2, RunsType DEF SlotGetsJob
  <2> QED BY <1>0, <1>2, <2>1 DEF SlotGetsJob, SlotsTyped
<1>3. CASE OrphanGetsJob(w) \/ HandlerSleeps(w) \/ OrphanExpires(w) \/ Silence(w)
  BY <1>3 DEF OrphanGetsJob, HandlerSleeps, OrphanExpires, Silence, workerVars, SlotsTyped
<1>4. CASE SlotGetsNothing(w) \/ PollDrops(w)
  BY <1>0, <1>4 DEF SlotGetsNothing, PollDrops, SlotsTyped
<1>5. CASE SlotPosts(w) \/ PostIsLost(w)
  <2>1. running' \in [Workers -> [Requests -> Nat]]
    BY <1>5, RunsType DEF SlotPosts, PostIsLost
  <2> QED BY <1>0, <1>5, <2>1 DEF SlotPosts, PostIsLost, SlotsTyped
<1>6. CASE PostIsDelayed(w)
  <2>1. running' \in [Workers -> [Requests -> Nat]]
    BY <1>6, RunsType DEF PostIsDelayed
  <2>2. \A r \in Requests : OutputsOf[r] \subseteq Results
    BY DEF OutputsOf
  <2>3. delayed' \subseteq Workers \X Requests \X Results
    BY <1>6, <2>2 DEF PostIsDelayed, SlotsTyped
  <2> QED BY <1>0, <1>6, <2>1, <2>3 DEF PostIsDelayed, SlotsTyped
<1>7. CASE DelayedArrives(w)
  BY <1>7 DEF DelayedArrives, SlotsTyped
<1>8. CASE Crash(w)
  <2>1. crashes' \in 0..MaxCrashes
    BY <1>8, PlaygroundAssumption DEF Crash, SlotsTyped
  <2>2. /\ idle' \in [Workers -> Nat] /\ awaiting' \in [Workers -> Nat]
        /\ up' \in [Workers -> BOOLEAN]
    BY <1>8 DEF Crash, SlotsTyped
  <2>3. running' \in [Workers -> [Requests -> Nat]]
    <3>1. [r \in Requests |-> 0] \in [Requests -> Nat]
      OBVIOUS
    <3> QED BY <1>8, <3>1 DEF Crash, SlotsTyped
  <2> QED BY <1>8, <2>1, <2>2, <2>3 DEF Crash, SlotsTyped
<1>9. CASE Restart(w)
  <2>1. Capacity[w] \in Nat
    BY BalancerAssumption
  <2> QED BY <1>9, <2>1 DEF Restart, SlotsTyped
<1> QED BY <1>1, <1>2, <1>3, <1>4, <1>5, <1>6, <1>7, <1>8, <1>9 DEF WorkerNext

LEMMA PlaygroundTypeStays == PlaygroundTypeOK /\ [PlaygroundNext]_allVars => PlaygroundTypeOK'
<1> SUFFICES ASSUME PlaygroundTypeOK, [PlaygroundNext]_allVars PROVE PlaygroundTypeOK'
  OBVIOUS
<1>1. TypeOK'
  BY StepIsBalancers, NextType DEF PlaygroundTypeOK
<1>2. SlotsTyped
  BY DEF PlaygroundTypeOK, SlotsTyped
<1>3. SlotsTyped'
  <2>1. CASE UNCHANGED workerVars
    BY <1>2, <2>1 DEF workerVars, SlotsTyped
  <2>2. CASE \E w \in Workers : WorkerNext(w)
    BY <1>2, <2>2, SlotsStayTyped
  <2> QED BY <2>1, <2>2 DEF PlaygroundNext, Browser, Stopping, allVars
<1> QED BY <1>1, <1>3 DEF PlaygroundTypeOK, SlotsTyped

LEMMA PlaygroundTypeStarts == PlaygroundInit => PlaygroundTypeOK
<1> SUFFICES ASSUME PlaygroundInit PROVE PlaygroundTypeOK
  OBVIOUS
<1>1. TypeOK
  BY InitType DEF PlaygroundInit
<1>2. idle \in [Workers -> Nat]
  BY BalancerAssumption DEF PlaygroundInit
<1>3. crashes \in 0..MaxCrashes
  BY PlaygroundAssumption DEF PlaygroundInit
<1> QED BY <1>1, <1>2, <1>3 DEF PlaygroundInit, PlaygroundTypeOK

\* The balancer and its workers stay well typed: no counter of slots or of
\* running jobs goes negative, whatever crashes or is lost.
THEOREM PlaygroundTyped == PlaygroundSpec => []PlaygroundTypeOK
BY PlaygroundTypeStarts, PlaygroundTypeStays, PTL DEF PlaygroundSpec

\* The balancer with its workers behaves as the open balancer does, so that
\* every theorem about the open one holds with real workers as well.
THEOREM PlaygroundIsBalancer == PlaygroundSpec => Spec
<1>1. PlaygroundInit => Init
  BY DEF PlaygroundInit
<1> QED BY <1>1, PlaygroundTypeStarts, PlaygroundTypeStays, StepIsBalancers, PTL
        DEF PlaygroundSpec, Spec

-----------------------------------------------------------------------------
(* What a browser gets.  A result travels from a slot over the job, and    *)
(* perhaps the cache, to a browser; on every leg it is an output of the    *)
(* program that it is kept for.                                            *)

ResultsBelong ==
  /\ \A r \in Requests : job[r].done => job[r].result \in OutputsOf[r]
  /\ \A n \in Names : cache[n] # None =>
       cache[n].result.code = cache[n].code /\ ~cache[n].result.built
  /\ \A m \in delayed : m[3] \in OutputsOf[m[2]]

LEMMA OutputFacts ==
  ASSUME NEW r \in Requests, NEW x \in OutputsOf[r]
  PROVE  /\ x \in Results /\ x.code = CodeOf[r]
         /\ r \notin Archives => ~x.built
BY PlaygroundAssumption DEF OutputsOf

LEMMA CachedFits ==
  ASSUME TypeOK, ResultsBelong, NEW r \in Requests, CacheHits(r)
  PROVE  cache[NameOf[r]].result \in OutputsOf[r]
<1>1. NameOf[r] \in Names /\ cache[NameOf[r]] \in Entries
  BY BalancerAssumption DEF CacheHits, TypeOK
<1>2. cache[NameOf[r]].result \in Results
  BY <1>1 DEF Entries
<1> QED BY <1>1, <1>2 DEF CacheHits, ResultsBelong, OutputsOf

\* A step that takes no result up anywhere.
LEMMA BelongsKept ==
  ASSUME ResultsBelong, TypeOK,
         \A r \in Requests : job'[r].done = job[r].done /\ job'[r].result = job[r].result,
         \A n \in Names : cache'[n] \in {cache[n], None},
         \A m \in delayed' : m \in delayed
  PROVE  ResultsBelong'
BY DEF ResultsBelong

LEMMA ReleasedKeeps ==
  ASSUME TypeOK, NEW r \in Requests, job' = [job EXCEPT ![r] = Released(@)]
  PROVE  \A s \in Requests : job'[s].done = job[s].done /\ job'[s].result = job[s].result
<1>1. job[r] \in Jobs
  BY DEF TypeOK
<1>2. Released(job[r]).done = job[r].done /\ Released(job[r]).result = job[r].result
  BY <1>1 DEF Released
<1> QED BY <1>2 DEF TypeOK

LEMMA BrowserBelongs ==
  ASSUME TypeOK, ResultsBelong, NEW r \in Requests, Browser(r)
  PROVE  ResultsBelong'
<1>1. delayed' = delayed
  BY DEF Browser, workerVars
<1>2. CASE PassChecks(r)
  <2>1. job' = job /\ \A n \in Names : cache'[n] \in {cache[n], None}
    BY <1>2 DEF PassChecks, TypeOK
  <2> QED BY <1>1, <2>1, BelongsKept
<1>3. CASE Refuse(r) \/ AnswerFromCache(r) \/ TurnAway(r) \/ Enqueue(r) \/ DozesOff(r)
  <2>1. job' = job /\ cache' = cache
    BY <1>3 DEF Refuse, AnswerFromCache, TurnAway, Enqueue, DozesOff
  <2> QED BY <1>1, <2>1, BelongsKept
<1>4. CASE Return(r, DeadlinePasses)
  <2>1. job' = [job EXCEPT ![r] = Released(@)] /\ cache' = cache
    BY <1>4 DEF Return
  <2> QED BY <1>1, <2>1, BelongsKept, ReleasedKeeps
<1> QED BY <1>2, <1>3, <1>4 DEF Browser

LEMMA HandOutKeeps ==
  ASSUME NEW jb \in [Requests -> Jobs], NEW ws, NEW q \in Seq(Requests), q # << >>,
         NEW w \in Workers, HandOut(w, jb, ws, q)
  PROVE  \A s \in Requests : job'[s].done = jb[s].done /\ job'[s].result = jb[s].result
<1>1. Head(q) \in Requests
  BY HeadTailProperties
<1>2. job' = [jb EXCEPT ![Head(q)].owner = w]
  BY DEF HandOut
<1> QED BY <1>1, <1>2

LEMMA PollBelongs ==
  ASSUME TypeOK, ResultsBelong, NEW w \in Workers, delayed' = delayed,
         (\E reply : PollArrives(w, reply)) \/ (\E r \in Requests : PollWakes(w, r))
           \/ PollSleeps(w) \/ PollExpires(w) \/ FallsSilent(w)
  PROVE  ResultsBelong'
<1>1. ASSUME NEW reply, PollArrives(w, reply) PROVE ResultsBelong'
  <2>1. /\ SweptJobs(w) \in [Requests -> Jobs]
        /\ \A order \in SetToSeqs(Abandoned(w)) : queue \o order \in Seq(Requests)
    BY SweepType
  <2>2. \A s \in Requests : /\ SweptJobs(w)[s].done = job[s].done
                            /\ SweptJobs(w)[s].result = job[s].result
    <3>1. \A s \in Requests : job[s] \in Jobs
      BY DEF TypeOK
    <3>2. \A s \in Requests : /\ Requeued(job[s]).done = job[s].done
                              /\ Requeued(job[s]).result = job[s].result
      BY <3>1 DEF Requeued
    <3> QED BY <3>2 DEF SweptJobs
  <2>3. \A s \in Requests : job'[s].done = job[s].done /\ job'[s].result = job[s].result
    <3>1. PICK order \in SetToSeqs(Abandoned(w)) :
            \/ /\ queue \o order # << >>
               /\ HandOut(w, SweptJobs(w), SweptWorkers(w), queue \o order)
            \/ job' = SweptJobs(w)
      BY <1>1, ArrivalCases
    <3> QED BY <2>1, <2>2, <3>1, HandOutKeeps
  <2>4. cache' = cache
    BY <1>1, ArrivalCases
  <2> QED BY <2>3, <2>4, BelongsKept
<1>2. ASSUME NEW r \in Requests, PollWakes(w, r) PROVE ResultsBelong'
  <2>1. /\ HandOut(w, job, worker, queue) /\ queue # << >> /\ cache' = cache
        /\ job \in [Requests -> Jobs] /\ queue \in Seq(Requests)
    BY <1>2 DEF PollWakes, CanTake, TypeOK
  <2> QED BY <2>1, HandOutKeeps, BelongsKept
<1>3. CASE PollSleeps(w) \/ PollExpires(w) \/ FallsSilent(w)
  <2>1. job' = job /\ cache' = cache
    BY <1>3 DEF PollSleeps, PollExpires, FallsSilent
  <2> QED BY <2>1, BelongsKept
<1> QED BY <1>1, <1>2, <1>3

LEMMA ResultBelongs ==
  ASSUME TypeOK, ResultsBelong, NEW w \in Workers, NEW r \in Requests,
         NEW x \in OutputsOf[r], PostResult(w, r, x), \A m \in delayed' : m \in delayed
  PROVE  ResultsBelong'
<1>1. CASE ~Accepts(w, r)
  <2>1. job' = job /\ cache' = cache
    BY <1>1 DEF PostResult
  <2> QED BY <2>1, BelongsKept
<1>2. CASE Accepts(w, r)
  <2> DEFINE j == [Released(job[r]) EXCEPT !.result = x, !.done = TRUE]
  <2>1. job' = [job EXCEPT ![r] = j]
    BY <1>2 DEF PostResult
  <2>2. j.result = x
    <3>1. job[r] \in Jobs
      BY DEF TypeOK
    <3>2. Released(job[r]) \in Jobs
      BY <3>1, JobUpdateType
    <3> QED BY <3>2
  <2> HIDE DEF j
  <2>3. \A s \in Requests : job'[s].done => job'[s].result \in OutputsOf[s]
    BY <2>1, <2>2 DEF ResultsBelong, TypeOK
  <2>4. ASSUME NEW n \in Names, cache'[n] # None
        PROVE  cache'[n].result.code = cache'[n].code /\ ~cache'[n].result.built
    <3>1. CASE cache' = cache
      BY <2>4, <3>1 DEF ResultsBelong
    <3>2. CASE r \notin Archives /\ CachePut(r, x)
      <4>1. cache'[n] \in {cache[n], None, [code |-> CodeOf[r], result |-> x]}
        BY <3>2 DEF CachePut
      <4> QED BY <2>4, <3>2, <4>1, OutputFacts DEF ResultsBelong
    <3> QED BY <1>2, <3>1, <3>2 DEF PostResult
  <2> QED BY <2>3, <2>4 DEF ResultsBelong
<1> QED BY <1>1, <1>2

LEMMA WorkerBelongs ==
  ASSUME TypeOK, ResultsBelong, NEW w \in Workers, WorkerNext(w), PlaygroundTypeOK
  PROVE  ResultsBelong'
<1>1. CASE \/ SlotPolls(w) \/ SlotGetsJob(w) \/ OrphanGetsJob(w) \/ HandlerSleeps(w)
           \/ SlotGetsNothing(w) \/ OrphanExpires(w) \/ Silence(w)
  <2>1. delayed' = delayed
    BY <1>1 DEF SlotPolls, SlotGetsJob, OrphanGetsJob, HandlerSleeps, SlotGetsNothing,
                OrphanExpires, Silence, workerVars
  <2>2. (\E reply : PollArrives(w, reply)) \/ (\E r \in Requests : PollWakes(w, r))
          \/ PollSleeps(w) \/ PollExpires(w) \/ FallsSilent(w)
    BY <1>1 DEF SlotPolls, SlotGetsJob, OrphanGetsJob, HandlerSleeps, SlotGetsNothing,
                OrphanExpires, Silence
  <2> QED BY <2>1, <2>2, PollBelongs
<1>2. CASE SlotPosts(w)
  <2>1. PICK r \in Requests : \E x \in OutputsOf[r] : PostResult(w, r, x)
    BY <1>2 DEF SlotPosts
  <2>2. delayed' = delayed
    BY <1>2 DEF SlotPosts
  <2> QED BY <2>1, <2>2, ResultBelongs
<1>3. CASE DelayedArrives(w)
  <2>1. PICK m \in delayed : PostResult(w, m[2], m[3]) /\ delayed' = delayed \ {m}
    BY <1>3 DEF DelayedArrives
  <2>2. m[2] \in Requests /\ m[3] \in OutputsOf[m[2]]
    BY DEF ResultsBelong, PlaygroundTypeOK
  <2> QED BY <2>1, <2>2, ResultBelongs
<1>4. CASE PostIsDelayed(w)
  <2>1. job' = job /\ cache' = cache
    BY <1>4 DEF PostIsDelayed, vars
  <2>2. \A m \in delayed' : m \in delayed \/ m[3] \in OutputsOf[m[2]]
    BY <1>4 DEF PostIsDelayed
  <2> QED BY <2>1, <2>2 DEF ResultsBelong
<1>5. CASE PollDrops(w) \/ PostIsLost(w) \/ Crash(w) \/ Restart(w)
  <2>1. job' = job /\ cache' = cache /\ delayed' = delayed
    BY <1>5 DEF PollDrops, PostIsLost, Crash, Restart, vars
  <2> QED BY <2>1, BelongsKept
<1> QED BY <1>1, <1>2, <1>3, <1>4, <1>5 DEF WorkerNext

LEMMA BelongsStays == PlaygroundTypeOK /\ ResultsBelong /\ [PlaygroundNext]_allVars => ResultsBelong'
<1> SUFFICES ASSUME PlaygroundTypeOK, ResultsBelong, [PlaygroundNext]_allVars PROVE ResultsBelong'
  OBVIOUS
<1>0. TypeOK
  BY DEF PlaygroundTypeOK
<1>1. CASE UNCHANGED allVars \/ Stopping
  <2>1. job' = job /\ cache' = cache /\ delayed' = delayed
    BY <1>1 DEF allVars, vars, workerVars, Stopping, RequestStop
  <2> QED BY <1>0, <2>1, BelongsKept
<1>2. CASE \E r \in Requests : Browser(r)
  BY <1>0, <1>2, BrowserBelongs
<1>3. CASE \E w \in Workers : WorkerNext(w)
  BY <1>0, <1>3, WorkerBelongs
<1> QED BY <1>1, <1>2, <1>3 DEF PlaygroundNext

-----------------------------------------------------------------------------
(* The playground implements the sandbox.                                  *)

LEMMA PhaseMoves ==
  ASSUME TypeOK, NEW r \in Requests, NEW c \in {"checked", "waiting"},
         client' = [client EXCEPT ![r] = c]
  PROVE  Phase' = [Phase EXCEPT ![r] = "pending"]
BY DEF Phase, TypeOK

LEMMA PhaseEnds ==
  ASSUME TypeOK, NEW r \in Requests, client' = [client EXCEPT ![r] = "answered"]
  PROVE  Phase' = [Phase EXCEPT ![r] = "answered"]
BY DEF Phase, TypeOK

LEMMA PhaseStands == ASSUME client' = client PROVE Phase' = Phase
BY DEF Phase

LEMMA RespondEnds ==
  ASSUME TypeOK, NEW r \in Requests, NEW status, NEW result, Respond(r, status, result)
  PROVE  Phase' = [Phase EXCEPT ![r] = "answered"]
BY PhaseEnds DEF Respond

\* A response of a known form is an answer of the sandbox.
LEMMA RespondAnswers ==
  ASSUME TypeOK, NEW r \in Requests, client[r] # "answered", NEW status, NEW result,
         \/ status = 200 /\ result \in OutputsOf[r]
         \/ status \in {429, 502, 503} /\ result = None,
         Respond(r, status, result)
  PROVE  SB!Answer(r)
<1>1. Phase[r] # "answered"
  BY DEF Phase
<1>2. Phase' = [Phase EXCEPT ![r] = "answered"]
  BY RespondEnds
<1>3. [status |-> status, result |-> result] \in SB!Responses(r)
  BY DEF SB!Responses, SB!Failures
<1>4. answer' = [answer EXCEPT ![r] = [status |-> status, result |-> result]]
  BY DEF Respond
<1>5. \E a \in SB!Responses(r) : answer' = [answer EXCEPT ![r] = a]
  <2> WITNESS [status |-> status, result |-> result] \in SB!Responses(r)
  <2> QED BY <1>4
<1> QED BY <1>1, <1>2, <1>5 DEF SB!Answer

LEMMA BrowserImplements ==
  ASSUME TypeOK, ResultsBelong, NEW r \in Requests, Browser(r)
  PROVE  SB!Submit(r) \/ SB!Answer(r) \/ UNCHANGED SB!sandboxVars
<1>1. CASE Refuse(r) \/ TurnAway(r)
  <2>1. client[r] # "answered" /\ (Respond(r, 429, None) \/ Respond(r, 503, None))
    BY <1>1 DEF Refuse, TurnAway
  <2> QED BY <2>1, RespondAnswers
<1>2. CASE AnswerFromCache(r)
  <2>1. /\ client[r] # "answered" /\ CacheHits(r)
        /\ Respond(r, 200, cache[NameOf[r]].result)
    BY <1>2 DEF AnswerFromCache
  <2> QED BY <2>1, CachedFits, RespondAnswers
<1>3. CASE PassChecks(r)
  <2>1. client[r] = "new" /\ client' = [client EXCEPT ![r] = "checked"] /\ answer' = answer
    BY <1>3 DEF PassChecks
  <2>2. Phase[r] = "new" /\ Phase' = [Phase EXCEPT ![r] = "pending"]
    BY <2>1, PhaseMoves DEF Phase
  <2> QED BY <2>1, <2>2 DEF SB!Submit
<1>4. CASE Enqueue(r)
  <2>1. client[r] = "checked" /\ client' = [client EXCEPT ![r] = "waiting"] /\ answer' = answer
    BY <1>4 DEF Enqueue
  <2>2. Phase' = [Phase EXCEPT ![r] = "pending"] /\ Phase[r] = "pending"
    BY <2>1, PhaseMoves DEF Phase
  <2>3. Phase' = Phase
    BY <2>2 DEF Phase
  <2> QED BY <2>1, <2>3 DEF SB!sandboxVars
<1>5. CASE DozesOff(r)
  <2>1. client' = client /\ answer' = answer
    BY <1>5 DEF DozesOff
  <2> QED BY <2>1, PhaseStands DEF SB!sandboxVars
<1>6. CASE Return(r, DeadlinePasses)
  <2>1. client[r] # "answered"
    BY <1>6 DEF Return
  <2>2. \/ Respond(r, 503, None) \/ Respond(r, 502, None)
        \/ job[r].done /\ Respond(r, 200, job[r].result)
    BY <1>6 DEF Return
  <2>3. job[r].done => job[r].result \in OutputsOf[r]
    BY DEF ResultsBelong
  <2> QED BY <2>1, <2>2, <2>3, RespondAnswers
<1> QED BY <1>1, <1>2, <1>3, <1>4, <1>5, <1>6 DEF Browser

LEMMA WorkersAreInvisible ==
  ASSUME NEW w \in Workers, WorkerNext(w)
  PROVE  UNCHANGED SB!sandboxVars
<1>1. client' = client /\ answer' = answer
  <2>1. CASE UNCHANGED vars
    BY <2>1 DEF vars
  <2>2. ASSUME NEW reply, PollArrives(w, reply) PROVE client' = client /\ answer' = answer
    BY <2>2, ArrivalCases
  <2>3. CASE (\E r \in Requests : PollWakes(w, r)) \/ PollSleeps(w) \/ PollExpires(w) \/ FallsSilent(w)
    BY <2>3 DEF PollWakes, PollSleeps, PollExpires, FallsSilent
  <2>4. CASE \E r, x : PostResult(w, r, x)
    BY <2>4 DEF PostResult
  <2>5. \/ UNCHANGED vars \/ (\E reply : PollArrives(w, reply))
        \/ (\E r \in Requests : PollWakes(w, r)) \/ PollSleeps(w) \/ PollExpires(w)
        \/ FallsSilent(w) \/ (\E r, x : PostResult(w, r, x))
    <3>1. CASE SlotPolls(w) \/ SlotGetsJob(w) \/ OrphanGetsJob(w) \/ HandlerSleeps(w)
      BY <3>1 DEF SlotPolls, SlotGetsJob, OrphanGetsJob, HandlerSleeps
    <3>2. CASE SlotGetsNothing(w) \/ OrphanExpires(w) \/ Silence(w)
      BY <3>2 DEF SlotGetsNothing, OrphanExpires, Silence
    <3>3. CASE SlotPosts(w) \/ DelayedArrives(w)
      BY <3>3 DEF SlotPosts, DelayedArrives
    <3>4. CASE PollDrops(w) \/ PostIsLost(w) \/ PostIsDelayed(w) \/ Crash(w) \/ Restart(w)
      BY <3>4 DEF PollDrops, PostIsLost, PostIsDelayed, Crash, Restart
    <3> QED BY <3>1, <3>2, <3>3, <3>4 DEF WorkerNext
  <2> QED BY <2>1, <2>2, <2>3, <2>4, <2>5
<1> QED BY <1>1, PhaseStands DEF SB!sandboxVars

LEMMA StepImplements ==
  PlaygroundTypeOK /\ ResultsBelong /\ [PlaygroundNext]_allVars => [SB!SandboxNext]_SB!sandboxVars
<1> SUFFICES ASSUME PlaygroundTypeOK, ResultsBelong, [PlaygroundNext]_allVars
             PROVE  SB!SandboxNext \/ UNCHANGED SB!sandboxVars
  OBVIOUS
<1>0. TypeOK
  BY DEF PlaygroundTypeOK
<1>1. CASE UNCHANGED allVars \/ Stopping
  <2>1. client' = client /\ answer' = answer
    BY <1>1 DEF allVars, vars, Stopping, RequestStop
  <2> QED BY <2>1, PhaseStands DEF SB!sandboxVars
<1>2. ASSUME NEW r \in Requests, Browser(r)
      PROVE  SB!SandboxNext \/ UNCHANGED SB!sandboxVars
  BY <1>0, <1>2, BrowserImplements DEF SB!SandboxNext
<1>3. CASE \E w \in Workers : WorkerNext(w)
  BY <1>3, WorkersAreInvisible
<1> QED BY <1>1, <1>2, <1>3 DEF PlaygroundNext

LEMMA InitImplements == PlaygroundInit => SB!SandboxInit /\ ResultsBelong
<1> SUFFICES ASSUME PlaygroundInit PROVE SB!SandboxInit /\ ResultsBelong
  OBVIOUS
<1>1. SB!SandboxInit
  BY DEF PlaygroundInit, Init, Phase, SB!SandboxInit
<1>2. ResultsBelong
  BY DEF PlaygroundInit, Init, NewJob, ResultsBelong
<1> QED BY <1>1, <1>2

\* Whatever crashes, is lost, late, retried or cached, a browser gets one
\* response, and with status 200 it is the output of its own program.
THEOREM PlaygroundImplementsSandbox == PlaygroundSpec => ImplementsSandbox
<1> DEFINE Inv == PlaygroundTypeOK /\ ResultsBelong
<1>1. PlaygroundInit => Inv /\ SB!SandboxInit
  BY PlaygroundTypeStarts, InitImplements
<1>2. Inv /\ [PlaygroundNext]_allVars => Inv'
  BY PlaygroundTypeStays, BelongsStays
<1>3. Inv /\ [PlaygroundNext]_allVars => [SB!SandboxNext]_SB!sandboxVars
  BY StepImplements
<1> QED BY <1>1, <1>2, <1>3, PTL DEF PlaygroundSpec, ImplementsSandbox, SB!SandboxSpec

=============================================================================
