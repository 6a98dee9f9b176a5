------------------------------ MODULE Balancer ------------------------------
(***************************************************************************)
(* The dispatcher of the playground balancer (src/src/playground/server.cpp)*)
(* as an open system: browsers post programs to /run and /download, and    *)
(* workers, of which nothing is assumed, poll for jobs and post results.   *)
(*                                                                         *)
(* Every action is one critical section of the mutex mu_: a handler's code *)
(* between taking mu_ and either returning or waiting on cv_.  Real time   *)
(* appears as choices: whether a worker was seen within 3 poll timeouts is *)
(* the flag "fresh", and a deadline may pass at any moment.                *)
(***************************************************************************)
EXTENDS Naturals, Sequences, FiniteSets, SequencesExt

CONSTANTS
  Requests,   \* browser requests; the job made for a request bears its name
  Workers,    \* worker tokens of the configuration
  Codes,      \* program texts
  Names,      \* example names (header X-Example-Name)
  CodeOf,     \* the program of each request
  NameOf,     \* the example name of each request, None for free code
  Archives,   \* the requests that are POST /download
  Results,    \* bodies a worker may post to /result
  Built,      \* the results that carry a build archive of acceptable size
  Capacity,   \* the capacity each worker announces in /poll
  MaxQueue,   \* cfg.maxQueue
  Retry,      \* cfg.retry
  MaxPolls,   \* cfg.maxWorkerConns: /poll handlers open at a time
  None        \* "absent": empty token, no result, no reply

ASSUME BalancerAssumption ==
  /\ IsFiniteSet(Requests)
  /\ CodeOf \in [Requests -> Codes]
  /\ NameOf \in [Requests -> Names \cup {None}]
  /\ Archives \subseteq Requests
  /\ Built \subseteq Results
  /\ Capacity \in [Workers -> Nat \ {0}]
  /\ MaxQueue \in Nat
  /\ Retry \in Nat
  /\ MaxPolls \in Nat
  /\ None \notin Workers \cup Requests \cup Results \cup Names

VARIABLES
  job,        \* the Job objects
  queue,      \* queue_: jobs to hand out, oldest first
  inFlight,   \* keys of inFlight_: the jobs whose browser still waits
  worker,     \* workers_: what is known of each worker
  polls,      \* number of /poll handlers of each worker that wait on cv_
  asleep,     \* how many of these were not notified since they last looked
  cache,      \* ResultCache by example name
  client,     \* where the handler of each browser request is
  dozing,     \* the waiting ones not notified since they last looked
  answer,     \* the response to each request: HTTP status and worker result
  stop        \* stop_

vars == <<job, queue, inFlight, worker, polls, asleep, cache, client, dozing,
          answer, stop>>

-----------------------------------------------------------------------------
Statuses == {200, 429, 502, 503}   \* 429 stands for every refusal before mu_

\* "given", not in the code, counts the hand-outs of the job.
Jobs == [owner : Workers \cup {None}, done : BOOLEAN, released : BOOLEAN,
         attempts : Nat, result : Results \cup {None}, given : Nat]

\* "slots", not in the code, remembers what inFlight counts: <<r, n>> is the
\* slot taken by the n-th hand-out of job r.
WorkerStates == [known : BOOLEAN, fresh : BOOLEAN, inFlight : Nat,
                 slots : SUBSET (Requests \X Nat)]

Entries == [code : Codes, result : Results]

TypeOK ==
  /\ job \in [Requests -> Jobs]
  /\ queue \in Seq(Requests)
  /\ inFlight \subseteq Requests
  /\ worker \in [Workers -> WorkerStates]
  /\ polls \in [Workers -> Nat]
  /\ asleep \in [Workers -> Nat]
  /\ cache \in [Names -> Entries \cup {None}]
  /\ client \in [Requests -> {"new", "checked", "waiting", "answered"}]
  /\ dozing \subseteq Requests
  /\ answer \in [Requests -> [status : Statuses, result : Results \cup {None}]
                             \cup {None}]
  /\ stop \in BOOLEAN

NewJob == [owner |-> None, done |-> FALSE, released |-> FALSE,
           attempts |-> 0, result |-> None, given |-> 0]

UnknownWorker == [known |-> FALSE, fresh |-> FALSE, inFlight |-> 0, slots |-> {}]

Init ==
  /\ job = [r \in Requests |-> NewJob]
  /\ queue = << >>
  /\ inFlight = {}
  /\ worker = [w \in Workers |-> UnknownWorker]
  /\ polls = [w \in Workers |-> 0]
  /\ asleep = [w \in Workers |-> 0]
  /\ cache = [n \in Names |-> None]
  /\ client = [r \in Requests |-> "new"]
  /\ dozing = {}
  /\ answer = [r \in Requests |-> None]
  /\ stop = FALSE

-----------------------------------------------------------------------------
(* cv_.  Handlers of both kinds wait on it; a waiter that is notified looks *)
(* at its condition again and goes back to sleep when it does not hold.    *)

sleepers == <<asleep, dozing>>

NotifyAll == asleep' = [w \in Workers |-> 0] /\ dozing' = {}

-----------------------------------------------------------------------------
(* releaseJobSlot, for a set S of jobs: sequentially each job that has a   *)
(* worker and was not released yet gives back the slot of its last         *)
(* hand-out.  The flag is never reset: a job gives back one slot in all.   *)

\* The jobs given to w that releaseJobSlot would still act on.
Holds(w) == {r \in Requests : job[r].owner = w /\ ~job[r].released}

\* The slots that the last hand-outs of the jobs S have taken.
LastSlots(S) == {<<r, job[r].given>> : r \in S}

\* Mutant: the flag "released" is not looked at.
SlotsReleasedAnyway(S) ==
  [w \in Workers |->
     LET back == {r \in S : job[r].owner = w}
         freed == Cardinality(back)
     IN [worker[w] EXCEPT !.inFlight = IF @ > freed THEN @ - freed ELSE 0,
                          !.slots = @ \ LastSlots(back)]]

\* Mutant: nor is the counter compared with zero.
SlotsReleasedBlindly(S) ==
  [w \in Workers |->
     [worker[w] EXCEPT !.inFlight = @ - Cardinality({r \in S : job[r].owner = w})]]

\* Mutant: only a job that is done gives its slot back.
SlotsReleasedWhenDone(S) ==
  [w \in Workers |->
     LET back == {r \in S \cap Holds(w) : job[r].done}
         freed == Cardinality(back)
     IN [worker[w] EXCEPT !.inFlight = IF @ > freed THEN @ - freed ELSE 0,
                          !.slots = @ \ LastSlots(back)]]

SlotsAfterRelease(S) ==
  [w \in Workers |->
     LET back == S \cap Holds(w)
         freed == Cardinality(back)
     IN [worker[w] EXCEPT !.inFlight = IF @ > freed THEN @ - freed ELSE 0,
                          !.slots = @ \ LastSlots(back)]]

Released(j) == IF j.owner = None THEN j ELSE [j EXCEPT !.released = TRUE]

-----------------------------------------------------------------------------
(* POST /run and POST /download.                                           *)

Respond(r, status, result) ==
  /\ client' = [client EXCEPT ![r] = "answered"]
  /\ answer' = [answer EXCEPT ![r] = [status |-> status, result |-> result]]

\* Wrong origin, empty or oversized body, proof of work or rate limit.
Refuse(r) ==
  /\ client[r] = "new"
  /\ Respond(r, 429, None)
  /\ UNCHANGED <<job, queue, inFlight, worker, polls, sleepers, cache, stop>>

\* Mutant: the code of the entry is not compared.
CacheHitsByName(r) == r \notin Archives /\ NameOf[r] # None /\ cache[NameOf[r]] # None

\* ResultCache::get finds a live entry for this very program.
CacheHits(r) ==
  /\ r \notin Archives /\ NameOf[r] # None
  /\ cache[NameOf[r]] # None
  /\ cache[NameOf[r]].code = CodeOf[r]

AnswerFromCache(r) ==
  /\ client[r] = "new"
  /\ CacheHits(r)
  /\ Respond(r, 200, cache[NameOf[r]].result)
  /\ UNCHANGED <<job, queue, inFlight, worker, polls, sleepers, cache, stop>>

\* The checks are passed and the cache has no answer: an entry that is
\* absent, for other code, or too old, which get erases.
PassChecks(r) ==
  /\ client[r] = "new"
  /\ \/ ~CacheHits(r) /\ UNCHANGED cache
     \/ /\ r \notin Archives /\ NameOf[r] # None
        /\ cache' = [cache EXCEPT ![NameOf[r]] = None]
  /\ client' = [client EXCEPT ![r] = "checked"]
  /\ UNCHANGED <<job, queue, inFlight, worker, polls, sleepers, answer, stop>>

\* hasConnectedWorkerLocked
HasConnectedWorker == \E w \in Workers : worker[w].known /\ worker[w].fresh

\* Mutant: off by one.
AdmissibleOneMore == HasConnectedWorker /\ Len(queue) <= MaxQueue

Admissible == HasConnectedWorker /\ Len(queue) < MaxQueue

TurnAway(r) ==
  /\ client[r] = "checked"
  /\ ~Admissible
  /\ Respond(r, 503, None)
  /\ UNCHANGED <<job, queue, inFlight, worker, polls, sleepers, cache, stop>>

Enqueue(r) ==
  /\ client[r] = "checked"
  /\ Admissible
  /\ queue' = Append(queue, r)
  /\ inFlight' = inFlight \cup {r}
  /\ client' = [client EXCEPT ![r] = "waiting"]
  /\ asleep' = [w \in Workers |-> 0]
  /\ dozing' = IF stop THEN {} ELSE {r}
  /\ UNCHANGED <<job, worker, polls, cache, answer, stop>>

\* A notified handler finds its job undone and goes back to sleep.
DozesOff(r) ==
  /\ client[r] = "waiting" /\ r \notin dozing
  /\ ~job[r].done /\ ~stop
  /\ dozing' = dozing \cup {r}
  /\ UNCHANGED <<job, queue, inFlight, worker, polls, asleep, cache, client,
                 answer, stop>>

\* Mutant: the map entry is not erased.
ReturnKeepsEntry(r, late) ==
  /\ client[r] = "waiting"
  /\ (r \notin dozing /\ (job[r].done \/ stop)) \/ late
  /\ worker' = SlotsAfterRelease({r})
  /\ job' = [job EXCEPT ![r] = Released(@)]
  /\ NotifyAll
  /\ Respond(r, IF job[r].done THEN 200 ELSE 503, job[r].result)
  /\ UNCHANGED <<queue, inFlight, polls, cache, stop>>

\* Mutant: the wait has no deadline.
ReturnWhenDone(r, late) ==
  /\ client[r] = "waiting" /\ job[r].done /\ r \notin dozing
  /\ worker' = SlotsAfterRelease({r})
  /\ job' = [job EXCEPT ![r] = Released(@)]
  /\ NotifyAll
  /\ inFlight' = inFlight \ {r}
  /\ Respond(r, 200, job[r].result)
  /\ UNCHANGED <<queue, polls, cache, stop>>

\* The handler's wait ends: awake, it sees that its job is done or that the
\* server stops, or jobTimeout + pollTimeout have passed ("late").  A /download whose result
\* carries no archive is a 502.
Return(r, late) ==
  /\ client[r] = "waiting"
  /\ (r \notin dozing /\ (job[r].done \/ stop)) \/ late
  /\ worker' = SlotsAfterRelease({r})
  /\ job' = [job EXCEPT ![r] = Released(@)]
  /\ NotifyAll
  /\ inFlight' = inFlight \ {r}
  /\ IF ~job[r].done THEN Respond(r, 503, None)
     ELSE IF r \in Archives /\ job[r].result \notin Built THEN Respond(r, 502, None)
     ELSE Respond(r, 200, job[r].result)
  /\ UNCHANGED <<queue, polls, cache, stop>>

-----------------------------------------------------------------------------
(* POST /poll.                                                             *)

\* Mutant: the attempts are not bounded.
AbandonedAgain(w) ==
  {r \in inFlight : /\ ~job[r].done
                    /\ job[r].owner \notin {None, w}
                    /\ ~worker[job[r].owner].fresh
                    /\ job[r].attempts <= Retry}


\* Jobs of the retry sweep: undone, given to a worker that went silent, and
\* with an attempt left.  The polling worker w has just been seen.
Abandoned(w) ==
  {r \in inFlight : /\ ~job[r].done
                    /\ job[r].owner \notin {None, w}
                    /\ ~worker[job[r].owner].fresh
                    /\ job[r].attempts < Retry}

Requeued(j) == [j EXCEPT !.attempts = @ + 1, !.released = TRUE]

\* Mutant: the job does not remember its worker.
HandOutAnonymously(w, jb, ws, q) ==
  /\ job' = [jb EXCEPT ![Head(q)].given = @ + 1]
  /\ worker' = [ws EXCEPT ![w].inFlight = @ + 1,
                          ![w].slots = @ \cup {<<Head(q), jb[Head(q)].given + 1>>}]
  /\ queue' = Tail(q)

\* The head of q goes to w: jb and ws are the jobs and workers just before.
\* Nothing asks whether the job is done, still awaited, or released before.
HandOut(w, jb, ws, q) ==
  /\ job' = [jb EXCEPT ![Head(q)].owner = w, ![Head(q)].given = @ + 1]
  /\ worker' = [ws EXCEPT ![w].inFlight = @ + 1,
                          ![w].slots = @ \cup {<<Head(q), jb[Head(q)].given + 1>>}]
  /\ queue' = Tail(q)

\* A poll arrives: w is registered as seen, abandoned jobs return to the
\* queue in the order of the hash map (any), and the loop's first turn hands
\* out a job, waits ("wait"), or, when stopping, answers 204 (None).
\* Without a free connection slot run() answers 503 and nothing changes.
\* Every requeued job notifies; the handler itself then sleeps if it waits.
PollArrives(w, reply) ==
  /\ SumFunction(polls) < MaxPolls
  /\ LET swept == Abandoned(w)
         jb == [r \in Requests |-> IF r \in swept THEN Requeued(job[r]) ELSE job[r]]
         ws == [SlotsAfterRelease(swept) EXCEPT ![w].known = TRUE, ![w].fresh = TRUE]
     IN \E order \in SetToSeqs(swept) :
          LET q == queue \o order
          IN IF ~stop /\ q # << >> /\ ws[w].inFlight < Capacity[w]
             THEN /\ HandOut(w, jb, ws, q)
                  /\ reply = Head(q)
                  /\ UNCHANGED polls
                  /\ IF swept = {} THEN UNCHANGED sleepers ELSE NotifyAll
             ELSE /\ job' = jb /\ worker' = ws /\ queue' = q
                  /\ reply = IF stop THEN None ELSE "wait"
                  /\ polls' = IF stop THEN polls ELSE [polls EXCEPT ![w] = @ + 1]
                  /\ asleep' = [u \in Workers |->
                                  (IF swept = {} THEN asleep[u] ELSE 0)
                                    + (IF u = w /\ ~stop THEN 1 ELSE 0)]
                  /\ dozing' = IF swept = {} THEN dozing ELSE {}
  /\ UNCHANGED <<inFlight, cache, client, answer, stop>>

CanTake(w) == ~stop /\ queue # << >> /\ worker[w].inFlight < Capacity[w]

\* A notified handler of w finds a job and a free slot ...
PollWakes(w, r) ==
  /\ polls[w] > asleep[w]
  /\ CanTake(w) /\ r = Head(queue)
  /\ HandOut(w, job, worker, queue)
  /\ polls' = [polls EXCEPT ![w] = @ - 1]
  /\ UNCHANGED <<inFlight, sleepers, cache, client, answer, stop>>

\* ... or nothing, and goes back to sleep.
PollSleeps(w) ==
  /\ polls[w] > asleep[w]
  /\ ~CanTake(w) /\ ~stop
  /\ asleep' = [asleep EXCEPT ![w] = @ + 1]
  /\ UNCHANGED <<job, queue, inFlight, worker, polls, cache, client, dozing,
                 answer, stop>>

\* The deadline of a waiting handler passes (even if a job has just come), or
\* a notified one sees that the server stops: 204.
PollExpires(w) ==
  /\ polls[w] > 0
  /\ polls' = [polls EXCEPT ![w] = @ - 1]
  /\ \/ asleep[w] > 0 /\ asleep' = [asleep EXCEPT ![w] = @ - 1]
     \/ polls[w] > asleep[w] /\ UNCHANGED asleep
  /\ UNCHANGED <<job, queue, inFlight, worker, cache, client, dozing, answer,
                 stop>>

-----------------------------------------------------------------------------
(* POST /result.                                                           *)

\* Mutant: a result of any worker is accepted.
AcceptsAnyone(w, r) == r \in inFlight

Accepts(w, r) == r \in inFlight /\ job[r].owner = w

\* ResultCache::put, after which expired and least used entries go; nothing
\* happens when the cache is switched off or the body is empty.
CachePut(r, x) ==
  \/ UNCHANGED cache
  \/ \E evicted \in SUBSET Names :
       cache' = [n \in Names |->
                   IF n \in evicted THEN None
                   ELSE IF n = NameOf[r] THEN [code |-> CodeOf[r], result |-> x]
                   ELSE cache[n]]

Seen(ws, w) == IF ws[w].known THEN [ws EXCEPT ![w].fresh = TRUE] ELSE ws

\* Mutant: the waiters are not notified.
PostResultQuietly(w, r, x) ==
  /\ Accepts(w, r)
  /\ job' = [job EXCEPT ![r] = [Released(@) EXCEPT !.result = x, !.done = TRUE]]
  /\ worker' = Seen(SlotsAfterRelease({r}), w)
  /\ UNCHANGED <<queue, inFlight, polls, sleepers, cache, client, answer, stop>>

PostResult(w, r, x) ==
  /\ IF Accepts(w, r)
     THEN /\ NotifyAll
          /\ job' = [job EXCEPT ![r] = [Released(@) EXCEPT !.result = x, !.done = TRUE]]
          /\ worker' = Seen(SlotsAfterRelease({r}), w)
          /\ IF r \in Archives \/ NameOf[r] = None THEN UNCHANGED cache
             ELSE CachePut(r, x)
     ELSE worker' = Seen(worker, w) /\ UNCHANGED <<job, sleepers, cache>>
  /\ UNCHANGED <<queue, inFlight, polls, client, answer, stop>>

-----------------------------------------------------------------------------
(* Time and shutdown.                                                      *)

\* Three poll timeouts since w's last call: none of its polls is still open,
\* for a poll refreshes lastSeen and waits for one poll timeout at most.
FallsSilent(w) ==
  /\ worker[w].fresh /\ polls[w] = 0
  /\ worker' = [worker EXCEPT ![w].fresh = FALSE]
  /\ UNCHANGED <<job, queue, inFlight, polls, sleepers, cache, client, answer, stop>>

\* Sets the flag only: no waiter is notified.
RequestStop ==
  /\ ~stop /\ stop' = TRUE
  /\ UNCHANGED <<job, queue, inFlight, worker, polls, sleepers, cache, client,
                 answer>>

ClientStep(r) ==
  \/ Refuse(r) \/ AnswerFromCache(r) \/ PassChecks(r)
  \/ TurnAway(r) \/ Enqueue(r) \/ DozesOff(r)
  \/ \E late \in BOOLEAN : Return(r, late)

WorkerStep(w) ==
  \/ \E reply \in Requests \cup {None, "wait"} : PollArrives(w, reply)
  \/ \E r \in Requests : PollWakes(w, r)
  \/ PollSleeps(w) \/ PollExpires(w)
  \/ \E r \in Requests, x \in Results : PostResult(w, r, x)
  \/ FallsSilent(w)

Next ==
  \/ \E r \in Requests : ClientStep(r)
  \/ \E w \in Workers : WorkerStep(w)
  \/ RequestStop

Spec == Init /\ [][Next]_vars

-----------------------------------------------------------------------------
(* Safety.                                                                 *)

\* The counter of a worker is exact about its own hand-outs: every hand-out
\* takes one slot, a slot is given back by the hand-out that took it and once
\* only (server.h:60, server.h:94: the result and the browser's handler that
\* wakes after it both release), and no more slots are taken than the worker
\* announced.  It says nothing of what the worker really runs: a slow worker
\* that was swept, or whose browser gave up, runs on with its slot given back.
SlotsAccounted ==
  \A w \in Workers : /\ worker[w].inFlight = Cardinality(worker[w].slots)
                     /\ worker[w].inFlight <= Capacity[w]

\* A counted slot is one that releaseJobSlot can still give back.  It needs
\* Retry = 0: what the flag "released" promises (server.h:60), the slot has
\* been freed, once, fails for the later hand-outs of a retried job.
SlotsExact ==
  \A w \in Workers : worker[w].inFlight = Cardinality(Holds(w))

\* No worker's counter counts the slot of the job's first hand-out.
FirstSlotFree(r) == \A w \in Workers : <<r, 1>> \notin worker[w].slots

\* A job no worker has had yet is queued once only.  One that is queued again
\* has had the slot of its first hand-out given back, before the next hand-out
\* makes the balancer forget that worker.  (The slots of later hand-outs of a
\* job swept twice are forgotten: SlotsExact fails.)
QueueSound ==
  \A i \in DOMAIN queue :
    IF job[queue[i]].given = 0
    THEN \A k \in DOMAIN queue : queue[k] = queue[i] => k = i
    ELSE FirstSlotFree(queue[i])

\* inFlight_ holds exactly the jobs whose handler still waits: a result for
\* any other job is ignored, and one for these is never missed.  Before it is
\* queued a request has left no trace.
RequestsTracked ==
  /\ inFlight = {r \in Requests : client[r] = "waiting"}
  /\ \A r \in Requests :
       client[r] \in {"new", "checked"} => job[r] = NewJob /\ r \notin ToSet(queue)

\* A browser that waits for a job nobody has taken finds it in the queue:
\* the job cannot be lost between the queue and the workers.
NotForgotten ==
  \A r \in inFlight : job[r].owner = None => r \in ToSet(queue)

\* A job is done only by a worker it was given to, and from then on the slot
\* of its first hand-out is free, although the browser's handler has yet to
\* wake and to release, and whichever worker of a retried job was faster.
DoneIsReleased ==
  \A r \in Requests : job[r].done => job[r].given > 0 /\ FirstSlotFree(r)

\* Copies of a job in the queue and its hand-outs come from counted attempts
\* only: one job is handed out at most 1 + cfg.retry times.
DispatchBudget ==
  \A r \in Requests :
    LET copies == Cardinality({i \in DOMAIN queue : queue[i] = r})
    IN job[r].attempts <= Retry /\ copies + job[r].given <= 1 + job[r].attempts

\* No lost wake-up: a /poll handler never sleeps while it could take a job, nor
\* a browser's handler while its job is done.  Each change that makes such a
\* condition true must end in cv_.notify_all(); RequestStop, which may not
\* notify (server.cpp:311), is the exception.
NoLostWakeup ==
  /\ \A w \in Workers : /\ asleep[w] <= polls[w]
                        /\ asleep[w] > 0 => ~CanTake(w)
  /\ \A r \in dozing : client[r] = "waiting" /\ ~job[r].done

\* max_queue bounds the jobs that wait for their first worker (the retried
\* ones come on top of it: the sweep does not look at max_queue).
FirstTimersBounded ==
  Cardinality({i \in DOMAIN queue : job[queue[i]].owner = None}) <= MaxQueue

=============================================================================
