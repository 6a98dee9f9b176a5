----------------------------- MODULE Playground -----------------------------
(***************************************************************************)
(* The balancer together with its workers (src/src/playground/worker.cpp). *)
(* A worker process runs Capacity slot threads; each polls, runs the job   *)
(* it is given in a subprocess, posts the result, and polls again.  Slots  *)
(* of a worker are alike, so they are counted.                             *)
(*                                                                         *)
(* Faults are switched on by a set:                                        *)
(*   "slow"   a live worker may be silent for 3 poll timeouts              *)
(*   "late"   a browser's deadline may pass before the result comes        *)
(*   "drop"   the connection of a poll breaks; its handler is not told     *)
(*   "lose"   a posted result is refused or never arrives                  *)
(*   "delay"  a posted result arrives after its slot has moved on          *)
(*   "crash"  a worker process dies;  "restart"  and is started again      *)
(*   "refuse" requests are refused before mu_                              *)
(*   "stop"   the balancer is told to stop                                 *)
(***************************************************************************)
EXTENDS Balancer

CONSTANTS
  Faults,
  MaxCrashes  \* bounds the crashes of all workers together

ASSUME PlaygroundAssumption ==
  /\ Faults \subseteq {"slow", "late", "drop", "lose", "delay", "crash",
                       "restart", "refuse", "stop"}
  /\ MaxCrashes \in Nat
  /\ Results = [code : Codes, built : BOOLEAN]
  /\ Built = {x \in Results : x.built}

VARIABLES
  up,         \* the worker's process is running
  idle,       \* its slots between two polls
  awaiting,   \* its slots whose /poll handler waits (the others are orphans)
  running,    \* how many of its slots run each job
  delayed,    \* results on their way, forgotten by their slot
  crashes

workerVars == <<up, idle, awaiting, running, delayed, crashes>>
allVars == <<vars, workerVars>>

\* What runTrustLsp makes of a job: an archive only if one was asked for.
OutputsOf ==
  [r \in Requests |-> {x \in Results : x.code = CodeOf[r] /\ (x.built => r \in Archives)}]

PlaygroundTypeOK ==
  /\ TypeOK
  /\ up \in [Workers -> BOOLEAN]
  /\ idle \in [Workers -> Nat] /\ awaiting \in [Workers -> Nat]
  /\ running \in [Workers -> [Requests -> Nat]]
  /\ delayed \subseteq Workers \X Requests \X Results
  /\ crashes \in 0..MaxCrashes

PlaygroundInit ==
  /\ Init
  /\ up = [w \in Workers |-> TRUE]
  /\ idle = Capacity
  /\ awaiting = [w \in Workers |-> 0]
  /\ running = [w \in Workers |-> [r \in Requests |-> 0]]
  /\ delayed = {}
  /\ crashes = 0

-----------------------------------------------------------------------------
(* slotLoop.                                                               *)

More(f, w) == [f EXCEPT ![w] = @ + 1]
Less(f, w) == [f EXCEPT ![w] = @ - 1]

Start(w, r) == running' = [running EXCEPT ![w][r] = @ + 1]
Finish(w, r) == running' = [running EXCEPT ![w][r] = @ - 1]

\* A slot polls; the response is a job, 204, or yet to come.  Under "drop"
\* the job is handed out but its response is lost, and the slot polls again.
SlotPolls(w) ==
  /\ idle[w] > 0
  /\ \/ \E r \in Requests :
          /\ PollArrives(w, r)
          /\ \/ Start(w, r) /\ idle' = Less(idle, w)
             \/ "drop" \in Faults /\ UNCHANGED <<running, idle>>
          /\ UNCHANGED awaiting
     \/ PollArrives(w, None) /\ UNCHANGED <<idle, awaiting, running>>
     \/ /\ PollArrives(w, "wait")
        /\ idle' = Less(idle, w) /\ awaiting' = More(awaiting, w)
        /\ UNCHANGED running
  /\ UNCHANGED <<up, delayed, crashes>>

\* A waiting handler hands out a job to its slot.
SlotGetsJob(w) ==
  /\ awaiting[w] > 0
  /\ \E r \in Requests : PollWakes(w, r) /\ Start(w, r)
  /\ awaiting' = Less(awaiting, w)
  /\ UNCHANGED <<up, idle, delayed, crashes>>

\* The same, but the handler's peer is gone: the job is nobody's.
OrphanGetsJob(w) ==
  /\ polls[w] > awaiting[w]
  /\ \E r \in Requests : PollWakes(w, r)
  /\ UNCHANGED workerVars

\* A notified handler, whosever it is, finds nothing.
HandlerSleeps(w) == PollSleeps(w) /\ UNCHANGED workerVars

SlotGetsNothing(w) ==
  /\ awaiting[w] > 0
  /\ PollExpires(w)
  /\ awaiting' = Less(awaiting, w) /\ idle' = More(idle, w)
  /\ UNCHANGED <<up, running, delayed, crashes>>

OrphanExpires(w) ==
  /\ polls[w] > awaiting[w]
  /\ PollExpires(w)
  /\ UNCHANGED workerVars

\* httpPost returns status 0: the slot backs off and polls anew.
PollDrops(w) ==
  /\ "drop" \in Faults
  /\ awaiting[w] > 0
  /\ awaiting' = Less(awaiting, w) /\ idle' = More(idle, w)
  /\ UNCHANGED <<vars, up, running, delayed, crashes>>

\* The subprocess has ended, by itself or killed at its timeout, and the
\* slot posts its result and waits for the response.
SlotPosts(w) ==
  /\ \E r \in Requests :
       /\ running[w][r] > 0
       /\ \E x \in OutputsOf[r] : PostResult(w, r, x)
       /\ Finish(w, r)
  /\ idle' = More(idle, w)
  /\ UNCHANGED <<up, awaiting, delayed, crashes>>

\* The post fails (no connection, 413 for an oversized body); its outcome is
\* not looked at and the result is gone.
PostIsLost(w) ==
  /\ "lose" \in Faults
  /\ \E r \in Requests : running[w][r] > 0 /\ Finish(w, r)
  /\ idle' = More(idle, w)
  /\ UNCHANGED <<vars, up, awaiting, delayed, crashes>>

\* The post takes longer than its 10 seconds.
PostIsDelayed(w) ==
  /\ "delay" \in Faults
  /\ \E r \in Requests :
       /\ running[w][r] > 0 /\ Finish(w, r)
       /\ \E x \in OutputsOf[r] : delayed' = delayed \cup {<<w, r, x>>}
  /\ idle' = More(idle, w)
  /\ UNCHANGED <<vars, up, awaiting, crashes>>

DelayedArrives(w) ==
  \E m \in delayed :
    /\ m[1] = w
    /\ PostResult(w, m[2], m[3])
    /\ delayed' = delayed \ {m}
    /\ UNCHANGED <<up, idle, awaiting, running, crashes>>

\* The process dies with its slots; the balancer is not told.
Crash(w) ==
  /\ "crash" \in Faults /\ up[w] /\ crashes < MaxCrashes
  /\ crashes' = crashes + 1
  /\ up' = [up EXCEPT ![w] = FALSE]
  /\ idle' = [idle EXCEPT ![w] = 0]
  /\ awaiting' = [awaiting EXCEPT ![w] = 0]
  /\ running' = [running EXCEPT ![w] = [r \in Requests |-> 0]]
  /\ UNCHANGED <<vars, delayed>>

Restart(w) ==
  /\ "restart" \in Faults /\ ~up[w]
  /\ up' = [up EXCEPT ![w] = TRUE]
  /\ idle' = [idle EXCEPT ![w] = Capacity[w]]
  /\ UNCHANGED <<vars, awaiting, running, delayed, crashes>>

-----------------------------------------------------------------------------
Silence(w) ==
  /\ "slow" \in Faults \/ ~up[w]
  /\ FallsSilent(w)
  /\ UNCHANGED workerVars

\* A deadline of jobTimeout + pollTimeout does not pass while a waiting
\* handler that was notified is about to take a job.
DeadlinePasses ==
  /\ "late" \in Faults
  /\ \A w \in Workers :
       polls[w] > 0 => ~CanTake(w)

Browser(r) ==
  /\ \/ "refuse" \in Faults /\ Refuse(r)
     \/ AnswerFromCache(r) \/ PassChecks(r) \/ TurnAway(r) \/ Enqueue(r) \/ DozesOff(r)
     \/ Return(r, DeadlinePasses)
  /\ UNCHANGED workerVars

Stopping ==
  /\ "stop" \in Faults
  /\ RequestStop
  /\ UNCHANGED workerVars

WorkerNext(w) ==
  \/ SlotPolls(w) \/ SlotGetsJob(w) \/ OrphanGetsJob(w)
  \/ HandlerSleeps(w) \/ SlotGetsNothing(w) \/ OrphanExpires(w) \/ PollDrops(w)
  \/ SlotPosts(w) \/ PostIsLost(w) \/ PostIsDelayed(w) \/ DelayedArrives(w)
  \/ Crash(w) \/ Restart(w) \/ Silence(w)

PlaygroundNext ==
  \/ \E r \in Requests : Browser(r)
  \/ \E w \in Workers : WorkerNext(w)
  \/ Stopping

PlaygroundSpec == PlaygroundInit /\ [][PlaygroundNext]_allVars

\* Slots and handlers run on threads of their own, the wait of a poll has a
\* deadline, subprocesses are killed at theirs, and a dead worker stays dead
\* until it counts as silent.
WorkersMove ==
  \A w \in Workers :
    /\ WF_allVars(SlotPolls(w))
    /\ WF_allVars(SlotGetsJob(w) \/ SlotGetsNothing(w))
    /\ WF_allVars(OrphanGetsJob(w) \/ OrphanExpires(w))
    /\ WF_allVars(SlotPosts(w) \/ PostIsLost(w) \/ PostIsDelayed(w))
    /\ WF_allVars(~up[w] /\ Silence(w))

RequestsMove ==
  \A r \in Requests :
    WF_allVars((TurnAway(r) \/ Enqueue(r)) /\ UNCHANGED workerVars)

\* Every wait of a browser's handler has a deadline ...
FairSpec ==
  /\ PlaygroundSpec /\ WorkersMove /\ RequestsMove
  /\ \A r \in Requests : WF_allVars(Return(r, DeadlinePasses) /\ UNCHANGED workerVars)

\* ... or one that may pass at any moment but need not pass at all.
PatientSpec ==
  /\ PlaygroundSpec /\ WorkersMove /\ RequestsMove
  /\ \A r \in Requests : WF_allVars(Return(r, FALSE) /\ UNCHANGED workerVars)

-----------------------------------------------------------------------------
(* Properties.                                                             *)

Phase == [r \in Requests |->
            IF client[r] \in {"checked", "waiting"} THEN "pending" ELSE client[r]]

SB == INSTANCE Sandbox WITH phase <- Phase

\* Through queue, retries, cache and late results, what a browser gets is one
\* response, and with status 200 the output of its own program (ResultCache's
\* comparison of the code, result_cache.cpp:21, is what a shared example name
\* depends on).
ImplementsSandbox == SB!SandboxSpec

\* A request that passed the checks is answered in the end, whatever fails:
\* the deadline of its handler sees to it.
AlwaysAnswered ==
  \A r \in Requests : client[r] \in {"checked", "waiting"} ~> client[r] = "answered"


\* The slot of the worker that took a job is freed (server.h:60).
SlotIsFreed ==
  \A r \in Requests : job[r].owner # None ~> job[r].released

=============================================================================
