----------------------------- MODULE Subprocess -----------------------------
(* How the slots of a worker run trust-lsp: runTrustLsp, drainTwoFds and   *)
(* waitPidTimeout in src/playground/worker.cpp.  Every slot is a thread of *)
(* one process and makes its pipes without O_CLOEXEC, so the child of one  *)
(* slot inherits the ends another slot has open at that moment, and keeps  *)
(* them until it exits.  The pipes of stdout and stderr are one pipe here. *)
(* Deadlines are long: one passes only when no quick process concerned can *)
(* move (waitpid's deadline starts anew after the one of the drain).       *)
EXTENDS Naturals

CONSTANTS
  Slots,     \* threads of the worker (max_parallel)
  MaxLost    \* pipes that may be lost (bound)

ASSUME ProcAssumption == MaxLost \in Nat

VARIABLES
  up,        \* the worker process is alive
  slot,      \* slot -> where it is in its job, and the job's size
  child,     \* slot -> the process it started
  held,      \* <<slot, end>> pairs the worker process has open
  result,    \* slot -> what its last job was answered with
  lost       \* pipes nobody will close

procVars == <<up, slot, child, held, result, lost>>

Ends == {"inRead", "inWrite", "outRead", "outWrite"}
EndsOf(s) == {s} \X Ends

\* What trust-lsp may do: answer once it has read its input to the end, hang
\* (too much work, a full disk, ...), or die before it reads anything.
Conduct == {"quick", "hangs", "dies"}
NoChild == [is |-> "none", conduct |-> "quick", fds |-> {}]

ProcInit ==
  /\ up = TRUE
  /\ slot = [s \in Slots |-> [at |-> "idle", big |-> FALSE]]
  /\ child = [s \in Slots |-> NoChild]
  /\ held = {}
  /\ result = [s \in Slots |-> "none"]
  /\ lost = 0

At(s, where) == up /\ slot[s].at = where
To(s, where) == slot' = [slot EXCEPT ![s].at = where]
Answers(s, what) == result' = [result EXCEPT ![s] = what]
Running(s) == child[s].is = "running"
Exits(s) == child' = [child EXCEPT ![s].is = "exited", ![s].fds = {}]
Open(fd) == fd \in held \/ \E t \in Slots : fd \in child[t].fds
OpenElsewhere(s, fd) == fd \in held \/ \E t \in Slots \ {s} : fd \in child[t].fds

\* A job whose program fits the buffer of a pipe, or not.
TakeJob(s, big) ==
  /\ At(s, "idle")
  /\ slot' = [slot EXCEPT ![s] = [at |-> "piping", big |-> big]]
  /\ Answers(s, "none")
  /\ UNCHANGED <<up, child, held, lost>>

OpenPipes(s) ==
  /\ At(s, "piping")
  /\ held' = held \cup EndsOf(s)
  /\ To(s, "forking")
  /\ UNCHANGED <<up, child, result, lost>>

\* pipe() fails for the second or the third time: the ends made before stay
\* open for good.
PipesFail(s) ==
  /\ At(s, "piping")
  /\ \E n \in 0 .. 2 : lost' = lost + n /\ lost' <= MaxLost
  /\ To(s, "idle")
  /\ Answers(s, "error")
  /\ UNCHANGED <<up, child, held>>

ForkChild(s, conduct) ==
  /\ At(s, "forking")
  /\ child' = [child EXCEPT ![s] =
       [is |-> "running", conduct |-> conduct,
        fds |-> held \ {<<s, "inWrite">>, <<s, "outRead">>}]]
  /\ To(s, "parting")
  /\ UNCHANGED <<up, held, result, lost>>

\* Mutant: the ends stay open when there is no process.
ForkFailsOpen(s) ==
  /\ At(s, "forking")
  /\ To(s, "idle")
  /\ Answers(s, "error")
  /\ UNCHANGED <<up, child, held, lost>>

\* No process: all ends are closed and the job is answered with an error.
ForkFails(s) ==
  /\ At(s, "forking")
  /\ held' = held \ EndsOf(s)
  /\ To(s, "idle")
  /\ Answers(s, "error")
  /\ UNCHANGED <<up, child, lost>>

PartEnds(s) ==
  /\ At(s, "parting")
  /\ held' = held \ {<<s, "inRead">>, <<s, "outWrite">>}
  /\ To(s, "feeding")
  /\ UNCHANGED <<up, child, result, lost>>

\* Mutant: the worker keeps its end of the input open.
FeedUnclosed(s) ==
  /\ At(s, "feeding")
  /\ Open(<<s, "inRead">>)
  /\ slot[s].big => Running(s) /\ child[s].conduct = "quick"
  /\ To(s, "draining")
  /\ UNCHANGED <<up, child, held, result, lost>>

\* write(): without a reader SIGPIPE ends the worker.  A program larger than
\* the pipe goes through only as the child reads it.
FeedChild(s) ==
  /\ At(s, "feeding")
  /\ Open(<<s, "inRead">>)
  /\ slot[s].big => Running(s) /\ child[s].conduct = "quick"
  /\ held' = held \ {<<s, "inWrite">>}
  /\ To(s, "draining")
  /\ UNCHANGED <<up, child, result, lost>>

BrokenPipe(s) ==
  /\ At(s, "feeding")
  /\ ~Open(<<s, "inRead">>)
  /\ up' = FALSE
  /\ held' = {}
  /\ UNCHANGED <<slot, child, result, lost>>

\* The child sees the end of its input when no process can write to it.
ChildAnswers(s) ==
  /\ Running(s)
  /\ child[s].conduct = "quick"
  /\ ~OpenElsewhere(s, <<s, "inWrite">>)
  /\ Exits(s)
  /\ UNCHANGED <<up, slot, held, result, lost>>

ChildDies(s) ==
  /\ Running(s)
  /\ child[s].conduct = "dies"
  /\ Exits(s)
  /\ UNCHANGED <<up, slot, held, result, lost>>

AfterDrain(s) ==
  /\ held' = held \ {<<s, "outRead">>}
  /\ To(s, "waiting")
  /\ UNCHANGED <<up, child, result, lost>>

DrainEnds(s) ==
  /\ At(s, "draining")
  /\ ~Open(<<s, "outWrite">>)
  /\ AfterDrain(s)

\* A quick child finishes before any deadline unless its input stays open.
Undecided(s) ==
  /\ Running(s)
  /\ child[s].conduct = "quick" => OpenElsewhere(s, <<s, "inWrite">>)
  /\ child[s].conduct # "dies"

DrainTimesOut(s) ==
  /\ At(s, "draining")
  /\ Open(<<s, "outWrite">>)
  /\ Undecided(s) \/ \E t \in Slots \ {s} : <<s, "outWrite">> \in child[t].fds /\ Undecided(t)
  /\ AfterDrain(s)

\* waitpid finds the child ended: its output decides on the answer.
ChildReaped(s) ==
  /\ At(s, "waiting")
  /\ child[s].is = "exited"
  /\ child' = [child EXCEPT ![s] = NoChild]
  /\ Answers(s, IF child[s].conduct = "quick" THEN "answer" ELSE "error")
  /\ To(s, "idle")
  /\ UNCHANGED <<up, held, lost>>

\* Mutant: the child that is out of time is waited for, but not killed.
WaitUnkilled(s) ==
  /\ At(s, "waiting")
  /\ Undecided(s)
  /\ To(s, "reaping")
  /\ UNCHANGED <<up, child, held, result, lost>>

WaitTimesOut(s) ==
  /\ At(s, "waiting")
  /\ Undecided(s)
  /\ Exits(s)                  \* SIGKILL
  /\ To(s, "reaping")
  /\ UNCHANGED <<up, held, result, lost>>

KilledReaped(s) ==
  /\ At(s, "reaping")
  /\ child[s].is = "exited"
  /\ child' = [child EXCEPT ![s] = NoChild]
  /\ Answers(s, "timeout")
  /\ To(s, "idle")
  /\ UNCHANGED <<up, held, lost>>

SlotStep(s) ==
  \/ OpenPipes(s) \/ PipesFail(s) \/ ForkFails(s) \/ PartEnds(s)
  \/ \E conduct \in Conduct : ForkChild(s, conduct)
  \/ FeedChild(s) \/ BrokenPipe(s)
  \/ DrainEnds(s) \/ DrainTimesOut(s)
  \/ ChildReaped(s) \/ WaitTimesOut(s) \/ KilledReaped(s)

ChildStep(s) == ChildAnswers(s) \/ ChildDies(s)

ProcNext ==
  \E s \in Slots :
    \/ \E big \in BOOLEAN : TakeJob(s, big)
    \/ SlotStep(s)
    \/ ChildStep(s)

ProcFairness == \A s \in Slots : WF_procVars(SlotStep(s)) /\ WF_procVars(ChildStep(s))

ProcSpec == ProcInit /\ [][ProcNext]_procVars /\ ProcFairness

-----------------------------------------------------------------------------
ProcTypeOK ==
  /\ up \in BOOLEAN
  /\ slot \in [Slots -> [at : {"idle", "piping", "forking", "parting", "feeding", "draining",
                               "waiting", "reaping"},
                         big : BOOLEAN]]
  /\ child \in [Slots -> [is : {"none", "running", "exited"}, conduct : Conduct,
                          fds : SUBSET (Slots \X Ends)]]
  /\ held \subseteq Slots \X Ends
  /\ result \in [Slots -> {"none", "answer", "error", "timeout"}]
  /\ lost \in 0 .. MaxLost

\* A slot that is between jobs has left nothing behind in the worker: no
\* child to be reaped, no end of a pipe it still has a name for
\* (worker.cpp:270-279, 338-354).
NothingLeftBehind ==
  \A s \in Slots :
    At(s, "idle") => /\ child[s].is = "none"
                     /\ \A e \in Ends : <<s, e>> \notin held

\* A program is reported as timed out only if trust-lsp hung on it, or the
\* child of another slot had inherited an end of its pipes: with one slot, or
\* a fork that never meets another slot's pipes, a quick program is answered
\* (worker.cpp:264-271, 341-351).
TimeoutHasCause ==
  [][\A s \in Slots :
       WaitTimesOut(s) => \/ child[s].conduct = "hangs"
                          \/ \E t \in Slots \ {s} : /\ Running(t)
                                                    /\ <<s, "inWrite">> \in child[t].fds]_procVars

\* A job ends, whatever its child and the children of other slots do, unless
\* the worker dies of SIGPIPE or a program larger than a pipe is written to a
\* child that does not read: write() has no deadline (worker.cpp:341).
JobEnds ==
  \A s \in Slots :
    slot[s].at # "idle" ~>
      \/ slot[s].at = "idle"
      \/ ~up
      \/ slot[s].at = "feeding" /\ slot[s].big /\ child[s].conduct # "quick"
=============================================================================
