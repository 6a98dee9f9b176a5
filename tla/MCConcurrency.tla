---------------------------- MODULE MCConcurrency ----------------------------
(* The programs of the repository whose threads share memory, in one run:  *)
(* the connections of the server, the slots of a worker and the guards of  *)
(* a compiled program.  They are different processes, so a behaviour is of *)
(* one of them, chosen at the start.                                       *)
EXTENDS MCThreads, MCSyncLocks

concVars == <<threadVars, vars>>

OfLocks(step) == part = "locks" /\ step /\ UNCHANGED threadVars

ConcInit ==
  /\ part \in {"conns", "slots", "locks"}
  /\ ConnInit /\ ProcInit /\ Init

ConcNext == (ThreadNext /\ UNCHANGED vars) \/ OfLocks(Next)

\* The fairness of ThreadSpec and of FairSpec.
ConcSpec ==
  /\ ConcInit /\ [][ConcNext]_concVars
  /\ \A c \in Conns : WF_concVars(OfConns(ConnStep(c)) /\ UNCHANGED vars)
  /\ \A s \in Slots : /\ WF_concVars(OfSlots(SlotStep(s)) /\ UNCHANGED vars)
                      /\ WF_concVars(OfSlots(ChildStep(s)) /\ UNCHANGED vars)
  /\ \A t \in Threads : WF_concVars(OfLocks(Acquire(t) \/ GiveUp(t)))
=============================================================================
