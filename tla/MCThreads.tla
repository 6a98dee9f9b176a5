------------------------------ MODULE MCThreads ------------------------------
(* Instances of the two places where the playground's processes serve many *)
(* requests with a thread each: the connections of the server and the      *)
(* slots of a worker.  They are in different processes, so a behaviour is  *)
(* of one of them, chosen at the start.                                    *)
EXTENDS Connections, Subprocess, TLC

VARIABLE part

threadVars == <<part, free, used, peak, conn, accepting, top,
                up, slot, child, held, result, lost>>

MCConnLimit == "all" :> 2 @@ "client" :> 2 @@ "worker" :> 1

OfConns(step) == part = "conns" /\ step /\ UNCHANGED <<part, procVars>>
OfSlots(step) == part = "slots" /\ step /\ UNCHANGED <<part, connVars>>

ThreadInit == part \in {"conns", "slots"} /\ ConnInit /\ ProcInit

ThreadNext == OfConns(ConnNext) \/ OfSlots(ProcNext)

ThreadSpec ==
  /\ ThreadInit
  /\ [][ThreadNext]_threadVars
  /\ \A c \in Conns : WF_threadVars(OfConns(ConnStep(c)))
  /\ \A s \in Slots : /\ WF_threadVars(OfSlots(SlotStep(s)))
                      /\ WF_threadVars(OfSlots(ChildStep(s)))

-----------------------------------------------------------------------------
\* Threads are only where the code lets them be, with a pool, a class, a
\* child and open files that belong to their place.
ThreadTypeOK == ConnTypeOK /\ ProcTypeOK
=============================================================================
