------------------------------ MODULE Sandbox ------------------------------
(***************************************************************************)
(* What the playground promises a browser: a submitted program is answered *)
(* at most once, and an answer with status 200 is the output of a run of   *)
(* that very program, never of another one and never made up.              *)
(***************************************************************************)
CONSTANTS
  Requests, Results, None,
  OutputsOf   \* the results a run of each request's program may produce

VARIABLES
  phase,      \* of each request: "new", "pending", "answered"
  answer      \* its response, None before

sandboxVars == <<phase, answer>>

Failures == {429, 502, 503}

Responses(r) ==
  [status : {200}, result : OutputsOf[r]]
    \cup [status : Failures, result : {None}]

SandboxInit ==
  /\ phase = [r \in Requests |-> "new"]
  /\ answer = [r \in Requests |-> None]

Submit(r) ==
  /\ phase[r] = "new"
  /\ phase' = [phase EXCEPT ![r] = "pending"]
  /\ UNCHANGED answer

\* A request may be answered at once or after it was pending.
Answer(r) ==
  /\ phase[r] # "answered"
  /\ phase' = [phase EXCEPT ![r] = "answered"]
  /\ \E a \in Responses(r) : answer' = [answer EXCEPT ![r] = a]

SandboxNext == \E r \in Requests : Submit(r) \/ Answer(r)

SandboxSpec == SandboxInit /\ [][SandboxNext]_sandboxVars

=============================================================================
