------------------------------- MODULE Alerts -------------------------------
(***************************************************************************)
(* The e-mail alerts of the balancer: AlertNotifier                        *)
(* (src/src/playground/alert_notifier.cpp) and the places where the        *)
(* balancer calls it, each under mu_ but the refusal of a result.  Time     *)
(* appears as choices: a worker falls silent for 3 poll timeouts, a        *)
(* cooldown ends.                                                          *)
(***************************************************************************)
EXTENDS Integers, FiniteSets

CONSTANTS Workers

Reasons == {"all workers disconnected", "workers reconnected",
            "no workers connected", "queue full", "result body too large"}

VARIABLES
  seen,           \* the worker's last poll: "never", "fresh" or "stale"
  lastConnected,  \* lastConnected_, -1 before the first poll
  cooling,        \* the reasons mailed less than alert_interval_sec ago
  mail            \* the reasons mailed by the last step

vars == <<seen, lastConnected, cooling, mail>>

Init ==
  /\ seen = [w \in Workers |-> "never"]
  /\ lastConnected = -1
  /\ cooling = {}
  /\ mail = {}

Connected(s) == Cardinality({w \in Workers : s[w] = "fresh"})

\* notify: at most one mail per reason and cooldown.
Notify(reasons) ==
  /\ mail' = reasons \ cooling
  /\ cooling' = cooling \cup reasons

\* onWorkerCountChange
CountChange(connected) ==
  /\ lastConnected' = connected
  /\ Notify(IF lastConnected > 0 /\ connected = 0 THEN {"all workers disconnected"}
            ELSE IF lastConnected = 0 /\ connected > 0 THEN {"workers reconnected"}
            ELSE {})

\* handlePoll counts after it has marked its own worker as seen.
Poll(w) ==
  /\ seen' = [seen EXCEPT ![w] = "fresh"]
  /\ CountChange(Connected(seen'))

\* handleRun and handleDownload turn a request away.
TurnAway ==
  /\ \/ Connected(seen) = 0 /\ Notify({"no workers connected"})
     \/ Connected(seen) > 0 /\ Notify({"queue full"})
  /\ UNCHANGED <<seen, lastConnected>>

\* handleResult refuses a body; the worker does not count as seen.
RefuseResult ==
  /\ Notify({"result body too large"})
  /\ UNCHANGED <<seen, lastConnected>>

\* handleResult accepts a body of a known worker.
Result(w) ==
  /\ seen[w] # "never"
  /\ seen' = [seen EXCEPT ![w] = "fresh"]
  /\ mail' = {}
  /\ UNCHANGED <<lastConnected, cooling>>

FallsSilent(w) ==
  /\ seen[w] = "fresh"
  /\ seen' = [seen EXCEPT ![w] = "stale"]
  /\ mail' = {}
  /\ UNCHANGED <<lastConnected, cooling>>

CooldownEnds(reason) ==
  /\ reason \in cooling
  /\ cooling' = cooling \ {reason}
  /\ mail' = {}
  /\ UNCHANGED <<seen, lastConnected>>

Next ==
  \/ \E w \in Workers : Poll(w) \/ Result(w) \/ FallsSilent(w)
  \/ TurnAway \/ RefuseResult
  \/ \E reason \in Reasons : CooldownEnds(reason)

Spec == Init /\ [][Next]_vars

-----------------------------------------------------------------------------
\* A poll that ends an outage, all workers known having been silent, mails that
\* the workers are back, unless such a mail went out within the cooldown
\* (alert_notifier.h:27, README.md section 8).
RecoveryIsReported ==
  [][(/\ \E w \in Workers : seen[w] = "stale"
      /\ \A w \in Workers : seen[w] # "fresh"
      /\ \E w \in Workers : Poll(w))
     => "workers reconnected" \in mail' \cup cooling]_vars

=============================================================================
