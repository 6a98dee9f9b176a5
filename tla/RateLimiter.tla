---------------------------- MODULE RateLimiter -----------------------------
(* Requests per client address in a sliding window:                        *)
(* src/playground/rate_limiter.cpp.  Each call of exceeded() is one step,  *)
(* under the limiter's own mutex.  The vector of instants of an address is *)
(* only filtered, counted and appended to, so its order is left out: it is *)
(* a set of marks, an instant and a number that tells marks of the same    *)
(* instant apart.                                                          *)
EXTENDS SteadyClock, FiniteSets

CONSTANTS
  Addrs,          \* client addresses
  MaxIps,         \* max_rate_limit_ips
  PerIp,          \* rate_limit_per_ip
  Window,         \* the 60 seconds of the limit
  MaxClearings,   \* clearings of the table in one window (bound)
  RateHorizon     \* where the clock of an instance stops (bound)

ASSUME RateAssumption == /\ MaxIps \in Nat /\ PerIp \in Nat /\ Window \in Nat
                         /\ MaxClearings \in Nat

VARIABLES
  ipHits,         \* address -> marks of its granted requests
  cleared,        \* history: marks, in the window, of clearings of the table
  granted         \* history: address -> marks, in the window, of its grants

rateVars == <<now, ipHits, cleared, granted>>

\* An instant exactly one window old still counts (t < cutoff is erased).
Recent(marks) == {m \in marks : m.at >= now - Window}

Marked(marks) ==
  marks \cup {[at |-> now, no |-> Cardinality({m \in marks : m.at = now})]}

RateInit ==
  /\ now = 0
  /\ ipHits = << >>
  /\ cleared = {}
  /\ granted = [a \in Addrs |-> {}]

RateTick ==
  /\ Tick(RateHorizon)
  /\ UNCHANGED <<ipHits, cleared, granted>>

Full(a) == Cardinality(DOMAIN ipHits) >= MaxIps /\ a \notin DOMAIN ipHits

\* The table once a new address has found it full, or not, and the address
\* has its entry without what has left the window.
Cleaned(a) ==
  LET kept == IF Full(a) THEN << >> ELSE ipHits
  IN  [b \in DOMAIN kept \cup {a} |->
         IF b # a THEN kept[b]
         ELSE IF a \in DOMAIN kept THEN Recent(kept[a]) ELSE {}]

\* What a call does to the history of clearings.
NoteClearing(a) ==
  /\ Full(a) => Cardinality(Recent(cleared)) < MaxClearings
  /\ cleared' = IF Full(a) THEN Marked(Recent(cleared)) ELSE Recent(cleared)

\* Mutant: one request more than the limit.
GrantOneMore(a) ==
  /\ Cardinality(Cleaned(a)[a]) <= PerIp
  /\ ipHits' = [Cleaned(a) EXCEPT ![a] = Marked(@)]
  /\ granted' = [granted EXCEPT ![a] = Marked(Recent(@))]
  /\ NoteClearing(a)
  /\ UNCHANGED now

Grant(a) ==
  /\ Cardinality(Cleaned(a)[a]) < PerIp
  /\ ipHits' = [Cleaned(a) EXCEPT ![a] = Marked(@)]
  /\ granted' = [granted EXCEPT ![a] = Marked(Recent(@))]
  /\ NoteClearing(a)
  /\ UNCHANGED now

\* Mutant: the request is counted before it is judged.
RefuseCounts(a) ==
  /\ Cardinality(Cleaned(a)[a]) >= PerIp
  /\ ipHits' = [Cleaned(a) EXCEPT ![a] = Marked(@)]
  /\ NoteClearing(a)
  /\ UNCHANGED <<now, granted>>

Refuse(a) ==
  /\ Cardinality(Cleaned(a)[a]) >= PerIp
  /\ ipHits' = Cleaned(a)
  /\ NoteClearing(a)
  /\ UNCHANGED <<now, granted>>

RateNext == RateTick \/ \E a \in Addrs : Grant(a) \/ Refuse(a)

RateSpec == RateInit /\ [][RateNext]_rateVars

-----------------------------------------------------------------------------
Marks == [at : Nat, no : Nat]

RateTypeOK ==
  /\ now \in Nat
  /\ cleared \subseteq Marks
  /\ DOMAIN ipHits \subseteq Addrs
  /\ \A a \in DOMAIN ipHits : ipHits[a] \subseteq Marks
  /\ granted \in [Addrs -> SUBSET Marks]

\* No window holds more grants to one address than the limit, once more for
\* every time the table was cleared in it: the only way to exceed the limit
\* is to bring more addresses than the table holds (rate_limiter.cpp:14-24).
WindowBudget ==
  \A a \in Addrs :
    Cardinality(Recent(granted[a])) <= PerIp * (1 + Cardinality(Recent(cleared)))

\* Only a client that used up its limit in this window is refused: neither
\* the requests of others nor its own refused ones count, and clearing the
\* table never takes a request away (rate_limiter.cpp:19-25).
RefusalIsEarned ==
  [][\A a \in Addrs : Refuse(a) => Cardinality(Recent(granted[a])) >= PerIp]_rateVars
=============================================================================
