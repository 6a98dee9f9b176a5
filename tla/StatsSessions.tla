--------------------------- MODULE StatsSessions ----------------------------
(* Administrator sessions of GET /stats: stats_session_store.cpp and its   *)
(* callers handleStats, handleStatsLogin and handleStatsLogout in          *)
(* server.cpp.  The store has its own mutex, so each call is one step;     *)
(* several browsers may hold the cookie of one session.                    *)
EXTENDS SteadyClock, FiniteSets

CONSTANTS
  SessionIds,      \* identifiers the random generator may return, each once
  SessionTtl,      \* stats_session_ttl_sec
  SessionMax,      \* stats_session_max_sec, 0 for none
  SessionHorizon   \* where the clock of an instance stops (bound)

ASSUME SessionAssumption == SessionTtl \in Int /\ SessionMax \in Int

VARIABLES
  sessions,        \* sessions_: id -> created, lastAccess
  logins,          \* history: id -> when it was created and last let in
  over             \* history: sessions that were refused or logged out

sessionVars == <<now, sessions, logins, over>>

IdleLimit == IF SessionTtl > 0 THEN SessionTtl ELSE 600

SessionInit ==
  /\ now = 0
  /\ sessions = << >>
  /\ logins = << >>
  /\ over = {}

SessionTick ==
  /\ Tick(SessionHorizon)
  /\ UNCHANGED <<sessions, logins, over>>

\* POST /stats/login with the right token.
Login(id) ==
  /\ id \notin DOMAIN logins
  /\ sessions' = [x \in DOMAIN sessions \cup {id} |->
                    IF x = id THEN [created |-> now, lastAccess |-> now] ELSE sessions[x]]
  /\ logins' = [x \in DOMAIN logins \cup {id} |-> IF x = id THEN [at |-> now, visit |-> now] ELSE logins[x]]
  /\ UNCHANGED <<now, over>>

\* Mutant: no greatest age.
StaleWhenIdle(s) == now - s.lastAccess >= IdleLimit

Stale(s) == \/ now - s.lastAccess >= IdleLimit
            \/ SessionMax > 0 /\ now - s.created >= SessionMax

\* Mutant: a visit does not slide the idle limit.
VisitOnly(id) ==
  /\ id \in DOMAIN sessions
  /\ ~Stale(sessions[id])
  /\ logins' = [logins EXCEPT ![id].visit = now]
  /\ UNCHANGED <<now, sessions, over>>

\* ok(): GET /stats with the cookie of a session, let in.
Visit(id) ==
  /\ id \in DOMAIN sessions
  /\ ~Stale(sessions[id])
  /\ sessions' = [sessions EXCEPT ![id].lastAccess = now]
  /\ logins' = [logins EXCEPT ![id].visit = now]
  /\ UNCHANGED <<now, over>>

\* ok(): 403; a stale session is erased.
Forbid(id) ==
  /\ id \in DOMAIN logins
  /\ id \in DOMAIN sessions => Stale(sessions[id])
  /\ sessions' = [x \in DOMAIN sessions \ {id} |-> sessions[x]]
  /\ over' = over \cup {id}
  /\ UNCHANGED <<now, logins>>

Logout(id) ==
  /\ id \in DOMAIN logins
  /\ sessions' = [x \in DOMAIN sessions \ {id} |-> sessions[x]]
  /\ over' = over \cup {id}
  /\ UNCHANGED <<now, logins>>

SessionNext ==
  \/ SessionTick
  \/ \E id \in SessionIds : Login(id) \/ Visit(id) \/ Forbid(id) \/ Logout(id)

SessionSpec == SessionInit /\ [][SessionNext]_sessionVars

-----------------------------------------------------------------------------
SessionTypeOK ==
  /\ now \in Nat
  /\ DOMAIN sessions \subseteq DOMAIN logins
  /\ DOMAIN logins \subseteq SessionIds
  /\ over \subseteq DOMAIN logins
  /\ \A id \in DOMAIN sessions :
       sessions[id] \in [created : Nat, lastAccess : Nat]
  /\ \A id \in DOMAIN logins : logins[id] \in [at : Nat, visit : Nat]

\* A session ends for good and in time: one that was refused or logged out
\* is never let in again, however many browsers still send its cookie, and
\* visits, which slide the idle limit, never carry it past its greatest age
\* after the login (stats_session_store.cpp:16-27, 47-53).
SessionEnds ==
  \A id \in DOMAIN sessions :
    /\ id \notin over
    /\ logins[id].at <= sessions[id].lastAccess
    /\ SessionMax > 0 => sessions[id].lastAccess - logins[id].at < SessionMax

\* Nobody is thrown out early: a session that was never refused nor logged
\* out is refused only after a whole idle limit without a visit or at its
\* greatest age, whatever other sessions expire or end in between
\* (stats_session_store.cpp:20-25).
SessionKept ==
  [][\A id \in DOMAIN logins \ over :
       Forbid(id) => \/ now - logins[id].visit >= IdleLimit
                     \/ SessionMax > 0 /\ now - logins[id].at >= SessionMax]_sessionVars
=============================================================================
