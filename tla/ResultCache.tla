---------------------------- MODULE ResultCache -----------------------------
(* The cache of example results: src/playground/result_cache.cpp.  get()   *)
(* is called by POST /run before a job is queued, put() by POST /result;   *)
(* each is one step, under the cache's own mutex.  No two calls read the   *)
(* same instant of the clock, so every call takes one unit of time.  A     *)
(* call reads the clock just before it takes the mutex; both are one step  *)
(* here, so calls take the mutex in the order of their instants.           *)
EXTENDS SteadyClock, FiniteSets, FiniteSetsExt, Functions

CONSTANTS
  Examples,        \* X-Example-Name values
  Programs,        \* bodies of POST /run
  Answers,         \* results of workers
  SizeOf,          \* size of a result
  CacheTtl,        \* cache_ttl_sec, 0 for none
  CacheEntries,    \* cache_max_entries, 0 for no bound
  CacheBytes,      \* cache_max_mb in the unit of SizeOf, 0 for no bound
  CacheHorizon     \* where the clock of an instance stops (bound)

ASSUME CacheAssumption == /\ SizeOf \in [Answers -> Nat]
                          /\ CacheTtl \in Int
                          /\ CacheEntries \in Nat /\ CacheBytes \in Nat

VARIABLES
  cache,           \* cache_: example -> code, result, created, lastAccess
  lastPut          \* history: example -> what was put last, and when

cacheVars == <<now, cache, lastPut>>

CacheInit ==
  /\ now = 0
  /\ cache = << >>
  /\ lastPut = << >>

\* Mutant: a hit renews the lifetime.
OutlivedSinceUse(e) == CacheTtl > 0 /\ now - e.lastAccess >= CacheTtl

Outlived(e) == CacheTtl > 0 /\ now - e.created >= CacheTtl
OnlyKeys(S) == [x \in S |-> cache[x]]

\* The cache is idle for a while.
CacheTick ==
  /\ Tick(CacheHorizon)
  /\ UNCHANGED <<cache, lastPut>>

Hit(x, code) ==
  /\ Tick(CacheHorizon)
  /\ x \in DOMAIN cache
  /\ ~Outlived(cache[x])
  /\ cache[x].code = code
  /\ cache' = [cache EXCEPT ![x].lastAccess = now]
  /\ UNCHANGED lastPut

\* A miss erases an entry that is too old and leaves one of other code alone.
Miss(x, code) ==
  /\ Tick(CacheHorizon)
  /\ x \in DOMAIN cache => Outlived(cache[x]) \/ cache[x].code # code
  /\ cache' = IF x \in DOMAIN cache /\ Outlived(cache[x])
              THEN OnlyKeys(DOMAIN cache \ {x}) ELSE cache
  /\ UNCHANGED lastPut

Bytes(c, S) == SumFunctionOnSet([x \in S |-> SizeOf[c[x].result]], S)
Fits(c, S) == /\ CacheEntries > 0 => Cardinality(S) <= CacheEntries
              /\ CacheBytes > 0 => Bytes(c, S) <= CacheBytes

\* Mutant: the cache is emptied when it overflows.
SurvivorsOrNothing(c) ==
  LET fresh == {x \in DOMAIN c : ~Outlived(c[x])}
  IN  IF Fits(c, fresh) THEN fresh ELSE {}

\* evictLocked: what is too old goes first; then the least recently used
\* entries go, one at a time, until the rest fits.
Survivors(c) ==
  LET fresh == {x \in DOMAIN c : ~Outlived(c[x])}
      newest(t) == {x \in fresh : c[x].lastAccess > t}
      cuts == {t \in {-1} \cup {c[x].lastAccess : x \in fresh} : Fits(c, newest(t))}
  IN  newest(Min(cuts))

Put(x, code, answer) ==
  /\ Tick(CacheHorizon)
  /\ CacheEntries > 0 \/ CacheBytes > 0
  /\ LET put == [y \in DOMAIN cache \cup {x} |->
                   IF y = x THEN [code |-> code, result |-> answer,
                                  created |-> now, lastAccess |-> now]
                   ELSE cache[y]]
     IN  cache' = [y \in Survivors(put) |-> put[y]]
  /\ lastPut' = [y \in DOMAIN lastPut \cup {x} |->
                   IF y = x THEN [code |-> code, result |-> answer, at |-> now]
                   ELSE lastPut[y]]

CacheNext ==
  \/ CacheTick
  \/ \E x \in Examples, code \in Programs :
       \/ Hit(x, code)
       \/ Miss(x, code)
       \/ \E answer \in Answers : Put(x, code, answer)

CacheSpec == CacheInit /\ [][CacheNext]_cacheVars

-----------------------------------------------------------------------------
CacheTypeOK ==
  /\ now \in Nat
  /\ DOMAIN cache \subseteq DOMAIN lastPut
  /\ DOMAIN lastPut \subseteq Examples
  /\ \A x \in DOMAIN cache :
       cache[x] \in [code : Programs, result : Answers, created : Nat, lastAccess : Nat]
  /\ \A x \in DOMAIN lastPut :
       lastPut[x] \in [code : Programs, result : Answers, at : Nat]

\* A request answered from the cache gets the result last put for its
\* example, computed from the very code it sent and younger than the
\* lifetime, whatever was put, evicted or overwritten in between
\* (result_cache.cpp:9-26).
HitIsCurrent ==
  [][\A x \in Examples, code \in Programs :
       Hit(x, code) => /\ cache[x].result = lastPut[x].result
                       /\ code = lastPut[x].code
                       /\ CacheTtl > 0 => now - lastPut[x].at < CacheTtl]_cacheVars

\* Room is made, and without waste: after every put the limits hold, also
\* for an answer larger than the whole budget, and a fresh entry has been
\* evicted only when the put entry and every fresh one used after it do not
\* fit beside it (result_cache.cpp:45-75).
EvictionIsNeeded ==
  [][\A x \in Examples, code \in Programs, answer \in Answers :
       Put(x, code, answer) =>
         /\ Fits(cache', DOMAIN cache')
         /\ \A y \in DOMAIN cache \ (DOMAIN cache' \cup {x}) :
              \/ Outlived(cache[y])
              \/ LET kept == {z \in DOMAIN cache \ {x} : cache[z].lastAccess >= cache[y].lastAccess
                                                       /\ ~Outlived(cache[z])}
                 IN  \/ CacheEntries > 0 /\ Cardinality(kept) >= CacheEntries
                     \/ CacheBytes > 0 /\ SizeOf[answer] + Bytes(cache, kept) > CacheBytes]_cacheVars
=============================================================================
