------------------------------ MODULE PowGuard ------------------------------
(* Proof-of-work challenges of POST /run, POST /download and               *)
(* GET /challenge: src/playground/pow_guard.cpp and the callers in         *)
(* server.cpp.  A request reads the difficulty under the dispatcher's      *)
(* mutex (Price) and only later shows its solution (Verify) or is given a  *)
(* new challenge (Issue), both under the guard's own mutex: the load may   *)
(* have changed in between.                                                *)
EXTENDS SteadyClock, Sequences, FiniteSets, FiniteSetsExt, Functions

CONSTANTS
  Nonces,       \* nonces the random generator may return, each once
  Askers,       \* connection threads that need or show a challenge
  PowTtl,       \* pow_nonce_ttl_sec
  PowUses,      \* pow_max_uses_per_nonce
  PowMin,       \* pow_min_difficulty
  PowMax,       \* pow_max_difficulty
  PowQueue,     \* max_queue
  Loads,        \* sizes of queue_ and inFlight_ together
  PowHorizon,   \* where the clock of an instance stops (bound)
  Hashes        \* digests: leading zero bits (0..4) of each nibble in turn

ASSUME PowAssumption == /\ PowTtl \in Int /\ PowUses \in Int
                        /\ PowMin \in Int /\ PowMax \in Int /\ PowQueue \in Nat
                        /\ Loads \subseteq Nat /\ Loads # {}
                        /\ Hashes \subseteq Seq(0 .. 4)

VARIABLES
  challenges,   \* challenges_: nonce -> difficulty, created, uses
  load,         \* queue_.size() + inFlight_.size(), owned by the dispatcher
  asks,         \* asker -> what it is doing and the difficulty it has read
  issued,       \* history: nonce -> when it was issued
  paid,         \* history: nonce -> requests it admitted, and when the last one
  dropped       \* history: nonces a verify erased

powVars == <<now, challenges, load, asks, issued, paid, dropped>>

Lifetime == IF PowTtl > 0 THEN PowTtl ELSE 60
Budget == IF PowUses > 0 THEN PowUses ELSE 1

Surcharge(l) == CASE PowQueue > 0 /\ l >= PowQueue -> 2
                  [] PowQueue > 0 /\ l < PowQueue /\ 2 * l >= PowQueue -> 1
                  [] OTHER -> 0

\* currentPowDifficulty: 0 means that no work is asked for.
Difficulty(l) ==
  IF PowMin <= 0 THEN 0
  ELSE IF PowMin + Surcharge(l) > PowMax THEN PowMax ELSE PowMin + Surcharge(l)

Without(f, S) == [x \in DOMAIN f \ S |-> f[x]]
With(f, x, v) == [y \in DOMAIN f \cup {x} |-> IF y = x THEN v ELSE f[y]]
\* Mutant: one second of the lifetime is missing.
ExpiredEarly(ch) == now + 1 - ch.created >= Lifetime

Expired(ch) == now - ch.created >= Lifetime

\* The loop over the hex digits: it goes on after a digit with any leading
\* zero bit, also when that digit is not zero itself.
Credit(hash, i) == SumFunctionOnSet(hash, 1 .. i)

\* Mutant: one bit more than required.
SolvesStrictly(hash, required) ==
  \E i \in DOMAIN hash : /\ \A j \in 1 .. i - 1 : hash[j] # 0
                         /\ Credit(hash, i) > required

Solves(hash, required) ==
  \E i \in DOMAIN hash : /\ \A j \in 1 .. i - 1 : hash[j] # 0
                         /\ Credit(hash, i) >= required

Idle == [at |-> "idle", diff |-> 0]

PowInit ==
  /\ now = 0
  /\ challenges = << >>
  /\ load \in Loads
  /\ asks = [a \in Askers |-> Idle]
  /\ issued = << >>
  /\ paid = [n \in Nonces |-> [count |-> 0, last |-> 0]]
  /\ dropped = {}

LoadChanges ==
  /\ load' \in Loads \ {load}
  /\ UNCHANGED <<now, challenges, asks, issued, paid, dropped>>

PowTick ==
  /\ Tick(PowHorizon)
  /\ UNCHANGED <<challenges, load, asks, issued, paid, dropped>>

\* A request for /run or /download ("solve") or for /challenge ("issue")
\* reads the difficulty; with none a program needs no challenge.
Price(a, want) ==
  /\ asks[a] = Idle
  /\ PowMin > 0
  /\ want = "solve" => Difficulty(load) > 0
  /\ asks' = [asks EXCEPT ![a] = [at |-> want, diff |-> Difficulty(load)]]
  /\ UNCHANGED <<now, challenges, load, issued, paid, dropped>>

Issue(a) ==
  /\ asks[a].at = "issue"
  /\ \E n \in Nonces \ DOMAIN issued :
       LET all == With(challenges, n, [difficulty |-> asks[a].diff, created |-> now, uses |-> 0])
       IN  /\ challenges' = Without(all, {m \in DOMAIN all : Expired(all[m])})
           /\ issued' = With(issued, n, now)
  /\ asks' = [asks EXCEPT ![a] = Idle]
  /\ UNCHANGED <<now, load, paid, dropped>>

\* Mutant: the uses are counted one too far.
UselessTooLate(n, required) == \/ Expired(challenges[n])
                               \/ challenges[n].difficulty < required
                               \/ challenges[n].uses > Budget

\* verify: an expired, too easy or spent challenge is erased; a wrong
\* solution leaves it in place.
Useless(n, required) == \/ Expired(challenges[n])
                        \/ challenges[n].difficulty < required
                        \/ challenges[n].uses >= Budget

Admit(a, n, hash) ==
  /\ asks[a].at = "solve"
  /\ n \in DOMAIN challenges
  /\ ~Useless(n, asks[a].diff)
  /\ Solves(hash, asks[a].diff)
  /\ challenges' = [challenges EXCEPT ![n].uses = @ + 1]
  /\ paid' = [paid EXCEPT ![n] = [count |-> @.count + 1, last |-> now]]
  /\ asks' = [asks EXCEPT ![a] = Idle]
  /\ UNCHANGED <<now, load, issued, dropped>>

\* 402: the same request is answered with a fresh challenge (Issue).
Reject(a, n, hash) ==
  /\ asks[a].at = "solve"
  /\ \/ /\ n \notin DOMAIN challenges
        /\ UNCHANGED <<challenges, dropped>>
     \/ /\ n \in DOMAIN challenges
        /\ Useless(n, asks[a].diff)
        /\ challenges' = Without(challenges, {n})
        /\ dropped' = dropped \cup {n}
     \/ /\ n \in DOMAIN challenges
        /\ ~Useless(n, asks[a].diff)
        /\ ~Solves(hash, asks[a].diff)
        /\ UNCHANGED <<challenges, dropped>>
  /\ asks' = [asks EXCEPT ![a].at = "issue"]
  /\ UNCHANGED <<now, load, issued, paid>>

PowNext ==
  \/ LoadChanges
  \/ PowTick
  \/ \E a \in Askers :
       \/ \E want \in {"solve", "issue"} : Price(a, want)
       \/ Issue(a)
       \/ \E n \in Nonces, hash \in Hashes : Admit(a, n, hash) \/ Reject(a, n, hash)

PowSpec == PowInit /\ [][PowNext]_powVars

-----------------------------------------------------------------------------
Challenge == [difficulty : Int, created : Nat, uses : Nat]

PowTypeOK ==
  /\ now \in Nat
  /\ load \in Loads
  /\ asks \in [Askers -> [at : {"idle", "solve", "issue"}, diff : Int]]
  /\ DOMAIN challenges \subseteq DOMAIN issued
  /\ DOMAIN issued \subseteq Nonces
  /\ dropped \subseteq DOMAIN issued
  /\ \A n \in DOMAIN challenges : challenges[n] \in Challenge
  /\ \A n \in DOMAIN issued : issued[n] \in Nat
  /\ paid \in [Nonces -> [count : Nat, last : Nat]]

\* A challenge admits at most its budget of requests in its whole life, none
\* before it was issued and none a lifetime or more after that, however the
\* uses of several threads, expiry, rejections and purges interleave
\* (pow_guard.cpp:39-89).
NonceBudget ==
  \A n \in Nonces :
    /\ paid[n].count <= Budget
    /\ paid[n].count > 0 => /\ n \in DOMAIN issued
                            /\ issued[n] <= paid[n].last
                            /\ paid[n].last - issued[n] < Lifetime

\* Work in progress is not lost: until its lifetime is over, a challenge that
\* no verify has erased is still known, although every Issue of any other
\* client sweeps the table (pow_guard.cpp:29-36).
ChallengeKept ==
  \A n \in DOMAIN issued :
    now - issued[n] < Lifetime /\ n \notin dropped => n \in DOMAIN challenges

\* Leading zero bits of a digest, as the comment at pow_guard.cpp:71 counts
\* them: whole zero nibbles, then those of the first other one.
LeadingZeroBits(hash) ==
  LET whole == {i \in 0 .. Len(hash) : \A j \in 1 .. i : hash[j] = 4}
      k == Max(whole)
  IN  4 * k + (IF k < Len(hash) THEN hash[k + 1] ELSE 0)

\* Honest work is never refused: a request with a live, unspent challenge of
\* enough difficulty whose digest begins with the required number of zero
\* bits (pow_guard.cpp:71-72) is not rejected.
HonestWorkAccepted ==
  [][\A a \in Askers, n \in Nonces, hash \in Hashes :
       Reject(a, n, hash) /\ n \in DOMAIN challenges /\ ~Useless(n, asks[a].diff)
         => LeadingZeroBits(hash) < asks[a].diff]_powVars
=============================================================================
