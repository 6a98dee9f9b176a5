--------------------------- MODULE FrontDoorProofs ---------------------------
(* Proofs about the guards of the front door: the proof of work, the rate  *)
(* limiter, the sessions of the statistics pages and the result cache, for *)
(* any limits, any clients and any times.                                  *)
EXTENDS PowGuard, RateLimiter, StatsSessions, ResultCache, DataLemmas

-----------------------------------------------------------------------------
(* Proof of work.                                                          *)

\* A challenge that is known remembers when it was issued and counts what it
\* admitted; one that was never issued admitted nothing.
CountsAgree ==
  /\ \A n \in DOMAIN challenges : /\ challenges[n].created = issued[n]
                                  /\ challenges[n].uses = paid[n].count
  /\ \A n \in DOMAIN issued : issued[n] <= now
  /\ \A n \in Nonces \ DOMAIN issued : paid[n].count = 0

PowInv == PowTypeOK /\ CountsAgree /\ NonceBudget /\ ChallengeKept

Asking == [at : {"idle", "solve", "issue"}, diff : Int]

LEMMA PowLimits ==
  /\ Lifetime \in Nat \ {0}
  /\ Budget \in Nat \ {0}
  /\ \A l \in Loads : Difficulty(l) \in Int
BY PowAssumption DEF Lifetime, Budget, Difficulty, Surcharge

LEMMA PowStarts == PowInit => PowInv
<1> SUFFICES ASSUME PowInit PROVE PowInv
  OBVIOUS
<1> USE DEF PowInit
<1>1. DOMAIN challenges = {} /\ DOMAIN issued = {}
  OBVIOUS
<1>2. \A n \in Nonces : paid[n].count = 0
  OBVIOUS
<1>3. PowTypeOK
  BY <1>1 DEF PowTypeOK, Idle
<1>4. CountsAgree /\ NonceBudget /\ ChallengeKept
  BY <1>1, <1>2, PowLimits DEF CountsAgree, NonceBudget, ChallengeKept
<1> QED BY <1>3, <1>4 DEF PowInv

\* Steps that touch neither challenges nor the clock.
LEMMA PowAside ==
  ASSUME PowInv, UNCHANGED <<now, challenges, issued, paid, dropped>>,
         load' \in Loads, asks' \in [Askers -> Asking]
  PROVE  PowInv'
BY DEF PowInv, PowTypeOK, CountsAgree, NonceBudget, ChallengeKept, Expired, Asking

LEMMA PowTickStays == ASSUME PowInv, PowTick PROVE PowInv'
<1> USE DEF PowInv
<1>1. /\ now \in Nat /\ now' = now + 1
      /\ UNCHANGED <<challenges, load, asks, issued, paid, dropped>>
  BY DEF PowTick, Tick, PowTypeOK
<1>2. PowTypeOK'
  BY <1>1 DEF PowTypeOK
<1>3. CountsAgree'
  BY <1>1 DEF CountsAgree, PowTypeOK
<1>4. NonceBudget'
  BY <1>1 DEF NonceBudget
<1>5. ChallengeKept'
  <2> SUFFICES ASSUME NEW n \in DOMAIN issued, now' - issued[n] < Lifetime, n \notin dropped
               PROVE  n \in DOMAIN challenges
    BY <1>1 DEF ChallengeKept
  <2>1. issued[n] \in Nat /\ Lifetime \in Nat
    BY PowLimits DEF PowTypeOK
  <2>2. now - issued[n] < Lifetime
    BY <1>1, <2>1
  <2> QED BY <2>2 DEF ChallengeKept
<1> QED BY <1>2, <1>3, <1>4, <1>5

LEMMA PriceStays == ASSUME PowInv, NEW a \in Askers, NEW want \in {"solve", "issue"}, Price(a, want)
                    PROVE PowInv'
<1>1. load \in Loads /\ asks \in [Askers -> Asking]
  BY DEF PowInv, PowTypeOK, Asking
<1>2. asks' \in [Askers -> Asking]
  BY <1>1, PowLimits DEF Price, Asking
<1> QED BY <1>1, <1>2, PowAside DEF Price

LEMMA LoadStays == ASSUME PowInv, LoadChanges PROVE PowInv'
<1>1. load' \in Loads /\ asks' \in [Askers -> Asking]
  BY DEF LoadChanges, PowInv, PowTypeOK, Asking
<1> QED BY <1>1, PowAside DEF LoadChanges

LEMMA IssueStays == ASSUME PowInv, NEW a \in Askers, Issue(a) PROVE PowInv'
<1> USE DEF PowInv
<1>1. PICK n \in Nonces \ DOMAIN issued :
        LET all == With(challenges, n, [difficulty |-> asks[a].diff, created |-> now, uses |-> 0])
        IN  /\ challenges' = Without(all, {m \in DOMAIN all : Expired(all[m])})
            /\ issued' = With(issued, n, now)
  BY DEF Issue
<1> DEFINE new == [difficulty |-> asks[a].diff, created |-> now, uses |-> 0]
           all == With(challenges, n, new)
<1>2. /\ asks[a].diff \in Int /\ now \in Nat
      /\ DOMAIN challenges \subseteq DOMAIN issued /\ DOMAIN issued \subseteq Nonces
      /\ asks' \in [Askers -> Asking]
      /\ UNCHANGED <<now, load, paid, dropped>>
  BY DEF Issue, PowTypeOK, Idle, Asking
<1>3. /\ DOMAIN all = DOMAIN challenges \cup {n}
      /\ all[n] = new
      /\ \A m \in DOMAIN challenges : all[m] = challenges[m]
  BY <1>2 DEF With
<1>4. /\ DOMAIN issued' = DOMAIN issued \cup {n}
      /\ issued'[n] = now
      /\ \A m \in DOMAIN issued : issued'[m] = issued[m]
  BY <1>1, <1>2 DEF With
<1>5. /\ DOMAIN challenges' = {m \in DOMAIN all : ~Expired(all[m])}
      /\ \A m \in DOMAIN challenges' : challenges'[m] = all[m]
  BY <1>1 DEF Without
<1> HIDE DEF all
<1>6. new \in Challenge /\ new.created = now /\ new.uses = 0
  BY <1>2 DEF Challenge
<1> HIDE DEF new
<1>7. PowTypeOK'
  <2>1. /\ now' \in Nat /\ load' \in Loads
        /\ asks' \in [Askers -> [at : {"idle", "solve", "issue"}, diff : Int]]
        /\ paid' \in [Nonces -> [count : Nat, last : Nat]]
    BY <1>2 DEF PowTypeOK, Asking
  <2>2. /\ DOMAIN challenges' \subseteq DOMAIN issued' /\ DOMAIN issued' \subseteq Nonces
        /\ dropped' \subseteq DOMAIN issued'
    BY <1>2, <1>3, <1>4, <1>5 DEF PowTypeOK
  <2>3. \A m \in DOMAIN challenges' : challenges'[m] \in Challenge
    BY <1>3, <1>5, <1>6 DEF PowTypeOK
  <2>4. \A m \in DOMAIN issued' : issued'[m] \in Nat
    BY <1>2, <1>4 DEF PowTypeOK
  <2> QED BY <2>1, <2>2, <2>3, <2>4 DEF PowTypeOK
<1>8. paid[n].count = 0
  BY DEF CountsAgree
<1>9. CountsAgree'
  <2>1. ASSUME NEW m \in DOMAIN challenges'
        PROVE  challenges'[m].created = issued'[m] /\ challenges'[m].uses = paid'[m].count
    <3>1. CASE m = n
      BY <3>1, <1>2, <1>3, <1>4, <1>5, <1>6, <1>8
    <3>2. CASE m # n
      BY <3>2, <1>2, <1>3, <1>4, <1>5 DEF CountsAgree
    <3> QED BY <3>1, <3>2
  <2>2. \A m \in DOMAIN issued' : issued'[m] <= now'
    BY <1>2, <1>4 DEF CountsAgree
  <2>3. \A m \in Nonces \ DOMAIN issued' : paid'[m].count = 0
    BY <1>2, <1>4 DEF CountsAgree
  <2> QED BY <2>1, <2>2, <2>3 DEF CountsAgree
<1>10. NonceBudget'
  BY <1>2, <1>4, <1>8 DEF NonceBudget
<1>11. ChallengeKept'
  <2> SUFFICES ASSUME NEW m \in DOMAIN issued', now - issued'[m] < Lifetime, m \notin dropped
               PROVE  m \in DOMAIN challenges'
    BY <1>2 DEF ChallengeKept
  <2>1. CASE m = n
    <3>1. all[m].created = issued'[m]
      BY <2>1, <1>3, <1>4, <1>6
    <3>2. ~Expired(all[m])
      BY <3>1, <1>2, <1>4, <2>1, PowLimits DEF Expired
    <3> QED BY <2>1, <3>2, <1>3, <1>5
  <2>2. CASE m # n
    <3>1. m \in DOMAIN issued /\ issued'[m] = issued[m]
      BY <2>2, <1>4
    <3>2. m \in DOMAIN challenges
      BY <3>1 DEF ChallengeKept
    <3>3. all[m].created = issued[m] /\ issued[m] \in Nat
      BY <3>1, <3>2, <1>3 DEF CountsAgree, PowTypeOK
    <3>4. ~Expired(all[m])
      BY <3>1, <3>3, <1>2, PowLimits DEF Expired
    <3> QED BY <3>2, <3>4, <1>3, <1>5
  <2> QED BY <2>1, <2>2
<1> QED BY <1>7, <1>9, <1>10, <1>11

LEMMA AdmitStays ==
  ASSUME PowInv, NEW a \in Askers, NEW n \in Nonces, NEW hash \in Hashes, Admit(a, n, hash)
  PROVE  PowInv'
<1> USE DEF PowInv
<1>1. /\ n \in DOMAIN challenges /\ n \in DOMAIN issued
      /\ challenges[n] \in Challenge /\ issued[n] \in Nat /\ now \in Nat
      /\ paid \in [Nonces -> [count : Nat, last : Nat]]
      /\ asks' \in [Askers -> Asking]
      /\ UNCHANGED <<now, load, issued, dropped>>
  BY DEF Admit, PowTypeOK, Idle, Asking
<1>2. /\ challenges[n].created = issued[n] /\ challenges[n].uses = paid[n].count
      /\ issued[n] <= now
  BY <1>1 DEF CountsAgree
<1>3. now - issued[n] < Lifetime /\ challenges[n].uses < Budget
  BY <1>1, <1>2, PowLimits DEF Admit, Useless, Expired, Challenge
<1>4. /\ DOMAIN challenges' = DOMAIN challenges
      /\ challenges'[n] = [challenges[n] EXCEPT !.uses = @ + 1]
      /\ \A m \in DOMAIN challenges \ {n} : challenges'[m] = challenges[m]
  BY <1>1 DEF Admit
<1>5. /\ challenges'[n] \in Challenge
      /\ challenges'[n].created = issued[n]
      /\ challenges'[n].uses = paid[n].count + 1
  BY <1>1, <1>2, <1>4 DEF Challenge
<1>6. /\ paid' \in [Nonces -> [count : Nat, last : Nat]]
      /\ paid'[n].count = paid[n].count + 1 /\ paid'[n].last = now
      /\ \A m \in Nonces \ {n} : paid'[m] = paid[m]
  BY <1>1 DEF Admit
<1>7. PowTypeOK'
  <2>1. \A m \in DOMAIN challenges' : challenges'[m] \in Challenge
    BY <1>4, <1>5 DEF PowTypeOK
  <2> QED BY <2>1, <1>1, <1>4, <1>6 DEF PowTypeOK, Asking
<1>8. CountsAgree'
  <2>1. DOMAIN challenges \subseteq Nonces
    BY DEF PowTypeOK
  <2>2. \A m \in DOMAIN challenges' : /\ challenges'[m].created = issued'[m]
                                      /\ challenges'[m].uses = paid'[m].count
    BY <2>1, <1>1, <1>4, <1>5, <1>6 DEF CountsAgree
  <2> QED BY <2>2, <1>1, <1>6 DEF CountsAgree
<1>9. NonceBudget'
  <2> SUFFICES ASSUME NEW m \in Nonces
      PROVE  /\ paid'[m].count <= Budget
             /\ paid'[m].count > 0 => /\ m \in DOMAIN issued
                                      /\ issued[m] <= paid'[m].last
                                      /\ paid'[m].last - issued[m] < Lifetime
    BY <1>1 DEF NonceBudget
  <2>1. CASE m = n
    <3>1. paid[n].count + 1 <= Budget
      BY <1>1, <1>2, <1>3, PowLimits
    <3> QED BY <2>1, <3>1, <1>1, <1>2, <1>3, <1>6
  <2>2. CASE m # n
    BY <2>2, <1>6 DEF NonceBudget
  <2> QED BY <2>1, <2>2
<1>10. ChallengeKept'
  BY <1>1, <1>4 DEF ChallengeKept
<1> QED BY <1>7, <1>8, <1>9, <1>10

LEMMA RejectStays ==
  ASSUME PowInv, NEW a \in Askers, NEW n \in Nonces, NEW hash \in Hashes, Reject(a, n, hash)
  PROVE  PowInv'
<1> USE DEF PowInv
<1>1. /\ asks' \in [Askers -> Asking] /\ load' \in Loads
      /\ UNCHANGED <<now, load, issued, paid>>
  BY DEF Reject, PowTypeOK, Asking
<1>2. CASE UNCHANGED <<challenges, dropped>>
  BY <1>1, <1>2, PowAside
<1>3. CASE /\ n \in DOMAIN challenges
           /\ challenges' = Without(challenges, {n})
           /\ dropped' = dropped \cup {n}
  <2>1. /\ DOMAIN challenges' = DOMAIN challenges \ {n}
        /\ \A m \in DOMAIN challenges' : challenges'[m] = challenges[m]
    BY <1>3 DEF Without
  <2>2. PowTypeOK'
    BY <1>1, <1>3, <2>1 DEF PowTypeOK, Asking
  <2>3. CountsAgree' /\ NonceBudget'
    BY <1>1, <1>3, <2>1 DEF CountsAgree, NonceBudget
  <2>4. ChallengeKept'
    BY <1>1, <1>3, <2>1 DEF ChallengeKept
  <2> QED BY <2>2, <2>3, <2>4
<1> QED BY <1>2, <1>3 DEF Reject

LEMMA PowStays == PowInv /\ [PowNext]_powVars => PowInv'
<1> SUFFICES ASSUME PowInv, [PowNext]_powVars PROVE PowInv'
  OBVIOUS
<1>1. CASE UNCHANGED powVars
  BY <1>1, PowAside DEF powVars, PowInv, PowTypeOK, Asking
<1>2. CASE PowNext
  BY <1>2, LoadStays, PowTickStays, PriceStays, IssueStays, AdmitStays, RejectStays DEF PowNext
<1> QED BY <1>1, <1>2

\* Challenges, their readers and their history stay well typed.
THEOREM PowTypes == PowSpec => []PowTypeOK
<1>1. PowInv => PowTypeOK
  BY DEF PowInv
<1> QED BY <1>1, PowStarts, PowStays, PTL DEF PowSpec

\* No interleaving of any number of clients makes a challenge admit more than
\* its budget or outlive its lifetime (pow_guard.cpp:39-89).
THEOREM BudgetsHold == PowSpec => []NonceBudget
<1>1. PowInv => NonceBudget
  BY DEF PowInv
<1> QED BY <1>1, PowStarts, PowStays, PTL DEF PowSpec

\* The sweeps of other clients never lose a challenge that is being worked on
\* (pow_guard.cpp:29-36).
THEOREM ChallengesAreKept == PowSpec => []ChallengeKept
<1>1. PowInv => ChallengeKept
  BY DEF PowInv
<1> QED BY <1>1, PowStarts, PowStays, PTL DEF PowSpec

LEMMA OnePlaceMore ==
  ASSUME NEW n \in Nat
  PROVE  /\ IsFiniteSet(1 .. n + 1) /\ n + 1 \in 1 .. n + 1
         /\ (1 .. n + 1) \ {n + 1} = 1 .. n
<1>1. IsFiniteSet(1 .. n + 1)
  <2>1. 1 \in Int /\ n + 1 \in Int
    OBVIOUS
  <2> QED BY <2>1, FS_Interval
<1>2. ASSUME NEW i PROVE i \in (1 .. n + 1) \ {n + 1} <=> i \in 1 .. n
  OBVIOUS
<1>3. (1 .. n + 1) \ {n + 1} = 1 .. n
  BY <1>2
<1> QED BY <1>1, <1>3

\* The credit of whole zero nibbles is four for each.
LEMMA CreditOfZeros ==
  ASSUME NEW hash \in Seq(0 .. 4), NEW n \in 0 .. Len(hash), \A j \in 1 .. n : hash[j] = 4
  PROVE  Credit(hash, n) = 4 * n
<1> DEFINE T == {m \in Nat : m <= n => Credit(hash, m) = 4 * m}
<1>1. 0 \in T
  <2>1. 1 .. 0 = {} /\ IsFiniteSet({})
    BY FS_EmptySet
  <2>2. SumFunctionOnSet(hash, {}) = 0
    BY <2>1, SumUnfolds
  <2> QED BY <2>1, <2>2 DEF Credit
<1>2. ASSUME NEW m \in Nat, m \in T PROVE m + 1 \in T
  <2> SUFFICES ASSUME m + 1 <= n PROVE Credit(hash, m + 1) = 4 * (m + 1)
    OBVIOUS
  <2>1. IsFiniteSet(1 .. m + 1) /\ m + 1 \in 1 .. m + 1 /\ (1 .. m + 1) \ {m + 1} = 1 .. m
    BY OnePlaceMore
  <2>2. \A j \in 1 .. m + 1 : hash[j] = 4 /\ hash[j] \in Nat
    OBVIOUS
  <2>3. SumFunctionOnSet(hash, 1 .. m + 1) = hash[m + 1] + SumFunctionOnSet(hash, 1 .. m)
    <3> DEFINE places == 1 .. m + 1
    <3>1. IsFiniteSet(places) /\ m + 1 \in places /\ \A j \in places : hash[j] \in Nat
      BY <2>1, <2>2
    <3> HIDE DEF places
    <3>2. SumFunctionOnSet(hash, places) = hash[m + 1] + SumFunctionOnSet(hash, places \ {m + 1})
      BY <3>1, SumTakesOut
    <3> QED BY <2>1, <3>2 DEF places
  <2>4. SumFunctionOnSet(hash, 1 .. m) = 4 * m /\ hash[m + 1] = 4
    BY <1>2, <2>2 DEF Credit
  <2> QED BY <2>3, <2>4 DEF Credit
<1>3. n \in T
  <2> HIDE DEF T
  <2> QED BY <1>1, <1>2, ByInduction
<1> QED BY <1>3

LEMMA ZeroBitsAreNumber == ASSUME NEW hash \in Seq(0 .. 4) PROVE LeadingZeroBits(hash) \in Nat
<1> DEFINE whole == {i \in 0 .. Len(hash) : \A j \in 1 .. i : hash[j] = 4}
           k == Max(whole)
<1>1. whole \subseteq Int /\ 0 \in whole /\ Len(hash) \in Int /\ \A i \in whole : i <= Len(hash)
  OBVIOUS
<1>2. k \in whole
  <2> HIDE DEF whole
  <2> QED BY <1>1, MaxIsGreatest
<1>3. LeadingZeroBits(hash) = 4 * k + (IF k < Len(hash) THEN hash[k + 1] ELSE 0)
  BY DEF LeadingZeroBits
<1>4. k \in 0 .. Len(hash)
  BY <1>2
<1> HIDE DEF k
<1> QED BY <1>3, <1>4

\* A digest with leading zero bits enough, and some are asked for, is a solution.
LEMMA ZeroBitsSolve ==
  ASSUME NEW hash \in Seq(0 .. 4), NEW required \in Int, required > 0,
         LeadingZeroBits(hash) >= required
  PROVE  Solves(hash, required)
<1> DEFINE whole == {i \in 0 .. Len(hash) : \A j \in 1 .. i : hash[j] = 4}
           k == Max(whole)
<1>0. DOMAIN hash = 1 .. Len(hash)
  OBVIOUS
<1>1. Len(hash) \in Nat
  OBVIOUS
<1>2. whole \subseteq Int /\ 0 \in whole /\ Len(hash) \in Int /\ \A i \in whole : i <= Len(hash)
  BY <1>1
<1>3. k \in whole
  <2> HIDE DEF whole
  <2> QED BY <1>2, MaxIsGreatest
<1>4. LeadingZeroBits(hash) = 4 * k + (IF k < Len(hash) THEN hash[k + 1] ELSE 0)
  BY DEF LeadingZeroBits
<1>5. PICK z \in Nat : z = k /\ z <= Len(hash) /\ \A j \in 1 .. z : hash[j] = 4
  <2>1. k \in 0 .. Len(hash) /\ \A j \in 1 .. k : hash[j] = 4
    BY <1>3
  <2> HIDE DEF k
  <2> QED BY <1>1, <2>1
<1>6. Credit(hash, z) = 4 * z
  BY <1>1, <1>5, CreditOfZeros
<1> HIDE DEF k, whole
<1>7. CASE z < Len(hash)
  <2>0. z + 1 \in 1 .. Len(hash)
    BY <1>1, <1>5, <1>7
  <2>1. z + 1 \in DOMAIN hash /\ hash[z + 1] \in Nat /\ \A j \in 1 .. z : hash[j] # 0
    BY <1>0, <1>5, <2>0
  <2>2. Credit(hash, z + 1) = hash[z + 1] + Credit(hash, z)
    <3> DEFINE places == 1 .. z + 1
    <3>1. IsFiniteSet(places) /\ z + 1 \in places /\ places \ {z + 1} = 1 .. z
      BY <1>5, OnePlaceMore
    <3>0. \A j \in places : hash[j] \in Nat
      BY <1>1, <1>5, <1>7
    <3> HIDE DEF places
    <3>2. SumFunctionOnSet(hash, places) = hash[z + 1] + SumFunctionOnSet(hash, places \ {z + 1})
      BY <3>0, <3>1, SumTakesOut
    <3> QED BY <3>1, <3>2 DEF Credit, places
  <2>3. Credit(hash, z + 1) >= required
    BY <1>4, <1>5, <1>6, <1>7, <2>1, <2>2
  <2>4. z + 1 - 1 = z
    OBVIOUS
  <2> QED BY <2>1, <2>3, <2>4 DEF Solves
<1>8. CASE ~ (z < Len(hash))
  <2>1. z = Len(hash) /\ z \in Nat
    BY <1>1, <1>5, <1>8
  <2>3. LeadingZeroBits(hash) = 4 * z + 0
    BY <1>4, <1>5, <1>8
  <2>4. 4 * z >= required
    BY <2>1, <2>3
  <2>2. z \in DOMAIN hash /\ \A j \in 1 .. z - 1 : hash[j] # 0
    <3>1. z \in 1 .. Len(hash)
      BY <2>1, <2>4
    <3>2. \A j \in 1 .. z - 1 : j \in 1 .. z
      BY <2>1
    <3> QED BY <1>0, <1>5, <3>1, <3>2
  <2> QED BY <1>6, <2>1, <2>2, <2>4 DEF Solves
<1> QED BY <1>7, <1>8

\* Who shows a solution was asked for some work.
WorkIsAsked == \A a \in Askers : asks[a].at = "solve" => asks[a].diff > 0
PriceInv == PowTypeOK /\ WorkIsAsked

LEMMA PriceStarts == PowInit => PriceInv
BY PowStarts DEF PriceInv, PowInv, WorkIsAsked, PowInit, Idle

LEMMA PricesStay == PowInv /\ PriceInv /\ [PowNext]_powVars => PriceInv'
<1> SUFFICES ASSUME PowInv, PriceInv, [PowNext]_powVars PROVE PriceInv'
  OBVIOUS
<1>1. PowTypeOK'
  BY PowStays DEF PowInv
<1>2. asks \in [Askers -> Asking]
  BY DEF PriceInv, PowTypeOK, Asking
<1> SUFFICES WorkIsAsked'
  BY <1>1 DEF PriceInv
<1>3. CASE UNCHANGED asks
  BY <1>3 DEF PriceInv, WorkIsAsked
<1>4. ASSUME NEW a \in Askers, NEW want \in {"solve", "issue"}, Price(a, want)
      PROVE  WorkIsAsked'
  BY <1>2, <1>4 DEF Price, PriceInv, WorkIsAsked
<1>5. ASSUME NEW a \in Askers, NEW other \in {"idle", "issue"},
             \A b \in Askers \ {a} : asks'[b] = asks[b], asks'[a].at = other
      PROVE  WorkIsAsked'
  BY <1>5 DEF PriceInv, WorkIsAsked
<1>6. ASSUME NEW a \in Askers, Issue(a) PROVE WorkIsAsked'
  <2>1. asks'[a].at = "idle" /\ \A b \in Askers \ {a} : asks'[b] = asks[b]
    BY <1>2, <1>6 DEF Issue, Idle
  <2> QED BY <1>5, <2>1
<1>7. ASSUME NEW a \in Askers, NEW n \in Nonces, NEW hash \in Hashes, Admit(a, n, hash)
      PROVE  WorkIsAsked'
  <2>1. asks'[a].at = "idle" /\ \A b \in Askers \ {a} : asks'[b] = asks[b]
    BY <1>2, <1>7 DEF Admit, Idle
  <2> QED BY <1>5, <2>1
<1>8. ASSUME NEW a \in Askers, NEW n \in Nonces, NEW hash \in Hashes, Reject(a, n, hash)
      PROVE  WorkIsAsked'
  <2>1. asks'[a].at = "issue" /\ \A b \in Askers \ {a} : asks'[b] = asks[b]
    BY <1>2, <1>8 DEF Reject, Asking
  <2> QED BY <1>5, <2>1
<1>9. CASE LoadChanges \/ PowTick
  BY <1>3, <1>9 DEF LoadChanges, PowTick
<1> QED BY <1>3, <1>4, <1>6, <1>7, <1>8, <1>9 DEF PowNext, powVars

\* A request with a live, unspent challenge of enough difficulty is rejected
\* only when its digest has fewer leading zero bits than asked for, for every
\* digest of any length (pow_guard.cpp:71-89).
THEOREM HonestWorkIsAccepted == PowSpec => HonestWorkAccepted
<1> DEFINE Accepted == \A a \in Askers, n \in Nonces, hash \in Hashes :
       Reject(a, n, hash) /\ n \in DOMAIN challenges /\ ~Useless(n, asks[a].diff)
         => LeadingZeroBits(hash) < asks[a].diff
<1>1. PriceInv /\ [PowNext]_powVars => [Accepted]_powVars
  <2> SUFFICES ASSUME PriceInv, NEW a \in Askers, NEW n \in Nonces, NEW hash \in Hashes,
                      Reject(a, n, hash), n \in DOMAIN challenges, ~Useless(n, asks[a].diff)
               PROVE  LeadingZeroBits(hash) < asks[a].diff
    OBVIOUS
  <2>1. ~Solves(hash, asks[a].diff) /\ asks[a].at = "solve"
    BY DEF Reject
  <2>2. asks[a].diff \in Int /\ asks[a].diff > 0 /\ hash \in Seq(0 .. 4)
    BY <2>1, PowAssumption DEF PriceInv, PowTypeOK, WorkIsAsked
  <2>3. ~(LeadingZeroBits(hash) >= asks[a].diff)
    BY <2>1, <2>2, ZeroBitsSolve
  <2>4. LeadingZeroBits(hash) \in Int
    BY <2>2, ZeroBitsAreNumber
  <2> QED BY <2>2, <2>3, <2>4
<1> QED BY <1>1, PowStarts, PowStays, PriceStarts, PricesStay, PTL DEF PowSpec, HonestWorkAccepted

-----------------------------------------------------------------------------
(* Sessions of the statistics pages.                                       *)

\* What the store knows of a live session is what happened to it.
SessionsAgree ==
  \A id \in DOMAIN sessions : /\ sessions[id].created = logins[id].at
                             /\ sessions[id].lastAccess = logins[id].visit
                             /\ sessions[id].lastAccess <= now

\* A session that is over or was never logged in is not in the store; one
\* that is neither refused nor logged out is.
OnlyLive == DOMAIN sessions = DOMAIN logins \ over

SessionInv == SessionTypeOK /\ SessionsAgree /\ OnlyLive /\ SessionEnds

LEMMA SessionsStart == SessionInit => SessionInv
<1> SUFFICES ASSUME SessionInit PROVE SessionInv
  OBVIOUS
<1>1. now = 0 /\ DOMAIN sessions = {} /\ DOMAIN logins = {} /\ over = {}
  BY DEF SessionInit
<1> QED BY <1>1 DEF SessionInv, SessionTypeOK, SessionsAgree, OnlyLive, SessionEnds

LEMMA SessionTickStays == ASSUME SessionInv, SessionTick PROVE SessionInv'
<1>1. now \in Nat /\ now' = now + 1 /\ UNCHANGED <<sessions, logins, over>>
  BY DEF SessionTick, Tick, SessionInv, SessionTypeOK
<1> QED BY <1>1 DEF SessionInv, SessionTypeOK, SessionsAgree, OnlyLive, SessionEnds

LEMMA LoginStays == ASSUME SessionInv, NEW id \in SessionIds, Login(id) PROVE SessionInv'
<1> USE DEF SessionInv
<1>1. /\ id \notin DOMAIN logins /\ id \notin over /\ now \in Nat
      /\ UNCHANGED <<now, over>>
  BY DEF Login, SessionTypeOK
<1>2. /\ DOMAIN sessions' = DOMAIN sessions \cup {id}
      /\ sessions'[id] = [created |-> now, lastAccess |-> now]
      /\ \A x \in DOMAIN sessions : x # id /\ sessions'[x] = sessions[x]
  BY <1>1 DEF Login, SessionTypeOK
<1>3. /\ DOMAIN logins' = DOMAIN logins \cup {id}
      /\ logins'[id] = [at |-> now, visit |-> now]
      /\ \A x \in DOMAIN logins : x # id /\ logins'[x] = logins[x]
  BY <1>1 DEF Login
<1>4. SessionTypeOK'
  BY <1>1, <1>2, <1>3 DEF SessionTypeOK
<1>5. SessionsAgree'
  BY <1>1, <1>2, <1>3 DEF SessionsAgree, SessionTypeOK
<1>6. OnlyLive'
  BY <1>1, <1>2, <1>3 DEF OnlyLive
<1>7. SessionEnds'
  <2>1. SessionMax \in Int
    BY SessionAssumption
  <2>2. ASSUME NEW x \in DOMAIN sessions
        PROVE  /\ x \notin over
               /\ logins'[x].at <= sessions'[x].lastAccess
               /\ SessionMax > 0 => sessions'[x].lastAccess - logins'[x].at < SessionMax
    BY <1>2, <1>3 DEF SessionEnds, SessionTypeOK
  <2>3. /\ logins'[id].at <= sessions'[id].lastAccess
        /\ SessionMax > 0 => sessions'[id].lastAccess - logins'[id].at < SessionMax
    BY <2>1, <1>1, <1>2, <1>3
  <2> QED BY <2>2, <2>3, <1>1, <1>2 DEF SessionEnds
<1> QED BY <1>4, <1>5, <1>6, <1>7

LEMMA VisitStays == ASSUME SessionInv, NEW id \in SessionIds, Visit(id) PROVE SessionInv'
<1> USE DEF SessionInv
<1>1. /\ id \in DOMAIN sessions /\ id \in DOMAIN logins /\ now \in Nat
      /\ UNCHANGED <<now, over>>
      /\ sessions[id] \in [created : Nat, lastAccess : Nat]
      /\ logins[id] \in [at : Nat, visit : Nat]
  BY DEF Visit, SessionTypeOK
<1>2. /\ DOMAIN sessions' = DOMAIN sessions
      /\ sessions'[id] = [created |-> sessions[id].created, lastAccess |-> now]
      /\ \A x \in DOMAIN sessions \ {id} : sessions'[x] = sessions[x]
  BY <1>1 DEF Visit
<1>3. /\ DOMAIN logins' = DOMAIN logins
      /\ logins'[id] = [at |-> logins[id].at, visit |-> now]
      /\ \A x \in DOMAIN logins \ {id} : logins'[x] = logins[x]
  BY <1>1 DEF Visit
<1>4. SessionTypeOK'
  BY <1>1, <1>2, <1>3 DEF SessionTypeOK
<1>5. SessionsAgree'
  BY <1>1, <1>2, <1>3 DEF SessionsAgree, SessionTypeOK
<1>6. OnlyLive'
  BY <1>1, <1>2, <1>3 DEF OnlyLive
<1>7. SessionEnds'
  <2>1. logins[id].at <= now
    BY <1>1 DEF SessionEnds, SessionsAgree, SessionTypeOK
  <2>2. SessionMax > 0 => now - logins[id].at < SessionMax
    BY <1>1, SessionAssumption DEF Visit, Stale, SessionsAgree
  <2> QED BY <2>1, <2>2, <1>1, <1>2, <1>3 DEF SessionEnds, SessionTypeOK
<1> QED BY <1>4, <1>5, <1>6, <1>7

LEMMA SessionGoes ==
  ASSUME SessionInv, NEW id \in SessionIds, id \in DOMAIN logins,
         sessions' = [x \in DOMAIN sessions \ {id} |-> sessions[x]],
         over' = over \cup {id}, UNCHANGED <<now, logins>>
  PROVE  SessionInv'
<1>1. /\ DOMAIN sessions' = DOMAIN sessions \ {id}
      /\ \A x \in DOMAIN sessions \ {id} : sessions'[x] = sessions[x]
  OBVIOUS
<1> QED BY <1>1 DEF SessionInv, SessionTypeOK, SessionsAgree, OnlyLive, SessionEnds

LEMMA SessionsStay == SessionInv /\ [SessionNext]_sessionVars => SessionInv'
<1> SUFFICES ASSUME SessionInv, [SessionNext]_sessionVars PROVE SessionInv'
  OBVIOUS
<1>1. CASE UNCHANGED sessionVars
  BY <1>1 DEF sessionVars, SessionInv, SessionTypeOK, SessionsAgree, OnlyLive, SessionEnds
<1>2. CASE SessionTick
  BY <1>2, SessionTickStays
<1>3. ASSUME NEW id \in SessionIds, Login(id) \/ Visit(id) \/ Forbid(id) \/ Logout(id)
      PROVE  SessionInv'
  <2>1. CASE Login(id) \/ Visit(id)
    BY <2>1, LoginStays, VisitStays
  <2>2. CASE Forbid(id) \/ Logout(id)
    BY <2>2, SessionGoes DEF Forbid, Logout
  <2> QED BY <1>3, <2>1, <2>2
<1> QED BY <1>1, <1>2, <1>3 DEF SessionNext

\* A session that was refused or logged out is never let in again and none
\* outlives its greatest age (stats_session_store.cpp:11-28, 47-53).
THEOREM SessionsEnd == SessionSpec => []SessionEnds
<1>1. SessionInv => SessionEnds
  BY DEF SessionInv
<1> QED BY <1>1, SessionsStart, SessionsStay, PTL DEF SessionSpec

\* Only a session that was idle for the whole limit or reached its greatest
\* age is refused unasked (stats_session_store.cpp:20-25).
THEOREM SessionsAreKept == SessionSpec => SessionKept
<1> DEFINE Kept == \A id \in DOMAIN logins \ over :
                     Forbid(id) => \/ now - logins[id].visit >= IdleLimit
                                   \/ SessionMax > 0 /\ now - logins[id].at >= SessionMax
<1>1. SessionInv /\ [SessionNext]_sessionVars => [Kept]_sessionVars
  <2> SUFFICES ASSUME SessionInv, NEW id \in DOMAIN logins \ over, Forbid(id)
               PROVE  \/ now - logins[id].visit >= IdleLimit
                      \/ SessionMax > 0 /\ now - logins[id].at >= SessionMax
    OBVIOUS
  <2>1. id \in DOMAIN sessions
    BY DEF SessionInv, OnlyLive
  <2> QED BY <2>1 DEF Forbid, Stale, SessionInv, SessionsAgree
<1> QED BY <1>1, SessionsStart, SessionsStay, PTL DEF SessionSpec, SessionKept

-----------------------------------------------------------------------------
(* The result cache.                                                       *)

\* An entry is what was last put for its example.
EntriesAreLast ==
  /\ now \in Nat
  /\ \A x \in DOMAIN cache : /\ x \in DOMAIN lastPut
                             /\ cache[x].code = lastPut[x].code
                             /\ cache[x].result = lastPut[x].result
                             /\ cache[x].created = lastPut[x].at
                             /\ lastPut[x].at \in Nat

LEMMA EntriesStart == CacheInit => EntriesAreLast
<1> SUFFICES ASSUME CacheInit PROVE EntriesAreLast
  OBVIOUS
<1>1. now = 0 /\ DOMAIN cache = {}
  BY DEF CacheInit
<1> QED BY <1>1 DEF EntriesAreLast

LEMMA SurvivorsAreEntries == ASSUME NEW c PROVE Survivors(c) \subseteq DOMAIN c
BY DEF Survivors

LEMMA PutStays ==
  ASSUME EntriesAreLast, NEW x \in Examples, NEW code \in Programs, NEW answer \in Answers,
         Put(x, code, answer)
  PROVE  EntriesAreLast'
<1> DEFINE put == [y \in DOMAIN cache \cup {x} |->
                     IF y = x THEN [code |-> code, result |-> answer,
                                    created |-> now, lastAccess |-> now]
                     ELSE cache[y]]
<1>1. /\ DOMAIN put = DOMAIN cache \cup {x}
      /\ put[x].code = code /\ put[x].result = answer /\ put[x].created = now
      /\ \A y \in DOMAIN cache \ {x} : put[y] = cache[y]
  OBVIOUS
<1>2. cache' = [y \in Survivors(put) |-> put[y]]
  BY DEF Put
<1> HIDE DEF put
<1>3. /\ DOMAIN cache' \subseteq DOMAIN cache \cup {x}
      /\ \A y \in DOMAIN cache' : cache'[y] = put[y]
  BY <1>1, <1>2, SurvivorsAreEntries
<1>4. /\ DOMAIN lastPut' = DOMAIN lastPut \cup {x}
      /\ lastPut'[x].code = code /\ lastPut'[x].result = answer /\ lastPut'[x].at = now
      /\ \A y \in DOMAIN lastPut \ {x} : lastPut'[y] = lastPut[y]
  BY DEF Put
<1>0. now' \in Nat
  BY DEF Put, Tick, EntriesAreLast
<1> SUFFICES ASSUME NEW y \in DOMAIN cache'
    PROVE  /\ y \in DOMAIN lastPut'
           /\ cache'[y].code = lastPut'[y].code
           /\ cache'[y].result = lastPut'[y].result
           /\ cache'[y].created = lastPut'[y].at
           /\ lastPut'[y].at \in Nat
  BY <1>0 DEF EntriesAreLast
<1>5. CASE y = x
  BY <1>5, <1>1, <1>3, <1>4 DEF EntriesAreLast
<1>6. CASE y # x
  BY <1>6, <1>1, <1>3, <1>4 DEF EntriesAreLast
<1> QED BY <1>5, <1>6

LEMMA EntriesStay == EntriesAreLast /\ [CacheNext]_cacheVars => EntriesAreLast'
<1> SUFFICES ASSUME EntriesAreLast, [CacheNext]_cacheVars PROVE EntriesAreLast'
  OBVIOUS
<1>1. CASE UNCHANGED cacheVars
  BY <1>1 DEF cacheVars, EntriesAreLast
<1>2. CASE CacheTick
  BY <1>2 DEF CacheTick, Tick, EntriesAreLast
<1>3. ASSUME NEW x \in Examples, NEW code \in Programs, Hit(x, code) PROVE EntriesAreLast'
  BY <1>3 DEF Hit, Tick, EntriesAreLast
<1>4. ASSUME NEW x \in Examples, NEW code \in Programs, Miss(x, code) PROVE EntriesAreLast'
  BY <1>4 DEF Miss, Tick, OnlyKeys, EntriesAreLast
<1> QED BY <1>1, <1>2, <1>3, <1>4, PutStays DEF CacheNext

\* A hit returns what was last put for the example, for the code of the
\* request and within its lifetime (result_cache.cpp:9-26).
THEOREM HitsAreCurrent == CacheSpec => HitIsCurrent
<1> DEFINE Current == \A x \in Examples, code \in Programs :
              Hit(x, code) => /\ cache[x].result = lastPut[x].result
                              /\ code = lastPut[x].code
                              /\ CacheTtl > 0 => now - lastPut[x].at < CacheTtl
<1>1. EntriesAreLast /\ [CacheNext]_cacheVars => [Current]_cacheVars
  <2> SUFFICES ASSUME EntriesAreLast, [CacheNext]_cacheVars, ~UNCHANGED cacheVars,
                      NEW x \in Examples, NEW code \in Programs, Hit(x, code)
               PROVE  /\ cache[x].result = lastPut[x].result
                      /\ code = lastPut[x].code
                      /\ CacheTtl > 0 => now - lastPut[x].at < CacheTtl
    OBVIOUS
  <2> QED BY CacheAssumption DEF Hit, Outlived, EntriesAreLast
<1> QED BY <1>1, EntriesStart, EntriesStay, PTL DEF CacheSpec, HitIsCurrent

-----------------------------------------------------------------------------
(* What a put evicts.                                                      *)

Entry == [code : Programs, result : Answers, created : Nat, lastAccess : Nat]

\* The cache is finite and nothing in it was used in the future.
CacheInv ==
  /\ CacheTypeOK
  /\ IsFiniteSet(DOMAIN cache)
  /\ \A x \in DOMAIN cache : cache[x].lastAccess < now

LEMMA CacheStarts == CacheInit => CacheInv
<1> SUFFICES ASSUME CacheInit PROVE CacheInv
  OBVIOUS
<1>1. now = 0 /\ DOMAIN cache = {} /\ DOMAIN lastPut = {}
  BY DEF CacheInit
<1> QED BY <1>1, FS_EmptySet DEF CacheInv, CacheTypeOK

LEMMA CacheTickStays == ASSUME CacheInv, CacheTick PROVE CacheInv'
<1>1. now \in Nat /\ now' = now + 1 /\ UNCHANGED <<cache, lastPut>>
  BY DEF CacheTick, Tick, CacheInv, CacheTypeOK
<1>2. \A x \in DOMAIN cache : cache[x].lastAccess \in Nat
  BY DEF CacheInv, CacheTypeOK
<1> QED BY <1>1, <1>2 DEF CacheInv, CacheTypeOK

LEMMA HitStays ==
  ASSUME CacheInv, NEW x \in Examples, NEW code \in Programs, Hit(x, code)
  PROVE  CacheInv'
<1>1. now \in Nat /\ now' = now + 1 /\ lastPut' = lastPut /\ x \in DOMAIN cache
  BY DEF Hit, Tick, CacheInv, CacheTypeOK
<1>2. \A y \in DOMAIN cache : cache[y] \in Entry /\ cache[y].lastAccess < now
  BY DEF CacheInv, CacheTypeOK, Entry
<1>3. /\ DOMAIN cache' = DOMAIN cache
      /\ cache'[x] = [cache[x] EXCEPT !.lastAccess = now]
      /\ \A y \in DOMAIN cache \ {x} : cache'[y] = cache[y]
  BY <1>1 DEF Hit
<1>4. cache'[x] \in Entry /\ cache'[x].lastAccess = now
  BY <1>1, <1>2, <1>3 DEF Entry
<1>5. \A y \in DOMAIN cache' : cache'[y] \in Entry /\ cache'[y].lastAccess < now'
  <2> SUFFICES ASSUME NEW y \in DOMAIN cache'
               PROVE  cache'[y] \in Entry /\ cache'[y].lastAccess < now'
    OBVIOUS
  <2>1. CASE y = x
    BY <1>1, <1>4, <2>1
  <2>2. CASE y # x
    <3>1. cache'[y] \in Entry /\ cache'[y].lastAccess < now
      BY <1>2, <1>3, <2>2
    <3>2. cache'[y].lastAccess \in Nat
      BY <3>1 DEF Entry
    <3> QED BY <1>1, <3>1, <3>2
  <2> QED BY <2>1, <2>2
<1> QED BY <1>1, <1>3, <1>5 DEF CacheInv, CacheTypeOK, Entry

LEMMA MissStays ==
  ASSUME CacheInv, NEW x \in Examples, NEW code \in Programs, Miss(x, code)
  PROVE  CacheInv'
<1>1. now \in Nat /\ now' = now + 1 /\ lastPut' = lastPut
  BY DEF Miss, Tick, CacheInv, CacheTypeOK
<1>2. /\ DOMAIN cache' \subseteq DOMAIN cache
      /\ \A y \in DOMAIN cache' : cache'[y] = cache[y]
  BY DEF Miss, OnlyKeys
<1>3. IsFiniteSet(DOMAIN cache')
  BY <1>2, FS_Subset DEF CacheInv
<1>4. \A y \in DOMAIN cache' : /\ cache'[y] \in Entry
                               /\ cache'[y].lastAccess \in Nat /\ cache'[y].lastAccess < now
  BY <1>2 DEF CacheInv, CacheTypeOK, Entry
<1>5. \A y \in DOMAIN cache' : cache'[y].lastAccess < now'
  BY <1>1, <1>4
<1>6. DOMAIN cache' \subseteq DOMAIN lastPut'
  BY <1>1, <1>2 DEF CacheInv, CacheTypeOK
<1> QED BY <1>1, <1>3, <1>4, <1>5, <1>6 DEF CacheInv, CacheTypeOK, Entry

\* Whether entries fit depends on their results alone.
LEMMA FitAlike ==
  ASSUME NEW c, NEW d, NEW S, IsFiniteSet(S), \A x \in S : c[x] = d[x], Fits(c, S)
  PROVE  Fits(d, S)
<1> DEFINE f == [x \in S |-> SizeOf[c[x].result]]
           g == [x \in S |-> SizeOf[d[x].result]]
<1>1. \A x \in S : f[x] = g[x]
  OBVIOUS
<1> HIDE DEF f, g
<1>2. SumFunctionOnSet(f, S) = SumFunctionOnSet(g, S)
  BY <1>1, SumsAgree
<1>3. Bytes(c, S) = Bytes(d, S)
  BY <1>2 DEF Bytes, f, g
<1> QED BY <1>3 DEF Fits

LEMMA NothingFits == ASSUME NEW c PROVE Fits(c, {})
<1>1. Cardinality({}) = 0 /\ IsFiniteSet({})
  BY FS_EmptySet
<1>2. Bytes(c, {}) = 0
  BY <1>1, SumUnfolds DEF Bytes
<1> QED BY <1>1, <1>2, CacheAssumption DEF Fits

\* The bytes of a set of entries are those of one of them and the rest.
LEMMA BytesOfOne ==
  ASSUME NEW c, NEW S, IsFiniteSet(S), NEW x \in S, \A y \in S : c[y].result \in Answers
  PROVE  Bytes(c, S) = SizeOf[c[x].result] + Bytes(c, S \ {x})
<1> DEFINE f == [y \in S |-> SizeOf[c[y].result]]
           g == [y \in S \ {x} |-> SizeOf[c[y].result]]
<1>1. \A y \in S : f[y] \in Nat
  BY CacheAssumption
<1>2. f[x] = SizeOf[c[x].result] /\ \A y \in S \ {x} : f[y] = g[y]
  OBVIOUS
<1>3. Bytes(c, S) = SumFunctionOnSet(f, S) /\ Bytes(c, S \ {x}) = SumFunctionOnSet(g, S \ {x})
  BY DEF Bytes
<1>4. IsFiniteSet(S \ {x})
  BY FS_RemoveElement
<1> HIDE DEF f, g
<1>5. SumFunctionOnSet(f, S) = f[x] + SumFunctionOnSet(f, S \ {x})
  BY <1>1, SumTakesOut
<1>6. SumFunctionOnSet(f, S \ {x}) = SumFunctionOnSet(g, S \ {x})
  BY <1>2, <1>4, SumsAgree
<1> QED BY <1>2, <1>3, <1>5, <1>6

Fresh(c) == {x \in DOMAIN c : ~Outlived(c[x])}
Newest(c, t) == {x \in Fresh(c) : c[x].lastAccess > t}
Cuts(c) == {t \in {-1} \cup {c[x].lastAccess : x \in Fresh(c)} : Fits(c, Newest(c, t))}

\* What survives: the entries used after the least instant after which all fit.
LEMMA SurvivorsAreNewest ==
  ASSUME NEW c, IsFiniteSet(DOMAIN c), NEW latest \in Nat, NEW x \in Fresh(c),
         c[x].lastAccess = latest,
         \A y \in DOMAIN c : c[y].lastAccess \in Nat /\ c[y].lastAccess <= latest
  PROVE  \E m \in Cuts(c) : /\ m \in Int /\ \A t \in Cuts(c) : m <= t
                            /\ Survivors(c) = Newest(c, m)
<1>1. Survivors(c) = Newest(c, Min(Cuts(c)))
  BY DEF Survivors, Newest, Cuts, Fresh
<1>2. Cuts(c) \subseteq Int /\ \A t \in Cuts(c) : -1 <= t
  BY DEF Cuts, Fresh
<1>3. latest \in Cuts(c)
  <2>1. Newest(c, latest) = {}
    BY DEF Newest, Fresh
  <2> QED BY <2>1, NothingFits DEF Cuts
<1>4. -1 \in Int
  OBVIOUS
<1>5. Min(Cuts(c)) \in Cuts(c) /\ \A t \in Cuts(c) : Min(Cuts(c)) <= t
  BY <1>2, <1>3, <1>4, MinIsLeast
<1> QED BY <1>1, <1>2, <1>5

\* An entry that is fresh and does not survive did not fit with those used
\* since.
LEMMA EvictedDidNotFit ==
  ASSUME NEW c, IsFiniteSet(DOMAIN c), NEW latest \in Nat, NEW x \in Fresh(c),
         c[x].lastAccess = latest,
         \A y \in DOMAIN c : c[y].lastAccess \in Nat /\ c[y].lastAccess <= latest,
         NEW y \in Fresh(c), y \notin Survivors(c)
  PROVE  ~Fits(c, {z \in Fresh(c) : c[z].lastAccess >= c[y].lastAccess})
<1>1. PICK m \in Cuts(c) : /\ m \in Int /\ \A t \in Cuts(c) : m <= t
                           /\ Survivors(c) = Newest(c, m)
  BY SurvivorsAreNewest
<1> DEFINE all == {-1} \cup {c[z].lastAccess : z \in Fresh(c)}
           lower == {t \in all : t < c[y].lastAccess}
<1>2. c[y].lastAccess \in Nat /\ c[y].lastAccess <= m
  BY <1>1 DEF Newest, Fresh
<1>3. all \subseteq Int
  BY DEF Fresh
<1>4. lower \subseteq Int /\ lower # {} /\ c[y].lastAccess \in Int
  BY <1>2, <1>3
<1>5. \A t \in lower : t <= c[y].lastAccess
  BY <1>2, <1>3
<1> HIDE DEF lower
<1>6. PICK p \in lower : \A t \in lower : t <= p
  BY <1>4, <1>5, GreatestInteger
<1>7. p \in all /\ p < c[y].lastAccess /\ p \in Int
  BY <1>3, <1>6 DEF lower
<1>8. Newest(c, p) = {z \in Fresh(c) : c[z].lastAccess >= c[y].lastAccess}
  <2>1. ASSUME NEW z \in Fresh(c) PROVE c[z].lastAccess > p <=> c[z].lastAccess >= c[y].lastAccess
    <3>1. c[z].lastAccess \in Nat /\ c[z].lastAccess \in all
      BY DEF Fresh
    <3>2. c[z].lastAccess < c[y].lastAccess => c[z].lastAccess <= p
      BY <1>6, <3>1 DEF lower
    <3> QED BY <1>2, <1>7, <3>1, <3>2
  <2> QED BY <2>1 DEF Newest
<1>9. p \notin Cuts(c)
  BY <1>1, <1>2, <1>7
<1> QED BY <1>7, <1>8, <1>9 DEF Cuts

\* The cache with the new entry, before room is made.
WithPut(x, code, answer) ==
  [y \in DOMAIN cache \cup {x} |->
     IF y = x THEN [code |-> code, result |-> answer, created |-> now, lastAccess |-> now]
     ELSE cache[y]]

\* The new entry is the latest.
IsLatest(put, x, answer) ==
  /\ DOMAIN put = DOMAIN cache \cup {x} /\ IsFiniteSet(DOMAIN put) /\ now \in Nat
  /\ x \in Fresh(put) /\ put[x].lastAccess = now /\ put[x].result = answer
  /\ \A y \in DOMAIN cache \ {x} : put[y] = cache[y]
  /\ \A y \in DOMAIN put : /\ put[y] \in Entry
                           /\ put[y].lastAccess \in Nat /\ put[y].lastAccess <= now

LEMMA PutIsLatest ==
  ASSUME CacheInv, NEW x \in Examples, NEW code \in Programs, NEW answer \in Answers
  PROVE  IsLatest(WithPut(x, code, answer), x, answer)
<1>0. PICK put : put = WithPut(x, code, answer)
  OBVIOUS
<1>1. DOMAIN put = DOMAIN cache \cup {x} /\ now \in Nat
  BY <1>0 DEF WithPut, CacheInv, CacheTypeOK
<1>2. IsFiniteSet(DOMAIN put)
  BY <1>1, FS_AddElement DEF CacheInv
<1>3. /\ put[x] = [code |-> code, result |-> answer, created |-> now, lastAccess |-> now]
      /\ \A y \in DOMAIN cache \ {x} : put[y] = cache[y]
  BY <1>0 DEF WithPut
<1>4. put[x] \in Entry /\ put[x].lastAccess = now /\ put[x].result = answer
  BY <1>1, <1>3 DEF Entry
<1>5. x \in Fresh(put)
  BY <1>1, <1>3, CacheAssumption DEF Fresh, Outlived
<1>6. \A y \in DOMAIN cache \ {x} : /\ put[y] \in Entry
                                    /\ put[y].lastAccess \in Nat /\ put[y].lastAccess <= now
  BY <1>3 DEF CacheInv, CacheTypeOK, Entry
<1>7. IsLatest(put, x, answer)
  BY <1>1, <1>2, <1>3, <1>4, <1>5, <1>6 DEF IsLatest
<1> QED BY <1>0, <1>7

LEMMA PutKeepsSurvivors ==
  ASSUME NEW x \in Examples, NEW code \in Programs, NEW answer \in Answers, Put(x, code, answer)
  PROVE  LET put == WithPut(x, code, answer)
         IN  cache' = [y \in Survivors(put) |-> put[y]]
BY DEF Put, WithPut

LEMMA PutStaysTyped ==
  ASSUME CacheInv, NEW x \in Examples, NEW code \in Programs, NEW answer \in Answers,
         Put(x, code, answer)
  PROVE  CacheInv'
<1>1. PICK put : put = WithPut(x, code, answer)
  OBVIOUS
<1>2. cache' = [y \in Survivors(put) |-> put[y]]
  BY <1>1, PutKeepsSurvivors
<1>3. /\ DOMAIN put = DOMAIN cache \cup {x} /\ IsFiniteSet(DOMAIN put) /\ now \in Nat
      /\ \A y \in DOMAIN put : /\ put[y] \in Entry
                               /\ put[y].lastAccess \in Nat /\ put[y].lastAccess <= now
  BY <1>1, PutIsLatest DEF IsLatest
<1>4. /\ DOMAIN cache' \subseteq DOMAIN put
      /\ \A y \in DOMAIN cache' : cache'[y] = put[y]
  BY <1>2, SurvivorsAreEntries
<1>5. now' = now + 1
  BY DEF Put, Tick
<1>6. \A y \in DOMAIN cache' : cache'[y] \in Entry /\ cache'[y].lastAccess < now'
  BY <1>3, <1>4, <1>5
<1>7. IsFiniteSet(DOMAIN cache')
  BY <1>3, <1>4, FS_Subset
<1>8. /\ DOMAIN lastPut' = DOMAIN lastPut \cup {x}
      /\ lastPut'[x] = [code |-> code, result |-> answer, at |-> now]
      /\ \A y \in DOMAIN lastPut \ {x} : lastPut'[y] = lastPut[y]
  BY DEF Put
<1>9. /\ DOMAIN lastPut' \subseteq Examples
      /\ DOMAIN cache' \subseteq DOMAIN lastPut'
  BY <1>3, <1>4, <1>8 DEF CacheInv, CacheTypeOK
<1>10. \A y \in DOMAIN lastPut' : lastPut'[y] \in [code : Programs, result : Answers, at : Nat]
  BY <1>3, <1>8 DEF CacheInv, CacheTypeOK
<1> QED BY <1>3, <1>5, <1>6, <1>7, <1>9, <1>10 DEF CacheInv, CacheTypeOK, Entry

LEMMA CacheStays == CacheInv /\ [CacheNext]_cacheVars => CacheInv'
<1> SUFFICES ASSUME CacheInv, [CacheNext]_cacheVars PROVE CacheInv'
  OBVIOUS
<1>1. CASE UNCHANGED cacheVars
  BY <1>1 DEF cacheVars, CacheInv, CacheTypeOK
<1> QED BY <1>1, CacheTickStays, HitStays, MissStays, PutStaysTyped DEF CacheNext

\* The table holds entries and the history what was put
\* (result_cache.cpp:9-43).
THEOREM CacheTypes == CacheSpec => []CacheTypeOK
<1>1. CacheInv => CacheTypeOK
  BY DEF CacheInv
<1> QED BY <1>1, CacheStarts, CacheStays, PTL DEF CacheSpec

KeptBefore(x, y) == {z \in DOMAIN cache \ {x} : cache[z].lastAccess >= cache[y].lastAccess
                                              /\ ~Outlived(cache[z])}
NoRoom(x, y, answer) ==
  \/ CacheEntries > 0 /\ Cardinality(KeptBefore(x, y)) >= CacheEntries
  \/ CacheBytes > 0 /\ SizeOf[answer] + Bytes(cache, KeptBefore(x, y)) > CacheBytes

LEMMA PutEvicts ==
  ASSUME CacheInv, NEW x \in Examples, NEW code \in Programs, NEW answer \in Answers,
         Put(x, code, answer)
  PROVE  /\ Fits(cache', DOMAIN cache')
         /\ \A y \in DOMAIN cache \ (DOMAIN cache' \cup {x}) :
              Outlived(cache[y]) \/ NoRoom(x, y, answer)
<1>1. PICK put : put = WithPut(x, code, answer)
  OBVIOUS
<1>2. cache' = [y \in Survivors(put) |-> put[y]]
  BY <1>1, PutKeepsSurvivors
<1>3. /\ DOMAIN put = DOMAIN cache \cup {x} /\ IsFiniteSet(DOMAIN put) /\ now \in Nat
      /\ x \in Fresh(put) /\ put[x].lastAccess = now /\ put[x].result = answer
      /\ \A y \in DOMAIN cache \ {x} : put[y] = cache[y]
      /\ \A y \in DOMAIN put : /\ put[y] \in Entry
                               /\ put[y].lastAccess \in Nat /\ put[y].lastAccess <= now
  <2>1. IsLatest(put, x, answer)
    BY <1>1, PutIsLatest
  <2> QED BY <2>1 DEF IsLatest
<1>4. /\ DOMAIN cache' = Survivors(put) /\ Survivors(put) \subseteq DOMAIN put
      /\ \A y \in Survivors(put) : put[y] = cache'[y]
  BY <1>2, SurvivorsAreEntries
<1>5. Fits(cache', DOMAIN cache')
  <2>1. PICK m \in Cuts(put) : Survivors(put) = Newest(put, m)
    BY <1>3, SurvivorsAreNewest
  <2>2. Fits(put, Survivors(put)) /\ IsFiniteSet(Survivors(put))
    BY <1>3, <1>4, <2>1, FS_Subset DEF Cuts
  <2> QED BY <1>4, <2>2, FitAlike
<1>6. ASSUME NEW y \in DOMAIN cache \ (DOMAIN cache' \cup {x}), ~Outlived(cache[y])
      PROVE  NoRoom(x, y, answer)
  <2>1. y \in Fresh(put) /\ y \notin Survivors(put) /\ put[y] = cache[y]
    BY <1>3, <1>4, <1>6 DEF Fresh
  <2> DEFINE S == {z \in Fresh(put) : put[z].lastAccess >= put[y].lastAccess}
  <2>2. ~Fits(put, S)
    BY <1>3, <2>1, EvictedDidNotFit
  <2>3. x \in S /\ S \ {x} = KeptBefore(x, y)
    BY <1>3, <2>1 DEF Fresh, KeptBefore
  <2>4. IsFiniteSet(S)
    BY <1>3, FS_Subset DEF Fresh
  <2>5. Cardinality(KeptBefore(x, y)) = Cardinality(S) - 1 /\ Cardinality(S) \in Nat
    <3>1. Cardinality(S \ {x}) = Cardinality(S) - 1
      BY <2>3, <2>4, FS_RemoveElement
    <3>2. Cardinality(S) \in Nat
      BY <2>4, FS_CardinalityType
    <3> QED BY <2>3, <3>1, <3>2
  <2>6. Bytes(put, S) = SizeOf[answer] + Bytes(put, KeptBefore(x, y))
    <3>1. \A z \in S : put[z].result \in Answers
      BY <1>3 DEF Fresh, Entry
    <3> HIDE DEF S
    <3> QED BY <1>3, <2>3, <2>4, <3>1, BytesOfOne
  <2>7. Bytes(put, KeptBefore(x, y)) = Bytes(cache, KeptBefore(x, y))
    <3>1. \A z \in KeptBefore(x, y) : put[z] = cache[z]
      BY <1>3 DEF KeptBefore
    <3>2. [z \in KeptBefore(x, y) |-> SizeOf[put[z].result]] = [z \in KeptBefore(x, y) |-> SizeOf[cache[z].result]]
      BY <3>1
    <3> QED BY <3>2 DEF Bytes
  <2> HIDE DEF S
  <2>8. CASE CacheEntries > 0 /\ Cardinality(S) > CacheEntries
    BY <2>5, <2>8, CacheAssumption DEF NoRoom
  <2>9. CASE CacheBytes > 0 /\ ~(Bytes(put, S) <= CacheBytes)
    <3>1. \A z \in KeptBefore(x, y) : cache[z].result \in Answers
      BY DEF CacheInv, CacheTypeOK, KeptBefore
    <3>2. IsFiniteSet(KeptBefore(x, y))
      BY <2>3, <2>4, FS_RemoveElement
    <3>3. Bytes(cache, KeptBefore(x, y)) \in Nat
      <4> DEFINE f == [z \in KeptBefore(x, y) |-> SizeOf[cache[z].result]]
      <4>1. \A z \in KeptBefore(x, y) : f[z] \in Nat
        BY <3>1, CacheAssumption
      <4> HIDE DEF f
      <4>2. SumFunctionOnSet(f, KeptBefore(x, y)) \in Nat
        BY <3>2, <4>1, SumIsNatural
      <4> QED BY <4>2 DEF Bytes, f
    <3> QED BY <2>6, <2>7, <2>9, <3>3, CacheAssumption DEF NoRoom
  <2> QED BY <2>2, <2>5, <2>8, <2>9, CacheAssumption DEF Fits, NoRoom
<1> QED BY <1>5, <1>6

\* After every put the limits hold, and a fresh entry is gone only when the
\* put entry and the fresh ones used after it do not fit beside it, for any
\* sizes and any limits (result_cache.cpp:45-75).
THEOREM EvictionsAreNeeded == CacheSpec => EvictionIsNeeded
<1> DEFINE Needed == \A x \in Examples, code \in Programs, answer \in Answers :
       Put(x, code, answer) =>
         /\ Fits(cache', DOMAIN cache')
         /\ \A y \in DOMAIN cache \ (DOMAIN cache' \cup {x}) :
              \/ Outlived(cache[y])
              \/ LET kept == {z \in DOMAIN cache \ {x} : cache[z].lastAccess >= cache[y].lastAccess
                                                       /\ ~Outlived(cache[z])}
                 IN  \/ CacheEntries > 0 /\ Cardinality(kept) >= CacheEntries
                     \/ CacheBytes > 0 /\ SizeOf[answer] + Bytes(cache, kept) > CacheBytes
<1>1. CacheInv /\ [CacheNext]_cacheVars => [Needed]_cacheVars
  BY PutEvicts DEF NoRoom, KeptBefore
<1> QED BY <1>1, CacheStarts, CacheStays, PTL DEF CacheSpec, EvictionIsNeeded

-----------------------------------------------------------------------------
(* The rate limiter.                                                       *)

Since(marks, t) == {m \in marks : m.at >= t}
Count(marks, t) == Cardinality(Since(marks, t))

\* No mark is of the future, and the number of the next one is free.
WellMarked(marks) ==
  /\ marks \subseteq Marks /\ IsFiniteSet(marks)
  /\ \A m \in marks : /\ m.at <= now
                      /\ m.at = now => m.no < Cardinality({k \in marks : k.at = now})

Hits(a) == IF a \in DOMAIN ipHits THEN ipHits[a] ELSE {}

AllMarked == WellMarked(cleared) /\ \A a \in Addrs : WellMarked(granted[a]) /\ WellMarked(Hits(a))

\* Whatever the instant from which the window is counted: the table counts no
\* more than was granted, and what it has lost since was within one limit for
\* each clearing.
TableAgrees ==
  \A a \in Addrs, t \in Int : t >= now - Window =>
    /\ Count(Hits(a), t) <= Count(granted[a], t)
    /\ Count(granted[a], t) <= Count(Hits(a), t) + PerIp * Count(cleared, t)

TableWithinLimit == \A a \in Addrs : Count(Hits(a), now - Window) <= PerIp

RateInv == RateTypeOK /\ AllMarked /\ TableAgrees /\ TableWithinLimit

LEMMA CountsAreFinite ==
  ASSUME NEW S, WellMarked(S), NEW t \in Int
  PROVE  IsFiniteSet(Since(S, t)) /\ Count(S, t) \in Nat
<1>1. Since(S, t) \in SUBSET S
  BY DEF Since
<1>2. IsFiniteSet(S)
  BY DEF WellMarked
<1>3. IsFiniteSet(Since(S, t))
  BY <1>1, <1>2, FS_Subset
<1> QED BY <1>3, FS_CardinalityType DEF Count

LEMMA EmptyIsWellMarked == WellMarked({}) /\ \A t \in Int : Count({}, t) = 0
<1>1. \A t \in Int : Since({}, t) = {}
  BY DEF Since
<1> QED BY <1>1, FS_EmptySet DEF WellMarked, Count

\* A new mark counts once, from any instant up to now.
LEMMA MarkedCountsOnce ==
  ASSUME now \in Nat, NEW S, WellMarked(S)
  PROVE  /\ WellMarked(Marked(S))
         /\ \A t \in Int : Count(Marked(S), t) = IF t <= now THEN Count(S, t) + 1 ELSE Count(S, t)
<1> DEFINE Of(T) == {m \in T : m.at = now}
           new == [at |-> now, no |-> Cardinality(Of(S))]
<1>1. S \subseteq Marks /\ IsFiniteSet(S)
  BY DEF WellMarked
<1>2. IsFiniteSet(Of(S)) /\ Cardinality(Of(S)) \in Nat
  <2>1. Of(S) \in SUBSET S
    OBVIOUS
  <2> HIDE DEF Of
  <2> QED BY <1>1, <2>1, FS_Subset, FS_CardinalityType
<1>3. new \in Marks /\ new.at = now /\ new.no = Cardinality(Of(S)) /\ Marked(S) = S \cup {new}
  BY <1>2 DEF Marks, Marked
<1>4. new \notin S
  <2>1. \A m \in S : m.at = now => m.no < Cardinality(Of(S))
    BY DEF WellMarked
  <2> SUFFICES ASSUME new \in S PROVE FALSE
    OBVIOUS
  <2>2. Cardinality(Of(S)) < Cardinality(Of(S))
    BY <1>3, <2>1
  <2> QED BY <1>2, <2>2
<1>5. Of(Marked(S)) = Of(S) \cup {new}
  BY <1>3
<1>6. Cardinality(Of(Marked(S))) = Cardinality(Of(S)) + 1
  <2>1. new \notin Of(S)
    BY <1>4
  <2> HIDE DEF Of, new
  <2> QED BY <1>2, <1>5, <2>1, FS_AddElement
<1> HIDE DEF new
<1>7. WellMarked(Marked(S))
  <2>1. Marked(S) \subseteq Marks /\ IsFiniteSet(Marked(S))
    BY <1>1, <1>3, FS_AddElement
  <2>2. ASSUME NEW m \in Marked(S)
        PROVE  m.at <= now /\ (m.at = now => m.no < Cardinality(Of(Marked(S))))
    <3>1. CASE m = new
      BY <1>2, <1>3, <1>6, <3>1
    <3>2. CASE m \in S
      <4>1. m \in Marks /\ m.at <= now /\ (m.at = now => m.no < Cardinality(Of(S)))
        BY <3>2, <1>1 DEF WellMarked
      <4> QED BY <4>1, <1>2, <1>6 DEF Marks
    <3> QED BY <1>3, <3>1, <3>2
  <2> QED BY <2>1, <2>2 DEF WellMarked
<1>8. ASSUME NEW t \in Int
      PROVE  Count(Marked(S), t) = IF t <= now THEN Count(S, t) + 1 ELSE Count(S, t)
  <2>1. IsFiniteSet(Since(S, t)) /\ Count(S, t) \in Nat
    BY CountsAreFinite
  <2>2. CASE t <= now
    <3>1. Since(Marked(S), t) = Since(S, t) \cup {new}
      BY <1>3, <2>2 DEF Since
    <3>2. new \notin Since(S, t)
      BY <1>4 DEF Since
    <3> QED BY <2>1, <2>2, <3>1, <3>2, FS_AddElement DEF Count
  <2>3. CASE ~(t <= now)
    <3>1. Since(Marked(S), t) = Since(S, t)
      BY <1>3, <2>3 DEF Since
    <3> QED BY <2>3, <3>1 DEF Count
  <2> QED BY <2>2, <2>3
<1> QED BY <1>7, <1>8

\* What has left the window is not counted from any instant in it.
LEMMA RecentCountsAlike ==
  ASSUME now \in Nat, NEW S, WellMarked(S)
  PROVE  /\ WellMarked(Recent(S))
         /\ \A t \in Int : t >= now - Window => Count(Recent(S), t) = Count(S, t)
         /\ Cardinality(Recent(S)) = Count(S, now - Window)
<1>1. /\ S \subseteq Marks /\ IsFiniteSet(S) /\ Window \in Nat
      /\ \A m \in S : m \in Marks /\ m.at \in Nat
  BY RateAssumption DEF WellMarked, Marks
<1>2. Recent(S) = Since(S, now - Window)
  BY DEF Recent, Since
<1>3. IsFiniteSet(Recent(S))
  <2>1. Recent(S) \in SUBSET S
    BY DEF Recent
  <2> QED BY <1>1, <2>1, FS_Subset
<1>4. {m \in Recent(S) : m.at = now} = {m \in S : m.at = now}
  BY <1>1 DEF Recent
<1>5. WellMarked(Recent(S))
  <2>1. ASSUME NEW m \in Recent(S)
        PROVE  m.at <= now /\ (m.at = now => m.no < Cardinality({k \in Recent(S) : k.at = now}))
    <3>1. m \in S
      BY DEF Recent
    <3>2. m.at <= now /\ (m.at = now => m.no < Cardinality({k \in S : k.at = now}))
      BY <3>1 DEF WellMarked
    <3> QED BY <1>4, <3>2
  <2>2. Recent(S) \subseteq Marks
    BY <1>1 DEF Recent
  <2> QED BY <1>3, <2>1, <2>2 DEF WellMarked
<1>6. ASSUME NEW t \in Int, t >= now - Window PROVE Since(Recent(S), t) = Since(S, t)
  BY <1>1, <1>6 DEF Since, Recent
<1> QED BY <1>2, <1>5, <1>6 DEF Count

LEMMA RateStarts == RateInit => RateInv
<1> SUFFICES ASSUME RateInit PROVE RateInv
  OBVIOUS
<1>1. /\ now = 0 /\ cleared = {} /\ DOMAIN ipHits = {}
      /\ \A a \in Addrs : granted[a] = {} /\ Hits(a) = {}
      /\ RateTypeOK
  BY DEF RateInit, RateTypeOK, Hits, Marks
<1>2. AllMarked
  BY <1>1, EmptyIsWellMarked DEF AllMarked
<1>3. now - Window \in Int /\ PerIp \in Nat /\ PerIp * 0 = 0
  BY <1>1, RateAssumption
<1>4. TableAgrees
  <2> SUFFICES ASSUME NEW a \in Addrs, NEW t \in Int
      PROVE  /\ Count(Hits(a), t) <= Count(granted[a], t)
             /\ Count(granted[a], t) <= Count(Hits(a), t) + PerIp * Count(cleared, t)
    BY DEF TableAgrees
  <2>1. Count(Hits(a), t) = 0 /\ Count(granted[a], t) = 0 /\ Count(cleared, t) = 0
    BY <1>1, EmptyIsWellMarked
  <2> QED BY <1>3, <2>1
<1>5. TableWithinLimit
  <2> SUFFICES ASSUME NEW a \in Addrs PROVE Count(Hits(a), now - Window) <= PerIp
    BY DEF TableWithinLimit
  <2> DEFINE w == now - Window
  <2>1. w \in Int
    BY <1>3
  <2> HIDE DEF w
  <2>2. Hits(a) = {}
    BY <1>1
  <2>3. Count(Hits(a), w) = 0
    BY <2>1, <2>2, EmptyIsWellMarked
  <2>4. Count(Hits(a), w) <= PerIp
    BY <1>3, <2>3
  <2> QED BY <2>4 DEF w
<1> QED BY <1>1, <1>2, <1>4, <1>5 DEF RateInv

LEMMA RateTickStays == ASSUME RateInv, RateTick PROVE RateInv'
<1>1. /\ now \in Nat /\ now' = now + 1 /\ Window \in Nat /\ PerIp \in Nat
      /\ UNCHANGED <<ipHits, cleared, granted>>
      /\ \A a \in Addrs : Hits(a)' = Hits(a)
  BY RateAssumption DEF RateInv, RateTypeOK, RateTick, Tick, Hits
<1>2. ASSUME NEW S, WellMarked(S) PROVE WellMarked(S)'
  <2>1. \A m \in S : m \in Marks /\ m.at <= now
    BY <1>2 DEF WellMarked
  <2>2. \A m \in S : m.at <= now' /\ m.at # now'
    BY <1>1, <2>1 DEF Marks
  <2> QED BY <1>2, <2>2 DEF WellMarked
<1>3. AllMarked'
  BY <1>1, <1>2 DEF RateInv, AllMarked
<1>4. TableAgrees'
  <2>1. \A t \in Int : t >= now' - Window => t >= now - Window
    BY <1>1
  <2> QED BY <1>1, <2>1 DEF RateInv, TableAgrees, Count, Since
<1>5. TableWithinLimit'
  <2> SUFFICES ASSUME NEW a \in Addrs PROVE Count(Hits(a), now' - Window) <= PerIp
    BY <1>1 DEF TableWithinLimit, Count, Since
  <2>1. WellMarked(Hits(a)) /\ Count(Hits(a), now - Window) <= PerIp
    BY DEF RateInv, AllMarked, TableWithinLimit
  <2>2. now - Window \in Int /\ now' - Window \in Int
    BY <1>1
  <2>3. Since(Hits(a), now' - Window) \in SUBSET Since(Hits(a), now - Window)
    <3>1. \A m \in Hits(a) : m.at \in Nat
      BY <2>1 DEF WellMarked, Marks
    <3> QED BY <1>1, <3>1 DEF Since
  <2>4. /\ IsFiniteSet(Since(Hits(a), now - Window))
        /\ Count(Hits(a), now - Window) \in Nat /\ Count(Hits(a), now' - Window) \in Nat
    BY <2>1, <2>2, CountsAreFinite
  <2>5. Count(Hits(a), now' - Window) <= Count(Hits(a), now - Window)
    BY <2>3, <2>4, FS_Subset DEF Count
  <2> QED BY <1>1, <2>1, <2>4, <2>5
<1>6. RateTypeOK'
  BY <1>1 DEF RateInv, RateTypeOK
<1> QED BY <1>3, <1>4, <1>5, <1>6 DEF RateInv


LEMMA CountsShrink ==
  ASSUME NEW S, WellMarked(S), NEW t \in Int, NEW u \in Int, t <= u
  PROVE  Count(S, u) <= Count(S, t)
<1>1. Since(S, u) \in SUBSET Since(S, t)
  <2>1. \A m \in S : m.at \in Nat
    BY DEF WellMarked, Marks
  <2> QED BY <2>1 DEF Since
<1>2. IsFiniteSet(Since(S, t))
  BY CountsAreFinite
<1> QED BY <1>1, <1>2, FS_Subset DEF Count

LEMMA NothingFromTheFuture ==
  ASSUME now \in Nat, NEW S, WellMarked(S), NEW t \in Int, t > now
  PROVE  Count(S, t) = 0
<1>1. Since(S, t) = {}
  <2>1. \A m \in S : m.at \in Nat /\ m.at <= now
    BY DEF WellMarked, Marks
  <2> QED BY <2>1 DEF Since
<1> QED BY <1>1, FS_EmptySet DEF Count

\* What a table counts for an address.
HitsIn(table, a) == IF a \in DOMAIN table THEN table[a] ELSE {}

\* A table and clearings that agree with what was granted to address b.
Agree(b, table, clearings) ==
  /\ WellMarked(HitsIn(table, b)) /\ WellMarked(clearings)
  /\ Count(HitsIn(table, b), now - Window) <= PerIp
  /\ \A t \in Int : t >= now - Window =>
       /\ Count(HitsIn(table, b), t) <= Count(granted[b], t)
       /\ Count(granted[b], t) <= Count(HitsIn(table, b), t) + PerIp * Count(clearings, t)

LEMMA AgreeNow == ASSUME RateInv, NEW b \in Addrs PROVE Agree(b, ipHits, cleared)
BY DEF RateInv, AllMarked, TableAgrees, TableWithinLimit, Agree, HitsIn, Hits

\* The clearing of a full table is paid for by one limit more.
LEMMA ClearingAgrees ==
  ASSUME RateInv, NEW b \in Addrs, NEW table, HitsIn(table, b) = {}
  PROVE  Agree(b, table, Marked(Recent(cleared)))
<1>1. now \in Nat /\ Window \in Nat /\ PerIp \in Nat /\ now - Window \in Int
  BY RateAssumption DEF RateInv, RateTypeOK
<1>2. /\ WellMarked(cleared) /\ WellMarked(granted[b]) /\ WellMarked(HitsIn(ipHits, b))
      /\ Count(HitsIn(ipHits, b), now - Window) <= PerIp
  BY AgreeNow DEF Agree, RateInv, AllMarked
<1>3. /\ WellMarked(Recent(cleared)) /\ WellMarked(Marked(Recent(cleared)))
  BY <1>1, <1>2, RecentCountsAlike, MarkedCountsOnce
<1>4. ASSUME NEW t \in Int, t >= now - Window
      PROVE  /\ 0 <= Count(granted[b], t)
             /\ Count(granted[b], t) <= PerIp * Count(Marked(Recent(cleared)), t)
  <2>1. /\ Count(granted[b], t) \in Nat /\ Count(HitsIn(ipHits, b), t) \in Nat
        /\ Count(cleared, t) \in Nat /\ Count(Marked(Recent(cleared)), t) \in Nat
    BY <1>2, <1>3, CountsAreFinite
  <2>2. CASE t <= now
    <3>1. Count(Marked(Recent(cleared)), t) = Count(cleared, t) + 1
      BY <1>1, <1>2, <1>3, <1>4, <2>2, RecentCountsAlike, MarkedCountsOnce
    <3>2. Count(HitsIn(ipHits, b), t) <= PerIp
      <4>1. Count(HitsIn(ipHits, b), now - Window) \in Nat
        BY <1>1, <1>2, CountsAreFinite
      <4> QED BY <1>1, <1>2, <1>4, <2>1, <4>1, CountsShrink
    <3>3. Count(granted[b], t) <= Count(HitsIn(ipHits, b), t) + PerIp * Count(cleared, t)
      BY <1>4, AgreeNow DEF Agree
    <3>4. PerIp * (Count(cleared, t) + 1) = PerIp * Count(cleared, t) + PerIp
      BY <1>1, <2>1
    <3>5. PerIp * Count(cleared, t) \in Nat
      BY <1>1, <2>1
    <3> QED BY <1>1, <2>1, <3>1, <3>2, <3>3, <3>4, <3>5
  <2>3. CASE t > now
    <3>1. Count(granted[b], t) = 0 /\ Count(Marked(Recent(cleared)), t) = 0
      BY <1>1, <1>2, <1>3, <2>3, NothingFromTheFuture
    <3>2. PerIp * 0 = 0
      BY <1>1
    <3> QED BY <3>1, <3>2
  <2> QED BY <1>1, <2>2, <2>3
<1>5. ASSUME NEW t \in Int, t >= now - Window
      PROVE  /\ Count(HitsIn(table, b), t) <= Count(granted[b], t)
             /\ Count(granted[b], t)
                  <= Count(HitsIn(table, b), t) + PerIp * Count(Marked(Recent(cleared)), t)
  <2>1. Count(HitsIn(table, b), t) = 0
    BY EmptyIsWellMarked
  <2>2. PerIp * Count(Marked(Recent(cleared)), t) \in Nat
    BY <1>1, <1>3, CountsAreFinite
  <2> QED BY <1>4, <1>5, <2>1, <2>2
<1>6. Count(HitsIn(table, b), now - Window) <= PerIp
  BY <1>1, EmptyIsWellMarked
<1> QED BY <1>3, <1>5, <1>6, EmptyIsWellMarked DEF Agree

\* Without a clearing only what has left the window goes.
LEMMA FilterAgrees ==
  ASSUME RateInv, NEW b \in Addrs, NEW table,
         \/ HitsIn(table, b) = HitsIn(ipHits, b)
         \/ HitsIn(table, b) = Recent(HitsIn(ipHits, b))
  PROVE  Agree(b, table, Recent(cleared))
<1>1. now \in Nat /\ Window \in Nat /\ now - Window \in Int
  BY RateAssumption DEF RateInv, RateTypeOK
<1>2. Agree(b, ipHits, cleared)
  BY AgreeNow
<1>3. /\ WellMarked(Recent(cleared))
      /\ \A t \in Int : t >= now - Window => Count(Recent(cleared), t) = Count(cleared, t)
  BY <1>1, <1>2, RecentCountsAlike DEF Agree
<1>4. /\ WellMarked(HitsIn(table, b))
      /\ \A t \in Int : t >= now - Window =>
           Count(HitsIn(table, b), t) = Count(HitsIn(ipHits, b), t)
  BY <1>1, <1>2, RecentCountsAlike DEF Agree
<1> QED BY <1>1, <1>2, <1>3, <1>4 DEF Agree

\* What every call does before it judges.
LEMMA CleanedAgrees ==
  ASSUME RateInv, NEW a \in Addrs, NoteClearing(a)
  PROVE  /\ \A b \in Addrs : Agree(b, Cleaned(a), cleared')
         /\ a \in DOMAIN Cleaned(a) /\ DOMAIN Cleaned(a) \subseteq Addrs
         /\ Cardinality(Cleaned(a)[a]) = Count(Cleaned(a)[a], now - Window)
<1>1. now \in Nat /\ Window \in Nat /\ now - Window \in Int /\ DOMAIN ipHits \subseteq Addrs
  BY RateAssumption DEF RateInv, RateTypeOK
<1>2. CASE Full(a)
  <2>1. /\ cleared' = Marked(Recent(cleared))
        /\ DOMAIN Cleaned(a) = {a} /\ Cleaned(a)[a] = {}
    BY <1>2 DEF NoteClearing, Cleaned
  <2>2. \A b \in Addrs : HitsIn(Cleaned(a), b) = {}
    BY <2>1 DEF HitsIn
  <2>3. Cardinality({}) = 0 /\ Count({}, now - Window) = 0
    BY <1>1, FS_EmptySet, EmptyIsWellMarked
  <2> QED BY <2>1, <2>2, <2>3, ClearingAgrees
<1>3. CASE ~Full(a)
  <2>1. /\ cleared' = Recent(cleared)
        /\ DOMAIN Cleaned(a) = DOMAIN ipHits \cup {a}
        /\ \A b \in DOMAIN ipHits \ {a} : Cleaned(a)[b] = ipHits[b]
        /\ Cleaned(a)[a] = IF a \in DOMAIN ipHits THEN Recent(ipHits[a]) ELSE {}
    BY <1>3 DEF NoteClearing, Cleaned
  <2>2. Recent({}) = {}
    BY DEF Recent
  <2>3. /\ \A b \in Addrs \ {a} : HitsIn(Cleaned(a), b) = HitsIn(ipHits, b)
        /\ HitsIn(Cleaned(a), a) = Recent(HitsIn(ipHits, a))
    BY <2>1, <2>2 DEF HitsIn
  <2>4. \A b \in Addrs : Agree(b, Cleaned(a), cleared')
    BY <2>1, <2>3, FilterAgrees
  <2>5. Cardinality(Cleaned(a)[a]) = Count(Cleaned(a)[a], now - Window)
    <3>1. WellMarked(HitsIn(ipHits, a)) /\ Cleaned(a)[a] = Recent(HitsIn(ipHits, a))
      BY <2>1, <2>3, AgreeNow DEF Agree, HitsIn
    <3> QED BY <1>1, <3>1, RecentCountsAlike
  <2> QED BY <1>1, <2>1, <2>4, <2>5
<1> QED BY <1>2, <1>3

LEMMA RefuseStays == ASSUME RateInv, NEW a \in Addrs, Refuse(a) PROVE RateInv'
<1>1. /\ ipHits' = Cleaned(a) /\ granted' = granted /\ now' = now
      /\ now \in Nat /\ \A b \in Addrs : WellMarked(granted[b])
      /\ granted \in [Addrs -> SUBSET Marks]
  BY DEF Refuse, RateInv, RateTypeOK, AllMarked
<1>2. /\ \A b \in Addrs : Agree(b, ipHits', cleared')
      /\ DOMAIN ipHits' \subseteq Addrs
  BY <1>1, CleanedAgrees DEF Refuse
<1>3. \A S : WellMarked(S) => WellMarked(S)'
  BY <1>1 DEF WellMarked
<1>4. \A b \in Addrs : Hits(b)' = HitsIn(ipHits', b)
  BY DEF Hits, HitsIn
<1>5. WellMarked(cleared')
  BY <1>2 DEF Agree
<1>6. AllMarked'
  BY <1>1, <1>2, <1>4, <1>5 DEF AllMarked, Agree, WellMarked
<1>7. TableAgrees' /\ TableWithinLimit'
  BY <1>1, <1>2, <1>4 DEF TableAgrees, TableWithinLimit, Agree, Count, Since
<1>8. RateTypeOK'
  <2>1. \A b \in DOMAIN ipHits' : ipHits'[b] \subseteq Marks
    BY <1>2 DEF Agree, HitsIn, WellMarked
  <2>2. cleared' \subseteq Marks
    BY <1>5 DEF WellMarked
  <2> QED BY <1>1, <1>2, <2>1, <2>2 DEF RateTypeOK
<1> QED BY <1>6, <1>7, <1>8 DEF RateInv


LEMMA GrantStays == ASSUME RateInv, NEW a \in Addrs, Grant(a) PROVE RateInv'
<1> DEFINE table == Cleaned(a)
<1>1. /\ now' = now /\ now \in Nat /\ Window \in Nat /\ PerIp \in Nat /\ now - Window \in Int
      /\ granted \in [Addrs -> SUBSET Marks] /\ \A b \in Addrs : WellMarked(granted[b])
  BY RateAssumption DEF Grant, RateInv, RateTypeOK, AllMarked
<1>2. /\ \A b \in Addrs : Agree(b, table, cleared')
      /\ a \in DOMAIN table /\ DOMAIN table \subseteq Addrs
      /\ Cardinality(table[a]) = Count(table[a], now - Window)
      /\ Cardinality(table[a]) < PerIp
  BY CleanedAgrees DEF Grant
<1>3. /\ ipHits' = [table EXCEPT ![a] = Marked(table[a])]
      /\ granted' = [granted EXCEPT ![a] = Marked(Recent(granted[a]))]
  BY DEF Grant
<1> HIDE DEF table
<1>4. /\ DOMAIN ipHits' = DOMAIN table /\ ipHits'[a] = Marked(table[a])
      /\ \A b \in DOMAIN table \ {a} : ipHits'[b] = table[b]
      /\ granted'[a] = Marked(Recent(granted[a]))
      /\ \A b \in Addrs \ {a} : granted'[b] = granted[b]
  BY <1>1, <1>2, <1>3
<1>5. \A S : WellMarked(S) => WellMarked(S)'
  BY <1>1 DEF WellMarked
<1>6. /\ HitsIn(ipHits', a) = Marked(table[a]) /\ HitsIn(table, a) = table[a]
      /\ \A b \in Addrs \ {a} : HitsIn(ipHits', b) = HitsIn(table, b)
  BY <1>2, <1>4 DEF HitsIn
<1>7. /\ WellMarked(table[a]) /\ WellMarked(Marked(table[a])) /\ WellMarked(cleared')
      /\ WellMarked(Recent(granted[a])) /\ WellMarked(granted'[a])
  BY <1>1, <1>2, <1>4, <1>6, MarkedCountsOnce, RecentCountsAlike DEF Agree
<1>8. ASSUME NEW t \in Int, t >= now - Window
      PROVE  /\ Count(Marked(table[a]), t) <= Count(granted'[a], t)
             /\ Count(granted'[a], t) <= Count(Marked(table[a]), t) + PerIp * Count(cleared', t)
  <2>1. /\ Count(table[a], t) <= Count(granted[a], t)
        /\ Count(granted[a], t) <= Count(table[a], t) + PerIp * Count(cleared', t)
    BY <1>2, <1>6, <1>8 DEF Agree
  <2>2. Count(Recent(granted[a]), t) = Count(granted[a], t)
    BY <1>1, <1>8, RecentCountsAlike
  <2>3. /\ Count(Marked(table[a]), t) = IF t <= now THEN Count(table[a], t) + 1 ELSE Count(table[a], t)
        /\ Count(granted'[a], t) = IF t <= now THEN Count(granted[a], t) + 1 ELSE Count(granted[a], t)
    BY <1>1, <1>4, <1>7, <2>2, MarkedCountsOnce
  <2>4. /\ Count(table[a], t) \in Nat /\ Count(granted[a], t) \in Nat /\ Count(cleared', t) \in Nat
        /\ PerIp * Count(cleared', t) \in Nat
    BY <1>1, <1>7, CountsAreFinite
  <2> QED BY <2>1, <2>3, <2>4
<1>9. Count(Marked(table[a]), now - Window) <= PerIp
  <2>1. Count(table[a], now - Window) \in Nat
    BY <1>1, <1>7, CountsAreFinite
  <2>2. Count(Marked(table[a]), now - Window) = Count(table[a], now - Window) + 1
    BY <1>1, <1>7, MarkedCountsOnce
  <2> QED BY <1>1, <1>2, <2>1, <2>2
<1>10. ASSUME NEW b \in Addrs
       PROVE  /\ WellMarked(HitsIn(ipHits', b)) /\ WellMarked(granted'[b])
              /\ Count(HitsIn(ipHits', b), now - Window) <= PerIp
              /\ \A t \in Int : t >= now - Window =>
                   /\ Count(HitsIn(ipHits', b), t) <= Count(granted'[b], t)
                   /\ Count(granted'[b], t)
                        <= Count(HitsIn(ipHits', b), t) + PerIp * Count(cleared', t)
  <2>1. CASE b = a
    BY <1>6, <1>7, <1>8, <1>9, <2>1
  <2>2. CASE b # a
    BY <1>1, <1>2, <1>4, <1>6, <2>2 DEF Agree
  <2> QED BY <2>1, <2>2
<1>11. \A b \in Addrs : Hits(b)' = HitsIn(ipHits', b)
  BY DEF Hits, HitsIn
<1>12. AllMarked'
  BY <1>1, <1>7, <1>10, <1>11 DEF AllMarked, WellMarked
<1>13. TableAgrees' /\ TableWithinLimit'
  BY <1>1, <1>10, <1>11 DEF TableAgrees, TableWithinLimit, Count, Since
<1>14. RateTypeOK'
  <2>1. \A b \in DOMAIN ipHits' : ipHits'[b] \subseteq Marks
    BY <1>2, <1>4, <1>10 DEF HitsIn, WellMarked
  <2>2. cleared' \subseteq Marks /\ granted'[a] \in SUBSET Marks
    BY <1>7 DEF WellMarked
  <2>3. granted' \in [Addrs -> SUBSET Marks]
    BY <1>1, <1>3, <1>4, <2>2
  <2> QED BY <1>1, <1>2, <1>4, <2>1, <2>2, <2>3 DEF RateTypeOK
<1> QED BY <1>12, <1>13, <1>14 DEF RateInv

LEMMA RateStays == RateInv /\ [RateNext]_rateVars => RateInv'
<1> SUFFICES ASSUME RateInv, [RateNext]_rateVars PROVE RateInv'
  OBVIOUS
<1>1. CASE UNCHANGED rateVars
  <2>1. UNCHANGED <<now, ipHits, cleared, granted>>
    BY <1>1 DEF rateVars
  <2> QED BY <2>1 DEF RateInv, RateTypeOK, AllMarked, TableAgrees, TableWithinLimit,
                      WellMarked, Hits, Count, Since
<1> QED BY <1>1, RateTickStays, GrantStays, RefuseStays DEF RateNext

\* The table of instants is well formed (rate_limiter.cpp:14-27).
THEOREM RateTypes == RateSpec => []RateTypeOK
<1>1. RateInv => RateTypeOK
  BY DEF RateInv
<1> QED BY <1>1, RateStarts, RateStays, PTL DEF RateSpec

\* In no window is an address granted more than the limit, once more for each
\* clearing of the table in it (rate_limiter.cpp:14-24).
THEOREM WindowsStayInBudget == RateSpec => []WindowBudget
<1>1. RateInv => WindowBudget
  <2> SUFFICES ASSUME RateInv, NEW a \in Addrs
      PROVE  Cardinality(Recent(granted[a])) <= PerIp * (1 + Cardinality(Recent(cleared)))
    BY DEF WindowBudget
  <2> DEFINE w == now - Window
  <2>1. now \in Nat /\ PerIp \in Nat /\ w \in Int /\ w >= now - Window
    BY RateAssumption DEF RateInv, RateTypeOK
  <2>2. WellMarked(granted[a]) /\ WellMarked(cleared) /\ WellMarked(HitsIn(ipHits, a))
    BY AgreeNow DEF RateInv, AllMarked, Agree
  <2>3. Cardinality(Recent(granted[a])) = Count(granted[a], w) /\ Cardinality(Recent(cleared)) = Count(cleared, w)
    BY <2>1, <2>2, RecentCountsAlike
  <2>4. /\ Count(HitsIn(ipHits, a), w) <= PerIp
        /\ Count(granted[a], w) <= Count(HitsIn(ipHits, a), w) + PerIp * Count(cleared, w)
    BY <2>1, AgreeNow DEF Agree
  <2>5. /\ Count(granted[a], w) \in Nat /\ Count(cleared, w) \in Nat
        /\ Count(HitsIn(ipHits, a), w) \in Nat
    BY <2>1, <2>2, CountsAreFinite
  <2> HIDE DEF w
  <2>6. PerIp * (1 + Count(cleared, w)) = PerIp + PerIp * Count(cleared, w)
    BY <2>1, <2>5
  <2>7. PerIp * Count(cleared, w) \in Nat
    BY <2>1, <2>5
  <2> QED BY <2>1, <2>3, <2>4, <2>5, <2>6, <2>7
<1> QED BY <1>1, RateStarts, RateStays, PTL DEF RateSpec

\* Only an address that was granted its whole limit in the window is refused
\* (rate_limiter.cpp:19-25).
THEOREM RefusalsAreEarned == RateSpec => RefusalIsEarned
<1> DEFINE Earned == \A a \in Addrs : Refuse(a) => Cardinality(Recent(granted[a])) >= PerIp
<1>1. RateInv /\ [RateNext]_rateVars => [Earned]_rateVars
  <2> SUFFICES ASSUME RateInv, [RateNext]_rateVars, NEW a \in Addrs, Refuse(a)
               PROVE  Cardinality(Recent(granted[a])) >= PerIp
    OBVIOUS
  <2> DEFINE w == now - Window
  <2>1. now \in Nat /\ PerIp \in Nat /\ w \in Int /\ w >= now - Window
    BY RateAssumption DEF RateInv, RateTypeOK
  <2>2. /\ Agree(a, Cleaned(a), cleared')
        /\ HitsIn(Cleaned(a), a) = Cleaned(a)[a]
        /\ Cardinality(Cleaned(a)[a]) = Count(Cleaned(a)[a], w)
        /\ Cardinality(Cleaned(a)[a]) >= PerIp
    BY CleanedAgrees DEF Refuse, HitsIn
  <2>3. WellMarked(granted[a]) /\ WellMarked(Cleaned(a)[a])
    BY <2>2 DEF RateInv, AllMarked, Agree
  <2>4. Cardinality(Recent(granted[a])) = Count(granted[a], w)
    BY <2>1, <2>3, RecentCountsAlike
  <2>5. Count(Cleaned(a)[a], w) <= Count(granted[a], w)
    BY <2>1, <2>2 DEF Agree
  <2>6. Count(Cleaned(a)[a], w) \in Nat /\ Count(granted[a], w) \in Nat
    BY <2>1, <2>3, CountsAreFinite
  <2> QED BY <2>1, <2>2, <2>4, <2>5, <2>6
<1> QED BY <1>1, RateStarts, RateStays, PTL DEF RateSpec, RefusalIsEarned

-----------------------------------------------------------------------------
(* Types of the tables of sessions and of results.                         *)

\* Sessions are known only after their login (stats_session_store.cpp:11-53).
THEOREM SessionTypes == SessionSpec => []SessionTypeOK
<1>1. SessionInv => SessionTypeOK
  BY DEF SessionInv
<1> QED BY <1>1, SessionsStart, SessionsStay, PTL DEF SessionSpec
=============================================================================
