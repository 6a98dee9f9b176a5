---------------------------- MODULE MCComponents ----------------------------
(* Instances of eight components in one run: the four guards of the front  *)
(* door (proof of work, rate limiter, sessions, result cache), which share *)
(* no state but the clock, and four parts of the language: the owning      *)
(* references, the checks of views and of borrows and the loading of       *)
(* modules.  None calls another one, so a behaviour is of one of them,     *)
(* chosen at the start.                                                    *)
EXTENDS PowGuard, RateLimiter, StatsSessions, ResultCache, Ownership, BorrowedViews,
        BorrowCheck, Imports, TLC

CONSTANTS small, middle, large, main, here, aside, lib, relative, based

VARIABLE part

partVars == <<part, now, challenges, load, asks, issued, paid, dropped,
              ipHits, cleared, granted, sessions, logins, over, cache, lastPut,
              cycleVars, holds, declared, heap, ref, frames, facts, reported, misused, limits,
              mFrames, function, variables, verdict, offence, reassigned,
              text, registry, index, parsers, scopes, ended>>

MCSizeOf == small :> 1 @@ middle :> 2 @@ large :> 4

\* Leading zero bits of the nibbles of a digest.
MCHashes == {<<4, 1>>, <<3, 0>>, <<3, 1>>}

MCFieldTypes ==
  [wraps : {<<>>, <<"shared">>, <<"unique">>, <<"static">>, <<"weak">>, <<"array">>,
            <<"array", "shared">>, <<"shared", "unique">>},
   rec : Types]

\* main and here are in one directory, aside in another, lib in the base
\* directory, where aside looks for a file that does not exist.
MCTarget ==
  [f \in Files |-> [id \in Ids |->
     IF id = based THEN (IF f = aside THEN Missing ELSE lib)
     ELSE IF f \in {main, here} THEN here ELSE aside]]

NoOwners ==
  /\ graph = NoEdges /\ pass = "done" /\ errors = {} /\ NothingVisited
  /\ holds = NoEdges /\ declared = NoEdges
  /\ heap = [o \in Objs |-> Free]
  /\ ref = [x \in Names |-> Nothing]

PartInit ==
  /\ part \in {"pow", "rate", "sessions", "cache", "owners", "views", "borrows", "imports"}
  /\ IF part = "pow" THEN load \in Loads ELSE load = 0
  /\ IF part = "imports" THEN TRUE ELSE text = [f \in Files |-> <<>>]
  /\ IF part = "owners" THEN OwnInit ELSE NoOwners
  /\ PowInit /\ RateInit /\ SessionInit /\ CacheInit /\ ViewInit /\ BorrowInit /\ ImportInit

OthersThan(p) ==
  /\ part = p
  /\ UNCHANGED part
  /\ p # "pow" => UNCHANGED <<challenges, load, asks, issued, paid, dropped>>
  /\ p # "rate" => UNCHANGED <<ipHits, cleared, granted>>
  /\ p # "sessions" => UNCHANGED <<sessions, logins, over>>
  /\ p # "cache" => UNCHANGED <<cache, lastPut>>
  /\ p \in {"owners", "views", "borrows", "imports"} => UNCHANGED now
  /\ p # "owners" => UNCHANGED ownVars
  /\ p # "views" => UNCHANGED viewVars
  /\ p # "borrows" => UNCHANGED borrowVars
  /\ p # "imports" => UNCHANGED importVars

PartNext ==
  \/ OthersThan("pow") /\ PowNext
  \/ OthersThan("rate") /\ RateNext
  \/ OthersThan("sessions") /\ SessionNext
  \/ OthersThan("cache") /\ CacheNext
  \/ OthersThan("owners") /\ OwnNext
  \/ OthersThan("views") /\ ViewNext
  \/ OthersThan("borrows") /\ BorrowNext
  \/ OthersThan("imports") /\ ImportNext

PartSpec == PartInit /\ [][PartNext]_partVars

\* Only one component is at work, so they may share model values: Addrs,
\* Examples, Names and Vars are one set, Nonces, SessionIds, Programs and
\* Objs another.
PartSymmetry == Permutations(Addrs) \cup Permutations(Nonces)
=============================================================================
