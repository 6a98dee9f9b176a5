---------------------------- MODULE SteadyClock -----------------------------
(* The clock the guards of the playground's front door read                *)
(* (std::chrono::steady_clock): it never goes back.  One unit stands for   *)
(* the grain at which the lifetimes of the instances are told apart.       *)
EXTENDS Integers

VARIABLE now

\* The clock of an instance stops at a bound.
Tick(horizon) == now < horizon /\ now' = now + 1
=============================================================================
