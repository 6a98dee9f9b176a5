---------------------------- MODULE MCPlayground ----------------------------
(* Small instances of Playground.                                          *)
EXTENDS Playground

CONSTANTS r1, r2, r3, w1, w2, c1, c2, n1

MCCodeOf == [r \in Requests |-> IF r = r2 THEN c2 ELSE c1]
MCNameOf == [r \in Requests |-> IF r = r3 THEN None ELSE n1]
MCResults == [code : Codes, built : BOOLEAN]
MCBuilt == {x \in MCResults : x.built}
MCOne == [w \in Workers |-> 1]
MCTwo == [w \in Workers |-> 2]
=============================================================================
