-------------------------- MODULE MCProductionParity --------------------------
(* A small instance of ProductionParity: one process has two places for     *)
(* handlers and one has one.                                                *)
EXTENDS ProductionParity, TLC

CONSTANTS o1, o2, w1, w2, h1, h2, h3

Places == h1 :> w1 @@ h2 :> w1 @@ h3 :> w2
=============================================================================
