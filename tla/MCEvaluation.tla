------------------------------- MODULE MCEvaluation -------------------------------
(* A small instance of Evaluation for TLC: two hops pay between W and A through a *)
(* V2 and a V3 pool, in one order at the start and in the other after a move, and *)
(* between U and A through two V2 pools; three hops pay round the triangle W, A,  *)
(* B, whose first pool of a pair may be a stable one.  The V3 pool bw is          *)
(* registered but has not been swapped with: it has a price and liquidity, and no *)
(* float reserves.  The fees of ua2 and bw are not known.                         *)
EXTENDS Evaluation, TLC

Pool(t0, t1, fee) == [t0 |-> t0, t1 |-> t1, fee |-> fee, stable |-> FALSE, v3 |-> FALSE]
StablePool(t0, t1, fee) == [Pool(t0, t1, fee) EXCEPT !.stable = TRUE]
PoolV3(t0, t1, fee) == [Pool(t0, t1, fee) EXCEPT !.v3 = TRUE]

MCPools ==
    [wa1 |-> Pool("W", "A", 10),
     wa2 |-> PoolV3("A", "W", 5),
     wa3 |-> StablePool("W", "A", 10),
     ua1 |-> Pool("U", "A", 10),
     ua2 |-> Pool("A", "U", 0),
     ab1 |-> StablePool("A", "B", 10),
     ab2 |-> Pool("A", "B", 10),
     bw |-> PoolV3("W", "B", 0),
     wu |-> Pool("W", "U", 10)]

MCAnchors == <<"W", "U">>

MCPairPools ==
    ({"W", "A"} :> <<"wa3", "wa1", "wa2">>) @@ ({"U", "A"} :> <<"ua1", "ua2">>)
    @@ ({"A", "B"} :> <<"ab1", "ab2">>) @@ ({"B", "W"} :> <<"bw">>)
    @@ ({"W", "U"} :> <<"wu">>)

MCStart ==
    [wa1 |-> <<100, 400>>, wa2 |-> <<1302, 997, 56, 1140>>, wa3 |-> <<10, 10>>,
     ua1 |-> <<100, 1000>>, ua2 |-> <<10, 101>>,
     ab1 |-> <<10, 10>>, ab2 |-> <<100, 100>>, bw |-> <<0, 0, 21, 300>>, wu |-> <<100, 100>>]

(* wa1 so that the other order pays, ua1 so that no optimum is positive, the stable *)
(* pool larger than ab2, and wa2 at another price.                                  *)
MCMoves ==
    {<<"wa1", <<1000, 200>>>>, <<"ua1", <<500, 600>>>>, <<"ab1", <<200, 200>>>>,
     <<"wa2", <<1042, 1246, 70, 1140>>>>}

MCLogs == {<<"W", "A">>, <<"A", "U">>, <<"A", "B">>, <<"W", "U">>}

(* The float results that may be off by one are, in either direction. *)
MCRoundoff(numerator, denominator) == IF (numerator \div 2) % 2 = 0 THEN 1 ELSE -1

Symmetry == Permutations(Callers) \cup Permutations(Workers)
=============================================================================
