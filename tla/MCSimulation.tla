---------------------------- MODULE MCSimulation ----------------------------
EXTENDS Simulation, TLC

\* Two routes of one token that share a pool; the second pays only if the
\* local EVM has measured its gas.
RouteValues ==
    {[pools |-> {"a", "b"}, tokens |-> {"weth", "meme"}, profit |-> 9],
     [pools |-> {"b", "c"}, tokens |-> {"weth", "meme"}, profit |-> 5]}

\* Workers and payload objects are interchangeable.
Symmetry == Permutations(Workers) \cup Permutations(Payloads)
=============================================================================
