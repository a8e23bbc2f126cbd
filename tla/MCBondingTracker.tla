-------------------------- MODULE MCBondingTracker --------------------------
EXTENDS BondingTracker, TLC

\* Below the threshold, on it, past the target; the platforms with their own rule.
MCReadings ==
    {[platform |-> "Virtuals", current |-> c, target |-> 1000] : c \in {998, 999, 1001}}
    \cup {[platform |-> "PumpBase", current |-> c, target |-> 0] : c \in {255, 256}}
    \cup {[platform |-> "ClawLaunch", current |-> 4995, target |-> 0],
          [platform |-> "Thryx", current |-> 999999, target |-> 0]}

Symmetry == Permutations(Processors) \cup Permutations(Tokens)
=============================================================================
