---------------------------- MODULE MCLiquidation ----------------------------
EXTENDS Liquidation

\* Nothing; covered; not covered; covered by the other asset alone, or with it.
AccountValues ==
    {Empty,
     [coll |-> 300, rest |-> 0, debt |-> 100], [coll |-> 60, rest |-> 0, debt |-> 80],
     [coll |-> 0, rest |-> 200, debt |-> 80], [coll |-> 60, rest |-> 200, debt |-> 80]}
=============================================================================
