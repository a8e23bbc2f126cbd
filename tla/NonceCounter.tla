--------------------------- MODULE NonceCounter ---------------------------
(* What Bot/State/nonce_tracker.go promises its callers: one shared nonce   *)
(* changed by whole operations, each of which reads the value the last one  *)
(* left.  NonceTracker shows that the lock-free code behaves like this, and *)
(* TxPipeline takes each call as one step on its strength.                  *)
EXTENDS Naturals

CONSTANTS
    Goroutines,     \* callers
    MaxNonce        \* bound on the values of the counter

VARIABLES
    counter,        \* the nonce
    ret             \* the last call each goroutine completed, and its result

Results == [op : {"none", "next", "rollback", "sync"}, val : Nat]

Init ==
    /\ counter \in 0..MaxNonce
    /\ ret = [g \in Goroutines |-> [op |-> "none", val |-> 0]]

Return(g, op, val) == ret' = [ret EXCEPT ![g] = [op |-> op, val |-> val]]

\* The caller owns the value it gets; the counter moves on by one.
NextNonce(g) == counter' = counter + 1 /\ Return(g, "next", counter)

\* One step back from the present value, and nothing at zero.
Rollback(g) ==
    /\ counter' = IF counter = 0 THEN 0 ELSE counter - 1
    /\ Return(g, "rollback", counter')

\* The counter takes a value read from the node.
Sync(g) == \E n \in 0..MaxNonce : counter' = n /\ Return(g, "sync", n)

Next == \E g \in Goroutines : NextNonce(g) \/ Rollback(g) \/ Sync(g)

Spec == Init /\ [][Next]_<<counter, ret>>
============================================================================
