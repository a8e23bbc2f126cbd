--------------------------- MODULE NonceTracker ---------------------------
(* Bot/State/nonce_tracker.go at the grain of its atomic instructions.      *)
(* Several goroutines use the tracker at once: worker3 takes nonces, every  *)
(* broadcast goroutine may roll one back, a ticker stores the node's value. *)
(* The wrap-around of the 64-bit word is out of reach and not modelled.     *)
(* Names differ from those of TxPipeline: TxPipelineProofs extends both.    *)
EXTENDS Naturals

CONSTANTS
    Goroutines,     \* callers of the tracker
    MaxNonce        \* bound: values the node reports and NextNonce may reach

ASSUME MaxNonceAssumption == MaxNonce \in Nat

VARIABLES
    nonce,          \* the atomic word
    pc,             \* where each goroutine stands in its call
    current,        \* Rollback's local: the value it loaded
    pendingNonce,   \* SyncFromNode's local: the node's answer
    ret             \* the last call each goroutine completed, and its result

trackerVars == <<nonce, pc, current, pendingNonce, ret>>

Results == [op : {"none", "next", "rollback", "sync"}, val : Nat]

\* Every variable holds a value of its kind.
TrackerTypeOK ==
    /\ nonce \in 0..MaxNonce
    /\ pc \in [Goroutines -> {"idle", "cas", "store"}]
    /\ current \in [Goroutines -> 0..MaxNonce]
    /\ pendingNonce \in [Goroutines -> 0..MaxNonce]
    /\ ret \in [Goroutines -> Results]

\* main.go syncs the tracker with the node before any goroutine starts.
TrackerInit ==
    /\ nonce \in 0..MaxNonce
    /\ pc = [g \in Goroutines |-> "idle"]
    /\ current = [g \in Goroutines |-> 0]
    /\ pendingNonce = [g \in Goroutines |-> 0]
    /\ ret = [g \in Goroutines |-> [op |-> "none", val |-> 0]]

Return(g, op, val) == ret' = [ret EXCEPT ![g] = [op |-> op, val |-> val]]

Goto(g, label) == pc' = [pc EXCEPT ![g] = label]

\* NextNonce is one fetch-and-add; it returns the value before the addition.
NextNonce(g) ==
    /\ pc[g] = "idle"
    /\ nonce < MaxNonce
    /\ nonce' = nonce + 1
    /\ Return(g, "next", nonce)
    /\ UNCHANGED <<pc, current, pendingNonce>>

\* Faulty variant: no test for zero.
RollbackLoadNoZero(g) ==
    /\ pc[g] = "idle"
    /\ Goto(g, "cas")
    /\ current' = [current EXCEPT ![g] = nonce]
    /\ UNCHANGED <<nonce, pendingNonce, ret>>

\* Rollback loads the word and returns at once when it is zero.
RollbackLoad(g) ==
    /\ pc[g] = "idle"
    /\ \/ nonce = 0 /\ Return(g, "rollback", 0) /\ UNCHANGED <<pc, current>>
       \/ nonce # 0 /\ Goto(g, "cas") /\ current' = [current EXCEPT ![g] = nonce] /\ UNCHANGED ret
    /\ UNCHANGED <<nonce, pendingNonce>>

\* Faulty variant: a plain store instead of the compare-and-swap.
RollbackStore(g) ==
    /\ pc[g] = "cas"
    /\ nonce' = current[g] - 1
    /\ Goto(g, "idle")
    /\ Return(g, "rollback", current[g] - 1)
    /\ UNCHANGED <<current, pendingNonce>>

\* Rollback's compare-and-swap succeeds.
RollbackSwap(g) ==
    /\ pc[g] = "cas"
    /\ nonce = current[g]
    /\ nonce' = current[g] - 1
    /\ Goto(g, "idle")
    /\ Return(g, "rollback", current[g] - 1)
    /\ UNCHANGED <<current, pendingNonce>>

\* Rollback's compare-and-swap fails: back to the load.
RollbackRetry(g) ==
    /\ pc[g] = "cas"
    /\ nonce # current[g]
    /\ \/ nonce = 0 /\ Goto(g, "idle") /\ Return(g, "rollback", 0) /\ UNCHANGED current
       \/ nonce # 0 /\ current' = [current EXCEPT ![g] = nonce] /\ UNCHANGED <<pc, ret>>
    /\ UNCHANGED <<nonce, pendingNonce>>

\* SyncFromNode: the RPC answers (on an error it returns and changes nothing).
SyncFromNodeRead(g) ==
    /\ pc[g] = "idle"
    /\ \E n \in 0..MaxNonce : pendingNonce' = [pendingNonce EXCEPT ![g] = n]
    /\ Goto(g, "store")
    /\ UNCHANGED <<nonce, current, ret>>

\* SyncFromNode: the store.
SyncFromNodeStore(g) ==
    /\ pc[g] = "store"
    /\ nonce' = pendingNonce[g]
    /\ Goto(g, "idle")
    /\ Return(g, "sync", pendingNonce[g])
    /\ UNCHANGED <<current, pendingNonce>>

Step(g) ==
    \/ NextNonce(g)
    \/ RollbackLoad(g)
    \/ RollbackSwap(g)
    \/ RollbackRetry(g)
    \/ SyncFromNodeRead(g)
    \/ SyncFromNodeStore(g)

TrackerNext == \E g \in Goroutines : Step(g)

TrackerSpec == TrackerInit /\ [][TrackerNext]_trackerVars
----------------------------------------------------------------------------
Abstract == INSTANCE NonceCounter WITH counter <- nonce

\* The fetch-and-add, the retry loop of Rollback and the two halves of
\* SyncFromNode are together the atomic counter of NonceCounter: every call
\* takes effect once, on the value the call before it left, however the calls
\* of several goroutines overlap (nonce_tracker.go:25-66).
AtomicCounter == Abstract!Spec
============================================================================
