--------------------------- MODULE MCTxPipeline ---------------------------
(* Small instances of TxPipeline. *)
EXTENDS TxPipeline, TLC

\* Payload objects and goroutines are interchangeable.
Symmetry == Permutations(Payloads) \cup Permutations(Threads)
============================================================================
