------------------------- MODULE MCPersistentQueue -------------------------
(***************************************************************************)
(* An instance of PersistentQueue for TLC.                                 *)
(*                                                                         *)
(* One producer and the consumer, as on the measurement queue, are enough  *)
(* for two calls to overlap.  Capacity 3 (20 and 30 in the firmware) lets  *)
(* the queue be empty, partly full and full, with a middle that could be   *)
(* lost; two messages tell an order from another.  Two records held back   *)
(* by stdio make a last flush that fails lose none, one or two of them.    *)
(***************************************************************************)
EXTENDS PersistentQueue, TLC

\* Messages are interchangeable.
Symmetry == Permutations(Item)

=============================================================================
