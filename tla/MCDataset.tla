------------------------------ MODULE MCDataset ------------------------------
(* A small instance of Dataset for TLC. *)
EXTENDS Dataset

CONSTANTS a, b, notes

Of(x, y, z) == [n \in Names |-> CASE n = a -> x [] n = b -> y [] n = notes -> z]

\* One .wav; two; the same two the other way round; one beside another file.
MCSources == {Of(1, 0, 0), Of(1, 2, 0), Of(2, 1, 0), Of(1, 0, 1)}
=============================================================================
