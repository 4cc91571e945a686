---------------------------- MODULE MCDataCache -----------------------------
(***************************************************************************)
(* Instances of the data cache for TLC: one value to store, and locals     *)
(* left with ones.                                                         *)
(***************************************************************************)
EXTENDS DataCache

MCStored == {[k \in 0 .. 7 |-> IF k \in {0, 5} THEN 1 ELSE 0]}

MCLeftovers == {[k \in 0 .. 7 |-> 1]}

\* Where only the timing is of interest.
MCNoBytes == {[k \in 0 .. 7 |-> 0]}

=============================================================================
