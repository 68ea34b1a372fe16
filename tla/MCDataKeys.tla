----------------------------- MODULE MCDataKeys -----------------------------
(* Small instances of DataKeys for TLC. *)
EXTENDS DataKeys, TLC

CONSTANTS t1, t2, k1, k2

\* A later save is larger than an earlier one, and the largest fits one key only.
RisingSize == [t \in Tasks |-> IF t = t1 THEN 1 ELSE 2]

MCKeyMax == (k1 :> 2) @@ (k2 :> 1)

=============================================================================
