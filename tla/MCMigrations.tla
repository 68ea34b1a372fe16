---------------------------- MODULE MCMigrations ----------------------------
(* Small instances of Migrations for TLC. *)
EXTENDS Migrations, TLC

CONSTANTS r1, r2, r3

\* Two replicas of one revision, and one whose second file was edited.
MCChecksum == [r \in Runners |-> [f \in 1 .. NFiles |-> IF f = 2 /\ r = r3 THEN "edited" ELSE "as deployed"]]

\* One replica of each revision may crash.
MCMaxCrashes == [r \in Runners |-> IF r = r2 THEN 0 ELSE 1]

=============================================================================
