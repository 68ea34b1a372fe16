---------------------------- MODULE MCDeltaSync ----------------------------
(* Small instances of DeltaSync for TLC: a device syncing one or two keys   *)
(* while other requests write them.                                         *)
EXTENDS DeltaSync, TLC

CONSTANTS s1, t1, t2, t3, k1, k2

\* One key under three writers: its row may be stored, deleted and stored again
\* before or while a device that holds the first row syncs it. The other key is
\* one that no request may name.
OneKeyTasks == {t1, t2, t3} \cup ({s1} \X {k1, k2})

OnePage == <<{k1, k2}>>

OneKeyLists == {<<k1>>, <<k2>>}

\* Two keys under one writer: a batch of two saves.
TwoKeyTasks == {t1} \cup ({s1} \X {k1, k2})

\* Two keys on two pages: another request can write between the pages.
TwoPages == <<{k1}, {k2}>>

\* No uploads, one or two, and a list over max_sync_uploads.
TwoKeyLists == {<<>>, <<k1>>, <<k1, k2>>, <<k1, k1>>, <<k2, k1, k2>>}

\* What t2 would store is too large, so that it can only delete.
TwoWriterSize == [t \in Tasks |-> IF t = t2 THEN 3 ELSE 1]

UnitSize == [t \in Tasks |-> 1]

\* Two uploads, or the value of t1 alone, fill a MaxTotal of 2.
LargerSize == [t \in Tasks |-> IF t = t1 THEN 2 ELSE 1]

MCKeyMax == [k \in Keys |-> 2]

WriterSymmetry == Permutations({t1, t3})

\* The writers take turns, but for what they left on the wire; the sync runs
\* beside them.
WritersTakeTurns ==
    Cardinality({t \in Clients : pc[t] \in {"reading", "waiting"}}) <= 1

\* Only the sync names the other key; the writers would be refused at once.
WritersWriteOneKey == \A t \in Clients : req[t].key # k2

=============================================================================
