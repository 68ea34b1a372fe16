--------------------------- MODULE DeltaSyncProofs ---------------------------
(***************************************************************************)
(* Proofs about DeltaSync, for any devices, keys, pages, other requests    *)
(* and resends. What DataKeysProofs shows of the rows holds here too: the  *)
(* saves of a batch are steps of DataKeys, and dropping them is harmless.  *)
(* On top of that, every sync knows places in the history of the rows: the *)
(* listed row is at mark (ListedOK), a row sent to the device at or after  *)
(* it (DownloadsOK), and what the sync itself stores comes later. For the  *)
(* size limit, it knows which rows are older than it is (OlderRowsOK) and  *)
(* that what it accepted fits beside the rows it listed (PlanOK).          *)
(***************************************************************************)
EXTENDS DeltaSync, QuotaProofs

\* An upload has begun only if the checks accepted its key.
UploadsOK ==
    \A s \in Syncs, k \in Keys :
        pc[<<s, k>>] # "idle" => k \in accepted[s] /\ req[<<s, k>>].key = k

\* Rows are written by requests that have begun, with versions from 1.
WritersOK ==
    \A k \in Keys : \A i \in 1 .. Len(past[k]) :
        /\ past[k][i].writer # None => pc[past[k][i].writer] # "idle"
        /\ past[k][i] # NoRow => past[k][i].version >= 1

Listed(s, k) == \E i \in 1 .. page[s] : k \in Pages[i]

\* What is known where the handler stands.
PlacesOK(s) ==
    /\ phase[s] \in {"fetching", "saving", "done"} => \A k \in Keys : Listed(s, k)
    /\ phase[s] \in {"idle", "refused", "listing"} => DOMAIN fetched[s] = {}
    /\ phase[s] \notin {"saving", "done", "failed"} => accepted[s] = {}
    /\ phase[s] \notin {"saving", "done"} => response[s] = NoResponse
    /\ phase[s] # "done" => response[s].uploaded = {}

ListedOK(s) ==
    \A k \in Keys : Listed(s, k) =>
        mark[s][k] \in 1 .. Len(past[k]) /\ past[k][mark[s][k]] = manifest[s][k]

AcceptedOK(s) ==
    \A k \in accepted[s] : Listed(s, k) /\ k \notin Blocked /\ ~ Dominated(s, k)

FetchedOK(s) ==
    \A k \in DOMAIN fetched[s] : Listed(s, k) /\ fetched[s][k] \in SinceListed(s, k)

\* A row that was sent was stored before anything the sync stores under its key.
DownloadsOK(s) ==
    \A k \in Keys : response[s].downloads[k] # NoRow =>
        /\ k \notin Blocked
        /\ \E p \in mark[s][k] .. Len(past[k]) :
               /\ p >= 1 /\ past[k][p] = response[s].downloads[k]
               /\ \A i \in 1 .. p : past[k][i].writer # <<s, k>>

\* Each row of the manifest is held by the device, reported, or fetched.
CoverOK(s) ==
    phase[s] \in {"saving", "done"} =>
        \A k \in Keys \ Blocked : manifest[s][k] # NoRow =>
            \/ claims[s][k].writer = manifest[s][k].writer
            \/ Reported(s, k)
            \/ response[s].downloads[k] \in SinceListed(s, k)

\* The manifest of the answer is the one read, but for the uploads reported.
MergedOK(s) ==
    phase[s] = "done" =>
        \A k \in Keys :
            /\ \/ response[s].manifest[k] \in {NoRow, manifest[s][k]}
               \/ k \in Saved(s) /\ response[s].manifest[k] = UploadedRow(s, k)
            /\ k \in Blocked => response[s].manifest[k] = NoRow
            /\ k \in response[s].uploaded =>
                   k \in Saved(s) /\ response[s].manifest[k] = UploadedRow(s, k)

SyncAt(s) ==
    /\ PlacesOK(s) /\ ListedOK(s) /\ AcceptedOK(s)
    /\ FetchedOK(s) /\ DownloadsOK(s) /\ CoverOK(s) /\ MergedOK(s)

YInv == SInv /\ SyncTypeOK /\ UploadsOK /\ WritersOK /\ \A s \in Syncs : SyncAt(s)

\* What every step does to the rows and to the requests: the history grows, a
\* request that has begun stays begun, and a save that is acknowledged stays so.
Kept ==
    /\ Grown
    /\ \A t \in Tasks :
           /\ pc[t] # "idle" => pc'[t] # "idle" /\ req'[t] = req[t]
           /\ answer[t].status = "saved" => answer'[t] = answer[t]

-----------------------------------------------------------------------------
LEMMA UploadTasks ==
    /\ \A s \in Syncs, k \in Keys : <<s, k>> \in Tasks /\ <<s, k>> # None
    /\ None \notin Tasks
BY SyncAssumption, TasksAssumption

\* What the database does to the rows, with the request it does it for.
LEMMA ExecuteRows ==
    ASSUME SInv, NEW m \in wire, Execute(m)
    PROVE  \E rows \in [Keys -> Row] :
               /\ Store(rows)
               /\ \A k \in Keys : \/ rows[k] = data[k]
                                  \/ rows[k] = NoRow
                                  \/ /\ rows[k].version = data[k].version + 1
                                     /\ rows[k].writer = m.task
<1>1. data \in [Keys -> Row] /\ m.task \in Tasks /\ m.expect \in Nat
  BY DEF SInv, HInv, TypeOK, Copy
<1>2. CASE ExecuteSave(m)
  <2> DEFINE k == req[m.task].key
             new == [version |-> m.expect + 1, writer |-> m.task]
  <2>1. k \in Keys /\ new \in Row
    BY <1>1, <1>2 DEF ExecuteSave, SInv, HInv, HandlersOK, Row
  <2>2. CASE Applies(m)
    <3>1. Store([data EXCEPT ![k] = new])
      BY <1>2, <2>2 DEF ExecuteSave
    <3>2. data[k].version = m.expect
      BY <2>2 DEF Applies
    <3> HIDE DEF k
    <3>3. /\ [data EXCEPT ![k] = new] \in [Keys -> Row]
          /\ \A j \in Keys \ {k} : [data EXCEPT ![k] = new][j] = data[j]
          /\ [data EXCEPT ![k] = new][k] = new
      BY <1>1, <2>1
    <3> QED
      BY <3>1, <3>2, <3>3
  <2>3. CASE ~ Applies(m)
    BY <1>1, <1>2, <2>3 DEF ExecuteSave
  <2> QED
    BY <2>2, <2>3
<1>3. CASE ExecuteDelete(m)
  <2> DEFINE rows == [k \in Keys |-> IF k \in Erased(m.task) THEN NoRow ELSE data[k]]
  <2>1. Store(rows) /\ rows \in [Keys -> Row]
    BY <1>1, <1>3, LoopType DEF ExecuteDelete
  <2> QED
    BY <2>1
<1> QED
  BY <1>2, <1>3 DEF Execute

LEMMA StoreGrows ==
    ASSUME SInv, NEW rows \in [Keys -> Row], Store(rows)
    PROVE  Grown
<1>1. ASSUME NEW k \in Keys
      PROVE  /\ Len(past[k]) <= Len(past'[k])
             /\ \A i \in 1 .. Len(past[k]) : past'[k][i] = past[k][i]
             /\ data'[k] # data[k] => Len(past'[k]) >= Len(past[k]) + 1
  <2>1. /\ past[k] \in Seq(Row) /\ rows[k] \in Row /\ data'[k] = rows[k]
        /\ past'[k] = IF rows[k] = data[k] THEN past[k] ELSE Append(past[k], rows[k])
    BY DEF SInv, HInv, TypeOK, Store
  <2> QED
    BY <2>1
<1> QED
  BY <1>1 DEF Grown

\* The handler of one request moves, and only that one.
LEMMA HandlerKept ==
    ASSUME SInv, NEW t \in Tasks, Handle(t) \/ Resend(t)
    PROVE  /\ UNCHANGED <<data, past, req>>
           /\ pc[t] \in {"reading", "waiting"} /\ pc'[t] # "idle"
           /\ \A u \in Tasks \ {t} : pc'[u] = pc[u] /\ answer'[u] = answer[u]
<1> USE DEF SInv, HInv, TypeOK
<1>1. CASE ReadTotal(t) \/ ReadRow(t)
  BY <1>1 DEF ReadTotal, ReadRow
<1>2. CASE RefuseForQuota(t) \/ ReceiveApplied(t) \/ GiveUpAfterRetries(t) \/ Fail(t)
  BY <1>2 DEF RefuseForQuota, ReadsDone, ReceiveApplied, GiveUpAfterRetries, Fail, MayFail, Finish
<1>3. CASE Send(t) \/ Resend(t)
  BY <1>3 DEF Send, ReadsDone, Resend, SendFrom
<1>4. CASE RetryAfterConflict(t)
  BY <1>4 DEF RetryAfterConflict
<1> QED
  BY <1>1, <1>2, <1>3, <1>4 DEF Handle

\* A request begins, or is refused, and only that one.
LEMMA ArrivalKept ==
    ASSUME SInv, NEW t \in Tasks, NEW op, NEW k, Begin(t, op, k) \/ Refuse(t, op, k)
    PROVE  /\ UNCHANGED <<data, past>>
           /\ pc[t] = "idle" /\ pc'[t] # "idle" /\ req'[t].key = k
           /\ \A u \in Tasks \ {t} :
                  pc'[u] = pc[u] /\ answer'[u] = answer[u] /\ req'[u] = req[u]
<1> USE DEF SInv, HInv, TypeOK
<1>1. CASE Begin(t, op, k)
  BY <1>1 DEF Begin, SendFrom
<1>2. CASE Refuse(t, op, k)
  BY <1>2 DEF Refuse, Finish
<1> QED
  BY <1>1, <1>2

LEMMA SavedIsDone ==
    ASSUME SInv, NEW t \in Tasks, answer[t].status = "saved"
    PROVE  pc[t] = "done"
BY DEF SInv, AnswerAt

LEMMA StepKept ==
    ASSUME SInv, WritersOK, [Step]_vars
    PROVE  Kept /\ WritersOK'
<1>0. \A k \in Keys : past[k] \in Seq(Row)
  BY DEF SInv, HInv, TypeOK
<1>1. ASSUME NEW t \in Tasks, UNCHANGED <<data, past>>, pc[t] # "done", pc'[t] # "idle",
             pc[t] # "idle" => req'[t] = req[t],
             \A u \in Tasks \ {t} : pc'[u] = pc[u] /\ answer'[u] = answer[u] /\ req'[u] = req[u]
      PROVE  Kept /\ WritersOK'
  <2>1. Grown
    BY <1>1, HistoryStays DEF SInv
  <2>2. Kept
    BY <1>1, <2>1, SavedIsDone DEF Kept
  <2>3. ASSUME NEW k \in Keys, NEW i \in 1 .. Len(past[k])
        PROVE  past[k][i].writer \in Tasks \cup {None}
    <3>1. past[k][i] \in Row
      BY <1>0
    <3> QED
      BY <3>1 DEF Row
  <2>4. \A u \in Tasks : pc[u] # "idle" => pc'[u] # "idle"
    BY <2>2 DEF Kept
  <2>5. ASSUME NEW k \in Keys, NEW i \in 1 .. Len(past'[k])
        PROVE  /\ past'[k][i].writer # None => pc'[past'[k][i].writer] # "idle"
               /\ past'[k][i] # NoRow => past'[k][i].version >= 1
    BY <1>1, <2>3, <2>4 DEF WritersOK
  <2> QED
    BY <2>2, <2>5 DEF WritersOK
<1>2. ASSUME NEW m \in wire, Execute(m) PROVE Kept /\ WritersOK'
  <2>1. PICK rows \in [Keys -> Row] :
               /\ Store(rows)
               /\ \A k \in Keys : \/ rows[k] = data[k]
                                  \/ rows[k] = NoRow
                                  \/ /\ rows[k].version = data[k].version + 1
                                     /\ rows[k].writer = m.task
    BY <1>2, ExecuteRows
  <2>2. UNCHANGED <<pc, req, answer>> /\ pc[m.task] # "idle" /\ data \in [Keys -> Row]
    BY <1>2 DEF Execute, ExecuteSave, ExecuteDelete, SInv, HInv, WireOK, TypeOK
  <2>3. Kept
    BY <2>1, <2>2, StoreGrows DEF Kept
  <2>4. ASSUME NEW k \in Keys, NEW i \in 1 .. Len(past'[k])
        PROVE  /\ past'[k][i].writer # None => pc'[past'[k][i].writer] # "idle"
               /\ past'[k][i] # NoRow => past'[k][i].version >= 1
    <3>1. CASE i \in 1 .. Len(past[k])
      BY <2>2, <2>3, <3>1 DEF Kept, Grown, WritersOK
    <3>2. CASE i \notin 1 .. Len(past[k])
      <4>1. past'[k] = Append(past[k], rows[k]) /\ rows[k] # data[k]
        BY <2>1, <3>2 DEF Store
      <4>2. past'[k][i] = rows[k]
        BY <1>0, <3>2, <4>1
      <4>3. data[k].version \in Nat
        BY <2>2 DEF Row
      <4> QED
        BY <2>1, <2>2, <4>1, <4>2, <4>3 DEF NoRow
    <3> QED
      BY <3>1, <3>2
  <2> QED
    BY <2>3, <2>4 DEF WritersOK
<1>3. ASSUME NEW t \in Tasks, NEW op \in Calls, NEW k \in Keys \cup {None},
             Begin(t, op, k) \/ Refuse(t, op, k)
      PROVE  Kept /\ WritersOK'
  BY <1>1, <1>3, ArrivalKept
<1>4. ASSUME NEW t \in Tasks, Handle(t) \/ Resend(t) PROVE Kept /\ WritersOK'
  BY <1>1, <1>4, HandlerKept
<1>5. CASE UNCHANGED vars
  <2>1. Grown
    BY <1>5, HistoryStays DEF SInv, vars
  <2> QED
    BY <1>5, <2>1 DEF vars, Kept, WritersOK
<1> QED
  BY <1>2, <1>3, <1>4, <1>5 DEF Step

\* Dropping the saves of a batch that still run: their copies stay on the wire.
LEMMA DropKept ==
    ASSUME SInv, WritersOK, NEW s \in Syncs, Drop(s)
    PROVE  /\ SInv' /\ Kept /\ WritersOK'
           /\ \A t \in Tasks : pc'[t] # "idle" => pc[t] # "idle"
<1> DEFINE running == {<<s, k>> : k \in {j \in Keys : pc[<<s, j>>] \in {"reading", "waiting"}}}
<1>1. /\ pc' = [t \in Tasks |-> IF t \in running THEN "done" ELSE pc[t]]
      /\ local' = [t \in Tasks |-> IF t \in running THEN Loop(0) ELSE local[t]]
      /\ answer' = [t \in Tasks |-> IF t \in running THEN Told("error") ELSE answer[t]]
      /\ UNCHANGED <<data, wire, req, past, before, from>>
  BY DEF Drop
<1>2. \A t \in running : t \in Tasks /\ Active(t)
  BY UploadTasks DEF Active
<1> HIDE DEF running
<1>3. ASSUME NEW t \in Tasks
      PROVE  \/ /\ t \in running /\ Active(t)
                /\ pc'[t] = "done" /\ local'[t] = Loop(0) /\ answer'[t] = Told("error")
             \/ pc'[t] = pc[t] /\ local'[t] = local[t] /\ answer'[t] = answer[t]
  BY <1>1, <1>2
<1>4. TypeOK'
  BY <1>1, LoopType, ConstantFacts DEF SInv, HInv, TypeOK
<1>5. HandlersOK'
  <2>1. Loop(0).reply = {}
    BY LoopFields
  <2> QED
    BY <1>1, <1>3, <2>1 DEF SInv, HInv, HandlersOK, Active, IsSave
<1>6. WireOK'
  <2>1. \A m \in wire : m.task \in Tasks
    BY DEF SInv, HInv, TypeOK, Copy
  <2> QED
    BY <1>1, <1>3, <2>1 DEF SInv, HInv, WireOK, Active
<1>7. PastOK' /\ Grown
  BY <1>1, HistoryStays DEF SInv
<1>8. ASSUME NEW t \in Tasks PROVE SeenAt(t)' /\ AnswerAt(t)'
  <2>1. CASE pc'[t] = "done" /\ answer'[t] = Told("error")
    BY <2>1 DEF SeenAt, AnswerAt, Active, Told
  <2>2. CASE pc'[t] = pc[t] /\ local'[t] = local[t] /\ answer'[t] = answer[t]
    BY <1>1, <1>4, <1>5, <1>6, <1>7, <2>2, OthersKept, AnswersKept DEF HInv
  <2> QED
    BY <1>3, <2>1, <2>2
<1>9. \A t \in Tasks : pc[t] # "idle" <=> pc'[t] # "idle"
  BY <1>3 DEF Active
<1>10. Kept
  BY <1>1, <1>3, <1>7, <1>9, SavedIsDone DEF Kept, Active
<1>11. WritersOK'
  <2>1. ASSUME NEW k \in Keys, NEW i \in 1 .. Len(past[k])
        PROVE  past[k][i].writer \in Tasks \cup {None}
    <3>1. past[k][i] \in Row
      BY DEF SInv, HInv, TypeOK
    <3> QED
      BY <3>1 DEF Row
  <2> QED
    BY <1>1, <1>9, <2>1 DEF WritersOK
<1> QED
  BY <1>4, <1>5, <1>6, <1>7, <1>8, <1>9, <1>10, <1>11 DEF SInv, HInv

-----------------------------------------------------------------------------
(* One sync. *)

\* Rows from the listed one on stay where they are in the history.
LEMMA SinceStays ==
    ASSUME SInv, SInv', Kept, NEW s \in Syncs, NEW k \in Keys,
           mark[s][k] \in 1 .. Len(past[k]), mark'[s][k] = mark[s][k]
    PROVE  /\ SinceListed(s, k) \subseteq SinceListed(s, k)'
           /\ mark'[s][k] \in 1 .. Len(past'[k])
           /\ past'[k][mark[s][k]] = past[k][mark[s][k]]
<1>1. /\ past[k] \in Seq(Row) /\ past'[k] \in Seq(Row)
      /\ Len(past[k]) <= Len(past'[k])
      /\ \A i \in 1 .. Len(past[k]) : past'[k][i] = past[k][i]
  BY DEF SInv, HInv, TypeOK, Kept, Grown
<1>2. Len(past[k]) \in Nat /\ Len(past'[k]) \in Nat
  BY <1>1
<1>3. \A i \in mark[s][k] .. Len(past[k]) : i \in 1 .. Len(past[k]) /\ i \in mark[s][k] .. Len(past'[k])
  BY <1>1, <1>2
<1> QED
  BY <1>1, <1>2, <1>3 DEF SinceListed

SameSync(s) ==
    /\ phase'[s] = phase[s] /\ claims'[s] = claims[s] /\ page'[s] = page[s]
    /\ manifest'[s] = manifest[s] /\ fetched'[s] = fetched[s] /\ accepted'[s] = accepted[s]
    /\ response'[s] = response[s] /\ mark'[s] = mark[s]

\* What is known of a sync stays true while others move.
LEMMA SyncStays ==
    ASSUME YInv, SInv', Kept, NEW s \in Syncs, SameSync(s)
    PROVE  SyncAt(s)'
<1>1. \A k \in Keys : Listed(s, k)' <=> Listed(s, k)
  BY DEF Listed, SameSync
<1>2. /\ PlacesOK(s) /\ ListedOK(s) /\ AcceptedOK(s) /\ FetchedOK(s)
      /\ DownloadsOK(s) /\ CoverOK(s) /\ MergedOK(s)
  BY DEF YInv, SyncAt
<1>3. PlacesOK(s)'
  BY <1>1, <1>2 DEF PlacesOK, SameSync
<1>4. ASSUME NEW k \in Keys, Listed(s, k)
      PROVE  /\ SinceListed(s, k) \subseteq SinceListed(s, k)'
             /\ mark'[s][k] \in 1 .. Len(past'[k])
             /\ past'[k][mark[s][k]] = past[k][mark[s][k]]
  BY <1>2, <1>4, SinceStays DEF ListedOK, YInv, SameSync
<1>5. ListedOK(s)'
  BY <1>1, <1>2, <1>4 DEF ListedOK, SameSync
<1>6. AcceptedOK(s)'
  BY <1>1, <1>2 DEF AcceptedOK, SameSync, Dominated, YInv, SyncTypeOK
<1>7. FetchedOK(s)'
  <2>1. DOMAIN fetched[s] \subseteq Keys
    <3>1. PICK ks \in SUBSET Keys : fetched[s] \in [ks -> Row]
      BY DEF YInv, SyncTypeOK
    <3> QED
      BY <3>1
  <2> QED
    BY <1>1, <1>2, <1>4, <2>1 DEF FetchedOK, SameSync
<1>8. DownloadsOK(s)'
  <2> SUFFICES ASSUME NEW k \in Keys, response[s].downloads[k] # NoRow
               PROVE  /\ k \notin Blocked
                      /\ \E p \in mark[s][k] .. Len(past'[k]) :
                             /\ p >= 1 /\ past'[k][p] = response[s].downloads[k]
                             /\ \A i \in 1 .. p : past'[k][i].writer # <<s, k>>
    BY DEF DownloadsOK, SameSync
  <2>1. PICK p \in mark[s][k] .. Len(past[k]) :
               /\ p >= 1 /\ past[k][p] = response[s].downloads[k]
               /\ \A i \in 1 .. p : past[k][i].writer # <<s, k>>
    BY <1>2 DEF DownloadsOK
  <2>2. /\ past[k] \in Seq(Row) /\ past'[k] \in Seq(Row)
        /\ Len(past[k]) <= Len(past'[k])
        /\ \A i \in 1 .. Len(past[k]) : past'[k][i] = past[k][i]
        /\ mark[s][k] \in Nat
    BY DEF YInv, SInv, HInv, TypeOK, Kept, Grown, SyncTypeOK
  <2>3. Len(past[k]) \in Nat /\ Len(past'[k]) \in Nat
    BY <2>2
  <2>4. p \in mark[s][k] .. Len(past'[k]) /\ \A i \in 1 .. p : past'[k][i] = past[k][i]
    BY <2>1, <2>2, <2>3
  <2>5. p \in 1 .. p
    BY <2>1, <2>2, <2>3
  <2> QED
    BY <1>2, <2>1, <2>4, <2>5 DEF DownloadsOK
<1>9. CoverOK(s)'
  BY <1>2, <1>4 DEF CoverOK, PlacesOK, SameSync, Reported
<1>10. \A k \in Keys : k \in Saved(s) => k \in Saved(s)' /\ UploadedRow(s, k)' = UploadedRow(s, k)
  BY UploadTasks DEF Kept, Saved, UploadedRow
<1>11. MergedOK(s)'
  BY <1>2, <1>10 DEF MergedOK, SameSync
<1> QED
  BY <1>3, <1>5, <1>6, <1>7, <1>8, <1>9, <1>11 DEF SyncAt

\* A step that changes nothing of any sync.
LEMMA StepElsewhere ==
    ASSUME YInv, [Step]_vars, UNCHANGED syncVars, UploadsOK'
    PROVE  YInv'
<1>1. SInv' /\ Kept /\ WritersOK'
  BY StepSInv, StepKept DEF YInv
<1>2. \A s \in Syncs : SyncAt(s)'
  BY <1>1, SyncStays DEF syncVars, SameSync
<1>3. SyncTypeOK'
  BY <1>1 DEF YInv, SyncTypeOK, syncVars, SInv, HInv
<1> QED
  BY <1>1, <1>2, <1>3 DEF YInv

\* A step of one sync that leaves the rows and requests alone.
LEMMA StepOfSync ==
    ASSUME YInv, UNCHANGED vars, SyncTypeOK', NEW s \in Syncs,
           \A r \in Syncs \ {s} : SameSync(r),
           accepted[s] \subseteq accepted'[s],
           SyncAt(s)'
    PROVE  YInv'
<1>1. SInv' /\ Kept /\ WritersOK'
  BY StepSInv, StepKept DEF YInv
<1>2. \A r \in Syncs : SyncAt(r)'
  BY <1>1, SyncStays
<1>3. UploadsOK'
  BY DEF YInv, UploadsOK, vars, SameSync
<1> QED
  BY <1>1, <1>2, <1>3 DEF YInv

\* A step that drops the saves of one sync.
LEMMA StepOfDrop ==
    ASSUME YInv, NEW s \in Syncs, Drop(s), TypeOK' => SyncTypeOK', accepted' = accepted,
           \A r \in Syncs \ {s} : SameSync(r),
           SInv' /\ Kept => SyncAt(s)'
    PROVE  YInv'
<1>1. SInv' /\ Kept /\ WritersOK' /\ \A t \in Tasks : pc'[t] # "idle" => pc[t] # "idle"
  BY DropKept DEF YInv
<1>2. \A r \in Syncs : SyncAt(r)'
  BY <1>1, SyncStays
<1>3. UploadsOK'
  BY <1>1, UploadTasks DEF YInv, UploadsOK, Drop
<1> QED
  BY <1>1, <1>2, <1>3 DEF YInv, SInv, HInv

-----------------------------------------------------------------------------
(* The actions. *)

LEMMA NoResponseType ==
    /\ NoResponse \in Response /\ NoResponse.downloads = NoRows /\ NoResponse.uploaded = {}
    /\ \A k \in Keys : NoRows[k] = NoRow
BY LoopType DEF NoResponse, Response, NoRows

LEMMA InitYInv == SyncInit => YInv
<1> SUFFICES ASSUME SyncInit PROVE YInv
  OBVIOUS
<1>1. SInv
  BY InitSInv DEF SyncInit
<1>2. SyncTypeOK
  <2>1. <<>> \in [{} -> Row] /\ {} \in SUBSET Keys
    OBVIOUS
  <2>2. Len(Pages) \in Nat
    BY SyncAssumption
  <2>3. /\ DOMAIN fetched = Syncs
        /\ \A s \in Syncs : \E ks \in SUBSET Keys : fetched[s] \in [ks -> Row]
    <3>1. DOMAIN fetched = Syncs /\ \A s \in Syncs : fetched[s] = <<>>
      BY DEF SyncInit
    <3> QED
      BY <2>1, <3>1
  <2>4. response \in [Syncs -> Response] /\ \A s \in Syncs : response[s].uploaded = {}
    BY NoResponseType DEF SyncInit
  <2>5. /\ page \in [Syncs -> 0 .. Len(Pages)]
        /\ base \in [Syncs -> [Keys -> Nat]] /\ mark \in [Syncs -> [Keys -> Nat]]
    BY <2>2 DEF SyncInit
  <2>6. claims \in [Syncs -> [Keys -> Row]] /\ manifest \in [Syncs -> [Keys -> Row]]
    BY LoopType DEF SyncInit
  <2>7. /\ phase \in [Syncs -> {"idle", "refused", "listing", "fetching", "saving", "done", "failed"}]
        /\ uploads \in [Syncs -> UploadLists \cup {<<>>}]
        /\ accepted \in [Syncs -> SUBSET Keys]
        /\ since \in [Syncs -> SUBSET Tasks]
    BY DEF SyncInit
  <2> QED
    BY <1>1, <2>3, <2>4, <2>5, <2>6, <2>7 DEF SyncTypeOK, SInv, HInv
<1>3. UploadsOK
  BY UploadTasks DEF SyncInit, Init, UploadsOK
<1>4. WritersOK
  BY DEF SyncInit, Init, WritersOK, NoRow
<1>5. ASSUME NEW s \in Syncs PROVE SyncAt(s)
  <2>1. /\ phase[s] = "idle" /\ page[s] = 0 /\ accepted[s] = {} /\ response[s] = NoResponse
        /\ fetched[s] = <<>>
    BY DEF SyncInit
  <2>2. \A k \in Keys : ~ Listed(s, k)
    BY <2>1 DEF Listed
  <2> QED
    BY <2>1, <2>2, NoResponseType
    DEF SyncAt, PlacesOK, ListedOK, AcceptedOK, FetchedOK, DownloadsOK, CoverOK, MergedOK
<1> QED
  BY <1>1, <1>2, <1>3, <1>4, <1>5 DEF YInv

LEMMA HoldingsType ==
    ASSUME YInv, NEW s \in Syncs, NEW k \in Keys
    PROVE  \A h \in Holdings(s, k) : /\ h.at \in 1 .. Len(past[k]) /\ h.row \in Row
                                    /\ past[k][h.at].version = h.row.version
<1>1. past[k] \in Seq(Row)
  BY DEF YInv, SInv, HInv, TypeOK
<1>2. \A r \in Row : [r EXCEPT !.writer = <<s, k>>] \in Row
  BY UploadTasks DEF Row
<1>3. \A r \in Row : [r EXCEPT !.writer = <<s, k>>].version = r.version
  BY DEF Row
<1>4. \A i \in DOMAIN past[k] : i \in 1 .. Len(past[k]) /\ past[k][i] \in Row
  BY <1>1
<1> SUFFICES ASSUME NEW h \in Holdings(s, k)
             PROVE  /\ h.at \in 1 .. Len(past[k]) /\ h.row \in Row
                    /\ past[k][h.at].version = h.row.version
  OBVIOUS
<1>5. PICK i \in DOMAIN past[k] :
          \E row \in {past[k][i], [past[k][i] EXCEPT !.writer = <<s, k>>]} :
              h = [at |-> i, row |-> row]
  BY DEF Holdings
<1>6. PICK row \in {past[k][i], [past[k][i] EXCEPT !.writer = <<s, k>>]} :
          h = [at |-> i, row |-> row]
  BY <1>5
<1>7. h.at = i /\ h.row = row
  BY <1>6
<1>8. row \in Row /\ row.version = past[k][i].version
  BY <1>2, <1>3, <1>4, <1>6
<1> QED
  BY <1>4, <1>7, <1>8

LEMMA StartSyncStep ==
    ASSUME YInv, NEW s \in Syncs, StartSync(s)
    PROVE  YInv'
<1>1. PICK list \in UploadLists, held \in [Keys -> UNION {Holdings(s, k) : k \in Keys}],
          tooLong \in BOOLEAN :
           /\ \A k \in Keys : held[k] \in Holdings(s, k)
           /\ uploads' = [uploads EXCEPT ![s] = list]
           /\ claims' = [claims EXCEPT ![s] = [k \in Keys |-> held[k].row]]
           /\ base' = [base EXCEPT ![s] = [k \in Keys |-> held[k].at]]
           /\ phase' = [phase EXCEPT ![s] = IF Len(list) > MaxUploads \/ tooLong THEN "refused"
                                            ELSE "listing"]
  BY DEF StartSync
<1>2. /\ phase[s] = "idle" /\ since' = [since EXCEPT ![s] = {u \in Tasks : Settled(u)}]
      /\ UNCHANGED <<vars, page, manifest, fetched, accepted, response, mark>>
  BY DEF StartSync
<1>3. /\ [k \in Keys |-> held[k].row] \in [Keys -> Row]
      /\ [k \in Keys |-> held[k].at] \in [Keys -> Nat]
  <2>1. \A k \in Keys : held[k].row \in Row /\ held[k].at \in 1 .. Len(past[k])
    BY <1>1, HoldingsType
  <2> QED
    BY <2>1
<1>4. SyncTypeOK'
  BY <1>1, <1>2, <1>3 DEF YInv, SyncTypeOK, vars, TypeOK
<1>5. \A r \in Syncs \ {s} : SameSync(r)
  BY <1>1, <1>2 DEF YInv, SyncTypeOK, SameSync
<1>6. phase'[s] \in {"refused", "listing"}
  BY <1>1 DEF YInv, SyncTypeOK
<1>7. SyncAt(s)'
  <2>1. /\ accepted[s] = {} /\ response[s] = NoResponse /\ DOMAIN fetched[s] = {} /\ ListedOK(s)
    BY <1>2 DEF YInv, SyncAt, PlacesOK
  <2>2. PlacesOK(s)' /\ CoverOK(s)' /\ MergedOK(s)'
    BY <1>2, <1>6, <2>1, NoResponseType DEF PlacesOK, CoverOK, MergedOK
  <2>3. ListedOK(s)'
    BY <1>2, <2>1 DEF ListedOK, Listed, vars
  <2>4. AcceptedOK(s)' /\ FetchedOK(s)' /\ DownloadsOK(s)'
    BY <1>2, <2>1, NoResponseType DEF AcceptedOK, FetchedOK, DownloadsOK
  <2> QED
    BY <2>2, <2>3, <2>4 DEF SyncAt
<1> QED
  BY <1>2, <1>4, <1>5, <1>7, StepOfSync

LEMMA ReadPageStep ==
    ASSUME YInv, NEW s \in Syncs, ReadPage(s)
    PROVE  YInv'
<1> DEFINE n == page[s] + 1
           listed == Pages[n]
<1>1. /\ phase[s] = "listing" /\ page[s] < Len(Pages)
      /\ manifest' = [manifest EXCEPT ![s] =
                          [k \in Keys |-> IF k \in listed THEN data[k] ELSE manifest[s][k]]]
      /\ mark' = [mark EXCEPT ![s] =
                      [k \in Keys |-> IF k \in listed THEN Len(past[k]) ELSE mark[s][k]]]
      /\ page' = [page EXCEPT ![s] = n]
      /\ phase' = [phase EXCEPT ![s] = IF n = Len(Pages) THEN "fetching" ELSE phase[s]]
      /\ UNCHANGED <<vars, claims, uploads, fetched, accepted, response, base, since>>
  BY DEF ReadPage, YInv, SyncTypeOK
<1>2. Len(Pages) \in Nat /\ page[s] \in Nat /\ n \in 1 .. Len(Pages)
  BY <1>1, SyncAssumption DEF YInv, SyncTypeOK
<1>3. \A k \in Keys : /\ data[k] \in Row /\ past[k] \in Seq(Row) /\ Len(past[k]) \in Nat
                      /\ Len(past[k]) >= 1 /\ past[k][Len(past[k])] = data[k]
  BY DEF YInv, SInv, HInv, TypeOK, PastOK
<1> HIDE DEF listed
<1>4. SyncTypeOK'
  BY <1>1, <1>2, <1>3 DEF YInv, SyncTypeOK, vars, TypeOK
<1>5. \A r \in Syncs \ {s} : SameSync(r)
  BY <1>1 DEF YInv, SyncTypeOK, SameSync
<1>6. SyncAt(s)'
  <2>1. /\ accepted[s] = {} /\ response[s] = NoResponse /\ DOMAIN fetched[s] = {} /\ ListedOK(s)
    BY <1>1 DEF YInv, SyncAt, PlacesOK
  <2>2. /\ page'[s] = n /\ phase'[s] = IF n = Len(Pages) THEN "fetching" ELSE "listing"
        /\ \A k \in Keys :
               /\ k \in listed => manifest'[s][k] = data[k] /\ mark'[s][k] = Len(past[k])
               /\ k \notin listed => manifest'[s][k] = manifest[s][k] /\ mark'[s][k] = mark[s][k]
    BY <1>1 DEF YInv, SyncTypeOK
  <2>3. \A k \in Keys : Listed(s, k)' <=> Listed(s, k) \/ k \in listed
    BY <1>2, <2>2 DEF Listed, listed
  <2>4. ListedOK(s)'
    <3> SUFFICES ASSUME NEW k \in Keys, Listed(s, k)'
                 PROVE  /\ mark'[s][k] \in 1 .. Len(past[k])
                        /\ past[k][mark'[s][k]] = manifest'[s][k]
      BY <1>1 DEF ListedOK, vars
    <3>1. CASE k \in listed
      <4>1. mark'[s][k] = Len(past[k]) /\ manifest'[s][k] = data[k]
        BY <2>2, <3>1
      <4>2. Len(past[k]) \in 1 .. Len(past[k]) /\ past[k][Len(past[k])] = data[k]
        BY <1>3
      <4> QED
        BY <4>1, <4>2
    <3>2. CASE k \notin listed
      <4>1. mark'[s][k] = mark[s][k] /\ manifest'[s][k] = manifest[s][k]
        BY <2>2, <3>2
      <4>2. Listed(s, k)
        BY <2>3, <3>2
      <4> QED
        BY <2>1, <4>1, <4>2 DEF ListedOK
    <3> QED
      BY <3>1, <3>2
  <2>5. n = Len(Pages) => \A k \in Keys : Listed(s, k)'
    <3>1. \A k \in Keys : \E i \in DOMAIN Pages : k \in Pages[i]
      BY SyncAssumption
    <3>2. DOMAIN Pages = 1 .. Len(Pages)
      BY SyncAssumption
    <3> QED
      BY <2>2, <3>1, <3>2 DEF Listed
  <2>6. PlacesOK(s)' /\ CoverOK(s)' /\ MergedOK(s)'
    BY <1>1, <2>1, <2>2, <2>5, NoResponseType DEF PlacesOK, CoverOK, MergedOK
  <2>7. AcceptedOK(s)' /\ FetchedOK(s)' /\ DownloadsOK(s)'
    BY <1>1, <2>1, NoResponseType DEF AcceptedOK, FetchedOK, DownloadsOK
  <2> QED
    BY <2>4, <2>6, <2>7 DEF SyncAt
<1> QED
  BY <1>1, <1>4, <1>5, <1>6, StepOfSync

LEMMA FetchStep ==
    ASSUME YInv, NEW s \in Syncs, NEW k \in Keys, Fetch(s, k)
    PROVE  YInv'
<1> DEFINE got == [j \in DOMAIN fetched[s] \cup {k} |-> IF j = k THEN data[k] ELSE fetched[s][j]]
<1>1. /\ phase[s] = "fetching" /\ fetched' = [fetched EXCEPT ![s] = got]
      /\ UNCHANGED <<vars, phase, claims, uploads, page, manifest, accepted, response, base, mark, since>>
  BY DEF Fetch, YInv, SyncTypeOK
<1>2. PICK ks \in SUBSET Keys : fetched[s] \in [ks -> Row]
  BY DEF YInv, SyncTypeOK
<1>3. /\ data[k] \in Row /\ past[k] \in Seq(Row) /\ Len(past[k]) \in Nat
      /\ Len(past[k]) >= 1 /\ past[k][Len(past[k])] = data[k]
  BY DEF YInv, SInv, HInv, TypeOK, PastOK
<1>4. got \in [ks \cup {k} -> Row] /\ ks \cup {k} \in SUBSET Keys
  BY <1>2, <1>3
<1>5. /\ fetched'[s] = got /\ DOMAIN got = ks \cup {k}
      /\ \A r \in Syncs \ {s} : fetched'[r] = fetched[r]
      /\ DOMAIN fetched' = Syncs
      /\ \A r \in Syncs : \E js \in SUBSET Keys : fetched'[r] \in [js -> Row]
  <2>1. (\E js \in SUBSET Keys : got \in [js -> Row]) /\ DOMAIN got = ks \cup {k}
    BY <1>4
  <2> HIDE DEF got
  <2> QED
    BY <1>1, <2>1 DEF YInv, SyncTypeOK
<1>6. \A j \in ks \cup {k} : got[j] = IF j = k THEN data[k] ELSE fetched[s][j]
  BY <1>2
<1> HIDE DEF got
<1>7. SyncTypeOK'
  BY <1>1, <1>5 DEF YInv, SyncTypeOK, vars, TypeOK
<1>8. \A r \in Syncs \ {s} : SameSync(r)
  BY <1>1, <1>5 DEF SameSync
<1>9. SyncAt(s)'
  <2>1. SyncAt(s)
    BY DEF YInv
  <2>2. Listed(s, k) /\ data[k] \in SinceListed(s, k)
    BY <1>1, <1>3, <2>1 DEF SyncAt, PlacesOK, ListedOK, SinceListed
  <2>3. FetchedOK(s)'
    BY <1>1, <1>2, <1>5, <1>6, <2>1, <2>2 DEF SyncAt, FetchedOK, Listed, SinceListed, vars
  <2>4. PlacesOK(s)' /\ ListedOK(s)' /\ AcceptedOK(s)'
    BY <1>1, <2>1 DEF SyncAt, PlacesOK, ListedOK, AcceptedOK, Listed, Dominated, vars
  <2>5. DownloadsOK(s)' /\ CoverOK(s)' /\ MergedOK(s)'
    BY <1>1, <2>1 DEF SyncAt, PlacesOK, DownloadsOK, CoverOK, MergedOK, vars
  <2> QED
    BY <2>3, <2>4, <2>5 DEF SyncAt
<1> QED
  BY <1>1, <1>7, <1>8, <1>9, StepOfSync

LEMMA ObjectionFacts ==
    ASSUME NEW s, NEW i, NEW size
    PROVE  /\ Objection(s, i, size) # "none" => Objection(s, i, size) \in Reasons
           /\ Objection(s, i, size) = "none" =>
                  uploads[s][i] \notin Blocked /\ ~ Dominated(s, uploads[s][i])
BY DEF Objection, Reasons

\* What the checks accept, and what they report.
LEMMA ChecksType ==
    ASSUME YInv, NEW s \in Syncs
    PROVE  /\ Valid(s) \subseteq Keys
           /\ \A k \in Valid(s) : k \notin Blocked /\ ~ Dominated(s, k)
           /\ Invalid(s) \subseteq [key : Keys, error : Reasons]
<1>1. \A i \in DOMAIN uploads[s] : uploads[s][i] \in Keys
  <2>1. uploads[s] \in UploadLists \cup {<<>>}
    BY DEF YInv, SyncTypeOK
  <2>2. uploads[s] \in Seq(Keys)
    <3>1. <<>> \in Seq(Keys)
      OBVIOUS
    <3>2. UploadLists \subseteq Seq(Keys)
      BY SyncAssumption
    <3> QED
      BY <2>1, <3>1, <3>2
  <2> QED
    BY <2>2
<1>2. \A i : /\ Verdict(s, i) # "none" => Verdict(s, i) \in Reasons
             /\ Verdict(s, i) = "none" =>
                    uploads[s][i] \notin Blocked /\ ~ Dominated(s, uploads[s][i])
  BY ObjectionFacts DEF Verdict
<1>3. \A k \in Keys, e \in Reasons : Problem(k, e) \in [key : Keys, error : Reasons]
  BY DEF Problem
<1>4. ASSUME NEW k \in Valid(s) PROVE k \in Keys \ Blocked /\ ~ Dominated(s, k)
  <2>1. PICK i \in DOMAIN uploads[s] : Verdict(s, i) = "none" /\ k = uploads[s][i]
    BY DEF Valid
  <2> QED
    BY <1>1, <1>2, <2>1
<1>5. ASSUME NEW e \in Invalid(s) PROVE e \in [key : Keys, error : Reasons]
  <2> DEFINE failing == {j \in DOMAIN uploads[s] : Verdict(s, j) # "none"}
  <2>0. Invalid(s) = {Problem(uploads[s][j], Verdict(s, j)) : j \in failing}
    BY DEF Invalid
  <2> HIDE DEF failing
  <2>1. PICK i \in failing : e = Problem(uploads[s][i], Verdict(s, i))
    <3>1. e \in {Problem(uploads[s][j], Verdict(s, j)) : j \in failing}
      BY <1>5, <2>0
    <3> QED
      BY <3>1, Zenon
  <2>2. i \in DOMAIN uploads[s] /\ Verdict(s, i) # "none"
    BY Zenon DEF failing
  <2>3. uploads[s][i] \in Keys
    BY <1>1, <2>2
  <2>4. Verdict(s, i) \in Reasons
    BY <1>2, <2>2
  <2> QED
    BY <1>3, <2>1, <2>3, <2>4
<1> QED
  BY <1>4, <1>5

\* A device that holds the listed row, with its version, has its content.
LEMMA UpToDateFacts ==
    ASSUME YInv, NEW s \in Syncs, NEW k \in Keys, Listed(s, k),
           manifest[s][k] # NoRow, UpToDate(s, k)
    PROVE  claims[s][k].writer = manifest[s][k].writer
<1>1. CASE uploads[s] = <<>>
  <2>1. NoRows[k].version >= manifest[s][k].version /\ NoRows[k].version = 0
    BY <1>1 DEF UpToDate, ClientMap, NoRows, NoRow
  <2>2. PICK i \in 1 .. Len(past[k]) : past[k][i] = manifest[s][k]
    BY DEF YInv, SyncAt, ListedOK
  <2>3. manifest[s][k].version >= 1 /\ manifest[s][k].version \in Nat
    BY <2>2 DEF YInv, WritersOK, SyncTypeOK, Row
  <2> QED
    BY <2>1, <2>3
<1>2. CASE uploads[s] # <<>>
  BY <1>2 DEF UpToDate, ClientMap
<1> QED
  BY <1>1, <1>2

LEMMA CheckStep ==
    ASSUME YInv, NEW s \in Syncs, NEW downloaded \in BOOLEAN, Check(s, downloaded)
    PROVE  YInv'
<1> DEFINE sent == [k \in Keys |-> IF downloaded /\ k \in ToDownload(s) THEN fetched[s][k] ELSE NoRow]
           lost == {Problem(k, "download") : k \in IF downloaded THEN {} ELSE ToDownload(s)}
           told == [response[s] EXCEPT !.downloads = sent, !.errors = Invalid(s) \cup lost]
<1>1. /\ phase[s] = "fetching" /\ (downloaded => DOMAIN fetched[s] = ToDownload(s))
      /\ accepted' = [accepted EXCEPT ![s] = Valid(s)]
      /\ response' = [response EXCEPT ![s] = told]
      /\ phase' = [phase EXCEPT ![s] = "saving"]
      /\ fetched' = [fetched EXCEPT ![s] = <<>>]
      /\ UNCHANGED <<vars, claims, uploads, page, manifest, base, mark, since>>
  BY DEF Check, YInv, SyncTypeOK
<1>2. SyncAt(s) /\ (\A k \in Keys : Listed(s, k)) /\ accepted[s] = {} /\ response[s] = NoResponse
  BY <1>1 DEF YInv, SyncAt, PlacesOK
<1>3. ToDownload(s) \subseteq Keys \ Blocked
  BY DEF ToDownload
<1>4. downloaded => \A k \in ToDownload(s) : fetched[s][k] \in Row /\ fetched[s][k] \in SinceListed(s, k)
  <2>1. PICK ks \in SUBSET Keys : fetched[s] \in [ks -> Row]
    BY DEF YInv, SyncTypeOK
  <2> QED
    BY <1>1, <1>2, <2>1 DEF SyncAt, FetchedOK
<1>5. sent \in [Keys -> Row]
  BY <1>4, LoopType
<1>6. /\ lost \subseteq [key : Keys, error : Reasons]
      /\ ~ downloaded => \A k \in ToDownload(s) : \E e \in lost : e.key = k
  <2>1. ASSUME NEW k \in Keys
        PROVE  /\ Problem(k, "download") \in [key : Keys, error : Reasons]
               /\ Problem(k, "download").key = k
    BY DEF Problem, Reasons
  <2>2. CASE downloaded
    <3>1. lost = {}
      BY <2>2
    <3> QED
      BY <2>2, <3>1
  <2>3. CASE ~ downloaded
    <3>1. lost = {Problem(k, "download") : k \in ToDownload(s)}
      BY <2>3
    <3> HIDE DEF lost
    <3> QED
      BY <1>3, <2>1, <3>1
  <2> QED
    BY <2>2, <2>3
<1>7. /\ told \in Response /\ told.downloads = sent /\ told.errors = Invalid(s) \cup lost
      /\ told.uploaded = {} /\ told.manifest = response[s].manifest
  <2>1. response[s] \in Response /\ response[s].uploaded = {}
    BY <1>2, NoResponseType
  <2> HIDE DEF sent, lost
  <2> QED
    BY <1>5, <1>6, <2>1, ChecksType DEF Response
<1>8. \A k \in Keys : sent[k] = IF downloaded /\ k \in ToDownload(s) THEN fetched[s][k] ELSE NoRow
  OBVIOUS
<1> HIDE DEF told, sent, lost
<1>10. /\ accepted'[s] = Valid(s) /\ response'[s] = told /\ phase'[s] = "saving"
       /\ DOMAIN fetched'[s] = {}
       /\ accepted' \in [Syncs -> SUBSET Keys] /\ response' \in [Syncs -> Response]
       /\ phase' \in [Syncs -> {"idle", "refused", "listing", "fetching", "saving", "done", "failed"}]
  BY <1>1, <1>7, ChecksType DEF YInv, SyncTypeOK
<1>11. \A r \in Syncs \ {s} : SameSync(r)
  BY <1>1 DEF YInv, SyncTypeOK, SameSync
<1>12. SyncTypeOK'
  <2>1. /\ DOMAIN fetched' = Syncs
        /\ \A r \in Syncs : \E ks \in SUBSET Keys : fetched'[r] \in [ks -> Row]
    <3>1. <<>> \in [{} -> Row] /\ {} \in SUBSET Keys
      OBVIOUS
    <3>2. /\ DOMAIN fetched' = Syncs /\ fetched'[s] = <<>>
          /\ \A r \in Syncs \ {s} : fetched'[r] = fetched[r]
      BY <1>1 DEF YInv, SyncTypeOK
    <3> QED
      BY <3>1, <3>2 DEF YInv, SyncTypeOK
  <2>2. \A r \in Syncs : response'[r].uploaded \subseteq accepted'[r]
    BY <1>7, <1>10, <1>11 DEF YInv, SyncTypeOK, SameSync
  <2> QED
    BY <1>1, <1>10, <2>1, <2>2 DEF YInv, SyncTypeOK, vars, TypeOK
<1>13. SyncAt(s)'
  <2>1. \A k \in Keys : Listed(s, k)'
    BY <1>1, <1>2 DEF Listed
  <2>2. PlacesOK(s)' /\ MergedOK(s)' /\ FetchedOK(s)'
    BY <1>7, <1>10, <2>1 DEF PlacesOK, MergedOK, FetchedOK
  <2>3. ListedOK(s)'
    BY <1>1, <1>2, <2>1 DEF SyncAt, ListedOK, vars
  <2>4. AcceptedOK(s)'
    BY <1>1, <1>10, <2>1, ChecksType DEF AcceptedOK, Dominated
  <2>5. DownloadsOK(s)'
    <3> SUFFICES ASSUME NEW k \in Keys, sent[k] # NoRow
                 PROVE  /\ k \notin Blocked
                        /\ \E p \in mark[s][k] .. Len(past[k]) :
                               /\ p >= 1 /\ past[k][p] = sent[k]
                               /\ \A i \in 1 .. p : past[k][i].writer # <<s, k>>
      <4>1. response'[s].downloads = sent /\ mark' = mark /\ past' = past
        BY <1>1, <1>7, <1>10 DEF vars
      <4> QED
        BY <4>1 DEF DownloadsOK
    <3>1. downloaded /\ k \in ToDownload(s) /\ sent[k] = fetched[s][k]
      BY <1>8
    <3>2. PICK p \in mark[s][k] .. Len(past[k]) : past[k][p] = sent[k]
      BY <1>4, <3>1 DEF SinceListed
    <3>3. mark[s][k] \in 1 .. Len(past[k]) /\ past[k] \in Seq(Row)
      BY <1>2 DEF SyncAt, ListedOK, YInv, SInv, HInv, TypeOK
    <3>4. p >= 1 /\ p \in 1 .. Len(past[k]) /\ \A i \in 1 .. p : i \in 1 .. Len(past[k])
      BY <3>2, <3>3
    <3>5. pc[<<s, k>>] = "idle"
      BY <1>2 DEF YInv, UploadsOK
    <3>6. \A i \in 1 .. Len(past[k]) : past[k][i].writer # <<s, k>>
      BY <3>5, UploadTasks DEF YInv, WritersOK
    <3> QED
      BY <1>3, <3>1, <3>2, <3>4, <3>6
  <2>6. CoverOK(s)'
    <3> SUFFICES ASSUME NEW k \in Keys \ Blocked, manifest[s][k] # NoRow,
                        claims[s][k].writer # manifest[s][k].writer
                 PROVE  \/ \E e \in told.errors : e.key = k
                        \/ sent[k] \in SinceListed(s, k)
      BY <1>1, <1>7, <1>10 DEF CoverOK, Reported, SinceListed, vars
    <3>1. k \in ToDownload(s)
      BY <1>2, UpToDateFacts DEF ToDownload
    <3> QED
      BY <1>4, <1>6, <1>7, <1>8, <3>1
  <2> QED
    BY <2>2, <2>3, <2>4, <2>5, <2>6 DEF SyncAt
<1>14. accepted[s] \subseteq accepted'[s]
  BY <1>2
<1> QED
  BY <1>1, <1>11, <1>12, <1>13, <1>14, StepOfSync

LEMMA RespondStep ==
    ASSUME YInv, NEW s \in Syncs, Respond(s)
    PROVE  YInv'
<1> DEFINE merged == [k \in Keys |-> Visible(s, k)]
           told == [response[s] EXCEPT !.uploaded = Saved(s), !.manifest = merged]
<1>1. /\ phase[s] = "saving" /\ accepted[s] = Saved(s)
      /\ phase' = [phase EXCEPT ![s] = "done"]
      /\ response' = [response EXCEPT ![s] = told]
      /\ UNCHANGED <<vars, claims, uploads, page, manifest, fetched, accepted, base, mark, since>>
  BY DEF Respond, YInv, SyncTypeOK
<1>2. SyncAt(s) /\ \A k \in Keys : Listed(s, k)
  BY <1>1 DEF YInv, SyncAt, PlacesOK
<1>3. Saved(s) \subseteq Keys \ Blocked
  BY <1>1, <1>2 DEF SyncAt, AcceptedOK, Saved
<1>4. \A k \in Keys : UploadedRow(s, k) \in Row /\ manifest[s][k] \in Row
  BY UploadTasks DEF UploadedRow, Row, YInv, SyncTypeOK, TypeOK, Answer
<1>5. merged \in [Keys -> Row]
  BY <1>4, LoopType DEF Visible, MergedRow
<1>6. \A k \in Keys : merged[k] = Visible(s, k)
  OBVIOUS
<1> HIDE DEF merged
<1>7. /\ told \in Response /\ told.downloads = response[s].downloads /\ told.manifest = merged
      /\ told.uploaded = Saved(s) /\ told.errors = response[s].errors
  <2>1. response[s] \in Response
    BY DEF YInv, SyncTypeOK
  <2>2. told \in Response
    BY <1>3, <1>5, <2>1 DEF Response
  <2>3. told.uploaded = Saved(s) /\ told.manifest = merged
    BY <2>1 DEF Response
  <2> QED
    BY <2>1, <2>2, <2>3 DEF Response
<1> HIDE DEF told
<1>8. /\ phase'[s] = "done" /\ response'[s] = told /\ response' \in [Syncs -> Response]
      /\ phase' \in [Syncs -> {"idle", "refused", "listing", "fetching", "saving", "done", "failed"}]
      /\ \A r \in Syncs \ {s} : SameSync(r)
  BY <1>1, <1>7 DEF YInv, SyncTypeOK, SameSync
<1>9. SyncTypeOK'
  <2>1. \A r \in Syncs : response'[r].uploaded \subseteq accepted'[r]
    BY <1>1, <1>7, <1>8 DEF YInv, SyncTypeOK, SameSync
  <2> QED
    BY <1>1, <1>8, <2>1 DEF YInv, SyncTypeOK, vars, TypeOK
<1>10. SyncAt(s)'
  <2>1. ListedOK(s)' /\ AcceptedOK(s)' /\ FetchedOK(s)'
    BY <1>1, <1>2 DEF SyncAt, ListedOK, AcceptedOK, FetchedOK, Listed, Dominated, SinceListed, vars
  <2>2. PlacesOK(s)'
    BY <1>1, <1>2, <1>8 DEF PlacesOK, Listed
  <2>3. DownloadsOK(s)'
    <3>1. response'[s].downloads = response[s].downloads /\ mark' = mark /\ past' = past
      BY <1>1, <1>7, <1>8 DEF vars
    <3> QED
      BY <1>2, <3>1 DEF SyncAt, DownloadsOK
  <2>4. CoverOK(s)'
    BY <1>1, <1>2, <1>7, <1>8 DEF SyncAt, CoverOK, Reported, SinceListed, vars
  <2>5. MergedOK(s)'
    <3>1. Saved(s)' = Saved(s) /\ \A k \in Keys : UploadedRow(s, k)' = UploadedRow(s, k)
      BY <1>1 DEF Saved, UploadedRow, vars
    <3>2. ASSUME NEW k \in Keys
          PROVE  /\ \/ merged[k] \in {NoRow, manifest[s][k]}
                    \/ k \in Saved(s) /\ merged[k] = UploadedRow(s, k)
                 /\ k \in Blocked => merged[k] = NoRow
                 /\ k \in Saved(s) => merged[k] = UploadedRow(s, k)
      <4>1. merged[k] = IF k \in Blocked THEN NoRow
                        ELSE IF k \in Saved(s) THEN UploadedRow(s, k) ELSE manifest[s][k]
        BY <1>6 DEF Visible, MergedRow
      <4> QED
        BY <1>3, <4>1
    <3> QED
      BY <1>1, <1>7, <1>8, <3>1, <3>2 DEF MergedOK
  <2> QED
    BY <2>1, <2>2, <2>3, <2>4, <2>5 DEF SyncAt
<1> QED
  BY <1>1, <1>8, <1>9, <1>10, StepOfSync

LEMMA FailListingStep ==
    ASSUME YInv, NEW s \in Syncs, FailListing(s)
    PROVE  YInv'
<1>1. /\ phase[s] = "listing" /\ phase' = [phase EXCEPT ![s] = "failed"]
      /\ UNCHANGED <<vars, claims, uploads, page, manifest, fetched, accepted, response, base, mark, since>>
  BY DEF FailListing
<1>2. /\ phase'[s] = "failed" /\ \A r \in Syncs \ {s} : SameSync(r)
      /\ phase' \in [Syncs -> {"idle", "refused", "listing", "fetching", "saving", "done", "failed"}]
  BY <1>1 DEF YInv, SyncTypeOK, SameSync
<1>3. SyncTypeOK'
  BY <1>1, <1>2 DEF YInv, SyncTypeOK, vars, TypeOK
<1>4. SyncAt(s)'
  <2>1. SyncAt(s)
    BY DEF YInv
  <2>2. ListedOK(s)' /\ AcceptedOK(s)' /\ FetchedOK(s)'
    BY <1>1, <2>1 DEF SyncAt, ListedOK, AcceptedOK, FetchedOK, Listed, Dominated, SinceListed, vars
  <2>3. PlacesOK(s)' /\ DownloadsOK(s)' /\ CoverOK(s)' /\ MergedOK(s)'
    BY <1>1, <1>2, <2>1, NoResponseType DEF SyncAt, PlacesOK, DownloadsOK, CoverOK, MergedOK
  <2> QED
    BY <2>2, <2>3 DEF SyncAt
<1> QED
  BY <1>1, <1>2, <1>3, <1>4, StepOfSync

LEMMA FailBatchStep ==
    ASSUME YInv, NEW s \in Syncs, FailBatch(s)
    PROVE  YInv'
<1> DEFINE lost == {Problem(k, "save") : k \in accepted[s]}
           shown == [k \in Keys |-> IF k \in Blocked THEN NoRow ELSE manifest[s][k]]
           told == [response[s] EXCEPT !.errors = response[s].errors \cup lost, !.manifest = shown]
<1>1. /\ phase[s] = "saving" /\ Drop(s)
      /\ phase' = [phase EXCEPT ![s] = "done"]
      /\ response' = [response EXCEPT ![s] = told]
      /\ UNCHANGED <<claims, uploads, page, manifest, fetched, accepted, base, mark, since>>
  BY DEF FailBatch
<1>2. SyncAt(s) /\ (\A k \in Keys : Listed(s, k)) /\ response[s].uploaded = {}
  BY <1>1 DEF YInv, SyncAt, PlacesOK
<1>3. lost \subseteq [key : Keys, error : Reasons]
  <2>1. accepted[s] \subseteq Keys
    BY DEF YInv, SyncTypeOK
  <2>2. \A k \in Keys : Problem(k, "save") \in [key : Keys, error : Reasons]
    BY DEF Problem, Reasons
  <2> QED
    BY <2>1, <2>2
<1>4. shown \in [Keys -> Row]
  BY LoopType DEF YInv, SyncTypeOK
<1>5. \A k \in Keys : shown[k] = IF k \in Blocked THEN NoRow ELSE manifest[s][k]
  OBVIOUS
<1> HIDE DEF lost, shown
<1>6. /\ told \in Response /\ told.downloads = response[s].downloads /\ told.manifest = shown
      /\ told.uploaded = {} /\ response[s].errors \subseteq told.errors
  <2>1. response[s] \in Response
    BY DEF YInv, SyncTypeOK
  <2> QED
    BY <1>2, <1>3, <1>4, <2>1 DEF Response
<1> HIDE DEF told
<1>7. /\ phase'[s] = "done" /\ response'[s] = told /\ response' \in [Syncs -> Response]
      /\ phase' \in [Syncs -> {"idle", "refused", "listing", "fetching", "saving", "done", "failed"}]
      /\ \A r \in Syncs \ {s} : SameSync(r)
  BY <1>1, <1>6 DEF YInv, SyncTypeOK, SameSync
<1>8. ASSUME TypeOK' PROVE SyncTypeOK'
  <2>1. \A r \in Syncs : response'[r].uploaded \subseteq accepted'[r]
    BY <1>1, <1>6, <1>7 DEF YInv, SyncTypeOK, SameSync
  <2> QED
    BY <1>1, <1>7, <1>8, <2>1 DEF YInv, SyncTypeOK
<1>9. ASSUME SInv', Kept PROVE SyncAt(s)'
  <2>1. past' = past /\ mark' = mark /\ manifest' = manifest
    BY <1>1 DEF Drop
  <2>2. ListedOK(s)' /\ AcceptedOK(s)' /\ FetchedOK(s)'
    BY <1>1, <1>2, <2>1 DEF SyncAt, ListedOK, AcceptedOK, FetchedOK, Listed, Dominated, SinceListed
  <2>3. PlacesOK(s)'
    BY <1>1, <1>2, <1>7 DEF PlacesOK, Listed
  <2>4. DownloadsOK(s)'
    BY <1>2, <1>6, <1>7, <2>1 DEF SyncAt, DownloadsOK
  <2>5. CoverOK(s)'
    BY <1>1, <1>2, <1>6, <1>7, <2>1 DEF SyncAt, CoverOK, Reported, SinceListed
  <2>6. MergedOK(s)'
    BY <1>5, <1>6, <1>7, <2>1 DEF MergedOK
  <2> QED
    BY <2>2, <2>3, <2>4, <2>5, <2>6 DEF SyncAt
<1> QED
  BY <1>1, <1>7, <1>8, <1>9, StepOfDrop

LEMMA HangUpStep ==
    ASSUME YInv, NEW s \in Syncs, HangUp(s)
    PROVE  YInv'
<1>1. /\ Drop(s)
      /\ phase' = [phase EXCEPT ![s] = "failed"]
      /\ response' = [response EXCEPT ![s] = NoResponse]
      /\ UNCHANGED <<claims, uploads, page, manifest, fetched, accepted, base, mark, since>>
  BY DEF HangUp
<1>2. /\ phase'[s] = "failed" /\ response'[s] = NoResponse /\ response' \in [Syncs -> Response]
      /\ phase' \in [Syncs -> {"idle", "refused", "listing", "fetching", "saving", "done", "failed"}]
      /\ \A r \in Syncs \ {s} : SameSync(r)
  BY <1>1, NoResponseType DEF YInv, SyncTypeOK, SameSync
<1>3. ASSUME TypeOK' PROVE SyncTypeOK'
  <2>1. \A r \in Syncs : response'[r].uploaded \subseteq accepted'[r]
    BY <1>1, <1>2, NoResponseType DEF YInv, SyncTypeOK, SameSync
  <2> QED
    BY <1>1, <1>2, <1>3, <2>1 DEF YInv, SyncTypeOK
<1>4. ASSUME SInv', Kept PROVE SyncAt(s)'
  <2>1. past' = past /\ mark' = mark /\ manifest' = manifest
    BY <1>1 DEF Drop
  <2>2. SyncAt(s)
    BY DEF YInv
  <2>3. ListedOK(s)' /\ AcceptedOK(s)' /\ FetchedOK(s)'
    BY <1>1, <2>1, <2>2 DEF SyncAt, ListedOK, AcceptedOK, FetchedOK, Listed, Dominated, SinceListed
  <2>4. PlacesOK(s)' /\ DownloadsOK(s)' /\ CoverOK(s)' /\ MergedOK(s)'
    BY <1>2, NoResponseType DEF PlacesOK, DownloadsOK, CoverOK, MergedOK
  <2> QED
    BY <2>3, <2>4 DEF SyncAt
<1> QED
  BY <1>1, <1>2, <1>3, <1>4, StepOfDrop

\* The uploads, the other requests, the driver and the database.
LEMMA UploadStep ==
    ASSUME YInv, NEW s \in Syncs, NEW k \in Keys, BeginUpload(s, k) \/ StepUpload(s, k)
    PROVE  YInv'
<1>1. <<s, k>> \in Tasks
  BY UploadTasks
<1>2. CASE BeginUpload(s, k)
  <2>1. /\ Begin(<<s, k>>, "save", k) /\ k \in accepted[s] /\ UNCHANGED syncVars
    BY <1>2 DEF BeginUpload
  <2>2. [Step]_vars
    BY <1>1, <2>1 DEF Step, Calls
  <2>3. UploadsOK'
    <3>1. /\ req'[<<s, k>>].key = k
          /\ \A u \in Tasks \ {<<s, k>>} : pc'[u] = pc[u] /\ req'[u] = req[u]
      BY <1>1, <2>1, ArrivalKept DEF YInv
    <3>2. accepted' = accepted
      BY <2>1 DEF syncVars
    <3> QED
      BY <2>1, <3>1, <3>2, UploadTasks DEF YInv, UploadsOK
  <2> QED
    BY <2>1, <2>2, <2>3, StepElsewhere
<1>3. CASE StepUpload(s, k)
  <2>1. Handle(<<s, k>>) /\ UNCHANGED syncVars
    BY <1>3 DEF StepUpload, Handle
  <2>2. [Step]_vars
    BY <1>1, <2>1 DEF Step
  <2>3. UploadsOK'
    BY <1>1, <2>1, HandlerKept, UploadTasks DEF YInv, UploadsOK, syncVars
  <2> QED
    BY <2>1, <2>2, <2>3, StepElsewhere
<1> QED
  BY <1>2, <1>3

LEMMA ElsewhereStep ==
    ASSUME YInv, Elsewhere
    PROVE  YInv'
<1>0. UNCHANGED syncVars
  BY DEF Elsewhere
<1>1. ASSUME NEW t \in Clients, Arrive(t) PROVE YInv'
  <2>1. PICK op \in Ops, k \in Keys \cup {None} : Begin(t, op, k) \/ Refuse(t, op, k)
    BY <1>1 DEF Arrive
  <2>2. t \in Tasks /\ [Step]_vars
    <3>1. t \in Tasks /\ op \in Calls
      BY TasksAssumption DEF Calls, Clients
    <3> QED
      BY <2>1, <3>1 DEF Step
  <2>3. \A s \in Syncs, j \in Keys : <<s, j>> # t /\ <<s, j>> \in Tasks
    <3>1. t \notin Syncs \X Keys
      BY DEF Clients
    <3>2. \A s \in Syncs, j \in Keys : <<s, j>> \in Syncs \X Keys
      OBVIOUS
    <3> QED
      BY <3>1, <3>2, UploadTasks
  <2>4. \A u \in Tasks \ {t} : pc'[u] = pc[u] /\ req'[u] = req[u]
    BY <2>1, <2>2, ArrivalKept DEF YInv
  <2>5. UploadsOK'
    BY <1>0, <2>3, <2>4 DEF YInv, UploadsOK, syncVars
  <2> QED
    BY <1>0, <2>2, <2>5, StepElsewhere
<1>2. ASSUME NEW t \in Tasks, Handle(t) \/ Resend(t) PROVE YInv'
  <2>1. [Step]_vars
    BY <1>2 DEF Step
  <2>2. UploadsOK'
    BY <1>0, <1>2, HandlerKept, UploadTasks DEF YInv, UploadsOK, syncVars
  <2> QED
    BY <1>0, <2>1, <2>2, StepElsewhere
<1>3. ASSUME NEW m \in wire, Execute(m) PROVE YInv'
  <2>1. [Step]_vars
    BY <1>3 DEF Step
  <2>2. UploadsOK'
    BY <1>0, <1>3 DEF Execute, ExecuteSave, ExecuteDelete, YInv, UploadsOK, syncVars
  <2> QED
    BY <1>0, <2>1, <2>2, StepElsewhere
<1> QED
  BY <1>1, <1>2, <1>3 DEF Elsewhere, Clients

LEMMA NextYInv == YInv /\ [SyncNext]_allVars => YInv'
<1> SUFFICES ASSUME YInv, [SyncNext]_allVars PROVE YInv'
  OBVIOUS
<1>1. ASSUME NEW s \in Syncs, HandleSync(s) PROVE YInv'
  BY <1>1, ReadPageStep, FetchStep, CheckStep, UploadStep, RespondStep, FailBatchStep,
     FailListingStep DEF HandleSync
<1>2. CASE SyncRest \/ UNCHANGED allVars
  <2>1. UNCHANGED vars /\ UNCHANGED syncVars
    BY <1>2 DEF SyncRest, allVars
  <2>2. UploadsOK'
    BY <2>1 DEF YInv, UploadsOK, vars, syncVars
  <2> QED
    BY <2>1, <2>2, StepElsewhere
<1> QED
  BY <1>1, <1>2, StartSyncStep, HangUpStep, ElsewhereStep DEF SyncNext

\* The invariant holds in every state that devices, other requests and the database reach.
LEMMA YInvAlways == SyncSpec => []YInv
BY InitYInv, NextYInv, PTL DEF SyncSpec

-----------------------------------------------------------------------------
\* Whatever the devices, pages and uploads, a sync keeps its types: it accepts only
\* keys that exist, and reports as uploaded only what it accepted.
THEOREM SyncTypeCorrect == SyncSpec => []SyncTypeOK
<1>1. YInv => SyncTypeOK
  BY DEF YInv
<1> QED
  BY <1>1, YInvAlways, PTL

\* What the device holds is of the row at base: with the version it claims, and
\* from before the listing. What the sync stores comes after the listed row.
BaseOK(s) ==
    /\ phase[s] = "idle" => page[s] = 0
    /\ phase[s] # "idle" =>
           \A k \in Keys : /\ base[s][k] \in 1 .. Len(past[k])
                           /\ past[k][base[s][k]].version = claims[s][k].version
                           /\ Listed(s, k) => base[s][k] <= mark[s][k]
    /\ \A k \in Keys : \A i \in 1 .. Len(past[k]) :
           past[k][i].writer = <<s, k>> => i > mark[s][k]

BInv == YInv /\ \A s \in Syncs : BaseOK(s)

LEMMA SyncGrows ==
    ASSUME YInv, [SyncNext]_allVars
    PROVE  Grown
<1>1. CASE [Step]_vars
  BY <1>1, StepKept DEF YInv, Kept
<1>2. ASSUME NEW s \in Syncs, Drop(s) PROVE Grown
  BY <1>2, DropKept DEF YInv, Kept
<1>3. ASSUME NEW s \in Syncs, NEW k \in Keys, BeginUpload(s, k) \/ StepUpload(s, k)
      PROVE  [Step]_vars
  BY <1>3, UploadTasks DEF BeginUpload, StepUpload, Handle, Step, Calls
<1>4. ASSUME NEW s \in Syncs, HandleSync(s) PROVE Grown
  BY <1>1, <1>2, <1>3, <1>4
  DEF HandleSync, ReadPage, Fetch, Check, Respond, FailBatch, FailListing, Step
<1>5. ASSUME NEW s \in Syncs, StartSync(s) \/ HangUp(s) PROVE Grown
  BY <1>1, <1>2, <1>5 DEF StartSync, HangUp
<1>6. CASE Elsewhere
  <2>1. ASSUME NEW t \in Clients, Arrive(t) \/ Handle(t) PROVE [Step]_vars
    BY <2>1, TasksAssumption DEF Arrive, Clients, Step, Calls
  <2>2. [Step]_vars
    BY <1>6, <2>1 DEF Elsewhere, Step
  <2> QED
    BY <1>1, <2>2
<1>7. CASE SyncRest \/ UNCHANGED allVars
  BY <1>1, <1>7 DEF SyncRest, allVars
<1> QED
  BY <1>4, <1>5, <1>6, <1>7 DEF SyncNext

\* A sync stores only under keys it listed and was not too old for.
LEMMA OwnRows ==
    ASSUME YInv, NEW s \in Syncs, NEW k \in Keys, NEW i \in 1 .. Len(past[k]),
           past[k][i].writer = <<s, k>>
    PROVE  /\ k \in accepted[s] /\ Listed(s, k) /\ ~ Dominated(s, k)
           /\ mark[s][k] \in 1 .. Len(past[k]) /\ past[k][mark[s][k]] = manifest[s][k]
<1>1. pc[<<s, k>>] # "idle"
  BY UploadTasks DEF YInv, WritersOK
<1>2. k \in accepted[s]
  BY <1>1 DEF YInv, UploadsOK
<1> QED
  BY <1>2 DEF YInv, SyncAt, AcceptedOK, ListedOK

\* The history a copy is of stays where it is.
LEMMA BaseStays ==
    ASSUME YInv, YInv', Grown, NEW s \in Syncs, BaseOK(s),
           base'[s] = base[s], claims'[s] = claims[s],
           mark'[s] = mark[s], page'[s] = page[s], phase'[s] = "idle" <=> phase[s] = "idle"
    PROVE  BaseOK(s)'
<1> SUFFICES ASSUME NEW k \in Keys
             PROVE  /\ phase[s] # "idle" =>
                           /\ base[s][k] \in 1 .. Len(past'[k])
                           /\ past'[k][base[s][k]].version = claims[s][k].version
                           /\ Listed(s, k) => base[s][k] <= mark[s][k]
                    /\ \A i \in 1 .. Len(past'[k]) :
                           past'[k][i].writer = <<s, k>> => i > mark[s][k]
  BY DEF BaseOK, Listed
<1>1. /\ past[k] \in Seq(Row) /\ past'[k] \in Seq(Row) /\ Len(past[k]) <= Len(past'[k])
      /\ \A i \in 1 .. Len(past[k]) : past'[k][i] = past[k][i]
  BY DEF YInv, SInv, HInv, TypeOK, Grown
<1>2. Len(past[k]) \in Nat /\ Len(past'[k]) \in Nat
  BY <1>1
<1>3. ASSUME NEW i \in 1 .. Len(past'[k]), past'[k][i].writer = <<s, k>>
      PROVE  i > mark[s][k]
  <2>1. CASE i <= Len(past[k])
    <3>1. i \in 1 .. Len(past[k])
      BY <1>2, <2>1
    <3>2. past[k][i].writer = <<s, k>>
      BY <1>1, <1>3, <3>1
    <3> QED
      BY <3>1, <3>2 DEF BaseOK
  <2>2. CASE i > Len(past[k])
    <3>0. pc'[<<s, k>>] # "idle"
      BY <1>3, UploadTasks DEF YInv, WritersOK
    <3>1. Listed(s, k)
      BY <3>0 DEF YInv, UploadsOK, SyncAt, AcceptedOK, Listed
    <3>2. mark[s][k] \in 1 .. Len(past[k])
      BY <3>1 DEF YInv, SyncAt, ListedOK
    <3> QED
      BY <1>2, <2>2, <3>2
  <2> QED
    BY <1>2, <2>1, <2>2
<1> QED
  BY <1>1, <1>2, <1>3 DEF BaseOK

\* A step that changes nothing BaseOK speaks of but the rows.
Quiet ==
    /\ UNCHANGED <<base, claims, mark, page>>
    /\ \A r \in Syncs : phase'[r] = "idle" <=> phase[r] = "idle"

LEMMA NextBInv == BInv /\ [SyncNext]_allVars => BInv'
<1> SUFFICES ASSUME BInv, [SyncNext]_allVars PROVE BInv'
  OBVIOUS
<1>0. YInv /\ YInv' /\ Grown /\ SyncTypeOK /\ \A s \in Syncs : BaseOK(s)
  BY NextYInv, SyncGrows DEF BInv, YInv
<1>1. ASSUME NEW s \in Syncs, StartSync(s) PROVE BInv'
  <2>1. PICK held \in [Keys -> UNION {Holdings(s, k) : k \in Keys}] :
            /\ \A k \in Keys : held[k] \in Holdings(s, k)
            /\ claims' = [claims EXCEPT ![s] = [k \in Keys |-> held[k].row]]
            /\ base' = [base EXCEPT ![s] = [k \in Keys |-> held[k].at]]
    BY <1>1 DEF StartSync
  <2>2. phase[s] = "idle" /\ UNCHANGED <<past, page, mark>> /\ page[s] = 0
    BY <1>0, <1>1 DEF StartSync, BaseOK, vars
  <2>3. /\ phase'[s] # "idle" /\ \A r \in Syncs \ {s} : phase'[r] = phase[r]
    BY <1>0, <1>1 DEF StartSync, SyncTypeOK
  <2>4. \A k \in Keys : base'[s][k] = held[k].at /\ claims'[s][k] = held[k].row
    BY <1>0, <2>1 DEF SyncTypeOK
  <2>5. BaseOK(s)'
    <3>1. \A k \in Keys : ~ Listed(s, k)'
      BY <2>2 DEF Listed
    <3> QED
      BY <1>0, <2>1, <2>2, <2>3, <2>4, <3>1, HoldingsType DEF BaseOK
  <2>6. ASSUME NEW r \in Syncs \ {s} PROVE BaseOK(r)'
    <3>1. base'[r] = base[r] /\ claims'[r] = claims[r]
      BY <1>0, <2>1 DEF SyncTypeOK
    <3> QED
      BY <1>0, <2>2, <2>3, <3>1, BaseStays
  <2> QED
    BY <1>0, <2>5, <2>6 DEF BInv
<1>2. ASSUME NEW s \in Syncs, ReadPage(s) PROVE BInv'
  <2> DEFINE listed == Pages[page[s] + 1]
  <2>1. /\ phase[s] = "listing" /\ UNCHANGED <<past, base, claims>>
        /\ mark' = [mark EXCEPT ![s] =
                        [k \in Keys |-> IF k \in listed THEN Len(past[k]) ELSE mark[s][k]]]
        /\ page' = [page EXCEPT ![s] = page[s] + 1]
    BY <1>0, <1>2 DEF ReadPage, SyncTypeOK, vars
  <2>2. /\ phase'[s] # "idle" /\ \A r \in Syncs \ {s} : phase'[r] = phase[r]
    BY <1>0, <1>2 DEF ReadPage, SyncTypeOK
  <2> HIDE DEF listed
  <2>3. /\ page'[s] = page[s] + 1 /\ page[s] \in Nat
        /\ \A k \in Keys : mark'[s][k] = IF k \in listed THEN Len(past[k]) ELSE mark[s][k]
    BY <1>0, <2>1, SyncAssumption DEF SyncTypeOK
  <2>4. \A k \in Keys : Listed(s, k)' => Listed(s, k) \/ k \in listed
    <3>1. \A i \in 1 .. page[s] + 1 : i = page[s] + 1 \/ i \in 1 .. page[s]
      BY <2>3
    <3> QED
      BY <2>3, <3>1 DEF Listed, listed
  <2>5. BaseOK(s)'
    <3> SUFFICES ASSUME NEW k \in Keys
                 PROVE  /\ base[s][k] \in 1 .. Len(past[k])
                        /\ past[k][base[s][k]].version = claims[s][k].version
                        /\ Listed(s, k)' => base[s][k] <= mark'[s][k]
                        /\ \A i \in 1 .. Len(past[k]) : past[k][i].writer # <<s, k>>
      BY <2>1, <2>2 DEF BaseOK
    <3>2. \A i \in 1 .. Len(past[k]) : past[k][i].writer # <<s, k>>
      BY <1>0, <2>1, OwnRows DEF YInv, SyncAt, PlacesOK
    <3>1. base[s][k] \in 1 .. Len(past[k]) /\ (Listed(s, k) => base[s][k] <= mark[s][k])
      BY <1>0, <2>1 DEF BaseOK
    <3> QED
      BY <1>0, <2>1, <2>3, <2>4, <3>1, <3>2 DEF BaseOK
  <2>6. ASSUME NEW r \in Syncs \ {s} PROVE BaseOK(r)'
    <3>1. mark'[r] = mark[r] /\ page'[r] = page[r] /\ base'[r] = base[r] /\ claims'[r] = claims[r]
      BY <1>0, <2>1 DEF SyncTypeOK
    <3> QED
      BY <1>0, <2>2, <3>1, BaseStays
  <2> QED
    BY <1>0, <2>5, <2>6 DEF BInv
<1>3. CASE Quiet
  BY <1>0, <1>3, BaseStays DEF BInv, Quiet
<1>4. ASSUME NEW s \in Syncs, HandleSync(s) \/ HangUp(s), ~ ReadPage(s)
      PROVE  Quiet
  <2>1. CASE UNCHANGED syncVars
    BY <2>1 DEF syncVars, Quiet
  <2>2. CASE HangUp(s) \/ FailBatch(s) \/ FailListing(s) \/ Respond(s)
    <3>1. /\ UNCHANGED <<base, claims, mark, page>> /\ phase[s] # "idle"
          /\ \E p \in {"done", "failed"} : phase' = [phase EXCEPT ![s] = p]
      BY <2>2 DEF HangUp, FailBatch, FailListing, Respond
    <3> QED
      BY <1>0, <3>1 DEF SyncTypeOK, Quiet
  <2>3. ASSUME NEW k \in Keys, Fetch(s, k) PROVE Quiet
    BY <2>3 DEF Fetch, Quiet
  <2>4. ASSUME NEW downloaded \in BOOLEAN, Check(s, downloaded) PROVE Quiet
    BY <1>0, <2>4 DEF Check, SyncTypeOK, Quiet
  <2>5. ASSUME NEW k \in Keys, BeginUpload(s, k) \/ StepUpload(s, k) PROVE UNCHANGED syncVars
    BY <2>5 DEF BeginUpload, StepUpload
  <2> QED
    BY <1>4, <2>1, <2>2, <2>3, <2>4, <2>5 DEF HandleSync
<1>5. CASE Elsewhere \/ SyncRest \/ UNCHANGED allVars
  BY <1>3, <1>5 DEF Elsewhere, SyncRest, allVars, syncVars, Quiet
<1> QED
  BY <1>1, <1>2, <1>3, <1>4, <1>5 DEF SyncNext

LEMMA BInvAlways == SyncSpec => []BInv
<1>1. SyncInit => BInv
  <2> SUFFICES ASSUME SyncInit PROVE BInv
    OBVIOUS
  <2>1. \A s \in Syncs : phase[s] = "idle" /\ page[s] = 0
    BY DEF SyncInit
  <2>2. \A k \in Keys : past[k] = <<NoRow>>
    BY DEF SyncInit, Init
  <2>3. ASSUME NEW k \in Keys, NEW s \in Syncs, NEW i \in 1 .. Len(past[k])
        PROVE  past[k][i].writer # <<s, k>>
    <3>1. past[k] = <<NoRow>> /\ i \in 1 .. 1
      BY <2>2
    <3>2. past[k][i].writer = None
      BY <3>1 DEF NoRow
    <3> QED
      BY <3>2, UploadTasks, TasksAssumption
  <2> QED
    BY <2>1, <2>3, InitYInv DEF BInv, BaseOK
<1> QED
  BY <1>1, NextBInv, PTL DEF SyncSpec

\* An upload that delta_sync accepts against a listed row replaces the very row
\* the device's copy is of, unless the key was deleted since the device saw it:
\* rows in between would have counted up past the version the device claims.
THEOREM ListedRowsAreSafe == SyncSpec => []UnseenOverwrittenOnlyByRaceOrDelete
<1>1. BInv => UnseenOverwrittenOnlyByRaceOrDelete
  <2> SUFFICES ASSUME BInv, NEW s \in Syncs, NEW k \in Keys, NEW i \in 2 .. Len(past[k]),
                      past[k][i].writer = <<s, k>>, i - 1 # base[s][k], ~ (i - 1 > mark[s][k])
               PROVE  /\ past[k][i - 1].version <= claims[s][k].version
                      /\ \E d \in base[s][k] + 1 .. mark[s][k] : past[k][d] = NoRow
    BY DEF UnseenOverwrittenOnlyByRaceOrDelete
  <2> DEFINE h == past[k]
             b == base[s][k]
             n == mark[s][k]
  <2>0. YInv /\ SInv /\ BaseOK(s) /\ SyncTypeOK
    BY DEF BInv, YInv
  <2>1. h \in Seq(Row) /\ CountsUp(h) /\ Len(h) \in Nat /\ i \in 1 .. Len(h)
    BY <2>0 DEF SInv, PastOK, HInv, TypeOK
  <2>2. /\ Listed(s, k) /\ ~ Dominated(s, k)
        /\ n \in 1 .. Len(h) /\ h[n] = manifest[s][k]
    BY <2>0, <2>1, OwnRows
  <2>3. i > n /\ n = i - 1
    BY <2>0, <2>1, <2>2 DEF BaseOK
  <2>4. phase[s] # "idle"
    <3>1. \E j \in 1 .. page[s] : TRUE
      BY <2>2 DEF Listed
    <3> QED
      BY <2>0, <3>1 DEF BaseOK
  <2>5. b \in 1 .. n /\ b # n /\ h[b].version = claims[s][k].version
    BY <2>0, <2>1, <2>2, <2>3, <2>4 DEF BaseOK
  <2>6. /\ manifest[s][k].version \in Nat /\ claims[s][k].version \in Nat
        /\ NoRow.version = 0
    BY <2>0 DEF SyncTypeOK, Row, NoRow
  <2>7. h[n].version <= h[b].version
    BY <2>2, <2>5, <2>6 DEF Dominated
  <2> HIDE DEF h, b, n
  <2>8. \E d \in b + 1 .. n : h[d] = NoRow
    <3> SUFFICES ASSUME \A d \in b + 1 .. n : h[d] # NoRow PROVE FALSE
      OBVIOUS
    <3>1. h[n].version = h[b].version + (n - b)
      BY <2>1, <2>2, <2>5 DEF CountsUp
    <3>2. h[b].version \in Nat
      BY <2>5, <2>6
    <3> QED
      BY <2>1, <2>2, <2>5, <2>7, <3>1, <3>2
  <2> QED
    BY <2>3, <2>5, <2>7, <2>8 DEF h, b, n
<1> QED
  BY <1>1, BInvAlways, PTL

\* A device that applies the answer of delta_sync holds every key it lists.
THEOREM AnswersAreComplete == SyncSpec => []AnswerCoversManifest
<1>1. YInv => AnswerCoversManifest
  <2> SUFFICES ASSUME YInv, NEW s \in Syncs, NEW k \in Keys,
                      phase[s] = "done", response[s].manifest[k] # NoRow
               PROVE  \/ claims[s][k].writer = response[s].manifest[k].writer
                      \/ /\ response[s].downloads[k] # NoRow
                         /\ response[s].downloads[k] \in SinceListed(s, k)
                      \/ response[s].manifest[k] = UploadedRow(s, k)
                      \/ NoRow \in SinceListed(s, k)
                      \/ Reported(s, k)
    BY DEF AnswerCoversManifest
  <2>1. MergedOK(s) /\ CoverOK(s)
    BY DEF YInv, SyncAt
  <2>2. CASE response[s].manifest[k] = UploadedRow(s, k)
    BY <2>2
  <2>3. CASE response[s].manifest[k] = manifest[s][k]
    BY <2>1, <2>3 DEF MergedOK, CoverOK
  <2> QED
    BY <2>1, <2>2, <2>3 DEF MergedOK
<1> QED
  BY <1>1, YInvAlways, PTL

\* What a device uploads outranks what the same answer sends it, unless the row was
\* deleted meanwhile.
THEOREM UploadsOutrankDownloads == SyncSpec => []UploadBeatsDownload
<1>1. YInv => UploadBeatsDownload
  <2> SUFFICES ASSUME YInv, NEW s \in Syncs, NEW k \in response[s].uploaded,
                      phase[s] = "done", response[s].downloads[k] # NoRow,
                      NoRow \notin SinceListed(s, k)
               PROVE  response[s].manifest[k].version > response[s].downloads[k].version
    BY DEF UploadBeatsDownload
  <2> DEFINE h == past[k]
             t == <<s, k>>
  <2>0. k \in Keys /\ t \in Tasks
    BY UploadTasks DEF YInv, SyncTypeOK, Response
  <2>1. h \in Seq(Row) /\ CountsUp(h) /\ Len(h) \in Nat /\ mark[s][k] \in Nat
    BY <2>0 DEF YInv, SInv, HInv, TypeOK, PastOK, SyncTypeOK
  <2>2. answer[t].status = "saved" /\ response[s].manifest[k] = [version |-> answer[t].version, writer |-> t]
    BY <2>0 DEF YInv, SyncAt, MergedOK, Saved, UploadedRow
  <2>3. pc[t] # "idle" /\ StoredAt(t) # {} /\ req[t].key = k
    BY <2>0, <2>2 DEF YInv, SInv, AnswerAt, UploadsOK
  <2>4. PICK i \in 1 .. Len(h) : h[i] = response[s].manifest[k]
    BY <2>1, <2>2, <2>3 DEF StoredAt
  <2>5. PICK p \in mark[s][k] .. Len(h) :
               /\ p >= 1 /\ h[p] = response[s].downloads[k]
               /\ \A j \in 1 .. p : h[j].writer # t
    BY <2>0 DEF YInv, SyncAt, DownloadsOK
  <2>6. h[i].writer = t
    BY <2>2, <2>4
  <2>7. p \in 1 .. Len(h) /\ p < i
    BY <2>1, <2>4, <2>5, <2>6
  <2>8. \A d \in p + 1 .. i : h[d] # NoRow
    BY <2>1, <2>4, <2>5, <2>7 DEF SinceListed
  <2>9. h[i].version = h[p].version + (i - p) /\ h[p].version \in Nat
    <3>1. h[p] \in Row
      BY <2>1, <2>7
    <3> HIDE DEF h
    <3> QED
      BY <2>1, <2>4, <2>7, <2>8, <3>1 DEF CountsUp, Row
  <2> QED
    BY <2>1, <2>4, <2>5, <2>7, <2>9
<1> QED
  BY <1>1, YInvAlways, PTL

-----------------------------------------------------------------------------
(* The size limit of a sync. *)

\* running_size at upload number i, given the sizes before it.
Counted(s, size, i) ==
    IF i = 1 THEN CurrentSize(s)
    ELSE IF Objection(s, i - 1, size[i - 1]) = "none"
         THEN SizeAfter(s, i - 1, size[i - 1])
         ELSE size[i - 1]

LEMMA UploadsType ==
    ASSUME SyncTypeOK, NEW s \in Syncs
    PROVE  uploads[s] \in Seq(Keys) /\ Len(uploads[s]) \in Nat
<1>1. UploadLists \subseteq Seq(Keys)
  BY SyncAssumption
<1>2. uploads[s] \in UploadLists \/ uploads[s] = <<>>
  BY DEF SyncTypeOK
<1>3. <<>> \in Seq(Keys)
  OBVIOUS
<1>4. uploads[s] \in Seq(Keys)
  BY <1>1, <1>2, <1>3
<1> QED
  BY <1>4

\* The sizes exist: they can be given up to any upload.
LEMMA RunningSizes ==
    ASSUME SyncTypeOK, NEW s \in Syncs
    PROVE  RunningSize(s) =
               [i \in 1 .. Len(uploads[s]) + 1 |-> Counted(s, RunningSize(s), i)]
<1> DEFINE Good(n) == \E f : \A i \in 1 .. n : f[i] = Counted(s, f, i)
           Bad == {n \in Nat : ~ Good(n)}
           N == Len(uploads[s]) + 1
<1>1. Good(0)
  OBVIOUS
<1>2. ASSUME NEW n \in Nat, Good(n) PROVE Good(n + 1)
  <2>1. PICK f : \A i \in 1 .. n : f[i] = Counted(s, f, i)
    BY <1>2
  <2> DEFINE g == [i \in 1 .. n + 1 |-> Counted(s, f, i)]
  <2>2. ASSUME NEW i \in 1 .. n + 1 PROVE g[i] = Counted(s, g, i)
    <3>1. CASE i = 1
      BY <3>1 DEF Counted
    <3>2. CASE i # 1
      <4>1. i - 1 \in 1 .. n /\ i - 1 \in 1 .. n + 1
        BY <3>2
      <4>2. g[i - 1] = f[i - 1]
        BY <2>1, <4>1
      <4>3. g[i] = Counted(s, f, i)
        OBVIOUS
      <4> HIDE DEF g
      <4> QED
        BY <4>2, <4>3 DEF Counted
    <3> QED
      BY <3>1, <3>2
  <2> QED
    BY <2>2
<1>3. Bad = {}
  <2> SUFFICES ASSUME Bad # {} PROVE FALSE
    OBVIOUS
  <2> HIDE DEF Good
  <2>1. PICK n \in Bad : \A m \in Bad : n <= m
    BY SmallestNumber
  <2>2. n # 0 /\ n \in Nat
    BY <1>1
  <2>3. n - 1 \in Nat /\ n - 1 \notin Bad
    BY <2>1, <2>2
  <2>4. Good(n - 1 + 1) /\ n - 1 + 1 = n
    BY <1>2, <2>2, <2>3
  <2> QED
    BY <2>1, <2>4
<1>4. N \in Nat
  BY UploadsType
<1>5. PICK f : \A i \in 1 .. N : f[i] = Counted(s, f, i)
  <2>1. N \notin Bad
    BY <1>3
  <2> HIDE DEF N
  <2> QED
    BY <1>4, <2>1
<1> DEFINE g == [i \in 1 .. N |-> f[i]]
<1>6. \A i \in 1 .. N : Counted(s, g, i) = Counted(s, f, i)
  <2>1. \A i \in 1 .. N : i = 1 \/ (i - 1 \in 1 .. N /\ g[i - 1] = f[i - 1])
    BY <1>4
  <2> HIDE DEF g, N
  <2> QED
    BY <2>1 DEF Counted
<1>7. g = [i \in 1 .. N |-> Counted(s, g, i)]
  BY <1>5, <1>6
<1> HIDE DEF g
<1> QED
  BY <1>7, Zenon DEF RunningSize, Counted

LEMMA ObjectionNone ==
    ASSUME NEW s, NEW i, NEW size, Objection(s, i, size) = "none"
    PROVE  /\ \A j \in 1 .. i - 1 : uploads[s][j] # uploads[s][i]
           /\ ~ (SizeAfter(s, i, size) > MaxTotal)
BY DEF Objection, SizeAfter

\* The rows the checks count with at upload number i.
CountedRow(s, k) == [version |-> 1, writer |-> <<s, k>>]

CountedRows(s, i) ==
    [k \in Keys |-> IF \E j \in 1 .. i - 1 : uploads[s][j] = k /\ Verdict(s, j) = "none"
                    THEN CountedRow(s, k) ELSE manifest[s][k]]

LEMMA CountedRowsType ==
    ASSUME SyncTypeOK, NEW s \in Syncs
    PROVE  /\ \A i : CountedRows(s, i) \in [Keys -> Row]
           /\ \A k \in Keys : /\ CountedRow(s, k) \in Row /\ Size[<<s, k>>] \in Nat
                              /\ RowSize(CountedRow(s, k)) = Size[<<s, k>>]
<1>1. \A k \in Keys : CountedRow(s, k) \in Row /\ RowSize(CountedRow(s, k)) = Size[<<s, k>>]
  BY UploadTasks DEF CountedRow, Row, RowSize
<1>2. \A k \in Keys : Size[<<s, k>>] \in Nat
  BY UploadTasks, TasksAssumption
<1>3. \A k \in Keys : manifest[s][k] \in Row
  BY DEF SyncTypeOK
<1> QED
  BY <1>1, <1>2, <1>3 DEF CountedRows

\* running_size is the size of the rows the user would have, and within the limit
\* once an upload was accepted.
LEMMA RunningSizeCounts ==
    ASSUME SyncTypeOK, NEW s \in Syncs
    PROVE  \A i \in 1 .. Len(uploads[s]) + 1 :
               /\ RunningSize(s)[i] = Total(CountedRows(s, i))
               /\ (\E j \in 1 .. i - 1 : Verdict(s, j) = "none") => RunningSize(s)[i] <= MaxTotal
<1> DEFINE size == RunningSize(s)
           N == Len(uploads[s]) + 1
           Right(i) == /\ size[i] = Total(CountedRows(s, i))
                       /\ (\E j \in 1 .. i - 1 : Verdict(s, j) = "none") => size[i] <= MaxTotal
           Bad == {i \in 1 .. N : ~ Right(i)}
<1>0. N \in Nat /\ N >= 1 /\ uploads[s] \in Seq(Keys) /\ MaxTotal \in Nat
  BY UploadsType, BoundsAssumption
<1>1. \A i \in 1 .. N : size[i] = Counted(s, size, i)
  BY RunningSizes, Zenon
<1>2. Right(1)
  <2>1. size[1] = CurrentSize(s)
    BY <1>0, <1>1 DEF Counted
  <2>2. CountedRows(s, 1) = manifest[s]
    <3>1. manifest[s] \in [Keys -> Row] /\ 1 .. 1 - 1 = {}
      BY DEF SyncTypeOK
    <3> QED
      BY <3>1 DEF CountedRows
  <2> QED
    BY <2>1, <2>2 DEF CurrentSize
<1>3. ASSUME NEW i \in 1 .. N, i + 1 \in 1 .. N, Right(i) PROVE Right(i + 1)
  <2> DEFINE k == uploads[s][i]
  <2>0. i \in Nat /\ i + 1 # 1 /\ i + 1 - 1 = i /\ k \in Keys /\ i \in 1 .. i
    BY <1>0, <1>3
  <2>1. size[i + 1] = IF Objection(s, i, size[i]) = "none" THEN SizeAfter(s, i, size[i]) ELSE size[i]
    BY <1>1, <1>3, <2>0 DEF Counted
  <2>2. Verdict(s, i) = Objection(s, i, size[i])
    BY DEF Verdict
  <2>3. \A j \in 1 .. i + 1 - 1 : j = i \/ j \in 1 .. i - 1
    BY <2>0
  <2>4. \A j \in 1 .. i - 1 : j \in 1 .. i + 1 - 1
    BY <2>0
  <2> HIDE DEF size, N
  <2>5. CASE Verdict(s, i) # "none"
    <3>1. CountedRows(s, i + 1) = CountedRows(s, i)
      BY <2>3, <2>4, <2>5 DEF CountedRows
    <3>2. size[i + 1] = size[i]
      BY <2>1, <2>2, <2>5
    <3> QED
      BY <1>3, <2>3, <2>5, <3>1, <3>2
  <2>6. CASE Verdict(s, i) = "none"
    <3>1. /\ size[i + 1] = SizeAfter(s, i, size[i]) /\ ~ (size[i + 1] > MaxTotal)
          /\ \A j \in 1 .. i - 1 : uploads[s][j] # k
      BY <2>1, <2>2, <2>6, ObjectionNone
    <3> HIDE DEF k
    <3>2. /\ CountedRows(s, i)[k] = manifest[s][k]
          /\ CountedRows(s, i + 1)[k] = CountedRow(s, k)
          /\ \A j \in Keys \ {k} : CountedRows(s, i + 1)[j] = CountedRows(s, i)[j]
      <4>1. CountedRows(s, i)[k] = manifest[s][k]
        BY <2>0, <3>1 DEF CountedRows
      <4>2. CountedRows(s, i + 1)[k] = CountedRow(s, k)
        BY <2>0, <2>6 DEF CountedRows, k
      <4>3. \A j \in Keys \ {k} : CountedRows(s, i + 1)[j] = CountedRows(s, i)[j]
        BY <2>3, <2>4 DEF CountedRows, k
      <4> QED
        BY <4>1, <4>2, <4>3
    <3>3. /\ CountedRows(s, i) \in [Keys -> Row] /\ CountedRows(s, i + 1) \in [Keys -> Row]
          /\ RowSize(CountedRow(s, k)) = Size[<<s, k>>]
      BY <2>0, CountedRowsType
    <3>4. Total(CountedRows(s, i + 1)) =
              Total(CountedRows(s, i)) - RowSize(manifest[s][k]) + Size[<<s, k>>]
      <4>1. Total(CountedRows(s, i + 1)) =
                Total(CountedRows(s, i)) - RowSize(CountedRows(s, i)[k]) + RowSize(CountedRows(s, i + 1)[k])
        BY <2>0, <3>2, <3>3, TotalReplace
      <4> QED
        BY <3>2, <3>3, <4>1
    <3>5. size[i + 1] = Total(CountedRows(s, i + 1))
      BY <1>3, <3>1, <3>4 DEF SizeAfter, k
    <3>6. Total(CountedRows(s, i + 1)) \in Nat
      BY <3>3, TotalType
    <3> QED
      BY <1>0, <3>1, <3>5, <3>6
  <2> QED
    BY <2>5, <2>6
<1>4. Bad = {}
  <2> SUFFICES ASSUME Bad # {} PROVE FALSE
    OBVIOUS
  <2> HIDE DEF Right
  <2>1. Bad \in SUBSET Nat
    BY <1>0
  <2>2. PICK n \in Bad : \A m \in Bad : n <= m
    BY <2>1, SmallestNumber
  <2>3. n \in 1 .. N /\ n # 1 /\ ~ Right(n)
    BY <1>2
  <2> HIDE DEF N
  <2>4. n - 1 \in 1 .. N /\ n - 1 + 1 = n
    BY <1>0, <2>3
  <2>5. n - 1 \notin Bad
    BY <2>2, <2>4
  <2>6. Right(n - 1)
    BY <2>4, <2>5
  <2> QED
    BY <1>3, <2>3, <2>4, <2>6
<1> QED
  BY <1>4

-----------------------------------------------------------------------------
(* What a sync knows of the rows when its uploads are saved. *)

\* The save of an upload was applied, and the handler knows or was told so.
Wrote(s, k) ==
    \/ Active(<<s, k>>) /\ "applied" \in local[<<s, k>>].reply
    \/ answer[<<s, k>>].status = "saved"

\* The rows the user is to have after the sync, if nobody else writes.
Planned(rows, ks, s) == [k \in Keys |-> IF k \in ks THEN CountedRow(s, k) ELSE rows[k]]

\* What was over when the sync began is over, and was when its uploads began.
SinceOK(s) ==
    /\ phase[s] = "idle" => page[s] = 0
    /\ \A u \in since[s] : Settled(u) /\ before[u] \subseteq since[s]
    /\ \A k \in Keys : pc[<<s, k>>] # "idle" =>
           since[s] \subseteq before[<<s, k>>] /\ req[<<s, k>>].op = "save"

\* A row that is older than the sync is the one that was listed, and is gone once
\* the upload of its key was saved.
OlderRowsOK(s) ==
    \A k \in Keys :
        /\ Listed(s, k) /\ data[k].writer \in since[s] => data[k].writer = manifest[s][k].writer
        /\ Wrote(s, k) => data[k].writer \notin since[s]

\* The accepted uploads fit into what was listed.
PlanOK(s) ==
    accepted[s] # {} =>
        /\ \A k \in Keys : Listed(s, k)
        /\ Total(Planned(manifest[s], accepted[s], s)) <= MaxTotal

LimitAt(s) == SinceOK(s) /\ OlderRowsOK(s) /\ PlanOK(s)

\* Only an upload saves without the quota check.
ClientsOK == \A t \in Clients : req[t].op # "save"

LInv == YInv /\ QInv /\ ClientsOK /\ \A s \in Syncs : LimitAt(s)

\* What a step does to the rows and uploads of a sync.
Follows(s) ==
    \A k \in Keys :
        /\ \/ pc'[<<s, k>>] = "idle"
           \/ pc[<<s, k>>] # "idle"
           \/ since[s] \subseteq before'[<<s, k>>] /\ req'[<<s, k>>].op = "save"
        /\ data'[k].writer \in since[s] => data'[k] = data[k]
        /\ Wrote(s, k)' => Wrote(s, k) \/ data'[k].writer \notin since[s]

\* What a sync knows of the rows does not change.
SameView(s) ==
    /\ page'[s] = page[s] /\ manifest'[s] = manifest[s]
    /\ accepted'[s] = accepted[s] /\ since'[s] = since[s]
    /\ phase'[s] = "idle" => phase[s] = "idle"

Over == Begun /\ \A u \in Tasks : Settled(u) => Settled(u)'

LEMMA SinceFacts ==
    ASSUME LInv, NEW s \in Syncs, NEW u \in since[s]
    PROVE  u \in Tasks /\ Settled(u) /\ pc[u] # "idle" /\ before[u] \subseteq since[s] /\ u # None
<1>1. u \in Tasks /\ Settled(u) /\ before[u] \subseteq since[s]
  BY DEF LInv, YInv, SyncTypeOK, LimitAt, SinceOK
<1> QED
  BY <1>1, UploadTasks DEF Settled

LEMMA LimitStays ==
    ASSUME LInv, Over, NEW s \in Syncs, Follows(s), SameView(s)
    PROVE  LimitAt(s)'
<1>0. SinceOK(s) /\ OlderRowsOK(s) /\ PlanOK(s)
  BY DEF LInv, LimitAt
<1>1. \A k \in Keys : Listed(s, k)' <=> Listed(s, k)
  BY DEF Listed, SameView
<1>2. SinceOK(s)'
  <2>1. \A u \in since[s] : Settled(u)' /\ before'[u] = before[u] /\ before[u] \subseteq since[s]
    BY SinceFacts DEF Over, Begun
  <2>2. ASSUME NEW k \in Keys, pc'[<<s, k>>] # "idle"
        PROVE  since[s] \subseteq before'[<<s, k>>] /\ req'[<<s, k>>].op = "save"
    <3>1. <<s, k>> \in Tasks
      BY UploadTasks
    <3>2. CASE pc[<<s, k>>] # "idle"
      <4>1. before'[<<s, k>>] = before[<<s, k>>] /\ req'[<<s, k>>] = req[<<s, k>>]
        BY <3>1, <3>2 DEF Over, Begun
      <4> QED
        BY <1>0, <3>2, <4>1 DEF SinceOK
    <3> QED
      BY <2>2, <3>2 DEF Follows
  <2> QED
    BY <1>0, <2>1, <2>2 DEF SinceOK, SameView
<1>3. OlderRowsOK(s)'
  <2> SUFFICES ASSUME NEW k \in Keys
               PROVE  /\ Listed(s, k) /\ data'[k].writer \in since[s]
                             => data'[k].writer = manifest[s][k].writer
                      /\ Wrote(s, k)' => data'[k].writer \notin since[s]
    BY <1>1 DEF OlderRowsOK, SameView
  <2> QED
    BY <1>0 DEF Follows, OlderRowsOK
<1>4. PlanOK(s)'
  BY <1>0, <1>1 DEF PlanOK, SameView
<1> QED
  BY <1>2, <1>3, <1>4 DEF LimitAt

\* A step of the rows and requests, in which an upload that begins is a save.
LEMMA StepFollows ==
    ASSUME LInv, [Step]_vars, NEW s \in Syncs,
           \A k \in Keys : pc[<<s, k>>] = "idle" /\ pc'[<<s, k>>] # "idle" => req'[<<s, k>>].op = "save"
    PROVE  Follows(s)
<1>0. /\ SInv /\ HInv /\ pc \in [Tasks -> {"idle", "reading", "waiting", "done"}]
      /\ local \in [Tasks -> Local] /\ answer \in [Tasks -> Answer] /\ data \in [Keys -> Row]
      /\ \A k \in Keys : <<s, k>> \in Tasks
  BY UploadTasks DEF LInv, YInv, SInv, HInv, TypeOK
<1>1. ASSUME NEW t \in Tasks, NEW op \in Calls, NEW j \in Keys \cup {None},
             Begin(t, op, j) \/ Refuse(t, op, j)
      PROVE  Follows(s)
  <2>1. /\ data' = data /\ before'[t] = {u \in Tasks : Settled(u)}
        /\ \A u \in Tasks \ {t} : SameTask(u)
    BY <1>0, <1>1, ArrivalMoves
  <2>2. \A u \in Tasks \ {t} : answer'[u] = answer[u]
    BY <1>0, <1>1, ArrivalKept
  <2>3. "applied" \notin local'[t].reply /\ (answer'[t].status = "saved" => answer[t].status = "saved")
    <3>1. CASE Begin(t, op, j)
      <4>1. answer' = answer /\ (local'[t] = Loop(1) \/ local'[t] = [Loop(1) EXCEPT !.copies = @ + 1])
        BY <1>0, <3>1 DEF Begin, SendFrom
      <4>2. [Loop(1) EXCEPT !.copies = @ + 1].reply = {} /\ Loop(1).reply = {}
        BY DEF Loop
      <4> QED
        BY <4>1, <4>2
    <3>2. CASE Refuse(t, op, j)
      BY <1>0, <3>2, LoopFields DEF Refuse, Finish, Told
    <3> QED
      BY <1>1, <3>1, <3>2
  <2>4. since[s] \subseteq before'[t]
    BY <2>1, SinceFacts
  <2>5. ASSUME NEW k \in Keys
        PROVE  /\ Wrote(s, k)' => Wrote(s, k)
               /\ \/ pc'[<<s, k>>] = "idle"
                  \/ pc[<<s, k>>] # "idle"
                  \/ since[s] \subseteq before'[<<s, k>>] /\ req'[<<s, k>>].op = "save"
    <3>1. CASE <<s, k>> = t
      BY <2>3, <2>4, <3>1 DEF Wrote
    <3>2. CASE <<s, k>> # t
      BY <1>0, <2>1, <2>2, <3>2 DEF Wrote, SameTask, Active
    <3> QED
      BY <3>1, <3>2
  <2> QED
    BY <2>1, <2>5 DEF Follows
<1>2. ASSUME NEW t \in Tasks, Handle(t) \/ Resend(t)
      PROVE  Follows(s)
  <2>1. /\ data' = data /\ Active(t) /\ \A u \in Tasks \ {t} : SameTask(u) /\ answer'[u] = answer[u]
    BY <1>0, <1>2, HandlerMoves, HandlerKept
  <2>2. /\ "applied" \in local'[t].reply => "applied" \in local[t].reply
        /\ answer'[t].status = "saved" => answer[t].status = "saved" \/ "applied" \in local[t].reply
    <3>1. CASE ReadTotal(t) \/ ReadRow(t) \/ Send(t) \/ Resend(t)
      <4>1. answer' = answer /\ local[t] \in Local
        BY <1>0, <3>1 DEF ReadTotal, ReadRow, Send, Resend, SendFrom
      <4>2. CASE ReadTotal(t) \/ ReadRow(t)
        <5>1. \/ local'[t] = [local[t] EXCEPT !.read = local[t].read \cup {"total"}, !.rows = data]
              \/ local'[t] = [local[t] EXCEPT !.read = local[t].read \cup {"row"},
                                              !.row = data[req[t].key]]
          BY <1>0, <4>1, <4>2 DEF ReadTotal, ReadRow
        <5> QED
          BY <4>1, <5>1 DEF Local
      <4>3. CASE Send(t) \/ Resend(t)
        <5>1. local'[t] = [local[t] EXCEPT !.copies = local[t].copies + 1]
          BY <1>0, <4>1, <4>3 DEF Send, Resend, SendFrom
        <5> QED
          BY <4>1, <5>1 DEF Local
      <4> QED
        BY <3>1, <4>1, <4>2, <4>3
    <3>2. CASE RefuseForQuota(t) \/ GiveUpAfterRetries(t) \/ Fail(t)
      BY <1>0, <3>2, LoopFields DEF RefuseForQuota, GiveUpAfterRetries, Fail, Finish, Told
    <3>3. CASE ReceiveApplied(t)
      BY <1>0, <3>3, LoopFields DEF ReceiveApplied, Finish
    <3>4. CASE RetryAfterConflict(t)
      BY <1>0, <3>4, LoopFields DEF RetryAfterConflict
    <3> QED
      BY <1>2, <3>1, <3>2, <3>3, <3>4 DEF Handle
  <2>3. ASSUME NEW k \in Keys
        PROVE  /\ Wrote(s, k)' => Wrote(s, k)
               /\ pc'[<<s, k>>] = "idle" \/ pc[<<s, k>>] # "idle"
    <3>1. CASE <<s, k>> = t
      BY <2>1, <2>2, <3>1 DEF Wrote, Active
    <3>2. CASE <<s, k>> # t
      BY <1>0, <2>1, <3>2 DEF Wrote, SameTask, Active
    <3> QED
      BY <3>1, <3>2
  <2> QED
    BY <2>1, <2>3 DEF Follows
<1>3. ASSUME NEW m \in wire, Execute(m)
      PROVE  Follows(s)
  <2>1. /\ UNCHANGED <<pc, req, answer>> /\ m.task \in Tasks /\ m.task \notin since[s] /\ None \notin since[s]
    <3>1. m.task \in Tasks /\ ~ Settled(m.task)
      BY <1>0, <1>3, ExecuteMoves DEF Settled
    <3> QED
      BY <1>3, <3>1, SinceFacts DEF Execute, ExecuteSave, ExecuteDelete
  <2>2. \A k \in Keys : data'[k] = data[k] \/ data'[k] = NoRow \/ data'[k].writer = m.task
    BY <1>0, <1>3, ExecutedRows
  <2>3. \A k \in Keys : data'[k].writer \in since[s] => data'[k] = data[k]
    BY <2>1, <2>2 DEF NoRow
  <2>4. ASSUME NEW k \in Keys, Wrote(s, k)', ~ Wrote(s, k)
        PROVE  data'[k].writer \notin since[s]
    <3> DEFINE t == <<s, k>>
    <3>1. /\ Active(t) /\ "applied" \in local'[t].reply /\ "applied" \notin local[t].reply
      BY <2>1, <2>4 DEF Wrote, Active
    <3>2. IsSave(t) /\ req[t].key = k
      BY <1>0, <3>1 DEF LInv, YInv, UploadsOK, LimitAt, SinceOK, Active, IsSave
    <3>3. ASSUME NEW b, Reply(m, b) PROVE t = m.task /\ b = "applied"
      BY <1>0, <3>1, <3>3 DEF Reply, Local
    <3>4. ExecuteSave(m) /\ t = m.task
      BY <1>3, <3>2, <3>3 DEF Execute, ExecuteSave, ExecuteDelete
    <3>5. Applies(m)
      BY <3>3, <3>4 DEF ExecuteSave
    <3>6. data' = [data EXCEPT ![k] = [version |-> m.expect + 1, writer |-> t]]
      BY <3>2, <3>4, <3>5 DEF ExecuteSave, Store
    <3>7. data'[k].writer = t
      BY <1>0, <3>6
    <3> QED
      BY <2>1, <3>4, <3>7
  <2> QED
    BY <2>1, <2>3, <2>4 DEF Follows
<1>4. CASE UNCHANGED vars
  BY <1>4 DEF vars, Follows, Wrote, Active
<1> QED
  BY <1>1, <1>2, <1>3, <1>4 DEF Step

\* Dropping the saves of a sync changes no row, and touches no request of a client.
LEMMA DropFollows ==
    ASSUME LInv, SInv', NEW s \in Syncs, Drop(s)
    PROVE  QInv' /\ Over /\ \A r \in Syncs : Follows(r)
<1> DEFINE running == {<<s, k>> : k \in {j \in Keys : pc[<<s, j>>] \in {"reading", "waiting"}}}
<1>0. SInv /\ HInv /\ OrderOK /\ RowsOK /\ HInv'
  BY DEF LInv, QInv, SInv
<1>1. /\ pc' = [t \in Tasks |-> IF t \in running THEN "done" ELSE pc[t]]
      /\ local' = [t \in Tasks |-> IF t \in running THEN Loop(0) ELSE local[t]]
      /\ answer' = [t \in Tasks |-> IF t \in running THEN Told("error") ELSE answer[t]]
      /\ UNCHANGED <<data, wire, req, past, before, from>>
  BY DEF Drop
<1>2. \A t \in running : t \in Tasks /\ Active(t) /\ req[t].op = "save"
  BY UploadTasks DEF LInv, LimitAt, SinceOK, Active
<1> HIDE DEF running
<1>3. ASSUME NEW t \in Tasks
      PROVE  \/ /\ Active(t) /\ req[t].op = "save"
                /\ pc'[t] = "done" /\ local'[t] = Loop(0) /\ answer'[t] = Told("error")
             \/ SameTask(t) /\ answer'[t] = answer[t]
  BY <1>1, <1>2 DEF SameTask
<1>4. \A t \in Tasks : pc[t] # "idle" <=> pc'[t] # "idle"
  BY <1>3 DEF Active, SameTask
<1>5. Over
  <2>1. Begun
    BY <1>1, <1>4 DEF Begun
  <2>2. ASSUME NEW u \in Tasks, Settled(u) PROVE Settled(u)'
    BY <1>1, <1>3, <2>2 DEF Settled, Active
  <2> QED
    BY <2>1, <2>2 DEF Over
<1>6. OrderOK'
  BY <1>0, <1>1, <1>4, <1>5, OrderStays DEF Over
<1>7. RowsOK'
  BY <1>0, <1>1, <1>5, RowsStay DEF Over
<1>8. QuotaOK'
  <2> SUFFICES ASSUME NEW w \in Tasks, req'[w].op = "put", Alone(w)' PROVE QuotaAt(w)'
    BY DEF QuotaOK
  <2>1. req[w].op = "put" /\ pc[w] # "idle" /\ SameTask(w)
    BY <1>0, <1>1, <1>3 DEF HInv, HandlersOK
  <2> QED
    BY <1>1, <1>5, <2>1, AloneBefore, QuotaStays DEF Over, LInv, QInv, QuotaOK
<1>9. ASSUME NEW r \in Syncs PROVE Follows(r)
  <2>1. \A k \in Keys : <<r, k>> \in Tasks
    BY UploadTasks
  <2>2. \A k \in Keys : Wrote(r, k)' => Wrote(r, k)
    BY <1>3, <2>1 DEF Wrote, Active, SameTask, Told
  <2> QED
    BY <1>1, <1>4, <2>1, <2>2 DEF Follows
<1> QED
  BY <1>5, <1>6, <1>7, <1>8, <1>9 DEF QInv

LEMMA ClientsStay ==
    ASSUME LInv, SInv', Over,
           \A t \in Clients : pc[t] = "idle" /\ pc'[t] # "idle" => req'[t].op # "save"
    PROVE  ClientsOK'
<1> SUFFICES ASSUME NEW t \in Clients PROVE req'[t].op # "save"
  BY DEF ClientsOK
<1>1. t \in Tasks
  BY DEF Clients
<1>2. CASE pc[t] # "idle"
  BY <1>1, <1>2 DEF Over, Begun, LInv, ClientsOK
<1>3. CASE pc'[t] = "idle"
  BY <1>1, <1>3 DEF SInv, HInv, HandlersOK
<1> QED
  BY <1>2, <1>3

\* A step of the rows and requests, in which saves are begun by uploads only.
LEMMA LimitElsewhere ==
    ASSUME LInv, YInv', [Step]_vars, UNCHANGED syncVars,
           \A s \in Syncs, k \in Keys :
               pc[<<s, k>>] = "idle" /\ pc'[<<s, k>>] # "idle" => req'[<<s, k>>].op = "save",
           \A t \in Clients : pc[t] = "idle" /\ pc'[t] # "idle" => req'[t].op # "save"
    PROVE  LInv'
<1>1. QInv' /\ Over /\ SInv'
  BY StepQInv, StepSettled DEF LInv, QInv, SInv, Over, YInv
<1>2. \A s \in Syncs : Follows(s) /\ SameView(s)
  BY StepFollows DEF syncVars, SameView
<1>3. ClientsOK'
  BY <1>1, ClientsStay
<1> QED
  BY <1>1, <1>2, <1>3, LimitStays DEF LInv

\* A step of one sync that leaves the rows and requests alone.
LEMMA LimitOfSync ==
    ASSUME LInv, YInv', UNCHANGED vars, NEW s \in Syncs,
           \A r \in Syncs \ {s} : SameView(r),
           SameView(s) \/ LimitAt(s)'
    PROVE  LInv'
<1>1. QInv' /\ Over /\ SInv'
  BY StepQInv, StepSettled DEF LInv, QInv, SInv, Over, YInv
<1>2. \A r \in Syncs : Follows(r)
  BY StepFollows DEF vars
<1>3. ClientsOK'
  BY DEF LInv, ClientsOK, vars
<1> QED
  BY <1>1, <1>2, <1>3, LimitStays DEF LInv

LEMMA LimitOfDrop ==
    ASSUME LInv, YInv', NEW s \in Syncs, Drop(s), \A r \in Syncs : SameView(r)
    PROVE  LInv'
<1>1. QInv' /\ Over /\ \A r \in Syncs : Follows(r)
  BY DropFollows DEF YInv
<1>2. ClientsOK'
  BY DEF Drop, LInv, ClientsOK
<1> QED
  BY <1>1, <1>2, LimitStays DEF LInv

LEMMA StartSyncLimit ==
    ASSUME LInv, YInv', NEW s \in Syncs, StartSync(s)
    PROVE  LInv'
<1>0. SyncTypeOK /\ HInv /\ SInv /\ OrderOK /\ PlacesOK(s) /\ LimitAt(s)
  BY DEF LInv, YInv, SInv, SyncAt, QInv
<1>1. /\ phase[s] = "idle" /\ since' = [since EXCEPT ![s] = {u \in Tasks : Settled(u)}]
      /\ UNCHANGED <<vars, page, manifest, accepted>>
  BY DEF StartSync
<1>2. /\ since'[s] = {u \in Tasks : Settled(u)} /\ phase'[s] # "idle"
      /\ \A r \in Syncs \ {s} : since'[r] = since[r] /\ phase'[r] = phase[r]
  BY <1>0, <1>1 DEF StartSync, SyncTypeOK
<1>3. \A r \in Syncs \ {s} : SameView(r)
  BY <1>1, <1>2 DEF SameView
<1>4. accepted[s] = {} /\ page[s] = 0
  BY <1>0, <1>1 DEF PlacesOK, LimitAt, SinceOK
<1>5. \A k \in Keys : pc[<<s, k>>] = "idle" /\ answer[<<s, k>>].status # "saved" /\ ~ Listed(s, k)
  BY <1>0, <1>4, UploadTasks, SavedIsDone DEF LInv, YInv, UploadsOK, Listed
<1>6. SinceOK(s)'
  <2>1. ASSUME NEW u \in since'[s] PROVE Settled(u)' /\ before'[u] \subseteq since'[s]
    <3>1. u \in Tasks /\ Settled(u) /\ before[u] \subseteq Tasks /\ \A x \in before[u] : Settled(x)
      BY <1>0, <1>2 DEF OrderOK, HInv, TypeOK
    <3> QED
      BY <1>1, <1>2, <3>1 DEF vars, Settled
  <2> QED
    BY <1>1, <1>2, <1>5, <2>1 DEF SinceOK, vars
<1>7. OlderRowsOK(s)' /\ PlanOK(s)'
  BY <1>1, <1>4, <1>5 DEF OlderRowsOK, PlanOK, Listed, Wrote, Active, vars
<1> QED
  BY <1>1, <1>3, <1>6, <1>7, LimitOfSync DEF LimitAt

LEMMA ReadPageLimit ==
    ASSUME LInv, YInv', NEW s \in Syncs, ReadPage(s)
    PROVE  LInv'
<1> DEFINE n == page[s] + 1
           listed == Pages[n]
<1>0. SyncTypeOK /\ PlacesOK(s) /\ SinceOK(s) /\ OlderRowsOK(s)
  BY DEF LInv, YInv, SyncAt, LimitAt
<1>1. /\ phase[s] = "listing"
      /\ manifest' = [manifest EXCEPT ![s] =
                          [k \in Keys |-> IF k \in listed THEN data[k] ELSE manifest[s][k]]]
      /\ page' = [page EXCEPT ![s] = n]
      /\ phase' = [phase EXCEPT ![s] = IF n = Len(Pages) THEN "fetching" ELSE phase[s]]
      /\ UNCHANGED <<vars, accepted, since>>
  BY DEF ReadPage, LInv, YInv, SyncTypeOK
<1> HIDE DEF listed
<1>2. \A r \in Syncs \ {s} : SameView(r)
  BY <1>0, <1>1 DEF SyncTypeOK, SameView
<1>3. /\ page'[s] = n /\ page[s] \in Nat /\ phase'[s] # "idle" /\ accepted[s] = {}
      /\ \A k \in Keys : manifest'[s][k] = IF k \in listed THEN data[k] ELSE manifest[s][k]
  BY <1>0, <1>1, SyncAssumption DEF SyncTypeOK, PlacesOK
<1>4. \A k \in Keys : Listed(s, k)' => Listed(s, k) \/ k \in listed
  <2>1. \A i \in 1 .. n : i = n \/ i \in 1 .. page[s]
    BY <1>3
  <2> QED
    BY <1>3, <2>1 DEF Listed, listed
<1>5. SinceOK(s)'
  BY <1>0, <1>1, <1>3 DEF SinceOK, Settled, vars
<1>6. OlderRowsOK(s)'
  <2> SUFFICES ASSUME NEW k \in Keys
               PROVE  /\ Listed(s, k)' /\ data[k].writer \in since[s]
                             => data[k].writer = manifest'[s][k].writer
                      /\ Wrote(s, k) => data[k].writer \notin since[s]
    BY <1>1 DEF OlderRowsOK, Wrote, Active, vars
  <2> QED
    BY <1>0, <1>3, <1>4 DEF OlderRowsOK
<1>7. PlanOK(s)'
  BY <1>1, <1>3 DEF PlanOK
<1> QED
  BY <1>1, <1>2, <1>5, <1>6, <1>7, LimitOfSync DEF LimitAt

LEMMA CheckLimit ==
    ASSUME LInv, YInv', NEW s \in Syncs, NEW downloaded \in BOOLEAN, Check(s, downloaded)
    PROVE  LInv'
<1>0. YInv /\ SyncTypeOK /\ PlacesOK(s) /\ SinceOK(s) /\ OlderRowsOK(s)
  BY DEF LInv, YInv, SyncAt, LimitAt
<1>1. /\ phase[s] = "fetching" /\ phase' = [phase EXCEPT ![s] = "saving"]
      /\ accepted' = [accepted EXCEPT ![s] = Valid(s)]
      /\ UNCHANGED <<vars, page, manifest, since>>
  BY DEF Check
<1>2. \A r \in Syncs \ {s} : SameView(r)
  BY <1>0, <1>1 DEF SyncTypeOK, SameView
<1>3. accepted'[s] = Valid(s) /\ phase'[s] = "saving" /\ \A k \in Keys : Listed(s, k) /\ Listed(s, k)'
  BY <1>0, <1>1 DEF SyncTypeOK, PlacesOK, Listed
<1>4. SinceOK(s)'
  BY <1>0, <1>1, <1>3 DEF SinceOK, Settled, vars
<1>5. OlderRowsOK(s)'
  BY <1>0, <1>1 DEF OlderRowsOK, Listed, Wrote, Active, vars
<1>6. Valid(s) # {} => Total(Planned(manifest[s], Valid(s), s)) <= MaxTotal
  <2> DEFINE i == Len(uploads[s]) + 1
  <2>1. /\ uploads[s] \in Seq(Keys) /\ Len(uploads[s]) \in Nat
        /\ i \in 1 .. i /\ i - 1 = Len(uploads[s]) /\ DOMAIN uploads[s] = 1 .. Len(uploads[s])
    BY <1>0, UploadsType
  <2>2. \A k : k \in Valid(s) <=> \E j \in 1 .. i - 1 : uploads[s][j] = k /\ Verdict(s, j) = "none"
    BY <2>1 DEF Valid
  <2>3. Planned(manifest[s], Valid(s), s) = CountedRows(s, i)
    BY <2>2, Zenon DEF Planned, CountedRows
  <2>4. Valid(s) # {} => \E j \in 1 .. i - 1 : Verdict(s, j) = "none"
    BY <2>2
  <2>5. /\ RunningSize(s)[i] = Total(CountedRows(s, i))
        /\ (\E j \in 1 .. i - 1 : Verdict(s, j) = "none") => RunningSize(s)[i] <= MaxTotal
    BY <1>0, <2>1, RunningSizeCounts
  <2> HIDE DEF i
  <2> QED
    BY <2>3, <2>4, <2>5
<1>7. PlanOK(s)'
  BY <1>1, <1>3, <1>6 DEF PlanOK
<1> QED
  BY <1>1, <1>2, <1>4, <1>5, <1>7, LimitOfSync DEF LimitAt

LEMMA UploadLimit ==
    ASSUME LInv, YInv', NEW s \in Syncs, NEW k \in Keys, BeginUpload(s, k) \/ StepUpload(s, k)
    PROVE  LInv'
<1> DEFINE t == <<s, k>>
<1>0. t \in Tasks /\ t \notin Clients /\ SInv /\ HInv
  BY UploadTasks DEF Clients, LInv, YInv, SInv
<1>1. [Step]_vars /\ UNCHANGED syncVars
  <2>1. CASE BeginUpload(s, k)
    BY <1>0, <2>1 DEF BeginUpload, Step, Calls
  <2>2. CASE StepUpload(s, k)
    BY <1>0, <2>2 DEF StepUpload, Handle, Step
  <2> QED
    BY <2>1, <2>2
<1>2. /\ \A u \in Tasks \ {t} : pc'[u] = pc[u]
      /\ pc[t] = "idle" => req'[t].op = "save"
  <2>1. CASE BeginUpload(s, k)
    <3>1. Begin(t, "save", k) /\ "save" \in Calls
      BY <2>1 DEF BeginUpload, Calls
    <3> QED
      BY <1>0, <3>1, ArrivalMoves DEF SameTask
  <2>2. CASE StepUpload(s, k)
    <3>1. Handle(t)
      BY <2>2 DEF StepUpload, Handle
    <3> QED
      BY <1>0, <3>1, HandlerMoves DEF SameTask, Active
  <2> QED
    BY <2>1, <2>2
<1>3. \A r \in Syncs, j \in Keys : <<r, j>> \in Tasks
  BY UploadTasks
<1>4. \A u \in Clients : u \in Tasks \ {t}
  BY <1>0 DEF Clients
<1> HIDE DEF t
<1> QED
  BY <1>1, <1>2, <1>3, <1>4, LimitElsewhere

LEMMA ElsewhereLimit ==
    ASSUME LInv, YInv', Elsewhere
    PROVE  LInv'
<1>0. UNCHANGED syncVars /\ SInv /\ HInv
  BY DEF Elsewhere, LInv, YInv, SInv
<1>1. \A s \in Syncs, k \in Keys : <<s, k>> \in Tasks /\ <<s, k>> \notin Clients
  BY UploadTasks DEF Clients
<1>2. \A t \in Clients : t \in Tasks
  BY DEF Clients
<1>3. ASSUME NEW t \in Clients, Arrive(t) PROVE LInv'
  <2>1. PICK op \in Ops, k \in Keys \cup {None} : Begin(t, op, k) \/ Refuse(t, op, k)
    BY <1>3 DEF Arrive
  <2>2. t \in Tasks /\ op \in Calls /\ op # "save"
    BY <1>2, TasksAssumption, SyncAssumption DEF Calls
  <2>3. [Step]_vars
    BY <2>1, <2>2 DEF Step
  <2>4. req'[t].op = op /\ \A u \in Tasks \ {t} : pc'[u] = pc[u]
    BY <1>0, <2>1, <2>2, ArrivalMoves DEF SameTask
  <2>5. \A s \in Syncs, k_1 \in Keys : <<s, k_1>> # t
    BY <1>1
  <2> QED
    BY <1>0, <1>1, <1>2, <2>2, <2>3, <2>4, <2>5, LimitElsewhere
<1>4. ASSUME [Step]_vars, \A t \in Tasks : pc[t] = "idle" => pc'[t] = "idle" PROVE LInv'
  BY <1>0, <1>1, <1>2, <1>4, LimitElsewhere
<1>5. ASSUME NEW t \in Tasks, Handle(t) \/ Resend(t) PROVE LInv'
  <2>1. [Step]_vars
    BY <1>5 DEF Step
  <2>2. \A u \in Tasks : pc[u] = "idle" => pc'[u] = "idle"
    BY <1>0, <1>5, HandlerMoves DEF SameTask, Active
  <2> QED
    BY <1>4, <2>1, <2>2
<1>6. ASSUME NEW m \in wire, Execute(m) PROVE LInv'
  <2>1. [Step]_vars /\ pc' = pc
    BY <1>0, <1>6, ExecuteMoves DEF Step
  <2> QED
    BY <1>4, <2>1
<1> QED
  BY <1>2, <1>3, <1>5, <1>6 DEF Elsewhere

LEMMA NextLInv == LInv /\ [SyncNext]_allVars => LInv'
<1> SUFFICES ASSUME LInv, [SyncNext]_allVars PROVE LInv'
  OBVIOUS
<1>0. YInv' /\ SyncTypeOK
  BY NextYInv DEF LInv, YInv
<1>1. ASSUME NEW s \in Syncs, HandleSync(s) PROVE LInv'
  <2>1. ASSUME NEW k \in Keys, Fetch(s, k) PROVE LInv'
    <3>1. UNCHANGED vars /\ \A r \in Syncs : SameView(r)
      BY <2>1 DEF Fetch, SameView
    <3> QED
      BY <1>0, <3>1, LimitOfSync
  <2>2. CASE Respond(s) \/ FailListing(s)
    <3>1. UNCHANGED vars /\ \A r \in Syncs : SameView(r)
      BY <1>0, <2>2 DEF Respond, FailListing, SameView, SyncTypeOK
    <3> QED
      BY <1>0, <3>1, LimitOfSync
  <2>3. CASE FailBatch(s)
    <3>1. Drop(s) /\ \A r \in Syncs : SameView(r)
      BY <1>0, <2>3 DEF FailBatch, SameView, SyncTypeOK
    <3> QED
      BY <1>0, <3>1, LimitOfDrop
  <2> QED
    BY <1>0, <1>1, <2>1, <2>2, <2>3, ReadPageLimit, CheckLimit, UploadLimit DEF HandleSync
<1>2. ASSUME NEW s \in Syncs, HangUp(s) PROVE LInv'
  <2>1. Drop(s) /\ \A r \in Syncs : SameView(r)
    BY <1>0, <1>2 DEF HangUp, SameView, SyncTypeOK
  <2> QED
    BY <1>0, <2>1, LimitOfDrop
<1>3. CASE SyncRest \/ UNCHANGED allVars
  <2>1. UNCHANGED vars /\ UNCHANGED syncVars
    BY <1>3 DEF SyncRest, allVars
  <2> QED
    BY <1>0, <2>1, LimitElsewhere DEF vars
<1> QED
  BY <1>0, <1>1, <1>2, <1>3, StartSyncLimit, ElsewhereLimit DEF SyncNext

LEMMA InitLInv == SyncInit => LInv
<1> SUFFICES ASSUME SyncInit PROVE LInv
  OBVIOUS
<1>1. YInv /\ QInv
  BY InitYInv, InitQInv DEF SyncInit
<1>2. ClientsOK
  BY DEF SyncInit, Init, ClientsOK, Clients, NoRequest
<1>3. ASSUME NEW s \in Syncs PROVE LimitAt(s)
  <2>1. page[s] = 0 /\ accepted[s] = {} /\ since[s] = {} /\ \A k \in Keys : pc[<<s, k>>] = "idle"
    BY UploadTasks DEF SyncInit, Init
  <2> QED
    BY <2>1 DEF LimitAt, SinceOK, OlderRowsOK, PlanOK
<1> QED
  BY <1>1, <1>2, <1>3 DEF LInv

-----------------------------------------------------------------------------
\* What a request, with the other uploads of its sync, may have seen.
Covered(w) == Began(w) \cup {u \in Tasks : SameRequest(w, u)}

\* Neither w nor the sync it belongs to ran while another request did.
Apart(w) ==
    \A u \in Tasks :
        SameRequest(w, u) \/ pc[u] = "idle" \/ w \in Began(u) \/ u \in Began(w)

\* What was over when a request began was over when its sync did, and so on back.
LEMMA BeganFacts ==
    ASSUME LInv, NEW t \in Tasks, pc[t] # "idle"
    PROVE  /\ Began(t) \subseteq before[t]
           /\ \A u \in Began(t) : before[u] \subseteq Began(t)
<1>1. CASE t \in Syncs \X Keys
  <2>1. PICK s \in Syncs, k \in Keys : t = <<s, k>>
    BY <1>1
  <2>2. Began(t) = since[s] /\ SinceOK(s)
    BY <1>1, <2>1 DEF Began, LInv, LimitAt
  <2> QED
    BY <2>1, <2>2 DEF SinceOK
<1>2. CASE t \notin Syncs \X Keys
  BY <1>2 DEF Began, LInv, QInv, OrderOK
<1> QED
  BY <1>1, <1>2

\* Of the writers of the rows, when each ran apart from all others, one request or
\* sync was the last.
LEMMA LastRequest ==
    ASSUME LInv, NEW some \in Keys, data[some].writer # None,
           \A k \in Keys : data[k].writer # None => Apart(data[k].writer)
    PROVE  \E k \in Keys :
               /\ data[k].writer # None
               /\ \A j \in Keys : data[j].writer \in Covered(data[k].writer) \cup {None}
<1> DEFINE Written == {k \in Keys : data[k].writer # None}
           w(k) == data[k].writer
           Later(k) == {j \in Written : w(j) \notin Covered(w(k))}
           Laters == {Later(k) : k \in Written}
<1>0. \A k \in Written : w(k) \in Tasks /\ pc[w(k)] # "idle" /\ Apart(w(k))
  BY NoWriterIdle DEF LInv, QInv, SInv
<1>1. Laters \in SUBSET (SUBSET Keys) /\ Laters # {}
  OBVIOUS
<1>2. PICK ks \in Laters : \A js \in Laters : js \subseteq ks => js = ks
  BY <1>1, SmallestKeys, Zenon
<1>3. PICK k \in Written : ks = Later(k)
  BY <1>2
<1>4. ASSUME NEW j \in Later(k) PROVE FALSE
  <2>1. /\ j \in Written /\ w(j) \in Tasks /\ pc[w(j)] # "idle" /\ w(k) \in Tasks /\ pc[w(k)] # "idle"
        /\ w(j) \notin Began(w(k)) /\ ~ SameRequest(w(k), w(j))
    BY <1>0, <1>4 DEF Covered
  <2>2. w(k) \in Began(w(j))
    BY <1>0, <2>1 DEF Apart
  <2>3. Began(w(k)) \subseteq Began(w(j))
    BY <2>1, <2>2, BeganFacts
  <2>4. ASSUME NEW i \in Written, SameRequest(w(k), w(i)) PROVE w(i) \in Began(w(j))
    <3>1. CASE w(i) = w(k)
      BY <2>2, <3>1
    <3>2. CASE w(i) # w(k)
      <4>1. Began(w(i)) = Began(w(k)) /\ ~ SameRequest(w(i), w(j))
        BY <2>1, <2>4, <3>2 DEF SameRequest, Began
      <4>2. Apart(w(i))
        BY <1>0
      <4> HIDE DEF w
      <4> QED
        BY <2>1, <4>1, <4>2 DEF Apart
    <3> QED
      BY <3>1, <3>2
  <2>5. \A i \in Written : w(i) \in Covered(w(k)) => w(i) \in Covered(w(j))
    BY <1>0, <2>3, <2>4 DEF Covered
  <2>6. w(j) \in Covered(w(j)) /\ w(j) \notin Covered(w(k))
    BY <1>4, <2>1 DEF Covered, SameRequest
  <2>7. Later(j) \subseteq Later(k) /\ Later(j) # Later(k)
    BY <2>1, <2>5, <2>6
  <2>8. Later(j) \in Laters
    BY <2>1
  <2> HIDE DEF Later, Laters
  <2> QED
    BY <1>2, <1>3, <2>7, <2>8
<1> QED
  BY <1>4

\* The last writer was a client's PUT, which saw all the rows of the others.
LEMMA LastClient ==
    ASSUME LInv, NEW k \in Keys, data[k].writer # None, data[k].writer \in Clients,
           Apart(data[k].writer),
           \A j \in Keys : data[j].writer \in Covered(data[k].writer) \cup {None}
    PROVE  Total(data) <= MaxTotal
<1> DEFINE w == data[k].writer
           W == before[w] \cup {w}
<1>0. HInv /\ data \in [Keys -> Row] /\ MaxTotal \in Nat
  BY BoundsAssumption DEF LInv, QInv, SInv, HInv, TypeOK
<1>1. w \in Tasks /\ w \notin Syncs \X Keys /\ req[w].op = "put" /\ req[w].key = k
  BY <1>0, NoWriterIdle DEF LInv, QInv, RowsOK, IsSave, ClientsOK, Clients
<1>2. Began(w) = before[w] /\ \A u : SameRequest(w, u) <=> u = w
  BY <1>1 DEF Began, SameRequest
<1>3. Alone(w)
  <2>1. ASSUME NEW u \in Tasks \ {w}, pc[u] # "idle" PROVE w \in before[u] \/ u \in before[w]
    <3>1. w \in Began(u) \/ u \in before[w]
      BY <1>2, <2>1 DEF Apart
    <3> QED
      BY <2>1, <3>1, BeganFacts
  <2> QED
    BY <2>1 DEF Alone, Overlap
<1>4. Total(Only(data, W)) <= MaxTotal
  BY <1>1, <1>3 DEF LInv, QInv, QuotaOK, QuotaAt
<1>5. \A j \in Keys : data[j].writer \in W \cup {None}
  BY <1>2 DEF Covered
<1> HIDE DEF W
<1>6. /\ Total(data) <= Total(Only(data, W))
      /\ Total(data) \in Nat /\ Total(Only(data, W)) \in Nat
  BY <1>0, <1>5, OnlyAll, OnlyType
<1> QED
  BY <1>0, <1>4, <1>6

\* The last writer was an upload of a batch all of which is saved, as planned.
LEMMA LastSync ==
    ASSUME LInv, NEW k \in Keys, NEW s \in Syncs, NEW i \in Keys, data[k].writer = <<s, i>>,
           accepted[s] = Saved(s),
           \A j \in Keys : data[j].writer \in Covered(data[k].writer) \cup {None}
    PROVE  Total(data) <= MaxTotal
<1> DEFINE plan == Planned(manifest[s], accepted[s], s)
<1>0. /\ SInv /\ HInv /\ RowsOK /\ UploadsOK /\ SinceOK(s) /\ OlderRowsOK(s) /\ PlanOK(s)
      /\ data \in [Keys -> Row] /\ MaxTotal \in Nat /\ manifest[s] \in [Keys -> Row]
      /\ accepted[s] \subseteq Keys
  BY BoundsAssumption DEF LInv, QInv, SInv, HInv, TypeOK, YInv, SyncTypeOK, LimitAt
<1>1. \A j, r \in Keys : data[j].writer = <<s, r>> => r = j /\ j \in accepted[s]
  <2> SUFFICES ASSUME NEW j \in Keys, NEW r \in Keys, data[j].writer = <<s, r>>
               PROVE  r = j /\ j \in accepted[s]
    OBVIOUS
  <2>1. data[j].writer # None /\ pc[<<s, r>>] # "idle"
    BY <1>0, UploadTasks, NoWriterIdle
  <2> QED
    BY <1>0, <2>1 DEF RowsOK, UploadsOK
<1>2. \A j \in Keys : \/ data[j].writer \in since[s]
                      \/ data[j].writer = None
                      \/ j \in accepted[s] /\ data[j].writer = <<s, j>>
  <2>1. Covered(<<s, i>>) \subseteq since[s] \cup ({s} \X Keys)
    BY DEF Covered, Began, SameRequest
  <2>2. ASSUME NEW j \in Keys, data[j].writer \in {s} \X Keys
        PROVE  j \in accepted[s] /\ data[j].writer = <<s, j>>
    BY <1>1, <2>2
  <2> QED
    BY <2>1, <2>2
<1>3. accepted[s] # {} /\ \A j \in Keys : Listed(s, j)
  BY <1>0, <1>1 DEF PlanOK
<1>4. plan \in [Keys -> Row] /\ Total(plan) <= MaxTotal
  <2>1. \A j \in Keys : CountedRow(s, j) \in Row
    BY CountedRowsType DEF LInv, YInv
  <2> QED
    BY <1>0, <1>3, <2>1 DEF PlanOK, Planned
<1>5. ASSUME NEW j \in Keys PROVE RowSize(data[j]) <= RowSize(plan[j])
  <2>1. RowSize(data[j]) \in Nat /\ RowSize(plan[j]) \in Nat
    BY <1>0, <1>4, RowSizeType
  <2>2. CASE data[j].writer = None
    BY <2>1, <2>2 DEF RowSize
  <2>3. CASE data[j].writer # None /\ j \in accepted[s]
    <3>1. Wrote(s, j)
      BY <2>3 DEF Wrote, Saved
    <3>2. data[j].writer = <<s, j>>
      BY <1>0, <1>2, <2>3, <3>1 DEF OlderRowsOK
    <3>3. plan[j].writer = <<s, j>>
      BY <2>3 DEF Planned, CountedRow
    <3> QED
      BY <2>1, <3>2, <3>3 DEF RowSize
  <2>4. CASE data[j].writer # None /\ j \notin accepted[s]
    <3>1. data[j].writer = manifest[s][j].writer /\ plan[j] = manifest[s][j]
      BY <1>0, <1>2, <1>3, <2>4 DEF OlderRowsOK, Planned
    <3> QED
      BY <2>1, <3>1 DEF RowSize
  <2> QED
    BY <2>2, <2>3, <2>4
<1> HIDE DEF plan
<1>6. Total(data) <= Total(plan) /\ Total(data) \in Nat /\ Total(plan) \in Nat
  BY <1>0, <1>4, <1>5, TotalMonotone, TotalType
<1> QED
  BY <1>0, <1>4, <1>6

\* With syncs too, for any devices, keys, pages and sizes: a user goes over MaxTotal
\* only when two requests overlapped, or a batch of delta_sync is saved in part.
THEOREM SyncOverLimitNeedsOverlap == SyncSpec => []SyncOverLimitOnlyByOverlap
<1>0. LInv => \A k \in Keys : data[k].writer # None => data[k].writer \in Tasks
  BY NoWriterIdle DEF LInv, QInv, SInv
<1>1. LInv => SyncOverLimitOnlyByOverlap
  <2> SUFFICES ASSUME LInv,
                      \A k \in Keys :
                          data[k].writer # None =>
                              /\ data[k].writer \in Clients
                                     \/ accepted[data[k].writer[1]] = Saved(data[k].writer[1])
                              /\ Apart(data[k].writer)
               PROVE  ~ (Total(data) > MaxTotal)
    BY <1>0 DEF SyncOverLimitOnlyByOverlap, Apart
  <2>0. /\ HInv /\ RowsOK /\ data \in [Keys -> Row] /\ Total(data) \in Nat /\ MaxTotal \in Nat
    BY TotalType, BoundsAssumption DEF LInv, QInv, SInv, HInv, TypeOK
  <2>1. CASE \A k \in Keys : data[k].writer = None
    <3>1. Total(data) = 0
      BY <2>0, <2>1, TotalEmpty DEF RowSize
    <3> QED
      BY <2>0, <3>1
  <2>2. CASE \E k \in Keys : data[k].writer # None
    <3>1. PICK k \in Keys :
             /\ data[k].writer # None
             /\ \A j \in Keys : data[j].writer \in Covered(data[k].writer) \cup {None}
      BY <2>2, LastRequest
    <3>2. data[k].writer \in Tasks
      BY <1>0, <3>1
    <3>3. CASE data[k].writer \in Clients
      <4>1. Total(data) <= MaxTotal
        BY <3>1, <3>3, LastClient
      <4> QED
        BY <2>0, <4>1
    <3>4. CASE data[k].writer \notin Clients
      <4>1. PICK s \in Syncs, i \in Keys : data[k].writer = <<s, i>>
        BY <3>2, <3>4 DEF Clients
      <4>2. accepted[s] = Saved(s)
        BY <3>1, <3>4, <4>1
      <4>3. Total(data) <= MaxTotal
        BY <3>1, <4>1, <4>2, LastSync
      <4> QED
        BY <2>0, <4>3
    <3> QED
      BY <3>3, <3>4
  <2> QED
    BY <2>1, <2>2
<1> QED
  BY <1>1, InitLInv, NextLInv, PTL DEF SyncSpec

=============================================================================
