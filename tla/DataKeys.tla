------------------------------ MODULE DataKeys ------------------------------
(***************************************************************************)
(* The rows of one user in the table data, and the requests that write     *)
(* them: PUT and DELETE of /v2/data/{key}, the saves of a /v2/sync batch,  *)
(* and the account deletion of DELETE /v1                                  *)
(* (src/lib/database.rs, src/routes/v2/data.rs).                           *)
(*                                                                         *)
(* A row carries a version. A save reads the version of the row, or that   *)
(* there is no row, and then sends one conditional statement: INSERT IF    *)
(* NOT EXISTS, or UPDATE IF version = v. A statement that is not applied   *)
(* sends the save round its loop again, at most LWT_MAX_RETRIES times.     *)
(* The database executes each copy of a statement it receives atomically.  *)
(* The driver is allowed to send further copies of a statement that is     *)
(* late, a copy can be executed long after the request was answered, and a *)
(* copy that is never executed is a lost one.                              *)
(*                                                                         *)
(* The content of a row is told apart by the request that wrote it, so the *)
(* checksum is the writer; timestamps and compression are left out.        *)
(***************************************************************************)
EXTENDS Integers, Sequences, FiniteSets, FiniteSetsExt

CONSTANTS
    Keys,        \* the keys of the user's partition
    Tasks,       \* the requests (one save of one key, one delete, one purge)
    Ops,         \* the operations the clients call
    None,        \* no task, no key
    Size,        \* the size of the value each task carries
    Corrupt,     \* tasks whose value does not match the checksum sent with it
    KeyMax,      \* max_size_for_key
    Blocked,     \* keys validate_key or datastore_blocked turns away
    MaxTotal,    \* CONFIG.max_backup_size_bytes
    MaxRetries,  \* LWT_MAX_RETRIES
    MaxResends   \* further copies the driver sends of a late statement

ASSUME KeysAssumption ==
    /\ IsFiniteSet(Keys)
    /\ Blocked \subseteq Keys
    /\ KeyMax \in [Keys -> Nat]

ASSUME TasksAssumption ==
    /\ Ops \subseteq {"put", "save", "delete", "purge"}
    /\ Size \in [Tasks -> Nat]
    /\ Corrupt \subseteq Tasks
    /\ None \notin Tasks \cup Keys

ASSUME BoundsAssumption ==
    /\ MaxTotal \in Nat
    /\ MaxRetries \in Nat \ {0}
    /\ MaxResends \in Nat

VARIABLES
    data,    \* the row of each key
    wire,    \* copies of statements sent and not executed
    pc,      \* where each handler stands
    req,     \* what each request asks for
    local,   \* the local variables of the handler's retry loop
    answer,  \* what the client was told
    past,    \* history: the successive contents of each row
    before,  \* history: the requests that were over when this one began
    from     \* history: the length of its row's past when a save began

vars == <<data, wire, pc, req, local, answer, past, before, from>>

-----------------------------------------------------------------------------
Row == [version : Nat, writer : Tasks \cup {None}]

NoRow == [version |-> 0, writer |-> None]

Request == [op : {"none", "put", "save", "delete", "purge"}, key : Keys \cup {None}]

NoRequest == [op |-> "none", key |-> None]

Local == [attempt : 0 .. MaxRetries,
          read    : SUBSET {"total", "row"},
          rows    : [Keys -> Row],
          row     : Row,
          copies  : 0 .. MaxResends + 1,
          reply   : SUBSET {"applied", "rejected"}]

NoRows == [k \in Keys |-> NoRow]

Loop(n) == [attempt |-> n, read |-> {}, rows |-> NoRows, row |-> NoRow,
            copies |-> 0, reply |-> {}]

Answer == [status : {"none", "saved", "deleted", "quota", "refused", "exhausted", "error"},
           version : Nat]

Told(status) == [status |-> status, version |-> 0]

Copy == [task : Tasks, attempt : 1 .. MaxRetries, copy : 1 .. MaxResends + 1, expect : Nat]

RowSize(row) == IF row.writer = None THEN 0 ELSE Size[row.writer]

\* SELECT SUM(size_bytes) over the user's partition.
Total(rows) == MapThenSumSet(LAMBDA k : RowSize(rows[k]), Keys)

IsSave(t) == req[t].op \in {"put", "save"}

\* The keys whose rows a delete or an account deletion removes.
Erased(t) == IF req[t].op = "purge" THEN Keys ELSE {req[t].key}

Settled(t) == /\ pc[t] = "done"
              /\ \A m \in wire : m.task # t

-----------------------------------------------------------------------------
Init ==
    /\ data = NoRows
    /\ wire = {}
    /\ pc = [t \in Tasks |-> "idle"]
    /\ req = [t \in Tasks |-> NoRequest]
    /\ local = [t \in Tasks |-> Loop(0)]
    /\ answer = [t \in Tasks |-> Told("none")]
    /\ past = [k \in Keys |-> <<NoRow>>]
    /\ before = [t \in Tasks |-> {}]
    /\ from = [t \in Tasks |-> 0]

\* The checks a handler makes before it touches the database.
Acceptable(t, op, k) ==
    CASE op = "purge"  -> k = None
      [] op = "delete" -> k \in Keys \ Blocked
      [] OTHER         -> k \in Keys \ Blocked /\ Size[t] <= KeyMax[k] /\ t \notin Corrupt

Finish(t, a) ==
    /\ pc' = [pc EXCEPT ![t] = "done"]
    /\ local' = [local EXCEPT ![t] = Loop(0)]
    /\ answer' = [answer EXCEPT ![t] = a]

\* Fault: the condition names the version that is to be stored.
CopyOf_NewVersion(t, l) ==
    [task |-> t, attempt |-> l.attempt, copy |-> l.copies,
     expect |-> IF l.row = NoRow THEN 0 ELSE l.row.version + 1]

\* A new copy of the statement the task is waiting for.
CopyOf(t, l) == [task |-> t, attempt |-> l.attempt, copy |-> l.copies, expect |-> l.row.version]

SendFrom(t, l) ==
    /\ pc' = [pc EXCEPT ![t] = "waiting"]
    /\ local' = [local EXCEPT ![t] = [l EXCEPT !.copies = @ + 1]]
    /\ wire' = wire \cup {CopyOf(t, [l EXCEPT !.copies = @ + 1])}

\* A request arrives and passes the handler's checks. A delete and an account
\* deletion are one unconditional statement, sent at once; a save starts its
\* loop of reading and writing conditionally.
Begin(t, op, k) ==
    /\ pc[t] = "idle"
    /\ Acceptable(t, op, k)
    /\ req' = [req EXCEPT ![t] = [op |-> op, key |-> k]]
    /\ before' = [before EXCEPT ![t] = {u \in Tasks : Settled(u)}]
    /\ IF op \in {"put", "save"}
       THEN /\ pc' = [pc EXCEPT ![t] = "reading"]
            /\ local' = [local EXCEPT ![t] = Loop(1)]
            /\ from' = [from EXCEPT ![t] = Len(past[k])]
            /\ UNCHANGED wire
       ELSE SendFrom(t, Loop(1)) /\ UNCHANGED from
    /\ UNCHANGED <<data, answer, past>>

\* A request the checks turn away is answered at once; a purge has no check.
Refuse(t, op, k) ==
    /\ pc[t] = "idle"
    /\ op # "purge" /\ k \in Keys
    /\ ~ Acceptable(t, op, k)
    /\ req' = [req EXCEPT ![t] = [op |-> op, key |-> k]]
    /\ before' = [before EXCEPT ![t] = {u \in Tasks : Settled(u)}]
    /\ Finish(t, Told("refused"))
    /\ UNCHANGED <<data, wire, past, from>>

\* The two SELECTs of a PUT are joined: either may be answered first, and
\* other requests write between them. A sync save reads the version only. The
\* rows the sum was taken over are kept in place of the sum.
ReadTotal(t) ==
    /\ pc[t] = "reading"
    /\ req[t].op = "put"
    /\ "total" \notin local[t].read
    /\ local' = [local EXCEPT ![t] =
                     [local[t] EXCEPT !.read = local[t].read \cup {"total"}, !.rows = data]]
    /\ UNCHANGED <<data, wire, pc, req, answer, past, before, from>>

ReadRow(t) ==
    /\ pc[t] = "reading"
    /\ "row" \notin local[t].read
    /\ local' = [local EXCEPT ![t] =
                     [local[t] EXCEPT !.read = local[t].read \cup {"row"},
                                      !.row = data[req[t].key]]]
    /\ UNCHANGED <<data, wire, pc, req, answer, past, before, from>>

ReadsDone(t) ==
    /\ pc[t] = "reading"
    /\ local[t].read = IF req[t].op = "put" THEN {"total", "row"} ELSE {"row"}

\* Fault: the quota forgets the value being written.
OverQuota_OldRowsOnly(t) ==
    req[t].op = "put" /\ Total(local[t].rows) > MaxTotal

\* total - existing + new > max: computed from the two reads.
OverQuota(t) ==
    /\ req[t].op = "put"
    /\ Total(local[t].rows) - RowSize(local[t].row) + Size[t] > MaxTotal

RefuseForQuota(t) ==
    /\ ReadsDone(t)
    /\ OverQuota(t)
    /\ Finish(t, Told("quota"))
    /\ UNCHANGED <<data, wire, req, past, before, from>>

Send(t) ==
    /\ ReadsDone(t)
    /\ ~ OverQuota(t)
    /\ SendFrom(t, local[t])
    /\ UNCHANGED <<data, req, answer, past, before, from>>

\* The statements are marked idempotent, so the driver's speculative execution
\* and its retry policy send a late one again. The unlogged batch of an
\* account deletion is not marked, and is sent once.
Resend(t) ==
    /\ pc[t] = "waiting"
    /\ req[t].op # "purge"
    /\ local[t].copies <= MaxResends
    /\ SendFrom(t, local[t])
    /\ UNCHANGED <<data, req, answer, past, before, from>>

-----------------------------------------------------------------------------
(* The database. *)

Store(rows) ==
    /\ data' = rows
    /\ past' = [k \in Keys |-> IF rows[k] = data[k] THEN past[k]
                               ELSE Append(past[k], rows[k])]

\* The database answers a copy; nobody listens to the answer of a copy whose
\* attempt is over.
Reply(m, outcome) ==
    LET t == m.task
    IN  local' = IF pc[t] = "waiting" /\ local[t].attempt = m.attempt
                 THEN [local EXCEPT ![t].reply = @ \cup {outcome}]
                 ELSE local

\* Fault: the statement has no condition.
Applies_Always(m) == TRUE

\* The condition of a save: INSERT IF NOT EXISTS and UPDATE IF version = v are
\* one comparison, with version 0 for "no row".
Applies(m) == data[req[m.task].key].version = m.expect

\* An applied INSERT stores version 1, an applied UPDATE stores v + 1.
ExecuteSave(m) ==
    /\ IsSave(m.task)
    /\ Store(IF Applies(m)
             THEN [data EXCEPT ![req[m.task].key] =
                       [version |-> m.expect + 1, writer |-> m.task]]
             ELSE data)
    /\ Reply(m, IF Applies(m) THEN "applied" ELSE "rejected")
    /\ wire' = wire \ {m}
    /\ UNCHANGED <<pc, req, answer, before, from>>

ExecuteDelete(m) ==
    /\ ~ IsSave(m.task)
    /\ Store([k \in Keys |-> IF k \in Erased(m.task) THEN NoRow ELSE data[k]])
    /\ Reply(m, "applied")
    /\ wire' = wire \ {m}
    /\ UNCHANGED <<pc, req, answer, before, from>>

-----------------------------------------------------------------------------
\* Fault: the version that was read, not the one that was written.
StoredVersion_AsRead(t) == local[t].row.version

StoredVersion(t) == local[t].row.version + 1

ReceiveApplied(t) ==
    /\ pc[t] = "waiting"
    /\ "applied" \in local[t].reply
    /\ Finish(t, IF IsSave(t)
                 THEN [status |-> "saved", version |-> StoredVersion(t)]
                 ELSE Told("deleted"))
    /\ UNCHANGED <<data, wire, req, past, before, from>>

\* Fault: one attempt too many.
CanRetry_OffByOne(t) == local[t].attempt <= MaxRetries

\* for _ in 0..LWT_MAX_RETRIES: one more attempt is left.
CanRetry(t) == local[t].attempt < MaxRetries

RetryAfterConflict(t) ==
    /\ pc[t] = "waiting"
    /\ "rejected" \in local[t].reply
    /\ CanRetry(t)
    /\ pc' = [pc EXCEPT ![t] = "reading"]
    /\ local' = [local EXCEPT ![t] = Loop(local[t].attempt + 1)]
    /\ UNCHANGED <<data, wire, req, answer, past, before, from>>

GiveUpAfterRetries(t) ==
    /\ pc[t] = "waiting"
    /\ "rejected" \in local[t].reply
    /\ ~ CanRetry(t)
    /\ Finish(t, Told("exhausted"))
    /\ UNCHANGED <<data, wire, req, past, before, from>>

\* Fault: the driver waits for an answer without a limit.
MayFail_ReadsOnly(t) == pc[t] = "reading"

MayFail(t) == pc[t] \in {"reading", "waiting"}

\* A database error, the request timeout of the driver, or the client hanging
\* up, which drops the handler at its await. Copies already sent remain.
Fail(t) ==
    /\ MayFail(t)
    /\ Finish(t, Told("error"))
    /\ UNCHANGED <<data, wire, req, past, before, from>>

-----------------------------------------------------------------------------
\* All requests are answered and nothing is under way.
Rest ==
    /\ \A t \in Tasks : Settled(t)
    /\ UNCHANGED vars

Arrive(t) ==
    \E op \in Ops, k \in Keys \cup {None} : Begin(t, op, k) \/ Refuse(t, op, k)

\* What the server does for a request once it has arrived.
Handle(t) ==
    \/ ReadTotal(t)
    \/ ReadRow(t)
    \/ RefuseForQuota(t)
    \/ Send(t)
    \/ ReceiveApplied(t)
    \/ RetryAfterConflict(t)
    \/ GiveUpAfterRetries(t)
    \/ Fail(t)

Execute(m) == ExecuteSave(m) \/ ExecuteDelete(m)

Next ==
    \/ \E t \in Tasks : Arrive(t) \/ Handle(t) \/ Resend(t)
    \/ \E m \in wire : Execute(m)
    \/ Rest

Spec == Init /\ [][Next]_vars

\* A handler that can go on does: the runtime polls it again, and the request
\* timeout of the driver ends a wait nothing else ends. Clients need not call,
\* and the database need not execute a copy.
FairSpec == Spec /\ \A t \in Tasks : WF_vars(Handle(t))

-----------------------------------------------------------------------------
(* Correctness. *)

\* Every variable keeps its shape: rows, statements, loop counters and answers
\* are those the code can build.
TypeOK ==
    /\ data \in [Keys -> Row]
    /\ wire \subseteq Copy
    /\ pc \in [Tasks -> {"idle", "reading", "waiting", "done"}]
    /\ req \in [Tasks -> Request]
    /\ local \in [Tasks -> Local]
    /\ answer \in [Tasks -> Answer]
    /\ past \in [Keys -> Seq(Row)]
    /\ before \in [Tasks -> SUBSET Tasks]
    /\ from \in [Tasks -> Nat]

\* Where in its row's history a save stored the version it acknowledged.
StoredAt(t) ==
    {i \in DOMAIN past[req[t].key] :
        past[req[t].key][i] = [version |-> answer[t].version, writer |-> t]}

\* A save the client was told had succeeded, with version v, did store its
\* content under version v, however many copies of its statements were sent
\* and whichever of their outcomes the handler saw.
AckedWasStored ==
    \A t \in Tasks : answer[t].status = "saved" => StoredAt(t) # {}

\* Two saves of one key are never acknowledged with the same version unless
\* the row was deleted in between: a client can order its writes, and sync can
\* compare manifests, by version.
AckedVersionsDistinct ==
    \A t, u \in Tasks :
        /\ t # u
        /\ answer[t].status = "saved" /\ answer[u].status = "saved"
        /\ req[t].key = req[u].key
        /\ answer[t].version = answer[u].version
        => \A i \in StoredAt(t), j \in StoredAt(u) :
               \E d \in (i .. j) \cup (j .. i) : past[req[t].key][d] = NoRow

\* A save that reports exhausted retries met that many changes of its row after
\* it began, one between the read and the statement of each attempt: the loop
\* gives up only under contention, never because it compares wrongly.
ExhaustedOnlyUnderContention ==
    \A t \in Tasks :
        answer[t].status = "exhausted" => Len(past[req[t].key]) - from[t] >= MaxRetries

\* Request u ran while t did: neither was over when the other began.
Overlap(t, u) == pc[u] # "idle" /\ t \notin before[u] /\ u \notin before[t]

\* The partition goes over MaxTotal only when a request that wrote one of its
\* rows overlapped another one, or wrote without the quota check: a client that
\* waits for each answer, and whose copies are all executed by then, stays
\* within its limit.
OverLimitOnlyByOverlap ==
    Total(data) > MaxTotal =>
        \E k \in Keys :
            LET w == data[k].writer
            IN  /\ w # None
                /\ req[w].op = "save" \/ \E u \in Tasks \ {w} : Overlap(w, u)

\* The data of a user never exceeds the limit. PRIVACY.md states it of the
\* service; the code checks a sum and writes a row in separate steps.
QuotaRespected == Total(data) <= MaxTotal

\* Every request that arrives is answered: the retry loop is bounded and no
\* wait is endless, although statements and replies are lost.
EveryRequestAnswered ==
    \A t \in Tasks : pc[t] \in {"reading", "waiting"} ~> pc[t] = "done"

-----------------------------------------------------------------------------
Promise == INSTANCE Registers WITH rows <- data, history <- past, asked <- req, told <- answer

\* The store keeps what Registers promises: every write counts up from the row it
\* replaces and belongs to a request that was let in, in whatever order copies
\* are executed, and no answer claims a write that was not made.
RefinesRegisters == Promise!Spec

=============================================================================
