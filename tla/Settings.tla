------------------------------ MODULE Settings ------------------------------
(***************************************************************************)
(* The settings of one user: the row of the table users, and the requests  *)
(* HEAD, GET, PUT and DELETE of /v1/settings (src/routes/v1/settings.rs,   *)
(* save_user_settings and its neighbours in src/lib/database.rs).          *)
(*                                                                         *)
(* The row has no version. Its ETag is updated_at, a time in milliseconds. *)
(* A save takes the time once, and then alternates UPDATE IF EXISTS and    *)
(* INSERT IF NOT EXISTS, at most LWT_MAX_RETRIES times each, until one of  *)
(* them is applied. As in DataKeys, the driver may send further copies of  *)
(* a statement, and a copy can be executed after its request was answered. *)
(* The blob is told apart by the request that wrote it.                    *)
(***************************************************************************)
EXTENDS Integers, Sequences, FiniteSets

CONSTANTS
    Tasks,       \* the requests
    Ops,         \* the operations the clients call
    None,        \* no task
    MaxClock,    \* bound on the milliseconds that pass
    MaxRetries,  \* LWT_MAX_RETRIES
    MaxResends   \* further copies the driver sends of a late statement

ASSUME SettingsAssumption ==
    /\ Ops \subseteq {"head", "get", "put", "delete"}
    /\ None \notin Tasks
    /\ MaxClock \in Nat \ {0}
    /\ MaxRetries \in Nat \ {0}
    /\ MaxResends \in Nat

VARIABLES
    row,     \* the row of the user in users
    clock,   \* the time in milliseconds
    wire,    \* copies of statements sent and not executed
    pc,      \* where each handler stands
    req,     \* what each request asks for
    local,   \* the local variables of the handler
    answer,  \* what the client was told
    past,    \* history: the successive contents of the row
    started, \* history: the length of past when a save began its loop
    before   \* history: the requests that were over when this one began

vars == <<row, clock, wire, pc, req, local, answer, past, started, before>>

-----------------------------------------------------------------------------
\* The blob and updated_at, which is also the ETag.
Settings == [writer : Tasks \cup {None}, written : Nat]

NoSettings == [writer |-> None, written |-> 0]

\* A conditional request carries "*" or a tag; a device has the tag from a row
\* it once saw, or from somewhere else (NoSettings).
Request == [op : {"none", "head", "get", "put", "delete"},
            header : {"none", "any", "tag"},
            held : Settings]

NoRequest == [op |-> "none", header |-> "none", held |-> NoSettings]

Local == [attempt : 0 .. MaxRetries,
          stmt    : {"none", "update", "insert", "delete"},
          now     : Nat,
          copies  : 0 .. MaxResends + 1,
          reply   : SUBSET {"applied", "rejected"}]

Waiting(n, stmt, now) == [attempt |-> n, stmt |-> stmt, now |-> now, copies |-> 0, reply |-> {}]

Idle == Waiting(0, "none", 0)

Answer == [status : {"none", "refused", "missing", "unchanged", "found", "failed_match",
                     "saved", "deleted", "exhausted", "error"},
           row : Settings]

Told(status) == [status |-> status, row |-> NoSettings]

Copy == [task : Tasks, attempt : 1 .. MaxRetries, stmt : {"update", "insert", "delete"},
         now : Nat, copy : 1 .. MaxResends + 1]

Answered == {t \in Tasks : pc[t] = "done"}

\* Answered, and every statement it sent executed.
Settled == {t \in Answered : \A m \in wire : m.task # t}

-----------------------------------------------------------------------------
Init ==
    /\ row = NoSettings
    /\ clock = 1
    /\ wire = {}
    /\ pc = [t \in Tasks |-> "idle"]
    /\ req = [t \in Tasks |-> NoRequest]
    /\ local = [t \in Tasks |-> Idle]
    /\ answer = [t \in Tasks |-> Told("none")]
    /\ past = <<NoSettings>>
    /\ started = [t \in Tasks |-> 0]
    /\ before = [t \in Tasks |-> [answered |-> {}, settled |-> {}]]

Finish(t, a) ==
    /\ pc' = [pc EXCEPT ![t] = "done"]
    /\ local' = [local EXCEPT ![t] = Idle]
    /\ answer' = [answer EXCEPT ![t] = a]

\* The handler sends one copy of the statement it is to wait for.
SendFrom(t, l) ==
    LET sent == [l EXCEPT !.copies = l.copies + 1]
    IN  /\ pc' = [pc EXCEPT ![t] = "waiting"]
        /\ local' = [local EXCEPT ![t] = sent]
        /\ wire' = wire \cup {[task |-> t, attempt |-> sent.attempt, stmt |-> sent.stmt,
                               now |-> sent.now, copy |-> sent.copies]}

\* save_user_settings: the time is taken once, before the loop.
StartSave(t) ==
    /\ SendFrom(t, Waiting(1, "update", clock))
    /\ started' = [started EXCEPT ![t] = Len(past)]

\* A request arrives. A PUT without If-Match saves at once; a DELETE has no
\* condition; the others first read updated_at.
Begin(t, op, header, held) ==
    /\ pc[t] = "idle"
    /\ req' = [req EXCEPT ![t] = [op |-> op, header |-> header, held |-> held]]
    /\ before' = [before EXCEPT ![t] = [answered |-> Answered, settled |-> Settled]]
    /\ CASE op = "put" /\ header = "none" -> StartSave(t)
         [] op = "delete"                  -> /\ SendFrom(t, Waiting(1, "delete", 0))
                                              /\ UNCHANGED started
         [] OTHER                          -> /\ pc' = [pc EXCEPT ![t] = "checking"]
                                              /\ UNCHANGED <<wire, local, started>>
    /\ UNCHANGED <<row, clock, answer, past>>

\* A PUT of another content type, or of more than max_backup_size_bytes.
Refuse(t) ==
    /\ pc[t] = "idle"
    /\ "put" \in Ops
    /\ req' = [req EXCEPT ![t] = [NoRequest EXCEPT !.op = "put"]]
    /\ before' = [before EXCEPT ![t] = [answered |-> Answered, settled |-> Settled]]
    /\ Finish(t, Told("refused"))
    /\ UNCHANGED <<row, clock, wire, past, started>>

Arrive(t) ==
    \/ Refuse(t)
    \/ \E op \in Ops, header \in {"none", "any", "tag"} :
           \E held \in IF header = "tag" THEN {past[i] : i \in DOMAIN past} ELSE {NoSettings} :
               /\ op = "delete" => header = "none"
               /\ Begin(t, op, header, held)

-----------------------------------------------------------------------------
\* etag_matches, for a row that exists.
Matches(t) ==
    \/ req[t].header = "any"
    \/ req[t].header = "tag" /\ req[t].held.written = row.written

\* Fault: If-Match is met when there is nothing to match against.
MayOverwrite_Absent(t) == row = NoSettings \/ Matches(t)

MayOverwrite(t) == row # NoSettings /\ Matches(t)

\* PUT with If-Match: updated_at is read, compared, and the save starts.
CheckPut(t) ==
    /\ pc[t] = "checking"
    /\ req[t].op = "put"
    /\ IF MayOverwrite(t)
       THEN StartSave(t) /\ UNCHANGED answer
       ELSE Finish(t, Told("failed_match")) /\ UNCHANGED <<wire, started>>
    /\ UNCHANGED <<row, clock, req, past, before>>

\* HEAD and GET: updated_at is read first; a GET whose tag does not match goes
\* on to read the blob.
CheckGet(t) ==
    /\ pc[t] = "checking"
    /\ req[t].op \in {"head", "get"}
    /\ CASE row = NoSettings             -> Finish(t, Told("missing"))
         [] row # NoSettings /\ Matches(t) -> Finish(t, [status |-> "unchanged", row |-> row])
         [] OTHER -> IF req[t].op = "head"
                     THEN Finish(t, [status |-> "found", row |-> row])
                     ELSE /\ pc' = [pc EXCEPT ![t] = "fetching"]
                          /\ UNCHANGED <<local, answer>>
    /\ UNCHANGED <<row, clock, wire, req, past, started, before>>

\* The second read of a GET: another row may be there by now, or none.
Fetch(t) ==
    /\ pc[t] = "fetching"
    /\ Finish(t, IF row = NoSettings THEN Told("missing")
                 ELSE [status |-> "found", row |-> row])
    /\ UNCHANGED <<row, clock, wire, req, past, started, before>>

-----------------------------------------------------------------------------
(* The database and the driver. *)

\* All statements on users are marked idempotent, and sent again when late.
Resend(t) ==
    /\ pc[t] = "waiting"
    /\ local[t].copies <= MaxResends
    /\ SendFrom(t, local[t])
    /\ UNCHANGED <<row, clock, req, answer, past, started, before>>

Applies(m) ==
    \/ m.stmt = "delete"
    \/ m.stmt = "update" /\ row # NoSettings
    \/ m.stmt = "insert" /\ row = NoSettings

Result(m) ==
    IF m.stmt = "delete" THEN NoSettings ELSE [writer |-> m.task, written |-> m.now]

\* Fault: the [applied] column of the result is not read.
Outcome_NeverApplied(m) == IF m.stmt = "delete" THEN "applied" ELSE "rejected"

\* What the handler reads in the [applied] column.
Outcome(m) == IF Applies(m) THEN "applied" ELSE "rejected"

Execute(m) ==
    LET t == m.task
    IN  /\ row' = IF Applies(m) THEN Result(m) ELSE row
        /\ past' = IF row' = row THEN past ELSE Append(past, row')
        /\ local' = IF pc[t] = "waiting" /\ local[t].attempt = m.attempt /\ local[t].stmt = m.stmt
                    THEN [local EXCEPT ![t].reply = @ \cup {Outcome(m)}]
                    ELSE local
        /\ wire' = wire \ {m}
        /\ UNCHANGED <<clock, pc, req, answer, started, before>>

-----------------------------------------------------------------------------
\* Fault: a DELETE is answered before the database has answered.
Done_AtOnce(t) == "applied" \in local[t].reply \/ local[t].stmt = "delete"

Done(t) == "applied" \in local[t].reply

\* Fault: the answer carries the time of the answer.
Written_AtAnswer(t) == clock

Written(t) == local[t].now

ReceiveApplied(t) ==
    /\ pc[t] = "waiting"
    /\ Done(t)
    /\ Finish(t, IF req[t].op = "put"
                 THEN [status |-> "saved", row |-> [writer |-> t, written |-> Written(t)]]
                 ELSE Told("deleted"))
    /\ UNCHANGED <<row, clock, wire, req, past, started, before>>

\* There was no row to update: the save tries to insert it.
InsertInstead(t) ==
    /\ pc[t] = "waiting"
    /\ local[t].stmt = "update"
    /\ "rejected" \in local[t].reply
    /\ SendFrom(t, Waiting(local[t].attempt, "insert", local[t].now))
    /\ UNCHANGED <<row, clock, req, answer, past, started, before>>

\* Fault: one attempt too many.
CanRetry_OffByOne(t) == local[t].attempt <= MaxRetries

CanRetry(t) == local[t].attempt < MaxRetries

\* There was a row after all: back to the update.
UpdateAgain(t) ==
    /\ pc[t] = "waiting"
    /\ local[t].stmt = "insert"
    /\ "rejected" \in local[t].reply
    /\ CanRetry(t)
    /\ SendFrom(t, Waiting(local[t].attempt + 1, "update", local[t].now))
    /\ UNCHANGED <<row, clock, req, answer, past, started, before>>

GiveUpAfterRetries(t) ==
    /\ pc[t] = "waiting"
    /\ local[t].stmt = "insert"
    /\ "rejected" \in local[t].reply
    /\ ~ CanRetry(t)
    /\ Finish(t, Told("exhausted"))
    /\ UNCHANGED <<row, clock, wire, req, past, started, before>>

\* Fault: the driver waits for the answer to a write without a limit.
MayFail_ReadsOnly(t) == pc[t] \in {"checking", "fetching"}

MayFail(t) == pc[t] \in {"checking", "fetching", "waiting"}

\* A database error, the request timeout, or the client hanging up.
Fail(t) ==
    /\ MayFail(t)
    /\ Finish(t, Told("error"))
    /\ UNCHANGED <<row, clock, wire, req, past, started, before>>

Tick ==
    /\ clock < MaxClock
    /\ clock' = clock + 1
    /\ UNCHANGED <<row, wire, pc, req, local, answer, past, started, before>>

-----------------------------------------------------------------------------
Handle(t) ==
    \/ CheckPut(t)
    \/ CheckGet(t)
    \/ Fetch(t)
    \/ ReceiveApplied(t)
    \/ InsertInstead(t)
    \/ UpdateAgain(t)
    \/ GiveUpAfterRetries(t)
    \/ Fail(t)

Rest ==
    /\ Settled = Tasks
    /\ UNCHANGED vars

Next ==
    \/ \E t \in Tasks : Arrive(t) \/ Handle(t) \/ Resend(t)
    \/ \E m \in wire : Execute(m)
    \/ Tick
    \/ Rest

Spec == Init /\ [][Next]_vars

\* As in DataKeys: the runtime polls a handler that can go on, and the request
\* timeout ends a wait. Clients, time and the database are free to stop.
FairSpec == Spec /\ \A t \in Tasks : WF_vars(Handle(t))

-----------------------------------------------------------------------------
(* Correctness. *)

\* Every variable keeps its shape: the statements, attempts and answers are those
\* the handlers can build.
SettingsTypeOK ==
    /\ row \in Settings
    /\ clock \in 1 .. MaxClock
    /\ wire \subseteq Copy
    /\ pc \in [Tasks -> {"idle", "checking", "fetching", "waiting", "done"}]
    /\ req \in [Tasks -> Request]
    /\ local \in [Tasks -> Local]
    /\ answer \in [Tasks -> Answer]
    /\ past \in Seq(Settings)
    /\ started \in [Tasks -> Nat]
    /\ before \in [Tasks -> [answered : SUBSET Tasks, settled : SUBSET Tasks]]

\* A save the client was told had succeeded, with an ETag, did store its blob
\* under that ETag: the device may use it in the next conditional request.
AckedTagWasStored ==
    \A t \in Tasks : answer[t].status = "saved" => \E i \in DOMAIN past : past[i] = answer[t].row

Overwrites(u) == answer[u].status \in {"saved", "deleted"}

\* Once a save or a deletion is acknowledged, the blob of a request that was
\* settled when it began is gone for good.
SettledNeverReturns ==
    \A u \in Tasks : Overwrites(u) => row.writer \notin before[u].settled

\* The same of a request that had been acknowledged: "safely retry". A copy of
\* its UPDATE that the driver sent again can still be on its way, is not
\* conditional on anything but a row, and puts the older blob back.
AcknowledgedNeverReturns ==
    \A u \in Tasks : Overwrites(u) =>
        ~ (row.writer \in before[u].answered /\ answer[row.writer].status = "saved")

\* A PUT with If-Match replaces a row with another ETag, or no row, only when
\* that came about after the handler compared the ETags.
IfMatchLostOnlyByRace ==
    \A t \in Tasks : \A i \in 2 .. Len(past) :
        /\ past[i].writer = t
        /\ req[t].header # "none"
        /\ i = started[t] + 1
        => /\ past[i - 1] # NoSettings
           /\ req[t].header = "tag" => past[i - 1].written = req[t].held.written

\* A save that reports exhausted retries saw the row come and go that often after
\* it began: absent at each UPDATE, present at each INSERT.
SaveExhaustedOnlyUnderContention ==
    \A t \in Tasks :
        answer[t].status = "exhausted" => Len(past) - started[t] >= 2 * MaxRetries - 1

\* Every request is answered, although statements and replies are lost.
EverySettingsRequestAnswered ==
    \A t \in Tasks : pc[t] \in {"checking", "fetching", "waiting"} ~> pc[t] = "done"

=============================================================================
