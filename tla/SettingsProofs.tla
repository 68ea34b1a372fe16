--------------------------- MODULE SettingsProofs ---------------------------
(***************************************************************************)
(* Proofs about Settings, for any number of requests, attempts and resends *)
(* and any bound on the clock. Every statement comes from a handler        *)
(* (HandlersOK, WireOK), a request that is settled stays so (SettledOK),   *)
(* and the history ends with the row (PastOK). On these rest what an       *)
(* answer says of the history (AckOK), what has become of the writers of   *)
(* old (GoneOK), what If-Match was compared with (MatchOK), and how often  *)
(* the row came and went after a save began (SawOK).                       *)
(***************************************************************************)
EXTENDS Settings, SequenceTheorems, TLAPS

\* Where a handler stands, and what it holds there.
HandlersOK ==
    \A t \in Tasks :
        /\ pc[t] = "idle" => before[t].settled = {}
        /\ pc[t] # "done" => answer[t].status = "none"
        /\ pc[t] = "checking" => req[t].op # "delete"
        /\ pc[t] = "waiting" =>
               /\ local[t].attempt >= 1
               /\ local[t].stmt \in IF req[t].op = "put" THEN {"update", "insert"} ELSE {"delete"}
               /\ local[t].stmt = "delete" => "rejected" \notin local[t].reply
        /\ answer[t].status = "saved" => req[t].op = "put"

\* Only a handler that waits, or waited, has sent statements, all of the same time.
WireOK ==
    \A m \in wire :
        /\ pc[m.task] \in {"waiting", "done"}
        /\ m.stmt \in IF req[m.task].op = "put" THEN {"update", "insert"} ELSE {"delete"}
        /\ pc[m.task] = "waiting" => m.now = local[m.task].now

SettledOK == \A u \in Tasks : before[u].settled \subseteq Settled

PastOK ==
    /\ Len(past) >= 1
    /\ past[Len(past)] = row
    /\ \A i \in 1 .. Len(past) :
           /\ past[i].writer = None => past[i] = NoSettings
           /\ past[i].writer # None => pc[past[i].writer] \in {"waiting", "done"}

\* The row has been what s says.
Stored(s) == \E i \in 1 .. Len(past) : past[i] = s

Acked(t) ==
    /\ pc[t] = "waiting" /\ local[t].stmt # "delete" /\ "applied" \in local[t].reply =>
           Stored([writer |-> t, written |-> local[t].now])
    /\ answer[t].status = "saved" => Stored(answer[t].row)

AckOK == \A t \in Tasks : Acked(t)

GoneOK ==
    \A u \in Tasks :
        (pc[u] = "waiting" /\ "applied" \in local[u].reply) \/ Overwrites(u) =>
            row.writer \notin before[u].settled

\* The row that the handler of t compared with If-Match met it.
Compared(t) ==
    /\ started[t] \in 1 .. Len(past)
    /\ past[started[t]] # NoSettings
    /\ req[t].header = "tag" => past[started[t]].written = req[t].held.written

\* The requests that have sent a statement.
Launched ==
    {t \in Tasks : \/ pc[t] = "waiting"
                   \/ \E m \in wire : m.task = t
                   \/ \E i \in 1 .. Len(past) : past[i].writer = t}

MatchOK == \A t \in Launched : req[t].header # "none" => Compared(t)

\* The row was there, or was not, at the n-th place of its history or later.
SawRow(n) == \E i \in 1 .. Len(past) : i >= n /\ past[i] # NoSettings

SawNone(n) == \E i \in 1 .. Len(past) : i >= n /\ past[i] = NoSettings

\* What a save with the locals l has seen of the row since it began, when the
\* length of past was c: an UPDATE follows a rejected INSERT and is rejected when
\* there is no row; an INSERT follows a rejected UPDATE and is rejected when there
\* is one.
SawBy(l, c) ==
    /\ l.stmt = "update" =>
           /\ l.attempt = 1 \/ SawRow(c + 2 * l.attempt - 3)
           /\ "rejected" \in l.reply => SawNone(c + 2 * l.attempt - 2)
    /\ l.stmt = "insert" =>
           /\ SawNone(c + 2 * l.attempt - 2)
           /\ "rejected" \in l.reply => SawRow(c + 2 * l.attempt - 1)

Saw(t) ==
    /\ started[t] <= Len(past)
    /\ pc[t] = "waiting" => SawBy(local[t], started[t])
    /\ answer[t].status = "exhausted" => Len(past) - started[t] >= 2 * MaxRetries - 1

SawOK == \A t \in Tasks : Saw(t)

SInv ==
    /\ SettingsTypeOK /\ HandlersOK /\ WireOK /\ SettledOK /\ PastOK
    /\ AckOK /\ GoneOK /\ MatchOK /\ SawOK

-----------------------------------------------------------------------------
LEMMA Numbers ==
    /\ MaxRetries \in Nat /\ MaxRetries >= 1 /\ MaxResends \in Nat
    /\ MaxClock \in Nat /\ MaxClock >= 1 /\ None \notin Tasks
BY SettingsAssumption

LEMMA Blank ==
    /\ NoSettings \in Settings /\ NoRequest \in Request /\ Idle \in Local
    /\ \A status \in {"none", "refused", "missing", "failed_match", "deleted",
                      "exhausted", "error"} :
           Told(status) \in Answer /\ Told(status).status = status
    /\ Idle.reply = {}
BY Numbers DEF NoSettings, Settings, NoRequest, Request, Idle, Waiting, Local, Told, Answer

LEMMA PastFacts ==
    ASSUME SInv
    PROVE  /\ past \in Seq(Settings) /\ Len(past) \in Nat /\ Len(past) >= 1
           /\ \A i \in 1 .. Len(past) : past[i] \in Settings
           /\ row \in Settings /\ past[Len(past)] = row
BY DEF SInv, SettingsTypeOK, PastOK

LEMMA InitSInv == Init => SInv
<1> SUFFICES ASSUME Init PROVE SInv
  OBVIOUS
<1>1. /\ past = <<NoSettings>> /\ Len(past) = 1 /\ past[1] = NoSettings /\ row = NoSettings
      /\ NoSettings.writer = None
  BY DEF Init, NoSettings
<1>2. /\ \A t \in Tasks : /\ pc[t] = "idle" /\ answer[t].status = "none"
                          /\ before[t].settled = {}
      /\ wire = {}
  BY Blank DEF Init
<1>3. SettingsTypeOK
  <2>1. past \in Seq(Settings)
    BY <1>1, Blank
  <2> QED
    BY <2>1, Blank, Numbers DEF Init, SettingsTypeOK
<1>4. Launched = {}
  BY <1>1, <1>2, Numbers DEF Launched
<1> QED
  <2>1. SawOK
    <3>1. \A t \in Tasks : started[t] = 0
      BY DEF Init
    <3> QED
      BY <1>1, <1>2, <3>1 DEF SawOK, Saw
  <2> QED
    BY <1>1, <1>2, <1>3, <1>4, <2>1, Numbers
       DEF SInv, HandlersOK, WireOK, SettledOK, PastOK, AckOK, Acked, GoneOK, Overwrites, MatchOK

-----------------------------------------------------------------------------
(* The steps of handlers. None of them changes the row. *)

\* What lets the handler of t go on to a place, with locals l, an answer a and the
\* histories c and b, for the request q.
Sound(t, place, l, a, q, c, b) ==
    /\ IF pc[t] = "idle" THEN b.settled \subseteq Settled ELSE q = req[t] /\ b = before[t]
    /\ pc[t] = "waiting" =>
           /\ c = started[t] /\ place \in {"waiting", "done"}
           /\ place = "waiting" => l.now = local[t].now
    /\ place = "checking" => q.op # "delete"
    /\ place # "done" => a.status = "none"
    /\ a.status = "saved" => q.op = "put" /\ Stored(a.row)
    /\ c <= Len(past)
    /\ a.status = "exhausted" => Len(past) - c >= 2 * MaxRetries - 1
    /\ (place = "waiting" /\ "applied" \in l.reply) \/ a.status \in {"saved", "deleted"} =>
           row.writer \notin b.settled

SoundLocals(t, l, q, c) ==
    /\ l.attempt >= 1
    /\ l.stmt \in IF q.op = "put" THEN {"update", "insert"} ELSE {"delete"}
    /\ l.stmt = "delete" => "rejected" \notin l.reply
    /\ l.stmt # "delete" /\ "applied" \in l.reply => Stored([writer |-> t, written |-> l.now])
    /\ q.header # "none" =>
           /\ c \in 1 .. Len(past) /\ past[c] # NoSettings
           /\ q.header = "tag" => past[c].written = q.held.written
    /\ SawBy(l, c)

\* The handler goes there.
Moves(t, place, l, a, q, c, b) ==
    /\ pc' = [pc EXCEPT ![t] = place]
    /\ local' = [local EXCEPT ![t] = l]
    /\ answer' = [answer EXCEPT ![t] = a]
    /\ req' = [req EXCEPT ![t] = q]
    /\ started' = [started EXCEPT ![t] = c]
    /\ before' = [before EXCEPT ![t] = b]
    /\ UNCHANGED <<row, clock, past>>

LEMMA HandlerStep ==
    ASSUME SInv, NEW t \in Tasks, pc[t] # "done",
           NEW place \in {"checking", "fetching", "waiting", "done"},
           NEW l \in Local, NEW a \in Answer, NEW q \in Request, NEW c \in Nat,
           NEW b \in [answered : SUBSET Tasks, settled : SUBSET Tasks],
           Moves(t, place, l, a, q, c, b), Sound(t, place, l, a, q, c, b),
           place = "waiting" => SoundLocals(t, l, q, c),
           wire \subseteq wire',
           \A m \in wire' \ wire :
               /\ m \in Copy /\ m.task = t /\ m.now = l.now /\ place = "waiting"
               /\ m.stmt \in IF q.op = "put" THEN {"update", "insert"} ELSE {"delete"}
    PROVE  SInv'
<1>0. UNCHANGED <<row, clock, past>>
  BY DEF Moves
<1>1. /\ pc' \in [Tasks -> {"idle", "checking", "fetching", "waiting", "done"}]
      /\ local' \in [Tasks -> Local] /\ answer' \in [Tasks -> Answer]
      /\ req' \in [Tasks -> Request] /\ started' \in [Tasks -> Nat]
      /\ before' \in [Tasks -> [answered : SUBSET Tasks, settled : SUBSET Tasks]]
  BY DEF SInv, SettingsTypeOK, Moves
<1>2. /\ pc'[t] = place /\ local'[t] = l /\ answer'[t] = a /\ req'[t] = q
      /\ started'[t] = c /\ before'[t] = b
  BY DEF SInv, SettingsTypeOK, Moves
<1>3. \A u \in Tasks \ {t} :
          /\ pc'[u] = pc[u] /\ local'[u] = local[u] /\ answer'[u] = answer[u] /\ req'[u] = req[u]
          /\ started'[u] = started[u] /\ before'[u] = before[u]
  BY DEF SInv, SettingsTypeOK, Moves
<1>4. wire' \subseteq Copy /\ (\A m \in wire' : m.task \in Tasks)
  BY DEF SInv, SettingsTypeOK, Copy
<1>5. SettingsTypeOK'
  BY <1>0, <1>1, <1>4 DEF SInv, SettingsTypeOK
<1>6. \A s, n : /\ Stored(s)' <=> Stored(s)
                /\ SawRow(n)' <=> SawRow(n)
                /\ SawNone(n)' <=> SawNone(n)
  BY <1>0 DEF Stored, SawRow, SawNone
<1>7. HandlersOK'
  BY <1>2, <1>3 DEF SInv, HandlersOK, Sound, SoundLocals
<1>8. WireOK'
  BY <1>2, <1>3, <1>4 DEF SInv, WireOK, Sound
<1>9. SettledOK'
  <2>1. Settled \subseteq Settled'
    BY <1>3 DEF Settled, Answered
  <2>2. b.settled \subseteq Settled
    BY DEF SInv, SettledOK, Sound
  <2> QED
    BY <1>2, <1>3, <2>1, <2>2 DEF SInv, SettledOK
<1>10. PastOK'
  <2>1. \A u \in Tasks : pc[u] \in {"waiting", "done"} => pc'[u] \in {"waiting", "done"}
    BY <1>2, <1>3 DEF Sound
  <2>2. \A i \in 1 .. Len(past) : past[i].writer \in Tasks \cup {None}
    BY PastFacts DEF Settings
  <2> QED
    BY <1>0, <2>1, <2>2 DEF SInv, PastOK
<1>11. AckOK'
  <2>1. ASSUME NEW u \in Tasks \ {t} PROVE Acked(u)'
    <3>1. Acked(u)
      BY DEF SInv, AckOK
    <3> QED
      BY <1>0, <1>3, <3>1 DEF Acked, Stored
  <2>2. Acked(t)'
    BY <1>0, <1>2 DEF Acked, Stored, Sound, SoundLocals
  <2> QED
    BY <2>1, <2>2 DEF AckOK
<1>12. GoneOK'
  BY <1>0, <1>2, <1>3 DEF SInv, GoneOK, Overwrites, Sound
<1>13. MatchOK'
  <2> SUFFICES ASSUME NEW u \in Launched', req'[u].header # "none" PROVE Compared(u)'
    BY DEF MatchOK
  <2>1. CASE u # t
    <3>1. u \in Launched
      BY <1>0, <1>3, <2>1 DEF Launched
    <3> QED
      BY <1>0, <1>3, <2>1, <3>1 DEF SInv, MatchOK, Compared, Launched
  <2>2. CASE u = t /\ place = "waiting"
    BY <1>0, <1>2, <2>2 DEF Compared, SoundLocals
  <2>3. CASE u = t /\ place # "waiting"
    <3>1. u \in Launched /\ wire' = wire
      BY <1>0, <1>2, <2>3 DEF Launched
    <3>2. pc[t] = "waiting"
      BY <2>3, <3>1, Numbers DEF SInv, WireOK, PastOK, Launched
    <3> QED
      BY <1>0, <1>2, <2>3, <3>1, <3>2 DEF SInv, MatchOK, Compared, Sound
  <2> QED
    BY <2>1, <2>2, <2>3
<1>14. SawOK'
  <2>1. ASSUME NEW u \in Tasks \ {t} PROVE Saw(u)'
    <3>1. Saw(u)
      BY DEF SInv, SawOK
    <3> QED
      BY <1>0, <1>3, <3>1 DEF Saw, SawBy, SawRow, SawNone
  <2>2. Saw(t)'
    BY <1>0, <1>2 DEF Saw, SawBy, SawRow, SawNone, Sound, SoundLocals
  <2> QED
    BY <2>1, <2>2 DEF SawOK
<1> QED
  BY <1>5, <1>7, <1>8, <1>9, <1>10, <1>11, <1>12, <1>13, <1>14 DEF SInv

\* A variable that does not change is one that keeps its value at t.
LEMMA Same ==
    ASSUME SInv, NEW t \in Tasks
    PROVE  /\ req = [req EXCEPT ![t] = req[t]] /\ before = [before EXCEPT ![t] = before[t]]
           /\ started = [started EXCEPT ![t] = started[t]]
           /\ answer = [answer EXCEPT ![t] = answer[t]]
           /\ local = [local EXCEPT ![t] = local[t]]
           /\ req[t] \in Request /\ started[t] \in Nat /\ answer[t] \in Answer
           /\ local[t] \in Local
           /\ before[t] \in [answered : SUBSET Tasks, settled : SUBSET Tasks]
           /\ started[t] <= Len(past)
BY DEF SInv, SettingsTypeOK, SawOK, Saw

LEMMA FinishStep ==
    ASSUME SInv, NEW t \in Tasks, pc[t] \in {"checking", "fetching", "waiting"},
           NEW a \in Answer, NEW c \in Nat, pc[t] = "waiting" => c = started[t],
           Finish(t, a), UNCHANGED <<row, clock, wire, req, past, before>>,
           started' = [started EXCEPT ![t] = c],
           a.status = "saved" => req[t].op = "put" /\ Stored(a.row),
           a.status \in {"saved", "deleted"} => row.writer \notin before[t].settled,
           c <= Len(past),
           a.status = "exhausted" => Len(past) - c >= 2 * MaxRetries - 1
    PROVE  SInv'
<1>1. /\ pc' = [pc EXCEPT ![t] = "done"] /\ local' = [local EXCEPT ![t] = Idle]
      /\ answer' = [answer EXCEPT ![t] = a]
  BY DEF Finish
<1>2. /\ req' = [req EXCEPT ![t] = req[t]] /\ before' = [before EXCEPT ![t] = before[t]]
      /\ req[t] \in Request
      /\ before[t] \in [answered : SUBSET Tasks, settled : SUBSET Tasks]
  BY Same
<1>3. Moves(t, "done", Idle, a, req[t], c, before[t])
  BY <1>1, <1>2 DEF Moves
<1>4. Sound(t, "done", Idle, a, req[t], c, before[t])
  BY Blank DEF Sound
<1>5. wire \subseteq wire' /\ wire' \ wire = {}
  OBVIOUS
<1> QED
  BY <1>2, <1>3, <1>4, <1>5, Blank, HandlerStep

\* The handler sends a copy of the statement in l, and what it may base that on.
Sends(t, l, q, c, b) ==
    /\ SendFrom(t, l)
    /\ req' = [req EXCEPT ![t] = q]
    /\ started' = [started EXCEPT ![t] = c]
    /\ before' = [before EXCEPT ![t] = b]
    /\ UNCHANGED <<row, clock, answer, past>>

MaySend(t, l, q, c, b) ==
    /\ IF pc[t] = "idle" THEN b.settled \subseteq Settled ELSE q = req[t] /\ b = before[t]
    /\ pc[t] = "waiting" => c = started[t] /\ l.now = local[t].now
    /\ l.copies <= MaxResends /\ c <= Len(past)
    /\ "applied" \in l.reply => row.writer \notin b.settled
    /\ SoundLocals(t, l, q, c)

LEMMA SendStep ==
    ASSUME SInv, NEW t \in Tasks, pc[t] # "done", NEW l \in Local,
           NEW q \in Request, NEW c \in Nat,
           NEW b \in [answered : SUBSET Tasks, settled : SUBSET Tasks],
           Sends(t, l, q, c, b), MaySend(t, l, q, c, b)
    PROVE  SInv'
<1>0. l.copies <= MaxResends /\ SoundLocals(t, l, q, c)
  BY DEF MaySend
<1> DEFINE sent == [l EXCEPT !.copies = l.copies + 1]
<1> DEFINE m == [task |-> t, attempt |-> sent.attempt, stmt |-> sent.stmt,
                 now |-> sent.now, copy |-> sent.copies]
<1>1. /\ sent \in Local /\ sent.attempt = l.attempt /\ sent.stmt = l.stmt
      /\ sent.now = l.now /\ sent.reply = l.reply /\ sent.copies = l.copies + 1
  BY <1>0, Numbers DEF Local
<1>2. m \in Copy /\ m.task = t /\ m.stmt = l.stmt /\ m.now = l.now
  <2>1. l.attempt \in 1 .. MaxRetries /\ l.copies + 1 \in 1 .. MaxResends + 1 /\ l.now \in Nat
    BY <1>0, Numbers DEF Local, SoundLocals
  <2>2. l.stmt \in {"update", "insert", "delete"}
    BY <1>0 DEF SoundLocals
  <2> QED
    BY <1>1, <2>1, <2>2 DEF Copy
<1>3. /\ pc' = [pc EXCEPT ![t] = "waiting"] /\ local' = [local EXCEPT ![t] = sent]
      /\ wire' = wire \cup {m}
  BY DEF Sends, SendFrom
<1>4. answer' = [answer EXCEPT ![t] = answer[t]] /\ answer[t] \in Answer
  BY Same DEF Sends
<1>5. answer[t].status = "none"
  BY DEF SInv, HandlersOK
<1> HIDE DEF sent, m
<1>6. wire \subseteq wire' /\ (\A x \in wire' \ wire : x = m)
  BY <1>3
<1>7. Moves(t, "waiting", sent, answer[t], q, c, b)
  BY <1>3, <1>4 DEF Moves, Sends
<1>8. Sound(t, "waiting", sent, answer[t], q, c, b)
  BY <1>1, <1>5 DEF Sound, MaySend
<1>9. SoundLocals(t, sent, q, c)
  BY <1>0, <1>1 DEF SoundLocals, SawBy
<1>10. m.stmt \in IF q.op = "put" THEN {"update", "insert"} ELSE {"delete"}
  BY <1>0, <1>2 DEF SoundLocals
<1> QED
  BY <1>1, <1>2, <1>4, <1>6, <1>7, <1>8, <1>9, <1>10, HandlerStep

\* A statement of a turn of the loop of save_user_settings, or a DELETE.
LEMMA WaitingFacts ==
    ASSUME NEW n \in 1 .. MaxRetries, NEW stmt \in {"update", "insert", "delete"}, NEW now \in Nat
    PROVE  /\ Waiting(n, stmt, now) \in Local /\ Waiting(n, stmt, now).attempt = n
           /\ Waiting(n, stmt, now).stmt = stmt /\ Waiting(n, stmt, now).now = now
           /\ Waiting(n, stmt, now).copies = 0 /\ Waiting(n, stmt, now).reply = {}
BY Numbers DEF Waiting, Local

LEMMA ArriveStep ==
    ASSUME SInv, NEW t \in Tasks, Arrive(t)
    PROVE  SInv'
<1> DEFINE b == [answered |-> Answered, settled |-> Settled]
<1>1. /\ b \in [answered : SUBSET Tasks, settled : SUBSET Tasks] /\ b.settled = Settled
      /\ Settled \subseteq Tasks
  BY DEF Settled, Answered
<1>2. /\ pc[t] = "idle" /\ before' = [before EXCEPT ![t] = b]
      /\ UNCHANGED <<row, clock, past>>
  BY DEF Arrive, Refuse, Begin
<1>3. /\ started = [started EXCEPT ![t] = started[t]]
      /\ started[t] \in Nat /\ started[t] <= Len(past)
      /\ answer = [answer EXCEPT ![t] = answer[t]] /\ answer[t] \in Answer
      /\ local = [local EXCEPT ![t] = local[t]] /\ local[t] \in Local
      /\ answer[t].status = "none"
  BY <1>2, Same DEF SInv, HandlersOK
<1> HIDE DEF b
<1>4. CASE Refuse(t)
  <2> DEFINE q == [NoRequest EXCEPT !.op = "put"]
  <2>1. q \in Request
    BY Blank DEF Request
  <2>2. /\ req' = [req EXCEPT ![t] = q] /\ Finish(t, Told("refused"))
        /\ wire' = wire /\ started' = started
    BY <1>4 DEF Refuse
  <2> HIDE DEF q
  <2>3. Moves(t, "done", Idle, Told("refused"), q, started[t], b)
    BY <1>2, <1>3, <2>2 DEF Moves, Finish
  <2>4. Sound(t, "done", Idle, Told("refused"), q, started[t], b)
    BY <1>1, <1>2, <1>3, Blank DEF Sound
  <2>5. wire \subseteq wire' /\ wire' \ wire = {}
    BY <2>2
  <2> QED
    BY <1>1, <1>2, <1>3, <2>1, <2>3, <2>4, <2>5, Blank, HandlerStep
<1>5. ASSUME NEW op \in Ops, NEW header \in {"none", "any", "tag"}, NEW held \in Settings,
             op = "delete" => header = "none", Begin(t, op, header, held)
      PROVE  SInv'
  <2> DEFINE q == [op |-> op, header |-> header, held |-> held]
  <2>1. q \in Request /\ q.op = op /\ q.header = header /\ q.held = held
    BY SettingsAssumption DEF Request
  <2>2. req' = [req EXCEPT ![t] = q] /\ UNCHANGED answer
    BY <1>5 DEF Begin
  <2>3. clock \in Nat
    BY Numbers DEF SInv, SettingsTypeOK
  <2> HIDE DEF q
  <2>4. CASE op = "put" /\ header = "none"
    <3> DEFINE l == Waiting(1, "update", clock)
    <3>1. SendFrom(t, l) /\ started' = [started EXCEPT ![t] = Len(past)]
      BY <1>5, <2>4 DEF Begin, StartSave
    <3>2. l \in Local /\ l.attempt = 1 /\ l.stmt = "update" /\ l.copies = 0 /\ l.reply = {}
      BY <2>3, WaitingFacts, Numbers
    <3> HIDE DEF l
    <3>3. SoundLocals(t, l, q, Len(past))
      BY <2>1, <2>4, <3>2 DEF SoundLocals, SawBy
    <3>4. Sends(t, l, q, Len(past), b)
      BY <1>2, <1>3, <2>2, <3>1 DEF Sends
    <3>5. MaySend(t, l, q, Len(past), b)
      BY <1>1, <1>2, <3>2, <3>3, Numbers, PastFacts DEF MaySend
    <3> QED
      BY <1>1, <1>2, <1>3, <2>1, <3>2, <3>4, <3>5, PastFacts, SendStep
  <2>5. CASE op = "delete"
    <3> DEFINE l == Waiting(1, "delete", 0)
    <3>1. SendFrom(t, l) /\ started' = started
      BY <1>5, <2>5 DEF Begin
    <3>2. l \in Local /\ l.attempt = 1 /\ l.stmt = "delete" /\ l.copies = 0 /\ l.reply = {}
      BY WaitingFacts, Numbers
    <3> HIDE DEF l
    <3>3. SoundLocals(t, l, q, started[t])
      BY <1>5, <2>1, <2>5, <3>2 DEF SoundLocals, SawBy
    <3>4. Sends(t, l, q, started[t], b)
      BY <1>2, <1>3, <2>2, <3>1 DEF Sends
    <3>5. MaySend(t, l, q, started[t], b)
      BY <1>1, <1>2, <1>3, <3>2, <3>3, Numbers DEF MaySend
    <3> QED
      BY <1>1, <1>2, <1>3, <2>1, <3>2, <3>4, <3>5, SendStep
  <2>6. CASE ~ (op = "put" /\ header = "none") /\ op # "delete"
    <3>1. pc' = [pc EXCEPT ![t] = "checking"] /\ UNCHANGED <<wire, local, started>>
      BY <1>5, <2>6 DEF Begin
    <3>2. Moves(t, "checking", local[t], answer[t], q, started[t], b)
      BY <1>2, <1>3, <2>2, <3>1 DEF Moves
    <3>3. Sound(t, "checking", local[t], answer[t], q, started[t], b)
      BY <1>1, <1>2, <1>3, <2>1, <2>6 DEF Sound
    <3>4. wire \subseteq wire' /\ wire' \ wire = {}
      BY <3>1
    <3> QED
      BY <1>1, <1>2, <1>3, <2>1, <3>2, <3>3, <3>4, HandlerStep
  <2> QED
    BY <2>4, <2>5, <2>6
<1>6. \A i \in DOMAIN past : past[i] \in Settings
  BY DEF SInv, SettingsTypeOK
<1> QED
  BY <1>4, <1>5, <1>6, Blank DEF Arrive

LEMMA CheckStep ==
    ASSUME SInv, NEW t \in Tasks, CheckPut(t) \/ CheckGet(t) \/ Fetch(t)
    PROVE  SInv'
<1>1. /\ pc[t] \in {"checking", "fetching"} /\ UNCHANGED <<row, clock, past, req, before>>
      /\ answer[t].status = "none"
  BY DEF CheckPut, CheckGet, Fetch, SInv, HandlersOK
<1>2. /\ req' = [req EXCEPT ![t] = req[t]] /\ before' = [before EXCEPT ![t] = before[t]]
      /\ started = [started EXCEPT ![t] = started[t]]
      /\ answer = [answer EXCEPT ![t] = answer[t]] /\ local = [local EXCEPT ![t] = local[t]]
      /\ req[t] \in Request /\ started[t] \in Nat /\ answer[t] \in Answer /\ local[t] \in Local
      /\ before[t] \in [answered : SUBSET Tasks, settled : SUBSET Tasks]
      /\ started[t] <= Len(past)
  BY <1>1, Same
<1>3. /\ [status |-> "unchanged", row |-> row] \in Answer
      /\ [status |-> "found", row |-> row] \in Answer
  BY PastFacts DEF Answer
<1>4. CASE CheckPut(t)
  <2>1. /\ Len(past) \in Nat /\ Len(past) >= 1
        /\ past[Len(past)] = row /\ req[t].op = "put" /\ pc[t] = "checking"
    BY <1>4, PastFacts DEF CheckPut
  <2>2. CASE MayOverwrite(t)
    <3> DEFINE l == Waiting(1, "update", clock)
    <3>1. SendFrom(t, l) /\ UNCHANGED answer /\ started' = [started EXCEPT ![t] = Len(past)]
      BY <1>4, <2>2 DEF CheckPut, StartSave
    <3>2. l \in Local /\ l.attempt = 1 /\ l.stmt = "update" /\ l.copies = 0 /\ l.reply = {}
      <4>1. clock \in Nat
        BY Numbers DEF SInv, SettingsTypeOK
      <4> QED
        BY <4>1, WaitingFacts, Numbers
    <3> HIDE DEF l
    <3>3. SoundLocals(t, l, req[t], Len(past))
      BY <2>1, <2>2, <3>2 DEF SoundLocals, SawBy, MayOverwrite, Matches
    <3>4. Sends(t, l, req[t], Len(past), before[t])
      BY <1>1, <1>2, <2>1, <3>1 DEF Sends
    <3>5. MaySend(t, l, req[t], Len(past), before[t])
      BY <1>1, <2>1, <3>2, <3>3, Numbers DEF MaySend
    <3> QED
      BY <1>1, <1>2, <2>1, <3>2, <3>4, <3>5, SendStep
  <2>3. CASE ~ MayOverwrite(t)
    <3>1. Finish(t, Told("failed_match")) /\ UNCHANGED <<wire, started>>
      BY <1>4, <2>3 DEF CheckPut
    <3> QED
      BY <1>1, <1>2, <2>1, <3>1, Blank, FinishStep
  <2> QED
    BY <2>2, <2>3
<1>5. ASSUME NEW a \in Answer, a.status \in {"missing", "unchanged", "found"},
             Finish(t, a), UNCHANGED <<wire, started>>
      PROVE  SInv'
  BY <1>1, <1>2, <1>5, FinishStep
<1>6. Told("missing") \in Answer /\ Told("missing").status = "missing"
  BY Blank
<1>7. CASE CheckGet(t)
  <2>1. UNCHANGED <<wire, started>> /\ pc[t] = "checking"
    BY <1>7 DEF CheckGet
  <2>2. \/ Finish(t, Told("missing"))
        \/ Finish(t, [status |-> "unchanged", row |-> row])
        \/ Finish(t, [status |-> "found", row |-> row])
        \/ pc' = [pc EXCEPT ![t] = "fetching"] /\ UNCHANGED <<local, answer>>
    BY <1>7 DEF CheckGet
  <2>3. ASSUME pc' = [pc EXCEPT ![t] = "fetching"], UNCHANGED <<local, answer>>
        PROVE  SInv'
    <3>1. Moves(t, "fetching", local[t], answer[t], req[t], started[t], before[t])
      BY <1>1, <1>2, <2>1, <2>3 DEF Moves
    <3>2. Sound(t, "fetching", local[t], answer[t], req[t], started[t], before[t])
      BY <1>1, <1>2, <2>1 DEF Sound
    <3>3. wire \subseteq wire' /\ wire' \ wire = {}
      BY <2>1
    <3> QED
      BY <1>1, <1>2, <3>1, <3>2, <3>3, HandlerStep
  <2> QED
    BY <1>3, <1>5, <1>6, <2>1, <2>2, <2>3
<1>8. CASE Fetch(t)
  <2>1. UNCHANGED <<wire, started>>
    BY <1>8 DEF Fetch
  <2>2. \/ Finish(t, Told("missing"))
        \/ Finish(t, [status |-> "found", row |-> row])
    BY <1>8 DEF Fetch
  <2> QED
    BY <1>3, <1>5, <1>6, <2>1, <2>2
<1> QED
  BY <1>4, <1>7, <1>8

-----------------------------------------------------------------------------
(* The steps of a handler that waits. *)

LEMMA WaitingSound ==
    ASSUME SInv, NEW t \in Tasks, pc[t] = "waiting"
    PROVE  /\ SoundLocals(t, local[t], req[t], started[t])
           /\ "applied" \in local[t].reply => row.writer \notin before[t].settled
           /\ local[t].attempt \in 1 .. MaxRetries /\ local[t].now \in Nat
<1>1. t \in Launched
  BY DEF Launched
<1>2. req[t].header # "none" => Compared(t)
  BY <1>1 DEF SInv, MatchOK
<1>3. Saw(t)
  BY DEF SInv, SawOK
<1>4. local[t] \in Local
  BY Same
<1>5. local[t].attempt >= 1
  BY DEF SInv, HandlersOK
<1> QED
  BY <1>2, <1>3, <1>4, <1>5, Numbers
     DEF SInv, HandlersOK, AckOK, Acked, GoneOK, Compared, Saw, SoundLocals, Local

LEMMA SendAgainStep ==
    ASSUME SInv, NEW t \in Tasks, pc[t] = "waiting", NEW l \in Local, SendFrom(t, l),
           l.now = local[t].now, l.copies <= MaxResends,
           "applied" \in l.reply => "applied" \in local[t].reply,
           SoundLocals(t, l, req[t], started[t]),
           UNCHANGED <<row, clock, req, answer, past, started, before>>
    PROVE  SInv'
<1>1. /\ req = [req EXCEPT ![t] = req[t]] /\ before = [before EXCEPT ![t] = before[t]]
      /\ started = [started EXCEPT ![t] = started[t]]
      /\ req[t] \in Request /\ started[t] \in Nat /\ started[t] <= Len(past)
      /\ before[t] \in [answered : SUBSET Tasks, settled : SUBSET Tasks]
  BY Same
<1>2. Sends(t, l, req[t], started[t], before[t])
  BY <1>1 DEF Sends
<1>3. MaySend(t, l, req[t], started[t], before[t])
  BY <1>1, WaitingSound DEF MaySend
<1> QED
  BY <1>1, <1>2, <1>3, SendStep

LEMMA ResendStep ==
    ASSUME SInv, NEW t \in Tasks, Resend(t)
    PROVE  SInv'
<1>1. local[t] \in Local
  BY Same
<1> QED
  BY <1>1, WaitingSound, SendAgainStep DEF Resend

LEMMA InsertInsteadStep ==
    ASSUME SInv, NEW t \in Tasks, InsertInstead(t)
    PROVE  SInv'
<1> DEFINE l == Waiting(local[t].attempt, "insert", local[t].now)
<1>1. /\ pc[t] = "waiting" /\ local[t].stmt = "update" /\ "rejected" \in local[t].reply
      /\ SendFrom(t, l) /\ UNCHANGED <<row, clock, req, answer, past, started, before>>
  BY DEF InsertInstead
<1>2. /\ l \in Local /\ l.attempt = local[t].attempt /\ l.stmt = "insert"
      /\ l.now = local[t].now /\ l.copies = 0 /\ l.reply = {}
  BY <1>1, WaitingSound, WaitingFacts
<1> HIDE DEF l
<1>3. SoundLocals(t, l, req[t], started[t])
  BY <1>1, <1>2, WaitingSound DEF SoundLocals, SawBy
<1> QED
  BY <1>1, <1>2, <1>3, Numbers, SendAgainStep

LEMMA UpdateAgainStep ==
    ASSUME SInv, NEW t \in Tasks, UpdateAgain(t)
    PROVE  SInv'
<1> DEFINE l == Waiting(local[t].attempt + 1, "update", local[t].now)
<1>1. /\ pc[t] = "waiting" /\ local[t].stmt = "insert" /\ "rejected" \in local[t].reply
      /\ local[t].attempt < MaxRetries
      /\ SendFrom(t, l) /\ UNCHANGED <<row, clock, req, answer, past, started, before>>
  BY DEF UpdateAgain, CanRetry
<1>2. local[t].attempt + 1 \in 1 .. MaxRetries
  BY <1>1, Numbers, WaitingSound
<1>3. /\ l \in Local /\ l.attempt = local[t].attempt + 1 /\ l.stmt = "update"
      /\ l.now = local[t].now /\ l.copies = 0 /\ l.reply = {}
  BY <1>1, <1>2, WaitingSound, WaitingFacts
<1> HIDE DEF l
<1>4. started[t] + 2 * l.attempt - 3 = started[t] + 2 * local[t].attempt - 1
  BY <1>1, <1>3, WaitingSound, Same
<1>5. SoundLocals(t, l, req[t], started[t])
  <2>1. SawRow(started[t] + 2 * local[t].attempt - 1)
    BY <1>1, WaitingSound DEF SoundLocals, SawBy
  <2>2. SawRow(started[t] + 2 * l.attempt - 3)
    BY <1>4, <2>1 DEF SawRow
  <2>3. req[t].op = "put"
    BY <1>1, WaitingSound DEF SoundLocals
  <2>4. req[t].header # "none" =>
            /\ started[t] \in 1 .. Len(past) /\ past[started[t]] # NoSettings
            /\ req[t].header = "tag" => past[started[t]].written = req[t].held.written
    BY <1>1, WaitingSound DEF SoundLocals
  <2>5. l.attempt >= 1
    BY <1>2, <1>3
  <2> QED
    BY <1>3, <2>2, <2>3, <2>4, <2>5 DEF SoundLocals, SawBy
<1> QED
  BY <1>1, <1>3, <1>5, Numbers, SendAgainStep

LEMMA AnswerStep ==
    ASSUME SInv, NEW t \in Tasks, ReceiveApplied(t) \/ GiveUpAfterRetries(t) \/ Fail(t)
    PROVE  SInv'
<1>1. /\ pc[t] \in {"checking", "fetching", "waiting"}
      /\ UNCHANGED <<row, clock, wire, req, past, started, before>>
  BY DEF ReceiveApplied, GiveUpAfterRetries, Fail, MayFail
<1>2. /\ started' = [started EXCEPT ![t] = started[t]]
      /\ started[t] \in Nat /\ started[t] <= Len(past)
  BY <1>1, Same
<1>3. CASE ReceiveApplied(t) /\ req[t].op = "put"
  <2> DEFINE a == [status |-> "saved", row |-> [writer |-> t, written |-> local[t].now]]
  <2>1. /\ pc[t] = "waiting" /\ "applied" \in local[t].reply /\ Finish(t, a)
    BY <1>3 DEF ReceiveApplied, Done, Written
  <2>2. a \in Answer /\ a.status = "saved" /\ a.row = [writer |-> t, written |-> local[t].now]
    BY <2>1, WaitingSound DEF Answer, Settings
  <2> HIDE DEF a
  <2>3. Stored(a.row) /\ row.writer \notin before[t].settled
    BY <1>3, <2>1, <2>2, WaitingSound DEF SoundLocals
  <2> QED
    BY <1>1, <1>2, <1>3, <2>1, <2>2, <2>3, FinishStep
<1>4. CASE ReceiveApplied(t) /\ req[t].op # "put"
  <2>1. pc[t] = "waiting" /\ "applied" \in local[t].reply /\ Finish(t, Told("deleted"))
    BY <1>4 DEF ReceiveApplied, Done
  <2> QED
    BY <1>1, <1>2, <2>1, Blank, WaitingSound, FinishStep
<1>5. CASE GiveUpAfterRetries(t)
  <2>1. /\ pc[t] = "waiting" /\ local[t].stmt = "insert" /\ "rejected" \in local[t].reply
        /\ ~ local[t].attempt < MaxRetries /\ Finish(t, Told("exhausted"))
    BY <1>5 DEF GiveUpAfterRetries, CanRetry
  <2>2. SawRow(started[t] + 2 * MaxRetries - 1)
    <3>1. local[t].attempt = MaxRetries
      BY <2>1, Numbers, WaitingSound
    <3> QED
      BY <2>1, <3>1, WaitingSound DEF SoundLocals, SawBy
  <2>3. Len(past) - started[t] >= 2 * MaxRetries - 1
    BY <1>2, <2>2, Numbers, PastFacts DEF SawRow
  <2> QED
    BY <1>1, <1>2, <2>1, <2>3, Blank, FinishStep
<1>6. CASE Fail(t)
  <2>1. Finish(t, Told("error"))
    BY <1>6 DEF Fail
  <2> QED
    BY <1>1, <1>2, <2>1, Blank, FinishStep
<1> QED
  BY <1>3, <1>4, <1>5, <1>6

-----------------------------------------------------------------------------
(* The database. *)

\* What the execution of a copy does to the row and its history.
LEMMA ExecutePast ==
    ASSUME SInv, NEW m \in wire, Execute(m)
    PROVE  /\ m \in Copy /\ m.task \in Tasks /\ pc[m.task] \in {"waiting", "done"}
           /\ row' \in Settings /\ past' \in Seq(Settings) /\ Len(past') >= Len(past)
           /\ Len(past') \in Nat /\ past'[Len(past')] = row'
           /\ \A i \in 1 .. Len(past) : past'[i] = past[i]
           /\ \A i \in 1 .. Len(past') : i \in 1 .. Len(past) \/ past'[i] = row'
           /\ row' = IF Applies(m) THEN Result(m) ELSE row
           /\ Result(m).writer \in {m.task, None}
           /\ Result(m).writer = None => Result(m) = NoSettings
<1>1. m \in Copy /\ m.task \in Tasks /\ m.now \in Nat /\ pc[m.task] \in {"waiting", "done"}
  BY DEF SInv, SettingsTypeOK, Copy, WireOK
<1>2. /\ row' = IF Applies(m) THEN Result(m) ELSE row
      /\ past' = IF row' = row THEN past ELSE Append(past, row')
  BY DEF Execute
<1>3. /\ Result(m) \in Settings /\ Result(m).writer \in {m.task, None}
      /\ Result(m).writer = None => Result(m) = NoSettings
  BY <1>1, Numbers DEF Result, Settings, NoSettings
<1>4. row' \in Settings
  BY <1>2, <1>3, PastFacts
<1>5. CASE row' = row
  BY <1>1, <1>2, <1>3, <1>4, <1>5, PastFacts
<1>6. CASE row' # row
  <2>1. past' = Append(past, row')
    BY <1>2, <1>6
  <2>2. /\ past' \in Seq(Settings) /\ Len(past') = Len(past) + 1
        /\ \A i \in 1 .. Len(past) : past'[i] = past[i]
        /\ past'[Len(past) + 1] = row'
    BY <1>4, <2>1, PastFacts, AppendProperties
  <2> QED
    BY <1>1, <1>2, <1>3, <1>4, <2>2, PastFacts
<1> QED
  BY <1>5, <1>6

LEMMA ExecuteStep ==
    ASSUME SInv, NEW m \in wire, Execute(m)
    PROVE  SInv'
<1> DEFINE t == m.task
<1> DEFINE hears == pc[t] = "waiting" /\ local[t].attempt = m.attempt /\ local[t].stmt = m.stmt
<1>0. Outcome(m) \in {"applied", "rejected"} /\ (Outcome(m) = "applied" <=> Applies(m))
  BY DEF Outcome
<1>1. /\ wire' = wire \ {m} /\ UNCHANGED <<clock, pc, req, answer, started, before>>
      /\ t \in Tasks /\ pc[t] \in {"waiting", "done"}
  BY ExecutePast DEF Execute
<1>2. \A u \in Tasks :
          /\ local'[u].attempt = local[u].attempt /\ local'[u].stmt = local[u].stmt
          /\ local'[u].now = local[u].now
          /\ local'[u].reply = local[u].reply \/
                 /\ u = t /\ hears
                 /\ local'[u].reply = local[u].reply \cup {Outcome(m)}
  BY DEF SInv, SettingsTypeOK, Local, Execute
<1>3. local' \in [Tasks -> Local]
  <2>1. local \in [Tasks -> Local]
    BY DEF SInv, SettingsTypeOK
  <2>2. [local[t] EXCEPT !.reply = @ \cup {Outcome(m)}] \in Local
    BY <1>0, <1>1, <2>1 DEF Local
  <2>3. \/ local' = [local EXCEPT ![t] = [local[t] EXCEPT !.reply = @ \cup {Outcome(m)}]]
        \/ local' = local
    BY <2>1 DEF Execute
  <2> QED
    BY <1>1, <2>1, <2>2, <2>3
<1> HIDE DEF t
<1>4. SettingsTypeOK'
  BY <1>1, <1>3, ExecutePast DEF SInv, SettingsTypeOK
<1>5. \A s, n : /\ Stored(s) => Stored(s)'
                /\ SawRow(n) => SawRow(n)'
                /\ SawNone(n) => SawNone(n)'
  BY ExecutePast, PastFacts DEF Stored, SawRow, SawNone
<1>6. HandlersOK'
  BY <1>0, <1>1, <1>2 DEF SInv, HandlersOK, Applies
<1>7. WireOK'
  BY <1>1, <1>2 DEF SInv, WireOK, SettingsTypeOK, Copy
<1>8. SettledOK'
  <2>1. Settled \subseteq Settled'
    BY <1>1 DEF Settled, Answered
  <2> QED
    BY <1>1, <2>1 DEF SInv, SettledOK
<1>9. \/ row' = row
      \/ row'.writer \in {t, None} /\ (row'.writer = None => row' = NoSettings)
  BY ExecutePast DEF t
<1>10. PastOK'
  BY <1>1, <1>9, ExecutePast, PastFacts DEF SInv, PastOK
<1>11. AckOK'
  <2> SUFFICES ASSUME NEW u \in Tasks PROVE Acked(u)'
    BY DEF AckOK
  <2>1. Acked(u) /\ (\A i \in 1 .. Len(past) : i \in 1 .. Len(past') /\ past'[i] = past[i])
    BY ExecutePast, PastFacts DEF SInv, AckOK
  <2>2. CASE "applied" \in local'[u].reply => "applied" \in local[u].reply
    BY <1>1, <1>2, <2>1, <2>2 DEF Acked, Stored
  <2>3. CASE "applied" \in local'[u].reply /\ "applied" \notin local[u].reply
    <3>1. u = t /\ hears /\ Applies(m)
      BY <1>0, <1>2, <2>3
    <3>2. m.now = local[t].now
      BY <3>1 DEF SInv, WireOK, t
    <3>3. m.stmt # "delete" => row' = [writer |-> t, written |-> m.now]
      BY <3>1, ExecutePast DEF Result, t
    <3>4. \E i \in 1 .. Len(past') : past'[i] = row'
      BY ExecutePast, PastFacts
    <3> QED
      BY <1>1, <1>2, <2>1, <3>1, <3>2, <3>3, <3>4 DEF Acked, Stored
  <2> QED
    BY <2>2, <2>3
<1>12. GoneOK'
  <2>1. t \notin Settled /\ None \notin Settled
    BY Numbers DEF Settled, Answered, t
  <2>2. \A u \in Tasks : t \notin before[u].settled /\ None \notin before[u].settled
    BY <2>1 DEF SInv, SettledOK
  <2>3. ASSUME NEW u \in Tasks,
               (pc[u] = "waiting" /\ "applied" \in local'[u].reply) \/ Overwrites(u)
        PROVE  row'.writer \notin before[u].settled
    <3>1. CASE (pc[u] = "waiting" /\ "applied" \in local[u].reply) \/ Overwrites(u)
      BY <1>9, <2>2, <3>1 DEF SInv, GoneOK
    <3>2. CASE "applied" \in local'[u].reply /\ "applied" \notin local[u].reply
      <4>1. Applies(m)
        BY <1>0, <1>2, <3>2
      <4>2. row'.writer \in {t, None}
        BY <4>1, ExecutePast DEF t
      <4> QED
        BY <2>2, <4>2
    <3> QED
      BY <2>3, <3>1, <3>2
  <2> QED
    BY <1>1, <2>3 DEF GoneOK, Overwrites
<1>13. MatchOK'
  <2>1. Launched' \subseteq Launched
    <3>1. \A i \in 1 .. Len(past') : (i \in 1 .. Len(past) /\ past'[i] = past[i]) \/ past'[i] = row'
      BY ExecutePast
    <3>2. row = past[Len(past)] /\ Len(past) \in 1 .. Len(past)
      BY PastFacts
    <3>3. \A u \in Tasks, i \in 1 .. Len(past') : past'[i].writer = u =>
              u = t \/ \E j \in 1 .. Len(past) : past[j].writer = u
      BY <1>9, <3>1, <3>2, Numbers
    <3>4. t \in Launched
      BY <1>1 DEF Launched, t
    <3> QED
      BY <1>1, <3>3, <3>4 DEF Launched
  <2>2. \A u \in Tasks : Compared(u) => Compared(u)'
    BY <1>1, ExecutePast, PastFacts DEF Compared
  <2>3. Launched \subseteq Tasks
    BY DEF Launched
  <2> QED
    BY <1>1, <2>1, <2>2, <2>3 DEF SInv, MatchOK
<1>14. SawOK'
  <2> SUFFICES ASSUME NEW u \in Tasks PROVE Saw(u)'
    BY DEF SawOK
  <2>1. /\ Saw(u) /\ Len(past') >= Len(past) /\ Len(past') \in Nat /\ Len(past) \in Nat
        /\ \A i \in 1 .. Len(past) : i \in 1 .. Len(past') /\ past'[i] = past[i]
    BY ExecutePast, PastFacts DEF SInv, SawOK
  <2>2. /\ local[u].attempt \in Nat /\ local'[u].attempt = local[u].attempt
        /\ started[u] \in Nat /\ started[u] <= Len(past)
    BY <1>2, Same, Numbers DEF Local
  <2>3. PICK e \in Int :
            /\ e = started[u] + 2 * local[u].attempt - 2
            /\ started[u] + 2 * local[u].attempt - 3 = e - 1
            /\ started[u] + 2 * local[u].attempt - 1 = e + 1
            /\ local[u].attempt = 1 => e = started[u]
    BY <2>2
  <2> DEFINE rowAt(n)   == \E i \in 1 .. Len(past) : i >= n /\ past[i] # NoSettings
             noneAt(n)  == \E i \in 1 .. Len(past) : i >= n /\ past[i] = NoSettings
             rowNow(n)  == \E i \in 1 .. Len(past') : i >= n /\ past'[i] # NoSettings
             noneNow(n) == \E i \in 1 .. Len(past') : i >= n /\ past'[i] = NoSettings
  <2>4. /\ rowAt(e - 1) => rowNow(e - 1)
        /\ rowAt(e + 1) => rowNow(e + 1)
        /\ noneAt(e) => noneNow(e)
    BY <2>1
  <2>5. pc[u] = "waiting" =>
            /\ local[u].stmt = "update" =>
                   /\ local[u].attempt = 1 \/ rowAt(e - 1)
                   /\ "rejected" \in local[u].reply => noneAt(e)
            /\ local[u].stmt = "insert" =>
                   /\ noneAt(e)
                   /\ "rejected" \in local[u].reply => rowAt(e + 1)
    BY <2>1, <2>3 DEF Saw, SawBy, SawRow, SawNone
  <2>6. ASSUME pc[u] = "waiting" =>
                   /\ local[u].stmt = "update" =>
                          /\ local[u].attempt = 1 \/ rowNow(e - 1)
                          /\ "rejected" \in local'[u].reply => noneNow(e)
                   /\ local[u].stmt = "insert" =>
                          /\ noneNow(e)
                          /\ "rejected" \in local'[u].reply => rowNow(e + 1)
        PROVE  Saw(u)'
    <3>1. pc[u] = "waiting" => SawBy(local[u], started[u])'
      BY <1>1, <1>2, <2>2, <2>3, <2>6 DEF SawBy, SawRow, SawNone
    <3>2. answer[u].status = "exhausted" => Len(past') - started[u] >= 2 * MaxRetries - 1
      BY <2>1, <2>2, Numbers DEF Saw
    <3> QED
      BY <1>1, <2>1, <2>2, <3>1, <3>2 DEF Saw
  <2> HIDE DEF rowAt, noneAt, rowNow, noneNow
  <2>7. CASE "rejected" \in local'[u].reply => "rejected" \in local[u].reply
    BY <2>4, <2>5, <2>6, <2>7
  <2>8. CASE u = t /\ hears /\ ~ Applies(m)
    <3>1. /\ local[u].stmt = "update" => past[Len(past)] = NoSettings
          /\ local[u].stmt = "insert" => past[Len(past)] # NoSettings
      BY <2>8, PastFacts DEF Applies, t
    <3>2. local[u].stmt = "update" => noneNow(e)
      <4>1. ASSUME local[u].stmt = "update" PROVE Len(past) >= e
        <5>1. local[u].attempt = 1 \/ rowAt(e - 1)
          BY <2>5, <2>8, <4>1
        <5>2. CASE local[u].attempt = 1
          BY <2>2, <2>3, <5>2
        <5>3. CASE rowAt(e - 1)
          BY <2>1, <3>1, <4>1, <5>3, PastFacts DEF rowAt
        <5> QED
          BY <5>1, <5>2, <5>3
      <4> QED
        BY <2>1, <3>1, <4>1, PastFacts DEF noneNow
    <3>3. local[u].stmt = "insert" => rowNow(e + 1)
      <4>1. ASSUME local[u].stmt = "insert" PROVE Len(past) >= e + 1
        BY <2>1, <2>5, <2>8, <3>1, <4>1 DEF noneAt
      <4> QED
        BY <2>1, <3>1, <4>1, PastFacts DEF rowNow
    <3> QED
      BY <2>4, <2>5, <2>6, <2>8, <3>2, <3>3
  <2> QED
    BY <1>0, <1>2, <2>7, <2>8
<1> QED
  BY <1>4, <1>6, <1>7, <1>8, <1>10, <1>11, <1>12, <1>13, <1>14 DEF SInv

-----------------------------------------------------------------------------
LEMMA StutterStep ==
    ASSUME SInv, UNCHANGED <<row, wire, pc, req, local, answer, past, started, before>>,
           clock' \in 1 .. MaxClock
    PROVE  SInv'
<1>1. SettingsTypeOK'
  BY DEF SInv, SettingsTypeOK
<1>2. /\ HandlersOK' /\ WireOK' /\ PastOK'
  BY DEF SInv, HandlersOK, WireOK, PastOK
<1>3. Settled' = Settled
  BY DEF Settled, Answered
<1>4. SettledOK' /\ AckOK' /\ GoneOK'
  BY <1>3 DEF SInv, SettledOK, AckOK, Acked, Stored, GoneOK, Overwrites
<1>5. Launched' = Launched
  BY DEF Launched
<1>6. MatchOK'
  BY <1>5 DEF SInv, MatchOK, Compared
<1>7. SawOK'
  BY DEF SInv, SawOK, Saw, SawBy, SawRow, SawNone
<1> QED
  BY <1>1, <1>2, <1>4, <1>6, <1>7 DEF SInv

LEMMA NextSInv == SInv /\ [Next]_vars => SInv'
<1> SUFFICES ASSUME SInv, [Next]_vars PROVE SInv'
  OBVIOUS
<1>1. ASSUME NEW t \in Tasks, Arrive(t) PROVE SInv'
  BY <1>1, ArriveStep
<1>2. ASSUME NEW t \in Tasks, Handle(t) PROVE SInv'
  <2>1. CASE CheckPut(t) \/ CheckGet(t) \/ Fetch(t)
    BY <2>1, CheckStep
  <2>2. CASE InsertInstead(t)
    BY <2>2, InsertInsteadStep
  <2>3. CASE UpdateAgain(t)
    BY <2>3, UpdateAgainStep
  <2>4. CASE ReceiveApplied(t) \/ GiveUpAfterRetries(t) \/ Fail(t)
    BY <2>4, AnswerStep
  <2> QED
    BY <1>2, <2>1, <2>2, <2>3, <2>4 DEF Handle
<1>3. ASSUME NEW t \in Tasks, Resend(t) PROVE SInv'
  BY <1>3, ResendStep
<1>4. ASSUME NEW m \in wire, Execute(m) PROVE SInv'
  BY <1>4, ExecuteStep
<1>5. CASE Tick
  BY <1>5, StutterStep, Numbers DEF Tick, SInv, SettingsTypeOK
<1>6. CASE Rest \/ UNCHANGED vars
  BY <1>6, StutterStep DEF Rest, vars, SInv, SettingsTypeOK
<1> QED
  BY <1>1, <1>2, <1>3, <1>4, <1>5, <1>6 DEF Next

\* The invariant holds in every state the requests, the database and the driver reach.
THEOREM SInvAlways == Spec => []SInv
<1>1. Init => SInv
  BY InitSInv
<1>2. SInv /\ [Next]_vars => SInv'
  BY NextSInv
<1> QED
  BY <1>1, <1>2, PTL DEF Spec

\* Every variable keeps its shape, for any number of requests and attempts.
THEOREM SettingsTypeCorrect == Spec => []SettingsTypeOK
<1>1. SInv => SettingsTypeOK
  BY DEF SInv
<1> QED
  BY <1>1, SInvAlways, PTL

\* An ETag in the answer to a PUT is one the row really had, with that blob.
THEOREM AckedTagsWereStored == Spec => []AckedTagWasStored
<1>1. SInv => AckedTagWasStored
  <2> SUFFICES ASSUME SInv, NEW t \in Tasks, answer[t].status = "saved"
               PROVE  \E i \in DOMAIN past : past[i] = answer[t].row
    BY DEF AckedTagWasStored
  <2>1. DOMAIN past = 1 .. Len(past)
    BY PastFacts
  <2> QED
    BY <2>1 DEF SInv, AckOK, Acked, Stored
<1> QED
  BY <1>1, SInvAlways, PTL

\* After an acknowledged save or deletion no copy the driver still has out puts back
\* the blob of a request that was settled before it began.
THEOREM SettledBlobsStayGone == Spec => []SettledNeverReturns
<1>1. SInv => SettledNeverReturns
  BY DEF SInv, GoneOK, SettledNeverReturns
<1> QED
  BY <1>1, SInvAlways, PTL

\* If-Match is lost only to a change between the comparison and the UPDATE.
THEOREM IfMatchIsLostOnlyToRaces == Spec => []IfMatchLostOnlyByRace
<1>1. SInv => IfMatchLostOnlyByRace
  <2> SUFFICES ASSUME SInv, NEW t \in Tasks, NEW i \in 2 .. Len(past), past[i].writer = t,
                      req[t].header # "none", i = started[t] + 1
               PROVE  /\ past[i - 1] # NoSettings
                      /\ req[t].header = "tag" => past[i - 1].written = req[t].held.written
    BY DEF IfMatchLostOnlyByRace
  <2>1. t \in Launched
    BY PastFacts DEF Launched
  <2>2. Compared(t)
    BY <2>1 DEF SInv, MatchOK
  <2>3. i - 1 = started[t]
    BY <2>2, PastFacts DEF Compared
  <2> QED
    BY <2>2, <2>3 DEF Compared
<1> QED
  BY <1>1, SInvAlways, PTL

\* A save gives up only when the row, after the save began, came and went around
\* each of its attempts.
THEOREM SavesGiveUpOnlyUnderContention == Spec => []SaveExhaustedOnlyUnderContention
<1>1. SInv => SaveExhaustedOnlyUnderContention
  BY PastFacts, Numbers DEF SInv, SawOK, Saw, SaveExhaustedOnlyUnderContention
<1> QED
  BY <1>1, SInvAlways, PTL

=============================================================================
