--------------------------- MODULE DataKeysProofs ---------------------------
(***************************************************************************)
(* Proofs about DataKeys, for every set of keys and requests and every     *)
(* bound. The argument goes in two layers. The first is the type invariant *)
(* with the facts about a handler that its types rest on (HandlersOK). The *)
(* second relates the handlers to the history of the rows: every row's     *)
(* history counts up between deletions (PastOK), and what a handler has    *)
(* seen or been told is in that history (SeenAt, AnswerAt). At the end,    *)
(* DataKeys is shown to implement Registers.                               *)
(***************************************************************************)
EXTENDS DataKeys, TLAPS

Active(t) == pc[t] \in {"reading", "waiting"}

\* What a handler's position says of its request and its local variables.
HandlersOK ==
    \A t \in Tasks :
        /\ pc[t] = "idle" => req[t].op = "none"
        /\ IsSave(t) => req[t].key \in Keys
        /\ Active(t) => local[t].attempt \in 1 .. MaxRetries
        /\ pc[t] = "reading" => IsSave(t) /\ local[t].copies = 0 /\ local[t].reply = {}
        /\ "rejected" \in local[t].reply => IsSave(t)

\* A copy belongs to a request that has begun, and to no later attempt than
\* the handler's; a copy of the attempt the handler waits for expects the
\* version the handler read.
WireOK ==
    \A m \in wire :
        /\ pc[m.task] # "idle"
        /\ Active(m.task) => m.attempt <= local[m.task].attempt
        /\ pc[m.task] = "reading" => m.attempt # local[m.task].attempt
        /\ pc[m.task] = "waiting" /\ m.attempt = local[m.task].attempt
               => m.expect = local[m.task].row.version

HInv == TypeOK /\ HandlersOK /\ WireOK

\* A step of one request, of the driver or of the database, whichever of the
\* operations this instance has its clients call. The proofs are about these steps,
\* so that they serve DeltaSync, which begins saves of its own, as well.
Calls == {"put", "save", "delete", "purge"}

Step ==
    \/ \E t \in Tasks :
           \/ \E op \in Calls, k \in Keys \cup {None} : Begin(t, op, k) \/ Refuse(t, op, k)
           \/ Handle(t) \/ Resend(t)
    \/ \E m \in wire : Execute(m)

LEMMA NextIsStep == [Next]_vars => [Step]_vars
BY TasksAssumption DEF Next, Step, Calls, Arrive, Rest

-----------------------------------------------------------------------------
LEMMA ConstantFacts ==
    /\ MaxRetries \in Nat /\ MaxRetries >= 1
    /\ MaxResends \in Nat
    /\ None \notin Tasks /\ None \notin Keys
BY TasksAssumption, BoundsAssumption

LEMMA LoopType ==
    /\ NoRow \in Row
    /\ NoRows \in [Keys -> Row]
    /\ \A n \in 0 .. MaxRetries : Loop(n) \in Local
    /\ \A s \in {"none", "deleted", "quota", "refused", "exhausted", "error"} :
           Told(s) \in Answer
BY ConstantFacts DEF NoRow, Row, NoRows, Loop, Local, Told, Answer

LEMMA LoopFields ==
    \A n : /\ Loop(n).attempt = n /\ Loop(n).copies = 0
           /\ Loop(n).row = NoRow /\ Loop(n).read = {} /\ Loop(n).reply = {}
BY DEF Loop

LEMMA InitHInv == Init => HInv
<1> SUFFICES ASSUME Init PROVE HInv
  OBVIOUS
<1>1. TypeOK
  BY LoopType, ConstantFacts DEF Init, TypeOK, NoRequest, Request, Copy
<1>2. HandlersOK
  BY DEF Init, HandlersOK, Active, IsSave, NoRequest, Loop
<1>3. WireOK
  BY DEF Init, WireOK
<1> QED
  BY <1>1, <1>2, <1>3 DEF HInv

\* What the actions have in common.
LEMMA FinishType ==
    ASSUME HInv, NEW t \in Tasks, NEW a \in Answer, Finish(t, a)
    PROVE  /\ pc' \in [Tasks -> {"idle", "reading", "waiting", "done"}]
           /\ local' \in [Tasks -> Local]
           /\ answer' \in [Tasks -> Answer]
BY LoopType, ConstantFacts DEF HInv, TypeOK, Finish

LEMMA SendType ==
    ASSUME HInv, NEW t \in Tasks, NEW l \in Local,
           l.attempt \in 1 .. MaxRetries, l.copies <= MaxResends, SendFrom(t, l)
    PROVE  /\ pc' \in [Tasks -> {"idle", "reading", "waiting", "done"}]
           /\ local' \in [Tasks -> Local]
           /\ wire' \subseteq Copy
<1>1. [l EXCEPT !.copies = @ + 1] \in Local
  BY ConstantFacts DEF Local
<1>2. CopyOf(t, [l EXCEPT !.copies = @ + 1]) \in Copy
  BY ConstantFacts DEF CopyOf, Local, Copy, Row
<1> QED
  BY <1>1, <1>2 DEF HInv, TypeOK, SendFrom

LEMMA ReadType ==
    ASSUME NEW l \in Local, NEW rows \in [Keys -> Row], NEW row \in Row
    PROVE  /\ [l EXCEPT !.read = l.read \cup {"total"}, !.rows = rows] \in Local
           /\ [l EXCEPT !.read = l.read \cup {"row"}, !.row = row] \in Local
BY DEF Local

LEMMA StoreType ==
    ASSUME HInv, NEW rows \in [Keys -> Row], Store(rows)
    PROVE  data' \in [Keys -> Row] /\ past' \in [Keys -> Seq(Row)]
<1>1. \A k \in Keys : Append(past[k], rows[k]) \in Seq(Row)
  BY DEF HInv, TypeOK
<1> QED
  BY <1>1 DEF HInv, TypeOK, Store

LEMMA ReplyType ==
    ASSUME HInv, NEW m \in wire, NEW b \in {"applied", "rejected"}, Reply(m, b)
    PROVE  /\ local' \in [Tasks -> Local]
           /\ \A t \in Tasks :
                  /\ local'[t].attempt = local[t].attempt
                  /\ local'[t].copies = local[t].copies
                  /\ local'[t].row = local[t].row
                  /\ local'[t].read = local[t].read
                  /\ local'[t].rows = local[t].rows
                  /\ \/ local'[t].reply = local[t].reply
                     \/ /\ t = m.task
                        /\ local'[t].reply = local[t].reply \cup {b}
                        /\ pc[t] = "waiting" /\ local[t].attempt = m.attempt
<1> DEFINE t == m.task
           answered == [local EXCEPT ![t].reply = @ \cup {b}]
<1>1. t \in Tasks /\ local \in [Tasks -> Local]
  BY DEF HInv, TypeOK, Copy
<1>2. answered \in [Tasks -> Local]
  BY <1>1 DEF Local
<1>3. \/ local' = answered /\ pc[t] = "waiting" /\ local[t].attempt = m.attempt
      \/ local' = local
  BY DEF Reply
<1>4. \A u \in Tasks : /\ answered[u].attempt = local[u].attempt
                       /\ answered[u].copies = local[u].copies
                       /\ answered[u].row = local[u].row
                       /\ answered[u].read = local[u].read
                       /\ answered[u].rows = local[u].rows
                       /\ u # t => answered[u].reply = local[u].reply
                       /\ u = t => answered[u].reply = local[u].reply \cup {b}
  BY <1>1 DEF Local
<1> HIDE DEF answered
<1> QED
  BY <1>2, <1>3, <1>4, <1>1

LEMMA StepHInv == HInv /\ [Step]_vars => HInv'
<1> SUFFICES ASSUME HInv, [Step]_vars PROVE HInv'
  OBVIOUS
<1> USE ConstantFacts, LoopType
<1>1. ASSUME NEW t \in Tasks, NEW op \in Calls, NEW k \in Keys \cup {None}, Begin(t, op, k)
      PROVE  HInv'
  <2>1. CASE op \in {"put", "save"}
    <3>0. /\ Loop(1) \in Local /\ req' \in [Tasks -> Request]
          /\ from' \in [Tasks -> Nat]
      <4>1. k \in Keys /\ past[k] \in Seq(Row)
        BY <1>1, <2>1 DEF Begin, Acceptable, HInv, TypeOK
      <4>2. Len(past[k]) \in Nat
        BY <4>1
      <4>3. from' = [from EXCEPT ![t] = Len(past[k])] /\ from \in [Tasks -> Nat]
        BY <1>1, <2>1 DEF Begin, HInv, TypeOK
      <4>4. from' \in [Tasks -> Nat]
        BY <4>2, <4>3
      <4>5. req' \in [Tasks -> Request]
        BY <1>1, <2>1 DEF Begin, HInv, TypeOK, Request
      <4> QED
        BY <4>4, <4>5
    <3>1. TypeOK'
      <4>1. /\ UNCHANGED <<data, wire, answer, past>>
            /\ pc' = [pc EXCEPT ![t] = "reading"]
            /\ local' = [local EXCEPT ![t] = Loop(1)]
            /\ before' = [before EXCEPT ![t] = {u \in Tasks : Settled(u)}]
        BY <1>1, <2>1 DEF Begin
      <4> QED
        BY <3>0, <4>1 DEF HInv, TypeOK
    <3>2. HandlersOK'
      <4>1. /\ pc' = [pc EXCEPT ![t] = "reading"]
            /\ req' = [req EXCEPT ![t] = [op |-> op, key |-> k]]
            /\ local' = [local EXCEPT ![t] = Loop(1)]
            /\ k \in Keys
        BY <1>1, <2>1 DEF Begin, Acceptable
      <4>2. \A u \in Tasks \ {t} : pc'[u] = pc[u] /\ req'[u] = req[u] /\ local'[u] = local[u]
        BY <4>1 DEF HInv, TypeOK
      <4>3. /\ pc'[t] = "reading" /\ req'[t].op = op /\ req'[t].key = k
            /\ local'[t].attempt = 1 /\ local'[t].copies = 0 /\ local'[t].reply = {}
        BY <4>1, LoopFields DEF HInv, TypeOK
      <4> QED
        BY <2>1, <4>1, <4>2, <4>3 DEF HInv, HandlersOK, Active, IsSave
    <3>3. WireOK'
      BY <1>1, <2>1 DEF Begin, HInv, TypeOK, WireOK, Active, Copy
    <3> QED
      BY <3>1, <3>2, <3>3 DEF HInv
  <2>2. CASE op \notin {"put", "save"}
    <3>0. op \in {"delete", "purge"} /\ SendFrom(t, Loop(1))
      BY <1>1, <2>2 DEF Begin, Calls
    <3>1. TypeOK'
      <4>1. Loop(1) \in Local /\ Loop(1).attempt = 1 /\ Loop(1).copies = 0
        BY DEF Loop
      <4>2. /\ pc' \in [Tasks -> {"idle", "reading", "waiting", "done"}]
            /\ local' \in [Tasks -> Local]
            /\ wire' \subseteq Copy
        BY <3>0, <4>1, SendType
      <4> QED
        BY <1>1, <2>2, <3>0, <4>2 DEF Begin, HInv, TypeOK, Request
    <3>2. HandlersOK'
      <4>1. /\ pc' = [pc EXCEPT ![t] = "waiting"]
            /\ req' = [req EXCEPT ![t] = [op |-> op, key |-> k]]
            /\ local' = [local EXCEPT ![t] = [Loop(1) EXCEPT !.copies = Loop(1).copies + 1]]
        BY <1>1, <3>0 DEF Begin, SendFrom
      <4>2. /\ [Loop(1) EXCEPT !.copies = Loop(1).copies + 1].attempt = 1
            /\ [Loop(1) EXCEPT !.copies = Loop(1).copies + 1].reply = {}
        BY DEF Loop
      <4>3. \A u \in Tasks \ {t} : pc'[u] = pc[u] /\ req'[u] = req[u] /\ local'[u] = local[u]
        BY <4>1 DEF HInv, TypeOK
      <4>4. /\ pc'[t] = "waiting" /\ req'[t].op = op
            /\ local'[t].attempt = 1 /\ local'[t].reply = {}
        BY <4>1, <4>2 DEF HInv, TypeOK
      <4> QED
        BY <3>0, <4>3, <4>4 DEF HInv, HandlersOK, Active, IsSave
    <3>3. WireOK'
      BY <1>1, <3>0
      DEF Begin, SendFrom, CopyOf, HInv, TypeOK, WireOK, Active, Copy, Loop, Local
    <3> QED
      BY <3>1, <3>2, <3>3 DEF HInv
  <2> QED
    BY <2>1, <2>2
<1>2. ASSUME NEW t \in Tasks, NEW op \in Calls, NEW k \in Keys \cup {None}, Refuse(t, op, k)
      PROVE  HInv'
  <2>1. TypeOK'
    BY <1>2, FinishType DEF Calls, Refuse, HInv, TypeOK, Request
  <2>2. HandlersOK'
    BY <1>2 DEF Refuse, Acceptable, Finish, HInv, TypeOK, HandlersOK, Active, IsSave, Loop
  <2>3. WireOK'
    BY <1>2 DEF Refuse, Finish, HInv, TypeOK, WireOK, Active, Copy
  <2> QED
    BY <2>1, <2>2, <2>3 DEF HInv
<1>3. ASSUME NEW t \in Tasks, ReadTotal(t) PROVE HInv'
  <2>0. [local[t] EXCEPT !.read = local[t].read \cup {"total"}, !.rows = data] \in Local
    BY ReadType, NoRow \in Row DEF HInv, TypeOK
  <2>1. TypeOK'
    BY <1>3, <2>0 DEF ReadTotal, HInv, TypeOK
  <2>2. HandlersOK'
    <3>1. \A u \in Tasks : /\ local'[u].attempt = local[u].attempt
                           /\ local'[u].copies = local[u].copies
                           /\ local'[u].reply = local[u].reply
      BY <1>3 DEF ReadTotal, HInv, TypeOK, Local
    <3> QED
      BY <1>3, <3>1 DEF ReadTotal, HInv, HandlersOK, Active, IsSave
  <2>3. WireOK'
    BY <1>3 DEF ReadTotal, HInv, TypeOK, WireOK, Active, Copy, Local
  <2> QED
    BY <2>1, <2>2, <2>3 DEF HInv
<1>4. ASSUME NEW t \in Tasks, ReadRow(t) PROVE HInv'
  <2>0. [local[t] EXCEPT !.read = local[t].read \cup {"row"}, !.row = data[req[t].key]] \in Local
    BY <1>4, ReadType DEF ReadRow, HInv, TypeOK, HandlersOK
  <2>1. TypeOK'
    BY <1>4, <2>0 DEF ReadRow, HInv, TypeOK
  <2>2. HandlersOK'
    <3>1. \A u \in Tasks : /\ local'[u].attempt = local[u].attempt
                           /\ local'[u].copies = local[u].copies
                           /\ local'[u].reply = local[u].reply
      BY <1>4 DEF ReadRow, HInv, TypeOK, Local
    <3> QED
      BY <1>4, <3>1 DEF ReadRow, HInv, HandlersOK, Active, IsSave
  <2>3. WireOK'
    BY <1>4 DEF ReadRow, HInv, TypeOK, WireOK, Active, Copy, Local
  <2> QED
    BY <2>1, <2>2, <2>3 DEF HInv
<1>5. ASSUME NEW t \in Tasks, RefuseForQuota(t) PROVE HInv'
  <2>1. TypeOK'
    BY <1>5, FinishType DEF RefuseForQuota, HInv, TypeOK
  <2>2. HandlersOK' /\ WireOK'
    BY <1>5
    DEF RefuseForQuota, ReadsDone, Finish, HInv, TypeOK, HandlersOK, WireOK, Active, IsSave,
        Copy, Loop
  <2> QED
    BY <2>1, <2>2 DEF HInv
<1>6. ASSUME NEW t \in Tasks, Send(t) PROVE HInv'
  <2>0. /\ pc[t] = "reading" /\ SendFrom(t, local[t])
        /\ UNCHANGED <<data, req, answer, past, before, from>>
    BY <1>6 DEF Send, ReadsDone
  <2>1. local[t] \in Local /\ local[t].attempt \in 1 .. MaxRetries /\ local[t].copies = 0
    BY <2>0 DEF HInv, TypeOK, HandlersOK, Active
  <2>2. TypeOK'
    BY <2>0, <2>1, SendType DEF HInv, TypeOK
  <2>3. HandlersOK'
    BY <2>0, <2>1 DEF SendFrom, HInv, TypeOK, HandlersOK, Active, IsSave, Local
  <2>4. WireOK'
    BY <2>0, <2>1 DEF SendFrom, CopyOf, HInv, TypeOK, WireOK, Active, Copy, Local
  <2> QED
    BY <2>2, <2>3, <2>4 DEF HInv
<1>7. ASSUME NEW t \in Tasks, Resend(t) PROVE HInv'
  <2>0. /\ pc[t] = "waiting" /\ SendFrom(t, local[t])
        /\ UNCHANGED <<data, req, answer, past, before, from>>
    BY <1>7 DEF Resend
  <2>1. local[t] \in Local /\ local[t].attempt \in 1 .. MaxRetries /\ local[t].copies <= MaxResends
    BY <1>7, <2>0 DEF Resend, HInv, TypeOK, HandlersOK, Active
  <2>2. TypeOK'
    BY <2>0, <2>1, SendType DEF HInv, TypeOK
  <2>3. HandlersOK'
    BY <2>0, <2>1 DEF SendFrom, HInv, TypeOK, HandlersOK, Active, IsSave, Local
  <2>4. WireOK'
    BY <2>0, <2>1 DEF SendFrom, CopyOf, HInv, TypeOK, WireOK, Active, Copy, Local
  <2> QED
    BY <2>2, <2>3, <2>4 DEF HInv
<1>8. ASSUME NEW m \in wire, ExecuteSave(m) PROVE HInv'
  <2>1. /\ m \in Copy
        /\ wire' = wire \ {m}
        /\ UNCHANGED <<pc, req, answer, before, from>>
    BY <1>8 DEF ExecuteSave, HInv, TypeOK
  <2>2. \E rows \in [Keys -> Row] : Store(rows)
    <3> DEFINE stored == [data EXCEPT ![req[m.task].key] =
                              [version |-> m.expect + 1, writer |-> m.task]]
    <3>1. [version |-> m.expect + 1, writer |-> m.task] \in Row
      BY <2>1 DEF Copy, Row
    <3>2. stored \in [Keys -> Row] /\ data \in [Keys -> Row]
      BY <3>1 DEF HInv, TypeOK
    <3>3. Store(stored) \/ Store(data)
      BY <1>8 DEF ExecuteSave
    <3> QED
      BY <3>2, <3>3
  <2>3. \E b \in {"applied", "rejected"} : Reply(m, b)
    BY <1>8 DEF ExecuteSave
  <2>4. TypeOK'
    BY <2>1, <2>2, <2>3, StoreType, ReplyType DEF HInv, TypeOK
  <2>5. \A t \in Tasks : /\ local'[t].attempt = local[t].attempt
                         /\ local'[t].copies = local[t].copies
                         /\ local'[t].row = local[t].row
                         /\ "rejected" \in local'[t].reply =>
                                "rejected" \in local[t].reply \/ IsSave(t)
                         /\ pc[t] = "reading" => local'[t].reply = local[t].reply
    BY <1>8, <2>3, ReplyType DEF ExecuteSave
  <2>6. HandlersOK'
    BY <2>1, <2>5 DEF HInv, HandlersOK, Active, IsSave
  <2>7. WireOK'
    BY <2>1, <2>5 DEF HInv, TypeOK, WireOK, Active, Copy
  <2> QED
    BY <2>4, <2>6, <2>7 DEF HInv
<1>9. ASSUME NEW m \in wire, ExecuteDelete(m) PROVE HInv'
  <2>1. wire' = wire \ {m} /\ UNCHANGED <<pc, req, answer, before, from>>
    BY <1>9 DEF ExecuteDelete
  <2>2. \E rows \in [Keys -> Row] : Store(rows)
    <3> DEFINE rows == [k \in Keys |-> IF k \in Erased(m.task) THEN NoRow ELSE data[k]]
    <3>1. rows \in [Keys -> Row]
      BY DEF HInv, TypeOK
    <3> QED
      BY <1>9, <3>1 DEF ExecuteDelete
  <2>3. Reply(m, "applied")
    BY <1>9 DEF ExecuteDelete
  <2>4. TypeOK'
    BY <2>1, <2>2, <2>3, StoreType, ReplyType DEF HInv, TypeOK
  <2>5. \A t \in Tasks : /\ local'[t].attempt = local[t].attempt
                         /\ local'[t].copies = local[t].copies
                         /\ local'[t].row = local[t].row
                         /\ "rejected" \in local'[t].reply =>
                                "rejected" \in local[t].reply \/ IsSave(t)
                         /\ pc[t] = "reading" => local'[t].reply = local[t].reply
    BY <2>3, ReplyType
  <2>6. HandlersOK'
    BY <2>1, <2>5 DEF HInv, HandlersOK, Active, IsSave
  <2>7. WireOK'
    BY <2>1, <2>5 DEF HInv, TypeOK, WireOK, Active, Copy
  <2> QED
    BY <2>4, <2>6, <2>7 DEF HInv
<1>10. ASSUME NEW t \in Tasks, ReceiveApplied(t) PROVE HInv'
  <2> DEFINE a == IF IsSave(t) THEN [status |-> "saved", version |-> StoredVersion(t)]
                  ELSE Told("deleted")
  <2>1. a \in Answer
    <3>1. local[t].row.version \in Nat
      BY DEF HInv, TypeOK, Local, Row
    <3> QED
      BY <3>1 DEF StoredVersion, Answer
  <2>2. TypeOK'
    BY <1>10, <2>1, FinishType DEF ReceiveApplied, HInv, TypeOK
  <2>3. HandlersOK' /\ WireOK'
    BY <1>10
    DEF ReceiveApplied, Finish, HInv, TypeOK, HandlersOK, WireOK, Active, IsSave, Copy, Loop
  <2> QED
    BY <2>2, <2>3 DEF HInv
<1>11. ASSUME NEW t \in Tasks, RetryAfterConflict(t) PROVE HInv'
  <2>1. local[t].attempt \in 1 .. MaxRetries /\ local[t].attempt + 1 \in 1 .. MaxRetries
    BY <1>11 DEF RetryAfterConflict, CanRetry, HInv, HandlersOK, Active, IsSave
  <2>2. TypeOK'
    <3>1. Loop(local[t].attempt + 1) \in Local
      BY <2>1
    <3> QED
      BY <1>11, <3>1 DEF RetryAfterConflict, HInv, TypeOK
  <2>3. HandlersOK'
    <3>1. /\ req' = req /\ pc' = [pc EXCEPT ![t] = "reading"]
          /\ local' = [local EXCEPT ![t] = Loop(local[t].attempt + 1)]
          /\ pc[t] = "waiting"
      BY <1>11 DEF RetryAfterConflict
    <3>2. /\ Loop(local[t].attempt + 1).attempt = local[t].attempt + 1
          /\ Loop(local[t].attempt + 1).copies = 0
          /\ Loop(local[t].attempt + 1).reply = {}
      BY DEF Loop
    <3>3. IsSave(t)
      BY <1>11 DEF RetryAfterConflict, HInv, HandlersOK
    <3> QED
      BY <2>1, <3>1, <3>2, <3>3 DEF HInv, TypeOK, HandlersOK, Active, IsSave
  <2>4. WireOK'
    <3>1. /\ wire' = wire /\ pc' = [pc EXCEPT ![t] = "reading"]
          /\ local' = [local EXCEPT ![t] = Loop(local[t].attempt + 1)]
          /\ pc[t] = "waiting"
      BY <1>11 DEF RetryAfterConflict
    <3>2. Loop(local[t].attempt + 1).attempt = local[t].attempt + 1
      BY DEF Loop
    <3>3. \A m \in wire : m.task \in Tasks /\ m.attempt \in Nat
      BY DEF HInv, TypeOK, Copy
    <3>4. \A m \in wire : m.task = t => m.attempt <= local[t].attempt
      BY <3>1 DEF HInv, WireOK, Active
    <3> QED
      BY <2>1, <3>1, <3>2, <3>3, <3>4 DEF HInv, TypeOK, WireOK, Active
  <2> QED
    BY <2>2, <2>3, <2>4 DEF HInv
<1>12. ASSUME NEW t \in Tasks, GiveUpAfterRetries(t) \/ Fail(t) PROVE HInv'
  <2>1. TypeOK'
    BY <1>12, FinishType DEF GiveUpAfterRetries, Fail, HInv, TypeOK
  <2>2. pc[t] # "idle" /\ Finish(t, answer'[t]) /\ UNCHANGED <<wire, req>>
    BY <1>12 DEF GiveUpAfterRetries, Fail, MayFail, Finish, HInv, TypeOK
  <2>3. HandlersOK' /\ WireOK'
    BY <2>2 DEF Finish, HInv, TypeOK, HandlersOK, WireOK, Active, IsSave, Copy, Loop
  <2> QED
    BY <2>1, <2>3 DEF HInv
<1>13. CASE UNCHANGED vars
  BY <1>13 DEF vars, HInv, TypeOK, HandlersOK, WireOK, Active, IsSave
<1> QED
  BY <1>1, <1>2, <1>3, <1>4, <1>5, <1>6, <1>7, <1>8, <1>9, <1>10, <1>11, <1>12, <1>13
  DEF Step, Handle, Execute

LEMMA NextHInv == HInv /\ [Next]_vars => HInv'
BY NextIsStep, StepHInv

\* Whatever the keys, requests, sizes and bounds, the variables keep the types
\* of rows, statements, loop counters and answers the code can build: no
\* attempt beyond LWT_MAX_RETRIES and no copy beyond the driver's.
THEOREM TypeCorrect == Spec => []TypeOK
<1>1. HInv => TypeOK
  BY DEF HInv
<1> QED
  BY <1>1, InitHInv, NextHInv, PTL DEF Spec

-----------------------------------------------------------------------------
(* The history of the rows. *)

\* Versions count up by one from any point of a row's history to any later
\* one, as long as the row is not deleted on the way. Stated between any two
\* points, not between neighbours, so that no induction over the history is
\* needed to use it.
CountsUp(h) ==
    \A i, j \in 1 .. Len(h) :
        i < j /\ (\A d \in i + 1 .. j : h[d] # NoRow)
            => h[j].version = h[i].version + (j - i)

PastOK ==
    \A k \in Keys : /\ Len(past[k]) >= 1
                    /\ past[k][Len(past[k])] = data[k]
                    /\ CountsUp(past[k])

\* A save in its n-th attempt has met n - 1 changes of its row since it began,
\* and one more once the row it read is no longer there; an applied statement
\* is in the history.
SeenAt(t) ==
    Active(t) /\ IsSave(t) =>
        LET h == past[req[t].key]
            l == local[t]
        IN  /\ Len(h) - from[t] >= l.attempt - 1
            /\ pc[t] = "waiting" => "row" \in l.read
            /\ "row" \in l.read => data[req[t].key] = l.row \/ Len(h) - from[t] >= l.attempt
            /\ "rejected" \in l.reply => Len(h) - from[t] >= l.attempt
            /\ "applied" \in l.reply =>
                   \E i \in 1 .. Len(h) : h[i] = [version |-> l.row.version + 1, writer |-> t]

AnswerAt(t) ==
    /\ answer[t].status = "saved" => pc[t] = "done" /\ IsSave(t) /\ StoredAt(t) # {}
    /\ answer[t].status = "exhausted" =>
           pc[t] = "done" /\ IsSave(t) /\ Len(past[req[t].key]) - from[t] >= MaxRetries

SInv == /\ HInv
        /\ PastOK
        /\ \A t \in Tasks : SeenAt(t) /\ AnswerAt(t)

\* What every step does to the history: it stays, and a changed row is added.
Grown ==
    \A k \in Keys :
        /\ Len(past[k]) <= Len(past'[k])
        /\ \A i \in 1 .. Len(past[k]) : past'[k][i] = past[k][i]
        /\ data'[k] # data[k] => Len(past'[k]) >= Len(past[k]) + 1

LEMMA CountsUpAppend ==
    ASSUME NEW h \in Seq(Row), Len(h) >= 1, CountsUp(h), NEW r \in Row,
           r = NoRow \/ r.version = h[Len(h)].version + 1
    PROVE  CountsUp(Append(h, r))
<1> DEFINE g == Append(h, r)
<1>1. Len(g) = Len(h) + 1 /\ g[Len(h) + 1] = r /\ Len(h) \in Nat
  OBVIOUS
<1>2. \A i \in 1 .. Len(h) : g[i] = h[i]
  OBVIOUS
<1>3. \A i \in 1 .. Len(h) : h[i].version \in Nat
  <2>1. \A i \in 1 .. Len(h) : h[i] \in Row
    OBVIOUS
  <2> QED
    BY <2>1 DEF Row
<1> HIDE DEF g
<1>4. ASSUME NEW i \in 1 .. Len(g), NEW j \in 1 .. Len(g), i < j,
             \A d \in i + 1 .. j : g[d] # NoRow
      PROVE  g[j].version = g[i].version + (j - i)
  <2>1. CASE j <= Len(h)
    <3>1. \A d \in i + 1 .. j : h[d] # NoRow
      BY <1>1, <1>2, <1>4, <2>1
    <3>2. h[j].version = h[i].version + (j - i)
      BY <1>1, <1>4, <2>1, <3>1 DEF CountsUp
    <3> QED
      BY <1>1, <1>2, <1>4, <2>1, <3>2
  <2>2. CASE j = Len(h) + 1
    <3>1. r.version = h[Len(h)].version + 1
      BY <1>1, <1>4, <2>2
    <3>2. CASE i = Len(h)
      BY <1>1, <1>2, <1>3, <2>2, <3>1, <3>2
    <3>3. CASE i < Len(h)
      <4>1. \A d \in i + 1 .. Len(h) : h[d] # NoRow
        BY <1>1, <1>2, <1>4, <2>2
      <4>2. h[Len(h)].version = h[i].version + (Len(h) - i)
        BY <1>1, <1>4, <3>3, <4>1 DEF CountsUp
      <4>3. i \in 1 .. Len(h) /\ g[i] = h[i] /\ h[i].version \in Nat
        BY <1>1, <1>2, <1>3, <1>4, <3>3
      <4> QED
        BY <1>1, <2>2, <3>1, <4>2, <4>3
    <3> QED
      BY <1>1, <1>4, <2>2, <3>2, <3>3
  <2> QED
    BY <1>1, <1>4, <2>1, <2>2
<1> QED
  BY <1>4 DEF CountsUp, g

LEMMA StoreHistory ==
    ASSUME HInv, PastOK, NEW rows \in [Keys -> Row], Store(rows),
           \A k \in Keys : \/ rows[k] = data[k]
                           \/ rows[k] = NoRow
                           \/ rows[k].version = data[k].version + 1
    PROVE  PastOK' /\ Grown
<1>1. /\ data' = rows
      /\ \A k \in Keys : past'[k] = IF rows[k] = data[k] THEN past[k]
                                    ELSE Append(past[k], rows[k])
  BY DEF Store
<1>2. \A k \in Keys : past[k] \in Seq(Row) /\ rows[k] \in Row
  BY DEF HInv, TypeOK
<1>3. ASSUME NEW k \in Keys
      PROVE  /\ Len(past'[k]) >= 1
             /\ past'[k][Len(past'[k])] = data'[k]
             /\ CountsUp(past'[k])
             /\ Len(past[k]) <= Len(past'[k])
             /\ \A i \in 1 .. Len(past[k]) : past'[k][i] = past[k][i]
             /\ data'[k] # data[k] => Len(past'[k]) >= Len(past[k]) + 1
  <2>1. CASE rows[k] = data[k]
    BY <1>1, <1>2, <2>1 DEF PastOK
  <2>2. CASE rows[k] # data[k]
    <3>1. past'[k] = Append(past[k], rows[k])
      BY <1>1, <2>2
    <3>2. CountsUp(Append(past[k], rows[k]))
      BY <1>2, <2>2, CountsUpAppend DEF PastOK
    <3> QED
      BY <1>1, <1>2, <3>1, <3>2
  <2> QED
    BY <2>1, <2>2
<1>4. PastOK'
  BY <1>3 DEF PastOK, CountsUp
<1> QED
  BY <1>3, <1>4 DEF Grown

LEMMA HistoryStays ==
    ASSUME HInv, PastOK, UNCHANGED <<data, past>>
    PROVE  PastOK' /\ Grown
<1>1. \A k \in Keys : past[k] \in Seq(Row)
  BY DEF HInv, TypeOK
<1> QED
  BY <1>1 DEF PastOK, CountsUp, Grown

\* A handler that does not move keeps what it has seen and what it answered.
LEMMA OthersKept ==
    ASSUME SInv, HInv', Grown, NEW t \in Tasks,
           pc'[t] = pc[t], req'[t] = req[t], local'[t] = local[t], from'[t] = from[t]
    PROVE  SeenAt(t)'
<1> SUFFICES ASSUME Active(t), IsSave(t)
             PROVE  SeenAt(t)'
  BY DEF SeenAt, Active, IsSave
<1> DEFINE k == req[t].key
<1>1. /\ k \in Keys /\ past[k] \in Seq(Row)
      /\ local[t].attempt \in Nat /\ from[t] \in Nat
  BY DEF SInv, HInv, HandlersOK, TypeOK, Local
<1>2. /\ Len(past[k]) \in Nat /\ Len(past'[k]) \in Nat
      /\ Len(past[k]) <= Len(past'[k])
      /\ \A i \in 1 .. Len(past[k]) : past'[k][i] = past[k][i]
      /\ data'[k] # data[k] => Len(past'[k]) >= Len(past[k]) + 1
  BY <1>1 DEF Grown, HInv, TypeOK
<1>3. SeenAt(t)
  BY DEF SInv
<1>4. /\ Len(past[k]) - from[t] >= local[t].attempt - 1
      /\ pc[t] = "waiting" => "row" \in local[t].read
      /\ "row" \in local[t].read => \/ data[k] = local[t].row
                                     \/ Len(past[k]) - from[t] >= local[t].attempt
      /\ "rejected" \in local[t].reply => Len(past[k]) - from[t] >= local[t].attempt
  BY <1>3 DEF SeenAt
<1>5. "applied" \in local[t].reply =>
          \E i \in 1 .. Len(past'[k]) :
              past'[k][i] = [version |-> local[t].row.version + 1, writer |-> t]
  BY <1>2, <1>3 DEF SeenAt
<1>6. /\ Len(past'[k]) - from[t] >= local[t].attempt - 1
      /\ "row" \in local[t].read => \/ data'[k] = local[t].row
                                     \/ Len(past'[k]) - from[t] >= local[t].attempt
      /\ "rejected" \in local[t].reply => Len(past'[k]) - from[t] >= local[t].attempt
  <2> DEFINE n == Len(past[k])
             p == Len(past'[k])
             a == local[t].attempt
             f == from[t]
  <2>1. n \in Nat /\ p \in Nat /\ a \in Nat /\ f \in Nat /\ n <= p /\ n - f >= a - 1
    BY <1>1, <1>2, <1>4
  <2>2. data'[k] # data[k] => p >= n + 1
    BY <1>2
  <2>3. "row" \in local[t].read => data[k] = local[t].row \/ n - f >= a
    BY <1>4
  <2>4. "rejected" \in local[t].reply => n - f >= a
    BY <1>4
  <2> HIDE DEF n, p, a, f
  <2>5. /\ p - f >= a - 1
        /\ n - f >= a => p - f >= a
        /\ p >= n + 1 => p - f >= a
    BY <2>1
  <2>6. /\ p - f >= a - 1
        /\ "row" \in local[t].read => data'[k] = local[t].row \/ p - f >= a
        /\ "rejected" \in local[t].reply => p - f >= a
    BY <2>2, <2>3, <2>4, <2>5, Zenon
  <2> QED
    BY <2>6 DEF n, p, a, f
<1> QED
  BY <1>4, <1>5, <1>6 DEF SeenAt

LEMMA AnswersKept ==
    ASSUME SInv, HInv', Grown, NEW t \in Tasks,
           pc[t] = "done" => pc'[t] = pc[t] /\ req'[t] = req[t] /\ from'[t] = from[t],
           answer'[t] = answer[t]
    PROVE  AnswerAt(t)'
<1> DEFINE k == req[t].key
<1>1. CASE answer[t].status \in {"saved", "exhausted"}
  <2>1. pc[t] = "done" /\ IsSave(t) /\ k \in Keys
    BY <1>1 DEF SInv, AnswerAt, HInv, HandlersOK
  <2>2. /\ past[k] \in Seq(Row) /\ past'[k] \in Seq(Row) /\ from[t] \in Nat
        /\ Len(past[k]) \in Nat /\ Len(past'[k]) \in Nat
    BY <2>1 DEF SInv, HInv, TypeOK
  <2>3. /\ Len(past[k]) <= Len(past'[k])
        /\ \A i \in 1 .. Len(past[k]) : past'[k][i] = past[k][i]
    BY <2>1 DEF Grown
  <2>5. answer[t].status = "exhausted" => Len(past'[k]) - from[t] >= MaxRetries
    BY <2>2, <2>3, ConstantFacts DEF SInv, AnswerAt
  <2>4. answer[t].status = "saved" => StoredAt(t)' # {}
    <3> SUFFICES ASSUME answer[t].status = "saved" PROVE StoredAt(t)' # {}
      OBVIOUS
    <3>1. PICK i \in 1 .. Len(past[k]) :
                   past[k][i] = [version |-> answer[t].version, writer |-> t]
      BY <2>2 DEF SInv, AnswerAt, StoredAt
    <3>2. i \in DOMAIN past'[k]
      BY <2>2, <2>3
    <3> QED
      BY <2>1, <2>3, <3>1, <3>2 DEF StoredAt
  <2> QED
    BY <2>1, <2>4, <2>5 DEF SInv, AnswerAt, IsSave
<1>2. CASE answer[t].status \notin {"saved", "exhausted"}
  BY <1>2 DEF AnswerAt
<1> QED
  BY <1>1, <1>2

-----------------------------------------------------------------------------
LEMMA InitSInv == Init => SInv
<1> SUFFICES ASSUME Init PROVE SInv
  OBVIOUS
<1>1. HInv
  BY InitHInv
<1>2. PastOK
  <2>1. \A k \in Keys : past[k] = <<NoRow>> /\ data[k] = NoRow
    BY DEF Init, NoRows
  <2> QED
    BY <2>1 DEF PastOK, CountsUp
<1>3. \A t \in Tasks : SeenAt(t) /\ AnswerAt(t)
  BY DEF Init, SeenAt, AnswerAt, Active, Told
<1> QED
  BY <1>1, <1>2, <1>3 DEF SInv

\* A step of one handler, or of a client on its behalf, leaves the rows and
\* the other handlers alone.
LEMMA HandlerStep ==
    ASSUME SInv, HInv', NEW t \in Tasks, UNCHANGED <<data, past>>,
           \A u \in Tasks \ {t} : /\ pc'[u] = pc[u] /\ req'[u] = req[u]
                                  /\ local'[u] = local[u] /\ answer'[u] = answer[u]
                                  /\ from'[u] = from[u],
           SeenAt(t)', AnswerAt(t)'
    PROVE  SInv'
<1>1. PastOK' /\ Grown
  BY HistoryStays DEF SInv
<1>2. ASSUME NEW u \in Tasks PROVE SeenAt(u)' /\ AnswerAt(u)'
  <2>1. CASE u = t
    BY <2>1
  <2>2. CASE u # t
    BY <1>1, <2>2, OthersKept, AnswersKept
  <2> QED
    BY <2>1, <2>2
<1> QED
  BY <1>1, <1>2 DEF SInv

\* The end of a handler that is neither a success nor an exhausted loop.
LEMMA OtherAnswer ==
    ASSUME SInv, HInv', NEW t \in Tasks, UNCHANGED <<data, past, from>>,
           NEW a \in Answer, a.status \notin {"saved", "exhausted"}, Finish(t, a),
           \A u \in Tasks \ {t} : req'[u] = req[u]
    PROVE  SInv'
<1>1. pc'[t] = "done" /\ answer'[t] = a
  BY DEF Finish, SInv, HInv, TypeOK
<1>2. SeenAt(t)' /\ AnswerAt(t)'
  BY <1>1 DEF SeenAt, AnswerAt, Active
<1>3. \A u \in Tasks \ {t} : /\ pc'[u] = pc[u] /\ local'[u] = local[u]
                            /\ answer'[u] = answer[u]
  BY DEF Finish, SInv, HInv, TypeOK
<1> QED
  BY <1>2, <1>3, HandlerStep

LEMMA BeginStep ==
    ASSUME SInv, HInv', NEW t \in Tasks, NEW op \in Calls, NEW k \in Keys \cup {None},
           Begin(t, op, k)
    PROVE  SInv'
<1>1. /\ pc[t] = "idle" /\ UNCHANGED <<data, past, answer>>
      /\ req' = [req EXCEPT ![t] = [op |-> op, key |-> k]]
  BY DEF Begin
<1>2. /\ op \in {"put", "save"} => /\ pc' = [pc EXCEPT ![t] = "reading"]
                                   /\ local' = [local EXCEPT ![t] = Loop(1)]
                                   /\ from' = [from EXCEPT ![t] = Len(past[k])]
      /\ op \notin {"put", "save"} => SendFrom(t, Loop(1)) /\ from' = from
  BY DEF Begin
<1>3. \A u \in Tasks \ {t} : /\ pc'[u] = pc[u] /\ req'[u] = req[u]
                            /\ local'[u] = local[u] /\ answer'[u] = answer[u]
                            /\ from'[u] = from[u]
  BY <1>1, <1>2 DEF SendFrom, SInv, HInv, TypeOK
<1>4. SeenAt(t)'
  <2>1. CASE op \in {"put", "save"}
    <3>1. /\ k \in Keys /\ past[k] \in Seq(Row) /\ Len(past[k]) >= 1
      BY <2>1 DEF Begin, Acceptable, SInv, HInv, TypeOK, PastOK
    <3>2. /\ pc'[t] = "reading" /\ local'[t] = Loop(1) /\ req'[t].key = k /\ past' = past
          /\ from'[t] = Len(past[k])
      BY <1>1, <1>2, <2>1 DEF SInv, HInv, TypeOK
    <3> QED
      BY <3>1, <3>2, LoopFields DEF SeenAt
  <2>2. CASE op \notin {"put", "save"}
    <3>1. req'[t].op = op
      BY <1>1 DEF SInv, HInv, TypeOK
    <3> QED
      BY <2>2, <3>1 DEF SeenAt, IsSave
  <2> QED
    BY <2>1, <2>2
<1>5. AnswerAt(t)'
  BY <1>1 DEF SInv, AnswerAt
<1> QED
  BY <1>1, <1>3, <1>4, <1>5, HandlerStep

\* A read adds to what the handler has seen the rows as they are.
LEMMA ReadStep ==
    ASSUME SInv, HInv', NEW t \in Tasks, ReadTotal(t) \/ ReadRow(t)
    PROVE  SInv'
<1>1. /\ pc[t] = "reading" /\ UNCHANGED <<data, past, pc, req, answer, from>>
      /\ IsSave(t) /\ req[t].key \in Keys
  BY DEF ReadTotal, ReadRow, SInv, HInv, HandlersOK
<1>2. local[t] \in Local /\ local \in [Tasks -> Local]
  BY DEF SInv, HInv, TypeOK
<1>3. /\ \A u \in Tasks \ {t} : local'[u] = local[u]
      /\ local'[t].attempt = local[t].attempt
      /\ local'[t].reply = local[t].reply
      /\ \/ local'[t].row = local[t].row /\ local'[t].read = local[t].read \cup {"total"}
         \/ local'[t].row = data[req[t].key]
  <2>1. CASE ReadTotal(t)
    BY <1>2, <2>1 DEF ReadTotal, Local
  <2>2. CASE ReadRow(t)
    BY <1>2, <2>2 DEF ReadRow, Local
  <2> QED
    BY <2>1, <2>2
<1>4. SeenAt(t)'
  <2>1. SeenAt(t)
    BY DEF SInv
  <2>2. /\ Len(past'[req'[t].key]) - from'[t] >= local'[t].attempt - 1
        /\ "row" \in local'[t].read => \/ data'[req'[t].key] = local'[t].row
                                       \/ Len(past'[req'[t].key]) - from'[t] >= local'[t].attempt
        /\ "rejected" \in local'[t].reply => Len(past'[req'[t].key]) - from'[t] >= local'[t].attempt
    BY <1>1, <1>3, <2>1 DEF SeenAt, Active
  <2>3. local'[t].reply = {} /\ pc'[t] = "reading"
    BY <1>1, <1>3 DEF SInv, HInv, HandlersOK
  <2> QED
    BY <2>2, <2>3 DEF SeenAt
<1>5. AnswerAt(t)'
  BY <1>1 DEF SInv, AnswerAt
<1> QED
  BY <1>1, <1>3, <1>4, <1>5, HandlerStep

LEMMA SendStep ==
    ASSUME SInv, HInv', NEW t \in Tasks, Send(t) \/ Resend(t)
    PROVE  SInv'
<1>1. /\ SendFrom(t, local[t]) /\ UNCHANGED <<data, past, req, answer, from>> /\ Active(t)
      /\ pc[t] = "waiting" \/ "row" \in local[t].read
      /\ pc[t] # "done"
  BY DEF Send, Resend, ReadsDone, Active
<1>2. /\ \A u \in Tasks \ {t} : local'[u] = local[u] /\ pc'[u] = pc[u]
      /\ pc'[t] = "waiting"
      /\ local'[t].attempt = local[t].attempt
      /\ local'[t].reply = local[t].reply
      /\ local'[t].row = local[t].row
      /\ local'[t].read = local[t].read
  BY <1>1 DEF SendFrom, SInv, HInv, TypeOK, Local
<1>3. SeenAt(t)
  BY DEF SInv
<1>4. SeenAt(t)'
  BY <1>1, <1>2, <1>3 DEF SeenAt, Active, IsSave
<1>5. AnswerAt(t)'
  BY <1>1 DEF SInv, AnswerAt
<1> QED
  BY <1>1, <1>2, <1>4, <1>5, HandlerStep

LEMMA RetryStep ==
    ASSUME SInv, HInv', NEW t \in Tasks, RetryAfterConflict(t)
    PROVE  SInv'
<1>1. /\ pc[t] = "waiting" /\ UNCHANGED <<data, past, req, answer, from>>
      /\ pc' = [pc EXCEPT ![t] = "reading"]
      /\ local' = [local EXCEPT ![t] = Loop(local[t].attempt + 1)]
      /\ "rejected" \in local[t].reply
  BY DEF RetryAfterConflict
<1>2. IsSave(t) /\ Len(past[req[t].key]) - from[t] >= local[t].attempt
  BY <1>1 DEF SInv, HInv, HandlersOK, SeenAt, Active
<1>3. /\ \A u \in Tasks \ {t} : local'[u] = local[u] /\ pc'[u] = pc[u]
      /\ pc'[t] = "reading" /\ local'[t] = Loop(local[t].attempt + 1)
  BY <1>1 DEF SInv, HInv, TypeOK
<1>4. SeenAt(t)'
  <2>1. local[t].attempt \in Nat
    BY DEF SInv, HInv, TypeOK, Local
  <2>2. /\ Len(past'[req'[t].key]) - from'[t] >= local'[t].attempt - 1
        /\ local'[t].read = {} /\ local'[t].reply = {} /\ pc'[t] = "reading"
    BY <1>1, <1>2, <1>3, <2>1, LoopFields
  <2> QED
    BY <2>2 DEF SeenAt
<1>5. AnswerAt(t)'
  BY <1>1 DEF SInv, AnswerAt
<1> QED
  BY <1>1, <1>3, <1>4, <1>5, HandlerStep

LEMMA AppliedStep ==
    ASSUME SInv, HInv', NEW t \in Tasks, ReceiveApplied(t)
    PROVE  SInv'
<1>1. /\ pc[t] = "waiting" /\ "applied" \in local[t].reply
      /\ UNCHANGED <<data, past, req, from>>
  BY DEF ReceiveApplied
<1>2. CASE IsSave(t)
  <2> DEFINE a == [status |-> "saved", version |-> StoredVersion(t)]
             k == req[t].key
  <2>1. Finish(t, a)
    BY <1>2 DEF ReceiveApplied
  <2>2. /\ \A u \in Tasks \ {t} : local'[u] = local[u] /\ pc'[u] = pc[u] /\ answer'[u] = answer[u]
        /\ pc'[t] = "done" /\ answer'[t] = a
    BY <2>1 DEF Finish, SInv, HInv, TypeOK
  <2>3. past[k] \in Seq(Row)
    BY <1>2 DEF SInv, HInv, HandlersOK, TypeOK
  <2>4. PICK i \in 1 .. Len(past[k]) :
                 past[k][i] = [version |-> local[t].row.version + 1, writer |-> t]
    BY <1>1, <1>2 DEF SInv, SeenAt, Active
  <2>5. StoredAt(t)' # {}
    BY <1>1, <2>2, <2>3, <2>4 DEF StoredAt, StoredVersion
  <2>6. AnswerAt(t)'
    BY <1>1, <1>2, <2>2, <2>5 DEF AnswerAt, IsSave
  <2>7. SeenAt(t)'
    BY <2>2 DEF SeenAt, Active
  <2> QED
    BY <1>1, <2>2, <2>6, <2>7, HandlerStep
<1>3. CASE ~ IsSave(t)
  <2>1. Finish(t, Told("deleted")) /\ Told("deleted").status = "deleted"
    BY <1>3 DEF ReceiveApplied, Told
  <2> QED
    BY <1>1, <2>1, LoopType, OtherAnswer
<1> QED
  BY <1>2, <1>3

LEMMA GiveUpStep ==
    ASSUME SInv, HInv', NEW t \in Tasks, GiveUpAfterRetries(t)
    PROVE  SInv'
<1>1. /\ pc[t] = "waiting" /\ "rejected" \in local[t].reply /\ ~ CanRetry(t)
      /\ UNCHANGED <<data, past, req, from>> /\ Finish(t, Told("exhausted"))
  BY DEF GiveUpAfterRetries
<1>2. IsSave(t) /\ Len(past[req[t].key]) - from[t] >= local[t].attempt
  BY <1>1 DEF SInv, HInv, HandlersOK, SeenAt, Active
<1>3. local[t].attempt = MaxRetries
  <2>1. local[t].attempt \in 1 .. MaxRetries
    BY <1>1 DEF SInv, HInv, HandlersOK, Active
  <2> QED
    BY <1>1, <2>1, ConstantFacts DEF CanRetry
<1>4. /\ \A u \in Tasks \ {t} : local'[u] = local[u] /\ pc'[u] = pc[u] /\ answer'[u] = answer[u]
      /\ pc'[t] = "done" /\ answer'[t] = Told("exhausted")
  BY <1>1 DEF Finish, SInv, HInv, TypeOK
<1>5. SeenAt(t)'
  BY <1>4 DEF SeenAt, Active
<1>6. AnswerAt(t)'
  <2>1. answer'[t].status = "exhausted"
    BY <1>4 DEF Told
  <2>2. IsSave(t)' /\ Len(past'[req'[t].key]) - from'[t] >= MaxRetries
    BY <1>1, <1>2, <1>3 DEF IsSave
  <2> QED
    BY <1>4, <2>1, <2>2 DEF AnswerAt
<1> QED
  BY <1>1, <1>4, <1>5, <1>6, HandlerStep

\* The database executes a copy: the rows of the history grow, the handlers
\* keep their place, and at most one handler learns the outcome.
LEMMA ReplyStep ==
    ASSUME SInv, HInv', PastOK', Grown, NEW m \in wire,
           NEW b \in {"applied", "rejected"}, Reply(m, b),
           UNCHANGED <<pc, req, answer, from>>,
           \A t \in Tasks :
               /\ t = m.task /\ IsSave(t) /\ pc[t] = "waiting"
               /\ local[t].attempt = m.attempt
               => LET h == past'[req[t].key]
                  IN  /\ b = "rejected" => Len(h) - from[t] >= local[t].attempt
                      /\ b = "applied" =>
                             \E i \in 1 .. Len(h) :
                                 h[i] = [version |-> local[t].row.version + 1, writer |-> t]
    PROVE  SInv'
<1>1. ASSUME NEW t \in Tasks PROVE SeenAt(t)'
  <2> SUFFICES ASSUME Active(t), IsSave(t) PROVE SeenAt(t)'
    BY DEF SeenAt, Active, IsSave
  <2> DEFINE k == req[t].key
  <2>1. /\ k \in Keys /\ past[k] \in Seq(Row) /\ past'[k] \in Seq(Row)
        /\ local[t].attempt \in Nat /\ from[t] \in Nat /\ from'[t] = from[t]
        /\ Len(past[k]) \in Nat /\ Len(past'[k]) \in Nat
    BY DEF SInv, HInv, HandlersOK, TypeOK, Local
  <2>2. /\ Len(past[k]) <= Len(past'[k])
        /\ \A i \in 1 .. Len(past[k]) : past'[k][i] = past[k][i]
        /\ data'[k] # data[k] => Len(past'[k]) >= Len(past[k]) + 1
    BY <2>1 DEF Grown
  <2>3. /\ local'[t].attempt = local[t].attempt
        /\ local'[t].row = local[t].row
        /\ local'[t].read = local[t].read
        /\ \/ local'[t].reply = local[t].reply
           \/ /\ t = m.task
              /\ local'[t].reply = local[t].reply \cup {b}
              /\ pc[t] = "waiting" /\ local[t].attempt = m.attempt
    BY ReplyType DEF SInv
  <2>4. SeenAt(t)
    BY DEF SInv
  <2>8. /\ Len(past[k]) - from[t] >= local[t].attempt - 1
        /\ pc[t] = "waiting" => "row" \in local[t].read
        /\ "row" \in local[t].read => \/ data[k] = local[t].row
                                       \/ Len(past[k]) - from[t] >= local[t].attempt
        /\ "rejected" \in local[t].reply => Len(past[k]) - from[t] >= local[t].attempt
    BY <2>4 DEF SeenAt
  <2>5. /\ Len(past'[k]) - from'[t] >= local'[t].attempt - 1
        /\ pc'[t] = "waiting" => "row" \in local'[t].read
        /\ "row" \in local'[t].read =>
               data'[k] = local'[t].row \/ Len(past'[k]) - from'[t] >= local'[t].attempt
    <3> DEFINE n == Len(past[k])
               p == Len(past'[k])
               a == local[t].attempt
               f == from[t]
    <3>1. n \in Nat /\ p \in Nat /\ a \in Nat /\ f \in Nat /\ n <= p /\ n - f >= a - 1
      BY <2>1, <2>2, <2>8
    <3>2. data'[k] # data[k] => p >= n + 1
      BY <2>2
    <3>3. "row" \in local[t].read => data[k] = local[t].row \/ n - f >= a
      BY <2>8
    <3> HIDE DEF n, p, a, f
    <3>4. /\ p - f >= a - 1
          /\ n - f >= a => p - f >= a
          /\ p >= n + 1 => p - f >= a
      BY <3>1
    <3>5. /\ p - f >= a - 1
          /\ "row" \in local[t].read => data'[k] = local[t].row \/ p - f >= a
      BY <3>2, <3>3, <3>4, Zenon
    <3>6. /\ local'[t].attempt = a /\ from'[t] = f /\ Len(past'[k]) = p
          /\ local'[t].row = local[t].row /\ local'[t].read = local[t].read
      BY <2>1, <2>3 DEF n, p, a, f
    <3>7. pc'[t] = "waiting" => "row" \in local[t].read
      BY <2>8
    <3> QED
      BY <3>5, <3>6, <3>7, Zenon
  <2>6. "rejected" \in local'[t].reply => Len(past'[k]) - from'[t] >= local'[t].attempt
    <3>1. CASE "rejected" \in local[t].reply
      BY <2>1, <2>2, <2>3, <2>8, <3>1
    <3>2. CASE "rejected" \notin local[t].reply
      BY <2>1, <2>3, <3>2
    <3> QED
      BY <3>1, <3>2
  <2>7. "applied" \in local'[t].reply =>
            \E i \in 1 .. Len(past'[k]) :
                past'[k][i] = [version |-> local'[t].row.version + 1, writer |-> t]
    <3>1. CASE "applied" \in local[t].reply
      BY <2>1, <2>2, <2>3, <2>4, <3>1 DEF SeenAt
    <3>2. CASE "applied" \notin local[t].reply
      BY <2>3, <3>2
    <3> QED
      BY <3>1, <3>2
  <2> QED
    BY <2>5, <2>6, <2>7 DEF SeenAt
<1>2. ASSUME NEW t \in Tasks PROVE AnswerAt(t)'
  BY AnswersKept
<1> QED
  BY <1>1, <1>2 DEF SInv

LEMMA ExecuteSaveStep ==
    ASSUME SInv, HInv', NEW m \in wire, ExecuteSave(m)
    PROVE  SInv'
<1> DEFINE k == req[m.task].key
           new == [version |-> m.expect + 1, writer |-> m.task]
           rows == IF Applies(m) THEN [data EXCEPT ![k] = new] ELSE data
           b == IF Applies(m) THEN "applied" ELSE "rejected"
<1>1. /\ m \in Copy /\ IsSave(m.task) /\ k \in Keys
      /\ Store(rows) /\ Reply(m, b) /\ UNCHANGED <<pc, req, answer, from>>
  BY DEF ExecuteSave, SInv, HInv, TypeOK, HandlersOK, Copy
<1>2. /\ new \in Row /\ new.version = m.expect + 1 /\ m.expect \in Nat
      /\ data \in [Keys -> Row] /\ data[k].version \in Nat
      /\ past[k] \in Seq(Row) /\ past'[k] \in Seq(Row)
  <2>1. m.expect \in Nat /\ m.task \in Tasks
    BY <1>1 DEF Copy
  <2>2. data \in [Keys -> Row] /\ past \in [Keys -> Seq(Row)] /\ past' \in [Keys -> Seq(Row)]
    BY DEF SInv, HInv, TypeOK
  <2>3. data[k].version \in Nat
    <3>1. k \in Keys
      BY <1>1
    <3>2. data[k] \in Row
      BY <2>2, <3>1
    <3> QED
      BY <3>2 DEF Row
  <2>4. new \in Row /\ new.version = m.expect + 1
    BY <2>1 DEF Row
  <2>5. past[k] \in Seq(Row) /\ past'[k] \in Seq(Row)
    <3>1. k \in Keys
      BY <1>1
    <3> HIDE DEF k
    <3> QED
      BY <3>1, <2>2
  <2> HIDE DEF k, new
  <2> QED
    BY <2>1, <2>2, <2>3, <2>4, <2>5
<1>3. /\ rows \in [Keys -> Row]
      /\ \A j \in Keys : \/ rows[j] = data[j]
                         \/ rows[j].version = data[j].version + 1
  BY <1>1, <1>2 DEF Applies
<1>4. PastOK' /\ Grown
  BY <1>1, <1>3, StoreHistory DEF SInv
<1>5. data' = rows /\ past'[k] = IF rows[k] = data[k] THEN past[k]
                                 ELSE Append(past[k], rows[k])
  BY <1>1 DEF Store
<1>6. ASSUME NEW t \in Tasks, t = m.task, pc[t] = "waiting", local[t].attempt = m.attempt
      PROVE  /\ b = "rejected" => Len(past'[k]) - from[t] >= local[t].attempt
             /\ b = "applied" =>
                    \E i \in 1 .. Len(past'[k]) :
                        past'[k][i] = [version |-> local[t].row.version + 1, writer |-> t]
  <2>1. m.expect = local[t].row.version
    BY <1>6 DEF SInv, HInv, WireOK
  <2>2. data[k] = local[t].row \/ Len(past[k]) - from[t] >= local[t].attempt
    BY <1>1, <1>6 DEF SInv, SeenAt, Active
  <2>3. CASE Applies(m)
    <3>1. rows[k] = new /\ rows[k] # data[k]
      BY <1>1, <1>2, <2>3 DEF Applies
    <3>2. past'[k] = Append(past[k], new)
      BY <1>5, <3>1
    <3>3. past'[k][Len(past[k]) + 1] = new /\ Len(past[k]) + 1 \in 1 .. Len(past'[k])
      BY <1>2, <3>2
    <3> QED
      BY <1>6, <2>1, <2>3, <3>3
  <2>4. CASE ~ Applies(m)
    <3>1. past'[k] = past[k] /\ data[k] # local[t].row
      BY <1>5, <2>1, <2>4 DEF Applies
    <3> QED
      BY <2>2, <2>4, <3>1
  <2> QED
    BY <2>3, <2>4
<1>7. b \in {"applied", "rejected"}
  OBVIOUS
<1> HIDE DEF b, k
<1>8. \A t \in Tasks :
          /\ t = m.task /\ IsSave(t) /\ pc[t] = "waiting" /\ local[t].attempt = m.attempt
          => LET h == past'[req[t].key]
             IN  /\ b = "rejected" => Len(h) - from[t] >= local[t].attempt
                 /\ b = "applied" =>
                        \E i \in 1 .. Len(h) :
                            h[i] = [version |-> local[t].row.version + 1, writer |-> t]
  BY <1>6 DEF k
<1> QED
  BY <1>1, <1>4, <1>7, <1>8, ReplyStep

LEMMA ExecuteDeleteStep ==
    ASSUME SInv, HInv', NEW m \in wire, ExecuteDelete(m)
    PROVE  SInv'
<1> DEFINE rows == [k \in Keys |-> IF k \in Erased(m.task) THEN NoRow ELSE data[k]]
<1>1. /\ ~ IsSave(m.task) /\ Store(rows) /\ Reply(m, "applied")
      /\ UNCHANGED <<pc, req, answer, from>>
  BY DEF ExecuteDelete
<1>2. /\ rows \in [Keys -> Row]
      /\ \A k \in Keys : rows[k] = data[k] \/ rows[k] = NoRow
  BY LoopType DEF SInv, HInv, TypeOK
<1>3. PastOK' /\ Grown
  BY <1>1, <1>2, StoreHistory DEF SInv
<1> QED
  BY <1>1, <1>3, ReplyStep

LEMMA StepSInv == SInv /\ [Step]_vars => SInv'
<1> SUFFICES ASSUME SInv, [Step]_vars PROVE SInv'
  OBVIOUS
<1>0. HInv'
  BY StepHInv DEF SInv
<1>1. ASSUME NEW t \in Tasks, NEW op \in Calls, NEW k \in Keys \cup {None},
             Begin(t, op, k) \/ Refuse(t, op, k)
      PROVE  SInv'
  <2>1. CASE Begin(t, op, k)
    BY <1>0, <2>1, BeginStep
  <2>2. CASE Refuse(t, op, k)
    <3>1. /\ Finish(t, Told("refused")) /\ UNCHANGED <<data, past, from>>
          /\ \A u \in Tasks \ {t} : req'[u] = req[u]
      BY <2>2 DEF Refuse, SInv, HInv, TypeOK
    <3>2. Told("refused") \in Answer /\ Told("refused").status = "refused"
      BY LoopType DEF Told
    <3> QED
      BY <1>0, <3>1, <3>2, OtherAnswer
  <2> QED
    BY <1>1, <2>1, <2>2
<1>2. ASSUME NEW t \in Tasks, Handle(t) \/ Resend(t) PROVE SInv'
  <2>1. CASE RefuseForQuota(t) \/ Fail(t)
    <3>1. PICK s \in {"quota", "error"} : /\ Finish(t, Told(s))
                                          /\ UNCHANGED <<data, past, req, from>>
      BY <2>1 DEF RefuseForQuota, Fail
    <3>2. Told(s) \in Answer /\ Told(s).status = s
      BY LoopType DEF Told
    <3> QED
      BY <1>0, <3>1, <3>2, OtherAnswer
  <2> QED
    BY <1>0, <1>2, <2>1, ReadStep, SendStep, AppliedStep, RetryStep, GiveUpStep DEF Handle
<1>3. ASSUME NEW m \in wire, Execute(m) PROVE SInv'
  BY <1>0, <1>3, ExecuteSaveStep, ExecuteDeleteStep DEF Execute
<1>4. CASE UNCHANGED vars
  <2>1. /\ UNCHANGED <<data, past>>
        /\ \A t \in Tasks : /\ pc'[t] = pc[t] /\ req'[t] = req[t]
                            /\ local'[t] = local[t] /\ answer'[t] = answer[t]
                            /\ from'[t] = from[t]
    BY <1>4 DEF vars
  <2>2. PastOK' /\ Grown
    BY <2>1, HistoryStays DEF SInv
  <2>3. \A t \in Tasks : SeenAt(t)' /\ AnswerAt(t)'
    BY <1>0, <2>1, <2>2, OthersKept, AnswersKept
  <2> QED
    BY <1>0, <2>2, <2>3 DEF SInv
<1> QED
  BY <1>1, <1>2, <1>3, <1>4 DEF Step

LEMMA NextSInv == SInv /\ [Next]_vars => SInv'
BY NextIsStep, StepSInv

LEMMA SInvAlways == Spec => []SInv
BY InitSInv, NextSInv, PTL DEF Spec

-----------------------------------------------------------------------------
\* A save whose client was told "saved, version v" stored its content under
\* version v, however many copies of its statements the driver sent.
THEOREM AckedSavesAreStored == Spec => []AckedWasStored
<1>1. SInv => AckedWasStored
  BY DEF SInv, AnswerAt, AckedWasStored
<1> QED
  BY <1>1, SInvAlways, PTL

\* Two saves of one key get different versions unless the row was deleted in
\* between, for any number of clients, retries, resent and late statements.
THEOREM AckedSavesAreOrdered == Spec => []AckedVersionsDistinct
<1>1. SInv => AckedVersionsDistinct
  <2> SUFFICES ASSUME SInv, NEW t \in Tasks, NEW u \in Tasks, t # u,
                      answer[t].status = "saved", answer[u].status = "saved",
                      req[t].key = req[u].key,
                      answer[t].version = answer[u].version,
                      NEW i \in StoredAt(t), NEW j \in StoredAt(u)
               PROVE  \E d \in (i .. j) \cup (j .. i) : past[req[t].key][d] = NoRow
    BY DEF AckedVersionsDistinct
  <2> DEFINE h == past[req[t].key]
  <2>1. req[t].key \in Keys /\ h \in Seq(Row) /\ CountsUp(h) /\ Len(h) \in Nat
    BY DEF SInv, AnswerAt, HInv, HandlersOK, TypeOK, PastOK
  <2>2. /\ i \in 1 .. Len(h) /\ h[i].version = answer[t].version /\ h[i].writer = t
        /\ j \in 1 .. Len(h) /\ h[j].version = answer[t].version /\ h[j].writer = u
    BY <2>1 DEF StoredAt
  <2>3. i # j /\ answer[t].version \in Nat
    BY <2>2 DEF SInv, HInv, TypeOK, Answer
  <2> HIDE DEF h
  <2>4. CASE i < j
    <3> SUFFICES ASSUME \A d \in i .. j : h[d] # NoRow PROVE FALSE
      BY DEF h
    <3>1. \A d \in i + 1 .. j : h[d] # NoRow
      BY <2>1, <2>2
    <3>2. h[j].version = h[i].version + (j - i)
      BY <2>1, <2>2, <2>4, <3>1 DEF CountsUp
    <3> QED
      BY <2>1, <2>2, <2>3, <2>4, <3>2
  <2>5. CASE j < i
    <3> SUFFICES ASSUME \A d \in j .. i : h[d] # NoRow PROVE FALSE
      BY DEF h
    <3>1. \A d \in j + 1 .. i : h[d] # NoRow
      BY <2>1, <2>2
    <3>2. h[i].version = h[j].version + (i - j)
      BY <2>1, <2>2, <2>5, <3>1 DEF CountsUp
    <3> QED
      BY <2>1, <2>2, <2>3, <2>5, <3>2
  <2> QED
    BY <2>1, <2>2, <2>3, <2>4, <2>5
<1> QED
  BY <1>1, SInvAlways, PTL

\* The retry loop reports exhaustion only when the row changed at least
\* LWT_MAX_RETRIES times after the save began, for every value of that bound.
THEOREM ExhaustionNeedsContention == Spec => []ExhaustedOnlyUnderContention
<1>1. SInv => ExhaustedOnlyUnderContention
  <2> SUFFICES ASSUME SInv, NEW t \in Tasks, answer[t].status = "exhausted"
               PROVE  Len(past[req[t].key]) - from[t] >= MaxRetries
    BY DEF ExhaustedOnlyUnderContention
  <2>1. Len(past[req[t].key]) - from[t] >= MaxRetries /\ req[t].key \in Keys
    BY DEF SInv, AnswerAt, HInv, HandlersOK
  <2> QED
    BY <2>1
<1> QED
  BY <1>1, SInvAlways, PTL

-----------------------------------------------------------------------------
(* DataKeys implements Registers. The mapping takes rows, history, asked   *)
(* and told to variables of DataKeys of the same meaning and forgets the   *)
(* handlers and the wire: what a handler does is a stutter, an executed    *)
(* copy is a Write, an Erase or a stutter, and the end of a handler is a   *)
(* Tell. SInv gives the facts about handlers and copies that this needs,   *)
(* and ProgressOK those about requests and answers.                        *)


\* Only a handler that has ended has given an answer, only one that has not begun
\* has no request, and a refused request has sent nothing.
ProgressOK ==
    /\ \A t \in Tasks :
           /\ pc[t] # "done" => answer[t] = Told("none")
           /\ pc[t] = "idle" => req[t] = NoRequest
           /\ pc[t] # "idle" => req[t].op # "none"
    /\ \A m \in wire : answer[m.task].status # "refused"

RInv == SInv /\ ProgressOK

LEMMA OpsFacts == \A op \in Ops : op \in {"put", "save", "delete", "purge"}
BY TasksAssumption

LEMMA ToldFields == \A s : Told(s).status = s /\ Told(s).version = 0
BY DEF Told

LEMMA InitRInv == Init => RInv
<1> SUFFICES ASSUME Init PROVE RInv
  OBVIOUS
<1>1. SInv
  BY InitSInv
<1>2. ProgressOK
  BY DEF Init, ProgressOK
<1> QED
  BY <1>1, <1>2 DEF RInv

\* A handler that ends with an answer other than "refused".
LEMMA EndStep ==
    ASSUME RInv, NEW t \in Tasks, NEW a \in Answer, a.status # "refused", Finish(t, a),
           Active(t), UNCHANGED <<req, wire>>
    PROVE  ProgressOK'
<1>1. /\ pc' = [pc EXCEPT ![t] = "done"] /\ answer' = [answer EXCEPT ![t] = a]
      /\ req' = req /\ wire' = wire
  BY DEF Finish
<1>2. /\ pc \in [Tasks -> {"idle", "reading", "waiting", "done"}]
      /\ answer \in [Tasks -> Answer] /\ wire \subseteq Copy
  BY DEF RInv, SInv, HInv, TypeOK
<1>3. \A u \in Tasks \ {t} : pc'[u] = pc[u] /\ answer'[u] = answer[u]
  BY <1>1, <1>2
<1>4. pc'[t] = "done" /\ answer'[t] = a /\ pc[t] # "idle"
  BY <1>1, <1>2 DEF Active
<1>5. \A m \in wire : m.task \in Tasks
  BY <1>2 DEF Copy
<1> QED
  BY <1>1, <1>3, <1>4, <1>5 DEF RInv, ProgressOK

\* A handler that goes on.
LEMMA GoOnStep ==
    ASSUME RInv, NEW t \in Tasks, Active(t), UNCHANGED <<req, answer>>,
           \A u \in Tasks \ {t} : pc'[u] = pc[u], pc'[t] \in {"reading", "waiting"},
           \A m \in wire' : m \in wire \/ m.task = t
    PROVE  ProgressOK'
<1>1. pc[t] # "done" /\ pc[t] # "idle" /\ answer[t] = Told("none")
  BY DEF Active, RInv, ProgressOK
<1>2. answer[t].status # "refused"
  BY <1>1, ToldFields
<1> QED
  BY <1>1, <1>2 DEF RInv, ProgressOK

LEMMA BeginProgress ==
    ASSUME RInv, NEW t \in Tasks, NEW op \in Ops, NEW k \in Keys \cup {None},
           Begin(t, op, k)
    PROVE  ProgressOK'
<1>1. /\ pc[t] = "idle" /\ answer' = answer
      /\ req' = [req EXCEPT ![t] = [op |-> op, key |-> k]]
      /\ \/ pc' = [pc EXCEPT ![t] = "reading"] /\ wire' = wire
         \/ SendFrom(t, Loop(1))
  BY DEF Begin
<1>2. \A m \in wire' : m \in wire \/ m.task = t
  BY <1>1 DEF SendFrom, CopyOf
<1>3. /\ \A u \in Tasks \ {t} : pc'[u] = pc[u] /\ req'[u] = req[u]
      /\ pc'[t] \in {"reading", "waiting"} /\ req'[t].op = op
  BY <1>1 DEF SendFrom, RInv, SInv, HInv, TypeOK
<1>4. answer[t] = Told("none") /\ answer[t].status # "refused"
  BY <1>1, ToldFields DEF RInv, ProgressOK
<1>5. op # "none"
  BY OpsFacts
<1> QED
  BY <1>1, <1>2, <1>3, <1>4, <1>5 DEF RInv, ProgressOK

LEMMA RefuseProgress ==
    ASSUME RInv, NEW t \in Tasks, NEW op \in Ops, NEW k \in Keys \cup {None},
           Refuse(t, op, k)
    PROVE  ProgressOK'
<1>1. /\ pc[t] = "idle" /\ wire' = wire
      /\ req' = [req EXCEPT ![t] = [op |-> op, key |-> k]]
      /\ pc' = [pc EXCEPT ![t] = "done"]
      /\ answer' = [answer EXCEPT ![t] = Told("refused")]
  BY DEF Refuse, Finish
<1>2. /\ \A u \in Tasks \ {t} : pc'[u] = pc[u] /\ req'[u] = req[u] /\ answer'[u] = answer[u]
      /\ pc'[t] = "done" /\ req'[t].op = op
  BY <1>1 DEF RInv, SInv, HInv, TypeOK
<1>3. \A m \in wire : m.task \in Tasks /\ m.task # t
  BY <1>1 DEF RInv, SInv, HInv, TypeOK, WireOK, Copy
<1>4. op # "none"
  BY OpsFacts
<1> QED
  BY <1>1, <1>2, <1>3, <1>4 DEF RInv, ProgressOK

LEMMA HandleProgress ==
    ASSUME RInv, NEW t \in Tasks, Handle(t) \/ Resend(t)
    PROVE  ProgressOK'
<1> USE DEF Active
<1>0. pc \in [Tasks -> {"idle", "reading", "waiting", "done"}]
  BY DEF RInv, SInv, HInv, TypeOK
<1>1. CASE ReadTotal(t) \/ ReadRow(t)
  <2>1. UNCHANGED <<wire, pc, req, answer>> /\ pc[t] = "reading"
    BY <1>1 DEF ReadTotal, ReadRow
  <2> QED
    BY <2>1, GoOnStep
<1>2. CASE Send(t) \/ Resend(t)
  <2>1. /\ SendFrom(t, local[t]) /\ UNCHANGED <<req, answer>>
        /\ pc[t] \in {"reading", "waiting"}
    BY <1>2 DEF Send, Resend, ReadsDone
  <2>2. \A m \in wire' : m \in wire \/ m.task = t
    BY <2>1 DEF SendFrom, CopyOf
  <2>3. pc'[t] = "waiting" /\ \A u \in Tasks \ {t} : pc'[u] = pc[u]
    BY <1>0, <2>1 DEF SendFrom
  <2> QED
    BY <2>1, <2>2, <2>3, GoOnStep
<1>3. CASE RetryAfterConflict(t)
  <2>1. /\ pc[t] = "waiting" /\ UNCHANGED <<wire, req, answer>>
        /\ pc' = [pc EXCEPT ![t] = "reading"]
    BY <1>3 DEF RetryAfterConflict
  <2>2. pc'[t] = "reading" /\ \A u \in Tasks \ {t} : pc'[u] = pc[u]
    BY <1>0, <2>1
  <2> QED
    BY <2>1, <2>2, GoOnStep
<1>4. CASE RefuseForQuota(t) \/ GiveUpAfterRetries(t) \/ Fail(t)
  <2>1. PICK s \in {"quota", "exhausted", "error"} :
                 Finish(t, Told(s)) /\ UNCHANGED <<wire, req>> /\ Active(t)
    BY <1>4 DEF RefuseForQuota, GiveUpAfterRetries, Fail, MayFail, ReadsDone
  <2>2. Told(s) \in Answer /\ Told(s).status # "refused"
    BY LoopType, ToldFields
  <2> QED
    BY <2>1, <2>2, EndStep
<1>5. CASE ReceiveApplied(t)
  <2>1. PICK a : Finish(t, a) /\ a \in {[status |-> "saved", version |-> StoredVersion(t)], Told("deleted")}
    BY <1>5 DEF ReceiveApplied
  <2>2. StoredVersion(t) \in Nat
    BY DEF StoredVersion, RInv, SInv, HInv, TypeOK, Local, Row
  <2>3. a \in Answer /\ a.status # "refused"
    BY <2>1, <2>2, LoopType, ToldFields DEF Answer
  <2>4. UNCHANGED <<wire, req>> /\ Active(t)
    BY <1>5 DEF ReceiveApplied
  <2> QED
    BY <2>1, <2>3, <2>4, EndStep
<1> QED
  BY <1>1, <1>2, <1>3, <1>4, <1>5 DEF Handle

LEMMA NextRInv == RInv /\ [Next]_vars => RInv'
<1> SUFFICES ASSUME RInv, [Next]_vars PROVE RInv'
  OBVIOUS
<1>1. SInv'
  BY NextSInv DEF RInv
<1>2. ASSUME NEW t \in Tasks, Arrive(t) PROVE ProgressOK'
  BY <1>2, BeginProgress, RefuseProgress DEF Arrive
<1>3. ASSUME NEW m \in wire, Execute(m) PROVE ProgressOK'
  BY <1>3 DEF Execute, ExecuteSave, ExecuteDelete, RInv, ProgressOK
<1>4. ASSUME UNCHANGED vars PROVE ProgressOK'
  BY <1>4 DEF vars, RInv, ProgressOK
<1> QED
  BY <1>1, <1>2, <1>3, <1>4, HandleProgress DEF RInv, Next, Rest

LEMMA RInvAlways == Spec => []RInv
BY InitRInv, NextRInv, PTL DEF Spec

-----------------------------------------------------------------------------
\* The mapping, action by action.
LEMMA StoreMaps ==
    ASSUME NEW contents, Store(contents), UNCHANGED <<req, answer>>
    PROVE  Promise!Become(contents)
BY DEF Store, Promise!Become

LEMMA AcceptedMaps ==
    ASSUME RInv, NEW t \in Tasks, pc[t] # "idle", answer[t].status # "refused"
    PROVE  Promise!Accepted(t)
<1>1. req[t].op # "none"
  BY DEF RInv, ProgressOK
<1> QED
  BY <1>1 DEF Promise!Accepted, Promise!NotAsked

LEMMA ArriveMaps ==
    ASSUME RInv, NEW t \in Tasks, Arrive(t)
    PROVE  Promise!Next
<1>1. PICK op \in Ops, k \in Keys \cup {None} : Begin(t, op, k) \/ Refuse(t, op, k)
  BY DEF Arrive
<1>2. pc[t] = "idle" /\ req[t] = Promise!NotAsked
  BY <1>1 DEF Begin, Refuse, RInv, ProgressOK, NoRequest, Promise!NotAsked
<1>3. CASE Begin(t, op, k)
  <2>1. Promise!Accept(t, op, k)
    BY <1>2, <1>3 DEF Begin, Promise!Accept, Promise!Ask
  <2> QED
    BY <2>1 DEF Promise!Next
<1>4. CASE Refuse(t, op, k)
  <2>1. Promise!Refuse(t, op, k)
    BY <1>2, <1>4 DEF Refuse, Finish, Told, Promise!Refuse, Promise!Ask, Promise!Untold
  <2> QED
    BY <2>1 DEF Promise!Next
<1> QED
  BY <1>1, <1>3, <1>4

\* A handler that ends tells its client something.
LEMMA FinishMaps ==
    ASSUME RInv, NEW t \in Tasks, Active(t), UNCHANGED <<data, past, req>>,
           NEW a \in Answer, Finish(t, a),
           \/ a.status \in {"quota", "exhausted", "error"} /\ a.version = 0
           \/ a.status = "deleted" /\ a.version = 0 /\ ~ IsSave(t)
           \/ a.status = "saved" /\ IsSave(t) /\ a.version \in Promise!Versions(t)
    PROVE  Promise!Next
<1>1. answer[t] = Promise!Untold /\ pc[t] # "idle"
  BY DEF Active, RInv, ProgressOK, Told, Promise!Untold
<1>2. Promise!Accepted(t)
  <2>1. answer[t].status # "refused"
    BY <1>1 DEF Promise!Untold
  <2> QED
    BY <1>1, <2>1, AcceptedMaps
<1>3. Promise!Answered(t, a.status, a.version)
  <2>1. a = [status |-> a.status, version |-> a.version]
    BY DEF Answer
  <2> QED
    BY <2>1 DEF Finish, Promise!Answered
<1>4. req[t].op \in {"put", "save", "delete", "purge"}
  <2>1. req[t] \in Request /\ req[t].op # "none"
    BY <1>1 DEF RInv, ProgressOK, SInv, HInv, TypeOK
  <2> QED
    BY <2>1 DEF Request
<1>5. Promise!Tell(t)
  BY <1>1, <1>2, <1>3, <1>4 DEF Promise!Tell, IsSave
<1> QED
  BY <1>5 DEF Promise!Next

LEMMA HandlerMaps ==
    ASSUME RInv, NEW t \in Tasks, Handle(t) \/ Resend(t)
    PROVE  Promise!Next \/ UNCHANGED Promise!vars
<1>1. CASE ReadTotal(t) \/ ReadRow(t) \/ Send(t) \/ Resend(t) \/ RetryAfterConflict(t)
  BY <1>1 DEF ReadTotal, ReadRow, Send, Resend, RetryAfterConflict, Promise!vars
<1>2. CASE RefuseForQuota(t) \/ GiveUpAfterRetries(t) \/ Fail(t)
  <2>1. PICK s \in {"quota", "exhausted", "error"} :
                 Finish(t, Told(s)) /\ UNCHANGED <<data, past, req>> /\ Active(t)
    BY <1>2 DEF RefuseForQuota, GiveUpAfterRetries, Fail, MayFail, ReadsDone, Active
  <2>2. Told(s) \in Answer /\ Told(s).status = s /\ Told(s).version = 0
    BY LoopType, ToldFields
  <2> QED
    BY <2>1, <2>2, FinishMaps
<1>3. CASE ReceiveApplied(t)
  <2>1. UNCHANGED <<data, past, req>> /\ pc[t] = "waiting" /\ "applied" \in local[t].reply
    BY <1>3 DEF ReceiveApplied
  <2>2. CASE IsSave(t)
    <3> DEFINE a == [status |-> "saved", version |-> StoredVersion(t)]
    <3>1. Finish(t, a)
      BY <1>3, <2>2 DEF ReceiveApplied
    <3>2. PICK i \in 1 .. Len(past[req[t].key]) :
                   past[req[t].key][i] = [version |-> local[t].row.version + 1, writer |-> t]
      BY <2>1, <2>2 DEF RInv, SInv, SeenAt, Active
    <3>3. StoredVersion(t) \in Promise!Versions(t)
      BY <3>2 DEF StoredVersion, Promise!Versions
    <3>4. a \in Answer
      BY DEF StoredVersion, RInv, SInv, HInv, TypeOK, Local, Row, Answer
    <3> QED
      BY <2>1, <2>2, <3>1, <3>3, <3>4, FinishMaps DEF Active
  <2>3. CASE ~ IsSave(t)
    <3>1. Finish(t, Told("deleted"))
      BY <1>3, <2>3 DEF ReceiveApplied
    <3> QED
      BY <2>1, <2>3, <3>1, LoopType, ToldFields, FinishMaps DEF Active
  <2> QED
    BY <2>2, <2>3
<1> QED
  BY <1>1, <1>2, <1>3 DEF Handle

\* A copy the database executes writes for a request that was let in.
LEMMA ExecuteMaps ==
    ASSUME RInv, NEW m \in wire, Execute(m)
    PROVE  Promise!Next \/ UNCHANGED Promise!vars
<1> DEFINE t == m.task
           k == req[t].key
<1>1. t \in Tasks /\ Promise!Accepted(t)
  <2>1. t \in Tasks
    BY DEF RInv, SInv, HInv, TypeOK, Copy
  <2>2. pc[t] # "idle" /\ answer[t].status # "refused"
    BY DEF RInv, ProgressOK, SInv, HInv, WireOK
  <2> QED
    BY <2>1, <2>2, AcceptedMaps
<1>2. CASE ExecuteSave(m) /\ Applies(m)
  <2> DEFINE rows == [data EXCEPT ![k] = [version |-> m.expect + 1, writer |-> t]]
  <2>1. Store(rows) /\ UNCHANGED <<req, answer>> /\ IsSave(t)
    BY <1>2 DEF ExecuteSave
  <2>2. rows = [data EXCEPT ![k] = [version |-> data[k].version + 1, writer |-> t]]
    BY <1>2 DEF Applies
  <2> HIDE DEF rows
  <2>3. Promise!Write(t)
    BY <1>1, <2>1, <2>2, StoreMaps DEF Promise!Write, IsSave
  <2> QED
    BY <1>1, <2>3 DEF Promise!Next
<1>3. CASE ExecuteSave(m) /\ ~ Applies(m)
  <2>1. Store(data) /\ UNCHANGED <<req, answer>>
    BY <1>3 DEF ExecuteSave
  <2>2. data' = data /\ past' = past
    BY <2>1 DEF Store, RInv, SInv, HInv, TypeOK
  <2> QED
    BY <2>1, <2>2 DEF Promise!vars
<1>4. CASE ExecuteDelete(m)
  <2> DEFINE rows == [j \in Keys |-> IF j \in Erased(t) THEN NoRow ELSE data[j]]
  <2>1. Store(rows) /\ UNCHANGED <<req, answer>> /\ ~ IsSave(t)
    BY <1>4 DEF ExecuteDelete
  <2>2. req[t].op \in {"delete", "purge"}
    <3>1. req[t] \in Request /\ pc[t] # "idle" /\ req[t].op # "none"
      BY <1>1 DEF RInv, ProgressOK, SInv, HInv, TypeOK, WireOK
    <3> QED
      BY <2>1, <3>1 DEF Request, IsSave
  <2>3. Promise!Become(rows)
    BY <2>1, StoreMaps
  <2>4. Promise!Erase(t)
    BY <1>1, <2>2, <2>3 DEF Promise!Erase, Erased, NoRow, Promise!NoRow
  <2> QED
    BY <1>1, <2>4 DEF Promise!Next
<1> QED
  BY <1>2, <1>3, <1>4 DEF Execute

LEMMA StepMaps == RInv /\ [Next]_vars => [Promise!Next]_(Promise!vars)
<1> SUFFICES ASSUME RInv, [Next]_vars PROVE Promise!Next \/ UNCHANGED Promise!vars
  OBVIOUS
<1>1. CASE UNCHANGED vars
  BY <1>1 DEF vars, Promise!vars
<1> QED
  BY <1>1, ArriveMaps, HandlerMaps, ExecuteMaps DEF Next, Rest

\* DataKeys implements Registers, for every set of keys and requests and every
\* bound: conditional statements with retries and resent, late and lost copies
\* behave as writes that count up and answers that claim no more than was written.
THEOREM StoreKeepsItsPromise == Spec => RefinesRegisters
<1>1. Init => Promise!Init
  BY DEF Init, NoRows, NoRow, NoRequest, Told,
         Promise!Init, Promise!NoRow, Promise!NotAsked, Promise!Untold
<1> QED
  BY <1>1, RInvAlways, StepMaps, PTL DEF Spec, RefinesRegisters, Promise!Spec

=============================================================================
