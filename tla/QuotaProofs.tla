----------------------------- MODULE QuotaProofs -----------------------------
(***************************************************************************)
(* Proofs about the sizes of the rows of DataKeys: what Total returns, and *)
(* that only requests that overlap, or the saves of a sync, take a user    *)
(* over the limit. The quota is a sum over rows that were read, so what is *)
(* needed of it are facts about sums over any finite set of keys.          *)
(***************************************************************************)
EXTENDS DataKeysProofs, FiniteSetTheorems

(* Sums. *)

LEMMA SmallestNumber ==
    ASSUME NEW T \in SUBSET Nat, T # {}
    PROVE  \E n \in T : \A m \in T : n <= m
<1> DEFINE R == OpToRel(<, Nat)
<1>1. \A m, n \in Nat : m < n => <<m, n>> \in R
  BY DEF OpToRel
<1>2. IsWellFoundedOn(R, Nat)
  BY NatLessThanWellFounded
<1> HIDE DEF R
<1>3. PICK n \in T : \A m \in T : ~ (<<m, n>> \in R)
  BY <1>2, WFMin
<1>4. ASSUME NEW m \in T, ~ n <= m PROVE FALSE
  <2>1. m < n /\ m \in Nat /\ n \in Nat
    BY <1>4
  <2>2. <<m, n>> \in R
    BY <1>1, <2>1, Zenon
  <2> QED
    BY <1>3, <2>2, Zenon
<1> QED
  BY <1>4

\* The smallest set there is of those in a set of sets of keys.
LEMMA SmallestKeys ==
    ASSUME NEW T \in SUBSET (SUBSET Keys), T # {}
    PROVE  \E ks \in T : \A js \in T : js \subseteq ks => js = ks
<1>1. /\ FiniteSubsetsOf(Keys) = SUBSET Keys
      /\ IsWellFoundedOn(StrictSubsetOrdering(Keys), FiniteSubsetsOf(Keys))
  BY KeysAssumption, FS_FiniteSubsetsOfFinite, FS_StrictSubsetOrderingWellFounded
<1>2. PICK ks \in T : \A js \in T : <<js, ks>> \notin StrictSubsetOrdering(Keys)
  BY <1>1, WFMin
<1>3. \A js \in T : js \subseteq ks => js = ks
  BY <1>2, Zenon DEF StrictSubsetOrdering
<1> QED
  BY <1>3

Some(ks) == CHOOSE k \in ks : TRUE

\* The sum over ks, given the sums over smaller sets.
SumOver(rows, sum, ks) ==
    IF ks = {} THEN 0 ELSE RowSize(rows[Some(ks)]) + sum[ks \ {Some(ks)}]

\* What the sum over every set of keys is.
Sums(rows) == CHOOSE sum : sum = [ks \in SUBSET Keys |-> SumOver(rows, sum, ks)]

LEMMA TotalIsSum == ASSUME NEW rows PROVE Total(rows) = Sums(rows)[Keys]
BY Zenon DEF Total, MapThenSumSet, MapThenFoldSet, Sums, SumOver, Some

LEMMA SomeKey == \A ks \in SUBSET Keys : ks # {} => Some(ks) \in ks
BY DEF Some

\* The sums exist: they can be given up to any number of keys.
LEMMA SumsExist ==
    ASSUME NEW rows
    PROVE  Sums(rows) = [ks \in SUBSET Keys |-> SumOver(rows, Sums(rows), ks)]
<1> DEFINE Small(n) == {ks \in SUBSET Keys : Cardinality(ks) <= n}
           Good(n) == \E f : \A ks \in Small(n) : f[ks] = SumOver(rows, f, ks)
           Bad == {n \in Nat : ~ Good(n)}
<1>0. \A ks \in SUBSET Keys : /\ IsFiniteSet(ks) /\ Cardinality(ks) \in Nat
                              /\ Cardinality(ks) = 0 => ks = {}
  BY KeysAssumption, FS_Subset, FS_CardinalityType, FS_EmptySet
<1>1. ASSUME NEW ks \in SUBSET Keys, ks # {}
      PROVE  /\ ks \ {Some(ks)} \in SUBSET Keys
             /\ Cardinality(ks \ {Some(ks)}) = Cardinality(ks) - 1
  BY <1>0, <1>1, SomeKey, FS_RemoveElement
<1>2. Good(0)
  <2>1. \A ks \in Small(0) : ks = {}
    BY <1>0
  <2> DEFINE f == [ks \in SUBSET Keys |-> 0]
  <2>2. \A ks \in Small(0) : f[ks] = SumOver(rows, f, ks)
    BY <2>1 DEF SumOver
  <2> QED
    BY <2>2
<1>3. ASSUME NEW n \in Nat, Good(n) PROVE Good(n + 1)
  <2>1. PICK f : \A ks \in Small(n) : f[ks] = SumOver(rows, f, ks)
    BY <1>3
  <2> DEFINE g == [ks \in SUBSET Keys |-> SumOver(rows, f, ks)]
  <2>2. ASSUME NEW ks \in Small(n + 1) PROVE g[ks] = SumOver(rows, g, ks)
    <3>1. CASE ks = {}
      BY <3>1 DEF SumOver
    <3>2. CASE ks # {}
      <4> DEFINE js == ks \ {Some(ks)}
      <4>1. ks \in SUBSET Keys /\ js \in SUBSET Keys /\ js \in Small(n)
        BY <1>0, <1>1, <3>2
      <4>2. f[js] = g[js]
        BY <2>1, <4>1
      <4>3. g[ks] = RowSize(rows[Some(ks)]) + f[js]
        BY <3>2, <4>1 DEF SumOver
      <4> QED
        BY <3>2, <4>2, <4>3 DEF SumOver
    <3> QED
      BY <3>1, <3>2
  <2> QED
    BY <2>2
<1>4. Bad = {}
  <2> SUFFICES ASSUME Bad # {} PROVE FALSE
    OBVIOUS
  <2> HIDE DEF Good
  <2>1. PICK n \in Bad : \A m \in Bad : n <= m
    BY SmallestNumber
  <2>2. n # 0 /\ n \in Nat
    BY <1>2
  <2>3. n - 1 \in Nat /\ n - 1 \notin Bad
    BY <2>1, <2>2
  <2>4. Good(n - 1 + 1) /\ n - 1 + 1 = n
    BY <1>3, <2>2, <2>3
  <2> QED
    BY <2>1, <2>4
<1>5. PICK f : \A ks \in SUBSET Keys : f[ks] = SumOver(rows, f, ks)
  <2>1. Cardinality(Keys) \in Nat /\ Small(Cardinality(Keys)) = SUBSET Keys
    BY KeysAssumption, FS_CardinalityType, FS_Subset
  <2>2. Good(Cardinality(Keys))
    BY <1>4, <2>1
  <2> QED
    BY <2>1, <2>2
<1> DEFINE g == [ks \in SUBSET Keys |-> f[ks]]
<1>6. g = [ks \in SUBSET Keys |-> SumOver(rows, g, ks)]
  <2>1. \A ks \in SUBSET Keys : SumOver(rows, f, ks) = SumOver(rows, g, ks)
    BY DEF SumOver
  <2> QED
    BY <1>5, <2>1
<1> HIDE DEF g
<1> QED
  BY <1>6, Zenon DEF Sums

LEMMA SumStep ==
    ASSUME NEW rows, NEW ks \in SUBSET Keys
    PROVE  /\ ks = {} => Sums(rows)[ks] = 0
           /\ ks # {} => /\ Some(ks) \in ks
                         /\ Sums(rows)[ks] = RowSize(rows[Some(ks)]) + Sums(rows)[ks \ {Some(ks)}]
<1>1. Sums(rows)[ks] = SumOver(rows, Sums(rows), ks)
  BY SumsExist, Zenon
<1> QED
  BY <1>1, SomeKey DEF SumOver

LEMMA RowSizeType == \A row \in Row : RowSize(row) \in Nat
BY TasksAssumption DEF Row, RowSize

LEMMA SumType ==
    ASSUME NEW rows \in [Keys -> Row]
    PROVE  \A ks \in SUBSET Keys : Sums(rows)[ks] \in Nat
<1> DEFINE Bad == {ks \in SUBSET Keys : Sums(rows)[ks] \notin Nat}
<1> SUFFICES ASSUME Bad # {} PROVE FALSE
  OBVIOUS
<1>0. Bad \in SUBSET (SUBSET Keys)
  OBVIOUS
<1>1. PICK ks \in Bad : \A js \in Bad : js \subseteq ks => js = ks
  BY <1>0, SmallestKeys, Zenon
<1>2. ks # {} /\ Some(ks) \in ks /\ ks \in SUBSET Keys
  <2>1. ks \in SUBSET Keys
    OBVIOUS
  <2>2. ks = {} => Sums(rows)[ks] = 0
    BY <2>1, SumStep
  <2> QED
    BY <2>1, <2>2, SomeKey
<1>3. ks \ {Some(ks)} \notin Bad /\ ks \ {Some(ks)} \in SUBSET Keys
  BY <1>1, <1>2
<1>4. Sums(rows)[ks \ {Some(ks)}] \in Nat /\ RowSize(rows[Some(ks)]) \in Nat
  BY <1>2, <1>3, RowSizeType
<1>5. Sums(rows)[ks] = RowSize(rows[Some(ks)]) + Sums(rows)[ks \ {Some(ks)}]
  BY <1>2, SumStep
<1> QED
  BY <1>4, <1>5

\* With smaller rows the sum is smaller.
LEMMA SumMonotone ==
    ASSUME NEW rows \in [Keys -> Row], NEW less \in [Keys -> Row],
           \A k \in Keys : RowSize(less[k]) <= RowSize(rows[k])
    PROVE  \A ks \in SUBSET Keys : Sums(less)[ks] <= Sums(rows)[ks]
<1> DEFINE Bad == {ks \in SUBSET Keys : ~ Sums(less)[ks] <= Sums(rows)[ks]}
<1> SUFFICES ASSUME Bad # {} PROVE FALSE
  OBVIOUS
<1>0. Bad \in SUBSET (SUBSET Keys)
  OBVIOUS
<1>1. PICK ks \in Bad : \A js \in Bad : js \subseteq ks => js = ks
  BY <1>0, SmallestKeys, Zenon
<1>2. ks # {} /\ Some(ks) \in ks /\ ks \in SUBSET Keys
  <2>1. ks \in SUBSET Keys
    OBVIOUS
  <2>2. ks = {} => Sums(rows)[ks] = 0 /\ Sums(less)[ks] = 0
    BY <2>1, SumStep
  <2> QED
    BY <2>1, <2>2, SomeKey
<1>3. ks \ {Some(ks)} \notin Bad /\ ks \ {Some(ks)} \in SUBSET Keys
  BY <1>1, <1>2
<1>4. /\ Sums(less)[ks \ {Some(ks)}] <= Sums(rows)[ks \ {Some(ks)}]
      /\ Sums(less)[ks \ {Some(ks)}] \in Nat /\ Sums(rows)[ks \ {Some(ks)}] \in Nat
      /\ RowSize(rows[Some(ks)]) \in Nat /\ RowSize(less[Some(ks)]) \in Nat
      /\ RowSize(less[Some(ks)]) <= RowSize(rows[Some(ks)])
  BY <1>2, <1>3, RowSizeType, SumType
<1>5. /\ Sums(rows)[ks] = RowSize(rows[Some(ks)]) + Sums(rows)[ks \ {Some(ks)}]
      /\ Sums(less)[ks] = RowSize(less[Some(ks)]) + Sums(less)[ks \ {Some(ks)}]
  BY <1>2, SumStep
<1>6. Sums(less)[ks] <= Sums(rows)[ks]
  BY <1>4, <1>5
<1> QED
  BY <1>6

\* A sum in which one row differs.
LEMMA SumReplace ==
    ASSUME NEW rows \in [Keys -> Row], NEW other \in [Keys -> Row], NEW k \in Keys,
           \A j \in Keys \ {k} : RowSize(other[j]) = RowSize(rows[j])
    PROVE  \A ks \in SUBSET Keys :
               Sums(other)[ks] = IF k \in ks THEN Sums(rows)[ks] - RowSize(rows[k]) + RowSize(other[k])
                                 ELSE Sums(rows)[ks]
<1> DEFINE Should(ks) == IF k \in ks THEN Sums(rows)[ks] - RowSize(rows[k]) + RowSize(other[k])
                         ELSE Sums(rows)[ks]
           Bad == {ks \in SUBSET Keys : Sums(other)[ks] # Should(ks)}
<1> SUFFICES ASSUME Bad # {} PROVE FALSE
  OBVIOUS
<1>0. Bad \in SUBSET (SUBSET Keys)
  OBVIOUS
<1>1. PICK ks \in Bad : \A js \in Bad : js \subseteq ks => js = ks
  BY <1>0, SmallestKeys, Zenon
<1>2. ks # {} /\ Some(ks) \in ks /\ ks \in SUBSET Keys
  BY SumStep
<1> DEFINE x == Some(ks)
           js == ks \ {x}
<1>3. js \notin Bad /\ js \in SUBSET Keys
  BY <1>1, <1>2
<1>4. /\ Sums(other)[js] = Should(js)
      /\ Sums(other)[js] \in Nat /\ Sums(rows)[js] \in Nat
      /\ RowSize(rows[x]) \in Nat /\ RowSize(other[x]) \in Nat
      /\ RowSize(rows[k]) \in Nat /\ RowSize(other[k]) \in Nat
  BY <1>2, <1>3, RowSizeType, SumType
<1>5. /\ Sums(rows)[ks] = RowSize(rows[x]) + Sums(rows)[js]
      /\ Sums(other)[ks] = RowSize(other[x]) + Sums(other)[js]
  BY <1>2, SumStep
<1>6. k \in js <=> k \in ks /\ x # k
  OBVIOUS
<1>7. x # k => RowSize(other[x]) = RowSize(rows[x])
  BY <1>2
<1> HIDE DEF x, js
<1>8. x \in ks
  BY <1>2 DEF x
<1>9. Sums(other)[ks] = Should(ks)
  BY <1>4, <1>5, <1>6, <1>7, <1>8
<1> QED
  BY <1>9

LEMMA TotalType == ASSUME NEW rows \in [Keys -> Row] PROVE Total(rows) \in Nat
BY TotalIsSum, SumType

LEMMA TotalMonotone ==
    ASSUME NEW rows \in [Keys -> Row], NEW less \in [Keys -> Row],
           \A k \in Keys : RowSize(less[k]) <= RowSize(rows[k])
    PROVE  Total(less) <= Total(rows)
BY TotalIsSum, SumMonotone

LEMMA TotalReplace ==
    ASSUME NEW rows \in [Keys -> Row], NEW other \in [Keys -> Row], NEW k \in Keys,
           \A j \in Keys \ {k} : RowSize(other[j]) = RowSize(rows[j])
    PROVE  Total(other) = Total(rows) - RowSize(rows[k]) + RowSize(other[k])
BY TotalIsSum, SumReplace

LEMMA TotalEmpty ==
    ASSUME NEW rows \in [Keys -> Row], \A k \in Keys : RowSize(rows[k]) = 0
    PROVE  Total(rows) = 0
<1> DEFINE Bad == {ks \in SUBSET Keys : Sums(rows)[ks] # 0}
<1>0. Bad = {}
  <2> SUFFICES ASSUME Bad # {} PROVE FALSE
    OBVIOUS
  <2>0. Bad \in SUBSET (SUBSET Keys)
    OBVIOUS
  <2>1. PICK ks \in Bad : \A js \in Bad : js \subseteq ks => js = ks
    BY <2>0, SmallestKeys, Zenon
  <2>2. ks # {} /\ Some(ks) \in ks /\ ks \in SUBSET Keys
    BY SumStep
  <2>3. ks \ {Some(ks)} \notin Bad /\ ks \ {Some(ks)} \in SUBSET Keys
    BY <2>1, <2>2
  <2>4. Sums(rows)[ks] = RowSize(rows[Some(ks)]) + Sums(rows)[ks \ {Some(ks)}]
    BY <2>2, SumStep
  <2> QED
    BY <2>2, <2>3, <2>4
<1> QED
  BY <1>0, TotalIsSum
-----------------------------------------------------------------------------
(* The requests. *)

\* No other request ran while w did.
Alone(w) == \A u \in Tasks \ {w} : ~ Overlap(w, u)

\* What was over when a request began is still over, and so is what was over
\* when that began.
OrderOK ==
    \A t \in Tasks :
        /\ pc[t] = "idle" => before[t] = {}
        /\ \A u \in before[t] : /\ Settled(u)
                                /\ before[u] \subseteq before[t]
                                /\ t \notin before[u]

\* A row is kept under the key its writer asked for.
RowsOK ==
    \A k \in Keys :
        data[k].writer # None => IsSave(data[k].writer) /\ req[data[k].writer].key = k

\* The value of w fits beside the other rows.
Fits(w) == Total(data) - RowSize(data[req[w].key]) + Size[w] <= MaxTotal

\* Nothing has been sent for w yet.
Fresh(w) == pc[w] = "reading" /\ local[w].attempt = 1

\* The rows that requests in W wrote.
Only(rows, W) == [k \in Keys |-> IF rows[k].writer \in W THEN rows[k] ELSE NoRow]

\* A PUT that runs alone reads the rows as they are, and sends its value only
\* when it fits; nothing else changes the rows until its last copy is executed.
\* From then on the rows that were there when it was done only become fewer.
QuotaAt(w) ==
    /\ Fresh(w) =>
          /\ \A m \in wire : m.task # w
          /\ "total" \in local[w].read => local[w].rows = data
          /\ "row" \in local[w].read => local[w].row = data[req[w].key]
    /\ ~ Fresh(w) /\ ~ Settled(w) => Fits(w)
    /\ data[req[w].key].writer = w => Total(Only(data, before[w] \cup {w})) <= MaxTotal

QuotaOK == \A w \in Tasks : req[w].op = "put" /\ Alone(w) => QuotaAt(w)

QInv == SInv /\ OrderOK /\ RowsOK /\ QuotaOK

\* A request that does not move.
SameTask(w) ==
    /\ pc'[w] = pc[w] /\ req'[w] = req[w] /\ local'[w] = local[w] /\ before'[w] = before[w]
    /\ \A m \in wire \cup wire' : m.task = w => m \in wire /\ m \in wire'

\* Nothing that has begun begins again.
Begun ==
    \A u \in Tasks : pc[u] # "idle" => /\ pc'[u] # "idle" /\ req'[u] = req[u]
                                       /\ before'[u] = before[u]

-----------------------------------------------------------------------------
LEMMA AloneBefore ==
    ASSUME Begun, NEW w \in Tasks, pc[w] # "idle", Alone(w)'
    PROVE  Alone(w)
BY DEF Begun, Alone, Overlap

\* While a request runs alone, no other has anything under way.
LEMMA OthersSettled ==
    ASSUME HInv, OrderOK, NEW w \in Tasks, Alone(w), NEW m \in wire, m.task # w
    PROVE  Settled(w) /\ m.task \notin before[w]
<1>1. m.task \in Tasks /\ pc[m.task] # "idle" /\ ~ Settled(m.task)
  BY DEF HInv, TypeOK, Copy, WireOK, Settled
<1>2. m.task \notin before[w]
  BY <1>1 DEF OrderOK
<1>3. w \in before[m.task]
  BY <1>1, <1>2 DEF Alone, Overlap
<1> QED
  BY <1>1, <1>2, <1>3 DEF OrderOK

LEMMA OnlyType ==
    ASSUME NEW rows \in [Keys -> Row], NEW W
    PROVE  /\ Only(rows, W) \in [Keys -> Row]
           /\ Total(Only(rows, W)) \in Nat /\ Total(rows) \in Nat
           /\ Total(Only(rows, W)) <= Total(rows)
<1>1. Only(rows, W) \in [Keys -> Row]
  BY LoopType DEF Only
<1>2. \A k \in Keys : RowSize(Only(rows, W)[k]) <= RowSize(rows[k])
  <2>1. RowSize(NoRow) = 0 /\ \A k \in Keys : RowSize(rows[k]) \in Nat
    BY RowSizeType DEF RowSize, NoRow
  <2> QED
    BY <2>1 DEF Only
<1> QED
  BY <1>1, <1>2, TotalType, TotalMonotone

\* When all rows were written by requests in W, those are all there is.
LEMMA OnlyAll ==
    ASSUME NEW rows \in [Keys -> Row], NEW W, \A k \in Keys : rows[k].writer \in W \cup {None}
    PROVE  Total(rows) <= Total(Only(rows, W))
<1>1. \A k \in Keys : RowSize(rows[k]) \in Nat
  BY RowSizeType
<1>2. \A k \in Keys : RowSize(Only(rows, W)[k]) = RowSize(rows[k])
  BY DEF Only, RowSize, NoRow
<1>3. Only(rows, W) \in [Keys -> Row]
  BY OnlyType
<1> QED
  BY <1>1, <1>2, <1>3, TotalMonotone

\* What is known of a request stays true when it does not move and the rows stay.
LEMMA QuotaStays ==
    ASSUME data' = data, NEW w \in Tasks, SameTask(w), QuotaAt(w)
    PROVE  QuotaAt(w)'
<1>1. Settled(w)' <=> Settled(w)
  BY DEF SameTask, Settled
<1>2. Fresh(w)' <=> Fresh(w)
  BY DEF SameTask, Fresh
<1>3. Fits(w)' <=> Fits(w)
  BY DEF SameTask, Fits
<1>4. Only(data, before[w] \cup {w})' = Only(data, before[w] \cup {w})
  BY DEF SameTask, Only
<1> QED
  BY <1>1, <1>2, <1>3, <1>4 DEF SameTask, QuotaAt

-----------------------------------------------------------------------------
(* What each step moves. *)

LEMMA ArrivalMoves ==
    ASSUME HInv, NEW t \in Tasks, NEW op \in Calls, NEW k \in Keys \cup {None},
           Begin(t, op, k) \/ Refuse(t, op, k)
    PROVE  /\ data' = data /\ pc[t] = "idle" /\ pc'[t] # "idle"
           /\ before'[t] = {u \in Tasks : Settled(u)} /\ req'[t].op = op
           /\ \A u \in Tasks \ {t} : SameTask(u)
           /\ op = "put" => /\ wire' = wire
                            /\ \/ pc'[t] = "reading" /\ local'[t].read = {}
                                  /\ local'[t].attempt = 1
                               \/ pc'[t] = "done"
<1> USE DEF HInv, TypeOK
<1>1. CASE Begin(t, op, k) /\ op \in {"put", "save"}
  <2>1. /\ pc[t] = "idle" /\ data' = data /\ wire' = wire
        /\ req' = [req EXCEPT ![t] = [op |-> op, key |-> k]]
        /\ before' = [before EXCEPT ![t] = {u \in Tasks : Settled(u)}]
        /\ pc' = [pc EXCEPT ![t] = "reading"] /\ local' = [local EXCEPT ![t] = Loop(1)]
    BY <1>1 DEF Begin
  <2> QED
    BY <2>1, LoopFields DEF SameTask
<1>2. CASE Begin(t, op, k) /\ op \notin {"put", "save"}
  <2>1. /\ pc[t] = "idle" /\ data' = data /\ SendFrom(t, Loop(1))
        /\ req' = [req EXCEPT ![t] = [op |-> op, key |-> k]]
        /\ before' = [before EXCEPT ![t] = {u \in Tasks : Settled(u)}]
    BY <1>2 DEF Begin
  <2> QED
    BY <1>2, <2>1 DEF SameTask, SendFrom, CopyOf
<1>3. CASE Refuse(t, op, k)
  <2>1. /\ pc[t] = "idle" /\ data' = data /\ wire' = wire
        /\ req' = [req EXCEPT ![t] = [op |-> op, key |-> k]]
        /\ before' = [before EXCEPT ![t] = {u \in Tasks : Settled(u)}]
        /\ pc' = [pc EXCEPT ![t] = "done"] /\ local' = [local EXCEPT ![t] = Loop(0)]
    BY <1>3 DEF Refuse, Finish
  <2> QED
    BY <2>1 DEF SameTask
<1> QED
  BY <1>1, <1>2, <1>3

LEMMA HandlerMoves ==
    ASSUME HInv, NEW t \in Tasks, Handle(t) \/ Resend(t)
    PROVE  /\ UNCHANGED <<data, req, before>> /\ Active(t) /\ pc'[t] # "idle"
           /\ wire \subseteq wire'
           /\ \A u \in Tasks \ {t} : SameTask(u)
<1> USE DEF HInv, TypeOK, Active
<1>1. CASE ReadTotal(t) \/ ReadRow(t)
  BY <1>1 DEF ReadTotal, ReadRow, SameTask
<1>2. CASE RefuseForQuota(t) \/ ReceiveApplied(t) \/ GiveUpAfterRetries(t) \/ Fail(t)
  BY <1>2 DEF RefuseForQuota, ReadsDone, ReceiveApplied, GiveUpAfterRetries, Fail, MayFail, Finish,
              SameTask
<1>3. CASE Send(t) \/ Resend(t)
  BY <1>3 DEF Send, ReadsDone, Resend, SendFrom, CopyOf, SameTask
<1>4. CASE RetryAfterConflict(t)
  BY <1>4 DEF RetryAfterConflict, SameTask
<1> QED
  BY <1>1, <1>2, <1>3, <1>4 DEF Handle

LEMMA ExecuteMoves ==
    ASSUME HInv, NEW m \in wire, Execute(m)
    PROVE  /\ UNCHANGED <<pc, req, before>> /\ wire' = wire \ {m} /\ m.task \in Tasks
           /\ \A t \in Tasks : /\ local'[t].attempt = local[t].attempt
                               /\ local'[t].read = local[t].read
                               /\ local'[t].row = local[t].row
                               /\ local'[t].rows = local[t].rows
<1>1. /\ UNCHANGED <<pc, req, before>> /\ wire' = wire \ {m} /\ m.task \in Tasks
      /\ \E b \in {"applied", "rejected"} : Reply(m, b)
  BY DEF Execute, ExecuteSave, ExecuteDelete, HInv, TypeOK, Copy
<1> QED
  BY <1>1, ReplyType

\* What is over stays over.
LEMMA StepSettled ==
    ASSUME HInv, [Step]_vars
    PROVE  Begun /\ \A u \in Tasks : Settled(u) => Settled(u)'
<1>0. ASSUME NEW u \in Tasks, SameTask(u) PROVE Settled(u) => Settled(u)'
  BY <1>0 DEF SameTask, Settled
<1>1. ASSUME NEW t \in Tasks, NEW op \in Calls, NEW k \in Keys \cup {None},
             Begin(t, op, k) \/ Refuse(t, op, k)
      PROVE  Begun /\ \A u \in Tasks : Settled(u) => Settled(u)'
  <2>1. /\ pc[t] = "idle" /\ pc'[t] # "idle" /\ ~ Settled(t)
        /\ \A u \in Tasks \ {t} : SameTask(u)
    BY <1>1, ArrivalMoves DEF Settled
  <2> QED
    BY <1>0, <2>1 DEF Begun, SameTask
<1>2. ASSUME NEW t \in Tasks, Handle(t) \/ Resend(t)
      PROVE  Begun /\ \A u \in Tasks : Settled(u) => Settled(u)'
  <2>1. /\ UNCHANGED <<req, before>> /\ pc[t] # "idle" /\ pc'[t] # "idle" /\ ~ Settled(t)
        /\ \A u \in Tasks \ {t} : SameTask(u)
    BY <1>2, HandlerMoves DEF Settled, Active
  <2> QED
    BY <1>0, <2>1 DEF Begun, SameTask
<1>3. ASSUME NEW m \in wire, Execute(m)
      PROVE  Begun /\ \A u \in Tasks : Settled(u) => Settled(u)'
  BY <1>3, ExecuteMoves DEF Begun, Settled
<1>4. CASE UNCHANGED vars
  BY <1>4 DEF vars, Begun, Settled
<1> QED
  BY <1>1, <1>2, <1>3, <1>4 DEF Step

LEMMA OrderStays ==
    ASSUME HInv, OrderOK, Begun, HInv',
           \A u \in Tasks : Settled(u) => Settled(u)',
           \A t \in Tasks : \/ before'[t] = before[t] /\ (pc'[t] = "idle" => pc[t] = "idle")
                            \/ pc[t] = "idle" /\ pc'[t] # "idle" /\ before'[t] = {u \in Tasks : Settled(u)}
    PROVE  OrderOK'
<1> SUFFICES ASSUME NEW t \in Tasks
             PROVE  /\ pc'[t] = "idle" => before'[t] = {}
                    /\ \A u \in before'[t] : /\ Settled(u)'
                                             /\ before'[u] \subseteq before'[t]
                                             /\ t \notin before'[u]
  BY DEF OrderOK
<1>0. \A u \in Tasks : before[u] \subseteq Tasks
  BY DEF HInv, TypeOK
<1>1. CASE before'[t] = before[t] /\ (pc'[t] = "idle" => pc[t] = "idle")
  <2>1. ASSUME NEW u \in before[t]
        PROVE  Settled(u)' /\ before'[u] = before[u]
    BY <1>0 DEF OrderOK, Begun, Settled
  <2> QED
    BY <1>1, <2>1 DEF OrderOK
<1>2. CASE pc[t] = "idle" /\ pc'[t] # "idle" /\ before'[t] = {u \in Tasks : Settled(u)}
  <2>1. ASSUME NEW u \in Tasks, Settled(u)
        PROVE  Settled(u)' /\ before'[u] = before[u] /\ before[u] \subseteq before'[t] /\ t \notin before[u]
    <3>1. Settled(u)' /\ before'[u] = before[u]
      BY <2>1 DEF Begun, Settled
    <3>2. \A x \in before[u] : x \in Tasks /\ Settled(x) /\ x # t
      BY <1>0, <1>2 DEF OrderOK, Settled
    <3> QED
      BY <1>2, <3>1, <3>2
  <2> QED
    BY <1>2, <2>1
<1> QED
  BY <1>1, <1>2

-----------------------------------------------------------------------------
(* The quota, step by step. *)

LEMMA NoWriterIdle ==
    ASSUME HInv, RowsOK, NEW k \in Keys, data[k].writer # None
    PROVE  data[k].writer \in Tasks /\ pc[data[k].writer] # "idle"
<1>1. data[k].writer \in Tasks /\ IsSave(data[k].writer)
  BY DEF HInv, TypeOK, Row, RowsOK
<1> QED
  BY <1>1 DEF HInv, HandlersOK, IsSave

LEMMA RowsStay ==
    ASSUME HInv, RowsOK, Begun, data' = data
    PROVE  RowsOK'
BY NoWriterIdle DEF RowsOK, Begun, IsSave

\* A request begins, or is turned away.
LEMMA ArrivalQuota ==
    ASSUME QInv, SInv', NEW t \in Tasks, NEW op \in Calls, NEW k \in Keys \cup {None},
           Begin(t, op, k) \/ Refuse(t, op, k)
    PROVE  QInv'
<1>0. HInv /\ HInv' /\ OrderOK /\ RowsOK
  BY DEF QInv, SInv
<1>1. /\ data' = data /\ pc[t] = "idle" /\ pc'[t] # "idle"
      /\ before'[t] = {u \in Tasks : Settled(u)} /\ req'[t].op = op
      /\ \A u \in Tasks \ {t} : SameTask(u)
      /\ op = "put" => /\ wire' = wire
                       /\ \/ pc'[t] = "reading" /\ local'[t].read = {} /\ local'[t].attempt = 1
                          \/ pc'[t] = "done"
  BY <1>0, ArrivalMoves
<1>2. Begun /\ \A u \in Tasks : Settled(u) => Settled(u)'
  BY <1>0, StepSettled DEF Step
<1>3. OrderOK'
  BY <1>0, <1>1, <1>2, OrderStays DEF SameTask
<1>4. RowsOK'
  BY <1>0, <1>1, <1>2, RowsStay
<1>5. ASSUME NEW w \in Tasks \ {t}, req'[w].op = "put", Alone(w)' PROVE QuotaAt(w)'
  <2>1. req[w].op = "put" /\ pc[w] # "idle" /\ SameTask(w)
    BY <1>0, <1>1, <1>5 DEF SameTask, HInv, HandlersOK
  <2> QED
    BY <1>1, <1>2, <1>5, <2>1, AloneBefore, QuotaStays DEF QInv, QuotaOK
<1>6. ASSUME req'[t].op = "put" PROVE QuotaAt(t)'
  <2>1. wire' = wire /\ \A m \in wire : m.task # t
    BY <1>0, <1>1, <1>6 DEF HInv, WireOK
  <2>2. data'[req'[t].key].writer # t
    <3>1. req'[t].key \in Keys
      BY <1>0, <1>6 DEF HInv, HandlersOK, IsSave
    <3> QED
      BY <1>0, <1>1, <3>1, ConstantFacts, NoWriterIdle
  <2>3. Fresh(t)' \/ Settled(t)'
    BY <1>1, <1>6, <2>1 DEF Fresh, Settled
  <2>4. Fresh(t)' => local'[t].read = {}
    BY <1>1, <1>6 DEF Fresh
  <2> QED
    BY <2>1, <2>2, <2>3, <2>4 DEF QuotaAt
<1> QED
  BY <1>3, <1>4, <1>5, <1>6 DEF QInv, QuotaOK

\* A handler moves: it reads, sends a value that fits, waits or ends.
LEMMA HandlerQuotaAt ==
    ASSUME QInv, NEW t \in Tasks, Handle(t) \/ Resend(t), req[t].op = "put", QuotaAt(t)
    PROVE  QuotaAt(t)'
<1>0. HInv /\ pc \in [Tasks -> {"idle", "reading", "waiting", "done"}] /\ local \in [Tasks -> Local]
  BY DEF QInv, SInv, HInv, TypeOK
<1>1. /\ UNCHANGED <<data, req, before>> /\ Active(t)
  BY <1>0, HandlerMoves
<1>2. data'[req'[t].key].writer = t => Total(Only(data, before[t] \cup {t}))' <= MaxTotal
  BY <1>1 DEF QuotaAt, Only
<1>3. Fits(t)' <=> Fits(t)
  BY <1>1 DEF Fits
<1>4. ~ Settled(t) /\ pc[t] # "done"
  BY <1>1 DEF Settled, Active
<1>5. CASE ReadTotal(t) \/ ReadRow(t)
  <2>1. /\ UNCHANGED <<wire, pc>> /\ local'[t].attempt = local[t].attempt
        /\ \/ /\ local'[t].read = local[t].read \cup {"total"}
              /\ local'[t].rows = data /\ local'[t].row = local[t].row
           \/ /\ local'[t].read = local[t].read \cup {"row"}
              /\ local'[t].rows = local[t].rows /\ local'[t].row = data[req[t].key]
    <3>1. CASE ReadTotal(t)
      <4>1. /\ UNCHANGED <<wire, pc>>
            /\ local'[t] = [local[t] EXCEPT !.read = local[t].read \cup {"total"}, !.rows = data]
        BY <1>0, <3>1 DEF ReadTotal
      <4> QED
        BY <1>0, <4>1 DEF Local
    <3>2. CASE ReadRow(t)
      <4>1. /\ UNCHANGED <<wire, pc>>
            /\ local'[t] = [local[t] EXCEPT !.read = local[t].read \cup {"row"},
                                            !.row = data[req[t].key]]
        BY <1>0, <3>2 DEF ReadRow
      <4> QED
        BY <1>0, <4>1 DEF Local
    <3> QED
      BY <1>5, <3>1, <3>2
  <2>2. (Fresh(t)' <=> Fresh(t)) /\ ~ Settled(t)'
    BY <1>4, <2>1 DEF Fresh, Settled
  <2> QED
    BY <1>1, <1>2, <1>3, <1>4, <2>1, <2>2 DEF QuotaAt
<1>6. CASE Send(t) \/ Resend(t) \/ RetryAfterConflict(t)
  <2>1. Fits(t)
    <3>1. CASE ~ Fresh(t)
      BY <1>4, <3>1 DEF QuotaAt
    <3>2. CASE Fresh(t)
      <4>1. ReadsDone(t) /\ ~ OverQuota(t)
        BY <1>6, <3>2 DEF Send, Resend, RetryAfterConflict, Fresh
      <4>2. local[t].rows = data /\ local[t].row = data[req[t].key]
        BY <3>2, <4>1 DEF ReadsDone, QuotaAt
      <4>3. ~ (Total(data) - RowSize(data[req[t].key]) + Size[t] > MaxTotal)
        BY <4>1, <4>2 DEF OverQuota
      <4>4. /\ Total(data) \in Nat /\ RowSize(data[req[t].key]) \in Nat /\ Size[t] \in Nat
            /\ MaxTotal \in Nat
        <5>1. data \in [Keys -> Row] /\ req[t].key \in Keys
          BY <1>0 DEF HInv, TypeOK, HandlersOK, IsSave
        <5> QED
          BY <5>1, RowSizeType, TotalType, TasksAssumption, BoundsAssumption
      <4> QED
        BY <4>3, <4>4 DEF Fits
    <3> QED
      BY <3>1, <3>2
  <2>2. ~ Fresh(t)'
    <3>1. CASE Send(t) \/ Resend(t)
      BY <1>0, <3>1 DEF Send, Resend, SendFrom, Fresh
    <3>2. CASE RetryAfterConflict(t)
      <4>1. local[t].attempt \in 1 .. MaxRetries
        BY <1>0, <1>1 DEF HInv, HandlersOK
      <4>2. local'[t].attempt = local[t].attempt + 1
        BY <1>0, <3>2, LoopFields DEF RetryAfterConflict
      <4> QED
        BY <4>1, <4>2, ConstantFacts DEF Fresh
    <3> QED
      BY <1>6, <3>1, <3>2
  <2> QED
    BY <1>2, <1>3, <2>1, <2>2 DEF QuotaAt
<1>7. CASE RefuseForQuota(t) \/ ReceiveApplied(t) \/ GiveUpAfterRetries(t) \/ Fail(t)
  <2>1. wire' = wire /\ pc'[t] = "done"
    BY <1>0, <1>7 DEF RefuseForQuota, ReceiveApplied, GiveUpAfterRetries, Fail, Finish
  <2>2. ~ Fresh(t)' /\ (Fresh(t) => Settled(t)')
    BY <2>1 DEF Fresh, Settled, QuotaAt
  <2> QED
    BY <1>2, <1>3, <1>4, <2>2 DEF QuotaAt
<1> QED
  BY <1>5, <1>6, <1>7 DEF Handle

LEMMA HandlerQuota ==
    ASSUME QInv, SInv', NEW t \in Tasks, Handle(t) \/ Resend(t)
    PROVE  QInv'
<1>0. HInv /\ HInv' /\ OrderOK /\ RowsOK
  BY DEF QInv, SInv
<1>1. /\ UNCHANGED <<data, req, before>> /\ Active(t) /\ pc'[t] # "idle"
      /\ \A u \in Tasks \ {t} : SameTask(u)
  BY <1>0, HandlerMoves
<1>2. Begun /\ \A u \in Tasks : Settled(u) => Settled(u)'
  BY <1>0, StepSettled DEF Step
<1>3. OrderOK'
  BY <1>0, <1>1, <1>2, OrderStays DEF SameTask
<1>4. RowsOK'
  BY <1>0, <1>1, <1>2, RowsStay
<1>5. ASSUME NEW w \in Tasks, req'[w].op = "put", Alone(w)' PROVE QuotaAt(w)'
  <2>1. req[w].op = "put" /\ pc[w] # "idle"
    BY <1>0, <1>1, <1>5 DEF HInv, HandlersOK
  <2>2. QuotaAt(w)
    BY <1>2, <1>5, <2>1, AloneBefore DEF QInv, QuotaOK
  <2> QED
    BY <1>1, <2>1, <2>2, QuotaStays, HandlerQuotaAt
<1> QED
  BY <1>3, <1>4, <1>5 DEF QInv, QuotaOK

\* What an executed copy does to the rows.
LEMMA ExecutedRows ==
    ASSUME HInv, NEW m \in wire, Execute(m)
    PROVE  /\ IsSave(m.task) =>
                  \/ data' = data
                  \/ /\ req[m.task].key \in Keys
                     /\ data'[req[m.task].key].writer = m.task
                     /\ \A k \in Keys \ {req[m.task].key} : data'[k] = data[k]
           /\ ~ IsSave(m.task) => \A k \in Keys : data'[k] = data[k] \/ data'[k] = NoRow
<1>0. data \in [Keys -> Row]
  BY DEF HInv, TypeOK
<1>1. CASE ExecuteSave(m) /\ Applies(m)
  <2> DEFINE k == req[m.task].key
             new == [version |-> m.expect + 1, writer |-> m.task]
  <2>1. data' = [data EXCEPT ![k] = new] /\ IsSave(m.task)
    BY <1>1 DEF ExecuteSave, Store
  <2>2. k \in Keys /\ new.writer = m.task
    BY <1>1 DEF ExecuteSave, HInv, HandlersOK, TypeOK, Copy
  <2> HIDE DEF k, new
  <2>3. data'[k] = new /\ \A j \in Keys \ {k} : data'[j] = data[j]
    BY <1>0, <2>1, <2>2
  <2> QED
    BY <2>1, <2>2, <2>3 DEF k
<1>2. CASE ExecuteSave(m) /\ ~ Applies(m)
  BY <1>2 DEF ExecuteSave, Store
<1>3. CASE ExecuteDelete(m)
  BY <1>3 DEF ExecuteDelete, Store
<1> QED
  BY <1>1, <1>2, <1>3 DEF Execute

\* A copy of w, which runs alone and whose value fits, is executed.
LEMMA OwnCopyQuota ==
    ASSUME HInv, HInv', RowsOK, NEW m \in wire, Execute(m), NEW w \in Tasks, w = m.task,
           req[w].op = "put", QuotaAt(w)
    PROVE  QuotaAt(w)'
<1> DEFINE k == req[w].key
<1>1. /\ UNCHANGED <<pc, req, before>> /\ local'[w].attempt = local[w].attempt
  BY ExecuteMoves
<1>2. ~ Fresh(w) /\ ~ Settled(w) /\ Fits(w)
  BY DEF QuotaAt, Settled
<1>3. ~ Fresh(w)'
  BY <1>1, <1>2 DEF Fresh
<1>4. /\ k \in Keys /\ data \in [Keys -> Row] /\ data' \in [Keys -> Row]
      /\ Size[w] \in Nat /\ MaxTotal \in Nat /\ Total(data) \in Nat /\ Total(data') \in Nat
      /\ RowSize(data[k]) \in Nat /\ RowSize(data'[k]) \in Nat
  <2>1. k \in Keys /\ data \in [Keys -> Row] /\ data' \in [Keys -> Row]
    BY DEF HInv, TypeOK, HandlersOK, IsSave
  <2> HIDE DEF k
  <2> QED
    BY <2>1, RowSizeType, TotalType, TasksAssumption, BoundsAssumption
<1>5. CASE data' = data
  <2>1. Fits(w)'
    BY <1>1, <1>2, <1>5 DEF Fits
  <2>2. Only(data, before[w] \cup {w})' = Only(data, before[w] \cup {w})
    BY <1>1, <1>5 DEF Only
  <2> QED
    BY <1>1, <1>3, <1>5, <2>1, <2>2 DEF QuotaAt
<1>6. CASE /\ data'[k].writer = w
           /\ \A j \in Keys \ {k} : data'[j] = data[j]
  <2>1. RowSize(data'[k]) = Size[w]
    BY <1>6, ConstantFacts DEF RowSize
  <2>2. Total(data') = Total(data) - RowSize(data[k]) + RowSize(data'[k])
    BY <1>4, <1>6, TotalReplace
  <2>3. Total(data') <= MaxTotal
    BY <1>2, <1>4, <2>1, <2>2 DEF Fits
  <2>4. Fits(w)'
    BY <1>1, <1>4, <2>1, <2>3 DEF Fits
  <2>5. Total(Only(data, before[w] \cup {w}))' <= MaxTotal
    <3>1. /\ Total(Only(data', before'[w] \cup {w})) <= Total(data')
          /\ Total(Only(data', before'[w] \cup {w})) \in Nat
      BY <1>4, OnlyType
    <3> QED
      BY <1>4, <2>3, <3>1
  <2> QED
    BY <1>3, <2>4, <2>5 DEF QuotaAt
<1> QED
  BY <1>5, <1>6, ExecutedRows DEF IsSave

\* A copy of another request is executed only when w is over.
LEMMA OtherCopyQuota ==
    ASSUME HInv, HInv', OrderOK, RowsOK, NEW m \in wire, Execute(m), NEW w \in Tasks, w # m.task,
           req[w].op = "put", Alone(w), QuotaAt(w)
    PROVE  QuotaAt(w)'
<1> DEFINE W == before[w] \cup {w}
           k == req[w].key
<1>1. Settled(w) /\ m.task \notin W
  BY OthersSettled
<1>2. UNCHANGED <<pc, req, before>> /\ wire' = wire \ {m}
  BY ExecuteMoves
<1>3. Settled(w)' /\ ~ Fresh(w)'
  BY <1>1, <1>2 DEF Settled, Fresh
<1>4. data \in [Keys -> Row] /\ data' \in [Keys -> Row] /\ k \in Keys /\ NoRow.writer = None
  BY DEF HInv, TypeOK, HandlersOK, IsSave, NoRow
<1>5. \A j \in Keys : data'[j] = data[j] \/ data'[j] = NoRow \/ data'[j].writer = m.task
  BY ExecutedRows
<1> HIDE DEF W, k
<1>6. \A j \in Keys : RowSize(Only(data', W)[j]) <= RowSize(Only(data, W)[j])
  <2>1. RowSize(NoRow) = 0
    BY DEF RowSize, NoRow
  <2>2. \A j \in Keys : RowSize(Only(data, W)[j]) \in Nat
    BY <1>4, OnlyType, RowSizeType
  <2>3. ASSUME NEW j \in Keys
        PROVE  Only(data', W)[j] = NoRow \/ Only(data', W)[j] = Only(data, W)[j]
    BY <1>1, <1>5 DEF Only
  <2> QED
    BY <2>1, <2>2, <2>3
<1>7. /\ Total(Only(data', W)) <= Total(Only(data, W))
      /\ Total(Only(data', W)) \in Nat /\ Total(Only(data, W)) \in Nat /\ MaxTotal \in Nat
  BY <1>4, <1>6, OnlyType, TotalMonotone, BoundsAssumption
<1>8. data'[k].writer = w => data[k].writer = w
  BY <1>1, <1>4, <1>5, ConstantFacts DEF W
<1>9. data'[k].writer = w => Total(Only(data', W)) <= MaxTotal
  BY <1>7, <1>8 DEF QuotaAt, W, k
<1> QED
  BY <1>2, <1>3, <1>9 DEF QuotaAt, W, k

LEMMA ExecuteQuota ==
    ASSUME QInv, SInv', NEW m \in wire, Execute(m)
    PROVE  QInv'
<1>0. HInv /\ HInv' /\ OrderOK /\ RowsOK
  BY DEF QInv, SInv
<1>1. UNCHANGED <<pc, req, before>> /\ m.task \in Tasks
  BY <1>0, ExecuteMoves
<1>2. Begun /\ \A u \in Tasks : Settled(u) => Settled(u)'
  BY <1>0, StepSettled DEF Step
<1>3. OrderOK'
  BY <1>0, <1>1, <1>2, OrderStays
<1>4. RowsOK'
  <2>0. ASSUME NEW k \in Keys, data'[k].writer # None
        PROVE  LET u == data'[k].writer IN req[u].op \in {"put", "save"} /\ req[u].key = k
    <3>1. CASE data'[k] = data[k]
      BY <1>0, <2>0, <3>1 DEF RowsOK, IsSave
    <3>2. CASE data'[k] # data[k] /\ IsSave(m.task)
      <4>1. k = req[m.task].key /\ data'[k].writer = m.task
        BY <1>0, <3>2, ExecutedRows
      <4> QED
        BY <3>2, <4>1 DEF IsSave
    <3>3. CASE data'[k] # data[k] /\ ~ IsSave(m.task)
      BY <1>0, <2>0, <3>3, ExecutedRows DEF NoRow
    <3> QED
      BY <3>1, <3>2, <3>3
  <2> QED
    BY <1>1, <2>0 DEF RowsOK, IsSave
<1>5. ASSUME NEW w \in Tasks, req'[w].op = "put", Alone(w)' PROVE QuotaAt(w)'
  <2>1. req[w].op = "put" /\ pc[w] # "idle"
    BY <1>0, <1>1, <1>5 DEF HInv, HandlersOK
  <2>2. Alone(w) /\ QuotaAt(w)
    BY <1>2, <1>5, <2>1, AloneBefore DEF QInv, QuotaOK
  <2>3. CASE w = m.task
    BY <1>0, <2>1, <2>2, <2>3, OwnCopyQuota
  <2>4. CASE w # m.task
    BY <1>0, <2>1, <2>2, <2>4, OtherCopyQuota
  <2> QED
    BY <2>3, <2>4
<1> QED
  BY <1>3, <1>4, <1>5 DEF QInv, QuotaOK

LEMMA StepQInv == QInv /\ [Step]_vars => QInv'
<1> SUFFICES ASSUME QInv, [Step]_vars PROVE QInv'
  OBVIOUS
<1>0. SInv'
  BY StepSInv DEF QInv
<1>1. CASE UNCHANGED vars
  <2>1. OrderOK' /\ RowsOK'
    BY <1>1 DEF vars, QInv, OrderOK, RowsOK, Settled, IsSave
  <2>2. \A w \in Tasks : SameTask(w) /\ (Alone(w)' <=> Alone(w))
    BY <1>1 DEF vars, SameTask, Alone, Overlap
  <2>3. data' = data /\ req' = req
    BY <1>1 DEF vars
  <2>4. QuotaOK'
    BY <2>2, <2>3, QuotaStays DEF QInv, QuotaOK
  <2> QED
    BY <1>0, <2>1, <2>4 DEF QInv
<1> QED
  BY <1>0, <1>1, ArrivalQuota, HandlerQuota, ExecuteQuota DEF Step

LEMMA InitQInv == Init => QInv
<1> SUFFICES ASSUME Init PROVE QInv
  OBVIOUS
<1>1. SInv
  BY InitSInv
<1>2. OrderOK
  BY DEF Init, OrderOK
<1>3. RowsOK
  BY DEF Init, RowsOK, NoRows, NoRow
<1>4. QuotaOK
  BY DEF Init, QuotaOK, NoRequest
<1> QED
  BY <1>1, <1>2, <1>3, <1>4 DEF QInv

-----------------------------------------------------------------------------
\* Of the writers of the rows, when each ran alone, one was the last: the others
\* were over when it began.
LEMMA LastWriter ==
    ASSUME HInv, OrderOK, RowsOK,
           NEW some \in Keys, data[some].writer # None,
           \A k \in Keys : data[k].writer # None => Alone(data[k].writer)
    PROVE  \E k \in Keys :
               /\ data[k].writer # None
               /\ \A j \in Keys : data[j].writer \in before[data[k].writer] \cup {data[k].writer, None}
<1> DEFINE Written == {k \in Keys : data[k].writer # None}
           w(k) == data[k].writer
           Later(k) == {j \in Written : w(j) \notin before[w(k)] \cup {w(k)}}
           Laters == {Later(k) : k \in Written}
<1>1. Laters \in SUBSET (SUBSET Keys) /\ Laters # {}
  OBVIOUS
<1>2. PICK ks \in Laters : \A js \in Laters : js \subseteq ks => js = ks
  BY <1>1, SmallestKeys, Zenon
<1>3. PICK k \in Written : ks = Later(k)
  BY <1>2
<1>4. ASSUME NEW j \in Later(k) PROVE FALSE
  <2>1. /\ j \in Written /\ w(j) # w(k) /\ w(j) \notin before[w(k)]
        /\ w(j) \in Tasks /\ w(k) \in Tasks /\ pc[w(j)] # "idle"
    BY <1>4, NoWriterIdle
  <2>2. w(k) \in before[w(j)]
    BY <2>1 DEF Alone, Overlap
  <2>3. before[w(k)] \subseteq before[w(j)]
    BY <2>1, <2>2 DEF OrderOK
  <2>4. Later(j) \subseteq Later(k) /\ Later(j) # Later(k)
    BY <2>1, <2>2, <2>3
  <2>5. Later(j) \in Laters
    BY <2>1
  <2> HIDE DEF Later, Laters
  <2> QED
    BY <1>2, <1>3, <2>4, <2>5
<1> QED
  BY <1>4

\* Clients that wait for each answer stay within their limit, for any number of
\* keys and requests and any sizes: only a request that wrote a row and overlapped
\* another, or a save without the quota check, takes a user over MaxTotal.
THEOREM OverLimitNeedsOverlap == Spec => []OverLimitOnlyByOverlap
<1>1. QInv => OverLimitOnlyByOverlap
  <2> SUFFICES ASSUME QInv,
                      \A k \in Keys :
                          data[k].writer # None =>
                              req[data[k].writer].op # "save" /\ Alone(data[k].writer)
               PROVE  ~ (Total(data) > MaxTotal)
    BY DEF OverLimitOnlyByOverlap, Alone
  <2>0. /\ HInv /\ OrderOK /\ RowsOK /\ QuotaOK
        /\ data \in [Keys -> Row] /\ Total(data) \in Nat /\ MaxTotal \in Nat
    BY TotalType, BoundsAssumption DEF QInv, SInv, HInv, TypeOK
  <2>1. CASE \A k \in Keys : data[k].writer = None
    <3>1. Total(data) = 0
      BY <2>0, <2>1, TotalEmpty DEF RowSize
    <3> QED
      BY <2>0, <3>1
  <2>2. CASE \E k \in Keys : data[k].writer # None
    <3>1. PICK k \in Keys :
             /\ data[k].writer # None
             /\ \A j \in Keys : data[j].writer \in before[data[k].writer] \cup {data[k].writer, None}
      BY <2>0, <2>2, LastWriter
    <3> DEFINE w == data[k].writer
               W == before[w] \cup {w}
    <3>2. w \in Tasks /\ req[w].op = "put" /\ req[w].key = k /\ Alone(w)
      BY <2>0, <3>1, NoWriterIdle DEF RowsOK, IsSave
    <3>3. Total(Only(data, W)) <= MaxTotal
      BY <2>0, <3>2 DEF QuotaOK, QuotaAt
    <3>4. \A j \in Keys : data[j].writer \in W \cup {None}
      BY <3>1
    <3> HIDE DEF W
    <3>5. Total(data) <= Total(Only(data, W)) /\ Total(Only(data, W)) \in Nat
      BY <2>0, <3>4, OnlyAll, OnlyType
    <3> QED
      BY <2>0, <3>3, <3>5
  <2> QED
    BY <2>1, <2>2
<1> QED
  BY <1>1, InitQInv, NextIsStep, StepQInv, PTL DEF Spec

=============================================================================
