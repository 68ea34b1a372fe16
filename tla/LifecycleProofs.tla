--------------------------- MODULE LifecycleProofs ---------------------------
(***************************************************************************)
(* Proofs about Lifecycle, for any number of requests, any TTL and any     *)
(* number of failures the monitor waits for. MonitorOK says that the count *)
(* of the monitor is the number of failures at the end of the checks;      *)
(* CountsOK orders the counts: what a request is promised, what it has     *)
(* seen, the cache, the table; and RefreshOK says that only the holder of  *)
(* the lock is about to write the cache, with a time of its own.           *)
(***************************************************************************)
EXTENDS Lifecycle, TLAPS

MonitorOK ==
    /\ Len(checks) <= MaxFailures
    /\ monitor.failures <= Len(checks)
    /\ \A i \in 1 .. Len(checks) :
           i > Len(checks) - monitor.failures => checks[i] = "failed"
    /\ monitor.running = "yes" => monitor.failures < MaxFailures
    /\ monitor.running = "no" => monitor.failures = MaxFailures

CountsOK ==
    /\ cache.counts <= edition
    /\ \A q \in Requests :
           /\ floor[q] <= cache.counts
           /\ req[q].pc \in {"lock", "recheck", "query", "answered"} =>
                  req[q].seen >= floor[q] /\ req[q].seen <= cache.counts
           /\ req[q].pc = "store" => req[q].seen >= cache.counts /\ req[q].seen <= edition

RefreshOK ==
    \A q \in Requests :
        req[q].pc \in {"query", "store"} => req[q].now >= cache.fetched + TTL

LInv == LifecycleTypeOK /\ MonitorOK /\ CountsOK /\ RefreshOK

-----------------------------------------------------------------------------
LEMMA Numbers ==
    /\ TTL \in Nat /\ TTL >= 1 /\ MaxFailures \in Nat /\ MaxFailures >= 1
    /\ MaxRequests \in Nat /\ MaxClock \in Nat
    /\ NoRequest \notin Requests /\ Requests \subseteq Nat
BY LifecycleAssumption DEF Requests, NoRequest

LEMMA InitLInv == Init => LInv
<1> SUFFICES ASSUME Init PROVE LInv
  OBVIOUS
<1>1. LifecycleTypeOK
  BY Numbers DEF Init, LifecycleTypeOK, Request
<1>2. MonitorOK
  BY Numbers DEF Init, MonitorOK
<1>3. CountsOK /\ RefreshOK
  BY DEF Init, CountsOK, RefreshOK
<1> QED
  BY <1>1, <1>2, <1>3 DEF LInv

-----------------------------------------------------------------------------
(* The monitor. *)

\* A check is appended, and the oldest one forgotten when there are too many.
LEMMA OutcomeFacts ==
    ASSUME LInv, NEW ok \in {"ok", "failed"}, Outcome(ok)
    PROVE  /\ checks' \in Seq({"ok", "failed"})
           /\ Len(checks') <= MaxFailures
           /\ \A n \in Nat : n <= Len(checks) /\ n < MaxFailures => n + 1 <= Len(checks')
           /\ checks'[Len(checks')] = ok
           /\ \A n \in Nat :
                  /\ n <= Len(checks) /\ n < MaxFailures
                  /\ \A i \in 1 .. Len(checks) : i > Len(checks) - n => checks[i] = "failed"
                  => \A i \in 1 .. Len(checks') :
                         i > Len(checks') - (n + 1) /\ i # Len(checks') => checks'[i] = "failed"
<1> DEFINE all == Append(checks, ok)
<1>1. checks \in Seq({"ok", "failed"}) /\ Len(checks) <= MaxFailures /\ Len(checks) \in Nat
  BY DEF LInv, LifecycleTypeOK, MonitorOK
<1>2. /\ all \in Seq({"ok", "failed"}) /\ Len(all) = Len(checks) + 1
      /\ \A i \in 1 .. Len(checks) : all[i] = checks[i]
      /\ all[Len(all)] = ok
  BY <1>1
<1>3. checks' = IF Len(all) > MaxFailures THEN Tail(all) ELSE all
  BY DEF Outcome
<1> HIDE DEF all
<1>4. CASE Len(all) > MaxFailures
  <2>1. /\ checks' = Tail(all) /\ Len(checks') = Len(checks) /\ Len(checks) = MaxFailures
        /\ checks' \in Seq({"ok", "failed"})
        /\ \A i \in 1 .. Len(checks') : checks'[i] = all[i + 1]
    BY <1>1, <1>2, <1>3, <1>4, Numbers
  <2> QED
    BY <1>1, <1>2, <2>1, Numbers
<1>5. CASE ~ Len(all) > MaxFailures
  BY <1>1, <1>2, <1>3, <1>5, Numbers
<1> QED
  BY <1>4, <1>5

LEMMA MonitorStep ==
    ASSUME LInv, Monitor
    PROVE  LInv'
<1>1. /\ UNCHANGED <<phase, db, clock, edition, cache, lock, req, floor>>
      /\ monitor \in [running : {"yes", "no"}, failures : 0 .. MaxFailures]
      /\ monitor.running = "yes"
  BY DEF Monitor, CheckSucceeds, CheckFails, LInv, LifecycleTypeOK
<1>2. /\ monitor.failures \in Nat /\ monitor.failures < MaxFailures
      /\ monitor.failures <= Len(checks)
      /\ \A i \in 1 .. Len(checks) :
             i > Len(checks) - monitor.failures => checks[i] = "failed"
  BY <1>1, Numbers DEF LInv, MonitorOK
<1>3. CASE CheckSucceeds
  <2>1. Outcome("ok") /\ monitor' = [running |-> "yes", failures |-> 0]
    BY <1>1, <1>3 DEF CheckSucceeds, AfterSuccess
  <2>2. checks' \in Seq({"ok", "failed"}) /\ Len(checks') <= MaxFailures
    BY <2>1, OutcomeFacts
  <2>3. MonitorOK'
    BY <2>1, <2>2, Numbers DEF MonitorOK
  <2>4. LifecycleTypeOK'
    BY <1>1, <2>1, <2>2, Numbers DEF LInv, LifecycleTypeOK
  <2> QED
    BY <1>1, <2>3, <2>4 DEF LInv, CountsOK, RefreshOK
<1>4. CASE CheckFails
  <2> DEFINE n == monitor.failures + 1
  <2>1. /\ Outcome("failed")
        /\ monitor' = [running |-> IF n >= MaxFailures THEN "no" ELSE "yes", failures |-> n]
    BY <1>4 DEF CheckFails, AfterFailure
  <2>2. /\ checks' \in Seq({"ok", "failed"}) /\ Len(checks') <= MaxFailures
        /\ n <= Len(checks')
        /\ checks'[Len(checks')] = "failed"
        /\ \A i \in 1 .. Len(checks') :
               i > Len(checks') - n /\ i # Len(checks') => checks'[i] = "failed"
    BY <1>2, <2>1, OutcomeFacts
  <2>3. n \in 0 .. MaxFailures /\ Len(checks') \in Nat
    BY <1>2, <2>2, Numbers
  <2> HIDE DEF n
  <2>4. MonitorOK'
    BY <2>1, <2>2, <2>3, Numbers DEF MonitorOK
  <2>5. LifecycleTypeOK'
    BY <1>1, <2>1, <2>2, <2>3 DEF LInv, LifecycleTypeOK
  <2> QED
    BY <1>1, <2>4, <2>5 DEF LInv, CountsOK, RefreshOK
<1> QED
  BY <1>3, <1>4 DEF Monitor

-----------------------------------------------------------------------------
(* The environment and the shutdown. *)

LEMMA OutsideStep ==
    ASSUME LInv, Tick \/ ChangeUsers \/ GoDown \/ ComeUp \/ Signal \/ MonitorAsks \/ Stop
    PROVE  LInv'
<1>1. UNCHANGED <<monitor, checks, cache, lock, req, floor>>
  BY DEF Tick, ChangeUsers, GoDown, ComeUp, Signal, MonitorAsks, Stop, Drain
<1>2. edition' \in Nat /\ edition' >= edition
  BY DEF Tick, ChangeUsers, GoDown, ComeUp, Signal, MonitorAsks, Stop, Drain,
         LInv, LifecycleTypeOK
<1>3. /\ phase' \in {"serving", "draining", "stopped"} /\ db' \in {"up", "down"}
      /\ clock' \in Nat
  BY Numbers DEF Tick, ChangeUsers, GoDown, ComeUp, Signal, MonitorAsks, Stop, Drain,
         LInv, LifecycleTypeOK
<1>4. LifecycleTypeOK'
  BY <1>1, <1>2, <1>3 DEF LInv, LifecycleTypeOK
<1>5. MonitorOK' /\ RefreshOK'
  BY <1>1 DEF LInv, MonitorOK, RefreshOK
<1>6. CountsOK'
  <2>1. edition \in Nat /\ cache.counts \in Nat /\ \A q \in Requests : req[q].seen \in Nat
    BY DEF LInv, LifecycleTypeOK, Request
  <2> QED
    BY <1>1, <1>2, <2>1 DEF LInv, CountsOK
<1> QED
  BY <1>4, <1>5, <1>6 DEF LInv

-----------------------------------------------------------------------------
(* The requests. *)

\* A step of one request that leaves the cache alone: the others stay as they are.
LEMMA RequestStep ==
    ASSUME LInv, NEW q \in Requests, NEW r \in Request, UNCHANGED <<server, cache>>,
           req' = [req EXCEPT ![q] = r],
           NEW n \in Nat, floor' = [floor EXCEPT ![q] = n], n <= cache.counts,
           lock' \in Requests \cup {NoRequest},
           \A p \in Requests \ {q} : lock' = p <=> lock = p,
           r.pc \in {"recheck", "query", "store"} <=> lock' = q,
           r.pc \in {"lock", "recheck", "query", "answered"} =>
               r.seen >= n /\ r.seen <= cache.counts,
           r.pc = "store" => r.seen >= cache.counts /\ r.seen <= edition,
           r.pc \in {"query", "store"} => r.now >= cache.fetched + TTL
    PROVE  LInv'
<1>1. req \in [Requests -> Request] /\ floor \in [Requests -> Nat]
  BY DEF LInv, LifecycleTypeOK
<1>2. /\ req' \in [Requests -> Request] /\ floor' \in [Requests -> Nat]
      /\ req'[q] = r /\ floor'[q] = n
      /\ \A p \in Requests \ {q} : req'[p] = req[p] /\ floor'[p] = floor[p]
  BY <1>1
<1>3. LifecycleTypeOK'
  BY <1>2 DEF LInv, LifecycleTypeOK, server
<1>4. MonitorOK'
  BY DEF LInv, MonitorOK, server
<1>5. CountsOK' /\ RefreshOK'
  BY <1>2 DEF LInv, CountsOK, RefreshOK, server
<1> QED
  BY <1>3, <1>4, <1>5 DEF LInv

LEMMA ArriveStep ==
    ASSUME LInv, NEW q \in Requests, Arrive(q)
    PROVE  LInv'
<1>1. PICK n \in Answered \cup {0} : floor' = [floor EXCEPT ![q] = n]
  BY DEF Arrive
<1>2. n \in Nat /\ n <= cache.counts
  <2>1. cache.counts \in Nat
    BY DEF LInv, LifecycleTypeOK
  <2>2. \A p \in Requests : req[p].seen \in Nat
    BY DEF LInv, LifecycleTypeOK, Request
  <2> QED
    BY <2>1, <2>2 DEF Answered, LInv, CountsOK
<1> DEFINE r == [pc |-> "read", now |-> clock, seen |-> 0]
<1>3. req' = [req EXCEPT ![q] = r] /\ UNCHANGED <<server, cache, lock>> /\ req[q].pc = "idle"
  BY DEF Arrive
<1>4. r \in Request /\ r.pc = "read"
  BY DEF LInv, LifecycleTypeOK, Request
<1>5. lock \in Requests \cup {NoRequest} /\ lock # q
  BY <1>3 DEF LInv, LifecycleTypeOK
<1> HIDE DEF r
<1> QED
  BY <1>1, <1>2, <1>3, <1>4, <1>5, RequestStep

\* What is known of a request under way.
LEMMA RequestFacts ==
    ASSUME LInv, NEW q \in Requests
    PROVE  /\ req[q] \in Request /\ req[q].now \in Nat /\ req[q].seen \in Nat
           /\ cache.counts \in Nat /\ cache.fetched \in Nat /\ edition \in Nat
           /\ floor[q] \in Nat /\ floor[q] <= cache.counts /\ cache.counts <= edition
           /\ floor = [floor EXCEPT ![q] = floor[q]]
           /\ lock \in Requests \cup {NoRequest}
           /\ req[q].pc \in {"recheck", "query", "store"} <=> lock = q
           /\ req[q].pc \in {"lock", "recheck", "query", "answered"} =>
                  req[q].seen >= floor[q] /\ req[q].seen <= cache.counts
           /\ req[q].pc = "store" => req[q].seen >= cache.counts /\ req[q].seen <= edition
           /\ req[q].pc \in {"query", "store"} => req[q].now >= cache.fetched + TTL
<1>1. /\ req \in [Requests -> Request] /\ floor \in [Requests -> Nat]
      /\ cache \in [counts : Nat, fetched : Nat] /\ edition \in Nat
      /\ lock \in Requests \cup {NoRequest}
      /\ req[q].pc \in {"recheck", "query", "store"} <=> lock = q
  BY DEF LInv, LifecycleTypeOK
<1>2. req[q] \in Request /\ req[q].now \in Nat /\ req[q].seen \in Nat
  BY <1>1 DEF Request
<1> QED
  BY <1>1, <1>2 DEF LInv, CountsOK, RefreshOK

LEMMA HandleStep ==
    ASSUME LInv, NEW q \in Requests, Handle(q) \/ HangUp(q), ~ Store(q)
    PROVE  LInv'
<1> USE RequestFacts, Numbers
<1>0. UNCHANGED <<server, cache, floor>>
  BY DEF Handle, Read, AnswerOld, TryLock, AnswerRefreshed, MustRefresh, Query, QueryFails, HangUp
<1>1. ASSUME NEW place \in {"lock", "recheck", "query", "store"}, NEW counts \in Nat,
             Goto(q, place, counts)
      PROVE  \E r \in Request : /\ req' = [req EXCEPT ![q] = r]
                                /\ r.pc = place /\ r.seen = counts /\ r.now = req[q].now
  <2> DEFINE r == [pc |-> place, now |-> req[q].now, seen |-> counts]
  <2>1. r \in Request
    BY DEF Request
  <2>2. req' = [req EXCEPT ![q] = r]
    BY <1>1 DEF Goto
  <2> QED
    BY <2>1, <2>2
<1>2. ASSUME NEW counts \in Nat, Reply(q, counts)
      PROVE  \E r \in Request : /\ req' = [req EXCEPT ![q] = r]
                                /\ r.pc = "answered" /\ r.seen = counts
  <2> DEFINE r == [pc |-> "answered", now |-> 0, seen |-> counts]
  <2>1. r \in Request
    BY DEF Request
  <2>2. req' = [req EXCEPT ![q] = r]
    BY <1>2 DEF Reply
  <2> QED
    BY <2>1, <2>2
<1>3. CASE Read(q)
  <2>1. req[q].pc = "read" /\ lock' = lock
    BY <1>3 DEF Read
  <2>2. PICK r \in Request : /\ req' = [req EXCEPT ![q] = r]
                             /\ r.pc \in {"answered", "lock"} /\ r.seen = cache.counts
    BY <1>1, <1>2, <1>3 DEF Read
  <2>3. /\ r.seen >= floor[q] /\ r.seen <= cache.counts
        /\ r.pc \notin {"recheck", "query", "store"} /\ lock # q
    BY <2>1, <2>2
  <2> QED
    BY <1>0, <2>1, <2>2, <2>3, RequestStep
<1>4. CASE AnswerOld(q)
  <2>1. req[q].pc = "lock" /\ lock' = lock
    BY <1>4 DEF AnswerOld
  <2>2. PICK r \in Request : /\ req' = [req EXCEPT ![q] = r]
                             /\ r.pc = "answered" /\ r.seen = req[q].seen
    BY <1>2, <1>4 DEF AnswerOld
  <2> QED
    BY <1>0, <2>1, <2>2, RequestStep
<1>5. CASE TryLock(q)
  <2>1. req[q].pc = "lock" /\ lock = NoRequest /\ lock' = q
    BY <1>5 DEF TryLock, Free
  <2>2. PICK r \in Request : /\ req' = [req EXCEPT ![q] = r]
                             /\ r.pc = "recheck" /\ r.seen = req[q].seen
    BY <1>1, <1>5 DEF TryLock
  <2> QED
    BY <1>0, <2>1, <2>2, RequestStep
<1>6. CASE AnswerRefreshed(q) \/ QueryFails(q)
  <2>1. req[q].pc \in {"recheck", "query"} /\ lock = q /\ lock' = NoRequest
    BY <1>6 DEF AnswerRefreshed, QueryFails, Release
  <2>2. PICK r \in Request : /\ req' = [req EXCEPT ![q] = r]
                             /\ r.pc = "answered" /\ r.seen \in {cache.counts, req[q].seen}
    BY <1>2, <1>6 DEF AnswerRefreshed, QueryFails
  <2>3. r.seen >= floor[q] /\ r.seen <= cache.counts
    BY <2>1, <2>2
  <2>4. /\ r.pc \notin {"recheck", "query", "store"}
        /\ lock' \in Requests \cup {NoRequest} /\ lock' # q
        /\ \A p \in Requests \ {q} : lock' = p <=> lock = p
    BY <2>1, <2>2 DEF NoRequest, Requests
  <2> QED
    BY <1>0, <2>2, <2>3, <2>4, RequestStep
<1>7. CASE MustRefresh(q)
  <2>1. req[q].pc = "recheck" /\ lock' = lock /\ req[q].now >= cache.fetched + TTL
    BY <1>7 DEF MustRefresh, RefreshedMeanwhile, Fresh
  <2>2. PICK r \in Request : /\ req' = [req EXCEPT ![q] = r]
                             /\ r.pc = "query" /\ r.seen = req[q].seen /\ r.now = req[q].now
    BY <1>1, <1>7 DEF MustRefresh
  <2> QED
    BY <1>0, <2>1, <2>2, RequestStep
<1>8. CASE Query(q)
  <2>1. req[q].pc = "query" /\ lock' = lock
    BY <1>8 DEF Query
  <2>2. PICK r \in Request : /\ req' = [req EXCEPT ![q] = r]
                             /\ r.pc = "store" /\ r.seen = edition /\ r.now = req[q].now
    BY <1>1, <1>8 DEF Query
  <2>3. /\ r.seen >= cache.counts /\ r.seen <= edition /\ r.now >= cache.fetched + TTL
        /\ lock = q
    BY <2>1, <2>2
  <2> QED
    BY <1>0, <2>1, <2>2, <2>3, RequestStep
<1>9. CASE HangUp(q)
  <2> DEFINE r == [pc |-> "gone", now |-> 0, seen |-> 0]
  <2>1. r \in Request /\ req' = [req EXCEPT ![q] = r] /\ r.pc = "gone"
    BY <1>9 DEF HangUp, Request
  <2>2. /\ lock' \in Requests \cup {NoRequest} /\ lock' # q
        /\ \A p \in Requests \ {q} : lock' = p <=> lock = p
    BY <1>9 DEF HangUp, Release
  <2> HIDE DEF r
  <2> QED
    BY <1>0, <2>1, <2>2, RequestStep
<1> QED
  BY <1>3, <1>4, <1>5, <1>6, <1>7, <1>8, <1>9 DEF Handle

\* The holder of the lock is the only one that has counts to store: the cache moves
\* on in counts and in time, and no other request is about to write it.
LEMMA StoreStep ==
    ASSUME LInv, NEW q \in Requests, Store(q)
    PROVE  LInv' /\ cache'.fetched >= cache.fetched + TTL
<1> USE RequestFacts, Numbers
<1> DEFINE r == [pc |-> "answered", now |-> 0, seen |-> req[q].seen]
<1>1. /\ req[q].pc = "store" /\ lock = q /\ lock' = NoRequest
      /\ cache' = [counts |-> req[q].seen, fetched |-> req[q].now]
      /\ req' = [req EXCEPT ![q] = r] /\ UNCHANGED <<server, floor>>
  BY DEF Store, Reply, Release
<1>2. req \in [Requests -> Request] /\ r \in Request
  BY DEF LInv, LifecycleTypeOK, Request
<1>3. /\ req' \in [Requests -> Request] /\ req'[q] = r
      /\ \A p \in Requests \ {q} : req'[p] = req[p]
  BY <1>1, <1>2
<1>4. /\ cache' \in [counts : Nat, fetched : Nat]
      /\ cache'.counts = req[q].seen /\ cache'.fetched = req[q].now
      /\ cache'.counts >= cache.counts /\ cache'.counts <= edition
      /\ cache'.fetched >= cache.fetched + TTL
  BY <1>1
<1>5. \A p \in Requests \ {q} : req[p].pc \notin {"recheck", "query", "store"}
  BY <1>1
<1>6. LifecycleTypeOK'
  BY <1>1, <1>3, <1>4, <1>5 DEF LInv, LifecycleTypeOK, server
<1>7. MonitorOK'
  BY <1>1 DEF LInv, MonitorOK, server
<1>8. ASSUME NEW p \in Requests
      PROVE  /\ floor'[p] <= cache'.counts
             /\ req'[p].pc \in {"lock", "recheck", "query", "answered"} =>
                    req'[p].seen >= floor'[p] /\ req'[p].seen <= cache'.counts
             /\ req'[p].pc = "store" => req'[p].seen >= cache'.counts /\ req'[p].seen <= edition'
             /\ req'[p].pc \notin {"query", "store"}
  BY <1>1, <1>3, <1>4, <1>5
<1>9. CountsOK' /\ RefreshOK'
  BY <1>1, <1>4, <1>8 DEF CountsOK, RefreshOK, server
<1> QED
  BY <1>4, <1>6, <1>7, <1>9 DEF LInv

LEMMA NextLInv == LInv /\ [Next]_vars => LInv'
<1> SUFFICES ASSUME LInv, [Next]_vars PROVE LInv'
  OBVIOUS
<1>1. ASSUME UNCHANGED vars PROVE LInv'
  BY <1>1 DEF vars, LInv, LifecycleTypeOK, MonitorOK, CountsOK, RefreshOK
<1>2. ASSUME NEW q \in Requests, Arrive(q) \/ Handle(q) \/ HangUp(q) PROVE LInv'
  BY <1>2, ArriveStep, HandleStep, StoreStep
<1> QED
  BY <1>1, <1>2, MonitorStep, OutsideStep DEF Next

LEMMA LInvAlways == Spec => []LInv
BY InitLInv, NextLInv, PTL DEF Spec

-----------------------------------------------------------------------------
\* Every variable keeps its shape, and exactly the holder of the lock is between
\* taking it and its answer, though handlers are dropped at any moment.
THEOREM LifecycleTypeCorrect == Spec => []LifecycleTypeOK
BY LInvAlways, PTL DEF LInv

\* The monitor asks for a shutdown only after MaxFailures failed checks in a row.
THEOREM ShutdownNeedsFailuresInARow == Spec => []AsksOnlyAfterFailuresInARow
<1>1. LInv => AsksOnlyAfterFailuresInARow
  <2> SUFFICES ASSUME LInv, monitor.running = "no"
               PROVE  /\ Len(checks) = MaxFailures
                      /\ \A i \in 1 .. MaxFailures : checks[i] = "failed"
    BY DEF AsksOnlyAfterFailuresInARow
  <2>1. monitor.failures = MaxFailures /\ Len(checks) \in Nat
    BY DEF LInv, MonitorOK, LifecycleTypeOK
  <2> QED
    BY <2>1, Numbers DEF LInv, MonitorOK
<1> QED
  BY <1>1, LInvAlways, PTL

\* Whatever requests race for a refresh, and however the clock is set, the cached
\* counts are replaced only after their TTL, by the time of the new ones.
THEOREM CacheLivesItsTTL == Spec => RefreshesAreApart
<1>1. LInv /\ [Next]_vars => [cache' # cache => cache'.fetched >= cache.fetched + TTL]_vars
  <2> SUFFICES ASSUME LInv, Next, cache' # cache
               PROVE  cache'.fetched >= cache.fetched + TTL
    BY DEF vars
  <2>1. PICK q \in Requests : Store(q)
    BY DEF Next, Tick, ChangeUsers, GoDown, ComeUp, Monitor, CheckSucceeds, CheckFails, Signal,
           MonitorAsks, Stop, Drain, Arrive, Handle, Read, AnswerOld, TryLock, AnswerRefreshed,
           MustRefresh, Query, QueryFails, HangUp
  <2> QED
    BY <2>1, StoreStep
<1> QED
  BY <1>1, LInvAlways, PTL DEF Spec, RefreshesAreApart

\* A request is answered with counts at least as new as any answered before it
\* arrived.
THEOREM AnswersAreMonotone == Spec => []AnswersNeverGoBack
<1>1. LInv => AnswersNeverGoBack
  BY DEF LInv, CountsOK, AnswersNeverGoBack
<1> QED
  BY <1>1, LInvAlways, PTL

=============================================================================
