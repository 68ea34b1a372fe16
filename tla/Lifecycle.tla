------------------------------ MODULE Lifecycle ------------------------------
(***************************************************************************)
(* The life of one server process (src/main.rs): it serves, a monitor      *)
(* checks the database and asks for a shutdown after three failures in a   *)
(* row, a signal asks for one as well, and a server that was asked drains  *)
(* the requests in flight and stops. The requests are those that use the   *)
(* state a process keeps itself, the counts of users that GET /metrics     *)
(* caches (src/routes/metrics.rs): a request takes the time, reads the     *)
(* cache, and if the counts are old refreshes them under a lock that it    *)
(* only tries. The wall clock may be set back, the database may fail, and  *)
(* a client may hang up, upon which its handler is dropped.                *)
(* Counts are the edition of the table they were read from; edition 0 is   *)
(* the zeros a process starts with.                                        *)
(***************************************************************************)
EXTENDS Integers, Sequences

CONSTANTS
    MaxRequests,   \* bound on the requests for the metrics
    TTL,           \* CACHE_TTL_SECS
    MaxFailures,   \* MAX_CONSECUTIVE_FAILURES
    MaxClock,      \* bound on the wall clock
    MaxEdition     \* bound on the changes of the table users

ASSUME LifecycleAssumption ==
    /\ MaxRequests \in Nat
    /\ TTL \in Nat \ {0} /\ MaxFailures \in Nat \ {0}
    /\ MaxClock \in Nat /\ MaxEdition \in Nat

\* The requests, in the order in which they arrive, and nobody.
Requests == 1 .. MaxRequests

NoRequest == 0

VARIABLES
    phase,     \* of the process
    db,        \* whether the database answers
    clock,     \* the wall clock
    edition,   \* the current edition of the table users
    monitor,   \* [running, failures]: the health monitor, and its count
    checks,    \* history: the outcomes of the checks, as far back as matters
    cache,     \* [counts, fetched]: CACHED_COUNTS
    lock,      \* the request that holds REFRESH_LOCK
    req,       \* the requests
    floor      \* history: the newest counts answered before each request arrived

vars == <<phase, db, clock, edition, monitor, checks, cache, lock, req, floor>>

server == <<phase, db, clock, edition, monitor, checks>>

\* now: the time taken on arrival; seen: the counts first read from the cache,
\* those queried from the database, and in the end those answered.
Request == [pc : {"idle", "read", "lock", "recheck", "query", "store", "answered", "gone"},
            now : Nat, seen : Nat]

Init ==
    /\ phase = "serving"
    /\ db = "up"
    /\ clock = TTL
    /\ edition = 1
    /\ monitor = [running |-> "yes", failures |-> 0]
    /\ checks = <<>>
    /\ cache = [counts |-> 0, fetched |-> 0]
    /\ lock = NoRequest
    /\ req = [q \in Requests |-> [pc |-> "idle", now |-> 0, seen |-> 0]]
    /\ floor = [q \in Requests |-> 0]

-----------------------------------------------------------------------------
(* The environment. *)

Tick ==
    /\ \E step \in {1, -1} : clock + step \in 0 .. MaxClock /\ clock' = clock + step
    /\ UNCHANGED <<phase, db, edition, monitor, checks, cache, lock, req, floor>>

ChangeUsers ==
    /\ edition < MaxEdition
    /\ edition' = edition + 1
    /\ UNCHANGED <<phase, db, clock, monitor, checks, cache, lock, req, floor>>

GoDown ==
    /\ db = "up"
    /\ db' = "down"
    /\ UNCHANGED <<phase, clock, edition, monitor, checks, cache, lock, req, floor>>

ComeUp ==
    /\ db = "down"
    /\ db' = "up"
    /\ UNCHANGED <<phase, clock, edition, monitor, checks, cache, lock, req, floor>>

-----------------------------------------------------------------------------
(* The health monitor. It runs on while the server drains. *)

\* Fault: a check that succeeds leaves the count alone.
AfterSuccess_Kept(n) == n

AfterSuccess(n) == 0

\* Fault: every failure counts as the first.
AfterFailure_First(n) == 1

AfterFailure(n) == n + 1

\* The outcome of a check, after those that may still matter.
Outcome(ok) ==
    LET all == Append(checks, ok)
    IN  checks' = IF Len(all) > MaxFailures THEN Tail(all) ELSE all

CheckSucceeds ==
    /\ monitor.running = "yes" /\ phase # "stopped"
    /\ db = "up"
    /\ monitor' = [monitor EXCEPT !.failures = AfterSuccess(monitor.failures)]
    /\ Outcome("ok")
    /\ UNCHANGED <<phase, db, clock, edition, cache, lock, req, floor>>

\* The monitor that has asked for the shutdown ends.
CheckFails ==
    /\ monitor.running = "yes" /\ phase # "stopped"
    /\ db = "down"
    /\ LET n == AfterFailure(monitor.failures)
       IN  monitor' = [running |-> IF n >= MaxFailures THEN "no" ELSE "yes", failures |-> n]
    /\ Outcome("failed")
    /\ UNCHANGED <<phase, db, clock, edition, cache, lock, req, floor>>

-----------------------------------------------------------------------------
(* Shutdown. *)

Drain ==
    /\ phase' = "draining"
    /\ UNCHANGED <<db, clock, edition, monitor, checks, cache, lock, req, floor>>

\* Ctrl-C or SIGTERM, and the message of the monitor.
Signal == phase = "serving" /\ Drain

MonitorAsks == phase = "serving" /\ monitor.running = "no" /\ Drain

InFlight(q) == req[q].pc \notin {"idle", "answered", "gone"}

Stop ==
    /\ phase = "draining"
    /\ \A q \in Requests : ~ InFlight(q)
    /\ phase' = "stopped"
    /\ UNCHANGED <<db, clock, edition, monitor, checks, cache, lock, req, floor>>

-----------------------------------------------------------------------------
(* GET /metrics. *)

Answered == {req[p].seen : p \in {p \in Requests : req[p].pc = "answered"}}

\* A request without the token is answered here and never gets to the cache.
Arrive(q) ==
    /\ phase = "serving"
    /\ req[q].pc = "idle" /\ \A p \in 1 .. q - 1 : req[p].pc # "idle"
    /\ req' = [req EXCEPT ![q] = [pc |-> "read", now |-> clock, seen |-> 0]]
    /\ \E newest \in Answered \cup {0} :
           (\A n \in Answered : n <= newest) /\ floor' = [floor EXCEPT ![q] = newest]
    /\ UNCHANGED <<server, cache, lock>>

Goto(q, place, counts) ==
    req' = [req EXCEPT ![q] = [pc |-> place, now |-> req[q].now, seen |-> counts]]

Reply(q, counts) == req' = [req EXCEPT ![q] = [pc |-> "answered", now |-> 0, seen |-> counts]]

\* now.saturating_sub(fetched_at) < CACHE_TTL_SECS
Fresh(q) == req[q].now - cache.fetched < TTL

Read(q) ==
    /\ req[q].pc = "read"
    /\ IF Fresh(q) THEN Reply(q, cache.counts) ELSE Goto(q, "lock", cache.counts)
    /\ UNCHANGED <<server, cache, lock, floor>>

\* Fault: the lock is no lock.
Free_Always == TRUE

Free == lock = NoRequest

\* Another request is refreshing: answer with the counts read.
AnswerOld(q) ==
    /\ req[q].pc = "lock"
    /\ ~ Free
    /\ Reply(q, req[q].seen)
    /\ UNCHANGED <<server, cache, lock, floor>>

TryLock(q) ==
    /\ req[q].pc = "lock"
    /\ Free
    /\ lock' = q
    /\ Goto(q, "recheck", req[q].seen)
    /\ UNCHANGED <<server, cache, floor>>

Release(q) == lock' = IF lock = q THEN NoRequest ELSE lock

\* Fault: once it has the lock, a request refreshes.
RefreshedMeanwhile_Never(q) == FALSE

RefreshedMeanwhile(q) == Fresh(q)

AnswerRefreshed(q) ==
    /\ req[q].pc = "recheck"
    /\ RefreshedMeanwhile(q)
    /\ Reply(q, cache.counts)
    /\ Release(q)
    /\ UNCHANGED <<server, cache, floor>>

MustRefresh(q) ==
    /\ req[q].pc = "recheck"
    /\ ~ RefreshedMeanwhile(q)
    /\ Goto(q, "query", req[q].seen)
    /\ UNCHANGED <<server, cache, lock, floor>>

\* The four counts, joined.
Query(q) ==
    /\ req[q].pc = "query"
    /\ db = "up"
    /\ Goto(q, "store", edition)
    /\ UNCHANGED <<server, cache, lock, floor>>

\* Fault: the driver waits for an answer without end.
TimesOut_Never == FALSE

TimesOut == db = "down"

\* The query failed: answer with the counts read before the lock was taken.
QueryFails(q) ==
    /\ req[q].pc = "query"
    /\ TimesOut
    /\ Reply(q, req[q].seen)
    /\ Release(q)
    /\ UNCHANGED <<server, cache, floor>>

Store(q) ==
    /\ req[q].pc = "store"
    /\ cache' = [counts |-> req[q].seen, fetched |-> req[q].now]
    /\ Reply(q, req[q].seen)
    /\ Release(q)
    /\ UNCHANGED <<server, floor>>

\* The client hangs up: its handler is dropped, and with it the guard of the lock.
HangUp(q) ==
    /\ InFlight(q)
    /\ req' = [req EXCEPT ![q] = [pc |-> "gone", now |-> 0, seen |-> 0]]
    /\ Release(q)
    /\ UNCHANGED <<server, cache, floor>>

-----------------------------------------------------------------------------
Monitor == CheckSucceeds \/ CheckFails

Handle(q) ==
    \/ Read(q) \/ AnswerOld(q) \/ TryLock(q) \/ AnswerRefreshed(q) \/ MustRefresh(q)
    \/ Query(q) \/ QueryFails(q) \/ Store(q)

Next ==
    \/ Tick \/ ChangeUsers \/ GoDown \/ ComeUp
    \/ Monitor
    \/ Signal \/ MonitorAsks \/ Stop
    \/ \E q \in Requests : Arrive(q) \/ Handle(q) \/ HangUp(q)

Spec == Init /\ [][Next]_vars

\* The monitor checks again and again (tokio's timer), the server takes the
\* message, handlers run (every statement is answered or times out), and a drained
\* server stops. Nothing obliges a client to call or to hang up, a database to
\* fail or to recover, or anybody to send a signal.
FairSpec ==
    /\ Spec
    /\ WF_vars(Monitor) /\ WF_vars(MonitorAsks) /\ WF_vars(Stop)
    /\ \A q \in Requests : WF_vars(Handle(q))

-----------------------------------------------------------------------------
(* Correctness. *)

\* Every variable keeps its shape, and the lock has its holder: a request between
\* taking it and its answer, and nobody else is there.
LifecycleTypeOK ==
    /\ phase \in {"serving", "draining", "stopped"}
    /\ db \in {"up", "down"}
    /\ clock \in Nat /\ edition \in Nat
    /\ monitor \in [running : {"yes", "no"}, failures : 0 .. MaxFailures]
    /\ checks \in Seq({"ok", "failed"})
    /\ cache \in [counts : Nat, fetched : Nat]
    /\ lock \in Requests \cup {NoRequest}
    /\ req \in [Requests -> Request]
    /\ floor \in [Requests -> Nat]
    /\ \A q \in Requests : req[q].pc \in {"recheck", "query", "store"} <=> lock = q

\* The monitor asks for a shutdown only when its last MaxFailures checks all
\* failed: outages that come and go between checks never add up to one.
AsksOnlyAfterFailuresInARow ==
    monitor.running = "no" =>
        Len(checks) = MaxFailures /\ \A i \in 1 .. MaxFailures : checks[i] = "failed"

\* The counts are refreshed at most once in the lifetime of the cache, whichever
\* requests find them old at once, whatever time each of them took, and however
\* the clock was set: fetched_at moves on by TTL or more, and never back.
RefreshesAreApart ==
    [][cache' # cache => cache'.fetched >= cache.fetched + TTL]_vars

\* Metrics do not go back: a request that arrives after an answer was given is
\* answered with counts as new, though answers come from the cache, from copies of
\* it that are out of date, and from queries of different requests.
AnswersNeverGoBack ==
    \A q \in Requests : req[q].pc = "answered" => req[q].seen >= floor[q]

\* A database that stays away stops the server: the monitor notices, requests that
\* wait for the database fail in time, and the drain ends.
OutageStopsServer == (<>[](db = "down")) => <>(phase = "stopped")

\* A shutdown that was asked for happens, whatever the database does.
DrainEnds == (phase = "draining") ~> (phase = "stopped")

=============================================================================
