----------------------------- MODULE AuthProofs -----------------------------
(***************************************************************************)
(* Proofs about Auth, for any number of replicas, logins, visits, tables   *)
(* and resends, any time to live and any bound on the clock. The invariant *)
(* says what a login holds where it stands (LoginOK, InsertsOK), what is   *)
(* known of a visit and of the cache entries (VisitOK, CacheOK), that a    *)
(* request that is settled stays so (inside VisitOK), and how far a        *)
(* deletion has come: what its executed statements removed is gone         *)
(* (PartsOK, GoneOK), and what it has still to evict (EvictOK).            *)
(***************************************************************************)
EXTENDS Auth, SequenceTheorems, TLAPS

\* The secret s was in the row at the n-th place of its history or later.
Since(n, s) == \E i \in 1 .. Len(past) : i >= n /\ past[i] = s

LoginOK(l) ==
    /\ login[l].pc \in {"idle", "exchanging", "asking"} =>
           login[l].copies = 0 /\ login[l].reply = {}
    /\ login[l].from <= Len(past)
    /\ login[l].pc = "inserting" /\ "applied" \in login[l].reply => Since(login[l].from, l)
    /\ login[l].pc = "revoking" \/ login[l].status = "granted" =>
           login[l].secret \in Logins /\ Since(login[l].from, login[l].secret)
    /\ login[l].token = "handed" => login[l].pc = "done"

InsertsOK ==
    \A m \in wire \cap Insert : login[m.login].pc \notin {"idle", "exchanging", "asking"}

HistoryOK ==
    /\ Len(past) >= 1 /\ past[Len(past)] = auth
    /\ \A s \in Logins : stored[s] <= clock
    /\ auth # None => stored[auth] = clock

\* A cache entry, or one that let a request in, for the secret s.
EntryOK(e, s) ==
    e # NoEntry =>
        /\ e.by \in Visits /\ visit[e.by].pc # "idle"
        /\ visit[e.by].began <= stored[s]

CacheOK == \A r \in Replicas, s \in Logins : EntryOK(cache[r][s], s)

VisitOK(v) ==
    /\ IF visit[v].pc = "idle" THEN visit[v] = NoVisit
       ELSE visit[v].at \in Replicas /\ visit[v].secret \in Logins /\ visit[v].began <= clock
    /\ visit[v].before.visits \subseteq SettledVisits
    /\ visit[v].before.logins \subseteq SettledLogins
    /\ visit[v].pc = "verified" => visit[v].began <= stored[visit[v].secret]
    /\ visit[v].status # "none" => visit[v].pc = "done"
    /\ Entered(v) =>
           /\ EntryOK(visit[v].entry, visit[v].secret)
           /\ visit[v].began < visit[v].entry.at + TTL

PartsOK ==
    \A m \in wire \cap Part :
        visit[m.visit].pc \in {"deleting", "done"} /\ visit[m.visit].status # "deleted"

Deletes(d) == visit[d].pc \in {"deleting", "evicting"} \/ visit[d].status = "deleted"

GoneOK(d) ==
    Deletes(d) =>
        /\ [visit |-> d, table |-> "auth"] \notin wire => auth \notin visit[d].before.logins
        /\ \A tb \in Tables : [visit |-> d, table |-> tb] \notin wire =>
               content[tb] \notin visit[d].before.visits

\* The entries a deletion is to evict.
Stale(d, s) ==
    /\ Live(cache[visit[d].at][s])
    /\ cache[visit[d].at][s].by \in visit[d].before.visits \cup {d}

EvictOK(d) ==
    /\ visit[d].pc = "evicting" => \A s \in Logins : Stale(d, s) => s \in visit[d].collected
    /\ visit[d].status = "deleted" => \A s \in Logins : ~ Stale(d, s)

AInv ==
    /\ AuthTypeOK /\ HistoryOK /\ InsertsOK /\ CacheOK /\ PartsOK /\ InvalidationHolds
    /\ \A l \in Logins : LoginOK(l)
    /\ \A v \in Visits : VisitOK(v) /\ GoneOK(v) /\ EvictOK(v)

-----------------------------------------------------------------------------
LEMMA Numbers ==
    /\ TTL \in Nat /\ TTL >= 1 /\ MaxResends \in Nat /\ MaxClock \in Nat /\ MaxClock >= 1
    /\ None \notin Logins /\ None \notin Visits /\ "auth" \notin Tables
BY AuthAssumption

LEMMA Disjoint ==
    /\ \A m \in Insert : m \notin Part
    /\ \A m \in Part : m \notin Insert
BY DEF Insert, Part

LEMMA Blank ==
    /\ NoLogin \in Login /\ NoVisit \in Visit /\ NoEntry \in Entry
    /\ NoLogin.pc = "idle" /\ NoLogin.copies = 0 /\ NoLogin.from = 0 /\ NoLogin.status = "none"
    /\ NoLogin.token = "none" /\ NoLogin.reply = {} /\ NoLogin.secret = None
    /\ NoVisit.pc = "idle" /\ NoVisit.status = "none" /\ NoVisit.entry = NoEntry
    /\ NoVisit.before.visits = {} /\ NoVisit.before.logins = {} /\ NoVisit.collected = {}
BY Numbers DEF NoLogin, Login, NoVisit, Visit, NoEntry, Entry

LEMMA Shapes ==
    ASSUME AInv
    PROVE  /\ \A l \in Logins : login[l] \in Login
           /\ \A v \in Visits : visit[v] \in Visit
           /\ \A r \in Replicas, s \in Logins : cache[r][s] \in Entry
           /\ clock \in Nat /\ clock \in 1 .. MaxClock
           /\ \A s \in Logins : stored[s] \in Nat /\ stored[s] <= clock
           /\ past \in Seq(Logins \cup {None}) /\ Len(past) \in Nat /\ Len(past) >= 1
           /\ past[Len(past)] = auth /\ auth \in Logins \cup {None}
BY Numbers DEF AInv, AuthTypeOK, HistoryOK

LEMMA InitAInv == Init => AInv
<1> SUFFICES ASSUME Init PROVE AInv
  OBVIOUS
<1>1. past = <<None>> /\ Len(past) = 1 /\ past[1] = None /\ auth = None /\ wire = {}
  BY DEF Init
<1>2. /\ \A l \in Logins : login[l] = NoLogin
      /\ \A v \in Visits : visit[v] = NoVisit
      /\ \A r \in Replicas, s \in Logins : cache[r][s] = NoEntry
  BY DEF Init
<1>3. AuthTypeOK
  <2>1. past \in Seq(Logins \cup {None})
    BY <1>1
  <2> QED
    BY <1>1, <2>1, Blank, Numbers DEF Init, AuthTypeOK
<1>4. HistoryOK
  BY <1>1 DEF Init, HistoryOK
<1>5. InsertsOK /\ PartsOK
  BY <1>1 DEF InsertsOK, PartsOK
<1>6. CacheOK /\ InvalidationHolds
  BY <1>2, Blank DEF CacheOK, EntryOK, InvalidationHolds
<1>7. ASSUME NEW l \in Logins PROVE LoginOK(l)
  BY <1>1, <1>2, Blank DEF LoginOK
<1>8. ASSUME NEW v \in Visits PROVE VisitOK(v) /\ GoneOK(v) /\ EvictOK(v)
  BY <1>2, Blank DEF VisitOK, Entered, GoneOK, Deletes, EvictOK
<1> QED
  BY <1>3, <1>4, <1>5, <1>6, <1>7, <1>8 DEF AInv

-----------------------------------------------------------------------------
(* The steps of logins. *)

\* What lets the login l go on to next.
LoginSound(l, next) ==
    /\ next.pc # "idle"
    /\ next.pc \in {"exchanging", "asking"} =>
           /\ next.copies = 0 /\ next.reply = {}
           /\ login[l].pc \in {"idle", "exchanging", "asking"}
    /\ next.from <= Len(past)
    /\ next.pc = "inserting" /\ "applied" \in next.reply => Since(next.from, l)
    /\ next.pc = "revoking" \/ next.status = "granted" =>
           next.secret \in Logins /\ Since(next.from, next.secret)
    /\ next.token = "handed" => next.pc = "done"

LEMMA LoginChange ==
    ASSUME AInv, NEW l \in Logins, NEW next \in Login,
           login[l].pc = "done" => next.pc = "done",
           LoginStep(l, next), LoginSound(l, next),
           UNCHANGED <<auth, content, clock, cache, visit, past, stored>>,
           wire \subseteq wire',
           \A m \in wire' \ wire : m \in Insert /\ m.login = l /\ next.pc = "inserting"
    PROVE  AInv'
<1>1. login' \in [Logins -> Login] /\ login'[l] = next
  BY DEF AInv, AuthTypeOK, LoginStep
<1>2. \A k \in Logins \ {l} : login'[k] = login[k]
  BY DEF AInv, AuthTypeOK, LoginStep
<1>3. wire' \cap Part = wire \cap Part
  BY Disjoint
<1>4. AuthTypeOK'
  BY <1>1 DEF AInv, AuthTypeOK
<1>5. HistoryOK' /\ InvalidationHolds'
  BY DEF AInv, HistoryOK, InvalidationHolds, Entered
<1>6. InsertsOK'
  <2> SUFFICES ASSUME NEW m \in wire' \cap Insert
               PROVE  login'[m.login].pc \notin {"idle", "exchanging", "asking"}
    BY DEF InsertsOK
  <2>1. m.login \in Logins
    BY DEF Insert
  <2>2. m \in wire => login[m.login].pc \notin {"idle", "exchanging", "asking"}
    BY DEF AInv, InsertsOK
  <2> QED
    BY <1>1, <1>2, <2>1, <2>2 DEF LoginSound
<1>7. CacheOK'
  BY DEF AInv, CacheOK, EntryOK
<1>8. PartsOK'
  BY <1>3 DEF AInv, PartsOK
<1>9. SettledVisits' = SettledVisits
  BY <1>3 DEF SettledVisits
<1>10. SettledLogins \subseteq SettledLogins'
  BY <1>1, <1>2 DEF SettledLogins
<1>11. ASSUME NEW k \in Logins PROVE LoginOK(k)'
  <2>1. LoginOK(k)
    BY DEF AInv
  <2>2. CASE k # l
    BY <1>2, <2>1, <2>2 DEF LoginOK, Since
  <2>3. CASE k = l
    BY <1>1, <2>3 DEF LoginOK, LoginSound, Since
  <2> QED
    BY <2>2, <2>3
<1>12. ASSUME NEW v \in Visits PROVE VisitOK(v)'
  <2>1. VisitOK(v)
    BY DEF AInv
  <2> QED
    BY <1>9, <1>10, <2>1 DEF VisitOK, Entered, EntryOK
<1>13. ASSUME NEW d \in Visits PROVE GoneOK(d)' /\ EvictOK(d)'
  <2>1. GoneOK(d) /\ EvictOK(d)
    BY DEF AInv
  <2>2. \A tb : [visit |-> d, table |-> tb] \in wire => [visit |-> d, table |-> tb] \in wire'
    OBVIOUS
  <2> QED
    BY <2>1, <2>2 DEF GoneOK, Deletes, EvictOK, Stale, Live
<1> QED
  BY <1>4, <1>5, <1>6, <1>7, <1>8, <1>11, <1>12, <1>13 DEF AInv

\* A login that ends.
LEMMA LoginOverStep ==
    ASSUME AInv, NEW l \in Logins, login[l].pc # "done",
           NEW status \in {"granted", "refused", "dropped"}, 
           NEW token \in {"none", "held", "handed", "asked"},
           NEW secret \in Logins \cup {None}, LoginOver(l, status, token, secret), LoginOnly,
           status = "granted" => secret \in Logins /\ Since(login[l].from, secret)
    PROVE  AInv'
<1> DEFINE next == [login[l] EXCEPT !.pc = "done", !.copies = 0, !.reply = {},
                                    !.token = token, !.status = status, !.secret = secret]
<1>1. login[l] \in Login /\ 0 \in 0 .. MaxResends + 1
  BY Shapes, Numbers
<1>2. /\ next \in Login /\ next.pc = "done" /\ next.token = token /\ next.status = status
      /\ next.secret = secret /\ next.from = login[l].from
  BY <1>1 DEF Login
<1>3. LoginStep(l, next)
  BY DEF LoginOver
<1> HIDE DEF next
<1>4. login[l].from <= Len(past)
  BY DEF AInv, LoginOK
<1>5. LoginSound(l, next)
  BY <1>2, <1>4 DEF LoginSound
<1> QED
  BY <1>2, <1>3, <1>5, LoginChange DEF LoginOnly

\* The early returns of the callback, and a client that hangs up.
EndsEarly(l) ==
    \/ ExchangeFails(l) \/ WrongScope(l) \/ WrongType(l)
    \/ UserRequestFails(l) \/ UserRequestRefused(l) \/ UserUnreadable(l)
    \/ NotWhitelisted(l) \/ NotConfigured(l) \/ FailLogin(l) \/ DropLogin(l)

LEMMA RefuseStep ==
    ASSUME AInv, NEW l \in Logins,
           \/ EndsEarly(l)
           \/ LoginAt(l, "idle") /\ LoginOver(l, "refused", "none", None) /\ LoginOnly
           \/ LoginAt(l, "rereading") /\ RefuseAndRevoke(l)
    PROVE  AInv'
<1>1. login[l].pc # "done" /\ LoginOnly
  BY DEF EndsEarly, ExchangeFails, WrongScope, WrongType, UserRequestFails, UserRequestRefused,
         UserUnreadable, NotWhitelisted, NotConfigured, FailLogin, DropLogin, RefuseAndRevoke,
         LoginAt
<1>2. \/ LoginOver(l, "refused", "none", None)
      \/ LoginOver(l, "refused", "handed", None)
      \/ LoginOver(l, "dropped", login[l].token, None)
  BY DEF EndsEarly, ExchangeFails, WrongScope, WrongType, UserRequestFails, UserRequestRefused,
         UserUnreadable, NotWhitelisted, NotConfigured, FailLogin, DropLogin, RefuseAndRevoke
<1>3. login[l].token \in {"none", "held", "handed", "asked"}
  BY Shapes DEF Login
<1> QED
  BY <1>1, <1>2, <1>3, LoginOverStep

\* The task that an early return spawned changes the token only.
LEMMA RevokeInBackgroundStep ==
    ASSUME AInv, NEW l \in Logins, RevokeInBackground(l)
    PROVE  AInv'
<1> DEFINE next == [login[l] EXCEPT !.token = "asked"]
<1>1. login[l] \in Login /\ login[l].pc = "done" /\ LoginOK(l)
  BY Shapes DEF RevokeInBackground, AInv, LoginOK
<1>2. /\ next \in Login /\ next.pc = "done" /\ next.from = login[l].from
      /\ next.status = login[l].status /\ next.secret = login[l].secret
  BY <1>1 DEF Login
<1>3. LoginStep(l, next) /\ LoginOnly
  BY DEF RevokeInBackground
<1> HIDE DEF next
<1>4. LoginSound(l, next)
  BY <1>1, <1>2 DEF LoginSound, LoginOK
<1> QED
  BY <1>2, <1>3, <1>4, LoginChange DEF LoginOnly

LEMMA CallStep ==
    ASSUME AInv, NEW l \in Logins, Call(l)
    PROVE  AInv'
<1>1. CASE LoginStep(l, [NoLogin EXCEPT !.pc = "exchanging", !.from = Len(past)])
  <2> DEFINE next == [NoLogin EXCEPT !.pc = "exchanging", !.from = Len(past)]
  <2>1. /\ next \in Login /\ next.pc = "exchanging" /\ next.copies = 0 /\ next.reply = {}
        /\ next.from = Len(past) /\ next.status = "none" /\ next.token = "none"
    BY Blank, Shapes DEF Login, NoLogin
  <2>2. LoginStep(l, next) /\ login[l].pc = "idle"
    BY <1>1 DEF Call, LoginAt
  <2> HIDE DEF next
  <2>3. LoginSound(l, next)
    BY <2>1, <2>2, Shapes DEF LoginSound
  <2> QED
    BY <2>1, <2>2, <2>3, LoginChange DEF Call, LoginOnly
<1>2. CASE LoginOver(l, "refused", "none", None)
  BY <1>2, RefuseStep DEF Call
<1> QED
  BY <1>1, <1>2 DEF Call

LEMMA ExchangeStep ==
    ASSUME AInv, NEW l \in Logins, Exchange(l)
    PROVE  AInv'
<1> DEFINE next == [login[l] EXCEPT !.pc = "asking", !.token = "held"]
<1>1. /\ login[l] \in Login /\ login[l].pc = "exchanging" /\ LoginOK(l)
  BY Shapes DEF Exchange, LoginAt, AInv
<1>2. /\ next \in Login /\ next.pc = "asking" /\ next.copies = 0 /\ next.reply = {}
      /\ next.from = login[l].from /\ next.status = login[l].status
      /\ next.secret = login[l].secret /\ next.token = "held"
  BY <1>1 DEF Login, LoginOK
<1>3. LoginStep(l, next)
  BY DEF Exchange
<1> HIDE DEF next
<1>4. LoginSound(l, next)
  BY <1>1, <1>2 DEF LoginSound, LoginOK
<1> QED
  BY <1>1, <1>2, <1>3, <1>4, LoginChange DEF Exchange, LoginOnly

LEMMA SendInsertStep ==
    ASSUME AInv, NEW l \in Logins, Admit(l) \/ ResendInsert(l)
    PROVE  AInv'
<1> DEFINE next == [login[l] EXCEPT !.pc = "inserting", !.copies = login[l].copies + 1]
           m == [login |-> l, copy |-> login[l].copies + 1]
<1>1. /\ login[l] \in Login /\ login[l].pc \in {"asking", "inserting"} /\ LoginOK(l)
      /\ login[l].copies <= MaxResends /\ SendInsert(l)
  BY Shapes, Numbers DEF Admit, ResendInsert, MayResend, LoginAt, AInv, LoginOK
<1>2. /\ login[l].copies + 1 \in 1 .. MaxResends + 1
      /\ login[l].copies + 1 \in 0 .. MaxResends + 1
  BY <1>1, Numbers DEF Login
<1>3. /\ next \in Login /\ next.pc = "inserting" /\ next.from = login[l].from
      /\ next.status = login[l].status /\ next.secret = login[l].secret
      /\ next.reply = login[l].reply /\ next.token = login[l].token
  BY <1>1, <1>2 DEF Login
<1>4. m \in Insert /\ m.login = l
  BY <1>2 DEF Insert
<1>5. LoginStep(l, next) /\ wire' = wire \cup {m}
  BY <1>1 DEF SendInsert
<1> HIDE DEF next, m
<1>6. LoginSound(l, next)
  BY <1>1, <1>3 DEF LoginSound, LoginOK
<1>7. UNCHANGED <<auth, content, clock, cache, visit, past, stored>>
  BY <1>1 DEF SendInsert
<1> QED
  BY <1>1, <1>3, <1>4, <1>5, <1>6, <1>7, LoginChange

LEMMA InsertedStep ==
    ASSUME AInv, NEW l \in Logins, Inserted(l)
    PROVE  AInv'
<1>1. /\ login[l] \in Login /\ login[l].pc = "inserting" /\ LoginOK(l)
      /\ UNCHANGED <<auth, content, clock, cache, visit, past, stored, wire>>
  BY Shapes DEF Inserted, LoginAt, AInv, LoginOnly
<1>2. CASE /\ "applied" \in login[l].reply
           /\ LoginStep(l, [login[l] EXCEPT !.pc = "revoking", !.secret = l])
  <2> DEFINE next == [login[l] EXCEPT !.pc = "revoking", !.secret = l]
  <2>1. /\ next \in Login /\ next.pc = "revoking" /\ next.from = login[l].from
        /\ next.status = login[l].status /\ next.secret = l /\ next.token = login[l].token
    BY <1>1 DEF Login
  <2>2. LoginStep(l, next)
    BY <1>2
  <2> HIDE DEF next
  <2>3. LoginSound(l, next)
    BY <1>1, <1>2, <2>1 DEF LoginSound, LoginOK
  <2> QED
    BY <1>1, <2>1, <2>2, <2>3, LoginChange
<1>3. CASE LoginStep(l, [login[l] EXCEPT !.pc = "rereading"])
  <2> DEFINE next == [login[l] EXCEPT !.pc = "rereading"]
  <2>1. /\ next \in Login /\ next.pc = "rereading" /\ next.from = login[l].from
        /\ next.status = login[l].status /\ next.secret = login[l].secret
        /\ next.token = login[l].token
    BY <1>1 DEF Login
  <2>2. LoginStep(l, next)
    BY <1>3
  <2> HIDE DEF next
  <2>3. LoginSound(l, next)
    BY <1>1, <2>1 DEF LoginSound, LoginOK
  <2> QED
    BY <1>1, <2>1, <2>2, <2>3, LoginChange
<1>4. login[l].reply # {} /\ login[l].reply \subseteq {"applied", "rejected"}
  BY <1>1 DEF Inserted, Login
<1> QED
  BY <1>2, <1>3, <1>4 DEF Inserted, MustReread

LEMMA RereadStep ==
    ASSUME AInv, NEW l \in Logins, Reread(l)
    PROVE  AInv'
<1>1. /\ login[l] \in Login /\ login[l].pc = "rereading" /\ LoginOK(l)
      /\ UNCHANGED <<auth, content, clock, cache, visit, past, stored, wire>>
  BY Shapes DEF Reread, RefuseAndRevoke, LoginAt, AInv, LoginOnly
<1>2. CASE auth = None
  BY <1>2, RefuseStep DEF Reread
<1>3. CASE auth # None
  <2> DEFINE next == [login[l] EXCEPT !.pc = "revoking", !.secret = auth]
  <2>1. auth \in Logins /\ Since(login[l].from, auth)
    BY <1>1, <1>3, Shapes DEF Since, LoginOK
  <2>2. /\ next \in Login /\ next.pc = "revoking" /\ next.from = login[l].from
        /\ next.status = login[l].status /\ next.secret = auth /\ next.token = login[l].token
    BY <1>1, <2>1 DEF Login
  <2>3. LoginStep(l, next)
    BY <1>3 DEF Reread
  <2> HIDE DEF next
  <2>4. LoginSound(l, next)
    BY <1>1, <2>1, <2>2 DEF LoginSound, LoginOK
  <2> QED
    BY <1>1, <2>2, <2>3, <2>4, LoginChange
<1> QED
  BY <1>2, <1>3

LEMMA GrantStep ==
    ASSUME AInv, NEW l \in Logins, Grant(l)
    PROVE  AInv'
<1>1. login[l].pc = "revoking" /\ LoginOK(l)
  BY DEF Grant, LoginAt, AInv
<1>2. login[l].secret \in Logins /\ Since(login[l].from, login[l].secret)
  BY <1>1 DEF LoginOK
<1> QED
  BY <1>1, <1>2, LoginOverStep DEF Grant

-----------------------------------------------------------------------------
(* The database. *)

\* The row of auth takes a value, or keeps it.
LEMMA SetAuthFacts ==
    ASSUME AInv, NEW secret \in Logins \cup {None}, SetAuth(secret), clock' = clock
    PROVE  /\ auth' = secret /\ past' \in Seq(Logins \cup {None})
           /\ Len(past') \in Nat /\ Len(past') >= Len(past) /\ past'[Len(past')] = secret
           /\ \A i \in 1 .. Len(past) : past'[i] = past[i]
           /\ stored' \in [Logins -> Nat]
           /\ \A s \in Logins : stored[s] <= stored'[s] /\ stored'[s] <= clock
           /\ HistoryOK'
           /\ \A n, s : Since(n, s) => Since(n, s)'
<1>1. /\ auth' = secret /\ past' = (IF secret = auth THEN past ELSE Append(past, secret))
      /\ stored' = [s \in Logins |-> IF s \in {auth, secret} THEN clock ELSE stored[s]]
  BY DEF SetAuth
<1>2. /\ past' \in Seq(Logins \cup {None})
      /\ Len(past') \in Nat /\ Len(past') >= Len(past) /\ past'[Len(past')] = secret
      /\ \A i \in 1 .. Len(past) : past'[i] = past[i]
  <2>1. CASE secret = auth
    BY <1>1, <2>1, Shapes
  <2>2. CASE secret # auth
    <3>1. /\ Append(past, secret) \in Seq(Logins \cup {None})
          /\ Len(Append(past, secret)) = Len(past) + 1
          /\ \A i \in 1 .. Len(past) : Append(past, secret)[i] = past[i]
          /\ Append(past, secret)[Len(past) + 1] = secret
      BY Shapes, AppendProperties
    <3> QED
      BY <1>1, <2>2, <3>1, Shapes
  <2> QED
    BY <2>1, <2>2
<1>3. /\ stored' \in [Logins -> Nat]
      /\ \A s \in Logins : stored[s] <= stored'[s] /\ stored'[s] <= clock
  BY <1>1, Shapes
<1>4. HistoryOK'
  BY <1>1, <1>2, <1>3, Shapes DEF HistoryOK
<1>5. \A n, s : Since(n, s) => Since(n, s)'
  BY <1>2, Shapes DEF Since
<1> QED
  BY <1>1, <1>2, <1>3, <1>4, <1>5

\* What is known of visits and cache entries outlasts a step that changes neither.
LEMMA VisitsKept ==
    ASSUME AInv, UNCHANGED <<visit, cache>>, clock' \in Nat, clock <= clock',
           \A s \in Logins : stored'[s] \in Nat /\ stored[s] <= stored'[s],
           SettledVisits \subseteq SettledVisits', SettledLogins \subseteq SettledLogins'
    PROVE  /\ CacheOK' /\ InvalidationHolds'
           /\ \A v \in Visits : VisitOK(v)' /\ EvictOK(v)'
<1>1. \A v \in Visits : visit[v].began \in Nat
  BY Shapes DEF Visit
<1>2. ASSUME NEW e, NEW s \in Logins, EntryOK(e, s)
      PROVE  e # NoEntry => /\ e.by \in Visits /\ visit[e.by].pc # "idle"
                            /\ visit[e.by].began <= stored'[s]
  BY <1>1, <1>2, Shapes DEF EntryOK
<1>3. CacheOK'
  <2> SUFFICES ASSUME NEW r \in Replicas, NEW s \in Logins PROVE EntryOK(cache[r][s], s)'
    BY DEF CacheOK
  <2>1. EntryOK(cache[r][s], s)
    BY DEF AInv, CacheOK
  <2> QED
    BY <1>2, <2>1 DEF EntryOK
<1>4. InvalidationHolds'
  BY DEF AInv, InvalidationHolds, Entered
<1>5. ASSUME NEW v \in Visits PROVE VisitOK(v)'
  <2>1. VisitOK(v)
    BY DEF AInv
  <2>2. IF visit[v].pc = "idle" THEN visit[v] = NoVisit
        ELSE visit[v].at \in Replicas /\ visit[v].secret \in Logins /\ visit[v].began <= clock'
    BY <1>1, <2>1, Shapes DEF VisitOK
  <2>3. visit[v].secret \in Logins \/ visit[v].pc = "idle"
    BY <2>2
  <2>4. visit[v].pc = "verified" => visit[v].began <= stored'[visit[v].secret]
    BY <1>1, <2>1, <2>3, Shapes DEF VisitOK
  <2>5. ASSUME Entered(v)
        PROVE  /\ visit[v].entry # NoEntry /\ visit[v].entry.by \in Visits
               /\ visit[visit[v].entry.by].pc # "idle"
               /\ visit[visit[v].entry.by].began <= stored'[visit[v].secret]
    <3>1. visit[v].secret \in Logins
      BY <2>3, <2>5, <2>1, Blank DEF VisitOK, Entered
    <3>2. EntryOK(visit[v].entry, visit[v].secret)
      BY <2>1, <2>5 DEF VisitOK
    <3> QED
      BY <1>2, <2>5, <3>1, <3>2 DEF Entered
  <2> QED
    BY <2>1, <2>2, <2>4, <2>5 DEF VisitOK, Entered, EntryOK
<1>6. ASSUME NEW d \in Visits PROVE EvictOK(d)'
  <2>1. EvictOK(d) /\ VisitOK(d)
    BY DEF AInv
  <2>2. CASE visit[d].at \in Replicas
    <3>1. ASSUME NEW s \in Logins, Stale(d, s)' PROVE Stale(d, s)
      <4>1. cache[visit[d].at][s] \in Entry
        BY <2>2, Shapes
      <4> QED
        BY <3>1, <4>1, Shapes, Numbers DEF Stale, Live, Entry
    <3> QED
      BY <2>1, <3>1 DEF EvictOK
  <2>3. CASE visit[d].at \notin Replicas
    BY <2>1, <2>3, Blank DEF VisitOK, EvictOK
  <2> QED
    BY <2>2, <2>3
<1> QED
  BY <1>3, <1>4, <1>5, <1>6

LEMMA ExecuteInsertStep ==
    ASSUME AInv, NEW m \in wire \cap Insert, ExecuteInsert(m)
    PROVE  AInv'
<1> DEFINE l == m.login
<1>1. /\ l \in Logins /\ wire' = wire \ {m} /\ UNCHANGED <<content, clock, cache, visit>>
      /\ SetAuth(IF InsertApplies THEN l ELSE auth)
  BY DEF ExecuteInsert, Insert
<1>2. (IF InsertApplies THEN l ELSE auth) \in Logins \cup {None}
  BY <1>1, Shapes
<1>3. auth' = IF InsertApplies THEN l ELSE auth
  BY <1>1, <1>2, SetAuthFacts
<1>4. /\ HistoryOK' /\ Len(past') \in Nat /\ Len(past') >= Len(past)
      /\ past' \in Seq(Logins \cup {None}) /\ past'[Len(past')] = auth'
      /\ stored' \in [Logins -> Nat]
      /\ \A s \in Logins : stored[s] <= stored'[s]
      /\ \A i \in 1 .. Len(past) : past'[i] = past[i]
  BY <1>1, <1>2, <1>3, SetAuthFacts
<1>5. \A k \in Logins :
          /\ login'[k] \in Login /\ login'[k].pc = login[k].pc /\ login'[k].copies = login[k].copies
          /\ login'[k].from = login[k].from /\ login'[k].secret = login[k].secret
          /\ login'[k].status = login[k].status /\ login'[k].token = login[k].token
          /\ \/ login'[k].reply = login[k].reply
             \/ /\ k = l /\ login[k].pc = "inserting"
                /\ login'[k].reply = login[k].reply \cup
                       {IF InsertApplies THEN "applied" ELSE "rejected"}
  <2> DEFINE heard == IF InsertApplies THEN "applied" ELSE "rejected"
             next == [login[l] EXCEPT !.reply = login[l].reply \cup {heard}]
  <2>1. login \in [Logins -> Login] /\ (\A k \in Logins : login[k] \in Login)
    BY DEF AInv, AuthTypeOK
  <2>2. /\ next \in Login /\ next.pc = login[l].pc /\ next.copies = login[l].copies
        /\ next.from = login[l].from /\ next.secret = login[l].secret
        /\ next.status = login[l].status /\ next.token = login[l].token
        /\ next.reply = login[l].reply \cup {heard}
    BY <1>1, <2>1 DEF Login
  <2>3. \/ login' = login
        \/ login[l].pc = "inserting" /\ login' = [login EXCEPT ![l] = next]
    BY DEF ExecuteInsert, LoginAt
  <2> HIDE DEF next
  <2> QED
    BY <1>1, <2>1, <2>2, <2>3
<1>6. login' \in [Logins -> Login]
  <2>1. login' = [login EXCEPT ![l].reply =
                     login[l].reply \cup {IF InsertApplies THEN "applied" ELSE "rejected"}]
        \/ login' = login
    BY DEF ExecuteInsert
  <2>2. DOMAIN login' = Logins /\ login' = [k \in Logins |-> login'[k]]
    BY <2>1 DEF AInv, AuthTypeOK
  <2> QED
    BY <1>5, <2>2
<1>7. m \notin Part /\ l \notin SettledLogins
  BY Disjoint DEF SettledLogins
<1> HIDE DEF l
<1>8. AuthTypeOK'
  BY <1>1, <1>2, <1>3, <1>4, <1>6 DEF AInv, AuthTypeOK
<1>9. InsertsOK' /\ PartsOK'
  BY <1>1, <1>5 DEF AInv, InsertsOK, PartsOK, Insert
<1>10. SettledVisits \subseteq SettledVisits' /\ SettledLogins \subseteq SettledLogins'
  BY <1>1, <1>5 DEF SettledVisits, SettledLogins
<1>11. /\ CacheOK' /\ InvalidationHolds'
       /\ \A v \in Visits : VisitOK(v)' /\ EvictOK(v)'
  BY <1>1, <1>4, <1>10, Shapes, VisitsKept
<1>12. ASSUME NEW k \in Logins PROVE LoginOK(k)'
  <2>1. LoginOK(k) /\ login[k].from \in Nat
    BY Shapes DEF AInv, Login
  <2>0. \A n, s : Since(n, s) => \E i \in 1 .. Len(past') : i >= n /\ past'[i] = s
    BY <1>4, Shapes DEF Since
  <2>5. /\ login'[k].pc = login[k].pc /\ login'[k].copies = login[k].copies
        /\ login'[k].from = login[k].from /\ login'[k].secret = login[k].secret
        /\ login'[k].status = login[k].status /\ login'[k].token = login[k].token
        /\ login[k].pc # "inserting" => login'[k].reply = login[k].reply
    BY <1>5
  <2>6. login[k].from <= Len(past')
    BY <1>4, <2>1, Shapes DEF LoginOK
  <2>2. /\ login'[k].pc \in {"idle", "exchanging", "asking"} =>
               login'[k].copies = 0 /\ login'[k].reply = {}
        /\ login'[k].from <= Len(past')
        /\ login'[k].token = "handed" => login'[k].pc = "done"
    BY <2>1, <2>5, <2>6 DEF LoginOK
  <2>3. login'[k].pc = "revoking" \/ login'[k].status = "granted" =>
            /\ login'[k].secret \in Logins
            /\ \E i \in 1 .. Len(past') : i >= login'[k].from /\ past'[i] = login'[k].secret
    BY <2>0, <2>1, <2>5 DEF LoginOK
  <2>4. ASSUME login'[k].pc = "inserting", "applied" \in login'[k].reply
        PROVE  \E i \in 1 .. Len(past') : i >= login'[k].from /\ past'[i] = k
    <3>1. CASE "applied" \in login[k].reply
      BY <2>0, <2>1, <2>4, <2>5, <3>1 DEF LoginOK
    <3>2. CASE "applied" \notin login[k].reply
      <4>1. k = l /\ auth' = k
        BY <1>3, <1>5, <2>4, <3>2
      <4>2. Len(past') >= login'[k].from /\ Len(past') \in 1 .. Len(past')
        BY <1>4, <2>5, <2>6, Shapes
      <4> QED
        BY <1>4, <4>1, <4>2
    <3> QED
      BY <3>1, <3>2
  <2> QED
    BY <2>2, <2>3, <2>4 DEF LoginOK, Since
<1>13. ASSUME NEW d \in Visits PROVE GoneOK(d)'
  <2>1. GoneOK(d) /\ visit[d].before.logins \subseteq SettledLogins
    BY DEF AInv, VisitOK
  <2>2. \A tb \in Tables \cup {"auth"} :
            [visit |-> d, table |-> tb] \notin wire' => [visit |-> d, table |-> tb] \notin wire
    BY <1>1, <1>7 DEF Part
  <2>3. l \notin visit[d].before.logins
    BY <1>7, <2>1
  <2> QED
    BY <1>1, <1>3, <2>1, <2>2, <2>3 DEF GoneOK, Deletes
<1> QED
  BY <1>4, <1>8, <1>9, <1>11, <1>12, <1>13 DEF AInv

LEMMA ExecutePartStep ==
    ASSUME AInv, NEW m \in wire \cap Part, ExecutePart(m)
    PROVE  AInv'
<1>1. /\ m.visit \in Visits /\ m.table \in Tables \cup {"auth"}
      /\ m = [visit |-> m.visit, table |-> m.table]
      /\ wire' = wire \ {m} /\ UNCHANGED <<clock, cache, login, visit>>
      /\ SetAuth(IF m.table = "auth" THEN None ELSE auth)
  BY DEF ExecutePart, Part
<1>2. (IF m.table = "auth" THEN None ELSE auth) \in Logins \cup {None}
  BY Shapes
<1>3. auth' = IF m.table = "auth" THEN None ELSE auth
  BY <1>1, <1>2, SetAuthFacts
<1>4. /\ HistoryOK' /\ Len(past') \in Nat /\ Len(past') >= Len(past)
      /\ past' \in Seq(Logins \cup {None})
      /\ stored' \in [Logins -> Nat]
      /\ \A s \in Logins : stored[s] <= stored'[s]
      /\ \A i \in 1 .. Len(past) : past'[i] = past[i]
  BY <1>1, <1>2, SetAuthFacts
<1>5. /\ content' \in [Tables -> Visits \cup {None}]
      /\ \A tb \in Tables : content'[tb] = content[tb] \/ content'[tb] = None
      /\ m.table \in Tables => content'[m.table] = None
  BY <1>1, Numbers DEF ExecutePart, AInv, AuthTypeOK
<1>6. AuthTypeOK'
  BY <1>1, <1>2, <1>3, <1>4, <1>5 DEF AInv, AuthTypeOK
<1>7. InsertsOK' /\ PartsOK'
  BY <1>1 DEF AInv, InsertsOK, PartsOK
<1>8. SettledVisits \subseteq SettledVisits' /\ SettledLogins \subseteq SettledLogins'
  BY <1>1 DEF SettledVisits, SettledLogins
<1>9. /\ CacheOK' /\ InvalidationHolds'
      /\ \A v \in Visits : VisitOK(v)' /\ EvictOK(v)'
  BY <1>1, <1>4, <1>8, Shapes, VisitsKept
<1>10. ASSUME NEW k \in Logins PROVE LoginOK(k)'
  <2>1. LoginOK(k) /\ login[k].from \in Nat
    BY Shapes DEF AInv, Login
  <2>2. \A n, s : Since(n, s) => \E i \in 1 .. Len(past') : i >= n /\ past'[i] = s
    BY <1>4, Shapes DEF Since
  <2>3. login'[k] = login[k] /\ login[k].from <= Len(past')
    BY <1>1, <1>4, <2>1, Shapes DEF LoginOK
  <2>4. login[k].pc = "inserting" /\ "applied" \in login[k].reply =>
            \E i \in 1 .. Len(past') : i >= login[k].from /\ past'[i] = k
    BY <2>1, <2>2 DEF LoginOK
  <2>5. login[k].pc = "revoking" \/ login[k].status = "granted" =>
            /\ login[k].secret \in Logins
            /\ \E i \in 1 .. Len(past') : i >= login[k].from /\ past'[i] = login[k].secret
    BY <2>1, <2>2 DEF LoginOK
  <2> QED
    BY <2>1, <2>3, <2>4, <2>5 DEF LoginOK, Since
<1>11. ASSUME NEW d \in Visits PROVE GoneOK(d)'
  <2>1. /\ GoneOK(d) /\ visit[d].before.logins \subseteq Logins
        /\ visit[d].before.visits \subseteq Visits
    BY DEF AInv, VisitOK, SettledLogins, SettledVisits
  <2>2. None \notin visit[d].before.logins /\ None \notin visit[d].before.visits
    BY <2>1, Numbers
  <2>3. \A tb : [visit |-> d, table |-> tb] \notin wire' =>
            [visit |-> d, table |-> tb] \notin wire \/ tb = m.table
    BY <1>1
  <2> QED
    BY <1>1, <1>3, <1>5, <2>1, <2>2, <2>3 DEF GoneOK, Deletes
<1> QED
  BY <1>4, <1>6, <1>7, <1>9, <1>10, <1>11 DEF AInv

LEMMA TickStep ==
    ASSUME AInv, Tick
    PROVE  AInv'
<1>1. /\ clock' = clock + 1 /\ clock' \in 1 .. MaxClock /\ clock' \in Nat
      /\ stored' = [s \in Logins |-> IF s = auth THEN clock + 1 ELSE stored[s]]
      /\ UNCHANGED <<auth, content, cache, wire, login, visit, past>>
  BY Shapes, Numbers DEF Tick
<1>2. /\ stored' \in [Logins -> Nat]
      /\ \A s \in Logins : stored[s] <= stored'[s] /\ stored'[s] <= clock'
      /\ auth # None => stored'[auth] = clock'
  BY <1>1, Shapes
<1>3. AuthTypeOK' /\ HistoryOK'
  BY <1>1, <1>2 DEF AInv, AuthTypeOK, HistoryOK
<1>4. InsertsOK' /\ PartsOK'
  BY <1>1 DEF AInv, InsertsOK, PartsOK
<1>5. SettledVisits \subseteq SettledVisits' /\ SettledLogins \subseteq SettledLogins'
  BY <1>1 DEF SettledVisits, SettledLogins
<1>6. /\ CacheOK' /\ InvalidationHolds'
      /\ \A v \in Visits : VisitOK(v)' /\ EvictOK(v)'
  BY <1>1, <1>2, <1>5, Shapes, VisitsKept
<1>7. \A k \in Logins : LoginOK(k)'
  BY <1>1 DEF AInv, LoginOK, Since
<1>8. \A d \in Visits : GoneOK(d)'
  BY <1>1 DEF AInv, GoneOK, Deletes
<1> QED
  BY <1>3, <1>4, <1>6, <1>7, <1>8 DEF AInv

-----------------------------------------------------------------------------
(* The steps of visits. *)

\* A visit keeps what it arrived with.
Keeps(v, next) ==
    IF visit[v].pc = "idle"
    THEN /\ next.at \in Replicas /\ next.secret \in Logins /\ next.began = clock
         /\ next.before.visits = SettledVisits /\ next.before.logins = SettledLogins
    ELSE /\ next.at = visit[v].at /\ next.secret = visit[v].secret
         /\ next.began = visit[v].began /\ next.before = visit[v].before

\* The entry that lets it in: none, the one it has, its own, or one that it found.
LetIn(v, next) ==
    \/ next.entry = NoEntry
    \/ visit[v].pc # "idle" /\ next.entry = visit[v].entry
    \/ visit[v].pc = "verified" /\ next.entry = [by |-> v, at |-> clock]
    \/ /\ visit[v].pc = "idle" /\ next.entry = cache[next.at][next.secret]
       /\ Live(next.entry)

Proceeds(v, next) ==
    /\ next.pc # "idle"
    /\ next.pc = "verified" => next.began <= stored[next.secret]
    /\ next.status # "none" => next.pc = "done"
    /\ next.status = "deleted" => visit[v].pc = "evicting" /\ visit[v].collected = {}
    /\ visit[v].pc = "deleting" => next.pc \in {"evicting", "done"}
    /\ next.pc = "deleting" => \A tb \in Batch : [visit |-> v, table |-> tb] \in wire'
    /\ next.pc = "evicting" =>
           \/ /\ visit[v].pc = "deleting" /\ BatchDone(v) /\ cache' = cache
              /\ next.collected = Collected(visit[v].at)
           \/ /\ visit[v].pc = "evicting"
              /\ \A s \in visit[v].collected \ next.collected : cache'[visit[v].at][s] = NoEntry

\* What else a step of a visit changes.
Touches(v, next) ==
    /\ UNCHANGED <<auth, clock, login, past, stored>>
    /\ wire \subseteq wire'
    /\ \A m \in wire' \ wire : m \in Part /\ m.visit = v /\ next.pc = "deleting"
    /\ content' \in [Tables -> Visits \cup {None}]
    /\ \A tb \in Tables : content'[tb] = content[tb] \/ content'[tb] = v
    /\ cache' \in [Replicas -> [Logins -> Entry]]
    /\ \A r \in Replicas, s \in Logins :
           \/ cache'[r][s] = cache[r][s] \/ cache'[r][s] = NoEntry
           \/ /\ visit[v].pc = "verified" /\ s = visit[v].secret
              /\ cache'[r][s] = [by |-> v, at |-> clock]

LEMMA VisitChange ==
    ASSUME AInv, NEW v \in Visits, visit[v].pc # "done", NEW next \in Visit, VisitStep(v, next),
           Keeps(v, next), LetIn(v, next), Proceeds(v, next), Touches(v, next)
    PROVE  AInv'
<1>1. visit' \in [Visits -> Visit] /\ visit'[v] = next
  BY DEF AInv, AuthTypeOK, VisitStep
<1>2. \A u \in Visits \ {v} : visit'[u] = visit[u]
  BY DEF AInv, AuthTypeOK, VisitStep
<1>3. UNCHANGED <<auth, clock, login, past, stored>>
  BY DEF Touches
<1>4. AuthTypeOK'
  BY <1>1, <1>3 DEF AInv, AuthTypeOK, Touches
<1>5. HistoryOK' /\ (\A k \in Logins : LoginOK(k)')
  BY <1>3 DEF AInv, HistoryOK, LoginOK, Since
<1>6. wire' \cap Insert = wire \cap Insert
  BY Disjoint DEF Touches
<1>7. InsertsOK'
  BY <1>3, <1>6 DEF AInv, InsertsOK
<1>8. SettledLogins' = SettledLogins
  BY <1>3, <1>6 DEF SettledLogins
<1>9. SettledVisits \subseteq SettledVisits' /\ v \notin SettledVisits
  BY <1>2 DEF SettledVisits, Touches
<1>10. VisitOK(v) /\ GoneOK(v) /\ EvictOK(v)
  BY DEF AInv
<1>11. /\ next.before.visits \subseteq SettledVisits
       /\ next.before.logins \subseteq SettledLogins
  BY <1>10 DEF Keeps, VisitOK
<1>12. \A d \in Visits : v \notin visit[d].before.visits
  BY <1>9 DEF AInv, VisitOK
<1>14. ASSUME visit[v].pc = "verified"
       PROVE  visit'[v].pc # "idle" /\ visit'[v].began <= stored[visit[v].secret]
  <2>1. visit[v].began <= stored[visit[v].secret]
    BY <1>10, <1>14 DEF VisitOK
  <2>2. next.began = visit[v].began /\ next.pc # "idle"
    BY <1>14 DEF Keeps, Proceeds
  <2> QED
    BY <1>1, <2>1, <2>2
<1>15. CacheOK'
  <2> SUFFICES ASSUME NEW r \in Replicas, NEW s \in Logins PROVE EntryOK(cache[r][s], s)'
    BY DEF CacheOK
  <2>1. CASE cache'[r][s] = cache[r][s]
    <3>1. EntryOK(cache[r][s], s)
      BY DEF AInv, CacheOK
    <3> QED
      BY <1>2, <1>1, <1>3, <2>1, <3>1 DEF EntryOK, Keeps, Proceeds
  <2>2. CASE cache'[r][s] = NoEntry
    BY <2>2 DEF EntryOK
  <2>3. CASE /\ visit[v].pc = "verified" /\ s = visit[v].secret
             /\ cache'[r][s] = [by |-> v, at |-> clock]
    <3>1. cache'[r][s].by = v
      BY <2>3
    <3> QED
      BY <1>3, <1>14, <2>3, <3>1 DEF EntryOK
  <2> QED
    BY <2>1, <2>2, <2>3 DEF Touches
<1>16. PartsOK'
  <2> SUFFICES ASSUME NEW m \in wire' \cap Part
               PROVE  /\ visit'[m.visit].pc \in {"deleting", "done"}
                      /\ visit'[m.visit].status # "deleted"
    BY DEF PartsOK
  <2>1. /\ m.visit \in Visits /\ m.table \in Batch
        /\ m = [visit |-> m.visit, table |-> m.table]
    BY DEF Part, Batch
  <2>2. CASE m.visit # v
    BY <1>2, <2>1, <2>2 DEF AInv, PartsOK, Touches
  <2>3. CASE m.visit = v /\ m \in wire
    <3>1. visit[v].pc = "deleting"
      BY <2>3 DEF AInv, PartsOK
    <3>2. ~ BatchDone(v)
      BY <2>1, <2>3 DEF BatchDone
    <3> QED
      BY <1>1, <2>3, <3>1, <3>2 DEF Proceeds
  <2>4. CASE m.visit = v /\ m \notin wire
    BY <1>1, <2>4 DEF Touches, Proceeds
  <2> QED
    BY <2>2, <2>3, <2>4
<1>17. ASSUME NEW u \in Visits PROVE VisitOK(u)'
  <2>1. VisitOK(u)
    BY DEF AInv
  <2>2. CASE u # v
    <3>1. Entered(u) => EntryOK(visit[u].entry, visit[u].secret)'
      <4>1. Entered(u) => EntryOK(visit[u].entry, visit[u].secret)
        BY <2>1 DEF VisitOK
      <4> QED
        BY <1>1, <1>2, <1>3, <2>2, <4>1 DEF EntryOK, Keeps, Proceeds
    <3> QED
      BY <1>2, <1>3, <1>8, <1>9, <2>1, <2>2, <3>1 DEF VisitOK, Entered
  <2>3. CASE u = v
    <3>1. /\ next.pc # "idle" /\ next.at \in Replicas /\ next.secret \in Logins
          /\ next.began <= clock /\ next.began \in Nat
      BY <1>10, Shapes DEF Keeps, Proceeds, VisitOK, Visit
    <3>2. ASSUME next.entry # NoEntry
          PROVE  /\ next.entry.by \in Visits /\ visit'[next.entry.by].pc # "idle"
                 /\ visit'[next.entry.by].began <= stored[next.secret]
                 /\ next.began < next.entry.at + TTL
      <4>1. CASE visit[v].pc # "idle" /\ next.entry = visit[v].entry
        <5>1. EntryOK(visit[v].entry, visit[v].secret) /\ visit[v].began < visit[v].entry.at + TTL
          BY <1>10, <3>2, <4>1 DEF VisitOK, Entered
        <5> QED
          BY <1>1, <1>2, <3>1, <3>2, <4>1, <5>1 DEF EntryOK, Keeps
      <4>2. CASE visit[v].pc = "verified" /\ next.entry = [by |-> v, at |-> clock]
        BY <1>1, <1>10, <3>1, <4>2, Shapes, Numbers DEF VisitOK, Keeps
      <4>3. CASE /\ visit[v].pc = "idle" /\ next.entry = cache[next.at][next.secret]
                 /\ Live(next.entry)
        <5>1. EntryOK(next.entry, next.secret)
          BY <3>1, <4>3 DEF AInv, CacheOK
        <5>2. next.began < next.entry.at + TTL
          BY <4>3 DEF Keeps, Live
        <5> QED
          BY <1>2, <3>2, <4>3, <5>1, <5>2 DEF EntryOK
      <4> QED
        BY <3>2, <4>1, <4>2, <4>3 DEF LetIn
    <3>3. /\ next.pc = "verified" => next.began <= stored[next.secret]
          /\ next.status # "none" => next.pc = "done"
      BY DEF Proceeds
    <3> QED
      BY <1>1, <1>3, <1>8, <1>9, <1>11, <2>3, <3>1, <3>2, <3>3 DEF VisitOK, Entered, EntryOK
  <2> QED
    BY <2>2, <2>3
<1>18. InvalidationHolds'
  <2> SUFFICES ASSUME NEW u \in Visits, NEW d \in Visits, visit'[u].entry # NoEntry,
                      visit'[d].status = "deleted", d \in visit'[u].before.visits,
                      visit'[d].at = visit'[u].at
               PROVE  visit'[u].entry.by \notin visit'[d].before.visits \cup {d}
    BY DEF InvalidationHolds, Entered
  <2>1. d # v
    BY <1>1, <1>2, <1>9, <1>11, <1>12
  <2>2. visit'[d] = visit[d]
    BY <1>2, <2>1
  <2>3. CASE u # v
    BY <1>2, <2>2, <2>3 DEF AInv, InvalidationHolds, Entered
  <2>4. CASE u = v
    <3>1. CASE visit[v].pc # "idle" /\ next.entry = visit[v].entry
      BY <1>1, <2>2, <2>4, <3>1 DEF AInv, InvalidationHolds, Entered, Keeps
    <3>2. CASE visit[v].pc = "verified" /\ next.entry = [by |-> v, at |-> clock]
      BY <1>1, <1>12, <2>1, <2>2, <2>4, <3>2
    <3>3. CASE /\ visit[v].pc = "idle" /\ next.entry = cache[next.at][next.secret]
               /\ Live(next.entry)
      <4>1. next.secret \in Logins /\ EvictOK(d)
        BY <3>3 DEF Keeps, AInv
      <4>2. ~ Stale(d, next.secret)
        BY <2>2, <4>1 DEF EvictOK
      <4> QED
        BY <1>1, <2>2, <2>4, <3>3, <4>2 DEF Stale
    <3> QED
      BY <1>1, <2>4, <3>1, <3>2, <3>3 DEF LetIn
  <2> QED
    BY <2>3, <2>4
<1>19. ASSUME NEW d \in Visits PROVE GoneOK(d)'
  <2>1. GoneOK(d)
    BY DEF AInv
  <2>2. /\ \A tb : [visit |-> d, table |-> tb] \notin wire' => [visit |-> d, table |-> tb] \notin wire
        /\ \A tb \in Tables : content'[tb] = content[tb] \/ content'[tb] = v
    BY DEF Touches
  <2>3. CASE d # v
    BY <1>2, <1>3, <1>12, <2>1, <2>2, <2>3 DEF GoneOK, Deletes
  <2>4. CASE d = v /\ next.pc = "deleting"
    <3>1. \A tb \in Tables \cup {"auth"} : [visit |-> v, table |-> tb] \in wire'
      BY <2>4 DEF Proceeds, Batch
    <3> QED
      BY <2>4, <3>1 DEF GoneOK
  <2>5. CASE d = v /\ next.pc # "deleting" /\ Deletes(v)'
    <3>1. visit[v].pc \in {"deleting", "evicting"}
      BY <1>1, <2>5 DEF Deletes, Proceeds
    <3>2. next.before = visit[v].before
      BY <3>1 DEF Keeps
    <3> QED
      BY <1>1, <1>3, <1>12, <2>1, <2>2, <2>5, <3>1, <3>2 DEF GoneOK, Deletes
  <2> QED
    BY <2>3, <2>4, <2>5 DEF GoneOK
<1>20. ASSUME NEW d \in Visits PROVE EvictOK(d)'
  <2>1. EvictOK(d) /\ VisitOK(d)
    BY DEF AInv
  <2>2. \A r \in Replicas, s \in Logins :
            \/ cache'[r][s] = cache[r][s] \/ cache'[r][s] = NoEntry
            \/ visit[v].pc = "verified" /\ cache'[r][s] = [by |-> v, at |-> clock]
    BY DEF Touches
  <2>3. CASE d # v
    <3>1. CASE visit[d].at \in Replicas
      <4>1. ASSUME NEW s \in Logins, Stale(d, s)' PROVE Stale(d, s)
        <5>1. cache'[visit[d].at][s] = cache[visit[d].at][s]
          BY <1>2, <1>12, <2>2, <2>3, <3>1, <4>1 DEF Stale, Live
        <5> QED
          BY <1>2, <1>3, <2>3, <4>1, <5>1 DEF Stale, Live
      <4> QED
        BY <1>2, <2>1, <2>3, <4>1 DEF EvictOK
    <3>2. CASE visit[d].at \notin Replicas
      BY <1>2, <2>1, <2>3, <3>2, Blank DEF VisitOK, EvictOK
    <3> QED
      BY <3>1, <3>2
  <2>4. CASE d = v /\ visit[v].pc = "deleting" /\ next.pc = "evicting"
    <3>1. /\ cache' = cache /\ next.collected = Collected(visit[v].at) /\ next.at = visit[v].at
          /\ next.status # "deleted"
      BY <2>4 DEF Proceeds, Keeps
    <3>2. \A s \in Logins : Stale(v, s)' => s \in next.collected
      BY <1>1, <1>3, <3>1 DEF Stale, Live, Collected
    <3> QED
      BY <1>1, <2>4, <3>1, <3>2 DEF EvictOK
  <2>5. CASE d = v /\ visit[v].pc = "evicting"
    <3>1. next.at = visit[v].at /\ next.before = visit[v].before /\ visit[v].at \in Replicas
      BY <1>10, <2>5 DEF Keeps, VisitOK
    <3>2. \A s \in Logins : cache'[visit[v].at][s] = cache[visit[v].at][s]
                           \/ cache'[visit[v].at][s] = NoEntry
      BY <2>2, <2>5, <3>1
    <3>3. ASSUME NEW s \in Logins, Stale(v, s)'
          PROVE  s \in visit[v].collected /\ cache'[visit[v].at][s] # NoEntry
      <4>1. Stale(v, s) /\ cache'[visit[v].at][s] # NoEntry
        BY <1>1, <1>3, <3>1, <3>2, <3>3 DEF Stale, Live
      <4> QED
        BY <1>10, <2>5, <4>1 DEF EvictOK
    <3>4. next.pc = "evicting" => \A s \in Logins : Stale(v, s)' => s \in next.collected
      BY <2>5, <3>3 DEF Proceeds
    <3>5. next.status = "deleted" => \A s \in Logins : ~ Stale(v, s)'
      BY <3>3 DEF Proceeds
    <3> QED
      BY <1>1, <2>5, <3>4, <3>5 DEF EvictOK
  <2>6. CASE d = v /\ visit[v].pc \notin {"deleting", "evicting"}
    BY <1>1, <2>6 DEF EvictOK, Proceeds
  <2>7. CASE d = v /\ visit[v].pc = "deleting" /\ next.pc # "evicting"
    BY <1>1, <2>7 DEF EvictOK, Proceeds
  <2> QED
    BY <2>3, <2>4, <2>5, <2>6, <2>7
<1> QED
  BY <1>4, <1>5, <1>7, <1>15, <1>16, <1>17, <1>18, <1>19, <1>20 DEF AInv

\* Most steps of a visit change nothing else.
LEMMA VisitOnlyStep ==
    ASSUME AInv, NEW v \in Visits, visit[v].pc # "done", NEW next \in Visit, VisitStep(v, next),
           Keeps(v, next), LetIn(v, next), Proceeds(v, next), VisitOnly, next.pc # "deleting"
    PROVE  AInv'
<1>1. Touches(v, next)
  BY DEF Touches, VisitOnly, AInv, AuthTypeOK
<1> QED
  BY <1>1, VisitChange

LEMMA ArriveStep ==
    ASSUME AInv, NEW v \in Visits, Arrive(v)
    PROVE  AInv'
<1>1. PICK op \in Wants[v], r \in Reach[v], s \in HandedOut :
          ArriveKnown(v, op, r, s) \/ ArriveUnknown(v, op, r, s)
  BY DEF Arrive
<1>2. op \in Tables \cup {"none", "delete"} /\ r \in Replicas
  BY AuthAssumption
<1>3. s \in Logins
  BY DEF HandedOut, AInv, LoginOK
<1> DEFINE Next1(place, e) ==
        [NoVisit EXCEPT !.pc = place, !.op = op, !.at = r, !.secret = s, !.entry = e,
                        !.began = clock,
                        !.before = [visits |-> SettledVisits, logins |-> SettledLogins]]
<1>4. ASSUME NEW place \in {"inside", "verifying"}, NEW e \in Entry
      PROVE  /\ Next1(place, e) \in Visit /\ Next1(place, e).pc = place /\ Next1(place, e).at = r
             /\ Next1(place, e).secret = s /\ Next1(place, e).entry = e
             /\ Next1(place, e).began = clock /\ Next1(place, e).status = "none"
             /\ Next1(place, e).before = [visits |-> SettledVisits, logins |-> SettledLogins]
  <2>1. SettledVisits \in SUBSET Visits /\ SettledLogins \in SUBSET Logins
    BY DEF SettledVisits, SettledLogins
  <2>2. [visits |-> SettledVisits, logins |-> SettledLogins]
            \in [visits : SUBSET Visits, logins : SUBSET Logins]
    BY <2>1
  <2>3. NoVisit \in Visit /\ NoVisit.status = "none" /\ clock \in Nat
    BY Blank, Shapes
  <2> QED
    BY <1>2, <1>3, <1>4, <2>2, <2>3 DEF Visit
<1>5. CASE ArriveKnown(v, op, r, s)
  <2>1. /\ visit[v].pc = "idle" /\ VisitStep(v, Next1("inside", cache[r][s]))
        /\ VisitOnly /\ Live(cache[r][s]) /\ cache[r][s] \in Entry
    BY <1>2, <1>3, <1>5, Shapes DEF ArriveKnown, VisitAt, Arrived, VisitStep, Hit
  <2> DEFINE next == Next1("inside", cache[r][s])
  <2>2. /\ next \in Visit /\ next.pc = "inside" /\ next.at = r
        /\ next.secret = s /\ next.entry = cache[r][s]
        /\ next.began = clock /\ next.status = "none"
        /\ next.before = [visits |-> SettledVisits, logins |-> SettledLogins]
    BY <1>4, <2>1
  <2>3. VisitStep(v, next)
    BY <2>1
  <2> HIDE DEF next
  <2>4. Keeps(v, next) /\ LetIn(v, next) /\ Proceeds(v, next)
    BY <1>2, <1>3, <2>1, <2>2 DEF Keeps, LetIn, Proceeds
  <2> QED
    BY <2>1, <2>2, <2>3, <2>4, VisitOnlyStep
<1>6. CASE ArriveUnknown(v, op, r, s)
  <2>1. /\ visit[v].pc = "idle" /\ VisitStep(v, Next1("verifying", NoEntry))
        /\ cache' = [cache EXCEPT ![r][s] = NoEntry]
        /\ UNCHANGED <<auth, content, clock, wire, login, past, stored>>
    BY <1>6 DEF ArriveUnknown, VisitAt, Arrived, VisitStep
  <2> DEFINE next == Next1("verifying", NoEntry)
  <2>2. /\ next \in Visit /\ next.pc = "verifying" /\ next.at = r
        /\ next.secret = s /\ next.entry = NoEntry
        /\ next.began = clock /\ next.status = "none"
        /\ next.before = [visits |-> SettledVisits, logins |-> SettledLogins]
    BY <1>4, Blank
  <2>3. VisitStep(v, next)
    BY <2>1
  <2> HIDE DEF next
  <2>4. Keeps(v, next) /\ LetIn(v, next) /\ Proceeds(v, next)
    BY <1>2, <1>3, <2>1, <2>2 DEF Keeps, LetIn, Proceeds
  <2>5. /\ cache' \in [Replicas -> [Logins -> Entry]]
        /\ \A q \in Replicas, x \in Logins : cache'[q][x] = cache[q][x] \/ cache'[q][x] = NoEntry
    BY <1>2, <1>3, <2>1, Blank DEF AInv, AuthTypeOK
  <2>6. Touches(v, next)
    BY <2>1, <2>5 DEF Touches, AInv, AuthTypeOK
  <2> QED
    BY <2>1, <2>2, <2>3, <2>4, <2>6, VisitChange
<1> QED
  BY <1>1, <1>5, <1>6

\* A visit that ends.
LEMMA VisitOverStep ==
    ASSUME AInv, NEW v \in Visits, visit[v].pc \notin {"idle", "done"},
           NEW status \in {"unauthorized", "saved", "deleted", "failed"}, VisitOver(v, status),
           status = "deleted" => visit[v].pc = "evicting" /\ visit[v].collected = {},
           UNCHANGED <<auth, clock, cache, wire, login, past, stored>>,
           content' \in [Tables -> Visits \cup {None}],
           \A tb \in Tables : content'[tb] = content[tb] \/ content'[tb] = v
    PROVE  AInv'
<1> DEFINE next == [visit[v] EXCEPT !.pc = "done", !.status = status, !.collected = {}]
<1>1. visit[v] \in Visit
  BY Shapes
<1>2. /\ next \in Visit /\ next.pc = "done" /\ next.status = status /\ next.at = visit[v].at
      /\ next.secret = visit[v].secret /\ next.entry = visit[v].entry
      /\ next.began = visit[v].began /\ next.before = visit[v].before
  BY <1>1 DEF Visit
<1>3. VisitStep(v, next)
  BY DEF VisitOver
<1> HIDE DEF next
<1>4. Keeps(v, next) /\ LetIn(v, next) /\ Proceeds(v, next)
  BY <1>2 DEF Keeps, LetIn, Proceeds
<1>5. Touches(v, next)
  BY DEF Touches, AInv, AuthTypeOK
<1> QED
  BY <1>2, <1>3, <1>4, <1>5, VisitChange

LEMMA EndStep ==
    ASSUME AInv, NEW v \in Visits, Save(v) \/ AnswerDeleted(v) \/ FailVisit(v)
    PROVE  AInv'
<1>1. content \in [Tables -> Visits \cup {None}]
  BY DEF AInv, AuthTypeOK
<1>2. CASE Save(v)
  <2>1. /\ content' \in [Tables -> Visits \cup {None}]
        /\ \A tb \in Tables : content'[tb] = content[tb] \/ content'[tb] = v
    BY <1>1, <1>2 DEF Save
  <2> QED
    BY <1>2, <2>1, VisitOverStep DEF Save, VisitAt
<1>3. CASE AnswerDeleted(v)
  BY <1>1, <1>3, VisitOverStep DEF AnswerDeleted, VisitAt, VisitOnly
<1>4. CASE FailVisit(v)
  BY <1>1, <1>4, VisitOverStep DEF FailVisit, VisitOnly
<1> QED
  BY <1>2, <1>3, <1>4

LEMMA VerifyStep ==
    ASSUME AInv, NEW v \in Visits, Verify(v)
    PROVE  AInv'
<1>1. /\ visit[v].pc = "verifying" /\ VisitOnly /\ visit[v] \in Visit /\ VisitOK(v)
  BY Shapes DEF Verify, VisitAt, AInv
<1>2. CASE VisitOver(v, "unauthorized")
  BY <1>1, <1>2, VisitOverStep DEF VisitOnly, AInv, AuthTypeOK
<1>3. CASE visit[v].secret = auth /\ VisitStep(v, [visit[v] EXCEPT !.pc = "verified"])
  <2> DEFINE next == [visit[v] EXCEPT !.pc = "verified"]
  <2>1. /\ next \in Visit /\ next.pc = "verified" /\ next.status = visit[v].status
        /\ next.at = visit[v].at /\ next.secret = visit[v].secret
        /\ next.entry = visit[v].entry
        /\ next.began = visit[v].began /\ next.before = visit[v].before
    BY <1>1 DEF Visit
  <2>2. VisitStep(v, next)
    BY <1>3
  <2> HIDE DEF next
  <2>3. visit[v].began <= clock /\ visit[v].secret \in Logins /\ stored[auth] = clock
    BY <1>1, <1>3, Numbers DEF VisitOK, AInv, HistoryOK
  <2>4. Keeps(v, next) /\ LetIn(v, next) /\ Proceeds(v, next)
    BY <1>1, <1>3, <2>1, <2>3 DEF Keeps, LetIn, Proceeds, VisitOK
  <2> QED
    BY <1>1, <2>1, <2>2, <2>4, VisitOnlyStep
<1> QED
  BY <1>2, <1>3 DEF Verify, SecretMatches

LEMMA FillStep ==
    ASSUME AInv, NEW v \in Visits, Fill(v)
    PROVE  AInv'
<1> DEFINE e == [by |-> v, at |-> clock]
           next == [visit[v] EXCEPT !.pc = "inside", !.entry = e]
<1>1. /\ visit[v].pc = "verified" /\ visit[v] \in Visit /\ VisitOK(v) /\ VisitStep(v, next)
      /\ cache' = [cache EXCEPT ![visit[v].at][visit[v].secret] = e]
      /\ UNCHANGED <<auth, content, clock, wire, login, past, stored>>
  BY Shapes DEF Fill, VisitAt, AInv
<1>2. e \in Entry
  BY Shapes DEF Entry
<1>3. /\ next \in Visit /\ next.pc = "inside" /\ next.status = visit[v].status
      /\ next.at = visit[v].at /\ next.secret = visit[v].secret /\ next.entry = e
      /\ next.began = visit[v].began /\ next.before = visit[v].before
  BY <1>1, <1>2 DEF Visit
<1>4. visit[v].at \in Replicas /\ visit[v].secret \in Logins
  BY <1>1 DEF VisitOK
<1>5. /\ cache' \in [Replicas -> [Logins -> Entry]]
      /\ \A r \in Replicas, s \in Logins :
             \/ cache'[r][s] = cache[r][s]
             \/ s = visit[v].secret /\ cache'[r][s] = [by |-> v, at |-> clock]
  BY <1>1, <1>2, <1>4 DEF AInv, AuthTypeOK
<1> HIDE DEF next
<1>6. Keeps(v, next) /\ LetIn(v, next) /\ Proceeds(v, next)
  BY <1>1, <1>3 DEF Keeps, LetIn, Proceeds, VisitOK
<1>7. Touches(v, next)
  BY <1>1, <1>5 DEF Touches, AInv, AuthTypeOK
<1> QED
  BY <1>1, <1>3, <1>6, <1>7, VisitChange

LEMMA SendBatchStep ==
    ASSUME AInv, NEW v \in Visits, SendBatch(v)
    PROVE  AInv'
<1> DEFINE next == [visit[v] EXCEPT !.pc = "deleting"]
<1>1. /\ visit[v].pc = "inside" /\ visit[v] \in Visit /\ VisitOK(v) /\ VisitStep(v, next)
      /\ wire' = wire \cup {[visit |-> v, table |-> tb] : tb \in Batch}
      /\ UNCHANGED <<auth, content, clock, cache, login, past, stored>>
  BY Shapes DEF SendBatch, VisitAt, AInv
<1>2. /\ next \in Visit /\ next.pc = "deleting" /\ next.status = visit[v].status
      /\ next.at = visit[v].at /\ next.secret = visit[v].secret /\ next.entry = visit[v].entry
      /\ next.began = visit[v].began /\ next.before = visit[v].before
  BY <1>1 DEF Visit
<1> HIDE DEF next
<1>3. Keeps(v, next) /\ LetIn(v, next) /\ Proceeds(v, next)
  BY <1>1, <1>2 DEF Keeps, LetIn, Proceeds, VisitOK
<1>4. \A m \in wire' \ wire : m \in Part /\ m.visit = v
  BY <1>1 DEF Part, Batch
<1>5. Touches(v, next)
  BY <1>1, <1>2, <1>4 DEF Touches, AInv, AuthTypeOK
<1> QED
  BY <1>1, <1>2, <1>3, <1>5, VisitChange

LEMMA CollectStep ==
    ASSUME AInv, NEW v \in Visits, Collect(v)
    PROVE  AInv'
<1> DEFINE next == [visit[v] EXCEPT !.pc = "evicting", !.collected = Collected(visit[v].at)]
<1>1. /\ visit[v].pc = "deleting" /\ visit[v] \in Visit /\ VisitOK(v) /\ VisitStep(v, next)
      /\ VisitOnly /\ BatchDone(v)
  BY Shapes DEF Collect, VisitAt, AInv
<1>2. Collected(visit[v].at) \in SUBSET Logins
  BY DEF Collected
<1>3. /\ next \in Visit /\ next.pc = "evicting" /\ next.status = visit[v].status
      /\ next.at = visit[v].at /\ next.secret = visit[v].secret /\ next.entry = visit[v].entry
      /\ next.began = visit[v].began /\ next.before = visit[v].before
      /\ next.collected = Collected(visit[v].at)
  BY <1>1, <1>2 DEF Visit
<1> HIDE DEF next
<1>4. Keeps(v, next) /\ LetIn(v, next) /\ Proceeds(v, next)
  BY <1>1, <1>3 DEF Keeps, LetIn, Proceeds, VisitOK, VisitOnly
<1> QED
  BY <1>1, <1>3, <1>4, VisitOnlyStep

LEMMA InvalidateStep ==
    ASSUME AInv, NEW v \in Visits, NEW s \in Logins, Invalidate(v, s)
    PROVE  AInv'
<1> DEFINE next == [visit[v] EXCEPT !.collected = visit[v].collected \ {s}]
<1>1. /\ visit[v].pc = "evicting" /\ visit[v] \in Visit /\ VisitOK(v) /\ VisitStep(v, next)
      /\ cache' = [cache EXCEPT ![visit[v].at][s] = NoEntry]
      /\ UNCHANGED <<auth, content, clock, wire, login, past, stored>>
  BY Shapes DEF Invalidate, VisitAt, AInv
<1>2. /\ next \in Visit /\ next.pc = "evicting" /\ next.status = visit[v].status
      /\ next.at = visit[v].at /\ next.secret = visit[v].secret /\ next.entry = visit[v].entry
      /\ next.began = visit[v].began /\ next.before = visit[v].before
      /\ next.collected = visit[v].collected \ {s}
  BY <1>1 DEF Visit
<1>3. visit[v].at \in Replicas
  BY <1>1 DEF VisitOK
<1>4. /\ cache' \in [Replicas -> [Logins -> Entry]] /\ cache'[visit[v].at][s] = NoEntry
      /\ \A r \in Replicas, x \in Logins : cache'[r][x] = cache[r][x] \/ cache'[r][x] = NoEntry
  BY <1>1, <1>3, Blank DEF AInv, AuthTypeOK
<1> HIDE DEF next
<1>5. Keeps(v, next) /\ LetIn(v, next) /\ Proceeds(v, next)
  BY <1>1, <1>2, <1>4 DEF Keeps, LetIn, Proceeds, VisitOK
<1>6. Touches(v, next)
  BY <1>1, <1>4 DEF Touches, AInv, AuthTypeOK
<1> QED
  BY <1>1, <1>2, <1>5, <1>6, VisitChange

-----------------------------------------------------------------------------
LEMMA StutterStep ==
    ASSUME AInv, UNCHANGED vars
    PROVE  AInv'
<1>1. UNCHANGED <<auth, content, clock, cache, wire, login, visit, past, stored>>
  BY DEF vars
<1>2. AuthTypeOK' /\ HistoryOK' /\ InsertsOK' /\ PartsOK'
  BY <1>1 DEF AInv, AuthTypeOK, HistoryOK, InsertsOK, PartsOK
<1>3. SettledVisits \subseteq SettledVisits' /\ SettledLogins \subseteq SettledLogins'
  BY <1>1 DEF SettledVisits, SettledLogins
<1>4. /\ CacheOK' /\ InvalidationHolds'
      /\ \A v \in Visits : VisitOK(v)' /\ EvictOK(v)'
  BY <1>1, <1>3, Shapes, VisitsKept
<1>5. (\A l \in Logins : LoginOK(l)') /\ (\A d \in Visits : GoneOK(d)')
  BY <1>1 DEF AInv, LoginOK, Since, GoneOK, Deletes
<1> QED
  BY <1>2, <1>4, <1>5 DEF AInv

LEMMA NextAInv == AInv /\ [Next]_vars => AInv'
<1> SUFFICES ASSUME AInv, [Next]_vars PROVE AInv'
  OBVIOUS
<1>0. ASSUME NEW l \in Logins, RevokeInBackground(l) PROVE AInv'
  BY <1>0, RevokeInBackgroundStep
<1>1. ASSUME NEW l \in Logins, Call(l) \/ HandleLogin(l) \/ ResendInsert(l) \/ DropLogin(l)
      PROVE  AInv'
  <2>1. CASE Call(l)
    BY <2>1, CallStep
  <2>2. CASE EndsEarly(l)
    BY <2>2, RefuseStep
  <2>3. CASE Exchange(l)
    BY <2>3, ExchangeStep
  <2>4. CASE Admit(l) \/ ResendInsert(l)
    BY <2>4, SendInsertStep
  <2>5. CASE Inserted(l)
    BY <2>5, InsertedStep
  <2>6. CASE Reread(l)
    BY <2>6, RereadStep
  <2>7. CASE Grant(l)
    BY <2>7, GrantStep
  <2> QED
    BY <1>1, <2>1, <2>2, <2>3, <2>4, <2>5, <2>6, <2>7 DEF HandleLogin, EndsEarly
<1>2. ASSUME NEW v \in Visits, Arrive(v) PROVE AInv'
  BY <1>2, ArriveStep
<1>3. ASSUME NEW v \in Visits, HandleVisit(v) PROVE AInv'
  <2>1. CASE Verify(v)
    BY <2>1, VerifyStep
  <2>2. CASE Fill(v)
    BY <2>2, FillStep
  <2>3. CASE Save(v) \/ AnswerDeleted(v) \/ FailVisit(v)
    BY <2>3, EndStep
  <2>4. CASE SendBatch(v)
    BY <2>4, SendBatchStep
  <2>5. CASE Collect(v)
    BY <2>5, CollectStep
  <2>6. CASE \E s \in Logins : Invalidate(v, s)
    BY <2>6, InvalidateStep
  <2> QED
    BY <1>3, <2>1, <2>2, <2>3, <2>4, <2>5, <2>6 DEF HandleVisit
<1>4. ASSUME NEW m \in wire \cap Insert, ExecuteInsert(m) PROVE AInv'
  BY <1>4, ExecuteInsertStep
<1>5. ASSUME NEW m \in wire \cap Part, ExecutePart(m) PROVE AInv'
  BY <1>5, ExecutePartStep
<1>6. CASE Tick
  BY <1>6, TickStep
<1>7. CASE Rest \/ UNCHANGED vars
  BY <1>7, StutterStep DEF Rest
<1> QED
  BY <1>0, <1>1, <1>2, <1>3, <1>4, <1>5, <1>6, <1>7 DEF Next

\* The invariant holds in every state that logins, visits and deletions reach.
THEOREM AInvAlways == Spec => []AInv
<1>1. Init => AInv
  BY InitAInv
<1>2. AInv /\ [Next]_vars => AInv'
  BY NextAInv
<1> QED
  BY <1>1, <1>2, PTL DEF Spec

\* Every variable keeps its shape, for any number of replicas, logins and visits.
THEOREM AuthTypeCorrect == Spec => []AuthTypeOK
<1>1. AInv => AuthTypeOK
  BY DEF AInv
<1> QED
  BY <1>1, AInvAlways, PTL

\* A cached token lets requests in for at most the TTL after an entry was made by a
\* request that began while the secret was stored.
THEOREM DeadTokensExpire == Spec => []TokenOutlivesAccountByTTL
<1>1. AInv => TokenOutlivesAccountByTTL
  BY DEF AInv, VisitOK, EntryOK, Entered, TokenOutlivesAccountByTTL
<1> QED
  BY <1>1, AInvAlways, PTL

\* Where a deletion was answered, no entry of a request that was over before it
\* lets a later request in.
THEOREM InvalidationIsComplete == Spec => []InvalidationHolds
<1>1. AInv => InvalidationHolds
  BY DEF AInv
<1> QED
  BY <1>1, AInvAlways, PTL

\* Whoever is granted a secret is granted one the row held during the login.
THEOREM GrantedSecretsWereStored == Spec => []GrantedSecretWasStored
<1>1. AInv => GrantedSecretWasStored
  <2> SUFFICES ASSUME AInv, NEW l \in Logins, login[l].status = "granted"
               PROVE  \E i \in login[l].from .. Len(past) :
                          i \in DOMAIN past /\ past[i] = login[l].secret
    BY DEF GrantedSecretWasStored
  <2>1. LoginOK(l) /\ DOMAIN past = 1 .. Len(past) /\ login[l].from \in Nat
    BY Shapes DEF AInv, Login
  <2>2. PICK i \in 1 .. Len(past) : i >= login[l].from /\ past[i] = login[l].secret
    BY <2>1 DEF LoginOK, Since
  <2> QED
    BY <2>1, <2>2, Shapes
<1> QED
  BY <1>1, AInvAlways, PTL

\* After an acknowledged deletion no copy of an INSERT that the driver still has out
\* stores the secret of a login that was settled before it.
THEOREM DeletedSecretsStayDead == Spec => []DeletedSecretStaysDead
<1>1. AInv => DeletedSecretStaysDead
  <2> SUFFICES ASSUME AInv, NEW d \in Visits, visit[d].status = "deleted"
               PROVE  auth \notin visit[d].before.logins
    BY DEF DeletedSecretStaysDead
  <2>1. [visit |-> d, table |-> "auth"] \in Part
    BY DEF Part
  <2>2. [visit |-> d, table |-> "auth"] \notin wire
    BY <2>1 DEF AInv, PartsOK
  <2> QED
    BY <2>2 DEF AInv, GoneOK, Deletes
<1> QED
  BY <1>1, AInvAlways, PTL

\* After an acknowledged deletion no table holds what a request that was settled
\* before it had saved, in whatever order the batch was executed.
THEOREM DeletionIsComplete == Spec => []NothingLeftBehind
<1>1. AInv => NothingLeftBehind
  <2> SUFFICES ASSUME AInv, NEW d \in Visits, visit[d].status = "deleted", NEW tb \in Tables
               PROVE  content[tb] \notin visit[d].before.visits
    BY DEF NothingLeftBehind
  <2>1. [visit |-> d, table |-> tb] \in Part
    BY DEF Part
  <2>2. [visit |-> d, table |-> tb] \notin wire
    BY <2>1 DEF AInv, PartsOK
  <2> QED
    BY <2>2 DEF AInv, GoneOK, Deletes
<1> QED
  BY <1>1, AInvAlways, PTL

=============================================================================
