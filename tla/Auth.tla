-------------------------------- MODULE Auth --------------------------------
(***************************************************************************)
(* The account of one user: the row of the table auth, the logins that     *)
(* create it (src/routes/v1/oauth/callback.rs,                             *)
(* get_or_create_user_auth_secret), the requests that present its secret   *)
(* (src/middleware/auth.rs, with one token cache per replica), and the     *)
(* account deletion (src/routes/v1/delete.rs, delete_user_account).        *)
(*                                                                         *)
(* A login generates a secret at random, so the secret is named by the     *)
(* login. A token is a secret and the user's id; there is one user, so the *)
(* token is the secret. What a request saves is told apart by the request; *)
(* the saves themselves are those of DataKeys and Settings, here one step. *)
(* As there, statements marked idempotent may be sent again and executed   *)
(* late, and a client that hangs up drops its handler at an await.         *)
(***************************************************************************)
EXTENDS Integers, Sequences, FiniteSets

CONSTANTS
    Replicas,    \* the server processes, each with a token cache
    Logins,      \* calls of the OAuth callback; also the secrets they generate
    Visits,      \* requests that pass through the auth middleware
    None,        \* no secret, no request
    Tables,      \* the tables of the user's content: users and data
    Wants,       \* what each visit may ask for: to save to a table, or "delete"
    Reach,       \* the replicas each visit may be routed to
    TTL,         \* AUTH_CACHE_TTL_SECS
    MaxClock,    \* bound on the time that passes
    MaxResends   \* further copies the driver sends of a late INSERT

ASSUME AuthAssumption ==
    /\ None \notin Logins \cup Visits
    /\ Tables \subseteq {"users", "data"}
    /\ Wants \in [Visits -> SUBSET (Tables \cup {"delete"})]
    /\ Reach \in [Visits -> SUBSET Replicas]
    /\ TTL \in Nat \ {0}
    /\ MaxClock \in Nat \ {0}
    /\ MaxResends \in Nat

VARIABLES
    auth,     \* the secret in the user's row of auth
    content,  \* the request that wrote the user's content in each table
    clock,    \* the time
    cache,    \* the token cache of each replica
    wire,     \* statements sent and not executed
    login,    \* where each login stands
    visit,    \* where each visit stands
    past,     \* history: the successive contents of the row of auth
    stored    \* history: when each secret was last in the row

vars == <<auth, content, clock, cache, wire, login, visit, past, stored>>

-----------------------------------------------------------------------------
\* A cache entry: the visit that verified the token, and when it was inserted.
Entry == [by : Visits \cup {None}, at : Nat]

NoEntry == [by |-> None, at |-> 0]

\* An entry is found until its time to live is over.
Live(e) == e # NoEntry /\ clock < e.at + TTL

\* The Discord token of a login: the server knows of none; the handler holds it;
\* it was handed to a task that is to revoke it; Discord was asked to revoke it.
Login == [pc     : {"idle", "exchanging", "asking", "inserting", "rereading", "revoking", "done"},
          copies : 0 .. MaxResends + 1,
          reply  : SUBSET {"applied", "rejected"},
          token  : {"none", "held", "handed", "asked"},
          status : {"none", "granted", "refused", "dropped"},
          secret : Logins \cup {None},
          from   : Nat]

NoLogin == [pc |-> "idle", copies |-> 0, reply |-> {}, token |-> "none",
            status |-> "none", secret |-> None, from |-> 0]

Visit == [pc        : {"idle", "verifying", "verified", "inside", "deleting", "evicting", "done"},
          op        : Tables \cup {"none", "delete"},
          at        : Replicas \cup {None},
          secret    : Logins \cup {None},
          entry     : Entry,
          collected : SUBSET Logins,
          status    : {"none", "unauthorized", "saved", "deleted", "failed"},
          began     : Nat,
          before    : [visits : SUBSET Visits, logins : SUBSET Logins]]

NoVisit == [pc |-> "idle", op |-> "none", at |-> None, secret |-> None, entry |-> NoEntry,
            collected |-> {}, status |-> "none", began |-> 0,
            before |-> [visits |-> {}, logins |-> {}]]

\* A copy of a login's INSERT, or one statement of a deletion's batch.
Insert == [login : Logins, copy : 1 .. MaxResends + 1]

Part == [visit : Visits, table : Tables \cup {"auth"}]

\* Requests that are over: answered or dropped, and everything they sent executed.
SettledVisits == {v \in Visits : visit[v].pc = "done" /\ \A m \in wire \cap Part : m.visit # v}

SettledLogins == {l \in Logins : login[l].pc = "done" /\ \A m \in wire \cap Insert : m.login # l}

-----------------------------------------------------------------------------
Init ==
    /\ auth = None
    /\ content = [tb \in Tables |-> None]
    /\ clock = 1
    /\ cache = [r \in Replicas |-> [s \in Logins |-> NoEntry]]
    /\ wire = {}
    /\ login = [l \in Logins |-> NoLogin]
    /\ visit = [v \in Visits |-> NoVisit]
    /\ past = <<None>>
    /\ stored = [s \in Logins |-> 0]

-----------------------------------------------------------------------------
(* The OAuth callback. *)

LoginAt(l, place) == login[l].pc = place

LoginStep(l, next) == login' = [login EXCEPT ![l] = next]

LoginOver(l, status, token, secret) ==
    LoginStep(l, [login[l] EXCEPT !.pc = "done", !.copies = 0, !.reply = {},
                                  !.token = token, !.status = status, !.secret = secret])

LoginOnly == UNCHANGED <<auth, content, clock, cache, wire, visit, past, stored>>

\* A call without a code, or that reports an error of the provider, is refused
\* at once; any other goes to Discord.
Call(l) ==
    /\ LoginAt(l, "idle")
    /\ \/ LoginStep(l, [NoLogin EXCEPT !.pc = "exchanging", !.from = Len(past)])
       \/ LoginOver(l, "refused", "none", None)
    /\ LoginOnly

\* The exchange fails, or its answer is lost or unreadable: if Discord issued a
\* token the server does not know it.
ExchangeFails(l) ==
    /\ LoginAt(l, "exchanging")
    /\ LoginOver(l, "refused", "none", None)
    /\ LoginOnly

Exchange(l) ==
    /\ LoginAt(l, "exchanging")
    /\ LoginStep(l, [login[l] EXCEPT !.pc = "asking", !.token = "held"])
    /\ LoginOnly

\* revoke_discord_token_in_background, and an error to the client.
RefuseAndRevoke(l) == LoginOver(l, "refused", "handed", None) /\ LoginOnly

\* The token does not have the scope identify.
WrongScope(l) == LoginAt(l, "exchanging") /\ RefuseAndRevoke(l)

\* The token is not a bearer token.
WrongType(l) == LoginAt(l, "exchanging") /\ RefuseAndRevoke(l)

\* Discord cannot be asked who the user is,
UserRequestFails(l) == LoginAt(l, "asking") /\ RefuseAndRevoke(l)

\* refuses to say so,
UserRequestRefused(l) == LoginAt(l, "asking") /\ RefuseAndRevoke(l)

\* or its answer breaks off or is unreadable.
UserUnreadable(l) == LoginAt(l, "asking") /\ RefuseAndRevoke(l)

\* Fault: this early return forgets the token.
NotWhitelisted_Forgets(l) ==
    LoginAt(l, "asking") /\ LoginOver(l, "refused", "held", None) /\ LoginOnly

\* The replica has a list of users, and this one is not in it.
NotWhitelisted(l) == LoginAt(l, "asking") /\ RefuseAndRevoke(l)

\* The replica has neither a list nor leave to admit everyone.
NotConfigured(l) == LoginAt(l, "asking") /\ RefuseAndRevoke(l)

\* The task that an early return spawned. A failure to revoke is only logged.
RevokeInBackground(l) ==
    /\ login[l].token = "handed"
    /\ LoginStep(l, [login[l] EXCEPT !.token = "asked"])
    /\ LoginOnly

SendInsert(l) ==
    /\ LoginStep(l, [login[l] EXCEPT !.pc = "inserting", !.copies = login[l].copies + 1])
    /\ wire' = wire \cup {[login |-> l, copy |-> login[l].copies + 1]}
    /\ UNCHANGED <<auth, content, clock, cache, visit, past, stored>>

\* The user is known and allowed: INSERT INTO auth ... IF NOT EXISTS.
Admit(l) == LoginAt(l, "asking") /\ SendInsert(l)

\* Fault: one copy too many.
MayResend_OffByOne(l) == login[l].copies <= MaxResends + 1

MayResend(l) == login[l].copies <= MaxResends

\* The INSERT is marked idempotent, and sent again when it is late.
ResendInsert(l) ==
    /\ LoginAt(l, "inserting")
    /\ MayResend(l)
    /\ SendInsert(l)

\* The row of auth takes a value; history keeps the values it had.
SetAuth(secret) ==
    /\ auth' = secret
    /\ past' = IF secret = auth THEN past ELSE Append(past, secret)
    /\ stored' = [s \in Logins |-> IF s \in {auth, secret} THEN clock ELSE stored[s]]

InsertApplies == auth = None

ExecuteInsert(m) ==
    LET l == m.login
    IN  /\ SetAuth(IF InsertApplies THEN l ELSE auth)
        /\ login' = IF LoginAt(l, "inserting")
                    THEN [login EXCEPT ![l].reply =
                              login[l].reply \cup {IF InsertApplies THEN "applied" ELSE "rejected"}]
                    ELSE login
        /\ wire' = wire \ {m}
        /\ UNCHANGED <<content, clock, cache, visit>>

\* Fault: the secret that was generated is handed out although the row had one.
MustReread_Never(l) == FALSE

MustReread(l) == "rejected" \in login[l].reply

Inserted(l) ==
    /\ LoginAt(l, "inserting")
    /\ login[l].reply # {}
    /\ \/ /\ "applied" \in login[l].reply \/ ~ MustReread(l)
          /\ LoginStep(l, [login[l] EXCEPT !.pc = "revoking", !.secret = l])
       \/ /\ MustReread(l)
          /\ LoginStep(l, [login[l] EXCEPT !.pc = "rereading"])
    /\ LoginOnly

\* The row existed and is read back, unless it is gone by now.
Reread(l) ==
    /\ LoginAt(l, "rereading")
    /\ IF auth = None
       THEN RefuseAndRevoke(l)
       ELSE LoginStep(l, [login[l] EXCEPT !.pc = "revoking", !.secret = auth]) /\ LoginOnly

\* The database fails, or does not answer in time.
FailLogin(l) ==
    /\ LoginAt(l, "inserting") \/ LoginAt(l, "rereading")
    /\ RefuseAndRevoke(l)

\* The token is revoked before the secret is handed out; a failure is only logged.
Grant(l) ==
    /\ LoginAt(l, "revoking")
    /\ LoginOver(l, "granted", "asked", login[l].secret)
    /\ LoginOnly

\* The client hangs up, and the handler is dropped where it waits.
DropLogin(l) ==
    /\ login[l].pc \notin {"idle", "done"}
    /\ LoginOver(l, "dropped", login[l].token, None)
    /\ LoginOnly

-----------------------------------------------------------------------------
(* The auth middleware and the handlers behind it. *)

VisitAt(v, place) == visit[v].pc = place

VisitStep(v, next) == visit' = [visit EXCEPT ![v] = next]

VisitOver(v, status) ==
    VisitStep(v, [visit[v] EXCEPT !.pc = "done", !.status = status, !.collected = {}])

VisitOnly == UNCHANGED <<auth, content, clock, cache, wire, login, past, stored>>

\* Fault: entries of the cache do not expire.
Hit_NoTTL(r, s) == cache[r][s] # NoEntry

Hit(r, s) == Live(cache[r][s])

Arrived(v, op, r, s, place, e) ==
    visit' = [visit EXCEPT ![v] =
        [NoVisit EXCEPT !.pc = place, !.op = op, !.at = r, !.secret = s, !.entry = e,
                        !.began = clock,
                        !.before = [visits |-> SettledVisits, logins |-> SettledLogins]]]

\* A request with a token in the cache is let in as it is.
ArriveKnown(v, op, r, s) ==
    /\ VisitAt(v, "idle")
    /\ Hit(r, s)
    /\ Arrived(v, op, r, s, "inside", cache[r][s])
    /\ VisitOnly

\* Any other token is verified. An entry that is there may have been evicted from
\* a cache at its capacity; that shows when it is looked for.
ArriveUnknown(v, op, r, s) ==
    /\ VisitAt(v, "idle")
    /\ cache' = [cache EXCEPT ![r][s] = NoEntry]
    /\ Arrived(v, op, r, s, "verifying", NoEntry)
    /\ UNCHANGED <<auth, content, clock, wire, login, past, stored>>

SecretMatches(v) == visit[v].secret = auth

\* SELECT secret FROM auth, and the comparison.
Verify(v) ==
    /\ VisitAt(v, "verifying")
    /\ IF SecretMatches(v)
       THEN VisitStep(v, [visit[v] EXCEPT !.pc = "verified"])
       ELSE VisitOver(v, "unauthorized")
    /\ VisitOnly

\* The token enters the cache of the replica, and the request its handler.
Fill(v) ==
    LET e == [by |-> v, at |-> clock]
    IN  /\ VisitAt(v, "verified")
        /\ cache' = [cache EXCEPT ![visit[v].at][visit[v].secret] = e]
        /\ VisitStep(v, [visit[v] EXCEPT !.pc = "inside", !.entry = e])
        /\ UNCHANGED <<auth, content, clock, wire, login, past, stored>>

\* The handlers of settings and data.
Save(v) ==
    /\ VisitAt(v, "inside")
    /\ visit[v].op \in Tables
    /\ content' = [content EXCEPT ![visit[v].op] = v]
    /\ VisitOver(v, "saved")
    /\ UNCHANGED <<auth, clock, cache, wire, login, past, stored>>

\* Fault: the batch leaves out the table data.
Batch_WithoutData == (Tables \ {"data"}) \cup {"auth"}

Batch == Tables \cup {"auth"}

\* DELETE /v1: an unlogged batch of one DELETE per table, sent once.
SendBatch(v) ==
    /\ VisitAt(v, "inside")
    /\ visit[v].op = "delete"
    /\ VisitStep(v, [visit[v] EXCEPT !.pc = "deleting"])
    /\ wire' = wire \cup {[visit |-> v, table |-> tb] : tb \in Batch}
    /\ UNCHANGED <<auth, content, clock, cache, login, past, stored>>

\* The tables are partitions of their own, and the batch is not atomic.
ExecutePart(m) ==
    /\ content' = IF m.table = "auth" THEN content ELSE [content EXCEPT ![m.table] = None]
    /\ SetAuth(IF m.table = "auth" THEN None ELSE auth)
    /\ wire' = wire \ {m}
    /\ UNCHANGED <<clock, cache, login, visit>>

\* Fault: the entries are compared by their key, which is the token.
Collected_ByKey(r) == {}

\* The tokens of the user in the cache of one replica.
Collected(r) == {s \in Logins : Live(cache[r][s])}

\* Fault: an answer to the first of the three statements will do.
BatchDone_First(v) == \E tb \in Batch : [visit |-> v, table |-> tb] \notin wire

BatchDone(v) == \A tb \in Batch : [visit |-> v, table |-> tb] \notin wire

\* All statements are executed: invalidate_user_cache lists the user's tokens,
Collect(v) ==
    /\ VisitAt(v, "deleting")
    /\ BatchDone(v)
    /\ VisitStep(v, [visit[v] EXCEPT !.pc = "evicting", !.collected = Collected(visit[v].at)])
    /\ VisitOnly

\* and removes them one by one.
Invalidate(v, s) ==
    /\ VisitAt(v, "evicting")
    /\ s \in visit[v].collected
    /\ cache' = [cache EXCEPT ![visit[v].at][s] = NoEntry]
    /\ VisitStep(v, [visit[v] EXCEPT !.collected = visit[v].collected \ {s}])
    /\ UNCHANGED <<auth, content, clock, wire, login, past, stored>>

AnswerDeleted(v) ==
    /\ VisitAt(v, "evicting")
    /\ visit[v].collected = {}
    /\ VisitOver(v, "deleted")
    /\ VisitOnly

\* A database error or a timeout, or the client hanging up, which drops the
\* handler where it waits: a deletion that failed leaves the cache alone, and so
\* may one that succeeded. A failed verification is answered as a wrong token.
FailVisit(v) ==
    /\ visit[v].pc \notin {"idle", "done"}
    /\ VisitOver(v, IF VisitAt(v, "verifying") THEN "unauthorized" ELSE "failed")
    /\ VisitOnly

-----------------------------------------------------------------------------
Tick ==
    /\ clock < MaxClock
    /\ clock' = clock + 1
    /\ stored' = [s \in Logins |-> IF s = auth THEN clock + 1 ELSE stored[s]]
    /\ UNCHANGED <<auth, content, cache, wire, login, visit, past>>

\* Nothing is under way; devices need not call again.
Rest ==
    /\ \A v \in Visits : VisitAt(v, "idle") \/ v \in SettledVisits
    /\ SettledLogins = Logins
    /\ UNCHANGED vars

HandleLogin(l) ==
    \/ ExchangeFails(l) \/ WrongScope(l) \/ WrongType(l) \/ Exchange(l)
    \/ UserRequestFails(l) \/ UserRequestRefused(l) \/ UserUnreadable(l)
    \/ NotWhitelisted(l) \/ NotConfigured(l) \/ Admit(l)
    \/ Inserted(l) \/ Reread(l) \/ FailLogin(l) \/ Grant(l)

HandleVisit(v) ==
    \/ Verify(v) \/ Fill(v) \/ Save(v) \/ SendBatch(v) \/ Collect(v)
    \/ \E s \in Logins : Invalidate(v, s)
    \/ AnswerDeleted(v) \/ FailVisit(v)

\* A device has a secret from a login. A made-up token fares as a dead one does.
HandedOut == {login[l].secret : l \in {k \in Logins : login[k].status = "granted"}}

Arrive(v) ==
    \E op \in Wants[v], r \in Reach[v], s \in HandedOut :
        ArriveKnown(v, op, r, s) \/ ArriveUnknown(v, op, r, s)

Next ==
    \/ \E l \in Logins : Call(l) \/ HandleLogin(l) \/ ResendInsert(l) \/ DropLogin(l)
    \/ \E l \in Logins : RevokeInBackground(l)
    \/ \E v \in Visits : Arrive(v)
    \/ \E v \in Visits : HandleVisit(v)
    \/ \E m \in wire \cap Insert : ExecuteInsert(m)
    \/ \E m \in wire \cap Part : ExecutePart(m)
    \/ Tick
    \/ Rest

Spec == Init /\ [][Next]_vars

\* The runtime polls a callback that can go on, and the tasks it spawned; the
\* timeouts of the HTTP client and of the driver end its waits. Clients may hang
\* up or not, and need not come.
FairSpec ==
    /\ Spec
    /\ \A l \in Logins : WF_vars(HandleLogin(l)) /\ WF_vars(RevokeInBackground(l))

-----------------------------------------------------------------------------
(* Correctness. *)

\* Every variable keeps its shape: requests are where their handlers can be, and
\* the cache and the wire hold what the handlers put there.
AuthTypeOK ==
    /\ auth \in Logins \cup {None}
    /\ content \in [Tables -> Visits \cup {None}]
    /\ clock \in 1 .. MaxClock
    /\ cache \in [Replicas -> [Logins -> Entry]]
    /\ wire \subseteq Insert \cup Part
    /\ login \in [Logins -> Login]
    /\ visit \in [Visits -> Visit]
    /\ past \in Seq(Logins \cup {None})
    /\ stored \in [Logins -> Nat]

Entered(v) == visit[v].entry # NoEntry

\* A request is let in by a token that was not in the database any more only
\* through a cache entry younger than the TTL, made by a request that began
\* while the token was stored: verification started before a deletion prolongs
\* a dead token by at most the TTL after it ended.
TokenOutlivesAccountByTTL ==
    \A v \in Visits : Entered(v) =>
        LET e == visit[v].entry
        IN  /\ visit[e.by].began <= stored[visit[v].secret]
            /\ visit[v].began < e.at + TTL

\* On the replica that answered a deletion, no later request is let in by an
\* entry of a request that was over when the deletion began: what invalidation
\* misses is only what was being verified meanwhile.
InvalidationHolds ==
    \A v, d \in Visits :
        /\ Entered(v)
        /\ visit[d].status = "deleted"
        /\ d \in visit[v].before.visits
        /\ visit[d].at = visit[v].at
        => visit[v].entry.by \notin visit[d].before.visits \cup {d}

\* A login hands out a secret that was stored while it was under way: not one
\* whose account was deleted before it began, and not one that lost the race of
\* two first logins.
GrantedSecretWasStored ==
    \A l \in Logins : login[l].status = "granted" =>
        \E i \in login[l].from .. Len(past) : i \in DOMAIN past /\ past[i] = login[l].secret

\* Once a deletion is acknowledged, the secret of a login that was settled when
\* it began is never stored again.
DeletedSecretStaysDead ==
    \A d \in Visits : visit[d].status = "deleted" => auth \notin visit[d].before.logins

\* Once a deletion is acknowledged, nothing is left in any table of what was
\* saved by a request that was settled when it began.
NothingLeftBehind ==
    \A d \in Visits : visit[d].status = "deleted" =>
        \A tb \in Tables : content[tb] \notin visit[d].before.visits

\* Discord is asked to revoke every token the server got: before the secret is
\* handed out, or by a task of its own on each path that returns early. Only a
\* client that hangs up leaves a token behind, with the handler that is dropped.
TokensAreRevoked ==
    \A l \in Logins :
        login[l].token \in {"held", "handed"}
            ~> login[l].token = "asked" \/ login[l].status = "dropped"

=============================================================================
