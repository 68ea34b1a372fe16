----------------------------- MODULE DeltaSync -----------------------------
(***************************************************************************)
(* POST /v2/sync (src/routes/v2/sync.rs) on top of the rows and saves of   *)
(* DataKeys. A device sends the manifest of what it holds and the values   *)
(* it wants stored. The handler reads the manifest of the server page by   *)
(* page, fetches the rows the device lacks, checks the uploads against the *)
(* manifest it read, saves those that pass side by side, and answers with  *)
(* downloads, accepted uploads, errors and its manifest brought up to date *)
(* with its own writes. Every upload is a task of DataKeys with the        *)
(* operation "save"; other requests run between all of these steps.        *)
(***************************************************************************)
EXTENDS DataKeys

CONSTANTS
    Syncs,        \* the sync requests; the task of an upload is <<sync, key>>
    Pages,        \* the pages of 1000 entries a manifest is read in
    UploadLists,  \* the lists of keys a device uploads
    MaxUploads    \* CONFIG.max_sync_uploads

\* Only a sync saves without the quota check: a client's own PUT has it.
ASSUME SyncAssumption ==
    /\ Syncs \X Keys \subseteq Tasks
    /\ Pages \in Seq(SUBSET Keys)
    /\ UNION {Pages[i] : i \in DOMAIN Pages} = Keys
    /\ UploadLists \subseteq Seq(Keys)
    /\ MaxUploads \in Nat
    /\ "save" \notin Ops

VARIABLES
    phase,     \* where each sync handler stands
    claims,    \* client_manifest: what the device says it holds, by key
    uploads,   \* request.uploads: the keys, in the order of the request
    page,      \* pages of the server manifest read so far
    manifest,  \* server_manifest
    fetched,   \* the rows get_data_keys has read
    accepted,  \* valid_uploads
    response,  \* what the device is told
    base,      \* history: which row of its past the device's copy of a key is
    mark,      \* history: the length of each row's past when it was listed
    since      \* history: the requests that were over when the sync began

syncVars ==
    <<phase, claims, uploads, page, manifest, fetched, accepted, response, base, mark, since>>

allVars == <<vars, syncVars>>

Clients == Tasks \ (Syncs \X Keys)

\* Why an upload or a download is reported to have failed.
Reasons == {"duplicate", "blocked", "value too large", "checksum", "pull first",
            "storage limit", "download", "save"}

Response == [manifest : [Keys -> Row], downloads : [Keys -> Row], uploaded : SUBSET Keys,
             errors : SUBSET [key : Keys, error : Reasons]]

NoResponse == [manifest |-> NoRows, downloads |-> NoRows, uploaded |-> {}, errors |-> {}]

Problem(k, why) == [key |-> k, error |-> why]

-----------------------------------------------------------------------------
SyncInit ==
    /\ Init
    /\ phase = [s \in Syncs |-> "idle"]
    /\ claims = [s \in Syncs |-> NoRows]
    /\ uploads = [s \in Syncs |-> <<>>]
    /\ page = [s \in Syncs |-> 0]
    /\ manifest = [s \in Syncs |-> NoRows]
    /\ fetched = [s \in Syncs |-> <<>>]
    /\ accepted = [s \in Syncs |-> {}]
    /\ response = [s \in Syncs |-> NoResponse]
    /\ base = [s \in Syncs |-> [k \in Keys |-> 0]]
    /\ mark = [s \in Syncs |-> [k \in Keys |-> 0]]
    /\ since = [s \in Syncs |-> {}]

\* What a device can hold of key k: nothing, a row it once saw, or such a row
\* edited since, whether it uploads that edit in this request or not.
Holdings(s, k) ==
    LET edited(row) == [row EXCEPT !.writer = <<s, k>>]
    IN  UNION {{[at |-> i, row |-> row] : row \in {past[k][i]} \cup
                   (IF past[k][i] = NoRow THEN {} ELSE {edited(past[k][i])})} :
               i \in DOMAIN past[k]}

\* A sync arrives; too many uploads or a client manifest too long (which may
\* list keys the server never had) is turned away at once.
StartSync(s) ==
    /\ phase[s] = "idle"
    /\ \E list \in UploadLists, held \in [Keys -> UNION {Holdings(s, k) : k \in Keys}],
          tooLong \in BOOLEAN :
           /\ \A k \in Keys : held[k] \in Holdings(s, k)
           /\ uploads' = [uploads EXCEPT ![s] = list]
           /\ claims' = [claims EXCEPT ![s] = [k \in Keys |-> held[k].row]]
           /\ base' = [base EXCEPT ![s] = [k \in Keys |-> held[k].at]]
           /\ phase' = [phase EXCEPT ![s] = IF Len(list) > MaxUploads \/ tooLong THEN "refused"
                                            ELSE "listing"]
    /\ since' = [since EXCEPT ![s] = {u \in Tasks : Settled(u)}]
    /\ UNCHANGED <<vars, page, manifest, fetched, accepted, response, mark>>

\* get_data_manifest reads one page after the other, not one snapshot.
ReadPage(s) ==
    /\ phase[s] = "listing"
    /\ page[s] < Len(Pages)
    /\ LET listed == Pages[page[s] + 1]
       IN  /\ manifest' = [manifest EXCEPT ![s] =
                  [k \in Keys |-> IF k \in listed THEN data[k] ELSE @[k]]]
           /\ mark' = [mark EXCEPT ![s] =
                  [k \in Keys |-> IF k \in listed THEN Len(past[k]) ELSE @[k]]]
    /\ page' = [page EXCEPT ![s] = @ + 1]
    /\ phase' = [phase EXCEPT ![s] = IF page[s] + 1 = Len(Pages) THEN "fetching" ELSE @]
    /\ UNCHANGED <<vars, claims, uploads, fetched, accepted, response, base, since>>

\* client_map: the device's manifest, built only when there are uploads.
ClientMap(s) == IF uploads[s] = <<>> THEN NoRows ELSE claims[s]

\* Fault: equal versions are taken for equal content.
UpToDate_VersionOnly(s, k) == ClientMap(s)[k].version >= manifest[s][k].version

\* The device's copy is as new as the listed row and has its checksum.
UpToDate(s, k) ==
    /\ ClientMap(s)[k].version >= manifest[s][k].version
    /\ ClientMap(s)[k].writer = manifest[s][k].writer

ToDownload(s) == {k \in Keys \ Blocked : manifest[s][k] # NoRow /\ ~ UpToDate(s, k)}

\* get_data_keys: one read per key, all under way at the same time.
Fetch(s, k) ==
    /\ phase[s] = "fetching"
    /\ k \in ToDownload(s) \ DOMAIN fetched[s]
    /\ fetched' = [fetched EXCEPT ![s] =
           [j \in DOMAIN @ \cup {k} |-> IF j = k THEN data[k] ELSE @[j]]]
    /\ UNCHANGED <<vars, phase, claims, uploads, page, manifest, accepted, response, base, mark, since>>

-----------------------------------------------------------------------------
\* Fault: a device that does not list the key may overwrite it.
Dominated_Listed(s, k) ==
    /\ manifest[s][k] # NoRow
    /\ claims[s][k] # NoRow
    /\ claims[s][k].version < manifest[s][k].version

\* dominated_by_server: the listed row is newer than the device's copy, or the
\* device does not hold the key.
Dominated(s, k) ==
    /\ manifest[s][k] # NoRow
    /\ claims[s][k].version < manifest[s][k].version

\* Why upload number i is turned away, given the size and keys before it.
Objection(s, i, size) ==
    LET k == uploads[s][i]
        t == <<s, k>>
    IN  CASE \E j \in 1 .. i - 1 : uploads[s][j] = k -> "duplicate"
          [] k \in Blocked                           -> "blocked"
          [] Size[t] > KeyMax[k]                     -> "value too large"
          [] t \in Corrupt                           -> "checksum"
          [] Dominated(s, k)                         -> "pull first"
          [] size - RowSize(manifest[s][k]) + Size[t] > MaxTotal -> "storage limit"
          [] OTHER                                   -> "none"

\* running_size once upload number i, which passed, is counted.
SizeAfter(s, i, size) == size - RowSize(manifest[s][uploads[s][i]]) + Size[<<s, uploads[s][i]>>]

\* Fault: what is stored already is not counted.
CurrentSize_Zero(s) == 0

CurrentSize(s) == Total(manifest[s])

\* running_size when the loop comes to upload number i.
RunningSize(s) ==
    LET size[i \in 1 .. Len(uploads[s]) + 1] ==
            IF i = 1 THEN CurrentSize(s)
            ELSE IF Objection(s, i - 1, size[i - 1]) = "none"
                 THEN SizeAfter(s, i - 1, size[i - 1])
                 ELSE size[i - 1]
    IN  size

Verdict(s, i) == Objection(s, i, RunningSize(s)[i])

\* valid_uploads, and the errors of the others.
Valid(s) == {uploads[s][i] : i \in {j \in DOMAIN uploads[s] : Verdict(s, j) = "none"}}

Invalid(s) ==
    {Problem(uploads[s][i], Verdict(s, i)) :
        i \in {j \in DOMAIN uploads[s] : Verdict(s, j) # "none"}}

\* The downloads are in, or one of their reads failed and all of them are
\* dropped and reported; the uploads are checked either way.
Check(s, downloaded) ==
    /\ phase[s] = "fetching"
    /\ downloaded => DOMAIN fetched[s] = ToDownload(s)
    /\ ~ downloaded => ToDownload(s) # {}
    /\ accepted' = [accepted EXCEPT ![s] = Valid(s)]
    /\ response' = [response EXCEPT ![s] =
           [@ EXCEPT !.downloads = [k \in Keys |->
                         IF downloaded /\ k \in ToDownload(s) THEN fetched[s][k] ELSE NoRow],
                     !.errors = Invalid(s) \cup
                         {Problem(k, "download") : k \in IF downloaded THEN {} ELSE ToDownload(s)}]]
    /\ phase' = [phase EXCEPT ![s] = "saving"]
    /\ fetched' = [fetched EXCEPT ![s] = <<>>]
    /\ UNCHANGED <<vars, claims, uploads, page, manifest, base, mark, since>>

-----------------------------------------------------------------------------
(* The batch of saves. *)

BeginUpload(s, k) ==
    /\ phase[s] = "saving"
    /\ k \in accepted[s]
    /\ Begin(<<s, k>>, "save", k)
    /\ UNCHANGED syncVars

StepUpload(s, k) ==
    /\ \/ ReadRow(<<s, k>>)
       \/ Send(<<s, k>>)
       \/ ReceiveApplied(<<s, k>>)
       \/ RetryAfterConflict(<<s, k>>)
    /\ UNCHANGED syncVars

Saved(s) == {k \in Keys : answer[<<s, k>>].status = "saved"}

UploadedRow(s, k) == [version |-> answer[<<s, k>>].version, writer |-> <<s, k>>]

\* Fault: the answer lists the rows as they were before the uploads.
MergedRow_Stale(s, k) == manifest[s][k]

\* The entry of key k in the manifest of the answer.
MergedRow(s, k) == IF k \in Saved(s) THEN UploadedRow(s, k) ELSE manifest[s][k]

Visible(s, k) == IF k \in Blocked THEN NoRow ELSE MergedRow(s, k)

\* Every save succeeded: the uploads are reported and merged.
Respond(s) ==
    /\ phase[s] = "saving"
    /\ accepted[s] = Saved(s)
    /\ phase' = [phase EXCEPT ![s] = "done"]
    /\ response' = [response EXCEPT ![s] =
           [@ EXCEPT !.uploaded = Saved(s),
                     !.manifest = [k \in Keys |-> Visible(s, k)]]]
    /\ UNCHANGED <<vars, claims, uploads, page, manifest, fetched, accepted, base, mark, since>>

\* The handlers of uploads that are dropped before they end.
Drop(s) ==
    LET running == {<<s, k>> : k \in {j \in Keys : pc[<<s, j>>] \in {"reading", "waiting"}}}
    IN  /\ pc' = [t \in Tasks |-> IF t \in running THEN "done" ELSE pc[t]]
        /\ local' = [t \in Tasks |-> IF t \in running THEN Loop(0) ELSE local[t]]
        /\ answer' = [t \in Tasks |-> IF t \in running THEN Told("error") ELSE answer[t]]
        /\ UNCHANGED <<data, wire, req, past, before, from>>

\* One save fails, by an error or by exhausted retries: the batch returns at
\* once, drops the saves that are still running, and every upload is reported
\* as not saved, those included that were.
FailBatch(s) ==
    /\ phase[s] = "saving"
    /\ \E k \in accepted[s] : MayFail(<<s, k>>)
    /\ Drop(s)
    /\ phase' = [phase EXCEPT ![s] = "done"]
    /\ response' = [response EXCEPT ![s] =
           [@ EXCEPT !.errors = response[s].errors \cup {Problem(k, "save") : k \in accepted[s]},
                     !.manifest = [k \in Keys |-> IF k \in Blocked THEN NoRow ELSE manifest[s][k]]]]
    /\ UNCHANGED <<claims, uploads, page, manifest, fetched, accepted, base, mark, since>>

\* The manifest cannot be read: the answer is an error.
FailListing(s) ==
    /\ phase[s] = "listing"
    /\ phase' = [phase EXCEPT ![s] = "failed"]
    /\ UNCHANGED <<vars, claims, uploads, page, manifest, fetched, accepted, response, base, mark, since>>

\* The device hangs up: the handler is dropped at its await, and the saves it
\* runs with it.
HangUp(s) ==
    /\ phase[s] \in {"listing", "fetching", "saving"}
    /\ Drop(s)
    /\ phase' = [phase EXCEPT ![s] = "failed"]
    /\ response' = [response EXCEPT ![s] = NoResponse]
    /\ UNCHANGED <<claims, uploads, page, manifest, fetched, accepted, base, mark, since>>

-----------------------------------------------------------------------------
HandleSync(s) ==
    \/ ReadPage(s)
    \/ \E k \in Keys : Fetch(s, k) \/ BeginUpload(s, k) \/ StepUpload(s, k)
    \/ \E downloaded \in BOOLEAN : Check(s, downloaded)
    \/ Respond(s)
    \/ FailBatch(s)
    \/ FailListing(s)

\* The other requests of the user, and the database and driver.
Elsewhere ==
    /\ \/ \E t \in Clients : Arrive(t) \/ Handle(t)
       \/ \E t \in Tasks : Resend(t)
       \/ \E m \in wire : Execute(m)
    /\ UNCHANGED syncVars

SyncRest ==
    /\ \A s \in Syncs : phase[s] \in {"done", "refused", "failed"}
    /\ \A t \in Clients : pc[t] = "done"
    /\ wire = {}
    /\ UNCHANGED allVars

SyncNext ==
    \/ \E s \in Syncs : StartSync(s) \/ HandleSync(s) \/ HangUp(s)
    \/ Elsewhere
    \/ SyncRest

SyncSpec == SyncInit /\ [][SyncNext]_allVars

\* As in DataKeys: a handler that can go on does, and every wait ends with the
\* driver's request timeout. No device has to hang up.
FairSyncSpec ==
    /\ SyncSpec
    /\ \A s \in Syncs : WF_allVars(HandleSync(s))
    /\ \A t \in Clients : WF_allVars(Handle(t) /\ UNCHANGED syncVars)

-----------------------------------------------------------------------------
(* Correctness. *)

\* The variables of the handler keep their shape, and those of DataKeys theirs.
SyncTypeOK ==
    /\ TypeOK
    /\ phase \in [Syncs -> {"idle", "refused", "listing", "fetching", "saving", "done", "failed"}]
    /\ claims \in [Syncs -> [Keys -> Row]]
    /\ uploads \in [Syncs -> UploadLists \cup {<<>>}]
    /\ page \in [Syncs -> 0 .. Len(Pages)]
    /\ manifest \in [Syncs -> [Keys -> Row]]
    /\ DOMAIN fetched = Syncs
    /\ \A s \in Syncs : \E ks \in SUBSET Keys : fetched[s] \in [ks -> Row]
    /\ accepted \in [Syncs -> SUBSET Keys]
    /\ response \in [Syncs -> Response]
    /\ \A s \in Syncs : response[s].uploaded \subseteq accepted[s]
    /\ base \in [Syncs -> [Keys -> Nat]]
    /\ mark \in [Syncs -> [Keys -> Nat]]
    /\ since \in [Syncs -> SUBSET Tasks]

\* The rows of k's history from the one that was listed on.
SinceListed(s, k) == {past[k][i] : i \in mark[s][k] .. Len(past[k])}

Reported(s, k) == \E e \in response[s].errors : e.key = k

\* A device that applies the answer holds every key the answer lists: it held
\* the listed content, or is sent the listed row or a later one, or uploaded
\* the listed content, or the row is gone by the time it is fetched, or the
\* answer reports a problem with the key.
AnswerCoversManifest ==
    \A s \in Syncs : \A k \in Keys :
        LET row  == response[s].manifest[k]
            sent == response[s].downloads[k]
        IN  phase[s] = "done" /\ row # NoRow =>
                \/ claims[s][k].writer = row.writer
                \/ sent # NoRow /\ sent \in SinceListed(s, k)
                \/ row = UploadedRow(s, k)
                \/ NoRow \in SinceListed(s, k)
                \/ Reported(s, k)

\* An upload accepted against a listed row replaces that row only if it is the
\* one the device's copy is of, but in two cases. A row stored after the
\* listing is not the one compared. And when the key was deleted after the
\* device saw it, versions started over: the device's copy is of a row that is
\* gone, and it replaces a new one that counts no higher, or puts the key back.
UnseenOverwrittenOnlyByRaceOrDelete ==
    \A s \in Syncs : \A k \in Keys : \A i \in 2 .. Len(past[k]) :
        past[k][i].writer = <<s, k>> =>
            \/ i - 1 = base[s][k]
            \/ i - 1 > mark[s][k]
            \/ /\ past[k][i - 1].version <= claims[s][k].version
               /\ \E d \in base[s][k] + 1 .. mark[s][k] : past[k][d] = NoRow

\* A request of a device, with the uploads of one sync as one request that
\* begins when the sync does.
Began(t) == IF t \in Syncs \X Keys THEN since[t[1]] ELSE before[t]

SameRequest(t, u) == t = u \/ (t \in Syncs \X Keys /\ u \in Syncs \X Keys /\ t[1] = u[1])

\* The user goes over MaxTotal only when two requests overlapped, or while or
\* after a batch is saved in part: the uploads of a sync are counted one on top
\* of the other, a smaller value making room for the next, but are saved in any
\* order, and the one that makes room may be the one that fails.
SyncOverLimitOnlyByOverlap ==
    Total(data) > MaxTotal =>
        \E k \in Keys, u \in Tasks :
            LET w == data[k].writer
            IN  /\ w # None
                /\ \/ w \notin Clients /\ accepted[w[1]] # Saved(w[1])
                   \/ /\ ~ SameRequest(w, u)
                      /\ pc[u] # "idle" /\ w \notin Began(u) /\ u \notin Began(w)

\* A key both sent to the device and accepted from it was accepted with the
\* higher version, unless the row was deleted: a device that keeps the higher
\* version does not lose its upload to its own download.
UploadBeatsDownload ==
    \A s \in Syncs : \A k \in response[s].uploaded :
        /\ phase[s] = "done"
        /\ response[s].downloads[k] # NoRow
        /\ NoRow \notin SinceListed(s, k)
        => response[s].manifest[k].version > response[s].downloads[k].version

\* Every sync is answered: the reads, the checks and the batch of saves end,
\* although statements are lost and saves meet other writers.
EverySyncAnswered ==
    \A s \in Syncs : phase[s] = "listing" ~> phase[s] \in {"done", "failed"}

\* The answer sends only what the device lacks: no key whose listed row it
\* already holds with that content and version.
DownloadsOnlyWhatDiffers ==
    \A s \in Syncs : \A k \in Keys :
        phase[s] = "done" /\ response[s].downloads[k] # NoRow =>
            ~ (/\ claims[s][k].version >= manifest[s][k].version
               /\ claims[s][k].writer = manifest[s][k].writer)

=============================================================================
