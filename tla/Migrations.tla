----------------------------- MODULE Migrations -----------------------------
(***************************************************************************)
(* Schema migrations (src/lib/migrations.rs), run by every replica before  *)
(* it serves (src/main.rs). Several replicas may start at once, they may   *)
(* be of different code revisions, and each may crash at any await and is  *)
(* started again (compose.yml, restart: unless-stopped).                   *)
(*                                                                         *)
(* A runner creates the keyspace and the table schema_migrations, and then *)
(* takes the files in the order of their names: it looks the file up,      *)
(* executes its statement if there is no record, and records the checksum  *)
(* by INSERT IF NOT EXISTS. Every statement that creates something says IF *)
(* NOT EXISTS, so what is there stays. A runner that stops leaves the      *)
(* statement it waited for on the wire, where it may still be executed.    *)
(* The content of a file is its checksum.                                  *)
(***************************************************************************)
EXTENDS Integers, FiniteSets

CONSTANTS
    Runners,     \* the replicas
    NFiles,      \* the number of migration files
    Checksum,    \* the checksum of each file in the revision of each replica
    None,        \* no checksum
    MaxCrashes   \* bound on the crashes and database errors of each replica

Files == 1 .. NFiles

Checksums == UNION {{Checksum[r][f] : f \in Files} : r \in Runners}

ASSUME MigrationsAssumption ==
    /\ NFiles \in Nat \ {0}
    /\ \A r \in Runners : DOMAIN Checksum[r] = Files
    /\ None \notin Checksums
    /\ MaxCrashes \in [Runners -> Nat]

VARIABLES
    base,      \* which of the keyspace and the bookkeeping table exist
    schema,    \* the content that created the object of each file
    recorded,  \* the checksum recorded for each file
    wire,      \* statements sent and not executed
    pc,        \* where each runner stands
    file,      \* the file it is at
    reply,     \* what the database answered to the statement it waits for
    crashes    \* how often each runner has crashed

vars == <<base, schema, recorded, wire, pc, file, reply, crashes>>

-----------------------------------------------------------------------------
\* Statements, and the places where a runner waits for one.
Kinds == {"keyspace", "bookkeeping", "apply", "record"}

\* A statement carries the life of the runner that sent it.
Statement == [runner : Runners, life : Nat, kind : Kinds, file : Files]

Places == Kinds \cup {"down", "lookup", "recheck", "serving"}

Init ==
    /\ base = {}
    /\ schema = [f \in Files |-> None]
    /\ recorded = [f \in Files |-> None]
    /\ wire = {}
    /\ pc = [r \in Runners |-> "down"]
    /\ file = [r \in Runners |-> 1]
    /\ reply = [r \in Runners |-> "none"]
    /\ crashes = [r \in Runners |-> 0]

Goto(r, place, f) ==
    /\ pc' = [pc EXCEPT ![r] = place]
    /\ file' = [file EXCEPT ![r] = f]
    /\ reply' = [reply EXCEPT ![r] = "none"]

\* The runner sends a statement and waits for its answer.
SendFrom(r, kind, f) ==
    /\ Goto(r, kind, f)
    /\ wire' = wire \cup {[runner |-> r, life |-> crashes[r], kind |-> kind, file |-> f]}
    /\ UNCHANGED <<base, schema, recorded, crashes>>

StepTo(r, place, f) ==
    /\ Goto(r, place, f)
    /\ UNCHANGED <<base, schema, recorded, wire, crashes>>

\* Fault: one file too many.
MoreFiles_OffByOne(r) == file[r] <= NFiles

MoreFiles(r) == file[r] < NFiles

\* After a file comes the next one; after the last one the replica serves.
NextFile(r) ==
    IF MoreFiles(r) THEN StepTo(r, "lookup", file[r] + 1) ELSE StepTo(r, "serving", NFiles)

Start(r) == pc[r] = "down" /\ SendFrom(r, "keyspace", 1)

Bookkeeping(r) ==
    /\ pc[r] = "keyspace" /\ reply[r] = "applied"
    /\ SendFrom(r, "bookkeeping", 1)

FirstFile(r) ==
    /\ pc[r] = "bookkeeping" /\ reply[r] = "applied"
    /\ StepTo(r, "lookup", 1)

\* Fault: a file that is recorded stops every runner.
Mismatch_Any(r) == TRUE

\* The file was modified after it was deployed.
Mismatch(r) == recorded[file[r]] # Checksum[r][file[r]]

\* Fault: a file is recorded and not executed.
FirstStatement_Record == "record"

FirstStatement == "apply"

\* lookup_applied: skip the file, stop, or execute it.
Skip(r) ==
    /\ pc[r] = "lookup"
    /\ recorded[file[r]] # None /\ ~ Mismatch(r)
    /\ NextFile(r)

RefuseModified(r) ==
    /\ pc[r] = "lookup"
    /\ recorded[file[r]] # None /\ Mismatch(r)
    /\ StepTo(r, "down", 1)

Apply(r) ==
    /\ pc[r] = "lookup"
    /\ recorded[file[r]] = None
    /\ SendFrom(r, FirstStatement, file[r])

Record(r) ==
    /\ pc[r] = "apply" /\ reply[r] = "applied"
    /\ SendFrom(r, "record", file[r])

Recorded(r) ==
    /\ pc[r] = "record" /\ reply[r] = "applied"
    /\ NextFile(r)

\* The race for the record was lost; what was recorded is read,
Recheck(r) ==
    /\ pc[r] = "record" /\ reply[r] = "rejected"
    /\ StepTo(r, "recheck", file[r])

\* Fault: whoever lost the race goes on.
AgreesWithRecord_Always(r) == TRUE

AgreesWithRecord(r) == recorded[file[r]] = Checksum[r][file[r]]

\* and has to be the same. A record that has vanished is an error too.
AcceptRecord(r) ==
    /\ pc[r] = "recheck"
    /\ AgreesWithRecord(r)
    /\ NextFile(r)

RefuseRecord(r) ==
    /\ pc[r] = "recheck"
    /\ ~ AgreesWithRecord(r)
    /\ StepTo(r, "down", 1)

\* A database error or a timeout, upon which the process exits, or a crash.
Crash(r) ==
    /\ pc[r] # "down"
    /\ crashes[r] < MaxCrashes[r]
    /\ Goto(r, "down", 1)
    /\ crashes' = [crashes EXCEPT ![r] = crashes[r] + 1]
    /\ UNCHANGED <<base, schema, recorded, wire>>

-----------------------------------------------------------------------------
(* The database. *)

Content(m) == Checksum[m.runner][m.file]

RecordApplies(m) == recorded[m.file] = None

\* The runner that sent the statement still waits for it.
Awaited(m) ==
    m.life = crashes[m.runner] /\ m.kind = pc[m.runner] /\ m.file = file[m.runner]

Execute(m) ==
    /\ base' = IF m.kind \in {"keyspace", "bookkeeping"} THEN base \cup {m.kind} ELSE base
    /\ schema' = IF m.kind = "apply" /\ schema[m.file] = None
                 THEN [schema EXCEPT ![m.file] = Content(m)] ELSE schema
    /\ recorded' = IF m.kind = "record" /\ RecordApplies(m)
                   THEN [recorded EXCEPT ![m.file] = Content(m)] ELSE recorded
    /\ reply' = IF Awaited(m)
                THEN [reply EXCEPT ![m.runner] =
                          IF m.kind = "record" /\ ~ RecordApplies(m) THEN "rejected" ELSE "applied"]
                ELSE reply
    /\ wire' = wire \ {m}
    /\ UNCHANGED <<pc, file, crashes>>

-----------------------------------------------------------------------------
\* A replica that serves has no more migrations to run.
Serve(r) == pc[r] = "serving" /\ UNCHANGED vars

Run(r) ==
    \/ Start(r) \/ Bookkeeping(r) \/ FirstFile(r)
    \/ Skip(r) \/ RefuseModified(r) \/ Apply(r)
    \/ Record(r) \/ Recorded(r) \/ Recheck(r) \/ AcceptRecord(r) \/ RefuseRecord(r)

Next ==
    \/ \E r \in Runners : Run(r) \/ Crash(r) \/ Serve(r)
    \/ \E m \in wire : Execute(m)

Spec == Init /\ [][Next]_vars

Answer(r) == \E m \in wire : m.runner = r /\ Awaited(m) /\ Execute(m)

\* A runner that can go on does, a replica that is down is started again, and a
\* statement that is waited for is executed, as otherwise its runner would time
\* out and crash once more. The statements of crashed runners need not be.
FairSpec ==
    /\ Spec
    /\ \A r \in Runners : WF_vars(Run(r)) /\ WF_vars(Answer(r))

-----------------------------------------------------------------------------
(* Correctness. *)

\* Every variable keeps its shape.
MigrationsTypeOK ==
    /\ base \subseteq {"keyspace", "bookkeeping"}
    /\ schema \in [Files -> Checksums \cup {None}]
    /\ recorded \in [Files -> Checksums \cup {None}]
    /\ wire \subseteq Statement
    /\ pc \in [Runners -> Places]
    /\ file \in [Runners -> Files]
    /\ reply \in [Runners -> {"none", "applied", "rejected"}]
    /\ crashes \in [Runners -> Nat]

\* A file is recorded only when what it creates exists, and what all files
\* before it create: wherever runners stop, a record is never ahead of the
\* schema, and the next runner leaves nothing out.
RecordsBehindSchema ==
    \A f \in Files : recorded[f] # None =>
        \A g \in 1 .. f : schema[g] # None /\ recorded[g] # None

\* No statement reaches the database before what it refers to: the keyspace, the
\* bookkeeping table, and the objects of the files before its own.
StatementsFindTheirObjects ==
    \A m \in wire :
        /\ m.kind # "keyspace" => "keyspace" \in base
        /\ m.kind \in {"apply", "record"} =>
               /\ "bookkeeping" \in base
               /\ \A g \in 1 .. m.file - 1 : schema[g] # None /\ recorded[g] # None
        /\ m.kind = "record" => schema[m.file] # None

\* Replicas that serve agree with the record on every file, so that they are of
\* one revision, and everything their queries refer to exists: of two revisions
\* that race, one fails loudly.
ServingAgreesWithRecord ==
    \A r \in Runners : pc[r] = "serving" =>
        \A f \in Files : recorded[f] = Checksum[r][f] /\ schema[f] # None

\* When crashes stop, all replicas of some revision serve in the end: runners
\* that race, and those that fail and start again, do not keep each other from
\* finishing, and a mismatch never locks out every revision.
OneRevisionServes ==
    <>[](\E r \in Runners : \A s \in Runners : Checksum[s] = Checksum[r] => pc[s] = "serving")

=============================================================================
