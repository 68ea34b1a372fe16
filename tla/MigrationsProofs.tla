-------------------------- MODULE MigrationsProofs --------------------------
(***************************************************************************)
(* Proofs about Migrations, for any number of runners, revisions, files    *)
(* and crashes. The schema and its records only grow (Grows), so what a    *)
(* runner has established stays true while others run. PlaceOK says what   *)
(* that is at each place of a runner; with what a record and a statement   *)
(* on the wire imply it is inductive.                                      *)
(***************************************************************************)
EXTENDS Migrations, TLAPS

\* A file a runner is through with.
Through(r, f) == recorded[f] = Checksum[r][f] /\ schema[f] # None

PlaceOK(r) ==
    /\ pc[r] \notin {"down", "keyspace"} => "keyspace" \in base
    /\ pc[r] \in {"lookup", "apply", "record", "recheck", "serving"} => "bookkeeping" \in base
    /\ pc[r] = "keyspace" /\ reply[r] = "applied" => "keyspace" \in base
    /\ pc[r] = "bookkeeping" /\ reply[r] = "applied" => "bookkeeping" \in base
    /\ pc[r] = "apply" /\ reply[r] = "applied" => schema[file[r]] # None
    /\ pc[r] = "record" /\ reply[r] = "applied" => recorded[file[r]] = Checksum[r][file[r]]
    /\ pc[r] \in {"lookup", "apply", "record", "recheck"} =>
           \A g \in 1 .. file[r] - 1 : Through(r, g)
    /\ pc[r] \in {"record", "recheck"} => schema[file[r]] # None
    /\ pc[r] = "serving" => \A g \in Files : Through(r, g)

PlacesOK == \A r \in Runners : PlaceOK(r)

MInv == /\ MigrationsTypeOK
        /\ RecordsBehindSchema
        /\ StatementsFindTheirObjects
        /\ PlacesOK

\* The schema and the records only grow.
Grows ==
    /\ base \subseteq base'
    /\ \A f \in Files : schema[f] # None => schema'[f] = schema[f]
    /\ \A f \in Files : recorded[f] # None => recorded'[f] = recorded[f]

-----------------------------------------------------------------------------
LEMMA FilesFacts ==
    /\ NFiles \in Nat /\ NFiles >= 1 /\ 1 \in Files /\ NFiles \in Files
    /\ \A f \in Files : f \in Nat /\ f >= 1 /\ f <= NFiles
    /\ \A r \in Runners, f \in Files : Checksum[r][f] \in Checksums /\ Checksum[r][f] # None
BY MigrationsAssumption DEF Files, Checksums

LEMMA FilesBefore ==
    \A f \in Files : /\ \A g \in 1 .. f : g \in Files /\ (g = f \/ g \in 1 .. f - 1)
                     /\ \A g \in 1 .. f - 1 : g \in Files
                     /\ f < NFiles => f + 1 \in Files /\ (f + 1) - 1 = f
                     /\ ~ f < NFiles => f = NFiles
                     /\ f \in 1 .. f
BY FilesFacts DEF Files

LEMMA InitMInv == Init => MInv
<1> SUFFICES ASSUME Init PROVE MInv
  OBVIOUS
<1> USE FilesFacts
<1>1. MigrationsTypeOK
  BY DEF Init, MigrationsTypeOK, Places, Statement
<1>2. RecordsBehindSchema /\ StatementsFindTheirObjects
  BY DEF Init, RecordsBehindSchema, StatementsFindTheirObjects
<1>3. PlacesOK
  BY DEF Init, PlacesOK, PlaceOK
<1> QED
  BY <1>1, <1>2, <1>3 DEF MInv

\* What a runner has established is not undone by what others do.
LEMMA OthersKeepPlace ==
    ASSUME MInv, Grows, NEW r \in Runners,
           pc'[r] = pc[r], file'[r] = file[r], reply'[r] = reply[r]
    PROVE  PlaceOK(r)'
<1>1. PlaceOK(r) /\ file[r] \in Files
  BY DEF MInv, PlacesOK, MigrationsTypeOK
<1>2. \A f \in Files : Through(r, f) => Through(r, f)'
  BY FilesFacts DEF Through, Grows
<1>3. \A g \in 1 .. file[r] - 1 : g \in Files
  BY <1>1, FilesBefore
<1>4. recorded[file[r]] = Checksum[r][file[r]] => recorded'[file[r]] = recorded[file[r]]
  BY <1>1, FilesFacts DEF Grows
<1>5. schema[file[r]] # None => schema'[file[r]] # None
  BY <1>1 DEF Grows
<1>6. \A k \in {"keyspace", "bookkeeping"} : k \in base => k \in base'
  BY DEF Grows
<1> HIDE DEF Through
<1> QED
  BY <1>1, <1>2, <1>3, <1>4, <1>5, <1>6 DEF PlaceOK

\* A step of a runner that leaves the database alone, and sends one statement at
\* most, which finds its objects.
LEMMA RunnerStep ==
    ASSUME MInv, NEW r \in Runners, NEW place \in Places, NEW f \in Files,
           Goto(r, place, f), UNCHANGED <<base, schema, recorded>>,
           crashes' \in [Runners -> Nat],
           wire' \subseteq Statement,
           \A m \in wire' : \/ m \in wire
                            \/ /\ m.kind # "keyspace" => "keyspace" \in base
                               /\ m.kind \in {"apply", "record"} =>
                                      /\ "bookkeeping" \in base
                                      /\ \A g \in 1 .. m.file - 1 :
                                             schema[g] # None /\ recorded[g] # None
                               /\ m.kind = "record" => schema[m.file] # None,
           place \notin {"down", "keyspace"} => "keyspace" \in base,
           place \in {"lookup", "apply", "record", "recheck", "serving"} => "bookkeeping" \in base,
           place \in {"lookup", "apply", "record", "recheck"} =>
               \A g \in 1 .. f - 1 : Through(r, g),
           place \in {"record", "recheck"} => schema[f] # None,
           place = "serving" => \A g \in Files : Through(r, g)
    PROVE  MInv'
<1>1. /\ pc' = [pc EXCEPT ![r] = place] /\ file' = [file EXCEPT ![r] = f]
      /\ reply' = [reply EXCEPT ![r] = "none"]
  BY DEF Goto
<1>2. /\ pc \in [Runners -> Places] /\ file \in [Runners -> Files]
      /\ reply \in [Runners -> {"none", "applied", "rejected"}]
  BY DEF MInv, MigrationsTypeOK
<1>3. MigrationsTypeOK'
  BY <1>1, <1>2 DEF MInv, MigrationsTypeOK
<1>4. RecordsBehindSchema'
  BY DEF MInv, RecordsBehindSchema
<1>5. StatementsFindTheirObjects'
  BY DEF MInv, StatementsFindTheirObjects
<1>6. pc'[r] = place /\ file'[r] = f /\ reply'[r] = "none"
  BY <1>1, <1>2
<1>7. PlaceOK(r)'
  BY <1>6 DEF PlaceOK, Through
<1>8. ASSUME NEW s \in Runners, s # r PROVE PlaceOK(s)'
  <2>1. pc'[s] = pc[s] /\ file'[s] = file[s] /\ reply'[s] = reply[s]
    BY <1>1, <1>2, <1>8
  <2>2. Grows
    BY DEF Grows
  <2> QED
    BY <2>1, <2>2, OthersKeepPlace
<1> QED
  BY <1>3, <1>4, <1>5, <1>7, <1>8 DEF MInv, PlacesOK

\* A runner that sends a statement: what it needs of its place.
LEMMA SendStep ==
    ASSUME MInv, NEW r \in Runners, NEW kind \in Kinds, NEW f \in Files, SendFrom(r, kind, f),
           kind # "keyspace" => "keyspace" \in base,
           kind \in {"apply", "record"} =>
               "bookkeeping" \in base /\ \A g \in 1 .. f - 1 : Through(r, g),
           kind = "record" => schema[f] # None
    PROVE  MInv'
<1> DEFINE m == [runner |-> r, life |-> crashes[r], kind |-> kind, file |-> f]
<1>1. /\ Goto(r, kind, f) /\ wire' = wire \cup {m}
      /\ UNCHANGED <<base, schema, recorded, crashes>>
  BY DEF SendFrom
<1>2. m \in Statement /\ wire \subseteq Statement /\ crashes \in [Runners -> Nat]
  BY DEF Statement, MInv, MigrationsTypeOK
<1>3. m.kind = kind /\ m.file = f
  OBVIOUS
<1>4. \A g \in 1 .. f - 1 : g \in Files
  BY FilesBefore
<1>5. \A g \in Files : Through(r, g) => schema[g] # None /\ recorded[g] # None
  BY FilesFacts DEF Through
<1>6. kind \in Places /\ kind \notin {"down", "lookup", "recheck", "serving"}
  BY DEF Kinds, Places
<1> HIDE DEF m
<1>7. /\ m.kind # "keyspace" => "keyspace" \in base
      /\ m.kind \in {"apply", "record"} =>
             /\ "bookkeeping" \in base
             /\ \A g \in 1 .. m.file - 1 : schema[g] # None /\ recorded[g] # None
      /\ m.kind = "record" => schema[m.file] # None
  BY <1>3, <1>4, <1>5
<1>8. wire' \subseteq Statement /\ \A n \in wire' : n \in wire \/ n = m
  BY <1>1, <1>2
<1> QED
  BY <1>1, <1>2, <1>6, <1>7, <1>8, RunnerStep

\* A runner that moves on without a statement.
LEMMA MoveStep ==
    ASSUME MInv, NEW r \in Runners, NEW place \in {"down", "lookup", "recheck", "serving"},
           NEW f \in Files, StepTo(r, place, f),
           place # "down" => "keyspace" \in base /\ "bookkeeping" \in base,
           place \in {"lookup", "recheck"} => \A g \in 1 .. f - 1 : Through(r, g),
           place = "recheck" => schema[f] # None,
           place = "serving" => \A g \in Files : Through(r, g)
    PROVE  MInv'
<1>1. /\ Goto(r, place, f) /\ UNCHANGED <<base, schema, recorded, wire, crashes>>
      /\ place \in Places
  BY DEF StepTo, Places
<1>2. wire \subseteq Statement /\ crashes \in [Runners -> Nat]
  BY DEF MInv, MigrationsTypeOK
<1> QED
  BY <1>1, <1>2, RunnerStep

\* A runner that is through with a file goes to the next one, or serves.
LEMMA NextFileStep ==
    ASSUME MInv, NEW r \in Runners, pc[r] \in {"lookup", "record", "recheck"},
           Through(r, file[r]), NextFile(r)
    PROVE  MInv'
<1>1. /\ file[r] \in Files /\ "keyspace" \in base /\ "bookkeeping" \in base
      /\ \A g \in 1 .. file[r] - 1 : Through(r, g)
  BY DEF MInv, PlacesOK, PlaceOK, MigrationsTypeOK
<1>2. \A g \in 1 .. file[r] : Through(r, g)
  <2>1. \A g \in 1 .. file[r] : g \in 1 .. file[r] - 1 \/ g = file[r]
    BY <1>1, FilesBefore
  <2> HIDE DEF Through
  <2> QED
    BY <1>1, <2>1
<1> HIDE DEF Through
<1>3. CASE MoreFiles(r)
  <2>1. StepTo(r, "lookup", file[r] + 1) /\ file[r] + 1 \in Files /\ (file[r] + 1) - 1 = file[r]
    BY <1>1, <1>3, FilesBefore DEF NextFile, MoreFiles
  <2> QED
    BY <1>1, <1>2, <2>1, MoveStep
<1>4. CASE ~ MoreFiles(r)
  <2>1. StepTo(r, "serving", NFiles) /\ file[r] = NFiles
    BY <1>1, <1>4, FilesBefore DEF NextFile, MoreFiles
  <2> QED
    BY <1>1, <1>2, <2>1, FilesFacts, MoveStep DEF Files
<1> QED
  BY <1>3, <1>4

LEMMA RunStep ==
    ASSUME MInv, NEW r \in Runners, Run(r)
    PROVE  MInv'
<1>0. PlaceOK(r) /\ file[r] \in Files
  BY DEF MInv, PlacesOK, MigrationsTypeOK
<1>1. CASE Start(r)
  BY <1>1, FilesFacts, SendStep DEF Start, Kinds
<1>2. CASE Bookkeeping(r)
  BY <1>0, <1>2, FilesFacts, SendStep DEF Bookkeeping, Kinds, PlaceOK
<1>3. CASE FirstFile(r)
  BY <1>0, <1>3, FilesFacts, MoveStep DEF FirstFile, PlaceOK
<1>4. CASE Skip(r)
  <2>1. recorded[file[r]] = Checksum[r][file[r]] /\ schema[file[r]] # None
    BY <1>0, <1>4, FilesBefore DEF Skip, Mismatch, MInv, RecordsBehindSchema
  <2> QED
    BY <1>4, <2>1, NextFileStep DEF Skip, Through
<1>5. CASE RefuseModified(r) \/ RefuseRecord(r)
  BY <1>5, FilesFacts, MoveStep DEF RefuseModified, RefuseRecord
<1>6. CASE Apply(r)
  <2>1. SendFrom(r, "apply", file[r]) /\ pc[r] = "lookup"
    BY <1>6 DEF Apply, FirstStatement
  <2> QED
    BY <1>0, <2>1, SendStep DEF Kinds, PlaceOK
<1>7. CASE Record(r)
  BY <1>0, <1>7, SendStep DEF Record, Kinds, PlaceOK
<1>8. CASE Recorded(r)
  <2>1. Through(r, file[r])
    BY <1>0, <1>8 DEF Recorded, PlaceOK, Through
  <2> QED
    BY <1>8, <2>1, NextFileStep DEF Recorded
<1>9. CASE Recheck(r)
  BY <1>0, <1>9, MoveStep DEF Recheck, PlaceOK
<1>10. CASE AcceptRecord(r)
  <2>1. Through(r, file[r])
    BY <1>0, <1>10 DEF AcceptRecord, AgreesWithRecord, PlaceOK, Through
  <2> QED
    BY <1>10, <2>1, NextFileStep DEF AcceptRecord
<1> QED
  BY <1>1, <1>2, <1>3, <1>4, <1>5, <1>6, <1>7, <1>8, <1>9, <1>10 DEF Run

LEMMA CrashStep ==
    ASSUME MInv, NEW r \in Runners, Crash(r)
    PROVE  MInv'
<1>1. /\ Goto(r, "down", 1) /\ UNCHANGED <<base, schema, recorded, wire>>
      /\ crashes' = [crashes EXCEPT ![r] = crashes[r] + 1]
  BY DEF Crash
<1>2. wire \subseteq Statement /\ crashes' \in [Runners -> Nat]
  BY <1>1 DEF MInv, MigrationsTypeOK
<1>3. "down" \in Places
  BY DEF Places
<1> QED
  BY <1>1, <1>2, <1>3, FilesFacts, RunnerStep

\* The database executes a statement: schema and records grow by what the
\* statement names, which it only gets to when all before it is there.
LEMMA ExecuteStep ==
    ASSUME MInv, NEW m \in wire, Execute(m)
    PROVE  MInv'
<1> DEFINE f == m.file
           q == m.runner
<1>1. /\ f \in Files /\ q \in Runners /\ m.kind \in Kinds /\ m \in Statement
      /\ Content(m) \in Checksums /\ Content(m) # None
  BY FilesFacts DEF MInv, MigrationsTypeOK, Statement, Content
<1>2. /\ base' = IF m.kind \in {"keyspace", "bookkeeping"} THEN base \cup {m.kind} ELSE base
      /\ schema' = IF m.kind = "apply" /\ schema[f] = None
                   THEN [schema EXCEPT ![f] = Content(m)] ELSE schema
      /\ recorded' = IF m.kind = "record" /\ recorded[f] = None
                     THEN [recorded EXCEPT ![f] = Content(m)] ELSE recorded
      /\ wire' = wire \ {m} /\ UNCHANGED <<pc, file, crashes>>
      /\ reply' = IF Awaited(m)
                  THEN [reply EXCEPT ![q] =
                            IF m.kind = "record" /\ recorded[f] # None THEN "rejected" ELSE "applied"]
                  ELSE reply
  BY DEF Execute, RecordApplies
<1>3. /\ base \subseteq {"keyspace", "bookkeeping"}
      /\ schema \in [Files -> Checksums \cup {None}]
      /\ recorded \in [Files -> Checksums \cup {None}]
      /\ reply \in [Runners -> {"none", "applied", "rejected"}]
  BY DEF MInv, MigrationsTypeOK
<1> HIDE DEF f, q
<1>4. MigrationsTypeOK'
  <2>1. base' \subseteq {"keyspace", "bookkeeping"}
    BY <1>2, <1>3
  <2>2. schema' \in [Files -> Checksums \cup {None}] /\ recorded' \in [Files -> Checksums \cup {None}]
    BY <1>1, <1>2, <1>3
  <2>3. reply' \in [Runners -> {"none", "applied", "rejected"}]
    BY <1>1, <1>2, <1>3
  <2> QED
    BY <1>2, <2>1, <2>2, <2>3 DEF MInv, MigrationsTypeOK
<1>5. Grows
  BY <1>1, <1>2, <1>3 DEF Grows
<1>6. /\ m.kind = "apply" => schema'[f] # None
      /\ m.kind = "record" => recorded'[f] # None /\ schema'[f] # None
      /\ m.kind = "record" /\ recorded[f] = None => recorded'[f] = Content(m)
      /\ m.kind \in {"keyspace", "bookkeeping"} => m.kind \in base'
  <2>1. m.kind = "record" => schema[f] # None
    BY DEF MInv, StatementsFindTheirObjects, f
  <2> QED
    BY <1>1, <1>2, <1>3, <1>5, <2>1 DEF Grows
<1>7. RecordsBehindSchema'
  <2> SUFFICES ASSUME NEW h \in Files, recorded'[h] # None, NEW g \in 1 .. h
               PROVE  schema'[g] # None /\ recorded'[g] # None
    BY DEF RecordsBehindSchema
  <2>0. g \in Files
    BY FilesBefore
  <2>1. CASE recorded[h] # None
    <3>1. schema[g] # None /\ recorded[g] # None
      BY <2>1 DEF MInv, RecordsBehindSchema
    <3> QED
      BY <1>5, <2>0, <3>1 DEF Grows
  <2>2. CASE recorded[h] = None
    <3>1. h = f /\ m.kind = "record"
      BY <1>1, <1>2, <1>3, <2>2
    <3>2. CASE g = h
      BY <1>6, <3>1, <3>2
    <3>3. CASE g # h
      <4>1. g \in 1 .. f - 1
        BY <3>1, <3>3, FilesBefore
      <4>2. schema[g] # None /\ recorded[g] # None
        BY <3>1, <4>1 DEF MInv, StatementsFindTheirObjects, f
      <4> QED
        BY <1>5, <2>0, <4>2 DEF Grows
    <3> QED
      BY <3>2, <3>3
  <2> QED
    BY <2>1, <2>2
<1>8. StatementsFindTheirObjects'
  <2> SUFFICES ASSUME NEW n \in wire
               PROVE  /\ n.kind # "keyspace" => "keyspace" \in base'
                      /\ n.kind \in {"apply", "record"} =>
                             /\ "bookkeeping" \in base'
                             /\ \A g \in 1 .. n.file - 1 :
                                    schema'[g] # None /\ recorded'[g] # None
                      /\ n.kind = "record" => schema'[n.file] # None
    BY <1>2 DEF StatementsFindTheirObjects
  <2>1. n.file \in Files /\ \A g \in 1 .. n.file - 1 : g \in Files
    BY FilesBefore DEF MInv, MigrationsTypeOK, Statement
  <2>2. /\ n.kind # "keyspace" => "keyspace" \in base
        /\ n.kind \in {"apply", "record"} =>
               /\ "bookkeeping" \in base
               /\ \A g \in 1 .. n.file - 1 : schema[g] # None /\ recorded[g] # None
        /\ n.kind = "record" => schema[n.file] # None
    BY DEF MInv, StatementsFindTheirObjects
  <2> QED
    BY <1>5, <2>1, <2>2 DEF Grows
<1>9. ASSUME NEW r \in Runners PROVE PlaceOK(r)'
  <2>1. CASE reply'[r] = reply[r]
    BY <1>2, <1>5, <2>1, OthersKeepPlace
  <2>2. CASE reply'[r] # reply[r]
    <3>1. /\ r = q /\ Awaited(m)
          /\ reply'[r] = IF m.kind = "record" /\ recorded[f] # None THEN "rejected" ELSE "applied"
      BY <1>1, <1>2, <1>3, <2>2
    <3>2. m.kind = pc[r] /\ f = file[r] /\ Content(m) = Checksum[r][file[r]]
      BY <3>1 DEF Awaited, Content, f, q
    <3>3. /\ PlaceOK(r) /\ file[r] \in Files
          /\ pc'[r] = pc[r] /\ file'[r] = file[r]
      BY <1>2 DEF MInv, PlacesOK, MigrationsTypeOK
    <3>4. \A g \in Files : Through(r, g) => Through(r, g)'
      BY <1>5, FilesFacts DEF Through, Grows
    <3>5. \A g \in 1 .. file[r] - 1 : g \in Files
      BY <3>3, FilesBefore
    <3>6. /\ schema[file[r]] # None => schema'[file[r]] # None
          /\ \A k \in {"keyspace", "bookkeeping"} : k \in base => k \in base'
      BY <1>5, <3>3 DEF Grows
    <3>7. /\ pc[r] = "keyspace" => "keyspace" \in base'
          /\ pc[r] = "bookkeeping" => "bookkeeping" \in base'
          /\ pc[r] = "apply" => schema'[file[r]] # None
          /\ pc[r] = "record" /\ reply'[r] = "applied" =>
                 recorded'[file[r]] = Checksum[r][file[r]]
      BY <1>6, <3>1, <3>2
    <3> HIDE DEF Through
    <3> QED
      BY <3>3, <3>4, <3>5, <3>6, <3>7 DEF PlaceOK
  <2> QED
    BY <2>1, <2>2
<1> QED
  BY <1>4, <1>7, <1>8, <1>9 DEF MInv, PlacesOK

LEMMA NextMInv == MInv /\ [Next]_vars => MInv'
<1> SUFFICES ASSUME MInv, [Next]_vars PROVE MInv'
  OBVIOUS
<1>1. ASSUME UNCHANGED vars PROVE MInv'
  BY <1>1 DEF vars, MInv, MigrationsTypeOK, RecordsBehindSchema, StatementsFindTheirObjects,
              PlacesOK, PlaceOK, Through
<1> QED
  BY <1>1, RunStep, CrashStep, ExecuteStep DEF Next, Serve

LEMMA MInvAlways == Spec => []MInv
BY InitMInv, NextMInv, PTL DEF Spec

-----------------------------------------------------------------------------
\* Every variable keeps its shape: no runner goes past the last file.
THEOREM MigrationsTypeCorrect == Spec => []MigrationsTypeOK
BY MInvAlways, PTL DEF MInv

\* A record is never ahead of the schema, wherever runners crash and however late
\* their statements are executed.
THEOREM RecordsNeverAhead == Spec => []RecordsBehindSchema
BY MInvAlways, PTL DEF MInv

\* Every statement on its way to the database finds what it refers to.
THEOREM StatementsInOrder == Spec => []StatementsFindTheirObjects
BY MInvAlways, PTL DEF MInv

\* A replica serves only when its own files are those on record and their objects
\* exist, for any number of replicas of any revisions.
THEOREM ServingIsSafe == Spec => []ServingAgreesWithRecord
<1>1. MInv => ServingAgreesWithRecord
  BY DEF MInv, PlacesOK, PlaceOK, Through, ServingAgreesWithRecord
<1> QED
  BY <1>1, MInvAlways, PTL

=============================================================================
