---------------------------- MODULE DataRoot_proofs ----------------------------
(***************************************************************************)
(* Theorems about a data root: about ProjectArchive, for any number of     *)
(* roots, revisions, commands, archives and crashes (what an archive       *)
(* holds, what a database may name in the middle of an import, and what an *)
(* import may take away), and about archives and diagnostic logs beside    *)
(* each other.                                                             *)
(***************************************************************************)
EXTENDS MCDataRoot, FiniteSetTheorems, TLAPS

-----------------------------------------------------------------------------
(* Type correctness *)

ImportPcs == {"store", "copy", "restore", "check", "record"}

\* What a service can be working on.
Services ==
    {Idle}
    \cup [pc : {"refs"}, rows : Rows, logs : Selections]
    \cup [pc : {"bodies"}, rows : Rows, logs : Selections, bundle : SUBSET Revisions]
    \cup [pc : ImportPcs, command : Commands, todo : SUBSET Objects]

ArchiveFiles ==
    [rows : Rows, logs : Selections, bundle : SUBSET Revisions, bodies : SUBSET Objects]

Envelopes == [root : Roots, archive : DOMAIN archives, active : BOOLEAN]

\* Archives are numbered up to MaxArchives, and the exports under way have their numbers.
Numbered == IsFiniteSet(Exporting) /\ Len(archives) + Cardinality(Exporting) <= MaxArchives

TypeInv ==
    /\ db \in [Roots -> Rows \cup {None}]
    /\ refs \in [Roots -> (SUBSET Revisions) \cup {None}]
    /\ blobs \in [Roots -> SUBSET Objects]
    /\ service \in [Roots -> Services]
    /\ asked \in [Commands -> Envelopes \cup {None}]
    /\ archives \in Seq(ArchiveFiles)
    /\ stops \in 0..MaxStops
    /\ Numbered

LEMMA ArchivesAreNumbered ==
    ASSUME TypeInv
    PROVE  DOMAIN archives \subseteq Objects
<1>1. Len(archives) \in Nat /\ Cardinality(Exporting) \in Nat
  BY FS_CardinalityType DEF TypeInv, Numbered
<1> QED
  BY <1>1, Bounds DEF TypeInv, Numbered, Objects

LEMMA TypeInit == Init => TypeInv
<1> SUFFICES ASSUME Init PROVE TypeInv
  OBVIOUS
<1>1. Exporting = {}
  BY DEF Init, Exporting, Idle
<1>2. Numbered
  BY <1>1, FS_EmptySet, Bounds DEF Numbered, Init
<1>3. NewProject \in Rows
  BY DEF NewProject, Rows
<1>4. archives \in Seq(ArchiveFiles) /\ stops \in 0..MaxStops
  BY Bounds DEF Init
<1>5. db \in [Roots -> Rows \cup {None}]
  BY <1>3 DEF Init
<1>6. service \in [Roots -> Services] /\ asked \in [Commands -> Envelopes \cup {None}]
  BY DEF Init, Services
<1> QED
  BY <1>2, <1>4, <1>5, <1>6 DEF Init, TypeInv

\* What a service is doing says what it works with.
LEMMA ServiceShape ==
    ASSUME TypeInv, NEW x \in Roots
    PROVE  /\ service[x].pc = "refs" =>
                 service[x] \in [pc : {"refs"}, rows : Rows, logs : Selections]
           /\ service[x].pc = "bodies" =>
                 service[x] \in [pc : {"bodies"}, rows : Rows, logs : Selections,
                                 bundle : SUBSET Revisions]
           /\ service[x].pc \in ImportPcs =>
                 service[x] \in [pc : ImportPcs, command : Commands, todo : SUBSET Objects]
<1>1. service[x] \in Services
  BY DEF TypeInv
<1> QED
  BY <1>1 DEF Services, ImportPcs, Idle

\* A step that lets no export begin keeps the numbers.
LEMMA NumberedKept ==
    ASSUME TypeInv, archives' = archives, Exporting' \subseteq Exporting
    PROVE  Numbered'
<1>1. IsFiniteSet(Exporting') /\ Cardinality(Exporting') <= Cardinality(Exporting)
  BY FS_Subset DEF TypeInv, Numbered
<1>2. Cardinality(Exporting) \in Nat /\ Cardinality(Exporting') \in Nat /\ Len(archives) \in Nat
  BY <1>1, FS_CardinalityType DEF TypeInv, Numbered
<1> QED
  BY <1>1, <1>2, Bounds DEF TypeInv, Numbered

\* What the steps that write to a database leave in its row.
LEMMA RowOfRevision ==
    ASSUME TypeInv, NEW x \in Roots, NEW r \in Revisions, CreateRevision(x, r)
    PROVE  \E row \in Rows :
              /\ db' = [db EXCEPT ![x] = row]
              /\ row.revs = db[x].revs \cup {r} /\ row.arts = db[x].arts \cup {r}
              /\ row.run = db[x].run /\ row.imported = db[x].imported
<1> DEFINE row == [db[x] EXCEPT !.revs = @ \cup {r}, !.arts = @ \cup {r}, !.logs = TRUE]
<1>1. db[x] \in Rows
  BY DEF CreateRevision, TypeInv
<1>2. row \in Rows /\ row.revs = db[x].revs \cup {r} /\ row.arts = db[x].arts \cup {r}
      /\ row.run = db[x].run /\ row.imported = db[x].imported
  BY <1>1 DEF Rows, Objects
<1>3. db' = [db EXCEPT ![x] = row]
  BY DEF CreateRevision
<1> QED
  BY <1>2, <1>3

LEMMA RowOfRun ==
    ASSUME TypeInv, NEW x \in Roots, QueueRun(x) \/ RunJob(x)
    PROVE  \E row \in Rows :
              /\ db' = [db EXCEPT ![x] = row]
              /\ row.revs = db[x].revs /\ row.imported = db[x].imported
              /\ \/ QueueRun(x) /\ row.run = "queued" /\ row.arts = db[x].arts
                 \/ RunJob(x) /\ row.run = "done" /\ row.arts = db[x].arts \cup {Result}
<1>1. db[x] \in Rows
  BY DEF QueueRun, RunJob, TypeInv
<1>2. CASE QueueRun(x)
  <2> DEFINE row == [db[x] EXCEPT !.run = "queued", !.logs = TRUE]
  <2>1. row \in Rows /\ row.revs = db[x].revs /\ row.imported = db[x].imported
        /\ row.run = "queued" /\ row.arts = db[x].arts
    BY <1>1 DEF Rows
  <2>2. db' = [db EXCEPT ![x] = row]
    BY <1>2 DEF QueueRun
  <2> QED
    BY <1>2, <2>1, <2>2
<1>3. CASE RunJob(x)
  <2> DEFINE row == [db[x] EXCEPT !.run = "done", !.arts = @ \cup {Result}, !.logs = TRUE]
  <2>1. row \in Rows /\ row.revs = db[x].revs /\ row.imported = db[x].imported
        /\ row.run = "done" /\ row.arts = db[x].arts \cup {Result}
    BY <1>1 DEF Rows, Objects
  <2>2. db' = [db EXCEPT ![x] = row]
    BY <1>3 DEF RunJob
  <2> QED
    BY <1>3, <2>1, <2>2
<1> QED
  BY <1>2, <1>3

LEMMA RowOfRecord ==
    ASSUME TypeInv, NEW x \in Roots, Record(x), db[x] # None, NEW c \in Commands,
           c = service[x].command, asked[c] # None, asked[c].active
    PROVE  \E row \in Rows :
              /\ db' = [db EXCEPT ![x] = row]
              /\ row.revs = db[x].revs /\ row.run = db[x].run
              /\ row.arts = db[x].arts \cup {asked[c].archive}
              /\ row.imported = db[x].imported \cup {c}
<1> DEFINE n == asked[c].archive
           row == [db[x] EXCEPT !.arts = @ \cup {n}, !.imported = @ \cup {c}, !.logs = TRUE]
<1>1. db[x] \in Rows
  BY DEF TypeInv
<1>2. n \in Objects
  BY ArchivesAreNumbered DEF TypeInv, Envelopes
<1>3. row \in Rows /\ row.revs = db[x].revs /\ row.run = db[x].run
      /\ row.arts = db[x].arts \cup {n} /\ row.imported = db[x].imported \cup {c}
  BY <1>1, <1>2 DEF Rows
<1>4. db' = [db EXCEPT ![x] = row]
  BY DEF Record
<1> QED
  BY <1>3, <1>4

LEMMA TypeCreateRevision ==
    ASSUME TypeInv, NEW x \in Roots, NEW r \in Revisions,
           CreateRevision(x, r) \/ CrashInRevision(x, r)
    PROVE  TypeInv'
<1>1. /\ Refs(x) \cup {r} \in SUBSET Revisions
      /\ blobs[x] \cup {r} \in SUBSET Objects
  BY DEF TypeInv, Refs, Objects
<1>2. db' \in [Roots -> Rows \cup {None}]
  BY RowOfRevision DEF CrashInRevision, TypeInv
<1>3. stops' \in 0..MaxStops
  BY Bounds DEF CreateRevision, CrashInRevision, TypeInv
<1>4. Numbered'
  BY NumberedKept DEF CreateRevision, CrashInRevision, Exporting
<1> QED
  BY <1>1, <1>2, <1>3, <1>4 DEF CreateRevision, CrashInRevision, TypeInv, Envelopes

LEMMA TypeRun ==
    ASSUME TypeInv, NEW x \in Roots, QueueRun(x) \/ RunJob(x)
    PROVE  TypeInv'
<1>1. db' \in [Roots -> Rows \cup {None}]
  BY RowOfRun DEF TypeInv
<1>2. blobs' \in [Roots -> SUBSET Objects]
  BY DEF QueueRun, RunJob, TypeInv, Objects
<1>3. Numbered'
  BY NumberedKept DEF QueueRun, RunJob, Exporting
<1> QED
  BY <1>1, <1>2, <1>3 DEF QueueRun, RunJob, TypeInv, Envelopes

\* A service that goes on with something else than an export.
LEMMA ServiceMoves ==
    ASSUME TypeInv, NEW x \in Roots, NEW next \in Services,
           service' = [service EXCEPT ![x] = next], next.pc \notin {"refs", "bodies"},
           archives' = archives
    PROVE  service' \in [Roots -> Services] /\ Numbered'
<1>1. service' \in [Roots -> Services]
  BY DEF TypeInv
<1>2. Exporting' \subseteq Exporting
  BY DEF TypeInv, Exporting
<1> QED
  BY <1>1, <1>2, NumberedKept

LEMMA TypeCrash ==
    ASSUME TypeInv, NEW x \in Roots, Crash(x)
    PROVE  TypeInv'
<1>1. Idle \in Services /\ Idle.pc \notin {"refs", "bodies"}
  BY DEF Idle, Services
<1>2. service' \in [Roots -> Services] /\ Numbered'
  BY <1>1, ServiceMoves DEF Crash, Answer
<1>3. stops' \in 0..MaxStops
  BY Bounds DEF Crash, TypeInv
<1> QED
  BY <1>2, <1>3 DEF Crash, TypeInv, Envelopes

LEMMA TypeSnapshot ==
    ASSUME TypeInv, NEW x \in Roots, NEW selected \in Selections, Snapshot(x, selected)
    PROVE  TypeInv'
<1> DEFINE me == [pc |-> "refs", rows |-> Portable(db[x], selected), logs |-> selected]
<1>1. Portable(db[x], selected) \in Rows
  <2>1. db[x] \in Rows
    BY DEF Snapshot, TypeInv
  <2> QED
    BY <2>1 DEF Portable, Rows
<1>2. me \in Services
  BY <1>1 DEF Services
<1>3. service' = [service EXCEPT ![x] = me]
  BY DEF Snapshot
<1>4. service' \in [Roots -> Services]
  BY <1>2, <1>3 DEF TypeInv
<1>5. x \notin Exporting /\ Exporting' = Exporting \cup {x}
  BY <1>3 DEF TypeInv, Exporting, Snapshot, IsIdle
<1>6. IsFiniteSet(Exporting') /\ Cardinality(Exporting') = Cardinality(Exporting) + 1
  BY <1>5, FS_AddElement DEF TypeInv, Numbered
<1>7. Numbered'
  <2>1. Len(archives) \in Nat /\ Cardinality(Exporting) \in Nat
    BY FS_CardinalityType DEF TypeInv, Numbered
  <2> QED
    BY <1>6, <2>1, Bounds DEF Snapshot, Numbered
<1> QED
  BY <1>4, <1>7 DEF Snapshot, TypeInv, Envelopes

LEMMA TypeReadRefs ==
    ASSUME TypeInv, NEW x \in Roots, ReadRefs(x)
    PROVE  TypeInv'
<1>1. service[x] \in [pc : {"refs"}, rows : Rows, logs : Selections]
  BY ServiceShape DEF ReadRefs
<1>2. PICK next \in Services : service' = [service EXCEPT ![x] = next]
  <2>1. Refs(x) \in SUBSET Revisions
    BY DEF TypeInv, Refs
  <2> QED
    BY <1>1, <2>1 DEF ReadRefs, Services
<1>3. service' \in [Roots -> Services]
  BY <1>2 DEF TypeInv
<1>4. Exporting' \subseteq Exporting
  BY <1>1, <1>2 DEF TypeInv, Exporting
<1> QED
  BY <1>3, <1>4, NumberedKept DEF ReadRefs, TypeInv, Envelopes

LEMMA TypePublish ==
    ASSUME TypeInv, NEW x \in Roots, Publish(x)
    PROVE  TypeInv'
<1>1. service[x] \in [pc : {"bodies"}, rows : Rows, logs : Selections, bundle : SUBSET Revisions]
  BY ServiceShape DEF Publish
<1> DEFINE file == [rows |-> service[x].rows, logs |-> service[x].logs,
                    bundle |-> service[x].bundle, bodies |-> Bodies(x)]
<1>2. file \in ArchiveFiles
  BY <1>1 DEF ArchiveFiles, Bodies, Rows
<1>3. archives' = Append(archives, file)
  BY DEF Publish
<1>4. /\ archives' \in Seq(ArchiveFiles) /\ Len(archives') = Len(archives) + 1
      /\ DOMAIN archives \subseteq DOMAIN archives'
  BY <1>2, <1>3 DEF TypeInv
<1>5. service' = [service EXCEPT ![x] = Idle] /\ Idle \in Services
  BY DEF Publish, Answer, Services
<1>6. x \in Exporting /\ Exporting' = Exporting \ {x}
  BY <1>1, <1>5 DEF TypeInv, Exporting, Idle
<1>7. IsFiniteSet(Exporting') /\ Cardinality(Exporting') = Cardinality(Exporting) - 1
  BY <1>6, FS_RemoveElement DEF TypeInv, Numbered
<1>8. Numbered'
  <2>1. Len(archives) \in Nat /\ Cardinality(Exporting) \in Nat
    BY FS_CardinalityType DEF TypeInv, Numbered
  <2> QED
    BY <1>4, <1>7, <2>1, Bounds DEF TypeInv, Numbered
<1>9. asked' \in [Commands -> Envelopes' \cup {None}]
  BY <1>4 DEF Publish, TypeInv, Envelopes
<1> QED
  BY <1>4, <1>5, <1>8, <1>9 DEF Publish, TypeInv

LEMMA TypeAsk ==
    ASSUME TypeInv, NEW c \in Commands, NEW x \in Roots, NEW n \in DOMAIN archives,
           NEW active \in BOOLEAN, Ask(c, x, n, active)
    PROVE  TypeInv'
<1>1. n \in Objects
  BY ArchivesAreNumbered
<1>2. Numbered'
  BY NumberedKept DEF Ask, Exporting
<1> QED
  BY <1>1, <1>2 DEF Ask, TypeInv, Envelopes

LEMMA TypeBeginImport ==
    ASSUME TypeInv, NEW c \in Commands, NEW x \in Roots, BeginImport(x, c)
    PROVE  TypeInv'
<1>1. asked[c] \in Envelopes
  BY DEF BeginImport, TypeInv
<1>2. archives[asked[c].archive] \in ArchiveFiles
  BY <1>1 DEF TypeInv, Envelopes
<1>3. PICK next \in [pc : ImportPcs, command : Commands, todo : SUBSET Objects] :
         service' = [service EXCEPT ![x] = next]
  BY <1>2 DEF BeginImport, At, ImportPcs, ArchiveFiles
<1>4. service' \in [Roots -> Services] /\ Numbered'
  BY <1>3, ServiceMoves DEF Services, ImportPcs, BeginImport
<1> QED
  BY <1>4 DEF BeginImport, TypeInv, Envelopes

\* An import that goes on stays one, with its command, or is over.
LEMMA ImportMoves ==
    ASSUME TypeInv, NEW x \in Roots, ImportStep(x)
    PROVE  /\ service[x] \in [pc : ImportPcs, command : Commands, todo : SUBSET Objects]
           /\ \E next \in {Idle} \cup [pc : ImportPcs, command : {service[x].command},
                                       todo : SUBSET Objects] :
                 service' = [service EXCEPT ![x] = next]
           /\ UNCHANGED <<asked, archives, stops>>
<1>1. service[x].pc \in ImportPcs
  BY DEF ImportStep, StoreBlob, MakeRepository, CopyRepository, RestoreDatabase,
         CheckRestored, Record, ImportPcs
<1>2. service[x] \in [pc : ImportPcs, command : Commands, todo : SUBSET Objects]
  BY <1>1, ServiceShape
<1>3. \E next \in {Idle} \cup [pc : ImportPcs, command : {service[x].command},
                              todo : SUBSET Objects] :
         service' = [service EXCEPT ![x] = next]
  BY <1>2 DEF ImportStep, StoreBlob, MakeRepository, CopyRepository, RestoreDatabase,
              CheckRestored, Record, Answer, ImportPcs
<1>4. UNCHANGED <<asked, archives, stops>>
  BY DEF ImportStep, StoreBlob, MakeRepository, CopyRepository, RestoreDatabase,
         CheckRestored, Record
<1> QED
  BY <1>2, <1>3, <1>4

\* A command that an import works on has an archive.
LEMMA ArchiveIsFile ==
    ASSUME TypeInv, NEW c \in Commands, asked[c] # None
    PROVE  /\ asked[c] \in Envelopes
           /\ archives[asked[c].archive] \in ArchiveFiles
<1>1. asked[c] \in Envelopes
  BY DEF TypeInv
<1> QED
  BY <1>1 DEF TypeInv, Envelopes

\* Everything of an archive is in the database.
Contains(rows, archive) ==
    /\ archive.rows.revs \subseteq rows.revs
    /\ archive.rows.arts \subseteq rows.arts
    /\ archive.rows.run # "none" => rows.run # "none"

\* An import is one of a command that was sent to this root, and as long as it has not
\* restored the database there is no project; afterwards it is the archive's, or more.
Working(x) ==
    LET me == service[x] IN
    me.pc \in ImportPcs =>
        /\ asked[me.command] # None /\ asked[me.command].root = x
        /\ me.pc \in {"check", "record"} <=> db[x] # None
        /\ db[x] # None => Contains(db[x], Archive(x))
        /\ me.pc = "store" => refs[x] = None /\ Archive(x).bodies \ me.todo \subseteq blobs[x]
        /\ me.pc \in {"copy", "restore"} => Archive(x).bodies \subseteq blobs[x]
        /\ me.pc = "copy" => refs[x] = {}
        /\ me.pc = "restore" => refs[x] = Archive(x).bundle

LEMMA TypeImportStep ==
    ASSUME TypeInv, NEW x \in Roots, Working(x), ImportStep(x)
    PROVE  TypeInv'
<1>1. service[x] \in [pc : ImportPcs, command : Commands, todo : SUBSET Objects]
  BY ImportMoves
<1> DEFINE c == service[x].command
<1>2. asked[c] \in Envelopes /\ Archive(x) \in ArchiveFiles
  BY <1>1, ArchiveIsFile DEF Working, Archive
<1>3. service' \in [Roots -> Services] /\ Numbered' /\ UNCHANGED <<asked, archives, stops>>
  <2>1. PICK next \in {Idle} \cup [pc : ImportPcs, command : {c}, todo : SUBSET Objects] :
           service' = [service EXCEPT ![x] = next]
    BY ImportMoves
  <2>2. next \in Services /\ next.pc \notin {"refs", "bodies"}
    BY <1>1, <2>1 DEF Services, ImportPcs, Idle
  <2> QED
    BY <2>1, <2>2, ServiceMoves, ImportMoves
<1>4. db' \in [Roots -> Rows \cup {None}]
  <2>1. CASE RestoreDatabase(x)
    BY <1>2, <2>1 DEF RestoreDatabase, TypeInv, ArchiveFiles
  <2>2. CASE Record(x)
    <3>1. CASE asked[c].active /\ db[x] # None
      BY <1>1, <1>2, <2>2, <3>1, RowOfRecord, NoneIsNothing DEF TypeInv, Envelopes
    <3>2. CASE ~asked[c].active
      BY <2>2, <3>2 DEF Record, TypeInv
    <3>3. db[x] # None
      BY <1>1, <2>2 DEF Working, Record
    <3> QED
      BY <3>1, <3>2, <3>3
  <2> QED
    BY <2>1, <2>2 DEF ImportStep, StoreBlob, MakeRepository, CopyRepository, CheckRestored, TypeInv
<1>5. refs' \in [Roots -> (SUBSET Revisions) \cup {None}]
  BY <1>2 DEF ImportStep, StoreBlob, MakeRepository, CopyRepository, RestoreDatabase,
              CheckRestored, Record, Copied, TypeInv, ArchiveFiles
<1>6. blobs' \in [Roots -> SUBSET Objects]
  BY DEF ImportStep, StoreBlob, MakeRepository, CopyRepository, RestoreDatabase,
         CheckRestored, Record, TypeInv, Objects
<1> QED
  BY <1>3, <1>4, <1>5, <1>6 DEF TypeInv, Envelopes

LEMMA TypeStep ==
    ASSUME TypeInv, \A x \in Roots : Working(x), [Next]_vars
    PROVE  TypeInv'
<1>1. ASSUME NEW x \in Roots, Export(x)
      PROVE  TypeInv'
  BY <1>1, TypeSnapshot, TypeReadRefs, TypePublish DEF Export
<1>2. ASSUME NEW x \in Roots, Other(x)
      PROVE  TypeInv'
  BY <1>2, TypeCreateRevision, TypeRun, TypeCrash DEF Other
<1>3. ASSUME NEW x \in Roots, ImportStep(x)
      PROVE  TypeInv'
  BY <1>3, TypeImportStep
<1>4. ASSUME NEW c \in Commands, NEW x \in Roots,
             BeginImport(x, c)
                \/ \E n \in DOMAIN archives, active \in BOOLEAN : Ask(c, x, n, active)
      PROVE  TypeInv'
  BY <1>4, TypeBeginImport, TypeAsk
<1>5. CASE UNCHANGED vars
  BY <1>5 DEF vars, TypeInv, Numbered, Exporting, Envelopes
<1> QED
  BY <1>1, <1>2, <1>3, <1>4, <1>5 DEF Next

-----------------------------------------------------------------------------
(* What is never taken away *)

\* What a project had, it has.
Grown(old, new) ==
    /\ old.revs \subseteq new.revs /\ old.arts \subseteq new.arts
    /\ old.imported \subseteq new.imported
    /\ Progress(old.run) <= Progress(new.run)

LEMMA ContainsStays ==
    ASSUME NEW old \in Rows, NEW new, NEW archive, Grown(old, new), Contains(old, archive)
    PROVE  Contains(new, archive)
BY DEF Grown, Contains, Progress, Rows

ProjectsGrow == \A x \in Roots : db[x] # None => db'[x] # None /\ Grown(db[x], db'[x])

StoresGrow == \A x \in Roots : Refs(x) \subseteq Refs(x)' /\ blobs[x] \subseteq blobs'[x]

FilesStay ==
    /\ \A c \in Commands : asked[c] # None => asked'[c] = asked[c]
    /\ \A n \in DOMAIN archives : n \in DOMAIN archives' /\ archives'[n] = archives[n]

Kept == ProjectsGrow /\ StoresGrow /\ FilesStay

\* A step that writes one row of the databases, and adds to it.
LEMMA ProjectsGrowWithRow ==
    ASSUME TypeInv, NEW x \in Roots, NEW row \in Rows, db' = [db EXCEPT ![x] = row],
           db[x] # None => Grown(db[x], row)
    PROVE  ProjectsGrow
<1> SUFFICES ASSUME NEW y \in Roots, db[y] # None
             PROVE  db'[y] # None /\ Grown(db[y], db'[y])
  BY DEF ProjectsGrow
<1>1. CASE y = x
  BY <1>1, NoneIsNothing DEF TypeInv
<1>2. CASE y # x
  <2>1. db'[y] = db[y] /\ db[y] \in Rows
    BY <1>2 DEF TypeInv
  <2> QED
    BY <2>1 DEF Grown, Rows, Progress
<1> QED
  BY <1>1, <1>2

LEMMA ProjectsStay ==
    ASSUME TypeInv, db' = db
    PROVE  ProjectsGrow
BY DEF TypeInv, ProjectsGrow, Grown, Rows, Progress

LEMMA FilesStayUnchanged ==
    ASSUME UNCHANGED <<asked, archives>>
    PROVE  FilesStay
BY DEF FilesStay

LEMMA KeptOther ==
    ASSUME TypeInv, NEW x \in Roots, Other(x)
    PROVE  Kept
<1>1. FilesStay
  BY FilesStayUnchanged DEF Other, CreateRevision, CrashInRevision, QueueRun, RunJob, Crash
<1>2. StoresGrow
  <2>1. ASSUME NEW r \in Revisions, CreateRevision(x, r) \/ CrashInRevision(x, r)
        PROVE  StoresGrow
    <3>1. Refs(x) \cup {r} \in SUBSET Revisions /\ Refs(x) \cup {r} # None
      <4>1. Refs(x) \cup {r} \in SUBSET Revisions
        BY DEF Refs, TypeInv
      <4> QED
        BY <4>1, NoneIsNothing
    <3>2. /\ refs' = [refs EXCEPT ![x] = Refs(x) \cup {r}]
          /\ blobs' = [blobs EXCEPT ![x] = @ \cup {r}]
      BY <2>1 DEF CreateRevision, CrashInRevision
    <3> QED
      BY <3>1, <3>2 DEF StoresGrow, Refs, TypeInv
  <2>2. CASE QueueRun(x) \/ RunJob(x) \/ Crash(x)
    BY <2>2 DEF QueueRun, RunJob, Crash, StoresGrow, Refs, TypeInv
  <2> QED
    BY <2>1, <2>2 DEF Other
<1>3. ASSUME NEW r \in Revisions, CreateRevision(x, r)
      PROVE  ProjectsGrow
  <2>1. PICK row \in Rows :
           /\ db' = [db EXCEPT ![x] = row]
           /\ row.revs = db[x].revs \cup {r} /\ row.arts = db[x].arts \cup {r}
           /\ row.run = db[x].run /\ row.imported = db[x].imported
    BY <1>3, RowOfRevision
  <2>2. db[x] \in Rows
    BY <1>3 DEF CreateRevision, TypeInv
  <2>3. Grown(db[x], row)
    BY <2>1, <2>2 DEF Grown, Rows, Progress
  <2> QED
    BY <2>1, <2>3, ProjectsGrowWithRow
<1>4. ASSUME QueueRun(x) \/ RunJob(x)
      PROVE  ProjectsGrow
  <2>1. PICK row \in Rows :
           /\ db' = [db EXCEPT ![x] = row]
           /\ row.revs = db[x].revs /\ row.imported = db[x].imported
           /\ \/ QueueRun(x) /\ row.run = "queued" /\ row.arts = db[x].arts
              \/ RunJob(x) /\ row.run = "done" /\ row.arts = db[x].arts \cup {Result}
    BY <1>4, RowOfRun
  <2>2. Grown(db[x], row)
    BY <2>1 DEF Grown, QueueRun, RunJob, Progress
  <2> QED
    BY <2>1, <2>2, ProjectsGrowWithRow
<1>5. ASSUME NEW r \in Revisions, CrashInRevision(x, r) \/ Crash(x)
      PROVE  ProjectsGrow
  BY <1>5, ProjectsStay DEF CrashInRevision, Crash
<1> QED
  BY <1>1, <1>2, <1>3, <1>4, <1>5, ProjectsStay DEF Kept, Other, Crash

LEMMA KeptExport ==
    ASSUME TypeInv, NEW x \in Roots, Export(x)
    PROVE  Kept
<1>1. UNCHANGED <<db, refs, blobs, asked>>
  BY DEF Export, Snapshot, ReadRefs, Publish
<1>2. \A n \in DOMAIN archives : n \in DOMAIN archives' /\ archives'[n] = archives[n]
  <2>1. CASE Publish(x)
    BY <2>1 DEF Publish, TypeInv
  <2>2. CASE ~Publish(x)
    BY <2>2 DEF Export, Snapshot, ReadRefs
  <2> QED
    BY <2>1, <2>2
<1> QED
  BY <1>1, <1>2, ProjectsStay DEF Kept, StoresGrow, FilesStay, Refs

LEMMA KeptCommand ==
    ASSUME TypeInv, NEW c \in Commands, NEW x \in Roots,
           BeginImport(x, c)
              \/ \E n \in DOMAIN archives, active \in BOOLEAN : Ask(c, x, n, active)
    PROVE  Kept
<1>1. UNCHANGED <<db, refs, archives>>
  BY DEF BeginImport, Ask
<1>2. StoresGrow
  BY DEF BeginImport, Ask, StoresGrow, Refs, TypeInv
<1>3. FilesStay
  BY DEF BeginImport, Ask, FilesStay, TypeInv
<1> QED
  BY <1>1, <1>2, <1>3, ProjectsStay DEF Kept

\* An import restores a database only where there was no project.
LEMMA KeptImport ==
    ASSUME TypeInv, NEW x \in Roots, Working(x), ImportStep(x)
    PROVE  Kept
<1>1. /\ service[x] \in [pc : ImportPcs, command : Commands, todo : SUBSET Objects]
      /\ UNCHANGED <<asked, archives>>
  BY ImportMoves
<1> DEFINE c == service[x].command
<1>2. asked[c] # None /\ asked[c] \in Envelopes /\ Archive(x) \in ArchiveFiles
  BY <1>1, ArchiveIsFile DEF Working, Archive
<1>3. StoresGrow
  BY <1>1, <1>2 DEF ImportStep, StoreBlob, MakeRepository, CopyRepository, RestoreDatabase,
              CheckRestored, Record, Working, StoresGrow, Refs, TypeInv
<1>4. ProjectsGrow
  <2>1. CASE RestoreDatabase(x)
    <3>1. db[x] = None
      BY <1>1, <2>1 DEF RestoreDatabase, Working
    <3>2. Archive(x).rows \in Rows
      BY <1>2 DEF ArchiveFiles
    <3> QED
      BY <2>1, <3>1, <3>2, ProjectsGrowWithRow DEF RestoreDatabase
  <2>2. CASE Record(x) /\ asked[c].active
    <3>1. db[x] # None /\ db[x] \in Rows
      BY <1>1, <2>2 DEF Record, Working, TypeInv
    <3>2. PICK row \in Rows :
              /\ db' = [db EXCEPT ![x] = row]
              /\ row.revs = db[x].revs /\ row.run = db[x].run
              /\ row.arts = db[x].arts \cup {asked[c].archive}
              /\ row.imported = db[x].imported \cup {c}
      BY <1>1, <1>2, <2>2, <3>1, RowOfRecord
    <3>3. Grown(db[x], row)
      BY <3>1, <3>2 DEF Grown, Rows, Progress
    <3> QED
      BY <3>2, <3>3, ProjectsGrowWithRow
  <2>3. CASE db' = db
    BY <2>3, ProjectsStay
  <2> QED
    BY <2>1, <2>2, <2>3 DEF ImportStep, StoreBlob, MakeRepository, CopyRepository,
                            CheckRestored, Record
<1> QED
  BY <1>1, <1>3, <1>4, FilesStayUnchanged DEF Kept

LEMMA KeptStep ==
    ASSUME TypeInv, \A x \in Roots : Working(x), [Next]_vars
    PROVE  Kept
<1>1. CASE UNCHANGED vars
  BY <1>1, ProjectsStay, FilesStayUnchanged DEF vars, Kept, StoresGrow, Refs
<1> QED
  BY <1>1, KeptOther, KeptExport, KeptCommand, KeptImport DEF Next

-----------------------------------------------------------------------------
(* What a root holds, and what an archive holds *)

\* A revision has its files, and a run that is done its result.
Whole(rows) ==
    /\ rows.revs \subseteq rows.arts
    /\ rows.run = "done" => Result \in rows.arts

\* The imports that rows tell of have their receipts where they were sent.
Told(rows) == \A c \in rows.imported : Received(c)

\* What a database names is on the disk.
Stored(x) ==
    db[x] # None =>
        /\ Whole(db[x]) /\ Told(db[x])
        /\ db[x].revs \subseteq Refs(x) /\ db[x].arts \subseteq blobs[x]

Collected(x) ==
    LET me == service[x] IN
    /\ me.pc \in {"refs", "bodies"} => Whole(me.rows) /\ Told(me.rows)
    /\ me.pc = "bodies" => me.bundle = me.rows.revs

Complete(archive) ==
    /\ Whole(archive.rows) /\ Told(archive.rows)
    /\ archive.bundle = archive.rows.revs
    /\ archive.bodies = archive.rows.arts

RootOK(x) == Stored(x) /\ Collected(x) /\ Working(x)

ArchiveInv ==
    /\ TypeInv
    /\ \A x \in Roots : RootOK(x)
    /\ \A n \in DOMAIN archives : Complete(archives[n])
    /\ ReceiptsTell

LEMMA ArchiveInit == Init => ArchiveInv
<1> SUFFICES ASSUME Init PROVE ArchiveInv
  OBVIOUS
<1>1. \A x \in Roots : Stored(x)
  BY DEF Init, Stored, NewProject, Whole, Told, Refs
<1>2. \A x \in Roots : Collected(x) /\ Working(x)
  BY DEF Init, Collected, Working, Idle, ImportPcs
<1>3. ReceiptsTell /\ archives = <<>>
  BY DEF Init, ReceiptsTell, Received
<1> QED
  BY TypeInit, <1>1, <1>2, <1>3 DEF ArchiveInv, RootOK

LEMMA ReceivedStays ==
    ASSUME TypeInv, Kept, NEW c \in Commands, Received(c)
    PROVE  Received(c)' /\ asked'[c] = asked[c]
<1>1. asked[c] # None /\ asked[c].root \in Roots
  BY ArchiveIsFile DEF Received, Envelopes
<1>2. asked'[c] = asked[c]
  BY <1>1 DEF Kept, FilesStay
<1> QED
  BY <1>1, <1>2 DEF Kept, ProjectsGrow, Grown, Received, Imported

LEMMA ToldStays ==
    ASSUME TypeInv, Kept, NEW rows \in Rows, Told(rows)
    PROVE  \A c \in rows.imported : Received(c)'
BY ReceivedStays DEF Told, Rows

\* A root whose service and repository stand still keeps what is known of them.
LEMMA RequestStays ==
    ASSUME TypeInv, Kept, NEW x \in Roots, service'[x] = service[x], refs'[x] = refs[x],
           db[x] = None <=> db'[x] = None, Collected(x), Working(x)
    PROVE  Collected(x)' /\ Working(x)'
<1>1. Collected(x)'
  <2>1. service[x].pc \in {"refs", "bodies"} => service[x].rows \in Rows
    BY ServiceShape
  <2> QED
    BY <2>1, ToldStays DEF Collected, Told, Whole
<1>2. Working(x)'
  <2> SUFFICES ASSUME service[x].pc \in ImportPcs PROVE Working(x)'
    BY DEF Working
  <2> DEFINE c == service[x].command
  <2>1. c \in Commands /\ asked[c] # None /\ asked[c] \in Envelopes
    BY ServiceShape, ArchiveIsFile DEF Working
  <2>2. asked'[c] = asked[c] /\ Archive(x)' = Archive(x)
    BY <2>1 DEF Kept, FilesStay, Envelopes, Archive
  <2>3. blobs[x] \subseteq blobs'[x]
    BY DEF Kept, StoresGrow
  <2>4. db[x] # None => Contains(db'[x], Archive(x))
    BY ContainsStays DEF TypeInv, Kept, ProjectsGrow, Working
  <2> QED
    BY <2>1, <2>2, <2>3, <2>4 DEF Working
<1> QED
  BY <1>1, <1>2

\* A project that stands still keeps what is known of it.
LEMMA ProjectStays ==
    ASSUME TypeInv, Kept, NEW x \in Roots, db'[x] = db[x], Stored(x)
    PROVE  Stored(x)'
<1> SUFFICES ASSUME db[x] # None PROVE Stored(x)'
  BY DEF Stored
<1>1. db[x] \in Rows
  BY DEF TypeInv
<1>2. Told(db[x])'
  BY <1>1, ToldStays DEF Stored, Told
<1> QED
  BY <1>2 DEF Stored, Whole, Kept, StoresGrow

LEMMA ReceiptStays ==
    ASSUME TypeInv, Kept, NEW c \in Commands, Received(c), ReceiptsTell
    PROVE  Contains(db'[asked'[c].root], archives'[asked'[c].archive])
<1> DEFINE x == asked[c].root
           archive == archives[asked[c].archive]
<1>1. x \in Roots /\ asked[c].archive \in DOMAIN archives /\ db[x] # None
  BY ArchiveIsFile DEF Received, Imported, Envelopes
<1>2. asked'[c] = asked[c] /\ archives'[asked[c].archive] = archive
  BY <1>1, ReceivedStays DEF Kept, FilesStay
<1>3. Contains(db[x], archive)
  BY DEF ReceiptsTell, Contains
<1>4. Contains(db'[x], archive)
  BY <1>1, <1>3, ContainsStays DEF TypeInv, Kept, ProjectsGrow
<1> QED
  BY <1>2, <1>4

-----------------------------------------------------------------------------
(* The steps *)

\* Every root whose project, repository and service the step leaves alone.
LEMMA RootStays ==
    ASSUME TypeInv, Kept, NEW x \in Roots, RootOK(x),
           db'[x] = db[x], refs'[x] = refs[x], service'[x] = service[x]
    PROVE  RootOK(x)'
BY RequestStays, ProjectStays DEF RootOK

\* A step after which no command is received that was not.
LEMMA ReceiptsStay ==
    ASSUME TypeInv, Kept, ReceiptsTell, \A c \in Commands : Received(c)' => Received(c)
    PROVE  ReceiptsTell'
BY ReceiptStays DEF ReceiptsTell, Contains

LEMMA FilesKept ==
    ASSUME TypeInv, Kept, \A n \in DOMAIN archives : Complete(archives[n])
    PROVE  \A n \in DOMAIN archives : Complete(archives[n])'
<1> SUFFICES ASSUME NEW n \in DOMAIN archives PROVE Complete(archives[n])'
  OBVIOUS
<1>1. archives'[n] = archives[n] /\ archives[n] \in ArchiveFiles
  BY DEF Kept, FilesStay, TypeInv
<1>2. Told(archives[n].rows)'
  BY <1>1, ToldStays DEF Complete, ArchiveFiles, Told
<1> QED
  BY <1>1, <1>2 DEF Complete, Whole

LEMMA InvRevision ==
    ASSUME ArchiveInv, Kept, TypeInv', NEW x \in Roots, NEW r \in Revisions,
           CreateRevision(x, r) \/ CrashInRevision(x, r)
    PROVE  ArchiveInv'
<1> USE DEF ArchiveInv
<1>1. UNCHANGED <<service, asked, archives>> /\ db[x] # None /\ service[x].pc = "idle"
  BY DEF CreateRevision, CrashInRevision, IsIdle
<1>2. \A y \in Roots : y # x =>
          db'[y] = db[y] /\ refs'[y] = refs[y] /\ service'[y] = service[y]
  BY DEF CreateRevision, CrashInRevision, TypeInv
<1>3. Stored(x)'
  <2>1. CASE CreateRevision(x, r)
    <3>1. PICK row \in Rows :
             /\ db' = [db EXCEPT ![x] = row]
             /\ row.revs = db[x].revs \cup {r} /\ row.arts = db[x].arts \cup {r}
             /\ row.run = db[x].run /\ row.imported = db[x].imported
      BY <2>1, RowOfRevision
    <3>2. db'[x] = row
      BY <3>1 DEF TypeInv
    <3>3. Refs(x)' = Refs(x) \cup {r} /\ blobs'[x] = blobs[x] \cup {r}
      <4>1. Refs(x) \cup {r} \in SUBSET Revisions
        BY DEF Refs, TypeInv
      <4> QED
        BY <2>1, <4>1, NoneIsNothing DEF CreateRevision, Refs, TypeInv
    <3>4. Told(row)'
      <4>1. db[x] \in Rows /\ Told(db[x])
        BY <1>1 DEF TypeInv, RootOK, Stored
      <4> QED
        BY <3>1, <4>1, ToldStays DEF Told
    <3>5. Whole(row) /\ row.revs \subseteq Refs(x)' /\ row.arts \subseteq blobs'[x]
      BY <1>1, <3>1, <3>3 DEF RootOK, Stored, Whole
    <3> QED
      BY <3>2, <3>4, <3>5 DEF Stored, Whole
  <2>2. CASE CrashInRevision(x, r)
    BY <2>2, ProjectStays DEF CrashInRevision, RootOK
  <2> QED
    BY <2>1, <2>2
<1>4. RootOK(x)'
  BY <1>1, <1>3 DEF RootOK, Collected, Working, ImportPcs
<1>5. \A y \in Roots : RootOK(y)'
  BY <1>2, <1>4, RootStays
<1>6. \A y \in Roots, c \in Commands : Imported(y, c)' => Imported(y, c)
  <2>1. CASE CreateRevision(x, r)
    BY <1>1, <1>2, <2>1, RowOfRevision DEF Imported, TypeInv
  <2>2. CASE CrashInRevision(x, r)
    BY <2>2 DEF CrashInRevision, Imported
  <2> QED
    BY <2>1, <2>2
<1>7. ReceiptsTell'
  BY <1>1, <1>6, ReceiptsStay, ArchiveIsFile DEF Received, Envelopes
<1> QED
  BY <1>1, <1>5, <1>7, FilesKept

LEMMA InvRun ==
    ASSUME ArchiveInv, Kept, TypeInv', NEW x \in Roots, QueueRun(x) \/ RunJob(x)
    PROVE  ArchiveInv'
<1> USE DEF ArchiveInv
<1>1. UNCHANGED <<refs, service, asked, archives>> /\ db[x] # None
  BY DEF QueueRun, RunJob
<1>2. PICK row \in Rows :
         /\ db' = [db EXCEPT ![x] = row]
         /\ row.revs = db[x].revs /\ row.imported = db[x].imported
         /\ \/ QueueRun(x) /\ row.run = "queued" /\ row.arts = db[x].arts
            \/ RunJob(x) /\ row.run = "done" /\ row.arts = db[x].arts \cup {Result}
  BY RowOfRun
<1>3. db'[x] = row /\ row # None /\ \A y \in Roots : y # x => db'[y] = db[y]
  BY <1>2, NoneIsNothing DEF TypeInv
<1>4. Stored(x)'
  <2>1. Told(row)'
    <3>1. db[x] \in Rows /\ Told(db[x])
      BY <1>1 DEF TypeInv, RootOK, Stored
    <3> QED
      BY <1>2, <3>1, ToldStays DEF Told
  <2>2. row.arts \subseteq blobs'[x]
    BY <1>1, <1>2 DEF RootOK, Stored, QueueRun, RunJob, TypeInv
  <2>3. Whole(row) /\ row.revs \subseteq Refs(x)'
    BY <1>1, <1>2 DEF RootOK, Stored, Whole, Refs
  <2> QED
    BY <1>3, <2>1, <2>2, <2>3 DEF Stored, Whole
<1>5. RootOK(x)'
  BY <1>1, <1>3, <1>4, RequestStays DEF RootOK
<1>6. \A y \in Roots : RootOK(y)'
  BY <1>1, <1>3, <1>5, RootStays
<1>7. \A y \in Roots, c \in Commands : Imported(y, c)' => Imported(y, c)
  BY <1>1, <1>2, <1>3 DEF Imported
<1>8. ReceiptsTell'
  BY <1>1, <1>7, ReceiptsStay, ArchiveIsFile DEF Received, Envelopes
<1> QED
  BY <1>1, <1>6, <1>8, FilesKept

\* Steps that leave the projects alone, and the service of one root in order.
LEMMA InvRequest ==
    ASSUME ArchiveInv, Kept, TypeInv', NEW x \in Roots, UNCHANGED <<db, asked, archives>>,
           \A y \in Roots : y # x => refs'[y] = refs[y] /\ service'[y] = service[y],
           Collected(x)', Working(x)'
    PROVE  ArchiveInv'
<1> USE DEF ArchiveInv
<1>1. RootOK(x)'
  BY ProjectStays DEF RootOK
<1>2. \A y \in Roots : RootOK(y)'
  BY <1>1, RootStays
<1>3. ReceiptsTell'
  BY ReceiptsStay DEF Received, Imported
<1> QED
  BY <1>2, <1>3, FilesKept

LEMMA InvExport ==
    ASSUME ArchiveInv, Kept, TypeInv', NEW x \in Roots,
           (\E selected \in Selections : Snapshot(x, selected)) \/ ReadRefs(x) \/ Crash(x)
    PROVE  ArchiveInv'
<1> USE DEF ArchiveInv
<1>1. /\ UNCHANGED <<db, refs, blobs, asked, archives>>
      /\ \A y \in Roots : y # x => service'[y] = service[y]
  BY DEF Snapshot, ReadRefs, Crash, Answer, TypeInv
<1>2. service'[x].pc \in {"idle", "refs", "bodies"}
  BY DEF Snapshot, ReadRefs, Crash, Answer, Idle, TypeInv
<1>3. Working(x)'
  BY <1>2 DEF Working, ImportPcs
<1>4. Collected(x)'
  <2>1. ASSUME NEW selected \in Selections, Snapshot(x, selected)
        PROVE  Collected(x)'
    <3> DEFINE rows == Portable(db[x], selected)
    <3>1. service'[x] = [pc |-> "refs", rows |-> rows, logs |-> selected]
      BY <2>1 DEF Snapshot, TypeInv
    <3>2. db[x] \in Rows /\ Stored(x) /\ db[x] # None
      BY <2>1 DEF Snapshot, TypeInv, RootOK
    <3>3. rows \in Rows /\ rows.revs = db[x].revs /\ rows.run = db[x].run
          /\ rows.imported = db[x].imported /\ rows.arts = db[x].arts \ (1..MaxArchives)
      BY <3>2 DEF Portable, Rows
    <3>4. Whole(rows)
      BY <3>2, <3>3, ArchivesAreOtherBytes DEF Stored, Whole, Rows
    <3>5. \A d \in rows.imported : Received(d)'
      BY <3>2, <3>3, ToldStays DEF Stored
    <3> QED
      BY <3>1, <3>4, <3>5 DEF Collected, Whole, Told
  <2>2. CASE ReadRefs(x)
    <3>1. service[x].rows \in Rows /\ Whole(service[x].rows) /\ Told(service[x].rows)
      BY <2>2, ServiceShape DEF ReadRefs, RootOK, Collected
    <3>2. \A d \in service[x].rows.imported : Received(d)'
      BY <3>1, ToldStays
    <3>3. \/ service'[x] = Idle
          \/ /\ service'[x] = [pc |-> "bodies", rows |-> service[x].rows,
                               logs |-> service[x].logs, bundle |-> Refs(x)]
             /\ Refs(x) = service[x].rows.revs
      BY <2>2 DEF ReadRefs, RefsMatch, TypeInv
    <3> QED
      BY <3>1, <3>2, <3>3 DEF Collected, Whole, Told, Idle
  <2>3. CASE Crash(x)
    BY <2>3 DEF Crash, Answer, Collected, Idle, TypeInv
  <2> QED
    BY <2>1, <2>2, <2>3
<1> QED
  BY <1>1, <1>3, <1>4, InvRequest

LEMMA InvPublish ==
    ASSUME ArchiveInv, Kept, TypeInv', NEW x \in Roots, Publish(x)
    PROVE  ArchiveInv'
<1> USE DEF ArchiveInv
<1>1. PICK file \in ArchiveFiles :
         /\ archives' = Append(archives, file)
         /\ file = [rows |-> service[x].rows, logs |-> service[x].logs,
                    bundle |-> service[x].bundle, bodies |-> service[x].rows.arts]
  BY ServiceShape DEF Publish, Bodies, ArchiveFiles, Rows
<1>2. /\ UNCHANGED <<db, refs, blobs, asked>>
      /\ service'[x] = Idle
      /\ \A y \in Roots : y # x => service'[y] = service[y]
  BY DEF Publish, Answer, TypeInv
<1>3. RootOK(x)'
  BY <1>2, ProjectStays DEF RootOK, Collected, Working, Idle, ImportPcs
<1>4. \A y \in Roots : RootOK(y)'
  BY <1>2, <1>3, RootStays
<1>5. ReceiptsTell'
  BY <1>2, ReceiptsStay DEF Received, Imported
<1>6. Complete(file)
  BY <1>1 DEF Publish, RootOK, Collected, Complete
<1>7. Complete(file)'
  BY <1>1, <1>6, ToldStays DEF Complete, Told, Whole, ArchiveFiles
<1>8. \A n \in DOMAIN archives' :
          \/ n \in DOMAIN archives /\ archives'[n] = archives[n]
          \/ archives'[n] = file
  BY <1>1 DEF TypeInv
<1>9. \A n \in DOMAIN archives' : Complete(archives[n])'
  <2> SUFFICES ASSUME NEW n \in DOMAIN archives' PROVE Complete(archives[n])'
    OBVIOUS
  <2>1. CASE n \in DOMAIN archives
    BY <2>1, FilesKept
  <2>2. CASE archives'[n] = file
    BY <1>7, <2>2 DEF Complete, Told
  <2> QED
    BY <1>8, <2>1, <2>2
<1> QED
  BY <1>4, <1>5, <1>9

LEMMA InvCommand ==
    ASSUME ArchiveInv, Kept, TypeInv', NEW c \in Commands, NEW x \in Roots,
           NEW n \in DOMAIN archives, NEW active \in BOOLEAN, Ask(c, x, n, active)
    PROVE  ArchiveInv'
<1> USE DEF ArchiveInv
<1>1. UNCHANGED <<db, refs, service, archives>> /\ asked[c] = None
  BY DEF Ask
<1>2. \A y \in Roots : RootOK(y)'
  BY <1>1, RootStays
<1>3. \A d \in Commands : d # c => asked'[d] = asked[d]
  BY DEF Ask, TypeInv
<1>4. asked'[c] = [root |-> x, archive |-> n, active |-> active]
  BY DEF Ask, TypeInv
<1>5. ~Imported(x, c)
  BY <1>1 DEF Imported, RootOK, Stored, Told, Received
<1>6. \A d \in Commands : Received(d)' => Received(d)
  BY <1>1, <1>3, <1>4, <1>5 DEF Received, Imported
<1> QED
  BY <1>1, <1>2, <1>6, ReceiptsStay, FilesKept

LEMMA InvBegin ==
    ASSUME ArchiveInv, Kept, TypeInv', NEW c \in Commands, NEW x \in Roots, BeginImport(x, c)
    PROVE  ArchiveInv'
<1> USE DEF ArchiveInv
<1> DEFINE archive == archives[asked[c].archive]
<1>1. asked[c] # None /\ asked[c].root = x /\ asked[c] \in Envelopes /\ archive \in ArchiveFiles
      /\ UNCHANGED <<db, refs, blobs, asked, archives>>
  BY ArchiveIsFile DEF BeginImport
<1>2. \/ /\ Target(x, archive) = "same"
         /\ service' = [service EXCEPT ![x] = [pc |-> "record", command |-> c, todo |-> {}]]
      \/ /\ Target(x, archive) = "empty"
         /\ service' = [service EXCEPT ![x] =
                           [pc |-> "store", command |-> c, todo |-> archive.bodies]]
  BY DEF BeginImport, At
<1>3. /\ Target(x, archive) = "same" => db[x] # None /\ Identical(x, archive)
      /\ Target(x, archive) = "empty" => db[x] = None /\ refs[x] = None
  BY DEF Target, EmptyTarget
<1>4. Complete(archive)
  BY <1>1 DEF Envelopes
<1>5. Identical(x, archive) => Contains(db[x], archive)
  BY <1>4 DEF Identical, Holds, HasRevisions, Contains, Complete
<1>6. service'[x].command = c /\ Archive(x)' = archive
      /\ \A y \in Roots : y # x => service'[y] = service[y]
  BY <1>1, <1>2 DEF Archive, TypeInv
<1>7. Collected(x)'
  BY <1>2 DEF Collected, TypeInv
<1>8. Working(x)'
  <2>1. CASE Target(x, archive) = "same"
    <3>1. service'[x].pc = "record"
      BY <1>2, <2>1 DEF TypeInv
    <3> QED
      BY <1>1, <1>3, <1>5, <1>6, <2>1, <3>1 DEF Working
  <2>2. CASE Target(x, archive) = "empty"
    <3>1. service'[x].pc = "store" /\ service'[x].todo = archive.bodies
      BY <1>2, <2>2 DEF TypeInv
    <3> QED
      BY <1>1, <1>3, <1>6, <2>2, <3>1 DEF Working
  <2> QED
    BY <1>2, <2>1, <2>2
<1> QED
  BY <1>1, <1>6, <1>7, <1>8, InvRequest

\* What an import has at hand, and that its archive stays the same.
LEMMA AtImport ==
    ASSUME ArchiveInv, NEW x \in Roots, ImportStep(x)
    PROVE  /\ service[x] \in [pc : ImportPcs, command : Commands, todo : SUBSET Objects]
           /\ asked[service[x].command] \in Envelopes
           /\ Archive(x) \in ArchiveFiles /\ Complete(Archive(x))
           /\ UNCHANGED <<asked, archives>>
<1> USE DEF ArchiveInv
<1>1. /\ service[x] \in [pc : ImportPcs, command : Commands, todo : SUBSET Objects]
      /\ UNCHANGED <<asked, archives>>
  BY ImportMoves
<1>2. asked[service[x].command] \in Envelopes /\ Archive(x) \in ArchiveFiles
  BY <1>1, ArchiveIsFile DEF RootOK, Working, Archive
<1>3. Complete(Archive(x))
  BY <1>2 DEF Archive, Envelopes
<1> QED
  BY <1>1, <1>2, <1>3

LEMMA InvFiles ==
    ASSUME ArchiveInv, Kept, TypeInv', NEW x \in Roots, ImportStep(x),
           \/ \E object \in Revisions \cup {Result} : StoreBlob(x, object)
           \/ MakeRepository(x) \/ CopyRepository(x) \/ CheckRestored(x)
    PROVE  ArchiveInv'
<1> USE DEF ArchiveInv
<1>1. /\ service[x] \in [pc : ImportPcs, command : Commands, todo : SUBSET Objects]
      /\ UNCHANGED <<db, asked, archives>>
  BY AtImport DEF StoreBlob, MakeRepository, CopyRepository, CheckRestored
<1>2. \A y \in Roots : y # x => refs'[y] = refs[y] /\ service'[y] = service[y]
  BY DEF StoreBlob, MakeRepository, CopyRepository, CheckRestored, TypeInv
<1>3. Working(x) /\ service[x].pc \in ImportPcs
  BY <1>1 DEF RootOK
<1>4. Collected(x)' /\ Working(x)'
  <2>1. ASSUME NEW object \in Revisions \cup {Result}, StoreBlob(x, object)
        PROVE  Collected(x)' /\ Working(x)'
    <3>1. /\ service'[x] = [service[x] EXCEPT !.todo = @ \ {object}]
          /\ service[x].pc = "store" /\ blobs'[x] = blobs[x] \cup {object}
          /\ UNCHANGED refs
      BY <1>1, <2>1 DEF StoreBlob, TypeInv
    <3>2. service'[x].pc = "store" /\ service'[x].command = service[x].command
          /\ service'[x].todo = service[x].todo \ {object}
      BY <1>1, <3>1
    <3>3. Archive(x)' = Archive(x)
      BY <1>1, <3>2 DEF Archive
    <3> QED
      BY <1>1, <1>3, <3>1, <3>2, <3>3 DEF Collected, Working
  <2>2. CASE MakeRepository(x)
    <3>1. service[x].pc = "store" /\ service[x].todo = {} /\ refs'[x] = {} /\ UNCHANGED blobs
          /\ service'[x].pc = "copy" /\ service'[x].command = service[x].command
      BY <1>1, <2>2 DEF MakeRepository, TypeInv
    <3>2. Archive(x)' = Archive(x)
      BY <1>1, <3>1 DEF Archive
    <3> QED
      BY <1>1, <1>3, <3>1, <3>2 DEF Collected, Working
  <2>3. CASE CopyRepository(x)
    <3>1. service[x].pc = "copy" /\ refs'[x] = Archive(x).bundle /\ UNCHANGED blobs
          /\ service'[x].pc = "restore" /\ service'[x].command = service[x].command
      BY <1>1, <2>3 DEF CopyRepository, Copied, TypeInv
    <3>2. Archive(x)' = Archive(x)
      BY <1>1, <3>1 DEF Archive
    <3> QED
      BY <1>1, <1>3, <3>1, <3>2 DEF Collected, Working
  <2>4. CASE CheckRestored(x)
    <3>1. /\ service[x].pc = "check" /\ UNCHANGED <<refs, blobs>>
          /\ \/ service'[x] = Idle
             \/ service'[x].pc = "record" /\ service'[x].command = service[x].command
      BY <1>1, <2>4 DEF CheckRestored, TypeInv
    <3>2. CASE service'[x] = Idle
      BY <3>2 DEF Collected, Working, Idle, ImportPcs
    <3>3. CASE service'[x].pc = "record" /\ service'[x].command = service[x].command
      <4>1. Archive(x)' = Archive(x)
        BY <1>1, <3>3 DEF Archive
      <4> QED
        BY <1>1, <1>3, <3>1, <3>3, <4>1 DEF Collected, Working
    <3> QED
      BY <3>1, <3>2, <3>3
  <2> QED
    BY <2>1, <2>2, <2>3, <2>4
<1> QED
  BY <1>1, <1>2, <1>4, InvRequest

LEMMA InvRestore ==
    ASSUME ArchiveInv, Kept, TypeInv', NEW x \in Roots, ImportStep(x), RestoreDatabase(x)
    PROVE  ArchiveInv'
<1> USE DEF ArchiveInv
<1>1. /\ service[x] \in [pc : ImportPcs, command : Commands, todo : SUBSET Objects]
      /\ service[x].pc = "restore" /\ Complete(Archive(x))
      /\ UNCHANGED <<refs, blobs, asked, archives>>
  BY AtImport DEF RestoreDatabase
<1>2. PICK file \in ArchiveFiles : file = Archive(x)
  BY AtImport
<1>3. /\ db'[x] = file.rows /\ file.rows \in Rows /\ db'[x] # None
      /\ service'[x].pc = "check" /\ service'[x].command = service[x].command
      /\ \A y \in Roots : y # x => db'[y] = db[y] /\ service'[y] = service[y]
  BY <1>1, <1>2, NoneIsNothing DEF RestoreDatabase, TypeInv, ArchiveFiles
<1>4. /\ db[x] = None /\ file.bodies \subseteq blobs[x] /\ refs[x] = file.bundle
      /\ asked[service[x].command] # None /\ asked[service[x].command].root = x
  BY <1>1, <1>2 DEF RootOK, Working, ImportPcs
<1>5. Archive(x)' = file
  BY <1>1, <1>2, <1>3 DEF Archive
<1>6. Stored(x)'
  <2>1. Told(file.rows)'
    BY <1>1, <1>2, <1>3, ToldStays DEF Complete, Told
  <2>2. refs'[x] # None
    BY <1>1, <1>2, <1>4, NoneIsNothing DEF ArchiveFiles
  <2>3. file.rows.revs \subseteq Refs(x)' /\ file.rows.arts \subseteq blobs'[x] /\ Whole(file.rows)
    BY <1>1, <1>2, <1>4, <2>2 DEF Complete, Refs
  <2> QED
    BY <1>3, <2>1, <2>3 DEF Stored, Whole
<1>7. Collected(x)' /\ Working(x)'
  BY <1>1, <1>3, <1>4, <1>5 DEF Collected, Working, Contains
<1>8. \A y \in Roots : RootOK(y)'
  BY <1>1, <1>3, <1>6, <1>7, RootStays DEF RootOK
<1>9. \A c \in Commands : Received(c)' => Received(c)
  <2> SUFFICES ASSUME NEW c \in Commands, Received(c)' PROVE Received(c)
    OBVIOUS
  <2>1. asked[c] # None /\ asked[c].root \in Roots
    BY <1>1, ArchiveIsFile DEF Received, Envelopes
  <2>2. CASE asked[c].root = x
    BY <1>1, <1>2, <1>3, <2>2 DEF Received, Imported, Complete, Told
  <2>3. CASE asked[c].root # x
    BY <1>1, <1>3, <2>1, <2>3 DEF Received, Imported
  <2> QED
    BY <2>2, <2>3
<1> QED
  BY <1>1, <1>8, <1>9, ReceiptsStay, FilesKept

\* The bytes of an archive are in the root that is asked to import it.
AllStaged ==
    \A c \in Commands : asked[c] # None => asked[c].archive \in blobs[asked[c].root]

LEMMA StagedStep ==
    ASSUME TypeInv, AllStaged, Kept, [Next]_vars
    PROVE  AllStaged'
<1> SUFFICES ASSUME NEW c \in Commands, asked'[c] # None
             PROVE  asked'[c].archive \in blobs'[asked'[c].root]
  BY DEF AllStaged
<1>1. CASE asked[c] # None
  <2>1. asked'[c] = asked[c] /\ asked[c].root \in Roots
    BY <1>1, ArchiveIsFile DEF Kept, FilesStay, Envelopes
  <2> QED
    BY <1>1, <2>1 DEF AllStaged, Kept, StoresGrow
<1>2. CASE asked[c] = None
  <2>1. PICK d \in Commands, x \in Roots, n \in DOMAIN archives, active \in BOOLEAN :
           Ask(d, x, n, active)
    BY <1>2 DEF Next, vars, Export, Snapshot, ReadRefs, Publish, ImportStep, StoreBlob,
                MakeRepository, CopyRepository, RestoreDatabase, CheckRestored, Record, Other,
                CreateRevision, CrashInRevision, QueueRun, RunJob, Crash, BeginImport
  <2> QED
    BY <1>2, <2>1 DEF Ask, TypeInv
<1> QED
  BY <1>1, <1>2

LEMMA InvRecord ==
    ASSUME ArchiveInv, AllStaged, Kept, TypeInv', NEW x \in Roots, ImportStep(x), Record(x)
    PROVE  ArchiveInv'
<1> USE DEF ArchiveInv
<1>1. PICK c \in Commands : c = service[x].command
  BY AtImport
<1>2. /\ asked[c] # None /\ asked[c] \in Envelopes /\ asked[c].root = x
      /\ db[x] # None /\ db[x] \in Rows /\ Contains(db[x], archives[asked[c].archive])
      /\ UNCHANGED <<refs, blobs, asked, archives>>
  BY <1>1, AtImport DEF Record, RootOK, Working, ImportPcs, Archive, TypeInv
<1>3. service'[x] = Idle /\ \A y \in Roots : y # x => service'[y] = service[y]
  BY DEF Record, Answer, TypeInv
<1>4. Collected(x)' /\ Working(x)'
  BY <1>3 DEF Collected, Working, Idle, ImportPcs
<1>5. CASE ~asked[c].active
  <2>1. UNCHANGED db
    BY <1>1, <1>5 DEF Record
  <2> QED
    BY <1>2, <1>3, <1>4, <2>1, InvRequest
<1>6. CASE asked[c].active
  <2>1. PICK row \in Rows :
           /\ db' = [db EXCEPT ![x] = row]
           /\ row.revs = db[x].revs /\ row.run = db[x].run
           /\ row.arts = db[x].arts \cup {asked[c].archive}
           /\ row.imported = db[x].imported \cup {c}
    BY <1>1, <1>2, <1>6, RowOfRecord
  <2>2. db'[x] = row /\ row # None /\ \A y \in Roots : y # x => db'[y] = db[y]
    BY <2>1, NoneIsNothing DEF TypeInv
  <2>3. Received(c)'
    BY <1>2, <2>1, <2>2 DEF Received, Imported
  <2>4. Stored(x)'
    <3>1. Told(db[x]) /\ Whole(db[x]) /\ db[x].revs \subseteq Refs(x)
          /\ db[x].arts \subseteq blobs[x]
      BY <1>2 DEF RootOK, Stored
    <3>2. Told(row)'
      BY <1>2, <2>1, <2>3, <3>1, ToldStays DEF Told
    <3>3. asked[c].archive \in blobs[x]
      BY <1>2 DEF AllStaged
    <3>4. Whole(row) /\ row.revs \subseteq Refs(x)' /\ row.arts \subseteq blobs'[x]
      BY <1>2, <2>1, <3>1, <3>3 DEF Whole, Refs
    <3> QED
      BY <2>2, <3>2, <3>4 DEF Stored, Whole
  <2>5. \A y \in Roots : RootOK(y)'
    BY <1>2, <1>3, <1>4, <2>2, <2>4, RootStays DEF RootOK
  <2>6. \A d \in Commands : Received(d)' => Received(d) \/ d = c
    BY <1>2, <2>1, <2>2, ArchiveIsFile DEF Received, Imported, Envelopes
  <2>7. ReceiptsTell'
    <3>1. Contains(db'[x], archives[asked[c].archive])
      BY <1>2, <2>1, <2>2 DEF Contains
    <3> QED
      BY <1>2, <2>6, <3>1, ReceiptStays DEF ReceiptsTell, Contains
  <2> QED
    BY <1>2, <2>5, <2>7, FilesKept
<1> QED
  BY <1>5, <1>6

-----------------------------------------------------------------------------
(* The theorems *)

Inv == ArchiveInv /\ AllStaged

LEMMA InvInit == Init => Inv
BY ArchiveInit DEF Init, Inv, AllStaged

LEMMA InvStep == Inv /\ [Next]_vars => Inv' /\ Kept
<1> SUFFICES ASSUME Inv, [Next]_vars PROVE Inv' /\ Kept
  OBVIOUS
<1>1. TypeInv /\ ArchiveInv /\ AllStaged /\ \A x \in Roots : Working(x)
  BY DEF Inv, ArchiveInv, RootOK
<1>2. TypeInv' /\ Kept /\ AllStaged'
  BY <1>1, TypeStep, KeptStep, StagedStep
<1>3. ASSUME NEW x \in Roots, Export(x) \/ Other(x)
      PROVE  ArchiveInv'
  BY <1>1, <1>2, <1>3, InvExport, InvPublish, InvRevision, InvRun DEF Export, Other
<1>4. ASSUME NEW x \in Roots, ImportStep(x)
      PROVE  ArchiveInv'
  BY <1>1, <1>2, <1>4, InvFiles, InvRestore, InvRecord DEF ImportStep
<1>5. ASSUME NEW c \in Commands, NEW x \in Roots,
             BeginImport(x, c)
                \/ \E n \in DOMAIN archives, active \in BOOLEAN : Ask(c, x, n, active)
      PROVE  ArchiveInv'
  BY <1>1, <1>2, <1>5, InvBegin, InvCommand
<1>6. ASSUME UNCHANGED vars PROVE ArchiveInv'
  <2>1. \A x \in Roots : RootOK(x)'
    BY <1>1, <1>2, <1>6, RootStays DEF vars, ArchiveInv
  <2>2. ReceiptsTell' /\ \A n \in DOMAIN archives : Complete(archives[n])'
    BY <1>1, <1>2, <1>6, ReceiptsStay, FilesKept DEF vars, ArchiveInv, Received, Imported
  <2>3. DOMAIN archives' = DOMAIN archives
    BY <1>6 DEF vars
  <2> QED
    BY <1>2, <2>1, <2>2, <2>3 DEF ArchiveInv
<1>7. ArchiveInv'
  BY <1>3, <1>4, <1>5, <1>6 DEF Next
<1> QED
  BY <1>2, <1>7 DEF Inv

LEMMA InvHolds == Spec => []Inv
BY InvInit, InvStep, PTL DEF Spec

\* Requests, rows and stores keep their shapes, and a revision has its files and a run that
\* is done its result, in every database and after every import.
THEOREM ArchiveTypeOK == Spec => []TypeOK
<1>1. Inv => TypeOK
  <2> SUFFICES ASSUME Inv PROVE TypeOK
    OBVIOUS
  <2>1. TypeInv /\ \A x \in Roots : Stored(x)
    BY DEF Inv, ArchiveInv, RootOK
  <2>2. \A x \in Roots : service[x].pc \in Requests
    BY <2>1 DEF TypeInv, Services, ImportPcs, Idle, Requests
  <2> QED
    BY <2>1, <2>2 DEF TypeInv, TypeOK, Stored, Whole, ArchiveFiles, Envelopes
<1> QED
  BY <1>1, InvHolds, PTL

\* An archive holds all that its rows name, although rows, references and bodies are read
\* one after another beside the worker (project_archive.py export_project_archive).
THEOREM ExportsStandAlone == Spec => []ArchivesStandAlone
<1>1. Inv => ArchivesStandAlone
  BY DEF Inv, ArchiveInv, ArchivesStandAlone, Complete, Whole
<1> QED
  BY <1>1, InvHolds, PTL

\* At every moment of an import and after every crash, the database names only what is on
\* the disk (project_archive.py import_project_archive, which restores the database last).
THEOREM DatabaseComesLast == Spec => []Grounded
<1>1. Inv => Grounded
  BY DEF Inv, ArchiveInv, RootOK, Stored, Grounded
<1> QED
  BY <1>1, InvHolds, PTL

\* Where an import has its receipt, everything the archive held is in the project.
THEOREM ImportsAreThere == Spec => []ReceiptsTell
<1>1. Inv => ReceiptsTell
  BY DEF Inv, ArchiveInv
<1> QED
  BY <1>1, InvHolds, PTL

\* No step of an import, a crash or a worker takes anything from a project that is there.
THEOREM ImportsDestroyNothing == Spec => NothingOverwritten
<1>1. Kept => \A x \in Roots : db[x] # None =>
          /\ db'[x] # None
          /\ db[x].revs \subseteq db'[x].revs /\ db[x].arts \subseteq db'[x].arts
          /\ db[x].imported \subseteq db'[x].imported
          /\ Progress(db[x].run) <= Progress(db'[x].run)
  BY DEF Kept, ProjectsGrow, Grown
<1> QED
  BY <1>1, InvHolds, InvStep, PTL DEF Spec, NothingOverwritten

-----------------------------------------------------------------------------
(* The logs beside the archive: they are what LogRetention says of them *)

LogProofs == INSTANCE LogRetention_proofs

\* The helpers of sweeps and pages.
LEMMA SameBytes ==
    ASSUME NEW S
    PROVE  LogProofs!Bytes(S) = Logs!Bytes(S)
BY DEF Logs!Bytes, LogProofs!Bytes, Logs!MapThenSumSet, LogProofs!MapThenSumSet,
       Logs!MapThenFoldSet, LogProofs!MapThenFoldSet

LEMMA SameCardinality ==
    ASSUME NEW S
    PROVE  LogProofs!Cardinality(S) = Logs!Cardinality(S)
BY DEF Logs!Cardinality, LogProofs!Cardinality

LEMMA SameOf ==
    ASSUME NEW q
    PROVE  LogProofs!Of(q) = Logs!Of(q)
BY DEF Logs!Of, LogProofs!Of

LEMMA SameOrder ==
    ASSUME NEW a, NEW b
    PROVE  LogProofs!Before(a, b) <=> Logs!Before(a, b)
BY DEF Logs!Before, LogProofs!Before, Logs!Rank, LogProofs!Rank

LEMMA SameSweep ==
    ASSUME NEW q, NEW policy
    PROVE  /\ LogProofs!Swept(q, policy) = Logs!Swept(q, policy)
           /\ LogProofs!Deletable(q, policy) <=> Logs!Deletable(q, policy)
<1>1. LogProofs!Expired(q, policy) = Logs!Expired(q, policy)
  BY SameOf DEF Logs!Expired, LogProofs!Expired, Logs!Protected, LogProofs!Protected
<1>2. ASSUME NEW rows PROVE LogProofs!QuotaCandidates(rows) = Logs!QuotaCandidates(rows)
  BY DEF Logs!QuotaCandidates, LogProofs!QuotaCandidates, Logs!Protected, LogProofs!Protected
<1>3. ASSUME NEW rows, NEW row, NEW quota
      PROVE  LogProofs!Needed(rows, row, quota) <=> Logs!Needed(rows, row, quota)
  <2>1. {other \in LogProofs!QuotaCandidates(rows) : LogProofs!Before(other, row)}
          = {other \in Logs!QuotaCandidates(rows) : Logs!Before(other, row)}
    BY <1>2, SameOrder
  <2> QED
    BY <2>1, SameBytes DEF Logs!Needed, LogProofs!Needed
<1>4. ASSUME NEW rows, NEW quota
      PROVE  LogProofs!OverQuota(rows, quota) = Logs!OverQuota(rows, quota)
  BY <1>2, <1>3 DEF Logs!OverQuota, LogProofs!OverQuota
<1> QED
  BY <1>1, <1>4, SameOf, SameCardinality DEF Logs!Swept, LogProofs!Swept, Logs!Deletable, LogProofs!Deletable

LEMMA SamePage ==
    ASSUME NEW q, NEW cursor
    PROVE  LogProofs!Page(q, cursor) = Logs!Page(q, cursor)
<1>1. ASSUME NEW S PROVE LogProofs!Min(S) = Logs!Min(S)
  BY DEF Logs!Min, LogProofs!Min
<1>2. ASSUME NEW rows, NEW i PROVE LogProofs!Nth(rows, i) = Logs!Nth(rows, i)
  BY SameCardinality DEF Logs!Nth, LogProofs!Nth
<1> QED
  BY <1>1, <1>2, SameOf, SameCardinality DEF Logs!Page, LogProofs!Page

\* The specification.
LEMMA SameLogs ==
    /\ LogProofs!Init <=> Logs!Init
    /\ LogProofs!Next <=> Logs!Next
    /\ LogProofs!vars = logVars
<1>1. LogProofs!Init <=> Logs!Init
  BY DEF LogProofs!Init, Logs!Init, LogProofs!Down, Logs!Down, LogProofs!NoListing, Logs!NoListing
<1>2. ASSUME NEW q, NEW policy PROVE LogProofs!Configure(q, policy) <=> Logs!Configure(q, policy)
  BY SameSweep DEF LogProofs!Configure, Logs!Configure
<1>3. ASSUME NEW p, NEW q PROVE LogProofs!SweepProject(p, q) <=> Logs!SweepProject(p, q)
  BY SameSweep DEF LogProofs!SweepProject, Logs!SweepProject, LogProofs!Down, Logs!Down
<1>4. LogProofs!ReadPage <=> Logs!ReadPage
  BY SamePage
     DEF LogProofs!ReadPage, Logs!ReadPage, LogProofs!NoListing, Logs!NoListing, LogProofs!Seqs,
         Logs!Seqs, LogProofs!LogSeqs, Logs!LogSeqs, LogProofs!NextCursor, Logs!NextCursor
<1>5. ASSUME NEW q PROVE LogProofs!User(q) <=> Logs!User(q)
  BY <1>2, SameOf, SameCardinality
     DEF LogProofs!User, Logs!User, LogProofs!DeleteLogs, Logs!DeleteLogs, LogProofs!List,
         Logs!List, LogProofs!LogSeqs, Logs!LogSeqs
<1>6. ASSUME NEW q, NEW shape PROVE LogProofs!InsertLog(q, shape) <=> Logs!InsertLog(q, shape)
  BY DEF LogProofs!InsertLog, Logs!InsertLog, LogProofs!NextLogSeq, Logs!NextLogSeq
<1>7. ASSUME NEW p PROVE LogProofs!Start(p) <=> Logs!Start(p)
  BY <1>3
     DEF LogProofs!Start, Logs!Start, LogProofs!ReadPolicies, Logs!ReadPolicies, LogProofs!Serve,
         Logs!Serve, LogProofs!Effective, Logs!Effective, LogProofs!Down, Logs!Down
<1>8. ASSUME NEW p PROVE LogProofs!Crash(p) <=> Logs!Crash(p)
  BY DEF LogProofs!Crash, Logs!Crash, LogProofs!Down, Logs!Down
<1>9. LogProofs!Tomorrow <=> Logs!Tomorrow
  BY DEF LogProofs!Tomorrow, Logs!Tomorrow
<1>10. LogProofs!Next <=> Logs!Next
  BY <1>4, <1>5, <1>6, <1>7, <1>8, <1>9 DEF LogProofs!Next, Logs!Next
<1> QED
  BY <1>1, <1>10 DEF LogProofs!vars, logVars

LEMMA SameConstants == LogProofs!Constants
BY LogConstants DEF Logs!Constants, LogProofs!Constants, Logs!Policy, LogProofs!Policy,
   Logs!Levels, LogProofs!Levels, Logs!Priorities, LogProofs!Priorities

\* Seen alone, the logs are what LogRetention says.
LEMMA LogsKept == DataRootSpec => LogProofs!Spec
<1>1. DataRootInit => LogProofs!Init
  BY SameLogs DEF DataRootInit
<1>2. [DataRootNext]_<<part, vars, logVars>> => [LogProofs!Next]_LogProofs!vars
  <2>1. LogProofs!Next <=> Logs!Next
    BY SameLogs
  <2> QED
    BY <2>1 DEF DataRootNext, LogProofs!vars, logVars
<1> QED
  BY <1>1, <1>2, PTL DEF DataRootSpec, LogProofs!Spec

\* And the archive what ProjectArchive says.
LEMMA ArchiveKept == DataRootSpec => Spec
<1>1. DataRootInit => Init
  BY DEF DataRootInit
<1>2. [DataRootNext]_<<part, vars, logVars>> => [Next]_vars
  BY DEF DataRootNext
<1> QED
  BY <1>1, <1>2, PTL DEF DataRootSpec, Spec

\* Both are well-typed, for any number of roots, archives, projects, rows and crashes.
THEOREM DataRootTyped == DataRootSpec => []DataRootTypeOK
<1>1. LogProofs!TypeOK => Logs!TypeOK
  BY DEF Logs!TypeOK, LogProofs!TypeOK, Logs!Rows, LogProofs!Rows, Logs!Policy, LogProofs!Policy,
         Logs!Levels, LogProofs!Levels, Logs!Priorities, LogProofs!Priorities
<1>2. LogProofs!Spec => []LogProofs!TypeOK
  BY SameConstants, LogProofs!LogsTypeOK
<1> QED
  BY <1>1, <1>2, ArchiveTypeOK, LogsKept, ArchiveKept, PTL DEF DataRootTypeOK

\* Every sweep of the data root takes what a policy permits that was in force for the
\* project since the sweep began.
THEOREM SweepsFollowAPolicy == DataRootSpec => SweptByAPolicy
<1> DEFINE Proved ==
      LogProofs!Removed # {} =>
          \/ LogProofs!ByUser
          \/ \E q \in Projects :
                /\ LogProofs!Removed \subseteq LogProofs!Of(q)
                /\ \/ policies'[q] # None /\ LogProofs!Permitted(q, policies'[q])
                   \/ \E p \in Processes : \E policy \in inForce[p][q] :
                         LogProofs!Permitted(q, policy)
    Claimed ==
      Logs!Removed # {} =>
          \/ Logs!ByUser
          \/ \E q \in Projects :
                /\ Logs!Removed \subseteq Logs!Of(q)
                /\ \/ policies'[q] # None /\ Logs!Permitted(q, policies'[q])
                   \/ \E p \in Processes : \E policy \in inForce[p][q] :
                         Logs!Permitted(q, policy)
<1>1. [Proved]_LogProofs!vars => [Claimed]_Logs!vars
  <2>1. LogProofs!Removed = Logs!Removed
    BY DEF LogProofs!Removed, Logs!Removed
  <2>2. ASSUME NEW q, NEW policy PROVE LogProofs!Permitted(q, policy) <=> Logs!Permitted(q, policy)
    BY <2>1, SameOf, SameOrder, SameBytes
       DEF LogProofs!Permitted, Logs!Permitted, LogProofs!Protected, Logs!Protected
  <2>3. LogProofs!ByUser <=> Logs!ByUser
    BY <2>1, SameOf, SameCardinality
       DEF LogProofs!ByUser, Logs!ByUser, LogProofs!DeleteLogs, Logs!DeleteLogs
  <2>4. Proved <=> Claimed
    BY <2>1, <2>2, <2>3, SameOf
  <2> HIDE DEF Proved, Claimed
  <2> QED
    BY <2>4 DEF LogProofs!vars, Logs!vars
<1>2. LogProofs!Spec => LogProofs!SweptByAPolicy
  BY SameConstants, LogProofs!SweepsFollowAPolicy
<1> QED
  BY <1>1, <1>2, LogsKept, PTL DEF SweptByAPolicy, Logs!SweptByAPolicy, LogProofs!SweptByAPolicy

\* A listing that has come to its end has shown, in order and once each, every row that was
\* there the whole time, whatever was written, deleted and swept meanwhile.
THEOREM ListingsAreComplete == DataRootSpec => PagesComplete
<1> DEFINE Proved ==
      listing.pc = "paging" /\ listing'.pc = "idle" =>
          LET seen == listing.seen
                        \o LogProofs!Seqs(LogProofs!Page(listing.project, listing.cursor))
          IN
          /\ \A i, k \in DOMAIN seen : i < k => seen[i] < seen[k]
          /\ listing.there \cap LogProofs!LogSeqs(logs) \subseteq LogProofs!ToSet(seen)
    Claimed ==
      listing.pc = "paging" /\ listing'.pc = "idle" =>
          LET seen == listing.seen \o Logs!Seqs(Logs!Page(listing.project, listing.cursor)) IN
          /\ \A i, k \in DOMAIN seen : i < k => seen[i] < seen[k]
          /\ listing.there \cap Logs!LogSeqs(logs) \subseteq Logs!ToSet(seen)
<1>1. [Proved]_LogProofs!vars => [Claimed]_Logs!vars
  <2>1. Proved <=> Claimed
    BY SamePage DEF LogProofs!Seqs, Logs!Seqs, LogProofs!LogSeqs, Logs!LogSeqs, LogProofs!ToSet,
       Logs!ToSet
  <2> HIDE DEF Proved, Claimed
  <2> QED
    BY <2>1 DEF LogProofs!vars, Logs!vars
<1>2. LogProofs!Spec => LogProofs!PagesComplete
  BY SameConstants, LogProofs!ListingsAreComplete
<1> QED
  BY <1>1, <1>2, LogsKept, PTL DEF PagesComplete, Logs!PagesComplete, LogProofs!PagesComplete
===========================================================================
