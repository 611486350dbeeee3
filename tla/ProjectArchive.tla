---------------------------- MODULE ProjectArchive ----------------------------
(***************************************************************************)
(* Export of a project to an archive and import of an archive into a data *)
(* root: project_archive.py and domain.py:1487-1602.  A data root keeps   *)
(* one project in three stores that no transaction spans: the database,   *)
(* the Git repository, the blobs.  The service of a root handles one      *)
(* request at a time (its handlers call the domain synchronously); the    *)
(* root's worker runs beside it, and the service can crash between any two *)
(* steps of a request.                                                     *)
(***************************************************************************)
EXTENDS Naturals, Sequences, FiniteSets

CONSTANTS
    Roots,        \* data roots
    Home,         \* the root in which the project is begun
    Revisions,    \* revision ids; a revision's file artifact goes by its name
    Commands,     \* ids of project.archive_import commands
    Result,       \* the artifact a run publishes
    MaxArchives,  \* bound: archives exported
    MaxStops,     \* bound: crashes of a service
    None          \* no database rows, no repository, no command

VARIABLES
    db,        \* each root's project rows, or None: a database without a project
    refs,      \* each root's refs/oqs/revisions/*, or None: no repository
    blobs,     \* each root's artifact bodies
    service,   \* the request each root's service is working on
    asked,     \* the envelope clients sent under a command id
    archives,  \* .oqs.zip files, in the order they were made; one is the body of an artifact
    stops      \* crashes so far

vars == <<db, refs, blobs, service, asked, archives, stops>>

Selections == {"full", "none"}

Objects == Revisions \cup {Result} \cup (1..MaxArchives)

Rows ==
    [revs : SUBSET Revisions, arts : SUBSET Objects, run : {"none", "queued", "done"},
     imported : SUBSET Commands, logs : BOOLEAN]

ASSUME Bounds == MaxArchives \in Nat /\ MaxStops \in Nat
ASSUME ArchivesAreOtherBytes == (Revisions \cup {Result}) \cap (1..MaxArchives) = {}
ASSUME NoneIsNothing ==
    /\ None \notin Rows /\ \A names \in SUBSET Revisions : names # None
    /\ None \notin [root : Roots, archive : Nat, active : BOOLEAN]

Idle == [pc |-> "idle"]
Requests == {"idle", "refs", "bodies", "store", "copy", "restore", "check", "record"}

NewProject == [revs |-> {}, arts |-> {}, run |-> "none", imported |-> {}, logs |-> TRUE]

Init ==
    /\ db = [x \in Roots |-> IF x = Home THEN NewProject ELSE None]
    /\ refs = [x \in Roots |-> None]
    /\ blobs = [x \in Roots |-> {}]
    /\ service = [x \in Roots |-> Idle]
    /\ asked = [c \in Commands |-> None]
    /\ archives = <<>>
    /\ stops = 0

Refs(x) == IF refs[x] = None THEN {} ELSE refs[x]

IsIdle(x) == service[x].pc = "idle"

Answer(x) == service' = [service EXCEPT ![x] = Idle]

-----------------------------------------------------------------------------
(* Other requests, and the worker *)

\* workspace.revision_create: the files are staged, the reference is written, the
\* transaction commits.
CreateRevision(x, r) ==
    /\ IsIdle(x) /\ db[x] # None
    /\ r \notin Refs(x)
    /\ refs' = [refs EXCEPT ![x] = Refs(x) \cup {r}]
    /\ blobs' = [blobs EXCEPT ![x] = @ \cup {r}]
    /\ db' = [db EXCEPT ![x].revs = @ \cup {r}, ![x].arts = @ \cup {r}, ![x].logs = TRUE]
    /\ UNCHANGED <<service, asked, archives, stops>>

\* The service crashes between the reference and the commit.
CrashInRevision(x, r) ==
    /\ IsIdle(x) /\ db[x] # None
    /\ r \notin Refs(x)
    /\ stops < MaxStops
    /\ stops' = stops + 1
    /\ refs' = [refs EXCEPT ![x] = Refs(x) \cup {r}]
    /\ blobs' = [blobs EXCEPT ![x] = @ \cup {r}]
    /\ UNCHANGED <<db, service, asked, archives>>

\* formal_run.request
QueueRun(x) ==
    /\ IsIdle(x) /\ db[x] # None
    /\ db[x].revs # {} /\ db[x].run = "none"
    /\ db' = [db EXCEPT ![x].run = "queued", ![x].logs = TRUE]
    /\ UNCHANGED <<refs, blobs, service, asked, archives, stops>>

\* The worker of the root runs what the database has queued, whoever queued it.
RunJob(x) ==
    /\ db[x] # None /\ db[x].run = "queued"
    /\ blobs' = [blobs EXCEPT ![x] = @ \cup {Result}]
    /\ db' = [db EXCEPT ![x].run = "done", ![x].arts = @ \cup {Result}, ![x].logs = TRUE]
    /\ UNCHANGED <<refs, service, asked, archives, stops>>

\* The service ends in the middle of an export or an import.
Crash(x) ==
    /\ ~IsIdle(x)
    /\ stops < MaxStops
    /\ stops' = stops + 1
    /\ Answer(x)
    /\ UNCHANGED <<db, refs, blobs, asked, archives>>

-----------------------------------------------------------------------------
(* export_project_archive *)

\* Fault: the artifacts that only a run's own row leads to are forgotten.
PortableWithoutRuns(rows, selected) ==
    [rows EXCEPT !.arts = @ \cap Revisions, !.logs = @ /\ selected = "full"]

\* The rows an archive takes: all of the project's, but log rows as selected, and of the
\* artifacts those that a row names.  Nothing names an archive's own artifact but the
\* event of its import.
Portable(rows, selected) ==
    [rows EXCEPT !.arts = @ \ (1..MaxArchives), !.logs = @ /\ selected = "full"]

Exporting == {x \in Roots : service[x].pc \in {"refs", "bodies"}}

\* One read transaction collects the rows.
Snapshot(x, selected) ==
    /\ IsIdle(x) /\ db[x] # None
    /\ Len(archives) + Cardinality(Exporting) < MaxArchives
    /\ service' = [service EXCEPT ![x] =
           [pc |-> "refs", rows |-> Portable(db[x], selected), logs |-> selected]]
    /\ UNCHANGED <<db, refs, blobs, asked, archives, stops>>

\* _project_refs
RefsMatch(x, rows) == rows.revs # {} /\ Refs(x) = rows.revs

\* The references are listed, compared with the rows and bundled; or the export is
\* refused.
ReadRefs(x) ==
    /\ service[x].pc = "refs"
    /\ service' = [service EXCEPT ![x] =
           IF RefsMatch(x, service[x].rows)
             THEN [pc |-> "bodies", rows |-> service[x].rows, logs |-> service[x].logs,
                   bundle |-> Refs(x)]
             ELSE Idle]
    /\ UNCHANGED <<db, refs, blobs, asked, archives, stops>>

\* Fault: the bodies are those of the rows as they are by now.
BodiesNow(x) == Portable(db[x], "full").arts

\* _cas_objects reads the body of every artifact row that was collected.
Bodies(x) == service[x].rows.arts

\* The bodies are read, the archive is written beside and renamed into place.
Publish(x) ==
    /\ service[x].pc = "bodies"
    /\ Bodies(x) \subseteq blobs[x]
    /\ archives' = Append(archives,
           [rows |-> service[x].rows, logs |-> service[x].logs,
            bundle |-> service[x].bundle, bodies |-> Bodies(x)])
    /\ Answer(x)
    /\ UNCHANGED <<db, refs, blobs, asked, stops>>

-----------------------------------------------------------------------------
(* project.archive_import *)

\* A client stages an archive's bytes in a root and names them in a command, whose
\* workbench may or may not be the active one of the project in the archive.
Ask(c, x, n, active) ==
    /\ asked[c] = None
    /\ n \in DOMAIN archives
    /\ asked' = [asked EXCEPT ![c] = [root |-> x, archive |-> n, active |-> active]]
    /\ blobs' = [blobs EXCEPT ![x] = @ \cup {n}]
    /\ UNCHANGED <<db, refs, service, archives, stops>>

Imported(x, c) == db[x] # None /\ c \in db[x].imported

Received(c) == asked[c] # None /\ Imported(asked[c].root, c)

\* Fault: the tables of a project that exists are not compared.
HoldsAnything(x, archive) == TRUE

\* _validate_portable_database on the root's own database: its runs are the archive's, so
\* are its artifacts, all of them, and there are no log rows if the archive took none.
Holds(x, archive) ==
    /\ db[x].arts = archive.rows.arts
    /\ (db[x].run = "none") = (archive.rows.run = "none")
    /\ archive.logs = "none" => ~db[x].logs

\* _validate_git_identities
HasRevisions(x, archive) == archive.bundle \subseteq Refs(x) \cap db[x].revs

\* _validate_existing_target
Identical(x, archive) ==
    /\ Holds(x, archive)
    /\ HasRevisions(x, archive)
    /\ archive.bodies \subseteq blobs[x]

\* Fault: a root with nothing but blobs is not empty either.
EmptyOfBlobs(x) == refs[x] = None /\ blobs[x] = {}

\* _validate_empty_target
EmptyTarget(x) == refs[x] = None

\* Fault: a project that differs is replaced.
TargetReplaced(x, archive) ==
    IF db[x] # None /\ Identical(x, archive) THEN "same" ELSE "empty"

\* What the root is to an import.
Target(x, archive) ==
    CASE db[x] # None /\ Identical(x, archive) -> "same"
      [] db[x] = None /\ EmptyTarget(x) -> "empty"
      [] OTHER -> "other"

At(x, pc, c, todo) == service' = [service EXCEPT ![x] = [pc |-> pc, command |-> c, todo |-> todo]]

Archive(x) == archives[asked[service[x].command].archive]

\* The archive itself is unpacked into a temporary directory and checked there, and
\* its target checked; a command that has its receipt is answered with it.
BeginImport(x, c) ==
    /\ IsIdle(x)
    /\ asked[c] # None /\ asked[c].root = x
    /\ ~Imported(x, c)
    /\ LET archive == archives[asked[c].archive] IN
           \/ Target(x, archive) = "same" /\ At(x, "record", c, {})
           \/ Target(x, archive) = "empty" /\ At(x, "store", c, archive.bodies)
    /\ UNCHANGED <<db, refs, blobs, asked, archives, stops>>

StoreBlob(x, object) ==
    /\ service[x].pc = "store"
    /\ object \in service[x].todo
    /\ blobs' = [blobs EXCEPT ![x] = @ \cup {object}]
    /\ service' = [service EXCEPT ![x].todo = @ \ {object}]
    /\ UNCHANGED <<db, refs, asked, archives, stops>>

\* shutil.copytree makes the directory first ...
MakeRepository(x) ==
    /\ service[x].pc = "store" /\ service[x].todo = {}
    /\ refs' = [refs EXCEPT ![x] = {}]
    /\ service' = [service EXCEPT ![x].pc = "copy"]
    /\ UNCHANGED <<db, blobs, asked, archives, stops>>

\* Fault: the references are left for after the database.
CopiedLater(x) == {}

\* ... and copies the objects and the references.
Copied(x) == Archive(x).bundle

CopyRepository(x) ==
    /\ service[x].pc = "copy"
    /\ refs' = [refs EXCEPT ![x] = Copied(x)]
    /\ service' = [service EXCEPT ![x].pc = "restore"]
    /\ UNCHANGED <<db, blobs, asked, archives, stops>>

\* The archive's database replaces the root's in one SQLite backup.
RestoreDatabase(x) ==
    /\ service[x].pc = "restore"
    /\ db' = [db EXCEPT ![x] = Archive(x).rows]
    /\ service' = [service EXCEPT ![x].pc = "check"]
    /\ UNCHANGED <<refs, blobs, asked, archives, stops>>

\* What was restored is checked once more; the import is refused if it differs.
CheckRestored(x) ==
    /\ service[x].pc = "check"
    /\ service' = [service EXCEPT ![x] =
           IF Holds(x, Archive(x)) /\ HasRevisions(x, Archive(x))
             THEN [@ EXCEPT !.pc = "record"]
             ELSE Idle]
    /\ UNCHANGED <<db, refs, blobs, asked, archives, stops>>

\* A transaction of its own registers the archive as an artifact and stores event and
\* receipt; it is refused when the workbench is not the active one.
Record(x) ==
    LET c == service[x].command IN
    /\ service[x].pc = "record"
    /\ IF asked[c].active
         THEN db' = [db EXCEPT ![x].arts = @ \cup {asked[c].archive}, ![x].imported = @ \cup {c},
                              ![x].logs = TRUE]
         ELSE UNCHANGED db
    /\ Answer(x)
    /\ UNCHANGED <<refs, blobs, asked, archives, stops>>

-----------------------------------------------------------------------------
Export(x) == (\E selected \in Selections : Snapshot(x, selected)) \/ ReadRefs(x) \/ Publish(x)

ImportStep(x) ==
    \/ \E object \in Revisions \cup {Result} : StoreBlob(x, object)
    \/ MakeRepository(x) \/ CopyRepository(x) \/ RestoreDatabase(x)
    \/ CheckRestored(x) \/ Record(x)

Other(x) ==
    \/ \E r \in Revisions : CreateRevision(x, r) \/ CrashInRevision(x, r)
    \/ QueueRun(x) \/ RunJob(x) \/ Crash(x)

Next ==
    \/ \E x \in Roots : Export(x) \/ ImportStep(x) \/ Other(x)
    \/ \E c \in Commands, x \in Roots :
          \/ BeginImport(x, c)
          \/ \E n \in DOMAIN archives, active \in BOOLEAN : Ask(c, x, n, active)

\* A request that is begun is worked on, and a client whose command has no receipt
\* sends it again.
Work(x) == ImportStep(x) \/ ReadRefs(x) \/ Publish(x)

SendAgain(c) == \E x \in Roots : BeginImport(x, c)

Fairness ==
    /\ \A x \in Roots : WF_vars(Work(x))
    /\ \A c \in Commands : SF_vars(SendAgain(c))

Spec == Init /\ [][Next]_vars

FairSpec == Spec /\ Fairness

-----------------------------------------------------------------------------
(* Properties *)

\* Every variable holds what the code can put there, and in the rows of every database
\* a revision has its files and a run that is done its result.
TypeOK ==
    /\ db \in [Roots -> Rows \cup {None}]
    /\ \A x \in Roots : db[x] # None =>
          db[x].revs \subseteq db[x].arts /\ (db[x].run = "done" => Result \in db[x].arts)
    /\ refs \in [Roots -> (SUBSET Revisions) \cup {None}]
    /\ blobs \in [Roots -> SUBSET Objects]
    /\ \A x \in Roots : service[x].pc \in Requests
    /\ \A c \in Commands :
          asked[c] # None => asked[c] \in [root : Roots, archive : DOMAIN archives, active : BOOLEAN]
    /\ archives \in Seq([rows : Rows, logs : Selections, bundle : SUBSET Revisions,
                         bodies : SUBSET Objects])
    /\ stops \in 0..MaxStops

\* An archive stands alone: the bundle has exactly its revisions, and of each artifact
\* the body is there, although rows, references and bodies were read one after another
\* beside a worker that writes to all three.
ArchivesStandAlone ==
    \A n \in DOMAIN archives :
        /\ archives[n].bundle = archives[n].rows.revs
        /\ archives[n].bodies = archives[n].rows.arts
        /\ archives[n].rows.revs \subseteq archives[n].bodies
        /\ archives[n].rows.run = "done" => Result \in archives[n].bodies

\* At every moment, in the middle of an import too and after a crash there, what a
\* root's database names is on its disk: the references of its revisions and the bodies
\* of its artifacts.  The database comes last.
Grounded ==
    \A x \in Roots :
        db[x] # None => db[x].revs \subseteq Refs(x) /\ db[x].arts \subseteq blobs[x]

\* An import that has its receipt is one whose project is there: everything the archive
\* held is in the root, restored or found.
ReceiptsTell ==
    \A c \in Commands :
        Received(c) =>
            LET rows == db[asked[c].root] archive == archives[asked[c].archive] IN
            /\ archive.rows.revs \subseteq rows.revs
            /\ archive.rows.arts \subseteq rows.arts
            /\ archive.rows.run # "none" => rows.run # "none"

Progress(run) == CASE run = "none" -> 0 [] run = "queued" -> 1 [] run = "done" -> 2

\* An import never takes away from a project what it has: a restore overwrites the whole
\* database.
NothingOverwritten ==
    [][\A x \in Roots : db[x] # None =>
          /\ db'[x] # None
          /\ db[x].revs \subseteq db'[x].revs /\ db[x].arts \subseteq db'[x].arts
          /\ db[x].imported \subseteq db'[x].imported
          /\ Progress(db[x].run) <= Progress(db'[x].run)]_vars

\* Why a command can be without a receipt for ever: a crash has left a repository in a
\* root without a project; the project has gone on since the archive was made, or holds
\* what no archive takes, the artifact of an import or log rows; or the workbench is
\* another.
Hopeless(c) ==
    /\ asked[c] # None
    /\ LET x == asked[c].root archive == archives[asked[c].archive] IN
           \/ ~asked[c].active
           \/ db[x] = None /\ refs[x] # None
           \/ /\ db[x] # None
              /\ \/ db[x].arts # archive.rows.arts
                 \/ (db[x].run = "none") # (archive.rows.run = "none")
                 \/ archive.logs = "none" /\ db[x].logs

\* A client that sends its import again and again has its receipt in the end, unless
\* from some moment on there is one of those reasons.
ImportsEnd ==
    \A c \in Commands :
        asked[c] # None ~> (Received(c) \/ []Hopeless(c))
=============================================================================
