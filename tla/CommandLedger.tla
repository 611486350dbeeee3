---------------------------- MODULE CommandLedger -----------------------------
(***************************************************************************)
(* How the service carries out a command (QuantDomain.submit_command): look *)
(* up its receipt, write its rows, its event, its outbox row and its       *)
(* receipt in one transaction, answer.  A command with large inputs first  *)
(* computes and stores blobs outside the transaction.  Clients send a      *)
(* command again when they get no answer; several handlers are at work; the *)
(* service may stop between any two steps.                                 *)
(*                                                                         *)
(* Runs, revisions and messages have modules of their own; this one keeps  *)
(* what all commands share, and the commands no other module covers:       *)
(* context.capture, data.snapshot_create and forward_test.request, with    *)
(* session.workbench_bind and session.message_send beside them because     *)
(* they move the workbench and register artifacts.                         *)
(***************************************************************************)
EXTENDS Naturals, Sequences, FiniteSets

CONSTANTS
    Handlers,     \* requests the service works on at the same time
    Envelopes,    \* the commands clients may send
    Uploads,      \* bodies clients may stage with a blob PUT
    Home,         \* the workbench a session starts with
    MaxSends,     \* bound: commands sent, repetitions included
    MaxStops,     \* bound: stops of the service
    None          \* SQL NULL, a row that does not exist

Kinds == {"capture", "message", "bind", "snapshot", "forward"}

\* What a handler answers, with a place in the log or 0.
Dispositions == {"accepted", "replayed", "command_id_conflict", "refused"}
Answer == [disposition : Dispositions, seq : Nat]

ASSUME EnvelopeShape ==
    \A c \in Envelopes :
        /\ DOMAIN c = {"id", "kind", "subject", "artifact", "upload", "basis", "workbench"}
        /\ c.kind \in Kinds
        /\ c.kind \in {"capture", "message", "snapshot"} => c.upload \in Uploads
CommandIds == {c.id : c \in Envelopes}

Ids == CommandIds \cup {c.artifact : c \in Envelopes} \cup {c.subject : c \in Envelopes}

\* Bytes are told apart by what they are made from and how.
Content(of, as) == [of |-> of, as |-> as]

Contents ==
    [of : Uploads \cup {c.subject : c \in Envelopes},
     as : {"source", "message", "market", "transcript", "passed", "failed"}
          \cup {c.basis : c \in Envelopes}]

\* The normalized bars carry the price basis, the engine's input does not; both
\* have the id their content determines (deterministic_artifact_id).
Normalized(c) == Content(c.upload, c.basis)
MarketInput(c) == Content(c.upload, "market")

\* A row names the artifacts it refers to and the event it was written with.
CommandRows ==
    [table : Kinds, key : {c.subject : c \in Envelopes}, refs : SUBSET (Ids \cup Contents),
     seq : Nat]

ASSUME NoneIsNoRow ==
    /\ None \notin Envelopes /\ None \notin [envelope : Envelopes, seq : Nat] /\ None \notin Answer
    /\ None \notin {"passed", "failed"} /\ None \notin CommandRows

\* The id a client gives the source of a snapshot is not the hash by which the service
\* will name what it makes from that source.
ASSUME SourcesAreNamedByClients ==
    \A c \in Envelopes : c.kind = "snapshot" => c.artifact \notin {Normalized(c), MarketInput(c)}
ASSUME Bounds == MaxSends \in Nat /\ MaxStops \in Nat

VARIABLES
    blobs,      \* contents in the CAS
    artifacts,  \* rows of artifacts
    rows,       \* context_items, session_messages, data_snapshots, forward_tests
    bench,      \* workbench_bindings with is_active = 1 of the session
    events,     \* domain_events in stream_seq order, each with its outbox row
    receipts,   \* command_receipts
    handlers,   \* what each handler is doing
    answers,    \* every answer a handler has sent, received or not
    sends, stops

tables == <<artifacts, rows, bench, events, receipts>>
vars == <<blobs, tables, handlers, answers, sends, stops>>

Artifact(id, content, source_ref) == [id |-> id, content |-> content, source_ref |-> source_ref]

IdleHandler == [pc |-> "idle", command |-> None, result |-> None, answer |-> None]

Init ==
    /\ blobs = {}
    /\ artifacts = {}
    /\ rows = {}
    /\ bench = Home
    /\ events = <<>>
    /\ receipts = [i \in CommandIds |-> None]
    /\ handlers = [h \in Handlers |-> IdleHandler]
    /\ answers = {}
    /\ sends = 0
    /\ stops = 0

-----------------------------------------------------------------------------
(* Artifacts *)

Taken(table, row) == \E old \in table : old.id = row.id
Owned(table, row) == \E old \in table : old.content = row.content

\* _register_formal_input_artifact: the row is there already, or its content is
\* there under another id, or it is inserted.
Registered(table, row) ==
    IF Taken(table, row) \/ Owned(table, row) THEN table ELSE table \cup {row}

\* It refuses an id that stands for something else.
Registrable(table, row) == Taken(table, row) => row \in table

\* The artifact of a message has the id its text determines.
MessageArtifact(c) ==
    Artifact(Content(c.upload, "message"), Content(c.upload, "source"), Content(c.upload, "message"))

\* What a client uploads, it also names.
UploadedArtifact(c) == Artifact(c.artifact, Content(c.upload, "source"), "upload")

NormalizedArtifact(c) == Artifact(Normalized(c), Normalized(c), c.subject)
MarketInputArtifact(c) == Artifact(MarketInput(c), MarketInput(c), c.subject)

TranscriptArtifact(c, result) ==
    Artifact(Content(c.subject, "transcript"), Content(c.subject, result), c.subject)

-----------------------------------------------------------------------------
(* Clients and the beginning of a command *)

\* PUT of a blob: the hash in the path is checked, the file appears whole.
StoreBlob(u) ==
    /\ Content(u, "source") \notin blobs
    /\ blobs' = blobs \cup {Content(u, "source")}
    /\ UNCHANGED <<tables, handlers, answers, sends, stops>>

FirstStep(kind) ==
    CASE kind = "forward" -> "check"
      [] kind = "snapshot" -> "build"
      [] OTHER -> "commit"

\* A command reaches a handler, for the first time or again.
Submit(h, c) ==
    /\ handlers[h].pc = "idle"
    /\ sends < MaxSends
    /\ sends' = sends + 1
    /\ handlers' = [handlers EXCEPT ![h] = [IdleHandler EXCEPT !.pc = FirstStep(c.kind),
                                                               !.command = c]]
    /\ UNCHANGED <<blobs, tables, answers, stops>>

Reply(disposition, seq) == [disposition |-> disposition, seq |-> seq]

\* The handler leaves the command with this answer.
Leave(h, answer) ==
    handlers' = [handlers EXCEPT ![h].pc = "answer", ![h].answer = answer]

Proceed(h, pc, result) ==
    handlers' = [handlers EXCEPT ![h].pc = pc, ![h].result = result]

Refuse(h) ==
    /\ Leave(h, Reply("refused", 0))
    /\ UNCHANGED <<blobs, tables, answers, sends, stops>>

\* The id has a receipt: of this envelope, which is replayed, or of another one.
Known(h) ==
    LET c == handlers[h].command
        receipt == receipts[c.id]
    IN
    /\ receipt # None
    /\ Leave(h, IF receipt.envelope = c THEN Reply("replayed", receipt.seq)
                                        ELSE Reply("command_id_conflict", 0))
    /\ UNCHANGED <<blobs, tables, answers, sends, stops>>

\* Fault: the look for the binding forgets is_active, so that any the session ever had will do.
InBenchEver(c) ==
    \/ c.workbench = Home
    \/ \E i \in DOMAIN events :
          events[i].command.kind = "bind" /\ events[i].command.workbench = c.workbench

\* _validate_active_workbench
InBench(c) == c.workbench = bench

-----------------------------------------------------------------------------
(* forward_test.request and data.snapshot_create before their transactions *)

\* A read without the lock: the answer may be known, the workbench wrong.
CheckForwardTest(h) ==
    LET c == handlers[h].command IN
    /\ handlers[h].pc = "check"
    /\ \/ Known(h)
       \/ /\ receipts[c.id] = None
          /\ IF InBench(c)
               THEN /\ Proceed(h, "replay", None)
                    /\ UNCHANGED <<blobs, tables, answers, sends, stops>>
               ELSE Refuse(h)

\* replay_forward_test runs the strategy host again, which takes its time and may
\* emit another tape than the source run; the transcript is stored.  Or the source
\* run is not the one requested, or has not succeeded, or its artifacts are gone.
ReplayForwardTest(h) ==
    /\ handlers[h].pc = "replay"
    /\ \/ \E result \in {"passed", "failed"} :
             /\ blobs' = blobs \cup {Content(handlers[h].command.subject, result)}
             /\ Proceed(h, "commit", result)
             /\ UNCHANGED <<tables, answers, sends, stops>>
       \/ Refuse(h)

\* The source is read and the bars are built; the two blobs are stored one after
\* the other, before anybody asks whether the command is known.
BuildSnapshot(h) ==
    LET c == handlers[h].command IN
    /\ handlers[h].pc = "build"
    /\ IF Content(c.upload, "source") \in blobs
         THEN /\ blobs' = blobs \cup {Normalized(c)}
              /\ Proceed(h, "store", None)
              /\ UNCHANGED <<tables, answers, sends, stops>>
         ELSE Refuse(h)

StoreMarketInput(h) ==
    /\ handlers[h].pc = "store"
    /\ blobs' = blobs \cup {MarketInput(handlers[h].command)}
    /\ Proceed(h, "commit", None)
    /\ UNCHANGED <<tables, answers, sends, stops>>

-----------------------------------------------------------------------------
(* The transactions *)

\* Fault: the number of the last event instead of the new one.
NextSeqStale == Len(events)

\* cursor.lastrowid of the insertion into domain_events: AUTOINCREMENT under the one
\* write lock, and a rollback takes the number back.
NextSeq == Len(events) + 1

\* The rows of a command with its event, its outbox row and its receipt.
Record(h, row) ==
    LET c == handlers[h].command IN
    /\ rows' = IF row = None THEN rows ELSE rows \cup {row}
    /\ events' = Append(events, [command |-> c, result |-> handlers[h].result])
    /\ receipts' = [receipts EXCEPT ![c.id] = [envelope |-> c, seq |-> NextSeq]]
    /\ Leave(h, Reply("accepted", NextSeq))
    /\ UNCHANGED <<blobs, answers, sends, stops>>

Row(c, refs) == [table |-> c.kind, key |-> c.subject, refs |-> refs, seq |-> NextSeq]

\* Fault: nobody asks whether the id of a test, snapshot or item is in use.
KeyInUseNever(c) == FALSE

\* The primary key of the command's table is in use.
KeyInUse(c) == \E row \in rows : row.table = c.kind /\ row.key = c.subject

\* Fault: the receipt is looked up before the lock is taken, and not again.
FirstSeenUnlocked(h, kind) ==
    /\ handlers[h].pc = "commit"
    /\ handlers[h].command.kind = kind

\* The command's id has no receipt when its transaction begins.
FirstSeen(h, kind) ==
    /\ handlers[h].pc = "commit"
    /\ handlers[h].command.kind = kind
    /\ receipts[handlers[h].command.id] = None

\* A handler that finds the receipt inside its transaction.
CommitKnown(h) ==
    /\ handlers[h].pc = "commit"
    /\ Known(h)

\* context.capture inserts its artifact and its item; neither may be there, and
\* nobody asks for the blob.
CommitCapture(h) ==
    LET c == handlers[h].command
        row == UploadedArtifact(c)
    IN
    /\ FirstSeen(h, "capture")
    /\ IF Taken(artifacts, row) \/ Owned(artifacts, row) \/ KeyInUse(c)
         THEN Refuse(h)
         ELSE /\ artifacts' = artifacts \cup {row}
              /\ UNCHANGED bench
              /\ Record(h, Row(c, {row.id}))

\* session.message_send: the same text has the same artifact, which is registered
\* once; the blob must be there.
CommitMessage(h) ==
    LET c == handlers[h].command
        row == MessageArtifact(c)
    IN
    /\ FirstSeen(h, "message")
    /\ IF \/ ~InBench(c)
          \/ row.content \notin blobs
          \/ (Taken(artifacts, row) \/ Owned(artifacts, row)) /\ row \notin artifacts
          \/ KeyInUse(c)
         THEN Refuse(h)
         ELSE /\ artifacts' = artifacts \cup {row}
              /\ UNCHANGED bench
              /\ Record(h, Row(c, {row.id}))

\* session.workbench_bind; the workbench it names may be the active one.
CommitBind(h) ==
    LET c == handlers[h].command IN
    /\ FirstSeen(h, "bind")
    /\ bench' = c.workbench
    /\ UNCHANGED artifacts
    /\ Record(h, None)

\* Fault: the snapshot is written without the foreign keys to its artifacts.
ResolvedAlways(table, ids) == TRUE

\* The foreign keys of a row to artifacts(artifact_id) hold.
Resolved(table, ids) == \A id \in ids : \E row \in table : row.id = id

\* data.snapshot_create registers source, bars and engine input, in this order; the
\* id under which content is registered already is not taken over.
CommitSnapshot(h) ==
    LET c == handlers[h].command
        source == UploadedArtifact(c)
        bars == NormalizedArtifact(c)
        input == MarketInputArtifact(c)
        one == Registered(artifacts, source)
        two == Registered(one, bars)
        three == Registered(two, input)
        refs == {source.id, bars.id, input.id}
    IN
    /\ FirstSeen(h, "snapshot")
    /\ IF /\ InBench(c)
          /\ Registrable(artifacts, source) /\ Registrable(one, bars) /\ Registrable(two, input)
          /\ Resolved(three, refs)
          /\ ~KeyInUse(c)
         THEN /\ artifacts' = three
              /\ UNCHANGED bench
              /\ Record(h, Row(c, refs))
         ELSE Refuse(h)

\* forward_test.request: what was checked without the lock is checked again.
CommitForwardTest(h) ==
    LET c == handlers[h].command
        row == TranscriptArtifact(c, handlers[h].result)
    IN
    /\ FirstSeen(h, "forward")
    /\ IF InBench(c) /\ ~KeyInUse(c) /\ ~Taken(artifacts, row) /\ ~Owned(artifacts, row)
         THEN /\ artifacts' = artifacts \cup {row}
              /\ UNCHANGED bench
              /\ Record(h, Row(c, {row.id}))
         ELSE Refuse(h)

-----------------------------------------------------------------------------
(* Answers and stops *)

\* The answer is sent; whether it arrives, only the client knows.
Respond(h) ==
    /\ handlers[h].pc = "answer"
    /\ answers' = answers \cup {[command |-> handlers[h].command,
                                 disposition |-> handlers[h].answer.disposition,
                                 seq |-> handlers[h].answer.seq]}
    /\ handlers' = [handlers EXCEPT ![h] = IdleHandler]
    /\ UNCHANGED <<blobs, tables, sends, stops>>

\* The service stops: every handler is gone, files and committed rows remain.
Stop ==
    /\ stops < MaxStops
    /\ stops' = stops + 1
    /\ \E h \in Handlers : handlers[h].pc # "idle"
    /\ handlers' = [h \in Handlers |-> IdleHandler]
    /\ UNCHANGED <<blobs, tables, answers, sends>>

Commit(h) ==
    \/ CommitKnown(h)
    \/ CommitCapture(h)
    \/ CommitMessage(h)
    \/ CommitBind(h)
    \/ CommitSnapshot(h)
    \/ CommitForwardTest(h)

Step(h) ==
    \/ CheckForwardTest(h)
    \/ ReplayForwardTest(h)
    \/ BuildSnapshot(h)
    \/ StoreMarketInput(h)
    \/ Commit(h)
    \/ Respond(h)

Next ==
    \/ \E u \in Uploads : StoreBlob(u)
    \/ \E h \in Handlers : Step(h) \/ \E c \in Envelopes : Submit(h, c)
    \/ Stop

Spec == Init /\ [][Next]_vars

-----------------------------------------------------------------------------
(* Properties *)

\* Every variable holds what the code can put there; a handler that has an answer has
\* a command, and a receipt points into the log.
TypeOK ==
    /\ blobs \subseteq Contents
    /\ \A row \in artifacts : row.id \in Ids \cup Contents /\ row.content \in Contents
    /\ rows \subseteq CommandRows /\ \A row \in rows : row.seq \in 1..Len(events)
    /\ bench \in {Home} \cup {c.workbench : c \in Envelopes}
    /\ events \in Seq([command : Envelopes, result : {None, "passed", "failed"}])
    /\ receipts \in [CommandIds -> {None} \cup [envelope : Envelopes, seq : 1..Len(events)]]
    /\ handlers \in
          [Handlers -> [pc : {"idle", "check", "replay", "build", "store", "commit", "answer"},
                        command : Envelopes \cup {None}, result : {None, "passed", "failed"},
                        answer : Answer \cup {None}]]
    /\ \A h \in Handlers :
          /\ handlers[h].pc # "idle" => handlers[h].command # None
          /\ handlers[h].pc = "answer" => handlers[h].answer # None
    /\ answers \subseteq [command : Envelopes, disposition : Dispositions, seq : Nat]
    /\ sends \in 0..MaxSends /\ stops \in 0..MaxStops

\* Every context item, message, snapshot and forward test belongs to one event and every
\* event of such a command to one row; so no two commands, whatever their ids, and no
\* repetition of one ever make the same item or test twice (the primary keys, and the
\* second look at forward_tests in _submit_forward_test_command).
RowsTellEvents ==
    /\ \A i \in DOMAIN events :
          LET c == events[i].command IN
          c.kind # "bind" =>
              \E row \in rows : row.seq = i /\ row.table = c.kind /\ row.key = c.subject
    /\ \A row \in rows, other \in rows :
          row.seq = other.seq \/ (row.table = other.table /\ row.key = other.key) => row = other

\* The workbench that was active when the i-th event was recorded.
BenchAt(i) ==
    LET binds == {k \in 1..(i - 1) : events[k].command.kind = "bind"} IN
    IF binds = {} THEN Home
    ELSE events[CHOOSE k \in binds : \A j \in binds : j <= k].command.workbench

\* A message, a snapshot and a forward test are recorded in the session's workbench of
\* that moment: a command that was delayed or sent again until its session had been bound
\* elsewhere is refused (_validate_active_workbench under the lock).
InActiveWorkbench ==
    \A i \in DOMAIN events :
        LET c == events[i].command IN
        c.kind \in {"message", "snapshot", "forward"} => c.workbench = BenchAt(i)

\* What the artifacts of a row have to contain.
Meant(event) ==
    LET c == event.command IN
    CASE c.kind \in {"capture", "message"} -> {Content(c.upload, "source")}
      [] c.kind = "snapshot" -> {Content(c.upload, "source"), Normalized(c), MarketInput(c)}
      [] c.kind = "forward" -> {Content(c.subject, event.result)}

\* Whatever was registered before, and under whichever id, the artifacts a row names
\* are exactly the bytes its command was about, and only a captured upload may still
\* lack its blob (_register_formal_input_artifact, _register_generated_artifact).
RowsResolve ==
    /\ \A row \in rows :
          {a.content : a \in {a \in artifacts : a.id \in row.refs}} = Meant(events[row.seq])
    /\ \A row \in rows : row.table # "capture" => Meant(events[row.seq]) \subseteq blobs
    /\ \A a, b \in artifacts : a.id = b.id \/ a.content = b.content => a = b

Log == INSTANCE CommandLog WITH log <- [i \in DOMAIN events |-> events[i].command]

\* Lost answers, repetitions, two handlers with the same command and stops leave the
\* client with one log in which its command stands once, and with answers that agree
\* with that log (docs/04_COMMAND_EVENT_CONTRACTS.md:34).
KeepsLog == Log!Spec
=============================================================================
