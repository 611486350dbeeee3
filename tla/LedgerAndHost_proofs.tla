--------------------------- MODULE LedgerAndHost_proofs ---------------------------
(***************************************************************************)
(* Theorems about CommandLedger, for any number of handlers, envelopes,    *)
(* uploads, sends and stops, and about the ledger and the strategy host    *)
(* beside each other.                                                      *)
(***************************************************************************)
EXTENDS MCCommandLedger, SequenceTheorems, TLAPS

-----------------------------------------------------------------------------
(* Type correctness *)

HandlerPhases == {"idle", "check", "replay", "build", "store", "commit", "answer"}

Results == {None, "passed", "failed"}

HandlerRows ==
    [pc : HandlerPhases, command : Envelopes \cup {None}, result : Results,
     answer : Answer \cup {None}]

Events == [command : Envelopes, result : Results]

\* What TypeOK says of one handler, and what its preservation needs beside it: only a
\* forward test is checked and replayed, and has a result when it commits, and bars are
\* built for a snapshot only.
HandlerShape(me) ==
    /\ me \in HandlerRows
    /\ me.pc # "idle" => me.command # None
    /\ me.pc = "answer" => me.answer # None
    /\ me.pc \in {"check", "replay"} => me.command.kind = "forward"
    /\ me.pc \in {"build", "store"} => me.command.kind = "snapshot"
    /\ me.pc = "commit" /\ me.command.kind = "forward" => me.result # None

HandlersOK ==
    /\ DOMAIN handlers = Handlers
    /\ handlers = [h \in Handlers |-> handlers[h]]
    /\ \A h \in Handlers : HandlerShape(handlers[h])

\* TypeOK but for the handlers.
TablesOK ==
    /\ blobs \subseteq Contents
    /\ \A row \in artifacts : row.id \in Ids \cup Contents /\ row.content \in Contents
    /\ rows \subseteq CommandRows /\ \A row \in rows : row.seq \in 1..Len(events)
    /\ bench \in {Home} \cup {c.workbench : c \in Envelopes}
    /\ events \in Seq(Events)
    /\ receipts \in [CommandIds -> {None} \cup [envelope : Envelopes, seq : 1..Len(events)]]
    /\ answers \subseteq [command : Envelopes, disposition : Dispositions, seq : Nat]
    /\ sends \in 0..MaxSends /\ stops \in 0..MaxStops

TypeInv == TablesOK /\ HandlersOK

LEMMA TypeInvTypes == TypeInv => TypeOK
<1>1. HandlersOK => /\ handlers \in [Handlers -> HandlerRows]
                    /\ \A h \in Handlers :
                          /\ handlers[h].pc # "idle" => handlers[h].command # None
                          /\ handlers[h].pc = "answer" => handlers[h].answer # None
  BY DEF HandlersOK, HandlerShape
<1> QED
  BY <1>1 DEF TypeInv, TypeOK, TablesOK, Events, HandlerRows, HandlerPhases, Results

\* A handler that is at work has an envelope.
LEMMA AtWork ==
    ASSUME HandlersOK, NEW h \in Handlers, handlers[h].pc # "idle"
    PROVE  /\ handlers[h].command \in Envelopes
           /\ handlers[h].command.kind \in Kinds
           /\ handlers[h].command.id \in CommandIds
BY EnvelopeShape DEF HandlersOK, HandlerShape, HandlerRows, CommandIds

\* Changing one handler into one in shape keeps them all in shape.
LEMMA OneHandler ==
    ASSUME HandlersOK, NEW h \in Handlers, NEW me, HandlerShape(me),
           handlers' = [handlers EXCEPT ![h] = me]
    PROVE  HandlersOK'
BY DEF HandlersOK

LEMMA LeaveOK ==
    ASSUME HandlersOK, NEW h \in Handlers, handlers[h].pc # "idle",
           NEW answer \in Answer, Leave(h, answer)
    PROVE  HandlersOK'
<1> DEFINE me == [handlers[h] EXCEPT !.pc = "answer", !.answer = answer]
<1>1. handlers' = [handlers EXCEPT ![h] = me]
  BY DEF Leave
<1>2. HandlerShape(me)
  BY AtWork, NoneIsNoRow DEF HandlersOK, HandlerShape, HandlerRows, HandlerPhases
<1> QED
  BY <1>1, <1>2, OneHandler

LEMMA ProceedOK ==
    ASSUME HandlersOK, NEW h \in Handlers, handlers[h].pc # "idle",
           NEW pc \in HandlerPhases \ {"idle", "answer"}, NEW result \in Results,
           pc \in {"check", "replay"} => handlers[h].command.kind = "forward",
           pc \in {"build", "store"} => handlers[h].command.kind = "snapshot",
           pc = "commit" /\ handlers[h].command.kind = "forward" => result # None,
           Proceed(h, pc, result)
    PROVE  HandlersOK'
<1> DEFINE me == [handlers[h] EXCEPT !.pc = pc, !.result = result]
<1>1. handlers' = [handlers EXCEPT ![h] = me]
  BY DEF Proceed
<1>2. HandlerShape(me)
  BY AtWork DEF HandlersOK, HandlerShape, HandlerRows, HandlerPhases
<1> QED
  BY <1>1, <1>2, OneHandler

LEMMA TypeInit == Init => TypeInv
<1> SUFFICES ASSUME Init PROVE TablesOK /\ HandlersOK
  BY DEF TypeInv
<1>1. TablesOK
  BY Bounds DEF Init, TablesOK
<1>2. HandlersOK
  BY DEF Init, IdleHandler, HandlersOK, HandlerShape, HandlerRows, HandlerPhases, Results
<1> QED
  BY <1>1, <1>2

LEMMA RefuseOK ==
    ASSUME TypeInv, NEW h \in Handlers, handlers[h].pc # "idle", Refuse(h)
    PROVE  TypeInv'
<1>1. HandlersOK'
  BY LeaveOK DEF TypeInv, Refuse, Reply, Answer, Dispositions
<1>2. TablesOK'
  BY DEF TypeInv, TablesOK, Refuse, tables
<1> QED
  BY <1>1, <1>2 DEF TypeInv

LEMMA KnownOK ==
    ASSUME TypeInv, NEW h \in Handlers, handlers[h].pc # "idle", Known(h)
    PROVE  TypeInv'
<1> DEFINE receipt == receipts[handlers[h].command.id]
<1>1. receipt.seq \in Nat
  <2>1. receipt \in [envelope : Envelopes, seq : 1..Len(events)]
    BY AtWork DEF TypeInv, TablesOK, Known
  <2> QED
    BY <2>1
<1>2. HandlersOK'
  BY <1>1, LeaveOK DEF TypeInv, Known, Reply, Answer, Dispositions
<1>3. TablesOK'
  BY DEF TypeInv, TablesOK, Known, tables
<1> QED
  BY <1>2, <1>3 DEF TypeInv

\* A transaction that records its command, whatever row it writes.
LEMMA RecordOK ==
    ASSUME TypeInv, NEW h \in Handlers, handlers[h].pc = "commit", NEW row,
           row = None \/ (row \in CommandRows /\ row.seq = NextSeq),
           Record(h, row),
           (\A a \in artifacts : a.id \in Ids \cup Contents /\ a.content \in Contents)',
           (bench \in {Home} \cup {c.workbench : c \in Envelopes})'
    PROVE  TypeInv'
<1> DEFINE event == [command |-> handlers[h].command, result |-> handlers[h].result]
<1> USE DEF TypeInv
<1>1. event \in Events
  BY AtWork DEF HandlersOK, HandlerShape, HandlerRows, Events
<1>2. /\ events' \in Seq(Events)
      /\ Len(events') = Len(events) + 1
      /\ Len(events) \in Nat
  BY <1>1 DEF TablesOK, Record
<1>3. receipts' \in [CommandIds -> {None} \cup [envelope : Envelopes, seq : 1..Len(events')]]
  <2>1. [envelope |-> handlers[h].command, seq |-> NextSeq]
            \in [envelope : Envelopes, seq : 1..Len(events')]
    BY <1>2, AtWork DEF NextSeq
  <2>2. receipts \in [CommandIds -> {None} \cup [envelope : Envelopes, seq : 1..Len(events')]]
    BY <1>2 DEF TablesOK
  <2> QED
    BY <2>1, <2>2, AtWork DEF Record
<1>4. rows' \subseteq CommandRows /\ \A r \in rows' : r.seq \in 1..Len(events')
  BY <1>2 DEF TablesOK, Record, NextSeq
<1>5. TablesOK'
  BY <1>2, <1>3, <1>4 DEF TablesOK, Record
<1>6. HandlersOK'
  <2>1. Reply("accepted", NextSeq) \in Answer
    BY <1>2 DEF Reply, Answer, Dispositions, NextSeq
  <2> QED
    BY <2>1, LeaveOK DEF Record
<1> QED
  BY <1>5, <1>6

\* What the commands name stands in Ids and Contents.
LEMMA Named ==
    ASSUME NEW c \in Envelopes
    PROVE  /\ c.artifact \in Ids /\ c.subject \in Ids
           /\ \A as \in {"market", "transcript", "passed", "failed"} :
                 Content(c.subject, as) \in Contents
           /\ c.upload \in Uploads => \A as \in {"source", "message", "market", c.basis} :
                 Content(c.upload, as) \in Contents
BY DEF Ids, Contents, Content

\* What a command writes is a row.
LEMMA RowIsRow ==
    ASSUME TypeInv, NEW c \in Envelopes, NEW refs \in SUBSET (Ids \cup Contents)
    PROVE  Row(c, refs) \in CommandRows /\ Row(c, refs).seq = NextSeq
<1>1. NextSeq \in Nat
  BY DEF NextSeq, TypeInv, TablesOK
<1> QED
  BY <1>1, EnvelopeShape DEF Row, CommandRows

\* The steps of a handler outside transactions.
LEMMA CheckOK ==
    ASSUME TypeInv, NEW h \in Handlers, CheckForwardTest(h)
    PROVE  TypeInv'
<1>1. CASE Known(h)
  BY <1>1, KnownOK DEF CheckForwardTest
<1>2. CASE Refuse(h)
  BY <1>2, RefuseOK DEF CheckForwardTest
<1>3. CASE Proceed(h, "replay", None) /\ UNCHANGED <<blobs, tables, answers, sends, stops>>
  <2>1. HandlersOK'
    BY <1>3, ProceedOK DEF CheckForwardTest, HandlerPhases, Results, TypeInv, HandlersOK, HandlerShape
  <2>2. TablesOK'
    BY <1>3 DEF TypeInv, TablesOK, tables
  <2> QED
    BY <2>1, <2>2 DEF TypeInv
<1> QED
  BY <1>1, <1>2, <1>3 DEF CheckForwardTest

LEMMA ReplayOK ==
    ASSUME TypeInv, NEW h \in Handlers, ReplayForwardTest(h)
    PROVE  TypeInv'
<1>1. CASE Refuse(h)
  BY <1>1, RefuseOK DEF ReplayForwardTest
<1>2. ASSUME NEW result \in {"passed", "failed"},
             blobs' = blobs \cup {Content(handlers[h].command.subject, result)},
             Proceed(h, "commit", result),
             UNCHANGED <<tables, answers, sends, stops>>
      PROVE  TypeInv'
  <2>1. result \in Results
    BY DEF Results
  <2>2. result # None
    BY NoneIsNoRow
  <2>3. HandlersOK'
    BY <1>2, <2>1, <2>2, ProceedOK DEF ReplayForwardTest, HandlerPhases, TypeInv
  <2>4. TablesOK'
    BY <1>2, Named, AtWork DEF ReplayForwardTest, TypeInv, TablesOK, tables
  <2> QED
    BY <2>3, <2>4 DEF TypeInv
<1> QED
  BY <1>1, <1>2 DEF ReplayForwardTest

LEMMA BuildOK ==
    ASSUME TypeInv, NEW h \in Handlers, BuildSnapshot(h)
    PROVE  TypeInv'
<1>1. CASE Refuse(h)
  BY <1>1, RefuseOK DEF BuildSnapshot
<1>2. CASE /\ blobs' = blobs \cup {Normalized(handlers[h].command)}
           /\ Proceed(h, "store", None)
           /\ UNCHANGED <<tables, answers, sends, stops>>
  <2>1. handlers[h].command.kind = "snapshot" /\ handlers[h].command \in Envelopes
    BY AtWork DEF BuildSnapshot, TypeInv, HandlersOK, HandlerShape
  <2>2. HandlersOK'
    BY <1>2, <2>1, ProceedOK DEF BuildSnapshot, HandlerPhases, TypeInv, Results
  <2>3. TablesOK'
    BY <1>2, <2>1, Named, EnvelopeShape DEF Normalized, TypeInv, TablesOK, tables
  <2> QED
    BY <2>2, <2>3 DEF TypeInv
<1> QED
  BY <1>1, <1>2 DEF BuildSnapshot

LEMMA StoreOK ==
    ASSUME TypeInv, NEW h \in Handlers, StoreMarketInput(h)
    PROVE  TypeInv'
<1>1. handlers[h].command.kind = "snapshot" /\ handlers[h].command \in Envelopes
  BY AtWork DEF StoreMarketInput, TypeInv, HandlersOK, HandlerShape
<1>2. HandlersOK'
  BY <1>1, ProceedOK DEF StoreMarketInput, HandlerPhases, TypeInv, Results
<1>3. TablesOK'
  BY <1>1, Named, EnvelopeShape DEF StoreMarketInput, MarketInput, TypeInv, TablesOK, tables
<1> QED
  BY <1>2, <1>3 DEF TypeInv

\* The transactions: each records its row, knows its command, or refuses.
LEMMA CaptureOK ==
    ASSUME TypeInv, NEW h \in Handlers, CommitCapture(h)
    PROVE  TypeInv'
<1> DEFINE c == handlers[h].command
<1>1. c \in Envelopes /\ c.kind = "capture" /\ handlers[h].pc = "commit"
  BY AtWork DEF CommitCapture, FirstSeen, TypeInv
<1>2. CASE Refuse(h)
  BY <1>1, <1>2, RefuseOK
<1>3. CASE ~Refuse(h)
  <2>1. /\ artifacts' = artifacts \cup {UploadedArtifact(c)}
        /\ UNCHANGED bench
        /\ Record(h, Row(c, {UploadedArtifact(c).id}))
    BY <1>3 DEF CommitCapture
  <2> PICK row : row = Row(c, {UploadedArtifact(c).id})
    OBVIOUS
  <2>2. row \in CommandRows /\ row.seq = NextSeq
    BY <1>1, Named, EnvelopeShape, RowIsRow DEF UploadedArtifact, Artifact
  <2>3. (\A a \in artifacts : a.id \in Ids \cup Contents /\ a.content \in Contents)'
    BY <1>1, <2>1, Named, EnvelopeShape DEF UploadedArtifact, Artifact, TypeInv, TablesOK
  <2>4. (bench \in {Home} \cup {e.workbench : e \in Envelopes})'
    BY <2>1 DEF TypeInv, TablesOK
  <2> QED
    BY <1>1, <2>1, <2>2, <2>3, <2>4, RecordOK
<1> QED
  BY <1>2, <1>3

LEMMA MessageOK ==
    ASSUME TypeInv, NEW h \in Handlers, CommitMessage(h)
    PROVE  TypeInv'
<1> DEFINE c == handlers[h].command
<1>1. c \in Envelopes /\ c.kind = "message" /\ handlers[h].pc = "commit"
  BY AtWork DEF CommitMessage, FirstSeen, TypeInv
<1>2. CASE Refuse(h)
  BY <1>1, <1>2, RefuseOK
<1>3. CASE ~Refuse(h)
  <2>1. /\ artifacts' = artifacts \cup {MessageArtifact(c)}
        /\ UNCHANGED bench
        /\ Record(h, Row(c, {MessageArtifact(c).id}))
    BY <1>3 DEF CommitMessage
  <2> PICK row : row = Row(c, {MessageArtifact(c).id})
    OBVIOUS
  <2>2. row \in CommandRows /\ row.seq = NextSeq
    BY <1>1, Named, EnvelopeShape, RowIsRow DEF MessageArtifact, Artifact
  <2>3. (\A a \in artifacts : a.id \in Ids \cup Contents /\ a.content \in Contents)'
    BY <1>1, <2>1, Named, EnvelopeShape DEF MessageArtifact, Artifact, TypeInv, TablesOK
  <2>4. (bench \in {Home} \cup {e.workbench : e \in Envelopes})'
    BY <2>1 DEF TypeInv, TablesOK
  <2> QED
    BY <1>1, <2>1, <2>2, <2>3, <2>4, RecordOK
<1> QED
  BY <1>2, <1>3

LEMMA BindOK ==
    ASSUME TypeInv, NEW h \in Handlers, CommitBind(h)
    PROVE  TypeInv'
<1>1. handlers[h].command \in Envelopes /\ handlers[h].pc = "commit"
  BY AtWork DEF CommitBind, FirstSeen, TypeInv
<1>2. (\A a \in artifacts : a.id \in Ids \cup Contents /\ a.content \in Contents)'
  BY DEF CommitBind, TypeInv, TablesOK
<1>3. (bench \in {Home} \cup {c.workbench : c \in Envelopes})'
  BY <1>1 DEF CommitBind
<1> QED
  BY <1>1, <1>2, <1>3, RecordOK DEF CommitBind

LEMMA SnapshotOK ==
    ASSUME TypeInv, NEW h \in Handlers, CommitSnapshot(h)
    PROVE  TypeInv'
<1> DEFINE c == handlers[h].command
           source == UploadedArtifact(c)
           bars == NormalizedArtifact(c)
           input == MarketInputArtifact(c)
           three == Registered(Registered(Registered(artifacts, source), bars), input)
           refs == {source.id, bars.id, input.id}
<1>1. c \in Envelopes /\ c.kind = "snapshot" /\ handlers[h].pc = "commit"
  BY AtWork DEF CommitSnapshot, FirstSeen, TypeInv
<1>2. CASE Refuse(h)
  BY <1>1, <1>2, RefuseOK
<1>3. CASE ~Refuse(h)
  <2>1. artifacts' = three /\ UNCHANGED bench /\ Record(h, Row(c, refs))
    BY <1>3 DEF CommitSnapshot
  <2> PICK row : row = Row(c, refs)
    OBVIOUS
  <2>3. three \subseteq artifacts \cup {source, bars, input}
    BY DEF Registered
  <2>4. \A a \in {source, bars, input} : a.id \in Ids \cup Contents /\ a.content \in Contents
    BY <1>1, Named, EnvelopeShape
       DEF UploadedArtifact, NormalizedArtifact, MarketInputArtifact, Normalized, MarketInput, Artifact
  <2>2. row \in CommandRows /\ row.seq = NextSeq
    <3> HIDE DEF source, bars, input
    <3> QED
      BY <1>1, <2>4, RowIsRow
  <2>5. (\A a \in artifacts : a.id \in Ids \cup Contents /\ a.content \in Contents)'
    <3> HIDE DEF three, source, bars, input
    <3> QED
      BY <2>1, <2>3, <2>4 DEF TypeInv, TablesOK
  <2>6. (bench \in {Home} \cup {e.workbench : e \in Envelopes})'
    BY <2>1 DEF TypeInv, TablesOK
  <2> QED
    BY <1>1, <2>1, <2>2, <2>5, <2>6, RecordOK
<1> QED
  BY <1>2, <1>3

LEMMA ForwardOK ==
    ASSUME TypeInv, NEW h \in Handlers, CommitForwardTest(h)
    PROVE  TypeInv'
<1> DEFINE c == handlers[h].command
           transcript == TranscriptArtifact(c, handlers[h].result)
<1>1. c \in Envelopes /\ c.kind = "forward" /\ handlers[h].pc = "commit"
  BY AtWork DEF CommitForwardTest, FirstSeen, TypeInv
<1>2. CASE Refuse(h)
  BY <1>1, <1>2, RefuseOK
<1>3. CASE ~Refuse(h)
  <2>1. /\ artifacts' = artifacts \cup {transcript}
        /\ UNCHANGED bench
        /\ Record(h, Row(c, {transcript.id}))
    BY <1>3 DEF CommitForwardTest
  <2> PICK row : row = Row(c, {transcript.id})
    OBVIOUS
  <2>2. row \in CommandRows /\ row.seq = NextSeq
    BY <1>1, Named, EnvelopeShape, RowIsRow DEF TranscriptArtifact, Artifact
  <2>3. handlers[h].result \in {"passed", "failed"}
    BY <1>1 DEF TypeInv, HandlersOK, HandlerShape, HandlerRows, Results
  <2>4. (\A a \in artifacts : a.id \in Ids \cup Contents /\ a.content \in Contents)'
    BY <1>1, <2>1, <2>3, Named DEF TranscriptArtifact, Artifact, TypeInv, TablesOK
  <2>5. (bench \in {Home} \cup {e.workbench : e \in Envelopes})'
    BY <2>1 DEF TypeInv, TablesOK
  <2> QED
    BY <1>1, <2>1, <2>2, <2>4, <2>5, RecordOK
<1> QED
  BY <1>2, <1>3

\* What clients do, the answer, and a stop.
LEMMA SubmitOK ==
    ASSUME TypeInv, NEW h \in Handlers, NEW c \in Envelopes, Submit(h, c)
    PROVE  TypeInv'
<1> DEFINE me == [IdleHandler EXCEPT !.pc = FirstStep(c.kind), !.command = c]
<1>1. HandlerShape(me)
  BY NoneIsNoRow, EnvelopeShape
     DEF IdleHandler, FirstStep, HandlerShape, HandlerRows, HandlerPhases, Results, Kinds
<1>2. HandlersOK'
  BY <1>1, OneHandler DEF Submit, TypeInv
<1>3. TablesOK'
  BY Bounds DEF Submit, TypeInv, TablesOK, tables
<1> QED
  BY <1>2, <1>3 DEF TypeInv

LEMMA IdleShape == HandlerShape(IdleHandler)
BY DEF IdleHandler, HandlerShape, HandlerRows, HandlerPhases, Results

LEMMA RespondOK ==
    ASSUME TypeInv, NEW h \in Handlers, Respond(h)
    PROVE  TypeInv'
<1>1. HandlersOK'
  BY IdleShape, OneHandler DEF Respond, TypeInv
<1>2. handlers[h].command \in Envelopes /\ handlers[h].answer \in Answer
  BY AtWork DEF Respond, TypeInv, HandlersOK, HandlerShape, HandlerRows
<1>3. TablesOK'
  BY <1>2 DEF Respond, Answer, TypeInv, TablesOK, tables
<1> QED
  BY <1>1, <1>3 DEF TypeInv

LEMMA StopOK ==
    ASSUME TypeInv, Stop
    PROVE  TypeInv'
<1>1. HandlersOK'
  BY IdleShape DEF Stop, HandlersOK
<1>2. TablesOK'
  BY Bounds DEF Stop, TypeInv, TablesOK, tables
<1> QED
  BY <1>1, <1>2 DEF TypeInv

LEMMA TypeNext == TypeInv /\ [Next]_vars => TypeInv'
<1> SUFFICES ASSUME TypeInv, [Next]_vars PROVE TypeInv'
  OBVIOUS
<1>1. ASSUME NEW u \in Uploads, StoreBlob(u) PROVE TypeInv'
  <2>1. Content(u, "source") \in Contents
    BY DEF Content, Contents
  <2> QED
    BY <1>1, <2>1 DEF StoreBlob, TypeInv, TablesOK, HandlersOK, tables
<1>2. ASSUME NEW h \in Handlers, Step(h) PROVE TypeInv'
  <2>1. CASE CommitKnown(h)
    BY <2>1, KnownOK DEF CommitKnown
  <2> QED
    BY <1>2, <2>1, CheckOK, ReplayOK, BuildOK, StoreOK, CaptureOK, MessageOK, BindOK, SnapshotOK,
       ForwardOK, RespondOK DEF Step, Commit
<1>3. CASE UNCHANGED vars
  BY <1>3 DEF vars, tables, TypeInv, TablesOK, HandlersOK
<1> QED
  BY <1>1, <1>2, <1>3, SubmitOK, StopOK DEF Next

\* Every variable holds what the code can put there (CommandLedger!TypeOK).
THEOREM TypeCorrect == Spec => []TypeOK
<1> QED
  BY TypeInit, TypeNext, TypeInvTypes, PTL DEF Spec

-----------------------------------------------------------------------------
(* What a client sees: CommandLedger implements CommandLog *)

\* Receipts and events tell the same: each event has the receipt of its command, and
\* each receipt the event it names.
ReceiptsTellEvents ==
    /\ \A i \in DOMAIN events :
          receipts[events[i].command.id] = [envelope |-> events[i].command, seq |-> i]
    /\ \A k \in CommandIds : receipts[k] # None =>
          /\ receipts[k].seq \in DOMAIN events
          /\ events[receipts[k].seq].command = receipts[k].envelope
          /\ receipts[k].envelope.id = k

\* CommandLog!True of an answer, in terms of the events.
TrueOfEvents(c, answer) ==
    /\ answer.disposition \in {"accepted", "replayed"} =>
          answer.seq \in DOMAIN events /\ events[answer.seq].command = c
    /\ answer.disposition = "command_id_conflict" =>
          \E i \in DOMAIN events : events[i].command.id = c.id /\ events[i].command # c

\* An answer that is decided but not yet sent is true already, and stays true.
TrueAnswers ==
    \A h \in Handlers : handlers[h].pc = "answer" =>
        TrueOfEvents(handlers[h].command, handlers[h].answer)

LogInv == TypeInv /\ ReceiptsTellEvents /\ TrueAnswers

LEMMA LogInit == Init => LogInv
BY TypeInit DEF Init, IdleHandler, LogInv, ReceiptsTellEvents, TrueAnswers

\* A step that records nothing keeps the invariant if the answers it decides are true.
LEMMA QuietKeeps ==
    ASSUME LogInv, TypeInv', UNCHANGED <<events, receipts>>,
           \A h \in Handlers : handlers'[h].pc = "answer" =>
               \/ handlers'[h] = handlers[h]
               \/ TrueOfEvents(handlers'[h].command, handlers'[h].answer)
    PROVE  LogInv'
<1>1. ReceiptsTellEvents'
  BY DEF LogInv, ReceiptsTellEvents
<1>2. TrueAnswers'
  BY DEF LogInv, TrueAnswers, TrueOfEvents
<1> QED
  BY <1>1, <1>2 DEF LogInv

LEMMA RefuseTrue ==
    ASSUME LogInv, TypeInv', NEW h \in Handlers, Refuse(h)
    PROVE  LogInv'
<1>1. handlers' = [handlers EXCEPT ![h].pc = "answer", ![h].answer = Reply("refused", 0)]
  BY DEF Refuse, Leave
<1>2. \A k \in Handlers : \/ k # h /\ handlers'[k] = handlers[k]
                          \/ k = h /\ handlers'[k].answer = Reply("refused", 0)
  BY <1>1 DEF LogInv, TypeInv, HandlersOK
<1>3. \A c : TrueOfEvents(c, Reply("refused", 0))
  BY DEF TrueOfEvents, Reply
<1> QED
  BY <1>2, <1>3, QuietKeeps DEF Refuse, tables

LEMMA KnownTrue ==
    ASSUME LogInv, TypeInv', NEW h \in Handlers, handlers[h].pc # "idle", Known(h)
    PROVE  LogInv'
<1> DEFINE c == handlers[h].command
           receipt == receipts[c.id]
<1> PICK answer : answer = IF receipt.envelope = c THEN Reply("replayed", receipt.seq)
                                                   ELSE Reply("command_id_conflict", 0)
  OBVIOUS
<1>1. handlers' = [handlers EXCEPT ![h].pc = "answer", ![h].answer = answer]
  BY DEF Known, Leave
<1>2. handlers[h] \in HandlerRows /\ DOMAIN handlers = Handlers
  BY DEF LogInv, TypeInv, HandlersOK, HandlerShape
<1>3. \A k \in Handlers :
          \/ k # h /\ handlers'[k] = handlers[k]
          \/ k = h /\ handlers'[k].answer = answer /\ handlers'[k].command = c
  BY <1>1, <1>2 DEF LogInv, TypeInv, HandlersOK, HandlerRows
<1>4. TrueOfEvents(c, answer)
  <2>1. c \in Envelopes /\ c.id \in CommandIds
    BY AtWork DEF LogInv, TypeInv
  <2>2. /\ receipt.seq \in DOMAIN events
        /\ events[receipt.seq].command = receipt.envelope
        /\ receipt.envelope.id = c.id
    BY <2>1 DEF Known, LogInv, ReceiptsTellEvents
  <2> QED
    BY <2>2 DEF TrueOfEvents, Reply
<1> QED
  BY <1>3, <1>4, QuietKeeps DEF Known, tables

\* The place after the last one, for an id without a receipt.
LEMMA RecordTrue ==
    ASSUME LogInv, TypeInv', NEW h \in Handlers, handlers[h].pc = "commit",
           receipts[handlers[h].command.id] = None, NEW row, Record(h, row)
    PROVE  LogInv'
<1> DEFINE c == handlers[h].command
           event == [command |-> c, result |-> handlers[h].result]
           receipt == [envelope |-> c, seq |-> NextSeq]
<1>1. c \in Envelopes /\ c.id \in CommandIds
  BY AtWork DEF LogInv, TypeInv
<1>2. /\ events \in Seq(Events)
      /\ receipts \in [CommandIds -> {None} \cup [envelope : Envelopes, seq : 1..Len(events)]]
  BY DEF LogInv, TypeInv, TablesOK
<1>3. /\ DOMAIN events = 1..Len(events) /\ Len(events) \in Nat
      /\ DOMAIN events' = 1..NextSeq
      /\ \A i \in DOMAIN events : events'[i] = events[i]
      /\ events'[NextSeq] = event
      /\ NextSeq = Len(events) + 1
  <2>1. event \in Events
    BY <1>1 DEF LogInv, TypeInv, HandlersOK, HandlerShape, HandlerRows, Events
  <2> QED
    BY <1>2, <2>1 DEF Record, NextSeq
<1>4. /\ receipts' = [receipts EXCEPT ![c.id] = receipt]
      /\ receipts'[c.id] = receipt
      /\ \A k \in CommandIds \ {c.id} : receipts'[k] = receipts[k]
  BY <1>1, <1>2 DEF Record
<1>5. \A i \in DOMAIN events : events[i].command \in Envelopes
  <2>1. \A i \in DOMAIN events : events[i] \in Events
    BY <1>2, <1>3, ElementOfSeq
  <2> QED
    BY <2>1 DEF Events
<1>6. \A i \in DOMAIN events : events[i].command.id # c.id
  <2> SUFFICES ASSUME NEW i \in DOMAIN events, events[i].command.id = c.id PROVE FALSE
    OBVIOUS
  <2>1. receipts[c.id] = [envelope |-> events[i].command, seq |-> i]
    BY DEF LogInv, ReceiptsTellEvents
  <2>2. events[i].command \in Envelopes /\ i \in Nat
    BY <1>3, <1>5
  <2> QED
    BY <2>1, <2>2, NoneIsNoRow
<1>7. ReceiptsTellEvents'
  <2>1. ASSUME NEW i \in DOMAIN events'
        PROVE  receipts'[events'[i].command.id] = [envelope |-> events'[i].command, seq |-> i]
    <3>1. CASE i = NextSeq
      BY <1>3, <1>4, <3>1
    <3>2. CASE i # NextSeq
      <4>1. i \in DOMAIN events
        BY <1>3, <3>2
      <4>2. events[i].command.id \in CommandIds
        BY <1>5, <4>1 DEF CommandIds
      <4> QED
        BY <1>3, <1>4, <1>6, <4>1, <4>2 DEF LogInv, ReceiptsTellEvents
    <3> QED
      BY <3>1, <3>2
  <2>2. ASSUME NEW k \in CommandIds, receipts'[k] # None
        PROVE  /\ receipts'[k].seq \in DOMAIN events'
               /\ events'[receipts'[k].seq].command = receipts'[k].envelope
               /\ receipts'[k].envelope.id = k
    <3>1. CASE k = c.id
      BY <1>3, <1>4, <3>1
    <3>2. CASE k # c.id
      <4>1. receipts'[k] = receipts[k]
        BY <1>4, <3>2
      <4>2. /\ receipts[k].seq \in DOMAIN events
            /\ events[receipts[k].seq].command = receipts[k].envelope
            /\ receipts[k].envelope.id = k
        BY <2>2, <4>1 DEF LogInv, ReceiptsTellEvents
      <4> QED
        BY <1>3, <4>1, <4>2
    <3> QED
      BY <3>1, <3>2
  <2> QED
    BY <2>1, <2>2 DEF ReceiptsTellEvents
<1>8. TrueAnswers'
  <2> PICK answer : answer = Reply("accepted", NextSeq)
    OBVIOUS
  <2> PICK command : command = c
    OBVIOUS
  <2>1. \A k \in Handlers :
            \/ k # h /\ handlers'[k] = handlers[k]
            \/ k = h /\ handlers'[k].answer = answer /\ handlers'[k].command = command
    BY DEF Record, Leave, LogInv, TypeInv, HandlersOK, HandlerShape, HandlerRows
  <2>2. TrueOfEvents(command, answer)'
    BY <1>3 DEF TrueOfEvents, Reply
  <2>3. \A d, a : TrueOfEvents(d, a) => TrueOfEvents(d, a)'
    BY <1>3 DEF TrueOfEvents
  <2> QED
    BY <2>1, <2>2, <2>3 DEF LogInv, TrueAnswers
<1> QED
  BY <1>7, <1>8 DEF LogInv

\* A step of the service either records a command whose id had no receipt, or sends an
\* answer, or leaves the log and the answers alone.
LEMMA StepKinds ==
    ASSUME LogInv, NEW h \in Handlers, Step(h)
    PROVE  \/ /\ handlers[h].pc = "commit"
              /\ receipts[handlers[h].command.id] = None
              /\ \E row : Record(h, row)
           \/ Respond(h)
           \/ Known(h) /\ handlers[h].pc # "idle"
           \/ Refuse(h)
           \/ /\ UNCHANGED <<events, receipts, answers>>
              /\ \E result : \E pc \in HandlerPhases \ {"answer"} : Proceed(h, pc, result)
<1>1. CASE Commit(h)
  BY <1>1 DEF Commit, CommitKnown, CommitCapture, CommitMessage, CommitBind, CommitSnapshot,
              CommitForwardTest, FirstSeen
<1>2. CASE CheckForwardTest(h)
  BY <1>2 DEF CheckForwardTest, HandlerPhases, tables
<1>3. CASE ReplayForwardTest(h)
  BY <1>3 DEF ReplayForwardTest, HandlerPhases, tables
<1>4. CASE BuildSnapshot(h)
  BY <1>4 DEF BuildSnapshot, HandlerPhases, tables
<1>5. CASE StoreMarketInput(h)
  BY <1>5 DEF StoreMarketInput, HandlerPhases, tables
<1> QED
  BY <1>1, <1>2, <1>3, <1>4, <1>5 DEF Step

LEMMA LogNext == LogInv /\ [Next]_vars => LogInv'
<1> SUFFICES ASSUME LogInv, [Next]_vars PROVE LogInv'
  OBVIOUS
<1>1. TypeInv'
  BY TypeNext DEF LogInv
<1>2. handlers = [k \in Handlers |-> handlers[k]]
  BY DEF LogInv, TypeInv, HandlersOK
<1>3. ASSUME NEW u \in Uploads, StoreBlob(u) PROVE LogInv'
  BY <1>1, <1>3, QuietKeeps DEF StoreBlob, tables
<1>4. ASSUME NEW h \in Handlers, NEW c \in Envelopes, Submit(h, c) PROVE LogInv'
  <2>1. \A k \in Handlers : handlers'[k] = handlers[k] \/ handlers'[k].pc # "answer"
    BY <1>2, <1>4 DEF Submit, IdleHandler, FirstStep
  <2> QED
    BY <1>1, <1>4, <2>1, QuietKeeps DEF Submit, tables
<1>5. CASE Stop
  BY <1>1, <1>5, QuietKeeps DEF Stop, IdleHandler, tables
<1>6. CASE UNCHANGED vars
  BY <1>1, <1>6, QuietKeeps DEF vars, tables
<1>7. ASSUME NEW h \in Handlers, Step(h) PROVE LogInv'
  <2>1. CASE /\ handlers[h].pc = "commit"
             /\ receipts[handlers[h].command.id] = None
             /\ \E row : Record(h, row)
    BY <1>1, <2>1, RecordTrue
  <2>2. CASE Respond(h)
    <3>1. \A k \in Handlers : handlers'[k] = handlers[k] \/ handlers'[k].pc # "answer"
      BY <1>2, <2>2 DEF Respond, IdleHandler
    <3> QED
      BY <1>1, <2>2, <3>1, QuietKeeps DEF Respond, tables
  <2>3. CASE \E result : \E pc \in HandlerPhases \ {"answer"} :
                 Proceed(h, pc, result) /\ UNCHANGED <<events, receipts>>
    <3>1. \A k \in Handlers : handlers'[k] = handlers[k] \/ handlers'[k].pc # "answer"
      <4> PICK result : \E pc \in HandlerPhases \ {"answer"} : Proceed(h, pc, result)
        BY <2>3
      <4> PICK pc \in HandlerPhases \ {"answer"} : Proceed(h, pc, result)
        OBVIOUS
      <4>1. handlers[h] \in HandlerRows
        BY DEF LogInv, TypeInv, HandlersOK, HandlerShape
      <4> QED
        BY <1>2, <4>1 DEF Proceed, HandlerRows
    <3> QED
      BY <1>1, <2>3, <3>1, QuietKeeps
  <2> QED
    BY <1>1, <1>7, <2>1, <2>2, <2>3, StepKinds, KnownTrue, RefuseTrue
<1> QED
  BY <1>3, <1>4, <1>5, <1>6, <1>7 DEF Next

\* The log of the abstract specification.
commands == [i \in DOMAIN events |-> events[i].command]

LEMMA RecordExecutes ==
    ASSUME LogInv, LogInv', NEW h \in Handlers, handlers[h].pc = "commit",
           receipts[handlers[h].command.id] = None, NEW row, Record(h, row)
    PROVE  Log!Execute
<1> DEFINE c == handlers[h].command
<1>1. events \in Seq(Events) /\ c.id \in CommandIds
  BY AtWork DEF LogInv, TypeInv, TablesOK
<1>2. /\ DOMAIN events = 1..Len(events) /\ Len(events) \in Nat
      /\ DOMAIN events' = 1..(Len(events) + 1)
      /\ \A i \in DOMAIN events : events'[i] = events[i]
      /\ events'[Len(events) + 1].command = c
  <2>1. [command |-> c, result |-> handlers[h].result] \in Events
    BY AtWork DEF LogInv, TypeInv, HandlersOK, HandlerShape, HandlerRows, Events
  <2> QED
    BY <1>1, <2>1 DEF Record
<1>3. Len(commands) = Len(events) /\ Len(commands') = Len(events) + 1
  <2>1. /\ commands \in Seq({commands[i] : i \in DOMAIN events})
        /\ commands' \in Seq({commands'[i] : i \in DOMAIN events'})
    BY <1>2, SeqDef DEF commands
  <2> QED
    BY <1>2, <2>1, LenProperties DEF commands
<1>4. \A i \in DOMAIN commands : commands'[i] = commands[i]
  BY <1>2 DEF commands
<1>5. \A i \in DOMAIN events' : events'[i].command.id = c.id => i = Len(events) + 1
  <2> SUFFICES ASSUME NEW i \in DOMAIN events, events[i].command.id = c.id PROVE FALSE
    BY <1>2
  <2>1. receipts[c.id] = [envelope |-> events[i].command, seq |-> i]
    BY DEF LogInv, ReceiptsTellEvents
  <2>2. events[i] \in Events /\ i \in Nat
    BY <1>1, <1>2, ElementOfSeq
  <2> QED
    BY <2>1, <2>2, NoneIsNoRow DEF Events
<1> QED
  BY <1>2, <1>3, <1>4, <1>5 DEF Log!Execute, Log!At, Record, commands

LEMMA RespondAnswers ==
    ASSUME LogInv, NEW h \in Handlers, Respond(h)
    PROVE  Log!Answer
<1> DEFINE a == [command |-> handlers[h].command, disposition |-> handlers[h].answer.disposition,
                 seq |-> handlers[h].answer.seq]
<1>1. UNCHANGED events /\ answers' = answers \cup {a}
  BY DEF Respond, tables
<1>2. a.disposition \in Dispositions
  BY DEF Respond, LogInv, TypeInv, HandlersOK, HandlerShape, HandlerRows, Answer
<1>3. TrueOfEvents(a.command, handlers[h].answer)
  BY DEF Respond, LogInv, TrueAnswers
<1>4. Log!True(a)
  BY <1>2, <1>3 DEF TrueOfEvents, Dispositions, Log!True, Log!At
<1> QED
  BY <1>1, <1>4 DEF Log!Answer

LEMMA LogStep == LogInv /\ LogInv' /\ [Next]_vars => [Log!Next]_<<commands, answers>>
<1> SUFFICES ASSUME LogInv, LogInv', [Next]_vars
             PROVE  Log!Next \/ UNCHANGED <<events, answers>>
  BY DEF commands
<1>1. ASSUME NEW h \in Handlers, Step(h) PROVE Log!Next \/ UNCHANGED <<events, answers>>
  <2>1. CASE /\ handlers[h].pc = "commit"
             /\ receipts[handlers[h].command.id] = None
             /\ \E row : Record(h, row)
    BY <2>1, RecordExecutes DEF Log!Next
  <2>2. CASE Respond(h)
    BY <2>2, RespondAnswers DEF Log!Next
  <2> QED
    BY <1>1, <2>1, <2>2, StepKinds DEF Known, Refuse, tables
<1>2. CASE UNCHANGED vars
  BY <1>2 DEF vars, tables
<1> QED
  BY <1>1, <1>2 DEF Next, StoreBlob, Submit, Stop, tables

LEMMA LogStart == Init => Log!Init
BY DEF Init, Log!Init

\* Whatever is lost, sent again, worked on twice or stopped, the service implements an
\* append-only log in which each command_id stands at most once, and its answers agree
\* with that log (CommandLedger!KeepsLog).
THEOREM LedgerKeepsLog == Spec => KeepsLog
<1>1. LogInv /\ LogInv' /\ [Next]_vars
          => [Log!Next]_<<[i \in DOMAIN events |-> events[i].command], answers>>
  BY LogStep DEF commands
<1> QED
  BY LogInit, LogNext, LogStart, <1>1, PTL DEF Spec, KeepsLog, Log!Spec

-----------------------------------------------------------------------------
(* The rows, the workbench and the artifacts of what is recorded *)

\* The binds among the events before the i-th.
BindsBefore(i) == {k \in 1..(i - 1) : events[k].command.kind = "bind"}

\* w is the workbench that the last of them names, or the one the session began with.
\* It says what BenchAt says without a CHOOSE, and that there is a last one.
BenchIs(i, w) ==
    \/ BindsBefore(i) = {} /\ w = Home
    \/ \E k \in BindsBefore(i) :
          (\A j \in BindsBefore(i) : j <= k) /\ w = events[k].command.workbench

\* The binding that a transaction finds is the one that the events tell.
BenchTold ==
    /\ BenchIs(Len(events) + 1, bench)
    /\ \A i \in DOMAIN events : events[i].command.kind \in {"message", "snapshot", "forward"} =>
          BenchIs(i, events[i].command.workbench)

\* An artifact has one id and its bytes stand in one row.
OneOfEach == \A a, b \in artifacts : a.id = b.id \/ a.content = b.content => a = b

\* What the ids stand for in a table of artifacts.
ContentsOf(table, ids) == {a.content : a \in {a \in table : a.id \in ids}}

\* RowsResolve, and that no row names an artifact that is not there, so that none
\* registered later can become part of it.
RefsResolve ==
    /\ OneOfEach
    /\ \A row \in rows :
          /\ Resolved(artifacts, row.refs)
          /\ ContentsOf(artifacts, row.refs) = Meant(events[row.seq])
          /\ row.table # "capture" => Meant(events[row.seq]) \subseteq blobs

\* What a handler has stored on its way to a transaction.
Stored(me) ==
    /\ me.pc = "store" =>
          {Content(me.command.upload, "source"), Normalized(me.command)} \subseteq blobs
    /\ me.pc = "commit" /\ me.command.kind = "snapshot" =>
          {Content(me.command.upload, "source"), Normalized(me.command), MarketInput(me.command)}
              \subseteq blobs
    /\ me.pc = "commit" /\ me.command.kind = "forward" =>
          Content(me.command.subject, me.result) \in blobs

HandlersStored == \A h \in Handlers : Stored(handlers[h])

RowsInv == TypeInv /\ RowsTellEvents /\ BenchTold /\ RefsResolve /\ HandlersStored

LEMMA RowsInit == Init => RowsInv
<1> SUFFICES ASSUME Init PROVE RowsInv
  OBVIOUS
<1>1. RowsTellEvents /\ RefsResolve
  BY DEF Init, RowsTellEvents, RefsResolve, OneOfEach
<1>2. BenchTold
  BY DEF Init, BenchTold, BenchIs, BindsBefore
<1>3. HandlersStored
  BY DEF Init, IdleHandler, HandlersStored, Stored
<1> QED
  BY TypeInit, <1>1, <1>2, <1>3 DEF RowsInv

\* A step outside transactions.
LEMMA QuietKeepsRows ==
    ASSUME RowsInv, TypeInv', UNCHANGED tables, blobs \subseteq blobs', HandlersStored'
    PROVE  RowsInv'
<1>1. RowsTellEvents'
  BY DEF RowsInv, RowsTellEvents, tables
<1>2. BenchTold'
  BY DEF RowsInv, BenchTold, BenchIs, BindsBefore, tables
<1>3. RefsResolve'
  BY DEF RowsInv, RefsResolve, OneOfEach, Resolved, Meant, tables
<1> QED
  BY <1>1, <1>2, <1>3 DEF RowsInv

\* One handler goes on, and blobs only appear.
LEMMA OneStored ==
    ASSUME HandlersOK, HandlersStored, NEW h \in Handlers, NEW me,
           handlers' = [handlers EXCEPT ![h] = me],
           blobs \subseteq blobs', Stored(me)'
    PROVE  HandlersStored'
BY DEF HandlersOK, HandlersStored, Stored

LEMMA LeaveStored ==
    ASSUME HandlersOK, HandlersStored, NEW h \in Handlers, NEW answer, Leave(h, answer),
           blobs \subseteq blobs'
    PROVE  HandlersStored'
<1> PICK me : me = [handlers[h] EXCEPT !.pc = "answer", !.answer = answer]
  OBVIOUS
<1>1. me.pc = "answer"
  BY DEF HandlersOK, HandlerShape, HandlerRows
<1>2. Stored(me)'
  BY <1>1 DEF Stored
<1> QED
  BY <1>2, OneStored DEF Leave

LEMMA ProceedStored ==
    ASSUME HandlersOK, HandlersStored, NEW h \in Handlers, NEW pc, NEW result,
           Proceed(h, pc, result), blobs \subseteq blobs',
           NEW c, c = handlers[h].command,
           pc = "store" => {Content(c.upload, "source"), Normalized(c)} \subseteq blobs',
           pc = "commit" /\ c.kind = "snapshot" =>
               {Content(c.upload, "source"), Normalized(c), MarketInput(c)} \subseteq blobs',
           pc = "commit" /\ c.kind = "forward" => Content(c.subject, result) \in blobs'
    PROVE  HandlersStored'
<1> PICK me : me = [handlers[h] EXCEPT !.pc = pc, !.result = result]
  OBVIOUS
<1>1. me.pc = pc /\ me.command = c /\ me.result = result
  BY DEF HandlersOK, HandlerShape, HandlerRows
<1>2. Stored(me)'
  BY <1>1 DEF Stored
<1> QED
  BY <1>2, OneStored DEF Proceed

LEMMA RefuseRows ==
    ASSUME RowsInv, TypeInv', NEW h \in Handlers, Refuse(h)
    PROVE  RowsInv'
BY LeaveStored, QuietKeepsRows DEF Refuse, RowsInv, TypeInv

LEMMA KnownRows ==
    ASSUME RowsInv, TypeInv', NEW h \in Handlers, Known(h)
    PROVE  RowsInv'
BY LeaveStored, QuietKeepsRows DEF Known, RowsInv, TypeInv

-----------------------------------------------------------------------------
(* A transaction *)

\* What the log is after a transaction: the event stands at the end.
LEMMA EventsGrow ==
    ASSUME TypeInv, NEW h \in Handlers, handlers[h].pc = "commit", NEW row, Record(h, row),
           NEW event, event = [command |-> handlers[h].command, result |-> handlers[h].result],
           NEW n, n = Len(events)
    PROVE  /\ n \in Nat /\ NextSeq = n + 1
           /\ DOMAIN events = 1..n /\ DOMAIN events' = 1..(n + 1) /\ Len(events') = n + 1
           /\ \A i \in 1..n : events'[i] = events[i]
           /\ events'[n + 1] = event
           /\ \A r \in rows : r.seq \in 1..n
<1>1. event \in Events /\ events \in Seq(Events)
  BY AtWork DEF TypeInv, TablesOK, HandlersOK, HandlerShape, HandlerRows, Events
<1> QED
  BY <1>1 DEF Record, NextSeq, TypeInv, TablesOK

\* A key that is not in use, and a place in the log that no row has.
LEMMA RowsTellKept ==
    ASSUME TypeInv, RowsTellEvents, NEW h \in Handlers, handlers[h].pc = "commit",
           NEW c, c = handlers[h].command, NEW row, Record(h, row),
           \/ row = None /\ c.kind = "bind"
           \/ /\ row # None /\ ~KeyInUse(c)
              /\ row.table = c.kind /\ row.key = c.subject /\ row.seq = NextSeq
    PROVE  RowsTellEvents'
<1> PICK n, event : n = Len(events) /\ event = [command |-> c, result |-> handlers[h].result]
  OBVIOUS
<1>1. /\ n \in Nat /\ NextSeq = n + 1
      /\ DOMAIN events = 1..n /\ DOMAIN events' = 1..(n + 1)
      /\ \A i \in 1..n : events'[i] = events[i]
      /\ events'[n + 1] = event
      /\ \A r \in rows : r.seq \in 1..n
  BY EventsGrow
<1>2. rows' = IF row = None THEN rows ELSE rows \cup {row}
  BY DEF Record
<1>3. \A i \in DOMAIN events' : events'[i].command.kind # "bind" =>
          \E r \in rows' : /\ r.seq = i /\ r.table = events'[i].command.kind
                           /\ r.key = events'[i].command.subject
  <2> TAKE i \in DOMAIN events'
  <2>1. CASE i \in 1..n
    BY <1>1, <1>2, <2>1 DEF RowsTellEvents
  <2>2. CASE i = n + 1
    BY <1>1, <1>2, <2>2
  <2> QED
    BY <1>1, <2>1, <2>2
<1>4. \A r, s \in rows' :
          r.seq = s.seq \/ (r.table = s.table /\ r.key = s.key) => r = s
  <2>1. \A r, s \in rows : r.seq = s.seq \/ (r.table = s.table /\ r.key = s.key) => r = s
    BY DEF RowsTellEvents
  <2>2. row # None => \A r \in rows : r.seq # row.seq /\ ~(r.table = row.table /\ r.key = row.key)
    BY <1>1 DEF KeyInUse
  <2> QED
    BY <1>2, <2>1, <2>2
<1> QED
  BY <1>3, <1>4 DEF RowsTellEvents

\* What is appended does not change what was before it.
LEMMA BenchIsKept ==
    ASSUME NEW n \in Nat, \A i \in 1..n : events'[i] = events[i],
           NEW i \in 1..(n + 1), NEW w, BenchIs(i, w)
    PROVE  BenchIs(i, w)'
<1>1. BindsBefore(i)' = BindsBefore(i)
  BY DEF BindsBefore
<1>2. \A k \in BindsBefore(i) : events'[k] = events[k]
  BY DEF BindsBefore
<1> QED
  BY <1>1, <1>2 DEF BenchIs

LEMMA BenchToldKept ==
    ASSUME TypeInv, BenchTold, NEW h \in Handlers, handlers[h].pc = "commit",
           NEW c, c = handlers[h].command, NEW row, Record(h, row),
           c.kind \in {"message", "snapshot", "forward"} => InBench(c),
           IF c.kind = "bind" THEN bench' = c.workbench ELSE bench' = bench
    PROVE  BenchTold'
<1> PICK n, event : n = Len(events) /\ event = [command |-> c, result |-> handlers[h].result]
  OBVIOUS
<1>1. /\ n \in Nat
      /\ DOMAIN events = 1..n /\ DOMAIN events' = 1..(n + 1) /\ Len(events') = n + 1
      /\ \A i \in 1..n : events'[i] = events[i]
      /\ events'[n + 1] = event
  BY EventsGrow
<1>2. PICK w : w = bench
  OBVIOUS
<1>3. BenchIs(n + 1, w)'
  BY <1>1, <1>2, BenchIsKept DEF BenchTold
<1>4. \A i \in DOMAIN events' :
          events'[i].command.kind \in {"message", "snapshot", "forward"} =>
              \A u : u = events'[i].command.workbench => BenchIs(i, u)'
  <2> TAKE i \in DOMAIN events'
  <2>1. CASE i \in 1..n
    BY <1>1, <2>1, BenchIsKept DEF BenchTold
  <2>2. CASE i = n + 1
    BY <1>1, <1>2, <1>3, <2>2 DEF InBench
  <2> QED
    BY <1>1, <2>1, <2>2
<1>5. \A u : u = bench' => BenchIs(n + 2, u)'
  <2>1. CASE c.kind = "bind"
    <3>1. n + 1 \in BindsBefore(n + 2)' /\ \A j \in BindsBefore(n + 2)' : j <= n + 1
      BY <1>1, <2>1 DEF BindsBefore
    <3> QED
      BY <1>1, <2>1, <3>1 DEF BenchIs
  <2>2. CASE c.kind # "bind"
    <3>1. BindsBefore(n + 2)' = BindsBefore(n + 1)'
      BY <1>1, <2>2 DEF BindsBefore
    <3> QED
      BY <1>2, <1>3, <2>2, <3>1 DEF BenchIs
  <2> QED
    BY <2>1, <2>2
<1> QED
  BY <1>1, <1>4, <1>5 DEF BenchTold

\* The artifacts that earlier rows name stay what they are.
LEMMA RefsResolveKept ==
    ASSUME TypeInv, RefsResolve, NEW h \in Handlers, handlers[h].pc = "commit",
           NEW c, c = handlers[h].command, NEW row, Record(h, row),
           NEW event, event = [command |-> c, result |-> handlers[h].result],
           artifacts \subseteq artifacts', OneOfEach',
           \A a \in artifacts' \ artifacts : ~Taken(artifacts, a),
           \/ row = None
           \/ /\ row.seq = NextSeq
              /\ Resolved(artifacts', row.refs)
              /\ ContentsOf(artifacts', row.refs) = Meant(event)
              /\ row.table # "capture" => Meant(event) \subseteq blobs
    PROVE  RefsResolve'
<1> PICK n : n = Len(events)
  OBVIOUS
<1>1. /\ n \in Nat /\ NextSeq = n + 1
      /\ \A i \in 1..n : events'[i] = events[i]
      /\ events'[n + 1] = event
      /\ \A r \in rows : r.seq \in 1..n
  <2>1. event = [command |-> handlers[h].command, result |-> handlers[h].result]
    OBVIOUS
  <2> QED
    BY <2>1, EventsGrow
<1>2. rows' \subseteq rows \cup {row} /\ (row = None => rows' = rows) /\ blobs' = blobs
  BY DEF Record
<1> SUFFICES ASSUME NEW r \in rows'
             PROVE  /\ Resolved(artifacts', r.refs)
                    /\ ContentsOf(artifacts', r.refs) = Meant(events'[r.seq])
                    /\ r.table # "capture" => Meant(events'[r.seq]) \subseteq blobs'
  BY DEF RefsResolve, Resolved, Meant, ContentsOf
<1>3. CASE r \in rows
  <2>1. /\ Resolved(artifacts, r.refs)
        /\ ContentsOf(artifacts, r.refs) = Meant(events[r.seq])
        /\ r.table # "capture" => Meant(events[r.seq]) \subseteq blobs
    BY <1>3 DEF RefsResolve
  <2>2. {a \in artifacts' : a.id \in r.refs} = {a \in artifacts : a.id \in r.refs}
    BY <2>1 DEF Taken, Resolved
  <2>3. ContentsOf(artifacts', r.refs) = ContentsOf(artifacts, r.refs)
    BY <2>2 DEF ContentsOf
  <2>4. Resolved(artifacts', r.refs)
    BY <2>1 DEF Resolved
  <2> QED
    BY <1>1, <1>2, <1>3, <2>1, <2>3, <2>4
<1>4. CASE r = row /\ row # None
  BY <1>1, <1>2, <1>4
<1> QED
  BY <1>2, <1>3, <1>4

LEMMA RecordRows ==
    ASSUME RowsInv, TypeInv', NEW h \in Handlers, handlers[h].pc = "commit", NEW row,
           Record(h, row), RowsTellEvents', BenchTold', RefsResolve'
    PROVE  RowsInv'
BY LeaveStored DEF Record, RowsInv, TypeInv

-----------------------------------------------------------------------------
(* One transaction after the other *)

LEMMA RowKey ==
    ASSUME TypeInv, NEW c \in Envelopes, NEW refs \in SUBSET (Ids \cup Contents)
    PROVE  /\ Row(c, refs) # None
           /\ Row(c, refs).table = c.kind /\ Row(c, refs).key = c.subject
           /\ Row(c, refs).refs = refs /\ Row(c, refs).seq = NextSeq
BY RowIsRow, NoneIsNoRow DEF Row

\* A command whose row names one artifact, which is new or the same as before.
LEMMA OneArtifact ==
    ASSUME RowsInv, TypeInv', NEW h \in Handlers, handlers[h].pc = "commit",
           NEW c, c = handlers[h].command, NEW a, a.id \in Ids \cup Contents,
           c.kind \in {"capture", "message", "forward"},
           (~Taken(artifacts, a) /\ ~Owned(artifacts, a)) \/ a \in artifacts,
           ~KeyInUse(c), artifacts' = artifacts \cup {a}, UNCHANGED bench,
           Record(h, Row(c, {a.id})),
           c.kind # "capture" => InBench(c) /\ a.content \in blobs,
           {a.content} = Meant([command |-> c, result |-> handlers[h].result])
    PROVE  RowsInv'
<1> PICK row, event : /\ row = Row(c, {a.id})
                      /\ event = [command |-> c, result |-> handlers[h].result]
  OBVIOUS
<1>1. c \in Envelopes
  BY AtWork DEF RowsInv, TypeInv
<1>2. /\ row # None /\ row.table = c.kind /\ row.key = c.subject
      /\ row.refs = {a.id} /\ row.seq = NextSeq
  BY <1>1, RowKey DEF RowsInv
<1>3. RowsTellEvents'
  BY <1>2, RowsTellKept DEF RowsInv
<1>4. BenchTold'
  BY BenchToldKept DEF RowsInv
<1>5. OneOfEach'
  BY DEF RowsInv, RefsResolve, OneOfEach, Taken, Owned
<1>6. ContentsOf(artifacts', row.refs) = {a.content}
  <2>1. {b \in artifacts' : b.id \in row.refs} = {a}
    BY <1>2, <1>5 DEF OneOfEach
  <2> QED
    BY <2>1 DEF ContentsOf
<1>7. Resolved(artifacts', row.refs)
  BY <1>2 DEF Resolved
<1>8. \A b \in artifacts' \ artifacts : ~Taken(artifacts, b)
  OBVIOUS
<1>9. ContentsOf(artifacts', row.refs) = Meant(event)
  BY <1>6
<1>10. row.table # "capture" => Meant(event) \subseteq blobs
  BY <1>2
<1>11. Record(h, row) /\ TypeInv /\ RefsResolve /\ artifacts \subseteq artifacts'
  BY DEF RowsInv
<1>12. RefsResolve'
  BY <1>2, <1>5, <1>7, <1>8, <1>9, <1>10, <1>11, RefsResolveKept
<1> QED
  BY <1>3, <1>4, <1>12, RecordRows

LEMMA CaptureRows ==
    ASSUME RowsInv, TypeInv', NEW h \in Handlers, CommitCapture(h)
    PROVE  RowsInv'
<1> PICK c, a : c = handlers[h].command /\ a = UploadedArtifact(c)
  OBVIOUS
<1>1. c \in Envelopes /\ c.kind = "capture" /\ handlers[h].pc = "commit"
  BY AtWork DEF CommitCapture, FirstSeen, RowsInv, TypeInv
<1>2. CASE Refuse(h)
  BY <1>2, RefuseRows
<1>3. CASE ~Refuse(h)
  <2>1. /\ ~Taken(artifacts, a) /\ ~Owned(artifacts, a) /\ ~KeyInUse(c)
        /\ artifacts' = artifacts \cup {a}
        /\ UNCHANGED bench
        /\ Record(h, Row(c, {a.id}))
    BY <1>3 DEF CommitCapture
  <2>2. a.id \in Ids \cup Contents
    BY <1>1, Named DEF UploadedArtifact, Artifact
  <2>3. {a.content} = Meant([command |-> c, result |-> handlers[h].result])
    BY <1>1 DEF UploadedArtifact, Artifact, Meant
  <2> QED
    BY <1>1, <2>1, <2>2, <2>3, OneArtifact
<1> QED
  BY <1>2, <1>3

LEMMA MessageRows ==
    ASSUME RowsInv, TypeInv', NEW h \in Handlers, CommitMessage(h)
    PROVE  RowsInv'
<1> PICK c, a : c = handlers[h].command /\ a = MessageArtifact(c)
  OBVIOUS
<1>1. c \in Envelopes /\ c.kind = "message" /\ handlers[h].pc = "commit"
  BY AtWork DEF CommitMessage, FirstSeen, RowsInv, TypeInv
<1>2. CASE Refuse(h)
  BY <1>2, RefuseRows
<1>3. CASE ~Refuse(h)
  <2>1. /\ (~Taken(artifacts, a) /\ ~Owned(artifacts, a)) \/ a \in artifacts
        /\ ~KeyInUse(c) /\ InBench(c) /\ a.content \in blobs
        /\ artifacts' = artifacts \cup {a}
        /\ UNCHANGED bench
        /\ Record(h, Row(c, {a.id}))
    BY <1>3 DEF CommitMessage
  <2>2. a.id \in Ids \cup Contents
    BY <1>1, Named, EnvelopeShape DEF MessageArtifact, Artifact
  <2>3. {a.content} = Meant([command |-> c, result |-> handlers[h].result])
    BY <1>1 DEF MessageArtifact, Artifact, Meant
  <2> QED
    BY <1>1, <2>1, <2>2, <2>3, OneArtifact
<1> QED
  BY <1>2, <1>3

LEMMA ForwardRows ==
    ASSUME RowsInv, TypeInv', NEW h \in Handlers, CommitForwardTest(h)
    PROVE  RowsInv'
<1> PICK c, a : c = handlers[h].command /\ a = TranscriptArtifact(c, handlers[h].result)
  OBVIOUS
<1>1. c \in Envelopes /\ c.kind = "forward" /\ handlers[h].pc = "commit"
  BY AtWork DEF CommitForwardTest, FirstSeen, RowsInv, TypeInv
<1>2. CASE Refuse(h)
  BY <1>2, RefuseRows
<1>3. CASE ~Refuse(h)
  <2>1. /\ ~Taken(artifacts, a) /\ ~Owned(artifacts, a) /\ ~KeyInUse(c) /\ InBench(c)
        /\ artifacts' = artifacts \cup {a}
        /\ UNCHANGED bench
        /\ Record(h, Row(c, {a.id}))
    BY <1>3 DEF CommitForwardTest
  <2>2. a.id \in Ids \cup Contents
    BY <1>1, Named DEF TranscriptArtifact, Artifact
  <2>3. /\ {a.content} = Meant([command |-> c, result |-> handlers[h].result])
        /\ a.content \in blobs
    BY <1>1 DEF TranscriptArtifact, Artifact, Meant, RowsInv, HandlersStored, Stored
  <2> QED
    BY <1>1, <2>1, <2>2, <2>3, OneArtifact
<1> QED
  BY <1>2, <1>3

LEMMA BindRows ==
    ASSUME RowsInv, TypeInv', NEW h \in Handlers, CommitBind(h)
    PROVE  RowsInv'
<1> PICK c : c = handlers[h].command
  OBVIOUS
<1>1. c.kind = "bind" /\ handlers[h].pc = "commit" /\ bench' = c.workbench
  BY DEF CommitBind, FirstSeen
<1>2. Record(h, None) /\ artifacts' = artifacts
  BY DEF CommitBind
<1>3. RowsTellEvents'
  BY <1>1, <1>2, RowsTellKept DEF RowsInv
<1>4. BenchTold'
  BY <1>1, <1>2, BenchToldKept DEF RowsInv
<1>5. OneOfEach'
  BY <1>2 DEF RowsInv, RefsResolve, OneOfEach
<1>6. RefsResolve'
  BY <1>1, <1>2, <1>5, RefsResolveKept DEF RowsInv
<1> QED
  BY <1>1, <1>2, <1>3, <1>4, <1>6, RecordRows

\* What registering an artifact leaves behind.
LEMMA RegisteredKeeps ==
    ASSUME NEW table, NEW a, Registrable(table, a),
           \A x, y \in table : x.id = y.id \/ x.content = y.content => x = y
    PROVE  /\ table \subseteq Registered(table, a)
           /\ Registered(table, a) \subseteq table \cup {a}
           /\ \A x, y \in Registered(table, a) : x.id = y.id \/ x.content = y.content => x = y
           /\ \A x \in Registered(table, a) \ table : ~Taken(table, x)
           /\ a \in Registered(table, a) \/ ~Taken(table, a)
BY DEF Registrable, Registered, Taken, Owned

LEMMA SnapshotRows ==
    ASSUME RowsInv, TypeInv', NEW h \in Handlers, CommitSnapshot(h)
    PROVE  RowsInv'
<1> PICK c, source, bars, input : /\ c = handlers[h].command
                                  /\ source = UploadedArtifact(c)
                                  /\ bars = NormalizedArtifact(c)
                                  /\ input = MarketInputArtifact(c)
  OBVIOUS
<1> PICK one : one = Registered(artifacts, source)
  OBVIOUS
<1> PICK two : two = Registered(one, bars)
  OBVIOUS
<1> PICK three : three = Registered(two, input)
  OBVIOUS
<1>1. c \in Envelopes /\ c.kind = "snapshot" /\ handlers[h].pc = "commit"
  BY AtWork DEF CommitSnapshot, FirstSeen, RowsInv, TypeInv
<1>2. CASE Refuse(h)
  BY <1>2, RefuseRows
<1>3. CASE ~Refuse(h)
  <2> PICK refs, event : /\ refs = {source.id, bars.id, input.id}
                         /\ event = [command |-> c, result |-> handlers[h].result]
    OBVIOUS
  <2> PICK row : row = Row(c, refs)
    OBVIOUS
  <2>1. /\ InBench(c) /\ ~KeyInUse(c) /\ Resolved(three, refs)
        /\ Registrable(artifacts, source) /\ Registrable(one, bars) /\ Registrable(two, input)
        /\ artifacts' = three /\ UNCHANGED bench /\ Record(h, row)
    BY <1>3 DEF CommitSnapshot
  <2>2. /\ source.id = c.artifact /\ source.content = Content(c.upload, "source")
        /\ bars.id = Normalized(c) /\ bars.content = Normalized(c)
        /\ input.id = MarketInput(c) /\ input.content = MarketInput(c)
    BY DEF UploadedArtifact, NormalizedArtifact, MarketInputArtifact, Artifact
  <2>3. refs \in SUBSET (Ids \cup Contents)
    BY <1>1, <2>2, Named, EnvelopeShape DEF Normalized, MarketInput
  <2>4. /\ row # None /\ row.table = c.kind /\ row.key = c.subject
        /\ row.refs = refs /\ row.seq = NextSeq
    BY <1>1, <2>3, RowKey DEF RowsInv
  <2>5. RowsTellEvents'
    BY <2>1, <2>4, <1>1, RowsTellKept DEF RowsInv
  <2>6. BenchTold'
    BY <1>1, <2>1, BenchToldKept DEF RowsInv
  <2>7. \A x, y \in artifacts : x.id = y.id \/ x.content = y.content => x = y
    BY DEF RowsInv, RefsResolve, OneOfEach
  <2>8. /\ artifacts \subseteq one /\ one \subseteq artifacts \cup {source}
        /\ \A x, y \in one : x.id = y.id \/ x.content = y.content => x = y
        /\ \A x \in one \ artifacts : ~Taken(artifacts, x)
        /\ source \in one \/ ~Taken(artifacts, source)
    BY <2>1, <2>7, RegisteredKeeps
  <2>9. /\ one \subseteq two /\ two \subseteq one \cup {bars}
        /\ \A x, y \in two : x.id = y.id \/ x.content = y.content => x = y
        /\ \A x \in two \ one : ~Taken(one, x)
        /\ bars \in two \/ ~Taken(one, bars)
    BY <2>1, <2>8, RegisteredKeeps
  <2>10. /\ two \subseteq three /\ three \subseteq two \cup {input}
         /\ \A x, y \in three : x.id = y.id \/ x.content = y.content => x = y
         /\ \A x \in three \ two : ~Taken(two, x)
         /\ input \in three \/ ~Taken(two, input)
    BY <2>1, <2>9, RegisteredKeeps
  <2>11. /\ artifacts \subseteq three
         /\ \A x \in three \ artifacts : ~Taken(artifacts, x)
    BY <2>8, <2>9, <2>10 DEF Taken
  <2>12. source \in three
    BY <1>1, <2>1, <2>2, <2>8, <2>9, <2>10, SourcesAreNamedByClients DEF Resolved, Taken
  <2>13. \E x \in three : x.id = bars.id /\ x.content = bars.content
    BY <1>1, <2>1, <2>2, <2>8, <2>9, <2>10 DEF Resolved, Taken
  <2>14. input \in three
    BY <2>1, <2>2, <2>10 DEF Resolved, Taken
  <2>15. ContentsOf(three, refs) = {source.content, bars.content, input.content}
    BY <2>10, <2>12, <2>13, <2>14 DEF ContentsOf
  <2>16. Meant(event) = {source.content, bars.content, input.content}
    BY <1>1, <2>2 DEF Meant
  <2>17. Meant(event) \subseteq blobs
    BY <1>1, <2>2, <2>16 DEF RowsInv, HandlersStored, Stored
  <2>18. OneOfEach'
    BY <2>1, <2>10 DEF OneOfEach
  <2>19. Resolved(artifacts', row.refs)
    BY <2>1, <2>4
  <2>20. ContentsOf(artifacts', row.refs) = Meant(event)
    BY <2>1, <2>4, <2>15, <2>16
  <2>21. TypeInv /\ RefsResolve
    BY DEF RowsInv
  <2>22. RefsResolve'
    BY <1>1, <2>1, <2>4, <2>11, <2>17, <2>18, <2>19, <2>20, <2>21, RefsResolveKept
  <2> QED
    BY <1>1, <2>1, <2>5, <2>6, <2>22, RecordRows
<1> QED
  BY <1>2, <1>3

LEMMA RowsNext == RowsInv /\ [Next]_vars => RowsInv'
<1> SUFFICES ASSUME RowsInv, [Next]_vars PROVE RowsInv'
  OBVIOUS
<1>1. TypeInv /\ HandlersOK /\ HandlersStored /\ TypeInv'
  BY TypeNext DEF RowsInv, TypeInv
<1>2. ASSUME NEW u \in Uploads, StoreBlob(u) PROVE RowsInv'
  <2>1. HandlersStored'
    BY <1>1, <1>2 DEF StoreBlob, HandlersStored, Stored
  <2> QED
    BY <1>1, <1>2, <2>1, QuietKeepsRows DEF StoreBlob
<1>3. ASSUME NEW h \in Handlers, NEW c \in Envelopes, Submit(h, c) PROVE RowsInv'
  <2> PICK me : me = [IdleHandler EXCEPT !.pc = FirstStep(c.kind), !.command = c]
    OBVIOUS
  <2>1. Stored(me)'
    BY EnvelopeShape DEF Stored, IdleHandler, FirstStep, Kinds
  <2>2. HandlersStored'
    BY <1>1, <1>3, <2>1, OneStored DEF Submit
  <2> QED
    BY <1>1, <1>3, <2>2, QuietKeepsRows DEF Submit
<1>4. CASE Stop
  <2>1. HandlersStored'
    BY <1>4 DEF Stop, IdleHandler, HandlersStored, Stored
  <2> QED
    BY <1>1, <1>4, <2>1, QuietKeepsRows DEF Stop
<1>5. CASE UNCHANGED vars
  BY <1>1, <1>5, QuietKeepsRows DEF vars, HandlersStored, Stored
<1>6. ASSUME NEW h \in Handlers, Respond(h) PROVE RowsInv'
  <2> PICK me : me = IdleHandler
    OBVIOUS
  <2>1. Stored(me)'
    BY DEF Stored, IdleHandler
  <2>2. HandlersStored'
    BY <1>1, <1>6, <2>1, OneStored DEF Respond
  <2> QED
    BY <1>1, <1>6, <2>2, QuietKeepsRows DEF Respond
<1>7. ASSUME NEW h \in Handlers, CheckForwardTest(h) PROVE RowsInv'
  <2>1. CASE Proceed(h, "replay", None) /\ UNCHANGED <<blobs, tables, answers, sends, stops>>
    <3>1. HandlersStored'
      BY <1>1, <2>1, ProceedStored
    <3> QED
      BY <1>1, <2>1, <3>1, QuietKeepsRows
  <2> QED
    BY <1>1, <1>7, <2>1, KnownRows, RefuseRows DEF CheckForwardTest
<1>8. ASSUME NEW h \in Handlers, ReplayForwardTest(h) PROVE RowsInv'
  <2>1. ASSUME NEW result \in {"passed", "failed"},
               blobs' = blobs \cup {Content(handlers[h].command.subject, result)},
               Proceed(h, "commit", result), UNCHANGED <<tables, answers, sends, stops>>
        PROVE  RowsInv'
    <3>1. handlers[h].command.kind = "forward"
      BY <1>1, <1>8 DEF ReplayForwardTest, HandlersOK, HandlerShape
    <3>2. HandlersStored'
      BY <1>1, <2>1, <3>1, ProceedStored
    <3> QED
      BY <1>1, <2>1, <3>2, QuietKeepsRows
  <2> QED
    BY <1>1, <1>8, <2>1, RefuseRows DEF ReplayForwardTest
<1>9. ASSUME NEW h \in Handlers, BuildSnapshot(h) PROVE RowsInv'
  <2> PICK c : c = handlers[h].command
    OBVIOUS
  <2>1. CASE /\ Content(c.upload, "source") \in blobs
             /\ blobs' = blobs \cup {Normalized(c)} /\ Proceed(h, "store", None)
             /\ UNCHANGED tables
    <3>1. HandlersStored'
      BY <1>1, <2>1, ProceedStored
    <3> QED
      BY <1>1, <2>1, <3>1, QuietKeepsRows
  <2> QED
    BY <1>1, <1>9, <2>1, RefuseRows DEF BuildSnapshot
<1>10. ASSUME NEW h \in Handlers, StoreMarketInput(h) PROVE RowsInv'
  <2> PICK c : c = handlers[h].command
    OBVIOUS
  <2>1. /\ blobs' = blobs \cup {MarketInput(c)} /\ Proceed(h, "commit", None)
        /\ UNCHANGED tables
    BY <1>10 DEF StoreMarketInput
  <2>2. c.kind = "snapshot" /\ {Content(c.upload, "source"), Normalized(c)} \subseteq blobs
    BY <1>1, <1>10 DEF StoreMarketInput, HandlersOK, HandlerShape, HandlersStored, Stored
  <2>3. HandlersStored'
    BY <1>1, <2>1, <2>2, ProceedStored
  <2> QED
    BY <1>1, <2>1, <2>3, QuietKeepsRows
<1>11. ASSUME NEW h \in Handlers, CommitKnown(h) PROVE RowsInv'
  BY <1>1, <1>11, KnownRows DEF CommitKnown
<1>12. ASSUME NEW h \in Handlers, Step(h) PROVE RowsInv'
  BY <1>1, <1>6, <1>7, <1>8, <1>9, <1>10, <1>11, <1>12, CaptureRows, MessageRows, BindRows,
     SnapshotRows, ForwardRows DEF Step, Commit
<1> QED
  BY <1>2, <1>3, <1>4, <1>5, <1>12 DEF Next

\* Every row that a command writes belongs to one event and every event of such a command
\* to one row, whatever is repeated (CommandLedger!RowsTellEvents).
THEOREM RowsAndEventsMatch == Spec => []RowsTellEvents
<1>1. RowsInv => RowsTellEvents
  BY DEF RowsInv
<1> QED
  BY RowsInit, RowsNext, <1>1, PTL DEF Spec

\* A workbench that is told is the one that BenchAt finds.
LEMMA BenchFound ==
    ASSUME NEW i \in Nat, NEW w, BenchIs(i, w)
    PROVE  w = BenchAt(i)
<1> DEFINE binds == BindsBefore(i)
<1>1. binds \subseteq Nat
  BY DEF BindsBefore
<1>2. CASE binds = {}
  BY <1>2 DEF BenchIs, BenchAt, BindsBefore
<1>3. ASSUME NEW k \in binds, \A j \in binds : j <= k, w = events[k].command.workbench
      PROVE  w = BenchAt(i)
  <2>1. k = CHOOSE l \in binds : \A j \in binds : j <= l
    <3>1. \A l \in binds : (\A j \in binds : j <= l) => l = k
      BY <1>1, <1>3
    <3> HIDE DEF binds
    <3> QED
      BY <1>3, <3>1
  <2>2. BenchAt(i) = events[CHOOSE l \in binds : \A j \in binds : j <= l].command.workbench
    BY Zenon DEF BenchAt, BindsBefore
  <2> QED
    BY <1>3, <2>1, <2>2
<1> QED
  BY <1>2, <1>3 DEF BenchIs

\* A message, a snapshot and a forward test are recorded in the session's workbench of
\* that moment, however late their command came (CommandLedger!InActiveWorkbench).
THEOREM RecordedInActiveWorkbench == Spec => []InActiveWorkbench
<1>1. RowsInv => InActiveWorkbench
  <2> SUFFICES ASSUME RowsInv, NEW i \in DOMAIN events,
                      events[i].command.kind \in {"message", "snapshot", "forward"}
               PROVE  events[i].command.workbench = BenchAt(i)
    BY DEF InActiveWorkbench
  <2>1. i \in Nat
    BY DEF RowsInv, TypeInv, TablesOK
  <2> QED
    BY <2>1, BenchFound DEF RowsInv, BenchTold
<1> QED
  BY RowsInit, RowsNext, <1>1, PTL DEF Spec

\* The artifacts a row names are exactly the bytes its command was about, whatever was
\* registered before and under whichever id, and only a captured upload may lack its
\* blob (CommandLedger!RowsResolve).
THEOREM RowsNameTheirBytes == Spec => []RowsResolve
<1>1. RowsInv => RowsResolve
  BY DEF RowsInv, RefsResolve, OneOfEach, ContentsOf, RowsResolve
<1> QED
  BY RowsInit, RowsNext, <1>1, PTL DEF Spec

-----------------------------------------------------------------------------
(* The two beside each other are what their own specifications say *)

HostProofs == INSTANCE StrategyHost_proofs

LEMMA SameHost ==
    /\ HostProofs!Init <=> Host!Init
    /\ HostProofs!Next <=> Host!Next
    /\ HostProofs!vars = hostVars
<1>1. HostProofs!Init <=> Host!Init
  BY DEF HostProofs!Init, Host!Init, HostProofs!OpenPipe, Host!OpenPipe
<1>2. HostProofs!Next <=> Host!Next
  BY
     DEF Host!OpenPipe, HostProofs!OpenPipe, Host!Reply, HostProofs!Reply, Host!Stray,
         HostProofs!Stray, Host!Waiting, HostProofs!Waiting, Host!Put, HostProofs!Put,
         Host!Taken, HostProofs!Taken, Host!Closed, HostProofs!Closed, Host!IsAnswer,
         HostProofs!IsAnswer, Host!MayGiveUp, HostProofs!MayGiveUp, Host!KnownAt,
         HostProofs!KnownAt, Host!EffectiveAt, HostProofs!EffectiveAt, Host!Stamped,
         HostProofs!Stamped, Host!Appendable, HostProofs!Appendable, Host!IsLast,
         HostProofs!IsLast, Host!Fail, HostProofs!Fail, Host!Send, HostProofs!Send, Host!Receive,
         HostProofs!Receive, Host!GiveUpWaiting, HostProofs!GiveUpWaiting, Host!CloseInput,
         HostProofs!CloseInput, Host!Join, HostProofs!Join, Host!CleanUp, HostProofs!CleanUp,
         Host!Parent, HostProofs!Parent, Host!Stop, HostProofs!Stop, Host!ReadRequest,
         HostProofs!ReadRequest, Host!ReadEnd, HostProofs!ReadEnd, Host!ReadReply,
         HostProofs!ReadReply, Host!GiveUpCall, HostProofs!GiveUpCall, Host!SendReply,
         HostProofs!SendReply, Host!CheckQuiet, HostProofs!CheckQuiet, Host!CloseCallback,
         HostProofs!CloseCallback, Host!Reaped, HostProofs!Reaped, Host!Reap, HostProofs!Reap,
         Host!Broker, HostProofs!Broker, Host!Leave, HostProofs!Leave, Host!Ready,
         HostProofs!Ready, Host!ReadFrame, HostProofs!ReadFrame, Host!ReadFrameEnd,
         HostProofs!ReadFrameEnd, Host!Await, HostProofs!Await, Host!GiveUpAwait,
         HostProofs!GiveUpAwait, Host!EndCallback, HostProofs!EndCallback, Host!Callback,
         HostProofs!Callback, Host!Runs, HostProofs!Runs, Host!Load, HostProofs!Load,
         Host!AnswerRequest, HostProofs!AnswerRequest, Host!Raise, HostProofs!Raise,
         Host!WriteStray, HostProofs!WriteStray, Host!Strategy, HostProofs!Strategy, Host!Next,
         HostProofs!Next, Host!others, HostProofs!others, Host!above, HostProofs!above,
         Host!below, HostProofs!below
<1> QED
  BY <1>1, <1>2 DEF HostProofs!vars, hostVars

LEMMA SameConstants == HostProofs!Constants
BY HostConstants DEF Host!Constants, HostProofs!Constants, Host!Intents, HostProofs!Intents

\* Seen alone, the host is a host.
LEMMA HostKept == LedgerAndHostSpec => HostProofs!Spec
<1>1. LedgerAndHostInit => HostProofs!Init
  BY SameHost DEF LedgerAndHostInit
<1>2. [LedgerAndHostNext]_<<part, vars, hostVars>> => [HostProofs!Next]_HostProofs!vars
  <2>1. HostProofs!Next <=> Host!Next
    BY SameHost
  <2> QED
    BY <2>1 DEF LedgerAndHostNext, HostProofs!vars, hostVars
<1> QED
  BY <1>1, <1>2, PTL DEF LedgerAndHostSpec, HostProofs!Spec

\* And the ledger a ledger.
LEMMA LedgerKept == LedgerAndHostSpec => Spec
<1>1. LedgerAndHostInit => Init
  BY DEF LedgerAndHostInit
<1>2. [LedgerAndHostNext]_<<part, vars, hostVars>> => [Next]_vars
  BY DEF LedgerAndHostNext
<1> QED
  BY <1>1, <1>2, PTL DEF LedgerAndHostSpec, Spec

-----------------------------------------------------------------------------
(* Theorems *)

\* The tape is what the strategy answered, in the order in which it was asked, for any
\* bars, answers, stray lines and timeouts.
THEOREM AnswersAreTheTape == LedgerAndHostSpec => []TapeIsAnswers
<1>1. HostProofs!TapeIsAnswers => TapeIsAnswers
  BY DEF TapeIsAnswers, Host!TapeIsAnswers, HostProofs!TapeIsAnswers, Host!Stamped,
         HostProofs!Stamped, Host!KnownAt, HostProofs!KnownAt, Host!EffectiveAt,
         HostProofs!EffectiveAt, Host!FlattenSeq, HostProofs!FlattenSeq
<1>2. HostProofs!Spec => []HostProofs!TapeIsAnswers
  BY SameConstants, HostProofs!AnswersAreTheTape
<1> QED
  BY <1>1, <1>2, HostKept, PTL

\* What the engine accepts was decided without knowledge of the future.
THEOREM NothingIsForeseen == LedgerAndHostSpec => []NoLookAhead
<1>1. HostProofs!NoLookAhead => NoLookAhead
  BY DEF NoLookAhead, Host!NoLookAhead, HostProofs!NoLookAhead, Host!EngineAccepts,
         HostProofs!EngineAccepts, Host!InOrder, HostProofs!InOrder, Host!Contains,
         HostProofs!Contains, Host!ToSet, HostProofs!ToSet
<1>2. HostProofs!Spec => []HostProofs!NoLookAhead
  BY SameConstants, HostProofs!NothingIsForeseen
<1> QED
  BY <1>1, <1>2, HostKept, PTL

\* Both are well-typed, for any number of handlers, envelopes, bars and faults.
THEOREM LedgerAndHostTyped == LedgerAndHostSpec => []LedgerAndHostTypeOK
<1>1. HostProofs!TypeOK => Host!TypeOK
  BY DEF Host!TypeOK, HostProofs!TypeOK, Host!Requests, HostProofs!Requests, Host!Tape,
         HostProofs!Tape, Host!Replies, HostProofs!Replies, Host!Intents, HostProofs!Intents
<1>2. HostProofs!Spec => []HostProofs!TypeOK
  BY SameConstants, HostProofs!HostTypeOK
<1> QED
  BY <1>1, <1>2, TypeCorrect, HostKept, LedgerKept, PTL DEF LedgerAndHostTypeOK
===========================================================================
