----------------------------- MODULE SessionFabric -----------------------------
(***************************************************************************)
(* Messages between the agent sessions of one activity.  The service keeps *)
(* sessions, messages, receipts and events (domain.py:2576-3362 and        *)
(* 5864-5984); the control plane delivers a queued message into the        *)
(* journal of the receiving Pi session and moves the receipt on            *)
(* (session-fabric.ts, session-registry.ts, pi-session-adapter.ts).        *)
(*                                                                         *)
(* A command or query of the service is one step.  The control plane is    *)
(* asynchronous: a task runs from one await to the next, and the service,  *)
(* Pi and the other tasks move in between.  A request or its response may  *)
(* be lost, and the control plane may stop; journals and database remain.  *)
(***************************************************************************)
EXTENDS Naturals, Sequences, FiniteSets

CONSTANTS
    Sessions,     \* session_id values
    Messages,     \* message_id values clients may use
    Kinds,        \* the kinds of message that clients send
    Workbenches,  \* workbench_id values
    Home,         \* the workbench a session is registered with
    Tasks,        \* concurrent tool calls and deliveries of the control plane
    Reader,       \* the task that reads the event stream
    MaxObjects,   \* bound: sessions registered and messages sent, together
    MaxBinds,     \* bound: changes of workbench
    MaxFaults,    \* bound: lost requests, lost responses, aborted turns, stops
    MaxPage,      \* the largest limit of an inbox query (100)
    None          \* SQL NULL, a row or map entry that does not exist

ReceiptStates == {"queued", "receiver_received", "injected", "acknowledged"}

Message ==
    [from : Sessions, to : Sessions, kind : {"send", "ask", "reply"},
     reply_to : Messages \cup {None}]

Receipt == [state : ReceiptStates, version : 0..3]

\* A message as inbox() and message() return it, and its place in the stream.
Summary == [seq : Nat, message : Messages, state : ReceiptStates, version : 0..3]

Task ==
    [pc : {"idle", "receive", "check", "inject", "follow", "send", "wait", "confirm", "mark",
           "acknowledge", "bind", "bound"},
     session : Sessions \cup {None}, message : Messages \cup {None}, version : 0..3,
     workbench : Workbenches \cup {None}, rest : SUBSET Summary]

ASSUME KindsOfMessages == Kinds \subseteq {"send", "ask", "reply"}
ASSUME HomeIsAWorkbench == Home \in Workbenches
ASSUME ReaderIsATask == Reader \in Tasks
ASSUME NoneIsNothing ==
    None \notin Sessions \cup Messages \cup Workbenches \cup Message \cup Receipt
ASSUME Bounds == MaxObjects \in Nat /\ MaxBinds \in Nat /\ MaxFaults \in Nat
ASSUME PagesHaveAMessage == MaxPage \in Nat \ {0}

VARIABLES
    bound,      \* workbench_bindings with is_active = 1, None before registration
    messages,   \* session_messages
    receipts,   \* message_receipts
    events,     \* domain_events in stream_seq order
    registry,   \* SessionRegistry: the active workbench of each live session
    journal,    \* Pi JSONL: structured markers of each message in each session
    followups,  \* messages Pi holds back until the turn of the session ends
    streaming,  \* sessions whose agent is in a turn
    injecting,  \* #injectionPromises of each session's adapter
    tasks,      \* the asynchronous tasks
    reader,     \* the cursor of the event stream and the batch being handled
    offline,    \* messages the reader passed over: their session was not live
    binds, faults

service == <<bound, messages, receipts, events>>
pi == <<journal, followups, streaming>>
vars == <<service, registry, pi, injecting, tasks, reader, offline, binds, faults>>

States == <<"queued", "receiver_received", "injected", "acknowledged">>

Event(type, subject) == [type |-> type, subject |-> subject]

\* What a delivery looks at of the message whose queued event is the i-th.
Snapshot(i) ==
    LET m == events[i].subject IN
    [seq |-> i, message |-> m, state |-> receipts[m].state, version |-> receipts[m].version]

IdleTask ==
    [pc |-> "idle", session |-> None, message |-> None, version |-> 0,
     workbench |-> None, rest |-> {}]

Init ==
    /\ bound = [s \in Sessions |-> None]
    /\ messages = [m \in Messages |-> None]
    /\ receipts = [m \in Messages |-> None]
    /\ events = <<>>
    /\ registry = [s \in Sessions |-> None]
    /\ journal = [s \in Sessions |-> [m \in Messages |-> 0]]
    /\ followups = [s \in Sessions |-> {}]
    /\ streaming = {}
    /\ injecting = [s \in Sessions |-> {}]
    /\ tasks = [t \in Tasks |-> IdleTask]
    /\ reader = [cursor |-> 0, handled |-> 0, end |-> 0]
    /\ offline = {}
    /\ binds = 0
    /\ faults = 0

-----------------------------------------------------------------------------
(* The service *)

RoomForObject ==
    Cardinality({s \in Sessions : bound[s] # None})
        + Cardinality({m \in Messages : messages[m] # None}) < MaxObjects

\* session.register; a session_id is registered once.
Register(s) ==
    /\ bound[s] = None
    /\ RoomForObject
    /\ bound' = [bound EXCEPT ![s] = Home]
    /\ events' = Append(events, Event("registered", s))
    /\ UNCHANGED <<messages, receipts, registry, pi, injecting, tasks, reader, offline,
                   binds, faults>>

\* The ask that a reply answers was sent to the replier by the reply's recipient.
Answers(parent, from, to) ==
    /\ messages[parent] # None
    /\ messages[parent].kind = "ask"
    /\ messages[parent].to = from
    /\ messages[parent].from = to

\* session.message_send and session.message_reply of a client that names the
\* sender's active workbench; the foreign key wants a registered recipient.
QueueMessage(m, from, to, kind, parent) ==
    /\ messages[m] = None
    /\ RoomForObject
    /\ bound[from] # None /\ bound[to] # None
    /\ IF kind = "reply" THEN parent # None /\ Answers(parent, from, to) ELSE parent = None
    /\ messages' = [messages EXCEPT
           ![m] = [from |-> from, to |-> to, kind |-> kind, reply_to |-> parent]]
    /\ receipts' = [receipts EXCEPT ![m] = [state |-> "queued", version |-> 0]]
    /\ events' = Append(events, Event("queued", m))
    /\ UNCHANGED <<bound, registry, pi, injecting, tasks, reader, offline, binds, faults>>

\* The state a receipt must have for the command a task is about to send.
Required(pc) ==
    CASE pc = "receive" -> 1
      [] pc = "mark" -> 2
      [] pc = "acknowledge" -> 3

\* Fault: neither the state nor the version of the receipt is compared.
TransitionAllowedStale(task) ==
    /\ bound[task.session] = task.workbench
    /\ messages[task.message].to = task.session

\* _transition_message_receipt accepts the command.
TransitionAllowed(task) ==
    /\ bound[task.session] = task.workbench
    /\ messages[task.message].to = task.session
    /\ receipts[task.message] = [state |-> States[Required(task.pc)], version |-> task.version]

\* What the service commits for an accepted transition.
Transition(task) ==
    LET next == States[Required(task.pc) + 1] IN
    /\ receipts' = [receipts EXCEPT
           ![task.message] = [state |-> next, version |-> task.version + 1]]
    /\ events' = Append(events, Event(next, task.message))
    /\ UNCHANGED <<bound, messages>>

-----------------------------------------------------------------------------
(* What becomes of a task *)

\* Fault: a delivery that broke off after message_receive is not taken up again.
UndeliveredQueued(snapshot) == snapshot.state = "queued"

Undelivered(snapshot) == snapshot.state \in {"queued", "receiver_received"}

\* deliverOne up to its first await: the transition it sends names the
\* registry's workbench of this moment.
StartDelivery(task, snapshot, rest) ==
    [task EXCEPT
        !.pc = IF snapshot.state = "queued" THEN "receive" ELSE "check",
        !.message = snapshot.message,
        !.version = snapshot.version,
        !.workbench = registry[task.session],
        !.rest = rest]

\* deliverMessages goes on to the next message in stream order that is not injected yet.
NextDelivery(task) ==
    LET todo == {x \in task.rest : Undelivered(x)}
        first == CHOOSE x \in todo : \A y \in todo : x.seq <= y.seq
    IN
    IF todo = {} THEN IdleTask ELSE StartDelivery(task, first, todo \ {first})

\* Fault: the cursor is set to the sequence number after the event's.
HandledBeyond == [reader EXCEPT !.handled = @ + 2]

\* The event is acknowledged when its callback has ended.
Handled == [reader EXCEPT !.handled = @ + 1]

Settle(t) ==
    /\ tasks' = [tasks EXCEPT ![t] = NextDelivery(@)]
    /\ reader' = IF t = Reader THEN Handled ELSE reader

\* Fault: an event is acknowledged before its callback, not after it.
GivenUpPastEvent ==
    [cursor |-> reader.handled + 1, handled |-> reader.handled + 1, end |-> reader.handled + 1]

\* A read that throws returns nothing: its caller still has the cursor it passed.
GivenUp == [reader EXCEPT !.handled = reader.cursor, !.end = reader.cursor]

\* The promises of the tasks in failed are rejected.
FailAll(failed) ==
    /\ tasks' = [t \in Tasks |-> IF t \in failed THEN IdleTask ELSE tasks[t]]
    /\ reader' = IF Reader \in failed THEN GivenUp ELSE reader

Fail(t) == FailAll({t})

\* The next request of the task is mark_injected.
Marking(task) == [task EXCEPT !.pc = "mark", !.workbench = registry[task.session]]

-----------------------------------------------------------------------------
(* Tasks that begin *)

\* Open an adapter on the session's journal and register it.
Open(s) ==
    /\ registry[s] = None
    /\ registry' = [registry EXCEPT ![s] = Home]
    /\ UNCHANGED <<service, pi, injecting, tasks, reader, offline, binds, faults>>

\* A page of the inbox of a session, whatever the receipts say: the first messages, limit
\* of them at most, that were queued after a place in the stream.
Inbox(s, after, limit) ==
    LET queued == {i \in DOMAIN events : /\ i > after
                                         /\ events[i].type = "queued"
                                         /\ messages[events[i].subject].to = s}
    IN {Snapshot(i) : i \in {i \in queued : Cardinality({k \in queued : k <= i}) <= limit}}

\* deliver, or pull with deliver: all messages of the page that the caller asks for are
\* looked at before the first is delivered.
Deliver(t, s, after, limit) ==
    /\ t # Reader /\ tasks[t].pc = "idle"
    /\ registry[s] # None
    /\ LET task == NextDelivery([IdleTask EXCEPT !.session = s,
                                                !.rest = Inbox(s, after, limit)]) IN
       /\ task # IdleTask
       /\ tasks' = [tasks EXCEPT ![t] = task]
    /\ UNCHANGED <<service, registry, pi, injecting, reader, offline, binds, faults>>

\* acknowledge: the message is read, then the command is sent.
Acknowledge(t, m) ==
    /\ t # Reader /\ tasks[t].pc = "idle"
    /\ messages[m] # None
    /\ registry[messages[m].to] # None
    /\ receipts[m].state = "injected"
    /\ tasks' = [tasks EXCEPT
           ![t] = [IdleTask EXCEPT
                       !.pc = "acknowledge",
                       !.session = messages[m].to,
                       !.message = m,
                       !.version = receipts[m].version,
                       !.workbench = registry[messages[m].to]]]
    /\ UNCHANGED <<service, registry, pi, injecting, reader, offline, binds, faults>>

\* bindWorkbench up to its request.
Bind(t, s, w) ==
    /\ t # Reader /\ tasks[t].pc = "idle"
    /\ registry[s] # None /\ binds < MaxBinds
    /\ tasks' = [tasks EXCEPT
           ![t] = [IdleTask EXCEPT !.pc = "bind", !.session = s, !.workbench = w]]
    /\ binds' = binds + 1
    /\ UNCHANGED <<service, registry, pi, injecting, reader, offline, faults>>

\* readEvents asks for what follows its cursor; the response ends with the first
\* batch that is not empty.
Read ==
    /\ tasks[Reader].pc = "idle"
    /\ reader.handled = reader.end
    /\ Len(events) > reader.end
    /\ reader' = [cursor |-> reader.end, handled |-> reader.end, end |-> Len(events)]
    /\ UNCHANGED <<service, registry, pi, injecting, tasks, offline, binds, faults>>

\* The callback on the next event of the batch: a queued message of a live
\* session is fetched again and delivered.
HandleEvent ==
    LET event == events[reader.handled + 1]
        m == event.subject
        snapshot == Snapshot(reader.handled + 1)
    IN
    /\ tasks[Reader].pc = "idle"
    /\ reader.handled < reader.end
    /\ IF event.type = "queued" /\ registry[messages[m].to] # None /\ Undelivered(snapshot)
         THEN /\ tasks' = [tasks EXCEPT
                    ![Reader] = StartDelivery(
                        [IdleTask EXCEPT !.session = messages[m].to], snapshot, {})]
              /\ UNCHANGED <<reader, offline>>
         ELSE /\ reader' = Handled
              /\ offline' = IF event.type = "queued" /\ registry[messages[m].to] = None
                              THEN offline \cup {m} ELSE offline
              /\ UNCHANGED tasks
    /\ UNCHANGED <<service, registry, pi, injecting, binds, faults>>

-----------------------------------------------------------------------------
(* A delivery, from one await to the next *)

\* The response to message_receive arrives, and deliverOne goes on.
Receive(t) ==
    /\ tasks[t].pc = "receive"
    /\ TransitionAllowed(tasks[t])
    /\ Transition(tasks[t])
    /\ tasks' = [tasks EXCEPT ![t].pc = "check", ![t].version = @ + 1]
    /\ UNCHANGED <<registry, pi, injecting, reader, offline, binds, faults>>

\* hasMessageMarker of the journal, after the body has been fetched.
Check(t) ==
    LET task == tasks[t] IN
    /\ task.pc = "check"
    /\ tasks' = [tasks EXCEPT
           ![t] = IF journal[task.session][task.message] > 0
                    THEN Marking(task) ELSE [task EXCEPT !.pc = "inject"]]
    /\ UNCHANGED <<service, registry, pi, injecting, reader, offline, binds, faults>>

\* Fault: an injection in flight is not looked for.
InFlightUnchecked(s, m) == FALSE

InFlight(s, m) == m \in injecting[s]

\* injectOnce looks for the marker itself.
Marked(s, m) == journal[s][m] > 0

\* #inject: wait for an injection in flight, or be the one that makes it.
Inject(t) ==
    LET task == tasks[t]
        s == task.session
        m == task.message
    IN
    /\ task.pc = "inject"
    /\ CASE InFlight(s, m) ->
              /\ tasks' = [tasks EXCEPT ![t].pc = "follow"]
              /\ UNCHANGED injecting
         [] ~InFlight(s, m) /\ Marked(s, m) ->
              /\ tasks' = [tasks EXCEPT ![t] = Marking(task)]
              /\ UNCHANGED injecting
         [] OTHER ->
              /\ tasks' = [tasks EXCEPT ![t].pc = "send"]
              /\ injecting' = [injecting EXCEPT ![s] = @ \cup {m}]
    /\ UNCHANGED <<service, registry, pi, reader, offline, binds, faults>>

\* sendCustomMessage: the entry is written at once, or after the agent's turn.
Send(t) ==
    LET task == tasks[t]
        s == task.session
        m == task.message
    IN
    /\ task.pc = "send"
    /\ IF s \in streaming
         THEN /\ followups' = [followups EXCEPT ![s] = @ \cup {m}]
              /\ tasks' = [tasks EXCEPT ![t].pc = "wait"]
              /\ UNCHANGED journal
         ELSE /\ journal' = [journal EXCEPT ![s][m] = @ + 1]
              /\ tasks' = [tasks EXCEPT ![t].pc = "confirm"]
              /\ UNCHANGED followups
    /\ UNCHANGED <<service, streaming, registry, injecting, reader, offline, binds, faults>>

\* The tasks that wait for the injection that task t makes.
Followers(t) ==
    {u \in Tasks : /\ tasks[u].pc = "follow"
                   /\ tasks[u].session = tasks[t].session
                   /\ tasks[u].message = tasks[t].message}

\* Fault: the journal is not read again after the turn.
JournaledUnchecked(s, m) == TRUE

\* The journal has the marker now.
Journaled(s, m) == journal[s][m] > 0

\* The end of injectOnce settles the promise that the followers wait for.
Confirm(t) ==
    LET task == tasks[t]
        s == task.session
        m == task.message
        waiting == {t} \cup Followers(t)
    IN
    /\ task.pc = "confirm"
    /\ injecting' = [injecting EXCEPT ![s] = @ \ {m}]
    /\ IF Journaled(s, m)
         THEN /\ tasks' = [u \in Tasks |->
                              IF u \in waiting THEN Marking(tasks[u]) ELSE tasks[u]]
              /\ UNCHANGED reader
         ELSE FailAll(waiting)
    /\ UNCHANGED <<service, registry, pi, offline, binds, faults>>

\* The last command of a delivery, or of acknowledge, is accepted.
MarkOrAcknowledge(t) ==
    /\ tasks[t].pc \in {"mark", "acknowledge"}
    /\ TransitionAllowed(tasks[t])
    /\ Transition(tasks[t])
    /\ Settle(t)
    /\ UNCHANGED <<registry, pi, injecting, offline, binds, faults>>

\* The service refuses the command and the task throws.
Refused(t) ==
    /\ tasks[t].pc \in {"receive", "mark", "acknowledge"}
    /\ ~TransitionAllowed(tasks[t])
    /\ Fail(t)
    /\ UNCHANGED <<service, registry, pi, injecting, offline, binds, faults>>

\* session.workbench_bind replaces the active binding.
CommitBind(t) ==
    LET s == tasks[t].session IN
    /\ tasks[t].pc = "bind"
    /\ IF bound[s] = None
         THEN Fail(t) /\ UNCHANGED service
         ELSE /\ bound' = [bound EXCEPT ![s] = tasks[t].workbench]
              /\ events' = Append(events, Event("bound", s))
              /\ tasks' = [tasks EXCEPT ![t].pc = "bound"]
              /\ UNCHANGED <<messages, receipts, reader>>
    /\ UNCHANGED <<registry, pi, injecting, offline, binds, faults>>

\* The response of the bind activates the workbench in the registry.
Activate(t) ==
    /\ tasks[t].pc = "bound"
    /\ registry' = [registry EXCEPT ![tasks[t].session] = tasks[t].workbench]
    /\ tasks' = [tasks EXCEPT ![t] = IdleTask]
    /\ UNCHANGED <<service, pi, injecting, reader, offline, binds, faults>>

-----------------------------------------------------------------------------
(* The agent, and what goes wrong *)

BeginTurn(s) ==
    /\ registry[s] # None /\ s \notin streaming
    /\ streaming' = streaming \cup {s}
    /\ UNCHANGED <<service, journal, followups, registry, injecting, tasks, reader, offline,
                   binds, faults>>

\* A turn ends when Pi has written what it held back, and whoever waits for it goes on.
EndTurn(s) ==
    /\ s \in streaming
    /\ streaming' = streaming \ {s}
    /\ journal' = [journal EXCEPT
           ![s] = [m \in Messages |-> IF m \in followups[s] THEN @[m] + 1 ELSE @[m]]]
    /\ followups' = [followups EXCEPT ![s] = {}]
    /\ tasks' = [t \in Tasks |->
           IF tasks[t].pc = "wait" /\ tasks[t].session = s
             THEN [tasks[t] EXCEPT !.pc = "confirm"] ELSE tasks[t]]
    /\ UNCHANGED <<service, registry, injecting, reader, offline, binds, faults>>

Fault == faults < MaxFaults /\ faults' = faults + 1

\* A turn is aborted and Pi drops what it held back.
AbortTurn(s) ==
    /\ Fault
    /\ s \in streaming
    /\ streaming' = streaming \ {s}
    /\ followups' = [followups EXCEPT ![s] = {}]
    /\ tasks' = [t \in Tasks |->
           IF tasks[t].pc = "wait" /\ tasks[t].session = s
             THEN [tasks[t] EXCEPT !.pc = "confirm"] ELSE tasks[t]]
    /\ UNCHANGED <<service, journal, registry, injecting, reader, offline, binds>>

\* A request, or the response to a query, is lost, and the task throws.
LoseRequest(t) ==
    /\ Fault
    /\ tasks[t].pc \in {"receive", "check", "mark", "acknowledge", "bind", "bound"}
    /\ Fail(t)
    /\ UNCHANGED <<service, registry, pi, injecting, offline, binds>>

\* The service commits a transition, and the response is lost.
LoseResponse(t) ==
    /\ Fault
    /\ tasks[t].pc \in {"receive", "mark", "acknowledge"}
    /\ TransitionAllowed(tasks[t])
    /\ Transition(tasks[t])
    /\ Fail(t)
    /\ UNCHANGED <<registry, pi, injecting, offline, binds>>

\* The stream breaks, or the message of an event cannot be fetched.
BreakStream ==
    /\ Fault
    /\ tasks[Reader].pc = "idle" /\ reader.handled < reader.end
    /\ Fail(Reader)
    /\ UNCHANGED <<service, registry, pi, injecting, offline, binds>>

\* The control plane stops; no cursor is kept, so the next reader starts at the beginning.
Stop ==
    /\ Fault
    /\ registry' = [s \in Sessions |-> None]
    /\ followups' = [s \in Sessions |-> {}]
    /\ streaming' = {}
    /\ injecting' = [s \in Sessions |-> {}]
    /\ tasks' = [t \in Tasks |-> IdleTask]
    /\ reader' = [cursor |-> 0, handled |-> 0, end |-> 0]
    /\ offline' = {}
    /\ UNCHANGED <<service, journal, binds>>

-----------------------------------------------------------------------------
Advance(t) ==
    \/ Receive(t) \/ Check(t) \/ Inject(t) \/ Send(t) \/ Confirm(t)
    \/ MarkOrAcknowledge(t) \/ Refused(t) \/ CommitBind(t) \/ Activate(t)

Next ==
    \/ \E s \in Sessions : Register(s) \/ Open(s) \/ BeginTurn(s) \/ EndTurn(s) \/ AbortTurn(s)
    \/ \E m \in Messages, from, to \in Sessions, kind \in Kinds,
          parent \in Messages \cup {None} : QueueMessage(m, from, to, kind, parent)
    \/ \E t \in Tasks, s \in Sessions, after \in 0..Len(events), limit \in 1..MaxPage :
          Deliver(t, s, after, limit)
    \/ \E t \in Tasks, m \in Messages : Acknowledge(t, m)
    \/ \E t \in Tasks, s \in Sessions, w \in Workbenches : Bind(t, s, w)
    \/ Read \/ HandleEvent
    \/ \E t \in Tasks : Advance(t) \/ LoseRequest(t) \/ LoseResponse(t)
    \/ BreakStream \/ Stop

Spec == Init /\ [][Next]_vars

\* Tasks and readers run on, a session that is not live is opened, turns end.
FairSpec ==
    /\ Spec
    /\ \A t \in Tasks : WF_vars(Advance(t))
    /\ \A s \in Sessions : WF_vars(Open(s)) /\ WF_vars(EndTurn(s))
    /\ WF_vars(Read) /\ WF_vars(HandleEvent)

-----------------------------------------------------------------------------
(* Properties *)

\* Every variable holds what the code can put there; a reader is inside its batch
\* and a batch inside the log.
TypeOK ==
    /\ bound \in [Sessions -> Workbenches \cup {None}]
    /\ messages \in [Messages -> Message \cup {None}]
    /\ receipts \in [Messages -> Receipt \cup {None}]
    /\ events \in Seq([type : ReceiptStates \cup {"registered", "bound"},
                       subject : Sessions \cup Messages])
    /\ registry \in [Sessions -> Workbenches \cup {None}]
    /\ journal \in [Sessions -> [Messages -> Nat]]
    /\ followups \in [Sessions -> SUBSET Messages]
    /\ streaming \subseteq Sessions
    /\ injecting \in [Sessions -> SUBSET Messages]
    /\ tasks \in [Tasks -> Task]
    /\ \A t \in Tasks : tasks[t].pc # "idle" => tasks[t].session # None /\ tasks[t].workbench # None
    /\ reader \in [cursor : Nat, handled : Nat, end : Nat]
    /\ reader.cursor <= reader.handled /\ reader.handled <= reader.end
    /\ reader.end <= Len(events)
    /\ offline \subseteq Messages
    /\ binds \in 0..MaxBinds /\ faults \in 0..MaxFaults

Settled(m) == receipts[m] # None /\ receipts[m].state \in {"injected", "acknowledged"}

\* A message stands at most once in a journal, and only in its recipient's, although
\* several tasks deliver it, Pi holds it back during a turn, and a delivery is begun
\* again after a loss or a stop; and a receipt that says injected is backed by the
\* journal, for no mark is sent for an injection that failed
\* (pi-session-adapter.ts #inject and #injectOnce, session-fabric.ts #deliverOne).
InjectedOnce ==
    \A s \in Sessions, m \in Messages :
        /\ journal[s][m] > 0 => journal[s][m] = 1 /\ messages[m].to = s
        /\ Settled(m) /\ messages[m].to = s => journal[s][m] = 1

\* The events of a message tell each state of its receipt once and in order: no task
\* moves a receipt from a state that another task has already left.
EventsTellReceipt ==
    \A m \in Messages :
        LET told == {i \in DOMAIN events :
                        events[i].type \in ReceiptStates /\ events[i].subject = m}
        IN
        IF receipts[m] = None
          THEN told = {}
          ELSE /\ receipts[m].state = States[receipts[m].version + 1]
               /\ {events[i].type : i \in told} = {States[k] : k \in 1..(receipts[m].version + 1)}
               /\ \A i, j \in told : i < j =>
                     \E k, l \in 1..4 : k < l /\ events[i].type = States[k]
                                           /\ events[j].type = States[l]

\* What the reader has put behind it is delivered, or was for a session that was not
\* live: no failed delivery is ever acknowledged (domain-event-stream-client.ts read).
NothingPassedOver ==
    \A i \in 1..reader.handled :
        LET m == events[i].subject IN
        events[i].type = "queued" => Settled(m) \/ m \in offline

\* The registry would name a workbench that the service refuses.
OutOfStep(s) == registry[s] # None /\ bound[s] # None /\ registry[s] # bound[s]

\* Every queued message is injected in the end, unless the reader passed it over while
\* its session was not live, or some session's workbench stays out of step: the reader
\* handles events in order, and one refused delivery holds up all that follow.
Delivered ==
    \A m \in Messages :
        receipts[m] # None ~>
            \/ Settled(m)
            \/ m \in offline
            \/ [](\E s \in Sessions : OutOfStep(s))

\* docs/03_SESSION_FABRIC.md:10 says that tool calls carry the current workbench.  The
\* registry, which names the workbench of a call, would have to agree with the service
\* whenever no bind is on its way (session-fabric.ts bindWorkbench).
CurrentWorkbench ==
    (\A t \in Tasks : tasks[t].pc \notin {"bind", "bound"}) => \A s \in Sessions : ~OutOfStep(s)
=============================================================================
