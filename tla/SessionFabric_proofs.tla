------------------------- MODULE SessionFabric_proofs --------------------------
(***************************************************************************)
(* Theorems about SessionFabric, for any number of sessions, messages,     *)
(* workbenches and tasks, and any number of objects, binds and faults.     *)
(***************************************************************************)
EXTENDS SessionFabric, SequenceTheorems, WellFoundedInduction, TLAPS

-----------------------------------------------------------------------------
(* Type correctness *)

EventRows ==
    [type : ReceiptStates \cup {"registered", "bound"}, subject : Sessions \cup Messages]

\* A message that was sent to this session.
ToSession(m, s) == messages[m] # None /\ messages[m].to = s

\* A receipt stands beside each message, its version counts its transitions, and an
\* event about a message is about one that was sent.
ServiceOK ==
    /\ bound \in [Sessions -> Workbenches \cup {None}]
    /\ messages \in [Messages -> Message \cup {None}]
    /\ receipts \in [Messages -> Receipt \cup {None}]
    /\ events \in Seq(EventRows)
    /\ \A m \in Messages :
          /\ messages[m] = None <=> receipts[m] = None
          /\ receipts[m] # None => receipts[m].state = States[receipts[m].version + 1]
    /\ \A i \in DOMAIN events : events[i].type \in ReceiptStates =>
          events[i].subject \in Messages /\ messages[events[i].subject] # None

ControlOK ==
    /\ registry \in [Sessions -> Workbenches \cup {None}]
    /\ journal \in [Sessions -> [Messages -> Nat]]
    /\ followups \in [Sessions -> SUBSET Messages]
    /\ streaming \subseteq Sessions
    /\ injecting \in [Sessions -> SUBSET Messages]
    /\ offline \subseteq Messages
    /\ binds \in 0..MaxBinds /\ faults \in 0..MaxFaults

MessagePcs ==
    {"receive", "check", "inject", "follow", "send", "wait", "confirm", "mark", "acknowledge"}

\* A task that has begun is about a live session, and its messages are that session's.
TaskOK(me) ==
    /\ me \in Task
    /\ me.pc # "idle" =>
          me.session \in Sessions /\ me.workbench \in Workbenches /\ registry[me.session] # None
    /\ me.pc \in MessagePcs => me.message \in Messages /\ ToSession(me.message, me.session)
    /\ \A x \in me.rest : ToSession(x.message, me.session)

TasksOK ==
    /\ tasks = [t \in Tasks |-> tasks[t]]
    /\ \A t \in Tasks : TaskOK(tasks[t])

\* The reader has one message at a time, and its event is not behind it yet.
ReaderOK ==
    /\ reader \in [cursor : Nat, handled : Nat, end : Nat]
    /\ reader.cursor <= reader.handled /\ reader.handled <= reader.end
    /\ reader.end <= Len(events)
    /\ tasks[Reader].rest = {}
    /\ tasks[Reader].pc # "idle" => reader.handled < reader.end

TypeInv == ServiceOK /\ ControlOK /\ TasksOK /\ ReaderOK

LEMMA TypeInvTypes == TypeInv => TypeOK
<1> SUFFICES ASSUME TypeInv PROVE TypeOK
  OBVIOUS
<1>1. tasks \in [Tasks -> Task]
  BY DEF TypeInv, TasksOK, TaskOK
<1>2. \A t \in Tasks : tasks[t].pc # "idle" => tasks[t].session # None /\ tasks[t].workbench # None
  BY NoneIsNothing DEF TypeInv, TasksOK, TaskOK
<1> QED
  BY <1>1, <1>2 DEF TypeInv, TypeOK, ServiceOK, ControlOK, ReaderOK, EventRows

LEMMA StatesAre ==
    /\ States[1] = "queued" /\ States[2] = "receiver_received"
    /\ States[3] = "injected" /\ States[4] = "acknowledged"
BY DEF States

\* What is sent stays sent, and what is live stays live but for a stop.
Grown ==
    /\ \A m \in Messages : messages[m] # None => messages'[m] = messages[m]
    /\ \A s \in Sessions : registry[s] # None => registry'[s] # None

LEMMA TaskStays ==
    ASSUME Grown, NEW me, TaskOK(me)
    PROVE  TaskOK(me)'
<1>1. \A x \in me.rest : x.message \in Messages
  BY DEF TaskOK, Task, Summary
<1> QED
  BY <1>1 DEF Grown, TaskOK, ToSession

LEMMA IdleOK ==
    TaskOK(IdleTask) /\ IdleTask \in Task /\ IdleTask.rest = {} /\ IdleTask.pc = "idle"
BY DEF IdleTask, TaskOK, Task, MessagePcs

LEMMA OneTask ==
    ASSUME TasksOK, Grown, NEW t \in Tasks, NEW me, TaskOK(me)',
           tasks' = [tasks EXCEPT ![t] = me]
    PROVE  TasksOK'
BY TaskStays DEF TasksOK

\* Tasks that fail are idle, the others are what they were.
LEMMA FailOK ==
    ASSUME TasksOK, ReaderOK, Grown, NEW failed, FailAll(failed), Len(events) <= Len(events'),
           Len(events) \in Nat, Len(events') \in Nat
    PROVE  TasksOK' /\ ReaderOK'
<1>1. TaskOK(IdleTask)'
  BY IdleOK, PTL
<1>2. \A t \in Tasks : tasks'[t] = IdleTask \/ tasks'[t] = tasks[t]
  BY DEF FailAll
<1>3. TasksOK'
  BY <1>1, <1>2, TaskStays DEF TasksOK, FailAll
<1>4. tasks'[Reader] = IF Reader \in failed THEN IdleTask ELSE tasks[Reader]
  BY ReaderIsATask DEF FailAll
<1>5. reader' = IF Reader \in failed THEN GivenUp ELSE reader
  BY DEF FailAll
<1>6. CASE Reader \in failed
  <2>1. tasks'[Reader].rest = {} /\ tasks'[Reader].pc = "idle"
    BY <1>4, <1>6 DEF IdleTask
  <2>2. /\ reader'.cursor = reader.cursor /\ reader'.handled = reader.cursor
        /\ reader'.end = reader.cursor /\ reader' \in [cursor : Nat, handled : Nat, end : Nat]
    BY <1>5, <1>6 DEF ReaderOK, GivenUp
  <2>3. reader.cursor <= Len(events')
    BY DEF ReaderOK
  <2> QED
    BY <1>3, <2>1, <2>2, <2>3 DEF ReaderOK
<1>7. CASE Reader \notin failed
  BY <1>3, <1>4, <1>5, <1>7 DEF ReaderOK
<1> QED
  BY <1>6, <1>7

\* The first of a set of inbox rows.
LEMMA FirstOfRest ==
    ASSUME NEW todo \in SUBSET Summary, todo # {}
    PROVE  (CHOOSE x \in todo : \A y \in todo : x.seq <= y.seq) \in todo
<1> DEFINE less == OpToRel(<, Nat)
           seqs == {x.seq : x \in todo}
<1>1. IsWellFoundedOn(less, Nat)
  BY NatLessThanWellFounded
<1>2. \A i, j \in Nat : i < j => <<i, j>> \in less
  BY DEF OpToRel
<1>3. seqs \subseteq Nat /\ seqs # {}
  BY DEF Summary
<1> HIDE DEF less
<1>4. PICK i \in seqs : \A j \in seqs : ~(<<j, i>> \in less)
  BY <1>1, <1>3, WFMin
<1>5. PICK x \in todo : x.seq = i
  OBVIOUS
<1>6. \A y \in todo : x.seq <= y.seq
  <2> TAKE y \in todo
  <2>1. x.seq \in Nat /\ y.seq \in Nat /\ y.seq \in seqs
    BY <1>3
  <2>2. ~(y.seq < x.seq)
    BY <1>2, <1>4, <1>5, <2>1
  <2> QED
    BY <2>1, <2>2
<1> QED
  BY <1>6

\* A delivery that starts.
LEMMA StartOK ==
    ASSUME ControlOK, NEW task \in Task, task.session \in Sessions,
           registry[task.session] # None,
           NEW x \in Summary, ToSession(x.message, task.session),
           NEW rest \in SUBSET Summary, \A y \in rest : ToSession(y.message, task.session),
           NEW me, me = StartDelivery(task, x, rest)
    PROVE  /\ TaskOK(me) /\ me \in Task /\ me.pc \in {"receive", "check"} /\ me.rest = rest
           /\ me.session = task.session /\ me.message = x.message
<1>1. x.message \in Messages /\ x.version \in 0..3
  BY DEF Summary
<1>2. registry[task.session] \in Workbenches
  BY DEF ControlOK
<1>3. /\ me.pc \in {"receive", "check"} /\ me.session = task.session
      /\ me.message = x.message /\ me.workbench = registry[task.session]
      /\ me.rest = rest /\ me \in Task
  BY <1>1, <1>2 DEF StartDelivery, Task
<1> QED
  BY <1>1, <1>2, <1>3 DEF TaskOK

\* The delivery that an event starts.
LEMMA FreshStart ==
    ASSUME ControlOK, NEW s \in Sessions, registry[s] # None,
           NEW x \in Summary, ToSession(x.message, s),
           NEW me, me = StartDelivery([IdleTask EXCEPT !.session = s], x, {})
    PROVE  /\ TaskOK(me) /\ me.rest = {} /\ me.pc \in {"receive", "check"}
           /\ me.session = s /\ me.message = x.message
<1>1. ASSUME NEW task \in Task, task.session = s, NEW y, y = StartDelivery(task, x, {})
      PROVE  /\ TaskOK(y) /\ y.rest = {} /\ y.pc \in {"receive", "check"}
             /\ y.session = s /\ y.message = x.message
  <2> PICK rest : rest = {}
    OBVIOUS
  <2>1. rest \in SUBSET Summary /\ \A z \in rest : ToSession(z.message, s)
    OBVIOUS
  <2> QED
    BY <1>1, <2>1, StartOK
<1> PICK start : start = [IdleTask EXCEPT !.session = s]
  OBVIOUS
<1>2. start \in Task /\ start.session = s
  BY IdleOK DEF Task
<1>3. me = StartDelivery(start, x, {})
  OBVIOUS
<1> QED
  BY <1>1, <1>2, <1>3

LEMMA NextDeliveryOK ==
    ASSUME ControlOK, NEW me, TaskOK(me), me.session \in Sessions, registry[me.session] # None
    PROVE  /\ TaskOK(NextDelivery(me)) /\ (me.rest = {} => NextDelivery(me) = IdleTask)
           /\ NextDelivery(me).pc \in {"idle", "receive", "check"}
<1> PICK todo : todo = {x \in me.rest : Undelivered(x)}
  OBVIOUS
<1> PICK first : first = CHOOSE x \in todo : \A y \in todo : x.seq <= y.seq
  OBVIOUS
<1>1. NextDelivery(me) = IF todo = {} THEN IdleTask ELSE StartDelivery(me, first, todo \ {first})
  BY DEF NextDelivery
<1>2. todo \in SUBSET Summary /\ \A x \in todo : ToSession(x.message, me.session)
  BY DEF TaskOK, Task
<1>3. CASE todo = {}
  BY <1>1, <1>3, IdleOK
<1>4. CASE todo # {}
  <2>1. first \in todo /\ first \in Summary
    BY <1>2, <1>4, FirstOfRest
  <2> PICK next : next = StartDelivery(me, first, todo \ {first})
    OBVIOUS
  <2>2. me \in Task /\ todo \ {first} \in SUBSET Summary
    BY <1>2 DEF TaskOK
  <2>3. TaskOK(next) /\ next.pc \in {"receive", "check"}
    BY <1>2, <2>1, <2>2, StartOK
  <2> QED
    BY <1>1, <1>4, <2>3
<1> QED
  BY <1>3, <1>4

LEMMA TypeInit == Init => TypeInv
<1> SUFFICES ASSUME Init PROVE TypeInv
  OBVIOUS
<1>1. ServiceOK
  BY NoneIsNothing DEF Init, ServiceOK
<1>2. ControlOK
  BY Bounds DEF Init, ControlOK
<1>3. TasksOK
  BY IdleOK DEF Init, TasksOK
<1>4. ReaderOK
  BY <1>1, ReaderIsATask DEF Init, ReaderOK, IdleTask
<1> QED
  BY <1>1, <1>2, <1>3, <1>4 DEF TypeInv

\* What a task that is at work is about.
LEMMA AtWork ==
    ASSUME TypeInv, NEW t \in Tasks, tasks[t].pc # "idle"
    PROVE  /\ TaskOK(tasks[t]) /\ tasks[t] \in Task
           /\ tasks[t].session \in Sessions /\ tasks[t].workbench \in Workbenches
           /\ registry[tasks[t].session] \in Workbenches
           /\ tasks[t].pc \in MessagePcs =>
                 tasks[t].message \in Messages /\ ToSession(tasks[t].message, tasks[t].session)
BY DEF TypeInv, TasksOK, TaskOK, ControlOK

\* The log grows by an event, and what is sent stays sent.
LEMMA ServiceAppends ==
    ASSUME ServiceOK, NEW e \in EventRows, events' = Append(events, e)
    PROVE  /\ events' \in Seq(EventRows) /\ Len(events) \in Nat /\ Len(events') = Len(events) + 1
           /\ DOMAIN events = 1..Len(events) /\ DOMAIN events' = 1..(Len(events) + 1)
           /\ \A i \in DOMAIN events : events'[i] = events[i]
           /\ events'[Len(events) + 1] = e
BY DEF ServiceOK

LEMMA TransitionOK ==
    ASSUME ServiceOK, NEW task \in Task, task.message \in Messages, messages[task.message] # None,
           task.pc \in {"receive", "mark", "acknowledge"},
           TransitionAllowed(task), Transition(task)
    PROVE  /\ ServiceOK' /\ messages' = messages
           /\ Len(events) \in Nat /\ Len(events') = Len(events) + 1
           /\ task.version + 1 \in 0..3
<1> PICK k : k = Required(task.pc)
  OBVIOUS
<1> PICK next : next = States[k + 1]
  OBVIOUS
<1>1. k \in 1..3 /\ next \in ReceiptStates
  BY StatesAre DEF Required, ReceiptStates
<1>2. receipts[task.message] = [state |-> States[k], version |-> task.version]
  BY DEF TransitionAllowed
<1>3. task.version = k - 1
  <2>1. States[k] = States[task.version + 1] /\ task.version \in 0..3
    <3>1. receipts[task.message] # None
      BY DEF ServiceOK
    <3> QED
      BY <1>2, <3>1 DEF ServiceOK, Task
  <2> QED
    BY <1>1, <2>1, StatesAre
<1>4. /\ receipts' = [receipts EXCEPT ![task.message] = [state |-> next, version |-> k]]
      /\ events' = Append(events, Event(next, task.message))
      /\ bound' = bound /\ messages' = messages
  <2>1. task.version + 1 = k
    BY <1>1, <1>3
  <2> QED
    BY <2>1, Zenon DEF Transition
<1>5. Event(next, task.message) \in EventRows
  BY <1>1 DEF Event, EventRows
<1>6. /\ events' \in Seq(EventRows) /\ Len(events) \in Nat /\ Len(events') = Len(events) + 1
      /\ DOMAIN events = 1..Len(events) /\ DOMAIN events' = 1..(Len(events) + 1)
      /\ \A i \in DOMAIN events : events'[i] = events[i]
      /\ events'[Len(events) + 1] = Event(next, task.message)
  BY <1>4, <1>5, ServiceAppends
<1>7. [state |-> next, version |-> k] \in Receipt
  BY <1>1 DEF Receipt
<1>8. \A m \in Messages :
          /\ messages'[m] = None <=> receipts'[m] = None
          /\ receipts'[m] # None => receipts'[m].state = States[receipts'[m].version + 1]
  BY <1>4, <1>7, NoneIsNothing DEF ServiceOK
<1>9. \A i \in DOMAIN events' : events'[i].type \in ReceiptStates =>
          events'[i].subject \in Messages /\ messages'[events'[i].subject] # None
  <2> TAKE i \in DOMAIN events'
  <2>1. CASE i \in DOMAIN events
    BY <1>4, <1>6, <2>1 DEF ServiceOK
  <2>2. CASE i = Len(events) + 1
    BY <1>4, <1>6, <2>2 DEF Event
  <2> QED
    BY <1>6, <2>1, <2>2
<1>10. ServiceOK'
  BY <1>4, <1>6, <1>7, <1>8, <1>9 DEF ServiceOK
<1> QED
  BY <1>1, <1>3, <1>4, <1>6, <1>10

\* The reader's batch and task are what they were.
LEMMA ReaderStays ==
    ASSUME ServiceOK, ReaderOK, ServiceOK', Len(events) <= Len(events'), reader' = reader,
           \/ tasks'[Reader] = tasks[Reader]
           \/ /\ tasks'[Reader].rest = {}
              /\ tasks[Reader].pc # "idle" \/ tasks'[Reader].pc = "idle"
    PROVE  ReaderOK'
BY DEF ServiceOK, ReaderOK

\* A step of one task, but for the reader's progress.
LEMMA OneTaskType ==
    ASSUME TypeInv, ServiceOK', ControlOK', Grown, Len(events) <= Len(events'),
           reader' = reader, NEW t \in Tasks, NEW me, TaskOK(me)',
           tasks' = [tasks EXCEPT ![t] = me],
           t # Reader \/ (me.rest = tasks[t].rest /\ tasks[t].pc # "idle")
    PROVE  TypeInv'
<1>1. TasksOK'
  BY OneTask DEF TypeInv
<1>2. tasks'[Reader] = IF t = Reader THEN me ELSE tasks[Reader]
  BY ReaderIsATask DEF TypeInv, TasksOK
<1>3. ReaderOK'
  BY <1>2, ReaderStays DEF TypeInv, ReaderOK
<1> QED
  BY <1>1, <1>3 DEF TypeInv

\* A step in which no task moves.
LEMMA NoTaskType ==
    ASSUME TypeInv, ServiceOK', ControlOK', Grown, Len(events) <= Len(events'),
           reader' = reader, tasks' = tasks
    PROVE  TypeInv'
<1>1. TasksOK'
  BY TaskStays DEF TypeInv, TasksOK
<1>2. ReaderOK'
  BY ReaderStays DEF TypeInv
<1> QED
  BY <1>1, <1>2 DEF TypeInv

LEMMA ServiceStays == ServiceOK /\ UNCHANGED service => ServiceOK' /\ Len(events) <= Len(events')
BY DEF ServiceOK, service

-----------------------------------------------------------------------------
(* The service's commands *)

LEMMA RegisterOK ==
    ASSUME TypeInv, NEW s \in Sessions, Register(s)
    PROVE  TypeInv'
<1> PICK e : e = Event("registered", s)
  OBVIOUS
<1>1. e \in EventRows /\ e.type \notin ReceiptStates
  BY DEF Event, EventRows, ReceiptStates
<1>2. /\ events' = Append(events, e) /\ messages' = messages /\ receipts' = receipts
      /\ bound' = [bound EXCEPT ![s] = Home]
  BY DEF Register
<1>3. ServiceOK /\ Grown /\ reader' = reader /\ tasks' = tasks
  BY DEF TypeInv, Register, Grown
<1>4. /\ events' \in Seq(EventRows) /\ Len(events) \in Nat /\ Len(events') = Len(events) + 1
      /\ DOMAIN events = 1..Len(events) /\ DOMAIN events' = 1..(Len(events) + 1)
      /\ \A i \in DOMAIN events : events'[i] = events[i]
      /\ events'[Len(events) + 1] = e
  BY <1>1, <1>2, <1>3, ServiceAppends
<1>5. ServiceOK'
  BY <1>1, <1>2, <1>3, <1>4, HomeIsAWorkbench DEF ServiceOK
<1>6. ControlOK'
  BY DEF TypeInv, ControlOK, Register, pi
<1> QED
  BY <1>3, <1>4, <1>5, <1>6, NoTaskType

LEMMA QueueOK ==
    ASSUME TypeInv, NEW m \in Messages, NEW from \in Sessions, NEW to \in Sessions,
           NEW kind \in Kinds, NEW parent \in Messages \cup {None},
           QueueMessage(m, from, to, kind, parent)
    PROVE  TypeInv'
<1> PICK e, row, receipt : /\ e = Event("queued", m)
                           /\ row = [from |-> from, to |-> to, kind |-> kind, reply_to |-> parent]
                           /\ receipt = [state |-> "queued", version |-> 0]
  OBVIOUS
<1>1. /\ e \in EventRows /\ e.type = "queued" /\ e.subject = m
      /\ row \in Message /\ receipt \in Receipt /\ row # None /\ receipt # None
      /\ receipt.state = States[receipt.version + 1]
  BY NoneIsNothing, StatesAre, KindsOfMessages DEF Event, EventRows, ReceiptStates, Message, Receipt
<1>2. /\ events' = Append(events, e) /\ bound' = bound /\ messages[m] = None
      /\ messages' = [messages EXCEPT ![m] = row]
      /\ receipts' = [receipts EXCEPT ![m] = receipt]
  BY DEF QueueMessage
<1>3. ServiceOK /\ reader' = reader /\ tasks' = tasks
  BY DEF TypeInv, QueueMessage
<1>4. /\ events' \in Seq(EventRows) /\ Len(events) \in Nat /\ Len(events') = Len(events) + 1
      /\ DOMAIN events = 1..Len(events) /\ DOMAIN events' = 1..(Len(events) + 1)
      /\ \A i \in DOMAIN events : events'[i] = events[i]
      /\ events'[Len(events) + 1] = e
  BY <1>1, <1>2, <1>3, ServiceAppends
<1>5. Grown
  BY <1>2 DEF QueueMessage, Grown, TypeInv, ServiceOK
<1>6. ServiceOK'
  <2>1. /\ bound' \in [Sessions -> Workbenches \cup {None}]
        /\ messages' \in [Messages -> Message \cup {None}]
        /\ receipts' \in [Messages -> Receipt \cup {None}]
    BY <1>1, <1>2, <1>3 DEF ServiceOK
  <2>2. \A n \in Messages :
          /\ messages'[n] = None <=> receipts'[n] = None
          /\ receipts'[n] # None => receipts'[n].state = States[receipts'[n].version + 1]
    BY <1>1, <1>2, <1>3 DEF ServiceOK
  <2>3. \A i \in DOMAIN events' : events'[i].type \in ReceiptStates =>
          events'[i].subject \in Messages /\ messages'[events'[i].subject] # None
    <3> TAKE i \in DOMAIN events'
    <3>1. CASE i \in DOMAIN events
      BY <1>2, <1>3, <1>4, <3>1 DEF ServiceOK
    <3>2. CASE i = Len(events) + 1
      BY <1>1, <1>2, <1>3, <1>4, <3>2 DEF ServiceOK
    <3> QED
      BY <1>4, <3>1, <3>2
  <2> QED
    BY <1>4, <2>1, <2>2, <2>3 DEF ServiceOK
<1>7. ControlOK'
  BY DEF TypeInv, ControlOK, QueueMessage, pi
<1> QED
  BY <1>3, <1>4, <1>5, <1>6, <1>7, NoTaskType

-----------------------------------------------------------------------------
(* The control plane's tasks *)

LEMMA OpenOK ==
    ASSUME TypeInv, NEW s \in Sessions, Open(s)
    PROVE  TypeInv'
<1>1. ServiceOK' /\ Len(events) <= Len(events')
  BY ServiceStays DEF TypeInv, Open
<1>2. ControlOK' /\ Grown
  BY HomeIsAWorkbench, NoneIsNothing DEF TypeInv, ServiceOK, ControlOK, Open, Grown, pi, service
<1> QED
  BY <1>1, <1>2, NoTaskType DEF Open

\* What changes neither the service nor what the control plane has written.
LEMMA QuietTask ==
    ASSUME TypeInv, UNCHANGED <<service, registry, pi, offline>>,
           injecting' \in [Sessions -> SUBSET Messages],
           binds' \in 0..MaxBinds, faults' \in 0..MaxFaults,
           reader' = reader, NEW t \in Tasks, NEW me, TaskOK(me),
           tasks' = [tasks EXCEPT ![t] = me],
           t # Reader \/ (me.rest = tasks[t].rest /\ tasks[t].pc # "idle")
    PROVE  TypeInv'
<1>1. ServiceOK' /\ Len(events) <= Len(events')
  BY ServiceStays DEF TypeInv
<1>2. ControlOK' /\ Grown
  BY DEF TypeInv, ControlOK, Grown, service, pi
<1>3. TaskOK(me)'
  BY <1>2, TaskStays
<1> QED
  BY <1>1, <1>2, <1>3, OneTaskType

LEMMA InboxRows ==
    ASSUME ServiceOK, NEW s \in Sessions, NEW after, NEW limit
    PROVE  /\ Inbox(s, after, limit) \subseteq Summary
           /\ \A x \in Inbox(s, after, limit) : ToSession(x.message, s)
<1> SUFFICES ASSUME NEW i \in DOMAIN events, events[i].type = "queued",
                    messages[events[i].subject].to = s
             PROVE  Snapshot(i) \in Summary /\ ToSession(Snapshot(i).message, s)
  BY DEF Inbox
<1> PICK m : m = events[i].subject
  OBVIOUS
<1>1. m \in Messages /\ messages[m] # None /\ i \in Nat
  BY DEF ServiceOK, ReceiptStates
<1>2. receipts[m] \in Receipt
  BY <1>1 DEF ServiceOK
<1> QED
  BY <1>1, <1>2 DEF Snapshot, Summary, Receipt, ToSession

LEMMA DeliveryStarts ==
    ASSUME TypeInv, NEW t \in Tasks, NEW s \in Sessions, NEW after, NEW limit,
           Deliver(t, s, after, limit),
           NEW start,
           start = [IdleTask EXCEPT !.session = s, !.rest = Inbox(s, after, limit)],
           NEW me, me = NextDelivery(start)
    PROVE  TaskOK(me) /\ me.pc \in {"idle", "receive", "check"}
<1>1. /\ start.session = s /\ start.rest = Inbox(s, after, limit) /\ start.pc = "idle"
      /\ start = [pc |-> "idle", session |-> s, message |-> None, version |-> 0,
                  workbench |-> None, rest |-> Inbox(s, after, limit)]
  BY DEF IdleTask
<1>2. TaskOK(start)
  BY <1>1, InboxRows DEF TypeInv, TaskOK, Task, MessagePcs
<1> QED
  BY <1>1, <1>2, NextDeliveryOK DEF Deliver, TypeInv

LEMMA DeliverOK ==
    ASSUME TypeInv, NEW t \in Tasks, NEW s \in Sessions, NEW after, NEW limit,
           Deliver(t, s, after, limit)
    PROVE  TypeInv'
<1> PICK start, me : /\ start = [IdleTask EXCEPT !.session = s,
                                                !.rest = Inbox(s, after, limit)]
                     /\ me = NextDelivery(start)
  OBVIOUS
<1>1. TaskOK(me)
  BY DeliveryStarts
<1>2. /\ tasks' = [tasks EXCEPT ![t] = me] /\ t # Reader
      /\ UNCHANGED <<service, registry, pi, offline, injecting, binds, faults, reader>>
  BY DEF Deliver
<1> QED
  BY <1>1, <1>2, QuietTask DEF TypeInv, ControlOK

LEMMA AcknowledgeOK ==
    ASSUME TypeInv, NEW t \in Tasks, NEW m \in Messages, Acknowledge(t, m)
    PROVE  TypeInv'
<1> PICK s, v, w : /\ s = messages[m].to /\ v = receipts[m].version
                   /\ w = registry[messages[m].to]
  OBVIOUS
<1> PICK me : me = [IdleTask EXCEPT !.pc = "acknowledge", !.session = s, !.message = m,
                        !.version = v, !.workbench = w]
  OBVIOUS
<1>1. messages[m] # None /\ messages[m] \in Message /\ receipts[m] \in Receipt
  BY DEF Acknowledge, TypeInv, ServiceOK
<1>2. s \in Sessions /\ v \in 0..3 /\ ToSession(m, s)
  BY <1>1 DEF Message, Receipt, ToSession
<1>3. w \in Workbenches /\ registry[s] # None
  BY <1>2 DEF Acknowledge, TypeInv, ControlOK
<1>4. /\ me \in Task /\ me.pc = "acknowledge" /\ me.session = s /\ me.message = m
      /\ me.workbench = w /\ me.rest = {}
  BY <1>2, <1>3, IdleOK DEF Task
<1>5. TaskOK(me)
  BY <1>2, <1>3, <1>4 DEF TaskOK
<1>6. /\ tasks' = [tasks EXCEPT ![t] = me] /\ t # Reader
      /\ UNCHANGED <<service, registry, pi, offline, injecting, binds, faults, reader>>
  BY DEF Acknowledge
<1> QED
  BY <1>5, <1>6, QuietTask DEF TypeInv, ControlOK

LEMMA BindTaskOK ==
    ASSUME TypeInv, NEW t \in Tasks, NEW s \in Sessions, NEW w \in Workbenches, Bind(t, s, w)
    PROVE  TypeInv'
<1> PICK me : me = [IdleTask EXCEPT !.pc = "bind", !.session = s, !.workbench = w]
  OBVIOUS
<1>1. registry[s] # None
  BY DEF Bind
<1>2. me \in Task /\ me.pc = "bind" /\ me.session = s /\ me.workbench = w /\ me.rest = {}
  BY IdleOK DEF Task
<1>3. TaskOK(me)
  BY <1>1, <1>2 DEF TaskOK, MessagePcs
<1>4. /\ tasks' = [tasks EXCEPT ![t] = me] /\ t # Reader
      /\ UNCHANGED <<service, registry, pi, offline, injecting, faults, reader>>
  BY DEF Bind
<1>5. binds' \in 0..MaxBinds
  BY Bounds DEF Bind, TypeInv, ControlOK
<1> QED
  BY <1>3, <1>4, <1>5, QuietTask DEF TypeInv, ControlOK

LEMMA ReadOK ==
    ASSUME TypeInv, Read
    PROVE  TypeInv'
<1>1. ServiceOK' /\ ControlOK' /\ Grown
  BY DEF TypeInv, ServiceOK, ControlOK, Grown, Read, service, pi
<1>2. TasksOK'
  BY <1>1, TaskStays DEF TypeInv, TasksOK, Read
<1>3. ReaderOK'
  BY DEF TypeInv, ServiceOK, ReaderOK, Read, service
<1> QED
  BY <1>1, <1>2, <1>3 DEF TypeInv

\* What the callback on an event starts.
LEMMA EventTask ==
    ASSUME TypeInv, HandleEvent, NEW i, i = reader.handled + 1, events[i].type = "queued",
           registry[messages[events[i].subject].to] # None, Undelivered(Snapshot(i))
    PROVE  \E me : /\ TaskOK(me) /\ me.rest = {} /\ me.pc \in {"receive", "check"}
                   /\ me.message = events[i].subject
                   /\ tasks' = [tasks EXCEPT ![Reader] = me]
                   /\ reader' = reader /\ offline' = offline
<1> PICK m, snapshot, s : /\ m = events[i].subject /\ snapshot = Snapshot(i)
                          /\ s = messages[m].to
  OBVIOUS
<1>1. i \in DOMAIN events /\ i \in Nat
  BY DEF HandleEvent, TypeInv, ReaderOK, ServiceOK
<1>2. /\ m \in Messages /\ messages[m] # None
      /\ messages[m] \in Message /\ receipts[m] \in Receipt
  BY <1>1 DEF TypeInv, ServiceOK, ReceiptStates
<1> PICK me : me = StartDelivery([IdleTask EXCEPT !.session = s], snapshot, {})
  OBVIOUS
<1>3. s \in Sessions /\ ToSession(m, s) /\ registry[s] # None
  BY <1>2 DEF Message, ToSession
<1>4. snapshot \in Summary /\ snapshot.message = m
  BY <1>1, <1>2 DEF Snapshot, Summary, Receipt
<1>5. ControlOK
  BY DEF TypeInv
<1>6. TaskOK(me) /\ me.rest = {} /\ me.pc \in {"receive", "check"} /\ me.message = m
  BY <1>3, <1>4, <1>5, FreshStart
<1>7. tasks' = [tasks EXCEPT ![Reader] = me] /\ reader' = reader /\ offline' = offline
  BY DEF HandleEvent
<1> QED
  BY <1>6, <1>7

\* What becomes of an event that starts nothing.
LEMMA EventPassed ==
    ASSUME TypeInv, HandleEvent, NEW i, i = reader.handled + 1,
           ~(/\ events[i].type = "queued"
             /\ registry[messages[events[i].subject].to] # None /\ Undelivered(Snapshot(i)))
    PROVE  /\ tasks' = tasks /\ reader' = Handled
           /\ offline \subseteq offline' /\ offline' \subseteq offline \cup {events[i].subject}
           /\ offline' = offline \/ events[i].type = "queued"
           /\ events[i].type = "queued" =>
                 ~Undelivered(Snapshot(i)) \/ events[i].subject \in offline'
BY DEF HandleEvent

LEMMA HandleEventOK ==
    ASSUME TypeInv, HandleEvent
    PROVE  TypeInv'
<1> PICK i, m : i = reader.handled + 1 /\ m = events[i].subject
  OBVIOUS
<1>1. ServiceOK' /\ Len(events) <= Len(events') /\ Grown
  BY ServiceStays DEF TypeInv, HandleEvent, Grown, service
<1>2. UNCHANGED <<service, registry, pi, injecting, binds, faults>>
  BY DEF HandleEvent
<1>3. CASE /\ events[i].type = "queued"
           /\ registry[messages[m].to] # None /\ Undelivered(Snapshot(i))
  <2>1. PICK me : /\ TaskOK(me) /\ me.rest = {} /\ tasks' = [tasks EXCEPT ![Reader] = me]
                  /\ reader' = reader /\ offline' = offline
    BY <1>3, EventTask
  <2>2. TasksOK' /\ ControlOK'
    BY <1>1, <1>2, <2>1, TaskStays, OneTask, ReaderIsATask DEF TypeInv, ControlOK, pi
  <2>3. tasks'[Reader].rest = {}
    BY <2>1, ReaderIsATask DEF TypeInv, TasksOK
  <2>4. ReaderOK'
    BY <2>1, <2>3 DEF HandleEvent, TypeInv, ReaderOK, service
  <2> QED
    BY <1>1, <2>2, <2>4 DEF TypeInv
<1>4. CASE ~(/\ events[i].type = "queued"
             /\ registry[messages[m].to] # None /\ Undelivered(Snapshot(i)))
  <2>1. /\ tasks' = tasks /\ reader' = Handled
        /\ offline' \subseteq offline \cup {m} /\ (offline' = offline \/ events[i].type = "queued")
    BY <1>4, EventPassed
  <2>2. events[i].type = "queued" => m \in Messages
    BY DEF HandleEvent, TypeInv, ReaderOK, ServiceOK, ReceiptStates
  <2>3. ControlOK'
    BY <1>2, <2>1, <2>2 DEF TypeInv, ControlOK, pi
  <2>4. TasksOK'
    BY <1>1, <2>1, TaskStays DEF TypeInv, TasksOK
  <2>5. ReaderOK'
    BY <2>1 DEF HandleEvent, Handled, TypeInv, ServiceOK, ReaderOK, service
  <2> QED
    BY <1>1, <2>3, <2>4, <2>5 DEF TypeInv
<1> QED
  BY <1>3, <1>4

LEMMA ReceiveOK ==
    ASSUME TypeInv, NEW t \in Tasks, Receive(t)
    PROVE  TypeInv'
<1> PICK task : task = tasks[t]
  OBVIOUS
<1> PICK me : me = [task EXCEPT !.pc = "check", !.version = @ + 1]
  OBVIOUS
<1>1. /\ TaskOK(task) /\ task \in Task /\ task.session \in Sessions /\ task.pc = "receive"
      /\ task.workbench \in Workbenches
      /\ task.message \in Messages /\ ToSession(task.message, task.session)
  BY AtWork DEF Receive, MessagePcs
<1>2. ServiceOK' /\ messages' = messages /\ Len(events) <= Len(events') /\ task.version + 1 \in 0..3
  BY <1>1, TransitionOK DEF Receive, TypeInv, ToSession
<1>3. ControlOK' /\ Grown
  BY <1>2 DEF Receive, TypeInv, ControlOK, Grown, pi
<1>4. /\ me \in Task /\ me.pc = "check" /\ me.session = task.session /\ me.message = task.message
      /\ me.workbench = task.workbench /\ me.rest = task.rest
  BY <1>1, <1>2 DEF Task
<1>5. TaskOK(me)
  BY <1>1, <1>4 DEF TaskOK, ToSession
<1>6. TaskOK(me)'
  BY <1>3, <1>5, TaskStays
<1>7. tasks' = [tasks EXCEPT ![t] = me] /\ reader' = reader
  BY DEF Receive
<1> QED
  BY <1>1, <1>2, <1>3, <1>4, <1>6, <1>7, OneTaskType

\* A task that goes on in the same delivery.
LEMMA MovesOn ==
    ASSUME NEW task \in Task, TaskOK(task), task.pc \in MessagePcs,
           NEW me, NEW pc \in MessagePcs, me = [task EXCEPT !.pc = pc]
    PROVE  /\ TaskOK(me) /\ me \in Task /\ me.pc = pc /\ me.rest = task.rest
           /\ me.session = task.session /\ me.message = task.message
<1>1. /\ me \in Task /\ me.pc = pc /\ me.rest = task.rest /\ me.workbench = task.workbench
      /\ me.session = task.session /\ me.message = task.message
  BY DEF Task, MessagePcs
<1> QED
  BY <1>1 DEF TaskOK, MessagePcs

LEMMA MarkingOK ==
    ASSUME TypeInv, NEW t \in Tasks, tasks[t].pc \in MessagePcs,
           NEW me, me = Marking(tasks[t])
    PROVE  /\ TaskOK(me) /\ me \in Task /\ me.pc = "mark" /\ me.rest = tasks[t].rest
           /\ me.session = tasks[t].session /\ me.message = tasks[t].message
<1>1. tasks[t].pc # "idle"
  BY DEF MessagePcs
<1>2. /\ TaskOK(tasks[t]) /\ tasks[t] \in Task
      /\ registry[tasks[t].session] \in Workbenches
  BY <1>1, AtWork
<1> PICK task, w : task = tasks[t] /\ w = registry[task.session]
  OBVIOUS
<1>3. me = [task EXCEPT !.pc = "mark", !.workbench = w]
  BY DEF Marking
<1>4. w \in Workbenches /\ task \in Task /\ TaskOK(task) /\ task.pc \in MessagePcs
  BY <1>2
<1>5. /\ me \in Task /\ me.pc = "mark" /\ me.rest = task.rest /\ me.workbench = w
      /\ me.session = task.session /\ me.message = task.message
  BY <1>3, <1>4 DEF Task
<1>6. TaskOK(me)
  BY <1>4, <1>5 DEF TaskOK, MessagePcs
<1> QED
  BY <1>5, <1>6

LEMMA CheckOK ==
    ASSUME TypeInv, NEW t \in Tasks, Check(t)
    PROVE  TypeInv'
<1> PICK task : task = tasks[t]
  OBVIOUS
<1>1. TaskOK(task) /\ task \in Task /\ task.pc = "check" /\ task.pc \in MessagePcs
  BY AtWork DEF Check, MessagePcs
<1> PICK me : me = IF journal[task.session][task.message] > 0
                     THEN Marking(task) ELSE [task EXCEPT !.pc = "inject"]
  OBVIOUS
<1>2. TaskOK(me) /\ me.rest = task.rest
  BY <1>1, MarkingOK, MovesOn DEF MessagePcs
<1>3. /\ tasks' = [tasks EXCEPT ![t] = me] /\ task.pc # "idle"
      /\ UNCHANGED <<service, registry, pi, offline, injecting, binds, faults, reader>>
  BY <1>1, Zenon DEF Check
<1> QED
  BY <1>2, <1>3, QuietTask DEF TypeInv, ControlOK

LEMMA InjectOK ==
    ASSUME TypeInv, NEW t \in Tasks, Inject(t)
    PROVE  TypeInv'
<1> PICK task, s, m : task = tasks[t] /\ s = task.session /\ m = task.message
  OBVIOUS
<1>1. /\ TaskOK(task) /\ task \in Task /\ task.pc = "inject" /\ task.pc \in MessagePcs
      /\ s \in Sessions /\ m \in Messages
  BY AtWork DEF Inject, MessagePcs
<1>2. UNCHANGED <<service, registry, pi, offline, binds, faults, reader>>
  BY DEF Inject
<1>3. injecting' \in [Sessions -> SUBSET Messages]
  BY <1>1 DEF Inject, TypeInv, ControlOK
<1>4. \/ tasks' = [tasks EXCEPT ![t] = [task EXCEPT !.pc = "follow"]]
      \/ tasks' = [tasks EXCEPT ![t] = Marking(task)]
      \/ tasks' = [tasks EXCEPT ![t] = [task EXCEPT !.pc = "send"]]
  BY DEF Inject
<1>5. PICK me : /\ tasks' = [tasks EXCEPT ![t] = me]
                /\ \/ me = [task EXCEPT !.pc = "follow"] \/ me = Marking(task)
                   \/ me = [task EXCEPT !.pc = "send"]
  BY <1>4
<1>6. TaskOK(me) /\ me.rest = task.rest
  BY <1>1, <1>5, MarkingOK, MovesOn DEF MessagePcs
<1> QED
  BY <1>1, <1>2, <1>3, <1>5, <1>6, QuietTask DEF TypeInv, ControlOK

LEMMA SendOK ==
    ASSUME TypeInv, NEW t \in Tasks, Send(t)
    PROVE  TypeInv'
<1> PICK task, s, m : task = tasks[t] /\ s = task.session /\ m = task.message
  OBVIOUS
<1>1. /\ TaskOK(task) /\ task \in Task /\ task.pc = "send" /\ task.pc \in MessagePcs
      /\ s \in Sessions /\ m \in Messages
  BY AtWork DEF Send, MessagePcs
<1>2. /\ UNCHANGED <<service, streaming, registry, injecting, reader, offline, binds, faults>>
      /\ \/ followups' = [followups EXCEPT ![s] = @ \cup {m}] /\ journal' = journal
         \/ journal' = [journal EXCEPT ![s][m] = @ + 1] /\ followups' = followups
  BY DEF Send
<1>3. PICK me : /\ tasks' = [tasks EXCEPT ![t] = me]
                /\ me = [task EXCEPT !.pc = "wait"] \/ me = [task EXCEPT !.pc = "confirm"]
  BY DEF Send
<1>4. ServiceOK' /\ Len(events) <= Len(events') /\ Grown
  BY <1>2, ServiceStays DEF TypeInv, Grown, service
<1>5. ControlOK'
  <2>1. [journal[s] EXCEPT ![m] = @ + 1] \in [Messages -> Nat]
    BY <1>1 DEF TypeInv, ControlOK
  <2>2. journal' \in [Sessions -> [Messages -> Nat]]
    BY <1>1, <1>2, <2>1 DEF TypeInv, ControlOK
  <2>3. followups' \in [Sessions -> SUBSET Messages]
    BY <1>1, <1>2 DEF TypeInv, ControlOK
  <2> QED
    BY <1>2, <2>2, <2>3 DEF TypeInv, ControlOK
<1>6. TaskOK(me) /\ me.rest = task.rest
  BY <1>1, <1>3, MovesOn DEF MessagePcs
<1>7. TaskOK(me)'
  BY <1>4, <1>6, TaskStays
<1> QED
  BY <1>1, <1>2, <1>3, <1>4, <1>5, <1>6, <1>7, OneTaskType

\* Several tasks move on at once.
LEMMA ManyTasks ==
    ASSUME TypeInv, Grown, ServiceOK', Len(events) <= Len(events'), ControlOK', reader' = reader,
           NEW new, tasks' = [u \in Tasks |-> new[u]],
           \A u \in Tasks : \/ new[u] = tasks[u]
                            \/ /\ TaskOK(new[u]) /\ new[u].rest = tasks[u].rest
                               /\ tasks[u].pc # "idle"
    PROVE  TypeInv'
<1>1. \A u \in Tasks : TaskOK(tasks'[u])
  BY DEF TypeInv, TasksOK
<1>2. \A u \in Tasks : TaskOK(new[u])'
  BY <1>1, TaskStays
<1>3. TasksOK'
  BY <1>2 DEF TasksOK
<1>4. ReaderOK'
  BY ReaderStays, ReaderIsATask DEF TypeInv, ReaderOK
<1> QED
  BY <1>3, <1>4 DEF TypeInv

LEMMA ConfirmOK ==
    ASSUME TypeInv, NEW t \in Tasks, Confirm(t)
    PROVE  TypeInv'
<1> PICK s, m, waiting : /\ s = tasks[t].session /\ m = tasks[t].message
                         /\ waiting = {t} \cup Followers(t)
  OBVIOUS
<1>1. s \in Sessions /\ m \in Messages
  BY AtWork DEF Confirm, MessagePcs
<1>2. /\ UNCHANGED <<service, registry, pi, offline, binds, faults>>
      /\ injecting' = [injecting EXCEPT ![s] = @ \ {m}]
  BY DEF Confirm
<1>3. ServiceOK' /\ Len(events) <= Len(events') /\ Grown
  BY <1>2, ServiceStays DEF TypeInv, Grown, service
<1>4. Len(events) \in Nat /\ Len(events') \in Nat
  BY <1>3 DEF TypeInv, ServiceOK
<1>5. ControlOK'
  BY <1>1, <1>2 DEF TypeInv, ControlOK, pi
<1>6. CASE Journaled(s, m)
  <2> PICK new : new = [u \in Tasks |-> IF u \in waiting THEN Marking(tasks[u]) ELSE tasks[u]]
    OBVIOUS
  <2>1. tasks' = [u \in Tasks |-> new[u]] /\ reader' = reader
    BY <1>6 DEF Confirm
  <2>2. \A u \in waiting : u \in Tasks /\ tasks[u].pc \in {"confirm", "follow"}
    BY DEF Confirm, Followers
  <2>3. \A u \in Tasks : \/ new[u] = tasks[u]
                         \/ /\ TaskOK(new[u]) /\ new[u].rest = tasks[u].rest
                            /\ tasks[u].pc # "idle"
    BY <2>2, MarkingOK DEF MessagePcs
  <2> QED
    BY <1>3, <1>5, <2>1, <2>3, ManyTasks
<1>7. CASE ~Journaled(s, m)
  <2>1. FailAll(waiting)
    BY <1>7 DEF Confirm
  <2> QED
    BY <1>3, <1>4, <1>5, <2>1, FailOK DEF TypeInv
<1> QED
  BY <1>6, <1>7

LEMMA SettleOK ==
    ASSUME TypeInv, NEW t \in Tasks, MarkOrAcknowledge(t)
    PROVE  TypeInv'
<1> PICK task, me : task = tasks[t] /\ me = NextDelivery(task)
  OBVIOUS
<1>1. /\ TaskOK(task) /\ task \in Task /\ task.session \in Sessions
      /\ task.pc \in {"mark", "acknowledge"} /\ registry[task.session] # None
      /\ task.message \in Messages /\ ToSession(task.message, task.session)
  BY AtWork, NoneIsNothing DEF MarkOrAcknowledge, MessagePcs
<1>2. /\ ServiceOK' /\ messages' = messages
      /\ Len(events) \in Nat /\ Len(events') = Len(events) + 1
  BY <1>1, TransitionOK DEF MarkOrAcknowledge, TypeInv, ToSession
<1>3. ControlOK' /\ Grown
  BY <1>2 DEF MarkOrAcknowledge, TypeInv, ControlOK, Grown, pi
<1>4. TaskOK(me) /\ (task.rest = {} => me = IdleTask)
  BY <1>1, NextDeliveryOK DEF TypeInv
<1>5. /\ tasks' = [tasks EXCEPT ![t] = me]
      /\ reader' = IF t = Reader THEN Handled ELSE reader
  BY DEF MarkOrAcknowledge, Settle
<1>6. TasksOK'
  BY <1>3, <1>4, <1>5, TaskStays, OneTask DEF TypeInv
<1>7. CASE t = Reader
  <2>1. tasks'[Reader].rest = {} /\ tasks'[Reader].pc = "idle"
    BY <1>4, <1>5, <1>7 DEF TypeInv, TasksOK, ReaderOK, IdleTask
  <2>2. reader.handled < reader.end
    BY <1>1, <1>7 DEF TypeInv, ReaderOK
  <2>3. ReaderOK'
    BY <1>2, <1>5, <1>7, <2>1, <2>2 DEF TypeInv, ReaderOK, Handled
  <2> QED
    BY <1>2, <1>3, <1>6, <2>3 DEF TypeInv
<1>8. CASE t # Reader
  <2>1. tasks'[Reader] = tasks[Reader]
    BY <1>5, <1>8, ReaderIsATask DEF TypeInv, TasksOK
  <2>2. ReaderOK'
    BY <1>2, <1>5, <1>8, <2>1, ReaderStays DEF TypeInv
  <2> QED
    BY <1>2, <1>3, <1>6, <2>2 DEF TypeInv
<1> QED
  BY <1>7, <1>8

\* A failure that leaves the service and the rest alone.
LEMMA FailType ==
    ASSUME TypeInv, NEW failed, FailAll(failed), ServiceOK', Len(events) <= Len(events'),
           messages' = messages, faults' \in 0..MaxFaults,
           UNCHANGED <<registry, pi, injecting, offline, binds>>
    PROVE  TypeInv'
<1>1. ControlOK' /\ Grown
  BY DEF TypeInv, ControlOK, Grown, pi
<1>2. Len(events) \in Nat /\ Len(events') \in Nat
  BY DEF TypeInv, ServiceOK
<1> QED
  BY <1>1, <1>2, FailOK DEF TypeInv

LEMMA RefusedOK ==
    ASSUME TypeInv, NEW t \in Tasks, Refused(t)
    PROVE  TypeInv'
<1>1. /\ FailAll({t}) /\ UNCHANGED <<registry, pi, injecting, offline, binds>>
      /\ UNCHANGED service /\ messages' = messages /\ faults' = faults
  BY DEF Refused, Fail, service
<1>2. ServiceOK' /\ Len(events) <= Len(events') /\ faults' \in 0..MaxFaults
  BY <1>1, ServiceStays DEF TypeInv, ControlOK
<1> QED
  BY <1>1, <1>2, FailType

LEMMA CommitBindOK ==
    ASSUME TypeInv, NEW t \in Tasks, CommitBind(t)
    PROVE  TypeInv'
<1> PICK task, s, e : task = tasks[t] /\ s = task.session /\ e = Event("bound", s)
  OBVIOUS
<1>1. /\ TaskOK(task) /\ task \in Task /\ s \in Sessions /\ task.workbench \in Workbenches
      /\ task.pc = "bind"
  BY AtWork DEF CommitBind
<1>2. CASE bound[s] = None
  <2>1. /\ FailAll({t}) /\ UNCHANGED <<registry, pi, injecting, offline, binds>>
        /\ UNCHANGED service /\ messages' = messages /\ faults' = faults
    BY <1>2 DEF CommitBind, Fail, service
  <2>2. ServiceOK' /\ Len(events) <= Len(events') /\ faults' \in 0..MaxFaults
    BY <2>1, ServiceStays DEF TypeInv, ControlOK
  <2> QED
    BY <2>1, <2>2, FailType
<1>3. CASE bound[s] # None
  <2> PICK me : me = [task EXCEPT !.pc = "bound"]
    OBVIOUS
  <2>1. e \in EventRows /\ e.type \notin ReceiptStates
    BY <1>1 DEF Event, EventRows, ReceiptStates
  <2>2. /\ events' = Append(events, e) /\ messages' = messages /\ receipts' = receipts
        /\ bound' = [bound EXCEPT ![s] = task.workbench] /\ reader' = reader
        /\ tasks' = [tasks EXCEPT ![t] = me]
    BY <1>3 DEF CommitBind
  <2>3. /\ events' \in Seq(EventRows) /\ Len(events) \in Nat /\ Len(events') = Len(events) + 1
        /\ DOMAIN events = 1..Len(events) /\ DOMAIN events' = 1..(Len(events) + 1)
        /\ \A i \in DOMAIN events : events'[i] = events[i]
        /\ events'[Len(events) + 1] = e
    BY <2>1, <2>2, ServiceAppends DEF TypeInv
  <2>4. ServiceOK'
    BY <1>1, <2>1, <2>2, <2>3 DEF TypeInv, ServiceOK
  <2>5. ControlOK' /\ Grown
    BY <2>2 DEF CommitBind, TypeInv, ControlOK, Grown, pi
  <2>6. /\ me \in Task /\ me.pc = "bound" /\ me.session = s /\ me.workbench = task.workbench
        /\ me.rest = task.rest
    BY <1>1 DEF Task
  <2>7. TaskOK(me)
    BY <1>1, <2>6 DEF TaskOK, MessagePcs
  <2>8. TaskOK(me)'
    BY <2>5, <2>7, TaskStays
  <2>9. Len(events) <= Len(events') /\ tasks[t].pc # "idle" /\ me.rest = tasks[t].rest
    BY <1>1, <2>3, <2>6
  <2> QED
    BY <2>2, <2>4, <2>5, <2>8, <2>9, OneTaskType
<1> QED
  BY <1>2, <1>3

LEMMA ActivateOK ==
    ASSUME TypeInv, NEW t \in Tasks, Activate(t)
    PROVE  TypeInv'
<1>1. /\ tasks[t].session \in Sessions /\ tasks[t].workbench \in Workbenches
      /\ tasks[t].pc = "bound"
  BY AtWork DEF Activate
<1>2. /\ UNCHANGED service /\ reader' = reader /\ tasks' = [tasks EXCEPT ![t] = IdleTask]
      /\ registry' = [registry EXCEPT ![tasks[t].session] = tasks[t].workbench]
  BY DEF Activate
<1>3. ServiceOK' /\ Len(events) <= Len(events')
  BY <1>2, ServiceStays DEF TypeInv
<1>4. ControlOK' /\ Grown
  BY <1>1, <1>2, NoneIsNothing DEF Activate, TypeInv, ControlOK, Grown, pi, service
<1>5. TasksOK'
  <2>1. TaskOK(IdleTask)'
    BY IdleOK, PTL
  <2> QED
    BY <1>2, <1>4, <2>1, OneTask DEF TypeInv
<1>6. tasks'[Reader] = IdleTask \/ tasks'[Reader] = tasks[Reader]
  BY <1>2, ReaderIsATask DEF TypeInv, TasksOK
<1>7. ReaderOK'
  BY <1>2, <1>3, <1>6, IdleOK, ReaderStays DEF TypeInv
<1> QED
  BY <1>3, <1>4, <1>5, <1>7 DEF TypeInv

-----------------------------------------------------------------------------
(* The agent, and what goes wrong *)

LEMMA BeginTurnOK ==
    ASSUME TypeInv, NEW s \in Sessions, BeginTurn(s)
    PROVE  TypeInv'
<1>1. ServiceOK' /\ Len(events) <= Len(events')
  BY ServiceStays DEF TypeInv, BeginTurn
<1>2. ControlOK' /\ Grown /\ reader' = reader /\ tasks' = tasks
  BY DEF BeginTurn, TypeInv, ControlOK, Grown, service
<1> QED
  BY <1>1, <1>2, NoTaskType

\* The tasks that waited for the turn go on when it ends, well or not.
LEMMA TurnOver ==
    ASSUME TypeInv, NEW s \in Sessions, ControlOK', UNCHANGED <<service, registry, reader>>,
           tasks' = [t \in Tasks |->
               IF tasks[t].pc = "wait" /\ tasks[t].session = s
                 THEN [tasks[t] EXCEPT !.pc = "confirm"] ELSE tasks[t]]
    PROVE  TypeInv'
<1>1. ServiceOK' /\ Len(events) <= Len(events')
  BY ServiceStays DEF TypeInv
<1>2. Grown
  BY DEF Grown, service
<1> PICK new : new = [t \in Tasks |->
        IF tasks[t].pc = "wait" /\ tasks[t].session = s
          THEN [tasks[t] EXCEPT !.pc = "confirm"] ELSE tasks[t]]
  OBVIOUS
<1>3. \A u \in Tasks : \/ new[u] = tasks[u]
                       \/ /\ TaskOK(new[u]) /\ new[u].rest = tasks[u].rest
                          /\ tasks[u].pc # "idle"
  <2> TAKE u \in Tasks
  <2>1. CASE tasks[u].pc = "wait" /\ tasks[u].session = s
    <3> PICK task, me : task = tasks[u] /\ me = new[u]
      OBVIOUS
    <3>1. me = [task EXCEPT !.pc = "confirm"]
      BY <2>1
    <3>2. task \in Task /\ TaskOK(task) /\ task.pc \in MessagePcs /\ "confirm" \in MessagePcs
      BY <2>1, AtWork DEF MessagePcs
    <3>3. TaskOK(me) /\ me.rest = task.rest
      BY <3>1, <3>2, MovesOn
    <3> QED
      BY <2>1, <3>3
  <2>2. CASE ~(tasks[u].pc = "wait" /\ tasks[u].session = s)
    BY <2>2
  <2> QED
    BY <2>1, <2>2
<1>4. tasks' = [u \in Tasks |-> new[u]]
  OBVIOUS
<1> QED
  BY <1>1, <1>2, <1>3, <1>4, ManyTasks

LEMMA EndTurnOK ==
    ASSUME TypeInv, NEW s \in Sessions, EndTurn(s)
    PROVE  TypeInv'
<1>1. [m \in Messages |-> IF m \in followups[s] THEN journal[s][m] + 1 ELSE journal[s][m]]
          \in [Messages -> Nat]
  BY DEF TypeInv, ControlOK
<1>2. journal' \in [Sessions -> [Messages -> Nat]]
  BY <1>1 DEF EndTurn, TypeInv, ControlOK
<1>3. ControlOK'
  BY <1>2 DEF EndTurn, TypeInv, ControlOK
<1> QED
  BY <1>3, TurnOver DEF EndTurn

LEMMA FaultCounted ==
    ASSUME TypeInv, Fault
    PROVE  faults' \in 0..MaxFaults
BY Bounds DEF Fault, TypeInv, ControlOK

LEMMA AbortTurnOK ==
    ASSUME TypeInv, NEW s \in Sessions, AbortTurn(s)
    PROVE  TypeInv'
<1>1. faults' \in 0..MaxFaults
  BY FaultCounted DEF AbortTurn
<1>2. ControlOK'
  BY <1>1 DEF AbortTurn, TypeInv, ControlOK
<1> QED
  BY <1>2, TurnOver DEF AbortTurn

LEMMA LoseRequestOK ==
    ASSUME TypeInv, NEW t \in Tasks, LoseRequest(t)
    PROVE  TypeInv'
<1>1. /\ FailAll({t}) /\ UNCHANGED <<registry, pi, injecting, offline, binds>>
      /\ UNCHANGED service /\ messages' = messages
  BY DEF LoseRequest, Fail, service
<1>2. ServiceOK' /\ Len(events) <= Len(events') /\ faults' \in 0..MaxFaults
  BY <1>1, ServiceStays, FaultCounted DEF TypeInv, LoseRequest
<1> QED
  BY <1>1, <1>2, FailType

LEMMA LoseResponseOK ==
    ASSUME TypeInv, NEW t \in Tasks, LoseResponse(t)
    PROVE  TypeInv'
<1> PICK task : task = tasks[t]
  OBVIOUS
<1>1. /\ task \in Task /\ task.pc \in {"receive", "mark", "acknowledge"}
      /\ task.message \in Messages /\ ToSession(task.message, task.session)
  BY AtWork DEF LoseResponse, MessagePcs
<1>2. /\ ServiceOK' /\ messages' = messages
      /\ Len(events) \in Nat /\ Len(events') = Len(events) + 1
  BY <1>1, TransitionOK DEF LoseResponse, TypeInv, ToSession
<1>3. FailAll({t}) /\ UNCHANGED <<registry, pi, injecting, offline, binds>>
  BY DEF LoseResponse, Fail
<1>4. faults' \in 0..MaxFaults
  BY FaultCounted DEF LoseResponse
<1> QED
  BY <1>2, <1>3, <1>4, FailType

LEMMA BreakStreamOK ==
    ASSUME TypeInv, BreakStream
    PROVE  TypeInv'
<1>1. /\ FailAll({Reader}) /\ UNCHANGED <<registry, pi, injecting, offline, binds>>
      /\ UNCHANGED service /\ messages' = messages
  BY DEF BreakStream, Fail, service
<1>2. ServiceOK' /\ Len(events) <= Len(events') /\ faults' \in 0..MaxFaults
  BY <1>1, ServiceStays, FaultCounted DEF TypeInv, BreakStream
<1> QED
  BY <1>1, <1>2, FailType

LEMMA StopOK ==
    ASSUME TypeInv, Stop
    PROVE  TypeInv'
<1>1. ServiceOK'
  BY ServiceStays DEF TypeInv, Stop
<1>2. faults' \in 0..MaxFaults
  BY FaultCounted DEF Stop
<1>3. ControlOK'
  BY <1>2 DEF Stop, TypeInv, ControlOK
<1>4. TasksOK'
  <2>1. TaskOK(IdleTask)'
    BY IdleOK, PTL
  <2> QED
    BY <2>1 DEF Stop, TasksOK
<1>5. ReaderOK'
  BY <1>1, ReaderIsATask, IdleOK DEF Stop, ServiceOK, ReaderOK
<1> QED
  BY <1>1, <1>3, <1>4, <1>5 DEF TypeInv

LEMMA TypeNext == TypeInv /\ [Next]_vars => TypeInv'
<1> SUFFICES ASSUME TypeInv, [Next]_vars PROVE TypeInv'
  OBVIOUS
<1>1. CASE UNCHANGED vars
  <2>1. UNCHANGED <<service, registry, pi, injecting, tasks, reader, offline, binds, faults>>
    BY <1>1 DEF vars
  <2>2. ServiceOK' /\ Len(events) <= Len(events') /\ ControlOK' /\ Grown
    BY <2>1, ServiceStays DEF TypeInv, ControlOK, Grown, pi, service
  <2> QED
    BY <2>1, <2>2, NoTaskType
<1>2. CASE \E s \in Sessions :
              Register(s) \/ Open(s) \/ BeginTurn(s) \/ EndTurn(s) \/ AbortTurn(s)
  BY <1>2, RegisterOK, OpenOK, BeginTurnOK, EndTurnOK, AbortTurnOK
<1>3. CASE \E m \in Messages, from, to \in Sessions, kind \in Kinds,
              parent \in Messages \cup {None} : QueueMessage(m, from, to, kind, parent)
  BY <1>3, QueueOK
<1>4. CASE \/ \E t \in Tasks, s \in Sessions, after \in 0..Len(events), limit \in 1..MaxPage :
                 Deliver(t, s, after, limit)
           \/ \E t \in Tasks, m \in Messages : Acknowledge(t, m)
           \/ \E t \in Tasks, s \in Sessions, w \in Workbenches : Bind(t, s, w)
  BY <1>4, DeliverOK, AcknowledgeOK, BindTaskOK
<1>5. CASE Read \/ HandleEvent
  BY <1>5, ReadOK, HandleEventOK
<1>6. CASE \E t \in Tasks : Advance(t)
  BY <1>6, ReceiveOK, CheckOK, InjectOK, SendOK, ConfirmOK, SettleOK, RefusedOK, CommitBindOK,
     ActivateOK DEF Advance
<1>7. CASE \E t \in Tasks : LoseRequest(t) \/ LoseResponse(t)
  BY <1>7, LoseRequestOK, LoseResponseOK
<1>8. CASE BreakStream \/ Stop
  BY <1>8, BreakStreamOK, StopOK
<1> QED
  BY <1>1, <1>2, <1>3, <1>4, <1>5, <1>6, <1>7, <1>8 DEF Next

\* Every variable holds what the code can put there, in particular: a reader is inside
\* its batch and a batch inside the log (domain-event-stream-client.ts read).
THEOREM FabricTypeOK == Spec => []TypeOK
<1>1. Spec => []TypeInv
  BY TypeInit, TypeNext, PTL DEF Spec
<1> QED
  BY <1>1, TypeInvTypes, PTL
-----------------------------------------------------------------------------
(* The event log *)

\* The events of a message.
Told(m) ==
    {i \in DOMAIN events : events[i].type \in ReceiptStates /\ events[i].subject = m}

ToldStates(m) == {events[i].type : i \in Told(m)}

FirstStates(n) == {States[k] : k \in 1..n}

\* The events of a message stand in the order of the states that they tell.
InOrder(m) ==
    \A i, j \in Told(m) : i < j =>
        \E k, l \in 1..4 : k < l /\ events[i].type = States[k] /\ events[j].type = States[l]

\* What EventsTellReceipt says of one message.
Tells(m) ==
    IF receipts[m] = None
      THEN Told(m) = {}
      ELSE /\ receipts[m].state = States[receipts[m].version + 1]
           /\ ToldStates(m) = FirstStates(receipts[m].version + 1)
           /\ InOrder(m)

AllTell == \A m \in Messages : Tells(m)

LEMMA TellsAll == EventsTellReceipt <=> AllTell
BY DEF EventsTellReceipt, AllTell, Tells, Told, ToldStates, FirstStates, InOrder

LEMMA ToldStatesAre == \A m, x : x \in ToldStates(m) <=> \E i \in Told(m) : x = events[i].type
BY DEF ToldStates

LEMMA FirstStatesGrow ==
    /\ FirstStates(0 + 1) = {States[1]}
    /\ \A k \in Nat : /\ FirstStates(k + 1) = FirstStates(k) \cup {States[k + 1]}
                      /\ \A x \in FirstStates(k) : \E l \in 1..k : x = States[l]
<1>1. \A k \in Nat : \A l : l \in 1..(k + 1) <=> l \in 1..k \/ l = k + 1
  OBVIOUS
<1>2. \A k \in Nat : /\ FirstStates(k + 1) = FirstStates(k) \cup {States[k + 1]}
                     /\ \A x \in FirstStates(k) : \E l \in 1..k : x = States[l]
  BY <1>1 DEF FirstStates
<1>3. \A l : l \in 1..(0 + 1) <=> l = 1
  OBVIOUS
<1> QED
  BY <1>2, <1>3 DEF FirstStates

LEMMA ToldGrows ==
    ASSUME ServiceOK, NEW e \in EventRows, events' = Append(events, e), NEW m
    PROVE  /\ \A i \in Told(m) : i \in Nat /\ i < Len(events) + 1 /\ events'[i] = events[i]
           /\ e.type \in ReceiptStates /\ e.subject = m =>
                 Told(m)' = Told(m) \cup {Len(events) + 1}
           /\ ~(e.type \in ReceiptStates /\ e.subject = m) => Told(m)' = Told(m)
<1>1. /\ Len(events) \in Nat
      /\ DOMAIN events = 1..Len(events) /\ DOMAIN events' = 1..(Len(events) + 1)
      /\ \A i \in DOMAIN events : events'[i] = events[i]
      /\ events'[Len(events) + 1] = e
  BY ServiceAppends
<1>2. \A i \in Told(m) : i \in Nat /\ i < Len(events) + 1 /\ events'[i] = events[i]
  BY <1>1 DEF Told
<1>3. \A i \in 1..Len(events) : i \in Told(m)' <=> i \in Told(m)
  BY <1>1 DEF Told
<1>4. Told(m)' \subseteq 1..(Len(events) + 1) /\ Told(m) \subseteq 1..Len(events)
  BY <1>1 DEF Told
<1>5. Len(events) + 1 \in Told(m)' <=> e.type \in ReceiptStates /\ e.subject = m
  BY <1>1 DEF Told
<1>6. \A i : i \in 1..(Len(events) + 1) <=> i \in 1..Len(events) \/ i = Len(events) + 1
  BY <1>1
<1> QED
  BY <1>2, <1>3, <1>4, <1>5, <1>6

\* Neither the events of a message nor its receipt change.
LEMMA TellsSame ==
    ASSUME NEW m, Tells(m), receipts'[m] = receipts[m], Told(m)' = Told(m),
           \A i \in Told(m) : events'[i] = events[i]
    PROVE  Tells(m)'
<1>1. \A x : x \in ToldStates(m)' <=> x \in ToldStates(m)
  BY DEF ToldStates
<1>2. ToldStates(m)' = ToldStates(m)
  BY <1>1
<1>3. InOrder(m) => InOrder(m)'
  BY DEF InOrder
<1>4. \A n : FirstStates(n)' = FirstStates(n)
  BY DEF FirstStates, States
<1> QED
  BY <1>2, <1>3, <1>4 DEF Tells

\* The new event tells of another message, or of none.
LEMMA TellsStays ==
    ASSUME ServiceOK, NEW e \in EventRows, events' = Append(events, e), NEW m,
           e.type \notin ReceiptStates \/ e.subject # m,
           receipts'[m] = receipts[m], Tells(m)
    PROVE  Tells(m)'
BY ToldGrows, TellsSame

LEMMA TellsQueued ==
    ASSUME ServiceOK, NEW m \in Messages, receipts[m] = None, Tells(m),
           NEW e \in EventRows, e.type = "queued", e.subject = m, events' = Append(events, e),
           NEW receipt, receipts'[m] = receipt, receipt # None,
           receipt.state = "queued", receipt.version = 0
    PROVE  Tells(m)'
<1>1. Told(m) = {} /\ "queued" \in ReceiptStates
  BY DEF Tells, ReceiptStates
<1>2. Told(m)' = {Len(events) + 1}
  BY <1>1, ToldGrows
<1>3. events'[Len(events) + 1].type = "queued" /\ Len(events) + 1 \in Nat
  BY ServiceAppends
<1>4. ToldStates(m)' = {"queued"}
  BY <1>2, <1>3 DEF ToldStates
<1>5. FirstStates(0 + 1) = {"queued"}
  BY FirstStatesGrow, StatesAre
<1>6. InOrder(m)'
  <2>1. \A i, j \in Told(m)' : ~(i < j)
    BY <1>2, <1>3
  <2> QED
    BY <2>1 DEF InOrder
<1> QED
  BY <1>4, <1>5, <1>6, StatesAre DEF Tells

\* The receipt of a message moves on from its k-th state, and its last event is the n-th.
LEMMA MoveTold ==
    ASSUME NEW m \in Messages, NEW k \in 1..3, Tells(m),
           receipts[m] # None, receipts[m].version = k - 1,
           NEW n \in Nat, events'[n].type = States[k + 1], Told(m)' = Told(m) \cup {n},
           \A i \in Told(m) : i \in Nat /\ i < n /\ events'[i] = events[i],
           receipts'[m].state = States[k + 1], receipts'[m].version = k, receipts'[m] # None
    PROVE  Tells(m)'
<1>1. ToldStates(m) = FirstStates(k) /\ InOrder(m)
  <2>1. k - 1 + 1 = k
    OBVIOUS
  <2> QED
    BY <2>1 DEF Tells
<1>2. k \in Nat
  OBVIOUS
<1>3. /\ FirstStates(k + 1) = FirstStates(k) \cup {States[k + 1]}
      /\ \A x \in FirstStates(k) : \E l \in 1..k : x = States[l]
  BY <1>2, FirstStatesGrow
<1>4. ToldStates(m)' = FirstStates(k + 1)
  <2>1. \A x : x \in ToldStates(m)' <=> \E i \in Told(m)' : x = events'[i].type
    BY DEF ToldStates
  <2>2. \A x : x \in ToldStates(m) <=> \E i \in Told(m) : x = events[i].type
    BY ToldStatesAre
  <2>3. \A x \in ToldStates(m)' : x \in ToldStates(m) \/ x = States[k + 1]
    BY <2>1, <2>2
  <2>4. ToldStates(m) \subseteq ToldStates(m)' /\ States[k + 1] \in ToldStates(m)'
    BY <2>1, <2>2
  <2>5. ToldStates(m)' = ToldStates(m) \cup {States[k + 1]}
    BY <2>3, <2>4
  <2> QED
    BY <1>1, <1>3, <2>5
<1>5. ASSUME NEW i \in Told(m)', NEW j \in Told(m)', i < j
      PROVE  \E a, b \in 1..4 : a < b /\ events'[i].type = States[a] /\ events'[j].type = States[b]
  <2>1. i \in Told(m)
    BY <1>5
  <2>2. CASE j \in Told(m)
    <3>1. \E a, b \in 1..4 : a < b /\ events[i].type = States[a] /\ events[j].type = States[b]
      BY <1>1, <1>5, <2>1, <2>2 DEF InOrder
    <3> QED
      BY <2>1, <2>2, <3>1
  <2>3. CASE j = n
    <3>1. events[i].type \in FirstStates(k)
      BY <1>1, <2>1, ToldStatesAre
    <3>2. PICK a \in 1..k : events[i].type = States[a]
      BY <1>3, <3>1
    <3>3. a < k + 1 /\ a \in 1..4 /\ k + 1 \in 1..4
      OBVIOUS
    <3>4. events'[i].type = States[a] /\ events'[j].type = States[k + 1]
      BY <2>1, <2>3, <3>2
    <3> QED
      BY <3>3, <3>4
  <2> QED
    BY <2>2, <2>3
<1>6. InOrder(m)'
  BY <1>5 DEF InOrder
<1>7. FirstStates(receipts[m].version + 1)' = FirstStates(k + 1)
  BY DEF FirstStates, States
<1> QED
  BY <1>4, <1>6, <1>7 DEF Tells

LEMMA TellsMoved ==
    ASSUME ServiceOK, NEW m \in Messages, NEW k \in 1..3, Tells(m),
           receipts[m] # None, receipts[m].version = k - 1,
           NEW e \in EventRows, e.type = States[k + 1], e.subject = m,
           events' = Append(events, e),
           NEW receipt, receipts'[m] = receipt, receipt # None,
           receipt.state = States[k + 1], receipt.version = k
    PROVE  Tells(m)'
<1> PICK n : n = Len(events) + 1
  OBVIOUS
<1>1. e.type \in ReceiptStates
  BY StatesAre DEF ReceiptStates
<1>2. /\ Told(m)' = Told(m) \cup {n}
      /\ \A i \in Told(m) : i \in Nat /\ i < n /\ events'[i] = events[i]
  BY <1>1, ToldGrows
<1>3. events'[n] = e /\ n \in Nat
  BY ServiceAppends
<1>4. receipts'[m].state = States[k + 1] /\ receipts'[m].version = k /\ receipts'[m] # None
  OBVIOUS
<1>5. events'[n].type = States[k + 1]
  BY <1>3
<1> QED
  BY <1>2, <1>3, <1>4, <1>5, MoveTold

\* A transition that the service accepts is told.
LEMMA TransitionTold ==
    ASSUME TypeInv, EventsTellReceipt, NEW t \in Tasks,
           tasks[t].pc \in {"receive", "mark", "acknowledge"},
           TransitionAllowed(tasks[t]), Transition(tasks[t])
    PROVE  EventsTellReceipt'
<1> PICK task, m, k : task = tasks[t] /\ m = task.message /\ k = Required(task.pc)
  OBVIOUS
<1>1. m \in Messages /\ task \in Task /\ messages[m] # None
  BY AtWork DEF MessagePcs, ToSession
<1>2. k \in 1..3
  BY DEF Required
<1>3. receipts[m] = [state |-> States[k], version |-> task.version] /\ receipts[m] # None
  BY <1>1 DEF TransitionAllowed, TypeInv, ServiceOK
<1>4. task.version = k - 1
  <2>1. States[k] = States[task.version + 1] /\ task.version \in 0..3
    BY <1>1, <1>3 DEF TypeInv, ServiceOK, Task
  <2> QED
    BY <1>2, <2>1, StatesAre
<1> PICK next, receipt, e : /\ next = States[k + 1]
                            /\ receipt = [state |-> next, version |-> task.version + 1]
                            /\ e = Event(next, m)
  OBVIOUS
<1>5. next \in ReceiptStates
  BY <1>2, StatesAre DEF ReceiptStates
<1>6. e \in EventRows /\ e.type = States[k + 1] /\ e.subject = m
  BY <1>1, <1>5 DEF Event, EventRows
<1>7. receipt.state = States[k + 1] /\ receipt.version = k
  BY <1>2, <1>4
<1>8. receipt # None
  <2>1. receipt \in Receipt
    BY <1>2, <1>4, <1>5 DEF Receipt
  <2> QED
    BY <2>1, NoneIsNothing
<1>9. events' = Append(events, e) /\ receipts' = [receipts EXCEPT ![m] = receipt]
  BY Zenon DEF Transition
<1>10. receipts'[m] = receipt /\ \A n \in Messages : n # m => receipts'[n] = receipts[n]
  BY <1>1, <1>9 DEF TypeInv, ServiceOK
<1>11. \A n \in Messages : Tells(n)
  BY TellsAll DEF AllTell
<1>12. ServiceOK
  BY DEF TypeInv
<1>13. receipts[m].version = k - 1
  BY <1>3, <1>4
<1>14. Tells(m)'
  BY <1>1, <1>2, <1>3, <1>6, <1>7, <1>8, <1>9, <1>10, <1>11, <1>12, <1>13, TellsMoved
<1>15. ASSUME NEW n \in Messages, n # m
       PROVE  Tells(n)'
  BY <1>6, <1>9, <1>10, <1>11, <1>12, <1>15, TellsStays
<1>16. \A n \in Messages : Tells(n)'
  BY <1>14, <1>15
<1>17. (EventsTellReceipt <=> AllTell)'
  BY TellsAll, PTL
<1> QED
  BY <1>16, <1>17 DEF AllTell

\* An event that tells of no message.
LEMMA OtherTold ==
    ASSUME TypeInv, EventsTellReceipt, NEW e \in EventRows, e.type \notin ReceiptStates,
           events' = Append(events, e), receipts' = receipts
    PROVE  EventsTellReceipt'
<1>1. \A m \in Messages : Tells(m)
  BY TellsAll DEF AllTell
<1>2. \A m \in Messages : Tells(m)'
  BY <1>1, TellsStays DEF TypeInv
<1>3. (EventsTellReceipt <=> AllTell)'
  BY TellsAll, PTL
<1> QED
  BY <1>2, <1>3 DEF AllTell

LEMMA QueuedTold ==
    ASSUME TypeInv, EventsTellReceipt,
           NEW m \in Messages, NEW from \in Sessions, NEW to \in Sessions,
           NEW kind \in Kinds, NEW parent \in Messages \cup {None},
           QueueMessage(m, from, to, kind, parent)
    PROVE  EventsTellReceipt'
<1> PICK e, receipt : e = Event("queued", m) /\ receipt = [state |-> "queued", version |-> 0]
  OBVIOUS
<1>1. e \in EventRows /\ e.type = "queued" /\ e.subject = m
  BY DEF Event, EventRows, ReceiptStates
<1>2. receipt # None /\ receipt.state = "queued" /\ receipt.version = 0
  <2>1. receipt \in Receipt
    BY DEF Receipt, ReceiptStates
  <2> QED
    BY <2>1, NoneIsNothing
<1>3. events' = Append(events, e) /\ receipts' = [receipts EXCEPT ![m] = receipt]
  BY DEF QueueMessage
<1>4. receipts[m] = None /\ ServiceOK
  BY DEF QueueMessage, TypeInv, ServiceOK
<1>5. receipts'[m] = receipt /\ \A n \in Messages : n # m => receipts'[n] = receipts[n]
  BY <1>3, <1>4 DEF ServiceOK
<1>6. \A n \in Messages : Tells(n)
  BY TellsAll DEF AllTell
<1>7. Tells(m)'
  BY <1>1, <1>2, <1>3, <1>4, <1>5, <1>6, TellsQueued
<1>8. ASSUME NEW n \in Messages, n # m
      PROVE  Tells(n)'
  BY <1>1, <1>3, <1>4, <1>5, <1>6, <1>8, TellsStays
<1>9. \A n \in Messages : Tells(n)'
  BY <1>7, <1>8
<1>10. (EventsTellReceipt <=> AllTell)'
  BY TellsAll, PTL
<1> QED
  BY <1>9, <1>10 DEF AllTell

LEMMA LogQuiet ==
    ASSUME EventsTellReceipt, UNCHANGED <<events, receipts>>
    PROVE  EventsTellReceipt'
<1>1. \A m : Told(m)' = Told(m)
  BY DEF Told
<1>2. \A m \in Messages : Tells(m)'
  BY <1>1, TellsAll, TellsSame DEF AllTell
<1>3. (EventsTellReceipt <=> AllTell)'
  BY TellsAll, PTL
<1> QED
  BY <1>2, <1>3 DEF AllTell

LEMMA LogInit == Init => EventsTellReceipt
BY DEF Init, EventsTellReceipt

LEMMA LogNext == TypeInv /\ EventsTellReceipt /\ [Next]_vars => EventsTellReceipt'
<1> SUFFICES ASSUME TypeInv, EventsTellReceipt, [Next]_vars PROVE EventsTellReceipt'
  OBVIOUS
<1>1. CASE UNCHANGED vars
  BY <1>1, LogQuiet DEF vars, service
<1>2. ASSUME NEW s \in Sessions, Register(s)
      PROVE  EventsTellReceipt'
  <2> PICK e : e = Event("registered", s)
    OBVIOUS
  <2>1. e \in EventRows /\ e.type \notin ReceiptStates
    BY DEF Event, EventRows, ReceiptStates
  <2>2. events' = Append(events, e) /\ receipts' = receipts
    BY <1>2 DEF Register
  <2> QED
    BY <2>1, <2>2, OtherTold
<1>3. ASSUME NEW s \in Sessions, Open(s) \/ BeginTurn(s) \/ EndTurn(s) \/ AbortTurn(s)
      PROVE  EventsTellReceipt'
  BY <1>3, LogQuiet DEF Open, BeginTurn, EndTurn, AbortTurn, service
<1>4. CASE \E m \in Messages, from, to \in Sessions, kind \in Kinds,
              parent \in Messages \cup {None} : QueueMessage(m, from, to, kind, parent)
  BY <1>4, QueuedTold
<1>5. CASE \/ \E t \in Tasks, s \in Sessions, after \in 0..Len(events), limit \in 1..MaxPage :
                 Deliver(t, s, after, limit)
           \/ \E t \in Tasks, m \in Messages : Acknowledge(t, m)
           \/ \E t \in Tasks, s \in Sessions, w \in Workbenches : Bind(t, s, w)
           \/ Read \/ HandleEvent \/ BreakStream \/ Stop
  BY <1>5, LogQuiet DEF Deliver, Acknowledge, Bind, Read, HandleEvent, BreakStream, Stop, service
<1>6. ASSUME NEW t \in Tasks, Receive(t) \/ MarkOrAcknowledge(t) \/ LoseResponse(t)
      PROVE  EventsTellReceipt'
  BY <1>6, TransitionTold DEF Receive, MarkOrAcknowledge, LoseResponse
<1>7. ASSUME NEW t \in Tasks, CommitBind(t)
      PROVE  EventsTellReceipt'
  <2> PICK e : e = Event("bound", tasks[t].session)
    OBVIOUS
  <2>1. tasks[t].session \in Sessions
    BY <1>7, AtWork DEF CommitBind
  <2>2. e \in EventRows /\ e.type \notin ReceiptStates
    BY <2>1 DEF Event, EventRows, ReceiptStates
  <2>3. \/ UNCHANGED <<events, receipts>>
        \/ events' = Append(events, e) /\ receipts' = receipts
    BY <1>7 DEF CommitBind, service
  <2> QED
    BY <2>2, <2>3, OtherTold, LogQuiet
<1>8. ASSUME NEW t \in Tasks,
             \/ Check(t) \/ Inject(t) \/ Send(t) \/ Confirm(t) \/ Refused(t) \/ Activate(t)
             \/ LoseRequest(t)
      PROVE  EventsTellReceipt'
  BY <1>8, LogQuiet DEF Check, Inject, Send, Confirm, Refused, Activate, LoseRequest, service
<1> QED
  BY <1>1, <1>2, <1>3, <1>4, <1>5, <1>6, <1>7, <1>8 DEF Next, Advance

\* The log tells the states of each receipt, every one of them once and in order,
\* whichever tasks moved it (domain.py _transition_message_receipt).
THEOREM LogTellsReceipts == Spec => []EventsTellReceipt
BY TypeInit, TypeNext, LogInit, LogNext, PTL DEF Spec

-----------------------------------------------------------------------------
(* The reader of the stream *)

\* The reader delivers the message of the event that it has not put behind it.
AtEvent ==
    tasks[Reader].pc \in MessagePcs => events[reader.handled + 1].subject = tasks[Reader].message

ReaderInv == NothingPassedOver /\ AtEvent

\* The log is only appended to, and what is settled stays settled.
Kept ==
    /\ \A i \in DOMAIN events : events'[i] = events[i]
    /\ \A m \in Messages : Settled(m) => Settled(m)'

LEMMA KeptQuiet ==
    ASSUME UNCHANGED <<events, receipts>>
    PROVE  Kept
BY DEF Kept, Settled

LEMMA KeptAppend ==
    ASSUME TypeInv, NEW e \in EventRows, events' = Append(events, e),
           \A m \in Messages : receipts[m] # None => receipts'[m] = receipts[m]
    PROVE  Kept
<1>1. \A i \in DOMAIN events : events'[i] = events[i]
  BY ServiceAppends DEF TypeInv
<1>2. \A m \in Messages : Settled(m) => Settled(m)'
  BY DEF Settled
<1> QED
  BY <1>1, <1>2 DEF Kept

\* A transition leaves its receipt settled if it was, or if the command is a mark.
LEMMA KeptTransition ==
    ASSUME TypeInv, NEW t \in Tasks, tasks[t].pc \in {"receive", "mark", "acknowledge"},
           TransitionAllowed(tasks[t]), Transition(tasks[t]), NEW m, m = tasks[t].message
    PROVE  /\ Kept
           /\ tasks[t].pc # "receive" => Settled(m)'
           /\ \A n \in Messages : Settled(n)' =>
                 Settled(n) \/ (n = m /\ tasks[t].pc = "mark")
<1> PICK task, k : task = tasks[t] /\ k = Required(task.pc)
  OBVIOUS
<1> PICK next, receipt, e : /\ next = States[k + 1]
                            /\ receipt = [state |-> next, version |-> task.version + 1]
                            /\ e = Event(next, m)
  OBVIOUS
<1>1. m \in Messages /\ task \in Task
  BY AtWork DEF MessagePcs
<1>2. /\ k \in 1..3 /\ next \in ReceiptStates /\ receipt.state = next
      /\ task.pc = "receive" => next = "receiver_received" /\ States[k] = "queued"
      /\ task.pc = "mark" => next = "injected"
      /\ task.pc = "acknowledge" => next = "acknowledged" /\ States[k] = "injected"
  BY StatesAre DEF Required, ReceiptStates
<1>3. receipts[m] = [state |-> States[k], version |-> task.version]
  BY DEF TransitionAllowed
<1>4. receipts' = [receipts EXCEPT ![m] = receipt] /\ events' = Append(events, e)
  BY Zenon DEF Transition
<1>5. receipts'[m] = receipt /\ \A n \in Messages : n # m => receipts'[n] = receipts[n]
  BY <1>1, <1>4 DEF TypeInv, ServiceOK
<1>6. receipt # None
  <2>1. ServiceOK'
    BY <1>1, TransitionOK, AtWork DEF TypeInv, MessagePcs, ToSession
  <2>2. messages'[m] # None
    BY AtWork DEF Transition, MessagePcs, ToSession
  <2> QED
    BY <1>1, <1>5, <2>1, <2>2 DEF ServiceOK
<1>7. receipts[m] # None
  BY <1>1, AtWork DEF TypeInv, ServiceOK, MessagePcs, ToSession
<1>8. receipts[m].state = States[k] /\ receipts'[m].state = next /\ receipts'[m] # None
  BY <1>2, <1>3, <1>5, <1>6
<1>9. e \in EventRows
  BY <1>1, <1>2 DEF Event, EventRows
<1>10. \A i \in DOMAIN events : events'[i] = events[i]
  BY <1>4, <1>9, ServiceAppends DEF TypeInv
<1>11. \A n \in Messages : n # m => (Settled(n) <=> Settled(n)')
  BY <1>5 DEF Settled
<1>12. task.pc = "receive" => ~Settled(m)' /\ ~Settled(m)
  BY <1>2, <1>8 DEF Settled
<1>13. task.pc # "receive" => Settled(m)'
  BY <1>2, <1>8 DEF Settled
<1>14. task.pc = "acknowledge" => Settled(m)
  BY <1>2, <1>7, <1>8 DEF Settled
<1>15. \A n \in Messages : Settled(n) => Settled(n)'
  BY <1>11, <1>12, <1>13
<1>16. \A n \in Messages : Settled(n)' => Settled(n) \/ (n = m /\ task.pc = "mark")
  BY <1>11, <1>12, <1>14
<1> QED
  BY <1>10, <1>13, <1>15, <1>16 DEF Kept

\* The reader puts no further event behind it.
LEMMA ReaderGoesOn ==
    ASSUME TypeInv, ReaderInv, Kept, offline \subseteq offline',
           reader'.handled \in Nat, reader'.handled <= reader.handled,
           \/ tasks'[Reader].pc \notin MessagePcs
           \/ /\ reader' = reader /\ tasks[Reader].pc \in MessagePcs
              /\ tasks'[Reader].message = tasks[Reader].message
    PROVE  ReaderInv'
<1>1. reader.handled \in Nat /\ \A i \in 1..reader.handled : i \in DOMAIN events
  BY DEF TypeInv, ServiceOK, ReaderOK
<1>2. NothingPassedOver'
  <2> SUFFICES ASSUME NEW i \in 1..reader'.handled, NEW m, m = events'[i].subject,
                      events'[i].type = "queued"
               PROVE  Settled(m)' \/ m \in offline'
    BY DEF NothingPassedOver, Settled
  <2>1. i \in 1..reader.handled /\ i \in DOMAIN events /\ events'[i] = events[i]
    BY <1>1 DEF Kept
  <2>2. m \in Messages /\ m = events[i].subject
    BY <2>1 DEF TypeInv, ServiceOK, ReceiptStates
  <2>3. Settled(m) \/ m \in offline
    BY <2>1, <2>2 DEF ReaderInv, NothingPassedOver
  <2>4. Settled(m)' \/ m \in offline'
    BY <2>2, <2>3 DEF Kept
  <2> QED
    BY <2>4
<1>3. AtEvent'
  <2> SUFFICES ASSUME tasks'[Reader].pc \in MessagePcs
               PROVE  events'[reader'.handled + 1].subject = tasks'[Reader].message
    BY DEF AtEvent
  <2>1. reader.handled + 1 \in DOMAIN events
    BY DEF TypeInv, ServiceOK, ReaderOK, MessagePcs
  <2> QED
    BY <2>1 DEF Kept, ReaderInv, AtEvent
<1> QED
  BY <1>2, <1>3 DEF ReaderInv

\* The reader is not the task that moves, or goes on with its message.
LEMMA ReaderTask ==
    ASSUME TypeInv, ReaderInv, Kept, offline' = offline, reader' = reader,
           \/ tasks'[Reader] = tasks[Reader] \/ tasks'[Reader].pc \notin MessagePcs
           \/ /\ tasks[Reader].pc \in MessagePcs
              /\ tasks'[Reader].message = tasks[Reader].message
    PROVE  ReaderInv'
<1>1. reader'.handled \in Nat /\ reader'.handled <= reader.handled
  BY DEF TypeInv, ReaderOK
<1> QED
  BY <1>1, ReaderGoesOn

LEMMA ReaderFails ==
    ASSUME TypeInv, ReaderInv, Kept, offline' = offline, NEW failed, FailAll(failed)
    PROVE  ReaderInv'
<1>1. tasks'[Reader] = IF Reader \in failed THEN IdleTask ELSE tasks[Reader]
  BY ReaderIsATask DEF FailAll
<1>2. CASE Reader \in failed
  <2>1. tasks'[Reader].pc \notin MessagePcs
    BY <1>1, <1>2, IdleOK DEF MessagePcs
  <2>2. reader'.handled = reader.cursor
    BY <1>2 DEF FailAll, GivenUp, TypeInv, ReaderOK
  <2> QED
    BY <2>1, <2>2, ReaderGoesOn DEF TypeInv, ReaderOK
<1>3. CASE Reader \notin failed
  <2>1. reader' = reader
    BY <1>3 DEF FailAll
  <2> QED
    BY <1>1, <1>3, <2>1, ReaderTask
<1> QED
  BY <1>2, <1>3

\* The reader puts an event behind it.
LEMMA ReaderHandles ==
    ASSUME TypeInv, ReaderInv, Kept, offline \subseteq offline', reader' = Handled,
           tasks'[Reader].pc \notin MessagePcs, reader.handled < reader.end,
           NEW i, i = reader.handled + 1, NEW m, m = events[i].subject,
           events[i].type = "queued" => Settled(m)' \/ m \in offline'
    PROVE  ReaderInv'
<1>1. /\ reader.handled \in Nat /\ reader'.handled = reader.handled + 1
      /\ \A j \in 1..(reader.handled + 1) : j \in DOMAIN events
  BY DEF TypeInv, ServiceOK, ReaderOK, Handled
<1>2. NothingPassedOver'
  <2> SUFFICES ASSUME NEW j \in 1..reader'.handled, NEW n, n = events'[j].subject,
                      events'[j].type = "queued"
               PROVE  Settled(n)' \/ n \in offline'
    BY DEF NothingPassedOver, Settled
  <2>1. j \in DOMAIN events /\ events'[j] = events[j] /\ (j = i \/ j \in 1..reader.handled)
    BY <1>1 DEF Kept
  <2>2. CASE j = i
    BY <2>1, <2>2
  <2>3. CASE j \in 1..reader.handled
    <3>1. n \in Messages /\ n = events[j].subject
      BY <2>1 DEF TypeInv, ServiceOK, ReceiptStates
    <3>2. Settled(n) \/ n \in offline
      BY <2>1, <2>3, <3>1 DEF ReaderInv, NothingPassedOver
    <3> QED
      BY <3>1, <3>2 DEF Kept
  <2> QED
    BY <2>1, <2>2, <2>3
<1> QED
  BY <1>2 DEF ReaderInv, AtEvent

LEMMA HandleEventPasses ==
    ASSUME TypeInv, ReaderInv, HandleEvent
    PROVE  ReaderInv'
<1> PICK i, m : i = reader.handled + 1 /\ m = events[i].subject
  OBVIOUS
<1>1. UNCHANGED <<events, receipts>> /\ Kept
  BY KeptQuiet DEF HandleEvent, service
<1>2. /\ tasks[Reader].pc = "idle" /\ reader.handled < reader.end /\ i \in DOMAIN events
      /\ reader.handled \in Nat
  BY DEF HandleEvent, TypeInv, ReaderOK, ServiceOK
<1>3. CASE /\ events[i].type = "queued"
           /\ registry[messages[m].to] # None /\ Undelivered(Snapshot(i))
  <2>1. PICK me : /\ me.message = m /\ tasks' = [tasks EXCEPT ![Reader] = me]
                  /\ reader' = reader /\ offline' = offline
    BY <1>3, EventTask
  <2>2. tasks'[Reader] = me
    BY <2>1, ReaderIsATask DEF TypeInv, TasksOK
  <2>3. AtEvent'
    BY <1>1, <2>1, <2>2 DEF AtEvent
  <2>4. NothingPassedOver'
    BY <1>1, <2>1 DEF ReaderInv, NothingPassedOver, Settled
  <2> QED
    BY <2>3, <2>4 DEF ReaderInv
<1>4. CASE ~(/\ events[i].type = "queued"
             /\ registry[messages[m].to] # None /\ Undelivered(Snapshot(i)))
  <2>1. /\ tasks' = tasks /\ reader' = Handled /\ offline \subseteq offline'
        /\ events[i].type = "queued" => ~Undelivered(Snapshot(i)) \/ m \in offline'
    BY <1>4, EventPassed
  <2>2. events[i].type = "queued" => m \in Messages /\ receipts[m] # None /\ receipts[m] \in Receipt
    BY <1>2 DEF TypeInv, ServiceOK, ReceiptStates
  <2>3. events[i].type = "queued" /\ ~Undelivered(Snapshot(i)) => Settled(m)
    BY <2>2 DEF Undelivered, Snapshot, Settled, Receipt, ReceiptStates
  <2>4. Settled(m) => Settled(m)'
    BY <1>1 DEF Settled
  <2>5. tasks'[Reader].pc \notin MessagePcs
    BY <1>2, <2>1 DEF MessagePcs
  <2> QED
    BY <1>1, <1>2, <2>1, <2>3, <2>4, <2>5, ReaderHandles
<1> QED
  BY <1>3, <1>4

LEMMA SettlePasses ==
    ASSUME TypeInv, ReaderInv, NEW t \in Tasks, MarkOrAcknowledge(t)
    PROVE  ReaderInv'
<1> PICK me, m : me = NextDelivery(tasks[t]) /\ m = tasks[t].message
  OBVIOUS
<1>1. /\ tasks[t].pc \in {"mark", "acknowledge"} /\ offline' = offline
      /\ TransitionAllowed(tasks[t]) /\ Transition(tasks[t])
      /\ tasks' = [tasks EXCEPT ![t] = me]
      /\ reader' = IF t = Reader THEN Handled ELSE reader
  BY DEF MarkOrAcknowledge, Settle
<1>2. Kept /\ Settled(m)'
  BY <1>1, KeptTransition
<1>3. CASE t = Reader
  <2>1. me = IdleTask
    <3>1. /\ TaskOK(tasks[t]) /\ tasks[t].session \in Sessions
          /\ registry[tasks[t].session] # None /\ tasks[t].rest = {} /\ ControlOK
      BY <1>1, <1>3, AtWork, NoneIsNothing DEF TypeInv, ReaderOK
    <3> QED
      BY <3>1, NextDeliveryOK
  <2>2. tasks'[Reader].pc \notin MessagePcs
    BY <1>1, <1>3, <2>1, IdleOK DEF TypeInv, TasksOK, MessagePcs
  <2>3. reader.handled < reader.end /\ tasks[Reader].pc \in MessagePcs
    BY <1>1, <1>3 DEF TypeInv, ReaderOK, MessagePcs
  <2>4. events[reader.handled + 1].subject = m
    BY <1>3, <2>3 DEF ReaderInv, AtEvent
  <2> QED
    BY <1>1, <1>2, <1>3, <2>2, <2>3, <2>4, ReaderHandles
<1>4. CASE t # Reader
  <2>1. tasks'[Reader] = tasks[Reader] /\ reader' = reader
    BY <1>1, <1>4, ReaderIsATask DEF TypeInv, TasksOK
  <2> QED
    BY <1>1, <1>2, <2>1, ReaderTask
<1> QED
  BY <1>3, <1>4
LEMMA OneTaskPasses ==
    ASSUME TypeInv, ReaderInv, Kept, offline' = offline, reader' = reader,
           NEW t \in Tasks, NEW me, tasks' = [tasks EXCEPT ![t] = me],
           \/ t # Reader \/ me.pc \notin MessagePcs
           \/ tasks[t].pc \in MessagePcs /\ me.message = tasks[t].message
    PROVE  ReaderInv'
<1>1. tasks'[Reader] = IF t = Reader THEN me ELSE tasks[Reader]
  BY ReaderIsATask DEF TypeInv, TasksOK
<1> QED
  BY <1>1, ReaderTask

\* The delivery that a task makes is about the same message until it ends.
LEMMA DeliveryPasses ==
    ASSUME TypeInv, ReaderInv, NEW t \in Tasks,
           Receive(t) \/ Check(t) \/ Inject(t) \/ Send(t)
    PROVE  ReaderInv'
<1> PICK task : task = tasks[t]
  OBVIOUS
<1>1. TaskOK(task) /\ task \in Task /\ task.pc \in MessagePcs
  BY AtWork DEF Receive, Check, Inject, Send, MessagePcs
<1>2. offline' = offline /\ reader' = reader
  BY DEF Receive, Check, Inject, Send
<1>3. Kept
  <2>1. CASE Receive(t)
    <3> PICK m : m = tasks[t].message
      OBVIOUS
    <3> QED
      BY <2>1, KeptTransition DEF Receive
  <2>2. CASE Check(t) \/ Inject(t) \/ Send(t)
    BY <2>2, KeptQuiet DEF Check, Inject, Send, service
  <2> QED
    BY <2>1, <2>2
<1>4. PICK me :
          /\ tasks' = [tasks EXCEPT ![t] = me]
          /\ \/ me = [task EXCEPT !.pc = "check", !.version = @ + 1]
             \/ me = Marking(task)
             \/ \E pc \in MessagePcs : me = [task EXCEPT !.pc = pc]
  <2>1. CASE Receive(t)
    BY <2>1 DEF Receive
  <2>2. CASE Check(t)
    <3>1. \/ tasks' = [tasks EXCEPT ![t] = Marking(task)]
          \/ tasks' = [tasks EXCEPT ![t] = [task EXCEPT !.pc = "inject"]]
      BY <2>2 DEF Check
    <3> QED
      BY <3>1 DEF MessagePcs
  <2>3. CASE Inject(t)
    <3>1. \/ tasks' = [tasks EXCEPT ![t] = [task EXCEPT !.pc = "follow"]]
          \/ tasks' = [tasks EXCEPT ![t] = Marking(task)]
          \/ tasks' = [tasks EXCEPT ![t] = [task EXCEPT !.pc = "send"]]
      BY <2>3 DEF Inject
    <3> QED
      BY <3>1 DEF MessagePcs
  <2>4. CASE Send(t)
    <3>1. \/ tasks' = [tasks EXCEPT ![t] = [task EXCEPT !.pc = "wait"]]
          \/ tasks' = [tasks EXCEPT ![t] = [task EXCEPT !.pc = "confirm"]]
      BY <2>4 DEF Send
    <3> QED
      BY <3>1 DEF MessagePcs
  <2> QED
    BY <2>1, <2>2, <2>3, <2>4
<1>5. me.message = task.message
  BY <1>1, <1>4 DEF Marking, Task
<1> QED
  BY <1>1, <1>2, <1>3, <1>4, <1>5, OneTaskPasses

LEMMA ConfirmPasses ==
    ASSUME TypeInv, ReaderInv, NEW t \in Tasks, Confirm(t)
    PROVE  ReaderInv'
<1> PICK s, m, waiting : /\ s = tasks[t].session /\ m = tasks[t].message
                         /\ waiting = {t} \cup Followers(t)
  OBVIOUS
<1>1. Kept /\ offline' = offline
  BY KeptQuiet DEF Confirm, service
<1>2. CASE Journaled(s, m)
  <2>1. tasks'[Reader] = (IF Reader \in waiting THEN Marking(tasks[Reader]) ELSE tasks[Reader])
        /\ reader' = reader
    BY <1>2, ReaderIsATask DEF Confirm
  <2>2. CASE Reader \in waiting
    <3>1. tasks[Reader].pc \in MessagePcs /\ Reader \in Tasks
      BY <2>2, ReaderIsATask DEF Confirm, Followers, MessagePcs
    <3>2. tasks'[Reader].message = tasks[Reader].message
      BY <2>1, <2>2, <3>1, MarkingOK
    <3> QED
      BY <1>1, <2>1, <3>1, <3>2, ReaderTask
  <2>3. CASE Reader \notin waiting
    BY <1>1, <2>1, <2>3, ReaderTask
  <2> QED
    BY <2>2, <2>3
<1>3. CASE ~Journaled(s, m)
  <2>1. FailAll(waiting)
    BY <1>3 DEF Confirm
  <2> QED
    BY <1>1, <2>1, ReaderFails
<1> QED
  BY <1>2, <1>3

LEMMA TurnOverPasses ==
    ASSUME TypeInv, ReaderInv, NEW s \in Sessions, EndTurn(s) \/ AbortTurn(s)
    PROVE  ReaderInv'
<1>1. Kept /\ offline' = offline /\ reader' = reader
  BY KeptQuiet DEF EndTurn, AbortTurn, service
<1>2. tasks'[Reader] = IF tasks[Reader].pc = "wait" /\ tasks[Reader].session = s
                         THEN [tasks[Reader] EXCEPT !.pc = "confirm"] ELSE tasks[Reader]
  BY ReaderIsATask DEF EndTurn, AbortTurn
<1>3. CASE tasks[Reader].pc = "wait" /\ tasks[Reader].session = s
  <2>1. tasks[Reader] \in Task /\ tasks[Reader].pc \in MessagePcs
    BY <1>3, AtWork, ReaderIsATask DEF MessagePcs
  <2>2. tasks'[Reader].message = tasks[Reader].message
    BY <1>2, <1>3, <2>1 DEF Task
  <2> QED
    BY <1>1, <2>1, <2>2, ReaderTask
<1>4. CASE ~(tasks[Reader].pc = "wait" /\ tasks[Reader].session = s)
  BY <1>1, <1>2, <1>4, ReaderTask
<1> QED
  BY <1>3, <1>4

LEMMA ReaderInit == Init => ReaderInv
BY ReaderIsATask DEF Init, ReaderInv, NothingPassedOver, AtEvent, IdleTask, MessagePcs

LEMMA ReaderNext == TypeInv /\ ReaderInv /\ [Next]_vars => ReaderInv'
<1> SUFFICES ASSUME TypeInv, ReaderInv, [Next]_vars PROVE ReaderInv'
  OBVIOUS
<1>1. CASE UNCHANGED vars
  BY <1>1, KeptQuiet, ReaderTask DEF vars, service
<1>2. ASSUME NEW s \in Sessions, Register(s)
      PROVE  ReaderInv'
  <2> PICK e : e = Event("registered", s)
    OBVIOUS
  <2>1. e \in EventRows
    BY DEF Event, EventRows
  <2>2. Kept
    BY <1>2, <2>1, KeptAppend DEF Register
  <2> QED
    BY <1>2, <2>2, ReaderTask DEF Register
<1>3. ASSUME NEW s \in Sessions, Open(s) \/ BeginTurn(s)
      PROVE  ReaderInv'
  BY <1>3, KeptQuiet, ReaderTask DEF Open, BeginTurn, service
<1>4. ASSUME NEW m \in Messages, NEW from \in Sessions, NEW to \in Sessions,
             NEW kind \in Kinds, NEW parent \in Messages \cup {None},
             QueueMessage(m, from, to, kind, parent)
      PROVE  ReaderInv'
  <2> PICK e : e = Event("queued", m)
    OBVIOUS
  <2>1. e \in EventRows
    BY DEF Event, EventRows, ReceiptStates
  <2>2. /\ events' = Append(events, e) /\ offline' = offline /\ reader' = reader
        /\ tasks' = tasks
    BY <1>4 DEF QueueMessage
  <2>3. \A n \in Messages : receipts[n] # None => receipts'[n] = receipts[n]
    BY <1>4 DEF QueueMessage, TypeInv, ServiceOK
  <2>4. Kept
    BY <2>1, <2>2, <2>3, KeptAppend
  <2> QED
    BY <2>2, <2>4, ReaderTask
<1>5. CASE \/ \E t \in Tasks, s \in Sessions, after \in 0..Len(events), limit \in 1..MaxPage :
                 Deliver(t, s, after, limit)
           \/ \E t \in Tasks, m \in Messages : Acknowledge(t, m)
           \/ \E t \in Tasks, s \in Sessions, w \in Workbenches : Bind(t, s, w)
  <2>1. PICK t, me : /\ t \in Tasks /\ t # Reader /\ tasks' = [tasks EXCEPT ![t] = me]
                     /\ UNCHANGED <<events, receipts, reader, offline>>
    BY <1>5 DEF Deliver, Acknowledge, Bind, service
  <2> QED
    BY <2>1, KeptQuiet, OneTaskPasses
<1>6. CASE Read
  <2>1. /\ tasks' = tasks /\ offline' = offline /\ UNCHANGED <<events, receipts>>
        /\ tasks[Reader].pc \notin MessagePcs
    BY <1>6 DEF Read, service, MessagePcs
  <2>2. reader'.handled = reader.handled
    BY <1>6 DEF Read
  <2> QED
    BY <2>1, <2>2, KeptQuiet, ReaderGoesOn DEF TypeInv, ReaderOK
<1>7. CASE HandleEvent
  BY <1>7, HandleEventPasses
<1>8. ASSUME NEW t \in Tasks, Receive(t) \/ Check(t) \/ Inject(t) \/ Send(t)
      PROVE  ReaderInv'
  BY <1>8, DeliveryPasses
<1>9. ASSUME NEW t \in Tasks, Confirm(t) \/ MarkOrAcknowledge(t)
      PROVE  ReaderInv'
  BY <1>9, ConfirmPasses, SettlePasses
<1>10. ASSUME NEW t \in Tasks, CommitBind(t)
       PROVE  ReaderInv'
  <2>1. tasks[t] \in Task /\ tasks[t].session \in Sessions /\ offline' = offline
    BY <1>10, AtWork DEF CommitBind
  <2>2. CASE bound[tasks[t].session] = None
    BY <1>10, <2>1, <2>2, KeptQuiet, ReaderFails DEF CommitBind, Fail, service
  <2>3. CASE bound[tasks[t].session] # None
    <3> PICK e, me : e = Event("bound", tasks[t].session) /\ me = [tasks[t] EXCEPT !.pc = "bound"]
      OBVIOUS
    <3>1. e \in EventRows
      BY <2>1 DEF Event, EventRows
    <3>2. /\ events' = Append(events, e) /\ receipts' = receipts /\ reader' = reader
          /\ tasks' = [tasks EXCEPT ![t] = me]
      BY <1>10, <2>3 DEF CommitBind
    <3>3. Kept
      BY <3>1, <3>2, KeptAppend
    <3>4. me.pc \notin MessagePcs
      BY <2>1 DEF Task, MessagePcs
    <3> QED
      BY <2>1, <3>2, <3>3, <3>4, OneTaskPasses
  <2> QED
    BY <2>2, <2>3
<1>11. ASSUME NEW t \in Tasks, Activate(t)
       PROVE  ReaderInv'
  <2>1. IdleTask.pc \notin MessagePcs
    BY IdleOK DEF MessagePcs
  <2> QED
    BY <1>11, <2>1, KeptQuiet, OneTaskPasses DEF Activate, service
<1>12. ASSUME NEW t \in Tasks, Refused(t) \/ LoseRequest(t) \/ LoseResponse(t)
       PROVE  ReaderInv'
  <2>1. Kept
    <3>1. CASE LoseResponse(t)
      <4> PICK m : m = tasks[t].message
        OBVIOUS
      <4> QED
        BY <3>1, KeptTransition DEF LoseResponse
    <3>2. CASE Refused(t) \/ LoseRequest(t)
      BY <3>2, KeptQuiet DEF Refused, LoseRequest, service
    <3> QED
      BY <1>12, <3>1, <3>2
  <2> QED
    BY <1>12, <2>1, ReaderFails DEF Refused, LoseRequest, LoseResponse, Fail
<1>13. CASE BreakStream
  BY <1>13, KeptQuiet, ReaderFails DEF BreakStream, Fail, service
<1>14. CASE Stop
  <2>1. reader'.handled = 0 /\ tasks'[Reader] = IdleTask
    BY <1>14, ReaderIsATask DEF Stop
  <2> QED
    BY <2>1, IdleOK DEF ReaderInv, NothingPassedOver, AtEvent, MessagePcs
<1>15. ASSUME NEW s \in Sessions, EndTurn(s) \/ AbortTurn(s)
       PROVE  ReaderInv'
  BY <1>15, TurnOverPasses
<1> QED
  BY <1>1, <1>2, <1>3, <1>4, <1>5, <1>6, <1>7, <1>8, <1>9, <1>10, <1>11, <1>12, <1>13, <1>14,
     <1>15 DEF Next, Advance

\* What the reader has put behind it is delivered, or was for a session that was not
\* live: an event is acknowledged when its callback has ended, and never one whose
\* delivery failed (domain-event-stream-client.ts read).
THEOREM ReaderPassesNothingOver == Spec => []NothingPassedOver
<1>1. ReaderInv => NothingPassedOver
  BY DEF ReaderInv
<1> QED
  BY <1>1, TypeInit, TypeNext, ReaderInit, ReaderNext, PTL DEF Spec
-----------------------------------------------------------------------------
(* The journals *)

\* The task makes an injection, and does not only wait for one.
Injecting(me) == me.pc \in {"send", "wait", "confirm"}

Copies(me) == journal[me.session][me.message]

\* Where a task stands, and what the journal holds.
AtJournal(me) ==
    /\ Injecting(me) => me.message \in injecting[me.session]
    /\ me.pc = "send" => Copies(me) = 0
    /\ me.pc = "wait" => Copies(me) = 0 /\ me.message \in followups[me.session]
    /\ me.pc = "mark" => Copies(me) > 0

\* One task at a time injects a message into a session.
OneInjection ==
    \A t, u \in Tasks :
        /\ Injecting(tasks[t]) /\ Injecting(tasks[u])
        /\ tasks[t].session = tasks[u].session /\ tasks[t].message = tasks[u].message
        => t = u

\* What Pi holds back, a task waits for.
HeldForTask ==
    \A s \in Sessions : \A m \in followups[s] :
        \E t \in Tasks : tasks[t].pc = "wait" /\ tasks[t].session = s /\ tasks[t].message = m

TasksJournal == OneInjection /\ HeldForTask /\ \A t \in Tasks : AtJournal(tasks[t])

\* A journal holds a message at most once, and a settled message stands in one.
RowsJournal ==
    /\ \A s \in Sessions, m \in Messages :
          journal[s][m] \in {0, 1} /\ (journal[s][m] > 0 => ToSession(m, s))
    /\ \A m \in Messages : Settled(m) => journal[messages[m].to][m] > 0

JournalInv == TasksJournal /\ RowsJournal

LEMMA JournalImplies == TypeInv /\ JournalInv => InjectedOnce
<1> SUFFICES ASSUME TypeInv, JournalInv PROVE InjectedOnce
  OBVIOUS
<1>1. \A s \in Sessions, m \in Messages : journal[s][m] > 0 => journal[s][m] = 1
  BY DEF JournalInv, RowsJournal
<1> QED
  BY <1>1 DEF JournalInv, RowsJournal, InjectedOnce, ToSession

\* Every task stays where it is, or is outside an injection before and after.
LEMMA QuietTasks ==
    ASSUME TypeInv, TasksJournal, UNCHANGED <<journal, followups, injecting>>,
           \A u \in Tasks :
               \/ tasks'[u] = tasks[u]
               \/ /\ ~Injecting(tasks[u]) /\ ~Injecting(tasks'[u])
                  /\ tasks'[u].pc = "mark" => journal[tasks'[u].session][tasks'[u].message] > 0
    PROVE  TasksJournal'
<1>1. \A u \in Tasks : Injecting(tasks'[u]) => tasks'[u] = tasks[u]
  OBVIOUS
<1>2. OneInjection'
  BY <1>1 DEF TasksJournal, OneInjection
<1>3. HeldForTask'
  <2> SUFFICES ASSUME NEW s \in Sessions, NEW m \in followups[s]
               PROVE  \E t \in Tasks : /\ tasks'[t].pc = "wait"
                                       /\ tasks'[t].session = s /\ tasks'[t].message = m
    BY DEF HeldForTask
  <2>1. PICK t \in Tasks :
            tasks[t].pc = "wait" /\ tasks[t].session = s /\ tasks[t].message = m
    BY DEF TasksJournal, HeldForTask
  <2>2. tasks'[t] = tasks[t]
    BY <2>1 DEF Injecting
  <2> QED
    BY <2>1, <2>2
<1>4. \A t \in Tasks : AtJournal(tasks[t])'
  <2> TAKE t \in Tasks
  <2>1. CASE tasks'[t] = tasks[t]
    BY <2>1 DEF TasksJournal, AtJournal, Copies, Injecting
  <2>2. CASE tasks'[t] # tasks[t]
    BY <2>2 DEF AtJournal, Copies, Injecting
  <2> QED
    BY <2>1, <2>2
<1> QED
  BY <1>2, <1>3, <1>4 DEF TasksJournal

LEMMA QuietTaskJournal ==
    ASSUME TypeInv, TasksJournal, UNCHANGED <<journal, followups, injecting>>,
           NEW t \in Tasks, NEW me, tasks' = [tasks EXCEPT ![t] = me],
           ~Injecting(tasks[t]), ~Injecting(me),
           me.pc = "mark" => journal[me.session][me.message] > 0
    PROVE  TasksJournal'
<1>1. \A u \in Tasks : tasks'[u] = IF u = t THEN me ELSE tasks[u]
  BY DEF TypeInv, TasksOK
<1> QED
  BY <1>1, QuietTasks

LEMMA FailJournal ==
    ASSUME TypeInv, TasksJournal, UNCHANGED <<journal, followups, injecting>>,
           NEW failed, FailAll(failed), \A t \in failed : ~Injecting(tasks[t])
    PROVE  TasksJournal'
<1>1. ~Injecting(IdleTask) /\ IdleTask.pc # "mark"
  BY IdleOK DEF Injecting
<1>2. \A u \in Tasks : tasks'[u] = IF u \in failed THEN IdleTask ELSE tasks[u]
  BY DEF FailAll
<1> QED
  BY <1>1, <1>2, QuietTasks

\* What is settled now was settled, or stands in its journal.
LEMMA RowsStay ==
    ASSUME TypeInv, RowsJournal, Grown, journal' = journal,
           \A m \in Messages : Settled(m)' =>
               \/ Settled(m)
               \/ messages[m] # None /\ journal[messages[m].to][m] > 0
    PROVE  RowsJournal'
<1>1. \A m \in Messages : Settled(m) => messages[m] # None
  BY DEF Settled, TypeInv, ServiceOK
<1>2. \A m \in Messages : Settled(m)' => journal'[messages'[m].to][m] > 0
  BY <1>1 DEF RowsJournal, Grown
<1> QED
  BY <1>2 DEF RowsJournal, Grown, ToSession

LEMMA RowsQuiet ==
    ASSUME TypeInv, RowsJournal, UNCHANGED <<messages, receipts, journal>>
    PROVE  RowsJournal'
BY DEF RowsJournal, Settled, ToSession

LEMMA RowsTransition ==
    ASSUME TypeInv, JournalInv, NEW t \in Tasks,
           tasks[t].pc \in {"receive", "mark", "acknowledge"},
           TransitionAllowed(tasks[t]), Transition(tasks[t]),
           journal' = journal, registry' = registry
    PROVE  RowsJournal'
<1> PICK m : m = tasks[t].message
  OBVIOUS
<1>1. \A n \in Messages : Settled(n)' => Settled(n) \/ (n = m /\ tasks[t].pc = "mark")
  BY KeptTransition
<1>2. messages[m] # None /\ messages[m].to = tasks[t].session
  BY AtWork DEF MessagePcs, ToSession
<1>3. tasks[t].pc = "mark" => journal[messages[m].to][m] > 0
  BY <1>2 DEF JournalInv, TasksJournal, AtJournal, Copies
<1>4. Grown
  BY DEF Grown, Transition
<1> QED
  BY <1>1, <1>2, <1>3, <1>4, RowsStay DEF JournalInv
\* A task becomes the one that injects.
LEMMA InjectJournal ==
    ASSUME TypeInv, JournalInv, NEW t \in Tasks, Inject(t)
    PROVE  JournalInv'
<1> PICK task, s, m : task = tasks[t] /\ s = task.session /\ m = task.message
  OBVIOUS
<1>1. /\ task \in Task /\ task.pc = "inject" /\ s \in Sessions /\ m \in Messages
      /\ task.pc \in MessagePcs
  BY AtWork DEF Inject, MessagePcs
<1>2. /\ UNCHANGED <<journal, followups>> /\ UNCHANGED <<messages, receipts>>
  BY DEF Inject, service, pi
<1>3. RowsJournal'
  BY <1>2, RowsQuiet DEF JournalInv
<1>4. CASE InFlight(s, m)
  <2> PICK me : me = [task EXCEPT !.pc = "follow"]
    OBVIOUS
  <2>1. tasks' = [tasks EXCEPT ![t] = me] /\ injecting' = injecting
    BY <1>4 DEF Inject
  <2>2. me.pc = "follow"
    BY <1>1 DEF Task
  <2>3. ~Injecting(me) /\ ~Injecting(tasks[t]) /\ me.pc # "mark"
    BY <1>1, <2>2 DEF Injecting
  <2>4. TasksJournal'
    BY <1>2, <2>1, <2>3, QuietTaskJournal DEF JournalInv
  <2> QED
    BY <1>3, <2>4 DEF JournalInv
<1>5. CASE ~InFlight(s, m) /\ Marked(s, m)
  <2> PICK me : me = Marking(task)
    OBVIOUS
  <2>1. tasks' = [tasks EXCEPT ![t] = me] /\ injecting' = injecting
    BY <1>5 DEF Inject
  <2>2. me.pc = "mark" /\ me.session = s /\ me.message = m
    BY <1>1, MarkingOK
  <2>3. ~Injecting(me) /\ ~Injecting(tasks[t]) /\ journal[me.session][me.message] > 0
    BY <1>1, <1>5, <2>2 DEF Injecting, Marked
  <2>4. TasksJournal'
    BY <1>2, <2>1, <2>3, QuietTaskJournal DEF JournalInv
  <2> QED
    BY <1>3, <2>4 DEF JournalInv
<1>6. CASE ~InFlight(s, m) /\ ~Marked(s, m)
  <2> PICK me : me = [task EXCEPT !.pc = "send"]
    OBVIOUS
  <2>1. /\ tasks' = [tasks EXCEPT ![t] = me]
        /\ injecting' = [injecting EXCEPT ![s] = @ \cup {m}]
    BY <1>6 DEF Inject
  <2>2. me.pc = "send" /\ me.session = s /\ me.message = m
    BY <1>1 DEF Task
  <2>3. \A u \in Tasks : tasks'[u] = IF u = t THEN me ELSE tasks[u]
    BY <2>1 DEF TypeInv, TasksOK
  <2>4. m \notin injecting[s] /\ journal[s][m] = 0
    BY <1>1, <1>6 DEF InFlight, Marked, JournalInv, RowsJournal
  <2>5. \A r \in Sessions :
            injecting[r] \subseteq injecting'[r] /\ (r = s => m \in injecting'[r])
    BY <1>1, <2>1 DEF TypeInv, ControlOK
  <2>6. \A u \in Tasks : Injecting(tasks[u]) =>
            /\ tasks[u].message \in injecting[tasks[u].session]
            /\ tasks[u].session \in Sessions
    BY AtWork DEF JournalInv, TasksJournal, AtJournal, Injecting
  <2>7. OneInjection'
    <3>1. \A u \in Tasks :
              Injecting(tasks[u]) => tasks[u].session # s \/ tasks[u].message # m
      BY <2>4, <2>6
    <3>2. ASSUME NEW u \in Tasks, NEW v \in Tasks, Injecting(tasks'[u]), Injecting(tasks'[v]),
                 tasks'[u].session = tasks'[v].session, tasks'[u].message = tasks'[v].message
          PROVE  u = v
      <4>1. \A x \in Tasks : x # t => tasks'[x] = tasks[x]
        BY <2>3
      <4>2. tasks'[t].session = s /\ tasks'[t].message = m
        BY <2>2, <2>3
      <4>3. CASE u = t /\ v # t
        BY <3>1, <3>2, <4>1, <4>2, <4>3
      <4>4. CASE u # t /\ v = t
        BY <3>1, <3>2, <4>1, <4>2, <4>4
      <4>5. CASE u # t /\ v # t
        BY <3>2, <4>1, <4>5 DEF OneInjection, JournalInv, TasksJournal
      <4> QED
        BY <4>3, <4>4, <4>5
    <3> QED
      BY <3>2 DEF OneInjection
  <2>8. HeldForTask'
    <3> SUFFICES ASSUME NEW r \in Sessions, NEW n \in followups[r]
                 PROVE  \E u \in Tasks : /\ tasks'[u].pc = "wait"
                                         /\ tasks'[u].session = r /\ tasks'[u].message = n
      BY <1>2 DEF HeldForTask
    <3>1. PICK u \in Tasks :
              tasks[u].pc = "wait" /\ tasks[u].session = r /\ tasks[u].message = n
      BY DEF JournalInv, TasksJournal, HeldForTask
    <3>2. tasks'[u] = tasks[u]
      BY <1>1, <2>3, <3>1
    <3> QED
      BY <3>1, <3>2
  <2>9. \A u \in Tasks : AtJournal(tasks[u])'
    <3> TAKE u \in Tasks
    <3>1. CASE u = t
      BY <1>1, <1>2, <2>2, <2>3, <2>4, <2>5, <3>1 DEF AtJournal, Copies
    <3>2. CASE u # t
      <4>1. tasks'[u] = tasks[u] /\ AtJournal(tasks[u])
        BY <2>3, <3>2 DEF JournalInv, TasksJournal
      <4> QED
        BY <1>2, <2>5, <2>6, <4>1 DEF AtJournal, Copies
    <3> QED
      BY <3>1, <3>2
  <2> QED
    BY <1>3, <2>7, <2>8, <2>9 DEF JournalInv, TasksJournal
<1> QED
  BY <1>4, <1>5, <1>6

\* The entry is written, or held back until the turn ends.
LEMMA SendJournal ==
    ASSUME TypeInv, JournalInv, NEW t \in Tasks, Send(t)
    PROVE  JournalInv'
<1> PICK task, s, m : task = tasks[t] /\ s = task.session /\ m = task.message
  OBVIOUS
<1>1. /\ task \in Task /\ task.pc = "send" /\ s \in Sessions /\ m \in Messages
      /\ ToSession(m, s)
  BY AtWork DEF Send, MessagePcs
<1>2. UNCHANGED <<messages, receipts>> /\ injecting' = injecting
  BY DEF Send, service
<1>3. journal[s][m] = 0 /\ m \in injecting[s]
  BY <1>1 DEF JournalInv, TasksJournal, AtJournal, Copies, Injecting
<1>4. PICK me : /\ tasks' = [tasks EXCEPT ![t] = me]
                /\ \/ /\ me = [task EXCEPT !.pc = "wait"] /\ journal' = journal
                      /\ followups' = [followups EXCEPT ![s] = @ \cup {m}]
                   \/ /\ me = [task EXCEPT !.pc = "confirm"] /\ followups' = followups
                      /\ journal' = [journal EXCEPT ![s][m] = @ + 1]
  BY DEF Send
<1>5. me.session = s /\ me.message = m /\ me.pc \in {"wait", "confirm"}
  BY <1>1, <1>4 DEF Task
<1>6. \A u \in Tasks : tasks'[u] = IF u = t THEN me ELSE tasks[u]
  BY <1>4 DEF TypeInv, TasksOK
<1>7. \A u \in Tasks : /\ Injecting(tasks'[u]) <=> Injecting(tasks[u])
                       /\ tasks'[u].session = tasks[u].session
                       /\ tasks'[u].message = tasks[u].message
  BY <1>1, <1>5, <1>6 DEF Injecting
<1>8. OneInjection'
  BY <1>7 DEF OneInjection, JournalInv, TasksJournal
<1>9. ASSUME NEW u \in Tasks, u # t, tasks[u].pc \in {"send", "wait"}
      PROVE  tasks[u].session # s \/ tasks[u].message # m
  BY <1>1, <1>9 DEF Injecting, OneInjection, JournalInv, TasksJournal
<1>10. ASSUME NEW r \in Sessions, NEW n \in followups[r]
       PROVE  \E u \in Tasks : /\ tasks'[u].pc = "wait"
                               /\ tasks'[u].session = r /\ tasks'[u].message = n
  <2>1. PICK u \in Tasks :
            tasks[u].pc = "wait" /\ tasks[u].session = r /\ tasks[u].message = n
    BY <1>10 DEF JournalInv, TasksJournal, HeldForTask
  <2>2. tasks'[u] = tasks[u]
    BY <1>1, <1>6, <2>1
  <2> QED
    BY <2>1, <2>2
<1>11. \A u \in Tasks : tasks[u].pc # "idle" => tasks[u].session \in Sessions
  BY AtWork
<1>12. \A u \in Tasks : tasks[u].pc \in MessagePcs => tasks[u].message \in Messages
  BY AtWork DEF MessagePcs
<1>13. CASE s \in streaming
  <2>1. me.pc = "wait" /\ journal' = journal /\ followups' = [followups EXCEPT ![s] = @ \cup {m}]
    <3>1. /\ tasks' = [tasks EXCEPT ![t] = [task EXCEPT !.pc = "wait"]] /\ journal' = journal
          /\ followups' = [followups EXCEPT ![s] = @ \cup {m}]
      BY <1>13 DEF Send
    <3>2. tasks'[t].pc = "wait"
      BY <1>1, <3>1 DEF TypeInv, TasksOK, Task
    <3> QED
      BY <1>6, <3>1, <3>2
  <2>2. \A r \in Sessions : /\ followups[r] \subseteq followups'[r]
                            /\ followups'[r] \subseteq followups[r] \cup {n \in {m} : r = s}
                            /\ r = s => m \in followups'[r]
    BY <1>1, <2>1 DEF TypeInv, ControlOK
  <2>3. HeldForTask'
    BY <1>5, <1>6, <1>10, <2>1, <2>2 DEF HeldForTask
  <2>4. \A u \in Tasks : AtJournal(tasks[u])'
    <3> TAKE u \in Tasks
    <3>1. CASE u = t
      BY <1>1, <1>2, <1>3, <1>5, <1>6, <2>1, <2>2, <3>1 DEF AtJournal, Copies
    <3>2. CASE u # t
      <4>1. tasks'[u] = tasks[u] /\ AtJournal(tasks[u])
        BY <1>6, <3>2 DEF JournalInv, TasksJournal
      <4> QED
        BY <1>2, <1>11, <2>1, <2>2, <4>1 DEF AtJournal, Copies
    <3> QED
      BY <3>1, <3>2
  <2>5. RowsJournal'
    BY <1>2, <2>1, RowsQuiet DEF JournalInv
  <2> QED
    BY <1>8, <2>3, <2>4, <2>5 DEF JournalInv, TasksJournal
<1>14. CASE s \notin streaming
  <2>1. /\ me.pc = "confirm" /\ followups' = followups
        /\ journal' = [journal EXCEPT ![s][m] = @ + 1]
    <3>1. /\ tasks' = [tasks EXCEPT ![t] = [task EXCEPT !.pc = "confirm"]]
          /\ followups' = followups /\ journal' = [journal EXCEPT ![s][m] = @ + 1]
      BY <1>14 DEF Send
    <3>2. tasks'[t].pc = "confirm"
      BY <1>1, <3>1 DEF TypeInv, TasksOK, Task
    <3> QED
      BY <1>6, <3>1, <3>2
  <2>2. \A r \in Sessions, n \in Messages :
            journal'[r][n] = IF r = s /\ n = m THEN 1 ELSE journal[r][n]
    BY <1>1, <1>3, <2>1 DEF TypeInv, ControlOK
  <2>3. HeldForTask'
    BY <1>10, <2>1 DEF HeldForTask
  <2>4. \A u \in Tasks : AtJournal(tasks[u])'
    <3> TAKE u \in Tasks
    <3>1. CASE u = t
      BY <1>1, <1>2, <1>3, <1>5, <1>6, <2>1, <3>1 DEF AtJournal
    <3>2. CASE u # t
      <4>1. tasks'[u] = tasks[u] /\ AtJournal(tasks[u])
        BY <1>6, <3>2 DEF JournalInv, TasksJournal
      <4>2. tasks[u].pc \in {"send", "wait", "mark"} =>
                tasks[u].session \in Sessions /\ tasks[u].message \in Messages
        BY <1>11, <1>12 DEF MessagePcs
      <4> QED
        BY <1>2, <1>9, <2>1, <2>2, <3>2, <4>1, <4>2 DEF AtJournal, Copies
    <3> QED
      BY <3>1, <3>2
  <2>5. RowsJournal'
    <3>1. \A r \in Sessions, n \in Messages : journal[r][n] > 0 => journal'[r][n] > 0
      BY <2>2
    <3>2. \A n \in Messages : Settled(n)' => journal'[messages[n].to][n] > 0
      <4>1. \A n \in Messages : Settled(n)' => messages[n].to \in Sessions /\ Settled(n)
        BY <1>2 DEF Settled, TypeInv, ServiceOK, Message
      <4> QED
        BY <3>1, <4>1 DEF JournalInv, RowsJournal
    <3>3. \A r \in Sessions, n \in Messages :
              journal'[r][n] \in {0, 1} /\ (journal'[r][n] > 0 => ToSession(n, r))
      BY <1>1, <2>2 DEF JournalInv, RowsJournal
    <3> QED
      BY <1>2, <3>2, <3>3 DEF RowsJournal, ToSession
  <2> QED
    BY <1>8, <2>3, <2>4, <2>5 DEF JournalInv, TasksJournal
<1> QED
  BY <1>13, <1>14

\* The injection is over for the task that made it and for those that waited for it.
LEMMA ConfirmJournal ==
    ASSUME TypeInv, JournalInv, NEW t \in Tasks, Confirm(t)
    PROVE  JournalInv'
<1> PICK s, m, waiting : /\ s = tasks[t].session /\ m = tasks[t].message
                         /\ waiting = {t} \cup Followers(t)
  OBVIOUS
<1>1. s \in Sessions /\ m \in Messages /\ tasks[t].pc = "confirm"
  BY AtWork DEF Confirm, MessagePcs
<1>2. /\ UNCHANGED <<messages, receipts>> /\ UNCHANGED <<journal, followups>>
      /\ injecting' = [injecting EXCEPT ![s] = @ \ {m}]
  BY DEF Confirm, service, pi
<1>3. \A u \in waiting : /\ u \in Tasks /\ tasks[u].pc \in {"confirm", "follow"}
                         /\ tasks[u].session = s /\ tasks[u].message = m
  BY <1>1 DEF Followers
<1>4. \A u \in Tasks \ waiting : tasks'[u] = tasks[u]
  BY DEF Confirm, FailAll
<1>5. \A u \in waiting :
          /\ ~Injecting(tasks'[u])
          /\ tasks'[u].pc = "mark" => journal[tasks'[u].session][tasks'[u].message] > 0
  <2> TAKE u \in waiting
  <2>1. CASE Journaled(s, m)
    <3>1. tasks'[u] = Marking(tasks[u])
      BY <1>3, <2>1 DEF Confirm
    <3>2. tasks'[u].pc = "mark" /\ tasks'[u].session = s /\ tasks'[u].message = m
      BY <1>3, <3>1, MarkingOK DEF MessagePcs
    <3> QED
      BY <2>1, <3>2 DEF Journaled, Injecting
  <2>2. CASE ~Journaled(s, m)
    <3>1. tasks'[u] = IdleTask
      BY <1>3, <2>2 DEF Confirm, FailAll
    <3> QED
      BY <3>1, IdleOK DEF Injecting
  <2> QED
    BY <2>1, <2>2
<1>6. \A u \in Tasks : Injecting(tasks'[u]) => tasks'[u] = tasks[u] /\ u \notin waiting
  BY <1>4, <1>5
<1>7. OneInjection'
  BY <1>6 DEF OneInjection, JournalInv, TasksJournal
<1>8. HeldForTask'
  <2> SUFFICES ASSUME NEW r \in Sessions, NEW n \in followups[r]
               PROVE  \E u \in Tasks : /\ tasks'[u].pc = "wait"
                                       /\ tasks'[u].session = r /\ tasks'[u].message = n
    BY <1>2 DEF HeldForTask
  <2>1. PICK u \in Tasks :
            tasks[u].pc = "wait" /\ tasks[u].session = r /\ tasks[u].message = n
    BY DEF JournalInv, TasksJournal, HeldForTask
  <2>2. tasks'[u] = tasks[u]
    BY <1>3, <1>4, <2>1
  <2> QED
    BY <2>1, <2>2
<1>9. \A u \in Tasks : AtJournal(tasks[u])'
  <2> TAKE u \in Tasks
  <2>1. CASE u \in waiting
    BY <1>2, <1>5, <2>1 DEF AtJournal, Copies, Injecting
  <2>2. CASE u \notin waiting
    <3>1. tasks'[u] = tasks[u] /\ AtJournal(tasks[u]) /\ u # t
      BY <1>4, <2>2 DEF JournalInv, TasksJournal
    <3>2. Injecting(tasks[u]) => tasks[u].session \in Sessions
      BY AtWork DEF Injecting
    <3>3. Injecting(tasks[u]) => tasks[u].session # s \/ tasks[u].message # m
      BY <1>1, <3>1 DEF OneInjection, JournalInv, TasksJournal, Injecting
    <3>4. Injecting(tasks[u]) => tasks[u].message \in injecting'[tasks[u].session]
      BY <1>1, <1>2, <3>1, <3>2, <3>3 DEF AtJournal, TypeInv, ControlOK
    <3> QED
      BY <1>2, <3>1, <3>4 DEF AtJournal, Copies
  <2> QED
    BY <2>1, <2>2
<1>10. RowsJournal'
  BY <1>2, RowsQuiet DEF JournalInv
<1> QED
  BY <1>7, <1>8, <1>9, <1>10 DEF JournalInv, TasksJournal

\* Whoever waits for the turn of a session goes on to look at its journal.
LEMMA TurnTasks ==
    ASSUME TypeInv, NEW s \in Sessions, EndTurn(s) \/ AbortTurn(s)
    PROVE  \A u \in Tasks :
              /\ ~(tasks[u].pc = "wait" /\ tasks[u].session = s) => tasks'[u] = tasks[u]
              /\ tasks[u].pc = "wait" /\ tasks[u].session = s => tasks'[u].pc = "confirm"
              /\ tasks'[u].session = tasks[u].session /\ tasks'[u].message = tasks[u].message
<1> TAKE u \in Tasks
<1>1. tasks'[u] = IF tasks[u].pc = "wait" /\ tasks[u].session = s
                    THEN [tasks[u] EXCEPT !.pc = "confirm"] ELSE tasks[u]
  BY DEF EndTurn, AbortTurn
<1>2. tasks[u] \in Task
  BY DEF TypeInv, TasksOK, TaskOK
<1> QED
  BY <1>1, <1>2 DEF Task

\* The turn ends, and Pi writes what it held back or drops it.
LEMMA TurnJournal ==
    ASSUME TypeInv, JournalInv, NEW s \in Sessions, EndTurn(s) \/ AbortTurn(s)
    PROVE  JournalInv'
<1>1. \A u \in Tasks :
          /\ ~(tasks[u].pc = "wait" /\ tasks[u].session = s) => tasks'[u] = tasks[u]
          /\ tasks[u].pc = "wait" /\ tasks[u].session = s => tasks'[u].pc = "confirm"
          /\ tasks'[u].session = tasks[u].session /\ tasks'[u].message = tasks[u].message
  BY TurnTasks
<1>2. /\ UNCHANGED <<messages, receipts>> /\ injecting' = injecting
      /\ \A r \in Sessions : followups'[r] = IF r = s THEN {} ELSE followups[r]
  BY DEF EndTurn, AbortTurn, service, TypeInv, ControlOK
<1>3. \A r \in Sessions, m \in Messages :
          \/ journal'[r][m] = journal[r][m]
          \/ r = s /\ m \in followups[s] /\ journal'[r][m] = journal[r][m] + 1
  BY DEF EndTurn, AbortTurn, TypeInv, ControlOK
<1>4. \A u \in Tasks : Injecting(tasks'[u]) <=> Injecting(tasks[u])
  BY <1>1 DEF Injecting
<1>5. OneInjection'
  BY <1>1, <1>4 DEF OneInjection, JournalInv, TasksJournal
<1>6. ASSUME NEW m \in followups[s]
      PROVE  \E u \in Tasks : /\ tasks[u].pc = "wait" /\ tasks[u].session = s
                              /\ tasks[u].message = m /\ Copies(tasks[u]) = 0
  BY DEF JournalInv, TasksJournal, HeldForTask, AtJournal
<1>7. HeldForTask'
  <2> SUFFICES ASSUME NEW r \in Sessions, NEW n \in followups'[r]
               PROVE  \E u \in Tasks : /\ tasks'[u].pc = "wait"
                                       /\ tasks'[u].session = r /\ tasks'[u].message = n
    BY DEF HeldForTask
  <2>1. r # s /\ n \in followups[r]
    BY <1>2
  <2>2. PICK u \in Tasks :
            tasks[u].pc = "wait" /\ tasks[u].session = r /\ tasks[u].message = n
    BY <2>1 DEF JournalInv, TasksJournal, HeldForTask
  <2>3. tasks'[u] = tasks[u]
    BY <1>1, <2>1, <2>2
  <2> QED
    BY <2>2, <2>3
<1>8. \A u \in Tasks : AtJournal(tasks[u])'
  <2> TAKE u \in Tasks
  <2>1. CASE tasks[u].pc = "wait" /\ tasks[u].session = s
    BY <1>1, <1>2, <2>1 DEF AtJournal, Injecting, JournalInv, TasksJournal
  <2>2. CASE ~(tasks[u].pc = "wait" /\ tasks[u].session = s)
    <3>1. tasks'[u] = tasks[u] /\ AtJournal(tasks[u])
      BY <1>1, <2>2 DEF JournalInv, TasksJournal
    <3>2. tasks[u].pc \in {"send", "wait", "mark"} =>
              tasks[u].session \in Sessions /\ tasks[u].message \in Messages
      BY AtWork DEF MessagePcs
    <3>3. Injecting(tasks[u]) => tasks'[u].message \in injecting'[tasks'[u].session]
      BY <1>2, <3>1 DEF AtJournal
    <3>4. CASE tasks[u].pc = "mark"
      <4> PICK r, n : r = tasks[u].session /\ n = tasks[u].message
        OBVIOUS
      <4>1. journal'[r][n] > 0
        <5>1. r \in Sessions /\ n \in Messages /\ journal[r][n] > 0
          BY <3>1, <3>2, <3>4 DEF AtJournal, Copies
        <5>2. journal[r][n] \in Nat
          BY <5>1 DEF TypeInv, ControlOK
        <5> QED
          BY <1>3, <5>1, <5>2
      <4> QED
        BY <3>1, <3>4, <4>1 DEF AtJournal, Copies, Injecting
    <3>5. CASE tasks[u].pc = "send"
      <4>1. ~(tasks[u].session = s /\ tasks[u].message \in followups[s])
        <5>1. \A v \in Tasks : tasks[v].pc = "wait" => v # u /\ Injecting(tasks[v])
          BY <3>5 DEF Injecting
        <5>2. Injecting(tasks[u])
          BY <3>5 DEF Injecting
        <5> QED
          BY <1>6, <5>1, <5>2 DEF JournalInv, TasksJournal, OneInjection
      <4>2. journal'[tasks[u].session][tasks[u].message] = 0
        BY <1>3, <3>1, <3>2, <3>5, <4>1 DEF AtJournal, Copies
      <4> QED
        BY <3>1, <3>3, <3>5, <4>2 DEF AtJournal, Copies
    <3>6. CASE tasks[u].pc = "wait"
      <4>1. tasks[u].session # s
        BY <2>2, <3>6
      <4>2. /\ journal'[tasks[u].session][tasks[u].message] = 0
            /\ followups'[tasks[u].session] = followups[tasks[u].session]
        BY <1>2, <1>3, <3>1, <3>2, <3>6, <4>1 DEF AtJournal, Copies
      <4> QED
        BY <3>1, <3>3, <3>6, <4>2 DEF AtJournal, Copies
    <3>7. CASE tasks[u].pc \notin {"send", "wait", "mark"}
      BY <3>1, <3>3, <3>7 DEF AtJournal
    <3> QED
      BY <3>4, <3>5, <3>6, <3>7
  <2> QED
    BY <2>1, <2>2
<1>9. RowsJournal'
  <2>1. \A r \in Sessions, m \in Messages : journal[r][m] > 0 => journal'[r][m] > 0
    BY <1>3 DEF TypeInv, ControlOK
  <2>2. \A m \in Messages : Settled(m)' => journal'[messages[m].to][m] > 0
    <3>1. \A m \in Messages : Settled(m)' => messages[m].to \in Sessions /\ Settled(m)
      BY <1>2 DEF Settled, TypeInv, ServiceOK, Message
    <3> QED
      BY <2>1, <3>1 DEF JournalInv, RowsJournal
  <2>3. ASSUME NEW r \in Sessions, NEW m \in Messages
        PROVE  journal'[r][m] \in {0, 1} /\ (journal'[r][m] > 0 => ToSession(m, r))
    <3>1. CASE journal'[r][m] = journal[r][m]
      BY <3>1 DEF JournalInv, RowsJournal
    <3>2. CASE r = s /\ m \in followups[s] /\ journal'[r][m] = journal[r][m] + 1
      <4>1. PICK u \in Tasks : /\ tasks[u].pc = "wait" /\ tasks[u].session = s
                               /\ tasks[u].message = m /\ Copies(tasks[u]) = 0
        BY <1>6, <3>2
      <4>2. ToSession(m, s)
        BY <4>1, AtWork DEF MessagePcs
      <4>3. journal[s][m] = 0
        BY <4>1 DEF Copies
      <4> QED
        BY <3>2, <4>2, <4>3
    <3> QED
      BY <1>3, <3>1, <3>2
  <2> QED
    BY <1>2, <2>2, <2>3 DEF RowsJournal, ToSession
<1> QED
  BY <1>5, <1>7, <1>8, <1>9 DEF JournalInv, TasksJournal

LEMMA StopJournal ==
    ASSUME TypeInv, JournalInv, Stop
    PROVE  JournalInv'
<1>1. /\ \A u \in Tasks : tasks'[u] = IdleTask
      /\ \A s \in Sessions : followups'[s] = {}
      /\ UNCHANGED <<messages, receipts, journal>>
  BY DEF Stop, service
<1>2. IdleTask.pc = "idle" /\ ~Injecting(IdleTask)
  BY IdleOK DEF Injecting
<1>3. TasksJournal'
  BY <1>1, <1>2 DEF TasksJournal, OneInjection, HeldForTask, AtJournal
<1>4. RowsJournal'
  BY <1>1, RowsQuiet DEF JournalInv
<1> QED
  BY <1>3, <1>4 DEF JournalInv

\* A transition that is committed, and the task that goes on or is told of nothing.
LEMMA CommandJournal ==
    ASSUME TypeInv, JournalInv, NEW t \in Tasks,
           Receive(t) \/ MarkOrAcknowledge(t) \/ LoseResponse(t)
    PROVE  JournalInv'
<1> PICK task : task = tasks[t]
  OBVIOUS
<1>1. /\ task.pc \in {"receive", "mark", "acknowledge"} /\ task \in Task /\ TaskOK(task)
      /\ task.session \in Sessions /\ registry[task.session] # None
      /\ TransitionAllowed(task) /\ Transition(task)
      /\ ~Injecting(task)
  BY AtWork, NoneIsNothing DEF Receive, MarkOrAcknowledge, LoseResponse, Injecting
<1>2. UNCHANGED <<journal, followups, injecting>> /\ registry' = registry
  BY DEF Receive, MarkOrAcknowledge, LoseResponse, pi
<1>3. RowsJournal'
  BY <1>1, <1>2, RowsTransition
<1>4. CASE Receive(t)
  <2> PICK me : me = [task EXCEPT !.pc = "check", !.version = @ + 1]
    OBVIOUS
  <2>1. me.pc = "check"
    BY <1>1 DEF Task
  <2>2. tasks' = [tasks EXCEPT ![t] = me]
    BY <1>4 DEF Receive
  <2>3. ~Injecting(me) /\ me.pc # "mark"
    BY <2>1 DEF Injecting
  <2> QED
    BY <1>1, <1>2, <1>3, <2>2, <2>3, QuietTaskJournal DEF JournalInv
<1>5. CASE MarkOrAcknowledge(t)
  <2> PICK me : me = NextDelivery(task)
    OBVIOUS
  <2>1. me.pc \in {"idle", "receive", "check"}
    BY <1>1, NextDeliveryOK DEF TypeInv
  <2>2. tasks' = [tasks EXCEPT ![t] = me]
    BY <1>5 DEF MarkOrAcknowledge, Settle
  <2>3. ~Injecting(me) /\ me.pc # "mark"
    BY <2>1 DEF Injecting
  <2> QED
    BY <1>1, <1>2, <1>3, <2>2, <2>3, QuietTaskJournal DEF JournalInv
<1>6. CASE LoseResponse(t)
  <2>1. FailAll({t})
    BY <1>6 DEF LoseResponse, Fail
  <2> QED
    BY <1>1, <1>2, <1>3, <2>1, FailJournal DEF JournalInv
<1> QED
  BY <1>4, <1>5, <1>6

\* A request that is refused or lost, and a stream that breaks.
LEMMA FaultJournal ==
    ASSUME TypeInv, JournalInv, NEW t \in Tasks,
           Refused(t) \/ LoseRequest(t) \/ (t = Reader /\ BreakStream)
    PROVE  JournalInv'
<1>1. /\ FailAll({t}) /\ UNCHANGED <<messages, receipts>>
      /\ UNCHANGED <<journal, followups, injecting>>
  BY DEF Refused, LoseRequest, BreakStream, Fail, service, pi
<1>2. ~Injecting(tasks[t])
  BY DEF Refused, LoseRequest, BreakStream, Injecting
<1> QED
  BY <1>1, <1>2, FailJournal, RowsQuiet DEF JournalInv

LEMMA JournalInit == Init => JournalInv
<1> SUFFICES ASSUME Init PROVE JournalInv
  OBVIOUS
<1>1. \A t \in Tasks : tasks[t].pc = "idle"
  BY DEF Init, IdleTask
<1>2. TasksJournal
  BY <1>1 DEF Init, TasksJournal, OneInjection, HeldForTask, AtJournal, Injecting
<1>3. RowsJournal
  BY DEF Init, RowsJournal, Settled
<1> QED
  BY <1>2, <1>3 DEF JournalInv

LEMMA JournalNext == TypeInv /\ JournalInv /\ [Next]_vars => JournalInv'
<1> SUFFICES ASSUME TypeInv, JournalInv, [Next]_vars PROVE JournalInv'
  OBVIOUS
<1>1. ASSUME tasks' = tasks, UNCHANGED <<journal, followups, injecting>>
      PROVE  TasksJournal'
  BY <1>1, QuietTasks DEF JournalInv
<1>2. CASE UNCHANGED vars
  BY <1>1, <1>2, RowsQuiet DEF JournalInv, vars, service, pi
<1>3. ASSUME NEW s \in Sessions, Register(s) \/ Open(s) \/ BeginTurn(s)
      PROVE  JournalInv'
  BY <1>1, <1>3, RowsQuiet DEF JournalInv, Register, Open, BeginTurn, service, pi
<1>4. ASSUME NEW s \in Sessions, EndTurn(s) \/ AbortTurn(s)
      PROVE  JournalInv'
  BY <1>4, TurnJournal
<1>5. ASSUME NEW m \in Messages, NEW from \in Sessions, NEW to \in Sessions,
             NEW kind \in Kinds, NEW parent \in Messages \cup {None},
             QueueMessage(m, from, to, kind, parent)
      PROVE  JournalInv'
  <2>1. /\ UNCHANGED <<journal, followups, injecting>> /\ tasks' = tasks
        /\ messages[m] = None /\ registry' = registry
        /\ receipts' = [receipts EXCEPT ![m] = [state |-> "queued", version |-> 0]]
    BY <1>5 DEF QueueMessage, pi
  <2>2. Grown
    BY <1>5 DEF QueueMessage, Grown, TypeInv, ServiceOK
  <2>3. \A n \in Messages : Settled(n)' => Settled(n)
    BY <2>1 DEF Settled, TypeInv, ServiceOK
  <2>4. RowsJournal'
    BY <2>1, <2>2, <2>3, RowsStay DEF JournalInv
  <2> QED
    BY <1>1, <2>1, <2>4 DEF JournalInv
<1>6. ASSUME NEW t \in Tasks, NEW s \in Sessions, NEW after \in 0..Len(events),
             NEW limit \in 1..MaxPage, Deliver(t, s, after, limit)
      PROVE  JournalInv'
  <2> PICK start, me : /\ start = [IdleTask EXCEPT !.session = s,
                                                !.rest = Inbox(s, after, limit)]
                       /\ me = NextDelivery(start)
    OBVIOUS
  <2>1. tasks' = [tasks EXCEPT ![t] = me] /\ tasks[t].pc = "idle"
    BY <1>6 DEF Deliver
  <2>2. me.pc \in {"idle", "receive", "check"}
    BY <1>6, DeliveryStarts
  <2>3. ~Injecting(me) /\ me.pc # "mark" /\ ~Injecting(tasks[t])
    BY <2>1, <2>2 DEF Injecting
  <2>4. UNCHANGED <<messages, receipts, journal>> /\ UNCHANGED <<journal, followups, injecting>>
    BY <1>6 DEF Deliver, service, pi
  <2> QED
    BY <2>1, <2>3, <2>4, QuietTaskJournal, RowsQuiet DEF JournalInv
<1>7. ASSUME NEW t \in Tasks, tasks[t].pc = "idle", NEW me, tasks' = [tasks EXCEPT ![t] = me],
             me.pc \in {"acknowledge", "bind"}, UNCHANGED <<service, pi, injecting>>
      PROVE  JournalInv'
  <2>1. ~Injecting(me) /\ me.pc # "mark" /\ ~Injecting(tasks[t])
    BY <1>7 DEF Injecting
  <2>2. UNCHANGED <<messages, receipts, journal>> /\ UNCHANGED <<journal, followups, injecting>>
    BY <1>7 DEF service, pi
  <2> QED
    BY <1>7, <2>1, <2>2, QuietTaskJournal, RowsQuiet DEF JournalInv
<1>8. ASSUME NEW t \in Tasks, NEW m \in Messages, Acknowledge(t, m)
       PROVE  JournalInv'
  <2> PICK s, v, w : /\ s = messages[m].to /\ v = receipts[m].version
                     /\ w = registry[messages[m].to]
    OBVIOUS
  <2> PICK me : me = [IdleTask EXCEPT !.pc = "acknowledge", !.session = s, !.message = m,
                          !.version = v, !.workbench = w]
    OBVIOUS
  <2>1. me.pc = "acknowledge"
    BY IdleOK DEF Task
  <2>2. tasks' = [tasks EXCEPT ![t] = me] /\ tasks[t].pc = "idle"
    BY <1>8 DEF Acknowledge
  <2> QED
    BY <1>7, <1>8, <2>1, <2>2 DEF Acknowledge
<1>9. ASSUME NEW t \in Tasks, NEW s \in Sessions, NEW w \in Workbenches, Bind(t, s, w)
       PROVE  JournalInv'
  <2> PICK me : me = [IdleTask EXCEPT !.pc = "bind", !.session = s, !.workbench = w]
    OBVIOUS
  <2>1. me.pc = "bind"
    BY IdleOK DEF Task
  <2>2. tasks' = [tasks EXCEPT ![t] = me] /\ tasks[t].pc = "idle"
    BY <1>9 DEF Bind
  <2> QED
    BY <1>7, <1>9, <2>1, <2>2 DEF Bind
<1>10. CASE Read
  BY <1>1, <1>10, RowsQuiet DEF JournalInv, Read, service, pi
<1>11. CASE HandleEvent
  <2>1. UNCHANGED <<messages, receipts, journal>> /\ UNCHANGED <<journal, followups, injecting>>
    BY <1>11 DEF HandleEvent, service, pi
  <2>2. \/ tasks' = tasks
        \/ \E me : tasks' = [tasks EXCEPT ![Reader] = me] /\ me.pc \in {"receive", "check"}
    <3> PICK i : i = reader.handled + 1
      OBVIOUS
    <3> QED
      BY <1>11, EventTask, EventPassed
  <2>3. ASSUME NEW me, tasks' = [tasks EXCEPT ![Reader] = me], me.pc \in {"receive", "check"}
        PROVE  TasksJournal'
    <3>1. ~Injecting(me) /\ me.pc # "mark" /\ ~Injecting(tasks[Reader])
      BY <1>11, <2>3 DEF HandleEvent, Injecting
    <3> QED
      BY <2>1, <2>3, <3>1, QuietTaskJournal, ReaderIsATask DEF JournalInv
  <2> QED
    BY <1>1, <2>1, <2>2, <2>3, RowsQuiet DEF JournalInv
<1>12. ASSUME NEW t \in Tasks, Receive(t) \/ MarkOrAcknowledge(t) \/ LoseResponse(t)
       PROVE  JournalInv'
  BY <1>12, CommandJournal
<1>13. ASSUME NEW t \in Tasks, Check(t)
       PROVE  JournalInv'
  <2> PICK task : task = tasks[t]
    OBVIOUS
  <2>1. task \in Task /\ task.pc = "check"
    BY <1>13, AtWork DEF Check
  <2>2. PICK me : /\ tasks' = [tasks EXCEPT ![t] = me]
                  /\ me.pc = "mark" => journal[me.session][me.message] > 0
                  /\ me.pc \in {"mark", "inject"}
    <3>1. CASE journal[task.session][task.message] > 0
      <4> PICK me : me = Marking(task)
        OBVIOUS
      <4>1. me.pc = "mark" /\ me.session = task.session /\ me.message = task.message
        BY <2>1, MarkingOK DEF MessagePcs
      <4>2. tasks' = [tasks EXCEPT ![t] = me]
        BY <1>13, <3>1 DEF Check
      <4> QED
        BY <3>1, <4>1, <4>2
    <3>2. CASE ~(journal[task.session][task.message] > 0)
      <4> PICK me : me = [task EXCEPT !.pc = "inject"]
        OBVIOUS
      <4>1. me.pc = "inject"
        BY <2>1 DEF Task
      <4>2. tasks' = [tasks EXCEPT ![t] = me]
        BY <1>13, <3>2 DEF Check
      <4> QED
        BY <4>1, <4>2
    <3> QED
      BY <3>1, <3>2
  <2>3. ~Injecting(me) /\ ~Injecting(tasks[t])
    BY <2>1, <2>2 DEF Injecting
  <2>4. UNCHANGED <<messages, receipts, journal>> /\ UNCHANGED <<journal, followups, injecting>>
    BY <1>13 DEF Check, service, pi
  <2> QED
    BY <2>2, <2>3, <2>4, QuietTaskJournal, RowsQuiet DEF JournalInv
<1>14. ASSUME NEW t \in Tasks, Inject(t) \/ Send(t) \/ Confirm(t)
       PROVE  JournalInv'
  BY <1>14, InjectJournal, SendJournal, ConfirmJournal
<1>15. ASSUME NEW t \in Tasks, Refused(t) \/ LoseRequest(t)
       PROVE  JournalInv'
  BY <1>15, FaultJournal
<1>16. CASE BreakStream
  BY <1>16, FaultJournal, ReaderIsATask
<1>17. ASSUME NEW t \in Tasks, CommitBind(t)
       PROVE  JournalInv'
  <2>1. tasks[t].pc = "bind" /\ tasks[t] \in Task
    BY <1>17, AtWork DEF CommitBind
  <2>2. UNCHANGED <<messages, receipts, journal>> /\ UNCHANGED <<journal, followups, injecting>>
    BY <1>17 DEF CommitBind, service, pi
  <2>3. CASE bound[tasks[t].session] = None
    <3>1. FailAll({t}) /\ ~Injecting(tasks[t])
      BY <1>17, <2>1, <2>3 DEF CommitBind, Fail, Injecting
    <3> QED
      BY <2>2, <3>1, FailJournal, RowsQuiet DEF JournalInv
  <2>4. CASE bound[tasks[t].session] # None
    <3> PICK me : me = [tasks[t] EXCEPT !.pc = "bound"]
      OBVIOUS
    <3>1. tasks' = [tasks EXCEPT ![t] = me]
      BY <1>17, <2>4 DEF CommitBind
    <3>2. me.pc = "bound"
      BY <2>1 DEF Task
    <3>3. ~Injecting(me) /\ me.pc # "mark" /\ ~Injecting(tasks[t])
      BY <2>1, <3>2 DEF Injecting
    <3> QED
      BY <2>2, <3>1, <3>3, QuietTaskJournal, RowsQuiet DEF JournalInv
  <2> QED
    BY <2>3, <2>4
<1>18. ASSUME NEW t \in Tasks, Activate(t)
       PROVE  JournalInv'
  <2>1. ~Injecting(IdleTask) /\ IdleTask.pc # "mark" /\ ~Injecting(tasks[t])
    BY <1>18, IdleOK DEF Activate, Injecting
  <2>2. UNCHANGED <<messages, receipts, journal>> /\ UNCHANGED <<journal, followups, injecting>>
    BY <1>18 DEF Activate, service, pi
  <2> QED
    BY <1>18, <2>1, <2>2, QuietTaskJournal, RowsQuiet DEF JournalInv, Activate
<1>19. CASE Stop
  BY <1>19, StopJournal
<1> QED
  BY <1>2, <1>3, <1>4, <1>5, <1>6, <1>8, <1>9, <1>10, <1>11, <1>12, <1>13, <1>14, <1>15, <1>16,
     <1>17, <1>18, <1>19 DEF Next, Advance

\* A message stands at most once in a journal, and only in its recipient's, however many
\* tasks deliver it and whatever is lost on the way; and a receipt that says injected is
\* backed by the journal (pi-session-adapter.ts #inject and #injectOnce).
THEOREM MessagesInjectedOnce == Spec => []InjectedOnce
BY TypeInit, TypeNext, JournalInit, JournalNext, JournalImplies, PTL DEF Spec
=============================================================================
