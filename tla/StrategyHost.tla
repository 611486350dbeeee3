----------------------------- MODULE StrategyHost -----------------------------
(***************************************************************************)
(* The strategy host, formal_runner.py: run_strategy_host in the worker    *)
(* talks through pipes to a broker process, the broker to a callback       *)
(* process, and the callback's main thread through two queues of one       *)
(* place to the thread that runs the strategy.  A bar is released when the *)
(* strategy has answered the bar before, and what the strategy answers is  *)
(* stamped by the worker with the session it was known at and the session  *)
(* it takes effect in.                                                     *)
(*                                                                         *)
(* Request ids count from 1, the start frame; id k + 1 releases bar k.  The *)
(* token of a frame is as new as its id and goes with it.                  *)
(***************************************************************************)
EXTENDS Naturals, Sequences, SequencesExt

CONSTANTS
    Bars,      \* the session_seq of each bar, in the order of release
    Answers,   \* lists of intents a strategy may answer with
    MaxStrays, \* bound: lines that something writes to the callback's descriptor 1
    None

\* What a strategy may order: an intent_seq of its own and, if it likes, a session.
Intents == [seq : Nat, at : Nat \cup {None}]

\* What the constants have to be.
Constants ==
    /\ Bars \in Seq(Nat \ {0}) /\ Bars # <<>>
    /\ Answers \subseteq Seq(Intents)
    /\ MaxStrays \in Nat

VARIABLES
    parent,     \* run_strategy_host: what it does, its request, the tape so far
    toBroker,   \* frames in the broker's standard input, and whether it is open
    fromBroker, \* frames in the broker's standard output, and whether it is read
    broker,     \* STRATEGY_BROKER_PROGRAM
    toCallback,
    fromCallback,
    callback,   \* STRATEGY_CALLBACK_PROGRAM, its main thread
    strategy,   \* the candidate thread with its two queues
    said,       \* what the strategy answered to each request, in order
    trouble,    \* something but an answer in time has happened
    strays      \* stray lines so far

vars == <<parent, toBroker, fromBroker, broker, toCallback, fromCallback, callback,
          strategy, said, trouble, strays>>

\* What each program leaves alone.
others == <<parent, said, strays>>
above == <<toBroker, fromBroker, broker, parent>>
below == <<toCallback, fromCallback, callback, strategy>>

OpenPipe == [frames |-> <<>>, open |-> TRUE]

Init ==
    /\ parent = [pc |-> "send", id |-> 1, tape |-> <<>>, result |-> None]
    /\ toBroker = OpenPipe /\ fromBroker = OpenPipe
    /\ broker = [pc |-> "read", id |-> 1, reply |-> None, code |-> None]
    /\ toCallback = OpenPipe /\ fromCallback = OpenPipe
    /\ callback = [pc |-> "load", id |-> 1]
    /\ strategy = [pc |-> "load", request |-> None, result |-> None, lingers |-> FALSE]
    /\ said = <<>>
    /\ trouble = FALSE
    /\ strays = 0

-----------------------------------------------------------------------------
(* Frames and stamps *)

Reply(id, intents) == [id |-> id, intents |-> intents]

Stray == Reply(0, <<>>)

Waiting(pipe) == pipe.frames # <<>>

Put(pipe, frame) == [pipe EXCEPT !.frames = Append(@, frame)]

Taken(pipe) == [pipe EXCEPT !.frames = Tail(@)]

Closed(pipe) == [pipe EXCEPT !.open = FALSE]

\* Fault: any frame of the right shape is the answer.
AnswersAny(pipe, id) == Waiting(pipe)

\* The only frame that is waiting, and of this request.
IsAnswer(pipe, id) == Len(pipe.frames) = 1 /\ Head(pipe.frames).id = id

\* Fault: only the end of the other process ends a wait.
WaitsForEnd(pipe, writer) == ~Waiting(pipe) /\ writer.pc = "gone"

\* A wait without a frame ends: the other process has, or five seconds have passed.
MayGiveUp(pipe, writer) == ~Waiting(pipe)

\* The session a request was answered in: the close of the bar it released.
KnownAt(id) == IF id = 1 THEN 0 ELSE Bars[id - 1]

\* The open of the next bar's session, or a later one of the strategy's choice.
EffectiveAt(id, intent) == IF intent.at = None THEN Bars[id] ELSE intent.at

Stamped(id, intents) ==
    [i \in DOMAIN intents |-> [seq |-> intents[i].seq, known |-> KnownAt(id),
                               effective |-> EffectiveAt(id, intents[i])]]

\* append_intents: intent_seq grows, and a session the strategy names is not before the
\* next bar's.
Appendable(tape, id, intents) ==
    /\ \A i \in DOMAIN intents : intents[i].at # None => intents[i].at >= Bars[id]
    /\ LET seqs == [i \in DOMAIN tape |-> tape[i].seq] \o [i \in DOMAIN intents |-> intents[i].seq]
       IN  \A i, k \in DOMAIN seqs : i < k => seqs[i] < seqs[k]

IsLast(id) == id = Len(Bars) + 1

-----------------------------------------------------------------------------
(* run_strategy_host *)

Fail == parent' = [parent EXCEPT !.pc = "clean"]

\* A broken pipe ends the exchange.
Send ==
    /\ parent.pc = "send"
    /\ IF broker.pc = "gone"
         THEN Fail /\ UNCHANGED toBroker
         ELSE /\ toBroker' = Put(toBroker, parent.id)
              /\ parent' = [parent EXCEPT !.pc = "wait"]
    /\ UNCHANGED <<fromBroker, broker, below, said, trouble, strays>>

\* The last answer has to come, but what it orders has no session left.
Receive ==
    /\ parent.pc = "wait" /\ Waiting(fromBroker)
    /\ fromBroker' = Taken(fromBroker)
    /\ LET id == parent.id intents == Head(fromBroker.frames).intents IN
       CASE ~IsAnswer(fromBroker, id) -> Fail
         [] IsAnswer(fromBroker, id) /\ IsLast(id) ->
                parent' = [parent EXCEPT !.pc = "close"]
         [] IsAnswer(fromBroker, id) /\ ~IsLast(id) /\ Appendable(parent.tape, id, intents) ->
                parent' = [parent EXCEPT !.pc = "send", !.id = @ + 1,
                                         !.tape = @ \o Stamped(id, intents)]
         [] OTHER -> Fail
    /\ trouble' = (trouble \/ (~IsLast(parent.id)
                                 /\ ~Appendable(parent.tape, parent.id,
                                                Head(fromBroker.frames).intents)))
    /\ UNCHANGED <<toBroker, broker, below, said, strays>>

GiveUpWaiting ==
    /\ parent.pc = "wait" /\ MayGiveUp(fromBroker, broker)
    /\ Fail
    /\ trouble' = (trouble \/ broker.pc # "gone")
    /\ UNCHANGED <<toBroker, fromBroker, broker, below, said, strays>>

CloseInput ==
    /\ parent.pc = "close"
    /\ toBroker' = Closed(toBroker)
    /\ parent' = [parent EXCEPT !.pc = "join"]
    /\ UNCHANGED <<fromBroker, broker, below, said, trouble, strays>>

\* process.wait with three seconds for a broker that has ended well.
Join ==
    /\ parent.pc = "join"
    /\ parent' = [parent EXCEPT !.pc = "clean",
           !.result = IF broker.pc = "gone" /\ broker.code = 0 /\ ~Waiting(fromBroker) THEN parent.tape ELSE None]
    /\ trouble' = (trouble \/ broker.pc # "gone")
    /\ UNCHANGED <<toBroker, fromBroker, broker, below, said, strays>>

\* finally: the pipes are closed and a broker that is still there is terminated, at
\* once and without its own finally.
CleanUp ==
    /\ parent.pc = "clean"
    /\ parent' = [parent EXCEPT !.pc = "done"]
    /\ toBroker' = Closed(toBroker) /\ fromBroker' = Closed(fromBroker)
    /\ IF broker.pc = "gone"
         THEN UNCHANGED <<broker, toCallback, fromCallback>>
         ELSE /\ broker' = [broker EXCEPT !.pc = "gone", !.code = 15]
              /\ toCallback' = Closed(toCallback) /\ fromCallback' = Closed(fromCallback)
    /\ UNCHANGED <<callback, strategy, said, trouble, strays>>

Parent == Send \/ Receive \/ GiveUpWaiting \/ CloseInput \/ Join \/ CleanUp

-----------------------------------------------------------------------------
(* The broker *)

Stop(code) == broker' = [broker EXCEPT !.pc = "stop", !.code = code]

\* A request goes on to the callback; to a callback that has ended it is a broken pipe.
ReadRequest ==
    /\ broker.pc = "read" /\ Waiting(toBroker)
    /\ toBroker' = Taken(toBroker)
    /\ IF toBroker.frames = <<broker.id>> /\ callback.pc # "gone"
         THEN /\ toCallback' = Put(toCallback, broker.id)
              /\ broker' = [broker EXCEPT !.pc = "call"]
         ELSE Stop(1) /\ UNCHANGED toCallback
    /\ UNCHANGED <<fromBroker, fromCallback, callback, strategy, trouble, others>>

\* End of file is how a conversation ends that has begun; silence is not.
ReadEnd ==
    /\ broker.pc = "read" /\ ~Waiting(toBroker)
    /\ Stop(IF ~toBroker.open /\ broker.id > 1 THEN 0 ELSE 1)
    /\ trouble' = (trouble \/ toBroker.open)
    /\ UNCHANGED <<toBroker, fromBroker, below, others>>

ReadReply ==
    /\ broker.pc = "call" /\ Waiting(fromCallback)
    /\ fromCallback' = Taken(fromCallback)
    /\ IF IsAnswer(fromCallback, broker.id)
         THEN broker' = [broker EXCEPT !.pc = "reply", !.reply = Head(fromCallback.frames)]
         ELSE Stop(1)
    /\ UNCHANGED <<toBroker, fromBroker, toCallback, callback, strategy, trouble, others>>

GiveUpCall ==
    /\ broker.pc = "call" /\ MayGiveUp(fromCallback, callback)
    /\ Stop(1)
    /\ trouble' = (trouble \/ callback.pc # "gone")
    /\ UNCHANGED <<toBroker, fromBroker, below, others>>

SendReply ==
    /\ broker.pc = "reply"
    /\ IF fromBroker.open
         THEN /\ fromBroker' = Put(fromBroker, broker.reply)
              /\ broker' = [broker EXCEPT !.pc = "check"]
         ELSE Stop(1) /\ UNCHANGED fromBroker
    /\ UNCHANGED <<toBroker, below, trouble, others>>

\* no_pending_bytes: the parent must not have sent anything by now, or closed the pipe.
CheckQuiet ==
    /\ broker.pc = "check"
    /\ IF Waiting(toBroker) \/ ~toBroker.open
         THEN Stop(1)
         ELSE broker' = [broker EXCEPT !.pc = "read", !.id = @ + 1]
    /\ UNCHANGED <<toBroker, fromBroker, below, trouble, others>>

\* stop_callback closes the callback's input ...
CloseCallback ==
    /\ broker.pc = "stop"
    /\ toCallback' = Closed(toCallback)
    /\ broker' = [broker EXCEPT !.pc = "reap"]
    /\ UNCHANGED <<toBroker, fromBroker, fromCallback, callback, strategy, trouble, others>>

\* Fault: it waits and lets the callback be.
ReapedLeft == callback

Reaped == [callback EXCEPT !.pc = "gone"]

\* ... waits, and after a second ends a callback that has not.
Reap ==
    /\ broker.pc = "reap"
    /\ broker' = [broker EXCEPT !.pc = "gone"]
    /\ callback' = Reaped
    /\ fromCallback' = Closed(fromCallback)
    /\ trouble' = (trouble \/ callback.pc # "gone")
    /\ UNCHANGED <<toBroker, fromBroker, toCallback, strategy, others>>

Broker ==
    \/ ReadRequest \/ ReadEnd \/ ReadReply \/ GiveUpCall \/ SendReply
    \/ CheckQuiet \/ CloseCallback \/ Reap

-----------------------------------------------------------------------------
(* The callback process: its main thread, and the strategy's *)

Leave == callback' = [callback EXCEPT !.pc = "leave"]

\* The strategy is loaded, or could not be, or takes more than five seconds.
Ready ==
    /\ callback.pc = "load"
    /\ IF strategy.result # None /\ strategy.result.id = 0
         THEN callback' = [callback EXCEPT !.pc = "read"]
         ELSE Leave
    /\ strategy' = [strategy EXCEPT !.result = None]
    /\ trouble' = (trouble \/ strategy.result = None)
    /\ UNCHANGED <<above, toCallback, fromCallback, said, strays>>

ReadFrame ==
    /\ callback.pc = "read" /\ Waiting(toCallback)
    /\ strategy.request = None
    /\ toCallback' = Taken(toCallback)
    /\ strategy' = [strategy EXCEPT !.request = Head(toCallback.frames)]
    /\ callback' = [callback EXCEPT !.pc = "await"]
    /\ UNCHANGED <<above, fromCallback, said, trouble, strays>>

ReadFrameEnd ==
    /\ callback.pc = "read" /\ ~Waiting(toCallback) /\ ~toCallback.open
    /\ Leave
    /\ UNCHANGED <<above, toCallback, fromCallback, strategy, said, trouble, strays>>

\* The result of this request becomes a frame; a broker that has ended is a broken pipe.
Await ==
    /\ callback.pc = "await" /\ strategy.result # None
    /\ strategy' = [strategy EXCEPT !.result = None]
    /\ IF strategy.result.id = callback.id /\ strategy.result.intents # None /\ fromCallback.open
         THEN /\ fromCallback' = Put(fromCallback, strategy.result)
              /\ callback' = [callback EXCEPT !.pc = "read", !.id = @ + 1]
         ELSE Leave /\ UNCHANGED fromCallback
    /\ UNCHANGED <<above, toCallback, said, trouble, strays>>

GiveUpAwait ==
    /\ callback.pc = "await" /\ strategy.result = None
    /\ Leave
    /\ trouble' = TRUE
    /\ UNCHANGED <<above, toCallback, fromCallback, strategy, said, strays>>

\* finally: the thread is a daemon and cannot hold the process, but a thread that the
\* strategy started itself can.
EndCallback ==
    /\ callback.pc = "leave"
    /\ ~strategy.lingers
    /\ callback' = [callback EXCEPT !.pc = "gone"]
    /\ fromCallback' = Closed(fromCallback)
    /\ UNCHANGED <<above, toCallback, strategy, said, trouble, strays>>

Callback == Ready \/ ReadFrame \/ ReadFrameEnd \/ Await \/ GiveUpAwait \/ EndCallback

Runs == callback.pc # "gone"

\* The module is executed; it may raise, and may start threads of its own.
Load(ok, lingers) ==
    /\ Runs /\ strategy.pc = "load"
    /\ strategy' = [strategy EXCEPT !.pc = IF ok THEN "idle" ELSE "ended",
                                    !.result = Reply(IF ok THEN 0 ELSE 1, None),
                                    !.lingers = lingers]
    /\ trouble' = (trouble \/ ~ok \/ lingers)
    /\ UNCHANGED <<above, toCallback, fromCallback, callback, said, strays>>

\* on_start or on_bar returns a list, however late.
AnswerRequest(intents) ==
    /\ Runs /\ strategy.pc = "idle" /\ strategy.request # None /\ strategy.result = None
    /\ strategy' = [strategy EXCEPT !.request = None,
                                    !.result = Reply(strategy.request, intents)]
    /\ said' = Append(said, [id |-> strategy.request, intents |-> intents])
    /\ UNCHANGED <<above, toCallback, fromCallback, callback, trouble, strays>>

\* It raises, or returns what is not a list.
Raise ==
    /\ Runs /\ strategy.pc = "idle" /\ strategy.request # None /\ strategy.result = None
    /\ strategy' = [strategy EXCEPT !.pc = "ended", !.request = None,
                                    !.result = Reply(strategy.request, None)]
    /\ trouble' = TRUE
    /\ UNCHANGED <<above, toCallback, fromCallback, callback, said, strays>>

\* Something the strategy started writes a line to the inherited descriptor.
WriteStray ==
    /\ Runs /\ strays < MaxStrays /\ fromCallback.open
    /\ strays' = strays + 1
    /\ fromCallback' = Put(fromCallback, Stray)
    /\ trouble' = TRUE
    /\ UNCHANGED <<above, toCallback, callback, strategy, said>>

Strategy ==
    \/ \E ok, lingers \in BOOLEAN : Load(ok, lingers)
    \/ \E intents \in Answers : AnswerRequest(intents)
    \/ Raise \/ WriteStray

Next == Parent \/ Broker \/ Callback \/ Strategy

Spec == Init /\ [][Next]_vars

\* Every wait of the three programs has its timeout; the strategy owes nothing.
FairSpec == Spec /\ WF_vars(Parent) /\ WF_vars(Broker) /\ WF_vars(Callback)

-----------------------------------------------------------------------------
(* The engine, and the properties *)

\* The engine takes sessions in their order only.
InOrder == \A i, k \in DOMAIN Bars : i <= k => Bars[i] <= Bars[k]

\* Fault: an intent may take effect in the session it is known in.
EngineAcceptsSame(tape) ==
    InOrder /\ \A i \in DOMAIN tape :
                  tape[i].known <= tape[i].effective /\ Contains(Bars, tape[i].effective)

\* The engine refuses a tape with an intent that is not known before the open of the
\* session it takes effect in, one of the sessions there are.
EngineAccepts(tape) ==
    InOrder /\ \A i \in DOMAIN tape :
                  tape[i].known < tape[i].effective /\ Contains(Bars, tape[i].effective)

Requests == 1..(Len(Bars) + 1)
Tape == Seq([seq : Nat, known : Nat, effective : Nat])
Replies == [id : Requests \cup {0}, intents : Seq(Intents) \cup {None}]

\* Every variable holds what the programs can put there.
TypeOK ==
    /\ parent.pc \in {"send", "wait", "close", "join", "clean", "done"}
    /\ parent.id \in Requests
    /\ parent.tape \in Tape /\ parent.result \in Tape \cup {None}
    /\ broker.pc \in {"read", "call", "reply", "check", "stop", "reap", "gone"}
    /\ broker.code \in {None, 0, 1, 15}
    /\ callback.pc \in {"load", "read", "await", "leave", "gone"}
    /\ \A pipe \in {toBroker, toCallback} : pipe.frames \in Seq(Requests)
    /\ \A pipe \in {fromBroker, fromCallback} : pipe.frames \in Seq(Replies)
    /\ strategy.pc \in {"load", "idle", "ended"}
    /\ strategy.request \in Requests \cup {None}
    /\ strategy.result \in Replies \cup {None}
    /\ said \in Seq(Replies) /\ trouble \in BOOLEAN /\ strays \in 0..MaxStrays

\* The tape is what the strategy answered, in the order in which it was asked: no answer
\* is lost, doubled or taken for another one's, however late it came and whatever else
\* was in the pipes; and a tape is handed over only when the strategy has answered
\* every bar (docs/14_M5_RECOVERY_LIFECYCLE_EVIDENCE.md:24).
TapeIsAnswers ==
    /\ \A k \in DOMAIN said : said[k].id = k
    /\ Len(said) <= parent.id
    /\ parent.id <= Len(said) + 1
    /\ parent.tape = FlattenSeq([k \in 1..(parent.id - 1) |-> Stamped(k, said[k].intents)])
    /\ parent.result # None =>
          parent.result = parent.tape /\ Len(said) = Len(Bars) + 1

\* A tape the engine accepts was decided without knowledge of the future: when an intent
\* was answered, no bar of the session it takes effect in, or of a later one, had been
\* released (docs/14_M5_RECOVERY_LIFECYCLE_EVIDENCE.md:25).
NoLookAhead ==
    parent.result # None /\ EngineAccepts(parent.result) =>
        \A k \in DOMAIN said : k <= Len(Bars) =>
            \A i \in DOMAIN said[k].intents, t \in ToSet(parent.result) :
                t.seq = said[k].intents[i].seq =>
                    \A b \in 1..(k - 1) : Bars[b] < t.effective

\* The host ends whatever the strategy does, and leaves no process behind; but a thread
\* that the strategy started keeps a callback alive whose broker was terminated before
\* it could stop it (test_m5_forward_replay.py:183).
HostEnds ==
    <>[](/\ parent.pc = "done" /\ broker.pc = "gone"
         /\ callback.pc = "gone" \/ (broker.code = 15 /\ strategy.lingers))

\* Re-running the same legal strategy and market input succeeds
\* (docs/14_M5_RECOVERY_LIFECYCLE_EVIDENCE.md:21): when every answer came in time and
\* could be appended, and nothing else was written, the host returns the tape.
LegalStrategySucceeds ==
    parent.pc = "done" /\ parent.result = None => trouble
=============================================================================
