--------------------------- MODULE StrategyHost_proofs ---------------------------
(***************************************************************************)
(* Theorems about StrategyHost, for any bars, any strategy, any stray      *)
(* output and any timeouts: the tape is what the strategy answered, and    *)
(* what the engine accepts of it was decided without the future.           *)
(***************************************************************************)
EXTENDS StrategyHost, NaturalsInduction, WellFoundedInduction, TLAPS

-----------------------------------------------------------------------------
(* FlattenSeq, a sequence at a time *)

\* What FlattenSeq's recursive function has to be.
Flattens(g, parts, n) ==
    g = [i \in 1..n |-> IF i = 1 THEN parts[i] ELSE g[i - 1] \o parts[i]]

\* A set of numbers that is not empty has a least one.
LEMMA LeastNumber ==
    ASSUME NEW S \in SUBSET Nat, S # {}
    PROVE  \E n \in S : \A k \in S : n <= k
<1> DEFINE less == OpToRel(<, Nat)
<1>1. IsWellFoundedOn(less, Nat)
  BY NatLessThanWellFounded
<1>2. \A i, j \in Nat : i < j => <<i, j>> \in less
  BY DEF OpToRel
<1> HIDE DEF less
<1>3. PICK n \in S : \A k \in S : ~(<<k, n>> \in less)
  BY <1>1, WFMin
<1>4. ASSUME NEW k \in S PROVE n <= k
  <2>1. k \in Nat /\ n \in Nat
    OBVIOUS
  <2>2. ~(k < n)
    BY <1>2, <1>3, <2>1
  <2> QED
    BY <2>1, <2>2
<1> QED
  BY <1>4

LEMMA FlattensExists ==
    ASSUME NEW parts, NEW n \in Nat
    PROVE  \E g : Flattens(g, parts, n)
<1> DEFINE Bad == {k \in Nat : ~\E g : Flattens(g, parts, k)}
<1> SUFFICES ASSUME Bad # {} PROVE FALSE
  OBVIOUS
<1>1. PICK m \in Bad : \A k \in Bad : m <= k
  BY LeastNumber
<1>2. m # 0
  <2>1. Flattens([i \in 1..0 |-> <<>>], parts, 0)
    BY DEF Flattens
  <2> QED
    BY <2>1
<1>3. PICK g : Flattens(g, parts, m - 1)
  BY <1>1, <1>2
<1> DEFINE h == [i \in 1..m |-> IF i = 1 THEN parts[1]
                                 ELSE IF i = m THEN g[m - 1] \o parts[m] ELSE g[i]]
<1>a. m \in Nat \ {0}
  BY <1>2
<1>4. \A i \in 1..(m - 1) : h[i] = g[i]
  BY <1>a, <1>3 DEF Flattens
<1>5. \A i \in 1..m : h[i] = IF i = 1 THEN parts[i] ELSE h[i - 1] \o parts[i]
  <2> SUFFICES ASSUME NEW i \in 1..m, i # 1 PROVE h[i] = h[i - 1] \o parts[i]
    OBVIOUS
  <2>1. i - 1 \in 1..(m - 1) /\ i - 1 # m
    BY <1>a
  <2>4. h[i - 1] = g[i - 1]
    BY <1>4, <2>1
  <2>2. CASE i = m
    BY <2>4, <2>2
  <2>3. CASE i # m
    <3>1. i \in 1..(m - 1)
      BY <1>a, <2>3
    <3>2. g[i] = g[i - 1] \o parts[i]
      BY <1>3, <3>1 DEF Flattens
    <3> QED
      BY <1>4, <2>4, <3>1, <3>2
  <2> QED
    BY <2>2, <2>3
<1>6. Flattens(h, parts, m)
  BY <1>5 DEF Flattens
<1> QED
  BY <1>6

\* Two that agree on their parts agree.
LEMMA FlattensUnique ==
    ASSUME NEW parts, NEW more, NEW n \in Nat, NEW m \in Nat, n <= m,
           \A i \in 1..n : more[i] = parts[i],
           NEW g, Flattens(g, parts, n), NEW h, Flattens(h, more, m)
    PROVE  \A i \in 1..n : h[i] = g[i]
<1> DEFINE Bad == {k \in 1..n : h[k] # g[k]}
<1> SUFFICES ASSUME Bad # {} PROVE FALSE
  OBVIOUS
<1>0. Bad \in SUBSET Nat
  OBVIOUS
<1>1. PICK k \in Bad : \A i \in Bad : k <= i
  BY <1>0, LeastNumber
<1>2. k \in 1..n /\ k \in 1..m
  OBVIOUS
<1>3. /\ g[k] = IF k = 1 THEN parts[k] ELSE g[k - 1] \o parts[k]
      /\ h[k] = IF k = 1 THEN more[k] ELSE h[k - 1] \o more[k]
  BY <1>2 DEF Flattens
<1>4. k # 1 => h[k - 1] = g[k - 1]
  BY <1>1, <1>2
<1> QED
  BY <1>1, <1>2, <1>3, <1>4

LEMMA FlattenSeqIs ==
    ASSUME NEW parts, Len(parts) \in Nat \ {0}
    PROVE  \E g : Flattens(g, parts, Len(parts)) /\ FlattenSeq(parts) = g[Len(parts)]
<1> DEFINE n == Len(parts)
           flatten == CHOOSE g : g = [i \in 1..n |-> IF i = 1 THEN parts[i] ELSE g[i - 1] \o parts[i]]
<1>1. FlattenSeq(parts) = flatten[n]
  BY DEF FlattenSeq
<1>2. Flattens(flatten, parts, n)
  BY FlattensExists DEF Flattens
<1> QED
  BY <1>1, <1>2

LEMMA FlattenSeqOfOne ==
    ASSUME NEW parts, Len(parts) = 1
    PROVE  FlattenSeq(parts) = parts[1]
<1>1. PICK g : Flattens(g, parts, 1) /\ FlattenSeq(parts) = g[1]
  <2>1. Len(parts) \in Nat \ {0}
    OBVIOUS
  <2> QED
    BY <2>1, FlattenSeqIs
<1> QED
  BY <1>1 DEF Flattens

LEMMA FlattenSeqOfMore ==
    ASSUME NEW parts, NEW more, NEW n \in Nat \ {0}, Len(parts) = n, Len(more) = n + 1,
           \A i \in 1..n : more[i] = parts[i]
    PROVE  FlattenSeq(more) = FlattenSeq(parts) \o more[n + 1]
<1>1. PICK g : Flattens(g, parts, n) /\ FlattenSeq(parts) = g[n]
  BY FlattenSeqIs
<1>2. PICK h : Flattens(h, more, n + 1) /\ FlattenSeq(more) = h[n + 1]
  <2>1. Len(more) \in Nat \ {0}
    OBVIOUS
  <2> QED
    BY <2>1, FlattenSeqIs
<1>3. n \in Nat /\ n + 1 \in Nat /\ n <= n + 1 /\ n \in 1..n /\ n + 1 \in 1..(n + 1)
      /\ n + 1 # 1 /\ (n + 1) - 1 = n
  OBVIOUS
<1>4. h[n] = g[n]
  BY <1>1, <1>2, <1>3, FlattensUnique
<1>5. h[n + 1] = h[n] \o more[n + 1]
  BY <1>2, <1>3 DEF Flattens
<1> QED
  BY <1>1, <1>2, <1>4, <1>5

-----------------------------------------------------------------------------
(* Type correctness *)

\* A frame with a list of intents.
Answered == [id : Requests \cup {0}, intents : Seq(Intents)]

\* The records that TypeOK looks into.  What is in a pipe has a list of intents: a
\* strategy that raised leaves no frame.
Pipes(S) == [frames : Seq(S), open : BOOLEAN]
Parents == [pc : {"send", "wait", "close", "join", "clean", "done"}, id : Requests,
            tape : Tape, result : Tape \cup {None}]
Brokers == [pc : {"read", "call", "reply", "check", "stop", "reap", "gone"},
            id : Nat \ {0}, reply : Answered \cup {None}, code : {None, 0, 1, 15}]
Callbacks == [pc : {"load", "read", "await", "leave", "gone"}, id : Nat \ {0}]
Strategies == [pc : {"load", "idle", "ended"}, request : Requests \cup {None},
               result : Replies \cup {None}, lingers : BOOLEAN]
Sayings == Seq([id : Requests, intents : Seq(Intents)])

TypeInv ==
    /\ parent \in Parents
    /\ broker \in Brokers
    /\ broker.pc = "reply" => broker.reply \in Answered
    /\ callback \in Callbacks
    /\ strategy \in Strategies
    /\ toBroker \in Pipes(Requests) /\ toCallback \in Pipes(Requests)
    /\ fromBroker \in Pipes(Answered) /\ fromCallback \in Pipes(Answered)
    /\ said \in Sayings
    /\ trouble \in BOOLEAN /\ strays \in 0..MaxStrays

LEMMA FunctionIsSeq ==
    ASSUME NEW S, NEW n \in Nat, NEW f \in [1..n -> S]
    PROVE  f \in Seq(S) /\ Len(f) = n
OBVIOUS

\* What is put into a pipe and taken from one.
LEMMA PutIsPipe ==
    ASSUME NEW S, NEW pipe \in Pipes(S), NEW frame \in S
    PROVE  Put(pipe, frame) \in Pipes(S)
<1>1. Append(pipe.frames, frame) \in Seq(S)
  BY DEF Pipes
<1> QED
  BY <1>1 DEF Put, Pipes

LEMMA TakenIsPipe ==
    ASSUME NEW S, NEW pipe \in Pipes(S), Waiting(pipe)
    PROVE  /\ Taken(pipe) \in Pipes(S)
           /\ Head(pipe.frames) \in S
<1>1. Tail(pipe.frames) \in Seq(S) /\ Head(pipe.frames) \in S
  BY DEF Waiting, Pipes
<1> QED
  BY <1>1 DEF Taken, Pipes

LEMMA ClosedIsPipe ==
    ASSUME NEW S, NEW pipe \in Pipes(S)
    PROVE  Closed(pipe) \in Pipes(S)
BY DEF Closed, Pipes

\* The stamps of one answer.
LEMMA StampedIsTape ==
    ASSUME Constants, NEW id \in 1..Len(Bars), NEW intents \in Seq(Intents)
    PROVE  /\ Stamped(id, intents) \in Tape
           /\ Len(Stamped(id, intents)) = Len(intents)
           /\ \A i \in DOMAIN intents :
                  /\ i \in DOMAIN Stamped(id, intents)
                  /\ Stamped(id, intents)[i].seq = intents[i].seq
                  /\ Stamped(id, intents)[i].known = KnownAt(id)
<1> DEFINE stamp(i) == [seq |-> intents[i].seq, known |-> KnownAt(id),
                        effective |-> EffectiveAt(id, intents[i])]
           T == [seq : Nat, known : Nat, effective : Nat]
<1>1. Len(Bars) \in Nat /\ \A k \in 1..Len(Bars) : Bars[k] \in Nat
  BY DEF Constants
<1>2. KnownAt(id) \in Nat
  BY <1>1 DEF KnownAt
<1>3. \A i \in 1..Len(intents) : stamp(i) \in T
  <2> SUFFICES ASSUME NEW i \in 1..Len(intents) PROVE stamp(i) \in T
    OBVIOUS
  <2>1. intents[i] \in Intents
    OBVIOUS
  <2>2. intents[i].seq \in Nat /\ intents[i].at \in Nat \cup {None}
    BY <2>1 DEF Intents
  <2>3. EffectiveAt(id, intents[i]) \in Nat
    BY <1>1, <2>2 DEF EffectiveAt
  <2> QED
    BY <1>2, <2>2, <2>3
<1>4. Len(intents) \in Nat /\ DOMAIN intents = 1..Len(intents)
  OBVIOUS
<1>5. Stamped(id, intents) = [i \in 1..Len(intents) |-> stamp(i)]
  BY <1>4 DEF Stamped
<1> HIDE DEF T
<1>6. [i \in 1..Len(intents) |-> stamp(i)] \in Seq(T)
  <2>1. [i \in 1..Len(intents) |-> stamp(i)] \in [1..Len(intents) -> T]
    BY <1>3
  <2> QED
    BY <1>4, <2>1, FunctionIsSeq
<1>7. Len([i \in 1..Len(intents) |-> stamp(i)]) = Len(intents)
  BY <1>4
<1>8. \A i \in DOMAIN intents : i \in DOMAIN Stamped(id, intents) /\ Stamped(id, intents)[i] = stamp(i)
  BY <1>4, <1>5
<1> QED
  BY <1>5, <1>6, <1>7, <1>8 DEF Tape, T

LEMMA RequestsAre ==
    ASSUME Constants
    PROVE  /\ Len(Bars) \in Nat \ {0} /\ Requests \subseteq Nat \ {0} /\ 1 \in Requests
           /\ \A id \in Requests : ~IsLast(id) => id \in 1..Len(Bars) /\ id + 1 \in Requests
<1>1. Len(Bars) \in Nat \ {0}
  BY DEF Constants
<1> QED
  BY <1>1 DEF Requests, IsLast

LEMMA InitTyped == Constants /\ Init => TypeInv
<1> SUFFICES ASSUME Constants, Init PROVE TypeInv
  OBVIOUS
<1>1. \A S : <<>> \in Seq(S)
  OBVIOUS
<1>2. OpenPipe \in Pipes(Requests)
      /\ OpenPipe \in Pipes(Answered)
  BY <1>1 DEF OpenPipe, Pipes
<1>3. parent.tape \in Tape /\ said \in Sayings
  BY <1>1 DEF Init, Tape, Sayings
<1>4. strays \in 0..MaxStrays
  BY DEF Init, Constants
<1> QED
  BY <1>2, <1>3, <1>4, RequestsAre DEF Init, TypeInv, Parents, Brokers, Callbacks, Strategies

\* The record updates of the four programs.
LEMMA ParentMoves ==
    ASSUME NEW p \in Parents, NEW pc \in {"send", "wait", "close", "join", "clean", "done"}
    PROVE  [p EXCEPT !.pc = pc] \in Parents
BY DEF Parents

LEMMA BrokerMoves ==
    ASSUME NEW r \in Brokers,
           NEW pc \in {"read", "call", "reply", "check", "stop", "reap", "gone"}
    PROVE  [r EXCEPT !.pc = pc] \in Brokers /\ [r EXCEPT !.pc = pc].pc = pc
BY DEF Brokers

LEMMA BrokerEnds ==
    ASSUME NEW r \in Brokers, NEW pc \in {"stop", "gone"}, NEW n \in {0, 1, 15}
    PROVE  /\ [r EXCEPT !.pc = pc, !.code = n] \in Brokers
           /\ [r EXCEPT !.pc = pc, !.code = n].pc = pc
BY DEF Brokers

LEMMA BrokerReplies ==
    ASSUME NEW r \in Brokers, NEW f \in Answered
    PROVE  /\ [r EXCEPT !.pc = "reply", !.reply = f] \in Brokers
           /\ [r EXCEPT !.pc = "reply", !.reply = f].reply = f
BY DEF Brokers

LEMMA BrokerReads ==
    ASSUME NEW r \in Brokers
    PROVE  /\ [r EXCEPT !.pc = "read", !.id = @ + 1] \in Brokers
           /\ [r EXCEPT !.pc = "read", !.id = @ + 1].pc = "read"
<1>1. r.id + 1 \in Nat \ {0}
  BY DEF Brokers
<1>2. PICK n \in Nat \ {0} : n = r.id + 1
  BY <1>1
<1>3. [r EXCEPT !.pc = "read", !.id = n] \in Brokers /\ [r EXCEPT !.pc = "read", !.id = n].pc = "read"
  BY DEF Brokers
<1> QED
  BY <1>2, <1>3

LEMMA CallbackMoves ==
    ASSUME NEW c \in Callbacks, NEW pc \in {"load", "read", "await", "leave", "gone"}
    PROVE  [c EXCEPT !.pc = pc] \in Callbacks
BY DEF Callbacks

LEMMA CallbackReads ==
    ASSUME NEW c \in Callbacks
    PROVE  [c EXCEPT !.pc = "read", !.id = @ + 1] \in Callbacks
<1>1. c.id + 1 \in Nat \ {0}
  BY DEF Callbacks
<1>2. PICK n \in Nat \ {0} : n = c.id + 1
  BY <1>1
<1>3. [c EXCEPT !.pc = "read", !.id = n] \in Callbacks
  BY DEF Callbacks
<1> QED
  BY <1>2, <1>3

LEMMA ParentTyped == Constants /\ TypeInv /\ Parent => TypeInv'
<1> SUFFICES ASSUME Constants, TypeInv, Parent PROVE TypeInv'
  OBVIOUS
<1> USE DEF below
<1>1. CASE Send
  <2>1. parent.id \in Requests
    BY DEF TypeInv, Parents
  <2>2. toBroker' \in Pipes(Requests)
    BY <1>1, <2>1, PutIsPipe DEF Send, TypeInv
  <2>3. parent' \in Parents
    BY <1>1, ParentMoves DEF Send, Fail, TypeInv
  <2> QED
    BY <1>1, <2>2, <2>3 DEF Send, TypeInv
<1>2. CASE Receive
  <2>1. fromBroker' \in Pipes(Answered)
    BY <1>2, TakenIsPipe DEF Receive, TypeInv
  <2>2. parent' \in Parents
    <3> DEFINE id == parent.id
               intents == Head(fromBroker.frames).intents
    <3>1. Head(fromBroker.frames) \in Answered /\ parent \in Parents
      BY <1>2, TakenIsPipe DEF Receive, TypeInv
    <3>2. intents \in Seq(Intents) /\ id \in Requests /\ parent.tape \in Tape
      BY <3>1 DEF Answered, Parents
    <3>3. ~IsLast(id) => id + 1 \in Requests /\ parent.tape \o Stamped(id, intents) \in Tape
      <4> SUFFICES ASSUME ~IsLast(id)
                   PROVE  id + 1 \in Requests /\ parent.tape \o Stamped(id, intents) \in Tape
        OBVIOUS
      <4>1. id \in 1..Len(Bars) /\ id + 1 \in Requests
        BY <3>2, RequestsAre
      <4>2. Stamped(id, intents) \in Tape
        BY <3>2, <4>1, StampedIsTape
      <4> HIDE DEF id, intents
      <4>3. parent.tape \o Stamped(id, intents) \in Tape
        BY <3>2, <4>2 DEF Tape
      <4> QED
        BY <4>1, <4>3
    <3>4. \/ parent' = [parent EXCEPT !.pc = "clean"]
          \/ parent' = [parent EXCEPT !.pc = "close"]
          \/ ~IsLast(id) /\ parent' = [parent EXCEPT !.pc = "send", !.id = id + 1,
                                          !.tape = parent.tape \o Stamped(id, intents)]
      BY <1>2 DEF Receive, Fail
    <3> HIDE DEF id, intents
    <3>5. ASSUME NEW i \in Requests, NEW t \in Tape
          PROVE  [parent EXCEPT !.pc = "send", !.id = i, !.tape = t] \in Parents
      BY <3>1 DEF Parents
    <3> QED
      BY <3>1, <3>3, <3>4, <3>5, ParentMoves
  <2>3. trouble' \in BOOLEAN
    BY <1>2 DEF Receive
  <2> QED
    BY <1>2, <2>1, <2>2, <2>3 DEF Receive, TypeInv
<1>3. CASE GiveUpWaiting
  <2>1. parent' \in Parents
    BY <1>3, ParentMoves DEF GiveUpWaiting, Fail, TypeInv
  <2> QED
    BY <1>3, <2>1 DEF GiveUpWaiting, TypeInv
<1>4. CASE CloseInput
  <2>1. parent' \in Parents /\ toBroker' \in Pipes(Requests)
    BY <1>4, ParentMoves, ClosedIsPipe DEF CloseInput, TypeInv
  <2> QED
    BY <1>4, <2>1 DEF CloseInput, TypeInv
<1>5. CASE Join
  <2>1. \E result \in {parent.tape, None} :
           parent' = [parent EXCEPT !.pc = "clean", !.result = result]
    BY <1>5 DEF Join
  <2>2. parent' \in Parents
    BY <2>1 DEF TypeInv, Parents
  <2> QED
    BY <1>5, <2>2 DEF Join, TypeInv
<1>6. CASE CleanUp
  <2>1. toBroker' \in Pipes(Requests) /\ fromBroker' \in Pipes(Answered)
        /\ parent' \in Parents
    BY <1>6, ParentMoves, ClosedIsPipe DEF CleanUp, TypeInv
  <2>2. toCallback' \in Pipes(Requests) /\ fromCallback' \in Pipes(Answered)
    BY <1>6, ClosedIsPipe DEF CleanUp, TypeInv
  <2>3. broker' \in Brokers /\ (broker' = broker \/ broker'.pc = "gone")
    <3>1. broker' = broker \/ broker' = [broker EXCEPT !.pc = "gone", !.code = 15]
      BY <1>6 DEF CleanUp
    <3>2. broker \in Brokers /\ "gone" \in {"stop", "gone"} /\ 15 \in {0, 1, 15}
      BY DEF TypeInv
    <3> QED
      BY <3>1, <3>2, BrokerEnds
  <2> QED
    BY <1>6, <2>1, <2>2, <2>3 DEF CleanUp, TypeInv
<1> QED
  BY <1>1, <1>2, <1>3, <1>4, <1>5, <1>6 DEF Parent

LEMMA BrokerTyped == Constants /\ TypeInv /\ Broker => TypeInv'
<1> SUFFICES ASSUME Constants, TypeInv, Broker PROVE TypeInv'
  OBVIOUS
<1> USE DEF above, below, others
<1>0. ASSUME NEW n \in {0, 1}, Stop(n) PROVE broker' \in Brokers /\ broker'.pc = "stop"
  <2>1. broker \in Brokers /\ "stop" \in {"stop", "gone"} /\ n \in {0, 1, 15}
    BY DEF TypeInv
  <2>2. broker' = [broker EXCEPT !.pc = "stop", !.code = n]
    BY <1>0 DEF Stop
  <2> QED
    BY <2>1, <2>2, BrokerEnds
<1>1. CASE ReadRequest
  <2>1. toBroker' \in Pipes(Requests) /\ Head(toBroker.frames) \in Requests
    BY <1>1, TakenIsPipe DEF ReadRequest, TypeInv
  <2>2. CASE toBroker.frames = <<broker.id>> /\ callback.pc # "gone"
    <3>1. broker.id \in Requests
      BY <2>1, <2>2
    <3>2. toCallback' \in Pipes(Requests)
      BY <1>1, <2>2, <3>1, PutIsPipe DEF ReadRequest, TypeInv
    <3>3. broker' \in Brokers /\ broker'.pc = "call"
      <4>1. broker' = [broker EXCEPT !.pc = "call"]
        BY <1>1, <2>2 DEF ReadRequest
      <4> QED
        BY <4>1, BrokerMoves DEF TypeInv
    <3> QED
      BY <1>1, <2>1, <3>2, <3>3 DEF ReadRequest, TypeInv
  <2>3. CASE ~(toBroker.frames = <<broker.id>> /\ callback.pc # "gone")
    <3>1. Stop(1)
      BY <1>1, <2>3 DEF ReadRequest
    <3> QED
      BY <1>0, <1>1, <2>1, <2>3, <3>1 DEF ReadRequest, TypeInv
  <2> QED
    BY <2>2, <2>3
<1>2. CASE ReadEnd
  <2>1. \E n \in {0, 1} : Stop(n)
    BY <1>2 DEF ReadEnd
  <2> QED
    BY <1>0, <1>2, <2>1 DEF ReadEnd, TypeInv
<1>3. CASE ReadReply
  <2>1. fromCallback' \in Pipes(Answered) /\ Head(fromCallback.frames) \in Answered
    BY <1>3, TakenIsPipe DEF ReadReply, TypeInv
  <2>2. broker' \in Brokers /\ (broker'.pc = "reply" => broker'.reply \in Answered)
    <3>1. \/ Stop(1)
          \/ broker' = [broker EXCEPT !.pc = "reply", !.reply = Head(fromCallback.frames)]
      BY <1>3 DEF ReadReply
    <3> QED
      BY <1>0, <2>1, <3>1, BrokerReplies DEF TypeInv
  <2> QED
    BY <1>3, <2>1, <2>2 DEF ReadReply, TypeInv
<1>4. CASE GiveUpCall
  BY <1>0, <1>4 DEF GiveUpCall, TypeInv
<1>5. CASE SendReply
  <2>1. fromBroker' \in Pipes(Answered)
    BY <1>5, PutIsPipe DEF SendReply, TypeInv
  <2>2. broker' \in Brokers /\ broker'.pc # "reply"
    BY <1>0, <1>5, BrokerMoves DEF SendReply, TypeInv
  <2> QED
    BY <1>5, <2>1, <2>2 DEF SendReply, TypeInv
<1>6. CASE CheckQuiet
  <2>1. broker' \in Brokers /\ broker'.pc # "reply"
    BY <1>0, <1>6, BrokerReads DEF CheckQuiet, TypeInv
  <2> QED
    BY <1>6, <2>1 DEF CheckQuiet, TypeInv
<1>7. CASE CloseCallback
  <2>1. toCallback' \in Pipes(Requests) /\ broker' \in Brokers /\ broker'.pc # "reply"
    BY <1>7, ClosedIsPipe, BrokerMoves DEF CloseCallback, TypeInv
  <2> QED
    BY <1>7, <2>1 DEF CloseCallback, TypeInv
<1>8. CASE Reap
  <2>1. fromCallback' \in Pipes(Answered) /\ broker' \in Brokers /\ broker'.pc # "reply"
    BY <1>8, ClosedIsPipe, BrokerMoves DEF Reap, TypeInv
  <2>2. callback' \in Callbacks
    BY <1>8, CallbackMoves DEF Reap, Reaped, TypeInv
  <2> QED
    BY <1>8, <2>1, <2>2 DEF Reap, TypeInv
<1> QED
  BY <1>1, <1>2, <1>3, <1>4, <1>5, <1>6, <1>7, <1>8 DEF Broker

LEMMA CallbackTyped == Constants /\ TypeInv /\ Callback => TypeInv'
<1> SUFFICES ASSUME Constants, TypeInv, Callback PROVE TypeInv'
  OBVIOUS
<1> USE DEF above
<1>0. Leave => callback' \in Callbacks
  BY CallbackMoves DEF Leave, TypeInv
<1>1. CASE Ready
  <2>1. callback' \in Callbacks
    BY <1>0, <1>1, CallbackMoves DEF Ready, TypeInv
  <2>2. strategy' \in Strategies
    BY <1>1 DEF Ready, TypeInv, Strategies
  <2> QED
    BY <1>1, <2>1, <2>2 DEF Ready, TypeInv
<1>2. CASE ReadFrame
  <2>1. toCallback' \in Pipes(Requests) /\ Head(toCallback.frames) \in Requests
    BY <1>2, TakenIsPipe DEF ReadFrame, TypeInv
  <2>2. callback' \in Callbacks
    BY <1>2, CallbackMoves DEF ReadFrame, TypeInv
  <2>3. strategy' \in Strategies
    BY <1>2, <2>1 DEF ReadFrame, TypeInv, Strategies
  <2> QED
    BY <1>2, <2>1, <2>2, <2>3 DEF ReadFrame, TypeInv
<1>3. CASE ReadFrameEnd
  BY <1>0, <1>3 DEF ReadFrameEnd, TypeInv
<1>4. CASE Await
  <2>1. strategy' \in Strategies
    BY <1>4 DEF Await, TypeInv, Strategies
  <2>2. CASE strategy.result.id = callback.id /\ strategy.result.intents # None /\ fromCallback.open
    <3>1. strategy.result \in Answered
      BY <1>4, <2>2 DEF Await, TypeInv, Strategies, Replies, Answered
    <3>2. fromCallback' \in Pipes(Answered)
      BY <1>4, <2>2, <3>1, PutIsPipe DEF Await, TypeInv
    <3>3. callback' \in Callbacks
      BY <1>4, <2>2, CallbackReads DEF Await, TypeInv
    <3> QED
      BY <1>4, <2>1, <3>2, <3>3 DEF Await, TypeInv
  <2>3. CASE ~(strategy.result.id = callback.id /\ strategy.result.intents # None /\ fromCallback.open)
    BY <1>0, <1>4, <2>1, <2>3 DEF Await, TypeInv
  <2> QED
    BY <2>2, <2>3
<1>5. CASE GiveUpAwait
  BY <1>0, <1>5 DEF GiveUpAwait, TypeInv
<1>6. CASE EndCallback
  <2>1. fromCallback' \in Pipes(Answered) /\ callback' \in Callbacks
    BY <1>6, ClosedIsPipe, CallbackMoves DEF EndCallback, TypeInv
  <2> QED
    BY <1>6, <2>1 DEF EndCallback, TypeInv
<1> QED
  BY <1>1, <1>2, <1>3, <1>4, <1>5, <1>6 DEF Callback

LEMMA StrategyTyped == Constants /\ TypeInv /\ Strategy => TypeInv'
<1> SUFFICES ASSUME Constants, TypeInv, Strategy PROVE TypeInv'
  OBVIOUS
<1> USE DEF above
<1>1. ASSUME NEW ok \in BOOLEAN, NEW lingers \in BOOLEAN, Load(ok, lingers) PROVE TypeInv'
  <2>1. PICK result : result = Reply(IF ok THEN 0 ELSE 1, None)
    OBVIOUS
  <2>2. result \in Replies
    BY <2>1, RequestsAre DEF Reply, Replies
  <2>3. strategy' = [strategy EXCEPT !.pc = IF ok THEN "idle" ELSE "ended",
                                     !.result = result, !.lingers = lingers]
    BY <1>1, <2>1 DEF Load
  <2>4. strategy' \in Strategies
    BY <2>2, <2>3 DEF TypeInv, Strategies
  <2> QED
    BY <1>1, <2>4 DEF Load, TypeInv
<1>2. ASSUME NEW intents \in Answers, AnswerRequest(intents) PROVE TypeInv'
  <2>1. intents \in Seq(Intents)
    BY DEF Constants
  <2>2. strategy.request \in Requests
    BY <1>2 DEF AnswerRequest, TypeInv, Strategies
  <2>3. Reply(strategy.request, intents) \in Replies
    BY <2>1, <2>2 DEF Reply, Replies
  <2>4. [id |-> strategy.request, intents |-> intents] \in [id : Requests, intents : Seq(Intents)]
    BY <2>1, <2>2
  <2>5. said' \in Sayings
    <3>1. PICK last : last = [id |-> strategy.request, intents |-> intents]
      OBVIOUS
    <3> QED
      BY <1>2, <2>4, <3>1 DEF AnswerRequest, TypeInv, Sayings
  <2>6. strategy' \in Strategies
    <3>1. PICK result : result = Reply(strategy.request, intents)
      OBVIOUS
    <3>2. strategy' = [strategy EXCEPT !.request = None, !.result = result]
      BY <1>2, <3>1 DEF AnswerRequest
    <3> QED
      BY <2>3, <3>1, <3>2 DEF TypeInv, Strategies
  <2> QED
    BY <1>2, <2>5, <2>6 DEF AnswerRequest, TypeInv
<1>3. CASE Raise
  <2>1. PICK result : result = Reply(strategy.request, None)
    OBVIOUS
  <2>2. result \in Replies
    BY <1>3, <2>1 DEF Raise, TypeInv, Strategies, Reply, Replies
  <2>3. strategy' = [strategy EXCEPT !.pc = "ended", !.request = None, !.result = result]
    BY <1>3, <2>1 DEF Raise
  <2>4. strategy' \in Strategies
    BY <2>2, <2>3 DEF TypeInv, Strategies
  <2> QED
    BY <1>3, <2>4 DEF Raise, TypeInv
<1>4. CASE WriteStray
  <2>1. Stray \in Answered
    <3>1. <<>> \in Seq(Intents)
      OBVIOUS
    <3> QED
      BY <3>1 DEF Stray, Reply, Answered
  <2>2. fromCallback' \in Pipes(Answered)
    BY <1>4, <2>1, PutIsPipe DEF WriteStray, TypeInv
  <2>3. strays' \in 0..MaxStrays
    BY <1>4 DEF WriteStray, TypeInv, Constants
  <2> QED
    BY <1>4, <2>2, <2>3 DEF WriteStray, TypeInv
<1> QED
  BY <1>1, <1>2, <1>3, <1>4 DEF Strategy

LEMMA TypedStep == ASSUME Constants, TypeInv, [Next]_vars PROVE TypeInv'
<1>1. UNCHANGED vars => TypeInv'
  BY DEF TypeInv, vars
<1> QED
  BY <1>1, ParentTyped, BrokerTyped, CallbackTyped, StrategyTyped DEF Next

LEMMA TypeHolds == ASSUME Constants PROVE Spec => []TypeInv
<1>1. Init => TypeInv
  BY InitTyped
<1>2. TypeInv /\ [Next]_vars => TypeInv'
  BY TypedStep
<1> QED
  BY <1>1, <1>2, PTL DEF Spec

\* Every reachable state of the host is well-typed, for any bars, answers and stray lines.
THEOREM HostTypeOK == ASSUME Constants PROVE Spec => []TypeOK
<1>1. TypeInv => TypeOK
  <2> SUFFICES ASSUME TypeInv PROVE TypeOK
    OBVIOUS
  <2>1. Answered \subseteq Replies /\ [id : Requests, intents : Seq(Intents)] \subseteq Replies
    BY DEF Answered, Replies
  <2>2. /\ fromBroker.frames \in Seq(Replies) /\ fromCallback.frames \in Seq(Replies)
        /\ said \in Seq(Replies)
    <3>1. \A S, T : S \subseteq T => Seq(S) \subseteq Seq(T)
      OBVIOUS
    <3>2. /\ fromBroker.frames \in Seq(Answered) /\ fromCallback.frames \in Seq(Answered)
          /\ said \in Seq([id : Requests, intents : Seq(Intents)])
      BY DEF TypeInv, Pipes, Sayings
    <3> QED
      BY <2>1, <3>1, <3>2
  <2> QED
    BY <2>2 DEF TypeInv, TypeOK, Parents, Brokers, Callbacks, Strategies, Pipes
<1> QED
  BY <1>1, TypeHolds, PTL

-----------------------------------------------------------------------------
(* The protocol: one request is on its way, or its answer *)

\* A request has been passed on and the strategy has not answered it.
Asked == toCallback.frames # <<>> \/ strategy.request # None

\* Where everybody is, in the conversation of which Len(said) answers have been given.
\* The broker's bar is the parent's or the one before, and the next request is not in a
\* pipe before the strategy has answered the last.
Place ==
    /\ Len(said) \in {parent.id - 1, parent.id}
    /\ Len(said) \in {broker.id - 1, broker.id}
    /\ toBroker.frames \in {<<>>, <<parent.id>>}
    /\ toBroker.frames # <<>> => Len(said) = parent.id - 1
    /\ toCallback.frames \in {<<>>, <<broker.id>>}
    /\ strategy.request # None => strategy.request = broker.id /\ toCallback.frames = <<>>
    /\ Asked => /\ Len(said) = broker.id - 1 /\ broker.id = parent.id
                /\ toBroker.frames = <<>> /\ broker.pc \notin {"read", "reply", "check"}
    /\ broker.pc = "read" => Len(said) = broker.id - 1
    /\ broker.pc \in {"reply", "check"} => Len(said) = broker.id
    /\ parent.pc = "send" => toBroker.frames = <<>> /\ ~Asked /\ Len(said) = parent.id - 1
    /\ parent.pc \in {"close", "join"} => IsLast(parent.id) /\ Len(said) = parent.id
    /\ parent.result # None => /\ parent.pc \in {"clean", "done"}
                               /\ parent.result = parent.tape
                               /\ IsLast(parent.id) /\ Len(said) = parent.id

\* The frames that say what the strategy said, or nothing about any request.
Honest(sayings) ==
    {f \in Answered : f.id # 0 => /\ f.id \in DOMAIN sayings
                                 /\ f.intents = sayings[f.id].intents}

NoFrameLies ==
    /\ fromBroker \in Pipes(Honest(said)) /\ fromCallback \in Pipes(Honest(said))
    /\ broker.pc = "reply" => broker.reply \in Honest(said)
    /\ strategy.result # None /\ strategy.result.intents # None => strategy.result \in Honest(said)

SaidInOrder == \A k \in DOMAIN said : said[k].id = k

ProtocolInv == Place /\ NoFrameLies /\ SaidInOrder

\* The numbers and records behind them.
Numbers ==
    /\ parent.id \in Nat \ {0} /\ broker.id \in Nat \ {0} /\ Len(said) \in Nat
    /\ parent \in Parents /\ broker \in Brokers /\ callback \in Callbacks
    /\ strategy \in Strategies
    /\ toBroker \in Pipes(Requests) /\ toCallback \in Pipes(Requests)

LEMMA NumbersAre == ASSUME Constants, TypeInv PROVE Numbers
BY RequestsAre DEF TypeInv, Numbers, Parents, Brokers, Sayings

\* Fields after an update.
LEMMA ParentFields ==
    ASSUME NEW p \in Parents, NEW pc
    PROVE  LET q == [p EXCEPT !.pc = pc]
           IN  q.pc = pc /\ q.id = p.id /\ q.tape = p.tape /\ q.result = p.result
BY DEF Parents

LEMMA BrokerFields ==
    ASSUME NEW r \in Brokers, NEW pc
    PROVE  [r EXCEPT !.pc = pc].pc = pc /\ [r EXCEPT !.pc = pc].id = r.id
BY DEF Brokers

LEMMA SaidMore ==
    ASSUME NEW s \in Sayings, NEW more
    PROVE  /\ Len(Append(s, more)) = Len(s) + 1 /\ Len(s) \in Nat
           /\ DOMAIN s = 1..Len(s) /\ DOMAIN Append(s, more) = 1..(Len(s) + 1)
           /\ \A k \in DOMAIN s : Append(s, more)[k] = s[k]
           /\ Append(s, more)[Len(s) + 1] = more
BY DEF Sayings

LEMMA PutFrames ==
    ASSUME NEW S, NEW pipe \in Pipes(S), NEW frame
    PROVE  pipe.frames = <<>> => Put(pipe, frame).frames = <<frame>>
BY DEF Put, Pipes

LEMMA TakenFrames ==
    ASSUME NEW S, NEW pipe \in Pipes(S), NEW frame, pipe.frames = <<frame>>
    PROVE  Taken(pipe).frames = <<>> /\ Head(pipe.frames) = frame
BY DEF Taken, Pipes

LEMMA ClosedFrames ==
    ASSUME NEW S, NEW pipe \in Pipes(S)
    PROVE  Closed(pipe).frames = pipe.frames
BY DEF Closed, Pipes

LEMMA PipesGrow ==
    ASSUME NEW S, NEW T, S \subseteq T, NEW pipe \in Pipes(S)
    PROVE  pipe \in Pipes(T)
<1>1. Seq(S) \subseteq Seq(T)
  OBVIOUS
<1> QED
  BY <1>1 DEF Pipes

\* An honest frame about a request tells that it has been answered.
LEMMA HonestTells ==
    ASSUME TypeInv, NEW f \in Honest(said), NEW id \in Nat \ {0}, f.id = id
    PROVE  id <= Len(said) /\ id \in DOMAIN said /\ f.intents = said[id].intents
BY DEF TypeInv, Sayings, Honest

LEMMA ParentKeepsProtocol ==
    ASSUME Constants, TypeInv, ProtocolInv, Parent
    PROVE  ProtocolInv' /\ said' = said
<1> USE NumbersAre
<1>0. said' = said /\ strategy' = strategy
  BY DEF Parent, Send, Receive, GiveUpWaiting, CloseInput, Join, CleanUp, below
<1>1. SaidInOrder'
  BY <1>0 DEF ProtocolInv, SaidInOrder
<1>2. NoFrameLies'
  <2>1. fromBroker' \in Pipes(Honest(said))
    <3>1. \/ fromBroker' = fromBroker \/ fromBroker' = Closed(fromBroker)
          \/ Waiting(fromBroker) /\ fromBroker' = Taken(fromBroker)
      BY DEF Parent, Send, Receive, GiveUpWaiting, CloseInput, Join, CleanUp
    <3> QED
      BY <3>1, ClosedIsPipe, TakenIsPipe DEF ProtocolInv, NoFrameLies
  <2>2. fromCallback' \in Pipes(Honest(said))
    <3>1. fromCallback' = fromCallback \/ fromCallback' = Closed(fromCallback)
      BY DEF Parent, Send, Receive, GiveUpWaiting, CloseInput, Join, CleanUp, below
    <3> QED
      BY <3>1, ClosedIsPipe DEF ProtocolInv, NoFrameLies
  <2>3. broker' = broker \/ broker'.pc # "reply"
    <3>1. broker' = broker \/ broker' = [broker EXCEPT !.pc = "gone", !.code = 15]
      BY DEF Parent, Send, Receive, GiveUpWaiting, CloseInput, Join, CleanUp, below
    <3>2. broker \in Brokers
      BY DEF Numbers
    <3> QED
      BY <3>1, <3>2 DEF Brokers
  <2> QED
    BY <1>0, <2>1, <2>2, <2>3 DEF ProtocolInv, NoFrameLies
<1>3. Place'
  <2>1. CASE Send
    <3>1. CASE broker.pc = "gone"
      <4>1. parent' = [parent EXCEPT !.pc = "clean"]
        BY <2>1, <3>1 DEF Send, Fail
      <4> QED
        BY <1>0, <2>1, <3>1, <4>1, ParentFields DEF Send, below, ProtocolInv, Place, Asked, Numbers
    <3>2. CASE broker.pc # "gone"
      <4>1. parent' = [parent EXCEPT !.pc = "wait"]
        BY <2>1, <3>2 DEF Send
      <4>2. toBroker'.frames = <<parent.id>>
        BY <2>1, <3>2, PutFrames DEF Send, ProtocolInv, Place, Numbers
      <4> QED
        BY <1>0, <2>1, <4>1, <4>2, ParentFields DEF Send, below, ProtocolInv, Place, Asked, Numbers
    <3> QED
      BY <3>1, <3>2
  <2>2. CASE Receive
    <3>0. parent.pc = "wait" /\ parent.result = None
      BY <2>2 DEF Receive, ProtocolInv, Place
    <3>1. CASE parent' = [parent EXCEPT !.pc = "clean"]
      BY <1>0, <2>2, <3>0, <3>1, ParentFields DEF Receive, below, ProtocolInv, Place, Asked, Numbers
    <3>2. ASSUME IsAnswer(fromBroker, parent.id) PROVE Len(said) = parent.id
      <4>1. Head(fromBroker.frames) \in Honest(said)
        BY <2>2, TakenIsPipe DEF Receive, ProtocolInv, NoFrameLies
      <4> QED
        BY <3>2, <4>1, HonestTells DEF IsAnswer, Numbers, ProtocolInv, Place
    <3>3. CASE /\ IsAnswer(fromBroker, parent.id) /\ IsLast(parent.id)
               /\ parent' = [parent EXCEPT !.pc = "close"]
      BY <1>0, <2>2, <3>0, <3>2, <3>3, ParentFields
         DEF Receive, below, ProtocolInv, Place, Asked, Numbers
    <3>4. CASE IsAnswer(fromBroker, parent.id) /\ \E tape :
                   parent' = [parent EXCEPT !.pc = "send", !.id = @ + 1, !.tape = tape]
      <4>1. parent'.pc = "send" /\ parent'.id = parent.id + 1 /\ parent'.result = None
        BY <3>0, <3>4 DEF Numbers, Parents
      <4> QED
        BY <1>0, <2>2, <3>0, <3>2, <3>4, <4>1
           DEF Receive, below, ProtocolInv, Place, Asked, Numbers
    <3> QED
      BY <2>2, <3>1, <3>3, <3>4 DEF Receive, Fail
  <2>3. CASE GiveUpWaiting
    BY <1>0, <2>3, ParentFields DEF GiveUpWaiting, Fail, below, ProtocolInv, Place, Asked, Numbers
  <2>4. CASE CloseInput
    <3>1. toBroker'.frames = toBroker.frames
      BY <2>4, ClosedFrames DEF CloseInput, Numbers
    <3> QED
      BY <1>0, <2>4, <3>1, ParentFields DEF CloseInput, below, ProtocolInv, Place, Asked, Numbers
  <2>5. CASE Join
    <3>1. /\ parent'.pc = "clean" /\ parent'.id = parent.id /\ parent'.tape = parent.tape
          /\ parent'.result \in {parent.tape, None}
      BY <2>5 DEF Join, Numbers, Parents
    <3> QED
      BY <1>0, <2>5, <3>1 DEF Join, below, ProtocolInv, Place, Asked, Numbers
  <2>6. CASE CleanUp
    <3>1. /\ toBroker'.frames = toBroker.frames
          /\ toCallback'.frames = toCallback.frames
      BY <2>6, ClosedFrames DEF CleanUp, Numbers
    <3>2. broker'.id = broker.id /\ broker'.pc = "gone"
      <4>1. broker' = broker \/ broker' = [broker EXCEPT !.pc = "gone", !.code = 15]
        BY <2>6 DEF CleanUp
      <4>2. broker \in Brokers
        BY DEF Numbers
      <4>3. broker.pc = "gone" \/ broker' = [broker EXCEPT !.pc = "gone", !.code = 15]
        BY <2>6 DEF CleanUp
      <4> QED
        BY <4>1, <4>2, <4>3 DEF Brokers
    <3> QED
      BY <1>0, <2>6, <3>1, <3>2, ParentFields DEF CleanUp, ProtocolInv, Place, Asked, Numbers
  <2> QED
    BY <2>1, <2>2, <2>3, <2>4, <2>5, <2>6 DEF Parent
<1> QED
  BY <1>0, <1>1, <1>2, <1>3 DEF ProtocolInv

LEMMA BrokerKeepsProtocol ==
    ASSUME Constants, TypeInv, ProtocolInv, Broker
    PROVE  ProtocolInv' /\ said' = said /\ parent' = parent
<1> USE NumbersAre
<1>0. said' = said /\ strategy' = strategy /\ parent' = parent
  BY DEF Broker, ReadRequest, ReadEnd, ReadReply, GiveUpCall, SendReply, CheckQuiet,
         CloseCallback, Reap, below, others
<1>1. SaidInOrder'
  BY <1>0 DEF ProtocolInv, SaidInOrder
<1>b. broker \in Brokers
  BY DEF Numbers
<1>s. \A n \in {0, 1} : Stop(n) => broker'.pc = "stop" /\ broker'.id = broker.id
  BY <1>b DEF Stop, Brokers
<1>2. NoFrameLies'
  <2>1. fromBroker' \in Pipes(Honest(said))
    <3>1. \/ fromBroker' = fromBroker
          \/ broker.pc = "reply" /\ fromBroker' = Put(fromBroker, broker.reply)
      BY DEF Broker, ReadRequest, ReadEnd, ReadReply, GiveUpCall, SendReply, CheckQuiet,
             CloseCallback, Reap, below, others
    <3> QED
      BY <3>1, PutIsPipe DEF ProtocolInv, NoFrameLies
  <2>2. fromCallback' \in Pipes(Honest(said))
    <3>1. \/ fromCallback' = fromCallback \/ fromCallback' = Closed(fromCallback)
          \/ Waiting(fromCallback) /\ fromCallback' = Taken(fromCallback)
      BY DEF Broker, ReadRequest, ReadEnd, ReadReply, GiveUpCall, SendReply, CheckQuiet,
             CloseCallback, Reap, below, others
    <3> QED
      BY <3>1, ClosedIsPipe, TakenIsPipe DEF ProtocolInv, NoFrameLies
  <2>3. broker'.pc = "reply" => broker'.reply \in Honest(said)
    <3>1. CASE ReadReply
      <4>1. Head(fromCallback.frames) \in Honest(said)
        BY <3>1, TakenIsPipe DEF ReadReply, ProtocolInv, NoFrameLies
      <4> QED
        <5>1. \/ Stop(1)
              \/ broker' = [broker EXCEPT !.pc = "reply", !.reply = Head(fromCallback.frames)]
          BY <3>1 DEF ReadReply
        <5> QED
          BY <1>b, <1>s, <4>1, <5>1 DEF Brokers
    <3>2. CASE ~ReadReply
      <4>1. broker'.pc # "reply"
        <5>1. \/ \E n \in {0, 1} : Stop(n)
              \/ \E pc \in {"call", "check", "reap", "gone"} : broker' = [broker EXCEPT !.pc = pc]
              \/ broker' = [broker EXCEPT !.pc = "read", !.id = @ + 1]
          BY <3>2 DEF Broker, ReadRequest, ReadEnd, GiveUpCall, SendReply, CheckQuiet,
                      CloseCallback, Reap
        <5> QED
          BY <1>b, <1>s, <5>1 DEF Brokers
      <4> QED
        BY <4>1
    <3> QED
      BY <3>1, <3>2
  <2> QED
    BY <1>0, <2>1, <2>2, <2>3 DEF ProtocolInv, NoFrameLies
<1>3. Place'
  <2> USE DEF ProtocolInv, Asked
  <2>1. CASE ReadRequest
    <3>0. toBroker.frames = <<parent.id>> /\ Len(said) = parent.id - 1 /\ ~Asked
          /\ broker.id = parent.id /\ toCallback.frames = <<>>
      BY <2>1 DEF ReadRequest, Waiting, Place, Numbers
    <3>1. toBroker'.frames = <<>>
      BY <2>1, <3>0, TakenFrames DEF ReadRequest, Numbers
    <3>2. CASE toBroker.frames = <<broker.id>> /\ callback.pc # "gone"
      <4>1. broker'.pc = "call" /\ broker'.id = broker.id
        <5>1. broker' = [broker EXCEPT !.pc = "call"]
          BY <2>1, <3>2 DEF ReadRequest
        <5> QED
          BY <1>b, <5>1 DEF Brokers
      <4>2. toCallback'.frames = <<broker.id>>
        BY <2>1, <3>0, <3>2, PutFrames DEF ReadRequest, Numbers
      <4> QED
        BY <1>0, <2>1, <3>0, <3>1, <4>1, <4>2 DEF ReadRequest, Place, Numbers
    <3>3. CASE ~(toBroker.frames = <<broker.id>> /\ callback.pc # "gone")
      <4>1. broker'.pc = "stop" /\ broker'.id = broker.id /\ toCallback' = toCallback
        BY <1>s, <2>1, <3>3 DEF ReadRequest
      <4> QED
        BY <1>0, <2>1, <3>0, <3>1, <4>1 DEF ReadRequest, Place, Numbers
    <3> QED
      BY <3>2, <3>3
  <2>2. CASE ReadEnd
    <3>1. broker'.pc = "stop" /\ broker'.id = broker.id
      BY <1>s, <2>2 DEF ReadEnd
    <3> QED
      BY <1>0, <2>2, <3>1 DEF ReadEnd, below, Place, Numbers
  <2>3. CASE ReadReply
    <3>1. CASE IsAnswer(fromCallback, broker.id)
      <4>1. broker'.pc = "reply" /\ broker'.id = broker.id
        <5>1. broker' = [broker EXCEPT !.pc = "reply", !.reply = Head(fromCallback.frames)]
          BY <2>3, <3>1 DEF ReadReply
        <5> QED
          BY <1>b, <5>1 DEF Brokers
      <4>2. Head(fromCallback.frames) \in Honest(said)
        BY <2>3, TakenIsPipe DEF ReadReply, NoFrameLies
      <4>3. Len(said) = broker.id
        BY <3>1, <4>2, HonestTells DEF IsAnswer, Numbers, Place
      <4> QED
        BY <1>0, <2>3, <4>1, <4>3 DEF ReadReply, Place, Numbers
    <3>2. CASE ~IsAnswer(fromCallback, broker.id)
      <4>1. broker'.pc = "stop" /\ broker'.id = broker.id
        BY <1>s, <2>3, <3>2 DEF ReadReply
      <4> QED
        BY <1>0, <2>3, <4>1 DEF ReadReply, Place, Numbers
    <3> QED
      BY <3>1, <3>2
  <2>4. CASE GiveUpCall
    <3>1. broker'.pc = "stop" /\ broker'.id = broker.id
      BY <1>s, <2>4 DEF GiveUpCall
    <3> QED
      BY <1>0, <2>4, <3>1 DEF GiveUpCall, below, Place, Numbers
  <2>5. CASE SendReply
    <3>1. broker'.pc \in {"check", "stop"} /\ broker'.id = broker.id
      <4>1. Stop(1) \/ broker' = [broker EXCEPT !.pc = "check"]
        BY <2>5 DEF SendReply
      <4> QED
        BY <1>b, <1>s, <4>1 DEF Brokers
    <3> QED
      BY <1>0, <2>5, <3>1 DEF SendReply, below, Place, Numbers
  <2>6. CASE CheckQuiet
    <3>1. CASE broker'.pc = "stop" /\ broker'.id = broker.id
      BY <1>0, <2>6, <3>1 DEF CheckQuiet, below, Place, Numbers
    <3>2. CASE broker'.pc = "read" /\ broker'.id = broker.id + 1
      <4>1. toBroker.frames = <<>> \/ broker'.pc = "stop"
        BY <1>s, <2>6 DEF CheckQuiet, Waiting
      <4> QED
        BY <1>0, <2>6, <3>2, <4>1 DEF CheckQuiet, below, Place, Numbers
    <3> QED
      <4>1. Stop(1) \/ broker' = [broker EXCEPT !.pc = "read", !.id = @ + 1]
        BY <2>6 DEF CheckQuiet
      <4> QED
        <5>1. \/ broker'.pc = "stop" /\ broker'.id = broker.id
              \/ broker'.pc = "read" /\ broker'.id = broker.id + 1
          BY <1>b, <1>s, <4>1 DEF Brokers
        <5> QED
          BY <3>1, <3>2, <5>1
  <2>7. CASE CloseCallback
    <3>1. /\ broker'.pc = "reap" /\ broker'.id = broker.id
          /\ toCallback'.frames = toCallback.frames
      BY <2>7, BrokerFields, ClosedFrames DEF CloseCallback, Numbers
    <3> QED
      BY <1>0, <2>7, <3>1 DEF CloseCallback, Place, Numbers
  <2>8. CASE Reap
    <3>1. broker'.pc = "gone" /\ broker'.id = broker.id
      BY <2>8, BrokerFields DEF Reap, Numbers
    <3> QED
      BY <1>0, <2>8, <3>1 DEF Reap, Place, Numbers
  <2> QED
    BY <2>1, <2>2, <2>3, <2>4, <2>5, <2>6, <2>7, <2>8 DEF Broker
<1> QED
  BY <1>0, <1>1, <1>2, <1>3 DEF ProtocolInv

LEMMA CallbackKeepsProtocol ==
    ASSUME Constants, TypeInv, ProtocolInv, Callback
    PROVE  ProtocolInv' /\ said' = said /\ parent' = parent
<1> USE NumbersAre
<1>0. said' = said /\ UNCHANGED above
  BY DEF Callback, Ready, ReadFrame, ReadFrameEnd, Await, GiveUpAwait, EndCallback, above
<1>1. SaidInOrder'
  BY <1>0 DEF ProtocolInv, SaidInOrder
<1>2. NoFrameLies'
  <2>1. fromCallback' \in Pipes(Honest(said))
    <3>1. \/ fromCallback' = fromCallback \/ fromCallback' = Closed(fromCallback)
          \/ /\ strategy.result # None /\ strategy.result.intents # None
             /\ fromCallback' = Put(fromCallback, strategy.result)
      BY DEF Callback, Ready, ReadFrame, ReadFrameEnd, Await, GiveUpAwait, EndCallback
    <3> QED
      BY <3>1, ClosedIsPipe, PutIsPipe DEF ProtocolInv, NoFrameLies
  <2>2. strategy'.result \in {strategy.result, None}
    <3>1. \/ strategy' = strategy
          \/ strategy' = [strategy EXCEPT !.result = None]
          \/ \E request : strategy' = [strategy EXCEPT !.request = request]
      BY DEF Callback, Ready, ReadFrame, ReadFrameEnd, Await, GiveUpAwait, EndCallback
    <3> QED
      BY <3>1 DEF Numbers, Strategies
  <2> QED
    BY <1>0, <2>1, <2>2 DEF ProtocolInv, NoFrameLies, above
<1>3. Place'
  <2> USE DEF ProtocolInv, Asked
  <2>1. CASE ReadFrame
    <3>0. toCallback.frames = <<broker.id>>
      BY <2>1 DEF ReadFrame, Waiting, Place
    <3>1. toCallback'.frames = <<>> /\ Head(toCallback.frames) = broker.id
      BY <2>1, <3>0, TakenFrames DEF ReadFrame, Numbers
    <3>2. strategy'.request = broker.id
      BY <2>1, <3>1 DEF ReadFrame, Numbers, Strategies
    <3> QED
      BY <1>0, <2>1, <3>0, <3>1, <3>2 DEF above, Place, Numbers
  <2>2. CASE ~ReadFrame
    <3>1. toCallback' = toCallback
      BY <2>2 DEF Callback, Ready, ReadFrameEnd, Await, GiveUpAwait, EndCallback
    <3>2. strategy'.request = strategy.request
      BY <2>2 DEF Callback, Ready, ReadFrameEnd, Await, GiveUpAwait, EndCallback, Numbers, Strategies
    <3> QED
      BY <1>0, <3>1, <3>2 DEF above, Place, Numbers
  <2> QED
    BY <2>1, <2>2
<1> QED
  BY <1>0, <1>1, <1>2, <1>3 DEF ProtocolInv, above

\* What the strategy says comes after what it said.
SaysMore ==
    \/ said' = said
    \/ /\ Len(said) = parent.id - 1
       /\ \E intents \in Seq(Intents) :
              said' = Append(said, [id |-> Len(said) + 1, intents |-> intents])

LEMMA SaysMoreKeeps ==
    ASSUME TypeInv, TypeInv', SaysMore
    PROVE  /\ \A k \in DOMAIN said : k \in DOMAIN said' /\ said'[k] = said[k]
           /\ Honest(said) \subseteq Honest(said')
           /\ SaidInOrder => SaidInOrder'
<1>1. \A k \in DOMAIN said : k \in DOMAIN said' /\ said'[k] = said[k]
  <2>1. said' = said \/ \E last : said' = Append(said, last)
    BY DEF SaysMore
  <2> QED
    BY <2>1, SaidMore DEF TypeInv
<1>2. Honest(said) \subseteq Honest(said')
  BY <1>1 DEF Honest
<1>3. SaidInOrder => SaidInOrder'
  <2>1. CASE said' = said
    BY <2>1 DEF SaidInOrder
  <2>2. CASE said' # said
    <3>1. PICK intents : said' = Append(said, [id |-> Len(said) + 1, intents |-> intents])
      BY <2>2 DEF SaysMore
    <3>2. DOMAIN said' = 1..(Len(said) + 1) /\ DOMAIN said = 1..Len(said) /\ Len(said) \in Nat
      BY <3>1, SaidMore DEF TypeInv
    <3>3. said'[Len(said) + 1].id = Len(said) + 1
      BY <3>1, SaidMore DEF TypeInv
    <3> QED
      BY <1>1, <3>2, <3>3 DEF SaidInOrder
  <2> QED
    BY <2>1, <2>2
<1> QED
  BY <1>1, <1>2, <1>3

LEMMA StrategyKeepsProtocol ==
    ASSUME Constants, TypeInv, TypeInv', ProtocolInv, Strategy
    PROVE  ProtocolInv' /\ SaysMore /\ parent' = parent
<1> USE NumbersAre
<1>0. UNCHANGED <<above, toCallback>>
  BY DEF Strategy, Load, AnswerRequest, Raise, WriteStray
<1>1. ASSUME NEW intents \in Answers, AnswerRequest(intents)
      PROVE  /\ strategy.request = Len(said) + 1
             /\ said' = Append(said, [id |-> Len(said) + 1, intents |-> intents])
             /\ Asked /\ Len(said) = parent.id - 1 /\ intents \in Seq(Intents)
  <2>1. Asked /\ strategy.request = broker.id
    BY <1>1 DEF AnswerRequest, ProtocolInv, Place, Asked
  <2>2. strategy.request = Len(said) + 1 /\ Len(said) = parent.id - 1
    BY <2>1 DEF ProtocolInv, Place, Numbers
  <2> QED
    BY <1>1, <2>1, <2>2 DEF AnswerRequest, Constants
<1>2. SaysMore
  BY <1>1 DEF Strategy, Load, Raise, WriteStray, SaysMore
<1>3. SaidInOrder'
  BY <1>2, SaysMoreKeeps DEF ProtocolInv
<1>4. NoFrameLies'
  <2>1. fromBroker' \in Pipes(Honest(said'))
    BY <1>0, <1>2, SaysMoreKeeps, PipesGrow DEF above, ProtocolInv, NoFrameLies
  <2>2. fromCallback' \in Pipes(Honest(said'))
    <3>1. fromCallback' = fromCallback \/ fromCallback' = Put(fromCallback, Stray)
      BY DEF Strategy, Load, AnswerRequest, Raise, WriteStray
    <3>2. Stray \in Honest(said)
      <4>1. <<>> \in Seq(Intents)
        OBVIOUS
      <4> QED
        BY <4>1 DEF Stray, Reply, Answered, Honest
    <3>3. fromCallback' \in Pipes(Honest(said))
      BY <3>1, <3>2, PutIsPipe DEF ProtocolInv, NoFrameLies
    <3> QED
      BY <1>2, <3>3, SaysMoreKeeps, PipesGrow
  <2>3. broker'.pc = "reply" => broker'.reply \in Honest(said')
    BY <1>0, <1>2, SaysMoreKeeps DEF above, ProtocolInv, NoFrameLies
  <2>4. strategy'.result # None /\ strategy'.result.intents # None => strategy'.result \in Honest(said')
    <3>1. ASSUME NEW intents \in Answers, AnswerRequest(intents)
          PROVE  strategy'.result \in Honest(said')
      <4>1. strategy'.result = [id |-> Len(said) + 1, intents |-> intents]
        BY <1>1, <3>1 DEF AnswerRequest, Reply, Numbers, Strategies
      <4>2. /\ Len(said) + 1 \in DOMAIN said'
            /\ said'[Len(said) + 1].intents = intents
        <5>1. PICK last : /\ last = [id |-> Len(said) + 1, intents |-> intents]
                          /\ said' = Append(said, last)
          BY <1>1, <3>1
        <5>2. last.intents = intents
          BY <5>1
        <5>3. said \in Sayings
          BY DEF TypeInv
        <5>4. Len(said) + 1 \in DOMAIN said' /\ said'[Len(said) + 1] = last
          BY <5>1, <5>3, SaidMore
        <5> QED
          BY <5>2, <5>4
      <4>3. Len(said) + 1 \in Requests /\ intents \in Seq(Intents)
        BY <1>1, <3>1 DEF AnswerRequest, Numbers, Strategies
      <4> QED
        BY <4>1, <4>2, <4>3 DEF Honest, Answered
    <3>2. ASSUME Raise \/ \E ok, lingers \in BOOLEAN : Load(ok, lingers)
          PROVE  strategy'.result.intents = None
      <4>0. strategy \in Strategies
        BY DEF Numbers
      <4>1. CASE Raise
        <5>1. PICK result : result = Reply(strategy.request, None)
          OBVIOUS
        <5>2. strategy' = [strategy EXCEPT !.pc = "ended", !.request = None, !.result = result]
          BY <4>1, <5>1 DEF Raise
        <5> QED
          BY <4>0, <5>1, <5>2 DEF Strategies, Reply
      <4>2. ASSUME NEW ok \in BOOLEAN, NEW lingers \in BOOLEAN, Load(ok, lingers)
            PROVE  strategy'.result.intents = None
        <5>1. PICK result : result = Reply(IF ok THEN 0 ELSE 1, None)
          OBVIOUS
        <5>2. PICK pc : strategy' = [strategy EXCEPT !.pc = pc, !.result = result, !.lingers = lingers]
          BY <4>2, <5>1 DEF Load
        <5> QED
          BY <4>0, <5>1, <5>2 DEF Strategies, Reply
      <4> QED
        BY <3>2, <4>1, <4>2
    <3>3. CASE WriteStray
      BY <3>3 DEF WriteStray, ProtocolInv, NoFrameLies
    <3> QED
      BY <3>1, <3>2, <3>3 DEF Strategy
  <2> QED
    BY <2>1, <2>2, <2>3, <2>4 DEF NoFrameLies
<1>5. Place'
  <2> USE DEF ProtocolInv, Asked
  <2>1. ASSUME NEW intents \in Answers, AnswerRequest(intents) PROVE Place'
    <3>1. Len(said') = Len(said) + 1
      <4>1. \E last : said' = Append(said, last)
        BY <1>1, <2>1
      <4>2. said \in Sayings
        BY DEF TypeInv
      <4> QED
        BY <4>1, <4>2, SaidMore
    <3>2. strategy'.request = None
      BY <2>1 DEF AnswerRequest, Numbers, Strategies
    <3>3. toCallback.frames = <<>>
      BY <2>1 DEF AnswerRequest, Place
    <3> QED
      BY <1>0, <1>1, <2>1, <3>1, <3>2, <3>3 DEF above, Place, Numbers
  <2>2. ASSUME ~\E intents \in Answers : AnswerRequest(intents) PROVE Place'
    <3>1. said' = said /\ strategy'.request \in {strategy.request, None}
      BY <2>2 DEF Strategy, Load, Raise, WriteStray, Numbers, Strategies
    <3> QED
      BY <1>0, <3>1 DEF above, Place, Numbers
  <2> QED
    BY <2>1, <2>2
<1> QED
  BY <1>0, <1>2, <1>3, <1>4, <1>5 DEF ProtocolInv, above

LEMMA ProtocolStarts == ASSUME Constants, Init PROVE ProtocolInv
<1>1. Len(said) = 0 /\ DOMAIN said = {}
  BY DEF Init
<1>2. \A S : OpenPipe \in Pipes(S)
  <2>1. \A S : <<>> \in Seq(S)
    OBVIOUS
  <2> QED
    BY <2>1 DEF OpenPipe, Pipes
<1> QED
  BY <1>1, <1>2 DEF Init, ProtocolInv, Place, Asked, NoFrameLies, SaidInOrder, OpenPipe

LEMMA ProtocolStep ==
    ASSUME Constants, TypeInv, TypeInv', ProtocolInv, [Next]_vars
    PROVE  ProtocolInv' /\ SaysMore /\ (Parent => said' = said) /\ (parent' # parent => Parent)
<1>1. CASE UNCHANGED vars
  <2>1. ProtocolInv'
    BY <1>1 DEF vars, ProtocolInv, Place, Asked, NoFrameLies, SaidInOrder
  <2> QED
    BY <1>1, <2>1 DEF vars, SaysMore
<1> QED
  BY <1>1, ParentKeepsProtocol, BrokerKeepsProtocol, CallbackKeepsProtocol,
     StrategyKeepsProtocol DEF Next, SaysMore

-----------------------------------------------------------------------------
(* The tape *)

\* The stamped answers to the first requests.
Parts(sayings, n) == [k \in 1..n |-> Stamped(k, sayings[k].intents)]

TapeInv ==
    /\ parent.tape = FlattenSeq(Parts(said, parent.id - 1))
    /\ \A k \in 1..(parent.id - 1) : \A i \in DOMAIN said[k].intents :
          \E t \in DOMAIN parent.tape : parent.tape[t] = Stamped(k, said[k].intents)[i]
    /\ \A t, u \in DOMAIN parent.tape : t < u => parent.tape[t].seq < parent.tape[u].seq

LEMMA PartsSame ==
    ASSUME NEW s, NEW r, NEW n \in Nat, \A k \in 1..n : r[k] = s[k]
    PROVE  Parts(r, n) = Parts(s, n)
BY DEF Parts

LEMMA NoParts == ASSUME NEW s PROVE FlattenSeq(Parts(s, 0)) = <<>>
<1>1. Parts(s, 0) = <<>>
  BY DEF Parts
<1> QED
  BY <1>1 DEF FlattenSeq

LEMMA PartsGrow ==
    ASSUME NEW s, NEW n \in Nat \ {0}, Stamped(n, s[n].intents) \in Tape
    PROVE  FlattenSeq(Parts(s, n)) = FlattenSeq(Parts(s, n - 1)) \o Stamped(n, s[n].intents)
<1>1. \A m \in Nat : /\ Len(Parts(s, m)) = m
                     /\ \A k \in 1..m : Parts(s, m)[k] = Stamped(k, s[k].intents)
  BY DEF Parts
<1>2. n - 1 \in Nat /\ n \in 1..n
  OBVIOUS
<1>3. CASE n = 1
  <2>1. FlattenSeq(Parts(s, 1)) = Stamped(1, s[1].intents)
    <3>1. 1 \in Nat /\ 1 \in 1..1
      OBVIOUS
    <3>2. Len(Parts(s, 1)) = 1 /\ Parts(s, 1)[1] = Stamped(1, s[1].intents)
      BY <1>1, <3>1
    <3> QED
      BY <3>2, FlattenSeqOfOne
  <2>2. FlattenSeq(Parts(s, 0)) = <<>>
    BY NoParts
  <2>3. <<>> \o Stamped(n, s[n].intents) = Stamped(n, s[n].intents)
    BY DEF Tape
  <2>4. n - 1 = 0
    BY <1>3
  <2>5. FlattenSeq(Parts(s, n - 1)) = <<>>
    BY <2>2, <2>4
  <2>6. FlattenSeq(Parts(s, n)) = Stamped(n, s[n].intents)
    BY <1>3, <2>1
  <2> QED
    BY <2>3, <2>5, <2>6
<1>4. CASE n # 1
  <2>1. n - 1 \in Nat \ {0} /\ (n - 1) + 1 = n
    BY <1>4
  <2>2. /\ Len(Parts(s, n - 1)) = n - 1 /\ Len(Parts(s, n)) = (n - 1) + 1
        /\ \A k \in 1..(n - 1) : Parts(s, n)[k] = Parts(s, n - 1)[k]
    BY <1>1, <2>1
  <2>3. FlattenSeq(Parts(s, n)) = FlattenSeq(Parts(s, n - 1)) \o Parts(s, n)[(n - 1) + 1]
    BY <2>1, <2>2, FlattenSeqOfMore
  <2> QED
    BY <1>1, <1>2, <2>1, <2>3
<1> QED
  BY <1>3, <1>4

\* What one sequence after another is.
IsJoin(c, a, b) ==
    /\ DOMAIN c = 1..(Len(a) + Len(b))
    /\ \A t \in 1..(Len(a) + Len(b)) : c[t] = IF t <= Len(a) THEN a[t] ELSE b[t - Len(a)]

LEMMA Joined ==
    ASSUME NEW S, NEW a \in Seq(S), NEW b \in Seq(S)
    PROVE  IsJoin(a \o b, a, b)
BY DEF IsJoin

\* An answer that could be appended stands at the end of a tape whose intents are in order.
Follows(more, tape, stamped) ==
    /\ \A t \in DOMAIN tape : t \in DOMAIN more /\ more[t] = tape[t]
    /\ \A i \in DOMAIN stamped : \E t \in DOMAIN more : more[t] = stamped[i]
    /\ \A t, u \in DOMAIN more : t < u => more[t].seq < more[u].seq

LEMMA AppendedInOrder ==
    ASSUME Constants, NEW tape \in Tape, NEW id \in 1..Len(Bars), NEW intents \in Seq(Intents),
           Appendable(tape, id, intents)
    PROVE  Follows(tape \o Stamped(id, intents), tape, Stamped(id, intents))
<1> DEFINE T == [seq : Nat, known : Nat, effective : Nat]
           seqs == [i \in DOMAIN tape |-> tape[i].seq] \o [i \in DOMAIN intents |-> intents[i].seq]
           n == Len(tape)
           m == Len(intents)
<1>1. PICK stamped, more : stamped = Stamped(id, intents) /\ more = tape \o stamped
  OBVIOUS
<1>2. /\ stamped \in Tape /\ Len(stamped) = m
      /\ \A i \in DOMAIN intents : i \in DOMAIN stamped /\ stamped[i].seq = intents[i].seq
  BY <1>1, StampedIsTape
<1>3. n \in Nat /\ m \in Nat /\ DOMAIN tape = 1..n /\ DOMAIN intents = 1..m /\ DOMAIN stamped = 1..m
  BY <1>2 DEF Tape
<1>4. /\ DOMAIN more = 1..(n + m)
      /\ \A t \in 1..(n + m) : more[t] = IF t <= n THEN tape[t] ELSE stamped[t - n]
  <2> HIDE DEF T
  <2>1. tape \in Seq(T) /\ stamped \in Seq(T)
    BY <1>2 DEF Tape, T
  <2>2. more = tape \o stamped
    BY <1>1
  <2>3. IsJoin(more, tape, stamped)
    BY <2>1, <2>2, Joined
  <2> QED
    BY <1>2, <2>3 DEF IsJoin
<1>5. /\ DOMAIN seqs = 1..(n + m)
      /\ \A t \in 1..(n + m) : seqs[t] = IF t <= n THEN tape[t].seq ELSE intents[t - n].seq
  <2>1. PICK f : f = [i \in 1..n |-> tape[i].seq]
    OBVIOUS
  <2>2. PICK g : g = [i \in 1..m |-> intents[i].seq]
    OBVIOUS
  <2>3. f \in [1..n -> Nat] /\ g \in [1..m -> Nat]
    <3>1. \A i \in 1..n : tape[i] \in T
      <4> HIDE DEF T
      <4>1. tape \in Seq(T)
        BY DEF Tape, T
      <4> QED
        BY <1>3, <4>1
    <3>2. \A i \in 1..m : intents[i] \in Intents
      BY <1>3
    <3> QED
      BY <2>1, <2>2, <3>1, <3>2 DEF Intents
  <2>4. f \in Seq(Nat) /\ g \in Seq(Nat) /\ Len(f) = n /\ Len(g) = m
    BY <1>3, <2>3, FunctionIsSeq
  <2>5. seqs = f \o g
    BY <1>3, <2>1, <2>2
  <2> HIDE DEF seqs
  <2>6. PICK c : c = f \o g
    OBVIOUS
  <2>7. /\ DOMAIN c = 1..(n + m)
        /\ \A t \in 1..(n + m) : c[t] = IF t <= n THEN f[t] ELSE g[t - n]
    <3>1. PICK S : f \in Seq(S) /\ g \in Seq(S)
      BY <2>4
    <3>2. IsJoin(c, f, g)
      BY <2>6, <3>1, Joined
    <3> QED
      BY <2>4, <3>2 DEF IsJoin
  <2>8. \A t \in 1..(n + m) : (t <= n => f[t] = tape[t].seq)
                             /\ (~(t <= n) => g[t - n] = intents[t - n].seq)
    BY <1>3, <2>1, <2>2
  <2> QED
    BY <2>5, <2>6, <2>7, <2>8
<1>6. \A t \in 1..(n + m) : more[t].seq = seqs[t]
  <2> HIDE DEF seqs
  <2> SUFFICES ASSUME NEW t \in 1..(n + m) PROVE more[t].seq = seqs[t]
    OBVIOUS
  <2>1. ~(t <= n) => t - n \in 1..m
    BY <1>3
  <2> QED
    BY <1>2, <1>3, <1>4, <1>5, <2>1
<1>7. \A t, u \in DOMAIN seqs : t < u => seqs[t] < seqs[u]
  BY DEF Appendable
<1> HIDE DEF seqs
<1>8. \A t, u \in DOMAIN more : t < u => more[t].seq < more[u].seq
  BY <1>4, <1>5, <1>6, <1>7
<1>9. \A t \in DOMAIN tape : t \in DOMAIN more /\ more[t] = tape[t]
  BY <1>3, <1>4
<1>10. \A i \in DOMAIN stamped : \E t \in DOMAIN more : more[t] = stamped[i]
  <2> SUFFICES ASSUME NEW i \in DOMAIN stamped
               PROVE  \E t \in DOMAIN more : more[t] = stamped[i]
    OBVIOUS
  <2>1. n + i \in DOMAIN more /\ more[n + i] = stamped[i]
    BY <1>3, <1>4
  <2> QED
    BY <2>1
<1> QED
  BY <1>1, <1>8, <1>9, <1>10 DEF Follows

LEMMA TapeStarts == ASSUME Init PROVE TapeInv
<1>1. parent.id - 1 = 0 /\ parent.tape = <<>>
  BY DEF Init
<1> QED
  BY <1>1, NoParts DEF TapeInv

\* Whatever is said later, the tape is what was said for it.
LEMMA TapeStays ==
    ASSUME Constants, TypeInv, TypeInv', ProtocolInv, SaysMore, TapeInv,
           parent'.id = parent.id, parent'.tape = parent.tape
    PROVE  TapeInv'
<1>1. PICK n \in Nat : n = parent.id - 1 /\ \A k \in 1..n : k \in DOMAIN said
  <2>1. parent.id - 1 \in Nat /\ parent.id - 1 <= Len(said)
    BY NumbersAre DEF Numbers, ProtocolInv, Place
  <2>2. DOMAIN said = 1..Len(said) /\ Len(said) \in Nat
    BY DEF TypeInv, Sayings
  <2> QED
    BY <2>1, <2>2
<1>2. \A k \in 1..n : said'[k] = said[k]
  BY <1>1, SaysMoreKeeps
<1>3. Parts(said', n) = Parts(said, n)
  BY <1>2, PartsSame
<1>4. parent'.id - 1 = n
  BY <1>1
<1> QED
  BY <1>1, <1>2, <1>3, <1>4 DEF TapeInv

\* An answer is appended once, at its place.
LEMMA TapeGrows ==
    ASSUME Constants, TypeInv, ProtocolInv, TapeInv, Receive,
           parent'.id # parent.id \/ parent'.tape # parent.tape
    PROVE  TapeInv'
<1> DEFINE id == parent.id
           intents == Head(fromBroker.frames).intents
<1>1. parent \in Parents /\ id \in Nat \ {0} /\ id \in Requests /\ parent.tape \in Tape
  BY NumbersAre DEF Numbers, Parents
<1>2. /\ IsAnswer(fromBroker, id) /\ ~IsLast(id) /\ Appendable(parent.tape, id, intents)
      /\ parent' = [parent EXCEPT !.pc = "send", !.id = id + 1,
                                  !.tape = parent.tape \o Stamped(id, intents)]
  <2>1. CASE parent' = [parent EXCEPT !.pc = "clean"] \/ parent' = [parent EXCEPT !.pc = "close"]
    BY <1>1, <2>1 DEF Parents
  <2> QED
    BY <2>1 DEF Receive, Fail
<1>3. parent'.id = id + 1 /\ parent'.tape = parent.tape \o Stamped(id, intents)
  <2>1. PICK tape : tape = parent.tape \o Stamped(id, intents)
    OBVIOUS
  <2> HIDE DEF id, intents
  <2>2. parent' = [parent EXCEPT !.pc = "send", !.id = id + 1, !.tape = tape]
    BY <1>2, <2>1
  <2> QED
    BY <1>1, <2>1, <2>2 DEF Parents
<1>4. id \in DOMAIN said /\ intents = said[id].intents /\ intents \in Seq(Intents)
  <2>1. Head(fromBroker.frames) \in Honest(said)
    BY TakenIsPipe DEF Receive, ProtocolInv, NoFrameLies
  <2>2. Head(fromBroker.frames).id = id
    BY <1>2 DEF IsAnswer
  <2> QED
    BY <1>1, <2>1, <2>2, HonestTells DEF Honest, Answered
<1>5. id \in 1..Len(Bars)
  BY <1>1, <1>2, RequestsAre
<1>6. said' = said
  BY DEF Receive
<1> HIDE DEF id, intents
<1>7. Stamped(id, intents) \in Tape
  BY <1>4, <1>5, StampedIsTape
<1>8. parent'.tape = FlattenSeq(Parts(said, id))
  <2>1. parent.tape = FlattenSeq(Parts(said, id - 1))
    BY DEF TapeInv, id
  <2>2. Stamped(id, said[id].intents) \in Tape
    BY <1>4, <1>7
  <2> QED
    BY <1>1, <1>3, <1>4, <2>1, <2>2, PartsGrow
<1>9. parent'.id - 1 = id
  BY <1>1, <1>3
<1>10. PICK tape, more : tape = parent.tape /\ more = parent'.tape
  OBVIOUS
<1>11. Follows(more, tape, Stamped(id, intents))
  BY <1>1, <1>2, <1>3, <1>4, <1>5, <1>10, AppendedInOrder
<1>12. \A k \in 1..id : \A i \in DOMAIN said[k].intents :
          \E t \in DOMAIN more : more[t] = Stamped(k, said[k].intents)[i]
  <2> SUFFICES ASSUME NEW k \in 1..id, NEW i \in DOMAIN said[k].intents
               PROVE  \E t \in DOMAIN more : more[t] = Stamped(k, said[k].intents)[i]
    OBVIOUS
  <2>1. CASE k = id
    <3>1. i \in DOMAIN Stamped(id, intents)
      BY <1>4, <1>5, <2>1, StampedIsTape
    <3> QED
      BY <1>4, <1>11, <2>1, <3>1 DEF Follows
  <2>2. CASE k # id
    <3>1. k \in 1..(id - 1)
      BY <1>1, <2>2
    <3>2. \E t \in DOMAIN tape : tape[t] = Stamped(k, said[k].intents)[i]
      BY <1>10, <3>1 DEF TapeInv, id
    <3> QED
      BY <1>11, <3>2 DEF Follows
  <2> QED
    BY <2>1, <2>2
<1> QED
  BY <1>6, <1>8, <1>9, <1>10, <1>11, <1>12 DEF TapeInv, Follows

LEMMA TapeStep ==
    ASSUME Constants, TypeInv, TypeInv', ProtocolInv, TapeInv, [Next]_vars
    PROVE  TapeInv'
<1>1. SaysMore /\ (parent' # parent => Parent)
  BY ProtocolStep
<1>2. parent \in Parents
  BY DEF TypeInv
<1>3. CASE parent'.id = parent.id /\ parent'.tape = parent.tape
  BY <1>1, <1>3, TapeStays
<1>4. CASE parent'.id # parent.id \/ parent'.tape # parent.tape
  <2>1. Parent
    BY <1>1, <1>4
  <2>2. CASE Receive
    BY <1>4, <2>2, TapeGrows
  <2>3. CASE Join
    BY <1>2, <1>4, <2>3 DEF Join, Parents
  <2>4. CASE ~Receive /\ ~Join
    <3>1. \E pc : parent' = [parent EXCEPT !.pc = pc]
      BY <2>1, <2>4 DEF Parent, Send, GiveUpWaiting, CloseInput, CleanUp, Fail
    <3> QED
      BY <1>2, <1>4, <3>1 DEF Parents
  <2> QED
    BY <2>2, <2>3, <2>4
<1> QED
  BY <1>3, <1>4

HostInv == TypeInv /\ ProtocolInv /\ TapeInv

LEMMA HostHolds == ASSUME Constants PROVE Spec => []HostInv
<1>1. Init => HostInv
  BY InitTyped, ProtocolStarts, TapeStarts DEF HostInv
<1>2. HostInv /\ [Next]_vars => HostInv'
  <2> SUFFICES ASSUME HostInv, [Next]_vars PROVE HostInv'
    OBVIOUS
  <2>1. TypeInv'
    BY TypedStep DEF HostInv
  <2> QED
    BY <2>1, ProtocolStep, TapeStep DEF HostInv
<1> QED
  BY <1>1, <1>2, PTL DEF Spec

\* The tape is what the strategy answered, in the order in which it was asked, whatever is
\* late, lost or stray; and it is handed over only when every bar has been answered.
THEOREM AnswersAreTheTape == ASSUME Constants PROVE Spec => []TapeIsAnswers
<1>1. HostInv => TapeIsAnswers
  <2> SUFFICES ASSUME HostInv PROVE TapeIsAnswers
    OBVIOUS
  <2>1. Len(said) <= parent.id /\ parent.id <= Len(said) + 1
    BY NumbersAre DEF HostInv, ProtocolInv, Place, Numbers
  <2>2. parent.tape = FlattenSeq([k \in 1..(parent.id - 1) |-> Stamped(k, said[k].intents)])
    BY DEF HostInv, TapeInv, Parts
  <2>3. parent.result # None => parent.result = parent.tape /\ Len(said) = Len(Bars) + 1
    BY DEF HostInv, ProtocolInv, Place, IsLast
  <2> QED
    BY <2>1, <2>2, <2>3 DEF TapeIsAnswers, HostInv, ProtocolInv, SaidInOrder
<1> QED
  BY <1>1, HostHolds, PTL

\* A tape the engine accepts was decided without the future.
THEOREM NothingIsForeseen == ASSUME Constants PROVE Spec => []NoLookAhead
<1>1. HostInv => NoLookAhead
  <2> SUFFICES ASSUME HostInv, parent.result # None, EngineAccepts(parent.result),
                      NEW k \in DOMAIN said, k <= Len(Bars), NEW i \in DOMAIN said[k].intents,
                      NEW t \in ToSet(parent.result), t.seq = said[k].intents[i].seq,
                      NEW b \in 1..(k - 1)
               PROVE  Bars[b] < t.effective
    BY DEF NoLookAhead
  <2>1. PICK tape : tape = parent.tape
    OBVIOUS
  <2>2. parent.result = tape /\ parent.id = Len(Bars) + 1 /\ tape \in Tape
    BY <2>1 DEF HostInv, ProtocolInv, Place, IsLast, TypeInv, Parents
  <2>3. Len(Bars) \in Nat /\ Bars \in Seq(Nat) /\ k \in Nat /\ k \in 1..Len(Bars)
    BY DEF Constants, HostInv, TypeInv, Sayings
  <2>4. /\ said[k].intents \in Seq(Intents)
        /\ Stamped(k, said[k].intents)[i].seq = said[k].intents[i].seq
        /\ Stamped(k, said[k].intents)[i].known = KnownAt(k)
    <3>1. said[k].intents \in Seq(Intents)
      <4>1. said \in Sayings
        BY DEF HostInv, TypeInv
      <4>2. said[k] \in [id : Requests, intents : Seq(Intents)]
        <5>1. \A S : said \in Seq(S) => \A j \in DOMAIN said : said[j] \in S
          OBVIOUS
        <5> QED
          BY <4>1, <5>1 DEF Sayings
      <4> QED
        BY <4>2
    <3> QED
      BY <2>3, <3>1, StampedIsTape
  <2>5. PICK u \in DOMAIN tape : tape[u] = Stamped(k, said[k].intents)[i]
    <3>1. k \in 1..(parent.id - 1)
      BY <2>2, <2>3
    <3> QED
      BY <2>1, <3>1 DEF HostInv, TapeInv
  <2>6. PICK v \in DOMAIN tape : t = tape[v]
    BY <2>2 DEF ToSet
  <2>e. /\ tape[u] \in [seq : Nat, known : Nat, effective : Nat]
        /\ tape[v] \in [seq : Nat, known : Nat, effective : Nat]
        /\ DOMAIN tape \subseteq Nat
    <3>1. \A S : tape \in Seq(S) => (\A j \in DOMAIN tape : tape[j] \in S) /\ DOMAIN tape \subseteq Nat
      OBVIOUS
    <3> QED
      BY <2>2, <3>1 DEF Tape
  <2>7. u = v
    <3>1. u \in Nat /\ v \in Nat /\ tape[u].seq = tape[v].seq /\ tape[u].seq \in Nat
      BY <2>e, <2>4, <2>5, <2>6
    <3>2. u < v => tape[u].seq < tape[v].seq
      BY <2>1 DEF HostInv, TapeInv
    <3>3. v < u => tape[v].seq < tape[u].seq
      BY <2>1 DEF HostInv, TapeInv
    <3> QED
      BY <3>1, <3>2, <3>3
  <2>8. KnownAt(k) < t.effective /\ t.effective \in Nat
    BY <2>e, <2>2, <2>4, <2>5, <2>6, <2>7 DEF EngineAccepts
  <2>9. KnownAt(k) = Bars[k - 1] /\ Bars[b] <= Bars[k - 1]
    <3>1. k # 1 /\ k - 1 \in 1..Len(Bars) /\ b \in 1..Len(Bars) /\ b <= k - 1
      BY <2>3
    <3>2. InOrder
      BY DEF EngineAccepts
    <3> QED
      BY <2>3, <3>1, <3>2 DEF InOrder, KnownAt
  <2>10. Bars[b] \in Nat /\ Bars[k - 1] \in Nat
    BY <2>3
  <2> QED
    BY <2>8, <2>9, <2>10
<1> QED
  BY <1>1, HostHolds, PTL
=============================================================================
