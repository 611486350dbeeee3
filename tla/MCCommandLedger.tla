--------------------------- MODULE MCCommandLedger ---------------------------
(* CommandLedger on small instances and, beside it, the strategy host that a forward   *)
(* test is replayed with: the two share no state, and a behaviour is one of the one or *)
(* of the other.                                                                       *)
EXTENDS CommandLedger, TLC

CONSTANTS Bars, Answers, MaxStrays

VARIABLES
    part,
    parent, toBroker, fromBroker, broker, toCallback, fromCallback, callback, strategy,
    said, trouble, strays

Host == INSTANCE StrategyHost

ASSUME HostConstants == Host!Constants

hostVars == <<parent, toBroker, fromBroker, broker, toCallback, fromCallback, callback,
              strategy, said, trouble, strays>>

CONSTANTS i1, i2, i3, x1, x2, a1, a2, u1, canvas, code, raw, adjusted

Command(id, kind, subject, artifact, upload, basis, workbench) ==
    [id |-> id, kind |-> kind, subject |-> subject, artifact |-> artifact,
     upload |-> upload, basis |-> basis, workbench |-> workbench]

\* One upload under two ids, in two snapshots and under two price bases; one forward
\* test and one context item wanted by two commands; an id used by two envelopes.
SmallEnvelopes ==
    {Command(i, "capture", x1, a, u1, None, canvas) : i \in {i1, i2}, a \in {a1, a2}}
    \cup {Command(i, "snapshot", x, a1, u1, b, canvas) :
             i \in {i1, i2}, x \in {x1, x2}, b \in {raw, adjusted}}
    \cup {Command(i, "forward", x1, None, None, None, canvas) : i \in {i1, i2}}
    \cup {Command(i2, "message", x1, None, u1, None, canvas)}
    \cup {Command(i3, "bind", None, None, None, None, code)}

Intent(seq, at) == [seq |-> seq, at |-> at]

\* Two sessions of two symbols.
PortfolioBars == <<1, 1, 2, 2>>

\* No intent, one for the next open, and ones that name a session.
FewAnswers == {<<>>, <<Intent(1, None)>>, <<Intent(2, 2)>>, <<Intent(1, None), Intent(2, None)>>}

LedgerAndHostInit == part \in {"ledger", "host"} /\ Init /\ Host!Init

LedgerAndHostNext ==
    /\ UNCHANGED part
    /\ \/ part = "ledger" /\ Next /\ UNCHANGED hostVars
       \/ part = "host" /\ Host!Next /\ UNCHANGED vars

LedgerAndHostSpec ==
    /\ LedgerAndHostInit /\ [][LedgerAndHostNext]_<<part, vars, hostVars>>
    /\ WF_hostVars(part = "host" /\ Host!Parent)
    /\ WF_hostVars(part = "host" /\ Host!Broker)
    /\ WF_hostVars(part = "host" /\ Host!Callback)

\* The typing of both.
LedgerAndHostTypeOK == TypeOK /\ Host!TypeOK

\* The properties of StrategyHost.
TapeIsAnswers == Host!TapeIsAnswers
NoLookAhead == Host!NoLookAhead
HostEnds == part = "host" => Host!HostEnds
=============================================================================
