------------------------------ MODULE CommandLog ------------------------------
(***************************************************************************)
(* What a client of the service may rely on: an append-only log in which   *)
(* each command_id stands at most once, and answers that say no more than  *)
(* the log does (docs/04_COMMAND_EVENT_CONTRACTS.md:24-37).                *)
(***************************************************************************)
EXTENDS Naturals, Sequences

VARIABLES
    log,      \* the commands that took effect, in stream_seq order
    answers   \* every answer the service has given

Init == log = <<>> /\ answers = {}

At(c) == {i \in DOMAIN log : log[i].id = c.id}

\* A command takes effect: it is the first one under its id.
Execute ==
    /\ UNCHANGED answers
    /\ Len(log') = Len(log) + 1
    /\ \A i \in DOMAIN log : log'[i] = log[i]
    /\ At(log'[Len(log')]) = {}

\* A receipt names the place of exactly this command, a conflict is the answer to
\* another command under an id in use, and a refusal says nothing of the log.
True(a) ==
    CASE a.disposition \in {"accepted", "replayed"} ->
            a.seq \in DOMAIN log /\ log[a.seq] = a.command
      [] a.disposition = "command_id_conflict" ->
            \E i \in At(a.command) : log[i] # a.command
      [] a.disposition = "refused" -> TRUE

Answer ==
    /\ UNCHANGED log
    /\ answers \subseteq answers'
    /\ \A a \in answers' \ answers : True(a)

Next == Execute \/ Answer

Spec == Init /\ [][Next]_<<log, answers>>
=============================================================================
