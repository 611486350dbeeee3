---------------------------- MODULE MCStrategyHost ----------------------------
(* Instances of StrategyHost for TLC. *)
EXTENDS StrategyHost, TLC

Intent(seq, at) == [seq |-> seq, at |-> at]

\* Two sessions of two symbols.
PortfolioBars == <<1, 1, 2, 2>>

\* No intent, one for the next open, and ones that name a session.
FewAnswers == {<<>>, <<Intent(1, None)>>, <<Intent(2, 2)>>, <<Intent(1, None), Intent(2, None)>>}
=============================================================================
