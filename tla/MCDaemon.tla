------------------------------- MODULE MCDaemon -------------------------------
(***************************************************************************)
(* Daemon for TLC: a pipeline of one stage before the host is touched and  *)
(* one after, and a spec per attempt.                                      *)
(***************************************************************************)
EXTENDS Daemon, TLC

TwoStages == <<"build", "apply">>

Attempts == 1..MaxDeploys

\* A checkout for each app.
OwnCheckouts == [a \in Apps |-> a]

Symmetry == Permutations(Threads)
===============================================================================
