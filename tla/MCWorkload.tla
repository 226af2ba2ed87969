------------------------------ MODULE MCWorkload ------------------------------
(***************************************************************************)
(* Workload for TLC: an app whose tasks come and go from version to        *)
(* version, and a neighbour with a task of the same name.                  *)
(***************************************************************************)
EXTENDS Workload

CONSTANTS x1, x2, daily, hourly, never

Web == <<"web">>
Api == <<"api">>
Job1 == <<"job">>
Tick == <<"tick">>

WebAndApi == {Web, Api}
TwoTasks == {Job1, Tick}

Plain == [text |-> x1, tasks |-> [t \in {} |-> None]]
OneTask == [text |-> x2, tasks |-> [t \in {Job1} |-> daily]]
BothTasks == [text |-> x1, tasks |-> [t \in TwoTasks |-> IF t = Job1 THEN hourly ELSE daily]]
Misspelt == [text |-> x2, tasks |-> [t \in TwoTasks |-> IF t = Job1 THEN daily ELSE never]]

TheSpecs ==
    [a \in WebAndApi |-> IF a = Web THEN {Plain, OneTask, BothTasks, Misspelt}
                         ELSE {OneTask}]

\* At most one file the operator wrote.
ByHand == {s \in Stems : unit[s] = Foreign \/ timer[s] = Foreign}

OneByHand ==
    /\ Init
    /\ \A s1, s2 \in ByHand : s1 = s2
    /\ \A s \in ByHand : unit[s] = None \/ timer[s] = None
================================================================================
