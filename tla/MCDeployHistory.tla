--------------------------- MODULE MCDeployHistory ---------------------------
(***************************************************************************)
(* MCDeployEngine with a history variable, for the one claim that compares *)
(* an attempt's ending with what the app's record was at its start.        *)
(***************************************************************************)
EXTENDS MCDeployEngine

\* History: the last good specs at the moment each attempt was created.
VARIABLE before

HistoryInit == Init /\ before = <<>>

HistoryNext ==
    /\ Next
    /\ before' = IF Len(deploys') > Len(deploys) THEN Append(before, specs)
                 ELSE before

HistorySpec == HistoryInit /\ [][HistoryNext]_<<vars, before>>

------------------------------------------------------------------------------
\* "A stage failed and compensation restored the previous version"
\* (deploy/mod.rs:93): the app's last good spec is what it was.
RollbackKeepsSpec ==
    \A a \in Apps : LastOf(a, "rolled_back") => specs[a] = before[Len(before)][a]
==============================================================================
