---------------------------- MODULE MCDeployEngine ----------------------------
(***************************************************************************)
(* DeployEngine for TLC: the spec sets of the runs, and what the comments  *)
(* of the code say of it where the code does otherwise.                    *)
(***************************************************************************)
EXTENDS DeployEngine

CONSTANTS v1, v2, r1, r2

\* Two versions of an app, each on its own domain.
TwoSpecs == {[version |-> v1, route |-> r1], [version |-> v2, route |-> r2]}

\* The second version gives its domain up.
RouteCleared == {[version |-> v1, route |-> r1], [version |-> v2, route |-> None]}

------------------------------------------------------------------------------
\* The last attempt of a quiet app reached its health check and ended so.
LastOf(a, status) ==
    /\ Quiet(a) /\ ~Wrecked(a) /\ deploys # <<>>
    /\ deploys[Len(deploys)] = [app |-> a, stage |-> "healthcheck", status |-> status]

------------------------------------------------------------------------------
\* A cleared route must not leave the app "serving on a domain the operator had
\* just removed" (store/mod.rs:446-449, state.rs:77-81).
ClearedRouteUnserved ==
    \A a \in Apps : LastOf(a, "done") => host[a].served = specs[a].route
==============================================================================
