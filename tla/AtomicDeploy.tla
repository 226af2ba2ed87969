----------------------------- MODULE AtomicDeploy -----------------------------
(***************************************************************************)
(* What a deploy promises, after the outcomes documented in                *)
(* crates/core/src/deploy/mod.rs: an attempt is accepted or refused, and   *)
(* ends exactly once.                                                      *)
(*   done         the app now serves the attempt's spec                    *)
(*   rolled_back  the app serves what it served before                     *)
(*   failed       what the app serves is unknown from here on              *)
(* Seen from outside, the app changes in one step, at the moment the       *)
(* outcome is recorded.                                                    *)
(***************************************************************************)
EXTENDS Naturals, Sequences

CONSTANTS Apps, Specs, NoSpec, Unknown

VARIABLES
    outcome,      \* the status of each attempt, in id order
    serving       \* what each app serves

vars == <<outcome, serving>>

Init == outcome = <<>> /\ serving = [a \in Apps |-> NoSpec]

Accept ==
    /\ outcome' = Append(outcome, "in_progress")
    /\ UNCHANGED serving

Settle(d, status) ==
    /\ outcome[d] = "in_progress"
    /\ outcome' = [outcome EXCEPT ![d] = status]

Succeed(d, a, s) ==
    /\ Settle(d, "done")
    /\ serving' = [serving EXCEPT ![a] = IF @ = Unknown THEN Unknown ELSE s]

RollBack(d) == Settle(d, "rolled_back") /\ UNCHANGED serving

\* A refused attempt fails without having touched the app.
Refuse(d) == Settle(d, "failed") /\ UNCHANGED serving

Fail(d, a) ==
    /\ Settle(d, "failed")
    /\ serving' = [serving EXCEPT ![a] = Unknown]

Next ==
    \/ Accept
    \/ \E d \in DOMAIN outcome :
         \/ RollBack(d)
         \/ Refuse(d)
         \/ \E a \in Apps : Fail(d, a) \/ \E s \in Specs : Succeed(d, a, s)

Spec == Init /\ [][Next]_vars
==============================================================================
