------------------------------ MODULE HealthPoll ------------------------------
(***************************************************************************)
(* The health-check stage against the clock: poll_health of                *)
(* crates/core/src/deploy/health.rs inside the hard cap that run_stages    *)
(* (run.rs) puts around it.                                                *)
(*                                                                         *)
(* Time is in seconds from the start of the stage.  A timer that is due    *)
(* stops the clock until it has fired.  A health command answers, hangs    *)
(* until its timeout cancels it, or is wedged: not even cancelled.         *)
(***************************************************************************)
EXTENDS Naturals

CONSTANTS
    Budget,       \* HEALTH_BUDGET
    Interval,     \* HEALTH_INTERVAL
    Timeout,      \* HEALTH_ATTEMPT_TIMEOUT
    Cap           \* HEALTHCHECK_STAGE_CAP

ASSUME HealthAssumption ==
    /\ Budget \in Nat \ {0} /\ Interval \in Nat \ {0} /\ Timeout \in Nat \ {0}
    /\ Cap \in Nat /\ Budget + Timeout < Cap
    /\ Interval <= Timeout

VARIABLES
    clock,        \* seconds since the stage began
    poll,         \* "attempt", "sleep", or how the stage ended
    begunAt,      \* when the current attempt or sleep began
    attempted,    \* attempts begun
    heard,        \* when an attempt last came to an end
    healthy,      \* would the health command succeed
    wedged        \* the current attempt cannot be cancelled

pollVars == <<clock, poll, begunAt, attempted, heard, healthy, wedged>>

PollInit ==
    /\ clock = 0 /\ begunAt = 0 /\ attempted = 1 /\ heard = 0
    /\ poll = "attempt"
    /\ healthy \in BOOLEAN
    /\ wedged = FALSE

Polling == poll \in {"attempt", "sleep"}

Sleep == poll' = "sleep" /\ begunAt' = clock /\ UNCHANGED attempted

\* A failed attempt: give up when the budget is gone, else sleep.
Retry ==
    /\ heard' = clock
    /\ IF clock >= Budget THEN poll' = "failed" /\ UNCHANGED <<begunAt, attempted>> ELSE Sleep

Answer ==
    /\ poll = "attempt" /\ ~wedged
    /\ IF healthy THEN poll' = "passed" /\ heard' = clock /\ UNCHANGED <<begunAt, attempted>>
       ELSE Retry
    /\ UNCHANGED <<clock, healthy, wedged>>

\* podman itself cannot be run: an error, not a failed attempt.
CannotRun ==
    /\ poll = "attempt" /\ ~wedged
    /\ poll' = "error"
    /\ heard' = clock
    /\ UNCHANGED <<clock, begunAt, attempted, healthy, wedged>>

\* Mutant: an attempt has no timeout of its own.
AttemptNeverDue == FALSE

AttemptDue == poll = "attempt" /\ ~wedged /\ clock = begunAt + Timeout

AttemptTimesOut ==
    /\ AttemptDue
    /\ Retry
    /\ UNCHANGED <<clock, healthy, wedged>>

WakeDue == poll = "sleep" /\ clock = begunAt + Interval

Wake ==
    /\ WakeDue
    /\ IF clock >= Budget THEN poll' = "failed" /\ UNCHANGED <<begunAt, attempted>>
       ELSE poll' = "attempt" /\ begunAt' = clock /\ attempted' = attempted + 1
    /\ UNCHANGED <<clock, heard, healthy, wedged>>

CapDue == Polling /\ clock = Cap

\* Mutant: the cap, too, waits for a command beyond cancelling.
StageCapUnlessWedged ==
    /\ CapDue /\ ~wedged
    /\ poll' = "capped"
    /\ UNCHANGED <<clock, begunAt, attempted, heard, healthy, wedged>>

StageCap ==
    /\ CapDue
    /\ poll' = "capped"
    /\ UNCHANGED <<clock, begunAt, attempted, heard, healthy, wedged>>

Tick ==
    /\ Polling
    /\ ~AttemptDue /\ ~WakeDue /\ ~CapDue
    /\ clock' = clock + 1
    /\ UNCHANGED <<poll, begunAt, attempted, heard, healthy, wedged>>

\* The container's condition, and a command beyond cancelling.
HealthChanges ==
    /\ Polling
    /\ healthy' = ~healthy
    /\ UNCHANGED <<clock, poll, begunAt, attempted, heard, wedged>>

Wedge ==
    /\ poll = "attempt" /\ ~wedged
    /\ wedged' = TRUE
    /\ UNCHANGED <<clock, poll, begunAt, attempted, heard, healthy>>

Stage == Answer \/ CannotRun \/ AttemptTimesOut \/ Wake \/ StageCap \/ Tick

PollNext == Stage \/ HealthChanges \/ Wedge

PollSpec == PollInit /\ [][PollNext]_pollVars

\* Time passes and due timers fire.
PollFair ==
    /\ WF_pollVars(Tick) /\ WF_pollVars(AttemptTimesOut)
    /\ WF_pollVars(Wake) /\ WF_pollVars(StageCap)

------------------------------------------------------------------------------
\* Every variable keeps its type.
PollTypeOK ==
    /\ clock \in 0..Cap /\ begunAt \in 0..clock /\ heard \in 0..clock
    /\ poll \in {"attempt", "sleep", "passed", "failed", "error", "capped"}
    /\ attempted \in 1..(Cap + 1)
    /\ healthy \in BOOLEAN /\ wedged \in BOOLEAN

\* The hard cap is for wedged commands only: polling by itself is over by the
\* time the budget and one more attempt are (run.rs:28-31).
CapOnlyIfWedged ==
    /\ poll = "capped" => wedged
    /\ ~wedged => clock <= Budget + Timeout

\* What makes CapOnlyIfWedged inductive: where in its attempt or sleep the
\* stage is, and that either was begun within the budget.
OnTime ==
    /\ clock \in Nat /\ begunAt \in Nat /\ begunAt <= clock
    /\ wedged \in BOOLEAN
    /\ wedged => poll \in {"attempt", "capped"}
    /\ Polling => begunAt < Budget
    /\ poll = "attempt" /\ ~wedged => clock <= begunAt + Timeout
    /\ poll = "sleep" => clock <= begunAt + Interval
    /\ CapOnlyIfWedged

\* Hanging attempts cost their timeout, not the budget (health.rs:6-9): a stage
\* that gives up has made as many as fit, has not hurried either, and its last
\* answer is no older than one sleep.
AttemptsFit ==
    poll = "failed" =>
        /\ attempted * (Timeout + Interval) >= Budget
        /\ (attempted - 1) * Interval < Budget
        /\ clock <= heard + Interval

\* What makes AttemptsFit inductive, next to OnTime: when the current attempt or
\* sleep may have begun, given how many attempts there were.
OnPace ==
    /\ attempted \in Nat \ {0} /\ heard \in Nat /\ heard <= clock
    /\ Polling => (attempted - 1) * Interval <= begunAt
    /\ poll = "attempt" => begunAt <= (attempted - 1) * (Timeout + Interval)
    /\ poll = "sleep" => /\ heard = begunAt
                         /\ begunAt + Interval <= attempted * (Timeout + Interval)
    /\ AttemptsFit

\* The stage ends.
StageEnds == <>~Polling
==============================================================================
