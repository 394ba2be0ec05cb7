----------------------------- MODULE RetryPolicy -----------------------------
(***************************************************************************)
(* The retry policy spec section 7 asks of every call to the chain, with   *)
(* the faucet row of section 4.2: a call is attempted at most budget       *)
(* times; a transient error (timeout, refused connection, 502/503) is      *)
(* retried while attempts are left, a terminal error fails the call at     *)
(* once, and a failure is always surfaced as such.                         *)
(***************************************************************************)
EXTENDS Naturals

CONSTANT MaxBudget  \* the largest attempt budget considered

VARIABLES
    budget,   \* the attempts allowed
    tries,    \* the attempts made
    outcome,  \* "pending", "ok" or "failed"
    lastErr   \* the class of the last error: "none", "transient", "terminal"

policyVars == <<budget, tries, outcome, lastErr>>

\* A budget of zero fails without an attempt.
Init ==
    /\ budget \in 0..MaxBudget
    /\ tries = 0
    /\ outcome = IF budget = 0 THEN "failed" ELSE "pending"
    /\ lastErr = "none"

\* One attempt: it succeeds, or fails transiently (retried only while the
\* budget lasts), or fails terminally.
Attempt ==
    /\ outcome = "pending"
    /\ tries < budget
    /\ tries' = tries + 1
    /\ \/ outcome' = "ok" /\ UNCHANGED lastErr
       \/ /\ lastErr' = "transient"
          /\ outcome' = IF tries' < budget THEN "pending" ELSE "failed"
       \/ lastErr' = "terminal" /\ outcome' = "failed"
    /\ UNCHANGED budget

\* The steps the policy allows, without the promise to finish.
SafetySpec == Init /\ [][Attempt]_policyVars

\* A pending call is attempted again: the policy ends in "ok" or "failed".
Spec == SafetySpec /\ WF_policyVars(Attempt)
=============================================================================
