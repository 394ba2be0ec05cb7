------------------------------- MODULE Faucet -------------------------------
(***************************************************************************)
(* activity2_faucet: call the node's tempo_fundAddress method up to        *)
(* max_retries times.  An error whose text names a timeout, a refused or   *)
(* dropped connection or a 502/503 is retried after a growing delay        *)
(* unless it was the last attempt; any other error returns None at once.   *)
(***************************************************************************)
EXTENDS Naturals

CONSTANT MaxRetries   \* the largest max_retries argument considered

ASSUME FaucetAssumption == MaxRetries \in Nat

Errors == {"retryable", "terminal"}

VARIABLES
    retries,  \* max_retries, 3 when the caller leaves the default
    attempt,  \* the loop variable of range(max_retries)
    calls,    \* the request_blocking calls made
    lastErr,  \* the class of the error the last call raised, or "none"
    waited,   \* the seconds slept between attempts
    phase,    \* "call" or "done"
    result    \* 'faucet', or "none" for None

vars == <<retries, attempt, calls, lastErr, waited, phase, result>>

\* With max_retries = 0 the loop body never runs and None is returned.
Init ==
    /\ retries \in 0..MaxRetries
    /\ attempt = 0
    /\ calls = 0
    /\ lastErr = "none"
    /\ waited = 0
    /\ phase = IF retries = 0 THEN "done" ELSE "call"
    /\ result = IF retries = 0 THEN "none" ELSE "pending"

\* Mutant: the last-attempt test compares with max_retries.
RetriesOffByOne(e) == attempt < retries /\ e = "retryable"

\* Mutant: every error is treated as retryable.
RetriesAnyError(e) == attempt < retries - 1

\* attempt < max_retries - 1 and is_retryable: sleep and continue with the
\* next attempt.
Retries(e) == attempt < retries - 1 /\ e = "retryable"

\* Mutant: the delay counted from attempt instead of attempt + 1.
BackoffFromZero(a) == a * 5

\* wait_time = (attempt + 1) * 5: 5 s, 10 s, 15 s.
Backoff(a) == (a + 1) * 5

\* One iteration of the loop: the call returns (a 2 s sleep and 'faucet'),
\* or raises an error of either class.
Call ==
    /\ phase = "call"
    /\ calls' = calls + 1
    /\ \/ /\ result' = "faucet"
          /\ phase' = "done"
          /\ UNCHANGED <<attempt, lastErr, waited>>
       \/ \E e \in Errors :
            /\ lastErr' = e
            /\ IF Retries(e)
                 THEN /\ waited' = waited + Backoff(attempt)
                      /\ attempt' = attempt + 1
                      /\ UNCHANGED <<phase, result>>
                 ELSE /\ phase' = "done"
                      /\ result' = "none"
                      /\ UNCHANGED <<attempt, waited>>
    /\ UNCHANGED retries

Next == Call

\* The call is synchronous and every request returns or raises.
Spec == Init /\ [][Next]_vars /\ WF_vars(Next)

-----------------------------------------------------------------------------
(* Properties.                                                             *)

TypeOK ==
    /\ retries \in 0..MaxRetries
    /\ attempt \in 0..MaxRetries
    /\ calls \in 0..retries
    /\ lastErr \in Errors \cup {"none"}
    /\ waited \in Nat
    /\ phase \in {"call", "done"}
    /\ result \in {"pending", "faucet", "none"}

\* Spec 4.2 (faucet row): one call per attempt, and the backoff slept
\* before the k-th retry is 5k seconds, so 5 + 10 + ... + 5a before
\* attempt a.
BackoffSchedule ==
    /\ calls = IF phase = "call" \/ retries = 0 THEN attempt ELSE attempt + 1
    /\ waited = (5 * attempt * (attempt + 1)) \div 2

\* The claim seen through the retry policy: the loop variable, the sleeps
\* and the phase are hidden; the calls are the attempts.
Policy == INSTANCE RetryPolicy
            WITH MaxBudget <- MaxRetries,
                 budget <- retries,
                 tries <- calls,
                 outcome <- CASE result = "pending" -> "pending"
                              [] result = "faucet"  -> "ok"
                              [] result = "none"    -> "failed",
                 lastErr <- CASE lastErr = "none"      -> "none"
                              [] lastErr = "retryable" -> "transient"
                              [] lastErr = "terminal"  -> "terminal"

\* Spec sections 4.2 and 7: activity2_faucet implements the retry policy.
\* It makes at most max_retries calls, retries a retryable error exactly
\* while attempts are left, returns None at once on any other error, and
\* always ends with 'faucet' or None.
ImplementsRetryPolicy == Policy!Spec
=============================================================================
