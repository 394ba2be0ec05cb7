---------------------------- MODULE Faucet_proofs ----------------------------
(***************************************************************************)
(* Proofs about Faucet for every max_retries bound.                        *)
(***************************************************************************)
EXTENDS Faucet, TLAPS

\* How the loop's counters stand in each phase: while calling, attempt is
\* the next attempt and as many calls were made; once done, the last call
\* was attempt's own (none when max_retries is 0).  Twice the time slept
\* is 5 a (a + 1): the backoff sum without the division.
Inv ==
    /\ TypeOK
    /\ phase = "call" => /\ attempt < retries /\ calls = attempt
                         /\ result = "pending"
    /\ phase = "done" => /\ result \in {"faucet", "none"}
                         /\ retries = 0 => calls = 0 /\ attempt = 0
                         /\ retries # 0 => calls = attempt + 1
    /\ 2 * waited = 5 * attempt * (attempt + 1)

-----------------------------------------------------------------------------
USE FaucetAssumption

LEMMA InitInv == Init => Inv
BY DEF Init, Inv, TypeOK, Errors

\* One call keeps the invariant: the success branch, a retried error and a
\* final error.
LEMMA CallInv == Inv /\ Call => Inv'
<1> SUFFICES ASSUME Inv, Call PROVE Inv'
  OBVIOUS
<1> USE DEF Inv, TypeOK, Errors
<1>1. CASE result' = "faucet" /\ phase' = "done" /\ UNCHANGED <<attempt, lastErr, waited>>
  BY <1>1 DEF Call
<1>2. ASSUME NEW e \in Errors, lastErr' = e, Retries(e),
             waited' = waited + Backoff(attempt), attempt' = attempt + 1,
             UNCHANGED <<phase, result>>
      PROVE  Inv'
  <2>1. attempt + 1 < retries
    BY <1>2 DEF Retries
  <2>2. 2 * waited' = 5 * attempt' * (attempt' + 1)
    BY <1>2 DEF Backoff, Call
  <2>3. QED
    BY <1>2, <2>1, <2>2 DEF Call
<1>3. ASSUME NEW e \in Errors, lastErr' = e, ~Retries(e),
             phase' = "done", result' = "none", UNCHANGED <<attempt, waited>>
      PROVE  Inv'
  BY <1>3 DEF Call
<1>4. QED
  BY <1>1, <1>2, <1>3 DEF Call

LEMMA InvStep == Inv /\ [Next]_vars => Inv'
BY CallInv DEF Next, vars, Inv, TypeOK

\* Every behaviour of activity2_faucet keeps the invariant.
LEMMA AlwaysInv == Spec => []Inv
BY InitInv, InvStep, PTL DEF Spec

\* Type correctness: the counters of the faucet loop stay within range, in
\* particular no more calls are made than max_retries allows.
THEOREM TypeCorrect == Spec => []TypeOK
<1>1. Inv => TypeOK
  BY DEF Inv
<1>2. QED
  BY <1>1, AlwaysInv, PTL

\* Spec 4.2: the backoff before the k-th retry is 5k seconds, one call per
\* attempt, for every max_retries.
THEOREM BackoffCorrect == Spec => []BackoffSchedule
<1>1. Inv => BackoffSchedule
  <2> SUFFICES ASSUME Inv PROVE BackoffSchedule
    OBVIOUS
  <2>1. calls = IF phase = "call" \/ retries = 0 THEN attempt ELSE attempt + 1
    BY DEF Inv, TypeOK
  <2>2. waited = (5 * attempt * (attempt + 1)) \div 2
    BY DEF Inv, TypeOK
  <2>3. QED
    BY <2>1, <2>2 DEF BackoffSchedule
<1>2. QED
  BY <1>1, AlwaysInv, PTL

-----------------------------------------------------------------------------
(* Refinement.                                                             *)

\* The claim starts where the retry policy starts.
LEMMA InitRefines == Init => Policy!Init
BY DEF Init, Policy!Init

\* Every call is one attempt of the policy, and a stutter is a stutter.
LEMMA StepRefines == Inv /\ [Next]_vars => [Policy!Attempt]_Policy!policyVars
<1> SUFFICES ASSUME Inv, [Next]_vars PROVE [Policy!Attempt]_Policy!policyVars
  OBVIOUS
<1> USE DEF Inv, TypeOK, Errors
<1>1. CASE Call
  <2>1. /\ result = "pending" /\ calls < retries
        /\ calls' = calls + 1 /\ retries' = retries
    BY <1>1 DEF Call
  <2>2. CASE result' = "faucet" /\ phase' = "done" /\ UNCHANGED <<attempt, lastErr, waited>>
    BY <2>1, <2>2 DEF Policy!Attempt
  <2>3. ASSUME NEW e \in Errors, lastErr' = e, Retries(e),
               waited' = waited + Backoff(attempt), attempt' = attempt + 1,
               UNCHANGED <<phase, result>>
        PROVE  Policy!Attempt
    <3>1. e = "retryable" /\ calls' < retries
      BY <2>1, <2>3, <1>1 DEF Retries, Call
    <3>2. QED
      BY <2>1, <2>3, <3>1 DEF Policy!Attempt
  <2>4. ASSUME NEW e \in Errors, lastErr' = e, ~Retries(e),
               phase' = "done", result' = "none", UNCHANGED <<attempt, waited>>
        PROVE  Policy!Attempt
    <3>1. e = "retryable" => ~(calls' < retries)
      BY <2>1, <2>4, <1>1 DEF Retries, Call
    <3>2. QED
      BY <2>1, <2>4, <3>1 DEF Policy!Attempt
  <2>5. QED
    BY <1>1, <2>2, <2>3, <2>4 DEF Call
<1>2. CASE UNCHANGED vars
  BY <1>2 DEF vars, Policy!policyVars
<1>3. QED
  BY <1>1, <1>2 DEF Next

\* Spec sections 4.2 and 7: every behaviour of activity2_faucet is a
\* behaviour of the retry policy: at most max_retries calls, a retryable
\* error retried exactly while attempts are left, any other error the end.
\* (That the claim also ends, the policy's fairness, is checked by TLC.)
THEOREM RefinesRetryPolicy == Spec => Policy!SafetySpec
<1>1. Spec => []Inv
  BY AlwaysInv
<1>2. QED
  BY <1>1, InitInv, InitRefines, StepRefines, PTL DEF Spec, Policy!SafetySpec
=============================================================================
