CONSTANTS
    MaxRetries <- MC_MaxRetries
SPECIFICATION Spec
INVARIANTS TypeOK BackoffSchedule
PROPERTIES ImplementsRetryPolicy
\* activity2_faucet returns after its last attempt.
CHECK_DEADLOCK FALSE
