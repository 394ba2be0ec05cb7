------------------------------ MODULE MC_Faucet ------------------------------
EXTENDS Faucet

\* Every max_retries argument from 0 to 8: the default 3, the degenerate 0
\* and 1 (no retry at all), and longer schedules whose backoff sum grows
\* quadratically.
MC_MaxRetries == 8
=============================================================================
