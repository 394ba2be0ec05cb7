--------------------------- MODULE MC_TxPipeline ---------------------------
(* Small instances of TxPipeline for TLC.                                  *)
EXTENDS TxPipeline

\* Three broadcasts: a guarded recipe with its approval and one more
\* transaction (a plain recipe, a resend after a lost response or an
\* eviction, or the spending call of a second recipe that finds the
\* allowance approved by the first).
MC_MaxTx == 3
\* Two polls: one receipt check that can miss before the wait gives up.
MC_MaxPolls == 2
\* One eviction: enough to open a nonce gap behind a pending transaction.
MC_MaxEvict == 1
\* PathUSD and one other token: the bid and the ask of the limit order use
\* different allowances, the swap, the batch and the bid the same one.
MC_Tokens == {"PathUSD", "AlphaUSD"}
=============================================================================
