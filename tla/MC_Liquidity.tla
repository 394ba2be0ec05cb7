------------------------------ MODULE MC_Liquidity ------------------------------
EXTENDS Liquidity

\* Three pairs (three configured tokens).  With the minimum scaled to 10,
\* the balances are zero, below the minimum, equal to it, one whose 20%
\* share is below the minimum, and one whose shares reach past it.
CONSTANTS p12, p13, p23
MC_Pairs == {p12, p13, p23}
MC_LpValues == {0, 7, 10, 30, 100}
MC_MinWithdraw == 10
=============================================================================
