-------------------------- MODULE MC_WalletSelection --------------------------
EXTENDS WalletSelection

\* Up to three keys and numbers up to four, so that a number or a range end
\* can be 0, in bounds, equal to len(private_keys) or one past it; two
\* parts, so that they may overlap, repeat or come out of order.
MC_MaxTotal == 3
MC_MaxParts == 2
MC_MaxNum == 4
=============================================================================
