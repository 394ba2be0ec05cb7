---------------------------- MODULE MC_SmartAgent ----------------------------
EXTENDS SmartAgent

\* Levels on both sides of the thresholds: ETH < 2; PathUSD > 10 (swap and
\* liquidity) and > 1000 (name registration); AlphaUSD and BetaUSD < 5
\* (swap) and > 5 (liquidity).
MC_EthLevels == {1, 2}
MC_PathLevels == {0, 11, 1001}
MC_PeerLevels == {0, 6}
MC_MaxCreated == 2
=============================================================================
