------------------------------- MODULE MCGolden -------------------------------
EXTENDS Golden, TLC

CONSTANTS d1, d2

\* One question of six is where the four decimals and the share 1/n disagree;
\* one of eight is exact.
MCN == (d1 :> 6) @@ (d2 :> 8)
=============================================================================
