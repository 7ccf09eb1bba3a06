---------------------------- MODULE MCAgentLoop ----------------------------
(* Two symbols compete for one slot, or one symbol is traded repeatedly.   *)
EXTENDS AgentLoop, TLC

CONSTANTS s1, s2, z1, z2

OneCoin  == <<s1>>
TwoCoins == <<s1, s2>>

NoneOrOneZone == {<<>>, <<z1>>}
OneZone       == {<<z1>>}
UpToTwoZones  == {<<>>, <<z1>>, <<z1, z2>>}
=============================================================================
