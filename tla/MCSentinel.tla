----------------------------- MODULE MCSentinel -----------------------------
(* Prices 1..3: a demand zone at 2 entered from 3, a supply zone at 2      *)
(* entered from 1, take-profit levels on both sides and stop levels at 2.  *)
EXTENDS Sentinel

Long(level)  == [level |-> level, direction |-> "long"]
Short(level) == [level |-> level, direction |-> "short"]

OneLongZone  == {[bottom |-> 2, top |-> 2, direction |-> "long"]}
BothZones    == OneLongZone \cup {[bottom |-> 2, top |-> 2, direction |-> "short"]}
BothTP1      == {Long(3), Short(1)}
LongTP1      == {Long(3)}
BothSL       == {Long(2), Short(2)}
LongSL       == {Long(2)}
=============================================================================
