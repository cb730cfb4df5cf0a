------------------------------ MODULE MCAcCard ------------------------------
(* AcCard for TLC: one value beside the resting one for each setting, the   *)
(* three modes that differ in what they take, and a comfort mode the table  *)
(* does not name.                                                          *)
EXTENDS AcCard, TLC

AcDomain ==
  [power |-> {"on", "off"}, mode |-> {"AIComfort", "Cool", "Fan"},
   temperature |-> {"22", "24"}, fan |-> {"low", "high"},
   direction |-> {"fixed"}, air_purify |-> {"off", "on"},
   convenient |-> {"Off", "Nano", "Sleep"}]

AcStarts ==
  {[power |-> p, mode |-> m, temperature |-> "22", fan |-> "low",
    direction |-> "fixed", air_purify |-> "off", convenient |-> "Off"] :
     p \in {"on", "off"}, m \in {"AIComfort", "Cool", "Fan"}}

\* The one clash nobody has reported yet.
AcClashes == {<<"AIComfort", "Sleep">>}

\* Turn on and choose a mode, with what no mode ignores outright.
Boots ==
  {[power |-> "on", mode |-> m, air_purify |-> "on", convenient |-> c] :
     m \in {"AIComfort", "Cool"}, c \in {"Off", "Nano"}}
Others ==
  {[mode |-> "AIComfort", convenient |-> "Sleep"],
   [power |-> "off", temperature |-> "24"],
   [temperature |-> "24", fan |-> "high", convenient |-> "Nano"]}
AcRequests == Boots \cup Others
=============================================================================
