--------------------------- MODULE MCCapabilities ---------------------------
(***************************************************************************)
(* Five capabilities of one air conditioner: a setpoint with a range, a     *)
(* light that is either a resource or a token, a token that comes and      *)
(* goes, a second filter that does, and the alarms.                        *)
(***************************************************************************)
EXTENDS AcUnit

Mode == "/mode/vs/0"
Temperatures == "/temperatures/vs/0"
Filter == "/filter/airdustPM1filter/vs/0"

Chosen == {"target_temperature", "odor_controller", "display_light", "alarm_filter.pm1", "alarm_code"}
Registered == SelectSeq(REGISTRY, LAMBDA s : s.capability \in Chosen)
Dotted == {"alarm_filter.pm1"}

\* The setpoint is the second entry of the list.
Setpoint(most) ==
  "items" :> <<("id" :> "1"),
               ("id" :> "0") @@ ("desired" :> 240) @@ ("current" :> 265)
                 @@ ("minimum" :> 180) @@ ("maximum" :> most) @@ ("increment" :> 10)>>
Modes(tokens) ==
  ("modes" :> <<"Cool">>) @@ ("supported" :> <<"Cool", "Auto">>) @@ ("options" :> tokens)
Plain == <<<<"Sleep", 0>>, <<"Light", "On">>>>
Cleaning == Append(Plain, <<"SmartCoolClean", "On">>)
Status(text) == "filterStatus" :> text
Raised == "items" :> <<("code" :> [family |-> "FilterAlarm", off |-> FALSE, number |-> 0])>>

Turned == (Mode :> Modes(Plain)) @@ (Temperatures :> Setpoint(300)) @@ (Alarms :> <<>>)
  @@ (Filter :> Status("normal"))
Surfaces == {Turned}
RaisedSurfaces == {(Alarms :> Raised) @@ Turned}

Changes ==
  {<<Mode, Modes(Plain), Modes(Cleaning)>>, <<Mode, Modes(Cleaning), Modes(Plain)>>,
   <<Temperatures, Setpoint(300), Setpoint(280)>>,
   <<Filter, Status("normal"), Status("wash")>>, <<Filter, Status("wash"), Status("normal")>>,
   <<Filter, Status("normal"), None>>, <<Filter, None, Status("normal")>>,
   <<Alarms, <<>>, Raised>>, <<Alarms, Raised, <<>>>>}

\* It counts in whole degrees; no fan is asked for.
ThisUnit == [step |-> 10, names |-> <<>>, supported |-> <<>>]
ASSUME OneUnitAssumption == OneUnit

Wishes == {<<"target_temperature", 217>>, <<"display_light", TRUE>>}
=============================================================================
