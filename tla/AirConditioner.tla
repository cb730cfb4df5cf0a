--------------------------- MODULE AirConditioner ---------------------------
(***************************************************************************)
(* The air conditioner's registry (lib/registry/airconditioner.py, with    *)
(* what it shares from lib/registry/shared.py): for every capability its   *)
(* resource, and its reader, writer, gate and options as <<kind, ...>>.    *)
(*                                                                         *)
(* Numbers are tenths, and fields carry no vendor prefix.  A number that   *)
(* does not parse is a field that is absent.  An alarm code is             *)
(* [family, off, number] for family_OFF and family_0003.                   *)
(***************************************************************************)
EXTENDS Registry

-----------------------------------------------------------------------------
(* Parts of a representation. *)

Items(rep) == IF "items" \in DOMAIN rep THEN rep["items"] ELSE <<>>
Tokens(rep) == IF "options" \in DOMAIN rep THEN rep["options"] ELSE <<>>
FirstOf(seq, places) == IF places = {} THEN None ELSE seq[Min(places)]

\* The entry with id 0, wherever it stands, or else the first.
Zero(rep) == {i \in DOMAIN Items(rep) : Field(Items(rep)[i], "id") = "0"}
FirstItem(rep) ==
  IF Zero(rep) # {} THEN Items(rep)[Min(Zero(rep))]
  ELSE IF Items(rep) = <<>> THEN <<>> ELSE Items(rep)[1]

\* The value half of the token name_value; None if the unit has no such token.
Token(rep, name) ==
  LET named == {i \in DOMAIN Tokens(rep) : Tokens(rep)[i][1] = name}
  IN  IF named = {} THEN None ELSE Tokens(rep)[Min(named)][2]

\* Alias -> code, from two lists the unit gives in parallel, and the alias of
\* the code it is at.
Alias == ("auto" :> "auto") @@ ("low" :> "low") @@ ("mid" :> "mid") @@ ("medium" :> "mid")
  @@ ("high" :> "high") @@ ("turbo" :> "high")
FanNames(rep) == IF "names" \in DOMAIN rep THEN rep["names"] ELSE <<>>
FanCodes(rep) ==
  LET codes == IF "supported" \in DOMAIN rep THEN rep["supported"] ELSE <<>>
      names == FanNames(rep)
      known == {i \in DOMAIN names : names[i] \in DOMAIN Alias}
  IN  IF Len(codes) # Len(names) THEN <<>>
      ELSE [a \in {Alias[names[i]] : i \in known} |->
              codes[Max({i \in known : Alias[names[i]] = a})]]
FanAt(rep) ==
  LET names == FanNames(rep)
      at == {i \in DOMAIN names :
               /\ names[i] \in DOMAIN Alias /\ Alias[names[i]] \in DOMAIN FanCodes(rep)
               /\ FanCodes(rep)[Alias[names[i]]] = Field(rep, "modes")}
  IN  IF at = {} THEN None ELSE Alias[names[Min(at)]]

Celsius(dump) == Field(FirstItem(Rep(dump, "/temperatures/vs/0")), "unit") \in {None, "Celsius"}
Legacy(dump) == "/airflow/vs/0" \in DOMAIN dump /\ "/wind/strength/vs/0" \notin DOMAIN dump

\* What no fault is: a cleared entry, an idle code, and the running state.
StateFamily == "DA_SAC_M"
Active(e) ==
  /\ Field(e, "state") \notin {"deleted", "cleared"}
  /\ e["code"].family \notin {"", "none", StateFamily} /\ ~e["code"].off
ActiveAlarms(rep) ==
  FoldLeft(LAMBDA codes, e : IF Active(e) /\ e["code"] \notin ToSet(codes)
                             THEN Append(codes, e["code"]) ELSE codes, <<>>, Items(rep))

StateItem(rep) ==
  FirstOf(Items(rep), {i \in DOMAIN Items(rep) : Items(rep)[i]["code"].family = StateFamily})
SensorItem(rep, type) ==
  FirstOf(Items(rep), {i \in DOMAIN Items(rep) : Field(Items(rep)[i], "type") = type})

Clamped(n) == Max({0, Min({n, 1000})})

\* kWh in hundred-thousandths: the old boards count in hundredths of a watt-hour
\* and are shown with two decimals, whatever unit they name.
Meter(rep, dump) ==
  LET n == Field(rep, "cumulativePower")
  IN  IF n = None THEN None
      ELSE IF Legacy(dump) THEN ((n + 500) \div 1000) * 1000
      ELSE IF Field(rep, "cumulativeUnit") \in {None, "Wh"} THEN n * 100 ELSE n * 100000

\* A zero of the finer field is a reading, a zero of the other is none.
Humidity(rep) ==
  IF "fivepercentHumidity" \in DOMAIN rep THEN rep["fivepercentHumidity"]
  ELSE IF Field(rep, "humidity") = 0 THEN None ELSE Field(rep, "humidity")

-----------------------------------------------------------------------------
(* Reading. *)

\* The light token means "night mode": Light_Off is a lit panel.
Lit == "Off"
Dark == "On"
OutdoorOffset == 550

Is(value, on) == IF value = None THEN None ELSE value = on
IsNot(value, idle) == IF value = None THEN None ELSE value \notin idle

AcReads(s, dump) ==
  LET r == s.read  rep == Rep(dump, s.href)
  IN  CASE r[1] = "flag" -> Is(Field(rep, r[2]), "On")
        [] r[1] = "busy" -> IsNot(Field(rep, r[2]), {"Stop", "Ready", "Cancel", "None"})
        [] r[1] = "due" -> IsNot(Field(rep, r[2]), {"normal", ""})
        [] r[1] = "plain" -> Field(rep, r[2])
        [] r[1] = "enum" -> IF Field(rep, r[2]) \in r[3] THEN Field(rep, r[2]) ELSE None
        [] r[1] = "mode" ->
             IF Field(rep, "modes") \notin {None, <<>>} /\ Head(rep["modes"]) \in r[2]
             THEN Head(rep["modes"]) ELSE None
        [] r[1] = "item" -> Field(FirstItem(rep), r[2])
        [] r[1] = "token" -> Token(rep, r[2])
        [] r[1] = "token_is" -> Is(Token(rep, r[2]), r[3])
        [] r[1] = "outdoor" ->
             IF Token(rep, "OutdoorTemp") # None /\ Celsius(dump)
             THEN Token(rep, "OutdoorTemp") - OutdoorOffset ELSE None
        [] r[1] = "fan" -> FanAt(rep)
        [] r[1] = "humidity" -> Humidity(rep)
        [] r[1] = "meter" -> Meter(rep, dump)
        [] r[1] = "percent" -> IF Field(rep, r[2]) = None THEN None ELSE Clamped(rep[r[2]])
        [] r[1] = "alarms" -> IF "items" \in DOMAIN rep THEN ActiveAlarms(rep) ELSE None
        [] r[1] = "state" ->
             IF StateItem(rep) = None THEN None
             ELSE IF StateItem(rep)["code"].off THEN 0 ELSE StateItem(rep)["code"].number
        [] r[1] = "sensor" ->
             IF SensorItem(rep, r[2]) = None \/ SensorItem(rep, r[2])["value"] = <<>> THEN None
             ELSE Head(SensorItem(rep, r[2])["value"])

\* A sensor list not fetched yet says nothing about which sensors there are.
AcExists(s, dump) ==
  LET g == s.gate  rep == Rep(dump, s.href)
  IN  CASE g[1] = "always" -> TRUE
        [] g[1] = "field" -> g[2] \in DOMAIN rep
        [] g[1] = "token" -> Token(rep, g[2]) # None
        [] g[1] = "read" -> AcReads(s, dump) # None
        [] g[1] = "state" -> StateItem(rep) # None
        [] g[1] = "sensor" -> DOMAIN rep = {"href"} \/ SensorItem(rep, g[2]) # None

\* Bounds come from the unit; what it does not give is not claimed.
Named(src, names) ==
  LET given == {o \in DOMAIN names : Field(src, names[o]) # None /\ (o = "step" => src[names[o]] # 0)}
  IN  [o \in given |-> src[names[o]]]
AcEntry(s, dump) ==
  LET rep == Rep(dump, s.href)
      bounds == CASE s.entry = "setpoint" ->
                       Named(FirstItem(rep), [min |-> "minimum", max |-> "maximum", step |-> "increment"])
                  [] s.entry = "volume" ->
                       Named(rep, [min |-> "minLevel", max |-> "maxLevel", step |-> "resolution"])
                  [] OTHER -> <<>>
      title == IF s.entry = "title" THEN "title" :> s.capability ELSE <<>>
  IN  IF bounds @@ title = <<>> THEN None ELSE bounds @@ title

-----------------------------------------------------------------------------
(* Writing: only what changes. *)

\* To the nearest step, a tie to the even one.  The mutant cuts off.
SnapDown(n, step) == (n \div step) * step
Snap(n, step) ==
  LET k == n \div step  rest == 2 * (n % step)
  IN  (IF rest > step \/ (rest = step /\ k % 2 = 1) THEN k + 1 ELSE k) * step
StepOf(rep) ==
  IF Field(FirstItem(rep), "increment") \in {None, 0} THEN 5 ELSE FirstItem(rep)["increment"]

OnOff(value) == IF value THEN "On" ELSE "Off"

LightToken(value) == <<"Light", IF value THEN Lit ELSE Dark>>

\* A list the unit leaves out or leaves empty forbids nothing.
Unlisted(value, rep, field) ==
  field \in DOMAIN rep /\ rep[field] # <<>> /\ value \notin ToSet(rep[field])

AcPayload(s, value, rep) ==
  LET w == s.write
  IN  CASE w[1] = "flag" -> [f \in {w[2]} |-> OnOff(value)]
        [] w[1] = "light" -> [options |-> <<LightToken(value)>>]
        [] w[1] = "setpoint" ->
             [items |-> <<[id |-> "0", desired |-> Snap(value, StepOf(rep))]>>]
        [] w[1] = "mode" ->
             IF value \notin w[2] \/ Unlisted(value, rep, "supported") THEN None
             ELSE [modes |-> <<value>>]
        [] w[1] = "fan" ->
             IF value \in DOMAIN FanCodes(rep) THEN [modes |-> FanCodes(rep)[value]] ELSE None
        [] w[1] = "enum" ->
             IF value \notin w[3] THEN None
             ELSE IF Unlisted(value, rep, w[4]) THEN Refused ELSE [f \in {w[2]} |-> value]

\* What was asked for can be met to half a step, or exactly.
AcMeets(s, reading, value, rep) ==
  IF s.write[1] = "setpoint" THEN 2 * (reading - value) \in -StepOf(rep)..StepOf(rep)
  ELSE reading = value

-----------------------------------------------------------------------------
(* The table. *)

AcModes == {"AIComfort", "Auto", "Cool", "Dry", "Fan", "Heat", "Wind"}
ConvenientModes == {"Off", "Nano", "LongWind", "Speed", "Sleep", "NanoSleep", "Quiet",
                    "Smart", "MotionDirect", "MotionIndirect", "DryComfort"}
WindDirections == {"Fix", "Left_And_Right", "All"}
Levels == {"Smart", "Low", "High"}
Colors == {"3000K", "4000K", "6500K"}

Control(c, href, read, write) ==
  [capability |-> c, href |-> href, read |-> read, write |-> write,
   gate |-> <<"always">>, entry |-> "none"]
Reading(c, href, read) == Control(c, href, read, None)
Gated(s, gate) == [s EXCEPT !.gate = gate]
Switch(c, href, field) == Control(c, href, <<"flag", field>>, <<"flag", field>>)
Picker(c, href, field, allowed, supported) ==
  Control(c, href, <<"enum", field, allowed>>, <<"enum", field, allowed, supported>>)
IfToken(c, read) == Gated(Reading(c, "/mode/vs/0", read), <<"token", read[2]>>)
IfField(c, href, read) == Gated(Reading(c, href, read), <<"field", read[2]>>)
Sensor(c, type) == Gated(Reading(c, "/sensors/vs/0", <<"sensor", type>>), <<"sensor", type>>)
With(s, entry) == [s EXCEPT !.entry = entry]

REGISTRY == <<
  Switch("onoff", "/power/vs/0", "power"),
  With(Control("target_temperature", "/temperatures/vs/0", <<"item", "desired">>, <<"setpoint">>), "setpoint"),
  Reading("measure_temperature", "/temperatures/vs/0", <<"item", "current">>),
  With(Gated(Reading("measure_temperature.outdoor", "/mode/vs/0", <<"outdoor">>), <<"read">>), "title"),
  Control("ac_mode", "/mode/vs/0", <<"mode", AcModes>>, <<"mode", AcModes>>),
  IfToken("odor_controller", <<"token_is", "SmartCoolClean", "On">>),
  IfToken("odor_progress", <<"token", "ProgressSmartClean">>),
  Control("fan_mode", "/wind/strength/vs/0", <<"fan">>, <<"fan">>),
  Reading("measure_humidity", "/humidity/vs/0", <<"humidity">>),
  Reading("sound_mode", "/settings/sound/mode/vs/0", <<"plain", "mode">>),
  With(Reading("sound_volume", "/settings/sound/volume/vs/0", <<"plain", "level">>), "volume"),
  Reading("absence_detect", "/mds/absencestate/vs/0", <<"flag", "status">>),
  Reading("absence_minutes", "/mds/absencestate/vs/0", <<"plain", "absenceTime">>),
  Reading("absence_monitoring", "/mds/absencemonitoring/vs/0", <<"flag", "status">>),
  Reading("measure_power", "/energy/consumption/vs/0", <<"plain", "instantaneousPower">>),
  Reading("meter_power", "/energy/consumption/vs/0", <<"meter">>),
  Switch("air_purify", "/option/airpurify/vs/0", "modes"),
  Reading("filter_usage", "/filter/airdustfilter/vs/0", <<"percent", "filterUsage">>),
  Reading("alarm_filter", "/filter/airdustfilter/vs/0", <<"due", "filterStatus">>),
  Switch("auto_clean", "/option/autoclean/vs/0", "settingStatus"),
  IfField("auto_clean_active", "/option/autoclean/vs/0", <<"busy", "status">>),
  IfField("auto_clean_progress", "/option/autoclean/vs/0", <<"plain", "progress">>),
  Reading("selfcheck", "/selfcheck/vs/0", <<"plain", "status">>),
  IfField("selfcheck_active", "/selfcheck/vs/0", <<"busy", "status">>),
  IfField("selfcheck_progress", "/selfcheck/vs/0", <<"plain", "progress">>),
  Switch("mute_once", "/option/muteonce/vs/0", "muteonce"),
  Switch("display_light", "/light/stateful/vs/0", "status"),
  Switch("display_light", "/light/vs/0", "mode"),
  Gated(Control("display_light", "/mode/vs/0", <<"token_is", "Light", Lit>>, <<"light">>), <<"token", "Light">>),
  Switch("edge_light", "/edgelighting/vs/0", "status"),
  Switch("absence_power_saving", "/mds/absencepowersaving/vs/0", "status"),
  Switch("absence_clean", "/mds/absenceclean/vs/0", "mode"),
  Switch("motion_detect_wind", "/option/motiondetectwind/stateful/vs/0", "status"),
  Switch("smart_sensing_cooling", "/smartsensingcooling/vs/0", "status"),
  Switch("uvled", "/uvled/vs/0", "modes"),
  Picker("convenient_mode", "/mode/convenient/vs/0", "modes", ConvenientModes, "supported"),
  Picker("wind_direction", "/wind/direction/vs/0", "modes", WindDirections, "supported"),
  Reading("power_save_mode", "/mds/absencepowersaving/vs/0",
          <<"enum", "switchPowerSaveMode", {"Eco", "Normal", "Comfort"}>>),
  Reading("wind_target", "/option/motiondetectwind/stateful/vs/0", <<"enum", "modes", {"Direct", "Indirect"}>>),
  Reading("light_mode", "/light/stateful/vs/0", <<"enum", "mode", Levels>>),
  Picker("edge_light_mode", "/edgelighting/vs/0", "mode", Levels, "modeSupportedList"),
  Picker("edge_light_color", "/edgelighting/vs/0", "colorOption", Colors, "colorSupportedList"),
  Reading("alarm_code", Alarms, <<"alarms">>),
  Gated(Reading("operation_state_code", Alarms, <<"state">>), <<"state">>),
  Sensor("air_quality", "CleanLevel"), Sensor("measure_pm25", "FineDust"),
  Sensor("dust_pm10", "Dust"), Sensor("dust_pm1", "SuperFineDust"),
  With(IfField("filter_usage.pm1", "/filter/airdustPM1filter/vs/0", <<"percent", "filterUsage">>), "title"),
  With(IfField("alarm_filter.pm1", "/filter/airdustPM1filter/vs/0", <<"due", "filterStatus">>), "title"),
  Reading("air_sensing", "/airlevelcheck/vs/0", <<"flag", "periodicSensingActivationState">>),
  Reading("air_sensing_state", "/airlevelcheck/vs/0", <<"plain", "sensingState">>),
  Reading("air_sensing_level", "/airlevelcheck/vs/0", <<"plain", "lastSensingLevel">>),
  Reading("air_sensing_action", "/airlevelcheck/vs/0", <<"plain", "autoExeState">>)>>
=============================================================================
