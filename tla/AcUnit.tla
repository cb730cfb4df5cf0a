------------------------------- MODULE AcUnit -------------------------------
(***************************************************************************)
(* One air conditioner behind Capabilities: the registry is lines of the   *)
(* table of AirConditioner, and what the unit reports hangs together well   *)
(* enough for a command to be done as it was asked.  These are hypotheses   *)
(* about constants, which one instance satisfies and a theorem takes.       *)
(***************************************************************************)
EXTENDS Capabilities, AirConditioner

CONSTANT Unit   \* what it never changes: [step, names, supported]

-----------------------------------------------------------------------------
(* The registry. *)

LinesOfTheTable == \A i \in DOMAIN Specs : \E k \in DOMAIN REGISTRY : Specs[i] = REGISTRY[k]

ServedByTheTable ==
  /\ \A s, dump : Exists(s, dump) <=> AcExists(s, dump)
  /\ \A s, dump : Reads(s, dump) = AcReads(s, dump)
  /\ \A s, value, rep : Payload(s, value, rep) = AcPayload(s, value, rep)
  /\ \A s, reading, value, rep :
       Meets(s, reading, value, rep) <=> AcMeets(s, reading, value, rep)

\* None is no value that a unit reports.
NoneIsApart == None \notin {"On", "Off"} /\ \A v : None # <<v>>

-----------------------------------------------------------------------------
(* The unit. *)

\* What it may report of a resource, before anything is written.
Reported(h) ==
  {dump[h] : dump \in {d \in Dumps : h \in DOMAIN d}}
    \cup {step[3] : step \in {x \in Steps : x[1] = h /\ x[3] # None}}

IsAsked(s) == \E ask \in Asked : ask[1] = s.capability

\* A command to one of these goes by what the cache has of the unit: the step it
\* counts in, and the codes of its fan.
Counted(s) == Writable(s) /\ s.write[1] \in {"setpoint", "fan"} /\ IsAsked(s)

Whole(s, rep) ==
  /\ s.write[1] = "setpoint" => Zero(rep) # {} /\ StepOf(rep) = Unit.step
  /\ s.write[1] = "fan" =>
       \A g \in {"names", "supported"} : g \in DOMAIN rep /\ rep[g] = Unit[g]

\* Such a resource is always there, and always says the same of itself; no two
\* speeds of the fan have one code.
CountsInOneStep ==
  /\ Unit.step \in Nat \ {0}
  /\ {"names", "supported"} \subseteq DOMAIN Unit /\ Unit.names \in Seq(STRING)
  /\ \A a, b \in DOMAIN FanCodes(Unit) : FanCodes(Unit)[a] = FanCodes(Unit)[b] => a = b
  /\ \A i \in DOMAIN Specs : Counted(Specs[i]) =>
       /\ \A dump \in Dumps : Specs[i].href \in DOMAIN dump
       /\ \A step \in Steps : step[1] = Specs[i].href => step[3] # None
       /\ \A rep \in Reported(Specs[i].href) : Whole(Specs[i], rep)

\* The line that a capability is commanded by: its resource may be there, and for
\* the light in a token the token may, unless the line is what an absent
\* capability falls back on.
Lights(s) == Writable(s) /\ s.write[1] = "light"
Reachable(s) ==
  \E rep \in Reported(s.href) :
    Lights(s) /\ s # Specs[DeclaredFor(s.capability)] => Token(rep, "Light") # None

\* A unit has its light in one resource, or in the token, and never in two places.
OneHome ==
  \A i, j \in DOMAIN Specs :
    (/\ IsAsked(Specs[i]) /\ Specs[i].capability = Specs[j].capability
     /\ Reachable(Specs[i]) /\ Reachable(Specs[j])) => Specs[i] = Specs[j]

\* A user may ask for a value of the kind of the control.
AskedInKind ==
  \A ask \in Asked : \A i \in DOMAIN Specs :
    Writable(Specs[i]) /\ Specs[i].capability = ask[1] =>
      /\ Specs[i].write[1] \in {"flag", "light"} => ask[2] \in BOOLEAN
      /\ Specs[i].write[1] = "setpoint" => ask[2] \in Int

OneUnit == LinesOfTheTable /\ CountsInOneStep /\ OneHome /\ AskedInKind
=============================================================================
