---------------------------- MODULE Capabilities ----------------------------
(***************************************************************************)
(* How a device keeps its capabilities in step with an appliance whose     *)
(* resources come and go: _sync_capabilities, _sync_capability_options,    *)
(* _apply with its triggers, _on_notification and _write                   *)
(* (lib/appliance/device.py), over any registry.  The poll loop and a Flow *)
(* card read and synchronise at the same time and suspend at every call of *)
(* Homey's SDK, any of which may raise.                                    *)
(*                                                                         *)
(* An _apply works on the dict it was called with, which a later read      *)
(* replaces but notifications and writes change: `dict` is Live, or the    *)
(* frozen value of one that was replaced (see StateCache).                 *)
(***************************************************************************)
EXTENDS Registry

CONSTANTS
  Dumps,       \* what the appliance may report
  Steps,       \* <<href, old, new>>: the changes it makes, None for no resource
  Subs,        \* capabilities with a dot: their triggers are fired from here
  Asked,       \* <<capability, value>>: what a user may ask for
  Readers,     \* coroutines in _read_and_apply
  Poll,        \* the one that is the poll loop
  Tasks,       \* _apply_href tasks there may be at a time (a bound)
  Live,        \* the dict self._resources still names
  MaxEvents    \* bound: what happens in the world, faults and commands

ASSUME ReadersAssumption == Poll \in Readers /\ Readers \cap Tasks = {}
ASSUME EventsAssumption == MaxEvents \in Nat
ASSUME SubsAssumption == Subs \subseteq Declared
ASSUME NoneAssumption == None \notin Declared

\* The two list fields of a representation are lists.
Listed(rep) == \A list \in Lists \cap DOMAIN rep : rep[list] \in Seq(ToSet(rep[list]))
ASSUME ListsAssumption ==
  /\ \A dump \in Dumps : \A h \in DOMAIN dump : Listed(dump[h])
  /\ \A step \in Steps : step[3] # None => Listed(step[3])

VARIABLES
  actual,     \* what the appliance reports
  events,     \* how much has happened so far
  flight,     \* notifications under way: <<href, representation>>
  resolved,   \* self._registry is known
  resources,  \* self._resources
  have,       \* the capabilities Homey holds for the device
  heard,      \* those with a listener
  shown,      \* their values in Homey
  applied,    \* self._applied_options
  previous,   \* self._previous
  told,       \* the value the last trigger of a sub-capability was about (history)
  job,        \* what each reader and task is doing
  settling,   \* hrefs whose guard lies in the future
  command,    \* the command under way
  done        \* what the appliance last accepted and has kept (history)

appliance == <<actual, flight>>
homey == <<have, heard, shown>>
device == <<resolved, resources, applied, previous, told, settling>>
vars == <<appliance, events, homey, device, job, command, done>>

\* `only` is the resource a task is about; a full read is about all of them.
Idle == [phase |-> "idle", adds |-> {}, gone |-> {}, new |-> {}, sets |-> <<>>,
         only |-> None, dict |-> Live, at |-> 1, value |-> None]
NoCommand == [step |-> "none", ask |-> None, spec |-> None, body |-> None]
Coroutines == Readers \cup Tasks

Init ==
  /\ actual \in Dumps /\ events = 0 /\ flight = {}
  /\ resolved = FALSE /\ resources = <<>>
  /\ \E d \in Dumps : have = Wanted(d)
  /\ heard = have /\ shown = [c \in Declared |-> None]
  /\ applied = [c \in Declared |-> None] /\ previous = [c \in Subs |-> None] /\ told = previous
  /\ job = [r \in Coroutines |-> Idle]
  /\ settling = {} /\ command = NoCommand /\ done = None

\* One more thing has happened.
Event == events < MaxEvents /\ events' = events + 1

-----------------------------------------------------------------------------
(* The appliance.  It may notify what has changed; the datagram may be     *)
(* lost, and there are subscriptions only once the registry is known.      *)

Changed(old, new) == {h \in DOMAIN old \cap DOMAIN new : old[h] # new[h]}
ChangedFields(old, new) == [f \in {f \in DOMAIN new : Field(old, f) # new[f]} |-> new[f]]

\* The alarms come whole.
Notice(h, old, new) == <<h, IF h = Alarms THEN new ELSE ChangedFields(old, new)>>

Replaced(dump, h, rep) ==
  IF rep = None THEN [x \in DOMAIN dump \ {h} |-> dump[x]] ELSE Stored(dump, h, rep)

Becomes(dump) ==
  /\ actual' = dump
  /\ flight' \in {flight} \cup
       (IF resolved
        THEN {flight \cup {Notice(h, actual[h], dump[h]) : h \in Changed(actual, dump)}}
        ELSE {})

Operated ==
  /\ Event
  /\ \E step \in Steps :
       /\ step[2] = IF step[1] \in DOMAIN actual THEN actual[step[1]] ELSE None
       /\ Becomes(Replaced(actual, step[1], step[3]))
  /\ done' = None
  /\ UNCHANGED <<homey, device, job, command>>

-----------------------------------------------------------------------------
(* A full read. *)

\* The capability list, compared with what the registry wants of the dict.
InStep(wanted) == wanted = have

\* The mutant adds every capability again.
ComparedAnew(wanted) ==
  [Idle EXCEPT !.phase = "syncing", !.adds = wanted, !.gone = have \ wanted,
               !.new = wanted \ have]
Compared(wanted) ==
  IF InStep(wanted)
  THEN [Idle EXCEPT !.phase = "language"]
  ELSE [Idle EXCEPT !.phase = "syncing", !.adds = wanted \ have, !.gone = have \ wanted,
                    !.new = wanted \ have]

\* self._resources = ...: an _apply under way keeps the dict it has.
Frozen == [r \in Coroutines |->
             IF job[r].phase \in {"applying", "firing"} /\ job[r].dict = Live
             THEN [job[r] EXCEPT !.dict = resources] ELSE job[r]]

\* Cards are run a few times, the poll goes on.
Read(r) ==
  /\ job[r].phase = "idle"
  /\ IF r = Poll THEN UNCHANGED events ELSE Event
  /\ resources' = actual
  /\ job' = [Frozen EXCEPT ![r] =
               IF resolved THEN Compared(Wanted(actual)) ELSE [Idle EXCEPT !.phase = "resolving"]]
  /\ UNCHANGED <<appliance, homey, resolved, applied, previous, told, settling, command, done>>

\* The first read also asks what the appliance is.
Resolved(r) ==
  /\ job[r].phase = "resolving"
  /\ resolved' = TRUE
  /\ job' = [job EXCEPT ![r] = Compared(Wanted(resources))]
  /\ UNCHANGED <<appliance, events, homey, resources, applied, previous, told, settling, command, done>>

\* Additions first, in registry order; a failure of one is logged.
Adds(r) ==
  /\ job[r].phase = "syncing"
  /\ \E c \in job[r].adds :
       /\ \A x \in job[r].adds : DeclaredFor(c) <= DeclaredFor(x)
       /\ job' = [job EXCEPT ![r].adds = @ \ {c}]
       /\ \/ have' = have \cup {c} /\ UNCHANGED events
          \/ Event /\ UNCHANGED have
  /\ UNCHANGED <<appliance, heard, shown, device, command, done>>

\* Homey drops a capability with its value and its listener.
Removes(r) ==
  /\ job[r].phase = "syncing" /\ job[r].adds = {}
  /\ \E c \in job[r].gone :
       /\ job' = [job EXCEPT ![r].gone = @ \ {c}]
       /\ \/ /\ have' = have \ {c} /\ heard' = heard \ {c}
             /\ shown' = [shown EXCEPT ![c] = None]
             /\ UNCHANGED events
          \/ Event /\ UNCHANGED homey
  /\ UNCHANGED <<appliance, device, command, done>>

\* A listener for what was found missing at the start; Homey takes one only for
\* a capability that it holds.  The mutant asks again what is missing.
MissingNow(r) == Wanted(resources) \ have
Missing(r) == job[r].new

Listens(r) ==
  /\ job[r].phase = "syncing" /\ job[r].adds = {} /\ job[r].gone = {}
  /\ heard' = heard \cup (Missing(r) \cap have)
  /\ job' = [job EXCEPT ![r] = [Idle EXCEPT !.phase = "language"]]
  /\ UNCHANGED <<appliance, events, have, shown, device, command, done>>

\* The options of what the device has by now.
Options(r) ==
  /\ job[r].phase = "language"
  /\ \E wants \in {OptionsOf(resources)} :
       job' = [job EXCEPT ![r].phase = "setting",
                          ![r].sets = [c \in DOMAIN wants \cap have |-> wants[c]]]
  /\ UNCHANGED <<appliance, events, homey, device, command, done>>

\* What is applied already is passed over.  The mutant remembers that it was,
\* not what.
IsAppliedOnce(c, values) == applied[c] # None
IsApplied(c, values) == applied[c] = values

Unapplied(r) == {c \in DOMAIN job[r].sets : ~IsApplied(c, job[r].sets[c])}

Sets(r) ==
  /\ job[r].phase = "setting"
  /\ \E c \in Unapplied(r) :
       /\ \A x \in Unapplied(r) : DeclaredFor(c) <= DeclaredFor(x)
       /\ job' = [job EXCEPT ![r].sets = Restrict(@, Unapplied(r) \ {c})]
       /\ \/ c \in have /\ applied' = [applied EXCEPT ![c] = job[r].sets[c]] /\ UNCHANGED events
          \/ Event /\ UNCHANGED applied
          \/ c \notin have /\ UNCHANGED <<applied, events>>
  /\ UNCHANGED <<appliance, homey, resolved, resources, previous, told, settling,
                 command, done>>

\* Then the values are applied.
Settled(r) ==
  /\ job[r].phase = "setting" /\ Unapplied(r) = {}
  /\ job' = [job EXCEPT ![r] = [Idle EXCEPT !.phase = "applying"]]
  /\ UNCHANGED <<appliance, events, homey, device, command, done>>

-----------------------------------------------------------------------------
(* _apply: every spec in turn. *)

\* What spec i says of a dict; nothing from a representation that is empty.
Value(i, dict) ==
  IF Specs[i].capability \notin have \/ Rep(dict, Specs[i].href) = <<>> THEN None
  ELSE Reads(Specs[i], dict)

Stale(i, dict) ==
  LET c == Specs[i].capability  v == Value(i, dict)
  IN  v # None /\ (shown[c] # v \/ (c \in Subs /\ previous[c] # v))

\* The change gate of the triggers: not the first value, and not the same.  The
\* mutant asks Homey, which has the new value by then.
FiresOnShown(c, v) == shown[c] \notin {None, v}
Fires(c, v) == previous[c] \notin {None, v}

Triggered(c, v) ==
  IF c \notin Subs THEN UNCHANGED <<previous, told>>
  ELSE /\ previous' = [previous EXCEPT ![c] = v]
       /\ told' = [told EXCEPT ![c] = IF previous[c] = None \/ Fires(c, v) THEN v ELSE @]

DictOf(r) == IF job[r].dict = Live THEN resources ELSE job[r].dict

Due(r) ==
  {i \in DOMAIN Specs :
     /\ i >= job[r].at /\ job[r].only \in {None, Specs[i].href}
     /\ Stale(i, DictOf(r))}

Earliest(due) == {i \in due : \A x \in due : i <= x}

\* The next spec with anything to do has its capability set, or only its trigger
\* considered.
AppliesNext(r) ==
  /\ job[r].phase = "applying"
  /\ \E i \in Earliest(Due(r)) :
       \E c \in {Specs[i].capability}, v \in {Value(i, DictOf(r))} :
         IF shown[c] # v
         THEN /\ shown' = [shown EXCEPT ![c] = v]
              /\ job' = [job EXCEPT ![r].phase = "firing", ![r].at = i, ![r].value = v]
              /\ UNCHANGED <<previous, told>>
         ELSE /\ Triggered(c, v)
              /\ job' = [job EXCEPT ![r].at = i + 1]
              /\ UNCHANGED shown
  /\ UNCHANGED <<appliance, events, have, heard, resolved, resources, applied, settling,
                 command, done>>

\* Without one the read, or the task, has ended.
Ends(r) ==
  /\ job[r].phase = "applying" /\ Due(r) = {}
  /\ job' = [job EXCEPT ![r] = Idle]
  /\ UNCHANGED <<appliance, events, homey, device, command, done>>

\* After the awaits of set_capability_value and of the timeline.
FiresNext(r) ==
  /\ job[r].phase = "firing"
  /\ Triggered(Specs[job[r].at].capability, job[r].value)
  /\ job' = [job EXCEPT ![r].phase = "applying", ![r].at = @ + 1, ![r].value = None]
  /\ UNCHANGED <<appliance, events, homey, resolved, resources, applied, settling,
                 command, done>>

\* The GET, or a call that nothing catches, raises: the poll has failed.
Fails(r) ==
  /\ job[r].phase \in {"resolving", "language", "applying", "firing"} /\ Event
  /\ job' = [job EXCEPT ![r] = Idle]
  /\ UNCHANGED <<appliance, homey, device, command, done>>

-----------------------------------------------------------------------------
(* Push. *)

Notified(n) ==
  /\ n \in flight
  /\ flight' = flight \ {n}
  /\ IF n[1] \in settling
     THEN UNCHANGED <<resources, job>>
     ELSE /\ resources' = Pushed(resources, n[1], n[2])
          /\ \E t \in Tasks :
               /\ job[t] = Idle
               /\ job' = [job EXCEPT ![t].phase = "created", ![t].only = n[1]]
  /\ UNCHANGED <<actual, events, homey, resolved, applied, previous, told, settling,
                 command, done>>

\* The task's turn: it takes the dict there is by then.
Begins(t) ==
  /\ job[t].phase = "created"
  /\ job' = [job EXCEPT ![t].phase = "applying"]
  /\ UNCHANGED <<appliance, events, homey, device, command, done>>

GuardEnds(h) ==
  /\ h \in settling /\ settling' = settling \ {h}
  /\ UNCHANGED <<appliance, events, homey, resolved, resources, applied, previous, told,
                 job, command, done>>

-----------------------------------------------------------------------------
(* A command: _write. *)

\* What the device holds already needs no sending.  The mutant takes any value
\* for that one.
HoldsAny(s, value) == value # None /\ Rep(resources, s.href) # <<>>
Holds(s, value) ==
  value # None /\ Rep(resources, s.href) # <<>> /\ Reads(s, resources) = value

\* Refused before anything is sent, or needless; without a listener the value
\* goes nowhere.
Commanded ==
  /\ command.step = "none" /\ Event
  /\ \E ask \in Asked :
       /\ ask[1] \in heard
       /\ LET s == SpecFor(ask[1], resources)
              rep == Rep(resources, s.href)
              body == Payload(s, ask[2], rep)
          IN  IF ~resolved \/ ~Writable(s) THEN UNCHANGED <<shown, settling, command>>
              ELSE IF body \in {None, Refused} THEN UNCHANGED <<shown, settling, command>>
              ELSE IF Holds(s, ask[2])
              THEN shown' = [shown EXCEPT ![ask[1]] = ask[2]] /\ UNCHANGED <<settling, command>>
              ELSE /\ settling' = settling \cup {s.href}
                   /\ command' = [step |-> "queued", ask |-> ask, spec |-> s, body |-> body]
                   /\ UNCHANGED shown
  /\ UNCHANGED <<appliance, have, heard, resolved, resources, applied, previous, told, job,
                 done>>

\* The appliance merges what it is sent, and refuses what changes nothing; the
\* command, or only its answer, may be lost.
Written(dump) ==
  LET h == command.spec.href IN Stored(dump, h, FoldWrite(Rep(dump, h), command.body))
Effective == command.spec.href \in DOMAIN actual /\ Written(actual) # actual

Answered ==
  /\ command.step = "queued"
  /\ \/ /\ Effective /\ Becomes(Written(actual)) /\ done' = command.ask
        /\ \/ command' = [command EXCEPT !.step = "sent"] /\ UNCHANGED events
           \/ Event /\ command' = NoCommand
     \/ /\ command' = NoCommand /\ UNCHANGED <<appliance, done>>
        /\ IF Effective THEN Event ELSE UNCHANGED events
  /\ UNCHANGED <<homey, device, job>>

\* The optimistic apply, on the dict of this moment; the tile shows what was
\* sent, as it reads back.
Returns ==
  /\ command.step = "sent"
  /\ resources' = Written(resources)
  /\ LET c == command.ask[1]  value == Reads(command.spec, Written(resources)) IN
       shown' = IF c \notin have THEN shown
                ELSE [shown EXCEPT ![c] = IF value = None THEN command.ask[2] ELSE value]
  /\ command' = NoCommand
  /\ UNCHANGED <<appliance, events, have, heard, resolved, applied, previous, told, settling,
                 job, done>>

\* The app is killed and starts again: on_init.
Restarts ==
  /\ Event
  /\ resolved' = FALSE /\ resources' = <<>> /\ heard' = have
  /\ applied' = [c \in Declared |-> None]
  /\ previous' = [c \in Subs |-> None] /\ told' = previous'
  /\ job' = [r \in Coroutines |-> Idle]
  /\ flight' = {} /\ settling' = {} /\ command' = NoCommand
  /\ UNCHANGED <<actual, have, shown, done>>

Carries(r) == AppliesNext(r) \/ FiresNext(r) \/ Ends(r)
Syncs(r) == Read(r) \/ Resolved(r) \/ Adds(r) \/ Removes(r) \/ Listens(r) \/ Options(r) \/ Sets(r) \/ Settled(r)

Next ==
  \/ Operated \/ Commanded \/ Answered \/ Returns \/ Restarts
  \/ \E r \in Readers : Syncs(r)
  \/ \E t \in Tasks : Begins(t)
  \/ \E r \in Coroutines : Carries(r) \/ Fails(r)
  \/ \E n \in flight : Notified(n)
  \/ \E h \in settling : GuardEnds(h)

Spec == Init /\ [][Next]_vars

\* The loop goes on polling, and it and the tasks are resumed after every await;
\* a command is answered or times out.  No card is owed anything, and no
\* notification need arrive.  A phase that ends has a step that can always be
\* taken, so that none lasts for ever is weak fairness of the steps.
Phases == {"idle", "resolving", "syncing", "language", "setting", "created", "applying", "firing"}
FairSpec ==
  /\ Spec
  /\ \A p \in Phases : []<>(job[Poll].phase # p)
  /\ \A t \in Tasks : \A p \in Phases \ {"idle"} : []<>(job[t].phase # p)
  /\ []<>(command.step = "none")

-----------------------------------------------------------------------------
(* What holds. *)

\* A sync asks for no capability that it would also remove, whatever else adds
\* and removes meanwhile, and only one that fires has a spec and a value to fire
\* (_sync_capabilities, _apply).
TypeOK ==
  /\ events \in 0..MaxEvents /\ resolved \in BOOLEAN
  /\ have \subseteq Declared /\ heard \subseteq have
  /\ DOMAIN shown = Declared /\ DOMAIN applied = Declared
  /\ DOMAIN previous = Subs /\ DOMAIN told = Subs
  /\ \A r \in Coroutines :
       /\ job[r].phase \in Phases
       /\ job[r].adds \subseteq job[r].new /\ job[r].new \subseteq Declared
       /\ job[r].gone \cap job[r].new = {}
       /\ (job[r].phase = "firing") <=> (job[r].value # None)
       /\ job[r].phase = "firing" => job[r].at \in DOMAIN Specs

\* A capability that Homey shows has a listener as soon as nobody synchronises,
\* whichever of two readers added it, removed it or failed in between: no
\* control accepts a value that goes nowhere (_sync_capabilities, on_init).
EveryControlAnswers ==
  (\A r \in Readers : job[r].phase # "syncing") => have \subseteq heard

\* What a list knows of: its entries with their fields, its tokens.
KnownOf(list, e) == {KeyOf(list, e)} \X (IF list = "items" THEN DOMAIN e ELSE {"token"})
Known(list, entries) == UNION {KnownOf(list, entries[i]) : i \in DOMAIN entries}

\* In this step a cached list is kept, or replaced by one the appliance has sent.
KeepsOrIsTold(h, list) ==
  LET now == Rep(resources', h) IN
  /\ list \in DOMAIN now
  /\ \/ Known(list, resources[h][list]) \subseteq Known(list, now[list])
     \/ \E n \in flight \ flight' :
          n[1] = h /\ list \in DOMAIN n[2] /\ now[list] = n[2][list]

\* Between two full reads the cache forgets no entry of a list, no field of one
\* and no token, whatever is written: a slider keeps its range and a capability
\* that hangs on a token stays (_fold_write_into).  What does go is what the
\* appliance has left out of that very list, in a notification that is taken
\* (_on_notification).
NothingForgotten ==
  [][\/ (\E r \in Readers : Read(r)) \/ Restarts
     \/ \A h \in DOMAIN resources \ {Alarms} :
          \A list \in Lists \cap DOMAIN resources[h] : KeepsOrIsTold(h, list)]_vars

\* What the appliance accepted is what was asked for, to half a step, even when
\* it is told in tokens that mean the opposite, in codes or in steps of its own
\* (the writers, Spec.read after _fold_write_into).
AskedIsDone ==
  done # None /\ done[1] \in Wanted(actual) =>
    LET s == SpecFor(done[1], actual) IN Meets(s, Reads(s, actual), done[2], Rep(actual, s.href))

\* Once the appliance stands still, the device has the capabilities it supports,
\* no others, with their ranges and their values, whatever failed on the way and
\* whichever older dict was applied last (_read_and_apply).
FollowsTheSurface ==
  <>[](/\ have = Wanted(actual)
       /\ LET wants == OptionsOf(actual) IN \A c \in DOMAIN wants : applied[c] = wants[c]
       /\ \A i \in Applying(actual) : LET v == Reads(Specs[i], actual) IN
            v # None => shown[Specs[i].capability] = v)

\* What the device is to be like with an appliance that reports `dump`.
Goal(dump) ==
  LET wanted == Wanted(dump)
      shows == {s \in ToSet(Specs) : s.capability \in wanted /\ Rep(dump, s.href) # <<>>}
  IN  [dump |-> dump, capabilities |-> wanted, options |-> OptionsOf(dump),
       values |-> {v \in {<<s.capability, Reads(s, dump)>> : s \in shows} : v[2] # None}]

\* It is like that, and nothing under way would take it elsewhere: no push, no
\* answer, no replaced dict, and of the syncs only what another has done already.
Agrees(goal) ==
  /\ resources = goal.dump /\ have = goal.capabilities
  /\ \A v \in goal.values : shown[v[1]] = v[2]
  /\ \A c \in DOMAIN goal.options : applied[c] = goal.options[c]
  /\ \A n \in flight : Pushed(goal.dump, n[1], n[2]) = goal.dump
  /\ command.step # "sent"
  /\ \A r \in Coroutines :
       /\ job[r].adds \subseteq have /\ job[r].gone \cap have = {}
       /\ \A c \in DOMAIN goal.options \cap DOMAIN job[r].sets :
            job[r].sets[c] = goal.options[c]
       /\ job[r].dict \in {Live, goal.dump}

\* A device that agrees with its appliance goes on so until the appliance changes
\* or the app starts again: no poll, card, push, needless or refused command, SDK
\* call that raises or end of a guard takes a tile, a range or a capability away
\* from what is reported (_read_and_apply, _on_notification, _write).
AgreementLasts ==
  [][resolved /\ resources = actual /\ UNCHANGED <<actual, resolved>> =>
       \A goal \in {Goal(actual)} : Agrees(goal) => Agrees(goal)']_vars

\* Flows on a sub-capability end up having been told of the value the tile
\* shows, in whatever order pushes and polls fired before (_maybe_trigger).
FlowsCatchUp == <>[](\A c \in Subs \cap have : shown[c] # None => told[c] = shown[c])

\* shared.py says of the alarm reader: "Every alarm the device still considers
\* active, or 'none'."  Refuted: the representation without alarms is empty, and
\* _apply passes over it, so the tile keeps the alarm that was cleared.
AlarmsAreCurrent ==
  (/\ \A r \in Coroutines : job[r] = Idle
   /\ Alarms \in DOMAIN resources /\ resources[Alarms] = <<>> /\ "alarm_code" \in have)
    => shown["alarm_code"] \in {None, <<>>}
=============================================================================
