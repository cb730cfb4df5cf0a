---------------------------- MODULE Credentials ----------------------------
(***************************************************************************)
(* The app's client certificate: lib/credentials.py and its three app      *)
(* settings, the job that issues one on first run (app.py), the settings   *)
(* page's requests (api.py), and the devices that hand the pair to their   *)
(* sessions (lib/appliance/device.py).                                     *)
(*                                                                         *)
(* Each read and each write of a setting is an await, so requests, loading *)
(* devices and moves interleave between any two.  A pair is an identity    *)
(* shared by its two halves; inspect_leaf accepts halves that share it.    *)
(* Every request the user may send is in Pages; the app can be killed at   *)
(* any step.                                                               *)
(***************************************************************************)
EXTENDS Integers

CONSTANTS
  Pairs,     \* certificates with their keys, pasted or issued
  Current,   \* the pairs that carry the UUID appliances expect
  Startup,   \* the job of on_init
  Pages,     \* requests the settings page has under way
  Devices,
  Empty,     \* a setting that is not set
  MaxFaults  \* bound: reads and writes of settings that go wrong

Jobs == Pages \cup {Startup}
Names == {"cert", "key", "source"}
Halves == Pairs \cup {Empty}
TwoHalves == [cert : Halves, key : Halves]
Blank == [cert |-> Empty, key |-> Empty]
Minted == "minted"
Pasted == "pasted"
Saves == [pair : Halves, source : {Empty, Minted, Pasted}]
NoSave == [pair |-> Empty, source |-> Empty]

ASSUME PairsAssumption ==
  Current \subseteq Pairs /\ Empty \notin Pairs \cup {Minted, Pasted} /\ Startup \notin Pages
ASSUME FaultsAssumption == MaxFaults \in Nat

VARIABLES
  settings,   \* what Homey stores for the app
  at,         \* the await each job is suspended in, or how it ended
  task,       \* what it saves and has read, and how it has fared
  life,       \* on_init of each device, then its poll loop
  using,      \* the pair its session was built with
  up,         \* that session has completed a handshake
  moving,     \* its move_to has read the certificate and not yet the key
  hand,       \* that certificate
  faults,
  misread,    \* history: a settings read has failed since the app started
  owed        \* history: the last save that went well and alone

jobVars == <<at, task>>
deviceVars == <<life, using, up, moving, hand>>
vars == <<settings, jobVars, deviceVars, faults, misread, owed>>

Resting == {"idle", "ok"}   \* "ok": its last request was a save that succeeded
Steps ==
  Resting \cup Names \cup {"stored cert", "stored key", "gateway", "inspect",
                           "confirm cert", "confirm key"}

\* alone: no other job has been under way since it began; fresh: nothing was
\* stored then; faulted: one of its writes stored nothing (all three: history).
Tasks == [kind : {"issue", "paste", "clear"}, cert : Halves, key : Halves,
          seen : Halves, alone : BOOLEAN, fresh : BOOLEAN, faulted : BOOLEAN]
NoTask == [kind |-> "issue", cert |-> Empty, key |-> Empty, seen |-> Empty,
           alone |-> TRUE, fresh |-> FALSE, faulted |-> FALSE]

TypeOK ==
  /\ settings \in [cert : Halves, key : Halves, source : {Empty, Minted, Pasted}]
  /\ at \in [Jobs -> Steps] /\ task \in [Jobs -> Tasks]
  /\ life \in [Devices -> {"off", "loading", "running"}]
  /\ using \in [Devices -> TwoHalves] /\ up \in [Devices -> BOOLEAN]
  /\ moving \in [Devices -> BOOLEAN] /\ hand \in [Devices -> Halves]
  /\ faults \in 0..MaxFaults /\ misread \in BOOLEAN
  /\ owed \in Saves

\* The app starts: its own job is under way, every device is still to come.
AtStart == [j \in Jobs |-> IF j = Startup THEN "stored cert" ELSE "idle"]
NothingStored == settings["cert"] = Empty /\ settings["key"] = Empty
TasksAtStart == [j \in Jobs |-> [NoTask EXCEPT !.fresh = j = Startup /\ NothingStored]]
DevicesAre(x) == [d \in Devices |-> x]

\* Nothing stored yet, or a pair from before the source was recorded.
Init ==
  /\ settings \in {[cert |-> p, key |-> p, source |-> Empty] : p \in Halves}
  /\ at = AtStart /\ task = TasksAtStart
  /\ life = DevicesAre("off") /\ using = DevicesAre(Blank) /\ up = DevicesAre(FALSE)
  /\ moving = DevicesAre(FALSE) /\ hand = DevicesAre(Empty)
  /\ faults = 0 /\ misread = FALSE /\ owed = NoSave

\* The app is killed, updated or crashes, and starts again.
Restart ==
  /\ at' = AtStart /\ task' = TasksAtStart
  /\ life' = DevicesAre("off") /\ using' = DevicesAre(Blank) /\ up' = DevicesAre(FALSE)
  /\ moving' = DevicesAre(FALSE) /\ hand' = DevicesAre(Empty)
  /\ misread' = FALSE
  /\ UNCHANGED <<settings, faults, owed>>

Fault == faults < MaxFaults /\ faults' = faults + 1

\* compat.setting_get: a read that raises gives "".
Reads(name, value) ==
  \/ value = settings[name] /\ UNCHANGED <<faults, misread>>
  \/ value = Empty /\ misread' = TRUE /\ Fault

-----------------------------------------------------------------------------
(* The settings page and the startup job. *)

Go(j, step) == at' = [at EXCEPT ![j] = step] /\ UNCHANGED task
Ends(j, how) == at' = [at EXCEPT ![j] = how] /\ task' = [task EXCEPT ![j] = NoTask]

Idle(j) == at[j] \in Resting

\* api.py: a request begins; blank fields never get this far.
Begins(j, step, kind, c, k) ==
  /\ j \in Pages /\ Idle(j)
  /\ at' = [at EXCEPT ![j] = step]
  /\ task' = [i \in Jobs |->
       IF i = j
       THEN [kind |-> kind, cert |-> c, key |-> k, seen |-> Empty, faulted |-> FALSE,
             alone |-> \A o \in Jobs \ {j} : Idle(o), fresh |-> NothingStored]
       ELSE [task[i] EXCEPT !.alone = @ /\ Idle(i)]]
  /\ UNCHANGED <<settings, deviceVars, faults, misread>>

Paste(j) == (\E c, k \in Pairs : Begins(j, "inspect", "paste", c, k)) /\ UNCHANGED owed
Mint(j) == Begins(j, "gateway", "issue", Empty, Empty) /\ UNCHANGED owed
Clear(j) == Begins(j, "cert", "clear", Empty, Empty) /\ owed' = NoSave

StoredReadsCert ==
  /\ at[Startup] = "stored cert"
  /\ at' = [at EXCEPT ![Startup] = "stored key"]
  /\ \E v \in Halves : Reads("cert", v) /\ task' = [task EXCEPT ![Startup] = [@ EXCEPT !.seen = v]]
  /\ UNCHANGED <<settings, deviceVars, owed>>

\* credentials.stored: both halves or neither; the mutant does not ask.
MayIssueAlways(c, k) == TRUE
MayIssue(c, k) == c = Empty \/ k = Empty

StoredReadsKey ==
  /\ at[Startup] = "stored key"
  /\ \E v \in Halves :
       /\ Reads("key", v)
       /\ IF MayIssue(task[Startup].seen, v) THEN Go(Startup, "gateway")
          ELSE Ends(Startup, "idle")
  /\ UNCHANGED <<settings, deviceVars, owed>>

\* A certificate is issued with a key of its own: identities nobody holds.
InUse ==
  {settings["cert"], settings["key"]}
    \cup UNION {{task[j].cert, task[j].key} : j \in Jobs}
    \cup UNION {{using[d].cert, using[d].key, hand[d]} : d \in Devices}

\* fetch_samsung_uuid answers, or nothing is reachable.
Issues(j) ==
  /\ at[j] = "gateway"
  /\ at' = [at EXCEPT ![j] = "inspect"]
  /\ \E p \in Current \ InUse : task' = [task EXCEPT ![j] = [@ EXCEPT !.cert = p, !.key = p]]
  /\ UNCHANGED <<settings, deviceVars, faults, misread, owed>>

Unreachable(j) ==
  /\ at[j] = "gateway"
  /\ Ends(j, "idle")
  /\ UNCHANGED <<settings, deviceVars, faults, misread, owed>>

\* inspect_leaf, in an executor.  From here the save replaces what was promised
\* before, unless it is a startup job that had no reason to issue.
Usable(halves) == halves.cert = halves.key

Inspects(j) ==
  /\ at[j] = "inspect"
  /\ IF Usable(task[j])
     THEN /\ Go(j, "cert")
          /\ owed' = IF j # Startup \/ misread THEN NoSave ELSE owed
     ELSE Ends(j, "idle") /\ UNCHANGED owed
  /\ UNCHANGED <<settings, deviceVars, faults, misread>>

\* setting_set and setting_unset, in the order of save and clear; a write the
\* build does not await stores nothing.
ToWrite(j, name) ==
  IF task[j].kind = "clear" THEN Empty
  ELSE IF name = "source" THEN IF task[j].kind = "paste" THEN Pasted ELSE Minted
  ELSE task[j][name]

Following(name) ==
  CASE name = "cert" -> "key" [] name = "key" -> "source" [] name = "source" -> "confirm cert"

Writes(j) ==
  LET name == at[j] IN
  /\ name \in Names
  /\ \E stored \in BOOLEAN :
       /\ IF stored THEN UNCHANGED faults ELSE Fault
       /\ settings' = IF stored THEN [settings EXCEPT ![name] = ToWrite(j, name)] ELSE settings
       /\ IF task[j].kind = "clear" /\ name = "source" THEN Ends(j, "idle")
          ELSE /\ at' = [at EXCEPT ![j] = Following(name)]
               /\ task' = [task EXCEPT ![j] = [@ EXCEPT !.faulted = task[j].faulted \/ ~stored]]
  /\ UNCHANGED <<deviceVars, misread, owed>>

WriteRaises(j) ==
  /\ at[j] \in Names /\ Fault
  /\ Ends(j, "idle")
  /\ UNCHANGED <<settings, deviceVars, misread, owed>>

ConfirmsCert(j) ==
  /\ at[j] = "confirm cert"
  /\ at' = [at EXCEPT ![j] = "confirm key"]
  /\ \E v \in Halves : Reads("cert", v) /\ task' = [task EXCEPT ![j] = [@ EXCEPT !.seen = v]]
  /\ UNCHANGED <<settings, deviceVars, owed>>

\* The read-back; the mutant is content with the certificate.
PersistedCert(c, k) == c # Empty
Persisted(c, k) == c # Empty /\ k # Empty

ConfirmsKey(j) ==
  /\ at[j] = "confirm key"
  /\ \E v \in Halves :
       /\ Reads("key", v)
       /\ IF Persisted(task[j].seen, v)
          THEN /\ Ends(j, "ok")
               /\ owed' = IF task[j].alone /\ ~task[j].faulted
                          THEN [pair |-> task[j].cert, source |-> ToWrite(j, "source")]
                          ELSE owed
          ELSE Ends(j, "idle") /\ UNCHANGED owed
  /\ UNCHANGED <<settings, deviceVars>>

-----------------------------------------------------------------------------
(* Devices. *)

OnlyDevices == UNCHANGED <<settings, jobVars, owed>>

\* on_init builds the session from two reads.
LoadsCert(d) ==
  /\ life[d] = "off"
  /\ \E v \in Halves : Reads("cert", v) /\ using' = [using EXCEPT ![d].cert = v]
  /\ life' = [life EXCEPT ![d] = "loading"]
  /\ UNCHANGED <<up, moving, hand>> /\ OnlyDevices

LoadsKey(d) ==
  /\ life[d] = "loading"
  /\ \E v \in Halves : Reads("key", v) /\ using' = [using EXCEPT ![d].key = v]
  /\ life' = [life EXCEPT ![d] = "running"]
  /\ UNCHANGED <<up, moving, hand>> /\ OnlyDevices

Accepted(halves) == halves.cert = halves.key /\ halves.cert \in Current

\* _read_and_apply asks the settings only whether there is a certificate; the
\* handshake is made with the session's own pair.
Connects(d) ==
  /\ life[d] = "running" /\ ~up[d]
  /\ settings["cert"] # Empty /\ Accepted(using[d])
  /\ up' = [up EXCEPT ![d] = TRUE]
  /\ UNCHANGED <<life, using, moving, hand, faults, misread>> /\ OnlyDevices

\* A poll that fails, for whatever reason, drops the session and is followed by
\* another.
AfterFailure(d) == UNCHANGED life

PollFails(d) ==
  /\ life[d] = "running"
  /\ up' = [up EXCEPT ![d] = FALSE]
  /\ AfterFailure(d)
  /\ UNCHANGED <<using, moving, hand, faults, misread>> /\ OnlyDevices

\* Repair or _relocate has probed the appliance with the stored pair, and
\* move_to reads it again.
MoveReadsCert(d) ==
  /\ life[d] = "running" /\ ~moving[d]
  /\ Accepted([cert |-> settings["cert"], key |-> settings["key"]])
  /\ \E v \in Halves : Reads("cert", v) /\ hand' = [hand EXCEPT ![d] = v]
  /\ moving' = [moving EXCEPT ![d] = TRUE]
  /\ UNCHANGED <<life, using, up>> /\ OnlyDevices

\* With both halves the old session is closed and another one built.
MoveReadsKey(d) ==
  /\ moving[d]
  /\ \E v \in Halves :
       /\ Reads("key", v)
       /\ IF hand[d] = Empty \/ v = Empty THEN UNCHANGED <<using, up>>
          ELSE /\ using' = [using EXCEPT ![d] = [cert |-> hand[d], key |-> v]]
               /\ up' = [up EXCEPT ![d] = FALSE]
  /\ moving' = [moving EXCEPT ![d] = FALSE] /\ hand' = [hand EXCEPT ![d] = Empty]
  /\ UNCHANGED life /\ OnlyDevices

Request(j) == Paste(j) \/ Mint(j) \/ Clear(j)

Job(j) ==
  \/ Issues(j) \/ Unreachable(j) \/ Inspects(j) \/ Writes(j) \/ WriteRaises(j)
  \/ ConfirmsCert(j) \/ ConfirmsKey(j)

Device(d) ==
  \/ LoadsCert(d) \/ LoadsKey(d) \/ Connects(d) \/ PollFails(d)
  \/ MoveReadsCert(d) \/ MoveReadsKey(d)

Next ==
  \/ StoredReadsCert \/ StoredReadsKey \/ Restart
  \/ (\E j \in Jobs : Request(j) \/ Job(j)) \/ (\E d \in Devices : Device(d))

Spec == Init /\ [][Next]_vars

\* The event loop resumes every job, on_init and move; the poll loop goes on, and
\* an appliance that would accept the session's pair is reached in the end.
FairSpec ==
  /\ Spec
  /\ WF_vars(StoredReadsCert \/ StoredReadsKey) /\ \A j \in Jobs : WF_vars(Job(j))
  /\ \A d \in Devices :
       WF_vars(LoadsCert(d) \/ LoadsKey(d)) /\ WF_vars(MoveReadsKey(d)) /\ SF_vars(Connects(d))

-----------------------------------------------------------------------------
(* What holds. *)

\* What the user or the first run saved stays whole and labelled until somebody
\* asks for another: restarts, startup jobs, rejected pastes and devices leave
\* it alone (credentials.save, app.py _ensure_credentials).  Out of its reach are
\* saves that overlap, and a startup job that could not read the settings.
SavedPairSurvives ==
  owed # NoSave => settings = [cert |-> owed.pair, key |-> owed.pair, source |-> owed.source]

\* A first save that reports success has stored the very pair, even in a Homey
\* whose settings silently store nothing (credentials.save, the read-back).
FirstSaveIsConfirmed ==
  [][\A j \in Jobs :
       (at[j] = "confirm key" /\ at'[j] = "ok" /\ task[j].alone /\ task[j].fresh)
       => settings'["cert"] = task[j].cert /\ settings'["key"] = task[j].key]_vars

(* What the documents say and the code does not do. *)

\* const.py, STORE_HOST: "the device reads the app-level certificate at runtime,
\* so rotating it fixes every device at once instead of needing each one
\* re-paired"; api.py and device.py say the same.
StoredWell == owed.pair \in Current /\ ~misread
RotationFixesEveryDevice ==
  \A d \in Devices : <>[](StoredWell /\ life[d] = "running") => []<>up[d]
=============================================================================
