------------------------- MODULE CredentialsProofs -------------------------
(***************************************************************************)
(* Proofs about Credentials, for any number of requests, devices, pairs    *)
(* and faults: every variable keeps its type, a save that went well stays  *)
(* whole, and a first save that reports success has been stored.           *)
(***************************************************************************)
EXTENDS Credentials, TLAPS

-----------------------------------------------------------------------------
(* Type correctness. *)

\* A task stays a task when one of its parts changes.
LEMMA TaskUpdate ==
  ASSUME NEW t \in Tasks
  PROVE  /\ \A v \in Halves : [t EXCEPT !.seen = v] \in Tasks
         /\ \A v \in Halves : [t EXCEPT !.cert = v, !.key = v] \in Tasks
         /\ \A b \in BOOLEAN : [t EXCEPT !.alone = b] \in Tasks
         /\ \A b \in BOOLEAN : [t EXCEPT !.faulted = b] \in Tasks
         /\ \A b \in BOOLEAN : [t EXCEPT !.fresh = b] \in Tasks
BY DEF Tasks

\* A job that has ended, and a job that starts with the app, hold a task.
LEMMA TaskAtRest == NoTask \in Tasks /\ TasksAtStart \in [Jobs -> Tasks]
<1>1. NoTask \in Tasks
  BY DEF NoTask, Tasks, Halves
<1>2. \A b \in BOOLEAN : [NoTask EXCEPT !.fresh = b] \in Tasks
  BY <1>1, TaskUpdate
<1>3. \A j \in Jobs : (j = Startup /\ NothingStored) \in BOOLEAN
  OBVIOUS
<1> QED
  BY <1>1, <1>2, <1>3 DEF TasksAtStart

\* Nothing owed is a state of the promise like any other.
LEMMA NothingOwed == NoSave \in Saves
BY DEF NoSave, Saves, Halves

\* What a read returns is a half, and it costs at most one fault.
LEMMA ReadsKeepTypes ==
  ASSUME TypeOK, NEW name \in {"cert", "key"}, NEW v \in Halves, Reads(name, v)
  PROVE  faults' \in 0..MaxFaults /\ misread' \in BOOLEAN
<1>1. faults' \in 0..MaxFaults
  BY FaultsAssumption DEF Reads, Fault, TypeOK
<1>2. misread' = misread \/ misread' = TRUE
  BY DEF Reads
<1> QED
  BY <1>1, <1>2 DEF TypeOK

\* The two ways a job's step ends.
LEMMA GoKeepsTypes ==
  ASSUME TypeOK, NEW j \in Jobs, NEW step \in Steps, Go(j, step) \/ Ends(j, step)
  PROVE  at' \in [Jobs -> Steps] /\ task' \in [Jobs -> Tasks]
<1>1. CASE Go(j, step)
  BY <1>1 DEF Go, TypeOK
<1>2. CASE Ends(j, step)
  BY <1>2, TaskAtRest DEF Ends, TypeOK
<1> QED
  BY <1>1, <1>2

\* A request that begins leaves every job with a task.
LEMMA BeginsKeepsTypes ==
  ASSUME TypeOK, NEW j \in Jobs, NEW step \in Steps, NEW kind \in {"issue", "paste", "clear"},
         NEW c \in Halves, NEW k \in Halves, Begins(j, step, kind, c, k)
  PROVE  at' \in [Jobs -> Steps] /\ task' \in [Jobs -> Tasks]
<1>1. at' \in [Jobs -> Steps]
  BY DEF Begins, TypeOK
<1>2. ASSUME NEW i \in Jobs
      PROVE  task'[i] \in Tasks
  <2>1. CASE i = j
    <3> DEFINE own == \A o \in Jobs \ {j} : Idle(o)
    <3>1. own \in BOOLEAN /\ NothingStored \in BOOLEAN /\ Empty \in Halves
      BY DEF Halves, NothingStored
    <3>2. task'[i] = [kind |-> kind, cert |-> c, key |-> k, seen |-> Empty,
                      faulted |-> FALSE, alone |-> own, fresh |-> NothingStored]
      BY <1>2, <2>1 DEF Begins
    <3> HIDE DEF own
    <3> QED
      BY <3>1, <3>2 DEF Tasks
  <2>2. CASE i # j
    <3>1. task[i] \in Tasks /\ (task[i].alone /\ Idle(i)) \in BOOLEAN
      BY DEF TypeOK
    <3>2. task'[i] = [task[i] EXCEPT !.alone = task[i].alone /\ Idle(i)]
      BY <1>2, <2>2 DEF Begins
    <3> QED
      BY <3>1, <3>2, TaskUpdate
  <2> QED
    BY <2>1, <2>2
<1>3. DOMAIN task' = Jobs /\ task' = [i \in Jobs |-> task'[i]]
  BY DEF Begins
<1> QED
  BY <1>1, <1>2, <1>3

\* Every initial state is well typed.
LEMMA TypeInit == Init => TypeOK
<1> SUFFICES ASSUME Init PROVE TypeOK
  OBVIOUS
<1>1. settings \in [cert : Halves, key : Halves, source : {Empty, Minted, Pasted}]
  BY DEF Init, Halves
<1>2. at \in [Jobs -> Steps] /\ task \in [Jobs -> Tasks]
  BY TaskAtRest DEF Init, AtStart, Steps, Resting
<1>3. /\ life \in [Devices -> {"off", "loading", "running"}]
      /\ using \in [Devices -> TwoHalves] /\ hand \in [Devices -> Halves]
  BY DEF Init, DevicesAre, TwoHalves, Blank, Halves
<1>4. up \in [Devices -> BOOLEAN] /\ moving \in [Devices -> BOOLEAN] /\ misread \in BOOLEAN
  BY DEF Init, DevicesAre
<1>5. faults \in 0..MaxFaults
  BY FaultsAssumption DEF Init
<1>6. owed \in Saves
  BY NothingOwed DEF Init
<1> QED
  BY <1>1, <1>2, <1>3, <1>4, <1>5, <1>6 DEF TypeOK

\* A device's step changes nothing a job can see but the record of a misread.
LEMMA DeviceKeepsTypes ==
  ASSUME TypeOK, NEW d \in Devices, Device(d)
  PROVE  TypeOK'
<1>1. settings' = settings /\ at' = at /\ task' = task /\ owed' = owed
  BY DEF Device, LoadsCert, LoadsKey, Connects, PollFails, MoveReadsCert, MoveReadsKey,
         OnlyDevices, jobVars
<1>2. /\ life' \in [Devices -> {"off", "loading", "running"}]
      /\ hand' \in [Devices -> Halves]
  BY DEF Device, LoadsCert, LoadsKey, Connects, PollFails, AfterFailure, MoveReadsCert,
         MoveReadsKey, TypeOK, Halves
<1>3. using' \in [Devices -> TwoHalves]
  BY DEF Device, LoadsCert, LoadsKey, Connects, PollFails, MoveReadsCert, MoveReadsKey,
         TypeOK, TwoHalves
<1>4. up' \in [Devices -> BOOLEAN] /\ moving' \in [Devices -> BOOLEAN]
  <2>1. up' = up \/ up' = [up EXCEPT ![d] = TRUE] \/ up' = [up EXCEPT ![d] = FALSE]
    BY DEF Device, LoadsCert, LoadsKey, Connects, PollFails, MoveReadsCert, MoveReadsKey
  <2>2. moving' = moving \/ moving' = [moving EXCEPT ![d] = TRUE]
        \/ moving' = [moving EXCEPT ![d] = FALSE]
    BY DEF Device, LoadsCert, LoadsKey, Connects, PollFails, MoveReadsCert, MoveReadsKey
  <2> QED
    BY <2>1, <2>2 DEF TypeOK
<1>5. faults' \in 0..MaxFaults /\ misread' \in BOOLEAN
  <2>1. CASE Connects(d) \/ PollFails(d)
    BY <2>1 DEF Connects, PollFails, TypeOK
  <2>2. CASE LoadsCert(d) \/ LoadsKey(d) \/ MoveReadsCert(d) \/ MoveReadsKey(d)
    <3>1. \E v \in Halves : Reads("cert", v) \/ Reads("key", v)
      BY <2>2 DEF LoadsCert, LoadsKey, MoveReadsCert, MoveReadsKey
    <3> QED
      BY <3>1, ReadsKeepTypes
  <2> QED
    BY <2>1, <2>2 DEF Device
<1> QED
  BY <1>1, <1>2, <1>3, <1>4, <1>5 DEF TypeOK

\* Every step keeps the state well typed, one case per kind of action.
LEMMA TypeStep == TypeOK /\ [Next]_vars => TypeOK'
<1> SUFFICES ASSUME TypeOK, [Next]_vars PROVE TypeOK'
  OBVIOUS
<1> USE DEF Steps, Resting, Names
<1>1. ASSUME NEW d \in Devices, Device(d) PROVE TypeOK'
  BY <1>1, DeviceKeepsTypes
<1>2. CASE Restart
  <2>1. at' \in [Jobs -> Steps] /\ task' \in [Jobs -> Tasks]
    BY <1>2, TaskAtRest DEF Restart, AtStart
  <2>2. /\ life' \in [Devices -> {"off", "loading", "running"}]
        /\ using' \in [Devices -> TwoHalves] /\ hand' \in [Devices -> Halves]
    BY <1>2 DEF Restart, DevicesAre, TwoHalves, Blank, Halves
  <2>3. up' \in [Devices -> BOOLEAN] /\ moving' \in [Devices -> BOOLEAN] /\ misread' \in BOOLEAN
    BY <1>2 DEF Restart, DevicesAre
  <2> QED
    BY <1>2, <2>1, <2>2, <2>3 DEF Restart, TypeOK
<1>3. ASSUME NEW j \in Jobs, Request(j) PROVE TypeOK'
  <2>1. PICK step \in {"inspect", "gateway", "cert"}, kind \in {"issue", "paste", "clear"},
             c \in Halves, k \in Halves : Begins(j, step, kind, c, k)
    BY <1>3 DEF Request, Paste, Mint, Clear, Halves
  <2>2. at' \in [Jobs -> Steps] /\ task' \in [Jobs -> Tasks]
    BY <2>1, BeginsKeepsTypes
  <2>3. owed' = owed \/ owed' = NoSave
    BY <1>3 DEF Request, Paste, Mint, Clear
  <2>4. owed' \in Saves
    BY <2>3, NothingOwed DEF TypeOK
  <2>5. UNCHANGED <<settings, life, using, up, moving, hand, faults, misread>>
    BY <2>1 DEF Begins, deviceVars
  <2> QED
    BY <2>2, <2>4, <2>5 DEF TypeOK
<1>4. CASE StoredReadsCert
  <2>1. PICK v \in Halves : Reads("cert", v) /\
             task' = [task EXCEPT ![Startup] = [@ EXCEPT !.seen = v]]
    BY <1>4 DEF StoredReadsCert
  <2>2. Startup \in Jobs
    BY DEF Jobs
  <2>3. [task[Startup] EXCEPT !.seen = v] \in Tasks
    BY <2>2, TaskUpdate DEF TypeOK
  <2>4. task' \in [Jobs -> Tasks] /\ at' \in [Jobs -> Steps]
    BY <1>4, <2>1, <2>3 DEF StoredReadsCert, TypeOK
  <2>5. faults' \in 0..MaxFaults /\ misread' \in BOOLEAN
    BY <2>1, ReadsKeepTypes
  <2> QED
    BY <1>4, <2>4, <2>5 DEF StoredReadsCert, deviceVars, TypeOK
<1>5. CASE StoredReadsKey
  <2>1. PICK v \in Halves : Reads("key", v) /\ (Go(Startup, "gateway") \/ Ends(Startup, "idle"))
    BY <1>5 DEF StoredReadsKey
  <2>2. at' \in [Jobs -> Steps] /\ task' \in [Jobs -> Tasks]
    BY <2>1, GoKeepsTypes DEF Jobs
  <2>3. faults' \in 0..MaxFaults /\ misread' \in BOOLEAN
    BY <2>1, ReadsKeepTypes
  <2> QED
    BY <1>5, <2>2, <2>3 DEF StoredReadsKey, deviceVars, TypeOK
<1>6. ASSUME NEW j \in Jobs, Issues(j) PROVE TypeOK'
  <2>1. PICK p \in Current : task' = [task EXCEPT ![j] = [@ EXCEPT !.cert = p, !.key = p]]
    BY <1>6 DEF Issues
  <2>2. p \in Halves /\ [task[j] EXCEPT !.cert = p, !.key = p] \in Tasks
    BY PairsAssumption, TaskUpdate DEF Halves, TypeOK
  <2>3. task' \in [Jobs -> Tasks] /\ at' \in [Jobs -> Steps]
    BY <1>6, <2>1, <2>2 DEF Issues, TypeOK
  <2> QED
    BY <1>6, <2>3 DEF Issues, deviceVars, TypeOK
<1>7. ASSUME NEW j \in Jobs, Unreachable(j) \/ WriteRaises(j) PROVE TypeOK'
  <2>1. at' \in [Jobs -> Steps] /\ task' \in [Jobs -> Tasks]
    BY <1>7, GoKeepsTypes DEF Unreachable, WriteRaises
  <2>2. faults' \in 0..MaxFaults
    <3>1. faults \in 0..MaxFaults /\ MaxFaults \in Nat
      BY FaultsAssumption DEF TypeOK
    <3>2. UNCHANGED faults \/ Fault
      BY <1>7 DEF Unreachable, WriteRaises
    <3> QED
      BY <3>1, <3>2 DEF Fault
  <2> QED
    BY <1>7, <2>1, <2>2 DEF Unreachable, WriteRaises, deviceVars, TypeOK
<1>8. ASSUME NEW j \in Jobs, Inspects(j) PROVE TypeOK'
  <2>1. at' \in [Jobs -> Steps] /\ task' \in [Jobs -> Tasks]
    BY <1>8, GoKeepsTypes DEF Inspects
  <2>2. owed' \in Saves
    <3>1. owed' = owed \/ owed' = NoSave
      BY <1>8 DEF Inspects
    <3> QED
      BY <3>1, NothingOwed DEF TypeOK
  <2> QED
    BY <1>8, <2>1, <2>2 DEF Inspects, deviceVars, TypeOK
<1>9. ASSUME NEW j \in Jobs, Writes(j) PROVE TypeOK'
  <2>1. PICK stored \in BOOLEAN :
          /\ UNCHANGED faults \/ Fault
          /\ settings' = IF stored THEN [settings EXCEPT ![at[j]] = ToWrite(j, at[j])] ELSE settings
          /\ IF task[j].kind = "clear" /\ at[j] = "source" THEN Ends(j, "idle")
             ELSE /\ at' = [at EXCEPT ![j] = Following(at[j])]
                  /\ task' = [task EXCEPT ![j] = [@ EXCEPT !.faulted = task[j].faulted \/ ~stored]]
    BY <1>9 DEF Writes
  <2>2. at[j] \in {"cert", "key", "source"} /\ UNCHANGED <<life, using, up, moving, hand, misread, owed>>
    BY <1>9 DEF Writes, deviceVars
  <2>3. faults' \in 0..MaxFaults
    <3>1. faults \in 0..MaxFaults /\ MaxFaults \in Nat
      BY FaultsAssumption DEF TypeOK
    <3> QED
      BY <2>1, <3>1 DEF Fault
  <2>4. settings' \in [cert : Halves, key : Halves, source : {Empty, Minted, Pasted}]
    <3>1. task[j].cert \in Halves /\ task[j].key \in Halves
      BY DEF TypeOK, Tasks
    <3> QED
      BY <2>1, <2>2, <3>1 DEF ToWrite, TypeOK, Halves
  <2>5. at' \in [Jobs -> Steps] /\ task' \in [Jobs -> Tasks]
    <3>1. CASE Ends(j, "idle")
      BY <3>1, GoKeepsTypes
    <3>2. CASE /\ at' = [at EXCEPT ![j] = Following(at[j])]
               /\ task' = [task EXCEPT ![j] = [@ EXCEPT !.faulted = task[j].faulted \/ ~stored]]
      <4>1. (task[j].faulted \/ ~stored) \in BOOLEAN
        OBVIOUS
      <4>2. [task[j] EXCEPT !.faulted = task[j].faulted \/ ~stored] \in Tasks
        BY <4>1, TaskUpdate DEF TypeOK
      <4>3. Following(at[j]) \in {"key", "source", "confirm cert"}
        BY <2>2 DEF Following
      <4>4. at' \in [Jobs -> Steps]
        BY <3>2, <4>3 DEF TypeOK
      <4>5. PICK t \in Tasks : task' = [task EXCEPT ![j] = t]
        BY <3>2, <4>2
      <4>6. task' \in [Jobs -> Tasks]
        BY <4>5 DEF TypeOK
      <4> QED
        BY <4>4, <4>6
    <3> QED
      BY <2>1, <3>1, <3>2
  <2> QED
    BY <2>2, <2>3, <2>4, <2>5 DEF TypeOK
<1>10. ASSUME NEW j \in Jobs, ConfirmsCert(j) PROVE TypeOK'
  <2>1. PICK v \in Halves : Reads("cert", v) /\ task' = [task EXCEPT ![j] = [@ EXCEPT !.seen = v]]
    BY <1>10 DEF ConfirmsCert
  <2>2. [task[j] EXCEPT !.seen = v] \in Tasks
    BY TaskUpdate DEF TypeOK
  <2>3. task' \in [Jobs -> Tasks] /\ at' \in [Jobs -> Steps]
    BY <1>10, <2>1, <2>2 DEF ConfirmsCert, TypeOK
  <2>4. faults' \in 0..MaxFaults /\ misread' \in BOOLEAN
    BY <2>1, ReadsKeepTypes
  <2> QED
    BY <1>10, <2>3, <2>4 DEF ConfirmsCert, deviceVars, TypeOK
<1>11. ASSUME NEW j \in Jobs, ConfirmsKey(j) PROVE TypeOK'
  <2>1. PICK v \in Halves : Reads("key", v)
    BY <1>11 DEF ConfirmsKey
  <2>2. faults' \in 0..MaxFaults /\ misread' \in BOOLEAN
    BY <2>1, ReadsKeepTypes
  <2>3. at' \in [Jobs -> Steps] /\ task' \in [Jobs -> Tasks]
    BY <1>11, GoKeepsTypes DEF ConfirmsKey
  <2>4. owed' \in Saves
    <3>1. task[j].cert \in Halves
      BY DEF TypeOK, Tasks
    <3>2. ToWrite(j, "source") \in {Empty, Minted, Pasted}
      BY DEF ToWrite
    <3>3. owed' = owed \/ owed' = [pair |-> task[j].cert, source |-> ToWrite(j, "source")]
      BY <1>11 DEF ConfirmsKey
    <3>4. owed \in Saves
      BY DEF TypeOK
    <3> QED
      BY <3>1, <3>2, <3>3, <3>4 DEF Saves
  <2> QED
    BY <1>11, <2>2, <2>3, <2>4 DEF ConfirmsKey, deviceVars, TypeOK
<1>12. CASE UNCHANGED vars
  BY <1>12 DEF vars, jobVars, deviceVars, TypeOK
<1> QED
  BY <1>1, <1>2, <1>3, <1>4, <1>5, <1>6, <1>7, <1>8, <1>9, <1>10, <1>11, <1>12 DEF Next, Job

\* Type correctness, for any number of requests, devices and pairs.
THEOREM TypeCorrect == Spec => []TypeOK
<1> QED
  BY TypeInit, TypeStep, PTL DEF Spec

-----------------------------------------------------------------------------
(* The inductive invariant. *)

Confirming(j) == at[j] \in {"confirm cert", "confirm key"}
Saving(j) == at[j] \in Names \/ Confirming(j)

\* A job that has been alone since it began is the only one under way.
RunsAlone ==
  \A j \in Jobs : (task[j].alone /\ ~Idle(j)) => \A o \in Jobs \ {j} : Idle(o)

\* What is inspected is complete, and what is saved has been inspected.
Prepared(j) ==
  /\ task[j].kind = "clear" => at[j] \in Names
  /\ at[j] = "inspect" => task[j].cert \in Pairs /\ task[j].key \in Pairs
  /\ (Saving(j) /\ task[j].kind # "clear") => task[j].cert = task[j].key /\ task[j].cert \in Pairs

\* With no fault and nobody else writing, what a save has written is there.
Written(j) ==
  (task[j].alone /\ ~task[j].faulted) =>
    /\ (at[j] \in {"key", "source"} \/ Confirming(j)) => settings["cert"] = ToWrite(j, "cert")
    /\ (at[j] = "source" \/ Confirming(j)) => settings["key"] = ToWrite(j, "key")
    /\ Confirming(j) => settings["source"] = ToWrite(j, "source")

\* A first save finds what it wrote or nothing, and has seen what is there.
FirstWritten(j) ==
  (task[j].alone /\ task[j].fresh /\ ~Idle(j)) =>
    /\ settings["cert"] # Empty =>
         settings["cert"] = task[j].cert /\ (at[j] \in {"key", "source"} \/ Confirming(j))
    /\ settings["key"] # Empty =>
         settings["key"] = task[j].key /\ (at[j] = "source" \/ Confirming(j))
    /\ at[j] = "confirm key" => task[j].seen \in {Empty, settings["cert"]}

\* While a save is promised to last, nobody saves.
NobodySaves == owed # NoSave => owed.pair \in Pairs /\ \A j \in Jobs : ~Saving(j)

\* Neither will the startup job, unless it has misread the settings.
StartupSeesIt ==
  (owed # NoSave /\ ~misread) =>
    /\ at[Startup] \notin {"gateway", "inspect"}
    /\ at[Startup] = "stored key" => task[Startup].seen # Empty

JobsInv == \A j \in Jobs : Prepared(j) /\ Written(j) /\ FirstWritten(j)
PromiseInv == NobodySaves /\ StartupSeesIt /\ SavedPairSurvives
IInv == TypeOK /\ RunsAlone /\ JobsInv /\ PromiseInv

-----------------------------------------------------------------------------
(* One job's step and the other jobs. *)

\* A step of a job under way leaves the others' invariants alone: whoever else
\* runs is not alone, and nothing is asked of those that are not.
LEMMA OthersUnharmed ==
  ASSUME RunsAlone, JobsInv, NEW j \in Jobs, ~Idle(j),
         \A i \in Jobs \ {j} : at'[i] = at[i] /\ task'[i] = task[i],
         task'[j].alone = task[j].alone \/ Idle(j)',
         Prepared(j)', Written(j)', FirstWritten(j)'
  PROVE  RunsAlone' /\ JobsInv'
<1>1. ASSUME NEW i \in Jobs \ {j}
      PROVE  Idle(i) \/ ~task[i].alone
  BY DEF RunsAlone
<1>2. RunsAlone'
  <2> SUFFICES ASSUME NEW i \in Jobs, task'[i].alone, ~Idle(i)', NEW o \in Jobs \ {i}
               PROVE  Idle(o)'
    BY DEF RunsAlone
  <2>1. i = j
    BY <1>1 DEF Idle
  <2> QED
    BY <2>1 DEF RunsAlone, Idle
<1>3. ASSUME NEW i \in Jobs \ {j}
      PROVE  Prepared(i)' /\ Written(i)' /\ FirstWritten(i)'
  <2>1. at'[i] = at[i] /\ task'[i] = task[i]
    OBVIOUS
  <2>2. Prepared(i)'
    BY <2>1 DEF JobsInv, Prepared, Saving, Confirming
  <2>3. Written(i)' /\ FirstWritten(i)'
    BY <1>1, <2>1 DEF Written, FirstWritten, Confirming, Idle, Resting
  <2> QED
    BY <2>2, <2>3
<1> QED
  BY <1>2, <1>3 DEF JobsInv

\* A job that has ended keeps every invariant of its own.
LEMMA AtRest ==
  ASSUME TypeOK, NEW j \in Jobs, NEW how \in Resting, Ends(j, how)
  PROVE  /\ \A i \in Jobs \ {j} : at'[i] = at[i] /\ task'[i] = task[i]
         /\ Idle(j)' /\ Prepared(j)' /\ Written(j)' /\ FirstWritten(j)' /\ ~Saving(j)'
<1>1. at'[j] = how /\ task'[j] = NoTask
  BY DEF Ends, TypeOK
<1>2. \A i \in Jobs \ {j} : at'[i] = at[i] /\ task'[i] = task[i]
  BY DEF Ends, TypeOK
<1>3. task'[j].kind = "issue"
  BY <1>1 DEF NoTask
<1> QED
  BY <1>1, <1>2, <1>3
     DEF Idle, Resting, Prepared, Written, FirstWritten, Saving, Confirming, Names

-----------------------------------------------------------------------------
(* What each kind of step keeps. *)

\* A promise stands when neither the settings nor it change and nobody turns saver.
LEMMA PromiseStands ==
  ASSUME PromiseInv, UNCHANGED settings, owed' = owed \/ owed' = NoSave,
         owed' # NoSave => (\A i \in Jobs : Saving(i)' => Saving(i)) /\ StartupSeesIt'
  PROVE  PromiseInv'
<1>1. CASE owed' = NoSave
  BY <1>1 DEF PromiseInv, NobodySaves, StartupSeesIt, SavedPairSurvives
<1>2. CASE owed' # NoSave
  BY <1>2 DEF PromiseInv, NobodySaves, SavedPairSurvives
<1> QED
  BY <1>1, <1>2

\* A read that sets no alarm has seen the setting.
LEMMA ReadsSee ==
  ASSUME NEW name \in {"cert", "key"}, NEW v \in Halves, Reads(name, v)
  PROVE  /\ misread => misread'
         /\ v = settings[name] \/ (v = Empty /\ misread')
BY DEF Reads

\* Devices only read.
LEMMA DeviceKeeps ==
  ASSUME IInv, NEW d \in Devices, Device(d)
  PROVE  RunsAlone' /\ JobsInv' /\ PromiseInv'
<1>1. settings' = settings /\ at' = at /\ task' = task /\ owed' = owed
  BY DEF Device, LoadsCert, LoadsKey, Connects, PollFails, MoveReadsCert, MoveReadsKey,
         OnlyDevices, jobVars
<1>2. misread => misread'
  <2>1. CASE Connects(d) \/ PollFails(d)
    BY <2>1 DEF Connects, PollFails
  <2>2. CASE LoadsCert(d) \/ LoadsKey(d) \/ MoveReadsCert(d) \/ MoveReadsKey(d)
    <3>1. \E v \in Halves : Reads("cert", v) \/ Reads("key", v)
      BY <2>2 DEF LoadsCert, LoadsKey, MoveReadsCert, MoveReadsKey
    <3> QED
      BY <3>1, ReadsSee
  <2> QED
    BY <2>1, <2>2 DEF Device
<1>3. RunsAlone' /\ JobsInv'
  BY <1>1 DEF IInv, RunsAlone, JobsInv, Idle, Prepared, Written, FirstWritten, Saving,
              Confirming, ToWrite
<1>4. PromiseInv'
  BY <1>1, <1>2 DEF IInv, PromiseInv, NobodySaves, StartupSeesIt, SavedPairSurvives, Saving,
                    Confirming
<1> QED
  BY <1>3, <1>4

JustStarted == at = AtStart /\ task = TasksAtStart
NoneSaves == \A j \in Jobs : ~Saving(j)

\* After a start only the startup job runs, and it has yet to read.
LEMMA RestInv == JustStarted => RunsAlone /\ JobsInv /\ StartupSeesIt /\ NoneSaves
<1> SUFFICES ASSUME at = AtStart, task = TasksAtStart
             PROVE  RunsAlone /\ JobsInv /\ StartupSeesIt /\ NoneSaves
  BY DEF JustStarted
<1>1. \A j \in Jobs \ {Startup} : at[j] = "idle"
  BY DEF AtStart
<1>2. at[Startup] = "stored cert"
  BY DEF AtStart, Jobs
<1>3. \A j \in Jobs : /\ task[j].kind = "issue"
                     /\ task[j].fresh = (j = Startup /\ NothingStored)
  BY DEF TasksAtStart, NoTask
<1>4. RunsAlone
  BY <1>1 DEF RunsAlone, Idle, Resting
<1>5. ASSUME NEW j \in Jobs
      PROVE  /\ Prepared(j) /\ Written(j) /\ FirstWritten(j) /\ ~Saving(j)
  <2>1. CASE j = Startup
    BY <1>2, <1>3, <2>1
       DEF Prepared, Written, FirstWritten, Saving, Confirming, Names, NothingStored
  <2>2. CASE j # Startup
    BY <1>1, <1>3, <2>2
       DEF Prepared, Written, FirstWritten, Saving, Confirming, Names, Idle, Resting
  <2> QED
    BY <2>1, <2>2
<1>6. StartupSeesIt
  BY <1>2 DEF StartupSeesIt
<1> QED
  BY <1>4, <1>5, <1>6 DEF JobsInv, NoneSaves

\* A restart forgets the jobs and keeps the promise.
LEMMA RestartKeeps == IInv /\ Restart => RunsAlone' /\ JobsInv' /\ PromiseInv'
<1> SUFFICES ASSUME IInv, Restart PROVE RunsAlone' /\ JobsInv' /\ PromiseInv'
  OBVIOUS
<1>1. UNCHANGED <<settings, owed>> /\ at' = AtStart /\ task' = TasksAtStart
  BY DEF Restart
<1>2. TasksAtStart' = TasksAtStart
  BY <1>1 DEF TasksAtStart, NothingStored
<1>3. RunsAlone' /\ JobsInv' /\ StartupSeesIt' /\ NoneSaves'
  <2>1. JustStarted'
    BY <1>1, <1>2 DEF JustStarted, AtStart
  <2> QED
    BY <2>1, RestInv, PTL
<1> QED
  BY <1>1, <1>3, PromiseStands DEF IInv, NoneSaves

\* A request that begins ends the solitude of whatever was under way.
LEMMA RequestKeeps ==
  ASSUME IInv, NEW j \in Jobs, Request(j)
  PROVE  RunsAlone' /\ JobsInv' /\ PromiseInv'
<1>1. PICK step \in {"inspect", "gateway", "cert"}, kind \in {"issue", "paste", "clear"},
           c \in Halves, k \in Halves :
        /\ Begins(j, step, kind, c, k)
        /\ (kind = "clear") = (step = "cert")
        /\ step = "inspect" => c \in Pairs /\ k \in Pairs
        /\ step = "cert" => owed' = NoSave
        /\ owed' = owed \/ owed' = NoSave
  BY DEF Request, Paste, Mint, Clear, Halves
<1>2. j \in Pages /\ j # Startup /\ Idle(j) /\ UNCHANGED <<settings, misread>>
  BY <1>1, PairsAssumption DEF Begins
<1>3. at'[j] = step /\ \A i \in Jobs \ {j} : at'[i] = at[i]
  BY <1>1 DEF Begins, IInv, TypeOK
<1>4. /\ task'[j].kind = kind /\ task'[j].cert = c /\ task'[j].key = k
      /\ task'[j].fresh = NothingStored
  BY <1>1 DEF Begins
<1>5. task'[j].alone => \A o \in Jobs \ {j} : Idle(o)
  BY <1>1 DEF Begins
<1>6. ASSUME NEW i \in Jobs \ {j}
      PROVE  /\ task'[i].kind = task[i].kind /\ task'[i].cert = task[i].cert
             /\ task'[i].key = task[i].key /\ task'[i].seen = task[i].seen
             /\ task'[i].alone => Idle(i)
  <2>1. task[i] \in Tasks
    BY DEF IInv, TypeOK
  <2>2. task'[i] = [task[i] EXCEPT !.alone = task[i].alone /\ Idle(i)]
    BY <1>1 DEF Begins
  <2> QED
    BY <2>1, <2>2 DEF Tasks
<1>7. RunsAlone'
  <2> SUFFICES ASSUME NEW i \in Jobs, task'[i].alone, ~Idle(i)', NEW o \in Jobs \ {i}
               PROVE  Idle(o)'
    BY DEF RunsAlone
  <2>1. i = j
    BY <1>3, <1>6 DEF Idle
  <2> QED
    BY <1>3, <1>5, <2>1 DEF Idle
<1>8. Prepared(j)' /\ Written(j)' /\ FirstWritten(j)'
  BY <1>1, <1>2, <1>3, <1>4
     DEF Prepared, Written, FirstWritten, Saving, Confirming, Names, NothingStored
<1>9. ASSUME NEW i \in Jobs \ {j}
      PROVE  Prepared(i)' /\ Written(i)' /\ FirstWritten(i)'
  <2>1. Prepared(i)'
    BY <1>3, <1>6 DEF IInv, JobsInv, Prepared, Saving, Confirming
  <2>2. Written(i)' /\ FirstWritten(i)'
    BY <1>3, <1>6 DEF Written, FirstWritten, Confirming, Idle, Resting
  <2> QED
    BY <2>1, <2>2
<1>10. owed' # NoSave => (\A i \in Jobs : Saving(i)' => Saving(i)) /\ StartupSeesIt'
  <2> SUFFICES ASSUME owed' # NoSave
               PROVE  (\A i \in Jobs : Saving(i)' => Saving(i)) /\ StartupSeesIt'
    OBVIOUS
  <2>1. \A i \in Jobs : Saving(i)' => Saving(i)
    BY <1>1, <1>3 DEF Saving, Confirming, Names
  <2>2. StartupSeesIt'
    BY <1>1, <1>2, <1>3, <1>6 DEF IInv, PromiseInv, StartupSeesIt, Jobs
  <2> QED
    BY <2>1, <2>2
<1> QED
  BY <1>1, <1>2, <1>7, <1>8, <1>9, <1>10, PromiseStands DEF IInv, JobsInv

\* A job that ends harms nobody, and if it wrote nothing no promise either.
LEMMA EndsKeeps ==
  ASSUME IInv, NEW j \in Jobs, ~Idle(j), NEW how \in Resting, Ends(j, how), misread => misread'
  PROVE  /\ RunsAlone' /\ JobsInv'
         /\ UNCHANGED <<settings, owed>> => PromiseInv'
<1>1. /\ \A i \in Jobs \ {j} : at'[i] = at[i] /\ task'[i] = task[i]
      /\ Idle(j)' /\ Prepared(j)' /\ Written(j)' /\ FirstWritten(j)' /\ ~Saving(j)'
  BY AtRest DEF IInv
<1>2. RunsAlone' /\ JobsInv'
  BY <1>1, OthersUnharmed DEF IInv
<1>3. \A i \in Jobs : Saving(i)' => Saving(i)
  BY <1>1 DEF Saving, Confirming
<1>4. ASSUME UNCHANGED <<settings, owed>>
      PROVE  StartupSeesIt'
  BY <1>1, <1>4 DEF IInv, PromiseInv, StartupSeesIt, Idle, Resting, Jobs
<1> QED
  BY <1>2, <1>3, <1>4, PromiseStands DEF IInv

\* Reading the settings at start changes what the startup job has seen, no more.
LEMMA StoredReadsCertKeeps ==
  ASSUME IInv, StoredReadsCert
  PROVE  RunsAlone' /\ JobsInv' /\ PromiseInv'
<1> Startup \in Jobs
  BY DEF Jobs
<1>1. PICK v \in Halves : Reads("cert", v) /\
           task' = [task EXCEPT ![Startup] = [@ EXCEPT !.seen = v]]
  BY DEF StoredReadsCert
<1>2. /\ at[Startup] = "stored cert" /\ at'[Startup] = "stored key"
      /\ UNCHANGED <<settings, owed>>
      /\ \A i \in Jobs \ {Startup} : at'[i] = at[i] /\ task'[i] = task[i]
  BY <1>1 DEF StoredReadsCert, IInv, TypeOK
<1>3. /\ task'[Startup].kind = task[Startup].kind /\ task'[Startup].alone = task[Startup].alone
      /\ task'[Startup].fresh = task[Startup].fresh /\ task'[Startup].seen = v
  <2>1. task[Startup] \in Tasks /\ task'[Startup] = [task[Startup] EXCEPT !.seen = v]
    BY <1>1 DEF IInv, TypeOK
  <2> QED
    BY <2>1 DEF Tasks
<1>4. Prepared(Startup)' /\ Written(Startup)' /\ FirstWritten(Startup)'
  <2>1. Prepared(Startup) /\ FirstWritten(Startup)
    BY DEF IInv, JobsInv
  <2> QED
    BY <1>2, <1>3, <2>1
       DEF Prepared, Written, FirstWritten, Saving, Confirming, Names, Idle, Resting
<1>5. RunsAlone' /\ JobsInv'
  BY <1>2, <1>3, <1>4, OthersUnharmed DEF IInv, Idle, Resting
<1>6. \A i \in Jobs : Saving(i)' => Saving(i)
  BY <1>2 DEF Saving, Confirming, Names
<1>7. StartupSeesIt'
  <2> SUFFICES ASSUME owed # NoSave, ~misread' PROVE v # Empty
    BY <1>2, <1>3 DEF StartupSeesIt
  <2>1. settings["cert"] = owed.pair /\ owed.pair \in Pairs
    BY DEF IInv, PromiseInv, SavedPairSurvives, NobodySaves
  <2> QED
    BY <1>1, <2>1, ReadsSee, PairsAssumption
<1> QED
  BY <1>2, <1>5, <1>6, <1>7, PromiseStands DEF IInv

\* Whoever can read a pair that is owed does not issue another.
LEMMA StoredReadsKeyKeeps ==
  ASSUME IInv, StoredReadsKey
  PROVE  RunsAlone' /\ JobsInv' /\ PromiseInv'
<1> Startup \in Jobs
  BY DEF Jobs
<1>1. PICK v \in Halves :
        /\ Reads("key", v)
        /\ IF MayIssue(task[Startup].seen, v) THEN Go(Startup, "gateway")
           ELSE Ends(Startup, "idle")
  BY DEF StoredReadsKey
<1>2. at[Startup] = "stored key" /\ UNCHANGED <<settings, owed>>
  BY DEF StoredReadsKey
<1>3. CASE Ends(Startup, "idle")
  BY <1>1, <1>2, <1>3, EndsKeeps, ReadsSee DEF Idle, Resting
<1>4. CASE MayIssue(task[Startup].seen, v) /\ Go(Startup, "gateway")
  <2>1. /\ task' = task /\ at'[Startup] = "gateway"
        /\ \A i \in Jobs \ {Startup} : at'[i] = at[i]
    BY <1>4 DEF Go, IInv, TypeOK
  <2>2. Prepared(Startup)' /\ Written(Startup)' /\ FirstWritten(Startup)'
    <3>1. Prepared(Startup) /\ FirstWritten(Startup)
      BY DEF IInv, JobsInv
    <3> QED
      BY <1>2, <2>1, <3>1
         DEF Prepared, Written, FirstWritten, Saving, Confirming, Names, Idle, Resting
  <2>3. RunsAlone' /\ JobsInv'
    BY <1>2, <2>1, <2>2, OthersUnharmed DEF IInv, Idle, Resting
  <2>4. \A i \in Jobs : Saving(i)' => Saving(i)
    BY <2>1 DEF Saving, Confirming, Names
  <2>5. owed = NoSave \/ misread'
    <3> SUFFICES ASSUME owed # NoSave, ~misread' PROVE FALSE
      OBVIOUS
    <3>1. settings["key"] = owed.pair /\ owed.pair \in Pairs
      BY DEF IInv, PromiseInv, SavedPairSurvives, NobodySaves
    <3>2. ~misread /\ v = settings["key"]
      BY <1>1, ReadsSee
    <3>3. task[Startup].seen # Empty
      BY <1>2, <3>2 DEF IInv, PromiseInv, StartupSeesIt
    <3> QED
      BY <1>4, <3>1, <3>2, <3>3, PairsAssumption DEF MayIssue
  <2>6. StartupSeesIt'
    BY <1>2, <2>5 DEF StartupSeesIt
  <2> QED
    BY <1>2, <2>3, <2>4, <2>6, PromiseStands DEF IInv
<1> QED
  BY <1>1, <1>3, <1>4

\* A certificate that has been issued is a pair.
LEMMA IssuesKeeps ==
  ASSUME IInv, NEW j \in Jobs, Issues(j)
  PROVE  RunsAlone' /\ JobsInv' /\ PromiseInv'
<1>1. PICK p \in Current : task' = [task EXCEPT ![j] = [@ EXCEPT !.cert = p, !.key = p]]
  BY DEF Issues
<1>2. /\ at[j] = "gateway" /\ at'[j] = "inspect" /\ UNCHANGED <<settings, owed, misread>>
      /\ \A i \in Jobs \ {j} : at'[i] = at[i] /\ task'[i] = task[i]
  BY <1>1 DEF Issues, IInv, TypeOK
<1>3. /\ task'[j].kind = task[j].kind /\ task'[j].alone = task[j].alone
      /\ task'[j].fresh = task[j].fresh /\ task'[j].cert = p /\ task'[j].key = p
  <2>1. task[j] \in Tasks /\ task'[j] = [task[j] EXCEPT !.cert = p, !.key = p]
    BY <1>1 DEF IInv, TypeOK
  <2> QED
    BY <2>1 DEF Tasks
<1>4. Prepared(j)' /\ Written(j)' /\ FirstWritten(j)'
  <2>1. Prepared(j) /\ FirstWritten(j) /\ p \in Pairs
    BY PairsAssumption DEF IInv, JobsInv
  <2> QED
    BY <1>2, <1>3, <2>1
       DEF Prepared, Written, FirstWritten, Saving, Confirming, Names, Idle, Resting
<1>5. RunsAlone' /\ JobsInv'
  BY <1>2, <1>3, <1>4, OthersUnharmed DEF IInv, Idle, Resting
<1>6. \A i \in Jobs : Saving(i)' => Saving(i)
  BY <1>2 DEF Saving, Confirming, Names
<1>7. StartupSeesIt'
  <2>1. Startup # j => at'[Startup] = at[Startup] /\ task'[Startup] = task[Startup]
    BY <1>2 DEF Jobs
  <2>2. StartupSeesIt
    BY DEF IInv, PromiseInv
  <2> QED
    BY <1>2, <2>1, <2>2 DEF StartupSeesIt
<1> QED
  BY <1>2, <1>5, <1>6, <1>7, PromiseStands DEF IInv

\* What passes inspection is one pair; from here nothing is promised, and the
\* startup job gets here only when nothing was.
LEMMA InspectsKeeps ==
  ASSUME IInv, NEW j \in Jobs, Inspects(j)
  PROVE  RunsAlone' /\ JobsInv' /\ PromiseInv'
<1>1. at[j] = "inspect" /\ UNCHANGED <<settings, misread>>
  BY DEF Inspects
<1>2. CASE Ends(j, "idle") /\ UNCHANGED owed
  BY <1>1, <1>2, EndsKeeps DEF Idle, Resting
<1>3. CASE /\ Usable(task[j]) /\ Go(j, "cert")
           /\ owed' = IF j # Startup \/ misread THEN NoSave ELSE owed
  <2>1. /\ task' = task /\ at'[j] = "cert"
        /\ \A i \in Jobs \ {j} : at'[i] = at[i]
    BY <1>3 DEF Go, IInv, TypeOK
  <2>2. Prepared(j)' /\ Written(j)' /\ FirstWritten(j)'
    <3>1. Prepared(j) /\ FirstWritten(j)
      BY DEF IInv, JobsInv
    <3> QED
      BY <1>1, <1>3, <2>1, <3>1
         DEF Prepared, Written, FirstWritten, Saving, Confirming, Names, Idle, Resting, Usable
  <2>3. RunsAlone' /\ JobsInv'
    BY <1>1, <2>1, <2>2, OthersUnharmed DEF IInv, Idle, Resting
  <2>4. owed' = NoSave
    BY <1>1, <1>3 DEF IInv, PromiseInv, StartupSeesIt
  <2> QED
    BY <1>1, <2>3, <2>4, PromiseStands DEF IInv
<1> QED
  BY <1>2, <1>3 DEF Inspects

\* Each write puts one part in place, or the save is marked as faulted.
LEMMA WritesKeeps ==
  ASSUME IInv, NEW j \in Jobs, Writes(j)
  PROVE  RunsAlone' /\ JobsInv' /\ PromiseInv'
<1>1. PICK stored \in BOOLEAN :
        /\ settings' = IF stored THEN [settings EXCEPT ![at[j]] = ToWrite(j, at[j])] ELSE settings
        /\ IF task[j].kind = "clear" /\ at[j] = "source" THEN Ends(j, "idle")
           ELSE /\ at' = [at EXCEPT ![j] = Following(at[j])]
                /\ task' = [task EXCEPT ![j] = [@ EXCEPT !.faulted = task[j].faulted \/ ~stored]]
  BY DEF Writes
<1>2. at[j] \in Names /\ UNCHANGED <<misread, owed>>
  BY DEF Writes
<1>3. PromiseInv'
  <2>1. owed' = NoSave
    BY <1>2 DEF IInv, PromiseInv, NobodySaves, Saving
  <2> QED
    BY <2>1 DEF PromiseInv, NobodySaves, StartupSeesIt, SavedPairSurvives
<1>4. CASE Ends(j, "idle")
  BY <1>2, <1>3, <1>4, EndsKeeps DEF Idle, Resting, Names
<1>5. CASE /\ task[j].kind = "clear" => at[j] # "source"
           /\ at' = [at EXCEPT ![j] = Following(at[j])]
           /\ task' = [task EXCEPT ![j] = [@ EXCEPT !.faulted = task[j].faulted \/ ~stored]]
  <2>1. /\ at'[j] = Following(at[j])
        /\ \A i \in Jobs \ {j} : at'[i] = at[i] /\ task'[i] = task[i]
    BY <1>5 DEF IInv, TypeOK
  <2>2. /\ task'[j].kind = task[j].kind /\ task'[j].alone = task[j].alone
        /\ task'[j].fresh = task[j].fresh
        /\ task'[j].cert = task[j].cert /\ task'[j].key = task[j].key
        /\ ~task'[j].faulted => ~task[j].faulted /\ stored
    <3>1. task[j] \in Tasks /\ task'[j] = [task[j] EXCEPT !.faulted = task[j].faulted \/ ~stored]
      BY <1>5 DEF IInv, TypeOK
    <3> QED
      BY <3>1 DEF Tasks
  <2>3. \A name \in Names : ToWrite(j, name)' = ToWrite(j, name)
    BY <2>2 DEF ToWrite, Names
  <2>4. /\ settings'[at[j]] = ToWrite(j, at[j]) \/ (~stored /\ settings' = settings)
        /\ \A name \in Names \ {at[j]} : settings'[name] = settings[name]
    BY <1>1, <1>2 DEF IInv, TypeOK, Names
  <2>5. Prepared(j) /\ Written(j) /\ FirstWritten(j)
    BY DEF IInv, JobsInv
  <2>6. CASE at[j] = "cert"
    <3>1. at'[j] = "key"
      BY <2>1, <2>6 DEF Following
    <3>2. Prepared(j)'
      BY <2>2, <2>5, <2>6, <3>1 DEF Prepared, Saving, Names
    <3>3. Written(j)'
      BY <2>2, <2>3, <2>4, <2>6, <3>1 DEF Written, Confirming, Names
    <3>4. FirstWritten(j)'
      <4>1. ToWrite(j, "cert") \in {Empty, task[j].cert}
        BY DEF ToWrite
      <4> QED
        BY <2>2, <2>4, <2>5, <2>6, <3>1, <4>1
           DEF FirstWritten, Confirming, Names, Idle, Resting
    <3> QED
      BY <3>1, <3>2, <3>3, <3>4, <1>2, <1>3, <2>1, <2>2, OthersUnharmed
      DEF IInv, Idle, Resting, Names
  <2>7. CASE at[j] = "key"
    <3>1. at'[j] = "source"
      BY <2>1, <2>7 DEF Following
    <3>2. Prepared(j)'
      BY <1>5, <2>2, <2>5, <2>7, <3>1 DEF Prepared, Saving, Names
    <3>3. Written(j)'
      BY <2>2, <2>3, <2>4, <2>5, <2>7, <3>1 DEF Written, Confirming, Names
    <3>4. FirstWritten(j)'
      <4>1. ToWrite(j, "key") \in {Empty, task[j].key}
        BY DEF ToWrite
      <4> QED
        BY <2>2, <2>4, <2>5, <2>7, <3>1, <4>1
           DEF FirstWritten, Confirming, Names, Idle, Resting
    <3> QED
      BY <3>1, <3>2, <3>3, <3>4, <1>2, <1>3, <2>1, <2>2, OthersUnharmed
      DEF IInv, Idle, Resting, Names
  <2>8. CASE at[j] = "source"
    <3>1. at'[j] = "confirm cert"
      BY <2>1, <2>8 DEF Following
    <3>2. Prepared(j)'
      BY <1>5, <2>2, <2>5, <2>8, <3>1 DEF Prepared, Saving, Names, Confirming
    <3>3. Written(j)'
      BY <2>2, <2>3, <2>4, <2>5, <2>8, <3>1 DEF Written, Confirming, Names
    <3>4. FirstWritten(j)'
      BY <2>2, <2>4, <2>5, <2>8, <3>1 DEF FirstWritten, Confirming, Names, Idle, Resting
    <3> QED
      BY <3>1, <3>2, <3>3, <3>4, <1>2, <1>3, <2>1, <2>2, OthersUnharmed
      DEF IInv, Idle, Resting, Names
  <2> QED
    BY <1>2, <1>3, <2>6, <2>7, <2>8 DEF Names
<1> QED
  BY <1>1, <1>4, <1>5

\* The read-back remembers what it saw of the certificate.
LEMMA ConfirmsCertKeeps ==
  ASSUME IInv, NEW j \in Jobs, ConfirmsCert(j)
  PROVE  RunsAlone' /\ JobsInv' /\ PromiseInv'
<1>1. PICK v \in Halves : Reads("cert", v) /\ task' = [task EXCEPT ![j] = [@ EXCEPT !.seen = v]]
  BY DEF ConfirmsCert
<1>2. /\ at[j] = "confirm cert" /\ at'[j] = "confirm key" /\ UNCHANGED <<settings, owed>>
      /\ \A i \in Jobs \ {j} : at'[i] = at[i] /\ task'[i] = task[i]
  BY <1>1 DEF ConfirmsCert, IInv, TypeOK
<1>3. /\ task'[j].kind = task[j].kind /\ task'[j].alone = task[j].alone
      /\ task'[j].fresh = task[j].fresh /\ task'[j].faulted = task[j].faulted
      /\ task'[j].cert = task[j].cert /\ task'[j].key = task[j].key /\ task'[j].seen = v
  <2>1. task[j] \in Tasks /\ task'[j] = [task[j] EXCEPT !.seen = v]
    BY <1>1 DEF IInv, TypeOK
  <2> QED
    BY <2>1 DEF Tasks
<1>4. Prepared(j)' /\ Written(j)' /\ FirstWritten(j)'
  <2>1. Prepared(j) /\ Written(j) /\ FirstWritten(j)
    BY DEF IInv, JobsInv
  <2>2. Prepared(j)'
    BY <1>2, <1>3, <2>1 DEF Prepared, Saving, Confirming, Names
  <2>3. Written(j)'
    BY <1>2, <1>3, <2>1 DEF Written, Confirming, ToWrite
  <2>4. v \in {Empty, settings["cert"]}
    BY <1>1, ReadsSee
  <2>5. FirstWritten(j)'
    BY <1>2, <1>3, <2>1, <2>4 DEF FirstWritten, Confirming, Idle, Resting
  <2> QED
    BY <2>2, <2>3, <2>5
<1>5. RunsAlone' /\ JobsInv'
  BY <1>2, <1>3, <1>4, OthersUnharmed DEF IInv, Idle, Resting
<1>6. owed' = NoSave
  BY <1>2 DEF IInv, PromiseInv, NobodySaves, Saving, Confirming
<1> QED
  BY <1>2, <1>5, <1>6, PromiseStands DEF IInv

\* A save that went well and alone has left exactly what it promises.
LEMMA ConfirmsKeyKeeps ==
  ASSUME IInv, NEW j \in Jobs, ConfirmsKey(j)
  PROVE  RunsAlone' /\ JobsInv' /\ PromiseInv'
<1>1. PICK v \in Halves :
        /\ Reads("key", v)
        /\ IF Persisted(task[j].seen, v)
           THEN /\ Ends(j, "ok")
                /\ owed' = IF task[j].alone /\ ~task[j].faulted
                           THEN [pair |-> task[j].cert, source |-> ToWrite(j, "source")]
                           ELSE owed
           ELSE Ends(j, "idle") /\ UNCHANGED owed
  BY DEF ConfirmsKey
<1>2. at[j] = "confirm key" /\ UNCHANGED settings
  BY DEF ConfirmsKey
<1>3. PICK how \in Resting : Ends(j, how)
  BY <1>1 DEF Resting
<1>4. misread => misread'
  BY <1>1, ReadsSee
<1>5. RunsAlone' /\ JobsInv' /\ (UNCHANGED <<settings, owed>> => PromiseInv')
  BY <1>2, <1>3, <1>4, EndsKeeps DEF Idle, Resting
<1>6. CASE owed' = owed
  BY <1>2, <1>5, <1>6
<1>7. CASE /\ task[j].alone /\ ~task[j].faulted
           /\ owed' = [pair |-> task[j].cert, source |-> ToWrite(j, "source")]
  <2>1. /\ task[j].cert \in Pairs /\ task[j].cert = task[j].key
        /\ settings["cert"] = task[j].cert /\ settings["key"] = task[j].key
        /\ settings["source"] = ToWrite(j, "source")
    BY <1>2, <1>7 DEF IInv, JobsInv, Prepared, Written, Saving, Confirming, Names, ToWrite
  <2>2. SavedPairSurvives'
    BY <1>2, <1>7, <2>1 DEF SavedPairSurvives, IInv, TypeOK
  <2>3. \A i \in Jobs : Idle(i)'
    <3>1. \A i \in Jobs \ {j} : Idle(i) /\ at'[i] = at[i]
      BY <1>2, <1>3, <1>7, AtRest DEF IInv, RunsAlone, Idle, Resting
    <3>2. Idle(j)'
      BY <1>3, AtRest DEF IInv
    <3> QED
      BY <3>1, <3>2 DEF Idle
  <2>4. NobodySaves' /\ StartupSeesIt'
    BY <1>7, <2>1, <2>3
       DEF NobodySaves, StartupSeesIt, Saving, Confirming, Names, Idle, Resting, Jobs
  <2> QED
    BY <1>5, <2>2, <2>4 DEF PromiseInv
<1> QED
  BY <1>1, <1>6, <1>7

-----------------------------------------------------------------------------
(* The invariant and what follows from it. *)

\* The invariant holds at first.
LEMMA InvInit == Init => IInv
<1> SUFFICES ASSUME Init PROVE IInv
  OBVIOUS
<1>1. JustStarted /\ owed = NoSave
  BY DEF Init, JustStarted
<1>2. PromiseInv
  BY <1>1 DEF PromiseInv, NobodySaves, StartupSeesIt, SavedPairSurvives
<1> QED
  BY <1>1, <1>2, RestInv, TypeInit DEF IInv

\* Every step keeps the invariant.
LEMMA InvStep == IInv /\ [Next]_vars => IInv'
<1> SUFFICES ASSUME IInv, [Next]_vars PROVE RunsAlone' /\ JobsInv' /\ PromiseInv'
  BY TypeStep DEF IInv
<1>1. CASE StoredReadsCert
  BY <1>1, StoredReadsCertKeeps
<1>2. CASE StoredReadsKey
  BY <1>2, StoredReadsKeyKeeps
<1>3. CASE Restart
  BY <1>3, RestartKeeps
<1>4. ASSUME NEW j \in Jobs, Request(j) PROVE RunsAlone' /\ JobsInv' /\ PromiseInv'
  BY <1>4, RequestKeeps
<1>5. ASSUME NEW d \in Devices, Device(d) PROVE RunsAlone' /\ JobsInv' /\ PromiseInv'
  BY <1>5, DeviceKeeps
<1>6. ASSUME NEW j \in Jobs, Job(j) PROVE RunsAlone' /\ JobsInv' /\ PromiseInv'
  <2>1. CASE Issues(j)
    BY <2>1, IssuesKeeps
  <2>2. CASE Unreachable(j) \/ WriteRaises(j)
    <3>1. /\ Ends(j, "idle") /\ UNCHANGED <<settings, owed, misread>>
          /\ at[j] \in Names \cup {"gateway"}
      BY <2>2 DEF Unreachable, WriteRaises
    <3> QED
      BY <3>1, EndsKeeps DEF Idle, Resting, Names
  <2>3. CASE Inspects(j)
    BY <2>3, InspectsKeeps
  <2>4. CASE Writes(j)
    BY <2>4, WritesKeeps
  <2>5. CASE ConfirmsCert(j)
    BY <2>5, ConfirmsCertKeeps
  <2>6. CASE ConfirmsKey(j)
    BY <2>6, ConfirmsKeyKeeps
  <2> QED
    BY <1>6, <2>1, <2>2, <2>3, <2>4, <2>5, <2>6 DEF Job
<1>7. CASE UNCHANGED vars
  <2>1. UNCHANGED <<settings, at, task, misread, owed>>
    BY <1>7 DEF vars, jobVars
  <2>2. RunsAlone' /\ JobsInv'
    BY <2>1 DEF IInv, RunsAlone, JobsInv, Idle, Prepared, Written, FirstWritten, Saving,
                Confirming, ToWrite
  <2> QED
    BY <2>1, <2>2 DEF IInv, PromiseInv, NobodySaves, StartupSeesIt, SavedPairSurvives, Saving,
                      Confirming
<1> QED
  BY <1>1, <1>2, <1>3, <1>4, <1>5, <1>6, <1>7 DEF Next

\* What was saved alone and without a fault stays whole and labelled until
\* somebody asks for another pair, whatever restarts, reads and moves there are.
THEOREM SavedSurvives == Spec => []SavedPairSurvives
<1>1. IInv => SavedPairSurvives
  BY DEF IInv, PromiseInv
<1> QED
  BY InvInit, InvStep, <1>1, PTL DEF Spec

\* The only way to report success is the end of the read-back.
LEMMA OnlyConfirmsKey ==
  ASSUME IInv, [Next]_vars, NEW j \in Jobs, at[j] = "confirm key", at'[j] = "ok"
  PROVE  ConfirmsKey(j)
<1>1. at \in [Jobs -> Steps] /\ at' # at
  BY DEF IInv, TypeOK
<1>2. ~Restart
  BY DEF Restart, AtStart
<1>3. ~StoredReadsCert /\ ~StoredReadsKey
  BY <1>1 DEF StoredReadsCert, StoredReadsKey, Go, Ends
<1>4. \A d \in Devices : ~Device(d)
  BY <1>1 DEF Device, LoadsCert, LoadsKey, Connects, PollFails, MoveReadsCert, MoveReadsKey,
              OnlyDevices, jobVars
<1>5. ASSUME NEW i \in Jobs, Request(i)
      PROVE  FALSE
  <2>1. PICK step \in {"inspect", "gateway", "cert"} :
          Idle(i) /\ at' = [at EXCEPT ![i] = step]
    BY <1>5 DEF Request, Paste, Mint, Clear, Begins
  <2> QED
    BY <1>1, <2>1 DEF Idle, Resting
<1>6. PICK i \in Jobs : Job(i)
  BY <1>1, <1>2, <1>3, <1>4, <1>5 DEF Next, vars, jobVars
<1>7. \E step : at' = [at EXCEPT ![i] = step]
  BY <1>6 DEF Job, Issues, Unreachable, Inspects, Writes, WriteRaises, ConfirmsCert,
              ConfirmsKey, Go, Ends
<1>8. i = j
  BY <1>1, <1>7
<1>9. at[j] # "gateway" /\ at[j] # "inspect" /\ at[j] \notin Names /\ at[j] # "confirm cert"
  BY DEF Names
<1> QED
  BY <1>6, <1>8, <1>9 DEF Job, Issues, Unreachable, Inspects, Writes, WriteRaises, ConfirmsCert

\* It succeeds on what is stored, which a first save has written itself.
LEMMA SuccessIsStored ==
  ASSUME IInv, [Next]_vars, NEW j \in Jobs, at[j] = "confirm key", at'[j] = "ok",
         task[j].alone, task[j].fresh
  PROVE  settings'["cert"] = task[j].cert /\ settings'["key"] = task[j].key
<1>1. ConfirmsKey(j)
  BY OnlyConfirmsKey
<1>2. PICK v \in Halves : Reads("key", v) /\ (Persisted(task[j].seen, v) \/ Ends(j, "idle"))
  BY <1>1 DEF ConfirmsKey
<1>3. Persisted(task[j].seen, v)
  BY <1>2 DEF Ends, IInv, TypeOK
<1>4. v = settings["key"] /\ v # Empty /\ task[j].seen # Empty
  BY <1>2, <1>3 DEF Reads, Persisted
<1>5. settings["cert"] = task[j].cert /\ settings["key"] = task[j].key
  BY <1>4 DEF IInv, JobsInv, FirstWritten, Idle, Resting
<1> QED
  BY <1>1, <1>5 DEF ConfirmsKey

\* A first save that reports success has stored its own pair.
THEOREM FirstSaveConfirmed == Spec => FirstSaveIsConfirmed
<1> DEFINE Confirmed ==
      \A j \in Jobs :
        (at[j] = "confirm key" /\ at'[j] = "ok" /\ task[j].alone /\ task[j].fresh)
        => settings'["cert"] = task[j].cert /\ settings'["key"] = task[j].key
<1>1. IInv /\ [Next]_vars => [Confirmed]_vars
  BY SuccessIsStored
<1> QED
  BY <1>1, InvInit, InvStep, PTL DEF Spec, FirstSaveIsConfirmed
=============================================================================
