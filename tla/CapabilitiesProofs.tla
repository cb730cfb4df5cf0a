-------------------------- MODULE CapabilitiesProofs --------------------------
(***************************************************************************)
(* Proofs, for every registry, whatever its gates, readers and writers do, *)
(* and any number of readers and tasks, that no control is left without a  *)
(* listener, that writes take nothing out of the cache and that a device   *)
(* that agrees with its appliance goes on so; for the whole registry of    *)
(* the air conditioner, that what is written reads back as what was asked; *)
(* and, for one unit as AcUnit describes it, that a command that has been  *)
(* taken is done as it was asked.                                          *)
(***************************************************************************)
EXTENDS AcUnit, SequenceTheorems, WellFoundedInduction, TLAPS

\* What the registry wants is declared in it.
LEMMA WantedDeclared ==
  /\ \A dump : Wanted(dump) \subseteq Declared
  /\ \A dump : DOMAIN OptionsOf(dump) \subseteq Declared
<1>1. \A dump : Wanted(dump) \subseteq Declared
  BY DEF Wanted, Declared, Applying
<1>2. \A dump : DOMAIN OptionsOf(dump) \subseteq Declared
  BY DEF OptionsOf, Declared, Applying
<1>. QED BY <1>1, <1>2

-----------------------------------------------------------------------------
(* The inductive invariant: TypeOK, the shape of a job, and who still owes  *)
(* a listener to what has been added.                                      *)

Fields == {"phase", "adds", "gone", "new", "sets", "only", "dict", "at", "value"}

JobOK(j) ==
  /\ DOMAIN j = Fields
  /\ j.phase \in Phases
  /\ j.adds \subseteq j.new /\ j.new \subseteq Declared
  /\ j.gone \cap j.new = {}
  /\ (j.phase = "firing") <=> (j.value # None)
  /\ j.phase = "firing" => j.at \in DOMAIN Specs
  /\ DOMAIN j.sets \subseteq Declared

JobsOK == DOMAIN job = Coroutines /\ \A r \in Coroutines : JobOK(job[r])

HomeyOK == have \subseteq Declared /\ heard \subseteq have /\ DOMAIN shown = Declared

TablesOK ==
  /\ events \in 0..MaxEvents /\ resolved \in BOOLEAN
  /\ DOMAIN applied = Declared
  /\ DOMAIN previous = Subs /\ DOMAIN told = Subs

\* What has no listener yet was found missing by a reader that synchronises.
ListenerIsOwed ==
  \A c \in have \ heard : \E r \in Readers : job[r].phase = "syncing" /\ c \in job[r].new

IInv == JobsOK /\ HomeyOK /\ TablesOK /\ ListenerIsOwed

LEMMA InvariantImplies == IInv => TypeOK /\ EveryControlAnswers
<1>1. IInv => TypeOK
  BY DEF IInv, JobsOK, JobOK, HomeyOK, TablesOK, TypeOK
<1>2. IInv => EveryControlAnswers
  BY DEF IInv, HomeyOK, ListenerIsOwed, EveryControlAnswers
<1>. QED BY <1>1, <1>2

LEMMA IdleIsOK == JobOK(Idle) /\ Idle.phase = "idle"
BY DEF JobOK, Idle, Fields, Phases

LEMMA InitInvariant == Init => IInv
<1> SUFFICES ASSUME Init PROVE IInv
  OBVIOUS
<1>1. HomeyOK
  BY WantedDeclared DEF Init, HomeyOK
<1>2. JobsOK
  BY IdleIsOK DEF Init, JobsOK
<1>3. TablesOK
  <2>1. events \in 0..MaxEvents
    BY EventsAssumption DEF Init
  <2>. QED BY <2>1 DEF Init, TablesOK
<1>4. ListenerIsOwed
  BY DEF Init, ListenerIsOwed
<1>. QED BY <1>1, <1>2, <1>3, <1>4 DEF IInv

-----------------------------------------------------------------------------
(* What several steps have in common. *)

LEMMA EventCounts == TablesOK /\ (Event \/ UNCHANGED events) => events' \in 0..MaxEvents
BY EventsAssumption DEF TablesOK, Event

\* A reader that starts to compare: what it is to add is missing, what it is to
\* remove is not wanted.
LEMMA ComparedIsOK ==
  ASSUME NEW wanted \in SUBSET Declared
  PROVE  JobOK(Compared(wanted)) /\ Compared(wanted).phase \in {"syncing", "language"}
<1>1. CASE InStep(wanted)
  <2>1. Compared(wanted) = [Idle EXCEPT !.phase = "language"]
    BY <1>1 DEF Compared
  <2>. QED BY <2>1 DEF JobOK, Idle, Fields, Phases
<1>2. CASE ~InStep(wanted)
  <2>1. Compared(wanted) = [Idle EXCEPT !.phase = "syncing", !.adds = wanted \ have,
                              !.gone = have \ wanted, !.new = wanted \ have]
    BY <1>2 DEF Compared
  <2>. QED BY <2>1 DEF JobOK, Idle, Fields, Phases
<1>. QED BY <1>1, <1>2

\* Jobs stay well formed when those that change do, and every listener stays
\* owed when no reader leaves its synchronisation.
LEMMA JobsKept ==
  ASSUME JobsOK, DOMAIN job' = Coroutines,
         \A q \in Coroutines : job'[q] = job[q] \/ JobOK(job'[q])
  PROVE  JobsOK'
BY DEF JobsOK, JobOK

LEMMA OwedKept ==
  ASSUME ListenerIsOwed, have' \ heard' \subseteq have \ heard,
         \A q \in Readers : job[q].phase = "syncing" =>
            job'[q].phase = "syncing" /\ job'[q].new = job[q].new
  PROVE  ListenerIsOwed'
BY DEF ListenerIsOwed

-----------------------------------------------------------------------------
(* The steps of a full read. *)

LEMMA ReadKeeps ==
  ASSUME NEW r \in Readers, IInv, Read(r)
  PROVE  IInv'
<1>1. JobsOK'
  <2>1. \A q \in Coroutines : JobOK(Frozen[q])
    <3> SUFFICES ASSUME NEW q \in Coroutines PROVE JobOK(Frozen[q])
      OBVIOUS
    <3>1. JobOK(job[q])
      BY DEF IInv, JobsOK
    <3>2. JobOK([job[q] EXCEPT !.dict = resources])
      BY <3>1 DEF JobOK, Fields
    <3>3. Frozen[q] = job[q] \/ Frozen[q] = [job[q] EXCEPT !.dict = resources]
      BY DEF Frozen
    <3>. QED BY <3>1, <3>2, <3>3
  <2>2. JobOK([Idle EXCEPT !.phase = "resolving"])
    BY DEF JobOK, Idle, Fields, Phases
  <2>3. JobOK(Compared(Wanted(actual)))
    BY ComparedIsOK, WantedDeclared
  <2>4. \A q \in Coroutines : JobOK(job'[q])
    <3> SUFFICES ASSUME NEW q \in Coroutines PROVE JobOK(job'[q])
      OBVIOUS
    <3>1. DOMAIN Frozen = Coroutines
      BY DEF Frozen
    <3>2. CASE q = r
      BY <2>2, <2>3, <3>1, <3>2 DEF Read
    <3>3. CASE q # r
      BY <2>1, <3>1, <3>3 DEF Read
    <3>. QED BY <3>2, <3>3
  <2>5. DOMAIN job' = Coroutines
    BY DEF Read, Frozen
  <2>. QED BY <2>4, <2>5 DEF JobsOK, JobOK
<1>2. ListenerIsOwed'
  <2>1. \A q \in Readers : job[q].phase = "syncing" => job'[q] = job[q]
    <3> SUFFICES ASSUME NEW q \in Readers, job[q].phase = "syncing" PROVE job'[q] = job[q]
      OBVIOUS
    <3>1. q # r /\ q \in Coroutines
      BY DEF Read, Coroutines
    <3>2. Frozen[q] = job[q] /\ DOMAIN Frozen = Coroutines
      BY <3>1 DEF Frozen
    <3>. QED BY <3>1, <3>2 DEF Read
  <2>. QED BY <2>1, OwedKept DEF IInv, Read, homey
<1>3. HomeyOK'
  BY DEF IInv, HomeyOK, Read, homey
<1>4. TablesOK'
  <2>1. events' \in 0..MaxEvents
    BY EventCounts DEF Read, IInv
  <2>. QED BY <2>1 DEF IInv, TablesOK, Read
<1>. QED BY <1>1, <1>2, <1>3, <1>4 DEF IInv

LEMMA ResolvedKeeps ==
  ASSUME NEW r \in Readers, IInv, Resolved(r)
  PROVE  IInv'
<1>1. JobsOK'
  <2>1. JobOK(Compared(Wanted(resources)))
    BY ComparedIsOK, WantedDeclared
  <2>. QED BY <2>1, JobsKept DEF IInv, JobsOK, Resolved, Coroutines
<1>2. ListenerIsOwed'
  BY OwedKept DEF IInv, Resolved, homey, JobsOK, Coroutines
<1>3. HomeyOK' /\ TablesOK'
  BY DEF IInv, HomeyOK, TablesOK, Resolved, homey
<1>. QED BY <1>1, <1>2, <1>3 DEF IInv

\* What is added is among what its reader found missing.
LEMMA AddsKeeps ==
  ASSUME NEW r \in Readers, IInv, Adds(r)
  PROVE  IInv'
<1>1. PICK c \in job[r].adds :
        /\ job' = [job EXCEPT ![r].adds = @ \ {c}]
        /\ (have' = have \cup {c} /\ UNCHANGED events) \/ (Event /\ UNCHANGED have)
  BY DEF Adds
<1>2. r \in Coroutines /\ JobOK(job[r]) /\ c \in job[r].new /\ c \in Declared
  BY DEF IInv, JobsOK, JobOK, Coroutines
<1>3. /\ job'[r].phase = "syncing" /\ job'[r].new = job[r].new
      /\ JobOK(job'[r])
  BY <1>1, <1>2 DEF Adds, IInv, JobsOK, JobOK, Fields
<1>4. \A q \in Coroutines \ {r} : job'[q] = job[q]
  BY <1>1 DEF IInv, JobsOK
<1>5. JobsOK'
  BY <1>1, <1>3, <1>4, JobsKept DEF IInv, JobsOK
<1>6. ListenerIsOwed'
  <2> SUFFICES ASSUME NEW x \in have' \ heard'
               PROVE  \E q \in Readers : job'[q].phase = "syncing" /\ x \in job'[q].new
    BY DEF ListenerIsOwed
  <2>1. CASE x = c
    BY <2>1, <1>2, <1>3
  <2>2. CASE x # c
    <3>1. x \in have \ heard
      BY <1>1, <2>2 DEF Adds
    <3>2. PICK q \in Readers : job[q].phase = "syncing" /\ x \in job[q].new
      BY <3>1 DEF IInv, ListenerIsOwed
    <3>. QED BY <3>2, <1>3, <1>4 DEF Coroutines
  <2>. QED BY <2>1, <2>2
<1>7. HomeyOK'
  BY <1>1, <1>2 DEF IInv, HomeyOK, Adds
<1>8. TablesOK'
  <2>1. events' \in 0..MaxEvents
    BY <1>1, EventCounts DEF IInv
  <2>. QED BY <2>1 DEF IInv, TablesOK, Adds, device
<1>. QED BY <1>5, <1>6, <1>7, <1>8 DEF IInv

LEMMA RemovesKeeps ==
  ASSUME NEW r \in Readers, IInv, Removes(r)
  PROVE  IInv'
<1>1. PICK c \in job[r].gone :
        /\ job' = [job EXCEPT ![r].gone = @ \ {c}]
        /\ \/ /\ have' = have \ {c} /\ heard' = heard \ {c}
              /\ shown' = [shown EXCEPT ![c] = None]
              /\ UNCHANGED events
           \/ Event /\ UNCHANGED homey
  BY DEF Removes
<1>2. r \in Coroutines /\ JobOK(job[r])
  BY DEF IInv, JobsOK, Coroutines
<1>3. job'[r].phase = job[r].phase /\ job'[r].new = job[r].new /\ JobOK(job'[r])
  BY <1>1, <1>2 DEF IInv, JobsOK, JobOK, Fields
<1>4. \A q \in Coroutines \ {r} : job'[q] = job[q]
  BY <1>1 DEF IInv, JobsOK
<1>5. JobsOK'
  BY <1>1, <1>3, <1>4, JobsKept DEF IInv, JobsOK
<1>6. ListenerIsOwed'
  <2>1. have' \ heard' \subseteq have \ heard
    BY <1>1 DEF homey
  <2>2. \A q \in Readers : job'[q].phase = job[q].phase /\ job'[q].new = job[q].new
    BY <1>3, <1>4 DEF Coroutines
  <2>. QED BY <2>1, <2>2, OwedKept DEF IInv
<1>7. HomeyOK'
  BY <1>1 DEF IInv, HomeyOK, homey
<1>8. TablesOK'
  <2>1. events' \in 0..MaxEvents
    BY <1>1, EventCounts DEF IInv
  <2>. QED BY <2>1 DEF IInv, TablesOK, Removes, device
<1>. QED BY <1>5, <1>6, <1>7, <1>8 DEF IInv

\* A reader that ends its synchronisation pays what it owed.
LEMMA ListensKeeps ==
  ASSUME NEW r \in Readers, IInv, Listens(r)
  PROVE  IInv'
<1>1. JobsOK'
  <2>1. JobOK([Idle EXCEPT !.phase = "language"])
    BY DEF JobOK, Idle, Fields, Phases
  <2>. QED BY <2>1, JobsKept DEF IInv, JobsOK, Listens, Coroutines
<1>2. ListenerIsOwed'
  <2> SUFFICES ASSUME NEW x \in have' \ heard'
               PROVE  \E q \in Readers : job'[q].phase = "syncing" /\ x \in job'[q].new
    BY DEF ListenerIsOwed
  <2>1. x \in have \ heard /\ x \notin job[r].new
    BY DEF Listens, Missing
  <2>2. PICK q \in Readers : job[q].phase = "syncing" /\ x \in job[q].new
    BY <2>1 DEF IInv, ListenerIsOwed
  <2>3. q # r
    BY <2>1, <2>2
  <2>. QED BY <2>2, <2>3 DEF Listens, IInv, JobsOK, Coroutines
<1>3. HomeyOK' /\ TablesOK'
  BY DEF IInv, HomeyOK, TablesOK, Listens, Missing, device
<1>. QED BY <1>1, <1>2, <1>3 DEF IInv

\* A step of one coroutine that does not synchronise: its job stays well formed,
\* and nobody owes less.
LEMMA OneMoves ==
  ASSUME NEW r \in Coroutines, IInv, job[r].phase # "syncing",
         DOMAIN job' = Coroutines, JobOK(job'[r]),
         \A q \in Coroutines \ {r} : job'[q] = job[q],
         UNCHANGED <<have, heard>>
  PROVE  JobsOK' /\ ListenerIsOwed'
<1>1. JobsOK'
  BY JobsKept DEF IInv
<1>2. \A q \in Readers : job[q].phase = "syncing" => job'[q] = job[q]
  BY DEF Coroutines
<1>. QED BY <1>1, <1>2, OwedKept DEF IInv

LEMMA OptionsKeeps ==
  ASSUME NEW r \in Readers, IInv, Options(r)
  PROVE  IInv'
<1>1. r \in Coroutines /\ JobOK(job[r]) /\ DOMAIN job = Coroutines
  BY DEF IInv, JobsOK, Coroutines
<1>2. PICK wants \in {OptionsOf(resources)} :
        job' = [job EXCEPT ![r].phase = "setting",
                           ![r].sets = [c \in DOMAIN wants \cap have |-> wants[c]]]
  BY DEF Options
<1>3. DOMAIN wants \subseteq Declared
  BY <1>2, WantedDeclared
<1>4. JobOK(job'[r])
  BY <1>1, <1>2, <1>3 DEF JobOK, Fields, Phases, Options
<1>5. JobsOK' /\ ListenerIsOwed'
  BY <1>1, <1>2, <1>4, OneMoves DEF Options, homey
<1>6. HomeyOK' /\ TablesOK'
  BY DEF IInv, HomeyOK, TablesOK, Options, homey, device
<1>. QED BY <1>5, <1>6 DEF IInv

LEMMA SetsKeeps ==
  ASSUME NEW r \in Readers, IInv, Sets(r)
  PROVE  IInv'
<1>1. r \in Coroutines /\ JobOK(job[r]) /\ DOMAIN job = Coroutines
  BY DEF IInv, JobsOK, Coroutines
<1>2. PICK c \in Unapplied(r) :
        /\ job' = [job EXCEPT ![r].sets = Restrict(@, Unapplied(r) \ {c})]
        /\ \/ c \in have /\ applied' = [applied EXCEPT ![c] = job[r].sets[c]] /\ UNCHANGED events
           \/ Event /\ UNCHANGED applied
           \/ c \notin have /\ UNCHANGED <<applied, events>>
  BY DEF Sets
<1>3. Unapplied(r) \subseteq Declared
  BY <1>1 DEF Unapplied, JobOK
<1>4. JobOK(job'[r])
  <2> DEFINE rest == Restrict(job[r].sets, Unapplied(r) \ {c})
  <2>1. DOMAIN rest \subseteq Declared
    BY <1>3 DEF Restrict
  <2>2. job'[r] = [job[r] EXCEPT !.sets = rest]
    BY <1>1, <1>2
  <2> HIDE DEF rest
  <2>. QED BY <1>1, <2>1, <2>2 DEF JobOK, Fields, Sets
<1>5. JobsOK' /\ ListenerIsOwed'
  BY <1>1, <1>2, <1>4, OneMoves DEF Sets, homey
<1>6. HomeyOK'
  BY DEF IInv, HomeyOK, Sets, homey
<1>7. TablesOK'
  <2>1. events' \in 0..MaxEvents
    BY <1>2, EventCounts DEF IInv
  <2>2. DOMAIN applied' = Declared
    BY <1>2 DEF IInv, TablesOK
  <2>. QED BY <2>1, <2>2 DEF IInv, TablesOK, Sets
<1>. QED BY <1>5, <1>6, <1>7 DEF IInv

LEMMA SettledKeeps ==
  ASSUME NEW r \in Readers, IInv, Settled(r)
  PROVE  IInv'
<1>1. JobOK([Idle EXCEPT !.phase = "applying"])
  BY DEF JobOK, Idle, Fields, Phases
<1>2. JobsOK' /\ ListenerIsOwed'
  BY <1>1, OneMoves DEF IInv, JobsOK, Settled, homey, Coroutines
<1>3. HomeyOK' /\ TablesOK'
  BY DEF IInv, HomeyOK, TablesOK, Settled, homey, device
<1>. QED BY <1>2, <1>3 DEF IInv

-----------------------------------------------------------------------------
(* The steps of _apply. *)

\* What is due has a value, and a capability of the registry.
LEMMA DueHasValue ==
  ASSUME NEW r \in Coroutines, NEW i \in Earliest(Due(r))
  PROVE  /\ i \in DOMAIN Specs /\ Specs[i].capability \in Declared
         /\ Value(i, DictOf(r)) # None
<1>1. Due(r) \subseteq DOMAIN Specs /\ \A j \in Due(r) : Stale(j, DictOf(r))
  BY DEF Due
<1>2. i \in Due(r)
  BY DEF Earliest
<1>. QED BY <1>1, <1>2 DEF Stale, Declared

LEMMA TriggeredKeeps ==
  ASSUME NEW c, NEW v, TablesOK, Triggered(c, v)
  PROVE  DOMAIN previous' = Subs /\ DOMAIN told' = Subs
BY DEF TablesOK, Triggered

LEMMA AppliesNextKeeps ==
  ASSUME NEW r \in Coroutines, IInv, AppliesNext(r)
  PROVE  IInv'
<1>1. JobOK(job[r]) /\ DOMAIN job = Coroutines
  BY DEF IInv, JobsOK
<1>2. PICK i \in Earliest(Due(r)) :
        \E c \in {Specs[i].capability}, v \in {Value(i, DictOf(r))} :
          IF shown[c] # v
          THEN /\ shown' = [shown EXCEPT ![c] = v]
               /\ job' = [job EXCEPT ![r].phase = "firing", ![r].at = i, ![r].value = v]
               /\ UNCHANGED <<previous, told>>
          ELSE /\ Triggered(c, v)
               /\ job' = [job EXCEPT ![r].at = i + 1]
               /\ UNCHANGED shown
  BY DEF AppliesNext
<1> DEFINE c == Specs[i].capability
           v == Value(i, DictOf(r))
<1>3. i \in DOMAIN Specs /\ c \in Declared /\ v # None
  BY DueHasValue
<1>4. \/ /\ shown' = [shown EXCEPT ![c] = v]
         /\ job' = [job EXCEPT ![r].phase = "firing", ![r].at = i, ![r].value = v]
         /\ UNCHANGED <<previous, told>>
      \/ /\ Triggered(c, v)
         /\ job' = [job EXCEPT ![r].at = i + 1]
         /\ UNCHANGED shown
  BY <1>2
<1> HIDE DEF c, v
<1>5. JobOK(job'[r])
  BY <1>1, <1>3, <1>4 DEF JobOK, Fields, Phases, AppliesNext
<1>6. JobsOK' /\ ListenerIsOwed'
  BY <1>1, <1>4, <1>5, OneMoves DEF AppliesNext
<1>7. HomeyOK'
  BY <1>3, <1>4 DEF IInv, HomeyOK, AppliesNext
<1>8. TablesOK'
  <2>1. DOMAIN previous' = Subs /\ DOMAIN told' = Subs
    BY <1>4, TriggeredKeeps DEF IInv, TablesOK
  <2>. QED BY <2>1 DEF IInv, TablesOK, AppliesNext
<1>. QED BY <1>6, <1>7, <1>8 DEF IInv

LEMMA FiresNextKeeps ==
  ASSUME NEW r \in Coroutines, IInv, FiresNext(r)
  PROVE  IInv'
<1>1. JobOK(job[r]) /\ DOMAIN job = Coroutines
  BY DEF IInv, JobsOK
<1>2. JobOK(job'[r])
  BY <1>1 DEF JobOK, Fields, Phases, FiresNext
<1>3. JobsOK' /\ ListenerIsOwed'
  BY <1>1, <1>2, OneMoves DEF FiresNext, homey
<1>4. HomeyOK'
  BY DEF IInv, HomeyOK, FiresNext, homey
<1>5. TablesOK'
  <2>1. DOMAIN previous' = Subs /\ DOMAIN told' = Subs
    BY TriggeredKeeps DEF IInv, FiresNext
  <2>. QED BY <2>1 DEF IInv, TablesOK, FiresNext
<1>. QED BY <1>3, <1>4, <1>5 DEF IInv

LEMMA EndsOrFailsKeeps ==
  ASSUME NEW r \in Coroutines, IInv, Ends(r) \/ Fails(r)
  PROVE  IInv'
<1>1. JobsOK' /\ ListenerIsOwed'
  BY IdleIsOK, OneMoves DEF IInv, JobsOK, Ends, Fails, homey
<1>2. HomeyOK'
  BY DEF IInv, HomeyOK, Ends, Fails, homey
<1>3. TablesOK'
  <2>1. events' \in 0..MaxEvents
    BY EventCounts DEF IInv, Ends, Fails
  <2>. QED BY <2>1 DEF IInv, TablesOK, Ends, Fails, device
<1>. QED BY <1>1, <1>2, <1>3 DEF IInv

-----------------------------------------------------------------------------
(* Pushes, commands, the appliance and restarts. *)

LEMMA BeginsKeeps ==
  ASSUME NEW t \in Tasks, IInv, Begins(t)
  PROVE  IInv'
<1>1. t \in Coroutines /\ JobOK(job[t]) /\ DOMAIN job = Coroutines
  BY DEF IInv, JobsOK, Coroutines
<1>2. JobOK(job'[t])
  BY <1>1 DEF JobOK, Fields, Phases, Begins
<1>3. JobsOK' /\ ListenerIsOwed'
  BY <1>1, <1>2, OneMoves DEF Begins, homey
<1>4. HomeyOK' /\ TablesOK'
  BY DEF IInv, HomeyOK, TablesOK, Begins, homey, device
<1>. QED BY <1>3, <1>4 DEF IInv

\* Whatever leaves the jobs and what Homey holds alone.
LEMMA OthersKeep ==
  ASSUME IInv, UNCHANGED <<job, have, heard>>, DOMAIN shown' = Declared,
         Event \/ UNCHANGED events, UNCHANGED <<resolved, applied, previous, told>>
  PROVE  IInv'
<1>1. JobsOK' /\ ListenerIsOwed' /\ HomeyOK'
  BY DEF IInv, JobsOK, JobOK, ListenerIsOwed, HomeyOK
<1>2. TablesOK'
  <2>1. events' \in 0..MaxEvents
    BY EventCounts DEF IInv
  <2>. QED BY <2>1 DEF IInv, TablesOK
<1>. QED BY <1>1, <1>2 DEF IInv

LEMMA NotifiedKeeps ==
  ASSUME NEW n, IInv, Notified(n)
  PROVE  IInv'
<1>1. HomeyOK' /\ TablesOK'
  BY DEF IInv, HomeyOK, TablesOK, Notified, homey
<1>2. CASE UNCHANGED job
  BY <1>2, OthersKeep DEF IInv, HomeyOK, Notified, homey
<1>3. CASE \E t \in Tasks :
             /\ job[t] = Idle
             /\ job' = [job EXCEPT ![t].phase = "created", ![t].only = n[1]]
  <2>1. PICK t \in Tasks :
             /\ job[t] = Idle
             /\ job' = [job EXCEPT ![t].phase = "created", ![t].only = n[1]]
    BY <1>3
  <2>2. t \in Coroutines /\ DOMAIN job = Coroutines /\ JobOK(Idle) /\ Idle.phase = "idle"
    BY IdleIsOK DEF IInv, JobsOK, Coroutines
  <2>3. JobOK(job'[t])
    BY <2>1, <2>2 DEF JobOK, Fields, Phases
  <2>. QED BY <2>1, <2>2, <2>3, <1>1, OneMoves DEF Notified, homey, IInv
<1>. QED BY <1>1, <1>2, <1>3 DEF Notified, IInv

LEMMA WorldKeeps ==
  ASSUME IInv, Operated \/ Answered \/ \E h \in settling : GuardEnds(h)
  PROVE  IInv'
<1>1. UNCHANGED <<job, have, heard, shown, resolved, applied, previous, told>>
  BY DEF Operated, Answered, GuardEnds, homey, device
<1>2. Event \/ UNCHANGED events
  BY DEF Operated, Answered, GuardEnds
<1>. QED BY <1>1, <1>2, OthersKeep DEF IInv, HomeyOK

LEMMA CommandKeeps ==
  ASSUME IInv, Commanded \/ Returns
  PROVE  IInv'
<1>1. UNCHANGED <<job, have, heard, resolved, applied, previous, told>>
  BY DEF Commanded, Returns
<1>2. Event \/ UNCHANGED events
  BY DEF Commanded, Returns
<1>3. DOMAIN shown' = DOMAIN shown
  <2>1. CASE Commanded
    BY <2>1 DEF Commanded
  <2>2. CASE Returns
    BY <2>2 DEF Returns
  <2>. QED BY <2>1, <2>2
<1>. QED BY <1>1, <1>2, <1>3, OthersKeep DEF IInv, HomeyOK

LEMMA RestartsKeeps ==
  ASSUME IInv, Restarts
  PROVE  IInv'
<1>1. JobsOK'
  BY IdleIsOK DEF Restarts, JobsOK
<1>2. HomeyOK' /\ ListenerIsOwed'
  BY DEF IInv, HomeyOK, ListenerIsOwed, Restarts
<1>3. TablesOK'
  <2>1. events' \in 0..MaxEvents
    BY EventCounts DEF IInv, Restarts
  <2>. QED BY <2>1 DEF IInv, TablesOK, Restarts
<1>. QED BY <1>1, <1>2, <1>3 DEF IInv

-----------------------------------------------------------------------------
(* The theorems. *)

LEMMA NextInvariant == IInv /\ [Next]_vars => IInv'
<1> SUFFICES ASSUME IInv, [Next]_vars PROVE IInv'
  OBVIOUS
<1>1. CASE Operated \/ Answered \/ \E h \in settling : GuardEnds(h)
  BY <1>1, WorldKeeps
<1>2. CASE Commanded \/ Returns
  BY <1>2, CommandKeeps
<1>3. CASE Restarts
  BY <1>3, RestartsKeeps
<1>4. CASE \E r \in Readers : Syncs(r)
  <2> SUFFICES ASSUME NEW r \in Readers, Syncs(r) PROVE IInv'
    BY <1>4
  <2>. QED BY ReadKeeps, ResolvedKeeps, AddsKeeps, RemovesKeeps, ListensKeeps,
              OptionsKeeps, SetsKeeps, SettledKeeps DEF Syncs
<1>5. CASE \E t \in Tasks : Begins(t)
  BY <1>5, BeginsKeeps
<1>6. CASE \E r \in Coroutines : Carries(r) \/ Fails(r)
  BY <1>6, AppliesNextKeeps, FiresNextKeeps, EndsOrFailsKeeps DEF Carries
<1>7. CASE \E n \in flight : Notified(n)
  BY <1>7, NotifiedKeeps
<1>8. CASE UNCHANGED vars
  <2>1. UNCHANGED <<job, have, heard, shown, events, resolved, applied, previous, told>>
    BY <1>8 DEF vars, homey, device
  <2>. QED BY <2>1, OthersKeep DEF IInv, HomeyOK
<1>. QED BY <1>1, <1>2, <1>3, <1>4, <1>5, <1>6, <1>7, <1>8 DEF Next

LEMMA InvariantHolds == Spec => []IInv
BY InitInvariant, NextInvariant, PTL DEF Spec

\* The locals, the tables and what Homey holds keep their types, and only what is
\* due fires, whatever two readers, pushes and commands do to each other.
THEOREM TypeCorrect == Spec => []TypeOK
BY InvariantHolds, InvariantImplies, PTL

\* Every capability that Homey shows has a listener once nobody synchronises: a
\* control never accepts a value that goes nowhere (_sync_capabilities, on_init).
THEOREM ControlsAnswer == Spec => []EveryControlAnswers
BY InvariantHolds, InvariantImplies, PTL

-----------------------------------------------------------------------------
(* Folding a write.  A list keeps what it knows through every patch, so it *)
(* does through all of them, by induction on their number, in the form of  *)
(* the least counterexample.                                               *)

\* A set of naturals that has a member has a least one.
LEMMA LeastNatural ==
  ASSUME NEW T \in SUBSET Nat, T # {}
  PROVE  \E n \in T : \A m \in T : n <= m
<1> DEFINE R == OpToRel(<, Nat)
<1>1. IsWellFoundedOn(R, Nat)
  BY NatLessThanWellFounded
<1>2. \A m, n \in Nat : <<m, n>> \in R <=> m < n
  BY DEF OpToRel
<1> HIDE DEF R
<1>3. \E n \in T : \A m \in T : ~(<<m, n>> \in R)
  BY <1>1, WFMin
<1>4. PICK n \in T : \A m \in T : ~(<<m, n>> \in R)
  BY <1>3
<1>5. \A m \in T : ~(m < n)
  BY <1>2, <1>4
<1> QED
  BY <1>5

\* A set of places that is not empty has a first one.
LEMMA MinIsMember ==
  ASSUME NEW S \in SUBSET Nat, S # {}
  PROVE  Min(S) \in S
BY LeastNatural DEF Min

\* A sequence is one over its own elements, and a function of its indices.
LEMMA SequenceIsListed ==
  ASSUME NEW X, NEW s \in Seq(X)
  PROVE  s \in Seq(ToSet(s)) /\ Len(s) \in Nat /\ DOMAIN s = 1..Len(s)
<1>1. Len(s) \in Nat /\ DOMAIN s = 1..Len(s) /\ s = [i \in 1..Len(s) |-> s[i]]
  BY LenProperties
<1>2. \A i \in 1..Len(s) : s[i] \in ToSet(s)
  BY <1>1 DEF ToSet
<1>. QED BY <1>1, <1>2

\* A patch that joins an entry leaves its key and all that was known of it.
LEMMA JoinKnows ==
  ASSUME NEW list \in Lists, NEW e, NEW patch, KeyOf(list, e) = KeyOf(list, patch)
  PROVE  KnownOf(list, e) \subseteq KnownOf(list, Joined(list, e, patch))
<1>1. CASE list = "items"
  <2>1. DOMAIN e \subseteq DOMAIN Updated(e, patch)
    BY DEF Updated
  <2>2. Field(Updated(e, patch), "id") = Field(e, "id")
    <3>1. Field(e, "id") = Field(patch, "id")
      BY <1>1 DEF KeyOf
    <3>2. CASE "id" \in DOMAIN patch
      BY <3>1, <3>2 DEF Field, Updated
    <3>3. CASE "id" \notin DOMAIN patch
      BY <3>3 DEF Field, Updated
    <3>. QED BY <3>2, <3>3
  <2>. QED BY <1>1, <2>1, <2>2 DEF KnownOf, KeyOf, Joined
<1>2. CASE list # "items"
  BY <1>2 DEF KnownOf, KeyOf, Joined
<1>. QED BY <1>1, <1>2

\* One patch.
LEMMA MergeKnows ==
  ASSUME NEW list \in Lists, NEW X, NEW entries \in Seq(X), NEW patch
  PROVE  /\ Merged(list, entries, patch) \in Seq(ToSet(Merged(list, entries, patch)))
         /\ Known(list, entries) \subseteq Known(list, Merged(list, entries, patch))
<1> DEFINE same == {i \in DOMAIN entries : KeyOf(list, entries[i]) = KeyOf(list, patch)}
           merged == Merged(list, entries, patch)
<1>0. Len(entries) \in Nat /\ DOMAIN entries = 1..Len(entries)
  BY SequenceIsListed
<1>1. CASE same = {}
  <2>1. merged = Append(entries, patch)
    BY <1>1 DEF Merged
  <2>2. entries \in Seq(X \cup {patch}) /\ patch \in X \cup {patch}
    BY SeqMonotonic
  <2>3. /\ Append(entries, patch) \in Seq(X \cup {patch})
        /\ Len(Append(entries, patch)) = Len(entries) + 1
        /\ \A i \in 1..Len(entries) : Append(entries, patch)[i] = entries[i]
    BY <2>2, AppendProperties
  <2> HIDE DEF merged
  <2>4. merged \in Seq(ToSet(merged)) /\ DOMAIN merged = 1..(Len(entries) + 1)
    BY <2>1, <2>3, SequenceIsListed
  <2>5. \A i \in DOMAIN entries : i \in DOMAIN merged /\ merged[i] = entries[i]
    BY <1>0, <2>1, <2>3, <2>4
  <2>6. Known(list, entries) \subseteq Known(list, merged)
    BY <2>5 DEF Known
  <2>. QED BY <2>4, <2>6 DEF merged
<1>2. CASE same # {}
  <2>1. Min(same) \in same
    <3>1. same \in SUBSET Nat
      BY <1>0
    <3> HIDE DEF same
    <3>. QED BY <1>2, <3>1, MinIsMember
  <2> DEFINE k == Min(same)
             joined == Joined(list, entries[k], patch)
  <2>2. merged = [entries EXCEPT ![k] = joined]
    BY <1>2 DEF Merged
  <2>3. k \in 1..Len(entries) /\ KeyOf(list, entries[k]) = KeyOf(list, patch)
    BY <1>0, <2>1
  <2>4. KnownOf(list, entries[k]) \subseteq KnownOf(list, joined)
    BY <2>3, JoinKnows
  <2> HIDE DEF k, joined, merged
  <2>5. /\ DOMAIN merged = DOMAIN entries /\ merged[k] = joined
        /\ \A i \in DOMAIN entries \ {k} : merged[i] = entries[i]
    BY <1>0, <2>2, <2>3
  <2>6. merged \in Seq(X \cup {joined})
    <3>1. entries \in Seq(X \cup {joined}) /\ joined \in X \cup {joined}
      BY SeqMonotonic
    <3>. QED BY <2>2, <2>3, <3>1, ExceptSeq
  <2>7. merged \in Seq(ToSet(merged))
    BY <2>6, SequenceIsListed
  <2>8. ASSUME NEW i \in DOMAIN entries
        PROVE  KnownOf(list, entries[i]) \subseteq KnownOf(list, merged[i])
    BY <2>4, <2>5
  <2>9. Known(list, entries) \subseteq Known(list, merged)
    BY <2>5, <2>8 DEF Known
  <2>. QED BY <2>7, <2>9 DEF merged
<1>. QED BY <1>1, <1>2

\* f[n] is the list after n patches.
Folds(f, N, list, cached, written) ==
  /\ DOMAIN f = 0..N /\ f[0] = cached
  /\ \A n \in 1..N : f[n] = Merged(list, f[n - 1], written[n])

\* There is such a function for any number of patches.
LEMMA FoldExists ==
  ASSUME NEW N \in Nat, NEW list, NEW cached, NEW written
  PROVE  \E f : Folds(f, N, list, cached, written)
<1> DEFINE T == {m \in Nat : ~\E f : Folds(f, m, list, cached, written)}
<1>1. ASSUME T # {} PROVE FALSE
  <2>1. PICK m \in T : \A k \in T : m <= k
    <3>1. T \in SUBSET Nat
      OBVIOUS
    <3> HIDE DEF T
    <3>. QED BY <1>1, <3>1, LeastNatural
  <2>2. m \in Nat /\ ~\E f : Folds(f, m, list, cached, written)
    BY <2>1
  <2>3. CASE m = 0
    <3> DEFINE f == [n \in 0..0 |-> cached]
    <3>1. DOMAIN f = 0..m /\ f[0] = cached /\ 1..m = {}
      BY <2>3
    <3> HIDE DEF f
    <3>. QED BY <2>2, <3>1 DEF Folds
  <2>4. CASE m # 0
    <3>1. m - 1 \in Nat /\ ~(m <= m - 1)
      BY <2>2, <2>4
    <3>2. m - 1 \notin T
      <4> HIDE DEF T
      <4>. QED BY <2>1, <3>1
    <3>3. PICK f : Folds(f, m - 1, list, cached, written)
      BY <3>1, <3>2
    <3> DEFINE g == [n \in 0..m |-> IF n = m THEN Merged(list, f[m - 1], written[m]) ELSE f[n]]
    <3>4. DOMAIN g = 0..m /\ g[m] = Merged(list, f[m - 1], written[m])
      BY <2>2
    <3>5. \A n \in 0..m - 1 : g[n] = f[n]
      BY <2>2
    <3> HIDE DEF g
    <3>6. g[0] = cached
      BY <2>2, <2>4, <3>3, <3>5 DEF Folds
    <3>7. ASSUME NEW n \in 1..m PROVE g[n] = Merged(list, g[n - 1], written[n])
      <4>1. n - 1 \in 0..m - 1 /\ g[n - 1] = f[n - 1]
        BY <2>2, <3>5
      <4>2. CASE n = m
        BY <3>4, <4>1, <4>2
      <4>3. CASE n # m
        <5>1. n \in 1..m - 1 /\ n \in 0..m - 1
          BY <2>2, <4>3
        <5>2. f[n] = Merged(list, f[n - 1], written[n])
          BY <3>3, <5>1 DEF Folds
        <5>. QED BY <3>5, <4>1, <5>1, <5>2
      <4>. QED BY <4>2, <4>3
    <3>8. Folds(g, m, list, cached, written)
      BY <3>4, <3>6, <3>7 DEF Folds
    <3>. QED BY <2>2, <3>8
  <2>. QED BY <2>3, <2>4
<1>2. N \notin T
  BY <1>1
<1>. QED BY <1>2

\* What is folded is what the patches make of it, one by one.
LEMMA FoldedFolds ==
  ASSUME NEW list, NEW cached, NEW Y, NEW written \in Seq(Y)
  PROVE  \E f : /\ Folds(f, Len(written), list, cached, written)
               /\ Folded(list, cached, written) = f[Len(written)]
<1> DEFINE N == Len(written)
           Def(g) == g = [n \in 0..N |-> IF n = 0 THEN cached
                                         ELSE Merged(list, g[n - 1], written[n])]
<1>1. N \in Nat
  BY SequenceIsListed
<1>2. PICK f : Folds(f, N, list, cached, written)
  BY <1>1, FoldExists
<1>3. \E g : Def(g)
  <2> DEFINE g == [n \in 0..N |-> f[n]]
  <2>1. \A n \in 0..N : g[n] = IF n = 0 THEN cached ELSE Merged(list, g[n - 1], written[n])
    <3> SUFFICES ASSUME NEW n \in 0..N
                 PROVE  f[n] = IF n = 0 THEN cached ELSE Merged(list, g[n - 1], written[n])
      OBVIOUS
    <3>1. CASE n = 0
      BY <1>2, <3>1 DEF Folds
    <3>2. CASE n # 0
      <4>1. n \in 1..N /\ n - 1 \in 0..N
        BY <1>1, <3>2
      <4>2. g[n - 1] = f[n - 1]
        BY <4>1
      <4>. QED BY <1>2, <3>2, <4>1, <4>2 DEF Folds
    <3>. QED BY <3>1, <3>2
  <2>2. g = [n \in 0..N |-> g[n]]
    OBVIOUS
  <2> HIDE DEF g
  <2>3. Def(g)
    BY <2>1, <2>2
  <2>. QED BY <2>3
<1> DEFINE merged == CHOOSE g : Def(g)
<1>4. Def(merged)
  BY <1>3
<1>5. Folded(list, cached, written) = merged[N]
  BY DEF Folded
<1> HIDE DEF merged
<1>6. merged[0] = cached /\ \A n \in 1..N : n - 1 \in 0..N /\ merged[n] = Merged(list, merged[n - 1], written[n])
  <2>1. 0 \in 0..N /\ \A n \in 1..N : n \in 0..N /\ n - 1 \in 0..N /\ n # 0
    BY <1>1
  <2>. QED BY <1>4, <2>1
<1>7. DOMAIN merged = 0..N
  BY <1>4
<1>. QED BY <1>5, <1>6, <1>7 DEF Folds

\* All patches: the list stays a list and knows what it knew.
LEMMA FoldKnows ==
  ASSUME NEW list \in Lists, NEW X, NEW cached \in Seq(X), NEW Y, NEW written \in Seq(Y)
  PROVE  /\ Folded(list, cached, written) \in Seq(ToSet(Folded(list, cached, written)))
         /\ Known(list, cached) \subseteq Known(list, Folded(list, cached, written))
<1> DEFINE N == Len(written)
<1>1. N \in Nat
  BY SequenceIsListed
<1>2. PICK merged : Folds(merged, N, list, cached, written) /\ Folded(list, cached, written) = merged[N]
  BY FoldedFolds
<1>3. merged[0] = cached /\ \A n \in 1..N : n - 1 \in 0..N /\ merged[n] = Merged(list, merged[n - 1], written[n])
  BY <1>1, <1>2 DEF Folds
<1> HIDE DEF N
<1> DEFINE Good(s) == s \in Seq(ToSet(s)) /\ Known(list, cached) \subseteq Known(list, s)
           T == {n \in 0..N : ~Good(merged[n])}
<1>4. ASSUME T # {} PROVE FALSE
  <2>1. T \in SUBSET Nat
    BY <1>1
  <2>2. PICK n \in T : \A m \in T : n <= m
    <3> HIDE DEF T
    <3>. QED BY <1>4, <2>1, LeastNatural
  <2>3. n # 0
    <3>1. Good(cached)
      BY SequenceIsListed
    <3>. QED BY <1>3, <2>2, <3>1
  <2>4. n \in 1..N /\ n - 1 \in 0..N /\ n - 1 \notin T
    BY <1>1, <2>2, <2>3
  <2>5. Good(merged[n - 1]) /\ merged[n] = Merged(list, merged[n - 1], written[n])
    BY <1>3, <2>4
  <2>6. Good(merged[n])
    BY <2>5, MergeKnows
  <2>. QED BY <2>2, <2>6
<1>5. N \in 0..N
  BY <1>1
<1>. QED BY <1>2, <1>4, <1>5

\* A whole write: every list that was cached is still there, and knows what it
\* knew.
LEMMA FoldWriteKnows ==
  ASSUME NEW cached, NEW body, Listed(cached), Listed(body)
  PROVE  /\ Listed(FoldWrite(cached, body))
         /\ \A list \in Lists \cap DOMAIN cached :
              /\ list \in DOMAIN FoldWrite(cached, body)
              /\ Known(list, cached[list]) \subseteq Known(list, FoldWrite(cached, body)[list])
<1> DEFINE now == FoldWrite(cached, body)
<1>1. DOMAIN now = DOMAIN cached \cup DOMAIN body
  BY DEF FoldWrite
<1>2. ASSUME NEW list \in Lists \cap DOMAIN now
      PROVE  /\ now[list] \in Seq(ToSet(now[list]))
             /\ list \in DOMAIN cached => Known(list, cached[list]) \subseteq Known(list, now[list])
  <2>1. CASE list \notin DOMAIN body
    <3>1. now[list] = cached[list] /\ list \in DOMAIN cached
      BY <1>1, <2>1 DEF FoldWrite
    <3>. QED BY <3>1 DEF Listed
  <2>2. CASE list \in DOMAIN body /\ list \notin DOMAIN cached
    <3>1. now[list] = body[list]
      BY <1>1, <2>2 DEF FoldWrite
    <3>. QED BY <2>2, <3>1 DEF Listed
  <2>3. CASE list \in DOMAIN body /\ list \in DOMAIN cached
    <3>1. now[list] = Folded(list, cached[list], body[list])
      BY <1>1, <2>3 DEF FoldWrite
    <3>2. /\ cached[list] \in Seq(ToSet(cached[list]))
          /\ body[list] \in Seq(ToSet(body[list]))
      BY <2>3 DEF Listed
    <3> HIDE DEF now
    <3>. QED BY <3>1, <3>2, FoldKnows
  <2>. QED BY <2>1, <2>2, <2>3
<1>. QED BY <1>1, <1>2 DEF Listed

-----------------------------------------------------------------------------
(* The lists of the cache, of the appliance, of what is on its way and of  *)
(* the command are lists.                                                  *)

\* What the writers of a registry send: nothing, a refusal, or a representation
\* whose lists are lists (the write functions of registry/airconditioner.py).
WritersSendLists ==
  \A i \in DOMAIN Specs : Writable(Specs[i]) =>
    \A ask \in Asked : \A rep :
      Payload(Specs[i], ask[2], rep) \in {None, Refused}
        \/ Listed(Payload(Specs[i], ask[2], rep))

AllListed(dump) == \A h \in DOMAIN dump : Listed(dump[h])

ListsOK ==
  /\ AllListed(actual) /\ AllListed(resources)
  /\ \A n \in flight : Listed(n[2])
  /\ "body" \in DOMAIN command /\ (command.step # "none" => Listed(command.body))

LEMMA RepIsListed ==
  ASSUME NEW dump, AllListed(dump), NEW h
  PROVE  Listed(Rep(dump, h))
<1>1. CASE h \in DOMAIN dump
  BY <1>1 DEF AllListed, Rep
<1>2. CASE h \notin DOMAIN dump
  <2>1. Rep(dump, h) = <<>> /\ DOMAIN <<>> = {}
    BY <1>2 DEF Rep
  <2>. QED BY <2>1 DEF Listed
<1>. QED BY <1>1, <1>2

LEMMA StoredIsListed ==
  ASSUME NEW dump, AllListed(dump), NEW h, NEW rep, Listed(rep)
  PROVE  AllListed(Stored(dump, h, rep))
BY DEF AllListed, Stored

LEMMA WrittenIsListed ==
  ASSUME NEW dump, AllListed(dump), Listed(command.body)
  PROVE  AllListed(Written(dump))
<1> DEFINE h == command.spec.href
<1>1. Listed(Rep(dump, h))
  BY RepIsListed
<1>2. Listed(FoldWrite(Rep(dump, h), command.body))
  BY <1>1, FoldWriteKnows
<1>. QED BY <1>2, StoredIsListed DEF Written

\* What the appliance notifies of a change is listed as the change is.
LEMMA BecomesListed ==
  ASSUME NEW dump, AllListed(dump), Becomes(dump), \A n \in flight : Listed(n[2])
  PROVE  AllListed(actual)' /\ \A n \in flight' : Listed(n[2])
<1>1. actual' = dump
  BY DEF Becomes
<1>2. ASSUME NEW h \in Changed(actual, dump)
      PROVE  Listed(Notice(h, actual[h], dump[h])[2])
  <2>1. Listed(dump[h])
    BY DEF Changed, AllListed
  <2>2. Listed(ChangedFields(actual[h], dump[h]))
    BY <2>1 DEF Listed, ChangedFields
  <2>. QED BY <2>1, <2>2 DEF Notice
<1>3. \A n \in flight' :
        n \in flight \/ \E h \in Changed(actual, dump) : n = Notice(h, actual[h], dump[h])
  BY DEF Becomes
<1>. QED BY <1>1, <1>2, <1>3 DEF AllListed

\* A capability that is declared has a spec: one that applies, if any does, and
\* otherwise the first declared.
LEMMA SpecForIsSpec ==
  ASSUME NEW c \in Declared, NEW dump
  PROVE  \E i \in DOMAIN Specs :
           /\ SpecFor(c, dump) = Specs[i] /\ Specs[i].capability = c
           /\ IF c \in Wanted(dump) THEN i \in Applying(dump) ELSE i = DeclaredFor(c)
<1>1. DOMAIN Specs \subseteq Nat
  <2>1. Len(Specs) \in Nat /\ DOMAIN Specs = 1..Len(Specs)
    BY SpecsAssumption, SequenceIsListed
  <2>. QED BY <2>1
<1>2. ASSUME NEW S \in SUBSET DOMAIN Specs, S # {} PROVE Min(S) \in S
  <2>1. \E n \in S : \A m \in S : n <= m
    BY <1>1, <1>2, LeastNatural
  <2>. QED BY <2>1 DEF Min
<1>3. CASE c \in Wanted(dump)
  <2> DEFINE S == {i \in Applying(dump) : Specs[i].capability = c}
  <2>1. S # {} /\ S \in SUBSET DOMAIN Specs
    BY <1>3 DEF Wanted, Applying
  <2>2. Place(c, dump) = Min(S)
    BY DEF Place
  <2>3. Min(S) \in S
    <3> HIDE DEF S
    <3>. QED BY <1>2, <2>1
  <2>4. Place(c, dump) \in S
    BY <2>2, <2>3
  <2>. QED BY <1>3, <2>1, <2>4 DEF SpecFor
<1>4. CASE c \notin Wanted(dump)
  <2> DEFINE S == {i \in DOMAIN Specs : Specs[i].capability = c}
  <2>1. S # {} /\ S \in SUBSET DOMAIN Specs
    BY DEF Declared
  <2>2. DeclaredFor(c) = Min(S)
    BY DEF DeclaredFor
  <2>3. Min(S) \in S
    <3> HIDE DEF S
    <3>. QED BY <1>2, <2>1
  <2>4. DeclaredFor(c) \in S
    BY <2>2, <2>3
  <2>. QED BY <1>4, <2>4 DEF SpecFor
<1>. QED BY <1>3, <1>4

\* One case per action that changes a list, or sends one.
LEMMA ListsStep ==
  ASSUME WritersSendLists
  PROVE  IInv /\ ListsOK /\ [Next]_vars => ListsOK'
<1> SUFFICES ASSUME IInv, ListsOK, [Next]_vars PROVE ListsOK'
  OBVIOUS
<1> USE DEF appliance
<1>1. CASE Operated
  <2>1. PICK step \in Steps : Becomes(Replaced(actual, step[1], step[3]))
    BY <1>1 DEF Operated
  <2>2. AllListed(Replaced(actual, step[1], step[3]))
    <3>1. CASE step[3] = None
      BY <3>1 DEF Replaced, AllListed, ListsOK
    <3>2. CASE step[3] # None
      <4>1. Listed(step[3])
        BY <3>2, ListsAssumption
      <4>. QED BY <3>2, <4>1, StoredIsListed DEF Replaced, ListsOK
    <3>. QED BY <3>1, <3>2
  <2>3. AllListed(actual)' /\ \A n \in flight' : Listed(n[2])
    BY <2>1, <2>2, BecomesListed DEF ListsOK
  <2>4. resources' = resources /\ command' = command
    BY <1>1 DEF Operated, device
  <2>5. /\ AllListed(resources)' /\ "body" \in DOMAIN command'
        /\ command'.step # "none" => Listed(command'.body)
    BY <2>4 DEF ListsOK, AllListed
  <2>. QED BY <2>3, <2>5 DEF ListsOK
<1>2. CASE \E r \in Readers : Read(r)
  BY <1>2 DEF Read, ListsOK, AllListed
<1>3. CASE \E n \in flight : Notified(n)
  <2>1. PICK n \in flight : Notified(n)
    BY <1>3
  <2>2. AllListed(resources)'
    <3>1. CASE resources' = resources
      BY <3>1 DEF ListsOK, AllListed
    <3>2. CASE resources' = Pushed(resources, n[1], n[2])
      <4>1. Listed(n[2]) /\ Listed(Rep(resources, n[1]))
        BY RepIsListed DEF ListsOK
      <4>2. Listed(Take(Rep(resources, n[1]), n[1], n[2]))
        BY <4>1 DEF Take, Updated, Listed
      <4>3. AllListed(Pushed(resources, n[1], n[2]))
        BY <4>2, StoredIsListed DEF Pushed, ListsOK
      <4>. QED BY <3>2, <4>3 DEF AllListed
    <3>. QED BY <2>1, <3>1, <3>2 DEF Notified
  <2>. QED BY <2>1, <2>2 DEF Notified, ListsOK, AllListed
<1>4. CASE Commanded
  <2>1. UNCHANGED <<appliance, resources>>
    BY <1>4 DEF Commanded
  <2>2. /\ "body" \in DOMAIN command'
        /\ command'.step # "none" => Listed(command'.body)
    <3>1. PICK ask \in Asked :
            /\ ask[1] \in heard
            /\ LET s == SpecFor(ask[1], resources)
                   rep == Rep(resources, s.href)
                   body == Payload(s, ask[2], rep)
               IN  command' = command
                   \/ /\ Writable(s) /\ body \notin {None, Refused}
                      /\ command' = [step |-> "queued", ask |-> ask, spec |-> s, body |-> body]
      BY <1>4 DEF Commanded
    <3>2. ask[1] \in Declared
      BY <3>1 DEF IInv, HomeyOK
    <3> DEFINE s == SpecFor(ask[1], resources)
               body == Payload(s, ask[2], Rep(resources, s.href))
    <3>3. PICK i \in DOMAIN Specs : s = Specs[i]
      BY <3>2, SpecForIsSpec
    <3>4. CASE command' = command
      BY <3>4 DEF ListsOK
    <3>5. CASE /\ Writable(s) /\ body \notin {None, Refused}
               /\ command' = [step |-> "queued", ask |-> ask, spec |-> s, body |-> body]
      <4>1. Listed(body)
        BY <3>3, <3>5 DEF WritersSendLists
      <4>. QED BY <3>5, <4>1
    <3>. QED BY <3>1, <3>4, <3>5
  <2>. QED BY <2>1, <2>2 DEF ListsOK, AllListed
<1>5. CASE Answered
  <2>1. command.step = "queued" /\ Listed(command.body) /\ resources' = resources
    BY <1>5 DEF Answered, ListsOK, device
  <2>2. /\ command'.step # "none" => command'.body = command.body
        /\ "body" \in DOMAIN command'
    BY <1>5 DEF Answered, NoCommand, ListsOK
  <2>3. AllListed(actual)' /\ \A n \in flight' : Listed(n[2])
    <3>1. CASE Becomes(Written(actual))
      <4>1. AllListed(Written(actual))
        BY <2>1, WrittenIsListed DEF ListsOK
      <4>. QED BY <3>1, <4>1, BecomesListed DEF ListsOK
    <3>2. CASE UNCHANGED appliance
      BY <3>2 DEF ListsOK, AllListed
    <3>. QED BY <1>5, <3>1, <3>2 DEF Answered
  <2>. QED BY <2>1, <2>2, <2>3 DEF ListsOK, AllListed
<1>6. CASE Returns
  <2>1. AllListed(Written(resources))
    BY <1>6, WrittenIsListed DEF Returns, ListsOK
  <2>2. resources' = Written(resources) /\ command' = NoCommand /\ UNCHANGED appliance
    BY <1>6 DEF Returns
  <2>. QED BY <2>1, <2>2 DEF ListsOK, AllListed, NoCommand
<1>7. CASE Restarts
  BY <1>7 DEF Restarts, ListsOK, AllListed, NoCommand
<1>8. CASE UNCHANGED <<appliance, resources, command>>
  BY <1>8 DEF ListsOK, AllListed
<1>9. ASSUME \/ \E r \in Readers : Syncs(r) /\ ~Read(r)
             \/ \E t \in Tasks : Begins(t)
             \/ \E r \in Coroutines : Carries(r) \/ Fails(r)
             \/ \E h \in settling : GuardEnds(h)
             \/ UNCHANGED vars
      PROVE  UNCHANGED <<appliance, resources, command>>
  BY <1>9 DEF Syncs, Resolved, Adds, Removes, Listens, Options, Sets, Settled, Begins, Carries,
              AppliesNext, FiresNext, Ends, Fails, GuardEnds, vars, device
<1>. QED BY <1>1, <1>2, <1>3, <1>4, <1>5, <1>6, <1>7, <1>8, <1>9 DEF Next, Syncs

\* Nothing is in the cache at first, and the appliance reports lists.
LEMMA ListsInit == Init => ListsOK
BY ListsAssumption DEF Init, ListsOK, AllListed, NoCommand

\* A resource that is left alone forgets nothing.
LEMMA SameKnows ==
  ASSUME NEW h \in DOMAIN resources, NEW list \in DOMAIN resources[h],
         h \in DOMAIN resources', resources'[h] = resources[h]
  PROVE  KeepsOrIsTold(h, list)
BY DEF KeepsOrIsTold, Rep

\* No write takes anything out of a list of the cache, for any registry, any
\* cached list and anything its writers send, however many entries and tokens
\* that names; what a notification takes out, the appliance itself left out of
\* the list that it sent (_fold_write_into, _on_notification).
THEOREM WritesForgetNothing ==
  ASSUME WritersSendLists
  PROVE  Spec => NothingForgotten
<1>1. ASSUME IInv, ListsOK, [Next]_vars
      PROVE  \/ (\E r \in Readers : Read(r)) \/ Restarts
             \/ \A h \in DOMAIN resources \ {Alarms} :
                  \A list \in Lists \cap DOMAIN resources[h] : KeepsOrIsTold(h, list)
  <2> SUFFICES ASSUME ~\E r \in Readers : Read(r), ~Restarts,
                      NEW h \in DOMAIN resources \ {Alarms},
                      NEW list \in Lists \cap DOMAIN resources[h]
               PROVE  KeepsOrIsTold(h, list)
    OBVIOUS
  <2>1. CASE UNCHANGED resources
    BY <2>1, SameKnows
  <2>2. CASE \E n \in flight : Notified(n)
    <3>1. PICK n \in flight : Notified(n)
      BY <2>2
    <3>2. CASE resources' = Pushed(resources, n[1], n[2])
      <4>1. CASE h = n[1]
        <5> DEFINE now == Updated(resources[h], n[2])
        <5>1. h \in DOMAIN resources' /\ resources'[h] = now
          BY <3>2, <4>1 DEF Pushed, Stored, Take, Rep
        <5>2. list \in DOMAIN now /\ Rep(resources', h) = now
          BY <5>1 DEF Updated, Rep
        <5>3. CASE list \in DOMAIN n[2]
          <6>1. now[list] = n[2][list]
            BY <5>3 DEF Updated
          <6>2. n \in flight \ flight'
            BY <3>1 DEF Notified
          <6> HIDE DEF now
          <6>. QED BY <4>1, <5>2, <5>3, <6>1, <6>2 DEF KeepsOrIsTold
        <5>4. CASE list \notin DOMAIN n[2]
          <6>1. now[list] = resources[h][list]
            BY <5>4 DEF Updated
          <6> HIDE DEF now
          <6>. QED BY <5>2, <6>1 DEF KeepsOrIsTold
        <5>. QED BY <5>3, <5>4
      <4>2. CASE h # n[1]
        <5>1. h \in DOMAIN resources' /\ resources'[h] = resources[h]
          BY <3>2, <4>2 DEF Pushed, Stored
        <5>. QED BY <5>1, SameKnows
      <4>. QED BY <4>1, <4>2
    <3>. QED BY <2>1, <3>1, <3>2 DEF Notified
  <2>3. CASE Returns
    <3> DEFINE g == command.spec.href
    <3>1. resources' = Written(resources) /\ Listed(command.body)
      BY <1>1, <2>3 DEF Returns, ListsOK
    <3>2. CASE h = g
      <4> DEFINE now == FoldWrite(resources[h], command.body)
      <4>1. h \in DOMAIN resources' /\ resources'[h] = now
        BY <3>1, <3>2 DEF Written, Stored, Rep
      <4>2. Listed(resources[h])
        BY <1>1 DEF ListsOK, AllListed
      <4>3. list \in DOMAIN now /\ Known(list, resources[h][list]) \subseteq Known(list, now[list])
        BY <3>1, <4>2, FoldWriteKnows
      <4>4. Rep(resources', h) = now
        BY <4>1 DEF Rep
      <4> HIDE DEF now
      <4>. QED BY <4>3, <4>4 DEF KeepsOrIsTold
    <3>3. CASE h # g
      <4>1. h \in DOMAIN resources' /\ resources'[h] = resources[h]
        BY <3>1, <3>3 DEF Written, Stored
      <4>. QED BY <4>1, SameKnows
    <3>. QED BY <3>2, <3>3
  <2>4. ASSUME \/ Operated \/ Commanded \/ Answered
               \/ \E r \in Readers : Syncs(r)
               \/ \E t \in Tasks : Begins(t)
               \/ \E r \in Coroutines : Carries(r) \/ Fails(r)
               \/ \E k \in settling : GuardEnds(k)
               \/ UNCHANGED vars
        PROVE  UNCHANGED resources
    BY <2>4 DEF Operated, Commanded, Answered, Syncs, Resolved, Adds, Removes, Listens, Options,
                Sets, Settled, Begins, Carries, AppliesNext, FiresNext, Ends, Fails, GuardEnds,
                vars, device
  <2>. QED BY <1>1, <2>1, <2>2, <2>3, <2>4 DEF Next
<1> DEFINE Keeping == \/ (\E r \in Readers : Read(r)) \/ Restarts
                      \/ \A h \in DOMAIN resources \ {Alarms} :
                           \A list \in Lists \cap DOMAIN resources[h] : KeepsOrIsTold(h, list)
<1>2. IInv /\ ListsOK /\ [Next]_vars => [Keeping]_vars
  BY <1>1
<1>3. IInv /\ ListsOK /\ [Next]_vars => ListsOK'
  BY ListsStep
<1> HIDE DEF Keeping
<1>4. Spec => [][Keeping]_vars
  BY <1>2, <1>3, ListsInit, InvariantHolds, PTL DEF Spec
<1>. QED BY <1>4 DEF Keeping, NothingForgotten

-----------------------------------------------------------------------------
(* One patch of one list. *)

\* Folding one patch is merging it.
LEMMA OneFold ==
  ASSUME NEW list, NEW entries, NEW patch
  PROVE  Folded(list, entries, <<patch>>) = Merged(list, entries, patch)
<1>1. <<patch>> \in Seq({patch}) /\ Len(<<patch>>) = 1 /\ <<patch>>[1] = patch
  OBVIOUS
<1>2. PICK f : Folds(f, 1, list, entries, <<patch>>) /\ Folded(list, entries, <<patch>>) = f[1]
  BY <1>1, FoldedFolds
<1>3. f[1] = Merged(list, f[0], patch) /\ f[0] = entries
  BY <1>1, <1>2 DEF Folds
<1>. QED BY <1>2, <1>3

\* The places of a key in a list.
PlacesOf(list, key, entries) == {i \in DOMAIN entries : KeyOf(list, entries[i]) = key}

\* After one patch the first entry with its key is the one that it joined, or
\* the patch itself.
LEMMA PatchIsFound ==
  ASSUME NEW list \in Lists, NEW X, NEW entries \in Seq(X), NEW patch,
         list = "items" => "id" \in DOMAIN patch
  PROVE  LET key == KeyOf(list, patch)
             now == Folded(list, entries, <<patch>>)
             was == PlacesOf(list, key, entries)
         IN  /\ PlacesOf(list, key, now) # {}
             /\ now[Min(PlacesOf(list, key, now))]
                  = IF was = {} THEN patch ELSE Joined(list, entries[Min(was)], patch)
<1> DEFINE key == KeyOf(list, patch)
           now == Merged(list, entries, patch)
           was == PlacesOf(list, key, entries)
           at == PlacesOf(list, key, now)
<1>0. /\ Len(entries) \in Nat /\ DOMAIN entries = 1..Len(entries)
      /\ Folded(list, entries, <<patch>>) = now
      /\ was = {i \in DOMAIN entries : KeyOf(list, entries[i]) = KeyOf(list, patch)}
  BY SequenceIsListed, OneFold DEF PlacesOf
<1>1. CASE was = {}
  <2>1. now = Append(entries, patch)
    BY <1>0, <1>1 DEF Merged
  <2>2. entries \in Seq(X \cup {patch}) /\ patch \in X \cup {patch}
    BY SeqMonotonic
  <2>3. /\ Append(entries, patch) \in Seq(X \cup {patch})
        /\ Len(Append(entries, patch)) = Len(entries) + 1
        /\ Append(entries, patch)[Len(entries) + 1] = patch
        /\ \A i \in 1..Len(entries) : Append(entries, patch)[i] = entries[i]
    BY <2>2, AppendProperties
  <2>4. DOMAIN now = 1..(Len(entries) + 1)
    BY <2>1, <2>3, SequenceIsListed
  <2>5. \A i \in 1..Len(entries) : i \notin at
    BY <1>0, <1>1, <2>1, <2>3 DEF PlacesOf
  <2>6. at = {Len(entries) + 1}
    BY <1>0, <2>1, <2>3, <2>4, <2>5 DEF PlacesOf
  <2>7. Min(at) \in at
    <3> HIDE DEF at
    <3>1. at \in SUBSET Nat /\ at # {}
      BY <1>0, <2>6
    <3>. QED BY <3>1, MinIsMember
  <2>8. Min(at) = Len(entries) + 1
    <3> HIDE DEF at
    <3>. QED BY <2>6, <2>7
  <2>9. at # {} /\ now[Min(at)] = patch
    <3> HIDE DEF at, now
    <3>. QED BY <2>1, <2>3, <2>6, <2>8
  <2>. QED BY <1>0, <1>1, <2>9
<1>2. CASE was # {}
  <2>1. Min(was) \in was
    <3>1. was \in SUBSET Nat
      BY <1>0
    <3> HIDE DEF was
    <3>. QED BY <1>2, <3>1, MinIsMember
  <2> DEFINE k == Min(was)
             joined == Joined(list, entries[k], patch)
  <2>2. now = [entries EXCEPT ![k] = joined]
    BY <1>0, <1>2 DEF Merged
  <2>3. k \in DOMAIN entries /\ KeyOf(list, entries[k]) = key
    BY <2>1 DEF PlacesOf
  <2>4. KeyOf(list, joined) = key
    BY DEF KeyOf, Joined, Updated, Field, Lists
  <2> HIDE DEF k, joined
  <2>5. /\ DOMAIN now = DOMAIN entries /\ now[k] = joined
        /\ \A i \in DOMAIN entries \ {k} : now[i] = entries[i]
    BY <2>2, <2>3
  <2> HIDE DEF now
  <2>6. at = was
    BY <2>3, <2>4, <2>5 DEF PlacesOf
  <2>. QED BY <1>0, <1>2, <2>5, <2>6 DEF k, joined
<1>. QED BY <1>1, <1>2

\* The first entry of now's list with this key is what the patch made of the
\* one that rep had.
Patched(list, key, patch, rep, now) ==
  /\ list \in DOMAIN now /\ PlacesOf(list, key, now[list]) # {}
  /\ now[list][Min(PlacesOf(list, key, now[list]))]
       = IF list \notin DOMAIN rep \/ PlacesOf(list, key, rep[list]) = {} THEN patch
         ELSE Joined(list, rep[list][Min(PlacesOf(list, key, rep[list]))], patch)

\* A list that is written with one patch.
LEMMA ListWrite ==
  ASSUME NEW rep, Listed(rep), NEW list \in Lists, NEW patch, NEW body, DOMAIN body = {list},
         body[list] = <<patch>>, list = "items" => "id" \in DOMAIN patch,
         NEW now, now = FoldWrite(rep, body), NEW key, key = KeyOf(list, patch)
  PROVE  Patched(list, key, patch, rep, now)
<1>1. list \in DOMAIN now
  BY DEF FoldWrite
<1>2. CASE list \in DOMAIN rep
  <2>1. now[list] = Folded(list, rep[list], <<patch>>)
    BY <1>2 DEF FoldWrite
  <2>2. rep[list] \in Seq(ToSet(rep[list]))
    BY <1>2 DEF Listed
  <2>. QED BY <1>1, <1>2, <2>1, <2>2, PatchIsFound DEF Patched
<1>3. CASE list \notin DOMAIN rep
  <2>1. now[list] = <<patch>>
    BY <1>3 DEF FoldWrite
  <2> DEFINE at == PlacesOf(list, key, now[list])
  <2>2. at = {1}
    BY <2>1 DEF PlacesOf
  <2>3. Min(at) \in at
    <3>1. at \in SUBSET Nat /\ at # {}
      BY <2>2
    <3> HIDE DEF at
    <3>. QED BY <3>1, MinIsMember
  <2>4. Min(at) = 1
    <3> HIDE DEF at
    <3>. QED BY <2>2, <2>3
  <2>. QED BY <1>1, <1>3, <2>1, <2>2, <2>4 DEF Patched
<1>. QED BY <1>2, <1>3

\* A field that is no list is replaced, and the others are left alone.
LEMMA RepOfStored == \A dump, href, rep : Rep(Stored(dump, href, rep), href) = rep
BY DEF Rep, Stored

LEMMA PlainWrite ==
  ASSUME NEW rep, NEW body, NEW f \in DOMAIN body, f \notin Lists
  PROVE  /\ f \in DOMAIN FoldWrite(rep, body) /\ FoldWrite(rep, body)[f] = body[f]
         /\ Field(FoldWrite(rep, body), f) = body[f]
         /\ \A g : g \notin DOMAIN body =>
              /\ Field(FoldWrite(rep, body), g) = Field(rep, g)
              /\ g \in DOMAIN FoldWrite(rep, body) <=> g \in DOMAIN rep
              /\ g \in DOMAIN rep => FoldWrite(rep, body)[g] = rep[g]
BY DEF FoldWrite, Field

-----------------------------------------------------------------------------
(* The air conditioner: each kind of control reads back what it writes. *)

\* Quotient, remainder, and the multiple after a multiple.
LEMMA Division ==
  ASSUME NEW n \in Int, NEW step \in Nat \ {0}
  PROVE  /\ n \div step \in Int /\ n % step \in 0..(step - 1)
         /\ n = (n \div step) * step + (n % step)
<1>1. n \div step \in Int
  OBVIOUS
<1>2. n % step \in 0..(step - 1)
  OBVIOUS
<1>3. n = (n \div step) * step + (n % step)
  OBVIOUS
<1>. QED BY <1>1, <1>2, <1>3

LEMMA NextMultiple == \A k, step \in Int : k * step \in Int /\ (k + 1) * step = k * step + step
OBVIOUS

\* What a setpoint is snapped to is a multiple of the step, and none is nearer
\* (_write_target_temp).
THEOREM SnapIsNearest ==
  ASSUME NEW n \in Int, NEW step \in Nat \ {0}
  PROVE  /\ \E k \in Int : Snap(n, step) = k * step
         /\ 2 * (Snap(n, step) - n) \in -step..step
<1> DEFINE k == n \div step  m == n % step  below == k * step
           up == 2 * m > step \/ (2 * m = step /\ k % 2 = 1)
<1>1. k \in Int /\ k + 1 \in Int /\ m \in 0..(step - 1) /\ n = below + m
  BY Division
<1>2. below \in Int /\ (k + 1) * step = below + step
  BY <1>1, NextMultiple
<1>3. CASE up
  <2>1. Snap(n, step) = (k + 1) * step
    BY <1>3 DEF Snap
  <2>2. 2 * (Snap(n, step) - n) \in -step..step
    <3> HIDE DEF below, m, k
    <3>. QED BY <1>1, <1>2, <1>3, <2>1
  <2>3. \E j \in Int : Snap(n, step) = j * step
    BY <1>1, <2>1
  <2>. QED BY <2>2, <2>3
<1>4. CASE ~up
  <2>1. Snap(n, step) = below /\ 2 * m <= step
    BY <1>1, <1>4 DEF Snap
  <2>2. 2 * (Snap(n, step) - n) \in -step..step
    <3> HIDE DEF below, m, k
    <3>. QED BY <1>1, <1>2, <2>1
  <2>3. \E j \in Int : Snap(n, step) = j * step
    BY <1>1, <2>1
  <2>. QED BY <2>2, <2>3
<1>. QED BY <1>3, <1>4

\* A line reads back what it writes.
ReadsBack(s) ==
  LET r == s.read  w == s.write
  IN  \/ w[1] \in {"flag", "mode", "fan"} /\ r = w /\ (w[1] = "flag" => w[2] \notin Lists)
      \/ w[1] = "enum" /\ w[2] \notin Lists /\ r = <<"enum", w[2], w[3]>>
      \/ w[1] = "light" /\ r = <<"token_is", "Light", Lit>>
      \/ w[1] = "setpoint" /\ r = <<"item", "desired">>

\* What a command takes for granted: a value of the kind that is asked for, and
\* that the unit counts in the steps, and has the fan codes, that the cache has of
\* it, with an entry 0 where a setpoint goes and one code for one speed.
Understood(s, value, cached, rep) ==
  /\ Listed(rep)
  /\ s.write[1] \in {"flag", "light"} => value \in BOOLEAN
  /\ s.write[1] = "setpoint" =>
       /\ value \in Int /\ Zero(rep) # {}
       /\ StepOf(cached) \in Nat \ {0} /\ StepOf(rep) = StepOf(cached)
  /\ s.write[1] = "fan" =>
       /\ FanCodes(rep) = FanCodes(cached) /\ FanNames(rep) \in Seq(STRING)
       /\ \A a, b \in DOMAIN FanCodes(rep) : FanCodes(rep)[a] = FanCodes(rep)[b] => a = b

LEMMA FlagReadsBack ==
  ASSUME NEW s, ReadsBack(s), s.write[1] = "flag", NoneIsApart, NEW value \in BOOLEAN,
         NEW rep, NEW cached, NEW after,
         Rep(after, s.href) = FoldWrite(rep, AcPayload(s, value, cached))
  PROVE  AcReads(s, after) = value
<1>1. s.read = s.write /\ s.write[2] \notin Lists
  BY DEF ReadsBack
<1>2. AcPayload(s, value, cached) = [f \in {s.write[2]} |-> OnOff(value)]
  BY DEF AcPayload
<1>3. Field(Rep(after, s.href), s.write[2]) = OnOff(value)
  BY <1>1, <1>2, PlainWrite
<1>4. AcReads(s, after) = Is(OnOff(value), "On")
  BY <1>1, <1>3 DEF AcReads
<1>5. "On" # None /\ "Off" # None
  BY DEF NoneIsApart
<1>6. CASE value = TRUE
  BY <1>4, <1>5, <1>6 DEF NoneIsApart, Is, OnOff
<1>7. CASE value = FALSE
  BY <1>4, <1>5, <1>7 DEF NoneIsApart, Is, OnOff
<1>. QED BY <1>6, <1>7

LEMMA EnumReadsBack ==
  ASSUME NEW s, ReadsBack(s), s.write[1] = "enum", NEW value, NEW rep, NEW cached,
         AcPayload(s, value, cached) \notin {None, Refused}, NEW after,
         Rep(after, s.href) = FoldWrite(rep, AcPayload(s, value, cached))
  PROVE  AcReads(s, after) = value
<1>1. s.read = <<"enum", s.write[2], s.write[3]>> /\ s.write[2] \notin Lists
  BY DEF ReadsBack
<1>2. value \in s.write[3] /\ AcPayload(s, value, cached) = [f \in {s.write[2]} |-> value]
  BY DEF AcPayload
<1>3. Field(Rep(after, s.href), s.write[2]) = value
  BY <1>1, <1>2, PlainWrite
<1>. QED BY <1>1, <1>2, <1>3 DEF AcReads

LEMMA ModeReadsBack ==
  ASSUME NEW s, ReadsBack(s), s.write[1] = "mode", NoneIsApart, NEW value, NEW rep, NEW cached,
         AcPayload(s, value, cached) \notin {None, Refused}, NEW after,
         Rep(after, s.href) = FoldWrite(rep, AcPayload(s, value, cached))
  PROVE  AcReads(s, after) = value
<1>1. s.read = s.write
  BY DEF ReadsBack
<1>2. value \in s.write[2] /\ AcPayload(s, value, cached) = [modes |-> <<value>>]
  BY DEF AcPayload
<1>3. /\ Field(Rep(after, s.href), "modes") = <<value>>
      /\ Rep(after, s.href)["modes"] = <<value>>
  <2>1. "modes" \notin Lists
    BY DEF Lists
  <2>. QED BY <1>2, <2>1, PlainWrite
<1>4. <<value>> \notin {None, <<>>} /\ Head(<<value>>) = value
  <2>1. <<value>> # <<>> /\ Head(<<value>>) = value
    OBVIOUS
  <2>. QED BY <2>1 DEF NoneIsApart
<1>. QED BY <1>1, <1>2, <1>3, <1>4 DEF AcReads

\* The fan codes hang on two fields.
LEMMA SameFan ==
  ASSUME NEW rep, NEW now,
         \A g \in {"names", "supported"} :
           (g \in DOMAIN now <=> g \in DOMAIN rep) /\ (g \in DOMAIN rep => now[g] = rep[g])
  PROVE  FanNames(now) = FanNames(rep) /\ FanCodes(now) = FanCodes(rep)
<1>1. FanNames(now) = FanNames(rep)
  BY DEF FanNames
<1>2. (IF "supported" \in DOMAIN now THEN now["supported"] ELSE <<>>)
        = (IF "supported" \in DOMAIN rep THEN rep["supported"] ELSE <<>>)
  OBVIOUS
<1>. QED BY <1>1, <1>2, Zenon DEF FanCodes

LEMMA FanReadsBack ==
  ASSUME NEW s, ReadsBack(s), s.write[1] = "fan", NEW value, NEW rep, NEW cached,
         AcPayload(s, value, cached) # None, Understood(s, value, cached, rep), NEW after,
         Rep(after, s.href) = FoldWrite(rep, AcPayload(s, value, cached))
  PROVE  AcReads(s, after) = value
<1> DEFINE now == Rep(after, s.href)
           names == FanNames(rep)
           codes == FanCodes(rep)
<1>1. s.read = s.write
  BY DEF ReadsBack
<1>2. value \in DOMAIN codes /\ AcPayload(s, value, cached) = [modes |-> codes[value]]
  BY DEF AcPayload, Understood
<1>3. /\ Field(now, "modes") = codes[value]
      /\ \A g \in {"names", "supported"} :
           (g \in DOMAIN now <=> g \in DOMAIN rep) /\ (g \in DOMAIN rep => now[g] = rep[g])
  <2>1. "modes" \notin Lists
    BY DEF Lists
  <2>. QED BY <1>2, <2>1, PlainWrite
<1>4. FanNames(now) = names /\ FanCodes(now) = codes
  <2> HIDE DEF now
  <2>. QED BY <1>3, SameFan
<1> DEFINE at == {j \in DOMAIN names :
                   /\ names[j] \in DOMAIN Alias /\ Alias[names[j]] \in DOMAIN codes
                   /\ codes[Alias[names[j]]] = codes[value]}
<1>5. \E j \in DOMAIN names : names[j] \in DOMAIN Alias /\ Alias[names[j]] = value
  BY <1>2 DEF FanCodes
<1>6. \A j \in at : Alias[names[j]] = value
  BY <1>2 DEF Understood
<1>7. Min(at) \in at
  <2>1. at \in SUBSET Nat
    BY SequenceIsListed DEF Understood
  <2>2. at # {}
    BY <1>2, <1>5
  <2> HIDE DEF at
  <2>. QED BY <2>1, <2>2, MinIsMember
<1>8. FanAt(now) = value
  <2>1. FanAt(now) = IF at = {} THEN None ELSE Alias[names[Min(at)]]
    BY <1>3, <1>4 DEF FanAt
  <2> HIDE DEF at
  <2>. QED BY <1>6, <1>7, <2>1
<1>. QED BY <1>1, <1>8 DEF AcReads

LEMMA LightReadsBack ==
  ASSUME NEW s, ReadsBack(s), s.write[1] = "light", NoneIsApart, NEW value \in BOOLEAN,
         NEW rep, Listed(rep), NEW cached, NEW after,
         Rep(after, s.href) = FoldWrite(rep, AcPayload(s, value, cached))
  PROVE  AcReads(s, after) = value
<1> DEFINE now == Rep(after, s.href)
           patch == LightToken(value)
           at == {i \in DOMAIN now["options"] : now["options"][i][1] = "Light"}
           was == PlacesOf("options", "Light", rep["options"])
<1>1. s.read = <<"token_is", "Light", Lit>>
  BY DEF ReadsBack
<1>2. AcPayload(s, value, cached) = [options |-> <<patch>>]
  BY DEF AcPayload
<1>3. patch[1] = "Light" /\ patch[2] = IF value THEN Lit ELSE Dark
  BY DEF LightToken
<1>4. KeyOf("options", patch) = "Light" /\ PlacesOf("options", "Light", now["options"]) = at
  BY <1>3 DEF KeyOf, PlacesOf
<1>5. /\ "options" \in DOMAIN now /\ at # {}
      /\ now["options"][Min(at)] = patch
  <2>1. /\ "options" \in DOMAIN now /\ PlacesOf("options", "Light", now["options"]) # {}
        /\ now["options"][Min(PlacesOf("options", "Light", now["options"]))]
             = IF "options" \notin DOMAIN rep \/ was = {} THEN patch
               ELSE Joined("options", rep["options"][Min(was)], patch)
    <3>1. "options" \in Lists /\ "options" # "items"
      BY DEF Lists
    <3> DEFINE body == [options |-> <<patch>>]
    <3>2. DOMAIN body = {"options"} /\ body["options"] = <<patch>>
      OBVIOUS
    <3>3. now = FoldWrite(rep, body) /\ "Light" = KeyOf("options", patch)
      BY <1>2, <1>4
    <3> HIDE DEF body, patch, now
    <3>4. Patched("options", "Light", patch, rep, now)
      BY <3>1, <3>2, <3>3, ListWrite
    <3>. QED BY <3>4 DEF Patched, was
  <2>2. Joined("options", rep["options"][Min(was)], patch) = patch
    BY DEF Joined
  <2> HIDE DEF now, at, patch, was
  <2>. QED BY <1>4, <2>1, <2>2
<1> HIDE DEF now, at, patch
<1>6. Token(now, "Light") = IF value THEN Lit ELSE Dark
  BY <1>3, <1>5 DEF Token, Tokens, at
<1>7. AcReads(s, after) = Is(Token(now, "Light"), Lit)
  BY <1>1 DEF AcReads, now
<1>8. CASE value = TRUE
  BY <1>6, <1>7, <1>8 DEF NoneIsApart, Is, Lit, Dark
<1>9. CASE value = FALSE
  BY <1>6, <1>7, <1>9 DEF NoneIsApart, Is, Lit, Dark
<1>. QED BY <1>8, <1>9

\* A setpoint goes into the entry 0 and leaves the step of the unit.
LEMMA SetpointWrite ==
  ASSUME NEW rep, Listed(rep), Zero(rep) # {}, NEW x, NEW patch, patch = [id |-> "0", desired |-> x],
         NEW body, body = [items |-> <<patch>>], NEW now, now = FoldWrite(rep, body)
  PROVE  /\ FirstItem(now) = Updated(FirstItem(rep), patch)
         /\ Zero(now) # {} /\ StepOf(now) = StepOf(rep)
<1> DEFINE e == rep["items"][Min(Zero(rep))]
<1>1. /\ "items" \in DOMAIN rep /\ Zero(rep) = PlacesOf("items", "0", rep["items"])
      /\ FirstItem(rep) = e
  <2>1. "items" \in DOMAIN rep
    BY DEF Zero, Items
  <2>. QED BY <2>1 DEF Zero, Items, PlacesOf, KeyOf, FirstItem
<1>2. KeyOf("items", patch) = "0" /\ "id" \in DOMAIN patch
  BY DEF KeyOf, Field
<1>3. /\ "items" \in DOMAIN now /\ PlacesOf("items", "0", now["items"]) # {}
      /\ now["items"][Min(PlacesOf("items", "0", now["items"]))] = Updated(e, patch)
  <2>1. "items" \in Lists /\ DOMAIN body = {"items"} /\ body["items"] = <<patch>>
    BY DEF Lists
  <2>2. Joined("items", e, patch) = Updated(e, patch)
    BY DEF Joined
  <2>3. Patched("items", "0", patch, rep, now)
    BY <1>2, <2>1, ListWrite
  <2>. QED BY <1>1, <2>2, <2>3 DEF Patched
<1>4. FirstItem(now) = Updated(e, patch) /\ Zero(now) # {}
  <2> HIDE DEF e
  <2>1. Zero(now) = PlacesOf("items", "0", now["items"]) /\ Items(now) = now["items"]
    BY <1>3 DEF Zero, Items, PlacesOf, KeyOf
  <2>. QED BY <1>3, <2>1 DEF FirstItem
<1>5. /\ Field(Updated(e, patch), "increment") = Field(e, "increment")
      /\ Field(e, "increment") \in {None, 0} \/ Updated(e, patch)["increment"] = e["increment"]
  <2> HIDE DEF e
  <2>. QED BY DEF Field, Updated
<1>6. StepOf(now) = StepOf(rep)
  <2> HIDE DEF e
  <2>. QED BY <1>1, <1>4, <1>5 DEF StepOf
<1>. QED BY <1>1, <1>4, <1>6

LEMMA SetpointReadsBack ==
  ASSUME NEW s, ReadsBack(s), s.write[1] = "setpoint", NEW value, NEW rep, NEW cached,
         Understood(s, value, cached, rep), NEW after,
         Rep(after, s.href) = FoldWrite(rep, AcPayload(s, value, cached))
  PROVE  AcMeets(s, AcReads(s, after), value, Rep(after, s.href))
<1> DEFINE now == Rep(after, s.href)
           x == Snap(value, StepOf(cached))
           patch == [id |-> "0", desired |-> x]
<1>1. s.read = <<"item", "desired">>
  BY DEF ReadsBack
<1>2. AcPayload(s, value, cached) = [items |-> <<patch>>]
  BY DEF AcPayload
<1>3. FirstItem(now) = Updated(FirstItem(rep), patch) /\ StepOf(now) = StepOf(rep)
  <2>1. Listed(rep) /\ Zero(rep) # {}
    BY DEF Understood
  <2> HIDE DEF now, x
  <2>. QED BY <1>2, <2>1, SetpointWrite DEF now
<1>4. Field(FirstItem(now), "desired") = x
  <2> HIDE DEF now, x
  <2>. QED BY <1>3 DEF Field, Updated
<1>5. AcReads(s, after) = x
  BY <1>1, <1>4 DEF AcReads
<1>6. 2 * (x - value) \in -StepOf(cached)..StepOf(cached)
  BY SnapIsNearest DEF Understood
<1>7. StepOf(now) = StepOf(cached)
  BY <1>3 DEF Understood
<1> HIDE DEF x, now
<1>. QED BY <1>5, <1>6, <1>7 DEF AcMeets, now

-----------------------------------------------------------------------------
(* The whole table. *)

\* The one line that writes a token, and where the others write.
LightLine ==
  Gated(Control("display_light", "/mode/vs/0", <<"token_is", "Light", Lit>>, <<"light">>),
        <<"token", "Light">>)

\* Fields that say what the unit is, or that are kept entry by entry.
Descriptive == {"items", "options", "names", "supported"}
WritesApart(s) ==
  /\ s.href # Alarms
  /\ s.write[1] \in {"flag", "enum"} => s.write[2] \notin Descriptive
  /\ s.write[1] = "light" => s = LightLine

\* The lines of the table are made in these ways.
Sound(s) == Writable(s) => ReadsBack(s) /\ WritesApart(s)

LEMMA SwitchIsSound ==
  \A c, href, field : field \notin Descriptive /\ href # Alarms => Sound(Switch(c, href, field))
BY DEF Sound, Writable, ReadsBack, Switch, Control, WritesApart, Descriptive, Lists

LEMMA PickerIsSound ==
  \A c, href, field, allowed, supported :
    field \notin Descriptive /\ href # Alarms => Sound(Picker(c, href, field, allowed, supported))
BY DEF Sound, Writable, ReadsBack, Picker, Control, WritesApart, Descriptive, Lists

LEMMA ReadingIsSound ==
  \A c, href, read, x, y :
    /\ Sound(Reading(c, href, read)) /\ Sound(Sensor(c, read))
    /\ Sound(IfToken(c, read)) /\ Sound(IfField(c, href, read))
    /\ Sound(Gated(Reading(c, href, read), x)) /\ Sound(With(Reading(c, href, read), x))
    /\ Sound(With(Gated(Reading(c, href, read), x), y)) /\ Sound(With(IfField(c, href, read), x))
BY DEF Sound, Writable, Reading, Control, Sensor, IfToken, IfField, Gated, With

LEMMA ControlIsSound ==
  \A c, href, allowed, x : href # Alarms =>
    /\ Sound(Control(c, href, <<"fan">>, <<"fan">>))
    /\ Sound(With(Control(c, href, <<"item", "desired">>, <<"setpoint">>), x))
    /\ Sound(Control(c, href, <<"mode", allowed>>, <<"mode", allowed>>))
BY DEF Sound, Writable, ReadsBack, Control, With, WritesApart

LEMMA LightIsSound == Sound(LightLine)
<1>1. /\ LightLine.write = <<"light">> /\ LightLine.href = "/mode/vs/0"
      /\ LightLine.read = <<"token_is", "Light", Lit>>
  BY DEF LightLine, Gated, Control
<1>. QED BY <1>1 DEF Sound, ReadsBack, WritesApart, Alarms

\* Every line of the table.
LEMMA TableIsSound == \A i \in DOMAIN REGISTRY : Sound(REGISTRY[i])
<1> DEFINE P(i) == Sound(REGISTRY[i])
<1>1. P(1) /\ P(2) /\ P(3) /\ P(4) /\ P(5) /\ P(6) /\ P(7) /\ P(8) /\ P(9)
  BY SwitchIsSound, PickerIsSound, ReadingIsSound, ControlIsSound, LightIsSound
     DEF REGISTRY, Descriptive, Alarms, LightLine
<1>2. P(10) /\ P(11) /\ P(12) /\ P(13) /\ P(14) /\ P(15) /\ P(16) /\ P(17) /\ P(18)
  BY SwitchIsSound, PickerIsSound, ReadingIsSound, ControlIsSound, LightIsSound
     DEF REGISTRY, Descriptive, Alarms, LightLine
<1>3. P(19) /\ P(20) /\ P(21) /\ P(22) /\ P(23) /\ P(24) /\ P(25) /\ P(26) /\ P(27)
  BY SwitchIsSound, PickerIsSound, ReadingIsSound, ControlIsSound, LightIsSound
     DEF REGISTRY, Descriptive, Alarms, LightLine
<1>4. P(28) /\ P(29) /\ P(30) /\ P(31) /\ P(32) /\ P(33) /\ P(34) /\ P(35) /\ P(36)
  BY SwitchIsSound, PickerIsSound, ReadingIsSound, ControlIsSound, LightIsSound
     DEF REGISTRY, Descriptive, Alarms, LightLine
<1>5. P(37) /\ P(38) /\ P(39) /\ P(40) /\ P(41) /\ P(42) /\ P(43) /\ P(44) /\ P(45)
  BY SwitchIsSound, PickerIsSound, ReadingIsSound, ControlIsSound, LightIsSound
     DEF REGISTRY, Descriptive, Alarms, LightLine
<1>6. P(46) /\ P(47) /\ P(48) /\ P(49) /\ P(50) /\ P(51) /\ P(52) /\ P(53) /\ P(54)
  BY SwitchIsSound, PickerIsSound, ReadingIsSound, ControlIsSound, LightIsSound
     DEF REGISTRY, Descriptive, Alarms, LightLine
<1>7. DOMAIN REGISTRY = 1..54
  BY DEF REGISTRY
<1> HIDE DEF P
<1>8. \A i \in 1..54 : P(i)
  BY <1>1, <1>2, <1>3, <1>4, <1>5, <1>6
<1>. QED BY <1>7, <1>8 DEF P

\* A command to the air conditioner, on any line of the table: what the unit has
\* taken reads back as what was asked, a setpoint to half a step
\* (the writers and readers of registry/airconditioner.py, _fold_write_into).
THEOREM WritesReadBack ==
  ASSUME NoneIsApart, NEW i \in DOMAIN REGISTRY, NEW s, s = REGISTRY[i], Writable(s),
         NEW value, NEW cached, NEW dump, Understood(s, value, cached, Rep(dump, s.href)),
         NEW body, body = AcPayload(s, value, cached), body \notin {None, Refused},
         NEW after, after = Stored(dump, s.href, FoldWrite(Rep(dump, s.href), body))
  PROVE  AcMeets(s, AcReads(s, after), value, Rep(after, s.href))
<1>1. ReadsBack(s)
  BY TableIsSound DEF Sound
<1>2. Rep(after, s.href) = FoldWrite(Rep(dump, s.href), AcPayload(s, value, cached))
  BY RepOfStored
<1>3. s.write[1] \in {"flag", "mode", "fan", "enum", "light", "setpoint"}
  BY <1>1 DEF ReadsBack
<1>4. CASE s.write[1] = "setpoint"
  BY <1>1, <1>2, <1>4, SetpointReadsBack
<1>5. CASE s.write[1] # "setpoint"
  <2>1. CASE s.write[1] = "flag"
    <3>1. value \in BOOLEAN
      BY <2>1 DEF Understood
    <3>. QED BY <1>1, <1>2, <2>1, <3>1, FlagReadsBack DEF AcMeets
  <2>2. CASE s.write[1] = "mode"
    BY <1>1, <1>2, <2>2, ModeReadsBack DEF AcMeets
  <2>3. CASE s.write[1] = "fan"
    BY <1>1, <1>2, <2>3, FanReadsBack DEF AcMeets
  <2>4. CASE s.write[1] = "enum"
    BY <1>1, <1>2, <2>4, EnumReadsBack DEF AcMeets
  <2>5. CASE s.write[1] = "light"
    <3>1. value \in BOOLEAN /\ Listed(Rep(dump, s.href))
      BY <2>5 DEF Understood
    <3>. QED BY <1>1, <1>2, <2>5, <3>1, LightReadsBack DEF AcMeets
  <2>. QED BY <1>3, <1>5, <2>1, <2>2, <2>3, <2>4, <2>5
<1>. QED BY <1>4, <1>5

\* Its writers send lists, as WritesForgetNothing asks of a registry.
THEOREM AcWritersSendLists ==
  \A i \in DOMAIN REGISTRY : Writable(REGISTRY[i]) =>
    \A value, rep :
      AcPayload(REGISTRY[i], value, rep) \in {None, Refused}
        \/ Listed(AcPayload(REGISTRY[i], value, rep))
<1> SUFFICES ASSUME NEW i \in DOMAIN REGISTRY, NEW s, s = REGISTRY[i], Writable(s),
                    NEW value, NEW rep, NEW body, body = AcPayload(s, value, rep),
                    body \notin {None, Refused}
             PROVE  Listed(body)
  OBVIOUS
<1>1. ReadsBack(s)
  BY TableIsSound DEF Sound
<1>2. CASE s.write[1] \in {"flag", "enum"}
  <2>1. DOMAIN body = {s.write[2]} /\ s.write[2] \notin Lists
    BY <1>1, <1>2 DEF ReadsBack, AcPayload
  <2>. QED BY <2>1 DEF Listed
<1>3. CASE s.write[1] \in {"mode", "fan"}
  <2>1. DOMAIN body = {"modes"}
    BY <1>3 DEF AcPayload
  <2>. QED BY <2>1 DEF Listed, Lists
<1>4. CASE s.write[1] \in {"light", "setpoint"}
  <2>1. \E e : \A list \in DOMAIN body : body[list] = <<e>>
    <3>1. CASE s.write[1] = "light"
      <4>1. body = [options |-> <<LightToken(value)>>]
        BY <3>1 DEF AcPayload
      <4>. QED BY <4>1
    <3>2. CASE s.write[1] = "setpoint"
      <4> DEFINE e == [id |-> "0", desired |-> Snap(value, StepOf(rep))]
      <4>1. body = [items |-> <<e>>]
        BY <3>2 DEF AcPayload
      <4> HIDE DEF e
      <4>. QED BY <4>1
    <3>. QED BY <1>4, <3>1, <3>2
  <2>2. \A e : <<e>> \in Seq(ToSet(<<e>>))
    <3>1. \A e : <<e>> \in Seq({e})
      OBVIOUS
    <3>. QED BY <3>1, SequenceIsListed
  <2>. QED BY <2>1, <2>2 DEF Listed
<1>. QED BY <1>1, <1>2, <1>3, <1>4 DEF ReadsBack

-----------------------------------------------------------------------------
(* One unit, in the setting of AcUnit: what is written keeps what the unit *)
(* says of itself, so that a command goes by the step and the codes that   *)
(* the appliance will be in when it arrives.                               *)

\* What is left out of a body is left alone.
LEMMA LeftAlone ==
  ASSUME NEW rep, NEW body, NEW now, now = FoldWrite(rep, body), NEW g, g \notin DOMAIN body
  PROVE  /\ g \in DOMAIN now <=> g \in DOMAIN rep
         /\ g \in DOMAIN rep => now[g] = rep[g]
BY DEF FoldWrite

\* What the lines send: one entry 0 of the items, one light token, or fields that
\* say nothing of the unit.
SentBy(t, body) ==
  /\ DOMAIN body \cap {"names", "supported"} = {}
  /\ "items" \in DOMAIN body =>
       \E x : LET patch == [id |-> "0", desired |-> x] IN body = [items |-> <<patch>>]
  /\ "options" \in DOMAIN body => t = LightLine

LEMMA BodyIsSent ==
  ASSUME NEW t, Sound(t), Writable(t), NEW value, NEW cached,
         NEW body, body = AcPayload(t, value, cached), body \notin {None, Refused}
  PROVE  SentBy(t, body)
<1>0. ReadsBack(t) /\ WritesApart(t)
  BY DEF Sound
<1>1. CASE t.write[1] \in {"flag", "enum"}
  <2>1. DOMAIN body = {t.write[2]} /\ t.write[2] \notin Descriptive
    BY <1>0, <1>1 DEF WritesApart, AcPayload
  <2>. QED BY <2>1 DEF SentBy, Descriptive
<1>2. CASE t.write[1] \in {"mode", "fan"}
  <2>1. DOMAIN body = {"modes"}
    BY <1>2 DEF AcPayload
  <2>. QED BY <2>1 DEF SentBy
<1>3. CASE t.write[1] = "light"
  <2>1. DOMAIN body = {"options"} /\ t = LightLine
    BY <1>0, <1>3 DEF WritesApart, AcPayload
  <2>. QED BY <2>1 DEF SentBy
<1>4. CASE t.write[1] = "setpoint"
  <2> DEFINE x == Snap(value, StepOf(cached))
  <2>1. body = [items |-> <<[id |-> "0", desired |-> x]>>]
    BY <1>4 DEF AcPayload
  <2> HIDE DEF x
  <2>2. DOMAIN body = {"items"}
    BY <2>1
  <2>. QED BY <2>1, <2>2 DEF SentBy
<1>. QED BY <1>0, <1>1, <1>2, <1>3, <1>4 DEF ReadsBack

\* Two representations with the same items, or without, have the same step.
LEMMA SameItems ==
  ASSUME NEW rep, NEW now, "items" \in DOMAIN now <=> "items" \in DOMAIN rep,
         "items" \in DOMAIN rep => now["items"] = rep["items"]
  PROVE  Zero(now) = Zero(rep) /\ StepOf(now) = StepOf(rep)
<1>1. Items(now) = Items(rep)
  BY DEF Items
<1>. QED BY <1>1 DEF Zero, StepOf, FirstItem

LEMMA ZeroHasItems == \A rep : Zero(rep) # {} => "items" \in DOMAIN rep
BY DEF Zero, Items

\* Whatever a line of the table writes, and wherever, what is whole stays whole.
LEMMA WriteKeepsWhole ==
  ASSUME NEW s, NEW t, NEW body, SentBy(t, body), NEW rep, Listed(rep), Whole(s, rep),
         NEW now, now = FoldWrite(rep, body)
  PROVE  Whole(s, now)
<1>1. ASSUME s.write[1] = "setpoint" PROVE Zero(now) # {} /\ StepOf(now) = Unit.step
  <2>1. Zero(rep) # {} /\ StepOf(rep) = Unit.step
    BY <1>1 DEF Whole
  <2>2. CASE "items" \in DOMAIN body
    <3>1. PICK x : LET patch == [id |-> "0", desired |-> x] IN body = [items |-> <<patch>>]
      BY <2>2 DEF SentBy
    <3>. QED BY <2>1, <3>1, SetpointWrite
  <2>3. CASE "items" \notin DOMAIN body
    <3>1. /\ "items" \in DOMAIN now <=> "items" \in DOMAIN rep
          /\ "items" \in DOMAIN rep => now["items"] = rep["items"]
      BY <2>3, LeftAlone
    <3>. QED BY <2>1, <3>1, SameItems
  <2>. QED BY <2>2, <2>3
<1>2. ASSUME s.write[1] = "fan", NEW g \in {"names", "supported"}
      PROVE  g \in DOMAIN now /\ now[g] = Unit[g]
  <2>1. g \notin DOMAIN body
    BY DEF SentBy
  <2>2. g \in DOMAIN rep /\ rep[g] = Unit[g]
    BY <1>2 DEF Whole
  <2>. QED BY <2>1, <2>2, LeftAlone
<1>. QED BY <1>1, <1>2 DEF Whole

\* A part of what is whole, as a notification has it.
PartOf(s, rep) ==
  /\ s.write[1] = "setpoint" /\ "items" \in DOMAIN rep => Zero(rep) # {} /\ StepOf(rep) = Unit.step
  /\ s.write[1] = "fan" => \A g \in {"names", "supported"} \cap DOMAIN rep : rep[g] = Unit[g]

LEMMA ChangesArePart ==
  ASSUME NEW s, NEW old, NEW rep, Whole(s, rep)
  PROVE  PartOf(s, ChangedFields(old, rep))
<1> DEFINE part == ChangedFields(old, rep)
<1>1. \A g \in DOMAIN part : g \in DOMAIN rep /\ part[g] = rep[g]
  BY DEF ChangedFields
<1> HIDE DEF part
<1>2. ASSUME s.write[1] = "setpoint", "items" \in DOMAIN part
      PROVE  Zero(part) # {} /\ StepOf(part) = Unit.step
  <2>1. "items" \in DOMAIN rep /\ part["items"] = rep["items"]
    BY <1>1, <1>2
  <2>2. Zero(part) = Zero(rep) /\ StepOf(part) = StepOf(rep)
    BY <1>2, <2>1, SameItems
  <2>. QED BY <1>2, <2>2 DEF Whole
<1>3. ASSUME s.write[1] = "fan", NEW g \in {"names", "supported"} \cap DOMAIN part
      PROVE  part[g] = Unit[g]
  BY <1>1, <1>3 DEF Whole
<1>. QED BY <1>2, <1>3 DEF PartOf, part

LEMMA UpdateKeepsWhole ==
  ASSUME NEW s, NEW rep, Whole(s, rep), NEW part, PartOf(s, part),
         NEW now, now = Updated(rep, part)
  PROVE  Whole(s, now)
<1>1. \A g : /\ g \in DOMAIN now <=> g \in DOMAIN rep \/ g \in DOMAIN part
             /\ g \in DOMAIN part => now[g] = part[g]
             /\ g \in DOMAIN rep /\ g \notin DOMAIN part => now[g] = rep[g]
  BY DEF Updated
<1>2. ASSUME s.write[1] = "setpoint" PROVE Zero(now) # {} /\ StepOf(now) = Unit.step
  <2>1. Zero(rep) # {} /\ StepOf(rep) = Unit.step /\ "items" \in DOMAIN rep
    BY <1>2, ZeroHasItems DEF Whole
  <2>2. CASE "items" \in DOMAIN part
    <3>1. Zero(now) = Zero(part) /\ StepOf(now) = StepOf(part)
      BY <1>1, <2>2, SameItems
    <3>. QED BY <1>2, <2>2, <3>1 DEF PartOf
  <2>3. CASE "items" \notin DOMAIN part
    <3>1. Zero(now) = Zero(rep) /\ StepOf(now) = StepOf(rep)
      BY <1>1, <2>1, <2>3, SameItems
    <3>. QED BY <2>1, <3>1
  <2>. QED BY <2>2, <2>3
<1>3. ASSUME s.write[1] = "fan", NEW g \in {"names", "supported"}
      PROVE  g \in DOMAIN now /\ now[g] = Unit[g]
  <2>1. g \in DOMAIN rep /\ rep[g] = Unit[g]
    BY <1>3 DEF Whole
  <2>2. g \in DOMAIN part => part[g] = Unit[g]
    BY <1>3 DEF PartOf
  <2>. QED BY <1>1, <2>1, <2>2
<1>. QED BY <1>2, <1>3 DEF Whole

\* The light token is where the unit has reported one, or where it was written.
LEMMA SameTokens ==
  ASSUME NEW rep, NEW now, "options" \in DOMAIN now => "options" \in DOMAIN rep /\ now["options"] = rep["options"],
         Token(now, "Light") # None
  PROVE  Token(rep, "Light") # None
<1>1. CASE "options" \in DOMAIN now
  <2>1. Tokens(now) = Tokens(rep)
    BY <1>1 DEF Tokens
  <2>. QED BY <2>1 DEF Token
<1>2. CASE "options" \notin DOMAIN now
  <2>1. Tokens(now) = <<>>
    BY <1>2 DEF Tokens
  <2>2. {i \in DOMAIN Tokens(now) : Tokens(now)[i][1] = "Light"} = {}
    BY <2>1
  <2>. QED BY <2>2 DEF Token
<1>. QED BY <1>1, <1>2

-----------------------------------------------------------------------------
(* The inductive invariant: what the appliance and the cache say is whole, *)
(* what is on its way is part of it, and the command under way is for the  *)
(* one line that the capability has, with a body made from a whole cache.  *)

AllWhole(dump) ==
  \A i \in DOMAIN Specs : Counted(Specs[i]) =>
    Specs[i].href \in DOMAIN dump /\ Whole(Specs[i], dump[Specs[i].href])

LightIsHome(h, rep) ==
  h = LightLine.href /\ Token(rep, "Light") # None => Reachable(LightLine)
LightsAreHome(dump) == \A h \in DOMAIN dump : LightIsHome(h, dump[h])

ActualOK ==
  /\ AllWhole(actual) /\ LightsAreHome(actual)
  /\ \A h \in DOMAIN actual : Reported(h) # {}

\* A first read has filled the cache.
IsRead == resolved \/ \E r \in Coroutines : job[r].phase = "resolving"
CacheOK == LightsAreHome(resources) /\ (IsRead => AllWhole(resources))

NoticeOK(n) ==
  /\ LightIsHome(n[1], n[2])
  /\ \A i \in DOMAIN Specs :
       Counted(Specs[i]) /\ Specs[i].href = n[1] => PartOf(Specs[i], n[2])
FlightOK == \A n \in flight : NoticeOK(n)

\* What is sent for a line that has this capability.
Ordered(spec, ask, body) ==
  \E i \in DOMAIN Specs :
    /\ spec = Specs[i] /\ Writable(spec) /\ ask \in Asked /\ ask[1] = spec.capability
    /\ body \notin {None, Refused}
    /\ \E cached : body = AcPayload(spec, ask[2], cached) /\ (Counted(spec) => Whole(spec, cached))
    /\ Reported(spec.href) # {} => Reachable(spec)
CommandOK ==
  /\ DOMAIN command = {"step", "ask", "spec", "body"}
  /\ command.step # "none" => Ordered(command.spec, command.ask, command.body)
  /\ command.step = "sent" => Reported(command.spec.href) # {}

UnitOK == ActualOK /\ CacheOK /\ FlightOK /\ CommandOK

\* Every line is one of the table.
LEMMA LinesAreSound ==
  ASSUME LinesOfTheTable
  PROVE  \A i \in DOMAIN Specs : Sound(Specs[i])
BY TableIsSound DEF LinesOfTheTable

LEMMA LightLineIs ==
  /\ LightLine.href = "/mode/vs/0" /\ LightLine.href # Alarms
  /\ \A dump : AcExists(LightLine, dump) <=> Token(Rep(dump, LightLine.href), "Light") # None
<1>1. LightLine.href = "/mode/vs/0" /\ LightLine.gate = <<"token", "Light">>
  BY DEF LightLine, Gated, Control
<1>. QED BY <1>1 DEF Alarms, AcExists

LEMMA NoToken == Token(<<>>, "Light") = None
<1>1. Tokens(<<>>) = <<>>
  BY DEF Tokens
<1>2. {i \in DOMAIN Tokens(<<>>) : Tokens(<<>>)[i][1] = "Light"} = {}
  BY <1>1
<1>. QED BY <1>2 DEF Token

LEMMA CachedLightIsHome ==
  ASSUME NEW dump, LightsAreHome(dump), NEW h
  PROVE  LightIsHome(h, Rep(dump, h))
<1>1. CASE h \in DOMAIN dump
  BY <1>1 DEF Rep, LightsAreHome
<1>2. CASE h \notin DOMAIN dump
  BY <1>2, NoToken DEF Rep, LightIsHome
<1>. QED BY <1>1, <1>2

\* A line that applies, and is for a resource the unit reports, may be commanded.
LEMMA ApplyingIsReachable ==
  ASSUME LinesOfTheTable, ServedByTheTable, NEW dump, LightsAreHome(dump),
         NEW i \in Applying(dump), Reported(Specs[i].href) # {}
  PROVE  Reachable(Specs[i])
<1> DEFINE s == Specs[i]
<1>1. CASE Lights(s)
  <2>1. i \in DOMAIN Specs /\ Rep(dump, s.href) # <<>> /\ Exists(s, dump)
    BY DEF Applying, Applies
  <2>2. s = LightLine
    BY <1>1, <2>1, LinesAreSound DEF Sound, Lights, WritesApart
  <2>3. Token(Rep(dump, LightLine.href), "Light") # None
    <3>1. AcExists(LightLine, dump)
      BY <2>1, <2>2 DEF ServedByTheTable
    <3>. QED BY <3>1, LightLineIs
  <2>4. Reachable(LightLine)
    BY <2>3, CachedLightIsHome DEF LightIsHome
  <2>. QED BY <2>2, <2>4
<1>2. CASE ~Lights(s)
  BY <1>2 DEF Reachable
<1>. QED BY <1>1, <1>2

-----------------------------------------------------------------------------
(* What a write, and a notification, make of a dump. *)

LEMMA RepIsThere == \A dump, h : h \in DOMAIN dump => Rep(dump, h) = dump[h]
BY DEF Rep

LEMMA StoredIsWhole ==
  ASSUME NEW dump, AllWhole(dump), NEW g, NEW rep,
         \A i \in DOMAIN Specs :
           Counted(Specs[i]) /\ Specs[i].href = g => Whole(Specs[i], rep)
  PROVE  AllWhole(Stored(dump, g, rep))
<1> SUFFICES ASSUME NEW i \in DOMAIN Specs, Counted(Specs[i]), NEW now, now = Stored(dump, g, rep)
             PROVE  Specs[i].href \in DOMAIN now /\ Whole(Specs[i], now[Specs[i].href])
  BY DEF AllWhole
<1>1. Specs[i].href \in DOMAIN dump /\ Whole(Specs[i], dump[Specs[i].href])
  BY DEF AllWhole
<1>2. CASE Specs[i].href = g
  BY <1>2 DEF Stored
<1>3. CASE Specs[i].href # g
  BY <1>1, <1>3 DEF Stored
<1>. QED BY <1>2, <1>3

LEMMA StoredLights ==
  ASSUME NEW dump, LightsAreHome(dump), NEW g, NEW rep, LightIsHome(g, rep)
  PROVE  LightsAreHome(Stored(dump, g, rep))
<1> SUFFICES ASSUME NEW now, now = Stored(dump, g, rep), NEW h \in DOMAIN now
             PROVE  LightIsHome(h, now[h])
  BY DEF LightsAreHome
<1>1. CASE h = g
  BY <1>1 DEF Stored
<1>2. CASE h # g
  <2>1. h \in DOMAIN dump /\ now[h] = dump[h]
    BY <1>2 DEF Stored
  <2>. QED BY <2>1 DEF LightsAreHome
<1>. QED BY <1>1, <1>2

\* The command, in the appliance or in the cache.
LEMMA WrittenStaysWhole ==
  ASSUME LinesOfTheTable, NEW dump, AllListed(dump), AllWhole(dump),
         Ordered(command.spec, command.ask, command.body)
  PROVE  AllWhole(Written(dump))
<1> DEFINE g == command.spec.href
           now == FoldWrite(Rep(dump, g), command.body)
<1>1. SentBy(command.spec, command.body)
  BY LinesAreSound, BodyIsSent DEF Ordered
<1>2. ASSUME NEW i \in DOMAIN Specs, Counted(Specs[i]), Specs[i].href = g
      PROVE  Whole(Specs[i], now)
  <2>1. Whole(Specs[i], Rep(dump, g))
    BY <1>2, RepIsThere DEF AllWhole
  <2>2. Listed(Rep(dump, g))
    BY RepIsListed
  <2>. QED BY <1>1, <2>1, <2>2, WriteKeepsWhole
<1>3. AllWhole(Stored(dump, g, now))
  <2> HIDE DEF now, g
  <2>. QED BY <1>2, StoredIsWhole
<1>. QED BY <1>3 DEF Written

LEMMA WrittenLights ==
  ASSUME LinesOfTheTable, NEW dump, LightsAreHome(dump),
         Ordered(command.spec, command.ask, command.body), Reported(command.spec.href) # {}
  PROVE  LightsAreHome(Written(dump))
<1> DEFINE g == command.spec.href
           now == FoldWrite(Rep(dump, g), command.body)
<1>1. SentBy(command.spec, command.body)
  BY LinesAreSound, BodyIsSent DEF Ordered
<1>2. LightIsHome(g, now)
  <2>1. CASE "options" \in DOMAIN command.body
    <3>1. command.spec = LightLine
      BY <1>1, <2>1 DEF SentBy
    <3>2. Reachable(command.spec)
      BY DEF Ordered
    <3>. QED BY <3>1, <3>2 DEF LightIsHome
  <2>2. CASE "options" \notin DOMAIN command.body
    <3>1. /\ "options" \in DOMAIN now <=> "options" \in DOMAIN Rep(dump, g)
          /\ "options" \in DOMAIN Rep(dump, g) => now["options"] = Rep(dump, g)["options"]
      BY <2>2, LeftAlone
    <3> HIDE DEF now
    <3>2. Token(now, "Light") # None => Token(Rep(dump, g), "Light") # None
      BY <3>1, SameTokens
    <3>. QED BY <3>2, CachedLightIsHome DEF LightIsHome
  <2>. QED BY <2>1, <2>2
<1>3. LightsAreHome(Stored(dump, g, now))
  <2> HIDE DEF now, g
  <2>. QED BY <1>2, StoredLights
<1>. QED BY <1>3 DEF Written

\* A notification, in the cache.
LEMMA PushedStaysWhole ==
  ASSUME LinesOfTheTable, NEW dump, AllWhole(dump), NEW n, NoticeOK(n)
  PROVE  AllWhole(Pushed(dump, n[1], n[2]))
<1> DEFINE now == Take(Rep(dump, n[1]), n[1], n[2])
<1>1. ASSUME NEW i \in DOMAIN Specs, Counted(Specs[i]), Specs[i].href = n[1]
      PROVE  Whole(Specs[i], now)
  <2>1. Whole(Specs[i], Rep(dump, n[1]))
    BY <1>1, RepIsThere DEF AllWhole
  <2>2. n[1] # Alarms
    BY <1>1, LinesAreSound DEF Counted, Sound, WritesApart
  <2>3. now = Updated(Rep(dump, n[1]), n[2]) /\ PartOf(Specs[i], n[2])
    BY <1>1, <2>2 DEF Take, NoticeOK
  <2>. QED BY <2>1, <2>3, UpdateKeepsWhole
<1>2. AllWhole(Stored(dump, n[1], now))
  <2> HIDE DEF now
  <2>. QED BY <1>1, StoredIsWhole
<1>. QED BY <1>2 DEF Pushed

LEMMA PushedLights ==
  ASSUME NEW dump, LightsAreHome(dump), NEW n, NoticeOK(n)
  PROVE  LightsAreHome(Pushed(dump, n[1], n[2]))
<1> DEFINE old == Rep(dump, n[1])
           now == Take(old, n[1], n[2])
<1>1. LightIsHome(n[1], now)
  <2>1. CASE n[1] = Alarms
    BY <2>1, LightLineIs DEF LightIsHome
  <2>2. CASE n[1] # Alarms
    <3>1. now = Updated(old, n[2])
      BY <2>2 DEF Take
    <3>2. LightIsHome(n[1], n[2]) /\ LightIsHome(n[1], old)
      BY CachedLightIsHome DEF NoticeOK
    <3> HIDE DEF now, old
    <3>3. CASE "options" \in DOMAIN n[2]
      <4>1. now["options"] = n[2]["options"]
        BY <3>1, <3>3 DEF Updated
      <4>. QED BY <3>2, <3>3, <4>1, SameTokens DEF LightIsHome
    <3>4. CASE "options" \notin DOMAIN n[2]
      <4>1. "options" \in DOMAIN now => "options" \in DOMAIN old /\ now["options"] = old["options"]
        BY <3>1, <3>4 DEF Updated
      <4>. QED BY <3>2, <4>1, SameTokens DEF LightIsHome
    <3>. QED BY <3>3, <3>4
  <2>. QED BY <2>1, <2>2
<1>2. LightsAreHome(Stored(dump, n[1], now))
  <2> HIDE DEF now
  <2>. QED BY <1>1, StoredLights
<1>. QED BY <1>2 DEF Pushed

\* What the appliance notifies of a change.
LEMMA BecomesNotices ==
  ASSUME LinesOfTheTable, NEW dump, AllWhole(dump), LightsAreHome(dump), Becomes(dump), FlightOK
  PROVE  FlightOK'
<1>1. ASSUME NEW h \in Changed(actual, dump), NEW n, n = Notice(h, actual[h], dump[h])
      PROVE  NoticeOK(n)
  <2>1. h \in DOMAIN dump /\ LightIsHome(h, dump[h])
    BY DEF Changed, LightsAreHome
  <2>2. /\ n[1] = h
        /\ n[2] = IF h = Alarms THEN dump[h] ELSE ChangedFields(actual[h], dump[h])
    BY <1>1 DEF Notice
  <2>3. LightIsHome(h, n[2])
    <3>1. CASE h = Alarms
      BY <2>1, <2>2, <3>1
    <3>2. CASE h # Alarms
      <4> DEFINE part == ChangedFields(actual[h], dump[h])
      <4>1. "options" \in DOMAIN part =>
              "options" \in DOMAIN dump[h] /\ part["options"] = dump[h]["options"]
        BY DEF ChangedFields
      <4> HIDE DEF part
      <4>2. Token(part, "Light") # None => Token(dump[h], "Light") # None
        BY <4>1, SameTokens
      <4>. QED BY <2>1, <2>2, <3>2, <4>2 DEF LightIsHome, part
    <3>. QED BY <3>1, <3>2
  <2>4. ASSUME NEW i \in DOMAIN Specs, Counted(Specs[i]), Specs[i].href = h
        PROVE  PartOf(Specs[i], n[2])
    <3>1. h # Alarms /\ Whole(Specs[i], dump[h])
      BY <2>4, LinesAreSound DEF Counted, Sound, WritesApart, AllWhole
    <3>. QED BY <2>2, <3>1, ChangesArePart
  <2>. QED BY <2>2, <2>3, <2>4 DEF NoticeOK
<1>2. ASSUME NEW n \in flight' PROVE NoticeOK(n)
  <2>1. n \in flight \/ \E h \in Changed(actual, dump) : n = Notice(h, actual[h], dump[h])
    BY DEF Becomes
  <2>. QED BY <1>1, <2>1 DEF FlightOK
<1>3. \A n : NoticeOK(n)' <=> NoticeOK(n)
  BY DEF NoticeOK
<1>. QED BY <1>2 DEF FlightOK, NoticeOK

-----------------------------------------------------------------------------
(* The steps. *)

LEMMA ReportedActual ==
  ASSUME NEW dump, NEW now, \A h \in DOMAIN dump : Reported(h) # {},
         NEW g, Reported(g) # {}, DOMAIN now \subseteq DOMAIN dump \cup {g}
  PROVE  \A h \in DOMAIN now : Reported(h) # {}
OBVIOUS

\* The unit changes by itself.
LEMMA OperatedIsWhole ==
  ASSUME LinesOfTheTable, CountsInOneStep, ActualOK, FlightOK, Operated
  PROVE  ActualOK' /\ FlightOK'
<1>1. PICK step \in Steps :
        /\ step[2] = IF step[1] \in DOMAIN actual THEN actual[step[1]] ELSE None
        /\ Becomes(Replaced(actual, step[1], step[3]))
  BY DEF Operated
<1> DEFINE now == Replaced(actual, step[1], step[3])
<1>2. AllWhole(now) /\ LightsAreHome(now) /\ \A h \in DOMAIN now : Reported(h) # {}
  <2>1. CASE step[3] = None
    <3>1. DOMAIN now = DOMAIN actual \ {step[1]} /\ \A h \in DOMAIN now : now[h] = actual[h]
      BY <2>1 DEF Replaced
    <3>2. ASSUME NEW i \in DOMAIN Specs, Counted(Specs[i])
          PROVE  Specs[i].href \in DOMAIN now
      <4>1. Specs[i].href # step[1]
        BY <2>1, <3>2 DEF CountsInOneStep
      <4>. QED BY <3>1, <3>2, <4>1 DEF ActualOK, AllWhole
    <3> HIDE DEF now
    <3>. QED BY <3>1, <3>2 DEF ActualOK, AllWhole, LightsAreHome
  <2>2. CASE step[3] # None
    <3>1. step[3] \in Reported(step[1])
      BY <2>2 DEF Reported
    <3>2. now = Stored(actual, step[1], step[3])
      BY <2>2 DEF Replaced
    <3>3. AllWhole(now)
      <4>1. \A i \in DOMAIN Specs :
              Counted(Specs[i]) /\ Specs[i].href = step[1] => Whole(Specs[i], step[3])
        BY <3>1 DEF CountsInOneStep
      <4>. QED BY <3>2, <4>1, StoredIsWhole DEF ActualOK
    <3>4. LightsAreHome(now)
      <4>1. LightIsHome(step[1], step[3])
        BY <3>1 DEF LightIsHome, Reachable
      <4>. QED BY <3>2, <4>1, StoredLights DEF ActualOK
    <3>5. DOMAIN now = DOMAIN actual \cup {step[1]}
      BY <3>2 DEF Stored
    <3> HIDE DEF now
    <3>. QED BY <3>1, <3>3, <3>4, <3>5 DEF ActualOK
  <2>. QED BY <2>1, <2>2
<1>3. actual' = now
  BY <1>1 DEF Becomes
<1>4. FlightOK'
  <2> HIDE DEF now
  <2>. QED BY <1>1, <1>2, BecomesNotices DEF now
<1>5. ActualOK'
  <2> HIDE DEF now
  <2>. QED BY <1>2, <1>3 DEF ActualOK, AllWhole, LightsAreHome
<1>. QED BY <1>4, <1>5

\* It takes the command.
LEMMA TakenIsWhole ==
  ASSUME LinesOfTheTable, ListsOK, ActualOK, FlightOK, CommandOK,
         command.step # "none", Effective, Becomes(Written(actual))
  PROVE  ActualOK' /\ FlightOK'
<1> DEFINE now == Written(actual)
<1>1. /\ Ordered(command.spec, command.ask, command.body)
      /\ Reported(command.spec.href) # {}
  BY DEF CommandOK, Effective, ActualOK
<1>2. AllWhole(now)
  BY <1>1, WrittenStaysWhole DEF ActualOK, ListsOK
<1>3. LightsAreHome(now)
  BY <1>1, WrittenLights DEF ActualOK
<1>4. DOMAIN now = DOMAIN actual \cup {command.spec.href}
  BY DEF Written, Stored
<1>5. actual' = now
  BY DEF Becomes
<1> HIDE DEF now
<1>6. FlightOK'
  BY <1>2, <1>3, BecomesNotices DEF now
<1>7. ActualOK'
  BY <1>1, <1>2, <1>3, <1>4, <1>5 DEF ActualOK, AllWhole, LightsAreHome
<1>. QED BY <1>6, <1>7

LEMMA ActualKept == ActualOK /\ UNCHANGED actual => ActualOK'
BY DEF ActualOK, AllWhole, LightsAreHome

LEMMA FlightKept == FlightOK /\ flight' \subseteq flight => FlightOK'
BY DEF FlightOK, NoticeOK

LEMMA CommandKept == CommandOK /\ UNCHANGED command => CommandOK'
BY DEF CommandOK, Ordered

\* Only a read begins to fill the cache.
LEMMA ReadFills ==
  ASSUME IInv, [Next]_vars, ~\E r \in Readers : Read(r), IsRead'
  PROVE  IsRead
<1>1. SUFFICES ASSUME ~IsRead PROVE FALSE
  OBVIOUS
<1>2. ~resolved /\ \A r \in Coroutines : job[r].phase # "resolving"
  BY <1>1 DEF IsRead
<1>3. DOMAIN job = Coroutines /\ \A r \in Coroutines : DOMAIN job[r] = Fields
  BY DEF IInv, JobsOK, JobOK
<1>4. \A r \in Readers : ~Resolved(r) /\ r \in Coroutines
  BY <1>2 DEF Resolved, Coroutines
<1>5. ~resolved' /\ \A r \in Coroutines : job'[r].phase # "resolving"
  <2>1. CASE Operated \/ Commanded \/ Answered \/ Returns \/ UNCHANGED vars \/ \E h \in settling : GuardEnds(h)
    BY <1>2, <2>1 DEF Operated, Commanded, Answered, Returns, GuardEnds, vars, device
  <2>2. CASE Restarts
    BY <1>2, <2>2 DEF Restarts, Idle
  <2>3. CASE \E r \in Readers : Syncs(r)
    <3>1. PICK r \in Readers : Adds(r) \/ Removes(r) \/ Listens(r) \/ Options(r) \/ Sets(r) \/ Settled(r)
      BY <1>4, <2>3 DEF Syncs
    <3>2. UNCHANGED resolved
      BY <3>1 DEF Adds, Removes, Listens, Options, Sets, Settled, device
    <3>3. \A q \in Coroutines \ {r} : job'[q] = job[q]
      BY <1>3, <3>1 DEF Adds, Removes, Listens, Options, Sets, Settled
    <3>4. job'[r].phase # "resolving"
      <4>1. CASE Adds(r) \/ Removes(r) \/ Sets(r)
        <5>1. job'[r].phase = job[r].phase
          BY <1>3, <1>4, <4>1 DEF Adds, Removes, Sets, Fields
        <5>. QED BY <1>2, <1>4, <5>1
      <4>2. CASE Listens(r) \/ Options(r) \/ Settled(r)
        BY <1>3, <1>4, <4>2 DEF Listens, Options, Settled, Idle, Fields
      <4>. QED BY <3>1, <4>1, <4>2
    <3>. QED BY <1>2, <3>2, <3>3, <3>4
  <2>4. CASE \E t \in Tasks : Begins(t)
    BY <1>2, <1>3, <2>4 DEF Begins, device, Fields, Coroutines
  <2>5. CASE \E r \in Coroutines : Carries(r) \/ Fails(r)
    <3>1. PICK r \in Coroutines : AppliesNext(r) \/ FiresNext(r) \/ Ends(r) \/ Fails(r)
      BY <2>5 DEF Carries
    <3>2. UNCHANGED resolved
      BY <3>1 DEF AppliesNext, FiresNext, Ends, Fails, device
    <3>3. \A q \in Coroutines \ {r} : job'[q] = job[q]
      BY <1>3, <3>1 DEF AppliesNext, FiresNext, Ends, Fails
    <3>4. job'[r].phase # "resolving"
      <4>1. CASE AppliesNext(r)
        <5>1. PICK i \in Earliest(Due(r)) :
                \/ job' = [job EXCEPT ![r].phase = "firing", ![r].at = i,
                                      ![r].value = Value(i, DictOf(r))]
                \/ job' = [job EXCEPT ![r].at = i + 1]
          BY <4>1 DEF AppliesNext
        <5>. QED BY <1>2, <1>3, <5>1 DEF Fields
      <4>2. CASE FiresNext(r) \/ Ends(r) \/ Fails(r)
        BY <1>3, <4>2 DEF FiresNext, Ends, Fails, Idle, Fields
      <4>. QED BY <3>1, <4>1, <4>2
    <3>. QED BY <1>2, <3>2, <3>3, <3>4
  <2>6. CASE \E n \in flight : Notified(n)
    <3>1. PICK n \in flight : Notified(n)
      BY <2>6
    <3>2. UNCHANGED resolved
      BY <3>1 DEF Notified
    <3>3. \/ UNCHANGED job
          \/ \E t \in Tasks : job' = [job EXCEPT ![t].phase = "created", ![t].only = n[1]]
      BY <3>1 DEF Notified
    <3>. QED BY <1>2, <1>3, <3>2, <3>3 DEF Fields, Coroutines
  <2>. QED BY <2>1, <2>2, <2>3, <2>4, <2>5, <2>6 DEF Next
<1>6. Coroutines' = Coroutines
  BY DEF Coroutines
<1>. QED BY <1>5, <1>6 DEF IsRead

LEMMA CacheStep ==
  ASSUME LinesOfTheTable, IInv, ListsOK, UnitOK, [Next]_vars
  PROVE  CacheOK'
<1>1. CASE \E r \in Readers : Read(r)
  <2>1. resources' = actual /\ AllWhole(actual) /\ LightsAreHome(actual)
    BY <1>1 DEF Read, UnitOK, ActualOK
  <2>. QED BY <2>1 DEF CacheOK, AllWhole, LightsAreHome
<1>2. ASSUME ~\E r \in Readers : Read(r), LightsAreHome(resources'), AllWhole(resources) => AllWhole(resources')
      PROVE  CacheOK'
  <2>1. IsRead' => AllWhole(resources')
    BY <1>2, ReadFills DEF UnitOK, CacheOK
  <2>. QED BY <1>2, <2>1 DEF CacheOK, AllWhole, LightsAreHome
<1>3. CASE ~(\E r \in Readers : Read(r)) /\ UNCHANGED resources
  BY <1>2, <1>3 DEF UnitOK, CacheOK
<1>4. CASE ~(\E r \in Readers : Read(r)) /\ \E n \in flight : Notified(n)
  <2>1. PICK n \in flight : Notified(n)
    BY <1>4
  <2>2. NoticeOK(n)
    BY DEF UnitOK, FlightOK
  <2>3. resources' = resources \/ resources' = Pushed(resources, n[1], n[2])
    BY <2>1 DEF Notified
  <2>4. LightsAreHome(Pushed(resources, n[1], n[2]))
    BY <2>2, PushedLights DEF UnitOK, CacheOK
  <2>5. AllWhole(resources) => AllWhole(Pushed(resources, n[1], n[2]))
    BY <2>2, PushedStaysWhole
  <2>6. LightsAreHome(resources)
    BY DEF UnitOK, CacheOK
  <2>. QED BY <1>2, <1>4, <2>3, <2>4, <2>5, <2>6
<1>5. CASE ~(\E r \in Readers : Read(r)) /\ Returns
  <2>1. resources' = Written(resources) /\ command.step = "sent"
    BY <1>5 DEF Returns
  <2>2. /\ Ordered(command.spec, command.ask, command.body)
        /\ Reported(command.spec.href) # {}
    BY <2>1 DEF UnitOK, CommandOK
  <2>3. LightsAreHome(Written(resources))
    BY <2>2, WrittenLights DEF UnitOK, CacheOK
  <2>4. AllWhole(resources) => AllWhole(Written(resources))
    BY <2>2, WrittenStaysWhole DEF ListsOK
  <2>. QED BY <1>2, <1>5, <2>1, <2>3, <2>4
<1>6. CASE Restarts
  <2>1. resources' = <<>> /\ ~resolved' /\ \A r \in Coroutines : job'[r].phase # "resolving"
    BY <1>6 DEF Restarts, Idle
  <2>2. ~IsRead'
    <3>1. Coroutines' = Coroutines
      BY DEF Coroutines
    <3>. QED BY <2>1, <3>1 DEF IsRead
  <2>3. DOMAIN resources' = {}
    BY <2>1
  <2>. QED BY <2>2, <2>3 DEF CacheOK, LightsAreHome
<1>7. ASSUME \/ Operated \/ Commanded \/ Answered
             \/ \E r \in Readers : Syncs(r) /\ ~Read(r)
             \/ \E t \in Tasks : Begins(t)
             \/ \E r \in Coroutines : Carries(r) \/ Fails(r)
             \/ \E k \in settling : GuardEnds(k)
             \/ UNCHANGED vars
      PROVE  UNCHANGED resources
  BY <1>7 DEF Operated, Commanded, Answered, Syncs, Resolved, Adds, Removes, Listens, Options,
              Sets, Settled, Begins, Carries, AppliesNext, FiresNext, Ends, Fails, GuardEnds,
              vars, device
<1>. QED BY <1>1, <1>3, <1>4, <1>5, <1>6, <1>7 DEF Next

\* A command is sent for a line of its capability, with a body that is made from
\* what the unit always says.
LEMMA CommandIsOrdered ==
  ASSUME LinesOfTheTable, ServedByTheTable, IInv, UnitOK, Commanded
  PROVE  CommandOK'
<1>1. PICK ask \in Asked :
        /\ ask[1] \in heard
        /\ LET s == SpecFor(ask[1], resources)
               rep == Rep(resources, s.href)
               body == Payload(s, ask[2], rep)
           IN  \/ command' = command
               \/ /\ resolved /\ Writable(s) /\ body \notin {None, Refused}
                  /\ command' = [step |-> "queued", ask |-> ask, spec |-> s, body |-> body]
  BY DEF Commanded
<1> DEFINE s == SpecFor(ask[1], resources)
           cached == Rep(resources, s.href)
           body == AcPayload(s, ask[2], cached)
<1>2. ask[1] \in Declared
  BY <1>1 DEF IInv, HomeyOK
<1>3. PICK i \in DOMAIN Specs :
        /\ s = Specs[i] /\ Specs[i].capability = ask[1]
        /\ IF ask[1] \in Wanted(resources) THEN i \in Applying(resources)
           ELSE i = DeclaredFor(ask[1])
  BY <1>2, SpecForIsSpec
<1>4. CASE command' = command
  BY <1>4, CommandKept DEF UnitOK
<1>5. CASE /\ resolved /\ Writable(s) /\ body \notin {None, Refused}
           /\ command' = [step |-> "queued", ask |-> ask, spec |-> s, body |-> body]
  <2>1. Counted(s) => Whole(s, cached)
    <3>1. AllWhole(resources)
      BY <1>5 DEF UnitOK, CacheOK, IsRead
    <3>. QED BY <1>3, <3>1, RepIsThere DEF AllWhole
  <2>2. ASSUME Reported(s.href) # {} PROVE Reachable(s)
    <3>1. CASE i \in Applying(resources)
      BY <1>3, <2>2, <3>1, ApplyingIsReachable DEF UnitOK, CacheOK
    <3>2. CASE i = DeclaredFor(ask[1])
      BY <1>3, <2>2, <3>2 DEF Reachable
    <3>. QED BY <1>3, <3>1, <3>2
  <2> HIDE DEF s, body, cached
  <2>3. Ordered(s, ask, body)
    <3>1. body = AcPayload(s, ask[2], cached) /\ (Counted(s) => Whole(s, cached))
      BY <2>1 DEF body
    <3>. QED BY <1>3, <1>5, <2>2, <3>1 DEF Ordered
  <2>4. Ordered(command.spec, command.ask, command.body)'
    <3>1. command'.spec = s /\ command'.ask = ask /\ command'.body = body
      BY <1>5
    <3>. QED BY <2>3, <3>1 DEF Ordered
  <2>. QED BY <1>5, <2>4 DEF CommandOK
<1>6. Payload(s, ask[2], cached) = body
  BY DEF ServedByTheTable
<1>. QED BY <1>1, <1>4, <1>5, <1>6

LEMMA CommandStep ==
  ASSUME LinesOfTheTable, ServedByTheTable, IInv, UnitOK, [Next]_vars
  PROVE  CommandOK'
<1>0. CommandOK /\ ActualOK
  BY DEF UnitOK
<1>1. CASE Commanded
  BY <1>1, CommandIsOrdered
<1>2. CASE command' = NoCommand
  BY <1>2 DEF CommandOK, NoCommand
<1>3. CASE Answered /\ command' # NoCommand
  <2>1. command.step = "queued" /\ Effective /\ command' = [command EXCEPT !.step = "sent"]
    BY <1>3 DEF Answered
  <2>2. /\ command'.step = "sent" /\ command'.spec = command.spec
        /\ command'.ask = command.ask /\ command'.body = command.body
        /\ DOMAIN command' = DOMAIN command
    BY <1>0, <2>1 DEF CommandOK
  <2>3. Reported(command.spec.href) # {}
    BY <1>0, <2>1 DEF Effective, ActualOK
  <2>. QED BY <1>0, <2>1, <2>2, <2>3 DEF CommandOK, Ordered
<1>4. CASE UNCHANGED command
  BY <1>0, <1>4, CommandKept
<1>5. ASSUME \/ Operated
             \/ \E r \in Readers : Syncs(r)
             \/ \E t \in Tasks : Begins(t)
             \/ \E r \in Coroutines : Carries(r) \/ Fails(r)
             \/ \E n \in flight : Notified(n)
             \/ \E k \in settling : GuardEnds(k)
             \/ UNCHANGED vars
      PROVE  UNCHANGED command
  BY <1>5 DEF Operated, Syncs, Read, Resolved, Adds, Removes, Listens, Options, Sets, Settled,
              Begins, Carries, AppliesNext, FiresNext, Ends, Fails, Notified, GuardEnds, vars
<1>6. Returns \/ Restarts => command' = NoCommand
  BY DEF Returns, Restarts
<1>. QED BY <1>1, <1>2, <1>3, <1>4, <1>5, <1>6 DEF Next

\* The appliance, and what it notifies.
LEMMA WorldStep ==
  ASSUME LinesOfTheTable, CountsInOneStep, IInv, ListsOK, UnitOK, [Next]_vars
  PROVE  ActualOK' /\ FlightOK'
<1>0. ActualOK /\ FlightOK /\ CommandOK
  BY DEF UnitOK
<1>1. CASE Operated
  BY <1>0, <1>1, OperatedIsWhole
<1>2. CASE Answered
  <2>1. CASE Effective /\ Becomes(Written(actual))
    BY <1>0, <1>2, <2>1, TakenIsWhole DEF Answered
  <2>2. CASE UNCHANGED appliance
    BY <1>0, <2>2, ActualKept, FlightKept DEF appliance
  <2>. QED BY <1>2, <2>1, <2>2 DEF Answered
<1>3. CASE UNCHANGED actual /\ flight' \subseteq flight
  BY <1>0, <1>3, ActualKept, FlightKept
<1>4. ASSUME \/ Commanded \/ Returns \/ Restarts
             \/ \E r \in Readers : Syncs(r)
             \/ \E t \in Tasks : Begins(t)
             \/ \E r \in Coroutines : Carries(r) \/ Fails(r)
             \/ \E n \in flight : Notified(n)
             \/ \E k \in settling : GuardEnds(k)
             \/ UNCHANGED vars
      PROVE  UNCHANGED actual /\ flight' \subseteq flight
  BY <1>4 DEF Commanded, Returns, Restarts, Syncs, Read, Resolved, Adds, Removes, Listens,
              Options, Sets, Settled, Begins, Carries, AppliesNext, FiresNext, Ends, Fails,
              Notified, GuardEnds, vars, appliance
<1>. QED BY <1>1, <1>2, <1>3, <1>4 DEF Next

LEMMA UnitInit ==
  ASSUME CountsInOneStep
  PROVE  Init => UnitOK
<1> SUFFICES ASSUME Init PROVE UnitOK
  OBVIOUS
<1>1. actual \in Dumps /\ flight = {} /\ resources = <<>> /\ command = NoCommand
  BY DEF Init
<1>2. \A h \in DOMAIN actual : actual[h] \in Reported(h)
  BY <1>1 DEF Reported
<1>3. ActualOK
  <2>1. AllWhole(actual)
    BY <1>1, <1>2 DEF CountsInOneStep, AllWhole
  <2>2. LightsAreHome(actual)
    BY <1>2 DEF LightsAreHome, LightIsHome, Reachable
  <2>. QED BY <1>2, <2>1, <2>2 DEF ActualOK
<1>4. CacheOK
  <2>1. ~resolved /\ \A r \in Coroutines : job[r].phase # "resolving"
    BY DEF Init, Idle
  <2>2. DOMAIN resources = {}
    BY <1>1
  <2>. QED BY <2>1, <2>2 DEF CacheOK, IsRead, LightsAreHome
<1>5. FlightOK /\ CommandOK
  BY <1>1 DEF FlightOK, CommandOK, NoCommand
<1>. QED BY <1>3, <1>4, <1>5 DEF UnitOK

LEMMA UnitStep ==
  ASSUME LinesOfTheTable, ServedByTheTable, CountsInOneStep
  PROVE  IInv /\ ListsOK /\ UnitOK /\ [Next]_vars => UnitOK'
BY WorldStep, CacheStep, CommandStep DEF UnitOK

\* What a line goes by is the same in the cache that a command was made from and
\* in the appliance that takes it.
LEMMA OrderIsUnderstood ==
  ASSUME CountsInOneStep, AskedInKind, NEW s, NEW ask \in Asked, NEW i \in DOMAIN Specs,
         s = Specs[i], Writable(s), s.capability = ask[1], NEW cached, NEW rep, Listed(rep),
         Counted(s) => Whole(s, cached) /\ Whole(s, rep)
  PROVE  Understood(s, ask[2], cached, rep)
<1>1. IsAsked(s)
  BY DEF IsAsked
<1>2. s.write[1] \in {"flag", "light"} => ask[2] \in BOOLEAN
  BY DEF AskedInKind
<1>3. ASSUME s.write[1] = "setpoint"
      PROVE  /\ ask[2] \in Int /\ Zero(rep) # {}
             /\ StepOf(cached) \in Nat \ {0} /\ StepOf(rep) = StepOf(cached)
  <2>1. Whole(s, cached) /\ Whole(s, rep)
    BY <1>1, <1>3 DEF Counted
  <2>2. ask[2] \in Int
    BY <1>3 DEF AskedInKind
  <2>. QED BY <1>3, <2>1, <2>2 DEF Whole, CountsInOneStep
<1>4. ASSUME s.write[1] = "fan"
      PROVE  /\ FanCodes(rep) = FanCodes(cached) /\ FanNames(rep) \in Seq(STRING)
             /\ \A a, b \in DOMAIN FanCodes(rep) : FanCodes(rep)[a] = FanCodes(rep)[b] => a = b
  <2>1. Whole(s, cached) /\ Whole(s, rep)
    BY <1>1, <1>4 DEF Counted
  <2>2. \A x \in {cached, rep} : \A g \in {"names", "supported"} : g \in DOMAIN x /\ x[g] = Unit[g]
    BY <1>4, <2>1 DEF Whole
  <2>3. ASSUME NEW x \in {cached, rep}
        PROVE  FanNames(x) = FanNames(Unit) /\ FanCodes(x) = FanCodes(Unit)
    <3>1. \A g \in {"names", "supported"} :
            (g \in DOMAIN x <=> g \in DOMAIN Unit) /\ (g \in DOMAIN Unit => x[g] = Unit[g])
      BY <2>2 DEF CountsInOneStep
    <3>. QED BY <3>1, SameFan
  <2>4. FanNames(Unit) \in Seq(STRING)
    BY DEF FanNames, CountsInOneStep
  <2>. QED BY <2>3, <2>4 DEF CountsInOneStep
<1>. QED BY <1>2, <1>3, <1>4 DEF Understood

\* The appliance has taken a command: every control of the capability that it now
\* has is the one it was sent to, and reads as what was asked for.
LEMMA TakenIsDone ==
  ASSUME OneUnit, ServedByTheTable, NoneIsApart, IInv, ListsOK, UnitOK, UnitOK',
         command.step # "none", Effective, actual' = Written(actual), done' = command.ask
  PROVE  AskedIsDone'
<1> DEFINE spec == command.spec
           ask == command.ask
           body == command.body
           rep == Rep(actual, spec.href)
<1>1. LinesOfTheTable /\ CountsInOneStep /\ OneHome /\ AskedInKind
  BY DEF OneUnit
<1>2. PICK i \in DOMAIN Specs :
        /\ spec = Specs[i] /\ Writable(spec) /\ ask \in Asked /\ ask[1] = spec.capability
        /\ body \notin {None, Refused}
        /\ \E cached : body = AcPayload(spec, ask[2], cached) /\ (Counted(spec) => Whole(spec, cached))
        /\ Reported(spec.href) # {} => Reachable(spec)
  BY DEF UnitOK, CommandOK, Ordered
<1>3. PICK cached : body = AcPayload(spec, ask[2], cached) /\ (Counted(spec) => Whole(spec, cached))
  BY <1>2
<1>4. spec.href \in DOMAIN actual /\ Reachable(spec)
  BY <1>2 DEF Effective, UnitOK, ActualOK
<1>5. Understood(spec, ask[2], cached, rep)
  <2>1. Counted(spec) => Whole(spec, rep)
    BY <1>2, <1>4, RepIsThere DEF UnitOK, ActualOK, AllWhole
  <2>2. Listed(rep)
    BY RepIsListed DEF ListsOK
  <2> HIDE DEF spec, ask, rep
  <2>. QED BY <1>1, <1>2, <1>3, <2>1, <2>2, OrderIsUnderstood
<1>6. actual' = Stored(actual, spec.href, FoldWrite(rep, body))
  BY DEF Written
<1>7. AcMeets(spec, AcReads(spec, actual'), ask[2], Rep(actual', spec.href))
  <2>1. PICK k \in DOMAIN REGISTRY : spec = REGISTRY[k]
    BY <1>1, <1>2 DEF LinesOfTheTable
  <2> HIDE DEF spec, ask, rep, body
  <2>. QED BY <1>2, <1>3, <1>5, <1>6, <2>1, WritesReadBack DEF rep
<1> HIDE DEF spec, ask, body
<1>8. ASSUME ask[1] \in Wanted(actual') PROVE SpecFor(ask[1], actual') = spec
  <2>1. ask[1] \in Declared
    BY <1>2 DEF Declared
  <2>2. PICK j \in Applying(actual') :
          /\ j \in DOMAIN Specs
          /\ SpecFor(ask[1], actual') = Specs[j] /\ Specs[j].capability = ask[1]
    BY <1>8, <2>1, SpecForIsSpec
  <2>3. Specs[j].href \in DOMAIN actual'
    BY <2>2 DEF Applying, Applies, Rep
  <2>4. Reported(Specs[j].href) # {} /\ LightsAreHome(actual')
    <3>1. LightsAreHome(actual') /\ \A h \in DOMAIN actual' : Reported(h) # {}
      BY DEF UnitOK, ActualOK, LightsAreHome
    <3>. QED BY <2>3, <3>1
  <2>5. Reachable(Specs[j])
    BY <1>1, <2>2, <2>4, ApplyingIsReachable
  <2>6. IsAsked(Specs[i]) /\ Specs[i].capability = Specs[j].capability
    BY <1>2, <2>2 DEF IsAsked
  <2>. QED BY <1>1, <1>2, <1>4, <2>2, <2>5, <2>6 DEF OneHome
<1>9. ask[1] \in Wanted(actual') =>
        LET t == SpecFor(ask[1], actual')
        IN  Meets(t, Reads(t, actual'), ask[2], Rep(actual', t.href))
  BY <1>7, <1>8 DEF ServedByTheTable
<1>10. done' = ask
  BY DEF ask
<1>. QED BY <1>9, <1>10 DEF AskedIsDone

LEMMA DoneStep ==
  ASSUME OneUnit, ServedByTheTable, NoneIsApart
  PROVE  IInv /\ ListsOK /\ UnitOK /\ UnitOK' /\ AskedIsDone /\ [Next]_vars => AskedIsDone'
<1> SUFFICES ASSUME IInv, ListsOK, UnitOK, UnitOK', AskedIsDone, [Next]_vars
             PROVE  AskedIsDone'
  OBVIOUS
<1>1. CASE Operated
  BY <1>1 DEF Operated, AskedIsDone
<1>2. CASE Answered
  <2>1. CASE Effective /\ Becomes(Written(actual)) /\ done' = command.ask
    BY <1>2, <2>1, TakenIsDone DEF Answered, Becomes
  <2>2. CASE UNCHANGED <<appliance, done>>
    BY <2>2 DEF appliance, AskedIsDone
  <2>. QED BY <1>2, <2>1, <2>2 DEF Answered
<1>3. CASE UNCHANGED <<actual, done>>
  BY <1>3 DEF AskedIsDone
<1>4. ASSUME \/ Commanded \/ Returns \/ Restarts
             \/ \E r \in Readers : Syncs(r)
             \/ \E t \in Tasks : Begins(t)
             \/ \E r \in Coroutines : Carries(r) \/ Fails(r)
             \/ \E n \in flight : Notified(n)
             \/ \E k \in settling : GuardEnds(k)
             \/ UNCHANGED vars
      PROVE  UNCHANGED <<actual, done>>
  BY <1>4 DEF Commanded, Returns, Restarts, Syncs, Read, Resolved, Adds, Removes, Listens,
              Options, Sets, Settled, Begins, Carries, AppliesNext, FiresNext, Ends, Fails,
              Notified, GuardEnds, vars, appliance
<1>. QED BY <1>1, <1>2, <1>3, <1>4 DEF Next

\* For one unit, on the whole table, with any number of readers, tasks and pushes,
\* and commands that are lost, or answered when the app no longer listens: what the
\* appliance has accepted is what was asked for, to half a step, for as long as it
\* is left alone (device.py _write, base.py spec_for, the writers and readers of
\* registry/airconditioner.py, _fold_write_into).
THEOREM CommandsAreDone ==
  ASSUME OneUnit, ServedByTheTable, NoneIsApart
  PROVE  Spec => []AskedIsDone
<1>1. LinesOfTheTable /\ CountsInOneStep
  BY DEF OneUnit
<1>2. WritersSendLists
  BY <1>1, AcWritersSendLists DEF ServedByTheTable, LinesOfTheTable, WritersSendLists
<1>3. IInv /\ ListsOK /\ [Next]_vars => ListsOK'
  BY <1>2, ListsStep
<1>4. IInv /\ ListsOK /\ UnitOK /\ [Next]_vars => UnitOK'
  BY <1>1, UnitStep
<1>5. IInv /\ ListsOK /\ UnitOK /\ UnitOK' /\ AskedIsDone /\ [Next]_vars => AskedIsDone'
  BY DoneStep
<1>6. Init => UnitOK
  BY <1>1, UnitInit
<1>7. Init => AskedIsDone
  BY DEF Init, AskedIsDone
<1>. QED BY <1>3, <1>4, <1>5, <1>6, <1>7, ListsInit, InvariantHolds, PTL DEF Spec
-----------------------------------------------------------------------------
(* A device that agrees with its appliance goes on so. *)

\* A job that takes the device nowhere else.
Harmless(j, goal) ==
  /\ j.adds \subseteq goal.capabilities /\ j.gone \cap goal.capabilities = {}
  /\ \A c \in DOMAIN goal.options \cap DOMAIN j.sets : j.sets[c] = goal.options[c]
  /\ j.dict \in {Live, goal.dump}

LEMMA IdleIsHarmless ==
  ASSUME NEW goal, NEW p
  PROVE  Harmless(Idle, goal) /\ Harmless([Idle EXCEPT !.phase = p], goal)
BY DEF Harmless, Idle

LEMMA JobsAreHarmless ==
  ASSUME NEW goal, Agrees(goal), NEW r \in Coroutines
  PROVE  Harmless(job[r], goal)
BY DEF Agrees, Harmless

\* What a step must leave as it is.
LEMMA AgreementKept ==
  ASSUME NEW goal, Agrees(goal), resources' = resources, have' = have,
         \A v \in goal.values : shown'[v[1]] = shown[v[1]],
         \A c \in DOMAIN goal.options : applied'[c] \in {applied[c], goal.options[c]},
         flight' \subseteq flight, command' = command \/ command'.step # "sent",
         \A q \in Coroutines : job'[q] = job[q] \/ Harmless(job'[q], goal)
  PROVE  Agrees(goal)'
<1>1. \A q \in Coroutines : Harmless(job'[q], goal)
  BY JobsAreHarmless
<1>2. have' = goal.capabilities /\ resources' = goal.dump
  BY DEF Agrees
<1>3. /\ \A v \in goal.values : shown'[v[1]] = v[2]
      /\ \A c \in DOMAIN goal.options : applied'[c] = goal.options[c]
  BY DEF Agrees
<1>4. (\A n \in flight' : Pushed(goal.dump, n[1], n[2]) = goal.dump) /\ command'.step # "sent"
  BY DEF Agrees
<1>. QED BY <1>1, <1>2, <1>3, <1>4 DEF Agrees, Harmless

\* What the device shows is of what it has, and every value there is to apply is
\* among what it shows.
LEMMA GoalIsComplete ==
  ASSUME NEW dump, NEW goal, goal = Goal(dump)
  PROVE  /\ goal.dump = dump /\ goal.capabilities = Wanted(dump)
         /\ goal.options = OptionsOf(dump)
         /\ \A v \in goal.values : v[1] \in goal.capabilities
         /\ have = goal.capabilities => \A i \in DOMAIN Specs : Value(i, dump) # None =>
              <<Specs[i].capability, Value(i, dump)>> \in goal.values
<1> DEFINE shows == {s \in ToSet(Specs) : s.capability \in Wanted(dump) /\ Rep(dump, s.href) # <<>>}
           values == {v \in {<<s.capability, Reads(s, dump)>> : s \in shows} : v[2] # None}
<1>1. goal = [dump |-> dump, capabilities |-> Wanted(dump), options |-> OptionsOf(dump),
              values |-> values]
  BY DEF Goal
<1>2. goal.values = values /\ goal.capabilities = Wanted(dump)
  BY <1>1
<1>3. \A v \in values : v[1] \in Wanted(dump)
  OBVIOUS
<1>4. ASSUME have = Wanted(dump), NEW i \in DOMAIN Specs, Value(i, dump) # None
      PROVE  <<Specs[i].capability, Value(i, dump)>> \in values
  <2>1. Specs[i].capability \in have /\ Rep(dump, Specs[i].href) # <<>>
        /\ Value(i, dump) = Reads(Specs[i], dump)
    BY <1>4 DEF Value
  <2>2. Specs[i] \in shows
    BY <1>4, <2>1 DEF ToSet
  <2> HIDE DEF shows
  <2>. QED BY <1>4, <2>1, <2>2
<1>. QED BY <1>1, <1>2, <1>3, <1>4

\* A reader that compares finds nothing to do.
LEMMA NothingToCompare ==
  ASSUME NEW wanted, have = wanted
  PROVE  Compared(wanted) = [Idle EXCEPT !.phase = "language"]
BY DEF Compared, InStep

LEMMA ReadAgrees ==
  ASSUME NEW r \in Readers, NEW goal, goal = Goal(actual), IInv, resolved, resources = actual,
         Agrees(goal), Read(r)
  PROVE  Agrees(goal)'
<1>1. goal.capabilities = Wanted(actual) /\ goal.dump = actual
  BY GoalIsComplete
<1>2. have = Wanted(actual)
  BY <1>1 DEF Agrees
<1>3. job' = [Frozen EXCEPT ![r] = [Idle EXCEPT !.phase = "language"]]
  BY <1>2, NothingToCompare DEF Read
<1>4. \A q \in Coroutines : Harmless(Frozen[q], goal)
  <2> SUFFICES ASSUME NEW q \in Coroutines PROVE Harmless(Frozen[q], goal)
    OBVIOUS
  <2>1. Harmless(job[q], goal) /\ DOMAIN job[q] = Fields
    BY JobsAreHarmless DEF IInv, JobsOK, JobOK
  <2>2. Harmless([job[q] EXCEPT !.dict = resources], goal)
    BY <1>1, <2>1 DEF Harmless, Fields
  <2>3. Frozen[q] = job[q] \/ Frozen[q] = [job[q] EXCEPT !.dict = resources]
    BY DEF Frozen
  <2>. QED BY <2>1, <2>2, <2>3
<1>5. \A q \in Coroutines : Harmless(job'[q], goal)
  <2>1. DOMAIN Frozen = Coroutines
    BY DEF Frozen
  <2>. QED BY <1>3, <1>4, <2>1, IdleIsHarmless
<1>. QED BY <1>5, AgreementKept DEF Read, appliance, homey

\* Another reader may have compared before the first had done it all: what it
\* adds is there, and what it removes is not.
LEMMA SyncAgrees ==
  ASSUME NEW r \in Readers, NEW goal, goal = Goal(actual), IInv, resources = actual,
         Agrees(goal), Resolved(r) \/ Adds(r) \/ Removes(r) \/ Listens(r)
  PROVE  Agrees(goal)'
<1>1. r \in Coroutines /\ DOMAIN job = Coroutines /\ DOMAIN job[r] = Fields
      /\ Harmless(job[r], goal)
  BY JobsAreHarmless DEF IInv, JobsOK, JobOK, Coroutines
<1>2. /\ goal.capabilities = Wanted(actual) /\ have = goal.capabilities
      /\ \A v \in goal.values : v[1] \in have
  BY GoalIsComplete DEF Agrees
<1>3. CASE Resolved(r)
  <2>1. job' = [job EXCEPT ![r] = [Idle EXCEPT !.phase = "language"]]
    BY <1>2, <1>3, NothingToCompare DEF Resolved
  <2>2. \A q \in Coroutines : job'[q] = job[q] \/ Harmless(job'[q], goal)
    BY <1>1, <2>1, IdleIsHarmless
  <2>. QED BY <1>3, <2>2, AgreementKept DEF Resolved, appliance, homey
<1>4. CASE Adds(r)
  <2>1. PICK c \in job[r].adds :
          /\ job' = [job EXCEPT ![r].adds = @ \ {c}]
          /\ \/ have' = have \cup {c} /\ UNCHANGED events
             \/ Event /\ UNCHANGED have
    BY <1>4 DEF Adds
  <2>2. have' = have
    BY <1>1, <1>2, <2>1 DEF Harmless
  <2>3. Harmless([job[r] EXCEPT !.adds = @ \ {c}], goal)
    BY <1>1 DEF Harmless, Fields
  <2>4. \A q \in Coroutines : job'[q] = job[q] \/ Harmless(job'[q], goal)
    BY <1>1, <2>1, <2>3
  <2>. QED BY <1>4, <2>2, <2>4, AgreementKept DEF Adds, appliance, device
<1>5. CASE Removes(r)
  <2>1. PICK c \in job[r].gone :
          /\ job' = [job EXCEPT ![r].gone = @ \ {c}]
          /\ \/ /\ have' = have \ {c} /\ heard' = heard \ {c}
                /\ shown' = [shown EXCEPT ![c] = None]
                /\ UNCHANGED events
             \/ Event /\ UNCHANGED homey
    BY <1>5 DEF Removes
  <2>2. c \notin have
    BY <1>1, <1>2 DEF Harmless
  <2>3. have' = have /\ \A v \in goal.values : shown'[v[1]] = shown[v[1]]
    <3>1. \A v \in goal.values : v[1] # c /\ v[1] \in DOMAIN shown
      BY <1>2, <2>2 DEF IInv, HomeyOK
    <3>2. have' = have
      BY <2>1, <2>2 DEF homey
    <3>3. shown' = shown \/ shown' = [shown EXCEPT ![c] = None]
      BY <2>1 DEF homey
    <3>. QED BY <3>1, <3>2, <3>3
  <2>4. Harmless([job[r] EXCEPT !.gone = @ \ {c}], goal)
    BY <1>1 DEF Harmless, Fields
  <2>5. \A q \in Coroutines : job'[q] = job[q] \/ Harmless(job'[q], goal)
    BY <1>1, <2>1, <2>4
  <2>. QED BY <1>5, <2>3, <2>5, AgreementKept DEF Removes, appliance, device
<1>6. CASE Listens(r)
  <2>1. \A q \in Coroutines : job'[q] = job[q] \/ Harmless(job'[q], goal)
    BY <1>1, <1>6, IdleIsHarmless DEF Listens
  <2>. QED BY <1>6, <2>1, AgreementKept DEF Listens, appliance, device
<1>. QED BY <1>3, <1>4, <1>5, <1>6

\* What is set is what the goal says, or was.
LEMMA OptionsAgree ==
  ASSUME NEW r \in Readers, NEW goal, goal = Goal(actual), IInv, resources = actual,
         Agrees(goal), Options(r) \/ Sets(r) \/ Settled(r)
  PROVE  Agrees(goal)'
<1>1. r \in Coroutines /\ DOMAIN job = Coroutines /\ JobOK(job[r]) /\ Harmless(job[r], goal)
  BY JobsAreHarmless DEF IInv, JobsOK, Coroutines
<1>2. goal.options = OptionsOf(actual)
  BY GoalIsComplete
<1>3. CASE Options(r)
  <2>1. PICK wants \in {OptionsOf(resources)} :
          job' = [job EXCEPT ![r].phase = "setting",
                             ![r].sets = [c \in DOMAIN wants \cap have |-> wants[c]]]
    BY <1>3 DEF Options
  <2>2. wants = goal.options
    BY <1>2, <2>1
  <2>3. Harmless(job'[r], goal)
    BY <1>1, <2>1, <2>2 DEF Harmless, JobOK, Fields
  <2>4. \A q \in Coroutines : job'[q] = job[q] \/ Harmless(job'[q], goal)
    BY <1>1, <2>1, <2>3
  <2>. QED BY <1>3, <2>4, AgreementKept DEF Options, appliance, homey, device
<1>4. CASE Sets(r)
  <2>1. PICK c \in Unapplied(r) :
          /\ job' = [job EXCEPT ![r].sets = Restrict(@, Unapplied(r) \ {c})]
          /\ \/ c \in have /\ applied' = [applied EXCEPT ![c] = job[r].sets[c]] /\ UNCHANGED events
             \/ Event /\ UNCHANGED applied
             \/ c \notin have /\ UNCHANGED <<applied, events>>
    BY <1>4 DEF Sets
  <2>2. c \in DOMAIN job[r].sets
    BY <2>1 DEF Unapplied
  <2>3. \A x \in DOMAIN goal.options : applied'[x] \in {applied[x], goal.options[x]}
    <3> SUFFICES ASSUME NEW x \in DOMAIN goal.options
                 PROVE  applied'[x] \in {applied[x], goal.options[x]}
      OBVIOUS
    <3>1. x \in DOMAIN applied
      BY <1>2, WantedDeclared DEF IInv, TablesOK
    <3>2. x = c => job[r].sets[c] = goal.options[x]
      BY <1>1, <2>2 DEF Harmless
    <3>3. applied' = applied \/ applied' = [applied EXCEPT ![c] = job[r].sets[c]]
      BY <2>1
    <3>. QED BY <3>1, <3>2, <3>3
  <2>4. Harmless(job'[r], goal)
    <3> DEFINE left == Unapplied(r) \ {c}
               rest == Restrict(job[r].sets, left)
    <3>1. DOMAIN rest = DOMAIN job[r].sets \cap left /\ \A x \in DOMAIN rest : rest[x] = job[r].sets[x]
      BY DEF Restrict, Unapplied
    <3>2. job'[r] = [job[r] EXCEPT !.sets = rest]
      BY <1>1, <2>1
    <3> HIDE DEF rest, left
    <3>. QED BY <1>1, <3>1, <3>2 DEF Harmless, JobOK, Fields
  <2>5. \A q \in Coroutines : job'[q] = job[q] \/ Harmless(job'[q], goal)
    BY <1>1, <2>1, <2>4
  <2>. QED BY <1>4, <2>3, <2>5, AgreementKept DEF Sets, appliance, homey
<1>5. CASE Settled(r)
  <2>1. \A q \in Coroutines : job'[q] = job[q] \/ Harmless(job'[q], goal)
    BY <1>1, <1>5, IdleIsHarmless DEF Settled
  <2>. QED BY <1>5, <2>1, AgreementKept DEF Settled, appliance, homey, device
<1>. QED BY <1>3, <1>4, <1>5

\* An _apply finds every value shown, from whichever dict it reads; a trigger
\* shows nothing, and what fails does nothing.
LEMMA ApplyAgrees ==
  ASSUME NEW r \in Coroutines, NEW goal, goal = Goal(actual), IInv, resources = actual,
         Agrees(goal), Carries(r) \/ Fails(r)
  PROVE  Agrees(goal)'
<1>1. DOMAIN job = Coroutines /\ JobOK(job[r]) /\ Harmless(job[r], goal)
  BY JobsAreHarmless DEF IInv, JobsOK
<1>2. CASE AppliesNext(r)
  <2>1. PICK i \in Earliest(Due(r)) :
          \E c \in {Specs[i].capability}, v \in {Value(i, DictOf(r))} :
            IF shown[c] # v
            THEN /\ shown' = [shown EXCEPT ![c] = v]
                 /\ job' = [job EXCEPT ![r].phase = "firing", ![r].at = i, ![r].value = v]
                 /\ UNCHANGED <<previous, told>>
            ELSE /\ Triggered(c, v)
                 /\ job' = [job EXCEPT ![r].at = i + 1]
                 /\ UNCHANGED shown
    BY <1>2, ZenonT(30) DEF AppliesNext
  <2>2. DictOf(r) = actual
    BY <1>1, GoalIsComplete DEF Harmless, DictOf
  <2>3. i \in DOMAIN Specs /\ Value(i, actual) # None
    BY <2>2, DueHasValue
  <2>4. <<Specs[i].capability, Value(i, actual)>> \in goal.values
    BY <2>3, GoalIsComplete DEF Agrees
  <2>5. shown[Specs[i].capability] = Value(i, actual)
    BY <2>4 DEF Agrees
  <2>6. job' = [job EXCEPT ![r].at = i + 1] /\ UNCHANGED shown
    BY <2>1, <2>2, <2>5
  <2>7. \A q \in Coroutines : job'[q] = job[q] \/ Harmless(job'[q], goal)
    BY <1>1, <2>6 DEF Harmless, JobOK, Fields
  <2>. QED BY <1>2, <2>6, <2>7, AgreementKept DEF AppliesNext, appliance
<1>3. CASE FiresNext(r)
  <2>1. \A q \in Coroutines : job'[q] = job[q] \/ Harmless(job'[q], goal)
    BY <1>1, <1>3 DEF FiresNext, Harmless, JobOK, Fields
  <2>. QED BY <1>3, <2>1, AgreementKept DEF FiresNext, appliance, homey
<1>4. CASE Ends(r) \/ Fails(r)
  <2>1. \A q \in Coroutines : job'[q] = job[q] \/ Harmless(job'[q], goal)
    BY <1>1, <1>4, IdleIsHarmless DEF Ends, Fails
  <2>. QED BY <1>4, <2>1, AgreementKept DEF Ends, Fails, appliance, homey, device
<1>. QED BY <1>2, <1>3, <1>4 DEF Carries

\* A push of what is known already, and the task it starts.
LEMMA PushAgrees ==
  ASSUME NEW goal, goal = Goal(actual), IInv, resources = actual, Agrees(goal),
         (\E n \in flight : Notified(n)) \/ (\E t \in Tasks : Begins(t))
  PROVE  Agrees(goal)'
<1>1. DOMAIN job = Coroutines /\ \A q \in Coroutines : JobOK(job[q]) /\ Harmless(job[q], goal)
  BY JobsAreHarmless DEF IInv, JobsOK
<1>2. ASSUME NEW n \in flight, Notified(n) PROVE Agrees(goal)'
  <2>1. Pushed(resources, n[1], n[2]) = resources
    BY GoalIsComplete DEF Agrees
  <2>2. resources' = resources
    BY <1>2, <2>1 DEF Notified
  <2>3. job' = job \/ \E t \in Tasks : job' = [job EXCEPT ![t].phase = "created", ![t].only = n[1]]
    BY <1>2 DEF Notified
  <2>4. \A t \in Coroutines : Harmless([job[t] EXCEPT !.phase = "created", !.only = n[1]], goal)
    BY <1>1 DEF Harmless, JobOK, Fields
  <2>5. \A q \in Coroutines : job'[q] = job[q] \/ Harmless(job'[q], goal)
    <3>1. ASSUME NEW t \in Tasks,
                 job' = [job EXCEPT ![t].phase = "created", ![t].only = n[1]]
          PROVE  \A q \in Coroutines : job'[q] = job[q] \/ Harmless(job'[q], goal)
      <4>1. t \in Coroutines /\ job'[t] = [job[t] EXCEPT !.phase = "created", !.only = n[1]]
        BY <1>1, <3>1 DEF Coroutines
      <4>2. \A q \in Coroutines \ {t} : job'[q] = job[q]
        BY <1>1, <3>1
      <4>. QED BY <2>4, <4>1, <4>2
    <3>. QED BY <2>3, <3>1
  <2>. QED BY <1>2, <2>2, <2>5, AgreementKept DEF Notified, homey
<1>3. ASSUME NEW t \in Tasks, Begins(t) PROVE Agrees(goal)'
  <2>1. \A q \in Coroutines : job'[q] = job[q] \/ Harmless(job'[q], goal)
    BY <1>1, <1>3 DEF Begins, Harmless, JobOK, Fields
  <2>. QED BY <1>3, <2>1, AgreementKept DEF Begins, appliance, homey, device
<1>. QED BY <1>2, <1>3

\* A command that asks for what there is shows that again.
LEMMA CommandAgrees ==
  ASSUME NEW goal, goal = Goal(actual), IInv, resources = actual, Agrees(goal), Commanded
  PROVE  Agrees(goal)'
<1>1. PICK ask \in Asked :
        /\ ask[1] \in heard
        /\ LET s == SpecFor(ask[1], resources)
               body == Payload(s, ask[2], Rep(resources, s.href))
           IN  \/ UNCHANGED <<shown, command>>
               \/ /\ Holds(s, ask[2])
                  /\ shown' = [shown EXCEPT ![ask[1]] = ask[2]] /\ UNCHANGED command
               \/ /\ command' = [step |-> "queued", ask |-> ask, spec |-> s, body |-> body]
                  /\ UNCHANGED shown
  BY DEF Commanded
<1> DEFINE s == SpecFor(ask[1], resources)
<1>2. ask[1] \in have /\ ask[1] \in Declared
  BY <1>1 DEF IInv, HomeyOK
<1>3. PICK i \in DOMAIN Specs : s = Specs[i] /\ Specs[i].capability = ask[1]
  BY <1>2, SpecForIsSpec
<1>4. ASSUME Holds(s, ask[2]) PROVE shown[ask[1]] = ask[2]
  <2>1. Value(i, actual) = ask[2] /\ Value(i, actual) # None
    BY <1>2, <1>3, <1>4 DEF Holds, Value
  <2>2. <<ask[1], ask[2]>> \in goal.values
    BY <1>3, <2>1, GoalIsComplete DEF Agrees
  <2>. QED BY <2>2 DEF Agrees
<1>5. \A v \in goal.values : shown'[v[1]] = shown[v[1]]
  <2>1. \A v \in goal.values : v[1] \in DOMAIN shown
    BY GoalIsComplete DEF IInv, HomeyOK, Agrees
  <2>2. shown' = shown \/ shown' = [shown EXCEPT ![ask[1]] = shown[ask[1]]]
    BY <1>1, <1>4
  <2>. QED BY <2>1, <2>2
<1>6. command' = command \/ command'.step # "sent"
  BY <1>1
<1>. QED BY <1>5, <1>6, AgreementKept DEF Commanded, appliance

\* What becomes as it was is not notified.
LEMMA SameIsQuiet ==
  ASSUME NEW dump, dump = actual, Becomes(dump)
  PROVE  flight' = flight
<1>1. Changed(actual, dump) = {}
  BY DEF Changed
<1>. QED BY <1>1 DEF Becomes

LEMMA WorldAgrees ==
  ASSUME NEW goal, Agrees(goal), resolved, UNCHANGED <<actual, resolved>>,
         \/ Operated \/ Answered \/ Returns \/ Restarts
         \/ \E h \in settling : GuardEnds(h)
         \/ UNCHANGED vars
  PROVE  Agrees(goal)'
<1>1. CASE Operated
  <2>1. flight' = flight
    <3>1. PICK step \in Steps : Becomes(Replaced(actual, step[1], step[3]))
      BY <1>1 DEF Operated
    <3>2. Replaced(actual, step[1], step[3]) = actual
      BY <3>1 DEF Becomes
    <3>. QED BY <3>1, <3>2, SameIsQuiet
  <2>. QED BY <1>1, <2>1, AgreementKept DEF Operated, homey, device
<1>2. CASE Answered
  <2>1. ~(Effective /\ Becomes(Written(actual)))
    BY DEF Effective, Becomes
  <2>2. command' = NoCommand /\ UNCHANGED appliance
    BY <1>2, <2>1 DEF Answered
  <2>3. command'.step # "sent"
    BY <2>2 DEF NoCommand
  <2>. QED BY <1>2, <2>2, <2>3, AgreementKept DEF Answered, homey, device, appliance
<1>3. CASE Returns \/ Restarts
  BY <1>3 DEF Returns, Restarts, Agrees
<1>4. CASE (\E h \in settling : GuardEnds(h)) \/ UNCHANGED vars
  BY <1>4, AgreementKept DEF GuardEnds, vars, appliance, homey, device
<1>. QED BY <1>1, <1>2, <1>3, <1>4

\* Agreement lasts: for any registry, and any number of readers, tasks and pushes,
\* a device whose cache, capabilities, values and ranges are at what its appliance
\* reports, with nothing older under way, stays there until the appliance changes
\* or the app starts again, whatever is polled, commanded and fails meanwhile
\* (_read_and_apply, _sync_capabilities, _apply, _on_notification, _write).
THEOREM AgreementIsKept == Spec => AgreementLasts
<1> DEFINE Lasting == resolved /\ resources = actual /\ UNCHANGED <<actual, resolved>> =>
                        \A goal \in {Goal(actual)} : Agrees(goal) => Agrees(goal)'
<1>1. ASSUME IInv, [Next]_vars PROVE Lasting
  <2> SUFFICES ASSUME resolved, resources = actual, UNCHANGED <<actual, resolved>>,
                      NEW goal \in {Goal(actual)}, Agrees(goal)
               PROVE  Agrees(goal)'
    OBVIOUS
  <2>1. CASE \E r \in Readers : Syncs(r)
    BY <1>1, <2>1, ReadAgrees, SyncAgrees, OptionsAgree DEF Syncs
  <2>2. CASE \E r \in Coroutines : Carries(r) \/ Fails(r)
    BY <1>1, <2>2, ApplyAgrees
  <2>3. CASE (\E n \in flight : Notified(n)) \/ \E t \in Tasks : Begins(t)
    BY <1>1, <2>3, PushAgrees
  <2>4. CASE Commanded
    BY <1>1, <2>4, CommandAgrees
  <2>5. CASE \/ Operated \/ Answered \/ Returns \/ Restarts
             \/ \E h \in settling : GuardEnds(h)
             \/ UNCHANGED vars
    BY <2>5, WorldAgrees
  <2>. QED BY <1>1, <2>1, <2>2, <2>3, <2>4, <2>5 DEF Next
<1>2. IInv /\ [Next]_vars => [Lasting]_vars
  BY <1>1
<1> HIDE DEF Lasting
<1>3. Spec => [][Lasting]_vars
  BY <1>2, InvariantHolds, PTL DEF Spec
<1>. QED BY <1>3 DEF Lasting, AgreementLasts
=============================================================================
