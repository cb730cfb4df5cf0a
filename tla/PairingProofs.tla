---------------------------- MODULE PairingProofs -----------------------------
(***************************************************************************)
(* Proofs, for any appliances, addresses, views and bounds, and whatever a *)
(* probe makes of what it finds: an appliance with a serial is paired once *)
(* and not offered again, and a search neither loses an answer nor runs    *)
(* for ever on paper.                                                      *)
(***************************************************************************)
EXTENDS Pairing, FiniteSetTheorems, SequenceTheorems, WellFoundedInduction, TLAPS

-----------------------------------------------------------------------------
(* The inductive invariant. *)

\* What is offered was read from a unit at an address.
Genuine == {Offer(u, a) : u \in Units, a \in Addrs}

Scans == [running: BOOLEAN, found: SUBSET Genuine, unidentified: SUBSET Addrs,
          since: 0..MaxDevices]
Jobs == [phase: {"made", "sweep", "identify", "done"}, scan: Nat, since: Nat,
         todo: SUBSET Addrs, done: SUBSET Addrs, known: SUBSET Addrs]

WorldOK == at \in Leases /\ moves \in 0..MaxMoves
DevicesOK == devices \in Seq(Genuine) /\ Len(devices) <= MaxDevices
ScansOK == scans \in Seq(Scans) /\ \A n \in DOMAIN scans : scans[n].since <= Len(devices)
JobsOK == jobs \in Seq(Jobs)
ViewsOK ==
  /\ DOMAIN view = Views
  /\ \A v \in Views :
       /\ DOMAIN view[v] = {"step", "watching", "scan", "offer"}
       /\ view[v].scan \in 0..Len(scans)
       /\ view[v].step = "creating" => view[v].offer \in Genuine

\* A search that runs has a dict of its own, begun no later than itself; one
\* that does not has nothing to account for.
JobOK(job) ==
  /\ job.todo \cap job.done = {}
  /\ scans # <<>>
  /\ job.phase \in {"sweep", "identify"} =>
       /\ job.scan \in 1..Len(scans)
       /\ scans[job.scan].since <= job.since /\ job.since <= Len(devices)
  /\ job.phase # "identify" => job.done = {}
BoundToScans == \A j \in DOMAIN jobs : JobOK(jobs[j])

\* What Homey refuses.
IdsDiffer == \A i, k \in DOMAIN devices : devices[i].id = devices[k].id => i = k

TypesOK == WorldOK /\ DevicesOK /\ ScansOK /\ JobsOK /\ ViewsOK

IInv ==
  /\ TypesOK /\ BoundToScans /\ IdsDiffer
  /\ PairedIsNotOffered /\ RespondersAreAccountedFor /\ RunningIsSomebodysTask

\* A serial that proves something is the identity, wherever it is read.
LEMMA SerialIsIdentity ==
  ASSUME NEW u \in Verifiable, NEW a, NEW b
  PROVE  Id(u, a) = Id(u, b)
<1> DEFINE serial == Field(Resources[u], Information, "serialNum", NoSerial)
<1>1. serial.length # 0 /\ ~IsPlaceholder(serial)
  <2>1. serial.length > 0 /\ ~IsPlaceholder(serial)
    BY DEF Verifiable
  <2> HIDE DEF serial
  <2>. QED BY <2>1
<1>2. \A x, p : ReadSerial(Resources[u], x, p) = <<serial.text>>
  BY <1>1 DEF ReadSerial
<1>. QED BY <1>2 DEF Id

LEMMA GenuineIsOffer ==
  /\ Genuine \subseteq Offers
  /\ \A o \in Genuine : \E a \in Addrs : o.unit \in Units /\ o.host = a /\ o.id = Id(o.unit, a)
BY DEF Genuine, Offers, Offer, Ids, Keys

\* Two offers of one such appliance carry one identity.
LEMMA SameUnitSameId ==
  ASSUME NEW o \in Genuine, NEW p \in Genuine, o.unit = p.unit, o.unit \in Verifiable
  PROVE  o.id = p.id
BY GenuineIsOffer, SerialIsIdentity

LEMMA IdsDifferImpliesNoTwins == DevicesOK /\ IdsDiffer => NoTwins
<1> SUFFICES ASSUME DevicesOK, IdsDiffer, NEW i \in DOMAIN devices, NEW k \in DOMAIN devices,
                    devices[i].unit = devices[k].unit, devices[i].unit \in Verifiable
             PROVE  i = k
  BY DEF NoTwins
<1>1. devices[i] \in Genuine /\ devices[k] \in Genuine
  BY DEF DevicesOK
<1>2. devices[i].id = devices[k].id
  BY <1>1, SameUnitSameId
<1>. QED BY <1>2 DEF IdsDiffer

LEMMA TypesImplyTypeOK == TypesOK /\ BoundToScans => TypeOK
<1> SUFFICES ASSUME TypesOK, BoundToScans PROVE TypeOK
  OBVIOUS
<1>1. \A i \in DOMAIN devices : devices[i] \in Offers
  BY GenuineIsOffer DEF TypesOK, DevicesOK
<1>2. \A n \in DOMAIN scans :
        scans[n] \in [running: BOOLEAN, found: SUBSET Offers, unidentified: SUBSET Addrs,
                      since: 0..MaxDevices]
  <2> SUFFICES ASSUME NEW n \in DOMAIN scans
               PROVE  scans[n] \in [running: BOOLEAN, found: SUBSET Offers,
                                    unidentified: SUBSET Addrs, since: 0..MaxDevices]
    OBVIOUS
  <2>1. scans[n] \in Scans
    BY DEF TypesOK, ScansOK
  <2>. QED BY <2>1, GenuineIsOffer DEF Scans
<1>3. \A j \in DOMAIN jobs :
        jobs[j].todo \cup jobs[j].done \subseteq Addrs /\ jobs[j].todo \cap jobs[j].done = {}
  <2> SUFFICES ASSUME NEW j \in DOMAIN jobs
               PROVE  jobs[j].todo \cup jobs[j].done \subseteq Addrs
                      /\ jobs[j].todo \cap jobs[j].done = {}
    OBVIOUS
  <2>1. jobs[j] \in Jobs
    BY DEF TypesOK, JobsOK
  <2>. QED BY <2>1 DEF Jobs, BoundToScans, JobOK
<1>. QED BY <1>1, <1>2, <1>3 DEF TypesOK, WorldOK, ViewsOK, TypeOK

LEMMA InitInvariant == Init => IInv
<1> SUFFICES ASSUME Init PROVE IInv
  OBVIOUS
<1>1. WorldOK
  BY PairingAssumption DEF Init, WorldOK
<1>2. DevicesOK
  BY EmptySeq, PairingAssumption DEF Init, DevicesOK
<1>3. scans = <<>> /\ jobs = <<>> /\ Len(scans) = 0 /\ Len(devices) = 0
  BY EmptySeq DEF Init
<1>4. ScansOK /\ JobsOK /\ BoundToScans /\ IdsDiffer
  BY <1>3 DEF ScansOK, JobsOK, BoundToScans, IdsDiffer, Init
<1>5. ViewsOK
  BY <1>3 DEF Init, ViewsOK, Rest
<1>6. PairedIsNotOffered /\ RespondersAreAccountedFor /\ RunningIsSomebodysTask
  BY <1>3 DEF PairedIsNotOffered, RespondersAreAccountedFor, RunningIsSomebodysTask, Running
<1>. QED BY <1>1, <1>2, <1>4, <1>5, <1>6 DEF IInv, TypesOK

\* The lengths of the three lists, and what is in them.
LEMMA Lists ==
  ASSUME IInv
  PROVE  /\ Len(scans) \in Nat /\ DOMAIN scans = 1..Len(scans)
         /\ Len(jobs) \in Nat /\ DOMAIN jobs = 1..Len(jobs)
         /\ Len(devices) \in Nat /\ DOMAIN devices = 1..Len(devices)
         /\ \A n \in DOMAIN scans : scans[n] \in Scans
         /\ \A j \in DOMAIN jobs : jobs[j] \in Jobs
         /\ \A i \in DOMAIN devices : devices[i] \in Genuine
<1>1. scans \in Seq(Scans) /\ jobs \in Seq(Jobs) /\ devices \in Seq(Genuine)
  BY DEF IInv, TypesOK, ScansOK, JobsOK, DevicesOK
<1>. QED BY <1>1

-----------------------------------------------------------------------------
(* Steps that leave the searches and the devices alone. *)

LEMMA QuietKeeps ==
  ASSUME IInv, UNCHANGED <<devices, scans, jobs>>, WorldOK', ViewsOK'
  PROVE  IInv'
<1>1. DevicesOK' /\ ScansOK' /\ JobsOK' /\ BoundToScans' /\ IdsDiffer'
  BY DEF IInv, TypesOK, DevicesOK, ScansOK, JobsOK, BoundToScans, JobOK, IdsDiffer
<1>2. PairedIsNotOffered' /\ RespondersAreAccountedFor' /\ RunningIsSomebodysTask'
  BY DEF IInv, PairedIsNotOffered, RespondersAreAccountedFor, RunningIsSomebodysTask, Running
<1>. QED BY <1>1, <1>2 DEF IInv, TypesOK

LEMMA WorldKept == ASSUME WorldOK, UNCHANGED world PROVE WorldOK'
BY DEF WorldOK, world

\* The bound on moves is a number.
LEMMA ReaddressKeeps == IInv /\ Readdress => IInv'
<1> SUFFICES ASSUME IInv, Readdress PROVE IInv'
  OBVIOUS
<1>1. WorldOK'
  BY PairingAssumption DEF IInv, TypesOK, WorldOK, Readdress
<1>2. ViewsOK'
  BY DEF IInv, TypesOK, ViewsOK, Readdress
<1>. QED BY <1>1, <1>2, QuietKeeps DEF Readdress

\* One view changes.
LEMMA OneViewKept ==
  ASSUME ViewsOK, NEW v \in Views, NEW new, UNCHANGED scans,
         view' = [view EXCEPT ![v] = new],
         DOMAIN new = {"step", "watching", "scan", "offer"},
         new.scan \in 0..Len(scans), new.step = "creating" => new.offer \in Genuine
  PROVE  ViewsOK'
BY DEF ViewsOK

LEMMA RestFits ==
  /\ DOMAIN Rest = {"step", "watching", "scan", "offer"}
  /\ Rest.scan = 0 /\ Rest.step = "rest"
BY DEF Rest

LEMMA SearchAskedKeeps ==
  ASSUME NEW v \in Views, IInv, SearchAsked(v)
  PROVE  IInv'
<1>1. Len(scans) \in Nat
  BY Lists
<1>2. ViewsOK'
  <2> DEFINE new == IF Running(Len(scans))
                    THEN [Rest EXCEPT !.watching = TRUE, !.scan = Len(scans)]
                    ELSE [Rest EXCEPT !.step = "starting"]
  <2>1. /\ DOMAIN new = {"step", "watching", "scan", "offer"}
        /\ new.scan \in 0..Len(scans) /\ new.step # "creating"
    BY <1>1 DEF Rest
  <2>2. view' = [view EXCEPT ![v] = new] /\ UNCHANGED scans
    BY DEF SearchAsked
  <2> HIDE DEF new
  <2>. QED BY <2>1, <2>2, OneViewKept DEF IInv, TypesOK
<1>. QED BY <1>2, QuietKeeps, WorldKept DEF SearchAsked, IInv, TypesOK

LEMMA PolledKeeps ==
  ASSUME NEW v \in Views, IInv, Polled(v)
  PROVE  IInv'
<1>1. Len(scans) \in Nat
  BY Lists
<1>2. ViewsOK'
  BY <1>1 DEF IInv, TypesOK, ViewsOK, Polled
<1>. QED BY <1>2, QuietKeeps, WorldKept DEF Polled, IInv, TypesOK

LEMMA PickedKeeps ==
  ASSUME NEW v \in Views, IInv, Picked(v)
  PROVE  IInv'
<1>1. PICK offer \in scans[view[v].scan].found :
        view' = [view EXCEPT ![v].step = "creating", ![v].offer = offer]
  BY DEF Picked
<1>2. scans[view[v].scan] \in Scans
  <2>1. view[v].scan \in 1..Len(scans)
    BY LenProperties DEF IInv, TypesOK, ViewsOK, ScansOK, Picked
  <2>. QED BY <2>1, ElementOfSeq DEF IInv, TypesOK, ScansOK
<1>3. offer \in Genuine
  BY <1>2 DEF Scans
<1>4. ViewsOK'
  BY <1>1, <1>3 DEF IInv, TypesOK, ViewsOK, Picked
<1>. QED BY <1>4, QuietKeeps, WorldKept DEF Picked, IInv, TypesOK

LEMMA TypedKeeps ==
  ASSUME NEW v \in Views, IInv, Typed(v)
  PROVE  IInv'
<1>1. PICK a \in Addrs : \E u \in Identified(a) :
        view' = [view EXCEPT ![v].step = "creating", ![v].offer = Offer(u, a)]
  BY DEF Typed
<1>2. PICK u \in Identified(a) :
        view' = [view EXCEPT ![v].step = "creating", ![v].offer = Offer(u, a)]
  BY <1>1
<1>3. Offer(u, a) \in Genuine
  BY DEF Genuine, Identified, UnitsAt
<1>4. ViewsOK'
  BY <1>2, <1>3 DEF IInv, TypesOK, ViewsOK, Typed
<1>. QED BY <1>4, QuietKeeps, WorldKept DEF Typed, IInv, TypesOK

-----------------------------------------------------------------------------
(* A search is started. *)

LEMMA SearchStartedKeeps ==
  ASSUME NEW v \in Views, IInv, SearchStarted(v)
  PROVE  IInv'
<1> DEFINE fresh == FreshScan
           made == Idle
<1>1. CASE view' = [view EXCEPT ![v] = Rest] /\ UNCHANGED <<scans, jobs>>
  <2>1. Len(scans) \in Nat
    BY Lists
  <2>2. ViewsOK'
    BY <1>1, <2>1, RestFits DEF ViewsOK, IInv, TypesOK
  <2>. QED BY <1>1, <2>2, QuietKeeps, WorldKept DEF SearchStarted, IInv, TypesOK
<1>2. CASE /\ scans' = Append(scans, fresh) /\ jobs' = Append(jobs, made)
           /\ view' = [view EXCEPT ![v] = [Rest EXCEPT !.watching = TRUE, !.scan = Len(scans')]]
  <2>1. fresh \in Scans /\ fresh.found = {} /\ fresh.since = Len(devices)
    BY LenProperties DEF FreshScan, Scans, IInv, TypesOK, DevicesOK
  <2>2. made \in Jobs /\ made.phase = "made" /\ made.done = {}
    BY DEF Idle, Jobs
  <2> HIDE DEF fresh, made
  <2>3. /\ scans' \in Seq(Scans) /\ Len(scans') = Len(scans) + 1 /\ Len(scans) \in Nat
        /\ \A n \in 1..Len(scans) : scans'[n] = scans[n]
        /\ scans'[Len(scans) + 1] = fresh
        /\ DOMAIN scans = 1..Len(scans) /\ DOMAIN scans' = 1..Len(scans) + 1
    BY <1>2, <2>1, AppendProperties, LenProperties DEF IInv, TypesOK, ScansOK
  <2>4. /\ jobs' \in Seq(Jobs) /\ Len(jobs') = Len(jobs) + 1 /\ Len(jobs) \in Nat
        /\ \A j \in 1..Len(jobs) : jobs'[j] = jobs[j]
        /\ jobs'[Len(jobs) + 1] = made
        /\ DOMAIN jobs = 1..Len(jobs) /\ DOMAIN jobs' = 1..Len(jobs) + 1
    BY <1>2, <2>2, AppendProperties, LenProperties DEF IInv, TypesOK, JobsOK
  <2>5. WorldOK' /\ DevicesOK' /\ IdsDiffer' /\ UNCHANGED devices
    BY WorldKept DEF SearchStarted, IInv, TypesOK, DevicesOK, IdsDiffer
  <2>6. ScansOK' /\ JobsOK'
    BY <2>1, <2>3, <2>4, <2>5, LenProperties DEF ScansOK, JobsOK, IInv, TypesOK, DevicesOK
  <2>7. ViewsOK'
    BY <1>2, <2>3, RestFits DEF ViewsOK, IInv, TypesOK
  <2>8. BoundToScans'
    BY <2>2, <2>3, <2>4, <2>5 DEF BoundToScans, JobOK, IInv
  <2>9. PairedIsNotOffered'
    BY <2>1, <2>3, <2>5 DEF IInv, PairedIsNotOffered
  <2>10. RespondersAreAccountedFor'
    <3>1. \A j \in 1..Len(jobs) : jobs[j].done = {} \/ jobs[j].scan \in 1..Len(scans)
      <4> SUFFICES ASSUME NEW j \in 1..Len(jobs)
                   PROVE  jobs[j].done = {} \/ jobs[j].scan \in 1..Len(scans)
        OBVIOUS
      <4>1. jobs[j].phase \in {"made", "sweep", "identify", "done"}
        BY Lists DEF Jobs
      <4>. QED BY <4>1, <2>4 DEF IInv, BoundToScans, JobOK
    <3>. QED BY <2>2, <2>3, <2>4, <3>1 DEF IInv, RespondersAreAccountedFor
  <2>11. RunningIsSomebodysTask'
    BY <2>2, <2>4 DEF RunningIsSomebodysTask
  <2>. QED BY <2>5, <2>6, <2>7, <2>8, <2>9, <2>10, <2>11 DEF IInv, TypesOK
<1>. QED BY <1>1, <1>2 DEF SearchStarted, Reset

-----------------------------------------------------------------------------
(* A device is created. *)

LEMMA CreatedKeeps ==
  ASSUME NEW v \in Views, IInv, Created(v)
  PROVE  IInv'
<1> DEFINE o == view[v].offer
<1>1. CASE /\ view' = [view EXCEPT ![v].step = "rest", ![v].offer = NoKey]
           /\ UNCHANGED devices
  <2>1. ViewsOK'
    BY <1>1 DEF IInv, TypesOK, ViewsOK, Created
  <2>. QED BY <1>1, <2>1, QuietKeeps, WorldKept DEF Created, IInv, TypesOK
<1>2. CASE /\ o.id \notin DataIds /\ Len(devices) # MaxDevices
           /\ view' = [view EXCEPT ![v] = Rest] /\ devices' = Append(devices, o)
  <2>1. o \in Genuine
    BY DEF IInv, TypesOK, ViewsOK, Created
  <2>2. o.id \notin DataIds
    BY <1>2
  <2> HIDE DEF o
  <2>3. /\ devices' \in Seq(Genuine) /\ Len(devices') = Len(devices) + 1
        /\ Len(devices) \in Nat /\ DOMAIN devices = 1..Len(devices)
        /\ \A i \in 1..Len(devices) : devices'[i] = devices[i]
        /\ devices'[Len(devices) + 1] = o /\ DOMAIN devices' = 1..Len(devices) + 1
    BY <1>2, <2>1, Lists, AppendProperties DEF IInv, TypesOK, DevicesOK
  <2>4. DevicesOK'
    BY <1>2, <2>3, PairingAssumption DEF DevicesOK, IInv, TypesOK
  <2>5. UNCHANGED <<scans, jobs>> /\ WorldOK'
    BY WorldKept DEF Created, IInv, TypesOK
  <2>6. \A n \in DOMAIN scans : scans[n].since \in Nat /\ scans[n].since <= Len(devices)
    BY Lists DEF Scans, IInv, TypesOK, ScansOK
  <2>7. ScansOK' /\ JobsOK'
    BY <2>3, <2>5, <2>6 DEF ScansOK, JobsOK, IInv, TypesOK
  <2>8. ViewsOK'
    <3>1. Len(scans) \in Nat
      BY Lists
    <3>. QED BY <1>2, <2>5, <3>1, RestFits DEF ViewsOK, IInv, TypesOK
  <2>9. BoundToScans'
    <3> SUFFICES ASSUME NEW j \in DOMAIN jobs PROVE JobOK(jobs[j])'
      BY <2>5 DEF BoundToScans
    <3>1. JobOK(jobs[j]) /\ jobs[j].since \in Nat
      BY Lists DEF IInv, BoundToScans, Jobs
    <3>. QED BY <2>3, <2>5, <3>1 DEF JobOK
  <2>10. IdsDiffer'
    BY <2>2, <2>3 DEF IInv, IdsDiffer, DataIds
  <2>11. PairedIsNotOffered'
    BY <2>3, <2>5, <2>6 DEF IInv, PairedIsNotOffered
  <2>12. RespondersAreAccountedFor' /\ RunningIsSomebodysTask'
    BY <2>5 DEF IInv, RespondersAreAccountedFor, RunningIsSomebodysTask, Running
  <2>. QED BY <2>4, <2>5, <2>7, <2>8, <2>9, <2>10, <2>11, <2>12 DEF IInv, TypesOK
<1>. QED BY <1>1, <1>2 DEF Created

-----------------------------------------------------------------------------
(* The steps of a search. *)

\* A task that will see to the dict the views look at.
Tends(job) ==
  \/ job.phase = "made"
  \/ job.phase \in {"sweep", "identify"} /\ job.scan = Len(scans)

\* What every step of a search keeps, provided that what it adds to a list is
\* not paired, that it accounts for what it is done with, and that it leaves no
\* dict running behind.
LEMMA JobStepKeeps ==
  ASSUME IInv, UNCHANGED <<world, devices, view>>, NEW j \in DOMAIN jobs,
         jobs' \in Seq(Jobs), Len(jobs') = Len(jobs),
         \A k \in DOMAIN jobs \ {j} : jobs'[k] = jobs[k],
         scans' \in Seq(Scans), Len(scans') = Len(scans),
         \A n \in DOMAIN scans :
            /\ scans'[n].since = scans[n].since
            /\ scans[n].found \subseteq scans'[n].found
            /\ scans[n].unidentified \subseteq scans'[n].unidentified
            /\ scans'[n].running => scans[n].running
            /\ \A offer \in scans'[n].found \ scans[n].found, i \in 1..scans[n].since :
                 offer.unit \in Verifiable => offer.unit # devices[i].unit,
         JobOK(jobs'[j]),
         \A a \in jobs'[j].done :
            \/ a \in jobs'[j].known \cup scans'[jobs'[j].scan].unidentified
            \/ \E offer \in scans'[jobs'[j].scan].found : offer.host = a,
         Tends(jobs[j]) => Tends(jobs'[j]) \/ ~scans'[Len(scans)].running
  PROVE  IInv'
<1>1. /\ DOMAIN scans' = DOMAIN scans /\ DOMAIN jobs' = DOMAIN jobs
      /\ DOMAIN scans = 1..Len(scans) /\ Len(scans) \in Nat
  BY Lists
<1>2. WorldOK' /\ DevicesOK' /\ IdsDiffer' /\ JobsOK'
  BY WorldKept DEF IInv, TypesOK, DevicesOK, IdsDiffer, JobsOK
<1>3. ScansOK' /\ ViewsOK'
  BY <1>1 DEF IInv, TypesOK, ScansOK, ViewsOK
<1>4. BoundToScans'
  <2> SUFFICES ASSUME NEW k \in DOMAIN jobs PROVE JobOK(jobs[k])'
    BY <1>1 DEF BoundToScans
  <2>1. JobOK(jobs'[k])
    BY DEF IInv, BoundToScans
  <2>2. scans # <<>> => scans' # <<>>
    BY <1>1
  <2>. QED BY <1>1, <2>1, <2>2 DEF JobOK
<1>5. PairedIsNotOffered'
  BY <1>1 DEF IInv, PairedIsNotOffered
<1>6. RespondersAreAccountedFor'
  <2> SUFFICES ASSUME NEW k \in DOMAIN jobs, NEW a \in jobs'[k].done
               PROVE  \/ a \in jobs'[k].known \cup scans'[jobs'[k].scan].unidentified
                      \/ \E offer \in scans'[jobs'[k].scan].found : offer.host = a
    BY <1>1 DEF RespondersAreAccountedFor
  <2>1. CASE k = j
    BY <2>1
  <2>2. CASE k # j
    <3>1. jobs'[k] = jobs[k]
      BY <2>2
    <3>2. jobs[k].scan \in DOMAIN scans
      BY <1>1, <3>1 DEF IInv, BoundToScans, JobOK
    <3>. QED BY <3>1, <3>2 DEF IInv, RespondersAreAccountedFor
  <2>. QED BY <2>1, <2>2
<1>7. RunningIsSomebodysTask'
  <2> SUFFICES ASSUME Running(Len(scans))' PROVE \E k \in DOMAIN jobs : Tends(jobs[k])'
    BY <1>1 DEF RunningIsSomebodysTask, Tends
  <2>1. Len(scans) > 0 /\ scans'[Len(scans)].running
    BY DEF Running
  <2>2. Running(Len(scans))
    BY <1>1, <2>1 DEF Running
  <2>3. PICK k \in DOMAIN jobs : Tends(jobs[k])
    BY <2>2 DEF IInv, RunningIsSomebodysTask, Tends
  <2>4. Tends(jobs'[k])
    BY <2>1, <2>3
  <2>. QED BY <2>4 DEF Tends
<1>. QED BY <1>2, <1>3, <1>4, <1>5, <1>6, <1>7 DEF IInv, TypesOK

\* A job is replaced by another, and a dict may be.
LEMMA OneJob ==
  ASSUME IInv, NEW j \in DOMAIN jobs, NEW new \in Jobs, jobs' = [jobs EXCEPT ![j] = new]
  PROVE  /\ jobs' \in Seq(Jobs) /\ Len(jobs') = Len(jobs) /\ jobs'[j] = new
         /\ \A k \in DOMAIN jobs \ {j} : jobs'[k] = jobs[k]
BY Lists DEF IInv, TypesOK, JobsOK

LEMMA OneScan ==
  ASSUME IInv, NEW n \in DOMAIN scans, NEW new \in Scans, scans' = [scans EXCEPT ![n] = new]
  PROVE  /\ scans' \in Seq(Scans) /\ Len(scans') = Len(scans) /\ scans'[n] = new
         /\ \A k \in DOMAIN scans \ {n} : scans'[k] = scans[k]
BY Lists DEF IInv, TypesOK, ScansOK

LEMMA JobStartsKeeps ==
  ASSUME NEW j \in DOMAIN jobs, IInv, JobStarts(j)
  PROVE  IInv'
<1> DEFINE new == [jobs[j] EXCEPT !.phase = "sweep", !.scan = Len(scans), !.since = Len(devices)]
<1>1. jobs[j] \in Jobs /\ JobOK(jobs[j]) /\ Len(scans) \in Nat /\ Len(devices) \in Nat
  BY Lists DEF IInv, BoundToScans
<1>2. new \in Jobs
  BY <1>1 DEF Jobs
<1>3. jobs' = [jobs EXCEPT ![j] = new] /\ UNCHANGED <<world, devices, scans, view>>
  BY DEF JobStarts
<1>4. new.phase = "sweep" /\ new.scan = Len(scans) /\ new.since = Len(devices) /\ new.done = {}
  BY <1>1 DEF Jobs, JobOK, JobStarts
<1>5. scans \in Seq(Scans) /\ scans # <<>> /\ Len(scans) \in DOMAIN scans
      /\ scans[Len(scans)].since <= Len(devices)
  BY <1>1 DEF JobOK, IInv, TypesOK, ScansOK
<1> HIDE DEF new
<1>6. JobOK(new)
  BY <1>1, <1>4, <1>5 DEF JobOK
<1>7. Tends(new)
  BY <1>4 DEF Tends
<1>. QED BY <1>2, <1>3, <1>4, <1>5, <1>6, <1>7, OneJob, JobStepKeeps

LEMMA JobSweepsKeeps ==
  ASSUME NEW j \in DOMAIN jobs, IInv, JobSweeps(j)
  PROVE  IInv'
<1> DEFINE todo == {a \in Addrs \ PairedHosts(jobs[j].since) : Answers(a)}
           new == [jobs[j] EXCEPT !.phase = "identify", !.todo = todo]
<1>1. jobs[j] \in Jobs /\ JobOK(jobs[j])
  BY Lists DEF IInv, BoundToScans
<1>2. jobs' = [jobs EXCEPT ![j] = new] /\ UNCHANGED <<world, devices, scans, view>>
  BY DEF JobSweeps
<1>3. todo \subseteq Addrs
  OBVIOUS
<1> HIDE DEF todo
<1>4. new \in Jobs /\ new.phase = "identify" /\ new.scan = jobs[j].scan
      /\ new.since = jobs[j].since /\ new.done = jobs[j].done
  BY <1>1, <1>3 DEF Jobs
<1>5. jobs[j].phase = "sweep" /\ jobs[j].done = {}
  BY <1>1 DEF JobSweeps, JobOK
<1> HIDE DEF new
<1>6. JobOK(new)
  BY <1>1, <1>4, <1>5 DEF JobOK
<1>7. Tends(jobs[j]) => Tends(new)
  BY <1>4, <1>5 DEF Tends
<1>8. scans \in Seq(Scans)
  BY DEF IInv, TypesOK, ScansOK
<1>. QED BY <1>2, <1>4, <1>5, <1>6, <1>7, <1>8, OneJob, JobStepKeeps

\* An address that is done with is left in the job's books.
LEMMA RecordedKeeps ==
  ASSUME IInv, NEW j \in DOMAIN jobs, NEW a \in Addrs, NEW known \in BOOLEAN,
         jobs[j].phase = "identify", Recorded(j, a, known)
  PROVE  /\ jobs' \in Seq(Jobs) /\ Len(jobs') = Len(jobs)
         /\ \A k \in DOMAIN jobs \ {j} : jobs'[k] = jobs[k]
         /\ JobOK(jobs'[j])
         /\ jobs'[j].phase = "identify" /\ jobs'[j].scan = jobs[j].scan
         /\ jobs'[j].done = jobs[j].done \cup {a}
         /\ jobs[j].known \subseteq jobs'[j].known
         /\ known => a \in jobs'[j].known
<1> DEFINE new == [jobs[j] EXCEPT !.todo = @ \ {a}, !.done = @ \cup {a},
                                  !.known = IF known THEN @ \cup {a} ELSE @]
<1>1. jobs[j] \in Jobs /\ JobOK(jobs[j])
  BY Lists DEF IInv, BoundToScans
<1>2. jobs' = [jobs EXCEPT ![j] = new]
  BY DEF Recorded
<1>3. /\ new \in Jobs /\ new.phase = jobs[j].phase /\ new.scan = jobs[j].scan
      /\ new.since = jobs[j].since /\ new.done = jobs[j].done \cup {a}
      /\ new.todo = jobs[j].todo \ {a}
      /\ jobs[j].known \subseteq new.known /\ (known => a \in new.known)
  BY <1>1 DEF Jobs
<1> HIDE DEF new
<1>4. JobOK(new)
  BY <1>1, <1>3 DEF JobOK
<1>. QED BY <1>2, <1>3, <1>4, OneJob

\* Its dict, and what is in it.
LEMMA ItsScan ==
  ASSUME IInv, NEW j \in DOMAIN jobs, jobs[j].phase \in {"sweep", "identify"}
  PROVE  /\ jobs[j].scan \in DOMAIN scans /\ scans[jobs[j].scan] \in Scans
         /\ scans[jobs[j].scan].since <= jobs[j].since
BY Lists DEF IInv, BoundToScans, JobOK

LEMMA JobIdentifiesKeeps ==
  ASSUME NEW j \in DOMAIN jobs, IInv, JobIdentifies(j)
  PROVE  IInv'
<1>1. PICK a \in Addrs, u \in Units :
        /\ JobNext(j, a) /\ u \in Identified(a)
        /\ LET offer == Offer(u, a)  known == offer.id \in PairedSerials(jobs[j].since) IN
             /\ Recorded(j, a, known)
             /\ IF known THEN UNCHANGED scans
                ELSE scans' = [scans EXCEPT ![jobs[j].scan].found = @ \cup {offer}]
        /\ UNCHANGED <<world, devices, view>>
  BY DEF JobIdentifies
<1> DEFINE offer == Offer(u, a)
           known == offer.id \in PairedSerials(jobs[j].since)
           n == jobs[j].scan
           new == [scans[n] EXCEPT !.found = @ \cup {offer}]
<1>2. jobs[j].phase = "identify" /\ known \in BOOLEAN
  BY <1>1 DEF JobNext
<1>3. n \in DOMAIN scans /\ scans[n] \in Scans /\ scans[n].since <= jobs[j].since
  BY <1>2, ItsScan
<1>4. offer \in Genuine /\ offer.host = a
  BY DEF Genuine, Offer
<1>5. Recorded(j, a, known)
  BY <1>1
<1>6. IF known THEN UNCHANGED scans ELSE scans' = [scans EXCEPT ![n] = new]
  BY <1>1
<1>7. \A b \in jobs[j].done :
        \/ b \in jobs[j].known \cup scans[n].unidentified
        \/ \E x \in scans[n].found : x.host = b
  BY DEF IInv, RespondersAreAccountedFor
<1>8. ~known => \A i \in 1..scans[n].since :
                  offer.unit \in Verifiable => offer.unit # devices[i].unit
  <2> SUFFICES ASSUME ~known, NEW i \in 1..scans[n].since, offer.unit \in Verifiable,
                      offer.unit = devices[i].unit
               PROVE  FALSE
    OBVIOUS
  <2>1. scans[n].since \in Nat /\ jobs[j].since \in Nat /\ scans[n].since <= Len(devices)
    BY <1>3, Lists DEF Scans, Jobs, IInv, TypesOK, ScansOK
  <2>2. i \in 1..jobs[j].since /\ i \in DOMAIN devices
    BY <1>3, <2>1, Lists
  <2>3. devices[i].id = offer.id
    BY <1>4, <2>2, Lists, SameUnitSameId
  <2>. QED BY <2>2, <2>3 DEF PairedSerials
<1>9. /\ new \in Scans /\ new.since = scans[n].since /\ new.running = scans[n].running
      /\ new.found = scans[n].found \cup {offer} /\ new.unidentified = scans[n].unidentified
  BY <1>3, <1>4 DEF Scans
<1> HIDE DEF offer, known, n, new
<1>10. /\ scans' \in Seq(Scans) /\ Len(scans') = Len(scans)
       /\ \A m \in DOMAIN scans \ {n} : scans'[m] = scans[m]
       /\ scans'[n] = IF known THEN scans[n] ELSE new
  BY <1>2, <1>3, <1>6, <1>9, OneScan DEF IInv, TypesOK, ScansOK
<1>11. /\ \A m \in DOMAIN scans :
            /\ scans'[m].since = scans[m].since
            /\ scans[m].found \subseteq scans'[m].found
            /\ scans[m].unidentified \subseteq scans'[m].unidentified
            /\ scans'[m].running => scans[m].running
            /\ \A x \in scans'[m].found \ scans[m].found, i \in 1..scans[m].since :
                 x.unit \in Verifiable => x.unit # devices[i].unit
  BY <1>2, <1>8, <1>9, <1>10
<1>12. /\ jobs' \in Seq(Jobs) /\ Len(jobs') = Len(jobs)
       /\ \A k \in DOMAIN jobs \ {j} : jobs'[k] = jobs[k]
       /\ JobOK(jobs'[j]) /\ jobs'[j].phase = "identify" /\ jobs'[j].scan = n
       /\ jobs'[j].done = jobs[j].done \cup {a}
       /\ jobs[j].known \subseteq jobs'[j].known /\ (known => a \in jobs'[j].known)
  BY <1>2, <1>5, RecordedKeeps DEF n
<1>13. \A b \in jobs'[j].done :
         \/ b \in jobs'[j].known \cup scans'[n].unidentified
         \/ \E x \in scans'[n].found : x.host = b
  <2>1. \A b \in jobs[j].done :
         \/ b \in jobs'[j].known \cup scans'[n].unidentified
         \/ \E x \in scans'[n].found : x.host = b
    BY <1>3, <1>7, <1>11, <1>12 DEF n
  <2>2. CASE known
    BY <2>1, <2>2, <1>12
  <2>3. CASE ~known
    BY <2>1, <2>3, <1>4, <1>9, <1>10, <1>12
  <2>. QED BY <2>2, <2>3, <1>2
<1>14. Tends(jobs[j]) => Tends(jobs'[j])
  BY <1>2, <1>12 DEF Tends, n
<1>. QED BY <1>1, <1>10, <1>11, <1>12, <1>13, <1>14, JobStepKeeps

LEMMA JobCannotIdentifyKeeps ==
  ASSUME NEW j \in DOMAIN jobs, IInv, JobCannotIdentify(j)
  PROVE  IInv'
<1>1. PICK a \in Addrs :
        /\ JobNext(j, a) /\ Recorded(j, a, FALSE) /\ Noted(j, a)
        /\ UNCHANGED <<world, devices, view>>
  BY DEF JobCannotIdentify
<1> DEFINE n == jobs[j].scan
           new == [scans[n] EXCEPT !.unidentified = @ \cup {a}]
<1>2. jobs[j].phase = "identify"
  BY <1>1 DEF JobNext
<1>3. n \in DOMAIN scans /\ scans[n] \in Scans
  BY <1>2, ItsScan
<1>4. scans' = [scans EXCEPT ![n] = new]
  BY <1>1 DEF Noted
<1>5. /\ new \in Scans /\ new.since = scans[n].since /\ new.running = scans[n].running
      /\ new.found = scans[n].found /\ new.unidentified = scans[n].unidentified \cup {a}
  BY <1>3 DEF Scans
<1>6. \A b \in jobs[j].done :
        \/ b \in jobs[j].known \cup scans[n].unidentified
        \/ \E x \in scans[n].found : x.host = b
  BY DEF IInv, RespondersAreAccountedFor
<1> HIDE DEF n, new
<1>7. /\ scans' \in Seq(Scans) /\ Len(scans') = Len(scans) /\ scans'[n] = new
      /\ \A m \in DOMAIN scans \ {n} : scans'[m] = scans[m]
  BY <1>3, <1>4, <1>5, OneScan
<1>8. \A m \in DOMAIN scans :
        /\ scans'[m].since = scans[m].since
        /\ scans[m].found \subseteq scans'[m].found
        /\ scans[m].unidentified \subseteq scans'[m].unidentified
        /\ scans'[m].running => scans[m].running
        /\ scans'[m].found \ scans[m].found = {}
  BY <1>5, <1>7
<1>9. /\ jobs' \in Seq(Jobs) /\ Len(jobs') = Len(jobs)
      /\ \A k \in DOMAIN jobs \ {j} : jobs'[k] = jobs[k]
      /\ JobOK(jobs'[j]) /\ jobs'[j].phase = "identify" /\ jobs'[j].scan = n
      /\ jobs'[j].done = jobs[j].done \cup {a} /\ jobs[j].known \subseteq jobs'[j].known
  BY <1>1, <1>2, RecordedKeeps DEF n
<1>10. \A b \in jobs'[j].done :
         \/ b \in jobs'[j].known \cup scans'[n].unidentified
         \/ \E x \in scans'[n].found : x.host = b
  BY <1>3, <1>5, <1>6, <1>7, <1>9
<1>11. Tends(jobs[j]) => Tends(jobs'[j])
  BY <1>2, <1>9 DEF Tends, n
<1>. QED BY <1>1, <1>7, <1>8, <1>9, <1>10, <1>11, JobStepKeeps

LEMMA JobEndsKeeps ==
  ASSUME NEW j \in DOMAIN jobs, IInv, JobEnds(j)
  PROVE  IInv'
<1> DEFINE n == jobs[j].scan
           ended == [Idle EXCEPT !.phase = "done"]
           new == [scans[n] EXCEPT !.running = FALSE]
<1>1. /\ jobs[j].phase \in {"sweep", "identify"} /\ jobs' = [jobs EXCEPT ![j] = ended]
      /\ scans' = [scans EXCEPT ![n] = new] /\ UNCHANGED <<world, devices, view>>
  BY DEF JobEnds, Finished
<1>2. n \in DOMAIN scans /\ scans[n] \in Scans
  BY <1>1, ItsScan
<1>3. ended \in Jobs /\ ended.phase = "done" /\ ended.done = {} /\ ended.todo = {}
  BY DEF Idle, Jobs
<1>4. /\ new \in Scans /\ new.since = scans[n].since /\ ~new.running
      /\ new.found = scans[n].found /\ new.unidentified = scans[n].unidentified
  BY <1>2 DEF Scans
<1> HIDE DEF n, ended, new
<1>5. /\ scans' \in Seq(Scans) /\ Len(scans') = Len(scans) /\ scans'[n] = new
      /\ \A m \in DOMAIN scans \ {n} : scans'[m] = scans[m]
  BY <1>1, <1>2, <1>4, OneScan
<1>6. \A m \in DOMAIN scans :
        /\ scans'[m].since = scans[m].since
        /\ scans[m].found \subseteq scans'[m].found
        /\ scans[m].unidentified \subseteq scans'[m].unidentified
        /\ scans'[m].running => scans[m].running
        /\ scans'[m].found \ scans[m].found = {}
  BY <1>4, <1>5
<1>7. /\ jobs' \in Seq(Jobs) /\ Len(jobs') = Len(jobs) /\ jobs'[j] = ended
      /\ \A k \in DOMAIN jobs \ {j} : jobs'[k] = jobs[k]
  BY <1>1, <1>3, OneJob
<1>8. JobOK(ended)
  <2>1. scans # <<>>
    BY DEF IInv, BoundToScans, JobOK
  <2>. QED BY <1>3, <2>1 DEF JobOK
<1>9. Tends(jobs[j]) => ~scans'[Len(scans)].running
  BY <1>1, <1>4, <1>5 DEF Tends, n
<1>. QED BY <1>1, <1>3, <1>5, <1>6, <1>7, <1>8, <1>9, JobStepKeeps

-----------------------------------------------------------------------------
(* The theorems. *)

\* What is typed in about an address elsewhere concerns nothing else.
LEMMA ElsewhereKeeps == IInv /\ (Elsewhere \/ Answered \/ UNCHANGED vars) => IInv'
<1> SUFFICES ASSUME IInv, Elsewhere \/ Answered \/ UNCHANGED vars PROVE IInv'
  OBVIOUS
<1>1. UNCHANGED <<world, devices, scans, jobs, view>>
  BY DEF Elsewhere, Answered, vars
<1>2. WorldOK' /\ ViewsOK'
  BY <1>1, WorldKept DEF IInv, TypesOK, ViewsOK
<1>. QED BY <1>1, <1>2, QuietKeeps

LEMMA NextInvariant == IInv /\ [Next]_vars => IInv'
<1> SUFFICES ASSUME IInv, [Next]_vars PROVE IInv'
  OBVIOUS
<1>1. CASE Elsewhere \/ Answered \/ UNCHANGED vars
  BY <1>1, ElsewhereKeeps
<1>2. CASE Readdress
  BY <1>2, ReaddressKeeps
<1>3. CASE \E j \in DOMAIN jobs : Job(j)
  BY <1>3, JobStartsKeeps, JobSweepsKeeps, JobIdentifiesKeeps, JobCannotIdentifyKeeps,
     JobEndsKeeps DEF Job, JobProbes
<1>4. CASE \E v \in Views : View(v)
  BY <1>4, SearchAskedKeeps, SearchStartedKeeps, PolledKeeps, PickedKeeps, TypedKeeps,
     CreatedKeeps DEF View
<1>. QED BY <1>1, <1>2, <1>3, <1>4 DEF Next

LEMMA InvariantHolds == Spec => []IInv
BY InitInvariant, NextInvariant, PTL DEF Spec

LEMMA InvariantImplies ==
  IInv => /\ TypeOK /\ NoTwins /\ PairedIsNotOffered /\ RespondersAreAccountedFor
          /\ RunningIsSomebodysTask
BY TypesImplyTypeOK, IdsDifferImpliesNoTwins DEF IInv, TypesOK

\* Lists, tasks, dicts and devices keep their types, and an address that a search
\* is done with is not one it has yet to look at (_run_discovery).
THEOREM TypeCorrect == Spec => []TypeOK
BY InvariantHolds, InvariantImplies, PTL

\* However DHCP moves it, and however many views and searches offer it, an
\* appliance that reports a serial becomes one device (read_serial, _device_payload).
THEOREM PairedOnce == Spec => []NoTwins
BY InvariantHolds, InvariantImplies, PTL

\* What was paired when a list was begun is not on it, whatever address it has by
\* then (_run_discovery).
THEOREM PairedStaysOffTheList == Spec => []PairedIsNotOffered
BY InvariantHolds, InvariantImplies, PTL

\* A search accounts for every address that answered it, whatever other searches
\* start and end meanwhile (_run_discovery, _reset_discovery).
THEOREM NothingFoundIsLost == Spec => []RespondersAreAccountedFor
BY InvariantHolds, InvariantImplies, PTL

\* As long as a view is told that a search runs, there is a task that will end it
\* (discover_status, the finally clause of _run_discovery).
THEOREM RunningSearchIsTended == Spec => []RunningIsSomebodysTask
BY InvariantHolds, InvariantImplies, PTL

-----------------------------------------------------------------------------
(* What a probe makes of an address.  The recursions are over the number   *)
(* of rounds; an induction is an argument about a least counterexample.    *)

\* A set of numbers has a least one.
LEMMA LeastNatural ==
  ASSUME NEW T \in SUBSET Nat, T # {}
  PROVE  \E n \in T : \A m \in T : n <= m
<1> DEFINE R == OpToRel(<, Nat)
<1>1. IsWellFoundedOn(R, Nat)
  BY NatLessThanWellFounded
<1>2. \A m, n \in Nat : <<m, n>> \in R <=> m < n
  BY DEF OpToRel
<1> HIDE DEF R
<1>3. \E n \in T : \A m \in T : ~(<<m, n>> \in R)
  BY <1>1, WFMin
<1>4. PICK n \in T : \A m \in T : ~(<<m, n>> \in R)
  BY <1>3
<1>5. \A m \in T : ~(m < n)
  BY <1>2, <1>4
<1> QED
  BY <1>5

\* A finite set of numbers can be put in ascending order.
LEMMA AscendingExists ==
  ASSUME NEW S \in SUBSET Nat, IsFiniteSet(S)
  PROVE  \E s \in [1..Cardinality(S) -> S] : \A i, k \in DOMAIN s : i < k => s[i] < s[k]
<1> DEFINE Sortable(U) ==
             \E s \in [1..Cardinality(U) -> U] : \A i, k \in DOMAIN s : i < k => s[i] < s[k]
           Counter(n) ==
             \E U \in SUBSET Nat : IsFiniteSet(U) /\ Cardinality(U) = n /\ ~Sortable(U)
           T == {n \in Nat : Counter(n)}
<1>1. ASSUME T # {} PROVE FALSE
  <2>1. PICK n \in T : \A m \in T : n <= m
    <3>1. T \in SUBSET Nat
      OBVIOUS
    <3> HIDE DEF T
    <3>. QED BY <1>1, <3>1, LeastNatural
  <2>2. PICK U \in SUBSET Nat : IsFiniteSet(U) /\ Cardinality(U) = n /\ ~Sortable(U)
    BY <2>1
  <2>3. CASE U = {}
    <3>1. Cardinality(U) = 0
      BY <2>2, <2>3, FS_EmptySet
    <3>2. [i \in 1..0 |-> i] \in [1..Cardinality(U) -> U]
      BY <3>1
    <3>. QED BY <2>2, <3>1, <3>2
  <2>4. CASE U # {}
    <3>1. PICK m \in U : \A p \in U : m <= p
      BY <2>2, <2>4, LeastNatural
    <3>2. IsFiniteSet(U \ {m}) /\ Cardinality(U \ {m}) = n - 1
      BY <2>2, <3>1, FS_RemoveElement
    <3>3. n \in Nat /\ n - 1 \in Nat
      BY <2>1, <3>2, FS_CardinalityType
    <3>4. ~Counter(n - 1)
      BY <2>1, <3>3
    <3>5. Sortable(U \ {m})
      BY <3>2, <3>4
    <3>6. PICK t \in [1..n - 1 -> U \ {m}] : \A i, k \in DOMAIN t : i < k => t[i] < t[k]
      BY <3>2, <3>5
    <3> DEFINE s == [i \in 1..n |-> IF i = 1 THEN m ELSE t[i - 1]]
    <3>7. \A i \in 1..n : i = 1 \/ i - 1 \in 1..n - 1
      BY <3>3
    <3>8. s \in [1..n -> U]
      BY <3>7, <3>6
    <3>9. \A p \in U \ {m} : m < p
      BY <2>2, <3>1
    <3>10. ASSUME NEW i \in 1..n, NEW k \in 1..n, i < k PROVE s[i] < s[k]
      <4>1. k - 1 \in 1..n - 1
        BY <3>3, <3>10
      <4>2. CASE i = 1
        <5>1. t[k - 1] \in U \ {m}
          BY <3>6, <4>1
        <5>2. s[i] = m /\ s[k] = t[k - 1]
          BY <3>10, <4>1, <4>2
        <5> HIDE DEF s
        <5>. QED BY <3>9, <5>1, <5>2
      <4>3. CASE i # 1
        <5>1. i - 1 \in 1..n - 1 /\ i - 1 < k - 1
          BY <3>3, <3>10, <4>3
        <5>. QED BY <3>6, <3>10, <4>1, <4>3, <5>1
      <4>. QED BY <4>2, <4>3
    <3>11. DOMAIN s = 1..n
      OBVIOUS
    <3> HIDE DEF s
    <3>. QED BY <2>2, <3>8, <3>10, <3>11
  <2>. QED BY <2>3, <2>4
<1>2. Cardinality(S) \in Nat
  BY FS_CardinalityType
<1>. QED BY <1>1, <1>2

\* It lists exactly the members of the set, least first.
LEMMA AscendingLists ==
  ASSUME NEW S \in SUBSET Nat, IsFiniteSet(S)
  PROVE  /\ Cardinality(S) \in Nat
         /\ Ascending(S) \in [1..Cardinality(S) -> S]
         /\ \A p \in S : \E i \in 1..Cardinality(S) : Ascending(S)[i] = p
<1> DEFINE s == Ascending(S)
<1>1. s \in [1..Cardinality(S) -> S] /\ \A i, k \in DOMAIN s : i < k => s[i] < s[k]
  BY AscendingExists DEF Ascending
<1>2. Cardinality(S) \in Nat
  BY FS_CardinalityType
<1> HIDE DEF s
<1>3. s \in Injection(1..Cardinality(S), S)
  <2>1. ASSUME NEW i \in 1..Cardinality(S), NEW k \in 1..Cardinality(S), s[i] = s[k] PROVE i = k
    <3>1. s[i] \in Nat /\ s[k] \in Nat
      BY <1>1
    <3>2. ~(i < k) /\ ~(k < i)
      BY <1>1, <2>1, <3>1
    <3>. QED BY <3>2
  <2>. QED BY <1>1, <2>1 DEF Injection, IsInjective
<1>4. Cardinality(1..Cardinality(S)) = Cardinality(S)
  BY <1>2, FS_Interval
<1>5. s \in Surjection(1..Cardinality(S), S)
  BY <1>3, <1>4, FS_Injection
<1>. QED BY <1>1, <1>2, <1>5 DEF s, Surjection

\* Whether a sequence names p.
Names(s, p) == \E i \in 1..Len(s) : s[i] = p

\* So do the preferred ports among S.
LEMMA PreferredInLists ==
  ASSUME NEW S
  PROVE  /\ PreferredIn(S) \in Seq(Ports)
         /\ \A p : Names(PreferredIn(S), p) <=> (p \in S /\ IsPreferred(p))
<1> DEFINE I == {i \in DOMAIN Preferred : Preferred[i] \in S}
           kept == Ascending(I)
<1>1. Len(Preferred) \in Nat /\ DOMAIN Preferred = 1..Len(Preferred)
      /\ \A i \in DOMAIN Preferred : Preferred[i] \in Ports
  BY PortsAssumption
<1>2. I \in SUBSET Nat /\ IsFiniteSet(I) /\ \A i \in I : Preferred[i] \in S \cap Ports
  <2>1. I \subseteq 1..Len(Preferred)
    BY <1>1
  <2>2. IsFiniteSet(1..Len(Preferred))
    BY <1>1, FS_Interval
  <2>. QED BY <1>1, <2>1, <2>2, FS_Subset
<1>3. \A p \in S : IsPreferred(p) => \E i \in I : Preferred[i] = p
  BY DEF IsPreferred
<1>4. PreferredIn(S) = [n \in 1..Len(kept) |-> Preferred[kept[n]]]
  BY DEF PreferredIn
<1> HIDE DEF I
<1>5. /\ Cardinality(I) \in Nat
      /\ kept \in [1..Cardinality(I) -> I]
      /\ \A i \in I : \E n \in 1..Cardinality(I) : kept[n] = i
  BY <1>2, AscendingLists
<1> HIDE DEF kept
<1>6. Len(kept) = Cardinality(I)
  BY <1>5
<1>7. \A n \in 1..Len(kept) :
        Preferred[kept[n]] \in S \cap Ports /\ IsPreferred(Preferred[kept[n]])
  <2>1. I \subseteq DOMAIN Preferred
    BY DEF I
  <2>. QED BY <1>2, <1>5, <1>6, <2>1 DEF IsPreferred
<1>8. PreferredIn(S) \in Seq(Ports) /\ Len(PreferredIn(S)) = Len(kept)
  BY <1>4, <1>5, <1>6, <1>7
<1>9. ASSUME NEW p \in S, IsPreferred(p)
      PROVE  \E n \in 1..Len(kept) : PreferredIn(S)[n] = p
  <2>1. PICK i \in I : Preferred[i] = p
    BY <1>3, <1>9
  <2>2. PICK n \in 1..Len(kept) : kept[n] = i
    BY <1>5, <1>6
  <2>. QED BY <1>4, <2>1, <2>2
<1>. QED BY <1>4, <1>7, <1>8, <1>9 DEF Names

\* What is in two sequences is in their concatenation, and nothing else.
LEMMA Either ==
  ASSUME NEW X, NEW s \in Seq(X), NEW t \in Seq(X)
  PROVE  \A p : Names(s \o t, p) <=> Names(s, p) \/ Names(t, p)
<1>1. Len(s) \in Nat /\ Len(t) \in Nat /\ Len(s \o t) = Len(s) + Len(t)
  BY ConcatProperties
<1>2. \A i \in 1..Len(s \o t) :
        (s \o t)[i] = IF i <= Len(s) THEN s[i] ELSE t[i - Len(s)]
  BY ConcatProperties
<1>3. ASSUME NEW i \in 1..Len(s \o t)
      PROVE  i \in 1..Len(s) \/ i - Len(s) \in 1..Len(t)
  BY <1>1, <1>3
<1>4. ASSUME NEW i \in 1..Len(s) PROVE i \in 1..Len(s \o t) /\ (s \o t)[i] = s[i]
  BY <1>1, <1>2, <1>4
<1>5. ASSUME NEW i \in 1..Len(t)
      PROVE  i + Len(s) \in 1..Len(s \o t) /\ (s \o t)[i + Len(s)] = t[i]
  <2>1. i + Len(s) \in 1..Len(s \o t) /\ ~(i + Len(s) <= Len(s)) /\ (i + Len(s)) - Len(s) = i
    BY <1>1, <1>5
  <2>. QED BY <1>2, <2>1
<1>6. ASSUME NEW p, Names(s \o t, p) PROVE Names(s, p) \/ Names(t, p)
  BY <1>2, <1>3, <1>6 DEF Names
<1>7. ASSUME NEW p, Names(s, p) \/ Names(t, p) PROVE Names(s \o t, p)
  BY <1>4, <1>5, <1>7 DEF Names
<1>. QED BY <1>6, <1>7

\* The candidates: what the sweep nominates and what is preferred.
LEMMA CandidatesAre ==
  ASSUME NEW h
  PROVE  /\ Candidates(h) \in Seq(Ports)
         /\ \A p \in Ports : Names(Candidates(h), p) <=> (h.seen[p] \/ IsPreferred(p))
<1> DEFINE N == Nominated(h)
           R == {p \in N : ~IsPreferred(p)}
           a == PreferredIn(N)
           b == Ascending(R)
           c == PreferredIn(Ports \ N)
<1>1. N \subseteq Ports /\ \A p \in Ports : p \in N <=> h.seen[p]
  BY DEF Nominated
<1>2. R \in SUBSET Nat /\ IsFiniteSet(R) /\ R \subseteq Ports
      /\ \A p \in Ports : p \in R <=> (p \in N /\ ~IsPreferred(p))
  BY <1>1, PortsAssumption, FS_Subset
<1>3. Candidates(h) = (a \o b) \o c
  BY DEF Candidates, OrderCandidates, Rescued
<1> HIDE DEF N, R
<1>4. /\ a \in Seq(Ports) /\ \A p : Names(a, p) <=> (p \in N /\ IsPreferred(p))
      /\ c \in Seq(Ports) /\ \A p : Names(c, p) <=> (p \in Ports \ N /\ IsPreferred(p))
  BY PreferredInLists
<1>5. b \in Seq(Ports) /\ \A p : Names(b, p) <=> p \in R
  <2> DEFINE n == Cardinality(R)
  <2>1. /\ n \in Nat /\ b \in [1..n -> R]
        /\ \A p \in R : \E i \in 1..n : b[i] = p
    BY <1>2, AscendingLists
  <2> HIDE DEF b, n
  <2>2. b \in [1..n -> Ports]
    BY <1>2, <2>1
  <2>3. b \in Seq(Ports) /\ Len(b) = n
    BY <2>1, <2>2
  <2>. QED BY <2>1, <2>3 DEF Names
<1> HIDE DEF a, b, c
<1>6. a \o b \in Seq(Ports) /\ (a \o b) \o c \in Seq(Ports)
  BY <1>4, <1>5
<1>7. \A p : Names((a \o b) \o c, p) <=> Names(a \o b, p) \/ Names(c, p)
  BY <1>4, <1>6, Either
<1>8. \A p : Names(a \o b, p) <=> Names(a, p) \/ Names(b, p)
  BY <1>4, <1>5, Either
<1>. QED BY <1>1, <1>2, <1>3, <1>4, <1>5, <1>6, <1>7, <1>8

-----------------------------------------------------------------------------
\* A port where the appliance is yields it as long as one source is not among
\* those it holds a session for; no other port ever does.
LEMMA AttemptFinds ==
  ASSUME NEW h \in Hosts, NEW p \in Ports
  PROVE  Attempt(h, p) = "appliance"
           <=> (h.serves[p] = "appliance" /\ Cardinality(h.stale) < Sources)
<1> DEFINE settled == {s \in SourcesTried : Session(h, p, s) # "stale"}
           first == CHOOSE s \in settled : \A t \in settled : s <= t
<1>1. Attempt(h, p) = IF settled = {} THEN "stale" ELSE Session(h, p, first)
  BY DEF Attempt
<1>2. SourcesTried = 0..Sources - 1 /\ Sources \in Nat \ {0}
  BY SourcesAssumption DEF SourcesTried
<1>3. settled \in SUBSET Nat
  BY <1>2
<1>4. h.stale \subseteq SourcesTried /\ h.serves[p] \in {"nothing", "mute", "appliance"}
  BY <1>2 DEF Hosts
<1>5. ASSUME settled # {} PROVE first \in settled
  <2> HIDE DEF settled
  <2>1. \E s \in settled : \A t \in settled : s <= t
    BY <1>3, <1>5, LeastNatural
  <2>. QED BY <2>1
<1>6. ASSUME h.serves[p] = "appliance" PROVE settled = SourcesTried \ h.stale
  BY <1>6 DEF Session
<1>7. (Cardinality(h.stale) < Sources) <=> SourcesTried \ h.stale # {}
  <2>1. IsFiniteSet(SourcesTried) /\ Cardinality(SourcesTried) = Sources
    BY <1>2, FS_Interval
  <2>2. IsFiniteSet(h.stale) /\ Cardinality(h.stale) <= Sources
        /\ (Cardinality(h.stale) = Sources => h.stale = SourcesTried)
    BY <1>4, <2>1, FS_Subset
  <2>3. Cardinality(h.stale) \in Nat
    BY <2>2, FS_CardinalityType
  <2>4. CASE h.stale = SourcesTried
    BY <2>1, <2>4, <1>2
  <2>5. CASE h.stale # SourcesTried
    <3>1. Cardinality(h.stale) < Sources
      BY <1>2, <2>2, <2>3, <2>5
    <3>2. SourcesTried \ h.stale # {}
      BY <1>4, <2>5
    <3>. QED BY <3>1, <3>2
  <2>. QED BY <2>4, <2>5
<1>8. ASSUME settled # {}
      PROVE  Session(h, p, first) = h.serves[p]
  <2>1. first \in settled
    BY <1>5, <1>8
  <2> HIDE DEF first
  <2>. QED BY <2>1 DEF Session
<1> HIDE DEF settled, first
<1>. QED BY <1>1, <1>4, <1>6, <1>7, <1>8

\* f goes through N rounds of the step G from the state start.
Follows(f, N, start, G) == f[0] = start /\ \A n \in 1..N : f[n] = G[<<n, f[n - 1]>>]

\* A loop of N rounds over a state: there is a function of the round that
\* starts with the first state and follows the step.
LEMMA LoopExists ==
  ASSUME NEW N \in Nat, NEW W, NEW start \in W, NEW G \in [(1..N) \X W -> W]
  PROVE  \E f \in [0..N -> W] : Follows(f, N, start, G)
<1> DEFINE T == {m \in Nat : m <= N /\ ~\E f \in [0..m -> W] : Follows(f, m, start, G)}
<1>1. ASSUME T # {} PROVE FALSE
  <2>1. PICK m \in T : \A k \in T : m <= k
    <3>1. T \in SUBSET Nat
      OBVIOUS
    <3> HIDE DEF T
    <3>. QED BY <1>1, <3>1, LeastNatural
  <2>2. m \in Nat /\ m <= N /\ ~\E f \in [0..m -> W] : Follows(f, m, start, G)
    BY <2>1
  <2>3. CASE m = 0
    <3> DEFINE f == [n \in 0..0 |-> start]
    <3>1. f \in [0..m -> W] /\ f[0] = start /\ 1..m = {}
      BY <2>3
    <3> HIDE DEF f
    <3>. QED BY <2>2, <3>1 DEF Follows
  <2>4. CASE m # 0
    <3>1. m - 1 \in Nat /\ m - 1 <= N /\ ~(m <= m - 1)
      BY <2>2, <2>4
    <3>2. m - 1 \notin T
      <4> HIDE DEF T
      <4>. QED BY <2>1, <3>1
    <3>2a. PICK f \in [0..m - 1 -> W] : Follows(f, m - 1, start, G)
      BY <3>1, <3>2
    <3> DEFINE g == [n \in 0..m |-> IF n = m THEN G[<<m, f[m - 1]>>] ELSE f[n]]
    <3>3. m \in 1..N /\ m - 1 \in 0..m - 1 /\ f[m - 1] \in W
      BY <2>2, <2>4, <3>2a
    <3>4. G[<<m, f[m - 1]>>] \in W
      BY <3>3
    <3>5. \A n \in 0..m : n = m \/ n \in 0..m - 1
      BY <2>2
    <3>6. g \in [0..m -> W] /\ g[m] = G[<<m, f[m - 1]>>]
      BY <3>2a, <3>4, <3>5, <2>2
    <3>7. \A n \in 0..m - 1 : g[n] = f[n]
      BY <2>2
    <3> HIDE DEF g
    <3>8. g[0] = start
      BY <2>2, <2>4, <3>2a, <3>7 DEF Follows
    <3>9. ASSUME NEW n \in 1..m PROVE g[n] = G[<<n, g[n - 1]>>]
      <4>1. n - 1 \in 0..m - 1 /\ g[n - 1] = f[n - 1]
        BY <2>2, <3>7
      <4>2. CASE n = m
        BY <3>6, <4>1, <4>2
      <4>3. CASE n # m
        <5>1. n \in 1..m - 1 /\ n \in 0..m - 1
          BY <2>2, <4>3
        <5>. QED BY <3>2a, <3>7, <4>1, <5>1 DEF Follows
      <4>. QED BY <4>2, <4>3
    <3>. QED BY <2>2, <3>6, <3>8, <3>9 DEF Follows
  <2>. QED BY <2>3, <2>4
<1>2. N \notin T
  BY <1>1
<1>. QED BY <1>2

\* What a walk knows at any moment.
Walks == [found: BOOLEAN, port: Nat, tried: BOOLEAN, passed: BOOLEAN, answered: BOOLEAN]

\* Whether a candidate ends the walk.
Ends(h, p) == ~PassedOver(h, p) /\ Attempt(h, p) = "appliance"

\* One candidate: nothing is found twice, and the first one found is kept.
LEMMA StepWalks ==
  ASSUME NEW h, NEW walk \in Walks, NEW p \in Nat
  PROVE  /\ Step(h, walk, p) \in Walks
         /\ Step(h, walk, p).found <=> walk.found \/ Ends(h, p)
         /\ Step(h, walk, p).port = IF ~walk.found /\ Ends(h, p) THEN p ELSE walk.port
BY DEF Step, Ends, Walks

\* The walk of a probe, round by round.
LEMMA WalkFollows ==
  ASSUME NEW h
  PROVE  LET ports == Candidates(h) IN
         \E f \in [0..Len(ports) -> Walks] :
           /\ f[0] = Blank /\ f[Len(ports)] = Walk(h)
           /\ \A n \in 1..Len(ports) : f[n] = Step(h, f[n - 1], ports[n])
<1> DEFINE ports == Candidates(h)
           N == Len(ports)
           W == Walks
           G == [x \in (1..N) \X W |-> Step(h, x[2], ports[x[1]])]
           Def(f) == f = [n \in 0..N |-> IF n = 0 THEN Blank ELSE Step(h, f[n - 1], ports[n])]
<1>1. N \in Nat /\ \A n \in 1..N : ports[n] \in Nat
  <2>1. ports \in Seq(Ports)
    BY CandidatesAre
  <2> HIDE DEF ports
  <2>2. N \in Nat /\ \A n \in 1..N : ports[n] \in Ports
    BY <2>1
  <2>. QED BY <2>2, PortsAssumption
<1>2. Blank \in W
  BY DEF Blank, Walks
<1>3. G \in [(1..N) \X W -> W]
  BY <1>1, StepWalks
<1>4. \A n \in 1..N, w \in W : G[<<n, w>>] = Step(h, w, ports[n])
  OBVIOUS
<1>5. Walk(h) = (CHOOSE f : Def(f))[N]
  BY DEF Walk
<1> HIDE DEF ports, N, W, G
<1>6. PICK f \in [0..N -> W] : f[0] = Blank /\ \A n \in 1..N : f[n] = G[<<n, f[n - 1]>>]
  <2>1. \E f \in [0..N -> W] : Follows(f, N, Blank, G)
    BY <1>1, <1>2, <1>3, LoopExists
  <2>. QED BY <2>1 DEF Follows
<1>7. Def(f)
  <2>1. ASSUME NEW n \in 0..N
        PROVE  f[n] = IF n = 0 THEN Blank ELSE Step(h, f[n - 1], ports[n])
    <3>1. CASE n = 0
      BY <1>6, <3>1
    <3>2. CASE n # 0
      <4>1. n \in 1..N /\ n - 1 \in 0..N
        BY <1>1, <3>2
      <4>. QED BY <1>4, <1>6, <3>2, <4>1
    <3>. QED BY <3>1, <3>2
  <2>. QED BY <1>6, <2>1
<1> DEFINE walk == CHOOSE g : Def(g)
<1>8. Def(walk)
  BY <1>7
<1> HIDE DEF walk
<1>9. walk[0] = Blank /\ \A n \in 1..N : n - 1 \in 0..N /\ walk[n] = Step(h, walk[n - 1], ports[n])
  <2>1. 0 \in 0..N /\ \A n \in 1..N : n \in 0..N /\ n - 1 \in 0..N /\ n # 0
    BY <1>1
  <2>. QED BY <1>8, <2>1
<1> DEFINE T == {n \in 0..N : walk[n] \notin W}
<1>10. ASSUME T # {} PROVE FALSE
  <2>1. T \in SUBSET Nat
    BY <1>1
  <2>2. PICK n \in T : \A m \in T : n <= m
    <3> HIDE DEF T
    <3>. QED BY <1>10, <2>1, LeastNatural
  <2>3. n # 0
    BY <1>2, <1>9, <2>2
  <2>4. n \in 1..N /\ n - 1 \in 0..N /\ n - 1 \notin T
    BY <1>1, <2>2, <2>3
  <2>5. walk[n - 1] \in W /\ walk[n] = Step(h, walk[n - 1], ports[n])
    BY <1>9, <2>4
  <2>. QED BY <1>1, <2>2, <2>4, <2>5, StepWalks DEF W
<1>11. walk \in [0..N -> W]
  BY <1>8, <1>10
<1>12. Walk(h) = walk[N]
  BY <1>5 DEF walk
<1>. QED BY <1>9, <1>11, <1>12 DEF ports, N, W

\* A probe finds the appliance exactly when some candidate is one, and says
\* where.
LEMMA WalkFinds ==
  ASSUME NEW h
  PROVE  /\ Found(h) <=> \E p \in Ports : Names(Candidates(h), p) /\ Ends(h, p)
         /\ Found(h) => FoundPort(h) \in Ports /\ Names(Candidates(h), FoundPort(h))
                        /\ Ends(h, FoundPort(h))
<1> DEFINE ports == Candidates(h)
           N == Len(ports)
<1>1. N \in Nat /\ \A n \in 1..N : ports[n] \in Ports
  BY CandidatesAre
<1>2. PICK f \in [0..N -> Walks] :
        /\ f[0] = Blank /\ f[N] = Walk(h)
        /\ \A n \in 1..N : f[n] = Step(h, f[n - 1], ports[n])
  BY WalkFollows
<1> DEFINE Right(n) ==
             /\ f[n].found <=> \E i \in 1..n : Ends(h, ports[i])
             /\ f[n].found => \E i \in 1..n : ports[i] = f[n].port /\ Ends(h, ports[i])
           T == {n \in 0..N : ~Right(n)}
<1> HIDE DEF ports, N
<1>3. ASSUME T # {} PROVE FALSE
  <2>1. T \in SUBSET Nat
    BY <1>1
  <2>2. PICK n \in T : \A m \in T : n <= m
    <3> HIDE DEF T
    <3>. QED BY <1>3, <2>1, LeastNatural
  <2>3. n \in 0..N /\ ~Right(n)
    BY <2>2
  <2>4. n # 0
    BY <1>2, <2>3 DEF Blank
  <2>5. n \in 1..N /\ n - 1 \in 0..N /\ n - 1 \notin T
    BY <1>1, <2>2, <2>3, <2>4
  <2>6. Right(n - 1)
    BY <2>5
  <2>7. f[n] = Step(h, f[n - 1], ports[n]) /\ f[n - 1] \in Walks /\ ports[n] \in Nat
    BY <1>1, <1>2, <2>5, PortsAssumption
  <2>8. /\ f[n].found <=> f[n - 1].found \/ Ends(h, ports[n])
        /\ f[n].port = IF ~f[n - 1].found /\ Ends(h, ports[n]) THEN ports[n] ELSE f[n - 1].port
    BY <2>7, StepWalks
  <2>9. \A i \in 1..n : i \in 1..n - 1 \/ i = n
    BY <2>5
  <2>10. n \in 1..n /\ \A i \in 1..n - 1 : i \in 1..n
    BY <2>5
  <2>. QED BY <2>3, <2>6, <2>8, <2>9, <2>10
<1>4. Right(N)
  BY <1>1, <1>3
<1>5. /\ Found(h) <=> \E i \in 1..N : Ends(h, ports[i])
      /\ Found(h) => \E i \in 1..N : ports[i] = FoundPort(h) /\ Ends(h, ports[i])
  BY <1>2, <1>4 DEF Found, FoundPort
<1>. QED BY <1>1, <1>5 DEF Names, ports, N

\* Without the loops: what Verdict says of an address.
LEMMA VerdictIsRight ==
  ASSUME NEW h \in Hosts
  PROVE  LET there == {p \in Ports : WorthTrying(h, p) /\ h.serves[p] = "appliance"}
         IN  /\ Found(h) <=> (there # {} /\ Cardinality(h.stale) < Sources)
             /\ Found(h) => FoundPort(h) \in there
<1> DEFINE there == {p \in Ports : WorthTrying(h, p) /\ h.serves[p] = "appliance"}
           few == Cardinality(h.stale) < Sources
<1>1. ASSUME NEW p \in Ports
      PROVE  (Names(Candidates(h), p) /\ Ends(h, p)) <=> (p \in there /\ few)
  <2>1. Names(Candidates(h), p) <=> (h.seen[p] \/ IsPreferred(p))
    BY CandidatesAre
  <2>2. Attempt(h, p) = "appliance" <=> (h.serves[p] = "appliance" /\ few)
    BY AttemptFinds
  <2> HIDE DEF few
  <2>. QED BY <2>1, <2>2 DEF Ends, PassedOver, WorthTrying
<1>2. /\ Found(h) <=> \E p \in Ports : Names(Candidates(h), p) /\ Ends(h, p)
      /\ Found(h) => FoundPort(h) \in Ports /\ Names(Candidates(h), FoundPort(h))
                     /\ Ends(h, FoundPort(h))
  BY WalkFinds
<1>3. there \subseteq Ports
  OBVIOUS
<1> HIDE DEF there, few
<1>4. Found(h) <=> (there # {} /\ few)
  BY <1>1, <1>2, <1>3
<1>5. Found(h) => FoundPort(h) \in there
  BY <1>1, <1>2
<1>. QED BY <1>4, <1>5 DEF there, few

\* Manual entry is answered with the verdict on some address, or not at all.
SaidIsAVerdict == said = NoKey \/ \E h \in Hosts : said = Verdict(h)

\* Nothing else is ever said.
LEMMA SaidIsAVerdictHolds == Spec => []SaidIsAVerdict
<1>1. Init => SaidIsAVerdict
  BY DEF Init, SaidIsAVerdict
<1>2. SaidIsAVerdict /\ [Next]_vars => SaidIsAVerdict'
  BY DEF SaidIsAVerdict, Next, Elsewhere, Answered, vars
<1>. QED BY <1>1, <1>2, PTL DEF Spec

\* Whatever the port range, the order of preference and the number of source
\* bases, and however the ports of an address behave, a probe that goes through
\* them finds the appliance exactly when one is behind a port worth trying and
\* one of the sources is not stale, and reports such a port.
THEOREM ProbeFindsTheAppliance == Spec => []FindsWhatIsThere
<1>1. SaidIsAVerdict => FindsWhatIsThere
  <2> SUFFICES ASSUME NEW h \in Hosts, said = Verdict(h) PROVE FindsWhatIsThere
    BY DEF SaidIsAVerdict, FindsWhatIsThere
  <2>1. said.host = h /\ said.found = Found(h) /\ said.port = FoundPort(h)
    BY DEF Verdict
  <2>. QED BY <2>1, VerdictIsRight DEF FindsWhatIsThere
<1>. QED BY <1>1, SaidIsAVerdictHolds, PTL
=============================================================================
