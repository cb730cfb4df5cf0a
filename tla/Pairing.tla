------------------------------ MODULE Pairing -------------------------------
(***************************************************************************)
(* Finding and adding appliances: the driver's background search, the      *)
(* views that start and watch it, manual entry, and what Homey keeps of    *)
(* the result, while DHCP moves appliances (lib/appliance/driver.py,     *)
(* lib/discovery.py, drivers/appliance/pair/configure.html).               *)
(* A probe is Probe's walk, what is found there is read with Identify.     *)
(***************************************************************************)
EXTENDS Identify, Probe

CONSTANTS
  Units,     \* what answers on the network
  Addrs,     \* the subnet without Homey's own address
  Nowhere,   \* the address of a unit that is off
  Views,     \* pairing views that are open
  Link,      \* unit -> how its ports behave, as in Probe
  Batch,     \* unit -> the entries of its /device/0
  OicReply,  \* unit -> its answer on /oic/d
  MaxScans, MaxMoves, MaxDevices

ASSUME PairingAssumption ==
  /\ Addrs \subseteq Nat /\ Nowhere \notin Addrs
  /\ {MaxScans, MaxMoves, MaxDevices} \subseteq Nat

VARIABLES
  at, moves,    \* where each unit is, and how often DHCP moved one
  devices,      \* what was created, in order
  scans,        \* every dict self._discovery ever was, oldest first
  jobs,         \* the background tasks, in the order they were created
  view,         \* what each view is doing
  said          \* what manual entry says of an address outside the subnet

world == <<at, moves>>
vars == <<world, devices, scans, jobs, view, said>>

\* A view does one thing at a time, next to which it may poll a search; `scan`
\* is the dict its list was rendered from.
Rest == [step |-> "rest", watching |-> FALSE, scan |-> 0, offer |-> NoKey]

Leases == {f \in [Units -> Addrs \cup {Nowhere}] :
             \A u, v \in Units : (f[u] = f[v] /\ f[u] # Nowhere) => u = v}
UnitsAt(a) == {u \in Units : at[u] = a}

Init ==
  /\ at \in Leases /\ moves = 0
  /\ \A u \in Units : at[u] # Nowhere
  /\ devices = <<>> /\ scans = <<>> /\ jobs = <<>>
  /\ view = [v \in Views |-> Rest] /\ said = NoKey

-----------------------------------------------------------------------------
(* What a probe of an address makes of the unit there: _identify and       *)
(* _device_payload.                                                        *)

Resources == [u \in Units |-> Parsed(Batch[u])]
Key == [u \in Units |-> Resolve(Resources[u], DeviceTypes(OicReply[u]))]
Port == [u \in Units |-> FoundPort(Link[u])]
Id(u, a) == ReadSerial(Resources[u], a, Port[u])
Pairable == {u \in Units : Found(Link[u])}

Identified(a) == UnitsAt(a) \cap Pairable

\* What is offered of a unit.
Offer(u, a) == [id |-> Id(u, a), host |-> a, unit |-> u, key |-> Key[u]]

\* What _paired_identity finds, of the first n devices.  The mutant remembers
\* addresses only.
PairedHosts(n) == {devices[i].host : i \in 1..n}
PairedSerialsNone(n) == {}
PairedSerials(n) == {devices[i].id : i \in 1..n}
Paired == PairedSerials(Len(devices))

\* What Homey itself holds.
DataIds == {devices[i].id : i \in DOMAIN devices}

-----------------------------------------------------------------------------
(* The world. *)

Readdress ==
  /\ moves < MaxMoves /\ moves' = moves + 1
  /\ at' \in Leases \ {at}
  /\ UNCHANGED <<devices, scans, jobs, view>>

-----------------------------------------------------------------------------
(* Starting and watching a search. *)

Running(n) == n > 0 /\ scans[n].running

\* discover_start looks at `running`, then waits for the settings.
SearchAsked(v) ==
  /\ view[v].step = "rest" /\ ~view[v].watching
  /\ view' = [view EXCEPT ![v] =
                IF Running(Len(scans))
                THEN [Rest EXCEPT !.watching = TRUE, !.scan = Len(scans)]
                ELSE [Rest EXCEPT !.step = "starting"]]
  /\ UNCHANGED <<world, devices, scans, jobs>>

\* _reset_discovery puts a new dict in place, so a search that still runs keeps
\* its own.  The mutant clears the one there is.
FreshScan ==
  [running |-> TRUE, found |-> {}, unidentified |-> {}, since |-> Len(devices)]
ResetInPlace ==
  scans' = IF scans = <<>> THEN <<FreshScan>> ELSE [scans EXCEPT ![Len(scans)] = FreshScan]
Reset == scans' = Append(scans, FreshScan)

\* `since` is how many devices there were when the dict, or the task, began.
Idle == [phase |-> "made", scan |-> 0, since |-> 0, todo |-> {}, done |-> {}, known |-> {}]

\* Without a certificate the handler raises instead.
SearchStarted(v) ==
  /\ view[v].step = "starting"
  /\ \/ /\ Len(jobs) < MaxScans
        /\ Reset /\ jobs' = Append(jobs, Idle)
        /\ view' = [view EXCEPT ![v] = [Rest EXCEPT !.watching = TRUE, !.scan = Len(scans')]]
     \/ /\ view' = [view EXCEPT ![v] = Rest]
        /\ UNCHANGED <<scans, jobs>>
  /\ UNCHANGED <<world, devices>>

\* discover_status hands out the dict there is by then.
Polled(v) ==
  /\ view[v].watching
  /\ view' = [view EXCEPT ![v].scan = Len(scans), ![v].watching = Running(Len(scans))]
  /\ UNCHANGED <<world, devices, scans, jobs>>

-----------------------------------------------------------------------------
(* The search itself, _run_discovery. *)

\* The dict is bound when the task first runs; two tasks created in one turn of
\* the event loop bind the same one.
JobStarts(j) ==
  /\ jobs[j].phase = "made"
  /\ jobs' = [jobs EXCEPT ![j].phase = "sweep", ![j].scan = Len(scans),
                          ![j].since = Len(devices)]
  /\ UNCHANGED <<world, devices, scans, view>>

\* What answers a datagram on some port, a paired address passed over.
Answers(a) == \E u \in UnitsAt(a), p \in Ports : Link[u].serves[p] # "nothing"

JobSweeps(j) ==
  /\ jobs[j].phase = "sweep"
  /\ jobs' = [jobs EXCEPT ![j].phase = "identify",
                          ![j].todo = {a \in Addrs \ PairedHosts(jobs[j].since) : Answers(a)}]
  /\ UNCHANGED <<world, devices, scans, view>>

JobNext(j, a) ==
  /\ jobs[j].phase = "identify" /\ jobs[j].todo # {} /\ a = Min(jobs[j].todo)

\* The address is done with, its outcome recorded or, if the unit is known, not.
\* The mutant looks at it again.
RecordedAgain(j, a, known) == jobs' = [jobs EXCEPT ![j].done = @ \cup {a}]
Recorded(j, a, known) ==
  jobs' = [jobs EXCEPT ![j].todo = @ \ {a}, ![j].done = @ \cup {a},
                       ![j].known = IF known THEN @ \cup {a} ELSE @]

JobIdentifies(j) ==
  \E a \in Addrs, u \in Units :
    /\ JobNext(j, a) /\ u \in Identified(a)
    /\ LET offer == Offer(u, a) known == offer.id \in PairedSerials(jobs[j].since) IN
         /\ Recorded(j, a, known)
         /\ IF known
            THEN UNCHANGED scans
            ELSE scans' = [scans EXCEPT ![jobs[j].scan].found = @ \cup {offer}]
    /\ UNCHANGED <<world, devices, view>>

\* A responder that will not identify is kept for the user to see.
Noted(j, a) == scans' = [scans EXCEPT ![jobs[j].scan].unidentified = @ \cup {a}]

JobCannotIdentify(j) ==
  \E a \in Addrs :
    /\ JobNext(j, a) /\ Identified(a) = {}
    /\ Recorded(j, a, FALSE) /\ Noted(j, a)
    /\ UNCHANGED <<world, devices, view>>

\* The finally clause.  The mutant leaves `running` set when the job fails.
FinishedIfWell(j, failed) ==
  scans' = [scans EXCEPT ![jobs[j].scan].running = failed /\ @]
Finished(j, failed) == scans' = [scans EXCEPT ![jobs[j].scan].running = FALSE]

JobEnds(j) ==
  /\ \/ /\ jobs[j].phase = "identify" /\ jobs[j].todo = {}
        /\ jobs' = [jobs EXCEPT ![j] = [Idle EXCEPT !.phase = "done"]] /\ Finished(j, FALSE)
     \/ /\ jobs[j].phase = "sweep"
        /\ jobs' = [jobs EXCEPT ![j] = [Idle EXCEPT !.phase = "done"]] /\ Finished(j, TRUE)
  /\ UNCHANGED <<world, devices, view>>

JobProbes(j) == JobIdentifies(j) \/ JobCannotIdentify(j)
Job(j) == JobStarts(j) \/ JobSweeps(j) \/ JobProbes(j) \/ JobEnds(j)

-----------------------------------------------------------------------------
(* Adding an appliance. *)

\* A row of the list.
Picked(v) ==
  /\ view[v].step = "rest" /\ view[v].scan > 0
  /\ \E offer \in scans[view[v].scan].found :
       /\ offer.key # NoKey
       /\ view' = [view EXCEPT ![v].step = "creating", ![v].offer = offer]
  /\ UNCHANGED <<world, devices, scans, jobs>>

\* Manual entry, at any address.  What is paired already is refused here; Homey's
\* own refusal is unreadable.
Typed(v) ==
  /\ view[v].step = "rest"
  /\ \E a \in Addrs : \E u \in Identified(a) :
       /\ Key[u] # NoKey /\ Id(u, a) \notin Paired
       /\ view' = [view EXCEPT ![v].step = "creating", ![v].offer = Offer(u, a)]
  /\ UNCHANGED <<world, devices, scans, jobs>>

\* Homey keeps one device per data id; past the bound it refuses them all.  A view
\* that succeeded closes.
Created(v) ==
  /\ view[v].step = "creating"
  /\ LET o == view[v].offer IN
       IF o.id \in DataIds \/ Len(devices) = MaxDevices
       THEN /\ view' = [view EXCEPT ![v].step = "rest", ![v].offer = NoKey]
            /\ UNCHANGED devices
       ELSE /\ view' = [view EXCEPT ![v] = Rest]
            /\ devices' = Append(devices, o)
  /\ UNCHANGED <<world, scans, jobs>>

View(v) ==
  SearchAsked(v) \/ SearchStarted(v) \/ Polled(v) \/ Picked(v) \/ Typed(v) \/ Created(v)

\* An address outside the subnet may be anything.  It concerns nothing else here,
\* so it is typed in first and answered before anything else happens (a bound).
Elsewhere ==
  /\ said = NoKey /\ moves = 0 /\ devices = <<>> /\ view = [v \in Views |-> Rest]
  /\ scans = <<>>
  /\ \E h \in Hosts : said' = Verdict(h)
  /\ UNCHANGED <<world, devices, scans, jobs, view>>

Answered ==
  /\ said # NoKey /\ said' = NoKey
  /\ UNCHANGED <<world, devices, scans, jobs, view>>

Next ==
  \/ Elsewhere \/ Answered
  \/ /\ said = NoKey /\ UNCHANGED said
     /\ \/ Readdress
        \/ \E j \in DOMAIN jobs : Job(j)
        \/ \E v \in Views : View(v)

Spec == Init /\ [][Next]_vars

-----------------------------------------------------------------------------
(* What holds. *)

Ids == {Id(u, a) : u \in Units, a \in Addrs}
Keys == {Key[u] : u \in Units}
Offers == [id: Ids, host: Addrs, unit: Units, key: Keys]

TypeOK ==
  /\ at \in Leases /\ moves \in 0..MaxMoves
  /\ \A i \in DOMAIN devices : devices[i] \in Offers
  /\ \A n \in DOMAIN scans :
       scans[n] \in [running: BOOLEAN, found: SUBSET Offers, unidentified: SUBSET Addrs,
                     since: 0..MaxDevices]
  /\ \A j \in DOMAIN jobs :
       /\ jobs[j].todo \cup jobs[j].done \subseteq Addrs
       /\ jobs[j].todo \cap jobs[j].done = {}
  /\ \A v \in Views : view[v].scan \in 0..Len(scans)

\* Appliances whose serial proves something.
Verifiable ==
  {u \in Units : LET serial == Field(Resources[u], Information, "serialNum", NoSerial)
                 IN  serial.length > 0 /\ ~IsPlaceholder(serial)}

\* However DHCP moves it, and however many views and searches offer it, an
\* appliance that reports a serial is one device (read_serial, _on_probe, the
\* data id of _device_payload).
NoTwins ==
  \A i, k \in DOMAIN devices :
    (devices[i].unit = devices[k].unit /\ devices[i].unit \in Verifiable) => i = k

\* A search accounts for every address that answered it: it is listed, listed
\* as unidentified, or was paired; a second search started at the same moment
\* takes nothing from it (_run_discovery, _reset_discovery).
RespondersAreAccountedFor ==
  \A j \in DOMAIN jobs : \A a \in jobs[j].done :
    \/ a \in jobs[j].known \cup scans[jobs[j].scan].unidentified
    \/ \E offer \in scans[jobs[j].scan].found : offer.host = a

\* What was paired when a list was begun is not on it, whatever address it has
\* by then (the serial check of _run_discovery).
PairedIsNotOffered ==
  \A n \in DOMAIN scans : \A offer \in scans[n].found, i \in 1..scans[n].since :
    offer.unit \in Verifiable => offer.unit # devices[i].unit

\* As long as a view is told that the search runs, some task is there to finish
\* it; whoever failed, and whoever replaced what, no view polls for ever and no
\* later search is refused for one that is gone (discover_start, discover_status).
RunningIsSomebodysTask ==
  Running(Len(scans)) =>
    \E j \in DOMAIN jobs :
      \/ jobs[j].phase = "made"
      \/ jobs[j].phase \in {"sweep", "identify"} /\ jobs[j].scan = Len(scans)

\* An appliance that holds old sessions for all source ports but one, next to any
\* number of ports that are refused, silent or mute, is found, at a port where it
\* is; nothing else is ever taken for it (probe, attempt_once, sweep_ports).
FindsWhatIsThere ==
  said # NoKey =>
    LET h == said.host
        there == {p \in Ports : WorthTrying(h, p) /\ h.serves[p] = "appliance"}
    IN  /\ said.found <=> (there # {} /\ Cardinality(h.stale) < Sources)
        /\ said.found => said.port \in there

\* tests/test_probe_failures.py: "test_nothing_answering_the_sweep_is_reported_as
\* _no_response".  Refuted: the preferred ports are rescued for every address, so
\* there is always a candidate, and the handshake is blamed.
NothingThereIsSaid ==
  said # NoKey =>
    ((\A p \in Ports : ~said.host.seen[p] /\ said.host.serves[p] = "nothing")
       => said.failure = "no_response")
=============================================================================
