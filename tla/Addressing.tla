----------------------------- MODULE Addressing -----------------------------
(***************************************************************************)
(* Which appliance a device reads and drives while DHCP moves appliances.  *)
(* A device is known by the appliance it was paired with and keeps an      *)
(* address; its session reaches whatever answers there.  The identity      *)
(* check of a full read, the search after the third failed poll, Repair    *)
(* and commands meet on one session per device, and a probe of an address  *)
(* evicts the session that uses the same source port (lib/session.py,      *)
(* lib/probe.py, local_source_port).                                       *)
(***************************************************************************)
EXTENDS Naturals

CONSTANTS
  Units,       \* appliances on the network
  Devices,     \* those paired: device d stands for appliance d
  Verifiable,  \* those that report a usable serial
  Addrs,       \* addresses, ordered as the sweep orders them
  Nowhere,     \* the address of an appliance that is off
  Nobody,      \* the peer of a session without an association
  MaxMoves     \* bound on what DHCP and the mains do

ASSUME UnitsAssumption == Devices \subseteq Units /\ Nobody \notin Units
ASSUME AddrsAssumption == Addrs \subseteq Nat /\ Nowhere \notin Addrs
ASSUME MovesAssumption == MaxMoves \in Nat

VARIABLES
  at, moves,      \* where each appliance is, and how often that changed
  host,           \* self._host
  to,             \* the address self._session was built with
  peer, alive,    \* the appliance it shook hands with; is it still associated
  resolved,       \* self._registry is known
  failures,       \* self._failures
  task, todo,     \* where the poll loop and Repair are, and what they probe next
  target,         \* the address a move_to was called with, until it is stored
  picked, honest, \* was d's appliance there when target and host were chosen (history)
  confirmed,      \* a full read went through on this association (history)
  noticed,        \* a full read found another appliance on it (history)
  misdirected     \* devices that commanded another appliance all the same (history)

world == <<at, moves>>
link == <<to, peer, alive, confirmed, noticed>>
actors == <<task, todo, target, picked>>
vars == <<world, host, link, resolved, failures, actors, honest, misdirected>>

Actors == {"loop", "repair"}

\* A capped count: RELOCATE_AFTER_FAILURES is 3, and past it the count only grows.
SearchAfter == 3
MaxFailures == SearchAfter + 1

TypeOK ==
  /\ at \in [Units -> Addrs \cup {Nowhere}] /\ moves \in 0..MaxMoves
  /\ host \in [Devices -> Addrs] /\ to \in [Devices -> Addrs]
  /\ peer \in [Devices -> Units \cup {Nobody}] /\ alive \in [Devices -> BOOLEAN]
  /\ resolved \in [Devices -> BOOLEAN] /\ failures \in [Devices -> 0..MaxFailures]
  /\ task \in [Devices \X Actors -> {"rest", "search", "close", "store", "swap"}]
  /\ todo \in [Devices \X Actors -> SUBSET Addrs]
  /\ target \in [Devices \X Actors -> Addrs \cup {Nowhere}]
  /\ picked \in [Devices \X Actors -> BOOLEAN] /\ honest \in [Devices -> BOOLEAN]
  /\ confirmed \in [Devices -> BOOLEAN] /\ noticed \in [Devices -> BOOLEAN]
  /\ misdirected \subseteq Devices

\* No two appliances share an address.
Leases == {f \in [Units -> Addrs \cup {Nowhere}] :
             \A u, v \in Units : (f[u] = f[v] /\ f[u] # Nowhere) => u = v}

\* Every device was paired where its appliance was then.
Init ==
  /\ at \in Leases /\ moves = 0
  /\ \A d \in Devices : at[d] # Nowhere
  /\ host = [d \in Devices |-> at[d]] /\ to = host
  /\ peer = [d \in Devices |-> Nobody] /\ alive = [d \in Devices |-> FALSE]
  /\ resolved = [d \in Devices |-> FALSE] /\ failures = [d \in Devices |-> 0]
  /\ task = [j \in Devices \X Actors |-> "rest"]
  /\ todo = [j \in Devices \X Actors |-> {}]
  /\ target = [j \in Devices \X Actors |-> Nowhere]
  /\ picked = [j \in Devices \X Actors |-> TRUE]
  /\ honest = [d \in Devices |-> TRUE]
  /\ confirmed = [d \in Devices |-> FALSE] /\ noticed = [d \in Devices |-> FALSE]
  /\ misdirected = {}

-----------------------------------------------------------------------------
(* The network.  An appliance that goes off forgets its associations. *)

Readdress ==
  /\ moves < MaxMoves /\ moves' = moves + 1
  /\ \E f \in Leases \ {at} :
       /\ at' = f
       /\ alive' = [d \in Devices |->
                      alive[d] /\ peer[d] \in Units /\ f[peer[d]] # Nowhere]
  /\ UNCHANGED <<host, to, peer, confirmed, noticed, resolved, failures, actors,
                 honest, misdirected>>

UnitsAt(a) == {u \in Units : at[u] = a}

\* A handshake from the source port that belongs to an address takes the place
\* of every other association from that port.
Surviving(a) == [d \in Devices |-> alive[d] /\ to[d] # a]

-----------------------------------------------------------------------------
(* One request over a device's session: the association it has, or one     *)
(* reconnect to whatever answers at the session's address.                 *)

Associated(d) == alive[d] /\ peer[d] \in UnitsAt(to[d])

\* The request is served by u; `good` and `bad` say what a full read made of it.
Served(d, u, good, bad) ==
  IF Associated(d)
  THEN /\ u = peer[d]
       /\ confirmed' = [confirmed EXCEPT ![d] = @ \/ good]
       /\ noticed' = [noticed EXCEPT ![d] = @ \/ bad]
       /\ UNCHANGED <<to, peer, alive>>
  ELSE /\ u \in UnitsAt(to[d])
       /\ peer' = [peer EXCEPT ![d] = u]
       /\ alive' = [Surviving(to[d]) EXCEPT ![d] = TRUE]
       /\ confirmed' = [confirmed EXCEPT ![d] = good]
       /\ noticed' = [noticed EXCEPT ![d] = bad]
       /\ UNCHANGED to

Detached(d) ==
  /\ peer' = [peer EXCEPT ![d] = Nobody] /\ alive' = [alive EXCEPT ![d] = FALSE]
  /\ confirmed' = [confirmed EXCEPT ![d] = FALSE]
  /\ noticed' = [noticed EXCEPT ![d] = FALSE]

Unanswered(d) ==
  /\ ~Associated(d) /\ UnitsAt(to[d]) = {}
  /\ Detached(d) /\ UNCHANGED to

-----------------------------------------------------------------------------
(* Full reads: the poll loop and refresh_now. *)

\* The identity check.  The mutant makes it only until the registry is resolved.
ImposterOnce(d, u) == d \in Verifiable /\ u # d /\ ~resolved[d]
Imposter(d, u) == d \in Verifiable /\ u # d

ReadSucceeds(d) ==
  /\ \E u \in Units : ~Imposter(d, u) /\ Served(d, u, TRUE, FALSE)
  /\ resolved' = [resolved EXCEPT ![d] = TRUE]

\* A read that finds another appliance raises and leaves the session connected.
ReadFails(d) ==
  /\ \/ Unanswered(d)
     \/ \E u \in Units : Imposter(d, u) /\ Served(d, u, FALSE, TRUE)
  /\ UNCHANGED resolved

PollOk(d) ==
  /\ task[<<d, "loop">>] = "rest"
  /\ ReadSucceeds(d)
  /\ failures' = [failures EXCEPT ![d] = 0]
  /\ UNCHANGED <<world, host, actors, honest, misdirected>>

\* What a sweep finds: every address that answers, its own included.
Responders == {at[u] : u \in Units} \ {Nowhere}

\* One search, at the third failure in a row and never again in that streak,
\* and only for a serial that proves something.
SearchDue(d) == d \in Verifiable /\ failures[d] + 1 = SearchAfter

PollFails(d) ==
  /\ task[<<d, "loop">>] = "rest"
  /\ ReadFails(d)
  /\ failures' = [failures EXCEPT ![d] = IF @ = MaxFailures THEN @ ELSE @ + 1]
  /\ IF SearchDue(d)
     THEN /\ task' = [task EXCEPT ![<<d, "loop">>] = "search"]
          /\ todo' = [todo EXCEPT ![<<d, "loop">>] = Responders]
     ELSE UNCHANGED <<task, todo>>
  /\ UNCHANGED <<world, host, target, picked, honest, misdirected>>

Refresh(d) ==
  /\ ReadSucceeds(d) \/ ReadFails(d)
  /\ UNCHANGED <<world, host, failures, actors, honest, misdirected>>

\* check_now, for Repair's test: a read that neither checks nor applies.
RepairTest(d) ==
  /\ Unanswered(d) \/ \E u \in Units : Served(d, u, FALSE, FALSE)
  /\ UNCHANGED <<world, host, resolved, failures, actors, honest, misdirected>>

\* A capability listener asks nobody whose appliance is at the other end.
Command(d) ==
  /\ resolved[d]
  /\ \/ Unanswered(d) /\ UNCHANGED misdirected
     \/ \E u \in Units :
          /\ Served(d, u, FALSE, FALSE)
          /\ misdirected' = IF u # d /\ Associated(d) /\ noticed[d]
                            THEN misdirected \cup {d} ELSE misdirected
  /\ UNCHANGED <<world, host, resolved, failures, actors, honest>>

-----------------------------------------------------------------------------
(* Looking for the appliance, and moving the device to it. *)

Lowest(as) == {a \in as : \A b \in as : a <= b}

\* The serial a probe reads decides.  The mutant takes the first appliance that
\* answers.
AnswersAsAny(d, a) == UnitsAt(a) # {}
AnswersAs(d, a) == d \in UnitsAt(a)

\* move_to is called with the address that was probed.
Choose(d, m, a) ==
  /\ task' = [task EXCEPT ![<<d, m>>] = "close"]
  /\ todo' = [todo EXCEPT ![<<d, m>>] = {}]
  /\ target' = [target EXCEPT ![<<d, m>>] = a]
  /\ picked' = [picked EXCEPT ![<<d, m>>] = d \in UnitsAt(a)]

\* Repair begins its own search, or asks about an address the user typed;
\* without a usable serial only the latter.
RepairFind(d) ==
  /\ task[<<d, "repair">>] = "rest" /\ d \in Verifiable
  /\ task' = [task EXCEPT ![<<d, "repair">>] = "search"]
  /\ todo' = [todo EXCEPT ![<<d, "repair">>] = Responders]
  /\ UNCHANGED <<world, host, link, resolved, failures, target, picked, honest, misdirected>>

\* A probe evicts whoever talks to that address, whatever it then finds.
Probed(d, a) ==
  /\ alive' = IF UnitsAt(a) = {} THEN alive ELSE Surviving(a)
  /\ UNCHANGED <<to, peer, confirmed, noticed>>

RepairHost(d) ==
  /\ task[<<d, "repair">>] = "rest"
  /\ \E a \in Addrs :
       /\ Probed(d, a)
       /\ IF UnitsAt(a) # {} /\ (d \in Verifiable => AnswersAs(d, a))
          THEN Choose(d, "repair", a)
          ELSE UNCHANGED actors
  /\ UNCHANGED <<world, host, resolved, failures, honest, misdirected>>

\* The loop's own search passes over the address the device has now.
Passed(d, m, a) == m = "loop" /\ a = host[d]

SearchNext(d, m) ==
  /\ task[<<d, m>>] = "search"
  /\ \E a \in Lowest(todo[<<d, m>>]) :
       /\ IF Passed(d, m, a) THEN UNCHANGED link ELSE Probed(d, a)
       /\ IF ~Passed(d, m, a) /\ AnswersAs(d, a)
          THEN Choose(d, m, a)
          ELSE /\ todo' = [todo EXCEPT ![<<d, m>>] = @ \ {a}]
               /\ UNCHANGED <<task, target, picked>>
  /\ UNCHANGED <<world, host, resolved, failures, honest, misdirected>>

SearchEnds(d, m) ==
  /\ task[<<d, m>>] = "search" /\ todo[<<d, m>>] = {}
  /\ task' = [task EXCEPT ![<<d, m>>] = "rest"]
  /\ UNCHANGED <<world, host, link, resolved, failures, todo, target, picked, honest,
                 misdirected>>

\* move_to suspends in close() and in the store writes.  Its new session takes
\* the address the device has by then.
MoveClose(d, m) ==
  /\ task[<<d, m>>] = "close"
  /\ Detached(d) /\ UNCHANGED to
  /\ task' = [task EXCEPT ![<<d, m>>] = "store"]
  /\ UNCHANGED <<world, host, resolved, failures, todo, target, picked, honest, misdirected>>

MoveStore(d, m) ==
  /\ task[<<d, m>>] = "store"
  /\ host' = [host EXCEPT ![d] = target[<<d, m>>]]
  /\ honest' = [honest EXCEPT ![d] = picked[<<d, m>>]]
  /\ target' = [target EXCEPT ![<<d, m>>] = Nowhere]
  /\ task' = [task EXCEPT ![<<d, m>>] = "swap"]
  /\ UNCHANGED <<world, link, resolved, failures, todo, picked, misdirected>>

\* The mutants keep the old address, or use the argument after it was dropped.
SessionAddressOld(d) == to[d]
SessionAddressTarget(d) == target[<<d, "loop">>]
SessionAddress(d) == host[d]

MoveSwap(d, m) ==
  /\ task[<<d, m>>] = "swap"
  /\ Detached(d)
  /\ to' = [to EXCEPT ![d] = SessionAddress(d)]
  /\ task' = [task EXCEPT ![<<d, m>>] = "rest"]
  /\ failures' = IF m = "loop" THEN [failures EXCEPT ![d] = 0] ELSE failures
  /\ UNCHANGED <<world, host, resolved, todo, target, picked, honest, misdirected>>

Move(d, m) == MoveClose(d, m) \/ MoveStore(d, m) \/ MoveSwap(d, m)
Search(d, m) == SearchNext(d, m) \/ SearchEnds(d, m)
Poll(d) == PollOk(d) \/ PollFails(d)

Next ==
  \/ Readdress
  \/ \E d \in Devices :
       \/ Poll(d) \/ Refresh(d) \/ RepairTest(d) \/ Command(d)
       \/ RepairFind(d) \/ RepairHost(d)
       \/ \E m \in Actors : Search(d, m) \/ Move(d, m)

Spec == Init /\ [][Next]_vars

\* The event loop resumes a poll loop and a Repair that has begun; every probe
\* and every request has a timeout.  Nothing is owed by the user or by DHCP.
FairSpec ==
  /\ Spec
  /\ \A d \in Devices : WF_vars(Poll(d))
  /\ \A d \in Devices, m \in Actors : WF_vars(Search(d, m) \/ Move(d, m))

-----------------------------------------------------------------------------
(* What holds. *)

\* An association over which a full read went through ends at the device's own
\* appliance, whoever moved since, so a command on it goes where it should; a
\* reconnect, by a poll, a card or a command, has to earn that again
\* (_read_and_apply's identity check).
ConfirmedIsOwn ==
  \A d \in Verifiable \cap Devices : confirmed[d] => peer[d] = d

\* Whoever re-points a device with a usable serial, and whoever moves meanwhile,
\* the address the device was given was its own appliance's when it was probed
\* (_relocate, _on_repair_find, _on_repair_host).
RepointedToItself == \A d \in Verifiable \cap Devices : honest[d]

\* A device that has not spent its search yet, and whose appliance is on
\* and stays where it is, finds it again without Repair (_relocate).
Settled(d) ==
  /\ moves = MaxMoves /\ at[d] # Nowhere /\ failures[d] < SearchAfter
  /\ \A m \in Actors : task[<<d, m>>] = "rest"
FindsItsAppliance ==
  \A d \in Verifiable \cap Devices :
    Settled(d) ~> (host[d] = at[d] /\ to[d] = at[d] /\ confirmed[d])

\* device.py says of the identity check: "Two devices swapping addresses over
\* DHCP would otherwise leave each one silently driving the other -- worse than
\* being unavailable."  Refuted: the check raises and leaves the session.
NeverDrivesAnother == misdirected = {}
=============================================================================
