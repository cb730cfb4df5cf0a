----------------------------- MODULE StateCache -----------------------------
(***************************************************************************)
(* How one resource of an appliance reaches its capability in Homey:       *)
(* lib/appliance/device.py's _read_and_apply, _on_notification, _apply and *)
(* _write, run by coroutines that interleave at every await.               *)
(*                                                                         *)
(* Resources do not influence one another here, so one href with one plain *)
(* capability stands for all of them, and the appliance at the address is  *)
(* the paired one.  self._resources is replaced by each full read, and an  *)
(* _apply under way keeps the dict it was called with.  Only the current   *)
(* dict is ever changed in place, so an older one is a frozen value:       *)
(* `held` is Live or that value.                                           *)
(***************************************************************************)
EXTENDS Integers, FiniteSets

CONSTANTS
  Values,      \* what the resource may hold
  Readers,     \* coroutines in _read_and_apply: the poll loop, a Flow card
  Writers,     \* coroutines in _write
  Missing,     \* the resource is absent from a dict
  Live,        \* an _apply that works on the dict self._resources still names
  MaxPush,     \* bound: pushed _apply_href tasks created and not yet run
  MaxChanges   \* bound: changes the appliance makes by itself

ASSUME DistinctAssumption ==
  /\ Live # Missing /\ Live \notin Values /\ Missing \notin Values
ASSUME BoundsAssumption == MaxPush \in Nat /\ MaxChanges \in Nat

Nobody == "nobody"
Results == {"none", "skipped", "accepted", "refused", "lost"}

VARIABLES
  actual, settling, \* what the appliance reports, and what it is moving to
  changes,          \* how often it changed by itself
  flight,           \* notifications it has sent that are still under way
  wire,             \* who holds the session's lock
  reading,          \* where each reader is
  sample,           \* the answer to its GET, until it is assigned
  held,             \* the dict its _apply works on
  writing, asked,   \* where each writer is, and the value it was called with
  result,           \* how its last call ended
  cache,            \* self._resources[href]
  guard,            \* _settling[href] lies in the future
  pushed,           \* _apply_href tasks waiting to run
  shown,            \* the capability's value in Homey
  promised,         \* history: what the appliance last accepted, while guarded
  reread,           \* history: a full read has touched the resource since
  real              \* history: what the appliance has held or accepted

applianceVars == <<actual, settling, changes, flight, real>>
readerVars == <<reading, sample, held>>
writerVars == <<writing, asked, result>>
deviceVars == <<cache, guard, pushed, shown, promised, reread>>
vars == <<applianceVars, wire, readerVars, writerVars, deviceVars>>

TypeOK ==
  /\ actual \in Values /\ settling \in Values /\ changes \in 0..MaxChanges
  /\ flight \subseteq Values
  /\ wire \in Readers \cup Writers \cup {Nobody}
  /\ reading \in [Readers -> {"idle", "sent", "assigned", "applying"}]
  /\ sample \in [Readers -> Values \cup {Missing}]
  /\ held \in [Readers -> Values \cup {Missing, Live}]
  /\ writing \in [Writers -> {"idle", "queued", "sent"}]
  /\ asked \in [Writers -> Values] /\ result \in [Writers -> Results]
  /\ cache \in Values \cup {Missing} /\ guard \in BOOLEAN
  /\ pushed \in 0..MaxPush /\ shown \in Values \cup {Missing}
  /\ promised \in Values \cup {Missing} /\ reread \in BOOLEAN
  /\ real \subseteq Values

Init ==
  /\ actual \in Values /\ settling = actual /\ changes = 0 /\ flight = {}
  /\ wire = Nobody
  /\ reading = [r \in Readers |-> "idle"] /\ sample = [r \in Readers |-> Missing]
  /\ held = [r \in Readers |-> Live]
  /\ writing = [w \in Writers |-> "idle"] /\ asked = [w \in Writers |-> actual]
  /\ result = [w \in Writers |-> "none"]
  /\ cache = Missing /\ guard = FALSE /\ pushed = 0 /\ shown = Missing
  /\ promised = Missing /\ reread = FALSE /\ real = {actual}

-----------------------------------------------------------------------------
(* The appliance. *)

\* It reports v from now on, and may notify (there are subscriptions only
\* after the first read); the datagram may be lost.
Reports(v) ==
  /\ actual' = v
  /\ flight' = flight \/ (cache # Missing /\ flight' = flight \cup {v})

\* A slow appliance reaches the value it has accepted.
Settles ==
  /\ actual # settling
  /\ Reports(settling)
  /\ UNCHANGED <<settling, changes, real, wire, readerVars, writerVars, deviceVars>>

\* Its own panel, its programme, or a setting it undoes.
Changes ==
  /\ changes < MaxChanges
  /\ changes' = changes + 1
  /\ \E v \in Values \ {actual} :
       Reports(v) /\ settling' = v /\ real' = real \cup {v}
  /\ UNCHANGED <<wire, readerVars, writerVars, deviceVars>>

-----------------------------------------------------------------------------
(* A full read: _read_and_apply. *)

\* The GET is answered while its caller holds the session.
Sample(r) ==
  /\ reading[r] = "idle" /\ wire = Nobody
  /\ wire' = r
  /\ reading' = [reading EXCEPT ![r] = "sent"]
  /\ sample' = [sample EXCEPT ![r] = actual]
  /\ UNCHANGED <<actual, settling, changes, flight, real, held, writerVars, deviceVars>>

\* self._resources = ...: every _apply under way is left with the old dict.
Replace(dict) ==
  /\ cache' = dict
  /\ held' = [r \in Readers |-> IF held[r] = Live /\ reading[r] = "applying"
                                THEN cache ELSE held[r]]
  /\ reread' = TRUE

Assign(r) ==
  /\ reading[r] = "sent"
  /\ wire' = Nobody
  /\ Replace(sample[r])
  /\ reading' = [reading EXCEPT ![r] = "assigned"]
  /\ sample' = [sample EXCEPT ![r] = Missing]
  /\ UNCHANGED <<applianceVars, writerVars, guard, pushed, shown, promised>>

\* The GET fails, or one of the awaits after it raises.
ReadFails(r) ==
  /\ reading[r] # "idle"
  /\ wire' = IF reading[r] = "sent" THEN Nobody ELSE wire
  /\ reading' = [reading EXCEPT ![r] = "idle"]
  /\ sample' = [sample EXCEPT ![r] = Missing]
  /\ held' = [held EXCEPT ![r] = Live]
  /\ UNCHANGED <<applianceVars, writerVars, deviceVars>>

\* After the awaits of _sync_capabilities and _sync_capability_options, _apply
\* is called with whatever dict self._resources names by then.
ApplyStarts(r) ==
  /\ reading[r] = "assigned"
  /\ reading' = [reading EXCEPT ![r] = "applying"]
  /\ UNCHANGED <<applianceVars, wire, sample, held, writerVars, deviceVars>>

\* _apply on a value read from some dict.
Show(v) == shown' = IF v = Missing THEN shown ELSE v

\* _apply reaches this resource, after the awaits of the earlier ones.
Applies(r) ==
  /\ reading[r] = "applying"
  /\ Show(IF held[r] = Live THEN cache ELSE held[r])
  /\ reread' = (reread \/ held[r] # Live)
  /\ reading' = [reading EXCEPT ![r] = "idle"]
  /\ held' = [held EXCEPT ![r] = Live]
  /\ UNCHANGED <<applianceVars, wire, sample, writerVars, cache, guard, pushed, promised>>

-----------------------------------------------------------------------------
(* Push: _on_notification and the task it creates. *)

\* Mid-settle a notification is dropped, not postponed; the mutant takes it.
TakenEvenSettling(v) == cache' = v /\ pushed' = pushed + 1
Taken(v) ==
  IF guard THEN UNCHANGED <<cache, pushed>> ELSE cache' = v /\ pushed' = pushed + 1

Notification(v) ==
  /\ v \in flight /\ pushed < MaxPush
  /\ flight' = flight \ {v}
  /\ Taken(v)
  /\ UNCHANGED <<actual, settling, changes, real, wire, readerVars,
                 writerVars, guard, shown, promised, reread>>

\* _apply_href reads the current dict when its turn comes.
ApplyHref ==
  /\ pushed > 0
  /\ pushed' = pushed - 1
  /\ Show(cache)
  /\ UNCHANGED <<applianceVars, wire, readerVars, writerVars, cache, guard,
                 promised, reread>>

\* WRITE_SETTLE_S has passed since the last write began.
GuardEnds ==
  /\ guard
  /\ guard' = FALSE /\ promised' = Missing
  /\ UNCHANGED <<applianceVars, wire, readerVars, writerVars, cache, pushed, shown,
                 reread>>

-----------------------------------------------------------------------------
(* A command: _write. *)

\* The cache already holds the value: nothing is sent.
WriteSkipped(w) ==
  /\ writing[w] = "idle" /\ cache # Missing
  /\ asked' = [asked EXCEPT ![w] = cache]
  /\ result' = [result EXCEPT ![w] = "skipped"]
  /\ shown' = cache
  /\ UNCHANGED <<applianceVars, wire, readerVars, writing, cache, guard, pushed,
                 promised, reread>>

\* Until the first read no capability can be written.  The guard is set before
\* the session is asked for; the mutant has already folded the value into the
\* cache by then.
GuardAndFold(v) == guard' = TRUE /\ cache' = v /\ shown' = v
Guard(v) == guard' = TRUE /\ UNCHANGED <<cache, shown>>

WriteBegins(w) ==
  /\ writing[w] = "idle" /\ cache # Missing
  /\ \E v \in Values \ {cache} : asked' = [asked EXCEPT ![w] = v] /\ Guard(v)
  /\ writing' = [writing EXCEPT ![w] = "queued"]
  /\ result' = [result EXCEPT ![w] = "none"]
  /\ UNCHANGED <<applianceVars, wire, readerVars, pushed, promised, reread>>

\* With the session to itself the POST is accepted (to take effect now or a
\* little later), refused, or lost on one of the two ways.
Posted(w) ==
  /\ writing[w] = "queued" /\ wire = Nobody
  /\ wire' = w
  /\ writing' = [writing EXCEPT ![w] = "sent"]
  /\ \/ /\ \E outcome \in {"accepted", "lost"} : result' = [result EXCEPT ![w] = outcome]
        /\ settling' = asked[w] /\ real' = real \cup {asked[w]}
     \/ /\ \E outcome \in {"refused", "lost"} : result' = [result EXCEPT ![w] = outcome]
        /\ UNCHANGED <<settling, real>>
  /\ UNCHANGED <<actual, changes, flight, readerVars, asked, deviceVars>>

\* Optimistic apply on the current dict, only for an accepted write.
WriteReturns(w) ==
  /\ writing[w] = "sent"
  /\ wire' = Nobody
  /\ writing' = [writing EXCEPT ![w] = "idle"]
  /\ IF result[w] = "accepted"
     THEN /\ cache' = asked[w] /\ shown' = asked[w]
          /\ promised' = IF guard THEN asked[w] ELSE Missing
          /\ reread' = FALSE
     ELSE UNCHANGED <<cache, shown, promised, reread>>
  /\ UNCHANGED <<applianceVars, readerVars, asked, result, guard, pushed>>

Reading(r) == Sample(r) \/ Assign(r) \/ ReadFails(r) \/ ApplyStarts(r) \/ Applies(r)
Writing(w) == WriteSkipped(w) \/ WriteBegins(w) \/ Posted(w) \/ WriteReturns(w)

Next ==
  \/ Settles \/ Changes \/ (\E v \in Values : Notification(v)) \/ ApplyHref \/ GuardEnds
  \/ (\E r \in Readers : Reading(r)) \/ (\E w \in Writers : Writing(w))

Spec == Init /\ [][Next]_vars

-----------------------------------------------------------------------------
(* What holds. *)

\* While an accepted write settles and no full read has touched the resource,
\* Homey and the cache keep its value: no late notification, no push task
\* created before it and no second refused command undoes it (_on_notification,
\* WRITE_SETTLE_S).
SettlingWriteIsKept ==
  (promised # Missing /\ ~reread) => cache = promised /\ shown = promised

\* Neither the cache nor Homey ever holds a value the appliance has neither
\* reported nor accepted: the optimistic apply waits for the answer (_write).
NothingInvented == {cache, shown} \subseteq real \cup {Missing}
=============================================================================
