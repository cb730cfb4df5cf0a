-------------------------- MODULE ObserveLifecycle --------------------------
(***************************************************************************)
(* The life of one paired appliance in lib/appliance/device.py: the poll   *)
(* loop, the push ("OBSERVE") lifecycle it drives, the backoff and         *)
(* availability it derives from failures, the search for an appliance that *)
(* changed address, and Repair moving the device while the loop runs.      *)
(*                                                                         *)
(* One coroutine runs until its next await, so an action is the code       *)
(* between two awaits.  Time is an integer number of ticks; `since...`     *)
(* variables are ages that stop growing at Refresh, the largest gate.      *)
(* DTLS is abstracted to what the lifecycle can see of lib/session.py: is  *)
(* there a session, and which paths does it believe it is subscribed to.   *)
(***************************************************************************)
EXTENDS Integers, FiniteSets

CONSTANTS
  Hrefs,         \* resources some capability of this appliance reads
  Surfaces,      \* the subsets of Hrefs a /device/0 answer may carry
  Addrs,         \* addresses the DHCP server may hand out
  PollInterval,  \* POLL_INTERVAL_S, in ticks
  Grace,         \* OBSERVE_GRACE_S
  Sweep,         \* OBSERVE_SWEEP_INTERVAL_S, also the ceiling of the backoff
  Retry,         \* OBSERVE_RETRY_S
  Refresh,       \* OBSERVE_REFRESH_S
  MaxSilent,     \* where _observe_silent_rounds saturates
  MaxFailures    \* where _failures saturates

UnavailableAfter == 4
RelocateAfter == 3
Widening == <<2, 4, 8, 16, 32, 64, 128, 256>>

ASSUME TimesAssumption ==
  /\ PollInterval \in Nat \ {0} /\ Grace \in Nat /\ Sweep \in Nat
  /\ Retry \in Nat \ {0} /\ Refresh \in Nat
  /\ PollInterval <= Sweep /\ Grace <= Retry /\ Retry <= Refresh
\* Saturating is exact: beyond the caps neither the retry window nor the
\* backoff depends on the counter any more.
ASSUME CapsAssumption ==
  /\ MaxSilent \in 1..8 /\ Retry * Widening[MaxSilent] >= Refresh
  /\ MaxFailures \in 4..6
  /\ MaxFailures = 6 \/ PollInterval * MaxFailures >= Sweep
ASSUME HrefsAssumption == IsFiniteSet(Hrefs) /\ Surfaces \subseteq SUBSET Hrefs

NotAttempted == -1
Movers == {"loop", "repair"}

VARIABLES
  pc,              \* where the poll loop is suspended
  wait,            \* ticks left of the loop's asyncio.sleep
  failures,        \* _failures
  todo,            \* paths the running subscribe round has yet to send
  observing, pending, silent, notified, observeHrefs,
  sinceAttempt,    \* age of _observe_attempted_at, NotAttempted for 0.0
  sinceSubscribed, \* age of _subscribed_at
  connected,       \* self._session holds a live DTLS session
  subscribed,      \* Session._subscribed
  sessionHost,     \* the address that Session object was built with
  stray,           \* paths still registered by a replaced, connected Session
  surface,         \* the observable hrefs of self._resources
  available,       \* what set_available / set_unavailable last said
  status,          \* the "status" advanced setting
  host,            \* self._host
  mover, target,   \* where each running move_to is, and its address
  up, where        \* the appliance: does it answer, and at which address

loopVars == <<pc, wait, failures, todo>>
pushVars == <<observing, pending, silent, notified, observeHrefs,
              sinceAttempt, sinceSubscribed>>
sessionVars == <<connected, subscribed, sessionHost, stray>>
moveVars == <<host, mover, target>>
world == <<up, where>>
vars == <<loopVars, pushVars, sessionVars, surface, available, status,
          moveVars, world>>

MinOf(a, b) == IF a <= b THEN a ELSE b

TypeOK ==
  /\ pc \in {"sleep", "read", "judge", "subscribe", "finish", "relocate", "moving"}
  /\ wait \in 0..Sweep /\ failures \in 0..MaxFailures /\ todo \subseteq Hrefs
  /\ observing \in BOOLEAN /\ pending \in BOOLEAN /\ silent \in 0..MaxSilent
  /\ notified \subseteq Hrefs /\ observeHrefs \subseteq Hrefs
  /\ sinceAttempt \in -1..Refresh /\ sinceSubscribed \in 0..Refresh
  /\ connected \in BOOLEAN /\ subscribed \subseteq Hrefs
  /\ sessionHost \in Addrs /\ stray \subseteq Hrefs
  /\ surface \subseteq Hrefs /\ available \in BOOLEAN
  /\ status \in {"push", "polling"} /\ host \in Addrs
  /\ mover \in [Movers -> {"idle", "close", "store", "sync"}]
  /\ target \in [Movers -> Addrs]
  /\ up \in BOOLEAN /\ where \in Addrs

Init ==
  /\ pc = "read" /\ wait = 0 /\ failures = 0 /\ todo = {}
  /\ observing = FALSE /\ pending = FALSE /\ silent = 0
  /\ notified = {} /\ observeHrefs = {}
  /\ sinceAttempt = NotAttempted /\ sinceSubscribed = Refresh
  /\ connected = FALSE /\ subscribed = {} /\ stray = {}
  /\ surface = {} /\ available = TRUE /\ status = "polling"
  /\ host \in Addrs /\ sessionHost = host
  /\ mover = [m \in Movers |-> "idle"] /\ target = [m \in Movers |-> host]
  /\ up \in BOOLEAN /\ where \in Addrs

-----------------------------------------------------------------------------
(* What a call through lib/session.py does to the session. *)

Reachable == up /\ where = sessionHost

\* A fresh DTLS session replays the subscriptions; one that fails to replay
\* is logged and dropped from the set.
Reconnect ==
  /\ connected' = TRUE
  /\ subscribed' \in SUBSET subscribed
  /\ UNCHANGED <<sessionHost, stray>>

CallAnswered ==
  /\ Reachable
  /\ (connected /\ UNCHANGED sessionVars) \/ Reconnect

CallFailed ==
  /\ ~Reachable
  /\ \/ connected' = FALSE /\ UNCHANGED <<subscribed, sessionHost, stray>>
     \/ Reconnect

-----------------------------------------------------------------------------
(* The decisions of the push lifecycle. *)

Silent == observeHrefs \ notified

Interval == IF observing /\ Silent = {} THEN Sweep ELSE PollInterval

\* max(1, int(n * OBSERVE_SUCCESS_FRACTION)).
Needed(n) == IF (n * 4) \div 5 > 1 THEN (n * 4) \div 5 ELSE 1

QuorumNotified ==
  Cardinality(notified \cap observeHrefs) >= Needed(Cardinality(observeHrefs))

\* Doubled per silent round, up to Refresh; the mutant never comes due again.
RetryAfterGivesUp(rounds) == IF rounds = 0 THEN Retry ELSE Refresh + 1
RetryAfter(rounds) ==
  IF rounds = 0 THEN Retry ELSE MinOf(Retry * Widening[rounds], Refresh)

\* The push state after _evaluate_observe: unchanged until a verdict is due.
VerdictDue == pending /\ sinceSubscribed >= Grace

EvaluatedStillPending ==
  [observing |-> IF VerdictDue THEN QuorumNotified ELSE observing,
   pending |-> pending, silent |-> silent]
\* The mutant never takes push mode back.
EvaluatedSticky ==
  IF ~VerdictDue
  THEN [observing |-> observing, pending |-> pending, silent |-> silent]
  ELSE [observing |-> observing \/ QuorumNotified, pending |-> FALSE, silent |-> 0]
Evaluated ==
  IF ~VerdictDue
  THEN [observing |-> observing, pending |-> pending, silent |-> silent]
  ELSE [observing |-> QuorumNotified, pending |-> FALSE,
        silent |-> IF QuorumNotified THEN 0 ELSE MinOf(silent + 1, MaxSilent)]

\* The gates of _try_observe, on the state _evaluate_observe leaves; the
\* mutant reads the silent-round counter from before the verdict.
RoundDueStale(push) ==
  /\ ~push.pending
  /\ IF push.observing
     THEN sinceSubscribed >= Refresh
     ELSE sinceAttempt = NotAttempted \/ sinceAttempt >= RetryAfter(silent)
  /\ surface # {}
RoundDue(push) ==
  /\ ~push.pending
  /\ IF push.observing
     THEN sinceSubscribed >= Refresh
     ELSE sinceAttempt = NotAttempted \/ sinceAttempt >= RetryAfter(push.silent)
  /\ surface # {}

SyncStatus == status' = IF observing' THEN "push" ELSE "polling"

\* _drop_to_polling; the first mutant is the loop before it existed, the
\* second forgets the settings.
DropToPollingNever == UNCHANGED <<observing, pending, status>>
DropToPollingUnsaid ==
  observing' = FALSE /\ pending' = FALSE /\ UNCHANGED status
DropToPolling ==
  /\ observing' = FALSE /\ pending' = FALSE
  /\ IF observing \/ pending THEN SyncStatus ELSE UNCHANGED status

\* The thresholds and the delay of a failing loop, with n failures in a row.
UnavailableDueEarly(n) == n >= RelocateAfter
UnavailableDue(n) == n >= UnavailableAfter

SearchDueLate(n) == n = UnavailableAfter
SearchDue(n) == n = RelocateAfter

Backoff(n) == MinOf(Interval * MinOf(n, 6), Sweep)

\* set_available at the end of _read_and_apply; the mutant forgets it.
MarkAvailableForgotten == UNCHANGED available
MarkAvailable == available' = TRUE

-----------------------------------------------------------------------------
(* The poll loop. *)

Wake ==
  /\ pc = "sleep" /\ wait = 0
  /\ pc' = "read"
  /\ UNCHANGED <<wait, failures, todo, pushVars, sessionVars, surface,
                 available, status, moveVars, world>>

\* _read_and_apply answered, with the right serial.
ReadOk ==
  /\ pc = "read"
  /\ CallAnswered
  /\ surface' \in Surfaces
  /\ MarkAvailable
  /\ pc' = "judge"
  /\ UNCHANGED <<wait, failures, todo, pushVars, status, moveVars, world>>

\* _evaluate_observe and the gates of _try_observe: no await between them.
Judge ==
  /\ pc = "judge"
  /\ LET push == Evaluated IN
     /\ observing' = push.observing /\ pending' = push.pending
     /\ silent' = push.silent
     /\ IF RoundDue(push)
        THEN /\ sinceAttempt' = 0 /\ notified' = {} /\ observeHrefs' = surface
             /\ todo' = surface /\ pc' = "subscribe"
        ELSE /\ UNCHANGED <<sinceAttempt, notified, observeHrefs, todo>>
             /\ pc' = "finish"
  /\ UNCHANGED <<wait, failures, sinceSubscribed, sessionVars, surface,
                 available, status, moveVars, world>>

\* One path of the round.  Sending is fire-and-forget: it succeeds on a live
\* session whether or not the appliance is still there.
Subscribe(h) ==
  /\ pc = "subscribe" /\ h \in todo
  /\ todo' = todo \ {h}
  /\ \/ connected /\ subscribed' \in {subscribed, subscribed \cup {h}}
        /\ UNCHANGED <<connected, sessionHost, stray>>
     \/ ~connected /\ Reachable /\ connected' = TRUE
        /\ \E kept \in SUBSET subscribed : subscribed' \in {kept, kept \cup {h}}
        /\ UNCHANGED <<sessionHost, stray>>
     \/ ~connected /\ ~Reachable /\ UNCHANGED sessionVars
  /\ UNCHANGED <<pc, wait, failures, pushVars, surface, available, status,
                 moveVars, world>>

RoundSent ==
  /\ pc = "subscribe" /\ todo = {}
  /\ sinceSubscribed' = 0 /\ pending' = TRUE
  /\ pc' = "finish"
  /\ UNCHANGED <<wait, failures, todo, observing, silent, notified,
                 observeHrefs, sinceAttempt, sessionVars, surface, available,
                 status, moveVars, world>>

\* _sync_settings, the end of a good poll, and the delay it earns.
Finish ==
  /\ pc = "finish"
  /\ UNCHANGED pushVars
  /\ SyncStatus
  /\ failures' = 0 /\ wait' = Interval /\ pc' = "sleep"
  /\ UNCHANGED <<todo, sessionVars, surface, available, moveVars, world>>

\* The except branch: the delay is computed before push is given up.
ReadFail ==
  /\ pc = "read"
  /\ CallFailed
  /\ failures' = MinOf(failures + 1, MaxFailures)
  /\ wait' = Backoff(failures')
  /\ DropToPolling
  /\ available' = (available /\ ~UnavailableDue(failures'))
  /\ pc' = IF SearchDue(failures') THEN "relocate" ELSE "sleep"
  /\ UNCHANGED <<todo, silent, notified, observeHrefs, sinceAttempt,
                 sinceSubscribed, surface, moveVars, world>>

-----------------------------------------------------------------------------
(* Relocation and Repair: both end in move_to. *)

StartMove(m, a) ==
  /\ mover[m] = "idle"
  /\ mover' = [mover EXCEPT ![m] = "close"]
  /\ target' = [target EXCEPT ![m] = a]

\* _relocate: the sweep finds the serial at another address ...
RelocateHit ==
  /\ pc = "relocate" /\ up /\ where # host
  /\ StartMove("loop", where)
  /\ pc' = "moving"
  /\ UNCHANGED <<wait, failures, todo, pushVars, sessionVars, surface,
                 available, status, host, world>>

\* ... or nowhere; the loop sleeps the delay it already chose.
RelocateMiss ==
  /\ pc = "relocate" /\ ~(up /\ where # host)
  /\ pc' = "sleep"
  /\ UNCHANGED <<wait, failures, todo, pushVars, sessionVars, surface,
                 available, status, moveVars, world>>

\* Repair probed an address and found this unit's serial there.
RepairStart ==
  /\ up
  /\ StartMove("repair", where)
  /\ UNCHANGED <<loopVars, pushVars, sessionVars, surface, available, status,
                 host, world>>

\* Close the session, then set the address and start storing it.
MoveClose(m) ==
  /\ mover[m] = "close"
  /\ connected' = FALSE
  /\ host' = target[m]
  /\ mover' = [mover EXCEPT ![m] = "store"]
  /\ UNCHANGED <<loopVars, pushVars, subscribed, sessionHost, stray, surface,
                 available, status, target, world>>

\* After the store writes: a new Session object and a clean push state.
MoveSwap(m) ==
  /\ mover[m] = "store"
  /\ connected' = FALSE /\ subscribed' = {} /\ sessionHost' = host
  /\ stray' = stray \cup (IF connected THEN subscribed ELSE {})
  /\ observing' = FALSE /\ pending' = FALSE
  /\ sinceAttempt' = NotAttempted /\ silent' = 0
  /\ mover' = [mover EXCEPT ![m] = "sync"]
  /\ UNCHANGED <<loopVars, notified, observeHrefs, sinceSubscribed, surface,
                 available, status, host, target, world>>

MoveSync(m) ==
  /\ mover[m] = "sync"
  /\ mover' = [mover EXCEPT ![m] = "idle"]
  /\ UNCHANGED pushVars
  /\ SyncStatus
  /\ IF m = "loop"
     THEN failures' = 0 /\ wait' = 0 /\ pc' = "sleep" /\ UNCHANGED todo
     ELSE UNCHANGED loopVars
  /\ UNCHANGED <<sessionVars, surface, available, host, target, world>>

Move(m) == MoveClose(m) \/ MoveSwap(m) \/ MoveSync(m)

-----------------------------------------------------------------------------
(* Other users of the session, the appliance, and time. *)

\* refresh_now from a Flow card re-reads and reports the device available;
\* check_now and _write only go through the session.
RefreshNow ==
  /\ CallAnswered
  /\ surface' \in Surfaces
  /\ MarkAvailable
  /\ UNCHANGED <<loopVars, pushVars, status, moveVars, world>>

OtherCall ==
  /\ CallAnswered \/ CallFailed
  /\ UNCHANGED <<loopVars, pushVars, surface, available, status, moveVars, world>>

\* _on_notification, from the live session or from a lingering one.
Notify(h) ==
  /\ h \in stray \/ (connected /\ Reachable /\ h \in subscribed)
  /\ notified' = notified \cup {h}
  /\ UNCHANGED <<loopVars, observing, pending, silent, observeHrefs,
                 sinceAttempt, sinceSubscribed, sessionVars, surface,
                 available, status, moveVars, world>>

Older(age) == IF age = NotAttempted THEN age ELSE MinOf(age + 1, Refresh)

Tick ==
  /\ pc = "sleep" => wait > 0
  /\ wait' = IF pc = "sleep" THEN wait - 1 ELSE wait
  /\ sinceAttempt' = Older(sinceAttempt)
  /\ sinceSubscribed' = Older(sinceSubscribed)
  /\ UNCHANGED <<pc, failures, todo, observing, pending, silent, notified,
                 observeHrefs, sessionVars, surface, available, status,
                 moveVars, world>>

Appliance ==
  /\ \/ up' = ~up /\ UNCHANGED where
     \/ where' \in Addrs \ {where} /\ UNCHANGED up
  /\ UNCHANGED <<loopVars, pushVars, sessionVars, surface, available, status,
                 moveVars>>

Loop ==
  \/ Wake \/ ReadOk \/ Judge \/ (\E h \in Hrefs : Subscribe(h)) \/ RoundSent
  \/ Finish \/ ReadFail \/ RelocateHit \/ RelocateMiss

Next ==
  \/ Loop \/ (\E m \in Movers : Move(m)) \/ RepairStart
  \/ RefreshNow \/ OtherCall \/ (\E h \in Hrefs : Notify(h))
  \/ Tick \/ Appliance

Spec == Init /\ [][Next]_vars

\* The event loop runs every ready task and time passes; nothing else is owed.
Fairness ==
  WF_vars(Loop) /\ WF_vars(Tick) /\ \A m \in Movers : WF_vars(Move(m))

FairSpec == Spec /\ Fairness
-----------------------------------------------------------------------------
(* Safety. *)

Idle == \A m \in Movers : mover[m] = "idle"

\* Between two polls of a failing appliance the device never claims push:
\* "nothing can be arriving by push down a channel whose reads are failing"
\* (_poll_loop, _drop_to_polling), whatever Repair does meanwhile.
NoPushClaimWhileFailing ==
  (pc \in {"sleep", "relocate"} /\ failures > 0) => ~observing /\ ~pending

\* Push is earned: a device that rests in push mode, no verdict outstanding,
\* has heard from some path of its latest round, and from more than four fifths
\* of them less one (_evaluate_observe, OBSERVE_SUCCESS_FRACTION).
PushIsEarned ==
  (pc = "sleep" /\ observing /\ ~pending) =>
    LET got == Cardinality(notified \cap observeHrefs)
        all == Cardinality(observeHrefs)
    IN  got >= 1 /\ 5 * got + 5 > 4 * all

\* Only a persistent failure reaches the user: a device marked unavailable
\* has failed UnavailableAfter polls in a row, though relocation, Repair and
\* Flow cards all touch the same counter or flag (_poll_loop).
UnavailableMeansPersistent == ~available => failures >= UnavailableAfter

\* While nothing is in progress the status setting tells the truth about push
\* (README: the connection status always reflects reality; _sync_settings).
StatusTellsTheTruth ==
  (pc = "sleep" /\ Idle) => ((status = "push") <=> observing)

\* A relocation search runs exactly at the third failure of a streak, so the
\* loop never settles into its backoff without having searched (_poll_loop).
SearchBeforeBackoff ==
  [][(pc # "relocate" /\ pc' = "relocate") <=>
       (failures < RelocateAfter /\ failures' = RelocateAfter)]_vars

\* On one session two subscribe rounds are at least Retry apart, and after a
\* silent verdict the whole widened window: no path through a pending round,
\* a lost and regained quorum or a dropped push claim skips the backoff
\* (_try_observe, _observe_retry_after).
RoundsAreSpaced ==
  [][(pc = "judge" /\ pc' = "subscribe" /\ sinceAttempt # NotAttempted)
       => sinceAttempt >= IF observing' THEN Refresh ELSE RetryAfter(silent')]_vars

(* Liveness. *)

\* A subscribe round always gets its verdict, or the claim is withdrawn.
VerdictReached == pending ~> ~pending

\* An appliance that stays where the device looks for it is shown available
\* again, whatever failed before (_poll_loop's backoff never gives up).
RecoversInPlace ==
  <>[](Reachable /\ Idle) => <>[](available /\ failures = 0)

\* Polling with a silent push channel keeps retrying push: a reachable device
\* with something to observe is for ever again in push mode or waiting for a
\* verdict.
PushKeepsBeingTried ==
  <>[](Reachable /\ Idle /\ surface # {}) => []<>(observing \/ pending)

(* What the documents say and the code does not do. *)

\* session.py, _connect_unlocked: "anything previously subscribed must be
\* re-registered or it goes silently stale".
PushedPathsAreRegistered ==
  (pc = "sleep" /\ observing /\ ~pending /\ connected /\ Silent = {})
    => observeHrefs \subseteq subscribed
=============================================================================
