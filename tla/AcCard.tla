------------------------------- MODULE AcCard -------------------------------
(***************************************************************************)
(* The combined air-conditioner Flow card, _on_set_ac_settings in          *)
(* lib/appliance/driver.py: it applies several settings in a fixed order,  *)
(* confirms each by re-reading the appliance, retries a refusal or a value *)
(* that did not stick, and re-checks the whole request at the end.         *)
(*                                                                         *)
(* One run of the card against one unit.  An action ends at the card's     *)
(* next await; comparisons the code makes between two awaits belong to the *)
(* action before them.  A setting's name is the card argument's, and       *)
(* `shown` stands for the capability and for the cached resource behind it *)
(* (StateCache relates the two).  A `whim` is anything the unit does that  *)
(* neither its mode table nor its power-on window explains: a refusal, a   *)
(* value that does not stick, a lost request, somebody at its panel.       *)
(***************************************************************************)
EXTENDS Integers

CONSTANTS
  Domain,     \* [Settings -> the values a unit can hold]
  Requests,   \* what the card may be asked: functions from settings to values
  Starts,     \* what the unit may hold when the card starts
  Clashes,    \* <<mode, comfort mode>> pairs a unit will not hold, table or not
  BootWaits,  \* settle waits after power-on before a unit takes every setting
  MaxWhims    \* bound: whims in one run

Order == <<"power", "mode", "temperature", "fan", "direction", "air_purify",
           "convenient">>
\* The mutant is the budget before the power-on window was measured.
AttemptsThree == 3
Attempts == 4
ReconcileRounds == 2

Settings == {Order[i] : i \in DOMAIN Order}
Rank(s) == CHOOSE i \in DOMAIN Order : Order[i] = s
First(S) == CHOOSE s \in S : \A t \in S : Rank(s) <= Rank(t)
After(S, s) == {t \in S : Rank(t) > Rank(s)}

Units == {h \in [Settings -> UNION {Domain[s] : s \in Settings}] :
            \A s \in Settings : h[s] \in Domain[s]}

ASSUME CardAssumption ==
  /\ DOMAIN Domain = Settings
  /\ Starts \subseteq Units
  /\ \A r \in Requests : DOMAIN r # {} /\ DOMAIN r \subseteq Settings
                         /\ \A s \in DOMAIN r : r[s] \in Domain[s]
  /\ Domain["power"] = {"on", "off"} /\ "Cool" \in Domain["mode"]
  /\ "Off" \in Domain["convenient"]
ASSUME BoundsAssumption == BootWaits \in Nat /\ MaxWhims \in Nat

VARIABLES
  pc,        \* the await the card is suspended in, or how it ended
  request,   \* its arguments
  wanted,    \* the settings it keeps after the operating mode's veto
  todo,      \* settings of the running pass not yet confirmed
  attempt,   \* the attempt at First(todo)
  refused,   \* that attempt was refused
  round,     \* reconcile rounds begun: 0 while the steps are strict
  shown,     \* the capability values
  held,      \* what the unit holds
  boot,      \* settle waits left of its power-on window
  restores,  \* the mode it puts back while it starts
  whims

cardVars == <<pc, request, wanted, todo, attempt, refused, round>>
unitVars == <<held, boot, restores>>
vars == <<cardVars, shown, unitVars, whims>>

TypeOK ==
  /\ pc \in {"start", "write", "settle", "reread", "recheck", "ok", "failed"}
  /\ request \in Requests
  /\ wanted \subseteq DOMAIN request /\ todo \subseteq wanted
  /\ pc \in {"write", "settle", "reread"} => todo # {}
  /\ attempt \in 1..Attempts /\ refused \in BOOLEAN
  /\ round \in 0..ReconcileRounds
  /\ shown \in Units /\ held \in Units
  /\ boot \in 0..BootWaits /\ restores \in Domain["mode"]
  /\ whims \in 0..MaxWhims

Init ==
  /\ pc = "start" /\ request \in Requests
  /\ wanted = {} /\ todo = {} /\ attempt = 1 /\ refused = FALSE /\ round = 0
  /\ held \in Starts /\ shown \in Starts
  /\ boot = 0 /\ restores = held["mode"] /\ whims = 0

-----------------------------------------------------------------------------
(* What an operating mode takes: registry/ac_mode_matrix.py. *)

Blocked ==
  [AIComfort |-> {"fan", "Nano", "LongWind", "Speed"},
   Auto |-> {"fan", "Nano", "LongWind", "Speed"},
   Cool |-> {},
   Dry |-> {"fan", "Speed"},
   Fan |-> {"temperature", "Speed"}]

\* An unknown mode constrains nothing, and comfort Off is always taken.
Accepts(mode, s, v) ==
  \/ mode \notin DOMAIN Blocked
  \/ s = "convenient" /\ (v = "Off" \/ v \notin Blocked[mode])
  \/ s # "convenient" /\ s \notin Blocked[mode]

\* _drop_what_the_mode_will_not_take, decided by the mode the run ends in.
Kept(asked, now) ==
  LET mode == IF "mode" \in DOMAIN asked THEN asked["mode"] ELSE now["mode"]
  IN  {s \in DOMAIN asked : s \in {"power", "mode"} \/ Accepts(mode, s, asked[s])}

-----------------------------------------------------------------------------
(* The unit. *)

\* What the unit itself can hold: the table, and clashes nobody has reported.
Honours(mode, s, v) == Accepts(mode, s, v) /\ <<mode, v>> \notin Clashes

\* A setting its mode does not honour is acknowledged and ignored, except that a
\* comfort mode puts the unit back into Cool, and a new mode ends a comfort mode
\* it cannot hold.
Taken(s, v) ==
  IF s = "mode" /\ ~Honours(v, "convenient", held["convenient"])
  THEN [held EXCEPT !["mode"] = v, !["convenient"] = "Off"]
  ELSE IF s = "convenient" /\ ~Honours(held["mode"], s, v)
  THEN [held EXCEPT ![s] = v, !["mode"] = "Cool"]
  ELSE IF Honours(held["mode"], s, v) THEN [held EXCEPT ![s] = v]
  ELSE held

Takes(s, v) ==
  /\ held' = Taken(s, v)
  /\ IF s = "power" /\ v # held["power"]
     THEN /\ boot' = IF v = "on" THEN BootWaits ELSE 0
          /\ restores' = held["mode"]
     ELSE UNCHANGED <<boot, restores>>

\* Off, or still starting, it may refuse any other setting.
MayRefuse(s) == s # "power" /\ (held["power"] = "off" \/ boot > 0)

Whim == whims < MaxWhims /\ whims' = whims + 1

\* Its panel, its remote, another Flow, or a setting another one knocks out.
Operated ==
  /\ Whim
  /\ \E s \in Settings : \E v \in Domain[s] \ {held[s]} : held' = [held EXCEPT ![s] = v]
  /\ UNCHANGED <<cardVars, shown, boot, restores>>

\* A poll or a notification brings the capabilities up to date.
Polled ==
  /\ shown # held /\ shown' = held
  /\ UNCHANGED <<cardVars, unitVars, whims>>

-----------------------------------------------------------------------------
(* The card. *)

Differ(S, now) == {s \in S : now[s] # request[s]}

\* The setting to write next, once those before it have been confirmed: a
\* strict pass skips settings that hold, a reconcile pass knows they do not.
\* The mutant trusts the steps and never looks back.
NextPassOver == pc' = "ok" /\ todo' = {}
NextPass == pc' = "recheck" /\ todo' = {}

Advance(rest, now) ==
  LET left == IF round = 0 THEN Differ(rest, now) ELSE rest
  IN  /\ attempt' = 1 /\ refused' = FALSE
      /\ IF left = {}
         THEN NextPass
         ELSE /\ pc' = "write"
              /\ todo' = {s \in rest : Rank(s) >= Rank(First(left))}

\* The first refresh, the mode's veto, and the settings that already hold.
Begin ==
  /\ pc = "start"
  /\ shown' = held
  /\ wanted' = Kept(request, held)
  /\ LET left == Differ(wanted', held)
     IN  IF left = {}
         THEN pc' = "ok" /\ todo' = {}
         ELSE /\ pc' = "write"
              /\ todo' = {s \in wanted' : Rank(s) >= Rank(First(left))}
  /\ UNCHANGED <<request, attempt, refused, round, unitVars, whims>>

\* The last attempt of a strict step raises; a reconciled setting goes on.
GiveUp(rest) ==
  IF round = 0
  THEN pc' = "failed" /\ UNCHANGED <<todo, attempt, refused>>
  ELSE Advance(rest, shown')

\* device._write: nothing is sent when the cached resource already matches.
NothingToWrite ==
  /\ pc = "write" /\ shown[First(todo)] = request[First(todo)]
  /\ pc' = "settle" /\ refused' = FALSE
  /\ UNCHANGED <<request, wanted, todo, attempt, round, shown, unitVars, whims>>

Writing == pc = "write" /\ shown[First(todo)] # request[First(todo)]

\* Acknowledged: optimistically shown, whether or not the unit keeps it.
WriteAccepted ==
  LET s == First(todo) IN
  /\ Writing
  /\ \/ Takes(s, request[s]) /\ UNCHANGED whims
     \/ Whim /\ UNCHANGED unitVars
  /\ shown' = [shown EXCEPT ![s] = request[s]]
  /\ pc' = "settle" /\ refused' = FALSE
  /\ UNCHANGED <<request, wanted, todo, attempt, round>>

\* Refused, or lost with or without effect.
AfterRefusal ==
  IF attempt < Attempts
  THEN pc' = "settle" /\ refused' = TRUE /\ UNCHANGED <<todo, attempt>>
  ELSE GiveUp(After(todo, First(todo)))

WriteRefused ==
  LET s == First(todo) IN
  /\ Writing
  /\ \/ MayRefuse(s) /\ UNCHANGED <<unitVars, whims>>
     \/ Whim /\ (UNCHANGED unitVars \/ Takes(s, request[s]))
  /\ UNCHANGED shown
  /\ AfterRefusal
  /\ UNCHANGED <<request, wanted, round>>

\* asyncio.sleep(_AC_SETTLE_S); a unit that is starting comes closer to the end
\* of its window and may put its own mode back.
Settle ==
  /\ pc = "settle"
  /\ pc' = "reread"
  /\ boot' = IF boot > 0 THEN boot - 1 ELSE 0
  /\ held' \in {held} \cup
               (IF boot > 0 THEN {[held EXCEPT !["mode"] = restores]} ELSE {})
  /\ UNCHANGED <<request, wanted, todo, attempt, refused, round, shown, restores, whims>>

\* refresh_now after the wait: done, once more, or out of attempts.
Reread ==
  LET s == First(todo)
      rest == After(todo, s)
  IN
  /\ pc = "reread"
  /\ shown' = held
  /\ IF ~refused /\ held[s] = request[s] THEN Advance(rest, held)
     ELSE IF attempt < Attempts
     THEN pc' = "write" /\ attempt' = attempt + 1 /\ refused' = FALSE /\ UNCHANGED todo
     ELSE GiveUp(rest)
  /\ UNCHANGED <<request, wanted, round, unitVars, whims>>

\* _reconcile: everything requested, the settings that were skipped included.
\* The mutant forgets which round it is in.
RoundForgotten(drifted) ==
  IF drifted = {} THEN pc' = "ok" /\ UNCHANGED <<todo, round>>
  ELSE pc' = "write" /\ todo' = drifted /\ round' = 1
Round(drifted) ==
  IF drifted = {} THEN pc' = "ok" /\ UNCHANGED <<todo, round>>
  ELSE IF round = ReconcileRounds THEN pc' = "failed" /\ UNCHANGED <<todo, round>>
  ELSE pc' = "write" /\ todo' = drifted /\ round' = round + 1

Recheck ==
  /\ pc = "recheck"
  /\ shown' = held
  /\ Round(Differ(wanted, held))
  /\ attempt' = 1 /\ refused' = FALSE
  /\ UNCHANGED <<request, wanted, unitVars, whims>>

\* A refresh that raises fails the card.
RefreshFails ==
  /\ pc \in {"start", "reread", "recheck"}
  /\ Whim
  /\ pc' = "failed"
  /\ UNCHANGED <<request, wanted, todo, attempt, refused, round, shown, unitVars>>

Card ==
  \/ Begin \/ NothingToWrite \/ WriteAccepted \/ WriteRefused \/ Settle
  \/ Reread \/ Recheck \/ RefreshFails

Next == Card \/ Operated \/ Polled

Spec == Init /\ [][Next]_vars

\* The event loop resumes the card after each await.
FairSpec == Spec /\ WF_vars(Card)

-----------------------------------------------------------------------------
(* What holds. *)

\* "The Flow should not report success for a setting that is no longer in
\* effect": in the step that ends the card well, the unit itself holds every
\* setting the card kept, those it skipped as already correct included, whatever
\* the unit, its panel, polls and earlier attempts did (_on_set_ac_settings).
SuccessIsConfirmed ==
  [][(pc # "ok" /\ pc' = "ok") => \A s \in wanted' : held[s] = request[s]]_vars

\* A card that turns a well-behaved unit on and asks only for settings that no
\* mode ignores outright outlasts the power-on window: refusals and a restored
\* mode cost attempts, never the card (_apply_step, _AC_ATTEMPTS).
Clashing ==
  \E mode \in Domain["mode"] : \E s \in wanted : <<mode, request[s]>> \in Clashes
BootIsOutlasted ==
  (/\ whims = 0 /\ ~Clashing
   /\ {"power"} \subseteq DOMAIN request /\ request["power"] = "on"
   /\ DOMAIN request \cap {"temperature", "fan"} = {})
  => pc # "failed"

\* Two settings that cannot hold together are not pushed back and forth for
\* ever: every card ends (_reconcile, "Bounded").
CardEnds == <>(pc \in {"ok", "failed"})
=============================================================================
