---------------------------- MODULE AcCardProofs ----------------------------
(***************************************************************************)
(* Proofs about AcCard: every variable keeps its type, and a card that     *)
(* reports success has just found every kept setting on the unit itself,   *)
(* a card that turns a well-behaved unit on outlasts its window, and every *)
(* card ends within 256 of its own steps.                                  *)
(***************************************************************************)
EXTENDS AcCard, TLAPS

\* The place of each setting in _AC_STEPS.
LEMMA RankOf ==
  /\ Settings = {"power", "mode", "temperature", "fan", "direction",
                 "air_purify", "convenient"}
  /\ Rank("power") = 1 /\ Rank("mode") = 2 /\ Rank("temperature") = 3
  /\ Rank("fan") = 4 /\ Rank("direction") = 5 /\ Rank("air_purify") = 6
  /\ Rank("convenient") = 7
  /\ \A s \in Settings : Rank(s) \in 1..7
<1>1. DOMAIN Order = 1..7
  BY DEF Order
<1>2. Settings = {"power", "mode", "temperature", "fan", "direction",
                  "air_purify", "convenient"}
  BY <1>1 DEF Settings, Order
<1>3. ASSUME NEW i \in 1..7
      PROVE  Rank(Order[i]) = i
  <2>1. \A j \in 1..7 : Order[j] = Order[i] => j = i
    BY DEF Order
  <2>2. i \in DOMAIN Order /\ Order[i] = Order[i]
    BY <1>1
  <2>3. Rank(Order[i]) \in DOMAIN Order /\ Order[Rank(Order[i])] = Order[i]
    BY <2>2 DEF Rank
  <2> QED
    BY <1>1, <2>1, <2>3
<1>4. /\ Order[1] = "power" /\ Order[2] = "mode" /\ Order[3] = "temperature"
      /\ Order[4] = "fan" /\ Order[5] = "direction" /\ Order[6] = "air_purify"
      /\ Order[7] = "convenient"
  BY DEF Order
<1>5. /\ Rank("power") = 1 /\ Rank("mode") = 2 /\ Rank("temperature") = 3
      /\ Rank("fan") = 4 /\ Rank("direction") = 5 /\ Rank("air_purify") = 6
      /\ Rank("convenient") = 7
  BY <1>3, <1>4
<1>6. \A s \in Settings : Rank(s) \in 1..7
  BY <1>2, <1>5
<1> QED
  BY <1>2, <1>5, <1>6

\* A non-empty set of settings has a first one.
LEMMA HasFirst ==
  ASSUME NEW S \in SUBSET Settings, S # {}
  PROVE  \E s \in S : \A t \in S : Rank(s) <= Rank(t)
<1>1. CASE "power" \in S
  BY <1>1, RankOf
<1>2. CASE "power" \notin S /\ "mode" \in S
  BY <1>2, RankOf
<1>3. CASE {"power", "mode"} \cap S = {} /\ "temperature" \in S
  BY <1>3, RankOf
<1>4. CASE {"power", "mode", "temperature"} \cap S = {} /\ "fan" \in S
  BY <1>4, RankOf
<1>5. CASE {"power", "mode", "temperature", "fan"} \cap S = {} /\ "direction" \in S
  BY <1>5, RankOf
<1>6. CASE /\ {"power", "mode", "temperature", "fan", "direction"} \cap S = {}
           /\ "air_purify" \in S
  BY <1>6, RankOf
<1>7. CASE S = {"convenient"}
  BY <1>7, RankOf
<1> QED
  BY <1>1, <1>2, <1>3, <1>4, <1>5, <1>6, <1>7, RankOf

\* A pass with work left always has a setting to write next.
LEMMA FirstIsMember ==
  ASSUME NEW S \in SUBSET Settings, S # {}
  PROVE  First(S) \in S
BY HasFirst DEF First

\* Starting the next setting keeps a pass within what is wanted, and leaves it
\* with work exactly when there is something to write.
LEMMA AdvanceKeepsTypes ==
  ASSUME TypeOK, NEW rest \in SUBSET wanted, NEW now, Advance(rest, now)
  PROVE  /\ pc' \in {"write", "recheck"} /\ todo' \subseteq rest
         /\ pc' = "write" => todo' # {}
         /\ attempt' = 1
<1> DEFINE left == IF round = 0 THEN Differ(rest, now) ELSE rest
<1>1. left \subseteq rest /\ rest \subseteq Settings
  BY CardAssumption DEF Differ, TypeOK
<1>2. CASE left = {}
  BY <1>2 DEF Advance, NextPass
<1>3. CASE left # {}
  <2>1. First(left) \in left
    BY <1>1, <1>3, FirstIsMember
  <2>2. Rank(First(left)) \in 1..7
    BY <1>1, <2>1, RankOf
  <2>3. pc' = "write" /\ todo' = {s \in rest : Rank(s) >= Rank(First(left))}
        /\ attempt' = 1
    BY <1>3 DEF Advance
  <2> QED
    BY <1>1, <2>1, <2>2, <2>3
<1> QED
  BY <1>2, <1>3

-----------------------------------------------------------------------------
(* Type correctness. *)

\* What a unit holds stays well typed when one setting changes.
LEMMA UnitsUpdate ==
  ASSUME NEW h \in Units, NEW s \in Settings, NEW v \in Domain[s]
  PROVE  [h EXCEPT ![s] = v] \in Units
BY DEF Units

\* Whatever the unit does with a write, it ends up holding values it can hold.
LEMMA TakenIsUnit ==
  ASSUME TypeOK, NEW s \in Settings, NEW v \in Domain[s]
  PROVE  Taken(s, v) \in Units
<1>1. held \in Units /\ "mode" \in Settings /\ "convenient" \in Settings
  BY RankOf DEF TypeOK
<1>2. CASE s = "mode" /\ ~Honours(v, "convenient", held["convenient"])
  <2>1. [held EXCEPT !["mode"] = v] \in Units
    BY <1>1, <1>2, UnitsUpdate
  <2>2. "Off" \in Domain["convenient"]
    BY CardAssumption
  <2>3. [[held EXCEPT !["mode"] = v] EXCEPT !["convenient"] = "Off"] \in Units
    BY <1>1, <2>1, <2>2, UnitsUpdate
  <2> QED
    BY <1>2, <2>3 DEF Taken
<1>3. CASE /\ ~(s = "mode" /\ ~Honours(v, "convenient", held["convenient"]))
           /\ s = "convenient" /\ ~Honours(held["mode"], s, v)
  <2>1. [held EXCEPT ![s] = v] \in Units
    BY <1>1, UnitsUpdate
  <2>2. "Cool" \in Domain["mode"]
    BY CardAssumption
  <2>3. [[held EXCEPT ![s] = v] EXCEPT !["mode"] = "Cool"] \in Units
    BY <1>1, <2>1, <2>2, UnitsUpdate
  <2> QED
    BY <1>3, <2>3 DEF Taken
<1>4. CASE /\ ~(s = "mode" /\ ~Honours(v, "convenient", held["convenient"]))
           /\ ~(s = "convenient" /\ ~Honours(held["mode"], s, v))
  <2>1. [held EXCEPT ![s] = v] \in Units
    BY <1>1, UnitsUpdate
  <2> QED
    BY <1>1, <1>4, <2>1 DEF Taken
<1> QED
  BY <1>2, <1>3, <1>4

\* Switching the unit on opens its window; every other write leaves it alone.
LEMMA TakesKeepsTypes ==
  ASSUME TypeOK, NEW s \in Settings, NEW v \in Domain[s], Takes(s, v)
  PROVE  held' \in Units /\ boot' \in 0..BootWaits /\ restores' \in Domain["mode"]
<1>1. held' \in Units
  BY TakenIsUnit DEF Takes
<1>2. held["mode"] \in Domain["mode"]
  BY RankOf DEF TypeOK, Units
<1> QED
  BY <1>1, <1>2, BoundsAssumption DEF Takes, TypeOK

\* Every initial state is well typed.
LEMMA TypeInit == Init => TypeOK
<1> SUFFICES ASSUME Init PROVE TypeOK
  OBVIOUS
<1>1. held \in Units /\ shown \in Units
  BY CardAssumption DEF Init
<1>2. held["mode"] \in Domain["mode"]
  BY <1>1, RankOf DEF Units
<1>3. /\ pc = "start" /\ request \in Requests /\ wanted = {} /\ todo = {}
      /\ attempt = 1 /\ round = 0 /\ boot = 0 /\ restores = held["mode"] /\ whims = 0
  BY DEF Init
<1>4. refused \in BOOLEAN
  BY DEF Init
<1>5. wanted \subseteq DOMAIN request /\ todo \subseteq wanted
  BY <1>3
<1>6. boot \in 0..BootWaits /\ whims \in 0..MaxWhims
  BY <1>3, BoundsAssumption
<1>7. attempt \in 1..Attempts /\ round \in 0..ReconcileRounds
  BY <1>3 DEF Attempts, ReconcileRounds
<1>8. pc \in {"start", "write", "settle", "reread", "recheck", "ok", "failed"}
      /\ pc \notin {"write", "settle", "reread"}
  BY <1>3
<1> QED
  BY <1>1, <1>2, <1>3, <1>4, <1>5, <1>6, <1>7, <1>8 DEF TypeOK

\* The setting a card is about to write is one it was asked for.
LEMMA CurrentSetting ==
  ASSUME TypeOK, pc \in {"write", "settle", "reread"}
  PROVE  /\ First(todo) \in todo /\ First(todo) \in Settings
         /\ request[First(todo)] \in Domain[First(todo)]
<1>1. todo # {} /\ todo \subseteq DOMAIN request /\ DOMAIN request \subseteq Settings
  BY CardAssumption DEF TypeOK
<1>2. First(todo) \in todo
  BY <1>1, FirstIsMember
<1> QED
  BY <1>1, <1>2, CardAssumption DEF TypeOK

\* Every step keeps the state well typed, one case per action.
LEMMA TypeStep == TypeOK /\ [Next]_vars => TypeOK'
<1> SUFFICES ASSUME TypeOK, [Next]_vars PROVE TypeOK'
  OBVIOUS
<1>0. refused' \in BOOLEAN
  <2>1. refused \in BOOLEAN
    BY DEF TypeOK
  <2>2. refused' = refused \/ refused' = FALSE \/ refused' = TRUE
    <3>1. CASE Begin \/ Settle \/ RefreshFails \/ Operated \/ Polled \/ UNCHANGED vars
      BY <3>1 DEF Begin, Settle, RefreshFails, Operated, Polled, vars, cardVars
    <3>2. CASE NothingToWrite \/ WriteAccepted \/ Recheck
      BY <3>2 DEF NothingToWrite, WriteAccepted, Recheck
    <3>3. CASE WriteRefused
      BY <3>3 DEF WriteRefused, AfterRefusal, GiveUp, Advance
    <3>4. CASE Reread
      BY <3>4 DEF Reread, GiveUp, Advance
    <3> QED
      BY <3>1, <3>2, <3>3, <3>4 DEF Next, Card
  <2> QED
    BY <2>1, <2>2
<1> USE DEF Attempts, ReconcileRounds
<1>1. CASE Begin
  <2> DEFINE left == Differ(wanted', held)
  <2>1. wanted' \subseteq DOMAIN request /\ DOMAIN request \subseteq Settings
    BY <1>1, CardAssumption DEF Begin, Kept, TypeOK
  <2>2. left \subseteq wanted' /\ left \subseteq Settings
    BY <2>1 DEF Differ
  <2>3. todo' \subseteq wanted' /\ pc' \in {"ok", "write"} /\ (pc' = "write" => todo' # {})
    <3>1. CASE left = {}
      BY <1>1, <3>1 DEF Begin
    <3>2. CASE left # {}
      <4>1. First(left) \in left /\ Rank(First(left)) \in 1..7
        BY <2>2, <3>2, FirstIsMember, RankOf
      <4>2. pc' = "write" /\ todo' = {s \in wanted' : Rank(s) >= Rank(First(left))}
        BY <1>1, <3>2 DEF Begin
      <4> QED
        BY <2>2, <4>1, <4>2
    <3> QED
      BY <3>1, <3>2
  <2>4. shown' \in Units
    BY <1>1 DEF Begin, TypeOK
  <2> QED
    BY <1>1, <2>1, <2>3, <2>4 DEF Begin, TypeOK, unitVars
<1>2. CASE NothingToWrite
  BY <1>2 DEF NothingToWrite, TypeOK, unitVars
<1>3. CASE WriteAccepted
  <2> DEFINE s == First(todo)
  <2>1. s \in todo /\ s \in Settings /\ request[s] \in Domain[s]
    BY <1>3, CurrentSetting DEF WriteAccepted, Writing
  <2>2. shown' \in Units
    BY <1>3, <2>1, UnitsUpdate DEF WriteAccepted, TypeOK
  <2>3. held' \in Units /\ boot' \in 0..BootWaits /\ restores' \in Domain["mode"]
        /\ whims' \in 0..MaxWhims
    <3>1. CASE Takes(s, request[s]) /\ UNCHANGED whims
      BY <3>1, <2>1, TakesKeepsTypes DEF TypeOK
    <3>2. CASE Whim /\ UNCHANGED unitVars
      BY <3>2, BoundsAssumption DEF Whim, unitVars, TypeOK
    <3> QED
      BY <1>3, <3>1, <3>2 DEF WriteAccepted
  <2> QED
    BY <1>3, <2>1, <2>2, <2>3 DEF WriteAccepted, Writing, TypeOK
<1>4. CASE WriteRefused
  <2> DEFINE s == First(todo)
  <2>1. s \in todo /\ s \in Settings /\ request[s] \in Domain[s]
    BY <1>4, CurrentSetting DEF WriteRefused, Writing
  <2>2. held' \in Units /\ boot' \in 0..BootWaits /\ restores' \in Domain["mode"]
        /\ whims' \in 0..MaxWhims
    <3>1. CASE UNCHANGED <<unitVars, whims>>
      BY <3>1 DEF unitVars, TypeOK
    <3>2. CASE Whim /\ UNCHANGED unitVars
      BY <3>2, BoundsAssumption DEF Whim, unitVars, TypeOK
    <3>3. CASE Whim /\ Takes(s, request[s])
      BY <3>3, <2>1, TakesKeepsTypes, BoundsAssumption DEF Whim, TypeOK
    <3> QED
      BY <1>4, <3>1, <3>2, <3>3 DEF WriteRefused
  <2>3. /\ pc' \in {"settle", "failed", "write", "recheck"} /\ todo' \subseteq wanted
        /\ pc' \in {"write", "settle"} => todo' # {}
        /\ attempt' \in 1..4
    <3>1. CASE attempt < Attempts
      BY <1>4, <2>1, <3>1 DEF WriteRefused, AfterRefusal, TypeOK
    <3>2. CASE ~(attempt < Attempts) /\ round = 0
      BY <1>4, <3>2 DEF WriteRefused, AfterRefusal, GiveUp, TypeOK
    <3>3. CASE ~(attempt < Attempts) /\ round # 0
      <4>1. After(todo, s) \in SUBSET wanted
        BY DEF After, TypeOK
      <4>2. Advance(After(todo, s), shown')
        BY <1>4, <3>3 DEF WriteRefused, AfterRefusal, GiveUp
      <4>3. /\ pc' \in {"write", "recheck"} /\ todo' \subseteq After(todo, s)
            /\ pc' = "write" => todo' # {}
            /\ attempt' = 1
        BY <4>1, <4>2, AdvanceKeepsTypes
      <4> QED
        BY <4>1, <4>3
    <3> QED
      BY <3>1, <3>2, <3>3
  <2> QED
    BY <1>4, <1>0, <2>2, <2>3 DEF WriteRefused, TypeOK
<1>5. CASE Settle
  <2>1. [held EXCEPT !["mode"] = restores] \in Units
    BY UnitsUpdate, RankOf DEF TypeOK
  <2> QED
    BY <1>5, <2>1, BoundsAssumption DEF Settle, TypeOK
<1>6. CASE Reread
  <2> DEFINE s == First(todo)  rest == After(todo, s)
  <2>1. s \in todo
    BY <1>6, CurrentSetting DEF Reread
  <2>2. rest \in SUBSET wanted
    BY DEF After, TypeOK
  <2>3. /\ pc' \in {"write", "recheck", "failed"} /\ todo' \subseteq wanted
        /\ pc' = "write" => todo' # {}
        /\ attempt' \in 1..4
    <3>1. CASE Advance(rest, held)
      <4>1. /\ pc' \in {"write", "recheck"} /\ todo' \subseteq rest
            /\ pc' = "write" => todo' # {}
            /\ attempt' = 1
        BY <2>2, <3>1, AdvanceKeepsTypes
      <4> QED
        BY <2>2, <4>1
    <3>2. CASE Advance(rest, shown')
      <4>1. /\ pc' \in {"write", "recheck"} /\ todo' \subseteq rest
            /\ pc' = "write" => todo' # {}
            /\ attempt' = 1
        BY <2>2, <3>2, AdvanceKeepsTypes
      <4> QED
        BY <2>2, <4>1
    <3>3. CASE /\ attempt < Attempts /\ pc' = "write" /\ attempt' = attempt + 1
               /\ UNCHANGED todo
      BY <2>1, <3>3 DEF TypeOK
    <3>4. CASE pc' = "failed" /\ UNCHANGED <<todo, attempt>>
      BY <3>4 DEF TypeOK
    <3> QED
      BY <1>6, <3>1, <3>2, <3>3, <3>4 DEF Reread, GiveUp
  <2> QED
    BY <1>6, <1>0, <2>3 DEF Reread, TypeOK, unitVars
<1>7. CASE Recheck
  <2>1. Differ(wanted, held) \subseteq wanted
    BY DEF Differ
  <2>2. /\ pc' \in {"ok", "failed", "write"} /\ todo' \subseteq wanted
        /\ pc' = "write" => todo' # {}
        /\ round' \in 0..2 /\ attempt' \in 1..4
    BY <1>7, <2>1 DEF Recheck, Round, TypeOK
  <2> QED
    BY <1>7, <1>0, <2>2 DEF Recheck, TypeOK, unitVars
<1>8. CASE RefreshFails
  BY <1>8, BoundsAssumption DEF RefreshFails, Whim, TypeOK, unitVars
<1>9. CASE Operated
  <2>1. held' \in Units
    BY <1>9, UnitsUpdate DEF Operated, TypeOK
  <2> QED
    BY <1>9, <2>1, BoundsAssumption DEF Operated, Whim, cardVars, TypeOK
<1>10. CASE Polled
  BY <1>10 DEF Polled, cardVars, unitVars, TypeOK
<1>11. CASE UNCHANGED vars
  BY <1>11 DEF vars, cardVars, unitVars, TypeOK
<1> QED
  BY <1>1, <1>2, <1>3, <1>4, <1>5, <1>6, <1>7, <1>8, <1>9, <1>10, <1>11 DEF Next, Card

\* Type correctness: whatever the unit does, attempts and rounds stay in their
\* budget and the card never waits for a write with nothing left to write.
THEOREM TypeCorrect == Spec => []TypeOK
<1> QED
  BY TypeInit, TypeStep, PTL DEF Spec

-----------------------------------------------------------------------------
(* Success. *)

\* A card that reports success has found every kept setting on the unit in the
\* very step that ends it: no other step ends a card well.
THEOREM CardSuccessIsConfirmed == Spec => SuccessIsConfirmed
<1>1. ASSUME [Next]_vars, pc # "ok", pc' = "ok"
      PROVE  \A s \in wanted' : held[s] = request[s]
  <2>1. CASE Begin
    <3>1. Differ(wanted', held) = {}
      BY <1>1, <2>1 DEF Begin
    <3> QED
      BY <3>1 DEF Differ
  <2>2. CASE Recheck
    <3>1. Differ(wanted, held) = {} /\ wanted' = wanted
      BY <1>1, <2>2 DEF Recheck, Round
    <3> QED
      BY <3>1 DEF Differ
  <2>3. CASE NothingToWrite \/ WriteAccepted \/ Settle \/ RefreshFails
    BY <1>1, <2>3 DEF NothingToWrite, WriteAccepted, Settle, RefreshFails
  <2>4. CASE WriteRefused
    BY <1>1, <2>4 DEF WriteRefused, AfterRefusal, GiveUp, Advance, NextPass
  <2>5. CASE Reread
    BY <1>1, <2>5 DEF Reread, GiveUp, Advance, NextPass
  <2>6. CASE Operated \/ Polled \/ UNCHANGED vars
    BY <1>1, <2>6 DEF Operated, Polled, vars, cardVars
  <2> QED
    BY <1>1, <2>1, <2>2, <2>3, <2>4, <2>5, <2>6 DEF Next, Card
<1>2. [Next]_vars => [(pc # "ok" /\ pc' = "ok") => \A s \in wanted' : held[s] = request[s]]_vars
  BY <1>1
<1> QED
  BY <1>2, PTL DEF Spec, SuccessIsConfirmed

-----------------------------------------------------------------------------
(* The power-on window.  A card that the property is about never fails:    *)
(* every settle wait brings the unit closer to the end of its window, so   *)
(* that the last attempt of each setting finds it ready, and what the      *)
(* window can undo afterwards is the mode alone, which one round repairs.  *)

Calm ==
  /\ whims = 0 /\ ~Clashing
  /\ "power" \in DOMAIN request /\ request["power"] = "on"
  /\ DOMAIN request \cap {"temperature", "fan"} = {}

\* What the card has left behind it holds, the mode excepted.
HoldsBehind == \A s \in wanted \ (todo \cup {"mode"}) : held[s] = request[s]

\* Only kept settings are on the way, and their comfort mode suits their mode.
KeptRight ==
  /\ "power" \in wanted
  /\ ("mode" \in wanted /\ "convenient" \in wanted)
        => Accepts(request["mode"], "convenient", request["convenient"])

\* A reconcile pass is about the mode, and there is one of them.
OneRound == round <= 1 /\ (round = 1 => todo \subseteq {"mode"})

AtWrite ==
  /\ shown = held
  /\ IF "power" \in todo
     THEN round = 0 /\ attempt = 1 /\ boot = 0 /\ held["power"] = "off"
     ELSE boot <= 4 - attempt

AtSettle ==
  /\ IF "power" \in todo THEN attempt = 1 /\ ~refused /\ boot <= 4 ELSE boot <= 4 - attempt
  /\ refused => attempt <= 3
  /\ ~refused => held[First(todo)] = request[First(todo)]

AtReread ==
  /\ IF "power" \in todo THEN ~refused /\ boot <= 3 ELSE boot = 0 \/ boot <= 3 - attempt
  /\ refused => attempt <= 3
  /\ (~refused /\ held[First(todo)] # request[First(todo)]) => attempt <= 3 /\ First(todo) = "mode"

AtRecheck ==
  /\ todo = {} /\ boot <= 3
  /\ (round = 1 /\ "mode" \in wanted) => held["mode"] = request["mode"]

OnTheWay ==
  /\ HoldsBehind /\ KeptRight /\ OneRound
  /\ pc = "write" => AtWrite
  /\ pc = "settle" => AtSettle
  /\ pc = "reread" => AtReread
  /\ pc = "recheck" => AtRecheck

Outlasting ==
  /\ pc = "start" => boot = 0 /\ round = 0 /\ attempt = 1 /\ ~refused /\ wanted = {}
  /\ Calm => pc # "failed" /\ (pc \in {"write", "settle", "reread", "recheck"} => OnTheWay)

\* The first setting of a pass comes before all the others.
LEMMA FirstIsLeast ==
  ASSUME NEW S \in SUBSET Settings, NEW t \in S
  PROVE  Rank(First(S)) <= Rank(t) /\ Rank(First(S)) \in 1..7 /\ Rank(t) \in 1..7
<1>1. First(S) \in S /\ Rank(First(S)) <= Rank(t)
  BY HasFirst DEF First
<1> QED
  BY <1>1, RankOf

\* Nothing shares a place.
LEMMA RankIsOwn ==
  ASSUME NEW s \in Settings, NEW t \in Settings, Rank(s) = Rank(t)
  PROVE  s = t
BY RankOf

\* Power comes first.
LEMMA PowerIsFirst ==
  ASSUME NEW S \in SUBSET Settings, "power" \in S
  PROVE  First(S) = "power"
<1>1. First(S) \in Settings /\ "power" \in Settings
  BY FirstIsMember, RankOf
<1>2. Rank(First(S)) = Rank("power")
  BY FirstIsLeast, RankOf
<1> QED
  BY <1>1, <1>2, RankIsOwn

\* Settings that no mode ignores.
LEMMA AlwaysAccepted ==
  ASSUME NEW mode, NEW v, NEW s \in {"power", "mode", "direction", "air_purify"}
  PROVE  Accepts(mode, s, v)
<1>1. \A m \in DOMAIN Blocked : s \notin Blocked[m]
  BY DEF Blocked
<1> QED
  BY <1>1 DEF Accepts

\* A kept setting is taken as it is asked for, and takes nothing with it that
\* the card has left behind.
LEMMA TakenAsAsked ==
  ASSUME TypeOK, Calm, HoldsBehind, KeptRight, pc = "write"
  PROVE  LET s == First(todo) new == Taken(s, request[s]) IN
           /\ new[s] = request[s]
           /\ \A x \in wanted \ (todo \cup {"mode"}) : new[x] = request[x]
<1> DEFINE s == First(todo)
           v == request[s]
           new == Taken(s, v)
<1>1. s \in todo /\ s \in Settings /\ s \in wanted /\ wanted \subseteq DOMAIN request
      /\ v \in Domain[s]
  BY CurrentSetting DEF TypeOK
<1>2. s \in {"power", "mode", "direction", "air_purify", "convenient"}
  BY <1>1, RankOf DEF Calm
<1>3. DOMAIN held = Settings /\ held["mode"] \in Domain["mode"]
  BY RankOf DEF TypeOK, Units
<1>4. \A m \in Domain["mode"], x \in wanted : <<m, request[x]>> \notin Clashes
  BY DEF Calm, Clashing
<1> HIDE DEF s
<1>5. CASE s = "mode"
  <2>0. Honours(held["mode"], "mode", v)
    BY <1>1, <1>3, <1>4, <1>5, AlwaysAccepted DEF Honours
  <2>1. new = [held EXCEPT !["mode"] = v, !["convenient"] = "Off"]
        \/ new = [held EXCEPT !["mode"] = v]
    BY <1>5, <2>0 DEF Taken
  <2>2. new["mode"] = v /\ \A x \in Settings \ {"mode", "convenient"} : new[x] = held[x]
    BY <2>1, <1>3, RankOf
  <2>3. "convenient" \in wanted \ todo => new["convenient"] = request["convenient"]
    <3> SUFFICES ASSUME "convenient" \in wanted \ todo
                 PROVE  new["convenient"] = request["convenient"]
      OBVIOUS
    <3>1. held["convenient"] = request["convenient"]
      BY DEF HoldsBehind
    <3>2. Honours(v, "convenient", held["convenient"])
      BY <1>1, <1>4, <1>5, <3>1 DEF Honours, KeptRight
    <3>3. new = [held EXCEPT !["mode"] = v]
      BY <1>5, <2>0, <3>2 DEF Taken
    <3> QED
      BY <1>3, <2>1, <3>1, <3>3, RankOf
  <2> QED
    BY <1>1, <1>5, <2>2, <2>3, CardAssumption DEF HoldsBehind, TypeOK, s
<1>6. CASE s = "convenient"
  <2>1. new = [held EXCEPT !["convenient"] = v, !["mode"] = "Cool"]
        \/ new = [held EXCEPT !["convenient"] = v]
    BY <1>6 DEF Taken
  <2>2. new["convenient"] = v /\ \A x \in Settings \ {"mode", "convenient"} : new[x] = held[x]
    BY <2>1, <1>3, RankOf
  <2> QED
    BY <1>1, <1>6, <2>2, CardAssumption DEF HoldsBehind, TypeOK, s
<1>7. CASE s \in {"power", "direction", "air_purify"}
  <2>1. Honours(held["mode"], s, v)
    BY <1>1, <1>3, <1>4, <1>7, AlwaysAccepted DEF Honours
  <2>2. new = [held EXCEPT ![s] = v]
    BY <1>7, <2>1 DEF Taken
  <2> QED
    BY <1>1, <1>3, <2>2, CardAssumption DEF HoldsBehind, TypeOK, s
<1> QED
  BY <1>2, <1>5, <1>6, <1>7 DEF s

\* Going on to the next setting, or to the re-check, with the current one held.
LEMMA AdvanceKeepsOn ==
  ASSUME TypeOK, HoldsBehind, KeptRight, OneRound, pc = "reread", boot <= 3,
         held[First(todo)] = request[First(todo)],
         Advance(After(todo, First(todo)), held), shown' = held,
         UNCHANGED <<request, wanted, round, held, boot>>
  PROVE  OnTheWay' /\ pc' \in {"write", "recheck"}
<1> DEFINE s == First(todo)
           rest == After(todo, s)
           left == IF round = 0 THEN Differ(rest, held) ELSE rest
<1>1. todo \subseteq wanted /\ wanted \subseteq Settings /\ s \in todo /\ s \in Settings
  BY CurrentSetting, CardAssumption DEF TypeOK
<1>2. \A t \in todo : Rank(s) <= Rank(t) /\ Rank(t) \in 1..7 /\ Rank(s) \in 1..7
  BY <1>1, FirstIsLeast
<1>3. \A t \in todo : t = s \/ t \in rest
  BY <1>1, <1>2, RankIsOwn DEF After
<1>4. rest \subseteq todo /\ "power" \notin rest
  BY <1>1, <1>2, RankOf DEF After
<1>5. left \subseteq rest
  BY DEF Differ
<1>6. KeptRight'
  BY DEF KeptRight
<1>7. CASE left = {}
  <2>1. pc' = "recheck" /\ todo' = {}
    BY <1>7 DEF Advance, NextPass
  <2>2. \A t \in wanted \ {"mode"} : held[t] = request[t]
    <3> SUFFICES ASSUME NEW t \in wanted \ {"mode"} PROVE held[t] = request[t]
      OBVIOUS
    <3>1. CASE t \notin todo
      BY <3>1 DEF HoldsBehind
    <3>2. CASE t = s
      BY <3>2
    <3>3. CASE t \in rest
      <4>1. round = 0
        BY <1>4, <1>7, <3>3 DEF OneRound
      <4> QED
        BY <1>7, <3>3, <4>1 DEF Differ
    <3> QED
      BY <1>3, <3>1, <3>2, <3>3
  <2>3. HoldsBehind' /\ OneRound'
    BY <2>1, <2>2 DEF HoldsBehind, OneRound
  <2>4. round = 1 => s = "mode"
    BY <1>1 DEF OneRound
  <2>5. AtRecheck'
    BY <2>1, <2>4 DEF AtRecheck
  <2> QED
    BY <1>6, <2>1, <2>3, <2>5 DEF OnTheWay
<1>8. CASE left # {}
  <2>1. /\ pc' = "write" /\ attempt' = 1
        /\ todo' = {t \in rest : Rank(t) >= Rank(First(left))}
    BY <1>8 DEF Advance
  <2>2. round = 0
    <3>1. round = 1 => todo \subseteq {"mode"} /\ s = "mode"
      BY <1>1 DEF OneRound
    <3>2. s \notin rest
      BY <1>2, <1>1 DEF After
    <3> QED
      BY <1>4, <1>5, <1>8, <3>1, <3>2 DEF OneRound, TypeOK
  <2>3. \A t \in left : Rank(First(left)) <= Rank(t) /\ Rank(First(left)) \in 1..7
                        /\ Rank(t) \in 1..7
    BY <1>1, <1>4, <1>5, FirstIsLeast
  <2>4. \A t \in rest \ todo' : held[t] = request[t]
    BY <2>1, <2>2, <2>3 DEF Differ
  <2>5. HoldsBehind'
    BY <1>3, <2>4 DEF HoldsBehind
  <2>6. OneRound' /\ todo' \subseteq rest
    BY <2>1, <2>2 DEF OneRound
  <2>7. AtWrite'
    BY <1>4, <2>1, <2>6 DEF AtWrite
  <2> QED
    BY <1>6, <2>1, <2>5, <2>6, <2>7 DEF OnTheWay
<1> QED
  BY <1>7, <1>8

\* Only the start of the card decides what it keeps, and a whim is not undone.
LEMMA StaysCalm ==
  ASSUME TypeOK, TypeOK', [Next]_vars, Calm'
  PROVE  /\ ~Whim /\ whims = 0
         /\ pc # "start" => Calm /\ UNCHANGED <<request, wanted>>
<1>1. whims \in Nat /\ whims' = 0
  BY BoundsAssumption DEF TypeOK, Calm
<1>2. ~Whim
  BY <1>1 DEF Whim
<1>3. whims = 0
  BY <1>1, <1>2 DEF Next, Card, Begin, NothingToWrite, WriteAccepted, WriteRefused, Settle,
         Reread, Recheck, RefreshFails, Operated, Polled, vars
<1>4. pc # "start" => UNCHANGED <<request, wanted>>
  BY DEF Next, Card, Begin, NothingToWrite, WriteAccepted, WriteRefused, Settle, Reread,
         Recheck, RefreshFails, Operated, Polled, vars, cardVars
<1>5. pc # "start" => Calm
  BY <1>3, <1>4 DEF Calm, Clashing
<1> QED
  BY <1>2, <1>3, <1>4, <1>5

\* The start finds no window open, and leaves nothing behind that differs.
LEMMA BeginOutlasts ==
  ASSUME TypeOK, TypeOK', Outlasting, Begin, Calm', pc' = "write"
  PROVE  OnTheWay'
<1> DEFINE left == Differ(wanted', held)
<1>1. /\ boot = 0 /\ round = 0 /\ attempt = 1
      /\ shown' = held /\ wanted' = Kept(request, held)
      /\ UNCHANGED <<request, attempt, refused, round, held, boot>>
  BY DEF Begin, Outlasting, unitVars
<1>2. /\ left # {} /\ todo' = {s \in wanted' : Rank(s) >= Rank(First(left))}
  BY DEF Begin
<1>3. left \subseteq wanted' /\ wanted' \subseteq Settings
  BY CardAssumption DEF TypeOK, Differ
<1>4. \A t \in left : Rank(First(left)) <= Rank(t)
  BY <1>3, FirstIsLeast
<1>5. First(left) \in left /\ Rank(First(left)) \in 1..7 /\ \A t \in wanted' : Rank(t) \in 1..7
  BY <1>2, <1>3, FirstIsMember, RankOf
<1>6. HoldsBehind'
  <2>1. \A t \in wanted' \ todo' : held[t] = request[t]
    BY <1>2, <1>4, <1>5 DEF Differ
  <2> QED
    BY <1>1, <2>1 DEF HoldsBehind
<1>7. KeptRight'
  BY <1>1 DEF KeptRight, Calm, Kept
<1>8. AtWrite'
  <2>1. CASE "power" \in todo'
    <3>1. Rank(First(left)) <= 1
      BY <1>2, <2>1, RankOf
    <3>2. First(left) = "power"
      <4>1. First(left) \in Settings /\ "power" \in Settings
        BY <1>3, <1>5, RankOf
      <4>2. Rank(First(left)) = 1 /\ Rank("power") = 1
        BY <1>5, <3>1, RankOf
      <4> HIDE DEF left
      <4> QED
        BY <4>1, <4>2, RankIsOwn
    <3>3. held["power"] # "on"
      BY <1>1, <1>5, <3>2 DEF Differ, Calm
    <3>4. held["power"] \in Domain["power"]
      BY RankOf DEF TypeOK, Units
    <3> QED
      BY <1>1, <2>1, <3>3, <3>4, CardAssumption DEF AtWrite
  <2>2. CASE "power" \notin todo'
    BY <1>1, <2>2 DEF AtWrite
  <2> QED
    BY <2>1, <2>2
<1> QED
  BY <1>1, <1>6, <1>7, <1>8 DEF OnTheWay, OneRound

\* A write that is sent is taken, and only power opens the window.
LEMMA WriteOutlasts ==
  ASSUME TypeOK, TypeOK', Calm, OnTheWay, ~Whim, BootWaits <= Attempts,
         NothingToWrite \/ WriteAccepted
  PROVE  OnTheWay' /\ pc' = "settle"
<1> DEFINE s == First(todo)
<1>1. /\ pc = "write" /\ AtWrite /\ HoldsBehind /\ KeptRight /\ OneRound
      /\ pc' = "settle" /\ refused' = FALSE
      /\ UNCHANGED <<request, wanted, todo, attempt, round>>
  BY DEF NothingToWrite, WriteAccepted, Writing, OnTheWay
<1>2. KeptRight' /\ OneRound'
  BY <1>1 DEF KeptRight, OneRound
<1>3. attempt \in 1..4
  BY DEF TypeOK, Attempts
<1>4. "power" \in todo <=> s = "power"
  BY <1>1, CurrentSetting, PowerIsFirst, CardAssumption DEF TypeOK
<1>5. CASE NothingToWrite
  <2>1. held[s] = request[s] /\ UNCHANGED <<held, boot>>
    BY <1>1, <1>5 DEF NothingToWrite, AtWrite, unitVars
  <2>2. "power" \notin todo
    BY <1>1, <1>4, <2>1 DEF AtWrite, Calm
  <2>3. HoldsBehind' /\ AtSettle'
    BY <1>1, <2>1, <2>2 DEF HoldsBehind, AtSettle, AtWrite
  <2> QED
    BY <1>1, <1>2, <2>3 DEF OnTheWay
<1>6. CASE WriteAccepted
  <2>1. Takes(s, request[s])
    BY <1>6 DEF WriteAccepted
  <2>2. /\ held'[s] = request[s]
        /\ \A x \in wanted \ (todo \cup {"mode"}) : held'[x] = request[x]
    BY <1>1, <2>1, TakenAsAsked DEF Takes
  <2>3. IF "power" \in todo THEN boot' = BootWaits ELSE boot' = boot
    BY <1>1, <1>4, <2>1 DEF Takes, AtWrite, Calm
  <2>4. HoldsBehind'
    BY <1>1, <2>2 DEF HoldsBehind
  <2>5. AtSettle'
    BY <1>1, <2>2, <2>3 DEF AtSettle, AtWrite, Attempts
  <2> QED
    BY <1>1, <1>2, <2>4, <2>5 DEF OnTheWay
<1> QED
  BY <1>5, <1>6

\* A unit that refuses is still in its window, so that attempts are left.
LEMMA RefusalOutlasts ==
  ASSUME TypeOK, TypeOK', Calm, OnTheWay, ~Whim, WriteRefused
  PROVE  OnTheWay' /\ pc' = "settle"
<1> DEFINE s == First(todo)
<1>1. /\ pc = "write" /\ AtWrite /\ HoldsBehind /\ KeptRight /\ OneRound
      /\ MayRefuse(s) /\ AfterRefusal
      /\ UNCHANGED <<request, wanted, round, held, boot>>
  BY DEF WriteRefused, Writing, OnTheWay, unitVars
<1>2. "power" \notin todo
  BY <1>1, PowerIsFirst, CardAssumption DEF MayRefuse, TypeOK
<1>3. held["power"] = "on"
  BY <1>1, <1>2 DEF HoldsBehind, KeptRight, Calm
<1>4. boot > 0 /\ boot <= 4 - attempt /\ boot \in Nat /\ attempt \in 1..4
  BY <1>1, <1>2, <1>3, BoundsAssumption DEF MayRefuse, AtWrite, TypeOK, Attempts
<1>5. attempt <= 3
  BY <1>4
<1>6. pc' = "settle" /\ refused' = TRUE /\ UNCHANGED <<todo, attempt>>
  BY <1>1, <1>4, <1>5 DEF AfterRefusal, Attempts
<1>7. HoldsBehind' /\ KeptRight' /\ OneRound'
  BY <1>1, <1>6 DEF HoldsBehind, KeptRight, OneRound
<1>8. AtSettle'
  BY <1>1, <1>2, <1>4, <1>5, <1>6 DEF AtSettle
<1> QED
  BY <1>6, <1>7, <1>8 DEF OnTheWay

\* A settle wait brings the window's end closer; what it may undo is the mode.
LEMMA SettleOutlasts ==
  ASSUME TypeOK, TypeOK', Calm, OnTheWay, Settle
  PROVE  OnTheWay' /\ pc' = "reread"
<1> DEFINE s == First(todo)
<1>1. /\ pc = "settle" /\ AtSettle /\ HoldsBehind /\ KeptRight /\ OneRound
      /\ pc' = "reread" /\ boot' = (IF boot > 0 THEN boot - 1 ELSE 0)
      /\ UNCHANGED <<request, wanted, todo, attempt, refused, round>>
  BY DEF Settle, OnTheWay
<1>2. boot \in Nat /\ attempt \in 1..4 /\ s \in Settings
  BY <1>1, CurrentSetting, BoundsAssumption DEF TypeOK, Attempts
<1>3. \A x \in Settings \ {"mode"} : held'[x] = held[x]
  BY DEF Settle, TypeOK, Units
<1>4. boot = 0 => held' = held
  BY <1>1 DEF Settle
<1>5. HoldsBehind'
  BY <1>1, <1>3, CardAssumption DEF HoldsBehind, TypeOK
<1>6. KeptRight' /\ OneRound'
  BY <1>1 DEF KeptRight, OneRound
<1>7. boot > 0 => attempt <= 3
  BY <1>1, <1>2 DEF AtSettle
<1>8. ~refused /\ held'[s] # request[s] => boot > 0 /\ s = "mode"
  <2>1. ~refused => held[s] = request[s]
    BY <1>1 DEF AtSettle
  <2>2. held'[s] # held[s] => boot > 0 /\ s = "mode"
    BY <1>2, <1>3, <1>4
  <2> QED
    BY <2>1, <2>2
<1>9. IF "power" \in todo THEN ~refused /\ boot' <= 3 ELSE boot' = 0 \/ boot' <= 3 - attempt
  BY <1>1, <1>2 DEF AtSettle
<1>10. AtReread'
  BY <1>1, <1>7, <1>8, <1>9 DEF AtReread, AtSettle
<1> QED
  BY <1>1, <1>5, <1>6, <1>10 DEF OnTheWay

\* A re-read goes on, or tries again while attempts are left.
LEMMA RereadOutlasts ==
  ASSUME TypeOK, TypeOK', Calm, OnTheWay, Reread
  PROVE  OnTheWay' /\ pc' \in {"write", "recheck"}
<1> DEFINE s == First(todo)
           rest == After(todo, s)
<1>1. /\ pc = "reread" /\ AtReread /\ HoldsBehind /\ KeptRight /\ OneRound
      /\ shown' = held /\ UNCHANGED <<request, wanted, round, held, boot>>
  BY DEF Reread, OnTheWay, unitVars
<1>2. boot \in Nat /\ attempt \in 1..4
  BY BoundsAssumption DEF TypeOK, Attempts
<1>3. CASE ~refused /\ held[s] = request[s]
  <2>1. boot <= 3
    BY <1>1, <1>2 DEF AtReread
  <2>2. Advance(rest, held)
    BY <1>3 DEF Reread
  <2> QED
    BY <1>1, <1>3, <2>1, <2>2, AdvanceKeepsOn
<1>4. CASE ~(~refused /\ held[s] = request[s])
  <2>1. attempt <= 3 /\ "power" \notin todo
    BY <1>1, <1>4, PowerIsFirst, CardAssumption DEF AtReread, TypeOK
  <2>2. pc' = "write" /\ attempt' = attempt + 1 /\ UNCHANGED todo
    BY <1>2, <1>4, <2>1 DEF Reread, Attempts
  <2>3. HoldsBehind' /\ KeptRight' /\ OneRound'
    BY <1>1, <2>2 DEF HoldsBehind, KeptRight, OneRound
  <2>4. AtWrite'
    BY <1>1, <1>2, <2>1, <2>2 DEF AtWrite, AtReread
  <2> QED
    BY <2>2, <2>3, <2>4 DEF OnTheWay
<1> QED
  BY <1>3, <1>4

\* The re-check finds nothing, or the mode, and the mode once.
LEMMA RecheckOutlasts ==
  ASSUME TypeOK, TypeOK', Calm, OnTheWay, Recheck
  PROVE  pc' = "ok" \/ (OnTheWay' /\ pc' = "write")
<1> DEFINE drifted == Differ(wanted, held)
<1>1. /\ pc = "recheck" /\ AtRecheck /\ HoldsBehind /\ KeptRight /\ OneRound
      /\ shown' = held /\ attempt' = 1 /\ Round(drifted)
      /\ UNCHANGED <<request, wanted, held, boot>>
  BY DEF Recheck, OnTheWay, unitVars
<1>2. drifted \subseteq {"mode"}
  BY <1>1 DEF Differ, HoldsBehind, AtRecheck
<1>3. CASE drifted = {}
  BY <1>1, <1>3 DEF Round
<1>4. CASE drifted # {}
  <2>1. round = 0
    BY <1>1, <1>2, <1>4 DEF Differ, AtRecheck, OneRound, TypeOK
  <2>2. pc' = "write" /\ todo' = drifted /\ round' = 1
    BY <1>1, <1>4, <2>1 DEF Round, ReconcileRounds
  <2>3. HoldsBehind'
    BY <1>1, <2>2 DEF HoldsBehind, Differ
  <2>4. KeptRight' /\ OneRound'
    BY <1>1, <1>2, <2>2 DEF KeptRight, OneRound
  <2>5. AtWrite'
    BY <1>1, <1>2, <2>2 DEF AtWrite, AtRecheck
  <2> QED
    BY <2>2, <2>3, <2>4, <2>5 DEF OnTheWay
<1> QED
  BY <1>3, <1>4

\* Every step keeps a calm card on its way, one case per action.
LEMMA OutlastingStep ==
  ASSUME TypeOK, TypeOK', Outlasting, [Next]_vars, BootWaits <= Attempts
  PROVE  Outlasting'
<1>1. pc' = "start" =>
        boot' = 0 /\ round' = 0 /\ attempt' = 1 /\ ~refused' /\ wanted' = {}
  <2>1. pc' = "start" => pc = "start" /\ UNCHANGED <<boot, round, attempt, refused, wanted>>
    BY DEF Next, Card, Begin, NothingToWrite, WriteAccepted, WriteRefused, AfterRefusal,
           GiveUp, Advance, NextPass, Settle, Reread, Recheck, Round, RefreshFails, Operated,
           Polled, vars, cardVars, unitVars
  <2> QED
    BY <2>1 DEF Outlasting
<1>2. ASSUME Calm'
      PROVE  /\ pc' # "failed"
             /\ pc' \in {"write", "settle", "reread", "recheck"} => OnTheWay'
  <2>1. ~Whim /\ whims = 0 /\ (pc # "start" => Calm /\ UNCHANGED <<request, wanted>>)
    BY <1>2, StaysCalm
  <2>2. pc # "start" => /\ pc # "failed"
                        /\ pc \in {"write", "settle", "reread", "recheck"} => OnTheWay
    BY <2>1 DEF Outlasting
  <2>3. CASE Begin
    BY <1>2, <2>3, BeginOutlasts DEF Begin
  <2>4. CASE NothingToWrite \/ WriteAccepted
    BY <2>1, <2>2, <2>4, WriteOutlasts DEF NothingToWrite, WriteAccepted, Writing
  <2>5. CASE WriteRefused
    BY <2>1, <2>2, <2>5, RefusalOutlasts DEF WriteRefused, Writing
  <2>6. CASE Settle
    BY <2>1, <2>2, <2>6, SettleOutlasts DEF Settle
  <2>7. CASE Reread
    BY <2>1, <2>2, <2>7, RereadOutlasts DEF Reread
  <2>8. CASE Recheck
    BY <2>1, <2>2, <2>8, RecheckOutlasts DEF Recheck
  <2>9. CASE RefreshFails \/ Operated
    BY <2>1, <2>9 DEF RefreshFails, Operated
  <2>10. CASE Polled
    <3>1. UNCHANGED <<pc, request, wanted, todo, attempt, refused, round, held, boot>>
          /\ shown' = held
      BY <2>10 DEF Polled, cardVars, unitVars
    <3>2. CASE pc \in {"write", "settle", "reread", "recheck"}
      <4>1. OnTheWay
        BY <2>2, <3>2
      <4>2. OnTheWay'
        BY <3>1, <4>1 DEF OnTheWay, HoldsBehind, KeptRight, OneRound, AtWrite, AtSettle,
                          AtReread, AtRecheck
      <4> QED
        BY <2>2, <3>1, <3>2, <4>2
    <3> QED
      BY <2>2, <3>1, <3>2
  <2>11. CASE UNCHANGED vars
    <3>1. UNCHANGED <<pc, request, wanted, todo, attempt, refused, round, held, boot, shown>>
      BY <2>11 DEF vars, cardVars, unitVars
    <3>2. OnTheWay => OnTheWay'
      BY <3>1 DEF OnTheWay, HoldsBehind, KeptRight, OneRound, AtWrite, AtSettle, AtReread,
                  AtRecheck
    <3> QED
      BY <2>2, <3>1, <3>2
  <2> QED
    BY <2>3, <2>4, <2>5, <2>6, <2>7, <2>8, <2>9, <2>10, <2>11 DEF Next, Card
<1> QED
  BY <1>1, <1>2 DEF Outlasting

\* The budget outlasts the window: a card that turns a well-behaved unit on never
\* fails when the unit takes every setting within as many settle waits as a
\* setting has attempts, whatever it refuses or restores until then.
THEOREM BootOutlasted ==
  ASSUME BootWaits <= Attempts
  PROVE  Spec => []BootIsOutlasted
<1>1. Init => Outlasting
  BY DEF Init, Outlasting
<1>2. TypeOK /\ TypeOK' /\ Outlasting /\ [Next]_vars => Outlasting'
  BY OutlastingStep
<1>3. Outlasting => BootIsOutlasted
  BY DEF Outlasting, Calm, BootIsOutlasted
<1> QED
  BY <1>1, <1>2, <1>3, TypeInit, TypeStep, PTL DEF Spec

-----------------------------------------------------------------------------
(* The card ends.  Its fuel is the number of awaits it can still come back *)
(* from: three for each attempt, four attempts for each setting, seven     *)
(* settings and a re-check for each pass, three passes and the beginning.  *)
(* Every step of the card uses some of it, and nothing the unit, its panel *)
(* or a poll does puts any back.                                           *)

\* Awaits left of the running attempt, this one included.
AttemptLeft == IF pc = "write" THEN 3 ELSE IF pc = "settle" THEN 2 ELSE 1

\* Those of the running pass, up to its re-check.
PassLeft ==
  12 * (7 - Rank(First(todo))) + 3 * (Attempts - attempt) + AttemptLeft + 1

Fuel ==
  IF pc = "start" THEN 256
  ELSE IF pc \in {"ok", "failed"} THEN 0
  ELSE 85 * (ReconcileRounds - round) + (IF pc = "recheck" THEN 1 ELSE PassLeft)

\* What an attempt, a re-check, the beginning and the end are worth.
LEMMA FuelOfAttempt ==
  TypeOK /\ pc \in {"write", "settle", "reread"} =>
    /\ Rank(First(todo)) \in 1..7 /\ attempt \in 1..4 /\ round \in 0..2
    /\ AttemptLeft \in 1..3
    /\ Fuel = 85 * (2 - round) + 12 * (7 - Rank(First(todo))) + 3 * (4 - attempt)
              + AttemptLeft + 1
<1> SUFFICES ASSUME TypeOK, pc \in {"write", "settle", "reread"}
             PROVE  /\ Rank(First(todo)) \in 1..7 /\ attempt \in 1..4 /\ round \in 0..2
                    /\ AttemptLeft \in 1..3
                    /\ Fuel = 85 * (2 - round) + 12 * (7 - Rank(First(todo)))
                              + 3 * (4 - attempt) + AttemptLeft + 1
  OBVIOUS
<1>1. attempt \in 1..4 /\ round \in 0..2
  BY DEF TypeOK, Attempts, ReconcileRounds
<1>2. Rank(First(todo)) \in 1..7
  BY CurrentSetting, RankOf
<1>3. AttemptLeft \in 1..3
  BY DEF AttemptLeft
<1>4. PassLeft = 12 * (7 - Rank(First(todo))) + 3 * (4 - attempt) + AttemptLeft + 1
  BY DEF PassLeft, Attempts
<1>5. Fuel = 85 * (2 - round) + PassLeft
  BY DEF Fuel, ReconcileRounds
<1> QED
  BY <1>1, <1>2, <1>3, <1>4, <1>5

\* A card that has not ended has fuel, and no card has more than it starts with.
LEMMA FuelIsBounded ==
  TypeOK => /\ Fuel \in 0..256
            /\ Fuel = 0 <=> pc \in {"ok", "failed"}
            /\ pc = "write" => Fuel <= 255
<1> SUFFICES ASSUME TypeOK
             PROVE  /\ Fuel \in 0..256
                    /\ Fuel = 0 <=> pc \in {"ok", "failed"}
                    /\ pc = "write" => Fuel <= 255
  OBVIOUS
<1>1. round \in 0..2
  BY DEF TypeOK, ReconcileRounds
<1>2. CASE pc \in {"write", "settle", "reread"}
  BY <1>2, FuelOfAttempt
<1>3. CASE pc = "recheck"
  <2>1. Fuel = 85 * (2 - round) + 1
    BY <1>3 DEF Fuel, ReconcileRounds
  <2> QED
    BY <1>1, <1>3, <2>1
<1>4. CASE pc \in {"start", "ok", "failed"}
  BY <1>4 DEF Fuel
<1> QED
  BY <1>2, <1>3, <1>4 DEF TypeOK

\* Going on to a later setting, or to the re-check, uses fuel.
LEMMA AdvanceUsesFuel ==
  ASSUME TypeOK, TypeOK', pc \in {"write", "reread"}, round' = round,
         NEW now, Advance(After(todo, First(todo)), now)
  PROVE  Fuel' < Fuel
<1> DEFINE s == First(todo)  rest == After(todo, s)
<1>1. rest \in SUBSET wanted
  BY DEF After, TypeOK
<1>2. /\ pc' \in {"write", "recheck"} /\ todo' \subseteq rest
      /\ pc' = "write" => todo' # {}
      /\ attempt' = 1
  BY <1>1, AdvanceKeepsTypes
<1>3. /\ Rank(s) \in 1..7 /\ attempt \in 1..4 /\ round \in 0..2
      /\ AttemptLeft \in {1, 3}
      /\ Fuel = 85 * (2 - round) + 12 * (7 - Rank(s)) + 3 * (4 - attempt)
                + AttemptLeft + 1
  <2>1. AttemptLeft \in {1, 3}
    BY DEF AttemptLeft
  <2> QED
    BY <2>1, FuelOfAttempt
<1>7. CASE pc' = "recheck"
  <2>1. Fuel' = 85 * (2 - round) + 1
    BY <1>7 DEF Fuel, ReconcileRounds
  <2> QED
    BY <1>3, <2>1
<1>8. CASE pc' = "write"
  <2>1. First(todo') \in rest
    <3>1. todo' \in SUBSET Settings /\ todo' # {}
      BY <1>2, <1>8, CardAssumption DEF TypeOK
    <3>2. First(todo') \in todo'
      BY <3>1, FirstIsMember
    <3> QED
      BY <1>2, <3>2
  <2>2. Rank(First(todo')) > Rank(s)
    BY <2>1 DEF After
  <2>3. AttemptLeft' = 3
    BY <1>8 DEF AttemptLeft
  <2>4. (TypeOK /\ pc \in {"write", "settle", "reread"} =>
           /\ Rank(First(todo)) \in 1..7 /\ attempt \in 1..4 /\ round \in 0..2
           /\ AttemptLeft \in 1..3
           /\ Fuel = 85 * (2 - round) + 12 * (7 - Rank(First(todo))) + 3 * (4 - attempt)
                     + AttemptLeft + 1)'
    BY FuelOfAttempt, PTL
  <2>5. /\ Rank(First(todo')) \in 1..7
        /\ Fuel' = 85 * (2 - round) + 12 * (7 - Rank(First(todo'))) + 3 * (4 - 1) + 3 + 1
    BY <1>2, <1>8, <2>3, <2>4
  <2> QED
    BY <1>3, <2>2, <2>5
<1> QED
  BY <1>2, <1>7, <1>8

\* A step of the card that goes to its next await, starts another attempt,
\* another setting or another round, or ends it, uses fuel: one case per action.
LEMMA CardUsesFuel == TypeOK /\ TypeOK' /\ Card => Fuel' < Fuel
<1> SUFFICES ASSUME TypeOK, TypeOK', Card PROVE Fuel' < Fuel
  OBVIOUS
<1>0. /\ Fuel \in 0..256
      /\ Fuel = 0 <=> pc \in {"ok", "failed"}
  BY FuelIsBounded
<1>w. (TypeOK => /\ Fuel \in 0..256
                 /\ Fuel = 0 <=> pc \in {"ok", "failed"}
                 /\ pc = "write" => Fuel <= 255)'
  BY FuelIsBounded, PTL
<1>r. (TypeOK /\ pc \in {"write", "settle", "reread"} =>
         /\ Rank(First(todo)) \in 1..7 /\ attempt \in 1..4 /\ round \in 0..2
         /\ AttemptLeft \in 1..3
         /\ Fuel = 85 * (2 - round) + 12 * (7 - Rank(First(todo))) + 3 * (4 - attempt)
                   + AttemptLeft + 1)'
  BY FuelOfAttempt, PTL
<1>l. pc \notin {"ok", "failed"}
  BY DEF Card, Begin, NothingToWrite, WriteAccepted, WriteRefused, Writing, Settle,
         Reread, Recheck, RefreshFails
<1>e. CASE pc' \in {"ok", "failed"}
  BY <1>0, <1>l, <1>e DEF Fuel
<1>n. ASSUME pc \in {"write", "settle", "reread"}, pc' \in {"write", "settle", "reread"},
             UNCHANGED <<todo, round>>, attempt' >= attempt,
             3 * (4 - attempt') + AttemptLeft' < 3 * (4 - attempt) + AttemptLeft
      PROVE  Fuel' < Fuel
  <2>1. /\ Rank(First(todo)) \in 1..7 /\ attempt \in 1..4 /\ round \in 0..2
        /\ AttemptLeft \in 1..3
        /\ Fuel = 85 * (2 - round) + 12 * (7 - Rank(First(todo))) + 3 * (4 - attempt)
                  + AttemptLeft + 1
    BY <1>n, FuelOfAttempt
  <2>2. /\ attempt' \in 1..4 /\ AttemptLeft' \in 1..3
        /\ Fuel' = 85 * (2 - round) + 12 * (7 - Rank(First(todo))) + 3 * (4 - attempt')
                   + AttemptLeft' + 1
    BY <1>n, <1>r
  <2>3. 3 * (4 - attempt') + AttemptLeft' < 3 * (4 - attempt) + AttemptLeft
    BY <1>n
  <2>4. \A base \in Int, a, b \in 1..4, x, y \in 1..3 :
           3 * (4 - b) + y < 3 * (4 - a) + x
             => base + 3 * (4 - b) + y + 1 < base + 3 * (4 - a) + x + 1
    OBVIOUS
  <2>5. 85 * (2 - round) + 12 * (7 - Rank(First(todo))) \in Int
    BY <2>1
  <2> QED
    BY <2>1, <2>2, <2>3, <2>4, <2>5
<1>a. attempt \in 1..4 /\ attempt' \in 1..4
  BY DEF TypeOK, Attempts
<1>1. CASE Begin
  <2>1. Fuel = 256 /\ pc' \in {"ok", "write"}
    BY <1>1 DEF Begin, Fuel
  <2> QED
    BY <1>e, <1>w, <2>1
<1>2. CASE NothingToWrite \/ WriteAccepted
  <2>1. pc = "write" /\ pc' = "settle" /\ UNCHANGED <<todo, attempt, round>>
    BY <1>2 DEF NothingToWrite, WriteAccepted, Writing
  <2>2. AttemptLeft = 3 /\ AttemptLeft' = 2
    BY <2>1 DEF AttemptLeft
  <2> QED
    BY <1>a, <1>n, <2>1, <2>2
<1>3. CASE WriteRefused
  <2>1. pc = "write" /\ round' = round
    BY <1>3 DEF WriteRefused, Writing
  <2>2. CASE pc' = "settle" /\ UNCHANGED <<todo, attempt>>
    <3>1. AttemptLeft = 3 /\ AttemptLeft' = 2
      BY <2>1, <2>2 DEF AttemptLeft
    <3> QED
      BY <1>a, <1>n, <2>1, <2>2, <3>1
  <2>3. CASE Advance(After(todo, First(todo)), shown')
    BY <2>1, <2>3, AdvanceUsesFuel
  <2> QED
    BY <1>3, <1>e, <2>2, <2>3 DEF WriteRefused, AfterRefusal, GiveUp
<1>4. CASE Settle
  <2>1. pc = "settle" /\ pc' = "reread" /\ UNCHANGED <<todo, attempt, round>>
    BY <1>4 DEF Settle
  <2>2. AttemptLeft = 2 /\ AttemptLeft' = 1
    BY <2>1 DEF AttemptLeft
  <2> QED
    BY <1>a, <1>n, <2>1, <2>2
<1>5. CASE Reread
  <2>1. pc = "reread" /\ round' = round
    BY <1>5 DEF Reread
  <2>2. CASE Advance(After(todo, First(todo)), held)
    BY <2>1, <2>2, AdvanceUsesFuel
  <2>3. CASE Advance(After(todo, First(todo)), shown')
    BY <2>1, <2>3, AdvanceUsesFuel
  <2>4. CASE pc' = "write" /\ attempt' = attempt + 1 /\ UNCHANGED todo
    <3>1. AttemptLeft = 1 /\ AttemptLeft' = 3
      BY <2>1, <2>4 DEF AttemptLeft
    <3> QED
      BY <1>a, <1>n, <2>1, <2>4, <3>1
  <2> QED
    BY <1>5, <1>e, <2>2, <2>3, <2>4 DEF Reread, GiveUp
<1>6. CASE Recheck
  <2>1. pc = "recheck" /\ round \in 0..2
    BY <1>6 DEF Recheck, TypeOK, ReconcileRounds
  <2>2. Fuel = 85 * (2 - round) + 1
    BY <2>1 DEF Fuel, ReconcileRounds
  <2>3. CASE pc' = "write" /\ round' = round + 1 /\ attempt' = 1
    <3>1. AttemptLeft' = 3
      BY <2>3 DEF AttemptLeft
    <3>2. /\ Rank(First(todo')) \in 1..7
          /\ Fuel' = 85 * (2 - (round + 1)) + 12 * (7 - Rank(First(todo'))) + 3 * (4 - 1)
                     + 3 + 1
      BY <1>r, <2>3, <3>1
    <3> QED
      BY <2>1, <2>2, <3>2
  <2> QED
    BY <1>6, <1>e, <2>3 DEF Recheck, Round
<1>7. CASE RefreshFails
  BY <1>7, <1>e DEF RefreshFails
<1> QED
  BY <1>1, <1>2, <1>3, <1>4, <1>5, <1>6, <1>7 DEF Card

\* Every card ends within 256 awaits of its own, retries, passes over the whole
\* request and a unit that undoes each setting included: a step of the card uses
\* fuel, a step of the unit, its panel or a poll neither uses nor gives any, and
\* a card without fuel is one that has ended (_reconcile, "Bounded").
THEOREM EveryCardIsBounded ==
  Spec => /\ [](Fuel \in 0..256 /\ (Fuel = 0 <=> pc \in {"ok", "failed"}))
          /\ [][/\ Card => Fuel' < Fuel
                /\ ~Card => Fuel' = Fuel]_vars
<1>1. TypeOK => Fuel \in 0..256 /\ (Fuel = 0 <=> pc \in {"ok", "failed"})
  BY FuelIsBounded
<1>2. TypeOK /\ TypeOK' /\ [Next]_vars
        => [/\ Card => Fuel' < Fuel
            /\ ~Card => Fuel' = Fuel]_vars
  <2> SUFFICES ASSUME TypeOK, TypeOK', Next
               PROVE  /\ Card => Fuel' < Fuel
                      /\ ~Card => Fuel' = Fuel
    OBVIOUS
  <2>1. Operated \/ Polled => Fuel' = Fuel
    <3>1. Operated \/ Polled => UNCHANGED <<pc, todo, attempt, round>>
      BY DEF Operated, Polled, cardVars
    <3> QED
      BY <3>1 DEF Fuel, PassLeft, AttemptLeft
  <2> QED
    BY <2>1, CardUsesFuel DEF Next
<1> QED
  BY <1>1, <1>2, TypeCorrect, PTL DEF Spec
=============================================================================
