---------------------------- MODULE SessionProofs ----------------------------
(***************************************************************************)
(* Proofs, for any number of callers, paths, values and source ports, of   *)
(* the safety properties of Session, that it implements CommandContract,   *)
(* and that every step on the wire brings every call closer to its return. *)
(***************************************************************************)
EXTENDS Session, SequenceTheorems, TLAPS

\* Taking one element out of a sequence moves the later ones up.
LEMMA RemoveAtProperties ==
  ASSUME NEW S, NEW s \in Seq(S), NEW i \in 1..Len(s)
  PROVE  /\ RemoveAt(s, i) \in Seq(S)
         /\ Len(RemoveAt(s, i)) = Len(s) - 1
         /\ \A j \in 1..(Len(s) - 1) :
              RemoveAt(s, i)[j] = IF j < i THEN s[j] ELSE s[j + 1]
<1> DEFINE front == SubSeq(s, 1, i - 1)  back == SubSeq(s, i + 1, Len(s))
<1>1. Len(s) \in Nat /\ \A j \in 1..Len(s) : s[j] \in S
  BY LenProperties, ElementOfSeq
<1>2. /\ front \in Seq(S) /\ Len(front) = i - 1
      /\ \A j \in 1..(i - 1) : front[j] = s[j]
  <2>1. \A j \in 1..(i - 1) : s[j] \in S
    BY <1>1
  <2>2. 1 \in Int /\ i - 1 \in Int
    BY <1>1
  <2>. QED BY <1>1, <2>1, <2>2, SubSeqProperties, Z3
<1>3. /\ back \in Seq(S) /\ Len(back) = Len(s) - i
      /\ \A j \in 1..(Len(s) - i) : back[j] = s[i + j]
  <2>1. \A j \in (i + 1)..Len(s) : s[j] \in S
    BY <1>1
  <2>2. i + 1 \in Int /\ Len(s) \in Int
    BY <1>1
  <2>. QED BY <1>1, <2>1, <2>2, SubSeqProperties, Z3
<1> HIDE DEF front, back
<1>4. Len(front) + Len(back) = Len(s) - 1
  BY <1>1, <1>2, <1>3
<1>5. /\ front \o back \in Seq(S) /\ Len(front \o back) = Len(s) - 1
      /\ \A j \in 1..(Len(s) - 1) : (front \o back)[j] = IF j < i THEN s[j] ELSE s[j + 1]
  <2>1. /\ front \o back \in Seq(S) /\ Len(front \o back) = Len(front) + Len(back)
        /\ \A j \in 1..(Len(front) + Len(back)) :
             (front \o back)[j] = IF j <= Len(front) THEN front[j] ELSE back[j - Len(front)]
    BY <1>2, <1>3, ConcatProperties
  <2>2. ASSUME NEW j \in 1..(Len(s) - 1)
        PROVE  (front \o back)[j] = IF j < i THEN s[j] ELSE s[j + 1]
    <3>1. (front \o back)[j] = IF j <= i - 1 THEN front[j] ELSE back[j - (i - 1)]
      BY <1>2, <1>4, <2>1
    <3>2. CASE j < i
      <4>1. j \in 1..(i - 1) /\ j <= i - 1
        BY <1>1, <3>2
      <4>. QED BY <1>2, <3>1, <3>2, <4>1
    <3>3. CASE ~(j < i)
      <4>1. /\ j - (i - 1) \in 1..(Len(s) - i) /\ ~(j <= i - 1)
            /\ i + (j - (i - 1)) = j + 1
        BY <1>1, <3>3
      <4>2. back[j - (i - 1)] = s[j + 1]
        BY <1>3, <4>1
      <4>. QED BY <3>1, <3>3, <4>1, <4>2
    <3>. QED BY <3>2, <3>3
  <2>. QED BY <1>4, <2>1, <2>2
<1>6. RemoveAt(s, i) = front \o back
  BY DEF RemoveAt, front, back
<1>. QED BY <1>5, <1>6

-----------------------------------------------------------------------------
\* What is typed of the callers, and what the lock means: whoever has asked is
\* in the queue, and whoever works is at its head.
Typed(q, a, t, r) ==
  /\ q \in Seq(Callers) /\ a \in [Callers -> Steps]
  /\ t \in [Callers -> Attempts] /\ r \in [Callers -> Results]

Lock ==
  /\ \A c \in Callers : at[c] # "idle" => \E i \in 1..Len(queue) : queue[i] = c
  /\ \A c \in Callers : at[c] \in Working => Len(queue) > 0 /\ queue[1] = c

\* A return takes the caller out of the queue, wherever it stands.
LEMMA Returning ==
  ASSUME TypeOK, Lock, NEW c \in Callers, NEW o \in Results, Return(c, o)
  PROVE  Typed(queue, at, attempt, result)' /\ Lock'
<1>1. PICK i \in 1..Len(queue) : queue[i] = c /\ queue' = RemoveAt(queue, i)
  BY LenProperties DEF Return, Release, TypeOK
<1>2. /\ queue' \in Seq(Callers) /\ Len(queue') = Len(queue) - 1 /\ Len(queue) \in Nat
      /\ \A j \in 1..(Len(queue) - 1) : queue'[j] = IF j < i THEN queue[j] ELSE queue[j + 1]
  BY <1>1, RemoveAtProperties, LenProperties DEF TypeOK
<1>3. /\ at' = [at EXCEPT ![c] = "idle"]
      /\ at' \in [Callers -> Steps] /\ result' \in [Callers -> Results]
      /\ attempt' = [attempt EXCEPT ![c] = Fresh]
  BY DEF Return, TypeOK, Steps
<1>4. Fresh \in Attempts
  BY LastPortAssumption DEF Fresh, Attempts, Ports
<1>5. attempt' \in [Callers -> Attempts]
  BY <1>3, <1>4 DEF TypeOK
<1>6. ASSUME NEW d \in Callers, at'[d] # "idle"
      PROVE  \E k \in 1..Len(queue') : queue'[k] = d
  <2>1. d # c /\ at[d] # "idle"
    BY <1>3, <1>6 DEF TypeOK
  <2>2. PICK k \in 1..Len(queue) : queue[k] = d
    BY <2>1 DEF Lock
  <2>3. CASE k < i
    <3>1. k \in 1..(Len(queue) - 1) /\ queue'[k] = d
      BY <1>1, <1>2, <2>2, <2>3
    <3>. QED BY <1>2, <3>1
  <2>4. CASE k > i
    <3>1. k - 1 \in 1..(Len(queue) - 1) /\ ~(k - 1 < i) /\ (k - 1) + 1 = k
      BY <1>1, <1>2, <2>2, <2>4
    <3>2. queue'[k - 1] = d
      BY <1>2, <2>2, <3>1
    <3>. QED BY <1>2, <3>1, <3>2
  <2>5. k # i
    BY <1>1, <2>1, <2>2
  <2>. QED BY <1>1, <1>2, <2>2, <2>3, <2>4, <2>5
<1>7. ASSUME NEW d \in Callers, at'[d] \in Working
      PROVE  Len(queue') > 0 /\ queue'[1] = d
  <2>1. d # c /\ at[d] \in Working
    BY <1>3, <1>7 DEF TypeOK, Working
  <2>2. Len(queue) > 0 /\ queue[1] = d
    BY <2>1 DEF Lock
  <2>3. i > 1
    BY <1>1, <1>2, <2>1, <2>2
  <2>. QED BY <1>1, <1>2, <2>2, <2>3
<1>. QED BY <1>2, <1>3, <1>5, <1>6, <1>7 DEF Typed, Lock

\* The holder of the lock goes on, or the first waiter gets it.
LEMMA GoingOn ==
  ASSUME TypeOK, Lock, NEW c \in Callers, NEW step \in Working, NEW l \in Attempts,
         Go(c, step, l), at[c] \in Working \/ Turn(c)
  PROVE  Typed(queue, at, attempt, result)' /\ Lock'
<1>1. /\ at' = [at EXCEPT ![c] = step] /\ attempt' = [attempt EXCEPT ![c] = l]
      /\ queue' = queue /\ result' = result
  BY DEF Go
<1>2. at[c] # "idle" /\ Len(queue) > 0 /\ queue[1] = c
  <2>1. CASE at[c] \in Working
    BY <2>1 DEF Lock, Working
  <2>2. CASE Turn(c)
    <3>1. at[c] # "idle"
      BY <2>2 DEF Turn
    <3>2. PICK i \in 1..Len(queue) : queue[i] = c
      BY <3>1 DEF Lock
    <3>3. Len(queue) \in Nat /\ Len(queue) > 0
      BY <3>2, LenProperties DEF TypeOK
    <3>4. Head(queue) = queue[1]
      BY <3>3 DEF TypeOK
    <3>. QED BY <2>2, <3>1, <3>3, <3>4 DEF Turn
  <2>. QED BY <2>1, <2>2
<1>3. \A d \in Callers : at'[d] \in Working => d = c
  BY <1>1, <1>2 DEF TypeOK, Lock
<1>4. at' \in [Callers -> Steps]
  BY <1>1 DEF TypeOK, Working, Steps
<1>5. Lock'
  BY <1>1, <1>2, <1>3 DEF Lock, TypeOK
<1>. QED BY <1>1, <1>4, <1>5 DEF Typed, TypeOK

\* The locals an attempt goes on with.
LEMMA Locals ==
  ASSUME TypeOK, NEW c \in Callers
  PROVE  /\ attempt[c] \in Attempts /\ Fresh \in Attempts
         /\ [attempt[c] EXCEPT !.answered = TRUE] \in Attempts
         /\ [attempt[c] EXCEPT !.port = 0, !.again = TRUE] \in Attempts
         /\ ~LastTry(c) => [attempt[c] EXCEPT !.port = @ + 1] \in Attempts
<1>1. attempt[c] \in Attempts /\ attempt[c].port \in Ports
  BY DEF TypeOK, Attempts
<1>2. 0 \in Ports /\ (~LastTry(c) => attempt[c].port + 1 \in Ports)
  BY <1>1, LastPortAssumption DEF Ports, LastTry
<1>. QED BY <1>1, <1>2 DEF Attempts, Fresh

\* A lost request returns, or goes on.
LEMMA Losing ==
  ASSUME TypeOK, Lock, NEW c \in Callers, NEW l \in Attempts, Lose(c, l), at[c] \in Working
  PROVE  Typed(queue, at, attempt, result)' /\ Lock'
BY Returning, GoingOn DEF Lose, Results, Working

\* Whatever a caller's step does, it is typed and the lock keeps its meaning.
LEMMA CallerStep ==
  ASSUME TypeOK, Lock, NEW c \in Callers, Step(c) \/ Cancel(c)
  PROVE  Typed(queue, at, attempt, result)' /\ Lock'
<1>1. {"connect", "act", "hangup"} \subseteq Working
      /\ {"ok", "refused", "error", "stale", "cancelled"} \subseteq Results
  BY DEF Working, Results
<1>2. CASE Acquire(c)
  <2>1. Turn(c)
    BY <1>2 DEF Acquire
  <2>2. Return(c, "ok") \/ \E step \in Working : Go(c, step, Fresh)
    BY <1>1, <1>2 DEF Acquire
  <2>. QED BY <1>1, <2>1, <2>2, Returning, GoingOn, Locals
<1>3. CASE HandshakeOk(c)
  BY <1>1, <1>3, GoingOn, Locals DEF HandshakeOk
<1>4. CASE HandshakeStale(c)
  <2>1. CASE LastTry(c)
    BY <1>1, <1>4, <2>1, Returning DEF HandshakeStale
  <2>2. CASE ~LastTry(c)
    BY <1>1, <1>4, <2>2, GoingOn, Locals DEF HandshakeStale
  <2>. QED BY <2>1, <2>2
<1>5. CASE HandshakeFail(c)
  BY <1>1, <1>5, Returning DEF HandshakeFail
<1>6. CASE GetAnswered(c) \/ PostAccepted(c) \/ SubscribeSent(c)
  BY <1>1, <1>6, Returning DEF GetAnswered, PostAccepted, SubscribeSent
<1>7. CASE PostRefused(c) \/ SubscribeFailed(c)
  BY <1>1, <1>7, Returning DEF PostRefused, AfterRefusal, SubscribeFailed
<1>8. CASE GetRefused(c) \/ GetLost(c) \/ PostLost(c)
  <2>1. at[c] \in Working
    BY <1>1, <1>8 DEF GetRefused, GetLost, PostLost, Acting
  <2>2. \E l \in Attempts : Lose(c, l)
    BY <1>8, Locals DEF GetRefused, GetLost, PostLost
  <2>. QED BY <2>1, <2>2, Losing
<1>9. CASE HangUp(c)
  <2>1. at[c] \in Working
    BY <1>1, <1>9 DEF HangUp
  <2>2. \/ Return(c, "ok")
        \/ Go(c, "connect", [attempt[c] EXCEPT !.port = 0, !.again = TRUE])
    BY <1>9 DEF HangUp
  <2>. QED BY <1>1, <2>1, <2>2, Returning, GoingOn, Locals
<1>10. CASE Cancel(c)
  BY <1>1, <1>10, Returning DEF Cancel
<1>. QED BY <1>2, <1>3, <1>4, <1>5, <1>6, <1>7, <1>8, <1>9, <1>10 DEF Step

\* Asking is typed too, and joins the queue at its end.
LEMMA Asking ==
  ASSUME TypeOK, Lock, NEW c \in Callers, Ask(c)
  PROVE  Typed(queue, at, attempt, result)' /\ Lock'
<1>1. /\ queue' \in Seq(Callers) /\ Len(queue') = Len(queue) + 1 /\ Len(queue) \in Nat
      /\ \A i \in 1..Len(queue) : queue'[i] = queue[i]
      /\ queue'[Len(queue) + 1] = c
  BY AppendProperties, LenProperties DEF Ask, TypeOK
<1>2. /\ at' = [at EXCEPT ![c] = "waiting"] /\ at' \in [Callers -> Steps]
      /\ result' \in [Callers -> Results] /\ attempt' = attempt
  BY DEF Ask, TypeOK, Steps, Results
<1>3. ASSUME NEW d \in Callers, at'[d] # "idle"
      PROVE  \E i \in 1..Len(queue') : queue'[i] = d
  <2>1. CASE d = c
    <3>1. Len(queue) + 1 \in 1..Len(queue')
      BY <1>1
    <3>. QED BY <1>1, <2>1, <3>1
  <2>2. CASE d # c
    <3>1. PICK i \in 1..Len(queue) : queue[i] = d
      BY <1>2, <1>3, <2>2 DEF Lock, TypeOK
    <3>2. i \in 1..Len(queue') /\ queue'[i] = d
      BY <1>1, <3>1
    <3>. QED BY <3>2
  <2>. QED BY <2>1, <2>2
<1>4. ASSUME NEW d \in Callers, at'[d] \in Working
      PROVE  Len(queue') > 0 /\ queue'[1] = d
  <2>1. at[d] \in Working
    BY <1>2, <1>4 DEF TypeOK, Working
  <2>2. Len(queue) > 0 /\ queue[1] = d
    BY <2>1 DEF Lock
  <2>. QED BY <1>1, <2>2
<1>. QED BY <1>1, <1>2, <1>3, <1>4 DEF Typed, TypeOK, Lock

-----------------------------------------------------------------------------
\* What the session and the appliance agree on.
Wired(ca, ap, se, su, al, orp, re, v) ==
  /\ ca \in [Callers -> Calls] /\ ap \in [Callers -> BOOLEAN]
  /\ se \in Ports \cup {None} /\ su \subseteq Paths /\ re \subseteq Paths
  /\ al \in BOOLEAN /\ orp \subseteq Ports /\ v \in Values

Held == alive => session \in Ports /\ subscribed \subseteq registered

\* What a call is about.
LEMMA Arguments ==
  ASSUME TypeOK, NEW c \in Callers
  PROVE  /\ call[c].op = "post" => call[c].arg \in Values
         /\ call[c].op = "subscribe" => call[c].arg \in Paths
<1>1. call[c] \in Calls
  BY DEF TypeOK
<1>2. CASE call[c] \in [op : {"get", "close"}, arg : {"none"}]
  BY <1>2
<1>3. CASE call[c] \in [op : {"post"}, arg : Values]
  BY <1>3
<1>4. CASE call[c] \in [op : {"subscribe"}, arg : Paths]
  BY <1>4
<1>. QED BY <1>1, <1>2, <1>3, <1>4 DEF Calls

\* No step records a path on a live association that the appliance does not
\* notify, and a live association has a source port.
LEMMA WireStep ==
  TypeOK /\ Held /\ [Next]_vars
    => Wired(call, applied, session, subscribed, alive, orphans, registered, value)' /\ Held'
<1> SUFFICES ASSUME TypeOK, Held, [Next]_vars
             PROVE  /\ Wired(call, applied, session, subscribed, alive, orphans,
                             registered, value)'
                    /\ Held'
  OBVIOUS
<1> USE DEF vars, callerVars, callVars, ownVars, peerVars, Wired
<1>1. ASSUME UNCHANGED <<callVars, ownVars, peerVars>>
      PROVE  Wired(call, applied, session, subscribed, alive, orphans, registered, value)' /\ Held'
  BY <1>1 DEF TypeOK, Held
<1>2. ASSUME NEW c \in Callers, Ask(c)
      PROVE  Wired(call, applied, session, subscribed, alive, orphans, registered, value)' /\ Held'
  BY <1>2 DEF Ask, TypeOK, Held
<1>3. ASSUME NEW c \in Callers, HandshakeOk(c)
      PROVE  Wired(call, applied, session, subscribed, alive, orphans, registered, value)' /\ Held'
  <2>1. attempt[c].port \in Ports
    BY DEF TypeOK, Attempts
  <2>. QED BY <1>3, <2>1 DEF HandshakeOk, Replay, TypeOK, Held
<1>4. ASSUME NEW c \in Callers,
             \/ Acquire(c) \/ HandshakeStale(c) \/ HandshakeFail(c) \/ GetAnswered(c)
             \/ GetRefused(c) \/ GetLost(c) \/ PostRefused(c) \/ SubscribeFailed(c)
      PROVE  Wired(call, applied, session, subscribed, alive, orphans, registered, value)' /\ Held'
  BY <1>1, <1>4 DEF Acquire, HandshakeStale, HandshakeFail, GetAnswered, GetRefused, GetLost,
                    PostRefused, SubscribeFailed
<1>5. ASSUME NEW c \in Callers, PostAccepted(c) \/ PostLost(c)
      PROVE  Wired(call, applied, session, subscribed, alive, orphans, registered, value)' /\ Held'
  <2>1. /\ applied' \in [Callers -> BOOLEAN] /\ value' \in Values
        /\ UNCHANGED <<call, ownVars, alive, orphans, registered>>
    BY <1>5, Arguments DEF PostAccepted, PostLost, Acting, TypeOK
  <2>. QED BY <2>1 DEF TypeOK, Held
<1>6. ASSUME NEW c \in Callers, SubscribeSent(c)
      PROVE  Wired(call, applied, session, subscribed, alive, orphans, registered, value)' /\ Held'
  <2>1. call[c].arg \in Paths
    BY <1>6, Arguments DEF SubscribeSent, Acting
  <2>. QED BY <1>6, <2>1 DEF SubscribeSent, TypeOK, Held
<1>7. ASSUME NEW c \in Callers, HangUp(c)
      PROVE  Wired(call, applied, session, subscribed, alive, orphans, registered, value)' /\ Held'
  <2>1. orphans' \subseteq Ports
    BY <1>7 DEF HangUp, TypeOK, Held
  <2>. QED BY <1>7, <2>1 DEF HangUp, TypeOK, Held
<1>8. ASSUME NEW c \in Callers, Cancel(c)
      PROVE  Wired(call, applied, session, subscribed, alive, orphans, registered, value)' /\ Held'
  <2>1. attempt[c].port \in Ports
    BY DEF TypeOK, Attempts
  <2>2. orphans' \subseteq Ports
    BY <1>8, <2>1 DEF Cancel, TypeOK
  <2>3. CASE at[c] = "hangup"
    BY <1>8, <2>2, <2>3 DEF Cancel, TypeOK, Held
  <2>4. CASE at[c] # "hangup"
    <3>1. registered' \subseteq Paths /\ registered \subseteq registered'
      BY <1>8, <2>4 DEF Cancel, TypeOK
    <3>. QED BY <1>8, <2>2, <2>4, <3>1 DEF Cancel, TypeOK, Held
  <2>. QED BY <2>3, <2>4
<1>9. CASE PeerDrops \/ Operated \/ (\E p \in Ports : OrphanExpires(p))
  <2>1. CASE PeerDrops
    BY <2>1 DEF PeerDrops, TypeOK, Held
  <2>2. CASE Operated
    BY <2>2 DEF Operated, TypeOK, Held
  <2>3. CASE \E p \in Ports : OrphanExpires(p)
    BY <2>3 DEF OrphanExpires, TypeOK, Held
  <2>. QED BY <1>9, <2>1, <2>2, <2>3
<1>10. CASE AppRestart
  <2>1. orphans' \subseteq Ports
    BY <1>10 DEF AppRestart, TypeOK, Held
  <2>. QED BY <1>10, <2>1 DEF AppRestart, TypeOK, Held
<1>11. CASE UNCHANGED vars
  BY <1>1, <1>11
<1>. QED BY <1>2, <1>3, <1>4, <1>5, <1>6, <1>7, <1>8, <1>9, <1>10, <1>11 DEF Next, Step

-----------------------------------------------------------------------------
\* What every reachable state keeps.
Shape == TypeOK /\ Lock /\ Held

LEMMA ShapeInit == Init => Shape
<1> SUFFICES ASSUME Init PROVE Shape
  OBVIOUS
<1>1. /\ Fresh \in Attempts /\ NoCall \in Calls
      /\ queue \in Seq(Callers) /\ "idle" \in Steps /\ "none" \in Results
  BY LastPortAssumption, EmptySeq
     DEF Init, Fresh, Attempts, Ports, NoCall, Calls, Steps, Results
<1>2. TypeOK
  BY <1>1 DEF Init, TypeOK
<1>3. Lock /\ Held
  BY DEF Init, Lock, Held, Working
<1>. QED BY <1>2, <1>3 DEF Shape

LEMMA ShapeStep == Shape /\ [Next]_vars => Shape'
<1> SUFFICES ASSUME TypeOK, Lock, Held, [Next]_vars PROVE Shape'
  BY DEF Shape
<1>1. /\ Wired(call, applied, session, subscribed, alive, orphans, registered, value)'
      /\ Held'
  BY WireStep
<1>2. Typed(queue, at, attempt, result)' /\ Lock'
  <2>1. CASE \E c \in Callers : Ask(c)
    BY <2>1, Asking
  <2>2. CASE \E c \in Callers : Step(c) \/ Cancel(c)
    BY <2>2, CallerStep
  <2>3. CASE UNCHANGED callerVars
    BY <2>3 DEF callerVars, Typed, TypeOK, Lock
  <2>4. CASE AppRestart
    <3>1. Fresh \in Attempts /\ queue' \in Seq(Callers)
      BY <2>4, LastPortAssumption, EmptySeq DEF AppRestart, Fresh, Attempts, Ports
    <3>. QED BY <2>4, <3>1 DEF AppRestart, Typed, Steps, Results, Lock, Working
  <2>. QED BY <2>1, <2>2, <2>3, <2>4 DEF Next, vars, PeerDrops, Operated, OrphanExpires
<1>. QED BY <1>1, <1>2 DEF Shape, Wired, Typed, TypeOK

\* The state keeps its shape for any number of callers and source ports: no
\* handshake goes past the last window, whatever fails (Session).
THEOREM TypeCorrect == Spec => []TypeOK
<1>1. Shape => TypeOK
  BY DEF Shape
<1>. QED BY <1>1, ShapeInit, ShapeStep, PTL DEF Spec

\* Never do two callers have a request on the wire, through reconnects, retries
\* and cancelled waiters (Session._lock).
THEOREM OneAtATime == Spec => []OneCallerAtATime
<1>1. Shape => OneCallerAtATime
  BY DEF Shape, Lock, OneCallerAtATime
<1>. QED BY <1>1, ShapeInit, ShapeStep, PTL DEF Spec

\* A path that Session reports as subscribed on a live association is one the
\* appliance notifies, however often it reconnected (_connect_unlocked).
THEOREM SubscriptionsAreReal == Spec => []NothingSilentlyUnsubscribed
<1>1. Shape => NothingSilentlyUnsubscribed
  BY DEF Shape, Held, NothingSilentlyUnsubscribed
<1>. QED BY <1>1, ShapeInit, ShapeStep, PTL DEF Spec

-----------------------------------------------------------------------------
\* A command at work has had no answer yet, and one that waits has done nothing.
Unanswered ==
  \A c \in Callers : at[c] \in Working /\ call[c].op = "post" => ~attempt[c].answered
Untouched == \A c \in Callers : at[c] = "waiting" => ~applied[c]
Honest == Unanswered /\ Untouched /\ SuccessMeansApplied

\* A step of one caller that returns, or that goes on with what it had.
LEMMA HonestReturn ==
  ASSUME Shape, Honest, NEW c \in Callers, NEW o, Return(c, o), UNCHANGED call,
         applied' = applied \/ applied' = [applied EXCEPT ![c] = TRUE],
         (o = "ok" /\ call[c].op = "post") => applied'[c]
  PROVE  Honest'
<1>1. /\ at' = [at EXCEPT ![c] = "idle"] /\ result' = [result EXCEPT ![c] = o]
      /\ attempt' = [attempt EXCEPT ![c] = Fresh]
  BY DEF Return
<1>2. \A d \in Callers \ {c} : /\ at'[d] = at[d] /\ result'[d] = result[d]
                               /\ attempt'[d] = attempt[d] /\ applied'[d] = applied[d]
  BY <1>1 DEF Shape, TypeOK
<1>3. at'[c] = "idle" /\ result'[c] = o
  BY <1>1 DEF Shape, TypeOK
<1>. QED BY <1>2, <1>3
         DEF Honest, Unanswered, Untouched, SuccessMeansApplied, Working

LEMMA HonestGo ==
  ASSUME Shape, Honest, NEW c \in Callers, NEW step \in Working, NEW l, Go(c, step, l),
         UNCHANGED call, applied' = applied \/ applied' = [applied EXCEPT ![c] = TRUE],
         call[c].op = "post" => ~l.answered
  PROVE  Honest'
<1>1. /\ at' = [at EXCEPT ![c] = step] /\ result' = result
      /\ attempt' = [attempt EXCEPT ![c] = l]
  BY DEF Go
<1>2. \A d \in Callers \ {c} : /\ at'[d] = at[d] /\ attempt'[d] = attempt[d]
                               /\ applied'[d] = applied[d]
  BY <1>1 DEF Shape, TypeOK
<1>3. at'[c] = step /\ attempt'[c] = l /\ (applied[c] => applied'[c])
  BY <1>1 DEF Shape, TypeOK
<1>. QED BY <1>1, <1>2, <1>3
         DEF Honest, Unanswered, Untouched, SuccessMeansApplied, Working

\* The locals of a command that goes on are those of one that was not answered.
LEMMA HonestStep == Shape /\ Honest /\ [Next]_vars => Honest'
<1> SUFFICES ASSUME Shape, Honest, [Next]_vars PROVE Honest'
  OBVIOUS
<1> USE DEF vars, callerVars, callVars, ownVars, peerVars
<1>a. /\ TypeOK /\ {"connect", "act", "hangup"} \subseteq Working /\ ~Fresh.answered
  BY DEF Shape, Working, Fresh
<1>b. ASSUME NEW c \in Callers
      PROVE  /\ ~LastTry(c) => [attempt[c] EXCEPT !.port = @ + 1].answered = attempt[c].answered
             /\ [attempt[c] EXCEPT !.port = 0, !.again = TRUE].answered = attempt[c].answered
  BY <1>a DEF TypeOK, Attempts
<1>c. ASSUME NEW c \in Callers, at[c] \in Working, call[c].op = "post"
      PROVE  ~attempt[c].answered
  BY <1>c DEF Honest, Unanswered
<1>1. ASSUME NEW c \in Callers, Ask(c) PROVE Honest'
  BY <1>1, <1>a DEF Ask, TypeOK, Honest, Unanswered, Untouched, SuccessMeansApplied, Working
<1>2. ASSUME NEW c \in Callers, Acquire(c) PROVE Honest'
  <2>1. \/ Return(c, "ok") /\ call[c].op = "close"
        \/ \E step \in Working : Go(c, step, Fresh)
    BY <1>a, <1>2 DEF Acquire
  <2>2. UNCHANGED <<call, applied>>
    BY <1>2 DEF Acquire
  <2>. QED BY <1>a, <2>1, <2>2, HonestReturn, HonestGo
<1>3. ASSUME NEW c \in Callers, HandshakeOk(c) PROVE Honest'
  <2>1. at[c] \in Working /\ Go(c, "act", attempt[c]) /\ UNCHANGED <<call, applied>>
    BY <1>3, <1>a DEF HandshakeOk
  <2>. QED BY <1>a, <1>c, <2>1, HonestGo
<1>4. ASSUME NEW c \in Callers, HandshakeStale(c) PROVE Honest'
  <2>1. at[c] \in Working /\ UNCHANGED <<call, applied>>
    BY <1>4, <1>a DEF HandshakeStale
  <2>2. CASE LastTry(c)
    BY <1>4, <2>1, <2>2, HonestReturn DEF HandshakeStale
  <2>3. CASE ~LastTry(c)
    <3>1. Go(c, "connect", [attempt[c] EXCEPT !.port = @ + 1])
      BY <1>4, <2>3 DEF HandshakeStale
    <3>. QED BY <1>a, <1>b, <1>c, <2>1, <2>3, <3>1, HonestGo
  <2>. QED BY <2>2, <2>3
<1>5. ASSUME NEW c \in Callers, HandshakeFail(c) \/ PostRefused(c) \/ SubscribeFailed(c)
      PROVE Honest'
  <2>1. \E o \in {"error", "refused"} : Return(c, o)
    BY <1>5 DEF HandshakeFail, PostRefused, AfterRefusal, SubscribeFailed
  <2>2. UNCHANGED <<call, applied>>
    BY <1>5 DEF HandshakeFail, PostRefused, SubscribeFailed
  <2>. QED BY <2>1, <2>2, HonestReturn
<1>6. ASSUME NEW c \in Callers, GetAnswered(c) \/ SubscribeSent(c) PROVE Honest'
  <2>1. Return(c, "ok") /\ call[c].op # "post" /\ UNCHANGED <<call, applied>>
    BY <1>6 DEF GetAnswered, SubscribeSent, Acting
  <2>. QED BY <2>1, HonestReturn
<1>7. ASSUME NEW c \in Callers, GetRefused(c) \/ GetLost(c) \/ PostLost(c) PROVE Honest'
  <2>1. /\ at[c] \in Working /\ UNCHANGED call
        /\ applied' = applied \/ applied' = [applied EXCEPT ![c] = TRUE]
    BY <1>7, <1>a DEF GetRefused, GetLost, PostLost, Acting
  <2>2. \E l : Lose(c, l) /\ (call[c].op = "post" => l = attempt[c])
    BY <1>7 DEF GetRefused, GetLost, PostLost, Acting
  <2>3. \/ Return(c, "error")
        \/ \E l : Go(c, "hangup", l) /\ (call[c].op = "post" => l = attempt[c])
    BY <2>2 DEF Lose
  <2>. QED BY <1>a, <1>c, <2>1, <2>3, HonestReturn, HonestGo
<1>8. ASSUME NEW c \in Callers, PostAccepted(c) PROVE Honest'
  <2>1. /\ Return(c, "ok") /\ UNCHANGED call
        /\ applied' = [applied EXCEPT ![c] = TRUE] /\ applied'[c]
    BY <1>8, <1>a DEF PostAccepted, TypeOK
  <2>. QED BY <2>1, HonestReturn
<1>9. ASSUME NEW c \in Callers, HangUp(c) PROVE Honest'
  <2>1. at[c] \in Working /\ UNCHANGED <<call, applied>>
    BY <1>9, <1>a DEF HangUp
  <2>2. \/ Return(c, "ok") /\ call[c].op = "close"
        \/ Go(c, "connect", [attempt[c] EXCEPT !.port = 0, !.again = TRUE])
    BY <1>9 DEF HangUp
  <2>. QED BY <1>a, <1>b, <1>c, <2>1, <2>2, HonestReturn, HonestGo
<1>10. ASSUME NEW c \in Callers, Cancel(c) PROVE Honest'
  BY <1>10, HonestReturn DEF Cancel
<1>11. CASE AppRestart
  BY <1>11 DEF AppRestart, Honest, Unanswered, Untouched, SuccessMeansApplied, Working
<1>12. CASE UNCHANGED <<callerVars, callVars>>
  BY <1>12 DEF Honest, Unanswered, Untouched, SuccessMeansApplied
<1>. QED BY <1>1, <1>2, <1>3, <1>4, <1>5, <1>6, <1>7, <1>8, <1>9, <1>10, <1>11, <1>12
         DEF Next, Step, PeerDrops, Operated, OrphanExpires

LEMMA HonestInit == Init => Honest
BY DEF Init, Honest, Unanswered, Untouched, SuccessMeansApplied, Working

\* A command that reports success did change the appliance in this call, however
\* often its session was lost and rebuilt (write).
THEOREM SuccessIsApplied == Spec => []SuccessMeansApplied
<1>1. Honest => SuccessMeansApplied
  BY DEF Honest
<1>. QED BY <1>1, ShapeInit, ShapeStep, HonestInit, HonestStep, PTL DEF Spec

\* A command that has been answered is never sent again (write, write_accepted).
THEOREM AnsweredIsFinal == Spec => []AnsweredCommandIsNotResent
<1>1. Honest => AnsweredCommandIsNotResent
  BY DEF Honest, Unanswered, AnsweredCommandIsNotResent, Acting, Working
<1>. QED BY <1>1, ShapeInit, ShapeStep, HonestInit, HonestStep, PTL DEF Spec

-----------------------------------------------------------------------------
(* Every step is a step of CommandContract, or changes nothing it speaks of. *)

\* A caller that does not post, or has not changed, leaves what the contract
\* says of it alone.
SameFor(d) ==
  /\ at'[d] = at[d] /\ call'[d] = call[d] /\ applied'[d] = applied[d] /\ result'[d] = result[d]
Silent(d) == call'[d] = call[d] /\ call[d].op # "post"
Goes(d) ==
  /\ at[d] # "idle" /\ at'[d] # "idle" /\ call'[d] = call[d] /\ applied'[d] = applied[d]

LEMMA Stutter ==
  ASSUME \A d \in Callers : SameFor(d) \/ Silent(d) \/ Goes(d), value' = value
  PROVE  UNCHANGED Contract!vars
<1>1. \A d \in Callers : /\ Posting(d)' = Posting(d)
                         /\ Posting(d) => applied'[d] = applied[d]
                         /\ call'[d] = call[d]
                         /\ (call[d].op # "post" \/ at[d] # "idle")
                              <=> (call'[d].op # "post" \/ at'[d] # "idle")
                         /\ (call[d].op = "post" /\ at[d] = "idle") => result'[d] = result[d]
  BY DEF SameFor, Silent, Goes, Posting
<1>2. Stage' = Stage
  BY <1>1 DEF Stage
<1>3. Asked' = Asked
  BY <1>1 DEF Asked
<1>4. Outcome' = Outcome
  BY <1>1 DEF Outcome
<1>. QED BY <1>2, <1>3, <1>4 DEF Contract!vars

\* What the contract sees when one caller moves.
LEMMA Seen ==
  ASSUME NEW c \in Callers, \A d \in Callers \ {c} : SameFor(d)
  PROVE  /\ Stage' = [Stage EXCEPT ![c] = IF ~Posting(c)' THEN "idle"
                                          ELSE IF applied'[c] THEN "applied" ELSE "pending"]
         /\ Asked' = [Asked EXCEPT ![c] = IF call'[c].op = "post" THEN call'[c].arg ELSE "none"]
         /\ Outcome' = [Outcome EXCEPT ![c] = IF call'[c].op # "post" \/ at'[c] # "idle"
                                              THEN "none" ELSE result'[c]]
<1>1. \A d \in Callers \ {c} : Posting(d)' = Posting(d)
  BY DEF SameFor, Posting
<1>2. Stage' = [Stage EXCEPT ![c] = IF ~Posting(c)' THEN "idle"
                                    ELSE IF applied'[c] THEN "applied" ELSE "pending"]
  BY <1>1 DEF Stage, SameFor
<1>3. Asked' = [Asked EXCEPT ![c] = IF call'[c].op = "post" THEN call'[c].arg ELSE "none"]
  BY DEF Asked, SameFor
<1>4. Outcome' = [Outcome EXCEPT ![c] = IF call'[c].op # "post" \/ at'[c] # "idle"
                                        THEN "none" ELSE result'[c]]
  BY DEF Outcome, SameFor
<1>. QED BY <1>2, <1>3, <1>4

\* A step of one caller leaves the others alone.
LEMMA OthersAlone ==
  ASSUME TypeOK, NEW c \in Callers,
         (\E o : Return(c, o)) \/ (\E step, l : Go(c, step, l)),
         applied' = applied \/ applied' = [applied EXCEPT ![c] = TRUE], call' = call
  PROVE  \A d \in Callers \ {c} : SameFor(d)
BY DEF TypeOK, Return, Go, SameFor

\* A step of a call that is no command is not the contract's business.
LEMMA OtherCalls ==
  ASSUME TypeOK, NEW c \in Callers,
         (\E o : Return(c, o)) \/ (\E step, l : Go(c, step, l)),
         UNCHANGED <<callVars, value>>, call[c].op # "post"
  PROVE  UNCHANGED Contract!vars
<1>1. \A d \in Callers : SameFor(d) \/ Silent(d) \/ Goes(d)
  BY OthersAlone DEF Silent, callVars
<1>. QED BY <1>1, Stutter DEF callVars

\* A call that goes on without having changed the appliance, neither.
LEMMA GoesOn ==
  ASSUME TypeOK, NEW c \in Callers, NEW step \in Working, NEW l, Go(c, step, l),
         UNCHANGED <<callVars, value>>, at[c] # "idle"
  PROVE  UNCHANGED Contract!vars
<1>1. at'[c] = step /\ step # "idle"
  BY DEF Go, TypeOK, Working
<1>2. \A d \in Callers : SameFor(d) \/ Silent(d) \/ Goes(d)
  BY <1>1, OthersAlone DEF Goes, callVars
<1>. QED BY <1>2, Stutter DEF callVars

\* A command that returns without success has failed.
LEMMA Failing ==
  ASSUME TypeOK, NEW c \in Callers, NEW o \in {"error", "refused", "stale"}, Return(c, o),
         UNCHANGED <<callVars, value>>, at[c] # "idle"
  PROVE  Contract!Next \/ UNCHANGED Contract!vars
<1>1. CASE call[c].op # "post"
  BY <1>1, OtherCalls
<1>2. CASE call[c].op = "post"
  <2>1. at'[c] = "idle" /\ result'[c] = o
    BY DEF Return, TypeOK
  <2>2. \A d \in Callers \ {c} : SameFor(d)
    BY OthersAlone DEF callVars
  <2>3. /\ Stage' = [Stage EXCEPT ![c] = "idle"] /\ Outcome' = [Outcome EXCEPT ![c] = o]
        /\ Asked' = [Asked EXCEPT ![c] = IF call'[c].op = "post" THEN call'[c].arg ELSE "none"]
    BY <1>2, <2>1, <2>2, Seen DEF Posting, callVars
  <2>4. Asked' = Asked
    BY DEF Asked, callVars
  <2>5. Stage[c] # "idle"
    BY <1>2 DEF Stage, Posting
  <2>6. o \in Contract!Outcomes \ {"ok"}
    BY DEF Contract!Outcomes
  <2>7. Contract!Fail(c)
    BY <2>3, <2>4, <2>5, <2>6 DEF Contract!Fail, callVars
  <2>. QED BY <2>7 DEF Contract!Next
<1>. QED BY <1>1, <1>2

\* The caller at work is the only one whose command has taken effect.
LEMMA WorksAlone ==
  ASSUME Shape, Honest, NEW c \in Callers, at[c] \in Working
  PROVE  Contract!Alone(c)
<1>1. \A d \in Callers \ {c} : at[d] \notin Working
  BY DEF Shape, Lock
<1>2. \A d \in Callers \ {c} : Stage[d] # "applied"
  BY <1>1 DEF Stage, Posting, Honest, Untouched, Shape, TypeOK, Steps, Working
<1>. QED BY <1>2 DEF Contract!Alone

\* A command that takes effect does so at its caller's turn, and alone.
LEMMA TakingEffect ==
  ASSUME Shape, Honest, NEW c \in Callers, Acting(c, "post"), UNCHANGED call,
         value' = call[c].arg, applied' = [applied EXCEPT ![c] = TRUE],
         \/ \E o \in {"ok", "error"} : Return(c, o)
         \/ \E l : Go(c, "hangup", l)
  PROVE  Contract!Next
<1>1. /\ TypeOK /\ call[c].op = "post" /\ at[c] \in Working /\ at[c] # "idle"
  BY DEF Shape, Acting, Working
<1>2. \A d \in Callers \ {c} : SameFor(d)
  BY <1>1, OthersAlone
<1>3. Contract!Alone(c) /\ Stage[c] # "idle" /\ value' = Asked[c] /\ applied'[c]
  BY <1>1, WorksAlone DEF Stage, Asked, Posting, TypeOK
<1>4. Asked' = Asked
  BY DEF Asked
<1>5. ASSUME NEW o \in {"ok", "error"}, Return(c, o) PROVE Contract!Next
  <2>1. at'[c] = "idle" /\ result'[c] = o
    BY <1>1, <1>5 DEF Return, TypeOK
  <2>2. Stage' = [Stage EXCEPT ![c] = "idle"] /\ Outcome' = [Outcome EXCEPT ![c] = o]
    BY <1>1, <1>2, <2>1, Seen DEF Posting
  <2>3. CASE o = "ok"
    <3>1. Contract!Succeed(c)
      BY <1>3, <1>4, <2>2, <2>3 DEF Contract!Succeed
    <3>. QED BY <3>1 DEF Contract!Next
  <2>4. CASE o = "error"
    <3>1. Contract!ApplyAndFail(c)
      BY <1>3, <1>4, <2>2, <2>4 DEF Contract!ApplyAndFail
    <3>. QED BY <3>1 DEF Contract!Next
  <2>. QED BY <2>3, <2>4
<1>6. ASSUME NEW l, Go(c, "hangup", l) PROVE Contract!Next
  <2>1. at'[c] = "hangup"
    BY <1>1, <1>6 DEF Go, TypeOK
  <2>2. Stage' = [Stage EXCEPT ![c] = "applied"] /\ Outcome' = [Outcome EXCEPT ![c] = "none"]
    BY <1>1, <1>2, <1>3, <2>1, Seen DEF Posting
  <2>3. Outcome' = Outcome
    BY <1>1, <2>2 DEF Outcome
  <2>4. Contract!Apply(c)
    BY <1>3, <1>4, <2>2, <2>3 DEF Contract!Apply
  <2>. QED BY <2>4 DEF Contract!Next
<1>. QED BY <1>5, <1>6

\* A call begins: a command is asked, or the caller turns to something else.
LEMMA Beginning ==
  ASSUME TypeOK, NEW c \in Callers, Ask(c)
  PROVE  Contract!Next
<1>1. PICK request \in Calls : call' = [call EXCEPT ![c] = request]
  BY DEF Ask
<1>2. /\ at[c] = "idle" /\ at'[c] = "waiting" /\ call'[c] = request /\ ~applied'[c]
      /\ result'[c] = "none" /\ value' = value
  BY <1>1 DEF Ask, TypeOK, peerVars
<1>3. \A d \in Callers \ {c} : SameFor(d)
  BY <1>1 DEF Ask, TypeOK, SameFor
<1>4. Stage[c] = "idle"
  BY <1>2 DEF Stage, Posting
<1>5. CASE request.op = "post"
  <2>1. request.arg \in Values
    BY <1>5 DEF Calls
  <2>2. /\ Stage' = [Stage EXCEPT ![c] = "pending"] /\ Outcome' = [Outcome EXCEPT ![c] = "none"]
        /\ Asked' = [Asked EXCEPT ![c] = request.arg]
    BY <1>2, <1>3, <1>5, Seen DEF Posting
  <2>3. Contract!Ask(c)
    BY <1>2, <1>4, <2>1, <2>2 DEF Contract!Ask
  <2>. QED BY <2>3 DEF Contract!Next
<1>6. CASE request.op # "post"
  <2>1. /\ Stage' = [Stage EXCEPT ![c] = "idle"] /\ Outcome' = [Outcome EXCEPT ![c] = "none"]
        /\ Asked' = [Asked EXCEPT ![c] = "none"]
    BY <1>2, <1>3, <1>6, Seen DEF Posting
  <2>2. Stage' = Stage
    BY <1>4, <2>1 DEF Stage
  <2>3. Contract!Forget(c)
    BY <1>2, <1>4, <2>1, <2>2 DEF Contract!Forget
  <2>. QED BY <2>3 DEF Contract!Next
<1>. QED BY <1>5, <1>6

\* Every step of Session is a step of the contract or a stutter.
LEMMA StepRefines == Shape /\ Honest /\ [Next]_vars => [Contract!Next]_(Contract!vars)
<1> SUFFICES ASSUME Shape, Honest, [Next]_vars
             PROVE  Contract!Next \/ UNCHANGED Contract!vars
  OBVIOUS
<1> USE DEF vars, callerVars, ownVars, peerVars
<1>a. TypeOK /\ {"connect", "act", "hangup"} \subseteq Working
  BY DEF Shape, Working
<1>1. ASSUME NEW c \in Callers, Ask(c) PROVE Contract!Next
  BY <1>1, <1>a, Beginning
<1>2. ASSUME NEW c \in Callers, Acquire(c) PROVE UNCHANGED Contract!vars
  <2>1. UNCHANGED <<callVars, value>> /\ at[c] # "idle"
    BY <1>2 DEF Acquire, Turn
  <2>2. CASE call[c].op # "post"
    BY <1>2, <1>a, <2>1, <2>2, OtherCalls DEF Acquire
  <2>3. CASE call[c].op = "post"
    <3>1. \E step \in Working : Go(c, step, Fresh)
      BY <1>2, <1>a, <2>3 DEF Acquire
    <3>. QED BY <1>a, <2>1, <3>1, GoesOn
  <2>. QED BY <2>2, <2>3
<1>3. ASSUME NEW c \in Callers, HandshakeOk(c) PROVE UNCHANGED Contract!vars
  BY <1>3, <1>a, GoesOn DEF HandshakeOk
<1>4. ASSUME NEW c \in Callers, HandshakeStale(c) PROVE Contract!Next \/ UNCHANGED Contract!vars
  <2>1. UNCHANGED <<callVars, value>> /\ at[c] # "idle"
    BY <1>4 DEF HandshakeStale
  <2>2. \/ Return(c, "stale")
        \/ Go(c, "connect", [attempt[c] EXCEPT !.port = @ + 1])
    BY <1>4 DEF HandshakeStale
  <2>. QED BY <1>a, <2>1, <2>2, Failing, GoesOn
<1>5. ASSUME NEW c \in Callers, HandshakeFail(c) \/ PostRefused(c) \/ SubscribeFailed(c)
      PROVE Contract!Next \/ UNCHANGED Contract!vars
  <2>1. \E o \in {"error", "refused"} : Return(c, o)
    BY <1>5 DEF HandshakeFail, PostRefused, AfterRefusal, SubscribeFailed
  <2>2. UNCHANGED <<callVars, value>> /\ at[c] # "idle"
    BY <1>5 DEF HandshakeFail, PostRefused, SubscribeFailed, Acting
  <2>. QED BY <1>a, <2>1, <2>2, Failing
<1>6. ASSUME NEW c \in Callers, GetAnswered(c) \/ SubscribeSent(c) PROVE UNCHANGED Contract!vars
  <2>1. Return(c, "ok") /\ call[c].op # "post" /\ UNCHANGED <<callVars, value>>
    BY <1>6 DEF GetAnswered, SubscribeSent, Acting
  <2>. QED BY <1>a, <2>1, OtherCalls
<1>7. ASSUME NEW c \in Callers, GetRefused(c) \/ GetLost(c) PROVE UNCHANGED Contract!vars
  <2>1. call[c].op # "post" /\ UNCHANGED <<callVars, value>>
    BY <1>7 DEF GetRefused, GetLost, Acting
  <2>2. (\E o : Return(c, o)) \/ (\E step, l : Go(c, step, l))
    BY <1>7 DEF GetRefused, GetLost, Lose
  <2>. QED BY <1>a, <2>1, <2>2, OtherCalls
<1>8. ASSUME NEW c \in Callers, PostLost(c) PROVE Contract!Next \/ UNCHANGED Contract!vars
  <2>1. Return(c, "error") \/ Go(c, "hangup", attempt[c])
    BY <1>8 DEF PostLost, Lose
  <2>2. Acting(c, "post") /\ UNCHANGED call /\ at[c] # "idle"
    BY <1>8 DEF PostLost, Acting
  <2>3. CASE value' = call[c].arg /\ applied' = [applied EXCEPT ![c] = TRUE]
    BY <2>1, <2>2, <2>3, TakingEffect
  <2>4. CASE UNCHANGED <<value, applied>>
    BY <1>a, <2>1, <2>2, <2>4, Failing, GoesOn DEF callVars
  <2>. QED BY <1>8, <2>3, <2>4 DEF PostLost
<1>9. ASSUME NEW c \in Callers, PostAccepted(c) PROVE Contract!Next
  BY <1>9, TakingEffect DEF PostAccepted
<1>10. ASSUME NEW c \in Callers, HangUp(c) PROVE UNCHANGED Contract!vars
  <2>1. UNCHANGED <<callVars, value>> /\ at[c] # "idle"
    BY <1>10 DEF HangUp
  <2>2. \/ Return(c, "ok") /\ call[c].op # "post"
        \/ Go(c, "connect", [attempt[c] EXCEPT !.port = 0, !.again = TRUE])
    BY <1>10 DEF HangUp
  <2>. QED BY <1>a, <2>1, <2>2, OtherCalls, GoesOn
<1>11. ASSUME NEW c \in Callers, Cancel(c) PROVE UNCHANGED Contract!vars
  <2>1. Return(c, "cancelled") /\ call[c].op # "post" /\ UNCHANGED <<callVars, value>>
    BY <1>11 DEF Cancel
  <2>. QED BY <1>a, <2>1, OtherCalls
<1>12. CASE Operated
  <2>1. value' \in Values /\ \A d \in Callers : SameFor(d)
    BY <1>12 DEF Operated, SameFor, callVars
  <2>2. UNCHANGED <<Stage, Asked, Outcome>>
    BY <1>12 DEF Operated, Stage, Asked, Outcome, Posting, callVars
  <2>3. Contract!Operated
    BY <2>1, <2>2 DEF Contract!Operated
  <2>. QED BY <2>3 DEF Contract!Next
<1>13. CASE AppRestart
  <2>1. /\ Stage' = [c \in Callers |-> "idle"] /\ Outcome' = [c \in Callers |-> "none"]
        /\ Asked' = Asked /\ value' = value
    BY <1>13 DEF AppRestart, Stage, Outcome, Asked, Posting, callVars
  <2>2. Contract!Restart
    BY <2>1 DEF Contract!Restart
  <2>. QED BY <2>2 DEF Contract!Next
<1>14. CASE UNCHANGED <<callerVars, callVars, value>>
  <2>1. \A d \in Callers : SameFor(d)
    BY <1>14 DEF SameFor, callVars
  <2>. QED BY <1>14, <2>1, Stutter
<1>. QED BY <1>1, <1>2, <1>3, <1>4, <1>5, <1>6, <1>7, <1>8, <1>9, <1>10, <1>11, <1>12, <1>13,
            <1>14 DEF Next, Step, PeerDrops, OrphanExpires

\* The contract begins where Session begins.
LEMMA InitRefines == Init => Contract!Init
BY DEF Init, Contract!Init, Stage, Asked, Outcome, Posting, NoCall

\* Session implements CommandContract, through every retry, reconnect, refusal
\* and restart: a command takes effect between its call and its return, and no
\* other comes between its effect and its answer (Session.write).
THEOREM SessionKeepsContract == Spec => CommandsKeepContract
BY InitRefines, StepRefines, ShapeInit, ShapeStep, HonestInit, HonestStep, PTL
   DEF Spec, CommandsKeepContract, Contract!Spec

-----------------------------------------------------------------------------
(* Every call comes closer to its return.  A call takes at most one step   *)
(* to get the lock, LastPort + 1 handshakes and one request, and after a   *)
(* lost request one close and as many handshakes and requests again;       *)
(* whoever waits has those of everybody before it ahead.                   *)

PerCall == 2 * LastPort + 6

\* Steps the call of c can still take.
Own(c) ==
  IF at[c] = "waiting" THEN PerCall
  ELSE IF at[c] = "hangup" THEN LastPort + 3
  ELSE (IF at[c] = "connect" THEN LastPort - attempt[c].port + 1 ELSE 0)
       + (IF attempt[c].again THEN 1 ELSE LastPort + 4)

PlaceIn(q, c) == CHOOSE i \in 1..Len(q) : q[i] = c

\* Steps until c returns, its own and those of the callers before it.
ToReturn(c) == (PlaceIn(queue, c) - 1) * PerCall + Own(queue[1])

\* Nobody stands in the queue twice, or without a call.
Once(q) == \A i, j \in 1..Len(q) : q[i] = q[j] => i = j
Queued == Once(queue) /\ \A i \in 1..Len(queue) : at[queue[i]] # "idle"

\* The place of whoever stands at i is i.
LEMMA PlaceIs ==
  ASSUME NEW q, Once(q), NEW i \in 1..Len(q)
  PROVE  PlaceIn(q, q[i]) = i
<1>1. PlaceIn(q, q[i]) \in 1..Len(q) /\ q[PlaceIn(q, q[i])] = q[i]
  BY DEF PlaceIn
<1>. QED BY <1>1 DEF Once

\* What a return does to the queue: whoever stood behind moves up by one.
MovesUp(c, i) ==
  /\ i \in 1..Len(queue) /\ queue[i] = c
  /\ Len(queue') = Len(queue) - 1
  /\ \A j \in 1..(Len(queue) - 1) : queue'[j] = IF j < i THEN queue[j] ELSE queue[j + 1]

\* Every return does that.
LEMMA ReturnMovesUp ==
  ASSUME TypeOK, NEW c \in Callers, NEW o, Return(c, o)
  PROVE  \E i \in 1..Len(queue) : MovesUp(c, i)
<1>1. PICK i \in 1..Len(queue) : queue[i] = c /\ queue' = RemoveAt(queue, i)
  BY LenProperties DEF Return, Release, TypeOK
<1>2. MovesUp(c, i)
  BY <1>1, RemoveAtProperties DEF MovesUp, TypeOK
<1>. QED BY <1>2

\* Where the callers that stay were before, and where they are then.
LEMMA Moved ==
  ASSUME Len(queue) \in Nat, Once(queue), NEW c, NEW i \in 1..Len(queue), MovesUp(c, i)
  PROVE  /\ Once(queue')
         /\ \A j \in 1..Len(queue') : \E k \in 1..Len(queue) : k # i /\ queue'[j] = queue[k]
         /\ \A k \in 1..Len(queue) : k # i =>
              PlaceIn(queue', queue[k]) = IF k < i THEN k ELSE k - 1
<1>1. /\ Len(queue') = Len(queue) - 1
      /\ \A j \in 1..(Len(queue) - 1) : queue'[j] = IF j < i THEN queue[j] ELSE queue[j + 1]
  BY DEF MovesUp
<1>2. ASSUME NEW j \in 1..Len(queue')
      PROVE  LET k == IF j < i THEN j ELSE j + 1
             IN  k \in 1..Len(queue) /\ k # i /\ queue'[j] = queue[k]
  BY <1>1
<1>3. Once(queue')
  <2> SUFFICES ASSUME NEW j \in 1..Len(queue'), NEW l \in 1..Len(queue'),
                      queue'[j] = queue'[l]
               PROVE  j = l
    BY DEF Once
  <2>1. (IF j < i THEN j ELSE j + 1) = (IF l < i THEN l ELSE l + 1)
    BY <1>2 DEF Once
  <2>. QED BY <1>1, <2>1
<1>4. ASSUME NEW k \in 1..Len(queue), k # i
      PROVE  PlaceIn(queue', queue[k]) = IF k < i THEN k ELSE k - 1
  <2> DEFINE j == IF k < i THEN k ELSE k - 1
  <2>1. j \in 1..Len(queue') /\ queue'[j] = queue[k]
    BY <1>1, <1>4
  <2> HIDE DEF j
  <2>2. PlaceIn(queue', queue'[j]) = j
    BY <1>3, <2>1, PlaceIs
  <2>3. PlaceIn(queue', queue[k]) = j
    BY <2>1, <2>2
  <2>. QED BY <2>3 DEF j
<1>. QED BY <1>2, <1>3, <1>4

\* The queue stays free of doubles: only an idle caller joins it, and one that
\* returns leaves it.
LEMMA QueuedStep == Shape /\ Queued /\ [Next]_vars => Queued'
<1> SUFFICES ASSUME TypeOK, Lock, Queued, [Next]_vars PROVE Queued'
  BY DEF Shape
<1>0. Len(queue) \in Nat /\ \A i \in 1..Len(queue) : queue[i] \in Callers
  BY LenProperties, ElementOfSeq DEF TypeOK
<1>1. ASSUME NEW c \in Callers, Ask(c) PROVE Queued'
  <2>1. /\ Len(queue') = Len(queue) + 1
        /\ \A i \in 1..Len(queue) : queue'[i] = queue[i]
        /\ queue'[Len(queue) + 1] = c
    BY <1>1, AppendProperties, LenProperties DEF Ask, TypeOK
  <2>2. at' = [at EXCEPT ![c] = "waiting"] /\ at[c] = "idle"
    BY <1>1 DEF Ask
  <2>3. \A i \in 1..Len(queue) : queue[i] # c
    BY <2>2 DEF Queued
  <2>4. Once(queue')
    BY <1>0, <2>1, <2>3 DEF Queued, Once
  <2>5. ASSUME NEW i \in 1..Len(queue') PROVE at'[queue'[i]] # "idle"
    <3>1. CASE i = Len(queue) + 1
      BY <2>1, <2>2, <3>1 DEF TypeOK
    <3>2. CASE i # Len(queue) + 1
      <4>1. i \in 1..Len(queue) /\ queue'[i] = queue[i]
        BY <1>0, <2>1, <3>2
      <4>. QED BY <1>0, <2>2, <2>3, <4>1 DEF TypeOK, Queued
    <3>. QED BY <3>1, <3>2
  <2>. QED BY <2>4, <2>5 DEF Queued
<1>2. ASSUME NEW c \in Callers, NEW o, Return(c, o) PROVE Queued'
  <2>1. PICK i \in 1..Len(queue) : MovesUp(c, i)
    BY <1>2, ReturnMovesUp
  <2>2. /\ Once(queue')
        /\ \A j \in 1..Len(queue') : \E k \in 1..Len(queue) : k # i /\ queue'[j] = queue[k]
    BY <1>0, <2>1, Moved DEF Queued
  <2>3. ASSUME NEW j \in 1..Len(queue') PROVE at'[queue'[j]] # "idle"
    <3>1. PICK k \in 1..Len(queue) : k # i /\ queue'[j] = queue[k]
      BY <2>2
    <3>2. queue[k] # c /\ at[queue[k]] # "idle" /\ queue[k] \in Callers
      BY <1>0, <2>1, <3>1 DEF Queued, Once, MovesUp
    <3>3. at'[queue[k]] = at[queue[k]]
      BY <1>2, <3>2 DEF Return, TypeOK
    <3>. QED BY <3>1, <3>2, <3>3
  <2>. QED BY <2>2, <2>3 DEF Queued
<1>3. ASSUME NEW c \in Callers, NEW step \in Working, NEW l, Go(c, step, l) PROVE Queued'
  <2>1. queue' = queue /\ at' = [at EXCEPT ![c] = step] /\ step # "idle"
    BY <1>3 DEF Go, Working
  <2>. QED BY <1>0, <2>1 DEF Queued, TypeOK
<1>4. ASSUME NEW c \in Callers, Step(c) \/ Cancel(c)
      PROVE  (\E o : Return(c, o)) \/ (\E step \in Working : \E l : Go(c, step, l))
  <2>1. {"connect", "act", "hangup"} \subseteq Working
    BY DEF Working
  <2>. QED BY <1>4, <2>1
       DEF Step, Acquire, HandshakeOk, HandshakeStale, HandshakeFail, GetAnswered, GetRefused,
           GetLost, PostAccepted, PostRefused, AfterRefusal, PostLost, SubscribeSent,
           SubscribeFailed, HangUp, Lose, Cancel
<1>5. CASE UNCHANGED <<queue, at>>
  BY <1>5 DEF Queued
<1>6. CASE AppRestart
  <2>1. queue' = <<>>
    BY <1>6 DEF AppRestart
  <2>. QED BY <2>1 DEF Queued, Once
<1>. QED BY <1>1, <1>2, <1>3, <1>4, <1>5, <1>6
         DEF Next, vars, callerVars, PeerDrops, Operated, OrphanExpires

\* The steps of a call that is under way are between one and PerCall.
LEMMA OwnIsBounded ==
  ASSUME TypeOK, NEW c \in Callers, at[c] # "idle"
  PROVE  Own(c) \in 1..PerCall /\ PerCall \in Nat
<1>1. attempt[c].port \in 0..LastPort /\ attempt[c].again \in BOOLEAN
  BY DEF TypeOK, Attempts, Ports
<1>2. at[c] \in {"waiting", "connect", "act", "hangup"}
  BY DEF TypeOK, Steps
<1>. QED BY <1>1, <1>2, LastPortAssumption DEF Own, PerCall

\* A caller that goes on has fewer steps left when it is further on its way.
LEMMA OwnOfGoing ==
  ASSUME TypeOK, NEW c \in Callers, NEW step \in Working, NEW l, Go(c, step, l)
  PROVE  Own(c)' = IF step = "hangup" THEN LastPort + 3
                   ELSE (IF step = "connect" THEN LastPort - l.port + 1 ELSE 0)
                        + (IF l.again THEN 1 ELSE LastPort + 4)
<1>1. at'[c] = step /\ attempt'[c] = l /\ step # "waiting"
  BY DEF Go, TypeOK, Working
<1>. QED BY <1>1 DEF Own

\* A step of a call is a step of the holder of the lock, or of the first waiter,
\* and it returns or has fewer steps left.
LEMMA StepsGoForward ==
  ASSUME Shape, NEW c \in Callers, Step(c)
  PROVE  /\ Len(queue) > 0 /\ queue[1] = c /\ at[c] # "idle"
         /\ \/ \E o : Return(c, o)
            \/ \E step \in Working : \E l : Go(c, step, l) /\ Own(c)' < Own(c)
<1>a. TypeOK /\ Lock /\ {"connect", "act", "hangup"} \subseteq Working
  BY DEF Shape, Working
<1>b. /\ attempt[c] \in Attempts /\ attempt[c].port \in 0..LastPort
      /\ attempt[c].again \in BOOLEAN /\ LastPort \in Nat
  BY <1>a, LastPortAssumption DEF TypeOK, Attempts, Ports
<1>c. at[c] \in Working \/ Turn(c)
  BY <1>a DEF Step, Acquire, HandshakeOk, HandshakeStale, HandshakeFail, GetAnswered,
              GetRefused, GetLost, PostAccepted, PostRefused, PostLost, SubscribeSent,
              SubscribeFailed, HangUp, Acting
<1>1. Len(queue) > 0 /\ queue[1] = c /\ at[c] # "idle"
  <2>1. CASE at[c] \in Working
    BY <1>a, <2>1 DEF Lock, Working
  <2>2. CASE Turn(c)
    <3>1. at[c] # "idle"
      BY <2>2 DEF Turn
    <3>2. PICK i \in 1..Len(queue) : queue[i] = c
      BY <1>a, <3>1 DEF Lock
    <3>3. Len(queue) \in Nat /\ Len(queue) > 0
      BY <1>a, <3>2, LenProperties DEF TypeOK
    <3>4. Head(queue) = queue[1]
      BY <1>a, <3>3 DEF TypeOK
    <3>. QED BY <2>2, <3>1, <3>3, <3>4 DEF Turn
  <2>. QED BY <1>c, <2>1, <2>2
<1>2. CASE Acquire(c)
  <2>1. Own(c) = 2 * LastPort + 6
    BY <1>2 DEF Acquire, Turn, Own, PerCall
  <2>2. ASSUME NEW step \in Working, Go(c, step, Fresh) PROVE Own(c)' < Own(c)
    BY <1>a, <1>b, <2>1, <2>2, OwnOfGoing DEF Fresh
  <2>3. Return(c, "ok") \/ \E step \in Working : Go(c, step, Fresh)
    BY <1>2, <1>a DEF Acquire
  <2>. QED BY <1>1, <2>2, <2>3
<1>3. CASE HandshakeOk(c)
  <2>1. Go(c, "act", attempt[c]) /\ at[c] = "connect"
    BY <1>3 DEF HandshakeOk
  <2>2. Own(c)' = IF attempt[c].again THEN 1 ELSE LastPort + 4
    BY <1>a, <1>b, <2>1, OwnOfGoing
  <2>3. Own(c) = (LastPort - attempt[c].port + 1) + (IF attempt[c].again THEN 1 ELSE LastPort + 4)
    BY <2>1 DEF Own
  <2>. QED BY <1>1, <1>a, <1>b, <2>1, <2>2, <2>3
<1>4. CASE HandshakeStale(c)
  <2> DEFINE l == [attempt[c] EXCEPT !.port = @ + 1]
  <2>1. CASE Return(c, "stale")
    BY <1>1, <2>1
  <2>2. CASE Go(c, "connect", l)
    <3>1. l.port = attempt[c].port + 1 /\ l.again = attempt[c].again
      BY <1>b DEF Attempts
    <3>2. Own(c)' = (LastPort - l.port + 1) + (IF l.again THEN 1 ELSE LastPort + 4)
      BY <1>a, <2>2, OwnOfGoing
    <3>3. Own(c) = (LastPort - attempt[c].port + 1)
                   + (IF attempt[c].again THEN 1 ELSE LastPort + 4)
      BY <1>4 DEF HandshakeStale, Own
    <3>4. Own(c)' < Own(c)
      BY <1>b, <3>1, <3>2, <3>3
    <3>. QED BY <1>1, <1>a, <2>2, <3>4
  <2>. QED BY <1>4, <2>1, <2>2 DEF HandshakeStale
<1>5. CASE HandshakeFail(c) \/ GetAnswered(c) \/ PostAccepted(c) \/ PostRefused(c)
           \/ SubscribeSent(c) \/ SubscribeFailed(c)
  BY <1>1, <1>5 DEF HandshakeFail, GetAnswered, PostAccepted, PostRefused, AfterRefusal,
                    SubscribeSent, SubscribeFailed
<1>6. CASE GetRefused(c) \/ GetLost(c) \/ PostLost(c)
  <2>1. at[c] = "act" /\ \E l : Lose(c, l)
    BY <1>6 DEF GetRefused, GetLost, PostLost, Acting
  <2>2. ASSUME NEW l, ~attempt[c].again, Go(c, "hangup", l) PROVE Own(c)' < Own(c)
    <3>1. Own(c)' = LastPort + 3
      BY <1>a, <2>2, OwnOfGoing
    <3>2. Own(c) = 0 + (LastPort + 4)
      BY <2>1, <2>2 DEF Own
    <3>. QED BY <1>b, <3>1, <3>2
  <2>3. (\E o : Return(c, o)) \/ (~attempt[c].again /\ \E l : Go(c, "hangup", l))
    BY <2>1 DEF Lose
  <2>. QED BY <1>1, <1>a, <2>2, <2>3
<1>7. CASE HangUp(c)
  <2> DEFINE l == [attempt[c] EXCEPT !.port = 0, !.again = TRUE]
  <2>1. l.port = 0 /\ l.again = TRUE
    BY <1>b DEF Attempts
  <2>2. CASE Go(c, "connect", l)
    <3>1. Own(c)' = (LastPort - l.port + 1) + (IF l.again THEN 1 ELSE LastPort + 4)
      BY <1>a, <2>2, OwnOfGoing
    <3>2. Own(c) = LastPort + 3
      BY <1>7 DEF HangUp, Own
    <3>3. Own(c)' < Own(c)
      BY <1>b, <2>1, <3>1, <3>2
    <3>. QED BY <1>1, <1>a, <2>2, <3>3
  <2>. QED BY <1>1, <1>7, <2>2 DEF HangUp
<1>. QED BY <1>2, <1>3, <1>4, <1>5, <1>6, <1>7 DEF Step

\* The same of the state a step leads to.
LEMMA OwnIsBoundedNext ==
  ASSUME TypeOK', NEW c \in Callers, at'[c] # "idle"
  PROVE  Own(c)' \in 1..PerCall
<1>1. attempt'[c].port \in 0..LastPort /\ attempt'[c].again \in BOOLEAN
  BY DEF TypeOK, Attempts, Ports
<1>2. at'[c] \in {"waiting", "connect", "act", "hangup"}
  BY DEF TypeOK, Steps
<1>. QED BY <1>1, <1>2, LastPortAssumption DEF Own, PerCall

\* Somebody going on at the head of the queue brings everyone in it closer.
LEMMA GoingBringsCloser ==
  ASSUME Shape, TypeOK', Queued, NEW c \in Callers, NEW step \in Working, NEW l,
         Go(c, step, l), Len(queue) > 0, queue[1] = c, at[c] # "idle", Own(c)' < Own(c),
         NEW d \in Callers, at[d] # "idle"
  PROVE  ToReturn(d)' < ToReturn(d)
<1>1. queue' = queue /\ at'[c] # "idle"
  BY DEF Go, Shape, TypeOK, Working
<1>2. PICK i \in 1..Len(queue) : queue[i] = d
  BY DEF Shape, Lock
<1>3. PlaceIn(queue, d) = i /\ i - 1 \in Int
  BY <1>2, PlaceIs DEF Queued
<1>4. Own(c) \in Int /\ PerCall \in Int
  BY OwnIsBounded DEF Shape
<1>5. Own(c)' \in Int
  BY <1>1, OwnIsBoundedNext
<1>6. \A m \in Int : m + Own(c)' < m + Own(c)
  BY <1>4, <1>5
<1>7. (i - 1) * PerCall \in Int
  BY <1>3, <1>4
<1>8. ToReturn(d) = (i - 1) * PerCall + Own(c)
  BY <1>3 DEF ToReturn
<1>9. ToReturn(d)' = (i - 1) * PerCall + Own(c)'
  BY <1>1, <1>3 DEF ToReturn
<1>. QED BY <1>6, <1>7, <1>8, <1>9

\* A return, or a cancelled wait, never moves anybody back, and the return of
\* the holder brings everyone closer.
LEMMA ReturnBringsCloser ==
  ASSUME Shape, TypeOK', Queued, NEW c \in Callers, NEW o, Return(c, o),
         NEW d \in Callers, at[d] # "idle", at'[d] # "idle"
  PROVE  /\ ToReturn(d)' <= ToReturn(d)
         /\ queue[1] = c => ToReturn(d)' < ToReturn(d)
<1>0. /\ TypeOK /\ Lock /\ Len(queue) \in Nat
      /\ \A i \in 1..Len(queue) : queue[i] \in Callers
  BY LenProperties, ElementOfSeq DEF Shape, TypeOK
<1>1. PICK i \in 1..Len(queue) : MovesUp(c, i)
  BY <1>0, ReturnMovesUp
<1>2. queue[i] = c /\ Len(queue') = Len(queue) - 1
  BY <1>1 DEF MovesUp
<1>3. PICK k \in 1..Len(queue) : queue[k] = d
  BY <1>0 DEF Lock
<1>4. at'[c] = "idle" /\ \A e \in Callers \ {c} : at'[e] = at[e] /\ attempt'[e] = attempt[e]
  BY <1>0 DEF Return, TypeOK
<1>5. d # c /\ k # i
  BY <1>2, <1>3, <1>4
<1>6. PlaceIn(queue, d) = k /\ PlaceIn(queue', d) = IF k < i THEN k ELSE k - 1
  BY <1>0, <1>1, <1>3, <1>5, PlaceIs, Moved DEF Queued
<1>7. Len(queue) > 0 /\ queue[1] \in Callers /\ at[queue[1]] # "idle"
  BY <1>0, <1>3 DEF Queued
<1>8. Own(queue[1]) \in 1..PerCall /\ PerCall \in Nat
  BY <1>0, <1>7, OwnIsBounded
<1>9. ToReturn(d) = (k - 1) * PerCall + Own(queue[1])
  BY <1>6 DEF ToReturn
<1>10. \A m \in Int : (m + 1) * PerCall = m * PerCall + PerCall /\ m * PerCall \in Int
  BY <1>8
<1>11. CASE i = 1
  <2>1. k - 2 \in Int /\ k > 1 /\ (k - 2) + 1 = k - 1 /\ (k - 1) - 1 = k - 2
    BY <1>3, <1>5, <1>11
  <2>2. queue'[1] = queue[2] /\ 2 \in 1..Len(queue)
    BY <1>0, <1>1, <1>11, <2>1 DEF MovesUp
  <2>3. queue[2] \in Callers \ {c} /\ at[queue[2]] # "idle"
    BY <1>0, <1>2, <1>11, <2>2 DEF Queued, Once
  <2>4. at[queue[2]] \notin Working
    BY <1>0, <1>2, <1>11, <2>3 DEF Lock
  <2>5. at'[queue'[1]] = "waiting"
    BY <1>0, <1>4, <2>2, <2>3, <2>4 DEF TypeOK, Steps, Working
  <2>6. Own(queue[1])' = PerCall
    BY <2>5 DEF Own
  <2>7. PlaceIn(queue', d) - 1 = k - 2
    BY <1>6, <1>11, <2>1
  <2>8. ToReturn(d)' = (k - 2) * PerCall + PerCall
    BY <2>6, <2>7 DEF ToReturn
  <2>9. ToReturn(d)' = (k - 1) * PerCall /\ (k - 1) * PerCall \in Int
    <3>1. ((k - 2) + 1) * PerCall = (k - 2) * PerCall + PerCall /\ k - 1 \in Int
      BY <1>10, <2>1
    <3>. QED BY <1>10, <2>1, <2>8, <3>1
  <2>. QED BY <1>8, <1>9, <2>9
<1>12. CASE i # 1
  <2>1. queue'[1] = queue[1] /\ queue[1] # c
    <3>1. 1 \in 1..(Len(queue) - 1) /\ 1 < i
      BY <1>0, <1>12
    <3>2. queue'[1] = queue[1]
      BY <1>1, <3>1 DEF MovesUp
    <3>3. queue[1] # c
      BY <1>2, <1>12, <1>7, <1>0 DEF Queued, Once
    <3>. QED BY <3>2, <3>3
  <2>2. Own(queue[1])' = Own(queue[1])
    BY <1>4, <1>7, <2>1 DEF Own
  <2>3. k - 1 \in Int /\ k - 2 \in Int /\ (k - 2) + 1 = k - 1 /\ (k - 1) - 1 = k - 2
    BY <1>3
  <2>4. ToReturn(d)' = (IF k < i THEN k - 1 ELSE k - 2) * PerCall + Own(queue[1])
    BY <1>6, <2>2, <2>3 DEF ToReturn
  <2>5. CASE k < i
    <3>1. ToReturn(d)' = ToReturn(d) /\ ToReturn(d) \in Int
      BY <1>8, <1>9, <1>10, <2>3, <2>4, <2>5
    <3>. QED BY <2>1, <3>1
  <2>6. CASE ~(k < i)
    <3>1. ToReturn(d)' = (k - 2) * PerCall + Own(queue[1])
      BY <2>4, <2>6
    <3>2. ToReturn(d) = (k - 2) * PerCall + PerCall + Own(queue[1]) /\ (k - 2) * PerCall \in Int
      <4>1. ((k - 2) + 1) * PerCall = (k - 2) * PerCall + PerCall /\ (k - 2) * PerCall \in Int
        BY <1>10, <2>3
      <4>. QED BY <1>9, <2>3, <4>1
    <3>. QED BY <1>8, <2>1, <3>1, <3>2
  <2>. QED BY <2>5, <2>6
<1>. QED BY <1>11, <1>12

\* A call that joins the queue, and whatever the appliance does, keeps nobody.
LEMMA OthersKeepNobody ==
  ASSUME Shape, Queued, NEW d \in Callers, at[d] # "idle",
         (\E c \in Callers : Ask(c)) \/ UNCHANGED callerVars
  PROVE  ToReturn(d)' = ToReturn(d)
<1>0. TypeOK /\ Lock /\ Len(queue) \in Nat
  BY LenProperties DEF Shape, TypeOK
<1>1. CASE UNCHANGED callerVars
  BY <1>1 DEF callerVars, ToReturn, Own
<1>2. ASSUME NEW c \in Callers, Ask(c) PROVE ToReturn(d)' = ToReturn(d)
  <2>1. /\ Len(queue') = Len(queue) + 1
        /\ \A i \in 1..Len(queue) : queue'[i] = queue[i]
        /\ queue'[Len(queue) + 1] = c
    BY <1>0, <1>2, AppendProperties DEF Ask, TypeOK
  <2>2. PICK k \in 1..Len(queue) : queue[k] = d
    BY <1>0 DEF Lock
  <2>3. /\ at' = [at EXCEPT ![c] = "waiting"] /\ at[c] = "idle" /\ attempt' = attempt
    BY <1>2 DEF Ask
  <2>4. Once(queue')
    BY <1>0, <2>1, <2>3 DEF Queued, Once
  <2>5. k \in 1..Len(queue') /\ queue'[k] = d
    BY <1>0, <2>1, <2>2
  <2>6. PlaceIn(queue, d) = k /\ PlaceIn(queue', d) = k
    BY <2>2, <2>4, <2>5, PlaceIs DEF Queued
  <2>7. queue'[1] = queue[1] /\ 1 \in 1..Len(queue)
    BY <1>0, <2>1, <2>2
  <2>8. queue[1] \in Callers /\ queue[1] # c
    BY <1>0, <2>3, <2>7, ElementOfSeq DEF Queued, TypeOK
  <2>9. Own(queue[1])' = Own(queue[1])
    BY <1>0, <2>3, <2>7, <2>8 DEF Own, TypeOK
  <2>. QED BY <2>6, <2>9 DEF ToReturn
<1>. QED BY <1>1, <1>2

\* How far a call can be from its return.
LEMMA ReturnIsBounded ==
  ASSUME Shape, Queued, NEW c \in Callers, at[c] # "idle"
  PROVE  ToReturn(c) \in 1..(PerCall * Len(queue))
<1>0. /\ TypeOK /\ Lock /\ Len(queue) \in Nat
      /\ \A i \in 1..Len(queue) : queue[i] \in Callers
  BY LenProperties, ElementOfSeq DEF Shape, TypeOK
<1>1. PICK k \in 1..Len(queue) : queue[k] = c
  BY <1>0 DEF Lock
<1>2. PlaceIn(queue, c) = k
  BY <1>1, PlaceIs DEF Queued
<1>3. Own(queue[1]) \in 1..PerCall /\ PerCall \in Nat
  BY <1>0, <1>1, OwnIsBounded DEF Queued
<1>4. \A n, m \in Nat : \A x \in 1..m, y \in 1..n :
         (y - 1) * m + x >= 1 /\ (y - 1) * m + x <= m * n
  <2> SUFFICES ASSUME NEW n \in Nat, NEW m \in Nat, NEW x \in 1..m, NEW y \in 1..n
               PROVE  (y - 1) * m + x >= 1 /\ (y - 1) * m + x <= m * n
    OBVIOUS
  <2>1. (y - 1) * m >= 0 /\ (y - 1) * m \in Int
    OBVIOUS
  <2>2. m * n = (y - 1) * m + m + (n - y) * m
    OBVIOUS
  <2>3. (n - y) * m >= 0 /\ (n - y) * m \in Int
    OBVIOUS
  <2>. QED BY <2>1, <2>2, <2>3
<1>. QED BY <1>0, <1>1, <1>2, <1>3, <1>4 DEF ToReturn

\* Every call comes closer to its return with every step anybody takes on the
\* wire, and nothing pushes it back: not a call that joins the queue, a cancelled
\* one, a handshake retried on the next window, a session lost and rebuilt, or
\* the appliance.  With LastPort + 1 windows a call takes 2 LastPort + 6 steps at
\* most, and waits for as many of each call before it (Session._lock).
THEOREM EveryReturnComesCloser ==
  Spec => /\ [](\A c \in Callers : at[c] # "idle" =>
                  ToReturn(c) \in 1..(PerCall * Len(queue)))
          /\ [][\A c \in Callers : at[c] # "idle" /\ at'[c] # "idle" =>
                  /\ ToReturn(c)' <= ToReturn(c)
                  /\ (\E h \in Callers : Step(h)) => ToReturn(c)' < ToReturn(c)]_vars
<1> DEFINE Bounded == \A c \in Callers : at[c] # "idle" =>
                        ToReturn(c) \in 1..(PerCall * Len(queue))
           Closer == \A c \in Callers : at[c] # "idle" /\ at'[c] # "idle" =>
                       /\ ToReturn(c)' <= ToReturn(c)
                       /\ (\E h \in Callers : Step(h)) => ToReturn(c)' < ToReturn(c)
<1>1. Shape /\ Queued => Bounded
  BY ReturnIsBounded
<1>2. Shape /\ Shape' /\ Queued /\ [Next]_vars => [Closer]_vars
  <2> SUFFICES ASSUME Shape, Shape', Queued, Next,
                      NEW d \in Callers, at[d] # "idle", at'[d] # "idle"
               PROVE  /\ ToReturn(d)' <= ToReturn(d)
                      /\ (\E h \in Callers : Step(h)) => ToReturn(d)' < ToReturn(d)
    OBVIOUS
  <2>0. TypeOK' /\ TypeOK
    BY DEF Shape
  <2>1. ToReturn(d) \in Int
    BY ReturnIsBounded
  <2>2. ASSUME NEW h \in Callers, Step(h) PROVE ToReturn(d)' < ToReturn(d)
    <3>1. /\ Len(queue) > 0 /\ queue[1] = h /\ at[h] # "idle"
          /\ \/ \E o : Return(h, o)
             \/ \E step \in Working : \E l : Go(h, step, l) /\ Own(h)' < Own(h)
      BY <2>2, StepsGoForward
    <3>2. ASSUME NEW o, Return(h, o) PROVE ToReturn(d)' < ToReturn(d)
      BY <2>0, <3>1, <3>2, ReturnBringsCloser
    <3>3. ASSUME NEW step \in Working, NEW l, Go(h, step, l), Own(h)' < Own(h)
          PROVE  ToReturn(d)' < ToReturn(d)
      BY <2>0, <3>1, <3>3, GoingBringsCloser
    <3>. QED BY <3>1, <3>2, <3>3
  <2>3. ASSUME NEW c \in Callers, Cancel(c) PROVE ToReturn(d)' <= ToReturn(d)
    <3>1. Return(c, "cancelled")
      BY <2>3 DEF Cancel
    <3>. QED BY <2>0, <3>1, ReturnBringsCloser
  <2>4. ASSUME (\E c \in Callers : Ask(c)) \/ UNCHANGED callerVars
        PROVE  ToReturn(d)' <= ToReturn(d)
    BY <2>1, <2>4, OthersKeepNobody
  <2>5. ~AppRestart
    BY DEF AppRestart
  <2>6. ToReturn(d)' \in Int
    <3>1. Queued'
      BY QueuedStep
    <3>2. (Shape /\ Queued => Bounded)'
      BY <1>1, PTL
    <3>. QED BY <3>1, <3>2
  <2>7. (\E h \in Callers : Step(h)) => ToReturn(d)' <= ToReturn(d)
    BY <2>1, <2>2, <2>6
  <2>8. ToReturn(d)' <= ToReturn(d)
    BY <2>3, <2>4, <2>5, <2>7 DEF Next, PeerDrops, Operated, OrphanExpires, callerVars
  <2>. QED BY <2>2, <2>8
<1>3. Init => Queued
  BY DEF Init, Queued, Once
<1> HIDE DEF Bounded, Closer
<1>4. Spec => []Bounded /\ [][Closer]_vars
  BY <1>1, <1>2, <1>3, ShapeInit, ShapeStep, QueuedStep, PTL DEF Spec
<1>. QED BY <1>4 DEF Bounded, Closer
=============================================================================
