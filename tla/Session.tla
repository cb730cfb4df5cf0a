------------------------------ MODULE Session ------------------------------
(***************************************************************************)
(* lib/session.py: one Session object, the callers that share it through   *)
(* its asyncio lock, and the appliance at the other end of the wire.       *)
(*                                                                         *)
(* Every request runs in an executor thread while its caller holds the     *)
(* lock, so one action is one awaited step of the holder.  A source port   *)
(* is the index of its window in DTLS_LOCAL_PORT_BASES: attempt n always   *)
(* uses window n.  The appliance keeps one association per source port: an *)
(* orphan is one whose socket on our side is gone without close_notify.    *)
(***************************************************************************)
EXTENDS Integers, SequencesExt

CONSTANTS
  Callers,   \* the poll loop, Flow cards, listeners, Repair
  Paths,     \* resources that can be subscribed
  Values,    \* values a command may ask for
  LastPort   \* len(DTLS_LOCAL_PORT_BASES) - 1

ASSUME LastPortAssumption == LastPort \in Nat

Ports == 0..LastPort
None == -1
Calls == [op : {"get", "close"}, arg : {"none"}]
           \cup [op : {"post"}, arg : Values] \cup [op : {"subscribe"}, arg : Paths]
NoCall == [op |-> "close", arg |-> "none"]
Results == {"none", "ok", "refused", "error", "stale", "cancelled"}

VARIABLES
  queue,       \* the asyncio lock: its head holds it, the rest wait in order
  at,          \* the step each caller is suspended in
  call,        \* what it asked for
  attempt,     \* the locals of its call, and what became of its requests
  result,      \* what its last call returned or raised
  applied,     \* the appliance has set the value for this call
  session,     \* the source port of self._session, or None
  subscribed,  \* _subscribed
  alive,       \* the appliance still holds self._session's association
  orphans,     \* ports whose association the appliance holds for nobody
  registered,  \* paths it notifies on that association
  value        \* the value it holds

callVars == <<call, applied>>
ownVars == <<session, subscribed>>
peerVars == <<alive, orphans, registered, value>>
callerVars == <<queue, at, attempt, result>>
vars == <<callerVars, callVars, ownVars, peerVars>>

Steps == {"idle", "waiting", "connect", "act", "hangup"}

\* The handshake attempt a call has reached; has it closed and reconnected once;
\* has the appliance answered it, with whatever code (history).
Attempts == [port : Ports, again : BOOLEAN, answered : BOOLEAN]
Fresh == [port |-> 0, again |-> FALSE, answered |-> FALSE]

TypeOK ==
  /\ queue \in Seq(Callers) /\ at \in [Callers -> Steps]
  /\ call \in [Callers -> Calls] /\ attempt \in [Callers -> Attempts]
  /\ result \in [Callers -> Results]
  /\ applied \in [Callers -> BOOLEAN]
  /\ session \in Ports \cup {None}
  /\ subscribed \subseteq Paths /\ registered \subseteq Paths
  /\ alive \in BOOLEAN /\ orphans \subseteq Ports /\ value \in Values

Init ==
  /\ queue = <<>> /\ at = [c \in Callers |-> "idle"]
  /\ call = [c \in Callers |-> NoCall] /\ attempt = [c \in Callers |-> Fresh]
  /\ result = [c \in Callers |-> "none"]
  /\ applied = [c \in Callers |-> FALSE]
  /\ session = None /\ subscribed = {} /\ registered = {}
  /\ alive = FALSE /\ orphans = {} /\ value \in Values

-----------------------------------------------------------------------------
(* Taking and leaving the lock. *)

Ask(c) ==
  /\ at[c] = "idle"
  /\ \E request \in Calls : call' = [call EXCEPT ![c] = request]
  /\ at' = [at EXCEPT ![c] = "waiting"]
  /\ queue' = Append(queue, c)
  /\ result' = [result EXCEPT ![c] = "none"]
  /\ applied' = [applied EXCEPT ![c] = FALSE]
  /\ UNCHANGED <<attempt, ownVars, peerVars>>

\* The lock is handed to its first waiter; the mutant serves any of them at once.
TurnOfAny(c) == at[c] = "waiting"
Turn(c) == at[c] = "waiting" /\ Head(queue) = c

\* `async with self._lock` gives the lock back on every way out.
ReleaseForgotten(c) == UNCHANGED queue
Release(c) == \E i \in DOMAIN queue : queue[i] = c /\ queue' = RemoveAt(queue, i)

Return(c, outcome) ==
  /\ at' = [at EXCEPT ![c] = "idle"]
  /\ result' = [result EXCEPT ![c] = outcome]
  /\ attempt' = [attempt EXCEPT ![c] = Fresh]
  /\ Release(c)

Go(c, step, locals) ==
  /\ at' = [at EXCEPT ![c] = step] /\ attempt' = [attempt EXCEPT ![c] = locals]
  /\ UNCHANGED <<queue, result>>

Acquire(c) ==
  /\ Turn(c)
  /\ IF call[c].op = "close"
     THEN IF session = None THEN Return(c, "ok") ELSE Go(c, "hangup", Fresh)
     ELSE Go(c, IF session = None THEN "connect" ELSE "act", Fresh)
  /\ UNCHANGED <<callVars, ownVars, peerVars>>

-----------------------------------------------------------------------------
(* _connect_unlocked. *)

\* The appliance accepts a handshake from a free port, or evicts the orphan it
\* holds there; then every subscription is replayed, and one whose replay
\* raises is dropped.  The mutant has no replay.
ReplayNothing(kept) == UNCHANGED subscribed /\ registered' = {}
Replay(kept) == subscribed' = kept /\ registered' = kept

HandshakeOk(c) ==
  /\ at[c] = "connect"
  /\ session' = attempt[c].port /\ alive' = TRUE
  /\ orphans' = orphans \ {attempt[c].port}
  /\ \E kept \in SUBSET subscribed : Replay(kept)
  /\ Go(c, "act", attempt[c])
  /\ UNCHANGED <<callVars, value>>

\* peer_holds_stale_session: only this failure moves on to the next window; the
\* mutant goes one window too far.
LastTryLate(c) == attempt[c].port > LastPort
LastTry(c) == attempt[c].port = LastPort

HandshakeStale(c) ==
  /\ at[c] = "connect" /\ attempt[c].port \in orphans
  /\ IF LastTry(c)
     THEN Return(c, "stale")
     ELSE Go(c, "connect", [attempt[c] EXCEPT !.port = @ + 1])
  /\ UNCHANGED <<callVars, ownVars, peerVars>>

HandshakeFail(c) ==
  /\ at[c] = "connect"
  /\ Return(c, "error")
  /\ UNCHANGED <<callVars, ownVars, peerVars>>

-----------------------------------------------------------------------------
(* The request itself. *)

Acting(c, op) == at[c] = "act" /\ call[c].op = op

\* A timeout or ConnectionError: once, close, reconnect and ask again.
Lose(c, locals) ==
  IF attempt[c].again THEN Return(c, "error") ELSE Go(c, "hangup", locals)

GetAnswered(c) ==
  /\ Acting(c, "get") /\ alive
  /\ Return(c, "ok")
  /\ UNCHANGED <<callVars, ownVars, peerVars>>

\* _get_unlocked raises ConnectionError for an answered error code as well,
\* and _get treats it as a lost session.
GetRefused(c) ==
  /\ Acting(c, "get") /\ alive
  /\ Lose(c, [attempt[c] EXCEPT !.answered = TRUE])
  /\ UNCHANGED <<callVars, ownVars, peerVars>>

GetLost(c) ==
  /\ Acting(c, "get")
  /\ Lose(c, attempt[c])
  /\ UNCHANGED <<callVars, ownVars, peerVars>>

\* A POST that arrives: the appliance takes a new value, or refuses: always
\* one it already holds, any other if it will not take it.
PostAccepted(c) ==
  /\ Acting(c, "post") /\ alive /\ value # call[c].arg
  /\ value' = call[c].arg /\ applied' = [applied EXCEPT ![c] = TRUE]
  /\ Return(c, "ok")
  /\ UNCHANGED <<call, ownVars, alive, orphans, registered>>

\* An answered refusal is final, whatever its code.  One mutant re-sends it,
\* the other takes any answer for success.
AfterRefusalRetried(c) == Lose(c, [attempt[c] EXCEPT !.answered = TRUE])
AfterRefusalBelieved(c) == Return(c, "ok")
AfterRefusal(c) == Return(c, "refused")

PostRefused(c) ==
  /\ Acting(c, "post") /\ alive
  /\ AfterRefusal(c)
  /\ UNCHANGED <<callVars, ownVars, peerVars>>

\* The POST or its answer is lost: the appliance may have applied it.
PostLost(c) ==
  /\ Acting(c, "post")
  /\ \/ alive /\ value # call[c].arg
        /\ value' = call[c].arg /\ applied' = [applied EXCEPT ![c] = TRUE]
     \/ UNCHANGED <<value, applied>>
  /\ Lose(c, attempt[c])
  /\ UNCHANGED <<call, ownVars, alive, orphans, registered>>

\* Fire and forget: the path is recorded once the datagram has left.
SubscribeSent(c) ==
  /\ Acting(c, "subscribe")
  /\ subscribed' = subscribed \cup {call[c].arg}
  /\ registered' = IF alive THEN registered \cup {call[c].arg} ELSE registered
  /\ Return(c, "ok")
  /\ UNCHANGED <<callVars, session, alive, orphans, value>>

SubscribeFailed(c) ==
  /\ Acting(c, "subscribe")
  /\ Return(c, "error")
  /\ UNCHANGED <<callVars, ownVars, peerVars>>

\* _close_unlocked, for close() and for the one reconnect of a lost request.
\* A close_notify that gets lost leaves the association behind.
HangUp(c) ==
  /\ at[c] = "hangup"
  /\ session' = None /\ alive' = FALSE /\ registered' = {}
  /\ \/ UNCHANGED orphans
     \/ alive /\ orphans' = orphans \cup {session}
  /\ IF call[c].op = "close"
     THEN Return(c, "ok")
     ELSE Go(c, "connect", [attempt[c] EXCEPT !.port = 0, !.again = TRUE])
  /\ UNCHANGED <<callVars, subscribed, value>>

-----------------------------------------------------------------------------
(* Cancellation, the appliance, and the end of the process. *)

\* on_uninit cancels the poll task, the one caller that never posts.  What its
\* executor thread is doing goes on: a handshake completes for nobody, and a
\* subscription may still reach the appliance.
Cancel(c) ==
  /\ at[c] # "idle" /\ call[c].op # "post"
  /\ Return(c, "cancelled")
  /\ \/ at[c] = "connect" /\ orphans' = orphans \cup {attempt[c].port}
     \/ UNCHANGED orphans
  /\ IF at[c] = "hangup"
     THEN session' = None /\ alive' = FALSE /\ registered' = {}
     ELSE /\ UNCHANGED <<session, alive>>
          /\ registered' \in {registered} \cup
               {registered \cup {p} : p \in {q \in Paths : alive /\ at[c] = "act"
                                               /\ call[c] = [op |-> "subscribe", arg |-> q]}}
  /\ UNCHANGED <<callVars, subscribed, value>>

\* The firmware drops the association between polls, or reboots.
PeerDrops ==
  /\ alive
  /\ alive' = FALSE /\ registered' = {}
  /\ UNCHANGED <<callerVars, callVars, ownVars, orphans, value>>

\* An orphaned association expires after 5 to 15 minutes.
OrphanExpires(p) ==
  /\ p \in orphans
  /\ orphans' = orphans \ {p}
  /\ UNCHANGED <<callerVars, callVars, ownVars, alive, registered, value>>

\* Somebody uses the appliance's own panel.
Operated ==
  /\ value' \in Values \ {value}
  /\ UNCHANGED <<callerVars, callVars, ownVars, alive, orphans, registered>>

\* The app is killed and started again: no close_notify is sent.
AppRestart ==
  /\ queue' = <<>> /\ at' = [c \in Callers |-> "idle"]
  /\ result' = [c \in Callers |-> "none"] /\ attempt' = [c \in Callers |-> Fresh]
  /\ session' = None /\ subscribed' = {}
  /\ alive' = FALSE /\ registered' = {}
  /\ orphans' = orphans \cup (IF alive THEN {session} ELSE {})
  /\ UNCHANGED <<callVars, value>>

Step(c) ==
  \/ Acquire(c) \/ HandshakeOk(c) \/ HandshakeStale(c) \/ HandshakeFail(c)
  \/ GetAnswered(c) \/ GetRefused(c) \/ GetLost(c)
  \/ PostAccepted(c) \/ PostRefused(c) \/ PostLost(c)
  \/ SubscribeSent(c) \/ SubscribeFailed(c) \/ HangUp(c)

Next ==
  \/ \E c \in Callers : Ask(c) \/ Step(c) \/ Cancel(c)
  \/ PeerDrops \/ Operated \/ (\E p \in Ports : OrphanExpires(p)) \/ AppRestart

Spec == Init /\ [][Next]_vars

\* Executor threads finish and the loop resumes whoever waits for them.
FairSpec == Spec /\ \A c \in Callers : WF_vars(Step(c))

-----------------------------------------------------------------------------
(* Safety. *)

Working == {"connect", "act", "hangup"}

\* One request at a time on the wire: the library's pending-token table and
\* rate limiter "assume a single logical caller" (module docstring), through
\* reconnects, retries and cancelled waiters.
OneCallerAtATime ==
  \A c, d \in Callers : at[c] \in Working /\ at[d] \in Working => c = d

\* "Re-sending it just asks a second time for something already refused":
\* a command that is about to be sent has not been answered before (write).
AnsweredCommandIsNotResent ==
  \A c \in Callers : Acting(c, "post") => ~attempt[c].answered

\* A command that reports success did change the appliance, in this call, even
\* when the first attempt was lost and the session rebuilt (write).
SuccessMeansApplied ==
  \A c \in Callers : (result[c] = "ok" /\ call[c].op = "post") => applied[c]

\* While the lock is free on a live association, everything Session reports
\* as subscribed is notified by the appliance: reconnecting replays a path or
\* drops it from the set, so nothing goes silently stale (_connect_unlocked).
NothingSilentlyUnsubscribed ==
  (queue = <<>> /\ session # None /\ alive) => subscribed \subseteq registered

\* Liveness: every call returns, because the lock is released on every path.
EveryCallReturns == \A c \in Callers : at[c] = "waiting" ~> at[c] = "idle"

(* What the documents say and the code does not do. *)

\* locales/en.json, error.write_rejected: "The appliance refused to set ..."
RefusedMeansNotApplied ==
  \A c \in Callers : result[c] = "refused" => ~applied[c]

-----------------------------------------------------------------------------
(* What a command promises, implemented by all of the above. *)

Posting(c) == call[c].op = "post" /\ at[c] # "idle"
Stage == [c \in Callers |->
            IF ~Posting(c) THEN "idle" ELSE IF applied[c] THEN "applied" ELSE "pending"]
Asked == [c \in Callers |-> IF call[c].op = "post" THEN call[c].arg ELSE "none"]
Outcome == [c \in Callers |->
              IF call[c].op # "post" \/ at[c] # "idle" THEN "none" ELSE result[c]]

Contract == INSTANCE CommandContract WITH stage <- Stage, asked <- Asked, outcome <- Outcome

\* A command is applied only between its call and its return, success means it
\* was, and no other command comes between its application and its answer.
CommandsKeepContract == Contract!Spec
=============================================================================
