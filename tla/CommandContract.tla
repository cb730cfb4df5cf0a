-------------------------- MODULE CommandContract --------------------------
(***************************************************************************)
(* What lib/session.py promises to whoever calls Session.write, without    *)
(* DTLS, locks, retries or source ports: a command takes effect between    *)
(* its call and its return, success means it did, a failure leaves that    *)
(* open, and commands do not overtake each other half way.                 *)
(***************************************************************************)
CONSTANTS Callers, Values

VARIABLES
  value,    \* what the appliance holds
  stage,    \* of each caller's command
  asked,    \* the value it asked for
  outcome   \* how its last command ended

vars == <<value, stage, asked, outcome>>

Outcomes == {"ok", "refused", "error", "stale"}

Init ==
  /\ value \in Values
  /\ stage = [c \in Callers |-> "idle"]
  /\ asked = [c \in Callers |-> "none"]
  /\ outcome = [c \in Callers |-> "none"]

Ask(c) ==
  /\ stage[c] = "idle"
  /\ \E v \in Values : asked' = [asked EXCEPT ![c] = v]
  /\ stage' = [stage EXCEPT ![c] = "pending"]
  /\ outcome' = [outcome EXCEPT ![c] = "none"]
  /\ UNCHANGED value

\* The caller turns to something else.
Forget(c) ==
  /\ stage[c] = "idle"
  /\ asked' = [asked EXCEPT ![c] = "none"]
  /\ outcome' = [outcome EXCEPT ![c] = "none"]
  /\ UNCHANGED <<value, stage>>

\* No other command is applied and still unanswered.
Alone(c) == \A d \in Callers \ {c} : stage[d] # "applied"

\* A retried command may be applied again.
Apply(c) ==
  /\ stage[c] # "idle" /\ Alone(c)
  /\ value' = asked[c]
  /\ stage' = [stage EXCEPT ![c] = "applied"]
  /\ UNCHANGED <<asked, outcome>>

Fail(c) ==
  /\ stage[c] # "idle"
  /\ \E o \in Outcomes \ {"ok"} : outcome' = [outcome EXCEPT ![c] = o]
  /\ stage' = [stage EXCEPT ![c] = "idle"]
  /\ UNCHANGED <<value, asked>>

\* The last attempt fails after taking effect.
ApplyAndFail(c) ==
  /\ stage[c] # "idle" /\ Alone(c)
  /\ value' = asked[c]
  /\ outcome' = [outcome EXCEPT ![c] = "error"]
  /\ stage' = [stage EXCEPT ![c] = "idle"]
  /\ UNCHANGED asked

Succeed(c) ==
  /\ stage[c] # "idle" /\ Alone(c)
  /\ value' = asked[c]
  /\ outcome' = [outcome EXCEPT ![c] = "ok"]
  /\ stage' = [stage EXCEPT ![c] = "idle"]
  /\ UNCHANGED asked

\* Somebody uses the appliance's own panel.
Operated ==
  /\ value' \in Values
  /\ UNCHANGED <<stage, asked, outcome>>

\* The app restarts: nobody is left to be answered.
Restart ==
  /\ stage' = [c \in Callers |-> "idle"]
  /\ outcome' = [c \in Callers |-> "none"]
  /\ UNCHANGED <<value, asked>>

Next ==
  \/ \E c \in Callers :
       \/ Ask(c) \/ Forget(c) \/ Apply(c) \/ Fail(c) \/ ApplyAndFail(c) \/ Succeed(c)
  \/ Operated \/ Restart

Spec == Init /\ [][Next]_vars
=============================================================================
