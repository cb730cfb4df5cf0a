--------------------------- MODULE StateCacheProofs ---------------------------
(* Theorems of StateCache, for every set of values, readers and writers. *)
EXTENDS StateCache, TLAPS

\* What an answer under way or a dict still in use may carry: no action brings
\* a value from anywhere but the appliance or an accepted command.
EverythingIsReal ==
  /\ {actual, settling, cache, shown} \subseteq real \cup {Missing}
  /\ flight \subseteq real
  /\ \A r \in Readers : {sample[r], held[r]} \subseteq real \cup {Missing, Live}
  /\ \A w \in Writers :
       (writing[w] = "sent" /\ result[w] = "accepted") => asked[w] \in real

\* A promise lasts no longer than the guard that protects it.
PromiseIsGuarded == promised # Missing => guard

IInv == TypeOK /\ EverythingIsReal /\ PromiseIsGuarded /\ SettlingWriteIsKept

\* Every variable has its type in the first state.
LEMMA TypeInit == Init => TypeOK
<1> SUFFICES ASSUME Init PROVE TypeOK
  OBVIOUS
<1>1. changes \in 0..MaxChanges /\ pushed \in 0..MaxPush
  BY BoundsAssumption DEF Init
<1>2. /\ reading \in [Readers -> {"idle", "sent", "assigned", "applying"}]
      /\ sample \in [Readers -> Values \cup {Missing}]
      /\ held \in [Readers -> Values \cup {Missing, Live}]
  BY DEF Init
<1>3. /\ writing \in [Writers -> {"idle", "queued", "sent"}]
      /\ asked \in [Writers -> Values] /\ result \in [Writers -> Results]
  BY DEF Init, Results
<1>4. flight \subseteq Values /\ real \subseteq Values
  BY DEF Init
<1> QED
  BY <1>1, <1>2, <1>3, <1>4 DEF Init, TypeOK

\* Every step keeps the types: one case for each action.
LEMMA TypeStep == TypeOK /\ [Next]_vars => TypeOK'
<1> SUFFICES ASSUME TypeOK, [Next]_vars PROVE TypeOK'
  OBVIOUS
<1> USE BoundsAssumption
<1>1. CASE Settles
  BY <1>1 DEF TypeOK, Settles, Reports, readerVars, writerVars, deviceVars
<1>2. CASE Changes
  BY <1>2 DEF TypeOK, Changes, Reports, readerVars, writerVars, deviceVars
<1>3. ASSUME NEW v \in Values, Notification(v) PROVE TypeOK'
  BY <1>3 DEF TypeOK, Notification, Taken, readerVars, writerVars
<1>4. CASE ApplyHref
  BY <1>4 DEF TypeOK, ApplyHref, Show, applianceVars, readerVars, writerVars
<1>5. CASE GuardEnds
  BY <1>5 DEF TypeOK, GuardEnds, applianceVars, readerVars, writerVars
<1>6. ASSUME NEW r \in Readers, Reading(r) PROVE TypeOK'
  <2>1. CASE Sample(r)
    BY <2>1 DEF TypeOK, Sample, writerVars, deviceVars
  <2>2. CASE Assign(r)
    <3>1. sample[r] \in Values \cup {Missing}
      BY DEF TypeOK
    <3>2. held' \in [Readers -> Values \cup {Missing, Live}]
      BY <2>2 DEF TypeOK, Assign, Replace
    <3> QED
      BY <2>2, <3>1, <3>2 DEF TypeOK, Assign, Replace, applianceVars, writerVars
  <2>3. CASE ReadFails(r)
    BY <2>3 DEF TypeOK, ReadFails, applianceVars, writerVars, deviceVars
  <2>4. CASE ApplyStarts(r)
    BY <2>4 DEF TypeOK, ApplyStarts, applianceVars, writerVars, deviceVars
  <2>5. CASE Applies(r)
    <3>1. held[r] \in Values \cup {Missing, Live} /\ cache \in Values \cup {Missing}
      BY DEF TypeOK
    <3>2. shown' \in Values \cup {Missing}
      BY <2>5, <3>1 DEF TypeOK, Applies, Show
    <3> QED
      BY <2>5, <3>2 DEF TypeOK, Applies, applianceVars, writerVars
  <2> QED BY <1>6, <2>1, <2>2, <2>3, <2>4, <2>5 DEF Reading
<1>7. ASSUME NEW w \in Writers, Writing(w) PROVE TypeOK'
  <2>1. CASE WriteSkipped(w)
    BY <2>1 DEF TypeOK, WriteSkipped, Results, applianceVars, readerVars
  <2>2. CASE WriteBegins(w)
    BY <2>2 DEF TypeOK, WriteBegins, Guard, Results, applianceVars, readerVars
  <2>3. CASE Posted(w)
    BY <2>3 DEF TypeOK, Posted, Results, readerVars, deviceVars
  <2>4. CASE WriteReturns(w)
    BY <2>4 DEF TypeOK, WriteReturns, applianceVars, readerVars
  <2> QED BY <1>7, <2>1, <2>2, <2>3, <2>4 DEF Writing
<1>8. CASE UNCHANGED vars
  BY <1>8 DEF TypeOK, vars, applianceVars, readerVars, writerVars, deviceVars
<1> QED
  BY <1>1, <1>2, <1>3, <1>4, <1>5, <1>6, <1>7, <1>8 DEF Next

\* The invariant holds at the start: nothing has been read, sent or accepted.
LEMMA IInvInit == Init => IInv
<1> SUFFICES ASSUME Init PROVE IInv
  OBVIOUS
<1>1. EverythingIsReal
  BY DEF Init, EverythingIsReal
<1>2. PromiseIsGuarded /\ SettlingWriteIsKept
  BY DEF Init, PromiseIsGuarded, SettlingWriteIsKept
<1> QED
  BY <1>1, <1>2, TypeInit DEF IInv

\* Values only travel: every action copies one that was real already, or adds
\* to `real` the one the appliance takes.
LEMMA RealStep == IInv /\ [Next]_vars => EverythingIsReal'
<1> SUFFICES ASSUME IInv, [Next]_vars PROVE EverythingIsReal'
  OBVIOUS
<1> USE DEF IInv, EverythingIsReal
<1>1. CASE Settles
  BY <1>1, DistinctAssumption DEF TypeOK, Settles, Reports, readerVars, writerVars, deviceVars
<1>2. CASE Changes
  <2>1. PICK v \in Values : Reports(v) /\ settling' = v /\ real' = real \cup {v}
    BY <1>2 DEF Changes
  <2>2. {actual, settling, cache, shown}' \subseteq real' \cup {Missing}
    BY <1>2, <2>1 DEF Changes, Reports, deviceVars
  <2>3. flight' \subseteq real'
    BY <2>1 DEF Reports
  <2> QED
    BY <1>2, <2>1, <2>2, <2>3 DEF Changes, readerVars, writerVars
<1>3. ASSUME NEW v \in Values, Notification(v) PROVE EverythingIsReal'
  BY <1>3 DEF Notification, Taken, readerVars, writerVars
<1>4. CASE ApplyHref
  BY <1>4 DEF ApplyHref, Show, applianceVars, readerVars, writerVars
<1>5. CASE GuardEnds
  BY <1>5 DEF GuardEnds, applianceVars, readerVars, writerVars
<1>6. ASSUME NEW r \in Readers, Reading(r) PROVE EverythingIsReal'
  <2>1. CASE Sample(r)
    BY <2>1, DistinctAssumption DEF TypeOK, Sample, writerVars, deviceVars
  <2>2. CASE Assign(r)
    <3>1. cache' \in real \cup {Missing}
      <4>1. sample[r] \in Values \cup {Missing} /\ sample[r] \in real \cup {Missing, Live}
        BY DEF TypeOK
      <4> QED
        BY <2>2, <4>1, DistinctAssumption DEF Assign, Replace
    <3>2. \A q \in Readers : {sample[q], held[q]}' \subseteq (real \cup {Missing, Live})'
      BY <2>2 DEF TypeOK, Assign, Replace, applianceVars
    <3> QED
      BY <2>2, <3>1, <3>2 DEF Assign, Replace, applianceVars, writerVars
  <2>3. CASE ReadFails(r)
    BY <2>3 DEF TypeOK, ReadFails, applianceVars, writerVars, deviceVars
  <2>4. CASE ApplyStarts(r)
    BY <2>4 DEF ApplyStarts, applianceVars, writerVars, deviceVars
  <2>5. CASE Applies(r)
    <3>1. shown' \in real \cup {Missing}
      BY <2>5 DEF Applies, Show
    <3> QED
      BY <2>5, <3>1 DEF TypeOK, Applies, applianceVars, writerVars
  <2> QED BY <1>6, <2>1, <2>2, <2>3, <2>4, <2>5 DEF Reading
<1>7. ASSUME NEW w \in Writers, Writing(w) PROVE EverythingIsReal'
  <2>1. CASE WriteSkipped(w)
    BY <2>1 DEF TypeOK, WriteSkipped, applianceVars, readerVars
  <2>2. CASE WriteBegins(w)
    BY <2>2 DEF TypeOK, WriteBegins, Guard, applianceVars, readerVars
  <2>3. CASE Posted(w)
    BY <2>3 DEF TypeOK, Posted, readerVars, deviceVars
  <2>4. CASE WriteReturns(w)
    BY <2>4 DEF TypeOK, WriteReturns, applianceVars, readerVars
  <2> QED BY <1>7, <2>1, <2>2, <2>3, <2>4 DEF Writing
<1>8. CASE UNCHANGED vars
  BY <1>8 DEF vars, applianceVars, readerVars, writerVars, deviceVars
<1> QED
  BY <1>1, <1>2, <1>3, <1>4, <1>5, <1>6, <1>7, <1>8 DEF Next

\* Only an accepted write makes a promise and only a read releases it: the
\* guard keeps notifications out, and every other step that shows a value
\* shows the cache's.
LEMMA PromiseStep ==
  IInv /\ [Next]_vars => PromiseIsGuarded' /\ SettlingWriteIsKept'
<1> SUFFICES ASSUME IInv, [Next]_vars
             PROVE PromiseIsGuarded' /\ SettlingWriteIsKept'
  OBVIOUS
<1> USE DEF IInv, PromiseIsGuarded, SettlingWriteIsKept
<1>1. CASE Settles
  BY <1>1 DEF Settles, deviceVars
<1>2. CASE Changes
  BY <1>2 DEF Changes, deviceVars
<1>3. ASSUME NEW v \in Values, Notification(v)
      PROVE PromiseIsGuarded' /\ SettlingWriteIsKept'
  BY <1>3 DEF Notification, Taken
<1>4. CASE ApplyHref
  BY <1>4 DEF ApplyHref, Show
<1>5. CASE GuardEnds
  BY <1>5 DEF GuardEnds
<1>6. ASSUME NEW r \in Readers, Reading(r)
      PROVE PromiseIsGuarded' /\ SettlingWriteIsKept'
  <2>1. CASE Sample(r) \/ ReadFails(r) \/ ApplyStarts(r)
    BY <2>1 DEF Sample, ReadFails, ApplyStarts, deviceVars
  <2>2. CASE Assign(r)
    BY <2>2 DEF Assign, Replace
  <2>3. CASE Applies(r)
    BY <2>3 DEF Applies, Show
  <2> QED BY <1>6, <2>1, <2>2, <2>3 DEF Reading
<1>7. ASSUME NEW w \in Writers, Writing(w)
      PROVE PromiseIsGuarded' /\ SettlingWriteIsKept'
  <2>1. CASE WriteSkipped(w)
    BY <2>1 DEF WriteSkipped
  <2>2. CASE WriteBegins(w)
    BY <2>2 DEF WriteBegins, Guard
  <2>3. CASE Posted(w)
    BY <2>3 DEF Posted, deviceVars
  <2>4. CASE WriteReturns(w)
    BY <2>4 DEF WriteReturns
  <2> QED BY <1>7, <2>1, <2>2, <2>3, <2>4 DEF Writing
<1>8. CASE UNCHANGED vars
  BY <1>8 DEF vars, deviceVars
<1> QED
  BY <1>1, <1>2, <1>3, <1>4, <1>5, <1>6, <1>7, <1>8 DEF Next

\* The inductive invariant holds in every state of every behaviour.
LEMMA InductiveInvariant == Spec => []IInv
<1>1. IInv /\ [Next]_vars => IInv'
  BY TypeStep, RealStep, PromiseStep DEF IInv
<1> QED
  BY IInvInit, <1>1, PTL DEF Spec

\* Every variable keeps its type.
THEOREM TypeCorrect == Spec => []TypeOK
<1>1. IInv => TypeOK
  BY DEF IInv
<1> QED
  BY InductiveInvariant, <1>1, PTL

\* Until a full read touches the resource, Homey and the cache keep the value
\* of the write that is settling.
THEOREM SettlingWriteSurvives == Spec => []SettlingWriteIsKept
<1>1. IInv => SettlingWriteIsKept
  BY DEF IInv
<1> QED
  BY InductiveInvariant, <1>1, PTL

\* Homey and the cache hold nothing the appliance did not report or accept.
THEOREM ShownIsReal == Spec => []NothingInvented
<1>1. IInv => NothingInvented
  BY DEF IInv, EverythingIsReal, NothingInvented
<1> QED
  BY InductiveInvariant, <1>1, PTL
=============================================================================
