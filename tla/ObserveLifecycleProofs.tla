----------------------- MODULE ObserveLifecycleProofs -----------------------
(***************************************************************************)
(* Proofs, for every set of paths, addresses and times, of the safety      *)
(* properties of ObserveLifecycle.                                         *)
(***************************************************************************)
EXTENDS ObserveLifecycle, FiniteSetTheorems, TLAPS

\* Saturating addition and the backoff stay within their bounds.
LEMMA BoundsOfTimers ==
  ASSUME TypeOK
  PROVE  /\ Interval \in 1..Sweep
         /\ \A n \in Nat : n >= 1 => Backoff(n) \in 0..Sweep
         /\ MinOf(failures + 1, MaxFailures) \in 1..MaxFailures
         /\ MinOf(silent + 1, MaxSilent) \in 0..MaxSilent
         /\ Older(sinceAttempt) \in -1..Refresh
         /\ Older(sinceSubscribed) \in 0..Refresh
<1>1. Interval \in 1..Sweep
  BY TimesAssumption DEF Interval
<1>2. ASSUME NEW n \in Nat, n >= 1 PROVE Backoff(n) \in 0..Sweep
  <2>1. MinOf(n, 6) \in Nat
    BY DEF MinOf
  <2>2. Interval * MinOf(n, 6) \in Nat
    BY <1>1, <2>1, TimesAssumption
  <2>. QED BY <2>2, TimesAssumption DEF Backoff, MinOf
<1>3. MinOf(failures + 1, MaxFailures) \in 1..MaxFailures
  BY CapsAssumption DEF TypeOK, MinOf
<1>4. MinOf(silent + 1, MaxSilent) \in 0..MaxSilent
  BY CapsAssumption DEF TypeOK, MinOf
<1>5. Older(sinceAttempt) \in -1..Refresh /\ Older(sinceSubscribed) \in 0..Refresh
  BY TimesAssumption DEF TypeOK, Older, MinOf, NotAttempted
<1>. QED BY <1>1, <1>2, <1>3, <1>4, <1>5

\* Every initial state is well typed.
LEMMA TypeInit == Init => TypeOK
<1> SUFFICES ASSUME Init PROVE TypeOK
  OBVIOUS
<1>1. /\ 0 \in 0..Sweep /\ 0 \in 0..MaxFailures /\ 0 \in 0..MaxSilent
      /\ -1 \in -1..Refresh /\ Refresh \in 0..Refresh
  BY TimesAssumption, CapsAssumption
<1>2. /\ mover \in [Movers -> {"idle", "close", "store", "sync"}]
      /\ target \in [Movers -> Addrs]
  BY DEF Init
<1>. QED BY <1>1, <1>2 DEF Init, TypeOK, NotAttempted

\* Every step keeps the state well typed, one case per action.
LEMMA TypeStep == TypeOK /\ [Next]_vars => TypeOK'
<1> SUFFICES ASSUME TypeOK, [Next]_vars PROVE TypeOK'
  OBVIOUS
<1> USE DEF vars, loopVars, pushVars, sessionVars, moveVars, world
<1>1. CASE Wake
  BY <1>1 DEF Wake, TypeOK
<1>2. CASE ReadOk
  BY <1>2, HrefsAssumption
     DEF ReadOk, TypeOK, CallAnswered, Reconnect, MarkAvailable
<1>3. CASE Judge
  <2>1. /\ Evaluated.observing \in BOOLEAN /\ Evaluated.pending \in BOOLEAN
        /\ Evaluated.silent \in 0..MaxSilent
    <3>1. QuorumNotified \in BOOLEAN
      BY DEF QuorumNotified
    <3>2. 0 \in 0..MaxSilent
      BY CapsAssumption
    <3>. QED BY <3>1, <3>2, BoundsOfTimers DEF TypeOK, Evaluated
  <2>. QED BY <1>3, <2>1, TimesAssumption DEF Judge, TypeOK
<1>4. ASSUME NEW h \in Hrefs, Subscribe(h) PROVE TypeOK'
  BY <1>4 DEF Subscribe, TypeOK
<1>5. CASE RoundSent
  BY <1>5, TimesAssumption DEF RoundSent, TypeOK
<1>6. CASE Finish
  BY <1>6, BoundsOfTimers, CapsAssumption DEF Finish, TypeOK, SyncStatus
<1>7. CASE ReadFail
  <2>1. failures' \in 1..MaxFailures /\ wait' \in 0..Sweep
    BY <1>7, BoundsOfTimers, CapsAssumption DEF ReadFail
  <2>2. failures' \in 0..MaxFailures
    BY <2>1
  <2>3. available' \in BOOLEAN
    BY <1>7 DEF ReadFail
  <2>4. connected' \in BOOLEAN /\ subscribed' \subseteq Hrefs
    BY <1>7 DEF ReadFail, TypeOK, CallFailed, Reconnect
  <2>5. /\ observing' \in BOOLEAN /\ pending' \in BOOLEAN
        /\ status' \in {"push", "polling"}
    BY <1>7 DEF ReadFail, TypeOK, DropToPolling, SyncStatus
  <2>. QED
    BY <1>7, <2>1, <2>2, <2>3, <2>4, <2>5 DEF ReadFail, TypeOK, CallFailed, Reconnect,
                      DropToPolling, SyncStatus
<1>8. CASE RelocateHit
  BY <1>8 DEF RelocateHit, StartMove, TypeOK, Movers
<1>9. CASE RelocateMiss
  BY <1>9 DEF RelocateMiss, TypeOK
<1>10. CASE RepairStart
  BY <1>10 DEF RepairStart, StartMove, TypeOK, Movers
<1>11. ASSUME NEW m \in Movers, MoveClose(m) PROVE TypeOK'
  BY <1>11 DEF MoveClose, TypeOK, Movers
<1>12. ASSUME NEW m \in Movers, MoveSwap(m) PROVE TypeOK'
  <2>1. 0 \in 0..MaxSilent /\ -1 \in -1..Refresh
    BY TimesAssumption, CapsAssumption
  <2>2. mover' \in [Movers -> {"idle", "close", "store", "sync"}]
    BY <1>12 DEF MoveSwap, TypeOK
  <2>3. stray' \subseteq Hrefs
    BY <1>12 DEF MoveSwap, TypeOK
  <2>. QED
    BY <1>12, <2>1, <2>2, <2>3 DEF MoveSwap, TypeOK, NotAttempted
<1>13. ASSUME NEW m \in Movers, MoveSync(m) PROVE TypeOK'
  BY <1>13, TimesAssumption, CapsAssumption
     DEF MoveSync, TypeOK, Movers, SyncStatus
<1>14. CASE RefreshNow
  BY <1>14, HrefsAssumption
     DEF RefreshNow, TypeOK, CallAnswered, Reconnect, MarkAvailable
<1>15. CASE OtherCall
  BY <1>15 DEF OtherCall, TypeOK, CallAnswered, CallFailed, Reconnect
<1>16. ASSUME NEW h \in Hrefs, Notify(h) PROVE TypeOK'
  BY <1>16 DEF Notify, TypeOK
<1>17. CASE Tick
  <2>1. wait' \in 0..Sweep
    BY <1>17, TimesAssumption DEF Tick, TypeOK
  <2>. QED BY <1>17, <2>1, BoundsOfTimers DEF Tick, TypeOK
<1>18. CASE Appliance
  BY <1>18 DEF Appliance, TypeOK
<1>19. CASE UNCHANGED vars
  BY <1>19 DEF TypeOK
<1>. QED
  BY <1>1, <1>2, <1>3, <1>4, <1>5, <1>6, <1>7, <1>8, <1>9, <1>10, <1>11,
     <1>12, <1>13, <1>14, <1>15, <1>16, <1>17, <1>18, <1>19
     DEF Next, Loop, Move

\* Type correctness: whatever the appliance, the user and the clock do, the
\* loop's counters, ages and delays stay in the ranges the code assumes.
THEOREM TypeCorrect == Spec => []TypeOK
BY TypeInit, TypeStep, PTL DEF Spec

-----------------------------------------------------------------------------
(* The inductive invariant: each property, widened to the states between    *)
(* the awaits where the loop or a move is half way.                         *)

\* A failing loop has given push up, also while it searches or moves.
FailingLoopHasDropped ==
  (pc \in {"sleep", "relocate", "moving"} /\ failures > 0)
    => ~observing /\ ~pending

\* Unavailable takes four failures; a poll past its read has cleared it, and
\* a search runs on exactly the third failure.
AvailabilityFollowsFailures ==
  /\ ~available => failures >= UnavailableAfter
  /\ pc \in {"judge", "subscribe", "finish"} => available
  /\ pc \in {"relocate", "moving"} => failures = RelocateAfter
  /\ mover["loop"] # "idle" => pc = "moving"

\* The setting is true unless someone is about to write it.
StatusIsOwedOrTrue ==
  \/ pc \in {"subscribe", "finish"}
  \/ \E m \in Movers : mover[m] = "sync"
  \/ (status = "push") <=> observing

\* The attempt is the older of the two ages once the round has been sent.
AttemptIsOlder ==
  (pc # "subscribe" /\ sinceAttempt # NotAttempted)
    => sinceAttempt >= sinceSubscribed

\* Push stays earned from the verdict until the next round clears the count.
Earned ==
  LET got == Cardinality(notified \cap observeHrefs)
      all == Cardinality(observeHrefs)
  IN  got >= 1 /\ 5 * got + 5 > 4 * all

EarnedUntilNextRound ==
  (pc # "subscribe" /\ observing /\ ~pending) => Earned

\* Everything but type correctness, which has its own theorem.
Parts ==
  /\ FailingLoopHasDropped /\ AvailabilityFollowsFailures
  /\ StatusIsOwedOrTrue /\ AttemptIsOlder /\ EarnedUntilNextRound

IInv == TypeOK /\ Parts

USE DEF UnavailableAfter, RelocateAfter

\* The integer quorum max(1, int(0.8 n)) is more than four fifths less one.
LEMMA QuorumIsEarned ==
  ASSUME TypeOK, QuorumNotified
  PROVE  Earned
<1>1. IsFiniteSet(observeHrefs) /\ IsFiniteSet(notified \cap observeHrefs)
  BY HrefsAssumption, FS_Subset DEF TypeOK
<1>2. /\ Cardinality(observeHrefs) \in Nat
      /\ Cardinality(notified \cap observeHrefs) \in Nat
  BY <1>1, FS_CardinalityType
<1>. QED BY <1>2 DEF QuorumNotified, Needed, Earned

\* A notification can only help.
LEMMA NotifyKeepsEarned ==
  ASSUME TypeOK, Earned, notified' \subseteq Hrefs,
         notified \subseteq notified', observeHrefs' = observeHrefs
  PROVE  Earned'
<1>1. IsFiniteSet(observeHrefs) /\ IsFiniteSet(notified' \cap observeHrefs)
  BY HrefsAssumption, FS_Subset DEF TypeOK
<1>2. Cardinality(notified \cap observeHrefs)
        <= Cardinality(notified' \cap observeHrefs)
  BY <1>1, FS_Subset
<1>3. /\ Cardinality(notified \cap observeHrefs) \in Nat
      /\ Cardinality(notified' \cap observeHrefs) \in Nat
      /\ Cardinality(observeHrefs) \in Nat
  BY <1>1, FS_Subset, FS_CardinalityType
<1>. QED BY <1>2, <1>3 DEF Earned

\* What the verdict and the gates leave: no pending claim survives unjudged.
LEMMA JudgeFacts ==
  ASSUME TypeOK
  PROVE  /\ Evaluated.observing /\ ~Evaluated.pending
              => (observing /\ ~pending) \/ QuorumNotified
         /\ Evaluated.pending => pending
BY DEF Evaluated, TypeOK, QuorumNotified

\* A device that has just been started satisfies the inductive invariant.
LEMMA IInvInit == Init => IInv
<1> SUFFICES ASSUME Init PROVE IInv
  OBVIOUS
<1>1. TypeOK
  BY TypeInit
<1>. QED
  BY <1>1, TimesAssumption
     DEF Init, IInv, Parts, FailingLoopHasDropped, AvailabilityFollowsFailures,
         StatusIsOwedOrTrue, AttemptIsOlder, EarnedUntilNextRound, NotAttempted,
         Movers
\* Every step preserves the invariant, one case per action.
LEMMA IInvStep == IInv /\ [Next]_vars => IInv'
<1> SUFFICES ASSUME IInv, [Next]_vars
             PROVE  Parts'
  BY TypeStep DEF IInv, Parts
<1>0. TypeOK /\ TypeOK' /\ Parts
  BY TypeStep DEF IInv, Parts
<1> USE DEF vars, loopVars, pushVars, sessionVars, moveVars, world
<1>1. CASE Wake
  BY <1>0, <1>1
     DEF Wake,
         TypeOK, Parts, FailingLoopHasDropped, AvailabilityFollowsFailures,
         StatusIsOwedOrTrue, AttemptIsOlder, EarnedUntilNextRound, Earned
<1>2. CASE ReadOk
  BY <1>0, <1>2
     DEF ReadOk, CallAnswered, Reconnect, MarkAvailable,
         TypeOK, Parts, FailingLoopHasDropped, AvailabilityFollowsFailures,
         StatusIsOwedOrTrue, AttemptIsOlder, EarnedUntilNextRound, Earned
<1>3. CASE Judge
  <2>1. pc = "judge" /\ pc' \in {"subscribe", "finish"}
    BY <1>3 DEF Judge
  <2>2. FailingLoopHasDropped' /\ StatusIsOwedOrTrue'
    BY <2>1 DEF FailingLoopHasDropped, StatusIsOwedOrTrue
  <2>3. AvailabilityFollowsFailures'
    BY <1>0, <1>3, <2>1 DEF Judge, Parts, AvailabilityFollowsFailures
  <2>4. CASE pc' = "subscribe"
    BY <2>2, <2>3, <2>4 DEF Parts, AttemptIsOlder, EarnedUntilNextRound
  <2>5. CASE pc' = "finish"
    <3>1. UNCHANGED <<sinceAttempt, sinceSubscribed, notified, observeHrefs>>
      BY <1>3, <2>5 DEF Judge
    <3>2. AttemptIsOlder'
      BY <1>0, <2>1, <3>1 DEF Parts, AttemptIsOlder
    <3>3. observing' = Evaluated.observing /\ pending' = Evaluated.pending
      BY <1>3 DEF Judge
    <3>4. observing' /\ ~pending' => Earned
      BY <1>0, <2>1, <3>3, JudgeFacts, QuorumIsEarned
         DEF Parts, EarnedUntilNextRound
    <3>5. EarnedUntilNextRound'
      BY <3>1, <3>4 DEF EarnedUntilNextRound, Earned
    <3>. QED BY <2>2, <2>3, <3>2, <3>5 DEF Parts
  <2>. QED BY <2>1, <2>4, <2>5
<1>4. ASSUME NEW h \in Hrefs, Subscribe(h) PROVE Parts'
  BY <1>0, <1>4
     DEF Subscribe,
         TypeOK, Parts, FailingLoopHasDropped, AvailabilityFollowsFailures,
         StatusIsOwedOrTrue, AttemptIsOlder, EarnedUntilNextRound, Earned
<1>5. CASE RoundSent
  <2>1. /\ pc' = "finish" /\ pending' = TRUE /\ sinceSubscribed' = 0
        /\ sinceAttempt' = sinceAttempt
    BY <1>5 DEF RoundSent
  <2>2. AttemptIsOlder'
    BY <1>0, <2>1 DEF AttemptIsOlder, TypeOK, NotAttempted
  <2>3. FailingLoopHasDropped' /\ StatusIsOwedOrTrue' /\ EarnedUntilNextRound'
    BY <2>1 DEF FailingLoopHasDropped, StatusIsOwedOrTrue, EarnedUntilNextRound
  <2>4. AvailabilityFollowsFailures'
    BY <1>0, <1>5 DEF RoundSent, Parts, AvailabilityFollowsFailures
  <2>. QED BY <2>2, <2>3, <2>4 DEF Parts
<1>6. CASE Finish
  BY <1>0, <1>6
     DEF Finish, SyncStatus,
         TypeOK, Parts, FailingLoopHasDropped, AvailabilityFollowsFailures,
         StatusIsOwedOrTrue, AttemptIsOlder, EarnedUntilNextRound, Earned
<1>7. CASE ReadFail
  <2>1. /\ pc = "read" /\ pc' \in {"sleep", "relocate"}
        /\ ~observing' /\ ~pending'
        /\ UNCHANGED <<mover, sinceAttempt, sinceSubscribed>>
    BY <1>7 DEF ReadFail, DropToPolling
  <2>2. FailingLoopHasDropped' /\ EarnedUntilNextRound'
    BY <2>1 DEF FailingLoopHasDropped, EarnedUntilNextRound
  <2>3. AttemptIsOlder'
    BY <1>0, <2>1 DEF Parts, AttemptIsOlder
  <2>4. AvailabilityFollowsFailures'
    <3>1. failures' = IF failures + 1 <= MaxFailures THEN failures + 1 ELSE MaxFailures
      BY <1>7 DEF ReadFail, MinOf
    <3>2. available' => available
      BY <1>7 DEF ReadFail
    <3>3. ~available' => ~available \/ failures' >= 4
      BY <1>7 DEF ReadFail, UnavailableDue
    <3>4. ~available' => failures' >= 4
      BY <1>0, <3>1, <3>3, CapsAssumption
         DEF Parts, AvailabilityFollowsFailures, TypeOK
    <3>5. pc' = "relocate" => failures' = 3
      BY <1>7 DEF ReadFail, SearchDue
    <3>6. mover'["loop"] = "idle"
      BY <1>0, <2>1 DEF Parts, AvailabilityFollowsFailures
    <3>. QED BY <2>1, <3>4, <3>5, <3>6 DEF AvailabilityFollowsFailures
  <2>5. StatusIsOwedOrTrue'
    <3>1. CASE observing \/ pending
      BY <1>7, <2>1, <3>1 DEF ReadFail, DropToPolling, SyncStatus, StatusIsOwedOrTrue
    <3>2. CASE ~(observing \/ pending)
      <4>1. status' = status
        BY <1>7, <3>2 DEF ReadFail, DropToPolling
      <4>. QED BY <1>0, <2>1, <3>2, <4>1 DEF Parts, StatusIsOwedOrTrue
    <3>. QED BY <3>1, <3>2
  <2>. QED BY <2>2, <2>3, <2>4, <2>5 DEF Parts
<1>8. CASE RelocateHit
  BY <1>0, <1>8
     DEF RelocateHit, StartMove, Movers,
         TypeOK, Parts, FailingLoopHasDropped, AvailabilityFollowsFailures,
         StatusIsOwedOrTrue, AttemptIsOlder, EarnedUntilNextRound, Earned
<1>9. CASE RelocateMiss
  BY <1>0, <1>9
     DEF RelocateMiss,
         TypeOK, Parts, FailingLoopHasDropped, AvailabilityFollowsFailures,
         StatusIsOwedOrTrue, AttemptIsOlder, EarnedUntilNextRound, Earned
<1>10. CASE RepairStart
  BY <1>0, <1>10
     DEF RepairStart, StartMove, Movers,
         TypeOK, Parts, FailingLoopHasDropped, AvailabilityFollowsFailures,
         StatusIsOwedOrTrue, AttemptIsOlder, EarnedUntilNextRound, Earned
<1>11. ASSUME NEW m \in Movers, MoveClose(m) PROVE Parts'
  BY <1>0, <1>11
     DEF MoveClose, Movers,
         TypeOK, Parts, FailingLoopHasDropped, AvailabilityFollowsFailures,
         StatusIsOwedOrTrue, AttemptIsOlder, EarnedUntilNextRound, Earned
<1>12. ASSUME NEW m \in Movers, MoveSwap(m) PROVE Parts'
  BY <1>0, <1>12
     DEF MoveSwap, Movers, NotAttempted,
         TypeOK, Parts, FailingLoopHasDropped, AvailabilityFollowsFailures,
         StatusIsOwedOrTrue, AttemptIsOlder, EarnedUntilNextRound, Earned
<1>13. ASSUME NEW m \in Movers, MoveSync(m) PROVE Parts'
  BY <1>0, <1>13
     DEF MoveSync, SyncStatus, Movers,
         TypeOK, Parts, FailingLoopHasDropped, AvailabilityFollowsFailures,
         StatusIsOwedOrTrue, AttemptIsOlder, EarnedUntilNextRound, Earned
<1>14. CASE RefreshNow
  BY <1>0, <1>14
     DEF RefreshNow, MarkAvailable,
         TypeOK, Parts, FailingLoopHasDropped, AvailabilityFollowsFailures,
         StatusIsOwedOrTrue, AttemptIsOlder, EarnedUntilNextRound, Earned
<1>15. CASE OtherCall
  BY <1>0, <1>15
     DEF OtherCall,
         TypeOK, Parts, FailingLoopHasDropped, AvailabilityFollowsFailures,
         StatusIsOwedOrTrue, AttemptIsOlder, EarnedUntilNextRound, Earned
<1>16. ASSUME NEW h \in Hrefs, Notify(h) PROVE Parts'
  <2>1. /\ UNCHANGED <<pc, failures, observing, pending, observeHrefs, mover,
                       sinceAttempt, sinceSubscribed, available, status>>
        /\ notified \subseteq notified'
    BY <1>16 DEF Notify
  <2>2. EarnedUntilNextRound'
    BY <1>0, <2>1, NotifyKeepsEarned DEF Parts, EarnedUntilNextRound, TypeOK
  <2>. QED
    BY <1>0, <2>1, <2>2
       DEF Parts, FailingLoopHasDropped, AvailabilityFollowsFailures,
           StatusIsOwedOrTrue, AttemptIsOlder
<1>17. CASE Tick
  <2>1. UNCHANGED <<pc, failures, observing, pending, observeHrefs, notified,
                    mover, available, status>>
    BY <1>17 DEF Tick
  <2>2. AttemptIsOlder'
    BY <1>0, <1>17, TimesAssumption
       DEF Tick, Parts, AttemptIsOlder, Older, MinOf, NotAttempted, TypeOK
  <2>3. EarnedUntilNextRound'
    BY <1>0, <2>1 DEF Parts, EarnedUntilNextRound, Earned
  <2>. QED
    BY <1>0, <2>1, <2>2, <2>3
       DEF Parts, FailingLoopHasDropped, AvailabilityFollowsFailures,
           StatusIsOwedOrTrue
<1>18. CASE Appliance
  BY <1>0, <1>18
     DEF Appliance,
         TypeOK, Parts, FailingLoopHasDropped, AvailabilityFollowsFailures,
         StatusIsOwedOrTrue, AttemptIsOlder, EarnedUntilNextRound, Earned
<1>19. CASE UNCHANGED vars
  BY <1>0, <1>19
     DEF TypeOK, Parts, FailingLoopHasDropped, AvailabilityFollowsFailures,
         StatusIsOwedOrTrue, AttemptIsOlder, EarnedUntilNextRound, Earned
<1>. QED
  BY <1>1, <1>2, <1>3, <1>4, <1>5, <1>6, <1>7, <1>8, <1>9, <1>10, <1>11, <1>12, <1>13, <1>14, <1>15, <1>16, <1>17, <1>18, <1>19
     DEF Next, Loop, Move
-----------------------------------------------------------------------------
(* The properties the runs check, for every instance.                       *)

\* Every reachable state satisfies it.
LEMMA InductiveInvariant == Spec => []IInv
BY IInvInit, IInvStep, PTL DEF Spec

\* A device whose polls are failing never claims push between two polls, and
\* does not hold a verdict open, whatever Repair and Flow cards do meanwhile.
THEOREM FailingDeviceClaimsNoPush == Spec => []NoPushClaimWhileFailing
<1>1. IInv => NoPushClaimWhileFailing
  BY DEF IInv, Parts, FailingLoopHasDropped, NoPushClaimWhileFailing
<1>. QED BY <1>1, InductiveInvariant, PTL

\* Push mode at rest is backed by a quorum of the paths of the latest round.
THEOREM PushModeIsEarned == Spec => []PushIsEarned
<1>1. IInv => PushIsEarned
  BY DEF IInv, Parts, EarnedUntilNextRound, Earned, PushIsEarned
<1>. QED BY <1>1, InductiveInvariant, PTL

\* A device is marked unavailable only after four failed polls in a row.
THEOREM UnavailableIsPersistent == Spec => []UnavailableMeansPersistent
<1>1. IInv => UnavailableMeansPersistent
  BY DEF IInv, Parts, AvailabilityFollowsFailures, UnavailableMeansPersistent
<1>. QED BY <1>1, InductiveInvariant, PTL

\* At rest the advanced setting says push exactly when the device is in it.
THEOREM StatusIsTrueAtRest == Spec => []StatusTellsTheTruth
<1>1. IInv => StatusTellsTheTruth
  BY DEF IInv, Parts, StatusIsOwedOrTrue, StatusTellsTheTruth, Idle
<1>. QED BY <1>1, InductiveInvariant, PTL

\* Subscribe rounds on one session keep the distance the backoff asks for.
THEOREM RoundsKeepTheirDistance == Spec => RoundsAreSpaced
<1>1. IInv /\ [Next]_vars =>
        [(pc = "judge" /\ pc' = "subscribe" /\ sinceAttempt # NotAttempted)
           => sinceAttempt >= IF observing' THEN Refresh ELSE RetryAfter(silent')]_vars
  <2> SUFFICES ASSUME IInv, [Next]_vars, pc = "judge", pc' = "subscribe",
                      sinceAttempt # NotAttempted
               PROVE  sinceAttempt >= IF observing' THEN Refresh
                                                    ELSE RetryAfter(silent')
    OBVIOUS
  <2>1. Judge
    BY DEF Next, Loop, Move, Wake, ReadOk, Subscribe, RoundSent, Finish, ReadFail,
           RelocateHit, RelocateMiss, RepairStart, MoveClose, MoveSwap, MoveSync,
           RefreshNow, OtherCall, Notify, Tick, Appliance, vars, loopVars
  <2>2. /\ RoundDue(Evaluated) /\ observing' = Evaluated.observing
        /\ silent' = Evaluated.silent
    BY <2>1 DEF Judge
  <2>3. sinceAttempt >= sinceSubscribed
    BY DEF IInv, Parts, AttemptIsOlder
  <2>4. CASE Evaluated.observing
    BY <2>2, <2>3, <2>4, TimesAssumption DEF RoundDue, IInv, TypeOK
  <2>5. CASE ~Evaluated.observing
    BY <2>2, <2>5 DEF RoundDue
  <2>. QED BY <2>2, <2>4, <2>5
<1>. QED BY <1>1, InductiveInvariant, PTL DEF Spec, RoundsAreSpaced

\* What a step of anything but the failing read leaves alone: the count of
\* failures only falls to zero, and nobody else begins a search.
LEMMA OnlyAFailedReadCounts ==
  ASSUME TypeOK, [Next]_vars, ~ReadFail
  PROVE  /\ failures' = failures \/ failures' = 0
         /\ pc' = "relocate" => pc = "relocate"
BY DEF Next, Loop, Move, Wake, ReadOk, Judge, Subscribe, RoundSent, Finish,
       RelocateHit, RelocateMiss, RepairStart, StartMove, MoveClose, MoveSwap,
       MoveSync, RefreshNow, OtherCall, Notify, Tick, Appliance, vars, loopVars

\* The loop searches for a moved appliance exactly when a streak of failures
\* reaches its third: not before, not again later in the streak, and never
\* left out, whatever Repair and Flow cards do to the counter in between.
THEOREM EveryStreakSearchesOnce == Spec => SearchBeforeBackoff
<1>1. TypeOK /\ [Next]_vars =>
        [(pc # "relocate" /\ pc' = "relocate") <=>
           (failures < RelocateAfter /\ failures' = RelocateAfter)]_vars
  <2> SUFFICES ASSUME TypeOK, [Next]_vars
               PROVE  (pc # "relocate" /\ pc' = "relocate") <=>
                        (failures < RelocateAfter /\ failures' = RelocateAfter)
    OBVIOUS
  <2>1. CASE ReadFail
    <3>1. pc = "read" /\ failures' = MinOf(failures + 1, MaxFailures)
      BY <2>1 DEF ReadFail
    <3>2. pc' = "relocate" <=> failures' = RelocateAfter
      BY <2>1 DEF ReadFail, SearchDue
    <3>3. failures' = RelocateAfter => failures < RelocateAfter
      BY <3>1, CapsAssumption DEF MinOf, TypeOK
    <3>. QED BY <3>1, <3>2, <3>3
  <2>2. CASE ~ReadFail
    BY <2>2, OnlyAFailedReadCounts
  <2>. QED BY <2>1, <2>2
<1>. QED BY <1>1, TypeCorrect, PTL DEF Spec, SearchBeforeBackoff
=============================================================================
