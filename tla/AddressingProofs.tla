--------------------------- MODULE AddressingProofs ---------------------------
(***************************************************************************)
(* Proofs, for any number of appliances, devices and addresses and however *)
(* often DHCP moves something, of the safety properties of Addressing.     *)
(***************************************************************************)
EXTENDS Addressing, TLAPS

\* What the network does to an association leaves a table of Booleans.
LEMMA SurvivingTyped ==
  ASSUME TypeOK, NEW a
  PROVE  Surviving(a) \in [Devices -> BOOLEAN]
<1>1. \A d \in Devices : (alive[d] /\ to[d] # a) \in BOOLEAN
  BY DEF TypeOK
<1>. QED BY <1>1 DEF Surviving

\* A request leaves the link well typed, whoever serves it.
LEMMA LinkTyped ==
  ASSUME TypeOK, NEW d \in Devices, NEW u \in Units, NEW good \in BOOLEAN,
         NEW bad \in BOOLEAN, Served(d, u, good, bad) \/ Unanswered(d)
  PROVE  /\ to' \in [Devices -> Addrs] /\ peer' \in [Devices -> Units \cup {Nobody}]
         /\ alive' \in [Devices -> BOOLEAN] /\ confirmed' \in [Devices -> BOOLEAN]
         /\ noticed' \in [Devices -> BOOLEAN]
<1>1. CASE Unanswered(d)
  BY <1>1 DEF Unanswered, Detached, TypeOK
<1>2. CASE Served(d, u, good, bad)
  <2>1. CASE Associated(d)
    <3>1. (confirmed[d] \/ good) \in BOOLEAN /\ (noticed[d] \/ bad) \in BOOLEAN
      BY DEF TypeOK
    <3>. QED BY <1>2, <2>1, <3>1 DEF Served, TypeOK
  <2>2. CASE ~Associated(d)
    <3>1. Surviving(to[d]) \in [Devices -> BOOLEAN]
      BY SurvivingTyped
    <3>. QED BY <1>2, <2>2, <3>1 DEF Served, TypeOK
  <2>. QED BY <2>1, <2>2
<1>. QED BY <1>1, <1>2

\* Closing a session leaves the link well typed.
LEMMA DetachedTyped ==
  ASSUME TypeOK, NEW d \in Devices, Detached(d)
  PROVE  /\ peer' \in [Devices -> Units \cup {Nobody}]
         /\ alive' \in [Devices -> BOOLEAN] /\ confirmed' \in [Devices -> BOOLEAN]
         /\ noticed' \in [Devices -> BOOLEAN]
BY DEF Detached, TypeOK

\* A probe, too.
LEMMA ProbedTyped ==
  ASSUME TypeOK, NEW d \in Devices, NEW a, Probed(d, a)
  PROVE  /\ alive' \in [Devices -> BOOLEAN]
         /\ UNCHANGED <<to, peer, confirmed, noticed>>
BY SurvivingTyped DEF Probed, TypeOK

\* Both kinds of full read, and the requests that check nothing.
LEMMA ReadTyped ==
  ASSUME TypeOK, NEW d \in Devices,
         \/ ReadSucceeds(d) \/ ReadFails(d) \/ Unanswered(d)
         \/ \E u \in Units : Served(d, u, FALSE, FALSE)
  PROVE  /\ to' \in [Devices -> Addrs] /\ peer' \in [Devices -> Units \cup {Nobody}]
         /\ alive' \in [Devices -> BOOLEAN] /\ confirmed' \in [Devices -> BOOLEAN]
         /\ noticed' \in [Devices -> BOOLEAN]
<1>1. CASE Unanswered(d)
  BY <1>1, DetachedTyped DEF Unanswered, TypeOK
<1>2. ASSUME NEW u \in Units, NEW good \in BOOLEAN, NEW bad \in BOOLEAN,
             Served(d, u, good, bad)
      PROVE  /\ to' \in [Devices -> Addrs] /\ peer' \in [Devices -> Units \cup {Nobody}]
             /\ alive' \in [Devices -> BOOLEAN] /\ confirmed' \in [Devices -> BOOLEAN]
             /\ noticed' \in [Devices -> BOOLEAN]
  BY <1>2, LinkTyped
<1>3. TRUE \in BOOLEAN /\ FALSE \in BOOLEAN
  OBVIOUS
<1>4. \/ Unanswered(d)
      \/ \E u \in Units, good \in BOOLEAN, bad \in BOOLEAN : Served(d, u, good, bad)
  BY <1>3 DEF ReadSucceeds, ReadFails
<1>. QED BY <1>1, <1>2, <1>4

\* What is typed besides: an address that is about to be stored is one.
Stores == \A d \in Devices, m \in Actors : task[<<d, m>>] \in {"close", "store"} => target[<<d, m>>] \in Addrs

\* Every initial state is well typed, and no move is under way.
LEMMA TypeInit == Init => TypeOK /\ Stores
<1> SUFFICES ASSUME Init PROVE TypeOK /\ Stores
  OBVIOUS
<1>1. /\ at \in [Units -> Addrs \cup {Nowhere}]
      /\ \A d \in Devices : at[d] \in Addrs
  BY UnitsAssumption DEF Init, Leases
<1>2. 0 \in 0..MaxMoves /\ 0 \in 0..MaxFailures
  BY MovesAssumption DEF MaxFailures, SearchAfter
<1>3. host \in [Devices -> Addrs] /\ to \in [Devices -> Addrs]
  BY <1>1 DEF Init
<1>4. TypeOK
  BY <1>1, <1>2, <1>3 DEF Init, TypeOK
<1>5. Stores
  BY DEF Init, Stores
<1>. QED BY <1>4, <1>5

\* So does every step, one case per action.
LEMMA TypeStep == TypeOK /\ Stores /\ [Next]_vars => TypeOK' /\ Stores'
<1> SUFFICES ASSUME TypeOK, Stores, [Next]_vars PROVE TypeOK' /\ Stores'
  OBVIOUS
<1> USE DEF vars, world, link, actors
<1>1. CASE Readdress
  <2>1. at' \in [Units -> Addrs \cup {Nowhere}] /\ moves' \in 0..MaxMoves
    BY <1>1, MovesAssumption DEF Readdress, Leases, TypeOK
  <2>2. alive' \in [Devices -> BOOLEAN]
    BY <1>1 DEF Readdress
  <2>. QED BY <1>1, <2>1, <2>2 DEF Readdress, TypeOK, Stores
<1>2. ASSUME NEW d \in Devices, PollOk(d) PROVE TypeOK' /\ Stores'
  <2>1. 0 \in 0..MaxFailures
    BY DEF MaxFailures, SearchAfter
  <2>2. failures' \in [Devices -> 0..MaxFailures] /\ resolved' \in [Devices -> BOOLEAN]
    BY <1>2, <2>1 DEF PollOk, ReadSucceeds, TypeOK
  <2>. QED BY <1>2, <2>2, ReadTyped DEF PollOk, TypeOK, Stores
<1>3. ASSUME NEW d \in Devices, PollFails(d) PROVE TypeOK' /\ Stores'
  <2>1. failures' \in [Devices -> 0..MaxFailures] /\ UNCHANGED resolved
    BY <1>3 DEF PollFails, ReadFails, TypeOK, MaxFailures, SearchAfter
  <2>2. Responders \subseteq Addrs
    BY DEF Responders, TypeOK
  <2>3. /\ task' \in [Devices \X Actors -> {"rest", "search", "close", "store", "swap"}]
        /\ todo' \in [Devices \X Actors -> SUBSET Addrs]
    BY <1>3, <2>2 DEF PollFails, TypeOK
  <2>4. Stores'
    BY <1>3 DEF PollFails, TypeOK, Stores
  <2>. QED BY <1>3, <2>1, <2>3, <2>4, ReadTyped DEF PollFails, TypeOK
<1>4. ASSUME NEW d \in Devices, Refresh(d) PROVE TypeOK' /\ Stores'
  <2>1. resolved' \in [Devices -> BOOLEAN]
    BY <1>4 DEF Refresh, ReadSucceeds, ReadFails, TypeOK
  <2>. QED BY <1>4, <2>1, ReadTyped DEF Refresh, TypeOK, Stores
<1>5. ASSUME NEW d \in Devices, RepairTest(d) PROVE TypeOK' /\ Stores'
  BY <1>5, ReadTyped DEF RepairTest, TypeOK, Stores
<1>6. ASSUME NEW d \in Devices, Command(d) PROVE TypeOK' /\ Stores'
  <2>1. misdirected' \subseteq Devices
    BY <1>6 DEF Command, TypeOK
  <2>2. Unanswered(d) \/ \E u \in Units : Served(d, u, FALSE, FALSE)
    BY <1>6 DEF Command
  <2>. QED BY <1>6, <2>1, <2>2, ReadTyped DEF Command, TypeOK, Stores
<1>7. ASSUME NEW d \in Devices, RepairFind(d) PROVE TypeOK' /\ Stores'
  <2>1. Responders \subseteq Addrs
    BY DEF Responders, TypeOK
  <2>2. /\ task' \in [Devices \X Actors -> {"rest", "search", "close", "store", "swap"}]
        /\ todo' \in [Devices \X Actors -> SUBSET Addrs]
    BY <1>7, <2>1 DEF RepairFind, TypeOK
  <2>3. Stores'
    BY <1>7 DEF RepairFind, TypeOK, Stores
  <2>. QED BY <1>7, <2>2, <2>3 DEF RepairFind, TypeOK
<1>8. ASSUME NEW d \in Devices, NEW m \in Actors, NEW a \in Addrs, Choose(d, m, a)
      PROVE  /\ task' \in [Devices \X Actors -> {"rest", "search", "close", "store", "swap"}]
             /\ todo' \in [Devices \X Actors -> SUBSET Addrs]
             /\ target' \in [Devices \X Actors -> Addrs \cup {Nowhere}]
             /\ picked' \in [Devices \X Actors -> BOOLEAN] /\ Stores'
  <2>1. (d \in UnitsAt(a)) \in BOOLEAN
    OBVIOUS
  <2>2. picked' \in [Devices \X Actors -> BOOLEAN]
    BY <1>8, <2>1 DEF Choose, TypeOK
  <2>3. Stores'
    BY <1>8 DEF Choose, TypeOK, Stores
  <2>. QED BY <1>8, <2>2, <2>3 DEF Choose, TypeOK
<1>9. ASSUME NEW d \in Devices, RepairHost(d) PROVE TypeOK' /\ Stores'
  <2>1. "repair" \in Actors
    BY DEF Actors
  <2>2. PICK a \in Addrs : /\ Probed(d, a)
                           /\ Choose(d, "repair", a) \/ UNCHANGED actors
    BY <1>9 DEF RepairHost
  <2>3. /\ task' \in [Devices \X Actors -> {"rest", "search", "close", "store", "swap"}]
        /\ todo' \in [Devices \X Actors -> SUBSET Addrs]
        /\ target' \in [Devices \X Actors -> Addrs \cup {Nowhere}]
        /\ picked' \in [Devices \X Actors -> BOOLEAN] /\ Stores'
    BY <1>8, <2>1, <2>2 DEF TypeOK, Stores
  <2>. QED BY <1>9, <2>2, <2>3, ProbedTyped DEF RepairHost, TypeOK
<1>10. ASSUME NEW d \in Devices, NEW m \in Actors, SearchNext(d, m) PROVE TypeOK' /\ Stores'
  <2>1. PICK a \in Lowest(todo[<<d, m>>]) :
          /\ UNCHANGED link \/ Probed(d, a)
          /\ \/ Choose(d, m, a)
             \/ /\ todo' = [todo EXCEPT ![<<d, m>>] = @ \ {a}]
                /\ UNCHANGED <<task, target, picked>>
    BY <1>10 DEF SearchNext
  <2>2. a \in Addrs
    BY DEF Lowest, TypeOK
  <2>3. /\ task' \in [Devices \X Actors -> {"rest", "search", "close", "store", "swap"}]
        /\ todo' \in [Devices \X Actors -> SUBSET Addrs]
        /\ target' \in [Devices \X Actors -> Addrs \cup {Nowhere}]
        /\ picked' \in [Devices \X Actors -> BOOLEAN] /\ Stores'
    <3>1. CASE Choose(d, m, a)
      BY <1>8, <2>2, <3>1
    <3>2. CASE /\ todo' = [todo EXCEPT ![<<d, m>>] = @ \ {a}]
               /\ UNCHANGED <<task, target, picked>>
      BY <3>2 DEF TypeOK, Stores
    <3>. QED BY <2>1, <3>1, <3>2
  <2>4. alive' \in [Devices -> BOOLEAN] /\ UNCHANGED <<to, peer, confirmed, noticed>>
    BY <2>1, ProbedTyped DEF TypeOK
  <2>. QED BY <1>10, <2>3, <2>4 DEF SearchNext, TypeOK
<1>11. ASSUME NEW d \in Devices, NEW m \in Actors, SearchEnds(d, m) PROVE TypeOK' /\ Stores'
  BY <1>11 DEF SearchEnds, TypeOK, Stores
<1>12. ASSUME NEW d \in Devices, NEW m \in Actors, MoveClose(d, m) PROVE TypeOK' /\ Stores'
  <2>1. Stores'
    BY <1>12 DEF MoveClose, TypeOK, Stores
  <2>. QED BY <1>12, <2>1, DetachedTyped DEF MoveClose, TypeOK
<1>13. ASSUME NEW d \in Devices, NEW m \in Actors, MoveStore(d, m) PROVE TypeOK' /\ Stores'
  <2>1. host' \in [Devices -> Addrs] /\ honest' \in [Devices -> BOOLEAN]
    BY <1>13 DEF MoveStore, TypeOK, Stores
  <2>2. Stores'
    BY <1>13 DEF MoveStore, TypeOK, Stores
  <2>. QED BY <1>13, <2>1, <2>2 DEF MoveStore, TypeOK
<1>14. ASSUME NEW d \in Devices, NEW m \in Actors, MoveSwap(d, m) PROVE TypeOK' /\ Stores'
  <2>1. 0 \in 0..MaxFailures
    BY DEF MaxFailures, SearchAfter
  <2>2. /\ failures' \in [Devices -> 0..MaxFailures] /\ to' \in [Devices -> Addrs]
    BY <1>14, <2>1 DEF MoveSwap, TypeOK, SessionAddress
  <2>3. Stores'
    BY <1>14 DEF MoveSwap, TypeOK, Stores
  <2>. QED BY <1>14, <2>2, <2>3, DetachedTyped DEF MoveSwap, TypeOK
<1>15. CASE UNCHANGED vars
  BY <1>15 DEF TypeOK, Stores
<1>. QED BY <1>1, <1>2, <1>3, <1>4, <1>5, <1>6, <1>7, <1>9, <1>10, <1>11, <1>12, <1>13,
            <1>14, <1>15 DEF Next, Poll, Search, Move

\* The state keeps its shape: whoever moves a device, what it stores and
\* connects to is an address (Addressing).
THEOREM TypeCorrect == Spec => []TypeOK
BY TypeInit, TypeStep, PTL DEF Spec

-----------------------------------------------------------------------------
\* A request confirms an association only at the device's own appliance, and
\* leaves every other association alone: one that names its appliance and what
\* the read made of it.
LEMMA ServedConfirms ==
  ASSUME TypeOK, ConfirmedIsOwn, NEW d \in Devices, NEW u \in Units,
         NEW good \in BOOLEAN, NEW bad \in BOOLEAN, Served(d, u, good, bad),
         (good /\ d \in Verifiable) => u = d
  PROVE  ConfirmedIsOwn'
<1> SUFFICES ASSUME NEW e \in Verifiable \cap Devices, confirmed'[e] PROVE peer'[e] = e
  BY DEF ConfirmedIsOwn
<1>1. CASE Associated(d)
  <2>1. peer' = peer /\ u = peer[d]
    BY <1>1 DEF Served
  <2>2. CASE e = d
    <3>1. confirmed[d] \/ good
      BY <1>1, <2>2 DEF Served, TypeOK
    <3>. QED BY <2>1, <2>2, <3>1 DEF ConfirmedIsOwn
  <2>3. CASE e # d
    <3>1. confirmed[e]
      BY <1>1, <2>3 DEF Served, TypeOK
    <3>. QED BY <2>1, <3>1 DEF ConfirmedIsOwn
  <2>. QED BY <2>2, <2>3
<1>2. CASE ~Associated(d)
  <2>1. /\ peer' = [peer EXCEPT ![d] = u]
        /\ confirmed' = [confirmed EXCEPT ![d] = good]
    BY <1>2 DEF Served
  <2>2. CASE e = d
    BY <2>1, <2>2 DEF TypeOK
  <2>3. CASE e # d
    BY <2>1, <2>3 DEF TypeOK, ConfirmedIsOwn
  <2>. QED BY <2>2, <2>3
<1>. QED BY <1>1, <1>2

\* Closing a session confirms nothing.
LEMMA DetachedConfirms ==
  ASSUME TypeOK, ConfirmedIsOwn, NEW d \in Devices, Detached(d)
  PROVE  ConfirmedIsOwn'
<1> SUFFICES ASSUME NEW e \in Verifiable \cap Devices, confirmed'[e] PROVE peer'[e] = e
  BY DEF ConfirmedIsOwn
<1>1. e # d
  BY DEF Detached, TypeOK
<1>. QED BY <1>1 DEF Detached, TypeOK, ConfirmedIsOwn

\* No step confirms an association with another appliance.
LEMMA ConfirmedStep == TypeOK /\ ConfirmedIsOwn /\ [Next]_vars => ConfirmedIsOwn'
<1> SUFFICES ASSUME TypeOK, ConfirmedIsOwn, [Next]_vars PROVE ConfirmedIsOwn'
  OBVIOUS
<1> USE DEF vars, world, link, actors
<1>a. TRUE \in BOOLEAN /\ FALSE \in BOOLEAN
  OBVIOUS
<1>1. ASSUME UNCHANGED <<peer, confirmed>> PROVE ConfirmedIsOwn'
  BY <1>1 DEF ConfirmedIsOwn
<1>2. ASSUME NEW d \in Devices, Unanswered(d) PROVE ConfirmedIsOwn'
  BY <1>2, DetachedConfirms DEF Unanswered
<1>3. ASSUME NEW d \in Devices, ReadSucceeds(d) PROVE ConfirmedIsOwn'
  <2>1. PICK u \in Units : ~Imposter(d, u) /\ Served(d, u, TRUE, FALSE)
    BY <1>3 DEF ReadSucceeds
  <2>2. d \in Verifiable => u = d
    BY <2>1 DEF Imposter
  <2>. QED BY <1>a, <2>1, <2>2, ServedConfirms
<1>4. ASSUME NEW d \in Devices, ReadFails(d) PROVE ConfirmedIsOwn'
  <2>1. Unanswered(d) \/ \E u \in Units : Served(d, u, FALSE, TRUE)
    BY <1>4 DEF ReadFails
  <2>. QED BY <1>2, <1>a, <2>1, ServedConfirms
<1>5. ASSUME NEW d \in Devices, \E u \in Units : Served(d, u, FALSE, FALSE)
      PROVE ConfirmedIsOwn'
  BY <1>5, <1>a, ServedConfirms
<1>6. ASSUME NEW d \in Devices, PollOk(d) \/ PollFails(d) \/ Refresh(d) PROVE ConfirmedIsOwn'
  BY <1>3, <1>4, <1>6 DEF PollOk, PollFails, Refresh
<1>7. ASSUME NEW d \in Devices, RepairTest(d) \/ Command(d) PROVE ConfirmedIsOwn'
  BY <1>2, <1>5, <1>7 DEF RepairTest, Command
<1>8. ASSUME NEW d \in Devices, RepairFind(d) \/ RepairHost(d) PROVE ConfirmedIsOwn'
  BY <1>1, <1>8 DEF RepairFind, RepairHost, Probed
<1>9. ASSUME NEW d \in Devices, NEW m \in Actors, Search(d, m) PROVE ConfirmedIsOwn'
  BY <1>1, <1>9 DEF Search, SearchNext, SearchEnds, Probed
<1>10. ASSUME NEW d \in Devices, NEW m \in Actors, MoveClose(d, m) \/ MoveSwap(d, m)
       PROVE ConfirmedIsOwn'
  BY <1>10, DetachedConfirms DEF MoveClose, MoveSwap
<1>11. ASSUME NEW d \in Devices, NEW m \in Actors, MoveStore(d, m) PROVE ConfirmedIsOwn'
  BY <1>1, <1>11 DEF MoveStore
<1>12. CASE Readdress \/ UNCHANGED vars
  BY <1>1, <1>12 DEF Readdress
<1>. QED BY <1>6, <1>7, <1>8, <1>9, <1>10, <1>11, <1>12 DEF Next, Poll, Move

\* An association over which a full read went through ends at the device's own
\* appliance, for every device with a usable serial and however often DHCP moves
\* appliances (_read_and_apply's identity check).
THEOREM ConfirmedAssociationsAreOwn == Spec => []ConfirmedIsOwn
<1>1. Init => ConfirmedIsOwn
  BY DEF Init, ConfirmedIsOwn
<1>. QED BY <1>1, TypeCorrect, ConfirmedStep, PTL DEF Spec

-----------------------------------------------------------------------------
\* What is remembered of a target until it is stored, and of the address the
\* device has: its own appliance was there when it was probed.
Chosen == \A d \in Verifiable \cap Devices, m \in Actors : picked[<<d, m>>]
Truthful == RepointedToItself /\ Chosen

\* A target is chosen only where a probe read the device's own serial.
LEMMA ChosenHere ==
  ASSUME TypeOK, Chosen, NEW d \in Devices, NEW m \in Actors, NEW a,
         Choose(d, m, a), d \in Verifiable => AnswersAs(d, a)
  PROVE  Chosen'
<1> SUFFICES ASSUME NEW e \in Verifiable \cap Devices, NEW n \in Actors
             PROVE picked'[<<e, n>>]
  BY DEF Chosen
<1>1. picked' = [picked EXCEPT ![<<d, m>>] = d \in UnitsAt(a)]
  BY DEF Choose
<1>2. CASE e = d /\ n = m
  BY <1>1, <1>2 DEF AnswersAs, TypeOK
<1>3. CASE ~(e = d /\ n = m)
  BY <1>1, <1>3 DEF Chosen, TypeOK
<1>. QED BY <1>2, <1>3

\* No step stores or chooses any other address.
LEMMA TruthfulStep == TypeOK /\ Truthful /\ [Next]_vars => Truthful'
<1> SUFFICES ASSUME TypeOK, RepointedToItself, Chosen, [Next]_vars PROVE Truthful'
  BY DEF Truthful
<1> USE DEF vars, world, link, actors
<1>1. ASSUME UNCHANGED <<picked, honest>> PROVE Truthful'
  BY <1>1 DEF Truthful, RepointedToItself, Chosen
<1>2. ASSUME Chosen', UNCHANGED honest PROVE Truthful'
  BY <1>2 DEF Truthful, RepointedToItself
<1>3. ASSUME NEW d \in Devices, RepairHost(d) PROVE Truthful'
  <2>1. PICK a \in Addrs :
          \/ (d \in Verifiable => AnswersAs(d, a)) /\ Choose(d, "repair", a)
          \/ UNCHANGED actors
    BY <1>3 DEF RepairHost
  <2>2. "repair" \in Actors /\ UNCHANGED honest
    BY <1>3 DEF Actors, RepairHost
  <2>3. CASE (d \in Verifiable => AnswersAs(d, a)) /\ Choose(d, "repair", a)
    BY <1>2, <2>2, <2>3, ChosenHere
  <2>4. CASE UNCHANGED actors
    BY <1>1, <2>2, <2>4
  <2>. QED BY <2>1, <2>3, <2>4
<1>4. ASSUME NEW d \in Devices, NEW m \in Actors, SearchNext(d, m) PROVE Truthful'
  <2>1. PICK a \in Lowest(todo[<<d, m>>]) :
          (AnswersAs(d, a) /\ Choose(d, m, a)) \/ UNCHANGED picked
    BY <1>4 DEF SearchNext
  <2>2. UNCHANGED honest
    BY <1>4 DEF SearchNext
  <2>. QED BY <1>1, <1>2, <2>1, <2>2, ChosenHere
<1>5. ASSUME NEW d \in Devices, NEW m \in Actors, MoveStore(d, m) PROVE Truthful'
  <2>1. honest' = [honest EXCEPT ![d] = picked[<<d, m>>]] /\ UNCHANGED picked
    BY <1>5 DEF MoveStore
  <2>2. RepointedToItself'
    <3> SUFFICES ASSUME NEW e \in Verifiable \cap Devices PROVE honest'[e]
      BY DEF RepointedToItself
    <3>1. CASE e = d
      BY <2>1, <3>1 DEF Chosen, TypeOK
    <3>2. CASE e # d
      BY <2>1, <3>2 DEF RepointedToItself, TypeOK
    <3>. QED BY <3>1, <3>2
  <2>. QED BY <2>1, <2>2 DEF Truthful, Chosen
<1>6. ASSUME NEW d \in Devices,
             PollOk(d) \/ PollFails(d) \/ Refresh(d) \/ RepairTest(d) \/ Command(d) \/ RepairFind(d)
      PROVE Truthful'
  BY <1>1, <1>6 DEF PollOk, PollFails, Refresh, RepairTest, Command, RepairFind
<1>7. ASSUME NEW d \in Devices, NEW m \in Actors,
             SearchEnds(d, m) \/ MoveClose(d, m) \/ MoveSwap(d, m)
      PROVE Truthful'
  BY <1>1, <1>7 DEF SearchEnds, MoveClose, MoveSwap
<1>8. CASE Readdress \/ UNCHANGED vars
  BY <1>1, <1>8 DEF Readdress
<1>. QED BY <1>3, <1>4, <1>5, <1>6, <1>7, <1>8 DEF Next, Poll, Search, Move

\* Whoever re-points a device with a usable serial, the loop's search or Repair,
\* and whoever else moves it at the same time, the address it was given answered
\* with its own serial when it was probed (_relocate, _on_repair_find).
THEOREM RepointedOnlyToItself == Spec => []RepointedToItself
<1>1. Init => Truthful
  BY DEF Init, Truthful, RepointedToItself, Chosen
<1>2. Truthful => RepointedToItself
  BY DEF Truthful
<1>. QED BY <1>1, <1>2, TypeCorrect, TruthfulStep, PTL DEF Spec
==============================================================================
