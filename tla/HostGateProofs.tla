--------------------------- MODULE HostGateProofs ---------------------------
(***************************************************************************)
(* The gate's invariant and its refinement of HostSpacing, for any number  *)
(* of workers, hosts and slots and any delay and sweep threshold.          *)
(***************************************************************************)
EXTENDS HostGate, FiniteSetTheorems, TLAPS

(* Counting one more worker at slot s, which it did not point to before.   *)
LEMMA CountJoins ==
  ASSUME GateTypeOK, NEW w \in Workers, NEW s \in SlotIds, mine[w] = NoSlot,
         mine' = [mine EXCEPT ![w] = s]
  PROVE  /\ Cardinality(UsersOf(s)') = Cardinality(UsersOf(s)) + 1
         /\ \A t \in SlotIds \ {s} : UsersOf(t)' = UsersOf(t)
<1>1. IsFiniteSet(UsersOf(s))
  BY GateAssumption, FS_Subset DEF UsersOf
<1>2. w \notin UsersOf(s)
  BY GateAssumption DEF UsersOf
<1>3. UsersOf(s)' = UsersOf(s) \cup {w}
  BY DEF UsersOf, GateTypeOK
<1>4. \A t \in SlotIds \ {s} : UsersOf(t)' = UsersOf(t)
  BY GateAssumption DEF UsersOf, GateTypeOK
<1> QED  BY <1>1, <1>2, <1>3, <1>4, FS_AddElement

(* Counting one worker less at slot s, which it pointed to.                *)
LEMMA CountLeaves ==
  ASSUME GateTypeOK, NEW w \in Workers, NEW s \in SlotIds, mine[w] = s,
         mine' = [mine EXCEPT ![w] = NoSlot]
  PROVE  /\ Cardinality(UsersOf(s)') = Cardinality(UsersOf(s)) - 1
         /\ \A t \in SlotIds \ {s} : UsersOf(t)' = UsersOf(t)
<1>1. IsFiniteSet(UsersOf(s))
  BY GateAssumption, FS_Subset DEF UsersOf
<1>2. w \in UsersOf(s)
  BY DEF UsersOf
<1>3. UsersOf(s)' = UsersOf(s) \ {w}
  BY GateAssumption DEF UsersOf, GateTypeOK
<1>4. \A t \in SlotIds \ {s} : UsersOf(t)' = UsersOf(t)
  BY GateAssumption DEF UsersOf, GateTypeOK
<1> QED  BY <1>1, <1>2, <1>3, <1>4, FS_RemoveElement

(* UsersCountWorkers of the next state, one slot at a time.                *)
LEMMA CountsNext ==
  ASSUME GateTypeOK',
         \A h \in Hosts, s \in SlotIds :
           slotOf'[h] = s => users'[s] = Cardinality(UsersOf(s)')
  PROVE  UsersCountWorkers'
BY DEF UsersCountWorkers, UsersOf, GateTypeOK

(* A slot that counts no users has none.                                   *)
LEMMA UnusedHasNoUsers ==
  ASSUME NEW s, Cardinality(UsersOf(s)) = 0
  PROVE  \A w \in Workers : mine[w] # s
<1>1. IsFiniteSet(UsersOf(s))
  BY GateAssumption, FS_Subset DEF UsersOf
<1> QED  BY <1>1, FS_EmptySet DEF UsersOf

LEMMA GateInitInv == GateInit => GateInv
<1> SUFFICES ASSUME GateInit PROVE GateInv
  OBVIOUS
<1> USE GateAssumption DEF GateInit
<1>1. GateTypeOK
  BY DEF GateTypeOK, Ages, LongAgo
<1>2. SlotsOfWorkersAreKept
  BY DEF SlotsOfWorkersAreKept
<1>3. UsersCountWorkers
  BY DEF UsersCountWorkers
<1>4. PointersFollowPc /\ SlotsAreNotShared
  BY DEF PointersFollowPc, SlotsAreNotShared
<1>5. SlotHasOneHolder
  BY DEF SlotHasOneHolder, Holds
<1>6. SlotsKnowTheLastRequest
  BY DEF SlotsKnowTheLastRequest
<1> QED  BY <1>1, <1>2, <1>3, <1>4, <1>5, <1>6 DEF GateInv

(* FindSlot: one more user of a slot the map already has.                  *)
LEMMA FindSlotInv ==
  ASSUME GateInv, NEW w \in Workers, FindSlot(w)
  PROVE  GateInv'
<1> USE GateAssumption DEF GateInv
<1>0. PICK s \in SlotIds : s = slotOf[target[w]]
  BY DEF FindSlot, GateTypeOK, PointersFollowPc
<1>1. /\ target[w] \in Hosts /\ mine[w] = NoSlot /\ slotOf[target[w]] = s
      /\ users' = [users EXCEPT ![s] = @ + 1]
      /\ mine' = [mine EXCEPT ![w] = s]
      /\ pc' = [pc EXCEPT ![w] = "waiting"]
      /\ UNCHANGED <<slotOf, locked, last, target, quiet>>
  BY <1>0 DEF FindSlot, GateTypeOK, PointersFollowPc
<1>2. GateTypeOK'
  BY <1>1 DEF GateTypeOK
<1>3. SlotsOfWorkersAreKept'
  BY <1>1 DEF SlotsOfWorkersAreKept, GateTypeOK
<1>4. UsersCountWorkers'
  <2>1. /\ Cardinality(UsersOf(s)') = Cardinality(UsersOf(s)) + 1
        /\ \A t \in SlotIds \ {s} : UsersOf(t)' = UsersOf(t)
    BY <1>1, CountJoins
  <2> SUFFICES ASSUME NEW h \in Hosts, NEW t \in SlotIds, slotOf[h] = t
               PROVE  users'[t] = Cardinality(UsersOf(t)')
    BY <1>1, <1>2, CountsNext
  <2>2. Cardinality(UsersOf(t)) = users[t]
    BY GateAssumption DEF UsersCountWorkers
  <2> QED  BY <1>1, <2>1, <2>2 DEF GateTypeOK
<1>5. PointersFollowPc'
  BY <1>1 DEF PointersFollowPc, GateTypeOK
<1>6. SlotsAreNotShared' /\ SlotsKnowTheLastRequest'
  BY <1>1 DEF SlotsAreNotShared, SlotsKnowTheLastRequest
<1>7. SlotHasOneHolder'
  BY <1>1 DEF SlotHasOneHolder, Holds, GateTypeOK
<1> QED  BY <1>2, <1>3, <1>4, <1>5, <1>6, <1>7

(* NewSlot: the fresh slot has one user, nobody else points to it.         *)
LEMMA NewSlotInv ==
  ASSUME GateInv, NEW w \in Workers, NewSlot(w)
  PROVE  GateInv'
<1> USE GateAssumption DEF GateInv
<1> DEFINE h == target[w]
<1>1. h \in Hosts /\ mine[w] = NoSlot /\ slotOf[h] = NoSlot /\ pc[w] = "arriving"
  BY DEF NewSlot, GateTypeOK, PointersFollowPc
<1>2. PICK s \in SlotIds : /\ ~InUse(s)
                           /\ slotOf' = [slotOf EXCEPT ![h] = s]
                           /\ users' = [users EXCEPT ![s] = 1]
                           /\ locked' = [locked EXCEPT ![s] = FALSE]
                           /\ last' = [last EXCEPT ![s] = LongAgo]
                           /\ mine' = [mine EXCEPT ![w] = s]
                           /\ pc' = [pc EXCEPT ![w] = "waiting"]
                           /\ UNCHANGED <<target, quiet>>
  BY DEF NewSlot
<1>3. \A g \in Hosts : slotOf[g] # s
  BY <1>2 DEF InUse
<1>4. \A v \in Workers : mine[v] # s
  BY <1>2 DEF InUse
<1>5. GateTypeOK'
  BY <1>1, <1>2 DEF GateTypeOK, Ages, LongAgo
<1>6. SlotsOfWorkersAreKept'
  BY <1>1, <1>2 DEF SlotsOfWorkersAreKept, GateTypeOK
<1>7. UsersCountWorkers'
  <2>1. UsersOf(s) = {}
    BY <1>4 DEF UsersOf
  <2>2. /\ Cardinality(UsersOf(s)') = Cardinality(UsersOf(s)) + 1
        /\ \A t \in SlotIds \ {s} : UsersOf(t)' = UsersOf(t)
    BY <1>1, <1>2, CountJoins
  <2>3. Cardinality(UsersOf(s)') = 1
    BY <2>1, <2>2, FS_EmptySet
  <2> SUFFICES ASSUME NEW g \in Hosts, NEW t \in SlotIds, slotOf'[g] = t
               PROVE  users'[t] = Cardinality(UsersOf(t)')
    BY <1>5, CountsNext
  <2>4. CASE g = h
    BY <1>1, <1>2, <2>3, <2>4 DEF GateTypeOK
  <2>5. CASE g # h
    <3>1. slotOf[g] = t /\ t # s
      BY <1>1, <1>2, <1>3, <2>5 DEF GateTypeOK
    <3>2. users'[t] = users[t]
      BY <1>2, <3>1 DEF GateTypeOK
    <3> QED  BY <2>2, <3>1, <3>2 DEF UsersCountWorkers
  <2> QED  BY <2>4, <2>5
<1>8. PointersFollowPc'
  BY <1>1, <1>2 DEF PointersFollowPc, GateTypeOK
<1>9. SlotsAreNotShared'
  BY <1>1, <1>2, <1>3 DEF SlotsAreNotShared, GateTypeOK
<1>10. SlotHasOneHolder'
  BY <1>1, <1>2, <1>4 DEF SlotHasOneHolder, Holds, GateTypeOK
<1>11. SlotsKnowTheLastRequest'
  BY <1>1, <1>2, <1>3 DEF SlotsKnowTheLastRequest, GateTypeOK, LongAgo
<1> QED  BY <1>5, <1>6, <1>7, <1>8, <1>9, <1>10, <1>11

(* LockSlot: nobody else held the unlocked slot.                           *)
LEMMA LockSlotInv ==
  ASSUME GateInv, NEW w \in Workers, LockSlot(w)
  PROVE  GateInv'
<1> USE GateAssumption DEF GateInv, LockSlot
<1>1. mine[w] \in SlotIds
  BY DEF GateTypeOK, PointersFollowPc
<1>2. GateTypeOK'
  BY <1>1 DEF GateTypeOK
<1>3. SlotsOfWorkersAreKept' /\ SlotsAreNotShared' /\ SlotsKnowTheLastRequest'
  BY DEF SlotsOfWorkersAreKept, SlotsAreNotShared, SlotsKnowTheLastRequest
<1>4. UsersCountWorkers'
  BY DEF UsersCountWorkers, UsersOf
<1>5. PointersFollowPc'
  BY DEF PointersFollowPc, GateTypeOK
<1>6. SlotHasOneHolder'
  BY <1>1 DEF SlotHasOneHolder, Holds, GateTypeOK
<1> QED  BY <1>2, <1>3, <1>4, <1>5, <1>6

LEMMA StartRequestInv ==
  ASSUME GateInv, NEW w \in Workers, StartRequest(w)
  PROVE  GateInv'
<1> USE GateAssumption DEF GateInv, StartRequest
<1>1. GateTypeOK'
  BY DEF GateTypeOK
<1>2. SlotsOfWorkersAreKept' /\ SlotsAreNotShared' /\ SlotsKnowTheLastRequest'
  BY DEF SlotsOfWorkersAreKept, SlotsAreNotShared, SlotsKnowTheLastRequest
<1>3. UsersCountWorkers'
  BY DEF UsersCountWorkers, UsersOf
<1>4. PointersFollowPc'
  BY DEF PointersFollowPc, GateTypeOK
<1>5. SlotHasOneHolder'
  BY DEF SlotHasOneHolder, Holds, GateTypeOK
<1> QED  BY <1>1, <1>2, <1>3, <1>4, <1>5

LEMMA ArriveInv ==
  ASSUME GateInv, NEW w \in Workers, NEW h \in Hosts, Arrive(w, h)
  PROVE  GateInv'
<1> USE GateAssumption DEF GateInv, Arrive
<1>1. GateTypeOK'
  BY DEF GateTypeOK
<1>2. SlotsOfWorkersAreKept'
  BY DEF SlotsOfWorkersAreKept, GateTypeOK, PointersFollowPc
<1>3. SlotsAreNotShared' /\ SlotsKnowTheLastRequest'
  BY DEF SlotsAreNotShared, SlotsKnowTheLastRequest
<1>4. UsersCountWorkers'
  BY DEF UsersCountWorkers, UsersOf
<1>5. PointersFollowPc'
  BY DEF PointersFollowPc, GateTypeOK
<1>6. SlotHasOneHolder'
  BY DEF SlotHasOneHolder, Holds, GateTypeOK
<1> QED  BY <1>1, <1>2, <1>3, <1>4, <1>5, <1>6

LEMMA TickInv ==
  ASSUME GateInv, Tick
  PROVE  GateInv'
<1> USE GateAssumption DEF GateInv, Tick
<1>1. GateTypeOK'
  BY DEF GateTypeOK, Ages, LongAgo, Older
<1>2. SlotsOfWorkersAreKept' /\ SlotsAreNotShared' /\ PointersFollowPc'
  BY DEF SlotsOfWorkersAreKept, SlotsAreNotShared, PointersFollowPc
<1>3. SlotsKnowTheLastRequest'
  BY DEF SlotsKnowTheLastRequest, Older, LongAgo, GateTypeOK
<1>4. UsersCountWorkers'
  BY DEF UsersCountWorkers, UsersOf
<1>5. SlotHasOneHolder'
  BY DEF SlotHasOneHolder, Holds
<1> QED  BY <1>1, <1>2, <1>3, <1>4, <1>5

(* Release, seen from the slot s it unlocks: gone is what the sweep        *)
(* forgets, and nobody who stays points to any of it.                      *)
LEMMA ReleaseInv ==
  ASSUME GateInv, NEW w \in Workers, Release(w)
  PROVE  GateInv'
<1> USE GateAssumption DEF GateInv
<1>1. PICK h \in Hosts, s \in SlotIds : h = target[w] /\ s = slotOf[h] /\ s = mine[w]
  BY DEF Release, GateTypeOK, PointersFollowPc, SlotsOfWorkersAreKept
<1> DEFINE userCount == [users EXCEPT ![s] = @ - 1]
           age == [last EXCEPT ![s] = 0]
<1>2. PICK gone \in SUBSET Hosts :
        /\ \A g \in gone : slotOf[g] # NoSlot /\ userCount[slotOf[g]] = 0 /\ age[slotOf[g]] > Delay
        /\ pc[w] = "asking"
        /\ last' = age
        /\ users' = userCount
        /\ locked' = [locked EXCEPT ![s] = FALSE]
        /\ slotOf' = [g \in Hosts |-> IF g \in gone THEN NoSlot ELSE slotOf[g]]
        /\ pc' = [pc EXCEPT ![w] = "idle"]
        /\ target' = [target EXCEPT ![w] = NoHost]
        /\ mine' = [mine EXCEPT ![w] = NoSlot]
        /\ quiet' = [quiet EXCEPT ![h] = 0]
  <2> DEFINE G == Swept(h, userCount, age)
  <2>1. G \in SUBSET Hosts
    BY DEF Swept, Remembered
  <2>2. \A g \in G : slotOf[g] # NoSlot /\ userCount[slotOf[g]] = 0 /\ age[slotOf[g]] > Delay
    BY DEF Swept, Remembered
  <2> HIDE DEF G
  <2>3. /\ pc[w] = "asking"
        /\ last' = age
        /\ users' = userCount
        /\ locked' = [locked EXCEPT ![s] = FALSE]
        /\ slotOf' = [g \in Hosts |-> IF g \in G THEN NoSlot ELSE slotOf[g]]
        /\ pc' = [pc EXCEPT ![w] = "idle"]
        /\ target' = [target EXCEPT ![w] = NoHost]
        /\ mine' = [mine EXCEPT ![w] = NoSlot]
        /\ quiet' = [quiet EXCEPT ![h] = 0]
    BY <1>1 DEF Release, Unlocked, G
  <2> QED  BY <2>1, <2>2, <2>3
<1>3. /\ Cardinality(UsersOf(s)') = Cardinality(UsersOf(s)) - 1
      /\ \A t \in SlotIds \ {s} : UsersOf(t)' = UsersOf(t)
  BY <1>1, <1>2, CountLeaves
<1>4. /\ users[s] = Cardinality(UsersOf(s))
      /\ Cardinality(UsersOf(s)') \in Nat
  <2>1. IsFiniteSet(UsersOf(s)')
    BY FS_Subset DEF UsersOf
  <2> QED  BY <1>1, <2>1, FS_CardinalityType DEF UsersCountWorkers
<1>5. GateTypeOK'
  BY <1>1, <1>2, <1>3, <1>4 DEF GateTypeOK, Ages, LongAgo
<1>6. \A g \in Hosts, t \in SlotIds : slotOf[g] = t => users'[t] = Cardinality(UsersOf(t)')
  <2> SUFFICES ASSUME NEW g \in Hosts, NEW t \in SlotIds, slotOf[g] = t
               PROVE  users'[t] = Cardinality(UsersOf(t)')
    OBVIOUS
  <2>1. users[t] = Cardinality(UsersOf(t))
    BY DEF UsersCountWorkers
  <2>2. CASE t = s
    BY <1>2, <1>3, <2>1, <2>2 DEF GateTypeOK
  <2>3. CASE t # s
    BY <1>2, <1>3, <2>1, <2>3 DEF GateTypeOK
  <2> QED  BY <2>2, <2>3
<1>7. UsersCountWorkers'
  BY <1>2, <1>5, <1>6, CountsNext
<1>8. \A g \in gone, v \in Workers : mine'[v] # slotOf[g]
  <2> SUFFICES ASSUME NEW g \in gone, NEW t \in SlotIds, slotOf[g] = t
               PROVE  \A v \in Workers : mine'[v] # t
    BY <1>2 DEF GateTypeOK
  <2>1. Cardinality(UsersOf(t)') = 0
    BY <1>2, <1>6
  <2>2. IsFiniteSet(UsersOf(t)')
    BY FS_Subset DEF UsersOf
  <2> QED  BY <2>1, <2>2, FS_EmptySet DEF UsersOf
<1>9. SlotsOfWorkersAreKept'
  <2> SUFFICES ASSUME NEW v \in Workers, mine'[v] # NoSlot
               PROVE  slotOf'[target'[v]] = mine'[v]
    BY DEF SlotsOfWorkersAreKept
  <2>1. v # w /\ mine'[v] = mine[v] /\ target'[v] = target[v]
    BY <1>2 DEF GateTypeOK
  <2>2. slotOf[target[v]] = mine[v] /\ target[v] \in Hosts
    BY <2>1 DEF SlotsOfWorkersAreKept, PointersFollowPc, GateTypeOK
  <2>3. target[v] \notin gone
    BY <1>8, <2>1, <2>2
  <2> QED  BY <1>2, <2>1, <2>2, <2>3
<1>10. PointersFollowPc'
  BY <1>2 DEF PointersFollowPc, GateTypeOK
<1>11. SlotsAreNotShared'
  BY <1>2 DEF SlotsAreNotShared
<1>12. SlotHasOneHolder'
  <2>1. \A v \in Workers : Holds(v)' => v # w /\ Holds(v) /\ mine'[v] = mine[v]
    BY <1>2 DEF Holds, GateTypeOK
  <2>2. \A v \in Workers : Holds(v)' => mine[v] # s
    BY <1>1, <1>2, <2>1 DEF SlotHasOneHolder, Holds
  <2>3. \A v \in Workers : Holds(v)' => locked'[mine'[v]]
    BY <1>2, <2>1, <2>2 DEF SlotHasOneHolder, GateTypeOK
  <2> QED  BY <2>1, <2>3 DEF SlotHasOneHolder
<1>13. SlotsKnowTheLastRequest'
  <2> SUFFICES ASSUME NEW g \in Hosts
               PROVE  IF slotOf'[g] = NoSlot THEN quiet'[g] = LongAgo
                                             ELSE last'[slotOf'[g]] = quiet'[g]
    BY DEF SlotsKnowTheLastRequest, LongAgo
  <2>1. CASE g \in gone
    <3>1. slotOf[g] \in SlotIds /\ age[slotOf[g]] > Delay
      BY <1>2, <2>1 DEF GateTypeOK
    <3>2. slotOf[g] # s
      BY <3>1 DEF GateTypeOK
    <3>3. g # h /\ last[slotOf[g]] > Delay
      BY <1>1, <3>1, <3>2 DEF GateTypeOK
    <3>4. last[slotOf[g]] = quiet[g] /\ quiet[g] \in 0..(Delay + 1)
      BY <3>1 DEF SlotsKnowTheLastRequest, GateTypeOK, Ages
    <3>5. quiet[g] = LongAgo
      BY <3>3, <3>4 DEF LongAgo
    <3>6. slotOf'[g] = NoSlot /\ quiet'[g] = quiet[g]
      BY <1>2, <2>1, <3>3 DEF GateTypeOK
    <3> QED  BY <3>5, <3>6
  <2>2. CASE g \notin gone /\ g = h
    BY <1>1, <1>2, <2>2 DEF GateTypeOK
  <2>3. CASE g \notin gone /\ g # h
    BY <1>1, <1>2, <2>3 DEF GateTypeOK, SlotsKnowTheLastRequest, SlotsAreNotShared
  <2> QED  BY <2>1, <2>2, <2>3
<1> QED  BY <1>5, <1>7, <1>9, <1>10, <1>11, <1>12, <1>13

LEMMA GateStepInv == GateInv /\ [GateNext]_gateVars => GateInv'
<1> SUFFICES ASSUME GateInv, [GateNext]_gateVars PROVE GateInv'
  OBVIOUS
<1>1. CASE GateNext
  BY <1>1, ArriveInv, FindSlotInv, NewSlotInv, LockSlotInv, StartRequestInv, ReleaseInv,
     TickInv DEF GateNext
<1>2. CASE UNCHANGED gateVars
  <2> USE <1>2 DEF gateVars, GateInv
  <2>1. GateTypeOK'
    BY DEF GateTypeOK
  <2>2. SlotsOfWorkersAreKept' /\ SlotsAreNotShared' /\ PointersFollowPc'
    BY DEF SlotsOfWorkersAreKept, SlotsAreNotShared, PointersFollowPc
  <2>3. UsersCountWorkers'
    BY DEF UsersCountWorkers, UsersOf
  <2>4. SlotHasOneHolder' /\ SlotsKnowTheLastRequest'
    BY DEF SlotHasOneHolder, Holds, SlotsKnowTheLastRequest
  <2> QED  BY <2>1, <2>2, <2>3, <2>4
<1> QED  BY <1>1, <1>2

(* The gate's data structure stays consistent: every worker's slot is the  *)
(* one its host finds, users are counted, a slot has one holder and knows  *)
(* when its host was last asked (acquire and release, prefetch.go).        *)
THEOREM GateConsistent == GateSpec => []GateInv
<1>1. GateInit => GateInv
  BY GateInitInv
<1>2. GateInv /\ [GateNext]_gateVars => GateInv'
  BY GateStepInv
<1> QED  BY <1>1, <1>2, PTL DEF GateSpec

(* A worker's slot is never forgotten while it waits or asks.              *)
THEOREM SlotsAreKept == GateSpec => []SlotsOfWorkersAreKept
<1>1. GateInv => SlotsOfWorkersAreKept
  BY DEF GateInv
<1> QED  BY <1>1, GateConsistent, PTL

(* The user count of a remembered slot is exact (acquire, release).        *)
THEOREM UsersAreCounted == GateSpec => []UsersCountWorkers
<1>1. GateInv => UsersCountWorkers
  BY DEF GateInv
<1> QED  BY <1>1, GateConsistent, PTL

LEMMA SpacingInitially == GateInit => Spacing!SpacingInit
BY DEF GateInit, Spacing!SpacingInit, LongAgo, Spacing!LongAgo

LEMMA SpacingStep ==
  GateInv /\ [GateNext]_gateVars => [Spacing!SpacingNext]_(Spacing!spacingVars)
<1> DEFINE asking == [w \in Workers |-> IF pc[w] = "asking" THEN target[w] ELSE NoHost]
<1> SUFFICES ASSUME GateInv, [GateNext]_gateVars
             PROVE  Spacing!SpacingNext \/ (asking' = asking /\ quiet' = quiet)
  BY DEF Spacing!spacingVars
<1> USE GateAssumption DEF GateInv
<1>1. ASSUME NEW w \in Workers, NEW h \in Hosts, Arrive(w, h)
      PROVE  asking' = asking /\ quiet' = quiet
  BY <1>1 DEF Arrive, GateTypeOK
<1>2. ASSUME NEW w \in Workers, FindSlot(w) \/ NewSlot(w) \/ LockSlot(w)
      PROVE  asking' = asking /\ quiet' = quiet
  BY <1>2 DEF FindSlot, NewSlot, LockSlot, GateTypeOK
<1>3. ASSUME NEW w \in Workers, StartRequest(w)
      PROVE  Spacing!SpacingNext
  <2>1. PICK h \in Hosts, s \in SlotIds : h = target[w] /\ s = slotOf[h] /\ s = mine[w]
    BY <1>3 DEF StartRequest, GateTypeOK, PointersFollowPc, SlotsOfWorkersAreKept
  <2>2. \A v \in Workers : asking[v] # h
    <3> SUFFICES ASSUME NEW v \in Workers, pc[v] = "asking", target[v] = h
                 PROVE  FALSE
      BY DEF StartRequest
    <3>1. mine[v] = s
      BY <2>1 DEF SlotsOfWorkersAreKept, PointersFollowPc
    <3> QED  BY <1>3, <2>1, <3>1 DEF StartRequest, SlotHasOneHolder, Holds
  <2>3. quiet[h] >= Delay
    BY <1>3, <2>1 DEF StartRequest, SlotsKnowTheLastRequest
  <2>4. asking[w] = NoHost
    BY <1>3 DEF StartRequest
  <2>5. asking' = [asking EXCEPT ![w] = h] /\ quiet' = quiet
    BY <1>3, <2>1 DEF StartRequest, GateTypeOK
  <2>6. Spacing!Begin(w, h)
    BY <2>2, <2>3, <2>4, <2>5 DEF Spacing!Begin
  <2> QED  BY <2>6 DEF Spacing!SpacingNext
<1>4. ASSUME NEW w \in Workers, Release(w)
      PROVE  Spacing!SpacingNext
  <2>1. target[w] \in Hosts /\ pc[w] = "asking"
    BY <1>4 DEF Release, GateTypeOK, PointersFollowPc
  <2>2. asking[w] # NoHost /\ asking[w] = target[w]
    BY <2>1
  <2>3. /\ asking' = [asking EXCEPT ![w] = NoHost]
        /\ quiet' = [quiet EXCEPT ![target[w]] = 0]
    BY <1>4 DEF Release, GateTypeOK
  <2>4. Spacing!End(w)
    BY <2>2, <2>3 DEF Spacing!End
  <2> QED  BY <2>4 DEF Spacing!SpacingNext
<1>5. ASSUME Tick PROVE Spacing!SpacingNext
  <2>1. asking' = asking /\ quiet' = [h \in Hosts |-> Older(quiet[h])]
    BY <1>5 DEF Tick
  <2>2. Spacing!Pass
    BY <2>1 DEF Spacing!Pass, Older, LongAgo, Spacing!Older, Spacing!LongAgo
  <2> QED  BY <2>2 DEF Spacing!SpacingNext
<1>6. ASSUME UNCHANGED gateVars PROVE asking' = asking /\ quiet' = quiet
  BY <1>6 DEF gateVars
<1> QED  BY <1>1, <1>2, <1>3, <1>4, <1>5, <1>6 DEF GateNext

(* The code's gate implements the promise of HostSpacing: requests to one  *)
(* host never overlap and are at least Delay apart (hostGate's comment).   *)
THEOREM GateImplementsSpacing == GateSpec => ImplementsSpacing
<1>1. GateInit => Spacing!SpacingInit
  BY SpacingInitially
<1>2. GateInv /\ [GateNext]_gateVars => [Spacing!SpacingNext]_(Spacing!spacingVars)
  BY SpacingStep
<1> QED  BY <1>1, <1>2, GateConsistent, PTL
         DEF GateSpec, ImplementsSpacing, Spacing!SpacingSpec
=============================================================================
