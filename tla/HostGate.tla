------------------------------ MODULE HostGate ------------------------------
(***************************************************************************)
(* hostGate of src/internal/reader/prefetch/prefetch.go: a map from hosts  *)
(* to slots, each slot with its own mutex, a count of users and the time   *)
(* of its last release; g.mu guards the map and the counts.  A slot object *)
(* is named by a member of SlotIds, so that a worker may hold a pointer to *)
(* a slot that the map has forgotten and replaced.                         *)
(*                                                                         *)
(* A section of code under g.mu is one step.  slot.last is touched under   *)
(* slot.mu or, by the sweep, for slots without users only, so no step      *)
(* observes it half way.  The clock is an age per slot that saturates just *)
(* beyond Delay: nothing compares an age with anything else.               *)
(***************************************************************************)
EXTENDS Naturals, FiniteSets

CONSTANTS Workers, Hosts, Delay, NoHost,
          SlotIds,    \* heap addresses of slots
          NoSlot,     \* the nil pointer
          SweepAbove  \* the number of slots above which release sweeps: 1000

ASSUME GateAssumption == /\ IsFiniteSet(Workers)
                         /\ Delay \in Nat
                         /\ SweepAbove \in Nat
                         /\ NoHost \notin Hosts
                         /\ NoSlot \notin SlotIds

VARIABLES slotOf,   \* g.slots: the slot of each host, or NoSlot
          users,    \* slot.users
          locked,   \* slot.mu is held
          last,     \* ticks since slot.last; LongAgo too when slot.last is zero
          pc,       \* where each worker is in acquire/release
          target,   \* the host the worker acquires
          mine,     \* the slot pointer in the worker's acquire
          quiet     \* history: ticks since the last request to a host ended

gateVars == <<slotOf, users, locked, last, pc, target, mine, quiet>>

Ages == 0..(Delay + 1)
LongAgo == Delay + 1
Older(age) == IF age = LongAgo THEN age ELSE age + 1

Remembered == {h \in Hosts : slotOf[h] # NoSlot}
InUse(s) == (\E h \in Hosts : slotOf[h] = s) \/ (\E w \in Workers : mine[w] = s)

GateTypeOK ==
  /\ slotOf \in [Hosts -> SlotIds \cup {NoSlot}]
  /\ users \in [SlotIds -> Nat]
  /\ locked \in [SlotIds -> BOOLEAN]
  /\ last \in [SlotIds -> Ages]
  /\ pc \in [Workers -> {"idle", "arriving", "waiting", "spacing", "asking"}]
  /\ target \in [Workers -> Hosts \cup {NoHost}]
  /\ mine \in [Workers -> SlotIds \cup {NoSlot}]
  /\ quiet \in [Hosts -> Ages]

GateInit ==
  /\ slotOf = [h \in Hosts |-> NoSlot]
  /\ users = [s \in SlotIds |-> 0]
  /\ locked = [s \in SlotIds |-> FALSE]
  /\ last = [s \in SlotIds |-> LongAgo]
  /\ pc = [w \in Workers |-> "idle"]
  /\ target = [w \in Workers |-> NoHost]
  /\ mine = [w \in Workers |-> NoSlot]
  /\ quiet = [h \in Hosts |-> LongAgo]

(* fetchEntry reaches hosts.acquire(host). *)
Arrive(w, h) ==
  /\ pc[w] = "idle"
  /\ pc' = [pc EXCEPT ![w] = "arriving"]
  /\ target' = [target EXCEPT ![w] = h]
  /\ UNCHANGED <<slotOf, users, locked, last, mine, quiet>>

(* Faulty variant: the shared slot's new user is not counted.              *)
FindSlotUncounted(w) ==
  /\ pc[w] = "arriving"
  /\ slotOf[target[w]] # NoSlot
  /\ mine' = [mine EXCEPT ![w] = slotOf[target[w]]]
  /\ pc' = [pc EXCEPT ![w] = "waiting"]
  /\ UNCHANGED <<slotOf, users, locked, last, target, quiet>>

(* acquire, under g.mu: the host's slot exists, its users are counted.     *)
FindSlot(w) ==
  LET h == target[w] IN
  /\ pc[w] = "arriving"
  /\ slotOf[h] # NoSlot
  /\ users' = [users EXCEPT ![slotOf[h]] = @ + 1]
  /\ mine' = [mine EXCEPT ![w] = slotOf[h]]
  /\ pc' = [pc EXCEPT ![w] = "waiting"]
  /\ UNCHANGED <<slotOf, locked, last, target, quiet>>

(* acquire, under g.mu: the host is new or forgotten, a fresh slot whose   *)
(* last is the zero time is stored for it.                                 *)
NewSlot(w) ==
  LET h == target[w] IN
  /\ pc[w] = "arriving"
  /\ slotOf[h] = NoSlot
  /\ \E s \in SlotIds :
       /\ ~InUse(s)
       /\ slotOf' = [slotOf EXCEPT ![h] = s]
       /\ users' = [users EXCEPT ![s] = 1]
       /\ locked' = [locked EXCEPT ![s] = FALSE]
       /\ last' = [last EXCEPT ![s] = LongAgo]
       /\ mine' = [mine EXCEPT ![w] = s]
  /\ pc' = [pc EXCEPT ![w] = "waiting"]
  /\ UNCHANGED <<target, quiet>>

(* slot.mu.Lock() *)
LockSlot(w) ==
  /\ pc[w] = "waiting"
  /\ ~locked[mine[w]]
  /\ locked' = [locked EXCEPT ![mine[w]] = TRUE]
  /\ pc' = [pc EXCEPT ![w] = "spacing"]
  /\ UNCHANGED <<slotOf, users, last, target, mine, quiet>>

(* The sleep until slot.last + delay, then the request itself begins.      *)
StartRequest(w) ==
  /\ pc[w] = "spacing"
  /\ last[mine[w]] >= Delay
  /\ pc' = [pc EXCEPT ![w] = "asking"]
  /\ UNCHANGED <<slotOf, users, locked, last, target, mine, quiet>>

(* Faulty variants of the sweep: one drops the age condition, one the      *)
(* users condition.                                                        *)
SweptTooEarly(host, userCount, age) ==
  IF userCount[slotOf[host]] = 0 /\ Cardinality(Remembered) > SweepAbove
  THEN {h \in Remembered : userCount[slotOf[h]] = 0}
  ELSE {}

SweptInUse(host, userCount, age) ==
  IF userCount[slotOf[host]] = 0 /\ Cardinality(Remembered) > SweepAbove
  THEN {h \in Remembered : age[slotOf[h]] > Delay}
  ELSE {}

(* The idle slots release forgets, given the users and ages it leaves.     *)
Swept(host, userCount, age) ==
  IF userCount[slotOf[host]] = 0 /\ Cardinality(Remembered) > SweepAbove
  THEN {h \in Remembered : userCount[slotOf[h]] = 0 /\ age[slotOf[h]] > Delay}
  ELSE {}

(* slot.mu.Unlock(), and a faulty variant that unlocks for nobody left.    *)
UnlockedIfLast(s) == [locked EXCEPT ![s] = users[s] > 1]
Unlocked(s) == [locked EXCEPT ![s] = FALSE]

(* release: it looks the slot up again by the host's name. *)
Release(w) ==
  LET h == target[w]
      s == slotOf[h]
      userCount == [users EXCEPT ![s] = @ - 1]
      age == [last EXCEPT ![s] = 0]
      gone == Swept(h, userCount, age)
  IN
  /\ pc[w] = "asking"
  /\ last' = age
  /\ users' = userCount
  /\ locked' = Unlocked(s)
  /\ slotOf' = [g \in Hosts |-> IF g \in gone THEN NoSlot ELSE slotOf[g]]
  /\ pc' = [pc EXCEPT ![w] = "idle"]
  /\ target' = [target EXCEPT ![w] = NoHost]
  /\ mine' = [mine EXCEPT ![w] = NoSlot]
  /\ quiet' = [quiet EXCEPT ![h] = 0]

(* The clock. *)
Tick ==
  /\ last' = [s \in SlotIds |-> Older(last[s])]
  /\ quiet' = [h \in Hosts |-> Older(quiet[h])]
  /\ UNCHANGED <<slotOf, users, locked, pc, target, mine>>

GateNext ==
  \/ \E w \in Workers, h \in Hosts : Arrive(w, h)
  \/ \E w \in Workers : FindSlot(w)
  \/ \E w \in Workers : NewSlot(w)
  \/ \E w \in Workers : LockSlot(w)
  \/ \E w \in Workers : StartRequest(w)
  \/ \E w \in Workers : Release(w)
  \/ Tick

GateSpec == GateInit /\ [][GateNext]_gateVars

(* A worker that called acquire keeps running, time passes, a request ends *)
(* (the scraper has a client timeout), and Go's mutex hands itself to a    *)
(* waiter that has been starved for a millisecond: hence SF on the lock.   *)
GateFairness ==
  /\ \A w \in Workers : /\ WF_gateVars(FindSlot(w) \/ NewSlot(w))
                        /\ SF_gateVars(LockSlot(w))
                        /\ WF_gateVars(StartRequest(w))
                        /\ WF_gateVars(Release(w))
  /\ WF_gateVars(Tick)

GateFairSpec == GateSpec /\ GateFairness
-----------------------------------------------------------------------------
Spacing == INSTANCE HostSpacing WITH
  asking <- [w \in Workers |-> IF pc[w] = "asking" THEN target[w] ELSE NoHost]

(* The gate implements the promise, although slots are created, shared,    *)
(* swept and created again: requests to a host never overlap and are Delay *)
(* apart (acquire and release, prefetch.go).                               *)
ImplementsSpacing == Spacing!SpacingSpec

(* A slot some worker points to is still the one its host's name finds, so *)
(* release unlocks the mutex that acquire locked (release looks it up).    *)
SlotsOfWorkersAreKept ==
  \A w \in Workers : mine[w] # NoSlot => slotOf[target[w]] = mine[w]

(* slot.users is the number of workers between the two g.mu sections of    *)
(* acquire and release; a wrong count forgets a slot in use or leaks it.   *)
UsersOf(s) == {w \in Workers : mine[w] = s}

UsersCountWorkers ==
  \A h \in Hosts : slotOf[h] # NoSlot => users[slotOf[h]] = Cardinality(UsersOf(slotOf[h]))

(* The rest of the inductive invariant: pointers and hosts follow pc, two  *)
(* hosts never share a slot, a slot's mutex has at most one holder, and a  *)
(* slot knows when its host was last asked, or the host has no slot since  *)
(* its delay has passed.                                                   *)
PointersFollowPc ==
  \A w \in Workers : /\ mine[w] = NoSlot <=> pc[w] \in {"idle", "arriving"}
                     /\ target[w] = NoHost <=> pc[w] = "idle"

SlotsAreNotShared ==
  \A g, h \in Hosts : slotOf[g] = slotOf[h] /\ slotOf[g] # NoSlot => g = h

Holds(w) == pc[w] \in {"spacing", "asking"}

SlotHasOneHolder ==
  /\ \A w \in Workers : Holds(w) => locked[mine[w]]
  /\ \A v, w \in Workers : Holds(v) /\ Holds(w) /\ mine[v] = mine[w] => v = w

SlotsKnowTheLastRequest ==
  \A h \in Hosts : IF slotOf[h] = NoSlot THEN quiet[h] = LongAgo
                                         ELSE last[slotOf[h]] = quiet[h]

(* Why the gate works: checked by TLC, inductive, and the invariant the    *)
(* proofs of HostGateProofs use.                                           *)
GateInv ==
  /\ GateTypeOK
  /\ SlotsOfWorkersAreKept
  /\ UsersCountWorkers
  /\ PointersFollowPc
  /\ SlotsAreNotShared
  /\ SlotHasOneHolder
  /\ SlotsKnowTheLastRequest

(* A worker that entered acquire gets to send its request, however many    *)
(* others want the same host.                                              *)
EveryWaiterAsks ==
  \A w \in Workers : (pc[w] = "arriving") ~> (pc[w] = "asking")
=============================================================================
