-------------------------- MODULE FetchGuardProofs --------------------------
(***************************************************************************)
(* The guards of unwall and wallhop, for any number of callers and pages   *)
(* and any limits: slots stay apart and none that lies ahead is lost, the  *)
(* cache stays within its size, and only calls that had passed the test    *)
(* call during a cooldown.                                                 *)
(***************************************************************************)
EXTENDS FetchGuard, FiniteSetTheorems, TLAPS

(* A call that has begun has a page.                                       *)
CallsHavePages == \A c \in Callers : pc[c] # "idle" => page[c] \in Pages

(* During a cooldown whoever is past the test counts as late.              *)
LateOnesAreKnown ==
  coolFor # 0 => \A c \in Callers : pc[c] \in {"reserving", "sleeping"} => c \in late

GuardIInv == GuardInv /\ CallsHavePages /\ LateOnesAreKnown
-----------------------------------------------------------------------------
(* The doubling in Backoff is a number of subsets.                         *)
LEMMA PowersAreNat == ASSUME NEW n \in Nat PROVE 2 ^ n \in Nat
<1>1. IsFiniteSet(1..n) /\ Cardinality(1..n) = n
  BY FS_Interval
<1>2. IsFiniteSet(SUBSET (1..n)) /\ Cardinality(SUBSET (1..n)) = 2 ^ n
  BY <1>1, FS_SUBSET
<1> QED  BY <1>2, FS_CardinalityType

(* Backoff stays between 0 and unwallBackoffMax.                           *)
LEMMA BackoffIsBounded ==
  ASSUME NEW n \in Nat, n >= FailuresBeforeBackoff
  PROVE  Backoff(n) \in 0..BackoffMax
<1> USE GuardAssumption
<1>1. Smaller(n - FailuresBeforeBackoff, Doublings) \in Nat
  BY DEF Smaller
<1> DEFINE k == 2 ^ Smaller(n - FailuresBeforeBackoff, Doublings)
<1>2. k \in Nat
  BY <1>1, PowersAreNat
<1> HIDE DEF k
<1>3. BackoffMin * k \in Nat
  BY <1>2
<1>4. Backoff(n) = Smaller(BackoffMin * k, BackoffMax)
  BY DEF Backoff, k
<1> QED  BY <1>3, <1>4 DEF Smaller

(* What store makes of a full cache has room for one more page.            *)
LEMMA RoomIsEnough ==
  ASSUME results \subseteq Pages, Cardinality(results) <= CacheSize,
         NEW kept \in Room, NEW p \in Pages
  PROVE  /\ kept \cup {p} \subseteq Pages
         /\ Cardinality(kept \cup {p}) <= CacheSize
<1> USE GuardAssumption
<1>1. IsFiniteSet(results) /\ Cardinality(results) \in Nat
  BY FS_Subset, FS_CardinalityType
<1>2. IsFiniteSet(results \ expired) /\ Cardinality(results \ expired) \in Nat
  BY <1>1, FS_Subset, FS_CardinalityType
<1>3. kept \subseteq results
  BY DEF Room
<1>4. Cardinality(kept) <= CacheSize - 1
  BY <1>1, <1>2 DEF Room, Smaller
<1>5. IsFiniteSet(kept) /\ Cardinality(kept) \in Nat
  BY <1>1, <1>3, FS_Subset, FS_CardinalityType
<1>6. Cardinality(kept \cup {p}) = IF p \in kept THEN Cardinality(kept)
                                                 ELSE Cardinality(kept) + 1
  BY <1>5, FS_AddElement
<1> QED  BY <1>3, <1>4, <1>5, <1>6
-----------------------------------------------------------------------------
(* Slots stay apart when a caller books the next one.                      *)
LEMMA BookKeepsSlots ==
  ASSUME GuardTypeOK, SlotsAreSpaced, NEW c \in Callers, Book(c),
         pc[c] # "sleeping", pc' = [pc EXCEPT ![c] = "sleeping"]
  PROVE  /\ booked' \in [Callers -> Nat] /\ slotIn' \in Nat
         /\ SlotsAreSpaced'
<1> USE GuardAssumption
<1>1. /\ slotIn \in Nat /\ booked \in [Callers -> Nat]
      /\ pc \in [Callers -> {"idle", "testing", "reserving", "sleeping", "calling", "storing"}]
  BY DEF GuardTypeOK
<1>2. booked' = [booked EXCEPT ![c] = slotIn] /\ slotIn' = slotIn + Spacing
  BY DEF Book
<1>3. \A d \in Callers \ {c} : d \in Ahead' <=> d \in Ahead
  BY <1>1, <1>2 DEF Ahead
<1>4. Ahead' \subseteq Callers
  BY DEF Ahead
<1>5. \A d \in Ahead' \ {c} : d \in Callers /\ booked'[d] = booked[d] /\ booked[d] + Spacing <= slotIn
  BY <1>1, <1>2, <1>3, <1>4 DEF SlotsAreSpaced
<1>6. booked'[c] = slotIn
  BY <1>1, <1>2
<1>7. ASSUME NEW a \in Ahead'
      PROVE  /\ booked'[a] + Spacing <= slotIn'
             /\ \A d \in Ahead' \ {a} : \/ booked'[a] + Spacing <= booked'[d]
                                        \/ booked'[d] + Spacing <= booked'[a]
  <2>1. booked'[a] + Spacing <= slotIn'
    BY <1>1, <1>2, <1>4, <1>5, <1>6
  <2>2. ASSUME NEW d \in Ahead' \ {a}
        PROVE  booked'[a] + Spacing <= booked'[d] \/ booked'[d] + Spacing <= booked'[a]
    <3>1. CASE a = c
      BY <3>1, <1>5, <1>6
    <3>2. CASE d = c
      BY <3>2, <1>5, <1>6
    <3>3. CASE a # c /\ d # c
      BY <3>3, <1>3, <1>4, <1>5 DEF SlotsAreSpaced
    <3> QED  BY <3>1, <3>2, <3>3
  <2> QED  BY <2>1, <2>2
<1>8. SlotsAreSpaced'
  BY <1>7 DEF SlotsAreSpaced
<1> QED  BY <1>1, <1>2, <1>8

(* A caller that leaves its slot, or was not ahead, disturbs no other.     *)
LEMMA LeavingKeepsSlots ==
  ASSUME GuardTypeOK, SlotsAreSpaced, slotIn' = slotIn, Ahead' \subseteq Ahead,
         \A d \in Ahead' : booked'[d] = booked[d]
  PROVE  SlotsAreSpaced'
  BY DEF SlotsAreSpaced

(* Time brings slots nearer together with the next one.                    *)
LEMMA TickKeepsSlots ==
  ASSUME GuardTypeOK, SlotsAreSpaced, Tick
  PROVE  SlotsAreSpaced'
<1> USE GuardAssumption
<1>1. slotIn \in Nat /\ booked \in [Callers -> Nat]
  BY DEF GuardTypeOK
<1>2. \A d \in Ahead' : d \in Ahead /\ booked'[d] = booked[d] - 1 /\ booked[d] \in Nat \ {0}
  BY <1>1 DEF Ahead, Tick, Sooner
<1>3. ASSUME NEW a \in Ahead'
      PROVE  /\ booked'[a] + Spacing <= slotIn'
             /\ \A d \in Ahead' \ {a} : \/ booked'[a] + Spacing <= booked'[d]
                                        \/ booked'[d] + Spacing <= booked'[a]
  <2>1. booked[a] + Spacing <= slotIn
    BY <1>2 DEF SlotsAreSpaced
  <2>2. slotIn' = slotIn - 1
    BY <1>1, <1>2, <2>1 DEF Tick, Sooner
  <2>3. booked'[a] + Spacing <= slotIn'
    BY <1>1, <1>2, <2>1, <2>2
  <2>4. \A d \in Ahead' \ {a} : booked[a] + Spacing <= booked[d] \/ booked[d] + Spacing <= booked[a]
    BY <1>2 DEF SlotsAreSpaced
  <2> QED  BY <1>2, <2>3, <2>4
<1> QED  BY <1>3 DEF SlotsAreSpaced
-----------------------------------------------------------------------------
LEMMA InitEstablishesGuard == GuardInit => GuardIInv
<1> SUFFICES ASSUME GuardInit PROVE GuardIInv
  OBVIOUS
<1> USE GuardAssumption
<1>1. GuardTypeOK
  BY DEF GuardInit, GuardTypeOK, MaxFailures
<1>2. SlotsAreSpaced
  BY DEF GuardInit, SlotsAreSpaced, Ahead
<1>3. CacheIsBounded
  BY FS_EmptySet DEF GuardInit, CacheIsBounded
<1> QED  BY <1>1, <1>2, <1>3 DEF GuardInit, GuardInv, GuardIInv, CallsHavePages, LateOnesAreKnown
(* The steps of a caller on its way to the service.                        *)
LEMMA ApproachKeepsGuard ==
  ASSUME GuardIInv, NEW c \in Callers,
         \/ \E p \in Pages : AskUnwall(c, p) \/ AskWallhop(c, p)
         \/ TestCooldown(c) \/ Reserve(c) \/ GiveUp(c) \/ Call(c)
  PROVE  GuardIInv'
<1> USE GuardAssumption DEF GuardIInv, GuardInv
<1>1. CASE \E p \in Pages : AskUnwall(c, p)
  <2>1. GuardTypeOK' /\ CallsHavePages' /\ LateOnesAreKnown'
    BY <1>1 DEF AskUnwall, Goes, guard, GuardTypeOK, CallsHavePages, LateOnesAreKnown
  <2>2. Ahead' \subseteq Ahead /\ booked' = booked /\ slotIn' = slotIn
    BY <1>1 DEF AskUnwall, Goes, guard, Ahead, GuardTypeOK
  <2> QED  BY <1>1, <2>1, <2>2, LeavingKeepsSlots DEF AskUnwall, guard, CacheIsBounded
<1>2. CASE \E p \in Pages : AskWallhop(c, p)
  <2>1. pc[c] # "sleeping" /\ pc' = [pc EXCEPT ![c] = "sleeping"] /\ Book(c)
    BY <1>2 DEF AskWallhop, Goes
  <2>2. booked' \in [Callers -> Nat] /\ slotIn' \in Nat /\ SlotsAreSpaced'
    BY <2>1, BookKeepsSlots
  <2>3. GuardTypeOK' /\ CallsHavePages'
    BY <1>2, <2>1, <2>2 DEF AskWallhop, GuardTypeOK, CallsHavePages
  <2>4. LateOnesAreKnown'
    BY <1>2 DEF AskWallhop, Cool, LateOnesAreKnown
  <2> QED  BY <1>2, <2>2, <2>3, <2>4 DEF AskWallhop, CacheIsBounded
<1>3. CASE TestCooldown(c)
  <2>1. GuardTypeOK' /\ CallsHavePages' /\ LateOnesAreKnown'
    BY <1>3 DEF TestCooldown, Goes, Returns, Cool, guard, GuardTypeOK, CallsHavePages, LateOnesAreKnown
  <2>2. Ahead' \subseteq Ahead /\ (\A d \in Ahead' : booked'[d] = booked[d]) /\ slotIn' = slotIn
    BY <1>3 DEF TestCooldown, Goes, Returns, guard, Ahead, GuardTypeOK
  <2> QED  BY <1>3, <2>1, <2>2, LeavingKeepsSlots DEF TestCooldown, guard, CacheIsBounded
<1>4. CASE Reserve(c)
  <2>1. pc[c] = "reserving" /\ pc' = [pc EXCEPT ![c] = "sleeping"] /\ Book(c)
    BY <1>4 DEF Reserve, Goes
  <2>2. booked' \in [Callers -> Nat] /\ slotIn' \in Nat /\ SlotsAreSpaced'
    BY <2>1, BookKeepsSlots
  <2>3. GuardTypeOK' /\ CallsHavePages' /\ LateOnesAreKnown'
    BY <1>4, <2>1, <2>2 DEF Reserve, GuardTypeOK, CallsHavePages, LateOnesAreKnown
  <2> QED  BY <1>4, <2>2, <2>3 DEF Reserve, CacheIsBounded
<1>5. CASE GiveUp(c) \/ Call(c)
  <2>1. GuardTypeOK' /\ CallsHavePages' /\ LateOnesAreKnown'
    BY <1>5 DEF GiveUp, Call, Goes, Returns, guard, GuardTypeOK, CallsHavePages, LateOnesAreKnown
  <2>2. Ahead' \subseteq Ahead /\ (\A d \in Ahead' : booked'[d] = booked[d]) /\ slotIn' = slotIn
    BY <1>5 DEF GiveUp, Call, Goes, Returns, guard, Ahead, GuardTypeOK
  <2> QED  BY <1>5, <2>1, <2>2, LeavingKeepsSlots DEF GiveUp, Call, guard, CacheIsBounded
<1> QED  BY <1>1, <1>2, <1>3, <1>4, <1>5

(* The service has answered: a cooldown, or none.                          *)
LEMMA ObserveKeepsGuard ==
  ASSUME GuardIInv, NEW c \in Callers, Observe(c)
  PROVE  GuardIInv'
<1> USE GuardAssumption DEF GuardIInv, GuardInv
<1>1. Ahead' \subseteq Ahead /\ (\A d \in Ahead' : booked'[d] = booked[d])
      /\ slotIn' = slotIn /\ results' = results
  BY DEF Observe, AnswerFails, AnswerLimits, AnswerWarns, Answer, Goes, Returns, Ahead, GuardTypeOK
<1>2. SlotsAreSpaced' /\ CacheIsBounded'
  BY <1>1, LeavingKeepsSlots DEF CacheIsBounded
<1>3. CASE AnswerFails(c)
  <2>1. failures' \in 0..MaxFailures
    BY <1>3 DEF AnswerFails, GuardTypeOK, MaxFailures, Smaller
  <2>2. failures' >= FailuresBeforeBackoff => Backoff(failures') \in Nat
    BY <2>1, BackoffIsBounded DEF MaxFailures
  <2>3. coolFor' \in Nat /\ late' \subseteq Callers
    BY <1>3, <2>2 DEF AnswerFails, CoolsFor, GuardTypeOK
  <2>4. GuardTypeOK' /\ CallsHavePages'
    BY <1>3, <2>1, <2>3 DEF AnswerFails, Returns, GuardTypeOK, CallsHavePages
  <2>5. LateOnesAreKnown'
    BY <1>3 DEF AnswerFails, CoolsFor, Returns, GuardTypeOK, LateOnesAreKnown
  <2> QED  BY <1>2, <2>4, <2>5
<1>4. CASE \E reset \in Resets : AnswerLimits(c, reset) \/ AnswerWarns(c, reset)
  <2>1. GuardTypeOK' /\ CallsHavePages'
    BY <1>4 DEF AnswerLimits, AnswerWarns, CoolsFor, Goes, Returns, GuardTypeOK, MaxFailures, CallsHavePages
  <2>2. LateOnesAreKnown'
    BY <1>4 DEF AnswerLimits, AnswerWarns, CoolsFor, Goes, Returns, GuardTypeOK, LateOnesAreKnown
  <2> QED  BY <1>2, <2>1, <2>2
<1>5. CASE Answer(c)
  BY <1>2, <1>5 DEF Answer, Goes, GuardTypeOK, MaxFailures, CallsHavePages, LateOnesAreKnown
<1> QED  BY <1>3, <1>4, <1>5 DEF Observe

(* The page is stored, or not.                                             *)
LEMMA StoringKeepsGuard ==
  ASSUME GuardIInv, NEW c \in Callers, Store(c) \/ Miss(c)
  PROVE  GuardIInv'
<1> USE GuardAssumption DEF GuardIInv, GuardInv
<1>1. Ahead' \subseteq Ahead /\ (\A d \in Ahead' : booked'[d] = booked[d]) /\ slotIn' = slotIn
  BY DEF Store, Miss, Returns, guard, Ahead, GuardTypeOK
<1>2. SlotsAreSpaced'
  BY <1>1, LeavingKeepsSlots
<1>3. /\ results' \subseteq Pages /\ expired' \subseteq results'
      /\ Cardinality(results') <= CacheSize
  <2>1. CASE Store(c)
    <3>1. page[c] \in Pages
      BY <2>1 DEF Store, CallsHavePages
    <3> QED  BY <2>1, <3>1, RoomIsEnough DEF Store, GuardTypeOK, CacheIsBounded
  <2>2. CASE Miss(c)
    BY <2>2 DEF Miss, guard, GuardTypeOK, CacheIsBounded
  <2> QED  BY <2>1, <2>2
<1>4. GuardTypeOK' /\ CallsHavePages' /\ LateOnesAreKnown'
  BY <1>3 DEF Store, Miss, Returns, guard, GuardTypeOK, CallsHavePages, LateOnesAreKnown
<1> QED  BY <1>2, <1>3, <1>4 DEF CacheIsBounded

(* Time passes.                                                            *)
LEMMA TimeKeepsGuard ==
  ASSUME GuardIInv, Tick \/ \E p \in Pages : Expire(p)
  PROVE  GuardIInv'
<1> USE GuardAssumption DEF GuardIInv, GuardInv
<1>1. CASE Tick
  <2>1. GuardTypeOK' /\ CallsHavePages'
    BY <1>1 DEF Tick, Sooner, GuardTypeOK, CallsHavePages
  <2>2. LateOnesAreKnown'
    BY <1>1 DEF Tick, Sooner, LateOnesAreKnown
  <2> QED  BY <1>1, <2>1, <2>2, TickKeepsSlots DEF Tick, CacheIsBounded
<1>2. CASE \E p \in Pages : Expire(p)
  BY <1>2, LeavingKeepsSlots
  DEF Expire, Ahead, GuardTypeOK, CacheIsBounded, CallsHavePages, LateOnesAreKnown
<1> QED  BY <1>1, <1>2

LEMMA NextKeepsGuard == GuardIInv /\ [GuardNext]_guardVars => GuardIInv'
<1> SUFFICES ASSUME GuardIInv, [GuardNext]_guardVars PROVE GuardIInv'
  OBVIOUS
<1>1. CASE GuardNext
  BY <1>1, ApproachKeepsGuard, ObserveKeepsGuard, StoringKeepsGuard, TimeKeepsGuard
  DEF GuardNext, Fetching
<1>2. CASE UNCHANGED guardVars
  BY <1>2 DEF guardVars, guard, GuardIInv, GuardInv, GuardTypeOK, SlotsAreSpaced, Ahead,
              CacheIsBounded, CallsHavePages, LateOnesAreKnown
<1> QED  BY <1>1, <1>2
-----------------------------------------------------------------------------
(* The guard's inductive invariant holds in every reachable state.         *)
LEMMA GuardInductive == GuardSpec => []GuardIInv
  BY InitEstablishesGuard, NextKeepsGuard, PTL DEF GuardSpec

(* GuardInv: types, slots and cache together (unwallGuard, wallhopGuard).  *)
THEOREM GuardConsistent == GuardSpec => []GuardInv
<1>1. GuardIInv => GuardInv
  BY DEF GuardIInv
<1> QED  BY <1>1, GuardInductive, PTL

(* Slots ahead are Spacing apart and before the next one (reserve).        *)
THEOREM SlotsStayApart == GuardSpec => []SlotsAreSpaced
<1>1. GuardIInv => SlotsAreSpaced
  BY DEF GuardIInv, GuardInv
<1> QED  BY <1>1, GuardInductive, PTL

(* The result cache stays within unwallCacheSize (store).                  *)
THEOREM CacheStaysBounded == GuardSpec => []CacheIsBounded
<1>1. GuardIInv => CacheIsBounded
  BY DEF GuardIInv, GuardInv
<1> QED  BY <1>1, GuardInductive, PTL

(* Only calls that had passed the test call during a cooldown              *)
(* (fetchFromUnwall, begin).                                               *)
THEOREM CooldownIsKept == GuardSpec => OnlyLateCallsInCooldown
<1> DEFINE CallsLate == \A c \in Callers :
      pc[c] = "sleeping" /\ pc'[c] = "calling" /\ coolFor > 0 => c \in late
<1>1. GuardIInv /\ [GuardNext]_guardVars => [CallsLate]_guardVars
  <2> SUFFICES ASSUME GuardIInv, NEW c \in Callers, pc[c] = "sleeping", coolFor > 0
               PROVE  c \in late
    OBVIOUS
  <2> QED  BY DEF GuardIInv, LateOnesAreKnown
<1> QED  BY <1>1, GuardInductive, PTL DEF GuardSpec, OnlyLateCallsInCooldown
-----------------------------------------------------------------------------
(* SlotsAheadAreTaken needs to know that no gap is between a slot ahead    *)
(* and the next one to book: when the first of them is over, the others    *)
(* still account for what remains.                                         *)
NoGap == \A c \in Ahead : slotIn <= booked[c] + Spacing * Cardinality(Ahead)

TakenIInv == service = "unwall" => SlotsAheadAreTaken /\ NoGap

LEMMA AheadIsFinite ==
  /\ IsFiniteSet(Ahead) /\ Cardinality(Ahead) \in Nat
  /\ IsFiniteSet(Ahead') /\ Cardinality(Ahead') \in Nat
<1>1. Ahead \in SUBSET Callers /\ Ahead' \in SUBSET Callers
  BY DEF Ahead
<1> QED  BY <1>1, GuardAssumption, FS_Subset, FS_CardinalityType

LEMMA Distributes == \A n \in Nat : /\ Spacing * (n + 1) = Spacing * n + Spacing
                                    /\ Spacing * n \in Nat
  BY GuardAssumption

(* Nobody joins or leaves those ahead, and the next slot is not booked.    *)
LEMMA SameAheadKeepsTaken ==
  ASSUME TakenIInv, UNCHANGED <<service, slotIn>>,
         service = "unwall" => Ahead' = Ahead /\ \A c \in Ahead : booked'[c] = booked[c]
  PROVE  TakenIInv'
  BY DEF TakenIInv, SlotsAheadAreTaken, NoGap

(* A call books the next slot: it is one more ahead, or the slot is now.   *)
LEMMA ReserveKeepsTaken ==
  ASSUME GuardTypeOK, SlotsAreSpaced, TakenIInv, NEW c \in Callers, Reserve(c)
  PROVE  TakenIInv'
<1> SUFFICES ASSUME service = "unwall"
             PROVE  (slotIn <= Spacing * (Cardinality(Ahead) + 1))'
                    /\ \A d \in Ahead' : slotIn' <= booked'[d] + Spacing * Cardinality(Ahead')
  BY DEF TakenIInv, SlotsAheadAreTaken, NoGap, Reserve
<1> USE GuardAssumption
<1>1. /\ slotIn \in Nat /\ booked \in [Callers -> Nat]
      /\ pc \in [Callers -> {"idle", "testing", "reserving", "sleeping", "calling", "storing"}]
  BY DEF GuardTypeOK
<1>2. /\ booked' = [booked EXCEPT ![c] = slotIn] /\ slotIn' = slotIn + Spacing
      /\ pc[c] = "reserving" /\ pc' = [pc EXCEPT ![c] = "sleeping"]
  BY DEF Reserve, Book, Goes
<1>3. c \notin Ahead
  BY <1>2 DEF Ahead
<1> DEFINE n == Cardinality(Ahead)
<1>4. n \in Nat /\ IsFiniteSet(Ahead)
  BY AheadIsFinite
<1>5. CASE slotIn = 0
  <2>1. Ahead = {}
    BY <1>1, <1>5 DEF SlotsAreSpaced, Ahead
  <2>2. Ahead' = {}
    BY <1>1, <1>2, <1>5, <2>1 DEF Ahead
  <2>3. Cardinality(Ahead') = 0 /\ Cardinality(Ahead)' = 0
    BY <2>2, FS_EmptySet
  <2>4. Spacing * (0 + 1) = Spacing
    OBVIOUS
  <2> QED  BY <1>2, <1>5, <2>2, <2>3, <2>4
<1>6. CASE slotIn # 0
  <2>1. Ahead' = Ahead \cup {c}
    BY <1>1, <1>2, <1>6 DEF Ahead
  <2>2. Cardinality(Ahead') = n + 1 /\ Cardinality(Ahead)' = n + 1
    BY <1>3, <1>4, <2>1, FS_AddElement
  <2> HIDE DEF n
  <2>3. Spacing * (n + 1) = Spacing * n + Spacing /\ Spacing * n \in Nat
        /\ Spacing * (n + 1 + 1) = Spacing * (n + 1) + Spacing
    BY <1>4, Distributes
  <2>4. slotIn <= Spacing * (n + 1)
    BY DEF TakenIInv, SlotsAheadAreTaken, n
  <2>5. (slotIn <= Spacing * (Cardinality(Ahead) + 1))'
    BY <1>1, <1>2, <2>2, <2>3, <2>4
  <2>6. ASSUME NEW d \in Ahead'
        PROVE  slotIn' <= booked'[d] + Spacing * (n + 1)
    <3>1. CASE d = c
      BY <1>1, <1>2, <2>3, <3>1
    <3>2. CASE d # c
      <4>1. d \in Ahead /\ booked'[d] = booked[d] /\ booked[d] \in Nat
        BY <1>1, <1>2, <2>1, <3>2 DEF Ahead
      <4>2. slotIn <= booked[d] + Spacing * n
        BY <4>1 DEF TakenIInv, NoGap, n
      <4> QED  BY <1>1, <1>2, <2>3, <4>1, <4>2
    <3> QED  BY <3>1, <3>2
  <2> QED  BY <2>2, <2>5, <2>6
<1> QED  BY <1>5, <1>6

(* Time passes: at most the first slot is over, and the next ones are      *)
(* Spacing behind it.                                                      *)
LEMMA TickKeepsTaken ==
  ASSUME GuardTypeOK, SlotsAreSpaced, TakenIInv, Tick
  PROVE  TakenIInv'
<1> SUFFICES ASSUME service = "unwall"
             PROVE  (slotIn <= Spacing * (Cardinality(Ahead) + 1))'
                    /\ \A d \in Ahead' : slotIn' <= booked'[d] + Spacing * Cardinality(Ahead')
  BY DEF TakenIInv, SlotsAheadAreTaken, NoGap, Tick
<1> USE GuardAssumption
<1>1. slotIn \in Nat /\ booked \in [Callers -> Nat]
  BY DEF GuardTypeOK
<1>2. /\ slotIn' = IF slotIn = 0 THEN 0 ELSE slotIn - 1
      /\ booked' = [d \in Callers |-> IF booked[d] = 0 THEN 0 ELSE booked[d] - 1]
      /\ pc' = pc
  BY DEF Tick, Sooner
<1> DEFINE n == Cardinality(Ahead)
<1>3. n \in Nat /\ IsFiniteSet(Ahead)
  BY AheadIsFinite
<1>4. slotIn <= Spacing * (n + 1) /\ \A d \in Ahead : slotIn <= booked[d] + Spacing * n
  BY DEF TakenIInv, SlotsAheadAreTaken, NoGap
<1>5. \A d \in Ahead : /\ booked[d] \in Nat \ {0} /\ booked'[d] = booked[d] - 1
                       /\ d \in Ahead' <=> booked[d] # 1
                       /\ slotIn # 0
  <2>1. \A d \in Ahead : d \in Callers /\ booked[d] \in Nat \ {0} /\ booked[d] + Spacing <= slotIn
    BY <1>1 DEF Ahead, SlotsAreSpaced
  <2> QED  BY <1>1, <1>2, <2>1 DEF Ahead
<1>6. Ahead' \subseteq Ahead
  BY <1>1, <1>2 DEF Ahead
<1>7. CASE \A d \in Ahead : booked[d] # 1
  <2>1. Ahead' = Ahead
    BY <1>5, <1>6, <1>7
  <2>2. Cardinality(Ahead') = n /\ Cardinality(Ahead)' = n
    BY <2>1
  <2> HIDE DEF n
  <2>3. Spacing * n \in Nat /\ Spacing * (n + 1) \in Nat
    BY <1>3, Distributes
  <2>4. (slotIn <= Spacing * (Cardinality(Ahead) + 1))'
    BY <1>1, <1>2, <1>4, <2>2, <2>3
  <2>5. \A d \in Ahead' : slotIn' <= booked'[d] + Spacing * n
    BY <1>1, <1>2, <1>4, <1>5, <2>1, <2>3
  <2> QED  BY <2>2, <2>4, <2>5
<1>8. ASSUME NEW e \in Ahead, booked[e] = 1
      PROVE  (slotIn <= Spacing * (Cardinality(Ahead) + 1))'
             /\ \A d \in Ahead' : slotIn' <= booked'[d] + Spacing * Cardinality(Ahead')
  <2>1. \A d \in Ahead \ {e} : booked[d] >= 1 + Spacing
    BY <1>5, <1>8 DEF SlotsAreSpaced
  <2>2. Ahead' = Ahead \ {e}
    BY <1>5, <1>6, <1>8, <2>1
  <2>3. Cardinality(Ahead') = n - 1 /\ Cardinality(Ahead)' = n - 1
    BY <1>3, <1>8, <2>2, FS_RemoveElement
  <2>4. Cardinality(Ahead') \in Nat
    BY AheadIsFinite
  <2> HIDE DEF n
  <2>5. PICK m \in Nat : m = n - 1
    BY <2>3, <2>4
  <2>6. Spacing * n = Spacing * m + Spacing /\ Spacing * m \in Nat /\ m + 1 = n
    BY <1>3, <2>5, Distributes
  <2>7. slotIn \in Nat \ {0} /\ slotIn' = slotIn - 1 /\ slotIn <= 1 + Spacing * n
    BY <1>1, <1>2, <1>4, <1>5, <1>8
  <2>8. (slotIn <= Spacing * (Cardinality(Ahead) + 1))'
    BY <2>3, <2>5, <2>6, <2>7
  <2>9. ASSUME NEW d \in Ahead' PROVE slotIn' <= booked'[d] + Spacing * m
    <3>1. d \in Ahead /\ booked[d] >= 1 + Spacing /\ booked'[d] = booked[d] - 1 /\ booked[d] \in Nat
      BY <1>5, <2>1, <2>2
    <3> QED  BY <2>6, <2>7, <3>1
  <2> QED  BY <2>3, <2>5, <2>8, <2>9
<1> QED  BY <1>7, <1>8

LEMMA NextKeepsTaken == GuardIInv /\ TakenIInv /\ [GuardNext]_guardVars => TakenIInv'
<1> SUFFICES ASSUME GuardIInv, TakenIInv, [GuardNext]_guardVars PROVE TakenIInv'
  OBVIOUS
<1>1. GuardTypeOK /\ SlotsAreSpaced
  BY DEF GuardIInv, GuardInv
<1>2. CASE UNCHANGED guardVars
  BY <1>2, SameAheadKeepsTaken DEF guardVars, guard, Ahead
<1>3. ASSUME NEW c \in Callers, Reserve(c) PROVE TakenIInv'
  BY <1>1, <1>3, ReserveKeepsTaken
<1>4. CASE Tick
  BY <1>1, <1>4, TickKeepsTaken
<1>5. ASSUME NEW c \in Callers, NEW p \in Pages, AskWallhop(c, p) PROVE TakenIInv'
  BY <1>5 DEF AskWallhop, TakenIInv
<1>6. ASSUME NEW c \in Callers, NEW p \in Pages, AskUnwall(c, p) PROVE TakenIInv'
  BY <1>1, <1>6, SameAheadKeepsTaken DEF AskUnwall, Goes, guard, Ahead, GuardTypeOK
<1>7. ASSUME NEW p \in Pages, Expire(p) PROVE TakenIInv'
  BY <1>7, SameAheadKeepsTaken DEF Expire, Ahead
<1>8. ASSUME NEW c \in Callers,
             TestCooldown(c) \/ GiveUp(c) \/ Call(c) \/ Observe(c) \/ Store(c) \/ Miss(c)
      PROVE  TakenIInv'
  <2>1. UNCHANGED <<service, slotIn>>
    BY <1>8 DEF TestCooldown, GiveUp, Call, Observe, AnswerFails, AnswerLimits, AnswerWarns, Answer, Store, Miss,
                guard
  <2>2. ASSUME service = "unwall"
        PROVE  Ahead' = Ahead /\ \A d \in Ahead : booked'[d] = booked[d]
    <3>1. /\ \A d \in Callers \ {c} : pc'[d] = pc[d] /\ booked'[d] = booked[d]
          /\ c \notin Ahead /\ pc'[c] # "sleeping"
      BY <1>1, <1>8, <2>2 DEF TestCooldown, GiveUp, Call, Observe, AnswerFails, AnswerLimits, AnswerWarns, Answer,
                              Store, Miss, Goes, Returns, Ahead, GuardTypeOK
    <3> QED  BY <3>1 DEF Ahead
  <2> QED  BY <2>1, <2>2, SameAheadKeepsTaken
<1> QED  BY <1>2, <1>3, <1>4, <1>5, <1>6, <1>7, <1>8 DEF GuardNext, Fetching

(* No slot of unwall ahead is booked by nobody, so that a call waits for   *)
(* the calls before it only (reserve).                                     *)
THEOREM SlotsStayTaken == GuardSpec => []SlotsAheadAreTaken
<1>1. GuardInit => TakenIInv
  <2>1. GuardInit => slotIn = 0 /\ Ahead = {}
    BY DEF GuardInit, Ahead
  <2> QED  BY <2>1, AheadIsFinite, Distributes, GuardAssumption DEF TakenIInv, SlotsAheadAreTaken, NoGap
<1>2. TakenIInv => SlotsAheadAreTaken
  BY DEF TakenIInv, SlotsAheadAreTaken
<1> QED  BY <1>1, <1>2, NextKeepsTaken, GuardInductive, PTL DEF GuardSpec
=============================================================================
