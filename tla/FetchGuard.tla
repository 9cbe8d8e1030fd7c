----------------------------- MODULE FetchGuard -----------------------------
(***************************************************************************)
(* The guard of a fallback service: unwallGuard with fetchFromUnwall, or   *)
(* wallhopGuard with fetchFromWallhop (src/internal/reader/autofetch).     *)
(* Prefetch workers and the Download button call them side by side.  A     *)
(* call is answered from the cache, refused during a cooldown, or books a  *)
(* slot, sleeps until then, asks the service and notes how it answered.    *)
(*                                                                         *)
(* Times are ticks from now: slotIn, coolFor and booked count down to 0,   *)
(* which stands for every time that has passed.  Each section under g.mu   *)
(* is a step.  The two services differ in their sections and in patience.  *)
(***************************************************************************)
EXTENDS Integers, FiniteSets

CONSTANTS
  Callers,       \* goroutines that fetch articles
  Pages,         \* the articles' URLs
  Spacing,       \* unwallMinSpacing: 500 milliseconds
  Patience,      \* the longest sleep of a wallhop call: 3 seconds
  FailuresBeforeBackoff,  \* unwallFailuresBeforeBackoff
  Doublings,     \* how often the back-off doubles: 5
  BackoffMin, BackoffMax, \* unwallBackoffMin, unwallBackoffMax
  Resets,        \* what RateLimit-Reset or Retry-After may ask for
  CacheSize,     \* unwallCacheSize
  MaxBacklog,    \* bound: no wallhop call when the next slot is further away
  NoPage

ASSUME GuardAssumption ==
  /\ IsFiniteSet(Callers) /\ IsFiniteSet(Pages) /\ NoPage \notin Pages
  /\ Spacing \in Nat \ {0} /\ Patience \in Nat /\ MaxBacklog \in Nat
  /\ FailuresBeforeBackoff \in Nat \ {0} /\ Doublings \in Nat
  /\ BackoffMin \in Nat /\ BackoffMax \in Nat /\ Resets \subseteq Nat
  /\ CacheSize \in Nat \ {0}

VARIABLES
  service,   \* "unwall" or "wallhop"
  slotIn,    \* nextSlot
  coolFor,   \* until
  failures,  \* failures, as far as the back-off tells them apart
  results,   \* the pages of g.results
  expired,   \* those of them that are too old
  pc,        \* where each caller is
  page,      \* the page it fetches
  booked,    \* its slot, while it sleeps
  late       \* history: callers past their test when the cooldown was last set

guard == <<slotIn, coolFor, failures, results, expired>>
guardVars == <<service, guard, pc, page, booked, late>>

MaxFailures == FailuresBeforeBackoff + Doublings
Smaller(m, n) == IF m < n THEN m ELSE n
Sooner(t) == IF t = 0 THEN 0 ELSE t - 1

GuardTypeOK ==
  /\ service \in {"unwall", "wallhop"}
  /\ slotIn \in Nat /\ coolFor \in Nat /\ failures \in 0..MaxFailures
  /\ results \subseteq Pages /\ expired \subseteq results
  /\ pc \in [Callers -> {"idle", "testing", "reserving", "sleeping", "calling", "storing"}]
  /\ page \in [Callers -> Pages \cup {NoPage}]
  /\ booked \in [Callers -> Nat]
  /\ late \subseteq Callers

GuardInit ==
  /\ service \in {"unwall", "wallhop"}
  /\ slotIn = 0 /\ coolFor = 0 /\ failures = 0
  /\ results = {} /\ expired = {}
  /\ pc = [c \in Callers |-> "idle"]
  /\ page = [c \in Callers |-> NoPage]
  /\ booked = [c \in Callers |-> 0]
  /\ late = {}

Goes(c, from, to) == pc[c] = from /\ pc' = [pc EXCEPT ![c] = to]

(* The call is over, with an article or without.                           *)
Returns(c) ==
  /\ pc' = [pc EXCEPT ![c] = "idle"]
  /\ page' = [page EXCEPT ![c] = NoPage]
  /\ booked' = [booked EXCEPT ![c] = 0]

Cached(p) == p \in results \ expired
-----------------------------------------------------------------------------
(* fetchFromUnwall: what is not in the cache is tested for a cooldown.  A  *)
(* call that is answered from the cache changes nothing.                   *)
AskUnwall(c, p) ==
  /\ service = "unwall"
  /\ ~Cached(p)
  /\ Goes(c, "idle", "testing")
  /\ page' = [page EXCEPT ![c] = p]
  /\ UNCHANGED <<service, guard, booked, late>>

(* Faulty variant: the cooldown does not stop anyone. *)
CoolAlways == TRUE

Cool == coolFor = 0

(* cooldown: a call during one is refused. *)
TestCooldown(c) ==
  /\ IF Cool THEN Goes(c, "testing", "reserving") /\ UNCHANGED <<page, booked>>
             ELSE pc[c] = "testing" /\ Returns(c)
  /\ UNCHANGED <<service, guard, late>>

(* Faulty variant: the slot after the next one is counted from now. *)
BookFromNow(c) ==
  /\ booked' = [booked EXCEPT ![c] = slotIn]
  /\ slotIn' = Spacing

(* The next slot is the caller's, the one after it Spacing later. *)
Book(c) ==
  /\ booked' = [booked EXCEPT ![c] = slotIn]
  /\ slotIn' = slotIn + Spacing

Reserve(c) ==
  /\ Goes(c, "reserving", "sleeping")
  /\ Book(c)
  /\ UNCHANGED <<service, coolFor, failures, results, expired, page, late>>

(* wallhopGuard.begin: the cache, the cooldown and the slot in one section.*)
AskWallhop(c, p) ==
  /\ service = "wallhop"
  /\ ~Cached(p) /\ Cool
  /\ slotIn <= MaxBacklog
  /\ Goes(c, "idle", "sleeping")
  /\ page' = [page EXCEPT ![c] = p]
  /\ Book(c)
  /\ UNCHANGED <<service, coolFor, failures, results, expired, late>>

(* Faulty variant: a call to unwall does not wait that long either. *)
GiveUpAny(c) ==
  /\ pc[c] = "sleeping" /\ booked[c] > Patience
  /\ Returns(c)
  /\ late' = late \ {c}
  /\ UNCHANGED <<service, guard>>

(* A wallhop call whose slot is too far away returns; the slot stays booked. *)
GiveUp(c) ==
  /\ service = "wallhop"
  /\ pc[c] = "sleeping" /\ booked[c] > Patience
  /\ Returns(c)
  /\ late' = late \ {c}
  /\ UNCHANGED <<service, guard>>

(* The sleep is over: the service is asked. *)
Call(c) ==
  /\ service = "unwall" \/ booked[c] <= Patience
  /\ Goes(c, "sleeping", "calling")
  /\ booked[c] = 0
  /\ late' = late \ {c}
  /\ UNCHANGED <<service, guard, page, booked>>
-----------------------------------------------------------------------------
Backoff(n) ==
  Smaller(BackoffMin * 2 ^ Smaller(n - FailuresBeforeBackoff, Doublings), BackoffMax)

(* A new cooldown replaces the old one, whatever is left of it. *)
CoolsFor(t) ==
  /\ coolFor' = t
  /\ late' = {d \in Callers : pc[d] \in {"reserving", "sleeping"}}

(* observe: a transport error or a 5xx. *)
AnswerFails(c) ==
  /\ pc[c] = "calling"
  /\ failures' = Smaller(failures + 1, MaxFailures)
  /\ IF failures' >= FailuresBeforeBackoff THEN CoolsFor(Backoff(failures'))
                                           ELSE UNCHANGED <<coolFor, late>>
  /\ Returns(c)
  /\ UNCHANGED <<service, slotIn, results, expired>>

(* observe: a 429. *)
AnswerLimits(c, reset) ==
  /\ pc[c] = "calling"
  /\ failures' = 0
  /\ CoolsFor(reset)
  /\ Returns(c)
  /\ UNCHANGED <<service, slotIn, results, expired>>

(* observe: unwall answers, and few requests remain before the limit. *)
AnswerWarns(c, reset) ==
  /\ service = "unwall"
  /\ Goes(c, "calling", "storing")
  /\ failures' = 0
  /\ CoolsFor(reset)
  /\ UNCHANGED <<service, slotIn, results, expired, page, booked>>

(* observe: any other answer, with a body to extract an article from. *)
Answer(c) ==
  /\ Goes(c, "calling", "storing")
  /\ failures' = 0
  /\ UNCHANGED <<service, slotIn, coolFor, results, expired, page, booked, late>>

(* Faulty variant: only results that have expired make room. *)
RoomByAge == IF Cardinality(results) < CacheSize THEN {results} ELSE {results \ expired}

(* What store may keep of a full cache: nothing expired, and of the others *)
(* as many as leave room for one.                                          *)
Room ==
  IF Cardinality(results) < CacheSize THEN {results}
  ELSE {kept \in SUBSET (results \ expired) :
          Cardinality(kept) = Smaller(Cardinality(results \ expired), CacheSize - 1)}

(* store: the caller's page is in the cache for an hour. *)
Store(c) ==
  /\ pc[c] = "storing"
  /\ \E kept \in Room :
       /\ results' = kept \cup {page[c]}
       /\ expired' = (expired \cap kept) \ {page[c]}
  /\ Returns(c)
  /\ UNCHANGED <<service, slotIn, coolFor, failures, late>>

(* An error of the request's own (4xx), an unreadable body, or wallhop had *)
(* no article.                                                             *)
Miss(c) ==
  /\ pc[c] = "storing"
  /\ Returns(c)
  /\ UNCHANGED <<service, guard, late>>

(* The hour of a result is over. *)
Expire(p) ==
  /\ p \in results \ expired
  /\ expired' = expired \cup {p}
  /\ UNCHANGED <<service, slotIn, coolFor, failures, results, pc, page, booked, late>>

Tick ==
  /\ slotIn' = Sooner(slotIn)
  /\ coolFor' = Sooner(coolFor)
  /\ booked' = [c \in Callers |-> Sooner(booked[c])]
  /\ UNCHANGED <<service, failures, results, expired, pc, page, late>>

Observe(c) ==
  \/ AnswerFails(c)
  \/ \E reset \in Resets : AnswerLimits(c, reset) \/ AnswerWarns(c, reset)
  \/ Answer(c)

Fetching(c) ==
  \/ TestCooldown(c) \/ Reserve(c) \/ GiveUp(c) \/ Call(c)
  \/ Observe(c)
  \/ Store(c) \/ Miss(c)

GuardNext ==
  \/ \E c \in Callers, p \in Pages : AskUnwall(c, p) \/ AskWallhop(c, p)
  \/ \E c \in Callers : Fetching(c)
  \/ \E p \in Pages : Expire(p)
  \/ Tick

GuardSpec == GuardInit /\ [][GuardNext]_guardVars

(* Calls keep going, their requests end (the client has a timeout), and    *)
(* time passes.                                                            *)
GuardFairness == /\ \A c \in Callers : WF_guardVars(Fetching(c))
                 /\ WF_guardVars(Tick)

GuardFairSpec == GuardSpec /\ GuardFairness
-----------------------------------------------------------------------------
(* Slots ahead are Spacing apart, and the next one comes after all of      *)
(* them, however many calls sleep, give up or are answered (reserve).      *)
Ahead == {c \in Callers : pc[c] = "sleeping" /\ booked[c] > 0}

SlotsAreSpaced ==
  \A c \in Ahead :
    /\ booked[c] + Spacing <= slotIn
    /\ \A d \in Ahead \ {c} : booked[c] + Spacing <= booked[d] \/ booked[d] + Spacing <= booked[c]

(* A call to unwall waits for the calls before it only: no slot ahead is   *)
(* booked by nobody (reserve; wallhop's begin books slots for calls that   *)
(* give up).                                                               *)
SlotsAheadAreTaken ==
  service = "unwall" => slotIn <= Spacing * (Cardinality(Ahead) + 1)

(* store keeps the cache within its size, although results expire inside. *)
CacheIsBounded == Cardinality(results) <= CacheSize

GuardInv == GuardTypeOK /\ SlotsAreSpaced /\ CacheIsBounded

(* Who calls during a cooldown had passed the test for one, and slept or   *)
(* was about to, when an answer set it (fetchFromUnwall, begin).           *)
OnlyLateCallsInCooldown ==
  [][\A c \in Callers : pc[c] = "sleeping" /\ pc'[c] = "calling" /\ coolFor > 0 => c \in late]_guardVars

(* A cooldown ends, however the service answers: each late call sets a new *)
(* one at most once, and nobody else calls.                                *)
CooldownEnds == (coolFor > 0) ~> (coolFor = 0)
=============================================================================
