------------------------------ MODULE Prefetch ------------------------------
(***************************************************************************)
(* The article prefetcher: src/internal/reader/prefetch/prefetch.go, with  *)
(* the feed refreshes that enqueue into it (EnqueueRefreshed, and the part *)
(* of RefreshFeedEntries that decides what a refresh rewrites), the        *)
(* Download button, and a restart of the process.                          *)
(*                                                                         *)
(* An entry's content is abstracted to its text length: thin content is    *)
(* shorter than ThinLimit, and that and "longer than" are all the code     *)
(* asks.  p.mu's sections are one step each; database statements, network  *)
(* requests and the host gate's wait are steps of their own.  The gate is  *)
(* reduced to its promise (HostGate.tla): one worker per host.             *)
(***************************************************************************)
EXTENDS Naturals, Sequences, FiniteSets, SequencesExt

CONSTANTS
  Entries,      \* entry ids of one user's feed
  Workers,      \* PREFETCH_WORKERS goroutines running drain
  Refreshers,   \* concurrent refreshes of the feed
  HostOf,       \* the host of each entry's URL
  QueueSize,    \* PREFETCH_QUEUE_SIZE
  FailedKept,   \* failedEntriesKept
  MaxLength,    \* bound: text lengths are 0..MaxLength
  ThinLimit,    \* FETCH_THIN_CONTENT_THRESHOLD
  Recent,       \* the entries inside PREFETCH_RECOVERY_WINDOW
  IgnoreUpdates, \* feed.IgnoreEntryUpdates
  Forcing,      \* which values of forceRefresh happen
  MaxChanges,   \* bound: user actions per behaviour
  MaxRestarts,  \* bound: restarts per behaviour
  NoEntry

Lengths == 0..MaxLength
Absent == MaxLength + 1   \* not stored yet
Removed == MaxLength + 2  \* archived or deleted: a tombstone keeps it out

ASSUME PrefetchAssumption ==
  /\ IsFiniteSet(Entries) /\ IsFiniteSet(Workers)
  /\ NoEntry \notin Entries
  /\ QueueSize \in Nat \ {0}
  /\ FailedKept \in Nat \ {0}
  /\ MaxLength \in Nat /\ ThinLimit \in Nat
  /\ MaxChanges \in Nat /\ MaxRestarts \in Nat
  /\ IgnoreUpdates \in BOOLEAN /\ Forcing \subseteq BOOLEAN

VARIABLES
  content,      \* database: text length of each entry, or Absent, or Removed
  unread,       \* database: entries with status unread
  crawler,      \* database: feed.Crawler
  queue,        \* p.queue
  pending,      \* p.pending
  failed,       \* p.failed
  failedOrder,  \* p.failedOrder
  pc,           \* where each worker is in drain and fetchEntry
  doing,        \* the entry of each worker's job
  seen,         \* the length fetchEntry read
  got,          \* the length it fetched
  refresh,      \* each refresh: its feed snapshot and what it still has to do
  recovery,     \* recoverRecent: "listing", "listed", or its query "failed"
  toRecover,    \* the listed entries it still has to enqueue
  changes,      \* user actions so far
  restarts      \* restarts so far

database == <<content, unread, crawler>>
memory == <<queue, pending, failed, failedOrder>>
working == <<pc, doing, seen, got>>
recovering == <<recovery, toRecover>>
bounds == <<changes, restarts>>
vars == <<database, memory, working, refresh, recovering, bounds>>

IsThin(length) == length < ThinLimit
Stored(e) == content[e] \in Lengths

Idle == [active |-> FALSE, forced |-> FALSE, crawler |-> FALSE, toStore |-> {}, toQueue |-> {}]

RefreshState == [active : BOOLEAN, forced : BOOLEAN, crawler : BOOLEAN,
                 toStore : SUBSET Entries, toQueue : SUBSET Entries]

WorkerPcs == {"idle", "reading", "checking", "gate", "fetching", "storing",
              "filtering", "found", "missed"}

PrefetchTypeOK ==
  /\ content \in [Entries -> Lengths \cup {Absent, Removed}]
  /\ unread \subseteq Entries
  /\ crawler \in BOOLEAN
  /\ queue \in Seq(Entries)
  /\ pending \subseteq Entries
  /\ failed \subseteq Entries
  /\ failedOrder \in Seq(Entries)
  /\ pc \in [Workers -> WorkerPcs]
  /\ doing \in [Workers -> Entries \cup {NoEntry}]
  /\ seen \in [Workers -> Lengths]
  /\ got \in [Workers -> Lengths]
  /\ refresh \in [Refreshers -> RefreshState]
  /\ recovery \in {"listing", "listed", "failed"}
  /\ toRecover \subseteq Entries
  /\ changes \in 0..MaxChanges
  /\ restarts \in 0..MaxRestarts

(* Start: empty memory, idle workers, and recoverRecent about to list.     *)
Init ==
  /\ content = [e \in Entries |-> Absent]
  /\ unread = Entries
  /\ crawler = TRUE
  /\ queue = <<>>
  /\ pending = {}
  /\ failed = {}
  /\ failedOrder = <<>>
  /\ pc = [w \in Workers |-> "idle"]
  /\ doing = [w \in Workers |-> NoEntry]
  /\ seen = [w \in Workers |-> 0]
  /\ got = [w \in Workers |-> 0]
  /\ refresh = [r \in Refreshers |-> Idle]
  /\ recovery = "listing"
  /\ toRecover = {}
  /\ changes = 0
  /\ restarts = 0
-----------------------------------------------------------------------------
(* Faulty variant: the "already pending" test is missing.                  *)
EnqueueAgain(e) ==
  IF Len(queue) < QueueSize
  THEN queue' = Append(queue, e) /\ pending' = pending \cup {e}
  ELSE UNCHANGED <<queue, pending>>

(* Faulty variant: an entry whose fetch failed before is not tried again.  *)
EnqueueUnfailed(e) ==
  IF e \notin pending \cup failed /\ Len(queue) < QueueSize
  THEN queue' = Append(queue, e) /\ pending' = pending \cup {e}
  ELSE UNCHANGED <<queue, pending>>

(* p.enqueue: an entry that is pending is not queued again, and a full     *)
(* queue skips the entry.                                                  *)
Enqueue(e) ==
  IF e \notin pending /\ Len(queue) < QueueSize
  THEN queue' = Append(queue, e) /\ pending' = pending \cup {e}
  ELSE UNCHANGED <<queue, pending>>

(* A step of a user, of which a behaviour has MaxChanges.                  *)
Change == changes < MaxChanges /\ changes' = changes + 1

(* RefreshFeed reads the feed and receives entries, in any order.  A       *)
(* forced refresh is a user's.                                             *)
StartRefresh(r, forced, delivered) ==
  /\ ~refresh[r].active
  /\ IF forced THEN Change ELSE UNCHANGED changes
  /\ refresh' = [refresh EXCEPT ![r] = [active |-> TRUE, forced |-> forced,
                   crawler |-> crawler, toStore |-> delivered, toQueue |-> {}]]
  /\ UNCHANGED <<database, memory, working, recovering, restarts>>

(* What RefreshFeedEntries and entriesToFetch decide for one entry: a new  *)
(* one is created and fetched; a stored one is rewritten by a forced       *)
(* refresh, which fetches it again, or when the feed is not crawled; a     *)
(* tombstoned one is ignored.                                              *)
Rewrites(r, e) == Stored(e) /\ (refresh[r].forced \/ ~(refresh[r].crawler \/ IgnoreUpdates))
Fetches(r, e) == refresh[r].crawler /\ (content[e] = Absent \/ (Stored(e) /\ refresh[r].forced))

(* One entry's transaction in RefreshFeedEntries.                          *)
StoreEntry(r, e, length) ==
  /\ e \in refresh[r].toStore
  /\ content' = IF content[e] = Absent \/ Rewrites(r, e)
                THEN [content EXCEPT ![e] = length] ELSE content
  /\ refresh' = [refresh EXCEPT ![r].toStore = @ \ {e},
                                ![r].toQueue = IF Fetches(r, e) /\ IsThin(length)
                                               THEN @ \cup {e} ELSE @]
  /\ UNCHANGED <<unread, crawler, memory, working, recovering, bounds>>

(* A statement failed: RefreshFeed takes its error path and enqueues       *)
(* nothing, although the entries before are stored.                        *)
RefreshFails(r) ==
  /\ refresh[r].toStore # {}
  /\ refresh' = [refresh EXCEPT ![r] = Idle]
  /\ UNCHANGED <<database, memory, working, recovering, bounds>>

(* EnqueueRefreshed, one entry, once all are stored.                       *)
EnqueueEntry(r, e) ==
  /\ refresh[r].toStore = {}
  /\ e \in refresh[r].toQueue
  /\ Enqueue(e)
  /\ refresh' = [refresh EXCEPT ![r].toQueue = @ \ {e}]
  /\ UNCHANGED <<database, failed, failedOrder, working, recovering, bounds>>

EndRefresh(r) ==
  /\ refresh[r].active /\ refresh[r].toStore = {} /\ refresh[r].toQueue = {}
  /\ refresh' = [refresh EXCEPT ![r] = Idle]
  /\ UNCHANGED <<database, memory, working, recovering, bounds>>
-----------------------------------------------------------------------------
Goto(w, from, to) == pc[w] = from /\ pc' = [pc EXCEPT ![w] = to]

(* drain receives the next job. *)
Take(w) ==
  /\ Goto(w, "idle", "reading")
  /\ queue # <<>>
  /\ doing' = [doing EXCEPT ![w] = Head(queue)]
  /\ queue' = Tail(queue)
  /\ UNCHANGED <<database, pending, failed, failedOrder, seen, got, refresh, recovering, bounds>>

(* fetchEntry reads the entry; a missing entry, or an error, ends the job  *)
(* as if something had been found.                                         *)
ReadEntry(w) ==
  /\ \/ /\ Goto(w, "reading", "checking")
        /\ Stored(doing[w])
        /\ seen' = [seen EXCEPT ![w] = content[doing[w]]]
     \/ /\ Goto(w, "reading", "found")
        /\ UNCHANGED seen
  /\ UNCHANGED <<database, memory, doing, got, refresh, recovering, bounds>>

(* fetchEntry reads the feed and the user, and gives up on an error, when  *)
(* the feed is not crawled any more or when the entry is not thin.         *)
ReadFeed(w) ==
  /\ \/ /\ Goto(w, "checking", "gate")
        /\ crawler /\ IsThin(seen[w])
     \/ Goto(w, "checking", "found")
  /\ UNCHANGED <<database, memory, doing, seen, got, refresh, recovering, bounds>>

InGate(w) == pc[w] \in {"fetching", "storing", "filtering"}
HostBusy(h) == \E v \in Workers : InGate(v) /\ HostOf[doing[v]] = h

(* hosts.acquire; fetchEntry's return releases the host.                   *)
EnterGate(w) ==
  /\ Goto(w, "gate", "fetching")
  /\ ~HostBusy(HostOf[doing[w]])
  /\ UNCHANGED <<database, memory, doing, seen, got, refresh, recovering, bounds>>

(* ProcessEntryWebPage and outcomeOf: an error, or nothing longer than     *)
(* what fetchEntry read, ends the job with nothing found.                  *)
Fetch(w, length) ==
  /\ IF length > seen[w] THEN Goto(w, "fetching", "storing") /\ got' = [got EXCEPT ![w] = length]
                         ELSE Goto(w, "fetching", "missed") /\ UNCHANGED got
  /\ UNCHANGED <<database, memory, doing, seen, refresh, recovering, bounds>>

(* UpdateEntryTitleAndContent: no row is updated when the entry is gone.   *)
StoreFetched(w) ==
  /\ \/ /\ Goto(w, "storing", "filtering")
        /\ content' = IF Stored(doing[w]) THEN [content EXCEPT ![doing[w]] = got[w]] ELSE content
     \/ /\ Goto(w, "storing", "missed")
        /\ UNCHANGED content
  /\ UNCHANGED <<unread, crawler, memory, doing, seen, got, refresh, recovering, bounds>>

(* blockedAfterFetch: a match is marked read (an error is only logged).    *)
ApplyFilter(w, blocked) ==
  /\ Goto(w, "filtering", "found")
  /\ unread' = IF blocked THEN unread \ {doing[w]} ELSE unread
  /\ UNCHANGED <<content, crawler, memory, doing, seen, got, refresh, recovering, bounds>>

(* Faulty variant: the forgotten entry stays in the set.                   *)
NoteFailureLeaking(e) ==
  IF e \in failed THEN UNCHANGED <<failed, failedOrder>>
  ELSE /\ failedOrder' = Append(IF Len(failedOrder) = FailedKept THEN Tail(failedOrder)
                                                                ELSE failedOrder, e)
       /\ failed' = failed \cup {e}

(* The failures drain remembers: at most FailedKept, the head of the order *)
(* is forgotten first.                                                     *)
NoteFailure(e) ==
  IF e \in failed THEN UNCHANGED <<failed, failedOrder>>
  ELSE IF Len(failedOrder) = FailedKept
  THEN /\ failedOrder' = Append(Tail(failedOrder), e)
       /\ failed' = (failed \cup {e}) \ {Head(failedOrder)}
  ELSE failedOrder' = Append(failedOrder, e) /\ failed' = failed \cup {e}

(* Faulty variant: only a job that found something stops being pending.    *)
StopPendingIfFound(w) ==
  pending' = IF pc[w] = "found" THEN pending \ {doing[w]} ELSE pending

StopPending(w) == pending' = pending \ {doing[w]}

(* drain's section under p.mu after the job. *)
Finish(w) ==
  /\ pc[w] \in {"found", "missed"}
  /\ StopPending(w)
  /\ IF pc[w] = "found" THEN failed' = failed \ {doing[w]} /\ UNCHANGED failedOrder
                        ELSE NoteFailure(doing[w])
  /\ pc' = [pc EXCEPT ![w] = "idle"]
  /\ doing' = [doing EXCEPT ![w] = NoEntry]
  /\ seen' = [seen EXCEPT ![w] = 0]
  /\ got' = [got EXCEPT ![w] = 0]
  /\ UNCHANGED <<database, queue, refresh, recovering, bounds>>
-----------------------------------------------------------------------------
(* Faulty variant: an off-by-one in the limit.                             *)
LimitedShort(S) ==
  {T \in SUBSET S : Cardinality(T) < QueueSize /\ (T = S \/ Cardinality(T) = QueueSize - 1)}

(* What a query for the newest QueueSize of S may return.                  *)
Limited(S) ==
  {T \in SUBSET S : Cardinality(T) <= QueueSize /\ (T = S \/ Cardinality(T) = QueueSize)}

(* recentEntries: recent unread entries of the user; the limit counts      *)
(* entries that need no fetch too.                                         *)
ListRecent ==
  /\ recovery = "listing"
  /\ \/ \E listed \in Limited({e \in Recent \cap unread : Stored(e)}) :
          /\ toRecover' = {e \in listed : crawler /\ IsThin(content[e])}
          /\ recovery' = "listed"
     \/ recovery' = "failed" /\ UNCHANGED toRecover  \* the query failed
  /\ UNCHANGED <<database, memory, working, refresh, bounds>>

(* recoverRecent enqueues what it listed, one entry after the other.       *)
Recover(e) ==
  /\ e \in toRecover
  /\ Enqueue(e)
  /\ toRecover' = toRecover \ {e}
  /\ UNCHANGED <<database, failed, failedOrder, working, refresh, recovery, bounds>>

(* The process stops anywhere and starts again: only the database is left. *)
Restart ==
  /\ restarts < MaxRestarts
  /\ restarts' = restarts + 1
  /\ queue' = <<>>
  /\ pending' = {}
  /\ failed' = {}
  /\ failedOrder' = <<>>
  /\ pc' = [w \in Workers |-> "idle"]
  /\ doing' = [w \in Workers |-> NoEntry]
  /\ seen' = [w \in Workers |-> 0]
  /\ got' = [w \in Workers |-> 0]
  /\ refresh' = [r \in Refreshers |-> Idle]
  /\ recovery' = "listing"
  /\ toRecover' = {}
  /\ UNCHANGED <<database, changes>>
-----------------------------------------------------------------------------
(* The Download button stores what it fetches, whatever its length.        *)
Download(e, length) ==
  /\ Change /\ Stored(e)
  /\ content' = [content EXCEPT ![e] = length]
  /\ UNCHANGED <<unread, crawler, memory, working, refresh, recovering, restarts>>

MarkRead(e) ==
  /\ Change /\ Stored(e) /\ e \in unread
  /\ unread' = unread \ {e}
  /\ UNCHANGED <<content, crawler, memory, working, refresh, recovering, restarts>>

(* Archiving, flushing the history, or removal of the feed.                *)
RemoveEntry(e) ==
  /\ Change /\ Stored(e)
  /\ content' = [content EXCEPT ![e] = Removed]
  /\ UNCHANGED <<unread, crawler, memory, working, refresh, recovering, restarts>>

EditFeed ==
  /\ Change
  /\ crawler' = ~crawler
  /\ UNCHANGED <<content, unread, memory, working, refresh, recovering, restarts>>

Refresh(r) ==
  \/ \E forced \in Forcing, delivered \in SUBSET Entries \ {{}} : StartRefresh(r, forced, delivered)
  \/ \E e \in Entries, length \in Lengths : StoreEntry(r, e, length)
  \/ RefreshFails(r)
  \/ \E e \in Entries : EnqueueEntry(r, e)
  \/ EndRefresh(r)

Work(w) ==
  \/ Take(w)
  \/ ReadEntry(w)
  \/ ReadFeed(w)
  \/ EnterGate(w)
  \/ \E length \in Lengths : Fetch(w, length)
  \/ StoreFetched(w)
  \/ \E blocked \in BOOLEAN : ApplyFilter(w, blocked)
  \/ Finish(w)

Recovery ==
  \/ ListRecent
  \/ \E e \in Entries : Recover(e)

User ==
  \/ \E e \in Entries, length \in Lengths : Download(e, length)
  \/ \E e \in Entries : MarkRead(e)
  \/ \E e \in Entries : RemoveEntry(e)
  \/ EditFeed

Next ==
  \/ \E r \in Refreshers : Refresh(r)
  \/ \E w \in Workers : Work(w)
  \/ Recovery
  \/ User
  \/ Restart

Spec == Init /\ [][Next]_vars

(* What fairness the goroutines justify: a worker keeps going, a request   *)
(* ends (the client has a timeout), and a host is handed to its waiters    *)
(* (HostGate's EveryWaiterAsks).                                           *)
PrefetchFairness ==
  \A w \in Workers : WF_vars(Work(w)) /\ SF_vars(EnterGate(w))

FairSpec == Spec /\ PrefetchFairness
-----------------------------------------------------------------------------
NoDuplicates(q) == \A i, j \in DOMAIN q : q[i] = q[j] => i = j
Busy(w) == pc[w] # "idle"
InWork == {doing[w] : w \in {v \in Workers : Busy(v)}}

(* pending is exactly what is queued or in work, each entry once: what     *)
(* State shows as "fetching" is what a worker has or will get, no entry is *)
(* fetched by two workers, and the map neither leaks nor outgrows the      *)
(* queue and the workers (enqueue adds to both under p.mu, the channel is  *)
(* received from without it, drain deletes long after).                    *)
PendingIsQueuedOrInWork ==
  /\ pending = ToSet(queue) \cup InWork
  /\ ToSet(queue) \cap InWork = {}
  /\ NoDuplicates(queue)
  /\ \A v, w \in Workers : Busy(v) /\ doing[v] = doing[w] => v = w

QueueBounded == Len(queue) <= QueueSize

(* Every failure shown is one that can still be forgotten, so that failed  *)
(* never outgrows FailedKept (drain's eviction).                           *)
FailedIsOrdered == failed \subseteq ToSet(failedOrder) /\ Len(failedOrder) <= FailedKept

(* The inductive invariant: PrefetchProofs shows that it holds always.     *)
IdleHasNoEntry == \A w \in Workers : doing[w] = NoEntry <=> pc[w] = "idle"

PrefetchInv ==
  /\ PrefetchTypeOK
  /\ PendingIsQueuedOrInWork
  /\ QueueBounded
  /\ FailedIsOrdered
  /\ IdleHasNoEntry

(* D7, "an automatic fetch only replaces the feed's content with something *)
(* longer" (outcomeOf), as a promise about the stored content.             *)
OnlyLongerContentIsStored ==
  [][\A w \in Workers : pc[w] = "storing" /\ pc'[w] = "filtering" /\ Stored(doing[w])
       => content'[doing[w]] > content[doing[w]]]_vars

(* A "fetching" mark goes away: every queued job is worked on to its end,  *)
(* whatever users, refreshes and a restart do meanwhile.                   *)
EveryPendingEntryIsWorkedOn ==
  \A e \in Entries : (e \in pending) ~> (e \notin pending)
=============================================================================
