------------------------------ MODULE Polling ------------------------------
(***************************************************************************)
(* How feeds are polled: the scheduler and the manual refreshes build      *)
(* batches of feeds (storage/batch.go, cli/scheduler.go, the refresh       *)
(* handlers of ui and api) and push them to the worker pool; RefreshFeed   *)
(* (reader/handler/handler.go) reads the feed's row, asks its server and   *)
(* writes the row back; users edit the same row.  What a refresh does to   *)
(* entries is FeedRefresh.tla's subject.                                   *)
(*                                                                         *)
(* Time is the order in which feeds become due: due lists the feeds whose  *)
(* next_check_at has passed, oldest first (equal times in some fixed       *)
(* order), so the clock's step is a feed joining the end of the list.  A   *)
(* refresh that schedules the next check takes its feed off the list: the  *)
(* shortest interval (a minute) is taken to be longer than a refresh.      *)
(***************************************************************************)
EXTENDS WorkerPool, SequencesExt

CONSTANTS
  Scheduler,     \* the goroutine of feedScheduler, a pusher
  Clients,       \* goroutines of HTTP requests, the other pushers
  Selections,    \* the feeds of a user, or of one category
  Editors,       \* HTTP requests that save a feed's settings
  HostOf,        \* the host of each feed's URL
  BatchSize,     \* BATCH_SIZE
  LimitPerHost,  \* POLLING_LIMIT_PER_HOST, 0 for none
  ErrorLimit,    \* POLLING_PARSING_ERROR_LIMIT, 0 for none
  MaxErrors,     \* bound: parsing_error_count saturates here, at the limit or above
  Chosen,        \* bound: the feeds that users refresh one by one, or edit
  MaxRequests    \* bound: manual refreshes and saved settings per behaviour

ASSUME PollingAssumption ==
  /\ Scheduler \notin Clients /\ Pushers = {Scheduler} \cup Clients
  /\ Workers \cap Clients = {}
  /\ IsFiniteSet(Feeds) /\ Selections \subseteq SUBSET Feeds /\ Chosen \subseteq Feeds
  /\ BatchSize \in Nat \ {0} /\ LimitPerHost \in Nat /\ ErrorLimit \in Nat
  /\ MaxErrors \in Nat \ {0} /\ ErrorLimit <= MaxErrors
  /\ MaxRequests \in Nat

VARIABLES
  due,         \* feeds whose next_check_at has passed, in its order
  disabled,    \* feeds.disabled
  errors,      \* feeds.parsing_error_count
  refreshing,  \* what each goroutine's RefreshFeed read from the row
  editing,     \* what each settings request read from the row
  off,         \* history: feeds whose last saved settings disable them
  raced,       \* history: feeds last saved while another writer had read the row
  requests     \* manual refreshes and saved settings so far

rows == <<due, disabled, errors>>
history == <<off, raced>>
pollVars == <<poolVars, rows, refreshing, editing, history, requests>>

Runners == Workers \cup Clients
NotRefreshing == [feed |-> NoFeed, errors |-> 0, disabled |-> FALSE]
NotEditing == [feed |-> NoFeed, disabled |-> FALSE, stale |-> FALSE]

IsDue(f) == f \in ToSet(due)

(* What a scan of rows keeps, in their order: kept[n] after n rows.        *)
Keep(list, wanted) ==
  LET kept[n \in 0..Len(list)] ==
        IF n = 0 THEN <<>>
        ELSE IF list[n] \in wanted THEN Append(kept[n - 1], list[n])
        ELSE kept[n - 1]
  IN  kept[Len(list)]

Without(list, f) == Keep(list, ToSet(list) \ {f})

PollingTypeOK ==
  /\ PoolTypeOK
  /\ due \in Seq(Feeds)
  /\ disabled \subseteq Feeds
  /\ errors \in [Feeds -> 0..MaxErrors]
  /\ refreshing \in [Runners -> [feed : Feeds \cup {NoFeed}, errors : 0..MaxErrors, disabled : BOOLEAN]]
  /\ editing \in [Editors -> [feed : Feeds \cup {NoFeed}, disabled : BOOLEAN, stale : BOOLEAN]]
  /\ off \subseteq Feeds /\ raced \subseteq Feeds
  /\ requests \in 0..MaxRequests

PollingInit ==
  /\ PoolInit
  /\ due = <<>>
  /\ disabled = {}
  /\ errors = [f \in Feeds |-> 0]
  /\ refreshing = [r \in Runners |-> NotRefreshing]
  /\ editing = [u \in Editors |-> NotEditing]
  /\ off = {} /\ raced = {}
  /\ requests = 0

(* The clock passes a feed's next_check_at. *)
BecomeDue(f) ==
  /\ ~IsDue(f)
  /\ due' = Append(due, f)
  /\ UNCHANGED <<poolVars, disabled, errors, refreshing, editing, history, requests>>
-----------------------------------------------------------------------------
OfHost(jobs, h) == Cardinality({i \in DOMAIN jobs : HostOf[jobs[i]] = h})

(* Faulty variant: one job too many per host.                              *)
MayJoinLoose(jobs, f) == LimitPerHost = 0 \/ OfHost(jobs, HostOf[f]) <= LimitPerHost

MayJoin(jobs, f) == LimitPerHost = 0 \/ OfHost(jobs, HostOf[f]) < LimitPerHost

(* FetchJobs goes through the rows and skips those of a host at its limit: *)
(* built[n] is the batch after n rows.                                     *)
PerHost(selected) ==
  LET built[n \in 0..Len(selected)] ==
        IF n = 0 THEN <<>>
        ELSE IF MayJoin(built[n - 1], selected[n]) THEN Append(built[n - 1], selected[n])
        ELSE built[n - 1]
  IN  built[Len(selected)]

BelowErrorLimit(f) == ErrorLimit = 0 \/ errors[f] < ErrorLimit
Pollable(f) == f \notin disabled /\ BelowErrorLimit(f)

(* Faulty variant: ORDER BY next_check_at DESC.                            *)
NewestFirst(selected) == Reverse(selected)

OldestFirst(selected) == selected

(* The query of a batch: WHERE, ORDER BY next_check_at ASC, LIMIT. *)
ExpiredFeeds == OldestFirst(Keep(due, {f \in Feeds : Pollable(f)}))
Limited(selected) == SubSeq(selected, 1, IF Len(selected) < BatchSize THEN Len(selected) ELSE BatchSize)

ScheduledBatch == PerHost(Limited(ExpiredFeeds))

UnchangedRows == UNCHANGED <<rows, refreshing, editing, history>>

(* A tick of feedScheduler: ticks that pass while it pushes are dropped.   *)
(* An error of the query leaves nothing to push.                           *)
Poll ==
  LET batch == ScheduledBatch IN
  /\ Push(Scheduler, batch)
  /\ batch # <<>>
  /\ UnchangedRows /\ UNCHANGED requests

(* A request of a user, of which a behaviour has MaxRequests; the daemon   *)
(* stops the HTTP servers before the pool.                                 *)
Request == ~closed /\ requests < MaxRequests /\ requests' = requests + 1

(* The API's "refresh all", of a user or a category: expired feeds below   *)
(* the error limit.                                                        *)
RefreshAllAPI(c, wanted) ==
  /\ Request
  /\ Push(c, PerHost(Keep(ExpiredFeeds, wanted)))
  /\ UnchangedRows

(* The web interface's, for all feeds or a category's: neither next checks *)
(* nor errors matter.                                                      *)
RefreshAllUI(c, wanted) ==
  /\ Request
  /\ \E others \in SetToSeqs({f \in wanted \ ToSet(due) : f \notin disabled}) :
       Push(c, PerHost(Keep(due, wanted \ disabled) \o others))
  /\ UnchangedRows
-----------------------------------------------------------------------------
IsRefreshing(r) == refreshing[r].feed # NoFeed
InProgress(f) == \E r \in Runners : refreshing[r].feed = f

(* Faulty variant: the job carries the row that made the batch.            *)
RowEnabled(f) == [feed |-> f, errors |-> errors[f], disabled |-> FALSE]

Row(f) == [feed |-> f, errors |-> errors[f], disabled |-> f \in disabled]

(* RefreshFeed reads the row and asks the server. *)
ReadRow(r, f) == ~IsRefreshing(r) /\ refreshing' = [refreshing EXCEPT ![r] = Row(f)]

BeginJob(w) ==
  /\ wpc[w] = "refreshing"
  /\ ReadRow(w, task[w])
  /\ UNCHANGED <<poolVars, rows, editing, history, requests>>

(* The refresh of one feed, by the request's own goroutine. *)
RefreshOne(c, f) ==
  /\ Request
  /\ ReadRow(c, f)
  /\ UNCHANGED <<poolVars, rows, editing, history>>

Returns(r) ==
  /\ IsRefreshing(r)
  /\ refreshing' = [refreshing EXCEPT ![r] = NotRefreshing]
  /\ IF r \in Workers THEN JobDone(r) ELSE UNCHANGED poolVars

(* A refresh writes next_check_at, behind what a settings request has read. *)
ScheduleNextCheck(f) ==
  /\ due' = Without(due, f)
  /\ editing' = [u \in Editors |-> IF editing[u].feed = f THEN [editing[u] EXCEPT !.stale = TRUE]
                                                         ELSE editing[u]]

(* RefreshFeed succeeds and writes the row it read: UpdateFeed. *)
RefreshSucceeds(r) ==
  LET read == refreshing[r] IN
  /\ Returns(r)
  /\ ScheduleNextCheck(read.feed)
  /\ errors' = [errors EXCEPT ![read.feed] = 0]
  /\ disabled' = IF read.disabled THEN disabled \cup {read.feed} ELSE disabled \ {read.feed}
  /\ UNCHANGED <<history, requests>>

(* It fails, and UpdateFeedError counts the error. *)
RefreshFails(r) ==
  LET read == refreshing[r] IN
  /\ Returns(r)
  /\ ScheduleNextCheck(read.feed)
  /\ errors' = [errors EXCEPT ![read.feed] = IF read.errors = MaxErrors THEN MaxErrors ELSE read.errors + 1]
  /\ UNCHANGED <<disabled, history, requests>>

(* ReadBody fails (or a query does): RefreshFeed returns, nothing is written. *)
RefreshLeavesRow(r) ==
  /\ Returns(r)
  /\ UNCHANGED <<rows, editing, history, requests>>
-----------------------------------------------------------------------------
(* A settings request (updateFeed, updateFeedHandler) reads the row. *)
ReadSettings(u, f) ==
  /\ Request
  /\ editing[u] = NotEditing
  /\ editing' = [editing EXCEPT ![u] = [feed |-> f, disabled |-> f \in disabled, stale |-> FALSE]]
  /\ UNCHANGED <<poolVars, rows, refreshing, history>>

(* Where f may be once a next_check_at read earlier is written again. *)
Placements(f) ==
  LET rest == Without(due, f)
  IN  {rest} \cup {InsertAt(rest, i, f) : i \in 1..(Len(rest) + 1)}

(* It saves the whole row: no errors, and the next check it read.          *)
SaveRow(u, disable) ==
  LET f == editing[u].feed IN
  /\ f # NoFeed
  /\ disabled' = IF disable THEN disabled \cup {f} ELSE disabled \ {f}
  /\ errors' = [errors EXCEPT ![f] = 0]
  /\ due' \in IF editing[u].stale THEN Placements(f) ELSE {due}
  /\ editing' = [editing EXCEPT ![u] = NotEditing]
  /\ UNCHANGED <<poolVars, refreshing, requests>>

HasOtherWriter(f, u) == InProgress(f) \/ \E v \in Editors \ {u} : editing[v].feed = f

(* The request says whether the feed is disabled... *)
SaveDisabled(u, disable) ==
  LET f == editing[u].feed IN
  /\ SaveRow(u, disable)
  /\ off' = IF disable THEN off \cup {f} ELSE off \ {f}
  /\ raced' = IF HasOtherWriter(f, u) THEN raced \cup {f} ELSE raced \ {f}

(* ...or, through the API, is about other settings and keeps what it read. *)
SaveOther(u) == SaveRow(u, editing[u].disabled) /\ UNCHANGED history

Run(r) ==
  \/ RefreshSucceeds(r)
  \/ RefreshFails(r)
  \/ RefreshLeavesRow(r)

Elsewhere == UNCHANGED <<rows, refreshing, editing, history, requests>>

HandsOver(p) == (\E w \in Workers : HandOver(p, w)) /\ Elsewhere

PoolStep ==
  \/ \E p \in Pushers : HandsOver(p)
  \/ \E p \in Pushers : Discard(p) /\ Elsewhere
  \/ \E w \in Workers : Leave(w) /\ Elsewhere
  \/ Close /\ Elsewhere
  \/ ShutdownReturns /\ Elsewhere

User ==
  \/ \E c \in Clients, wanted \in Selections : RefreshAllAPI(c, wanted)
  \/ \E c \in Clients, wanted \in Selections : RefreshAllUI(c, wanted)
  \/ \E c \in Clients, f \in Chosen : RefreshOne(c, f)
  \/ \E u \in Editors, f \in Chosen : ReadSettings(u, f)
  \/ \E u \in Editors, disable \in BOOLEAN : SaveDisabled(u, disable)
  \/ \E u \in Editors : SaveOther(u)

Otherwise ==
  \/ \E f \in Feeds : BecomeDue(f)
  \/ Poll
  \/ \E w \in Workers : BeginJob(w)
  \/ PoolStep
  \/ User

PollingNext == Otherwise \/ \E r \in Runners : Run(r)

PollingSpec == PollingInit /\ [][PollingNext]_pollVars

(* The scheduler ticks on, workers keep going and their requests end (the  *)
(* HTTP client has a timeout), and goroutines blocked on a channel are     *)
(* served in the order of their arrival: hence SF on handing over.         *)
PollingFairness ==
  /\ WF_pollVars(Poll)
  /\ \A w \in Workers : /\ WF_pollVars(BeginJob(w) \/ Run(w))
                         /\ WF_pollVars(Leave(w) /\ Elsewhere)
  /\ \A p \in Pushers : /\ SF_pollVars(HandsOver(p))
                         /\ WF_pollVars(Discard(p) /\ Elsewhere)
  /\ WF_pollVars(ShutdownReturns /\ Elsewhere)

PollingFairSpec == PollingSpec /\ PollingFairness
-----------------------------------------------------------------------------
(* A batch never leaves a feed behind for a younger one: a pollable feed   *)
(* that is left out has BatchSize pollable feeds before it, or its host's  *)
(* limit is used up by such feeds; and the limit holds (FetchJobs).        *)
Older(f, g) == \E i, j \in DOMAIN due : i < j /\ due[i] = f /\ due[j] = g

BatchesAreFair ==
  [][LET batch == pushing'[Scheduler]
         candidates == {f \in ToSet(due) : Pollable(f)}
         before(f) == {g \in candidates : Older(g, f)}
     IN  pushing[Scheduler] = <<>> /\ batch # <<>> =>
           /\ ToSet(batch) \subseteq candidates
           /\ \A f \in ToSet(batch) : LimitPerHost > 0 => OfHost(batch, HostOf[f]) <= LimitPerHost
           /\ \A f \in candidates \ ToSet(batch) :
                \/ Cardinality(before(f)) >= BatchSize
                \/ Cardinality({g \in before(f) \cap ToSet(batch) : HostOf[g] = HostOf[f]}) = LimitPerHost
    ]_pollVars

(* A feed the user has disabled stays so, unless another writer of its row *)
(* had read it when the settings were saved (UpdateFeed writes every       *)
(* column, whoever calls it).                                              *)
QuietEditsAreKept == off \ raced \subseteq disabled

(* Why: whoever reads the row of such a feed reads that it is disabled.    *)
ReadersSeeQuietEdits ==
  \A f \in off \ raced :
    /\ \A r \in Runners : refreshing[r].feed = f => refreshing[r].disabled
    /\ \A u \in Editors : editing[u].feed = f => editing[u].disabled

(* A goroutine that refreshes for the pool refreshes the job it was given. *)
WorkersRefreshTheirJob ==
  \A w \in Workers : IsRefreshing(w) => wpc[w] = "refreshing" /\ refreshing[w].feed = task[w]

PollingInv ==
  /\ PollingTypeOK
  /\ QuietEditsAreKept
  /\ ReadersSeeQuietEdits
  /\ WorkersRefreshTheirJob

(* What the label of the setting says, "Do not refresh this feed" (locale  *)
(* en_US, form.feed.label.disabled): a feed saved as disabled is disabled. *)
DisabledFeedsStayDisabled == off \subseteq disabled

(* POLLING_LIMIT_PER_HOST "limits the number of concurrent requests to the *)
(* same hostname when polling feeds" (miniflux.1).                         *)
ConcurrentRequestsAreLimited ==
  \A h \in {HostOf[f] : f \in Feeds} :
    LimitPerHost > 0 =>
      Cardinality({w \in Workers : IsRefreshing(w) /\ HostOf[refreshing[w].feed] = h}) <= LimitPerHost

(* No feed starves: a due feed that may be polled gets its turn, whatever  *)
(* the batch size and the other feeds, unless refreshes keep leaving rows  *)
(* as they were (FetchJobs, ScheduleNextCheck).                            *)
EveryDueFeedIsRefreshed ==
  \/ []<><<\E w \in Workers : IsDue(refreshing[w].feed) /\ RefreshLeavesRow(w)>>_pollVars
  \/ \A f \in Feeds : (IsDue(f) /\ Pollable(f))
                        ~> (~IsDue(f) \/ ~Pollable(f) \/ InProgress(f) \/ closed)

(* Push returns, before and after Shutdown; Shutdown returns, although     *)
(* goroutines keep pushing (pool.go).                                      *)
EveryPushReturns == \A p \in Pushers : (pushing[p] # <<>>) ~> (pushing[p] = <<>>)
ShutdownCompletes == (stopper = "waiting") ~> (stopper = "stopped")
=============================================================================
