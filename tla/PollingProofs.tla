--------------------------- MODULE PollingProofs ---------------------------
(***************************************************************************)
(* Proofs about Polling.tla, for any number of feeds, workers, clients and *)
(* editors.                                                                *)
(*                                                                         *)
(* The lost updates between a refresh and the settings need two writers    *)
(* whose reads and writes overlap; QuietRows is the inductive invariant    *)
(* that shows nothing else can undo a saved setting: whoever holds a copy  *)
(* of the row of a quietly disabled feed holds a disabled one.             *)
(*                                                                         *)
(* Batches are made by two scans of rows.  A scan is a recursive function  *)
(* of the number of rows read; KeptRows and FairSoFar say what it has made *)
(* after each row, and CountingUp carries them to the last one.            *)
(***************************************************************************)
EXTENDS Polling, FiniteSetTheorems, NaturalsInduction, TLAPS

Copies ==
  /\ DOMAIN refreshing = Runners
  /\ editing \in [Editors -> [feed : Feeds \cup {NoFeed}, disabled : BOOLEAN, stale : BOOLEAN]]
  /\ off \subseteq Feeds

QuietRows == Copies /\ QuietEditsAreKept /\ ReadersSeeQuietEdits

(* The copies that goroutines hold, and what users last saved, are all a   *)
(* step must leave alone to keep the invariant.                            *)
LEMMA QuietUnchanged ==
  ASSUME QuietRows, UNCHANGED <<disabled, refreshing, editing, off, raced>>
  PROVE  QuietRows'
BY DEF QuietRows, Copies, QuietEditsAreKept, ReadersSeeQuietEdits

LEMMA QuietInit == PollingInit => QuietRows
BY DEF PollingInit, QuietRows, Copies, QuietEditsAreKept, ReadersSeeQuietEdits, NotRefreshing, NotEditing

(* Reading the row, for a refresh. *)
LEMMA QuietReadRow ==
  ASSUME QuietRows, NEW r \in Runners, NEW f, ReadRow(r, f),
         UNCHANGED <<rows, editing, history>>
  PROVE  QuietRows'
<1>1. refreshing' = [refreshing EXCEPT ![r] = Row(f)] /\ UNCHANGED <<disabled, editing, off, raced>>
  BY DEF ReadRow, rows, history
<1>2. Row(f).feed = f /\ Row(f).disabled = (f \in disabled)
  BY DEF Row
<1>3. /\ DOMAIN refreshing' = Runners
      /\ refreshing'[r].feed = f /\ refreshing'[r].disabled = (f \in disabled)
      /\ \A q \in Runners : q # r => refreshing'[q] = refreshing[q]
  BY <1>1, <1>2 DEF QuietRows, Copies
<1>4. Copies' /\ QuietEditsAreKept'
  BY <1>1, <1>3 DEF QuietRows, Copies, QuietEditsAreKept
<1>5. ReadersSeeQuietEdits'
  <2> SUFFICES ASSUME NEW g \in off \ raced
               PROVE  /\ \A q \in Runners : refreshing'[q].feed = g => refreshing'[q].disabled
                      /\ \A u \in Editors : editing'[u].feed = g => editing'[u].disabled
    BY <1>1 DEF ReadersSeeQuietEdits
  <2>1. g \in disabled
    BY DEF QuietRows, QuietEditsAreKept
  <2>2. \A q \in Runners : q # r /\ refreshing'[q].feed = g => refreshing'[q].disabled
    BY <1>3 DEF QuietRows, ReadersSeeQuietEdits
  <2>3. refreshing'[r].feed = g => refreshing'[r].disabled
    BY <1>3, <2>1
  <2>4. \A u \in Editors : editing'[u].feed = g => editing'[u].disabled
    BY <1>1 DEF QuietRows, ReadersSeeQuietEdits
  <2> QED
    BY <2>2, <2>3, <2>4
<1> QED
  BY <1>4, <1>5 DEF QuietRows

(* The steps of other components. *)
LEMMA QuietElsewhere ==
  ASSUME QuietRows, Elsewhere
  PROVE  QuietRows'
BY QuietUnchanged DEF Elsewhere, rows, history

(* What a refresh leaves in refreshing and editing when it returns. *)
LEMMA AfterReturn ==
  ASSUME QuietRows, NEW r \in Runners, Returns(r)
  PROVE  /\ DOMAIN refreshing' = Runners
         /\ \A q \in Runners : q # r => refreshing'[q] = refreshing[q]
         /\ refreshing'[r].feed = NoFeed /\ refreshing'[r].disabled = FALSE
         /\ refreshing[r].feed # NoFeed
BY DEF QuietRows, Copies, Returns, IsRefreshing, NotRefreshing

LEMMA AfterSchedule ==
  ASSUME QuietRows, NEW f, ScheduleNextCheck(f)
  PROVE  /\ DOMAIN editing' = Editors
         /\ \A u \in Editors : editing'[u].feed = editing[u].feed /\ editing'[u].disabled = editing[u].disabled
<1>1. editing' = [u \in Editors |-> IF editing[u].feed = f THEN [editing[u] EXCEPT !.stale = TRUE] ELSE editing[u]]
  BY DEF ScheduleNextCheck
<1>2. \A u \in Editors : editing'[u] = IF editing[u].feed = f THEN [editing[u] EXCEPT !.stale = TRUE] ELSE editing[u]
  BY <1>1
<1> QED
  BY <1>1, <1>2

LEMMA QuietSucceeds ==
  ASSUME QuietRows, NEW r \in Runners, RefreshSucceeds(r)
  PROVE  QuietRows'
<1> DEFINE f == refreshing[r].feed
<1>1. Returns(r) /\ ScheduleNextCheck(f) /\ UNCHANGED <<off, raced>>
  BY DEF RefreshSucceeds, history
<1>2. disabled' = IF refreshing[r].disabled THEN disabled \cup {f} ELSE disabled \ {f}
  BY DEF RefreshSucceeds
<1>3. Copies'
  BY <1>1, AfterReturn DEF Copies, QuietRows, ScheduleNextCheck
<1>4. f \in off \ raced => refreshing[r].disabled
  BY DEF QuietRows, ReadersSeeQuietEdits
<1>5. QuietEditsAreKept'
  BY <1>1, <1>2, <1>4 DEF QuietRows, QuietEditsAreKept
<1>6. ReadersSeeQuietEdits'
  <2> SUFFICES ASSUME NEW g \in (off \ raced)'
               PROVE  /\ \A q \in Runners : refreshing'[q].feed = g => refreshing'[q].disabled
                      /\ \A u \in Editors : editing'[u].feed = g => editing'[u].disabled
    BY DEF ReadersSeeQuietEdits
  <2>1. g \in off \ raced /\ g # NoFeed
    BY <1>1, PoolAssumption DEF QuietRows, Copies
  <2>2. \A q \in Runners : refreshing[q].feed = g => refreshing[q].disabled
    BY <2>1 DEF QuietRows, ReadersSeeQuietEdits
  <2>3. \A u \in Editors : editing[u].feed = g => editing[u].disabled
    BY <2>1 DEF QuietRows, ReadersSeeQuietEdits
  <2>4. \A q \in Runners : refreshing'[q].feed = g => refreshing'[q].disabled
    BY <1>1, <2>1, <2>2, AfterReturn
  <2>5. \A u \in Editors : editing'[u].feed = g => editing'[u].disabled
    BY <1>1, <2>3, AfterSchedule
  <2> QED
    BY <2>4, <2>5
<1> QED
  BY <1>3, <1>5, <1>6 DEF QuietRows

(* RefreshFails schedules and leaves disabled alone; RefreshLeavesRow only *)
(* returns.                                                                *)
LEMMA QuietReturns ==
  ASSUME QuietRows, NEW r \in Runners, Returns(r), UNCHANGED <<disabled, off, raced>>,
         \/ ScheduleNextCheck(refreshing[r].feed)
         \/ UNCHANGED editing
  PROVE  QuietRows'
<1>1. /\ DOMAIN refreshing' = Runners
      /\ \A q \in Runners : q # r => refreshing'[q] = refreshing[q]
      /\ refreshing'[r].feed = NoFeed
  BY AfterReturn
<1>2. \A u \in Editors : editing'[u].feed = editing[u].feed /\ editing'[u].disabled = editing[u].disabled
  BY AfterSchedule
<1>3. Copies' /\ QuietEditsAreKept'
  <2>1. editing' \in [Editors -> [feed : Feeds \cup {NoFeed}, disabled : BOOLEAN, stale : BOOLEAN]]
    BY DEF Copies, QuietRows, ScheduleNextCheck
  <2> QED
    BY <1>1, <2>1 DEF Copies, QuietRows, QuietEditsAreKept
<1>4. ReadersSeeQuietEdits'
  <2> SUFFICES ASSUME NEW g \in off \ raced
               PROVE  /\ \A q \in Runners : refreshing'[q].feed = g => refreshing'[q].disabled
                      /\ \A u \in Editors : editing'[u].feed = g => editing'[u].disabled
    BY DEF ReadersSeeQuietEdits
  <2>1. g # NoFeed
    BY PoolAssumption DEF QuietRows, Copies
  <2>2. \A q \in Runners : refreshing[q].feed = g => refreshing[q].disabled
    BY DEF QuietRows, ReadersSeeQuietEdits
  <2>3. \A u \in Editors : editing[u].feed = g => editing[u].disabled
    BY DEF QuietRows, ReadersSeeQuietEdits
  <2> QED
    BY <1>1, <1>2, <2>1, <2>2, <2>3
<1> QED
  BY <1>3, <1>4 DEF QuietRows

LEMMA QuietRun ==
  ASSUME QuietRows, NEW r \in Runners, Run(r)
  PROVE  QuietRows'
<1>1. CASE RefreshSucceeds(r)
  BY <1>1, QuietSucceeds
<1>2. CASE RefreshFails(r)
  <2>1. Returns(r) /\ UNCHANGED <<disabled, off, raced>> /\ ScheduleNextCheck(refreshing[r].feed)
    BY <1>2 DEF RefreshFails, history
  <2> QED
    BY <2>1, QuietReturns
<1>3. CASE RefreshLeavesRow(r)
  <2>1. Returns(r) /\ UNCHANGED <<disabled, off, raced, editing>>
    BY <1>3 DEF RefreshLeavesRow, rows, history
  <2> QED
    BY <2>1, QuietReturns
<1> QED
  BY <1>1, <1>2, <1>3 DEF Run
-----------------------------------------------------------------------------
(* A settings request reads the row... *)
LEMMA QuietReadSettings ==
  ASSUME QuietRows, NEW u \in Editors, NEW f \in Feeds, ReadSettings(u, f)
  PROVE  QuietRows'
<1> DEFINE copy == [feed |-> f, disabled |-> f \in disabled, stale |-> FALSE]
<1>1. editing' = [editing EXCEPT ![u] = copy] /\ UNCHANGED <<disabled, refreshing, off, raced>>
  BY DEF ReadSettings, rows, history
<1>2. /\ editing'[u].feed = f /\ editing'[u].disabled = (f \in disabled)
      /\ \A v \in Editors : v # u => editing'[v] = editing[v]
  BY <1>1 DEF QuietRows, Copies
<1>3. Copies' /\ QuietEditsAreKept'
  <2>1. copy \in [feed : Feeds \cup {NoFeed}, disabled : BOOLEAN, stale : BOOLEAN]
    OBVIOUS
  <2> QED
    BY <1>1, <2>1 DEF QuietRows, Copies, QuietEditsAreKept
<1>4. ReadersSeeQuietEdits'
  <2> SUFFICES ASSUME NEW g \in off \ raced
               PROVE  /\ \A q \in Runners : refreshing'[q].feed = g => refreshing'[q].disabled
                      /\ \A v \in Editors : editing'[v].feed = g => editing'[v].disabled
    BY <1>1 DEF ReadersSeeQuietEdits
  <2>1. g \in disabled
    BY DEF QuietRows, QuietEditsAreKept
  <2>2. \A q \in Runners : refreshing'[q].feed = g => refreshing'[q].disabled
    BY <1>1 DEF QuietRows, ReadersSeeQuietEdits
  <2>3. \A v \in Editors : editing[v].feed = g => editing[v].disabled
    BY DEF QuietRows, ReadersSeeQuietEdits
  <2> QED
    BY <1>2, <2>1, <2>2, <2>3
<1> QED
  BY <1>3, <1>4 DEF QuietRows

(* ...and saves it.  What was quiet before and stays quiet is disabled by  *)
(* the request itself, or is another feed.                                 *)
LEMMA QuietSave ==
  ASSUME QuietRows, NEW u \in Editors, NEW disable \in BOOLEAN, SaveRow(u, disable),
         off' \subseteq Feeds,
         \A g \in off' \ raced' : g # editing[u].feed => g \in off \ raced,
         editing[u].feed \in off' \ raced' =>
           /\ disable
           /\ \A q \in Runners : refreshing[q].feed = editing[u].feed => refreshing[q].disabled
           /\ \A v \in Editors \ {u} : editing[v].feed = editing[u].feed => editing[v].disabled
  PROVE  QuietRows'
<1> DEFINE f == editing[u].feed
<1>1. /\ disabled' = IF disable THEN disabled \cup {f} ELSE disabled \ {f}
      /\ editing' = [editing EXCEPT ![u] = NotEditing]
      /\ UNCHANGED refreshing
  BY DEF SaveRow
<1>2. editing'[u].feed = NoFeed /\ \A v \in Editors : v # u => editing'[v] = editing[v]
  BY <1>1 DEF QuietRows, Copies, NotEditing
<1>3. Copies'
  <2>1. NotEditing \in [feed : Feeds \cup {NoFeed}, disabled : BOOLEAN, stale : BOOLEAN]
    BY DEF NotEditing
  <2> QED
    BY <1>1, <2>1 DEF QuietRows, Copies
<1>4. QuietEditsAreKept'
  BY <1>1 DEF QuietRows, QuietEditsAreKept
<1>5. ReadersSeeQuietEdits'
  <2> SUFFICES ASSUME NEW g \in off' \ raced'
               PROVE  /\ \A q \in Runners : refreshing'[q].feed = g => refreshing'[q].disabled
                      /\ \A v \in Editors : editing'[v].feed = g => editing'[v].disabled
    BY DEF ReadersSeeQuietEdits
  <2>1. g # NoFeed
    BY PoolAssumption
  <2>2. \A q \in Runners : refreshing[q].feed = g => refreshing[q].disabled
    BY DEF QuietRows, ReadersSeeQuietEdits
  <2>3. \A v \in Editors \ {u} : editing[v].feed = g => editing[v].disabled
    BY DEF QuietRows, ReadersSeeQuietEdits
  <2> QED
    BY <1>1, <1>2, <2>1, <2>2, <2>3
<1> QED
  BY <1>3, <1>4, <1>5 DEF QuietRows

LEMMA QuietSaveDisabled ==
  ASSUME QuietRows, NEW u \in Editors, NEW disable \in BOOLEAN, SaveDisabled(u, disable)
  PROVE  QuietRows'
<1> DEFINE f == editing[u].feed
<1>1. /\ SaveRow(u, disable)
      /\ off' = IF disable THEN off \cup {f} ELSE off \ {f}
      /\ raced' = IF HasOtherWriter(f, u) THEN raced \cup {f} ELSE raced \ {f}
  BY DEF SaveDisabled
<1>2. f \in Feeds
  BY <1>1 DEF SaveRow, QuietRows, Copies
<1>3. off' \subseteq Feeds /\ \A g \in off' \ raced' : g # f => g \in off \ raced
  BY <1>1, <1>2 DEF QuietRows, Copies
<1>4. f \in off' \ raced' => disable /\ ~HasOtherWriter(f, u)
  BY <1>1
<1>5. ~HasOtherWriter(f, u) => /\ \A q \in Runners : refreshing[q].feed # f
                               /\ \A v \in Editors \ {u} : editing[v].feed # f
  BY DEF HasOtherWriter, InProgress
<1> QED
  BY <1>1, <1>3, <1>4, <1>5, QuietSave

LEMMA QuietSaveOther ==
  ASSUME QuietRows, NEW u \in Editors, SaveOther(u)
  PROVE  QuietRows'
<1>1. SaveRow(u, editing[u].disabled) /\ UNCHANGED <<off, raced>>
  BY DEF SaveOther, history
<1>2. editing[u].disabled \in BOOLEAN /\ off' \subseteq Feeds
  BY <1>1 DEF QuietRows, Copies
<1>3. editing[u].feed \in off' \ raced' =>
           /\ editing[u].disabled
           /\ \A q \in Runners : refreshing[q].feed = editing[u].feed => refreshing[q].disabled
           /\ \A v \in Editors \ {u} : editing[v].feed = editing[u].feed => editing[v].disabled
  BY <1>1 DEF QuietRows, ReadersSeeQuietEdits
<1> QED
  BY <1>1, <1>2, <1>3, QuietSave
-----------------------------------------------------------------------------
LEMMA QuietStep ==
  ASSUME QuietRows, [PollingNext]_pollVars
  PROVE  QuietRows'
<1>1. CASE UNCHANGED pollVars
  BY <1>1, QuietUnchanged DEF pollVars, rows, history
<1>2. CASE \E f \in Feeds : BecomeDue(f)
  BY <1>2, QuietUnchanged DEF BecomeDue, history
<1>3. CASE Poll
  BY <1>3, QuietUnchanged DEF Poll, UnchangedRows, rows, history
<1>4. ASSUME NEW w \in Workers, BeginJob(w)
      PROVE  QuietRows'
  <2>1. ReadRow(w, task[w]) /\ UNCHANGED <<rows, editing, history>> /\ w \in Runners
    BY <1>4 DEF BeginJob, Runners
  <2> QED
    BY <2>1, QuietReadRow
<1>5. CASE PoolStep
  BY <1>5, QuietElsewhere DEF PoolStep, HandsOver
<1>6. ASSUME NEW c \in Clients, NEW wanted \in Selections,
             RefreshAllAPI(c, wanted) \/ RefreshAllUI(c, wanted)
      PROVE  QuietRows'
  BY <1>6, QuietUnchanged DEF RefreshAllAPI, RefreshAllUI, UnchangedRows, rows, history
<1>7. ASSUME NEW c \in Clients, NEW f \in Chosen, RefreshOne(c, f)
      PROVE  QuietRows'
  <2>1. ReadRow(c, f) /\ UNCHANGED <<rows, editing, history>> /\ c \in Runners
    BY <1>7 DEF RefreshOne, Runners
  <2> QED
    BY <2>1, QuietReadRow
<1>8. ASSUME NEW u \in Editors, NEW f \in Chosen, ReadSettings(u, f)
      PROVE  QuietRows'
  <2>1. f \in Feeds
    BY PollingAssumption
  <2> QED
    BY <1>8, <2>1, QuietReadSettings
<1>9. ASSUME NEW u \in Editors, NEW disable \in BOOLEAN, SaveDisabled(u, disable)
      PROVE  QuietRows'
  BY <1>9, QuietSaveDisabled
<1>10. ASSUME NEW u \in Editors, SaveOther(u)
       PROVE  QuietRows'
  BY <1>10, QuietSaveOther
<1>11. ASSUME NEW r \in Runners, Run(r)
       PROVE  QuietRows'
  BY <1>11, QuietRun
<1>12. CASE User
  BY <1>12, <1>6, <1>7, <1>8, <1>9, <1>10 DEF User
<1> QED
  BY <1>1, <1>2, <1>3, <1>4, <1>5, <1>11, <1>12 DEF PollingNext, Otherwise

(* Settings are only lost to an overlapping writer: a feed that the user   *)
(* has disabled while no other goroutine had read its row stays disabled,  *)
(* whatever refreshes and edits come later (UpdateFeed).                   *)
THEOREM QuietEditsStay == PollingSpec => []QuietEditsAreKept
<1>1. QuietRows => QuietEditsAreKept
  BY DEF QuietRows
<1> QED
  BY <1>1, QuietInit, QuietStep, PTL DEF PollingSpec
-----------------------------------------------------------------------------
Jobs == /\ DOMAIN wpc = Workers /\ DOMAIN task = Workers /\ DOMAIN refreshing = Runners
        /\ WorkersRefreshTheirJob

LEMMA JobsUnchanged ==
  ASSUME Jobs, UNCHANGED <<wpc, task, refreshing>>
  PROVE  Jobs'
BY DEF Jobs, WorkersRefreshTheirJob, IsRefreshing

LEMMA JobsInit == PollingInit => Jobs
BY DEF PollingInit, PoolInit, Jobs, WorkersRefreshTheirJob, IsRefreshing, NotRefreshing, Runners

(* A job is handed to, and the pool is left by, workers that have none. *)
LEMMA JobsOfIdleWorkers ==
  ASSUME Jobs, NEW w \in Workers, wpc[w] = "receiving", UNCHANGED refreshing,
         DOMAIN wpc' = Workers, DOMAIN task' = Workers,
         \A v \in Workers \ {w} : wpc'[v] = wpc[v] /\ task'[v] = task[v]
  PROVE  Jobs'
BY DEF Jobs, WorkersRefreshTheirJob, IsRefreshing

LEMMA JobsPoolStep == Jobs /\ PoolStep => Jobs'
<1> SUFFICES ASSUME Jobs, PoolStep
             PROVE  Jobs'
  OBVIOUS
<1>1. UNCHANGED refreshing
  BY DEF PoolStep, HandsOver, Elsewhere
<1>2. ASSUME NEW p \in Pushers, NEW w \in Workers, HandOver(p, w)
      PROVE  Jobs'
  BY <1>1, <1>2, JobsOfIdleWorkers DEF HandOver, Jobs
<1>3. ASSUME NEW w \in Workers, Leave(w)
      PROVE  Jobs'
  BY <1>1, <1>3, JobsOfIdleWorkers DEF Leave, Jobs
<1>4. ASSUME (\E p \in Pushers : Discard(p)) \/ Close \/ ShutdownReturns
      PROVE  Jobs'
  BY <1>1, <1>4, JobsUnchanged DEF Discard, Close, ShutdownReturns
<1> QED
  BY <1>2, <1>3, <1>4 DEF PoolStep, HandsOver

LEMMA JobsBegin ==
  ASSUME Jobs, NEW r \in Runners, NEW f, ReadRow(r, f), UNCHANGED <<wpc, task>>,
         r \in Workers => wpc[r] = "refreshing" /\ f = task[r]
  PROVE  Jobs'
<1>1. refreshing' = [refreshing EXCEPT ![r] = Row(f)] /\ Row(f).feed = f
  BY DEF ReadRow, Row
<1> QED
  BY <1>1 DEF Jobs, WorkersRefreshTheirJob, IsRefreshing

LEMMA JobsReturn ==
  ASSUME Jobs, NEW r \in Runners, Returns(r)
  PROVE  Jobs'
<1>1. /\ DOMAIN refreshing' = Runners
      /\ \A q \in Runners : q # r => refreshing'[q] = refreshing[q]
      /\ refreshing'[r].feed = NoFeed
  BY DEF Jobs, Returns, NotRefreshing
<1>2. CASE r \in Workers
  <2>1. /\ DOMAIN wpc' = Workers /\ DOMAIN task' = Workers
        /\ \A v \in Workers \ {r} : wpc'[v] = wpc[v] /\ task'[v] = task[v]
    BY <1>2 DEF Jobs, Returns, JobDone
  <2> QED
    BY <1>1, <2>1 DEF Jobs, WorkersRefreshTheirJob, IsRefreshing, Runners
<1>3. CASE r \notin Workers
  <2>1. UNCHANGED <<wpc, task>>
    BY <1>3 DEF Returns, poolVars
  <2> QED
    BY <1>1, <1>3, <2>1 DEF Jobs, WorkersRefreshTheirJob, IsRefreshing, Runners
<1> QED
  BY <1>2, <1>3

LEMMA JobsStep ==
  ASSUME Jobs, [PollingNext]_pollVars
  PROVE  Jobs'
<1>1. CASE UNCHANGED pollVars
  BY <1>1, JobsUnchanged DEF pollVars, poolVars
<1>2. CASE \E f \in Feeds : BecomeDue(f)
  BY <1>2, JobsUnchanged DEF BecomeDue, poolVars
<1>3. CASE Poll
  BY <1>3, JobsUnchanged DEF Poll, Push, UnchangedRows
<1>4. ASSUME NEW w \in Workers, BeginJob(w)
      PROVE  Jobs'
  BY <1>4, JobsBegin DEF BeginJob, Runners, poolVars
<1>5. CASE PoolStep
  BY <1>5, JobsPoolStep
<1>6. ASSUME NEW c \in Clients, NEW f \in Chosen, RefreshOne(c, f)
      PROVE  Jobs'
  <2>1. c \in Runners /\ c \notin Workers
    BY PollingAssumption DEF Runners
  <2> QED
    BY <1>6, <2>1, JobsBegin DEF RefreshOne, poolVars
<1>7. ASSUME NEW c \in Clients, NEW wanted \in Selections,
             RefreshAllAPI(c, wanted) \/ RefreshAllUI(c, wanted)
      PROVE  Jobs'
  BY <1>7, JobsUnchanged DEF RefreshAllAPI, RefreshAllUI, Push, UnchangedRows
<1>8. ASSUME NEW u \in Editors,
             \/ \E f \in Chosen : ReadSettings(u, f)
             \/ \E disable \in BOOLEAN : SaveDisabled(u, disable)
             \/ SaveOther(u)
      PROVE  Jobs'
  BY <1>8, JobsUnchanged DEF ReadSettings, SaveDisabled, SaveOther, SaveRow, poolVars
<1>9. ASSUME NEW r \in Runners, Run(r)
      PROVE  Jobs'
  BY <1>9, JobsReturn DEF Run, RefreshSucceeds, RefreshFails, RefreshLeavesRow
<1>10. CASE User
  BY <1>10, <1>6, <1>7, <1>8 DEF User
<1> QED
  BY <1>1, <1>2, <1>3, <1>4, <1>5, <1>9, <1>10 DEF PollingNext, Otherwise

(* A worker of the pool never refreshes anything but the job it received,  *)
(* from the moment it reads the feed's row to the moment it returns (Run). *)
THEOREM WorkersKeepTheirJob == PollingSpec => []WorkersRefreshTheirJob
<1>1. Jobs => WorkersRefreshTheirJob
  BY DEF Jobs
<1> QED
  BY <1>1, JobsInit, JobsStep, PTL DEF PollingSpec
-----------------------------------------------------------------------------
(* Counting up to n.  Induction over a set of numbers: its least missing   *)
(* member would have a predecessor in it.                                  *)
LEMMA CountingUp ==
  ASSUME NEW n \in Nat, NEW S, 0 \in S, \A m \in 0..n : m < n /\ m \in S => m + 1 \in S
  PROVE  \A m \in 0..n : m \in S
<1> SUFFICES ASSUME NEW m \in 0..n, m \notin S
             PROVE  FALSE
  OBVIOUS
<1> DEFINE R == {p \in Nat \X Nat : p[1] < p[2]}
           Missed == {k \in 0..n : k \notin S}
<1>1. IsWellFoundedOn(R, Nat)
  BY NatLessThanWellFounded DEF OpToRel
<1>2. Missed \in SUBSET Nat /\ Missed # {}
  OBVIOUS
<1>3. \A j, k \in Nat : j < k => <<j, k>> \in R
  OBVIOUS
<1> HIDE DEF R, Missed
<1>4. PICK k \in Missed : \A j \in Missed : ~(<<j, k>> \in R)
  BY <1>1, <1>2, WFMin
<1>5. k \in 0..n /\ k \notin S /\ k # 0
  BY <1>4 DEF Missed
<1>6. k - 1 \in 0..n /\ k - 1 < k /\ k - 1 < n
  BY <1>5
<1>7. k - 1 \notin Missed
  BY <1>2, <1>3, <1>4, <1>5, <1>6
<1> QED
  BY <1>5, <1>6, <1>7 DEF Missed
-----------------------------------------------------------------------------
(* A loop over n rows has a state after each of them. *)
LoopStates(h, k, base, step) == \A m \in 0..k : h[m] = IF m = 0 THEN base ELSE step[m][h[m - 1]]

LEMMA LoopRuns ==
  ASSUME NEW States, NEW base \in States, NEW n \in Nat, NEW step \in [1..n -> [States -> States]]
  PROVE  \E h \in [0..n -> States] : LoopStates(h, n, base, step)
<1> DEFINE Runs(h, k) == LoopStates(h, k, base, step)
           S == {k \in 0..n : \E h \in [0..k -> States] : Runs(h, k)}
<1> USE DEF LoopStates
<1>1. 0 \in S
  <2> DEFINE h == [m \in 0..0 |-> base]
  <2>1. h \in [0..0 -> States] /\ Runs(h, 0)
    OBVIOUS
  <2> HIDE DEF h, Runs, LoopStates
  <2> QED
    BY <2>1
<1>2. ASSUME NEW k \in 0..n, k < n, k \in S
      PROVE  k + 1 \in S
  <2>1. PICK h \in [0..k -> States] : Runs(h, k)
    BY <1>2
  <2> DEFINE g == [m \in 0..(k + 1) |-> IF m = k + 1 THEN step[m][h[k]] ELSE h[m]]
  <2>2. step[k + 1][h[k]] \in States
    BY <1>2
  <2>3. g \in [0..(k + 1) -> States]
    BY <2>2
  <2>4. ASSUME NEW m \in 0..(k + 1)
        PROVE  g[m] = IF m = 0 THEN base ELSE step[m][g[m - 1]]
    <3>1. CASE m = k + 1
      <4>1. g[m - 1] = h[k] /\ g[m] = step[m][h[k]]
        BY <3>1, <1>2
      <4> QED
        BY <3>1, <4>1, <1>2
    <3>2. CASE m # k + 1
      <4>1. m \in 0..k /\ g[m] = h[m] /\ (m # 0 => g[m - 1] = h[m - 1])
        BY <3>2
      <4> QED
        BY <2>1, <4>1
    <3> QED
      BY <3>1, <3>2
  <2>5. Runs(g, k + 1) /\ k + 1 \in 0..n
    BY <2>4, <1>2
  <2> HIDE DEF g, Runs
  <2> QED
    BY <2>3, <2>5
<1> HIDE DEF S
<1>3. n \in S
  <2>1. \A m \in 0..n : m \in S
    BY <1>1, <1>2, CountingUp
  <2> QED
    BY <2>1
<1> QED
  BY <1>3 DEF S

KeepRow(before, row, wanted) == IF row \in wanted THEN Append(before, row) ELSE before

(* Keep is such a loop. *)
LEMMA KeepScans ==
  ASSUME NEW X, NEW list \in Seq(X), NEW wanted
  PROVE  \E kept \in [0..Len(list) -> Seq(X)] :
           /\ kept[0] = <<>>
           /\ \A n \in 1..Len(list) : kept[n] = KeepRow(kept[n - 1], list[n], wanted)
           /\ Keep(list, wanted) = kept[Len(list)]
<1> DEFINE step == [m \in 1..Len(list) |-> [b \in Seq(X) |-> KeepRow(b, list[m], wanted)]]
           Scan(h, m) == IF m = 0 THEN <<>>
                         ELSE IF list[m] \in wanted THEN Append(h[m - 1], list[m]) ELSE h[m - 1]
<1>1. Len(list) \in Nat /\ <<>> \in Seq(X)
  OBVIOUS
<1>2. step \in [1..Len(list) -> [Seq(X) -> Seq(X)]]
  <2>1. \A m \in 1..Len(list), b \in Seq(X) : KeepRow(b, list[m], wanted) \in Seq(X)
    BY DEF KeepRow
  <2> QED
    BY <2>1
<1>3. \A m \in 1..Len(list), b \in Seq(X) : step[m][b] = KeepRow(b, list[m], wanted)
  OBVIOUS
<1> HIDE DEF step
<1>4. PICK h \in [0..Len(list) -> Seq(X)] :
        LoopStates(h, Len(list), <<>>, step)
  <2> DEFINE Lists == Seq(X)
             n == Len(list)
  <2>1. <<>> \in Lists /\ n \in Nat /\ step \in [1..n -> [Lists -> Lists]]
    BY <1>1, <1>2
  <2> HIDE DEF Lists, n
  <2>2. \E h \in [0..n -> Lists] : LoopStates(h, n, <<>>, step)
    BY <2>1, LoopRuns
  <2> QED
    BY <2>2 DEF Lists, n
<1>5. ASSUME NEW m \in 0..Len(list)
      PROVE  h[m] = Scan(h, m)
  <2>1. m # 0 => m \in 1..Len(list) /\ m - 1 \in 0..Len(list)
    BY <1>1
  <2> QED
    BY <2>1, <1>3, <1>4 DEF KeepRow, LoopStates
<1> DEFINE kept == CHOOSE g : g = [m \in 0..Len(list) |-> Scan(g, m)]
<1>6. h = [m \in 0..Len(list) |-> Scan(h, m)]
  <2> HIDE DEF Scan
  <2> QED
    BY <1>5
<1>7. kept = [m \in 0..Len(list) |-> Scan(kept, m)]
  <2> HIDE DEF Scan
  <2> QED
    BY <1>6
<1>8. Keep(list, wanted) = kept[Len(list)]
  BY DEF Keep
<1> HIDE DEF kept
<1>9. \A m \in 0..Len(list) : kept[m] = Scan(kept, m)
  <2> HIDE DEF Scan
  <2> QED
    BY <1>7
<1>10. kept[0] = <<>>
  BY <1>1, <1>9
<1>11. ASSUME NEW m \in 1..Len(list)
       PROVE  kept[m] = KeepRow(kept[m - 1], list[m], wanted)
  <2>1. m \in 0..Len(list) /\ m # 0
    BY <1>1
  <2> QED
    BY <2>1, <1>9 DEF KeepRow
<1> DEFINE S == {m \in 0..Len(list) : kept[m] \in Seq(X)}
<1>12. 0 \in S
  BY <1>1, <1>10
<1>13. ASSUME NEW m \in 0..Len(list), m < Len(list), m \in S
       PROVE  m + 1 \in S
  <2>1. m + 1 \in 1..Len(list) /\ m + 1 \in 0..Len(list) /\ (m + 1) - 1 = m
    BY <1>1, <1>13
  <2>2. kept[m + 1] = KeepRow(kept[m], list[m + 1], wanted)
    BY <2>1, <1>11
  <2>3. kept[m] \in Seq(X) /\ list[m + 1] \in X
    BY <1>13, <2>1
  <2>4. kept[m + 1] \in Seq(X)
    BY <2>2, <2>3 DEF KeepRow
  <2> QED
    BY <2>1, <2>4
<1>14. \A m \in 0..Len(list) : m \in S
  <2> HIDE DEF S
  <2> QED
    BY <1>1, <1>12, <1>13, CountingUp
<1>15. kept \in [0..Len(list) -> Seq(X)]
  <2>1. \A m \in 0..Len(list) : kept[m] \in Seq(X)
    BY <1>14
  <2>2. DOMAIN kept = 0..Len(list)
    <3> HIDE DEF Scan
    <3> QED
      BY <1>7
  <2>3. kept = [m \in 0..Len(list) |-> kept[m]]
    <3> HIDE DEF Scan
    <3> QED
    BY <1>7, <1>9
  <2> QED
    BY <2>1, <2>3
<1> QED
  BY <1>8, <1>10, <1>11, <1>15

(* Which rows a scan has kept after n of them: at holds their places.      *)
KeptRows(out, list, wanted, n) ==
  \E at \in [1..Len(out) -> 1..n] :
    /\ \A k \in 1..Len(out) : out[k] = list[at[k]] /\ list[at[k]] \in wanted
    /\ \A k, l \in 1..Len(out) : k < l => at[k] < at[l]
    /\ \A i \in 1..n : list[i] \in wanted => \E k \in 1..Len(out) : at[k] = i

(* It stays so from one row to the next... *)
LEMMA KeptRowsStep ==
  ASSUME NEW X, NEW list \in Seq(X), NEW wanted, NEW out \in Seq(X), NEW n \in 0..Len(list),
         n < Len(list), KeptRows(out, list, wanted, n)
  PROVE  KeptRows(KeepRow(out, list[n + 1], wanted), list, wanted, n + 1)
<1>0. PICK new : new = KeepRow(out, list[n + 1], wanted)
  OBVIOUS
<1>1. PICK at \in [1..Len(out) -> 1..n] :
        /\ \A k \in 1..Len(out) : out[k] = list[at[k]] /\ list[at[k]] \in wanted
        /\ \A k, l \in 1..Len(out) : k < l => at[k] < at[l]
        /\ \A i \in 1..n : list[i] \in wanted => \E k \in 1..Len(out) : at[k] = i
  BY DEF KeptRows
<1>2. Len(list) \in Nat /\ Len(out) \in Nat /\ list[n + 1] \in X
  OBVIOUS
<1>3. CASE list[n + 1] \notin wanted
  <2>1. new = out
    BY <1>0, <1>3 DEF KeepRow
  <2>2. at \in [1..Len(out) -> 1..(n + 1)]
    OBVIOUS
  <2>3. \A i \in 1..(n + 1) : list[i] \in wanted => \E k \in 1..Len(out) : at[k] = i
    BY <1>1, <1>3
  <2>4. KeptRows(out, list, wanted, n + 1)
    BY <1>1, <2>2, <2>3 DEF KeptRows
  <2> QED
    BY <1>0, <2>1, <2>4
<1>4. CASE list[n + 1] \in wanted
  <2>1. new = Append(out, list[n + 1])
    BY <1>0, <1>4 DEF KeepRow
  <2>2. /\ Len(new) = Len(out) + 1 /\ new[Len(out) + 1] = list[n + 1]
        /\ \A k \in 1..Len(out) : new[k] = out[k]
    BY <1>2, <2>1
  <2> DEFINE to == [k \in 1..Len(new) |-> IF k = Len(new) THEN n + 1 ELSE at[k]]
  <2>3. to \in [1..Len(new) -> 1..(n + 1)]
    BY <1>2, <2>2
  <2>4. ASSUME NEW k \in 1..Len(out)
        PROVE  k \in 1..Len(new) /\ to[k] = at[k] /\ at[k] \in 1..n
    <3>1. k \in 1..Len(new) /\ k # Len(new)
      BY <1>2, <2>2
    <3> QED
      BY <3>1
  <2>5. Len(new) \in 1..Len(new) /\ to[Len(new)] = n + 1
    BY <1>2, <2>2
  <2>6. \A k \in 1..Len(new) : k # Len(new) => k \in 1..Len(out)
    BY <1>2, <2>2
  <2> HIDE DEF to
  <2>7. \A k \in 1..Len(new) : new[k] = list[to[k]] /\ list[to[k]] \in wanted
    BY <1>1, <1>4, <2>2, <2>4, <2>5, <2>6
  <2>8. \A k, l \in 1..Len(new) : k < l => to[k] < to[l]
    <3> SUFFICES ASSUME NEW k \in 1..Len(new), NEW l \in 1..Len(new), k < l
                 PROVE  to[k] < to[l]
      OBVIOUS
    <3>1. k \in 1..Len(out)
      BY <1>2, <2>2, <2>6
    <3> QED
      BY <1>1, <2>4, <2>5, <2>6, <3>1
  <2>9. \A i \in 1..(n + 1) : list[i] \in wanted => \E k \in 1..Len(new) : to[k] = i
    <3> SUFFICES ASSUME NEW i \in 1..(n + 1), list[i] \in wanted
                 PROVE  \E k \in 1..Len(new) : to[k] = i
      OBVIOUS
    <3>1. CASE i = n + 1
      BY <2>5, <3>1
    <3>2. CASE i \in 1..n
      BY <1>1, <2>4, <3>2
    <3> QED
      BY <3>1, <3>2
  <2>10. KeptRows(new, list, wanted, n + 1)
    BY <2>3, <2>7, <2>8, <2>9 DEF KeptRows
  <2> QED
    BY <1>0, <2>10
<1> QED
  BY <1>3, <1>4

(* ...and to the last. *)
LEMMA KeepKeeps ==
  ASSUME NEW X, NEW list \in Seq(X), NEW wanted
  PROVE  Keep(list, wanted) \in Seq(X) /\ KeptRows(Keep(list, wanted), list, wanted, Len(list))
<1>1. PICK kept \in [0..Len(list) -> Seq(X)] :
        /\ kept[0] = <<>>
        /\ \A n \in 1..Len(list) : kept[n] = KeepRow(kept[n - 1], list[n], wanted)
        /\ Keep(list, wanted) = kept[Len(list)]
  BY KeepScans
<1> DEFINE S == {n \in 0..Len(list) : KeptRows(kept[n], list, wanted, n)}
<1>2. Len(list) \in Nat
  OBVIOUS
<1>3. 0 \in S
  <2>1. KeptRows(<<>>, list, wanted, 0)
    <3>1. Len(<<>>) = 0
      OBVIOUS
    <3> DEFINE none == [k \in 1..0 |-> 0]
    <3>2. none \in [1..0 -> 1..0]
      OBVIOUS
    <3> HIDE DEF none
    <3> QED
      BY <3>1, <3>2 DEF KeptRows
  <2> QED
    BY <1>1, <1>2, <2>1
<1>4. ASSUME NEW n \in 0..Len(list), n < Len(list), n \in S
      PROVE  n + 1 \in S
  <2>1. n + 1 \in 1..Len(list) /\ n + 1 \in 0..Len(list) /\ (n + 1) - 1 = n
    BY <1>2, <1>4
  <2>2. kept[n + 1] = KeepRow(kept[n], list[n + 1], wanted)
    BY <1>1, <2>1
  <2>3. kept[n] \in Seq(X) /\ KeptRows(kept[n], list, wanted, n)
    BY <1>4
  <2>4. KeptRows(kept[n + 1], list, wanted, n + 1)
    BY <1>4, <2>2, <2>3, KeptRowsStep
  <2> QED
    BY <2>1, <2>4
<1>5. \A n \in 0..Len(list) : n \in S
  <2> HIDE DEF S
  <2> QED
    BY <1>2, <1>3, <1>4, CountingUp
<1> QED
  BY <1>1, <1>2, <1>5
-----------------------------------------------------------------------------
Distinct(list) == \A i, j \in 1..Len(list) : i # j => list[i] # list[j]

(* A scan of a list without repetitions makes one. *)
LEMMA KeepDistinct ==
  ASSUME NEW X, NEW list \in Seq(X), NEW wanted, Distinct(list)
  PROVE  Keep(list, wanted) \in Seq(X) /\ Distinct(Keep(list, wanted))
<1> DEFINE out == Keep(list, wanted)
<1>1. out \in Seq(X) /\ KeptRows(out, list, wanted, Len(list))
  BY KeepKeeps
<1> HIDE DEF out
<1>2. PICK at \in [1..Len(out) -> 1..Len(list)] :
        /\ \A k \in 1..Len(out) : out[k] = list[at[k]]
        /\ \A k, l \in 1..Len(out) : k < l => at[k] < at[l]
  BY <1>1 DEF KeptRows
<1>3. Distinct(out)
  <2> SUFFICES ASSUME NEW k \in 1..Len(out), NEW l \in 1..Len(out), k # l
               PROVE  out[k] # out[l]
    BY DEF Distinct
  <2>1. Len(out) \in Nat /\ Len(list) \in Nat
    BY <1>1
  <2>2. k < l \/ l < k
    BY <2>1
  <2>3. at[k] \in 1..Len(list) /\ at[l] \in 1..Len(list) /\ at[k] # at[l]
    BY <1>2, <2>1, <2>2
  <2> QED
    BY <1>2, <2>3 DEF Distinct
<1> QED
  BY <1>1, <1>3 DEF out

(* Without takes a feed off a list. *)
LEMMA WithoutRemoves ==
  ASSUME NEW list \in Seq(Feeds), NEW f, Distinct(list)
  PROVE  /\ Without(list, f) \in Seq(Feeds) /\ Distinct(Without(list, f))
         /\ f \notin ToSet(Without(list, f))
<1> DEFINE wanted == ToSet(list) \ {f}
           out == Keep(list, wanted)
<1>1. out \in Seq(Feeds) /\ Distinct(out)
  BY KeepDistinct
<1>2. KeptRows(out, list, wanted, Len(list))
  BY KeepKeeps
<1>3. \A k \in 1..Len(out) : out[k] # f
  <2> HIDE DEF out
  <2> QED
    BY <1>2 DEF KeptRows
<1> HIDE DEF out
<1>4. f \notin ToSet(out)
  BY <1>1, <1>3 DEF ToSet
<1> QED
  BY <1>1, <1>4 DEF Without, out
-----------------------------------------------------------------------------
(* A feed that is put back, anywhere, is on the list once. *)
LEMMA InsertDistinct ==
  ASSUME NEW list \in Seq(Feeds), Distinct(list), NEW f \in Feeds, f \notin ToSet(list),
         NEW i \in 1..(Len(list) + 1)
  PROVE  InsertAt(list, i, f) \in Seq(Feeds) /\ Distinct(InsertAt(list, i, f))
<1> DEFINE old(k) == IF k < i THEN k ELSE k - 1
<1>1. PICK a : a = SubSeq(list, 1, i - 1)
  OBVIOUS
<1>2. PICK b : b = SubSeq(list, i, Len(list))
  OBVIOUS
<1>3. PICK new : new = (a \o <<f>>) \o b
  OBVIOUS
<1>4. Len(list) \in Nat
  OBVIOUS
<1>5. a \in Seq(Feeds) /\ Len(a) = i - 1 /\ \A k \in 1..(i - 1) : a[k] = list[k]
  BY <1>1, <1>4
<1>6. /\ b \in Seq(Feeds) /\ Len(b) = (Len(list) + 1) - i
      /\ \A k \in 1..((Len(list) + 1) - i) : b[k] = list[(i + k) - 1]
  BY <1>2, <1>4
<1>7. /\ new \in Seq(Feeds) /\ Len(new) = Len(list) + 1
      /\ \A k \in 1..Len(new) : new[k] = IF k < i THEN a[k] ELSE IF k = i THEN f ELSE b[k - i]
  <2>1. PICK c : c = a \o <<f>>
    OBVIOUS
  <2>2. /\ c \in Seq(Feeds) /\ Len(c) = i
        /\ \A k \in 1..i : c[k] = IF k < i THEN a[k] ELSE f
    BY <2>1, <1>4, <1>5
  <2>3. new = c \o b
    BY <1>3, <2>1
  <2>4. new \in Seq(Feeds) /\ Len(new) = i + Len(b)
    <3>1. c \in Seq(Feeds) /\ b \in Seq(Feeds) /\ Len(c) = i
      BY <2>2, <1>6
    <3>2. c \o b \in Seq(Feeds) /\ Len(c \o b) = Len(c) + Len(b)
      BY <3>1
    <3> QED
      BY <2>3, <3>1, <3>2
  <2>5. Len(new) = Len(list) + 1
    BY <2>4, <1>4, <1>6
  <2>6. \A k \in 1..Len(new) : new[k] = IF k <= i THEN c[k] ELSE b[k - i]
    BY <2>2, <2>3, <2>5, <1>4, <1>6
  <2>7. ASSUME NEW k \in 1..Len(new)
        PROVE  new[k] = IF k < i THEN a[k] ELSE IF k = i THEN f ELSE b[k - i]
    BY <2>2, <2>6, <1>4
  <2> QED
    BY <2>4, <2>5, <2>7
<1>8. \A k \in 1..Len(new) : k # i => old(k) \in 1..Len(list) /\ new[k] = list[old(k)]
  <2> SUFFICES ASSUME NEW k \in 1..Len(new), k # i
               PROVE  old(k) \in 1..Len(list) /\ new[k] = list[old(k)]
    OBVIOUS
  <2>1. CASE k < i
    BY <1>4, <1>5, <1>7, <2>1
  <2>2. CASE k > i
    <3>1. k - i \in 1..((Len(list) + 1) - i) /\ (i + (k - i)) - 1 = k - 1 /\ k - 1 \in 1..Len(list)
      BY <1>4, <1>7, <2>2
    <3>2. ~(k < i)
      BY <2>2, <1>4
    <3> QED
      BY <1>6, <1>7, <2>2, <3>1, <3>2
  <2> QED
    BY <1>4, <1>7, <2>1, <2>2
<1>9. \A k \in 1..Len(list) : list[k] # f
  BY DEF ToSet
<1>10. ASSUME NEW k \in 1..Len(new), NEW l \in 1..Len(new), k # l
       PROVE  new[k] # new[l]
  <2>1. CASE k = i
    BY <1>7, <1>8, <1>9, <1>10, <2>1
  <2>2. CASE l = i
    BY <1>7, <1>8, <1>9, <1>10, <2>2
  <2>3. CASE k # i /\ l # i
    <3>1. old(k) # old(l)
      BY <1>4, <1>7, <1>10, <2>3
    <3> QED
      BY <1>8, <2>3, <3>1 DEF Distinct
  <2> QED
    BY <2>1, <2>2, <2>3
<1>11. new \in Seq(Feeds) /\ Distinct(new)
  BY <1>7, <1>10 DEF Distinct
<1>12. InsertAt(list, i, f) = new
  BY <1>1, <1>2, <1>3 DEF InsertAt
<1> QED
  BY <1>11, <1>12

(* due after a next check is written again. *)
LEMMA PlacementsAreDistinct ==
  ASSUME due \in Seq(Feeds), Distinct(due), NEW f \in Feeds, NEW list \in Placements(f)
  PROVE  list \in Seq(Feeds) /\ Distinct(list)
<1> DEFINE rest == Without(due, f)
<1>1. rest \in Seq(Feeds) /\ Distinct(rest) /\ f \notin ToSet(rest)
  BY WithoutRemoves
<1>2. list = rest \/ \E i \in 1..(Len(rest) + 1) : list = InsertAt(rest, i, f)
  BY DEF Placements
<1> HIDE DEF rest
<1> QED
  BY <1>1, <1>2, InsertDistinct
-----------------------------------------------------------------------------
JoinRow(before, row) == IF MayJoin(before, row) THEN Append(before, row) ELSE before

(* PerHost is such a loop too. *)
LEMMA PerHostScans ==
  ASSUME NEW list \in Seq(Feeds)
  PROVE  \E built \in [0..Len(list) -> Seq(Feeds)] :
           /\ built[0] = <<>>
           /\ \A n \in 1..Len(list) : built[n] = JoinRow(built[n - 1], list[n])
           /\ PerHost(list) = built[Len(list)]
<1> DEFINE step == [m \in 1..Len(list) |-> [b \in Seq(Feeds) |-> JoinRow(b, list[m])]]
           Scan(h, m) == IF m = 0 THEN <<>>
                         ELSE IF MayJoin(h[m - 1], list[m]) THEN Append(h[m - 1], list[m]) ELSE h[m - 1]
<1>1. Len(list) \in Nat /\ <<>> \in Seq(Feeds)
  OBVIOUS
<1>2. step \in [1..Len(list) -> [Seq(Feeds) -> Seq(Feeds)]]
  <2>1. \A m \in 1..Len(list), b \in Seq(Feeds) : JoinRow(b, list[m]) \in Seq(Feeds)
    BY DEF JoinRow
  <2> QED
    BY <2>1
<1>3. \A m \in 1..Len(list), b \in Seq(Feeds) : step[m][b] = JoinRow(b, list[m])
  OBVIOUS
<1> HIDE DEF step
<1>4. PICK h \in [0..Len(list) -> Seq(Feeds)] :
        LoopStates(h, Len(list), <<>>, step)
  <2> DEFINE Lists == Seq(Feeds)
             n == Len(list)
  <2>1. <<>> \in Lists /\ n \in Nat /\ step \in [1..n -> [Lists -> Lists]]
    BY <1>1, <1>2
  <2> HIDE DEF Lists, n
  <2>2. \E h \in [0..n -> Lists] : LoopStates(h, n, <<>>, step)
    BY <2>1, LoopRuns
  <2> QED
    BY <2>2 DEF Lists, n
<1>5. ASSUME NEW m \in 0..Len(list)
      PROVE  h[m] = Scan(h, m)
  <2>1. m # 0 => m \in 1..Len(list) /\ m - 1 \in 0..Len(list)
    BY <1>1
  <2>2. CASE m = 0
    BY <2>2, <1>4 DEF LoopStates
  <2>3. CASE m # 0
    <3>1. h[m] = step[m][h[m - 1]] /\ h[m - 1] \in Seq(Feeds)
      BY <2>1, <2>3, <1>4 DEF LoopStates
    <3>2. h[m] = JoinRow(h[m - 1], list[m])
      BY <2>1, <2>3, <1>3, <3>1
    <3> QED
      BY <2>3, <3>2 DEF JoinRow
  <2> QED
    BY <2>2, <2>3
<1> DEFINE built == CHOOSE g : g = [m \in 0..Len(list) |-> Scan(g, m)]
<1>6. h = [m \in 0..Len(list) |-> Scan(h, m)]
  <2> HIDE DEF Scan
  <2> QED
    BY <1>5
<1>7. built = [m \in 0..Len(list) |-> Scan(built, m)]
  <2> HIDE DEF Scan
  <2> QED
    BY <1>6
<1>8. PerHost(list) = built[Len(list)]
  BY DEF PerHost
<1> HIDE DEF built
<1>9. \A m \in 0..Len(list) : built[m] = Scan(built, m)
  <2> HIDE DEF Scan
  <2> QED
    BY <1>7
<1>10. built[0] = <<>>
  BY <1>1, <1>9
<1>11. ASSUME NEW m \in 1..Len(list)
       PROVE  built[m] = JoinRow(built[m - 1], list[m])
  <2>1. m \in 0..Len(list) /\ m # 0
    BY <1>1
  <2> QED
    BY <2>1, <1>9 DEF JoinRow
<1> DEFINE S == {m \in 0..Len(list) : built[m] \in Seq(Feeds)}
<1>12. 0 \in S
  BY <1>1, <1>10
<1>13. ASSUME NEW m \in 0..Len(list), m < Len(list), m \in S
       PROVE  m + 1 \in S
  <2>1. m + 1 \in 1..Len(list) /\ m + 1 \in 0..Len(list) /\ (m + 1) - 1 = m
    BY <1>1, <1>13
  <2>2. built[m + 1] = JoinRow(built[m], list[m + 1])
    BY <2>1, <1>11
  <2>3. built[m] \in Seq(Feeds) /\ list[m + 1] \in Feeds
    BY <1>13, <2>1
  <2>4. built[m + 1] \in Seq(Feeds)
    BY <2>2, <2>3 DEF JoinRow
  <2> QED
    BY <2>1, <2>4
<1>14. \A m \in 0..Len(list) : m \in S
  <2> HIDE DEF S
  <2> QED
    BY <1>1, <1>12, <1>13, CountingUp
<1>15. built \in [0..Len(list) -> Seq(Feeds)]
  <2>1. \A m \in 0..Len(list) : built[m] \in Seq(Feeds)
    BY <1>14
  <2>2. built = [m \in 0..Len(list) |-> built[m]]
    <3> HIDE DEF Scan
    <3> QED
    BY <1>7, <1>9
  <2> QED
    BY <2>1, <2>2
<1> QED
  BY <1>8, <1>10, <1>11, <1>15
-----------------------------------------------------------------------------
(* The batch after n rows: each row it has is one of them, no host is over *)
(* its limit, and a row that was left out found its host's limit used up   *)
(* by rows before it.                                                      *)
EarlierOfHost(jobs, list, i) ==
  {k \in DOMAIN jobs : HostOf[jobs[k]] = HostOf[list[i]] /\ \E j \in 1..(i - 1) : list[j] = jobs[k]}

FairSoFar(jobs, list, n) ==
  /\ jobs \in Seq(Feeds) /\ Distinct(jobs)
  /\ \A k \in 1..Len(jobs) : \E i \in 1..n : jobs[k] = list[i]
  /\ LimitPerHost > 0 => \A f \in Feeds : OfHost(jobs, HostOf[f]) <= LimitPerHost
  /\ \A i \in 1..n :
       \/ \E k \in 1..Len(jobs) : jobs[k] = list[i]
       \/ LimitPerHost > 0 /\ Cardinality(EarlierOfHost(jobs, list, i)) >= LimitPerHost

(* Places of a list that are feeds of one host. *)
LEMMA PlacesAreFinite ==
  ASSUME NEW jobs \in Seq(Feeds), NEW K \in SUBSET (DOMAIN jobs)
  PROVE  IsFiniteSet(K) /\ Cardinality(K) \in Nat
<1>1. DOMAIN jobs = 1..Len(jobs) /\ Len(jobs) \in Nat
  OBVIOUS
<1>2. IsFiniteSet(DOMAIN jobs)
  BY <1>1, FS_Interval
<1> QED
  BY <1>2, FS_Subset, FS_CardinalityType

(* A row that may join leaves no host over its limit. *)
LEMMA JoinKeepsHosts ==
  ASSUME NEW jobs \in Seq(Feeds), NEW row \in Feeds, MayJoin(jobs, row), LimitPerHost > 0,
         \A f \in Feeds : OfHost(jobs, HostOf[f]) <= LimitPerHost, NEW g \in Feeds
  PROVE  OfHost(Append(jobs, row), HostOf[g]) <= LimitPerHost
<1>1. PICK new : new = Append(jobs, row)
  OBVIOUS
<1>2. /\ DOMAIN new = DOMAIN jobs \cup {Len(jobs) + 1} /\ Len(jobs) + 1 \notin DOMAIN jobs
      /\ new[Len(jobs) + 1] = row /\ \A k \in DOMAIN jobs : new[k] = jobs[k]
  BY <1>1
<1> DEFINE K == {k \in DOMAIN jobs : HostOf[jobs[k]] = HostOf[g]}
           L == {k \in DOMAIN new : HostOf[new[k]] = HostOf[g]}
<1>3. IsFiniteSet(K) /\ Cardinality(K) \in Nat
  BY PlacesAreFinite
<1>4. OfHost(jobs, HostOf[g]) = Cardinality(K) /\ OfHost(new, HostOf[g]) = Cardinality(L)
  BY DEF OfHost
<1>5. CASE HostOf[g] # HostOf[row]
  <2>1. L = K
    BY <1>2, <1>5
  <2> QED
    BY <1>1, <1>4, <2>1
<1>6. CASE HostOf[g] = HostOf[row]
  <2>1. L = K \cup {Len(jobs) + 1} /\ Len(jobs) + 1 \notin K
    BY <1>2, <1>6
  <2> HIDE DEF K, L
  <2>2. Cardinality(L) = Cardinality(K) + 1
    BY <1>3, <2>1, FS_AddElement
  <2>3. Cardinality(K) < LimitPerHost
    BY <1>4, <1>6, PollingAssumption DEF MayJoin
  <2> QED
    BY <1>1, <1>3, <1>4, <2>2, <2>3, PollingAssumption
<1> QED
  BY <1>5, <1>6

(* One more row: of a host at its limit... *)
LEMMA SkippedRowIsFair ==
  ASSUME NEW list \in Seq(Feeds), NEW n \in 0..Len(list), n < Len(list), NEW jobs,
         FairSoFar(jobs, list, n), ~MayJoin(jobs, list[n + 1])
  PROVE  FairSoFar(jobs, list, n + 1)
<1>1. /\ jobs \in Seq(Feeds) /\ Distinct(jobs)
      /\ \A k \in 1..Len(jobs) : \E i \in 1..n : jobs[k] = list[i]
      /\ LimitPerHost > 0 => \A f \in Feeds : OfHost(jobs, HostOf[f]) <= LimitPerHost
      /\ \A i \in 1..n :
           \/ \E k \in 1..Len(jobs) : jobs[k] = list[i]
           \/ LimitPerHost > 0 /\ Cardinality(EarlierOfHost(jobs, list, i)) >= LimitPerHost
  BY DEF FairSoFar
<1>2. n + 1 \in 1..Len(list) /\ (n + 1) - 1 = n /\ \A i \in 1..(n + 1) : i = n + 1 \/ i \in 1..n
  OBVIOUS
<1> DEFINE K == {k \in DOMAIN jobs : HostOf[jobs[k]] = HostOf[list[n + 1]]}
<1>3. IsFiniteSet(K) /\ Cardinality(K) \in Nat
  BY <1>1, PlacesAreFinite
<1>4. LimitPerHost > 0 /\ Cardinality(K) >= LimitPerHost
  BY <1>3, PollingAssumption DEF MayJoin, OfHost
<1>5. EarlierOfHost(jobs, list, n + 1) = K
  <2>1. DOMAIN jobs = 1..Len(jobs)
    BY <1>1
  <2>2. \A k \in DOMAIN jobs : \E j \in 1..n : list[j] = jobs[k]
    BY <1>1, <2>1
  <2>3. \A k \in DOMAIN jobs : \E j \in 1..((n + 1) - 1) : list[j] = jobs[k]
    BY <1>2, <2>2
  <2> QED
    BY <2>3 DEF EarlierOfHost
<1>6. \A k \in 1..Len(jobs) : \E i \in 1..(n + 1) : jobs[k] = list[i]
  <2>1. \A i \in 1..n : i \in 1..(n + 1)
    OBVIOUS
  <2> QED
    BY <1>1, <2>1
<1>7. \A i \in 1..(n + 1) :
           \/ \E k \in 1..Len(jobs) : jobs[k] = list[i]
           \/ LimitPerHost > 0 /\ Cardinality(EarlierOfHost(jobs, list, i)) >= LimitPerHost
  <2> HIDE DEF K
  <2> QED
    BY <1>1, <1>2, <1>4, <1>5
<1> QED
  BY <1>1, <1>6, <1>7 DEF FairSoFar

(* ...or of one below it. *)
LEMMA JoinedRowIsFair ==
  ASSUME NEW list \in Seq(Feeds), Distinct(list), NEW n \in 0..Len(list), n < Len(list), NEW jobs,
         FairSoFar(jobs, list, n), MayJoin(jobs, list[n + 1])
  PROVE  FairSoFar(Append(jobs, list[n + 1]), list, n + 1)
<1>1. /\ jobs \in Seq(Feeds) /\ Distinct(jobs)
      /\ \A k \in 1..Len(jobs) : \E i \in 1..n : jobs[k] = list[i]
      /\ LimitPerHost > 0 => \A f \in Feeds : OfHost(jobs, HostOf[f]) <= LimitPerHost
      /\ \A i \in 1..n :
           \/ \E k \in 1..Len(jobs) : jobs[k] = list[i]
           \/ LimitPerHost > 0 /\ Cardinality(EarlierOfHost(jobs, list, i)) >= LimitPerHost
  BY DEF FairSoFar
<1>2. n + 1 \in 1..Len(list) /\ \A i \in 1..(n + 1) : i = n + 1 \/ i \in 1..n
  OBVIOUS
<1>3. PICK row \in Feeds : row = list[n + 1]
  BY <1>2
<1>4. PICK new : new = Append(jobs, row)
  OBVIOUS
<1>5. /\ new \in Seq(Feeds) /\ Len(new) = Len(jobs) + 1 /\ new[Len(jobs) + 1] = row
      /\ \A k \in 1..Len(jobs) : k \in 1..Len(new) /\ new[k] = jobs[k]
      /\ \A k \in 1..Len(new) : k = Len(jobs) + 1 \/ k \in 1..Len(jobs)
      /\ Len(jobs) \in Nat
  BY <1>1, <1>4
<1>6. \A k \in 1..Len(jobs) : jobs[k] # row
  <2> SUFFICES ASSUME NEW k \in 1..Len(jobs)
               PROVE  jobs[k] # row
    OBVIOUS
  <2>1. PICK i \in 1..n : jobs[k] = list[i]
    BY <1>1
  <2>2. i \in 1..Len(list) /\ i # n + 1
    OBVIOUS
  <2> QED
    BY <1>2, <1>3, <2>1, <2>2 DEF Distinct
<1>7. Distinct(new)
  <2> SUFFICES ASSUME NEW k \in 1..Len(new), NEW l \in 1..Len(new), k # l
               PROVE  new[k] # new[l]
    BY DEF Distinct
  <2>1. CASE k \in 1..Len(jobs) /\ l \in 1..Len(jobs)
    BY <1>1, <1>5, <2>1 DEF Distinct
  <2> QED
    BY <1>5, <1>6, <2>1
<1>8. \A k \in 1..Len(new) : \E i \in 1..(n + 1) : new[k] = list[i]
  <2> SUFFICES ASSUME NEW k \in 1..Len(new)
               PROVE  \E i \in 1..(n + 1) : new[k] = list[i]
    OBVIOUS
  <2>1. CASE k = Len(jobs) + 1
    <3>1. n + 1 \in 1..(n + 1)
      OBVIOUS
    <3> QED
      BY <1>3, <1>5, <2>1, <3>1
  <2>2. CASE k \in 1..Len(jobs)
    <3>1. PICK i \in 1..n : jobs[k] = list[i]
      BY <1>1, <2>2
    <3>2. i \in 1..(n + 1)
      OBVIOUS
    <3> QED
      BY <1>5, <2>2, <3>1, <3>2
  <2> QED
    BY <1>5, <2>1, <2>2
<1>9. LimitPerHost > 0 => \A f \in Feeds : OfHost(new, HostOf[f]) <= LimitPerHost
  BY <1>1, <1>3, <1>4, JoinKeepsHosts
<1>10. ASSUME NEW i \in 1..(n + 1)
       PROVE  \/ \E k \in 1..Len(new) : new[k] = list[i]
              \/ LimitPerHost > 0 /\ Cardinality(EarlierOfHost(new, list, i)) >= LimitPerHost
  <2>1. CASE i = n + 1
    <3>1. Len(jobs) + 1 \in 1..Len(new)
      BY <1>5
    <3> QED
      BY <1>3, <1>5, <2>1, <3>1
  <2>2. CASE i \in 1..n /\ \E k \in 1..Len(jobs) : jobs[k] = list[i]
    BY <1>5, <2>2
  <2>3. CASE i \in 1..n /\ LimitPerHost > 0 /\ Cardinality(EarlierOfHost(jobs, list, i)) >= LimitPerHost
    <3> DEFINE K == EarlierOfHost(jobs, list, i)
               L == EarlierOfHost(new, list, i)
    <3>1. DOMAIN jobs = 1..Len(jobs) /\ DOMAIN new = 1..Len(new)
      BY <1>1, <1>5
    <3>2. K \in SUBSET L
      BY <1>5, <3>1 DEF EarlierOfHost
    <3>3. L \in SUBSET (DOMAIN new) /\ K \in SUBSET (DOMAIN jobs)
      BY DEF EarlierOfHost
    <3> HIDE DEF K, L
    <3>4. IsFiniteSet(L) /\ Cardinality(L) \in Nat /\ Cardinality(K) \in Nat
      BY <1>1, <1>5, <3>3, PlacesAreFinite
    <3>5. Cardinality(K) <= Cardinality(L)
      BY <3>2, <3>4, FS_Subset
    <3>6. Cardinality(K) >= LimitPerHost /\ LimitPerHost \in Nat
      BY <2>3, PollingAssumption DEF K
    <3>7. Cardinality(L) >= LimitPerHost
      BY <3>4, <3>5, <3>6
    <3> QED
      BY <2>3, <3>7 DEF L
  <2> QED
    BY <1>1, <1>2, <2>1, <2>2, <2>3
<1>11. FairSoFar(new, list, n + 1)
  BY <1>5, <1>7, <1>8, <1>9, <1>10 DEF FairSoFar
<1> QED
  BY <1>3, <1>4, <1>11

LEMMA PerHostIsFair ==
  ASSUME NEW list \in Seq(Feeds), Distinct(list)
  PROVE  FairSoFar(PerHost(list), list, Len(list))
<1>1. PICK built \in [0..Len(list) -> Seq(Feeds)] :
        /\ built[0] = <<>>
        /\ \A n \in 1..Len(list) : built[n] = JoinRow(built[n - 1], list[n])
        /\ PerHost(list) = built[Len(list)]
  BY PerHostScans
<1> DEFINE S == {n \in 0..Len(list) : FairSoFar(built[n], list, n)}
<1>2. Len(list) \in Nat
  OBVIOUS
<1>3. 0 \in S
  <2>1. FairSoFar(<<>>, list, 0)
    <3>1. <<>> \in Seq(Feeds) /\ Len(<<>>) = 0 /\ DOMAIN <<>> = {}
      OBVIOUS
    <3>2. \A h : OfHost(<<>>, h) = 0
      BY FS_EmptySet DEF OfHost
    <3> QED
      BY <3>1, <3>2, PollingAssumption DEF FairSoFar, Distinct
  <2> QED
    BY <1>1, <1>2, <2>1
<1>4. ASSUME NEW n \in 0..Len(list), n < Len(list), n \in S
      PROVE  n + 1 \in S
  <2>1. n + 1 \in 1..Len(list) /\ n + 1 \in 0..Len(list) /\ (n + 1) - 1 = n
    BY <1>2, <1>4
  <2>2. built[n + 1] = JoinRow(built[n], list[n + 1])
    BY <1>1, <2>1
  <2>3. FairSoFar(built[n], list, n)
    BY <1>4
  <2>4. FairSoFar(built[n + 1], list, n + 1)
    BY <1>4, <2>2, <2>3, SkippedRowIsFair, JoinedRowIsFair DEF JoinRow
  <2> QED
    BY <2>1, <2>4
<1>5. \A n \in 0..Len(list) : n \in S
  <2> HIDE DEF S
  <2> QED
    BY <1>2, <1>3, <1>4, CountingUp
<1> QED
  BY <1>1, <1>2, <1>5
-----------------------------------------------------------------------------
(* The types, with what they rest on: a feed is due once, and a worker     *)
(* that refreshes has been given a job.                                    *)
PollingTypes ==
  /\ PollingTypeOK
  /\ Distinct(due)
  /\ \A w \in Workers : wpc[w] = "refreshing" => task[w] # NoFeed

(* The rows that a batch is made of. *)
LEMMA RowsAreDistinct ==
  ASSUME PollingTypes
  PROVE  /\ due \in Seq(Feeds) /\ Distinct(due)
         /\ ExpiredFeeds \in Seq(Feeds) /\ Distinct(ExpiredFeeds)
         /\ Limited(ExpiredFeeds) \in Seq(Feeds) /\ Distinct(Limited(ExpiredFeeds))
<1>1. due \in Seq(Feeds) /\ Distinct(due)
  BY DEF PollingTypes, PollingTypeOK
<1>2. PICK E : E = ExpiredFeeds
  OBVIOUS
<1>3. E \in Seq(Feeds) /\ Distinct(E)
  BY <1>1, <1>2, KeepDistinct DEF ExpiredFeeds, OldestFirst
<1>4. PICK m : m = IF Len(E) < BatchSize THEN Len(E) ELSE BatchSize
  OBVIOUS
<1>5. m \in 0..Len(E)
  BY <1>3, <1>4, PollingAssumption
<1>6. PICK L : L = SubSeq(E, 1, m)
  OBVIOUS
<1>7. L \in Seq(Feeds) /\ Len(L) = m /\ \A k \in 1..m : L[k] = E[k]
  BY <1>3, <1>5, <1>6
<1>8. Distinct(L)
  BY <1>3, <1>5, <1>7 DEF Distinct
<1>9. Limited(ExpiredFeeds) = L
  BY <1>2, <1>4, <1>6 DEF Limited
<1> QED
  BY <1>1, <1>2, <1>3, <1>7, <1>8, <1>9

LEMMA PerHostType ==
  ASSUME NEW list \in Seq(Feeds)
  PROVE  PerHost(list) \in Seq(Feeds)
<1>1. Len(list) \in 0..Len(list)
  OBVIOUS
<1> QED
  BY <1>1, PerHostScans

LEMMA TypesInit == PollingInit => PollingTypes
<1> SUFFICES ASSUME PollingInit
             PROVE  PollingTypes
  OBVIOUS
<1>1. /\ <<>> \in Seq(Feeds) /\ Len(<<>>) = 0
      /\ NotRefreshing \in [feed : Feeds \cup {NoFeed}, errors : 0..MaxErrors, disabled : BOOLEAN]
      /\ NotEditing \in [feed : Feeds \cup {NoFeed}, disabled : BOOLEAN, stale : BOOLEAN]
  BY PollingAssumption DEF NotRefreshing, NotEditing
<1>2. PoolTypeOK /\ \A w \in Workers : wpc[w] = "receiving"
  BY <1>1 DEF PollingInit, PoolInit, PoolTypeOK
<1>3. Distinct(due) /\ due \in Seq(Feeds)
  BY <1>1 DEF PollingInit, Distinct
<1>4. refreshing \in [Runners -> [feed : Feeds \cup {NoFeed}, errors : 0..MaxErrors, disabled : BOOLEAN]]
  BY <1>1 DEF PollingInit
<1>5. editing \in [Editors -> [feed : Feeds \cup {NoFeed}, disabled : BOOLEAN, stale : BOOLEAN]]
  BY <1>1 DEF PollingInit
<1>6. errors \in [Feeds -> 0..MaxErrors] /\ disabled \subseteq Feeds /\ off \subseteq Feeds /\ raced \subseteq Feeds
  BY PollingAssumption DEF PollingInit
<1>7. requests \in 0..MaxRequests
  BY PollingAssumption DEF PollingInit
<1> QED
  BY <1>2, <1>3, <1>4, <1>5, <1>6, <1>7 DEF PollingTypes, PollingTypeOK

(* The pool's variables: a worker that refreshes has a job. *)
PoolJobs == PoolTypeOK /\ \A w \in Workers : wpc[w] = "refreshing" => task[w] # NoFeed

LEMMA PushTypes ==
  ASSUME PoolJobs, NEW p \in Pushers, NEW jobs \in Seq(Feeds), Push(p, jobs)
  PROVE  PoolJobs'
BY DEF PoolJobs, PoolTypeOK, Push

LEMMA PoolStepTypes ==
  ASSUME PoolJobs, PoolStep
  PROVE  PoolJobs'
<1>1. ASSUME NEW p \in Pushers, NEW w \in Workers, HandOver(p, w)
      PROVE  PoolJobs'
  <2>1. pushing[p] \in Seq(Feeds) /\ pushing[p] # <<>>
    BY <1>1 DEF HandOver, PoolJobs, PoolTypeOK
  <2>2. Head(pushing[p]) \in Feeds /\ Tail(pushing[p]) \in Seq(Feeds)
    BY <2>1
  <2>3. PoolTypeOK'
    BY <1>1, <2>2 DEF HandOver, PoolJobs, PoolTypeOK
  <2>4. task' = [task EXCEPT ![w] = Head(pushing[p])] /\ wpc' = [wpc EXCEPT ![w] = "refreshing"]
    BY <1>1 DEF HandOver
  <2>5. Head(pushing[p]) # NoFeed
    BY <2>2, PoolAssumption
  <2>6. \A v \in Workers : wpc'[v] = "refreshing" => task'[v] # NoFeed
    BY <2>4, <2>5 DEF PoolJobs, PoolTypeOK
  <2> QED
    BY <2>3, <2>6 DEF PoolJobs
<1>2. ASSUME NEW p \in Pushers, Discard(p)
      PROVE  PoolJobs'
  <2>1. <<>> \in Seq(Feeds)
    OBVIOUS
  <2> QED
    BY <1>2, <2>1 DEF Discard, Discards, PoolJobs, PoolTypeOK
<1>3. ASSUME NEW w \in Workers, Leave(w)
      PROVE  PoolJobs'
  BY <1>3 DEF Leave, PoolJobs, PoolTypeOK
<1>4. CASE Close \/ ShutdownReturns
  BY <1>4 DEF Close, ShutdownReturns, PoolJobs, PoolTypeOK
<1> QED
  BY <1>1, <1>2, <1>3, <1>4 DEF PoolStep, HandsOver

RowTypes ==
  /\ due \in Seq(Feeds) /\ Distinct(due)
  /\ disabled \subseteq Feeds
  /\ errors \in [Feeds -> 0..MaxErrors]

CopyTypes ==
  /\ refreshing \in [Runners -> [feed : Feeds \cup {NoFeed}, errors : 0..MaxErrors, disabled : BOOLEAN]]
  /\ editing \in [Editors -> [feed : Feeds \cup {NoFeed}, disabled : BOOLEAN, stale : BOOLEAN]]

HistoryTypes == off \subseteq Feeds /\ raced \subseteq Feeds /\ requests \in 0..MaxRequests

LEMMA TypesParts == PollingTypes <=> PoolJobs /\ RowTypes /\ CopyTypes /\ HistoryTypes
BY DEF PollingTypes, PollingTypeOK, PoolJobs, RowTypes, CopyTypes, HistoryTypes

LEMMA RequestTypes == HistoryTypes /\ Request /\ UNCHANGED history => HistoryTypes'
BY PollingAssumption DEF HistoryTypes, Request, history

LEMMA ReadRowTypes ==
  ASSUME RowTypes, CopyTypes, NEW r \in Runners, NEW f \in Feeds, ReadRow(r, f), UNCHANGED editing
  PROVE  CopyTypes'
<1>1. Row(f) \in [feed : Feeds \cup {NoFeed}, errors : 0..MaxErrors, disabled : BOOLEAN]
  BY DEF Row, RowTypes
<1> QED
  BY <1>1 DEF ReadRow, CopyTypes

LEMMA ReturnTypes ==
  ASSUME PoolJobs, CopyTypes, NEW r \in Runners, Returns(r)
  PROVE  /\ PoolJobs'
         /\ refreshing[r] \in [feed : Feeds, errors : 0..MaxErrors, disabled : BOOLEAN]
         /\ refreshing' \in [Runners -> [feed : Feeds \cup {NoFeed}, errors : 0..MaxErrors, disabled : BOOLEAN]]
<1>1. NotRefreshing \in [feed : Feeds \cup {NoFeed}, errors : 0..MaxErrors, disabled : BOOLEAN]
  BY PollingAssumption DEF NotRefreshing
<1>2. refreshing' = [refreshing EXCEPT ![r] = NotRefreshing] /\ refreshing[r].feed # NoFeed
  BY DEF Returns, IsRefreshing
<1>3. PoolJobs'
  <2>1. CASE r \in Workers
    BY <2>1 DEF Returns, JobDone, PoolJobs, PoolTypeOK
  <2>2. CASE r \notin Workers
    BY <2>2 DEF Returns, PoolJobs, PoolTypeOK, poolVars
  <2> QED
    BY <2>1, <2>2
<1>4. refreshing[r] \in [feed : Feeds, errors : 0..MaxErrors, disabled : BOOLEAN]
  BY <1>2 DEF CopyTypes
<1> QED
  BY <1>1, <1>2, <1>3, <1>4 DEF CopyTypes

LEMMA ScheduleTypes ==
  ASSUME RowTypes, CopyTypes, NEW f, ScheduleNextCheck(f)
  PROVE  /\ due' \in Seq(Feeds) /\ Distinct(due')
         /\ editing' \in [Editors -> [feed : Feeds \cup {NoFeed}, disabled : BOOLEAN, stale : BOOLEAN]]
<1>1. due' \in Seq(Feeds) /\ Distinct(due')
  BY WithoutRemoves DEF ScheduleNextCheck, RowTypes
<1>2. ASSUME NEW u \in Editors
      PROVE  [editing[u] EXCEPT !.stale = TRUE] \in [feed : Feeds \cup {NoFeed}, disabled : BOOLEAN, stale : BOOLEAN]
  BY DEF CopyTypes
<1> QED
  BY <1>1, <1>2 DEF ScheduleNextCheck, CopyTypes

LEMMA RunTypes ==
  ASSUME PollingTypes, NEW r \in Runners, Run(r)
  PROVE  PollingTypes'
<1>0. PoolJobs /\ RowTypes /\ CopyTypes /\ HistoryTypes
  BY TypesParts
<1> DEFINE read == refreshing[r]
<1>1. Returns(r) /\ UNCHANGED <<history, requests>>
  BY DEF Run, RefreshSucceeds, RefreshFails, RefreshLeavesRow
<1>2. /\ PoolJobs' /\ read \in [feed : Feeds, errors : 0..MaxErrors, disabled : BOOLEAN]
      /\ refreshing' \in [Runners -> [feed : Feeds \cup {NoFeed}, errors : 0..MaxErrors, disabled : BOOLEAN]]
  BY <1>0, <1>1, ReturnTypes
<1>3. HistoryTypes'
  BY <1>0, <1>1 DEF HistoryTypes, history
<1>4. CASE RefreshSucceeds(r)
  <2>1. /\ due' \in Seq(Feeds) /\ Distinct(due')
        /\ editing' \in [Editors -> [feed : Feeds \cup {NoFeed}, disabled : BOOLEAN, stale : BOOLEAN]]
    BY <1>0, <1>4, ScheduleTypes DEF RefreshSucceeds
  <2>2. disabled' \subseteq Feeds /\ errors' \in [Feeds -> 0..MaxErrors]
    BY <1>0, <1>2, <1>4, PollingAssumption DEF RefreshSucceeds, RowTypes
  <2>3. RowTypes' /\ CopyTypes'
    BY <1>2, <2>1, <2>2 DEF RowTypes, CopyTypes
  <2> QED
    BY <1>2, <1>3, <2>3, TypesParts, PTL
<1>5. CASE RefreshFails(r)
  <2>1. /\ due' \in Seq(Feeds) /\ Distinct(due')
        /\ editing' \in [Editors -> [feed : Feeds \cup {NoFeed}, disabled : BOOLEAN, stale : BOOLEAN]]
    BY <1>0, <1>5, ScheduleTypes DEF RefreshFails
  <2>2. (IF read.errors = MaxErrors THEN MaxErrors ELSE read.errors + 1) \in 0..MaxErrors
    BY <1>2, PollingAssumption
  <2>3. disabled' \subseteq Feeds /\ errors' \in [Feeds -> 0..MaxErrors]
    BY <1>0, <1>2, <1>5, <2>2 DEF RefreshFails, RowTypes
  <2>4. RowTypes' /\ CopyTypes'
    BY <1>2, <2>1, <2>3 DEF RowTypes, CopyTypes
  <2> QED
    BY <1>2, <1>3, <2>4, TypesParts, PTL
<1>6. CASE RefreshLeavesRow(r)
  <2>1. RowTypes' /\ CopyTypes'
    BY <1>0, <1>2, <1>6 DEF RefreshLeavesRow, RowTypes, CopyTypes, rows
  <2> QED
    BY <1>2, <1>3, <2>1, TypesParts, PTL
<1> QED
  BY <1>4, <1>5, <1>6 DEF Run

LEMMA SaveRowTypes ==
  ASSUME PollingTypes, NEW u \in Editors, NEW disable \in BOOLEAN, SaveRow(u, disable)
  PROVE  /\ editing[u].feed \in Feeds
         /\ PoolJobs' /\ RowTypes' /\ CopyTypes'
<1>0. PoolJobs /\ RowTypes /\ CopyTypes
  BY TypesParts
<1>1. editing[u].feed \in Feeds
  BY <1>0 DEF SaveRow, CopyTypes
<1>2. due' \in Seq(Feeds) /\ Distinct(due')
  <2>1. PICK f \in Feeds : f = editing[u].feed
    BY <1>1
  <2>2. PICK new : due' = new
    OBVIOUS
  <2>3. new \in Placements(f) \/ new = due
    BY <2>1, <2>2 DEF SaveRow
  <2>4. new \in Seq(Feeds) /\ Distinct(new)
    BY <1>0, <2>3, PlacementsAreDistinct DEF RowTypes
  <2> QED
    BY <2>2, <2>4 DEF Distinct
<1>3. disabled' \subseteq Feeds /\ errors' \in [Feeds -> 0..MaxErrors]
  BY <1>0, <1>1, PollingAssumption DEF SaveRow, RowTypes
<1>4. CopyTypes'
  <2>1. NotEditing \in [feed : Feeds \cup {NoFeed}, disabled : BOOLEAN, stale : BOOLEAN]
    BY DEF NotEditing
  <2> QED
    BY <1>0, <2>1 DEF SaveRow, CopyTypes
<1>5. PoolJobs'
  BY <1>0 DEF SaveRow, PoolJobs, PoolTypeOK, poolVars
<1> QED
  BY <1>1, <1>2, <1>3, <1>4, <1>5 DEF RowTypes

LEMMA UserTypes == PollingTypes /\ User => PollingTypes'
<1> SUFFICES ASSUME PollingTypes, User
             PROVE  PollingTypes'
  OBVIOUS
<1>0. PoolJobs /\ RowTypes /\ CopyTypes /\ HistoryTypes
  BY TypesParts
<1>1. ASSUME NEW c \in Clients, NEW jobs \in Seq(Feeds), Request, Push(c, jobs), UnchangedRows
      PROVE  PollingTypes'
  <2>1. PoolJobs'
    BY <1>0, <1>1, PushTypes, PollingAssumption
  <2>2. RowTypes' /\ CopyTypes'
    BY <1>0, <1>1 DEF UnchangedRows, rows, RowTypes, CopyTypes, Distinct
  <2>3. HistoryTypes'
    BY <1>0, <1>1, RequestTypes DEF UnchangedRows
  <2> QED
    BY <2>1, <2>2, <2>3, TypesParts, PTL
<1>2. ASSUME NEW c \in Clients, NEW wanted \in Selections, RefreshAllAPI(c, wanted)
      PROVE  PollingTypes'
  <2>1. Keep(ExpiredFeeds, wanted) \in Seq(Feeds)
    BY RowsAreDistinct, KeepDistinct
  <2>2. PerHost(Keep(ExpiredFeeds, wanted)) \in Seq(Feeds)
    BY <2>1, PerHostType
  <2> QED
    BY <1>1, <1>2, <2>2 DEF RefreshAllAPI
<1>3. ASSUME NEW c \in Clients, NEW wanted \in Selections, RefreshAllUI(c, wanted)
      PROVE  PollingTypes'
  <2> DEFINE Rest == {f \in wanted \ ToSet(due) : f \notin disabled}
  <2>1. PICK others \in SetToSeqs(Rest) : Push(c, PerHost(Keep(due, wanted \ disabled) \o others))
    BY <1>3 DEF RefreshAllUI
  <2>2. Rest \in SUBSET Feeds
    BY PollingAssumption
  <2>3. others \in [1..Cardinality(Rest) -> Rest]
    BY <2>1 DEF SetToSeqs
  <2> HIDE DEF Rest
  <2>4. Cardinality(Rest) \in Nat
    BY <2>2, PollingAssumption, FS_Subset, FS_CardinalityType
  <2>5. others \in Seq(Feeds)
    BY <2>2, <2>3, <2>4
  <2>6. Keep(due, wanted \ disabled) \in Seq(Feeds)
    BY RowsAreDistinct, KeepDistinct
  <2>7. Keep(due, wanted \ disabled) \o others \in Seq(Feeds)
    BY <2>5, <2>6
  <2>8. PerHost(Keep(due, wanted \ disabled) \o others) \in Seq(Feeds)
    BY <2>7, PerHostType
  <2> QED
    BY <1>1, <1>3, <2>1, <2>8 DEF RefreshAllUI
<1>4. ASSUME NEW c \in Clients, NEW f \in Chosen, RefreshOne(c, f)
      PROVE  PollingTypes'
  <2>1. c \in Runners /\ f \in Feeds
    BY PollingAssumption DEF Runners
  <2>2. CopyTypes'
    BY <1>0, <1>4, <2>1, ReadRowTypes DEF RefreshOne
  <2>3. PoolJobs' /\ RowTypes'
    BY <1>0, <1>4 DEF RefreshOne, rows, RowTypes, Distinct, PoolJobs, PoolTypeOK, poolVars
  <2>4. HistoryTypes'
    BY <1>0, <1>4, RequestTypes DEF RefreshOne
  <2> QED
    BY <2>2, <2>3, <2>4, TypesParts, PTL
<1>5. ASSUME NEW u \in Editors, NEW f \in Chosen, ReadSettings(u, f)
      PROVE  PollingTypes'
  <2>1. [feed |-> f, disabled |-> f \in disabled, stale |-> FALSE] \in [feed : Feeds \cup {NoFeed}, disabled : BOOLEAN, stale : BOOLEAN]
    BY PollingAssumption
  <2>2. CopyTypes'
    BY <1>0, <1>5, <2>1 DEF ReadSettings, CopyTypes
  <2>3. PoolJobs' /\ RowTypes'
    BY <1>0, <1>5 DEF ReadSettings, rows, RowTypes, Distinct, PoolJobs, PoolTypeOK, poolVars
  <2>4. HistoryTypes'
    BY <1>0, <1>5, RequestTypes DEF ReadSettings
  <2> QED
    BY <2>2, <2>3, <2>4, TypesParts, PTL
<1>6. ASSUME NEW u \in Editors, NEW disable \in BOOLEAN, SaveDisabled(u, disable)
      PROVE  PollingTypes'
  <2>1. editing[u].feed \in Feeds /\ PoolJobs' /\ RowTypes' /\ CopyTypes'
    BY <1>6, SaveRowTypes DEF SaveDisabled
  <2>2. UNCHANGED requests
    BY <1>6 DEF SaveDisabled, SaveRow
  <2>3. HistoryTypes'
    BY <1>0, <1>6, <2>1, <2>2 DEF SaveDisabled, HistoryTypes
  <2> QED
    BY <2>1, <2>3, TypesParts, PTL
<1>7. ASSUME NEW u \in Editors, SaveOther(u)
      PROVE  PollingTypes'
  <2>1. editing[u].disabled \in BOOLEAN
    BY <1>0 DEF CopyTypes
  <2>2. PoolJobs' /\ RowTypes' /\ CopyTypes'
    BY <1>7, <2>1, SaveRowTypes DEF SaveOther
  <2>3. HistoryTypes'
    BY <1>0, <1>7 DEF SaveOther, SaveRow, HistoryTypes, history
  <2> QED
    BY <2>2, <2>3, TypesParts, PTL
<1> QED
  BY <1>2, <1>3, <1>4, <1>5, <1>6, <1>7 DEF User

LEMMA TypesStep == PollingTypes /\ [PollingNext]_pollVars => PollingTypes'
<1> SUFFICES ASSUME PollingTypes, [PollingNext]_pollVars
             PROVE  PollingTypes'
  OBVIOUS
<1>0. PoolJobs /\ RowTypes /\ CopyTypes /\ HistoryTypes
  BY TypesParts
<1>1. CASE UNCHANGED pollVars
  <2>1. PoolJobs' /\ RowTypes' /\ CopyTypes' /\ HistoryTypes'
    BY <1>0, <1>1 DEF pollVars, poolVars, rows, history, PoolJobs, PoolTypeOK, RowTypes, CopyTypes, HistoryTypes, Distinct
  <2> QED
    BY <2>1, TypesParts, PTL
<1>2. ASSUME NEW f \in Feeds, BecomeDue(f)
      PROVE  PollingTypes'
  <2>1. due' \in Seq(Feeds) /\ Distinct(due')
    <3>1. /\ due' \in Seq(Feeds) /\ Len(due') = Len(due) + 1 /\ due'[Len(due) + 1] = f
          /\ \A k \in 1..Len(due) : due'[k] = due[k]
          /\ Len(due) \in Nat
      BY <1>0, <1>2 DEF BecomeDue, RowTypes
    <3>2. \A k \in 1..Len(due) : due[k] # f
      BY <1>0, <1>2 DEF BecomeDue, RowTypes, IsDue, ToSet
    <3>3. ASSUME NEW k \in 1..Len(due'), NEW l \in 1..Len(due'), k # l
          PROVE  due'[k] # due'[l]
      <4>1. CASE k \in 1..Len(due) /\ l \in 1..Len(due)
        BY <1>0, <3>1, <3>3, <4>1 DEF RowTypes, Distinct
      <4>2. CASE k = Len(due) + 1
        <5>1. l \in 1..Len(due)
          BY <3>1, <3>3, <4>2
        <5> QED
          BY <3>1, <3>2, <4>2, <5>1
      <4>3. CASE l = Len(due) + 1
        <5>1. k \in 1..Len(due)
          BY <3>1, <3>3, <4>3
        <5> QED
          BY <3>1, <3>2, <4>3, <5>1
      <4> QED
        BY <3>1, <4>1, <4>2, <4>3
    <3> QED
      BY <3>1, <3>3 DEF Distinct
  <2>2. RowTypes'
    BY <1>0, <1>2, <2>1 DEF BecomeDue, RowTypes
  <2>3. PoolJobs' /\ CopyTypes' /\ HistoryTypes'
    BY <1>0, <1>2 DEF BecomeDue, PoolJobs, PoolTypeOK, poolVars, CopyTypes, HistoryTypes, history
  <2> QED
    BY <2>2, <2>3, TypesParts, PTL
<1>3. CASE Poll
  <2>1. ScheduledBatch \in Seq(Feeds) /\ Scheduler \in Pushers
    BY RowsAreDistinct, PerHostType, PollingAssumption DEF ScheduledBatch
  <2>2. PoolJobs'
    BY <1>0, <1>3, <2>1, PushTypes DEF Poll
  <2>3. RowTypes' /\ CopyTypes' /\ HistoryTypes'
    BY <1>0, <1>3 DEF Poll, UnchangedRows, rows, history, RowTypes, CopyTypes, HistoryTypes, Distinct
  <2> QED
    BY <2>2, <2>3, TypesParts, PTL
<1>4. ASSUME NEW w \in Workers, BeginJob(w)
      PROVE  PollingTypes'
  <2>1. task[w] \in Feeds /\ w \in Runners
    BY <1>0, <1>4 DEF BeginJob, PoolJobs, PoolTypeOK, Runners
  <2>2. CopyTypes'
    BY <1>0, <1>4, <2>1, ReadRowTypes DEF BeginJob
  <2>3. PoolJobs' /\ RowTypes' /\ HistoryTypes'
    BY <1>0, <1>4 DEF BeginJob, PoolJobs, PoolTypeOK, poolVars, rows, history, RowTypes, HistoryTypes, Distinct
  <2> QED
    BY <2>2, <2>3, TypesParts, PTL
<1>5. CASE PoolStep
  <2>1. PoolJobs'
    BY <1>0, <1>5, PoolStepTypes
  <2>2. RowTypes' /\ CopyTypes' /\ HistoryTypes'
    <3>1. Elsewhere
      BY <1>5 DEF PoolStep, HandsOver
    <3> QED
      BY <1>0, <3>1 DEF Elsewhere, rows, history, RowTypes, CopyTypes, HistoryTypes, Distinct
  <2> QED
    BY <2>1, <2>2, TypesParts, PTL
<1>6. CASE User
  BY <1>6, UserTypes
<1>7. ASSUME NEW r \in Runners, Run(r)
      PROVE  PollingTypes'
  BY <1>7, RunTypes
<1> QED
  BY <1>1, <1>2, <1>3, <1>4, <1>5, <1>6, <1>7 DEF PollingNext, Otherwise

(* Every state of the pool, of the rows and of the copies that refreshes   *)
(* and settings requests hold of them is a legal one, and the invariants   *)
(* of polling hold with it.                                                *)
THEOREM PollingIsSound == PollingSpec => []PollingInv
<1>1. PollingTypes => PollingTypeOK
  BY DEF PollingTypes
<1>2. QuietRows => QuietEditsAreKept /\ ReadersSeeQuietEdits
  BY DEF QuietRows
<1>3. Jobs => WorkersRefreshTheirJob
  BY DEF Jobs
<1> QED
  BY <1>1, <1>2, <1>3, TypesInit, TypesStep, QuietInit, QuietStep, JobsInit, JobsStep, PTL
     DEF PollingSpec, PollingInv

-----------------------------------------------------------------------------
(* Only Poll gives the scheduler something to push. *)
LEMMA OnlyPollPushesForScheduler ==
  ASSUME PollingTypes, [PollingNext]_pollVars, pushing[Scheduler] = <<>>, pushing'[Scheduler] # <<>>
  PROVE  Poll
<1>1. DOMAIN pushing = Pushers /\ Scheduler \in Pushers /\ Scheduler \notin Clients
  BY PollingAssumption DEF PollingTypes, PollingTypeOK, PoolTypeOK
<1>2. ASSUME NEW p \in Pushers, Discard(p) \/ (\E w \in Workers : HandOver(p, w))
      PROVE  FALSE
  BY <1>1, <1>2 DEF Discard, Discards, HandOver
<1>3. ASSUME NEW c \in Clients, NEW jobs, Push(c, jobs)
      PROVE  FALSE
  BY <1>1, <1>3 DEF Push
<1>4. ASSUME UNCHANGED pushing
      PROVE  FALSE
  BY <1>4
<1>5. ~User
  BY <1>3, <1>4 DEF User, RefreshAllAPI, RefreshAllUI, RefreshOne, ReadSettings, SaveDisabled, SaveOther, SaveRow,
       poolVars
<1>6. ~PoolStep
  BY <1>2, <1>4 DEF PoolStep, HandsOver, Leave, Close, ShutdownReturns
<1>7. ~(\E r \in Runners : Run(r))
  BY <1>4 DEF Run, RefreshSucceeds, RefreshFails, RefreshLeavesRow, Returns, JobDone, poolVars
<1>8. ~(\E w \in Workers : BeginJob(w)) /\ ~(\E f \in Feeds : BecomeDue(f)) /\ ~(UNCHANGED pollVars)
  BY <1>4 DEF BeginJob, BecomeDue, pollVars, poolVars
<1> QED
  BY <1>5, <1>6, <1>7, <1>8 DEF PollingNext, Otherwise

(* As many feeds as places of a list without repetitions. *)
LEMMA FeedsAtPlaces ==
  ASSUME NEW list \in Seq(Feeds), Distinct(list), NEW K \in SUBSET (DOMAIN list)
  PROVE  /\ IsFiniteSet({list[k] : k \in K})
         /\ Cardinality({list[k] : k \in K}) = Cardinality(K) /\ Cardinality(K) \in Nat
<1> DEFINE at == [k \in K |-> list[k]]
           F == {list[k] : k \in K}
<1>1. IsFiniteSet(K) /\ Cardinality(K) \in Nat
  BY PlacesAreFinite
<1>2. at \in [K -> F] /\ (\A k \in K : at[k] = list[k]) /\ \A f \in F : \E k \in K : at[k] = f
  OBVIOUS
<1>3. \A k, l \in K : k # l => list[k] # list[l]
  BY DEF Distinct
<1> HIDE DEF at, F
<1>4. at \in Bijection(K, F)
  BY <1>2, <1>3 DEF Bijection, Injection, Surjection, IsInjective
<1>5. ExistsBijection(K, F)
  BY <1>4 DEF ExistsBijection
<1>6. IsFiniteSet(F) /\ Cardinality(F) = Cardinality(K)
  BY <1>1, <1>5, FS_Bijection
<1> QED
  BY <1>1, <1>6 DEF F

Candidates == {f \in ToSet(due) : Pollable(f)}
Before(f) == {g \in Candidates : Older(g, f)}

(* The rows of the query are the candidates, oldest first. *)
LEMMA CandidatesAreExpired ==
  ASSUME PollingTypes
  PROVE  /\ ToSet(ExpiredFeeds) = Candidates /\ IsFiniteSet(Candidates)
         /\ \A k, l \in DOMAIN ExpiredFeeds : k < l => Older(ExpiredFeeds[k], ExpiredFeeds[l])
<1> DEFINE wanted == {f \in Feeds : Pollable(f)}
<1>0. PICK E : E = ExpiredFeeds
  OBVIOUS
<1>1. E = Keep(due, wanted)
  BY <1>0 DEF ExpiredFeeds, OldestFirst
<1>2. due \in Seq(Feeds) /\ DOMAIN due = 1..Len(due) /\ Distinct(due)
  BY RowsAreDistinct
<1>3. E \in Seq(Feeds) /\ DOMAIN E = 1..Len(E) /\ KeptRows(E, due, wanted, Len(due)) /\ Distinct(E)
  BY <1>1, <1>2, KeepKeeps, KeepDistinct
<1>4. PICK at \in [1..Len(E) -> 1..Len(due)] :
        /\ \A k \in 1..Len(E) : E[k] = due[at[k]] /\ due[at[k]] \in wanted
        /\ \A k, l \in 1..Len(E) : k < l => at[k] < at[l]
        /\ \A i \in 1..Len(due) : due[i] \in wanted => \E k \in 1..Len(E) : at[k] = i
  BY <1>3 DEF KeptRows
<1>5. ToSet(E) = Candidates
  <2>1. \A k \in DOMAIN E : E[k] \in Candidates
    BY <1>2, <1>3, <1>4 DEF Candidates, ToSet
  <2>2. ASSUME NEW f \in Candidates
        PROVE  \E k \in DOMAIN E : E[k] = f
    <3>1. PICK i \in 1..Len(due) : due[i] = f
      BY <1>2 DEF Candidates, ToSet
    <3>2. f \in wanted
      BY <1>2, <3>1 DEF Candidates
    <3> QED
      BY <1>3, <1>4, <3>1, <3>2
  <2> QED
    BY <2>1, <2>2 DEF ToSet
<1>6. IsFiniteSet(Candidates)
  <2>1. {E[k] : k \in DOMAIN E} = Candidates
    BY <1>5 DEF ToSet
  <2> QED
    BY <1>3, <2>1, FeedsAtPlaces
<1>7. \A k, l \in DOMAIN E : k < l => Older(E[k], E[l])
  BY <1>2, <1>3, <1>4 DEF Older
<1> QED
  BY <1>0, <1>5, <1>6, <1>7

(* What the batch leaves out. *)
LEMMA LeftOutForALimit ==
  ASSUME PollingTypes, NEW batch, batch = ScheduledBatch, NEW f \in Candidates \ ToSet(batch)
  PROVE  \/ Cardinality(Before(f)) >= BatchSize
         \/ Cardinality({g \in Before(f) \cap ToSet(batch) : HostOf[g] = HostOf[f]}) = LimitPerHost
<1>1. PICK E : E = ExpiredFeeds
  OBVIOUS
<1>2. PICK R : R = Limited(E)
  OBVIOUS
<1>3. /\ E \in Seq(Feeds) /\ Distinct(E) /\ DOMAIN E = 1..Len(E) /\ Len(E) \in Nat
      /\ R \in Seq(Feeds) /\ Distinct(R) /\ DOMAIN R = 1..Len(R) /\ Len(R) \in Nat
  BY <1>1, <1>2, RowsAreDistinct
<1>4. /\ Len(R) = IF Len(E) < BatchSize THEN Len(E) ELSE BatchSize
      /\ \A k \in 1..Len(R) : k \in 1..Len(E) /\ R[k] = E[k]
  <2>1. PICK m : m = IF Len(E) < BatchSize THEN Len(E) ELSE BatchSize
    OBVIOUS
  <2>2. m \in 0..Len(E) /\ R = SubSeq(E, 1, m)
    BY <1>2, <1>3, <2>1, PollingAssumption DEF Limited
  <2>3. Len(R) = m /\ \A k \in 1..m : R[k] = E[k]
    BY <1>3, <2>2
  <2>4. Len(R) = IF Len(E) < BatchSize THEN Len(E) ELSE BatchSize
    BY <2>1, <2>3
  <2>5. Len(R) <= Len(E)
    BY <1>3, <2>2, <2>3
  <2>6. \A k \in 1..Len(R) : k \in 1..Len(E)
    BY <1>3, <2>5
  <2> QED
    BY <2>3, <2>4, <2>6
<1>5. /\ ToSet(E) = Candidates /\ IsFiniteSet(Candidates)
      /\ \A k, l \in DOMAIN E : k < l => Older(E[k], E[l])
  BY <1>1, CandidatesAreExpired
<1>6. IsFiniteSet(Before(f)) /\ Cardinality(Before(f)) \in Nat
  BY <1>5, FS_Subset, FS_CardinalityType DEF Before
<1>7. PICK i \in 1..Len(E) : E[i] = f
  BY <1>3, <1>5 DEF ToSet
<1>8. ASSUME NEW k \in 1..Len(E), k < i
      PROVE  E[k] \in Before(f)
  BY <1>3, <1>5, <1>7, <1>8 DEF Before, ToSet
<1>9. CASE i > Len(R)
  <2>0. Len(E) \in Nat /\ i <= Len(E) /\ i > Len(R) /\ i \in Nat
    BY <1>3, <1>7, <1>9
  <2>1. Len(R) = BatchSize /\ BatchSize \in Nat /\ BatchSize < Len(E)
    <3>1. Len(R) = IF Len(E) < BatchSize THEN Len(E) ELSE BatchSize
      BY <1>4
    <3>2. BatchSize \in Nat
      BY PollingAssumption
    <3> QED
      BY <2>0, <3>1, <3>2
  <2> DEFINE K == 1..BatchSize
             F == {E[k] : k \in K}
  <2>2. K \in SUBSET (DOMAIN E) /\ Cardinality(K) = BatchSize
    <3>1. K \in SUBSET (1..Len(E))
      BY <2>0, <2>1
    <3>2. Cardinality(1..BatchSize) = BatchSize
      BY <2>1, FS_Interval
    <3> QED
      BY <1>3, <3>1, <3>2
  <2>3. Cardinality(F) = BatchSize
    <3> HIDE DEF K
    <3> QED
      BY <1>3, <2>2, FeedsAtPlaces
  <2>4. F \in SUBSET Before(f)
    BY <1>3, <1>7, <1>8, <1>9, <2>1, <2>2
  <2> HIDE DEF F
  <2>5. Cardinality(F) <= Cardinality(Before(f))
    BY <1>6, <2>4, FS_Subset
  <2> QED
    BY <1>6, <2>1, <2>3, <2>5
<1>10. CASE i \in 1..Len(R)
  <2>1. R[i] = f
    BY <1>4, <1>7, <1>10
  <2>2. batch = PerHost(R)
    BY <1>1, <1>2 DEF ScheduledBatch
  <2>3. FairSoFar(batch, R, Len(R))
    BY <1>3, <2>2, PerHostIsFair
  <2>4. /\ batch \in Seq(Feeds) /\ Distinct(batch) /\ DOMAIN batch = 1..Len(batch)
        /\ LimitPerHost > 0 => \A g \in Feeds : OfHost(batch, HostOf[g]) <= LimitPerHost
    BY <2>3 DEF FairSoFar
  <2>5. ~\E k \in 1..Len(batch) : batch[k] = f
    BY <2>4 DEF ToSet
  <2>6. LimitPerHost > 0 /\ Cardinality(EarlierOfHost(batch, R, i)) >= LimitPerHost
    BY <1>10, <2>1, <2>3, <2>5 DEF FairSoFar
  <2> DEFINE K == EarlierOfHost(batch, R, i)
             L == {k \in DOMAIN batch : HostOf[batch[k]] = HostOf[f]}
             G == {g \in Before(f) \cap ToSet(batch) : HostOf[g] = HostOf[f]}
             FK == {batch[k] : k \in K}
             FL == {batch[k] : k \in L}
  <2>7. K \in SUBSET (DOMAIN batch) /\ L \in SUBSET (DOMAIN batch)
    BY DEF EarlierOfHost
  <2>8. /\ Cardinality(FK) = Cardinality(K) /\ Cardinality(K) \in Nat
        /\ IsFiniteSet(FL) /\ Cardinality(FL) = Cardinality(L) /\ Cardinality(L) \in Nat
    <3> HIDE DEF K, L
    <3> QED
      BY <2>4, <2>7, FeedsAtPlaces
  <2>9. FK \in SUBSET G
    <3> SUFFICES ASSUME NEW k \in K
                 PROVE  batch[k] \in G
      OBVIOUS
    <3>1. k \in DOMAIN batch /\ HostOf[batch[k]] = HostOf[f] /\ \E j \in 1..(i - 1) : R[j] = batch[k]
      BY <2>1 DEF EarlierOfHost
    <3>2. PICK j \in 1..(i - 1) : R[j] = batch[k]
      BY <3>1
    <3>3. j \in 1..Len(E) /\ j < i /\ E[j] = batch[k]
      BY <1>3, <1>4, <1>10, <3>2
    <3>4. batch[k] \in Before(f)
      BY <1>8, <3>3
    <3> QED
      BY <3>1, <3>4 DEF ToSet
  <2>10. G \in SUBSET FL
    BY DEF ToSet
  <2>11. Cardinality(L) <= LimitPerHost
    <3>1. f \in Feeds /\ OfHost(batch, HostOf[f]) = Cardinality(L)
      BY <1>3, <1>7 DEF OfHost
    <3> QED
      BY <2>4, <2>6, <3>1
  <2>12. Cardinality(K) >= LimitPerHost
    BY <2>6
  <2> HIDE DEF K, L, G, FK, FL
  <2>13. IsFiniteSet(G) /\ Cardinality(G) <= Cardinality(FL) /\ Cardinality(G) \in Nat
    BY <2>8, <2>10, FS_Subset, FS_CardinalityType
  <2>14. Cardinality(FK) <= Cardinality(G)
    BY <2>9, <2>13, FS_Subset
  <2>15. Cardinality(G) = LimitPerHost
    BY <2>8, <2>11, <2>12, <2>13, <2>14, PollingAssumption
  <2> QED
    BY <2>15 DEF G
<1> QED
  BY <1>3, <1>7, <1>9, <1>10

(* The batch that a step gives the scheduler. *)
LEMMA BatchStep ==
  ASSUME PollingTypes, [PollingNext]_pollVars, pushing[Scheduler] = <<>>, pushing'[Scheduler] # <<>>
  PROVE  /\ ToSet(pushing'[Scheduler]) \subseteq Candidates
         /\ \A f \in ToSet(pushing'[Scheduler]) :
              LimitPerHost > 0 => OfHost(pushing'[Scheduler], HostOf[f]) <= LimitPerHost
         /\ \A f \in Candidates \ ToSet(pushing'[Scheduler]) :
              \/ Cardinality(Before(f)) >= BatchSize
              \/ Cardinality({g \in Before(f) \cap ToSet(pushing'[Scheduler]) : HostOf[g] = HostOf[f]}) = LimitPerHost
<1>1. PICK batch : batch = ScheduledBatch
  OBVIOUS
<1>2. pushing'[Scheduler] = batch
  <2>1. Push(Scheduler, batch)
    BY <1>1, OnlyPollPushesForScheduler DEF Poll
  <2>2. Scheduler \in DOMAIN pushing
    BY PollingAssumption DEF PollingTypes, PollingTypeOK, PoolTypeOK
  <2> QED
    BY <2>1, <2>2 DEF Push
<1>3. PICK R : R = Limited(ExpiredFeeds)
  OBVIOUS
<1>4. R \in Seq(Feeds) /\ Distinct(R)
  BY <1>3, RowsAreDistinct
<1>5. FairSoFar(batch, R, Len(R))
  BY <1>1, <1>3, <1>4, PerHostIsFair DEF ScheduledBatch
<1>6. ToSet(batch) \subseteq Candidates
  <2>1. ToSet(R) \subseteq ToSet(ExpiredFeeds)
    <3>1. PICK E : E = ExpiredFeeds
      OBVIOUS
    <3>2. E \in Seq(Feeds)
      BY <3>1, RowsAreDistinct
    <3>3. PICK m : m = IF Len(E) < BatchSize THEN Len(E) ELSE BatchSize
      OBVIOUS
    <3>4. m \in 0..Len(E) /\ R = SubSeq(E, 1, m)
      BY <1>3, <3>1, <3>2, <3>3, PollingAssumption DEF Limited
    <3>5. DOMAIN R = 1..m /\ DOMAIN E = 1..Len(E) /\ Len(E) \in Nat /\ \A k \in 1..m : R[k] = E[k]
      BY <3>2, <3>4
    <3>6. \A k \in DOMAIN R : k \in DOMAIN E /\ R[k] = E[k]
      BY <3>4, <3>5
    <3> QED
      BY <3>1, <3>6 DEF ToSet
  <2>2. ToSet(batch) \subseteq ToSet(R)
    <3>1. DOMAIN batch = 1..Len(batch) /\ DOMAIN R = 1..Len(R)
      BY <1>4, <1>5 DEF FairSoFar
    <3> QED
      BY <1>5, <3>1 DEF FairSoFar, ToSet
  <2> QED
    BY <2>1, <2>2, CandidatesAreExpired
<1>7. \A f \in ToSet(batch) : LimitPerHost > 0 => OfHost(batch, HostOf[f]) <= LimitPerHost
  <2>1. ToSet(batch) \subseteq Feeds
    BY <1>5 DEF FairSoFar, ToSet
  <2> QED
    BY <1>5, <2>1 DEF FairSoFar
<1> QED
  BY <1>1, <1>2, <1>6, <1>7, LeftOutForALimit

(* A batch never leaves a feed behind for a younger one, whatever the      *)
(* number of feeds, the batch size and the limit per host: what is left    *)
(* out has a whole batch of older candidates before it, or its host's      *)
(* limit is used up by older feeds that the batch has (FetchJobs).         *)
THEOREM BatchesLeaveNoFeedBehind == PollingSpec => BatchesAreFair
<1>1. PollingTypes /\ [PollingNext]_pollVars =>
        [LET batch == pushing'[Scheduler]
             candidates == {f \in ToSet(due) : Pollable(f)}
             before(f) == {g \in candidates : Older(g, f)}
         IN  pushing[Scheduler] = <<>> /\ batch # <<>> =>
               /\ ToSet(batch) \subseteq candidates
               /\ \A f \in ToSet(batch) : LimitPerHost > 0 => OfHost(batch, HostOf[f]) <= LimitPerHost
               /\ \A f \in candidates \ ToSet(batch) :
                    \/ Cardinality(before(f)) >= BatchSize
                    \/ Cardinality({g \in before(f) \cap ToSet(batch) : HostOf[g] = HostOf[f]}) = LimitPerHost
        ]_pollVars
  BY BatchStep DEF Candidates, Before
<1> QED
  BY <1>1, TypesInit, TypesStep, PTL DEF PollingSpec, BatchesAreFair

-----------------------------------------------------------------------------
(* Shutdown has closed the channel before it waits, and returns when every *)
(* worker has left.                                                        *)
Stopped ==
  /\ DOMAIN wpc = Workers
  /\ stopper # "serving" => closed
  /\ stopper = "stopped" => \A w \in Workers : wpc[w] = "gone"

LEMMA StoppedStep ==
  ASSUME Stopped, [PollingNext]_pollVars
  PROVE  Stopped'
<1>1. CASE UNCHANGED <<wpc, closed, stopper>>
  BY <1>1 DEF Stopped
<1>2. ASSUME NEW p \in Pushers, NEW w \in Workers, HandOver(p, w)
      PROVE  Stopped'
  BY <1>2 DEF HandOver, Stopped
<1>3. ASSUME NEW w \in Workers, Leave(w)
      PROVE  Stopped'
  BY <1>3 DEF Leave, Stopped
<1>4. CASE Close \/ ShutdownReturns
  BY <1>4 DEF Close, ShutdownReturns, Stopped
<1>5. CASE PoolStep
  BY <1>1, <1>2, <1>3, <1>4, <1>5 DEF PoolStep, HandsOver, Discard
<1>6. ASSUME NEW r \in Runners, Run(r)
      PROVE  Stopped'
  <2>1. Returns(r)
    BY <1>6 DEF Run, RefreshSucceeds, RefreshFails, RefreshLeavesRow
  <2>2. CASE r \in Workers
    BY <2>1, <2>2 DEF Returns, JobDone, Stopped
  <2>3. CASE r \notin Workers
    BY <1>1, <2>1, <2>3 DEF Returns, poolVars
  <2> QED
    BY <2>2, <2>3
<1>7. CASE User
  BY <1>1, <1>7 DEF User, RefreshAllAPI, RefreshAllUI, RefreshOne, ReadSettings, SaveDisabled, SaveOther, SaveRow,
       Push, poolVars
<1>8. CASE \/ UNCHANGED pollVars
           \/ Poll
           \/ \E f \in Feeds : BecomeDue(f)
           \/ \E w \in Workers : BeginJob(w)
  BY <1>1, <1>8 DEF Poll, Push, BecomeDue, BeginJob, pollVars, poolVars
<1> QED
  BY <1>5, <1>6, <1>7, <1>8 DEF PollingNext, Otherwise

(* Once Shutdown has returned no worker refreshes a feed or ever will,     *)
(* whatever was pushed and is being pushed: the daemon may close its       *)
(* database (pool.go, daemon.go).                                          *)
THEOREM NoJobOutlivesShutdown ==
  PollingSpec => [](stopper = "stopped" => \A w \in Workers : wpc[w] = "gone" /\ ~IsRefreshing(w))
<1>1. PollingInit => Stopped
  BY DEF PollingInit, PoolInit, Stopped
<1>2. Stopped /\ Jobs => (stopper = "stopped" => \A w \in Workers : wpc[w] = "gone" /\ ~IsRefreshing(w))
  BY DEF Stopped, Jobs, WorkersRefreshTheirJob
<1> QED
  BY <1>1, <1>2, StoppedStep, JobsInit, JobsStep, PTL DEF PollingSpec
=============================================================================
