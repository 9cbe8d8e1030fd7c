---------------------------- MODULE FeedRefresh ----------------------------
(***************************************************************************)
(* The entries of one feed, from its creation to its removal: CreateFeed,  *)
(* RefreshFeed and RefreshFeedEntries, entries imported through the API,   *)
(* FlushHistory and ArchiveEntries with their tombstones, and the          *)
(* validator (ETag, Last-Modified) that lets the server answer "not        *)
(* modified" (storage/entry.go, storage/feed.go, reader/handler).          *)
(*                                                                         *)
(* A document is what ProcessFeedEntries has left of it.  Each entry is a  *)
(* transaction of its own and each SQL statement sees what is committed    *)
(* when it begins; an INSERT ends later, when the unique index lets it.    *)
(* A crash is the failure of every goroutine's job.  Errors, next checks   *)
(* and the other columns of the row are Polling.tla's subject.             *)
(***************************************************************************)
EXTENDS Naturals, Sequences, FiniteSets

CONSTANTS
  Workers,          \* goroutines of the pool
  Requests,         \* goroutines of HTTP requests
  Editors,          \* HTTP requests that save the feed's settings
  Items,            \* the entries' hashes
  Documents,        \* what the server publishes, one document after the other
  Tagged,           \* the documents that the server sends a validator for
  UpdatesExisting   \* neither the crawler nor ignore_entry_updates is on

ASSUME RefreshAssumption ==
  /\ Workers \cap Requests = {}
  /\ Documents \in Seq(Seq(Items)) /\ Documents # <<>>
  /\ Tagged \subseteq DOMAIN Documents
  /\ UpdatesExisting \in BOOLEAN

VARIABLES
  version,    \* of the server's document: an index of Documents
  state,      \* of the feed's row: "absent", "present" or "removed"
  validator,  \* the row's etag_header: the version it stands for, 0 for none
  stored,     \* entries of the feed
  content,    \* the version that each entry's content is from, 0 for another source
  tombs,      \* entry_tombstones
  work,       \* what each goroutine is doing
  editing,    \* the validator that each settings request has read, if it has
  unmade,     \* history: the validator of a CreateFeed that has not come to its end
  raced,      \* history: entries deleted while an INSERT of them was in progress
  overlapped  \* history: two refreshes have been in progress at once, or an
              \* import has begun before the creation's end

entryVars == <<stored, content, tombs>>
rowVars == <<state, validator>>
history == <<unmade, raced, overlapped>>
refreshVars == <<version, rowVars, entryVars, work, editing, history>>

Goroutines == Workers \cup Requests
Versions == DOMAIN Documents
Validators == {0} \cup Versions
ItemsOf(doc) == {doc[j] : j \in DOMAIN doc}
Idle == [job |-> "none", step |-> "idle", asked |-> 0, got |-> 0, tag |-> 0, update |-> FALSE,
         doc |-> <<>>, at |-> 1, saw |-> FALSE, fresh |-> {}, before |-> {}]

Tag(v) == IF v \in Tagged THEN v ELSE 0
Known(i) == i \in stored \cup tombs
Done(g) == work[g].at > Len(work[g].doc)
Item(g) == work[g].doc[work[g].at]
InStep(g, s) == work[g].step = s
Fetches(g) == work[g].job \in {"create", "refresh"}
Alone(g) == \A h \in Goroutines \ {g} : ~Fetches(h)

Jobs ==
  [job : {"none", "create", "refresh", "import"},
   step : {"idle", "asking", "checking", "creating", "inserting", "updating", "saving"},
   asked : Validators,       \* the validator that the row had, 0 if it is not sent
   got : Validators,         \* the document's version, 0 for an import
   tag : Validators,         \* the validator to save
   update : BOOLEAN,         \* updateExistingEntries
   doc : Seq(Items), at : Nat \ {0},
   saw : BOOLEAN,            \* the INSERT in progress found a tombstone
   fresh : SUBSET Items,     \* newEntries
   before : SUBSET Items]    \* history: known when the refresh began

RefreshTypeOK ==
  /\ version \in Versions /\ state \in {"absent", "present", "removed"} /\ validator \in Validators
  /\ stored \subseteq Items /\ tombs \subseteq Items
  /\ content \in [Items -> Validators]
  /\ work \in [Goroutines -> Jobs]
  /\ editing \in [Editors -> SUBSET Validators]
  /\ raced \subseteq Items
  /\ unmade \in Validators /\ overlapped \in BOOLEAN

RefreshInit ==
  /\ version = 1 /\ state = "absent" /\ validator = 0
  /\ stored = {} /\ tombs = {} /\ content = [i \in Items |-> 0]
  /\ work = [g \in Goroutines |-> Idle]
  /\ editing = [u \in Editors |-> {}]
  /\ unmade = 0 /\ raced = {} /\ overlapped = FALSE
-----------------------------------------------------------------------------
Publish ==
  /\ version + 1 \in Versions
  /\ version' = version + 1
  /\ UNCHANGED <<rowVars, entryVars, work, editing, history>>

Becomes(g, job) == work' = [work EXCEPT ![g] = job]
Begin(g, job) == InStep(g, "idle") /\ Becomes(g, job)
Goes(g, step) == Becomes(g, [work[g] EXCEPT !.step = step])
NextItem(g) == Becomes(g, [work[g] EXCEPT !.step = "checking", !.at = @ + 1, !.saw = FALSE])
Ends(g) == Becomes(g, Idle)

(* A request fetches the document, checks that no feed has its URL and     *)
(* CreateFeed inserts the row, validator included.                         *)
CreateRow(g) ==
  /\ g \in Requests /\ state = "absent"
  /\ state' = "present" /\ validator' = Tag(version) /\ unmade' = Tag(version)
  /\ Begin(g, [Idle EXCEPT !.job = "create", !.step = "checking", !.got = version,
                           !.doc = Documents[version]])
  /\ UNCHANGED <<version, entryVars, editing, raced, overlapped>>

(* Faulty variant: existing entries are left to forced refreshes.          *)
UpdatesIfForced(forced) == forced

UpdatesEntries(forced) == forced \/ UpdatesExisting

(* RefreshFeed reads the row; a forced refresh asks without validator, and *)
(* so does one of a feed with ignore_http_cache, which users may change.   *)
StartRefresh(g, forced, sent) ==
  /\ state = "present" /\ (forced => g \in Requests)
  /\ sent \in IF forced THEN {0} ELSE {0, validator}
  /\ Begin(g, [Idle EXCEPT !.job = "refresh", !.step = "asking", !.asked = sent,
                           !.update = UpdatesEntries(forced),
                           !.before = stored \cup tombs])
  /\ overlapped' = (overlapped \/ ~Alone(g))
  /\ UNCHANGED <<version, rowVars, entryVars, editing, unmade, raced>>

(* The API's import of one entry, whatever its content. *)
Import(g, i) ==
  /\ g \in Requests /\ state = "present"
  /\ Begin(g, [Idle EXCEPT !.job = "import", !.step = "checking", !.doc = <<i>>])
  /\ overlapped' = (overlapped \/ \E h \in Goroutines : work[h].job = "create")
  /\ UNCHANGED <<version, rowVars, entryVars, editing, unmade, raced>>

(* Faulty variant: a feed with a validator never changes.                  *)
IsModifiedAtFirst(g) == work[g].asked = 0

(* The server answers 304, or with the validator that was read, or not. *)
IsModified(g) == work[g].asked # Tag(version) \/ Tag(version) = 0

Modified(g) ==
  /\ InStep(g, "asking") /\ IsModified(g)
  /\ Becomes(g, [work[g] EXCEPT !.step = "checking", !.asked = 0, !.got = version,
                                !.tag = Tag(version), !.doc = Documents[version]])
  /\ UNCHANGED <<version, rowVars, entryVars, editing, history>>

(* Not modified: the row keeps the validator that was read. *)
NotModified(g) ==
  /\ InStep(g, "asking") /\ ~IsModified(g)
  /\ Becomes(g, [work[g] EXCEPT !.step = "saving", !.tag = work[g].asked])
  /\ UNCHANGED <<version, rowVars, entryVars, editing, history>>
-----------------------------------------------------------------------------
(* RefreshFeedEntries, CreateFeed and InsertEntryForFeed look whether the  *)
(* entry is there: entryExists, getEntryIDByHash.                          *)
CheckEntry(g) ==
  /\ InStep(g, "checking") /\ ~Done(g)
  /\ IF Item(g) \notin stored THEN Goes(g, "creating")
     ELSE IF work[g].update THEN Goes(g, "updating")
     ELSE NextItem(g)
  /\ UNCHANGED <<version, rowVars, entryVars, editing, history>>

(* updateEntry: an entry that has been deleted meanwhile is an error, see  *)
(* Fails.                                                                  *)
UpdateEntry(g) ==
  /\ InStep(g, "updating") /\ Item(g) \in stored
  /\ content' = [content EXCEPT ![Item(g)] = work[g].got]
  /\ NextItem(g)
  /\ UNCHANGED <<version, rowVars, stored, tombs, editing, history>>

(* createEntry's INSERT begins: WHERE NOT EXISTS looks for a tombstone. *)
BeginInsert(g) ==
  /\ InStep(g, "creating")
  /\ Becomes(g, [work[g] EXCEPT !.step = "inserting", !.saw = Item(g) \in tombs])
  /\ UNCHANGED <<version, rowVars, entryVars, editing, history>>

(* ErrEntryTombstoned: a refresh goes on, others fail (Fails). *)
SkipTombstoned(g) ==
  /\ InStep(g, "inserting") /\ work[g].saw
  /\ work[g].job = "refresh"
  /\ NextItem(g)
  /\ UNCHANGED <<version, rowVars, entryVars, editing, history>>

(* Faulty variant: no tombstone stops the INSERT.                          *)
MayInsertAnyway(g) == state = "present" /\ Item(g) \notin stored

(* The foreign key, the unique index and the tombstone allow the row. *)
MayInsert(g) == state = "present" /\ Item(g) \notin stored /\ ~work[g].saw

(* Faulty variant: the caller takes every entry of the document for a new  *)
(* one.                                                                    *)
AllAreNew(g) == ItemsOf(work[g].doc)

(* The INSERT ends and its transaction commits. *)
NewEntries(g) == work[g].fresh \cup {Item(g)}

EndInsert(g) ==
  /\ InStep(g, "inserting") /\ MayInsert(g)
  /\ stored' = stored \cup {Item(g)}
  /\ content' = [content EXCEPT ![Item(g)] = work[g].got]
  /\ Becomes(g, [work[g] EXCEPT !.step = "checking", !.at = @ + 1, !.fresh = NewEntries(g)])
  /\ UNCHANGED <<version, rowVars, tombs, editing, history>>

(* RefreshFeedEntries returns; PushEntries gets the new entries. *)
FinishRefresh(g) ==
  /\ InStep(g, "checking") /\ Done(g) /\ work[g].job = "refresh"
  /\ Goes(g, "saving")
  /\ UNCHANGED <<version, rowVars, entryVars, editing, history>>

FinishCreate(g) ==
  /\ InStep(g, "checking") /\ Done(g) /\ work[g].job = "create"
  /\ Ends(g)
  /\ unmade' = 0
  /\ UNCHANGED <<version, rowVars, entryVars, editing, raced, overlapped>>

FinishImport(g) ==
  /\ InStep(g, "checking") /\ Done(g) /\ work[g].job = "import"
  /\ Ends(g)
  /\ UNCHANGED <<version, rowVars, entryVars, editing, history>>

(* Faulty variant: UpdateFeed whatever became of the entries.              *)
SavesAnyway(g) == work[g].step \in {"updating", "inserting", "saving"}

Saves(g) == InStep(g, "saving")

(* UpdateFeed writes the validator, if the row is still there. *)
SaveRow(g) ==
  /\ Saves(g)
  /\ validator' = IF state = "present" THEN work[g].tag ELSE validator
  /\ Ends(g)
  /\ UNCHANGED <<version, state, entryVars, editing, history>>

(* A job fails: the request, the document, a query, a duplicate entry, an  *)
(* entry or a feed that is gone.  Entries before this one are committed.   *)
MustFail(g) ==
  \/ InStep(g, "updating") /\ Item(g) \notin stored
  \/ InStep(g, "inserting") /\ ~MayInsert(g) /\ ~(work[g].saw /\ work[g].job = "refresh")

Fails(g) ==
  /\ ~InStep(g, "idle")
  /\ Ends(g)
  /\ UNCHANGED <<version, rowVars, entryVars, editing, history>>
-----------------------------------------------------------------------------
(* The settings request reads the row and saves it, validator included. *)
ReadSettings(u) ==
  /\ state = "present"
  /\ editing' = [editing EXCEPT ![u] = {validator}]
  /\ UNCHANGED <<version, rowVars, entryVars, work, history>>

SaveSettings(u) ==
  /\ state = "present" /\ validator' \in editing[u]
  /\ editing' = [editing EXCEPT ![u] = {}]
  /\ UNCHANGED <<version, state, entryVars, work, history>>

(* FlushHistory and ArchiveEntries: one statement deletes entries of one   *)
(* status, neither starred nor shared, and buries them.  Which entries     *)
(* have that status, or are old enough, is left open.                      *)
Delete(gone) ==
  /\ gone # {}
  /\ stored' = stored \ gone
  /\ content' = [i \in Items |-> IF i \in gone THEN 0 ELSE content[i]]
  /\ tombs' = tombs \cup gone
  /\ raced' = raced \cup {i \in gone : \E g \in Goroutines :
                            InStep(g, "inserting") /\ Item(g) = i /\ ~work[g].saw}
  /\ UNCHANGED <<version, rowVars, work, editing, unmade, overlapped>>

(* The feed's entries and tombstones go with it, and what settings requests *)
(* have read finds no row any more.                                        *)
RemoveFeed ==
  /\ state = "present"
  /\ state' = "removed" /\ validator' = 0
  /\ stored' = {} /\ tombs' = {} /\ content' = [i \in Items |-> 0]
  /\ editing' = [u \in Editors |-> {}]
  /\ UNCHANGED <<version, work, history>>

Job(g) ==
  \/ Modified(g) \/ NotModified(g)
  \/ CheckEntry(g) \/ UpdateEntry(g)
  \/ BeginInsert(g) \/ SkipTombstoned(g) \/ EndInsert(g)
  \/ FinishRefresh(g) \/ FinishCreate(g) \/ FinishImport(g)
  \/ SaveRow(g)
  \/ MustFail(g) /\ Fails(g)

User ==
  \/ \E u \in Editors : ReadSettings(u) \/ SaveSettings(u)
  \/ RemoveFeed

RefreshNext ==
  \/ Publish
  \/ \E g \in Goroutines :
       \/ CreateRow(g)
       \/ \E forced \in BOOLEAN, sent \in Validators : StartRefresh(g, forced, sent)
       \/ \E i \in Items : Import(g, i)
       \/ Job(g)
       \/ Fails(g)
  \/ \E gone \in SUBSET stored : Delete(gone)
  \/ User

RefreshSpec == RefreshInit /\ [][RefreshNext]_refreshVars

(* The scheduler hands the feed to a worker again and again, and a job     *)
(* comes to an end: its requests and queries do.                           *)
RefreshFairness ==
  \A w \in Workers : /\ WF_refreshVars(\E sent \in Validators : StartRefresh(w, FALSE, sent))
                     /\ WF_refreshVars(Job(w))

RefreshFairSpec == RefreshSpec /\ RefreshFairness
-----------------------------------------------------------------------------
(* "Not modified" hides nothing: when the row has the validator of a       *)
(* document, each of its entries is stored or was deleted by the user or   *)
(* the archiving, unless the validator is that of a CreateFeed which did   *)
(* not come to its end (it saves the validator before the entries).        *)
Earned(v) == v \notin {0, unmade} => \A i \in ItemsOf(Documents[v]) : Known(i)

ValidatorsAreEarned == state = "present" => Earned(validator)

(* A deleted entry does not come back, unless the deletion committed while *)
(* an INSERT of the same entry was waiting for it (createEntry's guard is  *)
(* atomic with the snapshot of its statement, not with its end).           *)
DeletedStayDeleted == tombs \cap stored \subseteq raced

(* What PushEntries and the prefetching get as new was not known before    *)
(* the refresh began, and no two refreshes in progress claim it, but for a *)
(* deleted entry that has come back (RefreshFeedEntries).                  *)
NewEntriesAreNew ==
  \A g \in Goroutines :
    /\ work[g].fresh \cap work[g].before = {}
    /\ \A h \in Goroutines \ {g} : work[g].fresh \cap work[h].fresh \subseteq raced

(* Why.  A goroutine that stores a document has stored, or found buried,   *)
(* its entries up to where it is;                                          *)
Storing(g) == work[g].step \in {"checking", "creating", "inserting", "updating"}

StoredSoFar(g) ==
  /\ InStep(g, "asking") => work[g].at = 1
  /\ work[g].step \in {"creating", "inserting", "updating"} => ~Done(g)
  /\ Storing(g) /\ Fetches(g) =>
       /\ work[g].got \in Versions /\ work[g].doc = Documents[work[g].got]
       /\ work[g].tag \in {0, work[g].got}
       /\ \A k \in DOMAIN work[g].doc : k < work[g].at => Known(work[g].doc[k])

(* the validator it holds is earned;                                       *)
HoldsEarned(g) ==
  /\ InStep(g, "asking") => Earned(work[g].asked)
  /\ InStep(g, "saving") => Earned(work[g].tag)

(* an INSERT that does not see the tombstone of its entry is a raced one,  *)
(* and that of an entry known before does see it.                          *)
SeesTombstones(g) ==
  /\ InStep(g, "creating") /\ Item(g) \in work[g].before => Item(g) \in tombs
  /\ InStep(g, "inserting") /\ Item(g) \in work[g].before => work[g].saw
  /\ InStep(g, "inserting") /\ work[g].saw => Item(g) \in tombs
  /\ InStep(g, "inserting") /\ Item(g) \in tombs /\ ~work[g].saw => Item(g) \in raced
  /\ work[g].fresh \cup work[g].before \subseteq stored \cup tombs

JobInv(g) == StoredSoFar(g) /\ HoldsEarned(g) /\ SeesTombstones(g)

(* A creation in progress is the one that unmade stands for, if any. *)
CreatesUnmade(g) ==
  work[g].job = "create" => /\ Storing(g) /\ work[g].got \in Versions
                            /\ unmade \in {0, Tag(work[g].got)}

(* What a settings request will write back is earned too. *)
EditsEarned == \A u \in Editors : \A v \in editing[u] : Earned(v)

EntriesInv ==
  /\ RefreshTypeOK
  /\ ValidatorsAreEarned /\ DeletedStayDeleted /\ NewEntriesAreNew
  /\ state = "absent" => /\ \A g \in Goroutines : work[g] = Idle
                         /\ \A u \in Editors : editing[u] = {}
                         /\ stored = {} /\ tombs = {} /\ unmade = 0
  /\ state = "present" => /\ \A g \in Goroutines : JobInv(g) /\ CreatesUnmade(g)
                          /\ EditsEarned

(* As long as refreshes do not overlap, and no import the creation (which  *)
(* leaves an entry that is there as it is, and the validator with it), the *)
(* content of an entry is that of the validator's document or a later one, *)
(* unless the entry came back after its deletion.                          *)
ContentIsCurrent ==
  UpdatesExisting /\ ~overlapped /\ state = "present" /\ validator \notin {0, unmade} =>
    \A i \in (ItemsOf(Documents[validator]) \cap stored) \ raced : content[i] >= validator

(* An entry of the server's last document gets to its readers, unless      *)
(* requests or queries keep failing, the feed is removed or its creation   *)
(* has failed.                                                             *)
EveryItemArrives ==
  \/ []<><<\E w \in Workers : ~MustFail(w) /\ ~Saves(w) /\ Fails(w)>>_refreshVars
  \/ \A i \in Items :
       (state = "present" /\ i \in ItemsOf(Documents[version]))
         ~> (Known(i) \/ state = "removed" \/ i \notin ItemsOf(Documents[version])
             \/ unmade # 0)
=============================================================================
