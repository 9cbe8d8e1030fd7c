------------------------- MODULE FeedRefreshProofs -------------------------
(***************************************************************************)
(* Proofs about FeedRefresh.tla for any documents, goroutines, settings    *)
(* requests and entries: the inductive invariant EntriesInv holds, and     *)
(* with it what it says of validators, deleted entries and new entries;    *)
(* and with it ContentIInv, about the contents.                            *)
(***************************************************************************)
EXTENDS FeedRefresh, TLAPS

LEMMA DocumentsTyped ==
  ASSUME NEW v \in Versions
  PROVE  v \in Nat \ {0} /\ Documents[v] \in Seq(Items)
BY RefreshAssumption DEF Versions

LEMMA TagTyped == \A v \in Versions : Tag(v) \in Validators /\ Tag(v) \in {0, v}
BY DEF Tag, Validators

LEMMA IdleTyped == /\ Idle \in Jobs
                   /\ Idle.step = "idle" /\ Idle.job = "none" /\ Idle.at = 1 /\ Idle.doc = <<>>
                   /\ Idle.fresh = {} /\ Idle.before = {} /\ Idle.tag = 0
BY DEF Idle, Jobs, Validators

LEMMA WorkChanges ==
  ASSUME work \in [Goroutines -> Jobs], NEW g \in Goroutines, NEW job \in Jobs, Becomes(g, job)
  PROVE  /\ work' \in [Goroutines -> Jobs]
         /\ work'[g] = job
         /\ \A h \in Goroutines \ {g} : work'[h] = work[h]
BY DEF Becomes

(* What the steps of a job leave of the record. *)
LEMMA NextItemTyped ==
  ASSUME NEW j \in Jobs
  PROVE  LET n == [j EXCEPT !.step = "checking", !.at = @ + 1, !.saw = FALSE]
         IN  /\ n \in Jobs
             /\ n.step = "checking" /\ n.at = j.at + 1 /\ n.job = j.job /\ n.got = j.got
             /\ n.tag = j.tag /\ n.doc = j.doc /\ n.fresh = j.fresh /\ n.before = j.before
<1>1. j.at \in Nat \ {0}
  BY DEF Jobs
<1>2. j.at + 1 \in Nat \ {0}
  BY <1>1
<1> QED
  BY <1>2 DEF Jobs

LEMMA NotModifiedTyped ==
  ASSUME NEW j \in Jobs
  PROVE  LET n == [j EXCEPT !.step = "saving", !.tag = j.asked]
         IN  /\ n \in Jobs
             /\ n.step = "saving" /\ n.job = j.job
             /\ n.tag = j.asked /\ n.fresh = j.fresh /\ n.before = j.before
BY DEF Jobs

LEMMA BeginInsertTyped ==
  ASSUME NEW j \in Jobs, NEW saw \in BOOLEAN
  PROVE  LET n == [j EXCEPT !.step = "inserting", !.saw = saw]
         IN  /\ n \in Jobs
             /\ n.step = "inserting" /\ n.at = j.at /\ n.job = j.job /\ n.got = j.got /\ n.saw = saw
             /\ n.tag = j.tag /\ n.doc = j.doc /\ n.fresh = j.fresh /\ n.before = j.before
BY DEF Jobs

LEMMA CreateTyped ==
  ASSUME NEW j \in Jobs, NEW v \in Versions
  PROVE  LET n == [j EXCEPT !.job = "create", !.step = "checking", !.got = v, !.doc = Documents[v]]
         IN  /\ n \in Jobs
             /\ n.step = "checking" /\ n.job = "create" /\ n.got = v /\ n.doc = Documents[v]
             /\ n.tag = j.tag /\ n.at = j.at /\ n.fresh = j.fresh /\ n.before = j.before
BY DocumentsTyped DEF Jobs, Validators

LEMMA ImportTyped ==
  ASSUME NEW j \in Jobs, NEW doc \in Seq(Items)
  PROVE  LET n == [j EXCEPT !.job = "import", !.step = "checking", !.doc = doc]
         IN  /\ n \in Jobs
             /\ n.step = "checking" /\ n.job = "import"
             /\ n.fresh = j.fresh /\ n.before = j.before
BY DEF Jobs
-----------------------------------------------------------------------------
LEMMA EntriesInit == RefreshInit => EntriesInv
<1> SUFFICES ASSUME RefreshInit
             PROVE  EntriesInv
  OBVIOUS
<1>1. 1 \in Versions /\ 0 \in Validators
  BY RefreshAssumption DEF Versions, Validators
<1>2. RefreshTypeOK
  BY <1>1, IdleTyped DEF RefreshInit, RefreshTypeOK
<1>3. NewEntriesAreNew
  BY IdleTyped DEF RefreshInit, NewEntriesAreNew
<1>4. ValidatorsAreEarned /\ DeletedStayDeleted /\ state = "absent"
  BY DEF RefreshInit, ValidatorsAreEarned, DeletedStayDeleted
<1> QED
  BY <1>2, <1>3, <1>4 DEF EntriesInv, RefreshInit

(* A step keeps what it has to say of a goroutine it does not run, when    *)
(* known entries stay known and tombstones that the goroutine's INSERT has *)
(* missed are raced.                                                       *)
KnowledgeGrows ==
  /\ stored \cup tombs \subseteq stored' \cup tombs'
  /\ tombs \subseteq tombs' /\ raced \subseteq raced'
  /\ \A v \in Validators : Earned(v) => Earned(v)'

MissedAreRaced(h) ==
  InStep(h, "inserting") /\ ~work[h].saw /\ Item(h) \in tombs' \ tombs => Item(h) \in raced'

LEMMA OthersKeep ==
  ASSUME RefreshTypeOK, KnowledgeGrows, NEW h \in Goroutines, work'[h] = work[h],
         JobInv(h), CreatesUnmade(h), MissedAreRaced(h), unmade' \in {0, unmade}
  PROVE  JobInv(h)' /\ CreatesUnmade(h)'
<1>1. StoredSoFar(h)'
  BY DEF JobInv, StoredSoFar, Storing, Fetches, InStep, Done, Known, KnowledgeGrows
<1>2. HoldsEarned(h)'
  <2>1. work[h].asked \in Validators /\ work[h].tag \in Validators
    BY DEF RefreshTypeOK, Jobs
  <2> QED
    BY <2>1 DEF JobInv, HoldsEarned, InStep, KnowledgeGrows
<1>3. SeesTombstones(h)'
  BY DEF JobInv, SeesTombstones, InStep, Item, KnowledgeGrows, MissedAreRaced
<1>4. CreatesUnmade(h)'
  BY DEF CreatesUnmade, Storing, Tag
<1> QED
  BY <1>1, <1>2, <1>3, <1>4 DEF JobInv

(* A goroutine's step that leaves the row and the entries alone. *)
LEMMA JobStep ==
  ASSUME EntriesInv, state # "absent", NEW g \in Goroutines, NEW job \in Jobs, Becomes(g, job),
         UNCHANGED <<state, validator, stored, tombs, editing, unmade, raced>>,
         version' \in Versions, content' \in [Items -> Validators], overlapped' \in BOOLEAN,
         job.fresh \subseteq work[g].fresh, job.fresh \cap job.before = {},
         state = "present" => JobInv(g)' /\ CreatesUnmade(g)'
  PROVE  EntriesInv'
<1>1. RefreshTypeOK
  BY DEF EntriesInv
<1>2. /\ work' \in [Goroutines -> Jobs] /\ work'[g] = job
      /\ \A h \in Goroutines \ {g} : work'[h] = work[h]
  BY <1>1, WorkChanges DEF RefreshTypeOK
<1>3. RefreshTypeOK'
  BY <1>1, <1>2 DEF RefreshTypeOK
<1>4. KnowledgeGrows
  BY DEF KnowledgeGrows, Earned, Known
<1>5. ASSUME state = "present", NEW h \in Goroutines
      PROVE  JobInv(h)' /\ CreatesUnmade(h)'
  <2>1. CASE h = g
    BY <1>5, <2>1
  <2>2. CASE h # g
    <3>1. JobInv(h) /\ CreatesUnmade(h) /\ MissedAreRaced(h)
      BY <1>5 DEF EntriesInv, MissedAreRaced
    <3> QED
      BY <1>1, <1>2, <1>4, <2>2, <3>1, OthersKeep
  <2> QED
    BY <2>1, <2>2
<1>6. /\ ValidatorsAreEarned' /\ DeletedStayDeleted'
      /\ state = "present" => EditsEarned'
  BY DEF EditsEarned, EntriesInv, ValidatorsAreEarned, DeletedStayDeleted, Earned, Known
<1>7. NewEntriesAreNew'
  BY <1>2 DEF EntriesInv, NewEntriesAreNew
<1> QED
  BY <1>3, <1>5, <1>6, <1>7 DEF EntriesInv
-----------------------------------------------------------------------------
LEMMA BusyIsNotAbsent ==
  ASSUME EntriesInv, NEW g \in Goroutines, ~InStep(g, "idle")
  PROVE  state # "absent"
BY IdleTyped DEF EntriesInv, InStep

LEMMA JobTyped ==
  ASSUME EntriesInv, NEW g \in Goroutines
  PROVE  work[g] \in Jobs
BY DEF EntriesInv, RefreshTypeOK

(* Ends(g): Fails, FinishImport. *)
LEMMA EndsKeeps ==
  ASSUME EntriesInv, NEW g \in Goroutines, ~InStep(g, "idle"), Ends(g),
         UNCHANGED <<version, rowVars, entryVars, editing, history>>
  PROVE  EntriesInv'
<1>1. state # "absent"
  BY BusyIsNotAbsent
<1>2. work'[g] = Idle
  BY IdleTyped, WorkChanges DEF Ends, EntriesInv, RefreshTypeOK
<1>3. JobInv(g)' /\ CreatesUnmade(g)'
  BY <1>2, IdleTyped DEF JobInv, StoredSoFar, Storing, HoldsEarned, SeesTombstones, CreatesUnmade, InStep
<1> QED
  BY <1>1, <1>3, IdleTyped, JobStep DEF Ends, rowVars, entryVars, history, EntriesInv, RefreshTypeOK

LEMMA StartRefreshKeeps ==
  ASSUME EntriesInv, NEW g \in Goroutines, NEW forced \in BOOLEAN, NEW sent \in Validators,
         StartRefresh(g, forced, sent)
  PROVE  EntriesInv'
<1> DEFINE update == UpdatesEntries(forced)
           before == stored \cup tombs
           job == [Idle EXCEPT !.job = "refresh", !.step = "asking", !.asked = sent,
                               !.update = update, !.before = before]
<1>1. /\ Becomes(g, job) /\ state = "present" /\ sent \in {0, validator}
      /\ UNCHANGED <<version, rowVars, entryVars, editing, unmade, raced>>
      /\ overlapped' = (overlapped \/ ~Alone(g))
  BY DEF StartRefresh, Begin
<1>2. RefreshTypeOK
  BY DEF EntriesInv
<1>3. update \in BOOLEAN /\ before \in SUBSET Items
  BY <1>2, RefreshAssumption DEF RefreshTypeOK, Validators, UpdatesEntries
<1>a. before = stored \cup tombs
  OBVIOUS
<1> HIDE DEF update, before
<1>b. /\ job \in Jobs
      /\ job.step = "asking" /\ job.job = "refresh" /\ job.asked = sent /\ job.at = 1
      /\ job.fresh = {} /\ job.before = before
  <2> DEFINE j == Idle
  <2>1. j \in Jobs /\ j.fresh = {} /\ j.at = 1
    BY IdleTyped
  <2>2. job = [j EXCEPT !.job = "refresh", !.step = "asking", !.asked = sent,
                        !.update = update, !.before = before]
    OBVIOUS
  <2> HIDE DEF j, job
  <2>3. LET n == [j EXCEPT !.job = "refresh", !.step = "asking", !.asked = sent,
                           !.update = update, !.before = before]
        IN  /\ n \in Jobs
            /\ n.step = "asking" /\ n.job = "refresh" /\ n.asked = sent /\ n.at = j.at
            /\ n.fresh = j.fresh /\ n.before = before
    BY <1>3, <2>1 DEF Jobs
  <2> QED
    BY <2>1, <2>2, <2>3
<1> HIDE DEF job
<1>4. /\ job \in Jobs
      /\ job.step = "asking" /\ job.job = "refresh" /\ job.asked = sent /\ job.at = 1
      /\ job.fresh = {} /\ job.before = stored \cup tombs
  BY <1>a, <1>b
<1>5. work'[g] = job
  BY <1>1, <1>2, <1>4, WorkChanges DEF RefreshTypeOK
<1>6. UNCHANGED <<state, validator, stored, tombs, editing, unmade, raced, version, content>>
  BY <1>1 DEF rowVars, entryVars
<1>7. JobInv(g)'
  <2>1. HoldsEarned(g)'
    <3>1. Earned(job.asked)
      BY <1>1, <1>4 DEF EntriesInv, ValidatorsAreEarned, Earned
    <3> QED
      BY <1>4, <1>5, <1>6, <3>1 DEF HoldsEarned, InStep, Earned, Known
  <2> QED
    BY <1>4, <1>5, <1>6, <2>1 DEF JobInv, StoredSoFar, Storing, SeesTombstones, InStep
<1>8. CreatesUnmade(g)'
  BY <1>4, <1>5 DEF CreatesUnmade
<1>9. overlapped' \in BOOLEAN
  BY <1>1, <1>2 DEF RefreshTypeOK
<1> QED
  BY <1>1, <1>2, <1>4, <1>6, <1>7, <1>8, <1>9, JobStep DEF RefreshTypeOK

LEMMA ImportKeeps ==
  ASSUME EntriesInv, NEW g \in Goroutines, NEW i \in Items, Import(g, i)
  PROVE  EntriesInv'
<1> DEFINE job == [Idle EXCEPT !.job = "import", !.step = "checking", !.doc = <<i>>]
<1>1. /\ Becomes(g, job) /\ state = "present" /\ overlapped' \in BOOLEAN
      /\ UNCHANGED <<version, rowVars, entryVars, editing, unmade, raced>>
  BY DEF Import, Begin, EntriesInv, RefreshTypeOK
<1>2. RefreshTypeOK
  BY DEF EntriesInv
<1>3. <<i>> \in Seq(Items)
  OBVIOUS
<1>4. /\ job \in Jobs /\ job.step = "checking" /\ job.job = "import"
      /\ job.fresh = {} /\ job.before = {}
  BY <1>3, IdleTyped, ImportTyped
<1> HIDE DEF job
<1>5. work'[g] = job
  BY <1>1, <1>2, <1>4, WorkChanges DEF RefreshTypeOK
<1>6. JobInv(g)' /\ CreatesUnmade(g)'
  BY <1>4, <1>5 DEF JobInv, StoredSoFar, Storing, Fetches, HoldsEarned, SeesTombstones, CreatesUnmade, InStep
<1> QED
  BY <1>1, <1>2, <1>4, <1>6, JobStep DEF RefreshTypeOK, rowVars, entryVars

LEMMA ModifiedKeeps ==
  ASSUME EntriesInv, NEW g \in Goroutines, Modified(g)
  PROVE  EntriesInv'
<1> DEFINE job == [work[g] EXCEPT !.step = "checking", !.asked = 0, !.got = version,
                                  !.tag = Tag(version), !.doc = Documents[version]]
<1>1. /\ Becomes(g, job) /\ InStep(g, "asking")
      /\ UNCHANGED <<version, rowVars, entryVars, editing, history>>
  BY DEF Modified
<1>2. RefreshTypeOK /\ work[g] \in Jobs /\ state # "absent"
  BY <1>1, JobTyped, BusyIsNotAbsent DEF EntriesInv, InStep
<1>3. /\ job \in Jobs /\ job.step = "checking" /\ job.at = work[g].at /\ job.job = work[g].job
      /\ job.got = version /\ job.tag = Tag(version) /\ job.doc = Documents[version]
      /\ job.fresh = work[g].fresh /\ job.before = work[g].before
  <2>1. version \in Validators /\ Tag(version) \in Validators /\ Documents[version] \in Seq(Items)
    BY <1>2, TagTyped, DocumentsTyped DEF RefreshTypeOK, Validators
  <2> QED
    BY <1>2, <2>1 DEF Jobs, Validators
<1> HIDE DEF job
<1>4. work'[g] = job
  BY <1>1, <1>2, <1>3, WorkChanges DEF RefreshTypeOK
<1>5. ASSUME state = "present"
      PROVE  JobInv(g)' /\ CreatesUnmade(g)'
  <2>1. JobInv(g) /\ CreatesUnmade(g) /\ work[g].at = 1 /\ work[g].job # "create"
    BY <1>1, <1>5 DEF EntriesInv, JobInv, StoredSoFar, CreatesUnmade, Storing, InStep
  <2>2. version \in Versions /\ \A k \in DOMAIN Documents[version] : ~(k < 1)
    BY <1>2, DocumentsTyped DEF RefreshTypeOK
  <2>3. StoredSoFar(g)'
    BY <1>3, <1>4, <2>1, <2>2, TagTyped DEF StoredSoFar, InStep
  <2>4. SeesTombstones(g)' /\ HoldsEarned(g)'
    BY <1>1, <1>3, <1>4, <2>1 DEF JobInv, SeesTombstones, HoldsEarned, InStep, entryVars, history
  <2> QED
    BY <1>3, <1>4, <2>1, <2>3, <2>4 DEF JobInv, CreatesUnmade
<1>6. job.fresh \cap job.before = {}
  BY <1>3 DEF EntriesInv, NewEntriesAreNew
<1> QED
  BY <1>1, <1>2, <1>3, <1>5, <1>6, JobStep DEF RefreshTypeOK, rowVars, entryVars, history

LEMMA NotModifiedKeeps ==
  ASSUME EntriesInv, NEW g \in Goroutines, NotModified(g)
  PROVE  EntriesInv'
<1> DEFINE job == [work[g] EXCEPT !.step = "saving", !.tag = work[g].asked]
<1>1. /\ Becomes(g, job) /\ InStep(g, "asking")
      /\ UNCHANGED <<version, rowVars, entryVars, editing, history>>
  BY DEF NotModified
<1>2. RefreshTypeOK /\ work[g] \in Jobs /\ state # "absent"
  BY <1>1, JobTyped, BusyIsNotAbsent DEF EntriesInv, InStep
<1>3. /\ job \in Jobs /\ job.step = "saving" /\ job.job = work[g].job /\ job.tag = work[g].asked
      /\ job.fresh = work[g].fresh /\ job.before = work[g].before
  BY <1>2, NotModifiedTyped
<1> HIDE DEF job
<1>4. work'[g] = job
  BY <1>1, <1>2, <1>3, WorkChanges DEF RefreshTypeOK
<1>5. ASSUME state = "present"
      PROVE  JobInv(g)' /\ CreatesUnmade(g)'
  <2>1. JobInv(g) /\ Earned(work[g].asked) /\ work[g].job # "create"
    BY <1>1, <1>5 DEF EntriesInv, JobInv, HoldsEarned, CreatesUnmade, Storing, InStep
  <2>2. StoredSoFar(g)' /\ SeesTombstones(g)'
    BY <1>1, <1>3, <1>4, <2>1 DEF JobInv, StoredSoFar, Storing, SeesTombstones, InStep, entryVars
  <2>3. HoldsEarned(g)'
    BY <1>1, <1>3, <1>4, <2>1 DEF HoldsEarned, Earned, Known, InStep, entryVars, history
  <2> QED
    BY <1>3, <1>4, <2>1, <2>2, <2>3 DEF JobInv, CreatesUnmade
<1>6. job.fresh \cap job.before = {}
  BY <1>3 DEF EntriesInv, NewEntriesAreNew
<1> QED
  BY <1>1, <1>2, <1>3, <1>5, <1>6, JobStep DEF RefreshTypeOK, rowVars, entryVars, history
-----------------------------------------------------------------------------
(* Steps within a document: the record changes its step, and the entries   *)
(* before the one it has come to are known.                                *)
LEMMA StoringStep ==
  ASSUME EntriesInv, state # "absent", NEW g \in Goroutines, Storing(g), NEW job \in Jobs, Becomes(g, job),
         UNCHANGED <<state, validator, stored, tombs, editing, unmade, raced>>,
         version' \in Versions, content' \in [Items -> Validators], overlapped' \in BOOLEAN,
         job.job = work[g].job, job.got = work[g].got, job.tag = work[g].tag, job.doc = work[g].doc,
         job.fresh = work[g].fresh, job.before = work[g].before,
         \/ job.at = work[g].at
         \/ job.at = work[g].at + 1 /\ (state = "present" => Known(Item(g))),
         job.step \in {"checking", "creating", "inserting", "updating"},
         job.step # "checking" => job.at = work[g].at /\ (state = "present" => ~Done(g)),
         state = "present" => SeesTombstones(g)'
  PROVE  EntriesInv'
<1>1. RefreshTypeOK /\ work[g] \in Jobs
  BY JobTyped DEF EntriesInv
<1>2. work'[g] = job
  BY <1>1, WorkChanges DEF RefreshTypeOK
<1>3. ASSUME state = "present"
      PROVE  JobInv(g)' /\ CreatesUnmade(g)'
  <2>1. StoredSoFar(g) /\ CreatesUnmade(g)
    BY <1>3 DEF EntriesInv, JobInv
  <2>2. HoldsEarned(g)' /\ CreatesUnmade(g)'
    BY <1>2, <2>1 DEF HoldsEarned, CreatesUnmade, InStep, Storing, Tag
  <2>3. StoredSoFar(g)'
    <3> SUFFICES ASSUME Fetches(g)
                 PROVE  \A k \in DOMAIN work[g].doc : k < job.at => Known(work[g].doc[k])
      BY <1>2, <1>3, <2>1 DEF StoredSoFar, InStep, Storing, Fetches, Known, Done
    <3>1. \A k \in DOMAIN work[g].doc : k < work[g].at => Known(work[g].doc[k])
      BY <2>1 DEF StoredSoFar
    <3>2. work[g].at \in Nat /\ DOMAIN work[g].doc \subseteq Nat
      BY <1>1 DEF Jobs
    <3> QED
      BY <1>3, <3>1, <3>2 DEF Item
  <2> QED
    BY <1>3, <2>2, <2>3 DEF JobInv
<1>4. job.fresh \cap job.before = {}
  BY DEF EntriesInv, NewEntriesAreNew
<1> QED
  BY <1>3, <1>4, JobStep

(* NextItem(g), from a step whose entry is known. *)
LEMMA NextItemKeeps ==
  ASSUME EntriesInv, NEW g \in Goroutines, Storing(g), NextItem(g),
         state = "present" => Known(Item(g)),
         UNCHANGED <<version, state, validator, stored, tombs, editing, unmade, raced, overlapped>>,
         content' \in [Items -> Validators]
  PROVE  EntriesInv'
<1>1. RefreshTypeOK /\ work[g] \in Jobs /\ state # "absent"
  BY JobTyped, BusyIsNotAbsent DEF EntriesInv, InStep, Storing
<1> DEFINE job == [work[g] EXCEPT !.step = "checking", !.at = @ + 1, !.saw = FALSE]
<1>2. Becomes(g, job)
  BY DEF NextItem
<1>3. /\ job \in Jobs /\ job.step = "checking" /\ job.at = work[g].at + 1 /\ job.job = work[g].job
      /\ job.got = work[g].got /\ job.tag = work[g].tag /\ job.doc = work[g].doc
      /\ job.fresh = work[g].fresh /\ job.before = work[g].before
  BY <1>1, NextItemTyped
<1> HIDE DEF job
<1>4. work'[g] = job
  BY <1>1, <1>2, <1>3, WorkChanges DEF RefreshTypeOK
<1>5. state = "present" => SeesTombstones(g)'
  BY <1>3, <1>4 DEF EntriesInv, JobInv, SeesTombstones, InStep
<1> QED
  BY <1>1, <1>2, <1>3, <1>5, StoringStep DEF RefreshTypeOK

LEMMA CheckEntryKeeps ==
  ASSUME EntriesInv, NEW g \in Goroutines, CheckEntry(g)
  PROVE  EntriesInv'
<1>1. /\ InStep(g, "checking")
      /\ UNCHANGED <<version, rowVars, entryVars, editing, history>>
  BY DEF CheckEntry
<1>2. RefreshTypeOK /\ work[g] \in Jobs /\ state # "absent" /\ Storing(g)
  BY <1>1, JobTyped, BusyIsNotAbsent DEF EntriesInv, InStep, Storing
<1>3. UNCHANGED <<version, state, validator, stored, tombs, content, editing, unmade, raced, overlapped>>
  BY <1>1 DEF rowVars, entryVars, history
<1>4. state = "present" => SeesTombstones(g)
  BY DEF EntriesInv, JobInv
<1>5. ASSUME NEW s \in {"creating", "updating"}, Goes(g, s), s = "creating" <=> Item(g) \notin stored
      PROVE  EntriesInv'
  <2> DEFINE job == [work[g] EXCEPT !.step = s]
  <2>1. Becomes(g, job)
    BY <1>5 DEF Goes
  <2>2. /\ job \in Jobs /\ job.step = s /\ job.at = work[g].at /\ job.job = work[g].job
        /\ job.got = work[g].got /\ job.tag = work[g].tag /\ job.doc = work[g].doc
        /\ job.fresh = work[g].fresh /\ job.before = work[g].before
    BY <1>2, <1>5 DEF Jobs
  <2> HIDE DEF job
  <2>3. work'[g] = job
    BY <1>2, <2>1, <2>2, WorkChanges DEF RefreshTypeOK
  <2>4. state = "present" => SeesTombstones(g)'
    BY <1>3, <1>4, <1>5, <2>2, <2>3 DEF SeesTombstones, InStep, Item
  <2> QED
    BY <1>1, <1>2, <1>3, <2>1, <2>2, <2>4, StoringStep DEF RefreshTypeOK, CheckEntry
<1>6. ASSUME NextItem(g), Item(g) \in stored
      PROVE  EntriesInv'
  BY <1>2, <1>3, <1>6, NextItemKeeps DEF Known, RefreshTypeOK
<1> QED
  BY <1>5, <1>6 DEF CheckEntry

LEMMA UpdateEntryKeeps ==
  ASSUME EntriesInv, NEW g \in Goroutines, UpdateEntry(g)
  PROVE  EntriesInv'
<1>1. RefreshTypeOK /\ work[g] \in Jobs
  BY JobTyped DEF EntriesInv
<1>2. content' = [content EXCEPT ![Item(g)] = work[g].got]
  BY DEF UpdateEntry
<1>3. content' \in [Items -> Validators]
  BY <1>1, <1>2 DEF RefreshTypeOK, Jobs
<1> QED
  BY <1>3, NextItemKeeps DEF UpdateEntry, Storing, InStep, Known, rowVars, history

LEMMA SkipKeeps ==
  ASSUME EntriesInv, NEW g \in Goroutines, SkipTombstoned(g)
  PROVE  EntriesInv'
<1>1. state = "present" => Known(Item(g))
  BY DEF EntriesInv, JobInv, SeesTombstones, SkipTombstoned, Known
<1>2. content' \in [Items -> Validators]
  BY DEF EntriesInv, RefreshTypeOK, SkipTombstoned, entryVars
<1> QED
  BY <1>1, <1>2, NextItemKeeps DEF SkipTombstoned, Storing, InStep, rowVars, entryVars, history

LEMMA BeginInsertKeeps ==
  ASSUME EntriesInv, NEW g \in Goroutines, BeginInsert(g)
  PROVE  EntriesInv'
<1> DEFINE saw == Item(g) \in tombs
           job == [work[g] EXCEPT !.step = "inserting", !.saw = saw]
<1>1. /\ Becomes(g, job) /\ InStep(g, "creating")
      /\ UNCHANGED <<version, rowVars, entryVars, editing, history>>
  BY DEF BeginInsert
<1>2. RefreshTypeOK /\ work[g] \in Jobs /\ state # "absent" /\ Storing(g)
  BY <1>1, JobTyped, BusyIsNotAbsent DEF EntriesInv, InStep, Storing
<1>3. UNCHANGED <<version, state, validator, stored, tombs, content, editing, unmade, raced, overlapped>>
  BY <1>1 DEF rowVars, entryVars, history
<1>4. saw \in BOOLEAN /\ saw = (Item(g) \in tombs)
  OBVIOUS
<1> HIDE DEF saw
<1>5. /\ job \in Jobs /\ job.step = "inserting" /\ job.at = work[g].at /\ job.job = work[g].job
      /\ job.got = work[g].got /\ job.tag = work[g].tag /\ job.doc = work[g].doc
      /\ job.fresh = work[g].fresh /\ job.before = work[g].before /\ job.saw = saw
  BY <1>2, <1>4 DEF Jobs
<1> HIDE DEF job
<1>6. work'[g] = job
  BY <1>1, <1>2, <1>5, WorkChanges DEF RefreshTypeOK
<1>7. state = "present" => SeesTombstones(g)'
  <2> SUFFICES ASSUME state = "present"
               PROVE  SeesTombstones(g)'
    OBVIOUS
  <2>1. SeesTombstones(g)
    BY DEF EntriesInv, JobInv
  <2>2. Item(g)' = Item(g)
    BY <1>5, <1>6 DEF Item
  <2> QED
    BY <1>1, <1>3, <1>4, <1>5, <1>6, <2>1, <2>2 DEF SeesTombstones, InStep
<1>8. state = "present" => ~Done(g)
  BY <1>1 DEF EntriesInv, JobInv, StoredSoFar, InStep
<1> QED
  BY <1>1, <1>2, <1>3, <1>5, <1>7, <1>8, StoringStep DEF RefreshTypeOK

LEMMA FinishRefreshKeeps ==
  ASSUME EntriesInv, NEW g \in Goroutines, FinishRefresh(g)
  PROVE  EntriesInv'
<1> DEFINE job == [work[g] EXCEPT !.step = "saving"]
<1>1. /\ Becomes(g, job) /\ InStep(g, "checking") /\ Done(g) /\ work[g].job = "refresh"
      /\ UNCHANGED <<version, rowVars, entryVars, editing, history>>
  BY DEF FinishRefresh, Goes
<1>2. RefreshTypeOK /\ work[g] \in Jobs /\ state # "absent"
  BY <1>1, JobTyped, BusyIsNotAbsent DEF EntriesInv, InStep
<1>3. /\ job \in Jobs /\ job.step = "saving" /\ job.job = work[g].job /\ job.tag = work[g].tag
      /\ job.fresh = work[g].fresh /\ job.before = work[g].before
  BY <1>2 DEF Jobs
<1> HIDE DEF job
<1>4. work'[g] = job
  BY <1>1, <1>2, <1>3, WorkChanges DEF RefreshTypeOK
<1>5. ASSUME state = "present"
      PROVE  JobInv(g)' /\ CreatesUnmade(g)'
  <2>1. JobInv(g)
    BY <1>5 DEF EntriesInv
  <2>2. Earned(work[g].tag)
    <3>1. /\ work[g].got \in Versions /\ work[g].doc = Documents[work[g].got]
          /\ work[g].tag \in {0, work[g].got}
          /\ \A k \in DOMAIN work[g].doc : k < work[g].at => Known(work[g].doc[k])
      BY <1>1, <2>1 DEF JobInv, StoredSoFar, Storing, Fetches, InStep
    <3>2. \A k \in DOMAIN work[g].doc : k < work[g].at
      BY <1>1, <1>2 DEF Done, Jobs
    <3> QED
      BY <3>1, <3>2 DEF Earned, ItemsOf
  <2>3. StoredSoFar(g)' /\ SeesTombstones(g)'
    BY <1>1, <1>3, <1>4, <2>1 DEF JobInv, StoredSoFar, Storing, SeesTombstones, InStep, entryVars
  <2>4. HoldsEarned(g)'
    BY <1>1, <1>3, <1>4, <2>2 DEF HoldsEarned, Earned, Known, InStep, entryVars, history
  <2> QED
    BY <1>1, <1>3, <1>4, <2>3, <2>4 DEF JobInv, CreatesUnmade
<1>6. job.fresh \cap job.before = {}
  BY <1>3 DEF EntriesInv, NewEntriesAreNew
<1> QED
  BY <1>1, <1>2, <1>3, <1>5, <1>6, JobStep DEF RefreshTypeOK, rowVars, entryVars, history
-----------------------------------------------------------------------------
(* The entry of a new row was not known before the job began, and if       *)
(* another refresh in progress has claimed it, it was deleted under this   *)
(* INSERT.                                                                 *)
LEMMA EndInsertKeeps ==
  ASSUME EntriesInv, NEW g \in Goroutines, EndInsert(g)
  PROVE  EntriesInv'
<1> DEFINE i == Item(g)
           fresh == NewEntries(g)
           job == [work[g] EXCEPT !.step = "checking", !.at = @ + 1, !.fresh = fresh]
<1>1. /\ InStep(g, "inserting") /\ MayInsert(g)
      /\ stored' = stored \cup {i} /\ content' = [content EXCEPT ![i] = work[g].got]
      /\ Becomes(g, job)
      /\ UNCHANGED <<version, rowVars, tombs, editing, history>>
  BY DEF EndInsert
<1>2. RefreshTypeOK /\ work[g] \in Jobs /\ state = "present" /\ i \notin stored /\ ~work[g].saw
  BY <1>1, JobTyped DEF EntriesInv, MayInsert
<1>3. UNCHANGED <<version, state, validator, tombs, editing, unmade, raced, overlapped>>
  BY <1>1 DEF rowVars, history
<1>4. SeesTombstones(g) /\ i \notin work[g].before /\ (i \in tombs => i \in raced)
  BY <1>1, <1>2 DEF EntriesInv, JobInv, SeesTombstones
<1>5. i \in Items /\ fresh \in SUBSET Items /\ fresh = work[g].fresh \cup {i}
  <2>1. ~Done(g)
    BY <1>1, <1>2 DEF EntriesInv, JobInv, StoredSoFar, InStep
  <2>2. work[g].at \in DOMAIN work[g].doc /\ work[g].doc \in Seq(Items)
    BY <1>2, <2>1 DEF Jobs, Done
  <2> QED
    BY <1>2, <2>2 DEF Item, Jobs, NewEntries
<1>6. stored' \subseteq Items /\ content' \in [Items -> Validators]
  BY <1>1, <1>2, <1>5 DEF RefreshTypeOK, Jobs
<1> HIDE DEF i, fresh
<1>7. /\ job \in Jobs /\ job.step = "checking" /\ job.at = work[g].at + 1 /\ job.job = work[g].job
      /\ job.got = work[g].got /\ job.tag = work[g].tag /\ job.doc = work[g].doc
      /\ job.fresh = fresh /\ job.before = work[g].before
  <2>1. work[g].at + 1 \in Nat \ {0}
    BY <1>2 DEF Jobs
  <2> QED
    BY <1>2, <1>5, <2>1 DEF Jobs
<1> HIDE DEF job
<1>8. /\ work' \in [Goroutines -> Jobs] /\ work'[g] = job
      /\ \A h \in Goroutines \ {g} : work'[h] = work[h]
  BY <1>1, <1>2, <1>7, WorkChanges DEF RefreshTypeOK
<1>9. RefreshTypeOK'
  BY <1>2, <1>3, <1>6, <1>8 DEF RefreshTypeOK
<1>10. KnowledgeGrows
  BY <1>1, <1>3 DEF KnowledgeGrows, Earned, Known
<1>11. JobInv(g)' /\ CreatesUnmade(g)'
  <2>1. StoredSoFar(g) /\ CreatesUnmade(g)
    BY <1>2 DEF EntriesInv, JobInv
  <2>2. StoredSoFar(g)'
    <3> SUFFICES ASSUME Fetches(g), NEW k \in DOMAIN work[g].doc, k < work[g].at + 1
                 PROVE  work[g].doc[k] \in stored' \cup tombs'
      BY <1>1, <1>7, <1>8, <2>1 DEF StoredSoFar, InStep, Storing, Fetches, Known
    <3>1. k < work[g].at => Known(work[g].doc[k])
      BY <1>1, <2>1 DEF StoredSoFar, InStep, Storing
    <3>2. k \in Nat /\ work[g].at \in Nat
      BY <1>2 DEF Jobs
    <3>3. CASE k < work[g].at
      BY <1>1, <1>3, <3>1, <3>3 DEF Known
    <3>4. CASE k = work[g].at
      BY <1>1, <3>4 DEF i, Item
    <3> QED
      BY <3>2, <3>3, <3>4
  <2>3. HoldsEarned(g)' /\ CreatesUnmade(g)'
    BY <1>1, <1>3, <1>7, <1>8, <2>1 DEF HoldsEarned, CreatesUnmade, InStep, Storing, Tag
  <2>4. SeesTombstones(g)'
    BY <1>1, <1>3, <1>4, <1>5, <1>7, <1>8 DEF SeesTombstones, InStep
  <2> QED
    BY <2>2, <2>3, <2>4 DEF JobInv
<1>12. \A h \in Goroutines : JobInv(h)' /\ CreatesUnmade(h)'
  <2>1. ASSUME NEW h \in Goroutines \ {g}
        PROVE  JobInv(h)' /\ CreatesUnmade(h)'
    <3>1. JobInv(h) /\ CreatesUnmade(h)
      BY <1>2 DEF EntriesInv
    <3>2. MissedAreRaced(h)
      BY <1>3 DEF MissedAreRaced
    <3> QED
      BY <1>2, <1>3, <1>8, <1>10, <3>1, <3>2, OthersKeep
  <2> QED
    BY <1>11, <2>1
<1>13. DeletedStayDeleted'
  BY <1>1, <1>3, <1>4 DEF EntriesInv, DeletedStayDeleted
<1>14. NewEntriesAreNew'
  <2>1. ASSUME NEW h \in Goroutines \ {g}, i \in work[h].fresh
        PROVE  i \in raced
    <3>1. i \in stored \cup tombs
      BY <1>2, <2>1 DEF EntriesInv, JobInv, SeesTombstones
    <3> QED
      BY <1>2, <1>4, <3>1
  <2>2. job.fresh \cap job.before = {}
    BY <1>4, <1>5, <1>7 DEF EntriesInv, NewEntriesAreNew
  <2> QED
    BY <1>3, <1>5, <1>7, <1>8, <2>1, <2>2 DEF EntriesInv, NewEntriesAreNew
<1>15. ValidatorsAreEarned' /\ EditsEarned'
  <2>1. \A v \in Validators : Earned(v) => Earned(v)'
    BY <1>10 DEF KnowledgeGrows
  <2>2. validator \in Validators /\ \A u \in Editors : editing[u] \subseteq Validators
    BY <1>2 DEF RefreshTypeOK
  <2>3. Earned(validator) /\ EditsEarned
    BY <1>2 DEF EntriesInv, ValidatorsAreEarned
  <2> QED
    BY <1>3, <2>1, <2>2, <2>3 DEF EditsEarned, ValidatorsAreEarned
<1> QED
  BY <1>2, <1>3, <1>9, <1>12, <1>13, <1>14, <1>15 DEF EntriesInv
-----------------------------------------------------------------------------
(* Every entry of the document is known, so its validator is earned now.   *)
LEMMA FinishCreateKeeps ==
  ASSUME EntriesInv, NEW g \in Goroutines, FinishCreate(g)
  PROVE  EntriesInv'
<1>1. /\ InStep(g, "checking") /\ Done(g) /\ work[g].job = "create" /\ Becomes(g, Idle)
      /\ unmade' = 0
      /\ UNCHANGED <<version, state, validator, stored, tombs, content, editing, raced, overlapped>>
  BY DEF FinishCreate, Ends, rowVars, entryVars
<1>2. RefreshTypeOK /\ work[g] \in Jobs /\ state # "absent"
  BY <1>1, JobTyped, BusyIsNotAbsent DEF EntriesInv, InStep
<1>3. /\ work' \in [Goroutines -> Jobs] /\ work'[g] = Idle
      /\ \A h \in Goroutines \ {g} : work'[h] = work[h]
  BY <1>1, <1>2, IdleTyped, WorkChanges DEF RefreshTypeOK
<1>4. RefreshTypeOK'
  BY <1>1, <1>2, <1>3 DEF RefreshTypeOK, Validators
<1>5. DeletedStayDeleted' /\ NewEntriesAreNew'
  BY <1>1, <1>3, IdleTyped DEF EntriesInv, DeletedStayDeleted, NewEntriesAreNew
<1>6. ASSUME state = "present"
      PROVE  /\ ValidatorsAreEarned' /\ EditsEarned'
             /\ \A h \in Goroutines : JobInv(h)' /\ CreatesUnmade(h)'
  <2>1. JobInv(g) /\ CreatesUnmade(g)
    BY <1>6 DEF EntriesInv
  <2>2. \A i \in ItemsOf(Documents[work[g].got]) : Known(i)
    <3>1. /\ work[g].doc = Documents[work[g].got]
          /\ \A k \in DOMAIN work[g].doc : k < work[g].at => Known(work[g].doc[k])
      BY <1>1, <2>1 DEF JobInv, StoredSoFar, Storing, Fetches, InStep
    <3>2. \A k \in DOMAIN work[g].doc : k < work[g].at
      BY <1>1, <1>2 DEF Done, Jobs
    <3> QED
      BY <3>1, <3>2 DEF ItemsOf
  <2>3. unmade \in {0, work[g].got}
    BY <1>1, <2>1, TagTyped DEF CreatesUnmade
  <2>4. \A v \in Validators : Earned(v) => Earned(v)'
    BY <1>1, <2>2, <2>3 DEF Earned, Known
  <2>5. KnowledgeGrows
    BY <1>1, <2>4 DEF KnowledgeGrows
  <2>6. ASSUME NEW h \in Goroutines \ {g}
        PROVE  JobInv(h)' /\ CreatesUnmade(h)'
    <3>1. JobInv(h) /\ CreatesUnmade(h) /\ MissedAreRaced(h)
      BY <1>1, <1>6 DEF EntriesInv, MissedAreRaced
    <3> QED
      BY <1>1, <1>2, <1>3, <2>5, <3>1, OthersKeep
  <2>7. JobInv(g)' /\ CreatesUnmade(g)'
    BY <1>3, IdleTyped DEF JobInv, StoredSoFar, Storing, HoldsEarned, SeesTombstones, CreatesUnmade, InStep
  <2>8. validator \in Validators /\ \A u \in Editors : editing[u] \subseteq Validators
    BY <1>2 DEF RefreshTypeOK
  <2>9. Earned(validator) /\ EditsEarned
    BY <1>6 DEF EntriesInv, ValidatorsAreEarned
  <2> QED
    BY <1>1, <2>4, <2>6, <2>7, <2>8, <2>9 DEF EditsEarned, ValidatorsAreEarned
<1> QED
  BY <1>1, <1>2, <1>4, <1>5, <1>6 DEF EntriesInv, ValidatorsAreEarned

LEMMA SaveRowKeeps ==
  ASSUME EntriesInv, NEW g \in Goroutines, SaveRow(g)
  PROVE  EntriesInv'
<1>1. /\ InStep(g, "saving") /\ Ends(g)
      /\ validator' = IF state = "present" THEN work[g].tag ELSE validator
      /\ UNCHANGED <<version, state, entryVars, editing, history>>
  BY DEF SaveRow, Saves
<1>2. RefreshTypeOK /\ work[g] \in Jobs /\ state # "absent"
  BY <1>1, JobTyped, BusyIsNotAbsent DEF EntriesInv, InStep
<1>3. /\ work' \in [Goroutines -> Jobs] /\ work'[g] = Idle
      /\ \A h \in Goroutines \ {g} : work'[h] = work[h]
  BY <1>1, <1>2, IdleTyped, WorkChanges DEF RefreshTypeOK, Ends
<1>4. UNCHANGED <<version, state, stored, tombs, content, editing, unmade, raced, overlapped>>
  BY <1>1 DEF entryVars, history
<1>5. RefreshTypeOK'
  BY <1>1, <1>2, <1>3, <1>4 DEF RefreshTypeOK, Jobs
<1>6. DeletedStayDeleted' /\ NewEntriesAreNew'
  BY <1>3, <1>4, IdleTyped DEF EntriesInv, DeletedStayDeleted, NewEntriesAreNew
<1>7. ASSUME state = "present"
      PROVE  /\ ValidatorsAreEarned' /\ EditsEarned'
             /\ \A h \in Goroutines : JobInv(h)' /\ CreatesUnmade(h)'
  <2>1. KnowledgeGrows
    BY <1>4 DEF KnowledgeGrows, Earned, Known
  <2>2. ASSUME NEW h \in Goroutines \ {g}
        PROVE  JobInv(h)' /\ CreatesUnmade(h)'
    <3>1. JobInv(h) /\ CreatesUnmade(h) /\ MissedAreRaced(h)
      BY <1>4, <1>7 DEF EntriesInv, MissedAreRaced
    <3> QED
      BY <1>2, <1>3, <1>4, <2>1, <3>1, OthersKeep
  <2>3. JobInv(g)' /\ CreatesUnmade(g)'
    BY <1>3, IdleTyped DEF JobInv, StoredSoFar, Storing, HoldsEarned, SeesTombstones, CreatesUnmade, InStep
  <2>4. ValidatorsAreEarned'
    BY <1>1, <1>4, <1>7 DEF EntriesInv, ValidatorsAreEarned, JobInv, HoldsEarned, Earned, Known
  <2>5. EditsEarned'
    BY <1>4, <1>7 DEF EditsEarned, EntriesInv, Earned, Known
  <2> QED
    BY <2>2, <2>3, <2>4, <2>5
<1> QED
  BY <1>2, <1>4, <1>5, <1>6, <1>7 DEF EntriesInv, ValidatorsAreEarned
-----------------------------------------------------------------------------
(* Steps that leave every job alone. *)
LEMMA StandingKeeps ==
  ASSUME EntriesInv, RefreshTypeOK', UNCHANGED <<state, work>>, unmade' \in {0, unmade},
         DeletedStayDeleted', raced \subseteq raced',
         state = "absent" => UNCHANGED <<editing, stored, tombs, unmade>>,
         state = "present" =>
           /\ KnowledgeGrows /\ \A h \in Goroutines : MissedAreRaced(h)
           /\ ValidatorsAreEarned' /\ EditsEarned'
  PROVE  EntriesInv'
<1>1. NewEntriesAreNew'
  BY DEF EntriesInv, NewEntriesAreNew
<1>2. RefreshTypeOK
  BY DEF EntriesInv
<1>3. ASSUME state = "present", NEW h \in Goroutines
      PROVE  JobInv(h)' /\ CreatesUnmade(h)'
  BY <1>2, <1>3, OthersKeep DEF EntriesInv
<1> QED
  BY <1>1, <1>3 DEF EntriesInv, ValidatorsAreEarned

LEMMA SettingsKeep ==
  ASSUME EntriesInv, NEW u \in Editors, ReadSettings(u) \/ SaveSettings(u)
  PROVE  EntriesInv'
<1>1. /\ state = "present"
      /\ UNCHANGED <<version, state, stored, tombs, content, work, unmade, raced, overlapped>>
  BY DEF ReadSettings, SaveSettings, entryVars, rowVars, history
<1>2. RefreshTypeOK /\ Earned(validator) /\ EditsEarned
  BY <1>1 DEF EntriesInv, ValidatorsAreEarned
<1>3. /\ editing' \in [Editors -> SUBSET Validators] /\ validator' \in Validators
      /\ Earned(validator') /\ \A w \in Editors : \A v \in editing'[w] : Earned(v)
  <2>1. CASE ReadSettings(u)
    BY <1>2, <2>1 DEF EditsEarned, ReadSettings, RefreshTypeOK, rowVars
  <2>2. CASE SaveSettings(u)
    BY <1>2, <2>2 DEF EditsEarned, SaveSettings, RefreshTypeOK
  <2> QED
    BY <2>1, <2>2
<1>4. RefreshTypeOK'
  BY <1>1, <1>2, <1>3 DEF RefreshTypeOK
<1>5. ValidatorsAreEarned' /\ EditsEarned'
  BY <1>1, <1>3 DEF EditsEarned, ValidatorsAreEarned, Earned, Known
<1>6. KnowledgeGrows /\ \A h \in Goroutines : MissedAreRaced(h)
  BY <1>1 DEF KnowledgeGrows, MissedAreRaced, Earned, Known
<1>7. DeletedStayDeleted'
  BY <1>1 DEF EntriesInv, DeletedStayDeleted
<1> QED
  BY <1>1, <1>4, <1>5, <1>6, <1>7, StandingKeeps

(* What is deleted is buried, and an INSERT that missed it is raced. *)
LEMMA DeleteKeeps ==
  ASSUME EntriesInv, NEW gone \in SUBSET stored, Delete(gone)
  PROVE  EntriesInv'
<1>1. /\ gone # {} /\ stored' = stored \ gone /\ tombs' = tombs \cup gone
      /\ content' = [i \in Items |-> IF i \in gone THEN 0 ELSE content[i]]
      /\ raced' = raced \cup {i \in gone : \E g \in Goroutines :
                                 InStep(g, "inserting") /\ Item(g) = i /\ ~work[g].saw}
      /\ UNCHANGED <<version, state, validator, work, editing, unmade, overlapped>>
  BY DEF Delete, rowVars
<1>2. RefreshTypeOK /\ state # "absent"
  BY <1>1 DEF EntriesInv
<1>3. RefreshTypeOK'
  <2>1. content' \in [Items -> Validators]
    BY <1>1, <1>2 DEF RefreshTypeOK, Validators
  <2>2. stored' \subseteq Items /\ tombs' \subseteq Items /\ raced' \subseteq Items
    BY <1>1, <1>2 DEF RefreshTypeOK
  <2> QED
    BY <1>1, <1>2, <2>1, <2>2 DEF RefreshTypeOK
<1>4. KnowledgeGrows
  BY <1>1 DEF KnowledgeGrows, Earned, Known
<1>5. \A h \in Goroutines : MissedAreRaced(h)
  BY <1>1 DEF MissedAreRaced
<1>6. DeletedStayDeleted'
  BY <1>1 DEF EntriesInv, DeletedStayDeleted
<1>7. state = "present" => ValidatorsAreEarned' /\ EditsEarned'
  BY <1>1 DEF EditsEarned, EntriesInv, ValidatorsAreEarned, Earned, Known
<1> QED
  BY <1>1, <1>2, <1>3, <1>4, <1>5, <1>6, <1>7, StandingKeeps

LEMMA RemoveFeedKeeps ==
  ASSUME EntriesInv, RemoveFeed
  PROVE  EntriesInv'
<1>1. /\ state' = "removed" /\ validator' = 0 /\ stored' = {} /\ tombs' = {}
      /\ content' = [i \in Items |-> 0]
      /\ editing' = [u \in Editors |-> {}]
      /\ UNCHANGED <<version, work, unmade, raced, overlapped>>
  BY DEF RemoveFeed, history
<1>2. RefreshTypeOK'
  BY <1>1 DEF EntriesInv, RefreshTypeOK, Validators
<1>3. ValidatorsAreEarned' /\ DeletedStayDeleted' /\ NewEntriesAreNew'
  BY <1>1 DEF EntriesInv, ValidatorsAreEarned, DeletedStayDeleted, NewEntriesAreNew
<1> QED
  BY <1>1, <1>2, <1>3 DEF EntriesInv

(* The first step: nobody has anything else to do yet. *)
LEMMA CreateRowKeeps ==
  ASSUME EntriesInv, NEW g \in Goroutines, CreateRow(g)
  PROVE  EntriesInv'
<1> DEFINE job == [Idle EXCEPT !.job = "create", !.step = "checking", !.got = version,
                               !.doc = Documents[version]]
<1>1. /\ state = "absent" /\ state' = "present" /\ validator' = Tag(version) /\ unmade' = Tag(version)
      /\ Becomes(g, job)
      /\ UNCHANGED <<version, stored, tombs, content, editing, raced, overlapped>>
  BY DEF CreateRow, Begin, entryVars
<1>2. /\ RefreshTypeOK /\ \A h \in Goroutines : work[h] = Idle
      /\ \A u \in Editors : editing[u] = {}
  BY <1>1 DEF EntriesInv
<1>3. version \in Versions /\ Tag(version) \in Validators
  BY <1>2, TagTyped DEF RefreshTypeOK
<1>4. /\ job \in Jobs /\ job.step = "checking" /\ job.job = "create" /\ job.got = version
      /\ job.doc = Documents[version] /\ job.tag = 0 /\ job.at = 1 /\ job.fresh = {} /\ job.before = {}
  <2>1. Documents[version] \in Seq(Items) /\ version \in Validators
    BY <1>3, DocumentsTyped DEF Validators
  <2> QED
    BY <2>1, IdleTyped DEF Jobs
<1> HIDE DEF job
<1>5. /\ work' \in [Goroutines -> Jobs] /\ work'[g] = job
      /\ \A h \in Goroutines \ {g} : work'[h] = Idle
  BY <1>1, <1>2, <1>4, WorkChanges DEF RefreshTypeOK
<1>6. RefreshTypeOK'
  BY <1>1, <1>2, <1>3, <1>5 DEF RefreshTypeOK
<1>7. DeletedStayDeleted' /\ NewEntriesAreNew'
  BY <1>1, <1>4, <1>5, IdleTyped DEF EntriesInv, DeletedStayDeleted, NewEntriesAreNew
<1>8. ValidatorsAreEarned' /\ EditsEarned'
  BY <1>1, <1>2 DEF EditsEarned, ValidatorsAreEarned, Earned
<1>9. ASSUME NEW h \in Goroutines \ {g}
      PROVE  JobInv(h)' /\ CreatesUnmade(h)'
  BY <1>5, IdleTyped DEF JobInv, StoredSoFar, Storing, HoldsEarned, SeesTombstones, CreatesUnmade, InStep
<1>10. JobInv(g)' /\ CreatesUnmade(g)'
  <2>1. \A k \in DOMAIN Documents[version] : ~(k < 1)
    BY <1>3, DocumentsTyped
  <2>2. StoredSoFar(g)'
    BY <1>3, <1>4, <1>5, <2>1 DEF StoredSoFar, InStep
  <2>3. HoldsEarned(g)' /\ SeesTombstones(g)'
    BY <1>4, <1>5 DEF HoldsEarned, SeesTombstones, InStep
  <2>4. CreatesUnmade(g)'
    BY <1>1, <1>3, <1>4, <1>5 DEF CreatesUnmade, Storing, Tag
  <2> QED
    BY <2>2, <2>3, <2>4 DEF JobInv
<1> QED
  BY <1>1, <1>6, <1>7, <1>8, <1>9, <1>10 DEF EntriesInv
-----------------------------------------------------------------------------
(* A new document, or nothing, changes nothing of the feed. *)
LEMMA NothingKeeps ==
  ASSUME EntriesInv, RefreshTypeOK',
         UNCHANGED <<state, validator, stored, tombs, work, editing, unmade, raced>>
  PROVE  EntriesInv'
<1>1. KnowledgeGrows /\ \A h \in Goroutines : MissedAreRaced(h)
  BY DEF KnowledgeGrows, MissedAreRaced, Earned, Known
<1>2. DeletedStayDeleted'
  BY DEF EntriesInv, DeletedStayDeleted
<1>3. state = "present" => ValidatorsAreEarned' /\ EditsEarned'
  BY DEF EditsEarned, EntriesInv, ValidatorsAreEarned, Earned, Known
<1> QED
  BY <1>1, <1>2, <1>3, StandingKeeps

LEMMA EntriesStep == EntriesInv /\ [RefreshNext]_refreshVars => EntriesInv'
<1> SUFFICES ASSUME EntriesInv, [RefreshNext]_refreshVars
             PROVE  EntriesInv'
  OBVIOUS
<1>1. CASE UNCHANGED refreshVars
  <2>1. UNCHANGED <<version, state, validator, stored, content, tombs, work, editing, unmade, raced, overlapped>>
    BY <1>1 DEF refreshVars, rowVars, entryVars, history
  <2> QED
    BY <2>1, NothingKeeps DEF EntriesInv, RefreshTypeOK
<1>2. CASE Publish
  BY <1>2, NothingKeeps DEF Publish, EntriesInv, RefreshTypeOK, rowVars, entryVars, history
<1>3. ASSUME NEW g \in Goroutines, Job(g) \/ Fails(g)
      PROVE  EntriesInv'
  <2>1. CASE Fails(g)
    BY <2>1, EndsKeeps DEF Fails
  <2>2. CASE FinishImport(g)
    BY <2>2, EndsKeeps DEF FinishImport, InStep
  <2> QED
    BY <1>3, <2>1, <2>2, ModifiedKeeps, NotModifiedKeeps, CheckEntryKeeps, UpdateEntryKeeps,
       BeginInsertKeeps, SkipKeeps, EndInsertKeeps, FinishRefreshKeeps, FinishCreateKeeps, SaveRowKeeps
       DEF Job
<1>4. ASSUME NEW g \in Goroutines,
             CreateRow(g) \/ (\E forced \in BOOLEAN, sent \in Validators : StartRefresh(g, forced, sent)) \/ (\E i \in Items : Import(g, i))
      PROVE  EntriesInv'
  BY <1>4, CreateRowKeeps, StartRefreshKeeps, ImportKeeps
<1>5. CASE \E gone \in SUBSET stored : Delete(gone)
  BY <1>5, DeleteKeeps
<1>6. CASE User
  BY <1>6, SettingsKeep, RemoveFeedKeeps DEF User
<1> QED
  BY <1>1, <1>2, <1>3, <1>4, <1>5, <1>6 DEF RefreshNext

(* The inductive invariant: types, what goroutines hold, and the three     *)
(* invariants below.                                                       *)
THEOREM EntriesConsistent == RefreshSpec => []EntriesInv
  BY EntriesInit, EntriesStep, PTL DEF RefreshSpec

(* A feed's validator never hides an entry that is neither stored nor      *)
(* deleted, whatever jobs run side by side, fail or crash, but for a       *)
(* creation that has not come to its end (UpdateFeed, RefreshFeedEntries). *)
THEOREM ValidatorsHideNothing == RefreshSpec => []ValidatorsAreEarned
<1>1. EntriesInv => ValidatorsAreEarned
  BY DEF EntriesInv
<1> QED
  BY <1>1, EntriesConsistent, PTL

(* A tombstone keeps its entry away, unless an INSERT of it was waiting    *)
(* for the very deletion (createEntry).                                    *)
THEOREM TombstonesHold == RefreshSpec => []DeletedStayDeleted
<1>1. EntriesInv => DeletedStayDeleted
  BY DEF EntriesInv
<1> QED
  BY <1>1, EntriesConsistent, PTL

(* Integrations and the prefetching are told of entries that are new, and  *)
(* of each by one refresh (RefreshFeedEntries).                            *)
THEOREM NewsIsNew == RefreshSpec => []NewEntriesAreNew
<1>1. EntriesInv => NewEntriesAreNew
  BY DEF EntriesInv
<1> QED
  BY <1>1, EntriesConsistent, PTL
-----------------------------------------------------------------------------
(* ContentIsCurrent needs more: an entry that a validator's document has   *)
(* is of that version or a later one, for every validator that somebody    *)
(* may still write to the row, and for what a job has stored so far.       *)
OfVersion(i, v) == i \in stored \ raced => content[i] >= v
CurrentAt(v) == v \notin {0, unmade} => \A i \in ItemsOf(Documents[v]) : OfVersion(i, v)

(* Whoever stores a document is the only one who does, its version is not  *)
(* older than what the row or a settings request has, and a creation is    *)
(* alone with its entries.                                                 *)
NotBefore(v) == validator <= v /\ \A u \in Editors : \A e \in editing[u] : e <= v

StoresCurrent(g) ==
  Storing(g) /\ Fetches(g) =>
    /\ work[g].got <= version /\ NotBefore(work[g].got)
    /\ \A k \in DOMAIN work[g].doc : k < work[g].at => OfVersion(work[g].doc[k], work[g].got)

HoldsCurrent(g) ==
  /\ InStep(g, "asking") => work[g].asked <= version /\ CurrentAt(work[g].asked)
  /\ InStep(g, "saving") => work[g].tag <= version /\ CurrentAt(work[g].tag)

CreatesAlone(g) ==
  work[g].job = "create" =>
    /\ \A h \in Goroutines \ {g} : work[h].job = "none"
    /\ \A i \in stored : content[i] >= work[g].got

StepsAsJob(g) ==
  /\ work[g].job = "none" => InStep(g, "idle")
  /\ work[g].update \/ work[g].step \in {"asking", "updating", "saving"} => work[g].job = "refresh"
  /\ work[g].job = "refresh" => work[g].update

OneFetches == \A g, h \in Goroutines : Fetches(g) /\ Fetches(h) => g = h

RowIsCurrent ==
  /\ NotBefore(version)
  /\ CurrentAt(validator) /\ \A u \in Editors : \A v \in editing[u] : CurrentAt(v)

CurrentInv ==
  /\ OneFetches /\ RowIsCurrent
  /\ \A g \in Goroutines : StoresCurrent(g) /\ HoldsCurrent(g) /\ CreatesAlone(g) /\ StepsAsJob(g)

ContentIInv == UpdatesExisting /\ ~overlapped /\ state = "present" => CurrentInv

LEMMA WorkTurns ==
  ASSUME EntriesInv, NEW g \in Goroutines, NEW job \in Jobs, Becomes(g, job)
  PROVE  work'[g] = job /\ \A h \in Goroutines \ {g} : work'[h] = work[h]
BY WorkChanges DEF EntriesInv, RefreshTypeOK

(* A step of one goroutine that writes no entry and no row. *)
LEMMA TurnsKeepCurrent ==
  ASSUME EntriesInv, CurrentInv, NEW g \in Goroutines, NEW job \in Jobs, Becomes(g, job),
         UNCHANGED <<version, validator, stored, content, editing, unmade, raced>>,
         job.job \in {"create", "refresh"} => Fetches(g) \/ Alone(g),
         job.job = "create" => work[g].job = "create" /\ job.got = work[g].got,
         \/ job.job = "none"
         \/ work[g].job # "none"
         \/ \A h \in Goroutines : work[h].job # "create",
         StoresCurrent(g)', HoldsCurrent(g)', StepsAsJob(g)'
  PROVE  CurrentInv'
<1>1. work'[g] = job /\ \A h \in Goroutines \ {g} : work'[h] = work[h]
  BY WorkTurns
<1>2. OneFetches'
  <2> SUFFICES ASSUME NEW h \in Goroutines \ {g}, Fetches(g)'
               PROVE  ~Fetches(h)'
    BY <1>1 DEF OneFetches, Fetches, CurrentInv
  <2> QED
    BY <1>1 DEF OneFetches, Fetches, Alone, CurrentInv
<1>3. RowIsCurrent'
  BY DEF RowIsCurrent, NotBefore, CurrentAt, OfVersion, CurrentInv
<1>4. ASSUME NEW h \in Goroutines
      PROVE  CreatesAlone(h)'
  <2>1. CreatesAlone(h) /\ CreatesAlone(g)
    BY <1>4 DEF CurrentInv
  <2> QED
    BY <1>1, <2>1 DEF CreatesAlone
<1>5. ASSUME NEW h \in Goroutines \ {g}
      PROVE  StoresCurrent(h)' /\ HoldsCurrent(h)' /\ StepsAsJob(h)'
  <2>1. StoresCurrent(h) /\ HoldsCurrent(h) /\ StepsAsJob(h) /\ work'[h] = work[h]
    BY <1>1 DEF CurrentInv
  <2>2. StoresCurrent(h)'
    BY <2>1 DEF StoresCurrent, Storing, Fetches, NotBefore, OfVersion
  <2> QED
    BY <2>1, <2>2 DEF HoldsCurrent, InStep, CurrentAt, OfVersion, StepsAsJob
<1> QED
  BY <1>2, <1>3, <1>4, <1>5 DEF CurrentInv

(* Ends(g): Fails, FinishImport. *)
LEMMA EndsKeepCurrent ==
  ASSUME EntriesInv, CurrentInv, NEW g \in Goroutines, Ends(g),
         UNCHANGED <<version, rowVars, entryVars, editing, history>>
  PROVE  CurrentInv'
<1>1. work'[g] = Idle
  BY IdleTyped, WorkTurns DEF Ends
<1>2. StoresCurrent(g)' /\ HoldsCurrent(g)' /\ StepsAsJob(g)'
  BY <1>1 DEF StoresCurrent, HoldsCurrent, StepsAsJob, Storing, InStep, Idle
<1> QED
  BY <1>2, IdleTyped, TurnsKeepCurrent DEF Ends, rowVars, entryVars, history

LEMMA StartRefreshKeepsCurrent ==
  ASSUME EntriesInv, CurrentInv, UpdatesExisting, NEW g \in Goroutines, NEW forced \in BOOLEAN,
         NEW sent \in Validators, StartRefresh(g, forced, sent), ~overlapped'
  PROVE  CurrentInv'
<1> DEFINE update == UpdatesEntries(forced)
           before == stored \cup tombs
           job == [Idle EXCEPT !.job = "refresh", !.step = "asking", !.asked = sent,
                               !.update = update, !.before = before]
<1>1. /\ Becomes(g, job) /\ sent \in {0, validator} /\ Alone(g)
      /\ UNCHANGED <<version, rowVars, entryVars, editing, unmade, raced>>
  BY DEF StartRefresh, Begin
<1>2. RefreshTypeOK
  BY DEF EntriesInv
<1>3. update = TRUE /\ before \in SUBSET Items
  BY <1>2 DEF RefreshTypeOK, UpdatesEntries
<1> HIDE DEF update, before
<1>4. /\ job \in Jobs
      /\ job.step = "asking" /\ job.job = "refresh" /\ job.asked = sent /\ job.update
  <2> DEFINE j == Idle
  <2>1. j \in Jobs
    BY IdleTyped
  <2> HIDE DEF j
  <2>2. LET n == [j EXCEPT !.job = "refresh", !.step = "asking", !.asked = sent,
                           !.update = update, !.before = before]
        IN  n \in Jobs /\ n.step = "asking" /\ n.job = "refresh" /\ n.asked = sent /\ n.update
    BY <1>3, <2>1 DEF Jobs
  <2> QED
    BY <2>2 DEF j
<1> HIDE DEF job
<1>5. work'[g] = job
  BY <1>1, <1>4, WorkTurns
<1>6. sent <= version /\ CurrentAt(sent)
  <2>1. validator <= version /\ CurrentAt(validator)
    BY DEF CurrentInv, RowIsCurrent, NotBefore
  <2>2. 0 <= version /\ CurrentAt(0)
    BY <1>2, DocumentsTyped DEF RefreshTypeOK, CurrentAt
  <2> QED
    BY <1>1, <2>1, <2>2
<1>7. StoresCurrent(g)' /\ HoldsCurrent(g)' /\ StepsAsJob(g)'
  BY <1>1, <1>4, <1>5, <1>6
     DEF StoresCurrent, HoldsCurrent, StepsAsJob, Storing, InStep, CurrentAt, OfVersion, rowVars, entryVars
<1>8. \A h \in Goroutines \ {g} : work[h].job # "create"
  BY <1>1 DEF Alone, Fetches
<1>9. CASE work[g].job = "none"
  BY <1>1, <1>4, <1>7, <1>8, <1>9, TurnsKeepCurrent DEF rowVars, entryVars
<1>10. CASE work[g].job # "none"
  BY <1>1, <1>4, <1>7, <1>10, TurnsKeepCurrent DEF rowVars, entryVars
<1> QED
  BY <1>9, <1>10

LEMMA ImportKeepsCurrent ==
  ASSUME EntriesInv, CurrentInv, NEW g \in Goroutines, NEW i \in Items, Import(g, i), ~overlapped'
  PROVE  CurrentInv'
<1> DEFINE job == [Idle EXCEPT !.job = "import", !.step = "checking", !.doc = <<i>>]
<1>1. /\ Becomes(g, job) /\ \A h \in Goroutines : work[h].job # "create"
      /\ UNCHANGED <<version, rowVars, entryVars, editing, unmade, raced>>
  BY DEF Import, Begin
<1>2. /\ job \in Jobs /\ job.step = "checking" /\ job.job = "import" /\ job.update = FALSE
  <2>1. <<i>> \in Seq(Items)
    OBVIOUS
  <2> QED
    BY <2>1, IdleTyped, ImportTyped DEF Idle
<1> HIDE DEF job
<1>3. work'[g] = job
  BY <1>1, <1>2, WorkTurns
<1>4. StoresCurrent(g)' /\ HoldsCurrent(g)' /\ StepsAsJob(g)'
  BY <1>2, <1>3 DEF StoresCurrent, HoldsCurrent, StepsAsJob, Fetches, InStep
<1> QED
  BY <1>1, <1>2, <1>4, TurnsKeepCurrent DEF rowVars, entryVars

(* The document is the server's, which no validator is ahead of. *)
LEMMA ModifiedKeepsCurrent ==
  ASSUME EntriesInv, CurrentInv, state = "present", NEW g \in Goroutines, Modified(g)
  PROVE  CurrentInv'
<1> DEFINE job == [work[g] EXCEPT !.step = "checking", !.asked = 0, !.got = version,
                                  !.tag = Tag(version), !.doc = Documents[version]]
<1>1. /\ Becomes(g, job) /\ InStep(g, "asking")
      /\ UNCHANGED <<version, rowVars, entryVars, editing, history>>
  BY DEF Modified
<1>2. work[g] \in Jobs /\ version \in Versions /\ work[g].at = 1
  BY <1>1, JobTyped DEF EntriesInv, RefreshTypeOK, JobInv, StoredSoFar
<1>3. StepsAsJob(g) /\ work[g].job = "refresh" /\ work[g].update
  BY <1>1 DEF CurrentInv, StepsAsJob, InStep
<1>4. /\ job \in Jobs /\ job.step = "checking" /\ job.got = version /\ job.doc = Documents[version]
      /\ job.job = "refresh" /\ job.at = 1 /\ job.update
  BY <1>2, <1>3, DocumentsTyped, TagTyped DEF Jobs, Validators
<1> HIDE DEF job
<1>5. work'[g] = job
  BY <1>1, <1>4, WorkTurns
<1>6. version <= version /\ NotBefore(version) /\ DOMAIN Documents[version] \subseteq Nat \ {0}
  BY <1>2, DocumentsTyped DEF CurrentInv, RowIsCurrent
<1>7. StoresCurrent(g)'
  BY <1>1, <1>4, <1>5, <1>6 DEF StoresCurrent, NotBefore, rowVars
<1>8. HoldsCurrent(g)' /\ StepsAsJob(g)'
  BY <1>4, <1>5 DEF HoldsCurrent, StepsAsJob, InStep
<1> QED
  BY <1>1, <1>3, <1>4, <1>7, <1>8, TurnsKeepCurrent DEF Fetches, rowVars, entryVars, history

LEMMA NotModifiedKeepsCurrent ==
  ASSUME EntriesInv, CurrentInv, NEW g \in Goroutines, NotModified(g)
  PROVE  CurrentInv'
<1> DEFINE job == [work[g] EXCEPT !.step = "saving", !.tag = work[g].asked]
<1>1. /\ Becomes(g, job) /\ InStep(g, "asking")
      /\ UNCHANGED <<version, rowVars, entryVars, editing, history>>
  BY DEF NotModified
<1>2. StepsAsJob(g) /\ HoldsCurrent(g) /\ work[g].job = "refresh" /\ work[g].update /\ work[g] \in Jobs
  BY <1>1, JobTyped DEF CurrentInv, StepsAsJob, InStep
<1>3. /\ job \in Jobs /\ job.step = "saving" /\ job.tag = work[g].asked
      /\ job.job = "refresh" /\ job.update
  BY <1>2 DEF Jobs
<1> HIDE DEF job
<1>4. work'[g] = job
  BY <1>1, <1>3, WorkTurns
<1>5. StoresCurrent(g)' /\ HoldsCurrent(g)' /\ StepsAsJob(g)'
  BY <1>1, <1>2, <1>3, <1>4
     DEF StoresCurrent, HoldsCurrent, StepsAsJob, Storing, InStep, CurrentAt, OfVersion,
         rowVars, entryVars, history
<1> QED
  BY <1>1, <1>2, <1>3, <1>5, TurnsKeepCurrent DEF Fetches, rowVars, entryVars, history

(* A step from one entry to the next, or to the treatment of this one. *)
LEMMA StoringKeepsCurrent ==
  ASSUME EntriesInv, CurrentInv, NEW g \in Goroutines, Storing(g), NEW job \in Jobs, Becomes(g, job),
         UNCHANGED <<version, validator, stored, content, editing, unmade, raced>>,
         job.job = work[g].job, job.got = work[g].got, job.doc = work[g].doc, job.update = work[g].update,
         job.step \in {"checking", "creating", "inserting", "updating"},
         job.step = "updating" => job.update,
         \/ job.at = work[g].at
         \/ /\ job.at = work[g].at + 1
            /\ Fetches(g) => OfVersion(Item(g), work[g].got)
  PROVE  CurrentInv'
<1>1. work'[g] = job /\ work[g] \in Jobs /\ StepsAsJob(g) /\ StoresCurrent(g) /\ work[g].job # "none"
  BY WorkTurns, JobTyped DEF CurrentInv, StepsAsJob, Storing, InStep
<1>2. StoresCurrent(g)'
  <2> SUFFICES ASSUME Fetches(g), NEW k \in DOMAIN work[g].doc, k < job.at
               PROVE  OfVersion(work[g].doc[k], work[g].got)
    BY <1>1 DEF StoresCurrent, Storing, Fetches, NotBefore, OfVersion
  <2>1. k < work[g].at => OfVersion(work[g].doc[k], work[g].got)
    BY <1>1 DEF StoresCurrent
  <2>2. k < work[g].at \/ (k = work[g].at /\ job.at = work[g].at + 1)
    BY <1>1 DEF Jobs
  <2> QED
    BY <2>1, <2>2 DEF Item
<1>3. HoldsCurrent(g)' /\ StepsAsJob(g)'
  BY <1>1 DEF HoldsCurrent, StepsAsJob, InStep
<1> QED
  BY <1>1, <1>2, <1>3, TurnsKeepCurrent DEF Fetches

LEMMA NextItemKeepsCurrent ==
  ASSUME EntriesInv, CurrentInv, NEW g \in Goroutines, Storing(g), NextItem(g),
         UNCHANGED <<version, validator, stored, content, editing, unmade, raced>>,
         Fetches(g) => OfVersion(Item(g), work[g].got)
  PROVE  CurrentInv'
<1> DEFINE job == [work[g] EXCEPT !.step = "checking", !.at = @ + 1, !.saw = FALSE]
<1>1. Becomes(g, job) /\ work[g] \in Jobs
  BY JobTyped DEF NextItem
<1>2. /\ job \in Jobs /\ job.step = "checking" /\ job.at = work[g].at + 1 /\ job.job = work[g].job
      /\ job.got = work[g].got /\ job.doc = work[g].doc /\ job.update = work[g].update
  BY <1>1, NextItemTyped DEF Jobs
<1> HIDE DEF job
<1> QED
  BY <1>1, <1>2, StoringKeepsCurrent

(* An entry that a creation finds is as new as its document, and one that  *)
(* a refresh finds is updated.                                             *)
LEMMA CheckEntryKeepsCurrent ==
  ASSUME EntriesInv, CurrentInv, state = "present", NEW g \in Goroutines, CheckEntry(g)
  PROVE  CurrentInv'
<1>1. /\ InStep(g, "checking") /\ Storing(g) /\ ~Done(g) /\ work[g] \in Jobs
      /\ UNCHANGED <<version, validator, stored, content, editing, unmade, raced>>
  BY JobTyped DEF CheckEntry, InStep, Storing, rowVars, entryVars, history
<1>2. ASSUME NEW s \in {"creating", "updating"}, Goes(g, s), s = "updating" => work[g].update
      PROVE  CurrentInv'
  <2> DEFINE job == [work[g] EXCEPT !.step = s]
  <2>1. Becomes(g, job)
    BY <1>2 DEF Goes
  <2>2. /\ job \in Jobs /\ job.step = s /\ job.at = work[g].at /\ job.job = work[g].job
        /\ job.got = work[g].got /\ job.doc = work[g].doc /\ job.update = work[g].update
    BY <1>1, <1>2 DEF Jobs
  <2> HIDE DEF job
  <2> QED
    BY <1>1, <1>2, <2>1, <2>2, StoringKeepsCurrent
<1>3. ASSUME NextItem(g), Item(g) \in stored, ~work[g].update
      PROVE  CurrentInv'
  <2>1. Fetches(g) => work[g].job = "create"
    BY <1>3 DEF CurrentInv, StepsAsJob, Fetches
  <2>2. Fetches(g) => OfVersion(Item(g), work[g].got)
    BY <1>3, <2>1 DEF CurrentInv, CreatesAlone, OfVersion
  <2> QED
    BY <1>1, <1>3, <2>2, NextItemKeepsCurrent
<1> QED
  BY <1>2, <1>3 DEF CheckEntry

LEMMA BeginInsertKeepsCurrent ==
  ASSUME EntriesInv, CurrentInv, NEW g \in Goroutines, BeginInsert(g)
  PROVE  CurrentInv'
<1> DEFINE saw == Item(g) \in tombs
           job == [work[g] EXCEPT !.step = "inserting", !.saw = saw]
<1>1. /\ Becomes(g, job) /\ Storing(g) /\ work[g] \in Jobs
      /\ UNCHANGED <<version, validator, stored, content, editing, unmade, raced>>
  BY JobTyped DEF BeginInsert, InStep, Storing, rowVars, entryVars, history
<1>2. saw \in BOOLEAN
  OBVIOUS
<1> HIDE DEF saw
<1>3. /\ job \in Jobs /\ job.step = "inserting" /\ job.at = work[g].at /\ job.job = work[g].job
      /\ job.got = work[g].got /\ job.doc = work[g].doc /\ job.update = work[g].update
  BY <1>1, <1>2 DEF Jobs
<1> HIDE DEF job
<1> QED
  BY <1>1, <1>3, StoringKeepsCurrent

(* An entry that has a tombstone and is there all the same has come back. *)
LEMMA SkipKeepsCurrent ==
  ASSUME EntriesInv, CurrentInv, state = "present", NEW g \in Goroutines, SkipTombstoned(g)
  PROVE  CurrentInv'
<1>1. /\ NextItem(g) /\ Storing(g) /\ InStep(g, "inserting") /\ work[g].saw
      /\ UNCHANGED <<version, validator, stored, content, editing, unmade, raced>>
  BY DEF SkipTombstoned, InStep, Storing, rowVars, entryVars, history
<1>2. Item(g) \in tombs
  BY <1>1 DEF EntriesInv, JobInv, SeesTombstones
<1>3. OfVersion(Item(g), work[g].got)
  BY <1>2 DEF EntriesInv, DeletedStayDeleted, OfVersion
<1> QED
  BY <1>1, <1>3, NextItemKeepsCurrent

(* A refresh that has been through its document has a validator whose      *)
(* entries are up to date.                                                 *)
LEMMA StoredAllCurrent ==
  ASSUME EntriesInv, CurrentInv, state = "present", NEW g \in Goroutines,
         InStep(g, "checking"), Done(g), Fetches(g)
  PROVE  /\ work[g].got \in Versions /\ work[g].tag \in {0, work[g].got} /\ work[g].got <= version
         /\ \A i \in ItemsOf(Documents[work[g].got]) : OfVersion(i, work[g].got)
<1>1. Storing(g) /\ work[g] \in Jobs /\ StoredSoFar(g) /\ StoresCurrent(g)
  BY JobTyped DEF EntriesInv, JobInv, CurrentInv, InStep, Storing
<1>2. /\ work[g].got \in Versions /\ work[g].doc = Documents[work[g].got]
      /\ work[g].tag \in {0, work[g].got}
  BY <1>1 DEF StoredSoFar
<1>3. \A k \in DOMAIN work[g].doc : k < work[g].at
  BY <1>1 DEF Done, Jobs
<1> QED
  BY <1>1, <1>2, <1>3 DEF StoresCurrent, ItemsOf

LEMMA FinishRefreshKeepsCurrent ==
  ASSUME EntriesInv, CurrentInv, state = "present", NEW g \in Goroutines, FinishRefresh(g)
  PROVE  CurrentInv'
<1> DEFINE job == [work[g] EXCEPT !.step = "saving"]
<1>1. /\ Becomes(g, job) /\ InStep(g, "checking") /\ Done(g) /\ work[g].job = "refresh"
      /\ work[g] \in Jobs /\ Fetches(g) /\ StepsAsJob(g)
      /\ UNCHANGED <<version, validator, stored, content, editing, unmade, raced>>
  BY JobTyped DEF FinishRefresh, Goes, Fetches, CurrentInv, rowVars, entryVars, history
<1>2. /\ job \in Jobs /\ job.step = "saving" /\ job.job = "refresh"
      /\ job.tag = work[g].tag /\ job.update = work[g].update
  BY <1>1 DEF Jobs
<1> HIDE DEF job
<1>3. work'[g] = job
  BY <1>1, <1>2, WorkTurns
<1>4. work[g].tag <= version /\ CurrentAt(work[g].tag)
  <2>1. /\ work[g].got \in Versions /\ work[g].tag \in {0, work[g].got} /\ work[g].got <= version
        /\ \A i \in ItemsOf(Documents[work[g].got]) : OfVersion(i, work[g].got)
    BY <1>1, StoredAllCurrent
  <2>2. 0 <= version
    BY DocumentsTyped DEF EntriesInv, RefreshTypeOK
  <2> QED
    BY <2>1, <2>2 DEF CurrentAt
<1>5. StoresCurrent(g)' /\ HoldsCurrent(g)' /\ StepsAsJob(g)'
  BY <1>1, <1>2, <1>3, <1>4
     DEF StoresCurrent, HoldsCurrent, StepsAsJob, Storing, InStep, CurrentAt, OfVersion
<1> QED
  BY <1>1, <1>2, <1>5, TurnsKeepCurrent

-----------------------------------------------------------------------------
(* The steps that write entries: what a step stores is not older than any  *)
(* validator, or has come back.                                            *)
LEMMA WritesKeepVersions ==
  ASSUME EntriesInv, state = "present", NEW i \in Items, NEW got \in Validators,
         content' = [content EXCEPT ![i] = got], stored' \subseteq stored \cup {i},
         UNCHANGED <<raced, unmade>>, NEW v \in Validators, CurrentAt(v),
         \/ v <= got
         \/ Earned(v) /\ i \notin stored /\ (i \in tombs => i \in raced)
  PROVE  CurrentAt(v)'
<1> SUFFICES ASSUME v \notin {0, unmade}, NEW k \in ItemsOf(Documents[v]), k \in stored' \ raced
             PROVE  content'[k] >= v
  BY DEF CurrentAt, OfVersion
<1>1. content \in [Items -> Validators] /\ stored \subseteq Items
  BY DEF EntriesInv, RefreshTypeOK
<1>2. CASE k = i /\ v <= got
  BY <1>1, <1>2, RefreshAssumption DEF Validators, Versions
<1>3. CASE k = i /\ Earned(v) /\ i \notin stored /\ (i \in tombs => i \in raced)
  BY <1>3 DEF Earned, Known
<1>4. CASE k # i
  BY <1>1, <1>4 DEF CurrentAt, OfVersion
<1> QED
  BY <1>2, <1>3, <1>4

LEMMA WriteKeepsCurrent ==
  ASSUME EntriesInv, CurrentInv, state = "present", NEW g \in Goroutines, Storing(g), ~Done(g),
         NEW job \in Jobs, Becomes(g, job),
         UNCHANGED <<version, validator, editing, unmade, raced>>,
         content' = [content EXCEPT ![Item(g)] = work[g].got], stored' = stored \cup {Item(g)},
         job.job = work[g].job, job.got = work[g].got, job.doc = work[g].doc, job.update = work[g].update,
         job.step = "checking", job.at = work[g].at + 1,
         \/ Fetches(g)
         \/ Item(g) \notin stored /\ (Item(g) \in tombs => Item(g) \in raced)
  PROVE  CurrentInv'
<1>1. /\ work'[g] = job /\ \A h \in Goroutines \ {g} : work'[h] = work[h]
      /\ work[g] \in Jobs /\ StepsAsJob(g) /\ StoresCurrent(g) /\ work[g].job # "none"
  BY WorkTurns, JobTyped DEF CurrentInv, StepsAsJob, Storing, InStep
<1>2. PICK i \in Items, got \in Validators : i = Item(g) /\ got = work[g].got
  BY <1>1 DEF Item, Done, Jobs
<1>3. RefreshTypeOK /\ Validators \subseteq Nat
  BY DocumentsTyped DEF EntriesInv, Validators
<1>4. \/ Fetches(g) /\ NotBefore(got)
      \/ i \notin stored /\ (i \in tombs => i \in raced)
  BY <1>1, <1>2 DEF StoresCurrent
<1>5. content' = [content EXCEPT ![i] = got] /\ stored' = stored \cup {i}
  BY <1>2
<1>6. ASSUME NEW v \in Validators, CurrentAt(v), Earned(v), Fetches(g) => v <= got
      PROVE  CurrentAt(v)'
  BY <1>2, <1>4, <1>5, <1>6, WritesKeepVersions
<1>7. RowIsCurrent'
  <2>1. CurrentAt(validator)'
    <3>1. PICK v \in Validators : v = validator
      BY <1>3 DEF RefreshTypeOK
    <3>2. CurrentAt(v) /\ Earned(v) /\ (Fetches(g) => v <= got)
      BY <1>1, <1>2, <3>1 DEF EntriesInv, ValidatorsAreEarned, CurrentInv, RowIsCurrent,
                              StoresCurrent, NotBefore
    <3>3. CurrentAt(v)'
      BY <1>6, <3>2
    <3> QED
      BY <3>1, <3>3 DEF CurrentAt, OfVersion
  <2>2. ASSUME NEW u \in Editors, NEW v \in editing[u]
        PROVE  CurrentAt(v)'
    <3>1. v \in Validators /\ CurrentAt(v) /\ Earned(v) /\ (Fetches(g) => v <= got)
      BY <1>1, <1>2, <1>3 DEF EntriesInv, EditsEarned, RefreshTypeOK, CurrentInv, RowIsCurrent,
                              StoresCurrent, NotBefore
    <3> QED
      BY <1>6, <3>1
  <2>3. NotBefore(version)'
    BY DEF CurrentInv, RowIsCurrent, NotBefore
  <2> QED
    BY <2>1, <2>2, <2>3 DEF RowIsCurrent
<1>8. OneFetches'
  BY <1>1 DEF OneFetches, Fetches, CurrentInv
<1>9. ASSUME NEW h \in Goroutines
      PROVE  CreatesAlone(h)'
  <2>1. CASE h = g
    <3> SUFFICES ASSUME work[g].job = "create"
                 PROVE  /\ \A k \in Goroutines \ {g} : work[k].job = "none"
                        /\ \A e \in stored' : content'[e] >= got
      BY <1>1, <1>2, <2>1 DEF CreatesAlone
    <3>1. CreatesAlone(g)
      BY DEF CurrentInv
    <3>2. \A e \in stored : e # i => content'[e] = content[e]
      BY <1>3, <1>5 DEF RefreshTypeOK
    <3>3. content'[i] = got /\ got >= got
      BY <1>2, <1>3, <1>5 DEF RefreshTypeOK
    <3> QED
      BY <1>2, <1>5, <3>1, <3>2, <3>3 DEF CreatesAlone
  <2>2. CASE h # g
    BY <1>1, <2>2 DEF CreatesAlone, CurrentInv
  <2> QED
    BY <2>1, <2>2
<1>10. ASSUME NEW h \in Goroutines \ {g}
       PROVE  StoresCurrent(h)' /\ HoldsCurrent(h)' /\ StepsAsJob(h)'
  <2>1. /\ StoresCurrent(h) /\ HoldsCurrent(h) /\ StepsAsJob(h) /\ work'[h] = work[h]
        /\ work[h] \in Jobs /\ JobInv(h)
    BY <1>1, JobTyped DEF CurrentInv, EntriesInv
  <2>2. ~Fetches(h) \/ ~Fetches(g)
    BY DEF CurrentInv, OneFetches
  <2>3. ASSUME ~Fetches(g), Storing(h), Fetches(h), NEW k \in DOMAIN work[h].doc, k < work[h].at
        PROVE  OfVersion(work[h].doc[k], work[h].got)'
    <3>0. PICK e \in Items, v \in Validators : e = work[h].doc[k] /\ v = work[h].got
      BY <2>1 DEF Jobs
    <3>1. Known(e) /\ OfVersion(e, v)
      BY <2>1, <2>3, <3>0 DEF JobInv, StoredSoFar, StoresCurrent
    <3>2. OfVersion(e, v)'
      <4>1. CASE e = i
        BY <1>4, <1>5, <2>3, <3>1, <4>1 DEF Known, OfVersion
      <4>2. CASE e # i
        BY <1>3, <1>5, <3>1, <4>2 DEF OfVersion, RefreshTypeOK
      <4> QED
        BY <4>1, <4>2
    <3> QED
      BY <2>1, <3>0, <3>2 DEF OfVersion
  <2>4. StoresCurrent(h)'
    BY <2>1, <2>2, <2>3 DEF StoresCurrent, Storing, Fetches, NotBefore
  <2>5. HoldsCurrent(h)'
    <3>1. PICK asked \in Validators, tag \in Validators : asked = work[h].asked /\ tag = work[h].tag
      BY <2>1 DEF Jobs
    <3>2. InStep(h, "asking") \/ InStep(h, "saving") => Fetches(h) /\ ~Fetches(g)
      BY <2>1, <2>2 DEF StepsAsJob, InStep, Fetches
    <3>3. InStep(h, "asking") => asked <= version /\ CurrentAt(asked) /\ Earned(asked)
      BY <2>1, <3>1 DEF HoldsCurrent, JobInv, HoldsEarned
    <3>4. InStep(h, "saving") => tag <= version /\ CurrentAt(tag) /\ Earned(tag)
      BY <2>1, <3>1 DEF HoldsCurrent, JobInv, HoldsEarned
    <3>5. InStep(h, "asking") => CurrentAt(asked)'
      BY <1>6, <3>2, <3>3
    <3>6. InStep(h, "saving") => CurrentAt(tag)'
      BY <1>6, <3>2, <3>4
    <3> QED
      BY <2>1, <3>1, <3>3, <3>4, <3>5, <3>6 DEF HoldsCurrent, InStep, CurrentAt, OfVersion
  <2> QED
    BY <2>1, <2>4, <2>5 DEF StepsAsJob, InStep
<1>11. StoresCurrent(g)'
  <2> SUFFICES ASSUME Fetches(g), NEW k \in DOMAIN work[g].doc, k < work[g].at + 1
               PROVE  work[g].doc[k] \in stored' \ raced => content'[work[g].doc[k]] >= got
    BY <1>1, <1>2 DEF StoresCurrent, Storing, Fetches, NotBefore, OfVersion
  <2>1. k < work[g].at \/ k = work[g].at
    BY <1>1 DEF Jobs
  <2>2. CASE work[g].doc[k] = i
    BY <1>2, <1>3, <1>5, <2>2 DEF RefreshTypeOK
  <2>3. CASE work[g].doc[k] # i
    <3>1. OfVersion(work[g].doc[k], got)
      BY <1>1, <1>2, <2>1, <2>3 DEF StoresCurrent, Item
    <3> QED
      BY <1>3, <1>5, <2>3, <3>1 DEF OfVersion, RefreshTypeOK
  <2> QED
    BY <2>2, <2>3
<1>12. HoldsCurrent(g)' /\ StepsAsJob(g)'
  BY <1>1 DEF HoldsCurrent, StepsAsJob, InStep
<1> QED
  BY <1>7, <1>8, <1>9, <1>10, <1>11, <1>12 DEF CurrentInv

LEMMA UpdateEntryKeepsCurrent ==
  ASSUME EntriesInv, CurrentInv, state = "present", NEW g \in Goroutines, UpdateEntry(g)
  PROVE  CurrentInv'
<1> DEFINE job == [work[g] EXCEPT !.step = "checking", !.at = @ + 1, !.saw = FALSE]
<1>1. /\ Becomes(g, job) /\ work[g] \in Jobs /\ InStep(g, "updating") /\ Storing(g) /\ StepsAsJob(g)
      /\ StoredSoFar(g) /\ Item(g) \in stored /\ stored' = stored
      /\ content' = [content EXCEPT ![Item(g)] = work[g].got]
      /\ UNCHANGED <<version, validator, editing, unmade, raced>>
  BY JobTyped DEF UpdateEntry, NextItem, InStep, Storing, CurrentInv, EntriesInv, JobInv, rowVars, history
<1>2. /\ job \in Jobs /\ job.step = "checking" /\ job.at = work[g].at + 1 /\ job.job = work[g].job
      /\ job.got = work[g].got /\ job.doc = work[g].doc /\ job.update = work[g].update
  BY <1>1, NextItemTyped DEF Jobs
<1> HIDE DEF job
<1>3. ~Done(g) /\ Fetches(g) /\ stored' = stored \cup {Item(g)}
  BY <1>1 DEF StoredSoFar, StepsAsJob, InStep, Fetches
<1> QED
  BY <1>1, <1>2, <1>3, WriteKeepsCurrent

(* An import stores an entry that no validator's document has, or that has *)
(* a tombstone which its INSERT missed.                                    *)
LEMMA EndInsertKeepsCurrent ==
  ASSUME EntriesInv, CurrentInv, state = "present", NEW g \in Goroutines, EndInsert(g)
  PROVE  CurrentInv'
<1> DEFINE fresh == NewEntries(g)
           job == [work[g] EXCEPT !.step = "checking", !.at = @ + 1, !.fresh = fresh]
<1>1. /\ Becomes(g, job) /\ work[g] \in Jobs /\ InStep(g, "inserting") /\ Storing(g)
      /\ StoredSoFar(g) /\ SeesTombstones(g) /\ MayInsert(g)
      /\ stored' = stored \cup {Item(g)} /\ content' = [content EXCEPT ![Item(g)] = work[g].got]
      /\ UNCHANGED <<version, validator, editing, unmade, raced>>
  BY JobTyped DEF EndInsert, InStep, Storing, EntriesInv, JobInv, rowVars, history
<1>2. ~Done(g) /\ Item(g) \notin stored /\ (Item(g) \in tombs => Item(g) \in raced)
  BY <1>1 DEF StoredSoFar, SeesTombstones, MayInsert, InStep
<1>3. fresh \in SUBSET Items /\ work[g].at + 1 \in Nat \ {0}
  BY <1>1, <1>2 DEF NewEntries, Item, Done, Jobs
<1> HIDE DEF fresh
<1>4. /\ job \in Jobs /\ job.step = "checking" /\ job.at = work[g].at + 1 /\ job.job = work[g].job
      /\ job.got = work[g].got /\ job.doc = work[g].doc /\ job.update = work[g].update
  BY <1>1, <1>3 DEF Jobs
<1> HIDE DEF job
<1> QED
  BY <1>1, <1>2, <1>4, WriteKeepsCurrent

(* The refresh that writes its validator to the row is the only one.       *)
LEMMA SaveRowKeepsCurrent ==
  ASSUME EntriesInv, CurrentInv, state = "present", NEW g \in Goroutines, SaveRow(g)
  PROVE  CurrentInv'
<1>1. /\ InStep(g, "saving") /\ validator' = work[g].tag /\ Ends(g)
      /\ UNCHANGED <<version, stored, content, editing, unmade, raced>>
  BY DEF SaveRow, Saves, entryVars, history
<1>2. work'[g] = Idle /\ \A h \in Goroutines \ {g} : work'[h] = work[h]
  BY <1>1, IdleTyped, WorkTurns DEF Ends
<1>3. work[g].job = "refresh" /\ work[g].tag <= version /\ CurrentAt(work[g].tag)
  BY <1>1 DEF CurrentInv, StepsAsJob, HoldsCurrent, InStep
<1>4. \A h \in Goroutines \ {g} : ~Fetches(h)
  BY <1>3 DEF CurrentInv, OneFetches, Fetches
<1>5. OneFetches'
  BY <1>2, <1>4, IdleTyped DEF OneFetches, Fetches
<1>6. RowIsCurrent'
  <2>1. NotBefore(version)'
    BY <1>1, <1>3 DEF CurrentInv, RowIsCurrent, NotBefore
  <2> QED
    BY <1>1, <1>3, <2>1 DEF CurrentInv, RowIsCurrent, CurrentAt, OfVersion
<1>7. ASSUME NEW h \in Goroutines \ {g}
      PROVE  StoresCurrent(h)' /\ HoldsCurrent(h)' /\ CreatesAlone(h)' /\ StepsAsJob(h)'
  <2>1. HoldsCurrent(h) /\ StepsAsJob(h) /\ work'[h] = work[h] /\ ~Fetches(h)
    BY <1>2, <1>4 DEF CurrentInv
  <2> QED
    BY <1>1, <2>1 DEF StoresCurrent, HoldsCurrent, CreatesAlone, StepsAsJob, InStep, Fetches, CurrentAt, OfVersion
<1>8. StoresCurrent(g)' /\ HoldsCurrent(g)' /\ CreatesAlone(g)' /\ StepsAsJob(g)'
  BY <1>2 DEF StoresCurrent, HoldsCurrent, CreatesAlone, StepsAsJob, Storing, InStep, Idle
<1> QED
  BY <1>5, <1>6, <1>7, <1>8 DEF CurrentInv

(* The creation's validator stops being exempt, with its document stored. *)
LEMMA FinishCreateKeepsCurrent ==
  ASSUME EntriesInv, CurrentInv, state = "present", NEW g \in Goroutines, FinishCreate(g)
  PROVE  CurrentInv'
<1>1. /\ InStep(g, "checking") /\ Done(g) /\ work[g].job = "create" /\ Fetches(g) /\ Ends(g) /\ unmade' = 0
      /\ UNCHANGED <<version, validator, stored, content, editing, raced>>
  BY DEF FinishCreate, Fetches, rowVars, entryVars
<1>2. work'[g] = Idle /\ \A h \in Goroutines \ {g} : work'[h] = work[h]
  BY <1>1, IdleTyped, WorkTurns DEF Ends
<1>3. \A h \in Goroutines \ {g} : work[h].job = "none" /\ InStep(h, "idle")
  BY <1>1 DEF CurrentInv, CreatesAlone, StepsAsJob
<1>4. \A h \in Goroutines : work'[h].job = "none" /\ InStep(h, "idle")' /\ StepsAsJob(h)'
  <2>1. ASSUME NEW h \in Goroutines \ {g}
        PROVE  work'[h].job = "none" /\ InStep(h, "idle")' /\ StepsAsJob(h)'
    BY <1>2, <1>3, <2>1 DEF InStep, StepsAsJob, CurrentInv
  <2>2. work'[g].job = "none" /\ InStep(g, "idle")' /\ StepsAsJob(g)'
    BY <1>2 DEF InStep, StepsAsJob, Idle
  <2> QED
    BY <2>1, <2>2
<1>5. OneFetches' /\ \A h \in Goroutines : StoresCurrent(h)' /\ HoldsCurrent(h)' /\ CreatesAlone(h)'
  BY <1>4 DEF OneFetches, Fetches, StoresCurrent, HoldsCurrent, CreatesAlone, InStep
<1>6. /\ work[g].got \in Versions /\ unmade \in {0, work[g].got}
      /\ \A i \in ItemsOf(Documents[work[g].got]) : OfVersion(i, work[g].got)
  <2>1. CreatesUnmade(g)
    BY DEF EntriesInv
  <2> QED
    BY <1>1, <2>1, StoredAllCurrent, TagTyped DEF CreatesUnmade
<1>7. ASSUME NEW v, CurrentAt(v), v # 0
      PROVE  \A i \in ItemsOf(Documents[v]) : OfVersion(i, v)
  BY <1>6, <1>7 DEF CurrentAt
<1>8. RowIsCurrent'
  <2>1. NotBefore(version)'
    BY <1>1 DEF CurrentInv, RowIsCurrent, NotBefore
  <2>2. CurrentAt(validator)'
    BY <1>1, <1>7 DEF CurrentInv, RowIsCurrent, CurrentAt, OfVersion
  <2>3. \A u \in Editors : \A v \in editing'[u] : CurrentAt(v)'
    BY <1>1, <1>7 DEF CurrentInv, RowIsCurrent, CurrentAt, OfVersion
  <2> QED
    BY <2>1, <2>2, <2>3 DEF RowIsCurrent
<1> QED
  BY <1>4, <1>5, <1>8 DEF CurrentInv

(* Steps that leave every job alone: what they write to the row, or to a   *)
(* settings request, was current, and entries only go or become raced.     *)
LEMMA StandingKeepsCurrent ==
  ASSUME EntriesInv, CurrentInv, UNCHANGED <<work, unmade>>, version' \in Versions, version <= version',
         validator' = validator \/ (\E u \in Editors : validator' \in editing[u]),
         \A u \in Editors : editing'[u] \subseteq editing[u] \cup {validator},
         stored' \subseteq stored, raced \subseteq raced',
         \A i \in stored' : content'[i] = content[i]
  PROVE  CurrentInv'
<1>1. RefreshTypeOK
  BY DEF EntriesInv
<1>2. Validators \subseteq Nat /\ version \in Nat /\ version' \in Nat
  BY <1>1, DocumentsTyped DEF Validators, RefreshTypeOK
<1>3. ASSUME NEW v, CurrentAt(v)
      PROVE  CurrentAt(v)'
  BY <1>3 DEF CurrentAt, OfVersion
<1>4. ASSUME NEW v, NotBefore(v)
      PROVE  NotBefore(v)'
  BY <1>4 DEF NotBefore
<1>5. RowIsCurrent'
  <2>1. NotBefore(version)'
    <3>1. validator \in Nat /\ validator <= version
      BY <1>1, <1>2 DEF RefreshTypeOK, CurrentInv, RowIsCurrent, NotBefore
    <3>2. \A u \in Editors : \A e \in editing[u] : e \in Nat /\ e <= version
      BY <1>1, <1>2 DEF RefreshTypeOK, CurrentInv, RowIsCurrent, NotBefore
    <3>3. validator' \in Nat /\ validator' <= version'
      BY <1>2, <3>1, <3>2
    <3>4. \A u \in Editors : \A e \in editing'[u] : e <= version'
      BY <1>2, <3>1, <3>2
    <3> QED
      BY <3>3, <3>4 DEF NotBefore
  <2>2. CurrentAt(validator')
    BY DEF CurrentInv, RowIsCurrent
  <2>3. CurrentAt(validator)'
    BY <2>2 DEF CurrentAt, OfVersion
  <2>4. ASSUME NEW u \in Editors, NEW v \in editing'[u]
        PROVE  CurrentAt(v)'
    BY <1>3 DEF CurrentInv, RowIsCurrent
  <2> QED
    BY <2>1, <2>3, <2>4 DEF RowIsCurrent
<1>6. ASSUME NEW h \in Goroutines
      PROVE  StoresCurrent(h)' /\ HoldsCurrent(h)' /\ CreatesAlone(h)' /\ StepsAsJob(h)'
  <2>1. StoresCurrent(h) /\ HoldsCurrent(h) /\ CreatesAlone(h) /\ StepsAsJob(h) /\ work[h] \in Jobs
    BY <1>6, JobTyped DEF CurrentInv
  <2>2. StoresCurrent(h)'
    <3> SUFFICES ASSUME Storing(h), Fetches(h)
                 PROVE  /\ work[h].got <= version' /\ NotBefore(work[h].got)'
                        /\ \A k \in DOMAIN work[h].doc : k < work[h].at => OfVersion(work[h].doc[k], work[h].got)'
      BY DEF StoresCurrent, Storing, Fetches
    <3>1. work[h].got \in Nat /\ work[h].got <= version'
      <4>1. work[h].got \in Nat
        BY <1>2, <2>1 DEF Jobs
      <4>2. work[h].got <= version
        BY <2>1 DEF StoresCurrent
      <4> QED
        BY <1>2, <4>1, <4>2
    <3>2. NotBefore(work[h].got)'
      BY <2>1 DEF StoresCurrent, NotBefore
    <3> QED
      BY <2>1, <3>1, <3>2 DEF StoresCurrent, OfVersion
  <2>3. HoldsCurrent(h)'
    <3>1. work[h].asked \in Nat /\ work[h].tag \in Nat
      BY <1>2, <2>1 DEF Jobs
    <3> QED
      BY <1>2, <2>1, <3>1 DEF HoldsCurrent, InStep, CurrentAt, OfVersion
  <2> QED
    BY <2>1, <2>2, <2>3 DEF CreatesAlone, StepsAsJob, InStep
<1>7. OneFetches'
  BY DEF OneFetches, Fetches, CurrentInv
<1> QED
  BY <1>5, <1>6, <1>7 DEF CurrentInv

LEMMA UserKeepsCurrent ==
  ASSUME EntriesInv, CurrentInv, state = "present", User, state' = "present"
  PROVE  CurrentInv'
<1>1. version \in Versions /\ version <= version /\ RefreshTypeOK
  BY DocumentsTyped DEF EntriesInv, RefreshTypeOK
<1>2. ASSUME NEW u \in Editors, ReadSettings(u)
      PROVE  CurrentInv'
  BY <1>1, <1>2, StandingKeepsCurrent DEF ReadSettings, RefreshTypeOK, rowVars, entryVars, history
<1>3. ASSUME NEW u \in Editors, SaveSettings(u)
      PROVE  CurrentInv'
  BY <1>1, <1>3, StandingKeepsCurrent DEF SaveSettings, RefreshTypeOK, entryVars, history
<1> QED
  BY <1>2, <1>3 DEF User, RemoveFeed

LEMMA DeleteKeepsCurrent ==
  ASSUME EntriesInv, CurrentInv, NEW gone \in SUBSET stored, Delete(gone)
  PROVE  CurrentInv'
<1>1. version \in Versions /\ version <= version /\ RefreshTypeOK
  BY DocumentsTyped DEF EntriesInv, RefreshTypeOK
<1>2. /\ stored' = stored \ gone /\ raced \subseteq raced'
      /\ content' = [i \in Items |-> IF i \in gone THEN 0 ELSE content[i]]
      /\ UNCHANGED <<version, validator, work, editing, unmade>>
  BY DEF Delete, rowVars
<1>3. \A i \in stored' : content'[i] = content[i]
  BY <1>1, <1>2 DEF RefreshTypeOK
<1> QED
  BY <1>1, <1>2, <1>3, StandingKeepsCurrent

LEMMA PublishKeepsCurrent ==
  ASSUME EntriesInv, CurrentInv, Publish
  PROVE  CurrentInv'
<1>1. version \in Versions /\ version' = version + 1 /\ version' \in Versions /\ version <= version'
  BY DocumentsTyped DEF EntriesInv, RefreshTypeOK, Publish
<1> QED
  BY <1>1, StandingKeepsCurrent DEF Publish, rowVars, entryVars, history

(* A creation begins without entries, and nobody else does anything. *)
LEMMA CreateRowIsCurrent ==
  ASSUME EntriesInv, NEW g \in Goroutines, CreateRow(g)
  PROVE  CurrentInv'
<1> DEFINE job == [Idle EXCEPT !.job = "create", !.step = "checking", !.got = version,
                               !.doc = Documents[version]]
<1>1. /\ Becomes(g, job) /\ state = "absent" /\ validator' = Tag(version) /\ unmade' = Tag(version)
      /\ UNCHANGED <<version, entryVars, editing, raced>>
  BY DEF CreateRow, Begin
<1>2. /\ version \in Versions /\ version \in Nat /\ Tag(version) \in {0, version}
      /\ \A h \in Goroutines : work[h] = Idle
      /\ \A u \in Editors : editing[u] = {}
      /\ stored = {}
  BY <1>1, TagTyped, DocumentsTyped DEF EntriesInv, RefreshTypeOK
<1>3. /\ job \in Jobs /\ job.step = "checking" /\ job.job = "create" /\ job.got = version
      /\ ~job.update
  BY <1>2, IdleTyped, CreateTyped DEF Idle
<1> HIDE DEF job
<1>4. work'[g] = job /\ \A h \in Goroutines \ {g} : work'[h] = Idle
  BY <1>1, <1>2, <1>3, WorkTurns
<1>5. OneFetches'
  BY <1>4, IdleTyped DEF OneFetches, Fetches
<1>6. version <= version /\ NotBefore(version)'
  BY <1>1, <1>2 DEF NotBefore
<1>7. RowIsCurrent'
  BY <1>1, <1>2, <1>6 DEF RowIsCurrent, NotBefore, CurrentAt
<1>8. ASSUME NEW h \in Goroutines
      PROVE  StoresCurrent(h)' /\ HoldsCurrent(h)' /\ CreatesAlone(h)' /\ StepsAsJob(h)'
  <2>1. CASE h = g
    BY <1>1, <1>2, <1>3, <1>4, <1>6, <2>1, IdleTyped
       DEF StoresCurrent, HoldsCurrent, CreatesAlone, StepsAsJob, InStep, NotBefore, OfVersion, entryVars
  <2>2. CASE h # g
    BY <1>4, <2>2 DEF StoresCurrent, HoldsCurrent, CreatesAlone, StepsAsJob, Storing, InStep, Idle
  <2> QED
    BY <2>1, <2>2
<1> QED
  BY <1>5, <1>7, <1>8 DEF CurrentInv

LEMMA ContentStep ==
  ASSUME EntriesInv, ContentIInv, RefreshNext
  PROVE  ContentIInv'
<1> SUFFICES ASSUME UpdatesExisting, ~overlapped', state' = "present"
             PROVE  CurrentInv'
  BY DEF ContentIInv
<1>1. CASE \E g \in Goroutines : CreateRow(g)
  BY <1>1, CreateRowIsCurrent
<1>2. CASE ~(\E g \in Goroutines : CreateRow(g))
  <2>1. state = "present"
    BY <1>2 DEF RefreshNext, Publish, StartRefresh, Import, Job, Modified, NotModified, CheckEntry, UpdateEntry,
                BeginInsert, SkipTombstoned, EndInsert, FinishRefresh, FinishCreate, FinishImport, SaveRow, Fails,
                Delete, User, ReadSettings, SaveSettings, RemoveFeed, rowVars
  <2>2. ~overlapped
    BY <1>2 DEF RefreshNext, Publish, StartRefresh, Import, Job, Modified, NotModified, CheckEntry, UpdateEntry,
                BeginInsert, SkipTombstoned, EndInsert, FinishRefresh, FinishCreate, FinishImport, SaveRow, Fails,
                Delete, User, ReadSettings, SaveSettings, RemoveFeed, history
  <2>3. CurrentInv
    BY <2>1, <2>2 DEF ContentIInv
  <2>4. CASE Publish
    BY <2>3, <2>4, PublishKeepsCurrent
  <2>5. ASSUME NEW g \in Goroutines, Job(g) \/ Fails(g)
        PROVE  CurrentInv'
    <3>1. Fails(g) \/ FinishImport(g) => CurrentInv'
      BY <2>3, EndsKeepCurrent DEF Fails, FinishImport
    <3> QED
      BY <2>1, <2>3, <2>5, <3>1, ModifiedKeepsCurrent, NotModifiedKeepsCurrent, CheckEntryKeepsCurrent,
         UpdateEntryKeepsCurrent, BeginInsertKeepsCurrent, SkipKeepsCurrent, EndInsertKeepsCurrent,
         FinishRefreshKeepsCurrent, FinishCreateKeepsCurrent, SaveRowKeepsCurrent DEF Job
  <2>6. CASE \E g \in Goroutines, forced \in BOOLEAN, sent \in Validators : StartRefresh(g, forced, sent)
    BY <2>3, <2>6, StartRefreshKeepsCurrent
  <2>7. CASE \E g \in Goroutines, i \in Items : Import(g, i)
    BY <2>3, <2>7, ImportKeepsCurrent
  <2>8. CASE \E gone \in SUBSET stored : Delete(gone)
    BY <2>3, <2>8, DeleteKeepsCurrent
  <2>9. CASE User
    BY <2>1, <2>3, <2>9, UserKeepsCurrent
  <2> QED
    BY <1>2, <2>4, <2>5, <2>6, <2>7, <2>8, <2>9 DEF RefreshNext
<1> QED
  BY <1>1, <1>2

(* As long as refreshes do not overlap, nor an import the creation, the    *)
(* content of an entry that the row's validator stands for is of that      *)
(* document or of a later one, whatever fails, however long the server     *)
(* goes on publishing, and for any number of goroutines (RefreshFeed,      *)
(* RefreshFeedEntries, UpdateFeed).                                        *)
THEOREM ContentStaysCurrent == RefreshSpec => []ContentIsCurrent
<1>1. RefreshInit => ContentIInv
  BY DEF RefreshInit, ContentIInv
<1>2. EntriesInv /\ ContentIInv /\ [RefreshNext]_refreshVars => ContentIInv'
  <2>1. ASSUME ContentIInv, UNCHANGED refreshVars
        PROVE  ContentIInv'
    BY <2>1 DEF refreshVars, rowVars, entryVars, history, ContentIInv, CurrentInv, OneFetches, RowIsCurrent, NotBefore,
                CurrentAt, OfVersion, StoresCurrent, HoldsCurrent, CreatesAlone, StepsAsJob, Fetches, Storing, InStep
  <2> QED
    BY <2>1, ContentStep
<1>3. ContentIInv => ContentIsCurrent
  BY DEF ContentIInv, CurrentInv, RowIsCurrent, CurrentAt, OfVersion, ContentIsCurrent
<1> QED
  BY <1>1, <1>2, <1>3, EntriesConsistent, PTL DEF RefreshSpec
=============================================================================
