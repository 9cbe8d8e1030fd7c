----------------------------- MODULE MCPrefetch -----------------------------
(***************************************************************************)
(* Prefetch with history variables that remember what was promised to an   *)
(* entry, and the properties that relate the promises to the queue.        *)
(***************************************************************************)
EXTENDS Prefetch

\* The configurations put all entries on one host.
OneHost == [e \in Entries |-> "host"]

Interchangeable == Permutations(Entries) \cup Permutations(Workers)

VARIABLES
  owed,    \* entries a refresh wrote thin and decided to fetch, not read since
  raced,   \* those of them rewritten while a worker was past reading them
  lost     \* pending at the last restart, still to be fetched

history == <<owed, raced, lost>>

NeedsFetch(e) == /\ crawler /\ e \in Recent \cap unread
                 /\ Stored(e) /\ IsThin(content[e])

\* What this step does to an entry: a refresh decides to fetch it, a worker
\* is past reading it, a worker reads it, a full queue skips it, its refresh
\* fails after storing it.
Decided == {e \in Entries : \E r \in Refreshers :
              e \in refresh'[r].toQueue \ refresh[r].toQueue}
PastReading == {doing[w] : w \in {v \in Workers : pc[v] \notin {"idle", "reading"}}}
Read == {doing[w] : w \in {v \in Workers : pc[v] = "reading" /\ pc'[v] # "reading"}}
Dropped == {e \in Entries : \E r \in Refreshers :
              /\ e \in refresh[r].toQueue \ refresh'[r].toQueue
              /\ \/ e \notin pending /\ Len(queue) = QueueSize
                 \/ refresh[r].toStore # {}}

HInit == /\ Init
         /\ owed = {} /\ raced = {} /\ lost = {}

HRestart == /\ Restart
            /\ owed' = {} /\ raced' = {}
            /\ lost' = {e \in pending : NeedsFetch(e)}

HStep == /\ \/ \E r \in Refreshers : Refresh(r)
            \/ \E w \in Workers : Work(w)
            \/ Recovery
            \/ User
         /\ owed' = ((owed \ Read) \ Dropped) \cup Decided
         /\ raced' = ((raced \ Read) \ Dropped) \cup (Decided \cap PastReading)
         /\ lost' = IF recovery' = "failed" THEN {}
                    ELSE {e \in lost \ Read : NeedsFetch(e)'}

HNext == HStep \/ HRestart

HSpec == HInit /\ [][HNext]_<<vars, history>>
HFairSpec == HSpec /\ PrefetchFairness

Queueing(e) == \E r \in Refreshers : e \in refresh[r].toQueue

(* The comment on EnqueueRefreshed: the entries a refresh rewrites with    *)
(* the feed's content "have to be queued again or their fetched articles   *)
(* revert to teasers", so one that awaits its fetch is being enqueued or   *)
(* is pending.                                                             *)
RewrittenEntriesAreQueued == \A e \in owed : Queueing(e) \/ e \in pending

(* The same, but for entries rewritten while a worker was past reading     *)
(* them: what enqueue's "already pending" test guarantees.                 *)
QuietRewritesAreQueued == \A e \in owed \ raced : Queueing(e) \/ e \in pending

(* The package comment: "a restart re-derives the queue from recent unread *)
(* thin entries", so nothing that was pending and still needs its fetch is *)
(* left out once recoverRecent has run, unless its query failed.           *)
RestartRequeues ==
  recovery = "listed" => \A e \in lost : e \in toRecover \cup pending
=============================================================================
