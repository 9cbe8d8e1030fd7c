----------------------------- MODULE WorkerPool -----------------------------
(***************************************************************************)
(* The pool of background workers: src/internal/worker/pool.go and         *)
(* worker.go.  Push hands jobs over through an unbuffered channel, so a    *)
(* job is given to a worker that waits for one or not at all; p.shutdown   *)
(* is closed once, and then every select finds it ready.  The WaitGroup    *)
(* counts the workers that have not left.                                  *)
(*                                                                         *)
(* A module that EXTENDS this one says who pushes and what a job does.     *)
(***************************************************************************)
EXTENDS Naturals, Sequences, FiniteSets

CONSTANTS Workers, Pushers,
          Feeds,   \* a job is the id of a feed to refresh
          NoFeed

ASSUME PoolAssumption == NoFeed \notin Feeds

VARIABLES pushing,  \* what each goroutine's Push has still to hand over
          wpc,      \* where each worker is in Run
          task,     \* the job of each worker
          closed,   \* p.shutdown is closed
          stopper   \* the goroutine that calls Shutdown: the daemon's

poolVars == <<pushing, wpc, task, closed, stopper>>

PoolTypeOK ==
  /\ pushing \in [Pushers -> Seq(Feeds)]
  /\ wpc \in [Workers -> {"receiving", "refreshing", "gone"}]
  /\ task \in [Workers -> Feeds \cup {NoFeed}]
  /\ closed \in BOOLEAN
  /\ stopper \in {"serving", "waiting", "stopped"}

(* NewPool. *)
PoolInit ==
  /\ pushing = [p \in Pushers |-> <<>>]
  /\ wpc = [w \in Workers |-> "receiving"]
  /\ task = [w \in Workers |-> NoFeed]
  /\ closed = FALSE
  /\ stopper = "serving"

(* A goroutine calls Push. *)
Push(p, jobs) ==
  /\ pushing[p] = <<>>
  /\ pushing' = [pushing EXCEPT ![p] = jobs]
  /\ UNCHANGED <<wpc, task, closed, stopper>>

(* The selects of Push and of Run meet on the queue.  One of the two was   *)
(* waiting, and nobody waits in a select that finds shutdown closed.       *)
HandOver(p, w) ==
  /\ ~closed
  /\ pushing[p] # <<>> /\ wpc[w] = "receiving"
  /\ wpc' = [wpc EXCEPT ![w] = "refreshing"]
  /\ task' = [task EXCEPT ![w] = Head(pushing[p])]
  /\ pushing' = [pushing EXCEPT ![p] = Tail(@)]
  /\ UNCHANGED <<closed, stopper>>

(* RefreshFeed has returned: Run receives again. *)
JobDone(w) ==
  /\ wpc[w] = "refreshing"
  /\ wpc' = [wpc EXCEPT ![w] = "receiving"]
  /\ task' = [task EXCEPT ![w] = NoFeed]
  /\ UNCHANGED <<pushing, closed, stopper>>

(* Faulty variant: Push only looks at shutdown before its first job.       *)
DiscardsAtOnce(p) == closed /\ pushing[p] # <<>> /\ UNCHANGED pushing

(* Push finds shutdown closed and returns, jobs or not. *)
Discards(p) == /\ closed /\ pushing[p] # <<>>
               /\ pushing' = [pushing EXCEPT ![p] = <<>>]

Discard(p) == Discards(p) /\ UNCHANGED <<wpc, task, closed, stopper>>

(* Run finds shutdown closed, returns and calls wg.Done. *)
Leave(w) ==
  /\ closed /\ wpc[w] = "receiving"
  /\ wpc' = [wpc EXCEPT ![w] = "gone"]
  /\ UNCHANGED <<pushing, task, closed, stopper>>

(* Faulty variant: Shutdown waits, and nobody has told the workers.        *)
WaitOnly ==
  /\ stopper = "serving"
  /\ stopper' = "waiting"
  /\ UNCHANGED <<pushing, wpc, task, closed>>

(* Shutdown closes p.shutdown... *)
Close ==
  /\ stopper = "serving"
  /\ stopper' = "waiting"
  /\ closed' = TRUE
  /\ UNCHANGED <<pushing, wpc, task>>

(* ...and returns from wg.Wait. *)
ShutdownReturns ==
  /\ stopper = "waiting"
  /\ \A w \in Workers : wpc[w] = "gone"
  /\ stopper' = "stopped"
  /\ UNCHANGED <<pushing, wpc, task, closed>>
=============================================================================
