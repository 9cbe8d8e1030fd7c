--------------------------- MODULE PrefetchProofs ---------------------------
(***************************************************************************)
(* The prefetcher's queue, its pending map and its failure memory agree,   *)
(* for any number of entries, workers and refreshes, any queue size and    *)
(* failure memory, and any number of restarts; and what a refresh decides  *)
(* to fetch, or a restart finds, stays in the queue (MCPrefetch.tla).      *)
(***************************************************************************)
EXTENDS MCPrefetch, FiniteSetTheorems, TLAPS

(* Appending to a sequence adds one element to its set, and keeps a        *)
(* sequence without duplicates so when the element is new.                 *)
LEMMA AppendElement ==
  ASSUME NEW S, NEW q \in Seq(S), NEW e \in S
  PROVE  /\ Append(q, e) \in Seq(S)
         /\ Len(Append(q, e)) = Len(q) + 1
         /\ ToSet(Append(q, e)) = ToSet(q) \cup {e}
         /\ e \notin ToSet(q) /\ NoDuplicates(q) => NoDuplicates(Append(q, e))
<1> DEFINE a == Append(q, e)
<1>1. a \in Seq(S) /\ Len(a) = Len(q) + 1
  OBVIOUS
<1>2. DOMAIN a = 1..(Len(q) + 1) /\ DOMAIN q = 1..Len(q) /\ Len(q) \in Nat
  OBVIOUS
<1>3. a[Len(q) + 1] = e /\ \A i \in 1..Len(q) : a[i] = q[i]
  OBVIOUS
<1> HIDE DEF a
<1>4. ToSet(a) = ToSet(q) \cup {e}
  <2>1. ToSet(a) \subseteq ToSet(q) \cup {e}
    BY <1>2, <1>3 DEF ToSet
  <2>2. e \in ToSet(a)
    BY <1>2, <1>3 DEF ToSet
  <2>3. ToSet(q) \subseteq ToSet(a)
    BY <1>2, <1>3 DEF ToSet
  <2> QED  BY <2>1, <2>2, <2>3
<1>5. ASSUME e \notin ToSet(q), NoDuplicates(q)
      PROVE  NoDuplicates(a)
  <2>1. \A i \in 1..Len(q) : q[i] # e
    BY <1>2, <1>5 DEF ToSet
  <2> QED  BY <1>2, <1>3, <1>5, <2>1 DEF NoDuplicates
<1> QED  BY <1>1, <1>4, <1>5 DEF a

(* Dropping the head of a nonempty sequence.                               *)
LEMMA TailElements ==
  ASSUME NEW S, NEW q \in Seq(S), q # <<>>
  PROVE  /\ Head(q) \in S /\ Tail(q) \in Seq(S)
         /\ Len(Tail(q)) = Len(q) - 1
         /\ ToSet(q) = ToSet(Tail(q)) \cup {Head(q)}
         /\ NoDuplicates(q) => Head(q) \notin ToSet(Tail(q)) /\ NoDuplicates(Tail(q))
<1> DEFINE t == Tail(q)
<1>1. Len(q) \in Nat \ {0} /\ DOMAIN q = 1..Len(q) /\ Head(q) = q[1] /\ Head(q) \in S
  OBVIOUS
<1>2. t \in Seq(S) /\ Len(t) = Len(q) - 1 /\ DOMAIN t = 1..(Len(q) - 1)
  BY <1>1
<1>3. \A i \in 1..(Len(q) - 1) : t[i] = q[i + 1]
  BY <1>1
<1> HIDE DEF t
<1>4. ToSet(q) = ToSet(t) \cup {Head(q)}
  <2>1. ASSUME NEW i \in DOMAIN q PROVE q[i] \in ToSet(t) \cup {Head(q)}
    <3>1. CASE i = 1
      BY <1>1, <3>1
    <3>2. CASE i # 1
      <4>1. i - 1 \in DOMAIN t /\ t[i - 1] = q[i]
        BY <1>1, <1>2, <1>3, <3>2
      <4> QED  BY <4>1 DEF ToSet
    <3> QED  BY <3>1, <3>2
  <2>2. ASSUME NEW i \in DOMAIN t PROVE t[i] \in ToSet(q)
    <3>1. i + 1 \in DOMAIN q /\ t[i] = q[i + 1]
      BY <1>1, <1>2, <1>3
    <3> QED  BY <3>1 DEF ToSet
  <2>3. Head(q) \in ToSet(q)
    BY <1>1 DEF ToSet
  <2> QED  BY <2>1, <2>2, <2>3 DEF ToSet
<1>5. ASSUME NoDuplicates(q)
      PROVE  Head(q) \notin ToSet(t) /\ NoDuplicates(t)
  <2>1. \A i \in DOMAIN t : t[i] # q[1]
    BY <1>1, <1>2, <1>3, <1>5 DEF NoDuplicates
  <2>2. ASSUME NEW i \in DOMAIN t, NEW j \in DOMAIN t, t[i] = t[j] PROVE i = j
    <3>1. q[i + 1] = q[j + 1] /\ i + 1 \in DOMAIN q /\ j + 1 \in DOMAIN q
      BY <1>1, <1>2, <1>3, <2>2
    <3>2. i + 1 = j + 1
      BY <1>5, <3>1 DEF NoDuplicates
    <3> QED  BY <1>2, <3>2
  <2> QED  BY <1>1, <2>1, <2>2 DEF ToSet, NoDuplicates
<1> QED  BY <1>1, <1>2, <1>4, <1>5 DEF t

(* enqueue keeps the types.                                                *)
LEMMA EnqueueType ==
  ASSUME PrefetchTypeOK, NEW e \in Entries, Enqueue(e)
  PROVE  queue' \in Seq(Entries) /\ pending' \subseteq Entries
<1>1. Append(queue, e) \in Seq(Entries)
  BY AppendElement DEF PrefetchTypeOK
<1>2. \/ queue' = Append(queue, e) /\ pending' = pending \cup {e}
      \/ queue' = queue /\ pending' = pending
  BY DEF Enqueue
<1> QED  BY <1>1, <1>2 DEF PrefetchTypeOK

LEMMA TypeInit == Init => PrefetchTypeOK
BY PrefetchAssumption DEF Init, PrefetchTypeOK, Lengths, Idle, RefreshState, WorkerPcs

LEMMA TypeRefresh ==
  ASSUME PrefetchTypeOK, NEW r \in Refreshers, Refresh(r)
  PROVE  PrefetchTypeOK'
<1> USE PrefetchAssumption
        DEF PrefetchTypeOK, database, memory, working, recovering, bounds
<1>1. ASSUME NEW forced \in Forcing, NEW delivered \in SUBSET Entries,
             StartRefresh(r, forced, delivered)
      PROVE  PrefetchTypeOK'
  BY <1>1 DEF StartRefresh, Change, RefreshState
<1>2. ASSUME NEW e \in Entries, NEW length \in Lengths, StoreEntry(r, e, length)
      PROVE  PrefetchTypeOK'
  <2>1. content' \in [Entries -> Lengths \cup {Absent, Removed}]
    BY <1>2 DEF StoreEntry
  <2>2. refresh' \in [Refreshers -> RefreshState]
    <3> DEFINE queueing == IF Fetches(r, e) /\ IsThin(length) THEN refresh[r].toQueue \cup {e}
                           ELSE refresh[r].toQueue
    <3>1. queueing \in SUBSET Entries
      BY DEF RefreshState
    <3>2. refresh' = [refresh EXCEPT ![r].toStore = @ \ {e}, ![r].toQueue = queueing]
      BY <1>2 DEF StoreEntry
    <3> HIDE DEF queueing
    <3>3. /\ refresh' \in [Refreshers -> {refresh'[x] : x \in Refreshers}]
          /\ \A x \in Refreshers \ {r} : refresh'[x] = refresh[x]
      BY <3>2
    <3>4. refresh'[r] = [refresh[r] EXCEPT !.toStore = @ \ {e}, !.toQueue = queueing]
      BY <3>2
    <3>5. refresh'[r] \in RefreshState
      <4> DEFINE old == refresh[r]
      <4>1. old \in RefreshState
        OBVIOUS
      <4>2. refresh'[r] = [old EXCEPT !.toStore = @ \ {e}, !.toQueue = queueing]
        BY <3>4
      <4> HIDE DEF old
      <4> QED  BY <3>1, <4>1, <4>2 DEF RefreshState
    <3> QED  BY <3>3, <3>5
  <2> QED  BY <1>2, <2>1, <2>2 DEF StoreEntry
<1>3. ASSUME RefreshFails(r) \/ EndRefresh(r) PROVE PrefetchTypeOK'
  <2>1. Idle \in RefreshState
    BY DEF Idle, RefreshState
  <2> QED  BY <1>3, <2>1 DEF RefreshFails, EndRefresh
<1>4. ASSUME NEW e \in Entries, EnqueueEntry(r, e) PROVE PrefetchTypeOK'
  <2>1. queue' \in Seq(Entries) /\ pending' \subseteq Entries
    BY <1>4, EnqueueType DEF EnqueueEntry
  <2> QED  BY <1>4, <2>1 DEF EnqueueEntry, RefreshState
<1> QED  BY <1>1, <1>2, <1>3, <1>4 DEF Refresh

LEMMA TypeWork ==
  ASSUME PrefetchTypeOK, IdleHasNoEntry, NEW w \in Workers, Work(w)
  PROVE  PrefetchTypeOK'
<1> USE PrefetchAssumption
        DEF PrefetchTypeOK, database, memory, working, recovering, bounds, Goto, WorkerPcs
<1>1. ASSUME Take(w) PROVE PrefetchTypeOK'
  <2>1. Head(queue) \in Entries /\ Tail(queue) \in Seq(Entries)
    BY <1>1, TailElements DEF Take
  <2> QED  BY <1>1, <2>1 DEF Take
<1>2. ASSUME ReadEntry(w) PROVE PrefetchTypeOK'
  BY <1>2 DEF ReadEntry, Stored
<1>3. ASSUME ReadFeed(w) \/ EnterGate(w) PROVE PrefetchTypeOK'
  BY <1>3 DEF ReadFeed, EnterGate
<1>4. ASSUME NEW length \in Lengths, Fetch(w, length) PROVE PrefetchTypeOK'
  BY <1>4 DEF Fetch
<1>5. ASSUME StoreFetched(w) PROVE PrefetchTypeOK'
  BY <1>5 DEF StoreFetched
<1>6. ASSUME NEW blocked \in BOOLEAN, ApplyFilter(w, blocked) PROVE PrefetchTypeOK'
  BY <1>6 DEF ApplyFilter
<1>7. ASSUME Finish(w) PROVE PrefetchTypeOK'
  <2>1. failed' \subseteq Entries /\ failedOrder' \in Seq(Entries)
    <3>1. CASE pc[w] = "found"
      BY <1>7, <3>1 DEF Finish
    <3>2. CASE pc[w] # "found"
      <4>1. doing[w] \in Entries
        BY <1>7 DEF Finish, IdleHasNoEntry
      <4>2. NoteFailure(doing[w])
        BY <1>7, <3>2 DEF Finish
      <4>3. Len(failedOrder) = FailedKept => failedOrder # <<>>
        OBVIOUS
      <4>4. failedOrder # <<>> => Tail(failedOrder) \in Seq(Entries)
        BY TailElements DEF PrefetchTypeOK
      <4>5. \A q \in Seq(Entries) : Append(q, doing[w]) \in Seq(Entries)
        BY <4>1, AppendElement
      <4>6. CASE doing[w] \in failed
        BY <4>2, <4>6 DEF NoteFailure
      <4>7. CASE doing[w] \notin failed /\ Len(failedOrder) = FailedKept
        <5>1. /\ failedOrder' = Append(Tail(failedOrder), doing[w])
              /\ failed' = (failed \cup {doing[w]}) \ {Head(failedOrder)}
          BY <4>2, <4>7 DEF NoteFailure
        <5>2. Tail(failedOrder) \in Seq(Entries)
          BY <4>3, <4>4, <4>7
        <5>3. failed' \subseteq Entries
          BY <4>1, <5>1
        <5> QED  BY <4>5, <5>1, <5>2, <5>3
      <4>8. CASE doing[w] \notin failed /\ Len(failedOrder) # FailedKept
        <5>1. failedOrder' = Append(failedOrder, doing[w]) /\ failed' = failed \cup {doing[w]}
          BY <4>2, <4>8 DEF NoteFailure
        <5> QED  BY <4>1, <4>5, <5>1
      <4> QED  BY <4>6, <4>7, <4>8
    <3> QED  BY <3>1, <3>2
  <2> QED  BY <1>7, <2>1 DEF Finish, StopPending, Lengths
<1> QED  BY <1>1, <1>2, <1>3, <1>4, <1>5, <1>6, <1>7 DEF Work

LEMMA TypeElse ==
  ASSUME PrefetchTypeOK, Recovery \/ User \/ Restart
  PROVE  PrefetchTypeOK'
<1> USE PrefetchAssumption
        DEF PrefetchTypeOK, database, memory, working, recovering, bounds
<1>1. ASSUME ListRecent PROVE PrefetchTypeOK'
  <2>1. toRecover' \subseteq Entries /\ recovery' \in {"listing", "listed", "failed"}
    BY <1>1 DEF ListRecent, Limited
  <2> QED  BY <1>1, <2>1 DEF ListRecent
<1>2. ASSUME NEW e \in Entries, Recover(e) PROVE PrefetchTypeOK'
  <2>1. queue' \in Seq(Entries) /\ pending' \subseteq Entries
    BY <1>2, EnqueueType DEF Recover
  <2> QED  BY <1>2, <2>1 DEF Recover
<1>3. ASSUME NEW e \in Entries, NEW length \in Lengths, Download(e, length)
      PROVE  PrefetchTypeOK'
  BY <1>3 DEF Download, Change
<1>4. ASSUME NEW e \in Entries, MarkRead(e) \/ RemoveEntry(e)
      PROVE  PrefetchTypeOK'
  BY <1>4 DEF MarkRead, RemoveEntry, Change
<1>5. ASSUME EditFeed PROVE PrefetchTypeOK'
  BY <1>5 DEF EditFeed, Change
<1>6. ASSUME Restart PROVE PrefetchTypeOK'
  <2>1. Idle \in RefreshState
    BY DEF Idle, RefreshState
  <2> QED  BY <1>6, <2>1 DEF Restart, Lengths, WorkerPcs
<1> QED  BY <1>1, <1>2, <1>3, <1>4, <1>5, <1>6 DEF Recovery, User
-----------------------------------------------------------------------------
core == <<memory, pc, doing>>

(* Steps that leave the queue, the maps and the workers alone.             *)
LEMMA CoreUnchanged ==
  ASSUME PrefetchInv, PrefetchTypeOK', UNCHANGED core
  PROVE  PrefetchInv'
<1> USE DEF PrefetchInv, core, memory
<1>1. PendingIsQueuedOrInWork'
  BY DEF PendingIsQueuedOrInWork, NoDuplicates, InWork, Busy
<1>2. QueueBounded' /\ FailedIsOrdered' /\ IdleHasNoEntry'
  BY DEF QueueBounded, FailedIsOrdered, IdleHasNoEntry
<1> QED  BY <1>1, <1>2

(* A worker moves on inside fetchEntry: it stays on its entry.             *)
LEMMA WorkerMoves ==
  ASSUME PrefetchInv, PrefetchTypeOK', NEW w \in Workers,
         pc[w] # "idle", NEW to, to # "idle", pc' = [pc EXCEPT ![w] = to],
         UNCHANGED <<memory, doing>>
  PROVE  PrefetchInv'
<1> USE DEF PrefetchInv, memory
<1>1. \A v \in Workers : Busy(v)' <=> Busy(v)
  BY DEF Busy, PrefetchTypeOK
<1>2. InWork' = InWork
  BY <1>1 DEF InWork
<1>3. PendingIsQueuedOrInWork'
  BY <1>1, <1>2 DEF PendingIsQueuedOrInWork, NoDuplicates
<1>4. QueueBounded' /\ FailedIsOrdered'
  BY DEF QueueBounded, FailedIsOrdered
<1>5. IdleHasNoEntry'
  BY DEF IdleHasNoEntry, PrefetchTypeOK
<1> QED  BY <1>3, <1>4, <1>5

(* enqueue adds an entry to the queue and to pending, or to neither.       *)
LEMMA EnqueueInv ==
  ASSUME PrefetchInv, PrefetchTypeOK', NEW e \in Entries, Enqueue(e),
         UNCHANGED <<failed, failedOrder, pc, doing>>
  PROVE  PrefetchInv'
<1> USE PrefetchAssumption DEF PrefetchInv
<1>1. InWork' = InWork /\ \A v \in Workers : Busy(v)' <=> Busy(v)
  BY DEF InWork, Busy
<1>2. FailedIsOrdered' /\ IdleHasNoEntry'
  BY DEF FailedIsOrdered, IdleHasNoEntry
<1>3. CASE e \notin pending /\ Len(queue) < QueueSize
  <2>1. queue' = Append(queue, e) /\ pending' = pending \cup {e}
    BY <1>3 DEF Enqueue
  <2>2. queue \in Seq(Entries)
    BY DEF PrefetchTypeOK
  <2>3. /\ Len(queue') = Len(queue) + 1
        /\ ToSet(queue') = ToSet(queue) \cup {e}
        /\ e \notin ToSet(queue) /\ NoDuplicates(queue) => NoDuplicates(queue')
    BY <2>1, <2>2, AppendElement
  <2>4. e \notin ToSet(queue) /\ e \notin InWork
    BY <1>3 DEF PendingIsQueuedOrInWork
  <2>5. NoDuplicates(queue)'
    BY <2>3, <2>4 DEF PendingIsQueuedOrInWork, NoDuplicates
  <2>6. ToSet(queue)' = ToSet(queue) \cup {e}
    BY <2>3 DEF ToSet
  <2>7. PendingIsQueuedOrInWork'
    BY <1>1, <2>1, <2>4, <2>5, <2>6 DEF PendingIsQueuedOrInWork
  <2>8. QueueBounded'
    BY <1>3, <2>2, <2>3 DEF QueueBounded
  <2> QED  BY <1>2, <2>7, <2>8
<1>4. CASE ~(e \notin pending /\ Len(queue) < QueueSize)
  <2>1. UNCHANGED core
    BY <1>4 DEF Enqueue, core, memory
  <2> QED  BY <2>1, CoreUnchanged
<1> QED  BY <1>3, <1>4

(* Taking a job moves its entry from the queue to a worker.                *)
LEMMA TakeInv ==
  ASSUME PrefetchInv, PrefetchTypeOK', NEW w \in Workers, Take(w)
  PROVE  PrefetchInv'
<1> USE PrefetchAssumption DEF PrefetchInv
<1> DEFINE e == Head(queue)
<1>1. /\ pc[w] = "idle" /\ pc' = [pc EXCEPT ![w] = "reading"]
      /\ queue # <<>> /\ queue' = Tail(queue)
      /\ doing' = [doing EXCEPT ![w] = e]
      /\ UNCHANGED <<pending, failed, failedOrder>>
  BY DEF Take, Goto
<1>2. queue \in Seq(Entries) /\ pc \in [Workers -> WorkerPcs]
      /\ doing \in [Workers -> Entries \cup {NoEntry}]
  BY DEF PrefetchTypeOK
<1>3. /\ e \in Entries
      /\ Len(queue') = Len(queue) - 1
      /\ ToSet(queue) = ToSet(queue') \cup {e}
      /\ NoDuplicates(queue) => e \notin ToSet(queue') /\ NoDuplicates(queue')
  BY <1>1, <1>2, TailElements
<1>4. ToSet(queue) = ToSet(queue)' \cup {e} /\ e \notin ToSet(queue)' /\ NoDuplicates(queue)'
  BY <1>3 DEF PendingIsQueuedOrInWork, ToSet, NoDuplicates
<1>5. \A v \in Workers : /\ Busy(v)' <=> (Busy(v) \/ v = w)
                         /\ doing'[v] = IF v = w THEN e ELSE doing[v]
  BY <1>1, <1>2 DEF Busy
<1>6. InWork' = InWork \cup {e}
  BY <1>1, <1>5 DEF InWork, Busy
<1>7. e \notin InWork
  BY <1>3 DEF PendingIsQueuedOrInWork
<1>8. \A u, v \in Workers : Busy(u)' /\ doing'[u] = doing'[v] => u = v
  <2> SUFFICES ASSUME NEW u \in Workers, NEW v \in Workers, Busy(u)', doing'[u] = doing'[v]
               PROVE  u = v
    OBVIOUS
  <2>1. CASE u = w /\ v # w
    <3>1. doing[v] = e
      BY <1>5, <2>1
    <3>2. Busy(v)
      BY <1>3, <3>1 DEF IdleHasNoEntry, Busy
    <3> QED  BY <1>7, <3>1, <3>2 DEF InWork
  <2>2. CASE u # w /\ v = w
    <3>1. Busy(u) /\ doing[u] = e
      BY <1>5, <2>2
    <3> QED  BY <1>7, <3>1 DEF InWork
  <2>3. CASE u # w /\ v # w
    BY <1>5, <2>3 DEF PendingIsQueuedOrInWork
  <2> QED  BY <2>1, <2>2, <2>3
<1>9. PendingIsQueuedOrInWork'
  BY <1>1, <1>4, <1>6, <1>7, <1>8 DEF PendingIsQueuedOrInWork
<1>10. QueueBounded'
  BY <1>2, <1>3 DEF QueueBounded
<1>11. FailedIsOrdered' /\ IdleHasNoEntry'
  BY <1>1, <1>2, <1>3 DEF FailedIsOrdered, IdleHasNoEntry
<1> QED  BY <1>9, <1>10, <1>11

(* Noting a failure keeps every remembered one in the order.               *)
LEMMA NoteFailureOrdered ==
  ASSUME PrefetchInv, NEW e \in Entries, NoteFailure(e)
  PROVE  FailedIsOrdered'
<1> USE PrefetchAssumption DEF PrefetchInv
<1>1. failedOrder \in Seq(Entries) /\ Len(failedOrder) <= FailedKept
      /\ failed \subseteq ToSet(failedOrder)
  BY DEF PrefetchTypeOK, FailedIsOrdered
<1>2. CASE e \in failed
  BY <1>1, <1>2 DEF NoteFailure, FailedIsOrdered
<1>3. CASE e \notin failed /\ Len(failedOrder) = FailedKept
  <2>1. /\ failedOrder' = Append(Tail(failedOrder), e)
        /\ failed' = (failed \cup {e}) \ {Head(failedOrder)}
    BY <1>3 DEF NoteFailure
  <2>2. failedOrder # <<>>
    BY <1>1, <1>3
  <2>3. /\ Tail(failedOrder) \in Seq(Entries)
        /\ Len(Tail(failedOrder)) = Len(failedOrder) - 1
        /\ ToSet(failedOrder) = ToSet(Tail(failedOrder)) \cup {Head(failedOrder)}
    BY <1>1, <2>2, TailElements
  <2>4. /\ Len(failedOrder') = Len(failedOrder)
        /\ ToSet(failedOrder') = ToSet(Tail(failedOrder)) \cup {e}
    <3> DEFINE rest == Tail(failedOrder)
    <3> HIDE DEF rest
    <3>0. rest \in Seq(Entries)
      BY <2>3 DEF rest
    <3>1. Len(Append(rest, e)) = Len(rest) + 1 /\ ToSet(Append(rest, e)) = ToSet(rest) \cup {e}
      BY <3>0, AppendElement
    <3>2. Len(failedOrder) \in Nat
      BY <1>1
    <3>3. Len(failedOrder') = Len(failedOrder)
      BY <2>1, <2>3, <3>1, <3>2 DEF rest
    <3> QED  BY <2>1, <3>1, <3>3 DEF rest
  <2>5. failed' \subseteq ToSet(failedOrder')
    BY <1>1, <2>1, <2>3, <2>4
  <2> QED  BY <1>3, <2>4, <2>5 DEF FailedIsOrdered, ToSet
<1>4. CASE e \notin failed /\ Len(failedOrder) # FailedKept
  <2>1. failedOrder' = Append(failedOrder, e) /\ failed' = failed \cup {e}
    BY <1>4 DEF NoteFailure
  <2>2. Len(failedOrder') = Len(failedOrder) + 1 /\ ToSet(failedOrder') = ToSet(failedOrder) \cup {e}
    BY <1>1, <2>1, AppendElement
  <2>3. Len(failedOrder) \in Nat
    BY <1>1
  <2>4. failed' \subseteq ToSet(failedOrder')
    BY <1>1, <2>1, <2>2
  <2> QED  BY <1>1, <1>4, <2>2, <2>3, <2>4 DEF FailedIsOrdered, ToSet
<1> QED  BY <1>2, <1>3, <1>4

(* Finishing a job removes its entry from the workers and from pending.    *)
LEMMA FinishInv ==
  ASSUME PrefetchInv, PrefetchTypeOK', NEW w \in Workers, Finish(w)
  PROVE  PrefetchInv'
<1> USE PrefetchAssumption DEF PrefetchInv
<1>1. /\ pc[w] \in {"found", "missed"} /\ pc' = [pc EXCEPT ![w] = "idle"]
      /\ pending' = pending \ {doing[w]}
      /\ doing' = [doing EXCEPT ![w] = NoEntry]
      /\ queue' = queue
  BY DEF Finish, StopPending
<1>2. /\ queue \in Seq(Entries) /\ pc \in [Workers -> WorkerPcs]
      /\ doing \in [Workers -> Entries \cup {NoEntry}]
  BY DEF PrefetchTypeOK
<1>3. doing[w] \in Entries /\ Busy(w)
  BY <1>1, <1>2 DEF IdleHasNoEntry, Busy
<1>4. \A v \in Workers : /\ Busy(v)' <=> (Busy(v) /\ v # w)
                         /\ doing'[v] = IF v = w THEN NoEntry ELSE doing[v]
  BY <1>1, <1>2 DEF Busy
<1>5. \A v \in Workers : Busy(v)' => doing[v] # doing[w]
  BY <1>3, <1>4 DEF PendingIsQueuedOrInWork
<1>6. InWork' = InWork \ {doing[w]}
  BY <1>3, <1>4, <1>5 DEF InWork
<1>7. doing[w] \notin ToSet(queue)
  BY <1>3 DEF PendingIsQueuedOrInWork, InWork
<1>8. \A u, v \in Workers : Busy(u)' /\ doing'[u] = doing'[v] => u = v
  <2> SUFFICES ASSUME NEW u \in Workers, NEW v \in Workers, Busy(u)', doing'[u] = doing'[v]
               PROVE  u = v
    OBVIOUS
  <2>1. u # w /\ Busy(u) /\ doing[u] # NoEntry
    BY <1>4 DEF IdleHasNoEntry, Busy
  <2>2. v # w /\ doing[u] = doing[v]
    BY <1>4, <2>1
  <2> QED  BY <2>1, <2>2 DEF PendingIsQueuedOrInWork
<1>9. PendingIsQueuedOrInWork'
  <2>1. ToSet(queue)' = ToSet(queue) /\ NoDuplicates(queue)'
    BY <1>1 DEF PendingIsQueuedOrInWork, NoDuplicates, ToSet
  <2> QED  BY <1>1, <1>6, <1>7, <1>8, <2>1 DEF PendingIsQueuedOrInWork
<1>10. FailedIsOrdered'
  <2>1. CASE pc[w] = "found"
    <3>1. failed' = failed \ {doing[w]} /\ failedOrder' = failedOrder
      BY <2>1 DEF Finish
    <3> QED  BY <3>1 DEF FailedIsOrdered
  <2>2. CASE pc[w] = "missed"
    <3>1. NoteFailure(doing[w])
      BY <2>2 DEF Finish
    <3> QED  BY <1>3, <3>1, NoteFailureOrdered
  <2> QED  BY <1>1, <2>1, <2>2
<1>11. QueueBounded' /\ IdleHasNoEntry'
  BY <1>1, <1>2 DEF QueueBounded, IdleHasNoEntry
<1> QED  BY <1>9, <1>10, <1>11

LEMMA WorkInv ==
  ASSUME PrefetchInv, PrefetchTypeOK', NEW w \in Workers, Work(w)
  PROVE  PrefetchInv'
<1>1. ASSUME ReadEntry(w) \/ ReadFeed(w) \/ EnterGate(w) \/ StoreFetched(w)
      PROVE  PrefetchInv'
  <2>1. PICK to \in WorkerPcs \ {"idle"} : /\ pc[w] # "idle"
                                           /\ pc' = [pc EXCEPT ![w] = to]
                                           /\ UNCHANGED <<memory, doing>>
    BY <1>1 DEF ReadEntry, ReadFeed, EnterGate, StoreFetched, Goto, WorkerPcs
  <2> QED  BY <2>1, WorkerMoves
<1>2. ASSUME NEW length \in Lengths, Fetch(w, length) PROVE PrefetchInv'
  <2>1. PICK to \in WorkerPcs \ {"idle"} : /\ pc[w] # "idle"
                                           /\ pc' = [pc EXCEPT ![w] = to]
                                           /\ UNCHANGED <<memory, doing>>
    BY <1>2 DEF Fetch, Goto, WorkerPcs
  <2> QED  BY <2>1, WorkerMoves
<1>3. ASSUME NEW blocked \in BOOLEAN, ApplyFilter(w, blocked) PROVE PrefetchInv'
  BY <1>3, WorkerMoves DEF ApplyFilter, Goto
<1> QED  BY <1>1, <1>2, <1>3, TakeInv, FinishInv DEF Work

LEMMA PrefetchInit == Init => PrefetchInv
<1> SUFFICES ASSUME Init PROVE PrefetchInv
  OBVIOUS
<1> USE PrefetchAssumption DEF Init
<1>1. PrefetchTypeOK
  BY TypeInit
<1>2. ToSet(<<>>) = {} /\ NoDuplicates(<<>>) /\ Len(<<>>) = 0
  BY DEF ToSet, NoDuplicates
<1>3. PendingIsQueuedOrInWork
  BY <1>2 DEF PendingIsQueuedOrInWork, InWork, Busy
<1>4. QueueBounded /\ FailedIsOrdered /\ IdleHasNoEntry
  BY <1>2 DEF QueueBounded, FailedIsOrdered, IdleHasNoEntry
<1> QED  BY <1>1, <1>3, <1>4 DEF PrefetchInv

LEMMA RestartInv ==
  ASSUME PrefetchTypeOK', Restart
  PROVE  PrefetchInv'
<1> USE PrefetchAssumption DEF Restart
<1>1. ToSet(<<>>) = {} /\ NoDuplicates(<<>>) /\ Len(<<>>) = 0
  BY DEF ToSet, NoDuplicates
<1>2. ToSet(queue)' = {} /\ ToSet(failedOrder)' = {} /\ NoDuplicates(queue)'
  BY DEF ToSet, NoDuplicates
<1>3. PendingIsQueuedOrInWork'
  BY <1>2 DEF PendingIsQueuedOrInWork, InWork, Busy
<1>4. QueueBounded' /\ FailedIsOrdered' /\ IdleHasNoEntry'
  BY <1>1, <1>2 DEF QueueBounded, FailedIsOrdered, IdleHasNoEntry
<1> QED  BY <1>3, <1>4 DEF PrefetchInv

LEMMA PrefetchStep == PrefetchInv /\ [Next]_vars => PrefetchInv'
<1> SUFFICES ASSUME PrefetchInv, [Next]_vars PROVE PrefetchInv'
  OBVIOUS
<1>1. PrefetchTypeOK /\ IdleHasNoEntry
  BY DEF PrefetchInv
<1>2. CASE UNCHANGED vars
  <2>1. PrefetchTypeOK'
    BY <1>1, <1>2 DEF PrefetchTypeOK, vars, database, memory, working, recovering, bounds
  <2> QED  BY <1>2, <2>1, CoreUnchanged DEF vars, core, memory, working
<1>3. ASSUME NEW r \in Refreshers, Refresh(r) PROVE PrefetchInv'
  <2>1. PrefetchTypeOK'
    BY <1>1, <1>3, TypeRefresh
  <2>2. ASSUME NEW e \in Entries, EnqueueEntry(r, e) PROVE PrefetchInv'
    BY <2>1, <2>2, EnqueueInv DEF EnqueueEntry, working
  <2>3. CASE ~\E e \in Entries : EnqueueEntry(r, e)
    <3>1. UNCHANGED core
      BY <1>3, <2>3 DEF Refresh, StartRefresh, StoreEntry, RefreshFails, EndRefresh, core, working
    <3> QED  BY <2>1, <3>1, CoreUnchanged
  <2> QED  BY <2>2, <2>3
<1>4. ASSUME NEW w \in Workers, Work(w) PROVE PrefetchInv'
  BY <1>1, <1>4, TypeWork, WorkInv
<1>5. ASSUME Recovery \/ User \/ Restart PROVE PrefetchInv'
  <2>1. PrefetchTypeOK'
    BY <1>1, <1>5, TypeElse
  <2>2. ASSUME NEW e \in Entries, Recover(e) PROVE PrefetchInv'
    BY <2>1, <2>2, EnqueueInv DEF Recover, working
  <2>3. ASSUME ListRecent \/ User PROVE PrefetchInv'
    <3>1. UNCHANGED core
      BY <2>3 DEF ListRecent, User, Download, MarkRead, RemoveEntry, EditFeed, core, working
    <3> QED  BY <2>1, <3>1, CoreUnchanged
  <2> QED  BY <1>5, <2>1, <2>2, <2>3, RestartInv DEF Recovery
<1> QED  BY <1>2, <1>3, <1>4, <1>5 DEF Next

(* The prefetcher's memory is consistent in every state: its types, the    *)
(* queue and pending, and the failure memory (prefetch.go).                *)
THEOREM PrefetchConsistent == Spec => []PrefetchInv
BY PrefetchInit, PrefetchStep, PTL DEF Spec

(* What State reports as "fetching" is exactly what is queued or in work,  *)
(* and never twice (enqueue and drain).                                    *)
THEOREM PendingIsExact == Spec => []PendingIsQueuedOrInWork
<1>1. PrefetchInv => PendingIsQueuedOrInWork
  BY DEF PrefetchInv
<1> QED  BY <1>1, PrefetchConsistent, PTL

(* The failure memory never outgrows failedEntriesKept (drain).            *)
THEOREM FailuresAreBounded == Spec => []FailedIsOrdered
<1>1. PrefetchInv => FailedIsOrdered
  BY DEF PrefetchInv
<1> QED  BY <1>1, PrefetchConsistent, PTL
-----------------------------------------------------------------------------
(* The steps of HSpec are Prefetch's, the history variables aside. *)
LEMMA HistoryStep == [HNext]_<<vars, history>> => [Next]_vars
<1>1. UNCHANGED <<vars, history>> => UNCHANGED vars
  OBVIOUS
<1> QED  BY <1>1 DEF HNext, HStep, HRestart, Next

LEMMA HistoryConsistent == HSpec => []PrefetchInv
<1>1. HInit => PrefetchInv
  BY PrefetchInit DEF HInit
<1>2. PrefetchInv /\ [HNext]_<<vars, history>> => PrefetchInv'
  BY HistoryStep, PrefetchStep
<1> QED  BY <1>1, <1>2, PTL DEF HSpec

(* A refresh that is over has nothing left to do. *)
IdleIsDone == \A r \in Refreshers :
  ~refresh[r].active => refresh[r].toStore = {} /\ refresh[r].toQueue = {}

(* Why QuietRewritesAreQueued: only the end of a job takes an entry out of *)
(* pending, and the entry of a job that is past reading it is not owed, or *)
(* is raced.                                                               *)
OwedTyped == owed \subseteq Entries

QuietInv ==
  /\ QuietRewritesAreQueued
  /\ (owed \ raced) \cap PastReading = {}
  /\ IdleIsDone

(* Steps in which no refresh decides or drops anything. *)
NothingDecided == UNCHANGED refresh \/ (\A r \in Refreshers : refresh'[r].toQueue \subseteq refresh[r].toQueue)

LEMMA NoDecision == NothingDecided => Decided = {}
BY DEF NothingDecided, Decided

LEMMA NoDrop == UNCHANGED refresh => Dropped = {}
BY DEF Dropped

(* A worker's step, or one of nobody: what it reads is no longer owed. *)
LEMMA QuietWork ==
  ASSUME PrefetchTypeOK, QuietInv, UNCHANGED refresh,
         owed' = ((owed \ Read) \ Dropped) \cup Decided,
         raced' = ((raced \ Read) \ Dropped) \cup (Decided \cap PastReading),
         PastReading' \subseteq PastReading \cup Read,
         \A e \in pending \ pending' : e \in PastReading
  PROVE  QuietInv'
<1>1. owed' = owed \ Read /\ raced' = raced \ Read
  BY NoDecision, NoDrop DEF NothingDecided
<1> QED
  BY <1>1 DEF QuietInv, QuietRewritesAreQueued, Queueing, IdleIsDone

LEMMA PastReadingMoves ==
  ASSUME PrefetchInv, NEW w \in Workers, Work(w)
  PROVE  /\ UNCHANGED refresh
         /\ PastReading' \subseteq PastReading \cup Read
         /\ \A e \in pending \ pending' : e \in PastReading
<1>1. /\ UNCHANGED refresh
      /\ \A v \in Workers \ {w} : pc'[v] = pc[v] /\ doing'[v] = doing[v]
      /\ pc'[w] \in {"idle", "reading"} \/ (pc[w] # "idle" /\ doing'[w] = doing[w])
  BY DEF Work, Take, ReadEntry, ReadFeed, EnterGate, Fetch, StoreFetched, ApplyFilter, Finish, Goto,
         PrefetchInv, PrefetchTypeOK
<1>2. PastReading' \subseteq PastReading \cup Read
  <2> SUFFICES ASSUME NEW v \in Workers, pc'[v] \notin {"idle", "reading"}
               PROVE  doing'[v] \in PastReading \cup Read
    BY DEF PastReading
  <2>1. pc[v] # "idle" /\ doing'[v] = doing[v]
    BY <1>1
  <2> QED  BY <2>1 DEF PastReading, Read
<1>3. \A e \in pending \ pending' : e \in PastReading
  BY DEF Work, Take, ReadEntry, ReadFeed, EnterGate, Fetch, StoreFetched, ApplyFilter, Finish, Goto,
         StopPending, PastReading, memory
<1> QED  BY <1>1, <1>2, <1>3

(* Nothing but workers' steps changes where workers are. *)
LEMMA PastReadingStays ==
  ASSUME UNCHANGED <<pc, doing>>
  PROVE  PastReading' = PastReading /\ Read = {}
BY DEF PastReading, Read

(* A refresh's step: what it takes out of toQueue becomes pending or is    *)
(* dropped.                                                                *)
LEMMA RefreshTakes ==
  ASSUME PrefetchInv, IdleIsDone, NEW r \in Refreshers, Refresh(r)
  PROVE  /\ UNCHANGED <<pc, doing>> /\ pending \subseteq pending' /\ IdleIsDone'
         /\ \A e \in Entries : Queueing(e) => Queueing(e)' \/ e \in pending' \/ e \in Dropped
         /\ \A e \in Decided : Queueing(e)'
<1>0. /\ refresh \in [Refreshers -> RefreshState] /\ queue \in Seq(Entries)
      /\ Len(queue) <= QueueSize /\ QueueSize \in Nat
  BY PrefetchAssumption DEF PrefetchInv, PrefetchTypeOK, QueueBounded
<1>1. UNCHANGED <<pc, doing>> /\ pending \subseteq pending'
  BY DEF Refresh, StartRefresh, StoreEntry, RefreshFails, EnqueueEntry, EndRefresh, Enqueue, working, memory
<1>2. \A q \in Refreshers \ {r} : refresh'[q] = refresh[q]
  BY <1>0 DEF Refresh, StartRefresh, StoreEntry, RefreshFails, EnqueueEntry, EndRefresh
<1>3. /\ ~refresh'[r].active => refresh'[r].toStore = {} /\ refresh'[r].toQueue = {}
      /\ \A e \in refresh[r].toQueue \ refresh'[r].toQueue : e \in pending' \/ e \in Dropped
  <2>1. ASSUME NEW forced \in Forcing, NEW delivered \in SUBSET Entries, StartRefresh(r, forced, delivered)
        PROVE  /\ ~refresh'[r].active => refresh'[r].toStore = {} /\ refresh'[r].toQueue = {}
               /\ \A e \in refresh[r].toQueue \ refresh'[r].toQueue : e \in pending' \/ e \in Dropped
    BY <1>0, <2>1 DEF StartRefresh, IdleIsDone
  <2>2. ASSUME NEW e \in Entries, NEW length \in Lengths, StoreEntry(r, e, length)
        PROVE  /\ refresh'[r].active /\ refresh[r].toQueue \subseteq refresh'[r].toQueue
    <3>1. /\ refresh'[r].active = refresh[r].active
          /\ refresh'[r].toQueue = IF Fetches(r, e) /\ IsThin(length) THEN refresh[r].toQueue \cup {e}
                                                                      ELSE refresh[r].toQueue
      BY <1>0, <2>2 DEF StoreEntry, RefreshState
    <3>2. refresh[r].active
      BY <1>0, <2>2 DEF StoreEntry, IdleIsDone, RefreshState
    <3> QED  BY <3>1, <3>2
  <2>3. ASSUME RefreshFails(r)
        PROVE  /\ refresh'[r] = Idle
               /\ \A e \in refresh[r].toQueue \ refresh'[r].toQueue : e \in Dropped
    BY <1>0, <2>3 DEF RefreshFails, Dropped, RefreshState
  <2>4. ASSUME NEW e \in Entries, EnqueueEntry(r, e)
        PROVE  /\ refresh'[r].active /\ \A d \in refresh[r].toQueue \ refresh'[r].toQueue : d \in pending' \/ d \in Dropped
    <3>1. /\ refresh'[r].active = refresh[r].active /\ refresh'[r].toQueue = refresh[r].toQueue \ {e}
          /\ refresh[r].active
      BY <1>0, <2>4 DEF EnqueueEntry, RefreshState, IdleIsDone
    <3>2. e \in pending' \/ (e \notin pending /\ Len(queue) = QueueSize)
      BY <1>0, <2>4 DEF EnqueueEntry, Enqueue
    <3>3. e \in pending' \/ e \in Dropped
      BY <2>4, <3>1, <3>2 DEF Dropped, EnqueueEntry
    <3> QED  BY <3>1, <3>3
  <2>5. ASSUME EndRefresh(r)
        PROVE  refresh'[r] = Idle /\ refresh[r].toQueue = {}
    BY <1>0, <2>5 DEF EndRefresh
  <2>6. Idle.toStore = {} /\ Idle.toQueue = {}
    BY DEF Idle
  <2> QED  BY <2>1, <2>2, <2>3, <2>4, <2>5, <2>6 DEF Refresh
<1>4. IdleIsDone'
  BY <1>2, <1>3 DEF IdleIsDone
<1>5. \A e \in Entries : Queueing(e) => Queueing(e)' \/ e \in pending' \/ e \in Dropped
  BY <1>2, <1>3 DEF Queueing
<1>6. \A e \in Decided : Queueing(e)'
  BY DEF Decided, Queueing
<1> QED  BY <1>1, <1>4, <1>5, <1>6

LEMMA QuietStep ==
  ASSUME PrefetchInv, QuietInv, OwedTyped, HNext
  PROVE  QuietInv'
<1>1. CASE HRestart
  <2>1. owed' = {} /\ refresh' = [r \in Refreshers |-> Idle]
    BY <1>1 DEF HRestart, Restart
  <2> QED  BY <2>1 DEF QuietInv, QuietRewritesAreQueued, IdleIsDone, Idle
<1>2. ASSUME HStep, NEW w \in Workers, Work(w) PROVE QuietInv'
  BY <1>2, PastReadingMoves, QuietWork DEF HStep, PrefetchInv
<1>3. ASSUME HStep, Recovery \/ User PROVE QuietInv'
  <2>1. UNCHANGED <<pc, doing, refresh>> /\ pending \subseteq pending'
    BY <1>3 DEF Recovery, User, ListRecent, Recover, Enqueue, Download, MarkRead, RemoveEntry, EditFeed,
                working, memory
  <2> QED  BY <1>3, <2>1, PastReadingStays, QuietWork DEF HStep, PrefetchInv
<1>4. ASSUME HStep, NEW r \in Refreshers, Refresh(r) PROVE QuietInv'
  <2>1. /\ UNCHANGED <<pc, doing>> /\ pending \subseteq pending' /\ IdleIsDone'
        /\ \A e \in Entries : Queueing(e) => Queueing(e)' \/ e \in pending' \/ e \in Dropped
        /\ \A e \in Decided : Queueing(e)'
    BY <1>4, RefreshTakes DEF QuietInv
  <2>2. /\ owed' = (owed \ Dropped) \cup Decided
        /\ raced' = (raced \ Dropped) \cup (Decided \cap PastReading)
        /\ PastReading' = PastReading
    BY <1>4, <2>1, PastReadingStays DEF HStep
  <2>3. (owed' \ raced') \cap PastReading' = {}
    BY <2>2 DEF QuietInv
  <2>4. ASSUME NEW e \in owed' \ raced' PROVE Queueing(e)' \/ e \in pending'
    <3>1. CASE e \in Decided
      BY <2>1, <3>1
    <3>2. CASE e \notin Decided
      BY <2>1, <2>2, <3>2 DEF QuietInv, QuietRewritesAreQueued, OwedTyped
    <3> QED  BY <3>1, <3>2
  <2> QED  BY <2>1, <2>3, <2>4 DEF QuietInv, QuietRewritesAreQueued
<1> QED  BY <1>1, <1>2, <1>3, <1>4 DEF HNext, HStep

(* An entry that a refresh wrote thin and decided to fetch is on its way   *)
(* to the queue, or pending, until a worker reads it: the refresh's own    *)
(* write is not lost, unless the queue is full or the refresh fails, or a  *)
(* worker was past reading the entry (EnqueueRefreshed and enqueue).       *)
THEOREM RewritesAreQueued == HSpec => []QuietRewritesAreQueued
<1>1. HInit => QuietInv /\ OwedTyped
  BY DEF HInit, Init, QuietInv, QuietRewritesAreQueued, IdleIsDone, Idle, OwedTyped
<1>2. OwedTyped /\ [HNext]_<<vars, history>> => OwedTyped'
  BY DEF HNext, HStep, HRestart, Decided, history, OwedTyped
<1>3. PrefetchInv /\ QuietInv /\ OwedTyped /\ [HNext]_<<vars, history>> => QuietInv'
  <2>1. UNCHANGED <<vars, history>> /\ QuietInv => QuietInv'
    BY DEF vars, history, database, memory, working, recovering, bounds, QuietInv, QuietRewritesAreQueued,
           Queueing, IdleIsDone, PastReading
  <2> QED  BY <2>1, QuietStep
<1>4. QuietInv => QuietRewritesAreQueued
  BY DEF QuietInv
<1> QED  BY <1>1, <1>2, <1>3, <1>4, HistoryConsistent, PTL DEF HSpec
-----------------------------------------------------------------------------
(* What RestartRequeues needs: the entries found at a restart still need   *)
(* their fetch and no worker has read them, and once they are listed they  *)
(* are being enqueued or pending.                                          *)
RequeueInv ==
  /\ RestartRequeues
  /\ lost \cap PastReading = {}
  /\ \A e \in lost : e \in Entries /\ NeedsFetch(e)
  /\ recovery = "failed" => lost = {}

Room == Cardinality(Entries) <= QueueSize

(* A queue without duplicates has no more elements than there are.         *)
LEMMA QueueHasRoom ==
  ASSUME PrefetchInv, Room, NEW e \in Entries \ ToSet(queue)
  PROVE  Len(queue) < QueueSize
<1> DEFINE rest == Entries \ {e}
           n == Len(queue)
<1>1. queue \in Seq(Entries) /\ NoDuplicates(queue) /\ n \in Nat /\ QueueSize \in Nat
  BY PrefetchAssumption DEF PrefetchInv, PrefetchTypeOK, PendingIsQueuedOrInWork
<1>2. IsFiniteSet(rest) /\ Cardinality(rest) = Cardinality(Entries) - 1 /\ Cardinality(Entries) \in Nat
  BY PrefetchAssumption, FS_RemoveElement, FS_CardinalityType
<1>3. queue \in [1..n -> rest]
  <2>1. \A i \in 1..n : queue[i] \in rest
    BY <1>1 DEF ToSet
  <2> QED  BY <1>1, <2>1
<1>4. queue \in Injection(1..n, rest)
  BY <1>1, <1>3 DEF Injection, IsInjective, NoDuplicates
<1>5. Cardinality(1..n) <= Cardinality(rest)
  BY <1>2, <1>4, FS_Injection
<1>6. Cardinality(1..n) = n
  <2>1. 1 \in Int /\ n \in Int
    BY <1>1
  <2>2. Cardinality(1..n) = IF 1 > n THEN 0 ELSE n - 1 + 1
    BY <2>1, FS_Interval
  <2> QED  BY <1>1, <2>2
<1> QED  BY <1>1, <1>2, <1>5, <1>6 DEF Room

LEMMA EnqueuedIsPending ==
  ASSUME PrefetchInv, Room, NEW e \in Entries, Enqueue(e)
  PROVE  e \in pending' /\ pending \subseteq pending'
<1>1. e \notin pending => Len(queue) < QueueSize
  BY QueueHasRoom DEF PrefetchInv, PendingIsQueuedOrInWork
<1> QED  BY <1>1 DEF Enqueue

(* recentEntries lists every entry that needs its fetch: with room for all *)
(* entries its limit leaves none out.                                      *)
LEMMA ListedAreAll ==
  ASSUME PrefetchInv, Room, ListRecent, recovery' = "listed"
  PROVE  \A e \in Entries : NeedsFetch(e) => e \in toRecover'
<1> DEFINE S == {e \in Recent \cap unread : Stored(e)}
<1>1. PICK listed \in Limited(S) : toRecover' = {e \in listed : crawler /\ IsThin(content[e])}
  BY DEF ListRecent
<1>2. S \subseteq Entries
  BY DEF PrefetchInv, PrefetchTypeOK
<1>3. listed = S
  <2>1. listed \in SUBSET S /\ (listed = S \/ Cardinality(listed) = QueueSize) /\ QueueSize \in Nat
    BY PrefetchAssumption DEF Limited
  <2> HIDE DEF S
  <2>2. listed \in SUBSET Entries /\ IsFiniteSet(Entries) /\ Cardinality(Entries) \in Nat
    BY <1>2, <2>1, PrefetchAssumption, FS_CardinalityType
  <2>3. CASE Cardinality(listed) = QueueSize
    <3>1. Cardinality(listed) <= Cardinality(Entries)
      BY <2>2, FS_Subset
    <3>2. Cardinality(Entries) = Cardinality(listed)
      BY <2>1, <2>2, <2>3, <3>1 DEF Room
    <3>3. listed = Entries
      BY <2>2, <3>2, FS_Subset
    <3> QED  BY <1>2, <2>1, <3>3
  <2> QED  BY <2>1, <2>3
<1> QED  BY <1>1, <1>3 DEF NeedsFetch

LEMMA RequeueStep ==
  ASSUME PrefetchInv, Room, RequeueInv, HNext
  PROVE  RequeueInv'
<1>1. CASE HRestart
  <2>1. /\ lost' = {e \in pending : NeedsFetch(e)} /\ recovery' = "listing"
        /\ UNCHANGED <<content, unread, crawler>> /\ pending \subseteq Entries
        /\ pc' = [w \in Workers |-> "idle"]
    BY <1>1 DEF HRestart, Restart, database, PrefetchInv, PrefetchTypeOK
  <2>2. PastReading' = {}
    BY <2>1 DEF PastReading
  <2> QED  BY <2>1, <2>2 DEF RequeueInv, RestartRequeues, NeedsFetch, Stored
<1>2. CASE HStep
  <2>1. /\ recovery' = "failed" => lost' = {}
        /\ lost' \subseteq lost \ Read
        /\ \A e \in lost' : e \in Entries /\ NeedsFetch(e)'
    BY <1>2 DEF HStep, RequeueInv
  <2>2. PastReading' \subseteq PastReading \cup Read /\ (\A e \in pending \ pending' : e \in PastReading)
    <3>1. ASSUME NEW w \in Workers, Work(w)
          PROVE  PastReading' \subseteq PastReading \cup Read /\ (\A e \in pending \ pending' : e \in PastReading)
      BY <3>1, PastReadingMoves
    <3>2. ASSUME ~\E w \in Workers : Work(w)
          PROVE  UNCHANGED <<pc, doing>> /\ pending \subseteq pending'
      BY <1>2, <3>2 DEF HStep, Refresh, StartRefresh, StoreEntry, RefreshFails, EnqueueEntry, EndRefresh,
                        Recovery, User, ListRecent, Recover, Enqueue, Download, MarkRead, RemoveEntry, EditFeed,
                        working, memory
    <3> QED  BY <3>1, <3>2, PastReadingStays
  <2>3. lost' \cap PastReading' = {}
    BY <2>1, <2>2 DEF RequeueInv
  <2>4. RestartRequeues'
    <3> SUFFICES ASSUME recovery' = "listed", NEW e \in lost'
                 PROVE  e \in toRecover' \/ e \in pending'
      BY DEF RestartRequeues
    <3>1. e \in Entries /\ e \in lost /\ NeedsFetch(e) /\ e \notin PastReading
      BY <2>1 DEF RequeueInv
    <3>2. CASE ListRecent
      BY <3>1, <3>2, ListedAreAll
    <3>3. CASE ~ListRecent
      <4>1. recovery = "listed"
        BY <1>2, <3>3 DEF HStep, Refresh, StartRefresh, StoreEntry, RefreshFails, EnqueueEntry, EndRefresh,
                          Work, Take, ReadEntry, ReadFeed, EnterGate, Fetch, StoreFetched, ApplyFilter, Finish,
                          Recovery, Recover, User, Download, MarkRead, RemoveEntry, EditFeed, recovering
      <4>2. e \in toRecover \/ e \in pending
        BY <3>1, <4>1 DEF RequeueInv, RestartRequeues
      <4>3. e \in pending => e \in pending'
        BY <2>2, <3>1
      <4>4. CASE \E d \in Entries : Recover(d)
        <5>1. PICK d \in Entries : Recover(d)
          BY <4>4
        <5>2. d \in pending' /\ toRecover' = toRecover \ {d}
          BY <5>1, EnqueuedIsPending DEF Recover
        <5> QED  BY <4>2, <4>3, <5>2
      <4>5. CASE ~\E d \in Entries : Recover(d)
        <5>1. toRecover' = toRecover
          BY <1>2, <3>3, <4>5 DEF HStep, Refresh, StartRefresh, StoreEntry, RefreshFails, EnqueueEntry, EndRefresh,
                          Work, Take, ReadEntry, ReadFeed, EnterGate, Fetch, StoreFetched, ApplyFilter, Finish,
                          Recovery, User, Download, MarkRead, RemoveEntry, EditFeed, recovering
        <5> QED  BY <4>2, <4>3, <5>1
      <4> QED  BY <4>4, <4>5
    <3> QED  BY <3>2, <3>3
  <2> QED  BY <2>1, <2>3, <2>4 DEF RequeueInv
<1> QED  BY <1>1, <1>2 DEF HNext

(* When the queue has room for every entry, a restart forgets nothing: what *)
(* was pending and still needs its fetch is enqueued again once            *)
(* recoverRecent has listed it, whatever users, refreshes and workers do   *)
(* meanwhile (recoverRecent, recentEntries and the package comment).       *)
THEOREM RestartsRequeue ==
  ASSUME Cardinality(Entries) <= QueueSize
  PROVE  HSpec => []RestartRequeues
<1>1. Room
  BY DEF Room
<1>2. HInit => RequeueInv
  BY DEF HInit, Init, RequeueInv, RestartRequeues
<1>3. PrefetchInv /\ RequeueInv /\ [HNext]_<<vars, history>> => RequeueInv'
  <2>1. UNCHANGED <<vars, history>> /\ RequeueInv => RequeueInv'
    BY DEF vars, history, database, memory, working, recovering, bounds, RequeueInv, RestartRequeues,
           PastReading, NeedsFetch, Stored
  <2> QED  BY <1>1, <2>1, RequeueStep
<1>4. RequeueInv => RestartRequeues
  BY DEF RequeueInv
<1> QED  BY <1>2, <1>3, <1>4, HistoryConsistent, PTL DEF HSpec
=============================================================================
