----------------------------- MODULE HostSpacing -----------------------------
(***************************************************************************)
(* What the prefetch host gate promises, whatever its implementation: one  *)
(* request per host at a time, and at least Delay between the end of one   *)
(* request to a host and the start of the next one to the same host.       *)
(* HostGate.tla models the code and is shown to implement this module.     *)
(***************************************************************************)
EXTENDS Naturals

CONSTANTS Workers,  \* the prefetch workers
          Hosts,    \* the hosts they send requests to
          Delay,    \* PREFETCH_HOST_DELAY, in clock ticks
          NoHost    \* not a host: the worker has no request in flight

VARIABLES asking,  \* the host each worker's request in flight goes to
          quiet    \* ticks since the last request to each host ended

spacingVars == <<asking, quiet>>

\* Once Delay has passed, how much longer ago makes no difference.
Ages == 0..(Delay + 1)
LongAgo == Delay + 1
Older(age) == IF age = LongAgo THEN age ELSE age + 1

SpacingInit == /\ asking = [w \in Workers |-> NoHost]
               /\ quiet = [h \in Hosts |-> LongAgo]

Begin(w, h) == /\ asking[w] = NoHost
               /\ \A v \in Workers : asking[v] # h
               /\ quiet[h] >= Delay
               /\ asking' = [asking EXCEPT ![w] = h]
               /\ UNCHANGED quiet

End(w) == /\ asking[w] # NoHost
          /\ asking' = [asking EXCEPT ![w] = NoHost]
          /\ quiet' = [quiet EXCEPT ![asking[w]] = 0]

Pass == /\ quiet' = [h \in Hosts |-> Older(quiet[h])]
        /\ UNCHANGED asking

SpacingNext == \/ \E w \in Workers, h \in Hosts : Begin(w, h)
               \/ \E w \in Workers : End(w)
               \/ Pass

SpacingSpec == SpacingInit /\ [][SpacingNext]_spacingVars
=============================================================================
