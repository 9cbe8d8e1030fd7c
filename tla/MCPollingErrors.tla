-------------------------- MODULE MCPollingErrors --------------------------
(***************************************************************************)
(* Polling with a history variable that counts a feed's failures.          *)
(***************************************************************************)
EXTENDS MCPolling

VARIABLE failures  \* refreshes of each feed that failed since one succeeded

AnotherFailure(f) ==
  [failures EXCEPT ![f] = IF failures[f] < MaxErrors THEN failures[f] + 1 ELSE MaxErrors]

HInit == PollingInit /\ failures = [f \in Feeds |-> 0]

HNext ==
  \/ Otherwise /\ UNCHANGED failures
  \/ \E r \in Runners :
       \/ /\ RefreshSucceeds(r)
          /\ failures' = [failures EXCEPT ![refreshing[r].feed] = 0]
       \/ /\ RefreshFails(r) \/ RefreshLeavesRow(r)
          /\ failures' = AnotherFailure(refreshing[r].feed)

HSpec == HInit /\ [][HNext]_<<pollVars, failures>>

(* POLLING_PARSING_ERROR_LIMIT is "the maximum number of parsing errors    *)
(* that the program will try before stopping polling a feed" (miniflux.1). *)
PollingStopsAtTheLimit ==
  [][\A f \in Feeds : ErrorLimit > 0 /\ pushing[Scheduler] = <<>> /\ f \in ToSet(pushing'[Scheduler])
       => failures[f] < ErrorLimit]_<<pollVars, failures>>
=============================================================================
