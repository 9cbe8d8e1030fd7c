----------------------------- MODULE Enclosures -----------------------------
(***************************************************************************)
(* The enclosures of an entry (storage/enclosure.go): what a podcast's     *)
(* feed lists for it, with the place where the user stopped listening.     *)
(* Refreshes replace the list inside the transaction that updates the      *)
(* entry, and so one after the other; devices read an enclosure and write  *)
(* the whole row back with the new place.                                  *)
(***************************************************************************)
EXTENDS Naturals, Sequences, FiniteSets

CONSTANTS RawUrls,    \* what a feed may write as a URL
          Trimmed(_), \* the URL without the space around it
          Blank,      \* a URL that is only space
          Documents,  \* the lists of enclosures that the feed publishes
          Devices,    \* what plays them
          MaxRows, MaxProgression

ASSUME EnclosureAssumption == Documents \subseteq Seq(RawUrls) /\ MaxRows \in Nat

VARIABLES
    enclosures,  \* rows of the table: a set of [id, url, progression]
    listed,      \* what the last refresh to store the entry found in the feed
    lastId,      \* the last id given out
    playing,     \* the row a device has read and not written back yet
    heardUpTo    \* history: the place last saved for each URL since the feed lists it

enclosureVars == <<enclosures, listed, lastId, playing, heardUpTo>>

NotPlaying == [id |-> 0, url |-> Blank, progression |-> 0]

EnclosuresInit ==
    /\ enclosures = {} /\ listed = <<>> /\ lastId = 0
    /\ playing = [d \in Devices |-> NotPlaying]
    /\ heardUpTo = [u \in {Trimmed(raw) : raw \in RawUrls} |-> 0]

---------------------------------------------------------------------------
(* Refreshes.                                                              *)

\* createEnclosure: ON CONFLICT DO NOTHING; a blank URL is passed over.
createEnclosure(rows, raw, id) ==
    IF Trimmed(raw) = Blank \/ \E r \in rows : r.url = Trimmed(raw) THEN rows
    ELSE rows \cup {[id |-> id, url |-> Trimmed(raw), progression |-> 0]}

\* Wrong: what the feed writes is compared with what is stored.
KeptRaw(rows, list) == {r \in rows : \E i \in DOMAIN list : r.url = list[i]}
\* Those that the feed no longer lists are deleted.
Kept(rows, list) == {r \in rows : \E i \in DOMAIN list : r.url = Trimmed(list[i])}

\* The rows with what is in the list, and those that it does not have.
WithListed(list) ==
    LET created[i \in 0..Len(list)] ==
            IF i = 0 THEN enclosures
            ELSE createEnclosure(created[i - 1], list[i],
                     lastId + 1 + Cardinality(created[i - 1]) - Cardinality(enclosures))
    IN created[Len(list)]
updateEnclosures(list) == IF list = <<>> THEN {} ELSE Kept(WithListed(list), list)

\* A refresh creates the entry or updates it.
UpdateEntry ==
    \E list \in Documents :
       LET made == Cardinality(WithListed(list)) - Cardinality(enclosures)
       IN /\ lastId + made <= MaxRows
          /\ enclosures' = updateEnclosures(list)
          /\ listed' = list
          /\ lastId' = lastId + made
          /\ heardUpTo' = [u \in DOMAIN heardUpTo |->
                              IF \E i \in DOMAIN list : Trimmed(list[i]) = u THEN heardUpTo[u] ELSE 0]
          /\ UNCHANGED playing

\* The entry is archived or its feed removed.
DeleteEntry ==
    /\ enclosures # {}
    /\ enclosures' = {} /\ listed' = <<>>
    /\ heardUpTo' = [u \in DOMAIN heardUpTo |-> 0]
    /\ UNCHANGED <<lastId, playing>>
---------------------------------------------------------------------------
(* Devices.                                                                *)

\* EnclosureByID; a row that is gone is answered with 404.
EnclosureByID(d) ==
    /\ playing[d] = NotPlaying
    /\ \E r \in enclosures : playing' = [playing EXCEPT ![d] = r]
    /\ UNCHANGED <<enclosures, listed, lastId, heardUpTo>>

\* UpdateEnclosure: every column of the row with this id, if there is one.
UpdateEnclosure(d) ==
    LET mine == playing[d]
        there == {r \in enclosures : r.id = mine.id}
    IN /\ playing[d] # NotPlaying
       /\ \E p \in 1..MaxProgression :
             /\ enclosures' = (enclosures \ there) \cup
                              (IF there = {} THEN {} ELSE {[mine EXCEPT !.progression = p]})
             /\ heardUpTo' = IF there = {} THEN heardUpTo ELSE [heardUpTo EXCEPT ![mine.url] = p]
       /\ playing' = [playing EXCEPT ![d] = NotPlaying]
       /\ UNCHANGED <<listed, lastId>>

\* The request is refused (a negative place) or fails.
GiveUp(d) ==
    /\ playing[d] # NotPlaying
    /\ playing' = [playing EXCEPT ![d] = NotPlaying]
    /\ UNCHANGED <<enclosures, listed, lastId, heardUpTo>>

EnclosuresNext ==
    \/ UpdateEntry \/ DeleteEntry
    \/ \E d \in Devices : EnclosureByID(d) \/ UpdateEnclosure(d) \/ GiveUp(d)

EnclosureSpec == EnclosuresInit /\ [][EnclosuresNext]_enclosureVars

---------------------------------------------------------------------------
(* However often the feed is refreshed and however it writes its URLs,     *)
(* there is one row for each enclosure that it lists, and none else, with  *)
(* the place that was saved last since the feed began to list it           *)
(* (updateEnclosures, createEnclosure, saveEnclosureProgression).          *)
ProgressIsKept ==
    {<<r.url, r.progression>> : r \in enclosures} =
       {<<u, heardUpTo[u]>> : u \in {Trimmed(listed[i]) : i \in DOMAIN listed} \ {Blank}}
=============================================================================
