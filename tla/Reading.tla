------------------------------ MODULE Reading ------------------------------
(***************************************************************************)
(* What readers do with one user's entries, from several devices at once:  *)
(* the web interface, the REST, Google Reader and Fever interfaces mark,   *)
(* star, share and delete (storage/entry.go), while refreshes bring new    *)
(* entries and a Google Reader client pages through a stream of them by    *)
(* offset (googlereader/handler.go, storage/entry_query_builder.go).       *)
(***************************************************************************)
EXTENDS Naturals, Sequences, FiniteSets

CONSTANTS Entries, Syncers, Taggers, Sharers, Codes, NoCode,
          Date(_),      \* published_at of an entry; two may have the same
          FeedOf(_), Categories, HiddenFeeds,
          PageSizes     \* values of the parameter n

ASSUME ReadingAssumption ==
    /\ NoCode \notin Codes /\ IsFiniteSet(Entries)
    /\ \A e \in Entries : Date(e) \in Nat
    /\ PageSizes \subseteq Nat \ {0}

VARIABLES
    there,     \* entries there are
    buried,    \* entries deleted, which refreshes do not bring back
    unread, starred,
    code,      \* share codes
    listing,   \* how far a client is with a stream
    tagging,   \* a request to edit tags, after it has read the entries
    sharing,   \* a request for a share code
    coded,     \* codes ever generated
    handed     \* history: codes given out by requests on their own, still valid

entryVars == <<there, buried, unread, starred>>
codeVars == <<code, coded, handed>>
readingVars == <<entryVars, codeVars, listing, tagging, sharing>>

NoListing == [at |-> "idle", stream |-> "all", newest |-> TRUE, offset |-> 0,
              page |-> {}, total |-> {}, must |-> {}, shaken |-> FALSE]
NoTagging == [at |-> "idle", ids |-> {}, read |-> FALSE, stars |-> {}, star |-> FALSE]
NoSharing == [at |-> "idle", entry |-> NoCode, code |-> NoCode, alone |-> TRUE]

ReadingInit ==
    /\ there \in SUBSET Entries /\ buried \in SUBSET (Entries \ there)
    /\ unread = there /\ starred = {}
    /\ code = [e \in Entries |-> NoCode] /\ coded = {} /\ handed = {}
    /\ listing = [c \in Syncers |-> NoListing]
    /\ tagging = [c \in Taggers |-> NoTagging]
    /\ sharing = [c \in Sharers |-> NoSharing]

---------------------------------------------------------------------------
(* Streams of entries: the conditions and the order of a listing.          *)

Streams == {"all", "unread", "read", "starred"}

Matching(stream) ==
    CASE stream = "all"     -> there
      [] stream = "unread"  -> there \cap unread
      [] stream = "read"    -> there \ unread
      [] stream = "starred" -> there \cap starred

\* By date only: nothing says in which order entries of one date come.
Earlier(e, d, newest) == IF newest THEN Date(e) > Date(d) ELSE Date(e) < Date(d)
Rank(e, l) == Cardinality({d \in Matching(l.stream) : Earlier(d, e, l.newest)})
Tied(e) == \E d \in Entries \ {e} : Date(d) = Date(e)

\* What OFFSET and LIMIT may cut out of a stream.
Pages(l, n) ==
    LET M == Matching(l.stream)
    IN {P \in SUBSET M : \A e \in M :
           LET T == {d \in M : Date(d) = Date(e)}
               first == Rank(e, l)
           IN Cardinality(P \cap T) =
                Cardinality((first..first + Cardinality(T) - 1) \cap (l.offset..l.offset + n - 1))}

\* What the client's offset has passed, or passes with the page it is getting.
Ahead(l) == {e \in Matching(l.stream) : Rank(e, l) < l.offset + Cardinality(l.page)}

\* Entries that leave a stream, and whether one of them was ahead.
FollowListings ==
    LET after == [s \in Streams |-> Matching(s)']
    IN listing' = [c \in Syncers |->
        LET l == listing[c]
            now == after[l.stream]
        IN IF l.at \in {"idle", "complete"} THEN l
           ELSE [l EXCEPT !.must = @ \cap now, !.shaken = @ \/ ~(Ahead(l) \subseteq now)]]

OnlyEntries ==
    /\ FollowListings
    /\ UNCHANGED <<code, coded, tagging, sharing>>

---------------------------------------------------------------------------
(* Paging through a stream (streamItemIDsHandler and its handlers).        *)

StartListing(c) ==
    /\ listing[c].at = "idle"
    /\ \E s \in Streams, newest \in BOOLEAN :
          listing' = [listing EXCEPT ![c] =
             [NoListing EXCEPT !.at = "asking", !.stream = s, !.newest = newest,
                               !.must = Matching(s)]]
    /\ UNCHANGED <<entryVars, codeVars, tagging, sharing>>

\* GetEntryIDs.
GetEntryIDs(c) ==
    /\ listing[c].at = "asking"
    /\ \E n \in PageSizes : \E P \in Pages(listing[c], n) :
          listing' = [listing EXCEPT ![c].at = "counting", ![c].page = P]
    /\ UNCHANGED <<entryVars, codeVars, tagging, sharing>>

\* Wrong: one is taken too many.
ContinuesShort(l) == l.offset + Cardinality(l.page) + 1 < Cardinality(Matching(l.stream))

\* The continuation: an offset as long as the count says that there is more.
Continues(l) == l.offset + Cardinality(l.page) < Cardinality(Matching(l.stream))

\* CountEntries, a statement of its own, and the answer.
CountEntries(c) ==
    LET l == listing[c]
    IN /\ l.at = "counting"
       /\ LET got == [l EXCEPT !.at = "asking", !.offset = @ + Cardinality(l.page),
                               !.total = @ \cup l.page, !.page = {}]
          IN listing' = [listing EXCEPT ![c] =
                IF Continues(l) THEN got
                ELSE [got EXCEPT !.at = "complete", !.offset = 0, !.stream = "all", !.newest = TRUE]]
       /\ UNCHANGED <<entryVars, codeVars, tagging, sharing>>

\* A statement fails or the answer is lost: the client asks again.
AskAgain(c) ==
    /\ listing[c].at = "counting"
    /\ listing' = [listing EXCEPT ![c].at = "asking", ![c].page = {}]
    /\ UNCHANGED <<entryVars, codeVars, tagging, sharing>>

EndListing(c) ==
    /\ listing[c].at = "complete"
    /\ listing' = [listing EXCEPT ![c] = NoListing]
    /\ UNCHANGED <<entryVars, codeVars, tagging, sharing>>

---------------------------------------------------------------------------
(* Marks, one statement each; one that changes nothing is left out. *)

Read(S) ==
    /\ unread \cap S # {} /\ unread' = unread \ S
    /\ UNCHANGED <<there, buried, starred, handed>> /\ OnlyEntries

\* Refreshes store an entry.
Arrive ==
    /\ \E e \in Entries \ (there \cup buried) : there' = there \cup {e} /\ unread' = unread \cup {e}
    /\ UNCHANGED <<buried, starred, handed>> /\ OnlyEntries

SetStatus(S, read) == unread' = IF read THEN unread \ S ELSE unread \cup (S \cap there)

SetEntriesStatus ==
    /\ \E read \in BOOLEAN : \E S \in SUBSET (IF read THEN unread ELSE there \ unread) :
          S # {} /\ SetStatus(S, read)
    /\ UNCHANGED <<there, buried, starred, handed>> /\ OnlyEntries

SetStarred(S, star) == starred' = IF star THEN starred \cup (S \cap there) ELSE starred \ S

SetEntriesStarredState ==
    /\ \E star \in BOOLEAN : \E S \in SUBSET (IF star THEN there \ starred ELSE starred) :
          S # {} /\ SetStarred(S, star)
    /\ UNCHANGED <<there, buried, unread, handed>> /\ OnlyEntries

\* Fever's "saved" and "unsaved" do no other than this.
ToggleStarred ==
    /\ \E e \in there : SetStarred({e}, e \notin starred)
    /\ UNCHANGED <<there, buried, unread, handed>> /\ OnlyEntries

Before(S, date) == {e \in S : Date(e) < date}
Dates == {Date(e) + 1 : e \in Entries}
EntriesOf(F) == {e \in Entries : FeedOf(e) \in F}
Feeds == {FeedOf(e) : e \in Entries}

\* What the statements that mark as read may name.
MarkAllAsRead == {Entries}
MarkAllAsReadBeforeDate == {Before(Entries, date) : date \in Dates}
MarkGloballyVisibleFeedsAsRead == {EntriesOf(Feeds \ HiddenFeeds)}
MarkFeedAsRead == {Before(EntriesOf({f}), date) : f \in Feeds, date \in Dates}
MarkCategoryAsRead == {Before(EntriesOf(C), date) : C \in Categories, date \in Dates}

MarkAsRead ==
    \E S \in MarkAllAsRead \cup MarkAllAsReadBeforeDate \cup MarkGloballyVisibleFeedsAsRead
             \cup MarkFeedAsRead \cup MarkCategoryAsRead : Read(S)

\* Requests for the entry are no longer alone with it.
NotAlone(S) == [c \in Sharers |-> IF sharing[c].entry \in S THEN [sharing[c] EXCEPT !.alone = FALSE]
                                  ELSE sharing[c]]

\* Read, not starred and not shared: these may be deleted.
Disposable == {e \in there \ (unread \cup starred) : code[e] = NoCode}

Bury(S) ==
    /\ there' = there \ S /\ buried' = buried \cup S
    /\ unread' = unread \ S /\ starred' = starred \ S
    /\ UNCHANGED handed

FlushHistory ==
    /\ Disposable # {} /\ Bury(Disposable)
    /\ FollowListings /\ sharing' = NotAlone(Disposable) /\ UNCHANGED <<code, coded, tagging>>

\* Archiving takes any number of old ones, read or unread.
ArchiveEntries ==
    /\ \E S \in SUBSET {e \in there \ starred : code[e] = NoCode} :
          S # {} /\ Bury(S) /\ sharing' = NotAlone(S)
    /\ FollowListings /\ UNCHANGED <<code, coded, tagging>>

---------------------------------------------------------------------------
(* editTagHandler. *)

Statusy(tags) == SelectSeq(tags, LAMBDA t : t \in {"read", "kept-unread"})
Starry(tags) == SelectSeq(tags, LAMBDA t : t = "starred")

\* checkAndSimplifyTags refuses some contradictions; "kept-unread" before
\* "read" is not among them.
TagsAccepted(add, remove) ==
    /\ \A k \in 2..Len(Statusy(add)) : Statusy(add)[k] # "kept-unread"
    /\ Len(Statusy(remove)) <= IF Statusy(add) = <<>> THEN 1 ELSE 0
    /\ Len(Starry(remove)) <= IF Starry(add) = <<>> THEN 1 ELSE 0

\* What is asked of the status: TRUE is read, {} nothing.
AsksRead(add, remove) ==
    IF Statusy(add) # <<>> THEN {Statusy(add)[Len(Statusy(add))] = "read"}
    ELSE {t = "kept-unread" : t \in {Statusy(remove)[k] : k \in DOMAIN Statusy(remove)}}
AsksStar(add, remove) ==
    IF Starry(add) # <<>> THEN {TRUE} ELSE {FALSE : k \in DOMAIN Starry(remove)}

TagLists == {<<>>} \cup {<<t>> : t \in {"read", "kept-unread", "starred"}}
            \cup {<<"kept-unread", "read">>, <<"read", "starred">>}

\* The entries are read, and those that need a change are noted.
ReadEntries(c) ==
    /\ tagging[c].at = "idle"
    /\ \E e \in there, add \in TagLists, remove \in TagLists :
          /\ <<add, remove>> # <<<<>>, <<>>>>
          /\ TagsAccepted(add, remove)
          /\ LET read == AsksRead(add, remove)
                 star == AsksStar(add, remove)
             IN tagging' = [tagging EXCEPT ![c] =
                  [at |-> "status", read |-> TRUE \in read, star |-> TRUE \in star,
                   ids |-> {d \in {e} : read = {(d \in unread)}},
                   stars |-> {d \in {e} : star = {(d \notin starred)}}]]
    /\ UNCHANGED <<entryVars, codeVars, listing, sharing>>

TagStatus(c) ==
    /\ tagging[c].at = "status"
    /\ SetStatus(tagging[c].ids, tagging[c].read)
    /\ tagging' = [tagging EXCEPT ![c].at = "star"]
    /\ UNCHANGED <<there, buried, starred, codeVars, sharing>> /\ FollowListings

TagStarred(c) ==
    /\ tagging[c].at = "star"
    /\ SetStarred(tagging[c].stars, tagging[c].star)
    /\ tagging' = [tagging EXCEPT ![c] = NoTagging]
    /\ UNCHANGED <<there, buried, unread, codeVars, sharing>> /\ FollowListings

TaggingFails(c) ==
    /\ tagging[c].at # "idle" /\ tagging' = [tagging EXCEPT ![c] = NoTagging]
    /\ UNCHANGED <<entryVars, codeVars, listing, sharing>>

---------------------------------------------------------------------------
(* EntryShareCode and UnshareEntry. *)

\* Wrong: a new code each time.
ReadShareCodeAnew(c) ==
    /\ sharing[c].at = "idle"
    /\ \E e \in there :
          sharing' = [NotAlone({e}) EXCEPT ![c] =
             [at |-> "generate", entry |-> e, code |-> NoCode,
              alone |-> ~\E d \in Sharers : sharing[d].at # "idle" /\ sharing[d].entry = e]]
    /\ UNCHANGED <<entryVars, codeVars, listing, tagging>>

ReadShareCode(c) ==
    /\ sharing[c].at = "idle"
    /\ \E e \in there :
          LET others == {d \in Sharers : sharing[d].at # "idle" /\ sharing[d].entry = e}
          IN sharing' = [NotAlone({e}) EXCEPT ![c] =
               [at |-> IF code[e] = NoCode THEN "generate" ELSE "answer",
                entry |-> e, code |-> code[e], alone |-> others = {}]]
    /\ UNCHANGED <<entryVars, codeVars, listing, tagging>>

WriteShareCode(c) ==
    LET e == sharing[c].entry IN
    /\ sharing[c].at = "generate"
    /\ \E k \in Codes \ coded :
          /\ coded' = coded \cup {k}
          /\ code' = IF e \in there THEN [code EXCEPT ![e] = k] ELSE code
          /\ sharing' = [sharing EXCEPT ![c].at = "answer", ![c].code = k]
    /\ UNCHANGED <<entryVars, handed, listing, tagging>>

\* The browser is sent to the page of the code.
AnswerShareCode(c) ==
    /\ sharing[c].at = "answer"
    /\ sharing' = [sharing EXCEPT ![c] = NoSharing]
    /\ handed' = IF sharing[c].alone THEN handed \cup {<<sharing[c].entry, sharing[c].code>>} ELSE handed
    /\ UNCHANGED <<entryVars, code, coded, listing, tagging>>

UnshareEntry ==
    /\ \E e \in there :
          /\ code[e] # NoCode /\ code' = [code EXCEPT ![e] = NoCode]
          /\ handed' = {h \in handed : h[1] # e}
          /\ sharing' = NotAlone({e})
    /\ UNCHANGED <<entryVars, coded, listing, tagging>>

---------------------------------------------------------------------------

Marking ==
    \/ Arrive \/ SetEntriesStatus \/ SetEntriesStarredState \/ ToggleStarred
    \/ MarkAsRead \/ FlushHistory \/ ArchiveEntries
List(c) == StartListing(c) \/ GetEntryIDs(c) \/ CountEntries(c) \/ AskAgain(c) \/ EndListing(c)
EditTag(c) == ReadEntries(c) \/ TagStatus(c) \/ TagStarred(c) \/ TaggingFails(c)
Share(c) == ReadShareCode(c) \/ WriteShareCode(c) \/ AnswerShareCode(c)

Listing == \E c \in Syncers : List(c)
Tagging == \E c \in Taggers : EditTag(c)
Sharing == UnshareEntry \/ \E c \in Sharers : Share(c)
ReadingNext == Marking \/ Listing \/ Tagging \/ Sharing

ReadingSpec == ReadingInit /\ [][ReadingNext]_readingVars

---------------------------------------------------------------------------
(* Properties. *)

\* A client that has followed the continuation to its end has every entry
\* that was in the stream all the time, unless an entry its offset had passed
\* has left the stream, so that those behind it moved up; and but for entries
\* of one date, whose order may change from page to page.
QuietListingsAreComplete == \A c \in Syncers :
    listing[c].at = "complete" /\ ~listing[c].shaken =>
        \A e \in listing[c].must : e \in listing[c].total \/ Tied(e)

\* A link to a shared entry that was handed out works until the entry is
\* unshared, unless another request was sharing or unsharing it at the time.
QuietShareCodesWork == \A h \in handed : h[1] \in there /\ code[h[1]] = h[2]
============================================================================
