------------------------------- MODULE Pages -------------------------------
(***************************************************************************)
(* A reader's pages in the web interface (ui/*_entries.go, entry_*.go,     *)
(* unread_entry_*.go): lists of entries, page by page, and the pages of    *)
(* single entries with a link to the next one (storage/                    *)
(* entry_pagination_builder.go).  To find its neighbours among the unread  *)
(* entries a page makes its own entry unread for a moment.  Other devices  *)
(* do what module Reading says.                                            *)
(***************************************************************************)
EXTENDS Reading

CONSTANTS Tabs,       \* pages open or being made at once
          Scope(_),   \* the entries of a page's feed, category, tag or query
          HasMedia,   \* entries with audio or video
          NoEntry,    \* greater than the number of any entry
          EntriesPerPage

ASSUME PagesAssumption ==
    /\ Entries \subseteq Nat /\ NoEntry \notin Entries \cup Tabs
    /\ EntriesPerPage \in Nat \ {0}

VARIABLES
    user,      \* settings: markOnView, onCompletion, external, desc
    tab,       \* the page in each tab
    settled    \* history: entries that were read, whatever a page does for a moment

pageVars == <<user, tab, settled>>

---------------------------------------------------------------------------
(* What the handler of each page of an entry does, in order.               *)

\* Wrong: the entry is read again before its neighbours are looked for.
RestoredEarly == <<"unmark", "view", "restore", "siblings", "titles", "redirect">>
\* Wrong: the redirect leaves the entry unread.
RedirectedEarly == <<"mark", "unmark", "siblings", "titles", "redirect", "restore">>

showUnreadEntryPage         == <<"unmark", "siblings", "titles", "view", "restore", "redirect">>
showUnreadFeedEntryPage     == <<"mark", "unmark", "siblings", "titles", "restore", "redirect">>
showUnreadCategoryEntryPage == <<"mark", "unmark", "siblings", "titles", "restore", "redirect">>
showFeedEntryPage           == <<"mark", "redirect", "siblings", "titles">>
showCategoryEntryPage       == <<"mark", "redirect", "siblings", "titles">>
showStarredEntryPage        == <<"mark", "redirect", "siblings", "titles">>
showStarredCategoryEntryPage == <<"mark", "redirect", "siblings", "titles">>
showSearchEntryPage         == <<"mark", "redirect", "siblings", "titles">>
showTagEntryPage            == <<"mark", "siblings", "titles">>
showReadEntryPage           == <<"redirect", "siblings", "titles">>

EntryPages == {"unread", "unread_feed", "unread_category", "feed", "category", "starred",
               "starred_category", "search", "search_unread", "tag", "history"}

Steps(page) ==
    CASE page = "unread" -> showUnreadEntryPage
      [] page = "unread_feed" -> showUnreadFeedEntryPage
      [] page = "unread_category" -> showUnreadCategoryEntryPage
      [] page = "feed" -> showFeedEntryPage
      [] page = "category" -> showCategoryEntryPage
      [] page = "starred" -> showStarredEntryPage
      [] page = "starred_category" -> showStarredCategoryEntryPage
      [] page \in {"search", "search_unread"} -> showSearchEntryPage
      [] page = "tag" -> showTagEntryPage
      [] page = "history" -> showReadEntryPage

(* What each list of entries holds, and the page its entries open.         *)

Visible == EntriesOf(Feeds \ HiddenFeeds)
showUnreadPage                  == [page |-> "unread", of |-> there \cap unread \cap Visible]
showFeedEntriesPage             == [page |-> "unread_feed", of |-> there \cap unread \cap Scope("unread_feed")]
showFeedEntriesAllPage          == [page |-> "feed", of |-> there \cap Scope("feed")]
showCategoryEntriesPage         == [page |-> "unread_category", of |-> there \cap unread \cap Scope("unread_category")]
showCategoryEntriesAllPage      == [page |-> "category", of |-> there \cap Scope("category")]
showCategoryEntriesStarredPage  == [page |-> "starred_category", of |-> there \cap starred \cap Scope("starred_category")]
showStarredPage                 == [page |-> "starred", of |-> there \cap starred]
showTagEntriesAllPage           == [page |-> "tag", of |-> there \cap Scope("tag")]
showSearchPage(unreadOnly) ==
    IF unreadOnly THEN [page |-> "search_unread", of |-> there \cap unread \cap Scope("search_unread")]
    ELSE [page |-> "search", of |-> there \cap Scope("search")]
showHistoryPage                 == [page |-> "history", of |-> there \ unread]
sharedEntries                   == [page |-> "history", of |-> {e \in there : code[e] # NoCode}]

ListOf(list) ==
    CASE list = "unread" -> showUnreadPage
      [] list = "feed" -> showFeedEntriesPage
      [] list = "feed_all" -> showFeedEntriesAllPage
      [] list = "category" -> showCategoryEntriesPage
      [] list = "category_all" -> showCategoryEntriesAllPage
      [] list = "category_starred" -> showCategoryEntriesStarredPage
      [] list = "starred" -> showStarredPage
      [] list = "tag" -> showTagEntriesAllPage
      [] list = "search" -> showSearchPage(FALSE)
      [] list = "search_unread" -> showSearchPage(TRUE)
      [] list = "history" -> showHistoryPage
      [] list = "shared" -> sharedEntries
      [] OTHER -> [page |-> "none", of |-> {}]

Lists == {"unread", "feed", "feed_all", "category", "category_all", "category_starred",
          "starred", "tag", "search", "search_unread", "history", "shared"}

\* Numbers stand for the order of date, time of creation and id.  Other lists
\* are ordered by the last change, by relevance or by status, and may be in any.
Ranked(list) == list \notin {"search", "search_unread", "history", "tag"}
Follows(e, d) == IF user.desc THEN e < d ELSE e > d

---------------------------------------------------------------------------
(* Tabs.  A walk is a list followed to its last page, or entries followed  *)
(* by the links to the next one.                                           *)

Closed == [at |-> "closed", name |-> "none", entry |-> NoEntry, k |-> 0, read |-> FALSE,
           next |-> NoEntry, offset |-> 0, total |-> 0, must |-> {}, shaken |-> FALSE]

PagesInit ==
    /\ user \in [markOnView : BOOLEAN, onCompletion : BOOLEAN, external : BOOLEAN, desc : BOOLEAN]
    /\ tab = [t \in Tabs |-> Closed]
    /\ settled = there \ unread

\* The list a page's entries come from.
HomeOf(page) == CHOOSE list \in Lists \ {"shared"} : ListOf(list).page = page

\* Among which entries a page looks for its neighbours (WithStatusOrEntryID
\* in a search for unread ones, elsewhere as in the list).
Among(l) ==
    CASE l.name = "search" -> there \cap Scope("search")
      [] l.name = "search_unread" ->
            there \cap Scope("search_unread") \cap (unread \cup (IF l.read THEN {l.entry} ELSE {}))
      [] OTHER -> ListOf(HomeOf(l.name)).of

\* The entry itself will be there when the page looks for them.
Joins(l) ==
    CASE l.name = "unread" -> l.entry \in Visible
      [] l.name \in {"unread_feed", "unread_category"} -> TRUE
      [] OTHER -> l.entry \in Among(l)

Step(l) == IF l.at = "making" THEN Steps(l.name)[l.k] ELSE "none"
Looks(l) == \E j \in l.k..Len(Steps(l.name)) : Steps(l.name)[j] = "siblings"

\* The page's own entry, and then the one its link leads to, has neighbours.
Linked(l) ==
    IF l.at = "making" /\ Looks(l) THEN l.entry \in there
    ELSE l.at \in {"making", "open"} /\ l.next # NoEntry =>
            l.next \in there /\ (l.name \in {"starred", "starred_category"} => l.next \in starred)

Held(l) == IF l.at = "list" THEN ListOf(l.name).of ELSE Among(l)

\* What a change by someone else means for the walk in a tab: entries that
\* leave what is walked through are no longer owed to it.
Followed(l, was, now, linked) ==
    LET lost == CASE l.at = "making" /\ Looks(l) -> l.entry \in was \ now
                  [] l.at = "list" -> ~((was \ l.must) \subseteq now)
                  [] OTHER -> FALSE
    IN [l EXCEPT !.must = @ \cap now, !.shaken = @ \/ lost \/ ~linked]

\* One tab after its step, and the others, whose entries it may have changed.
TabsAfter(t, new) ==
    LET before == {tab[s] : s \in Tabs}
        now == [l \in before |-> Held(l)']
        linked == [l \in before |-> Linked(l)']
        after(l) == IF l.at = "closed" THEN l ELSE Followed(l, Held(l), now[l], linked[l])
    IN tab' = [s \in Tabs |-> IF s = t THEN new ELSE after(tab[s])]

OnlyPages == UNCHANGED <<there, buried, starred, codeVars, listing, tagging, sharing, user>>

---------------------------------------------------------------------------
(* The page of an entry.                                                   *)

\* ShouldMarkAsReadOnView.
MarksOnView(l) ==
    /\ ~l.read /\ user.markOnView
    /\ ~(user.onCompletion /\ l.entry \in HasMedia)

\* The user and the entry are read; what is not there is answered with 404.
Opened(page, e, must, shaken) ==
    LET l == [Closed EXCEPT !.at = "making", !.name = page, !.entry = e, !.k = 1,
                            !.read = e \notin unread, !.shaken = shaken]
    IN [l EXCEPT !.must = IF Joins(l) THEN must ELSE {}]

\* From a list or a bookmark.
OpenEntry(t) ==
    /\ tab[t].at = "closed"
    /\ \E page \in EntryPages : \E e \in there \cap Scope(page) :
          LET l == Opened(page, e, {}, FALSE)
          IN tab' = [tab EXCEPT ![t] = Opened(page, e, {d \in Among(l) : Follows(d, e)}, FALSE)]
    /\ UNCHANGED <<unread, settled>> /\ OnlyPages

\* The link to the next entry.
FollowNext(t) ==
    LET l == tab[t]
    IN /\ l.at = "open" /\ l.next # NoEntry
       /\ tab' = [tab EXCEPT ![t] =
             IF l.next \in there THEN Opened(l.name, l.next, l.must \ {l.next}, l.shaken) ELSE Closed]
       /\ UNCHANGED <<unread, settled>> /\ OnlyPages

Made(l) ==
    IF l.k = Len(Steps(l.name)) THEN [l EXCEPT !.at = "open", !.k = 0] ELSE [l EXCEPT !.k = @ + 1]

Write(t, S, l) ==
    /\ OnlyPages
    /\ unread' = S /\ TabsAfter(t, l)
    /\ settled' = (settled \cup (unread \ S)) \cap there

\* SetEntriesStatus before the page looks for neighbours.
MarkOnView(t) ==
    LET l == tab[t]
    IN /\ Step(l) = "mark"
       /\ IF MarksOnView(l) THEN Write(t, unread \ {l.entry}, Made([l EXCEPT !.read = TRUE]))
          ELSE tab' = [tab EXCEPT ![t] = Made(l)] /\ UNCHANGED <<unread, settled>>
       /\ OnlyPages

\* A read entry is made unread, to be found among the unread ones.
MakeUnread(t) ==
    LET l == tab[t]
    IN /\ Step(l) = "unmark"
       /\ IF l.read THEN Write(t, unread \cup ({l.entry} \cap there), Made(l))
          ELSE tab' = [tab EXCEPT ![t] = Made(l)] /\ UNCHANGED <<unread, settled>>
       /\ OnlyPages

\* lead() over the entries in order; nothing when the page's own is not one.
NextAmong(l) ==
    LET ahead == {d \in Among(l) : Follows(d, l.entry)}
    IN IF l.entry \notin Among(l) THEN {NoEntry}
       ELSE IF l.name = "history" THEN (Among(l) \ {l.entry}) \cup {NoEntry}
       ELSE IF ahead = {} THEN {NoEntry}
       ELSE {e \in ahead : \A d \in ahead \ {e} : Follows(d, e)}

\* getPrevNextID.
FindSiblings(t) ==
    LET l == tab[t]
    IN /\ Step(l) = "siblings"
       /\ \E e \in NextAmong(l) : tab' = [tab EXCEPT ![t] = Made([l EXCEPT !.next = e])]
       /\ UNCHANGED <<unread, settled>> /\ OnlyPages

\* Their titles, with a query for each: one that is gone is no neighbour.
ReadTitles(t) ==
    LET l == tab[t]
    IN /\ Step(l) = "titles"
       /\ tab' = [tab EXCEPT ![t] = Made([l EXCEPT !.next = IF @ \in there THEN @ ELSE NoEntry])]
       /\ UNCHANGED <<unread, settled>> /\ OnlyPages

\* Marked in memory; it is written with the next step.
ViewInMemory(t) ==
    LET l == tab[t]
    IN /\ Step(l) = "view"
       /\ tab' = [tab EXCEPT ![t] = Made([l EXCEPT !.read = @ \/ MarksOnView(l)])]
       /\ UNCHANGED <<unread, settled>> /\ OnlyPages

Restore(t) ==
    LET l == tab[t]
    IN /\ Step(l) = "restore"
       /\ IF l.read THEN Write(t, unread \ {l.entry}, Made(l))
          ELSE tab' = [tab EXCEPT ![t] = Made(l)] /\ UNCHANGED <<unread, settled>>
       /\ OnlyPages

\* AlwaysOpenExternalLinks: the reader leaves for the entry's own site.
RedirectOut(t) ==
    LET l == tab[t]
    IN /\ Step(l) = "redirect"
       /\ tab' = [tab EXCEPT ![t] = IF user.external THEN Closed ELSE Made(l)]
       /\ UNCHANGED <<unread, settled>> /\ OnlyPages

\* A statement fails or the process ends: what was done so far remains.
PageFails(t) ==
    LET l == tab[t]
    IN /\ l.at = "making"
       /\ tab' = [tab EXCEPT ![t] = Closed]
       /\ settled' = settled \ ({l.entry} \cap unread)
       /\ UNCHANGED unread /\ OnlyPages

CloseTab(t) ==
    /\ tab[t].at \in {"open", "list"}
    /\ tab' = [tab EXCEPT ![t] = Closed]
    /\ UNCHANGED <<unread, settled>> /\ OnlyPages
---------------------------------------------------------------------------
(* Lists of entries.                                                       *)

\* getPagination.
ShowNext(total, offset) == total - offset > EntriesPerPage
LastOffset(total) ==
    LET last == (total \div EntriesPerPage) * EntriesPerPage
    IN IF last = total THEN last - EntriesPerPage ELSE last

\* OFFSET and LIMIT: the entries at these places, in order.
Cut(M, offset) ==
    {e \in M : Cardinality({d \in M : Follows(e, d)}) \in offset..offset + EntriesPerPage - 1}

\* The unread list starts again when its offset is past the end.
Shown(l, list, offset) ==
    LET M == ListOf(list).of
        from == IF list = "unread" /\ offset >= Cardinality(M) /\ M # {} THEN 0 ELSE offset
        l1 == [l EXCEPT !.at = "list", !.name = list, !.offset = from, !.total = Cardinality(M)]
    IN [l1 EXCEPT !.must = @ \ Cut(M, from)]

OpenList(t) ==
    /\ tab[t].at = "closed"
    /\ \E list \in Lists :
          Ranked(list) /\ tab' = [tab EXCEPT ![t] = Shown([Closed EXCEPT !.must = ListOf(list).of], list, 0)]
    /\ UNCHANGED <<unread, settled>> /\ OnlyPages

NextPage(t) ==
    LET l == tab[t]
    IN /\ l.at = "list" /\ ShowNext(l.total, l.offset)
       /\ tab' = [tab EXCEPT ![t] = Shown(l, l.name, l.offset + EntriesPerPage)]
       /\ UNCHANGED <<unread, settled>> /\ OnlyPages

LastPage(t) ==
    LET l == tab[t]
    IN /\ l.at = "list" /\ ShowNext(l.total, l.offset) /\ LastOffset(l.total) # l.offset + EntriesPerPage
       /\ tab' = [tab EXCEPT ![t] = [Shown(l, l.name, LastOffset(l.total)) EXCEPT !.shaken = TRUE]]
       /\ UNCHANGED <<unread, settled>> /\ OnlyPages
---------------------------------------------------------------------------

\* What other devices do.
MarkElsewhere ==
    /\ Marking
    /\ TabsAfter(NoEntry, Closed)
    /\ settled' = ((settled \cup (unread \ unread')) \ (unread' \ unread)) \cap there'
    /\ UNCHANGED user

Page(t) ==
    \/ OpenEntry(t) \/ FollowNext(t) \/ MarkOnView(t) \/ MakeUnread(t) \/ FindSiblings(t)
    \/ ReadTitles(t) \/ ViewInMemory(t) \/ Restore(t) \/ RedirectOut(t) \/ PageFails(t) \/ CloseTab(t)
Browse(t) == OpenList(t) \/ NextPage(t) \/ LastPage(t)

PagesNext == MarkElsewhere \/ \E t \in Tabs : Page(t) \/ Browse(t)
PagesSpec == ReadingInit /\ PagesInit /\ [][PagesNext]_<<readingVars, pageVars>>

---------------------------------------------------------------------------
(* Properties. *)

\* Who follows the link to the next entry until there is none, or the pages of
\* a list to its last, has come by every entry that was ahead at the start and
\* still belongs there, unless someone else took away the entry just opened,
\* the next one, or one shown on a page before.
QuietWalksVisitAll == \A t \in Tabs :
    LET l == tab[t]
        atEnd == CASE l.at = "open" -> l.next = NoEntry
                   [] l.at = "list" -> ~ShowNext(l.total, l.offset)
                   [] OTHER -> FALSE
    IN atEnd /\ ~l.shaken /\ l.name # "history" => l.must = {}

\* An entry that was read is read when no page of it is being made, unless it
\* was marked as unread or a page failed: making it unread for the sake of its
\* neighbours does not last.
QuietOpeningsKeepRead == \A e \in settled :
    (\A t \in Tabs : ~(tab[t].at = "making" /\ tab[t].entry = e)) => e \notin unread
=============================================================================
