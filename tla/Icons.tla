------------------------------- MODULE Icons -------------------------------
(***************************************************************************)
(* Feed icons (storage/icon.go, reader/icon/checker.go).  Feeds share the  *)
(* icons they have in common by hash.  A refresh stores the icon of its    *)
(* feed in one transaction of four statements, at READ COMMITTED; the      *)
(* clean-up task deletes icons that no feed uses in one statement.         *)
(*                                                                         *)
(* Of the database this models what decides: a statement sees what was     *)
(* committed when it began, unique keys and rows that another transaction  *)
(* has changed make it wait, a reference locks the icon and the feed, and  *)
(* a DELETE that has waited for such a lock does not look again.           *)
(***************************************************************************)
EXTENDS Naturals

CONSTANTS IconFeeds, Hashes, IconIds, IconWorkers, NoIcon

ASSUME IconAssumption == NoIcon \notin IconIds

VARIABLES
    feeds,    \* feeds that exist
    icons,    \* icons that exist, with their hashes
    links,    \* feed_icons
    tx,       \* the transaction of a worker
    born,     \* identities given to icons, whether or not they were committed
    sweeping, \* whether the clean-up's DELETE is running ...
    orphans,  \* ... and what it found
    has,      \* history: the icon a feed was last given
    overlap,  \* history: workers that were not alone in storing for their feed
    raced     \* history: feeds whose last icon was stored in a race

iconVars == <<feeds, icons, links, tx, born, sweeping, orphans, has, overlap, raced>>
iconPast == <<has, overlap, raced>>

NoTx == [at |-> "idle", feed |-> NoIcon, hash |-> NoIcon, icon |-> NoIcon,
         own |-> FALSE, cut |-> {}]

Others(w) == IconWorkers \ {w}
InTx(w) == tx[w].at # "idle"
Icon(i, h) == [id |-> i, hash |-> h]
IconsOf(f) == {l[2] : l \in {k \in links : k[1] = f}}
Exists(i) == \E c \in icons : c.id = i
At(w, label) == tx[w].at = label
Goto(w, label) == tx' = [tx EXCEPT ![w].at = label]

IconInit ==
    /\ feeds = IconFeeds /\ icons = {} /\ links = {} /\ born = {}
    /\ tx = [w \in IconWorkers |-> NoTx]
    /\ sweeping = FALSE /\ orphans = {}
    /\ has = [f \in IconFeeds |-> NoIcon] /\ overlap = {} /\ raced = {}

---------------------------------------------------------------------------
(* StoreFeedIcon. *)

\* UpdateOrCreateFeedIcon has found an icon: the SELECT by hash.
FindIcon(w) ==
    /\ At(w, "idle")
    /\ \E f \in feeds, h \in Hashes :
          LET found == {c \in icons : c.hash = h}
              rivals == {v \in Others(w) : InTx(v) /\ tx[v].feed = f}
          IN /\ tx' = [tx EXCEPT ![w] =
                        [NoTx EXCEPT !.feed = f, !.hash = h,
                          !.at = IF found = {} THEN "missing" ELSE "chosen",
                          !.icon = IF found = {} THEN NoIcon ELSE (CHOOSE c \in found : TRUE).id]]
             /\ overlap' = IF rivals = {} THEN overlap \ {w} ELSE overlap \cup rivals \cup {w}
    /\ UNCHANGED <<feeds, icons, links, born, sweeping, orphans, has, raced>>

Rollback(w) ==
    /\ tx' = [tx EXCEPT ![w] = NoTx]
    /\ UNCHANGED <<feeds, icons, links, born, sweeping, orphans, iconPast>>

\* The unique hash: an INSERT waits for another of the same hash to end, and
\* fails when that one was committed.
CreateIcon(w) ==
    /\ At(w, "missing")
    /\ \A v \in Others(w) : ~(tx[v].own /\ tx[v].hash = tx[w].hash)
    /\ \A c \in icons : c.hash # tx[w].hash
    /\ \E i \in IconIds \ born :
          /\ born' = born \cup {i}
          /\ tx' = [tx EXCEPT ![w].icon = i, ![w].own = TRUE, ![w].at = "chosen"]
    /\ UNCHANGED <<feeds, icons, links, sweeping, orphans, iconPast>>

CreateIconFails(w) ==
    /\ At(w, "missing")
    /\ \E c \in icons : c.hash = tx[w].hash
    /\ Rollback(w)

\* Wrong: only the new icon is taken off the feed.
LinksToCutSame(w) == {l \in links : l = <<tx[w].feed, tx[w].icon>>}

\* The DELETE takes the rows it sees, and waits for those another has taken.
LinksToCut(w) == {l \in links : l[1] = tx[w].feed}

UnlinkFeed(w) ==
    /\ At(w, "chosen")
    /\ \A v \in Others(w) : tx[v].cut \cap LinksToCut(w) = {}
    /\ tx' = [tx EXCEPT ![w].at = "unlinked", ![w].cut = LinksToCut(w)]
    /\ UNCHANGED <<feeds, icons, links, born, sweeping, orphans, iconPast>>

\* The feed and the icon are still there, and the pair is not.
CanLink(w) ==
    /\ tx[w].feed \in feeds
    /\ tx[w].own \/ Exists(tx[w].icon)
    /\ <<tx[w].feed, tx[w].icon>> \notin links \ tx[w].cut

LinkIcon(w) ==
    /\ At(w, "unlinked")
    /\ \A v \in Others(w) : LET pair == <<tx[w].feed, tx[w].icon>> IN
          /\ ~(At(v, "linked") /\ <<tx[v].feed, tx[v].icon>> = pair)
          /\ pair \notin tx[v].cut
    /\ CanLink(w)
    /\ Goto(w, "linked")
    /\ UNCHANGED <<feeds, icons, links, born, sweeping, orphans, iconPast>>

LinkIconFails(w) == At(w, "unlinked") /\ ~CanLink(w) /\ Rollback(w)

CommitIcon(w) ==
    LET f == tx[w].feed
        i == tx[w].icon
    IN /\ At(w, "linked")
       /\ links' = (links \ tx[w].cut) \cup {<<f, i>>}
       /\ icons' = IF tx[w].own THEN icons \cup {Icon(i, tx[w].hash)} ELSE icons
       /\ tx' = [tx EXCEPT ![w] = NoTx]
       /\ has' = [has EXCEPT ![f] = i]
       /\ raced' = IF w \in overlap \/ i \in orphans THEN raced \cup {f} ELSE raced \ {f}
       /\ UNCHANGED <<feeds, born, sweeping, orphans, overlap>>

\* A statement that fails for a reason of its own, or a process that stops.
IconTxFails(w) == InTx(w) /\ Rollback(w)

---------------------------------------------------------------------------
(* The clean-up, and the removal of a feed. *)

StartCleanup ==
    /\ ~sweeping /\ sweeping' = TRUE
    /\ orphans' = {c.id : c \in {k \in icons : \A l \in links : l[2] # k.id}}
    /\ UNCHANGED <<feeds, icons, links, tx, born, iconPast>>

\* It waits for transactions that refer to what it found, and deletes it,
\* whatever refers to it by now: the reference goes with it.
CleanupOrphanIcons ==
    /\ sweeping /\ sweeping' = FALSE /\ orphans' = {}
    /\ \A w \in IconWorkers : ~(At(w, "linked") /\ tx[w].icon \in orphans)
    /\ icons' = {c \in icons : c.id \notin orphans}
    /\ links' = {l \in links : l[2] \notin orphans}
    /\ UNCHANGED <<feeds, tx, born, iconPast>>

RemoveFeedIcons ==
    /\ \E f \in feeds :
          /\ \A w \in IconWorkers : tx[w].feed = f => tx[w].at \notin {"unlinked", "linked"}
          /\ feeds' = feeds \ {f}
          /\ links' = {l \in links : l[1] # f}
    /\ UNCHANGED <<icons, tx, born, sweeping, orphans, iconPast>>

StoreFeedIcon(w) ==
    \/ FindIcon(w) \/ CreateIcon(w) \/ CreateIconFails(w) \/ UnlinkFeed(w)
    \/ LinkIcon(w) \/ LinkIconFails(w) \/ CommitIcon(w) \/ IconTxFails(w)

IconNext ==
    \/ \E w \in IconWorkers : StoreFeedIcon(w)
    \/ StartCleanup \/ CleanupOrphanIcons \/ RemoveFeedIcons

IconSpec == IconInit /\ [][IconNext]_iconVars

---------------------------------------------------------------------------
(* Properties. *)

IconTypeOK ==
    /\ feeds \subseteq IconFeeds /\ born \subseteq IconIds
    /\ icons \subseteq [id : IconIds, hash : Hashes]
    /\ links \subseteq feeds \X {c.id : c \in icons}
    /\ orphans \subseteq IconIds

\* Unless two refreshes stored an icon for the same feed at once, or the
\* clean-up had seen the icon without a feed, a feed has the icon that it was
\* last given, and no other.
QuietFeedsHaveTheirIcon ==
    \A f \in feeds \ raced : IconsOf(f) = {has[f]} \ {NoIcon}
===========================================================================
