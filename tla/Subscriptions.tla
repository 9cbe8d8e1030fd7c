--------------------------- MODULE Subscriptions ---------------------------
(***************************************************************************)
(* The categories and subscriptions of one user (storage/category.go,      *)
(* storage/feed.go): requests that create, rename and remove categories,   *)
(* the Google Reader interface's removal of labels, which is a transaction *)
(* of three statements at READ COMMITTED, refreshes and settings that      *)
(* write back a feed's row, OPML imports and the starter feeds of a new    *)
(* user, which create what they need one row at a time.                    *)
(*                                                                         *)
(* Of the database: titles are unique, a feed refers to a category and is  *)
(* deleted with it, and a row that a transaction has changed makes other   *)
(* writers of that row wait.  A title is a number, by which titles sort.   *)
(***************************************************************************)
EXTENDS Naturals, Sequences, FiniteSets

CONSTANTS Urls, LabelIds, NoLabel, MaxTitle, Removers, Editors, MaxLoad

ASSUME SubscriptionAssumption ==
    /\ NoLabel \notin LabelIds /\ LabelIds # {}
    /\ MaxTitle \in Nat \ {0} /\ MaxLoad \in Nat

VARIABLES
    account,   \* whether the user exists
    title,     \* titles of the categories there are; 0 for the others
    coined,    \* identities ever given to categories
    filed,     \* the category of each feed, NoLabel without a subscription
    removal,   \* the transaction of a request that removes labels
    edit,      \* a request or job that will write a feed's row
    load,      \* the import or the provisioning that is going on
    slipped,   \* history: feeds filed behind a removal's back
    erased,    \* history: other feeds that a removal of labels deleted
    bare,      \* history: whether a removal on its own left no category
    dropped    \* history: feeds removed since the import began

labelVars == <<title, coined>>
subPast == <<slipped, erased, bare>>
subVars == <<account, labelVars, filed, removal, edit, load, subPast, dropped>>

Titles == 1..MaxTitle
Labels == {i \in LabelIds : title[i] # 0}
Titled(T) == {i \in Labels : title[i] \in T}
FirstOf(S) == CHOOSE i \in S : \A j \in S : title[i] <= title[j]
In(S) == {f \in Urls : filed[f] \in S}

NoRemoval == [at |-> "idle", titles |-> {}, moved |-> {}, target |-> NoLabel, joined |-> FALSE]
NoEdit == [at |-> "idle", feed |-> NoLabel, label |-> NoLabel]
NoLoad == [kind |-> "none", at |-> "idle", list |-> <<>>, next |-> 1, label |-> NoLabel,
           known |-> [t \in Titles |-> NoLabel], done |-> {}]

Loads == load.at \notin {"idle", "over"}
Moved(f) == \E r \in Removers : f \in removal[r].moved
IsTarget(i) == \E r \in Removers : removal[r].moved # {} /\ removal[r].target = i

SubscriptionInit ==
    /\ account = TRUE
    /\ \E i \in LabelIds : /\ title = [j \in LabelIds |-> IF j = i THEN 1 ELSE 0]
                           /\ coined = {i}
    /\ filed = [f \in Urls |-> NoLabel]
    /\ removal = [r \in Removers |-> NoRemoval]
    /\ edit = [w \in Editors |-> NoEdit] /\ load = NoLoad
    /\ slipped = {} /\ erased = {} /\ bare = FALSE /\ dropped = {}

---------------------------------------------------------------------------
(* What statements do. *)

CreateCategory(i, t) ==
    /\ account /\ i \in LabelIds \ coined /\ Titled({t}) = {}
    /\ title' = [title EXCEPT ![i] = t] /\ coined' = coined \cup {i}

\* A feed comes into a category: by an INSERT or an UPDATE.
File(f, i) ==
    /\ filed' = [filed EXCEPT ![f] = i]
    /\ slipped' = IF \E r \in Removers : removal[r].at = "moved" /\ title[i] \in removal[r].titles
                  THEN slipped \cup {f} ELSE slipped

\* The INSERT of a feed: its user and category exist, its URL is new.
CanInsert(f, i) == account /\ i \in Labels /\ filed[f] = NoLabel

\* Rows of feeds are deleted: an UPDATE of one will find no row.
EditsWithout(S) == [w \in Editors |-> IF edit[w].feed \in S /\ edit[w].at = "update"
                                      THEN NoEdit ELSE edit[w]]
Unfile(S) ==
    /\ filed' = [f \in Urls |-> IF f \in S THEN NoLabel ELSE filed[f]]
    /\ edit' = EditsWithout(S)
    /\ dropped' = IF Loads THEN dropped \cup S ELSE {}

\* Others that remove or rename categories are no longer alone.
Joined == [q \in Removers |->
               IF removal[q].at # "idle" THEN [removal[q] EXCEPT !.joined = TRUE] ELSE removal[q]]

\* What is still worth remembering when a removal ends.
Slips(S, r) == IF \E q \in Removers \ {r} : removal[q].at = "moved" THEN S ELSE {}

---------------------------------------------------------------------------
(* Categories, one statement each. *)

AddCategory ==
    /\ \E i \in LabelIds, t \in Titles : CreateCategory(i, t)
    /\ UNCHANGED <<account, filed, removal, edit, load, subPast, dropped>>

\* A renamed category takes its feeds along.  A title is part of a unique key,
\* and so this waits, like a DELETE, for those who refer to the category.
UpdateCategory ==
    /\ \E i \in Labels, t \in Titles :
          /\ Titled({t}) = {} /\ ~IsTarget(i) /\ title' = [title EXCEPT ![i] = t]
          /\ slipped' = IF \E r \in Removers : removal[r].at = "moved" /\ t \in removal[r].titles
                        THEN slipped \cup In({i}) ELSE slipped
    /\ removal' = Joined
    /\ UNCHANGED <<account, coined, filed, edit, load, erased, bare, dropped>>

\* Removing a category removes its feeds; no check that another remains.
RemoveCategory ==
    /\ \E i \in Labels :
          /\ ~IsTarget(i) /\ \A f \in In({i}) : ~Moved(f)
          /\ title' = [title EXCEPT ![i] = 0]
          /\ Unfile(In({i}))
    /\ removal' = Joined
    /\ UNCHANGED <<account, coined, load, subPast>>

---------------------------------------------------------------------------
(* RemoveAndReplaceCategoriesByName. *)

\* The count: at least one category must remain.
CountOthers(r) ==
    /\ removal[r].at = "idle"
    /\ \E T \in (SUBSET Titles) \ {{}} :
          /\ Labels # Titled(T)
          /\ removal' = [Joined EXCEPT
                ![r] = [NoRemoval EXCEPT !.at = "counted", !.titles = T,
                          !.joined = \E q \in Removers : removal[q].at # "idle"]]
    /\ UNCHANGED <<account, labelVars, filed, edit, load, subPast, dropped>>

\* Wrong: no feed is moved.
FeedsToMoveNot(T) == {}

\* Which feeds the UPDATE moves, and where: to the first category that stays.
FeedsToMove(T) == In(Titled(T))
Stay(T) == Labels \ Titled(T)

MoveFeeds(r) ==
    LET T == removal[r].titles IN
    /\ removal[r].at = "counted"
    /\ \A f \in FeedsToMove(T) : ~Moved(f)
    /\ FeedsToMove(T) = {} \/ Stay(T) # {}
    /\ removal' = [removal EXCEPT ![r].at = "moved", ![r].moved = FeedsToMove(T),
                     ![r].target = IF Stay(T) = {} THEN NoLabel ELSE FirstOf(Stay(T))]
    /\ UNCHANGED <<account, labelVars, filed, edit, load, subPast, dropped>>

\* The DELETE, with the feeds that are in these categories by now, and the
\* end of the transaction.
DeleteLabels(r) ==
    LET gone == Titled(removal[r].titles)
        lost == In(gone) \ removal[r].moved
    IN /\ removal[r].at = "moved"
       /\ \A f \in lost : ~Moved(f)
       /\ \A i \in gone : ~\E q \in Removers \ {r} : removal[q].moved # {} /\ removal[q].target = i
       /\ title' = [i \in LabelIds |-> IF i \in gone THEN 0 ELSE title[i]]
       /\ filed' = [f \in Urls |-> IF f \in lost THEN NoLabel
                                   ELSE IF f \in removal[r].moved THEN removal[r].target
                                   ELSE filed[f]]
       /\ edit' = EditsWithout(lost)
       /\ dropped' = IF Loads THEN dropped \cup lost ELSE {}
       /\ erased' = erased \cup (lost \ slipped)
       /\ slipped' = Slips(slipped, r) \cup
             {f \in removal[r].moved : \E q \in Removers \ {r} :
                 removal[q].at = "moved" /\ title[removal[r].target] \in removal[q].titles}
       /\ bare' = (bare \/ (gone = Labels /\ ~removal[r].joined))
       /\ removal' = [removal EXCEPT ![r] = NoRemoval]
       /\ UNCHANGED <<account, coined, load>>

\* A statement fails, or is chosen to end a deadlock.
RemovalFails(r) ==
    /\ removal[r].at # "idle"
    /\ removal' = [removal EXCEPT ![r] = NoRemoval]
    /\ slipped' = Slips(slipped, r)
    /\ UNCHANGED <<account, labelVars, filed, edit, load, erased, bare, dropped>>

---------------------------------------------------------------------------
(* Feeds. *)

\* A request has checked the category and fetched the feed it subscribes to.
StartSubscribe(w) ==
    /\ edit[w].at = "idle"
    /\ \E f \in Urls \ In(Labels), i \in Labels :
          edit' = [edit EXCEPT ![w] = [at |-> "insert", feed |-> f, label |-> i]]
    /\ UNCHANGED <<account, labelVars, filed, removal, load, subPast, dropped>>

CreateFeed(w) ==
    /\ edit[w].at = "insert"
    /\ IF CanInsert(edit[w].feed, edit[w].label) THEN File(edit[w].feed, edit[w].label)
                                                 ELSE UNCHANGED <<filed, slipped>>
    /\ edit' = [edit EXCEPT ![w] = NoEdit]
    /\ UNCHANGED <<account, labelVars, removal, load, erased, bare, dropped>>

\* A refresh reads the row; so do settings, and a move to a category there is.
ReadFeed(w) ==
    /\ edit[w].at = "idle"
    /\ \E f \in In(Labels) : \E i \in {filed[f]} \cup Labels :
          edit' = [edit EXCEPT ![w] = [at |-> "update", feed |-> f, label |-> i]]
    /\ UNCHANGED <<account, labelVars, filed, removal, load, subPast, dropped>>

\* UpdateFeed writes every column, and fails when the category is gone.
UpdateFeed(w) ==
    /\ edit[w].at = "update" /\ ~Moved(edit[w].feed)
    /\ IF edit[w].label \in Labels THEN File(edit[w].feed, edit[w].label)
                                   ELSE UNCHANGED <<filed, slipped>>
    /\ edit' = [edit EXCEPT ![w] = NoEdit]
    /\ UNCHANGED <<account, labelVars, removal, load, erased, bare, dropped>>

\* A request or a job that ends before it writes.
EditEnds(w) ==
    /\ edit[w].at # "idle"
    /\ edit' = [edit EXCEPT ![w] = NoEdit]
    /\ UNCHANGED <<account, labelVars, filed, removal, load, subPast, dropped>>

RemoveFeed ==
    /\ \E f \in In(Labels) : ~Moved(f) /\ Unfile({f})
    /\ UNCHANGED <<account, labelVars, removal, load, subPast>>

\* Categories, feeds and whatever refers to them go with the user.
RemoveUser ==
    /\ account /\ \A f \in Urls : ~Moved(f)
    /\ account' = FALSE /\ title' = [i \in LabelIds |-> 0]
    /\ Unfile(In(Labels))
    /\ removal' = Joined
    /\ UNCHANGED <<coined, load, subPast>>

---------------------------------------------------------------------------
(* Imports and starter feeds. *)

Item == load.list[load.next]
LoadAt(label) == load.at = label /\ load.next <= Len(load.list)
Go(label) == load' = [load EXCEPT !.at = label]

\* The list of an import; title 0 is a feed without a category.
StartLoad ==
    /\ load.at = "idle" /\ account
    /\ \E k \in {"import", "starters"}, n \in 1..MaxLoad :
       \E s \in [1..n -> [url : Urls, title : 0..MaxTitle]] :
          load' = [NoLoad EXCEPT !.kind = k, !.at = "next", !.list = s]
    /\ dropped' = {}
    /\ UNCHANGED <<account, labelVars, filed, removal, edit, subPast>>

\* An import passes over what is there.
PassFeed ==
    /\ LoadAt("next") /\ load.kind = "import" /\ filed[Item.url] # NoLabel
    /\ load' = [load EXCEPT !.next = @ + 1, !.done = @ \cup {Item.url}]
    /\ UNCHANGED <<account, labelVars, filed, removal, edit, subPast, dropped>>

NextFeed ==
    /\ LoadAt("next")
    /\ load.kind = "import" => filed[Item.url] = NoLabel
    /\ Go("category")
    /\ UNCHANGED <<account, labelVars, filed, removal, edit, subPast, dropped>>

\* The category of that title, or the first one; the starter feeds remember.
Candidates ==
    IF Item.title = 0 THEN {FirstOf(S) : S \in {Labels} \ {{}}}
    ELSE IF load.known[Item.title] # NoLabel THEN {load.known[Item.title]}
    ELSE Titled({Item.title})

Resolved(i) ==
    [load EXCEPT !.at = "insert", !.label = i,
       !.known = IF load.kind = "starters" /\ Item.title # 0 THEN [@ EXCEPT ![Item.title] = i] ELSE @]

FindCategory ==
    /\ LoadAt("category")
    /\ \/ \E i \in Candidates : load' = Resolved(i)
       \/ Candidates = {} /\ Item.title # 0 /\ Go("create")
    /\ UNCHANGED <<account, labelVars, filed, removal, edit, subPast, dropped>>

CreateMissing ==
    /\ LoadAt("create")
    /\ \E i \in LabelIds : CreateCategory(i, Item.title) /\ load' = Resolved(i)
    /\ UNCHANGED <<account, filed, removal, edit, subPast, dropped>>

InsertFeed ==
    /\ LoadAt("insert") /\ CanInsert(Item.url, load.label)
    /\ File(Item.url, load.label)
    /\ load' = [load EXCEPT !.at = "next", !.next = @ + 1, !.done = @ \cup {Item.url}]
    /\ UNCHANGED <<account, labelVars, removal, edit, erased, bare, dropped>>

\* What cannot be created ends an import; a starter feed is only reported.
\* Any statement, and the fetch of a starter feed, may fail.
Over == [NoLoad EXCEPT !.at = "over"]
FailedLight == [load EXCEPT !.at = "next", !.next = @ + 1]    \* wrong: the import goes on
Failed == IF load.kind = "import" THEN Over ELSE [load EXCEPT !.at = "next", !.next = @ + 1]

LoadFails ==
    /\ \E l \in {"category", "create", "insert"} : LoadAt(l)
    /\ load' = Failed
    /\ dropped' = IF load.kind = "import" THEN {} ELSE dropped
    /\ UNCHANGED <<account, labelVars, filed, removal, edit, subPast>>

\* The list is done; or the time for starter feeds is over.
LoadEnds ==
    /\ load.at = "next" /\ (load.next > Len(load.list) \/ load.kind = "starters")
    /\ Go("complete")
    /\ UNCHANGED <<account, labelVars, filed, removal, edit, subPast, dropped>>

\* The answer, or the report, has been sent; or the process has stopped.
LoadIsOver ==
    /\ Loads /\ load' = Over /\ dropped' = {}
    /\ UNCHANGED <<account, labelVars, filed, removal, edit, subPast>>

Loading ==
    \/ StartLoad \/ PassFeed \/ NextFeed \/ FindCategory \/ CreateMissing
    \/ InsertFeed \/ LoadFails \/ LoadEnds \/ LoadIsOver

RemoveLabels(r) == CountOthers(r) \/ MoveFeeds(r) \/ DeleteLabels(r) \/ RemovalFails(r)
EditFeed(w) ==
    StartSubscribe(w) \/ CreateFeed(w) \/ ReadFeed(w) \/ UpdateFeed(w) \/ EditEnds(w)

AnyTime == AddCategory \/ UpdateCategory \/ RemoveCategory \/ RemoveFeed \/ RemoveUser
RemovingLabels == \E r \in Removers : RemoveLabels(r)
EditingFeeds == \E w \in Editors : EditFeed(w)

SubscriptionNext == AnyTime \/ RemovingLabels \/ EditingFeeds \/ Loading

SubscriptionSpec == SubscriptionInit /\ [][SubscriptionNext]_subVars

---------------------------------------------------------------------------
(* Properties. *)

\* Removing labels keeps every feed, except one that came into such a label
\* after the statement that moves feeds away; and one that nothing else about
\* categories interrupted leaves the user a category.
QuietRemovalsKeepFeeds == erased = {} /\ ~bare

\* What an import or the provisioning counts as there is there, unless it was
\* removed since; and an import that succeeds has left nothing out.
LoadedFeedsArrive ==
    /\ \A f \in load.done : filed[f] # NoLabel \/ f \in dropped
    /\ load.kind = "import" /\ load.at = "complete" =>
         \A k \in DOMAIN load.list : load.list[k].url \in load.done
=============================================================================
