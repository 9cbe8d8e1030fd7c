----------------------------- MODULE MCServices -----------------------------
(***************************************************************************)
(* The services around the polling of feeds, one after the other: each     *)
(* behaviour is one of one service.  They share no state, so that nothing  *)
(* would be gained by interleaving them, and may share model values.       *)
(***************************************************************************)
EXTENDS WebSessions, FilterRules, Icons, Accounts, Subscriptions, Pages, Integrations, Enclosures, FeedFormats, MCFeeds, MCApi

CONSTANT LabelFeeds    \* the feeds that are filed while labels are removed

VARIABLE part    \* the service whose steps a behaviour has

(***************************************************************************)
(* Entries are numbered by their dates; the third is of feed 1, which is   *)
(* hidden globally.                                                        *)
(***************************************************************************)
DateOf(e) == e
FeedNumber(e) == e \div 3
CategorySets == {{0, 1}}

\* A rule is the set of the entries that it matches.
InRule(rule, entry) == entry \in rule

Parts == {"sessions", "filters", "icons", "keys", "names", "labels",
          "loads", "listing", "tagging", "sharing", "walks", "openings", "sending",
          "enclosures", "formats", "api"}

\* Feed 0, a category of feeds 1 and 0, a tag and a query.
ScopeOf(page) ==
    CASE page \in {"unread_feed", "feed"} -> {1, 2}
      [] page \in {"tag", "search", "search_unread"} -> {2, 3}
      [] OTHER -> {1, 2, 3}

\* One or two services that are on, at most one field left empty, and what
\* the feed adds to them.
Field(c) == {<<c, f>> : f \in Client(IF c = "readeck_push" THEN "readeck" ELSE c).needs}
SettingsOf(on) ==
    LET fields == UNION {Field(c) : c \in on \ {"karakeep"}}
                  \cup ({"karakeep"} \cap on) \X {"tags"}
    IN [on : {on}, empty : {{}} \cup {{f} : f \in fields},
        feed : SUBSET (on \cap {"webhook", "apprise", "ntfy", "pushover"})]
Trim(raw) == IF raw = " u" THEN "u" ELSE raw
Podcasts == {<<>>, <<"">>, <<"u">>, <<" u", "u">>, <<"v", " u">>, <<"", "v">>}
TwoEntries == <<1, 2>>
Plain == [on |-> {}, empty |-> {}, feed |-> {}]
SettingSets ==
    UNION {SettingsOf(on) : on \in {{c, d} : c, d \in SendServices \cup PushServices}}

\* What a part has no use for is not there.
Start ==
    /\ coined = {1}
    /\ part \notin {"listing", "tagging", "sharing", "walks", "openings"} => there = {}
    /\ part = "openings" => there = {2}
    /\ part \notin {"walks", "openings"} => user = [s \in DOMAIN user |-> FALSE]
    /\ part = "openings" => ~user.desc /\ (user.onCompletion => user.markOnView)
    /\ part = "walks" => /\ there = Entries /\ ~user.external /\ ~user.onCompletion
                         /\ user.desc = user.markOnView
    /\ buried = CASE part = "listing" -> {}
                  [] part = "sharing" -> {3}
                  [] part = "tagging" -> {2, 3}
                  [] part = "walks" -> {}
                  [] part = "openings" -> {1, 3}
                  [] OTHER -> Entries

MCInit ==
    /\ part \in Parts
    /\ SessionsInit /\ FilterInit /\ IconInit /\ AccountInit
    /\ SubscriptionInit /\ ReadingInit /\ PagesInit
    /\ EnclosuresInit
    /\ IF part = "formats" THEN FormatsInit
       ELSE /\ items = <<>> /\ edited = FALSE /\ dialect = "rss" /\ site = Sites[1] /\ known = Missing
            /\ followed = [key |-> 0] /\ hidden = FALSE
    /\ ApiInit
    /\ Start
    /\ IF part = "sending" THEN IntegrationInit ELSE settings = Plain /\ NothingSent
    /\ "pinboard" \notin settings.on => bookmark.there /\ own = {}

\* The publisher changes what is there once the article has been stored.
Publishing ==
    \/ Publish \/ Reorder \/ Refresh
    \/ known # Missing /\ (Rewrite \/ Convert \/ Move)

Services == <<sessionVars, filterVars, iconVars, accountVars, subVars, readingVars, pageVars, integrationVars, enclosureVars, formatVars, apiVars>>

\* Identities, challenges, keys and codes are numbers in the order in which
\* they are made: which one is made does not matter.
InOrder == \A S \in {used', issued', born', minted', coined', coded'} : S = 1..Cardinality(S)

\* Among labels one feed is enough.
OnlyLabelFeeds ==
    \A f \in Urls \ LabelFeeds : filed'[f] = NoLabel /\ \A w \in Editors : edit'[w].feed # f

\* A walk ends when it is disturbed; nothing is starred but for walks among
\* what is starred.
Starry1 == {"none", "starred", "starred_category", "category_starred"}
Walking ==
    /\ ~tab[1].shaken
    /\ MarkElsewhere \/ \E t \in {1} : Page(t) \/ Browse(t)
    /\ starred' # {} => tab'[1].name \in Starry1

\* One page of each kind of handler is enough to have two of one entry at once.
Opening ==
    /\ MarkElsewhere \/ \E t \in Tabs : Page(t)
    /\ starred' = {}
    /\ \A t \in Tabs : tab'[t].name \in {"none", "unread", "unread_feed", "feed"}

\* Two at once, and the user between them, only concern each other at Pinboard.
Delivering ==
    \/ "pinboard" \in settings.on /\ EditBookmark
    \/ Sending(1)
    \/ settings.on = {"pinboard"} /\ Sending(2)

MCNext ==
    /\ UNCHANGED part
    /\ \/ /\ part = "sessions" /\ SessionsNext
          /\ UNCHANGED <<filterVars, iconVars, accountVars, subVars, readingVars, pageVars, integrationVars, enclosureVars, formatVars, apiVars>>
       \/ /\ part = "filters" /\ FilterNext
          /\ UNCHANGED <<sessionVars, iconVars, accountVars, subVars, readingVars, pageVars, integrationVars, enclosureVars, formatVars, apiVars>>
       \/ /\ part = "icons" /\ IconNext
          /\ UNCHANGED <<sessionVars, filterVars, accountVars, subVars, readingVars, pageVars, integrationVars, enclosureVars, formatVars, apiVars>>
       \/ /\ \/ part = "keys" /\ (ChangingKeys \/ Answering)
             \/ part = "names" /\ (ChangingNames \/ Answering)
          /\ UNCHANGED <<sessionVars, filterVars, iconVars, subVars, readingVars, pageVars, integrationVars, enclosureVars, formatVars, apiVars>>
       \/ /\ \/ part = "labels" /\ (AnyTime \/ RemovingLabels \/ EditingFeeds) /\ OnlyLabelFeeds
             \/ part = "loads" /\ (AnyTime \/ Loading)
          /\ UNCHANGED <<sessionVars, filterVars, iconVars, accountVars, readingVars, pageVars, integrationVars, enclosureVars, formatVars, apiVars>>
       \/ /\ \/ part = "listing" /\ (Marking \/ Listing) /\ (starred' = {} \/ unread' = there')
             \/ part = "tagging" /\ (Marking \/ Tagging)
             \/ part = "sharing" /\ (Marking \/ Sharing)
          /\ UNCHANGED <<sessionVars, filterVars, iconVars, accountVars, subVars, pageVars, integrationVars, enclosureVars, formatVars, apiVars>>
       \/ /\ \/ part = "walks" /\ Walking
             \/ part = "openings" /\ Opening
          /\ UNCHANGED <<sessionVars, filterVars, iconVars, accountVars, subVars, integrationVars, enclosureVars, formatVars, apiVars>>
       \/ /\ part = "sending" /\ Delivering
          /\ UNCHANGED <<sessionVars, filterVars, iconVars, accountVars, subVars, readingVars, pageVars, enclosureVars, formatVars, apiVars>>
       \/ /\ part = "enclosures" /\ EnclosuresNext
          /\ UNCHANGED <<sessionVars, filterVars, iconVars, accountVars, subVars, readingVars, pageVars,
                         integrationVars, formatVars, apiVars>>
       \/ /\ part = "formats" /\ Publishing
          /\ UNCHANGED <<sessionVars, filterVars, iconVars, accountVars, subVars, readingVars, pageVars,
                         integrationVars, enclosureVars, apiVars>>
       \/ /\ part = "api" /\ ApiPart
          /\ UNCHANGED <<sessionVars, filterVars, iconVars, accountVars, subVars, readingVars, pageVars,
                         integrationVars, enclosureVars, formatVars>>
    /\ InOrder

MCSpec == MCInit /\ [][MCNext]_<<part, Services>>
=============================================================================
