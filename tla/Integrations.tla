---------------------------- MODULE Integrations ----------------------------
(***************************************************************************)
(* What is sent to the user's other services (integration/): an entry that *)
(* the user saves (SendEntry), and the new entries of a refresh            *)
(* (PushEntries).  Both run in a goroutine of their own, service after     *)
(* service, and only log errors.  The services answer what they like; of   *)
(* one of them, Pinboard, the model has the bookmark that a save must not  *)
(* override.                                                               *)
(***************************************************************************)
EXTENDS Naturals, Sequences, FiniteSets, SequencesExt

CONSTANTS Senders,     \* goroutines that send
          NewEntries,  \* the new entries of a refresh, a sequence
          Settings,    \* what a user and a feed may have set
          OwnTags      \* tags the user may give the bookmark at Pinboard

ASSUME IntegrationAssumption == NewEntries \in Seq(ToSet(NewEntries))

VARIABLES
    settings,  \* on: services switched on; empty: fields left empty; feed: services
               \* that the feed switches on or has fields of its own for
    job,       \* what each goroutine has still to send, and where it is
    heard,     \* history: the answers to each goroutine's requests
    bookmark,  \* the entry's bookmark at Pinboard
    own,       \* history: the tags the user gave it last
    hasty      \* history: of these, given between the two requests of a save

integrationVars == <<settings, job, heard, bookmark, own, hasty>>

---------------------------------------------------------------------------
(* The clients: the fields they refuse to work without, and the requests   *)
(* for one message with the answers they take as success.  Status 0 is no  *)
(* answer; good is a body that can be read and reports no error.           *)

Replies  == [status : {0, 200, 201, 204, 500}, good : BOOLEAN]
Done400  == {a \in Replies : a.status \in 1..399}
Exactly(status) == {a \in Replies : a.status = status}
Sensible == {a \in Replies : a.good}
AnyClient == [needs |-> {}, asks |-> <<Done400>>]

betula      == AnyClient
archiveorg  == AnyClient
omnivore    == [AnyClient EXCEPT !.asks = <<Done400 \cap Sensible>>]
pinboard    == [needs |-> {"token"}, asks |-> <<Done400 \cap Sensible, Done400>>]
instapaper  == [needs |-> {"username", "password"}, asks |-> <<Exactly(201)>>]
wallabag    == [needs |-> {"url", "client_id", "client_secret", "username", "password"},
                asks |-> <<Done400 \cap Sensible, Done400>>]
notion      == [needs |-> {"token", "page_id"}, asks |-> <<Exactly(200)>>]
nunuxkeeper == [needs |-> {"url", "api_key"}, asks |-> <<Exactly(200)>>]
espial      == [needs |-> {"url", "api_key"}, asks |-> <<Exactly(201)>>]
linkace     == [needs |-> {"url", "api_key"}, asks |-> <<Done400>>]
linkding    == [needs |-> {"url", "api_key"}, asks |-> <<Done400>>]
linktaco    == [needs |-> {"token", "org_slug"}, asks |-> <<Done400 \cap Sensible>>]
linkwarden  == [needs |-> {"url", "api_key"}, asks |-> <<Done400>>]
readeck     == [needs |-> {"url", "api_key"}, asks |-> <<Done400>>]
readwise    == [needs |-> {"api_key"}, asks |-> <<Done400>>]
cubox       == [needs |-> {"link"}, asks |-> <<Exactly(200)>>]
shiori      == [needs |-> {"url", "username", "password"},
                asks |-> <<Exactly(200) \cap Sensible, Exactly(200)>>]
shaarli     == [needs |-> {"url", "api_secret"}, asks |-> <<Exactly(201)>>]
raindrop    == [needs |-> {"token"}, asks |-> <<Done400>>]
webhook     == [needs |-> {"url"}, asks |-> <<Done400>>]
\* The tags are attached by a request of its own, when there are any.
karakeep(tagged) ==
    [needs |-> {}, asks |-> <<Exactly(201) \cap Sensible>> \o
                            (IF tagged THEN <<Exactly(200) \cup Exactly(201)>> ELSE <<>>)]
\* Discovery of the server, login, message.
matrixbot   == [needs |-> {}, asks |-> [i \in 1..3 |-> Done400 \cap Sensible]]
ntfy        == AnyClient
apprise     == [needs |-> {"url", "services"}, asks |-> <<Done400>>]
discord     == AnyClient
slack       == AnyClient
pushover    == [needs |-> {"token", "user"}, asks |-> <<Done400>>]
\* Only the body counts.
telegrambot == [needs |-> {}, asks |-> <<Sensible \ Exactly(0)>>]

Client(c) ==
    CASE c = "betula" -> betula [] c = "archiveorg" -> archiveorg [] c = "omnivore" -> omnivore
      [] c = "pinboard" -> pinboard [] c = "instapaper" -> instapaper [] c = "wallabag" -> wallabag
      [] c = "notion" -> notion [] c = "nunuxkeeper" -> nunuxkeeper [] c = "espial" -> espial
      [] c = "linkace" -> linkace [] c = "linkding" -> linkding [] c = "linktaco" -> linktaco
      [] c = "linkwarden" -> linkwarden [] c = "readeck" -> readeck [] c = "readwise" -> readwise
      [] c = "cubox" -> cubox [] c = "shiori" -> shiori [] c = "shaarli" -> shaarli
      [] c = "raindrop" -> raindrop [] c = "webhook" -> webhook
      [] c = "karakeep" -> karakeep(<<"karakeep", "tags">> \notin settings.empty)
      [] c = "matrixbot" -> matrixbot [] c = "ntfy" -> ntfy [] c = "apprise" -> apprise
      [] c = "discord" -> discord [] c = "slack" -> slack [] c = "pushover" -> pushover
      [] c = "telegrambot" -> telegrambot

\* A feed's own webhook and Apprise services come before the user's.
FieldOfFeed(c) == CASE c = "webhook" -> {"url"} [] c = "apprise" -> {"services"} [] OTHER -> {}
Ready(c) ==
    \A f \in Client(c).needs :
       <<c, f>> \notin settings.empty \/ (c \in settings.feed /\ f \in FieldOfFeed(c))

---------------------------------------------------------------------------
(* Which services get what, in which order.  A parcel is what one call of  *)
(* a client gets: messages, each about a set of entries.                   *)

SendOrder == <<"betula", "pinboard", "instapaper", "wallabag", "notion", "nunuxkeeper", "espial",
               "linkace", "linkding", "linktaco", "linkwarden", "readeck", "readwise", "cubox",
               "shiori", "shaarli", "archiveorg", "webhook", "omnivore", "karakeep", "raindrop">>

SendEntry(e) ==
    LET first[n \in 0..Len(SendOrder)] ==
            IF n = 0 THEN <<>>
            ELSE IF SendOrder[n] \in settings.on
                 THEN Append(first[n - 1], [to |-> SendOrder[n], of |-> <<{e}>>])
                 ELSE first[n - 1]
    IN first[Len(SendOrder)]

\* Both user and feed switch on ntfy and Pushover.
PushIsOn(c) == c \in settings.on /\ (c \in {"ntfy", "pushover"} => c \in settings.feed)

PushEntries(es) ==
    LET each == [i \in 1..Len(es) |-> {es[i]}]
        atOnce(c, messages) == IF PushIsOn(c) THEN <<[to |-> c, of |-> messages]>> ELSE <<>>
        oneByOne(c, flag) ==
            IF PushIsOn(flag) THEN [i \in 1..Len(es) |-> [to |-> c, of |-> <<each[i]>>]] ELSE <<>>
    IN atOnce("matrixbot", <<ToSet(es)>>)
       \o atOnce("webhook", IF es = <<>> THEN <<>> ELSE <<ToSet(es)>>)
       \o atOnce("ntfy", each) \o atOnce("apprise", each) \o atOnce("discord", each)
       \o atOnce("slack", each) \o atOnce("pushover", each)
       \o oneByOne("telegrambot", "telegrambot") \o oneByOne("readeck", "readeck_push")

SendServices == ToSet(SendOrder)
PushServices == {"matrixbot", "webhook", "ntfy", "apprise", "discord", "slack", "pushover",
                 "telegrambot", "readeck_push"}

---------------------------------------------------------------------------
Waiting == [at |-> "idle", plan |-> <<>>, todo |-> <<>>, k |-> 1, post |-> {}]

NothingSent ==
    /\ job = [s \in Senders |-> Waiting]
    /\ heard = [s \in Senders |-> {}]
    /\ bookmark \in [there : {TRUE}, tags : SUBSET OwnTags] \cup [there : {FALSE}, tags : {{}}]
    /\ own = bookmark.tags /\ hasty = {}

IntegrationInit == settings \in Settings /\ NothingSent

Outside == UNCHANGED <<settings, own, hasty>>

\* The Save button, the API, Google Reader's stars and Fever's "saved".
Save(s) ==
    /\ job[s].at = "idle"
    /\ \E e \in ToSet(NewEntries) :
          job' = [job EXCEPT ![s] = [Waiting EXCEPT !.at = "sending", !.plan = SendEntry(e),
                                                    !.todo = SendEntry(e)]]
    /\ UNCHANGED <<heard, bookmark>> /\ Outside

\* A refresh that found new entries; all of them or one.
Refreshed(s) ==
    /\ job[s].at = "idle"
    /\ \E n \in 1..Len(NewEntries) : LET plan == PushEntries(SubSeq(NewEntries, 1, n)) IN
          job' = [job EXCEPT ![s] = [Waiting EXCEPT !.at = "sending", !.plan = plan, !.todo = plan]]
    /\ UNCHANGED <<heard, bookmark>> /\ Outside

\* Wrong: an error of one service ends the whole.
AfterErrorStop(j) == [j EXCEPT !.todo = <<>>, !.k = 1]
\* A client that fails leaves the rest of its parcel; the next one follows.
AfterError(j) == [j EXCEPT !.todo = Tail(@), !.k = 1]

AfterMessage(j) ==
    LET parcel == Head(j.todo)
    IN IF j.k < Len(Client(parcel.to).asks) THEN [j EXCEPT !.k = @ + 1]
       ELSE [j EXCEPT !.k = 1, !.todo =
               IF Len(parcel.of) = 1 THEN Tail(@)
               ELSE <<[parcel EXCEPT !.of = Tail(@)]>> \o Tail(@)]

Sends(s) == job[s].at = "sending" /\ job[s].todo # <<>>
To(s) == Head(job[s].todo).to

\* A client without its fields, or with nothing to tell, asks nothing.
Skip(s) ==
    /\ Sends(s)
    /\ ~Ready(To(s)) \/ Head(job[s].todo).of = <<>>
    /\ job' = [job EXCEPT ![s] = AfterError(@)]
    /\ UNCHANGED <<heard, bookmark>> /\ Outside

\* Wrong: whatever goes wrong, the bookmark counts as new.
FoundAnyway(a) ==
    [failed |-> FALSE,
     tags |-> IF a \in pinboard.asks[1] /\ bookmark.there THEN bookmark.tags ELSE {}]
\* getBookmark: the bookmark there is; one that is not there is made anew,
\* and any other error ends the save.
Found(a) ==
    [failed |-> a \notin pinboard.asks[1],
     tags |-> IF bookmark.there THEN bookmark.tags ELSE {}]

Hear(s, ok) ==
    heard' = [heard EXCEPT ![s] = @ \cup
                 {[to |-> To(s), of |-> Head(Head(job[s].todo).of), k |-> job[s].k, ok |-> ok]}]

\* One request and its answer.
Ask(s) ==
    /\ Sends(s) /\ Ready(To(s)) /\ Head(job[s].todo).of # <<>>
    /\ To(s) # "pinboard"
    /\ \E a \in Replies :
          LET ok == a \in Client(To(s)).asks[job[s].k]
          IN /\ job' = [job EXCEPT ![s] = IF ok THEN AfterMessage(@) ELSE AfterError(@)]
             /\ Hear(s, ok)
    /\ UNCHANGED bookmark /\ Outside

\* CreateBookmark of Pinboard: read the bookmark ...
GetBookmark(s) ==
    /\ Sends(s) /\ To(s) = "pinboard" /\ Ready("pinboard") /\ job[s].k = 1
    /\ \E a \in Replies : LET found == Found(a) IN
          /\ job' = [job EXCEPT ![s] = IF found.failed THEN AfterError(@)
                                       ELSE AfterMessage([@ EXCEPT !.post = found.tags])]
          /\ Hear(s, ~found.failed)
    /\ UNCHANGED bookmark /\ Outside

\* ... and write it with the configured tag.  A lost answer may stand for either.
AddBookmark(s) ==
    /\ Sends(s) /\ To(s) = "pinboard" /\ Ready("pinboard") /\ job[s].k = 2
    /\ \E a \in Replies : \E stored \in IF a.status = 0 THEN BOOLEAN ELSE {a \in Done400} :
          /\ bookmark' = IF stored THEN [there |-> TRUE, tags |-> job[s].post \cup {"miniflux"}]
                         ELSE bookmark
          /\ job' = [job EXCEPT ![s] = IF a \in Done400 THEN AfterMessage(@) ELSE AfterError(@)]
          /\ Hear(s, a \in Done400)
    /\ Outside

Finish(s) ==
    /\ job[s].at = "sending" /\ job[s].todo = <<>>
    /\ job' = [job EXCEPT ![s].at = "done"]
    /\ UNCHANGED <<heard, bookmark>> /\ Outside

Between(s) == Sends(s) /\ To(s) = "pinboard" /\ job[s].k = 2

\* The user, at Pinboard.
EditBookmark ==
    /\ \E tags \in SUBSET OwnTags : \E there \in {TRUE, tags # {}} :
          /\ bookmark' = [there |-> there, tags |-> tags]
          /\ own' = tags
          /\ hasty' = IF \E s \in Senders : Between(s) THEN tags ELSE {}
    /\ UNCHANGED <<settings, job, heard>>

Sending(s) ==
    Save(s) \/ Refreshed(s) \/ Skip(s) \/ Ask(s) \/ GetBookmark(s) \/ AddBookmark(s) \/ Finish(s)

IntegrationNext == EditBookmark \/ \E s \in Senders : Sending(s)

IntegrationSpec == IntegrationInit /\ [][IntegrationNext]_integrationVars

---------------------------------------------------------------------------
(* Whatever the others answered, a finished delivery has asked every       *)
(* service that was due and has its fields: all it had to, or as far as    *)
(* the service's own answers let it go; and a service that gets entries    *)
(* one by one has been asked for each of them (SendEntry, PushEntries).    *)
EveryServiceIsTried ==
    \A s \in Senders : job[s].at = "done" =>
       \A i \in DOMAIN job[s].plan :
          LET parcel == job[s].plan[i]
              answers == {h \in heard[s] : h.to = parcel.to /\ h.of \in ToSet(parcel.of)}
          IN Ready(parcel.to) /\ parcel.of # <<>> =>
                \/ \E h \in answers : ~h.ok
                \/ {<<h.of, h.k>> : h \in answers} =
                      ToSet(parcel.of) \X DOMAIN Client(parcel.to).asks

(* Saving an entry never takes a tag off the bookmark that the user has at *)
(* Pinboard, unless the tag was given between the request that reads the   *)
(* bookmark and the one that writes it (pinboard.go, CreateBookmark).      *)
QuietBookmarksAreKept == own \ hasty \subseteq bookmark.tags
=============================================================================
