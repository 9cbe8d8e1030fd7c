---------------------------- MODULE FeedFormats ----------------------------
(***************************************************************************)
(* What the parsers of reader/rss, reader/atom, reader/json and reader/rdf *)
(* make of a feed, whichever of the formats and of their extensions its    *)
(* publisher uses, while the publisher goes on publishing.  A text is a    *)
(* sequence of words, " " the space around it; a URL is a sequence too, of *)
(* which an absolute one begins with "http:" and its host.  An element     *)
(* maps what it holds, and has no word for what it does not hold.          *)
(***************************************************************************)
EXTENDS Naturals, Sequences, FiniteSets, TLC
LOCAL INSTANCE SequencesExt

CONSTANTS Articles,         \* what there is to publish
          Dialects,         \* the formats and extensions to write a feed in
          Sites,            \* where the publisher's site may be, the first one first
          Written(_, _, _), \* the document in a dialect, for a site and its items
          Channel,          \* what the feed says of itself
          MaxItems,         \* how many items the feed shows
          DateTexts, Languages, \* the texts that are one
          MaxWords          \* of a title made from content

VARIABLES items,   \* the articles in the feed, the latest first
          edited,  \* whether the publisher has rewritten its texts
          dialect, site,
          followed, known,   \* history: an article, and the hash under which it was first stored
          hidden             \* and whether it was stored from RDF

formatVars == <<items, edited, dialect, site, followed, known, hidden>>

---------------------------------------------------------------------------
(* Texts.                                                                  *)

Missing == <<>>
Get(element, name) == IF name \in DOMAIN element THEN element[name] ELSE Missing

TrimSpace(text) ==
    LET solid == {i \in DOMAIN text : text[i] # " "}
        ends(i, j) == \A k \in solid : i <= k /\ k <= j
    IN IF solid = {} THEN Missing
       ELSE SubSeq(text, CHOOSE i \in solid : ends(i, Len(text)),
                         CHOOSE j \in solid : ends(1, j))
FirstGiven(texts) ==
    LET given == {i \in DOMAIN texts : texts[i] # Missing}
    IN IF given = {} THEN Missing ELSE texts[CHOOSE i \in given : \A j \in given : i <= j]
\* appendSorted, makeSorted: sorted and without duplicates, which is a set.
Sorted(texts) == {TrimSpace(texts[i]) : i \in DOMAIN texts} \ {Missing}

Markup == {"<b>"}
Entities == ("&" :> "&amp;") @@ ("&amp;" :> "&amp;amp;") @@ ("<b>" :> "&lt;b>")
EscapeString(text) ==
    [i \in DOMAIN text |-> IF text[i] \in DOMAIN Entities THEN Entities[text[i]] ELSE text[i]]
UnescapeString(text) ==
    [i \in DOMAIN text |-> IF \E w \in DOMAIN Entities : Entities[w] = text[i]
                           THEN CHOOSE w \in DOMAIN Entities : Entities[w] = text[i]
                           ELSE text[i]]
StripTags(text) == TrimSpace(UnescapeString(SelectSeq(text, LAMBDA w : w \notin Markup)))
TruncateHTML(text) ==
    LET words == UnescapeString(SelectSeq(text, LAMBDA w : w \notin Markup \cup {" "}))
    IN IF Len(words) <= MaxWords THEN words ELSE Append(SubSeq(words, 1, MaxWords), "...")

\* language.Normalize: what is no language tag is nothing.
Normalize(text) ==
    IF TrimSpace(text) \in DOMAIN Languages THEN Languages[TrimSpace(text)] ELSE Missing
\* The first date that can be read, or the present time.
FirstDate(texts) ==
    LET dates == SelectSeq(texts, LAMBDA text : TrimSpace(text) \in DateTexts)
    IN IF dates = <<>> THEN <<"now">> ELSE TrimSpace(dates[1])

IsAbsoluteURL(url) == url # Missing /\ url[1] = "http:"
Malformed(url) == ~IsAbsoluteURL(url) /\ \E i \in DOMAIN url : url[i] = "%"
Resolve(base, url) ==
    IF IsAbsoluteURL(url) THEN url ELSE IF url = Missing THEN base ELSE SubSeq(base, 1, 2) \o url
ResolvedOr(base, url, otherwise) == IF Malformed(url) THEN otherwise ELSE Resolve(base, url)

\* The URLs of attached media that can be used.
Usable(base, urls) ==
    LET trimmed == [i \in DOMAIN urls |-> TrimSpace(urls[i])]
        good == SelectSeq(trimmed, LAMBDA url : url # Missing /\ ~Malformed(url))
    IN [i \in DOMAIN good |-> Resolve(base, good[i])]
AddNew(urls, more) ==
    FoldLeft(LAMBDA all, url : IF Contains(all, url) THEN all ELSE Append(all, url), urls, more)

\* AllMediaThumbnails, AllMediaContents, AllMediaPeerLinks
AllMedia(item, name) ==
    FoldLeft(LAMBDA all, group : all \o Get(group, name), Get(item, name), Get(item, "groups"))
FirstMediaDescription(item) == FirstGiven(AllMedia(item, "descriptions"))

---------------------------------------------------------------------------
(* RSS.                                                                    *)

findEntryURL(item) ==
    LET links == SelectSeq(Get(item, "links"), LAMBDA l :
                               l.href # Missing /\ l.rel \in {"alternate", ""})
        guid == IF Get(item, "isPermaLink") \in {Missing, <<"true">>}
                THEN Get(item, "guid") ELSE Missing
    IN TrimSpace(FirstGiven(<<Get(item, "feedBurnerLink"), Get(item, "link")>>
                         \o [i \in DOMAIN links |-> links[i].href] \o <<guid>>))
findEntryTitle(item) ==
    UnescapeString(UnescapeString(TrimSpace(
        FirstGiven(<<Get(item, "dcTitle"), Get(item, "title")>>))))
findEntryContent(item) ==
    FirstGiven(<<Get(item, "dcContent"), Get(item, "description"), Get(item, "gpDescription"),
              Get(item, "itunesSummary"), Get(item, "itunesSubtitle")>>)
findEntryDate(item) == FirstDate(<<FirstGiven(<<Get(item, "dcDate"), Get(item, "pubDate")>>)>>)
findEntryAuthor(item) ==
    StripTags(FirstGiven(<<Get(item, "gpAuthor"), Get(item, "itunesAuthor"), Get(item, "dcCreator"),
                        TrimSpace(Get(item, "atomAuthor")), Get(item, "author")>>))
findFeedAuthor(channel) ==
    StripTags(FirstGiven(<<Get(channel, "itunesAuthor"), Get(channel, "gpAuthor"),
                        TrimSpace(Get(channel, "itunesOwner")), Get(channel, "managingEditor"),
                        Get(channel, "webmaster")>>))
findEntryTags(item) == Sorted(Get(item, "categories") \o Get(item, "mediaCategories"))
findFeedTags(channel) ==
    Sorted(Get(channel, "categories") \o Get(channel, "itunesCategories")
           \o <<Get(channel, "gpCategory")>>)

\* FeedBurner's link replaces the enclosure whose file it leads to; an
\* enclosure that cannot be resolved stays as it is.
rssAttachments(item, siteURL) ==
    LET burner == Get(item, "feedBurnerEnclosureLink")
        direct(url) == TrimSpace(IF burner # Missing /\ url # Missing /\ Last(url) = Last(burner)
                                 THEN burner ELSE url)
        urls == SelectSeq([i \in DOMAIN Get(item, "enclosures") |->
                               direct(Get(item, "enclosures")[i])], LAMBDA url : url # Missing)
    IN [i \in DOMAIN urls |-> ResolvedOr(siteURL, urls[i], urls[i])]
findEntryEnclosures(item, siteURL) ==
    AddNew(<<>>, Usable(siteURL, AllMedia(item, "thumbnails"))
                 \o rssAttachments(item, siteURL)
                 \o Usable(siteURL, AllMedia(item, "contents"))
                 \o Usable(siteURL, AllMedia(item, "peerLinks")))

Hash(text) == <<"sha256">> \o text

\* Wrong: what counts is where the item is now.
rssHashResolved(item, entry, n) ==
    IF Get(item, "guid") # Missing
    THEN Hash(IF n = 0 THEN Get(item, "guid") ELSE Get(item, "guid") \o <<"|">> \o entry.url)
    ELSE Hash(IF entry.url # Missing THEN entry.url ELSE entry.title \o entry.content)
\* n items before this one have the same GUID.
rssHash(item, entry, n) ==
    IF Get(item, "guid") # Missing
    THEN Hash(IF n = 0 THEN Get(item, "guid")
              ELSE Get(item, "guid") \o <<"|">>
                   \o (IF entry.url # Missing THEN entry.url ELSE <<ToString(n)>>))
    ELSE Hash(IF findEntryURL(item) # Missing THEN findEntryURL(item)
              ELSE entry.title \o entry.content)

rssEntry(channel, feed, item, n) ==
    LET media == findEntryEnclosures(item, feed.siteURL)
        link == findEntryURL(item)
        url == IF link # Missing THEN ResolvedOr(feed.siteURL, link, link)
               ELSE IF media # <<>> THEN media[1] ELSE feed.siteURL
        content == findEntryContent(item)
        tags == findEntryTags(item)
        entry == [url |-> url, content |-> content, enclosures |-> media,
                  title |-> FirstGiven(<<findEntryTitle(item), TruncateHTML(content), url>>),
                  author |-> Sorted(<<FirstGiven(<<findEntryAuthor(item), findFeedAuthor(channel)>>)>>),
                  date |-> findEntryDate(item),
                  language |-> FirstGiven(<<Normalize(Get(item, "dcLanguage")), feed.language>>),
                  tags |-> IF tags # {} THEN tags ELSE findFeedTags(channel), hash |-> Missing]
    IN [entry EXCEPT !.hash = rssHash(item, entry, n)]

\* How many items before one have its GUID.
Repeats(elements, i) ==
    Cardinality({j \in 1..(i - 1) : Get(elements[j], "guid") = Get(elements[i], "guid")})
rssFeed(channel, elements, baseURL) ==
    LET siteURL == ResolvedOr(baseURL, TrimSpace(Get(channel, "link")), TrimSpace(Get(channel, "link")))
        self == SelectSeq(Get(channel, "links"), LAMBDA l :
                    TrimSpace(l.href) # Missing /\ l.rel = "self" /\ ~Malformed(TrimSpace(l.href)))
        feed == [title |-> FirstGiven(<<UnescapeString(TrimSpace(Get(channel, "title"))), siteURL>>),
                 siteURL |-> siteURL,
                 feedURL |-> IF self = <<>> THEN baseURL ELSE Resolve(baseURL, TrimSpace(self[1].href)),
                 iconURL |-> IF Get(channel, "image") = Missing THEN Missing
                             ELSE ResolvedOr(siteURL, Get(channel, "image"), Missing),
                 language |-> FirstGiven(<<Normalize(Get(channel, "language")),
                                        Normalize(Get(channel, "dcLanguage"))>>),
                 entries |-> <<>>]
    IN [feed EXCEPT !.entries = [i \in DOMAIN elements |->
                                     rssEntry(channel, feed, elements[i], Repeats(elements, i))]]

---------------------------------------------------------------------------
(* Atom.                                                                   *)

\* Wrong: any link without a type will do.
originalLinkAny(links) ==
    LET those == SelectSeq(links, LAMBDA l : l.rel = "alternate" \/ l.type \in {"", "text/html"})
    IN IF those = <<>> THEN Missing ELSE TrimSpace(those[1].href)
originalLink(links) ==
    LET those == SelectSeq(links, LAMBDA l :
                     l.rel = "alternate" \/ (l.rel = "" /\ l.type \in {"", "text/html"}))
    IN IF those = <<>> THEN Missing ELSE TrimSpace(those[1].href)
findAllLinksWithRelation(links, relation) ==
    LET those == SelectSeq(links, LAMBDA l : l.rel = relation /\ TrimSpace(l.href) # Missing)
    IN [i \in DOMAIN those |-> TrimSpace(those[i].href)]
firstLinkWithRelation(links, relation) ==
    LET those == SelectSeq(links, LAMBDA l : l.rel = relation)
    IN IF those = <<>> THEN Missing ELSE TrimSpace(those[1].href)
\* Each person by the name or, without one, by the address.
personNames(persons) ==
    Sorted([i \in DOMAIN persons |-> FirstGiven(<<TrimSpace(Get(persons[i], "name")),
                                              TrimSpace(Get(persons[i], "email"))>>)])
CategoryNames(categories) ==
    Sorted([i \in DOMAIN categories |-> FirstGiven(<<TrimSpace(Get(categories[i], "label")),
                                                 TrimSpace(Get(categories[i], "term"))>>)])

\* atom10Text: text, HTML or XHTML, of which a title in a CDATA section is
\* taken to be escaped once more.
body(text) == TrimSpace(Get(text, "data"))
title10(text) ==
    TrimSpace(IF Get(text, "type") = <<"cdata">> THEN UnescapeString(Get(text, "data"))
              ELSE Get(text, "data"))
\* atom03Content: all but HTML is escaped.
content03(text) ==
    TrimSpace(IF Get(text, "type") = <<"text/html">> THEN Get(text, "data")
              ELSE EscapeString(Get(text, "data")))

\* Thumbnails are compared as they are written, with what is resolved.
atomEnclosures(element, siteURL) ==
    LET thumbnails == FoldLeft(LAMBDA all, url :
                          IF Contains(all, TrimSpace(url)) THEN all
                          ELSE all \o Usable(siteURL, <<url>>),
                          <<>>, AllMedia(element, "thumbnails"))
    IN AddNew(thumbnails,
              Usable(siteURL, findAllLinksWithRelation(Get(element, "links"), "enclosure"))
              \o Usable(siteURL, AllMedia(element, "contents"))
              \o Usable(siteURL, AllMedia(element, "peerLinks")))

\* An entry with neither an identity nor a link has no hash.
atomHash(element) ==
    LET identity == FirstGiven(<<Get(element, "id"), originalLink(Get(element, "links"))>>)
    IN IF identity = Missing THEN Missing ELSE Hash(identity)

atom10Entry(channel, siteURL, element) ==
    LET link == originalLink(Get(element, "links"))
        id == Get(element, "id")
        url == IF link # Missing THEN ResolvedOr(siteURL, link, link)
               ELSE IF IsAbsoluteURL(id) THEN id ELSE siteURL
        content == FirstGiven(<<body(Get(element, "content")), body(Get(element, "summary")),
                             FirstMediaDescription(element)>>)
        authors == personNames(Get(element, "authors"))
        tags == CategoryNames(Get(element, "categories"))
    IN [url |-> url, content |-> content, hash |-> atomHash(element),
        title |-> FirstGiven(<<title10(Get(element, "title")), TruncateHTML(content), url>>),
        author |-> IF authors # {} THEN authors ELSE personNames(Get(channel, "authors")),
        date |-> FirstDate(<<Get(element, "published"), Get(element, "updated")>>),
        language |-> FirstGiven(<<Normalize(Get(element, "language")),
                               Normalize(Get(channel, "language"))>>),
        tags |-> IF tags # {} THEN tags ELSE CategoryNames(Get(channel, "categories")),
        enclosures |-> atomEnclosures(element, siteURL)]

atom03Entry(channel, siteURL, element) ==
    LET link == originalLink(Get(element, "links"))
        url == IF link = Missing THEN Missing ELSE ResolvedOr(siteURL, link, link)
        content == FirstGiven(<<content03(Get(element, "content")), content03(Get(element, "summary"))>>)
        author == personNames(Get(element, "authors"))
    IN [url |-> url, content |-> content, hash |-> atomHash(element),
        title |-> FirstGiven(<<content03(Get(element, "title")), TruncateHTML(content), url>>),
        author |-> IF author # {} THEN author ELSE personNames(Get(channel, "authors")),
        date |-> FirstDate(<<Get(element, "issued"), Get(element, "modified"),
                             Get(element, "created")>>),
        language |-> FirstGiven(<<Normalize(Get(element, "language")),
                               Normalize(Get(channel, "language"))>>),
        tags |-> {}, enclosures |-> <<>>]

atomFeed(channel, elements, baseURL, version) ==
    LET self == firstLinkWithRelation(Get(channel, "links"), "self")
        siteURL == ResolvedOr(baseURL, originalLink(Get(channel, "links")), baseURL)
        icons == IF version = "0.3" THEN <<>>
                 ELSE Usable(siteURL, <<Get(channel, "icon"), Get(channel, "logo")>>)
    IN [title |-> FirstGiven(<<IF version = "0.3" THEN content03(Get(channel, "title"))
                            ELSE body(Get(channel, "title")), siteURL>>),
        siteURL |-> siteURL, feedURL |-> ResolvedOr(baseURL, self, baseURL),
        iconURL |-> FirstGiven(icons), language |-> Normalize(Get(channel, "language")),
        entries |-> [i \in DOMAIN elements |->
                         IF version = "0.3" THEN atom03Entry(channel, siteURL, elements[i])
                         ELSE atom10Entry(channel, siteURL, elements[i])]]

---------------------------------------------------------------------------
(* JSON Feed and RDF.                                                      *)

jsonHash(item) ==
    LET identity == FirstGiven(<<TrimSpace(Get(item, "id")), TrimSpace(Get(item, "url")),
                              TrimSpace(Get(item, "externalURL")),
                              TrimSpace(Get(item, "contentText") \o Get(item, "contentHTML")
                                        \o Get(item, "summary"))>>)
    IN IF identity = Missing THEN Missing ELSE Hash(identity)

jsonEntry(channel, feed, item) ==
    LET url == FirstGiven(Usable(feed.siteURL, <<Get(item, "url"), Get(item, "externalURL")>>))
        text(name) == EscapeString(TrimSpace(Get(item, name)))
    IN [url |-> url, hash |-> jsonHash(item),
        title |-> FirstGiven(<<TrimSpace(Get(item, "title")), TruncateHTML(Get(item, "summary")),
                            TruncateHTML(Get(item, "contentText")),
                            TruncateHTML(Get(item, "contentHTML")), url>>),
        content |-> FirstGiven(<<TrimSpace(Get(item, "contentHTML")), text("contentText"),
                              text("summary")>>),
        author |-> Sorted(Get(channel, "authors") \o Get(item, "authors")
                          \o <<Get(item, "author"), Get(channel, "author")>>),
        date |-> FirstDate(<<Get(item, "datePublished"), Get(item, "dateModified")>>),
        language |-> FirstGiven(<<Normalize(Get(item, "language")), feed.language>>),
        tags |-> Sorted(Get(item, "tags")),
        enclosures |-> Usable(feed.siteURL, Get(item, "attachments"))]

jsonFeed(channel, elements, baseURL) ==
    LET own == FirstGiven(<<TrimSpace(Get(channel, "feedURL")), baseURL>>)
        home == FirstGiven(<<TrimSpace(Get(channel, "homePageURL")), own>>)
        siteURL == ResolvedOr(baseURL, home, home)
        feed == [title |-> FirstGiven(<<TrimSpace(Get(channel, "title")), siteURL>>),
                 siteURL |-> siteURL, feedURL |-> ResolvedOr(baseURL, own, own),
                 iconURL |-> FirstGiven(Usable(siteURL, <<Get(channel, "favicon"), Get(channel, "icon")>>)),
                 language |-> Normalize(Get(channel, "language")), entries |-> <<>>]
    IN [feed EXCEPT !.entries = [i \in DOMAIN elements |-> jsonEntry(channel, feed, elements[i])]]

rdfEntry(channel, feed, item) ==
    LET link == TrimSpace(Get(item, "link"))
        url == ResolvedOr(feed.siteURL, link, link)
        title == FirstGiven(<<TrimSpace(Get(item, "title")), TrimSpace(Get(item, "dcTitle"))>>)
    IN [url |-> url,
        title |-> FirstGiven(<<UnescapeString(title), url>>),
        content |-> FirstGiven(<<Get(item, "dcContent"), Get(item, "description")>>),
        hash |-> Hash(IF link # Missing THEN link ELSE Get(item, "title") \o Get(item, "description")),
        author |-> Sorted(<<StripTags(FirstGiven(<<Get(item, "dcCreator"), Get(channel, "dcCreator")>>))>>),
        date |-> FirstDate(<<Get(item, "dcDate")>>),
        language |-> FirstGiven(<<Normalize(Get(item, "dcLanguage")), feed.language>>),
        tags |-> {}, enclosures |-> <<>>]

rdfFeed(channel, elements, baseURL) ==
    LET siteURL == ResolvedOr(baseURL, TrimSpace(Get(channel, "link")), TrimSpace(Get(channel, "link")))
        feed == [title |-> FirstGiven(<<StripTags(Get(channel, "title")), baseURL>>),
                 siteURL |-> siteURL, feedURL |-> baseURL, iconURL |-> Missing,
                 language |-> Normalize(Get(channel, "dcLanguage")), entries |-> <<>>]
    IN [feed EXCEPT !.entries = [i \in DOMAIN elements |-> rdfEntry(channel, feed, elements[i])]]

---------------------------------------------------------------------------
(* The formats are told apart by a document's first elements.              *)

maxTokensToConsider == 50
DetectFeedFormat(document) ==
    CASE document.root = "{" -> "json"
      [] document.root \in {"rss", "feed", "RDF"} /\ document.preamble < maxTokensToConsider -> document.root
      [] OTHER -> "unknown"

NoFeed == [entries |-> <<>>]
ParseFeed(baseURL, document) ==
    LET format == DetectFeedFormat(document)
    IN CASE format = "rss" -> rssFeed(document.channel, document.items, baseURL)
         [] format = "feed" -> atomFeed(document.channel, document.items, baseURL, document.version)
         [] format = "json" -> jsonFeed(document.channel, document.items, baseURL)
         [] format = "RDF" -> rdfFeed(document.channel, document.items, baseURL)
         [] OTHER -> NoFeed

---------------------------------------------------------------------------
(* The publisher, and what is stored of the feed.                          *)

Rewritten(a) == [a EXCEPT !.title = <<"new">>, !.content = <<"new">>]
Drafts == Articles \cup {Rewritten(a) : a \in Articles}
Selections == UNION {[1..n -> Drafts] : n \in 0..MaxItems}

\* Where a format puts what identifies an article: its identity, or the link
\* of an article that has none.
Holds(document, element, a) ==
    LET none == a.id = Missing
        link == TrimSpace(a.url)
    IN CASE document.root = "rss" ->
              Get(element, "guid") = a.id /\ (none => findEntryURL(element) = link)
         [] document.root = "feed" ->
              /\ Get(element, "id") = a.id
              /\ none => originalLink(Get(element, "links")) = link
         [] document.root = "{" ->
              /\ TrimSpace(Get(element, "id")) = a.id
              /\ none => link = TrimSpace(Get(element, IF TrimSpace(Get(element, "url")) # Missing
                                                      THEN "url" ELSE "externalURL"))
         [] OTHER -> none => TrimSpace(Get(element, "link")) = link

\* The publisher writes every article, in every format, with its identity.
FormatsAssumption ==
    /\ MaxItems \in Nat
    /\ \A a \in Articles : {"key", "id", "url"} \subseteq DOMAIN a
    /\ \A a, b \in Articles : a.key = b.key => a = b
    /\ \A d \in Dialects, s \in {Sites[1], Sites[2]}, selection \in Selections :
           LET document == Written(d, s, selection)
           IN /\ DetectFeedFormat(document) # "unknown"
              /\ DOMAIN document.items = DOMAIN selection
              /\ \A i \in DOMAIN selection : Holds(document, document.items[i], selection[i])
ASSUME FormatsAssumption

FeedURL == site \o <<"/feed">>
Parsed == ParseFeed(FeedURL, Written(dialect, site, items))

RDF == Written(dialect, site, items).root = "RDF"
\* What identifies an article for good, whatever becomes of the feed; RDF
\* has links only.
Identity(a) == FirstGiven(<<a.id, TrimSpace(a.url)>>)
Identified(a) == Identity(a) # Missing /\ ~\E b \in Articles : b.key # a.key /\ Identity(b) = Identity(a)

FormatsInit ==
    /\ items = <<>> /\ edited = FALSE /\ dialect \in Dialects
    /\ site = Sites[1] /\ followed \in {a \in Articles : Identified(a)}
    /\ known = Missing /\ hidden = FALSE

Publish ==
    \E a \in Articles :
        /\ \A i \in DOMAIN items : items[i].key # a.key
        /\ items' = SubSeq(<<a>> \o items, 1, IF Len(items) < MaxItems THEN Len(items) + 1 ELSE MaxItems)
        /\ UNCHANGED <<edited, dialect, site, followed, known, hidden>>
Reorder ==
    /\ items' = [i \in DOMAIN items |-> items[Len(items) + 1 - i]]
    /\ UNCHANGED <<edited, dialect, site, followed, known, hidden>>
Rewrite ==
    /\ ~edited /\ edited' = TRUE
    /\ items' = [i \in DOMAIN items |-> Rewritten(items[i])]
    /\ UNCHANGED <<dialect, site, followed, known, hidden>>
Convert == dialect' \in Dialects /\ UNCHANGED <<items, edited, site, followed, known, hidden>>
Move == site = Sites[1] /\ site' = Sites[2] /\ UNCHANGED <<items, edited, dialect, followed, known, hidden>>

\* A refresh stores under its hash what was not stored before.
Position == CHOOSE i \in DOMAIN items : items[i].key = followed.key
InFeed == \E i \in DOMAIN items : items[i].key = followed.key
Refresh ==
    /\ InFeed /\ known = Missing
    /\ known' = Parsed.entries[Position].hash /\ hidden' = RDF
    /\ UNCHANGED <<items, edited, dialect, site, followed>>

FormatsNext == Publish \/ Reorder \/ Rewrite \/ Convert \/ Move \/ Refresh
FormatsSpec == FormatsInit /\ [][FormatsNext]_formatVars

---------------------------------------------------------------------------
(* Properties.                                                             *)

\* An article with an identity of its own keeps the hash under which it was
\* first stored, and so stays one entry with its marks, when the publisher
\* rewrites it, puts others before it, moves the site or changes to another
\* format, unless RDF hides the identity (rss/adapter.go:131-159,
\* atom_10_adapter.go:170-176, atom_03_adapter.go:118-124,
\* json/adapter.go:187-194, rdf/adapter.go:75-81).
ItemsKeepTheirHash ==
    InFeed /\ known # Missing
    => \/ Parsed.entries[Position].hash = known
       \/ followed.id # Missing /\ (RDF \/ hidden)

\* What the format in use can say of an article.
Carried(a) ==
    {"content", "author", "date", "language"}
    \cup (IF a.url # Missing THEN {"url"} ELSE {})
    \cup (IF a.title # Missing \/ (a.url # Missing /\ ~RDF) THEN {"title"} ELSE {})
    \cup (IF RDF \/ Written(dialect, site, items).version = "0.3" THEN {} ELSE {"tags", "enclosures"})
Meant(a) ==
    [url |-> ResolvedOr(site, TrimSpace(a.url), TrimSpace(a.url)),
     title |-> FirstGiven(<<TrimSpace(a.title), TruncateHTML(a.content),
                         Resolve(site, TrimSpace(a.url))>>),
     content |-> a.content, date |-> FirstDate(<<a.date>>),
     author |-> Sorted(<<FirstGiven(<<a.author, Channel.author>>)>>),
     language |-> FirstGiven(<<Normalize(a.language), Normalize(Channel.language)>>),
     tags |-> IF a.tags # <<>> THEN Sorted(a.tags) ELSE Sorted(Channel.tags),
     enclosures |-> {Usable(site, a.media)[i] : i \in DOMAIN Usable(site, a.media)}]
AsMeant(entry) ==
    [entry EXCEPT !.title = UnescapeString(@), !.enclosures = {@[i] : i \in DOMAIN @}]

\* Whatever elements of whatever format a publisher uses for the parts of
\* its articles, the fallbacks of the parsers end at the same entry: the
\* one that was meant (the find functions of rss/adapter.go:180-442,
\* atom_common.go and the other adapters).
FormatsAgree ==
    LET entries == Parsed.entries
    IN \A i \in DOMAIN items :
           LET entry == AsMeant(entries[i])
               meant == Meant(items[i])
           IN \A field \in Carried(items[i]) : entry[field] = meant[field]
=============================================================================
