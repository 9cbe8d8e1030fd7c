------------------------------- MODULE MCFeeds -------------------------------
(***************************************************************************)
(* Articles to publish, and how feeds in the wild hold them: one dialect   *)
(* for every place where the parsers look for a part of an entry.          *)
(***************************************************************************)
EXTENDS Naturals, Sequences, TLC

FeedSites == <<<<"http:", "old">>, <<"http:", "new">>>>
FeedChannel == [title |-> <<"Blog">>, author |-> <<"staff">>, language |-> <<"en_US">>,
                tags |-> <<<<"news">>>>, icon |-> <<"/icon">>]
FeedDates == {<<"monday">>}
FeedLanguages == (<<"en_US">> :> <<"en-us">>) @@ (<<"FR">> :> <<"fr">>)

Article(key, id, url, title) ==
    [key |-> key, id |-> id, url |-> url, title |-> title, content |-> <<"x", "&amp;", "y">>,
     author |-> <<>>, date |-> <<"someday">>, language |-> <<"FR">>, tags |-> <<>>, media |-> <<>>]
Rich(article) ==
    [article EXCEPT !.author = <<"ann">>, !.date = <<" ", "monday">>, !.language = <<"no tag!">>,
         !.content = <<"<b>">> \o @,
         !.tags = <<<<"b">>, <<" ", "a">>, <<"b", " ">>, <<" ">>>>,
         !.media = <<<<"/m">>, <<" ", "/m">>, <<>>, <<"http:", "cdn", "/n">>>>]

\* The fourth and the fifth share their identity; the sixth has no link.
FeedArticles ==
    {Rich(Article(1, <<"tag:1">>, <<"/1">>, <<" ", "One", "&">>)),
     Article(2, <<>>, <<" ", "/2">>, <<>>),
     Rich(Article(3, <<"http:", "old", "/3">>, <<"http:", "old", "/3">>, <<>>)),
     Article(4, <<"same">>, <<"/4">>, <<"Four">>),
     Article(5, <<"same">>, <<>>, <<"Five">>),
     Article(6, <<"tag:6">>, <<>>, <<"Six">>)}

FeedDialects ==
    {"rss", "podcast", "play", "blog", "burner", "media", "atom", "atom media", "atom 0.3", "json",
     "json text", "rdf", "rdf dc"}

Link(rel, type, href) == [rel |-> rel, type |-> type, href |-> href]
Attached(a) == [i \in DOMAIN a.media |-> Link("enclosure", "", a.media[i])]
First(media) == IF media = <<>> THEN <<>> ELSE <<media[1]>>
Holding(name, of) == [i \in DOMAIN of |-> name :> of[i]]
Person(name) == IF name = <<>> THEN <<>> ELSE <<"email" :> name>>
Escaped(content) == [i \in DOMAIN content |-> IF content[i] = "&" THEN "&amp;" ELSE content[i]]
PlainOf(content) ==
    [i \in DOMAIN content |-> IF content[i] = "&amp;" THEN "&" ELSE content[i]]
Doc(root, channel, elements) ==
    [root |-> root, version |-> "", preamble |-> 49, channel |-> channel, items |-> elements]

RSSItem(d, a) ==
    "guid" :> a.id @@ "isPermaLink" :> (IF a.id = a.url THEN <<>> ELSE <<"false">>) @@
    CASE d = "rss" ->
           "title" :> a.title @@ "link" :> a.url @@ "description" :> a.content @@ "author" :> a.author
           @@ "pubDate" :> a.date @@ "dcLanguage" :> a.language @@ "categories" :> a.tags
           @@ "enclosures" :> a.media
      [] d = "podcast" ->
           "title" :> a.title @@ "links" :> <<Link("self", "", <<"/x">>), Link("", "", a.url)>>
           @@ "itunesSummary" :> a.content @@ "itunesSubtitle" :> <<"less">>
           @@ "itunesAuthor" :> a.author @@ "dcDate" :> a.date @@ "pubDate" :> <<"monday", "?">>
           @@ "dcLanguage" :> a.language @@ "categories" :> a.tags @@ "enclosures" :> a.media
      [] d = "play" ->
           "dcTitle" :> a.title @@ "title" :> (IF a.title = <<>> THEN <<>> ELSE <<"Play">>) @@ "gpDescription" :> a.content
           @@ "itunesSummary" :> <<"less">> @@ "gpAuthor" :> a.author @@ "pubDate" :> a.date
           @@ "links" :> (IF a.id = a.url THEN <<>> ELSE <<Link("alternate", "", a.url)>>)
           @@ "dcLanguage" :> a.language @@ "mediaCategories" :> a.tags @@ "peerLinks" :> a.media
      [] d = "blog" ->
           "title" :> a.title @@ "link" :> a.url @@ "dcContent" :> a.content
           @@ "description" :> <<"less">> @@ "dcCreator" :> a.author @@ "pubDate" :> a.date
           @@ "dcLanguage" :> a.language @@ "categories" :> a.tags @@ "contents" :> a.media
      [] d = "burner" ->
           "title" :> a.title @@ "feedBurnerLink" :> a.url @@ "link" :> <<"http:", "burner", "/x">>
           @@ "description" :> a.content @@ "atomAuthor" :> a.author @@ "pubDate" :> a.date
           @@ "dcLanguage" :> a.language @@ "categories" :> a.tags
           @@ "feedBurnerEnclosureLink" :> <<"http:", "cdn", "/n">>
           @@ "enclosures" :> [i \in DOMAIN a.media |->
                  IF a.media[i] = <<"http:", "cdn", "/n">> THEN <<"http:", "burner", "/n">>
                  ELSE a.media[i]]
      [] d = "media" ->
           "title" :> a.title @@ "link" :> a.url @@ "description" :> a.content @@ "author" :> a.author
           @@ "pubDate" :> a.date @@ "dcLanguage" :> a.language @@ "mediaCategories" :> a.tags
           @@ "thumbnails" :> First(a.media) @@ "groups" :> <<"contents" :> a.media>>

RSSChannel(d, link) ==
    "title" :> FeedChannel.title @@ "link" :> link @@ "image" :> FeedChannel.icon @@
    CASE d = "podcast" ->
           "itunesOwner" :> FeedChannel.author @@ "language" :> FeedChannel.language
           @@ "itunesCategories" :> FeedChannel.tags
      [] d = "play" ->
           "gpAuthor" :> FeedChannel.author @@ "dcLanguage" :> FeedChannel.language
           @@ "gpCategory" :> FeedChannel.tags[1]
      [] d = "blog" ->
           "managingEditor" :> FeedChannel.author @@ "dcLanguage" :> FeedChannel.language
           @@ "categories" :> FeedChannel.tags
      [] OTHER ->
           "webmaster" :> FeedChannel.author @@ "language" :> FeedChannel.language
           @@ "categories" :> FeedChannel.tags

AtomItem(d, a) ==
    "id" :> a.id @@ "authors" :> Person(a.author) @@ "language" :> a.language
    @@ "links" :> Attached(a)
                  \o <<Link("", IF d = "atom" THEN "text/html" ELSE "", a.url)>> @@
    CASE d = "atom" ->
           "title" :> ("type" :> <<"cdata">> @@ "data" :> Escaped(a.title))
           @@ "content" :> ("data" :> a.content) @@ "published" :> a.date
           @@ "categories" :> Holding("term", a.tags)
      [] d = "atom media" ->
           "title" :> ("data" :> a.title) @@ "descriptions" :> <<a.content>> @@ "updated" :> a.date
           @@ "published" :> <<" ">> @@ "categories" :> Holding("label", a.tags)
           @@ "thumbnails" :> First(a.media) @@ "groups" :> <<"contents" :> a.media>>
      [] d = "atom 0.3" ->
           "title" :> ("data" :> a.title) @@ "issued" :> a.date
           @@ "summary" :> ("data" :> a.content @@ "type" :> <<"text/html">>)
AtomChannel(link) ==
    "title" :> ("data" :> FeedChannel.title) @@ "authors" :> <<"name" :> FeedChannel.author>>
    @@ "language" :> FeedChannel.language @@ "icon" :> FeedChannel.icon
    @@ "links" :> <<Link("self", "", <<"/feed">>), Link("alternate", "", link)>>
    @@ "categories" :> Holding("term", FeedChannel.tags)

JSONItem(d, a) ==
    "id" :> a.id @@ "title" :> a.title @@ "language" :> a.language
    @@ "tags" :> (IF a.tags = <<>> THEN FeedChannel.tags ELSE a.tags)
    @@ "attachments" :> a.media
    @@ "authors" :> (IF a.author = <<>> THEN <<FeedChannel.author>> ELSE <<a.author>>) @@
    (IF d = "json" THEN "url" :> a.url @@ "datePublished" :> a.date
     ELSE "externalURL" :> a.url @@ "dateModified" :> a.date) @@
    (IF d = "json" \/ "<b>" \in {a.content[i] : i \in DOMAIN a.content}
     THEN "contentHTML" :> a.content ELSE "contentText" :> PlainOf(a.content))
JSONChannel(link) ==
    "title" :> FeedChannel.title @@ "homePageURL" :> link @@ "language" :> FeedChannel.language
    @@ "favicon" :> FeedChannel.icon

RDFItem(d, a) ==
    "link" :> a.url @@ "dcCreator" :> a.author @@ "dcDate" :> a.date @@ "dcLanguage" :> a.language @@
    IF d = "rdf" THEN "title" :> a.title @@ "description" :> a.content
    ELSE "dcTitle" :> a.title @@ "dcContent" :> a.content
RDFChannel(link) ==
    "title" :> FeedChannel.title @@ "link" :> link @@ "dcCreator" :> FeedChannel.author
    @@ "dcLanguage" :> FeedChannel.language

WriteFeed(d, link, articles) ==
    LET each(Item(_, _)) == [i \in DOMAIN articles |-> Item(d, articles[i])]
    IN CASE d \in {"atom", "atom media"} -> Doc("feed", AtomChannel(link), each(AtomItem))
         [] d = "atom 0.3" -> [Doc("feed", AtomChannel(link), each(AtomItem)) EXCEPT !.version = "0.3"]
         [] d \in {"json", "json text"} -> Doc("{", JSONChannel(link), each(JSONItem))
         [] d \in {"rdf", "rdf dc"} -> Doc("RDF", RDFChannel(link), each(RDFItem))
         [] OTHER -> Doc("rss", RSSChannel(d, link), each(LAMBDA e, a : RSSItem(e, a)))
=============================================================================
