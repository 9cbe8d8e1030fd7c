------------------------------ MODULE RestApi ------------------------------
(***************************************************************************)
(* The REST API (internal/api) and its client (client/), from a call of a  *)
(* client's method to what the method returns: the request is sent, routed *)
(* and authenticated, a handler looks at the database and answers or goes  *)
(* on to its statements, one after the other, and the client makes a       *)
(* result of the status.  Calls of several clients meet between any two of *)
(* these steps.                                                            *)
(*                                                                         *)
(* The database is one record of tables, a table a function from the ids   *)
(* of its rows.  Rows have the columns that calls tell apart; the columns  *)
(* of settings, for instance, are all treated alike and stand for one.     *)
(* What refreshes, pages to scrape, integrations, imports of OPML and      *)
(* searches do is the matter of other modules.                             *)
(***************************************************************************)
EXTENDS Naturals, Sequences, FiniteSets, TLC

CONSTANTS
    Callers,            \* uses of the client, each for one call
    Credentials,        \* what a client may identify itself with
    CallsOf(_),         \* the calls that may be made with a credential
    StartDbs,           \* the databases to start from
    DisableLocalAuth,   \* DISABLE_LOCAL_AUTH
    Lower(_),           \* lower() of a name or a title
    TitlesInOrder(_, _), \* the order of titles
    Refused,            \* the values that the validators refuse: empty, too short, not in a list
    Sanitized(_)        \* what sanitizing leaves of a content

VARIABLES
    apiDb,      \* the database
    apiCall,    \* the call of each client
    apiJobs     \* goroutines of handlers that have answered

apiVars == <<apiDb, apiCall, apiJobs>>

Tables == {"users", "keys", "categories", "feeds", "entries", "media"}
None == 0
NoChanges == [x \in {} |-> None]

\* A record or a table with the changes that take the place of what it has.
\* (TLC's @@ is the same; the provers know nothing of it.)
changes ++ row ==
    [x \in DOMAIN changes \cup DOMAIN row |-> IF x \in DOMAIN changes THEN changes[x] ELSE row[x]]

---------------------------------------------------------------------------
(* The client.                                                             *)

\* The request that a method sends, and whether it reads the answer's body:
\* "#" is a number, "@" the name of a user.
Request(verb, path, reads) == [verb |-> verb, path |-> path, reads |-> reads]

UserCalls ==
    [Version |-> Request("GET", <<"version">>, TRUE),
     Me |-> Request("GET", <<"me">>, TRUE),
     Users |-> Request("GET", <<"users">>, TRUE),
     UserByID |-> Request("GET", <<"users", "#">>, TRUE),
     UserByUsername |-> Request("GET", <<"users", "@">>, TRUE),
     CreateUser |-> Request("POST", <<"users">>, TRUE)]
AccountCalls ==
    [UpdateUser |-> Request("PUT", <<"users", "#">>, TRUE),
     DeleteUser |-> Request("DELETE", <<"users", "#">>, FALSE),
     APIKeys |-> Request("GET", <<"api-keys">>, TRUE),
     CreateAPIKey |-> Request("POST", <<"api-keys">>, TRUE),
     DeleteAPIKey |-> Request("DELETE", <<"api-keys", "#">>, FALSE),
     MarkAllAsRead |-> Request("PUT", <<"users", "#", "mark-all-as-read">>, FALSE),
     IntegrationsStatus |-> Request("GET", <<"integrations", "status">>, TRUE)]
\* The methods that have more options send the same requests.
CategoryCalls ==
    [Discover |-> Request("POST", <<"discover">>, TRUE),
     Categories |-> Request("GET", <<"categories">>, TRUE),
     CreateCategory |-> Request("POST", <<"categories">>, TRUE),
     UpdateCategory |-> Request("PUT", <<"categories", "#">>, TRUE)]
CategoryContentCalls ==
    [MarkCategoryAsRead |-> Request("PUT", <<"categories", "#", "mark-all-as-read">>, FALSE),
     CategoryFeeds |-> Request("GET", <<"categories", "#", "feeds">>, TRUE),
     DeleteCategory |-> Request("DELETE", <<"categories", "#">>, FALSE),
     RefreshCategory |-> Request("PUT", <<"categories", "#", "refresh">>, FALSE),
     Feeds |-> Request("GET", <<"feeds">>, TRUE),
     Export |-> Request("GET", <<"export">>, TRUE)]
FeedCalls ==
    [Feed |-> Request("GET", <<"feeds", "#">>, TRUE),
     CreateFeed |-> Request("POST", <<"feeds">>, TRUE),
     UpdateFeed |-> Request("PUT", <<"feeds", "#">>, TRUE),
     ImportFeedEntry |-> Request("POST", <<"feeds", "#", "entries", "import">>, TRUE),
     MarkFeedAsRead |-> Request("PUT", <<"feeds", "#", "mark-all-as-read">>, FALSE),
     RefreshAllFeeds |-> Request("PUT", <<"feeds", "refresh">>, FALSE)]
FeedContentCalls ==
    [RefreshFeed |-> Request("PUT", <<"feeds", "#", "refresh">>, FALSE),
     DeleteFeed |-> Request("DELETE", <<"feeds", "#">>, FALSE),
     FeedIcon |-> Request("GET", <<"feeds", "#", "icon">>, TRUE),
     FeedEntry |-> Request("GET", <<"feeds", "#", "entries", "#">>, TRUE),
     CategoryEntry |-> Request("GET", <<"categories", "#", "entries", "#">>, TRUE),
     Entry |-> Request("GET", <<"entries", "#">>, TRUE),
     EntryIDs |-> Request("GET", <<"entries", "ids">>, TRUE)]
ListingCalls ==
    [Entries |-> Request("GET", <<"entries">>, TRUE),
     FeedEntries |-> Request("GET", <<"feeds", "#", "entries">>, TRUE),
     CategoryEntries |-> Request("GET", <<"categories", "#", "entries">>, TRUE),
     UpdateEntries |-> Request("PUT", <<"entries">>, FALSE),
     UpdateEntriesStarred |-> Request("PUT", <<"entries">>, FALSE),
     UpdateEntry |-> Request("PUT", <<"entries", "#">>, TRUE)]
EntryCalls ==
    [ToggleStarred |-> Request("PUT", <<"entries", "#", "star">>, FALSE),
     SaveEntry |-> Request("POST", <<"entries", "#", "save">>, FALSE),
     FetchEntryOriginalContent |-> Request("GET", <<"entries", "#", "fetch-content">>, TRUE),
     FetchCounters |-> Request("GET", <<"feeds", "counters">>, TRUE),
     FlushHistory |-> Request("PUT", <<"flush-history">>, FALSE),
     Icon |-> Request("GET", <<"icons", "#">>, TRUE),
     Enclosure |-> Request("GET", <<"enclosures", "#">>, TRUE),
     UpdateEnclosure |-> Request("PUT", <<"enclosures", "#">>, FALSE)]

ClientCalls ==
    UserCalls ++ AccountCalls ++ CategoryCalls ++ CategoryContentCalls
    ++ FeedCalls ++ FeedContentCalls ++ ListingCalls ++ EntryCalls

\* What a method makes of a status: a body that is not there breaks the
\* methods that read it.
Received(method, status) ==
    CASE status = 401 -> "ErrNotAuthorized"
      [] status = 403 -> "ErrForbidden"
      [] status = 404 -> "ErrNotFound"
      [] status = 400 -> "ErrBadRequest"
      [] status = 500 -> "ErrServerError"
      [] status \in {202, 204} /\ ClientCalls[method].reads -> "broken"
      [] OTHER -> "nil"

---------------------------------------------------------------------------
(* The routes: "*" stands for any segment.                                 *)

Routes ==
    {<<"POST", <<"users">>, "createUser">>, <<"GET", <<"users">>, "users">>,
     <<"GET", <<"users", "*">>, "dispatchUserLookup">>, <<"PUT", <<"users", "*">>, "updateUser">>,
     <<"DELETE", <<"users", "*">>, "removeUser">>,
     <<"PUT", <<"users", "*", "mark-all-as-read">>, "markUserAsRead">>, <<"GET", <<"me">>, "currentUser">>,
     <<"POST", <<"categories">>, "createCategory">>, <<"GET", <<"categories">>, "getCategories">>,
     <<"PUT", <<"categories", "*">>, "updateCategory">>,
     <<"DELETE", <<"categories", "*">>, "removeCategory">>,
     <<"PUT", <<"categories", "*", "mark-all-as-read">>, "markCategoryAsRead">>,
     <<"GET", <<"categories", "*", "feeds">>, "getCategoryFeeds">>,
     <<"PUT", <<"categories", "*", "refresh">>, "refreshCategory">>,
     <<"GET", <<"categories", "*", "entries">>, "getCategoryEntries">>,
     <<"GET", <<"categories", "*", "entries", "*">>, "getCategoryEntry">>,
     <<"POST", <<"discover">>, "discoverSubscriptions">>, <<"POST", <<"feeds">>, "createFeed">>,
     <<"GET", <<"feeds">>, "getFeeds">>, <<"GET", <<"feeds", "counters">>, "fetchCounters">>,
     <<"PUT", <<"feeds", "refresh">>, "refreshAllFeeds">>,
     <<"PUT", <<"feeds", "*", "refresh">>, "refreshFeed">>, <<"GET", <<"feeds", "*">>, "getFeed">>,
     <<"PUT", <<"feeds", "*">>, "updateFeed">>, <<"DELETE", <<"feeds", "*">>, "removeFeed">>,
     <<"GET", <<"feeds", "*", "icon">>, "getIconByFeedID">>,
     <<"PUT", <<"feeds", "*", "mark-all-as-read">>, "markFeedAsRead">>,
     <<"GET", <<"export">>, "exportFeeds">>, <<"POST", <<"import">>, "importFeeds">>,
     <<"GET", <<"feeds", "*", "entries">>, "getFeedEntries">>,
     <<"POST", <<"feeds", "*", "entries", "import">>, "importFeedEntry">>,
     <<"GET", <<"feeds", "*", "entries", "*">>, "getFeedEntry">>,
     <<"GET", <<"entries", "ids">>, "getEntryIDs">>, <<"GET", <<"entries">>, "getEntries">>,
     <<"PUT", <<"entries">>, "setEntryStatusAndStarred">>, <<"GET", <<"entries", "*">>, "getEntry">>,
     <<"PUT", <<"entries", "*">>, "updateEntry">>,
     <<"PUT", <<"entries", "*", "bookmark">>, "toggleStarred">>,
     <<"PUT", <<"entries", "*", "star">>, "toggleStarred">>,
     <<"POST", <<"entries", "*", "save">>, "saveEntry">>,
     <<"GET", <<"entries", "*", "fetch-content">>, "fetchContent">>,
     <<"GET", <<"entries", "*", "comments">>, "getComments">>,
     <<"PUT", <<"flush-history">>, "flushHistory">>, <<"DELETE", <<"flush-history">>, "flushHistory">>,
     <<"GET", <<"icons", "*">>, "getIconByIconID">>,
     <<"GET", <<"enclosures", "*">>, "getEnclosureByID">>,
     <<"PUT", <<"enclosures", "*">>, "updateEnclosureByID">>,
     <<"GET", <<"integrations", "status">>, "getIntegrationsStatus">>,
     <<"GET", <<"version">>, "version">>, <<"POST", <<"api-keys">>, "createAPIKey">>,
     <<"GET", <<"api-keys">>, "getAPIKeys">>, <<"DELETE", <<"api-keys", "*">>, "deleteAPIKey">>}

Fits(path, pattern) ==
    Len(path) = Len(pattern) /\ \A i \in DOMAIN path : pattern[i] \in {"*", path[i]}

\* http.ServeMux: of the patterns that fit, the most specific one.
RouteOf(request) ==
    LET fitting == {r \in Routes : r[1] = request.verb /\ Fits(request.path, r[2])}
    IN IF fitting = {} THEN "none"
       ELSE (CHOOSE r \in fitting : \A other \in fitting : Fits(r[2], other[2]))[3]

HandlerOf == [method \in DOMAIN ClientCalls |-> RouteOf(ClientCalls[method])]

---------------------------------------------------------------------------
(* The database.                                                           *)

\* Foreign keys: a row goes with the rows that it refers to (ON DELETE
\* CASCADE), and cannot be written without them.
WithParents(d) ==
    LET feeds == {f \in DOMAIN d.feeds :
                     /\ d.feeds[f].owner \in DOMAIN d.users
                     /\ d.feeds[f].category \in DOMAIN d.categories
                     /\ d.categories[d.feeds[f].category].owner \in DOMAIN d.users}
        entries == {e \in DOMAIN d.entries : d.entries[e].feed \in feeds /\ d.entries[e].owner \in DOMAIN d.users}
        Only(table, ids) == [i \in ids |-> table[i]]
        OfUsers(table) == Only(table, {i \in DOMAIN table : table[i].owner \in DOMAIN d.users})
    IN [d EXCEPT !.keys = OfUsers(@), !.categories = OfUsers(@),
                 !.feeds = Only(@, feeds), !.entries = Only(@, entries),
                 !.media = Only(@, {m \in DOMAIN @ : @[m].entry \in entries}),
                 !.graves = {g \in @ : g[1] \in feeds}]

Removed(d, table, ids) ==
    WithParents([d EXCEPT ![table] = [i \in DOMAIN @ \ ids |-> @[i]]])

\* A statement succeeds with a database, or fails: none.
Committed(d) == IF WithParents(d) = d THEN {d} ELSE {}
Put(d, table, id, row) == [d EXCEPT ![table] = [i \in {id} |-> row] ++ @]

\* The rows of a table that a user owns.
Own(d, table, user) == {i \in DOMAIN d[table] : d[table][i].owner = user}
Unless(broken, d) == IF broken THEN {} ELSE Committed(d)

\* What the request says replaces what the row has; a feed keeps a text that
\* the request has empty, and forgets its errors.
PatchUser(row, changes) == changes ++ row
PatchCategory(row, changes) == changes ++ row
PatchFeed(row, changes) ==
    LET empty == {column \in DOMAIN changes \cap {"url", "title"} : changes[column] = ""}
    IN [errors |-> 0] ++ [column \in DOMAIN changes \ empty |-> changes[column]] ++ row
PatchEntry(row, changes) == changes ++ row
Marked(d, ids, column, value) ==
    [d EXCEPT !.entries = [e \in DOMAIN @ |->
                              IF e \in ids THEN [@[e] EXCEPT ![column] = value] ELSE @[e]]]

\* Ids are serial: those of the rows that a call creates are its own.
NewId(c) == 10 * c

\* What hangs on a row is its owner's.
FiledAtHome(d) ==
    /\ \A f \in DOMAIN d.feeds : d.categories[d.feeds[f].category].owner = d.feeds[f].owner
    /\ \A e \in DOMAIN d.entries : d.feeds[d.entries[e].feed].owner = d.entries[e].owner
    /\ \A m \in DOMAIN d.media : d.entries[d.media[m].entry].owner = d.media[m].owner

\* Names of users are in lower case, and an entry's hash is the only one in its
\* feed.
Tidy(d) ==
    /\ \A u \in DOMAIN d.users : "name" \in DOMAIN d.users[u] /\ Lower(d.users[u].name) = d.users[u].name
    /\ \A e \in DOMAIN d.entries :
          {"hash", "title", "content", "starred"} \subseteq DOMAIN d.entries[e] /\ d.entries[e].starred \in BOOLEAN
    /\ \A e, other \in DOMAIN d.entries :
          d.entries[e].feed = d.entries[other].feed /\ d.entries[e].hash = d.entries[other].hash => e = other

\* What the client's methods put into a body: the fields that one must have or
\* may have.  No request names the owner of a row, or the row that it hangs
\* on, but for a feed's category; the validators refuse empty texts of feeds.
Formed(call) ==
    LET body == call.body
        Has(columns) == DOMAIN body = columns
        Only(columns) == DOMAIN body \subseteq columns
        ByMethod ==
          CASE call.method = "CreateUser" -> Has({"name", "password", "admin"})
            [] call.method = "UpdateUser" -> Only({"name", "password", "admin", "theme"})
            [] call.method = "CreateCategory" -> Has({"title"})
            [] call.method = "CreateFeed" -> Only({"url", "category"}) /\ "url" \in DOMAIN body
            [] call.method = "UpdateFeed" ->
                  /\ Only({"url", "title", "category"})
                  /\ \A column \in DOMAIN body \cap {"url", "title"} : body[column] = "" => body[column] \in Refused
            [] call.method = "UpdateEntries" -> Has({"ids", "unread"})
            [] call.method = "UpdateEntriesStarred" -> Has({"ids", "starred"})
            [] call.method = "UpdateEntry" -> Only({"title", "content"})
            [] call.method = "ImportFeedEntry" -> Has({"hash", "title", "content", "unread", "starred"})
            [] call.method = "CreateAPIKey" -> Has({"description"})
            [] call.method = "FeedEntries" -> call.of # None
            [] OTHER -> TRUE
    IN /\ call.method \in DOMAIN ClientCalls
       /\ {"owner", "feed", "entry"} \cap DOMAIN body = {}
       /\ "name" \in DOMAIN body => Lower(Lower(body.name)) = Lower(body.name)
       /\ "starred" \in DOMAIN body => body.starred \in BOOLEAN
       /\ ByMethod

ASSUME ApiAssumption ==
    /\ Callers \subseteq Nat \ {None}
    /\ \A credential \in Credentials : \A call \in CallsOf(credential) :
          DOMAIN call = {"method", "of", "under", "body"} /\ Formed(call)
    /\ \A d \in StartDbs :
          /\ DOMAIN d = Tables \cup {"graves"}
          /\ \A i \in DOMAIN d.categories : "owner" \in DOMAIN d.categories[i]
          /\ \A f \in DOMAIN d.feeds : {"owner", "category"} \subseteq DOMAIN d.feeds[f]
          /\ \A e \in DOMAIN d.entries : {"owner", "feed"} \subseteq DOMAIN d.entries[e]
          /\ \A m \in DOMAIN d.media : {"owner", "entry"} \subseteq DOMAIN d.media[m]
          /\ WithParents(d) = d /\ FiledAtHome(d) /\ Tidy(d)
          /\ \A c \in Callers, table \in Tables : NewId(c) \notin DOMAIN d[table]

---------------------------------------------------------------------------
(* A call.                                                                 *)

\* before: what the database was when the call began, while nobody else has
\* changed it.
NoCall == [phase |-> "idle", method |-> "", of |-> None, under |-> None, body |-> NoChanges,
           by |-> None, user |-> None, admin |-> FALSE, row |-> NoChanges, todo |-> <<>>,
           status |-> None, before |-> {}]

Proceed(c, changes) == apiCall' = [apiCall EXCEPT ![c] = changes ++ @]
Reply(c, status) ==
    /\ Proceed(c, [phase |-> "answered", status |-> status, row |-> NoChanges, todo |-> <<>>])
    /\ UNCHANGED <<apiDb, apiJobs>>

\* The handler goes on to its statements, with the row that it has read.
GoOn(c, row, statements, status) ==
    /\ Proceed(c, [phase |-> "writing", row |-> row, todo |-> statements, status |-> status])
    /\ UNCHANGED <<apiDb, apiJobs>>

Begin(c) ==
    /\ apiCall[c].phase = "idle"
    /\ \E credential \in Credentials : \E call \in CallsOf(credential) :
          Proceed(c, call ++ [phase |-> "sent", by |-> credential, before |-> {apiDb}])
    /\ UNCHANGED <<apiDb, apiJobs>>

\* The identity that handlers work with is read once.
Enter(c, user) ==
    /\ Proceed(c, [phase |-> "inside", user |-> user, admin |-> apiDb.users[user].admin])
    /\ UNCHANGED <<apiDb, apiJobs>>

validateAPIKeyAuth(c) ==
    LET key == apiCall[c].by.key IN
    /\ apiCall[c].phase = "sent" /\ key # None
    /\ IF key \in DOMAIN apiDb.keys THEN Enter(c, apiDb.keys[key].owner) ELSE Reply(c, 401)

\* CheckPassword and UserByUsername are two statements.
UsersNamed(d, name) == {u \in DOMAIN d.users : d.users[u].name = Lower(name)}
CheckPassword(c) ==
    LET by == apiCall[c].by IN
    /\ apiCall[c].phase = "sent" /\ by.key = None
    /\ IF ~DisableLocalAuth /\ \E u \in UsersNamed(apiDb, by.name) : apiDb.users[u].password = by.password
       THEN Proceed(c, [phase |-> "known"]) /\ UNCHANGED <<apiDb, apiJobs>>
       ELSE Reply(c, 401)
validateBasicAuth(c) ==
    LET named == UsersNamed(apiDb, apiCall[c].by.name) IN
    /\ apiCall[c].phase = "known"
    /\ IF named = {} THEN Reply(c, 401) ELSE \E u \in named : Enter(c, u)

AtHandler(c, handlers) == apiCall[c].phase = "inside" /\ HandlerOf[apiCall[c].method] \in handlers
Answers(c, handler, found) == AtHandler(c, {handler}) /\ Reply(c, IF found THEN 200 ELSE 404)
IfAllowed(c, allowed, otherwise) == IF allowed THEN otherwise ELSE Reply(c, 403)

---------------------------------------------------------------------------
(* Validators.                                                             *)

Accepted(changes) == \A column \in DOMAIN changes : changes[column] \notin Refused
Named(changes, column) == column \in DOMAIN changes

\* UserExists and AnotherUserExists compare lower-cased names.
ValidateUserCreationWithPassword(q) == Accepted(q.body) /\ UsersNamed(apiDb, q.body.name) = {}
ValidateUserModification(q, id) ==
    /\ Accepted(q.body)
    /\ Named(q.body, "password") => ~DisableLocalAuth
    /\ Named(q.body, "name") => UsersNamed(apiDb, q.body.name) \subseteq {id}

\* Titles are compared without their case, which the table tells apart.
TitleTaken(q, title, id) ==
    \E i \in Own(apiDb, "categories", q.user) \ {id} : Lower(apiDb.categories[i].title) = Lower(title)
ValidateCategoryCreation(q) == Accepted(q.body) /\ ~TitleTaken(q, q.body.title, None)
ValidateCategoryModification(q, id) ==
    Accepted(q.body) /\ (Named(q.body, "title") => ~TitleTaken(q, q.body.title, id))

UrlTaken(q, url, id) == \E f \in Own(apiDb, "feeds", q.user) \ {id} : apiDb.feeds[f].url = url
\* Wrong: a category of anyone.
CategoryIDExistsAnywhere(q, id) == id \in DOMAIN apiDb.categories
CategoryIDExists(q, id) == id \in Own(apiDb, "categories", q.user)
ValidateFeedCreation(q, category) ==
    Accepted(q.body) /\ ~UrlTaken(q, q.body.url, None) /\ CategoryIDExists(q, category)
ValidateFeedModification(q, id) ==
    /\ Accepted(q.body)
    /\ Named(q.body, "url") => ~UrlTaken(q, q.body.url, id)
    /\ Named(q.body, "category") => CategoryIDExists(q, q.body.category)

ValidateAPIKeyCreation(q) ==
    /\ Accepted(q.body)
    /\ \A k \in Own(apiDb, "keys", q.user) : apiDb.keys[k].description # q.body.description

---------------------------------------------------------------------------
(* Handlers that change nothing.                                           *)

UserReads(c) ==
    LET q == apiCall[c]
        there == q.user \in DOMAIN apiDb.users
    IN \/ Answers(c, "currentUser", there)
       \/ Answers(c, "getIntegrationsStatus", there)
       \/ AtHandler(c, {"users"}) /\ IfAllowed(c, q.admin, Reply(c, 200))
dispatchUserLookup(c) ==
    LET q == apiCall[c]
        found == IF Named(q.body, "name") THEN UsersNamed(apiDb, q.body.name) ELSE {q.of} \cap DOMAIN apiDb.users
    IN AtHandler(c, {"dispatchUserLookup"}) /\ IfAllowed(c, q.admin, Reply(c, IF found = {} THEN 404 ELSE 200))
CategoryReads(c) ==
    LET q == apiCall[c] IN
    \/ Answers(c, "getCategories", Named(q.body, "counts") => q.user \in DOMAIN apiDb.users)
    \/ Answers(c, "getCategoryFeeds", q.of \in Own(apiDb, "categories", q.user))
    \* What is to be refreshed goes to the pool; a category of somebody else has nothing.
    \/ AtHandler(c, {"refreshCategory", "refreshAllFeeds"}) /\ Reply(c, 204)
FeedReads(c) ==
    LET q == apiCall[c]
        feeds == Own(apiDb, "feeds", q.user)
    IN \/ AtHandler(c, {"getFeeds", "fetchCounters", "exportFeeds", "version", "getAPIKeys"}) /\ Reply(c, 200)
       \/ Answers(c, "getFeed", q.of \in feeds)
       \/ Answers(c, "getIconByFeedID", q.of \in feeds /\ apiDb.feeds[q.of].icon # None)
       \/ Answers(c, "getIconByIconID", \E f \in feeds : apiDb.feeds[f].icon = q.of)
       \* The subscriptions found, an error of the site, or none.
       \/ AtHandler(c, {"discoverSubscriptions"})
          /\ IF Accepted(q.body) THEN \E status \in {200, 404, 500} : Reply(c, status) ELSE Reply(c, 400)
       \* The refresh itself is that of the scheduler.
       \/ AtHandler(c, {"refreshFeed"})
          /\ IF q.of \in feeds THEN \E status \in {204, 500} : Reply(c, status) ELSE Reply(c, 404)
EntryReads(c) ==
    LET q == apiCall[c]
        entries == Own(apiDb, "entries", q.user)
        CategoryOf(e) == apiDb.feeds[apiDb.entries[e].feed].category
    IN \/ Answers(c, "getEntry", q.of \in entries)
       \/ Answers(c, "getFeedEntry", q.of \in entries /\ apiDb.entries[q.of].feed = q.under)
       \/ Answers(c, "getCategoryEntry", q.of \in entries /\ CategoryOf(q.of) = q.under)
       \/ Answers(c, "getEnclosureByID", q.of \in Own(apiDb, "media", q.user))
\* findEntries: here what is not there is a bad request.
findEntries(c) ==
    LET q == apiCall[c] IN
    \/ /\ AtHandler(c, {"getFeedEntries", "getCategoryEntries", "getEntries"})
       /\ LET table == IF HandlerOf[q.method] = "getFeedEntries" THEN "feeds" ELSE "categories"
          IN Reply(c, IF Accepted(q.body) /\ (q.of = None \/ q.of \in Own(apiDb, table, q.user))
                      THEN 200 ELSE 400)
    \/ AtHandler(c, {"getEntryIDs"}) /\ Reply(c, IF Accepted(q.body) THEN 200 ELSE 400)
Looking(c) ==
    UserReads(c) \/ dispatchUserLookup(c) \/ CategoryReads(c) \/ FeedReads(c) \/ EntryReads(c) \/ findEntries(c)

---------------------------------------------------------------------------
(* Handlers that change something: what they check, and their statements.  *)

createUser(c) ==
    AtHandler(c, {"createUser"}) /\ IfAllowed(c, apiCall[c].admin,
        IF ValidateUserCreationWithPassword(apiCall[c]) THEN GoOn(c, NoChanges, <<"CreateUser">>, 201)
        ELSE Reply(c, 400))
updateUser(c) ==
    LET q == apiCall[c] IN
    /\ AtHandler(c, {"updateUser"})
    /\ IF q.of \notin DOMAIN apiDb.users THEN Reply(c, 404)
       ELSE IfAllowed(c, q.admin \/ q.of = q.user,
           IF /\ q.admin \/ ~(Named(q.body, "admin") /\ q.body.admin)
              /\ ValidateUserModification(q, q.of)
           THEN GoOn(c, PatchUser(apiDb.users[q.of], q.body), <<"UpdateUser">>, 201)
           ELSE Reply(c, 400))
markUserAsRead(c) ==
    LET q == apiCall[c] IN
    AtHandler(c, {"markUserAsRead"}) /\ IfAllowed(c, q.of = q.user,
        IF q.user \in DOMAIN apiDb.users THEN GoOn(c, NoChanges, <<"MarkAllAsRead">>, 204) ELSE Reply(c, 404))
\* The rows are removed by a goroutine, after the answer.
removeUser(c) ==
    LET q == apiCall[c] IN
    AtHandler(c, {"removeUser"}) /\ IfAllowed(c, q.admin,
        IF q.of \notin DOMAIN apiDb.users THEN Reply(c, 404)
        ELSE IF q.of = q.user THEN Reply(c, 400)
        ELSE /\ Proceed(c, [phase |-> "answered", status |-> 204])
             /\ apiJobs' = apiJobs \cup {<<"RemoveUser", q.of>>}
             /\ UNCHANGED apiDb)

createCategory(c) ==
    /\ AtHandler(c, {"createCategory"})
    /\ IF ValidateCategoryCreation(apiCall[c]) THEN GoOn(c, NoChanges, <<"CreateCategory">>, 201)
       ELSE Reply(c, 400)
updateCategory(c) ==
    LET q == apiCall[c] IN
    /\ AtHandler(c, {"updateCategory"})
    /\ IF q.of \notin Own(apiDb, "categories", q.user) THEN Reply(c, 404)
       ELSE IF ValidateCategoryModification(q, q.of)
       THEN GoOn(c, PatchCategory(apiDb.categories[q.of], q.body), <<"UpdateCategory">>, 201)
       ELSE Reply(c, 400)
OfCategory(c, handler, statement) ==
    /\ AtHandler(c, {handler})
    /\ IF CategoryIDExists(apiCall[c], apiCall[c].of) THEN GoOn(c, NoChanges, <<statement>>, 204)
       ELSE Reply(c, 404)
markCategoryAsRead(c) == OfCategory(c, "markCategoryAsRead", "MarkCategoryAsRead")
removeCategory(c) == OfCategory(c, "removeCategory", "RemoveCategory")

\* A feed without a category goes to the first one, by title; a user has one
\* category of a title.
FirstCategories(d, user) ==
    LET own == Own(d, "categories", user)
    IN {f \in own : \A o \in own \ {f} : TitlesInOrder(d.categories[f].title, d.categories[o].title)}
FirstCategory(q) ==
    LET first == FirstCategories(apiDb, q.user)
    IN {f \in first : f = CHOOSE one \in first : TRUE}
createFeed(c) ==
    LET q == apiCall[c]
        meant == IF Named(q.body, "category") THEN {q.body.category} ELSE FirstCategory(q)
    IN /\ AtHandler(c, {"createFeed"})
       /\ IF \E category \in meant : ValidateFeedCreation(q, category)
          THEN \E category \in meant : GoOn(c, [category |-> category], <<"Fetch", "CreateFeed">>, 201)
          ELSE Reply(c, 400)
updateFeed(c) ==
    LET q == apiCall[c] IN
    /\ AtHandler(c, {"updateFeed"})
    /\ IF q.of \notin Own(apiDb, "feeds", q.user) THEN Reply(c, 404)
       ELSE IF ValidateFeedModification(q, q.of)
       THEN GoOn(c, PatchFeed(apiDb.feeds[q.of], q.body), <<"UpdateFeed">>, 201)
       ELSE Reply(c, 400)
OfFeed(c, handler, statement) ==
    /\ AtHandler(c, {handler})
    /\ IF apiCall[c].of \in Own(apiDb, "feeds", apiCall[c].user) THEN GoOn(c, NoChanges, <<statement>>, 204)
       ELSE Reply(c, 404)
markFeedAsRead(c) == OfFeed(c, "markFeedAsRead", "MarkFeedAsRead")
removeFeed(c) == OfFeed(c, "removeFeed", "RemoveFeed")

\* The status and the star are two statements; ids of somebody else's entries
\* are passed over.
setEntryStatusAndStarred(c) ==
    LET q == apiCall[c]
        statements == (IF Named(q.body, "unread") THEN <<"SetEntriesStatus">> ELSE <<>>)
                      \o (IF Named(q.body, "starred") THEN <<"SetEntriesStarredState">> ELSE <<>>)
    IN /\ AtHandler(c, {"setEntryStatusAndStarred"})
       /\ IF statements = <<>> \/ q.body.ids = {} THEN Reply(c, 400)
          ELSE GoOn(c, NoChanges, statements, 204)
toggleStarred(c) == AtHandler(c, {"toggleStarred"}) /\ GoOn(c, NoChanges, <<"ToggleStarred">>, 204)
\* What is sent to the services is Integrations' matter.
saveEntry(c) ==
    LET q == apiCall[c] IN
    /\ AtHandler(c, {"saveEntry"})
    /\ IF ~\E u \in DOMAIN apiDb.users \cap {q.user} : apiDb.users[u].saves THEN Reply(c, 400)
       ELSE Reply(c, IF q.of \in Own(apiDb, "entries", q.user) THEN 202 ELSE 404)
\* A content that sanitizing leaves nothing of does not replace the entry's.
Cleaned(changes) ==
    LET content == Sanitized(changes.content)
    IN IF ~Named(changes, "content") THEN changes
       ELSE IF content = "" THEN [column \in DOMAIN changes \ {"content"} |-> changes[column]]
       ELSE [changes EXCEPT !.content = content]
updateEntry(c) ==
    LET q == apiCall[c] IN
    /\ AtHandler(c, {"updateEntry"})
    /\ IF ~Accepted(q.body) THEN Reply(c, 400)
       ELSE IF q.of \notin Own(apiDb, "entries", q.user) THEN Reply(c, 404)
       ELSE GoOn(c, PatchEntry(apiDb.entries[q.of], Cleaned(q.body)), <<"UpdateEntryTitleAndContent">>, 201)
\* The page is fetched and, when that is asked for, kept with the title read before.
fetchContent(c) ==
    LET q == apiCall[c] IN
    /\ AtHandler(c, {"fetchContent"})
    /\ IF q.of \notin Own(apiDb, "entries", q.user) THEN Reply(c, 404)
       ELSE GoOn(c, [apiDb.entries[q.of] EXCEPT !.content = "page"],
                 IF Named(q.body, "keep") THEN <<"Scrape", "UpdateEntryTitleAndContent">> ELSE <<"Scrape">>, 200)
importFeedEntry(c) ==
    LET q == apiCall[c] IN
    /\ AtHandler(c, {"importFeedEntry"})
    /\ IF q.of \notin Own(apiDb, "feeds", q.user) \/ ~Accepted(q.body) THEN Reply(c, 400)
       ELSE GoOn(c, NoChanges,
                 <<"InsertEntryForFeed", "SetEntriesStatus">>
                 \o (IF q.body.starred THEN <<"SetEntriesStarredState">> ELSE <<>>), 201)
flushHistory(c) ==
    /\ AtHandler(c, {"flushHistory"})
    /\ Proceed(c, [phase |-> "answered", status |-> 202])
    /\ apiJobs' = apiJobs \cup {<<"FlushHistory", apiCall[c].user>>}
    /\ UNCHANGED apiDb

updateEnclosureByID(c) ==
    LET q == apiCall[c] IN
    /\ AtHandler(c, {"updateEnclosureByID"})
    /\ IF ~Accepted(q.body) THEN Reply(c, 400)
       ELSE IF q.of \notin Own(apiDb, "media", q.user) THEN Reply(c, 404)
       ELSE GoOn(c, q.body ++ apiDb.media[q.of], <<"UpdateEnclosure">>, 204)
createAPIKey(c) ==
    /\ AtHandler(c, {"createAPIKey"})
    /\ IF ValidateAPIKeyCreation(apiCall[c]) THEN GoOn(c, NoChanges, <<"CreateAPIKey">>, 201) ELSE Reply(c, 400)
deleteAPIKey(c) == AtHandler(c, {"deleteAPIKey"}) /\ GoOn(c, NoChanges, <<"DeleteAPIKey">>, 204)

Handling(c) ==
    \/ createUser(c) \/ updateUser(c) \/ markUserAsRead(c) \/ removeUser(c)
    \/ createCategory(c) \/ updateCategory(c) \/ markCategoryAsRead(c) \/ removeCategory(c)
    \/ createFeed(c) \/ updateFeed(c) \/ markFeedAsRead(c) \/ removeFeed(c)
    \/ setEntryStatusAndStarred(c) \/ toggleStarred(c) \/ saveEntry(c) \/ updateEntry(c)
    \/ fetchContent(c) \/ importFeedEntry(c) \/ flushHistory(c)
    \/ updateEnclosureByID(c) \/ createAPIKey(c) \/ deleteAPIKey(c)

---------------------------------------------------------------------------
(* The statements: each is a set of one database, or none when it fails.   *)

\* A transaction: the user, the integrations' row and a category.
storeCreateUser(c, q, d) ==
    LET row == [name |-> Lower(q.body.name), password |-> q.body.password, admin |-> q.body.admin,
                theme |-> "default", saves |-> FALSE]
    IN Unless(UsersNamed(d, row.name) # {},
              Put(Put(d, "users", NewId(c), row), "categories", NewId(c), [owner |-> NewId(c), title |-> "All"]))

\* Every column is written, the password only when it is in the request.
storeUpdateUser(q, d) ==
    IF q.of \notin DOMAIN d.users THEN {d}
    ELSE LET row == [q.row EXCEPT !.name = Lower(@),
                                  !.password = IF Named(q.body, "password") THEN @ ELSE d.users[q.of].password,
                                  !.saves = d.users[q.of].saves]
         IN Unless(UsersNamed(d, row.name) \ {q.of} # {}, Put(d, "users", q.of, row))

storeCreateCategory(c, q, d) ==
    Unless(\E i \in Own(d, "categories", q.user) : d.categories[i].title = q.body.title,
           Put(d, "categories", NewId(c), [owner |-> q.user, title |-> q.body.title]))
storeUpdateCategory(q, d) ==
    IF q.of \notin Own(d, "categories", q.user) THEN {d}
    ELSE Unless(\E i \in Own(d, "categories", q.user) \ {q.of} : d.categories[i].title = q.row.title,
                Put(d, "categories", q.of, q.row))
storeRemoveCategory(q, d) ==
    IF q.of \in Own(d, "categories", q.user) THEN {Removed(d, "categories", {q.of})} ELSE {}

\* Nothing is written unless the document has been read and its address, which
\* may be another one after redirections, is new.
fetchDocument(q, d) == {e \in {d} : \A f \in Own(d, "feeds", q.user) : d.feeds[f].url # q.body.url}
storeCreateFeed(c, q, d) ==
    Unless(\E f \in Own(d, "feeds", q.user) : d.feeds[f].url = q.body.url,
           Put(d, "feeds", NewId(c), [owner |-> q.user, category |-> q.row.category, url |-> q.body.url,
                                      title |-> q.body.url, errors |-> 0, icon |-> None]))
storeUpdateFeed(q, d) ==
    IF q.of \notin Own(d, "feeds", q.user) THEN {d}
    ELSE Unless(\E f \in Own(d, "feeds", q.user) \ {q.of} : d.feeds[f].url = q.row.url,
                Put(d, "feeds", q.of, [q.row EXCEPT !.icon = d.feeds[q.of].icon]))
storeRemoveFeed(q, d) == {Removed(d, "feeds", {q.of} \cap Own(d, "feeds", q.user))}

\* All that is here has been published before now.
storeMarkFeedAsRead(q, d) == 
    {Marked(d, {e \in Own(d, "entries", q.user) : d.entries[e].feed = q.of}, "unread", FALSE)}
storeMarkCategoryAsRead(q, d) ==
    LET feeds == {f \in Own(d, "feeds", q.user) : d.feeds[f].category = q.of}
    IN {Marked(d, {e \in DOMAIN d.entries : d.entries[e].feed \in feeds}, "unread", FALSE)}
storeMarkAllAsRead(q, d) == {Marked(d, Own(d, "entries", q.user), "unread", FALSE)}

\* The entries that the request names, or the one that was imported.
IdsOf(q) == IF q.method = "ImportFeedEntry" THEN {q.row.id} ELSE q.body.ids
\* Wrong: entries of anyone.
storeSetAnyEntriesStatus(q, d) == {Marked(d, IdsOf(q) \cap DOMAIN d.entries, "unread", q.body.unread)}
storeSetEntriesStatus(q, d) == {Marked(d, IdsOf(q) \cap Own(d, "entries", q.user), "unread", q.body.unread)}
storeSetEntriesStarredState(q, d) == {Marked(d, IdsOf(q) \cap Own(d, "entries", q.user), "starred", q.body.starred)}
storeToggleStarred(q, d) ==
    IF q.of \in Own(d, "entries", q.user) THEN {Marked(d, {q.of}, "starred", ~d.entries[q.of].starred)} ELSE {}
storeUpdateEntryTitleAndContent(q, d) ==
    IF q.of \in Own(d, "entries", q.user)
    THEN {Marked(Marked(d, {q.of}, "title", q.row.title), {q.of}, "content", q.row.content)}
    ELSE {d}

\* The hash is unique in the feed, and not one of those that were deleted.
WithHash(d, feed, hash) == {e \in DOMAIN d.entries : d.entries[e].feed = feed /\ d.entries[e].hash = hash}
storeInsertEntryForFeed(c, q, d) ==
    IF WithHash(d, q.of, q.body.hash) # {} THEN {d}
    ELSE Unless(<<q.of, q.body.hash>> \in d.graves,
                Put(d, "entries", NewId(c),
                    [owner |-> q.user, feed |-> q.of, hash |-> q.body.hash, unread |-> TRUE, starred |-> FALSE,
                     shared |-> FALSE, title |-> q.body.title, content |-> Sanitized(q.body.content)]))

\* The row is written as it was read.
storeUpdateEnclosure(q, d) == IF q.of \in DOMAIN d.media THEN Committed(Put(d, "media", q.of, q.row)) ELSE {d}

storeCreateAPIKey(c, q, d) ==
    Unless(\E k \in Own(d, "keys", q.user) : d.keys[k].description = q.body.description,
           Put(d, "keys", NewId(c), [owner |-> q.user, description |-> q.body.description]))
storeDeleteAPIKey(q, d) ==
    IF q.of \in Own(d, "keys", q.user) THEN {Removed(d, "keys", {q.of})} ELSE {}

Result(statement, c, q, d) ==
    CASE statement = "CreateUser" -> storeCreateUser(c, q, d)
      [] statement = "UpdateUser" -> storeUpdateUser(q, d)
      [] statement = "MarkAllAsRead" -> storeMarkAllAsRead(q, d)
      [] statement = "CreateCategory" -> storeCreateCategory(c, q, d)
      [] statement = "UpdateCategory" -> storeUpdateCategory(q, d)
      [] statement = "RemoveCategory" -> storeRemoveCategory(q, d)
      [] statement = "MarkCategoryAsRead" -> storeMarkCategoryAsRead(q, d)
      [] statement = "Fetch" -> fetchDocument(q, d)
      [] statement = "CreateFeed" -> storeCreateFeed(c, q, d)
      [] statement = "UpdateFeed" -> storeUpdateFeed(q, d)
      [] statement = "RemoveFeed" -> storeRemoveFeed(q, d)
      [] statement = "MarkFeedAsRead" -> storeMarkFeedAsRead(q, d)
      [] statement = "SetEntriesStatus" -> storeSetEntriesStatus(q, d)
      [] statement = "SetEntriesStarredState" -> storeSetEntriesStarredState(q, d)
      [] statement = "ToggleStarred" -> storeToggleStarred(q, d)
      [] statement = "Scrape" -> {d}
      [] statement = "UpdateEntryTitleAndContent" -> storeUpdateEntryTitleAndContent(q, d)
      [] statement = "InsertEntryForFeed" -> storeInsertEntryForFeed(c, q, d)
      [] statement = "UpdateEnclosure" -> storeUpdateEnclosure(q, d)
      [] statement = "CreateAPIKey" -> storeCreateAPIKey(c, q, d)
      [] statement = "DeleteAPIKey" -> storeDeleteAPIKey(q, d)

\* What a statement that fails is answered with.
Failure(statement, q) ==
    CASE statement = "DeleteAPIKey" -> 404
      [] statement = "InsertEntryForFeed" /\ <<q.of, q.body.hash>> \in apiDb.graves -> 400
      [] OTHER -> 500

\* The others are no longer alone with the database.
Store(c, d, changes) ==
    /\ apiDb' = d
    /\ apiCall' = [x \in Callers |->
                      IF x = c THEN changes ++ apiCall[x]
                      ELSE IF d = apiDb THEN apiCall[x] ELSE [apiCall[x] EXCEPT !.before = {}]]

Execute(c) ==
    LET q == apiCall[c]
        statement == Head(q.todo)
        rest == Tail(q.todo)
    IN /\ q.phase = "writing"
       /\ \/ \E d \in Result(statement, c, q, apiDb) :
                /\ Store(c, d, [todo |-> rest,
                                phase |-> IF rest = <<>> THEN "answered" ELSE "writing",
                                row |-> IF rest = <<>> THEN NoChanges
                                        ELSE IF statement = "InsertEntryForFeed"
                                        THEN [id |-> CHOOSE e \in WithHash(d, q.of, q.body.hash) : TRUE]
                                        ELSE q.row])
                /\ UNCHANGED apiJobs
          \* The site does not answer, or with something that is of no use.
          \/ /\ statement \in {"Fetch", "Scrape"} \/ Result(statement, c, q, apiDb) = {}
             /\ Reply(c, Failure(statement, q))

\* Goroutines that handlers have left behind; all calls may see what they do.
RunJob ==
    \E job \in apiJobs :
       LET read == {e \in Own(apiDb, "entries", job[2]) :
                       LET row == apiDb.entries[e] IN ~row.unread /\ ~row.starred /\ ~row.shared}
           d == IF job[1] = "RemoveUser" THEN Removed(apiDb, "users", {job[2]})
                ELSE Removed([apiDb EXCEPT !.graves = @ \cup
                                {<<apiDb.entries[e].feed, apiDb.entries[e].hash>> : e \in read}], "entries", read)
       IN /\ Store(None, d, NoChanges)
          /\ apiJobs' = apiJobs \ {job}

ApiInit ==
    /\ apiDb \in StartDbs
    /\ apiCall = [c \in Callers |-> NoCall]
    /\ apiJobs = {}

Calling(c) ==
    \/ Begin(c)
    \/ validateAPIKeyAuth(c) \/ CheckPassword(c) \/ validateBasicAuth(c)
    \/ Looking(c) \/ Handling(c) \/ Execute(c)

ApiNext == RunJob \/ \E c \in Callers : Calling(c)

ApiSpec == ApiInit /\ [][ApiNext]_apiVars

---------------------------------------------------------------------------
(* Properties.                                                             *)

\* What a client has asked for, and as whom.
Asked(q) == [method |-> q.method, of |-> q.of, body |-> q.body, user |-> q.user]

\* What the method says that it does.
Promised(c, q, d) ==
    LET ids == Own(d, "entries", q.user)
        Reads(entries) == Marked(d, entries, "unread", FALSE)
        OfFeeds(feeds) == {e \in ids : d.entries[e].feed \in feeds}
        New(table, row) == [d EXCEPT ![table] = @ ++ [i \in {NewId(c)} |-> row]]
        Changed(table, changes) == [d EXCEPT ![table][q.of] = changes ++ @]
        Without(table) == WithParents([d EXCEPT ![table] = [i \in DOMAIN @ \ {q.of} |-> @[i]]])
    IN CASE q.method = "UpdateUser" ->
              Changed("users", IF Named(q.body, "name") THEN [q.body EXCEPT !.name = Lower(@)] ELSE q.body)
         [] q.method = "CreateUser" ->
              [New("users", [q.body EXCEPT !.name = Lower(@)] ++ [theme |-> "default", saves |-> FALSE])
                  EXCEPT !.categories = @ ++ [i \in {NewId(c)} |-> [owner |-> i, title |-> "All"]]]
         [] q.method = "CreateCategory" -> New("categories", q.body ++ [owner |-> q.user])
         [] q.method = "UpdateCategory" -> Changed("categories", q.body)
         [] q.method = "DeleteCategory" -> Without("categories")
         [] q.method = "CreateFeed" ->
              New("feeds", [owner |-> q.user, url |-> q.body.url, title |-> q.body.url, errors |-> 0, icon |-> None,
                            category |-> IF Named(q.body, "category") THEN q.body.category
                                         ELSE CHOOSE i \in FirstCategories(d, q.user) : TRUE])
         [] q.method = "UpdateFeed" -> Changed("feeds", q.body ++ [errors |-> 0])
         [] q.method = "DeleteFeed" -> Without("feeds")
         [] q.method = "MarkFeedAsRead" -> Reads(OfFeeds({q.of}))
         [] q.method = "MarkCategoryAsRead" ->
              Reads(OfFeeds({f \in DOMAIN d.feeds : d.feeds[f].category = q.of}))
         [] q.method = "MarkAllAsRead" -> Reads(ids)
         [] q.method = "UpdateEntries" -> Marked(d, q.body.ids \cap ids, "unread", q.body.unread)
         [] q.method = "UpdateEntriesStarred" -> Marked(d, q.body.ids \cap ids, "starred", q.body.starred)
         [] q.method = "ToggleStarred" -> Changed("entries", [starred |-> ~d.entries[q.of].starred])
         [] q.method = "UpdateEntry" -> Changed("entries", Cleaned(q.body))
         [] q.method = "FetchEntryOriginalContent" /\ Named(q.body, "keep") ->
              Changed("entries", [content |-> "page"])
         [] q.method = "ImportFeedEntry" ->
              LET there == WithHash(d, q.of, q.body.hash)
                  Unread(row) == [row EXCEPT !.unread = q.body.unread, !.starred = @ \/ q.body.starred]
              IN IF there # {} THEN [d EXCEPT !.entries = [e \in DOMAIN @ |-> IF e \in there THEN Unread(@[e]) ELSE @[e]]]
                 ELSE New("entries", [owner |-> q.user, feed |-> q.of, shared |-> FALSE,
                                      content |-> Sanitized(q.body.content)] ++ q.body)
         [] q.method = "UpdateEnclosure" -> Changed("media", q.body)
         [] q.method = "CreateAPIKey" -> New("keys", q.body ++ [owner |-> q.user])
         [] q.method = "DeleteAPIKey" -> Without("keys")
         [] OTHER -> d

\* The rows that a method may be called for.
TableOf(method) ==
    CASE method \in {"UpdateCategory", "DeleteCategory", "MarkCategoryAsRead", "CategoryFeeds"} -> "categories"
      [] method \in {"Feed", "UpdateFeed", "DeleteFeed", "MarkFeedAsRead", "RefreshFeed", "FeedIcon",
                     "ImportFeedEntry", "FeedEntries"} -> "feeds"
      [] method \in {"Entry", "FeedEntry", "CategoryEntry", "UpdateEntry", "ToggleStarred", "SaveEntry",
                     "FetchEntryOriginalContent"} -> "entries"
      [] method \in {"Enclosure", "UpdateEnclosure"} -> "media"
      [] method = "DeleteAPIKey" -> "keys"
      [] OTHER -> "none"
MayName(q, d) ==
    CASE q.method \in {"CreateUser", "Users", "UserByID", "UserByUsername", "DeleteUser"} -> d.users[q.user].admin
      [] q.method = "UpdateUser" -> q.of = q.user \/ d.users[q.user].admin
      [] q.method = "MarkAllAsRead" -> q.of = q.user
      [] OTHER -> TableOf(q.method) = "none" \/ q.of \in Own(d, TableOf(q.method), q.user)

\* A call that nobody disturbs has, when its method returns without an error,
\* done what the method says, for rows that the caller may name, and nothing
\* else; when it returns an error, it has changed nothing.  No method tries to
\* read an answer that has no body.  (client/client.go:90-1219 with
\* internal/api and what they call: a verb, a route, a condition of a statement
\* or a status that is not the one meant.)
QuietCallsDoWhatTheySay ==
    \A c \in Callers : \A d \in apiCall[c].before :
       LET q == apiCall[c]
           result == Received(q.method, q.status)
       IN q.phase = "answered" =>
             /\ result # "broken"
             /\ result = "nil" => MayName(Asked(q), d) /\ apiDb = Promised(c, Asked(q), d)
             /\ result # "nil" => apiDb = d

\* Whatever calls meet, a feed is filed in a category of its owner, and what
\* hangs on it is its owner's: the tables do not see to that
\* (validator/feed.go:33-50 and 105-121, with the categories and users that
\* another call removes before the statement).
RowsAreFiledAtHome == FiledAtHome(apiDb)
=============================================================================
