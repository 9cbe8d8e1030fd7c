------------------------------- MODULE MCApi -------------------------------
(***************************************************************************)
(* Two users of the API, ann who administers it and bob, and the calls     *)
(* that their clients make.                                                *)
(***************************************************************************)
EXTENDS RestApi, TLC

CONSTANT bad    \* a value that validators refuse

RefusedValues == {bad}
LowerCase(text) == IF text = "News" THEN "news" ELSE IF text = "Bob" THEN "bob" ELSE text
TitleOrder(one, other) == one = "All"
Cleaning(content) == IF content = "script" THEN "" ELSE content

FirstDb ==
    [users |-> 1 :> [name |-> "ann", password |-> "pass", admin |-> TRUE, theme |-> "default", saves |-> FALSE]
              @@ 2 :> [name |-> "bob", password |-> "word", admin |-> FALSE, theme |-> "default", saves |-> TRUE],
     keys |-> 1 :> [owner |-> 1, description |-> "k"] @@ 2 :> [owner |-> 2, description |-> "k"],
     categories |-> 1 :> [owner |-> 1, title |-> "All"] @@ 2 :> [owner |-> 2, title |-> "All"]
                    @@ 3 :> [owner |-> 2, title |-> "news"],
     feeds |-> 1 :> [owner |-> 1, category |-> 1, url |-> "u", title |-> "t", errors |-> 0, icon |-> None]
               @@ 2 :> [owner |-> 2, category |-> 3, url |-> "v", title |-> "t", errors |-> 1, icon |-> 7],
     entries |-> 1 :> [owner |-> 1, feed |-> 1, hash |-> "h", unread |-> TRUE, starred |-> FALSE,
                       shared |-> FALSE, title |-> "t", content |-> "c"]
                 @@ 2 :> [owner |-> 2, feed |-> 2, hash |-> "h", unread |-> TRUE, starred |-> FALSE,
                          shared |-> FALSE, title |-> "t", content |-> "c"]
                 @@ 3 :> [owner |-> 2, feed |-> 2, hash |-> "i", unread |-> FALSE, starred |-> FALSE,
                          shared |-> FALSE, title |-> "t", content |-> "c"],
     media |-> 2 :> [owner |-> 2, entry |-> 2, progress |-> 0],
     graves |-> {<<2, "gone">>}]
Databases == {FirstDb}

AnnsKey == [key |-> 1, name |-> "", password |-> ""]
BobsKey == [key |-> 2, name |-> "", password |-> ""]
BobsPassword == [key |-> None, name |-> "Bob", password |-> "word"]
WrongPassword == [key |-> None, name |-> "bob", password |-> "pass"]
Identities == {AnnsKey, BobsKey, BobsPassword, WrongPassword}

Call(method, of, under, body) == [method |-> method, of |-> of, under |-> under, body |-> body]
Calls(method, ids, bodies) == {Call(method, id, None, body) : id \in ids, body \in bodies}
Plainly == {NoChanges}

\* The methods that only look.
LookingMethods ==
    {m \in DOMAIN ClientCalls : ClientCalls[m].verb = "GET"} \cup {"Discover", "RefreshCategory", "RefreshAllFeeds", "RefreshFeed", "SaveEntry"}

AdminCalls ==
    Calls("Users", {None}, Plainly) \cup Calls("UserByID", {2, 9}, Plainly)
    \cup Calls("UserByUsername", {None}, {[name |-> "Bob"], [name |-> "eve"]})
    \cup Calls("CreateUser", {None}, {[name |-> n, password |-> "long", admin |-> FALSE] : n \in {"Bob", "eve", bad}})
    \cup Calls("DeleteUser", {1, 2, 9}, Plainly)
    \cup Calls("UpdateUser", {2, 9}, {[admin |-> TRUE], [name |-> "ann"]})

UserCallsOfBob ==
    Calls("Version", {None}, Plainly) \cup Calls("Me", {None}, Plainly) \cup Calls("Users", {None}, Plainly)
    \cup Calls("IntegrationsStatus", {None}, Plainly) \cup Calls("UserByID", {2}, Plainly)
    \cup Calls("DeleteUser", {1}, Plainly)
    \cup Calls("CreateUser", {None}, {[name |-> "eve", password |-> "long", admin |-> FALSE]})
    \cup Calls("UpdateUser", {2}, {[theme |-> "dark"], [theme |-> bad], [admin |-> TRUE], [name |-> "Eve", password |-> "new"]})
    \cup Calls("UpdateUser", {1}, {[theme |-> "dark"]})
    \cup Calls("MarkAllAsRead", {1, 2}, Plainly)
    \cup Calls("APIKeys", {None}, Plainly) \cup Calls("DeleteAPIKey", {1, 2}, Plainly)
    \cup Calls("CreateAPIKey", {None}, {[description |-> "k"], [description |-> "l"]})
CategoryCallsOfBob ==
    Calls("Categories", {None}, {NoChanges, [counts |-> TRUE]})
    \cup Calls("CreateCategory", {None}, {[title |-> t] : t \in {"News", "New", bad}})
    \cup Calls("UpdateCategory", {1, 3}, {[title |-> "All"], [title |-> "News"]})
    \cup UNION {Calls(m, {1, 3, 9}, Plainly) : m \in {"MarkCategoryAsRead", "DeleteCategory", "CategoryFeeds", "RefreshCategory"}}
FeedCallsOfBob ==
    Calls("CreateFeed", {None}, {[url |-> "u"], [url |-> "v"], [url |-> "u", category |-> 1], [url |-> "u", category |-> 3]})
    \cup Calls("UpdateFeed", {1, 2}, {[title |-> "new"], [category |-> 1], [category |-> 2], [url |-> bad]})
    \cup UNION {Calls(m, {1, 2}, Plainly) : m \in {"Feed", "DeleteFeed", "MarkFeedAsRead", "RefreshFeed", "FeedIcon"}}
    \cup UNION {Calls(m, {None}, Plainly) : m \in {"Feeds", "FetchCounters", "RefreshAllFeeds", "Export"}}
    \cup Calls("Icon", {7, 8}, Plainly) \cup Calls("Discover", {None}, {[url |-> "u"], [url |-> bad]})
    \cup Calls("ImportFeedEntry", {1, 2},
               {[hash |-> h, title |-> "t", content |-> "c", unread |-> s, starred |-> s] :
                   h \in {"h", "new", "gone"}, s \in BOOLEAN})
EntryCallsOfBob ==
    UNION {Calls(m, {1, 2}, Plainly) :
              m \in {"Entry", "ToggleStarred", "SaveEntry", "FetchEntryOriginalContent", "Enclosure"}}
    \cup {Call("FeedEntry", 2, f, NoChanges) : f \in {1, 2}}
    \cup {Call("CategoryEntry", 2, i, NoChanges) : i \in {2, 3}}
    \cup Calls("FetchEntryOriginalContent", {2}, {[keep |-> TRUE]})
    \cup Calls("Entries", {None}, {NoChanges, [order |-> bad]}) \cup Calls("EntryIDs", {None}, {NoChanges, [status |-> bad]})
    \cup Calls("FeedEntries", {1, 2}, Plainly) \cup Calls("CategoryEntries", {1, 3}, Plainly)
    \cup Calls("UpdateEntries", {None}, {[ids |-> {1, 2}, unread |-> FALSE], [ids |-> {}, unread |-> FALSE], [ids |-> {3}, unread |-> TRUE]})
    \cup Calls("UpdateEntriesStarred", {None}, {[ids |-> {1, 2}, starred |-> TRUE]})
    \cup Calls("UpdateEntry", {1, 2}, {[title |-> "new"], [content |-> "script"], [content |-> bad], [title |-> "n", content |-> "m"]})
    \cup Calls("FlushHistory", {None}, Plainly)
    \cup Calls("UpdateEnclosure", {1, 2}, {[progress |-> 1], [progress |-> bad]})

\* One client makes all the calls, the other those that get in their way.
ApiCalls(credential) ==
    CASE credential = AnnsKey -> AdminCalls
      [] credential = BobsKey -> UserCallsOfBob \cup CategoryCallsOfBob \cup FeedCallsOfBob \cup EntryCallsOfBob
      [] OTHER -> Calls("Me", {None}, Plainly) \cup Calls("UpdateUser", {2}, {[name |-> "eve"]})
DisturbingCalls ==
    Calls("DeleteUser", {2}, Plainly) \cup Calls("UpdateUser", {2}, {[admin |-> TRUE], [name |-> "eve"]})
    \cup Calls("DeleteCategory", {3}, Plainly) \cup Calls("DeleteFeed", {2}, Plainly)
    \cup Calls("CreateCategory", {None}, {[title |-> "New"]})
    \cup Calls("CreateFeed", {None}, {[url |-> "u", category |-> 3]})
    \cup Calls("FlushHistory", {None}, Plainly) \cup Calls("DeleteAPIKey", {2}, Plainly)

\* Those that only look are alone.
Together ==
    /\ apiCall'[2].phase # "idle" =>
          LET q == apiCall'[2] IN Call(q.method, q.of, q.under, q.body) \in DisturbingCalls
    /\ (apiCall'[2].phase # "idle") => apiCall'[1].method \notin LookingMethods
ApiPart == ApiNext /\ Together
MCApiSpec == ApiInit /\ [][ApiPart]_apiVars
=============================================================================
