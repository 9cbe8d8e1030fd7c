--------------------------- MODULE RestApiProofs ---------------------------
(***************************************************************************)
(* The REST API, for any number of clients, whatever their calls: rows     *)
(* stay with their owners, and a call that nobody disturbs does what its   *)
(* method says.                                                            *)
(***************************************************************************)
EXTENDS RestApi, SequenceTheorems, TLAPS

(* The columns that tell whose a row is, and what it hangs on.             *)
Columns(d) ==
    /\ DOMAIN d = Tables \cup {"graves"}
    /\ \A i \in DOMAIN d.categories : "owner" \in DOMAIN d.categories[i]
    /\ \A f \in DOMAIN d.feeds : {"owner", "category"} \subseteq DOMAIN d.feeds[f]
    /\ \A e \in DOMAIN d.entries : {"owner", "feed"} \subseteq DOMAIN d.entries[e]
    /\ \A m \in DOMAIN d.media : {"owner", "entry"} \subseteq DOMAIN d.media[m]

ParentsAreThere(d) ==
    /\ \A f \in DOMAIN d.feeds : d.feeds[f].category \in DOMAIN d.categories
    /\ \A e \in DOMAIN d.entries : d.entries[e].feed \in DOMAIN d.feeds
    /\ \A m \in DOMAIN d.media : d.media[m].entry \in DOMAIN d.entries

HomeDb(d) == Columns(d) /\ ParentsAreThere(d) /\ FiledAtHome(d)

(* The same while rows may still go with what they hang on.                *)
OwnersAgree(d) ==
    /\ \A f \in DOMAIN d.feeds :
          d.feeds[f].category \in DOMAIN d.categories
             => d.categories[d.feeds[f].category].owner = d.feeds[f].owner
    /\ \A e \in DOMAIN d.entries :
          d.entries[e].feed \in DOMAIN d.feeds => d.feeds[d.entries[e].feed].owner = d.entries[e].owner
    /\ \A m \in DOMAIN d.media :
          d.media[m].entry \in DOMAIN d.entries => d.entries[d.media[m].entry].owner = d.media[m].owner

(* No row changes hands, and no id but the new ones comes up.              *)
SameOwners(d, e, new) ==
    \A t \in Tables : \A i \in DOMAIN e[t] : i \notin new =>
       /\ i \in DOMAIN d[t]
       /\ t \in {"categories", "feeds", "entries"} => e[t][i].owner = d[t][i].owner

LEMMA HomesAgree == \A d : HomeDb(d) => OwnersAgree(d)
  BY DEF HomeDb, ParentsAreThere, FiledAtHome, OwnersAgree

LEMMA NothingMoves == \A d, new : SameOwners(d, d, new)
  BY DEF SameOwners

LEMMA MoreIsNew ==
    ASSUME NEW d, NEW e, NEW one, NEW other, one \subseteq other, SameOwners(d, e, one)
    PROVE  SameOwners(d, e, other)
  BY DEF SameOwners

LEMMA OwnersLast ==
    ASSUME NEW d, NEW e, NEW g, SameOwners(d, e, {}), SameOwners(e, g, {})
    PROVE  SameOwners(d, g, {})
  BY DEF SameOwners

(* What foreign keys leave is in order.                                    *)
LEMMA ForeignKeys ==
    ASSUME NEW d, Columns(d), OwnersAgree(d)
    PROVE  HomeDb(WithParents(d)) /\ SameOwners(d, WithParents(d), {})
  <1> DEFINE w == WithParents(d)
             kept == {f \in DOMAIN d.feeds :
                          /\ d.feeds[f].owner \in DOMAIN d.users
                          /\ d.feeds[f].category \in DOMAIN d.categories
                          /\ d.categories[d.feeds[f].category].owner \in DOMAIN d.users}
             entries == {e \in DOMAIN d.entries :
                            d.entries[e].feed \in kept /\ d.entries[e].owner \in DOMAIN d.users}
             cats == {i \in DOMAIN d.categories : d.categories[i].owner \in DOMAIN d.users}
  <1>1. DOMAIN w = DOMAIN d
    BY DEF WithParents
  <1>2. w.users = d.users
    BY DEF WithParents, Columns, Tables
  <1>3. w.categories = [i \in cats |-> d.categories[i]]
    BY DEF WithParents, Columns, Tables
  <1>4. w.feeds = [f \in kept |-> d.feeds[f]]
    BY DEF WithParents, Columns, Tables
  <1>5. w.entries = [e \in entries |-> d.entries[e]]
    BY DEF WithParents, Columns, Tables
  <1>6. w.media = [m \in {m \in DOMAIN d.media : d.media[m].entry \in entries} |-> d.media[m]]
    BY DEF WithParents, Columns, Tables
  <1>7. DOMAIN w.keys \subseteq DOMAIN d.keys
    BY DEF WithParents, Columns, Tables
  <1> HIDE DEF w
  <1>8. Columns(w)
    BY <1>1, <1>3, <1>4, <1>5, <1>6 DEF Columns
  <1>9. ParentsAreThere(w)
    BY <1>3, <1>4, <1>5, <1>6 DEF ParentsAreThere
  <1>10. FiledAtHome(w)
    <2>0. /\ \A i \in cats : w.categories[i] = d.categories[i]
          /\ \A f \in kept : w.feeds[f] = d.feeds[f]
          /\ \A e \in entries : w.entries[e] = d.entries[e]
      BY <1>3, <1>4, <1>5
    <2>1. ASSUME NEW f \in DOMAIN w.feeds
          PROVE  w.categories[w.feeds[f].category].owner = w.feeds[f].owner
      <3>1. f \in DOMAIN d.feeds /\ w.feeds[f] = d.feeds[f] /\ d.feeds[f].category \in cats
        BY <1>4, <2>0
      <3> QED BY <2>0, <3>1 DEF OwnersAgree
    <2>2. ASSUME NEW e \in DOMAIN w.entries
          PROVE  w.feeds[w.entries[e].feed].owner = w.entries[e].owner
      <3>1. e \in DOMAIN d.entries /\ w.entries[e] = d.entries[e] /\ d.entries[e].feed \in kept
        BY <1>5, <2>0
      <3> QED BY <2>0, <3>1 DEF OwnersAgree
    <2>3. ASSUME NEW m \in DOMAIN w.media
          PROVE  w.entries[w.media[m].entry].owner = w.media[m].owner
      <3>1. m \in DOMAIN d.media /\ w.media[m] = d.media[m] /\ d.media[m].entry \in entries
        BY <1>6
      <3>2. d.media[m].entry \in DOMAIN d.entries
        BY <3>1
      <3>3. d.entries[d.media[m].entry].owner = d.media[m].owner
        BY <3>1, <3>2 DEF OwnersAgree
      <3>4. w.entries[d.media[m].entry] = d.entries[d.media[m].entry]
        BY <2>0, <3>1
      <3> HIDE DEF entries
      <3> QED BY <3>1, <3>3, <3>4
    <2> QED BY <2>1, <2>2, <2>3 DEF FiledAtHome
  <1>11. SameOwners(d, w, {})
    <2> SUFFICES ASSUME NEW t \in Tables, NEW i \in DOMAIN w[t]
                 PROVE  /\ i \in DOMAIN d[t]
                        /\ t \in {"categories", "feeds", "entries"} => w[t][i].owner = d[t][i].owner
      BY DEF SameOwners
    <2>1. t \in {"users", "keys", "categories", "feeds", "entries", "media"}
      BY DEF Tables
    <2>2. CASE t \in {"users", "keys", "media"}
      BY <2>2, <1>2, <1>6, <1>7
    <2>3. CASE t = "categories"
      BY <2>3, <1>3
    <2>4. CASE t = "feeds"
      BY <2>4, <1>4
    <2>5. CASE t = "entries"
      BY <2>5, <1>5
    <2> QED BY <2>1, <2>2, <2>3, <2>4, <2>5
  <1> QED BY <1>8, <1>9, <1>10, <1>11 DEF HomeDb, w

LEMMA CommittedIsHome ==
    ASSUME NEW d, Columns(d), OwnersAgree(d), NEW e \in Committed(d)
    PROVE  e = d /\ HomeDb(e)
  <1>1. e = d /\ WithParents(d) = d
    BY DEF Committed
  <1> QED BY <1>1, ForeignKeys

LEMMA RemovedIsHome ==
    ASSUME NEW d, HomeDb(d), NEW table \in Tables, NEW ids
    PROVE  HomeDb(Removed(d, table, ids)) /\ SameOwners(d, Removed(d, table, ids), {})
  <1> DEFINE r == [d EXCEPT ![table] = [i \in DOMAIN @ \ ids |-> @[i]]]
  <1>1. DOMAIN r = Tables \cup {"graves"}
    BY DEF HomeDb, Columns
  <1>2. \A t \in Tables : /\ DOMAIN r[t] \subseteq DOMAIN d[t]
                          /\ \A i \in DOMAIN r[t] : r[t][i] = d[t][i]
    BY DEF HomeDb, Columns
  <1> HIDE DEF r
  <1>3. Columns(r)
    BY <1>1, <1>2 DEF HomeDb, Columns, Tables
  <1>4. OwnersAgree(r)
    BY <1>2, HomesAgree DEF OwnersAgree, Tables
  <1>5. SameOwners(d, r, {})
    BY <1>2 DEF SameOwners, Tables
  <1>6. HomeDb(WithParents(r)) /\ SameOwners(r, WithParents(r), {})
    BY <1>3, <1>4, ForeignKeys
  <1>7. Removed(d, table, ids) = WithParents(r)
    BY DEF Removed, r
  <1> QED BY <1>5, <1>6, <1>7, OwnersLast

(* A row that is written where there is none or one of the same owner, and *)
(* hangs on what is its owner's.                                           *)
RowFits(d, table, id, row) ==
    /\ table \in {"categories", "feeds", "entries", "media"} => "owner" \in DOMAIN row
    /\ table = "feeds" =>
          /\ "category" \in DOMAIN row
          /\ row.category \in DOMAIN d.categories => d.categories[row.category].owner = row.owner
    /\ table = "entries" =>
          /\ "feed" \in DOMAIN row
          /\ row.feed \in DOMAIN d.feeds => d.feeds[row.feed].owner = row.owner
    /\ table = "media" =>
          /\ "entry" \in DOMAIN row
          /\ row.entry \in DOMAIN d.entries => d.entries[row.entry].owner = row.owner
    /\ table \in {"categories", "feeds", "entries"} /\ id \in DOMAIN d[table] => row.owner = d[table][id].owner

LEMMA PutIs ==
    ASSUME NEW d, Columns(d), NEW table \in Tables, NEW id, NEW row
    PROVE  /\ DOMAIN Put(d, table, id, row) = DOMAIN d
           /\ \A t \in Tables \ {table} : Put(d, table, id, row)[t] = d[t]
           /\ DOMAIN Put(d, table, id, row)[table] = DOMAIN d[table] \cup {id}
           /\ Put(d, table, id, row)[table][id] = row
           /\ \A i \in DOMAIN d[table] \ {id} : Put(d, table, id, row)[table][i] = d[table][i]
  BY DEF Put, ++, Columns

LEMMA PutFits ==
    ASSUME NEW d, HomeDb(d), NEW table \in Tables, NEW id, NEW row, RowFits(d, table, id, row)
    PROVE  LET p == Put(d, table, id, row)
           IN Columns(p) /\ OwnersAgree(p) /\ SameOwners(d, p, {id} \ DOMAIN d[table])
  <1> DEFINE p == Put(d, table, id, row)
  <1>0. Columns(d) /\ OwnersAgree(d) /\ ParentsAreThere(d)
    BY HomesAgree DEF HomeDb
  <1>1. /\ DOMAIN p = DOMAIN d
        /\ \A t \in Tables \ {table} : p[t] = d[t]
        /\ DOMAIN p[table] = DOMAIN d[table] \cup {id}
        /\ p[table][id] = row
        /\ \A i \in DOMAIN d[table] \ {id} : p[table][i] = d[table][i]
    BY <1>0, PutIs
  <1> HIDE DEF p
  <1>2. Columns(p)
    BY <1>0, <1>1 DEF Columns, RowFits, Tables
  <1>3. SameOwners(d, p, {id} \ DOMAIN d[table])
    <2> SUFFICES ASSUME NEW t \in Tables, NEW i \in DOMAIN p[t], i \notin {id} \ DOMAIN d[table]
                 PROVE  /\ i \in DOMAIN d[t]
                        /\ t \in {"categories", "feeds", "entries"} => p[t][i].owner = d[t][i].owner
      BY DEF SameOwners
    <2>1. CASE t # table
      BY <1>1, <2>1
    <2>2. CASE t = table /\ i # id
      BY <1>1, <2>2
    <2>3. CASE t = table /\ i = id
      BY <1>1, <2>3 DEF RowFits
    <2> QED BY <2>1, <2>2, <2>3
  <1>4. OwnersAgree(p)
    <2>1. ASSUME NEW f \in DOMAIN p.feeds, p.feeds[f].category \in DOMAIN p.categories
          PROVE  p.categories[p.feeds[f].category].owner = p.feeds[f].owner
      <3>1. CASE table = "feeds"
        BY <1>0, <1>1, <2>1, <3>1 DEF OwnersAgree, RowFits, Tables
      <3>2. CASE table = "categories"
        BY <1>0, <1>1, <2>1, <3>2 DEF OwnersAgree, ParentsAreThere, RowFits, Tables
      <3>3. CASE table \notin {"feeds", "categories"}
        BY <1>0, <1>1, <2>1, <3>3 DEF OwnersAgree, Tables
      <3> QED BY <3>1, <3>2, <3>3
    <2>2. ASSUME NEW e \in DOMAIN p.entries, p.entries[e].feed \in DOMAIN p.feeds
          PROVE  p.feeds[p.entries[e].feed].owner = p.entries[e].owner
      <3>1. CASE table = "entries"
        BY <1>0, <1>1, <2>2, <3>1 DEF OwnersAgree, RowFits, Tables
      <3>2. CASE table = "feeds"
        BY <1>0, <1>1, <2>2, <3>2 DEF OwnersAgree, ParentsAreThere, RowFits, Tables
      <3>3. CASE table \notin {"feeds", "entries"}
        BY <1>0, <1>1, <2>2, <3>3 DEF OwnersAgree, Tables
      <3> QED BY <3>1, <3>2, <3>3
    <2>3. ASSUME NEW m \in DOMAIN p.media, p.media[m].entry \in DOMAIN p.entries
          PROVE  p.entries[p.media[m].entry].owner = p.media[m].owner
      <3>1. CASE table = "media"
        BY <1>0, <1>1, <2>3, <3>1 DEF OwnersAgree, RowFits, Tables
      <3>2. CASE table = "entries"
        BY <1>0, <1>1, <2>3, <3>2 DEF OwnersAgree, ParentsAreThere, RowFits, Tables
      <3>3. CASE table \notin {"media", "entries"}
        BY <1>0, <1>1, <2>3, <3>3 DEF OwnersAgree, Tables
      <3> QED BY <3>1, <3>2, <3>3
    <2> QED BY <2>1, <2>2, <2>3 DEF OwnersAgree
  <1> QED BY <1>2, <1>3, <1>4 DEF p

LEMMA PutCommits ==
    ASSUME NEW d, HomeDb(d), NEW table \in Tables, NEW id, NEW row, RowFits(d, table, id, row),
           NEW e \in Committed(Put(d, table, id, row))
    PROVE  HomeDb(e) /\ SameOwners(d, e, {id} \ DOMAIN d[table])
  <1> DEFINE p == Put(d, table, id, row)
  <1>1. Columns(p) /\ OwnersAgree(p) /\ SameOwners(d, p, {id} \ DOMAIN d[table])
    BY PutFits
  <1> HIDE DEF p
  <1>2. e \in Committed(p)
    BY DEF p
  <1> QED BY <1>1, <1>2, CommittedIsHome

LEMMA MarkedIsHome ==
    ASSUME NEW d, HomeDb(d), NEW ids, NEW column, NEW value, column \notin {"owner", "feed"}
    PROVE  /\ HomeDb(Marked(d, ids, column, value))
           /\ SameOwners(d, Marked(d, ids, column, value), {})
  <1> DEFINE m == Marked(d, ids, column, value)
  <1>1. DOMAIN m = DOMAIN d
    BY DEF Marked
  <1>2. \A t \in Tables \ {"entries"} : m[t] = d[t]
    BY DEF Marked, HomeDb, Columns
  <1>3. m.entries = [e \in DOMAIN d.entries |->
                        IF e \in ids THEN [d.entries[e] EXCEPT ![column] = value] ELSE d.entries[e]]
    BY DEF Marked, HomeDb, Columns, Tables
  <1>4. /\ DOMAIN m.entries = DOMAIN d.entries
        /\ \A e \in DOMAIN d.entries :
              /\ DOMAIN m.entries[e] = DOMAIN d.entries[e]
              /\ m.entries[e].owner = d.entries[e].owner
              /\ m.entries[e].feed = d.entries[e].feed
    BY <1>3 DEF HomeDb, Columns
  <1> HIDE DEF m
  <1>5. Columns(m)
    BY <1>1, <1>2, <1>4 DEF HomeDb, Columns, Tables
  <1>6. ParentsAreThere(m)
    BY <1>2, <1>4 DEF HomeDb, ParentsAreThere, Tables
  <1>7. FiledAtHome(m)
    BY <1>2, <1>4 DEF HomeDb, FiledAtHome, ParentsAreThere, Tables
  <1>8. SameOwners(d, m, {})
    BY <1>2, <1>4 DEF SameOwners, Tables
  <1> QED BY <1>5, <1>6, <1>7, <1>8 DEF HomeDb, m

---------------------------------------------------------------------------
CallFields == {"phase", "method", "of", "under", "body", "by", "user", "admin", "row", "todo",
               "status", "before"}

LaterStatements == {"SetEntriesStatus", "SetEntriesStarredState", "UpdateEntryTitleAndContent"}
Creators == {"CreateUser", "CreateCategory", "CreateFeed", "InsertEntryForFeed", "CreateAPIKey"}
Programs ==
    {<<s>> : s \in {"CreateUser", "UpdateUser", "MarkAllAsRead", "CreateCategory", "UpdateCategory",
                    "MarkCategoryAsRead", "RemoveCategory", "CreateFeed", "UpdateFeed", "MarkFeedAsRead",
                    "RemoveFeed", "ToggleStarred", "Scrape", "UpdateEnclosure", "CreateAPIKey",
                    "DeleteAPIKey"} \cup LaterStatements}
    \cup {<<"Fetch", "CreateFeed">>, <<"Scrape", "UpdateEntryTitleAndContent">>,
          <<"SetEntriesStatus", "SetEntriesStarredState">>, <<"InsertEntryForFeed", "SetEntriesStatus">>,
          <<"InsertEntryForFeed", "SetEntriesStatus", "SetEntriesStarredState">>}

CallsTyped ==
    /\ DOMAIN apiCall = Callers
    /\ \A c \in Callers :
          /\ DOMAIN apiCall[c] = CallFields
          /\ {"owner", "feed", "entry"} \cap DOMAIN apiCall[c].body = {}
          /\ apiCall[c].phase \in {"idle", "sent", "known", "inside", "writing", "answered"}
          /\ apiCall[c].phase = "writing" => apiCall[c].todo \in Programs

(* A call that may still make a row; its id is no row's before.            *)
Makes(c) ==
    \/ apiCall[c].phase \in {"idle", "sent", "known", "inside"}
    \/ apiCall[c].phase = "writing" /\ Head(apiCall[c].todo) \in Creators \cup {"Fetch"}

NewIdsAreFree == \A c \in Callers : Makes(c) => \A t \in Tables : NewId(c) \notin DOMAIN apiDb[t]

(* An id that was once a row's of the owner's, and is never another's.     *)
Refers(table, id, owner) ==
    /\ id \in DOMAIN apiDb[table] => apiDb[table][id].owner = owner
    /\ \A x \in Callers : Makes(x) => id # NewId(x)

(* What a handler has found holds when its statement runs, unless the row  *)
(* is gone by then.                                                        *)
Carries(statement, who, of, row) ==
    /\ statement \in {"Fetch", "CreateFeed"} => Refers("categories", row.category, who)
    /\ statement = "UpdateFeed" =>
          /\ {"owner", "category"} \subseteq DOMAIN row /\ row.owner = who
          /\ Refers("categories", row.category, who)
    /\ statement = "UpdateCategory" => "owner" \in DOMAIN row /\ row.owner = who
    /\ statement = "InsertEntryForFeed" => Refers("feeds", of, who)
    /\ statement = "UpdateEnclosure" =>
          {"owner", "entry"} \subseteq DOMAIN row /\ Refers("entries", row.entry, row.owner)

FindingsHold ==
    \A c \in Callers : apiCall[c].phase = "writing" =>
       Carries(Head(apiCall[c].todo), apiCall[c].user, apiCall[c].of, apiCall[c].row)

ApiIInv == CallsTyped /\ HomeDb(apiDb) /\ NewIdsAreFree /\ FindingsHold

LEMMA ProgramsRun ==
    ASSUME NEW p \in Programs
    PROVE  \/ Tail(p) = <<>>
           \/ Tail(p) \in Programs /\ Head(p) = "Fetch" /\ Head(Tail(p)) = "CreateFeed"
           \/ Tail(p) \in Programs /\ Head(Tail(p)) \in LaterStatements
  <1>1. \A s \in LaterStatements \cup {"CreateFeed"} : <<s>> \in Programs
    BY DEF Programs
  <1>2. <<"SetEntriesStatus", "SetEntriesStarredState">> \in Programs
    BY DEF Programs
  <1>3. CASE \E s : p = <<s>>
    <2> PICK s : p = <<s>>
      BY <1>3
    <2>1. Tail(<<s>>) = <<>>
      OBVIOUS
    <2> QED BY <2>1
  <1>4. CASE \E s, t : p = <<s, t>>
    <2> PICK s, t : p = <<s, t>>
      BY <1>4
    <2>1. Tail(<<s, t>>) = <<t>> /\ Head(<<s, t>>) = s /\ Head(<<t>>) = t
      OBVIOUS
    <2>2. (s = "Fetch" /\ t = "CreateFeed") \/ t \in LaterStatements
      BY DEF Programs, LaterStatements
    <2> QED BY <1>1, <2>1, <2>2
  <1>5. CASE p = <<"InsertEntryForFeed", "SetEntriesStatus", "SetEntriesStarredState">>
    <2>1. /\ Tail(p) = <<"SetEntriesStatus", "SetEntriesStarredState">>
          /\ Head(Tail(p)) = "SetEntriesStatus"
      BY <1>5
    <2> QED BY <1>2, <2>1 DEF LaterStatements
  <1> QED BY <1>3, <1>4, <1>5 DEF Programs

LEMMA NewIdsDiffer == \A c, x \in Callers : NewId(c) = NewId(x) => c = x
  BY ApiAssumption DEF NewId

(* A step that lets no row change hands, and makes a row only for a call   *)
(* that makes no other.                                                    *)
LEMMA CallsStep ==
    ASSUME ApiIInv, NEW new, CallsTyped', HomeDb(apiDb'), SameOwners(apiDb, apiDb', new),
           \A x \in Callers : Makes(x)' => Makes(x),
           \A id \in new : \E x \in Callers : id = NewId(x) /\ Makes(x) /\ ~Makes(x)',
           \A x \in Callers : apiCall'[x].phase = "writing" =>
              Carries(Head(apiCall'[x].todo), apiCall'[x].user, apiCall'[x].of, apiCall'[x].row)
    PROVE  ApiIInv'
  <1>1. NewIdsAreFree'
    <2> SUFFICES ASSUME NEW x \in Callers, Makes(x)', NEW t \in Tables, NewId(x) \in DOMAIN apiDb'[t]
                 PROVE  FALSE
      BY DEF NewIdsAreFree, NewId
    <2>1. NewId(x) \notin new
      BY NewIdsDiffer
    <2>2. NewId(x) \in DOMAIN apiDb[t]
      BY <2>1 DEF SameOwners
    <2> QED BY <2>2 DEF ApiIInv, NewIdsAreFree
  <1>2. ASSUME NEW table \in {"categories", "feeds", "entries"}, NEW id, NEW owner, Refers(table, id, owner)
        PROVE  Refers(table, id, owner)'
    <2>1. id \notin new
      BY <1>2 DEF Refers
    <2>2. id \in DOMAIN apiDb'[table] => apiDb'[table][id].owner = owner
      BY <1>2, <2>1 DEF Refers, SameOwners, Tables
    <2>3. \A x \in Callers : Makes(x)' => id # NewId(x)
      BY <1>2 DEF Refers
    <2> QED BY <2>2, <2>3 DEF Refers, NewId
  <1>3. ASSUME NEW statement, NEW who, NEW of, NEW row, Carries(statement, who, of, row)
        PROVE  Carries(statement, who, of, row)'
    BY <1>2, <1>3 DEF Carries
  <1>4. FindingsHold'
    <2> SUFFICES ASSUME NEW x \in Callers, apiCall'[x].phase = "writing"
                 PROVE  Carries(Head(apiCall[x].todo), apiCall[x].user, apiCall[x].of, apiCall[x].row)'
      BY DEF FindingsHold
    <2> DEFINE q == apiCall'[x]
    <2>1. Carries(Head(q.todo), q.user, q.of, q.row)
      OBVIOUS
    <2>2. PICK statement, who, of, row :
             statement = Head(q.todo) /\ who = q.user /\ of = q.of /\ row = q.row
      OBVIOUS
    <2>3. Carries(statement, who, of, row)
      BY <2>1, <2>2
    <2>4. Carries(statement, who, of, row)'
      BY <2>3, <1>3
    <2> QED BY <2>2, <2>4
  <1> QED BY <1>1, <1>4 DEF ApiIInv

(* Most steps only say something of one call.                              *)
LEMMA ProceedsWith ==
    ASSUME CallsTyped, NEW c \in Callers, NEW changes, DOMAIN changes \subseteq CallFields,
           Proceed(c, changes)
    PROVE  /\ DOMAIN apiCall' = Callers
           /\ \A x \in Callers : DOMAIN apiCall'[x] = CallFields
           /\ \A x \in Callers : x # c => apiCall'[x] = apiCall[x]
           /\ \A f \in CallFields : apiCall'[c][f] = IF f \in DOMAIN changes THEN changes[f] ELSE apiCall[c][f]
  BY DEF CallsTyped, Proceed, ++

(* Before its handler goes on, a call only finds out who makes it; once it *)
(* is answered it does no more.                                            *)
LEMMA CallsProceed ==
    ASSUME ApiIInv, NEW c \in Callers, NEW changes, DOMAIN changes \subseteq CallFields,
           Proceed(c, changes), UNCHANGED apiDb,
           {"phase"} \subseteq DOMAIN changes,
           \/ changes.phase = "answered"
           \/ /\ changes.phase \in {"sent", "known", "inside"}
              /\ apiCall[c].phase \in {"idle", "sent", "known", "inside"},
           "body" \in DOMAIN changes => {"owner", "feed", "entry"} \cap DOMAIN changes.body = {}
    PROVE  ApiIInv'
  <1>1. /\ DOMAIN apiCall' = Callers
        /\ \A x \in Callers : DOMAIN apiCall'[x] = CallFields
        /\ \A x \in Callers : x # c => apiCall'[x] = apiCall[x]
        /\ \A f \in CallFields : apiCall'[c][f] = IF f \in DOMAIN changes THEN changes[f] ELSE apiCall[c][f]
    BY ProceedsWith DEF ApiIInv
  <1>2. apiCall'[c].phase = changes.phase
    BY <1>1 DEF CallFields
  <1>3. CallsTyped'
    <2>1. {"owner", "feed", "entry"} \cap DOMAIN apiCall'[c].body = {}
      BY <1>1 DEF CallFields, ApiIInv, CallsTyped
    <2> QED BY <1>1, <1>2, <2>1 DEF ApiIInv, CallsTyped
  <1>4. \A x \in Callers : Makes(x)' => Makes(x)
    BY <1>1, <1>2 DEF Makes
  <1>5. \A x \in Callers : apiCall'[x].phase = "writing" =>
           Carries(Head(apiCall'[x].todo), apiCall'[x].user, apiCall'[x].of, apiCall'[x].row)
    BY <1>1, <1>2 DEF ApiIInv, FindingsHold
  <1>6. HomeDb(apiDb') /\ SameOwners(apiDb, apiDb', {})
    BY NothingMoves DEF ApiIInv
  <1> QED BY <1>3, <1>4, <1>5, <1>6, CallsStep

LEMMA RepliesKeep ==
    ASSUME ApiIInv, NEW c \in Callers, NEW status, Reply(c, status)
    PROVE  ApiIInv'
  <1> DEFINE changes == [phase |-> "answered", status |-> status, row |-> NoChanges, todo |-> <<>>]
  <1>1. Proceed(c, changes) /\ UNCHANGED apiDb
    BY DEF Reply
  <1>2. DOMAIN changes = {"phase", "status", "row", "todo"} /\ changes.phase = "answered"
    OBVIOUS
  <1> HIDE DEF changes
  <1>3. DOMAIN changes \subseteq CallFields /\ "body" \notin DOMAIN changes
    BY <1>2 DEF CallFields
  <1> QED BY <1>1, <1>2, <1>3, CallsProceed

LEMMA GoingOnKeeps ==
    ASSUME ApiIInv, NEW c \in Callers, apiCall[c].phase = "inside", NEW row, NEW statements \in Programs,
           NEW status, GoOn(c, row, statements, status),
           Carries(Head(statements), apiCall[c].user, apiCall[c].of, row)
    PROVE  ApiIInv'
  <1> DEFINE changes == [phase |-> "writing", row |-> row, todo |-> statements, status |-> status]
  <1>1. Proceed(c, changes) /\ UNCHANGED apiDb
    BY DEF GoOn
  <1>2. /\ DOMAIN changes = {"phase", "row", "todo", "status"} /\ changes.phase = "writing"
        /\ changes.row = row /\ changes.todo = statements
    OBVIOUS
  <1> HIDE DEF changes
  <1>3. DOMAIN changes \subseteq CallFields
    BY <1>2 DEF CallFields
  <1>4. /\ DOMAIN apiCall' = Callers
        /\ \A x \in Callers : DOMAIN apiCall'[x] = CallFields
        /\ \A x \in Callers : x # c => apiCall'[x] = apiCall[x]
        /\ \A f \in CallFields : apiCall'[c][f] = IF f \in DOMAIN changes THEN changes[f] ELSE apiCall[c][f]
    BY <1>1, <1>3, ProceedsWith DEF ApiIInv
  <1>5. /\ apiCall'[c].phase = "writing" /\ apiCall'[c].row = row /\ apiCall'[c].todo = statements
        /\ apiCall'[c].user = apiCall[c].user /\ apiCall'[c].of = apiCall[c].of
        /\ apiCall'[c].body = apiCall[c].body
    BY <1>2, <1>4 DEF CallFields
  <1>6. CallsTyped'
    BY <1>4, <1>5 DEF ApiIInv, CallsTyped
  <1>7. \A x \in Callers : Makes(x)' => Makes(x)
    BY <1>4 DEF Makes
  <1>8. \A x \in Callers : apiCall'[x].phase = "writing" =>
           Carries(Head(apiCall'[x].todo), apiCall'[x].user, apiCall'[x].of, apiCall'[x].row)
    BY <1>4, <1>5 DEF ApiIInv, FindingsHold
  <1>9. HomeDb(apiDb') /\ SameOwners(apiDb, apiDb', {})
    BY <1>1, NothingMoves DEF ApiIInv
  <1> QED BY <1>6, <1>7, <1>8, <1>9, CallsStep

LEMMA BeginKeeps ==
    ASSUME ApiIInv, NEW c \in Callers, Begin(c)
    PROVE  ApiIInv'
  <1>1. PICK credential \in Credentials : \E call \in CallsOf(credential) :
           Proceed(c, call ++ [phase |-> "sent", by |-> credential, before |-> {apiDb}])
    BY DEF Begin
  <1>2. PICK call \in CallsOf(credential) :
           Proceed(c, call ++ [phase |-> "sent", by |-> credential, before |-> {apiDb}])
    BY <1>1
  <1> DEFINE start == [phase |-> "sent", by |-> credential, before |-> {apiDb}]
             changes == call ++ start
  <1>3. /\ DOMAIN call = {"method", "of", "under", "body"}
        /\ {"owner", "feed", "entry"} \cap DOMAIN call.body = {}
    BY ApiAssumption DEF Formed
  <1>4. DOMAIN start = {"phase", "by", "before"} /\ start.phase = "sent"
    OBVIOUS
  <1> HIDE DEF start
  <1>5. /\ DOMAIN changes = {"method", "of", "under", "body", "phase", "by", "before"}
        /\ changes.phase = "sent" /\ changes.body = call.body
    BY <1>3, <1>4 DEF ++
  <1>6. Proceed(c, changes)
    BY <1>2 DEF start
  <1>7. UNCHANGED apiDb /\ apiCall[c].phase = "idle"
    BY DEF Begin
  <1> HIDE DEF changes
  <1>8. DOMAIN changes \subseteq CallFields
    BY <1>5 DEF CallFields
  <1> QED BY <1>3, <1>5, <1>6, <1>7, <1>8, CallsProceed

LEMMA EntersKeep ==
    ASSUME ApiIInv, NEW c \in Callers, NEW who, apiCall[c].phase \in {"sent", "known"},
           Enter(c, who) \/ (Proceed(c, [phase |-> "known"]) /\ UNCHANGED apiDb)
    PROVE  ApiIInv'
  <1>1. CASE Enter(c, who)
    <2> DEFINE changes == [phase |-> "inside", user |-> who, admin |-> apiDb.users[who].admin]
    <2>1. Proceed(c, changes) /\ UNCHANGED apiDb
      BY <1>1 DEF Enter
    <2>2. DOMAIN changes = {"phase", "user", "admin"} /\ changes.phase = "inside"
      OBVIOUS
    <2> HIDE DEF changes
    <2>3. DOMAIN changes \subseteq CallFields /\ "body" \notin DOMAIN changes
      BY <2>2 DEF CallFields
    <2> QED BY <2>1, <2>2, <2>3, CallsProceed
  <1>2. CASE Proceed(c, [phase |-> "known"]) /\ UNCHANGED apiDb
    <2> DEFINE changes == [phase |-> "known"]
    <2>2. DOMAIN changes = {"phase"} /\ changes.phase = "known" /\ Proceed(c, changes)
      BY <1>2
    <2> HIDE DEF changes
    <2>3. DOMAIN changes \subseteq CallFields /\ "body" \notin DOMAIN changes
      BY <2>2 DEF CallFields
    <2> QED BY <1>2, <2>2, <2>3, CallsProceed
  <1> QED BY <1>1, <1>2

LEMMA IdentifyingKeeps ==
    ASSUME ApiIInv, NEW c \in Callers,
           validateAPIKeyAuth(c) \/ CheckPassword(c) \/ validateBasicAuth(c)
    PROVE  ApiIInv'
  <1>1. CASE validateAPIKeyAuth(c)
    BY <1>1, EntersKeep, RepliesKeep DEF validateAPIKeyAuth
  <1>2. CASE CheckPassword(c)
    BY <1>2, EntersKeep, RepliesKeep DEF CheckPassword
  <1>3. CASE validateBasicAuth(c)
    BY <1>3, EntersKeep, RepliesKeep DEF validateBasicAuth
  <1> QED BY <1>1, <1>2, <1>3

LEMMA LookingKeeps ==
    ASSUME ApiIInv, NEW c \in Callers, Looking(c)
    PROVE  ApiIInv'
  <1>1. CASE UserReads(c) \/ dispatchUserLookup(c)
    BY <1>1, RepliesKeep DEF UserReads, dispatchUserLookup, Answers, IfAllowed
  <1>2. CASE CategoryReads(c) \/ FeedReads(c)
    BY <1>2, RepliesKeep DEF CategoryReads, FeedReads, Answers
  <1>3. CASE EntryReads(c) \/ findEntries(c)
    BY <1>3, RepliesKeep DEF EntryReads, findEntries, Answers
  <1> QED BY <1>1, <1>2, <1>3 DEF Looking

(* Short programs, one after the other.                                    *)
LEMMA TuplesJoin ==
    ASSUME NEW a, NEW b, NEW c
    PROVE  /\ <<>> \o <<>> = <<>> /\ <<>> \o <<a>> = <<a>> /\ <<a>> \o <<>> = <<a>>
           /\ <<a, b>> \o <<>> = <<a, b>>
           /\ <<a>> \o <<b>> = <<a, b>>
           /\ <<a, b>> \o <<c>> = <<a, b, c>>
  <1> DEFINE S == {a, b, c}
  <1>1. /\ <<>> \in Seq(S) /\ <<a>> \in Seq(S) /\ <<b>> \in Seq(S) /\ <<c>> \in Seq(S)
        /\ <<a, b>> \in Seq(S) /\ <<a, b, c>> \in Seq(S)
    OBVIOUS
  <1> HIDE DEF S
  <1>2. /\ <<>> \o <<>> = <<>> /\ <<>> \o <<a>> = <<a>> /\ <<a>> \o <<>> = <<a>>
        /\ <<a, b>> \o <<>> = <<a, b>>
    BY <1>1, ConcatEmptySeq
  <1>3. <<a>> \o <<b>> = <<a, b>>
    <2> DEFINE s == <<a>> \o <<b>>
    <2>1. s \in Seq(S) /\ Len(s) = 2
      BY <1>1, ConcatProperties
    <2>2. s[1] = a /\ s[2] = b
      BY <1>1, <2>1, ConcatProperties
    <2>3. \A i \in 1..2 : s[i] = <<a, b>>[i]
      BY <2>2
    <2> HIDE DEF s
    <2>4. s = <<a, b>>
      BY <1>1, <2>1, <2>3, SeqEqual
    <2> QED BY <2>4 DEF s
  <1>4. <<a, b>> \o <<c>> = <<a, b, c>>
    <2> DEFINE s == <<a, b>> \o <<c>>
    <2>1. s \in Seq(S) /\ Len(s) = 3
      BY <1>1, ConcatProperties
    <2>2. s[1] = a /\ s[2] = b /\ s[3] = c
      BY <1>1, <2>1, ConcatProperties
    <2>3. \A i \in 1..3 : s[i] = <<a, b, c>>[i]
      BY <2>2
    <2> HIDE DEF s
    <2>4. s = <<a, b, c>>
      BY <1>1, <2>1, <2>3, SeqEqual
    <2> QED BY <2>4 DEF s
  <1> QED BY <1>2, <1>3, <1>4

(* Statements that need nothing of what the handler has found.             *)
LEMMA GoingOnPlainly ==
    ASSUME ApiIInv, NEW c \in Callers, apiCall[c].phase = "inside", NEW row, NEW statements \in Programs,
           NEW status, GoOn(c, row, statements, status),
           Head(statements) \notin {"Fetch", "CreateFeed", "UpdateFeed", "UpdateCategory",
                                    "InsertEntryForFeed", "UpdateEnclosure"}
    PROVE  ApiIInv'
  BY GoingOnKeeps DEF Carries

LEMMA GoingOnOnce ==
    ASSUME ApiIInv, NEW c \in Callers, apiCall[c].phase = "inside", NEW row, NEW status,
           NEW s \in {"CreateUser", "UpdateUser", "MarkAllAsRead", "CreateCategory", "MarkCategoryAsRead",
                      "RemoveCategory", "MarkFeedAsRead", "RemoveFeed", "ToggleStarred", "Scrape",
                      "UpdateEntryTitleAndContent", "CreateAPIKey", "DeleteAPIKey"},
           GoOn(c, row, <<s>>, status)
    PROVE  ApiIInv'
  <1>1. <<s>> \in Programs /\ Head(<<s>>) = s
    BY DEF Programs, LaterStatements
  <1> QED BY <1>1, GoingOnPlainly

LEMMA AnsweringFirstKeeps ==
    ASSUME ApiIInv, NEW c \in Callers, NEW status, UNCHANGED apiDb,
           Proceed(c, [phase |-> "answered", status |-> status])
    PROVE  ApiIInv'
  <1> DEFINE changes == [phase |-> "answered", status |-> status]
  <1>1. DOMAIN changes = {"phase", "status"} /\ changes.phase = "answered" /\ Proceed(c, changes)
    OBVIOUS
  <1> HIDE DEF changes
  <1>2. DOMAIN changes \subseteq CallFields /\ "body" \notin DOMAIN changes
    BY <1>1 DEF CallFields
  <1> QED BY <1>1, <1>2, CallsProceed

LEMMA UserHandlersKeep ==
    ASSUME ApiIInv, NEW c \in Callers,
           createUser(c) \/ updateUser(c) \/ markUserAsRead(c) \/ removeUser(c)
    PROVE  ApiIInv'
  <1>0. apiCall[c].phase = "inside"
    BY DEF createUser, updateUser, markUserAsRead, removeUser, AtHandler
  <1>1. CASE createUser(c)
    BY <1>0, <1>1, GoingOnOnce, RepliesKeep DEF createUser, IfAllowed
  <1>2. CASE updateUser(c)
    BY <1>0, <1>2, GoingOnOnce, RepliesKeep DEF updateUser, IfAllowed
  <1>3. CASE markUserAsRead(c)
    BY <1>0, <1>3, GoingOnOnce, RepliesKeep DEF markUserAsRead, IfAllowed
  <1>4. CASE removeUser(c)
    BY <1>4, AnsweringFirstKeeps, RepliesKeep DEF removeUser, IfAllowed
  <1> QED BY <1>1, <1>2, <1>3, <1>4

(* Whoever finds a row finds an id that is not to be given out again.      *)
LEMMA FoundRowsAreOld ==
    ASSUME ApiIInv, NEW table \in Tables, NEW id \in DOMAIN apiDb[table], NEW owner,
           apiDb[table][id].owner = owner
    PROVE  Refers(table, id, owner)
  BY DEF Refers, ApiIInv, NewIdsAreFree

LEMMA CategoryHandlersKeep ==
    ASSUME ApiIInv, NEW c \in Callers,
           createCategory(c) \/ updateCategory(c) \/ markCategoryAsRead(c) \/ removeCategory(c)
    PROVE  ApiIInv'
  <1>0. apiCall[c].phase = "inside"
    BY DEF createCategory, updateCategory, markCategoryAsRead, removeCategory, OfCategory, AtHandler
  <1>1. CASE createCategory(c)
    BY <1>0, <1>1, GoingOnOnce, RepliesKeep DEF createCategory
  <1>2. CASE updateCategory(c)
    <2>1. CASE \E status : Reply(c, status)
      BY <2>1, RepliesKeep
    <2> DEFINE of == apiCall[c].of
               row == PatchCategory(apiDb.categories[of], apiCall[c].body)
    <2>2. CASE of \in Own(apiDb, "categories", apiCall[c].user) /\ GoOn(c, row, <<"UpdateCategory">>, 201)
      <3>1. of \in DOMAIN apiDb.categories /\ apiDb.categories[of].owner = apiCall[c].user
        BY <2>2 DEF Own
      <3>2. "owner" \in DOMAIN apiDb.categories[of] /\ "owner" \notin DOMAIN apiCall[c].body
        BY <3>1 DEF ApiIInv, HomeDb, Columns, CallsTyped
      <3>3. "owner" \in DOMAIN row /\ row.owner = apiCall[c].user
        BY <3>1, <3>2 DEF PatchCategory, ++
      <3> HIDE DEF row
      <3>4. <<"UpdateCategory">> \in Programs /\ Head(<<"UpdateCategory">>) = "UpdateCategory"
        BY DEF Programs
      <3>5. Carries("UpdateCategory", apiCall[c].user, apiCall[c].of, row)
        BY <3>3 DEF Carries
      <3> QED BY <1>0, <2>2, <3>4, <3>5, GoingOnKeeps
    <2> QED BY <1>2, <2>1, <2>2 DEF updateCategory
  <1>3. CASE markCategoryAsRead(c) \/ removeCategory(c)
    BY <1>0, <1>3, GoingOnOnce, RepliesKeep DEF markCategoryAsRead, removeCategory, OfCategory
  <1> QED BY <1>1, <1>2, <1>3

LEMMA CreateFeedKeeps ==
    ASSUME ApiIInv, NEW c \in Callers, createFeed(c)
    PROVE  ApiIInv'
  <1>0. apiCall[c].phase = "inside"
    BY DEF createFeed, AtHandler
  <1>1. CASE \E status : Reply(c, status)
    BY <1>1, RepliesKeep
  <1>2. ASSUME NEW category, CategoryIDExists(apiCall[c], category),
               GoOn(c, [category |-> category], <<"Fetch", "CreateFeed">>, 201)
        PROVE  ApiIInv'
    <2>1. category \in DOMAIN apiDb.categories /\ apiDb.categories[category].owner = apiCall[c].user
      BY <1>2 DEF CategoryIDExists, Own
    <2>2. Refers("categories", category, apiCall[c].user)
      BY <2>1, FoundRowsAreOld DEF Tables
    <2>3. Carries("Fetch", apiCall[c].user, apiCall[c].of, [category |-> category])
      BY <2>2 DEF Carries
    <2>4. <<"Fetch", "CreateFeed">> \in Programs /\ Head(<<"Fetch", "CreateFeed">>) = "Fetch"
      BY DEF Programs
    <2> QED BY <1>0, <1>2, <2>3, <2>4, GoingOnKeeps
  <1>3. ASSUME NEW category \in FirstCategory(apiCall[c])
        PROVE  CategoryIDExists(apiCall[c], category)
    BY DEF FirstCategory, FirstCategories, CategoryIDExists
  <1>4. CASE Named(apiCall[c].body, "category")
    BY <1>1, <1>2, <1>4 DEF createFeed, ValidateFeedCreation
  <1>5. CASE ~Named(apiCall[c].body, "category")
    BY <1>1, <1>2, <1>3, <1>5 DEF createFeed
  <1> QED BY <1>4, <1>5

LEMMA UpdateFeedKeeps ==
    ASSUME ApiIInv, NEW c \in Callers, updateFeed(c)
    PROVE  ApiIInv'
  <1>0. apiCall[c].phase = "inside"
    BY DEF updateFeed, AtHandler
  <1>1. CASE \E status : Reply(c, status)
    BY <1>1, RepliesKeep
  <1> DEFINE of == apiCall[c].of
             who == apiCall[c].user
             body == apiCall[c].body
             row == PatchFeed(apiDb.feeds[of], body)
  <1>2. CASE /\ of \in Own(apiDb, "feeds", who)
             /\ Named(body, "category") => CategoryIDExists(apiCall[c], body.category)
             /\ GoOn(c, row, <<"UpdateFeed">>, 201)
    <2>1. of \in DOMAIN apiDb.feeds /\ apiDb.feeds[of].owner = who
      BY <1>2 DEF Own
    <2>2. {"owner", "category"} \subseteq DOMAIN apiDb.feeds[of] /\ "owner" \notin DOMAIN body
      BY <2>1 DEF ApiIInv, HomeDb, Columns, CallsTyped
    <2> DEFINE empty == {column \in DOMAIN body \cap {"url", "title"} : body[column] = ""}
               said == [column \in DOMAIN body \ empty |-> body[column]]
    <2>3. row = ([errors |-> 0] ++ said) ++ apiDb.feeds[of]
      BY DEF PatchFeed
    <2>4. /\ "owner" \notin DOMAIN said
          /\ "category" \in DOMAIN said => "category" \in DOMAIN body /\ said.category = body.category
      BY <2>2
    <2> HIDE DEF said
    <2>5. /\ {"owner", "category"} \subseteq DOMAIN row /\ row.owner = who
          /\ row.category = IF "category" \in DOMAIN said THEN said.category ELSE apiDb.feeds[of].category
      BY <2>1, <2>2, <2>3, <2>4 DEF ++
    <2> HIDE DEF row
    <2>6. /\ row.category \in DOMAIN apiDb.categories
          /\ apiDb.categories[row.category].owner = who
      <3>1. CASE "category" \in DOMAIN said
        BY <1>2, <2>4, <2>5, <3>1 DEF Named, CategoryIDExists, Own
      <3>2. CASE "category" \notin DOMAIN said
        BY <2>1, <2>5, <3>2 DEF ApiIInv, HomeDb, ParentsAreThere, FiledAtHome
      <3> QED BY <3>1, <3>2
    <2>7. Refers("categories", row.category, who)
      BY <2>6, FoundRowsAreOld DEF Tables
    <2>8. Carries("UpdateFeed", who, of, row)
      BY <2>5, <2>7 DEF Carries
    <2>9. <<"UpdateFeed">> \in Programs /\ Head(<<"UpdateFeed">>) = "UpdateFeed"
      BY DEF Programs
    <2> QED BY <1>0, <1>2, <2>8, <2>9, GoingOnKeeps
  <1> HIDE DEF row
  <1>3. \/ \E status : Reply(c, status)
        \/ /\ of \in Own(apiDb, "feeds", who)
           /\ Named(body, "category") => CategoryIDExists(apiCall[c], body.category)
           /\ GoOn(c, row, <<"UpdateFeed">>, 201)
    BY DEF updateFeed, ValidateFeedModification, row
  <1> QED BY <1>1, <1>2, <1>3

LEMMA FeedHandlersKeep ==
    ASSUME ApiIInv, NEW c \in Callers,
           createFeed(c) \/ updateFeed(c) \/ markFeedAsRead(c) \/ removeFeed(c)
    PROVE  ApiIInv'
  <1>1. CASE markFeedAsRead(c) \/ removeFeed(c)
    <2>0. apiCall[c].phase = "inside"
      BY <1>1 DEF markFeedAsRead, removeFeed, OfFeed, AtHandler
    <2> QED BY <1>1, <2>0, GoingOnOnce, RepliesKeep DEF markFeedAsRead, removeFeed, OfFeed
  <1> QED BY <1>1, CreateFeedKeeps, UpdateFeedKeeps

LEMMA EntryHandlersKeep ==
    ASSUME ApiIInv, NEW c \in Callers,
           setEntryStatusAndStarred(c) \/ toggleStarred(c) \/ saveEntry(c) \/ updateEntry(c)
              \/ fetchContent(c) \/ flushHistory(c)
    PROVE  ApiIInv'
  <1>0. apiCall[c].phase = "inside"
    BY DEF setEntryStatusAndStarred, toggleStarred, saveEntry, updateEntry, fetchContent, flushHistory,
           AtHandler
  <1>1. CASE setEntryStatusAndStarred(c)
    <2>1. CASE \E status : Reply(c, status)
      BY <2>1, RepliesKeep
    <2>2. ASSUME NEW statements \in {<<"SetEntriesStatus">>, <<"SetEntriesStarredState">>,
                                     <<"SetEntriesStatus", "SetEntriesStarredState">>},
                 GoOn(c, NoChanges, statements, 204)
          PROVE  ApiIInv'
      <3>1. statements \in Programs /\ Head(statements) \in {"SetEntriesStatus", "SetEntriesStarredState"}
        BY <2>2 DEF Programs, LaterStatements
      <3> QED BY <1>0, <2>2, <3>1, GoingOnPlainly
    <2> DEFINE one == IF Named(apiCall[c].body, "unread") THEN <<"SetEntriesStatus">> ELSE <<>>
               other == IF Named(apiCall[c].body, "starred") THEN <<"SetEntriesStarredState">> ELSE <<>>
    <2>3. one \o other \in {<<>>, <<"SetEntriesStatus">>, <<"SetEntriesStarredState">>,
                            <<"SetEntriesStatus", "SetEntriesStarredState">>}
      <3>1. /\ <<>> \o <<>> = <<>>
            /\ <<"SetEntriesStatus">> \o <<>> = <<"SetEntriesStatus">>
            /\ <<>> \o <<"SetEntriesStarredState">> = <<"SetEntriesStarredState">>
            /\ <<"SetEntriesStatus">> \o <<"SetEntriesStarredState">>
                  = <<"SetEntriesStatus", "SetEntriesStarredState">>
        BY TuplesJoin
      <3>2. /\ one \in {<<>>, <<"SetEntriesStatus">>}
            /\ other \in {<<>>, <<"SetEntriesStarredState">>}
        OBVIOUS
      <3> HIDE DEF one, other
      <3> QED BY <3>1, <3>2
    <2>4. \/ \E status : Reply(c, status)
          \/ one \o other # <<>> /\ GoOn(c, NoChanges, one \o other, 204)
      BY <1>1 DEF setEntryStatusAndStarred
    <2> HIDE DEF one, other
    <2> QED BY <2>1, <2>2, <2>3, <2>4
  <1>2. CASE toggleStarred(c)
    BY <1>0, <1>2, GoingOnOnce DEF toggleStarred
  <1>3. CASE saveEntry(c)
    BY <1>3, RepliesKeep DEF saveEntry
  <1>4. CASE updateEntry(c)
    BY <1>0, <1>4, GoingOnOnce, RepliesKeep DEF updateEntry
  <1>5. CASE fetchContent(c)
    <2>1. /\ <<"Scrape", "UpdateEntryTitleAndContent">> \in Programs
          /\ Head(<<"Scrape", "UpdateEntryTitleAndContent">>) = "Scrape"
      BY DEF Programs
    <2>2. PICK row : \/ \E status : Reply(c, status)
                     \/ GoOn(c, row, <<"Scrape">>, 200)
                     \/ GoOn(c, row, <<"Scrape", "UpdateEntryTitleAndContent">>, 200)
      BY <1>5 DEF fetchContent
    <2> QED BY <1>0, <2>1, <2>2, GoingOnOnce, GoingOnPlainly, RepliesKeep
  <1>6. CASE flushHistory(c)
    BY <1>6, AnsweringFirstKeeps DEF flushHistory
  <1> QED BY <1>1, <1>2, <1>3, <1>4, <1>5, <1>6

LEMMA ImportKeeps ==
    ASSUME ApiIInv, NEW c \in Callers, importFeedEntry(c)
    PROVE  ApiIInv'
  <1>0. apiCall[c].phase = "inside"
    BY DEF importFeedEntry, AtHandler
  <1>1. CASE \E status : Reply(c, status)
    BY <1>1, RepliesKeep
  <1> DEFINE of == apiCall[c].of
             starring == IF apiCall[c].body.starred THEN <<"SetEntriesStarredState">> ELSE <<>>
             statements == <<"InsertEntryForFeed", "SetEntriesStatus">> \o starring
  <1>2. CASE of \in Own(apiDb, "feeds", apiCall[c].user) /\ GoOn(c, NoChanges, statements, 201)
    <2>1. of \in DOMAIN apiDb.feeds /\ apiDb.feeds[of].owner = apiCall[c].user
      BY <1>2 DEF Own
    <2>2. Refers("feeds", of, apiCall[c].user)
      BY <2>1, FoundRowsAreOld DEF Tables
    <2>3. Carries("InsertEntryForFeed", apiCall[c].user, of, NoChanges)
      BY <2>2 DEF Carries
    <2>4. statements \in {<<"InsertEntryForFeed", "SetEntriesStatus">>,
                          <<"InsertEntryForFeed", "SetEntriesStatus", "SetEntriesStarredState">>}
      <3>1. /\ <<"InsertEntryForFeed", "SetEntriesStatus">> \o <<>>
                  = <<"InsertEntryForFeed", "SetEntriesStatus">>
            /\ <<"InsertEntryForFeed", "SetEntriesStatus">> \o <<"SetEntriesStarredState">>
                  = <<"InsertEntryForFeed", "SetEntriesStatus", "SetEntriesStarredState">>
        BY TuplesJoin
      <3>2. starring \in {<<>>, <<"SetEntriesStarredState">>}
        OBVIOUS
      <3> HIDE DEF starring
      <3> QED BY <3>1, <3>2
    <2>5. statements \in Programs /\ Head(statements) = "InsertEntryForFeed"
      BY <2>4 DEF Programs
    <2> HIDE DEF statements
    <2> QED BY <1>0, <1>2, <2>3, <2>5, GoingOnKeeps
  <1>3. \/ \E status : Reply(c, status)
        \/ of \in Own(apiDb, "feeds", apiCall[c].user) /\ GoOn(c, NoChanges, statements, 201)
    BY DEF importFeedEntry
  <1> QED BY <1>1, <1>2, <1>3

LEMMA EnclosureHandlerKeeps ==
    ASSUME ApiIInv, NEW c \in Callers, updateEnclosureByID(c)
    PROVE  ApiIInv'
  <1>0. apiCall[c].phase = "inside"
    BY DEF updateEnclosureByID, AtHandler
  <1>1. CASE \E status : Reply(c, status)
    BY <1>1, RepliesKeep
  <1> DEFINE of == apiCall[c].of
             row == apiCall[c].body ++ apiDb.media[of]
  <1>2. CASE of \in Own(apiDb, "media", apiCall[c].user) /\ GoOn(c, row, <<"UpdateEnclosure">>, 204)
    <2>1. of \in DOMAIN apiDb.media
      BY <1>2 DEF Own
    <2>2. /\ {"owner", "entry"} \subseteq DOMAIN apiDb.media[of]
          /\ "owner" \notin DOMAIN apiCall[c].body /\ "entry" \notin DOMAIN apiCall[c].body
      BY <2>1 DEF ApiIInv, HomeDb, Columns, CallsTyped
    <2>3. /\ {"owner", "entry"} \subseteq DOMAIN row
          /\ row.owner = apiDb.media[of].owner /\ row.entry = apiDb.media[of].entry
      BY <2>2 DEF ++
    <2> HIDE DEF row
    <2>4. row.entry \in DOMAIN apiDb.entries /\ apiDb.entries[row.entry].owner = row.owner
      BY <2>1, <2>3 DEF ApiIInv, HomeDb, ParentsAreThere, FiledAtHome
    <2>5. Refers("entries", row.entry, row.owner)
      BY <2>4, FoundRowsAreOld DEF Tables
    <2>6. Carries("UpdateEnclosure", apiCall[c].user, of, row)
      BY <2>3, <2>5 DEF Carries
    <2>7. <<"UpdateEnclosure">> \in Programs /\ Head(<<"UpdateEnclosure">>) = "UpdateEnclosure"
      BY DEF Programs
    <2> QED BY <1>0, <1>2, <2>6, <2>7, GoingOnKeeps
  <1> HIDE DEF row
  <1>3. \/ \E status : Reply(c, status)
        \/ of \in Own(apiDb, "media", apiCall[c].user) /\ GoOn(c, row, <<"UpdateEnclosure">>, 204)
    BY DEF updateEnclosureByID, row
  <1> QED BY <1>1, <1>2, <1>3

LEMMA HandlingKeeps ==
    ASSUME ApiIInv, NEW c \in Callers, Handling(c)
    PROVE  ApiIInv'
  <1>1. CASE createAPIKey(c) \/ deleteAPIKey(c)
    <2>0. apiCall[c].phase = "inside"
      BY <1>1 DEF createAPIKey, deleteAPIKey, AtHandler
    <2> QED BY <1>1, <2>0, GoingOnOnce, RepliesKeep DEF createAPIKey, deleteAPIKey
  <1> QED BY <1>1, UserHandlersKeep, CategoryHandlersKeep, FeedHandlersKeep, EntryHandlersKeep, ImportKeeps,
             EnclosureHandlerKeeps DEF Handling

---------------------------------------------------------------------------
(* The statements: those that make a row of a new id, and those that do    *)
(* not.                                                                    *)

LEMMA UnlessCommits == \A broken, d : \A e \in Unless(broken, d) : ~broken /\ e \in Committed(d)
  BY DEF Unless

(* A row that is written over one of the same owner.                       *)
LEMMA WriteOver ==
    ASSUME NEW d, HomeDb(d), NEW table \in Tables, NEW id \in DOMAIN d[table], NEW row,
           RowFits(d, table, id, row), NEW e \in Committed(Put(d, table, id, row))
    PROVE  HomeDb(e) /\ SameOwners(d, e, {})
  BY PutCommits, MoreIsNew

LEMMA WriteNew ==
    ASSUME NEW d, HomeDb(d), NEW table \in Tables, NEW id, NEW row,
           RowFits(d, table, id, row), NEW e \in Committed(Put(d, table, id, row))
    PROVE  HomeDb(e) /\ SameOwners(d, e, {id})
  <1>1. HomeDb(e) /\ SameOwners(d, e, {id} \ DOMAIN d[table])
    BY PutCommits
  <1>2. {id} \ DOMAIN d[table] \subseteq {id}
    OBVIOUS
  <1> QED BY <1>1, <1>2, MoreIsNew

LEMMA CreateUserKeeps ==
    ASSUME NEW d, HomeDb(d), NEW c, NEW q, \A t \in Tables : NewId(c) \notin DOMAIN d[t],
           NEW e \in storeCreateUser(c, q, d)
    PROVE  HomeDb(e) /\ SameOwners(d, e, {NewId(c)})
  <1> DEFINE id == NewId(c)
             home == [owner |-> id, title |-> "All"]
  <1>1. PICK row : e \in Committed(Put(Put(d, "users", id, row), "categories", id, home))
    BY UnlessCommits DEF storeCreateUser
  <1> DEFINE p == Put(d, "users", id, row)
  <1>2. RowFits(d, "users", id, row)
    BY DEF RowFits
  <1>3. Columns(p) /\ OwnersAgree(p) /\ SameOwners(d, p, {id} \ DOMAIN d.users)
    BY <1>2, PutFits DEF Tables
  <1>4. \A t \in Tables \ {"users"} : p[t] = d[t]
    BY PutIs DEF HomeDb, Tables
  <1> HIDE DEF p
  <1>5. HomeDb(p)
    BY <1>3, <1>4 DEF HomeDb, ParentsAreThere, FiledAtHome, Tables
  <1>6. RowFits(p, "categories", id, home)
    BY <1>4 DEF RowFits, Tables
  <1> HIDE DEF home
  <1>7. HomeDb(e) /\ SameOwners(p, e, {id})
    BY <1>1, <1>5, <1>6, WriteNew DEF Tables, p
  <1>8. SameOwners(d, e, {id})
    BY <1>3, <1>7 DEF SameOwners
  <1> QED BY <1>7, <1>8

LEMMA UpdateUserKeeps ==
    ASSUME NEW d, HomeDb(d), NEW q, NEW e \in storeUpdateUser(q, d)
    PROVE  HomeDb(e) /\ SameOwners(d, e, {})
  <1>1. CASE q.of \notin DOMAIN d.users
    BY <1>1, NothingMoves DEF storeUpdateUser
  <1>2. CASE q.of \in DOMAIN d.users
    <2>1. PICK row : e \in Committed(Put(d, "users", q.of, row))
      BY <1>2, UnlessCommits DEF storeUpdateUser
    <2>2. RowFits(d, "users", q.of, row)
      BY DEF RowFits
    <2> QED BY <1>2, <2>1, <2>2, WriteOver DEF Tables
  <1> QED BY <1>1, <1>2

LEMMA CreateCategoryKeeps ==
    ASSUME NEW d, HomeDb(d), NEW c, NEW q, NewId(c) \notin DOMAIN d.categories,
           NEW e \in storeCreateCategory(c, q, d)
    PROVE  HomeDb(e) /\ SameOwners(d, e, {NewId(c)})
  <1> DEFINE row == [owner |-> q.user, title |-> q.body.title]
  <1>1. e \in Committed(Put(d, "categories", NewId(c), row))
    BY UnlessCommits DEF storeCreateCategory
  <1>2. RowFits(d, "categories", NewId(c), row)
    BY DEF RowFits
  <1> HIDE DEF row
  <1> QED BY <1>1, <1>2, WriteNew DEF Tables

LEMMA UpdateCategoryKeeps ==
    ASSUME NEW d, HomeDb(d), NEW q, "owner" \in DOMAIN q.row, q.row.owner = q.user,
           NEW e \in storeUpdateCategory(q, d)
    PROVE  HomeDb(e) /\ SameOwners(d, e, {})
  <1>1. CASE q.of \notin Own(d, "categories", q.user)
    BY <1>1, NothingMoves DEF storeUpdateCategory
  <1>2. CASE q.of \in Own(d, "categories", q.user)
    <2>1. e \in Committed(Put(d, "categories", q.of, q.row))
      BY <1>2, UnlessCommits DEF storeUpdateCategory
    <2>2. q.of \in DOMAIN d.categories /\ d.categories[q.of].owner = q.user
      BY <1>2 DEF Own
    <2>3. RowFits(d, "categories", q.of, q.row)
      BY <2>2 DEF RowFits
    <2> QED BY <2>1, <2>2, <2>3, WriteOver DEF Tables
  <1> QED BY <1>1, <1>2

LEMMA CreateFeedStatementKeeps ==
    ASSUME NEW d, HomeDb(d), NEW c, NEW q, NewId(c) \notin DOMAIN d.feeds,
           q.row.category \in DOMAIN d.categories => d.categories[q.row.category].owner = q.user,
           NEW e \in storeCreateFeed(c, q, d)
    PROVE  HomeDb(e) /\ SameOwners(d, e, {NewId(c)})
  <1> DEFINE row == [owner |-> q.user, category |-> q.row.category, url |-> q.body.url,
                     title |-> q.body.url, errors |-> 0, icon |-> None]
  <1>1. e \in Committed(Put(d, "feeds", NewId(c), row))
    BY UnlessCommits DEF storeCreateFeed
  <1>2. {"owner", "category"} \subseteq DOMAIN row /\ row.owner = q.user /\ row.category = q.row.category
    OBVIOUS
  <1> HIDE DEF row
  <1>3. RowFits(d, "feeds", NewId(c), row)
    BY <1>2 DEF RowFits
  <1> QED BY <1>1, <1>3, WriteNew DEF Tables

LEMMA UpdateFeedStatementKeeps ==
    ASSUME NEW d, HomeDb(d), NEW q, {"owner", "category"} \subseteq DOMAIN q.row, q.row.owner = q.user,
           q.row.category \in DOMAIN d.categories => d.categories[q.row.category].owner = q.user,
           NEW e \in storeUpdateFeed(q, d)
    PROVE  HomeDb(e) /\ SameOwners(d, e, {})
  <1>1. CASE q.of \notin Own(d, "feeds", q.user)
    BY <1>1, NothingMoves DEF storeUpdateFeed
  <1>2. CASE q.of \in Own(d, "feeds", q.user)
    <2> DEFINE row == [q.row EXCEPT !.icon = d.feeds[q.of].icon]
    <2>1. e \in Committed(Put(d, "feeds", q.of, row))
      BY <1>2, UnlessCommits DEF storeUpdateFeed
    <2>2. {"owner", "category"} \subseteq DOMAIN row /\ row.owner = q.user /\ row.category = q.row.category
      OBVIOUS
    <2> HIDE DEF row
    <2>3. q.of \in DOMAIN d.feeds /\ d.feeds[q.of].owner = q.user
      BY <1>2 DEF Own
    <2>4. RowFits(d, "feeds", q.of, row)
      BY <2>2, <2>3 DEF RowFits
    <2> QED BY <2>1, <2>3, <2>4, WriteOver DEF Tables
  <1> QED BY <1>1, <1>2

LEMMA InsertEntryKeeps ==
    ASSUME NEW d, HomeDb(d), NEW c, NEW q, NewId(c) \notin DOMAIN d.entries,
           q.of \in DOMAIN d.feeds => d.feeds[q.of].owner = q.user,
           NEW e \in storeInsertEntryForFeed(c, q, d)
    PROVE  HomeDb(e) /\ SameOwners(d, e, {NewId(c)})
  <1>1. CASE WithHash(d, q.of, q.body.hash) # {}
    BY <1>1, NothingMoves DEF storeInsertEntryForFeed
  <1>2. CASE WithHash(d, q.of, q.body.hash) = {}
    <2> DEFINE row == [owner |-> q.user, feed |-> q.of, hash |-> q.body.hash, unread |-> TRUE,
                       starred |-> FALSE, shared |-> FALSE, title |-> q.body.title,
                       content |-> Sanitized(q.body.content)]
    <2>1. e \in Committed(Put(d, "entries", NewId(c), row))
      BY <1>2, UnlessCommits DEF storeInsertEntryForFeed
    <2>2. {"owner", "feed"} \subseteq DOMAIN row /\ row.owner = q.user /\ row.feed = q.of
      OBVIOUS
    <2> HIDE DEF row
    <2>3. RowFits(d, "entries", NewId(c), row)
      BY <2>2 DEF RowFits
    <2> QED BY <2>1, <2>3, WriteNew DEF Tables
  <1> QED BY <1>1, <1>2

LEMMA UpdateEnclosureKeeps ==
    ASSUME NEW d, HomeDb(d), NEW q, {"owner", "entry"} \subseteq DOMAIN q.row,
           q.row.entry \in DOMAIN d.entries => d.entries[q.row.entry].owner = q.row.owner,
           NEW e \in storeUpdateEnclosure(q, d)
    PROVE  HomeDb(e) /\ SameOwners(d, e, {})
  <1>1. CASE q.of \notin DOMAIN d.media
    BY <1>1, NothingMoves DEF storeUpdateEnclosure
  <1>2. CASE q.of \in DOMAIN d.media
    <2>1. e \in Committed(Put(d, "media", q.of, q.row))
      BY <1>2 DEF storeUpdateEnclosure
    <2>2. RowFits(d, "media", q.of, q.row)
      BY DEF RowFits
    <2> QED BY <1>2, <2>1, <2>2, WriteOver DEF Tables
  <1> QED BY <1>1, <1>2

LEMMA CreateKeyKeeps ==
    ASSUME NEW d, HomeDb(d), NEW c, NEW q, NEW e \in storeCreateAPIKey(c, q, d)
    PROVE  HomeDb(e) /\ SameOwners(d, e, {NewId(c)})
  <1> DEFINE row == [owner |-> q.user, description |-> q.body.description]
  <1>1. e \in Committed(Put(d, "keys", NewId(c), row))
    BY UnlessCommits DEF storeCreateAPIKey
  <1>2. RowFits(d, "keys", NewId(c), row)
    BY DEF RowFits
  <1> HIDE DEF row
  <1> QED BY <1>1, <1>2, WriteNew DEF Tables

(* Statements that mark entries, or remove rows with what hangs on them.   *)
LEMMA MarksAndRemovalsKeep ==
    ASSUME NEW d, HomeDb(d), NEW q, NEW e,
           \/ e \in storeMarkAllAsRead(q, d) \cup storeMarkFeedAsRead(q, d) \cup storeMarkCategoryAsRead(q, d)
           \/ e \in storeSetEntriesStatus(q, d) \cup storeSetEntriesStarredState(q, d)
                    \cup storeToggleStarred(q, d)
           \/ e \in storeUpdateEntryTitleAndContent(q, d)
           \/ e \in storeRemoveCategory(q, d) \cup storeRemoveFeed(q, d) \cup storeDeleteAPIKey(q, d)
           \/ e \in fetchDocument(q, d)
    PROVE  HomeDb(e) /\ SameOwners(d, e, {})
  <1>1. CASE e \in storeMarkAllAsRead(q, d) \cup storeMarkFeedAsRead(q, d) \cup storeMarkCategoryAsRead(q, d)
    <2>1. \E ids : e = Marked(d, ids, "unread", FALSE)
      BY <1>1 DEF storeMarkAllAsRead, storeMarkFeedAsRead, storeMarkCategoryAsRead
    <2> QED BY <2>1, MarkedIsHome
  <1>2. CASE e \in storeSetEntriesStatus(q, d) \cup storeSetEntriesStarredState(q, d)
                    \cup storeToggleStarred(q, d)
    <2>1. \E ids, column, value : column \in {"unread", "starred"} /\ e = Marked(d, ids, column, value)
      BY <1>2 DEF storeSetEntriesStatus, storeSetEntriesStarredState, storeToggleStarred
    <2> QED BY <2>1, MarkedIsHome
  <1>3. CASE e \in storeUpdateEntryTitleAndContent(q, d)
    <2>1. \/ e = d
          \/ \E ids, one, other : e = Marked(Marked(d, ids, "title", one), ids, "content", other)
      BY <1>3 DEF storeUpdateEntryTitleAndContent
    <2>2. ASSUME NEW ids, NEW one, NEW other, e = Marked(Marked(d, ids, "title", one), ids, "content", other)
          PROVE  HomeDb(e) /\ SameOwners(d, e, {})
      <3> DEFINE m == Marked(d, ids, "title", one)
      <3>1. HomeDb(m) /\ SameOwners(d, m, {})
        BY MarkedIsHome
      <3> HIDE DEF m
      <3>2. e = Marked(m, ids, "content", other)
        BY <2>2 DEF m
      <3>3. HomeDb(e) /\ SameOwners(m, e, {})
        BY <3>1, <3>2, MarkedIsHome
      <3> QED BY <3>1, <3>3, OwnersLast
    <2> QED BY <2>1, <2>2, NothingMoves
  <1>4. CASE e \in storeRemoveCategory(q, d) \cup storeRemoveFeed(q, d) \cup storeDeleteAPIKey(q, d)
    <2>1. \E ids : \E table \in Tables : e = Removed(d, table, ids)
      BY <1>4 DEF storeRemoveCategory, storeRemoveFeed, storeDeleteAPIKey, Tables
    <2> QED BY <2>1, RemovedIsHome
  <1>5. CASE e \in fetchDocument(q, d)
    BY <1>5, NothingMoves DEF fetchDocument
  <1> QED BY <1>1, <1>2, <1>3, <1>4, <1>5

(* Every statement leaves rows with their owners, and what hangs on them   *)
(* at home.                                                                *)
LEMMA StatementsKeep ==
    ASSUME ApiIInv, NEW c \in Callers, apiCall[c].phase = "writing",
           NEW statement, statement = Head(apiCall[c].todo),
           NEW e \in Result(statement, c, apiCall[c], apiDb)
    PROVE  /\ HomeDb(e)
           /\ SameOwners(apiDb, e, IF statement \in Creators THEN {NewId(c)} ELSE {})
  <1> DEFINE q == apiCall[c]
  <1>0. HomeDb(apiDb)
    BY DEF ApiIInv
  <1>1. Carries(statement, q.user, q.of, q.row)
    BY DEF ApiIInv, FindingsHold
  <1>2. statement \in {"CreateUser", "UpdateUser", "MarkAllAsRead", "CreateCategory", "UpdateCategory",
                       "MarkCategoryAsRead", "RemoveCategory", "CreateFeed", "UpdateFeed",
                       "MarkFeedAsRead", "RemoveFeed", "ToggleStarred", "Scrape", "UpdateEnclosure",
                       "CreateAPIKey", "DeleteAPIKey", "SetEntriesStatus", "SetEntriesStarredState",
                       "UpdateEntryTitleAndContent", "Fetch", "InsertEntryForFeed"}
    BY DEF ApiIInv, CallsTyped, Programs, LaterStatements
  <1>3. statement \in Creators => \A t \in Tables : NewId(c) \notin DOMAIN apiDb[t]
    BY DEF ApiIInv, NewIdsAreFree, Makes
  <1> HIDE DEF q
  <1>4. CASE statement = "CreateUser"
    <2>1. e \in storeCreateUser(c, q, apiDb)
      BY <1>4 DEF Result, q
    <2> QED BY <1>0, <1>3, <1>4, <2>1, CreateUserKeeps DEF Creators
  <1>5. CASE statement = "CreateCategory"
    <2>1. e \in storeCreateCategory(c, q, apiDb)
      BY <1>5 DEF Result, q
    <2> QED BY <1>0, <1>3, <1>5, <2>1, CreateCategoryKeeps DEF Creators, Tables
  <1>6. CASE statement = "CreateFeed"
    <2>1. e \in storeCreateFeed(c, q, apiDb)
      BY <1>6 DEF Result, q
    <2> QED BY <1>0, <1>1, <1>3, <1>6, <2>1, CreateFeedStatementKeeps DEF Creators, Tables, Carries, Refers
  <1>7. CASE statement = "InsertEntryForFeed"
    <2>1. e \in storeInsertEntryForFeed(c, q, apiDb)
      BY <1>7 DEF Result, q
    <2> QED BY <1>0, <1>1, <1>3, <1>7, <2>1, InsertEntryKeeps DEF Creators, Tables, Carries, Refers
  <1>8. CASE statement = "CreateAPIKey"
    <2>1. e \in storeCreateAPIKey(c, q, apiDb)
      BY <1>8 DEF Result, q
    <2> QED BY <1>0, <1>8, <2>1, CreateKeyKeeps DEF Creators
  <1>9. CASE statement = "UpdateUser"
    <2>1. e \in storeUpdateUser(q, apiDb)
      BY <1>9 DEF Result, q
    <2> QED BY <1>0, <1>9, <2>1, UpdateUserKeeps DEF Creators
  <1>10. CASE statement = "UpdateCategory"
    <2>1. e \in storeUpdateCategory(q, apiDb)
      BY <1>10 DEF Result, q
    <2> QED BY <1>0, <1>1, <1>10, <2>1, UpdateCategoryKeeps DEF Creators, Carries
  <1>11. CASE statement = "UpdateFeed"
    <2>1. e \in storeUpdateFeed(q, apiDb)
      BY <1>11 DEF Result, q
    <2> QED BY <1>0, <1>1, <1>11, <2>1, UpdateFeedStatementKeeps DEF Creators, Carries, Refers
  <1>12. CASE statement = "UpdateEnclosure"
    <2>1. e \in storeUpdateEnclosure(q, apiDb)
      BY <1>12 DEF Result, q
    <2> QED BY <1>0, <1>1, <1>12, <2>1, UpdateEnclosureKeeps DEF Creators, Carries, Refers
  <1>13. CASE statement = "Scrape"
    <2>1. e = apiDb
      BY <1>13 DEF Result
    <2> QED BY <1>0, <1>13, <2>1, NothingMoves DEF Creators
  <1>14. CASE statement \in {"MarkAllAsRead", "MarkCategoryAsRead", "MarkFeedAsRead"}
    <2>1. e \in storeMarkAllAsRead(q, apiDb) \cup storeMarkFeedAsRead(q, apiDb)
                   \cup storeMarkCategoryAsRead(q, apiDb)
      BY <1>14 DEF Result, q
    <2> QED BY <1>0, <1>14, <2>1, MarksAndRemovalsKeep DEF Creators
  <1>15. CASE statement \in {"SetEntriesStatus", "SetEntriesStarredState", "ToggleStarred"}
    <2>1. e \in storeSetEntriesStatus(q, apiDb) \cup storeSetEntriesStarredState(q, apiDb)
                   \cup storeToggleStarred(q, apiDb)
      BY <1>15 DEF Result, q
    <2> QED BY <1>0, <1>15, <2>1, MarksAndRemovalsKeep DEF Creators
  <1>16. CASE statement = "UpdateEntryTitleAndContent"
    <2>1. e \in storeUpdateEntryTitleAndContent(q, apiDb)
      BY <1>16 DEF Result, q
    <2> QED BY <1>0, <1>16, <2>1, MarksAndRemovalsKeep DEF Creators
  <1>17. CASE statement \in {"RemoveCategory", "RemoveFeed", "DeleteAPIKey"}
    <2>1. e \in storeRemoveCategory(q, apiDb) \cup storeRemoveFeed(q, apiDb) \cup storeDeleteAPIKey(q, apiDb)
      BY <1>17 DEF Result, q
    <2> QED BY <1>0, <1>17, <2>1, MarksAndRemovalsKeep DEF Creators
  <1>18. CASE statement = "Fetch"
    <2>1. e \in fetchDocument(q, apiDb)
      BY <1>18 DEF Result, q
    <2> QED BY <1>0, <1>18, <2>1, MarksAndRemovalsKeep DEF Creators
  <1> QED BY <1>2, <1>4, <1>5, <1>6, <1>7, <1>8, <1>9, <1>10, <1>11, <1>12, <1>13, <1>14, <1>15, <1>16,
             <1>17, <1>18

(* What a statement says of the calls.                                     *)
LEMMA StoreIs ==
    ASSUME CallsTyped, NEW c, NEW d, NEW changes, DOMAIN changes \subseteq CallFields, Store(c, d, changes)
    PROVE  /\ apiDb' = d
           /\ DOMAIN apiCall' = Callers
           /\ \A x \in Callers : DOMAIN apiCall'[x] = CallFields
           /\ \A x \in Callers : x # c => \A f \in CallFields \ {"before"} : apiCall'[x][f] = apiCall[x][f]
           /\ c \in Callers => \A f \in CallFields :
                 apiCall'[c][f] = IF f \in DOMAIN changes THEN changes[f] ELSE apiCall[c][f]
  <1>1. /\ apiDb' = d
        /\ DOMAIN apiCall' = Callers
        /\ \A x \in Callers : x # c =>
              apiCall'[x] = apiCall[x] \/ \E was : apiCall'[x] = [apiCall[x] EXCEPT !.before = was]
        /\ c \in Callers => apiCall'[c] = changes ++ apiCall[c]
    BY DEF Store
  <1>2. ASSUME NEW x \in Callers, x # c
        PROVE  /\ DOMAIN apiCall'[x] = CallFields
               /\ \A f \in CallFields \ {"before"} : apiCall'[x][f] = apiCall[x][f]
    BY <1>1, <1>2 DEF CallsTyped
  <1>3. ASSUME c \in Callers
        PROVE  /\ DOMAIN apiCall'[c] = CallFields
               /\ \A f \in CallFields :
                     apiCall'[c][f] = IF f \in DOMAIN changes THEN changes[f] ELSE apiCall[c][f]
    BY <1>1, <1>3 DEF CallsTyped, ++
  <1> QED BY <1>1, <1>2, <1>3

LEMMA ExecutingKeeps ==
    ASSUME ApiIInv, NEW c \in Callers, Execute(c)
    PROVE  ApiIInv'
  <1> DEFINE q == apiCall[c]
             statement == Head(q.todo)
             rest == Tail(q.todo)
  <1>1. CASE \E status : Reply(c, status)
    BY <1>1, RepliesKeep
  <1>2. ASSUME NEW d \in Result(statement, c, q, apiDb), NEW row,
               statement # "InsertEntryForFeed" /\ rest # <<>> => row = q.row,
               Store(c, d, [todo |-> rest, phase |-> IF rest = <<>> THEN "answered" ELSE "writing",
                            row |-> row])
        PROVE  ApiIInv'
    <2>0. q.phase = "writing"
      BY DEF Execute
    <2> DEFINE changes == [todo |-> rest, phase |-> IF rest = <<>> THEN "answered" ELSE "writing",
                           row |-> row]
    <2>1. /\ DOMAIN changes = {"todo", "phase", "row"} /\ changes.todo = rest /\ changes.row = row
          /\ changes.phase = IF rest = <<>> THEN "answered" ELSE "writing"
      OBVIOUS
    <2>2. Store(c, d, changes)
      BY <1>2
    <2> HIDE DEF changes
    <2>3. DOMAIN changes \subseteq CallFields
      BY <2>1 DEF CallFields
    <2>4. CallsTyped
      BY DEF ApiIInv
    <2>5. /\ apiDb' = d
          /\ DOMAIN apiCall' = Callers
          /\ \A x \in Callers : DOMAIN apiCall'[x] = CallFields
          /\ \A x \in Callers : x # c => \A f \in CallFields \ {"before"} : apiCall'[x][f] = apiCall[x][f]
          /\ \A f \in CallFields : apiCall'[c][f] = IF f \in DOMAIN changes THEN changes[f] ELSE apiCall[c][f]
      BY <2>2, <2>3, <2>4, StoreIs
    <2>6. \A x \in Callers : x # c =>
             /\ apiCall'[x].phase = apiCall[x].phase /\ apiCall'[x].todo = apiCall[x].todo
             /\ apiCall'[x].user = apiCall[x].user /\ apiCall'[x].of = apiCall[x].of
             /\ apiCall'[x].row = apiCall[x].row /\ apiCall'[x].body = apiCall[x].body
      BY <2>5 DEF CallFields
    <2>7. /\ apiCall'[c].todo = rest /\ apiCall'[c].row = row
          /\ apiCall'[c].phase = IF rest = <<>> THEN "answered" ELSE "writing"
          /\ apiCall'[c].user = q.user /\ apiCall'[c].of = q.of /\ apiCall'[c].body = q.body
      BY <2>1, <2>5 DEF CallFields
    <2>8. q.todo \in Programs
      BY <2>0, <2>4 DEF CallsTyped
    <2>9. \/ rest = <<>>
          \/ rest \in Programs /\ statement = "Fetch" /\ Head(rest) = "CreateFeed"
          \/ rest \in Programs /\ Head(rest) \in LaterStatements
      BY <2>8, ProgramsRun
    <2>10. CallsTyped'
      BY <2>4, <2>5, <2>6, <2>7, <2>9 DEF CallsTyped
    <2>11. HomeDb(d) /\ SameOwners(apiDb, d, IF statement \in Creators THEN {NewId(c)} ELSE {})
      BY <2>0, StatementsKeep
    <2> HIDE DEF statement, rest
    <2>12. Makes(c)' => rest # <<>> /\ Head(rest) \in Creators \cup {"Fetch"}
      BY <2>7 DEF Makes
    <2>13. Makes(c)' => statement = "Fetch"
      BY <2>9, <2>12 DEF Creators, LaterStatements
    <2>14. statement \in Creators \cup {"Fetch"} => Makes(c)
      BY <2>0 DEF Makes, statement
    <2>15. \A x \in Callers : Makes(x)' => Makes(x)
      BY <2>6, <2>13, <2>14 DEF Makes
    <2>16. statement \in Creators => Makes(c) /\ ~Makes(c)'
      BY <2>13, <2>14 DEF Creators
    <2>17. ASSUME NEW x \in Callers, apiCall'[x].phase = "writing"
           PROVE  Carries(Head(apiCall'[x].todo), apiCall'[x].user, apiCall'[x].of, apiCall'[x].row)
      <3>1. CASE x # c
        BY <2>6, <2>17, <3>1 DEF ApiIInv, FindingsHold
      <3>2. CASE x = c /\ Head(rest) \in LaterStatements
        BY <2>7, <3>2 DEF Carries, LaterStatements
      <3>3. CASE x = c /\ statement = "Fetch" /\ Head(rest) = "CreateFeed"
        <4>1. Carries("Fetch", q.user, q.of, q.row)
          BY <2>0, <3>3 DEF ApiIInv, FindingsHold, statement
        <4>2. Carries("CreateFeed", q.user, q.of, q.row)
          BY <4>1 DEF Carries
        <4>3. row = q.row
          BY <1>2, <2>7, <2>17, <3>3
        <4> QED BY <2>7, <3>3, <4>2, <4>3
      <3> QED BY <2>7, <2>9, <2>17, <3>1, <3>2, <3>3
    <2> DEFINE new == IF statement \in Creators THEN {NewId(c)} ELSE {}
    <2>18. \A id \in new : \E x \in Callers : id = NewId(x) /\ Makes(x) /\ ~Makes(x)'
      BY <2>16
    <2>19. HomeDb(apiDb') /\ SameOwners(apiDb, apiDb', new)
      BY <2>5, <2>11
    <2> HIDE DEF new
    <2> QED BY <2>10, <2>15, <2>17, <2>18, <2>19, CallsStep
  <1> HIDE DEF q, statement, rest
  <1>3. \/ \E status : Reply(c, status)
        \/ \E row : \E d \in Result(statement, c, q, apiDb) :
              /\ statement # "InsertEntryForFeed" /\ rest # <<>> => row = q.row
              /\ Store(c, d, [todo |-> rest, phase |-> IF rest = <<>> THEN "answered" ELSE "writing",
                              row |-> row])
    BY DEF Execute, q, statement, rest
  <1> QED BY <1>1, <1>2, <1>3

LEMMA JobsKeep ==
    ASSUME ApiIInv, RunJob
    PROVE  ApiIInv'
  <1>0. HomeDb(apiDb) /\ CallsTyped
    BY DEF ApiIInv
  <1>1. PICK duty, graves, read :
           Store(None, IF duty[1] = "RemoveUser" THEN Removed(apiDb, "users", {duty[2]})
                       ELSE Removed([apiDb EXCEPT !.graves = graves], "entries", read), NoChanges)
    BY DEF RunJob
  <1> DEFINE g == [apiDb EXCEPT !.graves = graves]
  <1>2. DOMAIN g = DOMAIN apiDb /\ \A t \in Tables : g[t] = apiDb[t]
    BY DEF Tables
  <1> HIDE DEF g
  <1>3. HomeDb(g) /\ SameOwners(apiDb, g, {})
    BY <1>0, <1>2 DEF HomeDb, Columns, ParentsAreThere, FiledAtHome, SameOwners, Tables
  <1>4. HomeDb(Removed(g, "entries", read)) /\ SameOwners(apiDb, Removed(g, "entries", read), {})
    BY <1>3, RemovedIsHome, OwnersLast DEF Tables
  <1>5. /\ HomeDb(Removed(apiDb, "users", {duty[2]}))
        /\ SameOwners(apiDb, Removed(apiDb, "users", {duty[2]}), {})
    BY <1>0, RemovedIsHome DEF Tables
  <1>6. PICK d : HomeDb(d) /\ SameOwners(apiDb, d, {}) /\ Store(None, d, NoChanges)
    BY <1>1, <1>4, <1>5 DEF g
  <1>7. DOMAIN NoChanges = {} /\ None \notin Callers
    BY ApiAssumption DEF NoChanges
  <1>8. /\ apiDb' = d
        /\ DOMAIN apiCall' = Callers
        /\ \A x \in Callers : DOMAIN apiCall'[x] = CallFields
        /\ \A x \in Callers : x # None => \A f \in CallFields \ {"before"} : apiCall'[x][f] = apiCall[x][f]
    BY <1>0, <1>6, <1>7, StoreIs
  <1>9. \A x \in Callers :
           /\ apiCall'[x].phase = apiCall[x].phase /\ apiCall'[x].todo = apiCall[x].todo
           /\ apiCall'[x].user = apiCall[x].user /\ apiCall'[x].of = apiCall[x].of
           /\ apiCall'[x].row = apiCall[x].row /\ apiCall'[x].body = apiCall[x].body
    BY <1>7, <1>8 DEF CallFields
  <1>10. CallsTyped'
    BY <1>0, <1>8, <1>9 DEF CallsTyped
  <1>11. \A x \in Callers : Makes(x)' => Makes(x)
    BY <1>9 DEF Makes
  <1>12. \A x \in Callers : apiCall'[x].phase = "writing" =>
            Carries(Head(apiCall'[x].todo), apiCall'[x].user, apiCall'[x].of, apiCall'[x].row)
    BY <1>9 DEF ApiIInv, FindingsHold
  <1> QED BY <1>6, <1>8, <1>10, <1>11, <1>12, CallsStep

LEMMA ApiIInvHolds == ApiSpec => []ApiIInv
  <1>1. ApiInit => ApiIInv
    <2> SUFFICES ASSUME ApiInit PROVE ApiIInv
      OBVIOUS
    <2>1. /\ DOMAIN apiDb = Tables \cup {"graves"}
          /\ \A i \in DOMAIN apiDb.categories : "owner" \in DOMAIN apiDb.categories[i]
          /\ \A f \in DOMAIN apiDb.feeds : {"owner", "category"} \subseteq DOMAIN apiDb.feeds[f]
          /\ \A e \in DOMAIN apiDb.entries : {"owner", "feed"} \subseteq DOMAIN apiDb.entries[e]
          /\ \A m \in DOMAIN apiDb.media : {"owner", "entry"} \subseteq DOMAIN apiDb.media[m]
          /\ WithParents(apiDb) = apiDb /\ FiledAtHome(apiDb)
          /\ \A c \in Callers, table \in Tables : NewId(c) \notin DOMAIN apiDb[table]
      BY ApiAssumption DEF ApiInit
    <2>2. HomeDb(apiDb)
      <3>1. Columns(apiDb)
        BY <2>1 DEF Columns
      <3>2. OwnersAgree(apiDb)
        BY <2>1 DEF FiledAtHome, OwnersAgree
      <3>3. HomeDb(WithParents(apiDb))
        BY <3>1, <3>2, ForeignKeys
      <3> QED BY <2>1, <3>3
    <2>3. CallsTyped
      BY DEF ApiInit, NoCall, NoChanges, CallsTyped, CallFields
    <2>4. FindingsHold
      BY DEF ApiInit, NoCall, FindingsHold
    <2>5. NewIdsAreFree
      BY <2>1 DEF NewIdsAreFree
    <2> QED BY <2>2, <2>3, <2>4, <2>5 DEF ApiIInv
  <1>2. ApiIInv /\ [ApiNext]_apiVars => ApiIInv'
    <2> SUFFICES ASSUME ApiIInv, [ApiNext]_apiVars PROVE ApiIInv'
      OBVIOUS
    <2>1. ASSUME NEW c \in Callers, Calling(c) PROVE ApiIInv'
      BY <2>1, BeginKeeps, IdentifyingKeeps, LookingKeeps, HandlingKeeps, ExecutingKeeps DEF Calling
    <2>2. CASE UNCHANGED apiVars
      BY <2>2 DEF apiVars, ApiIInv, CallsTyped, NewIdsAreFree, FindingsHold, Carries, Refers, Makes
    <2> QED BY <2>1, <2>2, JobsKeep DEF ApiNext
  <1> QED BY <1>1, <1>2, PTL DEF ApiSpec

(* Whatever calls of whatever users meet, whatever their handlers had      *)
(* found that is gone by then, and with users, categories and feeds        *)
(* removed between any two statements: a feed is in a category of its      *)
(* owner's, and what hangs on it is its owner's (validator/feed.go,        *)
(* storage/feed.go, storage/entry.go, storage/enclosure.go).               *)
THEOREM RowsStayAtHome == ApiSpec => []RowsAreFiledAtHome
  <1>1. ApiIInv => RowsAreFiledAtHome
    BY DEF ApiIInv, HomeDb, RowsAreFiledAtHome
  <1> QED BY <1>1, ApiIInvHolds, PTL

---------------------------------------------------------------------------
(* Rows that are equal column by column.                                   *)
LEMMA SameRow ==
    ASSUME NEW one, NEW other, NEW I, one = [x \in I |-> one[x]], other = [x \in I |-> other[x]],
           \A x \in I : one[x] = other[x]
    PROVE  one = other
  OBVIOUS

(* Writing a row over another, or where there is none.                     *)
LEMMA PutOver ==
    ASSUME NEW d, Columns(d), NEW table \in Tables, NEW id \in DOMAIN d[table], NEW row, NEW broken,
           NEW e \in Unless(broken, Put(d, table, id, row))
    PROVE  e = [d EXCEPT ![table][id] = row]
  <1>1. table \in DOMAIN d
    BY DEF Columns
  <1>2. [i \in {id} |-> row] ++ d[table] = [d[table] EXCEPT ![id] = row]
    BY DEF ++
  <1>3. Put(d, table, id, row) = [d EXCEPT ![table][id] = row]
    BY <1>1, <1>2 DEF Put
  <1> QED BY <1>3 DEF Unless, Committed

LEMMA PutBeside ==
    ASSUME NEW d, Columns(d), NEW table \in Tables, NEW id, id \notin DOMAIN d[table], NEW row, NEW broken,
           NEW e \in Unless(broken, Put(d, table, id, row))
    PROVE  e = [d EXCEPT ![table] = @ ++ [i \in {id} |-> row]]
  <1>1. table \in DOMAIN d
    BY DEF Columns
  <1>2. [i \in {id} |-> row] ++ d[table] = d[table] ++ [i \in {id} |-> row]
    BY DEF ++
  <1>3. Put(d, table, id, row) = [d EXCEPT ![table] = @ ++ [i \in {id} |-> row]]
    BY <1>1, <1>2 DEF Put
  <1> QED BY <1>3 DEF Unless, Committed

(* What the statements of each method make of a database in order, when    *)
(* the row is as the handler has read it.                                  *)
LEMMA UpdateUserAsPromised ==
    ASSUME NEW c, NEW d, Columns(d), Tidy(d), NEW q, Formed(q), q.method = "UpdateUser",
           q.of \in DOMAIN d.users, q.row = PatchUser(d.users[q.of], q.body),
           NEW e \in storeUpdateUser(q, d)
    PROVE  e = Promised(c, Asked(q), d)
  <1> DEFINE old == d.users[q.of]
             password == IF Named(q.body, "password") THEN q.row.password ELSE old.password
             row == [q.row EXCEPT !.name = Lower(@), !.password = password, !.saves = old.saves]
             body == IF Named(q.body, "name") THEN [q.body EXCEPT !.name = Lower(@)] ELSE q.body
             broken == UsersNamed(d, row.name) \ {q.of} # {}
  <1>1. e \in Unless(broken, Put(d, "users", q.of, row))
    BY DEF storeUpdateUser
  <1>2. "name" \in DOMAIN old /\ Lower(old.name) = old.name
    BY DEF Tidy
  <1>3. DOMAIN q.body \subseteq {"name", "password", "admin", "theme"}
    BY DEF Formed
  <1>4. row = body ++ old
    <2> DEFINE I == DOMAIN q.body \cup DOMAIN old
    <2>1. q.row = [x \in I |-> IF x \in DOMAIN q.body THEN q.body[x] ELSE old[x]]
      BY DEF PatchUser, ++
    <2>2. body ++ old = [x \in I |-> IF x \in DOMAIN q.body
                                     THEN IF x = "name" THEN Lower(q.body.name) ELSE q.body[x]
                                     ELSE old[x]]
      <3>1. DOMAIN body = DOMAIN q.body
        OBVIOUS
      <3>2. \A x \in DOMAIN q.body : body[x] = IF x = "name" THEN Lower(q.body.name) ELSE q.body[x]
        BY DEF Named
      <3> HIDE DEF body
      <3> QED BY <3>1, <3>2 DEF ++
    <2>3. row = [x \in I |-> IF x = "saves" THEN old.saves
                             ELSE IF x = "password" THEN password
                             ELSE IF x = "name" THEN Lower(q.row.name) ELSE q.row[x]]
      BY <2>1
    <2> HIDE DEF row, body
    <2>4. ASSUME NEW x \in I
          PROVE  row[x] = (body ++ old)[x]
      <3>1. CASE x = "name"
        BY <1>2, <2>1, <2>2, <2>3, <3>1
      <3>2. CASE x = "password"
        BY <2>1, <2>2, <2>3, <3>2 DEF Named
      <3>3. CASE x = "saves"
        BY <1>3, <2>1, <2>2, <2>3, <3>3
      <3>4. CASE x \notin {"name", "password", "saves"}
        BY <2>1, <2>2, <2>3, <3>4
      <3> QED BY <3>1, <3>2, <3>3, <3>4
    <2>5. row = [x \in I |-> row[x]] /\ body ++ old = [x \in I |-> (body ++ old)[x]]
      BY <2>2, <2>3
    <2> HIDE DEF I
    <2> QED BY <2>4, <2>5, SameRow
  <1> HIDE DEF row, body, broken
  <1>5. e = [d EXCEPT !["users"][q.of] = row]
    <2>1. "users" \in Tables
      BY DEF Tables
    <2> QED BY <1>1, <2>1, PutOver
  <1>6. Promised(c, Asked(q), d) = [d EXCEPT !["users"][q.of] = body ++ old]
    BY DEF Promised, Asked, body
  <1> QED BY <1>4, <1>5, <1>6

LEMMA CreateUserAsPromised ==
    ASSUME NEW c, NEW d, Columns(d), NewId(c) \notin DOMAIN d.users, NewId(c) \notin DOMAIN d.categories,
           NEW q, Formed(q), q.method = "CreateUser",
           NEW e \in storeCreateUser(c, q, d)
    PROVE  e = Promised(c, Asked(q), d)
  <1> DEFINE id == NewId(c)
             row == [name |-> Lower(q.body.name), password |-> q.body.password, admin |-> q.body.admin,
                     theme |-> "default", saves |-> FALSE]
             home == [owner |-> id, title |-> "All"]
             body == [q.body EXCEPT !.name = Lower(@)] ++ [theme |-> "default", saves |-> FALSE]
             u == Put(d, "users", id, row)
             broken == UsersNamed(d, row.name) # {}
  <1>0. "users" \in Tables /\ "categories" \in Tables
    BY DEF Tables
  <1>1. e \in Unless(broken, Put(u, "categories", id, home))
    BY DEF storeCreateUser
  <1>2. DOMAIN q.body = {"name", "password", "admin"}
    BY DEF Formed
  <1>3. row = body
    <2> DEFINE I == {"name", "password", "admin", "theme", "saves"}
    <2>1. /\ DOMAIN [q.body EXCEPT !.name = Lower(@)] = {"name", "password", "admin"}
          /\ DOMAIN [theme |-> "default", saves |-> FALSE] = {"theme", "saves"}
      BY <1>2
    <2>2. DOMAIN body = I /\ body = [x \in I |-> body[x]]
      BY <2>1 DEF ++
    <2>3. /\ row = [x \in I |-> row[x]]
          /\ row.name = Lower(q.body.name) /\ row.password = q.body.password
          /\ row.admin = q.body.admin /\ row.theme = "default" /\ row.saves = FALSE
      OBVIOUS
    <2>4. /\ body.name = Lower(q.body.name) /\ body.password = q.body.password
          /\ body.admin = q.body.admin /\ body.theme = "default" /\ body.saves = FALSE
      BY <1>2, <2>1 DEF ++
    <2> HIDE DEF row, body
    <2>5. \A x \in I : row[x] = body[x]
      BY <2>3, <2>4
    <2> HIDE DEF I
    <2> QED BY <2>2, <2>3, <2>5, SameRow
  <1> HIDE DEF row, body, home, broken
  <1>4. u = [d EXCEPT !["users"] = @ ++ [i \in {id} |-> row]]
    <2>1. [i \in {id} |-> row] ++ d.users = d.users ++ [i \in {id} |-> row]
      BY DEF ++
    <2> QED BY <2>1 DEF Put
  <1>5. u.categories = d.categories /\ Columns(u)
    <2>1. /\ DOMAIN u = DOMAIN d /\ u.categories = d.categories /\ u.feeds = d.feeds
          /\ u.entries = d.entries /\ u.media = d.media
      BY <1>4 DEF Columns, Tables
    <2> HIDE DEF u
    <2> QED BY <2>1 DEF Columns
  <1> HIDE DEF u
  <1>6. e = [u EXCEPT !["categories"] = @ ++ [i \in {id} |-> home]]
    BY <1>0, <1>1, <1>5, PutBeside
  <1>7. Promised(c, Asked(q), d) =
           [[d EXCEPT !["users"] = @ ++ [i \in {id} |-> body]]
               EXCEPT !.categories = @ ++ [i \in {id} |-> [owner |-> i, title |-> "All"]]]
    BY DEF Promised, Asked, body
  <1>8. [i \in {id} |-> home] = [i \in {id} |-> [owner |-> i, title |-> "All"]]
    BY DEF home
  <1> QED BY <1>3, <1>4, <1>6, <1>7, <1>8

LEMMA CategoriesAsPromised ==
    ASSUME NEW c, NEW d, Columns(d), NewId(c) \notin DOMAIN d.categories, NEW q, Formed(q), NEW e,
           \/ q.method = "CreateCategory" /\ e \in storeCreateCategory(c, q, d)
           \/ /\ q.method = "UpdateCategory" /\ q.of \in Own(d, "categories", q.user)
              /\ q.row = PatchCategory(d.categories[q.of], q.body)
              /\ e \in storeUpdateCategory(q, d)
           \/ q.method = "DeleteCategory" /\ e \in storeRemoveCategory(q, d)
    PROVE  e = Promised(c, Asked(q), d)
  <1>0. "categories" \in Tables
    BY DEF Tables
  <1>1. CASE q.method = "CreateCategory"
    <2> DEFINE row == [owner |-> q.user, title |-> q.body.title]
               body == q.body ++ [owner |-> q.user]
               broken == \E i \in Own(d, "categories", q.user) : d.categories[i].title = q.body.title
    <2>1. e \in Unless(broken, Put(d, "categories", NewId(c), row))
      BY <1>1 DEF storeCreateCategory
    <2>2. DOMAIN q.body = {"title"}
      BY <1>1 DEF Formed
    <2>3. row = body
      BY <2>2 DEF ++
    <2>4. Promised(c, Asked(q), d) = [d EXCEPT !["categories"] = @ ++ [i \in {NewId(c)} |-> body]]
      BY <1>1 DEF Promised, Asked
    <2> HIDE DEF row, body, broken
    <2>5. e = [d EXCEPT !["categories"] = @ ++ [i \in {NewId(c)} |-> row]]
      BY <1>0, <2>1, PutBeside
    <2> QED BY <2>3, <2>4, <2>5
  <1>2. CASE q.method = "UpdateCategory"
    <2> DEFINE broken == \E i \in Own(d, "categories", q.user) \ {q.of} : d.categories[i].title = q.row.title
    <2>1. q.of \in Own(d, "categories", q.user) /\ q.row = q.body ++ d.categories[q.of]
      BY <1>2 DEF PatchCategory
    <2>2. e \in Unless(broken, Put(d, "categories", q.of, q.row))
      BY <1>2, <2>1 DEF storeUpdateCategory
    <2>3. q.of \in DOMAIN d.categories
      BY <2>1 DEF Own
    <2>4. Promised(c, Asked(q), d) = [d EXCEPT !["categories"][q.of] = q.body ++ d.categories[q.of]]
      BY <1>2 DEF Promised, Asked
    <2> HIDE DEF broken
    <2>5. e = [d EXCEPT !["categories"][q.of] = q.row]
      BY <1>0, <2>2, <2>3, PutOver
    <2> QED BY <2>1, <2>4, <2>5
  <1>3. CASE q.method = "DeleteCategory"
    <2>1. e = Removed(d, "categories", {q.of})
      BY <1>3 DEF storeRemoveCategory
    <2> QED BY <1>3, <2>1 DEF Promised, Asked, Removed
  <1> QED BY <1>1, <1>2, <1>3

LEMMA CreateFeedAsPromised ==
    ASSUME NEW c, NEW d, Columns(d), NewId(c) \notin DOMAIN d.feeds, NEW q,
           q.method = "CreateFeed",
           q.row.category = IF Named(q.body, "category") THEN q.body.category
                            ELSE CHOOSE i \in FirstCategories(d, q.user) : TRUE,
           NEW e \in storeCreateFeed(c, q, d)
    PROVE  e = Promised(c, Asked(q), d)
  <1> DEFINE row == [owner |-> q.user, category |-> q.row.category, url |-> q.body.url,
                     title |-> q.body.url, errors |-> 0, icon |-> None]
             meant == IF Named(q.body, "category") THEN q.body.category
                      ELSE CHOOSE i \in FirstCategories(d, q.user) : TRUE
             made == [owner |-> q.user, url |-> q.body.url, title |-> q.body.url, errors |-> 0, icon |-> None,
                      category |-> meant]
             broken == \E f \in Own(d, "feeds", q.user) : d.feeds[f].url = q.body.url
  <1>0. "feeds" \in Tables
    BY DEF Tables
  <1>1. e \in Unless(broken, Put(d, "feeds", NewId(c), row))
    BY DEF storeCreateFeed
  <1>2. q.row.category = meant
    OBVIOUS
  <1>3. Promised(c, Asked(q), d) = [d EXCEPT !["feeds"] = @ ++ [i \in {NewId(c)} |-> made]]
    BY DEF Promised, Asked
  <1> HIDE DEF meant
  <1>4. row = made
    BY <1>2
  <1> HIDE DEF row, made, broken
  <1>5. e = [d EXCEPT !["feeds"] = @ ++ [i \in {NewId(c)} |-> row]]
    BY <1>0, <1>1, PutBeside
  <1> QED BY <1>3, <1>4, <1>5

LEMMA UpdateFeedAsPromised ==
    ASSUME NEW c, NEW d, Columns(d), NEW q, Formed(q), Accepted(q.body), q.method = "UpdateFeed",
           q.of \in Own(d, "feeds", q.user), q.row = PatchFeed(d.feeds[q.of], q.body),
           NEW e \in storeUpdateFeed(q, d)
    PROVE  e = Promised(c, Asked(q), d)
  <1> DEFINE old == d.feeds[q.of]
             row == [q.row EXCEPT !.icon = old.icon]
             made == (q.body ++ [errors |-> 0]) ++ old
             broken == \E f \in Own(d, "feeds", q.user) \ {q.of} : d.feeds[f].url = q.row.url
             I == {"errors"} \cup DOMAIN q.body \cup DOMAIN old
  <1>0. "feeds" \in Tables /\ q.of \in DOMAIN d.feeds
    BY DEF Tables, Own
  <1>1. e \in Unless(broken, Put(d, "feeds", q.of, row))
    BY DEF storeUpdateFeed
  <1>2. DOMAIN q.body \subseteq {"url", "title", "category"}
    BY DEF Formed
  <1>3. {column \in DOMAIN q.body \cap {"url", "title"} : q.body[column] = ""} = {}
    BY DEF Formed, Accepted
  <1>4. q.row = [x \in I |-> IF x = "errors" THEN 0 ELSE IF x \in DOMAIN q.body THEN q.body[x] ELSE old[x]]
    <2> DEFINE body == [column \in DOMAIN q.body \ {} |-> q.body[column]]
    <2>1. q.row = ([errors |-> 0] ++ body) ++ old
      BY <1>3 DEF PatchFeed
    <2>2. DOMAIN body = DOMAIN q.body /\ \A x \in DOMAIN q.body : body[x] = q.body[x]
      OBVIOUS
    <2>3. DOMAIN [errors |-> 0] = {"errors"} /\ [errors |-> 0].errors = 0
      OBVIOUS
    <2> HIDE DEF body
    <2> QED BY <2>1, <2>2, <2>3 DEF ++
  <1>5. made = [x \in I |-> IF x = "errors" THEN 0 ELSE IF x \in DOMAIN q.body THEN q.body[x] ELSE old[x]]
    BY <1>2 DEF ++
  <1>6. row = made
    BY <1>2, <1>4, <1>5
  <1>7. Promised(c, Asked(q), d) = [d EXCEPT !["feeds"][q.of] = made]
    BY DEF Promised, Asked
  <1> HIDE DEF row, made, broken
  <1>8. e = [d EXCEPT !["feeds"][q.of] = row]
    BY <1>0, <1>1, PutOver
  <1> QED BY <1>6, <1>7, <1>8

LEMMA RemovalsAsPromised ==
    ASSUME NEW c, NEW d, NEW q, NEW e,
           \/ q.method = "DeleteFeed" /\ q.of \in Own(d, "feeds", q.user) /\ e \in storeRemoveFeed(q, d)
           \/ q.method = "DeleteAPIKey" /\ e \in storeDeleteAPIKey(q, d)
    PROVE  e = Promised(c, Asked(q), d)
  <1>1. CASE q.method = "DeleteFeed"
    <2>1. {q.of} \cap Own(d, "feeds", q.user) = {q.of}
      BY <1>1
    <2>2. e = Removed(d, "feeds", {q.of})
      BY <1>1, <2>1 DEF storeRemoveFeed
    <2> QED BY <1>1, <2>2 DEF Promised, Asked, Removed
  <1>2. CASE q.method = "DeleteAPIKey"
    <2>1. e = Removed(d, "keys", {q.of})
      BY <1>2 DEF storeDeleteAPIKey
    <2> QED BY <1>2, <2>1 DEF Promised, Asked, Removed
  <1> QED BY <1>1, <1>2

LEMMA MarksAsPromised ==
    ASSUME NEW c, NEW d, HomeDb(d), NEW q, NEW e,
           \/ q.method = "MarkFeedAsRead" /\ e \in storeMarkFeedAsRead(q, d)
           \/ q.method = "MarkCategoryAsRead" /\ e \in storeMarkCategoryAsRead(q, d)
           \/ q.method = "MarkAllAsRead" /\ e \in storeMarkAllAsRead(q, d)
           \/ q.method = "UpdateEntries" /\ e \in storeSetEntriesStatus(q, d)
           \/ q.method = "UpdateEntriesStarred" /\ e \in storeSetEntriesStarredState(q, d),
           q.method = "MarkCategoryAsRead" => q.of \in Own(d, "categories", q.user)
    PROVE  e = Promised(c, Asked(q), d)
  <1>1. CASE q.method = "MarkFeedAsRead"
    <2>1. {x \in Own(d, "entries", q.user) : d.entries[x].feed = q.of}
             = {x \in Own(d, "entries", q.user) : d.entries[x].feed \in {q.of}}
      OBVIOUS
    <2> QED BY <1>1, <2>1 DEF Promised, Asked, storeMarkFeedAsRead
  <1>2. CASE q.method = "MarkCategoryAsRead"
    <2> DEFINE own == {f \in Own(d, "feeds", q.user) : d.feeds[f].category = q.of}
               all == {f \in DOMAIN d.feeds : d.feeds[f].category = q.of}
               one == {x \in DOMAIN d.entries : d.entries[x].feed \in own}
               other == {x \in Own(d, "entries", q.user) : d.entries[x].feed \in all}
    <2>1. d.categories[q.of].owner = q.user
      BY <1>2 DEF Own
    <2>2. own = all
      BY <2>1 DEF HomeDb, FiledAtHome, Own
    <2>3. \A x \in DOMAIN d.entries : d.entries[x].feed \in own => d.entries[x].owner = q.user
      BY DEF HomeDb, FiledAtHome, Own
    <2> HIDE DEF own, all
    <2>4. one = other
      BY <2>2, <2>3 DEF Own
    <2> HIDE DEF one, other
    <2>5. e = Marked(d, one, "unread", FALSE)
      BY <1>2 DEF storeMarkCategoryAsRead, one, own
    <2>6. Promised(c, Asked(q), d) = Marked(d, other, "unread", FALSE)
      BY <1>2 DEF Promised, Asked, other, all
    <2> QED BY <2>4, <2>5, <2>6
  <1>3. CASE q.method = "MarkAllAsRead"
    BY <1>3 DEF Promised, Asked, storeMarkAllAsRead
  <1>4. CASE q.method = "UpdateEntries"
    BY <1>4 DEF Promised, Asked, storeSetEntriesStatus, IdsOf
  <1>5. CASE q.method = "UpdateEntriesStarred"
    BY <1>5 DEF Promised, Asked, storeSetEntriesStarredState, IdsOf
  <1> QED BY <1>1, <1>2, <1>3, <1>4, <1>5

(* One entry's columns.                                                    *)
LEMMA MarkingOne ==
    ASSUME NEW d, Columns(d), NEW id \in DOMAIN d.entries, NEW column \in DOMAIN d.entries[id], NEW value
    PROVE  Marked(d, {id}, column, value) = [d EXCEPT !.entries[id][column] = value]
  <1> DEFINE one == [e \in DOMAIN d.entries |->
                        IF e \in {id} THEN [d.entries[e] EXCEPT ![column] = value] ELSE d.entries[e]]
             other == [d.entries EXCEPT ![id] = [@ EXCEPT ![column] = value]]
  <1>1. one = other
    OBVIOUS
  <1>2. Marked(d, {id}, column, value) = [d EXCEPT !.entries = one]
    BY DEF Marked
  <1> HIDE DEF one
  <1> QED BY <1>1, <1>2

LEMMA EntryAsPromised ==
    ASSUME NEW c, NEW d, Columns(d), Tidy(d), NEW q, q.of \in Own(d, "entries", q.user), NEW e,
           \/ q.method = "ToggleStarred" /\ e \in storeToggleStarred(q, d)
           \/ /\ q.method = "UpdateEntry" /\ DOMAIN q.body \subseteq {"title", "content"}
              /\ q.row = PatchEntry(d.entries[q.of], Cleaned(q.body))
              /\ e \in storeUpdateEntryTitleAndContent(q, d)
           \/ /\ q.method = "FetchEntryOriginalContent" /\ Named(q.body, "keep")
              /\ q.row = [d.entries[q.of] EXCEPT !.content = "page"]
              /\ e \in storeUpdateEntryTitleAndContent(q, d)
    PROVE  e = Promised(c, Asked(q), d)
  <1> DEFINE old == d.entries[q.of]
  <1>1. /\ q.of \in DOMAIN d.entries
        /\ "title" \in DOMAIN old /\ "content" \in DOMAIN old /\ "starred" \in DOMAIN old
    BY DEF Own, Tidy
  <1>2. CASE q.method = "ToggleStarred"
    <2>1. e = Marked(d, {q.of}, "starred", ~old.starred)
      BY <1>2 DEF storeToggleStarred
    <2>2. e = [d EXCEPT !.entries[q.of].starred = ~old.starred]
      BY <1>1, <2>1, MarkingOne
    <2>3. Promised(c, Asked(q), d) = [d EXCEPT !["entries"][q.of] = [starred |-> ~old.starred] ++ old]
      BY <1>2 DEF Promised, Asked
    <2>4. [starred |-> ~old.starred] ++ old = [old EXCEPT !.starred = ~old.starred]
      BY <1>1 DEF ++
    <2> HIDE DEF old
    <2> QED BY <2>2, <2>3, <2>4 DEF old
  <1>3. ASSUME q.method # "ToggleStarred", NEW changes, DOMAIN changes \subseteq {"title", "content"},
               q.row = changes ++ old,
               e \in storeUpdateEntryTitleAndContent(q, d)
        PROVE  e = [d EXCEPT !["entries"][q.of] = changes ++ old]
    <2> DEFINE titled == Marked(d, {q.of}, "title", q.row.title)
    <2>1. e = Marked(titled, {q.of}, "content", q.row.content)
      BY <1>3 DEF storeUpdateEntryTitleAndContent
    <2>2. titled = [d EXCEPT !.entries[q.of].title = q.row.title]
      <3>1. "title" \in DOMAIN d.entries[q.of]
        BY <1>1
      <3> QED BY <1>1, <3>1, MarkingOne
    <2> HIDE DEF titled
    <2>3. /\ Columns(titled) /\ titled.entries = [d.entries EXCEPT ![q.of].title = q.row.title]
          /\ q.of \in DOMAIN titled.entries /\ "content" \in DOMAIN titled.entries[q.of]
      <3>1. /\ DOMAIN titled = DOMAIN d /\ titled.categories = d.categories /\ titled.feeds = d.feeds
            /\ titled.media = d.media
            /\ titled.entries = [d.entries EXCEPT ![q.of].title = q.row.title]
        BY <2>2 DEF Columns, Tables
      <3>2. \A i \in DOMAIN titled.entries : i \in DOMAIN d.entries /\ DOMAIN titled.entries[i] = DOMAIN d.entries[i]
        BY <3>1
      <3>3. Columns(titled)
        BY <3>1, <3>2 DEF Columns
      <3> QED BY <1>1, <3>1, <3>2, <3>3
    <2>4. e = [titled EXCEPT !.entries[q.of].content = q.row.content]
      <3>1. Columns(titled) /\ q.of \in DOMAIN titled.entries /\ "content" \in DOMAIN titled.entries[q.of]
        BY <2>3
      <3>2. Marked(titled, {q.of}, "content", q.row.content)
               = [titled EXCEPT !.entries[q.of].content = q.row.content]
        BY <3>1, MarkingOne
      <3> QED BY <2>1, <3>2
    <2> DEFINE row == [old EXCEPT !.title = q.row.title, !.content = q.row.content]
    <2>5. row = changes ++ old
      <3>1. q.row = [x \in DOMAIN old |-> IF x \in DOMAIN changes THEN changes[x] ELSE old[x]]
        BY <1>1, <1>3 DEF ++
      <3>2. row = [x \in DOMAIN old |-> IF x = "content" THEN q.row.content
                                       ELSE IF x = "title" THEN q.row.title ELSE old[x]]
        BY <1>1
      <3> HIDE DEF row, old
      <3>3. \A x \in DOMAIN old : row[x] = q.row[x]
        BY <1>1, <1>3, <3>1, <3>2
      <3>4. row = q.row
        BY <3>1, <3>2, <3>3, SameRow
      <3> QED BY <1>3, <3>4
    <2>6. e = [d EXCEPT !.entries[q.of] = row]
      <3>1. titled.entries[q.of] = [old EXCEPT !.title = q.row.title]
        BY <1>1, <2>3
      <3>2. [titled.entries EXCEPT ![q.of] = row] = [d.entries EXCEPT ![q.of] = row]
        BY <2>3
      <3>3. [titled.entries[q.of] EXCEPT !.content = q.row.content] = row
        BY <3>1
      <3> DEFINE all == [d.entries EXCEPT ![q.of] = row]
                 titles == [d.entries EXCEPT ![q.of].title = q.row.title]
      <3> HIDE DEF row
      <3>4. e = [titled EXCEPT !.entries = all]
        BY <2>4, <3>2, <3>3
      <3>5. titled = [d EXCEPT !.entries = titles]
        BY <2>2
      <3> HIDE DEF all, titles
      <3>6. e = [d EXCEPT !.entries = all]
        BY <3>4, <3>5
      <3> QED BY <3>6 DEF all
    <2> HIDE DEF row
    <2> QED BY <2>5, <2>6
  <1>4. CASE q.method = "UpdateEntry"
    <2>1. DOMAIN Cleaned(q.body) \subseteq {"title", "content"}
      BY <1>4 DEF Cleaned, Named
    <2>2. Promised(c, Asked(q), d) = [d EXCEPT !["entries"][q.of] = Cleaned(q.body) ++ old]
      BY <1>4 DEF Promised, Asked
    <2> QED BY <1>3, <1>4, <2>1, <2>2 DEF PatchEntry
  <1>5. CASE q.method = "FetchEntryOriginalContent"
    <2>1. q.row = [content |-> "page"] ++ old
      BY <1>1, <1>5 DEF ++
    <2>2. DOMAIN [content |-> "page"] \subseteq {"title", "content"}
      OBVIOUS
    <2>3. Promised(c, Asked(q), d) = [d EXCEPT !["entries"][q.of] = [content |-> "page"] ++ old]
      BY <1>5 DEF Promised, Asked
    <2> QED BY <1>3, <1>5, <2>1, <2>2, <2>3
  <1> QED BY <1>2, <1>4, <1>5

LEMMA OthersAsPromised ==
    ASSUME NEW c, NEW d, Columns(d), NEW q, Formed(q), NEW e,
           \/ /\ q.method = "UpdateEnclosure" /\ q.of \in Own(d, "media", q.user)
              /\ q.row = q.body ++ d.media[q.of] /\ e \in storeUpdateEnclosure(q, d)
           \/ /\ q.method = "CreateAPIKey" /\ NewId(c) \notin DOMAIN d.keys
              /\ e \in storeCreateAPIKey(c, q, d)
    PROVE  e = Promised(c, Asked(q), d)
  <1>0. "media" \in Tables /\ "keys" \in Tables
    BY DEF Tables
  <1>1. CASE q.method = "UpdateEnclosure"
    <2>1. q.of \in DOMAIN d.media
      BY <1>1 DEF Own
    <2>2. e \in Unless(FALSE, Put(d, "media", q.of, q.row))
      BY <1>1, <2>1 DEF storeUpdateEnclosure, Unless
    <2>3. e = [d EXCEPT !["media"][q.of] = q.row]
      BY <1>0, <2>1, <2>2, PutOver
    <2> QED BY <1>1, <2>3 DEF Promised, Asked
  <1>2. CASE q.method = "CreateAPIKey"
    <2> DEFINE row == [owner |-> q.user, description |-> q.body.description]
               made == q.body ++ [owner |-> q.user]
               broken == \E k \in Own(d, "keys", q.user) : d.keys[k].description = q.body.description
    <2>1. e \in Unless(broken, Put(d, "keys", NewId(c), row))
      BY <1>2 DEF storeCreateAPIKey
    <2>2. DOMAIN q.body = {"description"}
      BY <1>2 DEF Formed
    <2>3. row = made
      BY <2>2 DEF ++
    <2>4. Promised(c, Asked(q), d) = [d EXCEPT !["keys"] = @ ++ [i \in {NewId(c)} |-> made]]
      BY <1>2 DEF Promised, Asked
    <2> HIDE DEF row, made, broken
    <2>5. e = [d EXCEPT !["keys"] = @ ++ [i \in {NewId(c)} |-> row]]
      BY <1>0, <1>2, <2>1, PutBeside
    <2> QED BY <2>3, <2>4, <2>5
  <1> QED BY <1>1, <1>2

(* What importing an entry makes: the entry is there already, or is new;   *)
(* then its status is set, and its star when it is to have one.            *)
LEMMA MarkedIs ==
    ASSUME NEW d, NEW e, NEW table, e = [d EXCEPT !.entries = table], "entries" \in DOMAIN d,
           NEW id \in DOMAIN table, NEW column, NEW value
    PROVE  Marked(e, {id}, column, value)
              = [d EXCEPT !.entries = [table EXCEPT ![id] = [table[id] EXCEPT ![column] = value]]]
  <1> DEFINE one == [x \in DOMAIN table |->
                        IF x \in {id} THEN [table[x] EXCEPT ![column] = value] ELSE table[x]]
             other == [table EXCEPT ![id] = [table[id] EXCEPT ![column] = value]]
  <1>1. one = other
    OBVIOUS
  <1>2. e.entries = table
    OBVIOUS
  <1>3. Marked(e, {id}, column, value) = [e EXCEPT !.entries = one]
    BY <1>2 DEF Marked
  <1> HIDE DEF one, other
  <1>4. [e EXCEPT !.entries = one] = [d EXCEPT !.entries = other]
    BY <1>1
  <1> QED BY <1>3, <1>4 DEF other

LEMMA ImportedThere ==
    ASSUME NEW c, NEW d, HomeDb(d), Tidy(d), NEW q, q.method = "ImportFeedEntry", Formed(q),
           q.of \in Own(d, "feeds", q.user),
           NEW id \in WithHash(d, q.of, q.body.hash)
    PROVE  /\ WithHash(d, q.of, q.body.hash) = {id}
           /\ id \in Own(d, "entries", q.user)
           /\ ~q.body.starred => Marked(d, {id}, "unread", q.body.unread) = Promised(c, Asked(q), d)
           /\ q.body.starred => Marked(Marked(d, {id}, "unread", q.body.unread), {id}, "starred", q.body.starred)
                                   = Promised(c, Asked(q), d)
  <1> DEFINE there == WithHash(d, q.of, q.body.hash)
             old == d.entries[id]
             star == old.starred \/ q.body.starred
             row == [old EXCEPT !.unread = q.body.unread, !.starred = star]
             Unread(r) == [r EXCEPT !.unread = q.body.unread, !.starred = @ \/ q.body.starred]
             table == [e \in DOMAIN d.entries |-> IF e \in there THEN Unread(d.entries[e]) ELSE d.entries[e]]
             marked == Marked(d, {id}, "unread", q.body.unread)
             read == [d.entries EXCEPT ![id] = [d.entries[id] EXCEPT !["unread"] = q.body.unread]]
  <1>1. id \in DOMAIN d.entries /\ old.feed = q.of /\ old.hash = q.body.hash
    BY DEF WithHash
  <1>2. there = {id}
    BY <1>1 DEF WithHash, Tidy
  <1>3. id \in Own(d, "entries", q.user)
    BY <1>1 DEF HomeDb, FiledAtHome, Own
  <1>4. Promised(c, Asked(q), d) = [d EXCEPT !.entries = table]
    BY <1>2 DEF Promised, Asked
  <1>5. table = [d.entries EXCEPT ![id] = row]
    BY <1>2
  <1>6. "starred" \in DOMAIN old /\ old.starred \in BOOLEAN /\ q.body.starred \in BOOLEAN
    BY <1>1 DEF Tidy, Formed
  <1>7. "entries" \in DOMAIN d
    BY DEF HomeDb, Columns, Tables
  <1>8. marked = [d EXCEPT !.entries = read]
    BY <1>1, <1>7 DEF Marked
  <1> HIDE DEF table, marked, there
  <1>9. ASSUME ~q.body.starred
        PROVE  marked = Promised(c, Asked(q), d)
    <2>1. star = old.starred
      BY <1>6, <1>9
    <2> HIDE DEF star, old
    <2>2. row = [old EXCEPT !.unread = q.body.unread]
      BY <2>1
    <2>3. read = [d.entries EXCEPT ![id] = row]
      BY <2>2 DEF old
    <2> QED BY <1>4, <1>5, <1>8, <2>3
  <1>10. ASSUME q.body.starred
         PROVE  Marked(marked, {id}, "starred", q.body.starred) = Promised(c, Asked(q), d)
    <2>1. star = q.body.starred
      BY <1>6, <1>10
    <2>2. id \in DOMAIN read /\ read[id] = [old EXCEPT !.unread = q.body.unread]
      BY <1>1
    <2> HIDE DEF star, old
    <2>3. [read[id] EXCEPT !["starred"] = q.body.starred] = row
      BY <2>1, <2>2
    <2>4. [read EXCEPT ![id] = row] = [d.entries EXCEPT ![id] = row]
      OBVIOUS
    <2> HIDE DEF read, row
    <2>5. Marked(marked, {id}, "starred", q.body.starred)
             = [d EXCEPT !.entries = [read EXCEPT ![id] = [read[id] EXCEPT !["starred"] = q.body.starred]]]
      <3>1. id \in DOMAIN read
        BY <2>2
      <3> QED BY <1>7, <1>8, <3>1, MarkedIs
    <2> QED BY <1>4, <1>5, <2>3, <2>4, <2>5
  <1> QED BY <1>2, <1>3, <1>9, <1>10 DEF there, marked

LEMMA ImportedNew ==
    ASSUME NEW c, NEW d, HomeDb(d), NEW q, q.method = "ImportFeedEntry", Formed(q),
           WithHash(d, q.of, q.body.hash) = {}, NewId(c) \notin DOMAIN d.entries,
           NEW m \in storeInsertEntryForFeed(c, q, d)
    PROVE  /\ WithHash(m, q.of, q.body.hash) = {NewId(c)}
           /\ NewId(c) \in Own(m, "entries", q.user)
           /\ ~q.body.starred => Marked(m, {NewId(c)}, "unread", q.body.unread) = Promised(c, Asked(q), d)
           /\ q.body.starred =>
                 Marked(Marked(m, {NewId(c)}, "unread", q.body.unread), {NewId(c)}, "starred", q.body.starred)
                    = Promised(c, Asked(q), d)
  <1> DEFINE id == NewId(c)
             row == [owner |-> q.user, feed |-> q.of, hash |-> q.body.hash, unread |-> TRUE, starred |-> FALSE,
                     shared |-> FALSE, title |-> q.body.title, content |-> Sanitized(q.body.content)]
             read == [row EXCEPT !["unread"] = q.body.unread]
             made == [owner |-> q.user, feed |-> q.of, shared |-> FALSE,
                      content |-> Sanitized(q.body.content)] ++ q.body
             With(r) == d.entries ++ [i \in {id} |-> r]
             broken == <<q.of, q.body.hash>> \in d.graves
  <1>0. "entries" \in Tables /\ "entries" \in DOMAIN d /\ Columns(d)
    BY DEF HomeDb, Columns, Tables
  <1>1. m \in Unless(broken, Put(d, "entries", id, row))
    BY DEF storeInsertEntryForFeed
  <1>2. DOMAIN q.body = {"hash", "title", "content", "unread", "starred"} /\ q.body.starred \in BOOLEAN
    BY DEF Formed
  <1>3. Promised(c, Asked(q), d) = [d EXCEPT !["entries"] = With(made)]
    BY DEF Promised, Asked
  <1>4. row.owner = q.user /\ row.feed = q.of /\ row.hash = q.body.hash
    OBVIOUS
  <1>5. made = [read EXCEPT !["starred"] = q.body.starred]
    <2> DEFINE I == {"owner", "feed", "hash", "unread", "starred", "shared", "title", "content"}
               own == [owner |-> q.user, feed |-> q.of, shared |-> FALSE, content |-> Sanitized(q.body.content)]
               other == [read EXCEPT !["starred"] = q.body.starred]
    <2>1. /\ DOMAIN own = {"owner", "feed", "shared", "content"}
          /\ own.owner = q.user /\ own.feed = q.of /\ own.shared = FALSE
          /\ own.content = Sanitized(q.body.content)
      OBVIOUS
    <2> HIDE DEF own
    <2>2. made = own ++ q.body
      BY DEF own
    <2>3. /\ made = [x \in I |-> made[x]]
          /\ made.owner = q.user /\ made.feed = q.of /\ made.shared = FALSE
          /\ made.content = Sanitized(q.body.content) /\ made.hash = q.body.hash
          /\ made.unread = q.body.unread /\ made.starred = q.body.starred /\ made.title = q.body.title
      BY <1>2, <2>1, <2>2 DEF ++
    <2>4. /\ other = [x \in I |-> other[x]]
          /\ other.owner = q.user /\ other.feed = q.of /\ other.shared = FALSE
          /\ other.content = Sanitized(q.body.content) /\ other.hash = q.body.hash
          /\ other.unread = q.body.unread /\ other.starred = q.body.starred /\ other.title = q.body.title
      OBVIOUS
    <2> HIDE DEF made, other
    <2>5. \A x \in I : made[x] = other[x]
      BY <2>3, <2>4
    <2> HIDE DEF I
    <2>6. made = other
      BY <2>3, <2>4, <2>5, SameRow
    <2> QED BY <2>6 DEF other
  <1>6. ~q.body.starred => made = read
    <2> SUFFICES ASSUME ~q.body.starred PROVE [read EXCEPT !["starred"] = q.body.starred] = read
      BY <1>5
    <2>1. q.body.starred = FALSE
      BY <1>2
    <2>2. read.starred = FALSE
      OBVIOUS
    <2> QED BY <2>1, <2>2
  <1> HIDE DEF row, made, broken
  <1>7. m = [d EXCEPT !["entries"] = With(row)]
    BY <1>0, <1>1, PutBeside
  <1>8. \A r : /\ DOMAIN With(r) = DOMAIN d.entries \cup {id} /\ With(r)[id] = r
               /\ \A i \in DOMAIN d.entries : With(r)[i] = d.entries[i]
    BY DEF ++
  <1>9. \A r, s : [With(r) EXCEPT ![id] = s] = With(s)
    BY DEF ++
  <1>10. m.entries = With(row)
    BY <1>0, <1>7
  <1> HIDE DEF read, With, id
  <1>11. WithHash(m, q.of, q.body.hash) = {id}
    BY <1>4, <1>8, <1>10 DEF WithHash
  <1>12. id \in Own(m, "entries", q.user)
    BY <1>4, <1>8, <1>10 DEF Own
  <1> DEFINE marked == Marked(m, {id}, "unread", q.body.unread)
  <1>13. marked = [d EXCEPT !.entries = With(read)]
    <2>1. marked = [d EXCEPT !.entries = [With(row) EXCEPT ![id] = [With(row)[id] EXCEPT !["unread"] = q.body.unread]]]
      <3> DEFINE table == With(row)
      <3>1. id \in DOMAIN table /\ m = [d EXCEPT !.entries = table]
        BY <1>7, <1>8
      <3> HIDE DEF table
      <3>2. Marked(m, {id}, "unread", q.body.unread)
               = [d EXCEPT !.entries = [table EXCEPT ![id] = [table[id] EXCEPT !["unread"] = q.body.unread]]]
        BY <1>0, <3>1, MarkedIs
      <3> QED BY <3>2 DEF table
    <2> QED BY <1>8, <1>9, <2>1 DEF read
  <1> HIDE DEF marked
  <1>14. Marked(marked, {id}, "starred", q.body.starred) = [d EXCEPT !.entries = With(made)]
    <2>1. Marked(marked, {id}, "starred", q.body.starred)
             = [d EXCEPT !.entries = [With(read) EXCEPT ![id] = [With(read)[id] EXCEPT !["starred"] = q.body.starred]]]
      <3> DEFINE table == With(read)
      <3>1. id \in DOMAIN table /\ marked = [d EXCEPT !.entries = table]
        BY <1>8, <1>13
      <3> HIDE DEF table
      <3>2. Marked(marked, {id}, "starred", q.body.starred)
               = [d EXCEPT !.entries = [table EXCEPT ![id] = [table[id] EXCEPT !["starred"] = q.body.starred]]]
        BY <1>0, <3>1, MarkedIs
      <3> QED BY <3>2 DEF table
    <2>2. [With(read)[id] EXCEPT !["starred"] = q.body.starred] = made
      BY <1>5, <1>8
    <2> QED BY <1>9, <2>1, <2>2
  <1> QED BY <1>3, <1>6, <1>11, <1>12, <1>13, <1>14 DEF id, marked

---------------------------------------------------------------------------
(* Names stay in lower case, and hashes stay apart.                        *)

(* Fewer users and fewer entries, as they were.                            *)
LEMMA FewerAreTidy ==
    ASSUME NEW d, Tidy(d), NEW e,
           DOMAIN e.users \subseteq DOMAIN d.users, \A u \in DOMAIN e.users : e.users[u] = d.users[u],
           DOMAIN e.entries \subseteq DOMAIN d.entries,
           \A i \in DOMAIN e.entries : e.entries[i] = d.entries[i]
    PROVE  Tidy(e)
  BY DEF Tidy

LEMMA RemovedIsTidy ==
    ASSUME NEW d, Columns(d), Tidy(d), NEW table \in Tables, NEW ids
    PROVE  Tidy(Removed(d, table, ids))
  <1> DEFINE r == [d EXCEPT ![table] = [i \in DOMAIN @ \ ids |-> @[i]]]
             w == WithParents(r)
  <1>1. /\ DOMAIN r = DOMAIN d
        /\ \A t \in Tables : DOMAIN r[t] \subseteq DOMAIN d[t] /\ \A i \in DOMAIN r[t] : r[t][i] = d[t][i]
    BY DEF Columns
  <1> HIDE DEF r
  <1>2. w.users = r.users
    BY <1>1 DEF WithParents, Columns, Tables
  <1>3. DOMAIN w.entries \subseteq DOMAIN r.entries /\ \A i \in DOMAIN w.entries : w.entries[i] = r.entries[i]
    BY <1>1 DEF WithParents, Columns, Tables
  <1>4. Removed(d, table, ids) = w
    BY DEF Removed, r
  <1> HIDE DEF w
  <1>5. Tidy(w)
    BY <1>1, <1>2, <1>3, FewerAreTidy DEF Tables
  <1> QED BY <1>4, <1>5

LEMMA MarkedIsTidy ==
    ASSUME NEW d, HomeDb(d), Tidy(d), NEW ids, NEW column \in {"unread", "starred", "title", "content"},
           NEW value, column = "starred" => value \in BOOLEAN
    PROVE  Tidy(Marked(d, ids, column, value))
  <1> DEFINE m == Marked(d, ids, column, value)
  <1>1. m.users = d.users
    BY DEF Marked
  <1>2. m.entries = [e \in DOMAIN d.entries |->
                        IF e \in ids THEN [d.entries[e] EXCEPT ![column] = value] ELSE d.entries[e]]
    BY DEF Marked, HomeDb, Columns, Tables
  <1> HIDE DEF m
  <1>3. /\ DOMAIN m.entries = DOMAIN d.entries
        /\ \A e \in DOMAIN d.entries :
              /\ DOMAIN m.entries[e] = DOMAIN d.entries[e]
              /\ m.entries[e].feed = d.entries[e].feed
              /\ m.entries[e].hash = d.entries[e].hash
    BY <1>2 DEF HomeDb, Columns, Tidy
  <1>4. \A e \in DOMAIN d.entries : m.entries[e].starred \in BOOLEAN
    BY <1>2 DEF Tidy
  <1>5. Tidy(m)
    BY <1>1, <1>3, <1>4 DEF Tidy
  <1> QED BY <1>5 DEF m

(* A row of another table.                                                 *)
LEMMA OtherRowsAreTidy ==
    ASSUME NEW d, Columns(d), Tidy(d), NEW table \in Tables \ {"users", "entries"}, NEW id, NEW row,
           NEW e \in Committed(Put(d, table, id, row))
    PROVE  Tidy(e)
  <1>1. e = Put(d, table, id, row)
    BY DEF Committed
  <1>2. \A t \in Tables \ {table} : Put(d, table, id, row)[t] = d[t]
    BY PutIs
  <1>3. e.users = d.users /\ e.entries = d.entries
    BY <1>1, <1>2 DEF Tables
  <1> QED BY <1>3, FewerAreTidy

LEMMA UserIsTidy ==
    ASSUME NEW d, Columns(d), Tidy(d), NEW id, NEW row, "name" \in DOMAIN row, Lower(row.name) = row.name
    PROVE  Tidy(Put(d, "users", id, row)) /\ Columns(Put(d, "users", id, row))
  <1> DEFINE p == Put(d, "users", id, row)
  <1>1. /\ DOMAIN p = DOMAIN d
        /\ \A t \in Tables \ {"users"} : p[t] = d[t]
        /\ DOMAIN p.users = DOMAIN d.users \cup {id} /\ p.users[id] = row
        /\ \A i \in DOMAIN d.users \ {id} : p.users[i] = d.users[i]
    BY PutIs DEF Tables
  <1> HIDE DEF p
  <1>2. p.entries = d.entries
    BY <1>1 DEF Tables
  <1>3. Tidy(p)
    BY <1>1, <1>2 DEF Tidy
  <1>4. Columns(p)
    BY <1>1 DEF Columns, Tables
  <1> QED BY <1>3, <1>4 DEF p

(* Which method and what row a statement about users comes with; where     *)
(* stars are set, the request says how.                                    *)
StarringPrograms ==
    {<<"SetEntriesStarredState">>, <<"SetEntriesStatus", "SetEntriesStarredState">>,
     <<"InsertEntryForFeed", "SetEntriesStatus", "SetEntriesStarredState">>}
Brings(method, body, row, todo) ==
    /\ Head(todo) = "CreateUser" => method = "CreateUser"
    /\ Head(todo) = "UpdateUser" => "name" \in DOMAIN row /\ Lower(Lower(row.name)) = Lower(row.name)
    /\ todo \in StarringPrograms => "starred" \in DOMAIN body

LEMMA StarringRuns ==
    ASSUME NEW p \in Programs
    PROVE  /\ Head(p) = "SetEntriesStarredState" => p \in StarringPrograms
           /\ Tail(p) \in StarringPrograms => p \in StarringPrograms
  <1>1. CASE \E s : p = <<s>>
    <2> PICK s : p = <<s>>
      BY <1>1
    <2>1. Head(<<s>>) = s /\ Tail(<<s>>) = <<>> /\ Len(<<>>) = 0
      OBVIOUS
    <2>2. \A x \in StarringPrograms : Len(x) # 0
      BY DEF StarringPrograms
    <2> QED BY <2>1, <2>2 DEF StarringPrograms
  <1>2. CASE p \in {<<"Fetch", "CreateFeed">>, <<"Scrape", "UpdateEntryTitleAndContent">>,
                    <<"InsertEntryForFeed", "SetEntriesStatus">>}
    <2> PICK s, t : /\ p = <<s, t>> /\ s \in {"Fetch", "Scrape", "InsertEntryForFeed"}
                    /\ t \in {"CreateFeed", "UpdateEntryTitleAndContent", "SetEntriesStatus"}
      BY <1>2
    <2>1. Head(<<s, t>>) = s /\ Tail(<<s, t>>) = <<t>>
      OBVIOUS
    <2>2. <<t>> \notin StarringPrograms
      BY DEF StarringPrograms
    <2> QED BY <2>1, <2>2
  <1>3. CASE p \in StarringPrograms
    BY <1>3
  <1> QED BY <1>1, <1>2, <1>3 DEF Programs, StarringPrograms

LEMMA StatementsAreTidy ==
    ASSUME NEW c, NEW d, HomeDb(d), Tidy(d), NEW q, Formed(q), q.todo \in Programs,
           Brings(q.method, q.body, q.row, q.todo), NEW statement, statement = Head(q.todo),
           NEW e \in Result(statement, c, q, d)
    PROVE  Tidy(e)
  <1>0. Columns(d)
    BY DEF HomeDb
  <1>1. statement \in {"CreateUser", "UpdateUser", "MarkAllAsRead", "CreateCategory", "UpdateCategory",
                       "MarkCategoryAsRead", "RemoveCategory", "CreateFeed", "UpdateFeed",
                       "MarkFeedAsRead", "RemoveFeed", "ToggleStarred", "Scrape", "UpdateEnclosure",
                       "CreateAPIKey", "DeleteAPIKey", "SetEntriesStatus", "SetEntriesStarredState",
                       "UpdateEntryTitleAndContent", "Fetch", "InsertEntryForFeed"}
    BY DEF Programs, LaterStatements
  <1>2. CASE statement = "CreateUser"
    <2> DEFINE row == [name |-> Lower(q.body.name), password |-> q.body.password, admin |-> q.body.admin,
                       theme |-> "default", saves |-> FALSE]
               u == Put(d, "users", NewId(c), row)
               home == [owner |-> NewId(c), title |-> "All"]
    <2>1. e \in storeCreateUser(c, q, d)
      BY <1>2 DEF Result
    <2>2. e \in Committed(Put(u, "categories", NewId(c), home))
      BY <2>1, UnlessCommits DEF storeCreateUser
    <2>3. "name" \in DOMAIN q.body /\ Lower(Lower(q.body.name)) = Lower(q.body.name)
      BY <1>2 DEF Formed, Brings
    <2>4. "name" \in DOMAIN row /\ Lower(row.name) = row.name
      BY <2>3
    <2> HIDE DEF row, home
    <2>5. Tidy(u) /\ Columns(u)
      BY <1>0, <2>4, UserIsTidy
    <2> HIDE DEF u
    <2> QED BY <2>2, <2>5, OtherRowsAreTidy DEF Tables
  <1>3. CASE statement = "UpdateUser"
    <2> DEFINE row == [q.row EXCEPT !.name = Lower(@),
                                    !.password = IF Named(q.body, "password") THEN @ ELSE d.users[q.of].password,
                                    !.saves = d.users[q.of].saves]
    <2>1. e \in storeUpdateUser(q, d)
      BY <1>3 DEF Result
    <2>2. e = d \/ e \in Committed(Put(d, "users", q.of, row))
      BY <2>1, UnlessCommits DEF storeUpdateUser
    <2>3. "name" \in DOMAIN q.row /\ Lower(Lower(q.row.name)) = Lower(q.row.name)
      BY <1>3 DEF Brings
    <2>4. "name" \in DOMAIN row /\ Lower(row.name) = row.name
      BY <2>3
    <2> HIDE DEF row
    <2>5. Tidy(Put(d, "users", q.of, row))
      BY <1>0, <2>4, UserIsTidy
    <2> QED BY <2>2, <2>5 DEF Committed
  <1>4. CASE statement \in {"CreateCategory", "UpdateCategory", "CreateFeed", "UpdateFeed", "UpdateEnclosure",
                            "CreateAPIKey"}
    <2>1. e = d \/ \E table \in Tables \ {"users", "entries"} : \E id, row : e \in Committed(Put(d, table, id, row))
      <3>1. CASE statement \in {"CreateCategory", "UpdateCategory"}
        BY <3>1, UnlessCommits DEF Result, storeCreateCategory, storeUpdateCategory, Tables
      <3>2. CASE statement \in {"CreateFeed", "UpdateFeed"}
        BY <3>2, UnlessCommits DEF Result, storeCreateFeed, storeUpdateFeed, Tables
      <3>3. CASE statement = "UpdateEnclosure"
        BY <3>3, UnlessCommits DEF Result, storeUpdateEnclosure, Tables
      <3>4. CASE statement = "CreateAPIKey"
        BY <3>4, UnlessCommits DEF Result, storeCreateAPIKey, Tables
      <3> QED BY <1>4, <3>1, <3>2, <3>3, <3>4
    <2> QED BY <1>0, <2>1, OtherRowsAreTidy
  <1>5. CASE statement \in {"MarkAllAsRead", "MarkCategoryAsRead", "MarkFeedAsRead", "SetEntriesStatus"}
    <2>1. \E ids, value : e = Marked(d, ids, "unread", value)
      BY <1>5 DEF Result, storeMarkAllAsRead, storeMarkFeedAsRead, storeMarkCategoryAsRead, storeSetEntriesStatus
    <2> QED BY <2>1, MarkedIsTidy
  <1>6. CASE statement = "SetEntriesStarredState"
    <2>1. q.todo \in StarringPrograms
      BY <1>6, StarringRuns
    <2>2. q.body.starred \in BOOLEAN
      BY <2>1 DEF Brings, Formed
    <2>3. \E ids : e = Marked(d, ids, "starred", q.body.starred)
      BY <1>6 DEF Result, storeSetEntriesStarredState
    <2> QED BY <2>2, <2>3, MarkedIsTidy
  <1>7. CASE statement = "ToggleStarred"
    <2>1. \E ids : \E value \in BOOLEAN : e = Marked(d, ids, "starred", value)
      BY <1>7 DEF Result, storeToggleStarred
    <2> QED BY <2>1, MarkedIsTidy
  <1>8. CASE statement = "UpdateEntryTitleAndContent"
    <2>1. \/ e = d
          \/ \E ids, one, other : e = Marked(Marked(d, ids, "title", one), ids, "content", other)
      BY <1>8 DEF Result, storeUpdateEntryTitleAndContent
    <2>2. ASSUME NEW ids, NEW one, NEW other, e = Marked(Marked(d, ids, "title", one), ids, "content", other)
          PROVE  Tidy(e)
      <3>1. HomeDb(Marked(d, ids, "title", one)) /\ Tidy(Marked(d, ids, "title", one))
        BY MarkedIsHome, MarkedIsTidy
      <3> QED BY <2>2, <3>1, MarkedIsTidy
    <2> QED BY <2>1, <2>2
  <1>9. CASE statement \in {"RemoveCategory", "RemoveFeed", "DeleteAPIKey"}
    <2>1. \E ids : \E table \in Tables : e = Removed(d, table, ids)
      BY <1>9 DEF Result, storeRemoveCategory, storeRemoveFeed, storeDeleteAPIKey, Tables
    <2> QED BY <1>0, <2>1, RemovedIsTidy
  <1>10. CASE statement \in {"Scrape", "Fetch"}
    BY <1>10 DEF Result, fetchDocument
  <1>11. CASE statement = "InsertEntryForFeed"
    <2> DEFINE row == [owner |-> q.user, feed |-> q.of, hash |-> q.body.hash, unread |-> TRUE,
                       starred |-> FALSE, shared |-> FALSE, title |-> q.body.title,
                       content |-> Sanitized(q.body.content)]
               p == Put(d, "entries", NewId(c), row)
    <2>1. e = d \/ (WithHash(d, q.of, q.body.hash) = {} /\ e = p)
      BY <1>11, UnlessCommits DEF Result, storeInsertEntryForFeed, Committed
    <2>2. /\ {"hash", "title", "content", "starred"} \subseteq DOMAIN row /\ row.starred \in BOOLEAN
          /\ row.hash = q.body.hash /\ row.feed = q.of
      OBVIOUS
    <2> HIDE DEF row
    <2>3. /\ \A t \in Tables \ {"entries"} : p[t] = d[t]
          /\ DOMAIN p.entries = DOMAIN d.entries \cup {NewId(c)} /\ p.entries[NewId(c)] = row
          /\ \A i \in DOMAIN d.entries \ {NewId(c)} : p.entries[i] = d.entries[i]
      BY <1>0, PutIs DEF Tables
    <2> HIDE DEF p
    <2>4. p.users = d.users
      BY <2>3 DEF Tables
    <2>5. WithHash(d, q.of, q.body.hash) = {} => Tidy(p)
      BY <2>2, <2>3, <2>4 DEF Tidy, WithHash
    <2> QED BY <2>1, <2>5
  <1> QED BY <1>1, <1>2, <1>3, <1>4, <1>5, <1>6, <1>7, <1>8, <1>9, <1>10, <1>11

(* A pattern serves a request that fits it, when it is more specific than  *)
(* any other that does.                                                    *)
Serves(verb, path, pattern, handler) ==
    /\ <<verb, pattern, handler>> \in Routes /\ Fits(path, pattern)
    /\ \A other \in Routes :
          other[1] = verb /\ Fits(path, other[2])
             => other = <<verb, pattern, handler>> \/ (Fits(pattern, other[2]) /\ ~Fits(other[2], pattern))

(* The mux finds that pattern.                                             *)
LEMMA RouteIs ==
    ASSUME NEW verb, NEW path, NEW pattern, NEW handler, Serves(verb, path, pattern, handler), NEW reads
    PROVE  RouteOf(Request(verb, path, reads)) = handler
  <1> DEFINE route == <<verb, pattern, handler>>
             fitting == {r \in Routes : r[1] = verb /\ Fits(path, r[2])}
             best == CHOOSE r \in fitting : \A other \in fitting : Fits(r[2], other[2])
  <1>1. route \in fitting /\ \A other \in fitting : Fits(route[2], other[2])
    BY DEF Fits, Serves
  <1>2. best \in fitting /\ \A other \in fitting : Fits(best[2], other[2])
    BY <1>1
  <1>3. best = route
    BY <1>1, <1>2 DEF Serves
  <1>4. RouteOf(Request(verb, path, reads)) = route[3]
    BY <1>1, <1>3 DEF RouteOf, Request
  <1> QED BY <1>4

(* The handler of each method, and the methods that read no answer.        *)
Meant ==
    {<<"Version", "version">>, <<"Me", "currentUser">>, <<"Users", "users">>,
     <<"UserByID", "dispatchUserLookup">>, <<"UserByUsername", "dispatchUserLookup">>,
     <<"CreateUser", "createUser">>, <<"UpdateUser", "updateUser">>, <<"DeleteUser", "removeUser">>,
     <<"APIKeys", "getAPIKeys">>, <<"CreateAPIKey", "createAPIKey">>,
     <<"DeleteAPIKey", "deleteAPIKey">>, <<"MarkAllAsRead", "markUserAsRead">>,
     <<"IntegrationsStatus", "getIntegrationsStatus">>, <<"Discover", "discoverSubscriptions">>,
     <<"Categories", "getCategories">>, <<"CreateCategory", "createCategory">>,
     <<"UpdateCategory", "updateCategory">>, <<"MarkCategoryAsRead", "markCategoryAsRead">>,
     <<"CategoryFeeds", "getCategoryFeeds">>, <<"DeleteCategory", "removeCategory">>,
     <<"RefreshCategory", "refreshCategory">>, <<"Feeds", "getFeeds">>, <<"Export", "exportFeeds">>,
     <<"Feed", "getFeed">>, <<"CreateFeed", "createFeed">>, <<"UpdateFeed", "updateFeed">>,
     <<"ImportFeedEntry", "importFeedEntry">>, <<"MarkFeedAsRead", "markFeedAsRead">>,
     <<"RefreshAllFeeds", "refreshAllFeeds">>, <<"RefreshFeed", "refreshFeed">>,
     <<"DeleteFeed", "removeFeed">>, <<"FeedIcon", "getIconByFeedID">>,
     <<"FeedEntry", "getFeedEntry">>, <<"CategoryEntry", "getCategoryEntry">>,
     <<"Entry", "getEntry">>, <<"EntryIDs", "getEntryIDs">>, <<"Entries", "getEntries">>,
     <<"FeedEntries", "getFeedEntries">>, <<"CategoryEntries", "getCategoryEntries">>,
     <<"UpdateEntries", "setEntryStatusAndStarred">>,
     <<"UpdateEntriesStarred", "setEntryStatusAndStarred">>, <<"UpdateEntry", "updateEntry">>,
     <<"ToggleStarred", "toggleStarred">>, <<"SaveEntry", "saveEntry">>,
     <<"FetchEntryOriginalContent", "fetchContent">>, <<"FetchCounters", "fetchCounters">>,
     <<"FlushHistory", "flushHistory">>, <<"Icon", "getIconByIconID">>,
     <<"Enclosure", "getEnclosureByID">>, <<"UpdateEnclosure", "updateEnclosureByID">>}
Silent ==
    {"DeleteUser", "DeleteAPIKey", "MarkAllAsRead", "MarkCategoryAsRead", "DeleteCategory",
     "RefreshCategory", "MarkFeedAsRead", "RefreshAllFeeds", "RefreshFeed", "DeleteFeed",
     "UpdateEntries", "UpdateEntriesStarred", "ToggleStarred", "SaveEntry", "FlushHistory",
     "UpdateEnclosure"}
GoesRight(method, request) ==
    <<method, RouteOf(request)>> \in Meant /\ (method \in Silent => ~request.reads)
AllGoRight(requests) == \A method \in DOMAIN requests : GoesRight(method, requests[method])

LEMMA GoesByRoute ==
    ASSUME NEW method, NEW verb, NEW path, NEW reads \in BOOLEAN, NEW pattern, NEW handler,
           Serves(verb, path, pattern, handler), <<method, handler>> \in Meant,
           method \in Silent => ~reads
    PROVE  GoesRight(method, Request(verb, path, reads))
  <1>1. RouteOf(Request(verb, path, reads)) = handler
    BY RouteIs
  <1> QED BY <1>1 DEF GoesRight, Request

LEMMA RightTogether ==
    ASSUME NEW one, NEW other, AllGoRight(one), AllGoRight(other)
    PROVE  AllGoRight(one ++ other)
  BY DEF AllGoRight, ++

(* The methods about users.                                                *)
LEMMA UserCallsGoRight == AllGoRight(UserCalls)
  <1>1. GoesRight("Version", Request("GET", <<"version">>, TRUE))
    <2>1. Serves("GET", <<"version">>, <<"version">>, "version")
      BY DEF Serves, Routes, Fits
    <2> QED BY <2>1, GoesByRoute DEF Meant, Silent
  <1>2. GoesRight("Me", Request("GET", <<"me">>, TRUE))
    <2>1. Serves("GET", <<"me">>, <<"me">>, "currentUser")
      BY DEF Serves, Routes, Fits
    <2> QED BY <2>1, GoesByRoute DEF Meant, Silent
  <1>3. GoesRight("Users", Request("GET", <<"users">>, TRUE))
    <2>1. Serves("GET", <<"users">>, <<"users">>, "users")
      BY DEF Serves, Routes, Fits
    <2> QED BY <2>1, GoesByRoute DEF Meant, Silent
  <1>4. GoesRight("UserByID", Request("GET", <<"users", "#">>, TRUE))
    <2>1. Serves("GET", <<"users", "#">>, <<"users", "*">>, "dispatchUserLookup")
      BY DEF Serves, Routes, Fits
    <2> QED BY <2>1, GoesByRoute DEF Meant, Silent
  <1>5. GoesRight("UserByUsername", Request("GET", <<"users", "@">>, TRUE))
    <2>1. Serves("GET", <<"users", "@">>, <<"users", "*">>, "dispatchUserLookup")
      BY DEF Serves, Routes, Fits
    <2> QED BY <2>1, GoesByRoute DEF Meant, Silent
  <1>6. GoesRight("CreateUser", Request("POST", <<"users">>, TRUE))
    <2>1. Serves("POST", <<"users">>, <<"users">>, "createUser")
      BY DEF Serves, Routes, Fits
    <2> QED BY <2>1, GoesByRoute DEF Meant, Silent
  <1>7. DOMAIN UserCalls = {"Version", "Me", "Users", "UserByID", "UserByUsername", "CreateUser"}
    BY DEF UserCalls
  <1>8. /\ GoesRight("Version", UserCalls.Version)
        /\ GoesRight("Me", UserCalls.Me)
        /\ GoesRight("Users", UserCalls.Users)
        /\ GoesRight("UserByID", UserCalls.UserByID)
        /\ GoesRight("UserByUsername", UserCalls.UserByUsername)
        /\ GoesRight("CreateUser", UserCalls.CreateUser)
    BY <1>1, <1>2, <1>3, <1>4, <1>5, <1>6 DEF UserCalls
  <1> QED BY <1>7, <1>8 DEF AllGoRight

(* The methods about accounts.                                             *)
LEMMA AccountCallsGoRight == AllGoRight(AccountCalls)
  <1>1. GoesRight("UpdateUser", Request("PUT", <<"users", "#">>, TRUE))
    <2>1. Serves("PUT", <<"users", "#">>, <<"users", "*">>, "updateUser")
      BY DEF Serves, Routes, Fits
    <2> QED BY <2>1, GoesByRoute DEF Meant, Silent
  <1>2. GoesRight("DeleteUser", Request("DELETE", <<"users", "#">>, FALSE))
    <2>1. Serves("DELETE", <<"users", "#">>, <<"users", "*">>, "removeUser")
      BY DEF Serves, Routes, Fits
    <2> QED BY <2>1, GoesByRoute DEF Meant, Silent
  <1>3. GoesRight("APIKeys", Request("GET", <<"api-keys">>, TRUE))
    <2>1. Serves("GET", <<"api-keys">>, <<"api-keys">>, "getAPIKeys")
      BY DEF Serves, Routes, Fits
    <2> QED BY <2>1, GoesByRoute DEF Meant, Silent
  <1>4. GoesRight("CreateAPIKey", Request("POST", <<"api-keys">>, TRUE))
    <2>1. Serves("POST", <<"api-keys">>, <<"api-keys">>, "createAPIKey")
      BY DEF Serves, Routes, Fits
    <2> QED BY <2>1, GoesByRoute DEF Meant, Silent
  <1>5. GoesRight("DeleteAPIKey", Request("DELETE", <<"api-keys", "#">>, FALSE))
    <2>1. Serves("DELETE", <<"api-keys", "#">>, <<"api-keys", "*">>, "deleteAPIKey")
      BY DEF Serves, Routes, Fits
    <2> QED BY <2>1, GoesByRoute DEF Meant, Silent
  <1>6. GoesRight("MarkAllAsRead", Request("PUT", <<"users", "#", "mark-all-as-read">>, FALSE))
    <2>1. Serves("PUT", <<"users", "#", "mark-all-as-read">>, <<"users", "*", "mark-all-as-read">>, "markUserAsRead")
      BY DEF Serves, Routes, Fits
    <2> QED BY <2>1, GoesByRoute DEF Meant, Silent
  <1>7. GoesRight("IntegrationsStatus", Request("GET", <<"integrations", "status">>, TRUE))
    <2>1. Serves("GET", <<"integrations", "status">>, <<"integrations", "status">>, "getIntegrationsStatus")
      BY DEF Serves, Routes, Fits
    <2> QED BY <2>1, GoesByRoute DEF Meant, Silent
  <1>8. DOMAIN AccountCalls = {"UpdateUser", "DeleteUser", "APIKeys", "CreateAPIKey", "DeleteAPIKey", "MarkAllAsRead", "IntegrationsStatus"}
    BY DEF AccountCalls
  <1>9. /\ GoesRight("UpdateUser", AccountCalls.UpdateUser)
        /\ GoesRight("DeleteUser", AccountCalls.DeleteUser)
        /\ GoesRight("APIKeys", AccountCalls.APIKeys)
        /\ GoesRight("CreateAPIKey", AccountCalls.CreateAPIKey)
        /\ GoesRight("DeleteAPIKey", AccountCalls.DeleteAPIKey)
        /\ GoesRight("MarkAllAsRead", AccountCalls.MarkAllAsRead)
        /\ GoesRight("IntegrationsStatus", AccountCalls.IntegrationsStatus)
    BY <1>1, <1>2, <1>3, <1>4, <1>5, <1>6, <1>7 DEF AccountCalls
  <1> QED BY <1>8, <1>9 DEF AllGoRight

(* The methods about categories.                                           *)
LEMMA CategoryCallsGoRight == AllGoRight(CategoryCalls)
  <1>1. GoesRight("Discover", Request("POST", <<"discover">>, TRUE))
    <2>1. Serves("POST", <<"discover">>, <<"discover">>, "discoverSubscriptions")
      BY DEF Serves, Routes, Fits
    <2> QED BY <2>1, GoesByRoute DEF Meant, Silent
  <1>2. GoesRight("Categories", Request("GET", <<"categories">>, TRUE))
    <2>1. Serves("GET", <<"categories">>, <<"categories">>, "getCategories")
      BY DEF Serves, Routes, Fits
    <2> QED BY <2>1, GoesByRoute DEF Meant, Silent
  <1>3. GoesRight("CreateCategory", Request("POST", <<"categories">>, TRUE))
    <2>1. Serves("POST", <<"categories">>, <<"categories">>, "createCategory")
      BY DEF Serves, Routes, Fits
    <2> QED BY <2>1, GoesByRoute DEF Meant, Silent
  <1>4. GoesRight("UpdateCategory", Request("PUT", <<"categories", "#">>, TRUE))
    <2>1. Serves("PUT", <<"categories", "#">>, <<"categories", "*">>, "updateCategory")
      BY DEF Serves, Routes, Fits
    <2> QED BY <2>1, GoesByRoute DEF Meant, Silent
  <1>5. DOMAIN CategoryCalls = {"Discover", "Categories", "CreateCategory", "UpdateCategory"}
    BY DEF CategoryCalls
  <1>6. /\ GoesRight("Discover", CategoryCalls.Discover)
        /\ GoesRight("Categories", CategoryCalls.Categories)
        /\ GoesRight("CreateCategory", CategoryCalls.CreateCategory)
        /\ GoesRight("UpdateCategory", CategoryCalls.UpdateCategory)
    BY <1>1, <1>2, <1>3, <1>4 DEF CategoryCalls
  <1> QED BY <1>5, <1>6 DEF AllGoRight

(* The methods about what is in categories.                                *)
LEMMA CategoryContentCallsGoRight == AllGoRight(CategoryContentCalls)
  <1>1. GoesRight("MarkCategoryAsRead", Request("PUT", <<"categories", "#", "mark-all-as-read">>, FALSE))
    <2>1. Serves("PUT", <<"categories", "#", "mark-all-as-read">>, <<"categories", "*", "mark-all-as-read">>, "markCategoryAsRead")
      BY DEF Serves, Routes, Fits
    <2> QED BY <2>1, GoesByRoute DEF Meant, Silent
  <1>2. GoesRight("CategoryFeeds", Request("GET", <<"categories", "#", "feeds">>, TRUE))
    <2>1. Serves("GET", <<"categories", "#", "feeds">>, <<"categories", "*", "feeds">>, "getCategoryFeeds")
      BY DEF Serves, Routes, Fits
    <2> QED BY <2>1, GoesByRoute DEF Meant, Silent
  <1>3. GoesRight("DeleteCategory", Request("DELETE", <<"categories", "#">>, FALSE))
    <2>1. Serves("DELETE", <<"categories", "#">>, <<"categories", "*">>, "removeCategory")
      BY DEF Serves, Routes, Fits
    <2> QED BY <2>1, GoesByRoute DEF Meant, Silent
  <1>4. GoesRight("RefreshCategory", Request("PUT", <<"categories", "#", "refresh">>, FALSE))
    <2>1. Serves("PUT", <<"categories", "#", "refresh">>, <<"categories", "*", "refresh">>, "refreshCategory")
      BY DEF Serves, Routes, Fits
    <2> QED BY <2>1, GoesByRoute DEF Meant, Silent
  <1>5. GoesRight("Feeds", Request("GET", <<"feeds">>, TRUE))
    <2>1. Serves("GET", <<"feeds">>, <<"feeds">>, "getFeeds")
      BY DEF Serves, Routes, Fits
    <2> QED BY <2>1, GoesByRoute DEF Meant, Silent
  <1>6. GoesRight("Export", Request("GET", <<"export">>, TRUE))
    <2>1. Serves("GET", <<"export">>, <<"export">>, "exportFeeds")
      BY DEF Serves, Routes, Fits
    <2> QED BY <2>1, GoesByRoute DEF Meant, Silent
  <1>7. DOMAIN CategoryContentCalls = {"MarkCategoryAsRead", "CategoryFeeds", "DeleteCategory", "RefreshCategory", "Feeds", "Export"}
    BY DEF CategoryContentCalls
  <1>8. /\ GoesRight("MarkCategoryAsRead", CategoryContentCalls.MarkCategoryAsRead)
        /\ GoesRight("CategoryFeeds", CategoryContentCalls.CategoryFeeds)
        /\ GoesRight("DeleteCategory", CategoryContentCalls.DeleteCategory)
        /\ GoesRight("RefreshCategory", CategoryContentCalls.RefreshCategory)
        /\ GoesRight("Feeds", CategoryContentCalls.Feeds)
        /\ GoesRight("Export", CategoryContentCalls.Export)
    BY <1>1, <1>2, <1>3, <1>4, <1>5, <1>6 DEF CategoryContentCalls
  <1> QED BY <1>7, <1>8 DEF AllGoRight

(* The methods about feeds.                                                *)
LEMMA FeedCallsGoRight == AllGoRight(FeedCalls)
  <1>1. GoesRight("Feed", Request("GET", <<"feeds", "#">>, TRUE))
    <2>1. Serves("GET", <<"feeds", "#">>, <<"feeds", "*">>, "getFeed")
      BY DEF Serves, Routes, Fits
    <2> QED BY <2>1, GoesByRoute DEF Meant, Silent
  <1>2. GoesRight("CreateFeed", Request("POST", <<"feeds">>, TRUE))
    <2>1. Serves("POST", <<"feeds">>, <<"feeds">>, "createFeed")
      BY DEF Serves, Routes, Fits
    <2> QED BY <2>1, GoesByRoute DEF Meant, Silent
  <1>3. GoesRight("UpdateFeed", Request("PUT", <<"feeds", "#">>, TRUE))
    <2>1. Serves("PUT", <<"feeds", "#">>, <<"feeds", "*">>, "updateFeed")
      BY DEF Serves, Routes, Fits
    <2> QED BY <2>1, GoesByRoute DEF Meant, Silent
  <1>4. GoesRight("ImportFeedEntry", Request("POST", <<"feeds", "#", "entries", "import">>, TRUE))
    <2>1. Serves("POST", <<"feeds", "#", "entries", "import">>, <<"feeds", "*", "entries", "import">>, "importFeedEntry")
      BY DEF Serves, Routes, Fits
    <2> QED BY <2>1, GoesByRoute DEF Meant, Silent
  <1>5. GoesRight("MarkFeedAsRead", Request("PUT", <<"feeds", "#", "mark-all-as-read">>, FALSE))
    <2>1. Serves("PUT", <<"feeds", "#", "mark-all-as-read">>, <<"feeds", "*", "mark-all-as-read">>, "markFeedAsRead")
      BY DEF Serves, Routes, Fits
    <2> QED BY <2>1, GoesByRoute DEF Meant, Silent
  <1>6. GoesRight("RefreshAllFeeds", Request("PUT", <<"feeds", "refresh">>, FALSE))
    <2>1. Serves("PUT", <<"feeds", "refresh">>, <<"feeds", "refresh">>, "refreshAllFeeds")
      BY DEF Serves, Routes, Fits
    <2> QED BY <2>1, GoesByRoute DEF Meant, Silent
  <1>7. DOMAIN FeedCalls = {"Feed", "CreateFeed", "UpdateFeed", "ImportFeedEntry", "MarkFeedAsRead", "RefreshAllFeeds"}
    BY DEF FeedCalls
  <1>8. /\ GoesRight("Feed", FeedCalls.Feed)
        /\ GoesRight("CreateFeed", FeedCalls.CreateFeed)
        /\ GoesRight("UpdateFeed", FeedCalls.UpdateFeed)
        /\ GoesRight("ImportFeedEntry", FeedCalls.ImportFeedEntry)
        /\ GoesRight("MarkFeedAsRead", FeedCalls.MarkFeedAsRead)
        /\ GoesRight("RefreshAllFeeds", FeedCalls.RefreshAllFeeds)
    BY <1>1, <1>2, <1>3, <1>4, <1>5, <1>6 DEF FeedCalls
  <1> QED BY <1>7, <1>8 DEF AllGoRight

(* The methods about what is in feeds.                                     *)
LEMMA FeedContentCallsGoRight == AllGoRight(FeedContentCalls)
  <1>1. GoesRight("RefreshFeed", Request("PUT", <<"feeds", "#", "refresh">>, FALSE))
    <2>1. Serves("PUT", <<"feeds", "#", "refresh">>, <<"feeds", "*", "refresh">>, "refreshFeed")
      BY DEF Serves, Routes, Fits
    <2> QED BY <2>1, GoesByRoute DEF Meant, Silent
  <1>2. GoesRight("DeleteFeed", Request("DELETE", <<"feeds", "#">>, FALSE))
    <2>1. Serves("DELETE", <<"feeds", "#">>, <<"feeds", "*">>, "removeFeed")
      BY DEF Serves, Routes, Fits
    <2> QED BY <2>1, GoesByRoute DEF Meant, Silent
  <1>3. GoesRight("FeedIcon", Request("GET", <<"feeds", "#", "icon">>, TRUE))
    <2>1. Serves("GET", <<"feeds", "#", "icon">>, <<"feeds", "*", "icon">>, "getIconByFeedID")
      BY DEF Serves, Routes, Fits
    <2> QED BY <2>1, GoesByRoute DEF Meant, Silent
  <1>4. GoesRight("FeedEntry", Request("GET", <<"feeds", "#", "entries", "#">>, TRUE))
    <2>1. Serves("GET", <<"feeds", "#", "entries", "#">>, <<"feeds", "*", "entries", "*">>, "getFeedEntry")
      BY DEF Serves, Routes, Fits
    <2> QED BY <2>1, GoesByRoute DEF Meant, Silent
  <1>5. GoesRight("CategoryEntry", Request("GET", <<"categories", "#", "entries", "#">>, TRUE))
    <2>1. Serves("GET", <<"categories", "#", "entries", "#">>, <<"categories", "*", "entries", "*">>, "getCategoryEntry")
      BY DEF Serves, Routes, Fits
    <2> QED BY <2>1, GoesByRoute DEF Meant, Silent
  <1>6. GoesRight("Entry", Request("GET", <<"entries", "#">>, TRUE))
    <2>1. Serves("GET", <<"entries", "#">>, <<"entries", "*">>, "getEntry")
      BY DEF Serves, Routes, Fits
    <2> QED BY <2>1, GoesByRoute DEF Meant, Silent
  <1>7. GoesRight("EntryIDs", Request("GET", <<"entries", "ids">>, TRUE))
    <2>1. Serves("GET", <<"entries", "ids">>, <<"entries", "ids">>, "getEntryIDs")
      BY DEF Serves, Routes, Fits
    <2> QED BY <2>1, GoesByRoute DEF Meant, Silent
  <1>8. DOMAIN FeedContentCalls = {"RefreshFeed", "DeleteFeed", "FeedIcon", "FeedEntry", "CategoryEntry", "Entry", "EntryIDs"}
    BY DEF FeedContentCalls
  <1>9. /\ GoesRight("RefreshFeed", FeedContentCalls.RefreshFeed)
        /\ GoesRight("DeleteFeed", FeedContentCalls.DeleteFeed)
        /\ GoesRight("FeedIcon", FeedContentCalls.FeedIcon)
        /\ GoesRight("FeedEntry", FeedContentCalls.FeedEntry)
        /\ GoesRight("CategoryEntry", FeedContentCalls.CategoryEntry)
        /\ GoesRight("Entry", FeedContentCalls.Entry)
        /\ GoesRight("EntryIDs", FeedContentCalls.EntryIDs)
    BY <1>1, <1>2, <1>3, <1>4, <1>5, <1>6, <1>7 DEF FeedContentCalls
  <1> QED BY <1>8, <1>9 DEF AllGoRight

(* The methods about lists of entries.                                     *)
LEMMA ListingCallsGoRight == AllGoRight(ListingCalls)
  <1>1. GoesRight("Entries", Request("GET", <<"entries">>, TRUE))
    <2>1. Serves("GET", <<"entries">>, <<"entries">>, "getEntries")
      BY DEF Serves, Routes, Fits
    <2> QED BY <2>1, GoesByRoute DEF Meant, Silent
  <1>2. GoesRight("FeedEntries", Request("GET", <<"feeds", "#", "entries">>, TRUE))
    <2>1. Serves("GET", <<"feeds", "#", "entries">>, <<"feeds", "*", "entries">>, "getFeedEntries")
      BY DEF Serves, Routes, Fits
    <2> QED BY <2>1, GoesByRoute DEF Meant, Silent
  <1>3. GoesRight("CategoryEntries", Request("GET", <<"categories", "#", "entries">>, TRUE))
    <2>1. Serves("GET", <<"categories", "#", "entries">>, <<"categories", "*", "entries">>, "getCategoryEntries")
      BY DEF Serves, Routes, Fits
    <2> QED BY <2>1, GoesByRoute DEF Meant, Silent
  <1>4. GoesRight("UpdateEntries", Request("PUT", <<"entries">>, FALSE))
    <2>1. Serves("PUT", <<"entries">>, <<"entries">>, "setEntryStatusAndStarred")
      BY DEF Serves, Routes, Fits
    <2> QED BY <2>1, GoesByRoute DEF Meant, Silent
  <1>5. GoesRight("UpdateEntriesStarred", Request("PUT", <<"entries">>, FALSE))
    <2>1. Serves("PUT", <<"entries">>, <<"entries">>, "setEntryStatusAndStarred")
      BY DEF Serves, Routes, Fits
    <2> QED BY <2>1, GoesByRoute DEF Meant, Silent
  <1>6. GoesRight("UpdateEntry", Request("PUT", <<"entries", "#">>, TRUE))
    <2>1. Serves("PUT", <<"entries", "#">>, <<"entries", "*">>, "updateEntry")
      BY DEF Serves, Routes, Fits
    <2> QED BY <2>1, GoesByRoute DEF Meant, Silent
  <1>7. DOMAIN ListingCalls = {"Entries", "FeedEntries", "CategoryEntries", "UpdateEntries", "UpdateEntriesStarred", "UpdateEntry"}
    BY DEF ListingCalls
  <1>8. /\ GoesRight("Entries", ListingCalls.Entries)
        /\ GoesRight("FeedEntries", ListingCalls.FeedEntries)
        /\ GoesRight("CategoryEntries", ListingCalls.CategoryEntries)
        /\ GoesRight("UpdateEntries", ListingCalls.UpdateEntries)
        /\ GoesRight("UpdateEntriesStarred", ListingCalls.UpdateEntriesStarred)
        /\ GoesRight("UpdateEntry", ListingCalls.UpdateEntry)
    BY <1>1, <1>2, <1>3, <1>4, <1>5, <1>6 DEF ListingCalls
  <1> QED BY <1>7, <1>8 DEF AllGoRight

(* The methods about entries.                                              *)
LEMMA EntryCallsGoRight == AllGoRight(EntryCalls)
  <1>1. GoesRight("ToggleStarred", Request("PUT", <<"entries", "#", "star">>, FALSE))
    <2>1. Serves("PUT", <<"entries", "#", "star">>, <<"entries", "*", "star">>, "toggleStarred")
      BY DEF Serves, Routes, Fits
    <2> QED BY <2>1, GoesByRoute DEF Meant, Silent
  <1>2. GoesRight("SaveEntry", Request("POST", <<"entries", "#", "save">>, FALSE))
    <2>1. Serves("POST", <<"entries", "#", "save">>, <<"entries", "*", "save">>, "saveEntry")
      BY DEF Serves, Routes, Fits
    <2> QED BY <2>1, GoesByRoute DEF Meant, Silent
  <1>3. GoesRight("FetchEntryOriginalContent", Request("GET", <<"entries", "#", "fetch-content">>, TRUE))
    <2>1. Serves("GET", <<"entries", "#", "fetch-content">>, <<"entries", "*", "fetch-content">>, "fetchContent")
      BY DEF Serves, Routes, Fits
    <2> QED BY <2>1, GoesByRoute DEF Meant, Silent
  <1>4. GoesRight("FetchCounters", Request("GET", <<"feeds", "counters">>, TRUE))
    <2>1. Serves("GET", <<"feeds", "counters">>, <<"feeds", "counters">>, "fetchCounters")
      BY DEF Serves, Routes, Fits
    <2> QED BY <2>1, GoesByRoute DEF Meant, Silent
  <1>5. GoesRight("FlushHistory", Request("PUT", <<"flush-history">>, FALSE))
    <2>1. Serves("PUT", <<"flush-history">>, <<"flush-history">>, "flushHistory")
      BY DEF Serves, Routes, Fits
    <2> QED BY <2>1, GoesByRoute DEF Meant, Silent
  <1>6. GoesRight("Icon", Request("GET", <<"icons", "#">>, TRUE))
    <2>1. Serves("GET", <<"icons", "#">>, <<"icons", "*">>, "getIconByIconID")
      BY DEF Serves, Routes, Fits
    <2> QED BY <2>1, GoesByRoute DEF Meant, Silent
  <1>7. GoesRight("Enclosure", Request("GET", <<"enclosures", "#">>, TRUE))
    <2>1. Serves("GET", <<"enclosures", "#">>, <<"enclosures", "*">>, "getEnclosureByID")
      BY DEF Serves, Routes, Fits
    <2> QED BY <2>1, GoesByRoute DEF Meant, Silent
  <1>8. GoesRight("UpdateEnclosure", Request("PUT", <<"enclosures", "#">>, FALSE))
    <2>1. Serves("PUT", <<"enclosures", "#">>, <<"enclosures", "*">>, "updateEnclosureByID")
      BY DEF Serves, Routes, Fits
    <2> QED BY <2>1, GoesByRoute DEF Meant, Silent
  <1>9. DOMAIN EntryCalls = {"ToggleStarred", "SaveEntry", "FetchEntryOriginalContent", "FetchCounters", "FlushHistory", "Icon", "Enclosure", "UpdateEnclosure"}
    BY DEF EntryCalls
  <1>10. /\ GoesRight("ToggleStarred", EntryCalls.ToggleStarred)
        /\ GoesRight("SaveEntry", EntryCalls.SaveEntry)
        /\ GoesRight("FetchEntryOriginalContent", EntryCalls.FetchEntryOriginalContent)
        /\ GoesRight("FetchCounters", EntryCalls.FetchCounters)
        /\ GoesRight("FlushHistory", EntryCalls.FlushHistory)
        /\ GoesRight("Icon", EntryCalls.Icon)
        /\ GoesRight("Enclosure", EntryCalls.Enclosure)
        /\ GoesRight("UpdateEnclosure", EntryCalls.UpdateEnclosure)
    BY <1>1, <1>2, <1>3, <1>4, <1>5, <1>6, <1>7, <1>8 DEF EntryCalls
  <1> QED BY <1>9, <1>10 DEF AllGoRight

(* So for all of them.                                                     *)
LEMMA CallsGoRight ==
    ASSUME NEW method \in DOMAIN ClientCalls
    PROVE  /\ <<method, HandlerOf[method]>> \in Meant
           /\ method \in Silent => ~ClientCalls[method].reads
  <1>1. AllGoRight(ClientCalls)
    BY UserCallsGoRight, AccountCallsGoRight, CategoryCallsGoRight, CategoryContentCallsGoRight,
       FeedCallsGoRight, FeedContentCallsGoRight, ListingCallsGoRight, EntryCallsGoRight, RightTogether
       DEF ClientCalls
  <1> QED BY <1>1 DEF AllGoRight, GoesRight, HandlerOf

---------------------------------------------------------------------------
(* The call of a client that is alone with the database.                   *)

(* The statuses that a method makes "no error" of.                         *)
Fine(method, status) == status \in {200, 201} \/ (status \in {202, 204} /\ method \in Silent)
Errors == {400, 401, 403, 404, 500}

LEMMA ReceivedIs ==
    ASSUME NEW method \in DOMAIN ClientCalls, NEW status
    PROVE  /\ status \in Errors => Received(method, status) \notin {"nil", "broken"}
           /\ Fine(method, status) => Received(method, status) = "nil"
  <1>1. method \in Silent => ~ClientCalls[method].reads
    BY CallsGoRight
  <1>2. ASSUME status \in Errors
        PROVE  Received(method, status) \notin {"nil", "broken"}
    BY <1>2 DEF Errors, Received
  <1>3. ASSUME Fine(method, status)
        PROVE  Received(method, status) = "nil"
    <2>1. CASE status \in {200, 201}
      BY <2>1 DEF Received
    <2>2. CASE status \in {202, 204} /\ ~ClientCalls[method].reads
      BY <2>2 DEF Received
    <2> QED BY <1>1, <1>3, <2>1, <2>2 DEF Fine
  <1> QED BY <1>2, <1>3

(* What a call may have done when it is answered.                          *)
Right(c, q, d, db) ==
    /\ Received(q.method, q.status) # "broken"
    /\ Received(q.method, q.status) = "nil" => MayName(Asked(q), d) /\ db = Promised(c, Asked(q), d)
    /\ Received(q.method, q.status) # "nil" => db = d

(* A statement makes what was promised of the database that it is given,   *)
(* for rows that the caller may name.                                      *)
Does(statement, c, q, row, d) ==
    \A r : r.method = q.method /\ r.of = q.of /\ r.body = q.body /\ r.user = q.user /\ r.row = row
              => \A e \in Result(statement, c, r, d) : MayName(Asked(q), d) /\ e = Promised(c, Asked(q), d)

(* An import has three statements, of which only the first can fail: what  *)
(* is still to do makes what was promised.                                 *)
Imports(c, q, d, db) ==
    /\ db = d /\ q.method = "ImportFeedEntry" /\ q.of \in Own(d, "feeds", q.user)
    /\ q.todo = IF q.body.starred
                THEN <<"InsertEntryForFeed", "SetEntriesStatus", "SetEntriesStarredState">>
                ELSE <<"InsertEntryForFeed", "SetEntriesStatus">>
ImportsOn(c, q, d, db) ==
    LET Read(e) == Marked(e, {q.row.id}, "unread", q.body.unread)
        Star(e) == Marked(e, {q.row.id}, "starred", q.body.starred)
    IN /\ q.method = "ImportFeedEntry" /\ q.row.id \in Own(db, "entries", q.user)
       /\ MayName(Asked(q), d)
       /\ \/ q.todo = <<"SetEntriesStatus">> /\ Read(db) = Promised(c, Asked(q), d)
          \/ /\ q.todo = <<"SetEntriesStatus", "SetEntriesStarredState">>
             /\ Star(Read(db)) = Promised(c, Asked(q), d)
          \/ q.todo = <<"SetEntriesStarredState">> /\ Star(db) = Promised(c, Asked(q), d)

Ready(c, q, d, db) ==
    /\ Fine(q.method, q.status)
    /\ \/ /\ db = d
          /\ \E s : q.todo \in {<<s>>, <<"Fetch", s>>, <<"Scrape", s>>} /\ Does(s, c, q, q.row, d)
       \/ Imports(c, q, d, db)
       \/ ImportsOn(c, q, d, db)

(* Until its statements run, the database is what it was; from then on it  *)
(* is on the way to what was promised.                                     *)
Quiet(c, q, d, db) ==
    /\ q.phase \in {"sent", "known", "inside"} => db = d
    /\ q.phase = "inside" => q.admin = d.users[q.user].admin
    /\ q.phase = "writing" => Ready(c, q, d, db)
    /\ q.phase = "answered" => Right(c, q, d, db)
InOrder(c, q, db) ==
    q.phase # "idle" =>
       /\ Formed(q)
       /\ q.phase = "writing" => Brings(q.method, q.body, q.row, q.todo)
       /\ \A d \in q.before : Quiet(c, q, d, db)

OrderInv == Tidy(apiDb) /\ \A c \in Callers : InOrder(c, apiCall[c], apiDb)

LEMMA FormedAlike ==
    ASSUME NEW q, NEW r, Formed(q), r.method = q.method, r.of = q.of, r.body = q.body
    PROVE  Formed(r)
  BY DEF Formed

LEMMA AskedAlike ==
    ASSUME NEW q, NEW r, r.method = q.method, r.of = q.of, r.body = q.body, r.user = q.user
    PROVE  Asked(r) = Asked(q)
  BY DEF Asked

(* A step of one call that leaves the database alone.                      *)
LEMMA ProceedsInOrder ==
    ASSUME ApiIInv, OrderInv, NEW c \in Callers, NEW changes, DOMAIN changes \subseteq CallFields,
           Proceed(c, changes), UNCHANGED apiDb, InOrder(c, apiCall'[c], apiDb)
    PROVE  OrderInv'
  <1>1. \A x \in Callers : x # c => apiCall'[x] = apiCall[x]
    BY ProceedsWith DEF ApiIInv
  <1>2. \A x \in Callers : InOrder(x, apiCall'[x], apiDb)
    BY <1>1 DEF OrderInv
  <1>3. Tidy(apiDb)' /\ \A x \in Callers : InOrder(x, apiCall[x], apiDb)'
    BY <1>2 DEF OrderInv
  <1> QED BY <1>3 DEF OrderInv

(* An error, when nothing has been changed.                                *)
LEMMA ErrorsInOrder ==
    ASSUME ApiIInv, OrderInv, NEW c \in Callers, apiCall[c].phase # "idle",
           \A d \in apiCall[c].before : apiDb = d,
           NEW status \in Errors, Reply(c, status)
    PROVE  OrderInv'
  <1> DEFINE changes == [phase |-> "answered", status |-> status, row |-> NoChanges, todo |-> <<>>]
             q == apiCall[c]
             r == apiCall'[c]
  <1>1. Proceed(c, changes) /\ UNCHANGED apiDb
    BY DEF Reply
  <1>2. DOMAIN changes = {"phase", "status", "row", "todo"} /\ changes.phase = "answered" /\ changes.status = status
    OBVIOUS
  <1> HIDE DEF changes
  <1>3. DOMAIN changes \subseteq CallFields
    BY <1>2 DEF CallFields
  <1>4. \A f \in CallFields : r[f] = IF f \in DOMAIN changes THEN changes[f] ELSE q[f]
    BY <1>1, <1>3, ProceedsWith DEF ApiIInv
  <1>5. /\ r.phase = "answered" /\ r.status = status /\ r.before = q.before
        /\ r.method = q.method /\ r.of = q.of /\ r.body = q.body
    BY <1>2, <1>4 DEF CallFields
  <1>6. Formed(q)
    BY DEF OrderInv, InOrder
  <1> HIDE DEF r
  <1>7. Formed(r)
    BY <1>5, <1>6, FormedAlike
  <1>8. Received(r.method, r.status) \notin {"nil", "broken"}
    BY <1>5, <1>7, ReceivedIs DEF Formed
  <1>9. InOrder(c, r, apiDb)
    BY <1>5, <1>7, <1>8 DEF InOrder, Quiet, Right
  <1> QED BY <1>1, <1>3, <1>9, ProceedsInOrder DEF r

(* An answer of a handler that changes nothing.                            *)
LEMMA AnswersInOrder ==
    ASSUME ApiIInv, OrderInv, NEW c \in Callers, apiCall[c].phase = "inside", NEW status,
           Fine(apiCall[c].method, status), UNCHANGED apiDb,
           \/ Proceed(c, [phase |-> "answered", status |-> status])
           \/ Proceed(c, [phase |-> "answered", status |-> status, row |-> NoChanges, todo |-> <<>>]),
           \A d \in apiCall[c].before :
              MayName(Asked(apiCall[c]), d) /\ Promised(c, Asked(apiCall[c]), d) = d
    PROVE  OrderInv'
  <1> DEFINE one == [phase |-> "answered", status |-> status]
             other == [phase |-> "answered", status |-> status, row |-> NoChanges, todo |-> <<>>]
             q == apiCall[c]
             r == apiCall'[c]
  <1>1. PICK changes \in {one, other} : Proceed(c, changes)
    OBVIOUS
  <1>2. /\ DOMAIN changes \subseteq {"phase", "status", "row", "todo"}
        /\ {"phase", "status"} \subseteq DOMAIN changes
        /\ changes.phase = "answered" /\ changes.status = status
    OBVIOUS
  <1> HIDE DEF one, other
  <1>3. DOMAIN changes \subseteq CallFields
    BY <1>2 DEF CallFields
  <1>4. \A f \in CallFields : r[f] = IF f \in DOMAIN changes THEN changes[f] ELSE q[f]
    BY <1>1, <1>3, ProceedsWith DEF ApiIInv
  <1>5. /\ r.phase = "answered" /\ r.status = status /\ r.before = q.before
        /\ r.method = q.method /\ r.of = q.of /\ r.body = q.body /\ r.user = q.user
    BY <1>2, <1>4 DEF CallFields
  <1>6. Formed(q) /\ \A d \in q.before : apiDb = d
    BY DEF OrderInv, InOrder, Quiet
  <1> HIDE DEF r
  <1>7. Formed(r) /\ Asked(r) = Asked(q)
    BY <1>5, <1>6, FormedAlike, AskedAlike
  <1>8. Received(r.method, r.status) = "nil"
    BY <1>5, <1>7, ReceivedIs DEF Formed
  <1>9. \A d \in r.before : Right(c, r, d, apiDb)
    BY <1>5, <1>6, <1>7, <1>8 DEF Right
  <1>10. InOrder(c, r, apiDb)
    BY <1>5, <1>7, <1>9 DEF InOrder, Quiet
  <1> QED BY <1>1, <1>3, <1>10, ProceedsInOrder DEF r

(* A handler goes on to statements that make what was promised.            *)
LEMMA GoesOnInOrder ==
    ASSUME ApiIInv, OrderInv, NEW c \in Callers, apiCall[c].phase = "inside", NEW status, NEW row,
           NEW todo, GoOn(c, row, todo, status),
           Fine(apiCall[c].method, status), Brings(apiCall[c].method, apiCall[c].body, row, todo),
           \A d \in apiCall[c].before : d = apiDb =>
              \/ \E s : /\ todo \in {<<s>>, <<"Fetch", s>>, <<"Scrape", s>>}
                        /\ Does(s, c, apiCall[c], row, d)
              \/ /\ apiCall[c].method = "ImportFeedEntry"
                 /\ apiCall[c].of \in Own(d, "feeds", apiCall[c].user)
                 /\ todo = IF apiCall[c].body.starred
                           THEN <<"InsertEntryForFeed", "SetEntriesStatus", "SetEntriesStarredState">>
                           ELSE <<"InsertEntryForFeed", "SetEntriesStatus">>
    PROVE  OrderInv'
  <1> DEFINE changes == [phase |-> "writing", row |-> row, todo |-> todo, status |-> status]
             q == apiCall[c]
             r == apiCall'[c]
  <1>1. Proceed(c, changes) /\ UNCHANGED apiDb
    BY DEF GoOn
  <1>2. /\ DOMAIN changes = {"phase", "row", "todo", "status"} /\ changes.phase = "writing"
        /\ changes.row = row /\ changes.todo = todo /\ changes.status = status
    OBVIOUS
  <1> HIDE DEF changes
  <1>3. DOMAIN changes \subseteq CallFields
    BY <1>2 DEF CallFields
  <1>4. \A f \in CallFields : r[f] = IF f \in DOMAIN changes THEN changes[f] ELSE q[f]
    BY <1>1, <1>3, ProceedsWith DEF ApiIInv
  <1>5. /\ r.phase = "writing" /\ r.status = status /\ r.row = row /\ r.todo = todo
        /\ r.before = q.before /\ r.method = q.method /\ r.of = q.of /\ r.body = q.body /\ r.user = q.user
    BY <1>2, <1>4 DEF CallFields
  <1>6. Formed(q) /\ \A d \in q.before : apiDb = d
    BY DEF OrderInv, InOrder, Quiet
  <1> HIDE DEF r
  <1>7. Formed(r) /\ Asked(r) = Asked(q)
    BY <1>5, <1>6, FormedAlike, AskedAlike
  <1>8. Brings(r.method, r.body, r.row, r.todo) /\ Fine(r.method, r.status)
    BY <1>5
  <1>9. ASSUME NEW d \in r.before
        PROVE  Ready(c, r, d, apiDb)
    <2>1. d \in q.before /\ apiDb = d
      BY <1>5, <1>6, <1>9
    <2>2. CASE \E s : /\ todo \in {<<s>>, <<"Fetch", s>>, <<"Scrape", s>>}
                      /\ Does(s, c, q, row, d)
      <3> PICK s : todo \in {<<s>>, <<"Fetch", s>>, <<"Scrape", s>>} /\ Does(s, c, q, row, d)
        BY <2>2
      <3>1. Does(s, c, r, row, d)
        BY <1>5, <1>7 DEF Does
      <3>2. Does(s, c, r, r.row, d) /\ r.todo \in {<<s>>, <<"Fetch", s>>, <<"Scrape", s>>}
        BY <1>5, <3>1
      <3> QED BY <1>8, <2>1, <3>2 DEF Ready
    <2>3. CASE /\ q.method = "ImportFeedEntry"
               /\ q.of \in Own(d, "feeds", q.user)
               /\ todo = IF q.body.starred
                         THEN <<"InsertEntryForFeed", "SetEntriesStatus", "SetEntriesStarredState">>
                         ELSE <<"InsertEntryForFeed", "SetEntriesStatus">>
      <3>1. Imports(c, r, d, apiDb)
        BY <1>5, <2>1, <2>3 DEF Imports
      <3> QED BY <1>8, <3>1 DEF Ready
    <2> QED BY <2>1, <2>2, <2>3
  <1>10. InOrder(c, r, apiDb)
    BY <1>5, <1>7, <1>8, <1>9 DEF InOrder, Quiet
  <1> QED BY <1>1, <1>3, <1>10, ProceedsInOrder DEF r

(* Which methods a handler serves.                                         *)
LEMMA AtHandlerIs ==
    ASSUME OrderInv, NEW c \in Callers, NEW handlers, AtHandler(c, handlers)
    PROVE  /\ apiCall[c].phase = "inside" /\ Formed(apiCall[c])
           /\ \E handler \in handlers : <<apiCall[c].method, handler>> \in Meant
           /\ \A d \in apiCall[c].before :
                 apiDb = d /\ apiCall[c].admin = d.users[apiCall[c].user].admin
  <1>1. apiCall[c].phase = "inside" /\ HandlerOf[apiCall[c].method] \in handlers
    BY DEF AtHandler
  <1>2. /\ Formed(apiCall[c])
        /\ \A d \in apiCall[c].before :
              apiDb = d /\ apiCall[c].admin = d.users[apiCall[c].user].admin
    BY <1>1 DEF OrderInv, InOrder, Quiet
  <1>3. apiCall[c].method \in DOMAIN ClientCalls
    BY <1>2 DEF Formed
  <1> QED BY <1>1, <1>2, <1>3, CallsGoRight

LEMMA AtOneHandler ==
    ASSUME OrderInv, NEW c \in Callers, NEW handler, AtHandler(c, {handler})
    PROVE  /\ apiCall[c].phase = "inside" /\ Formed(apiCall[c])
           /\ <<apiCall[c].method, handler>> \in Meant
           /\ \A d \in apiCall[c].before :
                 apiDb = d /\ apiCall[c].admin = d.users[apiCall[c].user].admin
  <1> DEFINE handlers == {handler}
  <1>1. AtHandler(c, handlers) /\ \A h \in handlers : h = handler
    OBVIOUS
  <1> HIDE DEF handlers
  <1> QED BY <1>1, AtHandlerIs

LEMMA BeginsInOrder ==
    ASSUME ApiIInv, OrderInv, NEW c \in Callers, Begin(c)
    PROVE  OrderInv'
  <1>1. PICK credential \in Credentials : \E call \in CallsOf(credential) :
           Proceed(c, call ++ [phase |-> "sent", by |-> credential, before |-> {apiDb}])
    BY DEF Begin
  <1>2. PICK call \in CallsOf(credential) :
           Proceed(c, call ++ [phase |-> "sent", by |-> credential, before |-> {apiDb}])
    BY <1>1
  <1> DEFINE start == [phase |-> "sent", by |-> credential, before |-> {apiDb}]
             changes == call ++ start
             r == apiCall'[c]
  <1>3. DOMAIN call = {"method", "of", "under", "body"} /\ Formed(call)
    BY ApiAssumption
  <1>4. DOMAIN start = {"phase", "by", "before"} /\ start.phase = "sent" /\ start.before = {apiDb}
    OBVIOUS
  <1> HIDE DEF start
  <1>5. /\ DOMAIN changes = {"method", "of", "under", "body", "phase", "by", "before"}
        /\ changes.phase = "sent" /\ changes.body = call.body /\ changes.method = call.method
        /\ changes.of = call.of /\ changes.before = {apiDb}
    BY <1>3, <1>4 DEF ++
  <1>6. Proceed(c, changes)
    BY <1>2 DEF start
  <1>7. UNCHANGED apiDb
    BY DEF Begin
  <1> HIDE DEF changes
  <1>8. DOMAIN changes \subseteq CallFields
    BY <1>5 DEF CallFields
  <1>9. \A f \in CallFields : r[f] = IF f \in DOMAIN changes THEN changes[f] ELSE apiCall[c][f]
    BY <1>6, <1>8, ProceedsWith DEF ApiIInv
  <1>10. /\ r.phase = "sent" /\ r.before = {apiDb}
         /\ r.method = call.method /\ r.of = call.of /\ r.body = call.body
    BY <1>5, <1>9 DEF CallFields
  <1> HIDE DEF r
  <1>11. Formed(r)
    BY <1>3, <1>10, FormedAlike
  <1>12. InOrder(c, r, apiDb)
    BY <1>10, <1>11 DEF InOrder, Quiet
  <1> QED BY <1>6, <1>7, <1>8, <1>12, ProceedsInOrder DEF r

LEMMA EntersInOrder ==
    ASSUME ApiIInv, OrderInv, NEW c \in Callers, NEW who, apiCall[c].phase \in {"sent", "known"},
           Enter(c, who) \/ (Proceed(c, [phase |-> "known"]) /\ UNCHANGED apiDb)
    PROVE  OrderInv'
  <1> DEFINE inside == [phase |-> "inside", user |-> who, admin |-> apiDb.users[who].admin]
             known == [phase |-> "known"]
             q == apiCall[c]
             r == apiCall'[c]
  <1>1. /\ DOMAIN inside = {"phase", "user", "admin"} /\ inside.phase = "inside"
        /\ inside.user = who /\ inside.admin = apiDb.users[who].admin
        /\ DOMAIN known = {"phase"} /\ known.phase = "known"
    OBVIOUS
  <1>2. Proceed(c, inside) \/ Proceed(c, known)
    BY DEF Enter
  <1>3. UNCHANGED apiDb
    BY DEF Enter
  <1> HIDE DEF inside, known
  <1>4. PICK changes \in {inside, known} : Proceed(c, changes)
    BY <1>2
  <1>5. DOMAIN changes \subseteq CallFields
    BY <1>1, <1>4 DEF CallFields
  <1>6. \A f \in CallFields : r[f] = IF f \in DOMAIN changes THEN changes[f] ELSE q[f]
    BY <1>4, <1>5, ProceedsWith DEF ApiIInv
  <1>7. /\ r.phase = "known" \/ (r.phase = "inside" /\ r.admin = apiDb.users[r.user].admin)
        /\ r.before = q.before /\ r.method = q.method /\ r.of = q.of /\ r.body = q.body
    BY <1>1, <1>4, <1>6 DEF CallFields
  <1>8. Formed(q) /\ \A d \in q.before : apiDb = d
    BY DEF OrderInv, InOrder, Quiet
  <1> HIDE DEF r
  <1>9. Formed(r)
    BY <1>7, <1>8, FormedAlike
  <1>10. InOrder(c, r, apiDb)
    BY <1>7, <1>8, <1>9 DEF InOrder, Quiet
  <1> QED BY <1>3, <1>4, <1>5, <1>10, ProceedsInOrder DEF r

LEMMA IdentifiesInOrder ==
    ASSUME ApiIInv, OrderInv, NEW c \in Callers,
           validateAPIKeyAuth(c) \/ CheckPassword(c) \/ validateBasicAuth(c)
    PROVE  OrderInv'
  <1>1. 401 \in Errors
    BY DEF Errors
  <1>2. apiCall[c].phase \in {"sent", "known"}
    BY DEF validateAPIKeyAuth, CheckPassword, validateBasicAuth
  <1>3. \A d \in apiCall[c].before : apiDb = d
    BY <1>2 DEF OrderInv, InOrder, Quiet
  <1>4. \/ Reply(c, 401)
        \/ \E who : Enter(c, who)
        \/ Proceed(c, [phase |-> "known"]) /\ UNCHANGED apiDb
    BY DEF validateAPIKeyAuth, CheckPassword, validateBasicAuth
  <1> QED BY <1>1, <1>2, <1>3, <1>4, ErrorsInOrder, EntersInOrder

(* Methods that change nothing.                                            *)
UserLooks == {"Version", "Me", "Users", "UserByID", "UserByUsername", "DeleteUser", "APIKeys",
              "IntegrationsStatus", "Discover"}
FeedLooks == {"Categories", "CategoryFeeds", "RefreshCategory", "Feeds", "Export", "Feed", "RefreshAllFeeds",
              "RefreshFeed", "FeedIcon", "FetchCounters", "Icon"}
EntryLooks == {"FeedEntry", "CategoryEntry", "Entry", "EntryIDs", "Entries", "FeedEntries", "CategoryEntries",
               "SaveEntry", "FlushHistory", "Enclosure"}
Looks == UserLooks \cup FeedLooks \cup EntryLooks

LEMMA LooksChangeNothing ==
    ASSUME NEW c, NEW d, NEW q, q.method \in Looks
    PROVE  Promised(c, Asked(q), d) = d
  <1>1. CASE q.method \in UserLooks
    BY <1>1 DEF Promised, Asked, UserLooks
  <1>2. CASE q.method \in FeedLooks
    BY <1>2 DEF Promised, Asked, FeedLooks
  <1>3. CASE q.method \in EntryLooks
    BY <1>3 DEF Promised, Asked, EntryLooks
  <1> QED BY <1>1, <1>2, <1>3 DEF Looks

LEMMA LooksInOrder ==
    ASSUME ApiIInv, OrderInv, NEW c \in Callers, apiCall[c].phase = "inside", NEW status, Reply(c, status),
           \/ status \in Errors
           \/ /\ apiCall[c].method \in Looks /\ Fine(apiCall[c].method, status)
              /\ \A d \in apiCall[c].before : apiDb = d => MayName(Asked(apiCall[c]), d)
    PROVE  OrderInv'
  <1>1. \A d \in apiCall[c].before : apiDb = d
    BY DEF OrderInv, InOrder, Quiet
  <1>2. CASE status \in Errors
    BY <1>1, <1>2, ErrorsInOrder
  <1>3. CASE /\ apiCall[c].method \in Looks /\ Fine(apiCall[c].method, status)
             /\ \A d \in apiCall[c].before : apiDb = d => MayName(Asked(apiCall[c]), d)
    <2>1. \A d \in apiCall[c].before :
             MayName(Asked(apiCall[c]), d) /\ Promised(c, Asked(apiCall[c]), d) = d
      BY <1>1, <1>3, LooksChangeNothing
    <2>2. /\ Proceed(c, [phase |-> "answered", status |-> status, row |-> NoChanges, todo |-> <<>>])
          /\ UNCHANGED apiDb
      BY DEF Reply
    <2> QED BY <1>3, <2>1, <2>2, AnswersInOrder
  <1> QED BY <1>2, <1>3

(* Which methods may name what.                                            *)
FreeMethods ==
    {"Version", "Me", "APIKeys", "IntegrationsStatus", "Discover", "Categories", "RefreshCategory", "Feeds",
     "Export", "RefreshAllFeeds", "FetchCounters", "Icon", "EntryIDs", "Entries", "CategoryEntries",
     "FlushHistory", "CreateCategory", "CreateFeed", "UpdateEntries", "UpdateEntriesStarred", "CreateAPIKey"}
LEMMA FreeToName ==
    ASSUME NEW d, NEW q, q.method \in FreeMethods
    PROVE  MayName(Asked(q), d)
  BY DEF FreeMethods, MayName, Asked, TableOf

LEMMA OwnersMayName ==
    ASSUME NEW d, NEW q,
           \/ /\ q.method \in {"UpdateCategory", "DeleteCategory", "MarkCategoryAsRead", "CategoryFeeds"}
              /\ q.of \in Own(d, "categories", q.user)
           \/ /\ q.method \in {"Feed", "UpdateFeed", "DeleteFeed", "MarkFeedAsRead", "RefreshFeed", "FeedIcon",
                               "ImportFeedEntry", "FeedEntries"}
              /\ q.of \in Own(d, "feeds", q.user)
           \/ /\ q.method \in {"Entry", "FeedEntry", "CategoryEntry", "UpdateEntry", "ToggleStarred", "SaveEntry",
                               "FetchEntryOriginalContent"}
              /\ q.of \in Own(d, "entries", q.user)
           \/ q.method \in {"Enclosure", "UpdateEnclosure"} /\ q.of \in Own(d, "media", q.user)
           \/ q.method = "DeleteAPIKey" /\ q.of \in Own(d, "keys", q.user)
    PROVE  MayName(Asked(q), d)
  BY DEF MayName, Asked, TableOf

LEMMA AdminsMayName ==
    ASSUME NEW d, NEW q, q.method \in {"CreateUser", "Users", "UserByID", "UserByUsername", "DeleteUser"},
           d.users[q.user].admin
    PROVE  MayName(Asked(q), d)
  BY DEF MayName, Asked

LEMMA UserReadsInOrder ==
    ASSUME ApiIInv, OrderInv, NEW c \in Callers, UserReads(c) \/ dispatchUserLookup(c)
    PROVE  OrderInv'
  <1> DEFINE q == apiCall[c]
  <1>0. 404 \in Errors /\ 403 \in Errors /\ \A method : Fine(method, 200)
    BY DEF Errors, Fine
  <1>1. CASE \E handler \in {"currentUser", "getIntegrationsStatus"} : \E found : Answers(c, handler, found)
    <2> PICK handler \in {"currentUser", "getIntegrationsStatus"} : \E found : Answers(c, handler, found)
      BY <1>1
    <2> PICK found : Answers(c, handler, found)
      OBVIOUS
    <2>1. AtHandler(c, {handler}) /\ \E status \in {200, 404} : Reply(c, status)
      BY DEF Answers
    <2>2. q.phase = "inside" /\ <<q.method, handler>> \in Meant
      BY <2>1, AtOneHandler
    <2>3. q.method \in {"Me", "IntegrationsStatus"}
      BY <2>2 DEF Meant
    <2>4. q.method \in Looks /\ q.method \in FreeMethods
      BY <2>3 DEF Looks, UserLooks, FreeMethods
    <2> QED BY <1>0, <2>1, <2>2, <2>4, FreeToName, LooksInOrder
  <1>2. CASE AtHandler(c, {"users"}) /\ IfAllowed(c, q.admin, Reply(c, 200))
    <2>2. /\ q.phase = "inside" /\ <<q.method, "users">> \in Meant
          /\ \A d \in q.before : apiDb = d /\ q.admin = d.users[q.user].admin
      BY <1>2, AtOneHandler
    <2>3. q.method = "Users"
      BY <2>2 DEF Meant
    <2>4. q.method \in Looks
      BY <2>3 DEF Looks, UserLooks
    <2>5. CASE q.admin /\ Reply(c, 200)
      <3>1. \A d \in q.before : d.users[q.user].admin
        BY <2>2, <2>5, Zenon
      <3>2. \A d \in q.before : MayName(Asked(q), d)
        BY <2>3, <3>1, AdminsMayName
      <3> QED BY <1>0, <2>2, <2>4, <2>5, <3>2, LooksInOrder
    <2>6. CASE Reply(c, 403)
      BY <1>0, <2>2, <2>6, LooksInOrder
    <2> QED BY <1>2, <2>5, <2>6 DEF IfAllowed
  <1>3. CASE dispatchUserLookup(c)
    <2>1. /\ AtHandler(c, {"dispatchUserLookup"})
          /\ Reply(c, 403) \/ Reply(c, 404) \/ (q.admin /\ Reply(c, 200))
      BY <1>3 DEF dispatchUserLookup, IfAllowed
    <2>2. /\ q.phase = "inside" /\ <<q.method, "dispatchUserLookup">> \in Meant
          /\ \A d \in q.before : apiDb = d /\ q.admin = d.users[q.user].admin
      BY <2>1, AtOneHandler
    <2>3. q.method \in {"UserByID", "UserByUsername"}
      BY <2>2 DEF Meant
    <2>4. q.method \in Looks
      BY <2>3 DEF Looks, UserLooks
    <2>5. CASE q.admin /\ Reply(c, 200)
      <3>1. \A d \in q.before : d.users[q.user].admin
        BY <2>2, <2>5, Zenon
      <3>2. \A d \in q.before : MayName(Asked(q), d)
        BY <2>3, <3>1, AdminsMayName
      <3> QED BY <1>0, <2>2, <2>4, <2>5, <3>2, LooksInOrder
    <2>6. CASE Reply(c, 403) \/ Reply(c, 404)
      BY <1>0, <2>2, <2>6, LooksInOrder
    <2> QED BY <2>1, <2>5, <2>6
  <1> QED BY <1>1, <1>2, <1>3 DEF UserReads

(* Methods for which a row must be found.                                  *)
LEMMA FindsInOrder ==
    ASSUME ApiIInv, OrderInv, NEW c \in Callers, NEW handler, NEW found, Answers(c, handler, found),
           <<apiCall[c].method, handler>> \in Meant =>
              apiCall[c].method \in Looks /\ (found => MayName(Asked(apiCall[c]), apiDb))
    PROVE  OrderInv'
  <1>0. 404 \in Errors /\ \A method : Fine(method, 200)
    BY DEF Errors, Fine
  <1>1. AtHandler(c, {handler}) /\ Reply(c, IF found THEN 200 ELSE 404)
    BY DEF Answers
  <1>2. apiCall[c].phase = "inside" /\ <<apiCall[c].method, handler>> \in Meant
    BY <1>1, AtOneHandler
  <1>3. CASE found
    BY <1>0, <1>1, <1>2, <1>3, LooksInOrder
  <1>4. CASE ~found
    BY <1>0, <1>1, <1>2, <1>4, LooksInOrder
  <1> QED BY <1>3, <1>4

LEMMA CategoryReadsInOrder ==
    ASSUME ApiIInv, OrderInv, NEW c \in Callers, CategoryReads(c)
    PROVE  OrderInv'
  <1> DEFINE q == apiCall[c]
             feeds == Own(apiDb, "categories", q.user)
  <1>1. CASE Answers(c, "getCategories", Named(q.body, "counts") => q.user \in DOMAIN apiDb.users)
    <2>1. \A method : <<method, "getCategories">> \in Meant => method \in Looks /\ method \in FreeMethods
      BY DEF Meant, Looks, FeedLooks, FreeMethods
    <2> QED BY <1>1, <2>1, FreeToName, FindsInOrder
  <1>2. CASE Answers(c, "getCategoryFeeds", q.of \in feeds)
    <2>1. \A method : <<method, "getCategoryFeeds">> \in Meant => method \in Looks /\ method = "CategoryFeeds"
      BY DEF Meant, Looks, FeedLooks
    <2>2. q.method = "CategoryFeeds" /\ q.of \in feeds => MayName(Asked(q), apiDb)
      BY OwnersMayName
    <2> QED BY <1>2, <2>1, <2>2, FindsInOrder
  <1>3. CASE AtHandler(c, {"refreshCategory", "refreshAllFeeds"}) /\ Reply(c, 204)
    <2> DEFINE handlers == {"refreshCategory", "refreshAllFeeds"}
    <2>0. AtHandler(c, handlers)
      BY <1>3
    <2>1. \A method : \A handler \in handlers :
             <<method, handler>> \in Meant => method \in {"RefreshCategory", "RefreshAllFeeds"}
      BY DEF Meant
    <2> HIDE DEF handlers
    <2>2. q.phase = "inside" /\ q.method \in {"RefreshCategory", "RefreshAllFeeds"}
      BY <2>0, <2>1, AtHandlerIs
    <2>3. q.method \in Looks /\ q.method \in FreeMethods /\ Fine(q.method, 204)
      BY <2>2 DEF Looks, FeedLooks, FreeMethods, Fine, Silent
    <2> QED BY <1>3, <2>2, <2>3, FreeToName, LooksInOrder
  <1> QED BY <1>1, <1>2, <1>3 DEF CategoryReads

LEMMA FeedReadsInOrder ==
    ASSUME ApiIInv, OrderInv, NEW c \in Callers, FeedReads(c)
    PROVE  OrderInv'
  <1> DEFINE q == apiCall[c]
             feeds == Own(apiDb, "feeds", q.user)
             handlers == {"getFeeds", "fetchCounters", "exportFeeds", "version", "getAPIKeys"}
  <1>0. /\ 400 \in Errors /\ 404 \in Errors /\ 500 \in Errors
        /\ \A method : Fine(method, 200)
    BY DEF Errors, Fine
  <1>1. CASE AtHandler(c, handlers) /\ Reply(c, 200)
    <2>1. \A method : \A handler \in handlers :
             <<method, handler>> \in Meant => method \in Looks /\ method \in FreeMethods
      BY DEF Meant, Looks, FeedLooks, UserLooks, FreeMethods
    <2> HIDE DEF handlers
    <2>2. q.phase = "inside" /\ q.method \in Looks /\ q.method \in FreeMethods
      BY <1>1, <2>1, AtHandlerIs
    <2> QED BY <1>0, <1>1, <2>2, FreeToName, LooksInOrder
  <1>2. CASE \/ Answers(c, "getFeed", q.of \in feeds)
             \/ Answers(c, "getIconByFeedID", q.of \in feeds /\ apiDb.feeds[q.of].icon # None)
    <2>1. \A method : <<method, "getFeed">> \in Meant \/ <<method, "getIconByFeedID">> \in Meant
                         => method \in Looks /\ method \in {"Feed", "FeedIcon"}
      BY DEF Meant, Looks, FeedLooks
    <2>2. q.method \in {"Feed", "FeedIcon"} /\ q.of \in feeds => MayName(Asked(q), apiDb)
      BY OwnersMayName
    <2> QED BY <1>2, <2>1, <2>2, FindsInOrder
  <1>3. CASE Answers(c, "getIconByIconID", \E f \in feeds : apiDb.feeds[f].icon = q.of)
    <2>1. \A method : <<method, "getIconByIconID">> \in Meant => method \in Looks /\ method \in FreeMethods
      BY DEF Meant, Looks, FeedLooks, FreeMethods
    <2> QED BY <1>3, <2>1, FreeToName, FindsInOrder
  <1>4. CASE /\ AtHandler(c, {"discoverSubscriptions"})
             /\ IF Accepted(q.body) THEN \E status \in {200, 404, 500} : Reply(c, status) ELSE Reply(c, 400)
    <2>1. \A method : <<method, "discoverSubscriptions">> \in Meant => method \in Looks /\ method \in FreeMethods
      BY DEF Meant, Looks, UserLooks, FreeMethods
    <2>2. q.phase = "inside" /\ q.method \in Looks /\ q.method \in FreeMethods
      BY <1>4, <2>1, AtOneHandler
    <2>3. \E status \in {200, 400, 404, 500} : Reply(c, status)
      BY <1>4
    <2> QED BY <1>0, <2>2, <2>3, FreeToName, LooksInOrder
  <1>5. CASE /\ AtHandler(c, {"refreshFeed"})
             /\ IF q.of \in feeds THEN \E status \in {204, 500} : Reply(c, status) ELSE Reply(c, 404)
    <2>1. \A method : <<method, "refreshFeed">> \in Meant => method = "RefreshFeed"
      BY DEF Meant
    <2>2. q.phase = "inside" /\ q.method = "RefreshFeed"
      BY <1>5, <2>1, AtOneHandler
    <2>3. q.method \in Looks /\ Fine(q.method, 204)
      BY <2>2 DEF Looks, FeedLooks, Fine, Silent
    <2>4. CASE q.of \in feeds /\ Reply(c, 204)
      BY <2>2, <2>3, <2>4, OwnersMayName, LooksInOrder
    <2>5. CASE \E status \in {404, 500} : Reply(c, status)
      BY <1>0, <2>2, <2>5, LooksInOrder
    <2> QED BY <1>5, <2>4, <2>5
  <1> QED BY <1>1, <1>2, <1>3, <1>4, <1>5 DEF FeedReads

LEMMA EntryReadsInOrder ==
    ASSUME ApiIInv, OrderInv, NEW c \in Callers, EntryReads(c)
    PROVE  OrderInv'
  <1> DEFINE q == apiCall[c]
             entries == Own(apiDb, "entries", q.user)
  <1>1. CASE \E handler \in {"getEntry", "getFeedEntry", "getCategoryEntry"} : \E found :
                (found => q.of \in entries) /\ Answers(c, handler, found)
    <2> PICK handler \in {"getEntry", "getFeedEntry", "getCategoryEntry"} :
           \E found : (found => q.of \in entries) /\ Answers(c, handler, found)
      BY <1>1
    <2> PICK found : (found => q.of \in entries) /\ Answers(c, handler, found)
      OBVIOUS
    <2>1. \A method : <<method, handler>> \in Meant
                         => method \in Looks /\ method \in {"Entry", "FeedEntry", "CategoryEntry"}
      BY DEF Meant, Looks, EntryLooks
    <2>2. q.method \in {"Entry", "FeedEntry", "CategoryEntry"} /\ q.of \in entries => MayName(Asked(q), apiDb)
      BY OwnersMayName
    <2> QED BY <2>1, <2>2, FindsInOrder
  <1>2. CASE Answers(c, "getEnclosureByID", q.of \in Own(apiDb, "media", q.user))
    <2>1. \A method : <<method, "getEnclosureByID">> \in Meant => method \in Looks /\ method = "Enclosure"
      BY DEF Meant, Looks, EntryLooks
    <2>2. q.method = "Enclosure" /\ q.of \in Own(apiDb, "media", q.user) => MayName(Asked(q), apiDb)
      BY OwnersMayName
    <2> QED BY <1>2, <2>1, <2>2, FindsInOrder
  <1> QED BY <1>1, <1>2 DEF EntryReads

LEMMA ListsInOrder ==
    ASSUME ApiIInv, OrderInv, NEW c \in Callers, findEntries(c)
    PROVE  OrderInv'
  <1> DEFINE q == apiCall[c]
             lists == {"getFeedEntries", "getCategoryEntries", "getEntries"}
             table == IF HandlerOf[q.method] = "getFeedEntries" THEN "feeds" ELSE "categories"
  <1>0. 400 \in Errors /\ \A method : Fine(method, 200)
    BY DEF Errors, Fine
  <1>1. CASE /\ AtHandler(c, lists)
             /\ Reply(c, IF Accepted(q.body) /\ (q.of = None \/ q.of \in Own(apiDb, table, q.user)) THEN 200 ELSE 400)
    <2>1. q.phase = "inside" /\ Formed(q)
      BY <1>1, AtHandlerIs
    <2>2. <<q.method, HandlerOf[q.method]>> \in Meant /\ HandlerOf[q.method] \in lists
      BY <1>1, <2>1, CallsGoRight DEF AtHandler, Formed
    <2>3. \/ q.method \in {"Entries", "CategoryEntries"}
          \/ q.method = "FeedEntries" /\ HandlerOf[q.method] = "getFeedEntries" /\ q.of # None
      BY <2>1, <2>2 DEF Meant, Formed
    <2>4. q.method \in Looks /\ (q.method # "FeedEntries" => q.method \in FreeMethods)
      BY <2>3 DEF Looks, EntryLooks, FreeMethods
    <2>5. CASE Reply(c, 400)
      BY <1>0, <2>1, <2>5, LooksInOrder
    <2>6. CASE (q.of = None \/ q.of \in Own(apiDb, table, q.user)) /\ Reply(c, 200)
      <3>1. \A d : d = apiDb => MayName(Asked(q), d)
        BY <2>3, <2>4, <2>6, FreeToName, OwnersMayName
      <3> QED BY <1>0, <2>1, <2>4, <2>6, <3>1, LooksInOrder
    <2> QED BY <1>1, <2>5, <2>6
  <1>2. CASE AtHandler(c, {"getEntryIDs"}) /\ Reply(c, IF Accepted(q.body) THEN 200 ELSE 400)
    <2>1. \A method : <<method, "getEntryIDs">> \in Meant => method \in Looks /\ method \in FreeMethods
      BY DEF Meant, Looks, EntryLooks, FreeMethods
    <2>2. q.phase = "inside" /\ q.method \in Looks /\ q.method \in FreeMethods
      BY <1>2, <2>1, AtOneHandler
    <2>3. \E status \in {200, 400} : Reply(c, status)
      BY <1>2
    <2> QED BY <1>0, <2>2, <2>3, FreeToName, LooksInOrder
  <1> QED BY <1>1, <1>2 DEF findEntries

LEMMA LookingInOrder ==
    ASSUME ApiIInv, OrderInv, NEW c \in Callers, Looking(c)
    PROVE  OrderInv'
  BY UserReadsInOrder, CategoryReadsInOrder, FeedReadsInOrder, EntryReadsInOrder, ListsInOrder DEF Looking

---------------------------------------------------------------------------
(* What each handler has seen to when it goes on to its statement.         *)
UsersPrepared(s, q, row, d) ==
    \/ s = "CreateUser" /\ q.method = "CreateUser" /\ d.users[q.user].admin
    \/ /\ s = "UpdateUser" /\ q.method = "UpdateUser" /\ q.of \in DOMAIN d.users
       /\ row = PatchUser(d.users[q.of], q.body)
       /\ q.of = q.user \/ d.users[q.user].admin
    \/ s = "MarkAllAsRead" /\ q.method = "MarkAllAsRead" /\ q.of = q.user
    \/ s = "CreateAPIKey" /\ q.method = "CreateAPIKey"
    \/ s = "DeleteAPIKey" /\ q.method = "DeleteAPIKey"
CategoriesPrepared(s, q, row, d) ==
    \/ s = "CreateCategory" /\ q.method = "CreateCategory"
    \/ /\ q.of \in Own(d, "categories", q.user)
       /\ \/ /\ s = "UpdateCategory" /\ q.method = "UpdateCategory"
             /\ row = PatchCategory(d.categories[q.of], q.body)
          \/ s = "RemoveCategory" /\ q.method = "DeleteCategory"
          \/ s = "MarkCategoryAsRead" /\ q.method = "MarkCategoryAsRead"
FeedsPrepared(s, q, row, d) ==
    \/ /\ s = "CreateFeed" /\ q.method = "CreateFeed"
       /\ row.category = IF Named(q.body, "category") THEN q.body.category
                         ELSE CHOOSE i \in FirstCategories(d, q.user) : TRUE
    \/ /\ q.of \in Own(d, "feeds", q.user)
       /\ \/ /\ s = "UpdateFeed" /\ q.method = "UpdateFeed" /\ Accepted(q.body)
             /\ row = PatchFeed(d.feeds[q.of], q.body)
          \/ s = "RemoveFeed" /\ q.method = "DeleteFeed"
          \/ s = "MarkFeedAsRead" /\ q.method = "MarkFeedAsRead"
EntriesPrepared(s, q, row, d) ==
    \/ s = "SetEntriesStatus" /\ q.method = "UpdateEntries"
    \/ s = "SetEntriesStarredState" /\ q.method = "UpdateEntriesStarred"
    \/ s = "ToggleStarred" /\ q.method = "ToggleStarred"
    \/ /\ q.of \in Own(d, "entries", q.user)
       /\ \/ /\ s = "UpdateEntryTitleAndContent" /\ q.method = "UpdateEntry"
             /\ row = PatchEntry(d.entries[q.of], Cleaned(q.body))
          \/ /\ s = "UpdateEntryTitleAndContent" /\ q.method = "FetchEntryOriginalContent"
             /\ Named(q.body, "keep") /\ row = [d.entries[q.of] EXCEPT !.content = "page"]
          \/ s = "Scrape" /\ q.method = "FetchEntryOriginalContent" /\ ~Named(q.body, "keep")
    \/ /\ s = "UpdateEnclosure" /\ q.method = "UpdateEnclosure" /\ q.of \in Own(d, "media", q.user)
       /\ row = q.body ++ d.media[q.of]

LEMMA UsersDone ==
    ASSUME NEW c, NEW d, HomeDb(d), Tidy(d), \A t \in Tables : NewId(c) \notin DOMAIN d[t],
           NEW s, NEW q, Formed(q), UsersPrepared(s, q, q.row, d), NEW e \in Result(s, c, q, d)
    PROVE  MayName(Asked(q), d) /\ e = Promised(c, Asked(q), d)
  <1>0. /\ Columns(d) /\ NewId(c) \notin DOMAIN d.users /\ NewId(c) \notin DOMAIN d.categories
        /\ NewId(c) \notin DOMAIN d.keys
    BY DEF HomeDb, Tables
  <1>1. CASE s = "CreateUser"
    <2>1. e \in storeCreateUser(c, q, d) /\ q.method = "CreateUser"
      BY <1>1 DEF Result, UsersPrepared
    <2>2. d.users[q.user].admin
      BY <1>1 DEF UsersPrepared
    <2> QED BY <1>0, <2>1, <2>2, CreateUserAsPromised, AdminsMayName
  <1>2. CASE s = "UpdateUser"
    <2>1. /\ e \in storeUpdateUser(q, d) /\ q.method = "UpdateUser"
          /\ q.of \in DOMAIN d.users /\ q.row = PatchUser(d.users[q.of], q.body)
      BY <1>2 DEF Result, UsersPrepared
    <2>2. q.of = q.user \/ d.users[q.user].admin
      BY <1>2 DEF UsersPrepared
    <2>3. MayName(Asked(q), d)
      BY <2>1, <2>2 DEF MayName, Asked
    <2> QED BY <1>0, <2>1, <2>3, UpdateUserAsPromised
  <1>3. CASE s = "MarkAllAsRead"
    <2>1. e \in storeMarkAllAsRead(q, d) /\ q.method = "MarkAllAsRead" /\ q.of = q.user
      BY <1>3 DEF Result, UsersPrepared
    <2>2. MayName(Asked(q), d)
      BY <2>1 DEF MayName, Asked
    <2> QED BY <2>1, <2>2, MarksAsPromised
  <1>4. CASE s = "CreateAPIKey"
    <2>1. e \in storeCreateAPIKey(c, q, d) /\ q.method = "CreateAPIKey"
      BY <1>4 DEF Result, UsersPrepared
    <2>2. MayName(Asked(q), d)
      BY <2>1, FreeToName DEF FreeMethods
    <2> QED BY <1>0, <2>1, <2>2, OthersAsPromised
  <1>5. CASE s = "DeleteAPIKey"
    <2>1. e \in storeDeleteAPIKey(q, d) /\ q.method = "DeleteAPIKey"
      BY <1>5 DEF Result, UsersPrepared
    <2>2. q.of \in Own(d, "keys", q.user)
      BY <2>1 DEF storeDeleteAPIKey
    <2> QED BY <2>1, <2>2, RemovalsAsPromised, OwnersMayName
  <1> QED BY <1>1, <1>2, <1>3, <1>4, <1>5 DEF UsersPrepared

LEMMA CategoriesDone ==
    ASSUME NEW c, NEW d, HomeDb(d), Tidy(d), \A t \in Tables : NewId(c) \notin DOMAIN d[t],
           NEW s, NEW q, Formed(q), CategoriesPrepared(s, q, q.row, d), NEW e \in Result(s, c, q, d)
    PROVE  MayName(Asked(q), d) /\ e = Promised(c, Asked(q), d)
  <1>0. Columns(d) /\ NewId(c) \notin DOMAIN d.categories
    BY DEF HomeDb, Tables
  <1>1. CASE s = "CreateCategory"
    <2>1. e \in storeCreateCategory(c, q, d) /\ q.method = "CreateCategory"
      BY <1>1 DEF Result, CategoriesPrepared
    <2>2. MayName(Asked(q), d)
      BY <2>1, FreeToName DEF FreeMethods
    <2> QED BY <1>0, <2>1, <2>2, CategoriesAsPromised
  <1>2. CASE s = "UpdateCategory"
    <2>1. /\ e \in storeUpdateCategory(q, d) /\ q.method = "UpdateCategory"
          /\ q.of \in Own(d, "categories", q.user) /\ q.row = PatchCategory(d.categories[q.of], q.body)
      BY <1>2 DEF Result, CategoriesPrepared
    <2> QED BY <1>0, <2>1, CategoriesAsPromised, OwnersMayName
  <1>3. CASE s = "RemoveCategory"
    <2>1. /\ e \in storeRemoveCategory(q, d) /\ q.method = "DeleteCategory"
          /\ q.of \in Own(d, "categories", q.user)
      BY <1>3 DEF Result, CategoriesPrepared
    <2> QED BY <1>0, <2>1, CategoriesAsPromised, OwnersMayName
  <1>4. CASE s = "MarkCategoryAsRead"
    <2>1. /\ e \in storeMarkCategoryAsRead(q, d) /\ q.method = "MarkCategoryAsRead"
          /\ q.of \in Own(d, "categories", q.user)
      BY <1>4 DEF Result, CategoriesPrepared
    <2> QED BY <2>1, MarksAsPromised, OwnersMayName
  <1> QED BY <1>1, <1>2, <1>3, <1>4 DEF CategoriesPrepared

LEMMA FeedsDone ==
    ASSUME NEW c, NEW d, HomeDb(d), Tidy(d), \A t \in Tables : NewId(c) \notin DOMAIN d[t],
           NEW s, NEW q, Formed(q), FeedsPrepared(s, q, q.row, d), NEW e \in Result(s, c, q, d)
    PROVE  MayName(Asked(q), d) /\ e = Promised(c, Asked(q), d)
  <1>0. Columns(d) /\ NewId(c) \notin DOMAIN d.feeds
    BY DEF HomeDb, Tables
  <1>1. CASE s = "CreateFeed"
    <2>1. /\ e \in storeCreateFeed(c, q, d) /\ q.method = "CreateFeed"
          /\ q.row.category = IF Named(q.body, "category") THEN q.body.category
                              ELSE CHOOSE i \in FirstCategories(d, q.user) : TRUE
      BY <1>1 DEF Result, FeedsPrepared
    <2>2. MayName(Asked(q), d)
      BY <2>1, FreeToName DEF FreeMethods
    <2> QED BY <1>0, <2>1, <2>2, CreateFeedAsPromised
  <1>2. CASE s = "UpdateFeed"
    <2>1. /\ e \in storeUpdateFeed(q, d) /\ q.method = "UpdateFeed" /\ Accepted(q.body)
          /\ q.of \in Own(d, "feeds", q.user) /\ q.row = PatchFeed(d.feeds[q.of], q.body)
      BY <1>2 DEF Result, FeedsPrepared
    <2> QED BY <1>0, <2>1, UpdateFeedAsPromised, OwnersMayName
  <1>3. CASE s = "RemoveFeed"
    <2>1. e \in storeRemoveFeed(q, d) /\ q.method = "DeleteFeed" /\ q.of \in Own(d, "feeds", q.user)
      BY <1>3 DEF Result, FeedsPrepared
    <2> QED BY <2>1, RemovalsAsPromised, OwnersMayName
  <1>4. CASE s = "MarkFeedAsRead"
    <2>1. e \in storeMarkFeedAsRead(q, d) /\ q.method = "MarkFeedAsRead" /\ q.of \in Own(d, "feeds", q.user)
      BY <1>4 DEF Result, FeedsPrepared
    <2> QED BY <2>1, MarksAsPromised, OwnersMayName
  <1> QED BY <1>1, <1>2, <1>3, <1>4 DEF FeedsPrepared

LEMMA EntriesDone ==
    ASSUME NEW c, NEW d, HomeDb(d), Tidy(d),
           NEW s, NEW q, Formed(q), EntriesPrepared(s, q, q.row, d), NEW e \in Result(s, c, q, d)
    PROVE  MayName(Asked(q), d) /\ e = Promised(c, Asked(q), d)
  <1>0. Columns(d)
    BY DEF HomeDb
  <1>1. CASE s \in {"SetEntriesStatus", "SetEntriesStarredState"}
    <2>1. \/ e \in storeSetEntriesStatus(q, d) /\ q.method = "UpdateEntries"
          \/ e \in storeSetEntriesStarredState(q, d) /\ q.method = "UpdateEntriesStarred"
      BY <1>1 DEF Result, EntriesPrepared
    <2>2. MayName(Asked(q), d)
      BY <2>1, FreeToName DEF FreeMethods
    <2> QED BY <2>1, <2>2, MarksAsPromised
  <1>2. CASE s = "ToggleStarred"
    <2>1. e \in storeToggleStarred(q, d) /\ q.method = "ToggleStarred"
      BY <1>2 DEF Result, EntriesPrepared
    <2>2. q.of \in Own(d, "entries", q.user)
      BY <2>1 DEF storeToggleStarred
    <2> QED BY <1>0, <2>1, <2>2, EntryAsPromised, OwnersMayName
  <1>3. CASE s = "UpdateEntryTitleAndContent"
    <2>1. /\ e \in storeUpdateEntryTitleAndContent(q, d) /\ q.of \in Own(d, "entries", q.user)
          /\ \/ q.method = "UpdateEntry" /\ q.row = PatchEntry(d.entries[q.of], Cleaned(q.body))
             \/ /\ q.method = "FetchEntryOriginalContent" /\ Named(q.body, "keep")
                /\ q.row = [d.entries[q.of] EXCEPT !.content = "page"]
      BY <1>3 DEF Result, EntriesPrepared
    <2>2. q.method = "UpdateEntry" => DOMAIN q.body \subseteq {"title", "content"}
      BY DEF Formed
    <2> QED BY <1>0, <2>1, <2>2, EntryAsPromised, OwnersMayName
  <1>4. CASE s = "Scrape"
    <2>1. /\ e = d /\ q.method = "FetchEntryOriginalContent" /\ ~Named(q.body, "keep")
          /\ q.of \in Own(d, "entries", q.user)
      BY <1>4 DEF Result, EntriesPrepared
    <2>2. Promised(c, Asked(q), d) = d
      BY <2>1 DEF Promised, Asked
    <2> QED BY <2>1, <2>2, OwnersMayName
  <1>5. CASE s = "UpdateEnclosure"
    <2>1. /\ e \in storeUpdateEnclosure(q, d) /\ q.method = "UpdateEnclosure"
          /\ q.of \in Own(d, "media", q.user) /\ q.row = q.body ++ d.media[q.of]
      BY <1>5 DEF Result, EntriesPrepared
    <2> QED BY <1>0, <2>1, OthersAsPromised, OwnersMayName
  <1> QED BY <1>1, <1>2, <1>3, <1>4, <1>5 DEF EntriesPrepared

LEMMA PreparedDoes ==
    ASSUME NEW c, NEW d, HomeDb(d), Tidy(d), \A t \in Tables : NewId(c) \notin DOMAIN d[t],
           NEW s, NEW q, Formed(q), NEW row,
           \/ UsersPrepared(s, q, row, d) \/ CategoriesPrepared(s, q, row, d)
           \/ FeedsPrepared(s, q, row, d) \/ EntriesPrepared(s, q, row, d)
    PROVE  Does(s, c, q, row, d)
  <1> SUFFICES ASSUME NEW r, r.method = q.method, r.of = q.of, r.body = q.body, r.user = q.user, r.row = row,
                      NEW e \in Result(s, c, r, d)
               PROVE  MayName(Asked(q), d) /\ e = Promised(c, Asked(q), d)
    BY DEF Does
  <1>1. Formed(r) /\ Asked(r) = Asked(q)
    BY FormedAlike, AskedAlike
  <1>2. CASE UsersPrepared(s, q, row, d)
    <2>1. UsersPrepared(s, r, r.row, d)
      BY <1>2 DEF UsersPrepared
    <2> QED BY <1>1, <2>1, UsersDone
  <1>3. CASE CategoriesPrepared(s, q, row, d)
    <2>1. CategoriesPrepared(s, r, r.row, d)
      BY <1>3 DEF CategoriesPrepared
    <2> QED BY <1>1, <2>1, CategoriesDone
  <1>4. CASE FeedsPrepared(s, q, row, d)
    <2>1. FeedsPrepared(s, r, r.row, d)
      BY <1>4 DEF FeedsPrepared
    <2> QED BY <1>1, <2>1, FeedsDone
  <1>5. CASE EntriesPrepared(s, q, row, d)
    <2>1. EntriesPrepared(s, r, r.row, d)
      BY <1>5 DEF EntriesPrepared
    <2> QED BY <1>1, <2>1, EntriesDone
  <1> QED BY <1>2, <1>3, <1>4, <1>5

---------------------------------------------------------------------------
(* The handlers that change something.                                     *)
Prepared(s, q, row, d) ==
    \/ UsersPrepared(s, q, row, d) \/ CategoriesPrepared(s, q, row, d)
    \/ FeedsPrepared(s, q, row, d) \/ EntriesPrepared(s, q, row, d)

LEMMA BringsOnce ==
    ASSUME NEW method, NEW body, NEW row, NEW s, NEW todo \in {<<s>>, <<"Fetch", s>>, <<"Scrape", s>>},
           s = "CreateUser" => method = "CreateUser",
           s = "UpdateUser" => "name" \in DOMAIN row /\ Lower(Lower(row.name)) = Lower(row.name),
           s = "SetEntriesStarredState" => "starred" \in DOMAIN body
    PROVE  Brings(method, body, row, todo)
  <1>1. /\ Head(<<s>>) = s /\ Head(<<"Fetch", s>>) = "Fetch" /\ Head(<<"Scrape", s>>) = "Scrape"
    OBVIOUS
  <1>2. todo \in StarringPrograms => s = "SetEntriesStarredState"
    BY DEF StarringPrograms
  <1> QED BY <1>1, <1>2 DEF Brings

(* A handler goes on to its one statement.                                 *)
LEMMA GoesOnOnce ==
    ASSUME ApiIInv, OrderInv, NEW c \in Callers, apiCall[c].phase = "inside", NEW status, NEW row,
           NEW s, NEW todo \in {<<s>>, <<"Fetch", s>>, <<"Scrape", s>>}, GoOn(c, row, todo, status),
           Fine(apiCall[c].method, status),
           s = "CreateUser" => apiCall[c].method = "CreateUser",
           s = "UpdateUser" => "name" \in DOMAIN row /\ Lower(Lower(row.name)) = Lower(row.name),
           s = "SetEntriesStarredState" => "starred" \in DOMAIN apiCall[c].body,
           \A d \in apiCall[c].before : d = apiDb => Prepared(s, apiCall[c], row, d)
    PROVE  OrderInv'
  <1>1. HomeDb(apiDb) /\ \A t \in Tables : NewId(c) \notin DOMAIN apiDb[t]
    BY DEF ApiIInv, NewIdsAreFree, Makes
  <1>2. Tidy(apiDb) /\ Formed(apiCall[c])
    BY DEF OrderInv, InOrder
  <1>3. \A d \in apiCall[c].before : d = apiDb => Does(s, c, apiCall[c], row, d)
    BY <1>1, <1>2, PreparedDoes DEF Prepared
  <1>4. Brings(apiCall[c].method, apiCall[c].body, row, todo)
    BY BringsOnce
  <1> QED BY <1>3, <1>4, GoesOnInOrder

LEMMA UserHandlersInOrder ==
    ASSUME ApiIInv, OrderInv, NEW c \in Callers, createUser(c) \/ updateUser(c) \/ markUserAsRead(c)
    PROVE  OrderInv'
  <1> DEFINE q == apiCall[c]
  <1>0. 400 \in Errors /\ 403 \in Errors /\ 404 \in Errors /\ \A method : Fine(method, 201)
    BY DEF Errors, Fine
  <1>1. q.phase = "inside"
    BY DEF createUser, updateUser, markUserAsRead, AtHandler
  <1>2. CASE \E status \in {400, 403, 404} : Reply(c, status)
    BY <1>0, <1>1, <1>2, LooksInOrder
  <1>3. CASE createUser(c)
    <2>1. AtHandler(c, {"createUser"})
      BY <1>3 DEF createUser
    <2>2. /\ <<q.method, "createUser">> \in Meant
          /\ \A d \in q.before : apiDb = d /\ q.admin = d.users[q.user].admin
      BY <2>1, AtOneHandler
    <2>3. q.method = "CreateUser"
      BY <2>2 DEF Meant
    <2>4. CASE q.admin /\ GoOn(c, NoChanges, <<"CreateUser">>, 201)
      <3>1. \A d \in q.before : d.users[q.user].admin
        BY <2>2, <2>4, Zenon
      <3>2. \A d \in q.before : Prepared("CreateUser", q, NoChanges, d)
        BY <2>3, <3>1 DEF Prepared, UsersPrepared
      <3>3. <<"CreateUser">> \in {<<"CreateUser">>, <<"Fetch", "CreateUser">>, <<"Scrape", "CreateUser">>}
        OBVIOUS
      <3>4. GoOn(c, NoChanges, <<"CreateUser">>, 201)
        BY <2>4, Zenon
      <3> QED BY <1>0, <1>1, <2>3, <3>2, <3>3, <3>4, GoesOnOnce
    <2>5. \/ \E status \in {400, 403, 404} : Reply(c, status)
          \/ q.admin /\ GoOn(c, NoChanges, <<"CreateUser">>, 201)
      <3>1. /\ ~q.admin => Reply(c, 403)
            /\ q.admin => Reply(c, 400) \/ GoOn(c, NoChanges, <<"CreateUser">>, 201)
        BY <1>3, Zenon DEF createUser, IfAllowed
      <3>2. 400 \in {400, 403, 404} /\ 403 \in {400, 403, 404}
        OBVIOUS
      <3> QED BY <3>1, <3>2, Zenon
    <2> QED BY <1>2, <2>4, <2>5
  <1>4. CASE updateUser(c)
    <2> DEFINE row == PatchUser(apiDb.users[q.of], q.body)
    <2>1. AtHandler(c, {"updateUser"})
      BY <1>4 DEF updateUser
    <2>2. /\ <<q.method, "updateUser">> \in Meant /\ Formed(q)
          /\ \A d \in q.before : apiDb = d /\ q.admin = d.users[q.user].admin
      BY <2>1, AtOneHandler
    <2>3. q.method = "UpdateUser"
      BY <2>2 DEF Meant
    <2>4. CASE /\ q.of \in DOMAIN apiDb.users /\ (q.admin \/ q.of = q.user)
               /\ GoOn(c, row, <<"UpdateUser">>, 201)
      <3>1. \A d \in q.before : q.of = q.user \/ d.users[q.user].admin
        BY <2>2, <2>4, Zenon
      <3>2. q.of \in DOMAIN apiDb.users
        BY <2>4, Zenon
      <3>3. \A d \in q.before : d = apiDb => Prepared("UpdateUser", q, row, d)
        BY <2>3, <3>1, <3>2 DEF Prepared, UsersPrepared
      <3>4. <<"UpdateUser">> \in {<<"UpdateUser">>, <<"Fetch", "UpdateUser">>, <<"Scrape", "UpdateUser">>}
        OBVIOUS
      <3>5. GoOn(c, row, <<"UpdateUser">>, 201)
        BY <2>4, Zenon
      <3>6. "name" \in DOMAIN row /\ Lower(Lower(row.name)) = Lower(row.name)
        BY <2>2, <3>2 DEF OrderInv, Tidy, Formed, PatchUser, ++
      <3> HIDE DEF row
      <3> QED BY <1>0, <1>1, <3>3, <3>4, <3>5, <3>6, GoesOnOnce
    <2> HIDE DEF row
    <2>5. \/ \E status \in {400, 403, 404} : Reply(c, status)
          \/ /\ q.of \in DOMAIN apiDb.users /\ (q.admin \/ q.of = q.user)
             /\ GoOn(c, row, <<"UpdateUser">>, 201)
      <3>1. \/ Reply(c, 404) \/ Reply(c, 403) \/ Reply(c, 400)
            \/ /\ q.of \in DOMAIN apiDb.users /\ (q.admin \/ q.of = q.user)
               /\ GoOn(c, row, <<"UpdateUser">>, 201)
        BY <1>4, Zenon DEF updateUser, IfAllowed, row
      <3>2. 400 \in {400, 403, 404} /\ 403 \in {400, 403, 404} /\ 404 \in {400, 403, 404}
        OBVIOUS
      <3> QED BY <3>1, <3>2, Zenon
    <2> QED BY <1>2, <2>4, <2>5
  <1>5. CASE markUserAsRead(c)
    <2>1. AtHandler(c, {"markUserAsRead"})
      BY <1>5 DEF markUserAsRead
    <2>2. <<q.method, "markUserAsRead">> \in Meant
      BY <2>1, AtOneHandler
    <2>3. q.method = "MarkAllAsRead"
      BY <2>2 DEF Meant
    <2>4. CASE q.of = q.user /\ GoOn(c, NoChanges, <<"MarkAllAsRead">>, 204)
      <3>1. \A d \in q.before : Prepared("MarkAllAsRead", q, NoChanges, d)
        BY <2>3, <2>4 DEF Prepared, UsersPrepared
      <3>2. Fine(q.method, 204)
        BY <2>3 DEF Fine, Silent
      <3>3. <<"MarkAllAsRead">> \in {<<"MarkAllAsRead">>, <<"Fetch", "MarkAllAsRead">>, <<"Scrape", "MarkAllAsRead">>}
        OBVIOUS
      <3> QED BY <1>1, <2>4, <3>1, <3>2, <3>3, GoesOnOnce
    <2> QED BY <1>2, <1>5, <2>4 DEF markUserAsRead, IfAllowed
  <1> QED BY <1>3, <1>4, <1>5

LEMMA CategoryHandlersInOrder ==
    ASSUME ApiIInv, OrderInv, NEW c \in Callers,
           createCategory(c) \/ updateCategory(c) \/ markCategoryAsRead(c) \/ removeCategory(c)
    PROVE  OrderInv'
  <1> DEFINE q == apiCall[c]
             there == q.of \in Own(apiDb, "categories", q.user)
  <1>0. 400 \in Errors /\ 404 \in Errors /\ \A method : Fine(method, 201)
    BY DEF Errors, Fine
  <1>1. q.phase = "inside"
    BY DEF createCategory, updateCategory, markCategoryAsRead, removeCategory, OfCategory, AtHandler
  <1>2. CASE \E status \in {400, 404} : Reply(c, status)
    BY <1>0, <1>1, <1>2, LooksInOrder
  <1>3. CASE createCategory(c)
    <2>1. AtHandler(c, {"createCategory"})
      BY <1>3 DEF createCategory
    <2>2. <<q.method, "createCategory">> \in Meant
      BY <2>1, AtOneHandler
    <2>3. q.method = "CreateCategory"
      BY <2>2 DEF Meant
    <2>4. CASE GoOn(c, NoChanges, <<"CreateCategory">>, 201)
      <3>1. \A d \in q.before : Prepared("CreateCategory", q, NoChanges, d)
        BY <2>3 DEF Prepared, CategoriesPrepared
      <3>2. <<"CreateCategory">> \in {<<"CreateCategory">>, <<"Fetch", "CreateCategory">>, <<"Scrape", "CreateCategory">>}
        OBVIOUS
      <3> QED BY <1>0, <1>1, <2>4, <3>1, <3>2, GoesOnOnce
    <2> QED BY <1>2, <1>3, <2>4 DEF createCategory
  <1>4. CASE updateCategory(c)
    <2> DEFINE row == PatchCategory(apiDb.categories[q.of], q.body)
    <2>1. AtHandler(c, {"updateCategory"})
      BY <1>4 DEF updateCategory
    <2>2. <<q.method, "updateCategory">> \in Meant
      BY <2>1, AtOneHandler
    <2>3. q.method = "UpdateCategory"
      BY <2>2 DEF Meant
    <2>4. CASE there /\ GoOn(c, row, <<"UpdateCategory">>, 201)
      <3>1. \A d \in q.before : d = apiDb => Prepared("UpdateCategory", q, row, d)
        BY <2>3, <2>4 DEF Prepared, CategoriesPrepared
      <3>2. <<"UpdateCategory">> \in {<<"UpdateCategory">>, <<"Fetch", "UpdateCategory">>, <<"Scrape", "UpdateCategory">>}
        OBVIOUS
      <3> HIDE DEF row
      <3> QED BY <1>0, <1>1, <2>4, <3>1, <3>2, GoesOnOnce
    <2> QED BY <1>2, <1>4, <2>4 DEF updateCategory
  <1>5. ASSUME NEW handler, NEW s, OfCategory(c, handler, s),
               \/ handler = "markCategoryAsRead" /\ s = "MarkCategoryAsRead"
               \/ handler = "removeCategory" /\ s = "RemoveCategory"
        PROVE  OrderInv'
    <2>1. AtHandler(c, {handler})
      BY <1>5 DEF OfCategory
    <2>2. <<q.method, handler>> \in Meant
      BY <2>1, AtOneHandler
    <2>3. \/ q.method = "MarkCategoryAsRead" /\ s = "MarkCategoryAsRead"
          \/ q.method = "DeleteCategory" /\ s = "RemoveCategory"
      BY <1>5, <2>2 DEF Meant
    <2>4. CASE there /\ GoOn(c, NoChanges, <<s>>, 204)
      <3>1. \A d \in q.before : d = apiDb => Prepared(s, q, NoChanges, d)
        BY <2>3, <2>4 DEF Prepared, CategoriesPrepared
      <3>2. Fine(q.method, 204)
        BY <2>3 DEF Fine, Silent
      <3>3. <<s>> \in {<<s>>, <<"Fetch", s>>, <<"Scrape", s>>}
        OBVIOUS
      <3> QED BY <1>1, <2>3, <2>4, <3>1, <3>2, <3>3, GoesOnOnce
    <2> QED BY <1>2, <1>5, <2>4 DEF OfCategory, CategoryIDExists
  <1> QED BY <1>3, <1>4, <1>5 DEF markCategoryAsRead, removeCategory

LEMMA FeedHandlersInOrder ==
    ASSUME ApiIInv, OrderInv, NEW c \in Callers,
           createFeed(c) \/ updateFeed(c) \/ markFeedAsRead(c) \/ removeFeed(c)
    PROVE  OrderInv'
  <1> DEFINE q == apiCall[c]
             there == q.of \in Own(apiDb, "feeds", q.user)
  <1>0. 400 \in Errors /\ 404 \in Errors /\ \A method : Fine(method, 201)
    BY DEF Errors, Fine
  <1>1. q.phase = "inside"
    BY DEF createFeed, updateFeed, markFeedAsRead, removeFeed, OfFeed, AtHandler
  <1>2. CASE \E status \in {400, 404} : Reply(c, status)
    BY <1>0, <1>1, <1>2, LooksInOrder
  <1>3. CASE createFeed(c)
    <2> DEFINE meant == IF Named(q.body, "category") THEN {q.body.category} ELSE FirstCategory(q)
               one == IF Named(q.body, "category") THEN q.body.category
                      ELSE CHOOSE i \in FirstCategories(apiDb, q.user) : TRUE
    <2>1. AtHandler(c, {"createFeed"})
      BY <1>3 DEF createFeed
    <2>2. <<q.method, "createFeed">> \in Meant
      BY <2>1, AtOneHandler
    <2>3. q.method = "CreateFeed"
      BY <2>2 DEF Meant
    <2>4. \A category \in meant : category = one
      BY DEF FirstCategory
    <2>5. ASSUME NEW category \in meant, GoOn(c, [category |-> category], <<"Fetch", "CreateFeed">>, 201)
          PROVE  OrderInv'
      <3> DEFINE row == [category |-> category]
      <3>1. row.category = one
        BY <2>4
      <3> HIDE DEF row
      <3>2. \A d \in q.before : d = apiDb => Prepared("CreateFeed", q, row, d)
        BY <2>3, <3>1 DEF Prepared, FeedsPrepared
      <3>3. <<"Fetch", "CreateFeed">> \in {<<"CreateFeed">>, <<"Fetch", "CreateFeed">>, <<"Scrape", "CreateFeed">>}
        OBVIOUS
      <3>4. GoOn(c, row, <<"Fetch", "CreateFeed">>, 201)
        BY <2>5 DEF row
      <3> QED BY <1>0, <1>1, <3>2, <3>3, <3>4, GoesOnOnce
    <2>6. \/ Reply(c, 400)
          \/ \E category \in meant : GoOn(c, [category |-> category], <<"Fetch", "CreateFeed">>, 201)
      BY <1>3 DEF createFeed
    <2> QED BY <1>2, <2>5, <2>6
  <1>4. CASE updateFeed(c)
    <2> DEFINE row == PatchFeed(apiDb.feeds[q.of], q.body)
    <2>1. AtHandler(c, {"updateFeed"})
      BY <1>4 DEF updateFeed
    <2>2. <<q.method, "updateFeed">> \in Meant
      BY <2>1, AtOneHandler
    <2>3. q.method = "UpdateFeed"
      BY <2>2 DEF Meant
    <2>4. CASE there /\ Accepted(q.body) /\ GoOn(c, row, <<"UpdateFeed">>, 201)
      <3>1. \A d \in q.before : d = apiDb => Prepared("UpdateFeed", q, row, d)
        BY <2>3, <2>4 DEF Prepared, FeedsPrepared
      <3>2. <<"UpdateFeed">> \in {<<"UpdateFeed">>, <<"Fetch", "UpdateFeed">>, <<"Scrape", "UpdateFeed">>}
        OBVIOUS
      <3> HIDE DEF row
      <3> QED BY <1>0, <1>1, <2>4, <3>1, <3>2, GoesOnOnce
    <2> HIDE DEF row
    <2>5. \/ \E status \in {400, 404} : Reply(c, status)
          \/ there /\ Accepted(q.body) /\ GoOn(c, row, <<"UpdateFeed">>, 201)
      BY <1>4 DEF updateFeed, ValidateFeedModification, row
    <2> QED BY <1>2, <2>4, <2>5
  <1>5. ASSUME NEW handler, NEW s, OfFeed(c, handler, s),
               \/ handler = "markFeedAsRead" /\ s = "MarkFeedAsRead"
               \/ handler = "removeFeed" /\ s = "RemoveFeed"
        PROVE  OrderInv'
    <2>1. AtHandler(c, {handler})
      BY <1>5 DEF OfFeed
    <2>2. <<q.method, handler>> \in Meant
      BY <2>1, AtOneHandler
    <2>3. \/ q.method = "MarkFeedAsRead" /\ s = "MarkFeedAsRead"
          \/ q.method = "DeleteFeed" /\ s = "RemoveFeed"
      BY <1>5, <2>2 DEF Meant
    <2>4. CASE there /\ GoOn(c, NoChanges, <<s>>, 204)
      <3>1. \A d \in q.before : d = apiDb => Prepared(s, q, NoChanges, d)
        BY <2>3, <2>4 DEF Prepared, FeedsPrepared
      <3>2. Fine(q.method, 204)
        BY <2>3 DEF Fine, Silent
      <3>3. <<s>> \in {<<s>>, <<"Fetch", s>>, <<"Scrape", s>>}
        OBVIOUS
      <3> QED BY <1>1, <2>3, <2>4, <3>1, <3>2, <3>3, GoesOnOnce
    <2> QED BY <1>2, <1>5, <2>4 DEF OfFeed
  <1> QED BY <1>3, <1>4, <1>5 DEF markFeedAsRead, removeFeed

LEMMA MarkingHandlersInOrder ==
    ASSUME ApiIInv, OrderInv, NEW c \in Callers, setEntryStatusAndStarred(c) \/ toggleStarred(c)
    PROVE  OrderInv'
  <1> DEFINE q == apiCall[c]
  <1>0. 400 \in Errors
    BY DEF Errors
  <1>1. q.phase = "inside"
    BY DEF setEntryStatusAndStarred, toggleStarred, AtHandler
  <1>2. CASE Reply(c, 400)
    BY <1>0, <1>1, <1>2, LooksInOrder
  <1>3. CASE setEntryStatusAndStarred(c)
    <2>1. AtHandler(c, {"setEntryStatusAndStarred"})
      BY <1>3 DEF setEntryStatusAndStarred
    <2>2. <<q.method, "setEntryStatusAndStarred">> \in Meant /\ Formed(q)
      BY <2>1, AtOneHandler
    <2>3. \/ q.method = "UpdateEntries" /\ DOMAIN q.body = {"ids", "unread"}
          \/ q.method = "UpdateEntriesStarred" /\ DOMAIN q.body = {"ids", "starred"}
      BY <2>2 DEF Meant, Formed
    <2> DEFINE one == IF Named(q.body, "unread") THEN <<"SetEntriesStatus">> ELSE <<>>
               other == IF Named(q.body, "starred") THEN <<"SetEntriesStarredState">> ELSE <<>>
    <2>4. /\ q.method = "UpdateEntries" => one = <<"SetEntriesStatus">> /\ other = <<>>
          /\ q.method = "UpdateEntriesStarred" => one = <<>> /\ other = <<"SetEntriesStarredState">>
      BY <2>3 DEF Named
    <2>5. Reply(c, 400) \/ GoOn(c, NoChanges, one \o other, 204)
      BY <1>3 DEF setEntryStatusAndStarred
    <2> HIDE DEF one, other
    <2>6. \A s : <<s>> \o <<>> = <<s>> /\ <<>> \o <<s>> = <<s>>
      BY TuplesJoin
    <2>7. PICK s : /\ one \o other = <<s>>
                   /\ \/ q.method = "UpdateEntries" /\ s = "SetEntriesStatus"
                      \/ /\ q.method = "UpdateEntriesStarred" /\ s = "SetEntriesStarredState"
                         /\ "starred" \in DOMAIN q.body
      BY <2>3, <2>4, <2>6
    <2>8. CASE GoOn(c, NoChanges, <<s>>, 204)
      <3>1. \A d \in q.before : Prepared(s, q, NoChanges, d)
        BY <2>7 DEF Prepared, EntriesPrepared
      <3>2. Fine(q.method, 204)
        BY <2>7 DEF Fine, Silent
      <3>3. <<s>> \in {<<s>>, <<"Fetch", s>>, <<"Scrape", s>>}
        OBVIOUS
      <3>4. s \notin {"CreateUser", "UpdateUser"} /\ (s = "SetEntriesStarredState" => "starred" \in DOMAIN q.body)
        BY <2>7
      <3> QED BY <1>1, <2>8, <3>1, <3>2, <3>3, <3>4, GoesOnOnce
    <2> QED BY <1>2, <2>5, <2>7, <2>8
  <1>4. CASE toggleStarred(c)
    <2>1. AtHandler(c, {"toggleStarred"}) /\ GoOn(c, NoChanges, <<"ToggleStarred">>, 204)
      BY <1>4 DEF toggleStarred
    <2>2. <<q.method, "toggleStarred">> \in Meant
      BY <2>1, AtOneHandler
    <2>3. q.method = "ToggleStarred"
      BY <2>2 DEF Meant
    <2>4. \A d \in q.before : Prepared("ToggleStarred", q, NoChanges, d)
      BY <2>3 DEF Prepared, EntriesPrepared
    <2>5. Fine(q.method, 204)
      BY <2>3 DEF Fine, Silent
    <2>6. <<"ToggleStarred">> \in {<<"ToggleStarred">>, <<"Fetch", "ToggleStarred">>, <<"Scrape", "ToggleStarred">>}
      OBVIOUS
    <2> QED BY <1>1, <2>1, <2>4, <2>5, <2>6, GoesOnOnce
  <1> QED BY <1>3, <1>4

LEMMA EntryHandlersInOrder ==
    ASSUME ApiIInv, OrderInv, NEW c \in Callers,
           saveEntry(c) \/ updateEntry(c) \/ fetchContent(c) \/ updateEnclosureByID(c)
    PROVE  OrderInv'
  <1> DEFINE q == apiCall[c]
             there == q.of \in Own(apiDb, "entries", q.user)
  <1>0. 400 \in Errors /\ 404 \in Errors /\ \A method : Fine(method, 200) /\ Fine(method, 201)
    BY DEF Errors, Fine
  <1>1. q.phase = "inside"
    BY DEF saveEntry, updateEntry, fetchContent, updateEnclosureByID, AtHandler
  <1>2. CASE \E status \in {400, 404} : Reply(c, status)
    BY <1>0, <1>1, <1>2, LooksInOrder
  <1>3. CASE saveEntry(c)
    <2>1. AtHandler(c, {"saveEntry"})
      BY <1>3 DEF saveEntry
    <2>2. <<q.method, "saveEntry">> \in Meant
      BY <2>1, AtOneHandler
    <2>3. q.method = "SaveEntry"
      BY <2>2 DEF Meant
    <2>4. CASE there /\ Reply(c, 202)
      <3>1. q.method \in Looks /\ Fine(q.method, 202)
        BY <2>3 DEF Looks, EntryLooks, Fine, Silent
      <3>2. \A d \in q.before : apiDb = d => MayName(Asked(q), d)
        BY <2>3, <2>4, OwnersMayName
      <3> QED BY <1>1, <2>4, <3>1, <3>2, LooksInOrder
    <2>5. \/ \E status \in {400, 404} : Reply(c, status)
          \/ there /\ Reply(c, 202)
      BY <1>3 DEF saveEntry
    <2> QED BY <1>2, <2>4, <2>5
  <1>4. CASE updateEntry(c)
    <2> DEFINE row == PatchEntry(apiDb.entries[q.of], Cleaned(q.body))
    <2>1. AtHandler(c, {"updateEntry"})
      BY <1>4 DEF updateEntry
    <2>2. <<q.method, "updateEntry">> \in Meant
      BY <2>1, AtOneHandler
    <2>3. q.method = "UpdateEntry"
      BY <2>2 DEF Meant
    <2>4. CASE there /\ GoOn(c, row, <<"UpdateEntryTitleAndContent">>, 201)
      <3>1. \A d \in q.before : d = apiDb => Prepared("UpdateEntryTitleAndContent", q, row, d)
        BY <2>3, <2>4 DEF Prepared, EntriesPrepared
      <3> DEFINE s == "UpdateEntryTitleAndContent"
      <3>2. <<s>> \in {<<s>>, <<"Fetch", s>>, <<"Scrape", s>>} /\ s \notin {"CreateUser", "UpdateUser", "SetEntriesStarredState"}
        OBVIOUS
      <3>3. GoOn(c, row, <<s>>, 201) /\ \A d \in q.before : d = apiDb => Prepared(s, q, row, d)
        BY <2>4, <3>1
      <3>4. Fine(q.method, 201)
        BY <1>0
      <3> HIDE DEF row, s
      <3> QED BY <1>1, <3>2, <3>3, <3>4, GoesOnOnce
    <2> QED BY <1>2, <1>4, <2>4 DEF updateEntry
  <1>5. CASE fetchContent(c)
    <2> DEFINE row == [apiDb.entries[q.of] EXCEPT !.content = "page"]
               s == IF Named(q.body, "keep") THEN "UpdateEntryTitleAndContent" ELSE "Scrape"
               todo == IF Named(q.body, "keep") THEN <<"Scrape", "UpdateEntryTitleAndContent">> ELSE <<"Scrape">>
    <2>1. AtHandler(c, {"fetchContent"})
      BY <1>5 DEF fetchContent
    <2>2. <<q.method, "fetchContent">> \in Meant
      BY <2>1, AtOneHandler
    <2>3. q.method = "FetchEntryOriginalContent"
      BY <2>2 DEF Meant
    <2>4. todo \in {<<s>>, <<"Fetch", s>>, <<"Scrape", s>>} /\ s \in {"UpdateEntryTitleAndContent", "Scrape"}
      OBVIOUS
    <2>5. CASE there /\ GoOn(c, row, todo, 200)
      <3>1. \A d \in q.before : d = apiDb => Prepared(s, q, row, d)
        BY <2>3, <2>5 DEF Prepared, EntriesPrepared
      <3> HIDE DEF row, s, todo
      <3>2. s \notin {"CreateUser", "UpdateUser", "SetEntriesStarredState"}
        BY <2>4
      <3>3. GoOn(c, row, todo, 200) /\ Fine(q.method, 200)
        BY <1>0, <2>5
      <3> QED BY <1>1, <2>4, <3>1, <3>2, <3>3, GoesOnOnce
    <2>6. Reply(c, 404) \/ (there /\ GoOn(c, row, todo, 200))
      BY <1>5 DEF fetchContent
    <2> QED BY <1>2, <2>5, <2>6
  <1>6. CASE updateEnclosureByID(c)
    <2> DEFINE row == q.body ++ apiDb.media[q.of]
    <2>1. AtHandler(c, {"updateEnclosureByID"})
      BY <1>6 DEF updateEnclosureByID
    <2>2. <<q.method, "updateEnclosureByID">> \in Meant
      BY <2>1, AtOneHandler
    <2>3. q.method = "UpdateEnclosure"
      BY <2>2 DEF Meant
    <2>4. CASE q.of \in Own(apiDb, "media", q.user) /\ GoOn(c, row, <<"UpdateEnclosure">>, 204)
      <3>1. \A d \in q.before : d = apiDb => Prepared("UpdateEnclosure", q, row, d)
        BY <2>3, <2>4 DEF Prepared, EntriesPrepared
      <3>2. Fine(q.method, 204)
        BY <2>3 DEF Fine, Silent
      <3>3. <<"UpdateEnclosure">> \in {<<"UpdateEnclosure">>, <<"Fetch", "UpdateEnclosure">>, <<"Scrape", "UpdateEnclosure">>}
        OBVIOUS
      <3> HIDE DEF row
      <3> QED BY <1>1, <2>4, <3>1, <3>2, <3>3, GoesOnOnce
    <2> HIDE DEF row
    <2>5. \/ \E status \in {400, 404} : Reply(c, status)
          \/ q.of \in Own(apiDb, "media", q.user) /\ GoOn(c, row, <<"UpdateEnclosure">>, 204)
      BY <1>6 DEF updateEnclosureByID, row
    <2> QED BY <1>2, <2>4, <2>5
  <1> QED BY <1>3, <1>4, <1>5, <1>6

LEMMA ImportHandlerInOrder ==
    ASSUME ApiIInv, OrderInv, NEW c \in Callers, importFeedEntry(c)
    PROVE  OrderInv'
  <1> DEFINE q == apiCall[c]
             starring == IF q.body.starred THEN <<"SetEntriesStarredState">> ELSE <<>>
             todo == <<"InsertEntryForFeed", "SetEntriesStatus">> \o starring
             meant == IF q.body.starred THEN <<"InsertEntryForFeed", "SetEntriesStatus", "SetEntriesStarredState">>
                      ELSE <<"InsertEntryForFeed", "SetEntriesStatus">>
  <1>0. 400 \in Errors /\ Fine(q.method, 201)
    BY DEF Errors, Fine
  <1>1. AtHandler(c, {"importFeedEntry"})
    BY DEF importFeedEntry
  <1>2. q.phase = "inside" /\ <<q.method, "importFeedEntry">> \in Meant /\ Formed(q)
    BY <1>1, AtOneHandler
  <1>3. q.method = "ImportFeedEntry"
    BY <1>2 DEF Meant
  <1>4. "starred" \in DOMAIN q.body
    BY <1>2, <1>3 DEF Formed
  <1>5. todo = meant
    BY TuplesJoin
  <1>6. CASE Reply(c, 400)
    BY <1>0, <1>2, <1>6, LooksInOrder
  <1>7. CASE q.of \in Own(apiDb, "feeds", q.user) /\ GoOn(c, NoChanges, todo, 201)
    <2>1. GoOn(c, NoChanges, meant, 201)
      BY <1>5, <1>7
    <2>2. Brings(q.method, q.body, NoChanges, meant)
      BY <1>4 DEF Brings
    <2> HIDE DEF meant
    <2>3. \A d \in q.before : d = apiDb =>
             /\ q.method = "ImportFeedEntry" /\ q.of \in Own(d, "feeds", q.user)
             /\ meant = IF q.body.starred
                        THEN <<"InsertEntryForFeed", "SetEntriesStatus", "SetEntriesStarredState">>
                        ELSE <<"InsertEntryForFeed", "SetEntriesStatus">>
      BY <1>3, <1>7 DEF meant
    <2> QED BY <1>0, <1>2, <2>1, <2>2, <2>3, GoesOnInOrder
  <1> HIDE DEF todo
  <1>8. Reply(c, 400) \/ (q.of \in Own(apiDb, "feeds", q.user) /\ GoOn(c, NoChanges, todo, 201))
    BY DEF importFeedEntry, todo
  <1> QED BY <1>6, <1>7, <1>8

LEMMA KeyHandlersInOrder ==
    ASSUME ApiIInv, OrderInv, NEW c \in Callers, createAPIKey(c) \/ deleteAPIKey(c)
    PROVE  OrderInv'
  <1> DEFINE q == apiCall[c]
  <1>0. 400 \in Errors /\ Fine(q.method, 201)
    BY DEF Errors, Fine
  <1>1. q.phase = "inside"
    BY DEF createAPIKey, deleteAPIKey, AtHandler
  <1>2. CASE Reply(c, 400)
    BY <1>0, <1>1, <1>2, LooksInOrder
  <1>3. CASE createAPIKey(c)
    <2>1. AtHandler(c, {"createAPIKey"})
      BY <1>3 DEF createAPIKey
    <2>2. <<q.method, "createAPIKey">> \in Meant
      BY <2>1, AtOneHandler
    <2>3. q.method = "CreateAPIKey"
      BY <2>2 DEF Meant
    <2>4. \A d \in q.before : Prepared("CreateAPIKey", q, NoChanges, d)
      BY <2>3 DEF Prepared, UsersPrepared
    <2>5. <<"CreateAPIKey">> \in {<<"CreateAPIKey">>, <<"Fetch", "CreateAPIKey">>, <<"Scrape", "CreateAPIKey">>}
      OBVIOUS
    <2>6. CASE GoOn(c, NoChanges, <<"CreateAPIKey">>, 201)
      BY <1>0, <1>1, <2>4, <2>5, <2>6, GoesOnOnce
    <2> QED BY <1>2, <1>3, <2>6 DEF createAPIKey
  <1>4. CASE deleteAPIKey(c)
    <2>1. AtHandler(c, {"deleteAPIKey"})
      BY <1>4 DEF deleteAPIKey
    <2>2. <<q.method, "deleteAPIKey">> \in Meant
      BY <2>1, AtOneHandler
    <2>3. q.method = "DeleteAPIKey"
      BY <2>2 DEF Meant
    <2>4. \A d \in q.before : Prepared("DeleteAPIKey", q, NoChanges, d)
      BY <2>3 DEF Prepared, UsersPrepared
    <2>5. Fine(q.method, 204)
      BY <2>3 DEF Fine, Silent
    <2>6. GoOn(c, NoChanges, <<"DeleteAPIKey">>, 204)
      BY <1>4 DEF deleteAPIKey
    <2>7. <<"DeleteAPIKey">> \in {<<"DeleteAPIKey">>, <<"Fetch", "DeleteAPIKey">>, <<"Scrape", "DeleteAPIKey">>}
      OBVIOUS
    <2> QED BY <1>1, <2>4, <2>5, <2>6, <2>7, GoesOnOnce
  <1> QED BY <1>3, <1>4

(* Handlers that leave a goroutine behind.                                 *)
LEMMA LeavingHandlersInOrder ==
    ASSUME ApiIInv, OrderInv, NEW c \in Callers, removeUser(c) \/ flushHistory(c)
    PROVE  OrderInv'
  <1> DEFINE q == apiCall[c]
  <1>1. q.phase = "inside"
    BY DEF removeUser, flushHistory, AtHandler
  <1>2. ASSUME q.method \in {"DeleteUser", "FlushHistory"}, NEW status \in {202, 204},
               Proceed(c, [phase |-> "answered", status |-> status]), UNCHANGED apiDb,
               \A d \in q.before : MayName(Asked(q), d)
        PROVE  OrderInv'
    <2>1. q.method \in Looks /\ Fine(q.method, status)
      BY <1>2 DEF Looks, UserLooks, EntryLooks, Fine, Silent
    <2>2. \A d \in q.before : Promised(c, Asked(q), d) = d
      BY <2>1, LooksChangeNothing
    <2> QED BY <1>1, <1>2, <2>1, <2>2, AnswersInOrder
  <1>3. CASE removeUser(c)
    <2>1. AtHandler(c, {"removeUser"})
      BY <1>3 DEF removeUser
    <2>2. /\ <<q.method, "removeUser">> \in Meant
          /\ \A d \in q.before : apiDb = d /\ q.admin = d.users[q.user].admin
      BY <2>1, AtOneHandler
    <2>3. q.method = "DeleteUser"
      BY <2>2 DEF Meant
    <2>4. \/ Reply(c, 403) \/ Reply(c, 404) \/ Reply(c, 400)
          \/ /\ q.admin /\ Proceed(c, [phase |-> "answered", status |-> 204])
             /\ UNCHANGED apiDb
      BY <1>3, Zenon DEF removeUser, IfAllowed
    <2>5. CASE /\ q.admin /\ Proceed(c, [phase |-> "answered", status |-> 204])
               /\ UNCHANGED apiDb
      <3>1. \A d \in q.before : d.users[q.user].admin
        BY <2>2, <2>5, Zenon
      <3>2. \A d \in q.before : MayName(Asked(q), d)
        BY <2>3, <3>1, AdminsMayName
      <3>3. Proceed(c, [phase |-> "answered", status |-> 204]) /\ UNCHANGED apiDb
        BY <2>5, Zenon
      <3> QED BY <1>2, <2>3, <3>2, <3>3
    <2>6. ASSUME NEW status \in {400, 403, 404}, Reply(c, status)
          PROVE  OrderInv'
      <3>1. status \in Errors
        BY <2>6 DEF Errors
      <3> QED BY <1>1, <2>6, <3>1, LooksInOrder
    <2>7. 400 \in {400, 403, 404} /\ 403 \in {400, 403, 404} /\ 404 \in {400, 403, 404}
      OBVIOUS
    <2> QED BY <2>4, <2>5, <2>6, <2>7, Zenon
  <1>4. CASE flushHistory(c)
    <2>1. AtHandler(c, {"flushHistory"})
      BY <1>4 DEF flushHistory
    <2>2. <<q.method, "flushHistory">> \in Meant
      BY <2>1, AtOneHandler
    <2>3. q.method = "FlushHistory"
      BY <2>2 DEF Meant
    <2>4. \A d \in q.before : MayName(Asked(q), d)
      BY <2>3, FreeToName DEF FreeMethods
    <2> QED BY <1>2, <1>4, <2>3, <2>4 DEF flushHistory
  <1> QED BY <1>3, <1>4

LEMMA HandlingInOrder ==
    ASSUME ApiIInv, OrderInv, NEW c \in Callers, Handling(c)
    PROVE  OrderInv'
  BY UserHandlersInOrder, CategoryHandlersInOrder, FeedHandlersInOrder, MarkingHandlersInOrder,
     EntryHandlersInOrder, ImportHandlerInOrder, KeyHandlersInOrder, LeavingHandlersInOrder DEF Handling

---------------------------------------------------------------------------
(* The statements.                                                         *)

(* Someone has written the database; the others are no longer alone with   *)
(* it, unless nothing has changed.                                         *)
LEMMA StoresInOrder ==
    ASSUME ApiIInv, OrderInv, NEW c, NEW d, Tidy(d), NEW changes, DOMAIN changes \subseteq CallFields,
           Store(c, d, changes), c \in Callers => InOrder(c, apiCall'[c], d)
    PROVE  OrderInv'
  <1>1. /\ apiDb' = d
        /\ \A x \in Callers : x # c => \A f \in CallFields \ {"before"} : apiCall'[x][f] = apiCall[x][f]
    BY StoreIs DEF ApiIInv
  <1>2. \A x \in Callers : x # c =>
           IF d = apiDb THEN apiCall'[x] = apiCall[x] ELSE apiCall'[x].before = {}
    <2>1. \A x \in Callers : "before" \in DOMAIN apiCall[x]
      BY DEF ApiIInv, CallsTyped, CallFields
    <2> QED BY <2>1 DEF Store
  <1>3. ASSUME NEW x \in Callers, x # c
        PROVE  InOrder(x, apiCall'[x], d)
    <2> DEFINE q == apiCall[x]
               r == apiCall'[x]
    <2>1. InOrder(x, q, apiDb)
      BY DEF OrderInv
    <2>2. /\ r.phase = q.phase /\ r.method = q.method /\ r.of = q.of /\ r.body = q.body
          /\ r.row = q.row /\ r.todo = q.todo
      BY <1>1, <1>3 DEF CallFields
    <2>3. CASE d = apiDb
      BY <1>2, <1>3, <2>1, <2>3
    <2>4. CASE d # apiDb
      <3>1. r.before = {}
        BY <1>2, <1>3, <2>4
      <3> HIDE DEF q, r
      <3>2. q.phase # "idle" => Formed(r)
        BY <2>1, <2>2, FormedAlike DEF InOrder
      <3>3. InOrder(x, r, d)
        BY <2>1, <2>2, <3>1, <3>2 DEF InOrder
      <3> QED BY <3>3 DEF r
    <2> QED BY <2>3, <2>4
  <1>4. \A x \in Callers : InOrder(x, apiCall'[x], d)
    BY <1>3
  <1>5. Tidy(apiDb)' /\ \A x \in Callers : InOrder(x, apiCall[x], apiDb)'
    BY <1>1, <1>4
  <1> QED BY <1>5 DEF OrderInv

(* What a request asks for is the same all along.                          *)
GoesOnFrom(q, r, e) ==
    /\ r.method = q.method /\ r.of = q.of /\ r.body = q.body /\ r.user = q.user /\ r.status = q.status
    /\ r.todo = Tail(q.todo)
    /\ r.phase = IF r.todo = <<>> THEN "answered" ELSE "writing"
    /\ r.todo # <<>> =>
          r.row = IF Head(q.todo) = "InsertEntryForFeed"
                  THEN [id |-> CHOOSE i \in WithHash(e, q.of, q.body.hash) : TRUE] ELSE q.row

LEMMA RightInTheEnd ==
    ASSUME NEW c, NEW d, NEW e, NEW r, r.phase = "answered", Formed(r), Fine(r.method, r.status),
           MayName(Asked(r), d), e = Promised(c, Asked(r), d)
    PROVE  Quiet(c, r, d, e)
  <1>1. Received(r.method, r.status) = "nil"
    BY ReceivedIs DEF Formed
  <1> QED BY <1>1 DEF Quiet, Right

LEMMA OneStatementGoesOn ==
    ASSUME NEW c, NEW d, NEW q, NEW r, NEW e, Formed(q), Fine(q.method, q.status), GoesOnFrom(q, r, e),
           NEW s, q.todo \in {<<s>>, <<"Fetch", s>>, <<"Scrape", s>>}, Does(s, c, q, q.row, d),
           e \in Result(Head(q.todo), c, q, d)
    PROVE  Quiet(c, r, d, e)
  <1>1. Formed(r) /\ Asked(r) = Asked(q) /\ Fine(r.method, r.status)
    BY FormedAlike, AskedAlike DEF GoesOnFrom
  <1>2. CASE q.todo = <<s>>
    <2>1. Head(<<s>>) = s /\ Tail(<<s>>) = <<>>
      OBVIOUS
    <2>2. r.phase = "answered" /\ e \in Result(s, c, q, d)
      BY <1>2, <2>1 DEF GoesOnFrom
    <2>3. MayName(Asked(q), d) /\ e = Promised(c, Asked(q), d)
      BY <2>2 DEF Does
    <2>4. MayName(Asked(r), d) /\ e = Promised(c, Asked(r), d)
      BY <1>1, <2>3
    <2> QED BY <1>1, <2>2, <2>4, RightInTheEnd
  <1>3. ASSUME NEW first \in {"Fetch", "Scrape"}, q.todo = <<first, s>>
        PROVE  Quiet(c, r, d, e)
    <2>1. Head(<<first, s>>) = first /\ Tail(<<first, s>>) = <<s>> /\ <<s>> # <<>>
      OBVIOUS
    <2>2. r.phase = "writing" /\ r.todo = <<s>> /\ r.row = q.row /\ e \in Result(first, c, q, d)
      BY <1>3, <2>1 DEF GoesOnFrom
    <2>3. e = d
      BY <2>2 DEF Result, fetchDocument
    <2>4. Does(s, c, r, r.row, d)
      BY <1>1, <2>2 DEF Does, GoesOnFrom
    <2>5. Ready(c, r, d, e)
      BY <1>1, <2>2, <2>3, <2>4 DEF Ready
    <2> QED BY <2>2, <2>5 DEF Quiet
  <1> QED BY <1>2, <1>3

(* An import: the entry, which may be there, then its status and its star. *)
LEMMA ImportBegins ==
    ASSUME NEW c, NEW d, HomeDb(d), Tidy(d), NewId(c) \notin DOMAIN d.entries, NEW q, NEW r, NEW e,
           Formed(q), Fine(q.method, q.status), GoesOnFrom(q, r, e), Imports(c, q, d, d),
           e \in Result(Head(q.todo), c, q, d)
    PROVE  Quiet(c, r, d, e)
  <1>1. Formed(r) /\ Asked(r) = Asked(q) /\ Fine(r.method, r.status)
    BY FormedAlike, AskedAlike DEF GoesOnFrom
  <1>2. /\ q.method = "ImportFeedEntry" /\ q.of \in Own(d, "feeds", q.user)
        /\ q.todo = IF q.body.starred
                    THEN <<"InsertEntryForFeed", "SetEntriesStatus", "SetEntriesStarredState">>
                    ELSE <<"InsertEntryForFeed", "SetEntriesStatus">>
    BY DEF Imports
  <1>3. /\ Head(q.todo) = "InsertEntryForFeed"
        /\ Tail(q.todo) = IF q.body.starred THEN <<"SetEntriesStatus", "SetEntriesStarredState">>
                          ELSE <<"SetEntriesStatus">>
        /\ Tail(q.todo) # <<>>
    BY <1>2
  <1>4. e \in storeInsertEntryForFeed(c, q, d)
    BY <1>3 DEF Result
  <1> DEFINE Read(id) == Marked(e, {id}, "unread", q.body.unread)
             Star(id) == Marked(Read(id), {id}, "starred", q.body.starred)
  <1>5. PICK id : /\ WithHash(e, q.of, q.body.hash) = {id}
                  /\ id \in Own(e, "entries", q.user)
                  /\ ~q.body.starred => Read(id) = Promised(c, Asked(q), d)
                  /\ q.body.starred => Star(id) = Promised(c, Asked(q), d)
    <2>1. CASE WithHash(d, q.of, q.body.hash) # {}
      <3>1. e = d
        BY <1>4, <2>1 DEF storeInsertEntryForFeed
      <3>2. PICK id : id \in WithHash(d, q.of, q.body.hash)
        BY <2>1
      <3> QED BY <1>2, <3>1, <3>2, ImportedThere
    <2>2. CASE WithHash(d, q.of, q.body.hash) = {}
      BY <1>2, <1>4, <2>2, ImportedNew
    <2> QED BY <2>1, <2>2
  <1> HIDE DEF Read, Star
  <1>6. /\ r.phase = "writing" /\ r.row = [id |-> CHOOSE i \in WithHash(e, q.of, q.body.hash) : TRUE]
        /\ r.todo = Tail(q.todo)
    BY <1>3 DEF GoesOnFrom
  <1>7. r.row.id = id
    BY <1>5, <1>6
  <1>8. /\ r.method = "ImportFeedEntry" /\ r.row.id \in Own(e, "entries", r.user)
        /\ MayName(Asked(r), d)
    BY <1>1, <1>2, <1>5, <1>7, OwnersMayName DEF GoesOnFrom
  <1>9. \/ r.todo = <<"SetEntriesStatus">> /\ Read(r.row.id) = Promised(c, Asked(r), d)
        \/ r.todo = <<"SetEntriesStatus", "SetEntriesStarredState">> /\ Star(r.row.id) = Promised(c, Asked(r), d)
    BY <1>1, <1>3, <1>5, <1>6, <1>7
  <1>10. ImportsOn(c, r, d, e)
    BY <1>8, <1>9 DEF ImportsOn, Read, Star, GoesOnFrom
  <1> QED BY <1>1, <1>6, <1>10 DEF Quiet, Ready

LEMMA ImportGoesOn ==
    ASSUME NEW c, NEW d, NEW db, HomeDb(db), NEW q, NEW r, NEW e,
           Formed(q), Fine(q.method, q.status), GoesOnFrom(q, r, e), ImportsOn(c, q, d, db),
           e \in Result(Head(q.todo), c, q, db)
    PROVE  Quiet(c, r, d, e)
  <1>1. Formed(r) /\ Asked(r) = Asked(q) /\ Fine(r.method, r.status)
    BY FormedAlike, AskedAlike DEF GoesOnFrom
  <1> DEFINE Read(x) == Marked(x, {q.row.id}, "unread", q.body.unread)
             Star(x) == Marked(x, {q.row.id}, "starred", q.body.starred)
  <1>2. /\ q.method = "ImportFeedEntry" /\ q.row.id \in Own(db, "entries", q.user)
        /\ MayName(Asked(q), d)
    BY DEF ImportsOn
  <1>3. \/ q.todo = <<"SetEntriesStatus">> /\ Read(db) = Promised(c, Asked(q), d)
        \/ /\ q.todo = <<"SetEntriesStatus", "SetEntriesStarredState">>
           /\ Star(Read(db)) = Promised(c, Asked(q), d)
        \/ q.todo = <<"SetEntriesStarredState">> /\ Star(db) = Promised(c, Asked(q), d)
    BY DEF ImportsOn
  <1>4. IdsOf(q) \cap Own(db, "entries", q.user) = {q.row.id}
    BY <1>2 DEF IdsOf
  <1>5. /\ storeSetEntriesStatus(q, db) = {Read(db)}
        /\ storeSetEntriesStarredState(q, db) = {Star(db)}
    BY <1>4 DEF storeSetEntriesStatus, storeSetEntriesStarredState
  <1>6. q.row.id \in Own(Read(db), "entries", q.user)
    <2>1. /\ DOMAIN Read(db).entries = DOMAIN db.entries
          /\ Read(db).entries[q.row.id] = [db.entries[q.row.id] EXCEPT !["unread"] = q.body.unread]
      BY <1>2 DEF Marked, HomeDb, Columns, Tables, Own
    <2>2. "owner" \in DOMAIN db.entries[q.row.id] /\ db.entries[q.row.id].owner = q.user
      BY <1>2 DEF HomeDb, Columns, Own
    <2> HIDE DEF Read
    <2> QED BY <1>2, <2>1, <2>2 DEF Own
  <1> HIDE DEF Read, Star
  <1>7. CASE q.todo = <<"SetEntriesStatus">> /\ Read(db) = Promised(c, Asked(q), d)
    <2>1. e = Read(db) /\ r.phase = "answered"
      BY <1>5, <1>7 DEF Result, GoesOnFrom
    <2> QED BY <1>1, <1>2, <1>7, <2>1, RightInTheEnd
  <1>8. CASE q.todo = <<"SetEntriesStarredState">> /\ Star(db) = Promised(c, Asked(q), d)
    <2>1. e = Star(db) /\ r.phase = "answered"
      BY <1>5, <1>8 DEF Result, GoesOnFrom
    <2> QED BY <1>1, <1>2, <1>8, <2>1, RightInTheEnd
  <1>9. CASE /\ q.todo = <<"SetEntriesStatus", "SetEntriesStarredState">>
             /\ Star(Read(db)) = Promised(c, Asked(q), d)
    <2>1. Head(q.todo) = "SetEntriesStatus" /\ Tail(q.todo) = <<"SetEntriesStarredState">> /\ Tail(q.todo) # <<>>
      BY <1>9
    <2>2. e = Read(db)
      BY <1>5, <2>1 DEF Result
    <2>3. r.phase = "writing" /\ r.todo = <<"SetEntriesStarredState">> /\ r.row = q.row
      BY <2>1 DEF GoesOnFrom
    <2>4. /\ r.method = "ImportFeedEntry" /\ r.row.id \in Own(e, "entries", r.user)
          /\ MayName(Asked(r), d)
      BY <1>1, <1>2, <1>6, <2>2, <2>3 DEF GoesOnFrom
    <2>5. Star(e) = Promised(c, Asked(r), d)
      BY <1>1, <1>9, <2>2
    <2>6. ImportsOn(c, r, d, e)
      BY <2>3, <2>4, <2>5 DEF ImportsOn, Star, GoesOnFrom
    <2> QED BY <1>1, <2>3, <2>6 DEF Quiet, Ready
  <1> QED BY <1>3, <1>7, <1>8, <1>9

LEMMA FailuresInOrder ==
    ASSUME ApiIInv, OrderInv, NEW c \in Callers, apiCall[c].phase = "writing",
           LET q == apiCall[c]
               statement == Head(q.todo)
           IN /\ statement \in {"Fetch", "Scrape"} \/ Result(statement, c, q, apiDb) = {}
              /\ Reply(c, Failure(statement, q))
    PROVE  OrderInv'
  <1> DEFINE q == apiCall[c]
             statement == Head(q.todo)
  <1>1. Failure(statement, q) \in Errors
    BY DEF Failure, Errors
  <1>2. ASSUME NEW d \in q.before
        PROVE  apiDb = d
    <2>1. Ready(c, q, d, apiDb)
      BY DEF OrderInv, InOrder, Quiet
    <2>2. ASSUME ImportsOn(c, q, d, apiDb)
          PROVE  FALSE
      <3>1. q.todo \in {<<"SetEntriesStatus">>, <<"SetEntriesStatus", "SetEntriesStarredState">>,
                        <<"SetEntriesStarredState">>}
        BY <2>2 DEF ImportsOn
      <3>2. statement \in {"SetEntriesStatus", "SetEntriesStarredState"}
        BY <3>1
      <3>3. Result(statement, c, q, apiDb) # {}
        BY <3>2 DEF Result, storeSetEntriesStatus, storeSetEntriesStarredState
      <3> QED BY <3>2, <3>3
    <2> QED BY <2>1, <2>2 DEF Ready, Imports
  <1>3. Reply(c, Failure(statement, q)) /\ q.phase # "idle"
    OBVIOUS
  <1> HIDE DEF statement
  <1> QED BY <1>1, <1>2, <1>3, ErrorsInOrder

LEMMA BringsOn ==
    ASSUME NEW method, NEW body, NEW row, NEW other, NEW p \in Programs, Brings(method, body, row, p),
           Tail(p) # <<>>
    PROVE  Brings(method, body, other, Tail(p))
  <1>1. Head(Tail(p)) = "CreateFeed" \/ Head(Tail(p)) \in LaterStatements
    BY ProgramsRun
  <1>2. Tail(p) \in StarringPrograms => "starred" \in DOMAIN body
    BY StarringRuns DEF Brings
  <1> QED BY <1>1, <1>2 DEF Brings, LaterStatements

LEMMA ExecutingInOrder ==
    ASSUME ApiIInv, OrderInv, NEW c \in Callers, Execute(c)
    PROVE  OrderInv'
  <1> DEFINE q == apiCall[c]
             r == apiCall'[c]
             statement == Head(q.todo)
             rest == Tail(q.todo)
  <1>0. q.phase = "writing"
    BY DEF Execute
  <1>1. CASE /\ statement \in {"Fetch", "Scrape"} \/ Result(statement, c, q, apiDb) = {}
             /\ Reply(c, Failure(statement, q))
    BY <1>0, <1>1, FailuresInOrder
  <1>2. ASSUME NEW e \in Result(statement, c, q, apiDb),
               Store(c, e, [todo |-> rest,
                            phase |-> IF rest = <<>> THEN "answered" ELSE "writing",
                            row |-> IF rest = <<>> THEN NoChanges
                                    ELSE IF statement = "InsertEntryForFeed"
                                    THEN [id |-> CHOOSE i \in WithHash(e, q.of, q.body.hash) : TRUE]
                                    ELSE q.row])
        PROVE  OrderInv'
    <2> DEFINE next == IF statement = "InsertEntryForFeed"
                       THEN [id |-> CHOOSE i \in WithHash(e, q.of, q.body.hash) : TRUE] ELSE q.row
               changes == [todo |-> rest, phase |-> IF rest = <<>> THEN "answered" ELSE "writing",
                           row |-> IF rest = <<>> THEN NoChanges ELSE next]
    <2>1. /\ DOMAIN changes = {"todo", "phase", "row"} /\ changes.todo = rest
          /\ changes.row = IF rest = <<>> THEN NoChanges ELSE next
          /\ changes.phase = IF rest = <<>> THEN "answered" ELSE "writing"
      OBVIOUS
    <2>2. Store(c, e, changes)
      BY <1>2
    <2> HIDE DEF changes, next
    <2>3. DOMAIN changes \subseteq CallFields
      BY <2>1 DEF CallFields
    <2>4. CallsTyped /\ HomeDb(apiDb)
      BY DEF ApiIInv
    <2>5. \A f \in CallFields : r[f] = IF f \in DOMAIN changes THEN changes[f] ELSE q[f]
      BY <2>2, <2>3, <2>4, StoreIs
    <2>6. /\ r.method = q.method /\ r.of = q.of /\ r.body = q.body /\ r.user = q.user
          /\ r.status = q.status /\ r.before = q.before /\ r.todo = rest
          /\ r.phase = IF rest = <<>> THEN "answered" ELSE "writing"
          /\ rest # <<>> => r.row = next
      BY <2>1, <2>5 DEF CallFields
    <2> HIDE DEF r
    <2>7. q.todo \in Programs
      BY <1>0, <2>4 DEF CallsTyped
    <2>8. Formed(q) /\ Brings(q.method, q.body, q.row, q.todo) /\ Tidy(apiDb)
      BY <1>0 DEF OrderInv, InOrder
    <2>9. Tidy(e)
      BY <1>2, <2>4, <2>7, <2>8, StatementsAreTidy
    <2>10. GoesOnFrom(q, r, e)
      BY <2>6 DEF GoesOnFrom, next
    <2>11. statement = "InsertEntryForFeed" => NewId(c) \notin DOMAIN apiDb.entries
      BY <1>0 DEF ApiIInv, NewIdsAreFree, Makes, Creators, Tables
    <2>12. ASSUME NEW d \in q.before
           PROVE  Quiet(c, r, d, e)
      <3>1. Ready(c, q, d, apiDb)
        BY <1>0 DEF OrderInv, InOrder, Quiet
      <3>2. CASE apiDb = d /\ \E s : q.todo \in {<<s>>, <<"Fetch", s>>, <<"Scrape", s>>} /\ Does(s, c, q, q.row, d)
        <4>1. e \in Result(Head(q.todo), c, q, d)
          BY <1>2, <3>2
        <4> QED BY <2>8, <2>10, <3>1, <3>2, <4>1, OneStatementGoesOn DEF Ready
      <3>3. CASE Imports(c, q, d, apiDb)
        <4>1. apiDb = d
          BY <3>3 DEF Imports
        <4>2. statement = "InsertEntryForFeed"
          BY <3>3 DEF Imports
        <4> HIDE DEF q
        <4> QED BY <1>2, <2>4, <2>8, <2>10, <2>11, <3>1, <3>3, <4>1, <4>2, ImportBegins DEF Ready
      <3>4. CASE ImportsOn(c, q, d, apiDb)
        BY <1>2, <2>4, <2>8, <2>10, <3>1, <3>4, ImportGoesOn DEF Ready
      <3> QED BY <3>1, <3>2, <3>3, <3>4 DEF Ready
    <2>13. InOrder(c, r, e)
      <3>1. Formed(r)
        BY <2>6, <2>8, FormedAlike
      <3>2. rest # <<>> => Brings(r.method, r.body, r.row, r.todo)
        BY <2>6, <2>7, <2>8, BringsOn
      <3> QED BY <2>6, <2>12, <3>1, <3>2 DEF InOrder
    <2> QED BY <2>2, <2>3, <2>9, <2>13, StoresInOrder DEF r
  <1> QED BY <1>1, <1>2 DEF Execute

(* Goroutines: nobody is alone with the database any more.                 *)
LEMMA JobsInOrder ==
    ASSUME ApiIInv, OrderInv, RunJob
    PROVE  OrderInv'
  <1>0. Columns(apiDb) /\ Tidy(apiDb)
    BY DEF ApiIInv, HomeDb, OrderInv
  <1>1. PICK duty, graves, read :
           Store(None, IF duty[1] = "RemoveUser" THEN Removed(apiDb, "users", {duty[2]})
                       ELSE Removed([apiDb EXCEPT !.graves = graves], "entries", read), NoChanges)
    BY DEF RunJob
  <1> DEFINE g == [apiDb EXCEPT !.graves = graves]
  <1>2. DOMAIN g = DOMAIN apiDb /\ \A t \in Tables : g[t] = apiDb[t]
    BY DEF Tables
  <1> HIDE DEF g
  <1>3. Columns(g) /\ Tidy(g)
    BY <1>0, <1>2 DEF Columns, Tidy, Tables
  <1>4. "users" \in Tables /\ "entries" \in Tables
    BY DEF Tables
  <1>5. PICK d : Tidy(d) /\ Store(None, d, NoChanges)
    BY <1>0, <1>1, <1>3, <1>4, RemovedIsTidy DEF g
  <1>6. DOMAIN NoChanges = {} /\ None \notin Callers
    BY ApiAssumption DEF NoChanges
  <1>7. DOMAIN NoChanges \subseteq CallFields
    BY <1>6
  <1> QED BY <1>5, <1>6, <1>7, StoresInOrder

(* A call that nobody disturbs, from its request to what its method makes  *)
(* of the answer: the route is the one meant, the handler checks what the  *)
(* caller may name, the statements make what the method says of the        *)
(* database that they find, errors leave it as it was, and no method reads *)
(* an answer that has no body (client/client.go and internal/api, with the *)
(* validators and statements that the handlers call).                      *)
THEOREM CallsDoWhatTheySay == ApiSpec => []QuietCallsDoWhatTheySay
  <1>1. ApiInit => OrderInv
    <2> SUFFICES ASSUME ApiInit PROVE OrderInv
      OBVIOUS
    <2>1. Tidy(apiDb)
      BY ApiAssumption DEF ApiInit
    <2>2. \A c \in Callers : apiCall[c].phase = "idle"
      BY DEF ApiInit, NoCall
    <2> QED BY <2>1, <2>2 DEF OrderInv, InOrder
  <1>2. ApiIInv /\ OrderInv /\ [ApiNext]_apiVars => OrderInv'
    <2> SUFFICES ASSUME ApiIInv, OrderInv, [ApiNext]_apiVars PROVE OrderInv'
      OBVIOUS
    <2>1. ASSUME NEW c \in Callers, Calling(c) PROVE OrderInv'
      BY <2>1, BeginsInOrder, IdentifiesInOrder, LookingInOrder, HandlingInOrder, ExecutingInOrder DEF Calling
    <2>2. CASE UNCHANGED apiVars
      <3>1. apiDb' = apiDb /\ apiCall' = apiCall
        BY <2>2 DEF apiVars
      <3>2. Tidy(apiDb)' /\ \A c \in Callers : InOrder(c, apiCall[c], apiDb)'
        BY <3>1 DEF OrderInv
      <3> QED BY <3>2 DEF OrderInv
    <2> QED BY <2>1, <2>2, JobsInOrder DEF ApiNext
  <1>3. OrderInv => QuietCallsDoWhatTheySay
    BY DEF OrderInv, InOrder, Quiet, Right, QuietCallsDoWhatTheySay
  <1> QED BY <1>1, <1>2, <1>3, ApiIInvHolds, PTL DEF ApiSpec
=============================================================================
