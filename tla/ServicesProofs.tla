--------------------------- MODULE ServicesProofs ---------------------------
(***************************************************************************)
(* What services promise around the polling of feeds, for any number of    *)
(* requests, users' rows and refreshes at once: keys and names of          *)
(* accounts, icons, categories and subscriptions, shared entries, pages    *)
(* of entries, deliveries to the user's other services, enclosures and web *)
(* sessions.  Each has an inductive invariant of its own.                  *)
(***************************************************************************)
EXTENDS WebSessions, Accounts, Icons, Subscriptions, Pages, Integrations, Enclosures,
        WellFoundedInduction, SequenceTheorems, FiniteSetTheorems, FunctionTheorems, TLAPS

(* A set of numbers that has one has a least one.                          *)
LEMMA LeastNumber ==
  ASSUME NEW N \in SUBSET Nat, N # {}
  PROVE  \E m \in N : \A n \in N : m <= n
<1> DEFINE R == {p \in Nat \X Nat : p[1] < p[2]}
<1>1. IsWellFoundedOn(R, Nat)
  BY NatLessThanWellFounded DEF OpToRel
<1>2. \A m, n \in Nat : <<n, m>> \notin R => m <= n
  OBVIOUS
<1> HIDE DEF R
<1>3. \E m \in N : \A n \in N : ~(<<n, m>> \in R)
  BY <1>1, WFMin
<1> QED  BY <1>2, <1>3

(***************************************************************************)
(* Accounts.                                                               *)
(***************************************************************************)

Places == {"idle", "generate", "lookAgain", "judge", "rotate", "replace", "retry", "save"} \cup Done

(* Whatever was the key has been minted: a new one differs from it.        *)
KeysAreMinted ==
    /\ step \in [Clients -> Places] /\ before \in [Clients -> minted \cup {NoKey}]
    /\ seen \in [Clients -> Keys \cup {NoKey}]
    /\ key \in minted \cup {NoKey} /\ minted \subseteq Keys

KeysIInv == KeysAreMinted /\ RotatedKeysAreDead

(* Two requests between check and save know of each other, ...             *)
OverlapsAreKnown == \A c, d \in Clients :
    c # d /\ step[c] = "save" /\ step[d] = "save" => c \in joint /\ d \in joint

(* ... so that a name that has come up since the check is another such's.  *)
NamesAreFree == \A c \in Clients, v \in Owners :
    /\ step[c] = "save" /\ form[c].name # NoName
    /\ v # form[c].owner /\ name[v] = form[c].name
    => c \in joint /\ v \in mixed

NamesTypeOK ==
    /\ step \in [Clients -> Places]
    /\ name \in [Owners -> Names \cup {NoName}]
    /\ DOMAIN form = Clients
    /\ \A c \in Clients : step[c] = "save" => form[c] \in [owner : Owners, name : Names \cup {NoName}]

NamesIInv == NamesTypeOK /\ OverlapsAreKnown /\ NamesAreFree /\ QuietNamesAreUnique
-----------------------------------------------------------------------------
(* No step of a request revives the key that a rotation has replaced.      *)
LEMMA KeyStep ==
  ASSUME KeysIInv, [AccountNext]_accountVars
  PROVE  KeysIInv'
<1> USE AccountAssumption DEF KeysIInv, KeysAreMinted, RotatedKeysAreDead, Places, Done
<1>1. ASSUME NEW c \in Clients, StartGenerate(c) \/ StartRotate(c) \/ LookAgain(c)
      PROVE  KeysIInv'
  BY <1>1 DEF StartGenerate, StartRotate, LookAgain, ReadKey, Moves, keyVars
<1>2. ASSUME NEW c \in Clients, GenerateNothing(c) \/ Judge(c)
      PROVE  KeysIInv'
  BY <1>2 DEF GenerateNothing, Judge, Moves, keyVars
<1>3. ASSUME NEW c \in Clients, GenerateInsert(c) \/ RotateInsert(c) \/ RotateRetry(c)
      PROVE  KeysIInv'
  BY <1>3 DEF GenerateInsert, RotateInsert, RotateRetry, Inserted, CreateKey,
              CreateKeyFails, Moves, keyVars
<1>4. ASSUME NEW c \in Clients, DeleteOld(c) \/ DeleteOldFails(c) \/ NothingToDelete(c)
      PROVE  KeysIInv'
  BY <1>4 DEF DeleteOld, DeleteOldFails, NothingToDelete, Moves, keyVars
<1>5. CASE DeleteKey \/ SaveAPIKey
  BY <1>5 DEF DeleteKey, SaveAPIKey, CreateKey
<1>6. ASSUME NEW c \in Clients, CheckName(c) \/ UpdateIntegration(c) \/ Answered(c)
      PROVE  KeysIInv'
  BY <1>6 DEF CheckName, UpdateIntegration, Answered, Moves, keyVars
<1>7. CASE UNCHANGED accountVars
  BY <1>7 DEF accountVars, keyVars
<1> QED
  BY <1>1, <1>2, <1>3, <1>4, <1>5, <1>6, <1>7
  DEF AccountNext, ChangingKeys, ChangingNames, Answering, GenerateMCPToken, RotateMCPToken

(* A rotation that says it is done has replaced the key there was.         *)
THEOREM RotationKills == AccountSpec => []RotatedKeysAreDead
<1>1. AccountInit => KeysIInv
  BY AccountAssumption DEF AccountInit, KeysIInv, KeysAreMinted, RotatedKeysAreDead, Places
<1>2. KeysIInv => RotatedKeysAreDead
  BY DEF KeysIInv
<1> QED  BY <1>1, <1>2, KeyStep, PTL DEF AccountSpec
-----------------------------------------------------------------------------
(* The check, and the save, of a name.                                     *)
LEMMA NameStep ==
  ASSUME NamesIInv, [AccountNext]_accountVars
  PROVE  NamesIInv'
<1> USE DEF NamesIInv, Places, Done
<1>1. ASSUME NEW c \in Clients, CheckName(c)
      PROVE  NamesIInv'
  <2> PICK u \in Owners, n \in Names \cup {NoName} :
         /\ n = NoName \/ \A v \in Owners \ {u} : name[v] # n
         /\ form' = [form EXCEPT ![c] = [owner |-> u, name |-> n]]
    BY <1>1 DEF CheckName
  <2>1. step[c] = "idle" /\ step' = [step EXCEPT ![c] = "save"] /\ UNCHANGED <<name, mixed>>
    BY <1>1 DEF CheckName, Moves
  <2> DEFINE others == {d \in Clients \ {c} : step[d] = "save"}
  <2>2. joint' = IF others = {} THEN joint \ {c} ELSE joint \cup others \cup {c}
    BY <1>1 DEF CheckName
  <2>3. NamesTypeOK'
    BY <2>1 DEF NamesTypeOK
  <2>4. OverlapsAreKnown'
    BY <2>1, <2>2 DEF OverlapsAreKnown, NamesTypeOK
  <2>5. \A d \in Clients \ {c} : step'[d] = "save" => d \in joint'
    BY <2>1, <2>2 DEF NamesTypeOK
  <2>6. NamesAreFree'
    BY <2>1, <2>5 DEF NamesAreFree, NamesTypeOK
  <2>7. QuietNamesAreUnique'
    BY <2>1 DEF QuietNamesAreUnique
  <2> QED  BY <2>3, <2>4, <2>6, <2>7
<1>2. ASSUME NEW c \in Clients, UpdateIntegration(c)
      PROVE  NamesIInv'
  <2> DEFINE u == form[c].owner
             n == form[c].name
  <2>1. /\ step[c] = "save" /\ step' = [step EXCEPT ![c] = "saved"]
        /\ name' = [name EXCEPT ![u] = n]
        /\ mixed' = IF c \in joint THEN mixed \cup {u} ELSE mixed \ {u}
        /\ form' = [form EXCEPT ![c] = NoForm] /\ joint' = joint
    BY <1>2 DEF UpdateIntegration, Moves
  <2>2. u \in Owners /\ n \in Names \cup {NoName}
    BY <2>1 DEF NamesTypeOK
  <2>3. \A v \in Owners \ {u} : name'[v] = name[v] /\ (v \in mixed' <=> v \in mixed)
    BY <2>1, <2>2 DEF NamesTypeOK
  <2>4. name'[u] = n
    BY <2>1, <2>2 DEF NamesTypeOK
  <2>5. \A v \in Owners \ {u} : n # NoName /\ name[v] = n => c \in joint /\ v \in mixed
    BY <2>1, <2>2 DEF NamesAreFree
  <2>6. NamesTypeOK'
    BY <2>1, <2>2 DEF NamesTypeOK
  <2>7. OverlapsAreKnown'
    BY <2>1 DEF OverlapsAreKnown, NamesTypeOK
  <2>8. \A d \in Clients : step'[d] = "save" =>
           d # c /\ step[d] = "save" /\ form'[d] = form[d] /\ c \in joint /\ d \in joint
    BY <2>1 DEF OverlapsAreKnown, NamesTypeOK
  <2>9. NamesAreFree'
    <3> SUFFICES ASSUME NEW d \in Clients, NEW v \in Owners, step'[d] = "save",
                        form[d].name # NoName, v # form[d].owner, name'[v] = form[d].name
                 PROVE  d \in joint' /\ v \in mixed'
      BY <2>8 DEF NamesAreFree
    <3>1. CASE v = u
      BY <3>1, <2>1, <2>8
    <3>2. CASE v # u
      BY <3>2, <2>1, <2>3, <2>8 DEF NamesAreFree
    <3> QED  BY <3>1, <3>2
  <2>10. QuietNamesAreUnique'
    BY <2>1, <2>3, <2>4, <2>5 DEF QuietNamesAreUnique
  <2> QED  BY <2>6, <2>7, <2>9, <2>10
<1>3. ASSUME UNCHANGED <<nameVars, form>>, step' \in [Clients -> Places],
             \A d \in Clients : step'[d] = "save" => step[d] = "save"
      PROVE  NamesIInv'
  BY <1>3 DEF NamesTypeOK, OverlapsAreKnown, NamesAreFree, QuietNamesAreUnique, nameVars
<1>4. ASSUME NEW c \in Clients, GenerateMCPToken(c) \/ RotateMCPToken(c) \/ Answered(c)
      PROVE  NamesIInv'
  <2>1. UNCHANGED <<nameVars, form>> /\ \E to \in Places \ {"save"} : step' = [step EXCEPT ![c] = to]
    BY <1>4 DEF GenerateMCPToken, RotateMCPToken, StartGenerate, GenerateNothing,
                GenerateInsert, LookAgain, Judge, StartRotate, DeleteOld, DeleteOldFails,
                NothingToDelete, RotateInsert, RotateRetry, Inserted, ReadKey, Moves, Answered
  <2> QED  BY <2>1, <1>3 DEF NamesTypeOK
<1>5. CASE DeleteKey \/ SaveAPIKey \/ UNCHANGED accountVars
  BY <1>5, <1>3 DEF DeleteKey, SaveAPIKey, accountVars, NamesTypeOK
<1> QED
  BY <1>1, <1>2, <1>4, <1>5 DEF AccountNext, ChangingKeys, ChangingNames, Answering

(* Names differ unless saves overlapped.                                   *)
THEOREM NamesStayUnique == AccountSpec => []QuietNamesAreUnique
<1>1. AccountInit => NamesIInv
  BY DEF AccountInit, NoForm, NamesIInv, Places, NamesTypeOK, OverlapsAreKnown, NamesAreFree,
         QuietNamesAreUnique
<1>2. NamesIInv => QuietNamesAreUnique
  BY DEF NamesIInv
<1> QED  BY <1>1, <1>2, NameStep, PTL DEF AccountSpec
-----------------------------------------------------------------------------
(***************************************************************************)
(* Icons.                                                                  *)
(***************************************************************************)

(* Where a transaction is, and what it knows by then.                      *)
TxPlaces == {"idle", "missing", "chosen", "unlinked", "linked"}
Pairs == IconFeeds \X IconIds
TxOK(t) ==
    /\ t.at \in TxPlaces /\ t.own \in BOOLEAN /\ t.cut \subseteq Pairs
    /\ t.at # "idle" => t.feed \in IconFeeds /\ t.hash \in Hashes
    /\ t.at \in {"chosen", "unlinked", "linked"} => t.icon \in IconIds

TxFields == {"at", "feed", "hash", "icon", "own", "cut"}
IconsTyped ==
    /\ feeds \subseteq IconFeeds /\ links \subseteq Pairs
    /\ icons \subseteq [id : IconIds, hash : Hashes]
    /\ has \in [IconFeeds -> IconIds \cup {NoIcon}]
    /\ tx = [w \in IconWorkers |-> [field \in TxFields |-> tx[w][field]]]
    /\ \A w \in IconWorkers : TxOK(tx[w])

(* Two transactions for one feed know of each other.                       *)
RivalsKnow == \A w, v \in IconWorkers :
    w # v /\ InTx(w) /\ InTx(v) /\ tx[w].feed = tx[v].feed => w \in overlap

(* Who is alone has taken every icon off the feed, and off no other.       *)
CutsAll == \A w \in IconWorkers : tx[w].at \in {"unlinked", "linked"} =>
    /\ \A l \in tx[w].cut : l[1] = tx[w].feed
    /\ w \notin overlap => \A l \in links : l[1] = tx[w].feed => l \in tx[w].cut

(* An icon in use is not among those that the clean-up deletes, ...        *)
OrphansAreUnused == \A f \in feeds \ raced : has[f] \notin orphans

(* ... and is the one that the feed was given.                             *)
LinksAreGiven == \A f \in feeds \ raced : \A i \in IconIds : <<f, i>> \in links <=> i = has[f]

IconIInv == IconsTyped /\ RivalsKnow /\ CutsAll /\ OrphansAreUnused /\ LinksAreGiven

(* The invariant says what the property says.                              *)
LEMMA GivenIsQuiet == IconIInv => QuietFeedsHaveTheirIcon
<1> SUFFICES ASSUME IconIInv, NEW f \in feeds \ raced
             PROVE  IconsOf(f) = {has[f]} \ {NoIcon}
  BY DEF QuietFeedsHaveTheirIcon
<1>1. \A i : i \in IconsOf(f) <=> i \in IconIds /\ <<f, i>> \in links
  <2>1. \A l \in links : l[1] \in IconFeeds /\ l[2] \in IconIds /\ l = <<l[1], l[2]>>
    BY DEF IconIInv, IconsTyped, Pairs
  <2> QED  BY <2>1 DEF IconsOf
<1>2. has[f] \in IconIds \cup {NoIcon}
  BY DEF IconIInv, IconsTyped
<1> QED  BY <1>1, <1>2, IconAssumption DEF IconIInv, LinksAreGiven

(* A transaction moves on, and changes nothing that others see.            *)
LEMMA TxStep ==
  ASSUME IconIInv, NEW w \in IconWorkers, NEW t,
         tx' = [tx EXCEPT ![w] = t], t = [field \in TxFields |-> t[field]], TxOK(t),
         UNCHANGED <<feeds, icons, links, orphans, has, raced>>, overlap \subseteq overlap',
         t.at # "idle" => \A v \in IconWorkers \ {w} :
             InTx(v) /\ tx[v].feed = t.feed => {w, v} \subseteq overlap',
         t.at \in {"unlinked", "linked"} =>
             /\ \A l \in t.cut : l[1] = t.feed
             /\ w \notin overlap => \A l \in links : l[1] = t.feed => l \in t.cut
  PROVE  IconIInv'
<1>1. tx'[w] = t /\ \A v \in IconWorkers \ {w} : tx'[v] = tx[v]
  BY DEF IconIInv, IconsTyped
<1>2. IconsTyped'
  BY <1>1 DEF IconIInv, IconsTyped
<1>3. RivalsKnow'
  BY <1>1 DEF IconIInv, RivalsKnow, InTx
<1>4. CutsAll'
  BY <1>1 DEF IconIInv, CutsAll
<1> QED  BY <1>2, <1>3, <1>4 DEF IconIInv, OrphansAreUnused, LinksAreGiven

(* A worker begins for a feed.                                             *)
LEMMA FindIconStep ==
  ASSUME IconIInv, NEW w \in IconWorkers, FindIcon(w)
  PROVE  IconIInv'
<1> PICK f \in feeds, h \in Hashes :
      LET found == {c \in icons : c.hash = h}
          rivals == {v \in Others(w) : InTx(v) /\ tx[v].feed = f}
      IN /\ tx' = [tx EXCEPT ![w] =
                    [NoTx EXCEPT !.feed = f, !.hash = h,
                      !.at = IF found = {} THEN "missing" ELSE "chosen",
                      !.icon = IF found = {} THEN NoIcon ELSE (CHOOSE c \in found : TRUE).id]]
         /\ overlap' = IF rivals = {} THEN overlap \ {w} ELSE overlap \cup rivals \cup {w}
  BY DEF FindIcon
<1> DEFINE found == {c \in icons : c.hash = h}
           rivals == {v \in Others(w) : InTx(v) /\ tx[v].feed = f}
           t == [NoTx EXCEPT !.feed = f, !.hash = h,
                  !.at = IF found = {} THEN "missing" ELSE "chosen",
                  !.icon = IF found = {} THEN NoIcon ELSE (CHOOSE c \in found : TRUE).id]
<1>1. /\ tx' = [tx EXCEPT ![w] = t]
      /\ overlap' = IF rivals = {} THEN overlap \ {w} ELSE overlap \cup rivals \cup {w}
      /\ UNCHANGED <<feeds, icons, links, orphans, has, raced>>
  BY DEF FindIcon
<1>2. /\ t.feed = f /\ t.hash = h /\ t.own = FALSE /\ t.cut = {}
      /\ t.at \in {"missing", "chosen"} /\ (t.at = "chosen" => t.icon \in IconIds)
      /\ t = [field \in TxFields |-> t[field]]
  BY DEF NoTx, IconIInv, IconsTyped, TxFields
<1> HIDE DEF t
<1>3. tx'[w] = t /\ \A v \in IconWorkers \ {w} : tx'[v] = tx[v]
  BY <1>1 DEF IconIInv, IconsTyped
<1>4. IconsTyped'
  <2>1. TxOK(t) /\ f \in IconFeeds
    BY <1>2 DEF IconIInv, IconsTyped, TxOK, TxPlaces
  <2>2. \A v \in IconWorkers : TxOK(tx'[v])
    BY <2>1, <1>3 DEF IconIInv, IconsTyped
  <2>3. tx' = [v \in IconWorkers |-> tx'[v]]
    BY <1>1 DEF IconIInv, IconsTyped
  <2>4. \A v \in IconWorkers : tx'[v] = [field \in TxFields |-> tx'[v][field]]
    <3>1. \A v \in IconWorkers : tx[v] = [field \in TxFields |-> tx[v][field]]
      BY DEF IconIInv, IconsTyped
    <3> QED  BY <3>1, <1>2, <1>3
  <2>5. tx' = [v \in IconWorkers |-> [field \in TxFields |-> tx'[v][field]]]
    BY <2>3, <2>4
  <2> QED  BY <2>2, <2>5, <1>1 DEF IconIInv, IconsTyped
<1>5. RivalsKnow'
  BY <1>1, <1>2, <1>3 DEF IconIInv, RivalsKnow, InTx, Others
<1>6. CutsAll'
  BY <1>1, <1>2, <1>3 DEF IconIInv, CutsAll, InTx, Others
<1> QED  BY <1>1, <1>4, <1>5, <1>6 DEF IconIInv, OrphansAreUnused, LinksAreGiven

(* The statements up to the commit.                                        *)
LEMMA StatementStep ==
  ASSUME IconIInv, NEW w \in IconWorkers,
         CreateIcon(w) \/ CreateIconFails(w) \/ UnlinkFeed(w) \/ LinkIcon(w)
            \/ LinkIconFails(w) \/ IconTxFails(w)
  PROVE  IconIInv'
<1> USE DEF IconIInv, IconsTyped, At, iconPast
<1>1. TxOK(tx[w]) /\ tx[w] = [field \in TxFields |-> tx[w][field]]
  OBVIOUS
<1>2. ASSUME NEW v \in IconWorkers \ {w}, InTx(w), InTx(v), tx[v].feed = tx[w].feed
      PROVE  {w, v} \subseteq overlap
  BY <1>2 DEF RivalsKnow
<1>3. CASE CreateIcon(w)
  <2> PICK i \in IconIds \ born :
         tx' = [tx EXCEPT ![w].icon = i, ![w].own = TRUE, ![w].at = "chosen"]
    BY <1>3 DEF CreateIcon
  <2> DEFINE t == [tx[w] EXCEPT !.icon = i, !.own = TRUE, !.at = "chosen"]
  <2>1. tx' = [tx EXCEPT ![w] = t] /\ t = [field \in TxFields |-> t[field]] /\ TxOK(t)
        /\ t.at = "chosen" /\ t.feed = tx[w].feed
    BY <1>1, <1>3 DEF CreateIcon, TxOK, TxPlaces, TxFields
  <2> HIDE DEF t
  <2>2. InTx(w) /\ UNCHANGED <<feeds, icons, links, orphans, has, raced, overlap>>
    BY <1>3 DEF CreateIcon, InTx
  <2> HIDE DEF IconIInv, IconsTyped
  <2> QED  BY <2>1, <2>2, <1>2, TxStep
<1>4. CASE CreateIconFails(w) \/ LinkIconFails(w) \/ IconTxFails(w)
  <2>1. NoTx = [field \in TxFields |-> NoTx[field]] /\ TxOK(NoTx) /\ NoTx.at = "idle"
    BY DEF NoTx, TxFields, TxOK, TxPlaces
  <2> QED  BY <2>1, <1>4, TxStep DEF CreateIconFails, LinkIconFails, IconTxFails, Rollback
<1>5. CASE UnlinkFeed(w)
  <2> DEFINE t == [tx[w] EXCEPT !.at = "unlinked", !.cut = LinksToCut(w)]
  <2>1. tx' = [tx EXCEPT ![w] = t]
    BY <1>5 DEF UnlinkFeed
  <2>2. /\ t = [field \in TxFields |-> t[field]] /\ TxOK(t) /\ t.at = "unlinked"
        /\ t.feed = tx[w].feed /\ t.cut = LinksToCut(w)
    BY <1>1, <1>5 DEF UnlinkFeed, TxOK, TxPlaces, TxFields, LinksToCut
  <2> HIDE DEF t
  <2>3. InTx(w) /\ UNCHANGED <<feeds, icons, links, orphans, has, raced, overlap>>
    BY <1>5 DEF UnlinkFeed, InTx
  <2>4. /\ \A l \in t.cut : l[1] = t.feed
        /\ \A l \in links : l[1] = t.feed => l \in t.cut
    BY <2>2 DEF LinksToCut
  <2> QED  BY <2>1, <2>2, <2>3, <2>4, <1>2, TxStep
<1>6. CASE LinkIcon(w)
  <2> DEFINE t == [tx[w] EXCEPT !.at = "linked"]
  <2>1. tx' = [tx EXCEPT ![w] = t]
    BY <1>6 DEF LinkIcon, Goto
  <2>2. /\ t = [field \in TxFields |-> t[field]] /\ TxOK(t) /\ t.at = "linked"
        /\ t.feed = tx[w].feed /\ t.cut = tx[w].cut
    BY <1>1, <1>6 DEF LinkIcon, TxOK, TxPlaces, TxFields
  <2> HIDE DEF t
  <2> QED  BY <2>1, <2>2, <1>2, <1>6, TxStep DEF LinkIcon, InTx, CutsAll
<1> QED  BY <1>3, <1>4, <1>5, <1>6

(* The commit.                                                             *)
LEMMA CommitStep ==
  ASSUME IconIInv, NEW w \in IconWorkers, CommitIcon(w)
  PROVE  IconIInv'
<1> DEFINE f == tx[w].feed
           i == tx[w].icon
<1>1. /\ tx[w].at = "linked"
      /\ links' = (links \ tx[w].cut) \cup {<<f, i>>}
      /\ icons' = IF tx[w].own THEN icons \cup {Icon(i, tx[w].hash)} ELSE icons
      /\ tx' = [tx EXCEPT ![w] = NoTx]
      /\ has' = [has EXCEPT ![f] = i]
      /\ raced' = IF w \in overlap \/ i \in orphans THEN raced \cup {f} ELSE raced \ {f}
      /\ UNCHANGED <<feeds, orphans, overlap>>
  BY DEF CommitIcon, At
<1>2. f \in IconFeeds /\ i \in IconIds /\ tx[w].hash \in Hashes
  BY <1>1 DEF IconIInv, IconsTyped, TxOK
<1>3. /\ \A l \in tx[w].cut : l[1] = f
      /\ w \notin overlap => \A l \in links : l[1] = f => l \in tx[w].cut
  BY <1>1 DEF IconIInv, CutsAll
<1>4. tx'[w] = NoTx /\ \A v \in IconWorkers \ {w} : tx'[v] = tx[v]
  BY <1>1 DEF IconIInv, IconsTyped
<1>5. IconsTyped'
  <2>1. NoTx = [field \in TxFields |-> NoTx[field]] /\ TxOK(NoTx)
    BY DEF NoTx, TxFields, TxOK, TxPlaces
  <2>2. tx' = [v \in IconWorkers |-> [field \in TxFields |-> tx'[v][field]]]
        /\ \A v \in IconWorkers : TxOK(tx'[v])
    BY <2>1, <1>1, <1>4 DEF IconIInv, IconsTyped
  <2>3. icons' \subseteq [id : IconIds, hash : Hashes] /\ links' \subseteq Pairs
    BY <1>1, <1>2 DEF IconIInv, IconsTyped, Icon, Pairs
  <2>4. has' \in [IconFeeds -> IconIds \cup {NoIcon}] /\ feeds' \subseteq IconFeeds
    BY <1>1, <1>2 DEF IconIInv, IconsTyped
  <2> QED  BY <2>2, <2>3, <2>4 DEF IconsTyped
<1>6. RivalsKnow'
  BY <1>1, <1>4 DEF IconIInv, RivalsKnow, InTx, NoTx
<1>7. CutsAll'
  <2>1. NoTx.at = "idle"
    BY DEF NoTx
  <2> SUFFICES ASSUME NEW v \in IconWorkers, tx'[v].at \in {"unlinked", "linked"},
                      v \notin overlap', NEW l \in links', l[1] = tx'[v].feed
               PROVE  l \in tx'[v].cut
    BY <1>4, <2>1 DEF IconIInv, CutsAll
  <2>2. v # w /\ tx'[v] = tx[v]
    BY <1>4, <2>1
  <2>3. tx[v].feed # f
    BY <1>1, <2>2 DEF IconIInv, RivalsKnow, InTx
  <2>4. l \in links
    BY <1>1, <2>2, <2>3
  <2> QED  BY <1>1, <2>2, <2>4 DEF IconIInv, CutsAll
<1>8. OrphansAreUnused' /\ LinksAreGiven'
  <2> SUFFICES ASSUME NEW g \in feeds' \ raced'
               PROVE  /\ has'[g] \notin orphans'
                      /\ \A j \in IconIds : <<g, j>> \in links' <=> j = has'[g]
    BY DEF OrphansAreUnused, LinksAreGiven
  <2>1. CASE g = f
    BY <2>1, <1>1, <1>2, <1>3 DEF IconIInv, IconsTyped
  <2>2. CASE g # f
    <3>1. g \in feeds \ raced /\ has'[g] = has[g]
      BY <2>2, <1>1, <1>2 DEF IconIInv, IconsTyped
    <3>2. \A j \in IconIds : <<g, j>> \in links' <=> <<g, j>> \in links
      BY <2>2, <1>1, <1>3
    <3> QED  BY <3>1, <3>2, <1>1 DEF IconIInv, OrphansAreUnused, LinksAreGiven
  <2> QED  BY <2>1, <2>2
<1> QED  BY <1>5, <1>6, <1>7, <1>8 DEF IconIInv

(* The clean-up, which deletes what had no feed when it looked.            *)
LEMMA IconCleanupStep ==
  ASSUME IconIInv, StartCleanup \/ CleanupOrphanIcons \/ RemoveFeedIcons
  PROVE  IconIInv'
<1> USE DEF IconIInv, IconsTyped, iconPast
<1>1. CASE StartCleanup
  <2>1. \A f \in feeds \ raced : has[f] \notin orphans'
    <3> SUFFICES ASSUME NEW f \in feeds \ raced, has[f] \in orphans'
                 PROVE  FALSE
      OBVIOUS
    <3>1. orphans' = {c.id : c \in {k \in icons : \A l \in links : l[2] # k.id}}
      BY <1>1 DEF StartCleanup
    <3>2. has[f] \in IconIds /\ \A l \in links : l[2] # has[f]
      BY <3>1
    <3>3. <<f, has[f]>> \in links
      BY <3>2 DEF LinksAreGiven
    <3> QED  BY <3>2, <3>3
  <2> QED  BY <2>1, <1>1 DEF StartCleanup, RivalsKnow, CutsAll, OrphansAreUnused, LinksAreGiven, InTx
<1>2. CASE CleanupOrphanIcons
  <2>1. /\ orphans' = {} /\ icons' \subseteq icons
        /\ links' = {l \in links : l[2] \notin orphans}
        /\ UNCHANGED <<feeds, tx, has, overlap, raced>>
    BY <1>2 DEF CleanupOrphanIcons
  <2>2. LinksAreGiven'
    BY <2>1 DEF LinksAreGiven, OrphansAreUnused
  <2> QED  BY <2>1, <2>2 DEF RivalsKnow, CutsAll, OrphansAreUnused, InTx
<1>3. CASE RemoveFeedIcons
  <2> PICK g \in feeds : feeds' = feeds \ {g} /\ links' = {l \in links : l[1] # g}
    BY <1>3 DEF RemoveFeedIcons
  <2>1. UNCHANGED <<icons, tx, orphans, has, overlap, raced>>
    BY <1>3 DEF RemoveFeedIcons
  <2>2. LinksAreGiven'
    BY <2>1 DEF LinksAreGiven
  <2> QED  BY <2>1, <2>2 DEF RivalsKnow, CutsAll, OrphansAreUnused, InTx
<1> QED  BY <1>1, <1>2, <1>3

(* A feed has the icon it was last given: a transaction that was alone for *)
(* its feed has taken off every other one, and the clean-up's list has no  *)
(* icon that was in use when it was made (StoreFeedIcon,                   *)
(* CleanupOrphanIcons).                                                    *)
THEOREM FeedsKeepTheirIcon == IconSpec => []QuietFeedsHaveTheirIcon
<1>1. IconInit => IconIInv
  <2> SUFFICES ASSUME IconInit PROVE IconIInv
    OBVIOUS
  <2>1. NoTx = [field \in TxFields |-> NoTx[field]] /\ TxOK(NoTx) /\ NoTx.at = "idle"
    BY DEF NoTx, TxFields, TxOK, TxPlaces
  <2>2. \A w \in IconWorkers : tx[w] = NoTx
    BY DEF IconInit
  <2>3. tx = [w \in IconWorkers |-> [field \in TxFields |-> tx[w][field]]]
    BY <2>1, <2>2 DEF IconInit
  <2> QED
    BY <2>1, <2>2, <2>3, IconAssumption DEF IconInit, IconIInv, IconsTyped, RivalsKnow, CutsAll,
       OrphansAreUnused, LinksAreGiven, InTx
<1>2. IconIInv /\ [IconNext]_iconVars => IconIInv'
  <2> SUFFICES ASSUME IconIInv, [IconNext]_iconVars PROVE IconIInv'
    OBVIOUS
  <2>1. CASE UNCHANGED iconVars
    BY <2>1 DEF iconVars, IconIInv, IconsTyped, RivalsKnow, CutsAll, OrphansAreUnused,
       LinksAreGiven, InTx
  <2> QED
    BY <2>1, FindIconStep, StatementStep, CommitStep, IconCleanupStep DEF IconNext, StoreFeedIcon
<1> QED  BY <1>1, <1>2, GivenIsQuiet, PTL DEF IconSpec
-----------------------------------------------------------------------------
(***************************************************************************)
(* Categories and subscriptions.                                           *)
(***************************************************************************)

RemovalType == [at : {"idle", "counted", "moved"}, titles : SUBSET Titles, moved : SUBSET Urls,
                target : LabelIds \cup {NoLabel}, joined : BOOLEAN]

(* A feed refers to a category that there is.                              *)
SubsTyped ==
    /\ title \in [LabelIds -> 0..MaxTitle]
    /\ coined \subseteq LabelIds /\ Labels \subseteq coined
    /\ filed \in [Urls -> Labels \cup {NoLabel}]
    /\ removal \in [Removers -> RemovalType]

(* What feeds are being moved to remains until they are there.             *)
TargetsStay == \A r \in Removers : removal[r].moved # {} =>
    /\ removal[r].at = "moved" /\ removal[r].target \in LabelIds
    /\ title[removal[r].target] \in Titles \ removal[r].titles

(* A feed with a label on its way out is moved, or came after the move.    *)
LateOnesSlip == \A r \in Removers : removal[r].at = "moved" =>
    \A f \in Urls : filed[f] \in Titled(removal[r].titles) =>
        f \in removal[r].moved \/ f \in slipped

(* Two removals know of each other; one on its own finds what it counted.  *)
RemovalsMeet == \A r, q \in Removers :
    r # q /\ removal[r].at # "idle" /\ removal[q].at # "idle" => removal[r].joined
OneStays == \A r \in Removers : removal[r].at # "idle" /\ ~removal[r].joined =>
    \E i \in Labels : title[i] \notin removal[r].titles

SubsIInv ==
    SubsTyped /\ TargetsStay /\ LateOnesSlip /\ RemovalsMeet /\ OneStays /\ QuietRemovalsKeepFeeds

(* Who is no longer alone is otherwise where it was.                       *)
LEMMA JoinedIs ==
  ASSUME SubsIInv
  PROVE  /\ Joined \in [Removers -> RemovalType]
         /\ \A r \in Removers :
               /\ Joined[r].at = removal[r].at /\ Joined[r].titles = removal[r].titles
               /\ Joined[r].moved = removal[r].moved /\ Joined[r].target = removal[r].target
               /\ Joined[r].joined = (removal[r].joined \/ removal[r].at # "idle")
<1>1. \A r \in Removers : removal[r] \in RemovalType
  BY DEF SubsIInv, SubsTyped
<1>2. \A r \in Removers : [removal[r] EXCEPT !.joined = TRUE] \in RemovalType
  BY <1>1 DEF RemovalType
<1>3. Joined \in [Removers -> RemovalType]
  BY <1>1, <1>2 DEF Joined
<1> QED  BY <1>1, <1>3 DEF Joined, RemovalType

LEMMA CreateCategoryStep ==
  ASSUME SubsIInv, NEW i, NEW t \in Titles, CreateCategory(i, t),
         UNCHANGED <<filed, removal, subPast>>
  PROVE  SubsIInv'
<1>1. /\ i \in LabelIds \ coined /\ title' = [title EXCEPT ![i] = t]
      /\ coined' = coined \cup {i} /\ t # 0 /\ t \in 0..MaxTitle
      /\ UNCHANGED <<slipped, erased, bare>>
  BY SubscriptionAssumption DEF CreateCategory, Titles, subPast
<1>2. title[i] = 0 /\ i \notin Labels /\ Labels' = Labels \cup {i}
  BY <1>1 DEF SubsIInv, SubsTyped, Labels
<1>3. \A j \in Labels : title'[j] = title[j]
  BY <1>1, <1>2 DEF SubsIInv, SubsTyped, Labels
<1>4. SubsTyped'
  BY <1>1, <1>2 DEF SubsIInv, SubsTyped
<1>5. TargetsStay'
  BY <1>3, SubscriptionAssumption DEF SubsIInv, TargetsStay, Labels, Titles
<1>6. LateOnesSlip'
  BY <1>1, <1>2, <1>3, SubscriptionAssumption DEF SubsIInv, SubsTyped, LateOnesSlip, Titled
<1> QED
  BY <1>1, <1>2, <1>3, <1>4, <1>5, <1>6
  DEF SubsIInv, RemovalsMeet, OneStays, QuietRemovalsKeepFeeds

LEMMA UpdateCategoryStep ==
  ASSUME SubsIInv, UpdateCategory
  PROVE  SubsIInv'
<1> PICK i \in Labels, t \in Titles :
      /\ ~IsTarget(i) /\ title' = [title EXCEPT ![i] = t]
      /\ slipped' = IF \E r \in Removers : removal[r].at = "moved" /\ t \in removal[r].titles
                    THEN slipped \cup In({i}) ELSE slipped
  BY DEF UpdateCategory
<1>1. removal' = Joined /\ UNCHANGED <<coined, filed, erased, bare>>
  BY DEF UpdateCategory
<1>2. i \in LabelIds /\ t \in 0..MaxTitle /\ t # 0 /\ Labels' = Labels
  BY SubscriptionAssumption DEF Labels, Titles, SubsIInv, SubsTyped
<1>3. \A r \in Removers :
         /\ removal'[r].at = removal[r].at /\ removal'[r].titles = removal[r].titles
         /\ removal'[r].moved = removal[r].moved /\ removal'[r].target = removal[r].target
         /\ removal'[r].joined = (removal[r].joined \/ removal[r].at # "idle")
  BY <1>1, JoinedIs
<1>4. SubsTyped'
  BY <1>1, <1>2, JoinedIs DEF SubsIInv, SubsTyped
<1>5. TargetsStay'
  BY <1>2, <1>3 DEF SubsIInv, SubsTyped, TargetsStay, IsTarget
<1>6. LateOnesSlip'
  BY <1>1, <1>2, <1>3 DEF SubsIInv, SubsTyped, LateOnesSlip, Titled, In
<1> QED
  BY <1>1, <1>3, <1>4, <1>5, <1>6 DEF SubsIInv, RemovalsMeet, OneStays, QuietRemovalsKeepFeeds

(* Feeds are deleted, and the categories in G with them.                   *)
LEMMA UnfileStep ==
  ASSUME SubsIInv, NEW G \in SUBSET LabelIds, NEW S, Unfile(S), In(G) \subseteq S,
         title' = [i \in LabelIds |-> IF i \in G THEN 0 ELSE title[i]],
         \A i \in G : ~IsTarget(i), G # {} => removal' = Joined, G = {} => UNCHANGED removal,
         UNCHANGED <<coined, subPast>>
  PROVE  SubsIInv'
<1>1. /\ filed' = [f \in Urls |-> IF f \in S THEN NoLabel ELSE filed[f]]
      /\ UNCHANGED <<coined, slipped, erased, bare>>
  BY DEF Unfile, subPast
<1>2. Labels' = Labels \ G
  BY DEF Labels, SubsIInv, SubsTyped
<1>3. \A r \in Removers :
         /\ removal'[r].at = removal[r].at /\ removal'[r].titles = removal[r].titles
         /\ removal'[r].moved = removal[r].moved /\ removal'[r].target = removal[r].target
         /\ removal[r].joined => removal'[r].joined
         /\ G # {} /\ removal[r].at # "idle" => removal'[r].joined
  BY JoinedIs
<1>4. SubsTyped'
  <2>1. removal' \in [Removers -> RemovalType]
    BY JoinedIs DEF SubsIInv, SubsTyped
  <2>2. title' \in [LabelIds -> 0..MaxTitle]
    BY SubscriptionAssumption DEF SubsIInv, SubsTyped
  <2>3. filed' \in [Urls -> Labels' \cup {NoLabel}]
    BY <1>1, <1>2 DEF SubsIInv, SubsTyped, In
  <2> QED  BY <1>1, <1>2, <2>1, <2>2, <2>3 DEF SubsIInv, SubsTyped
<1>5. TargetsStay'
  BY <1>3 DEF SubsIInv, SubsTyped, TargetsStay, IsTarget
<1>6. LateOnesSlip'
  BY <1>1, <1>2, <1>3, SubscriptionAssumption DEF SubsIInv, SubsTyped, LateOnesSlip, Titled, Labels
<1>7. OneStays'
  BY <1>2, <1>3 DEF SubsIInv, OneStays, Labels
<1> QED
  BY <1>1, <1>3, <1>4, <1>5, <1>6, <1>7 DEF SubsIInv, RemovalsMeet, QuietRemovalsKeepFeeds

LEMMA RemoveStep ==
  ASSUME SubsIInv, RemoveCategory \/ RemoveFeed \/ RemoveUser
  PROVE  SubsIInv'
<1>1. CASE RemoveCategory
  <2> PICK i \in Labels : /\ ~IsTarget(i) /\ title' = [title EXCEPT ![i] = 0]
                          /\ Unfile(In({i}))
    BY <1>1 DEF RemoveCategory
  <2>1. {i} \in SUBSET LabelIds /\ {i} # {}
    BY DEF Labels
  <2>2. title' = [j \in LabelIds |-> IF j \in {i} THEN 0 ELSE title[j]]
    BY DEF SubsIInv, SubsTyped
  <2> QED  BY <1>1, <2>1, <2>2, UnfileStep DEF RemoveCategory
<1>2. CASE RemoveFeed
  <2> PICK f \in In(Labels) : Unfile({f})
    BY <1>2 DEF RemoveFeed
  <2>1. title' = [j \in LabelIds |-> IF j \in {} THEN 0 ELSE title[j]] /\ In({}) \subseteq {f}
        /\ {} \in SUBSET LabelIds /\ UNCHANGED <<coined, subPast, removal>>
    BY <1>2 DEF RemoveFeed, SubsIInv, SubsTyped, labelVars, In
  <2> QED  BY <2>1, UnfileStep
<1>3. CASE RemoveUser
  <2>1. Unfile(In(Labels)) /\ title' = [i \in LabelIds |-> 0] /\ removal' = Joined
        /\ UNCHANGED <<coined, subPast>>
    BY <1>3 DEF RemoveUser
  <2>2. In(LabelIds) \subseteq In(Labels)
    BY SubscriptionAssumption DEF SubsIInv, SubsTyped, In
  <2>3. \A i \in LabelIds : ~IsTarget(i)
    <3> SUFFICES ASSUME NEW r \in Removers, removal[r].moved # {} PROVE FALSE
      BY DEF IsTarget
    <3>1. \A f \in Urls : f \notin removal[r].moved
      BY <1>3 DEF RemoveUser, Moved
    <3> QED  BY <3>1 DEF SubsIInv, SubsTyped, RemovalType
  <2>4. title' = [j \in LabelIds |-> IF j \in LabelIds THEN 0 ELSE title[j]]
    BY <2>1
  <2> QED  BY <2>1, <2>2, <2>3, <2>4, SubscriptionAssumption, UnfileStep
<1> QED  BY <1>1, <1>2, <1>3

LEMMA FileStep ==
  ASSUME SubsIInv, NEW f, NEW i \in Labels, File(f, i),
         UNCHANGED <<labelVars, removal, erased, bare>>
  PROVE  SubsIInv'
<1>1. /\ filed' = [filed EXCEPT ![f] = i]
      /\ slipped' = IF \E r \in Removers : removal[r].at = "moved" /\ title[i] \in removal[r].titles
                    THEN slipped \cup {f} ELSE slipped
      /\ UNCHANGED <<title, coined, removal, erased, bare>>
  BY DEF File, labelVars
<1>2. Labels' = Labels
  BY <1>1 DEF Labels
<1>3. SubsTyped'
  BY <1>1, <1>2 DEF SubsIInv, SubsTyped
<1>4. LateOnesSlip'
  BY <1>1, <1>2 DEF SubsIInv, SubsTyped, LateOnesSlip, Titled
<1> QED
  BY <1>1, <1>2, <1>3, <1>4
  DEF SubsIInv, TargetsStay, RemovalsMeet, OneStays, QuietRemovalsKeepFeeds

LEMMA CountOthersStep ==
  ASSUME SubsIInv, NEW r \in Removers, CountOthers(r)
  PROVE  SubsIInv'
<1> PICK T \in SUBSET Titles :
      /\ Labels # Titled(T)
      /\ removal' = [Joined EXCEPT
            ![r] = [NoRemoval EXCEPT !.at = "counted", !.titles = T,
                      !.joined = \E q \in Removers : removal[q].at # "idle"]]
  BY DEF CountOthers
<1> DEFINE m == [NoRemoval EXCEPT !.at = "counted", !.titles = T,
                   !.joined = \E q \in Removers : removal[q].at # "idle"]
<1>1. UNCHANGED <<title, coined, filed, slipped, erased, bare>> /\ removal[r].at = "idle"
  BY DEF CountOthers, labelVars, subPast
<1>2. /\ m.at = "counted" /\ m.titles = T /\ m.moved = {} /\ m.target = NoLabel
      /\ m.joined = (\E q \in Removers : removal[q].at # "idle")
      /\ m \in RemovalType
  BY DEF NoRemoval, RemovalType
<1>3. removal' = [Joined EXCEPT ![r] = m]
  OBVIOUS
<1> HIDE DEF m
<1>4. removal'[r] = m /\ \A q \in Removers \ {r} : removal'[q] = Joined[q]
  BY <1>3, JoinedIs
<1>5. \A q \in Removers \ {r} :
         /\ removal'[q].at = removal[q].at /\ removal'[q].titles = removal[q].titles
         /\ removal'[q].moved = removal[q].moved /\ removal'[q].target = removal[q].target
         /\ removal'[q].joined = (removal[q].joined \/ removal[q].at # "idle")
  BY <1>4, JoinedIs
<1>6. Labels' = Labels /\ \E i \in Labels : title[i] \notin T
  BY <1>1 DEF Labels, Titled
<1>7. SubsTyped'
  BY <1>1, <1>2, <1>3, <1>6, JoinedIs DEF SubsIInv, SubsTyped
<1>8. TargetsStay'
  BY <1>1, <1>2, <1>4, <1>5 DEF SubsIInv, TargetsStay
<1>9. LateOnesSlip'
  <2>1. \A U : Titled(U)' = Titled(U)
    BY <1>1 DEF Titled, Labels
  <2>2. \A q \in Removers : removal'[q].at = "moved" => q # r
    BY <1>2, <1>4
  <2> QED  BY <1>1, <1>5, <2>1, <2>2 DEF SubsIInv, LateOnesSlip
<1>10. RemovalsMeet'
  <2> SUFFICES ASSUME NEW p \in Removers, NEW q \in Removers, p # q,
                      removal'[p].at # "idle", removal'[q].at # "idle"
               PROVE  removal'[p].joined
    BY DEF RemovalsMeet
  <2>1. CASE p = r
    <3>1. removal[q].at # "idle"
      BY <2>1, <1>5
    <3> QED  BY <2>1, <3>1, <1>2, <1>4
  <2>2. CASE p # r
    BY <2>2, <1>5
  <2> QED  BY <2>1, <2>2
<1>11. OneStays'
  BY <1>1, <1>2, <1>4, <1>5, <1>6 DEF SubsIInv, OneStays
<1> QED  BY <1>1, <1>7, <1>8, <1>9, <1>10, <1>11 DEF SubsIInv, QuietRemovalsKeepFeeds

(* The first of categories in the order of titles is one of them.          *)
LEMMA FirstIsOne ==
  ASSUME SubsTyped, NEW S \in SUBSET LabelIds, S # {}
  PROVE  FirstOf(S) \in S
<1> DEFINE N == {title[i] : i \in S}
<1>1. N \subseteq Nat /\ N # {}
  BY SubscriptionAssumption DEF SubsTyped
<1> HIDE DEF N
<1>2. \E m \in N : \A n \in N : m <= n
  BY <1>1, LeastNumber
<1> USE DEF N
<1>3. \E i \in S : \A j \in S : title[i] <= title[j]
  BY <1>2
<1> QED  BY <1>3 DEF FirstOf

LEMMA MoveFeedsStep ==
  ASSUME SubsIInv, NEW r \in Removers, MoveFeeds(r)
  PROVE  SubsIInv'
<1> DEFINE T == removal[r].titles
           target == IF Stay(T) = {} THEN NoLabel ELSE FirstOf(Stay(T))
           m == [removal[r] EXCEPT !.at = "moved", !.moved = FeedsToMove(T), !.target = target]
<1>1. /\ removal[r].at = "counted" /\ T \subseteq Titles /\ removal[r] \in RemovalType
      /\ FeedsToMove(T) = {} \/ Stay(T) # {}
      /\ UNCHANGED <<title, coined, filed, slipped, erased, bare>>
  BY DEF MoveFeeds, labelVars, subPast, SubsIInv, SubsTyped, RemovalType
<1>2. Stay(T) # {} => FirstOf(Stay(T)) \in Stay(T)
  BY FirstIsOne DEF Stay, Labels, SubsIInv
<1>3. /\ target \in LabelIds \cup {NoLabel}
      /\ FeedsToMove(T) # {} => target \in Labels /\ title[target] \notin T
  BY <1>1, <1>2 DEF Stay, Titled, Labels
<1> HIDE DEF target
<1>4. /\ m \in RemovalType /\ m.at = "moved" /\ m.titles = T /\ m.target = target
      /\ m.moved = FeedsToMove(T) /\ m.joined = removal[r].joined
  <2>1. FeedsToMove(T) \in SUBSET Urls
    BY DEF FeedsToMove, In
  <2> QED  BY <2>1, <1>1, <1>3 DEF RemovalType
<1>5. removal' = [removal EXCEPT ![r] = m]
  BY DEF MoveFeeds, target, SubsIInv, SubsTyped, RemovalType
<1> HIDE DEF m
<1>6. removal'[r] = m /\ \A q \in Removers \ {r} : removal'[q] = removal[q]
  BY <1>5 DEF SubsIInv, SubsTyped
<1>7. Labels' = Labels /\ \A U : Titled(U)' = Titled(U)
  BY <1>1 DEF Labels, Titled
<1>8. SubsTyped'
  BY <1>1, <1>4, <1>5, <1>7 DEF SubsIInv, SubsTyped
<1>9. TargetsStay'
  <2>1. m.moved # {} => m.target \in LabelIds /\ title[m.target] \in Titles \ m.titles
    <3>1. \A i \in Labels : i \in LabelIds /\ title[i] \in Titles
      BY SubscriptionAssumption DEF Labels, Titles, SubsIInv, SubsTyped
    <3> HIDE DEF T
    <3> QED  BY <3>1, <1>3, <1>4
  <2> QED  BY <2>1, <1>1, <1>4, <1>6 DEF SubsIInv, TargetsStay
<1>10. LateOnesSlip'
  BY <1>1, <1>4, <1>6, <1>7 DEF SubsIInv, LateOnesSlip, FeedsToMove, In
<1>11. RemovalsMeet' /\ OneStays'
  <2>1. \A q \in Removers :
           /\ removal'[q].at # "idle" <=> removal[q].at # "idle"
           /\ removal'[q].joined = removal[q].joined /\ removal'[q].titles = removal[q].titles
    BY <1>1, <1>4, <1>6
  <2> QED  BY <2>1, <1>1, <1>7 DEF SubsIInv, RemovalsMeet, OneStays
<1> QED  BY <1>1, <1>8, <1>9, <1>10, <1>11 DEF SubsIInv, QuietRemovalsKeepFeeds

LEMMA RemovalFailsStep ==
  ASSUME SubsIInv, NEW r \in Removers, RemovalFails(r)
  PROVE  SubsIInv'
<1>1. /\ removal' = [removal EXCEPT ![r] = NoRemoval] /\ slipped' = Slips(slipped, r)
      /\ UNCHANGED <<title, coined, filed, erased, bare>>
  BY DEF RemovalFails, labelVars
<1>2. /\ NoRemoval \in RemovalType /\ NoRemoval.at = "idle" /\ NoRemoval.moved = {}
  BY DEF NoRemoval, RemovalType
<1>3. removal'[r] = NoRemoval /\ \A q \in Removers \ {r} : removal'[q] = removal[q]
  BY <1>1 DEF SubsIInv, SubsTyped
<1>4. Labels' = Labels /\ \A U : Titled(U)' = Titled(U)
  BY <1>1 DEF Labels, Titled
<1>5. SubsTyped' /\ TargetsStay'
  BY <1>1, <1>2, <1>3, <1>4 DEF SubsIInv, SubsTyped, TargetsStay
<1>6. LateOnesSlip'
  BY <1>1, <1>2, <1>3, <1>4 DEF SubsIInv, LateOnesSlip, Slips
<1>7. RemovalsMeet' /\ OneStays'
  BY <1>1, <1>2, <1>3, <1>4 DEF SubsIInv, RemovalsMeet, OneStays
<1> QED  BY <1>1, <1>5, <1>6, <1>7 DEF SubsIInv, QuietRemovalsKeepFeeds

(* The DELETE finds no feed that did not come late, and, on its own, not   *)
(* every category.                                                         *)
LEMMA DeleteLabelsStep ==
  ASSUME SubsIInv, NEW r \in Removers, DeleteLabels(r)
  PROVE  SubsIInv'
<1> DEFINE T == removal[r].titles
           moved == removal[r].moved
           target == removal[r].target
           gone == Titled(T)
           lost == In(gone) \ moved
<1>1. /\ removal[r].at = "moved" /\ T \subseteq Titles /\ moved \subseteq Urls
      /\ \A i \in gone : ~\E q \in Removers \ {r} : removal[q].moved # {} /\ removal[q].target = i
      /\ title' = [i \in LabelIds |-> IF i \in gone THEN 0 ELSE title[i]]
      /\ filed' = [f \in Urls |-> IF f \in lost THEN NoLabel
                                  ELSE IF f \in moved THEN target ELSE filed[f]]
      /\ erased' = erased \cup (lost \ slipped)
      /\ slipped' = Slips(slipped, r) \cup
            {f \in moved : \E q \in Removers \ {r} :
                removal[q].at = "moved" /\ title[target] \in removal[q].titles}
      /\ bare' = (bare \/ (gone = Labels /\ ~removal[r].joined))
      /\ removal' = [removal EXCEPT ![r] = NoRemoval]
      /\ coined' = coined
  BY DEF DeleteLabels, SubsIInv, SubsTyped, RemovalType
<1>2. moved # {} => target \in Labels \ gone
  BY <1>1, SubscriptionAssumption DEF SubsIInv, TargetsStay, Titled, Labels, Titles
<1> HIDE DEF T, moved, target
<1>3. /\ NoRemoval \in RemovalType /\ NoRemoval.at = "idle" /\ NoRemoval.moved = {}
  BY DEF NoRemoval, RemovalType
<1>4. removal'[r] = NoRemoval /\ \A q \in Removers \ {r} : removal'[q] = removal[q]
  BY <1>1 DEF SubsIInv, SubsTyped
<1>5. Labels' = Labels \ gone /\ gone \subseteq Labels
  BY <1>1 DEF Labels, SubsIInv, SubsTyped, Titled
<1>6. \A i \in Labels' : title'[i] = title[i]
  BY <1>1, <1>5 DEF Labels
<1>7. SubsTyped'
  <2>1. title' \in [LabelIds -> 0..MaxTitle]
    BY <1>1, SubscriptionAssumption DEF SubsIInv, SubsTyped
  <2>2. filed' \in [Urls -> Labels' \cup {NoLabel}]
    BY <1>1, <1>2, <1>5 DEF SubsIInv, SubsTyped, In
  <2> QED  BY <2>1, <2>2, <1>1, <1>3, <1>5 DEF SubsIInv, SubsTyped
<1>8. TargetsStay'
  <2> SUFFICES ASSUME NEW q \in Removers, removal'[q].moved # {}
               PROVE  /\ removal'[q].at = "moved" /\ removal'[q].target \in LabelIds
                      /\ title'[removal'[q].target] \in Titles \ removal'[q].titles
    BY DEF TargetsStay
  <2>1. q # r /\ removal'[q] = removal[q]
    BY <1>3, <1>4
  <2>2. removal[q].target \notin gone
    BY <2>1, <1>1
  <2> QED  BY <2>1, <2>2, <1>1 DEF SubsIInv, TargetsStay
<1>9. LateOnesSlip'
  <2> SUFFICES ASSUME NEW q \in Removers, removal'[q].at = "moved", NEW f \in Urls,
                      filed'[f] \in Labels', title'[filed'[f]] \in removal'[q].titles,
                      f \notin removal'[q].moved
               PROVE  f \in slipped'
    BY DEF LateOnesSlip, Titled
  <2>1. q # r /\ removal'[q] = removal[q]
    BY <1>3, <1>4
  <2>2. filed'[f] \in Labels' /\ title[filed'[f]] \in removal[q].titles
    BY <2>1, <1>6
  <2>3. Slips(slipped, r) = slipped
    BY <2>1 DEF Slips
  <2>4. f \notin lost
    BY <2>2, <1>1, SubscriptionAssumption DEF Labels
  <2>5. CASE f \in moved
    BY <2>1, <2>2, <2>4, <2>5, <1>1
  <2>6. CASE f \notin moved
    BY <2>1, <2>2, <2>3, <2>4, <2>6, <1>1, <1>5 DEF SubsIInv, LateOnesSlip, Titled
  <2> QED  BY <2>5, <2>6
<1>10. RemovalsMeet'
  BY <1>3, <1>4 DEF SubsIInv, RemovalsMeet
<1>11. OneStays'
  BY <1>1, <1>3, <1>4 DEF SubsIInv, OneStays, RemovalsMeet
<1>12. QuietRemovalsKeepFeeds'
  <2>1. lost \subseteq slipped
    BY <1>1 DEF SubsIInv, LateOnesSlip, In, moved, T
  <2>2. removal[r].joined \/ gone # Labels
    BY <1>1 DEF SubsIInv, OneStays, Titled, T
  <2> QED  BY <2>1, <2>2, <1>1 DEF SubsIInv, QuietRemovalsKeepFeeds
<1> QED  BY <1>7, <1>8, <1>9, <1>10, <1>11, <1>12 DEF SubsIInv

(* Imports and starter feeds.                                              *)
LoadFields == {"kind", "at", "list", "next", "label", "known", "done"}
LoadItems == [url : Urls, title : 0..MaxTitle]
LoadsTyped ==
    /\ DOMAIN load = LoadFields
    /\ load.list \in Seq(LoadItems)
    /\ load.next \in Nat \ {0} /\ load.done \subseteq Urls

(* Nothing is done before or after; a category that is made has a title.   *)
LoadsInOrder ==
    /\ load.at \in {"idle", "over"} => load.done = {}
    /\ load.at = "create" /\ load.next <= Len(load.list) => Item.title # 0

DoneArrive == \A f \in load.done : filed[f] # NoLabel \/ f \in dropped

(* An import does its list in order.                                       *)
ImportsInOrder == load.kind = "import" =>
    /\ \A k \in DOMAIN load.list : k < load.next => load.list[k].url \in load.done
    /\ load.at = "complete" => load.next > Len(load.list)

LoadsIInv == LoadsTyped /\ LoadsInOrder /\ DoneArrive /\ ImportsInOrder

(* Others keep or report what has been loaded.                             *)
LEMMA OthersKeepLoads ==
  ASSUME LoadsIInv, UNCHANGED load,
         Loads => /\ dropped \subseteq dropped'
                  /\ \A f \in Urls : filed[f] # NoLabel => filed'[f] # NoLabel \/ f \in dropped'
  PROVE  LoadsIInv'
<1>1. LoadsTyped' /\ LoadsInOrder' /\ ImportsInOrder'
  BY DEF LoadsIInv, LoadsTyped, LoadsInOrder, ImportsInOrder, Item
<1>2. DoneArrive'
  BY DEF LoadsIInv, LoadsTyped, LoadsInOrder, DoneArrive, Loads
<1> QED  BY <1>1, <1>2 DEF LoadsIInv

LEMMA OthersStep ==
  ASSUME SubsIInv, LoadsIInv, AnyTime \/ RemovingLabels \/ EditingFeeds
  PROVE  LoadsIInv'
<1>1. ASSUME NEW S, Unfile(S), UNCHANGED load
      PROVE  LoadsIInv'
  BY <1>1, OthersKeepLoads DEF Unfile
<1>2. ASSUME UNCHANGED <<filed, dropped, load>>
      PROVE  LoadsIInv'
  BY <1>2, OthersKeepLoads
<1>3. ASSUME NEW f, NEW i \in Labels, File(f, i), UNCHANGED <<dropped, load>>
      PROVE  LoadsIInv'
  <2>1. \A g \in Urls : filed'[g] = filed[g] \/ filed'[g] = i
    BY <1>3 DEF File, SubsIInv, SubsTyped
  <2>2. i # NoLabel
    BY SubscriptionAssumption DEF Labels
  <2> QED  BY <2>1, <2>2, <1>3, OthersKeepLoads
<1>4. CASE AnyTime
  BY <1>1, <1>2, <1>4 DEF AnyTime, AddCategory, UpdateCategory, RemoveCategory, RemoveFeed, RemoveUser
<1>5. ASSUME NEW r \in Removers, RemoveLabels(r)
      PROVE  LoadsIInv'
  <2>1. CASE CountOthers(r) \/ MoveFeeds(r) \/ RemovalFails(r)
    BY <2>1, <1>2 DEF CountOthers, MoveFeeds, RemovalFails
  <2>2. CASE DeleteLabels(r)
    <3> DEFINE moved == removal[r].moved
               target == removal[r].target
               lost == In(Titled(removal[r].titles)) \ moved
    <3>1. /\ filed' = [f \in Urls |-> IF f \in lost THEN NoLabel
                                      ELSE IF f \in moved THEN target ELSE filed[f]]
          /\ dropped' = IF Loads THEN dropped \cup lost ELSE {}
          /\ load' = load
      BY <2>2 DEF DeleteLabels
    <3>2. moved # {} => target # NoLabel
      BY SubscriptionAssumption DEF SubsIInv, TargetsStay
    <3> HIDE DEF moved, target, lost
    <3> QED  BY <3>1, <3>2, OthersKeepLoads
  <2> QED  BY <2>1, <2>2, <1>5 DEF RemoveLabels
<1>6. ASSUME NEW w \in Editors, EditFeed(w)
      PROVE  LoadsIInv'
  BY <1>2, <1>3, <1>6
  DEF EditFeed, StartSubscribe, CreateFeed, ReadFeed, UpdateFeed, EditEnds, subPast, CanInsert
<1> QED  BY <1>4, <1>5, <1>6 DEF RemovingLabels, EditingFeeds

LEMMA ItemIsListed ==
  ASSUME LoadsIInv, load.next <= Len(load.list)
  PROVE  Item = load.list[load.next] /\ Item.url \in Urls /\ Item.title \in 0..MaxTitle
<1>1. load.next \in 1..Len(load.list)
  BY DEF LoadsIInv, LoadsTyped
<1>2. load.list[load.next] \in LoadItems
  BY <1>1, ElementOfSeq DEF LoadsIInv, LoadsTyped
<1> QED  BY <1>2 DEF Item, LoadItems

(* The steps of an import or of the provisioning.                          *)
LEMMA LoadingStep ==
  ASSUME SubsIInv, LoadsIInv, Loading
  PROVE  LoadsIInv'
<1>1. CASE StartLoad
  <2> PICK k \in {"import", "starters"}, n \in 1..MaxLoad :
         \E l \in [1..n -> [url : Urls, title : 0..MaxTitle]] :
            load' = [NoLoad EXCEPT !.kind = k, !.at = "next", !.list = l]
    BY <1>1 DEF StartLoad
  <2> PICK s \in [1..n -> [url : Urls, title : 0..MaxTitle]] :
         load' = [NoLoad EXCEPT !.kind = k, !.at = "next", !.list = s]
    OBVIOUS
  <2>1. /\ DOMAIN load' = LoadFields /\ load'.kind = k /\ load'.at = "next" /\ load'.list = s
        /\ load'.next = 1 /\ load'.done = {}
    BY DEF NoLoad, LoadFields
  <2>2. s \in Seq(LoadItems)
    <3>1. s \in [1..n -> LoadItems] /\ n \in Nat
      BY SubscriptionAssumption DEF LoadItems
    <3> QED  BY <3>1, SeqDef
  <2> QED
    BY <2>1, <2>2 DEF LoadsIInv, LoadsTyped, LoadsInOrder, DoneArrive, ImportsInOrder
<1>2. CASE PassFeed
  <2>1. /\ load' = [load EXCEPT !.next = @ + 1, !.done = @ \cup {Item.url}]
        /\ load.at = "next" /\ load.next <= Len(load.list) /\ filed[Item.url] # NoLabel
        /\ UNCHANGED <<filed, dropped>>
    BY <1>2 DEF PassFeed, LoadAt
  <2>2. Item = load.list[load.next] /\ Item.url \in Urls
    BY <2>1, ItemIsListed
  <2>3. /\ DOMAIN load' = LoadFields /\ load'.kind = load.kind /\ load'.at = "next"
        /\ load'.list = load.list /\ load'.next = load.next + 1
        /\ load'.done = load.done \cup {Item.url}
    BY <2>1 DEF LoadsIInv, LoadsTyped, LoadFields
  <2>4. LoadsTyped' /\ LoadsInOrder' /\ DoneArrive'
    BY <2>1, <2>2, <2>3 DEF LoadsIInv, LoadsTyped, LoadsInOrder, DoneArrive
  <2>5. ImportsInOrder'
    BY <2>1, <2>2, <2>3 DEF LoadsIInv, LoadsTyped, ImportsInOrder
  <2> QED  BY <2>4, <2>5 DEF LoadsIInv
<1>3. CASE InsertFeed
  <2>1. /\ load' = [load EXCEPT !.at = "next", !.next = @ + 1, !.done = @ \cup {Item.url}]
        /\ load.at = "insert" /\ load.next <= Len(load.list)
        /\ filed' = [filed EXCEPT ![Item.url] = load.label] /\ load.label \in Labels
        /\ UNCHANGED dropped
    BY <1>3 DEF InsertFeed, LoadAt, CanInsert, File
  <2>2. Item = load.list[load.next] /\ Item.url \in Urls
    BY <2>1, ItemIsListed
  <2>3. /\ DOMAIN load' = LoadFields /\ load'.kind = load.kind /\ load'.at = "next"
        /\ load'.list = load.list /\ load'.next = load.next + 1
        /\ load'.done = load.done \cup {Item.url}
    BY <2>1 DEF LoadsIInv, LoadsTyped, LoadFields
  <2>4. LoadsTyped' /\ LoadsInOrder'
    BY <2>1, <2>2, <2>3 DEF LoadsIInv, LoadsTyped, LoadsInOrder
  <2>5. load.label # NoLabel
    BY <2>1, SubscriptionAssumption DEF Labels
  <2>6. DoneArrive'
    BY <2>1, <2>2, <2>3, <2>5 DEF LoadsIInv, LoadsTyped, DoneArrive, SubsIInv, SubsTyped
  <2>7. ImportsInOrder'
    BY <2>1, <2>2, <2>3 DEF LoadsIInv, LoadsTyped, ImportsInOrder
  <2> QED  BY <2>4, <2>6, <2>7 DEF LoadsIInv
<1>4. ASSUME load.at \notin {"idle", "over"},
             DOMAIN load' = LoadFields, load'.kind = load.kind, load'.list = load.list,
             load'.next = load.next, load'.done = load.done, UNCHANGED <<filed, dropped>>,
             load'.at \notin {"idle", "over"},
             load'.at = "create" => Item.title # 0,
             load'.at = "complete" /\ load.kind = "import" => load.next > Len(load.list)
      PROVE  LoadsIInv'
  BY <1>4 DEF LoadsIInv, LoadsTyped, LoadsInOrder, DoneArrive, ImportsInOrder, Item
<1>5. CASE NextFeed \/ LoadEnds
  BY <1>4, <1>5 DEF NextFeed, LoadEnds, Go, LoadAt, LoadsIInv, LoadsTyped, LoadFields
<1>6. CASE FindCategory \/ CreateMissing
  <2>1. ASSUME NEW i, load' = Resolved(i), load.at \notin {"idle", "over"}, UNCHANGED <<filed, dropped>>
        PROVE  LoadsIInv'
    BY <1>4, <2>1 DEF Resolved, LoadsIInv, LoadsTyped, LoadFields
  <2>2. ASSUME Item.title # 0, Go("create"), load.at = "category", UNCHANGED <<filed, dropped>>
        PROVE  LoadsIInv'
    BY <1>4, <2>2 DEF Go, LoadsIInv, LoadsTyped, LoadFields
  <2> QED  BY <1>6, <2>1, <2>2 DEF FindCategory, CreateMissing, LoadAt
<1>7. ASSUME load' = Over
      PROVE  LoadsIInv'
  <2>1. /\ DOMAIN load' = LoadFields /\ load'.kind = "none" /\ load'.at = "over"
        /\ load'.list = <<>> /\ load'.next = 1 /\ load'.done = {}
    BY <1>7 DEF Over, NoLoad, LoadFields
  <2> QED
    BY <2>1 DEF LoadsIInv, LoadsTyped, LoadsInOrder, DoneArrive, ImportsInOrder
<1>8. CASE LoadFails
  <2>1. CASE load.kind = "import"
    BY <2>1, <1>7, <1>8 DEF LoadFails, Failed
  <2>2. CASE load.kind # "import"
    <3>1. /\ load' = [load EXCEPT !.at = "next", !.next = @ + 1]
          /\ load.at \notin {"idle", "over"} /\ UNCHANGED <<filed, dropped>>
      BY <2>2, <1>8 DEF LoadFails, Failed, LoadAt
    <3>2. /\ DOMAIN load' = LoadFields /\ load'.kind = load.kind /\ load'.at = "next"
          /\ load'.list = load.list /\ load'.next = load.next + 1 /\ load'.done = load.done
      BY <3>1 DEF LoadsIInv, LoadsTyped, LoadFields
    <3> QED
      BY <2>2, <3>1, <3>2 DEF LoadsIInv, LoadsTyped, LoadsInOrder, DoneArrive, ImportsInOrder
  <2> QED  BY <2>1, <2>2
<1>9. CASE LoadIsOver
  BY <1>7, <1>9 DEF LoadIsOver
<1> QED  BY <1>1, <1>2, <1>3, <1>5, <1>6, <1>8, <1>9 DEF Loading

SubscriptionIInv == SubsIInv /\ LoadsIInv

LEMMA SubscriptionStep ==
  ASSUME SubscriptionIInv, [SubscriptionNext]_subVars
  PROVE  SubscriptionIInv'
<1> USE DEF SubscriptionIInv
<1>1. ASSUME UNCHANGED <<labelVars, filed, removal, subPast>>
      PROVE  SubsIInv'
  BY <1>1 DEF SubsIInv, SubsTyped, TargetsStay, LateOnesSlip, RemovalsMeet, OneStays,
     QuietRemovalsKeepFeeds, labelVars, subPast, Labels, Titled
<1>2. CASE AnyTime
  <2>1. CASE AddCategory
    BY <2>1, <1>2, CreateCategoryStep, OthersStep DEF AddCategory
  <2> QED  BY <2>1, <1>2, UpdateCategoryStep, RemoveStep, OthersStep DEF AnyTime
<1>3. CASE RemovingLabels
  BY <1>3, CountOthersStep, MoveFeedsStep, DeleteLabelsStep, RemovalFailsStep, OthersStep
  DEF RemovingLabels, RemoveLabels
<1>4. CASE EditingFeeds
  <2>1. SubsIInv'
    BY <1>1, <1>4, FileStep
    DEF EditingFeeds, EditFeed, StartSubscribe, CreateFeed, ReadFeed, UpdateFeed, EditEnds, CanInsert,
        subPast
  <2> QED  BY <2>1, <1>4, OthersStep
<1>5. CASE Loading
  <2>1. CASE InsertFeed
    BY <2>1, <1>5, FileStep, LoadingStep DEF InsertFeed, CanInsert
  <2>2. CASE CreateMissing
    <3>1. Item.title \in Titles
      BY <2>2, ItemIsListed DEF CreateMissing, LoadAt, LoadsIInv, LoadsInOrder, Titles
    <3>2. UNCHANGED <<filed, removal, subPast>> /\ \E i \in LabelIds : CreateCategory(i, Item.title)
      BY <2>2 DEF CreateMissing
    <3> QED  BY <3>1, <3>2, <1>5, CreateCategoryStep, LoadingStep
  <2> QED
    BY <2>1, <2>2, <1>1, <1>5, LoadingStep
    DEF Loading, StartLoad, PassFeed, NextFeed, FindCategory, LoadFails, LoadEnds, LoadIsOver
<1>6. CASE UNCHANGED subVars
  BY <1>1, <1>6, OthersKeepLoads DEF subVars
<1> QED  BY <1>2, <1>3, <1>4, <1>5, <1>6 DEF SubscriptionNext

LEMMA SubscriptionStart == SubscriptionInit => SubscriptionIInv
<1> SUFFICES ASSUME SubscriptionInit PROVE SubscriptionIInv
  OBVIOUS
<1>1. PICK i \in LabelIds : /\ title = [j \in LabelIds |-> IF j = i THEN 1 ELSE 0]
                            /\ coined = {i}
  BY DEF SubscriptionInit
<1>2. NoRemoval \in RemovalType /\ NoRemoval.at = "idle" /\ NoRemoval.moved = {}
  BY DEF NoRemoval, RemovalType
<1>3. SubsTyped
  BY <1>1, <1>2, SubscriptionAssumption DEF SubscriptionInit, SubsTyped, Labels
<1>4. SubsIInv
  BY <1>2, <1>3 DEF SubscriptionInit, SubsIInv, TargetsStay, LateOnesSlip, RemovalsMeet, OneStays,
     QuietRemovalsKeepFeeds
<1>5. /\ DOMAIN load = LoadFields /\ load.kind = "none" /\ load.at = "idle"
      /\ load.list = <<>> /\ load.next = 1 /\ load.done = {}
  BY DEF SubscriptionInit, NoLoad, LoadFields
<1>6. LoadsIInv
  BY <1>5 DEF LoadsIInv, LoadsTyped, LoadsInOrder, DoneArrive, ImportsInOrder
<1> QED  BY <1>4, <1>6 DEF SubscriptionIInv

(* Removing labels deletes no feed but one that came after the move, and   *)
(* a removal on its own leaves a category, for any number of removals,     *)
(* refreshes and imports at once (RemoveAndReplaceCategoriesByName).       *)
THEOREM RemovalsKeepFeeds == SubscriptionSpec => []QuietRemovalsKeepFeeds
<1>1. SubscriptionIInv => QuietRemovalsKeepFeeds
  BY DEF SubscriptionIInv, SubsIInv
<1> QED  BY <1>1, SubscriptionStart, SubscriptionStep, PTL DEF SubscriptionSpec

(* What an import or the provisioning has counted is there unless removed  *)
(* since, and an import that succeeds has left nothing out (opml.Import,   *)
(* provisioning of starter feeds).                                         *)
THEOREM LoadsArrive == SubscriptionSpec => []LoadedFeedsArrive
<1>1. SubscriptionIInv => LoadedFeedsArrive
  <2> SUFFICES ASSUME SubscriptionIInv PROVE LoadedFeedsArrive
    OBVIOUS
  <2>1. DOMAIN load.list = 1..Len(load.list) /\ Len(load.list) \in Nat /\ load.next \in Nat
    BY DEF SubscriptionIInv, LoadsIInv, LoadsTyped
  <2> QED
    BY <2>1 DEF SubscriptionIInv, LoadsIInv, DoneArrive, ImportsInOrder, LoadedFeedsArrive
<1> QED  BY <1>1, SubscriptionStart, SubscriptionStep, PTL DEF SubscriptionSpec
-----------------------------------------------------------------------------
(***************************************************************************)
(* Shared entries.                                                         *)
(***************************************************************************)

SharingType == [at : {"idle", "generate", "answer"}, entry : Entries \cup {NoCode},
                code : Codes \cup {NoCode}, alone : BOOLEAN]
SharesTyped ==
    /\ there \subseteq Entries /\ code \in [Entries -> Codes \cup {NoCode}]
    /\ handed \subseteq Entries \X Codes
    /\ sharing \in [Sharers -> SharingType]
    /\ \A c \in Sharers : sharing[c].at # "idle" => sharing[c].entry \in Entries

(* Two requests for one entry know that they are not alone.                *)
SharersKnow == \A c, d \in Sharers :
    /\ c # d /\ sharing[c].at # "idle" /\ sharing[d].at # "idle"
    /\ sharing[c].entry = sharing[d].entry
    => ~sharing[c].alone

(* What a request that is alone has seen or written is still so.           *)
AloneHolds == \A c \in Sharers : sharing[c].at # "idle" /\ sharing[c].alone =>
    /\ sharing[c].entry \in there
    /\ sharing[c].at = "answer" =>
          sharing[c].code \in Codes /\ code[sharing[c].entry] = sharing[c].code

(* No code is made for an entry whose code was given out.                  *)
NoneIsReplaced == \A c \in Sharers : sharing[c].at = "generate" =>
    \A h \in handed : h[1] # sharing[c].entry

ShareIInv == SharesTyped /\ SharersKnow /\ AloneHolds /\ NoneIsReplaced /\ QuietShareCodesWork

(* Entries come, or are marked.                                            *)
LEMMA MarksKeepShares ==
  ASSUME ShareIInv, there \subseteq there', there' \subseteq Entries,
         UNCHANGED <<code, handed, sharing>>
  PROVE  ShareIInv'
BY DEF ShareIInv, SharesTyped, SharersKnow, AloneHolds, NoneIsReplaced, QuietShareCodesWork

(* Requests for entries in S are no longer alone.                          *)
LEMMA NotAloneIs ==
  ASSUME SharesTyped, NEW S
  PROVE  /\ NotAlone(S) \in [Sharers -> SharingType]
         /\ \A c \in Sharers :
               /\ NotAlone(S)[c].at = sharing[c].at /\ NotAlone(S)[c].entry = sharing[c].entry
               /\ NotAlone(S)[c].code = sharing[c].code
               /\ NotAlone(S)[c].alone <=> sharing[c].alone /\ sharing[c].entry \notin S
<1>1. \A c \in Sharers : sharing[c] \in SharingType
  BY DEF SharesTyped
<1>2. \A c \in Sharers : [sharing[c] EXCEPT !.alone = FALSE] \in SharingType
  BY <1>1 DEF SharingType
<1>3. NotAlone(S) \in [Sharers -> SharingType]
  BY <1>1, <1>2 DEF NotAlone
<1> QED  BY <1>1, <1>3 DEF NotAlone, SharingType

(* Entries without a code are deleted, or the code of one is withdrawn.    *)
LEMMA WithdrawKeepsShares ==
  ASSUME ShareIInv, NEW S \in SUBSET Entries, sharing' = NotAlone(S), there \ S \subseteq there',
         there' \subseteq Entries,
         code' \in [Entries -> Codes \cup {NoCode}],
         \A e \in Entries \ S : code'[e] = code[e],
         handed' \subseteq handed, \A h \in handed' : h[1] \notin S
  PROVE  ShareIInv'
<1>1. /\ sharing' \in [Sharers -> SharingType]
      /\ \A c \in Sharers :
            /\ sharing'[c].at = sharing[c].at /\ sharing'[c].entry = sharing[c].entry
            /\ sharing'[c].code = sharing[c].code
            /\ sharing'[c].alone <=> sharing[c].alone /\ sharing[c].entry \notin S
  BY NotAloneIs DEF ShareIInv
<1>2. SharesTyped'
  BY <1>1 DEF ShareIInv, SharesTyped
<1>3. SharersKnow' /\ NoneIsReplaced'
  BY <1>1 DEF ShareIInv, SharersKnow, NoneIsReplaced
<1>4. AloneHolds'
  BY <1>1 DEF ShareIInv, SharesTyped, AloneHolds
<1>5. QuietShareCodesWork'
  BY DEF ShareIInv, SharesTyped, QuietShareCodesWork
<1> QED  BY <1>2, <1>3, <1>4, <1>5 DEF ShareIInv

LEMMA MarkingStep ==
  ASSUME ShareIInv, Marking
  PROVE  ShareIInv'
<1>1. CASE Arrive \/ SetEntriesStatus \/ SetEntriesStarredState \/ ToggleStarred \/ MarkAsRead
  BY <1>1, MarksKeepShares
  DEF Arrive, SetEntriesStatus, SetEntriesStarredState, ToggleStarred, MarkAsRead, Read, OnlyEntries,
      ShareIInv, SharesTyped
<1>2. ASSUME NEW S \in SUBSET {e \in there : code[e] = NoCode},
             Bury(S), sharing' = NotAlone(S), code' = code
      PROVE  ShareIInv'
  <2>1. /\ S \in SUBSET Entries /\ there' = there \ S /\ handed' = handed
        /\ there' \subseteq Entries /\ code' \in [Entries -> Codes \cup {NoCode}]
    BY <1>2 DEF Bury, ShareIInv, SharesTyped
  <2>2. \A h \in handed : h[1] \notin S
    BY <1>2, ReadingAssumption DEF ShareIInv, SharesTyped, QuietShareCodesWork
  <2> QED  BY <1>2, <2>1, <2>2, WithdrawKeepsShares
<1>3. CASE FlushHistory
  BY <1>2, <1>3 DEF FlushHistory, Disposable
<1>4. CASE ArchiveEntries
  BY <1>2, <1>4 DEF ArchiveEntries
<1> QED  BY <1>1, <1>3, <1>4 DEF Marking

LEMMA ReadShareCodeStep ==
  ASSUME ShareIInv, NEW c \in Sharers, ReadShareCode(c)
  PROVE  ShareIInv'
<1>0. PICK e \in there :
      LET others == {d \in Sharers : sharing[d].at # "idle" /\ sharing[d].entry = e}
      IN sharing' = [NotAlone({e}) EXCEPT ![c] =
           [at |-> IF code[e] = NoCode THEN "generate" ELSE "answer",
            entry |-> e, code |-> code[e], alone |-> others = {}]]
  BY DEF ReadShareCode
<1> DEFINE others == {d \in Sharers : sharing[d].at # "idle" /\ sharing[d].entry = e}
           s == [at |-> IF code[e] = NoCode THEN "generate" ELSE "answer",
                 entry |-> e, code |-> code[e], alone |-> others = {}]
<1>1. /\ sharing[c].at = "idle" /\ sharing' = [NotAlone({e}) EXCEPT ![c] = s]
      /\ UNCHANGED <<there, code, handed>>
  BY <1>0 DEF ReadShareCode, entryVars, codeVars
<1>2. /\ s \in SharingType /\ s.entry = e /\ s.code = code[e] /\ (s.alone <=> others = {})
      /\ \/ s.at = "generate" /\ code[e] = NoCode
         \/ s.at = "answer" /\ code[e] \in Codes
      /\ e \in Entries
  BY DEF SharingType, ShareIInv, SharesTyped
<1> HIDE DEF s, others
<1>3. /\ sharing' \in [Sharers -> SharingType] /\ sharing'[c] = s
      /\ \A d \in Sharers \ {c} :
            /\ sharing'[d].at = sharing[d].at /\ sharing'[d].entry = sharing[d].entry
            /\ sharing'[d].code = sharing[d].code
            /\ sharing'[d].alone <=> sharing[d].alone /\ sharing[d].entry # e
  BY <1>1, <1>2, NotAloneIs DEF ShareIInv
<1>4. SharesTyped'
  BY <1>1, <1>2, <1>3 DEF ShareIInv, SharesTyped
<1>5. SharersKnow'
  <2> SUFFICES ASSUME NEW a \in Sharers, NEW b \in Sharers, a # b, sharing'[a].at # "idle",
                      sharing'[b].at # "idle", sharing'[a].entry = sharing'[b].entry
               PROVE  ~sharing'[a].alone
    BY DEF SharersKnow
  <2>1. CASE a = c
    <3>1. b \in others
      BY <2>1, <1>2, <1>3 DEF others
    <3> QED  BY <2>1, <3>1, <1>2, <1>3
  <2>2. CASE b = c
    BY <2>2, <1>2, <1>3
  <2>3. CASE a # c /\ b # c
    BY <2>3, <1>3 DEF ShareIInv, SharersKnow
  <2> QED  BY <2>1, <2>2, <2>3
<1>6. AloneHolds'
  <2> SUFFICES ASSUME NEW d \in Sharers, sharing'[d].at # "idle", sharing'[d].alone
               PROVE  /\ sharing'[d].entry \in there
                      /\ sharing'[d].at = "answer" =>
                            sharing'[d].code \in Codes /\ code[sharing'[d].entry] = sharing'[d].code
    BY <1>1 DEF AloneHolds
  <2>1. CASE d = c
    BY <2>1, <1>2, <1>3
  <2>2. CASE d # c
    BY <2>2, <1>3 DEF ShareIInv, AloneHolds
  <2> QED  BY <2>1, <2>2
<1>7. NoneIsReplaced'
  <2>1. s.at = "generate" => \A h \in handed : h[1] # e
    BY <1>2, ReadingAssumption DEF ShareIInv, SharesTyped, QuietShareCodesWork
  <2> SUFFICES ASSUME NEW d \in Sharers, sharing'[d].at = "generate", NEW h \in handed
               PROVE  h[1] # sharing'[d].entry
    BY <1>1 DEF NoneIsReplaced
  <2>2. CASE d = c
    BY <2>1, <2>2, <1>2, <1>3
  <2>3. CASE d # c
    BY <2>3, <1>3 DEF ShareIInv, NoneIsReplaced
  <2> QED  BY <2>2, <2>3
<1> QED  BY <1>1, <1>4, <1>5, <1>6, <1>7 DEF ShareIInv, QuietShareCodesWork

LEMMA WriteShareCodeStep ==
  ASSUME ShareIInv, NEW c \in Sharers, WriteShareCode(c)
  PROVE  ShareIInv'
<1> DEFINE e == sharing[c].entry
<1>0. PICK k \in Codes \ coded :
      /\ code' = IF e \in there THEN [code EXCEPT ![e] = k] ELSE code
      /\ sharing' = [sharing EXCEPT ![c].at = "answer", ![c].code = k]
  BY DEF WriteShareCode
<1> DEFINE s == [sharing[c] EXCEPT !.at = "answer", !.code = k]
<1>1. sharing[c].at = "generate" /\ UNCHANGED <<there, handed>> /\ sharing[c] \in SharingType
      /\ e \in Entries
  BY DEF WriteShareCode, entryVars, ShareIInv, SharesTyped
<1>2. /\ s \in SharingType /\ s.at = "answer" /\ s.code = k /\ s.entry = e
      /\ s.alone <=> sharing[c].alone
  BY <1>1 DEF SharingType
<1>3. /\ sharing' = [sharing EXCEPT ![c] = s]
      /\ code' = IF e \in there THEN [code EXCEPT ![e] = k] ELSE code
  BY <1>0 DEF ShareIInv, SharesTyped
<1> HIDE DEF s, e
<1>4. sharing'[c] = s /\ \A d \in Sharers \ {c} : sharing'[d] = sharing[d]
  BY <1>3 DEF ShareIInv, SharesTyped
<1>5. SharesTyped'
  BY <1>1, <1>2, <1>3, <1>4 DEF ShareIInv, SharesTyped
<1>6. SharersKnow'
  BY <1>1, <1>2, <1>4 DEF ShareIInv, SharersKnow, e
<1>7. AloneHolds'
  <2> SUFFICES ASSUME NEW d \in Sharers, sharing'[d].at # "idle", sharing'[d].alone
               PROVE  /\ sharing'[d].entry \in there'
                      /\ sharing'[d].at = "answer" =>
                            sharing'[d].code \in Codes /\ code'[sharing'[d].entry] = sharing'[d].code
    BY DEF AloneHolds
  <2>1. CASE d = c
    <3>1. e \in there
      BY <2>1, <1>1, <1>2, <1>4 DEF ShareIInv, AloneHolds, e
    <3> QED  BY <2>1, <3>1, <1>1, <1>2, <1>3, <1>4 DEF ShareIInv, SharesTyped
  <2>2. CASE d # c
    <3>1. sharing[d].entry # e
      BY <2>2, <1>1, <1>4 DEF ShareIInv, SharersKnow, e
    <3> QED  BY <2>2, <3>1, <1>1, <1>3, <1>4 DEF ShareIInv, SharesTyped, AloneHolds
  <2> QED  BY <2>1, <2>2
<1>8. NoneIsReplaced'
  BY <1>1, <1>2, <1>4 DEF ShareIInv, NoneIsReplaced
<1>9. QuietShareCodesWork'
  BY <1>1, <1>3 DEF ShareIInv, SharesTyped, NoneIsReplaced, QuietShareCodesWork, e
<1> QED  BY <1>5, <1>6, <1>7, <1>8, <1>9 DEF ShareIInv

LEMMA AnswerShareCodeStep ==
  ASSUME ShareIInv, NEW c \in Sharers, AnswerShareCode(c)
  PROVE  ShareIInv'
<1>1. /\ sharing[c].at = "answer" /\ sharing' = [sharing EXCEPT ![c] = NoSharing]
      /\ handed' = IF sharing[c].alone THEN handed \cup {<<sharing[c].entry, sharing[c].code>>}
                                       ELSE handed
      /\ UNCHANGED <<there, code>>
  BY DEF AnswerShareCode, entryVars
<1>2. NoSharing \in SharingType /\ NoSharing.at = "idle"
  BY DEF NoSharing, SharingType
<1>3. sharing'[c] = NoSharing /\ \A d \in Sharers \ {c} : sharing'[d] = sharing[d]
  BY <1>1 DEF ShareIInv, SharesTyped
<1>4. SharesTyped'
  BY <1>1, <1>2, <1>3 DEF ShareIInv, SharesTyped, AloneHolds
<1>5. SharersKnow' /\ AloneHolds'
  BY <1>1, <1>2, <1>3 DEF ShareIInv, SharersKnow, AloneHolds
<1>6. NoneIsReplaced'
  BY <1>1, <1>2, <1>3 DEF ShareIInv, SharersKnow, NoneIsReplaced
<1>7. QuietShareCodesWork'
  BY <1>1 DEF ShareIInv, AloneHolds, QuietShareCodesWork
<1> QED  BY <1>4, <1>5, <1>6, <1>7 DEF ShareIInv

(* A link that was handed out works until the entry is unshared, for any   *)
(* number of requests to share it and whatever is marked, deleted and      *)
(* archived meanwhile, unless another request was about the same entry     *)
(* (EntryShareCode, UnshareEntry, FlushHistory, ArchiveEntries).           *)
THEOREM ShareCodesWork == ReadingSpec => []QuietShareCodesWork
<1>1. ReadingInit => ShareIInv
  <2> SUFFICES ASSUME ReadingInit PROVE ShareIInv
    OBVIOUS
  <2>1. NoSharing \in SharingType /\ NoSharing.at = "idle"
    BY DEF NoSharing, SharingType
  <2> QED
    BY <2>1 DEF ReadingInit, ShareIInv, SharesTyped, SharersKnow, AloneHolds, NoneIsReplaced,
                QuietShareCodesWork
<1>2. ShareIInv /\ [ReadingNext]_readingVars => ShareIInv'
  <2> SUFFICES ASSUME ShareIInv, [ReadingNext]_readingVars PROVE ShareIInv'
    OBVIOUS
  <2>1. ASSUME UNCHANGED <<there, codeVars, sharing>> PROVE ShareIInv'
    BY <2>1, MarksKeepShares DEF codeVars, ShareIInv, SharesTyped
  <2>2. ASSUME NEW c \in Syncers, List(c) PROVE ShareIInv'
    BY <2>1, <2>2 DEF List, StartListing, GetEntryIDs, CountEntries, AskAgain, EndListing, entryVars
  <2>3. ASSUME NEW c \in Taggers, EditTag(c) PROVE ShareIInv'
    BY <2>1, <2>3 DEF EditTag, ReadEntries, TagStatus, TagStarred, TaggingFails, entryVars
  <2>4. CASE UnshareEntry
    <3> PICK e \in there : /\ code' = [code EXCEPT ![e] = NoCode]
                           /\ handed' = {h \in handed : h[1] # e}
                           /\ sharing' = NotAlone({e})
      BY <2>4 DEF UnshareEntry
    <3>1. /\ there \ {e} \subseteq there' /\ there' \subseteq Entries /\ {e} \in SUBSET Entries
          /\ code' \in [Entries -> Codes \cup {NoCode}]
          /\ \A d \in Entries \ {e} : code'[d] = code[d]
      BY <2>4 DEF UnshareEntry, entryVars, ShareIInv, SharesTyped
    <3>2. handed' \subseteq handed /\ \A h \in handed' : h[1] \notin {e}
      OBVIOUS
    <3> QED  BY <3>1, <3>2, WithdrawKeepsShares
  <2>5. CASE UNCHANGED readingVars
    BY <2>1, <2>5 DEF readingVars, entryVars
  <2> QED
    BY <2>2, <2>3, <2>4, <2>5, MarkingStep, ReadShareCodeStep, WriteShareCodeStep,
       AnswerShareCodeStep
    DEF ReadingNext, Listing, Tagging, Sharing, Share
<1>3. ShareIInv => QuietShareCodesWork
  BY DEF ShareIInv
<1> QED  BY <1>1, <1>2, <1>3, PTL DEF ReadingSpec
-----------------------------------------------------------------------------
(***************************************************************************)
(* Pages of entries.                                                       *)
(***************************************************************************)

TabFields == {"at", "name", "entry", "k", "read", "next", "offset", "total", "must", "shaken"}
TabOK(l) ==
    /\ DOMAIN l = TabFields
    /\ l.at \in {"making", "open"} => l.name \in EntryPages
    /\ l.at = "making" => l.k \in 1..Len(Steps(l.name))
TabsTyped == tab \in [Tabs -> {tab[t] : t \in Tabs}] /\ \A t \in Tabs : TabOK(tab[t])

(* A page that has still to make its entry read again.                     *)
RestoreAhead(l) == \E j \in l.k..Len(Steps(l.name)) : Steps(l.name)[j] = "restore"
Restores(l, e) == l.at = "making" /\ l.entry = e /\ l.read /\ RestoreAhead(l)

(* Only for the time until then is an entry that was read unread.          *)
UnreadAreRestored == \A e \in settled \cap unread : \E t \in Tabs : Restores(tab[t], e)

PagesIInv == TabsTyped /\ UnreadAreRestored

(* What makes an entry unread makes it read again later, and leaves for    *)
(* the entry's own site only after that.                                   *)
LEMMA StepsRestore ==
  ASSUME NEW page \in EntryPages
  PROVE  /\ Len(Steps(page)) \in Nat \ {0}
         /\ \A k \in 1..Len(Steps(page)) :
               /\ Steps(page)[k] = "unmark" =>
                     \E j \in k..Len(Steps(page)) : Steps(page)[j] = "restore"
               /\ Steps(page)[k] = "redirect" =>
                     \A j \in k..Len(Steps(page)) : Steps(page)[j] # "restore"
<1>1. CASE page = "unread"
  <2>1. Steps(page) = <<"unmark", "siblings", "titles", "view", "restore", "redirect">>
    BY <1>1 DEF Steps, showUnreadEntryPage
  <2> QED  BY <2>1
<1>2. CASE page \in {"unread_feed", "unread_category"}
  <2>1. Steps(page) = <<"mark", "unmark", "siblings", "titles", "restore", "redirect">>
    BY <1>2 DEF Steps, showUnreadFeedEntryPage, showUnreadCategoryEntryPage
  <2> QED  BY <2>1
<1>3. CASE page \in {"feed", "category", "starred", "starred_category", "search", "search_unread"}
  <2>1. Steps(page) = <<"mark", "redirect", "siblings", "titles">>
    BY <1>3 DEF Steps, showFeedEntryPage, showCategoryEntryPage, showStarredEntryPage,
                showStarredCategoryEntryPage, showSearchEntryPage
  <2> QED  BY <2>1
<1>4. CASE page = "tag"
  <2>1. Steps(page) = <<"mark", "siblings", "titles">>
    BY <1>4 DEF Steps, showTagEntryPage
  <2> QED  BY <2>1
<1>5. CASE page = "history"
  <2>1. Steps(page) = <<"redirect", "siblings", "titles">>
    BY <1>5 DEF Steps, showReadEntryPage
  <2> QED  BY <2>1
<1> QED  BY <1>1, <1>2, <1>3, <1>4, <1>5 DEF EntryPages

(* A step of a page that is not the one that restores has it still ahead.  *)
LEMMA MadeIs ==
  ASSUME NEW l, TabOK(l), l.at = "making"
  PROVE  /\ TabOK(Made(l))
         /\ Made(l).name = l.name /\ Made(l).entry = l.entry /\ Made(l).read = l.read
         /\ Steps(l.name)[l.k] # "restore" /\ RestoreAhead(l) =>
               Made(l).at = "making" /\ RestoreAhead(Made(l))
<1> DEFINE n == Len(Steps(l.name))
<1>1. l.name \in EntryPages /\ l.k \in 1..n /\ n \in Nat
  BY StepsRestore DEF TabOK
<1>2. CASE l.k = n
  <2>1. Made(l) = [l EXCEPT !.at = "open", !.k = 0]
    BY <1>2 DEF Made
  <2>2. /\ DOMAIN Made(l) = TabFields /\ Made(l).at = "open"
        /\ Made(l).name = l.name /\ Made(l).entry = l.entry /\ Made(l).read = l.read
    BY <2>1 DEF TabOK, TabFields
  <2> QED  BY <2>2, <1>1, <1>2 DEF TabOK, RestoreAhead
<1>3. CASE l.k # n
  <2>1. Made(l) = [l EXCEPT !.k = l.k + 1]
    BY <1>3 DEF Made
  <2>2. /\ DOMAIN Made(l) = TabFields /\ Made(l).at = "making" /\ Made(l).k = l.k + 1
        /\ Made(l).name = l.name /\ Made(l).entry = l.entry /\ Made(l).read = l.read
    BY <2>1 DEF TabOK, TabFields
  <2> QED  BY <2>2, <1>1, <1>3 DEF TabOK, RestoreAhead
<1> QED  BY <1>2, <1>3

(* What others do to a tab is none of this.                                *)
LEMMA FollowedIs ==
  ASSUME NEW l, TabOK(l), NEW was, NEW now, NEW linked
  PROVE  /\ TabOK(Followed(l, was, now, linked))
         /\ \A e : Restores(l, e) => Restores(Followed(l, was, now, linked), e)
<1> DEFINE m == Followed(l, was, now, linked)
<1>1. /\ DOMAIN m = TabFields /\ m.at = l.at /\ m.name = l.name /\ m.entry = l.entry
      /\ m.k = l.k /\ m.read = l.read
  BY DEF Followed, TabOK, TabFields
<1> HIDE DEF m
<1>2. TabOK(m) /\ \A e : Restores(l, e) => Restores(m, e)
  BY <1>1 DEF TabOK, Restores, RestoreAhead
<1> QED  BY <1>2 DEF m

LEMMA TabsAfterIs ==
  ASSUME TabsTyped, NEW t, NEW new, TabsAfter(t, new), t \in Tabs => TabOK(new)
  PROVE  /\ TabsTyped'
         /\ t \in Tabs => tab'[t] = new
         /\ \A e : \A s \in Tabs \ {t} : Restores(tab[s], e) => Restores(tab'[s], e)
<1>1. PICK F, G : tab' = [s \in Tabs |-> IF s = t THEN new ELSE
                       IF tab[s].at = "closed" THEN tab[s]
                       ELSE Followed(tab[s], Held(tab[s]), F[tab[s]], G[tab[s]])]
  <2> DEFINE were == {tab[s] : s \in Tabs}
             now == [l \in were |-> Held(l)']
             linked == [l \in were |-> Linked(l)']
  <2>1. tab' = [s \in Tabs |-> IF s = t THEN new ELSE
                  IF tab[s].at = "closed" THEN tab[s]
                  ELSE Followed(tab[s], Held(tab[s]), now[tab[s]], linked[tab[s]])]
    BY DEF TabsAfter
  <2> HIDE DEF now, linked
  <2> QED  BY <2>1
<1>2. \A s \in Tabs \ {t} : /\ TabOK(tab'[s])
                            /\ \A e : Restores(tab[s], e) => Restores(tab'[s], e)
  BY <1>1, FollowedIs DEF TabsTyped
<1>3. TabsTyped'
  BY <1>1, <1>2 DEF TabsTyped
<1> QED  BY <1>1, <1>2, <1>3

(* The step of a page, which may have changed what it knows of its entry.  *)
LEMMA StepIs ==
  ASSUME NEW l, TabOK(l), l.at = "making", Step(l) # "restore",
         NEW m, DOMAIN m = TabFields, m.at = l.at, m.name = l.name, m.k = l.k,
         m.entry = l.entry, l.read => m.read
  PROVE  TabOK(Made(m)) /\ \A e : Restores(l, e) => Restores(Made(m), e)
<1>1. TabOK(m)
  BY DEF TabOK
<1>2. Steps(m.name)[m.k] # "restore" /\ \A e : Restores(l, e) => Restores(m, e)
  BY DEF Step, Restores, RestoreAhead
<1> QED  BY <1>1, <1>2, MadeIs DEF Restores

(* A tab changes, and the entries do not.                                  *)
LEMMA TabStep ==
  ASSUME PagesIInv, NEW t \in Tabs, NEW new, tab' = [tab EXCEPT ![t] = new], TabOK(new),
         \A e : Restores(tab[t], e) => Restores(new, e),
         UNCHANGED <<unread, settled>>
  PROVE  PagesIInv'
<1>1. tab'[t] = new /\ \A s \in Tabs \ {t} : tab'[s] = tab[s]
  BY DEF PagesIInv, TabsTyped
<1>2. TabsTyped'
  BY <1>1 DEF PagesIInv, TabsTyped
<1>3. UnreadAreRestored'
  BY <1>1 DEF PagesIInv, UnreadAreRestored
<1> QED  BY <1>2, <1>3 DEF PagesIInv

(* A page writes the status of its entry.                                  *)
LEMMA WriteStep ==
  ASSUME PagesIInv, NEW t \in Tabs, NEW S, NEW new, Write(t, S, new), TabOK(new),
         \A e \in settled \cap S : e \in unread \/ Restores(new, e),
         \A e \in S : Restores(tab[t], e) => Restores(new, e)
  PROVE  PagesIInv'
<1>1. /\ unread' = S /\ settled' = (settled \cup (unread \ S)) \cap there
      /\ TabsAfter(t, new)
  BY DEF Write
<1>2. /\ TabsTyped' /\ tab'[t] = new
      /\ \A e : \A s \in Tabs \ {t} : Restores(tab[s], e) => Restores(tab'[s], e)
  BY <1>1, TabsAfterIs DEF PagesIInv
<1>3. UnreadAreRestored'
  <2> SUFFICES ASSUME NEW e \in settled \cap S
               PROVE  \E s \in Tabs : Restores(tab'[s], e)
    BY <1>1 DEF UnreadAreRestored
  <2>1. CASE Restores(new, e)
    BY <2>1, <1>2
  <2>2. CASE e \in unread
    <3> PICK s \in Tabs : Restores(tab[s], e)
      BY <2>2 DEF PagesIInv, UnreadAreRestored
    <3> QED  BY <1>2
  <2> QED  BY <2>1, <2>2
<1> QED  BY <1>2, <1>3 DEF PagesIInv

LEMMA ClosedIs == TabOK(Closed) /\ Closed.at = "closed"
  BY DEF Closed, TabOK, TabFields

(* Pages open.                                                             *)
LEMMA OpeningStep ==
  ASSUME PagesIInv, NEW t \in Tabs, OpenEntry(t) \/ FollowNext(t) \/ CloseTab(t) \/ Browse(t)
  PROVE  PagesIInv'
<1>1. tab[t].at # "making" /\ \A e : ~Restores(tab[t], e)
  BY DEF OpenEntry, FollowNext, CloseTab, Browse, OpenList, NextPage, LastPage, Restores
<1>2. ASSUME NEW page \in EntryPages, NEW e, NEW must, NEW shaken
      PROVE  TabOK(Opened(page, e, must, shaken))
  <2> DEFINE l == [Closed EXCEPT !.at = "making", !.name = page, !.entry = e, !.k = 1,
                                 !.read = e \notin unread, !.shaken = shaken]
             m == [l EXCEPT !.must = IF Joins(l) THEN must ELSE {}]
  <2>1. /\ DOMAIN l = TabFields /\ l.at = "making" /\ l.name = page /\ l.k = 1
    BY DEF Closed, TabFields
  <2> HIDE DEF l
  <2>2. /\ DOMAIN m = TabFields /\ m.at = "making" /\ m.name = page /\ m.k = 1
    BY <2>1 DEF TabFields
  <2> HIDE DEF m
  <2>3. TabOK(m)
    BY <2>2, StepsRestore DEF TabOK
  <2> QED  BY <2>3 DEF Opened, l, m
<1>3. ASSUME NEW l, DOMAIN l = TabFields, NEW list, NEW offset
      PROVE  /\ DOMAIN Shown(l, list, offset) = TabFields
             /\ Shown(l, list, offset).at = "list"
  <2> DEFINE M == ListOf(list).of
             from == IF list = "unread" /\ offset >= Cardinality(M) /\ M # {} THEN 0 ELSE offset
             l1 == [l EXCEPT !.at = "list", !.name = list, !.offset = from, !.total = Cardinality(M)]
             m == [l1 EXCEPT !.must = l1.must \ Cut(M, from)]
  <2> HIDE DEF M, from
  <2>1. DOMAIN l1 = TabFields /\ l1.at = "list"
    BY <1>3 DEF TabFields
  <2> HIDE DEF l1
  <2>2. DOMAIN m = TabFields /\ m.at = "list"
    BY <2>1 DEF TabFields
  <2> QED  BY <2>2 DEF Shown, M, from, l1
<1>4. CASE OpenEntry(t)
  <2> PICK page \in EntryPages, e \in there : \E must :
         tab' = [tab EXCEPT ![t] = Opened(page, e, must, FALSE)]
    BY <1>4 DEF OpenEntry
  <2> QED  BY <1>1, <1>2, <1>4, TabStep DEF OpenEntry
<1>5. CASE FollowNext(t)
  <2>1. TabOK(tab[t]) /\ tab[t].at = "open"
    BY <1>5 DEF FollowNext, PagesIInv, TabsTyped
  <2>2. tab[t].name \in EntryPages
    BY <2>1 DEF TabOK
  <2> QED  BY <1>1, <1>2, <1>5, <2>2, ClosedIs, TabStep DEF FollowNext
<1>6. CASE CloseTab(t)
  BY <1>1, <1>6, ClosedIs, TabStep DEF CloseTab
<1>7. CASE Browse(t)
  <2>1. UNCHANGED <<unread, settled>>
    BY <1>7 DEF Browse, OpenList, NextPage, LastPage
  <2>2. \E new : tab' = [tab EXCEPT ![t] = new] /\ DOMAIN new = TabFields /\ new.at = "list"
    <3>1. CASE OpenList(t)
      <4> PICK list \in Lists :
             tab' = [tab EXCEPT ![t] = Shown([Closed EXCEPT !.must = ListOf(list).of], list, 0)]
        BY <3>1 DEF OpenList
      <4>1. DOMAIN [Closed EXCEPT !.must = ListOf(list).of] = TabFields
        BY DEF Closed, TabFields
      <4> QED  BY <4>1, <1>3
    <3>2. DOMAIN tab[t] = TabFields
      BY DEF PagesIInv, TabsTyped, TabOK
    <3>3. CASE NextPage(t)
      BY <3>2, <3>3, <1>3 DEF NextPage
    <3>4. CASE LastPage(t)
      <4> DEFINE l == Shown(tab[t], tab[t].name, LastOffset(tab[t].total))
      <4>1. DOMAIN l = TabFields /\ l.at = "list"
        BY <3>2, <1>3
      <4> HIDE DEF l
      <4>2. LET m == [l EXCEPT !.shaken = TRUE] IN DOMAIN m = TabFields /\ m.at = "list"
        BY <4>1 DEF TabFields
      <4> QED  BY <4>2, <3>4 DEF LastPage, l
    <3> QED  BY <3>1, <3>3, <3>4, <1>7 DEF Browse
  <2>3. PICK new : tab' = [tab EXCEPT ![t] = new] /\ DOMAIN new = TabFields /\ new.at = "list"
    BY <2>2
  <2>4. TabOK(new)
    BY <2>3 DEF TabOK
  <2> QED  BY <2>1, <2>3, <2>4, <1>1, TabStep
<1> QED  BY <1>4, <1>5, <1>6, <1>7

(* The steps of a page that is being made.                                 *)
LEMMA MakingStep ==
  ASSUME PagesIInv, NEW t \in Tabs,
         MarkOnView(t) \/ MakeUnread(t) \/ FindSiblings(t) \/ ReadTitles(t) \/ ViewInMemory(t)
            \/ Restore(t) \/ RedirectOut(t) \/ PageFails(t)
  PROVE  PagesIInv'
<1> DEFINE l == tab[t]
<1>1. TabOK(l) /\ DOMAIN l = TabFields
  BY DEF PagesIInv, TabsTyped, TabOK
<1>2. l.at = "making"
  BY DEF MarkOnView, MakeUnread, FindSiblings, ReadTitles, ViewInMemory, Restore, RedirectOut,
         PageFails, Step
<1>3. l.name \in EntryPages /\ l.k \in 1..Len(Steps(l.name)) /\ Step(l) = Steps(l.name)[l.k]
  BY <1>1, <1>2 DEF TabOK, Step
<1> HIDE DEF l
<1>4. CASE MarkOnView(t)
  <2>1. Step(l) = "mark"
    BY <1>4 DEF MarkOnView, l
  <2>2. CASE MarksOnView(l)
    <3> DEFINE m == [l EXCEPT !.read = TRUE]
    <3>1. DOMAIN m = TabFields /\ m.at = l.at /\ m.name = l.name /\ m.k = l.k
          /\ m.entry = l.entry /\ m.read
      BY <1>1 DEF TabFields
    <3>2. Write(t, unread \ {l.entry}, Made(m))
      BY <1>4, <2>2 DEF MarkOnView, l
    <3> HIDE DEF m
    <3>3. TabOK(Made(m)) /\ \A e : Restores(l, e) => Restores(Made(m), e)
      BY <1>1, <1>2, <2>1, <3>1, StepIs
    <3> QED  BY <3>2, <3>3, WriteStep DEF l
  <2>3. CASE ~MarksOnView(l)
    <3>1. tab' = [tab EXCEPT ![t] = Made(l)] /\ UNCHANGED <<unread, settled>>
      BY <1>4, <2>3 DEF MarkOnView, l
    <3>2. TabOK(Made(l)) /\ \A e : Restores(l, e) => Restores(Made(l), e)
      BY <1>1, <1>2, <2>1, StepIs
    <3> QED  BY <3>1, <3>2, TabStep DEF l
  <2> QED  BY <2>2, <2>3
<1>5. CASE MakeUnread(t)
  <2>1. Step(l) = "unmark"
    BY <1>5 DEF MakeUnread, l
  <2>2. TabOK(Made(l)) /\ \A e : Restores(l, e) => Restores(Made(l), e)
    BY <1>1, <1>2, <2>1, StepIs
  <2>3. CASE l.read
    <3>1. Write(t, unread \cup ({l.entry} \cap there), Made(l))
      BY <1>5, <2>3 DEF MakeUnread, l
    <3>2. RestoreAhead(l)
      BY <1>3, <2>1, StepsRestore DEF RestoreAhead
    <3>3. Restores(Made(l), l.entry)
      BY <1>2, <2>2, <2>3, <3>2 DEF Restores
    <3> QED  BY <2>2, <3>1, <3>3, WriteStep DEF l
  <2>4. CASE ~l.read
    BY <1>5, <2>2, <2>4, TabStep DEF MakeUnread, l
  <2> QED  BY <2>3, <2>4
<1>6. CASE FindSiblings(t)
  <2> PICK e \in NextAmong(l) : tab' = [tab EXCEPT ![t] = Made([l EXCEPT !.next = e])]
    BY <1>6 DEF FindSiblings, l
  <2> DEFINE m == [l EXCEPT !.next = e]
  <2>1. DOMAIN m = TabFields /\ m.at = l.at /\ m.name = l.name /\ m.k = l.k
        /\ m.entry = l.entry /\ m.read = l.read
    BY <1>1 DEF TabFields
  <2>2. Step(l) = "siblings" /\ UNCHANGED <<unread, settled>> /\ tab' = [tab EXCEPT ![t] = Made(m)]
    BY <1>6 DEF FindSiblings, l
  <2> HIDE DEF m
  <2>3. TabOK(Made(m)) /\ \A d : Restores(l, d) => Restores(Made(m), d)
    BY <1>1, <1>2, <2>1, <2>2, StepIs
  <2> QED  BY <2>2, <2>3, TabStep DEF l
<1>7. CASE ReadTitles(t)
  <2> DEFINE m == [l EXCEPT !.next = IF l.next \in there THEN l.next ELSE NoEntry]
  <2>1. DOMAIN m = TabFields /\ m.at = l.at /\ m.name = l.name /\ m.k = l.k
        /\ m.entry = l.entry /\ m.read = l.read
    BY <1>1 DEF TabFields
  <2>2. Step(l) = "titles" /\ UNCHANGED <<unread, settled>> /\ tab' = [tab EXCEPT ![t] = Made(m)]
    BY <1>7 DEF ReadTitles, l
  <2> HIDE DEF m
  <2>3. TabOK(Made(m)) /\ \A d : Restores(l, d) => Restores(Made(m), d)
    BY <1>1, <1>2, <2>1, <2>2, StepIs
  <2> QED  BY <2>2, <2>3, TabStep DEF l
<1>8. CASE ViewInMemory(t)
  <2> DEFINE m == [l EXCEPT !.read = l.read \/ MarksOnView(l)]
  <2>1. DOMAIN m = TabFields /\ m.at = l.at /\ m.name = l.name /\ m.k = l.k
        /\ m.entry = l.entry /\ (l.read => m.read)
    BY <1>1 DEF TabFields
  <2>2. Step(l) = "view" /\ UNCHANGED <<unread, settled>> /\ tab' = [tab EXCEPT ![t] = Made(m)]
    BY <1>8 DEF ViewInMemory, l
  <2> HIDE DEF m
  <2>3. TabOK(Made(m)) /\ \A d : Restores(l, d) => Restores(Made(m), d)
    BY <1>1, <1>2, <2>1, <2>2, StepIs
  <2> QED  BY <2>2, <2>3, TabStep DEF l
<1>9. CASE Restore(t)
  <2>1. TabOK(Made(l))
    BY <1>1, <1>2, MadeIs
  <2>2. CASE l.read
    <3>1. Write(t, unread \ {l.entry}, Made(l))
      BY <1>9, <2>2 DEF Restore, l
    <3>2. \A e \in unread \ {l.entry} : ~Restores(l, e)
      BY DEF Restores
    <3> QED  BY <2>1, <3>1, <3>2, WriteStep DEF l
  <2>3. CASE ~l.read
    <3>1. \A e : ~Restores(l, e)
      BY <2>3 DEF Restores
    <3> QED  BY <1>9, <2>1, <2>3, <3>1, TabStep DEF Restore, l
  <2> QED  BY <2>2, <2>3
<1>10. CASE RedirectOut(t)
  <2>1. Step(l) = "redirect"
    BY <1>10 DEF RedirectOut, l
  <2>2. \A e : ~Restores(l, e)
    BY <2>1, <1>3, StepsRestore DEF Restores, RestoreAhead
  <2>3. TabOK(Made(l))
    BY <1>1, <1>2, MadeIs
  <2> QED  BY <1>10, <2>2, <2>3, ClosedIs, TabStep DEF RedirectOut, l
<1>11. CASE PageFails(t)
  <2>1. /\ tab' = [tab EXCEPT ![t] = Closed] /\ settled' = settled \ ({l.entry} \cap unread)
        /\ unread' = unread
    BY <1>11 DEF PageFails, l
  <2>2. tab'[t] = Closed /\ \A s \in Tabs \ {t} : tab'[s] = tab[s]
    BY <2>1 DEF PagesIInv, TabsTyped
  <2>3. TabsTyped'
    BY <2>1, <2>2, ClosedIs DEF PagesIInv, TabsTyped
  <2>4. UnreadAreRestored'
    BY <2>1, <2>2 DEF PagesIInv, UnreadAreRestored, Restores, l
  <2> QED  BY <2>3, <2>4 DEF PagesIInv
<1> QED  BY <1>4, <1>5, <1>6, <1>7, <1>8, <1>9, <1>10, <1>11

(* An entry that was read stays so: what a page makes unread to find its   *)
(* neighbours it makes read again, however many pages of it are made at    *)
(* once and whatever is marked meanwhile (showUnreadEntryPage and the      *)
(* pages like it, ShouldMarkAsReadOnView).                                 *)
THEOREM OpeningsKeepRead == PagesSpec => []QuietOpeningsKeepRead
<1>1. ReadingInit /\ PagesInit => PagesIInv
  BY ClosedIs DEF ReadingInit, PagesInit, PagesIInv, TabsTyped, UnreadAreRestored
<1>2. PagesIInv /\ [PagesNext]_<<readingVars, pageVars>> => PagesIInv'
  <2> SUFFICES ASSUME PagesIInv, [PagesNext]_<<readingVars, pageVars>> PROVE PagesIInv'
    OBVIOUS
  <2>1. CASE MarkElsewhere
    <3>1. TabsAfter(NoEntry, Closed) /\ NoEntry \notin Tabs
          /\ settled' = ((settled \cup (unread \ unread')) \ (unread' \ unread)) \cap there'
      BY <2>1, PagesAssumption DEF MarkElsewhere
    <3>2. /\ TabsTyped'
          /\ \A e : \A s \in Tabs : Restores(tab[s], e) => Restores(tab'[s], e)
      BY <3>1, TabsAfterIs DEF PagesIInv
    <3>3. UnreadAreRestored'
      BY <3>1, <3>2 DEF PagesIInv, UnreadAreRestored
    <3> QED  BY <3>2, <3>3 DEF PagesIInv
  <2>2. CASE UNCHANGED <<readingVars, pageVars>>
    BY <2>2 DEF readingVars, entryVars, pageVars, PagesIInv, TabsTyped, UnreadAreRestored
  <2> QED  BY <2>1, <2>2, OpeningStep, MakingStep DEF PagesNext, Page
<1>3. PagesIInv => QuietOpeningsKeepRead
  BY DEF PagesIInv, UnreadAreRestored, Restores, QuietOpeningsKeepRead
<1> QED  BY <1>1, <1>2, <1>3, PTL DEF PagesSpec
-----------------------------------------------------------------------------
(***************************************************************************)
(* Streams and lists by pages.                                             *)
(***************************************************************************)

(* An order of entries, in which two may have one place.                   *)
IsOrder(R) ==
    /\ R \subseteq Entries \X Entries
    /\ \A e : <<e, e>> \notin R
    /\ \A e, d, f : <<e, d>> \in R /\ <<d, f>> \in R => <<e, f>> \in R
PlaceIn(M, e, R) == Cardinality({d \in M : <<d, e>> \in R})

(* An entry's place is a number, below that of any that comes later.       *)
LEMMA PlacesAreOrdered ==
  ASSUME NEW M \in SUBSET Entries, NEW R, IsOrder(R)
  PROVE  /\ IsFiniteSet(M) /\ Cardinality(M) \in Nat
         /\ \A e : PlaceIn(M, e, R) \in Nat
         /\ \A e \in M : PlaceIn(M, e, R) < Cardinality(M)
         /\ \A e, d : d \in M /\ <<d, e>> \in R => PlaceIn(M, d, R) < PlaceIn(M, e, R)
<1>1. IsFiniteSet(M) /\ Cardinality(M) \in Nat
  BY ReadingAssumption, FS_Subset, FS_CardinalityType
<1> DEFINE Ahd(e) == {d \in M : <<d, e>> \in R}
<1>2. ASSUME NEW e PROVE IsFiniteSet(Ahd(e)) /\ PlaceIn(M, e, R) \in Nat
  <2>1. Ahd(e) \in SUBSET M
    OBVIOUS
  <2> HIDE DEF Ahd
  <2>2. IsFiniteSet(Ahd(e)) /\ Cardinality(Ahd(e)) \in Nat
    BY <1>1, <2>1, FS_Subset, FS_CardinalityType
  <2> QED  BY <2>2 DEF Ahd, PlaceIn
<1>3. ASSUME NEW S, IsFiniteSet(S), NEW T \in SUBSET S, NEW x \in S, x \notin T
      PROVE  Cardinality(T) < Cardinality(S)
  <2>1. IsFiniteSet(T) /\ Cardinality(T) <= Cardinality(S) /\ Cardinality(T) # Cardinality(S)
    BY <1>3, FS_Subset
  <2>2. Cardinality(T) \in Nat /\ Cardinality(S) \in Nat
    BY <2>1, <1>3, FS_CardinalityType
  <2> QED  BY <2>1, <2>2
<1>4. ASSUME NEW e \in M PROVE PlaceIn(M, e, R) < Cardinality(M)
  <2>1. Ahd(e) \in SUBSET M /\ e \notin Ahd(e)
    BY DEF IsOrder
  <2> HIDE DEF Ahd
  <2>2. Cardinality(Ahd(e)) < Cardinality(M)
    BY <2>1, <1>1, <1>3
  <2> QED  BY <2>2 DEF Ahd, PlaceIn
<1>5. ASSUME NEW e, NEW d \in M, <<d, e>> \in R
      PROVE  PlaceIn(M, d, R) < PlaceIn(M, e, R)
  <2>1. Ahd(d) \in SUBSET Ahd(e) /\ d \in Ahd(e) /\ d \notin Ahd(d)
    BY <1>5 DEF IsOrder
  <2>2. IsFiniteSet(Ahd(e))
    BY <1>2
  <2> HIDE DEF Ahd
  <2>3. Cardinality(Ahd(d)) < Cardinality(Ahd(e))
    BY <2>1, <2>2, <1>3
  <2> QED  BY <2>3 DEF Ahd, PlaceIn
<1> QED  BY <1>1, <1>2, <1>4, <1>5

(* When those at the first n places stay, nobody comes to these places who *)
(* was behind them.                                                        *)
LEMMA NobodyMovesUp ==
  ASSUME NEW M \in SUBSET Entries, NEW K \in SUBSET Entries, NEW R, IsOrder(R), NEW n \in Nat,
         \A d \in M : PlaceIn(M, d, R) < n => d \in K,
         NEW e, PlaceIn(K, e, R) < n
  PROVE  PlaceIn(M, e, R) < n
<1>0. \A d : PlaceIn(M, d, R) \in Nat
  BY PlacesAreOrdered
<1> SUFFICES ASSUME PlaceIn(M, e, R) >= n PROVE FALSE
  BY <1>0
<1> DEFINE Ahd == {d \in M : <<d, e>> \in R}
           First == {d \in Ahd : PlaceIn(M, d, R) < n}
           Stayed == {d \in K : <<d, e>> \in R}
<1>1. /\ IsFiniteSet(Ahd) /\ Cardinality(Ahd) >= n /\ IsFiniteSet(Stayed) /\ First \subseteq Ahd
      /\ Cardinality(Stayed) < n /\ First \in SUBSET Stayed /\ Stayed \in SUBSET Entries
  <2>1. Ahd \in SUBSET Entries /\ Stayed \in SUBSET Entries /\ First \subseteq Ahd /\ First \in SUBSET Stayed
    OBVIOUS
  <2>2. Cardinality(Ahd) >= n /\ Cardinality(Stayed) < n
    BY DEF PlaceIn
  <2> HIDE DEF Ahd, First, Stayed
  <2> QED  BY <2>1, <2>2, ReadingAssumption, FS_Subset
<1>2. Cardinality(First) <= Cardinality(Stayed) /\ Cardinality(First) \in Nat /\ Cardinality(Stayed) \in Nat
  <2> HIDE DEF Ahd, First, Stayed
  <2> QED  BY <1>1, FS_Subset, FS_CardinalityType
<1>3. CASE First = Ahd
  <2> HIDE DEF Ahd, First, Stayed
  <2> QED  BY <1>1, <1>2, <1>3
<1>4. CASE First # Ahd
  <2> DEFINE Late == {PlaceIn(M, d, R) : d \in Ahd \ First}
  <2>1. Late \in SUBSET Nat /\ Late # {}
    BY <1>4, PlacesAreOrdered
  <2>2. PICK r \in Late : \A q \in Late : r <= q
    <3> HIDE DEF Late
    <3> QED  BY <2>1, LeastNumber
  <2>3. PICK b \in Ahd \ First : r = PlaceIn(M, b, R)
    OBVIOUS
  <2>4. PlaceIn(M, b, R) >= n /\ b \in M /\ <<b, e>> \in R
    BY <2>3, PlacesAreOrdered
  <2> DEFINE Sooner == {d \in M : <<d, b>> \in R}
  <2>5. Sooner \in SUBSET First
    <3> SUFFICES ASSUME NEW d \in M, <<d, b>> \in R PROVE d \in First
      OBVIOUS
    <3>1. <<d, e>> \in R
      BY <2>4 DEF IsOrder
    <3>2. PlaceIn(M, d, R) < PlaceIn(M, b, R)
      BY <2>4, PlacesAreOrdered
    <3>3. PlaceIn(M, d, R) \in Nat /\ PlaceIn(M, b, R) \in Nat
      BY <1>0
    <3>4. ~(PlaceIn(M, b, R) <= PlaceIn(M, d, R))
      BY <3>2, <3>3
    <3>5. PlaceIn(M, d, R) \notin Late
      <4> HIDE DEF Late
      <4> QED  BY <2>2, <2>3, <3>4
    <3> QED  BY <3>1, <3>5
  <2>6. Cardinality(Sooner) >= n
    BY <2>4 DEF PlaceIn
  <2>7. IsFiniteSet(First)
    <3> HIDE DEF Ahd, First, Stayed
    <3> QED  BY <1>1, FS_Subset
  <2>8. Cardinality(Sooner) <= Cardinality(First) /\ Cardinality(Sooner) \in Nat
    <3> HIDE DEF Sooner, First
    <3> QED  BY <2>5, <2>7, FS_Subset, FS_CardinalityType
  <2> QED  BY <2>6, <2>8, <1>1, <1>2
<1> QED  BY <1>3, <1>4

(* The order of a stream, by date.                                         *)
RankIn(M, e, newest) == Cardinality({d \in M : Earlier(d, e, newest)})
ByDate(newest) == {p \in Entries \X Entries : Earlier(p[1], p[2], newest)}

(* Dates are an order, and ranks the places in it.                         *)
LEMMA DatesAreAnOrder ==
  ASSUME NEW newest
  PROVE  /\ IsOrder(ByDate(newest))
         /\ \A M \in SUBSET Entries, e \in Entries : RankIn(M, e, newest) = PlaceIn(M, e, ByDate(newest))
<1>1. IsOrder(ByDate(newest))
  BY ReadingAssumption DEF IsOrder, ByDate, Earlier
<1>2. ASSUME NEW M \in SUBSET Entries, NEW e \in Entries
      PROVE  RankIn(M, e, newest) = PlaceIn(M, e, ByDate(newest))
  <2>1. {d \in M : Earlier(d, e, newest)} = {d \in M : <<d, e>> \in ByDate(newest)}
    BY DEF ByDate
  <2> QED  BY <2>1 DEF RankIn, PlaceIn
<1> QED  BY <1>1, <1>2

(* Ranks are numbers below that of the entries.                            *)
LEMMA RanksOrder ==
  ASSUME NEW M \in SUBSET Entries, NEW newest
  PROVE  /\ IsFiniteSet(M) /\ Cardinality(M) \in Nat
         /\ \A e \in Entries : RankIn(M, e, newest) \in Nat
         /\ \A e \in M : RankIn(M, e, newest) < Cardinality(M)
BY DatesAreAnOrder, PlacesAreOrdered

(* What OFFSET and LIMIT cut out of entries in order.                      *)
PlacesOf(M, e, newest) ==
  RankIn(M, e, newest)..RankIn(M, e, newest) + Cardinality({d \in M : Date(d) = Date(e)}) - 1
CutOut(M, P, newest, from, n) == \A e \in M :
  Cardinality(P \cap {d \in M : Date(d) = Date(e)}) =
    Cardinality(PlacesOf(M, e, newest) \cap (from..from + n - 1))

(* Entries of one date share their places, those of two have none in       *)
(* common.                                                                 *)
LEMMA PlacesApart ==
  ASSUME NEW M \in SUBSET Entries, NEW newest \in BOOLEAN, NEW e \in M, NEW d \in M
  PROVE  /\ Date(d) = Date(e) => PlacesOf(M, d, newest) = PlacesOf(M, e, newest)
         /\ Date(d) # Date(e) => PlacesOf(M, d, newest) \cap PlacesOf(M, e, newest) = {}
<1> DEFINE Same(x) == {y \in M : Date(y) = Date(x)}
           Ahd(x) == {y \in M : Earlier(y, x, newest)}
<1>1. ASSUME Date(d) = Date(e) PROVE PlacesOf(M, d, newest) = PlacesOf(M, e, newest)
  BY <1>1 DEF PlacesOf, RankIn, Earlier
<1>2. ASSUME NEW x \in M, NEW y \in M, Earlier(x, y, newest)
      PROVE  PlacesOf(M, x, newest) \cap PlacesOf(M, y, newest) = {}
  <2>1. /\ Same(x) \in SUBSET M /\ Ahd(x) \in SUBSET M /\ Ahd(y) \in SUBSET M
        /\ Same(x) \cap Ahd(x) = {} /\ (Same(x) \cup Ahd(x)) \in SUBSET Ahd(y)
    BY <1>2, ReadingAssumption DEF Earlier
  <2>2. RankIn(M, x, newest) = Cardinality(Ahd(x)) /\ RankIn(M, y, newest) = Cardinality(Ahd(y))
    BY DEF RankIn
  <2>3. PlacesOf(M, x, newest) =
          RankIn(M, x, newest)..RankIn(M, x, newest) + Cardinality(Same(x)) - 1
    BY DEF PlacesOf
  <2> HIDE DEF Same, Ahd
  <2>4. IsFiniteSet(Same(x)) /\ IsFiniteSet(Ahd(x)) /\ IsFiniteSet(Ahd(y))
    BY <2>1, RanksOrder, FS_Subset
  <2>5. Cardinality(Same(x) \cup Ahd(x)) = Cardinality(Same(x)) + Cardinality(Ahd(x)) - Cardinality({})
    BY <2>1, <2>4, FS_Union
  <2>6. Cardinality(Same(x) \cup Ahd(x)) <= Cardinality(Ahd(y))
    BY <2>1, <2>4, FS_Subset
  <2>7. Cardinality(Same(x)) \in Nat /\ Cardinality(Ahd(x)) \in Nat /\ Cardinality(Ahd(y)) \in Nat
    BY <2>4, FS_CardinalityType
  <2>8. Cardinality(Same(x)) + RankIn(M, x, newest) <= RankIn(M, y, newest)
    BY <2>2, <2>5, <2>6, <2>7, FS_EmptySet
  <2> SUFFICES ASSUME NEW k \in PlacesOf(M, x, newest), k \in PlacesOf(M, y, newest) PROVE FALSE
    OBVIOUS
  <2>9. k <= RankIn(M, x, newest) + Cardinality(Same(x)) - 1 /\ k \in Int
    BY <2>2, <2>3, <2>7
  <2>10. k >= RankIn(M, y, newest)
    BY <2>2, <2>7 DEF PlacesOf
  <2> QED  BY <2>2, <2>7, <2>8, <2>9, <2>10
<1>3. ASSUME Date(d) # Date(e) PROVE PlacesOf(M, d, newest) \cap PlacesOf(M, e, newest) = {}
  <2>1. Earlier(d, e, newest) \/ Earlier(e, d, newest)
    BY <1>3, ReadingAssumption DEF Earlier
  <2> QED  BY <2>1, <1>2
<1> QED  BY <1>1, <1>3

(* LIMIT: no more entries come than were asked for.                        *)
LEMMA NoMoreThanAsked ==
  ASSUME NEW M \in SUBSET Entries, NEW P \in SUBSET M, NEW newest \in BOOLEAN,
         NEW from \in Nat, NEW n \in Nat, CutOut(M, P, newest, from, n)
  PROVE  IsFiniteSet(P) /\ Cardinality(P) \in Nat /\ Cardinality(P) <= n
<1> DEFINE Window == from..from + n - 1
           Same(x) == {y \in M : Date(y) = Date(x)}
           Part(x) == P \cap Same(x)
           Room(x) == PlacesOf(M, x, newest) \cap Window
           put(x) == CHOOSE f : f \in Bijection(Part(x), Room(x))
           all == [x \in P |-> put(x)[x]]
<1>1. IsFiniteSet(Window) /\ Cardinality(Window) = n /\ IsFiniteSet(P) /\ Cardinality(P) \in Nat
  <2>1. from \in Int /\ from + n - 1 \in Int
    OBVIOUS
  <2>2. IsFiniteSet(Window) /\ Cardinality(Window) = n
    BY <2>1, FS_Interval
  <2>3. P \in SUBSET Entries
    OBVIOUS
  <2> HIDE DEF Window
  <2> QED  BY <2>2, <2>3, ReadingAssumption, FS_Subset, FS_CardinalityType
<1>2. ASSUME NEW x \in M PROVE put(x) \in Bijection(Part(x), Room(x))
  <2>1. Part(x) \in SUBSET P /\ Room(x) \in SUBSET Window
    OBVIOUS
  <2>2. Cardinality(Part(x)) = Cardinality(Room(x))
    BY DEF CutOut
  <2> HIDE DEF Part, Room, Window
  <2>3. ExistsBijection(Part(x), Room(x))
    BY <1>1, <2>1, <2>2, FS_Subset, FS_SameCardinalityBij
  <2> QED  BY <2>3 DEF ExistsBijection
<1> HIDE DEF put
<1>3. ASSUME NEW x \in P PROVE x \in Part(x) /\ put(x)[x] \in Room(x)
  BY <1>2 DEF Bijection, Injection
<1>4. ASSUME NEW x \in P, NEW y \in P, put(x)[x] = put(y)[y] PROVE x = y
  <2>1. CASE Date(x) = Date(y)
    <3>1. Part(x) = Part(y) /\ Room(x) = Room(y)
      BY <2>1, PlacesApart
    <3>2. put(x) = put(y)
      BY <3>1 DEF put
    <3> HIDE DEF Part, Room
    <3> QED  BY <1>2, <1>3, <1>4, <3>1, <3>2 DEF Bijection, Injection, IsInjective
  <2>2. CASE Date(x) # Date(y)
    BY <1>3, <1>4, <2>2, PlacesApart
  <2> QED  BY <2>1, <2>2
<1>5. all \in [P -> Window]
  BY <1>3
<1>6. all \in Injection(P, Window)
  <2>1. \A x, y \in P : all[x] = all[y] => x = y
    BY <1>4
  <2> HIDE DEF all, Window
  <2> QED  BY <1>5, <2>1, Fun_IsInj
<1> HIDE DEF Window, all
<1> QED  BY <1>1, <1>6, FS_Injection

(* A page has the entries whose place is in it, but those of one date may  *)
(* stand for each other.                                                   *)
LEMMA PagesHaveTheirEntries ==
  ASSUME NEW M \in SUBSET Entries, NEW P \in SUBSET M, NEW newest \in BOOLEAN,
         NEW from \in Nat, NEW n \in Nat, CutOut(M, P, newest, from, n),
         NEW e \in M, ~Tied(e), RankIn(M, e, newest) >= from,
         RankIn(M, e, newest) < from + Cardinality(P)
  PROVE  e \in P
<1>1. {d \in M : Date(d) = Date(e)} = {e}
  BY DEF Tied
<1>2. Cardinality({e}) = 1
  BY FS_Singleton
<1>3. RankIn(M, e, newest) \in Nat /\ Cardinality(P) \in Nat /\ Cardinality(P) <= n
  BY RanksOrder, NoMoreThanAsked
<1>4. PlacesOf(M, e, newest) \cap (from..from + n - 1) = {RankIn(M, e, newest)}
  BY <1>1, <1>2, <1>3 DEF PlacesOf
<1>5. Cardinality(P \cap {e}) = 1
  BY <1>1, <1>4, FS_Singleton DEF CutOut
<1> QED  BY <1>5, FS_EmptySet

ListingType ==
    [at : {"idle", "asking", "counting", "complete"}, stream : Streams, newest : BOOLEAN,
     offset : Nat, page : SUBSET Entries, total : SUBSET Entries, must : SUBSET Entries,
     shaken : BOOLEAN]
GoesOn(l) == l.at \in {"asking", "counting"}

(* An undisturbed client has what its offset has passed, and what is       *)
(* passed with the page it is getting is in hand.                          *)
PassedBy(l, M) ==
    /\ l.must \subseteq M
    /\ l.at = "asking" => l.page = {}
    /\ ~l.shaken => \A e \in l.must : ~Tied(e) =>
          /\ RankIn(M, e, l.newest) < l.offset => e \in l.total
          /\ RankIn(M, e, l.newest) < l.offset + Cardinality(l.page) => e \in l.total \cup l.page

ListsIInv ==
    /\ there \subseteq Entries /\ listing \in [Syncers -> ListingType]
    /\ \A c \in Syncers : GoesOn(listing[c]) => PassedBy(listing[c], Matching(listing[c].stream))
    /\ QuietListingsAreComplete

(* Streams are of entries.                                                 *)
LEMMA MatchingIs ==
  ASSUME there \subseteq Entries
  PROVE  \A s \in Streams : Matching(s) \in SUBSET Entries
BY DEF Matching, Streams

(* Entries change, and listings follow.                                    *)
LEMMA FollowingKeeps ==
  ASSUME ListsIInv, there' \subseteq Entries, FollowListings
  PROVE  ListsIInv'
<1>1. /\ \A s \in Streams : Matching(s) \in SUBSET Entries
      /\ \A s \in Streams : Matching(s)' \in SUBSET Entries
  BY MatchingIs DEF ListsIInv, Matching, Streams
<1>2. ASSUME NEW c \in Syncers
      PROVE  /\ listing'[c] \in ListingType
             /\ GoesOn(listing'[c]) =>
                   \A s \in Streams : s = listing'[c].stream => PassedBy(listing'[c], Matching(s)')
             /\ ~GoesOn(listing'[c]) => listing'[c] = listing[c]
  <2>0. PICK s \in Streams : s = listing[c].stream
    BY DEF ListsIInv, ListingType
  <2> DEFINE l == listing[c]
             M == Matching(s)
             K == Matching(s)'
  <2>1. l \in ListingType /\ M \in SUBSET Entries /\ K \in SUBSET Entries
    BY <1>1, <2>0 DEF ListsIInv, ListingType
  <2>2. /\ l.at \in {"idle", "complete"} => listing'[c] = l
        /\ GoesOn(l) => listing'[c] = [l EXCEPT !.must = @ \cap K, !.shaken = @ \/ ~(Ahead(l) \subseteq K)]
    BY <2>0, <2>1 DEF FollowListings, ListingType, GoesOn
  <2>3. CASE l.at \in {"idle", "complete"}
    BY <2>0, <2>1, <2>2, <2>3 DEF GoesOn
  <2>4. CASE GoesOn(l)
    <3>1. /\ listing'[c] \in ListingType /\ GoesOn(listing'[c]) /\ listing'[c].stream = s
          /\ listing'[c].at = l.at /\ listing'[c].page = l.page /\ listing'[c].newest = l.newest
          /\ listing'[c].offset = l.offset /\ listing'[c].total = l.total
          /\ listing'[c].must = l.must \cap K
          /\ ~listing'[c].shaken => ~l.shaken /\ Ahead(l) \subseteq K
      <4> DEFINE gone == ~(Ahead(l) \subseteq K)
      <4>1. l.stream = s /\ listing'[c] = [l EXCEPT !.must = @ \cap K, !.shaken = @ \/ gone]
        BY <2>0, <2>2, <2>4
      <4>2. gone \in BOOLEAN /\ (~gone => Ahead(l) \subseteq K)
        OBVIOUS
      <4> HIDE DEF gone, K, l
      <4> QED  BY <2>1, <2>4, <4>1, <4>2 DEF ListingType, GoesOn
    <3>2. PassedBy(l, M)
      BY <2>0, <2>4 DEF ListsIInv
    <3>3. l.offset \in Nat /\ Cardinality(l.page) \in Nat
      BY <2>1, ReadingAssumption, FS_Subset, FS_CardinalityType DEF ListingType
    <3>4. ASSUME ~listing'[c].shaken, NEW e \in l.must \cap K,
                 NEW n \in {l.offset, l.offset + Cardinality(l.page)},
                 RankIn(K, e, l.newest) < n
          PROVE  RankIn(M, e, l.newest) < n
      <4>1. \A d \in M : RankIn(M, d, l.newest) < l.offset + Cardinality(l.page) => d \in K
        BY <2>0, <3>1, <3>4 DEF Ahead, Rank, RankIn
      <4>2. \A d \in M : RankIn(M, d, l.newest) < n => d \in K
        <5>1. n \in Nat /\ n <= l.offset + Cardinality(l.page)
          BY <3>3
        <5>2. \A d \in M : RankIn(M, d, l.newest) \in Nat
          BY <2>1, RanksOrder
        <5> HIDE DEF M, K, l
        <5> QED  BY <4>1, <5>1, <5>2, <3>3
      <4>3. n \in Nat /\ e \in Entries
        BY <3>3, <2>1
      <4> HIDE DEF M, K, l
      <4>4. PlaceIn(K, e, ByDate(l.newest)) < n /\ \A d \in M : PlaceIn(M, d, ByDate(l.newest)) < n => d \in K
        BY <2>1, <3>4, <4>2, <4>3, DatesAreAnOrder
      <4>5. PlaceIn(M, e, ByDate(l.newest)) < n
        BY <2>1, <4>3, <4>4, DatesAreAnOrder, NobodyMovesUp
      <4> QED  BY <2>1, <4>3, <4>5, DatesAreAnOrder
    <3>5. PassedBy(listing'[c], K)
      BY <3>1, <3>2, <3>4 DEF PassedBy
    <3> QED  BY <2>0, <3>1, <3>5
  <2> QED  BY <2>0, <2>1, <2>3, <2>4 DEF ListingType, GoesOn
<1>3. listing' \in [Syncers -> ListingType]
  BY <1>2 DEF FollowListings
<1>4. QuietListingsAreComplete'
  BY <1>2 DEF QuietListingsAreComplete, GoesOn, ListsIInv
<1>5. ASSUME NEW c \in Syncers, GoesOn(listing[c])'
      PROVE  PassedBy(listing[c], Matching(listing[c].stream))'
  <2>1. PICK s \in Streams : s = listing'[c].stream
    BY <1>3 DEF ListingType
  <2>2. Matching(s)' = Matching(listing[c].stream)'
    BY <2>1 DEF Matching
  <2> QED  BY <1>2, <1>5, <2>1, <2>2
<1> QED  BY <1>3, <1>4, <1>5 DEF ListsIInv

(* Nothing but one client's listing changes.                               *)
LEMMA ListingKeeps ==
  ASSUME ListsIInv, UNCHANGED entryVars, NEW c \in Syncers, NEW l \in ListingType,
         listing' = [listing EXCEPT ![c] = l],
         GoesOn(l) => PassedBy(l, Matching(l.stream)),
         l.at = "complete" /\ ~l.shaken => \A e \in l.must : e \in l.total \/ Tied(e)
  PROVE  ListsIInv'
<1>1. \A s : Matching(s)' = Matching(s)
  BY DEF Matching, entryVars
<1>2. /\ listing' \in [Syncers -> ListingType] /\ listing'[c] = l
      /\ \A d \in Syncers \ {c} : listing'[d] = listing[d]
  BY DEF ListsIInv
<1>3. QuietListingsAreComplete'
  BY <1>2 DEF QuietListingsAreComplete, ListsIInv
<1>4. ASSUME NEW d \in Syncers, GoesOn(listing[d])'
      PROVE  PassedBy(listing[d], Matching(listing[d].stream))'
  <2>1. Matching(listing[d].stream)' = Matching(listing'[d].stream)
    BY DEF Matching, entryVars
  <2>2. PassedBy(listing'[d], Matching(listing'[d].stream))
    BY <1>2, <1>4 DEF ListsIInv
  <2> QED  BY <2>1, <2>2
<1> QED  BY <1>2, <1>3, <1>4 DEF ListsIInv, entryVars

(* A client gets its stream page by page.                                  *)
LEMMA ListStep ==
  ASSUME ListsIInv, NEW c \in Syncers, List(c)
  PROVE  ListsIInv'
<1> DEFINE l == listing[c]
           M == Matching(l.stream)
<1>1. /\ l \in ListingType /\ M \in SUBSET Entries /\ l.stream \in Streams
      /\ GoesOn(l) => PassedBy(l, M)
      /\ \A s \in Streams : Matching(s) \in SUBSET Entries
  BY MatchingIs DEF ListsIInv, ListingType
<1>2. /\ l.offset \in Nat /\ IsFiniteSet(l.page) /\ Cardinality(l.page) \in Nat
      /\ Cardinality({}) = 0
  BY <1>1, ReadingAssumption, FS_Subset, FS_CardinalityType, FS_EmptySet DEF ListingType
<1>3. \A newest : \A N \in SUBSET Entries, e \in Entries : RankIn(N, e, newest) \in Nat
  BY RanksOrder
<1>4. CASE StartListing(c)
  <2>1. PICK s \in Streams, newest \in BOOLEAN :
          listing' = [listing EXCEPT ![c] = [NoListing EXCEPT !.at = "asking", !.stream = s,
                                                !.newest = newest, !.must = Matching(s)]]
    BY <1>4 DEF StartListing
  <2> DEFINE new == [NoListing EXCEPT !.at = "asking", !.stream = s, !.newest = newest,
                                      !.must = Matching(s)]
  <2>2. /\ new \in ListingType /\ new.at = "asking" /\ new.stream = s /\ new.must = Matching(s)
        /\ new.page = {} /\ new.offset = 0 /\ new.newest = newest
    BY <1>1 DEF NoListing, ListingType, Streams
  <2>3. UNCHANGED entryVars
    BY <1>4 DEF StartListing
  <2>4. listing' = [listing EXCEPT ![c] = new]
    BY <2>1
  <2> HIDE DEF new
  <2>5. PassedBy(new, Matching(new.stream))
    BY <1>1, <1>2, <1>3, <2>2 DEF PassedBy
  <2> QED  BY <2>2, <2>3, <2>4, <2>5, ListingKeeps
<1>5. CASE GetEntryIDs(c)
  <2>0. PICK n \in PageSizes : \E P \in Pages(l, n) :
          listing' = [listing EXCEPT ![c] = [l EXCEPT !.at = "counting", !.page = P]]
    BY <1>5 DEF GetEntryIDs, ListsIInv
  <2>1. PICK P \in Pages(l, n) :
          listing' = [listing EXCEPT ![c] = [l EXCEPT !.at = "counting", !.page = P]]
    BY <2>0
  <2> DEFINE new == [l EXCEPT !.at = "counting", !.page = P]
  <2>2. n \in Nat /\ P \in SUBSET M /\ CutOut(M, P, l.newest, l.offset, n)
    BY <2>1, ReadingAssumption DEF Pages, CutOut, PlacesOf, Rank, RankIn
  <2>3. /\ new \in ListingType /\ new.at = "counting" /\ new.stream = l.stream /\ new.must = l.must
        /\ new.page = P /\ new.offset = l.offset /\ new.newest = l.newest /\ new.total = l.total
        /\ new.shaken = l.shaken
    BY <1>1, <2>2 DEF ListingType
  <2>4. listing' = [listing EXCEPT ![c] = new] /\ UNCHANGED entryVars /\ l.at = "asking"
    BY <1>5, <2>1 DEF GetEntryIDs
  <2>5. IsFiniteSet(P) /\ Cardinality(P) \in Nat
    BY <1>1, <2>2, ReadingAssumption, FS_Subset, FS_CardinalityType
  <2>6. PassedBy(l, M)
    BY <1>1, <2>4 DEF GoesOn
  <2>7. l.newest \in BOOLEAN
    BY <1>1 DEF ListingType
  <2> HIDE DEF new, M
  <2>8. ASSUME NEW e \in l.must, ~l.shaken, ~Tied(e),
               RankIn(M, e, l.newest) < l.offset + Cardinality(P)
        PROVE  e \in l.total \cup P
    <3>1. e \in M
      BY <2>6 DEF PassedBy
    <3>2. CASE RankIn(M, e, l.newest) < l.offset
      BY <2>6, <2>8, <3>2 DEF PassedBy
    <3>3. CASE RankIn(M, e, l.newest) >= l.offset
      <4> HIDE DEF l
      <4> QED  BY <1>1, <1>2, <2>2, <2>7, <2>8, <3>1, <3>3, PagesHaveTheirEntries
    <3>4. RankIn(M, e, l.newest) \in Nat
      BY <1>1, <1>3, <3>1
    <3> QED  BY <1>2, <3>2, <3>3, <3>4
  <2>9. PassedBy(new, M)
    BY <2>3, <2>6, <2>8 DEF PassedBy
  <2>10. new.at # "complete" /\ Matching(new.stream) = M
    BY <2>3 DEF M
  <2> QED  BY <2>3, <2>4, <2>9, <2>10, ListingKeeps
<1>6. CASE CountEntries(c)
  <2> DEFINE got == [l EXCEPT !.at = "asking", !.offset = @ + Cardinality(l.page),
                              !.total = @ \cup l.page, !.page = {}]
             done == [got EXCEPT !.at = "complete", !.offset = 0, !.stream = "all", !.newest = TRUE]
  <2>1. /\ l.at = "counting" /\ UNCHANGED entryVars
        /\ Continues(l) => listing' = [listing EXCEPT ![c] = got]
        /\ ~Continues(l) => listing' = [listing EXCEPT ![c] = done]
    BY <1>6 DEF CountEntries
  <2>2. PassedBy(l, M)
    BY <1>1, <2>1 DEF GoesOn
  <2>3. /\ got \in ListingType /\ got.at = "asking" /\ got.stream = l.stream /\ got.must = l.must
        /\ got.page = {} /\ got.offset = l.offset + Cardinality(l.page) /\ got.newest = l.newest
        /\ got.total = l.total \cup l.page /\ got.shaken = l.shaken
    <3> DEFINE next == l.offset + Cardinality(l.page)
               total == l.total \cup l.page
    <3>1. next \in Nat /\ total \in SUBSET Entries
      BY <1>1, <1>2 DEF ListingType
    <3>2. got = [l EXCEPT !.at = "asking", !.offset = next, !.total = total, !.page = {}]
      BY <1>1 DEF ListingType
    <3> HIDE DEF next, total, got, l
    <3>3. /\ got \in ListingType /\ got.at = "asking" /\ got.stream = l.stream /\ got.must = l.must
          /\ got.page = {} /\ got.offset = next /\ got.newest = l.newest
          /\ got.total = total /\ got.shaken = l.shaken
      BY <1>1, <3>1, <3>2 DEF ListingType
    <3> QED  BY <3>3 DEF next, total
  <2>4. /\ done \in ListingType /\ done.at = "complete" /\ done.must = l.must
        /\ done.total = l.total \cup l.page /\ done.shaken = l.shaken
    BY <1>1, <1>2 DEF ListingType, Streams
  <2> HIDE DEF got, done, M
  <2>5. PassedBy(got, M)
    BY <1>2, <2>2, <2>3 DEF PassedBy
  <2>6. Matching(got.stream) = M
    BY <2>3 DEF M
  <2>7. CASE Continues(l)
    BY <2>1, <2>3, <2>5, <2>6, <2>7, ListingKeeps
  <2>8. CASE ~Continues(l)
    <3>1. l.offset + Cardinality(l.page) >= Cardinality(M) /\ Cardinality(M) \in Nat
      BY <1>1, <1>2, <2>8, RanksOrder DEF Continues, M
    <3>2. \A e \in M : RankIn(M, e, l.newest) < Cardinality(M)
      BY <1>1, RanksOrder
    <3>3. ASSUME ~l.shaken, NEW e \in l.must PROVE e \in l.total \cup l.page \/ Tied(e)
      <4>1. e \in M
        BY <2>2 DEF PassedBy
      <4>2. RankIn(M, e, l.newest) < l.offset + Cardinality(l.page)
        BY <1>1, <1>2, <1>3, <3>1, <3>2, <4>1
      <4> QED  BY <2>2, <3>3, <4>2 DEF PassedBy
    <3>4. ~GoesOn(done)
      BY <2>4 DEF GoesOn
    <3> QED  BY <2>1, <2>4, <2>8, <3>3, <3>4, ListingKeeps
  <2> QED  BY <2>7, <2>8
<1>7. CASE AskAgain(c)
  <2> DEFINE new == [l EXCEPT !.at = "asking", !.page = {}]
  <2>1. /\ listing' = [listing EXCEPT ![c] = new] /\ UNCHANGED entryVars /\ l.at = "counting"
    BY <1>7 DEF AskAgain, ListsIInv
  <2>2. /\ new \in ListingType /\ new.at = "asking" /\ new.stream = l.stream /\ new.must = l.must
        /\ new.page = {} /\ new.offset = l.offset /\ new.newest = l.newest /\ new.total = l.total
        /\ new.shaken = l.shaken
    BY <1>1 DEF ListingType
  <2> HIDE DEF new
  <2>3. PassedBy(new, M)
    BY <1>1, <1>2, <2>1, <2>2 DEF PassedBy, GoesOn
  <2> QED  BY <2>1, <2>2, <2>3, ListingKeeps
<1>8. CASE EndListing(c)
  <2>1. NoListing \in ListingType /\ ~GoesOn(NoListing) /\ NoListing.at # "complete"
    BY DEF NoListing, ListingType, Streams, GoesOn
  <2>2. listing' = [listing EXCEPT ![c] = NoListing] /\ UNCHANGED entryVars
    BY <1>8 DEF EndListing
  <2> QED  BY <2>1, <2>2, ListingKeeps
<1> QED  BY <1>4, <1>5, <1>6, <1>7, <1>8 DEF List

(* A client that followed a stream's continuation to its end has whatever  *)
(* was in it all the time, unless what it had passed left, and but for     *)
(* entries of one date (streamItemIDsHandler, GetEntryIDs, CountEntries).  *)
THEOREM ListingsAreComplete == ReadingSpec => []QuietListingsAreComplete
<1>1. ReadingInit => ListsIInv
  <2> SUFFICES ASSUME ReadingInit PROVE ListsIInv
    OBVIOUS
  <2>1. NoListing \in ListingType /\ ~GoesOn(NoListing) /\ NoListing.at # "complete"
    BY DEF NoListing, ListingType, Streams, GoesOn
  <2> QED  BY <2>1 DEF ReadingInit, ListsIInv, QuietListingsAreComplete
<1>2. ListsIInv /\ [ReadingNext]_readingVars => ListsIInv'
  <2> SUFFICES ASSUME ListsIInv, [ReadingNext]_readingVars PROVE ListsIInv'
    OBVIOUS
  <2>1. CASE Marking
    <3>1. there' \subseteq Entries
      BY <2>1 DEF Marking, Arrive, SetEntriesStatus, SetEntriesStarredState, ToggleStarred, MarkAsRead,
                  Read, FlushHistory, ArchiveEntries, Bury, ListsIInv
    <3>2. FollowListings
      BY <2>1 DEF Marking, Arrive, SetEntriesStatus, SetEntriesStarredState, ToggleStarred, MarkAsRead,
                  Read, FlushHistory, ArchiveEntries, OnlyEntries
    <3> QED  BY <3>1, <3>2, FollowingKeeps
  <2>2. CASE Listing
    BY <2>2, ListStep DEF Listing
  <2>3. ASSUME NEW c \in Taggers, TagStatus(c) \/ TagStarred(c) PROVE ListsIInv'
    <3>1. FollowListings /\ there' = there
      BY <2>3 DEF TagStatus, TagStarred
    <3> QED  BY <3>1, FollowingKeeps DEF ListsIInv
  <2>4. ASSUME UNCHANGED <<entryVars, listing>> PROVE ListsIInv'
    <3>1. \A s : Matching(s)' = Matching(s)
      BY <2>4 DEF Matching, entryVars
    <3>2. \A c \in Syncers : Matching(listing[c].stream)' = Matching(listing[c].stream)
      BY <2>4 DEF Matching, entryVars
    <3> QED  BY <2>4, <3>2 DEF ListsIInv, QuietListingsAreComplete, entryVars
  <2>5. ASSUME NEW c \in Taggers, ReadEntries(c) \/ TaggingFails(c) PROVE ListsIInv'
    BY <2>4, <2>5 DEF ReadEntries, TaggingFails
  <2>6. CASE Sharing
    BY <2>4, <2>6 DEF Sharing, UnshareEntry, Share, ReadShareCode, WriteShareCode, AnswerShareCode
  <2>7. CASE UNCHANGED readingVars
    BY <2>4, <2>7 DEF readingVars
  <2> QED  BY <2>1, <2>2, <2>3, <2>5, <2>6, <2>7 DEF ReadingNext, Tagging, EditTag
<1>3. ListsIInv => QuietListingsAreComplete
  BY DEF ListsIInv
<1> QED  BY <1>1, <1>2, <1>3, PTL DEF ReadingSpec

(***************************************************************************)
(* Walks by links and by pages.                                            *)
(***************************************************************************)

(* Places in a list, in the user's order.                                  *)
ByNumber == {p \in Entries \X Entries : Follows(p[2], p[1])}
Place(M, e) == Cardinality({d \in M : Follows(e, d)})

(* Pages that look for neighbours among the unread entries.                *)
Unreads == {"unread", "unread_feed", "unread_category"}
Reach(page) == IF page = "unread" THEN Visible ELSE Scope(page)

(* The page's own entry will be among those it looks through.              *)
UnmarkAhead(l) == \E j \in l.k..Len(Steps(l.name)) : Steps(l.name)[j] = "unmark"
Comes(l) ==
    IF l.name \in Unreads
    THEN l.entry \in there \cap Reach(l.name) /\ (l.entry \in unread \/ (l.read /\ UnmarkAhead(l)))
    ELSE l.entry \in Among(l)

(* What is owed to a walk is ahead of the entry whose page is being made,  *)
(* then of its link to the next one, or beyond the pages of a list.        *)
Owes(l) ==
    /\ l.must # {} => Comes(l)
    /\ \A m \in l.must : m \in Among(l) /\ Follows(m, l.entry)
Leads(l) ==
    /\ \A m \in l.must : m \in Among(l) /\ Follows(m, l.entry)
    /\ l.next = NoEntry => l.must = {}
    /\ l.next # NoEntry =>
          /\ l.next \in there /\ (l.name \in Unreads => l.next \in Reach(l.name))
          /\ \A m \in l.must : m = l.next \/ Follows(m, l.next)
Turns(l) ==
    /\ l.offset \in Nat /\ l.total \in Nat /\ l.must \subseteq ListOf(l.name).of
    /\ \A m \in l.must : Place(ListOf(l.name).of, m) >= l.offset + EntriesPerPage
    /\ ~ShowNext(l.total, l.offset) => l.must = {}

Walked(l) ==
    /\ l.at = "list" => Turns(l)
    /\ l.at = "making" /\ Looks(l) /\ l.name # "history" => Owes(l)
    /\ ((l.at = "making" /\ ~Looks(l)) \/ l.at = "open") /\ l.name # "history" => Leads(l)

WalkTyped(l) ==
    /\ DOMAIN l = TabFields
    /\ l.at \in {"closed", "making", "open", "list"}
    /\ l.at \in {"making", "open"} => l.name \in EntryPages /\ l.entry \in Entries
    /\ l.at = "making" => l.k \in 1..Len(Steps(l.name))
    /\ l.at = "list" => l.name \in Lists /\ Ranked(l.name)
    /\ l.must \subseteq Entries

WalksIInv ==
    /\ there \subseteq Entries
    /\ tab \in [Tabs -> {tab[t] : t \in Tabs}]
    /\ \A t \in Tabs : WalkTyped(tab[t]) /\ (~tab[t].shaken => Walked(tab[t]))

(* The order of a page's steps.                                            *)
LEMMA StepsLook ==
  ASSUME NEW page \in EntryPages
  PROVE  /\ Len(Steps(page)) \in Nat \ {0}
         /\ \E j \in 1..Len(Steps(page)) : Steps(page)[j] = "siblings"
         /\ page \in Unreads => \E j \in 1..Len(Steps(page)) : Steps(page)[j] = "unmark"
         /\ \A k \in 1..Len(Steps(page)) :
               /\ Steps(page)[k] = "siblings" =>
                     /\ \A j \in (k + 1)..Len(Steps(page)) : Steps(page)[j] # "siblings"
                     /\ \A j \in k..Len(Steps(page)) : Steps(page)[j] # "unmark"
               /\ Steps(page)[k] = "mark" =>
                     /\ \E j \in (k + 1)..Len(Steps(page)) : Steps(page)[j] = "siblings"
                     /\ page \in Unreads =>
                           \E j \in (k + 1)..Len(Steps(page)) : Steps(page)[j] = "unmark"
               /\ Steps(page)[k] = "unmark" =>
                     /\ page \in Unreads
                     /\ \E j \in (k + 1)..Len(Steps(page)) : Steps(page)[j] = "siblings"
               /\ Steps(page)[k] \in {"titles", "restore", "view"} =>
                     \A j \in k..Len(Steps(page)) : Steps(page)[j] # "siblings"
<1>1. CASE page = "unread"
  <2>1. Steps(page) = <<"unmark", "siblings", "titles", "view", "restore", "redirect">>
    BY <1>1 DEF Steps, showUnreadEntryPage
  <2> QED  BY <1>1, <2>1 DEF Unreads
<1>2. CASE page \in {"unread_feed", "unread_category"}
  <2>1. Steps(page) = <<"mark", "unmark", "siblings", "titles", "restore", "redirect">>
    BY <1>2 DEF Steps, showUnreadFeedEntryPage, showUnreadCategoryEntryPage
  <2> QED  BY <1>2, <2>1 DEF Unreads
<1>3. CASE page \in {"feed", "category", "starred", "starred_category", "search", "search_unread"}
  <2>1. Steps(page) = <<"mark", "redirect", "siblings", "titles">>
    BY <1>3 DEF Steps, showFeedEntryPage, showCategoryEntryPage, showStarredEntryPage,
                showStarredCategoryEntryPage, showSearchEntryPage
  <2>2. page \notin Unreads
    BY <1>3 DEF Unreads
  <2> DEFINE steps == <<"mark", "redirect", "siblings", "titles">>
  <2>3. /\ Len(steps) = 4 /\ steps[1] = "mark" /\ steps[2] = "redirect"
        /\ steps[3] = "siblings" /\ steps[4] = "titles"
    OBVIOUS
  <2> HIDE DEF steps
  <2>4. Steps(page) = steps
    BY <2>1 DEF steps
  <2>5. /\ \A k \in 1..4 : steps[k] = "siblings" <=> k = 3
        /\ \A k \in 1..4 : steps[k] = "mark" <=> k = 1
        /\ \A k \in 1..4 : steps[k] # "unmark"
        /\ \A k \in 1..4 : steps[k] \in {"titles", "restore", "view"} => k = 4
    BY <2>3
  <2>6. Len(steps) = 4
    BY <2>3
  <2> QED  BY <2>2, <2>4, <2>5, <2>6
<1>4. CASE page = "tag"
  <2>1. Steps(page) = <<"mark", "siblings", "titles">>
    BY <1>4 DEF Steps, showTagEntryPage
  <2>2. page \notin Unreads
    BY <1>4 DEF Unreads
  <2> DEFINE steps == <<"mark", "siblings", "titles">>
  <2>3. Len(steps) = 3 /\ steps[1] = "mark" /\ steps[2] = "siblings" /\ steps[3] = "titles"
    OBVIOUS
  <2> HIDE DEF steps
  <2>4. Steps(page) = steps
    BY <2>1 DEF steps
  <2>5. /\ \A k \in 1..3 : steps[k] = "siblings" <=> k = 2
        /\ \A k \in 1..3 : steps[k] = "mark" <=> k = 1
        /\ \A k \in 1..3 : steps[k] # "unmark"
        /\ \A k \in 1..3 : steps[k] \in {"titles", "restore", "view"} => k = 3
    BY <2>3
  <2>6. Len(steps) = 3
    BY <2>3
  <2> QED  BY <2>2, <2>4, <2>5, <2>6
<1>5. CASE page = "history"
  <2>1. Steps(page) = <<"redirect", "siblings", "titles">>
    BY <1>5 DEF Steps, showReadEntryPage
  <2>2. page \notin Unreads
    BY <1>5 DEF Unreads
  <2> DEFINE steps == <<"redirect", "siblings", "titles">>
  <2>3. Len(steps) = 3 /\ steps[1] = "redirect" /\ steps[2] = "siblings" /\ steps[3] = "titles"
    OBVIOUS
  <2> HIDE DEF steps
  <2>4. Steps(page) = steps
    BY <2>1 DEF steps
  <2>5. /\ \A k \in 1..3 : steps[k] = "siblings" <=> k = 2
        /\ \A k \in 1..3 : steps[k] # "mark"
        /\ \A k \in 1..3 : steps[k] # "unmark"
        /\ \A k \in 1..3 : steps[k] \in {"titles", "restore", "view"} => k = 3
    BY <2>3
  <2>6. Len(steps) = 3
    BY <2>3
  <2> QED  BY <2>2, <2>4, <2>5, <2>6
<1> QED  BY <1>1, <1>2, <1>3, <1>4, <1>5 DEF EntryPages

(* Among which entries a page finds its neighbours.                        *)
AmongOf(l, kept, new, stars) ==
    CASE l.name \in Unreads -> kept \cap new \cap Reach(l.name)
      [] l.name \in {"feed", "category", "search", "tag"} -> kept \cap Scope(l.name)
      [] l.name = "starred" -> kept \cap stars
      [] l.name = "starred_category" -> kept \cap stars \cap Scope("starred_category")
      [] l.name = "search_unread" ->
            kept \cap Scope("search_unread") \cap (new \cup (IF l.read THEN {l.entry} ELSE {}))
      [] OTHER -> kept \ new

(* The list that each page's entries come from.                            *)
LEMMA HomesAre ==
  /\ HomeOf("unread") = "unread" /\ HomeOf("unread_feed") = "feed" /\ HomeOf("feed") = "feed_all"
  /\ HomeOf("unread_category") = "category" /\ HomeOf("category") = "category_all"
  /\ HomeOf("starred_category") = "category_starred" /\ HomeOf("starred") = "starred"
  /\ HomeOf("tag") = "tag" /\ HomeOf("history") = "history"
<1> DEFINE Homes == Lists \ {"shared"}
<1>1. \A list \in Homes :
        /\ ListOf(list).page = "unread" <=> list = "unread"
        /\ ListOf(list).page = "unread_feed" <=> list = "feed"
        /\ ListOf(list).page = "feed" <=> list = "feed_all"
        /\ ListOf(list).page = "unread_category" <=> list = "category"
        /\ ListOf(list).page = "category" <=> list = "category_all"
        /\ ListOf(list).page = "starred_category" <=> list = "category_starred"
        /\ ListOf(list).page = "starred" <=> list = "starred"
        /\ ListOf(list).page = "tag" <=> list = "tag"
        /\ ListOf(list).page = "history" <=> list = "history"
  BY DEF Lists, ListOf, showUnreadPage, showFeedEntriesPage, showFeedEntriesAllPage,
         showCategoryEntriesPage, showCategoryEntriesAllPage, showCategoryEntriesStarredPage,
         showStarredPage, showTagEntriesAllPage, showSearchPage, showHistoryPage
<1>2. {"unread", "feed", "feed_all", "category", "category_all", "category_starred", "starred",
       "tag", "history"} \subseteq Homes
  BY DEF Lists
<1> QED  BY <1>1, <1>2 DEF HomeOf

(* They are of the list that the page's entries come from.                 *)
LEMMA AmongIs ==
  \A l : l.name \in EntryPages => Among(l) = AmongOf(l, there, unread, starred)
<1> SUFFICES ASSUME NEW l, l.name \in EntryPages
             PROVE  Among(l) = AmongOf(l, there, unread, starred)
  OBVIOUS
<1>1. /\ ListOf("unread").of = there \cap unread \cap Visible
      /\ ListOf("feed").of = there \cap unread \cap Scope("unread_feed")
      /\ ListOf("feed_all").of = there \cap Scope("feed")
      /\ ListOf("category").of = there \cap unread \cap Scope("unread_category")
      /\ ListOf("category_all").of = there \cap Scope("category")
      /\ ListOf("category_starred").of = there \cap starred \cap Scope("starred_category")
      /\ ListOf("starred").of = there \cap starred
      /\ ListOf("tag").of = there \cap Scope("tag")
      /\ ListOf("history").of = there \ unread
  BY DEF Lists, ListOf, showUnreadPage, showFeedEntriesPage, showFeedEntriesAllPage,
         showCategoryEntriesPage, showCategoryEntriesAllPage, showCategoryEntriesStarredPage,
         showStarredPage, showTagEntriesAllPage, showHistoryPage
<1>2. CASE l.name \in Unreads
  BY <1>1, <1>2, HomesAre DEF Among, AmongOf, Unreads, Reach
<1>3. CASE l.name \in {"feed", "category", "tag", "starred", "starred_category", "history"}
  BY <1>1, <1>3, HomesAre DEF Among, AmongOf, Unreads
<1>4. CASE l.name \in {"search", "search_unread"}
  BY <1>4 DEF Among, AmongOf, Unreads
<1> QED  BY <1>2, <1>3, <1>4 DEF EntryPages, Unreads

(* The same after a step.                                                 *)
LEMMA AmongIsAfter ==
  \A l : l.name \in EntryPages => Among(l)' = AmongOf(l, there', unread', starred')
<1>1. (\A l : l.name \in EntryPages => Among(l) = AmongOf(l, there, unread, starred))'
  BY AmongIs, PTL
<1> QED  BY <1>1 DEF AmongOf

(* A page goes on to its next step, or is open.                            *)
LEMMA NextStepIs ==
  ASSUME NEW l, WalkTyped(l), l.at = "making"
  PROVE  /\ WalkTyped(Made(l)) /\ Made(l).at \in {"making", "open"}
         /\ Made(l).name = l.name /\ Made(l).entry = l.entry /\ Made(l).read = l.read
         /\ Made(l).next = l.next /\ Made(l).must = l.must /\ Made(l).shaken = l.shaken
         /\ Made(l).at = "making" /\ Looks(Made(l)) <=>
               \E j \in (l.k + 1)..Len(Steps(l.name)) : Steps(l.name)[j] = "siblings"
         /\ Made(l).at = "making" /\ UnmarkAhead(Made(l)) <=>
               \E j \in (l.k + 1)..Len(Steps(l.name)) : Steps(l.name)[j] = "unmark"
<1> DEFINE n == Len(Steps(l.name))
<1>1. l.name \in EntryPages /\ l.k \in 1..n /\ n \in Nat
  BY StepsLook DEF WalkTyped
<1>2. CASE l.k = n
  <2>1. Made(l) = [l EXCEPT !.at = "open", !.k = 0]
    BY <1>2 DEF Made
  <2>2. /\ DOMAIN Made(l) = TabFields /\ Made(l).at = "open"
        /\ Made(l).name = l.name /\ Made(l).entry = l.entry /\ Made(l).read = l.read
        /\ Made(l).next = l.next /\ Made(l).must = l.must /\ Made(l).shaken = l.shaken
    BY <2>1 DEF WalkTyped, TabFields
  <2> QED  BY <2>2, <1>1, <1>2 DEF WalkTyped
<1>3. CASE l.k # n
  <2>1. Made(l) = [l EXCEPT !.k = l.k + 1]
    BY <1>3 DEF Made
  <2>2. /\ DOMAIN Made(l) = TabFields /\ Made(l).at = "making" /\ Made(l).k = l.k + 1
        /\ Made(l).name = l.name /\ Made(l).entry = l.entry /\ Made(l).read = l.read
        /\ Made(l).next = l.next /\ Made(l).must = l.must /\ Made(l).shaken = l.shaken
    BY <2>1 DEF WalkTyped, TabFields
  <2> QED  BY <2>2, <1>1, <1>3 DEF WalkTyped, Looks, UnmarkAhead
<1> QED  BY <1>2, <1>3

(* What a walk is owed depends on the entries, their marks and codes, and  *)
(* the user's settings alone.                                              *)
LEMMA WalkedStays ==
  ASSUME UNCHANGED <<there, unread, starred, code, user>>
  PROVE  \A l : WalkTyped(l) => (Walked(l)' <=> Walked(l))
<1> SUFFICES ASSUME NEW l, WalkTyped(l) PROVE Walked(l)' <=> Walked(l)
  OBVIOUS
<1>1. l.name \in EntryPages => Among(l)' = Among(l)
  BY AmongIs, AmongIsAfter
<1>2. ListOf(l.name)' = ListOf(l.name)
  BY DEF ListOf, showUnreadPage, showFeedEntriesPage, showFeedEntriesAllPage,
         showCategoryEntriesPage, showCategoryEntriesAllPage, showCategoryEntriesStarredPage,
         showStarredPage, showTagEntriesAllPage, showSearchPage, showHistoryPage, sharedEntries
<1>3. \A e, d : Follows(e, d)' <=> Follows(e, d)
  BY DEF Follows
<1>4. Turns(l)' <=> Turns(l)
  BY <1>2 DEF Turns, Place, Follows
<1>5. l.name \in EntryPages => (Owes(l)' <=> Owes(l)) /\ (Leads(l)' <=> Leads(l))
  BY <1>1, <1>3 DEF Owes, Leads, Comes
<1> QED  BY <1>4, <1>5 DEF Walked, WalkTyped

(* One tab changes, and nothing that walks depend on.                      *)
LEMMA WalkTab ==
  ASSUME WalksIInv, NEW t \in Tabs, NEW new, tab' = [tab EXCEPT ![t] = new],
         UNCHANGED <<there, unread, starred, code, user>>,
         WalkTyped(new), ~new.shaken => Walked(new)
  PROVE  WalksIInv'
<1>1. tab'[t] = new /\ \A s \in Tabs \ {t} : tab'[s] = tab[s]
  BY DEF WalksIInv
<1>2. tab' \in [Tabs -> {tab'[s] : s \in Tabs}]
  BY DEF WalksIInv
<1>3. ASSUME NEW s \in Tabs
      PROVE  (WalkTyped(tab[s]) /\ (~tab[s].shaken => Walked(tab[s])))'
  <2>1. PICK l : l = tab'[s]
    OBVIOUS
  <2>2. WalkTyped(l) /\ (~l.shaken => Walked(l))
    BY <1>1, <2>1 DEF WalksIInv
  <2>3. ~l.shaken => Walked(l)'
    BY <2>2, WalkedStays
  <2>4. ~l.shaken => Walked(tab[s])'
    BY <2>1, <2>3
  <2> QED  BY <2>1, <2>2, <2>4
<1> QED  BY <1>2, <1>3 DEF WalksIInv

(* Places in a list are places in an order.                                *)
LEMMA ByNumberIsAnOrder ==
  /\ IsOrder(ByNumber)
  /\ \A M \in SUBSET Entries, e \in Entries : Place(M, e) = PlaceIn(M, e, ByNumber)
<1>1. /\ \A e, d : <<e, d>> \in ByNumber <=> e \in Entries /\ d \in Entries /\ Follows(d, e)
      /\ ByNumber \subseteq Entries \X Entries
  BY DEF ByNumber
<1>2. \A e \in Entries : ~Follows(e, e)
  BY PagesAssumption DEF Follows
<1>3. \A e, d, f \in Entries : Follows(d, e) /\ Follows(f, d) => Follows(f, e)
  BY PagesAssumption DEF Follows
<1>4. IsOrder(ByNumber)
  BY <1>1, <1>2, <1>3 DEF IsOrder
<1>5. ASSUME NEW M \in SUBSET Entries, NEW e \in Entries PROVE Place(M, e) = PlaceIn(M, e, ByNumber)
  <2>1. {d \in M : Follows(e, d)} = {d \in M : <<d, e>> \in ByNumber}
    BY DEF ByNumber
  <2> QED  BY <2>1 DEF Place, PlaceIn
<1> QED  BY <1>4, <1>5

(* Lists are of entries.                                                   *)
LEMMA ListsAreOfEntries ==
  there \subseteq Entries => \A list : ListOf(list).of \in SUBSET Entries
BY DEF ListOf, showUnreadPage, showFeedEntriesPage, showFeedEntriesAllPage,
       showCategoryEntriesPage, showCategoryEntriesAllPage, showCategoryEntriesStarredPage,
       showStarredPage, showTagEntriesAllPage, showSearchPage, showHistoryPage, sharedEntries

(* Others change entries: what is still owed to a tab is still ahead.      *)
LEMMA OthersFollow ==
  ASSUME there \subseteq Entries, there' \subseteq Entries, user' = user,
         NEW l, WalkTyped(l), ~l.shaken => Walked(l), l.at # "closed",
         NEW m, m = Followed(l, Held(l), Held(l)', Linked(l)')
  PROVE  WalkTyped(m) /\ (~m.shaken => Walked(m)')
<1> DEFINE was == Held(l)
           now == Held(l)'
           lost == CASE l.at = "making" /\ Looks(l) -> l.entry \in was \ now
                     [] l.at = "list" -> ~((was \ l.must) \subseteq now)
                     [] OTHER -> FALSE
           shaken == l.shaken \/ lost \/ ~Linked(l)'
           left == l.must \cap now
<1>1. m = [l EXCEPT !.must = left, !.shaken = shaken]
  BY DEF Followed, WalkTyped, TabFields
<1> HIDE DEF left, shaken
<1>2. /\ DOMAIN m = TabFields /\ m.at = l.at /\ m.name = l.name /\ m.entry = l.entry /\ m.k = l.k
      /\ m.read = l.read /\ m.next = l.next /\ m.offset = l.offset /\ m.total = l.total
      /\ m.must = left /\ m.shaken = shaken
  BY <1>1 DEF WalkTyped, TabFields
<1>3. WalkTyped(m)
  BY <1>2 DEF WalkTyped, left
<1> SUFFICES ASSUME ~m.shaken PROVE Walked(m)'
  BY <1>3
<1>4. ~l.shaken /\ ~lost /\ Linked(l)' /\ Walked(l)
  BY <1>2 DEF shaken
<1> HIDE DEF lost
<1>5. l.name \in EntryPages =>
        /\ Among(l) = AmongOf(l, there, unread, starred)
        /\ Among(l)' = AmongOf(l, there', unread', starred')
        /\ Among(m)' = AmongOf(m, there', unread', starred')
  BY <1>2, AmongIs, AmongIsAfter
<1>6. l.name \in EntryPages => Among(m)' = Among(l)'
  BY <1>2, <1>5 DEF AmongOf
<1>7. \A e, d : Follows(e, d)' <=> Follows(e, d)
  BY DEF Follows
<1>8. /\ Looks(m) <=> Looks(l)
      /\ UnmarkAhead(m) <=> UnmarkAhead(l)
  BY <1>2 DEF Looks, UnmarkAhead
<1>9. CASE l.at = "making" /\ Looks(l)
  <2>1. was = Among(l) /\ now = Among(l)' /\ l.name \in EntryPages
    BY <1>9 DEF Held, WalkTyped
  <2>2. l.entry \in there' /\ (l.entry \in was => l.entry \in now)
    BY <1>4, <1>9 DEF Linked, Looks, lost
  <2>3. ASSUME l.name # "history" PROVE Owes(m)'
    <3>1. Owes(l)
      BY <1>4, <1>9, <2>3 DEF Walked
    <3>2. \A d \in m.must : d \in Among(m)' /\ Follows(d, m.entry)'
      BY <1>2, <1>6, <1>7, <2>1, <3>1 DEF Owes, left
    <3>3. ASSUME m.must # {} PROVE Comes(m)'
      <4>1. Comes(l)
        BY <1>2, <3>1, <3>3 DEF Owes, left
      <4>2. CASE l.name \in Unreads
        <5>0. /\ Among(l) = there \cap unread \cap Reach(l.name)
              /\ Among(l)' = there' \cap unread' \cap Reach(l.name)
          BY <1>5, <2>1, <4>2 DEF AmongOf, Unreads
        <5>1. l.entry \in Reach(l.name) /\ (l.entry \in unread => l.entry \in Among(l))
          BY <4>1, <4>2, <5>0 DEF Comes
        <5>2. l.entry \in Among(l)' => l.entry \in unread'
          BY <5>0
        <5>3. l.entry \in unread' \/ (l.read /\ UnmarkAhead(l))
          BY <2>1, <2>2, <4>1, <4>2, <5>1, <5>2 DEF Comes
        <5> QED  BY <1>2, <1>8, <2>2, <4>2, <5>1, <5>3 DEF Comes, Reach, Visible
      <4>3. CASE l.name \notin Unreads
        BY <1>2, <1>6, <2>1, <2>2, <4>1, <4>3 DEF Comes
      <4> QED  BY <4>2, <4>3
    <3> QED  BY <3>2, <3>3 DEF Owes
  <2> QED  BY <1>2, <1>8, <1>9, <2>3 DEF Walked, Looks
<1>10. CASE (l.at = "making" /\ ~Looks(l)) \/ l.at = "open"
  <2>1. now = Among(l)' /\ l.name \in EntryPages
    BY <1>10 DEF Held, WalkTyped
  <2>2. l.next # NoEntry => l.next \in there'
    BY <1>4, <1>10 DEF Linked, Looks
  <2>3. ASSUME l.name # "history" PROVE Leads(m)'
    <3>1. Leads(l)
      BY <1>4, <1>10, <2>3 DEF Walked
    <3>2. m.must \subseteq l.must /\ m.must \subseteq Among(m)'
      BY <1>2, <1>6, <2>1 DEF left
    <3> QED  BY <1>2, <1>7, <2>2, <3>1, <3>2 DEF Leads, Reach, Visible
  <2> QED  BY <1>2, <1>8, <1>10, <2>3 DEF Walked, Looks
<1>11. CASE l.at = "list"
  <2>1. was = ListOf(l.name).of /\ now = ListOf(l.name).of' /\ Turns(l)
    BY <1>4, <1>11 DEF Held, Walked
  <2>2. was \in SUBSET Entries /\ now \in SUBSET Entries
    BY <2>1, ListsAreOfEntries DEF ListOf, showUnreadPage, showFeedEntriesPage, showFeedEntriesAllPage,
       showCategoryEntriesPage, showCategoryEntriesAllPage, showCategoryEntriesStarredPage,
       showStarredPage, showTagEntriesAllPage, showSearchPage, showHistoryPage, sharedEntries
  <2>3. (was \ l.must) \subseteq now
    BY <1>4, <1>11 DEF lost
  <2>4. l.offset \in Nat /\ l.offset + EntriesPerPage \in Nat /\ l.must \subseteq Entries
    BY <2>1, PagesAssumption DEF WalkTyped, Turns
  <2> HIDE DEF was, now
  <2> DEFINE n == l.offset + EntriesPerPage
  <2>5. ASSUME NEW e \in left PROVE Place(now, e) >= n
    <3>1. e \in l.must /\ e \in now /\ e \in Entries
      BY <2>2, <2>5 DEF left
    <3>2. Place(was, e) >= n
      BY <2>1, <3>1 DEF Turns
    <3>3. \A d \in was : PlaceIn(was, d, ByNumber) < n => d \in now
      <4> SUFFICES ASSUME NEW d \in was, PlaceIn(was, d, ByNumber) < n PROVE d \in now
        OBVIOUS
      <4>1. Place(was, d) < n /\ Place(was, d) \in Nat
        BY <2>2, ByNumberIsAnOrder, PlacesAreOrdered
      <4>2. d \notin l.must
        BY <2>1, <2>4, <4>1 DEF Turns
      <4> QED  BY <2>3, <4>2
    <3>4. PlaceIn(was, e, ByNumber) >= n /\ PlaceIn(was, e, ByNumber) \in Nat
      BY <2>2, <3>1, <3>2, ByNumberIsAnOrder, PlacesAreOrdered
    <3>5. ~(PlaceIn(now, e, ByNumber) < n)
      <4> HIDE DEF n
      <4>1. n \in Nat
        BY <2>4 DEF n
      <4> SUFFICES ASSUME PlaceIn(now, e, ByNumber) < n PROVE FALSE
        OBVIOUS
      <4>2. PlaceIn(was, e, ByNumber) < n
        BY <2>2, <3>3, <4>1, ByNumberIsAnOrder, NobodyMovesUp
      <4> QED  BY <3>4, <4>1, <4>2
    <3>6. Place(now, e) = PlaceIn(now, e, ByNumber) /\ PlaceIn(now, e, ByNumber) \in Nat
      BY <2>2, <3>1, ByNumberIsAnOrder, PlacesAreOrdered
    <3> HIDE DEF n
    <3>7. n \in Nat
      BY <2>4 DEF n
    <3> QED  BY <3>5, <3>6, <3>7
  <2>6. /\ m.must \subseteq now /\ m.must \subseteq l.must
        /\ \A e \in m.must : Place(now, e) >= m.offset + EntriesPerPage
    BY <1>2, <2>5 DEF left
  <2>8. now = ListOf(m.name).of'
    BY <1>2, <2>1
  <2>9. \A e \in m.must : Place(ListOf(m.name).of, e)' >= m.offset + EntriesPerPage
    BY <2>6, <2>8 DEF Place, Follows
  <2>10. Turns(m)'
    BY <1>2, <2>1, <2>6, <2>8, <2>9 DEF Turns
  <2> QED  BY <1>2, <1>11, <2>10 DEF Walked
<1> QED  BY <1>9, <1>10, <1>11 DEF WalkTyped

(* One tab is at its next page, and the others have followed.              *)
LEMMA WalkTabsAfter ==
  ASSUME WalksIInv, NEW t, NEW new, TabsAfter(t, new), there' \subseteq Entries, user' = user,
         t \in Tabs => WalkTyped(new) /\ (~new.shaken => Walked(new)')
  PROVE  WalksIInv'
<1>1. ASSUME NEW s \in Tabs \ {t} PROVE (WalkTyped(tab[s]) /\ (~tab[s].shaken => Walked(tab[s])))'
  <2>1. PICK l : l = tab[s]
    OBVIOUS
  <2>2. WalkTyped(l) /\ (~l.shaken => Walked(l))
    BY <2>1 DEF WalksIInv
  <2>3. tab'[s] = IF l.at = "closed" THEN l ELSE Followed(l, Held(l), Held(l)', Linked(l)')
    <3> DEFINE were == {tab[u] : u \in Tabs}
               now == [d \in were |-> Held(d)']
               linked == [d \in were |-> Linked(d)']
    <3>1. tab' = [u \in Tabs |-> IF u = t THEN new ELSE
                    IF tab[u].at = "closed" THEN tab[u]
                    ELSE Followed(tab[u], Held(tab[u]), now[tab[u]], linked[tab[u]])]
      BY DEF TabsAfter
    <3>2. now[l] = Held(l)' /\ linked[l] = Linked(l)'
      BY <2>1
    <3> HIDE DEF now, linked
    <3> QED  BY <2>1, <3>1, <3>2
  <2>4. PICK m : m = tab'[s]
    OBVIOUS
  <2>5. WalkTyped(m) /\ (~m.shaken => Walked(m)')
    <3>1. CASE l.at = "closed"
      <4>1. m = l
        BY <2>3, <2>4, <3>1
      <4> QED  BY <2>2, <3>1, <4>1 DEF Walked
    <3>2. CASE l.at # "closed"
      <4>1. m = Followed(l, Held(l), Held(l)', Linked(l)')
        BY <2>3, <2>4, <3>2
      <4> QED  BY <2>2, <3>2, <4>1, OthersFollow DEF WalksIInv
    <3> QED  BY <3>1, <3>2
  <2>6. ~m.shaken => Walked(tab[s])'
    BY <2>4, <2>5
  <2> QED  BY <2>4, <2>5, <2>6
<1>2. t \in Tabs => tab'[t] = new
  BY DEF TabsAfter
<1>3. t \in Tabs => (WalkTyped(tab[t]) /\ (~tab[t].shaken => Walked(tab[t])))'
  BY <1>2
<1>4. tab' \in [Tabs -> {tab'[s] : s \in Tabs}]
  BY DEF TabsAfter
<1> QED  BY <1>1, <1>3, <1>4 DEF WalksIInv

(* A page is opened.                                                       *)
NewlyOpened(m, page, e, must, shaken) ==
    /\ WalkTyped(m) /\ m.at = "making" /\ m.name = page /\ m.entry = e /\ m.k = 1
    /\ m.read = (e \notin unread) /\ m.shaken = shaken /\ m.must \in {must, {}}
    /\ m.must # {} => Joins(m)
    /\ Looks(m) /\ (page \in Unreads => UnmarkAhead(m))

(* A page opened makes its first step, and has yet to look for neighbours. *)
LEMMA OpenedIs ==
  ASSUME NEW page \in EntryPages, NEW e \in Entries, NEW must \in SUBSET Entries, NEW shaken,
         NEW m, m = Opened(page, e, must, shaken)
  PROVE  NewlyOpened(m, page, e, must, shaken)
<1> DEFINE l == [Closed EXCEPT !.at = "making", !.name = page, !.entry = e, !.k = 1,
                               !.read = e \notin unread, !.shaken = shaken]
           left == IF Joins(l) THEN must ELSE {}
<1>1. /\ DOMAIN l = TabFields /\ l.at = "making" /\ l.name = page /\ l.k = 1 /\ l.entry = e
      /\ l.read = (e \notin unread) /\ l.shaken = shaken
  BY DEF Closed, TabFields
<1>2. m = [l EXCEPT !.must = left]
  BY DEF Opened
<1> HIDE DEF l, left
<1>3. /\ DOMAIN m = TabFields /\ m.at = "making" /\ m.name = page /\ m.k = 1 /\ m.entry = e
      /\ m.read = (e \notin unread) /\ m.shaken = shaken /\ m.must = left
  BY <1>1, <1>2 DEF TabFields
<1>4. WalkTyped(m) /\ Looks(m) /\ (page \in Unreads => UnmarkAhead(m))
  BY <1>3, StepsLook DEF WalkTyped, Looks, UnmarkAhead, left
<1>5. Among(m) = Among(l)
  BY <1>1, <1>3, AmongIs DEF AmongOf
<1>6. Joins(m) <=> Joins(l)
  BY <1>1, <1>3, <1>5 DEF Joins
<1> QED  BY <1>3, <1>4, <1>6 DEF left, NewlyOpened

(* All it is owed is ahead of a page that is opened.                       *)
LEMMA OpenedWalks ==
  ASSUME there \subseteq Entries, NEW page \in EntryPages, NEW e \in there,
         NEW must \in SUBSET Entries, NEW shaken,
         NEW m, m = Opened(page, e, must, shaken),
         ~shaken /\ page # "history" =>
            /\ \A d \in must : d \in Among(m) /\ Follows(d, e)
            /\ page \in Unreads \ {"unread"} => e \in Scope(page)
  PROVE  WalkTyped(m) /\ (~m.shaken => Walked(m))
<1>1. /\ WalkTyped(m) /\ m.at = "making" /\ m.name = page /\ m.entry = e /\ m.k = 1
      /\ m.read = (e \notin unread) /\ m.shaken = shaken /\ m.must \in {must, {}}
      /\ m.must # {} => Joins(m)
      /\ Looks(m) /\ (page \in Unreads => UnmarkAhead(m))
  <2>1. e \in Entries
    OBVIOUS
  <2>2. NewlyOpened(m, page, e, must, shaken)
    BY <2>1, OpenedIs
  <2> QED  BY <2>2 DEF NewlyOpened
<1>2. ASSUME ~shaken, page # "history", m.must # {} PROVE Comes(m)
  <2>1. CASE page \in Unreads
    BY <1>1, <1>2, <2>1 DEF Comes, Joins, Unreads, Reach
  <2>2. CASE page \notin Unreads
    BY <1>1, <1>2, <2>2 DEF Comes, Joins, Unreads
  <2> QED  BY <2>1, <2>2
<1> QED  BY <1>1, <1>2 DEF Walked, Owes

(* Entries but the page's own stay among those it looks through.           *)
LEMMA AmongKeeps ==
  ASSUME NEW l, NEW m, l.name \in EntryPages, m.name = l.name, NEW d \in Among(l), d # l.entry
  PROVE  /\ d \in Among(m)
         /\ there' = there /\ starred' = starred /\ (d \in unread' <=> d \in unread) => d \in Among(m)'
<1>1. /\ Among(l) = AmongOf(l, there, unread, starred)
      /\ Among(m) = AmongOf(m, there, unread, starred)
      /\ Among(m)' = AmongOf(m, there', unread', starred')
  BY AmongIs, AmongIsAfter
<1> QED  BY <1>1 DEF AmongOf

(* Pages look through entries that are there.                              *)
LEMMA AmongIsThere ==
  \A l : l.name \in EntryPages => Among(l) \subseteq there
BY AmongIs DEF AmongOf

(* Pages are opened, left, or fail.                                        *)
LEMMA OpeningsWalk ==
  ASSUME WalksIInv, NEW t \in Tabs, OpenEntry(t) \/ FollowNext(t) \/ CloseTab(t) \/ PageFails(t)
  PROVE  WalksIInv'
<1>1. UNCHANGED <<there, unread, starred, code, user>>
  BY DEF OpenEntry, FollowNext, CloseTab, PageFails, OnlyPages, codeVars
<1>2. WalkTyped(Closed) /\ Walked(Closed)
  BY DEF WalkTyped, Walked, Closed, TabFields
<1>3. there \subseteq Entries /\ WalkTyped(tab[t]) /\ (~tab[t].shaken => Walked(tab[t]))
  BY DEF WalksIInv
<1>4. CASE CloseTab(t) \/ PageFails(t)
  <2>1. tab' = [tab EXCEPT ![t] = Closed]
    BY <1>4 DEF CloseTab, PageFails
  <2> QED  BY <1>1, <1>2, <2>1, WalkTab
<1>5. CASE OpenEntry(t)
  <2>1. PICK page \in EntryPages : \E e \in there \cap Scope(page) :
           tab' = [tab EXCEPT ![t] =
              Opened(page, e, {d \in Among(Opened(page, e, {}, FALSE)) : Follows(d, e)}, FALSE)]
    BY <1>5 DEF OpenEntry
  <2>2. PICK e \in there \cap Scope(page) :
           tab' = [tab EXCEPT ![t] =
              Opened(page, e, {d \in Among(Opened(page, e, {}, FALSE)) : Follows(d, e)}, FALSE)]
    BY <2>1
  <2>3. PICK l : l = Opened(page, e, {}, FALSE)
    OBVIOUS
  <2>4. PICK must : must = {d \in Among(l) : Follows(d, e)}
    OBVIOUS
  <2>5. PICK m : m = Opened(page, e, must, FALSE)
    OBVIOUS
  <2>6. e \in Entries /\ l.name = page /\ l.entry = e /\ l.read = (e \notin unread)
    <3>1. e \in Entries /\ {} \in SUBSET Entries
      BY <1>3
    <3>2. NewlyOpened(l, page, e, {}, FALSE)
      BY <2>3, <3>1, OpenedIs
    <3> QED  BY <3>1, <3>2 DEF NewlyOpened
  <2>7. must \in SUBSET Entries
    BY <1>3, <2>4, <2>6, AmongIsThere
  <2>8. m.name = page /\ m.entry = e /\ m.read = (e \notin unread)
    <3>1. NewlyOpened(m, page, e, must, FALSE)
      BY <2>5, <2>6, <2>7, OpenedIs
    <3> QED  BY <3>1 DEF NewlyOpened
  <2>9. Among(m) = Among(l)
    BY <2>6, <2>8, AmongIs DEF AmongOf
  <2>10. WalkTyped(m) /\ (~m.shaken => Walked(m))
    BY <1>3, <2>4, <2>5, <2>7, <2>9, OpenedWalks
  <2>11. tab' = [tab EXCEPT ![t] = m]
    BY <2>2, <2>3, <2>4, <2>5
  <2> QED  BY <1>1, <2>10, <2>11, WalkTab
<1>6. CASE FollowNext(t)
  <2>1. PICK l : l = tab[t]
    OBVIOUS
  <2>2. /\ l.at = "open" /\ l.next # NoEntry
        /\ tab' = [tab EXCEPT ![t] =
              IF l.next \in there THEN Opened(l.name, l.next, l.must \ {l.next}, l.shaken) ELSE Closed]
    BY <1>6, <2>1 DEF FollowNext
  <2>3. CASE l.next \notin there
    BY <1>1, <1>2, <2>2, <2>3, WalkTab
  <2>4. CASE l.next \in there
    <3>1. PICK m : m = Opened(l.name, l.next, l.must \ {l.next}, l.shaken)
      OBVIOUS
    <3>2. /\ WalkTyped(l) /\ (~l.shaken => Walked(l)) /\ l.name \in EntryPages
          /\ l.must \ {l.next} \in SUBSET Entries /\ l.next \in Entries
      BY <1>3, <2>1, <2>2, <2>4 DEF WalkTyped
    <3>3. m.name = l.name
      <4>1. NewlyOpened(m, l.name, l.next, l.must \ {l.next}, l.shaken)
        BY <3>1, <3>2, OpenedIs
      <4> QED  BY <4>1 DEF NewlyOpened
    <3>4. ASSUME ~l.shaken, l.name # "history"
          PROVE  /\ \A d \in l.must \ {l.next} : d \in Among(m) /\ Follows(d, l.next)
                 /\ l.name \in Unreads \ {"unread"} => l.next \in Scope(l.name)
      <4>1. Leads(l)
        BY <2>2, <3>2, <3>4 DEF Walked
      <4>2. \A d \in l.must : d # l.entry
        <5>1. l.entry \in Nat
          BY <2>2, <3>2, PagesAssumption DEF WalkTyped
        <5>2. \A d \in l.must : Follows(d, l.entry)
          BY <4>1 DEF Leads
        <5> QED  BY <5>1, <5>2 DEF Follows
      <4>3. \A d \in l.must \ {l.next} : d \in Among(m)
        BY <3>2, <3>3, <4>1, <4>2, AmongKeeps DEF Leads
      <4> QED  BY <2>2, <4>1, <4>3 DEF Leads, Reach, Unreads
    <3>5. WalkTyped(m) /\ (~m.shaken => Walked(m))
      BY <1>3, <2>4, <3>1, <3>2, <3>4, OpenedWalks
    <3> QED  BY <1>1, <2>2, <2>4, <3>1, <3>5, WalkTab
  <2> QED  BY <2>3, <2>4
<1> QED  BY <1>4, <1>5, <1>6

(* A list is turned to its next page.                                      *)
LEMMA ShownIs ==
  ASSUME there \subseteq Entries, NEW l, DOMAIN l = TabFields, l.must \subseteq Entries,
         NEW list \in Lists, Ranked(list), NEW offset,
         NEW m, m = Shown(l, list, offset)
  PROVE  /\ WalkTyped(m) /\ m.at = "list" /\ m.name = list /\ m.shaken = l.shaken
         /\ (/\ offset \in Nat /\ l.must \subseteq ListOf(list).of
             /\ \A d \in l.must : Place(ListOf(list).of, d) >= offset)
            => Turns(m)
<1> DEFINE M == ListOf(list).of
           from == IF list = "unread" /\ offset >= Cardinality(M) /\ M # {} THEN 0 ELSE offset
           total == Cardinality(M)
           l1 == [l EXCEPT !.at = "list", !.name = list, !.offset = from, !.total = total]
           left == l.must \ Cut(M, from)
<1>1. m = [l1 EXCEPT !.must = l1.must \ Cut(M, from)]
  BY DEF Shown
<1>2. M \in SUBSET Entries
  BY ListsAreOfEntries
<1> HIDE DEF M, from, total
<1>3. /\ DOMAIN l1 = TabFields /\ l1.at = "list" /\ l1.name = list /\ l1.offset = from
      /\ l1.total = total /\ l1.must = l.must /\ l1.shaken = l.shaken
  BY DEF TabFields
<1> HIDE DEF l1, left
<1>4. m = [l1 EXCEPT !.must = left]
  BY <1>1, <1>3 DEF left
<1>5. /\ DOMAIN m = TabFields /\ m.at = "list" /\ m.name = list /\ m.offset = from
      /\ m.total = total /\ m.must = left /\ m.shaken = l.shaken
  BY <1>3, <1>4 DEF TabFields
<1>6. WalkTyped(m)
  BY <1>5 DEF WalkTyped, left
<1>7. ASSUME offset \in Nat, l.must \subseteq M, \A d \in l.must : Place(M, d) >= offset
      PROVE  Turns(m)
  <2>1. total \in Nat /\ \A d \in M : Place(M, d) \in Nat /\ Place(M, d) < total
    BY <1>2, ByNumberIsAnOrder, PlacesAreOrdered DEF total
  <2>2. from \in Nat
    BY <1>7 DEF from
  <2>3. CASE from # offset
    <3>1. offset >= total
      BY <2>3 DEF from, total
    <3>2. l.must = {}
      BY <1>7, <2>1, <3>1
    <3> QED  BY <1>5, <2>1, <2>2, <3>2 DEF Turns, left
  <2>4. CASE from = offset
    <3>1. \A d \in left : d \in M /\ Place(M, d) >= offset /\ Place(M, d) \notin from..from + EntriesPerPage - 1
      BY <1>7 DEF left, Cut, Place
    <3>2. \A d \in left : Place(M, d) >= from + EntriesPerPage
      BY <2>1, <2>2, <2>4, <3>1, PagesAssumption
    <3>3. ~ShowNext(total, from) => left = {}
      BY <2>1, <2>2, <3>1, <3>2, PagesAssumption DEF ShowNext
    <3> QED  BY <1>5, <2>1, <2>2, <3>1, <3>2, <3>3 DEF Turns, M
  <2> QED  BY <2>3, <2>4
<1> QED  BY <1>5, <1>6, <1>7 DEF M

(* A list's pages are turned.                                              *)
LEMMA BrowsingWalks ==
  ASSUME WalksIInv, NEW t \in Tabs, Browse(t)
  PROVE  WalksIInv'
<1>1. UNCHANGED <<there, unread, starred, code, user>>
  BY DEF Browse, OpenList, NextPage, LastPage, OnlyPages, codeVars
<1>2. PICK l : l = tab[t]
  OBVIOUS
<1>3. there \subseteq Entries /\ WalkTyped(l) /\ (~l.shaken => Walked(l)) /\ DOMAIN l = TabFields
  BY <1>2 DEF WalksIInv, WalkTyped
<1>4. CASE OpenList(t)
  <2>1. PICK list \in Lists :
           /\ Ranked(list)
           /\ tab' = [tab EXCEPT ![t] = Shown([Closed EXCEPT !.must = ListOf(list).of], list, 0)]
    BY <1>4 DEF OpenList
  <2>2. PICK c : c = [Closed EXCEPT !.must = ListOf(list).of]
    OBVIOUS
  <2>3. PICK m : m = Shown(c, list, 0)
    OBVIOUS
  <2>4. DOMAIN c = TabFields /\ c.must = ListOf(list).of /\ c.must \in SUBSET Entries
    BY <1>3, <2>2, ListsAreOfEntries DEF Closed, TabFields
  <2>5. \A d \in c.must : Place(ListOf(list).of, d) >= 0
    <3> SUFFICES ASSUME NEW d \in c.must PROVE Place(ListOf(list).of, d) >= 0
      OBVIOUS
    <3>1. Place(ListOf(list).of, d) = PlaceIn(ListOf(list).of, d, ByNumber)
      BY <2>4, ByNumberIsAnOrder
    <3>2. PlaceIn(ListOf(list).of, d, ByNumber) \in Nat
      BY <2>4, ByNumberIsAnOrder, PlacesAreOrdered
    <3> QED  BY <3>1, <3>2
  <2>6. WalkTyped(m) /\ m.at = "list" /\ Turns(m)
    BY <1>3, <2>1, <2>3, <2>4, <2>5, ShownIs
  <2>7. Walked(m)
    BY <2>6 DEF Walked
  <2> QED  BY <1>1, <2>1, <2>2, <2>3, <2>6, <2>7, WalkTab
<1>5. CASE NextPage(t)
  <2>1. /\ l.at = "list" /\ ShowNext(l.total, l.offset)
        /\ tab' = [tab EXCEPT ![t] = Shown(l, l.name, l.offset + EntriesPerPage)]
    BY <1>2, <1>5 DEF NextPage
  <2>2. PICK m : m = Shown(l, l.name, l.offset + EntriesPerPage)
    OBVIOUS
  <2>3. l.name \in Lists /\ Ranked(l.name) /\ l.must \subseteq Entries
    BY <1>3, <2>1 DEF WalkTyped
  <2>4. WalkTyped(m) /\ m.at = "list" /\ m.shaken = l.shaken
    BY <1>3, <2>2, <2>3, ShownIs
  <2>5. ASSUME ~l.shaken PROVE Walked(m)
    <3>1. Turns(l)
      BY <1>3, <2>1, <2>5 DEF Walked
    <3>2. /\ l.offset + EntriesPerPage \in Nat /\ l.must \subseteq ListOf(l.name).of
          /\ \A d \in l.must : Place(ListOf(l.name).of, d) >= l.offset + EntriesPerPage
      BY <3>1, PagesAssumption DEF Turns
    <3>3. Turns(m)
      BY <1>3, <2>2, <2>3, <3>2, ShownIs
    <3> QED  BY <2>4, <3>3 DEF Walked
  <2> QED  BY <1>1, <2>1, <2>2, <2>4, <2>5, WalkTab
<1>6. CASE LastPage(t)
  <2>1. PICK offset : /\ l.at = "list"
                      /\ tab' = [tab EXCEPT ![t] = [Shown(l, l.name, offset) EXCEPT !.shaken = TRUE]]
    BY <1>2, <1>6 DEF LastPage
  <2>2. PICK m : m = Shown(l, l.name, offset)
    OBVIOUS
  <2>3. PICK n : n = [m EXCEPT !.shaken = TRUE]
    OBVIOUS
  <2>4. l.name \in Lists /\ Ranked(l.name) /\ l.must \subseteq Entries
    BY <1>3, <2>1 DEF WalkTyped
  <2>5. WalkTyped(m)
    BY <1>3, <2>2, <2>4, ShownIs
  <2>6. /\ DOMAIN n = TabFields /\ n.shaken = TRUE /\ n.at = m.at /\ n.name = m.name
        /\ n.entry = m.entry /\ n.k = m.k /\ n.must = m.must
    BY <2>3, <2>5 DEF WalkTyped, TabFields
  <2>7. WalkTyped(n)
    BY <2>5, <2>6 DEF WalkTyped
  <2> QED  BY <1>1, <2>1, <2>2, <2>3, <2>6, <2>7, WalkTab
<1> QED  BY <1>4, <1>5, <1>6 DEF Browse

(* A page goes on: its next step finds a walk as the one before left it.   *)
Alike(n, l) ==
    /\ DOMAIN n = TabFields /\ n.at = l.at /\ n.name = l.name /\ n.entry = l.entry /\ n.k = l.k
    /\ n.must = l.must /\ n.shaken = l.shaken
Later(does, l) == \E j \in (l.k + 1)..Len(Steps(l.name)) : Steps(l.name)[j] = does
NextStep(m, l) ==
    /\ WalkTyped(m) /\ m.at \in {"making", "open"}
    /\ m.name = l.name /\ m.entry = l.entry /\ m.must = l.must /\ m.shaken = l.shaken
    /\ m.at = "making" /\ Looks(m) <=> Later("siblings", l)
    /\ m.at = "making" /\ UnmarkAhead(m) <=> Later("unmark", l)

MadeFrom(m, n, l) == NextStep(m, l) /\ m.read = n.read /\ m.next = n.next

(* Made goes on, whatever it has read and wherever its link leads.         *)
LEMMA PageGoesOn ==
  ASSUME NEW l, WalkTyped(l), l.at = "making", NEW n, Alike(n, l), NEW m, m = Made(n)
  PROVE  MadeFrom(m, n, l)
<1>1. WalkTyped(n) /\ n.at = "making"
  BY DEF Alike, WalkTyped
<1>2. /\ WalkTyped(m) /\ m.at \in {"making", "open"}
      /\ m.name = n.name /\ m.entry = n.entry /\ m.read = n.read
      /\ m.next = n.next /\ m.must = n.must /\ m.shaken = n.shaken
      /\ m.at = "making" /\ Looks(m) <=> Later("siblings", n)
      /\ m.at = "making" /\ UnmarkAhead(m) <=> Later("unmark", n)
  BY <1>1, NextStepIs DEF Later
<1>3. \A does \in {"siblings", "unmark"} : Later(does, n) <=> Later(does, l)
  BY DEF Alike, Later
<1> QED  BY <1>2, <1>3 DEF Alike, NextStep, MadeFrom

(* What is owed stays so while nothing but the page's own entry is marked. *)
LEMMA LeadsOn ==
  ASSUME NEW l, NEW m, l.name \in EntryPages, m.name = l.name, m.entry = l.entry, m.must = l.must,
         m.next = l.next, Leads(l), there \subseteq Entries, l.entry \in Entries,
         there' = there, starred' = starred, user' = user,
         \A d \in Entries \ {l.entry} : d \in unread' <=> d \in unread
  PROVE  Leads(m)'
<1>1. \A e, d : Follows(e, d)' <=> Follows(e, d)
  BY DEF Follows
<1>2. ASSUME NEW d \in l.must PROVE d \in Among(m)' /\ Follows(d, m.entry)'
  <2>1. d \in Among(l) /\ Follows(d, l.entry) /\ d \in Entries
    BY AmongIsThere DEF Leads
  <2>2. d # l.entry
    BY <2>1, PagesAssumption DEF Follows
  <2> QED  BY <1>1, <2>1, <2>2, AmongKeeps
<1> QED  BY <1>1, <1>2 DEF Leads, Reach, Visible

(* The same before the page has looked for neighbours.                     *)
LEMMA OwesOn ==
  ASSUME NEW l, NEW m, l.name \in EntryPages, m.name = l.name, m.entry = l.entry, m.must = l.must,
         Owes(l), l.must # {} => Comes(m)', there \subseteq Entries, l.entry \in Entries,
         there' = there, starred' = starred, user' = user,
         \A d \in Entries \ {l.entry} : d \in unread' <=> d \in unread
  PROVE  Owes(m)'
<1>1. \A e, d : Follows(e, d)' <=> Follows(e, d)
  BY DEF Follows
<1>2. ASSUME NEW d \in l.must PROVE d \in Among(m)' /\ Follows(d, m.entry)'
  <2>1. d \in Among(l) /\ Follows(d, l.entry) /\ d \in Entries
    BY AmongIsThere DEF Owes
  <2>2. d # l.entry
    BY <2>1, PagesAssumption DEF Follows
  <2> QED  BY <1>1, <2>1, <2>2, AmongKeeps
<1> QED  BY <1>2 DEF Owes

(* A step of one page, whether or not it marks the entry.                  *)
LEMMA StepWalks ==
  ASSUME WalksIInv, NEW t \in Tabs, NEW S, NEW m, WalkTyped(m), ~m.shaken => Walked(m)', OnlyPages,
         Write(t, S, m) \/ (tab' = [tab EXCEPT ![t] = m] /\ unread' = unread)
  PROVE  WalksIInv'
<1>1. UNCHANGED <<there, starred, code, user>>
  BY DEF OnlyPages, codeVars
<1>2. CASE Write(t, S, m)
  BY <1>1, <1>2, WalkTabsAfter DEF Write, WalksIInv
<1>3. CASE tab' = [tab EXCEPT ![t] = m] /\ unread' = unread
  <2>1. ~m.shaken => Walked(m)
    BY <1>1, <1>3, WalkedStays
  <2> QED  BY <1>1, <1>3, <2>1, WalkTab
<1> QED  BY <1>2, <1>3

(* The steps that make a page.                                             *)
LEMMA MakingWalks ==
  ASSUME WalksIInv, NEW t \in Tabs,
         \/ MarkOnView(t) \/ MakeUnread(t) \/ FindSiblings(t) \/ ReadTitles(t) \/ ViewInMemory(t)
         \/ Restore(t) \/ RedirectOut(t)
  PROVE  WalksIInv'
<1>1. /\ OnlyPages /\ UNCHANGED <<there, starred, code, user>>
  BY DEF MarkOnView, MakeUnread, FindSiblings, ReadTitles, ViewInMemory, Restore, RedirectOut,
         OnlyPages, codeVars
<1>2. PICK l : l = tab[t]
  OBVIOUS
<1>3. there \subseteq Entries /\ WalkTyped(l) /\ (~l.shaken => Walked(l)) /\ Step(l) # "none"
  BY <1>2 DEF WalksIInv, MarkOnView, MakeUnread, FindSiblings, ReadTitles, ViewInMemory, Restore, RedirectOut
<1>4. /\ l.at = "making" /\ l.name \in EntryPages /\ l.entry \in Entries /\ DOMAIN l = TabFields
      /\ l.k \in 1..Len(Steps(l.name)) /\ Len(Steps(l.name)) \in Nat /\ Steps(l.name)[l.k] = Step(l)
      /\ Alike(l, l) /\ l.must \subseteq Entries
  BY <1>3, StepsLook DEF WalkTyped, Step, Alike
<1>5. /\ Looks(l) <=> Step(l) = "siblings" \/ Later("siblings", l)
      /\ UnmarkAhead(l) <=> Step(l) = "unmark" \/ Later("unmark", l)
  <2>1. PICK n : n = Len(Steps(l.name))
    OBVIOUS
  <2>2. \A j : j \in l.k..n <=> j = l.k \/ j \in (l.k + 1)..n
    BY <1>4, <2>1
  <2> QED  BY <1>4, <2>1, <2>2 DEF Looks, UnmarkAhead, Later
<1>6. ASSUME NEW x PROVE Alike([l EXCEPT !.read = x], l) /\ Alike([l EXCEPT !.next = x], l)
  BY <1>4 DEF Alike, TabFields
<1>7. CASE MarkOnView(t)
  <2>1. Step(l) = "mark" /\ Later("siblings", l) /\ (l.name \in Unreads => Later("unmark", l))
    BY <1>2, <1>4, <1>7, StepsLook DEF MarkOnView, Later
  <2>2. ASSUME NEW m, NextStep(m, l), ~m.shaken, l.name # "history",
               \A d \in Entries \ {l.entry} : d \in unread' <=> d \in unread,
               (m.read /\ m.next = l.next) \/ (unread' = unread /\ m.read = l.read)
        PROVE  Walked(m)'
    <3>1. Owes(l) /\ m.at = "making" /\ Looks(m)
      BY <1>3, <1>4, <1>5, <2>1, <2>2 DEF Walked, NextStep
    <3>2. ASSUME l.must # {} PROVE Comes(m)'
      <4>1. Comes(l) /\ m.name = l.name /\ m.entry = l.entry
        BY <2>2, <3>1, <3>2 DEF Owes, NextStep
      <4>2. CASE l.name \in Unreads
        BY <1>1, <2>1, <2>2, <4>1, <4>2 DEF Comes, NextStep, Reach, Visible
      <4>3. CASE l.name \notin Unreads
        <5>1. Among(l) = AmongOf(l, there, unread, starred) /\ Among(m)' = AmongOf(m, there', unread', starred')
          BY <1>4, <4>1, AmongIs, AmongIsAfter
        <5>2. l.entry \in AmongOf(l, there, unread, starred)
          BY <4>1, <4>3, <5>1 DEF Comes
        <5>3. l.entry \in AmongOf(m, there', unread', starred')
          BY <1>1, <1>4, <2>2, <4>1, <4>3, <5>2 DEF AmongOf, EntryPages, Unreads
        <5> QED  BY <4>1, <4>3, <5>1, <5>3 DEF Comes
      <4> QED  BY <4>2, <4>3
    <3>3. Owes(m)'
      BY <1>1, <1>3, <1>4, <2>2, <3>1, <3>2, OwesOn DEF NextStep
    <3> QED  BY <3>1, <3>3 DEF Walked, Looks
  <2>3. ASSUME NEW m, NextStep(m, l), l.name = "history" PROVE Walked(m)'
    BY <2>3 DEF Walked, NextStep
  <2>4. CASE MarksOnView(l)
    <3>1. PICK n : n = [l EXCEPT !.read = TRUE]
      OBVIOUS
    <3>2. PICK m : m = Made(n)
      OBVIOUS
    <3>3. Alike(n, l) /\ n.read = TRUE /\ n.next = l.next
      BY <1>4, <1>6, <3>1 DEF TabFields
    <3>4. NextStep(m, l) /\ m.read = TRUE /\ m.next = l.next
      <4>1. MadeFrom(m, n, l)
        BY <1>3, <1>4, <3>2, <3>3, PageGoesOn
      <4> QED  BY <3>3, <4>1 DEF MadeFrom
    <3>5. Write(t, unread \ {l.entry}, m)
      BY <1>2, <1>7, <2>4, <3>1, <3>2 DEF MarkOnView
    <3>6. \A d \in Entries \ {l.entry} : d \in unread' <=> d \in unread
      BY <3>5 DEF Write
    <3>7. ~m.shaken => Walked(m)'
      BY <2>2, <2>3, <3>4, <3>6
    <3> QED  BY <1>1, <3>4, <3>5, <3>7, StepWalks DEF NextStep
  <2>5. CASE ~MarksOnView(l)
    <3>1. PICK m : m = Made(l)
      OBVIOUS
    <3>2. NextStep(m, l) /\ m.read = l.read
      <4>1. MadeFrom(m, l, l)
        BY <1>3, <1>4, <3>1, PageGoesOn
      <4> QED  BY <4>1 DEF MadeFrom
    <3>3. tab' = [tab EXCEPT ![t] = m] /\ unread' = unread
      BY <1>2, <1>7, <2>5, <3>1 DEF MarkOnView
    <3>4. ~m.shaken => Walked(m)'
      BY <2>2, <2>3, <3>2, <3>3
    <3> QED  BY <1>1, <3>2, <3>3, <3>4, StepWalks DEF NextStep
  <2> QED  BY <2>4, <2>5
<1>8. CASE MakeUnread(t)
  <2>1. Step(l) = "unmark" /\ l.name \in Unreads /\ Later("siblings", l)
    BY <1>2, <1>4, <1>8, StepsLook DEF MakeUnread, Later
  <2>2. PICK m : m = Made(l)
    OBVIOUS
  <2>3. NextStep(m, l)
    <3>1. MadeFrom(m, l, l)
      BY <1>3, <1>4, <2>2, PageGoesOn
    <3> QED  BY <3>1 DEF MadeFrom
  <2>4. \/ Write(t, unread \cup ({l.entry} \cap there), m) /\ l.read
        \/ tab' = [tab EXCEPT ![t] = m] /\ unread' = unread /\ ~l.read
    BY <1>2, <1>8, <2>2 DEF MakeUnread
  <2>5. /\ \A d \in Entries \ {l.entry} : d \in unread' <=> d \in unread
        /\ l.read \/ l.entry \in unread => l.entry \in unread' \/ l.entry \notin there
    BY <2>4 DEF Write
  <2>6. ASSUME ~m.shaken PROVE Walked(m)'
    <3>1. Owes(l) /\ m.at = "making" /\ Looks(m) /\ m.name = l.name /\ m.entry = l.entry
      BY <1>3, <1>4, <1>5, <2>1, <2>3, <2>6 DEF Walked, NextStep, Unreads
    <3>2. l.must # {} => Comes(m)'
      BY <1>1, <2>1, <2>5, <3>1 DEF Owes, Comes, Reach, Visible
    <3>3. Owes(m)'
      BY <1>1, <1>3, <1>4, <2>3, <2>5, <3>1, <3>2, OwesOn DEF NextStep
    <3> QED  BY <3>1, <3>3 DEF Walked, Looks
  <2> QED  BY <1>1, <2>3, <2>4, <2>6, StepWalks DEF NextStep
<1>9. CASE FindSiblings(t)
  <2>1. Step(l) = "siblings" /\ ~Later("siblings", l) /\ ~UnmarkAhead(l)
    BY <1>2, <1>4, <1>9, StepsLook DEF FindSiblings, Later, UnmarkAhead
  <2>2. PICK e \in NextAmong(l) : tab' = [tab EXCEPT ![t] = Made([l EXCEPT !.next = e])]
    BY <1>2, <1>9 DEF FindSiblings
  <2>3. PICK n : n = [l EXCEPT !.next = e]
    OBVIOUS
  <2>4. PICK m : m = Made(n)
    OBVIOUS
  <2>5. Alike(n, l) /\ n.next = e
    BY <1>4, <1>6, <2>3 DEF TabFields
  <2>6. NextStep(m, l) /\ m.next = e
    <3>1. MadeFrom(m, n, l)
      BY <1>3, <1>4, <2>4, <2>5, PageGoesOn
    <3> QED  BY <2>5, <3>1 DEF MadeFrom
  <2>7. unread' = unread /\ tab' = [tab EXCEPT ![t] = m]
    BY <1>9, <2>2, <2>3, <2>4 DEF FindSiblings
  <2>8. ASSUME ~l.shaken, l.name # "history" PROVE Leads(m)
    <3>1. Owes(l)
      BY <1>3, <1>4, <1>5, <2>1, <2>8 DEF Walked
    <3>2. /\ m.name = l.name /\ m.entry = l.entry /\ m.must = l.must
      BY <2>6 DEF NextStep
    <3>3. ASSUME NEW d \in l.must PROVE d \in Among(m) /\ Follows(d, m.entry)
      <4>1. d \in Among(l) /\ Follows(d, l.entry) /\ d \in Entries
        BY <1>4, <3>1 DEF Owes
      <4>2. d # l.entry
        BY <1>4, <4>1, PagesAssumption DEF Follows
      <4> QED  BY <1>4, <3>2, <4>1, <4>2, AmongKeeps
    <3>4. Among(l) \subseteq there /\ NoEntry \notin there /\ (l.name \in Unreads => Among(l) \subseteq Reach(l.name))
      BY <1>3, <1>4, AmongIs, PagesAssumption DEF AmongOf, EntryPages, Unreads
    <3>5. ASSUME l.must # {} PROVE l.entry \in Among(l)
      <4>1. Comes(l)
        BY <3>1, <3>5 DEF Owes
      <4>2. CASE l.name \in Unreads
        <5>1. Among(l) = there \cap unread \cap Reach(l.name)
          BY <1>4, <4>2, AmongIs DEF AmongOf, Unreads
        <5> QED  BY <2>1, <4>1, <4>2, <5>1 DEF Comes
      <4>3. CASE l.name \notin Unreads
        BY <4>1, <4>3 DEF Comes
      <4> QED  BY <4>2, <4>3
    <3> DEFINE ahead == {d \in Among(l) : Follows(d, l.entry)}
    <3>6. l.must \subseteq ahead
      BY <3>1 DEF Owes
    <3>7. \/ e = NoEntry /\ l.must = {}
          \/ e \in ahead /\ \A d \in ahead \ {e} : Follows(d, e)
      BY <2>2, <2>8, <3>5, <3>6 DEF NextAmong
    <3>8. CASE e = NoEntry /\ l.must = {}
      BY <2>6, <3>2, <3>3, <3>8 DEF Leads
    <3>9. CASE e \in ahead /\ \A d \in ahead \ {e} : Follows(d, e)
      <4>1. e \in Among(l) /\ \A d \in l.must : d = e \/ Follows(d, e)
        BY <3>6, <3>9
      <4>2. e \in there /\ e # NoEntry /\ (l.name \in Unreads => e \in Reach(l.name))
        BY <3>4, <4>1
      <4> HIDE DEF ahead
      <4> QED  BY <2>6, <3>2, <3>3, <4>1, <4>2 DEF Leads
    <3> QED  BY <3>7, <3>8, <3>9
  <2>9. ~m.shaken => Walked(m)
    <3>1. (m.at = "making" /\ ~Looks(m)) \/ m.at = "open"
      BY <2>1, <2>6 DEF NextStep
    <3> QED  BY <2>1, <2>6, <2>8, <3>1 DEF Walked, NextStep
  <2>10. WalkTyped(m)
    BY <2>6 DEF NextStep
  <2> QED  BY <1>1, <2>7, <2>9, <2>10, WalkTab
<1>10. ASSUME NEW m, NextStep(m, l), m.next = l.next, Step(l) \in {"titles", "view", "restore"},
              ~m.shaken, \A d \in Entries \ {l.entry} : d \in unread' <=> d \in unread
       PROVE  Walked(m)'
  <2>1. ~Looks(l) /\ ~Later("siblings", l)
    BY <1>4, <1>5, <1>10, StepsLook DEF Looks
  <2>2. l.name # "history" => Leads(l)
    BY <1>3, <1>4, <1>10, <2>1 DEF Walked, NextStep
  <2>3. l.name # "history" => Leads(m)'
    BY <1>1, <1>3, <1>4, <1>10, <2>2, LeadsOn DEF NextStep
  <2>4. ~(m.at = "making" /\ Looks(m))
    BY <1>10, <2>1 DEF NextStep
  <2> QED  BY <1>10, <2>3, <2>4 DEF Walked, NextStep, Looks
<1>11. CASE ReadTitles(t)
  <2>1. PICK n : n = [l EXCEPT !.next = IF @ \in there THEN @ ELSE NoEntry]
    OBVIOUS
  <2>2. PICK m : m = Made(n)
    OBVIOUS
  <2>3. Alike(n, l) /\ n.next = IF l.next \in there THEN l.next ELSE NoEntry
    BY <1>4, <2>1 DEF Alike, TabFields
  <2>4. NextStep(m, l) /\ m.next = n.next /\ m.name = l.name
    <3>1. MadeFrom(m, n, l)
      BY <1>3, <1>4, <2>2, <2>3, PageGoesOn
    <3> QED  BY <2>3, <3>1 DEF MadeFrom, NextStep
  <2>5. Step(l) = "titles" /\ unread' = unread /\ tab' = [tab EXCEPT ![t] = m]
    BY <1>2, <1>11, <2>1, <2>2 DEF ReadTitles
  <2>6. ASSUME ~m.shaken PROVE Walked(m)'
    <3>1. CASE l.name = "history"
      BY <2>4, <3>1 DEF Walked, NextStep
    <3>2. CASE l.name # "history"
      <4>1. ~Looks(l)
        BY <1>4, <2>5, StepsLook DEF Looks
      <4>2. Leads(l)
        BY <1>3, <1>4, <2>4, <2>6, <3>2, <4>1 DEF Walked, NextStep
      <4>3. m.next = l.next
        BY <2>3, <2>4, <4>2 DEF Leads
      <4> QED  BY <1>10, <2>4, <2>5, <2>6, <4>3
    <3> QED  BY <3>1, <3>2
  <2> QED  BY <1>1, <2>4, <2>5, <2>6, StepWalks DEF NextStep
<1>12. CASE ViewInMemory(t)
  <2>1. PICK n : n = [l EXCEPT !.read = @ \/ MarksOnView(l)]
    OBVIOUS
  <2>2. PICK m : m = Made(n)
    OBVIOUS
  <2>3. Alike(n, l) /\ n.next = l.next
    BY <1>4, <2>1 DEF Alike, TabFields
  <2>4. NextStep(m, l) /\ m.next = l.next
    <3>1. MadeFrom(m, n, l)
      BY <1>3, <1>4, <2>2, <2>3, PageGoesOn
    <3> QED  BY <2>3, <3>1 DEF MadeFrom
  <2>5. Step(l) = "view" /\ unread' = unread /\ tab' = [tab EXCEPT ![t] = m]
    BY <1>2, <1>12, <2>1, <2>2 DEF ViewInMemory
  <2>6. ~m.shaken => Walked(m)'
    BY <1>10, <2>4, <2>5
  <2> QED  BY <1>1, <2>4, <2>5, <2>6, StepWalks DEF NextStep
<1>13. CASE Restore(t)
  <2>1. PICK m : m = Made(l)
    OBVIOUS
  <2>2. NextStep(m, l) /\ m.next = l.next
    <3>1. MadeFrom(m, l, l)
      BY <1>3, <1>4, <2>1, PageGoesOn
    <3> QED  BY <3>1 DEF MadeFrom
  <2>3. /\ Step(l) = "restore"
        /\ Write(t, unread \ {l.entry}, m) \/ (tab' = [tab EXCEPT ![t] = m] /\ unread' = unread)
    BY <1>2, <1>13, <2>1 DEF Restore
  <2>4. \A d \in Entries \ {l.entry} : d \in unread' <=> d \in unread
    BY <2>3 DEF Write
  <2>5. ~m.shaken => Walked(m)'
    BY <1>10, <2>2, <2>3, <2>4
  <2> QED  BY <1>1, <2>2, <2>3, <2>5, StepWalks DEF NextStep
<1>14. CASE RedirectOut(t)
  <2>1. PICK m : m = Made(l)
    OBVIOUS
  <2>2. NextStep(m, l) /\ m.next = l.next /\ m.read = l.read /\ m.name = l.name /\ m.entry = l.entry
    <3>1. MadeFrom(m, l, l)
      BY <1>3, <1>4, <2>1, PageGoesOn
    <3> QED  BY <3>1 DEF MadeFrom, NextStep
  <2>3. /\ Step(l) = "redirect" /\ unread' = unread
        /\ tab' = [tab EXCEPT ![t] = Closed] \/ tab' = [tab EXCEPT ![t] = m]
    BY <1>2, <1>14, <2>1 DEF RedirectOut
  <2>4. WalkTyped(Closed) /\ Walked(Closed)
    BY DEF WalkTyped, Walked, Closed, TabFields
  <2>5. ASSUME ~m.shaken PROVE Walked(m)
    <3>1. CASE l.name = "history"
      BY <2>2, <3>1 DEF Walked, NextStep
    <3>2. CASE l.name # "history" /\ Looks(l)
      <4>1. Owes(l) /\ m.at = "making" /\ Looks(m) /\ m.must = l.must
        BY <1>3, <1>4, <1>5, <2>2, <2>3, <2>5, <3>2 DEF Walked, NextStep
      <4>2. Among(m) = Among(l)
        BY <1>4, <2>2, AmongIs DEF AmongOf
      <4>3. UnmarkAhead(m) <=> UnmarkAhead(l)
        BY <1>5, <2>2, <2>3, <4>1 DEF NextStep
      <4>4. Owes(m)
        BY <2>2, <4>1, <4>2, <4>3 DEF Owes, Comes
      <4> QED  BY <4>1, <4>4 DEF Walked
    <3>3. CASE l.name # "history" /\ ~Looks(l)
      <4>1. Leads(l) /\ m.must = l.must /\ m.at \in {"making", "open"}
        BY <1>3, <1>4, <2>2, <2>5, <3>3 DEF Walked, NextStep
      <4>2. Among(m) = Among(l)
        BY <1>4, <2>2, AmongIs DEF AmongOf
      <4>3. Leads(m)
        BY <2>2, <4>1, <4>2 DEF Leads
      <4>4. ~(m.at = "making" /\ Looks(m))
        BY <1>5, <2>2, <3>3 DEF NextStep
      <4> QED  BY <4>1, <4>3, <4>4 DEF Walked
    <3> QED  BY <3>1, <3>2, <3>3
  <2>6. WalkTyped(m)
    BY <2>2 DEF NextStep
  <2> QED  BY <1>1, <2>3, <2>4, <2>5, <2>6, WalkTab
<1> QED  BY <1>7, <1>8, <1>9, <1>11, <1>12, <1>13, <1>14

(* Who follows the links to the next entry, or the pages of a list, to the *)
(* end has come by all that was ahead at the start and still belongs there *)
(* (getPrevNextID, getPagination).                                         *)
THEOREM WalksVisitAll == PagesSpec => []QuietWalksVisitAll
<1>1. ReadingInit /\ PagesInit => WalksIInv
  <2> SUFFICES ASSUME ReadingInit, PagesInit PROVE WalksIInv
    OBVIOUS
  <2>1. WalkTyped(Closed) /\ Walked(Closed)
    BY DEF WalkTyped, Walked, Closed, TabFields
  <2> QED  BY <2>1 DEF ReadingInit, PagesInit, WalksIInv
<1>2. WalksIInv /\ [PagesNext]_<<readingVars, pageVars>> => WalksIInv'
  <2> SUFFICES ASSUME WalksIInv, [PagesNext]_<<readingVars, pageVars>> PROVE WalksIInv'
    OBVIOUS
  <2>1. CASE MarkElsewhere
    <3>1. there' \subseteq Entries /\ TabsAfter(NoEntry, Closed) /\ user' = user
      BY <2>1 DEF MarkElsewhere, Marking, Arrive, SetEntriesStatus, SetEntriesStarredState, ToggleStarred,
                  MarkAsRead, Read, FlushHistory, ArchiveEntries, Bury, WalksIInv
    <3> QED  BY <3>1, WalkTabsAfter, PagesAssumption
  <2>2. ASSUME NEW t \in Tabs, Page(t) \/ Browse(t) PROVE WalksIInv'
    BY <2>2, OpeningsWalk, MakingWalks, BrowsingWalks DEF Page
  <2>3. CASE UNCHANGED <<readingVars, pageVars>>
    <3>1. UNCHANGED <<there, unread, starred, code, user, tab>>
      BY <2>3 DEF readingVars, pageVars, entryVars, codeVars
    <3>2. ASSUME NEW t \in Tabs PROVE (WalkTyped(tab[t]) /\ (~tab[t].shaken => Walked(tab[t])))'
      <4>1. PICK l : l = tab[t]
        OBVIOUS
      <4>2. WalkTyped(l) /\ (~l.shaken => Walked(l)) /\ l = tab'[t]
        BY <3>1, <4>1 DEF WalksIInv
      <4>3. ~l.shaken => Walked(l)'
        BY <3>1, <4>2, WalkedStays
      <4>4. ~l.shaken => Walked(tab[t])'
        BY <4>2, <4>3
      <4> QED  BY <4>2, <4>4
    <3> QED  BY <3>1, <3>2 DEF WalksIInv
  <2> QED  BY <2>1, <2>2, <2>3 DEF PagesNext
<1>3. WalksIInv => QuietWalksVisitAll
  BY DEF WalksIInv, Walked, Turns, Leads, QuietWalksVisitAll
<1> QED  BY <1>1, <1>2, <1>3, PTL DEF PagesSpec

(***************************************************************************)
(* Deliveries.                                                             *)
(***************************************************************************)

(* What a bookmark and a delivery are made of; nothing is kept of a        *)
(* bookmark that is not there.                                             *)
DeliveriesTyped ==
    /\ DOMAIN bookmark = {"there", "tags"}
    /\ bookmark.there \in BOOLEAN
    /\ ~bookmark.there => bookmark.tags = {}
    /\ DOMAIN job = Senders
    /\ \A s \in Senders : DOMAIN job[s] = {"at", "plan", "todo", "k", "post"}

(* Between its two requests a save holds whatever it may not take off.     *)
SavesHoldTheTags == \A s \in Senders : Between(s) => own \ hasty \subseteq job[s].post

DeliveriesIInv == DeliveriesTyped /\ SavesHoldTheTags /\ QuietBookmarksAreKept

(* Only Pinboard's second request stands between.                          *)
LEMMA PinboardAsksTwice == Len(Client("pinboard").asks) = 2
  BY DEF Client, pinboard

LEMMA DeliveriesInit == IntegrationInit => DeliveriesIInv
  <1> SUFFICES ASSUME NothingSent PROVE DeliveriesIInv
    BY DEF IntegrationInit
  <1>1. /\ DOMAIN bookmark = {"there", "tags"} /\ bookmark.there \in BOOLEAN
        /\ ~bookmark.there => bookmark.tags = {}
    BY DEF NothingSent
  <1>2. /\ DOMAIN job = Senders
        /\ \A s \in Senders : job[s] = [at |-> "idle", plan |-> <<>>, todo |-> <<>>, k |-> 1, post |-> {}]
    BY DEF NothingSent, Waiting
  <1>3. DeliveriesTyped
    BY <1>1, <1>2 DEF DeliveriesTyped
  <1>4. SavesHoldTheTags
    BY <1>2 DEF SavesHoldTheTags, Between, Sends
  <1>5. QuietBookmarksAreKept
    BY DEF NothingSent, QuietBookmarksAreKept
  <1> QED BY <1>3, <1>4, <1>5 DEF DeliveriesIInv

(* A step that only advances one delivery, and leaves it where it is not   *)
(* between the two requests, or holds the tags.                            *)
LEMMA DeliveriesAdvance ==
    ASSUME DeliveriesIInv, NEW s \in Senders, NEW j,
           DOMAIN j = {"at", "plan", "todo", "k", "post"},
           j.k = 2 /\ j.at = "sending" /\ j.todo # <<>> /\ Head(j.todo).to = "pinboard"
              => own \ hasty \subseteq j.post,
           job' = [job EXCEPT ![s] = j], UNCHANGED <<bookmark, own, hasty>>
    PROVE  DeliveriesIInv'
  <1>1. DeliveriesTyped'
    BY DEF DeliveriesIInv, DeliveriesTyped
  <1>2. \A t \in Senders : t # s => job'[t] = job[t]
    BY DEF DeliveriesIInv, DeliveriesTyped
  <1>3. job'[s] = j
    BY DEF DeliveriesIInv, DeliveriesTyped
  <1>4. SavesHoldTheTags'
    <2> SUFFICES ASSUME NEW t \in Senders, Between(t)' PROVE (own \ hasty \subseteq job[t].post)'
      BY DEF SavesHoldTheTags
    <2>1. CASE t = s
      BY <2>1, <1>3 DEF Between, Sends, To
    <2>2. CASE t # s
      <3>1. Between(t) /\ job'[t] = job[t]
        BY <2>2, <1>2 DEF Between, Sends, To
      <3> QED BY <3>1 DEF DeliveriesIInv, SavesHoldTheTags
    <2> QED BY <2>1, <2>2
  <1>5. QuietBookmarksAreKept'
    BY DEF DeliveriesIInv, QuietBookmarksAreKept
  <1> QED BY <1>1, <1>4, <1>5 DEF DeliveriesIInv

(* An error leaves the first request of the next parcel, an answer the     *)
(* next request to the same service, or the first one of the next message. *)
LEMMA AfterErrorFields ==
    ASSUME NEW j, DOMAIN j = {"at", "plan", "todo", "k", "post"}
    PROVE  DOMAIN AfterError(j) = {"at", "plan", "todo", "k", "post"} /\ AfterError(j).k = 1
  BY DEF AfterError

LEMMA AfterMessageFields ==
    ASSUME NEW j, DOMAIN j = {"at", "plan", "todo", "k", "post"}
    PROVE  /\ DOMAIN AfterMessage(j) = {"at", "plan", "todo", "k", "post"}
           /\ AfterMessage(j).post = j.post
           /\ \/ AfterMessage(j).k = 1
              \/ /\ AfterMessage(j).todo = j.todo
                 /\ j.k < Len(Client(Head(j.todo).to).asks)
  BY DEF AfterMessage

LEMMA DeliveriesSave ==
    ASSUME DeliveriesIInv, NEW s \in Senders, Save(s) \/ Refreshed(s) \/ Finish(s)
    PROVE  DeliveriesIInv'
  <1>1. PICK plan : job' = [job EXCEPT ![s] = [Waiting EXCEPT !.at = "sending", !.plan = plan, !.todo = plan]]
                    \/ job' = [job EXCEPT ![s].at = "done"]
    BY DEF Save, Refreshed, Finish
  <1>2. UNCHANGED <<bookmark, own, hasty>>
    BY DEF Save, Refreshed, Finish, Outside
  <1>3. CASE job' = [job EXCEPT ![s] = [Waiting EXCEPT !.at = "sending", !.plan = plan, !.todo = plan]]
    <2> DEFINE j == [Waiting EXCEPT !.at = "sending", !.plan = plan, !.todo = plan]
    <2>1. DOMAIN j = {"at", "plan", "todo", "k", "post"} /\ j.k = 1
      BY DEF Waiting
    <2>2. job' = [job EXCEPT ![s] = j]
      BY <1>3
    <2> HIDE DEF j
    <2>3. j.k # 2
      BY <2>1
    <2> QED BY <1>2, <2>1, <2>2, <2>3, DeliveriesAdvance
  <1>4. CASE job' = [job EXCEPT ![s].at = "done"]
    <2>1. job' = [job EXCEPT ![s] = [job[s] EXCEPT !.at = "done"]]
      BY <1>4
    <2>2. DOMAIN [job[s] EXCEPT !.at = "done"] = {"at", "plan", "todo", "k", "post"}
      BY DEF DeliveriesIInv, DeliveriesTyped
    <2>3. [job[s] EXCEPT !.at = "done"].at = "done"
      BY DEF DeliveriesIInv, DeliveriesTyped
    <2> DEFINE j == [job[s] EXCEPT !.at = "done"]
    <2>4. j.at # "sending"
      BY <2>3
    <2>5. job' = [job EXCEPT ![s] = j] /\ DOMAIN j = {"at", "plan", "todo", "k", "post"}
      BY <2>1, <2>2
    <2> HIDE DEF j
    <2> QED BY <1>2, <2>4, <2>5, DeliveriesAdvance
  <1> QED BY <1>1, <1>3, <1>4

LEMMA DeliveriesSkip ==
    ASSUME DeliveriesIInv, NEW s \in Senders, Skip(s)
    PROVE  DeliveriesIInv'
  <1>1. job' = [job EXCEPT ![s] = AfterError(job[s])] /\ UNCHANGED <<bookmark, own, hasty>>
    BY DEF Skip, Outside
  <1>2. DOMAIN job[s] = {"at", "plan", "todo", "k", "post"}
    BY DEF DeliveriesIInv, DeliveriesTyped
  <1> DEFINE j == AfterError(job[s])
  <1>3. DOMAIN j = {"at", "plan", "todo", "k", "post"} /\ j.k # 2
    BY <1>2, AfterErrorFields
  <1>4. job' = [job EXCEPT ![s] = j]
    BY <1>1
  <1> HIDE DEF j
  <1> QED BY <1>1, <1>3, <1>4, DeliveriesAdvance

LEMMA DeliveriesAsk ==
    ASSUME DeliveriesIInv, NEW s \in Senders, Ask(s)
    PROVE  DeliveriesIInv'
  <1>1. UNCHANGED <<bookmark, own, hasty>> /\ Head(job[s].todo).to # "pinboard"
    BY DEF Ask, Outside, To
  <1>2. PICK j : j \in {AfterMessage(job[s]), AfterError(job[s])} /\ job' = [job EXCEPT ![s] = j]
    BY DEF Ask
  <1>3. DOMAIN job[s] = {"at", "plan", "todo", "k", "post"}
    BY DEF DeliveriesIInv, DeliveriesTyped
  <1>4. DOMAIN j = {"at", "plan", "todo", "k", "post"} /\ (j.k = 1 \/ j.todo = job[s].todo)
    BY <1>2, <1>3, AfterErrorFields, AfterMessageFields
  <1>5. ~(j.k = 2 /\ j.at = "sending" /\ j.todo # <<>> /\ Head(j.todo).to = "pinboard")
    BY <1>1, <1>4
  <1> QED BY <1>1, <1>2, <1>4, <1>5, DeliveriesAdvance

LEMMA DeliveriesGet ==
    ASSUME DeliveriesIInv, NEW s \in Senders, GetBookmark(s)
    PROVE  DeliveriesIInv'
  <1>1. UNCHANGED <<bookmark, own, hasty>>
    BY DEF GetBookmark, Outside
  <1>2. PICK a \in Replies :
           job' = [job EXCEPT ![s] = IF Found(a).failed THEN AfterError(@)
                                     ELSE AfterMessage([@ EXCEPT !.post = Found(a).tags])]
    BY DEF GetBookmark
  <1>3. DOMAIN job[s] = {"at", "plan", "todo", "k", "post"}
    BY DEF DeliveriesIInv, DeliveriesTyped
  <1>4. own \ hasty \subseteq Found(a).tags
    BY DEF Found, DeliveriesIInv, DeliveriesTyped, QuietBookmarksAreKept
  <1> DEFINE read == [job[s] EXCEPT !.post = Found(a).tags]
  <1>5. DOMAIN read = {"at", "plan", "todo", "k", "post"} /\ read.post = Found(a).tags
    BY <1>3
  <1>6. CASE Found(a).failed
    <2>1. job' = [job EXCEPT ![s] = AfterError(job[s])]
      BY <1>2, <1>6
    <2> DEFINE j == AfterError(job[s])
    <2>2. DOMAIN j = {"at", "plan", "todo", "k", "post"} /\ j.k # 2 /\ job' = [job EXCEPT ![s] = j]
      BY <1>3, <2>1, AfterErrorFields
    <2> HIDE DEF j
    <2> QED BY <1>1, <2>2, DeliveriesAdvance
  <1>7. CASE ~Found(a).failed
    <2>1. job' = [job EXCEPT ![s] = AfterMessage(read)]
      BY <1>2, <1>7
    <2> HIDE DEF read
    <2>2. DOMAIN AfterMessage(read) = {"at", "plan", "todo", "k", "post"} /\ AfterMessage(read).post = Found(a).tags
      BY <1>5, AfterMessageFields
    <2> DEFINE j == AfterMessage(read)
    <2>3. /\ DOMAIN j = {"at", "plan", "todo", "k", "post"} /\ own \ hasty \subseteq j.post
          /\ job' = [job EXCEPT ![s] = j]
      BY <1>4, <2>1, <2>2
    <2> HIDE DEF j
    <2> QED BY <1>1, <2>3, DeliveriesAdvance
  <1> QED BY <1>6, <1>7

(* What a save writes holds what the user gave, also for another save that *)
(* is between its requests.                                                *)
LEMMA DeliveriesAdd ==
    ASSUME DeliveriesIInv, NEW s \in Senders, AddBookmark(s)
    PROVE  DeliveriesIInv'
  <1>1. UNCHANGED <<own, hasty>> /\ Between(s)
    BY DEF AddBookmark, Outside, Between
  <1>2. bookmark' = [there |-> TRUE, tags |-> job[s].post \cup {"miniflux"}] \/ bookmark' = bookmark
    BY DEF AddBookmark
  <1>3. PICK j : j \in {AfterMessage(job[s]), AfterError(job[s])} /\ job' = [job EXCEPT ![s] = j]
    BY DEF AddBookmark
  <1>4. DOMAIN job[s] = {"at", "plan", "todo", "k", "post"} /\ own \ hasty \subseteq job[s].post
    BY <1>1 DEF DeliveriesIInv, DeliveriesTyped, SavesHoldTheTags
  <1>5. DOMAIN j = {"at", "plan", "todo", "k", "post"} /\ j.k = 1
    <2>0. job[s].k = 2 /\ Head(job[s].todo).to = "pinboard"
      BY <1>1 DEF Between, To
    <2>1. ~(job[s].k < Len(Client(Head(job[s].todo).to).asks))
      <3>1. Client(Head(job[s].todo).to) = Client("pinboard")
        BY <2>0
      <3>2. ~(2 < 2)
        OBVIOUS
      <3> HIDE DEF Client
      <3> QED BY <2>0, <3>1, <3>2, PinboardAsksTwice
    <2> QED BY <2>1, <1>3, <1>4, AfterErrorFields, AfterMessageFields
  <1>6. DeliveriesTyped'
    <2>1. /\ DOMAIN bookmark' = {"there", "tags"} /\ bookmark'.there \in BOOLEAN
          /\ ~bookmark'.there => bookmark'.tags = {}
      <3>1. CASE bookmark' = [there |-> TRUE, tags |-> job[s].post \cup {"miniflux"}]
        <4> DEFINE tags == job[s].post \cup {"miniflux"}
        <4>1. bookmark' = [there |-> TRUE, tags |-> tags]
          BY <3>1
        <4> HIDE DEF tags
        <4> QED BY <4>1
      <3>2. CASE bookmark' = bookmark
        BY <3>2 DEF DeliveriesIInv, DeliveriesTyped
      <3> QED BY <1>2, <3>1, <3>2
    <2>2. /\ DOMAIN job' = Senders
          /\ \A t \in Senders : DOMAIN job'[t] = {"at", "plan", "todo", "k", "post"}
      BY <1>3, <1>5 DEF DeliveriesIInv, DeliveriesTyped
    <2> QED BY <2>1, <2>2 DEF DeliveriesTyped
  <1>7. SavesHoldTheTags'
    <2> SUFFICES ASSUME NEW t \in Senders, Between(t)' PROVE (own \ hasty \subseteq job[t].post)'
      BY DEF SavesHoldTheTags
    <2>1. t # s /\ job'[t] = job[t]
      BY <1>3, <1>5 DEF Between, Sends, DeliveriesIInv, DeliveriesTyped
    <2>2. Between(t)
      BY <2>1 DEF Between, Sends, To
    <2> QED BY <1>1, <2>1, <2>2 DEF DeliveriesIInv, SavesHoldTheTags
  <1>8. QuietBookmarksAreKept'
    BY <1>1, <1>2, <1>4 DEF DeliveriesIInv, QuietBookmarksAreKept
  <1> QED BY <1>6, <1>7, <1>8 DEF DeliveriesIInv

LEMMA DeliveriesEdit ==
    ASSUME DeliveriesIInv, EditBookmark
    PROVE  DeliveriesIInv'
  <1>1. PICK tags \in SUBSET OwnTags, kept \in BOOLEAN :
           /\ bookmark' = [there |-> kept, tags |-> tags] /\ (~kept => tags = {})
           /\ own' = tags
           /\ hasty' = IF \E s \in Senders : Between(s) THEN tags ELSE {}
    BY DEF EditBookmark
  <1>2. UNCHANGED job
    BY DEF EditBookmark
  <1>3. DeliveriesTyped'
    BY <1>1, <1>2 DEF DeliveriesIInv, DeliveriesTyped
  <1>4. \A s \in Senders : Between(s)' => Between(s)
    BY <1>2 DEF Between, Sends, To
  <1>5. SavesHoldTheTags'
    BY <1>1, <1>4 DEF SavesHoldTheTags
  <1>6. QuietBookmarksAreKept'
    BY <1>1 DEF QuietBookmarksAreKept
  <1> QED BY <1>3, <1>5, <1>6 DEF DeliveriesIInv

LEMMA DeliveriesStay == DeliveriesIInv /\ [IntegrationNext]_integrationVars => DeliveriesIInv'
  <1> SUFFICES ASSUME DeliveriesIInv, [IntegrationNext]_integrationVars PROVE DeliveriesIInv'
    OBVIOUS
  <1>1. CASE EditBookmark
    BY <1>1, DeliveriesEdit
  <1>2. CASE \E s \in Senders : Sending(s)
    BY <1>2, DeliveriesSave, DeliveriesSkip, DeliveriesAsk, DeliveriesGet, DeliveriesAdd DEF Sending
  <1>3. CASE UNCHANGED integrationVars
    BY <1>3 DEF integrationVars, DeliveriesIInv, DeliveriesTyped, SavesHoldTheTags, Between, Sends, To,
                QuietBookmarksAreKept
  <1> QED BY <1>1, <1>2, <1>3 DEF IntegrationNext

(* Whatever saves and refreshes run at once, and whatever answers are      *)
(* lost: a save only takes a tag off the user's bookmark at Pinboard that  *)
(* was given between its reading and its writing (pinboard.go,             *)
(* CreateBookmark).                                                        *)
THEOREM BookmarksAreKept == IntegrationSpec => []QuietBookmarksAreKept
  <1>1. DeliveriesIInv => QuietBookmarksAreKept
    BY DEF DeliveriesIInv
  <1> QED BY <1>1, DeliveriesInit, DeliveriesStay, PTL DEF IntegrationSpec

(* What is sent: parcels for the services.  Pinboard gets no empty one.    *)
Services == SendServices \cup
    {"matrixbot", "webhook", "ntfy", "apprise", "discord", "slack", "pushover", "telegrambot", "readeck"}
Messages == SUBSET ToSet(NewEntries)
Parcels == {p \in [to : Services, of : Seq(Messages)] : p.to = "pinboard" => p.of # <<>>}

(* The services by name: whether one is which is not to be computed.       *)
LEMMA ServicesAre ==
  Services = {"betula", "pinboard", "instapaper", "wallabag", "notion", "nunuxkeeper", "espial",
              "linkace", "linkding", "linktaco", "linkwarden", "readeck", "readwise", "cubox",
              "shiori", "shaarli", "archiveorg", "webhook", "omnivore", "karakeep", "raindrop",
              "matrixbot", "ntfy", "apprise", "discord", "slack", "pushover", "telegrambot"}
<1>1. DOMAIN SendOrder = 1..21
  BY DEF SendOrder
<1>2. SendServices = {SendOrder[i] : i \in 1..21}
  BY <1>1 DEF SendServices, ToSet
<1>3. 1..21 = {1, 2, 3, 4, 5, 6, 7, 8, 9, 10, 11, 12, 13, 14, 15, 16, 17, 18, 19, 20, 21}
  OBVIOUS
<1> QED  BY <1>2, <1>3 DEF Services, SendOrder

(* Every client has something to ask.                                      *)
Asks(client) == /\ Len(client.asks) \in Nat \ {0}
                /\ DOMAIN client.asks = 1..Len(client.asks)

(* Every client has a sequence of requests.                                *)
LEMMA ClientsAsk ==
  ASSUME NEW c \in Services
  PROVE  Asks(Client(c))
<1>1. /\ Asks(betula) /\ Asks(archiveorg) /\ Asks(omnivore) /\ Asks(ntfy)
      /\ Asks(discord) /\ Asks(slack)
  BY DEF Asks, betula, archiveorg, omnivore, ntfy, discord, slack, AnyClient
<1>2. Asks(pinboard) /\ Asks(wallabag) /\ Asks(shiori) /\ Asks(matrixbot)
  BY DEF Asks, pinboard, wallabag, shiori, matrixbot
<1>3. /\ Asks(instapaper) /\ Asks(notion) /\ Asks(nunuxkeeper) /\ Asks(espial) /\ Asks(linkace)
      /\ Asks(linkding) /\ Asks(linktaco) /\ Asks(linkwarden) /\ Asks(readeck) /\ Asks(readwise)
  BY DEF Asks, instapaper, notion, nunuxkeeper, espial, linkace, linkding, linktaco, linkwarden,
         readeck, readwise
<1>4. /\ Asks(cubox) /\ Asks(shaarli) /\ Asks(raindrop) /\ Asks(webhook) /\ Asks(apprise)
      /\ Asks(pushover) /\ Asks(telegrambot)
  BY DEF Asks, cubox, shaarli, raindrop, webhook, apprise, pushover, telegrambot
<1>5. \A tagged \in BOOLEAN : Asks(karakeep(tagged))
  <2> SUFFICES ASSUME NEW tagged \in BOOLEAN PROVE Asks(karakeep(tagged))
    OBVIOUS
  <2>1. karakeep(tagged).asks = <<Exactly(201) \cap Sensible>> \o
           (IF tagged THEN <<Exactly(200) \cup Exactly(201)>> ELSE <<>>)
    BY DEF karakeep
  <2> DEFINE S == SUBSET Replies
  <2>2. <<Exactly(201) \cap Sensible>> \in Seq(S) /\ <<Exactly(200) \cup Exactly(201)>> \in Seq(S)
        /\ <<>> \in Seq(S)
    BY DEF Exactly, Sensible
  <2>3. /\ Len(<<Exactly(201) \cap Sensible>>) = 1 /\ Len(<<Exactly(200) \cup Exactly(201)>>) = 1
        /\ Len(<<>>) = 0
    OBVIOUS
  <2> HIDE DEF S
  <2>4. karakeep(tagged).asks \in Seq(S) /\ Len(karakeep(tagged).asks) >= 1
    BY <2>1, <2>2, <2>3, ConcatProperties
  <2> QED  BY <2>4 DEF Asks
<1>6. CASE c = "karakeep"
  <2>1. Client(c) = karakeep(<<"karakeep", "tags">> \notin settings.empty)
    BY <1>6 DEF Client
  <2> QED  BY <1>5, <2>1
<1>7. CASE c \in {"betula", "archiveorg", "omnivore", "ntfy", "discord", "slack"}
  BY <1>1, <1>7 DEF Client
<1>8. CASE c \in {"pinboard", "wallabag", "shiori", "matrixbot"}
  BY <1>2, <1>8 DEF Client
<1>9. CASE c \in {"instapaper", "notion", "nunuxkeeper", "espial", "linkace", "linkding", "linktaco",
                  "linkwarden", "readeck", "readwise"}
  BY <1>3, <1>9 DEF Client
<1>10. CASE c \in {"cubox", "shaarli", "raindrop", "webhook", "apprise", "pushover", "telegrambot"}
  BY <1>4, <1>10 DEF Client
<1> QED  BY <1>6, <1>7, <1>8, <1>9, <1>10, ServicesAre

(* What SendEntry goes through: the parcels for the first services.        *)
Collecting(e, n, first) ==
  first = [i \in 0..n |-> IF i = 0 THEN <<>>
                          ELSE IF SendOrder[i] \in settings.on
                               THEN Append(first[i - 1], [to |-> SendOrder[i], of |-> <<{e}>>])
                               ELSE first[i - 1]]

(* The plan of one entry is collected service by service.                  *)
LEMMA CollectionGoesOn ==
  ASSUME NEW e \in ToSet(NewEntries), NEW n \in 0..Len(SendOrder)
  PROVE  \E first : Collecting(e, n, first) /\ first[n] \in Seq(Parcels)
<1> DEFINE Bad == {k \in 0..Len(SendOrder) :
                      ~\E first : Collecting(e, k, first) /\ first[k] \in Seq(Parcels)}
<1>1. Len(SendOrder) = 21 /\ DOMAIN SendOrder = 1..21
  BY DEF SendOrder
<1>2. 0 \notin Bad
  <2> DEFINE first == [i \in 0..0 |-> <<>>]
  <2>1. Collecting(e, 0, first) /\ first[0] \in Seq(Parcels)
    BY DEF Collecting
  <2> QED  BY <2>1
<1>3. ASSUME NEW k \in 0..Len(SendOrder), k \notin Bad, k + 1 \in 0..Len(SendOrder)
      PROVE  k + 1 \notin Bad
  <2>1. PICK first : Collecting(e, k, first) /\ first[k] \in Seq(Parcels)
    BY <1>3
  <2> DEFINE last == IF SendOrder[k + 1] \in settings.on
                     THEN Append(first[k], [to |-> SendOrder[k + 1], of |-> <<{e}>>]) ELSE first[k]
             more == [i \in 0..(k + 1) |-> IF i = k + 1 THEN last ELSE first[i]]
  <2>2. first = [i \in 0..k |-> IF i = 0 THEN <<>>
                     ELSE IF SendOrder[i] \in settings.on
                          THEN Append(first[i - 1], [to |-> SendOrder[i], of |-> <<{e}>>])
                          ELSE first[i - 1]]
    BY <2>1 DEF Collecting
  <2>3. last \in Seq(Parcels)
    <3>1. SendOrder[k + 1] \in Services
      <4>1. k + 1 \in DOMAIN SendOrder
        <5> HIDE DEF Bad
        <5> QED  BY <1>1, <1>3
      <4> QED  BY <4>1 DEF Services, SendServices, ToSet
    <3>2. {e} \in Messages
      BY DEF Messages
    <3> DEFINE parcel == [to |-> SendOrder[k + 1], of |-> <<{e}>>]
    <3>3. parcel \in Parcels
      BY <3>1, <3>2 DEF Parcels
    <3> HIDE DEF parcel
    <3>4. Append(first[k], parcel) \in Seq(Parcels)
      BY <2>1, <3>3
    <3> USE DEF parcel
    <3> QED  BY <2>1, <3>4
  <2>4. ASSUME NEW i \in 0..(k + 1)
        PROVE  more[i] = IF i = 0 THEN <<>>
                         ELSE IF SendOrder[i] \in settings.on
                              THEN Append(more[i - 1], [to |-> SendOrder[i], of |-> <<{e}>>])
                              ELSE more[i - 1]
    <3>1. CASE i = k + 1
      <4>1. more[i] = last /\ more[k] = first[k] /\ i - 1 = k /\ i # 0
        BY <3>1
      <4> QED  BY <4>1, <3>1
    <3> HIDE DEF last
    <3>2. CASE i # k + 1 /\ i # 0
      <4>1. more[i] = first[i] /\ more[i - 1] = first[i - 1] /\ i \in 0..k
        BY <3>2
      <4>2. first[i] = IF SendOrder[i] \in settings.on
                       THEN Append(first[i - 1], [to |-> SendOrder[i], of |-> <<{e}>>]) ELSE first[i - 1]
        BY <2>2, <4>1, <3>2
      <4> HIDE DEF more
      <4> QED  BY <4>1, <4>2, <3>2
    <3>3. CASE i = 0
      <4>1. more[i] = first[i] /\ i \in 0..k
        BY <3>3
      <4>2. first[i] = <<>>
        BY <2>2, <4>1, <3>3
      <4> HIDE DEF more
      <4> QED  BY <4>1, <4>2, <3>3
    <3> QED  BY <3>1, <3>2, <3>3
  <2>5. more = [i \in 0..(k + 1) |-> more[i]]
    OBVIOUS
  <2>6. more[k + 1] = last
    OBVIOUS
  <2> HIDE DEF more, last
  <2>7. Collecting(e, k + 1, more)
    BY <2>4, <2>5 DEF Collecting
  <2> QED  BY <2>3, <2>6, <2>7
<1>4. Bad = {}
  <2> SUFFICES ASSUME Bad # {} PROVE FALSE
    OBVIOUS
  <2>1. Bad \in SUBSET Nat /\ Bad \subseteq 0..Len(SendOrder)
    <3>1. Bad \subseteq 0..Len(SendOrder)
      OBVIOUS
    <3> HIDE DEF Bad
    <3> QED  BY <1>1, <3>1
  <2>2. \A k \in 0..Len(SendOrder) : k \notin Bad /\ k + 1 \in 0..Len(SendOrder) => k + 1 \notin Bad
    BY <1>3
  <2> HIDE DEF Bad
  <2>3. PICK m \in Bad : \A k \in Bad : m <= k
    BY <2>1, LeastNumber
  <2>4. m \in 0..Len(SendOrder) /\ m # 0 /\ m - 1 \in 0..Len(SendOrder) /\ m - 1 \notin Bad
    BY <1>1, <2>1, <2>3, <1>2
  <2>5. (m - 1) + 1 \notin Bad
    BY <1>1, <2>2, <2>4
  <2> QED  BY <1>1, <2>3, <2>4, <2>5
<1> QED  BY <1>4

(* What SendEntry goes through: the recursive function is the collection,  *)
(* by the first number at which they would differ.                         *)
LEMMA SendPlans ==
  ASSUME NEW e \in ToSet(NewEntries)
  PROVE  SendEntry(e) \in Seq(Parcels)
<1> DEFINE n == Len(SendOrder)
           first == CHOOSE f : f = [i \in 0..n |-> IF i = 0 THEN <<>>
                          ELSE IF SendOrder[i] \in settings.on
                               THEN Append(f[i - 1], [to |-> SendOrder[i], of |-> <<{e}>>])
                               ELSE f[i - 1]]
<1>1. SendEntry(e) = first[n]
  BY DEF SendEntry
<1>2. n \in 0..Len(SendOrder)
  BY DEF SendOrder
<1>3. PICK collected : Collecting(e, n, collected) /\ collected[n] \in Seq(Parcels)
  BY <1>2, CollectionGoesOn
<1>4. Collecting(e, n, first)
  BY <1>3 DEF Collecting
<1> HIDE DEF first
<1>5. first[n] = collected[n]
  <2> DEFINE Bad == {k \in 0..n : first[k] # collected[k]}
  <2> SUFFICES ASSUME Bad # {} PROVE FALSE
    BY <1>2
  <2>1. Bad \in SUBSET Nat
    BY <1>2
  <2>2. PICK m \in Bad : \A k \in Bad : m <= k
    <3> HIDE DEF Bad
    <3> QED  BY <2>1, LeastNumber
  <2>3. m \in 0..n /\ first[m] # collected[m] /\ n \in Nat
    BY <1>2
  <2> HIDE DEF n
  <2>4. /\ first[m] = IF m = 0 THEN <<>>
                      ELSE IF SendOrder[m] \in settings.on
                           THEN Append(first[m - 1], [to |-> SendOrder[m], of |-> <<{e}>>])
                           ELSE first[m - 1]
        /\ collected[m] = IF m = 0 THEN <<>>
                      ELSE IF SendOrder[m] \in settings.on
                           THEN Append(collected[m - 1], [to |-> SendOrder[m], of |-> <<{e}>>])
                           ELSE collected[m - 1]
    BY <1>3, <1>4, <2>3 DEF Collecting
  <2>5. m # 0 => first[m - 1] = collected[m - 1]
    BY <2>2, <2>3
  <2> QED  BY <2>3, <2>4, <2>5
<1> QED  BY <1>1, <1>3, <1>5

(* What PushEntries goes through.                                          *)
LEMMA PushPlans ==
  ASSUME NEW n \in 1..Len(NewEntries)
  PROVE  PushEntries(SubSeq(NewEntries, 1, n)) \in Seq(Parcels)
<1> DEFINE es == SubSeq(NewEntries, 1, n)
           each == [i \in 1..Len(es) |-> {es[i]}]
           atOnce(c, messages) == IF PushIsOn(c) THEN <<[to |-> c, of |-> messages]>> ELSE <<>>
           oneByOne(c, flag) ==
             IF PushIsOn(flag) THEN [i \in 1..Len(es) |-> [to |-> c, of |-> <<each[i]>>]] ELSE <<>>
<1>1. es \in Seq(ToSet(NewEntries)) /\ Len(es) \in Nat
  BY IntegrationAssumption, SubSeqProperties
<1>2. \A i \in 1..Len(es) : {es[i]} \in Messages
  BY <1>1 DEF Messages
<1>3. ToSet(es) \in Messages
  BY <1>1 DEF Messages, ToSet
<1> HIDE DEF es
<1>4. each \in Seq(Messages)
  BY <1>1, <1>2
<1>5. \A i \in 1..Len(es) : <<each[i]>> \in Seq(Messages)
  BY <1>1, <1>2
<1>6. <<ToSet(es)>> \in Seq(Messages) /\ (IF es = <<>> THEN <<>> ELSE <<ToSet(es)>>) \in Seq(Messages)
  BY <1>3
<1> HIDE DEF each
<1>7. ASSUME NEW c \in Services \ {"pinboard"}, NEW messages \in Seq(Messages)
      PROVE  atOnce(c, messages) \in Seq(Parcels)
  <2> DEFINE parcel == [to |-> c, of |-> messages]
  <2>1. parcel \in Parcels
    BY <1>7 DEF Parcels
  <2> HIDE DEF parcel
  <2>2. <<parcel>> \in Seq(Parcels) /\ <<>> \in Seq(Parcels)
    BY <2>1
  <2> USE DEF parcel
  <2> QED  BY <2>2
<1>8. ASSUME NEW c \in Services \ {"pinboard"}, NEW flag
      PROVE  oneByOne(c, flag) \in Seq(Parcels)
  <2>1. \A i \in 1..Len(es) : [to |-> c, of |-> <<each[i]>>] \in Parcels
    BY <1>5, <1>8 DEF Parcels
  <2>2. [i \in 1..Len(es) |-> [to |-> c, of |-> <<each[i]>>]] \in Seq(Parcels)
    BY <1>1, <2>1
  <2>3. <<>> \in Seq(Parcels)
    OBVIOUS
  <2> QED  BY <2>2, <2>3
<1>9. {"matrixbot", "webhook", "ntfy", "apprise", "discord", "slack", "pushover", "telegrambot", "readeck"}
        \subseteq Services \ {"pinboard"}
  BY ServicesAre
<1>10. /\ atOnce("matrixbot", <<ToSet(es)>>) \in Seq(Parcels)
       /\ atOnce("webhook", IF es = <<>> THEN <<>> ELSE <<ToSet(es)>>) \in Seq(Parcels)
  BY <1>6, <1>7, <1>9
<1>11. /\ atOnce("ntfy", each) \in Seq(Parcels) /\ atOnce("apprise", each) \in Seq(Parcels)
       /\ atOnce("discord", each) \in Seq(Parcels) /\ atOnce("slack", each) \in Seq(Parcels)
       /\ atOnce("pushover", each) \in Seq(Parcels)
  BY <1>4, <1>7, <1>9
<1>12. oneByOne("telegrambot", "telegrambot") \in Seq(Parcels) /\ oneByOne("readeck", "readeck_push") \in Seq(Parcels)
  BY <1>8, <1>9
<1>13. PushEntries(es) =
    atOnce("matrixbot", <<ToSet(es)>>)
       \o atOnce("webhook", IF es = <<>> THEN <<>> ELSE <<ToSet(es)>>)
       \o atOnce("ntfy", each) \o atOnce("apprise", each) \o atOnce("discord", each)
       \o atOnce("slack", each) \o atOnce("pushover", each)
       \o oneByOne("telegrambot", "telegrambot") \o oneByOne("readeck", "readeck_push")
  BY DEF PushEntries, each
<1> HIDE DEF atOnce, oneByOne
<1>14. \A a, b \in Seq(Parcels) : a \o b \in Seq(Parcels)
  BY ConcatProperties
<1>15. PushEntries(es) \in Seq(Parcels)
  BY <1>10, <1>11, <1>12, <1>13, <1>14
<1> QED  BY <1>15 DEF es

(* Of a parcel: a request has been answered, with success or not, ...      *)
HasAnswer(answers, c, message, k) ==
    \E h \in answers : h.to = c /\ h.of = message /\ h.k = k
Refuses(answers, parcel) ==
    \E h \in answers : h.to = parcel.to /\ h.of \in ToSet(parcel.of) /\ ~h.ok

(* ... all that there are to make have, or the service has refused one.    *)
Tried(answers, parcel) == Ready(parcel.to) /\ parcel.of # <<>> =>
    \/ Refuses(answers, parcel)
    \/ \A m \in ToSet(parcel.of), k \in DOMAIN Client(parcel.to).asks : HasAnswer(answers, parcel.to, m, k)

(* What is left of the parcel in hand is what has not been asked.          *)
InHand(answers, parcel, left, k) ==
    /\ left.to = parcel.to /\ ToSet(left.of) \subseteq ToSet(parcel.of)
    /\ parcel.of # <<>> => left.of # <<>>
    /\ k \in DOMAIN Client(parcel.to).asks
    /\ \A m \in ToSet(parcel.of) \ ToSet(left.of), q \in DOMAIN Client(parcel.to).asks :
          HasAnswer(answers, parcel.to, m, q)
    /\ left.of # <<>> => \A q \in 1..(k - 1) : HasAnswer(answers, parcel.to, Head(left.of), q)

(* A delivery goes through its plan in order.                              *)
GoesThrough(j, answers) ==
    LET over == Len(j.plan) - Len(j.todo)
    IN /\ DOMAIN j = {"at", "plan", "todo", "k", "post"}
       /\ j.plan \in Seq(Parcels) /\ j.todo \in Seq(Parcels) /\ Len(j.todo) <= Len(j.plan)
       /\ j.at = "done" => j.todo = <<>>
       /\ \A i \in 1..over : Tried(answers, j.plan[i])
       /\ j.todo # <<>> => InHand(answers, j.plan[over + 1], Head(j.todo), j.k)
       /\ \A i \in 2..Len(j.todo) : j.todo[i] = j.plan[over + i]

AnswersTyped(answers) ==
    \A h \in answers : h.k \in DOMAIN Client(h.to).asks

TriedIInv ==
    /\ DOMAIN job = Senders /\ heard = [s \in Senders |-> heard[s]]
    /\ \A s \in Senders : \A j, answers : j = job[s] /\ answers = heard[s] =>
          GoesThrough(j, answers) /\ AnswersTyped(answers)

(* Clients depend on the settings, which no delivery changes.              *)
LEMMA SettingsStay ==
  ASSUME settings' = settings
  PROVE  /\ \A c : Client(c)' = Client(c) /\ Ready(c)' = Ready(c)
         /\ \A j, answers : /\ GoesThrough(j, answers)' <=> GoesThrough(j, answers)
                            /\ AnswersTyped(answers)' <=> AnswersTyped(answers)
<1>1. \A c : Client(c)' = Client(c)
  BY DEF Client
<1>2. \A c : Ready(c)' = Ready(c)
  BY <1>1 DEF Ready
<1>3. \A answers : AnswersTyped(answers)' <=> AnswersTyped(answers)
  BY <1>1 DEF AnswersTyped
<1>4. \A answers, p : Tried(answers, p)' <=> Tried(answers, p)
  BY <1>1, <1>2 DEF Tried, Refuses, HasAnswer
<1>5. \A answers, p, left, k : InHand(answers, p, left, k)' <=> InHand(answers, p, left, k)
  BY <1>1 DEF InHand, HasAnswer
<1>6. \A j, answers : GoesThrough(j, answers)' <=> GoesThrough(j, answers)
  BY <1>4, <1>5 DEF GoesThrough
<1> QED  BY <1>1, <1>2, <1>3, <1>6

(* More answers take nothing back.                                         *)
LEMMA MoreAnswers ==
  ASSUME NEW few, NEW many, few \subseteq many
  PROVE  /\ \A p : Tried(few, p) => Tried(many, p)
         /\ \A c, m, k : HasAnswer(few, c, m, k) => HasAnswer(many, c, m, k)
<1>1. \A c, m, k : HasAnswer(few, c, m, k) => HasAnswer(many, c, m, k)
  BY DEF HasAnswer
<1>2. \A p : Refuses(few, p) => Refuses(many, p)
  BY DEF Refuses
<1> QED  BY <1>1, <1>2 DEF Tried

(* A sequence that is not empty, by its head and its tail.                 *)
LEMMA HeadAndTail ==
  ASSUME NEW S, NEW t \in Seq(S), t # <<>>
  PROVE  /\ Len(t) \in Nat \ {0} /\ Head(t) = t[1] /\ Head(t) \in S /\ Tail(t) \in Seq(S)
         /\ Len(Tail(t)) = Len(t) - 1 /\ \A i \in 1..(Len(t) - 1) : Tail(t)[i] = t[i + 1]
         /\ ToSet(t) = {Head(t)} \cup ToSet(Tail(t))
         /\ Len(t) = 1 => ToSet(t) = {Head(t)}
<1>1. /\ Len(t) \in Nat \ {0} /\ Head(t) = t[1] /\ Head(t) \in S /\ Tail(t) \in Seq(S)
      /\ Len(Tail(t)) = Len(t) - 1 /\ \A i \in 1..(Len(t) - 1) : Tail(t)[i] = t[i + 1]
  BY HeadTailProperties, EmptySeq
<1>2. ToSet(t) = {t[i] : i \in 1..Len(t)} /\ ToSet(Tail(t)) = {Tail(t)[i] : i \in 1..(Len(t) - 1)}
  <2>1. DOMAIN t = 1..Len(t)
    BY LenProperties
  <2>2. DOMAIN Tail(t) = 1..(Len(t) - 1)
    BY <1>1, LenProperties
  <2> QED  BY <2>1, <2>2 DEF ToSet
<1>3. ToSet(t) = {Head(t)} \cup ToSet(Tail(t))
  <2>1. \A x : x \in ToSet(t) => x \in {Head(t)} \cup ToSet(Tail(t))
    <3> SUFFICES ASSUME NEW i \in 1..Len(t) PROVE t[i] = Head(t) \/ t[i] \in ToSet(Tail(t))
      BY <1>2
    <3>1. i # 1 => i - 1 \in 1..(Len(t) - 1) /\ t[i] = Tail(t)[i - 1]
      BY <1>1
    <3> QED  BY <1>1, <1>2, <3>1
  <2>2. \A x : x \in {Head(t)} \cup ToSet(Tail(t)) => x \in ToSet(t)
    <3>1. Head(t) \in ToSet(t)
      BY <1>1, <1>2
    <3>2. \A i \in 1..(Len(t) - 1) : i + 1 \in 1..Len(t)
      BY <1>1
    <3> QED  BY <1>1, <1>2, <3>1, <3>2
  <2> QED  BY <2>1, <2>2
<1>4. Len(t) = 1 => ToSet(t) = {Head(t)}
  BY <1>1, <1>2
<1> QED  BY <1>1, <1>3, <1>4

(* Done with a parcel: the next one is as it was planned.                  *)
LEMMA ParcelOver ==
  ASSUME NEW j, NEW few, NEW many, few \subseteq many, GoesThrough(j, few), j.todo # <<>>, j.at # "done",
         Tried(many, j.plan[Len(j.plan) - Len(j.todo) + 1])
  PROVE  GoesThrough([j EXCEPT !.todo = Tail(@), !.k = 1], many)
<1> DEFINE next == [j EXCEPT !.todo = Tail(@), !.k = 1]
           over == Len(j.plan) - Len(j.todo)
<1>1. /\ DOMAIN j = {"at", "plan", "todo", "k", "post"}
      /\ j.plan \in Seq(Parcels) /\ j.todo \in Seq(Parcels) /\ Len(j.todo) <= Len(j.plan)
      /\ \A i \in 1..over : Tried(few, j.plan[i])
      /\ \A i \in 2..Len(j.todo) : j.todo[i] = j.plan[over + i]
  BY DEF GoesThrough
<1>2. /\ DOMAIN next = {"at", "plan", "todo", "k", "post"} /\ next.plan = j.plan
      /\ next.todo = Tail(j.todo) /\ next.k = 1 /\ next.at = j.at
  BY <1>1
<1>3. /\ Len(j.todo) \in Nat \ {0} /\ Len(j.plan) \in Nat /\ Tail(j.todo) \in Seq(Parcels)
      /\ Len(Tail(j.todo)) = Len(j.todo) - 1
      /\ \A i \in 1..(Len(j.todo) - 1) : Tail(j.todo)[i] = j.todo[i + 1]
  <2>1. Len(j.plan) \in Nat
    BY <1>1, LenProperties
  <2> QED  BY <1>1, <2>1, HeadAndTail
<1>4. Len(next.plan) - Len(next.todo) = over + 1 /\ over \in Nat
  BY <1>1, <1>2, <1>3
<1>5. \A i \in 1..(over + 1) : Tried(many, j.plan[i])
  <2>1. Tried(many, j.plan[over + 1])
    OBVIOUS
  <2> HIDE DEF over
  <2>2. \A i \in 1..(over + 1) : i = over + 1 \/ i \in 1..over
    BY <1>4
  <2> QED  BY <1>1, <2>1, <2>2, MoreAnswers
<1> HIDE DEF next, over
<1>6. \A i \in 1..Len(next.todo) : next.todo[i] = j.plan[over + 1 + i]
  <2> SUFFICES ASSUME NEW i \in 1..Len(next.todo) PROVE next.todo[i] = j.plan[over + 1 + i]
    OBVIOUS
  <2>1. next.todo[i] = j.todo[i + 1] /\ i + 1 \in 2..Len(j.todo) /\ over + (i + 1) = over + 1 + i
    BY <1>2, <1>3, <1>4
  <2> QED  BY <1>1, <2>1
<1>7. ASSUME next.todo # <<>>
      PROVE  InHand(many, next.plan[over + 1 + 1], Head(next.todo), next.k)
  <2> DEFINE p == next.plan[over + 1 + 1]
  <2>1. /\ Head(next.todo) = next.todo[1] /\ Head(next.todo) \in Parcels /\ 1 \in 1..Len(next.todo)
    BY <1>2, <1>3, <1>7, HeadAndTail
  <2>2. Head(next.todo) = p /\ p \in Parcels
    BY <1>2, <1>6, <2>1
  <2> HIDE DEF p
  <2>3. Asks(Client(p.to))
    BY <2>2, ClientsAsk DEF Parcels
  <2>4. 1 \in DOMAIN Client(p.to).asks
    BY <2>3 DEF Asks
  <2>5. InHand(many, p, p, 1)
    BY <2>4 DEF InHand
  <2> QED  BY <1>2, <2>2, <2>5 DEF p
<1>8. \A i \in 2..Len(next.todo) : next.todo[i] = j.plan[over + 1 + i]
  BY <1>2, <1>3, <1>6
<1>9. Len(next.todo) <= Len(next.plan)
  BY <1>1, <1>2, <1>3
<1>10. GoesThrough(next, many)
  BY <1>2, <1>3, <1>4, <1>5, <1>7, <1>8, <1>9 DEF GoesThrough
<1> QED  BY <1>10 DEF next

(* Nothing to ask, or nobody.                                              *)
LEMMA NothingToAsk ==
  ASSUME NEW j, NEW answers, GoesThrough(j, answers), j.todo # <<>>, j.at # "done",
         ~Ready(Head(j.todo).to) \/ Head(j.todo).of = <<>>
  PROVE  GoesThrough(AfterError(j), answers)
<1>1. InHand(answers, j.plan[Len(j.plan) - Len(j.todo) + 1], Head(j.todo), j.k)
  BY DEF GoesThrough
<1>2. Tried(answers, j.plan[Len(j.plan) - Len(j.todo) + 1])
  BY <1>1 DEF InHand, Tried
<1> QED  BY <1>2, ParcelOver DEF AfterError

(* A request and its answer.                                               *)
LEMMA AnswerComes ==
  ASSUME NEW j, NEW answers, GoesThrough(j, answers), AnswersTyped(answers), j.todo # <<>>, j.at # "done",
         Head(j.todo).of # <<>>, NEW ok \in BOOLEAN, NEW h,
         h = [to |-> Head(j.todo).to, of |-> Head(Head(j.todo).of), k |-> j.k, ok |-> ok]
  PROVE  /\ GoesThrough(IF ok THEN AfterMessage(j) ELSE AfterError(j), answers \cup {h})
         /\ AnswersTyped(answers \cup {h})
<1> DEFINE many == answers \cup {h}
           over == Len(j.plan) - Len(j.todo)
           p == j.plan[over + 1]
           left == Head(j.todo)
           asks == Client(p.to).asks
<1>1. /\ DOMAIN j = {"at", "plan", "todo", "k", "post"}
      /\ j.plan \in Seq(Parcels) /\ j.todo \in Seq(Parcels) /\ Len(j.todo) <= Len(j.plan)
      /\ \A i \in 1..over : Tried(answers, j.plan[i])
      /\ \A i \in 2..Len(j.todo) : j.todo[i] = j.plan[over + i]
      /\ InHand(answers, p, left, j.k)
  BY DEF GoesThrough
<1>2. /\ Len(j.todo) \in Nat \ {0} /\ Len(j.plan) \in Nat /\ left \in Parcels
  <2>1. Len(j.plan) \in Nat
    BY <1>1, LenProperties
  <2> QED  BY <1>1, <2>1, HeadAndTail
<1>3. p \in Parcels
  <2>1. over + 1 \in 1..Len(j.plan)
    BY <1>1, <1>2
  <2> HIDE DEF over
  <2> QED  BY <1>1, <2>1, ElementOfSeq
<1> HIDE DEF p, left
<1>4. /\ left.to = p.to /\ ToSet(left.of) \subseteq ToSet(p.of) /\ j.k \in DOMAIN asks
      /\ \A m \in ToSet(p.of) \ ToSet(left.of), q \in DOMAIN asks : HasAnswer(answers, p.to, m, q)
      /\ \A q \in 1..(j.k - 1) : HasAnswer(answers, p.to, Head(left.of), q)
  BY <1>1 DEF InHand, left
<1>5. h.to = p.to /\ h.of = Head(left.of) /\ h.k = j.k /\ h.ok = ok /\ h \in many
  BY <1>4 DEF left
<1>6. /\ left.of \in Seq(Messages) /\ left.of # <<>> /\ Len(left.of) \in Nat \ {0}
      /\ Tail(left.of) \in Seq(Messages) /\ Len(Tail(left.of)) = Len(left.of) - 1
      /\ ToSet(left.of) = {Head(left.of)} \cup ToSet(Tail(left.of))
      /\ Len(left.of) = 1 => ToSet(left.of) = {Head(left.of)}
  <2>1. left.of \in Seq(Messages) /\ left.of # <<>>
    BY <1>2 DEF left, Parcels
  <2> QED  BY <2>1, HeadAndTail
<1>7. AnswersTyped(many)
  BY <1>4, <1>5 DEF AnswersTyped
<1>8. Len(asks) \in Nat \ {0} /\ DOMAIN asks = 1..Len(asks)
  BY <1>3, ClientsAsk DEF Asks, Parcels
<1>9. answers \subseteq many
  OBVIOUS
<1> HIDE DEF many, asks
<1>10. CASE ~ok
  <2>1. Refuses(many, p)
    BY <1>4, <1>5, <1>6, <1>10 DEF Refuses
  <2>2. Tried(many, p)
    BY <2>1 DEF Tried
  <2>3. GoesThrough(AfterError(j), many)
    BY <1>9, <2>2, ParcelOver DEF AfterError, p
  <2> QED  BY <1>7, <1>10, <2>3 DEF many
<1>11. CASE ok /\ j.k < Len(asks)
  <2> DEFINE next == [j EXCEPT !.k = @ + 1]
  <2>1. AfterMessage(j) = next
    BY <1>4, <1>11 DEF AfterMessage, asks, left
  <2>2. /\ DOMAIN next = {"at", "plan", "todo", "k", "post"} /\ next.plan = j.plan
        /\ next.todo = j.todo /\ next.k = j.k + 1 /\ next.at = j.at
    BY <1>1
  <2> HIDE DEF next
  <2>3. InHand(many, p, left, j.k + 1)
    <3>1. j.k + 1 \in DOMAIN asks
      BY <1>4, <1>8, <1>11
    <3>2. \A q \in 1..j.k : HasAnswer(many, p.to, Head(left.of), q)
      <4> SUFFICES ASSUME NEW q \in 1..j.k PROVE HasAnswer(many, p.to, Head(left.of), q)
        OBVIOUS
      <4>1. CASE q = j.k
        BY <4>1, <1>5 DEF HasAnswer
      <4>2. CASE q # j.k
        <5>1. q \in 1..(j.k - 1)
          BY <4>2, <1>4, <1>8
        <5> QED  BY <5>1, <1>4, <1>9, MoreAnswers
      <4> QED  BY <4>1, <4>2
    <3>3. \A m \in ToSet(p.of) \ ToSet(left.of), q \in DOMAIN asks : HasAnswer(many, p.to, m, q)
      BY <1>4, <1>9, MoreAnswers
    <3>4. (j.k + 1) - 1 = j.k
      BY <1>4, <1>8
    <3> QED  BY <1>4, <1>6, <3>1, <3>2, <3>3, <3>4 DEF InHand, asks
  <2>4. GoesThrough(next, many)
    BY <1>1, <1>9, <1>11, <2>2, <2>3, MoreAnswers DEF GoesThrough, p, left
  <2> QED  BY <1>7, <1>11, <2>1, <2>4 DEF many
<1>12. CASE ok /\ ~(j.k < Len(asks))
  <2>1. j.k = Len(asks)
    BY <1>4, <1>8, <1>12
  <2>2. \A q \in DOMAIN asks : HasAnswer(many, p.to, Head(left.of), q)
    <3> SUFFICES ASSUME NEW q \in DOMAIN asks PROVE HasAnswer(many, p.to, Head(left.of), q)
      OBVIOUS
    <3>1. CASE q = j.k
      BY <3>1, <1>5 DEF HasAnswer
    <3>2. CASE q # j.k
      <4>1. q \in 1..(j.k - 1)
        BY <3>2, <1>8, <2>1
      <4> QED  BY <4>1, <1>4, <1>9, MoreAnswers
    <3> QED  BY <3>1, <3>2
  <2>3. \A m \in ToSet(p.of) \ ToSet(Tail(left.of)), q \in DOMAIN asks : HasAnswer(many, p.to, m, q)
    <3> SUFFICES ASSUME NEW m \in ToSet(p.of) \ ToSet(Tail(left.of)), NEW q \in DOMAIN asks
                 PROVE  HasAnswer(many, p.to, m, q)
      OBVIOUS
    <3>1. CASE m = Head(left.of)
      BY <3>1, <2>2
    <3>2. CASE m # Head(left.of)
      <4>1. m \notin ToSet(left.of)
        BY <1>6, <3>2
      <4> QED  BY <1>4, <1>9, <4>1, MoreAnswers
    <3> QED  BY <3>1, <3>2
  <2>4. CASE Len(left.of) = 1
    <3>1. \A m \in ToSet(p.of), q \in DOMAIN asks : HasAnswer(many, p.to, m, q)
      <4> SUFFICES ASSUME NEW m \in ToSet(p.of), NEW q \in DOMAIN asks
                   PROVE  HasAnswer(many, p.to, m, q)
        OBVIOUS
      <4>1. CASE m = Head(left.of)
        BY <4>1, <2>2
      <4>2. CASE m # Head(left.of)
        <5>1. m \notin ToSet(left.of)
          BY <1>6, <2>4, <4>2
        <5> QED  BY <1>4, <1>9, <5>1, MoreAnswers
      <4> QED  BY <4>1, <4>2
    <3>2. Tried(many, p)
      BY <3>1 DEF Tried, asks
    <3>3. AfterMessage(j) = [j EXCEPT !.todo = Tail(@), !.k = 1]
      <4>1. AfterMessage(j) = [j EXCEPT !.k = 1, !.todo = Tail(@)]
        BY <1>4, <1>12, <2>4 DEF AfterMessage, asks, left
      <4> QED  BY <4>1, <1>1
    <3> QED  BY <1>7, <1>9, <1>12, <3>2, <3>3, ParcelOver DEF many, p
  <2>5. CASE Len(left.of) # 1
    <3> DEFINE rest == [left EXCEPT !.of = Tail(@)]
               next == [j EXCEPT !.k = 1, !.todo = <<rest>> \o Tail(@)]
    <3>1. AfterMessage(j) = next
      BY <1>4, <1>12, <2>5 DEF AfterMessage, asks, left
    <3>2. /\ DOMAIN next = {"at", "plan", "todo", "k", "post"} /\ next.plan = j.plan
          /\ next.todo = <<rest>> \o Tail(j.todo) /\ next.k = 1 /\ next.at = j.at
      BY <1>1
    <3> HIDE DEF next
    <3>3. rest.to = p.to /\ rest.of = Tail(left.of) /\ rest.of # <<>> /\ rest \in Parcels
      <4>1. rest.to = left.to /\ rest.of = Tail(left.of) /\ rest = [to |-> left.to, of |-> Tail(left.of)]
        <5>1. left \in [to : Services, of : Seq(Messages)]
          BY <1>2 DEF Parcels
        <5> DEFINE t == Tail(left.of)
        <5>2. rest = [left EXCEPT !.of = t]
          OBVIOUS
        <5> HIDE DEF t, rest
        <5>3. rest.to = left.to /\ rest.of = t /\ rest = [to |-> left.to, of |-> t]
          BY <5>1, <5>2
        <5> QED  BY <5>3 DEF t
      <4>2. Tail(left.of) # <<>>
        <5>1. Len(Tail(left.of)) # 0
          BY <1>6, <2>5
        <5> QED  BY <5>1, EmptySeq
      <4> HIDE DEF rest
      <4> QED  BY <1>2, <1>4, <1>6, <4>1, <4>2 DEF Parcels
    <3> HIDE DEF rest
    <3>4. /\ next.todo \in Seq(Parcels) /\ Len(next.todo) = Len(j.todo) /\ next.todo # <<>>
          /\ Head(next.todo) = rest /\ \A i \in 2..Len(j.todo) : next.todo[i] = j.todo[i]
      <4>1. /\ Tail(j.todo) \in Seq(Parcels) /\ Len(Tail(j.todo)) = Len(j.todo) - 1
            /\ \A i \in 1..(Len(j.todo) - 1) : Tail(j.todo)[i] = j.todo[i + 1]
        BY <1>1, HeadAndTail
      <4>2. <<rest>> \in Seq(Parcels) /\ Len(<<rest>>) = 1 /\ <<rest>>[1] = rest
        BY <3>3
      <4>3. /\ next.todo \in Seq(Parcels) /\ Len(next.todo) = 1 + (Len(j.todo) - 1)
            /\ \A i \in 1..(1 + (Len(j.todo) - 1)) :
                  next.todo[i] = IF i <= 1 THEN <<rest>>[i] ELSE Tail(j.todo)[i - 1]
        BY <3>2, <4>1, <4>2, ConcatProperties
      <4>4. Len(next.todo) = Len(j.todo) /\ next.todo # <<>> /\ next.todo[1] = rest
        BY <1>2, <4>2, <4>3, EmptySeq
      <4>5. Head(next.todo) = rest
        BY <4>3, <4>4, HeadAndTail
      <4>6. \A i \in 2..Len(j.todo) : next.todo[i] = j.todo[i]
        <5> SUFFICES ASSUME NEW i \in 2..Len(j.todo) PROVE next.todo[i] = j.todo[i]
          OBVIOUS
        <5>1. i \in 1..(1 + (Len(j.todo) - 1)) /\ ~(i <= 1) /\ i - 1 \in 1..(Len(j.todo) - 1)
              /\ (i - 1) + 1 = i
          BY <1>2
        <5> QED  BY <4>1, <4>3, <5>1
      <4> QED  BY <4>3, <4>4, <4>5, <4>6
    <3>5. InHand(many, p, rest, 1)
      <4>1. 1 \in DOMAIN asks
        BY <1>8
      <4>2. ToSet(rest.of) \subseteq ToSet(p.of)
        BY <1>4, <1>6, <3>3
      <4>3. \A m \in ToSet(p.of) \ ToSet(rest.of), q \in DOMAIN asks : HasAnswer(many, p.to, m, q)
        BY <2>3, <3>3
      <4>4. 1..(1 - 1) = {}
        OBVIOUS
      <4> QED  BY <3>3, <4>1, <4>2, <4>3, <4>4 DEF InHand, asks
    <3>6. GoesThrough(next, many)
      BY <1>1, <1>9, <1>12, <3>2, <3>4, <3>5, MoreAnswers DEF GoesThrough, p
    <3> QED  BY <1>7, <1>12, <3>1, <3>6 DEF many
  <2> QED  BY <2>4, <2>5
<1> QED  BY <1>10, <1>11, <1>12

(* A step of one delivery.                                                 *)
LEMMA OneDeliveryMoves ==
  ASSUME TriedIInv, UNCHANGED settings, NEW s \in Senders, NEW j, NEW answers,
         job' = [job EXCEPT ![s] = j], heard' = [heard EXCEPT ![s] = answers],
         GoesThrough(j, answers), AnswersTyped(answers)
  PROVE  TriedIInv'
<1>1. /\ DOMAIN job' = Senders /\ DOMAIN heard' = Senders
      /\ job'[s] = j /\ heard'[s] = answers
      /\ \A t \in Senders \ {s} : job'[t] = job[t] /\ heard'[t] = heard[t]
      /\ heard' = [t \in Senders |-> heard'[t]]
  BY DEF TriedIInv
<1>2. /\ \A x, y : GoesThrough(x, y)' <=> GoesThrough(x, y)
      /\ \A y : AnswersTyped(y)' <=> AnswersTyped(y)
  BY SettingsStay
<1>3. ASSUME NEW t \in Senders, NEW x, NEW y, x = job'[t], y = heard'[t]
      PROVE  GoesThrough(x, y)' /\ AnswersTyped(y)'
  <2>1. CASE t = s
    <3>1. x = j /\ y = answers
      BY <2>1, <1>1, <1>3
    <3> QED  BY <3>1, <1>2
  <2>2. CASE t # s
    <3>1. x = job[t] /\ y = heard[t]
      BY <2>2, <1>1, <1>3
    <3> QED  BY <3>1, <1>2 DEF TriedIInv
  <2> QED  BY <2>1, <2>2
<1> QED  BY <1>1, <1>3 DEF TriedIInv

(* Every step keeps what deliveries go through.                            *)
LEMMA TriedStep ==
  ASSUME TriedIInv, [IntegrationNext]_integrationVars
  PROVE  TriedIInv'
<1>1. ASSUME NEW s \in Senders
      PROVE  /\ GoesThrough(job[s], heard[s]) /\ AnswersTyped(heard[s])
             /\ DOMAIN job[s] = {"at", "plan", "todo", "k", "post"}
             /\ Sends(s) => /\ job[s].todo # <<>> /\ job[s].at # "done"
                            /\ Head(job[s].todo) \in Parcels
  <2>1. GoesThrough(job[s], heard[s]) /\ AnswersTyped(heard[s])
    BY DEF TriedIInv
  <2>2. Sends(s) => job[s].todo # <<>> /\ job[s].at # "done" /\ Head(job[s].todo) \in Parcels
    BY <2>1, HeadAndTail DEF Sends, GoesThrough
  <2> QED  BY <2>1, <2>2 DEF GoesThrough
<1>2. ASSUME NEW s \in Senders, NEW plan \in Seq(Parcels), heard' = heard, UNCHANGED settings,
             job[s].at = "idle",
             job' = [job EXCEPT ![s] = [Waiting EXCEPT !.at = "sending", !.plan = plan, !.todo = plan]]
      PROVE  TriedIInv'
  <2> DEFINE j == [Waiting EXCEPT !.at = "sending", !.plan = plan, !.todo = plan]
  <2>1. j.at = "sending" /\ j.plan = plan /\ j.todo = plan /\ j.k = 1
        /\ DOMAIN j = {"at", "plan", "todo", "k", "post"}
    BY DEF Waiting
  <2>2. job' = [job EXCEPT ![s] = j]
    BY <1>2
  <2> HIDE DEF j
  <2>3. GoesThrough(j, heard[s])
    <3>1. Len(plan) \in Nat /\ Len(plan) - Len(plan) = 0
      BY LenProperties
    <3>2. ASSUME plan # <<>>
          PROVE  InHand(heard[s], plan[1], Head(plan), 1)
      <4>1. Head(plan) = plan[1] /\ plan[1] \in Parcels
        BY <3>2, HeadAndTail
      <4>2. Asks(Client(plan[1].to))
        BY <4>1, ClientsAsk DEF Parcels
      <4>3. 1 \in DOMAIN Client(plan[1].to).asks
        BY <4>2 DEF Asks
      <4> QED  BY <4>1, <4>3 DEF InHand
    <3> QED  BY <2>1, <3>1, <3>2 DEF GoesThrough
  <2>4. heard' = [heard EXCEPT ![s] = heard[s]]
    BY <1>2 DEF TriedIInv
  <2> QED  BY <1>1, <1>2, <2>2, <2>3, <2>4, OneDeliveryMoves
<1>3. ASSUME NEW s \in Senders, Save(s) \/ Refreshed(s)
      PROVE  TriedIInv'
  <2>1. job[s].at = "idle" /\ heard' = heard /\ settings' = settings
    BY <1>3 DEF Save, Refreshed, Outside
  <2>2. PICK plan \in Seq(Parcels) :
          job' = [job EXCEPT ![s] = [Waiting EXCEPT !.at = "sending", !.plan = plan, !.todo = plan]]
    BY <1>3, SendPlans, PushPlans DEF Save, Refreshed
  <2> QED  BY <1>2, <2>1, <2>2
<1>4. ASSUME NEW s \in Senders, Skip(s)
      PROVE  TriedIInv'
  <2>1. /\ Sends(s) /\ settings' = settings
        /\ ~Ready(Head(job[s].todo).to) \/ Head(job[s].todo).of = <<>>
        /\ job' = [job EXCEPT ![s] = AfterError(job[s])] /\ heard' = [heard EXCEPT ![s] = heard[s]]
    BY <1>4 DEF Skip, Outside, To, TriedIInv
  <2>2. GoesThrough(AfterError(job[s]), heard[s])
    BY <1>1, <2>1, NothingToAsk
  <2> QED  BY <1>1, <2>1, <2>2, OneDeliveryMoves
<1>5. ASSUME NEW s \in Senders, NEW j, NEW ok \in BOOLEAN, Sends(s), UNCHANGED settings,
             GoesThrough(j, heard[s]), j.todo = job[s].todo, j.k = job[s].k, j.at = job[s].at,
             Head(job[s].todo).of # <<>>, Hear(s, ok),
             job' = [job EXCEPT ![s] = IF ok THEN AfterMessage(j) ELSE AfterError(j)]
      PROVE  TriedIInv'
  <2> DEFINE h == [to |-> Head(j.todo).to, of |-> Head(Head(j.todo).of), k |-> j.k, ok |-> ok]
             next == IF ok THEN AfterMessage(j) ELSE AfterError(j)
  <2>1. heard' = [heard EXCEPT ![s] = heard[s] \cup {h}]
    BY <1>5 DEF Hear, To
  <2>2. GoesThrough(next, heard[s] \cup {h}) /\ AnswersTyped(heard[s] \cup {h})
    BY <1>1, <1>5, AnswerComes
  <2>3. job' = [job EXCEPT ![s] = next]
    BY <1>5
  <2> HIDE DEF h, next
  <2> QED  BY <1>5, <2>1, <2>2, <2>3, OneDeliveryMoves
<1>6. ASSUME NEW s \in Senders, Ask(s)
      PROVE  TriedIInv'
  <2>1. PICK a \in Replies :
          /\ job' = [job EXCEPT ![s] = IF a \in Client(To(s)).asks[job[s].k] THEN AfterMessage(job[s])
                                       ELSE AfterError(job[s])]
          /\ Hear(s, a \in Client(To(s)).asks[job[s].k])
    BY <1>6 DEF Ask
  <2>2. Sends(s) /\ settings' = settings /\ Head(job[s].todo).of # <<>>
    BY <1>6 DEF Ask, Outside
  <2> DEFINE ok == a \in Client(To(s)).asks[job[s].k]
  <2>3. ok \in BOOLEAN /\ Hear(s, ok)
        /\ job' = [job EXCEPT ![s] = IF ok THEN AfterMessage(job[s]) ELSE AfterError(job[s])]
    BY <2>1
  <2> HIDE DEF ok
  <2> QED  BY <1>1, <1>5, <2>2, <2>3
<1>7. ASSUME NEW s \in Senders, GetBookmark(s)
      PROVE  TriedIInv'
  <2>1. PICK a \in Replies :
          /\ job' = [job EXCEPT ![s] = IF Found(a).failed THEN AfterError(job[s])
                                       ELSE AfterMessage([job[s] EXCEPT !.post = Found(a).tags])]
          /\ Hear(s, ~Found(a).failed)
    BY <1>7 DEF GetBookmark
  <2>2. Sends(s) /\ settings' = settings /\ Head(job[s].todo).to = "pinboard" /\ Found(a).failed \in BOOLEAN
    BY <1>7 DEF GetBookmark, Outside, To, Found
  <2>3. Head(job[s].todo).of # <<>>
    BY <1>1, <2>2 DEF Parcels
  <2> DEFINE j == [job[s] EXCEPT !.post = Found(a).tags]
  <2>4. /\ j.plan = job[s].plan /\ j.todo = job[s].todo /\ j.k = job[s].k /\ j.at = job[s].at
        /\ DOMAIN j = {"at", "plan", "todo", "k", "post"}
    BY <1>1
  <2>5. CASE Found(a).failed
    BY <1>1, <1>5, <2>1, <2>2, <2>3, <2>5
  <2>6. CASE ~Found(a).failed
    <3>1. job' = [job EXCEPT ![s] = AfterMessage(j)]
      BY <2>1, <2>6
    <3> HIDE DEF j
    <3>2. GoesThrough(j, heard[s])
      BY <1>1, <2>4 DEF GoesThrough
    <3> QED  BY <1>5, <2>1, <2>2, <2>3, <2>4, <2>6, <3>1, <3>2
  <2> QED  BY <2>5, <2>6
<1>8. ASSUME NEW s \in Senders, AddBookmark(s)
      PROVE  TriedIInv'
  <2>1. PICK a \in Replies :
          /\ job' = [job EXCEPT ![s] = IF a \in Done400 THEN AfterMessage(job[s]) ELSE AfterError(job[s])]
          /\ Hear(s, a \in Done400)
    BY <1>8 DEF AddBookmark
  <2>2. Sends(s) /\ settings' = settings /\ Head(job[s].todo).to = "pinboard"
    BY <1>8 DEF AddBookmark, Outside, To
  <2>3. Head(job[s].todo).of # <<>>
    BY <1>1, <2>2 DEF Parcels
  <2> DEFINE ok == a \in Done400
  <2>4. ok \in BOOLEAN /\ Hear(s, ok)
        /\ job' = [job EXCEPT ![s] = IF ok THEN AfterMessage(job[s]) ELSE AfterError(job[s])]
    BY <2>1
  <2> HIDE DEF ok
  <2> QED  BY <1>1, <1>5, <2>2, <2>3, <2>4
<1>9. ASSUME NEW s \in Senders, Finish(s)
      PROVE  TriedIInv'
  <2> DEFINE j == [job[s] EXCEPT !.at = "done"]
  <2>1. /\ job[s].todo = <<>> /\ settings' = settings
        /\ job' = [job EXCEPT ![s] = j] /\ heard' = [heard EXCEPT ![s] = heard[s]]
    BY <1>9 DEF Finish, Outside, TriedIInv
  <2>2. /\ j.plan = job[s].plan /\ j.todo = job[s].todo /\ j.k = job[s].k
        /\ DOMAIN j = {"at", "plan", "todo", "k", "post"}
    BY <1>1
  <2> HIDE DEF j
  <2>3. GoesThrough(j, heard[s])
    BY <1>1, <2>1, <2>2 DEF GoesThrough
  <2> QED  BY <1>1, <2>1, <2>3, OneDeliveryMoves
<1>10. ASSUME UNCHANGED <<settings, job, heard>>
       PROVE  TriedIInv'
  <2>1. /\ \A x, y : GoesThrough(x, y)' <=> GoesThrough(x, y)
        /\ \A y : AnswersTyped(y)' <=> AnswersTyped(y)
    BY <1>10, SettingsStay
  <2> QED  BY <1>10, <2>1 DEF TriedIInv
<1>11. CASE EditBookmark
  BY <1>10, <1>11 DEF EditBookmark
<1>12. CASE UNCHANGED integrationVars
  BY <1>10, <1>12 DEF integrationVars
<1> QED  BY <1>3, <1>4, <1>6, <1>7, <1>8, <1>9, <1>11, <1>12 DEF IntegrationNext, Sending

(* A delivery that is over has asked every service of its plan that has    *)
(* its fields, for each of its messages, or was refused by it: whatever    *)
(* the others answered, in any order of deliveries, and for any settings   *)
(* and entries (SendEntry, PushEntries).                                   *)
THEOREM ServicesAreTried == IntegrationSpec => []EveryServiceIsTried
<1>1. IntegrationInit => TriedIInv
  <2> SUFFICES ASSUME IntegrationInit, NEW s \in Senders
               PROVE  /\ GoesThrough(job[s], heard[s]) /\ AnswersTyped(heard[s])
                      /\ DOMAIN job = Senders /\ heard = [t \in Senders |-> heard[t]]
    BY DEF TriedIInv, IntegrationInit, NothingSent
  <2>1. /\ job[s] = Waiting /\ heard[s] = {} /\ DOMAIN job = Senders /\ heard = [t \in Senders |-> heard[t]]
    BY DEF IntegrationInit, NothingSent
  <2>2. GoesThrough(Waiting, {})
    <3>1. /\ Waiting.plan = <<>> /\ Waiting.todo = <<>>
          /\ DOMAIN Waiting = {"at", "plan", "todo", "k", "post"}
      BY DEF Waiting
    <3>2. <<>> \in Seq(Parcels) /\ Len(<<>>) = 0
      BY EmptySeq
    <3> QED  BY <3>1, <3>2 DEF GoesThrough
  <2> QED  BY <2>1, <2>2 DEF AnswersTyped
<1>2. TriedIInv => EveryServiceIsTried
  <2> SUFFICES ASSUME TriedIInv, NEW s \in Senders, job[s].at = "done", NEW i \in DOMAIN job[s].plan
               PROVE  LET parcel == job[s].plan[i]
                          answers == {h \in heard[s] : h.to = parcel.to /\ h.of \in ToSet(parcel.of)}
                      IN Ready(parcel.to) /\ parcel.of # <<>> =>
                            \/ \E h \in answers : ~h.ok
                            \/ {<<h.of, h.k>> : h \in answers} =
                                  ToSet(parcel.of) \X DOMAIN Client(parcel.to).asks
    BY DEF EveryServiceIsTried
  <2> DEFINE parcel == job[s].plan[i]
             answers == {h \in heard[s] : h.to = parcel.to /\ h.of \in ToSet(parcel.of)}
             asks == DOMAIN Client(parcel.to).asks
  <2>1. GoesThrough(job[s], heard[s]) /\ AnswersTyped(heard[s])
    BY DEF TriedIInv
  <2>2. job[s].todo = <<>> /\ job[s].plan \in Seq(Parcels)
    BY <2>1 DEF GoesThrough
  <2>3. Len(job[s].todo) = 0 /\ Len(job[s].plan) \in Nat /\ DOMAIN job[s].plan = 1..Len(job[s].plan)
    BY <2>2, EmptySeq, LenProperties
  <2>4. Tried(heard[s], parcel)
    BY <2>1, <2>3 DEF GoesThrough
  <2> SUFFICES ASSUME Ready(parcel.to), parcel.of # <<>>
               PROVE  \/ \E h \in answers : ~h.ok
                      \/ {<<h.of, h.k>> : h \in answers} = ToSet(parcel.of) \X asks
    OBVIOUS
  <2> HIDE DEF parcel, asks
  <2>5. CASE Refuses(heard[s], parcel)
    BY <2>5 DEF Refuses
  <2>6. CASE \A m \in ToSet(parcel.of), k \in asks : HasAnswer(heard[s], parcel.to, m, k)
    <3>1. \A h \in answers : h.of \in ToSet(parcel.of) /\ h.k \in asks
      BY <2>1 DEF AnswersTyped, asks
    <3>2. \A m \in ToSet(parcel.of), k \in asks : \E h \in answers : h.of = m /\ h.k = k
      BY <2>6 DEF HasAnswer
    <3> HIDE DEF answers
    <3> QED  BY <3>1, <3>2
  <2> QED  BY <2>4, <2>5, <2>6 DEF Tried, asks
<1> QED  BY <1>1, <1>2, TriedStep, PTL DEF IntegrationSpec
-----------------------------------------------------------------------------
(***************************************************************************)
(* Enclosures.                                                             *)
(***************************************************************************)

(* The rows after each URL of the list, in order.                          *)
NextId(rows) == lastId + 1 + Cardinality(rows) - Cardinality(enclosures)
Creating(list, n, rows) ==
  rows = [i \in 0..n |-> IF i = 0 THEN enclosures
                         ELSE createEnclosure(rows[i - 1], list[i], NextId(rows[i - 1]))]

(* A refresh creates its list item by item.                                *)
LEMMA CreationGoesOn ==
  ASSUME NEW list, NEW n \in Nat
  PROVE  \E rows : Creating(list, n, rows)
<1> DEFINE Bad == {k \in Nat : ~\E rows : Creating(list, k, rows)}
<1>1. 0 \notin Bad
  <2> DEFINE rows == [i \in 0..0 |-> enclosures]
  <2>1. Creating(list, 0, rows)
    BY DEF Creating
  <2> QED  BY <2>1
<1>2. ASSUME NEW k \in Nat, k \notin Bad
      PROVE  k + 1 \notin Bad
  <2>1. PICK rows : Creating(list, k, rows)
    BY <1>2
  <2> DEFINE more == [i \in 0..(k + 1) |->
                IF i = k + 1 THEN createEnclosure(rows[k], list[k + 1], NextId(rows[k])) ELSE rows[i]]
  <2>2. rows = [i \in 0..k |-> IF i = 0 THEN enclosures
                 ELSE createEnclosure(rows[i - 1], list[i], NextId(rows[i - 1]))]
    BY <2>1 DEF Creating
  <2>3. ASSUME NEW i \in 0..(k + 1)
        PROVE  more[i] = IF i = 0 THEN enclosures
                         ELSE createEnclosure(more[i - 1], list[i], NextId(more[i - 1]))
    <3>1. CASE i = k + 1
      <4>1. more[i] = createEnclosure(rows[k], list[k + 1], NextId(rows[k])) /\ more[k] = rows[k]
        BY <3>1
      <4> HIDE DEF more
      <4> QED  BY <4>1, <3>1
    <3>2. CASE i # k + 1 /\ i # 0
      <4>1. more[i] = rows[i] /\ more[i - 1] = rows[i - 1] /\ i \in 0..k
        BY <3>2
      <4>2. rows[i] = createEnclosure(rows[i - 1], list[i], NextId(rows[i - 1]))
        BY <2>2, <4>1, <3>2
      <4> HIDE DEF more
      <4> QED  BY <4>1, <4>2, <3>2
    <3>3. CASE i = 0
      <4>1. more[i] = rows[i] /\ i \in 0..k
        BY <3>3
      <4>2. rows[i] = enclosures
        BY <2>2, <4>1, <3>3
      <4> HIDE DEF more
      <4> QED  BY <4>1, <4>2, <3>3
    <3> QED  BY <3>1, <3>2, <3>3
  <2>4. more = [i \in 0..(k + 1) |-> more[i]]
    OBVIOUS
  <2> HIDE DEF more
  <2>5. Creating(list, k + 1, more)
    BY <2>3, <2>4 DEF Creating
  <2> QED  BY <2>5
<1>3. Bad = {}
  <2> SUFFICES ASSUME Bad # {} PROVE FALSE
    OBVIOUS
  <2>1. Bad \in SUBSET Nat
    OBVIOUS
  <2>2. \A k \in Nat : k \notin Bad => k + 1 \notin Bad
    BY <1>2
  <2> HIDE DEF Bad
  <2>3. PICK m \in Bad : \A k \in Bad : m <= k
    BY <2>1, LeastNumber
  <2>4. m \in Nat /\ m # 0 /\ m - 1 \in Nat /\ m - 1 \notin Bad
    BY <2>1, <2>3, <1>1
  <2>5. (m - 1) + 1 \notin Bad
    BY <2>2, <2>4
  <2> QED  BY <2>3, <2>4, <2>5
<1> QED  BY <1>3

(* What a refresh creates is the last of them.                             *)
LEMMA CreatedStepwise ==
  ASSUME NEW list, Len(list) \in Nat
  PROVE  \E rows : Creating(list, Len(list), rows) /\ WithListed(list) = rows[Len(list)]
<1> DEFINE rows == CHOOSE f : f = [i \in 0..Len(list) |-> IF i = 0 THEN enclosures
               ELSE createEnclosure(f[i - 1], list[i],
                   lastId + 1 + Cardinality(f[i - 1]) - Cardinality(enclosures))]
<1>1. WithListed(list) = rows[Len(list)]
  BY DEF WithListed
<1>2. \E f : f = [i \in 0..Len(list) |-> IF i = 0 THEN enclosures
               ELSE createEnclosure(f[i - 1], list[i],
                   lastId + 1 + Cardinality(f[i - 1]) - Cardinality(enclosures))]
  BY CreationGoesOn DEF Creating, NextId
<1>3. Creating(list, Len(list), rows)
  BY <1>2 DEF Creating, NextId
<1> HIDE DEF rows
<1> QED  BY <1>1, <1>3

(* Rows of the table: one for each URL, with an id that was given out.     *)
RowsTyped ==
    /\ lastId \in Nat
    /\ \A r \in enclosures :
          /\ r = [id |-> r.id, url |-> r.url, progression |-> r.progression]
          /\ r.id \in 1..lastId
          /\ r.url \in DOMAIN heardUpTo
    /\ IsFiniteSet(enclosures)
UrlsAreApart == \A r, s \in enclosures : (r.url = s.url \/ r.id = s.id) => r = s

(* A device plays a row of the table, or of one that is gone.              *)
PlayersKnow == \A d \in Devices :
    /\ playing[d] = [id |-> playing[d].id, url |-> playing[d].url, progression |-> playing[d].progression]
    /\ playing[d].id \in 0..lastId
    /\ \A r \in enclosures : r.id = playing[d].id => r.url = playing[d].url

(* What is not listed was not heard.                                       *)
UrlsListed == {Trimmed(listed[i]) : i \in DOMAIN listed}
NotYetHeard == \A u \in DOMAIN heardUpTo : u \notin UrlsListed => heardUpTo[u] = 0

ProgressTyped ==
    /\ DOMAIN heardUpTo = {Trimmed(raw) : raw \in RawUrls} /\ DOMAIN playing = Devices
ProgressIInv ==
    ProgressTyped /\ RowsTyped /\ UrlsAreApart /\ PlayersKnow /\ NotYetHeard /\ ProgressIsKept

(* What the first URLs of a list leave: the rows that there were, and new  *)
(* ones of those URLs, so that every one of them has one row.              *)
CreatesFor(list, i, rows) ==
    /\ IsFiniteSet(rows) /\ enclosures \subseteq rows
    /\ Cardinality(rows) >= Cardinality(enclosures)
    /\ \A r \in rows \ enclosures :
          /\ \E k \in 1..i : r.url = Trimmed(list[k])
          /\ r = [id |-> r.id, url |-> r.url, progression |-> 0]
          /\ r.id \in (lastId + 1)..(NextId(rows) - 1)
          /\ r.url # Blank
    /\ \A r, s \in rows : (r.url = s.url \/ r.id = s.id) => r = s
    /\ \A k \in 1..i : Trimmed(list[k]) # Blank => \E r \in rows : r.url = Trimmed(list[k])

(* One more item of the list: rows stay one per URL and keep their ids.    *)
LEMMA OneMoreCreated ==
  ASSUME ProgressIInv, NEW list, NEW i \in Nat, NEW rows, CreatesFor(list, i, rows)
  PROVE  CreatesFor(list, i + 1, createEnclosure(rows, list[i + 1], NextId(rows)))
<1> DEFINE u == Trimmed(list[i + 1])
           new == [id |-> NextId(rows), url |-> u, progression |-> 0]
<1>1. CASE u = Blank \/ \E r \in rows : r.url = u
  <2>1. createEnclosure(rows, list[i + 1], NextId(rows)) = rows
    BY <1>1 DEF createEnclosure
  <2> QED  BY <1>1, <2>1 DEF CreatesFor
<1>2. CASE u # Blank /\ \A r \in rows : r.url # u
  <2> DEFINE more == rows \cup {new}
  <2>1. createEnclosure(rows, list[i + 1], NextId(rows)) = more
    BY <1>2 DEF createEnclosure
  <2>2. new \notin rows /\ new.url = u /\ new.id = NextId(rows)
        /\ new = [id |-> new.id, url |-> new.url, progression |-> 0]
    BY <1>2
  <2> HIDE DEF new
  <2>3. IsFiniteSet(more) /\ Cardinality(more) = Cardinality(rows) + 1
    BY <2>2, FS_AddElement DEF CreatesFor
  <2>4. Cardinality(rows) \in Nat /\ Cardinality(enclosures) \in Nat /\ lastId \in Nat
    BY FS_CardinalityType DEF CreatesFor, ProgressIInv, RowsTyped
  <2>5. NextId(more) = NextId(rows) + 1 /\ NextId(rows) \in Nat /\ NextId(rows) >= lastId + 1
    BY <2>3, <2>4 DEF NextId, CreatesFor
  <2>6. \A r \in rows : r.id # NextId(rows)
    <3> TAKE r \in rows
    <3>1. CASE r \in enclosures
      BY <3>1, <2>5, <2>4 DEF ProgressIInv, RowsTyped
    <3>2. CASE r \notin enclosures
      BY <3>2, <2>5, <2>4 DEF CreatesFor
    <3> QED  BY <3>1, <3>2
  <2>7. \A r \in more \ enclosures :
          /\ \E k \in 1..(i + 1) : r.url = Trimmed(list[k])
          /\ r = [id |-> r.id, url |-> r.url, progression |-> 0]
          /\ r.id \in (lastId + 1)..(NextId(more) - 1)
          /\ r.url # Blank
    <3> TAKE r \in more \ enclosures
    <3>1. CASE r = new
      BY <3>1, <1>2, <2>2, <2>4, <2>5
    <3>2. CASE r \in rows \ enclosures
      <4>1. PICK k \in 1..i : r.url = Trimmed(list[k])
        BY <3>2 DEF CreatesFor
      <4> QED  BY <3>2, <4>1, <2>4, <2>5 DEF CreatesFor
    <3> QED  BY <3>1, <3>2
  <2>8. \A r, s \in more : (r.url = s.url \/ r.id = s.id) => r = s
    BY <1>2, <2>2, <2>6 DEF CreatesFor
  <2>9. \A k \in 1..(i + 1) : Trimmed(list[k]) # Blank => \E r \in more : r.url = Trimmed(list[k])
    <3> TAKE k \in 1..(i + 1)
    <3>1. CASE k = i + 1
      BY <3>1, <2>2
    <3>2. CASE k \in 1..i
      BY <3>2 DEF CreatesFor
    <3> QED  BY <3>1, <3>2
  <2> HIDE DEF more
  <2>10. enclosures \subseteq more
    BY DEF CreatesFor, more
  <2> QED  BY <2>1, <2>3, <2>4, <2>7, <2>8, <2>9, <2>10 DEF CreatesFor
<1> QED  BY <1>1, <1>2

(* What a refresh has created when its list is over.                       *)
LEMMA EachIsCreated ==
  ASSUME ProgressIInv, NEW list \in Documents
  PROVE  CreatesFor(list, Len(list), WithListed(list))
<1>1. Len(list) \in Nat
  BY EnclosureAssumption
<1>2. PICK rows : Creating(list, Len(list), rows) /\ WithListed(list) = rows[Len(list)]
  BY <1>1, CreatedStepwise
<1> DEFINE Bad == {k \in 0..Len(list) : ~CreatesFor(list, k, rows[k])}
<1>3. Bad = {}
  <2> SUFFICES ASSUME Bad # {} PROVE FALSE
    OBVIOUS
  <2>1. Bad \in SUBSET Nat
    BY <1>1
  <2>2. PICK m \in Bad : \A k \in Bad : m <= k
    <3> HIDE DEF Bad
    <3> QED  BY <2>1, LeastNumber
  <2>3. m \in 0..Len(list) /\ ~CreatesFor(list, m, rows[m])
    OBVIOUS
  <2>4. rows[m] = IF m = 0 THEN enclosures ELSE createEnclosure(rows[m - 1], list[m], NextId(rows[m - 1]))
    BY <1>2, <2>3 DEF Creating
  <2>5. CASE m = 0
    BY <2>5, <2>3, <2>4, FS_CardinalityType DEF CreatesFor, ProgressIInv, RowsTyped, UrlsAreApart
  <2>6. CASE m # 0
    <3>1. m - 1 \in Nat /\ m - 1 \in 0..Len(list) /\ (m - 1) + 1 = m /\ ~(m <= m - 1)
      BY <1>1, <2>3, <2>6
    <3>2. CreatesFor(list, m - 1, rows[m - 1])
      BY <2>2, <3>1
    <3>3. CreatesFor(list, (m - 1) + 1, createEnclosure(rows[m - 1], list[(m - 1) + 1], NextId(rows[m - 1])))
      BY <3>1, <3>2, OneMoreCreated
    <3> QED  BY <2>3, <2>4, <2>6, <3>1, <3>3
  <2> QED  BY <2>5, <2>6
<1> QED  BY <1>1, <1>2, <1>3

(* A refresh keeps how far one has heard what it keeps.                    *)
LEMMA UpdateKeepsProgress ==
  ASSUME ProgressIInv, UpdateEntry
  PROVE  ProgressIInv'
<1>1. PICK list \in Documents :
        /\ enclosures' = updateEnclosures(list) /\ listed' = list
        /\ lastId' = lastId + (Cardinality(WithListed(list)) - Cardinality(enclosures))
        /\ heardUpTo' = [u \in DOMAIN heardUpTo |->
                            IF \E i \in DOMAIN list : Trimmed(list[i]) = u THEN heardUpTo[u] ELSE 0]
        /\ UNCHANGED playing
  BY DEF UpdateEntry
<1> DEFINE rows == WithListed(list)
<1>2. CreatesFor(list, Len(list), rows)
  BY EachIsCreated
<1>3. list \in Seq(RawUrls) /\ DOMAIN list = 1..Len(list) /\ Len(list) \in Nat
      /\ \A i \in DOMAIN list : list[i] \in RawUrls
  BY EnclosureAssumption
<1> HIDE DEF rows
<1>4. \A r : r \in enclosures' <=> r \in rows /\ \E i \in DOMAIN list : r.url = Trimmed(list[i])
  <2>1. CASE list = <<>>
    BY <2>1, <1>1 DEF updateEnclosures
  <2>2. CASE list # <<>>
    BY <2>2, <1>1 DEF updateEnclosures, Kept, rows
  <2> QED  BY <2>1, <2>2
<1>5. /\ lastId \in Nat /\ lastId' \in Nat /\ lastId <= lastId' /\ NextId(rows) - 1 = lastId'
  BY <1>1, <1>2, FS_CardinalityType DEF ProgressIInv, RowsTyped, CreatesFor, NextId, rows
<1>6. UrlsListed' = {Trimmed(list[i]) : i \in DOMAIN list}
  BY <1>1 DEF UrlsListed
<1>7. ProgressTyped'
  BY <1>1 DEF ProgressIInv, ProgressTyped
<1>8. RowsTyped'
  <2>1. IsFiniteSet(enclosures')
    <3>1. enclosures' \subseteq rows
      BY <1>4
    <3> QED  BY <3>1, <1>2, FS_Subset DEF CreatesFor
  <2>2. ASSUME NEW r \in enclosures'
        PROVE  /\ r = [id |-> r.id, url |-> r.url, progression |-> r.progression]
               /\ r.id \in 1..lastId' /\ r.url \in DOMAIN heardUpTo'
    <3>1. CASE r \in enclosures
      BY <3>1, <1>1, <1>5 DEF ProgressIInv, RowsTyped
    <3>2. CASE r \in rows \ enclosures
      <4>1. r = [id |-> r.id, url |-> r.url, progression |-> 0] /\ r.id \in 1..lastId'
        BY <3>2, <1>2, <1>5 DEF CreatesFor
      <4>2. r.progression = 0
        BY <4>1
      <4>3. r.url \in DOMAIN heardUpTo'
        BY <1>1, <1>3, <1>4 DEF ProgressIInv, ProgressTyped
      <4> QED  BY <4>1, <4>2, <4>3
    <3> QED  BY <3>1, <3>2, <1>4
  <2> QED  BY <1>5, <2>1, <2>2 DEF RowsTyped
<1>9. UrlsAreApart'
  BY <1>2, <1>4 DEF CreatesFor, UrlsAreApart
<1>10. PlayersKnow'
  <2> SUFFICES ASSUME NEW d \in Devices
               PROVE  /\ playing[d] = [id |-> playing[d].id, url |-> playing[d].url,
                                       progression |-> playing[d].progression]
                      /\ playing[d].id \in 0..lastId'
                      /\ \A r \in enclosures' : r.id = playing[d].id => r.url = playing[d].url
    BY <1>1 DEF PlayersKnow
  <2>1. playing[d].id \in 0..lastId
    BY DEF ProgressIInv, PlayersKnow
  <2>2. ASSUME NEW r \in enclosures', r.id = playing[d].id
        PROVE  r.url = playing[d].url
    <3>1. r \in enclosures
      BY <2>1, <2>2, <1>2, <1>4, <1>5 DEF CreatesFor
    <3> QED  BY <3>1, <2>2 DEF ProgressIInv, PlayersKnow
  <2> QED  BY <2>1, <2>2, <1>5 DEF ProgressIInv, PlayersKnow
<1>11. NotYetHeard'
  BY <1>1, <1>6 DEF NotYetHeard
<1>12. ProgressIsKept'
  <2>1. ASSUME NEW r \in enclosures'
        PROVE  r.url \in UrlsListed' \ {Blank} /\ r.progression = heardUpTo'[r.url]
    <3>1. r.url \in UrlsListed' /\ r.url \in DOMAIN heardUpTo
      BY <1>1, <1>3, <1>4, <1>6 DEF ProgressIInv, ProgressTyped
    <3>2. heardUpTo'[r.url] = heardUpTo[r.url]
      BY <1>1, <3>1, <1>6
    <3>3. CASE r \in enclosures
      <4>1. <<r.url, r.progression>> \in {<<u, heardUpTo[u]>> : u \in UrlsListed \ {Blank}}
        BY <3>3 DEF ProgressIInv, ProgressIsKept, UrlsListed
      <4> QED  BY <4>1, <3>1, <3>2
    <3>4. CASE r \in rows \ enclosures
      <4>1. r.url # Blank /\ r.progression = 0
        <5>1. r = [id |-> r.id, url |-> r.url, progression |-> 0] /\ r.url # Blank
          BY <3>4, <1>2 DEF CreatesFor
        <5> QED  BY <5>1
      <4>2. r.url \notin UrlsListed
        <5> SUFFICES ASSUME r.url \in UrlsListed PROVE FALSE
          OBVIOUS
        <5>1. <<r.url, heardUpTo[r.url]>> \in {<<s.url, s.progression>> : s \in enclosures}
          BY <4>1 DEF ProgressIInv, ProgressIsKept, UrlsListed
        <5>2. PICK s \in enclosures : s.url = r.url
          BY <5>1
        <5>3. s \in rows /\ r \in rows
          BY <1>2, <3>4 DEF CreatesFor
        <5>4. s = r
          BY <1>2, <5>2, <5>3 DEF CreatesFor
        <5> QED  BY <5>4, <3>4
      <4> QED  BY <3>1, <3>2, <4>1, <4>2 DEF ProgressIInv, NotYetHeard
    <3> QED  BY <3>3, <3>4, <1>4
  <2>2. ASSUME NEW u \in UrlsListed' \ {Blank}
        PROVE  \E r \in enclosures' : r.url = u
    <3>1. PICK i \in DOMAIN list : u = Trimmed(list[i])
      BY <1>6
    <3>2. PICK r \in rows : r.url = u
      BY <1>2, <1>3, <3>1 DEF CreatesFor
    <3> QED  BY <1>4, <3>1, <3>2
  <2>3. {<<r.url, r.progression>> : r \in enclosures'}
           = {<<u, heardUpTo'[u]>> : u \in UrlsListed' \ {Blank}}
    BY <2>1, <2>2
  <2> QED  BY <2>3 DEF ProgressIsKept, UrlsListed
<1> QED  BY <1>7, <1>8, <1>9, <1>10, <1>11, <1>12 DEF ProgressIInv

(* So do players, who save what they have read before.                     *)
LEMMA DevicesKeepProgress ==
  ASSUME ProgressIInv, NEW d \in Devices, EnclosureByID(d) \/ UpdateEnclosure(d) \/ GiveUp(d)
  PROVE  ProgressIInv'
<1>1. CASE EnclosureByID(d)
  <2>1. PICK r \in enclosures : playing' = [playing EXCEPT ![d] = r]
    BY <1>1 DEF EnclosureByID
  <2>2. UNCHANGED <<enclosures, listed, lastId, heardUpTo>>
    BY <1>1 DEF EnclosureByID
  <2>3. PlayersKnow'
    BY <2>1, <2>2 DEF ProgressIInv, ProgressTyped, PlayersKnow, RowsTyped, UrlsAreApart
  <2> QED
    BY <2>1, <2>2, <2>3 DEF ProgressIInv, ProgressTyped, RowsTyped, UrlsAreApart, NotYetHeard,
                            UrlsListed, ProgressIsKept
<1>2. CASE GiveUp(d)
  <2>1. playing' = [playing EXCEPT ![d] = NotPlaying] /\ UNCHANGED <<enclosures, listed, lastId, heardUpTo>>
    BY <1>2 DEF GiveUp
  <2>2. PlayersKnow'
    BY <2>1 DEF ProgressIInv, ProgressTyped, PlayersKnow, RowsTyped, NotPlaying
  <2> QED
    BY <2>1, <2>2 DEF ProgressIInv, ProgressTyped, RowsTyped, UrlsAreApart, NotYetHeard,
                      UrlsListed, ProgressIsKept
<1>3. CASE UpdateEnclosure(d)
  <2> DEFINE mine == playing[d]
             found == {r \in enclosures : r.id = mine.id}
  <2>1. /\ playing' = [playing EXCEPT ![d] = NotPlaying] /\ UNCHANGED <<listed, lastId>>
    BY <1>3 DEF UpdateEnclosure
  <2>2. PICK p \in 1..MaxProgression :
          /\ enclosures' = (enclosures \ found) \cup
                              (IF found = {} THEN {} ELSE {[mine EXCEPT !.progression = p]})
          /\ heardUpTo' = IF found = {} THEN heardUpTo ELSE [heardUpTo EXCEPT ![mine.url] = p]
    BY <1>3 DEF UpdateEnclosure
  <2>3. CASE found = {}
    <3>1. enclosures' = enclosures /\ heardUpTo' = heardUpTo
      BY <2>2, <2>3
    <3>2. PlayersKnow'
      BY <2>1, <3>1 DEF ProgressIInv, ProgressTyped, PlayersKnow, RowsTyped, NotPlaying
    <3> QED
      BY <2>1, <3>1, <3>2 DEF ProgressIInv, ProgressTyped, RowsTyped, UrlsAreApart, NotYetHeard,
                              UrlsListed, ProgressIsKept
  <2>4. CASE found # {}
    <3> DEFINE new == [mine EXCEPT !.progression = p]
    <3>1. PICK r \in enclosures : r.id = mine.id
      BY <2>4
    <3>2. found = {r} /\ mine.url = r.url /\ r.url \in DOMAIN heardUpTo
      <4>1. \A s \in enclosures : s.id = r.id => s = r
        BY DEF ProgressIInv, UrlsAreApart
      <4>2. found = {r}
        BY <3>1, <4>1
      <4>3. mine.url = r.url
        BY <3>1 DEF ProgressIInv, PlayersKnow
      <4> QED  BY <4>2, <4>3 DEF ProgressIInv, RowsTyped
    <3>3. new = [id |-> r.id, url |-> r.url, progression |-> p]
      <4>1. mine = [id |-> mine.id, url |-> mine.url, progression |-> mine.progression]
        BY DEF ProgressIInv, PlayersKnow
      <4> HIDE DEF mine
      <4> QED  BY <3>1, <3>2, <4>1
    <3>4. new.id = r.id /\ new.url = r.url /\ new.progression = p
          /\ new = [id |-> new.id, url |-> new.url, progression |-> new.progression]
      BY <3>3
    <3> HIDE DEF new
    <3>5. enclosures' = (enclosures \ {r}) \cup {new} /\ heardUpTo' = [heardUpTo EXCEPT ![r.url] = p]
      BY <2>2, <2>4, <3>2 DEF new
    <3> HIDE DEF mine, found
    <3>6. ProgressTyped'
      BY <2>1, <3>5 DEF ProgressIInv, ProgressTyped
    <3>7. RowsTyped'
      <4>1. IsFiniteSet(enclosures')
        <5>1. IsFiniteSet(enclosures \ {r})
          BY FS_Subset DEF ProgressIInv, RowsTyped
        <5> QED  BY <5>1, <3>5, FS_AddElement
      <4> QED  BY <4>1, <2>1, <3>4, <3>5 DEF ProgressIInv, RowsTyped
    <3>8. UrlsAreApart'
      BY <3>4, <3>5 DEF ProgressIInv, UrlsAreApart
    <3>9. PlayersKnow'
      BY <2>1, <3>4, <3>5 DEF ProgressIInv, ProgressTyped, PlayersKnow, RowsTyped, NotPlaying
    <3>10. r.url \in UrlsListed \ {Blank}
      <4>1. <<r.url, r.progression>> \in {<<u, heardUpTo[u]>> : u \in UrlsListed \ {Blank}}
        BY DEF ProgressIInv, ProgressIsKept, UrlsListed
      <4> QED  BY <4>1
    <3>11. NotYetHeard'
      BY <2>1, <3>5, <3>10 DEF ProgressIInv, NotYetHeard, UrlsListed
    <3>12. ProgressIsKept'
      <4>1. {<<s.url, s.progression>> : s \in enclosures} = {<<u, heardUpTo[u]>> : u \in UrlsListed \ {Blank}}
        BY DEF ProgressIInv, ProgressIsKept, UrlsListed
      <4>2. UrlsListed \ {Blank} \subseteq DOMAIN heardUpTo
        <5> SUFFICES ASSUME NEW u \in UrlsListed \ {Blank} PROVE u \in DOMAIN heardUpTo
          OBVIOUS
        <5>1. PICK s \in enclosures : s.url = u
          <6>1. <<u, heardUpTo[u]>> \in {<<s.url, s.progression>> : s \in enclosures}
            BY <4>1
          <6> QED  BY <6>1
        <5> QED  BY <5>1 DEF ProgressIInv, RowsTyped
      <4>3. ASSUME NEW s \in enclosures'
            PROVE  s.url \in UrlsListed \ {Blank} /\ s.progression = heardUpTo'[s.url]
        <5>1. CASE s = new
          BY <5>1, <3>2, <3>4, <3>5, <3>10
        <5>2. CASE s # new
          <6>1. s \in enclosures /\ s # r
            BY <5>2, <3>5
          <6>2. s.url # r.url
            BY <6>1 DEF ProgressIInv, UrlsAreApart
          <6>3. <<s.url, s.progression>> \in {<<u, heardUpTo[u]>> : u \in UrlsListed \ {Blank}}
            BY <4>1, <6>1
          <6>4. s.url \in UrlsListed \ {Blank} /\ s.progression = heardUpTo[s.url]
            BY <6>3
          <6> QED  BY <6>2, <6>4, <3>5, <4>2
        <5> QED  BY <5>1, <5>2
      <4>4. ASSUME NEW u \in UrlsListed \ {Blank}
            PROVE  \E s \in enclosures' : s.url = u
        <5>1. <<u, heardUpTo[u]>> \in {<<s.url, s.progression>> : s \in enclosures}
          BY <4>1
        <5>2. PICK s \in enclosures : s.url = u
          BY <5>1
        <5> QED  BY <5>2, <3>4, <3>5
      <4>5. UrlsListed' = UrlsListed
        BY <2>1 DEF UrlsListed
      <4>6. {<<s.url, s.progression>> : s \in enclosures'} = {<<u, heardUpTo'[u]>> : u \in UrlsListed \ {Blank}}
        BY <4>3, <4>4
      <4> QED  BY <4>5, <4>6 DEF ProgressIsKept, UrlsListed
    <3> QED  BY <3>6, <3>7, <3>8, <3>9, <3>11, <3>12 DEF ProgressIInv
  <2> QED  BY <2>3, <2>4
<1> QED  BY <1>1, <1>2, <1>3

(* However often the feed is refreshed, and whatever devices write         *)
(* meanwhile, there is a row for each enclosure that it lists, and none    *)
(* else, with the place saved last (updateEnclosures, createEnclosure and  *)
(* UpdateEnclosure).                                                       *)
THEOREM ProgressStays == EnclosureSpec => []ProgressIsKept
<1>1. EnclosuresInit => ProgressIInv
  <2> SUFFICES ASSUME EnclosuresInit PROVE ProgressIInv
    OBVIOUS
  <2>1. enclosures = {} /\ listed = <<>> /\ lastId = 0 /\ DOMAIN listed = {}
    BY DEF EnclosuresInit
  <2>2. IsFiniteSet(enclosures)
    BY <2>1, FS_EmptySet
  <2>3. UrlsListed = {}
    BY <2>1 DEF UrlsListed
  <2>4. ProgressIsKept
    BY <2>1, <2>3 DEF ProgressIsKept, UrlsListed
  <2> QED
    BY <2>1, <2>2, <2>4 DEF EnclosuresInit, ProgressIInv, ProgressTyped, RowsTyped, UrlsAreApart, PlayersKnow,
                            NotYetHeard, NotPlaying
<1>2. ProgressIInv /\ [EnclosuresNext]_enclosureVars => ProgressIInv'
  <2> SUFFICES ASSUME ProgressIInv, [EnclosuresNext]_enclosureVars PROVE ProgressIInv'
    OBVIOUS
  <2>1. CASE DeleteEntry
    <3>1. /\ enclosures' = {} /\ listed' = <<>> /\ UNCHANGED <<lastId, playing>>
          /\ heardUpTo' = [u \in DOMAIN heardUpTo |-> 0]
      BY <2>1 DEF DeleteEntry
    <3>2. IsFiniteSet(enclosures')
      BY <3>1, FS_EmptySet
    <3>3. UrlsListed' = {}
      BY <3>1 DEF UrlsListed
    <3>4. ProgressIsKept'
      BY <3>1, <3>3 DEF ProgressIsKept, UrlsListed
    <3> QED
      BY <3>1, <3>2, <3>4 DEF ProgressIInv, ProgressTyped, RowsTyped, UrlsAreApart, PlayersKnow, NotYetHeard
  <2>2. CASE UNCHANGED enclosureVars
    BY <2>2 DEF enclosureVars, ProgressIInv, ProgressTyped, RowsTyped, UrlsAreApart, PlayersKnow, NotYetHeard,
                UrlsListed, ProgressIsKept
  <2> QED  BY <2>1, <2>2, UpdateKeepsProgress, DevicesKeepProgress DEF EnclosuresNext
<1>3. ProgressIInv => ProgressIsKept
  BY DEF ProgressIInv
<1> QED  BY <1>1, <1>2, <1>3, PTL DEF EnclosureSpec
-----------------------------------------------------------------------------
(***************************************************************************)
(* Web sessions, for any number of users, identities, requests and         *)
(* challenges: what a request saves while it is alone stays saved, and a   *)
(* challenge logs in once.                                                 *)
(***************************************************************************)

(* An identity that was logged out, or whose forced refresh was noted, has *)
(* no request that remembers otherwise.                                    *)
LogoutsAreKnown == \A i \in out \cap live :
    row[i].user = NoUser /\ \A r \in Requests : held[r] = i => copy[r].user = NoUser
RefreshesAreKnown == \A i \in spaced \cap live :
    row[i].forced /\ \A r \in Requests : held[r] = i => copy[r].forced

IdleHasNothing == \A r \in Requests :
    /\ phase[r] = "idle" => held[r] = NoId /\ copy[r] = NewWebSession
    /\ phase[r] # "idle" => held[r] # NoId

SavesIInv ==
    /\ SessionsTypeOK /\ IdleHasNothing
    /\ out \subseteq used /\ spaced \subseteq used
    /\ LogoutsAreKnown /\ RefreshesAreKnown
-----------------------------------------------------------------------------
(* What the handlers make of a session is one.                             *)
LEMMA NewIsSession == NewWebSession \in Session
  BY DEF NewWebSession, Session, Flows

LEMMA ChangedSessions ==
  ASSUME NEW s \in Session, NEW u \in Users \cup {NoUser}, NEW f \in Flows,
         NEW c \in Challenges \cup {NoChallenge}, NEW b \in BOOLEAN
  PROVE  /\ [s EXCEPT !.user = u] \in Session
         /\ [s EXCEPT !.flow[f] = c] \in Session
         /\ [s EXCEPT !.forced = b] \in Session
  BY DEF Session

(* A change that keeps what the copy says of its user, or takes the user   *)
(* away, and what it says of a forced refresh, or notes one.               *)
LEMMA ChangeKeepsSaves ==
  ASSUME SavesIInv, NEW r \in Requests, NEW s \in Session, ChangeOnly(r, s),
         s.user \in {copy[r].user, NoUser}, s.forced \in {copy[r].forced, TRUE},
         issued' \subseteq Challenges
  PROVE  SavesIInv'
<1>1. /\ phase[r] = "loaded" /\ phase' = [phase EXCEPT ![r] = "handled"]
      /\ copy' = [copy EXCEPT ![r] = s] /\ dirty' = [dirty EXCEPT ![r] = TRUE]
      /\ UNCHANGED <<users, live, row, cookie, given, held, used, out, spaced>>
  BY DEF ChangeOnly, Change, rowVars, jarVars, pastVars
<1>2. SessionsTypeOK'
  BY <1>1 DEF SavesIInv, SessionsTypeOK
<1>3. IdleHasNothing'
  BY <1>1 DEF SavesIInv, SessionsTypeOK, IdleHasNothing
<1>4. LogoutsAreKnown' /\ RefreshesAreKnown'
  BY <1>1 DEF SavesIInv, SessionsTypeOK, LogoutsAreKnown, RefreshesAreKnown
<1> QED  BY <1>1, <1>2, <1>3, <1>4 DEF SavesIInv

(* A log-in: the new identity is nobody else's.                            *)
LEMMA LogInKeepsSaves ==
  ASSUME SavesIInv, NEW r \in Requests, NEW s \in Session, Authenticate(r, s),
         s.forced = copy[r].forced
  PROVE  SavesIInv'
<1> PICK i \in SessionIds \ used :
      LET n == Rotated(r, i)
          found == CanWrite(held[r], s)
      IN /\ Change(r, s)
         /\ held' = [held EXCEPT ![r] = n]
         /\ used' = used \cup {n}
         /\ live' = IF found THEN (live \ {held[r]}) \cup {n} ELSE live
         /\ row' = IF found THEN [row EXCEPT ![held[r]] = NewWebSession, ![n] = s] ELSE row
         /\ given' = IF found THEN [given EXCEPT ![r] = n] ELSE given
         /\ out' = out \ {held[r]}
         /\ spaced' = IF found /\ held[r] \in spaced
                      THEN (spaced \ {held[r]}) \cup {n} ELSE spaced
         /\ UNCHANGED <<users, cookie, issued>>
  BY DEF Authenticate
<1>1. /\ phase[r] = "loaded" /\ phase' = [phase EXCEPT ![r] = "handled"]
      /\ copy' = [copy EXCEPT ![r] = s] /\ dirty' = [dirty EXCEPT ![r] = TRUE]
      /\ held' = [held EXCEPT ![r] = i] /\ used' = used \cup {i}
      /\ UNCHANGED <<users, cookie, issued>> /\ out' = out \ {held[r]}
      /\ held[r] \in used /\ i \notin used /\ i \in SessionIds /\ i # NoId
  BY SessionsAssumption DEF Change, Rotated, SavesIInv, SessionsTypeOK, IdleHasNothing
<1>2. CASE CanWrite(held[r], s)
  <2>1. /\ held[r] \in live /\ live' = (live \ {held[r]}) \cup {i}
        /\ row' = [row EXCEPT ![held[r]] = NewWebSession, ![i] = s]
        /\ given' = [given EXCEPT ![r] = i]
        /\ spaced' = IF held[r] \in spaced THEN (spaced \ {held[r]}) \cup {i} ELSE spaced
    BY <1>2 DEF Rotated, CanWrite
  <2>2. SessionsTypeOK'
    BY <1>1, <2>1, NewIsSession DEF SavesIInv, SessionsTypeOK
  <2>3. \A j \in live' \ {i} : j \in live /\ j # held[r] /\ row'[j] = row[j]
                               /\ \A q \in Requests : held'[q] = j => q # r /\ held[q] = j /\ copy'[q] = copy[q]
    BY <1>1, <2>1 DEF SavesIInv, SessionsTypeOK
  <2>4. row'[i] = s /\ copy'[r] = s /\ i \notin live /\ i \notin out'
    BY <1>1, <2>1 DEF SavesIInv, SessionsTypeOK
  <2>5. \A q \in Requests \ {r} : held'[q] # i
    BY <1>1 DEF SavesIInv, SessionsTypeOK
  <2>6. LogoutsAreKnown'
    <3> SUFFICES ASSUME NEW j \in out' \cap live'
                 PROVE  row'[j].user = NoUser /\ \A q \in Requests : held'[q] = j => copy'[q].user = NoUser
      BY DEF LogoutsAreKnown
    <3>1. j # i /\ j \in out
      BY <1>1, <2>4
    <3>2. j \in out \cap live
      BY <3>1, <2>3
    <3>3. row[j].user = NoUser /\ \A q \in Requests : held[q] = j => copy[q].user = NoUser
      BY <3>2 DEF SavesIInv, LogoutsAreKnown
    <3> QED  BY <2>3, <3>1, <3>3
  <2>7. i \in spaced' => s.forced
    BY <1>1, <2>1 DEF SavesIInv, RefreshesAreKnown
  <2>8. RefreshesAreKnown'
    <3> SUFFICES ASSUME NEW j \in spaced' \cap live'
                 PROVE  row'[j].forced /\ \A q \in Requests : held'[q] = j => copy'[q].forced
      BY DEF RefreshesAreKnown
    <3>1. CASE j = i
      BY <2>4, <2>5, <2>7, <3>1
    <3>2. CASE j # i
      <4>1. j \in spaced \cap live
        BY <2>1, <2>3, <3>2
      <4>2. row[j].forced /\ \A q \in Requests : held[q] = j => copy[q].forced
        BY <4>1 DEF SavesIInv, RefreshesAreKnown
      <4> QED  BY <2>3, <3>2, <4>2
    <3> QED  BY <3>1, <3>2
  <2>9. IdleHasNothing' /\ out' \subseteq used' /\ spaced' \subseteq used'
    BY <1>1, <2>1 DEF SavesIInv, SessionsTypeOK, IdleHasNothing
  <2> QED  BY <2>2, <2>6, <2>8, <2>9 DEF SavesIInv
<1>3. CASE ~CanWrite(held[r], s)
  <2>1. UNCHANGED <<live, row, given, spaced>> /\ i \notin live
    BY <1>1, <1>3 DEF SavesIInv, SessionsTypeOK
  <2>2. SessionsTypeOK'
    BY <1>1, <2>1 DEF SavesIInv, SessionsTypeOK
  <2>3. \A j \in live : \A q \in Requests : held'[q] = j => held[q] = j /\ copy'[q] = copy[q]
    BY <1>1, <2>1 DEF SavesIInv, SessionsTypeOK
  <2>4. LogoutsAreKnown' /\ RefreshesAreKnown'
    BY <1>1, <2>1, <2>3 DEF SavesIInv, LogoutsAreKnown, RefreshesAreKnown
  <2>5. IdleHasNothing' /\ out' \subseteq used' /\ spaced' \subseteq used'
    BY <1>1, <2>1 DEF SavesIInv, SessionsTypeOK, IdleHasNothing
  <2> QED  BY <2>2, <2>4, <2>5 DEF SavesIInv
<1> QED  BY <1>2, <1>3

(* A request that begins reads its row.                                    *)
LEMMA LoadKeepsSaves ==
  ASSUME SavesIInv, NEW r \in Requests, LoadSession(r)
  PROVE  SavesIInv'
<1>1. /\ cookie \in live /\ cookie \in SessionIds /\ cookie # NoId
      /\ phase' = [phase EXCEPT ![r] = "loaded"]
      /\ held' = [held EXCEPT ![r] = cookie] /\ copy' = [copy EXCEPT ![r] = row[cookie]]
      /\ UNCHANGED <<users, live, row, cookie, given, dirty, used, issued, out, spaced>>
  BY SessionsAssumption DEF LoadSession, rowVars, jarVars, idVars, pastVars, SavesIInv, SessionsTypeOK
<1>2. SessionsTypeOK'
  BY <1>1 DEF SavesIInv, SessionsTypeOK
<1>3. IdleHasNothing'
  BY <1>1 DEF SavesIInv, SessionsTypeOK, IdleHasNothing
<1>4. LogoutsAreKnown' /\ RefreshesAreKnown'
  BY <1>1 DEF SavesIInv, SessionsTypeOK, LogoutsAreKnown, RefreshesAreKnown
<1> QED  BY <1>1, <1>2, <1>3, <1>4 DEF SavesIInv

LEMMA CreateKeepsSaves ==
  ASSUME SavesIInv, NEW r \in Requests, CreateSession(r)
  PROVE  SavesIInv'
<1> PICK i \in SessionIds \ used :
      /\ live' = live \cup {i} /\ used' = used \cup {i}
      /\ row' = [row EXCEPT ![i] = NewWebSession]
      /\ held' = [held EXCEPT ![r] = i]
      /\ given' = [given EXCEPT ![r] = i]
  BY DEF CreateSession
<1>1. /\ i \notin out /\ i \notin spaced /\ i # NoId
      /\ phase' = [phase EXCEPT ![r] = "loaded"]
      /\ copy' = [copy EXCEPT ![r] = NewWebSession]
      /\ UNCHANGED <<users, cookie, dirty, issued, out, spaced>>
  BY SessionsAssumption DEF CreateSession, pastVars, SavesIInv, SessionsTypeOK
<1>2. SessionsTypeOK'
  BY <1>1, NewIsSession DEF SavesIInv, SessionsTypeOK
<1>3. IdleHasNothing'
  BY <1>1 DEF SavesIInv, SessionsTypeOK, IdleHasNothing
<1>4. LogoutsAreKnown' /\ RefreshesAreKnown'
  BY <1>1 DEF SavesIInv, SessionsTypeOK, LogoutsAreKnown, RefreshesAreKnown
<1>5. out' \subseteq used' /\ spaced' \subseteq used'
  BY <1>1 DEF SavesIInv
<1> QED  BY <1>2, <1>3, <1>4, <1>5 DEF SavesIInv

(* A request that ends writes what the sets of quiet saves already know,   *)
(* or adds to them what nobody else has a copy of.                         *)
LEMMA FinishKeepsSaves ==
  ASSUME SavesIInv, NEW r \in Requests, FinishRequest(r)
  PROVE  SavesIInv'
<1> DEFINE i == held[r]
           saved == dirty[r] /\ CanWrite(i, copy[r])
<1>1. /\ phase[r] # "idle" /\ i \in used /\ i # NoId
      /\ phase' = [phase EXCEPT ![r] = "idle"]
      /\ held' = [held EXCEPT ![r] = NoId] /\ copy' = [copy EXCEPT ![r] = NewWebSession]
      /\ dirty' = [dirty EXCEPT ![r] = FALSE] /\ given' = [given EXCEPT ![r] = NoId]
      /\ cookie' \in {cookie} \cup ({given[r]} \ {NoId})
      /\ UNCHANGED <<users, live, used, issued>>
  BY SessionsAssumption DEF FinishRequest, idVars, SavesIInv, SessionsTypeOK, IdleHasNothing
<1>2. /\ row' = IF saved THEN [row EXCEPT ![i] = copy[r]] ELSE row
      /\ out' = IF saved /\ Alone(r) /\ row[i].user # NoUser /\ copy[r].user = NoUser
                THEN out \cup {i} ELSE out
      /\ spaced' = IF saved /\ Alone(r) /\ ~row[i].forced /\ copy[r].forced
                   THEN spaced \cup {i} ELSE spaced
  BY DEF FinishRequest, SavedRow, NoteQuietSaves, Authenticated
<1>3. i \in SessionIds /\ copy[r] \in Session
  BY <1>1 DEF SavesIInv, SessionsTypeOK
<1>4. SessionsTypeOK'
  <2>1. row' \in [SessionIds -> Session]
    BY <1>2, <1>3 DEF SavesIInv, SessionsTypeOK
  <2>2. cookie' \in SessionIds \cup {NoId}
    BY <1>1 DEF SavesIInv, SessionsTypeOK
  <2> QED  BY <1>1, <2>1, <2>2, NewIsSession DEF SavesIInv, SessionsTypeOK
<1>5. IdleHasNothing'
  BY <1>1 DEF SavesIInv, SessionsTypeOK, IdleHasNothing
<1>6. \A q \in Requests : held'[q] # NoId => q # r /\ held'[q] = held[q] /\ copy'[q] = copy[q]
  BY <1>1 DEF SavesIInv, SessionsTypeOK
<1>7. Alone(r) => \A q \in Requests : held'[q] # i
  BY <1>1, <1>6 DEF Alone, Running, SavesIInv, IdleHasNothing
<1>8. \A j \in SessionIds : j # i => row'[j] = row[j]
  BY <1>2 DEF SavesIInv, SessionsTypeOK
<1>9. row'[i] = copy[r] \/ row'[i] = row[i]
  BY <1>2, <1>3 DEF SavesIInv, SessionsTypeOK
<1>10. saved => row'[i] = copy[r]
  BY <1>2, <1>3 DEF SavesIInv, SessionsTypeOK
<1>11. LogoutsAreKnown'
  <2> SUFFICES ASSUME NEW j \in out' \cap live'
               PROVE  row'[j].user = NoUser /\ \A q \in Requests : held'[q] = j => copy'[q].user = NoUser
    BY DEF LogoutsAreKnown
  <2>1. j \in live /\ j \in SessionIds /\ j # NoId
    BY <1>1, SessionsAssumption DEF SavesIInv, SessionsTypeOK
  <2>2. CASE j \in out
    <3>1. row[j].user = NoUser /\ \A q \in Requests : held[q] = j => copy[q].user = NoUser
      BY <2>1, <2>2 DEF SavesIInv, LogoutsAreKnown
    <3> QED  BY <2>1, <3>1, <1>6, <1>8, <1>9
  <2>3. CASE j \notin out
    <3>1. j = i /\ saved /\ Alone(r) /\ copy[r].user = NoUser
      BY <1>2, <2>3
    <3> QED  BY <1>7, <1>10, <3>1
  <2> QED  BY <2>2, <2>3
<1>12. RefreshesAreKnown'
  <2> SUFFICES ASSUME NEW j \in spaced' \cap live'
               PROVE  row'[j].forced /\ \A q \in Requests : held'[q] = j => copy'[q].forced
    BY DEF RefreshesAreKnown
  <2>1. j \in live /\ j \in SessionIds /\ j # NoId
    BY <1>1, SessionsAssumption DEF SavesIInv, SessionsTypeOK
  <2>2. CASE j \in spaced
    <3>1. row[j].forced /\ \A q \in Requests : held[q] = j => copy[q].forced
      BY <2>1, <2>2 DEF SavesIInv, RefreshesAreKnown
    <3> QED  BY <2>1, <3>1, <1>6, <1>8, <1>9
  <2>3. CASE j \notin spaced
    <3>1. j = i /\ saved /\ Alone(r) /\ copy[r].forced
      BY <1>2, <2>3
    <3> QED  BY <1>7, <1>10, <3>1
  <2> QED  BY <2>2, <2>3
<1>13. out' \subseteq used' /\ spaced' \subseteq used'
  BY <1>1, <1>2 DEF SavesIInv
<1> QED  BY <1>4, <1>5, <1>11, <1>12, <1>13 DEF SavesIInv

LEMMA PanicKeepsSaves ==
  ASSUME SavesIInv, NEW r \in Requests, Panic(r)
  PROVE  SavesIInv'
<1>1. /\ phase' = [phase EXCEPT ![r] = "idle"]
      /\ held' = [held EXCEPT ![r] = NoId] /\ copy' = [copy EXCEPT ![r] = NewWebSession]
      /\ given' = [given EXCEPT ![r] = NoId]
      /\ UNCHANGED <<users, live, row, cookie, dirty, used, issued, out, spaced>>
  BY DEF Panic, rowVars, idVars, pastVars
<1>2. SessionsTypeOK'
  BY <1>1, NewIsSession DEF SavesIInv, SessionsTypeOK
<1>3. IdleHasNothing'
  BY <1>1 DEF SavesIInv, SessionsTypeOK, IdleHasNothing
<1>4. \A q \in Requests : held'[q] # NoId => held'[q] = held[q] /\ copy'[q] = copy[q]
  BY <1>1 DEF SavesIInv, SessionsTypeOK
<1>5. \A j \in live : j # NoId
  BY SessionsAssumption DEF SavesIInv, SessionsTypeOK
<1>6. LogoutsAreKnown' /\ RefreshesAreKnown'
  BY <1>1, <1>4, <1>5 DEF SavesIInv, LogoutsAreKnown, RefreshesAreKnown
<1> QED  BY <1>1, <1>2, <1>3, <1>6 DEF SavesIInv

(* Rows that go away take nothing back.                                    *)
LEMMA DeletedKeepsSaves ==
  ASSUME SavesIInv, NEW ids, Deleted(ids), users' \subseteq users,
         UNCHANGED <<cookie, given, held, copy, dirty, used, issued, out, spaced>>,
         phase' \in [Requests -> {"idle", "loaded", "handled"}],
         \A q \in Requests : phase'[q] = "idle" <=> phase[q] = "idle"
  PROVE  SavesIInv'
<1>1. SessionsTypeOK'
  BY NewIsSession DEF SavesIInv, SessionsTypeOK, Deleted
<1>2. IdleHasNothing'
  BY DEF SavesIInv, IdleHasNothing
<1>3. \A j \in live' : j \in live /\ row'[j] = row[j]
  BY DEF Deleted, SavesIInv, SessionsTypeOK
<1>4. LogoutsAreKnown' /\ RefreshesAreKnown'
  BY <1>3 DEF SavesIInv, LogoutsAreKnown, RefreshesAreKnown
<1> QED  BY <1>1, <1>2, <1>4 DEF SavesIInv

LEMMA IntervalKeepsSaves ==
  ASSUME SavesIInv, IntervalPasses
  PROVE  SavesIInv'
<1>1. /\ row' = [j \in SessionIds |-> [row[j] EXCEPT !.forced = FALSE]]
      /\ copy' = [q \in Requests |-> [copy[q] EXCEPT !.forced = FALSE]]
      /\ spaced' = {}
      /\ UNCHANGED <<users, live, cookie, given, phase, held, dirty, used, issued, out>>
  BY DEF IntervalPasses, jarVars, idVars
<1>2. SessionsTypeOK'
  BY <1>1 DEF SavesIInv, SessionsTypeOK, Session
<1>3. IdleHasNothing'
  <2>1. \A s \in Session : ~s.forced => [s EXCEPT !.forced = FALSE] = s
    BY DEF Session
  <2>2. NewWebSession \in Session /\ ~NewWebSession.forced
    BY NewIsSession DEF NewWebSession
  <2> QED  BY <1>1, <2>1, <2>2 DEF SavesIInv, IdleHasNothing
<1>4. \A s \in Session : [s EXCEPT !.forced = FALSE].user = s.user
  BY DEF Session
<1>5. /\ \A j \in SessionIds : row'[j].user = row[j].user
      /\ \A q \in Requests : copy'[q].user = copy[q].user
  BY <1>1, <1>4 DEF SavesIInv, SessionsTypeOK
<1>6. LogoutsAreKnown'
  BY <1>1, <1>5 DEF SavesIInv, SessionsTypeOK, LogoutsAreKnown
<1>7. RefreshesAreKnown'
  BY <1>1 DEF RefreshesAreKnown
<1> QED  BY <1>1, <1>2, <1>3, <1>6, <1>7 DEF SavesIInv

LEMMA SavesStep ==
  ASSUME SavesIInv, [SessionsNext]_sessionVars
  PROVE  SavesIInv'
<1>1. ASSUME NEW r \in Requests, Handle(r)
      PROVE  SavesIInv'
  <2> copy[r] \in Session /\ users \subseteq Users /\ copy[r].user \in Users \cup {NoUser}
      /\ issued \subseteq Challenges /\ copy[r].forced \in BOOLEAN
    BY DEF SavesIInv, SessionsTypeOK, Session
  <2>1. ASSUME NEW u \in users
        PROVE  /\ [copy[r] EXCEPT !.user = u] \in Session
               /\ [copy[r] EXCEPT !.user = u].forced = copy[r].forced
    BY DEF Session
  <2>2. CASE CheckLogin(r) \/ ProxyLogin(r)
    BY <2>1, <2>2, LogInKeepsSaves DEF CheckLogin, ProxyLogin
  <2>3. ASSUME NEW f \in Flows
        PROVE  /\ Consumed(r, f) \in Session
               /\ Consumed(r, f).user = copy[r].user /\ Consumed(r, f).forced = copy[r].forced
    BY DEF Consumed, Session
  <2>4. CASE OAuth2Callback(r) \/ FinishLogin(r)
    <3>1. PICK f \in Flows, u \in users : Authenticate(r, [Consumed(r, f) EXCEPT !.user = u])
      BY <2>4 DEF OAuth2Callback, FinishLogin, LoginBy, Flows
    <3>2. /\ [Consumed(r, f) EXCEPT !.user = u] \in Session
          /\ [Consumed(r, f) EXCEPT !.user = u].forced = copy[r].forced
      BY <2>3 DEF Session
    <3> QED  BY <3>1, <3>2, LogInKeepsSaves
  <2>5. ASSUME NEW f \in Flows, StartFlow(r, f)
        PROVE  SavesIInv'
    <3>1. PICK c \in Challenges \ issued :
            issued' = issued \cup {c} /\ ChangeOnly(r, [copy[r] EXCEPT !.flow[f] = c])
      BY <2>5 DEF StartFlow
    <3>2. /\ [copy[r] EXCEPT !.flow[f] = c] \in Session
          /\ [copy[r] EXCEPT !.flow[f] = c].user = copy[r].user
          /\ [copy[r] EXCEPT !.flow[f] = c].forced = copy[r].forced
      BY DEF Session
    <3> QED  BY <3>1, <3>2, ChangeKeepsSaves
  <2>6. ASSUME NEW f \in Flows, AnswerWithoutLogin(r, f)
        PROVE  SavesIInv'
    <3>1. ChangeOnly(r, Consumed(r, f)) /\ issued' = issued
      BY <2>6 DEF AnswerWithoutLogin
    <3> QED  BY <2>3, <3>1, ChangeKeepsSaves
  <2>7. CASE Logout(r)
    <3>1. /\ [copy[r] EXCEPT !.user = NoUser] \in Session
          /\ [copy[r] EXCEPT !.user = NoUser].user = NoUser
          /\ [copy[r] EXCEPT !.user = NoUser].forced = copy[r].forced
      BY DEF Session
    <3>2. ChangeOnly(r, [copy[r] EXCEPT !.user = NoUser]) /\ issued' = issued
      BY <2>7 DEF Logout
    <3> QED  BY <3>1, <3>2, ChangeKeepsSaves
  <2>8. CASE UpdateSettings(r) \/ ShowMessage(r) \/ RefreshRefused(r)
    <3>1. ChangeOnly(r, copy[r]) /\ issued' = issued
      BY <2>8 DEF UpdateSettings, ShowMessage, RefreshRefused
    <3> QED  BY <3>1, ChangeKeepsSaves
  <2>9. CASE ForceRefresh(r)
    <3>1. /\ [copy[r] EXCEPT !.forced = TRUE] \in Session
          /\ [copy[r] EXCEPT !.forced = TRUE].user = copy[r].user
          /\ [copy[r] EXCEPT !.forced = TRUE].forced = TRUE
      BY DEF Session
    <3>2. ChangeOnly(r, [copy[r] EXCEPT !.forced = TRUE]) /\ issued' = issued
      BY <2>9 DEF ForceRefresh
    <3> QED  BY <3>1, <3>2, ChangeKeepsSaves
  <2>10. CASE RemoveSession(r)
    <3>1. PICK i \in live : Deleted({i})
      BY <2>10 DEF RemoveSession
    <3>2. /\ phase[r] = "loaded" /\ phase' = [phase EXCEPT ![r] = "handled"]
          /\ UNCHANGED <<users, cookie, given, held, copy, dirty, used, issued, out, spaced>>
      BY <2>10 DEF RemoveSession, jarVars, idVars, pastVars
    <3>3. /\ phase' \in [Requests -> {"idle", "loaded", "handled"}]
          /\ \A q \in Requests : phase'[q] = "idle" <=> phase[q] = "idle"
      BY <3>2 DEF SavesIInv, SessionsTypeOK
    <3> QED  BY <3>1, <3>2, <3>3, DeletedKeepsSaves
  <2> QED  BY <1>1, <2>2, <2>4, <2>5, <2>6, <2>7, <2>8, <2>9, <2>10 DEF Handle
<1>2. ASSUME NEW r \in Requests, ServeRequest(r)
      PROVE  SavesIInv'
  BY <1>1, <1>2, LoadKeepsSaves, CreateKeepsSaves, PanicKeepsSaves, FinishKeepsSaves DEF ServeRequest
<1>3. CASE CleanOldSessions \/ RemoveSessionsOfUser
  <2>1. /\ \E ids : Deleted(ids)
        /\ users' \subseteq users
        /\ UNCHANGED <<cookie, given, phase, held, copy, dirty, used, issued, out, spaced>>
    BY <1>3 DEF CleanOldSessions, RemoveSessionsOfUser, jarVars, reqVars, idVars, pastVars
  <2>2. phase' \in [Requests -> {"idle", "loaded", "handled"}]
    BY <2>1 DEF SavesIInv, SessionsTypeOK
  <2> QED  BY <2>1, <2>2, DeletedKeepsSaves
<1>4. CASE UNCHANGED sessionVars
  BY <1>4 DEF sessionVars, rowVars, jarVars, reqVars, idVars, pastVars, SavesIInv, SessionsTypeOK,
              IdleHasNothing, LogoutsAreKnown, RefreshesAreKnown
<1> QED  BY <1>2, <1>3, <1>4, IntervalKeepsSaves DEF SessionsNext

LEMMA SavesStart ==
  ASSUME SessionsInit
  PROVE  SavesIInv
BY NewIsSession DEF SessionsInit, SavesIInv, SessionsTypeOK, IdleHasNothing, LogoutsAreKnown, RefreshesAreKnown

(* For any number of users, requests and identities: what the middleware   *)
(* saves for a request that is alone on its session is not undone later.   *)
THEOREM QuietSavesStay == SessionsSpec => []QuietSavesAreKept
<1>1. SavesIInv => QuietSavesAreKept
  BY DEF SavesIInv, LogoutsAreKnown, RefreshesAreKnown, QuietSavesAreKept
<1> QED  BY <1>1, SavesStart, SavesStep, PTL DEF SessionsSpec

-----------------------------------------------------------------------------
(* A challenge is pending at one live identity, in one flow, until it has  *)
(* logged somebody in; rows and the copies of requests count alike.        *)
Carries(i, f, c) ==
    \/ row[i].flow[f] = c
    \/ \E r \in Requests : held[r] = i /\ copy[r].flow[f] = c

PendingInOnePlace ==
    \A i, j \in live, f, g \in Flows, c \in Challenges :
        Carries(i, f, c) /\ Carries(j, g, c) => i = j /\ f = g
PendingIsUnused ==
    \A i \in live, f \in Flows, c \in Challenges :
        Carries(i, f, c) => c \in issued /\ c \notin won

ChallengesIInv == PendingInOnePlace /\ PendingIsUnused /\ won \subseteq issued /\ twice = {}

(* A step that lets challenges be pending only where they were.            *)
LEMMA FewerPlaces ==
  ASSUME ChallengesIInv, UNCHANGED <<issued, won, twice>>,
         \A i \in live', f \in Flows, c \in Challenges :
             Carries(i, f, c)' => i \in live /\ Carries(i, f, c)
  PROVE  ChallengesIInv'
<1>1. PendingInOnePlace'
  BY DEF ChallengesIInv, PendingInOnePlace
<1>2. PendingIsUnused'
  BY DEF ChallengesIInv, PendingIsUnused
<1> QED  BY <1>1, <1>2 DEF ChallengesIInv

(* A handler that puts no challenge into its copy.                         *)
LEMMA ChangeKeepsChallenges ==
  ASSUME SavesIInv, ChallengesIInv, NEW r \in Requests, NEW s \in Session,
         ChangeOnly(r, s), issued' = issued,
         \A f \in Flows : s.flow[f] \in {copy[r].flow[f], NoChallenge}
  PROVE  ChallengesIInv'
<1>1. /\ copy' = [copy EXCEPT ![r] = s]
      /\ UNCHANGED <<live, row, held, won, twice>>
  BY DEF ChangeOnly, Change, rowVars, pastVars
<1>2. \A i \in live', f \in Flows, c \in Challenges :
         Carries(i, f, c)' => i \in live /\ Carries(i, f, c)
  BY <1>1, SessionsAssumption DEF Carries, SavesIInv, SessionsTypeOK
<1> QED  BY <1>1, <1>2, FewerPlaces

(* A new challenge is pending where it is put, and nowhere else.           *)
LEMMA StartKeepsChallenges ==
  ASSUME SavesIInv, ChallengesIInv, NEW r \in Requests, NEW f \in Flows, StartFlow(r, f)
  PROVE  ChallengesIInv'
<1> PICK c \in Challenges \ issued :
      issued' = issued \cup {c} /\ ChangeOnly(r, [copy[r] EXCEPT !.flow[f] = c])
  BY DEF StartFlow
<1> DEFINE s == [copy[r] EXCEPT !.flow[f] = c]
<1>1. copy' = [copy EXCEPT ![r] = s] /\ UNCHANGED <<live, row, held, won, twice>>
  BY DEF ChangeOnly, Change, rowVars, pastVars
<1>2. s.flow[f] = c /\ \A g \in Flows \ {f} : s.flow[g] = copy[r].flow[g]
  BY DEF SavesIInv, SessionsTypeOK, Session
<1>3. \A i \in live, g \in Flows, d \in Challenges :
        Carries(i, g, d)' => \/ Carries(i, g, d)
                             \/ i = held[r] /\ g = f /\ d = c
  BY <1>1, <1>2 DEF Carries, SavesIInv, SessionsTypeOK
<1>4. \A i \in live, g \in Flows : ~Carries(i, g, c)
  BY DEF ChallengesIInv, PendingIsUnused
<1>5. PendingInOnePlace'
  BY <1>1, <1>3, <1>4 DEF ChallengesIInv, PendingInOnePlace
<1>6. PendingIsUnused'
  BY <1>1, <1>3 DEF ChallengesIInv, PendingIsUnused
<1> QED  BY <1>1, <1>5, <1>6 DEF ChallengesIInv

(* A log-in moves what is pending at the identity of its request to the    *)
(* new one; what other requests still hold stays at one that is gone.      *)
LEMMA LogInMovesChallenges ==
  ASSUME SavesIInv, NEW r \in Requests, NEW s \in Session, Authenticate(r, s),
         \A f \in Flows : s.flow[f] \in {copy[r].flow[f], NoChallenge}
  PROVE  /\ issued' = issued
         /\ ~CanWrite(held[r], s) =>
              \A j \in live', f \in Flows, c \in Challenges :
                  Carries(j, f, c)' => j \in live /\ Carries(j, f, c)
         /\ CanWrite(held[r], s) => held[r] \in live /\
              \E i \in SessionIds \ used :
                  \A j \in live', f \in Flows, c \in Challenges :
                      Carries(j, f, c)' =>
                          \/ j = i /\ s.flow[f] = c /\ copy[r].flow[f] = c
                          \/ j \in live \ {i, held[r]} /\ Carries(j, f, c)
<1> PICK i \in SessionIds \ used :
      LET n == Rotated(r, i)
          found == CanWrite(held[r], s)
      IN /\ Change(r, s)
         /\ held' = [held EXCEPT ![r] = n]
         /\ live' = IF found THEN (live \ {held[r]}) \cup {n} ELSE live
         /\ row' = IF found THEN [row EXCEPT ![held[r]] = NewWebSession, ![n] = s] ELSE row
         /\ UNCHANGED issued
  BY DEF Authenticate
<1>1. /\ phase[r] = "loaded" /\ copy' = [copy EXCEPT ![r] = s]
      /\ held' = [held EXCEPT ![r] = i] /\ issued' = issued
      /\ held[r] \in used /\ i \notin used /\ i \in SessionIds /\ i # NoId
      /\ i \notin live /\ \A q \in Requests : held[q] # i
  BY SessionsAssumption DEF Change, Rotated, SavesIInv, SessionsTypeOK, IdleHasNothing
<1>2. CASE CanWrite(held[r], s)
  <2>1. /\ held[r] \in live /\ live' = (live \ {held[r]}) \cup {i}
        /\ row' = [row EXCEPT ![held[r]] = NewWebSession, ![i] = s]
    BY <1>2 DEF Rotated, CanWrite
  <2>2. row'[i] = s /\ copy'[r] = s /\ \A q \in Requests \ {r} : held'[q] # i
    BY <1>1, <2>1 DEF SavesIInv, SessionsTypeOK
  <2>3. \A j \in live' \ {i} : j \in live \ {i, held[r]} /\ row'[j] = row[j]
          /\ \A q \in Requests : held'[q] = j => held[q] = j /\ copy'[q] = copy[q]
    BY <1>1, <2>1 DEF SavesIInv, SessionsTypeOK
  <2>4. ASSUME NEW j \in live', NEW f \in Flows, NEW c \in Challenges, Carries(j, f, c)'
        PROVE  \/ j = i /\ s.flow[f] = c /\ copy[r].flow[f] = c
               \/ j \in live \ {i, held[r]} /\ Carries(j, f, c)
    <3>1. CASE j = i
      <4>1. s.flow[f] = c
        BY <2>2, <2>4, <3>1 DEF Carries
      <4> QED  BY <3>1, <4>1, SessionsAssumption
    <3>2. CASE j # i
      BY <2>3, <2>4, <3>2 DEF Carries
    <3> QED  BY <3>1, <3>2
  <2> QED  BY <1>1, <1>2, <2>1, <2>4
<1>3. CASE ~CanWrite(held[r], s)
  <2>1. live' = live /\ row' = row
    BY <1>3
  <2>2. \A j \in live : \A q \in Requests : held'[q] = j => held[q] = j /\ copy'[q] = copy[q]
    BY <1>1 DEF SavesIInv, SessionsTypeOK
  <2> QED  BY <1>1, <1>3, <2>1, <2>2 DEF Carries
<1> QED  BY <1>2, <1>3

(* A log-in with a password.                                               *)
LEMMA PasswordKeepsChallenges ==
  ASSUME SavesIInv, ChallengesIInv, NEW r \in Requests, CheckLogin(r)
  PROVE  ChallengesIInv'
<1> PICK u \in users : Authenticate(r, [copy[r] EXCEPT !.user = u])
  BY DEF CheckLogin
<1> DEFINE s == [copy[r] EXCEPT !.user = u]
<1>1. s \in Session /\ \A f \in Flows : s.flow[f] = copy[r].flow[f]
  BY DEF SavesIInv, SessionsTypeOK, Session
<1>2. /\ issued' = issued
      /\ ~CanWrite(held[r], s) =>
           \A j \in live', f \in Flows, c \in Challenges :
               Carries(j, f, c)' => j \in live /\ Carries(j, f, c)
      /\ CanWrite(held[r], s) => held[r] \in live /\
           \E i \in SessionIds \ used :
               \A j \in live', f \in Flows, c \in Challenges :
                   Carries(j, f, c)' =>
                       \/ j = i /\ s.flow[f] = c /\ copy[r].flow[f] = c
                       \/ j \in live \ {i, held[r]} /\ Carries(j, f, c)
  <2>1. Authenticate(r, s)
    OBVIOUS
  <2> HIDE DEF s
  <2> QED  BY <1>1, <2>1, LogInMovesChallenges
<1>3. UNCHANGED <<won, twice>>
  BY DEF CheckLogin
<1>4. held[r] \in live => \A f \in Flows, c \in Challenges :
        copy[r].flow[f] = c => Carries(held[r], f, c)
  BY DEF Carries
<1> HIDE DEF s
<1>5. CASE ~CanWrite(held[r], s)
  <2>1. /\ issued' = issued
        /\ \A j \in live', f \in Flows, c \in Challenges :
              Carries(j, f, c)' => j \in live /\ Carries(j, f, c)
    BY <1>2, <1>5
  <2> QED  BY <1>3, <2>1, FewerPlaces
<1>6. CASE CanWrite(held[r], s)
  <2> PICK i \in SessionIds \ used :
        /\ issued' = issued /\ held[r] \in live
        /\ \A j \in live', f \in Flows, c \in Challenges :
             Carries(j, f, c)' =>
                 \/ j = i /\ s.flow[f] = c /\ copy[r].flow[f] = c
                 \/ j \in live \ {i, held[r]} /\ Carries(j, f, c)
    BY <1>2, <1>6
  <2>1. PendingInOnePlace'
    BY <1>4 DEF ChallengesIInv, PendingInOnePlace
  <2>2. PendingIsUnused'
    BY <1>3, <1>4 DEF ChallengesIInv, PendingIsUnused
  <2> QED  BY <1>3, <2>1, <2>2 DEF ChallengesIInv
<1> QED  BY <1>5, <1>6

(* A log-in by the answer to a challenge: the challenge is not taken along *)
(* to the new identity, so that nothing live carries it any more.          *)
LEMMA AnswerKeepsChallenges ==
  ASSUME SavesIInv, ChallengesIInv, NEW r \in Requests, NEW f \in Flows, LoginBy(r, f)
  PROVE  ChallengesIInv'
<1> PICK u \in users : Authenticate(r, [Consumed(r, f) EXCEPT !.user = u])
  BY DEF LoginBy
<1> PICK answered \in Challenges : answered = copy[r].flow[f]
  <2>1. copy[r] \in Session /\ copy[r].flow[f] # NoChallenge
    BY DEF LoginBy, SavesIInv, SessionsTypeOK
  <2> QED  BY <2>1 DEF Session
<1> DEFINE s == [Consumed(r, f) EXCEPT !.user = u]
<1>1. /\ s \in Session /\ s.user = u /\ s.flow[f] = NoChallenge
      /\ \A g \in Flows : s.flow[g] \in {copy[r].flow[g], NoChallenge}
  BY DEF Consumed, SavesIInv, SessionsTypeOK, Session
<1>2. copy'[r] = s
  BY DEF Authenticate, Change, SavesIInv, SessionsTypeOK
<1>3. /\ issued' = issued
      /\ ~CanWrite(held[r], s) =>
           \A j \in live', g \in Flows, c \in Challenges :
               Carries(j, g, c)' => j \in live /\ Carries(j, g, c)
      /\ CanWrite(held[r], s) => held[r] \in live /\
           \E i \in SessionIds \ used :
               \A j \in live', g \in Flows, c \in Challenges :
                   Carries(j, g, c)' =>
                       \/ j = i /\ s.flow[g] = c /\ copy[r].flow[g] = c
                       \/ j \in live \ {i, held[r]} /\ Carries(j, g, c)
  <2>1. Authenticate(r, s)
    OBVIOUS
  <2> HIDE DEF s
  <2> QED  BY <1>1, <2>1, LogInMovesChallenges
<1>4. \A g \in Flows, c \in Challenges :
        copy[r].flow[g] = c => Carries(held[r], g, c)
  BY DEF Carries
<1>5. IF CanWrite(held[r], s)
      THEN won' = won \cup {answered} /\ twice' = twice \cup (won \cap {answered})
      ELSE UNCHANGED <<won, twice>>
  BY <1>2 DEF LoginBy
<1> HIDE DEF s
<1>6. CASE ~CanWrite(held[r], s)
  <2>1. /\ issued' = issued
        /\ \A j \in live', g \in Flows, c \in Challenges :
              Carries(j, g, c)' => j \in live /\ Carries(j, g, c)
    BY <1>3, <1>6
  <2> QED  BY <1>5, <1>6, <2>1, FewerPlaces
<1>7. CASE CanWrite(held[r], s)
  <2> PICK i \in SessionIds \ used :
        /\ issued' = issued /\ held[r] \in live
        /\ \A j \in live', g \in Flows, c \in Challenges :
             Carries(j, g, c)' =>
                 \/ j = i /\ s.flow[g] = c /\ copy[r].flow[g] = c
                 \/ j \in live \ {i, held[r]} /\ Carries(j, g, c)
    BY <1>3, <1>7
  <2>1. answered \in issued /\ answered \notin won
    BY <1>2, <1>4 DEF ChallengesIInv, PendingIsUnused
  <2>2. PendingInOnePlace'
    BY <1>4 DEF ChallengesIInv, PendingInOnePlace
  <2>3. \A j \in live', g \in Flows : ~Carries(j, g, answered)'
    <3> SUFFICES ASSUME NEW j \in live', NEW g \in Flows, Carries(j, g, answered)'
                 PROVE  FALSE
      OBVIOUS
    <3>1. /\ \/ s.flow[g] = answered /\ copy[r].flow[g] = answered
             \/ j \in live \ {held[r]} /\ Carries(j, g, answered)
          /\ held[r] \in live
      BY <1>2
    <3>2. Carries(held[r], f, answered)
      BY <1>2, <1>4
    <3>3. CASE s.flow[g] = answered /\ copy[r].flow[g] = answered
      <4>1. Carries(held[r], g, answered)
        BY <1>2, <1>4, <3>3
      <4>2. g = f
        BY <1>2, <3>1, <3>2, <4>1 DEF ChallengesIInv, PendingInOnePlace
      <4> QED  BY <1>1, <1>2, <3>3, <4>2, SessionsAssumption
    <3>4. CASE j \in live \ {held[r]} /\ Carries(j, g, answered)
      BY <1>2, <3>1, <3>2, <3>4 DEF ChallengesIInv, PendingInOnePlace
    <3> QED  BY <3>1, <3>3, <3>4
  <2>4. PendingIsUnused'
    <3> SUFFICES ASSUME NEW j \in live', NEW g \in Flows, NEW c \in Challenges, Carries(j, g, c)'
                 PROVE  c \in issued' /\ c \notin won'
      BY DEF PendingIsUnused
    <3>1. c # answered
      BY <2>3
    <3>2. c \in issued /\ c \notin won
      BY <1>4 DEF ChallengesIInv, PendingIsUnused
    <3> QED  BY <1>5, <1>7, <3>1, <3>2
  <2> QED  BY <1>5, <1>7, <2>1, <2>2, <2>4 DEF ChallengesIInv
<1> QED  BY <1>6, <1>7

(* The middleware moves a session between its row and a copy.              *)
LEMMA MiddlewareKeepsChallenges ==
  ASSUME SavesIInv, ChallengesIInv, NEW r \in Requests,
         LoadSession(r) \/ CreateSession(r) \/ FinishRequest(r) \/ Panic(r)
  PROVE  ChallengesIInv'
<1>1. \A f \in Flows : NewWebSession.flow[f] = NoChallenge
  BY DEF NewWebSession
<1>2. NoId \notin live /\ NoChallenge \notin Challenges
  BY SessionsAssumption DEF SavesIInv, SessionsTypeOK
<1>3. CASE LoadSession(r)
  <2>1. /\ cookie \in live /\ held' = [held EXCEPT ![r] = cookie]
        /\ copy' = [copy EXCEPT ![r] = row[cookie]]
        /\ UNCHANGED <<live, row, issued, won, twice>>
    BY <1>3 DEF LoadSession, rowVars, idVars, pastVars
  <2>2. \A i \in live', f \in Flows, c \in Challenges :
           Carries(i, f, c)' => i \in live /\ Carries(i, f, c)
    BY <2>1 DEF Carries, SavesIInv, SessionsTypeOK
  <2> QED  BY <2>1, <2>2, FewerPlaces
<1>4. CASE CreateSession(r)
  <2> PICK n \in SessionIds \ used :
        /\ live' = live \cup {n} /\ row' = [row EXCEPT ![n] = NewWebSession]
        /\ held' = [held EXCEPT ![r] = n]
    BY <1>4 DEF CreateSession
  <2>1. /\ copy' = [copy EXCEPT ![r] = NewWebSession]
        /\ UNCHANGED <<issued, won, twice>>
    BY <1>4 DEF CreateSession, pastVars
  <2>2. \A q \in Requests : held[q] # n
    BY SessionsAssumption DEF SavesIInv, SessionsTypeOK
  <2>3. \A i \in live', f \in Flows, c \in Challenges :
           Carries(i, f, c)' => i \in live /\ Carries(i, f, c)
    BY <1>1, <1>2, <2>1, <2>2 DEF Carries, SavesIInv, SessionsTypeOK
  <2> QED  BY <2>1, <2>3, FewerPlaces
<1>5. CASE FinishRequest(r) \/ Panic(r)
  <2>1. /\ held' = [held EXCEPT ![r] = NoId]
        /\ UNCHANGED <<live, issued, won, twice>>
    BY <1>5 DEF FinishRequest, Panic, rowVars, idVars, pastVars
  <2>2. \A q \in Requests \ {r} : copy'[q] = copy[q]
    BY <1>5 DEF FinishRequest, Panic, SavesIInv, SessionsTypeOK
  <2>3. \A i \in live :
           \/ row'[i] = row[i]
           \/ i = held[r] /\ row'[i] = copy[r]
    BY <1>5 DEF FinishRequest, Panic, SavedRow, rowVars, SavesIInv, SessionsTypeOK
  <2>4. \A i \in live', f \in Flows, c \in Challenges :
           Carries(i, f, c)' => i \in live /\ Carries(i, f, c)
    BY <1>2, <2>1, <2>2, <2>3 DEF Carries, SavesIInv, SessionsTypeOK
  <2> QED  BY <2>1, <2>4, FewerPlaces
<1> QED  BY <1>3, <1>4, <1>5

LEMMA DeletedKeepsChallenges ==
  ASSUME SavesIInv, ChallengesIInv, NEW ids, Deleted(ids),
         UNCHANGED <<held, copy, issued, won, twice>>
  PROVE  ChallengesIInv'
<1>1. \A i \in live', f \in Flows, c \in Challenges :
         Carries(i, f, c)' => i \in live /\ Carries(i, f, c)
  BY DEF Deleted, Carries, SavesIInv, SessionsTypeOK
<1> QED  BY <1>1, FewerPlaces

LEMMA ChallengesStep ==
  ASSUME SavesIInv, ChallengesIInv, [SessionsNext]_sessionVars
  PROVE  ChallengesIInv'
<1>1. ASSUME NEW r \in Requests, Handle(r)
      PROVE  ChallengesIInv'
  <2>1. CASE CheckLogin(r) \/ ProxyLogin(r)
    BY <2>1, PasswordKeepsChallenges DEF ProxyLogin
  <2>2. CASE OAuth2Callback(r) \/ FinishLogin(r)
    BY <2>2, AnswerKeepsChallenges DEF OAuth2Callback, FinishLogin, Flows
  <2>3. CASE \E f \in Flows : StartFlow(r, f)
    BY <2>3, StartKeepsChallenges
  <2>4. copy[r] \in Session
    BY DEF SavesIInv, SessionsTypeOK
  <2>5. CASE \/ \E f \in Flows : AnswerWithoutLogin(r, f)
             \/ Logout(r) \/ UpdateSettings(r) \/ ShowMessage(r)
             \/ RefreshRefused(r) \/ ForceRefresh(r)
    <3>1. \A f \in Flows :
            /\ Consumed(r, f) \in Session
            /\ \A g \in Flows : Consumed(r, f).flow[g] \in {copy[r].flow[g], NoChallenge}
      BY <2>4 DEF Consumed, Session
    <3>2. /\ [copy[r] EXCEPT !.user = NoUser] \in Session
          /\ [copy[r] EXCEPT !.user = NoUser].flow = copy[r].flow
          /\ [copy[r] EXCEPT !.forced = TRUE] \in Session
          /\ [copy[r] EXCEPT !.forced = TRUE].flow = copy[r].flow
      BY <2>4 DEF Session
    <3>3. PICK s \in Session :
            /\ ChangeOnly(r, s) /\ issued' = issued
            /\ \A f \in Flows : s.flow[f] \in {copy[r].flow[f], NoChallenge}
      BY <2>4, <2>5, <3>1, <3>2
         DEF AnswerWithoutLogin, Logout, UpdateSettings, ShowMessage, RefreshRefused, ForceRefresh
    <3> QED  BY <3>3, ChangeKeepsChallenges
  <2>6. CASE RemoveSession(r)
    BY <2>6, DeletedKeepsChallenges DEF RemoveSession, idVars, pastVars
  <2> QED  BY <1>1, <2>1, <2>2, <2>3, <2>5, <2>6 DEF Handle
<1>2. ASSUME NEW r \in Requests, ServeRequest(r)
      PROVE  ChallengesIInv'
  BY <1>1, <1>2, MiddlewareKeepsChallenges DEF ServeRequest
<1>3. CASE CleanOldSessions \/ RemoveSessionsOfUser
  BY <1>3, DeletedKeepsChallenges
     DEF CleanOldSessions, RemoveSessionsOfUser, reqVars, idVars, pastVars
<1>4. CASE IntervalPasses
  <2>1. UNCHANGED <<live, held, issued, won, twice>>
    BY <1>4 DEF IntervalPasses, idVars
  <2>2. \A s \in Session : [s EXCEPT !.forced = FALSE].flow = s.flow
    BY DEF Session
  <2>3. /\ \A i \in SessionIds : row'[i].flow = row[i].flow
        /\ \A q \in Requests : copy'[q].flow = copy[q].flow
    BY <1>4, <2>2 DEF IntervalPasses, SavesIInv, SessionsTypeOK
  <2>4. \A i \in live', f \in Flows, c \in Challenges :
           Carries(i, f, c)' => i \in live /\ Carries(i, f, c)
    BY <2>1, <2>3 DEF Carries, SavesIInv, SessionsTypeOK
  <2> QED  BY <2>1, <2>4, FewerPlaces
<1>5. CASE UNCHANGED sessionVars
  <2>1. UNCHANGED <<live, row, held, copy, issued, won, twice>>
    BY <1>5 DEF sessionVars, rowVars, reqVars, idVars, pastVars
  <2>2. \A i \in live', f \in Flows, c \in Challenges :
           Carries(i, f, c)' => i \in live /\ Carries(i, f, c)
    BY <2>1 DEF Carries
  <2> QED  BY <2>1, <2>2, FewerPlaces
<1> QED  BY <1>2, <1>3, <1>4, <1>5 DEF SessionsNext

(* For any number of requests that have read the same challenge: at most   *)
(* one of them logs somebody in with it (FinishLogin, OAuth2Callback).     *)
THEOREM ChallengesServeOnce == SessionsSpec => []ChallengesLogInOnce
<1>1. SessionsInit => ChallengesIInv
  BY SessionsAssumption DEF SessionsInit, ChallengesIInv, PendingInOnePlace, PendingIsUnused
<1>2. ChallengesIInv => ChallengesLogInOnce
  BY DEF ChallengesIInv, ChallengesLogInOnce
<1>3. SavesIInv /\ ChallengesIInv /\ [SessionsNext]_sessionVars => (SavesIInv /\ ChallengesIInv)'
  BY SavesStep, ChallengesStep
<1> QED  BY <1>1, <1>2, <1>3, SavesStart, PTL DEF SessionsSpec
=============================================================================
