---------------------------- MODULE ReaderProofs ----------------------------
(***************************************************************************)
(* What becomes of a downloaded feed: the cache of compiled expressions,   *)
(* for any number of goroutines and any limit; what more rules do to the   *)
(* entries that come through; and the hashes under which the parsers of    *)
(* all formats know an article again.                                      *)
(***************************************************************************)
EXTENDS FeedFormats, FilterRules, FiniteSetTheorems, TLAPS

Stages == {"filtering", "compiled", "stored", "full", "cleared"}
Those(stage) == {g \in Goroutines : doing[g] = stage}
Count(stage) == Cardinality(Those(stage))

FilterTypeOK ==
    /\ size \in Nat
    /\ doing \in [Goroutines -> Stages]
    /\ IsFiniteSet(regexes)

(* The counter says how many were stored, but for those whose store is not *)
(* counted yet and for what a reset may lose: less than the limit for each *)
(* goroutine that may still reset.                                         *)
Known == IF size < MaxCachedRegexes THEN size ELSE MaxCachedRegexes - 1
Resets == Cardinality(Goroutines) - 1 - Count("cleared")
CacheIsCounted ==
    IF Resets >= 0
    THEN Cardinality(regexes) <=
             Count("stored") + Count("full") + Known + (MaxCachedRegexes - 1) * Resets
    ELSE Cardinality(regexes) = 0

FilterIInv == FilterTypeOK /\ CacheIsCounted
-----------------------------------------------------------------------------
(* Numbers of goroutines at a stage.                                       *)
LEMMA CountsAreNumbers ==
  ASSUME NEW stage
  PROVE  /\ IsFiniteSet(Those(stage)) /\ Count(stage) \in Nat /\ Count(stage)' \in Nat
         /\ Cardinality(Goroutines) \in Nat \ {0}
         /\ Count(stage) <= Cardinality(Goroutines)
<1> USE FilterAssumption
<1>1. Those(stage) \subseteq Goroutines /\ Those(stage)' \subseteq Goroutines
  BY DEF Those
<1> QED
  BY <1>1, FS_Subset, FS_CardinalityType, FS_EmptySet DEF Count

(* A goroutine that goes on is counted where it comes to.                  *)
LEMMA CountsMove ==
  ASSUME FilterTypeOK, NEW g \in Goroutines, NEW from \in Stages, NEW to \in Stages,
         from # to, Goes(g, from, to)
  PROVE  /\ doing' \in [Goroutines -> Stages]
         /\ Count(from)' = Count(from) - 1 /\ Count(to)' = Count(to) + 1
         /\ \A stage \in Stages \ {from, to} : Count(stage)' = Count(stage)
<1>1. doing[g] = from /\ doing' = [doing EXCEPT ![g] = to]
  BY DEF Goes
<1>2. doing' \in [Goroutines -> Stages]
  BY <1>1 DEF FilterTypeOK
<1>3. Those(from)' = Those(from) \ {g} /\ g \in Those(from)
  BY <1>1 DEF Those, FilterTypeOK
<1>4. Those(to)' = Those(to) \cup {g} /\ g \notin Those(to)
  BY <1>1 DEF Those, FilterTypeOK
<1>5. ASSUME NEW stage \in Stages \ {from, to}
      PROVE  Those(stage)' = Those(stage)
  BY <1>1 DEF Those, FilterTypeOK
<1>6. Count(from)' = Count(from) - 1
  BY <1>3, CountsAreNumbers, FS_RemoveElement DEF Count
<1>7. Count(to)' = Count(to) + 1
  BY <1>4, CountsAreNumbers, FS_AddElement DEF Count
<1>8. \A stage \in Stages \ {from, to} : Count(stage)' = Count(stage)
  BY <1>5 DEF Count
<1> QED  BY <1>2, <1>6, <1>7, <1>8

(* Who is at one stage leaves the others to less than all.                 *)
LEMMA NotEveryone ==
  ASSUME NEW g \in Goroutines, NEW stage, doing[g] # stage
  PROVE  Count(stage) <= Cardinality(Goroutines) - 1
<1>1. Those(stage) \subseteq Goroutines \ {g}
  BY DEF Those
<1>2. IsFiniteSet(Goroutines \ {g}) /\ Cardinality(Goroutines \ {g}) = Cardinality(Goroutines) - 1
  BY FilterAssumption, FS_RemoveElement
<1> QED  BY <1>1, <1>2, FS_Subset DEF Count

(* Goroutines are at one stage each.                                       *)
LEMMA StagesAreDisjoint ==
  ASSUME FilterTypeOK
  PROVE  Count("stored") + Count("full") + Count("cleared") <= Cardinality(Goroutines)
<1> DEFINE both == Those("stored") \cup Those("full")
           all == both \cup Those("cleared")
<1>1. Those("stored") \cap Those("full") = {} /\ both \cap Those("cleared") = {}
      /\ all \subseteq Goroutines
  BY DEF Those
<1>2. \A stage : IsFiniteSet(Those(stage)) /\ Count(stage) \in Nat
  BY CountsAreNumbers
<1>3. IsFiniteSet(both) /\ Cardinality(both) = Count("stored") + Count("full")
  <2>1. Cardinality(both) = Count("stored") + Count("full") - Cardinality(Those("stored") \cap Those("full"))
    BY <1>2, FS_Union DEF Count
  <2>2. IsFiniteSet(both)
    BY <1>2, FS_Union
  <2>3. Cardinality(Those("stored") \cap Those("full")) = 0
    BY <1>1, FS_EmptySet
  <2> QED  BY <2>1, <2>2, <2>3, <1>2
<1>4. Cardinality(all) = Count("stored") + Count("full") + Count("cleared")
  <2> HIDE DEF both
  <2>1. Cardinality(all) = Cardinality(both) + Count("cleared") - Cardinality(both \cap Those("cleared"))
    BY <1>2, <1>3, FS_Union DEF Count
  <2>2. Cardinality(both \cap Those("cleared")) = 0
    BY <1>1, FS_EmptySet
  <2> QED  BY <2>1, <2>2, <1>2, <1>3
<1> QED  BY <1>1, <1>4, FS_Subset, FilterAssumption
-----------------------------------------------------------------------------
(* Every step keeps the count.                                             *)
LEMMA FilterStep ==
  ASSUME FilterIInv, [FilterNext]_filterVars
  PROVE  FilterIInv'
<1> USE FilterAssumption
<1> DEFINE N == Cardinality(Goroutines)
           M == MaxCachedRegexes
           S == Count("stored")
           F == Count("full")
           C == Count("cleared")
<1>0. /\ N \in Nat \ {0} /\ S \in Nat /\ F \in Nat /\ C \in Nat /\ C <= N
      /\ M \in Nat \ {0} /\ Resets \in Int /\ Cardinality(regexes) \in Nat
      /\ size \in Nat /\ Known \in Nat /\ Known <= M - 1
  BY CountsAreNumbers, FS_CardinalityType DEF FilterIInv, FilterTypeOK, Known, Resets
<1>1. ASSUME NEW g \in Goroutines, Compile(g)
      PROVE  FilterIInv'
  <2>1. Goes(g, "filtering", "compiled") /\ UNCHANGED <<regexes, size>>
    BY <1>1 DEF Compile
  <2>2. /\ doing' \in [Goroutines -> Stages]
        /\ S' = S /\ F' = F /\ C' = C
    BY <2>1, CountsMove DEF FilterIInv, Stages
  <2> QED  BY <2>1, <2>2 DEF FilterIInv, FilterTypeOK, CacheIsCounted, Known, Resets
<1>2. ASSUME NEW g \in Goroutines, StoreRegex(g)
      PROVE  FilterIInv'
  <2>1. Goes(g, "compiled", "stored") /\ regexes' = regexes \cup {compiled[g]} /\ size' = size
    BY <1>2 DEF StoreRegex
  <2>2. /\ doing' \in [Goroutines -> Stages]
        /\ S' = S + 1 /\ F' = F /\ C' = C
    BY <2>1, CountsMove DEF FilterIInv, Stages
  <2>3. IsFiniteSet(regexes') /\ Cardinality(regexes') <= Cardinality(regexes) + 1
    <3> DEFINE p == compiled[g]
    <3>1. IsFiniteSet(regexes)
      BY DEF FilterIInv, FilterTypeOK
    <3>2. regexes' = regexes \cup {p}
      BY <2>1
    <3> HIDE DEF p
    <3>3. /\ IsFiniteSet(regexes \cup {p})
          /\ \/ Cardinality(regexes \cup {p}) = Cardinality(regexes)
             \/ Cardinality(regexes \cup {p}) = Cardinality(regexes) + 1
      BY <3>1, FS_AddElement
    <3> QED  BY <1>0, <3>2, <3>3
  <2>4. Resets' = Resets /\ Known' = Known
    BY <2>1, <2>2 DEF Resets, Known
  <2>5. Resets >= 0
    BY <1>0, <2>1, NotEveryone DEF Resets, Goes
  <2>6. Cardinality(regexes) <= S + F + Known + (M - 1) * Resets
    BY <2>5 DEF FilterIInv, CacheIsCounted
  <2>7. Cardinality(regexes') \in Nat
    BY <2>3, FS_CardinalityType
  <2> DEFINE rest == (M - 1) * Resets
  <2>8. rest \in Int /\ rest' = rest
    BY <1>0, <2>4
  <2> HIDE DEF rest
  <2>9. Cardinality(regexes') <= S' + F' + Known' + rest'
    BY <1>0, <2>2, <2>3, <2>4, <2>6, <2>7, <2>8 DEF rest
  <2> QED
    BY <2>1, <2>2, <2>3, <2>4, <2>5, <2>9, <1>0 DEF FilterIInv, FilterTypeOK, CacheIsCounted, rest
<1>3. ASSUME NEW g \in Goroutines, CountRegex(g)
      PROVE  FilterIInv'
  <2> DEFINE to == IF size + 1 >= M THEN "full" ELSE "filtering"
  <2>1. Goes(g, "stored", to) /\ size' = size + 1 /\ regexes' = regexes
    BY <1>3 DEF CountRegex
  <2>2. doing' \in [Goroutines -> Stages] /\ S' = S - 1 /\ C' = C
    BY <2>1, CountsMove DEF FilterIInv, Stages
  <2>3. F' = IF size + 1 >= M THEN F + 1 ELSE F
    BY <2>1, CountsMove DEF FilterIInv, Stages
  <2>4. S' + F' + Known' >= S + F + Known
    BY <1>0, <2>1, <2>2, <2>3 DEF Known
  <2>5. Resets' = Resets /\ Resets >= 0
    BY <1>0, <2>1, <2>2, NotEveryone DEF Resets, Goes
  <2> DEFINE rest == (M - 1) * Resets
  <2>6. rest \in Int /\ rest' = rest /\ Cardinality(regexes) <= S + F + Known + rest
    BY <1>0, <2>5 DEF FilterIInv, CacheIsCounted
  <2> HIDE DEF rest
  <2>7. S' \in Int /\ F' \in Int /\ Known' \in Int
    BY <1>0, <2>1, <2>2, <2>3 DEF Known
  <2>8. Cardinality(regexes') <= S' + F' + Known' + rest'
    BY <1>0, <2>1, <2>4, <2>6, <2>7
  <2> QED
    BY <2>1, <2>2, <2>5, <2>8, <1>0 DEF FilterIInv, FilterTypeOK, CacheIsCounted, rest
<1>4. ASSUME NEW g \in Goroutines, ClearRegexes(g)
      PROVE  FilterIInv'
  <2>1. Goes(g, "full", "cleared") /\ regexes' = {} /\ size' = size
    BY <1>4 DEF ClearRegexes
  <2>2. doing' \in [Goroutines -> Stages]
    BY <2>1, CountsMove DEF FilterIInv, Stages
  <2>3. IsFiniteSet(regexes') /\ Cardinality(regexes') = 0
    BY <2>1, FS_EmptySet
  <2>4. S' \in Nat /\ F' \in Nat /\ C' \in Nat
    BY CountsAreNumbers
  <2>6. Known' \in Nat /\ Resets' \in Int
    BY <1>0, <2>1, <2>4 DEF Known, Resets
  <2> DEFINE m == M - 1
  <2>7. m \in Nat /\ \A n \in Nat : m * n \in Nat
    BY <1>0
  <2> HIDE DEF m
  <2>8. Resets' >= 0 => Resets' \in Nat
    BY <2>6
  <2>5. Resets' >= 0 => m * Resets' \in Nat
    BY <2>7, <2>8, Zenon
  <2> QED
    BY <2>1, <2>2, <2>3, <2>4, <2>5, <2>6, <1>0 DEF FilterIInv, FilterTypeOK, CacheIsCounted, m
<1>5. ASSUME NEW g \in Goroutines, ResetSize(g)
      PROVE  FilterIInv'
  <2>1. Goes(g, "cleared", "filtering") /\ regexes' = regexes /\ size' = 0
    BY <1>5 DEF ResetSize
  <2>2. /\ doing' \in [Goroutines -> Stages]
        /\ S' = S /\ F' = F /\ C' = C - 1
    BY <2>1, CountsMove DEF FilterIInv, Stages
  <2>3. Known' = 0 /\ Resets' = Resets + 1 /\ Resets' >= 0
    BY <1>0, <2>1, <2>2 DEF Known, Resets
  <2>4. (M - 1) * (Resets + 1) = (M - 1) * Resets + (M - 1) /\ (M - 1) * Resets \in Int
    BY <1>0
  <2>5. Resets >= 0 => Cardinality(regexes) <= S + F + (M - 1) + (M - 1) * Resets
    BY <1>0, <2>4 DEF FilterIInv, CacheIsCounted
  <2>6. Resets < 0 => Cardinality(regexes) = 0 /\ Resets = -1
    BY <1>0, <2>3 DEF FilterIInv, CacheIsCounted
  <2>7. Cardinality(regexes) <= S + F + (M - 1) * (Resets + 1)
    BY <1>0, <2>4, <2>5, <2>6
  <2> QED
    BY <2>1, <2>2, <2>3, <2>7, <1>0 DEF FilterIInv, FilterTypeOK, CacheIsCounted
<1>6. CASE UNCHANGED filterVars
  BY <1>6 DEF filterVars, FilterIInv, FilterTypeOK, CacheIsCounted, Known, Resets, Count, Those
<1> QED  BY <1>1, <1>2, <1>3, <1>4, <1>5, <1>6 DEF FilterNext

(* The counted cache is a bounded one.                                     *)
LEMMA CountedIsBounded ==
  ASSUME FilterIInv
  PROVE  RegexesAreBounded
<1> USE FilterAssumption
<1> DEFINE N == Cardinality(Goroutines)
           M == MaxCachedRegexes
           C == Count("cleared")
<1>1. /\ N \in Nat \ {0} /\ C \in Nat /\ M \in Nat \ {0}
      /\ Count("stored") \in Nat /\ Count("full") \in Nat /\ Cardinality(regexes) \in Nat
  BY CountsAreNumbers, FS_CardinalityType DEF FilterIInv, FilterTypeOK
<1>2. Known \in Nat /\ Known <= M - 1
  BY <1>1 DEF FilterIInv, FilterTypeOK, Known
<1>3. Count("stored") + Count("full") <= N - C
  BY <1>1, StagesAreDisjoint DEF FilterIInv
<1>4. M * N >= 0
  BY <1>1
<1>5. CASE Resets >= 0
  <2>1. (M - 1) * Resets = M * N - M * (C + 1) - (N - 1 - C)
    BY <1>1 DEF Resets
  <2>2. M * (C + 1) >= M
    BY <1>1
  <2>3. M * N \in Int /\ M * (C + 1) \in Int
    BY <1>1
  <2>4. Cardinality(regexes) <= Count("stored") + Count("full") + Known + (M - 1) * Resets
    BY <1>5 DEF FilterIInv, CacheIsCounted
  <2>5. Cardinality(regexes) <= M * N
    BY <1>1, <1>2, <1>3, <2>1, <2>2, <2>3, <2>4
  <2> QED  BY <2>5 DEF RegexesAreBounded
<1>6. CASE ~(Resets >= 0)
  BY <1>1, <1>4, <1>6 DEF FilterIInv, CacheIsCounted, RegexesAreBounded
<1> QED  BY <1>5, <1>6

(* The cache stays within the limit for each goroutine that filters.       *)
THEOREM CacheStaysBounded == FilterSpec => []RegexesAreBounded
<1>1. FilterInit => FilterIInv
  <2> SUFFICES ASSUME FilterInit PROVE FilterIInv
    OBVIOUS
  <2>1. FilterTypeOK /\ Cardinality(regexes) = 0
    BY FS_EmptySet DEF FilterInit, FilterTypeOK, Stages
  <2>2. /\ Count("stored") \in Nat /\ Count("full") \in Nat /\ Count("cleared") \in Nat
        /\ Cardinality(Goroutines) \in Nat
    BY CountsAreNumbers
  <2>3. Known \in Nat /\ Resets \in Int
    BY <2>1, <2>2, FilterAssumption DEF Known, Resets, FilterTypeOK
  <2>4. Resets >= 0 => (MaxCachedRegexes - 1) * Resets >= 0 /\ (MaxCachedRegexes - 1) * Resets \in Int
    BY <2>3, FilterAssumption
  <2> QED  BY <2>1, <2>2, <2>3, <2>4 DEF FilterIInv, CacheIsCounted
<1> QED  BY <1>1, FilterStep, CountedIsBounded, PTL DEF FilterSpec
-----------------------------------------------------------------------------
(* A rule more to block with never lets an entry through that was blocked. *)
THEOREM BlockRulesBlock ==
  ASSUME NEW Rules, NEW block \in Seq(Rules), NEW rule \in Rules, NEW blocklist, NEW allow,
         NEW keeplist, NEW entry, IsBlockedEntry(block, blocklist, allow, keeplist, entry)
  PROVE  IsBlockedEntry(Append(block, rule), blocklist, allow, keeplist, entry)
<1>1. MatchesOne(block, entry) => MatchesOne(Append(block, rule), entry)
  BY DEF MatchesOne
<1> QED  BY <1>1 DEF IsBlockedEntry

(* Once there are rules to allow, one more never blocks an entry; and then *)
(* the keep list no longer counts.                                         *)
THEOREM AllowRulesAllow ==
  ASSUME NEW Rules, NEW allow \in Seq(Rules), NEW rule \in Rules, NEW block, NEW blocklist,
         NEW keeplist, NEW other, NEW entry, allow # <<>>,
         IsBlockedEntry(block, blocklist, Append(allow, rule), keeplist, entry)
  PROVE  IsBlockedEntry(block, blocklist, allow, other, entry)
<1>1. Append(allow, rule) # <<>>
  OBVIOUS
<1>2. MatchesOne(allow, entry) => MatchesOne(Append(allow, rule), entry)
  BY DEF MatchesOne
<1> QED  BY <1>1, <1>2 DEF IsBlockedEntry
-----------------------------------------------------------------------------
(* The hash of an article that has an identity of its own.                 *)

(* What is in the feed: at most so many articles, each of them once.       *)
FormatsTypeOK ==
    /\ items \in Selections
    /\ \A i, j \in DOMAIN items : items[i].key = items[j].key => i = j
    /\ dialect \in Dialects /\ site \in {Sites[1], Sites[2]}
    /\ followed \in Articles /\ Identified(followed)
(* What the article was first stored under is its identity, but for what   *)
(* was stored from RDF in spite of one.                                    *)
KnownByIdentity ==
    known # Missing => \/ known = Hash(Identity(followed))
                       \/ followed.id # Missing /\ hidden
FormatsIInv == FormatsTypeOK /\ KnownByIdentity
-----------------------------------------------------------------------------
(* The first given text is the one with none before it.                    *)
LEMMA FirstGivenIs ==
  ASSUME NEW texts, DOMAIN texts \subseteq Nat, NEW n \in DOMAIN texts, texts[n] # Missing,
         \A i \in DOMAIN texts : i < n => texts[i] = Missing
  PROVE  FirstGiven(texts) = texts[n]
<1> DEFINE given == {i \in DOMAIN texts : texts[i] # Missing}
           first == CHOOSE i \in given : \A j \in given : i <= j
<1>1. n \in given /\ \A j \in given : n <= j
  OBVIOUS
<1>2. first \in given /\ \A j \in given : first <= j
  BY <1>1
<1>3. first = n
  BY <1>1, <1>2
<1> QED
  BY <1>1, <1>3 DEF FirstGiven

(* An identity is the id or, without one, the link.                        *)
LEMMA IdentityIs ==
  ASSUME NEW a, Identity(a) # Missing
  PROVE  /\ a.id # Missing => Identity(a) = a.id
         /\ a.id = Missing => Identity(a) = TrimSpace(a.url) /\ TrimSpace(a.url) # Missing
<1> DEFINE link == TrimSpace(a.url)
<1>0. Identity(a) = FirstGiven(<<a.id, link>>)
  BY DEF Identity
<1> HIDE DEF link
<1>1. CASE a.id # Missing
  BY <1>0, <1>1, FirstGivenIs, <<a.id, link>>[1] = a.id
<1>2. CASE a.id = Missing /\ link # Missing
  BY <1>0, <1>2, FirstGivenIs, <<a.id, link>>[1] = a.id, <<a.id, link>>[2] = link DEF link
<1>3. CASE a.id = Missing /\ link = Missing
  <2>1. {i \in DOMAIN <<a.id, link>> : <<a.id, link>>[i] # Missing} = {}
    BY <1>3
  <2> QED
    BY <1>0, <2>1 DEF FirstGiven
<1> QED
  BY <1>1, <1>2, <1>3

(* A draft is of an article, and stays so when it is rewritten.            *)
LEMMA DraftsAreOfArticles ==
  ASSUME NEW a \in Drafts
  PROVE  /\ \E b \in Articles : b.key = a.key /\ b.id = a.id /\ b.url = a.url
         /\ Rewritten(a) \in Drafts /\ Rewritten(a).key = a.key
  BY FormatsAssumption DEF FormatsAssumption, Drafts, Rewritten

(* An item of RSS has the hash of its GUID, when no other before it has it *)
(* too, and without one that of its link.                                  *)
LEMMA RssHashes ==
  ASSUME NEW channel, NEW elements, NEW base, NEW i \in DOMAIN elements,
         \/ /\ Get(elements[i], "guid") # Missing
            /\ Repeats(elements, i) = 0
         \/ Get(elements[i], "guid") = Missing /\ findEntryURL(elements[i]) # Missing
  PROVE  rssFeed(channel, elements, base).entries[i].hash =
             Hash(IF Get(elements[i], "guid") # Missing THEN Get(elements[i], "guid")
                  ELSE findEntryURL(elements[i]))
<1> DEFINE n == Repeats(elements, i)
<1>1. PICK feed : rssFeed(channel, elements, base).entries[i] = rssEntry(channel, feed, elements[i], n)
  BY DEF rssFeed
<1>2. PICK entry : rssEntry(channel, feed, elements[i], n).hash = rssHash(elements[i], entry, n)
  BY DEF rssEntry
<1> QED
  BY <1>1, <1>2 DEF rssHash

(* An entry of Atom has the hash of its element, in either version.        *)
LEMMA AtomHashes ==
  ASSUME NEW channel, NEW elements, NEW base, NEW version, NEW i \in DOMAIN elements
  PROVE  atomFeed(channel, elements, base, version).entries[i].hash = atomHash(elements[i])
<1>1. PICK siteURL : atomFeed(channel, elements, base, version).entries[i] =
         IF version = "0.3" THEN atom03Entry(channel, siteURL, elements[i])
                         ELSE atom10Entry(channel, siteURL, elements[i])
  BY DEF atomFeed
<1> QED
  BY <1>1 DEF atom03Entry, atom10Entry

(* So has one of JSON Feed.                                                *)
LEMMA JsonHashes ==
  ASSUME NEW channel, NEW elements, NEW base, NEW i \in DOMAIN elements
  PROVE  jsonFeed(channel, elements, base).entries[i].hash = jsonHash(elements[i])
<1>1. PICK feed : jsonFeed(channel, elements, base).entries[i] = jsonEntry(channel, feed, elements[i])
  BY DEF jsonFeed
<1> QED
  BY <1>1 DEF jsonEntry

(* RDF only knows the link.                                                *)
LEMMA RdfHashes ==
  ASSUME NEW channel, NEW elements, NEW base, NEW i \in DOMAIN elements,
         TrimSpace(Get(elements[i], "link")) # Missing
  PROVE  rdfFeed(channel, elements, base).entries[i].hash = Hash(TrimSpace(Get(elements[i], "link")))
<1>1. PICK feed : rdfFeed(channel, elements, base).entries[i] = rdfEntry(channel, feed, elements[i])
  BY DEF rdfFeed
<1> QED
  BY <1>1 DEF rdfEntry

(* Whatever the format, an article has the hash of its identity, unless    *)
(* the format is RDF and its identity is not its link.                     *)
LEMMA HashesAreOfIdentities ==
  ASSUME FormatsTypeOK, InFeed, ~(followed.id # Missing /\ RDF)
  PROVE  Parsed.entries[Position].hash = Hash(Identity(followed))
<1> DEFINE document == Written(dialect, site, items)
           element == document.items[Position]
           link == TrimSpace(followed.url)
<1> USE FormatsAssumption
<1>1. /\ Position \in DOMAIN items /\ items[Position].key = followed.key
      /\ items[Position] \in Drafts
  BY DEF InFeed, Position, FormatsTypeOK, Selections
<1>2. items[Position].id = followed.id /\ items[Position].url = followed.url
  BY <1>1, DraftsAreOfArticles DEF FormatsAssumption, FormatsTypeOK
<1>3. /\ DetectFeedFormat(document) # "unknown" /\ DOMAIN document.items = DOMAIN items
      /\ \A i \in DOMAIN items : Holds(document, document.items[i], items[i])
  BY DEF FormatsAssumption, FormatsTypeOK
<1>4. /\ followed.id # Missing => Identity(followed) = followed.id
      /\ followed.id = Missing => Identity(followed) = link /\ link # Missing
  BY IdentityIs DEF FormatsTypeOK, Identified
<1>5. document.root \in {"rss", "feed", "{", "RDF"}
  BY <1>3 DEF DetectFeedFormat
<1>6. CASE document.root = "rss"
  <2> DEFINE same == {j \in 1..(Position - 1) :
                         Get(document.items[j], "guid") = Get(element, "guid")}
  <2>1. Get(element, "guid") = followed.id /\ (followed.id = Missing => findEntryURL(element) = link)
    BY <1>1, <1>2, <1>3, <1>6 DEF Holds
  <2>2. Parsed = rssFeed(document.channel, document.items, FeedURL)
    BY <1>3, <1>6 DEF Parsed, ParseFeed, DetectFeedFormat
  <2>3. followed.id # Missing => Repeats(document.items, Position) = 0
    <3> HAVE followed.id # Missing
    <3>1. ASSUME NEW j \in 1..(Position - 1), Get(document.items[j], "guid") = Get(element, "guid")
          PROVE  FALSE
      <4>1. j \in DOMAIN items /\ j # Position
        BY <1>1 DEF FormatsTypeOK, Selections
      <4>2. items[j].key # followed.key /\ items[j] \in Drafts
        BY <1>1, <4>1 DEF FormatsTypeOK, Selections
      <4>3. items[j].id = followed.id
        BY <1>3, <1>6, <2>1, <3>1, <4>1 DEF Holds
      <4>4. PICK b \in Articles : b.key = items[j].key /\ b.id = items[j].id
        BY <4>2, DraftsAreOfArticles
      <4>5. Identity(b) = b.id
        <5>1. b.id # Missing
          BY <4>3, <4>4
        <5>2. FirstGiven(<<b.id, TrimSpace(b.url)>>) = b.id
          BY <5>1, FirstGivenIs, <<b.id, TrimSpace(b.url)>>[1] = b.id
        <5> QED
          BY <5>2 DEF Identity
      <4> QED
        BY <1>4, <4>2, <4>3, <4>4, <4>5 DEF FormatsTypeOK, Identified
    <3>2. same = {}
      BY <3>1
    <3> QED
      BY <3>2, FS_EmptySet DEF Repeats
  <2>4. Position \in DOMAIN document.items
    BY <1>1, <1>3
  <2>5. rssFeed(document.channel, document.items, FeedURL).entries[Position].hash =
          IF followed.id # Missing THEN Hash(followed.id) ELSE Hash(link)
    <3>1. CASE followed.id # Missing
      BY <2>1, <2>3, <2>4, <3>1, RssHashes
    <3>2. CASE followed.id = Missing
      BY <1>4, <2>1, <2>4, <3>2, RssHashes
    <3> QED
      BY <3>1, <3>2
  <2> QED
    BY <1>4, <2>2, <2>5
<1>7. CASE document.root = "feed"
  <2>1. Get(element, "id") = followed.id /\ (followed.id = Missing => originalLink(Get(element, "links")) = link)
    BY <1>1, <1>2, <1>3, <1>7 DEF Holds
  <2>2. Parsed = atomFeed(document.channel, document.items, FeedURL, document.version)
    BY <1>3, <1>7 DEF Parsed, ParseFeed, DetectFeedFormat
  <2>3. Parsed.entries[Position].hash = atomHash(element)
    BY <1>1, <1>3, <2>2, AtomHashes
  <2>4. FirstGiven(<<Get(element, "id"), originalLink(Get(element, "links"))>>) = Identity(followed)
    <3> DEFINE id == Get(element, "id")
               found == originalLink(Get(element, "links"))
    <3> HIDE DEF id, found
    <3>1. CASE followed.id # Missing
      BY <1>4, <2>1, <3>1, FirstGivenIs, <<id, found>>[1] = id DEF id, found
    <3>2. CASE followed.id = Missing
      <4>1. id = Missing /\ found = link /\ link # Missing /\ Identity(followed) = link
        BY <1>4, <2>1, <3>2 DEF id, found
      <4> HIDE DEF link
      <4> QED
        BY <4>1, FirstGivenIs, <<id, found>>[1] = id, <<id, found>>[2] = found DEF id, found
    <3> QED
      BY <3>1, <3>2
  <2>5. Identity(followed) # Missing
    BY DEF FormatsTypeOK, Identified
  <2> QED
    BY <2>3, <2>4, <2>5 DEF atomHash
<1>8. CASE document.root = "{"
  <2> DEFINE id == TrimSpace(Get(element, "id"))
             url == TrimSpace(Get(element, "url"))
             external == TrimSpace(Get(element, "externalURL"))
             text == TrimSpace(Get(element, "contentText") \o Get(element, "contentHTML")
                               \o Get(element, "summary"))
  <2>1. id = followed.id /\ (followed.id = Missing => link = IF url # Missing THEN url ELSE external)
    BY <1>1, <1>2, <1>3, <1>8 DEF Holds
  <2>2. Parsed = jsonFeed(document.channel, document.items, FeedURL)
    BY <1>3, <1>8 DEF Parsed, ParseFeed, DetectFeedFormat
  <2>3. Parsed.entries[Position].hash = jsonHash(element)
    BY <1>1, <1>3, <2>2, JsonHashes
  <2>4. jsonHash(element) = LET identity == FirstGiven(<<id, url, external, text>>)
                            IN IF identity = Missing THEN Missing ELSE Hash(identity)
    BY DEF jsonHash
  <2>5. Identity(followed) # Missing
    BY DEF FormatsTypeOK, Identified
  <2> HIDE DEF id, url, external, text, link
  <2> DEFINE texts == <<id, url, external, text>>
  <2>6. DOMAIN texts = 1..4 /\ texts[1] = id /\ texts[2] = url /\ texts[3] = external
    OBVIOUS
  <2> HIDE DEF texts
  <2>7. FirstGiven(texts) = Identity(followed)
    <3>1. CASE followed.id # Missing
      BY <1>4, <2>1, <2>6, <3>1, FirstGivenIs
    <3>2. CASE followed.id = Missing /\ url # Missing
      BY <1>4, <2>1, <2>6, <3>2, FirstGivenIs
    <3>3. CASE followed.id = Missing /\ url = Missing
      BY <1>4, <2>1, <2>6, <3>3, FirstGivenIs
    <3> QED
      BY <3>1, <3>2, <3>3
  <2> QED
    BY <2>3, <2>4, <2>5, <2>7 DEF texts
<1>9. CASE document.root = "RDF"
  <2>1. followed.id = Missing
    BY <1>9 DEF RDF
  <2>2. TrimSpace(Get(element, "link")) = link
    BY <1>1, <1>2, <1>3, <1>9, <2>1 DEF Holds
  <2>3. Parsed = rdfFeed(document.channel, document.items, FeedURL)
    BY <1>3, <1>9 DEF Parsed, ParseFeed, DetectFeedFormat
  <2> QED
    BY <1>1, <1>3, <1>4, <2>1, <2>2, <2>3, RdfHashes
<1> QED
  BY <1>5, <1>6, <1>7, <1>8, <1>9

(* Articles keep their hash once the invariant holds.                      *)
LEMMA KnownIsKept == FormatsIInv => ItemsKeepTheirHash
  BY HashesAreOfIdentities DEF FormatsIInv, KnownByIdentity, ItemsKeepTheirHash

(* A selection is a list of drafts, and a list of drafts no longer than    *)
(* the feed is a selection.                                                *)
LEMMA SelectionsAreLists ==
  /\ \A s \in Selections : s \in Seq(Drafts) /\ Len(s) <= MaxItems
  /\ \A n \in 0..MaxItems : \A s \in [1..n -> Drafts] : s \in Selections
<1> USE FormatsAssumption DEF FormatsAssumption
<1>1. ASSUME NEW s \in Selections
      PROVE  s \in Seq(Drafts) /\ Len(s) <= MaxItems
  <2>1. PICK n \in 0..MaxItems : s \in [1..n -> Drafts]
    BY DEF Selections
  <2> QED
    BY <2>1
<1> QED
  BY <1>1 DEF Selections

(* The invariant holds of an empty feed.                                   *)
LEMMA FormatsStart == FormatsInit => FormatsIInv
<1> SUFFICES ASSUME FormatsInit PROVE FormatsIInv
  OBVIOUS
<1>1. <<>> \in [1..0 -> Drafts] /\ 0 \in 0..MaxItems
  BY FormatsAssumption DEF FormatsAssumption
<1>2. items \in [1..0 -> Drafts]
  BY <1>1 DEF FormatsInit
<1>3. items \in Selections
  BY <1>1, <1>2, SelectionsAreLists
<1> QED
  BY <1>2, <1>3 DEF FormatsInit, FormatsIInv, FormatsTypeOK, KnownByIdentity

(* Each of the publisher's steps keeps the articles apart; a refresh adds   *)
(* what HashesAreOfIdentities says.                                        *)
LEMMA FormatsStep == FormatsIInv /\ [FormatsNext]_formatVars => FormatsIInv'
<1> SUFFICES ASSUME FormatsIInv, [FormatsNext]_formatVars
             PROVE  FormatsIInv'
  OBVIOUS
<1> USE FormatsAssumption
<1>0. items \in Seq(Drafts) /\ Len(items) <= MaxItems /\ DOMAIN items = 1..Len(items)
  BY SelectionsAreLists DEF FormatsIInv, FormatsTypeOK
<1>1. CASE Publish
  <2>1. PICK a \in Articles :
          /\ \A i \in DOMAIN items : items[i].key # a.key
          /\ items' = SubSeq(<<a>> \o items, 1, IF Len(items) < MaxItems THEN Len(items) + 1
                                                ELSE MaxItems)
          /\ UNCHANGED <<edited, dialect, site, followed, known, hidden>>
    BY <1>1 DEF Publish
  <2> DEFINE m == IF Len(items) < MaxItems THEN Len(items) + 1 ELSE MaxItems
  <2>2. m \in 0..MaxItems /\ m \in 0..Len(items) + 1 /\ a \in Drafts
    BY <1>0 DEF FormatsAssumption, Drafts
  <2> HIDE DEF m
  <2>3. /\ items' \in [1..m -> Drafts]
        /\ \A i \in 1..m : items'[i] = IF i = 1 THEN a ELSE items[i - 1]
    <3> DEFINE t == <<a>> \o items
    <3>1. items' = SubSeq(t, 1, m)
      BY <2>1 DEF m
    <3>2. t = <<a>> \o items
      OBVIOUS
    <3> HIDE DEF t
    <3>3. /\ t \in Seq(Drafts) /\ Len(t) = Len(items) + 1
          /\ \A i \in 1..Len(t) : t[i] = IF i = 1 THEN a ELSE items[i - 1]
      BY <1>0, <2>2, <3>2
    <3>4. items' = [i \in 1..m |-> t[i]]
      BY <2>2, <3>1, <3>3
    <3>5. ASSUME NEW i \in 1..m
          PROVE  t[i] = (IF i = 1 THEN a ELSE items[i - 1]) /\ t[i] \in Drafts
      BY <1>0, <2>2, <3>3
    <3> QED
      BY <3>4, <3>5
  <2>4. items' \in Selections
    BY <2>2, <2>3, SelectionsAreLists
  <2>5. ASSUME NEW i \in DOMAIN items', NEW j \in DOMAIN items', items'[i].key = items'[j].key
        PROVE  i = j
    <3>1. i \in 1..m /\ j \in 1..m
      BY <2>3
    <3>2. \A k \in 1..m : k # 1 => items'[k] = items[k - 1] /\ k - 1 \in DOMAIN items
      BY <1>0, <2>2, <2>3
    <3>3. /\ i = 1 \/ j = 1 => items'[1] = a
          /\ \A k \in DOMAIN items : items[k].key # a.key
      BY <2>1, <2>2, <2>3, <3>1
    <3>4. CASE i # 1 /\ j # 1
      BY <2>2, <2>5, <3>1, <3>2, <3>4 DEF FormatsIInv, FormatsTypeOK
    <3>5. CASE i = 1 /\ j # 1
      BY <2>5, <3>1, <3>2, <3>3, <3>5
    <3>6. CASE i # 1 /\ j = 1
      BY <2>5, <3>1, <3>2, <3>3, <3>6
    <3> QED
      BY <3>4, <3>5, <3>6
  <2> QED
    BY <2>1, <2>4, <2>5 DEF FormatsIInv, FormatsTypeOK, KnownByIdentity, Identified
<1>2. CASE Reorder
  <2>1. items' = [i \in 1..Len(items) |-> items[(Len(items) - i) + 1]]
    BY <1>0, <1>2 DEF Reorder
  <2>2. items' \in [1..Len(items) -> Drafts] /\ Len(items) \in 0..MaxItems
    BY <1>0, <2>1 DEF FormatsAssumption
  <2>3. items' \in Selections
    BY <2>2, SelectionsAreLists
  <2>4. ASSUME NEW i \in DOMAIN items', NEW j \in DOMAIN items', items'[i].key = items'[j].key
        PROVE  i = j
    <3>1. i \in 1..Len(items) /\ j \in 1..Len(items)
      BY <2>1
    <3> QED
      BY <1>0, <2>1, <2>4, <3>1 DEF FormatsIInv, FormatsTypeOK
  <2> QED
    BY <1>2, <2>3, <2>4 DEF Reorder, FormatsIInv, FormatsTypeOK, KnownByIdentity, Identified
<1>3. CASE Rewrite
  <2>1. items' = [i \in DOMAIN items |-> Rewritten(items[i])]
    BY <1>3 DEF Rewrite
  <2>2. \A i \in DOMAIN items : Rewritten(items[i]) \in Drafts /\ Rewritten(items[i]).key = items[i].key
    BY <1>0, DraftsAreOfArticles
  <2>3. items' \in [1..Len(items) -> Drafts] /\ Len(items) \in 0..MaxItems
    BY <1>0, <2>1, <2>2 DEF FormatsAssumption
  <2>4. items' \in Selections
    BY <2>3, SelectionsAreLists
  <2>5. ASSUME NEW i \in DOMAIN items', NEW j \in DOMAIN items', items'[i].key = items'[j].key
        PROVE  i = j
    BY <2>1, <2>2, <2>5 DEF FormatsIInv, FormatsTypeOK
  <2> QED
    BY <1>3, <2>4, <2>5 DEF Rewrite, FormatsIInv, FormatsTypeOK, KnownByIdentity, Identified
<1>4. CASE Convert
  BY <1>4 DEF Convert, FormatsIInv, FormatsTypeOK, KnownByIdentity, Identified
<1>5. CASE Move
  BY <1>5 DEF Move, FormatsIInv, FormatsTypeOK, KnownByIdentity, Identified
<1>6. CASE Refresh
  <2>1. /\ known' = Parsed.entries[Position].hash /\ hidden' = RDF
        /\ UNCHANGED <<items, edited, dialect, site, followed>>
    BY <1>6 DEF Refresh
  <2>2. known' = Hash(Identity(followed)) \/ (followed.id # Missing /\ hidden')
    BY <1>6, <2>1, HashesAreOfIdentities DEF Refresh, FormatsIInv
  <2> QED
    BY <2>1, <2>2 DEF FormatsIInv, FormatsTypeOK, KnownByIdentity, Identified
<1>7. CASE UNCHANGED formatVars
  BY <1>7 DEF formatVars, FormatsIInv, FormatsTypeOK, KnownByIdentity, Identified
<1> QED
  BY <1>1, <1>2, <1>3, <1>4, <1>5, <1>6, <1>7 DEF FormatsNext

(* An article with an identity of its own keeps its hash: for any articles *)
(* and dialects, any number of items, and anything the elements hold but   *)
(* for what identifies.                                                    *)
THEOREM ArticlesKeepTheirHash == FormatsSpec => []ItemsKeepTheirHash
<1>1. FormatsInit => FormatsIInv
  BY FormatsStart
<1>2. FormatsIInv /\ [FormatsNext]_formatVars => FormatsIInv'
  BY FormatsStep
<1>3. FormatsIInv => ItemsKeepTheirHash
  BY KnownIsKept
<1> QED
  BY <1>1, <1>2, <1>3, PTL DEF FormatsSpec
=============================================================================
