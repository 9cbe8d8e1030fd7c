---------------------------- MODULE FilterRules ----------------------------
(***************************************************************************)
(* Filters (reader/filter/filter.go): which rule decides whether an entry  *)
(* is dropped, and the cache of compiled expressions that all goroutines   *)
(* share.  The cache is a sync.Map with an atomic counter beside it, and   *)
(* the two are never changed together.                                     *)
(***************************************************************************)
EXTENDS Naturals, Sequences, FiniteSets

CONSTANTS Patterns,         \* the texts of expressions that rules use
          NoPattern,
          Goroutines,       \* workers, prefetchers and requests that filter
          MaxCachedRegexes

ASSUME FilterAssumption ==
    /\ NoPattern \notin Patterns
    /\ IsFiniteSet(Goroutines) /\ Goroutines # {}
    /\ MaxCachedRegexes \in Nat \ {0}

VARIABLES
    regexes,   \* compiledRegexesCache
    size,      \* compiledRegexesCacheSize
    doing,     \* where a goroutine is in cachedRegex
    compiled   \* the pattern it has compiled

filterVars == <<regexes, size, doing, compiled>>

---------------------------------------------------------------------------
(* Which rule decides.  Matches(rule, entry) is what matchesRule finds,    *)
(* whose expressions, dates and tags are not taken apart; an invalid rule  *)
(* matches nothing.                                                        *)

CONSTANT Matches(_, _)

\* matchesEntryFilterRules: the first match ends the loop.
MatchesOne(rules, entry) == \E k \in DOMAIN rules : Matches(rules[k], entry)

\* The regular expressions of the feed's old lists: absent, invalid or a rule.
NoRule == [valid |-> TRUE, set |-> FALSE]
InvalidRule == [valid |-> FALSE, set |-> TRUE]
ValidRule(r) == [valid |-> TRUE, set |-> TRUE, rule |-> r]
Blocklisted(list, entry) == list.set /\ list.valid /\ Matches(list.rule, entry)

\* User and feed block rules, the block list, user and feed allow rules and
\* only without any of these the keep list.
IsBlockedEntry(block, blocklist, allow, keeplist, entry) ==
    \/ MatchesOne(block, entry)
    \/ Blocklisted(blocklist, entry)
    \/ allow # <<>> /\ ~MatchesOne(allow, entry)
    \/ allow = <<>> /\ keeplist.set /\ keeplist.valid /\ ~Matches(keeplist.rule, entry)

---------------------------------------------------------------------------
(* The cache.  A hit changes nothing and is left out.                      *)

FilterInit ==
    /\ regexes = {} /\ size = 0
    /\ doing = [g \in Goroutines |-> "filtering"]
    /\ compiled = [g \in Goroutines |-> NoPattern]

Goes(g, from, to) == doing[g] = from /\ doing' = [doing EXCEPT ![g] = to]

\* Not in the cache: compiled, outside any lock.
Compile(g) ==
    /\ Goes(g, "filtering", "compiled")
    /\ \E p \in Patterns \ regexes : compiled' = [compiled EXCEPT ![g] = p]
    /\ UNCHANGED <<regexes, size>>

StoreRegex(g) ==
    /\ Goes(g, "compiled", "stored")
    /\ regexes' = regexes \cup {compiled[g]}
    /\ compiled' = [compiled EXCEPT ![g] = NoPattern]
    /\ UNCHANGED size

\* The counter says whether this goroutine has to empty the cache.
CountRegex(g) ==
    /\ Goes(g, "stored", IF size + 1 >= MaxCachedRegexes THEN "full" ELSE "filtering")
    /\ size' = size + 1
    /\ UNCHANGED <<regexes, compiled>>

\* Wrong: the counter is reset and the cache is not.
ClearRegexesNot(g) == Goes(g, "full", "cleared") /\ UNCHANGED <<regexes, size, compiled>>

ClearRegexes(g) ==
    /\ Goes(g, "full", "cleared")
    /\ regexes' = {}
    /\ UNCHANGED <<size, compiled>>

ResetSize(g) ==
    /\ Goes(g, "cleared", "filtering")
    /\ size' = 0
    /\ UNCHANGED <<regexes, compiled>>

FilterNext == \E g \in Goroutines :
    Compile(g) \/ StoreRegex(g) \/ CountRegex(g) \/ ClearRegexes(g) \/ ResetSize(g)

FilterSpec == FilterInit /\ [][FilterNext]_filterVars

---------------------------------------------------------------------------
(* Properties. *)

\* The counter may lose what others count between a goroutine's Clear and its
\* Store(0), once for each goroutine that is between the two; so the cache
\* stays below the limit times the number of goroutines, and no further.
RegexesAreBounded == Cardinality(regexes) <= MaxCachedRegexes * Cardinality(Goroutines)
===========================================================================
