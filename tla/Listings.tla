-------------------------------- MODULE Listings --------------------------------
(***************************************************************************)
(* A client that reads a listing page by page (httpapi ParsePagination,      *)
(* NewPaginationMeta) while what is listed changes. The listings differ in   *)
(* whether their order is total and in whether the items of a page and their *)
(* total are one read or two.                                                *)
(***************************************************************************)
EXTENDS Integers, Sequences, SequencesExt, FiniteSetsExt

CONSTANTS Kinds, Items, Keys, PageSizes, MaxListChanges

ASSUME ListingsAssumption ==
  /\ IsFiniteSet(Items) /\ Items \cup Keys \subseteq Int
  /\ PageSizes \subseteq Nat \ {0} /\ MaxListChanges \in Nat

VARIABLES
  listed,   \* what there is to list: of each item, what it is sorted and filtered by
  reader,   \* the client, and its request under way
  got,      \* history: how often it was given each item
  throughout, \* history: the items that could be listed all the time since it began
  listChanges \* history: what changed since then, of MaxListChanges

listingVars == <<listed, reader, got, throughout, listChanges>>

\* The last key of ORDER BY is unique, or the sort has nothing after a time or a severity:
\* then items of one key come in any order, in each answer another.
TotalOrder == {"repositories", "syncJobs", "pullRequestsByNumber", "hotspots", "reviewQueue"}
ArbitraryTies == {"pullRequests", "organizations", "insights"}
\* Calculated in memory: the page and the total are of one list.
OneRead == {"hotspots", "insights"}

Matching(items, filter) == {i \in DOMAIN items : filter = "all" \/ items[i].open}
Shown == Matching(listed, reader.filter)

\* sortOrder; ties by the item itself where the order is total.
InOrder(i, j) ==
  LET k == listed[i].key
      l == listed[j].key
  IN \/ IF reader.order = "asc" THEN k < l ELSE k > l
     \/ k = l /\ (reader.kind \in TotalOrder => i < j)
Lists(S) == {s \in SetToSeqs(S) : \A a, b \in DOMAIN s : a < b => InOrder(s[a], s[b])}

\* A mutated offset that counts pages from 0.
PageFromZero(s, page, size) == SubSeq(s, page * size + 1, Min({(page + 1) * size, Len(s)}))

\* LIMIT pageSize OFFSET (page - 1) * pageSize.
Page(s, page, size) == SubSeq(s, (page - 1) * size + 1, Min({page * size, Len(s)}))
TotalPages(total, size) == (total + size - 1) \div size

-----------------------------------------------------------------------------

ListingsInit ==
  /\ \E S \in SUBSET Items : listed \in [S -> [key : Keys, open : BOOLEAN]]
  /\ reader \in [at : {"page"}, kind : Kinds, order : {"asc", "desc"}, filter : {"all", "open"},
                 page : {1}, size : PageSizes, total : {0}]
  /\ got = [i \in Items |-> 0]
  /\ throughout = Shown
  /\ listChanges = [added |-> 0, removed |-> 0]

\* After an answer: the next page, if there is one more.
Answer(total) ==
  reader' = [reader EXCEPT !.total = total, !.page = @ + 1,
               !.at = IF reader.page < TotalPages(total, reader.size) THEN "page" ELSE "done"]

ListPage ==
  /\ reader.at = "page"
  /\ \E s \in Lists(Shown) :
       got' = [i \in Items |-> IF Contains(Page(s, reader.page, reader.size), i) THEN got[i] + 1
                               ELSE got[i]]
  /\ IF reader.kind \in OneRead THEN Answer(Cardinality(Shown))
     ELSE reader' = [reader EXCEPT !.at = "count"]
  /\ UNCHANGED <<listed, throughout, listChanges>>

CountItems ==
  /\ reader.at = "count" /\ Answer(Cardinality(Shown))
  /\ UNCHANGED <<listed, got, throughout, listChanges>>

\* Something comes to be listed, by being there or by its status, or no more.
ListingChanges(i) ==
  /\ reader.at # "done" /\ listChanges.added + listChanges.removed < MaxListChanges
  /\ listed' \in {[j \in DOMAIN listed \cup {i} |->
                     IF j = i THEN [key |-> k, open |-> o] ELSE listed[j]] : k \in Keys, o \in BOOLEAN}
                 \cup {[j \in DOMAIN listed \ {i} |-> listed[j]]}
  /\ i \in DOMAIN listed \cap DOMAIN listed' => listed'[i].key = listed[i].key
  /\ LET after == Matching(listed', reader.filter)
     IN /\ listChanges' = [added   |-> listChanges.added + Cardinality(after \ Shown),
                           removed |-> listChanges.removed + Cardinality(Shown \ after)]
        /\ throughout' = throughout \cap after
  /\ listChanges' # listChanges
  /\ UNCHANGED <<reader, got>>

ListingsNext == ListPage \/ CountItems \/ \E i \in Items : ListingChanges(i)

-----------------------------------------------------------------------------

Tied(i) == i \in DOMAIN listed /\ \E j \in Shown \ {i} : listed[i].key = listed[j].key

\* A client that reads all pages is given everything that was listed all the time, unless
\* something left the list meanwhile or, where ties come in any order, the item is one of
\* them; nothing twice, unless something came; and as many as it was told when nothing
\* changed. What comes while it reads hides nothing.
PagesCover ==
  reader.at = "done" /\ listChanges.removed = 0 =>
    /\ \A i \in throughout : reader.kind \in TotalOrder \/ ~Tied(i) => got[i] >= 1
    /\ listChanges.added = 0 =>
         /\ SumFunction(got) = reader.total
         /\ \A i \in Items : reader.kind \in TotalOrder \/ ~Tied(i) => got[i] <= 1
=============================================================================
