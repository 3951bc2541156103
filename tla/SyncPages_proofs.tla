--------------------------- MODULE SyncPages_proofs ---------------------------
(***************************************************************************)
(* What a completed sync stored stays all there is to store: the theorems  *)
(* of SyncPages, for any number of jobs, of runs that overlap, of items    *)
(* and of pages.                                                           *)
(***************************************************************************)
EXTENDS SyncPages, FiniteSetTheorems, WellFoundedInduction, TLAPS

\* The page of its resource that an item is listed on.
PageOf(x) == (Count(x[1]) - x[2]) \div PerPage + 1

\* The "from" a run of the job goes by when it starts.
FromOf(row) == IF row.mode = "full" THEN None ELSE row.from

Busy(g) == ~At(g, "free")

-----------------------------------------------------------------------------
(* The parts that say what a state is made of.                               *)

\* A run has its job to itself, and the job says so.
RunsInv ==
  /\ \A g \in Runners : Busy(g) =>
       /\ runner[g].job \in Jobs
       /\ JobOf(g).status = "running" /\ JobOf(g).first # 0
       /\ runner[g].from # None => FromOf(JobOf(g)) = runner[g].from
  /\ \A g, h \in Runners : Busy(g) /\ Busy(h) /\ runner[g].job = runner[h].job => g = h
  /\ \A j \in Jobs :
       /\ job[j].status = "absent" => job[j].mode = None
       /\ job[j].mode = None => job[j].from = None
  /\ \A j \in Jobs : job[j].first = 0 =>
       /\ job[j].status \in {"absent", "pending"}
       /\ \A k \in Kinds : job[j].page[k] = None
       /\ \A l \in Lists, x \in Pulls : job[j].part[l][x] = None

\* Nothing happened later than now.
ClockInv ==
  /\ \A x \in Item : updated[x] <= now
  /\ lastSynced <= now
  /\ \A j \in Jobs : job[j].first <= now
  /\ \A g \in Runners : runner[g].done <= now

\* Items and reviews come one after the other, a review after its pull request.
LinedUp ==
  /\ \A k \in Kinds : \A x, y \in Items(k) : Exists(x) /\ y[2] < x[2] => Exists(y)
  /\ \A p \in Pulls : \A x, y \in Reviews(p) : Exists(x) /\ y[3] < x[3] => Exists(y)
  /\ \A y \in Review : updated[y] <= updated[PullOf(y)]

\* The pull request at hand, as it was fetched since the job began.
HandOf(g) ==
  /\ runner[g].at \in {"pull", "reviews", "bundle", "files", "replace"} =>
       runner[g].kind = Pull /\ runner[g].batch \subseteq Pulls
  /\ runner[g].at \in {"reviews", "bundle", "files", "replace"} => runner[g].item \in Pulls
  /\ At(g, "complete") => runner[g].kind = LastKind
  /\ runner[g].at \in {"reviews", "bundle"} =>
       \/ runner[g].version = updated[runner[g].item]
       \/ JobOf(g).first <= updated[runner[g].item]
AtHand == \A g \in Runners : HandOf(g)

-----------------------------------------------------------------------------
(* What is owed, and how far a run and a job have got with it.               *)

\* A run that may have stored an older version of x is under way, or failed.
Excused(x) ==
  \E j \in Jobs :
    /\ Unfinished(j, x)
    /\ ~\E g \in Runners : runner[g].job = j /\ At(g, "complete") /\ runner[g].done <= updated[x]

\* What a job that first started at "first" must have seen when it is completed.
Owed(x, first, from) ==
  /\ Exists(x) /\ updated[x] < first /\ x \notin missed
  /\ from # None => from <= updated[x]

\* Neither listed nor fetched yet by the run.
Awaited(g, x) ==
  \/ x[1] > runner[g].kind /\ PageOf(x) >= Resume(JobOf(g).page[x[1]])
  \/ x[1] = runner[g].kind /\ At(g, "list") /\ PageOf(x) >= runner[g].page
  \/ x[1] = runner[g].kind /\ ~At(g, "list") /\ runner[g].next # 0 /\ PageOf(x) >= runner[g].next
  \/ ~At(g, "list") /\ ~At(g, "checkpoint") /\ x \in runner[g].batch

Ahead(g, x) ==
  /\ Include(x, runner[g].cutoff) /\ ~At(g, "complete")
  /\ \/ Awaited(g, x)
     \/ /\ runner[g].at \in {"reviews", "bundle"} /\ runner[g].item = x
        /\ runner[g].version = updated[x]

IsStored(x) == stored[x] = updated[x]

\* A run has stored what it owes, or has it ahead.
RunCovers ==
  \A g \in Runners, x \in Listed :
    Busy(g) /\ Owed(x, JobOf(g).first, runner[g].from) /\ ~Excused(x) =>
      IsStored(x) \/ Ahead(g, x)

\* So has a job between two runs: what is ahead is on the page it resumes from, or
\* on a later one.
JobCovers ==
  \A j \in Jobs, x \in Listed :
    /\ job[j].status \in {"pending", "running", "failed"}
    /\ Owed(x, job[j].first, FromOf(job[j])) /\ ~Excused(x)
    => IsStored(x) \/ PageOf(x) >= Resume(job[j].page[x[1]])

\* And what the runs owed that completed is stored.
SyncedCovers ==
  \A x \in Listed : Owed(x, lastSynced, None) /\ ~Excused(x) => IsStored(x)

-----------------------------------------------------------------------------
(* The same of reviews, of which there is one version, and of files.         *)

IsCut(l, x) == <<l, x>> \in cut

\* A page of a list is resumed from only by a run that fetches the list, or after one
\* that failed at it.
PartsInv ==
  /\ \A j \in Jobs, l \in Lists, x \in Pulls : job[j].part[l][x] # None =>
       \/ IsCut(l, x)
       \/ \E g \in Runners :
            runner[g].job = j /\ At(g, Fetching[l]) /\ runner[g].item = x /\ runner[g].part > 1

\* The files at hand are all of them, unless the list was resumed.
FilesOf(g) ==
  /\ At(g, "files") => /\ runner[g].part \in AllFiles /\ runner[g].got \subseteq AllFiles
                      /\ \/ 1 .. runner[g].part - 1 \subseteq runner[g].got
                         \/ IsCut("changed_files", runner[g].item)
  /\ At(g, "replace") => /\ runner[g].got \subseteq AllFiles
                        /\ \/ runner[g].got = AllFiles
                           \/ IsCut("changed_files", runner[g].item)
FilesAtHand ==
  /\ \A j \in Jobs, x \in Pulls : job[j].part["changed_files"][x] \in AllFiles \cup {None}
  /\ \A g \in Runners : FilesOf(g)

\* The reviews and the files that a run has ahead.
ReviewAhead(g, y) ==
  LET r == runner[g] IN
  /\ Include(y, r.cutoff) /\ ~At(g, "complete")
  /\ \/ Awaited(g, PullOf(y))
     \/ At(g, "reviews") /\ r.item = PullOf(y) /\ (y[3] >= r.part \/ y[3] \in r.got)
     \/ At(g, "bundle") /\ r.item = PullOf(y) /\ y[3] \in r.got
FilesAhead(g, x) ==
  LET r == runner[g] IN
  /\ Include(x, r.cutoff) /\ ~At(g, "complete")
  /\ \/ Awaited(g, x)
     \/ r.at \in {"reviews", "bundle", "files", "replace"} /\ r.item = x

ReviewStored(y) == IsStored(y) \/ IsCut("reviews", PullOf(y))
FilesStored(x) == HasItsFiles(x) \/ IsCut("changed_files", x)

\* The details of a pull request: its files, which go by its own name, and its reviews.
Details == Pulls \cup Review
DetailStored(y) == (y \in Pulls => FilesStored(y)) /\ (y \in Review => ReviewStored(y))
DetailAhead(g, y) == (y \in Pulls => FilesAhead(g, y)) /\ (y \in Review => ReviewAhead(g, y))

RunCoversDetails ==
  \A g \in Runners, y \in Details :
    Busy(g) /\ Owed(y, JobOf(g).first, runner[g].from) => DetailStored(y) \/ DetailAhead(g, y)
JobCoversDetails ==
  \A j \in Jobs, y \in Details :
    /\ job[j].status \in {"pending", "running", "failed"}
    /\ Owed(y, job[j].first, FromOf(job[j]))
    => DetailStored(y) \/ PageOf(PullOf(y)) >= Resume(job[j].page[Pull])
SyncedCoversDetails == \A y \in Details : Owed(y, lastSynced, None) => DetailStored(y)
-----------------------------------------------------------------------------
(* Pages.                                                                    *)

LEMMA DivBounds ==
  ASSUME NEW a \in Int, NEW n \in Nat \ {0}
  PROVE  a \div n \in Int /\ n * (a \div n) <= a /\ a < n * (a \div n) + n
  OBVIOUS

LEMMA TimesMonotone ==
  ASSUME NEW n \in Nat \ {0}, NEW p \in Int, NEW q \in Int, p <= q
  PROVE  n * p <= n * q
  OBVIOUS

LEMMA DivMonotone ==
  ASSUME NEW a \in Int, NEW b \in Int, NEW n \in Nat \ {0}, a <= b
  PROVE  a \div n <= b \div n
  <1>1. a \div n \in Int /\ b \div n \in Int /\ n * (a \div n) <= a /\ b < n * (b \div n) + n
    BY DivBounds
  <1> DEFINE p == a \div n
             q == b \div n
  <1> HIDE DEF p, q
  <1>2. SUFFICES ASSUME q + 1 <= p
                 PROVE  FALSE
    BY <1>1 DEF p, q
  <1>3. n * (q + 1) <= n * p
    BY <1>1, <1>2, TimesMonotone DEF p, q
  <1>4. n * (q + 1) = n * q + n
    BY <1>1 DEF q
  <1>5. QED
    BY <1>1, <1>3, <1>4 DEF p, q

LEMMA Bounds ==
  /\ PerPage \in Nat \ {0} /\ MaxReview \in Nat /\ FilePages \in Nat \ {0}
  /\ MaxTime \in Nat \ {0} /\ MaxFails \in Nat /\ Froms \subseteq Time \ {0}
  /\ \A k \in Kinds : MaxCount[k] \in Nat
  /\ Pull \in Kinds /\ Commits \in Kinds /\ LastKind \in Kinds
  BY BoundsAssumption DEF Kinds, Pull, Commits, LastKind

LEMMA Nones ==
  /\ None \notin Jobs /\ None \notin Int /\ None # "full" /\ None # "incremental"
  BY NoneAssumption

LEMMA ItemShape ==
  ASSUME NEW k \in Kinds, NEW x \in Items(k)
  PROVE  /\ x[1] = k /\ x[2] \in 1 .. MaxCount[k] /\ x[3] = 0 /\ x = <<k, x[2], 0>>
         /\ x \in Listed /\ x \in Item
  <1>1. PICK i \in 1 .. MaxCount[k] : x = <<k, i, 0>>
    BY DEF Items
  <1>2. x[1] = k /\ x[2] = i /\ x[3] = 0
    BY <1>1
  <1>3. QED
    BY <1>1, <1>2 DEF Listed, Item

LEMMA ListedShape ==
  ASSUME NEW x \in Listed
  PROVE  /\ x[1] \in Kinds /\ x \in Items(x[1]) /\ x[2] \in 1 .. MaxCount[x[1]] /\ x[3] = 0
         /\ x \in Item
  <1>1. PICK k \in Kinds : x \in Items(k)
    BY DEF Listed
  <1>2. QED
    BY <1>1, ItemShape

LEMMA PullShape ==
  ASSUME NEW x \in Pulls
  PROVE  x[1] = Pull /\ x[2] \in 1 .. MaxCount[Pull] /\ x[3] = 0 /\ x \in Listed /\ x \in Item
  BY ItemShape, Bounds DEF Pulls

LEMMA ReviewShape ==
  ASSUME NEW x \in Pulls, NEW y \in Reviews(x)
  PROVE  /\ y[1] = Pull /\ y[2] = x[2] /\ y[3] \in 1 .. MaxReview /\ y = <<Pull, x[2], y[3]>>
         /\ PullOf(y) = x /\ y \in Review /\ y \in Item /\ y \notin Listed
  <1>1. PICK q \in 1 .. MaxReview : y = <<Pull, x[2], q>>
    BY DEF Reviews
  <1>2. y[1] = Pull /\ y[2] = x[2] /\ y[3] = q
    BY <1>1
  <1>3. x = <<Pull, x[2], 0>>
    BY ItemShape, Bounds DEF Pulls
  <1>4. y \in Review /\ y \in Item
    BY DEF Review, Item
  <1>5. y \notin Listed
    <2>1. y[3] # 0
      BY <1>2, Bounds
    <2>2. QED
      BY <2>1, ListedShape
  <1>6. QED
    BY <1>1, <1>2, <1>3, <1>4, <1>5 DEF PullOf

LEMMA ReviewOfPull ==
  ASSUME NEW y \in Review
  PROVE  /\ PullOf(y) \in Pulls /\ y \in Reviews(PullOf(y)) /\ y \in Item /\ y \notin Listed
         /\ y[3] \in 1 .. MaxReview /\ y = <<Pull, PullOf(y)[2], y[3]>>
  <1>1. PICK x \in Pulls : y \in Reviews(x)
    BY DEF Review
  <1>2. QED
    BY <1>1, ReviewShape

LEMMA SameReview ==
  ASSUME NEW x \in Pulls, NEW y \in Reviews(x), NEW z \in Reviews(x), y[3] = z[3]
  PROVE  y = z
  BY ReviewShape

LEMMA SameItem ==
  ASSUME NEW k \in Kinds, NEW y \in Items(k), NEW z \in Items(k), y[2] = z[2]
  PROVE  y = z
  BY ItemShape

-----------------------------------------------------------------------------
(* Counting.                                                                 *)

\* What maps one to one into an interval is finite and no larger.
LEMMA SmallerThanInterval ==
  ASSUME NEW S, NEW n \in Nat, NEW f \in [S -> 1 .. n],
         \A x, y \in S : f[x] = f[y] => x = y
  PROVE  IsFiniteSet(S) /\ Cardinality(S) \in Nat /\ Cardinality(S) <= n
  <1>1. f \in Injection(S, 1 .. n)
    BY DEF Injection, IsInjective
  <1>2. IsFiniteSet(1 .. n) /\ Cardinality(1 .. n) = n
    BY FS_Interval
  <1>3. IsFiniteSet(S) /\ Cardinality(S) <= Cardinality(1 .. n)
    BY <1>1, <1>2, FS_Injection
  <1>4. QED
    BY <1>2, <1>3, FS_CardinalityType

\* And what an interval maps one to one into is no smaller.
LEMMA LargerThanInterval ==
  ASSUME NEW S, IsFiniteSet(S), NEW n \in Nat, NEW f \in [1 .. n -> S],
         \A i, j \in 1 .. n : f[i] = f[j] => i = j
  PROVE  n <= Cardinality(S)
  <1>1. f \in Injection(1 .. n, S)
    BY DEF Injection, IsInjective
  <1>2. IsFiniteSet(1 .. n) /\ Cardinality(1 .. n) = n
    BY FS_Interval
  <1>3. QED
    BY <1>1, <1>2, FS_Injection

Existing(k) == {x \in Items(k) : Exists(x)}

LEMMA ExistingFinite ==
  ASSUME NEW k \in Kinds
  PROVE  IsFiniteSet(Items(k)) /\ IsFiniteSet(Existing(k)) /\ Count(k) = Cardinality(Existing(k))
         /\ Count(k) \in Nat
  <1> DEFINE f == [x \in Items(k) |-> x[2]]
  <1>1. f \in [Items(k) -> 1 .. MaxCount[k]] /\ \A x, y \in Items(k) : f[x] = f[y] => x = y
    BY ItemShape, SameItem
  <1>2. MaxCount[k] \in Nat
    BY Bounds
  <1> HIDE DEF f
  <1>3. IsFiniteSet(Items(k))
    BY <1>1, <1>2, SmallerThanInterval
  <1>4. IsFiniteSet(Existing(k))
    BY <1>3, FS_Subset DEF Existing
  <1>5. Count(k) = Cardinality(Existing(k))
    BY DEF Count, Existing
  <1>6. QED
    BY <1>3, <1>4, <1>5, FS_CardinalityType

LEMMA CountBounds ==
  ASSUME LinedUp, NEW k \in Kinds, NEW x \in Items(k), Exists(x)
  PROVE  x[2] <= Count(k)
  <1>1. x[2] \in Nat /\ x[2] \in 1 .. MaxCount[k] /\ MaxCount[k] \in Nat
    BY ItemShape, Bounds
  <1> DEFINE f == [i \in 1 .. x[2] |-> <<k, i, 0>>]
  <1>2. \A i \in 1 .. x[2] : <<k, i, 0>> \in Items(k)
    BY <1>1 DEF Items
  <1>3. ASSUME NEW i \in 1 .. x[2] PROVE <<k, i, 0>> \in Existing(k)
    <2>1. CASE i = x[2]
      BY <2>1, ItemShape DEF Existing
    <2>2. CASE i < x[2]
      <3>1. <<k, i, 0>>[2] < x[2]
        BY <2>2
      <3>2. Exists(<<k, i, 0>>)
        BY <3>1, <1>2 DEF LinedUp
      <3>3. QED
        BY <3>2, <1>2 DEF Existing
    <2>3. QED
      BY <2>1, <2>2, <1>1
  <1>4. f \in [1 .. x[2] -> Existing(k)] /\ \A i, j \in 1 .. x[2] : f[i] = f[j] => i = j
    BY <1>3
  <1> HIDE DEF f
  <1>5. QED
    BY <1>1, <1>4, ExistingFinite, LargerThanInterval

Submitted(x) == {z \in Reviews(x) : Exists(z)}

LEMMA SubmittedFinite ==
  ASSUME NEW x \in Pulls
  PROVE  IsFiniteSet(Submitted(x)) /\ Cardinality(Submitted(x)) \in 0 .. MaxReview
  <1> DEFINE f == [y \in Submitted(x) |-> y[3]]
  <1>1. f \in [Submitted(x) -> 1 .. MaxReview] /\ \A y, z \in Submitted(x) : f[y] = f[z] => y = z
    BY ReviewShape, SameReview DEF Submitted
  <1> HIDE DEF f
  <1>2. IsFiniteSet(Submitted(x)) /\ Cardinality(Submitted(x)) \in Nat /\ Cardinality(Submitted(x)) <= MaxReview
    BY <1>1, Bounds, SmallerThanInterval
  <1>3. QED
    BY <1>2, Bounds

LEMMA SubmittedBounds ==
  ASSUME LinedUp, NEW x \in Pulls, NEW y \in Reviews(x), Exists(y)
  PROVE  y[3] <= Cardinality(Submitted(x))
  <1>1. y[3] \in Nat /\ y[3] \in 1 .. MaxReview /\ MaxReview \in Nat
    BY ReviewShape, Bounds
  <1> DEFINE f == [i \in 1 .. y[3] |-> <<Pull, x[2], i>>]
  <1>2. \A i \in 1 .. y[3] : <<Pull, x[2], i>> \in Reviews(x)
    BY <1>1 DEF Reviews
  <1>3. ASSUME NEW i \in 1 .. y[3] PROVE <<Pull, x[2], i>> \in Submitted(x)
    <2>1. CASE i = y[3]
      BY <2>1, ReviewShape DEF Submitted
    <2>2. CASE i < y[3]
      <3>1. <<Pull, x[2], i>>[3] < y[3]
        BY <2>2
      <3>2. Exists(<<Pull, x[2], i>>)
        BY <3>1, <1>2 DEF LinedUp
      <3>3. QED
        BY <3>2, <1>2 DEF Submitted
    <2>3. QED
      BY <2>1, <2>2, <1>1
  <1>4. f \in [1 .. y[3] -> Submitted(x)] /\ \A i, j \in 1 .. y[3] : f[i] = f[j] => i = j
    BY <1>3
  <1> HIDE DEF f
  <1>5. QED
    BY <1>1, <1>4, SubmittedFinite, LargerThanInterval

-----------------------------------------------------------------------------
(* Listings.                                                                 *)

LEMMA PageOfShape ==
  ASSUME LinedUp, NEW k \in Kinds, NEW x \in Items(k), Exists(x)
  PROVE  PageOf(x) \in PageNo
  <1>1. Count(k) - x[2] \in Nat /\ x[1] = k
    BY ItemShape, ExistingFinite, CountBounds
  <1>2. (Count(k) - x[2]) \div PerPage \in Int /\ 0 \div PerPage <= (Count(k) - x[2]) \div PerPage
    BY <1>1, Bounds, DivBounds, DivMonotone
  <1>3. 0 \div PerPage = 0
    BY Bounds
  <1>4. QED
    BY <1>1, <1>2, <1>3 DEF PageOf, PageNo

\* An item on a page is on that page of the listing.
LEMMA OnPage ==
  ASSUME NEW k \in Kinds, NEW x \in Items(k), Exists(x), NEW p \in PageNo, PageOf(x) = p
  PROVE  x \in Page(k, p)
  <1>1. x[1] = k /\ Count(k) - x[2] \in Int
    BY ItemShape, ExistingFinite
  <1>2. (Count(k) - x[2]) \div PerPage \in Int
    BY <1>1, Bounds, DivBounds
  <1>3. (Count(k) - x[2]) \div PerPage = p - 1
    BY <1>1, <1>2 DEF PageOf, PageNo
  <1>4. QED
    BY <1>3 DEF Page

\* A page comes before the next one for as long as there are items on a later one.
LEMMA OnLaterPage ==
  ASSUME NEW k \in Kinds, NEW x \in Items(k), Exists(x), NEW p \in PageNo, PageOf(x) > p
  PROVE  NextPage(k, p) = p + 1 /\ NextPage(k, p) # 0
  <1> DEFINE a == Count(k) - x[2]
             q == a \div PerPage
  <1>1. x[1] = k /\ a \in Int /\ a < Count(k) /\ Count(k) \in Nat
    BY ItemShape, ExistingFinite
  <1>2. q \in Int /\ PerPage * q <= a
    BY <1>1, Bounds, DivBounds
  <1>3. PageOf(x) = q + 1
    BY <1>1 DEF PageOf
  <1> HIDE DEF a, q
  <1>4. p <= q
    BY <1>2, <1>3 DEF PageNo
  <1>5. PerPage * p <= PerPage * q /\ PerPage * p \in Int /\ PerPage * q \in Int /\ p * PerPage = PerPage * p
    BY <1>2, <1>4, Bounds, TimesMonotone DEF PageNo
  <1>6. p * PerPage < Count(k)
    BY <1>1, <1>2, <1>5
  <1>7. QED
    BY <1>6 DEF NextPage, PageNo

LEMMA NextPageShape ==
  ASSUME NEW k \in Kinds, NEW p \in PageNo
  PROVE  NextPage(k, p) \in Nat
  BY DEF NextPage, PageNo

\* What is created pushes items to later pages only.
LEMMA PagesGrow ==
  ASSUME NEW k \in Kinds, NEW x \in Items(k), \A y \in Items(k) : Exists(y) => Exists(y)'
  PROVE  PageOf(x) \in Int /\ PageOf(x)' \in Int /\ PageOf(x) <= PageOf(x)'
  <1>1. IsFiniteSet(Existing(k)') /\ Count(k)' = Cardinality(Existing(k)') /\ Count(k)' \in Nat
    <2>1. Existing(k)' \in SUBSET Items(k)
      BY DEF Existing
    <2>2. IsFiniteSet(Existing(k)')
      BY <2>1, ExistingFinite, FS_Subset
    <2>3. Count(k)' = Cardinality(Existing(k)')
      BY DEF Count, Existing
    <2>4. QED
      BY <2>2, <2>3, FS_CardinalityType
  <1>2. Existing(k) \in SUBSET Existing(k)'
    BY DEF Existing
  <1>3. Count(k) <= Count(k)'
    BY <1>1, <1>2, ExistingFinite, FS_Subset
  <1>4. x[1] = k /\ Count(k) - x[2] \in Int /\ Count(k)' - x[2] \in Int
        /\ Count(k) - x[2] <= Count(k)' - x[2]
    BY <1>1, <1>3, ItemShape, ExistingFinite
  <1>5. /\ (Count(k) - x[2]) \div PerPage \in Int /\ (Count(k)' - x[2]) \div PerPage \in Int
        /\ (Count(k) - x[2]) \div PerPage <= (Count(k)' - x[2]) \div PerPage
    BY <1>4, Bounds, DivBounds, DivMonotone
  <1>6. PageOf(x) = (Count(k) - x[2]) \div PerPage + 1 /\ PageOf(x)' = (Count(k)' - x[2]) \div PerPage + 1
    BY <1>4 DEF PageOf
  <1>7. QED
    BY <1>5, <1>6

LEMMA LessWellFounded == IsWellFoundedOn({ss \in Nat \X Nat : ss[1] < ss[2]}, Nat)
  BY NatLessThanWellFounded, Zenon DEF OpToRel

\* Of pull requests at hand there is a newest.
LEMMA NewestShape ==
  ASSUME NEW S \in SUBSET Pulls, S # {}
  PROVE  Newest(S) \in S
  <1> DEFINE n == MaxCount[Pull]
             T == {n - x[2] : x \in S}
  <1>1. n \in Nat /\ T \subseteq Nat /\ T # {}
    BY PullShape, Bounds
  <1> HIDE DEF n
  <1>2. PICK m \in T : \A t \in T : ~(<<t, m>> \in {ss \in Nat \X Nat : ss[1] < ss[2]})
    BY <1>1, LessWellFounded, WFMin
  <1>3. \A t \in T : ~(t < m)
    BY <1>1, <1>2
  <1>4. PICK x \in S : m = n - x[2]
    OBVIOUS
  <1>5. ASSUME NEW y \in S PROVE y[2] <= x[2]
    <2>1. n - y[2] \in T /\ x[2] \in Int /\ y[2] \in Int
      BY PullShape
    <2>2. ~(n - y[2] < m)
      BY <1>3, <2>1
    <2>3. QED
      BY <2>1, <2>2, <1>1, <1>4
  <1>6. \E z \in S : \A y \in S : y[2] <= z[2]
    BY <1>5
  <1>7. QED
    BY <1>6 DEF Newest

-----------------------------------------------------------------------------
(* What the steps of a run change of it.                                     *)

SameRun(s, r) == s.job = r.job /\ s.cutoff = r.cutoff /\ s.from = r.from
Others(g) == \A h \in Runners : h # g => runner'[h] = runner[h]

LEMMA ListPullsSteps ==
  ASSUME TypeOK, NEW g \in Runners, ListPulls(g)
  PROVE  LET r == runner[g]
             s == runner'[g] IN
         /\ Others(g) /\ SameRun(s, r)
         /\ r.at = "list" /\ s.at = "pull" /\ r.kind = Pull /\ s.kind = r.kind /\ s.page = r.page
         /\ s.next = NextPage(Pull, r.page)
         /\ s.batch = {x \in Page(Pull, r.page) : Include(x, r.cutoff)}
         /\ s.item = r.item /\ s.version = r.version /\ s.part = r.part /\ s.got = r.got
         /\ s.done = r.done
  BY DEF ListPulls, Others, SameRun, TypeOK, Goroutine, At

LEMMA GetPullSteps ==
  ASSUME TypeOK, NEW g \in Runners, GetPull(g)
  PROVE  LET r == runner[g]
             s == runner'[g]
             x == Newest(r.batch) IN
         /\ Others(g) /\ SameRun(s, r)
         /\ r.at = "pull" /\ s.at = "reviews" /\ s.kind = r.kind /\ s.page = r.page /\ s.next = r.next
         /\ r.batch # {} /\ s.batch = r.batch \ {x}
         /\ s.item = x /\ s.version = updated[x] /\ s.got = {} /\ s.done = r.done
         /\ s.part = Resume(JobOf(g).part["reviews"][x])
  <1> DEFINE r == runner[g]  x == Newest(r.batch)  part == Resume(JobOf(g).part["reviews"][x])
  <1>1. runner \in [Runners -> Goroutine]
    BY DEF TypeOK
  <1>2. /\ r.at = "pull" /\ r.batch # {}
        /\ runner' = [runner EXCEPT ![g] =
             [r EXCEPT !.at = "reviews", !.item = x, !.version = updated[x],
                       !.batch = r.batch \ {x}, !.got = {}, !.part = part]]
    BY DEF GetPull, At
  <1> HIDE DEF x, part
  <1>3. Others(g)
    BY <1>1, <1>2 DEF Others
  <1>4. runner'[g] = [r EXCEPT !.at = "reviews", !.item = x, !.version = updated[x],
                               !.batch = r.batch \ {x}, !.got = {}, !.part = part]
    BY <1>1, <1>2
  <1>5. r \in Goroutine
    BY <1>1
  <1>6. LET s == runner'[g] IN
        /\ s.job = r.job /\ s.cutoff = r.cutoff /\ s.from = r.from /\ s.kind = r.kind
        /\ s.page = r.page /\ s.next = r.next /\ s.done = r.done
        /\ s.at = "reviews" /\ s.item = x /\ s.version = updated[x] /\ s.batch = r.batch \ {x}
        /\ s.got = {} /\ s.part = part
    BY <1>4, <1>5 DEF Goroutine
  <1>7. QED
    BY <1>2, <1>3, <1>6 DEF SameRun, x, part

LEMMA EndPullsSteps ==
  ASSUME TypeOK, NEW g \in Runners, EndPulls(g)
  PROVE  LET r == runner[g]
             s == runner'[g] IN
         /\ Others(g) /\ SameRun(s, r)
         /\ r.at = "pull" /\ s.at = "checkpoint" /\ s.kind = r.kind /\ s.page = r.page /\ s.next = r.next
         /\ r.batch = {} /\ s.batch = r.batch /\ s.item = r.item /\ s.version = r.version
         /\ s.part = r.part /\ s.got = r.got /\ s.done = r.done
  BY DEF EndPulls, Others, SameRun, TypeOK, Goroutine, At

\* What fetching a page of a list changes; last says that it was the last one.
Fetched(g, l, last, got, then) ==
  LET r == runner[g]
      s == runner'[g] IN
  /\ Others(g) /\ SameRun(s, r)
  /\ s.at = IF last THEN then ELSE r.at
  /\ s.kind = r.kind /\ s.page = r.page /\ s.next = r.next /\ s.batch = r.batch
  /\ s.item = r.item /\ s.version = r.version /\ s.done = r.done
  /\ s.part = (IF last THEN 1 ELSE r.part + 1) /\ s.got = r.got \cup got
  /\ \A j \in Jobs :
       /\ job'[j].status = job[j].status /\ job'[j].first = job[j].first
       /\ job'[j].mode = job[j].mode /\ job'[j].from = job[j].from /\ job'[j].page = job[j].page
       /\ job'[j].asked = job[j].asked
       /\ \A m \in Lists, x \in Pulls :
            job'[j].part[m][x] = IF j = r.job /\ m = l /\ x = r.item
                                 THEN IF last THEN None ELSE r.part + 1 ELSE job[j].part[m][x]

LEMMA FetchPartSteps ==
  ASSUME TypeOK, NEW g \in Runners, NEW l \in Lists, NEW last \in BOOLEAN, NEW got, NEW then,
         FetchPart(g, l, last, got, then), runner[g].job \in Jobs, runner[g].item \in Pulls
  PROVE  Fetched(g, l, last, got, then)
  <1> DEFINE r == runner[g]
  <1>1. Others(g) /\ SameRun(runner'[g], r)
    BY DEF FetchPart, Others, SameRun, TypeOK, Goroutine
  <1>2. LET s == runner'[g] IN
        /\ s.at = (IF last THEN then ELSE r.at)
        /\ s.kind = r.kind /\ s.page = r.page /\ s.next = r.next /\ s.batch = r.batch
        /\ s.item = r.item /\ s.version = r.version /\ s.done = r.done
        /\ s.part = (IF last THEN 1 ELSE r.part + 1) /\ s.got = r.got \cup got
    BY DEF FetchPart, TypeOK, Goroutine
  <1>3. \A j \in Jobs :
       /\ job'[j].status = job[j].status /\ job'[j].first = job[j].first
       /\ job'[j].mode = job[j].mode /\ job'[j].from = job[j].from /\ job'[j].page = job[j].page
       /\ job'[j].asked = job[j].asked
    BY DEF FetchPart, TypeOK, Row
  <1>4. \A j \in Jobs, m \in Lists, x \in Pulls :
            job'[j].part[m][x] = IF j = r.job /\ m = l /\ x = r.item
                                 THEN IF last THEN None ELSE r.part + 1 ELSE job[j].part[m][x]
    BY DEF FetchPart, TypeOK, Row
  <1>5. QED
    BY <1>1, <1>2, <1>3, <1>4 DEF Fetched

LEMMA UpsertBundleSteps ==
  ASSUME TypeOK, NEW g \in Runners, UpsertBundle(g)
  PROVE  LET r == runner[g]
             s == runner'[g] IN
         /\ Others(g) /\ SameRun(s, r)
         /\ r.at = "bundle" /\ s.at = "files" /\ s.kind = r.kind /\ s.page = r.page /\ s.next = r.next
         /\ s.batch = r.batch /\ s.item = r.item /\ s.version = r.version /\ s.done = r.done
         /\ s.part = Resume(JobOf(g).part["changed_files"][r.item]) /\ s.got = {}
         /\ stored' \in [Item -> Time]
         /\ \A x \in Item : stored'[x] = IF x = r.item THEN r.version
                               ELSE IF x \in Reviews(r.item) /\ x[3] \in r.got THEN updated[x]
                               ELSE stored[x]
  BY DEF UpsertBundle, Others, SameRun, TypeOK, Goroutine, At

LEMMA ReplaceFilesSteps ==
  ASSUME TypeOK, NEW g \in Runners, ReplaceFiles(g)
  PROVE  LET r == runner[g]
             s == runner'[g] IN
         /\ Others(g) /\ SameRun(s, r)
         /\ r.at = "replace" /\ s.at = "pull" /\ s.kind = r.kind /\ s.page = r.page /\ s.next = r.next
         /\ s.batch = r.batch /\ s.item = None /\ s.version = 0 /\ s.got = {} /\ s.part = r.part
         /\ s.done = r.done
         /\ \A x \in Pulls : files'[x] = IF x = r.item THEN r.got ELSE files[x]
  BY DEF ReplaceFiles, Others, SameRun, TypeOK, Goroutine, At

LEMMA SyncEventsSteps ==
  ASSUME TypeOK, NEW g \in Runners, SyncEvents(g)
  PROVE  LET r == runner[g]
             s == runner'[g] IN
         /\ Others(g) /\ SameRun(s, r)
         /\ r.at = "list" /\ s.at = "checkpoint" /\ r.kind # Pull /\ s.kind = r.kind /\ s.page = r.page
         /\ s.next = NextPage(r.kind, r.page)
         /\ s.batch = r.batch /\ s.item = r.item /\ s.version = r.version /\ s.part = r.part
         /\ s.got = r.got /\ s.done = r.done
         /\ stored' \in [Item -> Time]
         /\ \A x \in Item : stored'[x] = IF x \in Page(r.kind, r.page) /\ Include(x, r.cutoff)
                                         THEN updated[x] ELSE stored[x]
  BY DEF SyncEvents, Others, SameRun, TypeOK, Goroutine, At

LEMMA MoveCheckpointSteps ==
  ASSUME TypeOK, NEW g \in Runners, MoveCheckpoint(g), runner[g].job \in Jobs
  PROVE  LET r == runner[g]
             s == runner'[g] IN
         /\ Others(g) /\ SameRun(s, r)
         /\ r.at = "checkpoint"
         /\ s.batch = r.batch /\ s.item = r.item /\ s.version = r.version /\ s.part = r.part
         /\ s.got = r.got
         /\ \/ /\ r.next # 0 /\ s.at = "list" /\ s.kind = r.kind /\ s.page = r.next /\ s.next = 0
               /\ s.done = r.done
            \/ /\ r.next = 0 /\ r.kind < LastKind /\ s.at = "list" /\ s.kind = r.kind + 1
               /\ s.page = Resume(JobOf(g).page[r.kind + 1]) /\ s.next = r.next /\ s.done = r.done
            \/ /\ r.next = 0 /\ r.kind = LastKind /\ s.at = "complete" /\ s.done = now
               /\ s.kind = r.kind /\ s.page = r.page /\ s.next = r.next
         /\ \A j \in Jobs :
              /\ job'[j].status = job[j].status /\ job'[j].first = job[j].first
              /\ job'[j].mode = job[j].mode /\ job'[j].from = job[j].from
              /\ job'[j].part = job[j].part /\ job'[j].asked = job[j].asked
              /\ \A k \in Kinds :
                   job'[j].page[k] = IF j = r.job /\ k = r.kind
                                     THEN IF r.next = 0 THEN None ELSE r.next ELSE job[j].page[k]
  <1> DEFINE r == runner[g]
             s == runner'[g]
  <1>1. \/ /\ r.next # 0
           /\ runner' = [runner EXCEPT ![g].at = "list", ![g].page = r.next, ![g].next = 0]
        \/ /\ r.next = 0 /\ r.kind < LastKind
           /\ runner' = [runner EXCEPT
                ![g].at = "list", ![g].kind = r.kind + 1,
                ![g].page = Resume(JobOf(g).page[r.kind + 1])]
        \/ /\ r.next = 0 /\ r.kind = LastKind
           /\ runner' = [runner EXCEPT ![g].at = "complete", ![g].done = now]
    BY DEF MoveCheckpoint
  <1>2. Others(g) /\ SameRun(s, r)
    BY <1>1 DEF Others, SameRun, TypeOK, Goroutine
  <1>3. r.at = "checkpoint"
    BY DEF MoveCheckpoint, At
  <1>4. /\ s.batch = r.batch /\ s.item = r.item /\ s.version = r.version /\ s.part = r.part
        /\ s.got = r.got
    BY <1>1 DEF TypeOK, Goroutine
  <1>5. \/ /\ r.next # 0 /\ s.at = "list" /\ s.kind = r.kind /\ s.page = r.next /\ s.next = 0
           /\ s.done = r.done
        \/ /\ r.next = 0 /\ r.kind < LastKind /\ s.at = "list" /\ s.kind = r.kind + 1
           /\ s.page = Resume(JobOf(g).page[r.kind + 1]) /\ s.next = r.next /\ s.done = r.done
        \/ /\ r.next = 0 /\ r.kind = LastKind /\ s.at = "complete" /\ s.done = now
           /\ s.kind = r.kind /\ s.page = r.page /\ s.next = r.next
    BY <1>1 DEF TypeOK, Goroutine
  <1>6. \A j \in Jobs :
          /\ job'[j].status = job[j].status /\ job'[j].first = job[j].first
          /\ job'[j].mode = job[j].mode /\ job'[j].from = job[j].from
          /\ job'[j].part = job[j].part /\ job'[j].asked = job[j].asked
    BY DEF MoveCheckpoint, TypeOK, Row
  <1>7. \A j \in Jobs, k \in Kinds :
          job'[j].page[k] = IF j = r.job /\ k = r.kind
                            THEN IF r.next = 0 THEN None ELSE r.next ELSE job[j].page[k]
    BY DEF MoveCheckpoint, TypeOK, Row
  <1>8. QED
    BY <1>2, <1>3, <1>4, <1>5, <1>6, <1>7

\* A job that only changes its status.
OnlyStatus(j, status) ==
  \A i \in Jobs :
    /\ job'[i].status = IF i = j THEN status ELSE job[i].status
    /\ job'[i].first = job[i].first /\ job'[i].mode = job[i].mode /\ job'[i].from = job[i].from
    /\ job'[i].asked = job[i].asked /\ job'[i].page = job[i].page /\ job'[i].part = job[i].part

LEMMA CompleteSteps ==
  ASSUME TypeOK, NEW g \in Runners, Complete(g), runner[g].job \in Jobs
  PROVE  /\ Others(g) /\ runner'[g] = Free
         /\ OnlyStatus(runner[g].job, "completed")
  BY DEF Complete, Others, OnlyStatus, TypeOK, Row

LEMMA FailSteps ==
  ASSUME TypeOK, NEW g \in Runners, Fail(g), runner[g].job \in Jobs
  PROVE  /\ Others(g) /\ runner'[g] = Free
         /\ OnlyStatus(runner[g].job, "failed")
  BY DEF Fail, Others, OnlyStatus, TypeOK, Row

LEMMA RetrySteps ==
  ASSUME TypeOK, NEW j \in Jobs, Retry(j)
  PROVE  OnlyStatus(j, "pending") /\ job[j].status = "failed"
  BY DEF Retry, OnlyStatus, TypeOK, Row

LEMMA StartSteps ==
  ASSUME TypeOK, NEW g \in Runners, NEW j \in Jobs, Start(g, j)
  PROVE  LET s == runner'[g] IN
         /\ Others(g) /\ At(g, "free") /\ job[j].status = "pending"
         /\ s.at = "list" /\ s.job = j /\ s.cutoff = Cutoff(job[j]) /\ s.from = FromOf(job[j])
         /\ s.kind = Pull /\ s.page = Resume(job[j].page[Pull]) /\ s.next = 0 /\ s.batch = {}
         /\ s.item = None /\ s.version = 0 /\ s.part = 1 /\ s.got = {} /\ s.done = 0
         /\ \A i \in Jobs :
              /\ job'[i].status = IF i = j THEN "running" ELSE job[i].status
              /\ job'[i].first = IF i = j /\ job[i].first = 0 THEN now ELSE job[i].first
              /\ job'[i].mode = job[i].mode /\ job'[i].from = job[i].from
              /\ job'[i].asked = job[i].asked /\ job'[i].page = job[i].page /\ job'[i].part = job[i].part
  <1>1. Others(g) /\ At(g, "free") /\ job[j].status = "pending"
    BY DEF Start, Others, TypeOK
  <1>2. runner'[g] = [Free EXCEPT !.at = "list", !.job = j, !.cutoff = Cutoff(job[j]),
                        !.from = IF job[j].mode = "full" THEN None ELSE job[j].from,
                        !.page = Resume(job[j].page[Pull])]
    BY DEF Start, TypeOK
  <1>3. LET s == runner'[g] IN
         /\ s.at = "list" /\ s.job = j /\ s.cutoff = Cutoff(job[j]) /\ s.from = FromOf(job[j])
         /\ s.kind = Pull /\ s.page = Resume(job[j].page[Pull]) /\ s.next = 0 /\ s.batch = {}
         /\ s.item = None /\ s.version = 0 /\ s.part = 1 /\ s.got = {} /\ s.done = 0
    BY <1>2 DEF Free, FromOf
  <1>4. \A i \in Jobs :
              /\ job'[i].status = IF i = j THEN "running" ELSE job[i].status
              /\ job'[i].first = IF i = j /\ job[i].first = 0 THEN now ELSE job[i].first
              /\ job'[i].mode = job[i].mode /\ job'[i].from = job[i].from
              /\ job'[i].asked = job[i].asked /\ job'[i].page = job[i].page /\ job'[i].part = job[i].part
    BY DEF Start, TypeOK, Row
  <1>5. QED
    BY <1>1, <1>3, <1>4

-----------------------------------------------------------------------------
(* Type correctness.                                                         *)

Base == TypeOK /\ RunsInv /\ ClockInv /\ LinedUp /\ AtHand /\ PartsInv /\ FilesAtHand

LEMMA RowTypes ==
  ASSUME TypeOK, NEW j \in Jobs
  PROVE  /\ job[j].status \in {"absent", "pending", "running", "completed", "failed"}
         /\ job[j].asked \in Options /\ job[j].asked.mode \in {"full", "incremental"}
         /\ job[j].asked.from \in Froms \cup {None}
         /\ job[j].mode \in {"full", "incremental", None} /\ job[j].from \in Froms \cup {None}
         /\ job[j].first \in Time
         /\ \A k \in Kinds : job[j].page[k] \in PageNo \cup {None}
         /\ \A l \in Lists, x \in Pulls : job[j].part[l][x] \in Parts \cup {None}
  <1>1. job[j] \in Row
    BY DEF TypeOK
  <1>2. QED
    BY <1>1 DEF Row, Options

LEMMA ResumeTypes ==
  ASSUME NEW c \in PageNo \cup {None}
  PROVE  Resume(c) \in PageNo /\ (c \in Parts \cup {None} => Resume(c) \in Parts)
  BY Bounds, Nones DEF Resume, PageNo, Parts

LEMMA CutoffTypes ==
  ASSUME TypeOK, NEW j \in Jobs
  PROVE  /\ Cutoff(job[j]) \in Time /\ FromOf(job[j]) \in Froms \cup {None}
         /\ FromOf(job[j]) # None => Cutoff(job[j]) = FromOf(job[j]) /\ FromOf(job[j]) \in Int
         /\ FromOf(job[j]) = None => Cutoff(job[j]) = lastSynced \/ Cutoff(job[j]) = 0
  <1>0. PICK row : row = job[j]
    OBVIOUS
  <1>1. /\ row.mode \in {"full", "incremental", None} /\ row.from \in Froms \cup {None}
        /\ lastSynced \in Time /\ 0 \in Time /\ Froms \subseteq Time /\ Time \subseteq Int /\ None \notin Time
    BY <1>0, RowTypes, Bounds, Nones DEF TypeOK, Time
  <1>2. /\ Cutoff(row) = IF row.mode = "full" THEN 0 ELSE IF row.from # None THEN row.from ELSE lastSynced
        /\ FromOf(row) = IF row.mode = "full" THEN None ELSE row.from
    BY DEF Cutoff, FromOf
  <1>3. CASE row.mode = "full"
    BY <1>0, <1>1, <1>2, <1>3
  <1>4. CASE row.mode # "full" /\ row.from # None
    BY <1>0, <1>1, <1>2, <1>4
  <1>5. CASE row.mode # "full" /\ row.from = None
    BY <1>0, <1>1, <1>2, <1>5
  <1>6. QED
    BY <1>3, <1>4, <1>5

LEMMA FreeTypes == Free \in Goroutine
  BY Bounds DEF Free, Goroutine, Time, PageNo, Parts, Kinds, Pull

LEMMA AbsentRowTypes ==
  ASSUME NEW options \in Options
  PROVE  /\ [AbsentRow EXCEPT !.status = "pending", !.asked = options] \in Row
         /\ [AbsentRow EXCEPT !.status = "pending", !.mode = "full", !.asked = options] \in Row
  <1>1. AbsentRow \in Row
    BY Bounds DEF AbsentRow, Row, Time, Options
  <1>2. QED
    BY <1>1, Zenon DEF Row

LEMMA TypeInit == Init => TypeOK
  <1> SUFFICES ASSUME Init PROVE TypeOK
    OBVIOUS
  <1>1. AbsentRow \in Row
    BY Bounds DEF AbsentRow, Row, Time, Options
  <1>2. QED
    BY <1>1, FreeTypes, Bounds DEF Init, TypeOK, Time

LEMMA TypeGithub ==
  ASSUME TypeOK,
         \/ Tick \/ (\E x \in Listed : Change(x))
         \/ (\E x \in Items(Commits), date \in 1 .. now : PushCommit(x, date))
         \/ (\E y \in Review : SubmitReview(y))
  PROVE  TypeOK'
  <1>1. CASE Tick
    BY <1>1, Bounds DEF Tick, TypeOK, Time
  <1>2. ASSUME NEW x \in Listed, Change(x) PROVE TypeOK'
    <2>1. updated' \in [Item -> Time] /\ missed' \in SUBSET Item
      BY <1>2 DEF Change, TypeOK
    <2>2. QED
      BY <1>2, <2>1 DEF Change, TypeOK
  <1>3. ASSUME NEW x \in Items(Commits), NEW date \in 1 .. now, PushCommit(x, date) PROVE TypeOK'
    <2>1. date \in Time /\ x \in Item
      BY ItemShape, Bounds DEF TypeOK, Time
    <2>2. updated' \in [Item -> Time] /\ missed' \in SUBSET Item
      BY <1>3, <2>1 DEF PushCommit, TypeOK
    <2>3. QED
      BY <1>3, <2>2 DEF PushCommit, TypeOK
  <1>4. ASSUME NEW y \in Review, SubmitReview(y) PROVE TypeOK'
    <2>1. updated' \in [Item -> Time] /\ missed' \in SUBSET Item
      BY <1>4 DEF SubmitReview, TypeOK
    <2>2. QED
      BY <1>4, <2>1 DEF SubmitReview, TypeOK
  <1>5. QED
    BY <1>1, <1>2, <1>3, <1>4

\* What the steps make of a run and of a row.
OnPulls(r, next, batch) == [r EXCEPT !.at = "pull", !.next = next, !.batch = batch]
OnReviews(r, x, version, part) ==
  [r EXCEPT !.at = "reviews", !.item = x, !.version = version, !.batch = r.batch \ {x}, !.got = {}, !.part = part]
OnPart(r, at, part, got) == [r EXCEPT !.at = at, !.part = part, !.got = r.got \cup got]
OnFiles(r, part) == [r EXCEPT !.at = "files", !.got = {}, !.part = part]
OnNextPull(r) == [r EXCEPT !.at = "pull", !.item = None, !.version = 0, !.got = {}]
OnNextPage(r, next) == [r EXCEPT !.at = "list", !.page = next, !.next = 0]
OnNextKind(r, kind, page) == [r EXCEPT !.at = "list", !.kind = kind, !.page = page]
AtEnd(r, done) == [r EXCEPT !.at = "complete", !.done = done]
AtCheckpoint(r, next) == [r EXCEPT !.at = "checkpoint", !.next = next]
Begun(j, cutoff, from, page) ==
  [Free EXCEPT !.at = "list", !.job = j, !.cutoff = cutoff, !.from = from, !.page = page]

WithPart(row, l, x, p) == [row EXCEPT !.part[l][x] = p]
WithPage(row, k, p) == [row EXCEPT !.page[k] = p]
WithStatus(row, status) == [row EXCEPT !.status = status]
WithMode(row, mode) == [row EXCEPT !.mode = mode]
WithFrom(row, from) == [row EXCEPT !.from = from]
Running(row, first) == [row EXCEPT !.status = "running", !.first = first]

Ats == {"free", "list", "pull", "reviews", "bundle", "files", "replace", "checkpoint", "complete"}
Statuses == {"absent", "pending", "running", "completed", "failed"}

LEMMA RunUpdates ==
  ASSUME NEW r \in Goroutine
  PROVE  /\ \A next \in Nat, batch \in SUBSET Listed : OnPulls(r, next, batch) \in Goroutine
         /\ \A x \in Pulls, version \in Time, part \in Parts : OnReviews(r, x, version, part) \in Goroutine
         /\ \A at \in Ats, part \in Parts, got \in SUBSET Parts : OnPart(r, at, part, got) \in Goroutine
         /\ \A part \in Parts : OnFiles(r, part) \in Goroutine
         /\ OnNextPull(r) \in Goroutine
         /\ \A next \in PageNo : OnNextPage(r, next) \in Goroutine
         /\ \A kind \in Kinds, page \in PageNo : OnNextKind(r, kind, page) \in Goroutine
         /\ \A done \in Time : AtEnd(r, done) \in Goroutine
         /\ \A next \in Nat : AtCheckpoint(r, next) \in Goroutine
  <1>1. 0 \in Time /\ 0 \in Nat
    BY Bounds DEF Time
  <1>2. ASSUME NEW next \in Nat, NEW batch \in SUBSET Listed PROVE OnPulls(r, next, batch) \in Goroutine
    BY Zenon DEF Goroutine, OnPulls
  <1>3. ASSUME NEW x \in Pulls, NEW version \in Time, NEW part \in Parts
        PROVE  OnReviews(r, x, version, part) \in Goroutine
    <2>1. r.batch \ {x} \in SUBSET Listed
      BY DEF Goroutine
    <2>2. QED
      BY <2>1, Zenon DEF Goroutine, OnReviews
  <1>4. ASSUME NEW at \in Ats, NEW part \in Parts, NEW got \in SUBSET Parts
        PROVE  OnPart(r, at, part, got) \in Goroutine
    <2>1. r.got \cup got \in SUBSET Parts
      BY DEF Goroutine
    <2>2. QED
      BY <2>1, Zenon DEF Goroutine, OnPart, Ats
  <1>5. ASSUME NEW part \in Parts PROVE OnFiles(r, part) \in Goroutine
    BY Zenon DEF Goroutine, OnFiles
  <1>6. OnNextPull(r) \in Goroutine
    BY <1>1, Zenon DEF Goroutine, OnNextPull
  <1>7. ASSUME NEW next \in PageNo PROVE OnNextPage(r, next) \in Goroutine
    BY <1>1, Zenon DEF Goroutine, OnNextPage
  <1>8. ASSUME NEW kind \in Kinds, NEW page \in PageNo PROVE OnNextKind(r, kind, page) \in Goroutine
    BY Zenon DEF Goroutine, OnNextKind
  <1>9. ASSUME NEW done \in Time PROVE AtEnd(r, done) \in Goroutine
    BY Zenon DEF Goroutine, AtEnd
  <1>10. ASSUME NEW next \in Nat PROVE AtCheckpoint(r, next) \in Goroutine
    BY Zenon DEF Goroutine, AtCheckpoint
  <1>11. QED
    BY <1>2, <1>3, <1>4, <1>5, <1>6, <1>7, <1>8, <1>9, <1>10, Zenon

LEMMA BegunTypes ==
  ASSUME NEW j \in Jobs, NEW cutoff \in Time, NEW from \in Froms \cup {None}, NEW page \in PageNo
  PROVE  Begun(j, cutoff, from, page) \in Goroutine
  BY FreeTypes, Zenon DEF Goroutine, Begun

LEMMA RowUpdates ==
  ASSUME NEW row \in Row
  PROVE  /\ \A l \in Lists, x \in Pulls, p \in Parts \cup {None} : WithPart(row, l, x, p) \in Row
         /\ \A k \in Kinds, p \in PageNo \cup {None} : WithPage(row, k, p) \in Row
         /\ \A status \in Statuses : WithStatus(row, status) \in Row
         /\ \A mode \in {"full", "incremental", None} : WithMode(row, mode) \in Row
         /\ \A from \in Froms \cup {None} : WithFrom(row, from) \in Row
         /\ \A first \in Time : Running(row, first) \in Row
  <1>1. ASSUME NEW l \in Lists, NEW x \in Pulls, NEW p \in Parts \cup {None} PROVE WithPart(row, l, x, p) \in Row
    BY Zenon DEF Row, WithPart
  <1>2. ASSUME NEW k \in Kinds, NEW p \in PageNo \cup {None} PROVE WithPage(row, k, p) \in Row
    BY Zenon DEF Row, WithPage
  <1>3. ASSUME NEW status \in Statuses PROVE WithStatus(row, status) \in Row
    BY Zenon DEF Row, WithStatus, Statuses
  <1>4. ASSUME NEW mode \in {"full", "incremental", None} PROVE WithMode(row, mode) \in Row
    BY Zenon DEF Row, WithMode
  <1>5. ASSUME NEW from \in Froms \cup {None} PROVE WithFrom(row, from) \in Row
    BY Zenon DEF Row, WithFrom
  <1>6. ASSUME NEW first \in Time PROVE Running(row, first) \in Row
    BY Zenon DEF Row, Running
  <1>7. QED
    BY <1>1, <1>2, <1>3, <1>4, <1>5, <1>6, Zenon

\* A step leaves the runs and the rows well typed when what it sets is.
LEMMA RunnerTyped ==
  ASSUME TypeOK, NEW g \in Runners, NEW s \in Goroutine, runner' = [runner EXCEPT ![g] = s]
  PROVE  runner' \in [Runners -> Goroutine]
  BY DEF TypeOK

LEMMA JobTyped ==
  ASSUME TypeOK, NEW j \in Jobs, NEW row \in Row, job' = [job EXCEPT ![j] = row]
  PROVE  job' \in [Jobs -> Row]
  BY DEF TypeOK

LEMMA Typed ==
  ASSUME TypeOK
  PROVE  /\ \A g \in Runners : runner[g] \in Goroutine
         /\ \A j \in Jobs : job[j] \in Row
  BY DEF TypeOK

LEMMA TypeRequests ==
  ASSUME TypeOK, NEW j \in Jobs,
         \/ (\E options \in Requests : Enqueue(j, options))
         \/ PersistMode(j) \/ PersistFrom(j) \/ EnqueueWebhookSync(j) \/ Retry(j)
  PROVE  TypeOK'
  <1>1. ASSUME NEW options \in Requests, Enqueue(j, options) PROVE TypeOK'
    <2>1. options \in Options
      BY RequestsAssumption
    <2>2. job' \in [Jobs -> Row]
      BY <1>1, <2>1, AbsentRowTypes DEF Enqueue, TypeOK
    <2>3. QED
      BY <1>1, <2>2 DEF Enqueue, TypeOK
  <1>2. CASE PersistMode(j)
    <2>1. job' \in [Jobs -> Row]
      <3>1. job' = [job EXCEPT ![j] = WithMode(job[j], job[j].asked.mode)]
        BY <1>2, Zenon DEF PersistMode, WithMode, TypeOK
      <3>2. job[j].asked.mode \in {"full", "incremental", None}
        BY RowTypes
      <3>3. QED
        BY <3>1, <3>2, Typed, RowUpdates, JobTyped
    <2>2. QED
      BY <1>2, <2>1 DEF PersistMode, TypeOK
  <1>3. CASE PersistFrom(j)
    <2>1. job' \in [Jobs -> Row]
      <3>1. job' = [job EXCEPT ![j] = WithFrom(job[j], job[j].asked.from)]
        BY <1>3, Zenon DEF PersistFrom, WithFrom, TypeOK
      <3>2. QED
        BY <3>1, RowTypes, Typed, RowUpdates, JobTyped
    <2>2. QED
      BY <1>3, <2>1 DEF PersistFrom, TypeOK
  <1>4. CASE EnqueueWebhookSync(j)
    <2>1. [mode |-> "full", from |-> None] \in Options
      BY DEF Options
    <2>2. job' \in [Jobs -> Row]
      BY <1>4, <2>1, AbsentRowTypes DEF EnqueueWebhookSync, TypeOK
    <2>3. QED
      BY <1>4, <2>2 DEF EnqueueWebhookSync, TypeOK
  <1>5. CASE Retry(j)
    <2>1. job' \in [Jobs -> Row]
      <3>1. job' = [job EXCEPT ![j] = WithStatus(job[j], "pending")]
        BY <1>5, Zenon DEF Retry, WithStatus, TypeOK
      <3>2. QED
        BY <3>1, Typed, RowUpdates, JobTyped DEF Statuses
    <2>2. QED
      BY <1>5, <2>1 DEF Retry, TypeOK
  <1>6. QED
    BY <1>1, <1>2, <1>3, <1>4, <1>5

LEMMA RunnerTypes ==
  ASSUME TypeOK, NEW g \in Runners
  PROVE  /\ runner[g].at \in {"free", "list", "pull", "reviews", "bundle", "files", "replace",
                              "checkpoint", "complete"}
         /\ runner[g].job \in Jobs \cup {None} /\ runner[g].cutoff \in Time
         /\ runner[g].from \in Froms \cup {None}
         /\ runner[g].kind \in Kinds /\ runner[g].page \in PageNo /\ runner[g].next \in Nat
         /\ runner[g].batch \in SUBSET Listed /\ runner[g].item \in Pulls \cup {None}
         /\ runner[g].version \in Time /\ runner[g].part \in Parts
         /\ runner[g].got \in SUBSET Parts /\ runner[g].done \in Time
  <1>1. runner[g] \in Goroutine
    BY DEF TypeOK
  <1>2. QED
    BY <1>1 DEF Goroutine

LEMMA TypeStart ==
  ASSUME TypeOK, NEW g \in Runners, NEW j \in Jobs, Start(g, j)
  PROVE  TypeOK'
  <1>1. Cutoff(job[j]) \in Time /\ FromOf(job[j]) \in Froms \cup {None}
    BY CutoffTypes
  <1>2. Resume(job[j].page[Pull]) \in PageNo
    BY RowTypes, ResumeTypes, Bounds
  <1>3. runner' = [runner EXCEPT ![g] =
                     Begun(j, Cutoff(job[j]), FromOf(job[j]), Resume(job[j].page[Pull]))]
    BY Zenon DEF Start, FromOf, Begun
  <1>4. runner' \in [Runners -> Goroutine]
    BY <1>1, <1>2, <1>3, BegunTypes, RunnerTyped
  <1>5. job' = [job EXCEPT ![j] = Running(job[j], IF job[j].first = 0 THEN now ELSE job[j].first)]
    BY Zenon DEF Start, Running, TypeOK
  <1>6. job' \in [Jobs -> Row]
    BY <1>5, Typed, RowTypes, RowUpdates, JobTyped DEF TypeOK
  <1>7. QED
    BY <1>4, <1>6 DEF Start, TypeOK

LEMMA PageItems ==
  ASSUME NEW k \in Kinds, NEW p
  PROVE  Page(k, p) \subseteq Items(k) /\ Page(k, p) \subseteq Listed /\ Page(Pull, p) \subseteq Pulls
  BY ItemShape, Bounds DEF Page, Pulls

LEMMA TypePages ==
  ASSUME Base, NEW g \in Runners,
         ListPulls(g) \/ GetPull(g) \/ EndPulls(g) \/ SyncEvents(g) \/ MoveCheckpoint(g)
  PROVE  TypeOK'
  <1> DEFINE r == runner[g]
  <1>0. TypeOK /\ AtHand /\ RunsInv
    BY DEF Base
  <1>1. CASE ListPulls(g)
    <2>1. {x \in Page(Pull, r.page) : Include(x, r.cutoff)} \in SUBSET Listed
      BY PageItems, Bounds
    <2>2. NextPage(Pull, r.page) \in Nat
      BY <1>0, RunnerTypes, NextPageShape, Bounds
    <2>3. runner' \in [Runners -> Goroutine]
      <3>1. runner' = [runner EXCEPT ![g] = OnPulls(r, NextPage(Pull, r.page),
                         {x \in Page(Pull, r.page) : Include(x, r.cutoff)})]
        BY <1>0, <1>1, Zenon DEF ListPulls, OnPulls, TypeOK
      <3>2. QED
        BY <3>1, <2>1, <2>2, <1>0, Typed, RunUpdates, RunnerTyped
    <2>4. QED
      BY <1>0, <1>1, <2>3 DEF ListPulls, TypeOK
  <1>2. CASE GetPull(g)
    <2>1. r.batch \subseteq Pulls /\ r.batch # {}
      BY <1>0, <1>2 DEF GetPull, AtHand, HandOf, At
    <2>2. Newest(r.batch) \in Pulls /\ Newest(r.batch) \in Item
      BY <2>1, NewestShape, PullShape
    <2>3. JobOf(g).part["reviews"][Newest(r.batch)] \in Parts \cup {None}
      <3>1. r.job \in Jobs
        BY <1>0, <1>2 DEF GetPull, RunsInv, Busy, At
      <3>2. QED
        BY <3>1, <2>2, <1>0, RowTypes DEF JobOf, Lists
    <2>4. Resume(JobOf(g).part["reviews"][Newest(r.batch)]) \in Parts
      BY <2>3, Bounds, Nones DEF Resume, Parts
    <2>5. updated[Newest(r.batch)] \in Time
      BY <2>2, <1>0 DEF TypeOK
    <2>6. runner' \in [Runners -> Goroutine]
      <3>1. runner' = [runner EXCEPT ![g] = OnReviews(r, Newest(r.batch), updated[Newest(r.batch)],
                         Resume(JobOf(g).part["reviews"][Newest(r.batch)]))]
        BY <1>0, <1>2, Zenon DEF GetPull, OnReviews, TypeOK
      <3>2. QED
        BY <3>1, <2>2, <2>4, <2>5, <1>0, Typed, RunUpdates, RunnerTyped
    <2>7. QED
      BY <1>0, <1>2, <2>6 DEF GetPull, TypeOK
  <1>3. CASE EndPulls(g)
    <2>1. runner' \in [Runners -> Goroutine]
      BY <1>0, <1>3 DEF EndPulls, TypeOK, Goroutine
    <2>2. QED
      BY <1>0, <1>3, <2>1 DEF EndPulls, TypeOK
  <1>4. CASE SyncEvents(g)
    <2>1. NextPage(r.kind, r.page) \in Nat
      BY <1>0, RunnerTypes, NextPageShape
    <2>2. runner' \in [Runners -> Goroutine]
      <3>1. runner' = [runner EXCEPT ![g] = AtCheckpoint(r, NextPage(r.kind, r.page))]
        BY <1>0, <1>4, Zenon DEF SyncEvents, AtCheckpoint, TypeOK
      <3>2. QED
        BY <3>1, <2>1, <1>0, Typed, RunUpdates, RunnerTyped
    <2>3. QED
      BY <1>0, <1>4, <2>2, SyncEventsSteps DEF SyncEvents, TypeOK
  <1>5. CASE MoveCheckpoint(g)
    <2>1. r.job \in Jobs /\ r.kind \in Kinds /\ r.next \in Nat
      BY <1>0, <1>5, RunnerTypes DEF MoveCheckpoint, RunsInv, Busy, At
    <2>2. (IF r.next = 0 THEN None ELSE r.next) \in PageNo \cup {None}
      BY <2>1 DEF PageNo
    <2>3. job' \in [Jobs -> Row]
      <3>1. job' = [job EXCEPT ![r.job] =
                      WithPage(job[r.job], r.kind, IF r.next = 0 THEN None ELSE r.next)]
        BY <1>0, <1>5, Zenon DEF MoveCheckpoint, WithPage, TypeOK
      <3>2. QED
        BY <3>1, <2>1, <2>2, <1>0, Typed, RowUpdates, JobTyped
    <2>4. CASE r.next # 0 /\ runner' = [runner EXCEPT ![g].at = "list", ![g].page = r.next, ![g].next = 0]
      <3>1. r.next \in PageNo
        BY <2>1, <2>4 DEF PageNo
      <3>2. runner' \in [Runners -> Goroutine]
        <4>1. runner' = [runner EXCEPT ![g] = OnNextPage(r, r.next)]
          BY <2>4, <1>0, Zenon DEF OnNextPage, TypeOK
        <4>2. QED
          BY <4>1, <3>1, <1>0, Typed, RunUpdates, RunnerTyped
      <3>3. QED
        BY <3>2, <2>3, <1>0, <1>5 DEF MoveCheckpoint, TypeOK
    <2>5. CASE r.kind < LastKind /\ runner' = [runner EXCEPT
                ![g].at = "list", ![g].kind = r.kind + 1,
                ![g].page = Resume(JobOf(g).page[r.kind + 1])]
      <3>1. r.kind + 1 \in Kinds
        BY <2>1, <2>5 DEF Kinds, LastKind
      <3>2. Resume(JobOf(g).page[r.kind + 1]) \in PageNo
        BY <3>1, <2>1, <1>0, RowTypes, ResumeTypes DEF JobOf
      <3>3. runner' = [runner EXCEPT ![g] = OnNextKind(r, r.kind + 1, Resume(JobOf(g).page[r.kind + 1]))]
        BY <2>5, <1>0, Zenon DEF OnNextKind, TypeOK
      <3>4. runner' \in [Runners -> Goroutine]
        BY <3>1, <3>2, <3>3, <1>0, Typed, RunUpdates, RunnerTyped
      <3>5. QED
        BY <3>4, <2>3, <1>0, <1>5 DEF MoveCheckpoint, TypeOK
    <2>6. CASE runner' = [runner EXCEPT ![g].at = "complete", ![g].done = now]
      <3>1. runner' \in [Runners -> Goroutine]
        <4>1. runner' = [runner EXCEPT ![g] = AtEnd(r, now)]
          BY <2>6, <1>0, Zenon DEF AtEnd, TypeOK
        <4>2. now \in Time
          BY <1>0 DEF TypeOK
        <4>3. QED
          BY <4>1, <4>2, <1>0, Typed, RunUpdates, RunnerTyped
      <3>2. QED
        BY <3>1, <2>3, <1>0, <1>5 DEF MoveCheckpoint, TypeOK
    <2>7. QED
      BY <1>5, <2>4, <2>5, <2>6 DEF MoveCheckpoint
  <1>6. QED
    BY <1>1, <1>2, <1>3, <1>4, <1>5

LEMMA TypeParts ==
  ASSUME Base, NEW g \in Runners,
         FetchReview(g) \/ UpsertBundle(g) \/ FetchFiles(g) \/ ReplaceFiles(g)
  PROVE  TypeOK'
  <1> DEFINE r == runner[g]
  <1>0. TypeOK /\ AtHand /\ RunsInv /\ FilesAtHand
    BY DEF Base
  <1>1. r.item \in Pulls /\ r.job \in Jobs /\ r.part \in Parts /\ r.got \in SUBSET Parts
    BY <1>0, RunnerTypes DEF AtHand, HandOf, RunsInv, Busy, At, FetchReview, UpsertBundle, FetchFiles, ReplaceFiles
  <1>2. ASSUME NEW l \in Lists, NEW last \in BOOLEAN, NEW got \in SUBSET Parts, NEW then,
               then \in {"bundle", "replace"},
               FetchPart(g, l, last, got, then), last \/ r.part + 1 \in Parts
        PROVE  TypeOK'
    <2>1. /\ (IF last THEN None ELSE r.part + 1) \in Parts \cup {None}
          /\ (IF last THEN 1 ELSE r.part + 1) \in Parts /\ (IF last THEN then ELSE r.at) \in Ats
      BY <1>0, <1>2, Bounds, RunnerTypes DEF Parts, Ats
    <2>2. job' = [job EXCEPT ![r.job] = WithPart(job[r.job], l, r.item, IF last THEN None ELSE r.part + 1)]
      BY <1>0, <1>2, Zenon DEF FetchPart, WithPart, TypeOK
    <2>3. runner' = [runner EXCEPT ![g] = OnPart(r, IF last THEN then ELSE r.at, IF last THEN 1 ELSE r.part + 1, got)]
      BY <1>0, <1>2, Zenon DEF FetchPart, OnPart, TypeOK
    <2>4. job' \in [Jobs -> Row]
      BY <2>1, <2>2, <1>0, <1>1, Typed, RowUpdates, JobTyped
    <2>5. runner' \in [Runners -> Goroutine]
      BY <2>1, <2>3, <1>0, <1>2, Typed, RunUpdates, RunnerTyped
    <2>6. QED
      BY <2>4, <2>5, <1>0, <1>2 DEF FetchPart, TypeOK
  <1>3. CASE FetchReview(g)
    <2> DEFINE y == <<Pull, r.item[2], r.part>>
               count == Cardinality({z \in Reviews(r.item) : Exists(z)})
               got == IF r.part <= count /\ Include(y, r.cutoff) THEN {r.part} ELSE {}
    <2>1. FetchPart(g, "reviews", r.part >= count, got, "bundle")
      BY <1>3 DEF FetchReview
    <2>2. count \in 0 .. MaxReview
      BY <1>1, SubmittedFinite DEF Submitted
    <2>3. got \in SUBSET Parts
      BY <1>1
    <2>4. r.part >= count \/ r.part + 1 \in Parts
      BY <1>1, <2>2, Bounds DEF Parts
    <2>5. (r.part >= count) \in BOOLEAN
      OBVIOUS
    <2> HIDE DEF got, count
    <2>6. QED
      BY <2>1, <2>3, <2>4, <2>5, <1>2 DEF Lists
  <1>4. CASE FetchFiles(g)
    <2>1. FetchPart(g, "changed_files", r.part = FilePages, {r.part}, "replace")
      BY <1>4 DEF FetchFiles
    <2>2. r.part = FilePages \/ r.part + 1 \in Parts
      BY <1>0, <1>4, Bounds DEF FilesAtHand, FilesOf, At, FetchFiles, AllFiles, Parts
    <2>3. QED
      BY <2>1, <2>2, <1>1, <1>2 DEF Lists
  <1>5. CASE UpsertBundle(g)
    <2> DEFINE p == Resume(JobOf(g).part["changed_files"][r.item])
    <2>1. p \in Parts
      <3>1. JobOf(g).part["changed_files"][r.item] \in Parts \cup {None}
        BY <1>0, <1>1, RowTypes DEF JobOf, Lists
      <3>2. QED
        BY <3>1, Bounds, Nones DEF Resume, Parts
    <2>2. runner' = [runner EXCEPT ![g] = OnFiles(r, p)]
      BY <1>0, <1>5, Zenon DEF UpsertBundle, OnFiles, TypeOK
    <2> HIDE DEF p
    <2>3. runner' \in [Runners -> Goroutine]
      BY <2>1, <2>2, <1>0, Typed, RunUpdates, RunnerTyped
    <2>4. QED
      BY <2>3, <1>0, <1>5, UpsertBundleSteps DEF UpsertBundle, TypeOK
  <1>6. CASE ReplaceFiles(g)
    <2>1. r.got \in SUBSET AllFiles
      BY <1>0, <1>6 DEF FilesAtHand, FilesOf, At, ReplaceFiles
    <2>2. files' \in [Pulls -> SUBSET AllFiles]
      BY <2>1, <1>0, <1>1, <1>6 DEF ReplaceFiles, TypeOK
    <2>3. runner' \in [Runners -> Goroutine]
      <3>1. runner' = [runner EXCEPT ![g] = OnNextPull(r)]
        BY <1>0, <1>6, Zenon DEF ReplaceFiles, OnNextPull, TypeOK
      <3>2. QED
        BY <3>1, <1>0, Typed, RunUpdates, RunnerTyped
    <2>4. QED
      BY <2>2, <2>3, <1>0, <1>6 DEF ReplaceFiles, TypeOK
  <1>7. QED
    BY <1>3, <1>4, <1>5, <1>6

LEMMA TypeEnds ==
  ASSUME Base, NEW g \in Runners, Complete(g) \/ Fail(g)
  PROVE  TypeOK'
  <1> DEFINE r == runner[g]
  <1>0. TypeOK /\ AtHand /\ RunsInv
    BY DEF Base
  <1>1. r.job \in Jobs /\ r.done \in Time
    BY <1>0, RunnerTypes DEF RunsInv, Busy, At, Complete, Fail
  <1>2. runner' \in [Runners -> Goroutine]
    BY <1>0, FreeTypes DEF Complete, Fail, TypeOK
  <1>3. job' \in [Jobs -> Row]
    <2>1. \E status \in {"completed", "failed"} : job' = [job EXCEPT ![r.job] = WithStatus(job[r.job], status)]
      BY <1>0, Zenon DEF Complete, Fail, WithStatus, TypeOK
    <2>2. QED
      BY <2>1, <1>0, <1>1, Typed, RowUpdates, JobTyped DEF Statuses
  <1>4. CASE Complete(g)
    <2>1. missed' \in SUBSET Item
      BY <1>0, <1>4 DEF Complete, TypeOK, Unseen
    <2>2. QED
      BY <1>0, <1>1, <1>2, <1>3, <1>4, <2>1 DEF Complete, TypeOK
  <1>5. CASE Fail(g)
    <2>1. cut' \in SUBSET (Lists \X Pulls)
      <3>1. \A l \in Lists : At(g, Fetching[l]) => r.item \in Pulls
        BY <1>0 DEF AtHand, HandOf, At, Fetching, Lists
      <3>2. cut' = cut \cup {<<l, r.item>> : l \in {m \in Lists : r.part > 1 /\ At(g, Fetching[m])}}
        BY <1>5 DEF Fail
      <3>3. QED
        BY <3>1, <3>2, <1>0 DEF TypeOK
    <2>2. fails' \in 0 .. MaxFails
      BY <1>0, <1>5, Bounds DEF Fail, TypeOK
    <2>3. QED
      BY <1>0, <1>2, <1>3, <1>5, <2>1, <2>2 DEF Fail, TypeOK
  <1>6. QED
    BY <1>4, <1>5

-----------------------------------------------------------------------------
(* Steps of GitHub and of requests.                                          *)

GithubStep ==
  \/ Tick \/ (\E x \in Listed : Change(x))
  \/ (\E x \in Items(Commits), date \in 1 .. now : PushCommit(x, date))
  \/ (\E y \in Review : SubmitReview(y))

\* A change is of now, or of a commit that is missed; nothing else of an item changes.
GithubMoves ==
  /\ now \in Int /\ now' \in Int /\ now <= now'
  /\ UNCHANGED <<job, lastSynced, stored, files, runner, cut, fails>>
  /\ \A x \in Item :
       /\ Exists(x) => Exists(x)'
       /\ \/ updated'[x] = updated[x] /\ (x \in missed => x \in missed')
          \/ updated'[x] = now
          \/ updated'[x] <= now /\ x \in missed' /\ x \notin Pulls /\ x \notin Review

LEMMA GithubSteps ==
  ASSUME TypeOK, GithubStep
  PROVE  GithubMoves
  <1>0. now \in Int /\ now # 0 /\ (\A x \in Item : updated[x] \in Int) /\ updated \in [Item -> Time]
    BY DEF TypeOK, Time
  <1>1. CASE Tick
    BY <1>0, <1>1 DEF Tick, GithubMoves, Exists
  <1>2. ASSUME NEW x \in Listed, Change(x) PROVE GithubMoves
    <2>1. x \in Item
      BY ListedShape
    <2>2. \A y \in Item : updated'[y] = IF y = x THEN now ELSE updated[y]
      BY <1>0, <1>2, <2>1 DEF Change
    <2>3. UNCHANGED <<now, job, lastSynced, stored, files, runner, cut, fails>> /\ missed' = missed \ {x}
      BY <1>2 DEF Change
    <2>4. QED
      BY <1>0, <2>2, <2>3 DEF GithubMoves, Exists
  <1>3. ASSUME NEW x \in Items(Commits), NEW date \in 1 .. now, PushCommit(x, date) PROVE GithubMoves
    <2>1. x \in Item /\ x \notin Pulls /\ x \notin Review
      <3>1. x \in Listed /\ x[1] = Commits
        BY ItemShape, Bounds
      <3>2. QED
        BY <3>1, ListedShape, PullShape, ReviewOfPull DEF Commits, Pull
    <2>2. \A y \in Item : updated'[y] = IF y = x THEN date ELSE updated[y]
      BY <1>0, <1>3, <2>1 DEF PushCommit
    <2>3. /\ UNCHANGED <<now, job, lastSynced, stored, files, runner, cut, fails>>
          /\ missed' = IF date < now THEN missed \cup {x} ELSE missed
      BY <1>3 DEF PushCommit
    <2>4. date \in Int /\ date <= now /\ date # 0
      BY <1>0
    <2>5. QED
      BY <1>0, <2>1, <2>2, <2>3, <2>4 DEF GithubMoves, Exists
  <1>4. ASSUME NEW y \in Review, SubmitReview(y) PROVE GithubMoves
    <2>1. y \in Item /\ PullOf(y) \in Item
      BY ReviewOfPull, PullShape
    <2>2. \A z \in Item : updated'[z] = IF z = y \/ z = PullOf(y) THEN now ELSE updated[z]
      BY <1>0, <1>4, <2>1 DEF SubmitReview
    <2>3. /\ UNCHANGED <<now, job, lastSynced, stored, files, runner, cut, fails>>
          /\ missed' = missed \ {y, PullOf(y)}
      BY <1>4 DEF SubmitReview
    <2>4. QED
      BY <1>0, <2>1, <2>2, <2>3 DEF GithubMoves, Exists
  <1>5. QED
    BY <1>1, <1>2, <1>3, <1>4 DEF GithubStep

LEMMA LinedUpGithub ==
  ASSUME TypeOK, ClockInv, LinedUp, GithubStep
  PROVE  LinedUp'
  <1>0. now \in Int /\ now # 0 /\ (\A x \in Item : updated[x] \in Int /\ updated[x] <= now) /\ updated \in [Item -> Time]
    BY DEF TypeOK, Time, ClockInv
  <1>1. CASE Tick
    BY <1>1 DEF Tick, LinedUp, Exists
  <1>2. ASSUME NEW x \in Listed, Change(x) PROVE LinedUp'
    <2>1. x \in Items(x[1]) /\ x[1] \in Kinds /\ x \in Item /\ x \notin Review
      BY ListedShape, ReviewOfPull
    <2>2. \A y \in Item : updated'[y] = IF y = x THEN now ELSE updated[y]
      BY <1>0, <1>2, <2>1 DEF Change
    <2>3. \A y \in Items(x[1]) : y[2] < x[2] => Exists(y)
      BY <1>2 DEF Change
    <2>4. ASSUME NEW k \in Kinds, NEW a \in Items(k), NEW b \in Items(k), Exists(a)', b[2] < a[2]
          PROVE  Exists(b)'
      <3>1. a \in Item /\ b \in Item /\ a[1] = k
        BY ItemShape
      <3>2. CASE a = x
        BY <3>1, <3>2, <2>2, <2>3, <2>4, <1>0 DEF Exists
      <3>3. CASE a # x
        BY <3>1, <3>3, <2>2, <2>4, <1>0 DEF Exists, LinedUp
      <3>4. QED
        BY <3>2, <3>3
    <2>5. ASSUME NEW p \in Pulls, NEW a \in Reviews(p), NEW b \in Reviews(p), Exists(a)', b[3] < a[3]
          PROVE  Exists(b)'
      <3>1. a \in Item /\ b \in Item /\ a # x /\ b # x
        BY ReviewShape, <2>1
      <3>2. QED
        BY <3>1, <2>2, <2>5 DEF Exists, LinedUp
    <2>6. ASSUME NEW y \in Review PROVE updated'[y] <= updated'[PullOf(y)]
      <3>1. y \in Item /\ PullOf(y) \in Item /\ y # x
        BY ReviewOfPull, PullShape, <2>1
      <3>2. QED
        BY <3>1, <2>2, <1>0 DEF LinedUp
    <2>7. QED
      BY <2>4, <2>5, <2>6 DEF LinedUp
  <1>3. ASSUME NEW x \in Items(Commits), NEW date \in 1 .. now, PushCommit(x, date) PROVE LinedUp'
    <2>1. x[1] = Commits /\ Commits \in Kinds /\ x \in Item /\ x \in Listed /\ x \notin Review /\ x \notin Pulls
      BY ItemShape, ReviewOfPull, PullShape, Bounds DEF Commits, Pull
    <2>2. \A y \in Item : updated'[y] = IF y = x THEN date ELSE updated[y]
      BY <1>0, <1>3, <2>1 DEF PushCommit
    <2>3. \A y \in Items(Commits) : y[2] < x[2] => Exists(y)
      BY <1>3 DEF PushCommit
    <2>4. ASSUME NEW k \in Kinds, NEW a \in Items(k), NEW b \in Items(k), Exists(a)', b[2] < a[2]
          PROVE  Exists(b)'
      <3>1. a \in Item /\ b \in Item /\ a[1] = k /\ date # 0
        BY ItemShape, <1>0
      <3>2. CASE a = x
        BY <3>1, <3>2, <2>1, <2>2, <2>3, <2>4, <1>0 DEF Exists
      <3>3. CASE a # x
        BY <3>1, <3>3, <2>2, <2>4, <1>0 DEF Exists, LinedUp
      <3>4. QED
        BY <3>2, <3>3
    <2>5. ASSUME NEW p \in Pulls, NEW a \in Reviews(p), NEW b \in Reviews(p), Exists(a)', b[3] < a[3]
          PROVE  Exists(b)'
      <3>1. a \in Item /\ b \in Item /\ a # x /\ b # x
        BY ReviewShape, <2>1
      <3>2. QED
        BY <3>1, <2>2, <2>5 DEF Exists, LinedUp
    <2>6. ASSUME NEW y \in Review PROVE updated'[y] <= updated'[PullOf(y)]
      <3>1. y \in Item /\ PullOf(y) \in Item /\ y # x /\ PullOf(y) # x
        BY ReviewOfPull, PullShape, <2>1
      <3>2. QED
        BY <3>1, <2>2, <1>0 DEF LinedUp
    <2>7. QED
      BY <2>4, <2>5, <2>6 DEF LinedUp
  <1>4. ASSUME NEW x \in Review, SubmitReview(x) PROVE LinedUp'
    <2>1. x \in Item /\ PullOf(x) \in Item /\ PullOf(x) \in Pulls /\ x \in Reviews(PullOf(x)) /\ x \notin Listed
          /\ PullOf(x) \in Listed /\ PullOf(x) \notin Review
      BY ReviewOfPull, PullShape
    <2>2. \A z \in Item : updated'[z] = IF z = x \/ z = PullOf(x) THEN now ELSE updated[z]
      BY <1>0, <1>4, <2>1 DEF SubmitReview
    <2>3. Exists(PullOf(x)) /\ \A z \in Reviews(x) : z[3] < x[3] => Exists(z)
      BY <1>4 DEF SubmitReview
    <2>4. ASSUME NEW k \in Kinds, NEW a \in Items(k), NEW b \in Items(k), Exists(a)', b[2] < a[2]
          PROVE  Exists(b)'
      <3>1. a \in Item /\ b \in Item /\ a # x /\ b # x
        BY ItemShape, <2>1
      <3>2. QED
        BY <3>1, <2>2, <2>3, <2>4, <1>0 DEF Exists, LinedUp
    <2>5. ASSUME NEW p \in Pulls, NEW a \in Reviews(p), NEW b \in Reviews(p), Exists(a)', b[3] < a[3]
          PROVE  Exists(b)'
      <3>1. a \in Item /\ b \in Item /\ a # PullOf(x) /\ b # PullOf(x) /\ PullOf(a) = p /\ PullOf(b) = p
        BY ReviewShape, <2>1
      <3>2. CASE a = x
        <4>1. b \in Reviews(x)
          BY <3>2, ReviewShape DEF Reviews
        <4>2. QED
          BY <4>1, <3>1, <3>2, <2>2, <2>3, <2>5, <1>0 DEF Exists
      <3>3. CASE a # x
        BY <3>1, <3>3, <2>2, <2>5, <1>0 DEF Exists, LinedUp
      <3>4. QED
        BY <3>2, <3>3
    <2>6. ASSUME NEW y \in Review PROVE updated'[y] <= updated'[PullOf(y)]
      <3>1. y \in Item /\ PullOf(y) \in Item /\ y # PullOf(x) /\ PullOf(y) # x
        BY ReviewOfPull, PullShape, <2>1
      <3>2. CASE PullOf(y) = PullOf(x)
        BY <3>1, <3>2, <2>1, <2>2, <1>0
      <3>3. CASE PullOf(y) # PullOf(x)
        BY <3>1, <3>3, <2>2, <1>0 DEF LinedUp
      <3>4. QED
        BY <3>2, <3>3
    <2>7. QED
      BY <2>4, <2>5, <2>6 DEF LinedUp
  <1>5. QED
    BY <1>1, <1>2, <1>3, <1>4 DEF GithubStep

RequestStep(j) ==
  \/ \E options \in Requests : Enqueue(j, options)
  \/ PersistMode(j) \/ PersistFrom(j) \/ EnqueueWebhookSync(j) \/ Retry(j)

\* A request makes a row, or sets an option that was not there, or makes a failed job
\* wait again.
RequestMoves(j) ==
  /\ UNCHANGED <<now, updated, lastSynced, stored, files, runner, missed, cut, fails>>
  /\ \A i \in Jobs : i # j => job'[i] = job[i]
  /\ job'[j].status # "absent" /\ (job'[j].mode = None => job'[j].from = None)
  /\ \/ /\ job[j].status = "absent" /\ job'[j].status = "pending" /\ job'[j].first = 0
        /\ \A k \in Kinds : job'[j].page[k] = None
        /\ \A l \in Lists, x \in Pulls : job'[j].part[l][x] = None
     \/ /\ \/ job'[j].status = job[j].status /\ job[j].status # "absent"
           \/ job[j].status = "failed" /\ job'[j].status = "pending"
        /\ job'[j].first = job[j].first /\ job'[j].page = job[j].page /\ job'[j].part = job[j].part
        /\ FromOf(job'[j]) = FromOf(job[j]) \/ FromOf(job[j]) = None

LEMMA RequestSteps ==
  ASSUME TypeOK, RunsInv, NEW j \in Jobs, RequestStep(j)
  PROVE  RequestMoves(j)
  <1>1. ASSUME NEW options \in Requests, Enqueue(j, options) PROVE RequestMoves(j)
    <2>1. job'[j] = [AbsentRow EXCEPT !.status = "pending", !.asked = options] /\ job[j].status = "absent"
      BY <1>1 DEF Enqueue, TypeOK
    <2>2. /\ job'[j].status = "pending" /\ job'[j].first = 0
          /\ job'[j].mode = None => job'[j].from = None
          /\ \A k \in Kinds : job'[j].page[k] = None
          /\ \A l \in Lists, x \in Pulls : job'[j].part[l][x] = None
      BY <2>1, Nones DEF AbsentRow
    <2>3. QED
      BY <1>1, <2>1, <2>2 DEF Enqueue, RequestMoves, TypeOK
  <1>2. CASE PersistMode(j)
    <2>1. /\ job'[j].status = job[j].status /\ job'[j].first = job[j].first /\ job'[j].page = job[j].page
          /\ job'[j].part = job[j].part /\ job'[j].from = job[j].from /\ job[j].mode = None
          /\ job[j].status # "absent" /\ job'[j].mode = job[j].asked.mode
      BY <1>2 DEF PersistMode, TypeOK, Row
    <2>2. FromOf(job[j]) = None
      BY <2>1, Nones DEF FromOf, RunsInv
    <2>3. job'[j].mode # None
      BY <2>1, RowTypes, Nones
    <2>4. QED
      BY <1>2, <2>1, <2>2, <2>3 DEF PersistMode, RequestMoves, TypeOK
  <1>3. CASE PersistFrom(j)
    <2>1. /\ job'[j].status = job[j].status /\ job'[j].first = job[j].first /\ job'[j].page = job[j].page
          /\ job'[j].part = job[j].part /\ job'[j].mode = job[j].mode /\ job[j].from = None
          /\ job[j].mode # None
      BY <1>3 DEF PersistFrom, TypeOK, Row
    <2>2. FromOf(job[j]) = None /\ job[j].status # "absent"
      BY <2>1 DEF FromOf, RunsInv
    <2>3. QED
      BY <1>3, <2>1, <2>2 DEF PersistFrom, RequestMoves, TypeOK
  <1>4. CASE EnqueueWebhookSync(j)
    <2>1. job'[j] = [AbsentRow EXCEPT !.status = "pending", !.mode = "full",
                        !.asked = [mode |-> "full", from |-> None]] /\ job[j].status = "absent"
      BY <1>4 DEF EnqueueWebhookSync, TypeOK
    <2>2. /\ job'[j].status = "pending" /\ job'[j].first = 0
          /\ job'[j].mode = None => job'[j].from = None
          /\ \A k \in Kinds : job'[j].page[k] = None
          /\ \A l \in Lists, x \in Pulls : job'[j].part[l][x] = None
      BY <2>1, Nones DEF AbsentRow
    <2>3. QED
      BY <1>4, <2>1, <2>2 DEF EnqueueWebhookSync, RequestMoves, TypeOK
  <1>5. CASE Retry(j)
    <2>1. OnlyStatus(j, "pending") /\ job[j].status = "failed"
      BY <1>5, RetrySteps
    <2>2. FromOf(job'[j]) = FromOf(job[j])
      BY <2>1 DEF OnlyStatus, FromOf
    <2>3. QED
      BY <1>5, <2>1, <2>2 DEF Retry, RequestMoves, OnlyStatus, TypeOK, RunsInv
  <1>6. QED
    BY <1>1, <1>2, <1>3, <1>4, <1>5 DEF RequestStep

-----------------------------------------------------------------------------
(* Steps of a run.                                                           *)

Progress(g) ==
  \/ ListPulls(g) \/ GetPull(g) \/ EndPulls(g) \/ SyncEvents(g) \/ MoveCheckpoint(g)
  \/ FetchReview(g) \/ UpsertBundle(g) \/ FetchFiles(g) \/ ReplaceFiles(g)

\* Of a job, what a step of its run leaves alone.
SameRows ==
  \A j \in Jobs :
    /\ job'[j].status = job[j].status /\ job'[j].first = job[j].first
    /\ job'[j].mode = job[j].mode /\ job'[j].from = job[j].from /\ job'[j].asked = job[j].asked

LEMMA FetchReviewSteps ==
  ASSUME Base, NEW g \in Runners, FetchReview(g)
  PROVE  LET r == runner[g]
             count == Cardinality(Submitted(r.item)) IN
         /\ r.at = "reviews" /\ r.item \in Pulls /\ r.job \in Jobs /\ count \in 0 .. MaxReview
         /\ Fetched(g, "reviews", r.part >= count,
                    IF r.part <= count /\ Include(<<Pull, r.item[2], r.part>>, r.cutoff) THEN {r.part} ELSE {},
                    "bundle")
         /\ UNCHANGED <<now, updated, lastSynced, stored, files, missed, cut, fails>>
  <1> DEFINE r == runner[g]
             count == Cardinality(Submitted(r.item))
             got == IF r.part <= count /\ Include(<<Pull, r.item[2], r.part>>, r.cutoff) THEN {r.part} ELSE {}
  <1>1. r.at = "reviews" /\ r.item \in Pulls /\ r.job \in Jobs
    BY DEF FetchReview, At, Base, AtHand, HandOf, RunsInv, Busy
  <1>2. count \in 0 .. MaxReview
    BY <1>1, SubmittedFinite
  <1>3. FetchPart(g, "reviews", r.part >= count, got, "bundle")
    BY Zenon DEF FetchReview, Submitted
  <1>4. (r.part >= count) \in BOOLEAN
    OBVIOUS
  <1>5. UNCHANGED <<now, updated, lastSynced, stored, files, missed, cut, fails>>
    BY <1>3 DEF FetchPart
  <1> HIDE DEF got, count
  <1>6. Fetched(g, "reviews", r.part >= count, got, "bundle")
    BY <1>1, <1>3, <1>4, FetchPartSteps DEF Base, Lists
  <1>7. QED
    BY <1>1, <1>2, <1>5, <1>6 DEF got, count

LEMMA FetchFilesSteps ==
  ASSUME Base, NEW g \in Runners, FetchFiles(g)
  PROVE  LET r == runner[g] IN
         /\ r.at = "files" /\ r.item \in Pulls /\ r.job \in Jobs
         /\ Fetched(g, "changed_files", r.part = FilePages, {r.part}, "replace")
         /\ UNCHANGED <<now, updated, lastSynced, stored, files, missed, cut, fails>>
  <1> DEFINE r == runner[g]
  <1>1. r.at = "files" /\ r.item \in Pulls /\ r.job \in Jobs
    BY DEF FetchFiles, At, Base, AtHand, HandOf, RunsInv, Busy
  <1>2. FetchPart(g, "changed_files", r.part = FilePages, {r.part}, "replace")
    BY DEF FetchFiles
  <1>3. UNCHANGED <<now, updated, lastSynced, stored, files, missed, cut, fails>>
    BY <1>2 DEF FetchPart
  <1>4. Fetched(g, "changed_files", r.part = FilePages, {r.part}, "replace")
    BY <1>1, <1>2, FetchPartSteps DEF Base, Lists
  <1>5. QED
    BY <1>1, <1>3, <1>4

SameCheckpoints(j) ==
  /\ \A k \in Kinds : job'[j].page[k] = job[j].page[k]
  /\ \A l \in Lists, x \in Pulls : job'[j].part[l][x] = job[j].part[l][x]

LEMMA ProgressFrame ==
  ASSUME Base, NEW g \in Runners, Progress(g)
  PROVE  /\ UNCHANGED <<now, updated, lastSynced, missed, cut, fails>>
         /\ Others(g) /\ SameRun(runner'[g], runner[g]) /\ SameRows
         /\ Busy(g) /\ Busy(g)' /\ ~At(g, "complete") /\ runner[g].job \in Jobs
         /\ \A j \in Jobs : j # runner[g].job => SameCheckpoints(j)
         /\ runner'[g].done = runner[g].done \/ runner'[g].done = now
  <1>0. TypeOK /\ RunsInv
    BY DEF Base
  <1>1. CASE ListPulls(g)
    BY <1>0, <1>1, ListPullsSteps DEF ListPulls, SameRows, SameCheckpoints, Busy, At, RunsInv
  <1>2. CASE GetPull(g)
    BY <1>0, <1>2, GetPullSteps DEF GetPull, SameRows, SameCheckpoints, Busy, At, RunsInv
  <1>3. CASE EndPulls(g)
    BY <1>0, <1>3, EndPullsSteps DEF EndPulls, SameRows, SameCheckpoints, Busy, At, RunsInv
  <1>4. CASE SyncEvents(g)
    BY <1>0, <1>4, SyncEventsSteps DEF SyncEvents, SameRows, SameCheckpoints, Busy, At, RunsInv
  <1>5. CASE MoveCheckpoint(g)
    <2>1. runner[g].job \in Jobs
      BY <1>0, <1>5 DEF MoveCheckpoint, RunsInv, Busy, At
    <2>2. SameRows /\ \A j \in Jobs : j # runner[g].job => SameCheckpoints(j)
      BY <1>0, <1>5, <2>1, MoveCheckpointSteps DEF SameRows, SameCheckpoints
    <2>3. QED
      BY <1>0, <1>5, <2>1, <2>2, MoveCheckpointSteps DEF MoveCheckpoint, Busy, At
  <1>6. CASE FetchReview(g)
    <2> DEFINE r == runner[g]
               last == r.part >= Cardinality(Submitted(r.item))
               got == IF r.part <= Cardinality(Submitted(r.item))
                         /\ Include(<<Pull, r.item[2], r.part>>, r.cutoff) THEN {r.part} ELSE {}
    <2>1. /\ r.at = "reviews" /\ r.job \in Jobs /\ Fetched(g, "reviews", last, got, "bundle")
          /\ UNCHANGED <<now, updated, lastSynced, missed, cut, fails>>
      BY <1>6, FetchReviewSteps
    <2> HIDE DEF last, got
    <2>2. SameRows /\ \A j \in Jobs : j # r.job => SameCheckpoints(j)
      BY <2>1 DEF Fetched, SameRows, SameCheckpoints
    <2>3. QED
      BY <2>1, <2>2 DEF Fetched, Busy, At
  <1>7. CASE UpsertBundle(g)
    BY <1>0, <1>7, UpsertBundleSteps DEF UpsertBundle, SameRows, SameCheckpoints, Busy, At, RunsInv
  <1>8. CASE FetchFiles(g)
    BY <1>8, FetchFilesSteps DEF Fetched, SameRows, SameCheckpoints, Busy, At
  <1>9. CASE ReplaceFiles(g)
    BY <1>0, <1>9, ReplaceFilesSteps DEF ReplaceFiles, SameRows, SameCheckpoints, Busy, At, RunsInv
  <1>10. QED
    BY <1>1, <1>2, <1>3, <1>4, <1>5, <1>6, <1>7, <1>8, <1>9 DEF Progress

LEMMA EndFrame ==
  ASSUME Base, NEW g \in Runners, Complete(g) \/ Fail(g)
  PROVE  /\ UNCHANGED <<now, updated, stored, files>>
         /\ Others(g) /\ runner'[g] = Free /\ Busy(g) /\ runner[g].job \in Jobs
         /\ OnlyStatus(runner[g].job, "completed") \/ OnlyStatus(runner[g].job, "failed")
  <1>0. TypeOK /\ RunsInv
    BY DEF Base
  <1>1. Busy(g) /\ runner[g].job \in Jobs /\ UNCHANGED <<now, updated, stored, files>>
    BY <1>0 DEF Complete, Fail, RunsInv, Busy, At
  <1>2. QED
    BY <1>0, <1>1, CompleteSteps, FailSteps

-----------------------------------------------------------------------------
(* Runs and the clock.                                                       *)

LEMMA SameFrom ==
  ASSUME NEW a, NEW b, a.mode = b.mode, a.from = b.from
  PROVE  FromOf(a) = FromOf(b)
  BY DEF FromOf

LEMMA RunsProgress ==
  ASSUME Base, NEW g \in Runners, Progress(g)
  PROVE  RunsInv'
  <1>1. /\ Others(g) /\ SameRun(runner'[g], runner[g]) /\ SameRows
        /\ Busy(g) /\ Busy(g)' /\ runner[g].job \in Jobs
    BY ProgressFrame
  <1>2. RunsInv
    BY DEF Base
  <1>3. \A h \in Runners : runner'[h].job = runner[h].job /\ runner'[h].from = runner[h].from
                           /\ (Busy(h)' => Busy(h))
    BY <1>1 DEF Others, SameRun, Busy, At
  <1>4. ASSUME NEW h \in Runners, Busy(h)'
        PROVE  /\ runner'[h].job \in Jobs
               /\ JobOf(h)'.status = "running" /\ JobOf(h)'.first # 0
               /\ runner'[h].from # None => FromOf(JobOf(h)') = runner'[h].from
    <2>1. /\ runner[h].job \in Jobs /\ JobOf(h).status = "running" /\ JobOf(h).first # 0
          /\ runner[h].from # None => FromOf(JobOf(h)) = runner[h].from
      BY <1>2, <1>3, <1>4 DEF RunsInv
    <2>2. FromOf(job'[runner[h].job]) = FromOf(job[runner[h].job])
      BY <1>1, <2>1, SameFrom DEF SameRows
    <2>3. QED
      BY <2>1, <2>2, <1>1, <1>3 DEF SameRows, JobOf
  <1>5. \A h, i \in Runners : Busy(h)' /\ Busy(i)' /\ runner'[h].job = runner'[i].job => h = i
    BY <1>2, <1>3 DEF RunsInv
  <1>6. \A j \in Jobs :
          /\ job'[j].status = "absent" => job'[j].mode = None
          /\ job'[j].mode = None => job'[j].from = None
    BY <1>1, <1>2 DEF RunsInv, SameRows
  <1>7. ASSUME NEW j \in Jobs, job'[j].first = 0
        PROVE  /\ job'[j].status \in {"absent", "pending"}
               /\ \A k \in Kinds : job'[j].page[k] = None
               /\ \A l \in Lists, x \in Pulls : job'[j].part[l][x] = None
    <2>1. /\ job[j].status \in {"absent", "pending"}
          /\ \A k \in Kinds : job[j].page[k] = None
          /\ \A l \in Lists, x \in Pulls : job[j].part[l][x] = None
          /\ job[j].first = 0
      BY <1>1, <1>2, <1>7 DEF RunsInv, SameRows
    <2>2. j # runner[g].job
      BY <1>1, <1>2, <2>1 DEF RunsInv, JobOf
    <2>3. SameCheckpoints(j)
      BY <2>2, ProgressFrame
    <2>4. QED
      BY <1>1, <2>1, <2>3 DEF SameRows, SameCheckpoints
  <1>8. QED
    BY <1>4, <1>5, <1>6, <1>7 DEF RunsInv

LEMMA RunsGithub ==
  ASSUME Base, GithubStep
  PROVE  RunsInv'
  <1>1. UNCHANGED <<job, runner>> /\ RunsInv
    BY GithubSteps DEF Base, GithubMoves
  <1>2. QED
    BY <1>1 DEF RunsInv, Busy, At, JobOf

LEMMA RunsRequests ==
  ASSUME Base, NEW j \in Jobs, RequestStep(j)
  PROVE  RunsInv'
  <1>1. RequestMoves(j) /\ RunsInv
    BY RequestSteps DEF Base
  <1>2. UNCHANGED runner /\ \A i \in Jobs : i # j => job'[i] = job[i]
    BY <1>1 DEF RequestMoves
  <1>3. ASSUME NEW h \in Runners, Busy(h)'
        PROVE  /\ runner'[h].job \in Jobs
               /\ JobOf(h)'.status = "running" /\ JobOf(h)'.first # 0
               /\ runner'[h].from # None => FromOf(JobOf(h)') = runner'[h].from
    <2>1. /\ runner[h].job \in Jobs /\ JobOf(h).status = "running" /\ JobOf(h).first # 0
          /\ runner[h].from # None => FromOf(JobOf(h)) = runner[h].from
      BY <1>1, <1>2, <1>3 DEF RunsInv, Busy, At
    <2>2. CASE runner[h].job # j
      BY <2>1, <2>2, <1>2 DEF JobOf
    <2>3. CASE runner[h].job = j
      <3>1. /\ job'[j].status = "running" /\ job'[j].first = job[j].first
            /\ FromOf(job'[j]) = FromOf(job[j]) \/ FromOf(job[j]) = None
        BY <2>1, <2>3, <1>1 DEF RequestMoves, JobOf
      <3>2. QED
        BY <3>1, <2>1, <2>3, <1>2 DEF JobOf
    <2>4. QED
      BY <2>2, <2>3
  <1>4. \A h, i \in Runners : Busy(h)' /\ Busy(i)' /\ runner'[h].job = runner'[i].job => h = i
    BY <1>1, <1>2 DEF RunsInv, Busy, At
  <1>5. \A i \in Jobs :
          /\ job'[i].status = "absent" => job'[i].mode = None
          /\ job'[i].mode = None => job'[i].from = None
    BY <1>1, <1>2 DEF RunsInv, RequestMoves
  <1>6. \A i \in Jobs : job'[i].first = 0 =>
          /\ job'[i].status \in {"absent", "pending"}
          /\ \A k \in Kinds : job'[i].page[k] = None
          /\ \A l \in Lists, x \in Pulls : job'[i].part[l][x] = None
    BY <1>1, <1>2 DEF RunsInv, RequestMoves
  <1>7. QED
    BY <1>3, <1>4, <1>5, <1>6 DEF RunsInv

LEMMA RunsStart ==
  ASSUME Base, NEW g \in Runners, NEW j \in Jobs, Start(g, j)
  PROVE  RunsInv'
  <1>0. TypeOK /\ RunsInv /\ now \in Int /\ now # 0
    BY DEF Base, TypeOK, Time
  <1>1. /\ Others(g) /\ ~Busy(g) /\ job[j].status = "pending" /\ runner'[g].job = j
        /\ runner'[g].from = FromOf(job[j])
    BY <1>0, StartSteps DEF Busy
  <1>2. \A i \in Jobs :
          /\ job'[i].status = IF i = j THEN "running" ELSE job[i].status
          /\ job'[i].first = IF i = j /\ job[i].first = 0 THEN now ELSE job[i].first
          /\ job'[i].mode = job[i].mode /\ job'[i].from = job[i].from
          /\ job'[i].page = job[i].page /\ job'[i].part = job[i].part
    BY <1>0, StartSteps
  <1>3. \A i \in Jobs : FromOf(job'[i]) = FromOf(job[i])
    BY <1>2, SameFrom
  <1>4. \A h \in Runners : h # g => runner'[h] = runner[h] /\ (Busy(h)' <=> Busy(h))
    BY <1>1 DEF Others, Busy, At
  <1>5. \A h \in Runners : Busy(h) => runner[h].job # j
    BY <1>0, <1>1 DEF RunsInv, JobOf
  <1>6. ASSUME NEW h \in Runners, Busy(h)'
        PROVE  /\ runner'[h].job \in Jobs
               /\ JobOf(h)'.status = "running" /\ JobOf(h)'.first # 0
               /\ runner'[h].from # None => FromOf(JobOf(h)') = runner'[h].from
    <2>1. CASE h = g
      BY <2>1, <1>0, <1>1, <1>2, <1>3 DEF JobOf
    <2>2. CASE h # g
      <3>1. /\ runner[h].job \in Jobs /\ JobOf(h).status = "running" /\ JobOf(h).first # 0
            /\ runner[h].from # None => FromOf(JobOf(h)) = runner[h].from
            /\ runner[h].job # j /\ runner'[h] = runner[h]
        BY <2>2, <1>0, <1>4, <1>5, <1>6 DEF RunsInv
      <3>2. QED
        BY <3>1, <1>2, <1>3 DEF JobOf
    <2>3. QED
      BY <2>1, <2>2
  <1>7. \A h, i \in Runners : Busy(h)' /\ Busy(i)' /\ runner'[h].job = runner'[i].job => h = i
    BY <1>0, <1>1, <1>4, <1>5 DEF RunsInv
  <1>8. \A i \in Jobs :
          /\ job'[i].status = "absent" => job'[i].mode = None
          /\ job'[i].mode = None => job'[i].from = None
    BY <1>0, <1>2 DEF RunsInv
  <1>9. \A i \in Jobs : job'[i].first = 0 =>
          /\ job'[i].status \in {"absent", "pending"}
          /\ \A k \in Kinds : job'[i].page[k] = None
          /\ \A l \in Lists, x \in Pulls : job'[i].part[l][x] = None
    BY <1>0, <1>2 DEF RunsInv
  <1>10. QED
    BY <1>6, <1>7, <1>8, <1>9 DEF RunsInv

LEMMA RunsEnds ==
  ASSUME Base, NEW g \in Runners, Complete(g) \/ Fail(g)
  PROVE  RunsInv'
  <1>0. TypeOK /\ RunsInv
    BY DEF Base
  <1>1. /\ Others(g) /\ runner'[g] = Free /\ Busy(g) /\ runner[g].job \in Jobs
        /\ OnlyStatus(runner[g].job, "completed") \/ OnlyStatus(runner[g].job, "failed")
    BY EndFrame
  <1>2. \A i \in Jobs :
          /\ i # runner[g].job => job'[i].status = job[i].status
          /\ job'[i].first = job[i].first
          /\ job'[i].mode = job[i].mode /\ job'[i].from = job[i].from
          /\ job'[i].page = job[i].page /\ job'[i].part = job[i].part
    BY <1>1 DEF OnlyStatus
  <1>3. \A i \in Jobs : FromOf(job'[i]) = FromOf(job[i])
    BY <1>2, SameFrom
  <1>4. \A h \in Runners : Busy(h)' => h # g /\ runner'[h] = runner[h] /\ Busy(h)
    BY <1>1 DEF Others, Busy, At, Free
  <1>5. ASSUME NEW h \in Runners, Busy(h)'
        PROVE  /\ runner'[h].job \in Jobs
               /\ JobOf(h)'.status = "running" /\ JobOf(h)'.first # 0
               /\ runner'[h].from # None => FromOf(JobOf(h)') = runner'[h].from
    <2>1. /\ runner[h].job \in Jobs /\ JobOf(h).status = "running" /\ JobOf(h).first # 0
          /\ runner[h].from # None => FromOf(JobOf(h)) = runner[h].from
          /\ runner[h].job # runner[g].job /\ runner'[h] = runner[h]
      BY <1>0, <1>1, <1>4, <1>5 DEF RunsInv
    <2>2. QED
      BY <2>1, <1>2, <1>3 DEF JobOf
  <1>6. \A h, i \in Runners : Busy(h)' /\ Busy(i)' /\ runner'[h].job = runner'[i].job => h = i
    BY <1>0, <1>4 DEF RunsInv
  <1>7. runner[g].job \in Jobs /\ job[runner[g].job].first # 0 /\ job[runner[g].job].status = "running"
    BY <1>0, <1>1 DEF RunsInv, JobOf
  <1>8. \A i \in Jobs :
          /\ job'[i].status = "absent" => job'[i].mode = None
          /\ job'[i].mode = None => job'[i].from = None
    BY <1>0, <1>1, <1>2 DEF RunsInv, OnlyStatus
  <1>9. \A i \in Jobs : job'[i].first = 0 =>
          /\ job'[i].status \in {"absent", "pending"}
          /\ \A k \in Kinds : job'[i].page[k] = None
          /\ \A l \in Lists, x \in Pulls : job'[i].part[l][x] = None
    BY <1>0, <1>2, <1>7 DEF RunsInv
  <1>10. QED
    BY <1>5, <1>6, <1>8, <1>9 DEF RunsInv

LEMMA Steps ==
  ASSUME Next
  PROVE  \/ GithubStep
         \/ \E j \in Jobs : RequestStep(j)
         \/ \E g \in Runners, j \in Jobs : Start(g, j)
         \/ \E g \in Runners : Progress(g)
         \/ \E g \in Runners : Complete(g) \/ Fail(g)
  BY Zenon DEF Next, GithubStep, RequestStep, Progress

\* Of what the steps of runs and of requests leave alone.
LEMMA LinedUpKept ==
  ASSUME LinedUp, UNCHANGED updated
  PROVE  LinedUp'
  BY DEF LinedUp, Exists

LEMMA LinedUpStep ==
  ASSUME Base, Next
  PROVE  LinedUp'
  <1>0. TypeOK /\ ClockInv /\ LinedUp
    BY DEF Base
  <1>1. CASE GithubStep
    BY <1>0, <1>1, LinedUpGithub
  <1>2. CASE UNCHANGED updated
    BY <1>0, <1>2, LinedUpKept
  <1>3. ASSUME NEW j \in Jobs, RequestStep(j) PROVE UNCHANGED updated
    BY <1>3, RequestSteps DEF Base, RequestMoves
  <1>4. ASSUME NEW g \in Runners, NEW j \in Jobs, Start(g, j) PROVE UNCHANGED updated
    BY <1>4 DEF Start
  <1>5. ASSUME NEW g \in Runners, Progress(g) PROVE UNCHANGED updated
    BY <1>5, ProgressFrame
  <1>6. ASSUME NEW g \in Runners, Complete(g) \/ Fail(g) PROVE UNCHANGED updated
    BY <1>6, EndFrame
  <1>7. QED
    BY <1>1, <1>2, <1>3, <1>4, <1>5, <1>6, Steps

LEMMA ClockStep ==
  ASSUME Base, Next
  PROVE  ClockInv'
  <1>0. /\ TypeOK /\ RunsInv /\ now \in Int /\ lastSynced \in Int
        /\ \A x \in Item : updated[x] \in Int /\ updated[x] <= now
        /\ lastSynced <= now
        /\ \A j \in Jobs : job[j].first \in Int /\ job[j].first <= now
        /\ \A g \in Runners : runner[g].done \in Int /\ runner[g].done <= now
    BY RowTypes, RunnerTypes DEF Base, TypeOK, Time, ClockInv
  <1>1. CASE GithubStep
    <2>1. GithubMoves
      BY <1>0, <1>1, GithubSteps
    <2>2. \A x \in Item : updated'[x] <= now'
      <3>1. \A x \in Item : updated'[x] = updated[x] \/ updated'[x] = now \/ updated'[x] <= now
        BY <2>1 DEF GithubMoves
      <3>2. now' \in Int /\ now <= now'
        BY <2>1 DEF GithubMoves
      <3>3. \A x \in Item : updated'[x] \in Int
        BY <1>0, <1>1, TypeGithub DEF GithubStep, TypeOK, Time
      <3>4. QED
        BY <3>1, <3>2, <3>3, <1>0
    <2>3. QED
      BY <2>1, <2>2, <1>0 DEF GithubMoves, ClockInv
  <1>2. ASSUME NEW j \in Jobs, RequestStep(j) PROVE ClockInv'
    <2>1. RequestMoves(j)
      BY <1>0, <1>2, RequestSteps
    <2>2. \A i \in Jobs : job'[i].first <= now
      BY <2>1, <1>0, Bounds DEF RequestMoves, TypeOK, Time
    <2>3. QED
      BY <2>1, <2>2, <1>0 DEF RequestMoves, ClockInv
  <1>3. ASSUME NEW g \in Runners, NEW j \in Jobs, Start(g, j) PROVE ClockInv'
    <2>1. /\ Others(g) /\ runner'[g].done = 0
          /\ \A i \in Jobs : job'[i].first = IF i = j /\ job[i].first = 0 THEN now ELSE job[i].first
      BY <1>0, <1>3, StartSteps
    <2>2. UNCHANGED <<now, updated, lastSynced>>
      BY <1>3 DEF Start
    <2>3. now >= 0
      BY <1>0 DEF TypeOK, Time
    <2>4. QED
      BY <2>1, <2>2, <2>3, <1>0 DEF ClockInv, Others
  <1>4. ASSUME NEW g \in Runners, Progress(g) PROVE ClockInv'
    <2>1. /\ UNCHANGED <<now, updated, lastSynced>> /\ Others(g) /\ SameRows
          /\ runner'[g].done = runner[g].done \/ runner'[g].done = now
      BY <1>4, ProgressFrame
    <2>2. QED
      BY <2>1, <1>0 DEF ClockInv, Others, SameRows
  <1>5. ASSUME NEW g \in Runners, Complete(g) \/ Fail(g) PROVE ClockInv'
    <2>1. /\ UNCHANGED <<now, updated>> /\ Others(g) /\ runner'[g].done = 0 /\ now >= 0
          /\ \A i \in Jobs : job'[i].first = job[i].first
      BY <1>0, <1>5, EndFrame DEF Free, OnlyStatus, TypeOK, Time
    <2>2. lastSynced' \in Int /\ lastSynced' <= now
      BY <1>0, <1>5 DEF Complete, Fail
    <2>3. QED
      BY <2>1, <2>2, <1>0 DEF ClockInv, Others
  <1>6. QED
    BY <1>1, <1>2, <1>3, <1>4, <1>5, Steps

LEMMA TypeStep ==
  ASSUME Base, Next
  PROVE  TypeOK'
  <1>0. TypeOK
    BY DEF Base
  <1>1. CASE GithubStep
    BY <1>0, <1>1, TypeGithub DEF GithubStep
  <1>2. ASSUME NEW j \in Jobs, RequestStep(j) PROVE TypeOK'
    BY <1>0, <1>2, TypeRequests DEF RequestStep
  <1>3. ASSUME NEW g \in Runners, NEW j \in Jobs, Start(g, j) PROVE TypeOK'
    BY <1>0, <1>3, TypeStart
  <1>4. ASSUME NEW g \in Runners, Progress(g) PROVE TypeOK'
    BY <1>4, TypePages, TypeParts DEF Progress
  <1>5. ASSUME NEW g \in Runners, Complete(g) \/ Fail(g) PROVE TypeOK'
    BY <1>5, TypeEnds
  <1>6. QED
    BY <1>1, <1>2, <1>3, <1>4, <1>5, Steps

LEMMA RunsStep ==
  ASSUME Base, Next
  PROVE  RunsInv'
  BY RunsGithub, RunsRequests, RunsStart, RunsProgress, RunsEnds, Steps

-----------------------------------------------------------------------------
(* What a run has at hand.                                                   *)

\* A run that a step leaves alone keeps what it has, and its job its first start.
LEMMA FirstKept ==
  ASSUME Base, NEW h \in Runners, Busy(h),
         \/ GithubStep
         \/ \E j \in Jobs : RequestStep(j)
         \/ \E g \in Runners, j \in Jobs : Start(g, j)
         \/ \E g \in Runners : Progress(g) \/ Complete(g) \/ Fail(g)
  PROVE  job'[runner[h].job].first = JobOf(h).first
  <1>0. TypeOK /\ runner[h].job \in Jobs /\ JobOf(h).status = "running" /\ JobOf(h).first # 0
    BY DEF Base, RunsInv
  <1>1. CASE GithubStep
    BY <1>0, <1>1, GithubSteps DEF GithubMoves, JobOf
  <1>2. ASSUME NEW j \in Jobs, RequestStep(j) PROVE job'[runner[h].job].first = JobOf(h).first
    <2>1. RequestMoves(j)
      BY <1>2, RequestSteps DEF Base
    <2>2. CASE runner[h].job = j
      BY <1>0, <2>1, <2>2 DEF RequestMoves, JobOf
    <2>3. CASE runner[h].job # j
      BY <1>0, <2>1, <2>3 DEF RequestMoves, JobOf
    <2>4. QED
      BY <2>2, <2>3
  <1>3. ASSUME NEW g \in Runners, NEW j \in Jobs, Start(g, j)
        PROVE  job'[runner[h].job].first = JobOf(h).first
    <2>1. \A i \in Jobs : job'[i].first = IF i = j /\ job[i].first = 0 THEN now ELSE job[i].first
      BY <1>0, <1>3, StartSteps
    <2>2. QED
      BY <2>1, <1>0 DEF JobOf
  <1>4. ASSUME NEW g \in Runners, Progress(g) PROVE job'[runner[h].job].first = JobOf(h).first
    <2>1. SameRows
      BY <1>4, ProgressFrame
    <2>2. QED
      BY <2>1, <1>0 DEF SameRows, JobOf
  <1>5. ASSUME NEW g \in Runners, Complete(g) \/ Fail(g)
        PROVE  job'[runner[h].job].first = JobOf(h).first
    <2>1. OnlyStatus(runner[g].job, "completed") \/ OnlyStatus(runner[g].job, "failed")
      BY <1>5, EndFrame
    <2>2. QED
      BY <2>1, <1>0 DEF OnlyStatus, JobOf
  <1>6. QED
    BY <1>1, <1>2, <1>3, <1>4, <1>5

LEMMA HandKept ==
  ASSUME Base, NEW h \in Runners, runner'[h] = runner[h], now \in Int,
         \A x \in Item : updated'[x] = updated[x] \/ updated'[x] = now \/ x \notin Pulls,
         Busy(h) => job'[runner[h].job].first = JobOf(h).first
  PROVE  HandOf(h)'
  <1>0. HandOf(h) /\ RunsInv /\ ClockInv
    BY DEF Base, AtHand
  <1>1. ASSUME runner[h].at \in {"reviews", "bundle"}
        PROVE  \/ runner[h].version = updated'[runner[h].item]
               \/ job'[runner[h].job].first <= updated'[runner[h].item]
    <2>1. runner[h].item \in Pulls /\ runner[h].item \in Item /\ Busy(h) /\ runner[h].job \in Jobs
      BY <1>0, <1>1, PullShape DEF HandOf, Busy, At, RunsInv
    <2>2. JobOf(h).first <= now
      BY <1>0, <2>1 DEF ClockInv, JobOf
    <2>3. QED
      BY <2>1, <2>2, <1>0, <1>1 DEF HandOf
  <1>2. QED
    BY <1>0, <1>1 DEF HandOf, At, JobOf

\* What the steps of a run leave or bring.
LEMMA HandProgress ==
  ASSUME Base, NEW g \in Runners, Progress(g)
  PROVE  HandOf(g)'
  <1> DEFINE r == runner[g]
             s == runner'[g]
  <1>0. TypeOK /\ HandOf(g)
    BY DEF Base, AtHand
  <1>1. /\ UNCHANGED updated /\ r.job \in Jobs /\ s.job = r.job
        /\ job'[r.job].first = JobOf(g).first
    BY ProgressFrame DEF SameRun, SameRows, JobOf
  <1>2. CASE ListPulls(g)
    BY <1>0, <1>2, ListPullsSteps, PageItems, Bounds DEF HandOf, At
  <1>3. CASE GetPull(g)
    <2>1. r.batch \subseteq Pulls /\ r.batch # {} /\ r.kind = Pull /\ s.item = Newest(r.batch)
          /\ s.at = "reviews" /\ s.version = updated[s.item] /\ s.kind = r.kind /\ s.batch \subseteq r.batch
      BY <1>0, <1>3, GetPullSteps DEF HandOf
    <2>2. s.item \in Pulls
      BY <2>1, NewestShape
    <2>3. QED
      BY <1>1, <2>1, <2>2 DEF HandOf, At
  <1>4. CASE EndPulls(g)
    BY <1>0, <1>4, EndPullsSteps DEF HandOf, At
  <1>5. CASE SyncEvents(g)
    BY <1>0, <1>5, SyncEventsSteps DEF HandOf, At
  <1>6. CASE MoveCheckpoint(g)
    <2>1. s.at \in {"list", "complete"} /\ (s.at = "complete" => s.kind = LastKind)
      BY <1>0, <1>1, <1>6, MoveCheckpointSteps
    <2>2. QED
      BY <2>1 DEF HandOf, At
  <1>7. CASE FetchReview(g)
    <2>1. PICK last, got : r.at = "reviews" /\ Fetched(g, "reviews", last, got, "bundle")
      BY <1>7, FetchReviewSteps
    <2>2. /\ s.at \in {"reviews", "bundle"} /\ s.kind = r.kind /\ s.batch = r.batch
          /\ s.item = r.item /\ s.version = r.version
      BY <2>1 DEF Fetched
    <2>3. QED
      BY <1>0, <1>1, <2>1, <2>2 DEF HandOf, At, JobOf
  <1>8. CASE UpsertBundle(g)
    BY <1>0, <1>8, UpsertBundleSteps DEF HandOf, At
  <1>9. CASE FetchFiles(g)
    <2>1. /\ r.at = "files" /\ s.at \in {"files", "replace"} /\ s.kind = r.kind /\ s.batch = r.batch
          /\ s.item = r.item /\ s.version = r.version
      BY <1>9, FetchFilesSteps DEF Fetched
    <2>2. QED
      BY <1>0, <1>1, <2>1 DEF HandOf, At, JobOf
  <1>10. CASE ReplaceFiles(g)
    BY <1>0, <1>10, ReplaceFilesSteps DEF HandOf, At
  <1>11. QED
    BY <1>2, <1>3, <1>4, <1>5, <1>6, <1>7, <1>8, <1>9, <1>10 DEF Progress

LEMMA HandStep ==
  ASSUME Base, Next
  PROVE  AtHand'
  <1>0. TypeOK /\ now \in Int
    BY DEF Base, TypeOK, Time
  <1>1. CASE GithubStep
    <2>1. GithubMoves
      BY <1>0, <1>1, GithubSteps
    <2>2. /\ \A x \in Item : updated'[x] = updated[x] \/ updated'[x] = now \/ x \notin Pulls
          /\ UNCHANGED runner
      BY <2>1 DEF GithubMoves
    <2>3. QED
      BY <1>0, <1>1, <2>2, FirstKept, HandKept DEF AtHand
  <1>2. ASSUME NEW j \in Jobs, RequestStep(j) PROVE AtHand'
    <2>1. UNCHANGED <<updated, runner>>
      BY <1>2, RequestSteps DEF Base, RequestMoves
    <2>2. QED
      BY <1>0, <1>2, <2>1, FirstKept, HandKept DEF AtHand
  <1>3. ASSUME NEW g \in Runners, NEW j \in Jobs, Start(g, j) PROVE AtHand'
    <2>1. UNCHANGED updated /\ Others(g) /\ runner'[g].at = "list"
      BY <1>0, <1>3, StartSteps DEF Start
    <2>2. HandOf(g)'
      BY <2>1 DEF HandOf, At
    <2>3. ASSUME NEW h \in Runners, h # g PROVE HandOf(h)'
      BY <1>0, <1>3, <2>1, <2>3, FirstKept, HandKept DEF Others
    <2>4. QED
      BY <2>2, <2>3 DEF AtHand
  <1>4. ASSUME NEW g \in Runners, Progress(g) PROVE AtHand'
    <2>1. UNCHANGED updated /\ Others(g)
      BY <1>4, ProgressFrame
    <2>2. HandOf(g)'
      BY <1>4, HandProgress
    <2>3. ASSUME NEW h \in Runners, h # g PROVE HandOf(h)'
      BY <1>0, <1>4, <2>1, <2>3, FirstKept, HandKept DEF Others
    <2>4. QED
      BY <2>2, <2>3 DEF AtHand
  <1>5. ASSUME NEW g \in Runners, Complete(g) \/ Fail(g) PROVE AtHand'
    <2>1. UNCHANGED updated /\ Others(g) /\ runner'[g].at = "free"
      BY <1>5, EndFrame DEF Free
    <2>2. HandOf(g)'
      BY <2>1 DEF HandOf, At
    <2>3. ASSUME NEW h \in Runners, h # g PROVE HandOf(h)'
      BY <1>0, <1>5, <2>1, <2>3, FirstKept, HandKept DEF Others
    <2>4. QED
      BY <2>2, <2>3 DEF AtHand
  <1>6. QED
    BY <1>1, <1>2, <1>3, <1>4, <1>5, Steps

-----------------------------------------------------------------------------
(* Lists that are resumed.                                                   *)

\* The witness of a checkpoint other than at hand stays.
LEMMA PartsKept ==
  ASSUME Base, NEW g \in Runners, Others(g),
         \A l \in Lists : ~At(g, Fetching[l]),
         \A j \in Jobs, l \in Lists, x \in Pulls : job'[j].part[l][x] \in {job[j].part[l][x], None},
         cut \subseteq cut'
  PROVE  PartsInv'
  <1> SUFFICES ASSUME NEW j \in Jobs, NEW l \in Lists, NEW x \in Pulls, job'[j].part[l][x] # None
               PROVE  \/ IsCut(l, x)'
                      \/ \E h \in Runners :
                           /\ runner'[h].job = j /\ runner'[h].at = Fetching[l]
                           /\ runner'[h].item = x /\ runner'[h].part > 1
    BY DEF PartsInv, At
  <1>1. job[j].part[l][x] # None
    OBVIOUS
  <1>2. \/ IsCut(l, x)
        \/ \E h \in Runners :
             runner[h].job = j /\ At(h, Fetching[l]) /\ runner[h].item = x /\ runner[h].part > 1
    BY <1>1 DEF Base, PartsInv
  <1>3. CASE IsCut(l, x)
    BY <1>3 DEF IsCut
  <1>4. ASSUME NEW h \in Runners,
               runner[h].job = j /\ At(h, Fetching[l]) /\ runner[h].item = x /\ runner[h].part > 1
        PROVE  /\ runner'[h].job = j /\ runner'[h].at = Fetching[l]
               /\ runner'[h].item = x /\ runner'[h].part > 1
    BY <1>4 DEF Others, At
  <1>5. QED
    BY <1>2, <1>3, <1>4

LEMMA FetchingShape ==
  Fetching["reviews"] = "reviews" /\ Fetching["changed_files"] = "files"
  BY DEF Fetching

LEMMA PartsFetched ==
  ASSUME Base, NEW g \in Runners, NEW l \in Lists, NEW last, NEW got, NEW then,
         Fetched(g, l, last, got, then), At(g, Fetching[l]), runner[g].job \in Jobs, UNCHANGED cut
  PROVE  PartsInv'
  <1> DEFINE r == runner[g]
             s == runner'[g]
  <1> SUFFICES ASSUME NEW j \in Jobs, NEW m \in Lists, NEW x \in Pulls, job'[j].part[m][x] # None
               PROVE  \/ IsCut(m, x)'
                      \/ \E h \in Runners :
                           /\ runner'[h].job = j /\ runner'[h].at = Fetching[m]
                           /\ runner'[h].item = x /\ runner'[h].part > 1
    BY DEF PartsInv, At
  <1>1. /\ Others(g) /\ s.job = r.job /\ s.item = r.item
        /\ s.at = IF last THEN then ELSE r.at
        /\ s.part = IF last THEN 1 ELSE r.part + 1
        /\ job'[j].part[m][x] = IF j = r.job /\ m = l /\ x = r.item
                                THEN IF last THEN None ELSE r.part + 1 ELSE job[j].part[m][x]
    BY DEF Fetched, SameRun
  <1>2. CASE j = r.job /\ m = l /\ x = r.item
    <2>1. ~last /\ s.at = Fetching[m] /\ s.part = r.part + 1
      BY <1>1, <1>2 DEF At
    <2>2. r.part + 1 > 1
      BY RunnerTypes DEF Base, Parts
    <2>3. QED
      BY <1>1, <1>2, <2>1, <2>2
  <1>3. CASE ~(j = r.job /\ m = l /\ x = r.item)
    <2>1. job[j].part[m][x] # None
      BY <1>1, <1>3
    <2>2. \/ IsCut(m, x)
          \/ \E h \in Runners :
               runner[h].job = j /\ At(h, Fetching[m]) /\ runner[h].item = x /\ runner[h].part > 1
      BY <2>1 DEF Base, PartsInv
    <2>3. CASE IsCut(m, x)
      BY <2>3 DEF IsCut
    <2>4. ASSUME NEW h \in Runners,
                 runner[h].job = j /\ At(h, Fetching[m]) /\ runner[h].item = x /\ runner[h].part > 1
          PROVE  h # g
      <3>1. ASSUME h = g PROVE FALSE
        <4>1. Fetching[m] = Fetching[l]
          BY <2>4, <3>1 DEF At
        <4>2. m = l
          BY <4>1, FetchingShape DEF Lists
        <4>3. QED
          BY <4>2, <3>1, <2>4, <1>3
      <3>2. QED
        BY <3>1
    <2>5. QED
      BY <2>2, <2>3, <2>4, <1>1 DEF Others, At
  <1>4. QED
    BY <1>2, <1>3

LEMMA PartsStep ==
  ASSUME Base, Next
  PROVE  PartsInv'
  <1>0. TypeOK /\ RunsInv /\ PartsInv
    BY DEF Base
  <1>1. CASE GithubStep
    <2>1. UNCHANGED <<job, runner, cut>>
      BY <1>0, <1>1, GithubSteps DEF GithubMoves
    <2>2. QED
      BY <2>1, <1>0 DEF PartsInv, IsCut, At
  <1>2. ASSUME NEW j \in Jobs, RequestStep(j) PROVE PartsInv'
    <2>1. RequestMoves(j)
      BY <1>0, <1>2, RequestSteps
    <2>2. UNCHANGED <<runner, cut>>
      BY <2>1 DEF RequestMoves
    <2>3. \A i \in Jobs, l \in Lists, x \in Pulls : job'[i].part[l][x] \in {job[i].part[l][x], None}
      BY <2>1 DEF RequestMoves
    <2>4. QED
      BY <2>2, <2>3, <1>0 DEF PartsInv, IsCut, At
  <1>3. ASSUME NEW g \in Runners, NEW j \in Jobs, Start(g, j) PROVE PartsInv'
    <2>1. /\ Others(g) /\ At(g, "free") /\ UNCHANGED cut
          /\ \A i \in Jobs, l \in Lists, x \in Pulls : job'[i].part[l][x] = job[i].part[l][x]
      <3>1. Others(g) /\ At(g, "free") /\ \A i \in Jobs : job'[i].part = job[i].part
        BY <1>0, <1>3, StartSteps
      <3>2. UNCHANGED cut
        BY <1>3 DEF Start
      <3>3. QED
        BY <3>1, <3>2
    <2>2. \A l \in Lists : ~At(g, Fetching[l])
      BY <2>1, FetchingShape DEF Lists, At
    <2>3. QED
      BY <2>1, <2>2, PartsKept
  <1>4. ASSUME NEW g \in Runners, Progress(g) PROVE PartsInv'
    <2>1. Others(g) /\ UNCHANGED cut /\ runner[g].job \in Jobs
      BY <1>4, ProgressFrame
    <2>2. CASE FetchReview(g)
      <3>1. PICK last, got : runner[g].at = "reviews" /\ Fetched(g, "reviews", last, got, "bundle")
        BY <2>2, FetchReviewSteps
      <3>2. QED
        BY <3>1, <2>1, PartsFetched, FetchingShape DEF Lists, At
    <2>3. CASE FetchFiles(g)
      <3>1. PICK last, got : runner[g].at = "files" /\ Fetched(g, "changed_files", last, got, "replace")
        BY <2>3, FetchFilesSteps
      <3>2. QED
        BY <3>1, <2>1, PartsFetched, FetchingShape DEF Lists, At
    <2>4. CASE ListPulls(g) \/ GetPull(g) \/ EndPulls(g) \/ SyncEvents(g) \/ UpsertBundle(g) \/ ReplaceFiles(g)
      <3>1. UNCHANGED job
        BY <2>4 DEF ListPulls, GetPull, EndPulls, SyncEvents, UpsertBundle, ReplaceFiles
      <3>2. \A l \in Lists : ~At(g, Fetching[l])
        BY <2>4, FetchingShape DEF Lists, At, ListPulls, GetPull, EndPulls, SyncEvents, UpsertBundle, ReplaceFiles
      <3>3. QED
        BY <3>1, <3>2, <2>1, PartsKept
    <2>5. CASE MoveCheckpoint(g)
      <3>1. \A j \in Jobs, l \in Lists, x \in Pulls : job'[j].part[l][x] = job[j].part[l][x]
        BY <2>5, <2>1, <1>0, MoveCheckpointSteps
      <3>2. \A l \in Lists : ~At(g, Fetching[l])
        BY <2>5, FetchingShape DEF Lists, At, MoveCheckpoint
      <3>3. QED
        BY <3>1, <3>2, <2>1, PartsKept
    <2>6. QED
      BY <1>4, <2>2, <2>3, <2>4, <2>5 DEF Progress
  <1>5. ASSUME NEW g \in Runners, Complete(g) \/ Fail(g) PROVE PartsInv'
    <2>1. /\ Others(g) /\ runner[g].job \in Jobs
          /\ \A j \in Jobs, l \in Lists, x \in Pulls : job'[j].part[l][x] = job[j].part[l][x]
      BY <1>5, EndFrame DEF OnlyStatus
    <2>2. CASE Complete(g)
      <3>1. UNCHANGED cut
        BY <2>2 DEF Complete
      <3>2. \A l \in Lists : ~At(g, Fetching[l])
        BY <2>2, FetchingShape DEF Lists, At, Complete
      <3>3. QED
        BY <2>1, <3>1, <3>2, PartsKept
    <2>3. CASE Fail(g)
      <3>1. cut' = cut \cup {<<l, runner[g].item>> : l \in {m \in Lists : runner[g].part > 1 /\ At(g, Fetching[m])}}
        BY <2>3 DEF Fail
      <3>2. SUFFICES ASSUME NEW j \in Jobs, NEW l \in Lists, NEW x \in Pulls, job'[j].part[l][x] # None
                     PROVE  \/ IsCut(l, x)'
                            \/ \E h \in Runners :
                                 /\ runner'[h].job = j /\ runner'[h].at = Fetching[l]
                                 /\ runner'[h].item = x /\ runner'[h].part > 1
        BY DEF PartsInv, At
      <3>3. \/ IsCut(l, x)
            \/ \E h \in Runners :
                 runner[h].job = j /\ At(h, Fetching[l]) /\ runner[h].item = x /\ runner[h].part > 1
        BY <2>1, <3>2, <1>0 DEF PartsInv
      <3>4. CASE IsCut(l, x)
        BY <3>1, <3>4 DEF IsCut
      <3>5. ASSUME NEW h \in Runners,
                   runner[h].job = j /\ At(h, Fetching[l]) /\ runner[h].item = x /\ runner[h].part > 1
            PROVE  \/ IsCut(l, x)'
                   \/ \E i \in Runners :
                        /\ runner'[i].job = j /\ runner'[i].at = Fetching[l]
                        /\ runner'[i].item = x /\ runner'[i].part > 1
        <4>1. CASE h = g
          BY <4>1, <3>1, <3>5 DEF IsCut
        <4>2. CASE h # g
          BY <4>2, <3>5, <2>1 DEF Others, At
        <4>3. QED
          BY <4>1, <4>2
      <3>6. QED
        BY <3>3, <3>4, <3>5
    <2>4. QED
      BY <1>5, <2>2, <2>3
  <1>6. QED
    BY <1>1, <1>2, <1>3, <1>4, <1>5, Steps

LEMMA FilesKept ==
  ASSUME Base, NEW h \in Runners, runner'[h] = runner[h], cut \subseteq cut'
  PROVE  FilesOf(h)'
  BY DEF Base, FilesAtHand, FilesOf, At, IsCut

\* A run begins a list of files at its first page, or where a run that failed at it
\* left it.
LEMMA FilesBegun ==
  ASSUME Base, NEW g \in Runners, UpsertBundle(g)
  PROVE  FilesOf(g)'
  <1> DEFINE r == runner[g]
             s == runner'[g]
             c == job[r.job].part["changed_files"][r.item]
  <1>0. TypeOK /\ RunsInv /\ PartsInv /\ FilesAtHand /\ HandOf(g)
    BY DEF Base, AtHand
  <1>1. r.at = "bundle" /\ s.at = "files" /\ s.item = r.item /\ s.got = {} /\ s.part = Resume(c)
    BY <1>0, UpsertBundleSteps DEF JobOf
  <1>2. r.item \in Pulls /\ r.job \in Jobs /\ Busy(g) /\ UNCHANGED cut
    BY <1>0, <1>1 DEF HandOf, RunsInv, Busy, At, UpsertBundle
  <1>3. c \in AllFiles \cup {None}
    BY <1>0, <1>2 DEF FilesAtHand
  <1>4. s.part \in AllFiles
    <2>1. 1 \in AllFiles
      BY Bounds DEF AllFiles
    <2>2. QED
      BY <1>1, <1>3, <2>1 DEF Resume
  <1>5. 1 .. s.part - 1 \subseteq s.got \/ IsCut("changed_files", r.item)
    <2>1. CASE c = None
      <3>1. s.part = 1
        BY <1>1, <2>1 DEF Resume
      <3>2. 1 .. s.part - 1 = {}
        BY <3>1
      <3>3. QED
        BY <3>2
    <2>2. CASE c # None
      <3>1. \/ IsCut("changed_files", r.item)
            \/ \E h \in Runners : runner[h].job = r.job /\ At(h, "files")
        BY <1>0, <1>2, <2>2, FetchingShape DEF PartsInv, Lists
      <3>2. ASSUME NEW h \in Runners, runner[h].job = r.job, At(h, "files") PROVE FALSE
        <4>1. h = g
          BY <1>0, <1>2, <3>2 DEF RunsInv, Busy, At
        <4>2. QED
          BY <4>1, <3>2, <1>1 DEF At
      <3>3. QED
        BY <3>1, <3>2
    <2>3. QED
      BY <2>1, <2>2
  <1>6. QED
    BY <1>1, <1>2, <1>4, <1>5 DEF FilesOf, At, IsCut

LEMMA FilesFetched ==
  ASSUME Base, NEW g \in Runners, FetchFiles(g)
  PROVE  /\ FilesOf(g)'
         /\ \A j \in Jobs, x \in Pulls : job'[j].part["changed_files"][x] \in AllFiles \cup {None}
  <1> DEFINE r == runner[g]
             s == runner'[g]
             last == r.part = FilePages
  <1>0. TypeOK /\ FilesAtHand /\ FilesOf(g)
    BY DEF Base, FilesAtHand
  <1>1. /\ r.at = "files" /\ s.item = r.item /\ UNCHANGED cut
        /\ s.at = IF last THEN "replace" ELSE r.at
        /\ s.part = IF last THEN 1 ELSE r.part + 1
        /\ s.got = r.got \cup {r.part}
    BY FetchFilesSteps DEF Fetched
  <1>2. \A j \in Jobs, x \in Pulls :
          job'[j].part["changed_files"][x] \in
            {job[j].part["changed_files"][x], IF last THEN None ELSE r.part + 1}
    BY FetchFilesSteps DEF Fetched, Lists
  <1>3. /\ r.part \in 1 .. FilePages /\ FilePages \in Nat /\ r.got \subseteq AllFiles
        /\ 1 .. r.part - 1 \subseteq r.got \/ IsCut("changed_files", r.item)
    BY <1>0, <1>1, Bounds DEF FilesOf, At, AllFiles
  <1>4. last \/ r.part + 1 \in AllFiles
    BY <1>3 DEF AllFiles
  <1>5. s.got \subseteq AllFiles
    BY <1>1, <1>3 DEF AllFiles
  <1>6. ASSUME 1 .. r.part - 1 \subseteq r.got
        PROVE  1 .. r.part \subseteq s.got
    <2>1. \A i \in 1 .. r.part : i \in 1 .. r.part - 1 \/ i = r.part
      BY <1>3
    <2>2. QED
      BY <2>1, <1>1, <1>6
  <1>7. CASE last
    <2>1. s.at = "replace" /\ 1 .. r.part = AllFiles
      BY <1>1, <1>7 DEF AllFiles
    <2>2. s.got = AllFiles \/ IsCut("changed_files", r.item)
      BY <2>1, <1>1, <1>3, <1>5, <1>6
    <2>3. FilesOf(g)'
      BY <2>1, <2>2, <1>1, <1>5 DEF FilesOf, At, IsCut
    <2>4. QED
      BY <2>3, <1>0, <1>2, <1>7 DEF FilesAtHand
  <1>8. CASE ~last
    <2>1. s.at = "files" /\ s.part = r.part + 1 /\ s.part \in AllFiles
      BY <1>1, <1>4, <1>8
    <2>2. s.part - 1 = r.part
      BY <2>1, <1>3
    <2>3. 1 .. s.part - 1 \subseteq s.got \/ IsCut("changed_files", r.item)
      BY <2>2, <1>1, <1>3, <1>6
    <2>4. FilesOf(g)'
      BY <2>1, <2>3, <1>1, <1>5 DEF FilesOf, At, IsCut
    <2>5. QED
      BY <2>1, <2>4, <1>0, <1>2, <1>8 DEF FilesAtHand
  <1>9. QED
    BY <1>7, <1>8

LEMMA FilesStep ==
  ASSUME Base, Next
  PROVE  FilesAtHand'
  <1> DEFINE Same == \A j \in Jobs, x \in Pulls :
                       job'[j].part["changed_files"][x] \in {job[j].part["changed_files"][x], None}
  <1>0. TypeOK /\ FilesAtHand /\ "changed_files" \in Lists
    BY DEF Base, Lists
  <1>1. CASE GithubStep
    <2>1. UNCHANGED <<job, runner, cut>>
      BY <1>0, <1>1, GithubSteps DEF GithubMoves
    <2>2. QED
      BY <2>1, <1>0, FilesKept DEF FilesAtHand
  <1>2. ASSUME NEW j \in Jobs, RequestStep(j) PROVE FilesAtHand'
    <2>1. RequestMoves(j)
      BY <1>2, RequestSteps DEF Base
    <2>2. UNCHANGED <<runner, cut>>
      BY <2>1 DEF RequestMoves
    <2>3. \A i \in Jobs, x \in Pulls :
            job'[i].part["changed_files"][x] \in {job[i].part["changed_files"][x], None}
      BY <2>1, <1>0 DEF RequestMoves
    <2>4. QED
      BY <2>2, <2>3, <1>0, FilesKept DEF FilesAtHand
  <1>3. ASSUME NEW g \in Runners, NEW j \in Jobs, Start(g, j) PROVE FilesAtHand'
    <2>1. Others(g) /\ runner'[g].at = "list" /\ \A i \in Jobs : job'[i].part = job[i].part
      BY <1>0, <1>3, StartSteps
    <2>2. UNCHANGED cut
      BY <1>3 DEF Start
    <2>3. FilesOf(g)'
      BY <2>1 DEF FilesOf, At
    <2>4. ASSUME NEW h \in Runners, h # g PROVE FilesOf(h)'
      BY <2>1, <2>2, <2>4, FilesKept DEF Others
    <2>5. QED
      BY <2>1, <2>3, <2>4, <1>0 DEF FilesAtHand
  <1>4. ASSUME NEW g \in Runners, Progress(g) PROVE FilesAtHand'
    <2>1. Others(g) /\ UNCHANGED cut /\ runner[g].job \in Jobs
      BY <1>4, ProgressFrame
    <2>2. ASSUME NEW h \in Runners, h # g PROVE FilesOf(h)'
      BY <2>1, <2>2, FilesKept DEF Others
    <2>3. CASE FetchReview(g)
      <3>1. PICK last, got : runner[g].at = "reviews" /\ Fetched(g, "reviews", last, got, "bundle")
        BY <2>3, FetchReviewSteps
      <3>2. runner'[g].at \in {"reviews", "bundle"}
        BY <3>1 DEF Fetched
      <3>3. \A j \in Jobs, x \in Pulls : job'[j].part["changed_files"][x] = job[j].part["changed_files"][x]
        BY <3>1, <1>0 DEF Fetched
      <3>4. FilesOf(g)'
        BY <3>2 DEF FilesOf, At
      <3>5. QED
        BY <3>3, <3>4, <2>2, <1>0 DEF FilesAtHand
    <2>4. CASE FetchFiles(g)
      BY <2>4, <2>2, FilesFetched DEF FilesAtHand
    <2>5. CASE UpsertBundle(g)
      <3>1. UNCHANGED job
        BY <2>5 DEF UpsertBundle
      <3>2. QED
        BY <3>1, <2>5, <2>2, <1>0, FilesBegun DEF FilesAtHand
    <2>6. CASE ListPulls(g) \/ GetPull(g) \/ EndPulls(g) \/ SyncEvents(g) \/ ReplaceFiles(g)
      <3>1. UNCHANGED job
        BY <2>6 DEF ListPulls, GetPull, EndPulls, SyncEvents, ReplaceFiles
      <3>2. runner'[g].at \in {"pull", "reviews", "checkpoint"}
        BY <2>6, <1>0, ListPullsSteps, GetPullSteps, EndPullsSteps, SyncEventsSteps, ReplaceFilesSteps
      <3>3. FilesOf(g)'
        BY <3>2 DEF FilesOf, At
      <3>4. QED
        BY <3>1, <3>3, <2>2, <1>0 DEF FilesAtHand
    <2>7. CASE MoveCheckpoint(g)
      <3>1. runner'[g].at \in {"list", "complete"} /\ \A j \in Jobs : job'[j].part = job[j].part
        BY <2>7, <2>1, <1>0, MoveCheckpointSteps
      <3>2. FilesOf(g)'
        BY <3>1 DEF FilesOf, At
      <3>3. QED
        BY <3>1, <3>2, <2>2, <1>0 DEF FilesAtHand
    <2>8. QED
      BY <1>4, <2>3, <2>4, <2>5, <2>6, <2>7 DEF Progress
  <1>5. ASSUME NEW g \in Runners, Complete(g) \/ Fail(g) PROVE FilesAtHand'
    <2>1. Others(g) /\ runner'[g].at = "free" /\ \A j \in Jobs : job'[j].part = job[j].part
      BY <1>5, EndFrame DEF OnlyStatus, Free
    <2>2. cut \subseteq cut'
      BY <1>5 DEF Complete, Fail
    <2>3. FilesOf(g)'
      BY <2>1 DEF FilesOf, At
    <2>4. ASSUME NEW h \in Runners, h # g PROVE FilesOf(h)'
      BY <2>1, <2>2, <2>4, FilesKept DEF Others
    <2>5. QED
      BY <2>1, <2>3, <2>4, <1>0 DEF FilesAtHand
  <1>6. QED
    BY <1>1, <1>2, <1>3, <1>4, <1>5, Steps

-----------------------------------------------------------------------------
LEMMA BaseInit == Init => Base
  <1> SUFFICES ASSUME Init PROVE Base
    OBVIOUS
  <1>0. TypeOK
    BY TypeInit
  <1>1. \A g \in Runners : runner[g] = Free
    BY DEF Init
  <1>2. \A g \in Runners : runner[g].at = "free" /\ runner[g].done = 0
    BY <1>1 DEF Free
  <1>3. \A j \in Jobs : job[j] = AbsentRow
    BY DEF Init
  <1>4. \A j \in Jobs :
          /\ job[j].status = "absent" /\ job[j].mode = None /\ job[j].from = None /\ job[j].first = 0
          /\ \A k \in Kinds : job[j].page[k] = None
          /\ \A l \in Lists, x \in Pulls : job[j].part[l][x] = None
    BY <1>3 DEF AbsentRow
  <1>5. now = 1 /\ lastSynced = 0 /\ \A x \in Item : updated[x] = 0
    BY DEF Init
  <1>6. RunsInv
    BY <1>2, <1>4 DEF RunsInv, Busy, At
  <1>7. ClockInv
    BY <1>2, <1>4, <1>5 DEF ClockInv
  <1>8. LinedUp
    <2>1. \A k \in Kinds : \A x \in Items(k) : ~Exists(x)
      BY <1>5, ItemShape DEF Exists
    <2>2. \A p \in Pulls : \A x \in Reviews(p) : ~Exists(x)
      BY <1>5, ReviewShape DEF Exists
    <2>3. \A y \in Review : updated[y] <= updated[PullOf(y)]
      BY <1>5, ReviewOfPull, PullShape
    <2>4. QED
      BY <2>1, <2>2, <2>3 DEF LinedUp
  <1>9. AtHand
    BY <1>2 DEF AtHand, HandOf, At
  <1>10. PartsInv /\ FilesAtHand
    BY <1>2, <1>4 DEF PartsInv, FilesAtHand, FilesOf, At, Lists
  <1>11. QED
    BY <1>0, <1>6, <1>7, <1>8, <1>9, <1>10 DEF Base

LEMMA BaseKept ==
  ASSUME Base, UNCHANGED vars
  PROVE  Base'
  BY DEF Base, vars, TypeOK, RunsInv, ClockInv, LinedUp, AtHand, HandOf, PartsInv, FilesAtHand, FilesOf,
         IsCut, Busy, At, JobOf, Exists

LEMMA BaseStep ==
  ASSUME Base, [Next]_vars
  PROVE  Base'
  <1>1. CASE Next
    BY <1>1, TypeStep, RunsStep, ClockStep, LinedUpStep, HandStep, PartsStep, FilesStep DEF Base
  <1>2. CASE UNCHANGED vars
    BY <1>2, BaseKept
  <1>3. QED
    BY <1>1, <1>2

\* Every state is well typed. That the page of a list a run is at stays within the
\* pages there are needs Base: what a run has at hand, and what its checkpoints hold.
THEOREM TypeCorrect == Spec => []TypeOK
  <1>1. Base => TypeOK
    BY DEF Base
  <1>2. QED
    BY <1>1, BaseInit, BaseStep, PTL DEF Spec

-----------------------------------------------------------------------------
(* What a step leaves of what was owed, excused and ahead.                   *)

\* What a step makes owed was owed before it: only an item that did not change.
LEMMA ItemBefore ==
  ASSUME Base, Next, NEW x \in Item, Exists(x)', x \notin missed', updated'[x] < now
  PROVE  updated'[x] = updated[x] /\ Exists(x) /\ x \notin missed
  <1>0. TypeOK /\ now \in Int
    BY DEF Base, TypeOK, Time
  <1>1. CASE GithubStep
    <2>1. /\ x \notin missed'
          /\ \/ updated'[x] = updated[x] /\ (x \in missed => x \in missed')
             \/ updated'[x] = now
             \/ updated'[x] <= now /\ x \in missed' /\ x \notin Pulls /\ x \notin Review
      BY <1>0, <1>1, GithubSteps DEF GithubMoves
    <2>2. updated'[x] # now
      BY <1>0
    <2>3. QED
      BY <2>1, <2>2 DEF Exists
  <1>2. CASE UNCHANGED updated /\ missed \subseteq missed'
    BY <1>2 DEF Exists
  <1>3. ASSUME NEW j \in Jobs, RequestStep(j) PROVE UNCHANGED updated /\ missed \subseteq missed'
    BY <1>3, RequestSteps DEF Base, RequestMoves
  <1>4. ASSUME NEW g \in Runners, NEW j \in Jobs, Start(g, j) PROVE UNCHANGED updated /\ missed \subseteq missed'
    BY <1>4 DEF Start
  <1>5. ASSUME NEW g \in Runners, Progress(g) PROVE UNCHANGED updated /\ missed \subseteq missed'
    BY <1>5, ProgressFrame
  <1>6. ASSUME NEW g \in Runners, Complete(g) \/ Fail(g) PROVE UNCHANGED updated /\ missed \subseteq missed'
    BY <1>6 DEF Complete, Fail
  <1>7. QED
    BY <1>1, <1>2, <1>3, <1>4, <1>5, <1>6, Steps

LEMMA ExistingBefore ==
  ASSUME Base, Next
  PROVE  \A x \in Item : Exists(x) => Exists(x)'
  <1>1. CASE GithubStep
    BY <1>1, GithubSteps DEF Base, GithubMoves
  <1>2. ASSUME NEW j \in Jobs, RequestStep(j) PROVE UNCHANGED updated
    BY <1>2, RequestSteps DEF Base, RequestMoves
  <1>3. ASSUME NEW g \in Runners, NEW j \in Jobs, Start(g, j) PROVE UNCHANGED updated
    BY <1>3 DEF Start
  <1>4. ASSUME NEW g \in Runners, Progress(g) PROVE UNCHANGED updated
    BY <1>4, ProgressFrame
  <1>5. ASSUME NEW g \in Runners, Complete(g) \/ Fail(g) PROVE UNCHANGED updated
    BY <1>5, EndFrame
  <1>6. CASE UNCHANGED updated
    BY <1>6 DEF Exists
  <1>7. QED
    BY <1>1, <1>2, <1>3, <1>4, <1>5, <1>6, Steps

LEMMA PagesKept ==
  ASSUME Base, Next, NEW x \in Listed
  PROVE  PageOf(x) \in Int /\ PageOf(x)' \in Int /\ PageOf(x) <= PageOf(x)'
  <1>1. x[1] \in Kinds /\ x \in Items(x[1]) /\ \A y \in Items(x[1]) : y \in Item
    BY ListedShape, ItemShape
  <1>2. \A y \in Items(x[1]) : Exists(y) => Exists(y)'
    BY <1>1, ExistingBefore
  <1>3. QED
    BY <1>1, <1>2, PagesGrow

\* No job and no sync is later than the clock was.
LEMMA FirstsBefore ==
  ASSUME Base, Next
  PROVE  /\ now \in Int /\ lastSynced' \in Int /\ lastSynced' <= now
         /\ \A j \in Jobs : job'[j].first \in Int /\ job'[j].first <= now
  <1>0. /\ TypeOK /\ now \in Int /\ now >= 0 /\ lastSynced \in Int /\ lastSynced <= now
        /\ \A j \in Jobs : job[j].first \in Int /\ job[j].first <= now
        /\ \A g \in Runners : runner[g].done \in Int /\ runner[g].done <= now
    BY RowTypes, RunnerTypes DEF Base, TypeOK, Time, ClockInv
  <1>1. CASE GithubStep
    BY <1>0, <1>1, GithubSteps DEF GithubMoves
  <1>2. ASSUME NEW j \in Jobs, RequestStep(j)
        PROVE  UNCHANGED lastSynced /\ \A i \in Jobs : job'[i].first \in {0, job[i].first}
    BY <1>2, RequestSteps DEF Base, RequestMoves
  <1>3. ASSUME NEW g \in Runners, NEW j \in Jobs, Start(g, j)
        PROVE  UNCHANGED lastSynced /\ \A i \in Jobs : job'[i].first \in {now, job[i].first}
    <2>1. \A i \in Jobs : job'[i].first = IF i = j /\ job[i].first = 0 THEN now ELSE job[i].first
      BY <1>0, <1>3, StartSteps
    <2>2. QED
      BY <2>1, <1>3 DEF Start
  <1>4. ASSUME NEW g \in Runners, Progress(g)
        PROVE  UNCHANGED lastSynced /\ \A i \in Jobs : job'[i].first = job[i].first
    BY <1>4, ProgressFrame DEF SameRows
  <1>5. ASSUME NEW g \in Runners, Complete(g) \/ Fail(g)
        PROVE  /\ lastSynced' = lastSynced \/ lastSynced' = runner[g].done
               /\ \A i \in Jobs : job'[i].first = job[i].first
    <2>1. \A i \in Jobs : job'[i].first = job[i].first
      BY <1>5, EndFrame DEF OnlyStatus
    <2>2. QED
      BY <2>1, <1>5 DEF Complete, Fail
  <1>6. QED
    BY <1>0, <1>1, <1>2, <1>3, <1>4, <1>5, Steps

LEMMA UnfinishedShape ==
  ASSUME Base, NEW j \in Jobs, NEW x \in Item
  PROVE  Unfinished(j, x) <=> /\ job[j].status \in {"pending", "running", "failed"}
                              /\ job[j].first # 0 /\ job[j].first <= updated[x]
  <1>1. job[j].first \in Nat /\ updated[x] \in Nat
    BY RowTypes, Bounds DEF Base, TypeOK, Time
  <1>2. QED
    BY <1>1 DEF Unfinished

\* What excused an item goes on to, unless the run that ends took note of the item.
LEMMA ExcusedKept ==
  ASSUME Base, Next, NEW x \in Item, updated'[x] = updated[x], updated[x] < now, x \notin missed',
         Exists(x), Excused(x)
  PROVE  Excused(x)'
  <1>0. TypeOK /\ RunsInv /\ now \in Int /\ updated[x] \in Int
    BY DEF Base, TypeOK, Time
  <1>1. PICK j \in Jobs :
          /\ Unfinished(j, x)
          /\ ~\E g \in Runners : runner[g].job = j /\ At(g, "complete") /\ runner[g].done <= updated[x]
    BY DEF Excused
  <1>2. job[j].status \in {"pending", "running", "failed"} /\ job[j].first \in 1 .. updated[x]
    BY <1>1 DEF Unfinished
  <1>3. SUFFICES /\ job'[j].status \in {"pending", "running", "failed"} /\ job'[j].first = job[j].first
                 /\ ~\E g \in Runners : /\ runner'[g].job = j /\ runner'[g].at = "complete"
                                        /\ runner'[g].done <= updated[x]
    BY <1>2 DEF Excused, Unfinished, At
  <1>4. CASE GithubStep
    BY <1>0, <1>1, <1>2, <1>4, GithubSteps DEF GithubMoves, At
  <1>5. ASSUME NEW i \in Jobs, RequestStep(i)
        PROVE  UNCHANGED runner /\ job'[j].status \in {"pending", "running", "failed"} /\ job'[j].first = job[j].first
    BY <1>0, <1>2, <1>5, RequestSteps DEF RequestMoves
  <1>6. ASSUME NEW g \in Runners, NEW i \in Jobs, Start(g, i)
        PROVE  /\ Others(g) /\ runner'[g].at = "list"
               /\ job'[j].status \in {"pending", "running", "failed"} /\ job'[j].first = job[j].first
    <2>1. /\ Others(g) /\ runner'[g].at = "list"
          /\ job'[j].status = IF j = i THEN "running" ELSE job[j].status
          /\ job'[j].first = IF j = i /\ job[j].first = 0 THEN now ELSE job[j].first
      BY <1>0, <1>6, StartSteps
    <2>2. QED
      BY <2>1, <1>2
  <1>7. ASSUME NEW g \in Runners, Progress(g)
        PROVE  /\ Others(g) /\ ~(runner'[g].at = "complete" /\ runner'[g].done <= updated[x])
               /\ job'[j].status = job[j].status /\ job'[j].first = job[j].first
    <2>1. Others(g) /\ job'[j].status = job[j].status /\ job'[j].first = job[j].first /\ runner[g].job \in Jobs
      BY <1>7, ProgressFrame DEF SameRows
    <2>2. CASE MoveCheckpoint(g)
      <3>1. runner'[g].at = "complete" => runner'[g].done = now
        BY <1>0, <2>1, <2>2, MoveCheckpointSteps
      <3>2. QED
        BY <2>1, <3>1, <1>0
    <2>3. CASE FetchReview(g)
      <3>1. PICK last, got : runner[g].at = "reviews" /\ Fetched(g, "reviews", last, got, "bundle")
        BY <2>3, FetchReviewSteps
      <3>2. QED
        BY <2>1, <3>1 DEF Fetched
    <2>4. CASE FetchFiles(g)
      <3>1. PICK last, got : runner[g].at = "files" /\ Fetched(g, "changed_files", last, got, "replace")
        BY <2>4, FetchFilesSteps
      <3>2. QED
        BY <2>1, <3>1 DEF Fetched
    <2>5. CASE ListPulls(g) \/ GetPull(g) \/ EndPulls(g) \/ SyncEvents(g) \/ UpsertBundle(g) \/ ReplaceFiles(g)
      <3>1. runner'[g].at \in {"pull", "reviews", "checkpoint", "files"}
        BY <2>5, <1>0, ListPullsSteps, GetPullSteps, EndPullsSteps, SyncEventsSteps, UpsertBundleSteps, ReplaceFilesSteps
      <3>2. QED
        BY <2>1, <3>1
    <2>6. QED
      BY <1>7, <2>2, <2>3, <2>4, <2>5 DEF Progress
  <1>8. ASSUME NEW g \in Runners, Complete(g)
        PROVE  /\ Others(g) /\ runner'[g].at = "free"
               /\ job'[j].status = job[j].status /\ job'[j].first = job[j].first
    <2>1. Others(g) /\ runner'[g].at = "free" /\ OnlyStatus(runner[g].job, "completed") /\ At(g, "complete")
          /\ missed' = missed \cup Unseen(runner[g])
      <3>1. Others(g) /\ runner'[g] = Free /\ runner[g].job \in Jobs
        BY <1>8, EndFrame
      <3>2. OnlyStatus(runner[g].job, "completed")
        BY <1>0, <1>8, <3>1, CompleteSteps
      <3>3. QED
        BY <1>8, <3>1, <3>2 DEF Complete, Free
    <2>2. j # runner[g].job
      <3>1. SUFFICES ASSUME j = runner[g].job PROVE FALSE
        OBVIOUS
      <3>2. ~(runner[g].done <= updated[x]) /\ runner[g].done \in Int
        BY <1>0, <1>1, <2>1, <3>1, RunnerTypes DEF Time
      <3>3. job[runner[g].job].first <= updated[x] /\ updated[x] < runner[g].done
        BY <1>0, <1>2, <3>1, <3>2
      <3>4. x \in Unseen(runner[g])
        BY <3>3 DEF Unseen
      <3>5. QED
        BY <3>4, <2>1
    <2>3. QED
      BY <2>1, <2>2 DEF OnlyStatus
  <1>9. ASSUME NEW g \in Runners, Fail(g)
        PROVE  /\ Others(g) /\ runner'[g].at = "free"
               /\ job'[j].status \in {"pending", "running", "failed"} /\ job'[j].first = job[j].first
    <2>1. Others(g) /\ runner'[g] = Free /\ runner[g].job \in Jobs
      BY <1>9, EndFrame
    <2>2. OnlyStatus(runner[g].job, "failed")
      BY <1>0, <1>9, <2>1, FailSteps
    <2>3. QED
      BY <2>1, <2>2, <1>2 DEF OnlyStatus, Free
  <1>10. QED
    <2>1. CASE \E i \in Jobs : RequestStep(i)
      BY <1>1, <1>5, <2>1 DEF At
    <2>2. CASE \E g \in Runners, i \in Jobs : Start(g, i)
      BY <1>1, <1>6, <2>2 DEF At, Others
    <2>3. CASE \E g \in Runners : Progress(g)
      BY <1>1, <1>2, <1>7, <2>3 DEF At, Others
    <2>4. CASE \E g \in Runners : Complete(g)
      BY <1>1, <1>2, <1>8, <2>4 DEF At, Others
    <2>5. CASE \E g \in Runners : Fail(g)
      BY <1>1, <1>9, <2>5 DEF At, Others
    <2>6. QED
      BY <1>4, <2>1, <2>2, <2>3, <2>4, <2>5, Steps

\* Of a run that is left alone, its job is too.
Elsewhere(h) ==
  \/ GithubStep
  \/ \E j \in Jobs : RequestStep(j)
  \/ \E g \in Runners \ {h}, j \in Jobs : Start(g, j)
  \/ \E g \in Runners \ {h} : Progress(g) \/ Complete(g) \/ Fail(g)

LEMMA OtherRuns ==
  ASSUME Base, NEW h \in Runners, Busy(h), Elsewhere(h)
  PROVE  /\ runner'[h] = runner[h] /\ runner[h].job \in Jobs
         /\ job'[runner[h].job].first = JobOf(h).first
         /\ \A k \in Kinds : job'[runner[h].job].page[k] = JobOf(h).page[k]
  <1>0. TypeOK /\ runner[h].job \in Jobs /\ JobOf(h).status = "running"
        /\ \A g \in Runners \ {h} : Busy(g) => runner[g].job # runner[h].job
    BY DEF Base, RunsInv
  <1>1. job'[runner[h].job].first = JobOf(h).first
    BY FirstKept DEF Elsewhere
  <1>2. CASE GithubStep
    BY <1>0, <1>1, <1>2, GithubSteps DEF GithubMoves, JobOf
  <1>3. ASSUME NEW j \in Jobs, RequestStep(j)
        PROVE  runner'[h] = runner[h] /\ \A k \in Kinds : job'[runner[h].job].page[k] = JobOf(h).page[k]
    <2>1. RequestMoves(j)
      BY <1>3, RequestSteps DEF Base
    <2>2. CASE runner[h].job = j
      BY <1>0, <2>1, <2>2 DEF RequestMoves, JobOf
    <2>3. CASE runner[h].job # j
      BY <1>0, <2>1, <2>3 DEF RequestMoves, JobOf
    <2>4. QED
      BY <2>2, <2>3
  <1>4. ASSUME NEW g \in Runners \ {h}, NEW j \in Jobs, Start(g, j)
        PROVE  runner'[h] = runner[h] /\ \A k \in Kinds : job'[runner[h].job].page[k] = JobOf(h).page[k]
    <2>1. Others(g) /\ \A i \in Jobs : job'[i].page = job[i].page
      BY <1>0, <1>4, StartSteps
    <2>2. QED
      BY <2>1, <1>0 DEF Others, JobOf
  <1>5. ASSUME NEW g \in Runners \ {h}, Progress(g)
        PROVE  runner'[h] = runner[h] /\ \A k \in Kinds : job'[runner[h].job].page[k] = JobOf(h).page[k]
    <2>1. Others(g) /\ Busy(g) /\ \A j \in Jobs : j # runner[g].job => SameCheckpoints(j)
      BY <1>5, ProgressFrame
    <2>2. QED
      BY <2>1, <1>0 DEF Others, JobOf, SameCheckpoints
  <1>6. ASSUME NEW g \in Runners \ {h}, Complete(g) \/ Fail(g)
        PROVE  runner'[h] = runner[h] /\ \A k \in Kinds : job'[runner[h].job].page[k] = JobOf(h).page[k]
    <2>1. Others(g) /\ \A i \in Jobs : job'[i].page = job[i].page
      BY <1>6, EndFrame DEF OnlyStatus
    <2>2. QED
      BY <2>1, <1>0 DEF Others, JobOf
  <1>7. QED
    BY <1>0, <1>1, <1>2, <1>3, <1>4, <1>5, <1>6 DEF Elsewhere

LEMMA RunOrElsewhere ==
  ASSUME Base, Next, NEW h \in Runners, Busy(h)'
  PROVE  \/ Busy(h) /\ Elsewhere(h)
         \/ \E j \in Jobs : Start(h, j)
         \/ Progress(h)
  <1>0. TypeOK
    BY DEF Base
  <1>1. CASE GithubStep
    BY <1>0, <1>1, GithubSteps DEF GithubMoves, Elsewhere, Busy, At
  <1>2. ASSUME NEW j \in Jobs, RequestStep(j) PROVE Busy(h) /\ Elsewhere(h)
    BY <1>2, RequestSteps DEF Base, RequestMoves, Elsewhere, Busy, At
  <1>3. ASSUME NEW g \in Runners, NEW j \in Jobs, Start(g, j), g # h PROVE Busy(h) /\ Elsewhere(h)
    BY <1>0, <1>3, StartSteps DEF Elsewhere, Others, Busy, At
  <1>4. ASSUME NEW g \in Runners, Progress(g), g # h PROVE Busy(h) /\ Elsewhere(h)
    BY <1>4, ProgressFrame DEF Elsewhere, Others, Busy, At
  <1>5. ASSUME NEW g \in Runners, Complete(g) \/ Fail(g) PROVE Busy(h) /\ Elsewhere(h)
    <2>1. g # h /\ Others(g)
      BY <1>5, EndFrame DEF Busy, At, Free
    <2>2. QED
      BY <2>1, <1>5 DEF Elsewhere, Others, Busy, At
  <1>6. QED
    BY <1>1, <1>2, <1>3, <1>4, <1>5, Steps

LEMMA PageTypes ==
  ASSUME Base, NEW j \in Jobs, NEW k \in Kinds
  PROVE  Resume(job[j].page[k]) \in PageNo
  BY RowTypes, ResumeTypes DEF Base

\* An item that exists is on the first page or on a later one.
LEMMA ListedPage ==
  ASSUME Base, NEW x \in Listed, Exists(x)
  PROVE  PageOf(x) \in PageNo
  BY ListedShape, PageOfShape DEF Base

LEMMA AwaitedKept ==
  ASSUME Base, Next, NEW h \in Runners, Busy(h), Elsewhere(h), NEW x \in Listed, Awaited(h, x)
  PROVE  Awaited(h, x)'
  <1>0. /\ x[1] \in Kinds /\ runner[h].kind \in Kinds /\ runner[h].page \in PageNo
        /\ runner[h].next \in Nat
    BY ListedShape, RunnerTypes DEF Base
  <1>1. /\ runner'[h] = runner[h] /\ runner[h].job \in Jobs
        /\ \A k \in Kinds : job'[runner[h].job].page[k] = JobOf(h).page[k]
    BY OtherRuns
  <1>2. PageOf(x) \in Int /\ PageOf(x)' \in Int /\ PageOf(x) <= PageOf(x)'
    BY PagesKept
  <1>3. Resume(JobOf(h).page[x[1]]) \in PageNo /\ job'[runner[h].job].page[x[1]] = JobOf(h).page[x[1]]
    BY <1>0, <1>1, PageTypes DEF JobOf
  <1> DEFINE p == Resume(JobOf(h).page[x[1]])
             q == Resume(job'[runner[h].job].page[x[1]])
  <1>4. q = p
    BY <1>3
  <1> HIDE DEF p, q
  <1>5. /\ PageOf(x) >= p => PageOf(x)' >= q
        /\ PageOf(x) >= runner[h].page => PageOf(x)' >= runner[h].page
        /\ PageOf(x) >= runner[h].next => PageOf(x)' >= runner[h].next
    BY <1>0, <1>2, <1>3, <1>4 DEF PageNo, p
  <1>6. QED
    BY <1>1, <1>5 DEF Awaited, At, JobOf, p, q

\* Where a job resumes from, everything that comes from there on is awaited.
LEMMA AwaitedStart ==
  ASSUME Base, Next, NEW g \in Runners, NEW j \in Jobs, Start(g, j), NEW x \in Listed,
         PageOf(x)' >= Resume(job'[j].page[x[1]])
  PROVE  Awaited(g, x)'
  <1>0. x[1] \in Kinds /\ TypeOK
    BY ListedShape DEF Base
  <1>1. /\ runner'[g].job = j /\ runner'[g].at = "list" /\ runner'[g].kind = Pull
        /\ runner'[g].page = Resume(job[j].page[Pull]) /\ job'[j].page = job[j].page
    BY <1>0, StartSteps
  <1>2. CASE x[1] = Pull
    <2>1. PageOf(x)' >= runner'[g].page
      BY <1>1, <1>2
    <2>2. QED
      BY <2>1, <1>1, <1>2 DEF Awaited, At
  <1>3. CASE x[1] > Pull
    BY <1>1, <1>3 DEF Awaited, JobOf
  <1>4. QED
    BY <1>0, <1>2, <1>3 DEF Kinds, Pull

\* What is on a page or after it is listed now or on a later page.
LEMMA OnPageOrLater ==
  ASSUME Base, NEW x \in Listed, Exists(x), NEW p \in PageNo, PageOf(x) >= p
  PROVE  x \in Page(x[1], p) \/ (NextPage(x[1], p) # 0 /\ PageOf(x) >= NextPage(x[1], p))
  <1>1. x[1] \in Kinds /\ x \in Items(x[1]) /\ PageOf(x) \in PageNo
    BY ListedShape, ListedPage
  <1>2. CASE PageOf(x) = p
    BY <1>1, <1>2, OnPage
  <1>3. CASE PageOf(x) > p
    <2>1. NextPage(x[1], p) = p + 1 /\ NextPage(x[1], p) # 0
      BY <1>1, <1>3, OnLaterPage
    <2>2. PageOf(x) >= p + 1
      BY <1>1, <1>3 DEF PageNo
    <2>3. QED
      BY <2>1, <2>2
  <1>4. QED
    BY <1>1, <1>2, <1>3 DEF PageNo

\* A step of a run leaves what it awaits awaited, or comes to it.
LEMMA AwaitedProgress ==
  ASSUME Base, Next, NEW g \in Runners, Progress(g), NEW x \in Listed, Exists(x),
         Include(x, runner[g].cutoff), Awaited(g, x)
  PROVE  \/ Awaited(g, x)' /\ ~At(g, "complete")'
         \/ /\ GetPull(g) /\ At(g, "reviews")'
            /\ runner'[g].item = x /\ runner'[g].version = updated[x]
         \/ SyncEvents(g) /\ x[1] # Pull /\ stored'[x] = updated[x]
  <1> DEFINE r == runner[g]
             s == runner'[g]
  <1>0. /\ x[1] \in Kinds /\ r.kind \in Kinds /\ r.page \in PageNo /\ r.next \in Nat /\ x \in Item
        /\ TypeOK /\ r.job \in Jobs /\ s.job = r.job /\ UNCHANGED updated
    BY ListedShape, RunnerTypes, ProgressFrame DEF Base, SameRun
  <1>1. PageOf(x) \in Int /\ PageOf(x)' \in Int /\ PageOf(x) <= PageOf(x)'
    BY PagesKept
  <1>2. \A p \in Int : PageOf(x) >= p => PageOf(x)' >= p
    BY <1>1
  <1>3. \A k \in Kinds : Resume(JobOf(g).page[k]) \in PageNo
    BY <1>0, PageTypes DEF JobOf
  <1>4. ASSUME s.kind = r.kind, x[1] > r.kind, PageOf(x) >= Resume(JobOf(g).page[x[1]]),
               \A k \in Kinds : k > r.kind => job'[r.job].page[k] = JobOf(g).page[k]
        PROVE  Awaited(g, x)'
    <2>1. job'[r.job].page[x[1]] = JobOf(g).page[x[1]]
      BY <1>0, <1>4
    <2>2. PageOf(x)' >= Resume(JobOf(g).page[x[1]])
      BY <1>0, <1>2, <1>3, <1>4 DEF PageNo
    <2>3. PageOf(x)' >= Resume(job'[r.job].page[x[1]])
      BY <2>1, <2>2
    <2>4. QED
      BY <2>3, <1>0, <1>4 DEF Awaited, JobOf
  <1>5. CASE ListPulls(g)
    <2>1. /\ r.at = "list" /\ s.at = "pull" /\ r.kind = Pull /\ s.kind = r.kind
          /\ s.next = NextPage(Pull, r.page) /\ s.batch = {y \in Page(Pull, r.page) : Include(y, r.cutoff)}
          /\ UNCHANGED job
      BY <1>0, <1>5, ListPullsSteps DEF ListPulls
    <2>2. CASE x[1] > r.kind
      <3>1. PageOf(x) >= Resume(JobOf(g).page[x[1]])
        BY <1>0, <2>1, <2>2 DEF Awaited, At, Kinds
      <3>2. QED
        BY <3>1, <2>1, <2>2, <1>4 DEF At, JobOf
    <2>3. CASE x[1] = r.kind
      <3>1. PageOf(x) >= r.page
        BY <1>0, <2>1, <2>3 DEF Awaited, At, Kinds
      <3>2. x \in Page(Pull, r.page) \/ (NextPage(Pull, r.page) # 0 /\ PageOf(x) >= NextPage(Pull, r.page))
        BY <3>1, <1>0, <2>1, <2>3, OnPageOrLater
      <3>3. x \in s.batch \/ (s.next # 0 /\ PageOf(x)' >= s.next)
        BY <3>2, <2>1, <1>0, <1>2, NextPageShape
      <3>4. QED
        BY <3>3, <2>1, <2>3 DEF Awaited, At
    <2>4. ASSUME x[1] < r.kind PROVE FALSE
      BY <2>1, <2>4, <1>0 DEF Kinds, Pull
    <2>5. QED
      BY <2>2, <2>3, <2>4, <1>0 DEF Kinds
  <1>6. CASE SyncEvents(g)
    <2>1. /\ r.at = "list" /\ s.at = "checkpoint" /\ r.kind # Pull /\ s.kind = r.kind
          /\ s.next = NextPage(r.kind, r.page) /\ UNCHANGED job
          /\ stored'[x] = IF x \in Page(r.kind, r.page) /\ Include(x, r.cutoff) THEN updated[x] ELSE stored[x]
      BY <1>0, <1>6, SyncEventsSteps DEF SyncEvents
    <2>2. CASE x[1] > r.kind
      <3>1. PageOf(x) >= Resume(JobOf(g).page[x[1]])
        BY <1>0, <2>1, <2>2 DEF Awaited, At, Kinds
      <3>2. QED
        BY <3>1, <2>1, <2>2, <1>4 DEF At, JobOf
    <2>3. CASE x[1] = r.kind
      <3>1. PageOf(x) >= r.page
        BY <1>0, <2>1, <2>3 DEF Awaited, At, Kinds
      <3>2. x \in Page(r.kind, r.page) \/ (NextPage(r.kind, r.page) # 0 /\ PageOf(x) >= NextPage(r.kind, r.page))
        BY <3>1, <1>0, <2>3, OnPageOrLater
      <3>3. CASE x \in Page(r.kind, r.page)
        BY <3>3, <2>1, <2>3, <1>6
      <3>4. CASE s.next # 0 /\ PageOf(x) >= s.next
        <4>1. PageOf(x)' >= s.next
          BY <3>4, <2>1, <1>0, <1>2, NextPageShape
        <4>2. QED
          BY <4>1, <3>4, <2>1, <2>3 DEF Awaited, At
      <3>5. QED
        BY <3>2, <3>3, <3>4, <2>1
    <2>4. ASSUME x[1] < r.kind PROVE FALSE
      BY <2>1, <2>4, <1>0 DEF Awaited, At, Kinds
    <2>5. QED
      BY <2>2, <2>3, <2>4, <1>0 DEF Kinds
  <1>7. CASE MoveCheckpoint(g)
    <2>1. /\ r.at = "checkpoint"
          /\ \/ /\ r.next # 0 /\ s.at = "list" /\ s.kind = r.kind /\ s.page = r.next
             \/ /\ r.next = 0 /\ r.kind < LastKind /\ s.at = "list" /\ s.kind = r.kind + 1
                /\ s.page = Resume(JobOf(g).page[r.kind + 1])
             \/ r.next = 0 /\ r.kind = LastKind
          /\ \A k \in Kinds : k # r.kind => job'[r.job].page[k] = JobOf(g).page[k]
      BY <1>0, <1>7, MoveCheckpointSteps DEF JobOf
    <2>2. \/ x[1] > r.kind /\ PageOf(x) >= Resume(JobOf(g).page[x[1]])
          \/ x[1] = r.kind /\ r.next # 0 /\ PageOf(x) >= r.next
      BY <2>1 DEF Awaited, At
    <2>3. CASE r.next # 0 /\ s.at = "list" /\ s.kind = r.kind /\ s.page = r.next
      <3>1. CASE x[1] > r.kind /\ PageOf(x) >= Resume(JobOf(g).page[x[1]])
        <4>1. \A k \in Kinds : k > r.kind => job'[r.job].page[k] = JobOf(g).page[k]
          BY <2>1, <1>0 DEF Kinds
        <4>2. QED
          BY <4>1, <3>1, <2>3, <1>4 DEF At
      <3>2. CASE x[1] = r.kind /\ PageOf(x) >= r.next
        <4>1. PageOf(x)' >= s.page
          BY <3>2, <2>3, <1>0, <1>2
        <4>2. QED
          BY <4>1, <3>2, <2>3 DEF Awaited, At
      <3>3. QED
        BY <2>2, <3>1, <3>2
    <2>4. CASE /\ r.next = 0 /\ r.kind < LastKind /\ s.at = "list" /\ s.kind = r.kind + 1
               /\ s.page = Resume(JobOf(g).page[r.kind + 1])
      <3>1. x[1] > r.kind /\ PageOf(x) >= Resume(JobOf(g).page[x[1]])
        BY <2>2, <2>4
      <3>2. PageOf(x)' >= Resume(JobOf(g).page[x[1]])
        BY <3>1, <1>0, <1>2, <1>3 DEF PageNo
      <3>3. CASE x[1] = r.kind + 1
        <4>1. PageOf(x)' >= s.page
          BY <3>2, <3>3, <2>4
        <4>2. QED
          BY <4>1, <3>3, <2>4 DEF Awaited, At
      <3>4. CASE x[1] > r.kind + 1
        <4>1. job'[r.job].page[x[1]] = JobOf(g).page[x[1]]
          BY <2>1, <3>1, <1>0 DEF Kinds
        <4>2. PageOf(x)' >= Resume(job'[r.job].page[x[1]])
          BY <4>1, <3>2
        <4>3. QED
          BY <4>2, <3>4, <2>4, <1>0 DEF Awaited, At, JobOf
      <3>5. QED
        BY <3>1, <3>3, <3>4, <1>0 DEF Kinds
    <2>5. ASSUME r.next = 0, r.kind = LastKind PROVE FALSE
      BY <2>2, <2>5, <1>0 DEF Kinds, LastKind
    <2>6. QED
      BY <2>1, <2>3, <2>4, <2>5
  <1>8. ASSUME s.kind = r.kind, s.next = r.next,
               \A k \in Kinds : job'[r.job].page[k] = JobOf(g).page[k],
               r.at \notin {"list", "checkpoint"}, s.at \notin {"list", "complete"},
               x \in r.batch => s.at # "checkpoint" /\ x \in s.batch
        PROVE  Awaited(g, x)' /\ ~At(g, "complete")'
    <2>1. \/ x[1] > r.kind /\ PageOf(x) >= Resume(JobOf(g).page[x[1]])
          \/ x[1] = r.kind /\ r.next # 0 /\ PageOf(x) >= r.next
          \/ x \in r.batch
      BY <1>8 DEF Awaited, At
    <2>2. CASE x[1] > r.kind /\ PageOf(x) >= Resume(JobOf(g).page[x[1]])
      BY <2>2, <1>4, <1>8 DEF At
    <2>3. CASE x[1] = r.kind /\ r.next # 0 /\ PageOf(x) >= r.next
      <3>1. PageOf(x)' >= s.next
        BY <2>3, <1>0, <1>2, <1>8
      <3>2. QED
        BY <3>1, <2>3, <1>8 DEF Awaited, At
    <2>4. CASE x \in r.batch
      BY <2>4, <1>8 DEF Awaited, At
    <2>5. QED
      BY <2>1, <2>2, <2>3, <2>4
  <1>9. CASE GetPull(g)
    <2>1. /\ r.at = "pull" /\ s.at = "reviews" /\ s.kind = r.kind /\ s.next = r.next
          /\ s.batch = r.batch \ {s.item} /\ s.version = updated[s.item] /\ UNCHANGED job
      <3>1. UNCHANGED job
        BY <1>9 DEF GetPull
      <3>2. QED
        BY <1>0, <1>9, <3>1, GetPullSteps
    <2>2. CASE s.item = x
      BY <2>1, <2>2, <1>9 DEF At
    <2>3. CASE s.item # x
      <3>1. Awaited(g, x)' /\ ~At(g, "complete")'
        BY <2>1, <2>3, <1>8 DEF JobOf
      <3>2. QED
        BY <3>1
    <2>4. QED
      BY <2>2, <2>3
  <1>10. CASE EndPulls(g)
    <2>1. /\ r.at = "pull" /\ s.at = "checkpoint" /\ s.kind = r.kind /\ s.next = r.next
          /\ r.batch = {} /\ UNCHANGED job
      BY <1>0, <1>10, EndPullsSteps DEF EndPulls
    <2>2. Awaited(g, x)' /\ ~At(g, "complete")'
      BY <2>1, <1>8 DEF JobOf
    <2>3. QED
      BY <2>2
  <1>11. ASSUME NEW l, NEW last, NEW got, NEW then, Fetched(g, l, last, got, then),
                r.at \in {"reviews", "files"}, then \in {"bundle", "replace"}
         PROVE  Awaited(g, x)' /\ ~At(g, "complete")'
    <2>1. /\ s.at \in {"reviews", "files", "bundle", "replace"} /\ s.kind = r.kind /\ s.next = r.next
          /\ s.batch = r.batch /\ job'[r.job].page = JobOf(g).page
      BY <1>0, <1>11 DEF Fetched, JobOf
    <2>2. QED
      BY <2>1, <1>8, <1>11
  <1>12. CASE FetchReview(g)
    <2>1. PICK last, got : runner[g].at = "reviews" /\ Fetched(g, "reviews", last, got, "bundle")
      BY <1>12, FetchReviewSteps
    <2>2. QED
      BY <2>1, <1>11
  <1>13. CASE FetchFiles(g)
    <2>1. PICK last, got : runner[g].at = "files" /\ Fetched(g, "changed_files", last, got, "replace")
      BY <1>13, FetchFilesSteps
    <2>2. QED
      BY <2>1, <1>11
  <1>14. CASE UpsertBundle(g) \/ ReplaceFiles(g)
    <2>1. /\ r.at \in {"bundle", "replace"} /\ s.at \in {"files", "pull"} /\ s.kind = r.kind
          /\ s.next = r.next /\ s.batch = r.batch
      BY <1>0, <1>14, UpsertBundleSteps, ReplaceFilesSteps
    <2>2. UNCHANGED job
      BY <1>14 DEF UpsertBundle, ReplaceFiles
    <2>3. QED
      BY <2>1, <2>2, <1>8 DEF JobOf
  <1>15. QED
    BY <1>5, <1>6, <1>7, <1>9, <1>10, <1>12, <1>13, <1>14 DEF Progress

\* Where the job of a run resumes from: its checkpoint moves past a page only when the
\* run awaits nothing of that page.
LEMMA ResumeProgress ==
  ASSUME Base, Next, NEW g \in Runners, Progress(g), NEW x \in Listed, Exists(x),
         IF MoveCheckpoint(g) /\ x[1] = runner[g].kind THEN Awaited(g, x)
         ELSE PageOf(x) >= Resume(JobOf(g).page[x[1]])
  PROVE  PageOf(x)' >= Resume(job'[runner[g].job].page[x[1]])
  <1> DEFINE r == runner[g]
  <1>0. /\ x[1] \in Kinds /\ r.kind \in Kinds /\ r.next \in Nat /\ TypeOK /\ r.job \in Jobs
    BY ListedShape, RunnerTypes, ProgressFrame DEF Base
  <1>1. PageOf(x) \in PageNo /\ PageOf(x)' \in Int /\ PageOf(x) <= PageOf(x)'
    BY PagesKept, ListedPage
  <1>2. Resume(JobOf(g).page[x[1]]) \in PageNo
    BY <1>0, PageTypes DEF JobOf
  <1>3. ASSUME job'[r.job].page[x[1]] = JobOf(g).page[x[1]], PageOf(x) >= Resume(JobOf(g).page[x[1]])
        PROVE  PageOf(x)' >= Resume(job'[r.job].page[x[1]])
    <2>1. PageOf(x)' >= Resume(JobOf(g).page[x[1]])
      BY <1>1, <1>2, <1>3 DEF PageNo
    <2>2. QED
      BY <2>1, <1>3
  <1>4. CASE MoveCheckpoint(g)
    <2>1. r.at = "checkpoint"
      BY <1>0, <1>4, MoveCheckpointSteps
    <2>2. job'[r.job].page[x[1]] = IF x[1] = r.kind THEN IF r.next = 0 THEN None ELSE r.next
                                   ELSE JobOf(g).page[x[1]]
      BY <1>0, <1>4, MoveCheckpointSteps DEF JobOf
    <2>3. CASE x[1] = r.kind
      <3>1. r.next # 0 /\ PageOf(x) >= r.next
        BY <1>0, <1>4, <2>1, <2>3 DEF Awaited, At, Kinds
      <3>2. Resume(job'[r.job].page[x[1]]) = r.next
        BY <3>1, <2>2, <2>3, <1>0, Nones DEF Resume
      <3>3. QED
        BY <3>1, <3>2, <1>0, <1>1 DEF PageNo
    <2>4. CASE x[1] # r.kind
      BY <2>2, <2>4, <1>3, <1>4
    <2>5. QED
      BY <2>3, <2>4
  <1>5. CASE ~MoveCheckpoint(g)
    <2>1. job'[r.job].page = JobOf(g).page
      <3>1. CASE FetchReview(g)
        <4>1. PICK last, got : Fetched(g, "reviews", last, got, "bundle")
          BY <3>1, FetchReviewSteps
        <4>2. QED
          BY <4>1, <1>0 DEF Fetched, JobOf
      <3>2. CASE FetchFiles(g)
        BY <3>2, <1>0, FetchFilesSteps DEF Fetched, JobOf
      <3>3. CASE ListPulls(g) \/ GetPull(g) \/ EndPulls(g) \/ SyncEvents(g) \/ UpsertBundle(g) \/ ReplaceFiles(g)
        <4>1. UNCHANGED job
          BY <3>3 DEF ListPulls, GetPull, EndPulls, SyncEvents, UpsertBundle, ReplaceFiles
        <4>2. QED
          BY <4>1 DEF JobOf
      <3>4. QED
        BY <3>1, <3>2, <3>3, <1>5 DEF Progress
    <2>2. QED
      BY <2>1, <1>3, <1>5
  <1>6. QED
    BY <1>4, <1>5

\* Where a job that no step of its run moves resumes from.
LEMMA ResumeKept ==
  ASSUME Base, Next, NEW j \in Jobs, NEW x \in Listed, job'[j].page[x[1]] = job[j].page[x[1]],
         PageOf(x) >= Resume(job[j].page[x[1]])
  PROVE  PageOf(x)' >= Resume(job'[j].page[x[1]])
  <1>1. PageOf(x) \in Int /\ PageOf(x)' \in Int /\ PageOf(x) <= PageOf(x)'
    BY PagesKept
  <1>2. Resume(job[j].page[x[1]]) \in PageNo
    BY ListedShape, PageTypes
  <1>3. PageOf(x)' >= Resume(job[j].page[x[1]])
    BY <1>1, <1>2 DEF PageNo
  <1>4. QED
    BY <1>3

\* What stays stored. A run that stores an older version excuses the item.
LEMMA StoredKept ==
  ASSUME Base, Next, NEW x \in Listed, updated'[x] = updated[x], ~Excused(x)', IsStored(x)
  PROVE  IsStored(x)'
  <1>0. TypeOK /\ RunsInv /\ AtHand /\ x \in Item
    BY ListedShape DEF Base
  <1>1. CASE UNCHANGED stored
    BY <1>1 DEF IsStored
  <1>2. CASE GithubStep
    BY <1>0, <1>1, <1>2, GithubSteps DEF GithubMoves
  <1>3. ASSUME NEW j \in Jobs, RequestStep(j) PROVE UNCHANGED stored
    BY <1>0, <1>3, RequestSteps DEF RequestMoves
  <1>4. ASSUME NEW g \in Runners, NEW j \in Jobs, Start(g, j) PROVE UNCHANGED stored
    BY <1>4 DEF Start
  <1>5. ASSUME NEW g \in Runners, Complete(g) \/ Fail(g) PROVE UNCHANGED stored
    BY <1>5, EndFrame
  <1>6. ASSUME NEW g \in Runners, SyncEvents(g) PROVE IsStored(x)'
    <2>1. stored'[x] = IF x \in Page(runner[g].kind, runner[g].page) /\ Include(x, runner[g].cutoff)
                       THEN updated[x] ELSE stored[x]
      BY <1>0, <1>6, SyncEventsSteps
    <2>2. QED
      BY <2>1 DEF IsStored
  <1>7. ASSUME NEW g \in Runners, UpsertBundle(g) PROVE IsStored(x)'
    <2> DEFINE r == runner[g]
               s == runner'[g]
    <2>1. /\ r.at = "bundle" /\ s.at = "files" /\ Others(g) /\ UNCHANGED job
          /\ stored'[x] = IF x = r.item THEN r.version
                          ELSE IF x \in Reviews(r.item) /\ x[3] \in r.got THEN updated[x] ELSE stored[x]
      BY <1>0, <1>7, UpsertBundleSteps DEF UpsertBundle
    <2>2. Busy(g) /\ r.job \in Jobs /\ JobOf(g).status = "running" /\ JobOf(g).first # 0
      BY <1>0, <2>1 DEF RunsInv, Busy, At
    <2>3. CASE x # r.item \/ r.version = updated[x]
      BY <2>1, <2>3 DEF IsStored
    <2>4. ASSUME x = r.item, r.version # updated[x] PROVE FALSE
      <3>1. JobOf(g).first <= updated[x]
        BY <1>0, <2>1, <2>4 DEF AtHand, HandOf, At
      <3>0. PICK j \in Jobs : j = r.job
        BY <2>2
      <3>2. Unfinished(j, x)
        BY <1>0, <2>2, <3>0, <3>1, UnfinishedShape DEF JobOf
      <3>3. Unfinished(j, x)'
        BY <3>2, <2>1 DEF Unfinished
      <3>4. ASSUME NEW h \in Runners, runner'[h].job = j, At(h, "complete")' PROVE FALSE
        <4>1. h # g /\ runner[h].job = r.job /\ Busy(h)
          BY <3>0, <3>4, <2>1 DEF At, Others, Busy
        <4>2. QED
          BY <4>1, <2>2, <1>0 DEF RunsInv
      <3>5. Excused(x)'
        BY <3>3, <3>4 DEF Excused
      <3>6. QED
        BY <3>5
    <2>5. QED
      BY <2>3, <2>4
  <1>8. ASSUME NEW g \in Runners, ListPulls(g) \/ GetPull(g) \/ EndPulls(g) \/ MoveCheckpoint(g)
                                  \/ FetchReview(g) \/ FetchFiles(g) \/ ReplaceFiles(g)
        PROVE  UNCHANGED stored
    BY <1>8 DEF ListPulls, GetPull, EndPulls, MoveCheckpoint, FetchReview, FetchFiles, FetchPart, ReplaceFiles
  <1>9. QED
    BY <1>1, <1>2, <1>3, <1>4, <1>5, <1>6, <1>7, <1>8, Steps DEF Progress

-----------------------------------------------------------------------------
(* Every change that is due is stored.                                       *)

Covers == Base /\ RunCovers /\ JobCovers /\ SyncedCovers

LEMMA OwedShape ==
  ASSUME NEW x, NEW first, NEW from
  PROVE  Owed(x, first, from) <=> /\ Exists(x) /\ updated[x] < first /\ x \notin missed
                                  /\ from # None => from <= updated[x]
  BY DEF Owed

Active == {"pending", "running", "failed"}

LEMMA JobKept ==
  ASSUME Covers, Next, NEW j \in Jobs, NEW x \in Listed,
         job[j].status \in Active, job'[j].first = job[j].first,
         job'[j].page[x[1]] = job[j].page[x[1]],
         FromOf(job'[j]) = FromOf(job[j]) \/ FromOf(job[j]) = None,
         Exists(x)', updated'[x] < job'[j].first, x \notin missed', ~Excused(x)',
         FromOf(job'[j]) # None => FromOf(job'[j]) <= updated'[x]
  PROVE  IsStored(x)' \/ PageOf(x)' >= Resume(job'[j].page[x[1]])
  <1>0. Base /\ x \in Item /\ x[1] \in Kinds
    BY ListedShape DEF Covers
  <1>1. updated'[x] < now
    <2>1. job'[j].first \in Int /\ job'[j].first <= now /\ now \in Int
      BY <1>0, FirstsBefore
    <2>2. updated'[x] \in Int
      BY <1>0, TypeStep DEF TypeOK, Time
    <2>3. QED
      BY <2>1, <2>2
  <1>2. updated'[x] = updated[x] /\ Exists(x) /\ x \notin missed
    BY <1>0, <1>1, ItemBefore
  <1>3. ~Excused(x)
    BY <1>0, <1>1, <1>2, ExcusedKept
  <1>4. Owed(x, job[j].first, FromOf(job[j]))
    BY <1>2, OwedShape
  <1>5. IsStored(x) \/ PageOf(x) >= Resume(job[j].page[x[1]])
    BY <1>3, <1>4 DEF Covers, JobCovers, Active
  <1>6. QED
    BY <1>0, <1>2, <1>5, StoredKept, ResumeKept

\* A page a job resumes from comes before what it has not stored yet.
LEMMA JobStep ==
  ASSUME Covers, Next
  PROVE  JobCovers'
  <1>0. Base /\ TypeOK /\ RunsInv
    BY DEF Covers, Base
  <1>1. SUFFICES ASSUME NEW j \in Jobs, NEW x \in Listed, job'[j].status \in Active,
                        Exists(x)', updated'[x] < job'[j].first, x \notin missed', ~Excused(x)',
                        FromOf(job'[j]) # None => FromOf(job'[j]) <= updated'[x]
                 PROVE  IsStored(x)' \/ PageOf(x)' >= Resume(job'[j].page[x[1]])
    BY DEF JobCovers, Owed, Active
  <1>2. x \in Item /\ x[1] \in Kinds /\ updated'[x] \in Nat
    BY <1>0, ListedShape, TypeStep, Bounds DEF TypeOK, Time
  <1>3. CASE GithubStep
    <2>1. UNCHANGED job
      BY <1>0, <1>3, GithubSteps DEF GithubMoves
    <2>2. QED
      BY <2>1, <1>1, JobKept
  <1>4. ASSUME NEW i \in Jobs, RequestStep(i)
        PROVE  IsStored(x)' \/ PageOf(x)' >= Resume(job'[j].page[x[1]])
    <2>1. RequestMoves(i)
      BY <1>0, <1>4, RequestSteps
    <2>2. CASE j # i
      <3>1. job'[j] = job[j]
        BY <2>1, <2>2 DEF RequestMoves
      <3>2. QED
        BY <3>1, <1>1, JobKept
    <2>3. CASE j = i
      <3>1. job'[j].first # 0
        BY <1>1, <1>2
      <3>2. /\ job[j].status \in Active /\ job'[j].first = job[j].first /\ job'[j].page = job[j].page
            /\ FromOf(job'[j]) = FromOf(job[j]) \/ FromOf(job[j]) = None
        BY <3>1, <2>1, <2>3, <1>1 DEF RequestMoves, Active
      <3>3. QED
        BY <3>2, <1>1, JobKept
    <2>4. QED
      BY <2>2, <2>3
  <1>5. ASSUME NEW g \in Runners, NEW i \in Jobs, Start(g, i)
        PROVE  IsStored(x)' \/ PageOf(x)' >= Resume(job'[j].page[x[1]])
    <2>1. /\ job[i].status = "pending"
          /\ job'[j].status = IF j = i THEN "running" ELSE job[j].status
          /\ job'[j].first = IF j = i /\ job[j].first = 0 THEN now ELSE job[j].first
          /\ job'[j].mode = job[j].mode /\ job'[j].from = job[j].from /\ job'[j].page = job[j].page
      BY <1>0, <1>5, StartSteps
    <2>2. FromOf(job'[j]) = FromOf(job[j])
      BY <2>1, SameFrom
    <2>3. CASE j = i /\ job[j].first = 0
      <3>1. job'[j].page[x[1]] = None
        BY <2>1, <2>3, <1>0, <1>2 DEF RunsInv
      <3>2. PageOf(x)' \in PageNo
        <4>1. LinedUp' /\ x \in Items(x[1])
          BY <1>0, LinedUpStep, ListedShape
        <4>2. Exists(x)
          BY <1>1, <1>5 DEF Start, Exists
        <4>3. PageOf(x) \in PageNo /\ PageOf(x)' \in Int /\ PageOf(x) <= PageOf(x)'
          BY <4>2, <1>0, ListedPage, PagesKept
        <4>4. QED
          BY <4>3 DEF PageNo
      <3>3. QED
        BY <3>1, <3>2 DEF Resume, PageNo
    <2>4. CASE ~(j = i /\ job[j].first = 0)
      BY <2>1, <2>2, <2>4, <1>1, JobKept DEF Active
    <2>5. QED
      BY <2>3, <2>4
  <1>6. ASSUME NEW g \in Runners, Progress(g)
        PROVE  IsStored(x)' \/ PageOf(x)' >= Resume(job'[j].page[x[1]])
    <2> DEFINE r == runner[g]
    <2>1. /\ UNCHANGED <<updated, missed>> /\ Busy(g) /\ r.job \in Jobs
          /\ job'[j].status = job[j].status /\ job'[j].first = job[j].first
          /\ job'[j].mode = job[j].mode /\ job'[j].from = job[j].from
      <3>1. UNCHANGED <<updated, missed>> /\ Busy(g) /\ r.job \in Jobs /\ SameRows
        BY <1>0, <1>6, ProgressFrame
      <3>2. QED
        BY <3>1 DEF SameRows
    <2>2. FromOf(job'[j]) = FromOf(job[j])
      BY <2>1, SameFrom
    <2>3. CASE j # r.job
      <3>1. job'[j].page[x[1]] = job[j].page[x[1]]
        <4>1. SameCheckpoints(j)
          BY <2>3, <1>0, <1>6, ProgressFrame
        <4>2. QED
          BY <4>1, <1>2 DEF SameCheckpoints
      <3>2. QED
        BY <3>1, <2>1, <2>2, <1>1, JobKept
    <2>4. CASE j = r.job
      <3>1. Exists(x) /\ updated[x] < job[j].first /\ x \notin missed
        BY <1>1, <2>1 DEF Exists
      <3>2. ~Excused(x)
        <4>1. job[j].first \in Int /\ job[j].first <= now /\ now \in Int /\ updated[x] \in Int
          BY <1>0, <1>2, <2>1, FirstsBefore
        <4>2. updated[x] < now
          BY <4>1, <3>1
        <4>3. QED
          BY <4>2, <3>1, <2>1, <1>0, <1>1, <1>2, ExcusedKept
      <3>3. IsStored(x) \/ IF MoveCheckpoint(g) /\ x[1] = r.kind THEN Awaited(g, x)
                           ELSE PageOf(x) >= Resume(JobOf(g).page[x[1]])
        <4>1. CASE MoveCheckpoint(g) /\ x[1] = r.kind
          <5>1. Owed(x, JobOf(g).first, r.from)
            <6>1. r.from # None => FromOf(JobOf(g)) = r.from
              BY <1>0, <2>1 DEF RunsInv
            <6>2. QED
              BY <6>1, <3>1, <2>1, <2>2, <2>4, <1>1, OwedShape DEF JobOf
          <5>2. IsStored(x) \/ Ahead(g, x)
            BY <5>1, <3>2, <2>1 DEF Covers, RunCovers
          <5>3. At(g, "checkpoint")
            BY <4>1 DEF MoveCheckpoint
          <5>4. IsStored(x) \/ Awaited(g, x)
            BY <5>2, <5>3 DEF Ahead, At
          <5>5. QED
            BY <5>4, <4>1
        <4>2. CASE ~(MoveCheckpoint(g) /\ x[1] = r.kind)
          <5>1. Owed(x, job[j].first, FromOf(job[j]))
            BY <3>1, <2>1, <2>2, <1>1, OwedShape
          <5>2. IsStored(x) \/ PageOf(x) >= Resume(job[j].page[x[1]])
            BY <5>1, <3>2, <2>1, <1>1 DEF Covers, JobCovers, Active
          <5>3. QED
            BY <5>2, <4>2, <2>4 DEF JobOf
        <4>3. QED
          BY <4>1, <4>2
      <3>4. CASE IsStored(x)
        BY <3>4, <2>1, <1>0, <1>1, StoredKept
      <3>5. CASE IF MoveCheckpoint(g) /\ x[1] = r.kind THEN Awaited(g, x)
                 ELSE PageOf(x) >= Resume(JobOf(g).page[x[1]])
        BY <3>1, <3>5, <2>4, <1>0, <1>6, ResumeProgress
      <3>6. QED
        BY <3>3, <3>4, <3>5
    <2>5. QED
      BY <2>3, <2>4
  <1>7. ASSUME NEW g \in Runners, Complete(g) \/ Fail(g)
        PROVE  IsStored(x)' \/ PageOf(x)' >= Resume(job'[j].page[x[1]])
    <2>1. /\ OnlyStatus(runner[g].job, "completed") \/ OnlyStatus(runner[g].job, "failed")
          /\ Busy(g)
      BY <1>0, <1>7, EndFrame
    <2>2. /\ job'[j].first = job[j].first /\ job'[j].page = job[j].page
          /\ job'[j].mode = job[j].mode /\ job'[j].from = job[j].from
          /\ job'[j].status = job[j].status \/ j = runner[g].job
      BY <2>1 DEF OnlyStatus
    <2>3. job[j].status \in Active
      BY <2>1, <2>2, <1>0, <1>1 DEF RunsInv, JobOf, Active
    <2>4. FromOf(job'[j]) = FromOf(job[j])
      BY <2>2, SameFrom
    <2>5. QED
      BY <2>2, <2>3, <2>4, <1>1, JobKept
  <1>8. QED
    BY <1>3, <1>4, <1>5, <1>6, <1>7, Steps

\* A run that begins looks at nothing older than its cutoff: what is older was stored by
\* a sync that completed, or is not asked for.
LEMMA IncludeStart ==
  ASSUME Covers, Next, NEW g \in Runners, NEW j \in Jobs, Start(g, j), NEW x \in Listed, Exists(x),
         x \notin missed, ~Excused(x), FromOf(job[j]) # None => FromOf(job[j]) <= updated[x]
  PROVE  IsStored(x) \/ Include(x, Cutoff(job[j]))
  <1>0. TypeOK /\ x \in Item /\ updated[x] \in Nat /\ lastSynced \in Nat
    BY ListedShape, Bounds DEF Covers, Base, TypeOK, Time
  <1>1. CASE FromOf(job[j]) # None
    <2>1. Cutoff(job[j]) = FromOf(job[j])
      BY <1>0, <1>1, CutoffTypes
    <2>2. QED
      BY <2>1, <1>1 DEF Include
  <1>2. CASE FromOf(job[j]) = None /\ updated[x] >= lastSynced
    <2>1. Cutoff(job[j]) = lastSynced \/ Cutoff(job[j]) = 0
      BY <1>0, <1>2, CutoffTypes
    <2>2. QED
      BY <2>1, <1>0, <1>2 DEF Include
  <1>3. CASE updated[x] < lastSynced
    <2>1. Owed(x, lastSynced, None)
      BY <1>3, OwedShape
    <2>2. QED
      BY <2>1 DEF Covers, SyncedCovers
  <1>4. QED
    BY <1>0, <1>1, <1>2, <1>3

\* What a run has ahead it still has ahead after a step of it, or has stored.
LEMMA AheadProgress ==
  ASSUME Base, Next, NEW g \in Runners, Progress(g), NEW x \in Listed, Exists(x), Ahead(g, x)
  PROVE  IsStored(x)' \/ Ahead(g, x)'
  <1> DEFINE r == runner[g]
             s == runner'[g]
  <1>0. TypeOK /\ x \in Item /\ UNCHANGED updated /\ s.cutoff = r.cutoff /\ Include(x, r.cutoff)
    BY ListedShape, ProgressFrame DEF Base, SameRun, Ahead
  <1>1. CASE Awaited(g, x)
    <2>1. \/ Awaited(g, x)' /\ ~At(g, "complete")'
          \/ /\ GetPull(g) /\ At(g, "reviews")'
             /\ runner'[g].item = x /\ runner'[g].version = updated[x]
          \/ SyncEvents(g) /\ x[1] # Pull /\ stored'[x] = updated[x]
      BY <1>0, <1>1, AwaitedProgress
    <2>2. CASE Awaited(g, x)' /\ ~At(g, "complete")'
      BY <2>2, <1>0 DEF Ahead, Include
    <2>3. CASE At(g, "reviews")' /\ s.item = x /\ s.version = updated[x]
      BY <2>3, <1>0 DEF Ahead, At, Include
    <2>4. CASE stored'[x] = updated[x]
      BY <2>4, <1>0 DEF IsStored
    <2>5. QED
      BY <2>1, <2>2, <2>3, <2>4
  <1>2. CASE r.at \in {"reviews", "bundle"} /\ r.item = x /\ r.version = updated[x]
    <2>1. CASE FetchReview(g)
      <3>1. PICK last, got : r.at = "reviews" /\ Fetched(g, "reviews", last, got, "bundle")
        BY <2>1, FetchReviewSteps
      <3>2. s.at \in {"reviews", "bundle"} /\ s.item = r.item /\ s.version = r.version
        BY <3>1 DEF Fetched
      <3>3. QED
        BY <3>2, <1>0, <1>2 DEF Ahead, At, Include
    <2>2. CASE UpsertBundle(g)
      <3>1. stored'[x] = r.version
        BY <1>0, <1>2, <2>2, UpsertBundleSteps
      <3>2. QED
        BY <3>1, <1>0, <1>2 DEF IsStored
    <2>3. FetchReview(g) \/ UpsertBundle(g)
      BY <1>2 DEF Progress, ListPulls, GetPull, EndPulls, SyncEvents, MoveCheckpoint, FetchFiles, ReplaceFiles, At
    <2>4. QED
      BY <2>1, <2>2, <2>3
  <1>3. QED
    BY <1>1, <1>2 DEF Ahead

\* A page a run is at, or one after it, or the page at hand, holds what the run owes.
LEMMA RunStep ==
  ASSUME Covers, Next
  PROVE  RunCovers'
  <1>0. Base /\ TypeOK /\ RunsInv /\ RunsInv'
    BY RunsStep DEF Covers, Base
  <1>1. SUFFICES ASSUME NEW g \in Runners, NEW x \in Listed, Busy(g)', Exists(x)',
                        updated'[x] < job'[runner'[g].job].first, x \notin missed', ~Excused(x)',
                        runner'[g].from # None => runner'[g].from <= updated'[x]
                 PROVE  IsStored(x)' \/ Ahead(g, x)'
    BY DEF RunCovers, Owed, JobOf
  <1>2. x \in Item /\ x[1] \in Kinds /\ updated'[x] \in Int /\ runner'[g].job \in Jobs
    BY <1>0, <1>1, ListedShape, TypeStep DEF TypeOK, Time, RunsInv
  <1>3. updated'[x] < now
    <2>1. job'[runner'[g].job].first \in Int /\ job'[runner'[g].job].first <= now /\ now \in Int
      BY <1>0, <1>2, FirstsBefore
    <2>2. QED
      BY <2>1, <1>1, <1>2
  <1>4. updated'[x] = updated[x] /\ Exists(x) /\ x \notin missed
    BY <1>0, <1>1, <1>2, <1>3, ItemBefore
  <1>5. ~Excused(x)
    BY <1>0, <1>1, <1>2, <1>3, <1>4, ExcusedKept
  <1>6. IsStored(x) => IsStored(x)'
    BY <1>0, <1>1, <1>4, StoredKept
  <1>7. CASE Busy(g) /\ Elsewhere(g)
    <2>1. /\ runner'[g] = runner[g] /\ runner[g].job \in Jobs
          /\ job'[runner[g].job].first = JobOf(g).first
      BY <1>0, <1>7, OtherRuns
    <2>2. Owed(x, JobOf(g).first, runner[g].from)
      BY <2>1, <1>1, <1>4, OwedShape
    <2>3. IsStored(x) \/ Ahead(g, x)
      BY <2>2, <1>5, <1>7 DEF Covers, RunCovers
    <2>4. Awaited(g, x) => Awaited(g, x)'
      BY <1>0, <1>7, AwaitedKept
    <2>5. Ahead(g, x) => Ahead(g, x)'
      BY <2>1, <2>4, <1>4 DEF Ahead, Include, At
    <2>6. QED
      BY <2>3, <2>5, <1>6
  <1>8. ASSUME NEW j \in Jobs, Start(g, j) PROVE IsStored(x)' \/ Ahead(g, x)'
    <2>1. /\ runner'[g].job = j /\ runner'[g].at = "list" /\ runner'[g].cutoff = Cutoff(job[j])
          /\ runner'[g].from = FromOf(job[j]) /\ job'[j].status = "running"
          /\ job'[j].mode = job[j].mode /\ job'[j].from = job[j].from
      BY <1>0, <1>8, StartSteps
    <2>2. FromOf(job'[j]) = FromOf(job[j])
      BY <2>1, SameFrom
    <2>3. IsStored(x)' \/ PageOf(x)' >= Resume(job'[j].page[x[1]])
      <3>1. JobCovers'
        BY JobStep
      <3>2. QED
        BY <3>1, <2>1, <2>2, <1>1 DEF JobCovers, Owed
    <2>4. IsStored(x) \/ Include(x, Cutoff(job[j]))
      BY <2>1, <1>1, <1>4, <1>5, <1>8, IncludeStart
    <2>5. ASSUME PageOf(x)' >= Resume(job'[j].page[x[1]]), Include(x, Cutoff(job[j]))
          PROVE  Ahead(g, x)'
      <3>1. Awaited(g, x)'
        BY <2>5, <1>0, <1>8, AwaitedStart
      <3>2. QED
        BY <3>1, <2>1, <2>5, <1>4 DEF Ahead, Include, At
    <2>6. QED
      BY <2>3, <2>4, <2>5, <1>6
  <1>9. CASE Progress(g)
    <2>1. /\ Busy(g) /\ SameRun(runner'[g], runner[g]) /\ runner[g].job \in Jobs
          /\ job'[runner[g].job].first = JobOf(g).first
      BY <1>0, <1>9, ProgressFrame DEF SameRows, JobOf
    <2>2. Owed(x, JobOf(g).first, runner[g].from)
      BY <2>1, <1>1, <1>4, OwedShape DEF SameRun
    <2>3. IsStored(x) \/ Ahead(g, x)
      BY <2>1, <2>2, <1>5 DEF Covers, RunCovers
    <2>4. QED
      BY <2>3, <1>0, <1>4, <1>6, <1>9, AheadProgress
  <1>10. QED
    BY <1>0, <1>1, <1>7, <1>8, <1>9, RunOrElsewhere

\* A completed sync moves last_synced_at past nothing but what is stored.
LEMMA SyncedStep ==
  ASSUME Covers, Next
  PROVE  SyncedCovers'
  <1>0. Base /\ TypeOK /\ RunsInv
    BY DEF Covers, Base
  <1>1. SUFFICES ASSUME NEW x \in Listed, Exists(x)', updated'[x] < lastSynced', x \notin missed', ~Excused(x)'
                 PROVE  IsStored(x)'
    BY DEF SyncedCovers, Owed
  <1>2. x \in Item /\ updated'[x] \in Int
    BY <1>0, ListedShape, TypeStep DEF TypeOK, Time
  <1>3. updated'[x] < now
    <2>1. lastSynced' \in Int /\ lastSynced' <= now /\ now \in Int
      BY <1>0, FirstsBefore
    <2>2. QED
      BY <2>1, <1>1, <1>2
  <1>4. updated'[x] = updated[x] /\ Exists(x) /\ x \notin missed
    BY <1>0, <1>1, <1>2, <1>3, ItemBefore
  <1>5. ~Excused(x)
    BY <1>0, <1>1, <1>2, <1>3, <1>4, ExcusedKept
  <1>6. SUFFICES IsStored(x)
    BY <1>0, <1>1, <1>4, StoredKept
  <1>7. CASE updated[x] < lastSynced
    <2>1. Owed(x, lastSynced, None)
      BY <1>4, <1>7, OwedShape
    <2>2. QED
      BY <2>1, <1>5 DEF Covers, SyncedCovers
  <1>8. ASSUME NEW g \in Runners, Complete(g), ~(updated[x] < lastSynced) PROVE IsStored(x)
    <2> DEFINE r == runner[g]
    <2>1. /\ At(g, "complete") /\ Busy(g) /\ r.job \in Jobs /\ lastSynced' = r.done
          /\ missed' = missed \cup Unseen(r)
      BY <1>0, <1>8 DEF Complete, RunsInv, Busy, At
    <2>2. x \notin Unseen(r) /\ updated[x] < r.done
      BY <2>1, <1>1, <1>4
    <2>3. /\ ~(job[r.job].first <= updated[x])
          /\ ~(r.from # None /\ lastSynced <= updated[x] /\ updated[x] < r.from)
      BY <2>2, <1>2, <1>4 DEF Unseen
    <2>4. /\ job[r.job].first \in Int /\ updated[x] \in Int /\ lastSynced \in Int
          /\ r.from # None => r.from \in Int
      <3>1. r.from \in Froms \cup {None} /\ Froms \subseteq Int
        BY <1>0, RunnerTypes, Bounds DEF Time
      <3>2. job[r.job].first \in Int
        BY <2>1, <1>0, RowTypes DEF Time
      <3>3. lastSynced \in Int /\ updated[x] \in Int
        BY <1>0, <1>2 DEF TypeOK, Time
      <3>4. QED
        BY <3>1, <3>2, <3>3
    <2>5. updated[x] < job[r.job].first /\ (r.from # None => r.from <= updated[x])
      BY <2>3, <2>4, <1>8
    <2>6. Owed(x, JobOf(g).first, r.from)
      BY <2>5, <1>4, OwedShape DEF JobOf
    <2>7. IsStored(x) \/ Ahead(g, x)
      BY <2>1, <2>6, <1>5 DEF Covers, RunCovers
    <2>8. QED
      BY <2>1, <2>7 DEF Ahead
  <1>9. \/ UNCHANGED lastSynced
        \/ \E g \in Runners : Complete(g)
    <2>1. CASE GithubStep
      BY <1>0, <2>1, GithubSteps DEF GithubMoves
    <2>2. ASSUME NEW j \in Jobs, RequestStep(j) PROVE UNCHANGED lastSynced
      BY <1>0, <2>2, RequestSteps DEF RequestMoves
    <2>3. ASSUME NEW g \in Runners, NEW j \in Jobs, Start(g, j) PROVE UNCHANGED lastSynced
      BY <2>3 DEF Start
    <2>4. ASSUME NEW g \in Runners, Progress(g) PROVE UNCHANGED lastSynced
      BY <1>0, <2>4, ProgressFrame
    <2>5. ASSUME NEW g \in Runners, Fail(g) PROVE UNCHANGED lastSynced
      BY <2>5 DEF Fail
    <2>6. QED
      BY <2>1, <2>2, <2>3, <2>4, <2>5, Steps
  <1>10. QED
    BY <1>1, <1>4, <1>7, <1>8, <1>9

LEMMA CoversInit == Init => Covers
  <1> SUFFICES ASSUME Init PROVE Covers
    OBVIOUS
  <1>1. \A x \in Listed : ~Exists(x)
    BY ListedShape DEF Init, Exists
  <1>2. QED
    BY <1>1, BaseInit DEF Covers, RunCovers, JobCovers, SyncedCovers, Owed

LEMMA CoversKept ==
  ASSUME Covers, UNCHANGED vars
  PROVE  Covers'
  <1>1. Base'
    BY BaseKept DEF Covers
  <1>2. UNCHANGED <<updated, job, lastSynced, stored, runner, missed>>
    BY DEF vars
  <1>3. \A x \in Listed : /\ PageOf(x)' = PageOf(x) /\ Excused(x)' = Excused(x) /\ IsStored(x)' = IsStored(x)
    BY <1>2 DEF PageOf, Count, Exists, Excused, Unfinished, At, IsStored
  <1>4. \A g \in Runners, x \in Listed : Ahead(g, x)' = Ahead(g, x)
    BY <1>2, <1>3 DEF Ahead, Awaited, Include, At, JobOf
  <1>5. RunCovers' /\ JobCovers' /\ SyncedCovers'
    BY <1>2, <1>3, <1>4 DEF Covers, RunCovers, JobCovers, SyncedCovers, Owed, Exists, FromOf, Busy, At, JobOf
  <1>6. QED
    BY <1>1, <1>5 DEF Covers

LEMMA CoversStep ==
  ASSUME Covers, [Next]_vars
  PROVE  Covers'
  <1>1. CASE Next
    BY <1>1, BaseStep, RunStep, JobStep, SyncedStep DEF Covers
  <1>2. CASE UNCHANGED vars
    BY <1>2, CoversKept
  <1>3. QED
    BY <1>1, <1>2

\* Every change that last_synced_at says is in the database is there, however many
\* runs overlapped, failed and were retried: a run has stored what it owes or has it on
\* a page to come, a job resumes no later than at the first such page, and
\* last_synced_at only moves to the end of a run that has nothing ahead.
THEOREM DueStored == Spec => []DueIsStored
  <1>1. Covers => DueIsStored
    <2> SUFFICES ASSUME Covers, NEW x \in Listed, Due(x) PROVE stored[x] = updated[x]
      BY DEF DueIsStored
    <2>1. Owed(x, lastSynced, None) /\ ~Excused(x)
      BY OwedShape DEF Due, Excused
    <2>2. QED
      BY <2>1 DEF Covers, SyncedCovers, IsStored
  <1>2. QED
    BY <1>1, CoversInit, CoversStep, PTL DEF Spec

-----------------------------------------------------------------------------
(* A pull request that is due has its reviews and its files.                 *)

Whole == Base /\ RunCoversDetails /\ JobCoversDetails /\ SyncedCoversDetails

LEMMA PullOfPull ==
  ASSUME NEW x \in Pulls
  PROVE  PullOf(x) = x /\ x \notin Review
  <1>1. x = <<Pull, x[2], 0>>
    BY ItemShape, Bounds DEF Pulls
  <1>2. QED
    BY <1>1, PullShape, ReviewOfPull DEF PullOf

\* A detail comes with its pull request, which changed no earlier.
LEMMA DetailShape ==
  ASSUME Base, NEW y \in Details
  PROVE  /\ y \in Item /\ PullOf(y) \in Pulls /\ PullOf(y) \in Listed /\ PullOf(y)[1] = Pull
         /\ updated[y] <= updated[PullOf(y)] /\ updated[y] \in Nat /\ updated[PullOf(y)] \in Nat
         /\ Exists(y) => Exists(PullOf(y))
  <1>1. y \in Item /\ PullOf(y) \in Pulls
    BY PullShape, PullOfPull, ReviewOfPull DEF Details
  <1>2. PullOf(y) \in Listed /\ PullOf(y) \in Item /\ PullOf(y)[1] = Pull
    BY <1>1, PullShape
  <1>3. updated[y] \in Nat /\ updated[PullOf(y)] \in Nat
    BY <1>1, <1>2, Bounds DEF Base, TypeOK, Time
  <1>4. updated[y] <= updated[PullOf(y)]
    <2>1. CASE y \in Pulls
      BY <2>1, <1>3, PullOfPull
    <2>2. CASE y \in Review
      BY <2>2 DEF Base, LinedUp
    <2>3. QED
      BY <2>1, <2>2 DEF Details
  <1>5. QED
    BY <1>1, <1>2, <1>3, <1>4 DEF Exists

\* A review has one version, and files are replaced by all the files there are, or after
\* a run failed at them.
LEMMA DetailKept ==
  ASSUME Base, Next, NEW y \in Details, updated'[y] = updated[y], DetailStored(y)
  PROVE  DetailStored(y)'
  <1>0. TypeOK /\ AtHand /\ FilesAtHand /\ y \in Item
    BY DetailShape DEF Base
  <1>1. cut \subseteq cut'
    <2>1. CASE GithubStep
      BY <1>0, <2>1, GithubSteps DEF GithubMoves
    <2>2. ASSUME NEW j \in Jobs, RequestStep(j) PROVE UNCHANGED cut
      BY <2>2, RequestSteps DEF Base, RequestMoves
    <2>3. ASSUME NEW g \in Runners, NEW j \in Jobs, Start(g, j) PROVE UNCHANGED cut
      BY <2>3 DEF Start
    <2>4. ASSUME NEW g \in Runners, Progress(g) PROVE UNCHANGED cut
      BY <2>4, ProgressFrame
    <2>5. ASSUME NEW g \in Runners, Complete(g) \/ Fail(g) PROVE cut \subseteq cut'
      BY <2>5 DEF Complete, Fail
    <2>6. QED
      BY <2>1, <2>2, <2>3, <2>4, <2>5, Steps
  <1>2. ASSUME UNCHANGED <<stored, files>> PROVE DetailStored(y)'
    BY <1>1, <1>2 DEF DetailStored, FilesStored, ReviewStored, HasItsFiles, IsStored, IsCut
  <1>3. CASE GithubStep
    BY <1>0, <1>2, <1>3, GithubSteps DEF GithubMoves
  <1>4. ASSUME NEW j \in Jobs, RequestStep(j) PROVE UNCHANGED <<stored, files>>
    BY <1>4, RequestSteps DEF Base, RequestMoves
  <1>5. ASSUME NEW g \in Runners, NEW j \in Jobs, Start(g, j) PROVE UNCHANGED <<stored, files>>
    BY <1>5 DEF Start
  <1>6. ASSUME NEW g \in Runners, Complete(g) \/ Fail(g) PROVE UNCHANGED <<stored, files>>
    BY <1>6, EndFrame
  <1>7. ASSUME NEW g \in Runners, ListPulls(g) \/ GetPull(g) \/ EndPulls(g) \/ MoveCheckpoint(g)
                                  \/ FetchReview(g) \/ FetchFiles(g)
        PROVE  UNCHANGED <<stored, files>>
    BY <1>7 DEF ListPulls, GetPull, EndPulls, MoveCheckpoint, FetchReview, FetchFiles, FetchPart
  <1>8. ASSUME NEW g \in Runners, SyncEvents(g) PROVE DetailStored(y)'
    <2>1. /\ stored'[y] = IF y \in Page(runner[g].kind, runner[g].page) /\ Include(y, runner[g].cutoff)
                          THEN updated[y] ELSE stored[y]
          /\ UNCHANGED files
      BY <1>0, <1>8, SyncEventsSteps DEF SyncEvents
    <2>2. QED
      BY <2>1, <1>1 DEF DetailStored, FilesStored, ReviewStored, HasItsFiles, IsStored, IsCut
  <1>9. ASSUME NEW g \in Runners, UpsertBundle(g) PROVE DetailStored(y)'
    <2> DEFINE r == runner[g]
    <2>1. /\ stored'[y] = IF y = r.item THEN r.version
                          ELSE IF y \in Reviews(r.item) /\ y[3] \in r.got THEN updated[y] ELSE stored[y]
          /\ UNCHANGED files /\ r.at = "bundle"
      BY <1>0, <1>9, UpsertBundleSteps DEF UpsertBundle
    <2>2. y \in Review => y # r.item
      BY <2>1, <1>0, PullOfPull DEF AtHand, HandOf, At
    <2>3. QED
      BY <2>1, <2>2, <1>1 DEF DetailStored, FilesStored, ReviewStored, HasItsFiles, IsStored, IsCut
  <1>10. ASSUME NEW g \in Runners, ReplaceFiles(g) PROVE DetailStored(y)'
    <2> DEFINE r == runner[g]
    <2>1. /\ r.at = "replace" /\ UNCHANGED stored
          /\ \A x \in Pulls : files'[x] = IF x = r.item THEN r.got ELSE files[x]
      BY <1>0, <1>10, ReplaceFilesSteps DEF ReplaceFiles
    <2>2. r.got = AllFiles \/ IsCut("changed_files", r.item)
      BY <2>1, <1>0 DEF FilesAtHand, FilesOf, At
    <2>3. y \in Pulls => FilesStored(y)'
      BY <2>1, <2>2, <1>1 DEF DetailStored, FilesStored, HasItsFiles, IsCut
    <2>4. y \in Review => ReviewStored(y)'
      BY <2>1, <1>1 DEF DetailStored, ReviewStored, IsStored, IsCut
    <2>5. QED
      BY <2>3, <2>4 DEF DetailStored
  <1>11. QED
    BY <1>2, <1>3, <1>4, <1>5, <1>6, <1>7, <1>8, <1>9, <1>10, Steps DEF Progress

\* At its checkpoint a run has ahead what it awaits; at its end, nothing.
LEMMA DetailAwaited ==
  ASSUME NEW g \in Runners, NEW y \in Details, DetailAhead(g, y)
  PROVE  /\ ~At(g, "complete") /\ Include(y, runner[g].cutoff)
         /\ At(g, "checkpoint") => Awaited(g, PullOf(y))
  <1>1. CASE y \in Pulls
    BY <1>1, PullOfPull DEF DetailAhead, FilesAhead, At
  <1>2. CASE y \in Review
    BY <1>2 DEF DetailAhead, ReviewAhead, At
  <1>3. QED
    BY <1>1, <1>2 DEF Details

LEMMA DetailElsewhere ==
  ASSUME Base, Next, NEW h \in Runners, Busy(h), Elsewhere(h), NEW y \in Details,
         updated'[y] = updated[y], DetailAhead(h, y)
  PROVE  DetailAhead(h, y)'
  <1>1. runner'[h] = runner[h]
    BY OtherRuns
  <1>2. Awaited(h, PullOf(y)) => Awaited(h, PullOf(y))'
    BY DetailShape, AwaitedKept
  <1>3. y \in Pulls => FilesAhead(h, y)'
    BY <1>1, <1>2, PullOfPull DEF DetailAhead, FilesAhead, Include, At
  <1>4. y \in Review => ReviewAhead(h, y)'
    BY <1>1, <1>2 DEF DetailAhead, ReviewAhead, Include, At
  <1>5. QED
    BY <1>3, <1>4 DEF DetailAhead

LEMMA AwaitedDetailNext ==
  ASSUME NEW g \in Runners, NEW y \in Details, Awaited(g, PullOf(y))', updated'[y] >= runner'[g].cutoff,
         ~At(g, "complete")'
  PROVE  DetailAhead(g, y)'
  <1>1. y \in Pulls => FilesAhead(g, y)'
    BY PullOfPull DEF FilesAhead, Include
  <1>2. y \in Review => ReviewAhead(g, y)'
    BY DEF ReviewAhead, Include
  <1>3. QED
    BY <1>1, <1>2 DEF DetailAhead

\* Pull requests come to hand as they were awaited, with all their details ahead, unless
\* the reviews are resumed.
LEMMA DetailFetched ==
  ASSUME Base, Next, NEW g \in Runners, GetPull(g), NEW y \in Details,
         Include(y, runner[g].cutoff), At(g, "reviews")', runner'[g].item = PullOf(y)
  PROVE  DetailStored(y)' \/ DetailAhead(g, y)'
  <1> DEFINE r == runner[g]
             s == runner'[g]
             x == PullOf(y)
             c == job[r.job].part["reviews"][x]
  <1>0. TypeOK /\ RunsInv /\ PartsInv /\ x \in Pulls
    BY DetailShape DEF Base
  <1>1. /\ r.at = "pull" /\ s.cutoff = r.cutoff /\ s.part = Resume(c) /\ UNCHANGED <<updated, cut>>
    <2>1. /\ r.at = "pull" /\ SameRun(s, r) /\ s.item = Newest(r.batch)
          /\ s.part = Resume(JobOf(g).part["reviews"][Newest(r.batch)])
      BY <1>0, GetPullSteps
    <2>2. UNCHANGED <<updated, cut>>
      BY DEF GetPull
    <2>3. QED
      BY <2>1, <2>2 DEF SameRun, JobOf
  <1>2. updated'[y] >= s.cutoff
    BY <1>1 DEF Include
  <1>3. CASE y \in Pulls
    <2>1. FilesAhead(g, y)' /\ y \notin Review
      BY <1>2, <1>3, PullOfPull DEF FilesAhead, Include, At
    <2>2. QED
      BY <2>1 DEF DetailAhead
  <1>4. CASE y \in Review
    <2>1. y \notin Pulls /\ y[3] \in 1 .. MaxReview
      BY <1>4, PullOfPull, ReviewOfPull
    <2>2. CASE c = None
      <3>1. y[3] >= s.part
        BY <1>1, <2>1, <2>2, Bounds DEF Resume
      <3>2. ReviewAhead(g, y)'
        BY <3>1, <1>1, <1>2 DEF ReviewAhead, Include, At
      <3>3. QED
        BY <3>2, <2>1 DEF DetailAhead
    <2>3. CASE c # None
      <3>1. r.job \in Jobs /\ Busy(g)
        BY <1>0, <1>1 DEF RunsInv, Busy, At
      <3>2. \/ IsCut("reviews", x)
            \/ \E h \in Runners : runner[h].job = r.job /\ At(h, "reviews")
        BY <3>1, <2>3, <1>0, FetchingShape DEF PartsInv, Lists
      <3>3. ASSUME NEW h \in Runners, runner[h].job = r.job, At(h, "reviews") PROVE FALSE
        <4>1. h = g
          BY <3>1, <3>3, <1>0 DEF RunsInv, Busy, At
        <4>2. QED
          BY <4>1, <3>3, <1>1 DEF At
      <3>4. ReviewStored(y)'
        BY <3>2, <3>3, <1>1 DEF ReviewStored, IsCut
      <3>5. QED
        BY <3>4, <2>1 DEF DetailStored
    <2>4. QED
      BY <2>2, <2>3
  <1>5. QED
    BY <1>3, <1>4 DEF Details

\* The files of the pull request at hand.
LEMMA FilesProgress ==
  ASSUME Base, Next, NEW g \in Runners, Progress(g), NEW x \in Pulls,
         Include(x, runner[g].cutoff), runner[g].item = x,
         runner[g].at \in {"reviews", "bundle", "files", "replace"}
  PROVE  FilesStored(x)' \/ FilesAhead(g, x)'
  <1> DEFINE r == runner[g]
             s == runner'[g]
  <1>0. TypeOK /\ FilesAtHand /\ UNCHANGED <<updated, cut>> /\ s.cutoff = r.cutoff
    BY ProgressFrame DEF Base, SameRun
  <1>1. ASSUME s.at \in {"reviews", "bundle", "files", "replace"}, s.item = r.item PROVE FilesAhead(g, x)'
    BY <1>0, <1>1 DEF FilesAhead, Include, At
  <1>2. CASE FetchReview(g)
    <2>1. PICK last, got : r.at = "reviews" /\ Fetched(g, "reviews", last, got, "bundle")
      BY <1>2, FetchReviewSteps
    <2>2. QED
      BY <2>1, <1>1 DEF Fetched
  <1>3. CASE UpsertBundle(g)
    BY <1>0, <1>1, <1>3, UpsertBundleSteps
  <1>4. CASE FetchFiles(g)
    BY <1>1, <1>4, FetchFilesSteps DEF Fetched
  <1>5. CASE ReplaceFiles(g)
    <2>1. files'[x] = r.got /\ r.at = "replace"
      BY <1>0, <1>5, ReplaceFilesSteps
    <2>2. r.got = AllFiles \/ IsCut("changed_files", x)
      BY <2>1, <1>0 DEF FilesAtHand, FilesOf, At
    <2>3. QED
      BY <2>1, <2>2, <1>0 DEF FilesStored, HasItsFiles, IsCut
  <1>6. FetchReview(g) \/ UpsertBundle(g) \/ FetchFiles(g) \/ ReplaceFiles(g)
    BY DEF Progress, ListPulls, GetPull, EndPulls, SyncEvents, MoveCheckpoint, At
  <1>7. QED
    BY <1>2, <1>3, <1>4, <1>5, <1>6

\* A review of the pull request at hand.
LEMMA ReviewProgress ==
  ASSUME Base, Next, NEW g \in Runners, Progress(g), NEW y \in Review, Exists(y),
         Include(y, runner[g].cutoff), runner[g].item = PullOf(y),
         \/ At(g, "reviews") /\ (y[3] >= runner[g].part \/ y[3] \in runner[g].got)
         \/ At(g, "bundle") /\ y[3] \in runner[g].got
  PROVE  ReviewStored(y)' \/ ReviewAhead(g, y)'
  <1> DEFINE r == runner[g]
             s == runner'[g]
             x == PullOf(y)
             count == Cardinality(Submitted(r.item))
             got == IF r.part <= count /\ Include(<<Pull, r.item[2], r.part>>, r.cutoff) THEN {r.part} ELSE {}
  <1>0. /\ TypeOK /\ LinedUp /\ UNCHANGED updated /\ s.cutoff = r.cutoff /\ y \in Item
        /\ x \in Pulls /\ y \in Reviews(x) /\ y[3] \in 1 .. MaxReview /\ y = <<Pull, x[2], y[3]>>
        /\ r.part \in Parts /\ Parts \subseteq Nat /\ MaxReview \in Nat
    BY ProgressFrame, ReviewOfPull, RunnerTypes, Bounds DEF Base, SameRun, Parts
  <1>1. r.part \in Nat /\ y[3] \in Nat
    <2>1. r.part \in Parts /\ y[3] \in 1 .. MaxReview
      BY ReviewOfPull, RunnerTypes DEF Base
    <2>2. QED
      BY <2>1, Bounds DEF Parts
  <1>2. CASE At(g, "bundle") /\ y[3] \in r.got
    <2>1. UpsertBundle(g)
      BY <1>2 DEF Progress, ListPulls, GetPull, EndPulls, SyncEvents, MoveCheckpoint, FetchReview,
                  FetchFiles, ReplaceFiles, At
    <2>2. stored'[y] = updated[y]
      <3>1. y # r.item
        BY <1>0, PullOfPull
      <3>2. stored'[y] = IF y = r.item THEN r.version
                         ELSE IF y \in Reviews(r.item) /\ y[3] \in r.got THEN updated[y] ELSE stored[y]
        BY <1>0, <2>1, UpsertBundleSteps
      <3>3. QED
        BY <3>1, <3>2, <1>0, <1>2
    <2>3. QED
      BY <2>2, <1>0 DEF ReviewStored, IsStored
  <1>3. CASE At(g, "reviews") /\ (y[3] >= r.part \/ y[3] \in r.got)
    <2>1. FetchReview(g)
      BY <1>3 DEF Progress, ListPulls, GetPull, EndPulls, SyncEvents, MoveCheckpoint, UpsertBundle,
                  FetchFiles, ReplaceFiles, At
    <2>2. Fetched(g, "reviews", r.part >= count, got, "bundle") /\ count \in 0 .. MaxReview
      BY <2>1, FetchReviewSteps
    <2>3. y[3] <= count
      BY <1>0, SubmittedBounds
    <2>4. y[3] = r.part => y[3] \in got
      BY <2>3, <1>0
    <2> HIDE DEF got, count
    <2>5. /\ s.item = r.item /\ s.at = (IF r.part >= count THEN "bundle" ELSE "reviews")
          /\ s.part = (IF r.part >= count THEN 1 ELSE r.part + 1) /\ s.got = r.got \cup got
      BY <2>2, <1>3 DEF Fetched, At
    <2>6. CASE y[3] \in s.got
      BY <2>5, <2>6, <1>0 DEF ReviewAhead, Include, At
    <2>7. CASE y[3] > r.part
      <3>1. s.at = "reviews" /\ y[3] >= s.part
        <4>1. r.part \in Int /\ y[3] \in Int /\ count \in Int
          BY <2>2, <1>1
        <4>2. ~(r.part >= count)
          BY <4>1, <2>3, <2>7
        <4>3. QED
          BY <4>1, <4>2, <2>5, <2>7
      <3>2. QED
        BY <3>1, <2>5, <1>0 DEF ReviewAhead, Include, At
    <2>8. y[3] \in s.got \/ y[3] > r.part
      <3>1. r.part \in Int /\ y[3] \in Int
        BY <1>1
      <3>2. CASE y[3] \in r.got
        BY <3>2, <2>5
      <3>3. CASE y[3] >= r.part
        BY <3>1, <3>3, <2>4, <2>5
      <3>4. QED
        BY <3>2, <3>3, <1>3
    <2>9. QED
      BY <2>6, <2>7, <2>8
  <1>4. QED
    BY <1>2, <1>3

LEMMA DetailProgress ==
  ASSUME Base, Next, NEW g \in Runners, Progress(g), NEW y \in Details, Exists(y), DetailAhead(g, y)
  PROVE  DetailStored(y)' \/ DetailAhead(g, y)'
  <1> DEFINE r == runner[g]
             x == PullOf(y)
  <1>0. /\ TypeOK /\ UNCHANGED updated /\ runner'[g].cutoff = r.cutoff /\ Include(y, r.cutoff) /\ r.cutoff \in Int
        /\ x \in Listed /\ x \in Pulls /\ x[1] = Pull /\ Exists(x)
        /\ updated[y] <= updated[x] /\ updated[y] \in Nat /\ updated[x] \in Nat
    BY ProgressFrame, DetailShape, DetailAwaited, RunnerTypes DEF Base, SameRun, Time
  <1>1. Include(x, r.cutoff) /\ updated'[y] >= runner'[g].cutoff
    BY <1>0 DEF Include
  <1>2. CASE Awaited(g, x)
    <2>1. \/ Awaited(g, x)' /\ ~At(g, "complete")'
          \/ GetPull(g) /\ At(g, "reviews")' /\ runner'[g].item = x
      BY <1>0, <1>1, <1>2, AwaitedProgress
    <2>2. QED
      BY <2>1, <1>0, <1>1, AwaitedDetailNext, DetailFetched
  <1>3. CASE y \in Pulls /\ r.at \in {"reviews", "bundle", "files", "replace"} /\ r.item = y
    BY <1>0, <1>3, FilesProgress, PullOfPull DEF DetailStored, DetailAhead
  <1>4. CASE /\ y \in Review /\ r.item = x
             /\ \/ At(g, "reviews") /\ (y[3] >= r.part \/ y[3] \in r.got)
                \/ At(g, "bundle") /\ y[3] \in r.got
    BY <1>0, <1>4, ReviewProgress, PullOfPull DEF DetailStored, DetailAhead
  <1>5. QED
    <2>1. CASE y \in Pulls
      BY <2>1, <1>2, <1>3, PullOfPull DEF DetailAhead, FilesAhead
    <2>2. CASE y \in Review
      BY <2>2, <1>2, <1>4 DEF DetailAhead, ReviewAhead
    <2>3. QED
      BY <2>1, <2>2 DEF Details

LEMMA DetailBefore ==
  ASSUME Base, Next, NEW y \in Details, Exists(y)', y \notin missed', NEW first \in Int, first <= now,
         updated'[y] < first
  PROVE  updated'[y] = updated[y] /\ Exists(y) /\ y \notin missed /\ updated[y] \in Int
  <1>1. y \in Item /\ updated'[y] \in Int /\ now \in Int /\ updated[y] \in Int
    BY DetailShape, TypeStep, FirstsBefore DEF TypeOK, Time
  <1>2. updated'[y] < now
    BY <1>1
  <1>3. QED
    BY <1>1, <1>2, ItemBefore

LEMMA DetailJobKept ==
  ASSUME Whole, Next, NEW j \in Jobs, NEW y \in Details,
         job[j].status \in Active, job'[j].first = job[j].first,
         job'[j].page[Pull] = job[j].page[Pull],
         FromOf(job'[j]) = FromOf(job[j]) \/ FromOf(job[j]) = None,
         Exists(y)', updated'[y] < job'[j].first, y \notin missed',
         FromOf(job'[j]) # None => FromOf(job'[j]) <= updated'[y]
  PROVE  DetailStored(y)' \/ PageOf(PullOf(y))' >= Resume(job'[j].page[Pull])
  <1>0. Base /\ PullOf(y) \in Listed /\ PullOf(y)[1] = Pull
    BY DetailShape DEF Whole
  <1>1. updated'[y] = updated[y] /\ Exists(y) /\ y \notin missed
    BY <1>0, FirstsBefore, DetailBefore
  <1>2. Owed(y, job[j].first, FromOf(job[j]))
    BY <1>1, OwedShape
  <1>3. DetailStored(y) \/ PageOf(PullOf(y)) >= Resume(job[j].page[Pull])
    BY <1>2 DEF Whole, JobCoversDetails, Active
  <1>4. DetailStored(y) => DetailStored(y)'
    BY <1>0, <1>1, DetailKept
  <1>5. PageOf(PullOf(y)) >= Resume(job[j].page[Pull]) => PageOf(PullOf(y))' >= Resume(job'[j].page[Pull])
    BY <1>0, ResumeKept
  <1>6. QED
    BY <1>3, <1>4, <1>5

LEMMA DetailJobStep ==
  ASSUME Whole, Next
  PROVE  JobCoversDetails'
  <1>0. Base /\ TypeOK /\ RunsInv
    BY DEF Whole, Base
  <1>1. SUFFICES ASSUME NEW j \in Jobs, NEW y \in Details, job'[j].status \in Active,
                        Exists(y)', updated'[y] < job'[j].first, y \notin missed',
                        FromOf(job'[j]) # None => FromOf(job'[j]) <= updated'[y]
                 PROVE  DetailStored(y)' \/ PageOf(PullOf(y))' >= Resume(job'[j].page[Pull])
    BY DEF JobCoversDetails, Owed, Active
  <1> DEFINE x == PullOf(y)
  <1>2. x \in Listed /\ x[1] = Pull /\ Pull \in Kinds /\ y \in Item
    BY <1>0, DetailShape, Bounds
  <1>3. updated'[y] = updated[y] /\ Exists(y) /\ y \notin missed /\ updated[y] \in Nat /\ Exists(x)
    BY <1>0, <1>1, FirstsBefore, DetailBefore, DetailShape
  <1>4. CASE GithubStep
    <2>1. UNCHANGED job
      BY <1>0, <1>4, GithubSteps DEF GithubMoves
    <2>2. QED
      BY <2>1, <1>1, DetailJobKept
  <1>5. ASSUME NEW i \in Jobs, RequestStep(i)
        PROVE  DetailStored(y)' \/ PageOf(x)' >= Resume(job'[j].page[Pull])
    <2>1. RequestMoves(i)
      BY <1>0, <1>5, RequestSteps
    <2>2. CASE j # i
      <3>1. job'[j] = job[j]
        BY <2>1, <2>2 DEF RequestMoves
      <3>2. QED
        BY <3>1, <1>1, DetailJobKept
    <2>3. CASE j = i
      <3>1. job'[j].first # 0
        BY <1>1, <1>3
      <3>2. /\ job[j].status \in Active /\ job'[j].first = job[j].first /\ job'[j].page = job[j].page
            /\ FromOf(job'[j]) = FromOf(job[j]) \/ FromOf(job[j]) = None
        BY <3>1, <2>1, <2>3, <1>1 DEF RequestMoves, Active
      <3>3. QED
        BY <3>2, <1>1, DetailJobKept
    <2>4. QED
      BY <2>2, <2>3
  <1>6. ASSUME NEW g \in Runners, NEW i \in Jobs, Start(g, i)
        PROVE  DetailStored(y)' \/ PageOf(x)' >= Resume(job'[j].page[Pull])
    <2>1. /\ job[i].status = "pending"
          /\ job'[j].status = IF j = i THEN "running" ELSE job[j].status
          /\ job'[j].first = IF j = i /\ job[j].first = 0 THEN now ELSE job[j].first
          /\ job'[j].mode = job[j].mode /\ job'[j].from = job[j].from /\ job'[j].page = job[j].page
      BY <1>0, <1>6, StartSteps
    <2>2. FromOf(job'[j]) = FromOf(job[j])
      BY <2>1, SameFrom
    <2>3. CASE j = i /\ job[j].first = 0
      <3>1. job'[j].page[Pull] = None
        BY <2>1, <2>3, <1>0, <1>2 DEF RunsInv
      <3>2. PageOf(x) \in PageNo /\ PageOf(x)' \in Int /\ PageOf(x) <= PageOf(x)'
        BY <1>0, <1>2, <1>3, ListedPage, PagesKept
      <3>3. QED
        BY <3>1, <3>2 DEF Resume, PageNo
    <2>4. CASE ~(j = i /\ job[j].first = 0)
      BY <2>1, <2>2, <2>4, <1>1, DetailJobKept DEF Active
    <2>5. QED
      BY <2>3, <2>4
  <1>7. ASSUME NEW g \in Runners, Progress(g)
        PROVE  DetailStored(y)' \/ PageOf(x)' >= Resume(job'[j].page[Pull])
    <2> DEFINE r == runner[g]
    <2>1. /\ Busy(g) /\ r.job \in Jobs
          /\ job'[j].status = job[j].status /\ job'[j].first = job[j].first
          /\ job'[j].mode = job[j].mode /\ job'[j].from = job[j].from
      <3>1. Busy(g) /\ r.job \in Jobs /\ SameRows
        BY <1>0, <1>7, ProgressFrame
      <3>2. QED
        BY <3>1 DEF SameRows
    <2>2. FromOf(job'[j]) = FromOf(job[j])
      BY <2>1, SameFrom
    <2>3. CASE j # r.job
      <3>1. job'[j].page[Pull] = job[j].page[Pull]
        <4>1. SameCheckpoints(j)
          BY <2>3, <1>0, <1>7, ProgressFrame
        <4>2. QED
          BY <4>1, <1>2 DEF SameCheckpoints
      <3>2. QED
        BY <3>1, <2>1, <2>2, <1>1, DetailJobKept
    <2>4. CASE j = r.job
      <3>1. Owed(y, job[j].first, FromOf(job[j]))
        BY <1>1, <1>3, <2>1, <2>2, OwedShape
      <3>2. DetailStored(y) \/ IF MoveCheckpoint(g) /\ x[1] = r.kind THEN Awaited(g, x)
                               ELSE PageOf(x) >= Resume(JobOf(g).page[x[1]])
        <4>1. CASE MoveCheckpoint(g) /\ x[1] = r.kind
          <5>1. Owed(y, JobOf(g).first, r.from)
            <6>1. r.from # None => FromOf(JobOf(g)) = r.from
              BY <1>0, <2>1 DEF RunsInv
            <6>2. QED
              BY <6>1, <3>1, <2>4, OwedShape DEF JobOf
          <5>2. DetailStored(y) \/ DetailAhead(g, y)
            BY <5>1, <2>1 DEF Whole, RunCoversDetails
          <5>3. At(g, "checkpoint")
            BY <4>1 DEF MoveCheckpoint
          <5>4. QED
            BY <5>2, <5>3, <4>1, DetailAwaited
        <4>2. CASE ~(MoveCheckpoint(g) /\ x[1] = r.kind)
          <5>1. DetailStored(y) \/ PageOf(x) >= Resume(job[j].page[Pull])
            BY <3>1, <2>1, <1>1 DEF Whole, JobCoversDetails, Active
          <5>2. QED
            BY <5>1, <4>2, <2>4, <1>2 DEF JobOf
        <4>3. QED
          BY <4>1, <4>2
      <3>3. CASE DetailStored(y)
        BY <3>3, <1>0, <1>3, DetailKept
      <3>4. CASE IF MoveCheckpoint(g) /\ x[1] = r.kind THEN Awaited(g, x)
                 ELSE PageOf(x) >= Resume(JobOf(g).page[x[1]])
        <4>1. PageOf(x)' >= Resume(job'[r.job].page[x[1]])
          BY <3>4, <1>0, <1>2, <1>3, <1>7, ResumeProgress
        <4>2. QED
          BY <4>1, <2>4, <1>2
      <3>5. QED
        BY <3>2, <3>3, <3>4
    <2>5. QED
      BY <2>3, <2>4
  <1>8. ASSUME NEW g \in Runners, Complete(g) \/ Fail(g)
        PROVE  DetailStored(y)' \/ PageOf(x)' >= Resume(job'[j].page[Pull])
    <2>1. /\ OnlyStatus(runner[g].job, "completed") \/ OnlyStatus(runner[g].job, "failed")
          /\ Busy(g)
      BY <1>0, <1>8, EndFrame
    <2>2. /\ job'[j].first = job[j].first /\ job'[j].page = job[j].page
          /\ job'[j].mode = job[j].mode /\ job'[j].from = job[j].from
          /\ job'[j].status = job[j].status \/ j = runner[g].job
      BY <2>1 DEF OnlyStatus
    <2>3. job[j].status \in Active
      BY <2>1, <2>2, <1>0, <1>1 DEF RunsInv, JobOf, Active
    <2>4. FromOf(job'[j]) = FromOf(job[j])
      BY <2>2, SameFrom
    <2>5. QED
      BY <2>2, <2>3, <2>4, <1>1, DetailJobKept
  <1>9. QED
    BY <1>4, <1>5, <1>6, <1>7, <1>8, Steps

LEMMA DetailIncludeStart ==
  ASSUME Whole, NEW j \in Jobs, NEW y \in Details, Exists(y), y \notin missed,
         FromOf(job[j]) # None => FromOf(job[j]) <= updated[y]
  PROVE  DetailStored(y) \/ updated[y] >= Cutoff(job[j])
  <1>0. TypeOK /\ updated[y] \in Nat /\ lastSynced \in Nat
    BY DetailShape, Bounds DEF Whole, Base, TypeOK, Time
  <1>1. CASE FromOf(job[j]) # None
    <2>1. Cutoff(job[j]) = FromOf(job[j])
      BY <1>0, <1>1, CutoffTypes
    <2>2. QED
      BY <2>1, <1>1
  <1>2. CASE FromOf(job[j]) = None /\ updated[y] >= lastSynced
    <2>1. Cutoff(job[j]) = lastSynced \/ Cutoff(job[j]) = 0
      BY <1>0, <1>2, CutoffTypes
    <2>2. QED
      BY <2>1, <1>0, <1>2
  <1>3. CASE updated[y] < lastSynced
    <2>1. Owed(y, lastSynced, None)
      BY <1>3, OwedShape
    <2>2. QED
      BY <2>1 DEF Whole, SyncedCoversDetails
  <1>4. QED
    BY <1>0, <1>1, <1>2, <1>3

LEMMA DetailRunStep ==
  ASSUME Whole, Next
  PROVE  RunCoversDetails'
  <1>0. Base /\ TypeOK /\ RunsInv /\ RunsInv'
    BY RunsStep DEF Whole, Base
  <1>1. SUFFICES ASSUME NEW g \in Runners, NEW y \in Details, Busy(g)', Exists(y)',
                        updated'[y] < job'[runner'[g].job].first, y \notin missed',
                        runner'[g].from # None => runner'[g].from <= updated'[y]
                 PROVE  DetailStored(y)' \/ DetailAhead(g, y)'
    BY DEF RunCoversDetails, Owed, JobOf
  <1>2. runner'[g].job \in Jobs /\ PullOf(y) \in Listed /\ PullOf(y)[1] = Pull
    BY <1>0, <1>1, DetailShape DEF RunsInv
  <1>3. updated'[y] = updated[y] /\ Exists(y) /\ y \notin missed
    BY <1>0, <1>1, <1>2, FirstsBefore, DetailBefore
  <1>4. DetailStored(y) => DetailStored(y)'
    BY <1>0, <1>3, DetailKept
  <1>5. CASE Busy(g) /\ Elsewhere(g)
    <2>1. /\ runner'[g] = runner[g] /\ runner[g].job \in Jobs
          /\ job'[runner[g].job].first = JobOf(g).first
      BY <1>0, <1>5, OtherRuns
    <2>2. Owed(y, JobOf(g).first, runner[g].from)
      BY <2>1, <1>1, <1>3, OwedShape
    <2>3. DetailStored(y) \/ DetailAhead(g, y)
      BY <2>2, <1>5 DEF Whole, RunCoversDetails
    <2>4. DetailAhead(g, y) => DetailAhead(g, y)'
      BY <1>0, <1>3, <1>5, DetailElsewhere
    <2>5. QED
      BY <2>3, <2>4, <1>4
  <1>6. ASSUME NEW j \in Jobs, Start(g, j) PROVE DetailStored(y)' \/ DetailAhead(g, y)'
    <2>1. /\ runner'[g].job = j /\ runner'[g].at = "list" /\ runner'[g].cutoff = Cutoff(job[j])
          /\ runner'[g].from = FromOf(job[j]) /\ job'[j].status = "running"
          /\ job'[j].mode = job[j].mode /\ job'[j].from = job[j].from
      BY <1>0, <1>6, StartSteps
    <2>2. FromOf(job'[j]) = FromOf(job[j])
      BY <2>1, SameFrom
    <2>3. DetailStored(y)' \/ PageOf(PullOf(y))' >= Resume(job'[j].page[Pull])
      <3>1. JobCoversDetails'
        BY DetailJobStep
      <3>2. QED
        BY <3>1, <2>1, <2>2, <1>1 DEF JobCoversDetails, Owed
    <2>4. DetailStored(y) \/ updated[y] >= Cutoff(job[j])
      BY <2>1, <1>1, <1>3, DetailIncludeStart
    <2>5. ASSUME PageOf(PullOf(y))' >= Resume(job'[j].page[Pull]), updated[y] >= Cutoff(job[j])
          PROVE  DetailAhead(g, y)'
      <3>1. Awaited(g, PullOf(y))'
        BY <2>5, <1>0, <1>2, <1>6, AwaitedStart
      <3>2. updated'[y] >= runner'[g].cutoff /\ ~At(g, "complete")'
        BY <2>1, <2>5, <1>3 DEF At
      <3>3. QED
        BY <3>1, <3>2, AwaitedDetailNext
    <2>6. QED
      BY <2>3, <2>4, <2>5, <1>4
  <1>7. CASE Progress(g)
    <2>1. /\ Busy(g) /\ SameRun(runner'[g], runner[g]) /\ runner[g].job \in Jobs
          /\ job'[runner[g].job].first = JobOf(g).first
      BY <1>0, <1>7, ProgressFrame DEF SameRows, JobOf
    <2>2. Owed(y, JobOf(g).first, runner[g].from)
      BY <2>1, <1>1, <1>3, OwedShape DEF SameRun
    <2>3. DetailStored(y) \/ DetailAhead(g, y)
      BY <2>1, <2>2 DEF Whole, RunCoversDetails
    <2>4. QED
      BY <2>3, <1>0, <1>3, <1>4, <1>7, DetailProgress
  <1>8. QED
    BY <1>0, <1>1, <1>5, <1>6, <1>7, RunOrElsewhere

LEMMA SyncedBefore ==
  ASSUME Base, Next
  PROVE  UNCHANGED lastSynced \/ \E g \in Runners : Complete(g)
  <1>0. TypeOK /\ RunsInv
    BY DEF Base
  <1>1. CASE GithubStep
    BY <1>0, <1>1, GithubSteps DEF GithubMoves
  <1>2. ASSUME NEW j \in Jobs, RequestStep(j) PROVE UNCHANGED lastSynced
    BY <1>0, <1>2, RequestSteps DEF RequestMoves
  <1>3. ASSUME NEW g \in Runners, NEW j \in Jobs, Start(g, j) PROVE UNCHANGED lastSynced
    BY <1>3 DEF Start
  <1>4. ASSUME NEW g \in Runners, Progress(g) PROVE UNCHANGED lastSynced
    BY <1>4, ProgressFrame
  <1>5. ASSUME NEW g \in Runners, Fail(g) PROVE UNCHANGED lastSynced
    BY <1>5 DEF Fail
  <1>6. QED
    BY <1>1, <1>2, <1>3, <1>4, <1>5, Steps

\* What a run that completes owed, now that it is all last_synced_at says it is.
LEMMA OwedAtEnd ==
  ASSUME Base, NEW g \in Runners, Complete(g), NEW x \in Item, Exists(x), x \notin missed,
         x \notin missed', updated[x] < lastSynced', ~(updated[x] < lastSynced)
  PROVE  Owed(x, JobOf(g).first, runner[g].from) /\ At(g, "complete") /\ Busy(g)
  <1> DEFINE r == runner[g]
  <1>0. TypeOK /\ RunsInv
    BY DEF Base
  <1>1. /\ At(g, "complete") /\ Busy(g) /\ r.job \in Jobs /\ lastSynced' = r.done
        /\ missed' = missed \cup Unseen(r)
    BY <1>0 DEF Complete, RunsInv, Busy, At
  <1>2. x \notin Unseen(r) /\ updated[x] < r.done
    BY <1>1
  <1>3. /\ ~(job[r.job].first <= updated[x])
        /\ ~(r.from # None /\ lastSynced <= updated[x] /\ updated[x] < r.from)
    BY <1>2 DEF Unseen
  <1>4. /\ job[r.job].first \in Int /\ updated[x] \in Int /\ lastSynced \in Int
        /\ r.from # None => r.from \in Int
    <2>1. r.from \in Froms \cup {None} /\ Froms \subseteq Int
      BY <1>0, RunnerTypes, Bounds DEF Time
    <2>2. job[r.job].first \in Int
      BY <1>1, <1>0, RowTypes DEF Time
    <2>3. lastSynced \in Int /\ updated[x] \in Int
      BY <1>0 DEF TypeOK, Time
    <2>4. QED
      BY <2>1, <2>2, <2>3
  <1>5. updated[x] < job[r.job].first /\ (r.from # None => r.from <= updated[x])
    BY <1>3, <1>4
  <1>6. QED
    BY <1>1, <1>5, OwedShape DEF JobOf

LEMMA DetailSyncedStep ==
  ASSUME Whole, Next
  PROVE  SyncedCoversDetails'
  <1>0. Base
    BY DEF Whole
  <1>1. SUFFICES ASSUME NEW y \in Details, Exists(y)', updated'[y] < lastSynced', y \notin missed'
                 PROVE  DetailStored(y)'
    BY DEF SyncedCoversDetails, Owed
  <1>2. updated'[y] = updated[y] /\ Exists(y) /\ y \notin missed /\ y \in Item
    BY <1>0, <1>1, FirstsBefore, DetailBefore, DetailShape
  <1>3. SUFFICES DetailStored(y)
    BY <1>0, <1>2, DetailKept
  <1>4. CASE updated[y] < lastSynced
    <2>1. Owed(y, lastSynced, None)
      BY <1>2, <1>4, OwedShape
    <2>2. QED
      BY <2>1 DEF Whole, SyncedCoversDetails
  <1>5. ASSUME NEW g \in Runners, Complete(g), ~(updated[y] < lastSynced) PROVE DetailStored(y)
    <2>1. Owed(y, JobOf(g).first, runner[g].from) /\ At(g, "complete") /\ Busy(g)
      BY <1>0, <1>1, <1>2, <1>5, OwedAtEnd
    <2>2. DetailStored(y) \/ DetailAhead(g, y)
      BY <2>1 DEF Whole, RunCoversDetails
    <2>3. QED
      BY <2>1, <2>2, DetailAwaited
  <1>6. QED
    BY <1>0, <1>1, <1>2, <1>4, <1>5, SyncedBefore

LEMMA WholeInit == Init => Whole
  <1> SUFFICES ASSUME Init PROVE Whole
    OBVIOUS
  <1>0. Base
    BY BaseInit
  <1>1. \A y \in Details : ~Exists(y)
    BY <1>0, DetailShape DEF Init, Exists
  <1>2. QED
    BY <1>0, <1>1 DEF Whole, RunCoversDetails, JobCoversDetails, SyncedCoversDetails, Owed

LEMMA WholeKept ==
  ASSUME Whole, UNCHANGED vars
  PROVE  Whole'
  <1>1. Base'
    BY BaseKept DEF Whole
  <1>2. UNCHANGED <<updated, job, lastSynced, stored, files, runner, missed, cut>>
    BY DEF vars
  <1>3. \A y \in Details : PageOf(PullOf(y))' = PageOf(PullOf(y)) /\ DetailStored(y)' = DetailStored(y)
    BY <1>2 DEF PageOf, Count, Exists, DetailStored, FilesStored, ReviewStored, HasItsFiles, IsStored, IsCut
  <1>4. \A g \in Runners, y \in Details : DetailAhead(g, y)' = DetailAhead(g, y)
    <2>1. \A g \in Runners, y \in Details : Awaited(g, PullOf(y))' = Awaited(g, PullOf(y))
      BY <1>2, <1>3 DEF Awaited, At, JobOf
    <2>2. \A g \in Runners, x \in Pulls : Awaited(g, x)' = Awaited(g, x)
      BY <2>1, PullOfPull DEF Details
    <2>3. \A g \in Runners, y \in Review : ReviewAhead(g, y)' = ReviewAhead(g, y)
      BY <2>1, <1>2 DEF ReviewAhead, Include, At, Details
    <2>4. \A g \in Runners, x \in Pulls : FilesAhead(g, x)' = FilesAhead(g, x)
      BY <2>2, <1>2 DEF FilesAhead, Include, At
    <2>5. QED
      BY <2>3, <2>4 DEF DetailAhead
  <1>5. RunCoversDetails' /\ JobCoversDetails' /\ SyncedCoversDetails'
    BY <1>2, <1>3, <1>4 DEF Whole, RunCoversDetails, JobCoversDetails, SyncedCoversDetails, Owed, Exists,
                            FromOf, Busy, At, JobOf
  <1>6. QED
    BY <1>1, <1>5 DEF Whole

LEMMA WholeStep ==
  ASSUME Whole, [Next]_vars
  PROVE  Whole'
  <1>1. CASE Next
    BY <1>1, BaseStep, DetailRunStep, DetailJobStep, DetailSyncedStep DEF Whole
  <1>2. CASE UNCHANGED vars
    BY <1>2, WholeKept
  <1>3. QED
    BY <1>1, <1>2

\* The reviews and the files of a pull request that is due are in the database, but for
\* lists a run failed in the middle of: until then the pages before the one a run is at
\* are in its memory, and a list is resumed past its first page only after such a failure.
THEOREM WholeUnlessFailed == Spec => []WholeUnlessCut
  <1>1. Whole => WholeUnlessCut
    <2> SUFFICES ASSUME Whole, NEW x \in Pulls, Due(x)
                 PROVE  /\ HasItsReviews(x) \/ <<"reviews", x>> \in cut
                        /\ HasItsFiles(x) \/ <<"changed_files", x>> \in cut
      BY DEF WholeUnlessCut
    <2>1. \A y \in Details : Due(y) => DetailStored(y)
      BY OwedShape DEF Due, Whole, SyncedCoversDetails
    <2>2. HasItsFiles(x) \/ <<"changed_files", x>> \in cut
      BY <2>1 DEF Details, DetailStored, FilesStored, IsCut
    <2>3. HasItsReviews(x) \/ <<"reviews", x>> \in cut
      BY <2>1, ReviewShape DEF Details, DetailStored, ReviewStored, HasItsReviews, IsStored, IsCut
    <2>4. QED
      BY <2>2, <2>3
  <1>2. QED
    BY <1>1, WholeInit, WholeStep, PTL DEF Spec
=============================================================================
