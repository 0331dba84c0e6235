------------------------ MODULE RestBackfill_proofs ------------------------
(***************************************************************************)
(* What the pages of the REST backfill leave in the raw table, for any     *)
(* size of page and listing and any number of failures, while the listings *)
(* grow at one end and are dropped at the other.                           *)
(***************************************************************************)
EXTENDS RestBackfill, FiniteSetTheorems, TLAPS

\* The part of IInv that is about the tables.
DurableInv ==
    /\ ListingsInBounds
    /\ NothingBeforeNextPage
    /\ CompletedListingIsWhole
    /\ StatusesBeforeDeployment

-----------------------------------------------------------------------------
(* Listings and pages.                                                     *)

\* Every listing has a checkpoint row of its own.
LEMMA ListingFacts ==
    /\ WorkflowRuns \in Listings /\ DeploymentList \in Listings
    /\ WorkflowRuns # DeploymentList
    /\ \A d \in Deployments : /\ Statuses(d) \in Listings
                              /\ Statuses(d) # WorkflowRuns
                              /\ Statuses(d) # DeploymentList
                              /\ \A e \in Deployments : Statuses(d) = Statuses(e) => d = e
    /\ \A l \in Listings : Limit(l) \in Nat /\ InitialNewest[l] \in Nat
    /\ Limit(DeploymentList) = MaxDeployments
    /\ \A d \in Deployments : \A i : Selected(Statuses(d), i)
<1>1. /\ WorkflowRuns # DeploymentList
      /\ \A d \in Deployments : /\ Statuses(d) # WorkflowRuns
                                /\ Statuses(d) # DeploymentList
                                /\ \A e \in Deployments : Statuses(d) = Statuses(e) => d = e
    BY DEF WorkflowRuns, DeploymentList, Statuses
<1> QED
    BY <1>1, RestAssumption DEF Listings, Limit, Selected

\* Page numbers times the page size.
LEMMA Multiples ==
    /\ PageSize \in Nat /\ PageSize >= 1
    /\ \A p \in Nat : /\ p * PageSize \in Nat
                      /\ (p + 1) * PageSize = p * PageSize + PageSize
                      /\ ((p + 1) - 1) * PageSize = p * PageSize
                      /\ p >= 1 => /\ (p - 1) * PageSize \in Nat
                                   /\ p * PageSize = (p - 1) * PageSize + PageSize
BY RestAssumption

\* A page is a finite set of items of its listing.
LEMMA ServedFacts ==
    ASSUME TypeOK, ListingsInBounds, NEW l \in Listings, NEW p \in Nat
    PROVE  /\ Served(l, p) \in SUBSET Nat
           /\ Served(l, p) \subseteq 1 .. Limit(l)
           /\ IsFiniteSet(Served(l, p))
<1>1. oldest[l] \in Nat \ {0} /\ newest[l] \in Nat /\ newest[l] <= Limit(l)
    BY DEF TypeOK, ListingsInBounds
<1>2. Served(l, p) \subseteq oldest[l] .. newest[l]
    BY DEF Served
<1>3. Served(l, p) \subseteq 1 .. Limit(l)
    BY <1>1, <1>2, ListingFacts
<1>4. IsFiniteSet(oldest[l] .. newest[l])
    BY <1>1, FS_Interval
<1>5. IsFiniteSet(Served(l, p))
    BY <1>2, <1>4, FS_Subset
<1>6. Served(l, p) \in SUBSET Nat
    BY <1>1, <1>2
<1> QED
    BY <1>3, <1>5, <1>6

\* A page with room left is the last of its listing: the full one would be an
\* interval of PageSize items.
LEMMA ShortPageIsLast ==
    ASSUME TypeOK, ListingsInBounds, NEW l \in Listings, NEW p \in Nat, p >= 1,
           Cardinality(Served(l, p)) < PageSize
    PROVE  \A i \in oldest[l] .. newest[l] : Position(l, i) <= p * PageSize
<1> SUFFICES ASSUME NEW i \in oldest[l] .. newest[l], Position(l, i) > p * PageSize
             PROVE  FALSE
    BY Multiples DEF Position, TypeOK
<1>1. oldest[l] \in Nat \ {0} /\ newest[l] \in Nat /\ i \in Nat
    BY DEF TypeOK
<1> DEFINE x == (p - 1) * PageSize
           y == p * PageSize
           a == newest[l] + 1 - y
           b == newest[l] - x
<1>2. x \in Nat /\ y \in Nat /\ y = x + PageSize /\ PageSize \in Nat /\ PageSize >= 1
    BY Multiples
<1>3. newest[l] + 1 - i > y
    BY DEF Position
<1> HIDE DEF x, y
<1>4. a \in Int /\ b \in Int /\ a > i /\ b - a + 1 = PageSize
    BY <1>1, <1>2, <1>3
<1>5. a .. b \subseteq Served(l, p)
  <2> SUFFICES ASSUME NEW j \in a .. b PROVE j \in Served(l, p)
    OBVIOUS
  <2>1. j \in oldest[l] .. newest[l]
    BY <1>1, <1>2, <1>4
  <2>2. x < newest[l] + 1 - j /\ newest[l] + 1 - j <= y
    BY <1>1, <1>2, <1>4
  <2> QED
    BY <2>1, <2>2 DEF Served, Position, x, y
<1> HIDE DEF a, b
<1>6. Cardinality(a .. b) = PageSize
  <2>1. Cardinality(a .. b) = IF a > b THEN 0 ELSE b - a + 1
    BY <1>4, FS_Interval
  <2> QED
    BY <1>2, <1>4, <2>1
<1>7. IsFiniteSet(Served(l, p))
    BY ServedFacts
<1>8. Cardinality(a .. b) <= Cardinality(Served(l, p)) /\ Cardinality(Served(l, p)) \in Nat
    BY <1>5, <1>7, FS_Subset, FS_CardinalityType
<1> QED
    BY <1>2, <1>6, <1>8

\* The pages of workflow runs reach the oldest of them when they reach the
\* number the API counts, which may be more than it serves.
LEMMA TotalReached ==
    ASSUME TypeOK, NEW p \in Nat, p * PageSize >= total_count
    PROVE  \A i \in oldest[WorkflowRuns] .. newest[WorkflowRuns] :
                Position(WorkflowRuns, i) <= p * PageSize
<1> DEFINE a == oldest[WorkflowRuns]
           b == newest[WorkflowRuns]
           y == p * PageSize
<1>1. a \in Nat /\ b \in Nat /\ y \in Nat /\ Unserved \in Nat
    BY ListingFacts, Multiples, RestAssumption DEF TypeOK
<1>2. Cardinality(a .. b) + Unserved <= y
    BY DEF total_count
<1> SUFFICES ASSUME NEW i \in a .. b PROVE b + 1 - i <= y
    BY DEF Position
<1> HIDE DEF a, b, y
<1>3. Cardinality(a .. b) = IF a > b THEN 0 ELSE b - a + 1
    BY <1>1, FS_Interval
<1> QED
    BY <1>1, <1>2, <1>3

\* A page read where the checkpoint says continues what the table has.
LEMMA FetchReaches ==
    ASSUME TypeOK, ListingsInBounds, NothingBeforeNextPage,
           NEW l \in Listings, NEW p \in Nat, p = ckpt[l].page, NEW ends,
           ends => \A i \in oldest[l] .. newest[l] : Position(l, i) <= p * PageSize
    PROVE  Reaches(l, p, Served(l, p), ends)
<1> SUFFICES ASSUME NEW i \in 1 .. InitialNewest[l],
                    ends \/ Position(l, i) <= p * PageSize, i >= oldest[l]
             PROVE  Stored(l, i) \/ i \in Served(l, p)
    BY ListingFacts DEF Reaches, Stored, TypeOK
<1>1. i \in oldest[l] .. newest[l]
    BY ListingFacts DEF ListingsInBounds, TypeOK
<1>2. Position(l, i) <= p * PageSize /\ Position(l, i) \in Nat
    BY <1>1 DEF Position, TypeOK
<1>3. (p - 1) * PageSize \in Nat
    BY Multiples DEF ListingsInBounds
<1>4. CASE Position(l, i) <= (p - 1) * PageSize
    BY <1>4 DEF NothingBeforeNextPage
<1>5. CASE (p - 1) * PageSize < Position(l, i)
    BY <1>1, <1>2, <1>5 DEF Served
<1> QED
    BY <1>2, <1>3, <1>4, <1>5

\* What is stored stays stored, and what a page reaches it goes on reaching,
\* while items arrive, expire and are inserted.
LEMMA StoredStays ==
    ASSUME TypeOK, TypeOK', rows \subseteq rows', NEW l \in Listings, NEW i \in Nat,
           oldest'[l] >= oldest[l], Stored(l, i)
    PROVE  Stored(l, i)'
BY DEF Stored, Selected, InWindow, TypeOK

LEMMA ReachesStays ==
    ASSUME TypeOK, TypeOK', rows \subseteq rows', NEW l \in Listings,
           oldest'[l] >= oldest[l], newest'[l] >= newest[l],
           NEW p \in Nat, NEW items, NEW ends, Reaches(l, p, items, ends)
    PROVE  \A i \in 1 .. InitialNewest[l] :
              ends \/ Position(l, i)' <= p * PageSize => Stored(l, i)' \/ i \in items
<1> SUFFICES ASSUME NEW i \in 1 .. InitialNewest[l],
                    ends \/ Position(l, i)' <= p * PageSize, i \notin items
             PROVE  Stored(l, i)'
    OBVIOUS
<1>1. i \in Nat /\ newest[l] \in Nat /\ newest'[l] \in Nat /\ p * PageSize \in Nat
    BY ListingFacts, Multiples DEF TypeOK
<1>2. ends \/ Position(l, i) <= p * PageSize
    BY <1>1 DEF Position
<1> QED
    BY <1>1, <1>2, StoredStays DEF Reaches

-----------------------------------------------------------------------------
(* Persisting a page.                                                      *)

\* A finite set of items makes a finite set of rows.
LEMMA PageOfRows ==
    ASSUME NEW l, NEW S, IsFiniteSet(S) PROVE IsFiniteSet({<<l, i>> : i \in S})
<1> DEFINE f == [i \in S |-> <<l, i>>]
           R == {<<l, i>> : i \in S}
<1>1. f \in [S -> R]
    OBVIOUS
<1>2. \A r \in R : \E i \in S : f[i] = r
    OBVIOUS
<1>3. f \in Surjection(S, R)
    BY <1>1, <1>2 DEF Surjection
<1> HIDE DEF f
<1> QED
    BY <1>3, FS_Surjection

\* A page persisted at the checkpoint's number leaves nothing behind the next
\* one, and completes its listing only when nothing is missing from it.
LEMMA PersistKeeps ==
    ASSUME TypeOK, DurableInv, NEW l \in Listings, NEW p \in Nat, Reading(l, p),
           NEW items \in SUBSET Nat, IsFiniteSet(items), NEW ends \in BOOLEAN,
           Reaches(l, p, items, ends), NEW ids \in SUBSET items,
           \A i \in items : Selected(l, i) => i \in ids,
           l = DeploymentList => \A d \in ids : Whole(Statuses(d)),
           _persist_page(l, ids, p, ends), UNCHANGED listings
    PROVE  /\ rows' \subseteq Listings \X Nat /\ rows \subseteq rows'
           /\ ckpt' \in [Listings -> [status : {"none", "in_progress", "completed"},
                                      page : Nat, inserted : Nat]]
           /\ DurableInv'
           /\ ends => Completed(l)'
           /\ ~ ends => ~ Completed(l)' /\ ckpt'[l].page = p + 1
           /\ \A k \in Listings \ {l} : ckpt'[k] = ckpt[k]
           /\ \A k \in Listings : ckpt'[k].page >= ckpt[k].page \/ Completed(k)'
<1> DEFINE new == {<<l, i>> : i \in ids}
           row == [status |-> IF ends THEN "completed" ELSE "in_progress",
                   page |-> IF ends THEN 1 ELSE p + 1,
                   inserted |-> ckpt[l].inserted + Cardinality(new \ rows)]
<1>1. rows' = rows \cup new /\ ckpt' = [ckpt EXCEPT ![l] = row]
    BY DEF _persist_page, TypeOK
<1>2. row \in [status : {"none", "in_progress", "completed"}, page : Nat, inserted : Nat]
  <2>1. IsFiniteSet(ids)
    BY FS_Subset
  <2>2. IsFiniteSet(new)
    BY <2>1, PageOfRows
  <2>3. Cardinality(new \ rows) \in Nat
    BY <2>2, FS_Subset, FS_CardinalityType, new \ rows \subseteq new
  <2> HIDE DEF new
  <2>4. ckpt[l].inserted \in Nat
    BY DEF TypeOK
  <2> QED
    BY <2>3, <2>4
<1>3. /\ row.status = IF ends THEN "completed" ELSE "in_progress"
      /\ row.page = IF ends THEN 1 ELSE p + 1
    OBVIOUS
<1>4. rows' \subseteq Listings \X Nat /\ rows \subseteq rows'
    BY <1>1 DEF TypeOK
<1>5. \A i \in ids : <<l, i>> \in rows'
    BY <1>1
<1>6. \A k \in Listings, i \in Nat :
        <<k, i>> \in rows' => <<k, i>> \in rows \/ (k = l /\ i \in ids)
    BY <1>1
<1> HIDE DEF row, new
<1>7. /\ ckpt' \in [Listings -> [status : {"none", "in_progress", "completed"},
                                 page : Nat, inserted : Nat]]
      /\ ckpt'[l] = row /\ \A k \in Listings \ {l} : ckpt'[k] = ckpt[k]
    BY <1>1, <1>2 DEF TypeOK
<1>8. ASSUME NEW k \in Listings, NEW i \in 1 .. InitialNewest[k], Stored(k, i)
      PROVE  Stored(k, i)'
    BY <1>4, <1>8 DEF Stored, Selected, InWindow, listings
<1>9. \A i \in 1 .. InitialNewest[l] :
        ends \/ Position(l, i) <= p * PageSize => Stored(l, i)'
  <2> SUFFICES ASSUME NEW i \in 1 .. InitialNewest[l],
                      ends \/ Position(l, i) <= p * PageSize
               PROVE  Stored(l, i)'
    OBVIOUS
  <2>1. Stored(l, i) \/ i \in items
    BY DEF Reaches
  <2>2. CASE i \in items
    BY <1>5, <2>2 DEF Stored, Selected, InWindow
  <2> QED
    BY <1>8, <2>1, <2>2
<1>10. ListingsInBounds'
    BY <1>3, <1>7 DEF ListingsInBounds, DurableInv, listings
<1>11. NothingBeforeNextPage'
  <2> SUFFICES ASSUME NEW k \in Listings, NEW i \in 1 .. InitialNewest[k],
                      Position(k, i)' <= (ckpt'[k].page - 1) * PageSize
               PROVE  Stored(k, i)'
    BY DEF NothingBeforeNextPage
  <2>1. Position(k, i)' = Position(k, i)
    BY DEF Position, listings
  <2>2. CASE k # l
    BY <1>7, <1>8, <2>1, <2>2 DEF DurableInv, NothingBeforeNextPage
  <2>3. CASE k = l /\ ends
    BY <1>9, <2>3
  <2>4. CASE k = l /\ ~ ends
    <3>1. (ckpt'[k].page - 1) * PageSize = p * PageSize
      BY <1>3, <1>7, <2>4, Multiples
    <3> QED
      BY <1>9, <2>1, <2>4, <3>1
  <2> QED
    BY <2>2, <2>3, <2>4
<1>12. CompletedListingIsWhole'
  <2> SUFFICES ASSUME NEW k \in Listings, Completed(k)',
                      NEW i \in 1 .. InitialNewest[k]
               PROVE  Stored(k, i)'
    BY DEF CompletedListingIsWhole, Whole
  <2>1. CASE k = l
    BY <1>3, <1>7, <1>9, <2>1 DEF Completed
  <2>2. CASE k # l
    BY <1>7, <1>8, <2>2 DEF Completed, DurableInv, CompletedListingIsWhole, Whole
  <2> QED
    BY <2>1, <2>2
<1>13. StatusesBeforeDeployment'
  <2> SUFFICES ASSUME NEW d \in Deployments, <<DeploymentList, d>> \in rows',
                      NEW i \in 1 .. InitialNewest[Statuses(d)]
               PROVE  Stored(Statuses(d), i)'
    BY DEF StatusesBeforeDeployment, Whole
  <2>1. Statuses(d) \in Listings /\ DeploymentList \in Listings /\ d \in Nat
    BY ListingFacts DEF Deployments
  <2>2. Whole(Statuses(d))
    BY <1>6, <2>1 DEF DurableInv, StatusesBeforeDeployment
  <2> QED
    BY <1>8, <2>1, <2>2 DEF Whole
<1>14. /\ ends => Completed(l)'
       /\ ~ ends => ~ Completed(l)' /\ ckpt'[l].page = p + 1
       /\ \A k \in Listings : ckpt'[k].page >= ckpt[k].page \/ Completed(k)'
    BY <1>3, <1>7 DEF Completed, Reading, TypeOK
<1> QED
    BY <1>4, <1>7, <1>10, <1>11, <1>12, <1>13, <1>14 DEF DurableInv

-----------------------------------------------------------------------------
(* The run's memory.                                                       *)

LEMMA DurableSame ==
    ASSUME DurableInv, UNCHANGED <<listings, rows, ckpt>> PROVE DurableInv'
BY DEF DurableInv, listings, ListingsInBounds, NothingBeforeNextPage,
   CompletedListingIsWhole, StatusesBeforeDeployment, Whole, Stored, Position,
   Completed, Selected, InWindow

\* A run that ends keeps nothing.
LEMMA ForgetSound ==
    ASSUME Forget
    PROVE  /\ MemoryIsSound'
           /\ stage' \in Stage /\ page' \in Nat /\ held' \in SUBSET Nat
           /\ last' \in BOOLEAN /\ todo' \subseteq held'
           /\ spage' \in Nat /\ sheld' \in SUBSET Nat /\ slast' \in BOOLEAN
BY FS_EmptySet DEF Forget, MemoryIsSound, InRuns, InNodes, InStatuses, Stage

\* The deployment whose statuses are read is one of the page, and only one is.
LEMMA CurrentFacts ==
    ASSUME TypeOK, MemoryIsSound, InNodes, NEW d \in Current
    PROVE  /\ d \in todo /\ d \in held /\ d \in Deployments
           /\ Statuses(d) \in Listings
           /\ \A e \in Current : e = d
<1>1. d \in todo /\ d \in held /\ d \in Deployments
    BY DEF Current, TypeOK, MemoryIsSound
<1>2. \A e \in Current : e \in Nat /\ d \in Nat /\ e <= d /\ d <= e
    BY DEF Current, TypeOK
<1> QED
    BY <1>1, <1>2, ListingFacts

\* Reading the next page of workflow runs.
LEMMA RunsKeep ==
    ASSUME IInv, StartRuns \/ FetchRuns \/ OverCap PROVE IInv'
<1> USE DEF IInv, TypeOK
<1>1. DurableInv'
    BY DurableSame DEF StartRuns, FetchRuns, OverCap, DurableInv
<1>2. CASE StartRuns
  <2>1. TypeOK'
    BY <1>2, ListingFacts DEF StartRuns, listings, statusMemory, Stage
  <2>2. MemoryIsSound'
    BY <1>2 DEF StartRuns, MemoryIsSound, InRuns, InNodes, InStatuses, Reading,
       Completed, statusMemory
  <2> QED
    BY <1>1, <2>1, <2>2 DEF DurableInv
<1>3. CASE FetchRuns
  <2>1. /\ stage = "runs" /\ Reading(WorkflowRuns, page) /\ todo = {}
        /\ held' = Served(WorkflowRuns, page)
        /\ last' = (page * PageSize >= total_count)
    BY <1>3 DEF FetchRuns, MemoryIsSound, InRuns, InNodes, InStatuses
  <2>2. held' \in SUBSET Nat /\ IsFiniteSet(held')
    BY <2>1, ServedFacts, ListingFacts
  <2>3. Reaches(WorkflowRuns, page, held', last')
    BY <2>1, ListingFacts, FetchReaches, TotalReached DEF Reading
  <2>4. TypeOK'
    BY <1>3, <2>1, <2>2 DEF FetchRuns, listings, statusMemory, Stage
  <2>5. MemoryIsSound'
    BY <1>3, <2>1, <2>2, <2>3
    DEF FetchRuns, MemoryIsSound, InRuns, InNodes, InStatuses, Reading, Reaches,
        Completed, Stored, Position, Selected, InWindow, statusMemory, listings
  <2> QED
    BY <1>1, <2>4, <2>5 DEF DurableInv
<1>4. CASE OverCap
    BY <1>1, <1>4, ForgetSound DEF OverCap, DurableInv, listings
<1> QED
    BY <1>2, <1>3, <1>4

\* The phase of deployments begins where its own checkpoint says.
LEMMA EnterSound ==
    ASSUME TypeOK, EnterDeployments, UNCHANGED statusMemory, IsFiniteSet(sheld),
           ckpt'[DeploymentList] = ckpt[DeploymentList]
    PROVE  /\ MemoryIsSound'
           /\ stage' \in Stage /\ page' \in Nat /\ held' \in SUBSET Nat
           /\ last' \in BOOLEAN /\ todo' \subseteq held'
           /\ spage' \in Nat /\ sheld' \in SUBSET Nat /\ slast' \in BOOLEAN
<1>1. ckpt[DeploymentList].page \in Nat
    BY ListingFacts DEF TypeOK
<1> QED
    BY <1>1, FS_EmptySet
    DEF EnterDeployments, statusMemory, TypeOK, Stage, MemoryIsSound, InRuns, InNodes,
        InStatuses, Reading, Completed

\* Persisting the page of workflow runs, and skipping them once completed.
LEMMA PersistRunsKeeps ==
    ASSUME IInv, PersistRuns \/ SkipRuns PROVE IInv'
<1> USE DEF IInv
<1>1. CASE PersistRuns
  <2> DEFINE ids == {i \in held : InWindow(i)}
  <2>1. /\ stage = "runs_page" /\ Reading(WorkflowRuns, page)
        /\ Reaches(WorkflowRuns, page, held, last)
        /\ IsFiniteSet(held) /\ IsFiniteSet(sheld) /\ todo = {}
        /\ _persist_page(WorkflowRuns, ids, page, last)
        /\ UNCHANGED listings /\ failures' = failures
    BY <1>1 DEF PersistRuns, MemoryIsSound, InRuns, InNodes, InStatuses
  <2>2. \A i \in held : Selected(WorkflowRuns, i) => i \in ids
    BY DEF Selected
  <2>3. /\ rows' \subseteq Listings \X Nat /\ rows \subseteq rows'
        /\ ckpt' \in [Listings -> [status : {"none", "in_progress", "completed"},
                                   page : Nat, inserted : Nat]]
        /\ DurableInv'
        /\ ~ last => ~ Completed(WorkflowRuns)' /\ ckpt'[WorkflowRuns].page = page + 1
        /\ ckpt'[DeploymentList] = ckpt[DeploymentList]
    <3>1. DurableInv
      BY DEF DurableInv
    <3>2. /\ page \in Nat /\ held \in SUBSET Nat /\ last \in BOOLEAN
          /\ ids \in SUBSET held /\ WorkflowRuns # DeploymentList
          /\ WorkflowRuns \in Listings /\ DeploymentList \in Listings
      BY ListingFacts DEF TypeOK
    <3> HIDE DEF ids
    <3> QED
      BY <2>1, <2>2, <3>1, <3>2, PersistKeeps
  <2>4. CASE last /\ EnterDeployments /\ UNCHANGED statusMemory
    BY <2>1, <2>3, <2>4, EnterSound DEF DurableInv, TypeOK, listings
  <2>5. CASE Forget
    BY <2>1, <2>3, <2>5, ForgetSound DEF DurableInv, TypeOK, listings
  <2>6. CASE /\ ~ last /\ stage' = "runs" /\ page' = page + 1
             /\ held' = {} /\ last' = FALSE /\ UNCHANGED <<todo, statusMemory>>
    <3>1. TypeOK'
      <4>1. /\ page' \in Nat /\ held' \in SUBSET Nat /\ todo' \subseteq held'
            /\ stage' \in Stage /\ last' \in BOOLEAN
        <5>1. page' \in Nat
          BY <2>6 DEF TypeOK
        <5>2. last' \in BOOLEAN
          BY <2>6
        <5>3. stage' \in Stage
          BY <2>6 DEF Stage
        <5>4. held' = {} /\ todo' = {}
          BY <2>1, <2>6
        <5> QED
          BY <5>1, <5>2, <5>3, <5>4
      <4> QED
        BY <2>1, <2>3, <2>6, <4>1 DEF TypeOK, listings, statusMemory
    <3>2. MemoryIsSound'
      BY <2>1, <2>3, <2>6, FS_EmptySet
      DEF MemoryIsSound, InRuns, InNodes, InStatuses, statusMemory, Reading, Completed
    <3> QED
      BY <2>3, <3>1, <3>2 DEF DurableInv
  <2> QED
    BY <1>1, <2>4, <2>5, <2>6 DEF PersistRuns
<1>2. CASE SkipRuns
  <2>1. DurableInv'
    BY <1>2, DurableSame DEF SkipRuns, DurableInv
  <2>2. IsFiniteSet(sheld)
    BY DEF MemoryIsSound
  <2> QED
    BY <1>2, <2>1, <2>2, EnterSound DEF SkipRuns, DurableInv, TypeOK, listings
<1> QED
    BY <1>1, <1>2

\* Reading a page of deployments, and beginning with, or skipping, the statuses
\* of one of them.
LEMMA NodesKeep ==
    ASSUME IInv, FetchDeployments \/ SkipStatuses \/ StartStatuses PROVE IInv'
<1> USE DEF IInv
<1>1. DurableInv'
    BY DurableSame DEF FetchDeployments, SkipStatuses, StartStatuses, DurableInv
<1>2. CASE FetchDeployments
  <2>1. /\ stage = "deployments" /\ Reading(DeploymentList, page)
        /\ held' = Served(DeploymentList, page)
        /\ todo' = {i \in held' : InWindow(i)}
        /\ last' = (Cardinality(held') < PageSize)
        /\ page \in Nat /\ page >= 1
    BY <1>2, ListingFacts
    DEF FetchDeployments, MemoryIsSound, Reading, ListingsInBounds, TypeOK
  <2>2. held' \in SUBSET Nat /\ IsFiniteSet(held') /\ held' \subseteq Deployments
    BY <2>1, ServedFacts, ListingFacts DEF Deployments
  <2>3. Reaches(DeploymentList, page, held', last')
    BY <2>1, ListingFacts, FetchReaches, ShortPageIsLast DEF Reading
  <2>4. TypeOK'
    BY <1>2, <2>1, <2>2 DEF FetchDeployments, TypeOK, listings, statusMemory, Stage
  <2>5. MemoryIsSound'
    BY <1>2, <2>1, <2>2, <2>3
    DEF FetchDeployments, MemoryIsSound, InRuns, InNodes, InStatuses, Reading, Reaches,
        Completed, Stored, Position, Selected, InWindow, statusMemory, listings
  <2> QED
    BY <1>1, <2>4, <2>5 DEF DurableInv
<1>3. CASE SkipStatuses
  <2>1. PICK d \in Current : Completed(Statuses(d)) /\ todo' = todo \ {d}
    BY <1>3 DEF SkipStatuses
  <2>2. stage = "nodes" /\ UNCHANGED <<listings, rows, ckpt, stage, page, held, last,
                                       statusMemory, failures>>
    BY <1>3 DEF SkipStatuses
  <2>3. TypeOK'
    BY <2>1, <2>2 DEF TypeOK, listings, statusMemory
  <2>4. MemoryIsSound'
    BY <2>1, <2>2
    DEF MemoryIsSound, InRuns, InNodes, InStatuses, Reading, Reaches, Completed, Stored,
        Position, Selected, InWindow, statusMemory, listings
  <2> QED
    BY <1>1, <2>3, <2>4 DEF DurableInv
<1>4. CASE StartStatuses
  <2>1. PICK d \in Current : ~ Completed(Statuses(d)) /\ spage' = ckpt[Statuses(d)].page
    BY <1>4 DEF StartStatuses
  <2>2. /\ stage = "nodes" /\ stage' = "statuses"
        /\ UNCHANGED <<listings, rows, ckpt, page, held, last, todo, sheld, slast, failures>>
    BY <1>4 DEF StartStatuses
  <2>3. Statuses(d) \in Listings /\ \A e \in Current : e = d
    BY <2>2, CurrentFacts DEF InNodes
  <2>4. TypeOK'
    BY <2>1, <2>2, <2>3 DEF TypeOK, listings, Stage
  <2>5. Current' = Current
    BY <2>2 DEF Current
  <2>6. \A e \in Current : Reading(Statuses(e), spage)'
    BY <2>1, <2>2, <2>3 DEF Reading, Completed
  <2>7. MemoryIsSound'
    BY <2>2, <2>5, <2>6
    DEF MemoryIsSound, InRuns, InNodes, InStatuses, Reading, Reaches, Completed, Stored,
        Position, Selected, InWindow, listings
  <2> QED
    BY <1>1, <2>4, <2>7 DEF DurableInv
<1> QED
    BY <1>2, <1>3, <1>4

\* Reading a page of statuses.
LEMMA FetchStatusesKeeps ==
    ASSUME IInv, FetchStatuses PROVE IInv'
<1> USE DEF IInv
<1>1. DurableInv'
    BY DurableSame DEF FetchStatuses, DurableInv
<1>2. PICK d \in Current : sheld' = Served(Statuses(d), spage)
    BY DEF FetchStatuses
<1>3. /\ stage = "statuses" /\ stage' = "statuses_page"
      /\ slast' = (Cardinality(sheld') < PageSize)
      /\ UNCHANGED <<listings, rows, ckpt, page, held, last, todo, spage, failures>>
    BY DEF FetchStatuses
<1>4. Statuses(d) \in Listings /\ \A e \in Current : e = d
    BY <1>3, CurrentFacts DEF InNodes, InStatuses
<1>5. Reading(Statuses(d), spage) /\ spage \in Nat /\ spage >= 1
    BY <1>3, <1>4 DEF MemoryIsSound, InStatuses, Reading, ListingsInBounds, TypeOK
<1>6. sheld' \in SUBSET Nat /\ IsFiniteSet(sheld')
    BY <1>2, <1>4, <1>5, ServedFacts
<1>7. Reaches(Statuses(d), spage, sheld', slast')
    BY <1>2, <1>3, <1>4, <1>5, FetchReaches, ShortPageIsLast DEF Reading
<1>8. TypeOK'
    BY <1>3, <1>6 DEF TypeOK, listings, Stage
<1>9. Current' = Current
    BY <1>3 DEF Current
<1>10. \A e \in Current : Reaches(Statuses(e), spage, sheld, slast)'
    BY <1>3, <1>4, <1>7 DEF Reaches, Stored, Position, Selected, InWindow, listings
<1>11. MemoryIsSound'
    BY <1>3, <1>6, <1>9, <1>10
    DEF MemoryIsSound, InRuns, InNodes, InStatuses, Reading, Reaches, Completed, Stored,
        Position, Selected, InWindow, listings
<1> QED
    BY <1>1, <1>8, <1>11 DEF DurableInv

\* What a persisted page of statuses, or of deployments, does to the tables,
\* whether or not the run learns of it.
LEMMA StatusesPersisted ==
    ASSUME IInv, stage = "statuses_page", NEW d \in Current,
           _persist_page(Statuses(d), sheld, spage, slast), UNCHANGED listings
    PROVE  /\ rows' \subseteq Listings \X Nat /\ rows \subseteq rows'
           /\ ckpt' \in [Listings -> [status : {"none", "in_progress", "completed"},
                                      page : Nat, inserted : Nat]]
           /\ DurableInv'
           /\ slast => Completed(Statuses(d))'
           /\ ~ slast => /\ ~ Completed(Statuses(d))'
                         /\ ckpt'[Statuses(d)].page = spage + 1
           /\ \A k \in Listings \ {Statuses(d)} : ckpt'[k] = ckpt[k]
           /\ \A k \in Listings : ckpt'[k].page >= ckpt[k].page \/ Completed(k)'
<1> USE DEF IInv
<1>1. d \in Deployments /\ Statuses(d) \in Listings
    BY CurrentFacts DEF InNodes, InStatuses
<1>2. /\ Reading(Statuses(d), spage) /\ IsFiniteSet(sheld)
      /\ Reaches(Statuses(d), spage, sheld, slast)
    BY DEF MemoryIsSound, InStatuses
<1>3. /\ spage \in Nat /\ sheld \in SUBSET Nat /\ slast \in BOOLEAN
      /\ Statuses(d) # DeploymentList
    BY <1>1, ListingFacts DEF TypeOK
<1>4. DurableInv
    BY DEF DurableInv
<1>5. \A i \in sheld : Selected(Statuses(d), i) => i \in sheld
    OBVIOUS
<1> QED
    BY <1>1, <1>2, <1>3, <1>4, <1>5, PersistKeeps

LEMMA DeploymentsPersisted ==
    ASSUME IInv, stage = "nodes", todo = {}, UNCHANGED listings,
           _persist_page(DeploymentList, {i \in held : InWindow(i)}, page, last)
    PROVE  /\ rows' \subseteq Listings \X Nat /\ rows \subseteq rows'
           /\ ckpt' \in [Listings -> [status : {"none", "in_progress", "completed"},
                                      page : Nat, inserted : Nat]]
           /\ DurableInv'
           /\ ~ last => /\ ~ Completed(DeploymentList)'
                        /\ ckpt'[DeploymentList].page = page + 1
           /\ \A k \in Listings \ {DeploymentList} : ckpt'[k] = ckpt[k]
           /\ \A k \in Listings : ckpt'[k].page >= ckpt[k].page \/ Completed(k)'
<1> USE DEF IInv
<1> DEFINE ids == {i \in held : InWindow(i)}
<1>1. /\ Reading(DeploymentList, page) /\ IsFiniteSet(held)
      /\ Reaches(DeploymentList, page, held, last)
      /\ \A d \in ids : d \in Deployments /\ Completed(Statuses(d))
    BY DEF MemoryIsSound, InNodes
<1>2. \A d \in ids : Whole(Statuses(d))
    BY <1>1, ListingFacts DEF CompletedListingIsWhole
<1>3. /\ page \in Nat /\ held \in SUBSET Nat /\ last \in BOOLEAN
      /\ ids \in SUBSET held /\ DeploymentList \in Listings
      /\ \A i \in held : Selected(DeploymentList, i) => i \in ids
    BY ListingFacts DEF TypeOK, Selected
<1>4. _persist_page(DeploymentList, ids, page, last)
    OBVIOUS
<1>5. DurableInv
    BY DEF DurableInv
<1> HIDE DEF ids
<1> QED
    BY <1>1, <1>2, <1>3, <1>4, <1>5, PersistKeeps

LEMMA PersistStatusesKeeps ==
    ASSUME IInv, PersistStatuses PROVE IInv'
<1> USE DEF IInv
<1>1. PICK d \in Current :
        /\ _persist_page(Statuses(d), sheld, spage, slast)
        /\ IF slast
           THEN stage' = "nodes" /\ spage' = 0 /\ todo' = todo \ {d}
           ELSE stage' = "statuses" /\ spage' = spage + 1 /\ UNCHANGED todo
    BY DEF PersistStatuses
<1>2. /\ stage = "statuses_page" /\ sheld' = {} /\ slast' = FALSE
      /\ UNCHANGED <<listings, page, held, last, failures>>
    BY DEF PersistStatuses
<1>3. /\ rows' \subseteq Listings \X Nat /\ rows \subseteq rows'
      /\ ckpt' \in [Listings -> [status : {"none", "in_progress", "completed"},
                                 page : Nat, inserted : Nat]]
      /\ DurableInv'
      /\ slast => Completed(Statuses(d))'
      /\ ~ slast => ~ Completed(Statuses(d))' /\ ckpt'[Statuses(d)].page = spage + 1
      /\ \A k \in Listings \ {Statuses(d)} : ckpt'[k] = ckpt[k]
    BY <1>1, <1>2, StatusesPersisted
<1>4. /\ d \in todo /\ d \in Deployments /\ Statuses(d) \in Listings
      /\ \A e \in Current : e = d
    BY <1>2, CurrentFacts DEF InNodes, InStatuses
<1>5. TypeOK'
  <2>1. /\ spage' \in Nat /\ sheld' \in SUBSET Nat /\ todo' \subseteq held'
        /\ stage' \in Stage /\ slast' \in BOOLEAN
    <3>1. spage' \in Nat
      BY <1>1 DEF TypeOK
    <3>2. slast' \in BOOLEAN /\ sheld' \in SUBSET Nat
      BY <1>2
    <3>3. stage' \in Stage
      BY <1>1 DEF Stage
    <3>4. todo' \subseteq held'
      BY <1>1, <1>2 DEF TypeOK
    <3> QED
      BY <3>1, <3>2, <3>3, <3>4
  <2> QED
    BY <1>2, <1>3, <2>1 DEF TypeOK, listings
<1>6. /\ held \subseteq Deployments /\ IsFiniteSet(held)
      /\ Reading(DeploymentList, page)
      /\ Reaches(DeploymentList, page, held, last)
      /\ \A e \in held : InWindow(e) => e \in todo \/ Completed(Statuses(e))
    BY <1>2 DEF MemoryIsSound, InNodes, InStatuses
<1>7. Reading(DeploymentList, page)'
    BY <1>2, <1>3, <1>4, <1>6, ListingFacts DEF Reading, Completed
<1>8. Reaches(DeploymentList, page, held, last)'
  <2>1. /\ oldest' = oldest /\ newest' = newest /\ page' = page /\ held' = held
        /\ last' = last /\ page \in Nat /\ DeploymentList \in Listings
    BY <1>2, ListingFacts DEF listings, TypeOK
  <2>2. /\ oldest'[DeploymentList] >= oldest[DeploymentList]
        /\ newest'[DeploymentList] >= newest[DeploymentList]
    BY <2>1 DEF TypeOK
  <2> QED
    BY <1>3, <1>5, <1>6, <2>1, <2>2, ReachesStays DEF Reaches
<1>9. \A e \in held : InWindow(e) => e \in todo' \/ Completed(Statuses(e))'
  <2> SUFFICES ASSUME NEW e \in held, InWindow(e), e \notin todo'
               PROVE  Completed(Statuses(e))'
    OBVIOUS
  <2>1. CASE e = d
    BY <1>1, <1>3, <1>4, <2>1
  <2>2. CASE e # d
    <3>1. e \notin todo
      BY <1>1, <2>2
    <3>2. Completed(Statuses(e)) /\ Statuses(e) \in Listings /\ Statuses(e) # Statuses(d)
      BY <1>4, <1>6, <2>2, <3>1, ListingFacts
    <3> QED
      BY <1>3, <3>2 DEF Completed
  <2> QED
    BY <2>1, <2>2
<1>10. stage' = "statuses" => \A e \in Current' : Reading(Statuses(e), spage)'
  <2> SUFFICES ASSUME stage' = "statuses", NEW e \in Current'
               PROVE  Reading(Statuses(e), spage)'
    OBVIOUS
  <2>1. ~ slast /\ todo' = todo /\ spage' = spage + 1
    BY <1>1
  <2>2. e = d
    BY <1>4, <2>1 DEF Current
  <2> QED
    BY <1>3, <2>1, <2>2 DEF Reading, Completed
<1>11. MemoryIsSound'
    BY <1>1, <1>2, <1>6, <1>7, <1>8, <1>9, <1>10, FS_EmptySet
    DEF MemoryIsSound, InRuns, InNodes, InStatuses, InWindow
<1> QED
    BY <1>3, <1>5, <1>11 DEF DurableInv

LEMMA PersistDeploymentsKeeps ==
    ASSUME IInv, PersistDeployments PROVE IInv'
<1> USE DEF IInv
<1>1. /\ stage = "nodes" /\ todo = {} /\ UNCHANGED listings /\ failures' = failures
      /\ _persist_page(DeploymentList, {i \in held : InWindow(i)}, page, last)
    BY DEF PersistDeployments
<1>2. /\ rows' \subseteq Listings \X Nat
      /\ ckpt' \in [Listings -> [status : {"none", "in_progress", "completed"},
                                 page : Nat, inserted : Nat]]
      /\ DurableInv'
      /\ ~ last => ~ Completed(DeploymentList)' /\ ckpt'[DeploymentList].page = page + 1
    BY <1>1, DeploymentsPersisted
<1>3. CASE Forget
    BY <1>1, <1>2, <1>3, ForgetSound DEF DurableInv, TypeOK, listings
<1>4. CASE /\ ~ last /\ stage' = "deployments" /\ page' = page + 1
           /\ held' = {} /\ last' = FALSE /\ UNCHANGED <<todo, statusMemory>>
  <2>1. TypeOK'
    <3>1. /\ page' \in Nat /\ held' \in SUBSET Nat /\ todo' \subseteq held'
          /\ stage' \in Stage /\ last' \in BOOLEAN
      <4>1. page' \in Nat
        BY <1>4 DEF TypeOK
      <4>2. last' \in BOOLEAN
        BY <1>4
      <4>3. stage' \in Stage
        BY <1>4 DEF Stage
      <4>4. held' = {} /\ todo' = {}
        BY <1>1, <1>4
      <4> QED
        BY <4>1, <4>2, <4>3, <4>4
    <3> QED
      BY <1>1, <1>2, <1>4, <3>1 DEF TypeOK, listings, statusMemory
  <2>2. MemoryIsSound'
    BY <1>1, <1>2, <1>4, FS_EmptySet
    DEF MemoryIsSound, InRuns, InNodes, InStatuses, statusMemory, Reading, Completed
  <2> QED
    BY <1>2, <2>1, <2>2 DEF DurableInv
<1> QED
    BY <1>3, <1>4 DEF PersistDeployments

\* A run that fails, before or after a commit it does not learn of.
LEMMA FailKeeps ==
    ASSUME IInv, Fail \/ PersistFails PROVE IInv'
<1> USE DEF IInv
<1>1. Forget /\ UNCHANGED listings /\ failures' \in 0 .. MaxFailures
    BY RestAssumption DEF Fail, PersistFails, TypeOK
<1>2. CASE UNCHANGED <<rows, ckpt>>
  <2>1. DurableInv'
    BY <1>1, <1>2, DurableSame DEF DurableInv
  <2> QED
    BY <1>1, <1>2, <2>1, ForgetSound DEF DurableInv, TypeOK, listings
<1>3. ASSUME /\ rows' \subseteq Listings \X Nat
             /\ ckpt' \in [Listings -> [status : {"none", "in_progress", "completed"},
                                        page : Nat, inserted : Nat]]
             /\ DurableInv'
      PROVE  IInv'
    BY <1>1, <1>3, ForgetSound DEF DurableInv, TypeOK, listings
<1>4. CASE /\ stage = "runs_page"
           /\ _persist_page(WorkflowRuns, {i \in held : InWindow(i)}, page, last)
  <2> DEFINE ids == {i \in held : InWindow(i)}
  <2>1. /\ Reading(WorkflowRuns, page) /\ Reaches(WorkflowRuns, page, held, last)
        /\ IsFiniteSet(held) /\ _persist_page(WorkflowRuns, ids, page, last)
    BY <1>4 DEF MemoryIsSound, InRuns
  <2>2. \A i \in held : Selected(WorkflowRuns, i) => i \in ids
    BY DEF Selected
  <2>3. DurableInv
    BY DEF DurableInv
  <2>4. /\ page \in Nat /\ held \in SUBSET Nat /\ last \in BOOLEAN
        /\ ids \in SUBSET held /\ WorkflowRuns # DeploymentList
        /\ WorkflowRuns \in Listings
    BY ListingFacts DEF TypeOK
  <2> HIDE DEF ids
  <2>5. /\ rows' \subseteq Listings \X Nat
        /\ ckpt' \in [Listings -> [status : {"none", "in_progress", "completed"},
                                   page : Nat, inserted : Nat]]
        /\ DurableInv'
    BY <1>1, <2>1, <2>2, <2>3, <2>4, PersistKeeps
  <2> QED
    BY <1>3, <2>5
<1>5. ASSUME stage = "statuses_page", NEW d \in Current,
             _persist_page(Statuses(d), sheld, spage, slast)
      PROVE  IInv'
    BY <1>1, <1>3, <1>5, StatusesPersisted
<1>6. CASE /\ stage = "nodes" /\ todo = {}
           /\ _persist_page(DeploymentList, {i \in held : InWindow(i)}, page, last)
    BY <1>1, <1>3, <1>6, DeploymentsPersisted
<1> QED
    BY <1>2, <1>4, <1>5, <1>6 DEF Fail, PersistFails

-----------------------------------------------------------------------------
(* GitHub.                                                                 *)

\* Items that arrive push the others to later positions, items that expire are
\* no longer owed: neither takes anything from what has been read.
LEMMA ListingsMove ==
    ASSUME IInv, NEW k \in Listings, Arrive(k) \/ Expire(k) PROVE IInv'
<1> USE DEF IInv
<1>1. UNCHANGED <<rows, ckpt, stage, memory, failures>>
    BY DEF Arrive, Expire
<1>2. TypeOK'
    BY <1>1 DEF Arrive, Expire, TypeOK, memory, statusMemory
<1>3. \A l \in Listings : /\ oldest'[l] >= oldest[l] /\ newest'[l] >= newest[l]
                          /\ newest'[l] <= Limit(l)
    BY ListingFacts DEF Arrive, Expire, TypeOK, ListingsInBounds
<1>4. ListingsInBounds'
    BY <1>1, <1>2, <1>3, ListingFacts DEF ListingsInBounds, TypeOK
<1>5. \A l \in Listings : \A i \in 1 .. InitialNewest[l] : Stored(l, i) => Stored(l, i)'
    BY <1>1, <1>2, <1>3, StoredStays, ListingFacts
<1>6. ASSUME NEW l \in Listings, NEW p \in Nat, NEW items, NEW ends,
             Reaches(l, p, items, ends)
      PROVE  \A i \in 1 .. InitialNewest[l] :
                ends \/ Position(l, i)' <= p * PageSize => Stored(l, i)' \/ i \in items
    BY <1>1, <1>2, <1>3, <1>6, ReachesStays
<1>7. NothingBeforeNextPage'
  <2> SUFFICES ASSUME NEW l \in Listings, NEW i \in 1 .. InitialNewest[l],
                      Position(l, i)' <= (ckpt'[l].page - 1) * PageSize
               PROVE  Stored(l, i)'
    BY DEF NothingBeforeNextPage
  <2> DEFINE x == (ckpt[l].page - 1) * PageSize
  <2>1. x \in Nat /\ newest[l] \in Nat /\ newest'[l] \in Nat /\ i \in Nat
    <3>1. ckpt[l].page \in Nat /\ ckpt[l].page >= 1
      BY DEF TypeOK, ListingsInBounds
    <3>2. newest[l] \in Nat /\ newest'[l] \in Nat /\ i \in Nat
      BY <1>2, ListingFacts DEF TypeOK
    <3> QED
      BY <3>1, <3>2, Multiples
  <2>2. newest'[l] + 1 - i <= x
    BY <1>1 DEF Position
  <2> HIDE DEF x
  <2>3. newest[l] + 1 - i <= x
    BY <1>3, <2>1, <2>2
  <2> QED
    BY <1>5, <2>3 DEF NothingBeforeNextPage, Position, x
<1>8. CompletedListingIsWhole' /\ StatusesBeforeDeployment'
    BY <1>1, <1>5, ListingFacts
    DEF CompletedListingIsWhole, StatusesBeforeDeployment, Completed, Whole
<1>9. MemoryIsSound'
  <2>1. /\ page \in Nat /\ spage \in Nat
        /\ UNCHANGED <<page, held, last, todo, spage, sheld, slast>>
    BY <1>1 DEF TypeOK, memory, statusMemory
  <2>2. stage = "runs_page" => Reaches(WorkflowRuns, page, held, last)'
    BY <1>6, <2>1, ListingFacts DEF MemoryIsSound, Reaches
  <2>3. InNodes => Reaches(DeploymentList, page, held, last)'
    BY <1>6, <2>1, ListingFacts DEF MemoryIsSound, Reaches
  <2>4. stage = "statuses_page" =>
            \A d \in Current : Reaches(Statuses(d), spage, sheld, slast)'
    <3> SUFFICES ASSUME stage = "statuses_page", NEW d \in Current
                 PROVE  Reaches(Statuses(d), spage, sheld, slast)'
      OBVIOUS
    <3>1. Statuses(d) \in Listings /\ Reaches(Statuses(d), spage, sheld, slast)
      BY CurrentFacts DEF InNodes, InStatuses, MemoryIsSound
    <3> QED
      BY <1>6, <2>1, <3>1 DEF Reaches
  <2>5. Current' = Current
    BY <2>1 DEF Current
  <2> QED
    BY <1>1, <2>1, <2>2, <2>3, <2>4, <2>5
    DEF MemoryIsSound, InRuns, InNodes, InStatuses, Reading, Completed, InWindow
<1> QED
    BY <1>2, <1>4, <1>7, <1>8, <1>9

-----------------------------------------------------------------------------

LEMMA Initial == Init => IInv
<1> SUFFICES ASSUME Init PROVE IInv
    OBVIOUS
<1>1. TypeOK
  <2>1. newest \in [Listings -> Nat] /\ oldest \in [Listings -> Nat \ {0}]
    BY RestAssumption DEF Init
  <2>2. ckpt \in [Listings -> [status : {"none", "in_progress", "completed"},
                              page : Nat, inserted : Nat]]
    BY DEF Init
  <2>3. stage \in Stage /\ page \in Nat /\ spage \in Nat /\ failures \in 0 .. MaxFailures
    BY RestAssumption DEF Init, Stage
  <2>4. /\ held \in SUBSET Nat /\ todo \subseteq held /\ sheld \in SUBSET Nat
        /\ rows \subseteq Listings \X Nat
    BY DEF Init
  <2>5. last \in BOOLEAN /\ slast \in BOOLEAN
    BY DEF Init
  <2> QED
    BY <2>1, <2>2, <2>3, <2>4, <2>5 DEF TypeOK
<1>5. ListingsInBounds
    BY RestAssumption, ListingFacts DEF Init, ListingsInBounds
<1>2. NothingBeforeNextPage
  <2> SUFFICES ASSUME NEW l \in Listings, NEW i \in 1 .. InitialNewest[l],
                      Position(l, i) <= (ckpt[l].page - 1) * PageSize
               PROVE  FALSE
    BY DEF NothingBeforeNextPage
  <2>1. ckpt[l].page = 1 /\ newest[l] = InitialNewest[l] /\ InitialNewest[l] \in Nat
    BY ListingFacts DEF Init
  <2>2. (1 - 1) * PageSize = 0
    BY Multiples
  <2> QED
    BY <2>1, <2>2 DEF Position
<1>3. CompletedListingIsWhole /\ StatusesBeforeDeployment
    BY DEF Init, CompletedListingIsWhole, StatusesBeforeDeployment, Completed
<1>4. MemoryIsSound
    BY FS_EmptySet DEF Init, MemoryIsSound, InRuns, InNodes, InStatuses
<1> QED
    BY <1>1, <1>5, <1>2, <1>3, <1>4 DEF IInv

LEMMA StepKeeps == IInv /\ [Next]_vars => IInv'
<1> SUFFICES ASSUME IInv, [Next]_vars PROVE IInv'
    OBVIOUS
<1>1. CASE UNCHANGED vars
  <2> USE <1>1 DEF vars, memory, statusMemory, listings
  <2>1. DurableInv'
    BY DurableSame DEF IInv, DurableInv
  <2>2. TypeOK' /\ MemoryIsSound'
    BY DEF IInv, TypeOK, MemoryIsSound, InRuns, InNodes, InStatuses, Reading, Reaches,
       Completed, Stored, Position, Selected, InWindow, Current
  <2> QED
    BY <2>1, <2>2 DEF IInv, DurableInv
<1> QED
    BY <1>1, RunsKeep, PersistRunsKeeps, NodesKeep, FetchStatusesKeeps,
       PersistStatusesKeeps, PersistDeploymentsKeeps, FailKeeps, ListingsMove
    DEF Next, Run

\* Every checkpoint row but that of the page being persisted is left alone, and
\* that one moves on.
LEMMA ProgressStep ==
    ASSUME IInv, [Next]_vars, NEW l \in Listings
    PROVE  /\ Completed(l) => Completed(l)'
           /\ Completed(l)' \/ ckpt'[l].page >= ckpt[l].page
<1> USE DEF IInv
<1>1. CASE ckpt' = ckpt
    BY <1>1 DEF Completed, TypeOK
<1>2. ASSUME NEW k \in Listings, ~ Completed(k),
             \A j \in Listings \ {k} : ckpt'[j] = ckpt[j],
             \A j \in Listings : ckpt'[j].page >= ckpt[j].page \/ Completed(j)'
      PROVE  /\ Completed(l) => Completed(l)'
             /\ Completed(l)' \/ ckpt'[l].page >= ckpt[l].page
    BY <1>2 DEF Completed
<1>3. ASSUME stage = "runs_page", UNCHANGED listings,
             _persist_page(WorkflowRuns, {i \in held : InWindow(i)}, page, last)
      PROVE  /\ Completed(l) => Completed(l)'
             /\ Completed(l)' \/ ckpt'[l].page >= ckpt[l].page
  <2>1. /\ Reading(WorkflowRuns, page) /\ Reaches(WorkflowRuns, page, held, last)
        /\ IsFiniteSet(held)
    BY <1>3 DEF MemoryIsSound, InRuns
  <2>2. \A i \in held : Selected(WorkflowRuns, i) => i \in {j \in held : InWindow(j)}
    BY DEF Selected
  <2> QED
    BY <1>2, <1>3, <2>1, <2>2, PersistKeeps, ListingFacts DEF DurableInv, TypeOK, Reading
<1>4. ASSUME stage = "statuses_page", NEW d \in Current, UNCHANGED listings,
             _persist_page(Statuses(d), sheld, spage, slast)
      PROVE  /\ Completed(l) => Completed(l)'
             /\ Completed(l)' \/ ckpt'[l].page >= ckpt[l].page
  <2>1. Reading(Statuses(d), spage) /\ Statuses(d) \in Listings
    BY <1>4, CurrentFacts DEF MemoryIsSound, InStatuses, InNodes
  <2> QED
    BY <1>2, <1>4, <2>1, StatusesPersisted DEF Reading
<1>5. ASSUME stage = "nodes", todo = {}, UNCHANGED listings,
             _persist_page(DeploymentList, {i \in held : InWindow(i)}, page, last)
      PROVE  /\ Completed(l) => Completed(l)'
             /\ Completed(l)' \/ ckpt'[l].page >= ckpt[l].page
  <2>1. Reading(DeploymentList, page)
    BY <1>5 DEF MemoryIsSound, InNodes
  <2> QED
    BY <1>2, <1>5, <2>1, DeploymentsPersisted, ListingFacts DEF Reading
<1> QED
    BY <1>1, <1>3, <1>4, <1>5
    DEF Next, Run, vars, StartRuns, FetchRuns, OverCap, PersistRuns, SkipRuns,
        FetchDeployments, SkipStatuses, StartStatuses, FetchStatuses, PersistStatuses,
        PersistDeployments, Fail, PersistFails, Arrive, Expire

-----------------------------------------------------------------------------

\* The inductive invariant, for every size of listing and page.
THEOREM Invariance == Spec => []IInv
<1> QED
    BY Initial, StepKeeps, PTL DEF Spec

\* The tables of a backfill run keep their types.
THEOREM TypeCorrect == Spec => []TypeOK
<1>1. IInv => TypeOK
    BY DEF IInv
<1> QED
    BY <1>1, Invariance, PTL

\* However the listings shift between two requests or two runs, a stored page
\* number has nothing unread before it (rest_backfill.py:80-125, 318-329).
THEOREM NothingSkipped == Spec => []NothingBeforeNextPage
<1>1. IInv => NothingBeforeNextPage
    BY DEF IInv
<1> QED
    BY <1>1, Invariance, PTL

\* A completed listing lacks no item of the window that it could have had
\* (rest_backfill.py:118, 160, 193).
THEOREM CompletedWhole == Spec => []CompletedListingIsWhole
<1>1. IInv => CompletedListingIsWhole
    BY DEF IInv
<1> QED
    BY <1>1, Invariance, PTL

\* No deployment is stored before its statuses (rest_backfill.py:150-158).
THEOREM StatusesFirst == Spec => []StatusesBeforeDeployment
<1>1. IInv => StatusesBeforeDeployment
    BY DEF IInv
<1> QED
    BY <1>1, Invariance, PTL

\* No step of a run takes back a completion or a page number (storage.py:115-150).
THEOREM ProgressKept == Spec => ProgressIsKept
<1>1. IInv /\ [Next]_vars =>
        [\A l \in Listings :
            /\ Completed(l) => Completed(l)'
            /\ Completed(l)' \/ ckpt'[l].page >= ckpt[l].page]_vars
    BY ProgressStep
<1> QED
    BY <1>1, Invariance, PTL DEF Spec, ProgressIsKept
=============================================================================
