---------------------------- MODULE RestBackfill ----------------------------
(***************************************************************************)
(* backfill/rest_backfill.py over backfill/storage.py: the part of a       *)
(* backfill run that reads workflow runs, deployments and the statuses of  *)
(* each deployment page by page, and commits every page together with the  *)
(* number of the next one.                                                 *)
(*                                                                         *)
(* The listings are external.  GitHub serves them newest first and numbers *)
(* pages from the newest item, so pages shift while they are read: items   *)
(* are numbered by age here, a new one becomes newest and retention drops  *)
(* the oldest.  One run is under way at a time (max_active_runs = 1).      *)
(* An item stands for all its versions: a row whose key carries an attempt *)
(* or updated_at counts once.  The window may reach past now, so that runs *)
(* arrive in the filtered listing while it is read.                        *)
(***************************************************************************)
EXTENDS Naturals, FiniteSets

CONSTANTS
    MaxDeployments,  \* bound: deployments of the repository
    MaxItems,        \* bound: workflow runs, or statuses of a deployment
    InitialNewest,   \* how many items each listing has when the run starts
    PageSize,
    WindowFrom,      \* the oldest item created in the window
    WindowTo,        \* the newest one
    Cap,             \* _MAX_FILTERED_WORKFLOW_RUNS
    Unserved,        \* workflow runs the API counts but serves on no page
    MaxExpired,      \* bound: items retention drops from a listing
    MaxFailures      \* bound: runs that fail or are killed

Deployments == 1 .. MaxDeployments
WorkflowRuns == <<"workflow_runs", 0>>
DeploymentList == <<"deployments", 0>>
Statuses(d) == <<"deployment_statuses", d>>
Listings ==
    {WorkflowRuns, DeploymentList} \cup {Statuses(d) : d \in Deployments}
Limit(l) == IF l = DeploymentList THEN MaxDeployments ELSE MaxItems

ASSUME RestAssumption ==
    /\ MaxDeployments \in Nat /\ MaxItems \in Nat
    /\ InitialNewest \in [Listings -> Nat]
    /\ \A l \in Listings : InitialNewest[l] <= Limit(l)
    /\ PageSize \in Nat \ {0}
    /\ WindowFrom \in Nat \ {0} /\ WindowTo \in Nat
    /\ Cap \in Nat /\ Unserved \in Nat
    /\ MaxExpired \in Nat /\ MaxFailures \in Nat

VARIABLES
    newest,    \* newest[l]: number of the newest item of listing l
    oldest,    \* oldest[l]: number of the oldest one still served
    rows,      \* rows of raw.github_events whose source is 'backfill'
    ckpt,      \* ckpt[l]: the row of raw.backfill_checkpoints of l
    stage,     \* where the run is
    page,      \* number of the page of workflow runs or deployments
    held,      \* the items of that page
    last,      \* the page completes its listing
    todo,      \* its deployments whose statuses have not been read
    spage,     \* the same of the status listing of the newest of them
    sheld,
    slast,
    failures

listings == <<newest, oldest>>
statusMemory == <<spage, sheld, slast>>
memory == <<page, held, last, todo, statusMemory>>
vars == <<listings, rows, ckpt, stage, memory, failures>>

Stage == {"idle", "runs", "runs_page", "deployments", "nodes",
          "statuses", "statuses_page"}

TypeOK ==
    /\ newest \in [Listings -> Nat] /\ oldest \in [Listings -> Nat \ {0}]
    /\ rows \subseteq Listings \X Nat
    /\ ckpt \in [Listings -> [status : {"none", "in_progress", "completed"},
                              page : Nat, inserted : Nat]]
    /\ stage \in Stage
    /\ page \in Nat /\ held \in SUBSET Nat /\ last \in BOOLEAN
    /\ todo \subseteq held
    /\ spage \in Nat /\ sheld \in SUBSET Nat /\ slast \in BOOLEAN
    /\ failures \in 0 .. MaxFailures

Init ==
    /\ newest = InitialNewest
    /\ oldest = [l \in Listings |-> 1]
    /\ rows = {}
    /\ ckpt = [l \in Listings |-> [status |-> "none", page |-> 1, inserted |-> 0]]
    /\ stage = "idle"
    /\ page = 0 /\ held = {} /\ last = FALSE /\ todo = {}
    /\ spage = 0 /\ sheld = {} /\ slast = FALSE
    /\ failures = 0

-----------------------------------------------------------------------------

InWindow(i) == WindowFrom <= i /\ i <= WindowTo
Completed(l) == ckpt[l].status = "completed"

\* How many items of listing l are newer than item i, i included.
Position(l, i) == newest[l] + 1 - i
Served(l, p) ==
    {i \in oldest[l] .. newest[l] :
        (p - 1) * PageSize < Position(l, i) /\ Position(l, i) <= p * PageSize}

total_count == Cardinality(oldest[WorkflowRuns] .. newest[WorkflowRuns]) + Unserved

\* One transaction, over storage.persist_page.
_persist_page(l, ids, p, completed) ==
    LET new == {<<l, i>> : i \in ids} IN
    /\ rows' = rows \cup new
    /\ ckpt' = [ckpt EXCEPT ![l] =
        [status |-> IF completed THEN "completed" ELSE "in_progress",
         page |-> IF completed THEN 1 ELSE p + 1,
         inserted |-> @.inserted + Cardinality(new \ rows)]]

\* The process's memory goes with it.
Forget ==
    /\ stage' = "idle"
    /\ page' = 0 /\ held' = {} /\ last' = FALSE /\ todo' = {}
    /\ spage' = 0 /\ sheld' = {} /\ slast' = FALSE

-----------------------------------------------------------------------------
(* _run_workflow_runs.                                                     *)

\* Mutant: off by one, the checkpoint taken for the last page read.
StartRunsBehind ==
    /\ stage = "idle" /\ ~ Completed(WorkflowRuns)
    /\ stage' = "runs"
    /\ page' = ckpt[WorkflowRuns].page + 1
    /\ UNCHANGED <<listings, rows, ckpt, held, last, todo, statusMemory, failures>>

StartRuns ==
    /\ stage = "idle" /\ ~ Completed(WorkflowRuns)
    /\ stage' = "runs"
    /\ page' = ckpt[WorkflowRuns].page
    /\ UNCHANGED <<listings, rows, ckpt, held, last, todo, statusMemory, failures>>

FetchRuns ==
    /\ stage = "runs" /\ total_count <= Cap
    /\ stage' = "runs_page"
    /\ held' = Served(WorkflowRuns, page)
    /\ last' = (page * PageSize >= total_count)
    /\ UNCHANGED <<listings, rows, ckpt, page, todo, statusMemory, failures>>

\* "use a smaller time window": raised before anything is stored.
OverCap ==
    /\ stage = "runs" /\ total_count > Cap
    /\ Forget
    /\ UNCHANGED <<listings, rows, ckpt, failures>>

\* _run_deployments loads its checkpoint.
EnterDeployments ==
    /\ stage' = IF Completed(DeploymentList) THEN "idle" ELSE "deployments"
    /\ page' = IF Completed(DeploymentList) THEN 0 ELSE ckpt[DeploymentList].page
    /\ held' = {} /\ last' = FALSE /\ todo' = {}

\* An empty page that is not the last raises, after it was persisted.
PersistRuns ==
    /\ stage = "runs_page"
    /\ _persist_page(WorkflowRuns, {i \in held : InWindow(i)}, page, last)
    /\ \/ last /\ EnterDeployments /\ UNCHANGED statusMemory
       \/ ~ last /\ held = {} /\ Forget
       \/ /\ ~ last /\ held # {}
          /\ stage' = "runs" /\ page' = page + 1
          /\ held' = {} /\ last' = FALSE
          /\ UNCHANGED <<todo, statusMemory>>
    /\ UNCHANGED <<listings, failures>>

SkipRuns ==
    /\ stage = "idle" /\ Completed(WorkflowRuns) /\ ~ Completed(DeploymentList)
    /\ EnterDeployments
    /\ UNCHANGED <<listings, rows, ckpt, statusMemory, failures>>

-----------------------------------------------------------------------------
(* _run_deployments and _run_deployment_statuses.                          *)

\* Mutant: off by one, a full page ends the listing.
FetchDeploymentsShort ==
    /\ stage = "deployments"
    /\ stage' = "nodes"
    /\ held' = Served(DeploymentList, page)
    /\ todo' = {i \in held' : InWindow(i)}
    /\ last' = (Cardinality(held') <= PageSize)
    /\ UNCHANGED <<listings, rows, ckpt, page, statusMemory, failures>>

FetchDeployments ==
    /\ stage = "deployments"
    /\ stage' = "nodes"
    /\ held' = Served(DeploymentList, page)
    /\ todo' = {i \in held' : InWindow(i)}
    /\ last' = (Cardinality(held') < PageSize)
    /\ UNCHANGED <<listings, rows, ckpt, page, statusMemory, failures>>

\* The page's deployments are taken in the order of the listing.
Current == {d \in todo : \A e \in todo : e <= d}

SkipStatuses ==
    /\ stage = "nodes"
    /\ \E d \in Current : Completed(Statuses(d)) /\ todo' = todo \ {d}
    /\ UNCHANGED <<listings, rows, ckpt, stage, page, held, last, statusMemory,
                   failures>>

\* Mutant: a completed checkpoint does not spare the statuses.
StartStatusesAgain ==
    /\ stage = "nodes"
    /\ stage' = "statuses"
    /\ \E d \in Current : spage' = ckpt[Statuses(d)].page
    /\ UNCHANGED <<listings, rows, ckpt, page, held, last, todo, sheld, slast,
                   failures>>

StartStatuses ==
    /\ stage = "nodes"
    /\ stage' = "statuses"
    /\ \E d \in Current : ~ Completed(Statuses(d)) /\ spage' = ckpt[Statuses(d)].page
    /\ UNCHANGED <<listings, rows, ckpt, page, held, last, todo, sheld, slast,
                   failures>>

FetchStatuses ==
    /\ stage = "statuses"
    /\ stage' = "statuses_page"
    /\ \E d \in Current : sheld' = Served(Statuses(d), spage)
    /\ slast' = (Cardinality(sheld') < PageSize)
    /\ UNCHANGED <<listings, rows, ckpt, page, held, last, todo, spage, failures>>

PersistStatuses ==
    /\ stage = "statuses_page"
    /\ \E d \in Current :
        /\ _persist_page(Statuses(d), sheld, spage, slast)
        /\ IF slast
           THEN stage' = "nodes" /\ spage' = 0 /\ todo' = todo \ {d}
           ELSE stage' = "statuses" /\ spage' = spage + 1 /\ UNCHANGED todo
    /\ sheld' = {} /\ slast' = FALSE
    /\ UNCHANGED <<listings, page, held, last, failures>>

\* Mutant: the page of deployments is stored before their statuses.
PersistDeploymentsFirst ==
    /\ stage = "nodes"
    /\ _persist_page(DeploymentList, {i \in held : InWindow(i)}, page, last)
    /\ IF last THEN Forget
       ELSE /\ stage' = "deployments" /\ page' = page + 1
            /\ held' = {} /\ last' = FALSE /\ todo' = {}
            /\ UNCHANGED statusMemory
    /\ UNCHANGED <<listings, failures>>

\* Mutant: the page number is not incremented.
PersistDeploymentsAgain ==
    /\ stage = "nodes" /\ todo = {}
    /\ _persist_page(DeploymentList, {i \in held : InWindow(i)}, page, last)
    /\ IF last THEN Forget
       ELSE /\ stage' = "deployments"
            /\ held' = {} /\ last' = FALSE
            /\ UNCHANGED <<page, todo, statusMemory>>
    /\ UNCHANGED <<listings, failures>>

PersistDeployments ==
    /\ stage = "nodes" /\ todo = {}
    /\ _persist_page(DeploymentList, {i \in held : InWindow(i)}, page, last)
    /\ IF last THEN Forget
       ELSE /\ stage' = "deployments" /\ page' = page + 1
            /\ held' = {} /\ last' = FALSE
            /\ UNCHANGED <<todo, statusMemory>>
    /\ UNCHANGED <<listings, failures>>

-----------------------------------------------------------------------------

\* An API error, an unusable response, a refused insert or a kill.
Fail ==
    /\ stage # "idle"
    /\ failures < MaxFailures
    /\ failures' = failures + 1
    /\ Forget
    /\ UNCHANGED <<listings, rows, ckpt>>

\* The page is committed and the run ends before it learns of it.
PersistFails ==
    /\ failures < MaxFailures
    /\ failures' = failures + 1
    /\ \/ /\ stage = "runs_page"
          /\ _persist_page(WorkflowRuns, {i \in held : InWindow(i)}, page, last)
       \/ /\ stage = "statuses_page"
          /\ \E d \in Current : _persist_page(Statuses(d), sheld, spage, slast)
       \/ /\ stage = "nodes" /\ todo = {}
          /\ _persist_page(DeploymentList, {i \in held : InWindow(i)}, page, last)
    /\ Forget
    /\ UNCHANGED listings

Arrive(l) ==
    /\ newest[l] < Limit(l)
    /\ newest' = [newest EXCEPT ![l] = @ + 1]
    /\ UNCHANGED <<oldest, rows, ckpt, stage, memory, failures>>

Expire(l) ==
    /\ oldest[l] <= MaxExpired /\ oldest[l] <= newest[l]
    /\ oldest' = [oldest EXCEPT ![l] = @ + 1]
    /\ UNCHANGED <<newest, rows, ckpt, stage, memory, failures>>

Run ==
    \/ StartRuns \/ FetchRuns \/ OverCap \/ PersistRuns \/ SkipRuns
    \/ FetchDeployments \/ SkipStatuses \/ StartStatuses \/ FetchStatuses
    \/ PersistStatuses \/ PersistDeployments

Next ==
    \/ Run \/ Fail \/ PersistFails
    \/ \E l \in Listings : Arrive(l) \/ Expire(l)

Spec == Init /\ [][Next]_vars

\* A run that is under way goes on, and a failed one is tried again (by the
\* task's retries, then by the operator).
FairSpec == Spec /\ WF_vars(Run)

-----------------------------------------------------------------------------
(* Properties.                                                             *)

Selected(l, i) == l \in {WorkflowRuns, DeploymentList} => InWindow(i)

\* An item of l is in the raw table, unless retention has dropped it or the
\* window leaves it out.
Stored(l, i) == i >= oldest[l] /\ Selected(l, i) => <<l, i>> \in rows

\* Every item that existed when the run began is.
Whole(l) == \A i \in 1 .. InitialNewest[l] : Stored(l, i)

\* A page number stored as the next one leaves nothing behind it: pages shift
\* under new items and shrink under retention, across failures and resumption,
\* and no item is stepped over (rest_backfill.py:80-125, 318-329).
NothingBeforeNextPage ==
    \A l \in Listings : \A i \in 1 .. InitialNewest[l] :
        Position(l, i) <= (ckpt[l].page - 1) * PageSize => Stored(l, i)

\* A completed listing has every item of the window that existed when the run
\* began, unless GitHub dropped it, though the API may count runs that it serves
\* on no page (rest_backfill.py:118, 160, 193).
CompletedListingIsWhole == \A l \in Listings : Completed(l) => Whole(l)

\* A deployment is in the raw table only with its statuses
\* (rest_backfill.py:150-158).
StatusesBeforeDeployment ==
    \A d \in Deployments : <<DeploymentList, d>> \in rows => Whole(Statuses(d))

\* Progress is never taken back while one run is under way at a time.
ProgressIsKept ==
    [][\A l \in Listings :
        /\ Completed(l) => Completed(l)'
        /\ Completed(l)' \/ ckpt'[l].page >= ckpt[l].page]_vars

\* Once failures have stopped, the window is completed, though listings change
\* while they are read, unless it has more workflow runs than the API serves
\* (rest_backfill.py:106-111).
WindowIsCompleted ==
    []<>(total_count <= Cap) =>
        <>[](Completed(WorkflowRuns) /\ Completed(DeploymentList))

\* tests/unit/test_rest_backfill.py:283 names what it checks "workflow
\* pagination cannot end before reported total".  Stated of the checkpoint: a
\* completed listing has served as many runs as the API counts.
CompletedServesTotal ==
    Completed(WorkflowRuns) =>
        Cardinality({x \in rows : x[1] = WorkflowRuns}) >= total_count

-----------------------------------------------------------------------------
(* The inductive invariant behind the four of them.                        *)

ListingsInBounds ==
    \A l \in Listings :
        /\ InitialNewest[l] <= newest[l] /\ newest[l] <= Limit(l)
        /\ ckpt[l].page >= 1

\* Page p in memory, with what the table already has, reaches from the newest
\* item to where the next page begins now, or to the end of the listing.
Reaches(l, p, items, ends) ==
    \A i \in 1 .. InitialNewest[l] :
        ends \/ Position(l, i) <= p * PageSize => Stored(l, i) \/ i \in items

\* The run is reading l, at the page its checkpoint says.
Reading(l, p) == ~ Completed(l) /\ p = ckpt[l].page

InRuns == stage \in {"runs", "runs_page"}
InStatuses == stage \in {"statuses", "statuses_page"}
InNodes == stage = "nodes" \/ InStatuses

MemoryIsSound ==
    /\ IsFiniteSet(held) /\ IsFiniteSet(sheld)
    /\ ~ InNodes => todo = {}
    /\ InRuns => Reading(WorkflowRuns, page)
    /\ stage = "runs_page" => Reaches(WorkflowRuns, page, held, last)
    /\ stage = "deployments" \/ InNodes => Reading(DeploymentList, page)
    /\ InNodes =>
        /\ held \subseteq Deployments
        /\ Reaches(DeploymentList, page, held, last)
        /\ \A d \in held : InWindow(d) => d \in todo \/ Completed(Statuses(d))
    /\ InStatuses => \A d \in Current : Reading(Statuses(d), spage)
    /\ stage = "statuses_page" =>
        \A d \in Current : Reaches(Statuses(d), spage, sheld, slast)

IInv ==
    /\ TypeOK
    /\ ListingsInBounds
    /\ NothingBeforeNextPage
    /\ CompletedListingIsWhole
    /\ StatusesBeforeDeployment
    /\ MemoryIsSound
=============================================================================
