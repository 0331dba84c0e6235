-------------------------- MODULE GraphQLBackfill --------------------------
(***************************************************************************)
(* backfill/github.py over backfill/storage.py: runners that traverse the  *)
(* pull requests of one repository and window, and for each of them its    *)
(* reviews and its commits, and that commit every page together with the   *)
(* checkpoint of its traversal.                                            *)
(*                                                                         *)
(* A GraphQL connection is the sequence of its items in the API's order,   *)
(* so an item is its position and a cursor is the position it stands       *)
(* behind (0: no cursor).  GitHub appends to it while runners read.  Pull  *)
(* requests come by creation time: those of the window are consecutive.    *)
(* The raw row of an item is <<connection, position>>, whatever version of *)
(* the item the row is a snapshot of.                                      *)
(***************************************************************************)
EXTENDS Naturals, FiniteSets

CONSTANTS
    Runners,        \* github-backfill processes of one window: the Airflow
                    \* task and commands of an operator
    MaxPulls,       \* bound: pull requests of the repository
    MaxItems,       \* bound: reviews or commits of a pull request
    InitialItems,   \* what GitHub holds when the first runner starts
    PageSize,
    WindowFrom,     \* the first pull request created in the window
    WindowTo,       \* the last one
    MaxFailures     \* bound: runs that fail or are killed

Pulls == 1 .. MaxPulls
Kinds == {"reviews", "commits"}
Root == <<0, "pull_requests">>
Connections == {Root} \cup (Pulls \X Kinds)
Limit(c) == IF c = Root THEN MaxPulls ELSE MaxItems

ASSUME BackfillAssumption ==
    /\ MaxPulls \in Nat /\ MaxItems \in Nat /\ MaxFailures \in Nat
    /\ InitialItems \in [Connections -> Nat]
    /\ \A c \in Connections : InitialItems[c] <= Limit(c)
    /\ PageSize \in Nat \ {0}
    /\ WindowFrom \in Nat \ {0} /\ WindowTo \in Nat

VARIABLES
    items,     \* items[c]: how many items GitHub serves for connection c
    rows,      \* rows of raw.github_events whose source is 'backfill'
    ckpt,      \* ckpt[c]: the row of raw.backfill_checkpoints of c
    stage,     \* stage[r]: where runner r is
    cursor,    \* cursor[r]: cursor of its traversal of the pull requests
    end,       \* end[r]: end cursor of the page of pull requests it holds
    final,     \* final[r]: that page completes the traversal
    node,      \* node[r]: the pull request of the page it works on
    part,      \* part[r]: which nested connection of it comes next
    ncursor,   \* ncursor[r], nend[r], nfinal[r]: the same three of the
    nend,      \* nested traversal
    nfinal,
    failures   \* runs that failed so far

memory == <<cursor, end, final, node, part, ncursor, nend, nfinal>>
nested == <<ncursor, nend, nfinal>>
vars == <<items, rows, ckpt, stage, memory, failures>>

Status == {"none", "in_progress", "completed"}
Stage == {"idle", "fetch", "nodes", "nested", "nested_page"}

TypeOK ==
    /\ items \in [Connections -> Nat]
    /\ \A c \in Connections : InitialItems[c] <= items[c] /\ items[c] <= Limit(c)
    /\ rows \subseteq Connections \X Nat
    /\ ckpt \in [Connections -> [status : Status, cursor : Nat, inserted : Nat]]
    /\ stage \in [Runners -> Stage]
    /\ cursor \in [Runners -> Nat] /\ end \in [Runners -> Nat]
    /\ final \in [Runners -> BOOLEAN]
    /\ node \in [Runners -> Nat] /\ part \in [Runners -> Kinds]
    /\ ncursor \in [Runners -> Nat] /\ nend \in [Runners -> Nat]
    /\ nfinal \in [Runners -> BOOLEAN]
    /\ failures \in 0 .. MaxFailures

Init ==
    /\ items = InitialItems
    /\ rows = {}
    /\ ckpt = [c \in Connections |-> [status |-> "none", cursor |-> 0, inserted |-> 0]]
    /\ stage = [r \in Runners |-> "idle"]
    /\ cursor = [r \in Runners |-> 0] /\ end = [r \in Runners |-> 0]
    /\ final = [r \in Runners |-> FALSE]
    /\ node = [r \in Runners |-> 0] /\ part = [r \in Runners |-> "reviews"]
    /\ ncursor = [r \in Runners |-> 0] /\ nend = [r \in Runners |-> 0]
    /\ nfinal = [r \in Runners |-> FALSE]
    /\ failures = 0

-----------------------------------------------------------------------------
(* storage.py and the paging arithmetic.                                   *)

InWindow(i) == WindowFrom <= i /\ i <= WindowTo

\* Nested items are taken whatever their time.
Selected(c, i) == c = Root => InWindow(i)

Page(c, from, to) == {<<c, i>> : i \in {j \in from + 1 .. to : Selected(c, j)}}

\* Mutant: counts the records it sent, not the ones inserted.
persist_page_sent(c, from, to, completed) ==
    /\ rows' = rows \cup Page(c, from, to)
    /\ ckpt' = [ckpt EXCEPT ![c] =
        [status |-> IF completed THEN "completed" ELSE "in_progress",
         cursor |-> IF completed THEN 0 ELSE to,
         inserted |-> @.inserted + Cardinality(Page(c, from, to))]]

\* One transaction: the page's new rows and the checkpoint, which is set
\* whatever it was.
persist_page(c, from, to, completed) ==
    /\ rows' = rows \cup Page(c, from, to)
    /\ ckpt' = [ckpt EXCEPT ![c] =
        [status |-> IF completed THEN "completed" ELSE "in_progress",
         cursor |-> IF completed THEN 0 ELSE to,
         inserted |-> @.inserted + Cardinality(Page(c, from, to) \ rows)]]

PageEnd(c, from) ==
    IF from + PageSize < items[c] THEN from + PageSize ELSE items[c]
\* Mutant: off by one, the last page of one item is not read.
HasNextShort(c, from) == from + PageSize + 1 < items[c]

HasNext(c, from) == from + PageSize < items[c]

\* The first pull request behind a cursor that is not before the window.
NodeAfter(i) == IF i < WindowFrom THEN WindowFrom ELSE i + 1

\* Mutant: off by one, the last pull request of a page has no history.
NodeLeftShort(r) == node[r] < end[r] /\ node[r] <= WindowTo

\* A pull request of the page is left that created_at does not put at or
\* behind the window's end.
NodeLeft(r) == node[r] <= end[r] /\ node[r] <= WindowTo

-----------------------------------------------------------------------------
(* A runner.                                                               *)

\* run loads the checkpoint; a completed one ends the run at once.
Start(r) ==
    /\ stage[r] = "idle"
    /\ ckpt[Root].status # "completed"
    /\ stage' = [stage EXCEPT ![r] = "fetch"]
    /\ cursor' = [cursor EXCEPT ![r] = ckpt[Root].cursor]
    /\ UNCHANGED <<items, rows, ckpt, end, final, node, part, nested, failures>>

\* Mutant: only a pull request behind the window completes the traversal.
FetchPagePastWindow(r) ==
    /\ stage[r] = "fetch"
    /\ stage' = [stage EXCEPT ![r] = "nodes"]
    /\ end' = [end EXCEPT ![r] = PageEnd(Root, cursor[r])]
    /\ final' = [final EXCEPT ![r] = PageEnd(Root, cursor[r]) > WindowTo]
    /\ node' = [node EXCEPT ![r] = NodeAfter(cursor[r])]
    /\ part' = [part EXCEPT ![r] = "reviews"]
    /\ UNCHANGED <<items, rows, ckpt, cursor, nested, failures>>

FetchPage(r) ==
    /\ stage[r] = "fetch"
    /\ stage' = [stage EXCEPT ![r] = "nodes"]
    /\ end' = [end EXCEPT ![r] = PageEnd(Root, cursor[r])]
    /\ final' = [final EXCEPT ![r] = \/ PageEnd(Root, cursor[r]) > WindowTo
                                     \/ ~ HasNext(Root, cursor[r])]
    /\ node' = [node EXCEPT ![r] = NodeAfter(cursor[r])]
    /\ part' = [part EXCEPT ![r] = "reviews"]
    /\ UNCHANGED <<items, rows, ckpt, cursor, nested, failures>>

\* Reviews, then commits, then the next pull request of the page.
NestedDone(r) ==
    /\ stage' = [stage EXCEPT ![r] = "nodes"]
    /\ IF part[r] = "reviews"
       THEN /\ part' = [part EXCEPT ![r] = "commits"]
            /\ UNCHANGED node
       ELSE /\ part' = [part EXCEPT ![r] = "reviews"]
            /\ node' = [node EXCEPT ![r] = @ + 1]
    /\ ncursor' = [ncursor EXCEPT ![r] = 0]
    /\ nend' = [nend EXCEPT ![r] = 0]
    /\ nfinal' = [nfinal EXCEPT ![r] = FALSE]

Current(r) == <<node[r], part[r]>>

SkipNested(r) ==
    /\ stage[r] = "nodes" /\ NodeLeft(r)
    /\ ckpt[Current(r)].status = "completed"
    /\ NestedDone(r)
    /\ UNCHANGED <<items, rows, ckpt, cursor, end, final, failures>>

StartNested(r) ==
    /\ stage[r] = "nodes" /\ NodeLeft(r)
    /\ ckpt[Current(r)].status # "completed"
    /\ stage' = [stage EXCEPT ![r] = "nested"]
    /\ ncursor' = [ncursor EXCEPT ![r] = ckpt[Current(r)].cursor]
    /\ UNCHANGED <<items, rows, ckpt, cursor, end, final, node, part, nend,
                   nfinal, failures>>

FetchNested(r) ==
    /\ stage[r] = "nested"
    /\ stage' = [stage EXCEPT ![r] = "nested_page"]
    /\ nend' = [nend EXCEPT ![r] = PageEnd(Current(r), ncursor[r])]
    /\ nfinal' = [nfinal EXCEPT ![r] = ~ HasNext(Current(r), ncursor[r])]
    /\ UNCHANGED <<items, rows, ckpt, cursor, end, final, node, part, ncursor,
                   failures>>

PersistNested(r) ==
    /\ stage[r] = "nested_page"
    /\ persist_page(Current(r), ncursor[r], nend[r], nfinal[r])
    /\ IF nfinal[r]
       THEN NestedDone(r)
       ELSE /\ stage' = [stage EXCEPT ![r] = "nested"]
            /\ ncursor' = [ncursor EXCEPT ![r] = nend[r]]
            /\ UNCHANGED <<node, part, nend, nfinal>>
    /\ UNCHANGED <<items, cursor, end, final, failures>>

\* The process's memory goes with it.
Forget(r) ==
    /\ stage' = [stage EXCEPT ![r] = "idle"]
    /\ cursor' = [cursor EXCEPT ![r] = 0] /\ end' = [end EXCEPT ![r] = 0]
    /\ final' = [final EXCEPT ![r] = FALSE]
    /\ node' = [node EXCEPT ![r] = 0] /\ part' = [part EXCEPT ![r] = "reviews"]
    /\ ncursor' = [ncursor EXCEPT ![r] = 0] /\ nend' = [nend EXCEPT ![r] = 0]
    /\ nfinal' = [nfinal EXCEPT ![r] = FALSE]

PersistPage(r) ==
    /\ stage[r] = "nodes" /\ ~ NodeLeft(r)
    /\ persist_page(Root, cursor[r], end[r], final[r])
    /\ IF final[r]
       THEN Forget(r)
       ELSE /\ stage' = [stage EXCEPT ![r] = "fetch"]
            /\ cursor' = [cursor EXCEPT ![r] = end[r]]
            /\ UNCHANGED <<end, final, node, part, nested>>
    /\ UNCHANGED <<items, failures>>

\* An API error, an unusable response, a refused insert or a kill.
Fail(r) ==
    /\ stage[r] # "idle"
    /\ failures < MaxFailures
    /\ failures' = failures + 1
    /\ Forget(r)
    /\ UNCHANGED <<items, rows, ckpt>>

\* Mutant: the checkpoint commits in a transaction before the records'.
CheckpointWithoutRows(r) ==
    /\ failures < MaxFailures
    /\ failures' = failures + 1
    /\ stage[r] = "nested_page"
    /\ ckpt' = [ckpt EXCEPT ![Current(r)].status = "in_progress",
                            ![Current(r)].cursor = nend[r]]
    /\ Forget(r)
    /\ UNCHANGED <<items, rows>>

\* The page is committed and the run ends before it learns of it.
PersistFails(r) ==
    /\ failures < MaxFailures
    /\ failures' = failures + 1
    /\ \/ stage[r] = "nodes" /\ ~ NodeLeft(r)
          /\ persist_page(Root, cursor[r], end[r], final[r])
       \/ stage[r] = "nested_page"
          /\ persist_page(Current(r), ncursor[r], nend[r], nfinal[r])
    /\ Forget(r)
    /\ UNCHANGED items

-----------------------------------------------------------------------------

\* A pull request is opened, a review submitted, a commit pushed.
Grow(c) ==
    /\ items[c] < Limit(c)
    /\ items' = [items EXCEPT ![c] = @ + 1]
    /\ UNCHANGED <<rows, ckpt, stage, memory, failures>>

Run(r) ==
    \/ Start(r) \/ FetchPage(r) \/ SkipNested(r) \/ StartNested(r)
    \/ FetchNested(r) \/ PersistNested(r) \/ PersistPage(r)

Next ==
    \/ \E c \in Connections : Grow(c)
    \/ \E r \in Runners : Run(r) \/ Fail(r) \/ PersistFails(r)

Spec == Init /\ [][Next]_vars

\* A run that is under way goes on, and a failed one is tried again (by the
\* task's retries, then by the operator).
FairSpec == Spec /\ \A r \in Runners : WF_vars(Run(r))

-----------------------------------------------------------------------------
(* Properties.                                                             *)

Covered(c, n) == \A i \in 1 .. n : Selected(c, i) => <<c, i>> \in rows

\* Every page below a stored cursor is in the raw table, whichever runner
\* stored the cursor: a resumed run starts behind nothing it has not got
\* (storage.py:107-165, github.py:200-203).
PagesBeforeCursorStored ==
    \A c \in Connections : Covered(c, ckpt[c].cursor)

\* A completed traversal has every record of the window that existed when the
\* first run began, over any failures and retries (github.py:239, 303).
CompletedTraversalIsWhole ==
    \A c \in Connections :
        ckpt[c].status = "completed" => Covered(c, InitialItems[c])

\* A pull request is in the raw table only with its whole history: its reviews
\* and its commits are durable before it is (github.py:228-247).
HistoryBeforePullRequest ==
    \A i \in Pulls : <<Root, i>> \in rows =>
        \A k \in Kinds : Covered(<<i, k>>, InitialItems[<<i, k>>])

RowsOf(c) == {x \in rows : x[1] = c}

\* records_inserted counts the rows of its traversal, each once, though
\* runners repeat pages (storage.py:86, 132-147).
InsertedCountsRows ==
    \A c \in Connections : ckpt[c].inserted = Cardinality(RowsOf(c))

\* Once failures have stopped and GitHub's data has stopped growing, the window
\* is completed and stays so, though one runner may overwrite a checkpoint that
\* the other has completed (storage.py:81-88).
WindowIsCompleted == <>[](ckpt[Root].status = "completed")

-----------------------------------------------------------------------------
(* The inductive invariant behind the first three.                         *)

History(i) == \A k \in Kinds : Covered(<<i, k>>, InitialItems[<<i, k>>])
InNested(r) == stage[r] \in {"nested", "nested_page"}
InPage(r) == stage[r] = "nodes" \/ InNested(r)

\* What a runner holds in memory is backed by rows.
RunnerVouches(r) ==
    /\ stage[r] # "idle" => Covered(Root, cursor[r])
    /\ InPage(r) =>
        /\ \A i \in cursor[r] + 1 .. end[r] :
            InWindow(i) /\ i < node[r] => History(i)
        /\ part[r] = "commits" =>
            Covered(<<node[r], "reviews">>, InitialItems[<<node[r], "reviews">>])
        /\ final[r] => end[r] >= InitialItems[Root] \/ end[r] > WindowTo
        /\ end[r] <= MaxPulls
        /\ node[r] >= WindowFrom
    /\ InNested(r) => NodeLeft(r) /\ Covered(Current(r), ncursor[r])
    /\ stage[r] = "nested_page" /\ nfinal[r] =>
        nend[r] >= InitialItems[Current(r)]

IInv ==
    /\ TypeOK
    /\ PagesBeforeCursorStored
    /\ CompletedTraversalIsWhole
    /\ HistoryBeforePullRequest
    /\ \A r \in Runners : RunnerVouches(r)

\* Each traversal has stored finitely many rows, so far, and counted them.
CountInv ==
    /\ \A c \in Connections : IsFiniteSet(RowsOf(c))
    /\ InsertedCountsRows
=============================================================================
