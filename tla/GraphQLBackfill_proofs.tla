----------------------- MODULE GraphQLBackfill_proofs -----------------------
(***************************************************************************)
(* What a backfilled window holds, for any number of runners, pages and    *)
(* failures.  The invariant that is inductive adds to the properties what  *)
(* each runner's memory vouches for.                                       *)
(***************************************************************************)
EXTENDS GraphQLBackfill, FiniteSetTheorems, TLAPS

USE DEF Kinds, Pulls, Root, Connections, Status, Stage

\* A page is a finite set of rows of its connection.
LEMMA PageFacts ==
    ASSUME NEW c \in Connections, NEW from \in Nat, NEW to \in Nat
    PROVE  /\ Page(c, from, to) \subseteq Connections \X Nat
           /\ IsFiniteSet(Page(c, from, to) \ rows)
           /\ Cardinality(Page(c, from, to) \ rows) \in Nat
           /\ \A d \in Connections, i \in Nat :
                <<d, i>> \in Page(c, from, to)
                <=> d = c /\ from < i /\ i <= to /\ Selected(c, i)
<1> DEFINE S == {j \in from + 1 .. to : Selected(c, j)}
<1>1. IsFiniteSet(from + 1 .. to)
  BY FS_Interval
<1>2. IsFiniteSet(S)
  BY <1>1, FS_Subset, S \subseteq from + 1 .. to
<1>3. Page(c, from, to) = {<<c, i>> : i \in S}
  BY DEF Page
<1>4. IsFiniteSet(Page(c, from, to))
  <2> DEFINE f == [i \in S |-> <<c, i>>]
  <2>1. f \in Surjection(S, Page(c, from, to))
    BY <1>3, SMT DEF Surjection
  <2> QED BY <2>1, <1>2, FS_Surjection
<1>5. IsFiniteSet(Page(c, from, to) \ rows)
  BY <1>4, FS_Subset, Page(c, from, to) \ rows \subseteq Page(c, from, to)
<1>6. Cardinality(Page(c, from, to) \ rows) \in Nat
  BY <1>5, FS_CardinalityType
<1>7. Page(c, from, to) \subseteq Connections \X Nat
  BY <1>3
<1>8. ASSUME NEW d \in Connections, NEW i \in Nat
      PROVE  <<d, i>> \in Page(c, from, to)
             <=> d = c /\ from < i /\ i <= to /\ Selected(c, i)
  BY <1>3
<1> QED BY <1>5, <1>6, <1>7, <1>8

\* Where a page ends.
LEMMA PageEndFacts ==
    ASSUME TypeOK, BackfillAssumption, NEW c \in Connections, NEW from \in Nat
    PROVE  /\ PageEnd(c, from) \in Nat /\ PageEnd(c, from) <= Limit(c)
           /\ Limit(c) \in Nat
           /\ ~ HasNext(c, from) => PageEnd(c, from) >= InitialItems[c]
BY DEF TypeOK, BackfillAssumption, PageEnd, HasNext, Limit

\* Rows only grow, so what is covered stays covered.
LEMMA CoveredStays ==
    ASSUME NEW c, NEW n \in Nat, rows \subseteq rows', Covered(c, n)
    PROVE  Covered(c, n)'
BY DEF Covered, Selected, InWindow

LEMMA HistoryStays ==
    ASSUME BackfillAssumption, NEW i \in Pulls, rows \subseteq rows', History(i)
    PROVE  History(i)'
BY DEF History, Covered, Selected, InWindow, BackfillAssumption

\* A page behind a covered cursor covers up to its end.
LEMMA PageCovers ==
    ASSUME NEW c \in Connections, NEW from \in Nat, NEW to \in Nat,
           Covered(c, from), rows' = rows \cup Page(c, from, to)
    PROVE  Covered(c, to)'
<1> SUFFICES ASSUME NEW i \in 1 .. to, Selected(c, i) PROVE <<c, i>> \in rows'
  BY DEF Covered, Selected, InWindow
<1>1. CASE i <= from
  BY <1>1 DEF Covered
<1>2. CASE i > from
  <2>0. i \in Nat /\ from < i /\ i <= to
    BY <1>2
  <2>1. <<c, i>> \in Page(c, from, to)
    BY <2>0 DEF Page
  <2> QED BY <2>1
<1> QED BY <1>1, <1>2

-----------------------------------------------------------------------------

\* What persisting a page does to the durable part of the invariant.
LEMMA PersistKeeps ==
    ASSUME BackfillAssumption, IInv, NEW c \in Connections, NEW from \in Nat,
           NEW to \in Nat, NEW done \in BOOLEAN,
           Covered(c, from),
           done => to >= InitialItems[c] \/ (c = Root /\ to > WindowTo),
           c = Root => \A i \in from + 1 .. to :
                            InWindow(i) => i \in Pulls /\ History(i),
           persist_page(c, from, to, done)
    PROVE  /\ rows \subseteq rows'
           /\ rows' \subseteq Connections \X Nat
           /\ ckpt' \in [Connections -> [status : Status, cursor : Nat, inserted : Nat]]
           /\ PagesBeforeCursorStored'
           /\ CompletedTraversalIsWhole'
           /\ HistoryBeforePullRequest'
           /\ Covered(c, to)'
           /\ done => Covered(c, InitialItems[c])'
<1>1. rows' = rows \cup Page(c, from, to) /\ rows \subseteq rows'
  BY DEF persist_page
<1>2. Covered(c, to)'
  BY <1>1, PageCovers
<1>3. done => Covered(c, InitialItems[c])'
  <2>1. CASE to >= InitialItems[c]
    BY <2>1, <1>2 DEF Covered, Selected, InWindow, BackfillAssumption
  <2>2. CASE c = Root /\ to > WindowTo
    BY <2>2, <1>2 DEF Covered, Selected, InWindow, BackfillAssumption
  <2> QED BY <2>1, <2>2
<1>4. ckpt' \in [Connections -> [status : Status, cursor : Nat, inserted : Nat]]
  <2>1. Cardinality(Page(c, from, to) \ rows) \in Nat
    BY PageFacts
  <2> QED BY <2>1 DEF persist_page, IInv, TypeOK
<1>5. PagesBeforeCursorStored'
  <2> SUFFICES ASSUME NEW d \in Connections PROVE Covered(d, ckpt[d].cursor)'
    BY DEF PagesBeforeCursorStored
  <2>1. CASE d = c /\ done
    BY <2>1 DEF persist_page, Covered, IInv, TypeOK
  <2>2. CASE d = c /\ ~ done
    <3>1. ckpt'[d].cursor = to
      BY <2>2 DEF persist_page, IInv, TypeOK
    <3> QED BY <3>1, <2>2, <1>2 DEF Covered, Selected, InWindow
  <2>3. CASE d # c
    <3>1. ckpt'[d] = ckpt[d] /\ ckpt[d].cursor \in Nat
      BY <2>3 DEF persist_page, IInv, TypeOK
    <3> QED BY <3>1, <1>1 DEF IInv, PagesBeforeCursorStored, Covered, Selected, InWindow
  <2> QED BY <2>1, <2>2, <2>3
<1>6. CompletedTraversalIsWhole'
  <2> SUFFICES ASSUME NEW d \in Connections, ckpt'[d].status = "completed"
               PROVE  Covered(d, InitialItems[d])'
    BY DEF CompletedTraversalIsWhole
  <2>1. CASE d = c
    BY <2>1, <1>3 DEF persist_page, IInv, TypeOK
  <2>2. CASE d # c
    <3>1. ckpt'[d] = ckpt[d]
      BY <2>2 DEF persist_page, IInv, TypeOK
    <3>2. Covered(d, InitialItems[d]) /\ InitialItems[d] \in Nat
      BY <3>1 DEF IInv, CompletedTraversalIsWhole, BackfillAssumption
    <3> QED BY <3>2, <1>1, CoveredStays
  <2> QED BY <2>1, <2>2
<1>7. HistoryBeforePullRequest'
  <2> SUFFICES ASSUME NEW i \in Pulls, <<Root, i>> \in rows' PROVE History(i)'
    BY DEF HistoryBeforePullRequest, History
  <2>1. History(i)
    <3>1. CASE <<Root, i>> \in rows
      BY <3>1 DEF IInv, HistoryBeforePullRequest, History
    <3>2. CASE <<Root, i>> \notin rows
      <4>1. i \in Nat /\ <<Root, i>> \in Page(c, from, to)
        BY <3>2, <1>1 DEF BackfillAssumption
      <4>2. Root = c /\ from < i /\ i <= to /\ Selected(c, i)
        BY <4>1, PageFacts
      <4>3. i \in from + 1 .. to /\ InWindow(i)
        BY <4>1, <4>2 DEF Selected
      <4> QED BY <4>2, <4>3
    <3> QED BY <3>1, <3>2
  <2> QED BY <2>1, <1>1, HistoryStays
<1>8. rows' \subseteq Connections \X Nat
  BY <1>1, PageFacts DEF IInv, TypeOK
<1> QED BY <1>1, <1>2, <1>3, <1>4, <1>5, <1>6, <1>7, <1>8
-----------------------------------------------------------------------------

\* What a runner's memory is.
Memory(r) == <<stage[r], cursor[r], end[r], final[r], node[r], part[r],
               ncursor[r], nend[r], nfinal[r]>>

\* A runner that does not move goes on vouching for what it holds.
LEMMA OthersVouch ==
    ASSUME BackfillAssumption, TypeOK, NEW r \in Runners, RunnerVouches(r),
           rows \subseteq rows', Memory(r)' = Memory(r)
    PROVE  RunnerVouches(r)'
<1>1. /\ stage'[r] = stage[r] /\ cursor'[r] = cursor[r] /\ end'[r] = end[r]
      /\ final'[r] = final[r] /\ node'[r] = node[r] /\ part'[r] = part[r]
      /\ ncursor'[r] = ncursor[r] /\ nend'[r] = nend[r] /\ nfinal'[r] = nfinal[r]
  BY DEF Memory
<1>2. /\ cursor[r] \in Nat /\ end[r] \in Nat /\ node[r] \in Nat /\ ncursor[r] \in Nat
      /\ part[r] \in Kinds
  BY DEF TypeOK
<1>3. stage'[r] # "idle" => Covered(Root, cursor[r])'
  BY <1>1, <1>2, CoveredStays DEF RunnerVouches, Covered, Selected, InWindow
<1>4. ASSUME InPage(r)'
      PROVE  /\ \A i \in cursor'[r] + 1 .. end'[r] :
                    InWindow(i)' /\ i < node'[r] => History(i)'
             /\ final'[r] => end'[r] >= InitialItems[Root] \/ end'[r] > WindowTo
             /\ end'[r] <= MaxPulls
             /\ node'[r] >= WindowFrom
  <2>1. InPage(r)
    BY <1>1, <1>4 DEF InPage, InNested
  <2>2. ASSUME NEW i \in cursor'[r] + 1 .. end'[r], InWindow(i)', i < node'[r]
        PROVE  History(i)'
    <3>1. i \in cursor[r] + 1 .. end[r] /\ InWindow(i) /\ i < node[r] /\ i \in Pulls
      BY <2>1, <2>2, <1>1, <1>2 DEF RunnerVouches, InWindow, BackfillAssumption
    <3>2. History(i)
      BY <2>1, <3>1 DEF RunnerVouches
    <3> QED BY <3>1, <3>2, HistoryStays
  <2> QED BY <2>1, <2>2, <1>1 DEF RunnerVouches
<1>5. InPage(r)' /\ part'[r] = "commits" =>
        Covered(<<node[r], "reviews">>, InitialItems[<<node[r], "reviews">>])'
  BY <1>1 DEF RunnerVouches, InPage, InNested, Covered, Selected, InWindow
<1>6. InNested(r)' => NodeLeft(r)' /\ Covered(Current(r), ncursor[r])'
  BY <1>1 DEF RunnerVouches, InNested, NodeLeft, Current, Covered, Selected, InWindow
<1>7. stage'[r] = "nested_page" /\ nfinal'[r] => nend'[r] >= InitialItems[Current(r)']
  BY <1>1 DEF RunnerVouches, Current
<1> QED BY <1>1, <1>3, <1>4, <1>5, <1>6, <1>7 DEF RunnerVouches, Covered, Selected, InWindow, Current

\* A runner that holds nothing vouches for nothing.
LEMMA IdleVouches ==
    ASSUME NEW r \in Runners, stage[r] = "idle" PROVE RunnerVouches(r)
BY DEF RunnerVouches, InPage, InNested

\* The pull request a runner works on.
LEMMA CurrentFacts ==
    ASSUME BackfillAssumption, IInv, NEW r \in Runners, InPage(r), NodeLeft(r)
    PROVE  /\ node[r] \in Pulls
           /\ Current(r) \in Connections
           /\ Current(r) # Root
           /\ InWindow(node[r])
<1>1. /\ node[r] \in Nat /\ end[r] \in Nat /\ part[r] \in Kinds
      /\ end[r] <= MaxPulls /\ node[r] >= WindowFrom
  BY DEF IInv, TypeOK, RunnerVouches
<1>2. node[r] \in Pulls /\ InWindow(node[r])
  BY <1>1 DEF NodeLeft, InWindow, BackfillAssumption
<1>3. Current(r) \in Pulls \X Kinds
  BY <1>1, <1>2 DEF Current
<1>4. Current(r) # Root
  BY <1>2 DEF Current
<1> QED BY <1>2, <1>3, <1>4

\* One more nested traversal behind it, a runner still vouches for its page.
LEMMA NestedDoneVouches ==
    ASSUME BackfillAssumption, IInv, NEW r \in Runners, InPage(r), NodeLeft(r),
           NEW c \in Connections, c = Current(r), Covered(c, InitialItems[c])',
           rows \subseteq rows',
           NestedDone(r), UNCHANGED <<cursor, end, final>>
    PROVE  RunnerVouches(r)'
<1>1. /\ cursor[r] \in Nat /\ end[r] \in Nat /\ node[r] \in Nat /\ part[r] \in Kinds
      /\ RunnerVouches(r)
  BY DEF IInv, TypeOK
<1>2. PICK n \in Pulls : n = node[r] /\ InWindow(n)
  BY CurrentFacts
<1>3. stage'[r] = "nodes" /\ cursor'[r] = cursor[r] /\ end'[r] = end[r] /\ final'[r] = final[r]
  BY DEF NestedDone, IInv, TypeOK
<1>4. Covered(Root, cursor[r])'
  BY <1>1, <1>3 DEF RunnerVouches, InPage, InNested, Covered, Selected, InWindow
<1>5. ASSUME NEW i \in Pulls, i \in cursor'[r] + 1 .. end'[r], InWindow(i), i < n
      PROVE  History(i)'
  <2>1. History(i)
    BY <1>1, <1>2, <1>3, <1>5 DEF RunnerVouches
  <2> QED BY <2>1, HistoryStays
<1>6. CASE part[r] = "reviews"
  <2>1. part'[r] = "commits" /\ node'[r] = n
    BY <1>2, <1>6 DEF NestedDone, IInv, TypeOK
  <2>2. c = <<n, "reviews">>
    BY <1>2, <1>6 DEF Current
  <2>3. Covered(<<node[r], "reviews">>, InitialItems[<<node[r], "reviews">>])'
    BY <2>1, <2>2
  <2>4. ASSUME NEW i \in cursor'[r] + 1 .. end'[r], InWindow(i)', i < node'[r]
        PROVE  History(i)'
    <3>1. i \in Pulls /\ InWindow(i)
      BY <1>1, <1>3, <2>4 DEF RunnerVouches, InWindow, BackfillAssumption
    <3> QED BY <3>1, <2>1, <2>4, <1>5
  <2> QED BY <1>1, <1>2, <1>3, <1>4, <2>1, <2>3, <2>4
          DEF RunnerVouches, InPage, InNested, InWindow
<1>7. CASE part[r] = "commits"
  <2>1. part'[r] = "reviews" /\ node'[r] = n + 1
    BY <1>2, <1>7 DEF NestedDone, IInv, TypeOK
  <2>2. History(n)'
    <3>1. c = <<n, "commits">>
      BY <1>2, <1>7 DEF Current
    <3>2. Covered(<<n, "reviews">>, InitialItems[<<n, "reviews">>])
      BY <1>1, <1>2, <1>7 DEF RunnerVouches
    <3>3. Covered(<<n, "reviews">>, InitialItems[<<n, "reviews">>])'
      BY <3>2, CoveredStays, InitialItems[<<n, "reviews">>] \in Nat DEF BackfillAssumption
    <3> QED BY <3>1, <3>3 DEF History
  <2>3. ASSUME NEW i \in cursor'[r] + 1 .. end'[r], InWindow(i)', i < node'[r]
        PROVE  History(i)'
    <3>1. i \in Pulls /\ InWindow(i) /\ i <= n
      BY <1>1, <1>2, <1>3, <2>1, <2>3 DEF RunnerVouches, InWindow, BackfillAssumption
    <3>2. CASE i < n
      BY <3>1, <3>2, <2>3, <1>5
    <3>3. CASE i = n
      BY <3>3, <2>2
    <3> QED BY <3>1, <3>2, <3>3
  <2> QED BY <1>1, <1>2, <1>3, <1>4, <2>1, <2>3
          DEF RunnerVouches, InPage, InNested, InWindow, BackfillAssumption
<1> QED BY <1>1, <1>6, <1>7

-----------------------------------------------------------------------------

\* The durable part of the invariant does not see steps in memory.
LEMMA DurableKeeps ==
    ASSUME BackfillAssumption, IInv, UNCHANGED <<rows, ckpt>>
    PROVE  PagesBeforeCursorStored' /\ CompletedTraversalIsWhole' /\ HistoryBeforePullRequest'
BY DEF IInv, PagesBeforeCursorStored, CompletedTraversalIsWhole,
       HistoryBeforePullRequest, Covered, Selected, InWindow

LEMMA StartKeeps ==
    ASSUME BackfillAssumption, IInv, NEW r \in Runners, Start(r)
    PROVE  IInv'
<1>1. TypeOK'
  BY DEF IInv, TypeOK, Start, nested
<1>2. \A s \in Runners : RunnerVouches(s)'
  <2> TAKE s \in Runners
  <2>1. CASE s # r
    BY <2>1, OthersVouch DEF IInv, TypeOK, Start, Memory, nested
  <2>2. CASE s = r
    <3>1. stage'[r] = "fetch" /\ cursor'[r] = ckpt[Root].cursor /\ rows' = rows
      BY DEF IInv, TypeOK, Start
    <3>2. Covered(Root, ckpt[Root].cursor)
      BY DEF IInv, PagesBeforeCursorStored
    <3> QED BY <2>2, <3>1, <3>2 DEF RunnerVouches, InPage, InNested, Covered, Selected, InWindow
  <2> QED BY <2>1, <2>2
<1> QED BY <1>1, <1>2, DurableKeeps DEF IInv, Start

LEMMA FetchPageKeeps ==
    ASSUME BackfillAssumption, IInv, NEW r \in Runners, FetchPage(r)
    PROVE  IInv'
<1>0. /\ cursor[r] \in Nat /\ PageEnd(Root, cursor[r]) \in Nat
      /\ PageEnd(Root, cursor[r]) <= MaxPulls
      /\ ~ HasNext(Root, cursor[r]) => PageEnd(Root, cursor[r]) >= InitialItems[Root]
  BY PageEndFacts DEF IInv, TypeOK, Limit
<1>1. TypeOK'
  BY <1>0 DEF IInv, TypeOK, FetchPage, NodeAfter, nested, BackfillAssumption
<1>2. \A s \in Runners : RunnerVouches(s)'
  <2> TAKE s \in Runners
  <2>1. CASE s # r
    BY <2>1, OthersVouch DEF IInv, TypeOK, FetchPage, Memory, nested
  <2>2. CASE s = r
    <3>1. /\ stage'[r] = "nodes" /\ cursor'[r] = cursor[r] /\ rows' = rows
          /\ end'[r] = PageEnd(Root, cursor[r]) /\ part'[r] = "reviews"
          /\ node'[r] = NodeAfter(cursor[r])
          /\ final'[r] => end'[r] >= InitialItems[Root] \/ end'[r] > WindowTo
      BY <1>0 DEF IInv, TypeOK, FetchPage
    <3>2. Covered(Root, cursor[r])
      BY DEF IInv, RunnerVouches, FetchPage
    <3>3. ASSUME NEW i \in cursor[r] + 1 .. end'[r] PROVE ~ (InWindow(i) /\ i < node'[r])
      BY <3>1, <1>0 DEF NodeAfter, InWindow, BackfillAssumption
    <3>4. node'[r] >= WindowFrom
      BY <3>1, <1>0 DEF NodeAfter, BackfillAssumption
    <3> QED BY <2>2, <1>0, <3>1, <3>2, <3>3, <3>4
            DEF RunnerVouches, InPage, InNested, Covered, Selected, InWindow
  <2> QED BY <2>1, <2>2
<1> QED BY <1>1, <1>2, DurableKeeps DEF IInv, FetchPage

LEMMA SkipNestedKeeps ==
    ASSUME BackfillAssumption, IInv, NEW r \in Runners, SkipNested(r)
    PROVE  IInv'
<1>0. InPage(r) /\ NodeLeft(r) /\ rows' = rows
  BY DEF SkipNested, InPage
<1>1. TypeOK'
  BY DEF IInv, TypeOK, SkipNested, NestedDone
<1>2. PICK c \in Connections : c = Current(r)
  BY <1>0, CurrentFacts
<1>3. Covered(c, InitialItems[c])
  BY <1>2 DEF SkipNested, IInv, CompletedTraversalIsWhole
<1>4. Covered(c, InitialItems[c])'
  BY <1>3, <1>0, CoveredStays, InitialItems[c] \in Nat DEF BackfillAssumption
<1>5. \A s \in Runners : RunnerVouches(s)'
  <2> TAKE s \in Runners
  <2>1. CASE s # r
    BY <2>1, <1>0, OthersVouch DEF IInv, TypeOK, SkipNested, NestedDone, Memory
  <2>2. CASE s = r
    BY <2>2, <1>0, <1>2, <1>4, NestedDoneVouches DEF SkipNested
  <2> QED BY <2>1, <2>2
<1> QED BY <1>1, <1>5, DurableKeeps DEF IInv, SkipNested

LEMMA StartNestedKeeps ==
    ASSUME BackfillAssumption, IInv, NEW r \in Runners, StartNested(r)
    PROVE  IInv'
<1>0. InPage(r) /\ NodeLeft(r) /\ rows' = rows
  BY DEF StartNested, InPage
<1>1. TypeOK'
  <2>1. ckpt[Current(r)].cursor \in Nat
    BY <1>0, CurrentFacts DEF IInv, TypeOK
  <2> QED BY <2>1 DEF IInv, TypeOK, StartNested
<1>2. \A s \in Runners : RunnerVouches(s)'
  <2> TAKE s \in Runners
  <2>1. CASE s # r
    BY <2>1, OthersVouch DEF IInv, TypeOK, StartNested, Memory
  <2>2. CASE s = r
    <3>1. Covered(Current(r), ckpt[Current(r)].cursor)
      BY <1>0, CurrentFacts DEF IInv, PagesBeforeCursorStored
    <3>2. /\ stage'[r] = "nested" /\ ncursor'[r] = ckpt[Current(r)].cursor
          /\ cursor' = cursor /\ end' = end /\ final' = final /\ node' = node
          /\ part' = part
      BY DEF IInv, TypeOK, StartNested
    <3>3. RunnerVouches(r)
      BY DEF IInv
    <3>4. NodeLeft(r)' /\ Current(r)' = Current(r)
      BY <1>0, <3>2 DEF NodeLeft, Current
    <3>5. Covered(Current(r), ncursor[r])'
      BY <1>0, <3>1, <3>2, <3>4 DEF Covered, Selected, InWindow
    <3> QED BY <2>2, <1>0, <3>2, <3>3, <3>4, <3>5
            DEF RunnerVouches, InPage, InNested, History, Covered, Selected, InWindow, StartNested
  <2> QED BY <2>1, <2>2
<1> QED BY <1>1, <1>2, DurableKeeps DEF IInv, StartNested

LEMMA FetchNestedKeeps ==
    ASSUME BackfillAssumption, IInv, NEW r \in Runners, FetchNested(r)
    PROVE  IInv'
<1>0. InPage(r) /\ InNested(r) /\ NodeLeft(r) /\ rows' = rows /\ RunnerVouches(r)
  BY DEF FetchNested, InPage, InNested, IInv, RunnerVouches
<1>1. Current(r) \in Connections /\ ncursor[r] \in Nat
  BY <1>0, CurrentFacts DEF IInv, TypeOK
<1>2. /\ PageEnd(Current(r), ncursor[r]) \in Nat
      /\ ~ HasNext(Current(r), ncursor[r]) =>
            PageEnd(Current(r), ncursor[r]) >= InitialItems[Current(r)]
  BY <1>1, PageEndFacts DEF IInv
<1>3. TypeOK'
  BY <1>2 DEF IInv, TypeOK, FetchNested, HasNext
<1>4. \A s \in Runners : RunnerVouches(s)'
  <2> TAKE s \in Runners
  <2>1. CASE s # r
    BY <2>1, OthersVouch DEF IInv, TypeOK, FetchNested, Memory
  <2>2. CASE s = r
    <3>1. /\ stage'[r] = "nested_page" /\ nend'[r] = PageEnd(Current(r), ncursor[r])
          /\ nfinal'[r] = ~ HasNext(Current(r), ncursor[r])
          /\ cursor' = cursor /\ end' = end /\ final' = final /\ node' = node
          /\ part' = part /\ ncursor' = ncursor
      BY DEF IInv, TypeOK, FetchNested
    <3>2. NodeLeft(r)' /\ Current(r)' = Current(r)
      BY <1>0, <3>1 DEF NodeLeft, Current
    <3>3. Covered(Current(r), ncursor[r])'
      BY <1>0, <3>1, <3>2 DEF RunnerVouches, Covered, Selected, InWindow
    <3>4. nfinal'[r] => nend'[r] >= InitialItems[Current(r)']
      BY <1>2, <3>1, <3>2
    <3> QED BY <2>2, <1>0, <3>1, <3>2, <3>3, <3>4
            DEF RunnerVouches, InPage, InNested, History, Covered, Selected, InWindow
  <2> QED BY <2>1, <2>2
<1> QED BY <1>3, <1>4, DurableKeeps DEF IInv, FetchNested

\* What a nested page adds, whether the runner learns of it or not.
LEMMA NestedPageKeeps ==
    ASSUME BackfillAssumption, IInv, NEW r \in Runners, stage[r] = "nested_page",
           NEW c \in Connections, c = Current(r),
           persist_page(c, ncursor[r], nend[r], nfinal[r])
    PROVE  /\ rows \subseteq rows'
           /\ rows' \subseteq Connections \X Nat
           /\ ckpt' \in [Connections -> [status : Status, cursor : Nat, inserted : Nat]]
           /\ PagesBeforeCursorStored'
           /\ CompletedTraversalIsWhole'
           /\ HistoryBeforePullRequest'
           /\ \A n \in Nat : n = nend[r] => Covered(c, n)'
           /\ nfinal[r] => Covered(c, InitialItems[c])'
<1>1. InPage(r) /\ InNested(r) /\ NodeLeft(r) /\ RunnerVouches(r)
  BY DEF InPage, InNested, IInv, RunnerVouches
<1>2. c # Root
  BY <1>1, CurrentFacts
<1>3. Covered(c, ncursor[r]) /\ (nfinal[r] => nend[r] >= InitialItems[c])
  BY <1>1 DEF RunnerVouches
<1>4. PICK from \in Nat, to \in Nat, done \in BOOLEAN :
        from = ncursor[r] /\ to = nend[r] /\ done = nfinal[r]
  BY DEF IInv, TypeOK
<1>5. Covered(c, from) /\ (done => to >= InitialItems[c]) /\ persist_page(c, from, to, done)
  BY <1>3, <1>4
<1> QED BY <1>2, <1>4, <1>5, PersistKeeps

LEMMA PersistNestedKeeps ==
    ASSUME BackfillAssumption, IInv, NEW r \in Runners, PersistNested(r)
    PROVE  IInv'
<1>0. InPage(r) /\ InNested(r) /\ NodeLeft(r) /\ RunnerVouches(r) /\ stage[r] = "nested_page"
  BY DEF PersistNested, InPage, InNested, IInv, RunnerVouches
<1>1. PICK c \in Connections : c = Current(r)
  BY <1>0, CurrentFacts
<1>2. /\ rows \subseteq rows'
      /\ rows' \subseteq Connections \X Nat
      /\ ckpt' \in [Connections -> [status : Status, cursor : Nat, inserted : Nat]]
      /\ PagesBeforeCursorStored' /\ CompletedTraversalIsWhole' /\ HistoryBeforePullRequest'
      /\ \A n \in Nat : n = nend[r] => Covered(c, n)'
      /\ nfinal[r] => Covered(c, InitialItems[c])'
  BY <1>0, <1>1, NestedPageKeeps DEF PersistNested
<1>3. TypeOK'
  <2>1. /\ items' = items /\ cursor' = cursor /\ end' = end /\ final' = final
        /\ failures' = failures
    BY DEF PersistNested
  <2>2. /\ stage' \in [Runners -> Stage]
        /\ node' \in [Runners -> Nat] /\ part' \in [Runners -> Kinds]
        /\ ncursor' \in [Runners -> Nat] /\ nend' \in [Runners -> Nat]
        /\ nfinal' \in [Runners -> BOOLEAN]
    <3> USE DEF IInv, TypeOK
    <3>0. nfinal[r] => NestedDone(r)
      BY DEF PersistNested
    <3>1. CASE nfinal[r] /\ part[r] = "reviews"
      <4>1. /\ stage' = [stage EXCEPT ![r] = "nodes"]
            /\ part' = [part EXCEPT ![r] = "commits"] /\ node' = node
            /\ ncursor' = [ncursor EXCEPT ![r] = 0]
            /\ nend' = [nend EXCEPT ![r] = 0]
            /\ nfinal' = [nfinal EXCEPT ![r] = FALSE]
        BY <3>0, <3>1 DEF NestedDone
      <4> QED BY <4>1
    <3>2. CASE nfinal[r] /\ part[r] # "reviews"
      <4>1. /\ stage' = [stage EXCEPT ![r] = "nodes"]
            /\ part' = [part EXCEPT ![r] = "reviews"]
            /\ node' = [node EXCEPT ![r] = @ + 1]
            /\ ncursor' = [ncursor EXCEPT ![r] = 0]
            /\ nend' = [nend EXCEPT ![r] = 0]
            /\ nfinal' = [nfinal EXCEPT ![r] = FALSE]
        BY <3>0, <3>2 DEF NestedDone
      <4> QED BY <4>1
    <3>3. CASE ~ nfinal[r]
      BY <3>3 DEF PersistNested
    <3> QED BY <3>1, <3>2, <3>3
  <2> QED BY <1>2, <2>1, <2>2 DEF IInv, TypeOK
<1>4. \A s \in Runners : RunnerVouches(s)'
  <2> TAKE s \in Runners
  <2>1. CASE s # r
    BY <2>1, <1>2, OthersVouch DEF IInv, TypeOK, PersistNested, NestedDone, Memory
  <2>2. CASE s = r /\ nfinal[r]
    BY <2>2, <1>0, <1>1, <1>2, NestedDoneVouches DEF PersistNested
  <2>3. CASE s = r /\ ~ nfinal[r]
    <3>1. /\ stage'[r] = "nested" /\ ncursor'[r] = nend[r] /\ cursor' = cursor
          /\ end' = end /\ final' = final /\ node' = node /\ part' = part
      BY <2>3 DEF IInv, TypeOK, PersistNested
    <3>2. NodeLeft(r)' /\ Current(r)' = c
      BY <1>0, <1>1, <3>1 DEF NodeLeft, Current
    <3>3. nend[r] \in Nat /\ part[r] \in Kinds /\ cursor[r] \in Nat /\ end[r] \in Nat
      BY DEF IInv, TypeOK
    <3>4. Covered(Current(r), ncursor[r])'
      <4>1. PICK n \in Nat : n = nend[r]
        BY <3>3
      <4>2. Covered(c, n)'
        BY <1>2, <4>1
      <4> QED BY <4>1, <4>2, <3>1, <3>2
    <3>5. Covered(Root, cursor[r])'
      BY <1>0, <1>2, <3>1, <3>3 DEF RunnerVouches, InNested, Covered, Selected, InWindow
    <3>6. ASSUME NEW i \in cursor'[r] + 1 .. end'[r], InWindow(i)', i < node'[r]
          PROVE  History(i)'
      <4>1. i \in Pulls /\ InWindow(i) /\ History(i)
        BY <3>1, <3>3, <3>6, <1>0 DEF RunnerVouches, InWindow, BackfillAssumption
      <4> QED BY <4>1, <1>2, HistoryStays
    <3>7. part'[r] = "commits" =>
            Covered(<<node[r], "reviews">>, InitialItems[<<node[r], "reviews">>])'
      BY <1>0, <1>2, <3>1 DEF RunnerVouches, Covered, Selected, InWindow
    <3> QED BY <2>3, <1>0, <3>1, <3>2, <3>4, <3>5, <3>6, <3>7
            DEF RunnerVouches, InPage, InNested, InWindow
  <2> QED BY <2>1, <2>2, <2>3
<1> QED BY <1>2, <1>3, <1>4 DEF IInv

\* What a page of pull requests adds, whether the runner learns of it or not.
LEMMA RootPageKeeps ==
    ASSUME BackfillAssumption, IInv, NEW r \in Runners,
           stage[r] = "nodes", ~ NodeLeft(r),
           persist_page(Root, cursor[r], end[r], final[r])
    PROVE  /\ rows \subseteq rows'
           /\ rows' \subseteq Connections \X Nat
           /\ ckpt' \in [Connections -> [status : Status, cursor : Nat, inserted : Nat]]
           /\ PagesBeforeCursorStored'
           /\ CompletedTraversalIsWhole'
           /\ HistoryBeforePullRequest'
           /\ \A n \in Nat : n = end[r] => Covered(Root, n)'
<1>1. RunnerVouches(r) /\ InPage(r) /\ stage[r] # "idle"
  BY DEF IInv, InPage
<1>2. PICK from \in Nat, to \in Nat, n \in Nat, done \in BOOLEAN :
        from = cursor[r] /\ to = end[r] /\ n = node[r] /\ done = final[r]
  BY DEF IInv, TypeOK
<1>3. Covered(Root, from) /\ (done => to >= InitialItems[Root] \/ to > WindowTo)
  BY <1>1, <1>2 DEF RunnerVouches
<1>4. ASSUME NEW i \in from + 1 .. to, InWindow(i)
      PROVE  i \in Pulls /\ History(i)
  <2>1. to <= MaxPulls /\ (n > to \/ n > WindowTo)
    BY <1>1, <1>2 DEF RunnerVouches, NodeLeft, BackfillAssumption
  <2>2. i \in Pulls /\ i < n
    BY <2>1, <1>4 DEF InWindow, BackfillAssumption
  <2>3. History(i)
    BY <1>1, <1>2, <1>4, <2>2 DEF RunnerVouches
  <2> QED BY <2>2, <2>3
<1>5. persist_page(Root, from, to, done)
  BY <1>2
<1> QED BY <1>2, <1>3, <1>4, <1>5, PersistKeeps

\* A runner that loses its memory leaves the others as they were.
LEMMA ForgetKeeps ==
    ASSUME BackfillAssumption, IInv, NEW r \in Runners, Forget(r),
           rows \subseteq rows', items' = items
    PROVE  \A s \in Runners : RunnerVouches(s)'
<1> TAKE s \in Runners
<1>1. CASE s # r
  BY <1>1, OthersVouch DEF IInv, TypeOK, Forget, Memory
<1>2. CASE s = r
  BY <1>2 DEF Forget, IInv, TypeOK, RunnerVouches, InPage, InNested
<1> QED BY <1>1, <1>2

LEMMA ForgetType ==
    ASSUME IInv, NEW r \in Runners, Forget(r)
    PROVE  /\ stage' \in [Runners -> Stage]
           /\ cursor' \in [Runners -> Nat] /\ end' \in [Runners -> Nat]
           /\ final' \in [Runners -> BOOLEAN]
           /\ node' \in [Runners -> Nat] /\ part' \in [Runners -> Kinds]
           /\ ncursor' \in [Runners -> Nat] /\ nend' \in [Runners -> Nat]
           /\ nfinal' \in [Runners -> BOOLEAN]
BY DEF IInv, TypeOK, Forget

LEMMA PersistPageKeeps ==
    ASSUME BackfillAssumption, IInv, NEW r \in Runners, PersistPage(r)
    PROVE  IInv'
<1>1. /\ rows \subseteq rows'
      /\ rows' \subseteq Connections \X Nat
      /\ ckpt' \in [Connections -> [status : Status, cursor : Nat, inserted : Nat]]
      /\ PagesBeforeCursorStored' /\ CompletedTraversalIsWhole' /\ HistoryBeforePullRequest'
      /\ \A n \in Nat : n = end[r] => Covered(Root, n)'
  BY RootPageKeeps DEF PersistPage
<1>2. TypeOK'
  <2>1. CASE final[r]
    BY <1>1, <2>1, ForgetType DEF IInv, TypeOK, PersistPage
  <2>2. CASE ~ final[r]
    BY <1>1, <2>2 DEF IInv, TypeOK, PersistPage, nested
  <2> QED BY <2>1, <2>2
<1>3. \A s \in Runners : RunnerVouches(s)'
  <2>1. CASE final[r]
    BY <1>1, <2>1, ForgetKeeps DEF PersistPage
  <2>2. CASE ~ final[r]
    <3> TAKE s \in Runners
    <3>1. CASE s # r
      BY <2>2, <3>1, <1>1, OthersVouch DEF IInv, TypeOK, PersistPage, Memory, nested
    <3>2. CASE s = r
      <4>1. stage'[r] = "fetch" /\ cursor'[r] = end[r]
        BY <2>2 DEF IInv, TypeOK, PersistPage
      <4>2. PICK n \in Nat : n = end[r]
        BY DEF IInv, TypeOK
      <4>3. Covered(Root, cursor[r])'
        BY <4>1, <4>2, <1>1
      <4> QED BY <3>2, <4>1, <4>3 DEF RunnerVouches, InPage, InNested
    <3> QED BY <3>1, <3>2
  <2> QED BY <2>1, <2>2
<1> QED BY <1>1, <1>2, <1>3 DEF IInv

LEMMA FailKeeps ==
    ASSUME BackfillAssumption, IInv, NEW r \in Runners, Fail(r)
    PROVE  IInv'
<1>1. TypeOK'
  BY ForgetType DEF IInv, TypeOK, Fail, BackfillAssumption
<1> QED BY <1>1, DurableKeeps, ForgetKeeps DEF IInv, Fail

LEMMA PersistFailsKeeps ==
    ASSUME BackfillAssumption, IInv, NEW r \in Runners, PersistFails(r)
    PROVE  IInv'
<1>1. /\ rows \subseteq rows'
      /\ rows' \subseteq Connections \X Nat
      /\ ckpt' \in [Connections -> [status : Status, cursor : Nat, inserted : Nat]]
      /\ PagesBeforeCursorStored' /\ CompletedTraversalIsWhole' /\ HistoryBeforePullRequest'
  <2>1. CASE stage[r] = "nodes"
    BY <2>1, RootPageKeeps DEF PersistFails
  <2>2. CASE stage[r] = "nested_page"
    <3>1. PICK c \in Connections : c = Current(r)
      BY <2>2, CurrentFacts DEF InPage, InNested, IInv, RunnerVouches
    <3> QED BY <2>2, <3>1, NestedPageKeeps DEF PersistFails
  <2> QED BY <2>1, <2>2 DEF PersistFails
<1>2. TypeOK'
  <2>1. failures' \in 0 .. MaxFailures /\ items' = items /\ Forget(r)
    BY DEF IInv, TypeOK, PersistFails, BackfillAssumption
  <2> QED BY <1>1, <2>1, ForgetType DEF IInv, TypeOK
<1> QED BY <1>1, <1>2, ForgetKeeps DEF IInv, PersistFails

LEMMA GrowKeeps ==
    ASSUME BackfillAssumption, IInv, NEW c \in Connections, Grow(c)
    PROVE  IInv'
<1>1. TypeOK'
  <2>1. Limit(c) \in Nat /\ items[c] \in Nat /\ items[c] < Limit(c)
    BY DEF Limit, BackfillAssumption, IInv, TypeOK, Grow
  <2>2. items' \in [Connections -> Nat]
    BY <2>1 DEF IInv, TypeOK, Grow
  <2>3. ASSUME NEW d \in Connections
        PROVE  InitialItems[d] <= items'[d] /\ items'[d] <= Limit(d)
    <3>1. /\ InitialItems[d] \in Nat /\ items[d] \in Nat
          /\ InitialItems[d] <= items[d] /\ items[d] <= Limit(d)
          /\ items'[d] = IF d = c THEN items[d] + 1 ELSE items[d]
          /\ Limit(d) \in Nat
      BY DEF IInv, TypeOK, Grow, BackfillAssumption, Limit
    <3> QED BY <2>1, <3>1
  <2> QED BY <2>2, <2>3 DEF IInv, TypeOK, Grow, memory
<1>2. \A s \in Runners : RunnerVouches(s)'
  BY OthersVouch DEF IInv, Grow, memory, Memory
<1> QED BY <1>1, <1>2, DurableKeeps DEF IInv, Grow

-----------------------------------------------------------------------------
(* The counter beside the rows.                                            *)

\* A page adds to the rows of its traversal as many as it adds to the counter,
\* and none to another's.
LEMMA PersistCounts ==
    ASSUME TypeOK, CountInv, NEW c \in Connections, NEW from \in Nat, NEW to \in Nat,
           NEW done \in BOOLEAN, persist_page(c, from, to, done)
    PROVE  CountInv'
<1> DEFINE new == Page(c, from, to) \ rows
<1>1. /\ IsFiniteSet(new) /\ Cardinality(new) \in Nat
      /\ \A x \in new : x[1] = c
  <2>1. IsFiniteSet(new) /\ Cardinality(new) \in Nat
    BY PageFacts
  <2>2. \A x \in new : x[1] = c
    BY DEF Page
  <2> QED BY <2>1, <2>2
<1>2. rows' = rows \cup new
  BY DEF persist_page
<1>3. ckpt'[c].inserted = ckpt[c].inserted + Cardinality(new)
  BY DEF persist_page, TypeOK
<1>4. \A d \in Connections : d # c => ckpt'[d] = ckpt[d]
  BY DEF persist_page, TypeOK
<1>5. new \cap rows = {}
  OBVIOUS
<1> HIDE DEF new
<1>6. IsFiniteSet(RowsOf(c)') /\ ckpt'[c].inserted = Cardinality(RowsOf(c)')
  <2>1. RowsOf(c)' = RowsOf(c) \cup new
    BY <1>1, <1>2 DEF RowsOf
  <2>2. RowsOf(c) \cap new = {}
    BY <1>5 DEF RowsOf
  <2>3. IsFiniteSet(RowsOf(c)) /\ ckpt[c].inserted = Cardinality(RowsOf(c))
    BY DEF CountInv, InsertedCountsRows
  <2>4. /\ IsFiniteSet(RowsOf(c) \cup new)
        /\ Cardinality(RowsOf(c) \cup new) =
             Cardinality(RowsOf(c)) + Cardinality(new) - Cardinality(RowsOf(c) \cap new)
    BY <1>1, <2>3, FS_Union
  <2>5. Cardinality(RowsOf(c) \cap new) = 0 /\ Cardinality(RowsOf(c)) \in Nat
    BY <2>2, <2>3, FS_EmptySet, FS_CardinalityType
  <2> QED BY <1>1, <1>3, <2>1, <2>3, <2>4, <2>5
<1>7. ASSUME NEW d \in Connections, d # c
      PROVE  IsFiniteSet(RowsOf(d)') /\ ckpt'[d].inserted = Cardinality(RowsOf(d)')
  <2>1. RowsOf(d)' = RowsOf(d)
    BY <1>1, <1>2, <1>7 DEF RowsOf
  <2> QED BY <1>4, <1>7, <2>1 DEF CountInv, InsertedCountsRows
<1> QED BY <1>6, <1>7 DEF CountInv, InsertedCountsRows

LEMMA StepCounts == IInv /\ CountInv /\ [Next]_vars => CountInv'
<1> SUFFICES ASSUME IInv, CountInv, [Next]_vars PROVE CountInv'
  OBVIOUS
<1>1. CASE UNCHANGED <<rows, ckpt>>
  BY <1>1 DEF CountInv, InsertedCountsRows, RowsOf
<1>2. ASSUME NEW r \in Runners, stage[r] = "nodes",
             persist_page(Root, cursor[r], end[r], final[r])
      PROVE  CountInv'
  BY <1>2, PersistCounts DEF IInv, TypeOK
<1>3. ASSUME NEW r \in Runners, stage[r] = "nested_page",
             persist_page(Current(r), ncursor[r], nend[r], nfinal[r])
      PROVE  CountInv'
  <2>1. Current(r) \in Connections
    <3>1. InPage(r) /\ InNested(r)
      BY <1>3 DEF InPage, InNested
    <3>2. RunnerVouches(r)
      BY DEF IInv
    <3>3. NodeLeft(r)
      BY <3>1, <3>2 DEF RunnerVouches
    <3> QED BY <3>1, <3>3, BackfillAssumption, CurrentFacts
  <2> QED BY <1>3, <2>1, PersistCounts DEF IInv, TypeOK
<1> QED
  BY <1>1, <1>2, <1>3 DEF Next, vars, Grow, Run, Start, FetchPage, SkipNested,
     StartNested, FetchNested, PersistNested, PersistPage, Fail, PersistFails

-----------------------------------------------------------------------------

LEMMA Initial == BackfillAssumption /\ Init => IInv
BY DEF Init, IInv, TypeOK, PagesBeforeCursorStored, CompletedTraversalIsWhole,
       HistoryBeforePullRequest, RunnerVouches, InPage, InNested, Covered,
       BackfillAssumption

LEMMA StepKeeps == BackfillAssumption /\ IInv /\ [Next]_vars => IInv'
<1> SUFFICES ASSUME BackfillAssumption, IInv, [Next]_vars PROVE IInv'
  OBVIOUS
<1>1. CASE UNCHANGED vars
  <2>1. TypeOK'
    BY <1>1 DEF vars, memory, IInv, TypeOK
  <2>2. \A s \in Runners : RunnerVouches(s)'
    BY <1>1, OthersVouch DEF vars, memory, IInv, Memory
  <2> QED BY <1>1, <2>1, <2>2, DurableKeeps DEF vars, IInv
<1>2. CASE \E c \in Connections : Grow(c)
  BY <1>2, GrowKeeps
<1>3. CASE \E r \in Runners : Run(r)
  BY <1>3, StartKeeps, FetchPageKeeps, SkipNestedKeeps, StartNestedKeeps,
     FetchNestedKeeps, PersistNestedKeeps, PersistPageKeeps DEF Run
<1>4. CASE \E r \in Runners : Fail(r) \/ PersistFails(r)
  BY <1>4, FailKeeps, PersistFailsKeeps
<1> QED BY <1>1, <1>2, <1>3, <1>4 DEF Next

\* The invariant holds in every reachable state.
THEOREM Inductive == Spec => []IInv
BY Initial, StepKeeps, BackfillAssumption, PTL DEF Spec

\* The variables keep their types, and GitHub's connections only grow.
THEOREM TypeCorrect == Spec => []TypeOK
BY Inductive, PTL DEF IInv

\* For any number of concurrent runners and any failures, everything before a
\* stored cursor is stored (storage.py:107-165).
THEOREM CursorIsBacked == Spec => []PagesBeforeCursorStored
BY Inductive, PTL DEF IInv

\* For any number of concurrent runners and any failures, a completed traversal
\* misses no record that existed when the first run began (github.py:239, 303).
THEOREM CompletedIsWhole == Spec => []CompletedTraversalIsWhole
BY Inductive, PTL DEF IInv

\* For any number of concurrent runners and any failures, no pull request is
\* stored before its reviews and commits (github.py:228-247).
THEOREM HistoryComesFirst == Spec => []HistoryBeforePullRequest
BY Inductive, PTL DEF IInv

\* For any number of concurrent runners and any failures, records_inserted is the
\* number of rows of its traversal (storage.py:86, 132-147).
THEOREM InsertedIsCounted == Spec => []InsertedCountsRows
<1>1. Init => CountInv
  BY FS_EmptySet DEF Init, CountInv, InsertedCountsRows, RowsOf
<1>2. CountInv => InsertedCountsRows
  BY DEF CountInv
<1> QED BY <1>1, <1>2, Inductive, StepCounts, PTL DEF Spec
=============================================================================
