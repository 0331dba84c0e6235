---------------------------- MODULE MCPrMonitor ----------------------------
\* Small instances of PrMonitor for TLC.  Numbers are the source's times.
EXTENDS PrMonitor, TLC

CONSTANTS w1, w2, p1, pr1, r1, r2

Snap(pr, state, draft, updated) ==
    [pr |-> pr, state |-> state, draft |-> draft, updated |-> updated]
Event(pr, state, draft, updated) ==
    [kind |-> "snapshot", snap |-> Snap(pr, state, draft, updated)]
Reviewed(pr, state, updated, byAuthor, id, submitted) ==
    [kind |-> "review", snap |-> Snap(pr, state, FALSE, updated),
     byAuthor |-> byAuthor, review |-> [id |-> id, submitted |-> submitted]]

Opened == Event(pr1, "open", FALSE, 1)
Drafted == Event(pr1, "open", TRUE, 2)
Closed == Event(pr1, "closed", FALSE, 5)
Reopened == Event(pr1, "open", FALSE, 6)
Review1 == Reviewed(pr1, "open", 3, FALSE, r1, 3)
Review2 == Reviewed(pr1, "closed", 5, FALSE, r2, 4)
SelfReview == Reviewed(pr1, "open", 3, TRUE, r1, 2)
Invalid == [kind |-> "invalid"]
Ignored == [kind |-> "ignored"]

\* Data the database refuses: an id, a pull request's number, a reviewer's login.
BadId == Event(pr1, "open", FALSE, 7)
BadNumber == Event(pr1, "open", FALSE, 4)
BadReviewer == Reviewed(pr1, "open", 3, FALSE, r2, 3)
RefusedNumber == {<<BadNumber, "open">>}
RefusedData ==
    RefusedNumber \cup {<<BadId, "watermark">>, <<BadReviewer, "review">>}

\* One pull request's life; equal times carry equal snapshots.
LifeValues ==
    {Opened, Drafted, Closed, Reopened, Review1, Review2, SelfReview,
     Invalid, Ignored, BadId, BadNumber, BadReviewer}

\* A sweep against a close, and a record that is refused unless it is overtaken.
AlertValues == {Opened, Closed, Reopened, Review1, BadNumber}

\* The source stamps events in whole seconds: an edit and the close of the
\* same second carry the same updated_at.
SameSecondValues == {Opened, Event(pr1, "closed", FALSE, 1)}

OnePartition == [v \in Values |-> p1]
MonitorSymmetry == Permutations({w1, w2})
=============================================================================
