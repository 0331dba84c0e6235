------------------------- MODULE MCGraphQLBackfill -------------------------
\* Small instances of GraphQLBackfill for TLC: the pull requests 2 and 3 are
\* in the window, 1 is before it and 4, once it is there, behind it.
EXTENDS GraphQLBackfill

CONSTANTS r1, r2

\* Two pages of reviews.  Only pull requests of the window get commits.
TwoPages ==
    [c \in Connections |-> IF c = Root THEN MaxPulls - 1
                           ELSE IF c[2] = "commits" /\ InWindow(c[1]) THEN 1
                           ELSE MaxItems]
=============================================================================
