--------------------------- MODULE MCRestBackfill ---------------------------
\* Small instances of RestBackfill for TLC.
EXTENDS RestBackfill

\* A listing of one page and a bit.
Some ==
    [l \in Listings |-> IF l = WorkflowRuns THEN MaxItems - 1
                        ELSE IF l = DeploymentList THEN MaxDeployments - 1 ELSE 1]
None == [l \in Listings |-> 0]
=============================================================================
