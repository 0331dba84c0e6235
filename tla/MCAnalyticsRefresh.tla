------------------------- MODULE MCAnalyticsRefresh -------------------------
\* Small instances of AnalyticsRefresh for TLC.
EXTENDS AnalyticsRefresh

CONSTANTS a1, a2
=============================================================================
