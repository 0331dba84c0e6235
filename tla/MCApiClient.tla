---------------------------- MODULE MCApiClient ----------------------------
\* A small instance of ApiClient for TLC: two clients, of one kind or of two.
EXTENDS ApiClient

CONSTANTS c1, c2

\* Which of the two calls GraphQL and which REST makes no difference.
UpToRenaming == {k \in [Clients -> Kinds] : k[c1] = "graphql" \/ k[c2] = "rest"}
=============================================================================
