--------------------------- MODULE MCManagedRoots ---------------------------
EXTENDS ManagedRoots

\* A folder and one inside it.
MCOverlaps == {<<"docs", "docs/old">>, <<"docs/old", "docs">>}
=============================================================================
