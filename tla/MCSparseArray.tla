--------------------------- MODULE MCSparseArray ---------------------------
EXTENDS SparseArray

\* An int below the arrays and two within them.
MCGarbage == {-1, 0, 2}

=============================================================================
