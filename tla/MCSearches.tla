----------------------------- MODULE MCSearches -----------------------------
EXTENDS Searches

\* From nothing to more than was asked for, in sixteenths of a megabyte, and
\* a little less than a megabyte.
SomeAvailable == {63} \union {4 * n : n \in 0..300}
\* No argument, and powers of two and others in megabytes.
SomeArguments == {0} \union {64 * m : m \in {1, 2, 3, 5, 8, 11, 16, 63}}
=============================================================================
