------------------------------ MODULE MCWalks ------------------------------
EXTENDS Walks

\* Any pages of a block of three, and a few orders of more pages than there
\* are words on a page.
SmallOrders == UNION {{o \in [1..n -> 0..2] : IsInjective(o)} : n \in 1..3}
Turned(n) == {[i \in 1..n |-> IF i = 1 THEN 0 ELSE 1 + ((i - 2 + k) % (n - 1))] : k \in 0..1}
AllOrders == SmallOrders \union UNION {Turned(n) : n \in 4..9}
=============================================================================
