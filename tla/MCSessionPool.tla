--------------------------- MODULE MCSessionPool ---------------------------
(* Model-checking instances of SessionPool.                                *)
EXTENDS SessionPool, TLC

\* Sessions that are neither observers nor task sessions are interchangeable.
Symmetry == Permutations(Sessions \ (Observers \cup TaskNames))

\* Bound: nothing is explored beyond the first clash.
NoClash == clashes = {}

\* Bound: how many prompt handlers are between their awaits at once.
OneHandler == NoClash /\ Cardinality({s \in Sessions : handler[s].at # "free"}) <= 1

=============================================================================
