--------------------------- MODULE MCDeliveryQueue ---------------------------
(* Model-checking instances of DeliveryQueue.                              *)
EXTENDS DeliveryQueue, TLC

\* Atoms of the same chat and the same kind are interchangeable.
Symmetry ==
    UNION {Permutations(Channel \cap Aside), Permutations(Channel \ Aside),
           Permutations(Aside \ Channel), Permutations(Atoms \ (Channel \cup Aside))}

\* No action reads touched, and of the properties only NeverReplayed does: a run
\* that leaves that property out need not tell states apart by it.
ButTouched ==
    <<lane, rt, stash, stamped, replays, carries, task, taskEvent, arrived, settled, told, promised>>
=============================================================================
