----------------------------- MODULE MCTaskTree -----------------------------
(* A chain of four processes on two nodes, and a spare task, which becomes   *)
(* anybody's child, sibling or thread.  b stays: the others come and go      *)
(* above and below it.                                                       *)
EXTENDS TaskTree, TLC

CONSTANTS init, a, b, c, spare, node1, node2

Parents == (init :> None) @@ (a :> init) @@ (b :> a) @@ (c :> b)
Leaders == [t \in DOMAIN Parents |-> t]
Homes == (init :> node1) @@ (a :> node1) @@ (b :> node2) @@ (c :> node2)

(* The tracer is no parent of its tracees, c and what c forks. *)
Tracings0 == {<<a, c>>}
=============================================================================
