------------------------------- MODULE TxSet --------------------------------
(***************************************************************************)
(* What nf_tables promises of a set, without tables, clones or             *)
(* generations: batches of changes to a set of elements, all or nothing,   *)
(* except that packets see the deletions of a batch before its additions.  *)
(***************************************************************************)
CONSTANTS Elems, KeyOf

VARIABLES
  set,      \* the elements packets match
  next,     \* the elements as the batch has changed them so far
  broken,   \* the batch has met an error
  closing   \* the batch is being committed

vars == <<set, next, broken, closing>>

Init == set = {} /\ next = {} /\ broken = FALSE /\ closing = FALSE

(* An added element does not have the key of another one.                  *)
Add(e) ==
  /\ ~closing
  /\ e \notin next /\ \A d \in next : KeyOf[d] # KeyOf[e]
  /\ next' = next \cup {e}
  /\ UNCHANGED <<set, broken, closing>>

Delete ==
  /\ ~closing
  /\ next' \in SUBSET next
  /\ broken' \in {broken, TRUE}
  /\ UNCHANGED <<set, closing>>

Commit ==
  /\ ~closing /\ ~broken
  /\ set' = set \cap next
  /\ closing' = TRUE
  /\ UNCHANGED <<next, broken>>

Committed == closing /\ set' = next /\ closing' = FALSE /\ UNCHANGED <<next, broken>>

Abort ==
  /\ ~closing
  /\ next' = set
  /\ broken' = FALSE
  /\ UNCHANGED <<set, closing>>

(* An element times out between two batches. *)
Expire(e) ==
  /\ set = next /\ ~closing /\ ~broken
  /\ set' = set \ {e} /\ next' = set'
  /\ UNCHANGED <<broken, closing>>

Destroy == set' = {} /\ next' = {} /\ broken' = FALSE /\ closing' = FALSE

Next ==
  \/ \E e \in Elems : Add(e) \/ Expire(e)
  \/ Delete \/ Commit \/ Committed \/ Abort \/ Destroy

Spec == Init /\ [][Next]_vars
=============================================================================
