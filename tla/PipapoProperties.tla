-------------------------- MODULE PipapoProperties --------------------------
(***************************************************************************)
(* What on-demand clones must not get wrong, and the refinement of TxSet.  *)
(***************************************************************************)
EXTENDS Pipapo

(* The objects something still refers to, by a path that will be used.     *)
InTable(t) == IF t = NoTable THEN {} ELSE {t} \cup elems[t]
Doomed     == UNION {doomed[i].objs : i \in DOMAIN doomed}

(* Nothing is freed under a packet: the match a lookup goes through and    *)
(* its elements stay until the lookup ends, and so do the tables of the    *)
(* set and all they map to.                                                *)
NothingFreedInUse ==
  /\ InTable(match) \cup InTable(clone) \subseteq used
  /\ \A r \in Readers : InTable(reader[r]) \subseteq used

(* Commit, abort, garbage collection and destruction divide the objects    *)
(* between them: whatever is to be freed will be freed once and is in no   *)
(* table of the set, and whatever is allocated will be found by one of     *)
(* them.                                                                   *)
FreedOnce ==
  LET new  == IF phase = "prepare" THEN Recorded("newelem") ELSE {}
      kept == InTable(match) \cup InTable(clone) \cup new IN
  /\ \A i, j \in DOMAIN doomed : i # j => doomed[i].objs \cap doomed[j].objs = {}
  /\ \A i, j \in DOMAIN trans : i # j => trans[i] # trans[j]
  /\ Doomed \cap kept = {}
  /\ used = Doomed \cup kept

(* A clone that outlives its batch is an unmodified copy: no half-done     *)
(* insertion of one transaction is in the next one.                        *)
CloneIsPristine ==
  phase \in {"prepare", "deleted"} /\ trans = <<>> /\ ~failed /\ clone # NoTable =>
    state[clone] = "NEW" /\ elems[clone] = elems[match]

(* The set of TxSet. *)
Alive(t, gen) ==
  IF t = NoTable THEN {} ELSE {e \in elems[t] \ expired : gen \in active[e]}
Working == IF clone # NoTable THEN clone ELSE match

Set == INSTANCE TxSet WITH
  set <- IF phase \in {"none", "deleted"} THEN {} ELSE Alive(match, "cur"),
  next <- IF phase \in {"none", "deleted"} THEN {}
          ELSE Alive(Working, IF phase = "flipped" THEN "cur" ELSE "next"),
  broken <- failed,
  closing <- phase = "flipped"

(* Every batch is all or nothing, whatever fails in it.                    *)
ImplementsTxSet == Set!Spec

=============================================================================
