------------------------------- MODULE VmaSet -------------------------------
(***************************************************************************)
(* What i_mmap promises, without trees, shards or rwsems: a set of VMAs    *)
(* that each mm changes for itself, and walkers that see all of it while   *)
(* it does not change.                                                     *)
(***************************************************************************)
CONSTANTS Mms, Walkers, Vmas, MmOf

VARIABLES
  linked,   \* the VMAs of the mapping
  view      \* view[w]: the set a walker sees, in a set; {} if it does not look

Init == linked = {} /\ view = [w \in Walkers |-> {}]

(* One mm links or unlinks some of its VMAs; no walker looks on.           *)
Change(m) ==
  /\ \A w \in Walkers : view[w] = {}
  /\ linked' \in SUBSET Vmas
  /\ \A v \in Vmas : MmOf[v] # m => (v \in linked' <=> v \in linked)
  /\ UNCHANGED view

Look(w) ==
  /\ view[w] = {}
  /\ view' = [view EXCEPT ![w] = {linked}]
  /\ UNCHANGED linked

Leave(w) ==
  /\ view[w] # {}
  /\ view' = [view EXCEPT ![w] = {}]
  /\ UNCHANGED linked

Next ==
  \/ \E m \in Mms : Change(m)
  \/ \E w \in Walkers : Look(w) \/ Leave(w)

Spec == Init /\ [][Next]_<<linked, view>>
=============================================================================
