----------------------- MODULE ShardedMmapProperties -----------------------
(***************************************************************************)
(* What the sharded i_mmap must not get wrong, and its refinement of       *)
(* VmaSet.                                                                 *)
(***************************************************************************)
EXTENDS ShardedMmap

(* The VMAs vma_prepare has taken out and vma_complete will put back.      *)
Out == UNION {job[m].adj : m \in {n \in Mms : pc[n] = "complete"}}

(* The tree a VMA belongs in: its mm's shard from the moment the VMAs are  *)
(* moved, which is before the shards are published.                        *)
Sharded == shards \/ \E m \in Mms : pc[m] = "publish"
Home(v) == IF Sharded THEN ShardOf[MmOf[v]] ELSE 0

(* Every VMA an mm has mapped is in the one tree its unlink will look in,  *)
(* and nothing else is in any tree, whatever writers queued on the central *)
(* lock while the shards were installed.                                   *)
TreesExact ==
  \A i \in Trees : tree[i] = {v \in mapped \ Out : Home(v) = i}

(* A walk that was not cut short by a callback has seen every VMA of the   *)
(* mapping, none of them half adjusted, in one layout or the other.        *)
WalkSeesAll ==
  \A w \in Walkers : pc[w] = "unlock" /\ next[w] = NrShards + 1 =>
    seen[w] = mapped /\ Out = {}

(* mm_take_all_locks stops every change, every walk and the installation.  *)
AllLocksExclude ==
  \A l \in Lockers : pc[l] = "held" =>
    /\ \A m \in Mms : pc[m] \notin {"prepare", "complete", "publish"}
    /\ \A w \in Walkers : pc[w] \notin {"locked", "walk", "unlock"}

(* No path leaves an rwsem behind: not the trylock that fails halfway, nor *)
(* an unlock that looks at the published pointer when the lock was taken   *)
(* before it was published.                                                *)
LocksReturned ==
  \A p \in Procs : pc[p] = "idle" => \A i \in Trees : p \notin rd[i] \cup wr[i]

(* Truncation and reclaim skip a mapping that is not mapped: the count     *)
(* outlives the adjustments and the move, and no VMA is counted twice.     *)
MappingMapped == nrVmas > 0 \/ tree[0] # {}
MappedIsCounted ==
  /\ nrVmas = Cardinality(mapped)
  /\ MappingMapped <=> mapped # {}

(* One installer at a time, none once the shards are published; as long as *)
(* one is at work nobody else is elected, and a failed allocation does not *)
(* keep the mapping from ever being sharded.                               *)
Installers == {m \in Mms : pc[m] \in {"alloc", "install", "publish"}}
OneInstaller ==
  /\ Cardinality(Installers) <= 1
  /\ contention = -1 <=> shards \/ Installers # {}
  /\ ~(shards /\ Installers # {})

(* A walker sees the mapping of VmaSet.                                    *)
Linked == (UNION {tree[i] : i \in Trees}) \cup Out
View == [w \in Walkers |->
  IF pc[w] = "unlock" /\ next[w] = NrShards + 1 THEN {seen[w]} ELSE {}]

Set == INSTANCE VmaSet WITH linked <- Linked, view <- View

ImplementsVmaSet == Set!Spec

-----------------------------------------------------------------------------
(* p waits for an rwsem somebody has: only the blocking locks can wait.    *)
Waits(p) ==
  \/ p \in Mms /\ pc[p] \in {"install", "central"} /\ ~MayWrite(0)
  \/ p \in Mms /\ pc[p] = "shard" /\ ~MayWrite(ShardOf[p])
  \/ p \in Walkers /\ pc[p] = "central" /\ ~MayRead(0)
  \/ p \in Walkers /\ pc[p] = "shard" /\ ~MayRead(next[p])
  \/ p \in Lockers /\ pc[p] = "central" /\ ~MayWrite(0)
  \/ p \in Lockers /\ pc[p] = "shard" /\ ~MayWrite(next[p])

(* The orders in which central and shard locks are taken admit no          *)
(* deadlock: as long as an operation is under way, one of those under way  *)
(* waits for no rwsem ...                                                  *)
SomebodyGoesOn ==
  (\E p \in Procs : pc[p] # "idle") => \E p \in Procs : pc[p] # "idle" /\ ~Waits(p)

(* ... and who does not wait can take a step, though nobody begins another *)
(* operation.                                                              *)
NoDeadlock ==
  /\ \A m \in Mms : pc[m] # "idle" => (ENABLED WriterStep(m)) = ~Waits(m)
  /\ \A w \in Walkers : pc[w] # "idle" => (ENABLED WalkerStep(w)) = ~Waits(w)
  /\ \A l \in Lockers : pc[l] # "idle" => (ENABLED LockerStep(l)) = ~Waits(l)
  /\ SomebodyGoesOn

=============================================================================
