---------------------------- MODULE ShardedMmap ----------------------------
(***************************************************************************)
(* The file VMAs of one address_space: one interval tree under one rwsem   *)
(* (i_mmap, i_mmap_rwsem) until writers contend on it, then a tree and an  *)
(* rwsem per shard (patches-openEuler-26.09-20260827, 0004 to 0019, with   *)
(* i_mmap_opt=on).                                                         *)
(*                                                                         *)
(* Writers change the VMAs of their own mm and lock the tree the mm's VMAs *)
(* are in.  Walkers call back for every VMA of the mapping.  Lockers       *)
(* (mm_take_all_locks) stop both.  The fourth writer that finds the        *)
(* central lock taken allocates the shards, moves every VMA into them      *)
(* under the central lock and publishes them.                              *)
(*                                                                         *)
(* Tree 0 is the central one, trees 1 to NrShards the shards in their      *)
(* locking order; rwsem i protects tree i.  A definition marked "Faulty"   *)
(* is no part of the specification: it is the next definition with a slip. *)
(***************************************************************************)
EXTENDS Integers, FiniteSets

CONSTANTS
  Mms,        \* writers: an mm under its mmap_lock
  Walkers,    \* file rmap walks, uprobe registration, folio splits, ...
  Lockers,    \* callers of mm_take_all_locks
  Vmas,       \* file VMAs that map the address_space
  MmOf,       \* MmOf[v]: the mm of a VMA
  NrShards,   \* nr_domains * I_MMAP_SHARDS_PER_DOMAIN
  ShardOf,    \* ShardOf[m]: the shard i_mmap_shard_for_vma selects for an mm
  Eligible,   \* i_mmap_sharding_eligible for this address_space
  Threshold   \* I_MMAP_SHARD_CONTENTION_THRESHOLD

Procs  == Mms \cup Walkers \cup Lockers
Shards == 1..NrShards
Trees  == 0..NrShards

ASSUME ShardedMmapAssumption ==
  /\ NrShards \in Nat \ {0}
  /\ IsFiniteSet(Vmas) /\ MmOf \in [Vmas -> Mms] /\ ShardOf \in [Mms -> Shards]
  /\ Eligible \in BOOLEAN /\ Threshold \in Nat \ {0}
  /\ Mms \cap Walkers = {} /\ Mms \cap Lockers = {} /\ Walkers \cap Lockers = {}

VARIABLES
  (* struct address_space *)
  shards,      \* whether i_mmap_shards is published
  tree,        \* tree[i]: the VMAs in an interval tree
  nrVmas,      \* i_mmap_nr_vmas
  contention,  \* i_mmap_lock_contention, -1 once an installer is elected
  rd, wr,      \* rd[i], wr[i]: who holds rwsem i for reading and for writing
  (* The mms *)
  mapped,      \* the VMAs of the mms' own trees, as far as they map this file
  job,         \* job[m]: what m is changing
  (* Control *)
  pc,
  root,        \* root[m]: the tree m's write lock protects (lock->root)
  local,       \* local[w]: whether w's pointer to the shards is not NULL
  next,        \* next[p]: the tree to lock or to walk next
  seen         \* seen[w]: the VMAs a walk has called back for

space == <<shards, tree, nrVmas, contention>>
locks == <<rd, wr>>
ctl   == <<root, local, next, seen>>
vars  == <<space, locks, mapped, job, pc, ctl>>

(* One critical section of a writer: VMAs inserted, VMAs taken out and put *)
(* back with new bounds, VMAs removed.                                     *)
Jobs == [ins : SUBSET Vmas, adj : SUBSET Vmas, del : SUBSET Vmas]
NoJob == [ins |-> {}, adj |-> {}, del |-> {}]

MmStates     == {"idle", "load", "try", "contend", "alloc", "install", "publish",
                 "central", "shard", "prepare", "complete"}
WalkStates   == {"idle", "load", "central", "shard", "tryload", "trycentral",
                 "tryshard", "locked", "walk", "unlock"}
LockerStates == {"idle", "central", "load", "shard", "held"}

TypeOK ==
  /\ shards \in BOOLEAN
  /\ tree \in [Trees -> SUBSET Vmas]
  /\ nrVmas \in Int
  /\ contention \in Int /\ contention >= -1 /\ contention < Threshold
  /\ rd \in [Trees -> SUBSET Procs] /\ wr \in [Trees -> SUBSET Procs]
  /\ mapped \in SUBSET Vmas
  /\ job \in [Mms -> Jobs]
  /\ pc \in [Procs -> MmStates \cup WalkStates \cup LockerStates]
  /\ \A m \in Mms : pc[m] \in MmStates
  /\ \A w \in Walkers : pc[w] \in WalkStates
  /\ \A l \in Lockers : pc[l] \in LockerStates
  /\ root \in [Mms -> Trees]
  /\ local \in [Walkers -> BOOLEAN]
  /\ next \in [Procs -> 0..NrShards + 1]
  /\ seen \in [Walkers -> SUBSET Vmas]

Init ==
  /\ shards = FALSE
  /\ tree = [i \in Trees |-> {}]
  /\ nrVmas = 0
  /\ contention = 0
  /\ rd = [i \in Trees |-> {}] /\ wr = [i \in Trees |-> {}]
  /\ mapped = {}
  /\ job = [m \in Mms |-> NoJob]
  /\ pc = [p \in Procs |-> "idle"]
  /\ root = [m \in Mms |-> 0]
  /\ local = [w \in Walkers |-> FALSE]
  /\ next = [p \in Procs |-> 1]
  /\ seen = [w \in Walkers |-> {}]

-----------------------------------------------------------------------------
(* rwsems *)

MayRead(i)  == wr[i] = {}
MayWrite(i) == wr[i] = {} /\ rd[i] = {}

LockRead(p, i)    == MayRead(i) /\ rd' = [rd EXCEPT ![i] = @ \cup {p}] /\ UNCHANGED wr
LockWrite(p, i)   == MayWrite(i) /\ wr' = [wr EXCEPT ![i] = {p}] /\ UNCHANGED rd
UnlockRead(p, is)  == rd' = [i \in Trees |-> rd[i] \ (IF i \in is THEN {p} ELSE {})] /\ UNCHANGED wr
UnlockWrite(p, is) == wr' = [i \in Trees |-> wr[i] \ (IF i \in is THEN {p} ELSE {})] /\ UNCHANGED rd

Goto(p, state) == pc' = [pc EXCEPT ![p] = state]

-----------------------------------------------------------------------------
(* Writers *)

(* What an mm may do in one critical section: link VMAs (a fork batch is   *)
(* several), unlink VMAs (a batch at exit), adjust one or two and insert   *)
(* another (split) or remove up to two (merge), or only keep the rmap      *)
(* locks (mremap).                                                         *)
Possible(m, j) ==
  LET own == {v \in Vmas : MmOf[v] = m} IN
  /\ j.ins \subseteq own \ mapped
  /\ j.adj \subseteq own \cap mapped /\ j.del \subseteq own \cap mapped
  /\ j.adj \cap j.del = {}
  /\ j.ins = {} \/ j.del = {}
  /\ Cardinality(j.adj) <= 2
  /\ j.adj # {} => Cardinality(j.ins) <= 1 /\ Cardinality(j.del) <= 2

Begin(m) ==
  /\ pc[m] = "idle"
  /\ \E j \in Jobs : Possible(m, j) /\ job' = [job EXCEPT ![m] = j]
  /\ Goto(m, "load")
  /\ UNCHANGED <<space, locks, mapped, ctl>>

(* i_mmap_lock_write_vma: the lockless look at the published pointer.      *)
WriteLoad(m) ==
  /\ pc[m] = "load"
  /\ Goto(m, IF shards THEN "shard" ELSE "try")
  /\ UNCHANGED <<space, locks, mapped, job, ctl>>

(* m has the write lock of a tree and goes on with its change. *)
LockTree(m, i) ==
  /\ LockWrite(m, i)
  /\ root' = [root EXCEPT ![m] = i]
  /\ Goto(m, "prepare")

(* The trylock of the central rwsem; a writer that gets it looks again.    *)
WriteTry(m) ==
  /\ pc[m] = "try"
  /\ IF ~MayWrite(0) THEN Goto(m, "contend") /\ UNCHANGED <<locks, root>>
     ELSE IF shards THEN Goto(m, "shard") /\ UNCHANGED <<locks, root>>
     ELSE LockTree(m, 0)
  /\ UNCHANGED <<space, mapped, job, local, next, seen>>

(* i_mmap_claim_shard_install: the count of an election. *)
Claimed == IF contention + 1 >= Threshold THEN -1 ELSE contention + 1

(* A writer that found the lock taken either becomes the installer or      *)
(* waits for the lock.                                                     *)
Contend(m) ==
  /\ pc[m] = "contend"
  /\ IF Eligible /\ contention >= 0
     THEN /\ contention' = Claimed
          /\ Goto(m, IF contention + 1 >= Threshold THEN "alloc" ELSE "central")
     ELSE Goto(m, "central") /\ UNCHANGED contention
  /\ UNCHANGED <<shards, tree, nrVmas, locks, mapped, job, ctl>>

(* i_mmap_install_shards: allocation fails or succeeds, *)
AllocFails(m) ==
  /\ pc[m] = "alloc"
  /\ contention' = 0
  /\ Goto(m, "load")
  /\ UNCHANGED <<shards, tree, nrVmas, locks, mapped, job, ctl>>

Alloc(m) ==
  /\ pc[m] = "alloc"
  /\ Goto(m, "install")
  /\ UNCHANGED <<space, locks, mapped, job, ctl>>

(* ... every VMA is moved under the central lock (i_mmap_shards_install_   *)
(* locked; another installer would have been found by its published        *)
(* pointer), *)
Install(m) ==
  /\ pc[m] = "install"
  /\ LockWrite(m, 0)
  /\ IF shards THEN UNCHANGED tree
     ELSE tree' = [i \in Trees |-> IF i = 0 THEN {}
                     ELSE tree[i] \cup {v \in tree[0] : ShardOf[MmOf[v]] = i}]
  /\ Goto(m, "publish")
  /\ UNCHANGED <<shards, nrVmas, contention, mapped, job, ctl>>

(* ... and the shards are published before the lock is dropped.            *)
Publish(m) ==
  /\ pc[m] = "publish"
  /\ shards' = TRUE
  /\ UnlockWrite(m, {0})
  /\ Goto(m, "load")
  /\ UNCHANGED <<tree, nrVmas, contention, mapped, job, ctl>>

(* Faulty: the waiter does not look again when it gets the lock. *)
WriteCentralOnce(m) ==
  /\ pc[m] = "central"
  /\ LockTree(m, 0)
  /\ UNCHANGED <<space, mapped, job, local, next, seen>>

(* The blocking lock of the central rwsem, and the second look.            *)
WriteCentral(m) ==
  /\ pc[m] = "central"
  /\ IF shards THEN MayWrite(0) /\ Goto(m, "shard") /\ UNCHANGED <<locks, root>>
     ELSE LockTree(m, 0)
  /\ UNCHANGED <<space, mapped, job, local, next, seen>>

WriteShard(m) ==
  /\ pc[m] = "shard"
  /\ LockTree(m, ShardOf[m])
  /\ UNCHANGED <<space, mapped, job, local, next, seen>>

(* vma_prepare, or the insertions of vma_link_file and of a fork batch:    *)
(* insert what is new, take out what is adjusted.                          *)
Prepare(m) ==
  LET j == job[m] IN
  /\ pc[m] = "prepare"
  /\ tree' = [tree EXCEPT ![root[m]] = (@ \cup j.ins) \ j.adj]
  /\ nrVmas' = nrVmas + Cardinality(j.ins)
  /\ mapped' = mapped \cup j.ins
  /\ Goto(m, "complete")
  /\ UNCHANGED <<shards, contention, locks, job, ctl>>

(* vma_complete, or the removals of unlink_file_vma and its batch: put     *)
(* back what was adjusted, remove what is gone, unlock.                    *)
Complete(m) ==
  LET j == job[m] IN
  /\ pc[m] = "complete"
  /\ tree' = [tree EXCEPT ![root[m]] = (@ \cup j.adj) \ j.del]
  /\ nrVmas' = nrVmas - Cardinality(j.del)
  /\ mapped' = mapped \ j.del
  /\ job' = [job EXCEPT ![m] = NoJob]
  /\ UnlockWrite(m, {root[m]})
  /\ Goto(m, "idle")
  /\ UNCHANGED <<shards, contention, ctl>>

-----------------------------------------------------------------------------
(* Walkers: i_mmap_read_walk, blocking or try, and i_mmap_lock_read_all    *)
(* with the caller-locked walk                                             *)

WalkBegin(w) ==
  /\ pc[w] = "idle"
  /\ Goto(w, "load") \/ Goto(w, "tryload")
  /\ UNCHANGED <<space, locks, mapped, job, ctl>>

(* The lockless look at the published pointer. *)
WalkLoad(w) ==
  /\ pc[w] \in {"load", "tryload"}
  /\ local' = [local EXCEPT ![w] = shards]
  /\ next' = [next EXCEPT ![w] = 1]
  /\ Goto(w, CASE pc[w] = "load"    -> IF shards THEN "shard" ELSE "central"
               [] pc[w] = "tryload" -> IF shards THEN "tryshard" ELSE "trycentral")
  /\ UNCHANGED <<space, locks, mapped, job, root, seen>>

(* Faulty: the published pointer is not looked at again. *)
WalkCentralOnce(w) ==
  /\ pc[w] \in {"central", "trycentral"}
  /\ LockRead(w, 0)
  /\ Goto(w, "locked")
  /\ UNCHANGED <<space, mapped, job, ctl>>

(* The central lock, and the second look. *)
WalkCentral(w) ==
  /\ pc[w] \in {"central", "trycentral"}
  /\ MayRead(0)
  /\ local' = [local EXCEPT ![w] = shards]
  /\ IF shards
     THEN Goto(w, IF pc[w] = "central" THEN "shard" ELSE "tryshard") /\ UNCHANGED locks
     ELSE Goto(w, "locked") /\ LockRead(w, 0)
  /\ UNCHANGED <<space, mapped, job, root, next, seen>>

(* i_mmap_lock_shards_read: the shards are locked in order. *)
WalkShard(w) ==
  /\ pc[w] \in {"shard", "tryshard"}
  /\ LockRead(w, next[w])
  /\ next' = [next EXCEPT ![w] = @ + 1]
  /\ IF next[w] = NrShards THEN Goto(w, "locked") ELSE UNCHANGED pc
  /\ UNCHANGED <<space, mapped, job, root, local, seen>>

(* Faulty: the last shard that was locked is not unlocked. *)
TryFailsKeepsOne(w) ==
  /\ \/ pc[w] = "trycentral" /\ ~MayRead(0)
     \/ pc[w] = "tryshard" /\ ~MayRead(next[w])
  /\ UnlockRead(w, 1..next[w] - 2)
  /\ Goto(w, "idle")
  /\ UNCHANGED <<space, mapped, job, ctl>>

(* -EAGAIN: the shards locked so far are unlocked. *)
TryFails(w) ==
  /\ \/ pc[w] = "trycentral" /\ ~MayRead(0)
     \/ pc[w] = "tryshard" /\ ~MayRead(next[w])
  /\ UnlockRead(w, 1..next[w] - 1)
  /\ Goto(w, "idle")
  /\ UNCHANGED <<space, mapped, job, ctl>>

(* The walk goes by the local pointer in i_mmap_read_walk, and by another  *)
(* look at the published one in i_mmap_walk_locked.                        *)
WalkStart(w) ==
  /\ pc[w] = "locked"
  /\ \E sharded \in {local[w], shards} :
       next' = [next EXCEPT ![w] = IF sharded THEN 1 ELSE 0]
  /\ Goto(w, "walk")
  /\ UNCHANGED <<space, locks, mapped, job, root, local, seen>>

(* The callbacks for one tree; a callback may end the walk. *)
WalkTree(w) ==
  LET n == IF next[w] = 0 THEN NrShards + 1 ELSE next[w] + 1 IN
  /\ pc[w] = "walk"
  /\ seen' = [seen EXCEPT ![w] = @ \cup tree[next[w]]]
  /\ next' = [next EXCEPT ![w] = n]
  /\ IF n > NrShards THEN Goto(w, "unlock") ELSE Goto(w, "unlock") \/ UNCHANGED pc
  /\ UNCHANGED <<space, locks, mapped, job, root, local>>

WalkUnlock(w) ==
  /\ pc[w] = "unlock"
  /\ UnlockRead(w, IF local[w] THEN Shards ELSE {0})
  /\ seen' = [seen EXCEPT ![w] = {}]
  /\ Goto(w, "idle")
  /\ UNCHANGED <<space, mapped, job, root, local, next>>

-----------------------------------------------------------------------------
(* mm_take_all_locks: vm_lock_mapping and vm_unlock_mapping *)

LockAllBegin(l) ==
  /\ pc[l] = "idle"
  /\ \A k \in Lockers : pc[k] = "idle"     \* mm_all_locks_mutex
  /\ Goto(l, "central")
  /\ UNCHANGED <<space, locks, mapped, job, ctl>>

(* Faulty: the central lock is taken for all there is. *)
LockAllCentralOnly(l) ==
  /\ pc[l] = "central"
  /\ LockWrite(l, 0)
  /\ next' = [next EXCEPT ![l] = 1]
  /\ Goto(l, "held")
  /\ UNCHANGED <<space, mapped, job, root, local, seen>>

LockAllCentral(l) ==
  /\ pc[l] = "central"
  /\ LockWrite(l, 0)
  /\ next' = [next EXCEPT ![l] = 1]
  /\ Goto(l, IF shards THEN "shard" ELSE "held")
  /\ UNCHANGED <<space, mapped, job, root, local, seen>>

LockAllShard(l) ==
  /\ pc[l] = "shard"
  /\ LockWrite(l, next[l])
  /\ next' = [next EXCEPT ![l] = @ + 1]
  /\ IF next[l] = NrShards THEN Goto(l, "held") ELSE UNCHANGED pc
  /\ UNCHANGED <<space, mapped, job, root, local, seen>>

UnlockAll(l) ==
  /\ pc[l] = "held"
  /\ UnlockWrite(l, IF shards THEN Trees ELSE {0})
  /\ Goto(l, "idle")
  /\ UNCHANGED <<space, mapped, job, ctl>>

-----------------------------------------------------------------------------
WriterStep(m) ==
  \/ WriteLoad(m) \/ WriteTry(m) \/ Contend(m)
  \/ AllocFails(m) \/ Alloc(m) \/ Install(m) \/ Publish(m)
  \/ WriteCentral(m) \/ WriteShard(m)
  \/ Prepare(m) \/ Complete(m)

WalkerStep(w) ==
  \/ WalkLoad(w) \/ WalkCentral(w) \/ WalkShard(w) \/ TryFails(w)
  \/ WalkStart(w) \/ WalkTree(w) \/ WalkUnlock(w)

LockerStep(l) == LockAllCentral(l) \/ LockAllShard(l) \/ UnlockAll(l)

Next ==
  \/ \E m \in Mms : Begin(m) \/ WriterStep(m)
  \/ \E w \in Walkers : WalkBegin(w) \/ WalkerStep(w)
  \/ \E l \in Lockers : LockAllBegin(l) \/ LockerStep(l)

Spec == Init /\ [][Next]_vars

=============================================================================
