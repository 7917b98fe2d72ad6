------------------------- MODULE ShardedMmapProofs -------------------------
(***************************************************************************)
(* Theorems about ShardedMmap, for any mms, walkers, lockers, VMAs and     *)
(* number of shards.                                                       *)
(***************************************************************************)
EXTENDS ShardedMmapProperties, FiniteSetTheorems, TLAPS

(* Who has the rwsem of tree i for writing, and who for reading. *)
WriteHeld(p, i) ==
  \/ p \in Mms /\ pc[p] \in {"prepare", "complete"} /\ i = root[p]
  \/ p \in Mms /\ pc[p] = "publish" /\ i = 0
  \/ p \in Lockers /\ pc[p] = "shard" /\ i < next[p]
  \/ p \in Lockers /\ pc[p] = "held" /\ (i = 0 \/ shards)

ReadHeld(p, i) ==
  \/ p \in Walkers /\ pc[p] \in {"shard", "tryshard"} /\ i # 0 /\ i < next[p]
  \/ p \in Walkers /\ pc[p] \in {"locked", "walk", "unlock"} /\ (i = 0) = ~local[p]

(* The owners of the rwsems are those who must release them. *)
LocksExact ==
  \A i \in Trees, p \in Procs :
    (p \in wr[i] <=> WriteHeld(p, i)) /\ (p \in rd[i] <=> ReadHeld(p, i))

(* What an rwsem guarantees. *)
Exclusive ==
  \A i \in Trees :
    (\A p, q \in Procs : p \in wr[i] /\ q \in wr[i] => p = q)
    /\ (\A p, q \in Procs : ~(p \in wr[i] /\ q \in rd[i]))

(* Whoever is past its second look at the published pointer knows it.      *)
LayoutKnown ==
  /\ \A m \in Mms :
       /\ pc[m] = "shard" => shards
       /\ pc[m] \in {"prepare", "complete"} => root[m] = (IF shards THEN ShardOf[m] ELSE 0)
  /\ \A w \in Walkers :
       /\ pc[w] \in {"central", "trycentral"} => next[w] = 1
       /\ pc[w] \in {"shard", "tryshard"} => shards /\ local[w] /\ next[w] \in 1..NrShards
       /\ pc[w] \in {"locked", "walk", "unlock"} => local[w] = shards
       /\ pc[w] = "walk" => next[w] <= NrShards /\ (next[w] = 0) = ~shards
  /\ \A l \in Lockers : pc[l] = "shard" => shards /\ next[l] \in 1..NrShards

(* m has been elected and has not published yet. *)
Installing(m) == pc[m] \in {"alloc", "install", "publish"}

(* The counter is -1 as long as there is an installer, and for good once   *)
(* the shards are published.                                               *)
Elected ==
  /\ \A m, n \in Mms : Installing(m) /\ Installing(n) => m = n
  /\ contention = -1 <=> shards \/ \E m \in Mms : Installing(m)
  /\ shards => \A m \in Mms : ~Installing(m)

(* A job concerns VMAs of its own mm, and no other writer interferes.      *)
JobsApply ==
  \A m \in Mms, v \in Vmas :
    /\ pc[m] = "idle" => job[m] = NoJob
    /\ v \in job[m].ins \cup job[m].adj \cup job[m].del => MmOf[v] = m
    /\ v \in job[m].ins => (v \in mapped <=> pc[m] = "complete") /\ v \notin job[m].del
    /\ v \in job[m].adj \cup job[m].del => v \in mapped
    /\ ~(v \in job[m].adj /\ v \in job[m].del)

(* v is between vma_prepare and vma_complete. *)
TakenOut(v) == pc[MmOf[v]] = "complete" /\ v \in job[MmOf[v]].adj

(* A VMA is in the tree it belongs in, and in no other. *)
Placed ==
  \A i \in Trees, v \in Vmas :
    v \in tree[i] <=> v \in mapped /\ ~TakenOut(v) /\ i = Home(v)

(* i_mmap_nr_vmas *)
Counted == nrVmas = Cardinality(mapped)

(* What a walk has seen of a mapping that cannot change meanwhile.         *)
SeenSoFar ==
  \A w \in Walkers :
    /\ pc[w] \notin {"walk", "unlock"} => seen[w] = {}
    /\ pc[w] = "walk" =>
         \A v \in Vmas : v \in seen[w] <=> v \in mapped /\ ShardOf[MmOf[v]] < next[w]
    /\ pc[w] = "unlock" /\ next[w] = NrShards + 1 =>
         \A v \in Vmas : v \in seen[w] <=> v \in mapped

(* The inductive invariant: processes and locks, and the VMAs. *)
Control == TypeOK /\ LocksExact /\ Exclusive /\ LayoutKnown /\ Elected
IInv == Control /\ JobsApply /\ Placed /\ Counted /\ SeenSoFar

USE ShardedMmapAssumption

LEMMA Apart ==
  /\ \A m \in Mms : m \in Procs /\ m \notin Walkers /\ m \notin Lockers
  /\ \A w \in Walkers : w \in Procs /\ w \notin Mms /\ w \notin Lockers
  /\ \A l \in Lockers : l \in Procs /\ l \notin Mms /\ l \notin Walkers
  BY DEF Procs

(* The part of the type invariant about the program counters. *)
PcOK ==
  /\ pc \in [Procs -> MmStates \cup WalkStates \cup LockerStates]
  /\ \A m \in Mms : pc[m] \in MmStates
  /\ \A w \in Walkers : pc[w] \in WalkStates
  /\ \A l \in Lockers : pc[l] \in LockerStates

(* A step to a state of one process. *)
LEMMA Moved ==
  ASSUME TypeOK, NEW p \in Procs, NEW s, Goto(p, s),
         s \in MmStates \cup WalkStates \cup LockerStates,
         p \in Mms => s \in MmStates, p \in Walkers => s \in WalkStates,
         p \in Lockers => s \in LockerStates
  PROVE  PcOK' /\ pc'[p] = s /\ \A q \in Procs : q # p => pc'[q] = pc[q]
  BY Apart DEF Goto, TypeOK, PcOK

(* A step that concerns no walk. *)
LEMMA SeenKept ==
  ASSUME SeenSoFar, UNCHANGED <<mapped, seen, next>>, \A w \in Walkers : pc'[w] = pc[w]
  PROVE  SeenSoFar'
  BY DEF SeenSoFar

-----------------------------------------------------------------------------
(* Writers *)

(* A writer moves on without a lock. *)
LEMMA WriterMoves ==
  ASSUME IInv, NEW m \in Mms, NEW s \in {"try", "contend", "shard", "central"},
         pc[m] \in {"load", "try", "contend", "central"}, s = "shard" => shards,
         Goto(m, s), UNCHANGED <<space, locks, mapped, job, ctl>>
  PROVE  IInv'
<1>0. /\ PcOK'
      /\ pc'[m] = s /\ s \in MmStates /\ \A q \in Procs : q # m => pc'[q] = pc[q]
  BY Moved, Apart DEF IInv, Control, MmStates
<1>1. TypeOK'
  BY <1>0, Apart DEF IInv, Control, TypeOK, PcOK, space, locks, ctl
<1>2. LocksExact'
  BY <1>0, Apart DEF IInv, Control, LocksExact, WriteHeld, ReadHeld, space, locks, ctl
<1>3. Exclusive'
  BY DEF IInv, Control, Exclusive, locks
<1>4. LayoutKnown'
  BY <1>0, Apart DEF IInv, Control, LayoutKnown, space, ctl
<1>5. Elected'
  BY <1>0, Apart DEF IInv, Control, Elected, Installing, space
<1>6. JobsApply'
  BY <1>0, Apart DEF IInv, JobsApply
<1>7. Placed'
  BY <1>0, Apart DEF IInv, Placed, TakenOut, Home, Sharded, space
<1>8. Counted'
  BY DEF IInv, Counted, space
<1>9. SeenSoFar'
  BY <1>0, Apart, SeenKept DEF IInv, ctl
<1> QED
  BY <1>1, <1>2, <1>3, <1>4, <1>5, <1>6, <1>7, <1>8, <1>9 DEF IInv, Control

(* A writer gets the write lock of the tree its VMAs are in. *)
LEMMA WriterLocks ==
  ASSUME IInv, NEW m \in Mms, pc[m] \in {"try", "central", "shard"},
         LockTree(m, IF shards THEN ShardOf[m] ELSE 0),
         UNCHANGED <<space, mapped, job, local, next, seen>>
  PROVE  IInv'
<1> DEFINE i == IF shards THEN ShardOf[m] ELSE 0
<1>0. /\ PcOK'
      /\ pc'[m] = "prepare" /\ \A q \in Procs : q # m => pc'[q] = pc[q]
  BY Moved, Apart DEF IInv, Control, MmStates, LockTree
<1>r. i \in Trees /\ root' = [root EXCEPT ![m] = i] /\ MayWrite(i)
      /\ wr' = [wr EXCEPT ![i] = {m}] /\ UNCHANGED rd
  BY DEF LockTree, LockWrite, Trees, Shards, IInv, Control, TypeOK
<1> HIDE DEF i
<1>1. TypeOK'
  BY <1>0, <1>r, Apart DEF IInv, Control, TypeOK, PcOK, space, MmStates
<1>2. LocksExact'
  <2>1. \A k \in Trees : k # i => wr'[k] = wr[k]
    BY <1>r DEF IInv, Control, TypeOK
  <2>2. wr'[i] = {m} /\ wr[i] = {}
    BY <1>r DEF IInv, Control, TypeOK, MayWrite
  <2>3. root'[m] = i /\ \A n \in Mms : n # m => root'[n] = root[n]
    BY <1>r DEF IInv, Control, TypeOK
  <2> QED
    BY <1>0, <1>r, <2>1, <2>2, <2>3, Apart DEF IInv, Control, LocksExact, WriteHeld,
       ReadHeld, space
<1>3. Exclusive'
  BY <1>r DEF IInv, Control, TypeOK, Exclusive, MayWrite
<1>4. LayoutKnown'
  BY <1>0, <1>r, Apart DEF IInv, Control, TypeOK, LayoutKnown, space, i
<1>5. Elected'
  BY <1>0, Apart DEF IInv, Control, Elected, Installing, space
<1>6. JobsApply'
  BY <1>0, Apart DEF IInv, JobsApply
<1>7. Placed'
  BY <1>0, Apart DEF IInv, Placed, TakenOut, Home, Sharded, space
<1>8. Counted'
  BY DEF IInv, Counted, space
<1>9. SeenSoFar'
  BY <1>0, Apart, SeenKept DEF IInv
<1> QED
  BY <1>1, <1>2, <1>3, <1>4, <1>5, <1>6, <1>7, <1>8, <1>9 DEF IInv, Control

LEMMA BeginStep ==
  ASSUME IInv, NEW m \in Mms, Begin(m)
  PROVE  IInv'
<1>0. /\ PcOK'
      /\ pc[m] = "idle" /\ pc'[m] = "load" /\ \A q \in Procs : q # m => pc'[q] = pc[q]
  BY Moved, Apart DEF IInv, Control, MmStates, Begin
<1>j. PICK j \in Jobs : Possible(m, j) /\ job' = [job EXCEPT ![m] = j]
  BY DEF Begin
<1>u. UNCHANGED <<space, locks, mapped, ctl>>
  BY DEF Begin
<1>t. job' \in [Mms -> Jobs]
  BY <1>j DEF IInv, Control, TypeOK
<1>1. TypeOK'
  BY <1>0, <1>t, <1>u, Apart DEF IInv, Control, TypeOK, PcOK, space, locks, ctl
<1>2. LocksExact'
  BY <1>0, <1>u, Apart DEF IInv, Control, LocksExact, WriteHeld, ReadHeld, space, locks, ctl
<1>3. Exclusive'
  BY <1>u DEF IInv, Control, Exclusive, locks
<1>4. LayoutKnown'
  BY <1>0, <1>u, Apart DEF IInv, Control, LayoutKnown, space, ctl
<1>5. Elected'
  BY <1>0, <1>u, Apart DEF IInv, Control, Elected, Installing, space
<1>6. JobsApply'
<2>1. job'[m] = j /\ \A n \in Mms : n # m => job'[n] = job[n]
    BY <1>j DEF IInv, Control, TypeOK
  <2>2. /\ \A v \in j.ins : MmOf[v] = m /\ v \notin mapped
        /\ \A v \in j.adj \cup j.del : MmOf[v] = m /\ v \in mapped
        /\ j.ins \cap j.adj = {} /\ j.ins \cap j.del = {} /\ j.adj \cap j.del = {}
    BY <1>j DEF Possible, Jobs
  <2> QED
    BY <1>0, <1>u, <2>1, <2>2, Apart DEF IInv, JobsApply
<1>7. Placed'
  BY <1>0, <1>j, <1>u, Apart DEF IInv, Control, TypeOK, Placed, TakenOut, Home, Sharded,
     space
<1>8. Counted'
  BY <1>u DEF IInv, Counted, space
<1>9. SeenSoFar'
  BY <1>0, <1>u, Apart, SeenKept DEF IInv, ctl
<1> QED
  BY <1>1, <1>2, <1>3, <1>4, <1>5, <1>6, <1>7, <1>8, <1>9 DEF IInv, Control

LEMMA WriteLoadStep ==
  ASSUME IInv, NEW m \in Mms, WriteLoad(m)
  PROVE  IInv'
  BY WriterMoves DEF WriteLoad

LEMMA WriteTryStep ==
  ASSUME IInv, NEW m \in Mms, WriteTry(m)
  PROVE  IInv'
<1>1. CASE MayWrite(0) /\ ~shards
  BY <1>1, WriterLocks DEF WriteTry
<1>2. CASE ~MayWrite(0) \/ shards
  BY <1>2, WriterMoves DEF WriteTry, ctl
<1> QED
  BY <1>1, <1>2

LEMMA WriteCentralStep ==
  ASSUME IInv, NEW m \in Mms, WriteCentral(m)
  PROVE  IInv'
<1>1. CASE ~shards
  BY <1>1, WriterLocks DEF WriteCentral
<1>2. CASE shards
  BY <1>2, WriterMoves DEF WriteCentral, ctl
<1> QED
  BY <1>1, <1>2

LEMMA WriteShardStep ==
  ASSUME IInv, NEW m \in Mms, WriteShard(m)
  PROVE  IInv'
<1>1. shards
  BY DEF IInv, Control, LayoutKnown, WriteShard
<1> QED
  BY <1>1, WriterLocks DEF WriteShard

LEMMA ContendStep ==
  ASSUME IInv, NEW m \in Mms, Contend(m)
  PROVE  IInv'
<1>1. CASE ~(Eligible /\ contention >= 0)
  BY <1>1, WriterMoves DEF Contend, space
<1>2. CASE Eligible /\ contention >= 0
  <2> DEFINE s == IF contention + 1 >= Threshold THEN "alloc" ELSE "central"
  <2>0. /\ PcOK'
        /\ pc[m] = "contend" /\ pc'[m] = s /\ \A q \in Procs : q # m => pc'[q] = pc[q]
    BY <1>2, Moved, Apart DEF IInv, Control, MmStates, Contend
  <2>c. contention' \in Int /\ contention' >= -1 /\ contention' < Threshold
        /\ (contention' = -1 <=> s = "alloc") /\ s \in {"alloc", "central"}
    BY <1>2 DEF Contend, Claimed, IInv, Control, TypeOK
  <2>u. UNCHANGED <<shards, tree, nrVmas, locks, mapped, job, ctl>>
    BY DEF Contend
  <2> HIDE DEF s
  <2>1. TypeOK'
    BY <2>0, <2>c, <2>u, Apart DEF IInv, Control, TypeOK, PcOK, locks, ctl, MmStates
  <2>2. LocksExact'
    BY <2>0, <2>c, <2>u, Apart DEF IInv, Control, LocksExact, WriteHeld, ReadHeld, locks,
       ctl
  <2>3. Exclusive'
    BY <2>u DEF IInv, Control, Exclusive, locks
  <2>4. LayoutKnown'
    BY <2>0, <2>c, <2>u, Apart DEF IInv, Control, LayoutKnown, ctl
  <2>5. Elected'
    <3>1. ~shards /\ \A n \in Mms : ~Installing(n)
      BY <1>2 DEF IInv, Control, Elected, TypeOK
    <3>2. (\E n \in Mms : Installing(n))' <=> s = "alloc"
      BY <2>0, <2>c, <3>1, Apart DEF Installing
    <3>3. \A n \in Mms : Installing(n)' => n = m
      BY <2>0, <3>1, Apart DEF Installing
    <3> QED
      BY <2>c, <2>u, <3>1, <3>2, <3>3 DEF Elected
  <2>6. JobsApply'
    BY <2>0, <2>c, <2>u, Apart DEF IInv, JobsApply
  <2>7. Placed'
    BY <2>0, <2>c, <2>u, Apart DEF IInv, Placed, TakenOut, Home, Sharded
  <2>8. Counted'
    BY <2>u DEF IInv, Counted
  <2>9. SeenSoFar'
    BY <2>0, <2>u, Apart, SeenKept DEF IInv, ctl
  <2> QED
    BY <2>1, <2>2, <2>3, <2>4, <2>5, <2>6, <2>7, <2>8, <2>9 DEF IInv, Control
<1> QED
  BY <1>1, <1>2

LEMMA AllocFailsStep ==
  ASSUME IInv, NEW m \in Mms, AllocFails(m)
  PROVE  IInv'
<1>1. TypeOK'
  BY DEF AllocFails, TypeOK, Procs, Trees, Shards, MmStates, WalkStates, LockerStates,
     Goto, LockRead, LockWrite, UnlockRead, UnlockWrite, MayRead, MayWrite, LockTree,
     Claimed, space, locks, ctl, TypeOK, Control, IInv
<1>2. LocksExact'
  BY DEF AllocFails, LocksExact, WriteHeld, ReadHeld, Procs, Trees, Shards, Goto,
     LockRead, LockWrite, UnlockRead, UnlockWrite, MayRead, MayWrite, space, locks, ctl,
     TypeOK, Control, IInv
<1>3. Exclusive'
  BY DEF AllocFails, Exclusive, LocksExact, WriteHeld, ReadHeld, Procs, Trees, Shards,
     LockRead, LockWrite, UnlockRead, UnlockWrite, MayRead, MayWrite, locks, TypeOK,
     Control, IInv
<1>4. LayoutKnown'
  BY DEF AllocFails, LayoutKnown, Procs, Shards, Goto, space, ctl, TypeOK, Control, IInv
<1>5. Elected'
  BY DEF AllocFails, Elected, Installing, Procs, Goto, space, TypeOK, Control, IInv
<1>6. JobsApply'
  BY DEF AllocFails, JobsApply, Procs, Goto, TypeOK, Control, IInv
<1>7. Placed'
  BY DEF AllocFails, Placed, TakenOut, Home, Sharded, Procs, Trees, Shards, Goto, space,
     TypeOK, Control, IInv
<1>8. Counted'
  BY DEF AllocFails, Counted, space, Control, IInv
<1>9. SeenSoFar'
  BY DEF AllocFails, SeenSoFar, Procs, Goto, ctl, TypeOK, Control, IInv
<1> QED
  BY <1>1, <1>2, <1>3, <1>4, <1>5, <1>6, <1>7, <1>8, <1>9 DEF IInv, Control

LEMMA AllocStep ==
  ASSUME IInv, NEW m \in Mms, Alloc(m)
  PROVE  IInv'
<1>1. TypeOK'
  BY DEF Alloc, TypeOK, Procs, Trees, Shards, MmStates, WalkStates, LockerStates, Goto,
     LockRead, LockWrite, UnlockRead, UnlockWrite, MayRead, MayWrite, LockTree, Claimed,
     space, locks, ctl, TypeOK, Control, IInv
<1>2. LocksExact'
  BY DEF Alloc, LocksExact, WriteHeld, ReadHeld, Procs, Trees, Shards, Goto, LockRead,
     LockWrite, UnlockRead, UnlockWrite, MayRead, MayWrite, space, locks, ctl, TypeOK,
     Control, IInv
<1>3. Exclusive'
  BY DEF Alloc, Exclusive, LocksExact, WriteHeld, ReadHeld, Procs, Trees, Shards,
     LockRead, LockWrite, UnlockRead, UnlockWrite, MayRead, MayWrite, locks, TypeOK,
     Control, IInv
<1>4. LayoutKnown'
  BY DEF Alloc, LayoutKnown, Procs, Shards, Goto, space, ctl, TypeOK, Control, IInv
<1>5. Elected'
  BY DEF Alloc, Elected, Installing, Procs, Goto, space, TypeOK, Control, IInv
<1>6. JobsApply'
  BY DEF Alloc, JobsApply, Procs, Goto, TypeOK, Control, IInv
<1>7. Placed'
  BY DEF Alloc, Placed, TakenOut, Home, Sharded, Procs, Trees, Shards, Goto, space,
     TypeOK, Control, IInv
<1>8. Counted'
  BY DEF Alloc, Counted, space, Control, IInv
<1>9. SeenSoFar'
  BY DEF Alloc, SeenSoFar, Procs, Goto, ctl, TypeOK, Control, IInv
<1> QED
  BY <1>1, <1>2, <1>3, <1>4, <1>5, <1>6, <1>7, <1>8, <1>9 DEF IInv, Control

LEMMA InstallStep ==
  ASSUME IInv, NEW m \in Mms, Install(m)
  PROVE  IInv'
<1>1. TypeOK'
  BY DEF Install, TypeOK, Procs, Trees, Shards, MmStates, WalkStates, LockerStates, Goto,
     LockRead, LockWrite, UnlockRead, UnlockWrite, MayRead, MayWrite, LockTree, Claimed,
     space, locks, ctl, TypeOK, Control, IInv
<1>2. LocksExact'
  BY DEF Install, LocksExact, WriteHeld, ReadHeld, Procs, Trees, Shards, Goto, LockRead,
     LockWrite, UnlockRead, UnlockWrite, MayRead, MayWrite, space, locks, ctl, TypeOK,
     Control, IInv
<1>3. Exclusive'
  BY DEF Install, Exclusive, LocksExact, WriteHeld, ReadHeld, Procs, Trees, Shards,
     LockRead, LockWrite, UnlockRead, UnlockWrite, MayRead, MayWrite, locks, TypeOK,
     Control, IInv
<1>4. LayoutKnown'
  BY DEF Install, LayoutKnown, Procs, Shards, Goto, space, ctl, TypeOK, Control, IInv
<1>5. Elected'
  BY DEF Install, Elected, Installing, Procs, Goto, space, TypeOK, Control, IInv
<1>6. JobsApply'
  BY DEF Install, JobsApply, Procs, Goto, TypeOK, Control, IInv
<1>7. Placed'
  BY DEF Install, Placed, TakenOut, Home, Sharded, Procs, Trees, Shards, Goto, space,
     TypeOK, Control, IInv
<1>8. Counted'
  BY DEF Install, Counted, space, Control, IInv
<1>9. SeenSoFar'
  BY DEF Install, SeenSoFar, Procs, Goto, ctl, TypeOK, Control, IInv
<1> QED
  BY <1>1, <1>2, <1>3, <1>4, <1>5, <1>6, <1>7, <1>8, <1>9 DEF IInv, Control

LEMMA PublishStep ==
  ASSUME IInv, NEW m \in Mms, Publish(m)
  PROVE  IInv'
<1>0. /\ PcOK'
      /\ pc[m] = "publish" /\ pc'[m] = "load" /\ \A q \in Procs : q # m => pc'[q] = pc[q]
  BY Moved, Apart DEF IInv, Control, MmStates, Publish
<1>u. /\ shards' = TRUE /\ UnlockWrite(m, {0})
      /\ UNCHANGED <<tree, nrVmas, contention, mapped, job, ctl>>
  BY DEF Publish
<1>1. TypeOK'
  BY <1>0, <1>u, Apart DEF IInv, Control, TypeOK, PcOK, UnlockWrite, ctl
<1>2. LocksExact'
<2>1. \A p \in Procs : p \in wr'[0] <=> p \in wr[0] /\ p # m
    BY <1>u DEF IInv, Control, TypeOK, Trees, UnlockWrite
  <2>2. \A i \in Trees : i # 0 => wr'[i] = wr[i]
    BY <1>u DEF IInv, Control, TypeOK, UnlockWrite
  <2>3. m \in wr[0] /\ \A p \in Procs : p # m => p \notin wr[0]
    BY <1>0, Apart DEF IInv, Control, LocksExact, WriteHeld, Exclusive, Trees
  <2>4. \A l \in Lockers : pc[l] # "held" /\ pc[l] # "shard"
    BY <2>3, Apart DEF IInv, Control, LocksExact, WriteHeld, LayoutKnown, Trees
  <2> QED
    BY <1>0, <1>u, <2>1, <2>2, <2>3, <2>4, Apart DEF IInv, Control, LocksExact,
       WriteHeld, ReadHeld, ctl, UnlockWrite
<1>3. Exclusive'
  BY <1>u DEF IInv, Control, Exclusive, UnlockWrite, TypeOK
<1>4. LayoutKnown'
<2>1. \A q \in Procs : ~(q # m /\ WriteHeld(q, 0)) /\ ~ReadHeld(q, 0)
    BY <1>0, Apart DEF IInv, Control, LocksExact, Exclusive, WriteHeld, Trees
  <2>2. ~shards
    BY <1>0 DEF IInv, Control, Elected, Installing
  <2>3. \A n \in Mms : pc'[n] \notin {"prepare", "complete"}
    BY <1>0, <2>1, <2>2, Apart DEF IInv, Control, LayoutKnown, WriteHeld
  <2>4. \A w \in Walkers : pc'[w] \notin {"locked", "walk", "unlock"}
    BY <1>0, <2>1, <2>2, Apart DEF IInv, Control, LayoutKnown, ReadHeld
  <2>5. \A w \in Walkers : pc'[w] \notin {"shard", "tryshard"}
    BY <1>0, <2>2, Apart DEF IInv, Control, LayoutKnown
  <2>6. \A l \in Lockers : pc'[l] # "shard"
    BY <1>0, <2>2, Apart DEF IInv, Control, LayoutKnown
  <2>7. \A w \in Walkers : pc'[w] \in {"central", "trycentral"} => next'[w] = 1
    BY <1>0, <1>u, Apart DEF IInv, Control, LayoutKnown, ctl
  <2> QED
    BY <1>u, <2>3, <2>4, <2>5, <2>6, <2>7 DEF LayoutKnown
<1>5. Elected'
<2>1. \A n \in Mms : ~Installing(n)'
    BY <1>0, Apart DEF IInv, Control, Elected, Installing
  <2>2. contention = -1 /\ shards'
    BY <1>0, <1>u DEF IInv, Control, Elected, Installing
  <2> QED
    BY <1>u, <2>1, <2>2 DEF Elected
<1>6. JobsApply'
  BY <1>0, <1>u, Apart DEF IInv, JobsApply
<1>7. Placed'
  BY DEF Publish, Placed, TakenOut, Home, Sharded, Procs, Trees, Shards, Goto, space,
     TypeOK, Control, IInv
<1>8. Counted'
  BY <1>u DEF IInv, Counted
<1>9. SeenSoFar'
  BY <1>0, <1>u, Apart, SeenKept DEF IInv, ctl
<1> QED
  BY <1>1, <1>2, <1>3, <1>4, <1>5, <1>6, <1>7, <1>8, <1>9 DEF IInv, Control

(* While a writer has its tree nobody walks. *)
LEMMA NobodyLooks ==
  ASSUME Control, NEW m \in Mms, pc[m] \in {"prepare", "complete"}, NEW w \in Walkers
  PROVE  pc[w] \notin {"locked", "walk", "unlock"}
<1>1. m \in wr[root[m]] /\ root[m] \in Trees /\ m \in Procs /\ w \in Procs
  BY Apart DEF Control, LocksExact, WriteHeld, TypeOK
<1>2. w \notin rd[root[m]]
  BY <1>1 DEF Control, Exclusive
<1>3. root[m] = 0 <=> ~shards
  BY DEF Control, LayoutKnown, TypeOK, Shards
<1> QED
  BY <1>1, <1>2, <1>3 DEF Control, LocksExact, ReadHeld, LayoutKnown

(* While VMAs are being moved to the shards nobody walks. *)
LEMMA NobodyMoves ==
  ASSUME Control, NEW m \in Mms, pc[m] = "publish", NEW w \in Walkers
  PROVE  pc[w] \notin {"locked", "walk", "unlock"}
<1>1. m \in wr[0] /\ m \in Procs /\ w \in Procs /\ 0 \in Trees
  BY Apart DEF Control, LocksExact, WriteHeld, Trees
<1>2. ~shards
  BY DEF Control, Elected, Installing
<1> QED
  BY <1>1, <1>2 DEF Control, Exclusive, LocksExact, ReadHeld, LayoutKnown

(* ... nor moves the VMAs, so that the tree is where they belong. *)
LEMMA WriterAlone ==
  ASSUME Control, NEW m \in Mms, pc[m] \in {"prepare", "complete"}
  PROVE  /\ root[m] = (IF Sharded THEN ShardOf[m] ELSE 0)
         /\ ~\E n \in Mms : pc[n] = "publish"
<1>1. root[m] = (IF shards THEN ShardOf[m] ELSE 0)
  BY DEF Control, LayoutKnown
<1>2. \A n \in Mms : pc[n] # "publish"
  <2> SUFFICES ASSUME NEW n \in Mms, pc[n] = "publish" PROVE FALSE
    OBVIOUS
  <2>1. ~shards
    BY DEF Control, Elected, Installing
  <2>2. m \in wr[0] /\ n \in wr[0] /\ m # n
    BY <1>1, <2>1, Apart DEF Control, LocksExact, WriteHeld, Trees
  <2> QED
    BY <2>2, Apart DEF Control, Exclusive, Trees
<1> QED
  BY <1>1, <1>2 DEF Sharded

LEMMA PrepareStep ==
  ASSUME IInv, NEW m \in Mms, Prepare(m)
  PROVE  IInv'
<1>0. /\ PcOK'
      /\ pc[m] = "prepare" /\ pc'[m] = "complete" /\ \A q \in Procs : q # m => pc'[q] = pc[q]
  BY Moved, Apart DEF IInv, Control, MmStates, Prepare
<1>k. UNCHANGED <<shards, contention, locks, job, ctl>>
  BY DEF Prepare
<1>u. /\ tree' = [tree EXCEPT ![root[m]] = (@ \cup job[m].ins) \ job[m].adj]
      /\ nrVmas' = nrVmas + Cardinality(job[m].ins)
      /\ mapped' = mapped \cup job[m].ins
  BY DEF Prepare
<1>j. job[m].ins \subseteq Vmas /\ job[m].adj \subseteq Vmas
  BY DEF IInv, Control, TypeOK, Jobs
<1>n. IsFiniteSet(job[m].ins) /\ Cardinality(job[m].ins) \in Nat
  BY <1>j, FS_Subset, FS_CardinalityType
<1>h. /\ root[m] = (IF Sharded THEN ShardOf[m] ELSE 0)
      /\ ~\E n \in Mms : pc[n] = "publish"
  BY <1>0, WriterAlone DEF IInv
<1>1. TypeOK'
<2>1. tree' \in [Trees -> SUBSET Vmas]
    BY <1>u, <1>j DEF IInv, Control, TypeOK
  <2>2. mapped' \in SUBSET Vmas
    BY <1>u, <1>j DEF IInv, Control, TypeOK
  <2>3. nrVmas' \in Int
    BY <1>u, <1>n DEF IInv, Control, TypeOK
  <2> QED
    BY <1>0, <1>k, <2>1, <2>2, <2>3, Apart DEF IInv, Control, TypeOK, PcOK, locks, ctl
<1>2. LocksExact'
  BY <1>0, <1>k, Apart DEF IInv, Control, LocksExact, WriteHeld, ReadHeld, locks, ctl
<1>3. Exclusive'
  BY <1>k DEF IInv, Control, Exclusive, locks
<1>4. LayoutKnown'
  BY <1>0, <1>k, Apart DEF IInv, Control, LayoutKnown, ctl
<1>5. Elected'
  BY <1>0, <1>k, Apart DEF IInv, Control, Elected, Installing
<1>6. JobsApply'
  BY <1>0, <1>k, <1>u, Apart DEF IInv, JobsApply
<1>7. Placed'
<2>1. \A v \in Vmas : v \in job[m].ins \cup job[m].adj => MmOf[v] = m /\ Home(v) = root[m]
    BY <1>0, <1>h DEF IInv, JobsApply, Home
  <2>2. root[m] \in Trees /\ \A i \in Trees, v \in Vmas : v \in tree'[i] <=>
          (v \in tree[i] \/ (i = root[m] /\ v \in job[m].ins)) /\ ~(i = root[m] /\ v \in job[m].adj)
    BY <1>u DEF IInv, Control, TypeOK
  <2>3. \A v \in Vmas : Home(v)' = Home(v)
    BY <1>0, <1>k, Apart DEF Home, Sharded
  <2>4. \A v \in Vmas : TakenOut(v)' <=> TakenOut(v) \/ v \in job[m].adj
    BY <1>0, <1>k, <2>1, Apart DEF TakenOut, IInv, Control, JobsApply
  <2>5. \A v \in Vmas : v \in job[m].ins => v \notin mapped /\ v \notin job[m].adj /\ ~TakenOut(v)
    BY <1>0, <2>1 DEF IInv, JobsApply, TakenOut
  <2>6. \A v \in Vmas : v \in mapped' <=> v \in mapped \/ v \in job[m].ins
    BY <1>u
  <2> QED
    BY <2>1, <2>2, <2>3, <2>4, <2>5, <2>6 DEF IInv, Placed
<1>8. Counted'
<2>1. mapped \cap job[m].ins = {} /\ IsFiniteSet(mapped) /\ IsFiniteSet(job[m].ins)
    BY <1>0, <1>n, <1>j, FS_Subset DEF IInv, Control, TypeOK, JobsApply
  <2>2. Cardinality(mapped \cup job[m].ins) = Cardinality(mapped) + Cardinality(job[m].ins)
    BY <2>1, FS_Union, FS_EmptySet, FS_CardinalityType
  <2> QED
    BY <1>u, <2>2 DEF IInv, Counted
<1>9. SeenSoFar'
<2>0. \A w \in Walkers : pc[w] \notin {"locked", "walk", "unlock"}
    BY <1>0, NobodyLooks, Apart DEF IInv, Control
  <2> QED
    BY <1>0, <1>k, <2>0, Apart DEF IInv, SeenSoFar, ctl
<1> QED
  BY <1>1, <1>2, <1>3, <1>4, <1>5, <1>6, <1>7, <1>8, <1>9 DEF IInv, Control

LEMMA CompleteStep ==
  ASSUME IInv, NEW m \in Mms, Complete(m)
  PROVE  IInv'
<1>0. /\ PcOK'
      /\ pc[m] = "complete" /\ pc'[m] = "idle" /\ \A q \in Procs : q # m => pc'[q] = pc[q]
  BY Moved, Apart DEF IInv, Control, MmStates, Complete
<1>l. UNCHANGED <<shards, contention, ctl>>
  BY DEF Complete
<1>k. job' = [job EXCEPT ![m] = NoJob]
  BY DEF Complete
<1>u. /\ tree' = [tree EXCEPT ![root[m]] = (@ \cup job[m].adj) \ job[m].del]
      /\ nrVmas' = nrVmas - Cardinality(job[m].del)
      /\ mapped' = mapped \ job[m].del
  BY DEF Complete
<1>w. /\ wr' = [i \in Trees |-> wr[i] \ (IF i \in {root[m]} THEN {m} ELSE {})]
      /\ rd' = rd
  BY DEF Complete, UnlockWrite
<1>j. job[m].del \subseteq Vmas /\ job[m].adj \subseteq Vmas
  BY DEF IInv, Control, TypeOK, Jobs
<1>n. IsFiniteSet(job[m].del) /\ Cardinality(job[m].del) \in Nat
  BY <1>j, FS_Subset, FS_CardinalityType
<1>h. /\ root[m] = (IF Sharded THEN ShardOf[m] ELSE 0)
      /\ ~\E n \in Mms : pc[n] = "publish"
  BY <1>0, WriterAlone DEF IInv
<1>1. TypeOK'
<2>1. tree' \in [Trees -> SUBSET Vmas]
    BY <1>u, <1>j DEF IInv, Control, TypeOK
  <2>2. mapped' \in SUBSET Vmas
    BY <1>u, <1>j DEF IInv, Control, TypeOK
  <2>3. nrVmas' \in Int
    BY <1>u, <1>n DEF IInv, Control, TypeOK
  <2>4. job' \in [Mms -> Jobs]
    BY <1>k DEF IInv, Control, TypeOK, NoJob, Jobs
  <2>5. wr' \in [Trees -> SUBSET Procs] /\ rd' \in [Trees -> SUBSET Procs]
    BY <1>w DEF IInv, Control, TypeOK
  <2> QED
    BY <1>0, <1>l, <2>1, <2>2, <2>3, <2>4, <2>5, Apart DEF IInv, Control, TypeOK, PcOK, ctl
<1>2. LocksExact'
<2>1. m \in wr[root[m]] /\ \A i \in Trees : m \in wr[i] => i = root[m]
    BY <1>0, Apart DEF IInv, Control, TypeOK, LocksExact, WriteHeld
  <2>2. \A i \in Trees, p \in Procs : p \in wr'[i] <=> p \in wr[i] /\ p # m
    BY <1>w, <2>1
  <2>3. \A i \in Trees : ~WriteHeld(m, i)' /\ ~ReadHeld(m, i)' /\ ~ReadHeld(m, i)
    BY <1>0, Apart DEF WriteHeld, ReadHeld
  <2>4. \A i \in Trees, p \in Procs : p # m =>
          (WriteHeld(p, i)' <=> WriteHeld(p, i)) /\ (ReadHeld(p, i)' <=> ReadHeld(p, i))
    BY <1>0, <1>l, Apart DEF WriteHeld, ReadHeld, ctl
  <2> QED
    BY <1>w, <2>2, <2>3, <2>4 DEF IInv, Control, LocksExact
<1>3. Exclusive'
  BY <1>w DEF IInv, Control, Exclusive, TypeOK
<1>4. LayoutKnown'
  BY <1>0, <1>l, Apart DEF IInv, Control, LayoutKnown, ctl
<1>5. Elected'
  BY <1>0, <1>l, Apart DEF IInv, Control, Elected, Installing
<1>6. JobsApply'
<2>1. job'[m] = NoJob /\ \A n \in Mms : n # m => job'[n] = job[n]
    BY <1>k DEF IInv, Control, TypeOK
  <2>2. \A v \in Vmas : MmOf[v] # m => (v \in mapped' <=> v \in mapped)
    BY <1>0, <1>u DEF IInv, JobsApply
  <2>3. \A n \in Mms, v \in Vmas : n # m /\ v \in job[n].ins \cup job[n].adj \cup job[n].del
          => MmOf[v] # m
    BY DEF IInv, JobsApply
  <2> QED
    BY <1>0, <2>1, <2>2, <2>3, Apart DEF IInv, JobsApply, NoJob
<1>7. Placed'
<2>1. \A v \in Vmas : v \in job[m].adj \cup job[m].del => MmOf[v] = m /\ Home(v) = root[m]
    BY <1>0, <1>h DEF IInv, JobsApply, Home
  <2>2. root[m] \in Trees /\ \A i \in Trees, v \in Vmas : v \in tree'[i] <=>
          (v \in tree[i] \/ (i = root[m] /\ v \in job[m].adj)) /\ ~(i = root[m] /\ v \in job[m].del)
    BY <1>u DEF IInv, Control, TypeOK
  <2>3. \A v \in Vmas : Home(v)' = Home(v)
    BY <1>0, <1>l, Apart DEF Home, Sharded
  <2>4. \A v \in Vmas : TakenOut(v)' <=> TakenOut(v) /\ MmOf[v] # m
    <3>1. \A n \in Mms : n # m => job'[n] = job[n] /\ pc'[n] = pc[n]
      BY <1>0, <1>k, Apart DEF IInv, Control, TypeOK
    <3>2. pc'[m] # "complete" /\ \A v \in Vmas : MmOf[v] \in Mms
      BY <1>0
    <3> QED
      BY <3>1, <3>2 DEF TakenOut
  <2>5. \A v \in Vmas : MmOf[v] = m => (TakenOut(v) <=> v \in job[m].adj)
    BY <1>0 DEF TakenOut
  <2>6. \A v \in Vmas : v \in mapped' <=> v \in mapped /\ v \notin job[m].del
    BY <1>u
  <2>7. \A v \in Vmas : v \in job[m].adj => v \in mapped /\ v \notin job[m].del
    BY DEF IInv, JobsApply
  <2> QED
    BY <2>1, <2>2, <2>3, <2>4, <2>5, <2>6, <2>7 DEF IInv, Placed
<1>8. Counted'
<2>1. job[m].del \subseteq mapped /\ IsFiniteSet(mapped)
    BY <1>0, <1>j, FS_Subset DEF IInv, Control, TypeOK, JobsApply
  <2>2. Cardinality(mapped \ job[m].del) = Cardinality(mapped) - Cardinality(job[m].del)
    <3>1. mapped \cap job[m].del = job[m].del
      BY <2>1
    <3> QED
      BY <2>1, <3>1, FS_Difference
  <2> QED
    BY <1>u, <2>2 DEF IInv, Counted
<1>9. SeenSoFar'
<2>0. \A w \in Walkers : pc[w] \notin {"locked", "walk", "unlock"}
    BY <1>0, NobodyLooks, Apart DEF IInv, Control
  <2> QED
    BY <1>0, <1>l, <2>0, Apart DEF IInv, SeenSoFar, ctl
<1> QED
  BY <1>1, <1>2, <1>3, <1>4, <1>5, <1>6, <1>7, <1>8, <1>9 DEF IInv, Control

-----------------------------------------------------------------------------
(* Walkers and lockers *)

(* A walker moves on without a lock; what it has seen is what it saw. *)
LEMMA WalkerMoves ==
  ASSUME IInv, NEW w \in Walkers, NEW s \in {"load", "tryload", "shard", "tryshard"},
         pc[w] \in {"idle", "central", "trycentral"},
         s \in {"shard", "tryshard"} => shards /\ next[w] = 1 /\ local'[w],
         local' \in [Walkers -> BOOLEAN], \A v \in Walkers : v # w => local'[v] = local[v],
         Goto(w, s), UNCHANGED <<space, locks, mapped, job, root, next, seen>>
  PROVE  IInv'
<1>0. /\ PcOK'
      /\ pc'[w] = s /\ \A q \in Procs : q # w => pc'[q] = pc[q]
  BY Moved, Apart DEF IInv, Control, WalkStates
<1>1. TypeOK'
  BY <1>0, Apart DEF IInv, Control, TypeOK, PcOK, space, locks
<1>2. LocksExact'
  BY <1>0, Apart DEF IInv, Control, LocksExact, WriteHeld, ReadHeld, space, locks, Trees
<1>3. Exclusive'
  BY <1>0 DEF IInv, Control, Exclusive, locks
<1>4. LayoutKnown'
  BY <1>0, Apart DEF IInv, Control, LayoutKnown, space
<1>5. Elected'
  BY <1>0, Apart DEF IInv, Control, Elected, Installing, space
<1>6. JobsApply'
  BY <1>0, Apart DEF IInv, JobsApply
<1>7. Placed'
  BY <1>0, Apart DEF IInv, Placed, TakenOut, Home, Sharded, space
<1>8. Counted'
  BY <1>0 DEF IInv, Counted, space
<1>9. SeenSoFar'
  BY <1>0, Apart DEF IInv, SeenSoFar
<1> QED
  BY <1>1, <1>2, <1>3, <1>4, <1>5, <1>6, <1>7, <1>8, <1>9 DEF IInv, Control

LEMMA WalkBeginStep ==
  ASSUME IInv, NEW w \in Walkers, WalkBegin(w)
  PROVE  IInv'
<1>1. PICK s \in {"load", "tryload"} : Goto(w, s)
  BY DEF WalkBegin
<1> QED
  BY <1>1, WalkerMoves DEF WalkBegin, ctl, IInv, Control, TypeOK

LEMMA WalkLoadStep ==
  ASSUME IInv, NEW w \in Walkers, WalkLoad(w)
  PROVE  IInv'
<1>1. TypeOK'
  BY DEF WalkLoad, TypeOK, Procs, Trees, Shards, MmStates, WalkStates, LockerStates,
     Goto, LockRead, LockWrite, UnlockRead, UnlockWrite, MayRead, MayWrite, LockTree,
     Claimed, space, locks, ctl, TypeOK, Control, IInv
<1>2. LocksExact'
  BY DEF WalkLoad, LocksExact, WriteHeld, ReadHeld, Procs, Trees, Shards, Goto, LockRead,
     LockWrite, UnlockRead, UnlockWrite, MayRead, MayWrite, space, locks, ctl, TypeOK,
     Control, IInv
<1>3. Exclusive'
  BY DEF WalkLoad, Exclusive, LocksExact, WriteHeld, ReadHeld, Procs, Trees, Shards,
     LockRead, LockWrite, UnlockRead, UnlockWrite, MayRead, MayWrite, locks, TypeOK,
     Control, IInv
<1>4. LayoutKnown'
  BY DEF WalkLoad, LayoutKnown, Procs, Shards, Goto, space, ctl, TypeOK, Control, IInv
<1>5. Elected'
  BY DEF WalkLoad, Elected, Installing, Procs, Goto, space, TypeOK, Control, IInv
<1>6. JobsApply'
  BY DEF WalkLoad, JobsApply, Procs, Goto, TypeOK, Control, IInv
<1>7. Placed'
  BY DEF WalkLoad, Placed, TakenOut, Home, Sharded, Procs, Trees, Shards, Goto, space,
     TypeOK, Control, IInv
<1>8. Counted'
  BY DEF WalkLoad, Counted, space, Control, IInv
<1>9. SeenSoFar'
  BY DEF WalkLoad, SeenSoFar, Procs, Goto, ctl, TypeOK, Control, IInv
<1> QED
  BY <1>1, <1>2, <1>3, <1>4, <1>5, <1>6, <1>7, <1>8, <1>9 DEF IInv, Control

LEMMA WalkCentralStep ==
  ASSUME IInv, NEW w \in Walkers, WalkCentral(w)
  PROVE  IInv'
<1>1. CASE shards
  <2>1. PICK s \in {"shard", "tryshard"} : Goto(w, s)
    BY <1>1 DEF WalkCentral
  <2> QED
    BY <1>1, <2>1, WalkerMoves DEF WalkCentral, IInv, Control, TypeOK, LayoutKnown
<1>2. CASE ~shards
  <2>0. /\ PcOK' /\ pc[w] \in {"central", "trycentral"}
        /\ pc'[w] = "locked" /\ \A q \in Procs : q # w => pc'[q] = pc[q]
    BY <1>2, Moved, Apart DEF IInv, Control, WalkStates, WalkCentral
  <2>r. /\ rd' = [rd EXCEPT ![0] = @ \cup {w}] /\ wr[0] = {} /\ UNCHANGED wr
    BY <1>2 DEF WalkCentral, LockRead, MayRead
  <2>l. /\ local' = [local EXCEPT ![w] = shards]
        /\ UNCHANGED <<space, mapped, job, root, next, seen>>
    BY DEF WalkCentral
  <2>1. TypeOK'
    BY <2>0, <2>r, <2>l, Apart DEF IInv, Control, TypeOK, PcOK, space, Trees
  <2>2. LocksExact'
  <3>1. \A i \in Trees, p \in Procs : p \in rd'[i] <=> p \in rd[i] \/ (i = 0 /\ p = w)
      BY <2>r DEF IInv, Control, TypeOK
    <3>2. \A i \in Trees : (ReadHeld(w, i)' <=> i = 0) /\ ~ReadHeld(w, i)
      BY <1>2, <2>0, <2>l, Apart DEF ReadHeld, IInv, Control, TypeOK
    <3>3. \A i \in Trees, p \in Procs : (WriteHeld(p, i)' <=> WriteHeld(p, i))
            /\ (p # w => (ReadHeld(p, i)' <=> ReadHeld(p, i)))
      BY <2>0, <2>l, Apart DEF WriteHeld, ReadHeld, IInv, Control, TypeOK, space
    <3> QED
      BY <2>r, <3>1, <3>2, <3>3 DEF IInv, Control, LocksExact
  <2>3. Exclusive'
    BY <2>r DEF IInv, Control, Exclusive, TypeOK
  <2>4. LayoutKnown'
    BY <1>2, <2>0, <2>l, Apart DEF IInv, Control, TypeOK, LayoutKnown, space
  <2>5. Elected'
    BY <2>0, <2>l, Apart DEF IInv, Control, Elected, Installing, space
  <2>6. JobsApply'
    BY <2>0, <2>l, Apart DEF IInv, JobsApply
  <2>7. Placed'
    BY <2>0, <2>l, Apart DEF IInv, Placed, TakenOut, Home, Sharded, space
  <2>8. Counted'
    BY <2>l DEF IInv, Counted, space
  <2>9. SeenSoFar'
    BY <2>0, <2>l, Apart DEF IInv, SeenSoFar
  <2> QED
    BY <2>1, <2>2, <2>3, <2>4, <2>5, <2>6, <2>7, <2>8, <2>9 DEF IInv, Control
<1> QED
  BY <1>1, <1>2

LEMMA WalkShardStep ==
  ASSUME IInv, NEW w \in Walkers, WalkShard(w)
  PROVE  IInv'
<1>0. /\ pc[w] \in {"shard", "tryshard"} /\ next[w] \in Shards
      /\ shards /\ local[w]
  BY DEF WalkShard, IInv, Control, LayoutKnown, Shards
<1>p. /\ PcOK' /\ (pc'[w] = IF next[w] = NrShards THEN "locked" ELSE pc[w])
      /\ \A q \in Procs : q # w => pc'[q] = pc[q]
  <2>1. CASE next[w] = NrShards
    BY <2>1, Moved, Apart DEF IInv, Control, WalkStates, WalkShard
  <2>2. CASE next[w] # NrShards
    BY <2>2 DEF IInv, Control, TypeOK, PcOK, WalkShard
  <2> QED
    BY <2>1, <2>2
<1>r. /\ rd' = [rd EXCEPT ![next[w]] = @ \cup {w}] /\ wr[next[w]] = {} /\ UNCHANGED wr
  BY DEF WalkShard, LockRead, MayRead
<1>l. /\ next' = [next EXCEPT ![w] = @ + 1]
      /\ UNCHANGED <<space, mapped, job, root, local, seen>>
  BY DEF WalkShard
<1>n. next'[w] = next[w] + 1 /\ \A q \in Procs : q # w => next'[q] = next[q]
  BY <1>l, Apart DEF IInv, Control, TypeOK
<1>1. TypeOK'
<2>1. next' \in [Procs -> 0..NrShards + 1]
    BY <1>0, <1>l, Apart DEF IInv, Control, TypeOK, Shards
  <2>2. rd' \in [Trees -> SUBSET Procs] /\ wr' \in [Trees -> SUBSET Procs]
    BY <1>r, Apart DEF IInv, Control, TypeOK
  <2> QED
    BY <1>p, <1>l, <2>1, <2>2 DEF IInv, Control, TypeOK, PcOK, space
<1>2. LocksExact'
<2>1. \A i \in Trees, p \in Procs : p \in rd'[i] <=> p \in rd[i] \/ (i = next[w] /\ p = w)
    BY <1>0, <1>r DEF IInv, Control, TypeOK
  <2>2. \A i \in Trees : ReadHeld(w, i)' <=> ReadHeld(w, i) \/ i = next[w]
    <3>1. \A i \in Trees : ReadHeld(w, i) <=> i # 0 /\ i < next[w]
      BY <1>0, Apart DEF ReadHeld
    <3>2. \A i \in Trees : ReadHeld(w, i)' <=> i # 0 /\ i <= next[w]
      BY <1>0, <1>p, <1>l, <1>n, Apart DEF ReadHeld, Trees, Shards
    <3> QED
      BY <1>0, <3>1, <3>2 DEF Trees, Shards
  <2>3. \A i \in Trees, p \in Procs : (WriteHeld(p, i)' <=> WriteHeld(p, i))
          /\ (p # w => (ReadHeld(p, i)' <=> ReadHeld(p, i)))
    BY <1>0, <1>p, <1>l, <1>n, Apart DEF WriteHeld, ReadHeld, space
  <2> QED
    BY <1>r, <2>1, <2>2, <2>3 DEF IInv, Control, LocksExact
<1>3. Exclusive'
  BY <1>0, <1>r DEF IInv, Control, Exclusive, TypeOK, Trees, Shards
<1>4. LayoutKnown'
  <2>1. next[w] # NrShards => next'[w] \in 1..NrShards
    BY <1>0, <1>n DEF Shards
  <2> QED
    BY <1>0, <1>p, <1>l, <1>n, <2>1, Apart, ZenonT(40) DEF IInv, Control, LayoutKnown, space
<1>5. Elected'
  BY <1>p, <1>l, Apart DEF IInv, Control, Elected, Installing, space
<1>6. JobsApply'
  BY <1>p, <1>l, Apart DEF IInv, JobsApply
<1>7. Placed'
  BY <1>p, <1>l, Apart DEF IInv, Placed, TakenOut, Home, Sharded, space
<1>8. Counted'
  BY <1>l DEF IInv, Counted, space
<1>9. SeenSoFar'
  BY <1>0, <1>p, <1>l, <1>n, Apart DEF IInv, SeenSoFar
<1> QED
  BY <1>1, <1>2, <1>3, <1>4, <1>5, <1>6, <1>7, <1>8, <1>9 DEF IInv, Control

LEMMA TryFailsStep ==
  ASSUME IInv, NEW w \in Walkers, TryFails(w)
  PROVE  IInv'
<1>1. TypeOK'
  BY DEF TryFails, TypeOK, Procs, Trees, Shards, MmStates, WalkStates, LockerStates,
     Goto, LockRead, LockWrite, UnlockRead, UnlockWrite, MayRead, MayWrite, LockTree,
     Claimed, space, locks, ctl, TypeOK, Control, IInv
<1>2. LocksExact'
  BY DEF TryFails, LocksExact, WriteHeld, ReadHeld, Procs, Trees, Shards, Goto, LockRead,
     LockWrite, UnlockRead, UnlockWrite, MayRead, MayWrite, space, locks, ctl, TypeOK,
     Control, IInv
<1>3. Exclusive'
  BY DEF TryFails, Exclusive, LocksExact, WriteHeld, ReadHeld, Procs, Trees, Shards,
     LockRead, LockWrite, UnlockRead, UnlockWrite, MayRead, MayWrite, locks, TypeOK,
     Control, IInv
<1>4. LayoutKnown'
  BY DEF TryFails, LayoutKnown, Procs, Shards, Goto, space, ctl, TypeOK, Control, IInv
<1>5. Elected'
  BY DEF TryFails, Elected, Installing, Procs, Goto, space, TypeOK, Control, IInv
<1>6. JobsApply'
  BY DEF TryFails, JobsApply, Procs, Goto, TypeOK, Control, IInv
<1>7. Placed'
  BY DEF TryFails, Placed, TakenOut, Home, Sharded, Procs, Trees, Shards, Goto, space,
     TypeOK, Control, IInv
<1>8. Counted'
  BY DEF TryFails, Counted, space, Control, IInv
<1>9. SeenSoFar'
  BY DEF TryFails, SeenSoFar, Procs, Goto, ctl, TypeOK, Control, IInv
<1> QED
  BY <1>1, <1>2, <1>3, <1>4, <1>5, <1>6, <1>7, <1>8, <1>9 DEF IInv, Control

LEMMA WalkStartStep ==
  ASSUME IInv, NEW w \in Walkers, WalkStart(w)
  PROVE  IInv'
<1>1. TypeOK'
  BY DEF WalkStart, TypeOK, Procs, Trees, Shards, MmStates, WalkStates, LockerStates,
     Goto, LockRead, LockWrite, UnlockRead, UnlockWrite, MayRead, MayWrite, LockTree,
     Claimed, space, locks, ctl, TypeOK, Control, IInv
<1>2. LocksExact'
  BY DEF WalkStart, LocksExact, WriteHeld, ReadHeld, Procs, Trees, Shards, Goto,
     LockRead, LockWrite, UnlockRead, UnlockWrite, MayRead, MayWrite, space, locks, ctl,
     TypeOK, Control, IInv
<1>3. Exclusive'
  BY DEF WalkStart, Exclusive, LocksExact, WriteHeld, ReadHeld, Procs, Trees, Shards,
     LockRead, LockWrite, UnlockRead, UnlockWrite, MayRead, MayWrite, locks, TypeOK,
     Control, IInv
<1>4. LayoutKnown'
  BY DEF WalkStart, LayoutKnown, Procs, Shards, Goto, space, ctl, TypeOK, Control, IInv
<1>5. Elected'
  BY DEF WalkStart, Elected, Installing, Procs, Goto, space, TypeOK, Control, IInv
<1>6. JobsApply'
  BY DEF WalkStart, JobsApply, Procs, Goto, TypeOK, Control, IInv
<1>7. Placed'
  BY DEF WalkStart, Placed, TakenOut, Home, Sharded, Procs, Trees, Shards, Goto, space,
     TypeOK, Control, IInv
<1>8. Counted'
  BY DEF WalkStart, Counted, space, Control, IInv
<1>9. SeenSoFar'
<2>1. \A v \in Vmas : ShardOf[MmOf[v]] \in 1..NrShards
    BY DEF Shards
  <2>2. pc[w] = "locked" /\ pc'[w] = "walk" /\ next'[w] \in {0, 1} /\ UNCHANGED <<mapped, seen>>
    BY Apart DEF WalkStart, Goto, IInv, Control, TypeOK
  <2>3. \A q \in Walkers : q # w => pc'[q] = pc[q] /\ next'[q] = next[q]
    BY Apart DEF WalkStart, Goto, IInv, Control, TypeOK
  <2> QED
    BY <2>1, <2>2, <2>3 DEF IInv, SeenSoFar
<1> QED
  BY <1>1, <1>2, <1>3, <1>4, <1>5, <1>6, <1>7, <1>8, <1>9 DEF IInv, Control

LEMMA WalkTreeStep ==
  ASSUME IInv, NEW w \in Walkers, WalkTree(w)
  PROVE  IInv'
<1>0. /\ pc[w] = "walk" /\ next[w] \in 0..NrShards /\ (next[w] = 0 <=> ~shards)
  <2>1. pc[w] = "walk" /\ next[w] \in 0..NrShards + 1
    BY Apart DEF WalkTree, IInv, Control, TypeOK
  <2> QED
    BY <2>1 DEF IInv, Control, LayoutKnown, TypeOK
<1> DEFINE n == IF next[w] = 0 THEN NrShards + 1 ELSE next[w] + 1
<1>p. /\ PcOK' /\ pc'[w] \in {"walk", "unlock"} /\ (n > NrShards => pc'[w] = "unlock")
      /\ \A q \in Procs : q # w => pc'[q] = pc[q]
  <2>1. CASE Goto(w, "unlock")
    BY <2>1, Moved, Apart DEF IInv, Control, WalkStates
  <2>2. CASE UNCHANGED pc /\ n <= NrShards
    BY <1>0, <2>2 DEF IInv, Control, TypeOK, PcOK
  <2> QED
    BY <1>0, <2>1, <2>2 DEF WalkTree
<1>l. /\ next' = [next EXCEPT ![w] = n] /\ seen' = [seen EXCEPT ![w] = @ \cup tree[next[w]]]
      /\ UNCHANGED <<space, locks, mapped, job, root, local>>
  BY DEF WalkTree
<1>n. /\ n \in 1..NrShards + 1 /\ next'[w] = n /\ \A q \in Procs : q # w => next'[q] = next[q]
      /\ (next[w] # 0 => n = next[w] + 1) /\ (next[w] = 0 => n = NrShards + 1)
  BY <1>0, <1>l, Apart DEF IInv, Control, TypeOK
<1> HIDE DEF n
<1>1. TypeOK'
<2>1. next' \in [Procs -> 0..NrShards + 1]
    BY <1>n, <1>l, Apart DEF IInv, Control, TypeOK
  <2>2. seen' \in [Walkers -> SUBSET Vmas]
    BY <1>0, <1>l DEF IInv, Control, TypeOK, Trees
  <2> QED
    BY <1>p, <1>l, <2>1, <2>2 DEF IInv, Control, TypeOK, PcOK, space, locks
<1>2. LocksExact'
  BY <1>0, <1>p, <1>l, <1>n, Apart DEF IInv, Control, LocksExact, WriteHeld, ReadHeld,
     space, locks
<1>3. Exclusive'
  BY <1>l DEF IInv, Control, Exclusive, locks
<1>4. LayoutKnown'
  BY <1>0, <1>p, <1>l, <1>n, Apart DEF IInv, Control, LayoutKnown, space
<1>5. Elected'
  BY <1>p, <1>l, Apart DEF IInv, Control, Elected, Installing, space
<1>6. JobsApply'
  BY <1>p, <1>l, Apart DEF IInv, JobsApply
<1>7. Placed'
  BY <1>p, <1>l, Apart DEF IInv, Placed, TakenOut, Home, Sharded, space
<1>8. Counted'
  BY <1>l DEF IInv, Counted, space
<1>9. SeenSoFar'
<2>1. \A m \in Mms : pc[m] \notin {"prepare", "complete", "publish"} \/ shards
    BY <1>0, NobodyLooks, NobodyMoves, Apart DEF IInv
  <2>2. \A v \in Vmas : v \in tree[next[w]] <=>
          v \in mapped /\ next[w] = (IF shards THEN ShardOf[MmOf[v]] ELSE 0)
    <3>1. \A v \in Vmas : ~TakenOut(v)
      BY <1>0, NobodyLooks DEF IInv, TakenOut
    <3>2. Sharded <=> shards
      BY <1>0, NobodyMoves DEF IInv, Sharded
    <3> QED
      BY <1>0, <3>1, <3>2 DEF IInv, Placed, Home, Trees
  <2>3. seen'[w] = seen[w] \cup tree[next[w]] /\ \A q \in Walkers : q # w => seen'[q] = seen[q]
    BY <1>l DEF IInv, Control, TypeOK
  <2>4. \A v \in Vmas : v \in seen'[w] <=> v \in mapped /\ ShardOf[MmOf[v]] < n
    <3>1. \A v \in Vmas : v \in seen[w] <=> v \in mapped /\ ShardOf[MmOf[v]] < next[w]
      BY <1>0 DEF IInv, SeenSoFar
    <3>2. \A v \in Vmas : ShardOf[MmOf[v]] \in 1..NrShards
      BY DEF Shards
    <3> QED
      BY <1>0, <1>n, <2>2, <2>3, <3>1, <3>2
  <2>5. n = NrShards + 1 => \A v \in Vmas : ShardOf[MmOf[v]] < n
    BY DEF Shards
  <2>6. \A q \in Walkers : q # w => pc'[q] = pc[q] /\ next'[q] = next[q] /\ seen'[q] = seen[q]
    BY <1>p, <1>n, <2>3, Apart
  <2> QED
    BY <1>p, <1>n, <1>l, <2>4, <2>5, <2>6 DEF IInv, SeenSoFar
<1> QED
  BY <1>1, <1>2, <1>3, <1>4, <1>5, <1>6, <1>7, <1>8, <1>9 DEF IInv, Control

LEMMA WalkUnlockStep ==
  ASSUME IInv, NEW w \in Walkers, WalkUnlock(w)
  PROVE  IInv'
<1>1. TypeOK'
  BY DEF WalkUnlock, TypeOK, Procs, Trees, Shards, MmStates, WalkStates, LockerStates,
     Goto, LockRead, LockWrite, UnlockRead, UnlockWrite, MayRead, MayWrite, LockTree,
     Claimed, space, locks, ctl, TypeOK, Control, IInv
<1>2. LocksExact'
  BY DEF WalkUnlock, LocksExact, WriteHeld, ReadHeld, Procs, Trees, Shards, Goto,
     LockRead, LockWrite, UnlockRead, UnlockWrite, MayRead, MayWrite, space, locks, ctl,
     TypeOK, Control, IInv
<1>3. Exclusive'
  BY DEF WalkUnlock, Exclusive, LocksExact, WriteHeld, ReadHeld, Procs, Trees, Shards,
     LockRead, LockWrite, UnlockRead, UnlockWrite, MayRead, MayWrite, locks, TypeOK,
     Control, IInv
<1>4. LayoutKnown'
  BY DEF WalkUnlock, LayoutKnown, Procs, Shards, Goto, space, ctl, TypeOK, Control, IInv
<1>5. Elected'
  BY DEF WalkUnlock, Elected, Installing, Procs, Goto, space, TypeOK, Control, IInv
<1>6. JobsApply'
  BY DEF WalkUnlock, JobsApply, Procs, Goto, TypeOK, Control, IInv
<1>7. Placed'
  BY DEF WalkUnlock, Placed, TakenOut, Home, Sharded, Procs, Trees, Shards, Goto, space,
     TypeOK, Control, IInv
<1>8. Counted'
  BY DEF WalkUnlock, Counted, space, Control, IInv
<1>9. SeenSoFar'
  BY DEF WalkUnlock, SeenSoFar, Procs, Goto, ctl, TypeOK, Control, IInv
<1> QED
  BY <1>1, <1>2, <1>3, <1>4, <1>5, <1>6, <1>7, <1>8, <1>9 DEF IInv, Control

LEMMA LockAllBeginStep ==
  ASSUME IInv, NEW l \in Lockers, LockAllBegin(l)
  PROVE  IInv'
<1>1. TypeOK'
  BY DEF LockAllBegin, TypeOK, Procs, Trees, Shards, MmStates, WalkStates, LockerStates,
     Goto, LockRead, LockWrite, UnlockRead, UnlockWrite, MayRead, MayWrite, LockTree,
     Claimed, space, locks, ctl, TypeOK, Control, IInv
<1>2. LocksExact'
  BY DEF LockAllBegin, LocksExact, WriteHeld, ReadHeld, Procs, Trees, Shards, Goto,
     LockRead, LockWrite, UnlockRead, UnlockWrite, MayRead, MayWrite, space, locks, ctl,
     TypeOK, Control, IInv
<1>3. Exclusive'
  BY DEF LockAllBegin, Exclusive, LocksExact, WriteHeld, ReadHeld, Procs, Trees, Shards,
     LockRead, LockWrite, UnlockRead, UnlockWrite, MayRead, MayWrite, locks, TypeOK,
     Control, IInv
<1>4. LayoutKnown'
  BY DEF LockAllBegin, LayoutKnown, Procs, Shards, Goto, space, ctl, TypeOK, Control, IInv
<1>5. Elected'
  BY DEF LockAllBegin, Elected, Installing, Procs, Goto, space, TypeOK, Control, IInv
<1>6. JobsApply'
  BY DEF LockAllBegin, JobsApply, Procs, Goto, TypeOK, Control, IInv
<1>7. Placed'
  BY DEF LockAllBegin, Placed, TakenOut, Home, Sharded, Procs, Trees, Shards, Goto,
     space, TypeOK, Control, IInv
<1>8. Counted'
  BY DEF LockAllBegin, Counted, space, Control, IInv
<1>9. SeenSoFar'
  BY DEF LockAllBegin, SeenSoFar, Procs, Goto, ctl, TypeOK, Control, IInv
<1> QED
  BY <1>1, <1>2, <1>3, <1>4, <1>5, <1>6, <1>7, <1>8, <1>9 DEF IInv, Control

LEMMA LockAllCentralStep ==
  ASSUME IInv, NEW l \in Lockers, LockAllCentral(l)
  PROVE  IInv'
<1>1. TypeOK'
  BY DEF LockAllCentral, TypeOK, Procs, Trees, Shards, MmStates, WalkStates,
     LockerStates, Goto, LockRead, LockWrite, UnlockRead, UnlockWrite, MayRead, MayWrite,
     LockTree, Claimed, space, locks, ctl, TypeOK, Control, IInv
<1>2. LocksExact'
  BY DEF LockAllCentral, LocksExact, WriteHeld, ReadHeld, Procs, Trees, Shards, Goto,
     LockRead, LockWrite, UnlockRead, UnlockWrite, MayRead, MayWrite, space, locks, ctl,
     TypeOK, Control, IInv
<1>3. Exclusive'
  BY DEF LockAllCentral, Exclusive, LocksExact, WriteHeld, ReadHeld, Procs, Trees,
     Shards, LockRead, LockWrite, UnlockRead, UnlockWrite, MayRead, MayWrite, locks,
     TypeOK, Control, IInv
<1>4. LayoutKnown'
  BY DEF LockAllCentral, LayoutKnown, Procs, Shards, Goto, space, ctl, TypeOK, Control, IInv
<1>5. Elected'
  BY DEF LockAllCentral, Elected, Installing, Procs, Goto, space, TypeOK, Control, IInv
<1>6. JobsApply'
  BY DEF LockAllCentral, JobsApply, Procs, Goto, TypeOK, Control, IInv
<1>7. Placed'
  BY DEF LockAllCentral, Placed, TakenOut, Home, Sharded, Procs, Trees, Shards, Goto,
     space, TypeOK, Control, IInv
<1>8. Counted'
  BY DEF LockAllCentral, Counted, space, Control, IInv
<1>9. SeenSoFar'
  BY DEF LockAllCentral, SeenSoFar, Procs, Goto, ctl, TypeOK, Control, IInv
<1> QED
  BY <1>1, <1>2, <1>3, <1>4, <1>5, <1>6, <1>7, <1>8, <1>9 DEF IInv, Control

LEMMA LockAllShardStep ==
  ASSUME IInv, NEW l \in Lockers, LockAllShard(l)
  PROVE  IInv'
<1>0. pc[l] = "shard" /\ next[l] \in Shards /\ shards
  BY DEF LockAllShard, IInv, Control, LayoutKnown, Shards
<1>p. /\ PcOK' /\ (pc'[l] = IF next[l] = NrShards THEN "held" ELSE "shard")
      /\ \A q \in Procs : q # l => pc'[q] = pc[q]
  <2>1. CASE next[l] = NrShards
    BY <2>1, Moved, Apart DEF IInv, Control, LockerStates, LockAllShard
  <2>2. CASE next[l] # NrShards
    BY <1>0, <2>2 DEF IInv, Control, TypeOK, PcOK, LockAllShard
  <2> QED
    BY <2>1, <2>2
<1>r. /\ wr' = [wr EXCEPT ![next[l]] = {l}] /\ wr[next[l]] = {} /\ rd[next[l]] = {} /\ UNCHANGED rd
  BY DEF LockAllShard, LockWrite, MayWrite
<1>l. /\ next' = [next EXCEPT ![l] = @ + 1]
      /\ UNCHANGED <<space, mapped, job, root, local, seen>>
  BY DEF LockAllShard
<1>n. next'[l] = next[l] + 1 /\ \A q \in Procs : q # l => next'[q] = next[q]
  BY <1>l, Apart DEF IInv, Control, TypeOK
<1>1. TypeOK'
<2>1. next' \in [Procs -> 0..NrShards + 1]
    BY <1>0, <1>l, Apart DEF IInv, Control, TypeOK, Shards
  <2>2. rd' \in [Trees -> SUBSET Procs] /\ wr' \in [Trees -> SUBSET Procs]
    BY <1>r, Apart DEF IInv, Control, TypeOK
  <2> QED
    BY <1>p, <1>l, <2>1, <2>2 DEF IInv, Control, TypeOK, PcOK, space
<1>2. LocksExact'
<2>1. \A i \in Trees, p \in Procs : p \in wr'[i] <=> p \in wr[i] \/ (i = next[l] /\ p = l)
    BY <1>0, <1>r DEF IInv, Control, TypeOK
  <2>2. \A i \in Trees : WriteHeld(l, i)' <=> WriteHeld(l, i) \/ i = next[l]
    <3>1. \A i \in Trees : WriteHeld(l, i) <=> i < next[l]
      BY <1>0, Apart DEF WriteHeld
    <3>2. \A i \in Trees : WriteHeld(l, i)' <=> i <= next[l]
      BY <1>0, <1>p, <1>l, <1>n, Apart DEF WriteHeld, Trees, Shards, space
    <3> QED
      BY <1>0, <3>1, <3>2 DEF Trees, Shards
  <2>3. \A i \in Trees, p \in Procs : (ReadHeld(p, i)' <=> ReadHeld(p, i))
          /\ (p # l => (WriteHeld(p, i)' <=> WriteHeld(p, i)))
    BY <1>0, <1>p, <1>l, <1>n, Apart DEF WriteHeld, ReadHeld, space
  <2> QED
    BY <1>r, <2>1, <2>2, <2>3 DEF IInv, Control, LocksExact
<1>3. Exclusive'
  BY <1>0, <1>r DEF IInv, Control, Exclusive, TypeOK, Trees, Shards
<1>4. LayoutKnown'
  <2>1. next[l] # NrShards => next'[l] \in 1..NrShards
    BY <1>0, <1>n DEF Shards
  <2> QED
    BY <1>0, <1>p, <1>l, <1>n, <2>1, Apart, ZenonT(40) DEF IInv, Control, LayoutKnown, space
<1>5. Elected'
  BY <1>p, <1>l, Apart DEF IInv, Control, Elected, Installing, space
<1>6. JobsApply'
  BY <1>p, <1>l, Apart DEF IInv, JobsApply
<1>7. Placed'
  BY <1>p, <1>l, Apart DEF IInv, Placed, TakenOut, Home, Sharded, space
<1>8. Counted'
  BY <1>l DEF IInv, Counted, space
<1>9. SeenSoFar'
  BY <1>0, <1>p, <1>l, <1>n, Apart DEF IInv, SeenSoFar
<1> QED
  BY <1>1, <1>2, <1>3, <1>4, <1>5, <1>6, <1>7, <1>8, <1>9 DEF IInv, Control

LEMMA UnlockAllStep ==
  ASSUME IInv, NEW l \in Lockers, UnlockAll(l)
  PROVE  IInv'
<1>1. TypeOK'
  BY DEF UnlockAll, TypeOK, Procs, Trees, Shards, MmStates, WalkStates, LockerStates,
     Goto, LockRead, LockWrite, UnlockRead, UnlockWrite, MayRead, MayWrite, LockTree,
     Claimed, space, locks, ctl, TypeOK, Control, IInv
<1>2. LocksExact'
  BY DEF UnlockAll, LocksExact, WriteHeld, ReadHeld, Procs, Trees, Shards, Goto,
     LockRead, LockWrite, UnlockRead, UnlockWrite, MayRead, MayWrite, space, locks, ctl,
     TypeOK, Control, IInv
<1>3. Exclusive'
  BY DEF UnlockAll, Exclusive, LocksExact, WriteHeld, ReadHeld, Procs, Trees, Shards,
     LockRead, LockWrite, UnlockRead, UnlockWrite, MayRead, MayWrite, locks, TypeOK,
     Control, IInv
<1>4. LayoutKnown'
  BY DEF UnlockAll, LayoutKnown, Procs, Shards, Goto, space, ctl, TypeOK, Control, IInv
<1>5. Elected'
  BY DEF UnlockAll, Elected, Installing, Procs, Goto, space, TypeOK, Control, IInv
<1>6. JobsApply'
  BY DEF UnlockAll, JobsApply, Procs, Goto, TypeOK, Control, IInv
<1>7. Placed'
  BY DEF UnlockAll, Placed, TakenOut, Home, Sharded, Procs, Trees, Shards, Goto, space,
     TypeOK, Control, IInv
<1>8. Counted'
  BY DEF UnlockAll, Counted, space, Control, IInv
<1>9. SeenSoFar'
  BY DEF UnlockAll, SeenSoFar, Procs, Goto, ctl, TypeOK, Control, IInv
<1> QED
  BY <1>1, <1>2, <1>3, <1>4, <1>5, <1>6, <1>7, <1>8, <1>9 DEF IInv, Control

-----------------------------------------------------------------------------
LEMMA InitInv == Init => IInv
<1> SUFFICES ASSUME Init PROVE IInv
  OBVIOUS
<1>1. TypeOK
  <2>1. PcOK
    BY Apart DEF Init, PcOK, MmStates, WalkStates, LockerStates
  <2>2. NoJob \in Jobs /\ 0 \in Trees /\ 1 \in 0..NrShards + 1
    BY DEF NoJob, Jobs, Trees
  <2>3. nrVmas \in Int /\ contention \in Int /\ contention >= -1 /\ contention < Threshold
    BY DEF Init
  <2> QED
    BY <2>1, <2>2, <2>3 DEF Init, TypeOK, PcOK
<1>2. LocksExact /\ Exclusive
  BY Apart DEF Init, LocksExact, Exclusive, WriteHeld, ReadHeld
<1>3. LayoutKnown
  BY Apart DEF Init, LayoutKnown
<1>4. Elected
  <2>1. (\A m \in Mms : ~Installing(m)) /\ contention # -1 /\ ~shards
    BY Apart DEF Init, Installing
  <2> QED
    BY <2>1 DEF Elected
<1>5. JobsApply /\ Placed /\ SeenSoFar
  BY Apart DEF Init, JobsApply, NoJob, Placed, SeenSoFar
<1>6. Counted
  BY FS_EmptySet DEF Init, Counted
<1> QED
  BY <1>1, <1>2, <1>3, <1>4, <1>5, <1>6 DEF IInv, Control

LEMMA Preserved == IInv /\ [Next]_vars => IInv'
<1> SUFFICES ASSUME IInv, [Next]_vars PROVE IInv'
  OBVIOUS
<1>1. CASE UNCHANGED vars
  BY <1>1 DEF vars, space, locks, ctl, IInv, Control, TypeOK, LocksExact, WriteHeld,
     ReadHeld,
     Exclusive, LayoutKnown, Elected, Installing, JobsApply, Placed, TakenOut, Home,
     Sharded,
     Counted, SeenSoFar
<1>2. ASSUME NEW m \in Mms, Begin(m) \/ WriterStep(m) PROVE IInv'
  BY <1>2, BeginStep, WriteLoadStep, WriteTryStep, ContendStep, AllocFailsStep, AllocStep,
     InstallStep, PublishStep, WriteCentralStep, WriteShardStep, PrepareStep, CompleteStep
     DEF WriterStep
<1>3. ASSUME NEW w \in Walkers, WalkBegin(w) \/ WalkerStep(w) PROVE IInv'
  BY <1>3, WalkBeginStep, WalkLoadStep, WalkCentralStep, WalkShardStep, TryFailsStep,
     WalkStartStep, WalkTreeStep, WalkUnlockStep DEF WalkerStep
<1>4. ASSUME NEW l \in Lockers, LockAllBegin(l) \/ LockerStep(l) PROVE IInv'
  BY <1>4, LockAllBeginStep, LockAllCentralStep, LockAllShardStep,
     UnlockAllStep DEF LockerStep
<1> QED
  BY <1>1, <1>2, <1>3, <1>4 DEF Next

LEMMA Invariant == Spec => []IInv
  BY InitInv, Preserved, PTL DEF Spec

(* No variable leaves its type: the count of the election in particular is *)
(* -1 or below the threshold, and no lock is given to what is no process.  *)
THEOREM TypeCorrect == Spec => []TypeOK
<1>1. IInv => TypeOK
  BY DEF IInv, Control
<1> QED
  BY <1>1, Invariant, PTL

(* Out is what the writers that are about to complete have taken out.      *)
LEMMA OutIsTakenOut ==
  ASSUME IInv, NEW v \in Vmas
  PROVE  v \in Out <=> TakenOut(v)
<1>1. \A m \in Mms : v \in job[m].adj => MmOf[v] = m
  BY DEF IInv, JobsApply
<1>2. MmOf[v] \in Mms
  OBVIOUS
<1> QED
  BY <1>1, <1>2 DEF Out, TakenOut

LEMMA TreesFacts == IInv => TreesExact /\ Linked = mapped
<1> SUFFICES ASSUME IInv PROVE TreesExact /\ Linked = mapped
  OBVIOUS
<1>1. \A i \in Trees : tree[i] \subseteq Vmas
  BY DEF IInv, Control, TypeOK
<1>2. \A i \in Trees : tree[i] = {v \in mapped \ Out : Home(v) = i}
  <2> SUFFICES ASSUME NEW i \in Trees PROVE tree[i] = {v \in mapped \ Out : Home(v) = i}
    OBVIOUS
  <2>1. mapped \subseteq Vmas
    BY DEF IInv, Control, TypeOK
  <2> QED
    BY <1>1, <2>1, OutIsTakenOut DEF IInv, Placed
<1>3. Out \subseteq mapped
  BY DEF IInv, Control, TypeOK, Jobs, JobsApply, Out
<1>4. \A v \in mapped : Home(v) \in Trees
  BY DEF Home, Trees, Shards, IInv, Control, TypeOK
<1>5. Linked = mapped
  <2>1. ASSUME NEW v \in mapped PROVE v \in Out \/ \E i \in Trees : v \in tree[i]
    BY <1>2, <1>4
  <2>2. \A i \in Trees : tree[i] \subseteq mapped
    BY <1>2
  <2>3. UNION {tree[i] : i \in Trees} \subseteq mapped
    BY <2>2
  <2>4. \A v \in mapped : v \in Out \/ v \in UNION {tree[i] : i \in Trees}
    BY <2>1
  <2> QED
    BY <1>3, <2>3, <2>4 DEF Linked
<1> QED
  BY <1>2, <1>5 DEF TreesExact

(* Every mapped VMA is in the one tree its unlink will look in, however    *)
(* the installation of the shards interleaves with the changes of the mms. *)
THEOREM TreesAreExact == Spec => []TreesExact
  BY TreesFacts, Invariant, PTL

(* A walk that ran to its end has seen every VMA of the mapping, and none  *)
(* of them half adjusted.                                                  *)
THEOREM WalksSeeEverything == Spec => []WalkSeesAll
<1>1. IInv => WalkSeesAll
  <2> SUFFICES ASSUME IInv, NEW w \in Walkers, pc[w] = "unlock", next[w] = NrShards + 1
               PROVE  seen[w] = mapped /\ Out = {}
    BY DEF WalkSeesAll
  <2>1. seen[w] \subseteq Vmas /\ mapped \subseteq Vmas
    BY DEF IInv, Control, TypeOK
  <2>2. \A m \in Mms : pc[m] # "complete"
    BY NobodyLooks DEF IInv
  <2> QED
    BY <2>1, <2>2 DEF IInv, SeenSoFar, Out
<1> QED
  BY <1>1, Invariant, PTL

(* Between mm_take_all_locks and mm_drop_all_locks nobody changes, walks   *)
(* or moves the mapping's VMAs, in one layout or the other.                *)
THEOREM AllLocksExcludeAll == Spec => []AllLocksExclude
<1>1. IInv => AllLocksExclude
  <2> SUFFICES ASSUME IInv, NEW l \in Lockers, pc[l] = "held"
               PROVE  /\ \A m \in Mms : pc[m] \notin {"prepare", "complete", "publish"}
                      /\ \A w \in Walkers : pc[w] \notin {"locked", "walk", "unlock"}
    BY DEF AllLocksExclude
  <2>1. \A i \in Trees : i = 0 \/ shards => l \in wr[i]
    BY Apart DEF IInv, Control, LocksExact, WriteHeld
  <2>2. \A i \in Trees, p \in Procs : i = 0 \/ shards =>
          p \notin rd[i] /\ (p # l => p \notin wr[i])
    BY <2>1, Apart DEF IInv, Control, Exclusive
  <2>3. ASSUME NEW m \in Mms PROVE pc[m] \notin {"prepare", "complete", "publish"}
    <3>1. pc[m] \in {"prepare", "complete"} => (root[m] = 0 \/ shards) /\ root[m] \in Trees
      BY DEF IInv, Control, LayoutKnown, TypeOK
    <3> QED
      BY <2>2, <3>1, Apart DEF IInv, Control, LocksExact, WriteHeld, Trees
  <2>4. ASSUME NEW w \in Walkers PROVE pc[w] \notin {"locked", "walk", "unlock"}
    <3>1. pc[w] \in {"locked", "walk", "unlock"} => local[w] = shards
      BY DEF IInv, Control, LayoutKnown
    <3>2. 0 \in Trees /\ 1 \in Trees
      BY DEF Trees
    <3> QED
      BY <2>2, <3>1, <3>2, Apart DEF IInv, Control, LocksExact, ReadHeld, TypeOK
  <2> QED
    BY <2>3, <2>4
<1> QED
  BY <1>1, Invariant, PTL

(* Nobody goes idle with an rwsem, also where the layout was chosen by one *)
(* look at the published pointer and the unlock goes by another.           *)
THEOREM LocksAreReturned == Spec => []LocksReturned
<1>1. IInv => LocksReturned
  BY Apart DEF IInv, Control, LocksExact, WriteHeld, ReadHeld, LocksReturned
<1> QED
  BY <1>1, Invariant, PTL

(* At most one installer is at work, exactly while the counter is -1 and   *)
(* the shards are not published.                                           *)
THEOREM InstallersAreAlone == Spec => []OneInstaller
<1>1. IInv => OneInstaller
  <2> SUFFICES ASSUME IInv PROVE OneInstaller
    OBVIOUS
  <2>1. Cardinality(Installers) <= 1
    <3>1. CASE Installers = {}
      BY <3>1, FS_EmptySet
    <3>2. ASSUME NEW m \in Installers PROVE Cardinality(Installers) <= 1
      <4>1. Installers = {m}
        BY <3>2 DEF Installers, IInv, Control, Elected, Installing
      <4>2. Cardinality({m}) = 1
        BY FS_Singleton
      <4> QED
        BY <4>1, <4>2
    <3> QED
      BY <3>1, <3>2
  <2>2. Installers # {} <=> \E m \in Mms : Installing(m)
    BY DEF Installers, Installing
  <2> QED
    BY <2>1, <2>2 DEF OneInstaller, IInv, Control, Elected
<1> QED
  BY <1>1, Invariant, PTL

(* The mapping counts as mapped exactly if a VMA maps it, whether its VMAs *)
(* are in the central tree or in shards.                                   *)
THEOREM CountIsExact == Spec => []MappedIsCounted
<1>1. IInv => MappedIsCounted
  <2> SUFFICES ASSUME IInv PROVE MappedIsCounted
    OBVIOUS
  <2>1. IsFiniteSet(mapped)
    BY FS_Subset DEF IInv, Control, TypeOK
  <2>2. Cardinality(mapped) \in Nat /\ (Cardinality(mapped) = 0 <=> mapped = {})
    BY <2>1, FS_EmptySet, FS_CardinalityType
  <2>3. tree[0] \subseteq mapped
    BY TreesFacts DEF TreesExact, Trees
  <2> QED
    BY <2>2, <2>3 DEF IInv, Counted, MappedIsCounted, MappingMapped
<1> QED
  BY <1>1, Invariant, PTL

-----------------------------------------------------------------------------
(* The refinement *)

(* Whoever is not at the end of a walk sees nothing. *)
LEMMA ViewKept ==
  ASSUME \A w \in Walkers : /\ pc'[w] = "unlock" <=> pc[w] = "unlock"
                            /\ pc[w] = "unlock" => next'[w] = next[w] /\ seen'[w] = seen[w]
  PROVE  View' = View
  BY DEF View

LEMMA ChangeRefines ==
  ASSUME IInv, IInv', NEW m \in Mms, Prepare(m) \/ Complete(m)
  PROVE  Set!Change(m)
<1>1. pc[m] \in {"prepare", "complete"} /\ UNCHANGED <<next, seen>>
      /\ \A w \in Walkers : pc'[w] = pc[w]
  BY Apart DEF Prepare, Complete, Goto, ctl, IInv, Control, TypeOK
<1>2. \A w \in Walkers : View[w] = {}
  BY <1>1, NobodyLooks DEF View, IInv
<1>3. View' = View
  BY <1>1, ViewKept
<1>4. Linked = mapped /\ (Linked = mapped)'
  BY TreesFacts, PTL
<1>5. mapped' = mapped \cup job[m].ins \/ mapped' = mapped \ job[m].del
  BY DEF Prepare, Complete
<1>6. \A v \in Vmas : v \in job[m].ins \cup job[m].del => MmOf[v] = m
  BY DEF IInv, JobsApply
<1>7. mapped' \in SUBSET Vmas
  BY DEF IInv, Control, TypeOK
<1> QED
  BY <1>2, <1>3, <1>4, <1>5, <1>6, <1>7 DEF Set!Change

LEMMA LookRefines ==
  ASSUME IInv, IInv', NEW w \in Walkers, WalkTree(w)
  PROVE  \/ UNCHANGED <<mapped, View>>
         \/ View[w] = {} /\ View' = [View EXCEPT ![w] = {mapped}] /\ UNCHANGED mapped
<1>1. pc[w] = "walk" /\ UNCHANGED mapped
      /\ \A q \in Walkers : q # w => pc'[q] = pc[q] /\ next'[q] = next[q] /\ seen'[q] = seen[q]
  BY Apart DEF WalkTree, Goto, IInv, Control, TypeOK
<1>2. CASE pc'[w] = "unlock" /\ next'[w] = NrShards + 1
  <2>1. seen'[w] = mapped'
    BY <1>2, ZenonT(40) DEF IInv, Control, TypeOK, SeenSoFar
  <2> QED
    BY <1>1, <1>2, <2>1 DEF View
<1>3. CASE ~(pc'[w] = "unlock" /\ next'[w] = NrShards + 1)
  BY <1>1, <1>3 DEF View
<1> QED
  BY <1>2, <1>3

LEMMA LeaveRefines ==
  ASSUME IInv, NEW w \in Walkers, WalkUnlock(w)
  PROVE  \/ UNCHANGED <<mapped, View>>
         \/ View[w] # {} /\ View' = [View EXCEPT ![w] = {}] /\ UNCHANGED mapped
<1>1. UNCHANGED mapped /\ pc'[w] = "idle"
      /\ \A q \in Walkers : q # w => pc'[q] = pc[q] /\ next'[q] = next[q] /\ seen'[q] = seen[q]
  BY Apart DEF WalkUnlock, Goto, IInv, Control, TypeOK
<1> QED
  BY <1>1 DEF View

LEMMA OthersKeep ==
  ASSUME IInv, Next, \A m \in Mms : ~Prepare(m) /\ ~Complete(m),
         \A w \in Walkers : ~WalkTree(w) /\ ~WalkUnlock(w)
  PROVE  UNCHANGED <<mapped, View>>
<1> SUFFICES /\ UNCHANGED mapped
             /\ \A w \in Walkers : /\ pc'[w] = "unlock" <=> pc[w] = "unlock"
                                   /\ pc[w] = "unlock" => next'[w] = next[w] /\ seen'[w] = seen[w]
  BY ViewKept
<1> USE DEF IInv, Control, TypeOK, Goto, ctl
<1>1. ASSUME NEW m \in Mms, Begin(m) \/ WriterStep(m)
      PROVE  /\ UNCHANGED <<mapped, next, seen>>
             /\ \A w \in Walkers : pc'[w] = pc[w]
  BY <1>1, Apart DEF Begin, WriterStep, WriteLoad, WriteTry, Contend, AllocFails, Alloc,
     Install,
     Publish, WriteCentral, WriteShard, LockTree
<1>2. ASSUME NEW u \in Walkers, WalkBegin(u) \/ WalkerStep(u)
      PROVE  /\ UNCHANGED <<mapped, seen>> /\ pc[u] # "unlock" /\ pc'[u] # "unlock"
             /\ \A w \in Walkers : w # u => pc'[w] = pc[w] /\ next'[w] = next[w]
  <2>1. CASE WalkBegin(u)
    BY <2>1, Apart DEF WalkBegin
  <2>2. CASE WalkLoad(u)
    BY <2>2, Apart DEF WalkLoad
  <2>3. CASE WalkCentral(u)
    BY <2>3, Apart DEF WalkCentral
  <2>4. CASE WalkShard(u)
    BY <2>4, Apart DEF WalkShard
  <2>5. CASE TryFails(u)
    BY <2>5, Apart DEF TryFails
  <2>6. CASE WalkStart(u)
    BY <2>6, Apart DEF WalkStart
  <2> QED
    BY <1>2, <2>1, <2>2, <2>3, <2>4, <2>5, <2>6 DEF WalkerStep
<1>3. ASSUME NEW l \in Lockers, LockAllBegin(l) \/ LockerStep(l)
      PROVE  /\ UNCHANGED <<mapped, seen>>
             /\ \A w \in Walkers : pc'[w] = pc[w] /\ next'[w] = next[w]
  BY <1>3, Apart DEF LockAllBegin, LockerStep, LockAllCentral, LockAllShard, UnlockAll
<1> QED
  BY <1>1, <1>2, <1>3 DEF Next

LEMMA StepRefines == IInv /\ IInv' /\ [Next]_vars => [Set!Next]_<<Linked, View>>
<1> SUFFICES ASSUME IInv, IInv', [Next]_vars PROVE Set!Next \/ UNCHANGED <<Linked, View>>
  OBVIOUS
<1>1. Linked = mapped /\ (Linked = mapped)'
  BY TreesFacts, PTL
<1>2. CASE UNCHANGED vars
  BY <1>1, <1>2, ViewKept DEF vars, ctl
<1>3. CASE \E m \in Mms : Prepare(m) \/ Complete(m)
  BY <1>3, ChangeRefines DEF Set!Next
<1>4. CASE \E w \in Walkers : WalkTree(w)
  BY <1>1, <1>4, LookRefines DEF Set!Next, Set!Look
<1>5. CASE \E w \in Walkers : WalkUnlock(w)
  BY <1>1, <1>5, LeaveRefines DEF Set!Next, Set!Leave
<1>6. CASE /\ Next /\ \A m \in Mms : ~Prepare(m) /\ ~Complete(m)
           /\ \A w \in Walkers : ~WalkTree(w) /\ ~WalkUnlock(w)
  BY <1>1, <1>6, OthersKeep
<1> QED
  BY <1>2, <1>3, <1>4, <1>5, <1>6

(* Trees, shards, rwsems and their installation implement the set of VMAs  *)
(* that each mm changes for itself and walkers see whole and unchanging.   *)
THEOREM RefinesVmaSet == Spec => ImplementsVmaSet
<1>1. Init => Set!Init
  BY FS_EmptySet, Apart DEF Init, Set!Init, Linked, View, Out
<1> QED
  BY <1>1, Invariant, StepRefines, PTL DEF Spec, ImplementsVmaSet, Set!Spec

-----------------------------------------------------------------------------
(* Deadlock: suppose everybody who is at work waits. *)
AllWait == \A p \in Procs : pc[p] # "idle" => Waits(p)

(* If everybody waits, the rwsems are in the hands of lockers and walkers  *)
(* that are on their way through the shards.                               *)
LEMMA HoldersOnTheWay ==
  ASSUME IInv, AllWait
  PROVE  \A i \in Trees, p \in Procs :
           /\ p \in wr[i] => p \in Lockers /\ pc[p] = "shard" /\ i < next[p]
           /\ p \in rd[i] => p \in Walkers /\ pc[p] = "shard" /\ i < next[p]
<1> SUFFICES ASSUME NEW i \in Trees, NEW p \in Procs
             PROVE  /\ p \in wr[i] => p \in Lockers /\ pc[p] = "shard" /\ i < next[p]
                    /\ p \in rd[i] => p \in Walkers /\ pc[p] = "shard" /\ i < next[p]
  OBVIOUS
<1>1. pc[p] \in {"idle", "install", "central", "shard"}
  BY DEF AllWait, Waits
<1>2. (p \in wr[i] <=> WriteHeld(p, i)) /\ (p \in rd[i] <=> ReadHeld(p, i))
  BY DEF IInv, Control, LocksExact
<1> QED
  BY <1>1, <1>2 DEF WriteHeld, ReadHeld

(* Nobody waits for a shard in the middle of mm_take_all_locks: whoever    *)
(* has it is a walker that waits for a later shard, and a later shard can  *)
(* only be taken by the one locker that has the central lock, which has    *)
(* not got that far.                                                       *)
LEMMA NoLockerWaits ==
  ASSUME IInv, AllWait, NEW l \in Lockers PROVE pc[l] # "shard"
<1> SUFFICES ASSUME pc[l] = "shard" PROVE FALSE
  OBVIOUS
<1>1. \A k \in Lockers : pc[k] = "shard" => next[k] \in Trees /\ next[k] \in 1..NrShards
  BY DEF IInv, Control, LayoutKnown, Trees
<1>2. \A k \in Lockers : pc[k] = "shard" => k = l
  <2> SUFFICES ASSUME NEW k \in Lockers, pc[k] = "shard" PROVE k = l
    OBVIOUS
  <2>1. 0 \in Trees /\ 0 < next[k] /\ 0 < next[l]
    BY <1>1 DEF Trees
  <2>2. k \in wr[0] /\ l \in wr[0]
    BY <2>1, Apart DEF IInv, Control, LocksExact, WriteHeld
  <2> QED
    BY <2>1, <2>2, Apart DEF IInv, Control, Exclusive
<1>3. wr \in [Trees -> SUBSET Procs] /\ rd \in [Trees -> SUBSET Procs]
  BY DEF IInv, Control, TypeOK
<1>4. \A i \in Trees : wr[i] # {} => i < next[l]
  BY <1>2, <1>3, HoldersOnTheWay
<1>5. ~MayWrite(next[l]) /\ next[l] \in Trees
  BY <1>1, Apart DEF AllWait, Waits
<1>6. wr[next[l]] = {}
  BY <1>1, <1>4, <1>5
<1>7. PICK w \in Procs : w \in rd[next[l]]
  BY <1>3, <1>5, <1>6 DEF MayWrite
<1>8. w \in Walkers /\ pc[w] = "shard" /\ next[l] < next[w]
  BY <1>5, <1>7, HoldersOnTheWay
<1>9. ~MayRead(next[w]) /\ next[w] \in Trees /\ next[w] \in 1..NrShards
  BY <1>8, Apart DEF AllWait, Waits, IInv, Control, LayoutKnown, Trees
<1>10. next[w] < next[l]
  BY <1>4, <1>9 DEF MayRead
<1> QED
  BY <1>1, <1>8, <1>9, <1>10

(* The orders in which central and shard rwsems are taken admit no         *)
(* deadlock: while any change, walk or mm_take_all_locks is under way, one *)
(* that is under way waits for no rwsem, in either layout and across the   *)
(* installation.                                                           *)
THEOREM NoDeadlockAnywhere == Spec => []SomebodyGoesOn
<1>1. ASSUME IInv, AllWait, NEW p \in Procs, pc[p] # "idle" PROVE FALSE
  <2>1. wr \in [Trees -> SUBSET Procs] /\ rd \in [Trees -> SUBSET Procs]
    BY <1>1 DEF IInv, Control, TypeOK
  <2>2. \A i \in Trees : wr[i] = {}
    BY <1>1, <2>1, HoldersOnTheWay, NoLockerWaits
  <2>3. \A w \in Walkers : pc[w] = "shard" => next[w] \in Trees
    BY <1>1 DEF IInv, Control, LayoutKnown, Trees
  <2>4. \A w \in Walkers : pc[w] # "shard"
    BY <1>1, <2>2, <2>3, Apart DEF AllWait, Waits, MayRead
  <2>5. \A i \in Trees : MayRead(i) /\ MayWrite(i)
    BY <1>1, <2>1, <2>2, <2>4, HoldersOnTheWay DEF MayRead, MayWrite
  <2>6. 0 \in Trees /\ \A m \in Mms : ShardOf[m] \in Trees
    BY DEF Trees, Shards
  <2> QED
    BY <1>1, <2>4, <2>5, <2>6, NoLockerWaits DEF AllWait, Waits
<1>2. IInv => SomebodyGoesOn
  BY <1>1 DEF AllWait, SomebodyGoesOn
<1> QED
  BY <1>2, Invariant, PTL

=============================================================================
