------------------------------ MODULE MmCache ------------------------------
(***************************************************************************)
(* The two-tier cache of the percpu data of mm_structs (mm_cache_v3):      *)
(* mm_init takes the backing of rss_stat and mm_cid from the cache of its  *)
(* CPU, then of its node, then from alloc_percpu; __mmdrop gives it back   *)
(* the same way.  The percpu_counters in an mm are on a list of the NUMA   *)
(* node they were set up on, for CPU hotplug to fold a dead CPU's share    *)
(* into the count.                                                         *)
(*                                                                         *)
(* An mm_struct has one counter here, and its two percpu areas, which      *)
(* always move together, are one backing.  A task may run on another CPU   *)
(* at each step, except where the code disables preemption or holds a      *)
(* lock.  A definition marked "Faulty" is no part of the specification: it *)
(* is the next definition with a slip.                                     *)
(***************************************************************************)
EXTENDS Integers, Sequences, FiniteSets

CONSTANTS
  Cpus,       \* possible CPUs
  NrNodes,    \* NUMA nodes, 1 to NrNodes in the order hotplug visits them
  NodeOf,     \* NodeOf[c]
  Mms,        \* mm_structs
  Backings,   \* percpu areas
  NoBacking,  \* NULL
  CpuMax,     \* MM_STAT_EXT_CACHE_MAX
  NodeMax,    \* MM_STAT_EXT_NODE_CACHE_MAX
  Batch,      \* percpu_counter_batch
  MaxRss      \* bound: the size of an mm

Nodes == 1..NrNodes

ASSUME MmCacheAssumption ==
  /\ IsFiniteSet(Cpus) /\ Cpus # {} /\ IsFiniteSet(Mms)
  /\ NrNodes \in Nat \ {0} /\ NodeOf \in [Cpus -> Nodes]
  /\ NoBacking \notin Backings
  /\ CpuMax \in Nat /\ NodeMax \in Nat
  /\ Batch \in Nat \ {0} /\ MaxRss \in Nat

VARIABLES
  cpuCache,   \* mm_stat_ext_free of each CPU: entries[0] .. entries[count - 1]
  nodeCache,  \* mm_stat_ext_node_free of each node
  pool,       \* what alloc_percpu has to give
  value,      \* value[b][c]: the word of CPU c in a backing
  (* struct mm_struct *)
  ext,        \* ext[m]: mm->stat_ext
  counters,   \* counters[m]: rss_stat's counters pointer
  count,      \* count[m]: rss_stat's count
  numaNode,   \* numaNode[m]: the node whose list the counter was put on
  pc,         \* pc[m]: what is being done with m
  (* lib/percpu_counter.c *)
  list,       \* list[n]: the counters on percpu_counters_numa[n]
  online,     \* CPUs that run tasks
  dying,      \* the CPU percpu_counter_cpu_dead works on, in a set
  visit,      \* the node it visits next
  (* History *)
  rss         \* rss[m]: the sum of all updates of m's counter

caches  == <<cpuCache, nodeCache, pool>>
mmVars  == <<ext, counters, count, numaNode, pc>>
hotplug == <<online, dying, visit>>
vars    == <<caches, value, mmVars, list, hotplug, rss>>

States == {"none", "get", "getnode", "alloc", "attach", "live", "zero", "put",
           "putnode"}

CacheShape ==
  /\ cpuCache \in [Cpus -> Seq(Backings)]
  /\ \A c \in Cpus : Len(cpuCache[c]) <= CpuMax
  /\ nodeCache \in [Nodes -> Seq(Backings)]
  /\ \A n \in Nodes : Len(nodeCache[n]) <= NodeMax
  /\ pool \in SUBSET Backings
  /\ value \in [Backings -> [Cpus -> Int]]

MmShape ==
  /\ ext \in [Mms -> Backings \cup {NoBacking}]
  /\ counters \in [Mms -> Backings \cup {NoBacking}]
  /\ count \in [Mms -> Int]
  /\ numaNode \in [Mms -> Nodes]
  /\ pc \in [Mms -> States]
  /\ rss \in [Mms -> Int]

HotplugShape ==
  /\ list \in [Nodes -> SUBSET Mms]
  /\ online \in SUBSET Cpus /\ dying \in SUBSET Cpus /\ dying \cap online = {}
  /\ visit \in 1..NrNodes + 1

TypeOK == CacheShape /\ MmShape /\ HotplugShape

Zero == [c \in Cpus |-> 0]

Init ==
  /\ cpuCache = [c \in Cpus |-> <<>>]
  /\ nodeCache = [n \in Nodes |-> <<>>]
  /\ pool = Backings
  /\ value = [b \in Backings |-> Zero]
  /\ ext = [m \in Mms |-> NoBacking]
  /\ counters = [m \in Mms |-> NoBacking]
  /\ count = [m \in Mms |-> 0]
  /\ numaNode = [m \in Mms |-> 1]
  /\ pc = [m \in Mms |-> "none"]
  /\ list = [n \in Nodes |-> {}]
  /\ online = Cpus
  /\ dying = {}
  /\ visit = 1
  /\ rss = [m \in Mms |-> 0]

Goto(m, state) == pc' = [pc EXCEPT ![m] = state]
Top(s) == s[Len(s)]
Popped(s) == SubSeq(s, 1, Len(s) - 1)

-----------------------------------------------------------------------------
(* mm_init *)

(* stat_ext of the copied mm_struct is cleared.                            *)
MmInit(m) ==
  /\ pc[m] = "none"
  /\ ext' = [ext EXCEPT ![m] = NoBacking]
  /\ Goto(m, "get")
  /\ UNCHANGED <<caches, value, counters, count, numaNode, list, hotplug, rss>>

(* mm_stat_ext_cache_get: the cache of the CPU, with preemption disabled, *)
GetCpu(m, c) ==
  /\ pc[m] = "get"
  /\ IF cpuCache[c] # <<>>
     THEN /\ ext' = [ext EXCEPT ![m] = Top(cpuCache[c])]
          /\ cpuCache' = [cpuCache EXCEPT ![c] = Popped(@)]
          /\ Goto(m, "attach")
     ELSE Goto(m, "getnode") /\ UNCHANGED <<ext, cpuCache>>
  /\ UNCHANGED <<nodeCache, pool, value, counters, count, numaNode, list, hotplug, rss>>

(* ... then that of the node the task is on by now, under its lock. *)
GetNode(m, c) ==
  LET n == NodeOf[c] IN
  /\ pc[m] = "getnode"
  /\ IF nodeCache[n] # <<>>
     THEN /\ ext' = [ext EXCEPT ![m] = Top(nodeCache[n])]
          /\ nodeCache' = [nodeCache EXCEPT ![n] = Popped(@)]
          /\ Goto(m, "attach")
     ELSE Goto(m, "alloc") /\ UNCHANGED <<ext, nodeCache>>
  /\ UNCHANGED <<cpuCache, pool, value, counters, count, numaNode, list, hotplug, rss>>

(* Both missed: alloc_percpu gives zeroed areas; stat_ext is filled in for *)
(* the way back.                                                           *)
Alloc(m) ==
  /\ pc[m] = "alloc"
  /\ \E b \in pool :
       /\ pool' = pool \ {b}
       /\ value' = [value EXCEPT ![b] = Zero]
       /\ ext' = [ext EXCEPT ![m] = b]
  /\ Goto(m, "attach")
  /\ UNCHANGED <<cpuCache, nodeCache, counters, count, numaNode, list, hotplug, rss>>

(* fail_cid, fail_pcpu: what was allocated is freed, mm_init fails. *)
AllocFails(m) ==
  /\ pc[m] = "alloc"
  /\ Goto(m, "none")
  /\ UNCHANGED <<caches, value, ext, counters, count, numaNode, list, hotplug, rss>>

(* Faulty: the count of the mm_struct's last user is kept. *)
AttachKeepsCount(m, c) ==
  LET n == NodeOf[c] IN
  /\ pc[m] = "attach"
  /\ counters' = [counters EXCEPT ![m] = ext[m]]
  /\ numaNode' = [numaNode EXCEPT ![m] = n]
  /\ list' = [list EXCEPT ![n] = @ \cup {m}]
  /\ rss' = [rss EXCEPT ![m] = 0]
  /\ Goto(m, "live")
  /\ UNCHANGED <<caches, value, ext, count, hotplug>>

(* percpu_counter_reinit_many_pcpu or __percpu_counter_init_many: the      *)
(* counter is set up and goes on the list of the node.                     *)
Attach(m, c) ==
  LET n == NodeOf[c] IN
  /\ pc[m] = "attach"
  /\ counters' = [counters EXCEPT ![m] = ext[m]]
  /\ count' = [count EXCEPT ![m] = 0]
  /\ numaNode' = [numaNode EXCEPT ![m] = n]
  /\ list' = [list EXCEPT ![n] = @ \cup {m}]
  /\ rss' = [rss EXCEPT ![m] = 0]
  /\ Goto(m, "live")
  /\ UNCHANGED <<caches, value, ext, hotplug>>

(* percpu_counter_add on some CPU. *)
Add(m, c, d) ==
  LET b == counters[m]
      v == value[b][c] + d IN
  /\ pc[m] = "live"
  /\ rss[m] + d \in 0..MaxRss
  /\ rss' = [rss EXCEPT ![m] = @ + d]
  /\ IF v \in -Batch + 1 .. Batch - 1
     THEN value' = [value EXCEPT ![b][c] = v] /\ UNCHANGED count
     ELSE value' = [value EXCEPT ![b][c] = 0] /\ count' = [count EXCEPT ![m] = @ + v]
  /\ UNCHANGED <<caches, ext, counters, numaNode, pc, list, hotplug>>

-----------------------------------------------------------------------------
(* __mmdrop, of an mm that has unmapped everything *)

(* percpu_counter_detach_many: off the list, then no backing. *)
Detach(m) ==
  /\ pc[m] = "live"
  /\ rss[m] = 0
  /\ list' = [list EXCEPT ![numaNode[m]] = @ \ {m}]
  /\ counters' = [counters EXCEPT ![m] = NoBacking]
  /\ Goto(m, "zero")
  /\ UNCHANGED <<caches, value, ext, count, numaNode, hotplug, rss>>

(* Faulty: the words of CPUs that are not online are forgotten. *)
ZeroOnline(m) ==
  /\ pc[m] = "zero"
  /\ value' = [value EXCEPT ![ext[m]] =
                 [c \in Cpus |-> IF c \in online THEN 0 ELSE @[c]]]
  /\ Goto(m, "put")
  /\ UNCHANGED <<caches, ext, counters, count, numaNode, list, hotplug, rss>>

(* mm_stat_ext_cache_put: zero the words of all possible CPUs, *)
ZeroAll(m) ==
  /\ pc[m] = "zero"
  /\ value' = [value EXCEPT ![ext[m]] = Zero]
  /\ Goto(m, "put")
  /\ UNCHANGED <<caches, ext, counters, count, numaNode, list, hotplug, rss>>

Given(m) == ext' = [ext EXCEPT ![m] = NoBacking] /\ Goto(m, "none")

(* ... give the backing to the cache of the CPU, *)
PutCpu(m, c) ==
  /\ pc[m] = "put"
  /\ IF Len(cpuCache[c]) < CpuMax
     THEN cpuCache' = [cpuCache EXCEPT ![c] = Append(@, ext[m])] /\ Given(m)
     ELSE Goto(m, "putnode") /\ UNCHANGED <<ext, cpuCache>>
  /\ UNCHANGED <<nodeCache, pool, value, counters, count, numaNode, list, hotplug, rss>>

(* Faulty: the backing is freed although the cache of the node has it. *)
PutNodeBoth(m, c) ==
  LET n == NodeOf[c] IN
  /\ pc[m] = "putnode"
  /\ IF Len(nodeCache[n]) < NodeMax
     THEN nodeCache' = [nodeCache EXCEPT ![n] = Append(@, ext[m])]
     ELSE UNCHANGED nodeCache
  /\ pool' = pool \cup {ext[m]}
  /\ Given(m)
  /\ UNCHANGED <<cpuCache, value, counters, count, numaNode, list, hotplug, rss>>

(* ... or to that of the node, or to free_percpu. *)
PutNode(m, c) ==
  LET n == NodeOf[c] IN
  /\ pc[m] = "putnode"
  /\ IF Len(nodeCache[n]) < NodeMax
     THEN nodeCache' = [nodeCache EXCEPT ![n] = Append(@, ext[m])] /\ UNCHANGED pool
     ELSE pool' = pool \cup {ext[m]} /\ UNCHANGED nodeCache
  /\ Given(m)
  /\ UNCHANGED <<cpuCache, value, counters, count, numaNode, list, hotplug, rss>>

-----------------------------------------------------------------------------
(* CPU hotplug, one CPU at a time. Another CPU stays online. *)

CpuDown(c) ==
  /\ dying = {}
  /\ c \in online /\ online # {c}
  /\ online' = online \ {c}
  /\ dying' = {c}
  /\ visit' = 1
  /\ UNCHANGED <<caches, value, mmVars, list, rss>>

(* Faulty: the last node is not visited. *)
VisitEnd == NrNodes - 1

VisitLast == NrNodes

(* percpu_counter_cpu_dead: under the lock of one node after the other,    *)
(* the dead CPU's share of each counter moves to its count.                *)
CpuDead(c) ==
  LET folded == {m \in list[visit] : counters[m] # NoBacking} IN
  /\ dying = {c}
  /\ count' = [m \in Mms |-> count[m] + (IF m \in folded THEN value[counters[m]][c] ELSE 0)]
  /\ value' = [b \in Backings |->
                 IF \E m \in folded : counters[m] = b THEN [value[b] EXCEPT ![c] = 0]
                 ELSE value[b]]
  /\ visit' = visit + 1
  /\ dying' = IF visit >= VisitLast THEN {} ELSE dying
  /\ UNCHANGED <<caches, ext, counters, numaNode, pc, list, online, rss>>

CpuUp(c) ==
  /\ dying = {}
  /\ c \notin online
  /\ online' = online \cup {c}
  /\ UNCHANGED <<caches, value, mmVars, list, dying, visit, rss>>

-----------------------------------------------------------------------------
MmStep(m, c) ==
  \/ GetCpu(m, c) \/ GetNode(m, c) \/ Attach(m, c)
  \/ PutCpu(m, c) \/ PutNode(m, c)
  \/ \E d \in {1, -1} : Add(m, c, d)

Next ==
  \/ \E m \in Mms, c \in online : MmStep(m, c)
  \/ \E m \in Mms : MmInit(m) \/ Alloc(m) \/ AllocFails(m) \/ Detach(m) \/ ZeroAll(m)
  \/ \E c \in Cpus : CpuDown(c) \/ CpuDead(c) \/ CpuUp(c)

Spec == Init /\ [][Next]_vars

-----------------------------------------------------------------------------
(* A backing is in one place: free, in one slot of one cache, or with one  *)
(* mm. None is lost or handed out twice, whatever CPU each step ran on.    *)
Owners(b) == {m \in Mms : ext[m] = b}
Slots(cache, keys, max, b) ==
  {s \in keys \X (1..max) : s[2] <= Len(cache[s[1]]) /\ cache[s[1]][s[2]] = b}
CpuSlots(b) == Slots(cpuCache, Cpus, CpuMax, b)
NodeSlots(b) == Slots(nodeCache, Nodes, NodeMax, b)

Places(b) ==
  (IF b \in pool THEN 1 ELSE 0)
  + Cardinality(Owners(b)) + Cardinality(CpuSlots(b)) + Cardinality(NodeSlots(b))

OnePlace == \A b \in Backings : Places(b) = 1

(* The sum of the words of all possible CPUs: the units of those above     *)
(* zero, less the units of those below.                                    *)
Above(words) == UNION {{c} \X (1 .. words[c]) : c \in Cpus}
Below(words) == UNION {{c} \X (1 .. -words[c]) : c \in Cpus}
Sum(words) == Cardinality(Above(words)) - Cardinality(Below(words))

(* The counter of a live mm is exact, whatever CPUs counted in it, died in *)
(* the meantime, or used its backing for another mm before.                *)
RssExact ==
  \A m \in Mms : pc[m] = "live" => count[m] + Sum(value[counters[m]]) = rss[m]

(* percpu_counter_sum skips dead CPUs: once a CPU's death has been handled *)
(* no live counter holds a share of it, on whichever node's list it was    *)
(* put, and however late.                                                  *)
DeadHoldNothing ==
  \A m \in Mms, c \in Cpus \ (online \cup dying) :
    pc[m] = "live" => value[counters[m]][c] = 0

(* The caches are not seen by the mms. *)
Held == [m \in Mms |->
  IF pc[m] \in {"attach", "live", "zero"} THEN ext[m] ELSE NoBacking]
Word == [b \in Backings |-> IF \E m \in Mms : Held[m] = b THEN value[b] ELSE Zero]

Pool == INSTANCE BackingPool WITH held <- Held, value <- Word

ImplementsBackingPool == Pool!Spec

=============================================================================
