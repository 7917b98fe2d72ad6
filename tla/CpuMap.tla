------------------------------- MODULE CpuMap -------------------------------
(***************************************************************************)
(* Ordered CPUMAP (kernel/bpf/cpumap.c as patched by                       *)
(* rfs_bpf_cpumap/patch/cpumap-rfs-v2).                                    *)
(*                                                                         *)
(* Sources (CPUs running an XDP program in a NAPI poll) submit packets of  *)
(* ordering domains to CPU entries.  A submission is reserved on the       *)
(* domain's target under the domain lock, waits in a per-source bulk       *)
(* (native XDP) or is inserted at once (generic XDP), is inserted in the   *)
(* entry's ring under the ring's producer lock, where it takes the next    *)
(* ticket, and is handed to the network stack by the entry's kthread       *)
(* through GRO.  The kthread publishes the completed prefix of tickets; a  *)
(* domain may change its target only when that watermark covers its last   *)
(* ticket and no reservation is outstanding.                               *)
(*                                                                         *)
(* An entry is a generation: replacing the entry of a CPU allocates        *)
(* another member of Entries.  A packet is its ticket, that is its index   *)
(* in log[e], so the ring of e is the part of log[e] after taken[e].       *)
(*                                                                         *)
(* A definition marked "Faulty" is no part of the specification: it is the *)
(* next definition with a slip in it, kept to test what the properties of  *)
(* CpuMapProperties would notice.                                          *)
(***************************************************************************)
EXTENDS Integers, Sequences, FiniteSets

CONSTANTS
  Cpus,        \* CPU indices of the map
  HotCpus,     \* the CPUs that may go offline
  Entries,     \* generations of CPU entries
  CpuOf,       \* CpuOf[e]: the CPU an entry is created for
  Domains,     \* ordering domains (map_extra of them)
  Sources,     \* CPUs that run the XDP program
  NoEntry,     \* a NULL entry pointer
  NoDomain,    \* no packet in hand
  BulkSize,    \* CPU_MAP_BULK_SIZE
  QueueSize,   \* ring size, from the entry's bpf_cpumap_val
  BatchSize,   \* CPUMAP_BATCH
  Weight,      \* NAPI_POLL_WEIGHT
  MaxPending,  \* U32_MAX, the largest value of a domain's pending
  MaxPubs      \* bound: ring insertions of one domain in a behaviour

ASSUME CpuMapAssumption ==
  /\ HotCpus \subseteq Cpus
  /\ CpuOf \in [Entries -> Cpus]
  /\ IsFiniteSet(Domains) /\ IsFiniteSet(Sources) /\ IsFiniteSet(Entries)
  /\ NoEntry \notin Entries
  /\ NoDomain \notin Domains
  /\ BulkSize \in Nat \ {0} /\ QueueSize \in Nat \ {0} /\ BatchSize \in Nat \ {0}
  /\ Weight \in Nat \ {0} /\ MaxPending \in Nat \ {0} /\ MaxPubs \in Nat \ {0}

VARIABLES
  (* The map and the entries' lifecycle *)
  map,         \* "live", "freeing" (in cpu_map_free) or "freed"
  cpuMap,      \* cpuMap[c]: the RCU pointer to the entry of CPU c
  online,      \* the CPUs cpu_online() reports
  life,        \* life[e]: "unused", "live", "retired" (unmapped) or "stopped"
  grace,       \* grace[e]: sources the grace period of a retired e waits for
  refs,        \* refs[e]: the entry's refcount; it keeps e's progress readable
  (* struct bpf_cpu_map_domain *)
  target,      \* target[d]
  lastTail,    \* lastTail[d]
  pending,     \* pending[d]
  (* struct cpu_map_progress *)
  submitted,   \* submitted[e]: tickets handed out
  completed,   \* completed[e]: the published watermark
  (* Sources *)
  src,         \* src[s]: control state, see SrcState
  bulk,        \* bulk[s][e]: domains of the frames in the per-CPU bulk of e
  (* Rings and kthreads *)
  log,         \* log[e]: every packet inserted in the ring, in ticket order
  taken,       \* taken[e]: tickets dequeued by the kthread (its "processed")
  gro,         \* gro[e]: tickets dequeued and held by GRO or the normal list
  packets,     \* packets[e]: dequeued since the last flush
  kpc,         \* kpc[e]: the kthread's control state
  (* History *)
  pubs,        \* pubs[d]: ring insertions of the domain so far
  top,         \* top[d]: latest insertion of the domain handed to the stack
  waived       \* tickets a domain left behind on an offline CPU

mapVars  == <<map, cpuMap, online, life, grace>>
domVars  == <<target, lastTail, pending>>
srcVars  == <<src, bulk>>
ringVars == <<log, submitted, pubs>>
kthVars  == <<taken, gro, packets, kpc, completed, top>>
vars     == <<mapVars, refs, domVars, srcVars, ringVars, kthVars, waived>>

-----------------------------------------------------------------------------
(* State *)

Packets == [dom : Domains, pub : Nat]

(* pc of a source: "idle" outside its RCU section, "poll" between packets, *)
(* "admit" holding a native frame reserved on ent for bq_enqueue, "skb"    *)
(* holding a generic skb reserved on ent, "produce" and "commit" inside    *)
(* the producer lock of ent, before and after __ptr_ring_produce.  next is *)
(* where the source goes after the lock, dom the domain of the packet in   *)
(* hand, i the index of the bulk flush loop, ok the outcome of the insert. *)
SrcState ==
  [pc : {"idle", "poll", "admit", "skb", "produce", "commit"},
   next : {"poll", "admit", "skb"}, ent : Entries \cup {NoEntry},
   dom : Domains \cup {NoDomain}, i : Nat, ok : BOOLEAN]

Idle == [pc |-> "idle", next |-> "poll", ent |-> NoEntry, dom |-> NoDomain,
         i |-> 1, ok |-> FALSE]
Polling == [Idle EXCEPT !.pc = "poll"]

MapShape ==
  /\ map \in {"live", "freeing", "freed"}
  /\ cpuMap \in [Cpus -> Entries \cup {NoEntry}]
  /\ online \in SUBSET Cpus
  /\ life \in [Entries -> {"unused", "live", "retired", "stopped"}]
  /\ grace \in [Entries -> SUBSET Sources]
  /\ refs \in [Entries -> Int]

DomainShape ==
  /\ target \in [Domains -> Entries \cup {NoEntry}]
  /\ lastTail \in [Domains -> Nat]
  /\ pending \in [Domains -> Int]

SourceShape ==
  /\ src \in [Sources -> SrcState]
  /\ bulk \in [Sources -> [Entries -> Seq(Domains)]]

RingShape ==
  /\ log \in [Entries -> Seq(Packets)]
  /\ submitted \in [Entries -> Nat]
  /\ pubs \in [Domains -> Nat]

KthreadShape ==
  /\ taken \in [Entries -> Nat]
  /\ gro \in [Entries -> SUBSET Nat]
  /\ packets \in [Entries -> Nat]
  /\ kpc \in [Entries -> {"none", "top", "asleep", "recv", "flush", "exited"}]
  /\ completed \in [Entries -> Nat]
  /\ top \in [Domains -> Nat]
  /\ waived \in SUBSET (Entries \X Nat)

Shape == MapShape /\ DomainShape /\ SourceShape /\ RingShape /\ KthreadShape

(* Every variable has its type, and the two counters stay in theirs: the   *)
(* u32 pending of a domain never wraps, in either direction, and no        *)
(* refcount is put below zero.                                             *)
TypeOK ==
  /\ Shape
  /\ \A d \in Domains : pending[d] \in 0..MaxPending
  /\ \A e \in Entries : refs[e] \in Nat

Init ==
  /\ map = "live"
  /\ cpuMap = [c \in Cpus |-> NoEntry]
  /\ online = Cpus
  /\ life = [e \in Entries |-> "unused"]
  /\ grace = [e \in Entries |-> {}]
  /\ refs = [e \in Entries |-> 0]
  /\ target = [d \in Domains |-> NoEntry]
  /\ lastTail = [d \in Domains |-> 0]
  /\ pending = [d \in Domains |-> 0]
  /\ submitted = [e \in Entries |-> 0]
  /\ completed = [e \in Entries |-> 0]
  /\ src = [s \in Sources |-> Idle]
  /\ bulk = [s \in Sources |-> [e \in Entries |-> <<>>]]
  /\ log = [e \in Entries |-> <<>>]
  /\ taken = [e \in Entries |-> 0]
  /\ gro = [e \in Entries |-> {}]
  /\ packets = [e \in Entries |-> 0]
  /\ kpc = [e \in Entries |-> "none"]
  /\ pubs = [d \in Domains |-> 0]
  /\ top = [d \in Domains |-> 0]
  /\ waived = {}

(* Tickets of e that are in the ring or held by GRO. *)
Outstanding(e) == (taken[e] + 1 .. Len(log[e])) \cup gro[e]

RingEmpty(e) == taken[e] = Len(log[e])
RingFull(e)  == Len(log[e]) - taken[e] >= QueueSize

-----------------------------------------------------------------------------
(* Control plane: map update, delete and free, CPU hotplug *)

(* After the xchg of the RCU pointer: the old entry is queued for free_work, *)
(* which runs once the sources now inside an RCU section have left it.       *)
Retire(old, newLife) ==
  IF old = NoEntry
  THEN life' = newLife /\ UNCHANGED grace
  ELSE /\ life' = [newLife EXCEPT ![old] = "retired"]
       /\ grace' = [grace EXCEPT ![old] = {s \in Sources : src[s].pc # "idle"}]

UpdateElem(e) ==
  LET c == CpuOf[e] IN
  /\ map = "live"
  /\ life[e] = "unused"
  /\ cpuMap' = [cpuMap EXCEPT ![c] = e]
  /\ Retire(cpuMap[c], [life EXCEPT ![e] = "live"])
  /\ refs' = [refs EXCEPT ![e] = 1]
  /\ kpc' = [kpc EXCEPT ![e] = "top"]
  /\ UNCHANGED <<map, online, domVars, srcVars, ringVars, taken, gro, packets,
                 completed, top, waived>>

DeleteElem(c) ==
  /\ map = "live"
  /\ cpuMap[c] # NoEntry
  /\ cpuMap' = [cpuMap EXCEPT ![c] = NoEntry]
  /\ Retire(cpuMap[c], life)
  /\ UNCHANGED <<map, online, refs, domVars, srcVars, ringVars, kthVars, waived>>

(* Faulty: a sleeping kthread is not woken to see that it should stop. *)
KthreadStopNoWake(e) ==
  /\ kpc[e] = "top"
  /\ RingEmpty(e)
  /\ kpc' = [kpc EXCEPT ![e] = "exited"]
  /\ life' = [life EXCEPT ![e] = "stopped"]
  /\ refs' = [refs EXCEPT ![e] = @ - 1]

(* __cpu_map_entry_free: kthread_stop() returns once the kthread has found *)
(* the ring empty and exited; ring and bulks are freed, one reference put. *)
KthreadStop(e) ==
  /\ kpc[e] \in {"top", "asleep"}
  /\ RingEmpty(e)
  /\ kpc' = [kpc EXCEPT ![e] = "exited"]
  /\ life' = [life EXCEPT ![e] = "stopped"]
  /\ refs' = [refs EXCEPT ![e] = @ - 1]

FreeWork(e) ==
  /\ life[e] = "retired"
  /\ grace[e] = {}
  /\ KthreadStop(e)
  /\ UNCHANGED <<map, cpuMap, online, grace, domVars, srcVars, ringVars, taken,
                 gro, packets, completed, top, waived>>

(* cpu_map_free: no program uses the map any more and a grace period has   *)
(* passed.  Its entries are stopped one by one, then the domains' targets  *)
(* are put.                                                                *)
MapFreeBegin ==
  /\ map = "live"
  /\ \A s \in Sources : src[s].pc = "idle"
  /\ map' = "freeing"
  /\ UNCHANGED <<cpuMap, online, life, grace, refs, domVars, srcVars, ringVars,
                 kthVars, waived>>

MapFreeEntry(c) ==
  /\ map = "freeing"
  /\ cpuMap[c] # NoEntry
  /\ cpuMap' = [cpuMap EXCEPT ![c] = NoEntry]
  /\ KthreadStop(cpuMap[c])
  /\ UNCHANGED <<map, online, grace, domVars, srcVars, ringVars, taken, gro,
                 packets, completed, top, waived>>

MapFreeEnd ==
  /\ map = "freeing"
  /\ \A c \in Cpus : cpuMap[c] = NoEntry
  /\ map' = "freed"
  /\ refs' = [e \in Entries |-> refs[e] - Cardinality({d \in Domains : target[d] = e})]
  /\ target' = [d \in Domains |-> NoEntry]
  /\ UNCHANGED <<cpuMap, online, life, grace, lastTail, pending, srcVars,
                 ringVars, kthVars, waived>>

Offline(c) ==
  /\ c \in online
  /\ online' = online \ {c}
  /\ UNCHANGED <<map, cpuMap, life, grace, refs, domVars, srcVars, ringVars,
                 kthVars, waived>>

Online(c) ==
  /\ c \notin online
  /\ online' = online \cup {c}
  /\ UNCHANGED <<map, cpuMap, life, grace, refs, domVars, srcVars, ringVars,
                 kthVars, waived>>

-----------------------------------------------------------------------------
(* Sources *)

PollBegin(s) ==
  /\ map = "live"
  /\ src[s].pc = "idle"
  /\ src' = [src EXCEPT ![s] = Polling]
  /\ UNCHANGED <<mapVars, refs, domVars, bulk, ringVars, kthVars, waived>>

(* The driver flushes every bulk before its poll ends. *)
PollEnd(s) ==
  /\ src[s].pc = "poll"
  /\ \A e \in Entries : bulk[s][e] = <<>>
  /\ src' = [src EXCEPT ![s] = Idle]
  /\ grace' = [e \in Entries |-> grace[e] \ {s}]
  /\ UNCHANGED <<map, cpuMap, online, life, refs, domVars, bulk, ringVars,
                 kthVars, waived>>

(* Faulty: the watermark of the target is not looked at. *)
BusyReserved(d) == pending[d] > 0

(* cpu_map_domain_busy *)
Busy(d) == pending[d] > 0 \/ completed[target[d]] < lastTail[d]

(* bpf_cpumap_get_state, and when its snapshot says the domain has drained; *)
(* for an unused domain the cpu is ~0U and the counters are 0.              *)
GetState(d) ==
  IF target[d] = NoEntry
  THEN [cpu |-> NoEntry, last_tail |-> 0, completed |-> 0, pending |-> 0]
  ELSE [cpu |-> CpuOf[target[d]], last_tail |-> lastTail[d],
        completed |-> completed[target[d]], pending |-> pending[d]]

Drained(state) == state.pending = 0 /\ state.completed >= state.last_tail

(* Faulty: the reservations are all that is looked at. *)
MayLeaveUnreserved(d) == target[d] = NoEntry \/ pending[d] = 0

(* A domain may leave its target: it has none, or no reservation is held   *)
(* there and either its CPU is offline or its watermark is reached.        *)
MayLeave(d) ==
  \/ target[d] = NoEntry
  \/ /\ pending[d] = 0
     /\ CpuOf[target[d]] \notin online \/ ~Busy(d)

Chosen(d, c) ==
  IF MayLeave(d) /\ cpuMap[c] # NoEntry /\ c \in online
  THEN cpuMap[c] ELSE target[d]

(* Faulty: a replaced entry is accepted. *)
UsableReplaced(e) == e # NoEntry /\ CpuOf[e] \in online

(* On an online CPU and not replaced. *)
Usable(e) == e # NoEntry /\ CpuOf[e] \in online /\ cpuMap[CpuOf[e]] = e

(* Faulty: the old target is not put. *)
SwitchRefsNoPut(old, new) ==
  [e \in Entries |-> IF new # old /\ e = new THEN refs[e] + 1 ELSE refs[e]]

(* The new target is referenced, the old one is put. *)
SwitchRefs(old, new) ==
  [e \in Entries |->
     CASE new = old -> refs[e]
       [] new # old /\ e = new -> refs[e] + 1
       [] new # old /\ e = old -> refs[e] - 1
       [] OTHER -> refs[e]]

(* pending is a u32: a reservation that would wrap it is refused. *)
Countable(d) == pending[d] < MaxPending

(* The tickets a domain leaves on an offline CPU when it moves away. *)
LeftBehind(d, old, new) ==
  IF new = old \/ old = NoEntry \/ CpuOf[old] \in online THEN {}
  ELSE {<<old, t>> : t \in {u \in Outstanding(old) : log[old][u].dom = d}}

(* cpu_map_reserve: one critical section of the domain lock.  A redirect   *)
(* that finds no usable target, or pending at its limit, drops the packet  *)
(* and changes nothing.                                                    *)
Reserve(s, d, c, path) ==
  LET old == target[d]
      new == Chosen(d, c) IN
  /\ src[s].pc = "poll"
  /\ Usable(new)
  /\ Countable(d)
  /\ pubs[d] + pending[d] < MaxPubs
  /\ pending' = [pending EXCEPT ![d] = @ + 1]
  /\ target' = [target EXCEPT ![d] = new]
  /\ lastTail' = [lastTail EXCEPT ![d] = IF new = old THEN @ ELSE 0]
  /\ refs' = SwitchRefs(old, new)
  /\ waived' = waived \cup LeftBehind(d, old, new)
  /\ src' = [src EXCEPT ![s] = [Polling EXCEPT !.pc = path, !.ent = new, !.dom = d]]
  /\ UNCHANGED <<mapVars, bulk, ringVars, kthVars>>

(* bq_enqueue, with room in the bulk. *)
Enqueue(s) ==
  LET e == src[s].ent IN
  /\ src[s].pc = "admit"
  /\ Len(bulk[s][e]) < BulkSize
  /\ bulk' = [bulk EXCEPT ![s][e] = Append(@, src[s].dom)]
  /\ src' = [src EXCEPT ![s] = Polling]
  /\ UNCHANGED <<mapVars, refs, domVars, ringVars, kthVars, waived>>

ProducerLocked(e) ==
  \E s \in Sources : src[s].pc \in {"produce", "commit"} /\ src[s].ent = e

(* Taking the producer lock: for a full bulk in bq_enqueue, for a bulk at  *)
(* the end of the poll, for a generic skb.                                 *)
Lock(s, e, pc) ==
  /\ src[s].pc = pc
  /\ ~ProducerLocked(e)
  /\ src' = [src EXCEPT ![s] = [@ EXCEPT !.pc = "produce", !.next = pc, !.ent = e, !.i = 1]]
  /\ UNCHANGED <<mapVars, refs, domVars, bulk, ringVars, kthVars, waived>>

FlushFull(s) ==
  /\ src[s].pc = "admit"
  /\ Len(bulk[s][src[s].ent]) = BulkSize
  /\ Lock(s, src[s].ent, "admit")

FlushBulk(s, e) ==
  /\ bulk[s][e] # <<>>
  /\ Lock(s, e, "poll")

GenericLock(s) == Lock(s, src[s].ent, "skb")

(* The domain of the packet a source is inserting. *)
Inserting(s) ==
  IF src[s].next = "skb" THEN src[s].dom ELSE bulk[s][src[s].ent][src[s].i]

(* __ptr_ring_produce *)
Produce(s) ==
  LET e == src[s].ent
      d == Inserting(s) IN
  /\ src[s].pc = "produce"
  /\ src' = [src EXCEPT ![s] = [@ EXCEPT !.pc = "commit", !.ok = ~RingFull(e)]]
  /\ IF RingFull(e)
     THEN UNCHANGED <<log, pubs>>
     ELSE /\ log' = [log EXCEPT ![e] = Append(@, [dom |-> d, pub |-> pubs[d] + 1])]
          /\ pubs' = [pubs EXCEPT ![d] = @ + 1]
  /\ UNCHANGED <<mapVars, refs, domVars, bulk, submitted, kthVars, waived>>

(* Faulty: the flush at the end of a poll does not wake the kthread. *)
WakesGeneric(s) == src[s].next = "skb" /\ src[s].ok

(* bq_flush_to_queue does not wake the kthread: __cpu_map_flush does after *)
(* it, at the end of the poll; a generic insert does when it succeeded.    *)
Wakes(s) == src[s].next = "poll" \/ (src[s].next = "skb" /\ src[s].ok)

Wake(e) == kpc' = [kpc EXCEPT ![e] = IF @ = "asleep" THEN "top" ELSE @]

(* After a commit the source goes on with the next frame of the bulk ...   *)
MoreFrames(s) == src[s].next # "skb" /\ src[s].i < Len(bulk[s][src[s].ent])

NextFrame(s) ==
  /\ MoreFrames(s)
  /\ src' = [src EXCEPT ![s] = [@ EXCEPT !.pc = "produce", !.i = src[s].i + 1, !.ok = FALSE]]
  /\ UNCHANGED <<bulk, kpc>>

(* ... or leaves the lock, resets a flushed bulk, perhaps wakes the kthread *)
(* and, when the bulk was full, still has the frame in hand to enqueue.     *)
Unlock(s) ==
  LET e == src[s].ent IN
  /\ ~MoreFrames(s)
  /\ bulk' = IF src[s].next = "skb" THEN bulk ELSE [bulk EXCEPT ![s][e] = <<>>]
  /\ src' = [src EXCEPT ![s] =
               IF src[s].next = "admit"
               THEN [@ EXCEPT !.pc = "admit", !.next = "poll", !.i = 1, !.ok = FALSE]
               ELSE Polling]
  /\ IF Wakes(s) THEN Wake(e) ELSE UNCHANGED kpc

(* cpu_map_commit: a failed insert takes no ticket but ends its reservation *)
CpuMapCommit(d, e, ok) ==
  /\ submitted' = [submitted EXCEPT ![e] = IF ok THEN @ + 1 ELSE @]
  /\ lastTail' = [lastTail EXCEPT ![d] = IF ok THEN submitted[e] + 1 ELSE @]
  /\ pending' = [pending EXCEPT ![d] = @ - 1]

Commit(s) ==
  /\ src[s].pc = "commit"
  /\ CpuMapCommit(Inserting(s), src[s].ent, src[s].ok)
  /\ NextFrame(s) \/ Unlock(s)
  /\ UNCHANGED <<mapVars, refs, target, log, pubs, taken, gro, packets,
                 completed, top, waived>>

-----------------------------------------------------------------------------
(* The kthread of an entry *)

Sleep(e) ==
  /\ kpc[e] = "top"
  /\ RingEmpty(e)
  /\ kpc' = [kpc EXCEPT ![e] = "asleep"]
  /\ UNCHANGED <<mapVars, refs, domVars, srcVars, ringVars, taken, gro, packets,
                 completed, top, waived>>

(* __ptr_ring_consume_batched and cpu_map_receive_ordered: the frames the  *)
(* remote program passes and that get an skb go to GRO, the others (DROP,  *)
(* a second REDIRECT, no skb) are freed.                                   *)
Receive(e) ==
  LET avail == Len(log[e]) - taken[e]
      n == IF avail < BatchSize THEN avail ELSE BatchSize
      batch == taken[e] + 1 .. taken[e] + n IN
  /\ kpc[e] = "top"
  /\ ~RingEmpty(e)
  /\ taken' = [taken EXCEPT ![e] = @ + n]
  /\ packets' = [packets EXCEPT ![e] = @ + n]
  /\ \E passed \in SUBSET batch : gro' = [gro EXCEPT ![e] = @ \cup passed]
  /\ kpc' = [kpc EXCEPT ![e] = "recv"]
  /\ UNCHANGED <<mapVars, refs, domVars, srcVars, ringVars, completed, top, waived>>

(* GRO and the normal list hand a packet to the stack, keeping the order   *)
(* of a domain's packets: at will while receiving, all of them in a flush. *)
Deliver(e, t) ==
  LET p == log[e][t] IN
  /\ kpc[e] \in {"recv", "flush"}
  /\ t \in gro[e]
  /\ \A u \in gro[e] : log[e][u].dom = p.dom => t <= u
  /\ gro' = [gro EXCEPT ![e] = @ \ {t}]
  /\ top' = [top EXCEPT ![p.dom] = IF p.pub > @ THEN p.pub ELSE @]
  /\ UNCHANGED <<mapVars, refs, domVars, srcVars, ringVars, taken, packets, kpc,
                 completed, waived>>

(* After a batch: flush every Weight packets or when the ring is empty. *)
CheckFlush(e) ==
  /\ kpc[e] = "recv"
  /\ kpc' = [kpc EXCEPT ![e] =
               IF packets[e] >= Weight \/ RingEmpty(e) THEN "flush" ELSE "top"]
  /\ UNCHANGED <<mapVars, refs, domVars, srcVars, ringVars, taken, gro, packets,
                 completed, top, waived>>

(* Faulty: the flush of an unordered entry, which may keep young packets   *)
(* while the ring has more.                                                *)
FlushedWhenEmpty(e) == RingEmpty(e) => gro[e] = {}

(* gro_flush_normal has handed everything to the stack. *)
GroFlushed(e) == gro[e] = {}

(* Faulty: what was submitted counts as processed. *)
ProcessedSubmitted(e) == submitted[e]

(* The kthread's "processed": the tickets it has dequeued. *)
Processed(e) == taken[e]

PublishCompleted(e) ==
  /\ kpc[e] = "flush"
  /\ GroFlushed(e)
  /\ completed' = [completed EXCEPT ![e] = Processed(e)]
  /\ packets' = [packets EXCEPT ![e] = 0]
  /\ kpc' = [kpc EXCEPT ![e] = "top"]
  /\ UNCHANGED <<mapVars, refs, domVars, srcVars, ringVars, taken, gro, top, waived>>

-----------------------------------------------------------------------------
ControlNext ==
  \/ \E e \in Entries : UpdateElem(e) \/ FreeWork(e)
  \/ \E c \in Cpus : DeleteElem(c) \/ MapFreeEntry(c)
  \/ \E c \in HotCpus : Offline(c) \/ Online(c)
  \/ MapFreeBegin
  \/ MapFreeEnd

(* The steps a source takes by itself once it is inside a poll. *)
SourceStep(s) ==
  \/ PollEnd(s)
  \/ Enqueue(s)
  \/ FlushFull(s)
  \/ \E e \in Entries : FlushBulk(s, e)
  \/ GenericLock(s)
  \/ Produce(s)
  \/ Commit(s)

SourceNext(s) ==
  \/ PollBegin(s)
  \/ \E d \in Domains, c \in Cpus, path \in {"admit", "skb"} : Reserve(s, d, c, path)
  \/ SourceStep(s)

KthreadStep(e) ==
  \/ Receive(e)
  \/ \E t \in 1..Len(log[e]) : Deliver(e, t)
  \/ CheckFlush(e)
  \/ PublishCompleted(e)

KthreadNext(e) == Sleep(e) \/ KthreadStep(e)

Next ==
  \/ ControlNext
  \/ \E s \in Sources : SourceNext(s)
  \/ \E e \in Entries : KthreadNext(e)

Spec == Init /\ [][Next]_vars

=============================================================================
