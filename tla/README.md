# Specifications of the kernel patch series in this repository

The repository is a collection of Linux kernel work: patch series under
development or being backported, the design notes, models and reproducers that
go with them, and scripts that build and boot the result. There is no single
program; each directory is one series, and the successive revisions of a series
have directories of their own. The specifications here follow the series whose
logic is a protocol between CPUs, tasks or callbacks.

Each component has a module that models its newest revision, a module or a
section with its properties, a configuration or two for TLC, and, where the
protocol is worth it, an abstract specification it is shown to implement and
proofs that hold for every size.

## Inventory

| Component | Where (newest revision first) | State | Operations | What is hard | What makes it correct |
|---|---|---|---|---|---|
| Ordered CPUMAP | `rfs_bpf_cpumap/patch/cpumap-rfs-v2/kernel/0003-*.patch`, documented by `0006-*.patch` | per map: RCU array of CPU entries, array of domains (target, last_tail, pending); per entry: ring, per-CPU bulks, kthread, refcount, progress (submitted, completed) | reserve, enqueue, bulk flush, generic insert, commit, kthread batch, GRO flush and publication, map update / delete / free, state snapshot | many sources, per-CPU bulks that outlive the domain lock, RCU-deferred teardown, GRO holding packets after dequeue, CPU hotplug, full rings | packets of a domain reach the stack in insertion order across migrations; reservations and references are exact; a stopped entry is unused |
| CPUMAP redirect intent | same patch, `bpf_cpumap_redirect` and the `net/core/filter.c` hunks | `bpf_redirect_info` of a CPU | set intent, redirect, error paths | a record reused by many redirect kinds | a domain is never taken for an entry; the last request is carried out |
| IPVS overload flag | `ipvs-overload-fix/` | totalconns, thresholds, OVERLOAD flag, dst_lock | bind, unbind, edit | lockless counting against a locked edit on x86-TSO | no threshold crossing is missed |
| Sharded i_mmap | `patches-openEuler-26.09-20260827`, earlier `unixbench-opt`, `mmap_*` | central tree or NUMA shards, contention counter, VMA count | insert, adjust, remove, install shards, walk, take all locks | installation against concurrent insertion, lockless choice of a lock | a walker sees every mapped VMA once; all locks exclude all work |
| Per-CPU mm cache | `mm_cache_v3`, earlier `mm_pcpu_cache` | CPU and node caches of percpu backing, per-node hotplug lists | alloc, free, count, hotplug | two tiers, preemption between them, hotplug | a backing has one owner and is zero when handed out; no page is miscounted |
| nft_set_pipapo | `OLK-5.10-maybe-unused`, earlier `CVE-2026-72252`, `OLK-5.10-four-preps`, `CVE-FIX`, `cve-fix` | match data, its clone, element generations, batch records | insert, deactivate, flush, commit, abort, lookup, destroy | failure between clone and commit, lockless lookup | an abort restores the live match, nothing freed is reachable, nothing leaks |
| sockmap receive sequence | `sockmap-patch-v6`, older revisions | receive queue, ingress queues, copied_seq | verdict, redirect, partial read, skip, attach, detach | verdict softirq and worker against a reader | copied_seq counts every byte once, in order |
| sockmap psock work | `sockmap_redirect/patches-v2` | psock references, backlog work, sk_forward_alloc | redirect, work, receive, close, delete, reinsert | worker, close and destroy work wait for each other | references and charges are exact; close ends |
| NUMA-sharded task list | `tasklist_opt`, earlier `numa-domain-v2-patches`, `olk-patch`, `patches`, `tasklist_dev` | per-domain task lists with locks, group state locks, child lists | fork, exit, reparent, wait, iterate | partial locks instead of one, RCU readers, hand-over of a reaper | every live task is found once; one thread reaps a child |
| conntrack expectations | `CVE-2026-80668`, `-510`, `cve_patches/CVE-2026-80668` | expectation table, dead flag | insert, unlink, GC | RCU lookup of a dying entry | each expectation is released once |
| Page-fault lock retry | `uptodate-fault-lock-v2-adapted`, `page_fault`, `pte-boundary-series` | fault flags, VMA / mmap lock, folio lock | lock or retry | which lock is still held on return | the lock is released exactly once |
| ipset readers | `CVE-2026-72436` | bitmap | test | one lockless read | – |
| Fixes with reproducers | `ip_rt_bug`, `qdisc_*`, `reproducers`, `vxlan_repro` | – | – | – | – |
| Micro-optimisations | `unix-mainline-*` | – | – | – | – |
| Harness | `exec`, `skills`, `test`, `set-user.sh` | – | – | – | – |

The components do not call one another: each series applies to a kernel by
itself. The redirect intent feeds ordered CPUMAP (`xdp_do_redirect` passes the
domain and candidate CPU of the intent to `cpu_map_enqueue_ordered`), and the
two sockmap components are two views of one socket by two independent series.

## Modules

| Module | What it is |
|---|---|
| `CpuMap` | ordered CPUMAP: sources, bulks, rings, kthreads, control plane |
| `DomainFifo` | what ordered CPUMAP promises one domain, without CPUs, rings or tickets |
| `CpuMapProperties` | properties of `CpuMap`, the refinement mapping to `DomainFifo`, fairness |
| `CpuMapProofs` | its proofs: counting, references, order, the refinement; and those of `RedirectInfo` |
| `RedirectInfo` | the redirect intent of a CPU; its proofs are the last section of `CpuMapProofs` |
| `IpvsOverload`, `IpvsOverloadProofs` | the overload flag on x86-TSO with its properties, and its proofs |
| `ShardedMmap` | sharded i_mmap: writers, walkers, mm_take_all_locks, installation |
| `VmaSet` | what i_mmap promises: one set of VMAs, walked as it is |
| `ShardedMmapProperties`, `ShardedMmapProofs` | its invariants and the mapping to `VmaSet`, and their proofs |
| `MmCache`, `MmCacheProofs` | the two-tier mm cache, percpu counters and CPU hotplug with its properties, and its proofs |
| `BackingPool` | what the cache promises: each backing to one mm at a time, reading zero |
| `Pipapo` | one pipapo set under nf_tables batches and packet lookups |
| `TxSet` | what a set promises: batches that are all or nothing |
| `PipapoProperties`, `PipapoProofs` | properties of `Pipapo` and the mapping to `TxSet`, and their proofs |
| `SockmapSeq`, `SockmapSeqProofs` | copied_seq of a TCP socket in a sockmap with its properties, and its proofs |
| `PsockWork`, `PsockWorkProofs` | the psocks of a TCP socket: references, worker, close, memory accounting, and its proofs |
| `TaskTree`, `TaskTreeProofs` | the process tree under shard, group state and links locks with its properties, and its proofs |
| `MC*` | model values for the runs |

Definitions whose comment begins with "Faulty" are not part of a
specification. Each is the following definition with a plausible slip, and each
property has one that breaks it.

## Runs

| Run | Instance | Shows |
|---|---|---|
| `cpumap_migration` | 2 CPUs, one of which may go offline and return, 2 sources, 1 domain, bulk 1, ring 2, batch 2, weight 3, 3 insertions | `NoOvertaking`, refinement of `DomainFifo` |
| `cpumap_replace` | 2 generations of 1 CPU, 2 domains, 2 sources, bulk 2, ring 2, batch 2, weight 3, 2 insertions | `StoppedIsUnused`, `RefsExact`, `WatermarkHanded`, `QuietDomain` |
| `cpumap_stop` | 2 generations of 1 CPU, 1 source, all sizes 1, weight 2, fair | `TeardownEnds`, `TicketsComplete` |
| `redirect_intent` | an ordered and an ordinary CPUMAP, a DEVMAP | `LastRequestDecides` |
| `ipvs_overload` | 2 binds, 1 unbind, 2 edits, every consistent start with counts 2 to 4, fair | `FlagRight` (the program's count of misses is 0), `SoleWriter`, `EpochsEnd` |
| `mmap_sharding` | 2 mms of one VMA each on 2 shards, 1 walker, 1 locker, threshold 2 | `TreesExact`, `AllLocksExclude`, `NoDeadlock`, refinement of `VmaSet` |
| `mmcache_hotplug` | 2 CPUs on 2 nodes, 2 mms, 2 backings, caches of 1, batch 2, at most 2 pages | `OnePlace`, `RssExact`, `DeadHoldNothing`, refinement of `BackingPool` |
| `pipapo_batches` | 2 elements of one key, 3 tables, 1 reader, batches of 3 records | `NothingFreedInUse`, `FreedOnce`, `CloneIsPristine`, refinement of `TxSet` |
| `sockmap_seq` | 6 bytes in skbs of 1 or 2, 1 skb from another socket, 2 psocks, no gap | `EveryByteOnce`, `BehindUnread`, `NativeContinues` |
| `sockmap_mixed` | 4 bytes, the gap "overtake": skips while passed skbs wait in `ingress_skb` | `WithinReceived` is violated (see the finding) |
| `psock_work` | 2 successive psocks, an ingress and an egress skb of which 1 is redirected, 1 call, 1 `-EAGAIN`, fair | `LedgerExact`, `RefsExact`, `FreedUnused`, `ChargedIsQueued`, `CloseEnds`, `UnlinkedIsFreed` |
| `task_tree` | a chain of 4 processes on 2 nodes and 1 task to be forked, 4 that exit, 3 that fork, 1 subreaper, 1 tracer, fair | `ListsExact`, `NobodyLeftBehind`, `ReapedOnce`, `ZombiesAnnounced`, `SubreapersKnown`, `ExitsEnd` |

## Ordered CPUMAP

### How the state corresponds to the code

* `cpuMap`, `online`: the RCU array of the map and `cpu_online()`. A member of
  `Entries` is one *generation* of a CPU's entry: replacing the entry of a CPU
  uses another member, as the code allocates another `bpf_cpu_map_entry`.
* `life`, `grace`: `free_work` is queued when the entry leaves the array
  (`Retire`) and runs after a grace period, that is when every source that was
  inside a poll at that moment has left it. `cpu_map_free` is three actions:
  the synchronisation, one per entry, and the domains' references.
* `refs`: the `refcount_t` added by the patch.
* `target`, `lastTail`, `pending`: `struct bpf_cpu_map_domain`.
* `submitted`, `completed`: `struct cpu_map_progress`.
* `src[s]`, `bulk[s]`: a source is a CPU in a NAPI poll. It reserves under the
  domain lock (`Reserve`), then holds the packet. A native frame goes to the
  bulk of the entry (`Enqueue`), after a flush when the bulk is full
  (`FlushFull`); all bulks are flushed before the poll ends (`FlushBulk`,
  `PollEnd`). A generic skb is inserted at once (`GenericLock`). Under the
  producer lock each frame takes two steps, `Produce` and `Commit`, because the
  kthread can consume it in between.
* `log[e]`: all packets ever inserted in the ring of `e`; a packet's ticket is
  its index. `taken[e]` are dequeued (the kthread's `processed`), the rest is
  the ring. `gro[e]` are the dequeued packets GRO or the normal list still hold.
* `kpc[e]`: the kthread's loop: look at the ring, sleep, receive a batch, flush
  at `Weight` packets or an empty ring and publish.
* `pubs`, `top`, `waived` are history: the order of insertion per domain, the
  latest packet handed to the stack, and the packets a domain left on an
  offline CPU. No guard of a code step reads them, except that `pubs` carries
  the bound on the behaviour's length.

Abstracted: packet contents and length; the remote XDP program (any subset of a
batch may pass, the rest is dropped, as is a second REDIRECT or a frame without
skb); GRO itself (it may hand a packet to the stack at any time and keeps the
order within a domain, which is what `gro_receive_skb` promises a flow);
statistics and tracing. A redirect that is refused leaves no state behind and so
is no step. The critical section of `cpu_map_reserve` is one step. The reads in
it that the domain lock does not protect are the RCU lookups, `cpu_online` and
`completed`. An entry found by a lookup and replaced before `pending` is
incremented still waits for this source's RCU section, so the outcome is that
of replacing it just afterwards; `completed` only grows. Tickets do not wrap
(the documentation of the patch states the assumption of less than half the
sequence space).

Allocation failures of an entry leave nothing in the map and are left out.
Drivers may flush in the middle of a poll in the model; nothing prevents it in
the code.

### What is checked

* `NoOvertaking`: while a packet is in a ring or in GRO, nothing newer of its
  domain has been handed to the stack, on any CPU or generation.
  `ImplementsDomainFifo` is the same as a refinement and also covers the
  moves: stranded packets must come from an offline CPU.
* `QuietDomain`: the drain criterion the documentation gives for
  `bpf_cpumap_get_state` is right in every state of a live map, the moments
  between insertion and commit included, and with another domain whose tickets
  move the same watermark.
* `ReservationsCounted` (proved, see below): `pending` is exactly the packets in
  bulks and hands, which is why a migration cannot overtake a bulk.
* `StoppedIsUnused`: no source holds or queues anything for an entry whose ring
  has been freed.
* `WatermarkHanded`: completion is published for packets the stack has, only.
* `TicketsComplete`: the flush of a full bulk does not wake the kthread; the
  flush at the end of the poll does, and it suffices.

Bounds. Three insertions are enough for a packet on the old target, one on the
new target, and one on the way back or in a failed insertion; a ring of 2 fills
up and makes an insertion fail in the middle of a flush; the bulk of 2 in
`cpumap_replace` holds the packets of two domains, and a bulk of 1 with two
packets pending, in the other two runs, is flushed because it is full; weight 3
with batch 2 lets the kthread take a second batch without flushing and take one
past the limit. `MaxPending` of 2 and 1 stands for `U32_MAX` and is reached. Sources and domains are symmetric, and in
`cpumap_replace`, where all entries are generations of one CPU, so are they. The
runs allow the state where nothing is left to do, after `cpu_map_free`, so
deadlock is not an error in them.

Fairness. The kthread and the workqueue are scheduled (weak fairness of their
steps). A source inside a poll goes on (weak). The producer lock is a queued
spinlock and a poll has a budget, so a source that is again and again able to
take the lock, flush a bulk or end its poll does (strong). Nothing obliges a
source to begin a poll or submit, nor the control plane to do anything but
finish what it began. `Sleep` is not fair.

Not stated as properties: tickets are compared as s64 differences of u64
counters, which only matters after 2^63 insertions; and a migration may be put
off forever by sources whose reservations overlap, which the documentation of
the patch accepts.

### What is proved

`CpuMapProofs` proves for all values of the constants allowed by
`CpuMapAssumption` (any number of CPUs, generations, domains and sources, any
sizes):

* `ReservationsAreCounted`: `Spec => []ReservationsCounted`;
* `TypeCorrect`: `Spec => []TypeOK`, which includes that `pending` stays in
  `0..MaxPending` and no refcount goes below zero;
* `RefsAreExact`: `Spec => []RefsExact`.

All three follow from `Invariance`, the inductive invariant `Inv`. `TypeOK` is
not inductive: a commit could take `pending` below zero, were it not for
`ReservationsCounted`, which needs to know that a committing source has its
domain in a bulk or in hand (`Sourced`: what each control state of a source
holds) and that a bulk index is inside the bulk. The references need `Mapped`:
an entry in the array is live, one array slot each, and an entry outside its
lifecycle was never a target before it was live. `PendingBound` is the check
against the limit in `cpu_map_reserve`. The cardinality facts (a set loses or
gains one element) are lemmas at the head of the module.

Order takes more. `AlwaysOrdered` is the inductive invariant
`Ordered == Inv /\ SourcesInv /\ KthreadInv /\ OrderInv`:

* `SourcesInv`: one source at a time has the producer lock of an entry
  (`OneProducer`), so that every inserted packet but the one in its hands has its
  ticket (`TicketsGiven`); an entry that a source uses is live or waits for that
  source's grace period (`InUse`); what is reserved is on its domain's target
  (`ReservedHome`);
* `KthreadInv`: the kthread's GRO list holds packets it has taken, none of them when
  it may sleep or stop (`GroHeld`), and the watermark is behind them
  (`WatermarkHanded`);
* `OrderInv`: a packet is *late* once an offline CPU has stranded it and *on time*
  otherwise. What is on its way and on time is on the target of its domain (`Homed`)
  or, when the target is gone, all on one entry (`Together`); the domain's last
  tail covers it unless its ticket is being handed out at this moment
  (`TailCovers`), which is what lets a reservation compare the tail with the
  watermark and move the domain; packets of a domain are numbered as they are
  inserted (`Numbered`), and what is late is older than what is on time
  (`LateOlder`).

From it follow `NobodyOvertakes` (`NoOvertaking`), `WatermarksAreHanded`,
`DrainedDomainsAreQuiet` (`QuietDomain`), `StoppedEntriesAreUnused`
(`StoppedIsUnused`), and `RefinesDomainFifo`: inserting a packet is `Insert` of
`DomainFifo`, delivery is `Hand` or `HandLate`, a batch of which the remote program
drops something is `Drop`, a reservation that moves a domain away from an offline
CPU is `Strand`, and every other step stutters (a packet that finds the ring full
never entered the FIFO).

Only model-checked: liveness (`TeardownEnds`, `TicketsComplete`).

## CPUMAP redirect intent

`ri` is the record of one CPU, `asked` what the last request asked for. A
request of any of the three maps overwrites some of the record's fields and
leaves others; `DoRedirect` is `xdp_do_redirect` and its generic twin, which
take the record and clear part of it. `tgt_value` is one word that holds a
domain or an entry; the model keeps both what was stored and as what it is
dispatched. `LastRequestDecides` is an action property: a redirect carries out
the last request, as the kind of target it was made for, or nothing. What
`__bpf_xdp_redirect_map` leaves when a lookup fails or a flag is refused is
kernel code outside the repository; such requests are left out.

`CpuMapProofs` ("The redirect intent") proves it for any maps and any sequence
(`RedirectsLastRequest`, from the invariant `RecordedAsAsked`), and that the
ORDERED bit always tells what `tgt_value` holds (`TargetsHaveTheirKind`).

## IPVS overload flag

`IpvsOverload` is the C program of the fix, `overload-ordering.c`, whose threads
stand for `ip_vs_bind_dest`, `ip_vs_unbind_dest` and `__ip_vs_update_dest`. A
destination's count, thresholds, flag and lock are memory locations; every
thread has a FIFO store buffer. A plain store enters the buffer, `Drain` moves
the oldest store to memory, a load sees the thread's own stores first, and
locked instructions (the counting and the lock's exchange) and the fence need an
empty buffer. The unlocking store is plain. `Release` takes the loads of
`update()` in one step: thresholds do not change under the lock, so only the
load of the count races.

The program runs one worker, which either binds or unbinds, and one edit; the
model takes sets of workers, so that binds and unbinds mix as in the kernel, and
up to `MaxEdits` edits in an epoch. `NewEpoch` is the reset of `main`.

Thresholds are those of the program divided by 25, plus unlimited (0), so the
count starts next to a threshold and crosses it in both directions. Without the
fence (`FenceEdit = FALSE`, the unpatched kernel) `FlagRight` fails, as
`model-results.txt` reports of the program. Fairness is that every thread runs
and that store buffers drain; the lock needs no strong fairness because a thread
takes it a bounded number of times per epoch.

`IpvsOverloadProofs` proves, for any binders, unbinders, thresholds, starts and
number of edits allowed by `IpvsAssumption`:

* `PlainReleaseProtects`: `Spec => []SoleWriter`, with or without the fence.
  The inductive invariant `LockInv` says where the lock is: free, or with
  exactly one thread that is in its critical section or whose store buffer still
  holds the releasing store, behind all its stores to the destination (`Shapes`,
  `Covered`, `Exclusive`); and that a done word in memory means an empty buffer
  (`DoneLast`).
* `FencedEditMissesNothing`: `FenceEdit => (Spec => []FlagRight)`. The invariant
  adds that thresholds are on their way only before the fence (`Thresholds`),
  what they will be (`Ordered`), and `Agreement`: the flag, in memory or in a
  store buffer, agrees with count and thresholds, or there is a *fixer*: the
  editor on its way to its update, a worker on its way to the lock, or a worker
  whose count equals the threshold in memory and so will take the lock. A count
  that moves past a threshold equals it at that moment, hence makes a fixer; the
  last fixer's update sees thresholds and count of memory, which is where the
  fence is needed.

Liveness (`EpochsEnd`) is only model-checked.

## Sharded i_mmap

An address_space has one interval tree under one rwsem until writers contend.
Tree and rwsem 0 are the central ones, the others the shards in locking order.
An mm is a writer under its own mmap_lock: it has a `job` of VMAs to insert,
adjust and remove, looks whether shards are published without any lock
(`load`), tries the lock of its tree, counts the contention when that fails,
and the writer whose failure reaches the threshold allocates the shards
(`alloc`), moves all VMAs under the central lock (`install`) and publishes. A
writer that took the central lock looks again under it. `prepare` and
`complete` are the removal and reinsertion around an adjustment: in between a
VMA is in no tree but its lock is held. A walker takes the read locks of the
layout it saw, blocking or trying, one lock after the other; a callback may end
the walk early, and a file-split walk may be run with the locks the caller
took. A locker (`mm_take_all_locks`) takes everything for writing.

`NoDeadlock` says that neither the lock order of the shards nor a path that
leaves with a lock stops everybody. `Waits(p)` names the blocking locks, with
somebody else as their owner; `SomebodyGoesOn` asks that not all operations under
way wait; and whoever does not wait has a step enabled, without which the first
part would say nothing. `VmaSet` is the abstract view: a set
each mm changes for itself, atomically; walkers see it as it is. Interval
geometry is abstracted (every VMA intersects every walk), as are the placement
of the shard memory on NUMA nodes and the freeing of shards with the inode.

`ShardedMmapProofs` proves type correctness, all the invariants of the run
(of `NoDeadlock` the part without `ENABLED`), that one writer at a time installs (`OneInstaller`), that
the lockless count is the number of mapped VMAs (`MappedIsCounted`),
`WalkSeesAll`, `LocksReturned` and the refinement, for any mms, walkers, lockers,
VMAs, shards and threshold. The inductive invariant has two halves. `Control` says who holds which lock at each place of the code
(`LocksExact`), that writers exclude (`Exclusive`), that the tree a writer chose
is still the right one when it holds its lock (`LayoutKnown`) and that the
contention counter is -1 from election to publication (`Elected`). The data half
says that a job can be applied (`JobsApply`), in which tree each mapped VMA is
(`Placed`), that the count is exact (`Counted`), and what a walk has passed so
far (`SeenSoFar`). The refinement is one lemma per kind of step: `ChangeRefines`,
`LookRefines`, `LeaveRefines`, and `OthersKeep` for the stutters.

`NoDeadlockAnywhere` proves `SomebodyGoesOn`. If everybody waited, rwsems would
be held only by lockers and blocking walkers on their way through the shards
(`HoldersOnTheWay`). Of the lockers there is one, since each has the central
rwsem; the shard it waits for is then a walker's, and that walker waits for a
later shard, which only the same locker could have; but it has not got there
(`NoLockerWaits`). So no rwsem is held for writing, no walker waits, none is held
at all, and nobody waits. The other half of `NoDeadlock`, that only the named
locks can keep a process from its step, is about `ENABLED` and only
model-checked.

## Per-CPU mm cache

`cpuCache` and `nodeCache` are the two tiers, `pool` the percpu allocator,
`value[b][c]` the word of CPU `c` in a backing. An mm goes round the states of
`pc`: `mm_init` tries the CPU's cache with preemption off, then the lock of the
node the task is on *by then*, then allocates; `Attach` puts the counter on the
hotplug list of the node it is set up on; `__mmdrop` detaches, zeroes all
possible CPUs' words and gives the backing back, to the CPU, the node, or the
allocator. `CpuDown`, `CpuDead` (one step per node, under that node's lock) and
`CpuUp` are hotplug. No code of the series drains the cache of a dead CPU; its
entry rests until the CPU returns. Counting is `percpu_counter_add` with its
batch.

`RssExact` is the point of moving the zeroing from `mm_init` to `__mmdrop`: the
counter of a live mm is exact although its backing served another mm, some words
were not zero when that one ended (only their sum was) and CPUs died in between.
`BackingPool` is the abstract view without caches.
The bounds make a CPU's cache overflow to the node and the node's to the
allocator, and let a backing pass between mms of different nodes.

`MmCacheProofs` proves type correctness, the three invariants and the refinement
for any CPUs, nodes, mms, backings, sizes of the caches and batch. `RssExact` needs
to know that a backing that changes hands reads zero on *every possible* CPU, not
only in sum (`Blank`), that two mms do not count in one backing (`OnePlace`,
`Owning`), and that no word reaches the batch (`Words`). `DeadHoldNothing` is about
the state after the walk over the nodes' lists; during it, `Folded` says that
what the walk has passed is empty, also if a counter is put on a list
behind it or in front of it meanwhile (`Listed`, `Dying`). The sum over the CPUs
is written as the number of units in words above zero less those below: the folds
of the library take an operator, which the provers cannot instantiate, while
cardinalities they can. In the refinement a hit in a cache or an allocation is `Take`,
`ZeroAll` is `Give`, counting and the death of a CPU are `Count`.

## nft_set_pipapo

A batch of commands runs under the commit mutex; the first change clones the
match, later ones work on the clone. `Insert` succeeds, finds the key, or fails
half way: then the clone is freed if nothing has been inserted into it and
marked erroneous otherwise. `Flip` is the generation's change in
`nf_tables_commit`, `Commit` the set's commit with its garbage collection and
the publication, `Abort` the rollback. Freed objects wait for the readers of
that moment (`doomed`). `Flush` deactivates everything it finds.

`FreedOnce` is the strongest of the properties: what is allocated is exactly
what the tables, the batch or the pending frees refer to, so nothing leaks and
nothing is freed twice. `TxSet` is the abstract view: readers see the last
committed set, an aborted batch never happened.

Simplifications: elements of a set and not of a map, so no references are held
by elements; a packet that looks up after the flip may see deletions before the
additions are published, as in the code, which the refinement shows as the time
between `closing` and the commit; objects that die together are freed together;
the garbage collection may be partial. The failure of an insertion at the size
limit after the set's own insertion succeeded is not in the series' hunks and is
left out. Two elements of one key collide, which is what the exists and failure
paths need. Records of three make an insertion, a deletion of the same or the
other element and a third change meet in one batch.

`PipapoProofs` proves the invariants and the refinement for any elements, keys,
tables, readers and batches. The inductive invariant joins `FreedOnce` with

* `Phasing`: which records, tables and readers each phase of a batch can have;
* `Cloning`: the clone's state tells its content. `NEW` is the match unchanged and
  no insertion on record, `MOD` the match with exactly the batch's insertions,
  `ERR` some part of that, and then the batch has failed. That a failed insertion
  may free a `NEW` clone and must keep the others rests on it, and so does
  `CloneIsPristine`;
* `Activity`: elements of the match are active in the old generation and those of
  the batch are not; in the young one exactly the deleted are not. It is why no
  element has two records and why the flip publishes the deletions of the
  batch and nothing else;
* `Lookups`: what a lookup goes through is in the match, or waits for this very
  reader. With `FreedOnce` it gives `NothingFreedInUse`, which alone is not
  inductive.

In the refinement an insertion is `Add` of `TxSet`; deletions, flushes and all
failed commands are `Delete` (of any elements, or none); `Flip` is `Commit`;
the set's commit is `Committed`, or `Destroy` when the batch deletes the set; the
rest stutters, packets and grace periods included. A sequence of records is
treated as the set of its entries without repetition: the lemmas at the head of
the module say what `Append`, `\o`, `SetToSeq` and `RemoveAt` do to it.

The change log of the deletion patch (`OLK-5.10-maybe-unused/0018-*.patch`) says
that deletions fail once a clone is erroneous. A flush does not look at the
state; as the batch is aborted anyway it makes no difference that any property
could tell.

## sockmap receive sequence

Bytes are units of sequence space. `Arrive` queues an skb. `PassDirect`,
`PassQueued`, `Skip` and `RedirectSelf` are the verdict; `RedirectIn` is another
socket's, which redirects an skb here. `WorkRange` and `WorkPublish` are the worker,
which computes the unread range of an skb and then queues a message or sends;
`WorkAgain` keeps the range over `-EAGAIN`, and `WorkFail` stops for good, which
leaves a psock that takes nothing any more. `RecvBegin`, `RecvMsg` and `RecvEnd` are a
psock read, which takes its copy of copied_seq at its start and writes it back at its
end; `NativeRecv` is `tcp_recvmsg` without a psock. `Attach`, `Stop` and `Detach` are
the psock's; between the last two nothing new is queued, and detach settles what was
never read.

* `tx` is `SK_PSOCK_TX_ENABLED`: `sk_psock_queue_msg` refuses without it.
* `alive`: the last reference has not been put. The worker and readers hold one, so
  `Stop` waits for them.
* `waiting`: the reader has read nothing yet. It may call `tcp_data_ready` itself, or
  sleep with the socket unlocked; in both cases a verdict runs inside it
  (`analysis.md:474-479` in `src/sockmap_redirect`).
* The `kind` of an skb keeps apart what the code keeps apart: `BPF_F_SELF_INGRESS`
  (`Trimmed`: set by `__SK_PASS` alone, it decides what is trimmed and what detach
  counts in `ingress_skb`) and `skb->sk` (`Ours`: it decides whether the message is of
  this socket, counted by `recvmsg`, and the one to defer to). A passed skb has both,
  a redirected skb of another socket neither, and one redirected to the socket's own
  ingress only the second.

`EveryByteOnce` relates all the queues to `rcv_nxt`: every byte is in
copied_seq, or will be counted by exactly one of them. `BehindUnread`
and `NativeContinues` are what user space notices: nothing is skipped before it
has been read, nothing is read twice.

The gaps. The series leaves five cases open in which the count goes wrong. All are
modelled, and the constant `Gaps` says which an instance contains:

| Gap | What happens | Where |
|---|---|---|
| `"overtake"` | a skip finds no message in `ingress_msg` to defer to and eats past passed skbs that wait in `ingress_skb`; the range the worker had computed is counted a second time | patch 3, 191-215 |
| `"self"` | an skb redirected to the socket's own ingress is eaten, then becomes a message of the socket itself and is counted again when it is read | patch 3, 172-176, 67-68 and 247; patch 2, 86; `analysis.md:533-605` |
| `"inside"` | a skip with nothing to defer to eats while a reader holds its copy of copied_seq, which the reader then writes back | patch 3, 252; `analysis.md:477-479` |
| `"adopt"` | the worker fails after `skb_set_owner_r`, and the next attempt takes another socket's skb for the socket's own | `concurrency-audit.md:37-45`, `change-proposal.md:139-140` |
| `"late"` | a pass has tested `SK_PSOCK_TX_ENABLED`, `sk_psock_stop` clears it, and the message is refused without having been counted | patch 3, 65-74; patch 4, 77 |

To see one, put it into `Gaps` in `sockmap_seq.cfg`; 4 bytes are enough. Each breaks
`EveryByteOnce` and `NativeContinues`; `"overtake"`, `"self"` and `"adopt"` count too
much and break `BehindUnread` and `WithinReceived` as well, `"inside"` and `"late"`
count too little and, at that size, break neither. `"self"` is plain sequential use, one skb
redirected to the socket that received it; the others need an interleaving.
`sockmap_seq` has no gap and shows the rest of the protocol right. Its worker then
never meets an skb that has been read to its end.

The finding is the first. The cover letter sets out to keep copied_seq within
rcv_nxt when drops follow passed data, and `sockmap_mixed` shows that it does not as long
as the passed data are in `ingress_skb`. The second the repository describes itself.

Proofs. `SockmapSeqProofs` proves type correctness, the three invariants and
`WithinReceived` for any verdicts, sizes of skbs and numbers of bytes, redirects and
psocks, and for queues of any length, under the hypothesis `Gaps = {}`. They say that
the rest of the modelled protocol needs no further exception; they say nothing about
an instance with a gap.
None of the invariants is inductive: a sum that
comes out right says nothing of where a segment lies, and `BehindUnread` needs
that. `IInv` says

* `Tiled`: the unread sequence space is covered without gap or overlap, in order, by
  the messages of `ingress_msg`, the skbs of `ingress_skb` and the receive queue,
  from what has been counted (the reader's local sequence, if there is one) to
  `rcv_nxt`. A message covers what is left of it and then `rx_seq_skip`; an skb
  what is left of it behind `copied_seq`, which never is past its end; other
  sockets' skbs cover nothing;
* `LastSelf`: `ingress_seq_msg` is the last message with data of this socket, which
  is what makes it the right one to defer a skip to. If there is none and no
  passed skb waits, the skipped skb begins at `copied_seq`, and eating it leaves
  hole; this is where the absence of `"overtake"` is used, and that of `"inside"`,
  since then no reader holds a copy;
* `Computed`: the range that the worker holds, or keeps over `-EAGAIN`, is what it
  would compute now, so that `copied_seq` does not move into the skb it is about;
* `Marked`: no skb in `ingress_skb` is the socket's own without the bit (the absence
  of `"self"` and `"adopt"`), so that eating it and reading it exclude each other;
* `Referenced`: the worker and readers run only before the last reference is put,
  and a reader that has read nothing agrees with `copied_seq`, so that a verdict
  inside it sees what it would see outside;
* `Detached`: a socket without a psock has nothing of one.

The lemmas at the head say how such a covering changes when a segment is appended,
taken off, shortened or lengthened, and that the lengths of adjacent segments add
up to the distance of the ends (`SumTelescopes`), which turns the covering into the
sums of `EveryByteOnce` and of `sk_psock_account_ingress_seq`.

Left out: stream parsers, `MSG_PEEK`, a second reader while one waits with the socket
unlocked, hard errors of ingress skbs (a dead socket), `sock_map_close`, which stops a
psock whose worker may run, a verdict that is still inside when the psock is detached,
and a `recvmsg` that finds no reference to take between `Stop` and `Detach` and falls
back to `tcp_recvmsg`. How far an egress skb has been sent is not kept: copied_seq does
not depend on it.

## sockmap psock work

One TCP socket S is given psocks one after the other. `RedirectFind` and
`RedirectQueue` are another socket's verdict, which finds the psock under RCU;
the worker pins its psock, peeks, takes the socket lock where it needs it,
charges, publishes or sends; `Receive` is the softirq receive path; `Call*` are
recvmsg and sendmsg; `Close*` is `sock_map_close` with its cancellation of the
work; `Detach`, `Stop`, `Destroy*` are `sk_psock_drop` and the destroy work.
Every update of `sk_forward_alloc` is a read and a later write, so that two of
them without the lock would lose one: `LedgerExact`.

Fairness. Started calls, works and softirqs go on. Those that wait for the
socket lock do so with strong fairness: a process that owns the socket sends the
softirq to the TCP backlog, and lock_sock waits on a queued spinlock, so that
the receive path cannot keep them out forever.

Bounds. Two psocks are one to be unlinked and one to be linked in its place
while the first is still worked on and freed; one skb, which the behaviour
chooses to be an ingress or an egress one, goes through every place of the
worker, is retried, received, refused or purged; with one more skb and call the
invariants hold as well, but liveness takes too long for a run.

Proofs. `PsockWorkProofs` proves type correctness and the four invariants
`LedgerExact`, `RefsExact`, `FreedUnused` and `ChargedIsQueued` for any finite
sets of psocks and skbs and any numbers of redirects, calls and retries. The
inductive invariant `Inv` adds to them

* `Callers` and `Alive`: a caller has a psock while it is in a call, and a psock
  has references exactly while it is live;
* `Stages`: what each stage of a removal has put an end to. Once detached, the
  socket no longer leads to the psock; once stopped, it takes no skb and queues no
  work; once cancelled, no redirect still has it and its worker is idle for good;
  once zapped, its queues are empty;
* `Workers` and `Owners`: who has the socket lock where, and that the queue of a
  worker with an skb in its hands is not empty;
* `Updating` and `Ledger`: only the owner of the socket is between the read and
  the write of `sk_forward_alloc`, and the value it will write is already the one
  that its charges call for; `LedgerExact` alone says nothing during an update
  and is not inductive;
* `NoEgress`: what is sent is not charged to S.

That close ends and that an unlinked psock is freed (`CloseEnds`,
`UnlinkedIsFreed`) is only model-checked.

Left out: the teardown of a child that was never accepted (the series says it
does not fix it), the stream parser, and the settlement of a negative forward
allocation.

## NUMA-sharded task list

`tasklist_opt/0001` replaces the one `tasklist_lock` by a lock per NUMA shard, a
`tasklist_state_lock` per thread group and a `tasklist_links_lock` per parent.
Fork, exit and release write-lock the home shard of the task they are about and
then the state of the groups concerned; waiting and ptrace lock all shards.

### How the state corresponds to the code

* A task is a `task_struct`; threads are tasks with the same `leader`, and the
  leader stands for the `signal_struct` (`isSub`, `hasSub`, `state`).
* `shard[n]`, `state[g]`: the holder of a lock. A links lock is held for one
  step, as is the `rcu_read_lock` around a hop to an ancestor. All-shard locking
  is one step that needs every shard free; its sections do not block.
* `copy_process` is `ForkLock` (shard), `ForkState` (the states of the current
  and, for a new thread, the same group; parents and tracer) and `ForkPublish`
  (children list, inherited subreaper flag, PIDs, unlock).
* `exit_notify` is `ExitLock`; `TakeTracee` and `DropTracee` for every tracee
  (pinned under the links lock, detached under its group's state lock, when it is
  looked at again); `FindChildReaper` when the task was its namespace's reaper;
  `ExitState`; for every child `TakeChild`, `LockChild` (looked at again),
  `FindThread` and one `Hop` per ancestor, `Adopt`, which looks at PF_EXITING of
  the new parent again under its links lock and otherwise goes back to
  `FindThread`; and `ExitNotify`.
* `release_task` is `ReleaseLock` and `ReleaseTask`; what somebody has set to
  EXIT_DEAD is in its `dead` set until it has been released.
* `Wait` and `WaitTraced` are `wait_task_zombie`, without and with the hand-over
  of a zombie from its tracer to its parent; `PtraceAttach`, `PtraceDetach`.
* `SetSubreaper`, `WalkBegin`, `WalkVisit`, `WalkEnd` are the prctl with
  `walk_process_tree`, one group per step: `walk.todo` and `walk.done`.
* `told[t]` is history: the group that has been notified of t's death last.

### What is checked

* `ListsExact`: children and ptraced lists agree with the parent pointers of all
  threads whenever somebody else can look.
* `NobodyLeftBehind`: a task that has looked through its lists for the last time
  is given nothing more, however far an adopter's choice of it dates back.
* `ReapedOnce`: the exiting task, its last thread, its dying parent or tracer and
  waiters race for EXIT_DEAD; one of them wins and it does release the task.
* `ZombiesAnnounced`: whoever may reap a zombie now has been told of it since.
* `SubreapersKnown`: when no walk is under way all descendants of a subreaper's
  children have the flag that makes an exiting task look for it.
* `ExitsEnd`: an exit ends, with all of these locks taken along a tree that
  changes.

Bounds. A chain of four processes has an ancestor above an adopter above a dying
parent above a child; the spare task becomes a child, sibling or thread of
anybody who forks, so that all kinds of groups appear. Who may exit (`Exiters`),
fork (`Forkers`), call prctl (`Subreapers`), trace (`Tracings`) and ignore
SIGCHLD (`Ignorers`) is fixed for the run such that each combination the
properties are about occurs: an adopter that exits, too, a tracee with another
parent that is a zombie, a fork below and beside a walk, a reaper of either kind
of disposition. `b` does not exit: with everybody exiting the state space is far
larger. All but init may be gone in the end, which is no deadlock.

Fairness. A task that has begun an operation goes on, strongly, as the locks are
queued rwlocks and spinlocks; nothing obliges a task to exit, fork or wait.

### What is proved

`TaskTreeProofs` proves type correctness and the five invariants for any tasks,
nodes and groups, whoever may exit, fork, trace, ignore SIGCHLD or call prctl, from
any tree that `TaskTreeAssumption` allows: the threads of a process have one
parent, only init has none, and nobody is its own ancestor. None of the five
invariants is inductive. `IInv` joins them with

* `Life`, `Groups`, `Closed`: exit_state, PF_EXITING and the PID go together with
  how far a task has got; a group has its leader as long as it has threads; nobody
  is added to the group of a leader that is being released or given back, because
  only a live thread of it could fork one;
* `Forking`, `Newborn`: what a fork has in its hands is nobody else's, and until
  it is published its parent is current or the parent that current has *now*. The
  state lock of the groups is why that stays true (`Locked`): an adopter
  needs it for the child's group, which is current's;
* `Claims`, `Releasing`, `GivenBack`: everything in EXIT_DEAD is in one task's
  `dead` set, and a leader in EXIT_TRACE in one tracer's hands. `ReapedOnce` is
  their cardinality;
* `Orphans`, `Cursors`, `Reaper`: the child a task is finding a parent for remains
  its child until it adopts it out, so `ChildrenExact` can be applied to it; the
  candidate has run; the child reaper is replaced before it looks through its own
  children, which makes it a legal adopter although it is exiting;
* `Behind`: `NobodyLeftBehind`, said also of a task in the middle of a release. A
  fork with CLONE_PARENT gives its child to a parent that cannot be done, because
  current's own leader is still on that parent's list.

`SubreapersKnown` speaks only of moments without a walk. `SubInv` says what holds
during one: `Marked`, that a child of a group with a flag has it or will get it
(from a call that has not begun to walk, or because it, or the root, is in the
queue); `Walks`, that the walk has done only with marked groups, released ones and
its root; `Leaving`, that whoever asks its ancestors has the flag and no live
thread, so that a child can pass to another group only when it has the flag itself
or is queued; and `Aged`, that there is an order in which every ancestor comes
first, through adoption as well. Without the order a walk might meet its own root
below itself, which it would take as done.

`ExitsEnd` is only model-checked.

Left out: the end of a PID namespace (the last thread of init stays), exec's
`de_thread`, orphaned process groups and job control, `PTRACE_TRACEME`, and the
iteration over the shards' lists.

## What the proofs do and do not show

Every listed theorem holds for all values of the constants its module's
assumption allows; TLC evaluates the assumptions in the runs. The theorems of
`SockmapSeqProofs` say in addition that `Gaps` is empty, as it is in
`sockmap_seq`: they are about the series without the five cases it leaves open, each
of which breaks `EveryByteOnce` and `NativeContinues`, and three of them the others.

Liveness and what is said with `ENABLED` are beyond the prover and only
model-checked: `TeardownEnds`, `TicketsComplete`, `EpochsEnd`, `CloseEnds`,
`UnlinkedIsFreed`, `ExitsEnd`, and the `ENABLED` half of `NoDeadlock`. Every other
property of the passing runs is the subject of a theorem. No step of a proof is
taken on trust. Where a proof needs induction (over the length of a queue, say) it
goes by a set of naturals that has 0 and all successors, which is first-order,
instead of the library's theorems that take an operator.

The other modules' type invariants are stated for the reader.

## Not modelled

* conntrack expectation garbage collection (`CVE-2026-80668*`,
  `cve_patches/CVE-2026-74347` for timeouts): backports of a mainline change
  whose protocol is in large part the existing conntrack GC (its worker, the scan of
  the conntrack table, the early-drop rules), of which the patches show a few
  lines; a model would be of code that is not here.
* Page-fault lock retry: the change is in which of two return codes one function
  gives; what makes it right or wrong is the fault handlers of every
  architecture, which are not in the repository.
* ipset lockless readers: one patch that replaces a bit test.
* CPUMAP support patches and selftests, sockmap UDP receive, micro-optimisations:
  sequential code with no state of its own between calls, or one lock around a
  loop.
* Routing, qdisc and tunnel fixes: one-line fixes with programs and logs that
  provoke the original faults.
* The earlier RFS prototype is superseded by ordered CPUMAP; earlier revisions of
  every series are represented by the newest one.
* The harness builds and boots kernels.

Most lines of the tree are a generated `vmlinux.h`, vendored BPF headers and
generated reproducers, and most of its code is patches; the specifications map
to the patches of the newest revisions, which is why they refer to a small part
of all lines.
