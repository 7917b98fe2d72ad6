------------------------- MODULE CpuMapProperties -------------------------
(***************************************************************************)
(* What ordered CPUMAP promises, stated over CpuMap.                       *)
(***************************************************************************)
EXTENDS CpuMap

(* The frame at index i of the bulk of e at s has been committed by the    *)
(* flush that is running.                                                  *)
Flushed(s, e, i) ==
  /\ src[s].pc \in {"produce", "commit"}
  /\ src[s].next # "skb"
  /\ src[s].ent = e
  /\ i < src[s].i

(* Reservations of d held by sources: frames waiting in a bulk, and the    *)
(* packet a source has in hand.                                            *)
InBulks(d) ==
  {r \in Sources \X Entries \X (1..BulkSize) :
     /\ r[3] <= Len(bulk[r[1]][r[2]])
     /\ bulk[r[1]][r[2]][r[3]] = d
     /\ ~Flushed(r[1], r[2], r[3])}
InHands(d) == {s \in Sources : src[s].dom = d}

(* The count a domain keeps under its lock is exactly the number of        *)
(* submissions reserved by cpu_map_reserve and not yet returned by         *)
(* cpu_map_commit, whatever the interleaving of sources, bulk flushes,     *)
(* failed inserts and target switches.                                     *)
ReservationsCounted ==
  \A d \in Domains : pending[d] = Cardinality(InBulks(d)) + Cardinality(InHands(d))

(* The drain criterion of map_cpumap.rst: when the snapshot of a live map  *)
(* shows pending 0 and completed at last_tail, no packet of the domain is  *)
(* on its way: none in a ring or in GRO, on the target or on any earlier   *)
(* target, except what an offline CPU was left with.                       *)
QuietDomain ==
  \A d \in Domains : map = "live" /\ Drained(GetState(d)) =>
    \A e \in Entries : \A t \in Outstanding(e) :
      log[e][t].dom = d => <<e, t>> \in waived

(* No packet of a domain is handed to the stack after a packet of the      *)
(* domain that was inserted in a ring later, across migrations and entry   *)
(* replacements; only packets left on an offline CPU can be late.          *)
NoOvertaking ==
  \A e \in Entries : \A t \in Outstanding(e) :
    \/ <<e, t>> \in waived
    \/ log[e][t].pub > top[log[e][t].dom]

(* Completion is published only for packets the stack has been handed, and *)
(* never for more than the tickets given out or about to be.               *)
WatermarkHanded ==
  \A e \in Entries :
    /\ completed[e] <= taken[e]
    /\ \A t \in gro[e] : t > completed[e]

(* An entry's ring and bulks are freed only after the last submission to   *)
(* it: nothing is queued, held in a bulk or in hand for a stopped entry.   *)
StoppedIsUnused ==
  \A e \in Entries : life[e] = "stopped" =>
    /\ Outstanding(e) = {}
    /\ \A s \in Sources : bulk[s][e] = <<>> /\ src[s].ent # e

(* An entry is referenced by its own lifecycle until it is stopped and by  *)
(* every domain whose target it is: its progress is freed (refs 0) exactly *)
(* when neither is left, and the freed map leaks none.                     *)
RefsExact ==
  \A e \in Entries :
    refs[e] = Cardinality({d \in Domains : target[d] = e})
              + (IF life[e] \in {"live", "retired"} THEN 1 ELSE 0)

(* The same order as an abstract specification: every step of the map is a *)
(* step of the domains' queues or leaves them alone.                       *)
InFlight(d, late) ==
  UNION {{log[e][t].pub : t \in {u \in Outstanding(e) :
             log[e][u].dom = d /\ (<<e, u>> \in waived) = late}} : e \in Entries}

Fifo == INSTANCE DomainFifo WITH
  sent     <- pubs,
  inflight <- [d \in Domains |-> InFlight(d, FALSE)],
  stranded <- [d \in Domains |-> InFlight(d, TRUE)]

ImplementsDomainFifo == Fifo!Spec

-----------------------------------------------------------------------------
(* The kthread keeps running while it has work, free_work and cpu_map_free *)
(* run to their end.  The producer lock is a queued spinlock and a poll    *)
(* has a finite budget after which the driver flushes every bulk: a source *)
(* that may again and again take the lock, flush or end its poll does so.  *)
(* No source has to start a poll or to submit a packet.                    *)
Fairness ==
  /\ \A s \in Sources :
       /\ WF_vars(SourceStep(s))
       /\ SF_vars(FlushFull(s) \/ GenericLock(s))
       /\ \A e \in Entries : SF_vars(FlushBulk(s, e))
       /\ SF_vars(PollEnd(s))
  /\ \A e \in Entries : WF_vars(KthreadStep(e)) /\ WF_vars(FreeWork(e))
  /\ \A c \in Cpus : WF_vars(MapFreeEntry(c))
  /\ WF_vars(MapFreeEnd)

FairSpec == Spec /\ Fairness

(* Every ticket completes: no insertion is slept through, on a live or on  *)
(* a retired entry.                                                        *)
TicketsComplete ==
  \A e \in Entries, t \in 1..MaxPubs : Len(log[e]) >= t ~> completed[e] >= t

(* A replaced or deleted entry is stopped, whatever the sources do, and    *)
(* cpu_map_free terminates.                                                *)
TeardownEnds ==
  /\ \A e \in Entries : life[e] = "retired" ~> life[e] = "stopped"
  /\ map = "freeing" ~> map = "freed"

=============================================================================
