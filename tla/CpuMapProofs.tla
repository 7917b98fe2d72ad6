---------------------------- MODULE CpuMapProofs ----------------------------
(***************************************************************************)
(* Theorems about CpuMap, and at the end about RedirectInfo, for every     *)
(* value of their constants.                                               *)
(***************************************************************************)
EXTENDS CpuMapProperties, RedirectInfo, FiniteSetTheorems, SequenceTheorems, TLAPS

(* What the program counter of a source says of its other fields. *)
SourceOK(s) ==
  /\ src[s].i >= 1
  /\ src[s].pc \in {"idle", "poll"} => src[s].dom = NoDomain
  /\ src[s].pc \in {"admit", "skb"} => src[s].dom # NoDomain
  /\ src[s].pc \notin {"idle", "poll"} => src[s].ent # NoEntry
  /\ src[s].pc \in {"produce", "commit"} =>
       /\ (src[s].dom = NoDomain) = (src[s].next = "poll")
       /\ src[s].next # "skb" => src[s].i <= Len(bulk[s][src[s].ent])
  /\ \A e \in Entries : Len(bulk[s][e]) <= BulkSize

Sourced == \A s \in Sources : SourceOK(s)

(* The kthread takes no ticket that is not in the ring. *)
TakenInserted == \A e \in Entries : taken[e] <= Len(log[e])

USE CpuMapAssumption

LEMMA InitShape == Init => Shape /\ Sourced
  BY DEF Init, Shape, MapShape, DomainShape, SourceShape, RingShape, KthreadShape,
         Sourced, SourceOK, SrcState, Idle

LEMMA Unchanged ==
  ASSUME Shape
  PROVE  /\ UNCHANGED <<mapVars, refs>> => MapShape'
         /\ UNCHANGED domVars => DomainShape'
         /\ UNCHANGED srcVars => SourceShape'
         /\ UNCHANGED ringVars => RingShape'
         /\ UNCHANGED <<kthVars, waived>> => KthreadShape'
  BY DEF Shape, MapShape, DomainShape, SourceShape, RingShape, KthreadShape,
         mapVars, domVars, srcVars, ringVars, kthVars

LEMMA ControlShape ==
  ASSUME Shape, ControlNext
  PROVE  Shape'
<1>1. ASSUME NEW e \in Entries, UpdateElem(e) PROVE Shape'
  <2>1. MapShape'
    BY <1>1 DEF Shape, MapShape, UpdateElem, Retire
  <2>2. KthreadShape'
    BY <1>1 DEF Shape, KthreadShape, UpdateElem
  <2> QED
    BY <1>1, <2>1, <2>2, Unchanged DEF Shape, UpdateElem
<1>2. ASSUME NEW e \in Entries, FreeWork(e) PROVE Shape'
  <2>1. MapShape'
    BY <1>2 DEF Shape, MapShape, FreeWork, KthreadStop
  <2>2. KthreadShape'
    BY <1>2 DEF Shape, KthreadShape, FreeWork, KthreadStop
  <2> QED
    BY <1>2, <2>1, <2>2, Unchanged DEF Shape, FreeWork
<1>3. ASSUME NEW c \in Cpus, DeleteElem(c) PROVE Shape'
  <2>1. MapShape'
    BY <1>3 DEF Shape, MapShape, DeleteElem, Retire
  <2> QED
    BY <1>3, <2>1, Unchanged DEF Shape, DeleteElem
<1>4. ASSUME NEW c \in Cpus, MapFreeEntry(c) PROVE Shape'
  <2>1. MapShape'
    BY <1>4 DEF Shape, MapShape, MapFreeEntry, KthreadStop
  <2>2. KthreadShape'
    BY <1>4 DEF Shape, KthreadShape, MapFreeEntry, KthreadStop
  <2> QED
    BY <1>4, <2>1, <2>2, Unchanged DEF Shape, MapFreeEntry
<1>5. ASSUME NEW c \in HotCpus, Offline(c) \/ Online(c) PROVE Shape'
  <2>1. MapShape'
    BY <1>5 DEF Shape, MapShape, Offline, Online
  <2> QED
    BY <1>5, <2>1, Unchanged DEF Shape, Offline, Online
<1>6. CASE MapFreeBegin
  <2>1. MapShape'
    BY <1>6 DEF Shape, MapShape, MapFreeBegin
  <2> QED
    BY <1>6, <2>1, Unchanged DEF Shape, MapFreeBegin
<1>7. CASE MapFreeEnd
  <2>1. \A e \in Entries : Cardinality({d \in Domains : target[d] = e}) \in Nat
    BY FS_Subset, FS_CardinalityType
  <2>2. MapShape'
    BY <1>7, <2>1 DEF Shape, MapShape, MapFreeEnd
  <2>3. DomainShape'
    BY <1>7 DEF Shape, DomainShape, MapFreeEnd
  <2> QED
    BY <1>7, <2>2, <2>3, Unchanged DEF Shape, MapFreeEnd
<1> QED
  BY <1>1, <1>2, <1>3, <1>4, <1>5, <1>6, <1>7 DEF ControlNext

LEMMA KthreadNextShape ==
  ASSUME Shape, TakenInserted, NEW e \in Entries, KthreadNext(e)
  PROVE  Shape'
<1>1. CASE Sleep(e)
  <2>1. KthreadShape'
    BY <1>1 DEF Shape, KthreadShape, Sleep
  <2> QED
    BY <1>1, <2>1, Unchanged DEF Shape, Sleep
<1>2. CASE Receive(e)
  <2> DEFINE avail == Len(log[e]) - taken[e]
             n == IF avail < BatchSize THEN avail ELSE BatchSize
  <2>1. PICK passed \in SUBSET (taken[e] + 1 .. taken[e] + n) :
          gro' = [gro EXCEPT ![e] = @ \cup passed]
    BY <1>2 DEF Receive
  <2>2. Len(log[e]) \in Nat /\ taken[e] \in Nat /\ packets[e] \in Nat
    BY DEF Shape, RingShape, KthreadShape
  <2>3. taken[e] + n \in Nat /\ packets[e] + n \in Nat
    BY <2>2 DEF TakenInserted
  <2>4. passed \subseteq Nat
    BY <2>2, <2>3
  <2>5. gro' \in [Entries -> SUBSET Nat]
    BY <2>1, <2>4 DEF Shape, KthreadShape
  <2>6. taken' = [taken EXCEPT ![e] = @ + n] /\ packets' = [packets EXCEPT ![e] = @ + n]
    BY <1>2 DEF Receive
  <2>7. taken' \in [Entries -> Nat] /\ packets' \in [Entries -> Nat]
    BY <2>3, <2>6 DEF Shape, KthreadShape
  <2>8. KthreadShape'
    BY <1>2, <2>5, <2>7 DEF Shape, KthreadShape, Receive
  <2> QED
    BY <1>2, <2>8, Unchanged DEF Shape, Receive
<1>3. ASSUME NEW t \in 1..Len(log[e]), Deliver(e, t) PROVE Shape'
  <2>1. log[e][t].dom \in Domains /\ log[e][t].pub \in Nat
    <3>1. log[e][t] \in Packets
      BY DEF Shape, RingShape
    <3> QED
      BY <3>1 DEF Packets
  <2>2. top' \in [Domains -> Nat] /\ gro' \in [Entries -> SUBSET Nat]
    BY <1>3, <2>1 DEF Shape, KthreadShape, Deliver
  <2>3. KthreadShape'
    BY <1>3, <2>2 DEF Shape, KthreadShape, Deliver
  <2> QED
    BY <1>3, <2>3, Unchanged DEF Shape, Deliver
<1>4. CASE CheckFlush(e)
  <2>1. KthreadShape'
    BY <1>4 DEF Shape, KthreadShape, CheckFlush
  <2> QED
    BY <1>4, <2>1, Unchanged DEF Shape, CheckFlush
<1>5. CASE PublishCompleted(e)
  <2>1. KthreadShape'
    BY <1>5 DEF Shape, KthreadShape, PublishCompleted, Processed
  <2> QED
    BY <1>5, <2>1, Unchanged DEF Shape, PublishCompleted
<1> QED
  BY <1>1, <1>2, <1>3, <1>4, <1>5 DEF KthreadNext, KthreadStep

LEMMA SourceNextShape ==
  ASSUME Shape, Sourced, NEW s \in Sources, SourceNext(s)
  PROVE  Shape'
<1>1. CASE PollBegin(s)
  <2>1. SourceShape'
    BY <1>1 DEF Shape, SourceShape, SrcState, PollBegin, Polling, Idle
  <2> QED
    BY <1>1, <2>1, Unchanged DEF Shape, PollBegin
<1>2. CASE PollEnd(s)
  <2>1. SourceShape'
    BY <1>2 DEF Shape, SourceShape, SrcState, PollEnd, Idle
  <2>2. MapShape'
    BY <1>2 DEF Shape, MapShape, PollEnd
  <2> QED
    BY <1>2, <2>1, <2>2, Unchanged DEF Shape, PollEnd, mapVars
<1>3. ASSUME NEW d \in Domains, NEW c \in Cpus, NEW path \in {"admit", "skb"},
             Reserve(s, d, c, path)
      PROVE  Shape'
  <2> DEFINE new == Chosen(d, c)
  <2>1. new \in Entries /\ target[d] \in Entries \cup {NoEntry}
    BY <1>3 DEF Reserve, Usable, Chosen, Shape, MapShape, DomainShape
  <2>2. MapShape'
    <3>1. refs' \in [Entries -> Int]
      BY <1>3 DEF Reserve, SwitchRefs, Shape, MapShape
    <3> QED
      BY <1>3, <3>1 DEF Reserve, Shape, MapShape, mapVars
  <2>3. DomainShape'
    BY <1>3, <2>1 DEF Reserve, Shape, DomainShape
  <2>4. SourceShape'
    BY <1>3, <2>1 DEF Reserve, Shape, SourceShape, SrcState, Polling, Idle
  <2>5. KthreadShape'
    <3>1. \A e \in Entries : Outstanding(e) \subseteq Nat
      BY DEF Outstanding, Shape, KthreadShape, RingShape
    <3>2. waived' \in SUBSET (Entries \X Nat)
      BY <1>3, <2>1, <3>1 DEF Reserve, LeftBehind, Shape, KthreadShape
    <3> QED
      BY <1>3, <3>2 DEF Reserve, Shape, KthreadShape, kthVars
  <2> QED
    BY <1>3, <2>2, <2>3, <2>4, <2>5, Unchanged DEF Shape, Reserve
<1>4. CASE Enqueue(s)
  <2>1. src[s].ent \in Entries /\ src[s].dom \in Domains
    BY <1>4 DEF Enqueue, Sourced, SourceOK, Shape, SourceShape, SrcState
  <2>2. Append(bulk[s][src[s].ent], src[s].dom) \in Seq(Domains)
    BY <2>1 DEF Shape, SourceShape
  <2>3. bulk' \in [Sources -> [Entries -> Seq(Domains)]]
    BY <1>4, <2>1, <2>2 DEF Enqueue, Shape, SourceShape
  <2>4. SourceShape'
    BY <1>4, <2>3 DEF Shape, SourceShape, SrcState, Enqueue, Polling, Idle
  <2> QED
    BY <1>4, <2>4, Unchanged DEF Shape, Enqueue
<1>5. ASSUME NEW e \in Entries, NEW pc \in {"poll", "admit", "skb"}, Lock(s, e, pc)
      PROVE  Shape'
  <2> DEFINE r == [src[s] EXCEPT !.pc = "produce", !.next = pc, !.ent = e, !.i = 1]
  <2>0. r \in SrcState
    <3>1. src[s] \in SrcState
      BY DEF Shape, SourceShape
    <3> QED
      BY <3>1 DEF SrcState
  <2>1. src' = [src EXCEPT ![s] = r]
    BY <1>5 DEF Lock
  <2>2. SourceShape'
    BY <1>5, <2>0, <2>1 DEF Shape, SourceShape, Lock
  <2> QED
    BY <1>5, <2>2, Unchanged DEF Shape, Lock
<1>6. CASE FlushFull(s) \/ GenericLock(s)
  <2>1. src[s].ent \in Entries
    BY <1>6 DEF FlushFull, GenericLock, Lock, Sourced, SourceOK, Shape, SourceShape, SrcState
  <2> QED
    BY <1>5, <1>6, <2>1 DEF FlushFull, GenericLock
<1>7. ASSUME NEW e \in Entries, FlushBulk(s, e) PROVE Shape'
  BY <1>5, <1>7 DEF FlushBulk
<1>8. ASSUME Produce(s) \/ Commit(s)
      PROVE  src[s].ent \in Entries /\ Inserting(s) \in Domains
  <2>1. src[s] \in SrcState /\ src[s].ent \in Entries
    BY <1>8 DEF Produce, Commit, Sourced, SourceOK, Shape, SourceShape, SrcState
  <2>2. CASE src[s].next = "skb"
    BY <1>8, <2>1, <2>2 DEF Produce, Commit, Inserting, Sourced, SourceOK, SrcState
  <2>3. CASE src[s].next # "skb"
    <3>1. src[s].i \in 1..Len(bulk[s][src[s].ent])
      BY <1>8, <2>1, <2>3 DEF Produce, Commit, Sourced, SourceOK, SrcState
    <3>2. bulk[s][src[s].ent] \in Seq(Domains)
      BY <2>1 DEF Shape, SourceShape
    <3> QED
      BY <2>1, <2>3, <3>1, <3>2 DEF Inserting
  <2> QED
    BY <2>1, <2>2, <2>3
<1>9. CASE Produce(s)
  <2>1. src[s] \in SrcState
    BY DEF Shape, SourceShape
  <2>2. SourceShape'
    BY <1>9, <2>1 DEF Produce, Shape, SourceShape, SrcState
  <2> DEFINE e == src[s].ent
             p == [dom |-> Inserting(s), pub |-> pubs[Inserting(s)] + 1]
  <2>3. p \in Packets /\ e \in Entries
    BY <1>8, <1>9 DEF Shape, RingShape, Packets
  <2>4. Append(log[e], p) \in Seq(Packets)
    BY <2>3 DEF Shape, RingShape
  <2>5. RingShape'
    <3> HIDE DEF p
    <3>1. log' = log \/ log' = [log EXCEPT ![e] = Append(@, p)]
      BY <1>9 DEF Produce, p
    <3>2. pubs' = pubs \/ pubs' = [pubs EXCEPT ![Inserting(s)] = @ + 1]
      BY <1>9 DEF Produce
    <3>3. log' \in [Entries -> Seq(Packets)]
      BY <2>3, <2>4, <3>1 DEF Shape, RingShape
    <3>4. pubs' \in [Domains -> Nat]
      <4>1. pubs \in [Domains -> Nat] /\ Inserting(s) \in Domains
        BY <1>8, <1>9 DEF Shape, RingShape
      <4> QED
        BY <3>2, <4>1
    <3> QED
      BY <1>9, <3>3, <3>4 DEF Produce, Shape, RingShape
  <2> QED
    BY <1>9, <2>2, <2>5, Unchanged DEF Shape, Produce
<1>10. CASE Commit(s)
  <2>1. src[s] \in SrcState
    BY DEF Shape, SourceShape
  <2> DEFINE more == [src[s] EXCEPT !.pc = "produce", !.i = @ + 1, !.ok = FALSE]
             full == [src[s] EXCEPT !.pc = "admit", !.next = "poll", !.i = 1, !.ok = FALSE]
  <2>a. more \in SrcState
    <3>1. src[s].i + 1 \in Nat
      BY <2>1 DEF SrcState
    <3> QED
      BY <2>1, <3>1 DEF SrcState
  <2>b. full \in SrcState /\ Polling \in SrcState
    BY <2>1 DEF SrcState, Polling, Idle
  <2>c. \/ src' = [src EXCEPT ![s] = more]
        \/ src' = [src EXCEPT ![s] = full]
        \/ src' = [src EXCEPT ![s] = Polling]
    <3>1. CASE NextFrame(s)
      <4>1. src' = [src EXCEPT ![s] = more]
        BY <3>1 DEF NextFrame
      <4> HIDE DEF more
      <4> QED
        BY <4>1
    <3>2. CASE Unlock(s)
      <4>1. src' = [src EXCEPT ![s] = IF src[s].next = "admit" THEN full ELSE Polling]
        BY <3>2 DEF Unlock
      <4> HIDE DEF full
      <4> QED
        BY <4>1
    <3> QED
      BY <1>10, <3>1, <3>2 DEF Commit
  <2>d. src' \in [Sources -> SrcState]
    <3> HIDE DEF more, full
    <3> QED
      BY <2>a, <2>b, <2>c DEF Shape, SourceShape
  <2>e. bulk' \in [Sources -> [Entries -> Seq(Domains)]]
    <3>1. bulk' = bulk \/ bulk' = [bulk EXCEPT ![s][src[s].ent] = <<>>]
      BY <1>10 DEF Commit, NextFrame, Unlock
    <3>2. [bulk[s] EXCEPT ![src[s].ent] = <<>>] \in [Entries -> Seq(Domains)]
      BY <1>8, <1>10 DEF Shape, SourceShape
    <3> QED
      BY <3>1, <3>2 DEF Shape, SourceShape
  <2>2. SourceShape'
    BY <2>d, <2>e DEF SourceShape
  <2>3. RingShape' /\ DomainShape'
    BY <1>8, <1>10, SMTT(30) DEF Commit, CpuMapCommit, Shape, RingShape, DomainShape
  <2>4. KthreadShape'
    <3>1. \/ UNCHANGED kpc
          \/ kpc' = [kpc EXCEPT ![src[s].ent] = "top"]
          \/ kpc' = [kpc EXCEPT ![src[s].ent] = @]
      BY <1>10 DEF Commit, NextFrame, Unlock, Wake
    <3> QED
      BY <1>8, <1>10, <3>1 DEF Commit, Shape, KthreadShape
  <2> QED
    BY <1>10, <2>2, <2>3, <2>4, Unchanged DEF Shape, Commit, mapVars
<1> QED
  BY <1>1, <1>2, <1>3, <1>4, <1>6, <1>7, <1>9, <1>10 DEF SourceNext, SourceStep

LEMMA OthersKeep ==
  ASSUME Shape, NEW s \in Sources, NEW t \in Sources, s # t, SourceNext(s)
  PROVE  src'[t] = src[t] /\ bulk'[t] = bulk[t]
<1>1. ASSUME NEW d \in Domains, NEW c \in Cpus, NEW path \in {"admit", "skb"},
             Reserve(s, d, c, path)
      PROVE  src'[t] = src[t] /\ bulk'[t] = bulk[t]
  BY <1>1 DEF Reserve, Shape, SourceShape
<1>2. CASE PollBegin(s) \/ PollEnd(s)
  BY <1>2 DEF PollBegin, PollEnd, Shape, SourceShape
<1>3. CASE Enqueue(s)
  BY <1>3 DEF Enqueue, Shape, SourceShape
<1>4. ASSUME NEW e, NEW pc, Lock(s, e, pc)
      PROVE  src'[t] = src[t] /\ bulk'[t] = bulk[t]
  BY <1>4 DEF Lock, Shape, SourceShape
<1>5. CASE Produce(s)
  BY <1>5 DEF Produce, Shape, SourceShape
<1>6. CASE Commit(s)
  <2>1. CASE NextFrame(s)
    BY <2>1 DEF NextFrame, Shape, SourceShape
  <2>2. CASE Unlock(s)
    BY <2>2 DEF Unlock, Shape, SourceShape
  <2> QED
    BY <1>6, <2>1, <2>2 DEF Commit
<1> QED
  BY <1>1, <1>2, <1>3, <1>4, <1>5, <1>6
  DEF SourceNext, SourceStep, FlushFull, FlushBulk, GenericLock

LEMMA SourceNextSourced ==
  ASSUME Shape, Sourced, NEW s \in Sources, SourceNext(s)
  PROVE  Sourced'
<1> SUFFICES SourceOK(s)'
  BY OthersKeep DEF Sourced, SourceOK
<1>0. src[s] \in SrcState /\ SourceOK(s) /\ BulkSize \in Nat
  BY DEF Shape, SourceShape, Sourced
<1>1. ASSUME NEW d \in Domains, NEW c \in Cpus, NEW path \in {"admit", "skb"},
             Reserve(s, d, c, path)
      PROVE  SourceOK(s)'
  <2>1. Chosen(d, c) # NoEntry
    BY <1>1 DEF Reserve, Usable
  <2>2. src'[s] = [Polling EXCEPT !.pc = path, !.ent = Chosen(d, c), !.dom = d]
    BY <1>1 DEF Reserve, Shape, SourceShape
  <2> QED
    BY <1>0, <1>1, <2>1, <2>2 DEF Reserve, SourceOK, Polling, Idle
<1>2. CASE PollBegin(s) \/ PollEnd(s)
  <2>1. src'[s] \in {Polling, Idle} /\ bulk' = bulk
    BY <1>2 DEF PollBegin, PollEnd, Shape, SourceShape
  <2> QED
    BY <1>0, <2>1 DEF SourceOK, Polling, Idle
<1>3. CASE Enqueue(s)
  <2>1. src'[s] = Polling
    BY <1>3 DEF Enqueue, Shape, SourceShape
  <2>2. \A e \in Entries : Len(bulk'[s][e]) <= BulkSize
    BY <1>0, <1>3 DEF Enqueue, Shape, SourceShape, SourceOK
  <2> QED
    BY <2>1, <2>2 DEF SourceOK, Polling, Idle
<1>4. ASSUME NEW e \in Entries, NEW pc \in {"poll", "admit", "skb"}, Lock(s, e, pc),
             pc # "skb" => bulk[s][e] # <<>>
      PROVE  SourceOK(s)'
  <2>1. src'[s] = [src[s] EXCEPT !.pc = "produce", !.next = pc, !.ent = e, !.i = 1]
    BY <1>4 DEF Lock, Shape, SourceShape
  <2>2. bulk' = bulk /\ src[s].pc = pc
    BY <1>4 DEF Lock
  <2>3. pc # "skb" => 1 <= Len(bulk[s][e])
    BY <1>4 DEF Shape, SourceShape
  <2>4. /\ src'[s].pc = "produce" /\ src'[s].next = pc /\ src'[s].ent = e
        /\ src'[s].i = 1 /\ src'[s].dom = src[s].dom
    BY <1>0, <2>1 DEF SrcState
  <2> QED
    BY <1>0, <2>2, <2>3, <2>4 DEF SourceOK
<1>5. CASE Produce(s)
  <2>1. src'[s] = [src[s] EXCEPT !.pc = "commit", !.ok = ~RingFull(src[s].ent)]
    BY <1>5 DEF Produce, Shape, SourceShape
  <2>2. /\ src'[s].pc = "commit" /\ src'[s].next = src[s].next /\ src'[s].ent = src[s].ent
        /\ src'[s].i = src[s].i /\ src'[s].dom = src[s].dom
    BY <1>0, <2>1 DEF SrcState
  <2>3. bulk' = bulk /\ src[s].pc = "produce"
    BY <1>5 DEF Produce
  <2> QED
    BY <1>0, <2>2, <2>3 DEF SourceOK
<1>6. CASE Commit(s)
  <2>1. src[s].pc = "commit" /\ src[s].ent \in Entries
    BY <1>0, <1>6 DEF Commit, SourceOK, SrcState
  <2>2. CASE NextFrame(s)
    <3>1. src'[s] = [src[s] EXCEPT !.pc = "produce", !.i = src[s].i + 1, !.ok = FALSE]
      BY <2>2 DEF NextFrame, Shape, SourceShape
    <3>2. /\ src'[s].pc = "produce" /\ src'[s].next = src[s].next
          /\ src'[s].ent = src[s].ent /\ src'[s].i = src[s].i + 1
          /\ src'[s].dom = src[s].dom /\ src[s].i \in Nat
      BY <1>0, <3>1 DEF SrcState
    <3>3. Len(bulk[s][src[s].ent]) \in Nat
      BY <2>1 DEF Shape, SourceShape
    <3> QED
      BY <1>0, <2>1, <2>2, <3>2, <3>3 DEF NextFrame, MoreFrames, SourceOK
  <2>3. CASE Unlock(s)
    <3>1. \A e \in Entries : Len(bulk'[s][e]) <= BulkSize
      BY <1>0, <2>1, <2>3 DEF Unlock, SourceOK, Shape, SourceShape
    <3>2. CASE src[s].next = "admit"
      <4>1. src'[s] = [src[s] EXCEPT !.pc = "admit", !.next = "poll", !.i = 1, !.ok = FALSE]
        BY <2>3, <3>2 DEF Unlock, Shape, SourceShape
      <4>2. /\ src'[s].pc = "admit" /\ src'[s].i = 1 /\ src'[s].dom = src[s].dom
            /\ src'[s].ent = src[s].ent
        BY <1>0, <4>1 DEF SrcState
      <4> QED
        BY <1>0, <2>1, <3>1, <3>2, <4>2 DEF SourceOK
    <3>3. CASE src[s].next # "admit"
      <4>1. src'[s] = Polling
        BY <2>3, <3>3 DEF Unlock, Shape, SourceShape
      <4> QED
        BY <3>1, <4>1 DEF SourceOK, Polling, Idle
    <3> QED
      BY <3>2, <3>3
  <2> QED
    BY <1>6, <2>2, <2>3 DEF Commit
<1>7. CASE FlushFull(s) \/ GenericLock(s)
  <2>1. src[s].ent \in Entries
    BY <1>0, <1>7 DEF FlushFull, GenericLock, Lock, SourceOK, SrcState
  <2>2. FlushFull(s) => bulk[s][src[s].ent] # <<>>
    BY <2>1 DEF FlushFull, Shape, SourceShape
  <2> QED
    BY <1>4, <1>7, <2>1, <2>2 DEF FlushFull, GenericLock
<1>8. ASSUME NEW e \in Entries, FlushBulk(s, e) PROVE SourceOK(s)'
  BY <1>4, <1>8 DEF FlushBulk
<1> QED
  BY <1>1, <1>2, <1>3, <1>5, <1>6, <1>7, <1>8 DEF SourceNext, SourceStep

(* The typing part of the invariant, and that it is inductive. *)
Typed == Shape /\ Sourced /\ TakenInserted

LEMMA InitTyped == Init => Typed
  BY InitShape DEF Typed, TakenInserted, Init

LEMMA NextTyped == Typed /\ [Next]_vars => Typed'
<1> SUFFICES ASSUME Typed, [Next]_vars PROVE Typed'
  OBVIOUS
<1> USE DEF Typed
<1>1. CASE UNCHANGED vars
  BY <1>1, Unchanged DEF vars, Shape, Sourced, SourceOK, TakenInserted, mapVars,
     srcVars, domVars, ringVars, kthVars
<1>2. CASE ControlNext
  <2>1. UNCHANGED <<src, bulk, log, taken>>
    BY <1>2 DEF ControlNext, UpdateElem, FreeWork, DeleteElem, MapFreeEntry, Offline,
       Online, MapFreeBegin, MapFreeEnd, srcVars, ringVars, kthVars
  <2> QED
    BY <1>2, <2>1, ControlShape DEF Sourced, SourceOK, TakenInserted
<1>3. ASSUME NEW s \in Sources, SourceNext(s) PROVE Typed'
  <2>1. UNCHANGED taken
    BY <1>3 DEF SourceNext, SourceStep, PollBegin, PollEnd, Reserve, Enqueue, FlushFull,
       FlushBulk, GenericLock, Lock, Produce, Commit, kthVars
  <2>2. log' = log \/ \E p : log' = [log EXCEPT ![src[s].ent] = Append(@, p)]
    BY <1>3 DEF SourceNext, SourceStep, PollBegin, PollEnd, Reserve, Enqueue, FlushFull,
       FlushBulk, GenericLock, Lock, Produce, Commit, ringVars
  <2>3. TakenInserted'
    <3> SUFFICES ASSUME NEW e \in Entries PROVE taken[e] <= Len(log'[e])
      BY <2>1 DEF TakenInserted
    <3>1. log[e] \in Seq(Packets) /\ taken[e] \in Nat /\ taken[e] <= Len(log[e])
      BY DEF Shape, RingShape, KthreadShape, TakenInserted
    <3>2. log'[e] = log[e] \/ \E p : log'[e] = Append(log[e], p)
      BY <2>2 DEF Shape, RingShape
    <3> QED
      BY <3>1, <3>2
  <2> QED
    BY <1>3, <2>3, SourceNextShape, SourceNextSourced
<1>4. ASSUME NEW e \in Entries, KthreadNext(e) PROVE Typed'
  <2>1. UNCHANGED <<src, bulk, log>>
    BY <1>4 DEF KthreadNext, KthreadStep, Sleep, Receive, Deliver, CheckFlush,
       PublishCompleted, srcVars, ringVars
  <2>2. TakenInserted'
    <3> SUFFICES ASSUME NEW f \in Entries PROVE taken'[f] <= Len(log[f])
      BY <2>1 DEF TakenInserted
    <3>1. log[f] \in Seq(Packets) /\ taken[f] \in Nat /\ taken[f] <= Len(log[f])
      BY DEF Shape, RingShape, KthreadShape, TakenInserted
    <3>2. CASE Receive(e)
      BY <3>1, <3>2 DEF Receive, Shape, KthreadShape
    <3>3. CASE ~Receive(e)
      BY <1>4, <3>1, <3>3 DEF KthreadNext, KthreadStep, Sleep, Deliver, CheckFlush,
         PublishCompleted
    <3> QED
      BY <3>2, <3>3
  <2> QED
    BY <1>4, <2>1, <2>2, KthreadNextShape DEF Sourced, SourceOK
<1> QED
  BY <1>1, <1>2, <1>3, <1>4 DEF Next

-----------------------------------------------------------------------------
(* Reservations: pending counts the frames in bulks and the packets in     *)
(* hand, one by one.                                                       *)

Slots == Sources \X Entries \X (1..BulkSize)

LEMMA SlotsFinite == IsFiniteSet(Slots)
<1> DEFINE pairs == (Sources \X Entries) \X (1..BulkSize)
           f == [p \in pairs |-> <<p[1][1], p[1][2], p[2]>>]
<1>1. IsFiniteSet(pairs)
  <2>1. IsFiniteSet(1..BulkSize)
    BY FS_Interval
  <2>2. IsFiniteSet(Sources \X Entries)
    BY FS_Product
  <2> QED
    BY <2>1, <2>2, FS_Product
<1>2. f \in Surjection(pairs, Slots)
  <2>1. f \in [pairs -> Slots]
    BY DEF Slots
  <2>2. ASSUME NEW r \in Slots PROVE \E p \in pairs : f[p] = r
    <3>1. <<<<r[1], r[2]>>, r[3]>> \in pairs /\ f[<<<<r[1], r[2]>>, r[3]>>] = r
      BY DEF Slots
    <3> QED
      BY <3>1
  <2> QED
    BY <2>1, <2>2 DEF Surjection
<1> QED
  BY <1>1, <1>2, FS_Surjection

LEMMA HeldFinite ==
  ASSUME NEW d
  PROVE  /\ IsFiniteSet(InBulks(d)) /\ Cardinality(InBulks(d)) \in Nat
         /\ IsFiniteSet(InHands(d)) /\ Cardinality(InHands(d)) \in Nat
<1>1. InBulks(d) \subseteq Slots /\ InHands(d) \subseteq Sources
  BY DEF InBulks, InHands, Slots
<1> QED
  BY <1>1, SlotsFinite, FS_Subset, FS_CardinalityType

LEMMA CountAdd ==
  ASSUME NEW S, IsFiniteSet(S), NEW x, x \notin S, NEW T, NEW added \in BOOLEAN,
         T = IF added THEN S \cup {x} ELSE S
  PROVE  Cardinality(T) = Cardinality(S) + (IF added THEN 1 ELSE 0)
<1>1. Cardinality(S \cup {x}) = Cardinality(S) + 1 /\ Cardinality(S) \in Nat
  BY FS_AddElement, FS_CardinalityType
<1> QED
  BY <1>1

LEMMA CountRemove ==
  ASSUME NEW S, IsFiniteSet(S), NEW x, NEW T, T = S \ {x},
         NEW held \in BOOLEAN, x \in S <=> held
  PROVE  Cardinality(T) = Cardinality(S) - (IF held THEN 1 ELSE 0)
<1>1. /\ Cardinality(S \ {x}) = IF x \in S THEN Cardinality(S) - 1 ELSE Cardinality(S)
      /\ Cardinality(S) \in Nat
  BY FS_RemoveElement, FS_CardinalityType
<1> QED
  BY <1>1

LEMMA HandsStep ==
  ASSUME Shape, NEW s \in Sources, SourceNext(s), NEW d
  PROVE  InHands(d)' = IF src'[s].dom = d THEN InHands(d) \cup {s} ELSE InHands(d) \ {s}
  BY OthersKeep DEF InHands

LEMMA BulksStep ==
  ASSUME Shape, NEW s \in Sources, SourceNext(s), NEW d, NEW r \in Slots, r[1] # s
  PROVE  r \in InBulks(d)' <=> r \in InBulks(d)
  BY OthersKeep DEF InBulks, Flushed, Slots

LEMMA BulksSame ==
  ASSUME Shape, NEW s \in Sources, SourceNext(s), bulk' = bulk,
         \A e \in Entries, i \in 1..BulkSize : Flushed(s, e, i)' = Flushed(s, e, i),
         NEW d
  PROVE  InBulks(d)' = InBulks(d)
<1>1. ASSUME NEW r \in Slots PROVE r \in InBulks(d)' <=> r \in InBulks(d)
  <2>1. CASE r[1] # s
    BY <2>1, BulksStep
  <2>2. CASE r[1] = s
    BY <2>2 DEF InBulks, Slots
  <2> QED
    BY <2>1, <2>2
<1> QED
  BY <1>1 DEF InBulks, Slots

LEMMA QuietStep ==
  ASSUME Shape, ReservationsCounted, NEW s \in Sources, SourceNext(s),
         bulk' = bulk, pending' = pending, src'[s].dom = src[s].dom,
         \A e \in Entries, i \in 1..BulkSize : Flushed(s, e, i)' = Flushed(s, e, i)
  PROVE  ReservationsCounted'
<1> SUFFICES ASSUME NEW d \in Domains
             PROVE  InBulks(d)' = InBulks(d) /\ InHands(d)' = InHands(d)
  BY DEF ReservationsCounted
<1>1. InHands(d)' = InHands(d)
  BY HandsStep DEF InHands
<1> QED
  BY <1>1, BulksSame

(* A native frame is committed: its slot is the next one of the flush.     *)
LEMMA SlotCommitted ==
  ASSUME Typed, NEW s \in Sources, Commit(s), src[s].next # "skb", NEW d
  PROVE  /\ <<s, src[s].ent, src[s].i>> \in Slots
         /\ InBulks(d)' = InBulks(d) \ {<<s, src[s].ent, src[s].i>>}
         /\ <<s, src[s].ent, src[s].i>> \in InBulks(d) <=> Inserting(s) = d
<1> DEFINE e == src[s].ent
           i == src[s].i
           slot == <<s, e, i>>
<1>1. src[s] \in SrcState /\ SourceOK(s) /\ SourceNext(s) /\ src[s].pc = "commit"
  BY DEF Typed, Shape, SourceShape, Sourced, SourceNext, SourceStep, Commit
<1>2. /\ e \in Entries /\ i \in 1..BulkSize /\ i <= Len(bulk[s][e])
      /\ Len(bulk[s][e]) \in Nat
  BY <1>1 DEF SourceOK, SrcState, Typed, Shape, SourceShape
<1>3. slot \in Slots
  BY <1>2 DEF Slots
<1>4. slot \in InBulks(d) <=> Inserting(s) = d
  BY <1>1, <1>2 DEF InBulks, Flushed, Inserting
<1>5. ASSUME NEW r \in Slots
      PROVE  r \in InBulks(d)' <=> (r \in InBulks(d) /\ r # slot)
  <2>1. CASE r[1] # s
    BY <1>1, <2>1, BulksStep DEF Typed
  <2>2. CASE r[1] = s
    <3>1. r = <<s, r[2], r[3]>> /\ r[2] \in Entries /\ r[3] \in 1..BulkSize
      BY <2>2 DEF Slots
    <3>2. r = slot <=> r[2] = e /\ r[3] = i
      BY <3>1
    <3>3. Flushed(s, r[2], r[3]) <=> r[2] = e /\ r[3] < i
      BY <1>1 DEF Flushed
    <3>4. CASE NextFrame(s)
      <4>1. src'[s] = [src[s] EXCEPT !.pc = "produce", !.i = src[s].i + 1, !.ok = FALSE]
        BY <3>4 DEF NextFrame, Typed, Shape, SourceShape
      <4>2. /\ src'[s].pc = "produce" /\ src'[s].next = src[s].next
            /\ src'[s].ent = e /\ src'[s].i = i + 1
        BY <1>1, <4>1 DEF SrcState
      <4>3. Flushed(s, r[2], r[3])' <=> r[2] = e /\ r[3] < i + 1
        BY <4>2 DEF Flushed
      <4>4. bulk' = bulk
        BY <3>4 DEF NextFrame
      <4>5. r \in InBulks(d) <=> /\ r[3] <= Len(bulk[s][r[2]]) /\ bulk[s][r[2]][r[3]] = d
                                /\ ~Flushed(s, r[2], r[3])
        BY <2>2 DEF InBulks, Slots
      <4>6. r \in InBulks(d)' <=> /\ r[3] <= Len(bulk[s][r[2]]) /\ bulk[s][r[2]][r[3]] = d
                                 /\ ~Flushed(s, r[2], r[3])'
        BY <2>2, <4>4 DEF InBulks, Slots
      <4> HIDE DEF slot
      <4> QED
        BY <1>2, <3>1, <3>2, <3>3, <4>3, <4>5, <4>6
    <3>5. CASE Unlock(s)
      <4>1. ~Flushed(s, r[2], r[3])'
        <5>1. CASE src[s].next = "admit"
          <6>1. src'[s] = [src[s] EXCEPT !.pc = "admit", !.next = "poll", !.i = 1, !.ok = FALSE]
            BY <3>5, <5>1 DEF Unlock, Typed, Shape, SourceShape
          <6> QED
            BY <1>1, <6>1 DEF SrcState, Flushed
        <5>2. CASE src[s].next # "admit"
          <6>1. src'[s] = Polling
            BY <3>5, <5>2 DEF Unlock, Typed, Shape, SourceShape
          <6> QED
            BY <6>1 DEF Polling, Idle, Flushed
        <5> QED
          BY <5>1, <5>2
      <4>2. bulk'[s] = [bulk[s] EXCEPT ![e] = <<>>]
        BY <3>5 DEF Unlock, Typed, Shape, SourceShape
      <4>3. Len(bulk[s][e]) = i
        BY <1>2, <3>5 DEF Unlock, MoreFrames
      <4>4. CASE r[2] # e
        <5>1. bulk'[s][r[2]] = bulk[s][r[2]]
          BY <3>1, <4>2, <4>4 DEF Typed, Shape, SourceShape
        <5> QED
          BY <2>2, <3>2, <3>3, <4>1, <4>4, <5>1 DEF InBulks, Slots
      <4>5. CASE r[2] = e
        <5>1. Len(bulk'[s][e]) = 0
          BY <1>2, <4>2 DEF Typed, Shape, SourceShape
        <5>2. r \notin InBulks(d)'
          BY <2>2, <3>1, <4>5, <5>1 DEF InBulks
        <5>3. r \in InBulks(d) => r[3] = i
          BY <1>2, <2>2, <3>1, <3>3, <4>3, <4>5 DEF InBulks
        <5> QED
          BY <3>2, <4>5, <5>2, <5>3
      <4> QED
        BY <4>4, <4>5
    <3> QED
      BY <3>4, <3>5 DEF Commit
  <2> QED
    BY <2>1, <2>2
<1> QED
  BY <1>3, <1>4, <1>5 DEF InBulks, Slots

LEMMA SourceNextCounted ==
  ASSUME Typed, ReservationsCounted, NEW s \in Sources, SourceNext(s)
  PROVE  ReservationsCounted'
<1> USE DEF Typed
<1>0. src[s] \in SrcState /\ SourceOK(s)
  BY DEF Shape, SourceShape, Sourced
<1>1. ASSUME NEW d \in Domains, NEW c \in Cpus, NEW path \in {"admit", "skb"},
             Reserve(s, d, c, path)
      PROVE  ReservationsCounted'
  <2>1. src[s].pc = "poll" /\ bulk' = bulk /\ src[s].dom = NoDomain
    BY <1>0, <1>1 DEF Reserve, SourceOK
  <2>2. src'[s] = [Polling EXCEPT !.pc = path, !.ent = Chosen(d, c), !.dom = d]
    BY <1>1 DEF Reserve, Shape, SourceShape
  <2>3. src'[s].pc = path /\ src'[s].dom = d
    BY <2>2 DEF Polling, Idle
  <2> SUFFICES ASSUME NEW f \in Domains
               PROVE  pending'[f] = Cardinality(InBulks(f)') + Cardinality(InHands(f)')
    BY DEF ReservationsCounted
  <2>4. InBulks(f)' = InBulks(f)
    BY <2>1, <2>3, BulksSame DEF Flushed
  <2>5. InHands(f)' = IF f = d THEN InHands(f) \cup {s} ELSE InHands(f) \ {s}
    BY <2>3, HandsStep
  <2>6. s \notin InHands(f)
    BY <2>1 DEF InHands
  <2>7. Cardinality(InHands(f)') = Cardinality(InHands(f)) + (IF f = d THEN 1 ELSE 0)
    <3>1. InHands(f)' = IF f = d THEN InHands(f) \cup {s} ELSE InHands(f)
      BY <2>5, <2>6
    <3> QED
      BY <2>6, <3>1, HeldFinite, CountAdd
  <2>8. pending'[f] = pending[f] + (IF f = d THEN 1 ELSE 0)
    BY <1>1 DEF Reserve, Shape, DomainShape
  <2> QED
    BY <2>4, <2>7, <2>8, HeldFinite DEF ReservationsCounted, Shape, DomainShape
<1>2. CASE PollBegin(s) \/ PollEnd(s)
  <2>1. src[s].pc \in {"idle", "poll"} /\ bulk' = bulk /\ pending' = pending
    BY <1>2 DEF PollBegin, PollEnd, domVars
  <2>2. src'[s] \in {Polling, Idle}
    BY <1>2 DEF PollBegin, PollEnd, Shape, SourceShape
  <2>3. src'[s].pc \in {"idle", "poll"} /\ src'[s].dom = src[s].dom
    BY <1>0, <2>1, <2>2 DEF SourceOK, Polling, Idle
  <2> QED
    BY <2>1, <2>3, QuietStep DEF Flushed
<1>3. CASE Enqueue(s)
  <2> DEFINE e == src[s].ent
             d == src[s].dom
             slot == <<s, e, Len(bulk[s][e]) + 1>>
  <2>1. e \in Entries /\ d \in Domains /\ src[s].pc = "admit"
    BY <1>0, <1>3 DEF Enqueue, SourceOK, SrcState
  <2>2. bulk[s][e] \in Seq(Domains) /\ Len(bulk[s][e]) < BulkSize
    BY <1>3, <2>1 DEF Enqueue, Shape, SourceShape
  <2>3. slot \in Slots
    BY <2>1, <2>2 DEF Slots
  <2>4. src'[s] = Polling
    BY <1>3 DEF Enqueue, Shape, SourceShape
  <2>5. bulk'[s] = [bulk[s] EXCEPT ![e] = Append(bulk[s][e], d)]
    BY <1>3 DEF Enqueue, Shape, SourceShape
  <2> SUFFICES ASSUME NEW f \in Domains
               PROVE  pending'[f] = Cardinality(InBulks(f)') + Cardinality(InHands(f)')
    BY DEF ReservationsCounted
  <2>6. slot \notin InBulks(f)
    BY <2>2 DEF InBulks
  <2>7. ASSUME NEW r \in Slots
        PROVE  r \in InBulks(f)' <=> (r \in InBulks(f) \/ (r = slot /\ f = d))
    <3>1. CASE r[1] # s
      BY <3>1, BulksStep
    <3>2. CASE r[1] = s
      <4>1. ~Flushed(s, r[2], r[3]) /\ ~Flushed(s, r[2], r[3])'
        BY <2>1, <2>4 DEF Flushed, Polling, Idle
      <4>2. CASE r[2] # e
        BY <2>5, <3>2, <4>1, <4>2 DEF InBulks, Slots, Shape, SourceShape
      <4>3. CASE r[2] = e
        <5>1. bulk'[s][e] = Append(bulk[s][e], d)
          BY <2>1, <2>5 DEF Shape, SourceShape
        <5>2. r = <<s, e, r[3]>> /\ r[3] \in 1..BulkSize
          BY <3>2, <4>3 DEF Slots
        <5>3. r = slot <=> r[3] = Len(bulk[s][e]) + 1
          BY <5>2
        <5>4. /\ Len(bulk'[s][e]) = Len(bulk[s][e]) + 1
              /\ bulk'[s][e][Len(bulk[s][e]) + 1] = d
              /\ r[3] <= Len(bulk[s][e]) => bulk'[s][e][r[3]] = bulk[s][e][r[3]]
          <6> DEFINE q == bulk[s][e]
          <6>1. q \in Seq(Domains) /\ d \in Domains /\ bulk'[s][e] = Append(q, d)
            BY <2>1, <2>2, <5>1
          <6> HIDE DEF q, d
          <6>2. /\ Len(Append(q, d)) = Len(q) + 1
                /\ \A j \in 1..Len(q) : Append(q, d)[j] = q[j]
                /\ Append(q, d)[Len(q) + 1] = d
            BY <6>1, AppendProperties
          <6>3. r[3] <= Len(q) => bulk'[s][e][r[3]] = q[r[3]]
            BY <5>2, <6>1, <6>2
          <6> QED
            BY <6>1, <6>2, <6>3 DEF q
        <5>5. r \in InBulks(f)' <=> r[3] <= Len(bulk'[s][e]) /\ bulk'[s][e][r[3]] = f
          BY <3>2, <4>1, <4>3 DEF InBulks, Slots
        <5>6. r \in InBulks(f) <=> r[3] <= Len(bulk[s][e]) /\ bulk[s][e][r[3]] = f
          BY <3>2, <4>1, <4>3 DEF InBulks, Slots
        <5>7. Len(bulk[s][e]) \in Nat
          BY <2>2
        <5> HIDE DEF slot, d, e
        <5>8. CASE r[3] <= Len(bulk[s][e])
          <6>1. r # slot /\ r[3] <= Len(bulk'[s][e])
            BY <5>2, <5>3, <5>4, <5>7, <5>8
          <6> QED
            BY <5>4, <5>5, <5>6, <5>8, <6>1
        <5>9. CASE r[3] > Len(bulk[s][e])
          <6>1. r \notin InBulks(f)
            BY <5>2, <5>6, <5>7, <5>9
          <6>2. r[3] <= Len(bulk'[s][e]) <=> r = slot
            BY <5>2, <5>3, <5>4, <5>7, <5>9
          <6> QED
            BY <5>3, <5>4, <5>5, <6>1, <6>2
        <5> QED
          BY <5>2, <5>7, <5>8, <5>9
      <4> QED
        BY <4>2, <4>3
    <3> QED
      BY <3>1, <3>2
  <2>8. InBulks(f)' = IF f = d THEN InBulks(f) \cup {slot} ELSE InBulks(f)
    BY <2>3, <2>7 DEF InBulks, Slots
  <2>9. InHands(f)' = InHands(f) \ {s} /\ (s \in InHands(f) <=> f = d)
    BY <2>1, <2>4, HandsStep DEF Polling, Idle, InHands
  <2>10. Cardinality(InBulks(f)') = Cardinality(InBulks(f)) + (IF f = d THEN 1 ELSE 0)
    BY <2>6, <2>8, HeldFinite, CountAdd, ZenonT(40)
  <2>11. Cardinality(InHands(f)') = Cardinality(InHands(f)) - (IF f = d THEN 1 ELSE 0)
    BY <2>9, HeldFinite, CountRemove
  <2>12. pending' = pending
    BY <1>3 DEF Enqueue, domVars
  <2> QED
    BY <2>10, <2>11, <2>12, HeldFinite DEF ReservationsCounted, Shape, DomainShape
<1>4. ASSUME NEW e \in Entries, NEW pc \in {"poll", "admit", "skb"}, Lock(s, e, pc)
      PROVE  ReservationsCounted'
  <2>1. src'[s] = [src[s] EXCEPT !.pc = "produce", !.next = pc, !.ent = e, !.i = 1]
    BY <1>4 DEF Lock, Shape, SourceShape
  <2>2. src'[s].i = 1 /\ src'[s].dom = src[s].dom
    BY <1>0, <2>1 DEF SrcState
  <2>3. bulk' = bulk /\ pending' = pending /\ src[s].pc = pc
    BY <1>4 DEF Lock, domVars
  <2> QED
    BY <2>2, <2>3, QuietStep DEF Flushed
<1>5. CASE Produce(s)
  <2>1. src'[s] = [src[s] EXCEPT !.pc = "commit", !.ok = ~RingFull(src[s].ent)]
    BY <1>5 DEF Produce, Shape, SourceShape
  <2>2. /\ src'[s].pc = "commit" /\ src'[s].next = src[s].next /\ src'[s].ent = src[s].ent
        /\ src'[s].i = src[s].i /\ src'[s].dom = src[s].dom
    BY <1>0, <2>1 DEF SrcState
  <2>3. bulk' = bulk /\ src[s].pc = "produce" /\ pending' = pending
    BY <1>5 DEF Produce, domVars
  <2> QED
    BY <2>2, <2>3, QuietStep DEF Flushed
<1>6. CASE Commit(s)
  <2> SUFFICES ASSUME NEW f \in Domains
               PROVE  pending'[f] = Cardinality(InBulks(f)') + Cardinality(InHands(f)')
    BY DEF ReservationsCounted
  <2>1. pending'[f] = pending[f] - (IF f = Inserting(s) THEN 1 ELSE 0)
    BY <1>6 DEF Commit, CpuMapCommit, Shape, DomainShape
  <2>2. CASE src[s].next # "skb"
    <3>1. src'[s].dom = src[s].dom
      <4>1. CASE NextFrame(s)
        <5>1. src'[s] = [src[s] EXCEPT !.pc = "produce", !.i = src[s].i + 1, !.ok = FALSE]
          BY <4>1 DEF NextFrame, Shape, SourceShape
        <5> QED
          BY <1>0, <5>1 DEF SrcState
      <4>2. CASE Unlock(s) /\ src[s].next = "admit"
        <5>1. src'[s] = [src[s] EXCEPT !.pc = "admit", !.next = "poll", !.i = 1, !.ok = FALSE]
          BY <4>2 DEF Unlock, Shape, SourceShape
        <5> QED
          BY <1>0, <5>1 DEF SrcState
      <4>3. CASE Unlock(s) /\ src[s].next # "admit"
        <5>1. src'[s] = Polling
          BY <4>3 DEF Unlock, Shape, SourceShape
        <5>2. src[s].dom = NoDomain
          BY <1>0, <1>6, <2>2, <4>3 DEF Commit, SourceOK, SrcState
        <5> QED
          BY <5>1, <5>2 DEF Polling, Idle
      <4> QED
        BY <1>6, <4>1, <4>2, <4>3 DEF Commit
    <3>2. InHands(f)' = InHands(f)
      BY <3>1, HandsStep DEF InHands
    <3>3. Cardinality(InBulks(f)') = Cardinality(InBulks(f)) - (IF f = Inserting(s) THEN 1 ELSE 0)
      <4>1. /\ InBulks(f)' = InBulks(f) \ {<<s, src[s].ent, src[s].i>>}
            /\ <<s, src[s].ent, src[s].i>> \in InBulks(f) <=> f = Inserting(s)
        BY <1>6, <2>2, SlotCommitted
      <4> QED
        BY <4>1, HeldFinite, CountRemove
    <3> QED
      BY <2>1, <3>2, <3>3, HeldFinite DEF ReservationsCounted, Shape, DomainShape
  <2>3. CASE src[s].next = "skb"
    <3>1. src'[s] = Polling /\ bulk' = bulk
      BY <1>6, <2>3 DEF Commit, NextFrame, Unlock, MoreFrames, Shape, SourceShape
    <3>2. InBulks(f)' = InBulks(f)
      BY <2>3, <3>1, BulksSame DEF Flushed, Polling, Idle
    <3>3. InHands(f)' = InHands(f) \ {s} /\ (s \in InHands(f) <=> f = Inserting(s))
      BY <2>3, <3>1, HandsStep DEF Polling, Idle, InHands, Inserting
    <3>4. Cardinality(InHands(f)') = Cardinality(InHands(f)) - (IF f = Inserting(s) THEN 1 ELSE 0)
      BY <3>3, HeldFinite, CountRemove
    <3> QED
      BY <2>1, <3>2, <3>4, HeldFinite DEF ReservationsCounted, Shape, DomainShape
  <2> QED
    BY <2>2, <2>3
<1>7. CASE FlushFull(s) \/ GenericLock(s)
  <2>1. src[s].ent \in Entries
    BY <1>0, <1>7 DEF FlushFull, GenericLock, Lock, SourceOK, SrcState
  <2> QED
    BY <1>4, <1>7, <2>1 DEF FlushFull, GenericLock
<1>8. ASSUME NEW e \in Entries, FlushBulk(s, e) PROVE ReservationsCounted'
  BY <1>4, <1>8 DEF FlushBulk
<1> QED
  BY <1>1, <1>2, <1>3, <1>5, <1>6, <1>7, <1>8 DEF SourceNext, SourceStep

LEMMA OtherCounted ==
  ASSUME ReservationsCounted, UNCHANGED <<src, bulk, pending>>
  PROVE  ReservationsCounted'
  BY DEF ReservationsCounted, InBulks, InHands, Flushed

LEMMA InitCounted == Init => ReservationsCounted
<1> SUFFICES ASSUME Init, NEW d \in Domains
             PROVE  pending[d] = Cardinality(InBulks(d)) + Cardinality(InHands(d))
  BY DEF ReservationsCounted
<1>1. InBulks(d) = {}
  BY DEF Init, InBulks
<1>2. InHands(d) = {}
  BY DEF Init, InHands, Idle
<1> QED
  BY <1>1, <1>2, FS_EmptySet DEF Init

-----------------------------------------------------------------------------
(* References: an entry is counted once while it is not stopped and once   *)
(* for each domain whose target it is.                                     *)

Mapped ==
  /\ \A c \in Cpus : cpuMap[c] # NoEntry =>
       CpuOf[cpuMap[c]] = c /\ life[cpuMap[c]] = "live"
  /\ \A d \in Domains : target[d] # NoEntry => life[target[d]] # "unused"

Targeting(e) == {d \in Domains : target[d] = e}
Owned(e) == IF life[e] \in {"live", "retired"} THEN 1 ELSE 0

LEMMA TargetingFinite ==
  ASSUME NEW e
  PROVE  IsFiniteSet(Targeting(e)) /\ Cardinality(Targeting(e)) \in Nat
  BY FS_Subset, FS_CardinalityType DEF Targeting

LEMMA InitRefs == Init => Mapped /\ RefsExact
<1> SUFFICES ASSUME Init PROVE Mapped /\ RefsExact
  OBVIOUS
<1>1. Mapped
  BY DEF Init, Mapped
<1>2. ASSUME NEW e \in Entries
      PROVE  /\ refs[e] = 0 /\ life[e] = "unused"
             /\ Cardinality({d \in Domains : target[d] = e}) = 0
  <2>1. {d \in Domains : target[d] = e} = {}
    BY DEF Init
  <2> QED
    BY <2>1, FS_EmptySet DEF Init
<1> QED
  BY <1>1, <1>2 DEF RefsExact

LEMMA NextMapped ==
  ASSUME Shape, Mapped, [Next]_vars
  PROVE  Mapped'
<1> USE DEF Shape, MapShape, DomainShape
<1>1. ASSUME UNCHANGED <<cpuMap, life, target>> PROVE Mapped'
  BY <1>1 DEF Mapped
<1>2. ASSUME NEW e \in Entries, UpdateElem(e) PROVE Mapped'
  BY <1>2 DEF Mapped, UpdateElem, Retire, domVars
<1>3. ASSUME NEW e \in Entries, FreeWork(e) PROVE Mapped'
  BY <1>3 DEF Mapped, FreeWork, KthreadStop, domVars
<1>4. ASSUME NEW c \in Cpus, DeleteElem(c) PROVE Mapped'
  BY <1>4 DEF Mapped, DeleteElem, Retire, domVars
<1>5. ASSUME NEW c \in Cpus, MapFreeEntry(c) PROVE Mapped'
  BY <1>5 DEF Mapped, MapFreeEntry, KthreadStop, domVars
<1>6. CASE MapFreeEnd
  BY <1>6 DEF Mapped, MapFreeEnd
<1>7. ASSUME NEW s \in Sources, NEW d \in Domains, NEW c \in Cpus,
             NEW path \in {"admit", "skb"}, Reserve(s, d, c, path)
      PROVE  Mapped'
  BY <1>7 DEF Mapped, Reserve, Usable, Chosen, mapVars
<1>8. CASE UNCHANGED vars
  BY <1>1, <1>8 DEF vars, mapVars, domVars
<1>9. CASE MapFreeBegin \/ \E c \in HotCpus : Offline(c) \/ Online(c)
  BY <1>1, <1>9 DEF MapFreeBegin, Offline, Online, domVars
<1>10. ASSUME NEW s \in Sources, PollBegin(s) \/ SourceStep(s) PROVE Mapped'
  BY <1>1, <1>10 DEF SourceStep, PollBegin, PollEnd, Enqueue, FlushFull, FlushBulk,
     GenericLock, Lock, Produce, Commit, CpuMapCommit, mapVars, domVars
<1>11. ASSUME NEW e \in Entries, KthreadNext(e) PROVE Mapped'
  BY <1>1, <1>11 DEF KthreadNext, KthreadStep, Sleep, Receive, Deliver, CheckFlush,
     PublishCompleted, mapVars, domVars
<1> QED
  BY <1>2, <1>3, <1>4, <1>5, <1>6, <1>7, <1>8, <1>9, <1>10, <1>11
  DEF Next, ControlNext, SourceNext

LEMMA NextRefs ==
  ASSUME Shape, Mapped, RefsExact, [Next]_vars
  PROVE  RefsExact'
<1> USE DEF Shape, MapShape, DomainShape
<1>0. RefsExact <=> \A e \in Entries : refs[e] = Cardinality(Targeting(e)) + Owned(e)
  BY DEF RefsExact, Targeting, Owned
<1>a. ASSUME \A e \in Entries : refs'[e] = Cardinality(Targeting(e)') + Owned(e)'
      PROVE  RefsExact'
  BY <1>a DEF RefsExact, Targeting, Owned
<1>1. ASSUME UNCHANGED <<refs, life, target>> PROVE RefsExact'
  BY <1>1 DEF RefsExact
<1>2. ASSUME NEW e \in Entries, UpdateElem(e) PROVE RefsExact'
  <2>1. target' = target /\ life[e] = "unused" /\ refs' = [refs EXCEPT ![e] = 1]
    BY <1>2 DEF UpdateElem, domVars
  <2>2. Targeting(e) = {}
    BY <2>1 DEF Targeting, Mapped
  <2>3. life'[e] = "live" /\ \A f \in Entries \ {e} : Owned(f)' = Owned(f)
    BY <1>2 DEF UpdateElem, Retire, Mapped, Owned
  <2>4. \A f \in Entries : Targeting(f)' = Targeting(f)
    BY <2>1 DEF Targeting
  <2>5. Cardinality(Targeting(e)) = 0 /\ Owned(e)' = 1
    BY <2>2, <2>3, FS_EmptySet DEF Owned
  <2>6. ASSUME NEW f \in Entries PROVE refs'[f] = Cardinality(Targeting(f)') + Owned(f)'
    <3>1. CASE f = e
      BY <2>1, <2>4, <2>5, <3>1
    <3>2. CASE f # e
      BY <1>0, <2>1, <2>3, <2>4, <3>2
    <3> QED
      BY <3>1, <3>2
  <2> QED
    BY <1>a, <2>6
<1>3. ASSUME NEW e \in Entries, FreeWork(e) \/ \E c \in Cpus : MapFreeEntry(c) /\ e = cpuMap[c]
      PROVE  RefsExact'
  <2>1. /\ target' = target
        /\ life[e] \in {"live", "retired"} /\ life' = [life EXCEPT ![e] = "stopped"]
        /\ refs' = [refs EXCEPT ![e] = @ - 1]
    BY <1>3 DEF FreeWork, MapFreeEntry, KthreadStop, domVars, Mapped
  <2>2. \A f \in Entries : Targeting(f)' = Targeting(f)
    BY <2>1 DEF Targeting
  <2>3. \A f \in Entries : Owned(f)' = IF f = e THEN 0 ELSE Owned(f)
    BY <2>1 DEF Owned
  <2>4. Owned(e) = 1
    BY <2>1 DEF Owned
  <2> QED
    BY <1>0, <1>a, <2>1, <2>2, <2>3, <2>4, TargetingFinite
<1>4. ASSUME NEW c \in Cpus, DeleteElem(c) PROVE RefsExact'
  <2>1. target' = target /\ refs' = refs
    BY <1>4 DEF DeleteElem, domVars
  <2>2. \A f \in Entries : Owned(f)' = Owned(f)
    BY <1>4 DEF DeleteElem, Retire, Mapped, Owned
  <2>3. \A f \in Entries : Targeting(f)' = Targeting(f)
    BY <2>1 DEF Targeting
  <2> QED
    BY <1>0, <1>a, <2>1, <2>2, <2>3
<1>6. CASE MapFreeEnd
  <2>1. \A f \in Entries : Targeting(f)' = {}
    BY <1>6 DEF MapFreeEnd, Targeting
  <2>2. \A f \in Entries : Owned(f)' = Owned(f)
    BY <1>6 DEF MapFreeEnd, Owned
  <2>3. \A f \in Entries : refs'[f] = refs[f] - Cardinality(Targeting(f))
    BY <1>6 DEF MapFreeEnd, Targeting
  <2>4. ASSUME NEW f \in Entries PROVE refs'[f] = Cardinality(Targeting(f)') + Owned(f)'
    <3>1. Cardinality(Targeting(f)') = 0
      BY <2>1, FS_EmptySet
    <3>2. refs[f] = Cardinality(Targeting(f)) + Owned(f) /\ Owned(f) \in Nat
      BY <1>0 DEF Owned
    <3> QED
      BY <2>2, <2>3, <3>1, <3>2, TargetingFinite
  <2> QED
    BY <1>a, <2>4
<1>7. ASSUME NEW s \in Sources, NEW d \in Domains, NEW c \in Cpus,
             NEW path \in {"admit", "skb"}, Reserve(s, d, c, path)
      PROVE  RefsExact'
  <2> DEFINE old == target[d]
             new == Chosen(d, c)
  <2>1. /\ target' = [target EXCEPT ![d] = new] /\ refs' = SwitchRefs(old, new)
        /\ life' = life /\ new \in Entries
    BY <1>7 DEF Reserve, mapVars, Usable, Chosen
  <2> HIDE DEF new
  <2>2. SUFFICES ASSUME NEW f \in Entries
                 PROVE  refs'[f] = Cardinality(Targeting(f)') + Owned(f)'
    BY <1>a
  <2>3. Owned(f)' = Owned(f)
    BY <2>1 DEF Owned
  <2>4. CASE new = old
    <3>1. Targeting(f)' = Targeting(f)
      BY <2>1, <2>4 DEF Targeting
    <3>2. refs'[f] = refs[f]
      BY <2>1, <2>4 DEF SwitchRefs
    <3> QED
      BY <1>0, <2>3, <3>1, <3>2
  <2>5. CASE new # old /\ f = new
    <3>1. Targeting(f)' = Targeting(f) \cup {d} /\ d \notin Targeting(f)
      BY <2>1, <2>5 DEF Targeting
    <3>2. refs'[f] = refs[f] + 1
      BY <2>1, <2>5 DEF SwitchRefs
    <3>3. Cardinality(Targeting(f)') = Cardinality(Targeting(f)) + 1
      BY <3>1, TargetingFinite, FS_AddElement, ZenonT(40)
    <3> QED
      BY <1>0, <2>3, <3>2, <3>3, TargetingFinite DEF Owned
  <2>6. CASE new # old /\ f = old
    <3>1. Targeting(f)' = Targeting(f) \ {d} /\ d \in Targeting(f)
      BY <2>1, <2>6 DEF Targeting
    <3>2. refs'[f] = refs[f] - 1
      BY <2>1, <2>6 DEF SwitchRefs
    <3>3. Cardinality(Targeting(f)') = Cardinality(Targeting(f)) - 1
      BY <3>1, TargetingFinite, FS_RemoveElement
    <3> QED
      BY <1>0, <2>3, <3>2, <3>3, TargetingFinite DEF Owned
  <2>7. CASE new # old /\ f # new /\ f # old
    <3>1. Targeting(f)' = Targeting(f)
      BY <2>1, <2>7 DEF Targeting
    <3>2. refs'[f] = refs[f]
      BY <2>1, <2>7 DEF SwitchRefs
    <3> QED
      BY <1>0, <2>3, <3>1, <3>2
  <2> QED
    BY <2>4, <2>5, <2>6, <2>7
<1>8. CASE UNCHANGED vars
  BY <1>1, <1>8 DEF vars, mapVars, domVars
<1>9. CASE MapFreeBegin \/ \E c \in HotCpus : Offline(c) \/ Online(c)
  BY <1>1, <1>9 DEF MapFreeBegin, Offline, Online, domVars
<1>10. ASSUME NEW s \in Sources, PollBegin(s) \/ SourceStep(s) PROVE RefsExact'
  BY <1>1, <1>10 DEF SourceStep, PollBegin, PollEnd, Enqueue, FlushFull, FlushBulk,
     GenericLock, Lock, Produce, Commit, CpuMapCommit, mapVars, domVars
<1>11. ASSUME NEW e \in Entries, KthreadNext(e) PROVE RefsExact'
  BY <1>1, <1>11 DEF KthreadNext, KthreadStep, Sleep, Receive, Deliver, CheckFlush,
     PublishCompleted, mapVars, domVars
<1>12. ASSUME NEW c \in Cpus, MapFreeEntry(c) PROVE RefsExact'
  BY <1>3, <1>12 DEF MapFreeEntry
<1> QED
  BY <1>2, <1>3, <1>4, <1>6, <1>7, <1>8, <1>9, <1>10, <1>11, <1>12
  DEF Next, ControlNext, SourceNext

-----------------------------------------------------------------------------
(* The inductive invariant and the theorems.                               *)

PendingBound == \A d \in Domains : pending[d] <= MaxPending

Inv == Typed /\ ReservationsCounted /\ PendingBound /\ Mapped /\ RefsExact

LEMMA InitInv == Init => Inv
  BY InitTyped, InitCounted, InitRefs DEF Inv, PendingBound, Init

LEMMA NextInv == Inv /\ [Next]_vars => Inv'
<1> SUFFICES ASSUME Inv, [Next]_vars PROVE Inv'
  OBVIOUS
<1>1. Typed' /\ Mapped' /\ RefsExact'
  BY NextTyped, NextMapped, NextRefs DEF Inv, Typed
<1>2. ReservationsCounted'
  <2>1. CASE UNCHANGED vars \/ ControlNext \/ \E e \in Entries : KthreadNext(e)
    <3>1. UNCHANGED <<src, bulk, pending>>
      BY <2>1 DEF vars, ControlNext, UpdateElem, FreeWork, DeleteElem, MapFreeEntry,
         Offline, Online, MapFreeBegin, MapFreeEnd, KthreadNext, KthreadStep, Sleep,
         Receive, Deliver, CheckFlush, PublishCompleted, srcVars, domVars
    <3> QED
      BY <3>1, OtherCounted DEF Inv
  <2>2. CASE \E s \in Sources : SourceNext(s)
    BY <2>2, SourceNextCounted DEF Inv
  <2> QED
    BY <2>1, <2>2 DEF Next
<1>3. PendingBound'
  <2>1. CASE UNCHANGED pending
    BY <2>1 DEF PendingBound, Inv
  <2>2. CASE \E s \in Sources, d \in Domains, c \in Cpus, path \in {"admit", "skb"} :
               Reserve(s, d, c, path)
    BY <2>2 DEF Reserve, Countable, PendingBound, Inv, Typed, Shape, DomainShape
  <2>3. CASE \E s \in Sources : Commit(s)
    BY <2>3 DEF Commit, CpuMapCommit, PendingBound, Inv, Typed, Shape, DomainShape
  <2>4. ASSUME NEW s \in Sources, SourceNext(s), ~Commit(s),
               ~ \E d \in Domains, c \in Cpus, path \in {"admit", "skb"} :
                   Reserve(s, d, c, path)
        PROVE  UNCHANGED pending
    BY <2>4 DEF SourceNext, SourceStep, PollBegin, PollEnd, Enqueue, FlushFull, FlushBulk,
       GenericLock, Lock, Produce, domVars
  <2>5. CASE UNCHANGED vars \/ ControlNext \/ \E e \in Entries : KthreadNext(e)
    <3>1. UNCHANGED pending
      BY <2>5 DEF vars, ControlNext, UpdateElem, FreeWork, DeleteElem, MapFreeEntry,
         Offline, Online, MapFreeBegin, MapFreeEnd, KthreadNext, KthreadStep, Sleep,
         Receive, Deliver, CheckFlush, PublishCompleted, domVars
    <3> QED
      BY <2>1, <3>1
  <2> QED
    BY <2>1, <2>2, <2>3, <2>4, <2>5 DEF Next
<1> QED
  BY <1>1, <1>2, <1>3 DEF Inv

(* The invariant holds in every reachable state. *)
THEOREM Invariance == Spec => []Inv
  BY InitInv, NextInv, PTL DEF Spec

(* Every variable keeps its type: in particular the u32 pending of a       *)
(* domain never wraps and no entry's refcount is put below zero.           *)
THEOREM TypeCorrect == Spec => []TypeOK
<1>1. Inv => TypeOK
  <2> SUFFICES ASSUME Inv PROVE TypeOK
    OBVIOUS
  <2>1. Shape
    BY DEF Inv, Typed
  <2>2. ASSUME NEW d \in Domains PROVE pending[d] \in 0..MaxPending
    <3>1. pending[d] = Cardinality(InBulks(d)) + Cardinality(InHands(d))
      BY DEF Inv, ReservationsCounted
    <3>2. pending[d] <= MaxPending
      BY DEF Inv, PendingBound
    <3> QED
      BY <3>1, <3>2, HeldFinite
  <2>3. ASSUME NEW e \in Entries PROVE refs[e] \in Nat
    <3>1. refs[e] = Cardinality(Targeting(e)) + Owned(e)
      BY DEF Inv, RefsExact, Targeting, Owned
    <3> QED
      BY <3>1, TargetingFinite DEF Owned
  <2> QED
    BY <2>1, <2>2, <2>3 DEF TypeOK
<1> QED
  BY <1>1, Invariance, PTL

(* The pending count of a domain is the number of submissions that sources *)
(* have reserved and neither committed nor dropped.                        *)
THEOREM ReservationsAreCounted == Spec => []ReservationsCounted
<1>1. Inv => ReservationsCounted
  BY DEF Inv
<1> QED
  BY <1>1, Invariance, PTL

(* The refcount of an entry counts its lifecycle and the domains that      *)
(* target it, no more and no less.                                         *)
THEOREM RefsAreExact == Spec => []RefsExact
<1>1. Inv => RefsExact
  BY DEF Inv
<1> QED
  BY <1>1, Invariance, PTL

-----------------------------------------------------------------------------
(***************************************************************************)
(* The order of a domain's packets.  What is promised (NoOvertaking) is    *)
(* not inductive: that a domain moves only when nothing of it is on its    *)
(* way rests on the watermark and on the last tail covering everything on  *)
(* time, that on tickets being given out under the producer lock, and all  *)
(* of it on reservations holding the target.                               *)
(***************************************************************************)

(* Whether the packet with ticket t of e may be late, ... *)
Late(e, t) == <<e, t>> \in waived

(* ... and whether it is on its way in order. *)
OnTime(e, t) == t \in Outstanding(e) /\ ~Late(e, t)

(* A source that is about to hand out the ticket of what it has inserted. *)
Committing(s, e) == src[s].pc = "commit" /\ src[s].ok /\ src[s].ent = e

(* What sources have in hand and where. *)
Placed ==
  \A s \in Sources :
    /\ src[s].pc \in {"idle", "poll"} => src[s].ent = NoEntry
    /\ src[s].pc = "idle" => \A e \in Entries : bulk[s][e] = <<>>
    /\ map # "live" => src[s].pc = "idle"

(* One source at a time holds the producer lock of an entry. *)
OneProducer ==
  \A s, r \in Sources :
    /\ src[s].pc \in {"produce", "commit"} /\ src[r].pc \in {"produce", "commit"}
    /\ src[s].ent = src[r].ent
    => s = r

(* Every inserted packet has its ticket, or is about to get it. *)
TicketsGiven ==
  \A e \in Entries :
    Len(log[e]) = submitted[e] + (IF \E s \in Sources : Committing(s, e) THEN 1 ELSE 0)

(* The kthread's lifetime is its entry's. *)
Lifetimes ==
  \A e \in Entries :
    /\ life[e] = "unused" <=> kpc[e] = "none"
    /\ life[e] = "stopped" <=> kpc[e] = "exited"

(* The kthread holds packets it has taken, and none when the ring is empty *)
(* and it may sleep or stop.                                               *)
GroHeld ==
  \A e \in Entries :
    /\ gro[e] \subseteq 1..taken[e]
    /\ kpc[e] \in {"none", "top", "asleep", "exited"} /\ RingEmpty(e) => gro[e] = {}
    /\ kpc[e] \in {"none", "exited"} => RingEmpty(e)

(* An entry a source uses is live, or waits for the source's grace period. *)
InUse ==
  \A s \in Sources, e \in Entries :
    src[s].ent = e \/ bulk[s][e] # <<>> =>
      life[e] = "live" \/ (life[e] = "retired" /\ s \in grace[e])

(* Reservations are on the target of their domain, ... *)
ReservedHome ==
  \A s \in Sources :
    /\ \A d \in Domains : src[s].dom = d => src[s].ent = target[d]
    /\ \A e \in Entries : \A i \in 1..Len(bulk[s][e]) :
         ~Flushed(s, e, i) => target[bulk[s][e][i]] = e

(* ... and so is what is on its way and on time; ... *)
Homed ==
  map # "freed" =>
    \A e \in Entries : \A t \in Nat : OnTime(e, t) => target[log[e][t].dom] = e

(* ... also when the target is gone, it is all on one entry. *)
Together ==
  \A e, f \in Entries : \A t, u \in Nat :
    OnTime(e, t) /\ OnTime(f, u) /\ log[e][t].dom = log[f][u].dom => e = f

(* The last tail covers it, unless its ticket is about to be handed out. *)
TailCovers ==
  \A e \in Entries : \A t \in Nat :
    OnTime(e, t) /\ target[log[e][t].dom] = e =>
      \/ t <= lastTail[log[e][t].dom]
      \/ \E s \in Sources : Committing(s, e) /\ Inserting(s) = log[e][t].dom

(* Packets of a domain are numbered as they are inserted. *)
Numbered ==
  /\ \A e \in Entries : \A t \in 1..Len(log[e]) : log[e][t].pub <= pubs[log[e][t].dom]
  /\ \A e \in Entries : \A t, u \in 1..Len(log[e]) :
       log[e][t].dom = log[e][u].dom /\ t < u => log[e][t].pub < log[e][u].pub
  /\ \A e, f \in Entries : \A t \in 1..Len(log[e]), u \in 1..Len(log[f]) :
       log[e][t].dom = log[f][u].dom /\ log[e][t].pub = log[f][u].pub => e = f /\ t = u
  /\ \A d \in Domains : top[d] <= pubs[d]

(* What may be late is older than what is on time. *)
LateOlder ==
  \A e \in Entries : \A t \in Nat : Late(e, t) =>
    /\ t \in 1..Len(log[e])
    /\ \A f \in Entries : \A u \in Nat :
         OnTime(f, u) /\ log[f][u].dom = log[e][t].dom => log[e][t].pub < log[f][u].pub

SourcesInv == Placed /\ OneProducer /\ TicketsGiven /\ InUse /\ ReservedHome
KthreadInv == Lifetimes /\ GroHeld /\ WatermarkHanded
OrderInv == Homed /\ Together /\ TailCovers /\ Numbered /\ LateOlder /\ NoOvertaking

-----------------------------------------------------------------------------
(* What the steps of a source do to its state. *)

LEMMA TypedFacts ==
  ASSUME Typed
  PROVE  /\ \A s \in Sources : src[s] \in SrcState /\ SourceOK(s)
         /\ src \in [Sources -> SrcState] /\ bulk \in [Sources -> [Entries -> Seq(Domains)]]
         /\ log \in [Entries -> Seq(Packets)] /\ submitted \in [Entries -> Nat]
         /\ \A e \in Entries : Len(log[e]) \in Nat /\ taken[e] \in Nat
         /\ \A s \in Sources, e \in Entries : Len(bulk[s][e]) \in Nat
  BY DEF Typed, Shape, SourceShape, RingShape, KthreadShape, Sourced

(* FlushFull, FlushBulk and GenericLock. *)
Locking(s, e, pc) ==
  /\ Lock(s, e, pc)
  /\ pc # "skb" => bulk[s][e] # <<>>
  /\ pc # "poll" => e = src[s].ent

LEMMA SourceCases ==
  ASSUME Typed, NEW s \in Sources, SourceNext(s)
  PROVE  \/ PollBegin(s) \/ PollEnd(s) \/ Enqueue(s) \/ Produce(s) \/ Commit(s)
         \/ \E d \in Domains, c \in Cpus, path \in {"admit", "skb"} : Reserve(s, d, c, path)
         \/ \E e \in Entries, pc \in {"poll", "admit", "skb"} : Locking(s, e, pc)
<1>1. src[s].pc \in {"admit", "skb"} => src[s].ent \in Entries
  BY TypedFacts DEF SourceOK, SrcState
<1>2. FlushFull(s) => Locking(s, src[s].ent, "admit")
  <2>1. ASSUME FlushFull(s) PROVE bulk[s][src[s].ent] # <<>>
    <3>1. Len(bulk[s][src[s].ent]) = BulkSize /\ BulkSize > 0
      BY <2>1 DEF FlushFull
    <3> QED
      BY <3>1
  <2> QED
    BY <2>1 DEF FlushFull, Locking
<1>3. GenericLock(s) => Locking(s, src[s].ent, "skb")
  BY DEF GenericLock, Locking
<1>4. \A e \in Entries : FlushBulk(s, e) => Locking(s, e, "poll")
  BY DEF FlushBulk, Locking
<1>5. FlushFull(s) => src[s].ent \in Entries
  BY <1>1 DEF FlushFull
<1>6. GenericLock(s) => src[s].ent \in Entries
  BY <1>1 DEF GenericLock, Lock
<1> QED
  BY <1>2, <1>3, <1>4, <1>5, <1>6 DEF SourceNext, SourceStep

LEMMA PollFields ==
  ASSUME Typed, NEW s \in Sources, PollBegin(s) \/ PollEnd(s)
  PROVE  /\ src' = [src EXCEPT ![s] = src'[s]] /\ bulk' = bulk
         /\ src[s].pc \in {"idle", "poll"} /\ src[s].dom = NoDomain
         /\ src'[s].pc \in {"idle", "poll"} /\ src'[s].dom = NoDomain
         /\ src'[s].ent = NoEntry
<1>1. src' = [src EXCEPT ![s] = Polling] \/ src' = [src EXCEPT ![s] = Idle]
  BY DEF PollBegin, PollEnd
<1>2. bulk' = bulk /\ src[s].pc \in {"idle", "poll"}
  BY DEF PollBegin, PollEnd
<1> QED
  BY <1>1, <1>2, TypedFacts DEF SourceOK, Polling, Idle

LEMMA EnqueueFields ==
  ASSUME Typed, NEW s \in Sources, Enqueue(s)
  PROVE  /\ src' = [src EXCEPT ![s] = src'[s]]
         /\ src[s].ent \in Entries /\ src[s].pc = "admit" /\ src[s].dom \in Domains
         /\ src'[s].pc = "poll" /\ src'[s].dom = NoDomain /\ src'[s].ent = NoEntry
         /\ bulk' = [bulk EXCEPT ![s][src[s].ent] = Append(bulk[s][src[s].ent], src[s].dom)]
<1>1. src' = [src EXCEPT ![s] = Polling] /\ src[s].pc = "admit"
  BY DEF Enqueue
<1>2. bulk' = [bulk EXCEPT ![s][src[s].ent] = Append(bulk[s][src[s].ent], src[s].dom)]
  BY DEF Enqueue
<1>3. src[s].ent \in Entries /\ src[s].dom \in Domains
  BY <1>1, TypedFacts DEF SourceOK, SrcState
<1> QED
  BY <1>1, <1>2, <1>3, TypedFacts DEF Polling, Idle

LEMMA ReserveFields ==
  ASSUME Typed, NEW s \in Sources, NEW d \in Domains, NEW c \in Cpus,
         NEW path \in {"admit", "skb"}, Reserve(s, d, c, path)
  PROVE  /\ src' = [src EXCEPT ![s] = src'[s]] /\ bulk' = bulk
         /\ src[s].pc = "poll" /\ src[s].dom = NoDomain
         /\ src'[s].pc = path /\ src'[s].dom = d /\ src'[s].ent = Chosen(d, c)
         /\ Chosen(d, c) \in Entries
<1>1. src' = [src EXCEPT ![s] = [Polling EXCEPT !.pc = path, !.ent = Chosen(d, c), !.dom = d]]
  BY DEF Reserve
<1>2. src[s].pc = "poll" /\ bulk' = bulk /\ Chosen(d, c) # NoEntry
  BY DEF Reserve, Usable
<1>3. Chosen(d, c) \in Entries
  BY <1>2 DEF Chosen, Typed, Shape, MapShape, DomainShape
<1> QED
  BY <1>1, <1>2, <1>3, TypedFacts DEF SourceOK, Polling, Idle

LEMMA LockFields ==
  ASSUME Typed, NEW s \in Sources, NEW e \in Entries, NEW pc \in {"poll", "admit", "skb"},
         Locking(s, e, pc)
  PROVE  /\ src' = [src EXCEPT ![s] = src'[s]] /\ bulk' = bulk
         /\ src[s].pc = pc /\ ~ProducerLocked(e) /\ (bulk[s][e] # <<>> \/ src[s].ent = e)
         /\ src'[s].pc = "produce" /\ src'[s].dom = src[s].dom /\ src'[s].ent = e
         /\ src'[s].next = pc /\ src'[s].i = 1
<1>1. /\ src' = [src EXCEPT ![s] =
                     [src[s] EXCEPT !.pc = "produce", !.next = pc, !.ent = e, !.i = 1]]
      /\ bulk' = bulk /\ src[s].pc = pc /\ ~ProducerLocked(e)
  BY DEF Locking, Lock
<1>2. bulk[s][e] # <<>> \/ src[s].ent = e
  BY DEF Locking
<1> QED
  BY <1>1, <1>2, TypedFacts DEF SrcState

LEMMA ProduceFields ==
  ASSUME Typed, NEW s \in Sources, Produce(s)
  PROVE  /\ src' = [src EXCEPT ![s] = src'[s]] /\ bulk' = bulk
         /\ src[s].pc = "produce" /\ src[s].ent \in Entries
         /\ src'[s].pc = "commit" /\ src'[s].dom = src[s].dom /\ src'[s].ent = src[s].ent
         /\ src'[s].next = src[s].next /\ src'[s].i = src[s].i
         /\ src'[s].ok = ~RingFull(src[s].ent)
         /\ Inserting(s)' = Inserting(s) /\ Inserting(s) \in Domains
<1>1. /\ src' = [src EXCEPT ![s] = [src[s] EXCEPT !.pc = "commit", !.ok = ~RingFull(src[s].ent)]]
      /\ bulk' = bulk /\ src[s].pc = "produce"
  BY DEF Produce
<1>2. src[s].ent \in Entries
  BY <1>1, TypedFacts DEF SourceOK, SrcState
<1>3. /\ src'[s].pc = "commit" /\ src'[s].dom = src[s].dom /\ src'[s].ent = src[s].ent
      /\ src'[s].next = src[s].next /\ src'[s].i = src[s].i
      /\ src'[s].ok = ~RingFull(src[s].ent)
  BY <1>1, TypedFacts DEF SrcState
<1>4. Inserting(s)' = Inserting(s)
  BY <1>1, <1>3 DEF Inserting
<1>5. Inserting(s) \in Domains
  <2>1. CASE src[s].next = "skb"
    BY <1>1, <2>1, TypedFacts DEF Inserting, SourceOK, SrcState
  <2>2. CASE src[s].next # "skb"
    <3>1. src[s].i \in 1..Len(bulk[s][src[s].ent]) /\ bulk[s][src[s].ent] \in Seq(Domains)
      BY <1>1, <1>2, <2>2, TypedFacts DEF SourceOK, SrcState
    <3> QED
      BY <2>2, <3>1 DEF Inserting
  <2> QED
    BY <2>1, <2>2
<1> QED
  BY <1>1, <1>2, <1>3, <1>4, <1>5

LEMMA CommitFields ==
  ASSUME Typed, NEW s \in Sources, Commit(s)
  PROVE  /\ src' = [src EXCEPT ![s] = src'[s]]
         /\ src[s].pc = "commit" /\ src[s].ent \in Entries
         /\ src'[s].dom \in {src[s].dom, NoDomain}
         /\ \/ /\ src'[s].pc = "produce" /\ src'[s].ent = src[s].ent /\ bulk' = bulk
               /\ src'[s].next = src[s].next /\ src[s].next # "skb"
               /\ src'[s].i = src[s].i + 1
            \/ /\ src'[s].pc = "admit" /\ src'[s].ent = src[s].ent
               /\ src[s].next = "admit" /\ ~MoreFrames(s)
               /\ bulk' = [bulk EXCEPT ![s][src[s].ent] = <<>>]
            \/ /\ src'[s].pc = "poll" /\ src'[s].ent = NoEntry /\ src'[s].dom = NoDomain
               /\ src[s].next = "poll" /\ ~MoreFrames(s)
               /\ bulk' = [bulk EXCEPT ![s][src[s].ent] = <<>>]
            \/ /\ src'[s].pc = "poll" /\ src'[s].ent = NoEntry /\ src'[s].dom = NoDomain
               /\ src[s].next = "skb" /\ bulk' = bulk
<1>1. src[s].pc = "commit" /\ src[s].ent \in Entries
  BY TypedFacts DEF Commit, SourceOK, SrcState
<1>2. CASE NextFrame(s)
  <2>1. src' = [src EXCEPT ![s] =
                   [src[s] EXCEPT !.pc = "produce", !.i = src[s].i + 1, !.ok = FALSE]]
    BY <1>2 DEF NextFrame
  <2>2. bulk' = bulk /\ src[s].next # "skb"
    BY <1>2 DEF NextFrame, MoreFrames
  <2> QED
    BY <1>1, <2>1, <2>2, TypedFacts DEF SrcState
<1>3. CASE Unlock(s)
  <2>1. src' = [src EXCEPT ![s] =
                  IF src[s].next = "admit"
                  THEN [src[s] EXCEPT !.pc = "admit", !.next = "poll", !.i = 1, !.ok = FALSE]
                  ELSE Polling]
    BY <1>3 DEF Unlock
  <2>2. /\ bulk' = IF src[s].next = "skb" THEN bulk ELSE [bulk EXCEPT ![s][src[s].ent] = <<>>]
        /\ ~MoreFrames(s)
    BY <1>3 DEF Unlock
  <2>3. src[s].next \in {"poll", "admit", "skb"}
    BY TypedFacts DEF SrcState
  <2>4. src'[s] = IF src[s].next = "admit"
                  THEN [src[s] EXCEPT !.pc = "admit", !.next = "poll", !.i = 1, !.ok = FALSE]
                  ELSE Polling
    BY <2>1, TypedFacts
  <2>5. CASE src[s].next = "admit"
    BY <1>1, <2>1, <2>2, <2>4, <2>5, TypedFacts DEF SrcState
  <2>6. CASE src[s].next # "admit"
    BY <1>1, <2>1, <2>2, <2>3, <2>4, <2>6, TypedFacts DEF Polling, Idle
  <2> QED
    BY <2>5, <2>6
<1> QED
  BY <1>2, <1>3 DEF Commit

(* What a step of one actor leaves alone. *)
LEMMA EnqueueBulk ==
  ASSUME Typed, NEW s \in Sources, Enqueue(s)
  PROVE  \A f \in Entries :
           bulk'[s][f] = IF f = src[s].ent THEN Append(bulk[s][f], src[s].dom) ELSE bulk[s][f]
<1> DEFINE e == src[s].ent
           v == Append(bulk[s][e], src[s].dom)
<1>1. bulk' = [bulk EXCEPT ![s][e] = v]
  BY EnqueueFields
<1>2. bulk \in [Sources -> [Entries -> Seq(Domains)]] /\ e \in Entries
  BY EnqueueFields, TypedFacts
<1> HIDE DEF v
<1>3. \A f \in Entries : bulk'[s][f] = IF f = e THEN v ELSE bulk[s][f]
  BY <1>1, <1>2
<1> QED
  BY <1>3 DEF v

LEMMA CommitBulk ==
  ASSUME Typed, NEW s \in Sources, Commit(s)
  PROVE  \A f \in Entries :
           bulk'[s][f] = bulk[s][f] \/ (f = src[s].ent /\ bulk'[s][f] = <<>>)
<1>1. src[s].ent \in Entries
  BY CommitFields
<1>2. bulk' = bulk \/ bulk' = [bulk EXCEPT ![s][src[s].ent] = <<>>]
  BY CommitFields
<1> QED
  BY <1>1, <1>2 DEF Typed, Shape, SourceShape

LEMMA ControlKeeps ==
  ASSUME ControlNext
  PROVE  /\ UNCHANGED <<src, bulk, log, submitted, pubs, gro, taken, completed, top, waived>>
         /\ UNCHANGED <<lastTail, pending>>
         /\ \/ UNCHANGED target
            \/ MapFreeEnd
         /\ \/ map' = map
            \/ map = "live" /\ map' = "freeing" /\ \A s \in Sources : src[s].pc = "idle"
            \/ map = "freeing" /\ map' = "freed"
  BY DEF ControlNext, UpdateElem, FreeWork, DeleteElem, MapFreeEntry, MapFreeBegin,
     MapFreeEnd, Offline, Online, domVars, srcVars, ringVars, kthVars

LEMMA SourceKeeps ==
  ASSUME NEW s \in Sources, SourceNext(s)
  PROVE  /\ UNCHANGED <<map, cpuMap, online, life, taken, gro, packets, completed, top>>
         /\ UNCHANGED grace \/ PollEnd(s)
  BY DEF SourceNext, SourceStep, PollBegin, PollEnd, Reserve, Enqueue, FlushFull,
     FlushBulk, GenericLock, Lock, Produce, Commit, mapVars, kthVars

LEMMA KthreadKeeps ==
  ASSUME NEW e \in Entries, KthreadNext(e)
  PROVE  UNCHANGED <<map, cpuMap, online, life, grace, target, lastTail, pending, src, bulk,
                     log, submitted, pubs, waived>>
  BY DEF KthreadNext, KthreadStep, Sleep, Receive, Deliver, CheckFlush, PublishCompleted,
     mapVars, domVars, srcVars, ringVars

LEMMA VarsKept ==
  ASSUME UNCHANGED vars
  PROVE  UNCHANGED <<map, cpuMap, online, life, grace, target, lastTail, pending, src, bulk,
                     log, submitted, pubs, waived, taken, gro, packets, kpc, completed, top>>
  BY DEF vars, mapVars, domVars, srcVars, ringVars, kthVars

LEMMA PlacedStep ==
  ASSUME Typed, Placed, [Next]_vars
  PROVE  Placed'
<1>1. CASE UNCHANGED <<map, src, bulk>>
  BY <1>1 DEF Placed
<1>2. CASE ControlNext
  BY <1>2, ControlKeeps DEF Placed
<1>3. ASSUME NEW s \in Sources, SourceNext(s) PROVE Placed'
  <2> SUFFICES /\ src'[s].pc \in {"idle", "poll"} => src'[s].ent = NoEntry
               /\ src'[s].pc = "idle" => \A e \in Entries : bulk'[s][e] = <<>>
               /\ map # "live" => src'[s].pc = "idle"
    BY <1>3, SourceKeeps, OthersKeep DEF Placed, Typed
  <2>1. CASE PollBegin(s)
    BY <2>1, PollFields DEF PollBegin, Placed, Typed, Shape, SourceShape, Polling, Idle
  <2>2. CASE PollEnd(s)
    BY <2>2, PollFields, TypedFacts DEF PollEnd, Idle
  <2>3. CASE Enqueue(s)
    BY <2>3, EnqueueFields DEF Placed
  <2>4. CASE Produce(s)
    BY <2>4, ProduceFields DEF Placed
  <2>5. CASE Commit(s)
    BY <2>5, CommitFields DEF Placed
  <2>6. ASSUME NEW d \in Domains, NEW c \in Cpus, NEW path \in {"admit", "skb"},
               Reserve(s, d, c, path)
        PROVE  /\ src'[s].pc \notin {"idle", "poll"}
               /\ map = "live"
    BY <2>6, ReserveFields DEF Placed
  <2>7. ASSUME NEW e \in Entries, NEW pc \in {"poll", "admit", "skb"}, Locking(s, e, pc)
        PROVE  /\ src'[s].pc \notin {"idle", "poll"}
               /\ map = "live"
    BY <2>7, LockFields DEF Placed
  <2> QED
    BY <1>3, <2>1, <2>2, <2>3, <2>4, <2>5, <2>6, <2>7, SourceCases
<1>4. ASSUME NEW e \in Entries, KthreadNext(e) PROVE Placed'
  BY <1>1, <1>4, KthreadKeeps
<1> QED
  BY <1>1, <1>2, <1>3, <1>4, VarsKept DEF Next

LEMMA OneProducerStep ==
  ASSUME Typed, OneProducer, [Next]_vars
  PROVE  OneProducer'
<1>1. CASE UNCHANGED src
  BY <1>1 DEF OneProducer
<1>2. ASSUME NEW s \in Sources, SourceNext(s) PROVE OneProducer'
  <2> SUFFICES ASSUME src'[s].pc \in {"produce", "commit"}, NEW r \in Sources, r # s,
                      src[r].pc \in {"produce", "commit"}
               PROVE  src'[s].ent # src[r].ent
    BY <1>2, OthersKeep DEF OneProducer, Typed
  <2>1. CASE PollBegin(s) \/ PollEnd(s)
    BY <2>1, PollFields
  <2>2. CASE Enqueue(s)
    BY <2>2, EnqueueFields
  <2>3. CASE Produce(s)
    BY <2>3, ProduceFields DEF OneProducer
  <2>4. CASE Commit(s)
    BY <2>4, CommitFields DEF OneProducer
  <2>5. ASSUME NEW d \in Domains, NEW c \in Cpus, NEW path \in {"admit", "skb"},
               Reserve(s, d, c, path)
        PROVE  FALSE
    BY <2>5, ReserveFields
  <2>6. ASSUME NEW e \in Entries, NEW pc \in {"poll", "admit", "skb"}, Locking(s, e, pc)
        PROVE  src'[s].ent # src[r].ent
    BY <2>6, LockFields DEF ProducerLocked
  <2> QED
    BY <1>2, <2>1, <2>2, <2>3, <2>4, <2>5, <2>6, SourceCases
<1> QED
  BY <1>1, <1>2, ControlKeeps, KthreadKeeps, VarsKept DEF Next

(* A source that has an entry is not idle. *)
LEMMA UserIsAwake ==
  ASSUME Placed, NEW s \in Sources, NEW e \in Entries, src[s].ent = e \/ bulk[s][e] # <<>>
  PROVE  src[s].pc # "idle" /\ map = "live"
  BY DEF Placed

LEMMA InUseStep ==
  ASSUME Typed, Placed, Placed', Mapped, InUse, [Next]_vars
  PROVE  InUse'
<1> USE DEF Typed, Shape, MapShape
<1>1. CASE UNCHANGED <<life, grace, src, bulk>>
  BY <1>1 DEF InUse
<1>2. CASE ControlNext
  <2> SUFFICES ASSUME NEW s \in Sources, NEW f \in Entries, src[s].ent = f \/ bulk[s][f] # <<>>
               PROVE  life'[f] = "live" \/ (life'[f] = "retired" /\ s \in grace'[f])
    BY <1>2, ControlKeeps DEF InUse
  <2>1. /\ src[s].pc # "idle" /\ map = "live"
        /\ life[f] = "live" \/ (life[f] = "retired" /\ s \in grace[f])
    BY UserIsAwake DEF InUse
  <2>2. ASSUME NEW e \in Entries, UpdateElem(e)
        PROVE  life'[f] = "live" \/ (life'[f] = "retired" /\ s \in grace'[f])
    BY <2>1, <2>2 DEF UpdateElem, Retire
  <2>3. ASSUME NEW e \in Entries, FreeWork(e)
        PROVE  life'[f] = "live" \/ (life'[f] = "retired" /\ s \in grace'[f])
    BY <2>1, <2>3 DEF FreeWork, KthreadStop
  <2>4. ASSUME NEW c \in Cpus, DeleteElem(c)
        PROVE  life'[f] = "live" \/ (life'[f] = "retired" /\ s \in grace'[f])
    BY <2>1, <2>4 DEF DeleteElem, Retire
  <2>5. CASE UNCHANGED <<life, grace>>
    BY <2>1, <2>5
  <2>6. \A c \in Cpus : ~MapFreeEntry(c)
    BY <2>1 DEF MapFreeEntry
  <2> QED
    BY <1>2, <2>2, <2>3, <2>4, <2>5, <2>6
    DEF ControlNext, Offline, Online, MapFreeBegin, MapFreeEnd
<1>3. ASSUME NEW s \in Sources, SourceNext(s) PROVE InUse'
  <2>1. ASSUME NEW r \in Sources, r # s, NEW f \in Entries,
               src'[r].ent = f \/ bulk'[r][f] # <<>>
        PROVE  life'[f] = "live" \/ (life'[f] = "retired" /\ r \in grace'[f])
    <3>1. src'[r] = src[r] /\ bulk'[r] = bulk[r] /\ life' = life
      BY <1>3, <2>1, OthersKeep, SourceKeeps
    <3>2. life[f] = "live" \/ (life[f] = "retired" /\ r \in grace[f])
      BY <2>1, <3>1 DEF InUse
    <3>3. r \in grace[f] => r \in grace'[f]
      <4>1. CASE grace' = grace
        BY <4>1
      <4>2. CASE PollEnd(s)
        <5>1. grace'[f] = grace[f] \ {s}
          BY <2>1, <4>2 DEF PollEnd
        <5> QED
          BY <2>1, <5>1
      <4> QED
        BY <1>3, <4>1, <4>2, SourceKeeps
    <3> QED
      BY <3>1, <3>2, <3>3
  <2>2. ASSUME NEW f \in Entries, src'[s].ent = f \/ bulk'[s][f] # <<>>, ~PollEnd(s),
               src[s].ent = f \/ bulk[s][f] # <<>>
        PROVE  life'[f] = "live" \/ (life'[f] = "retired" /\ s \in grace'[f])
    BY <1>3, <2>2, SourceKeeps DEF InUse
  <2> SUFFICES ASSUME NEW f \in Entries, src'[s].ent = f \/ bulk'[s][f] # <<>>
               PROVE  life'[f] = "live" \/ (life'[f] = "retired" /\ s \in grace'[f])
    BY <2>1 DEF InUse
  <2>3. CASE PollEnd(s)
    BY <2>3, PollFields DEF PollEnd
  <2>4. CASE PollBegin(s)
    BY <2>2, <2>4, PollFields DEF PollBegin, PollEnd
  <2>5. CASE Enqueue(s)
    <3>1. src'[s].ent = NoEntry /\ src[s].ent \in Entries /\ ~PollEnd(s)
      BY <2>5, EnqueueFields DEF PollEnd
    <3>3. f # src[s].ent => bulk'[s][f] = bulk[s][f]
      BY <2>5, EnqueueBulk
    <3> QED
      BY <2>2, <3>1, <3>3
  <2>6. CASE Produce(s)
    BY <2>2, <2>6, ProduceFields DEF PollEnd
  <2>7. CASE Commit(s)
    <3>1. src'[s].ent \in {src[s].ent, NoEntry} /\ src[s].ent \in Entries /\ ~PollEnd(s)
      BY <2>7, CommitFields DEF PollEnd
    <3>3. bulk'[s][f] \in {bulk[s][f], <<>>}
      BY <2>7, CommitBulk
    <3> QED
      BY <2>2, <3>1, <3>3
  <2>8. ASSUME NEW d \in Domains, NEW c \in Cpus, NEW path \in {"admit", "skb"},
               Reserve(s, d, c, path)
        PROVE  life'[f] = "live" \/ (life'[f] = "retired" /\ s \in grace'[f])
    <3>1. Usable(Chosen(d, c)) /\ life' = life /\ grace' = grace
      BY <2>8 DEF Reserve, mapVars
    <3>2. CASE f = Chosen(d, c)
      BY <3>1, <3>2 DEF Usable, Mapped
    <3>3. CASE f # Chosen(d, c)
      BY <2>8, <3>1, <3>3, ReserveFields DEF InUse
    <3> QED
      BY <3>2, <3>3
  <2>9. ASSUME NEW e \in Entries, NEW pc \in {"poll", "admit", "skb"}, Locking(s, e, pc)
        PROVE  life'[f] = "live" \/ (life'[f] = "retired" /\ s \in grace'[f])
    <3>1. src[s].ent = f \/ bulk[s][f] # <<>>
      BY <2>9, LockFields
    <3>2. life' = life /\ grace' = grace
      BY <2>9 DEF Locking, Lock, mapVars
    <3> QED
      BY <3>1, <3>2 DEF InUse
  <2> QED
    BY <1>3, <2>3, <2>4, <2>5, <2>6, <2>7, <2>8, <2>9, SourceCases
<1>4. ASSUME NEW e \in Entries, KthreadNext(e) PROVE InUse'
  BY <1>1, <1>4, KthreadKeeps
<1> QED
  BY <1>1, <1>2, <1>3, <1>4, VarsKept DEF Next

(* A domain that may leave its target has no reservation. *)
LEMMA NoneReserved ==
  ASSUME Typed, ReservationsCounted, ReservedHome, NEW d \in Domains,
         target[d] = NoEntry \/ pending[d] = 0
  PROVE  /\ \A s \in Sources : src[s].dom # d
         /\ \A s \in Sources, e \in Entries : \A i \in 1..Len(bulk[s][e]) :
              ~Flushed(s, e, i) => bulk[s][e][i] # d
<1>1. CASE pending[d] = 0
  <2>1. pending[d] = Cardinality(InBulks(d)) + Cardinality(InHands(d))
    BY DEF ReservationsCounted
  <2>2. Cardinality(InBulks(d)) = 0 /\ Cardinality(InHands(d)) = 0
    BY <1>1, <2>1, HeldFinite
  <2>3. InBulks(d) = {} /\ InHands(d) = {}
    BY <2>2, HeldFinite, FS_EmptySet
  <2>4. ASSUME NEW s \in Sources, NEW e \in Entries, NEW i \in 1..Len(bulk[s][e]),
               ~Flushed(s, e, i), bulk[s][e][i] = d
        PROVE  FALSE
    <3>1. i \in 1..BulkSize /\ i <= Len(bulk[s][e])
      BY TypedFacts DEF SourceOK
    <3>2. <<s, e, i>> \in Sources \X Entries \X (1..BulkSize)
      BY <3>1
    <3>3. <<s, e, i>> \in InBulks(d)
      BY <2>4, <3>1, <3>2 DEF InBulks
    <3> QED
      BY <2>3, <3>3
  <2> QED
    BY <2>3, <2>4 DEF InHands
<1>2. CASE target[d] = NoEntry
  <2>1. \A s \in Sources : src[s].dom # d
    BY <1>2, TypedFacts DEF ReservedHome, SourceOK
  <2> QED
    BY <1>2, <2>1 DEF ReservedHome
<1> QED
  BY <1>1, <1>2

(* What a source is inserting is reserved there. *)
LEMMA InsertsHome ==
  ASSUME Typed, ReservedHome, NEW s \in Sources, src[s].pc \in {"produce", "commit"}
  PROVE  /\ Inserting(s) \in Domains /\ src[s].ent \in Entries
         /\ target[Inserting(s)] = src[s].ent
<1>1. src[s].ent \in Entries
  BY TypedFacts DEF SourceOK, SrcState
<1>2. CASE src[s].next = "skb"
  BY <1>1, <1>2, TypedFacts DEF SourceOK, SrcState, Inserting, ReservedHome
<1>3. CASE src[s].next # "skb"
  <2>1. /\ src[s].i \in 1..Len(bulk[s][src[s].ent])
        /\ bulk[s][src[s].ent] \in Seq(Domains)
    BY <1>1, <1>3, TypedFacts DEF SourceOK, SrcState
  <2>2. ~Flushed(s, src[s].ent, src[s].i)
    BY <2>1 DEF Flushed
  <2> QED
    BY <1>1, <1>3, <2>1, <2>2 DEF Inserting, ReservedHome
<1> QED
  BY <1>2, <1>3

LEMMA ReserveLeaves ==
  ASSUME Typed, NEW d \in Domains, NEW c \in Cpus, Chosen(d, c) # target[d]
  PROVE  target[d] = NoEntry \/ pending[d] = 0
  BY DEF Chosen, MayLeave

LEMMA ReservedHomeStep ==
  ASSUME Typed, Placed, ReservationsCounted, ReservedHome, [Next]_vars
  PROVE  ReservedHome'
<1>1. CASE UNCHANGED <<src, bulk, target>>
  BY <1>1 DEF ReservedHome, Flushed
<1>2. CASE MapFreeEnd
  <2>1. map = "freeing" /\ UNCHANGED <<src, bulk>>
    BY <1>2 DEF MapFreeEnd, srcVars
  <2>2. \A s \in Sources : src[s].dom = NoDomain
    BY <2>1, TypedFacts DEF Placed, SourceOK
  <2>3. \A s \in Sources, e \in Entries : Len(bulk[s][e]) = 0
    BY <2>1 DEF Placed
  <2> QED
    BY <2>1, <2>2, <2>3 DEF ReservedHome
<1>3. ASSUME NEW s \in Sources, SourceNext(s) PROVE ReservedHome'
  <2>0. ASSUME NEW r \in Sources, r # s, target' = target
        PROVE  /\ \A d \in Domains : src'[r].dom = d => src'[r].ent = target'[d]
               /\ \A e \in Entries : \A i \in 1..Len(bulk'[r][e]) :
                    ~Flushed(r, e, i)' => target'[bulk'[r][e][i]] = e
    <3>1. src'[r] = src[r] /\ bulk'[r] = bulk[r]
      BY <1>3, <2>0, OthersKeep DEF Typed
    <3>2. \A e \in Entries : \A i : Flushed(r, e, i)' = Flushed(r, e, i)
      BY <3>1 DEF Flushed
    <3> QED
      BY <2>0, <3>1, <3>2 DEF ReservedHome
  <2>1. ASSUME target' = target,
               \A d \in Domains : src'[s].dom = d => src'[s].ent = target[d],
               \A e \in Entries : \A i \in 1..Len(bulk'[s][e]) :
                 ~Flushed(s, e, i)' => target[bulk'[s][e][i]] = e
        PROVE  ReservedHome'
    BY <2>0, <2>1 DEF ReservedHome
  <2>2. CASE PollBegin(s) \/ PollEnd(s)
    <3>1. target' = target
      BY <2>2 DEF PollBegin, PollEnd, domVars
    <3>2. \A e \in Entries : \A i : ~Flushed(s, e, i)' /\ ~Flushed(s, e, i)
      BY <2>2, PollFields DEF Flushed
    <3> QED
      BY <2>1, <2>2, <3>1, <3>2, PollFields DEF ReservedHome
  <2>3. CASE Enqueue(s)
    <3> DEFINE f == src[s].ent
    <3>1. target' = target /\ target[src[s].dom] = f /\ f \in Entries
      BY <2>3, EnqueueFields DEF Enqueue, domVars, ReservedHome
    <3>2. \A e \in Entries : \A i : ~Flushed(s, e, i)' /\ ~Flushed(s, e, i)
      BY <2>3, EnqueueFields DEF Flushed
    <3>3. ASSUME NEW e \in Entries, NEW i \in 1..Len(bulk'[s][e])
          PROVE  target[bulk'[s][e][i]] = e
      <4>1. CASE e # f
        BY <2>3, <3>2, <4>1, EnqueueBulk DEF ReservedHome
      <4>2. CASE e = f
        <5>1. bulk'[s][f] = Append(bulk[s][f], src[s].dom)
          BY <2>3, <3>1, EnqueueBulk
        <5>0. bulk[s][f] \in Seq(Domains) /\ Len(bulk[s][f]) \in Nat
          BY <3>1, TypedFacts
        <5>2. i \in 1..Len(bulk[s][f]) + 1
          BY <3>3, <4>2, <5>0, <5>1
        <5>3. CASE i \in 1..Len(bulk[s][f])
          <6>1. bulk'[s][e][i] = bulk[s][e][i]
            BY <4>2, <5>0, <5>1, <5>3
          <6> QED
            BY <3>1, <3>2, <4>2, <5>3, <6>1 DEF ReservedHome
        <5>4. CASE i = Len(bulk[s][f]) + 1
          <6>1. bulk'[s][e][i] = src[s].dom
            BY <4>2, <5>0, <5>1, <5>4
          <6> QED
            BY <3>1, <4>2, <6>1
        <5> QED
          BY <5>0, <5>2, <5>3, <5>4
      <4> QED
        BY <4>1, <4>2
    <3> QED
      BY <2>1, <2>3, <3>1, <3>3, EnqueueFields
  <2>4. CASE Produce(s)
    <3>1. target' = target /\ bulk' = bulk
      BY <2>4, ProduceFields DEF Produce, domVars
    <3>2. \A e \in Entries : \A i : Flushed(s, e, i)' = Flushed(s, e, i)
      BY <2>4, ProduceFields DEF Flushed
    <3> QED
      BY <2>1, <2>4, <3>1, <3>2, ProduceFields DEF ReservedHome
  <2>5. CASE Commit(s)
    <3>1. target' = target
      BY <2>5 DEF Commit
    <3>2. \A d \in Domains : src'[s].dom = d => src'[s].ent = target[d]
      BY <2>5, CommitFields DEF ReservedHome
    <3>3. ASSUME NEW e \in Entries, NEW i \in 1..Len(bulk'[s][e]), ~Flushed(s, e, i)'
          PROVE  target[bulk'[s][e][i]] = e
      <4>1. bulk'[s][e] = bulk[s][e] /\ i \in 1..Len(bulk[s][e])
        BY <2>5, <3>3, CommitBulk
      <4>2. CASE ~Flushed(s, e, i)
        BY <4>1, <4>2 DEF ReservedHome
      <4>3. CASE Flushed(s, e, i)
        <5>1. e = src[s].ent /\ src[s].next # "skb" /\ i < src[s].i /\ bulk[s][e] # <<>>
          BY <4>1, <4>3 DEF Flushed
        <5>2. ~ \/ src'[s].pc = "produce" /\ src'[s].ent = src[s].ent
                   /\ src'[s].next = src[s].next /\ src'[s].i = src[s].i + 1
          BY <3>3, <5>1, TypedFacts DEF Flushed, SrcState
        <5>3. bulk' = [bulk EXCEPT ![s][e] = <<>>]
          BY <2>5, <5>1, <5>2, CommitFields
        <5>4. bulk'[s][e] = <<>>
          BY <5>3, TypedFacts
        <5> QED
          BY <4>1, <5>1, <5>4
      <4> QED
        BY <4>2, <4>3
    <3> QED
      BY <2>1, <3>1, <3>2, <3>3
  <2>6. ASSUME NEW d \in Domains, NEW c \in Cpus, NEW path \in {"admit", "skb"},
               Reserve(s, d, c, path)
        PROVE  ReservedHome'
    <3>1. target' = [target EXCEPT ![d] = Chosen(d, c)] /\ bulk' = bulk
      BY <2>6 DEF Reserve
    <3>2. target \in [Domains -> Entries \cup {NoEntry}]
      BY DEF Typed, Shape, DomainShape
    <3>0. \A r \in Sources : r # s => src'[r] = src[r]
      BY <1>3, OthersKeep DEF Typed
    <3>3. \A r \in Sources, e \in Entries : \A i : Flushed(r, e, i)' = Flushed(r, e, i)
      <4>1. \A e \in Entries : \A i : ~Flushed(s, e, i)' /\ ~Flushed(s, e, i)
        BY <2>6, ReserveFields DEF Flushed
      <4> QED
        BY <3>0, <4>1 DEF Flushed
    <3>4. CASE Chosen(d, c) = target[d]
      <4>1. target' = target
        BY <3>1, <3>2, <3>4
      <4> QED
        <5>1. \A f \in Domains : src'[s].dom = f => src'[s].ent = target[f]
          BY <2>6, <3>4, ReserveFields
        <5> QED
          BY <2>1, <3>1, <3>3, <4>1, <5>1 DEF ReservedHome
    <3>5. CASE Chosen(d, c) # target[d]
      <4>1. /\ \A r \in Sources : src[r].dom # d
            /\ \A r \in Sources, e \in Entries : \A i \in 1..Len(bulk[r][e]) :
                 ~Flushed(r, e, i) => bulk[r][e][i] # d
        BY <3>5, NoneReserved, ReserveLeaves
      <4>2. \A f \in Domains : f # d => target'[f] = target[f]
        BY <3>1, <3>2
      <4>3. target'[d] = Chosen(d, c)
        BY <3>1, <3>2
      <4>4. ASSUME NEW r \in Sources, NEW f \in Domains, src'[r].dom = f
            PROVE  src'[r].ent = target'[f]
        <5>1. CASE r = s
          BY <2>6, <4>3, <4>4, <5>1, ReserveFields
        <5>2. CASE r # s
          BY <3>0, <4>1, <4>2, <4>4, <5>2 DEF ReservedHome
        <5> QED
          BY <5>1, <5>2
      <4>5. ASSUME NEW r \in Sources, NEW e \in Entries, NEW i \in 1..Len(bulk[r][e]),
                   ~Flushed(r, e, i)
            PROVE  target'[bulk[r][e][i]] = e
        <5>1. bulk[r][e][i] \in Domains
          BY TypedFacts
        <5> QED
          BY <4>1, <4>2, <4>5, <5>1 DEF ReservedHome
      <4> QED
        BY <3>1, <3>3, <4>4, <4>5 DEF ReservedHome
    <3> QED
      BY <3>4, <3>5
  <2>7. ASSUME NEW e \in Entries, NEW pc \in {"poll", "admit", "skb"}, Locking(s, e, pc)
        PROVE  ReservedHome'
    <3>1. target' = target /\ bulk' = bulk
      BY <2>7, LockFields DEF Locking, Lock, domVars
    <3>2. \A f \in Entries : \A i \in Nat : i >= 1 => ~Flushed(s, f, i)' /\ ~Flushed(s, f, i)
      BY <2>7, LockFields DEF Flushed
    <3>3. src[s].dom \in Domains => src'[s].ent = src[s].ent
      <4>1. CASE pc = "poll"
        BY <2>7, <4>1, LockFields, TypedFacts DEF SourceOK
      <4>2. CASE pc # "poll"
        BY <2>7, <4>2, LockFields DEF Locking
      <4> QED
        BY <4>1, <4>2
    <3>4. \A d \in Domains : src'[s].dom = d => src'[s].ent = target[d]
      BY <2>7, <3>3, LockFields DEF ReservedHome
    <3>5. ASSUME NEW f \in Entries, NEW i \in 1..Len(bulk[s][f])
          PROVE  target[bulk[s][f][i]] = f
      <4>1. i \in Nat /\ i >= 1
        BY TypedFacts
      <4> QED
        BY <3>2, <4>1 DEF ReservedHome
    <3> QED
      BY <2>1, <3>1, <3>4, <3>5
  <2> QED
    BY <1>3, <2>2, <2>3, <2>4, <2>5, <2>6, <2>7, SourceCases
<1> QED
  BY <1>1, <1>2, <1>3, ControlKeeps, KthreadKeeps, VarsKept DEF Next

LEMMA TicketsGivenStep ==
  ASSUME Typed, OneProducer, TicketsGiven, [Next]_vars
  PROVE  TicketsGiven'
<1>1. CASE UNCHANGED <<src, log, submitted>>
  BY <1>1 DEF TicketsGiven, Committing
<1>2. ASSUME NEW s \in Sources, SourceNext(s) PROVE TicketsGiven'
  <2>0. \A r \in Sources, e \in Entries : r # s => Committing(r, e)' = Committing(r, e)
    BY <1>2, OthersKeep DEF Typed, Committing
  <2>1. ASSUME UNCHANGED <<log, submitted>>, src[s].pc # "commit", src'[s].pc # "commit"
        PROVE  TicketsGiven'
    <3>1. \A e \in Entries : ~Committing(s, e)' /\ ~Committing(s, e)
      BY <2>1 DEF Committing
    <3> QED
      BY <2>0, <2>1, <3>1 DEF TicketsGiven
  <2>2. CASE PollBegin(s) \/ PollEnd(s)
    <3>1. UNCHANGED <<log, submitted>>
      BY <2>2 DEF PollBegin, PollEnd, ringVars
    <3> QED
      BY <2>1, <2>2, <3>1, PollFields
  <2>3. CASE Enqueue(s)
    <3>1. UNCHANGED <<log, submitted>>
      BY <2>3 DEF Enqueue, ringVars
    <3> QED
      BY <2>1, <2>3, <3>1, EnqueueFields
  <2>4. CASE Produce(s)
    <3> DEFINE f == src[s].ent
    <3>1. f \in Entries /\ src[s].pc = "produce" /\ submitted' = submitted
      BY <2>4, ProduceFields DEF Produce
    <3>2. \A e \in Entries : ~Committing(s, e)
      BY <3>1 DEF Committing
    <3>3. \A e \in Entries : Committing(s, e)' <=> e = f /\ ~RingFull(f)
      BY <2>4, <3>1, ProduceFields, TypedFacts DEF Committing
    <3>4. \A r \in Sources : r # s => ~Committing(r, f)
      BY <3>1 DEF OneProducer, Committing
    <3>5. \E p : log' = IF RingFull(f) THEN log ELSE [log EXCEPT ![f] = Append(log[f], p)]
      BY <2>4 DEF Produce
    <3>6. \A e \in Entries :
            Len(log'[e]) = Len(log[e]) + IF e = f /\ ~RingFull(f) THEN 1 ELSE 0
      BY <3>1, <3>5, TypedFacts
    <3> HIDE DEF f
    <3>7. ASSUME NEW e \in Entries
          PROVE  Len(log'[e]) = submitted'[e] +
                   (IF \E r \in Sources : Committing(r, e)' THEN 1 ELSE 0)
      <4>0. submitted'[e] = submitted[e] /\ submitted[e] \in Nat
        BY <3>1, TypedFacts
      <4>1. CASE e = f /\ ~RingFull(f)
        <5>1. Len(log[e]) = submitted[e]
          BY <3>2, <3>4, <4>0, <4>1 DEF TicketsGiven
        <5>2. \E r \in Sources : Committing(r, e)'
          BY <3>3, <4>1
        <5> QED
          BY <3>6, <4>0, <4>1, <5>1, <5>2
      <4>2. CASE ~(e = f /\ ~RingFull(f))
        <5>1. (\E r \in Sources : Committing(r, e)') <=> \E r \in Sources : Committing(r, e)
          BY <2>0, <3>2, <3>3, <4>2
        <5>2. Len(log'[e]) = Len(log[e])
          BY <3>6, <4>2, TypedFacts
        <5> QED
          BY <4>0, <5>1, <5>2 DEF TicketsGiven
      <4> QED
        BY <4>1, <4>2
    <3> QED
      BY <3>7 DEF TicketsGiven
  <2>5. CASE Commit(s)
    <3> DEFINE f == src[s].ent
    <3>1. f \in Entries /\ src[s].pc = "commit" /\ log' = log
      BY <2>5, CommitFields DEF Commit
    <3>2. \A e \in Entries : ~Committing(s, e)'
      BY <2>5, CommitFields DEF Committing
    <3>3. \A e \in Entries : Committing(s, e) <=> e = f /\ src[s].ok
      BY <3>1 DEF Committing
    <3>4. \A r \in Sources : r # s => ~Committing(r, f)
      BY <3>1 DEF OneProducer, Committing
    <3>5. submitted' = [submitted EXCEPT ![f] = IF src[s].ok THEN @ + 1 ELSE @]
      BY <2>5 DEF Commit, CpuMapCommit
    <3>6. \A e \in Entries :
            submitted'[e] = submitted[e] + IF e = f /\ src[s].ok THEN 1 ELSE 0
      BY <3>1, <3>5, TypedFacts
    <3> HIDE DEF f
    <3>7. ASSUME NEW e \in Entries
          PROVE  Len(log[e]) = submitted'[e] +
                   (IF \E r \in Sources : Committing(r, e)' THEN 1 ELSE 0)
      <4>0. submitted[e] \in Nat
        BY TypedFacts
      <4>1. CASE e = f /\ src[s].ok
        <5>1. ~ \E r \in Sources : Committing(r, e)'
          BY <2>0, <3>2, <3>4, <4>1
        <5>2. \E r \in Sources : Committing(r, e)
          BY <3>3, <4>1
        <5> QED
          BY <3>6, <4>0, <4>1, <5>1, <5>2 DEF TicketsGiven
      <4>2. CASE ~(e = f /\ src[s].ok)
        <5>1. (\E r \in Sources : Committing(r, e)') <=> \E r \in Sources : Committing(r, e)
          BY <2>0, <3>2, <3>3, <4>2
        <5> QED
          BY <3>6, <4>0, <4>2, <5>1 DEF TicketsGiven
      <4> QED
        BY <4>1, <4>2
    <3> QED
      BY <3>1, <3>7 DEF TicketsGiven
  <2>6. ASSUME NEW d \in Domains, NEW c \in Cpus, NEW path \in {"admit", "skb"},
               Reserve(s, d, c, path)
        PROVE  TicketsGiven'
    <3>1. UNCHANGED <<log, submitted>>
      BY <2>6 DEF Reserve, ringVars
    <3> QED
      BY <2>1, <2>6, <3>1, ReserveFields
  <2>7. ASSUME NEW e \in Entries, NEW pc \in {"poll", "admit", "skb"}, Locking(s, e, pc)
        PROVE  TicketsGiven'
    <3>1. UNCHANGED <<log, submitted>>
      BY <2>7 DEF Locking, Lock, ringVars
    <3> QED
      BY <2>1, <2>7, <3>1, LockFields
  <2> QED
    BY <1>2, <2>2, <2>3, <2>4, <2>5, <2>6, <2>7, SourceCases
<1> QED
  BY <1>1, <1>2, ControlKeeps, KthreadKeeps, VarsKept DEF Next

-----------------------------------------------------------------------------
(* Kthreads: nothing is held when the ring is empty and the thread may go, *)
(* and the watermark is behind whatever is held.                           *)

LEMMA WakesOnly ==
  ASSUME Typed, NEW s \in Sources, SourceNext(s)
  PROVE  \A e \in Entries : kpc'[e] = kpc[e] \/ (kpc[e] = "asleep" /\ kpc'[e] = "top")
<1>1. kpc \in [Entries -> {"none", "top", "asleep", "recv", "flush", "exited"}]
  BY DEF Typed, Shape, KthreadShape
<1>2. \/ kpc' = kpc
      \/ kpc' = [kpc EXCEPT ![src[s].ent] = IF @ = "asleep" THEN "top" ELSE @]
  BY DEF SourceNext, SourceStep, PollBegin, PollEnd, Reserve, Enqueue, FlushFull,
     FlushBulk, GenericLock, Lock, Produce, Commit, NextFrame, Unlock, Wake, kthVars
<1> QED
  BY <1>1, <1>2

LEMMA LifetimesStep ==
  ASSUME Typed, Mapped, Lifetimes, [Next]_vars
  PROVE  Lifetimes'
<1> USE DEF Typed, Shape, MapShape, KthreadShape
<1>1. CASE UNCHANGED <<life, kpc>>
  BY <1>1 DEF Lifetimes
<1>2. ASSUME NEW e \in Entries, UpdateElem(e) PROVE Lifetimes'
  BY <1>2 DEF Lifetimes, Mapped, UpdateElem, Retire
<1>3. ASSUME NEW e \in Entries, FreeWork(e) PROVE Lifetimes'
  BY <1>3 DEF Lifetimes, FreeWork, KthreadStop
<1>4. ASSUME NEW c \in Cpus, DeleteElem(c) PROVE Lifetimes'
  BY <1>4 DEF Lifetimes, Mapped, DeleteElem, Retire, kthVars
<1>5. ASSUME NEW c \in Cpus, MapFreeEntry(c) PROVE Lifetimes'
  BY <1>5 DEF Lifetimes, Mapped, MapFreeEntry, KthreadStop
<1>6. CASE MapFreeBegin \/ MapFreeEnd \/ \E c \in HotCpus : Offline(c) \/ Online(c)
  BY <1>1, <1>6 DEF MapFreeBegin, MapFreeEnd, Offline, Online, kthVars
<1>7. ASSUME NEW s \in Sources, SourceNext(s) PROVE Lifetimes'
  BY <1>7, WakesOnly, SourceKeeps DEF Lifetimes
<1>8. ASSUME NEW e \in Entries, KthreadNext(e) PROVE Lifetimes'
  <2>1. life' = life
    BY <1>8, KthreadKeeps
  <2>2. \A f \in Entries :
          \/ kpc'[f] = kpc[f]
          \/ kpc[f] \notin {"none", "exited"} /\ kpc'[f] \notin {"none", "exited"}
    BY <1>8 DEF KthreadNext, KthreadStep, Sleep, Receive, Deliver, CheckFlush, PublishCompleted
  <2> QED
    BY <2>1, <2>2 DEF Lifetimes
<1> QED
  BY <1>1, <1>2, <1>3, <1>4, <1>5, <1>6, <1>7, <1>8, VarsKept DEF Next, ControlNext

LEMMA ReceiveFields ==
  ASSUME Typed, NEW e \in Entries, Receive(e)
  PROVE  /\ UNCHANGED <<log, completed, top, waived>>
         /\ \A f \in Entries : f # e => taken'[f] = taken[f] /\ gro'[f] = gro[f]
         /\ taken'[e] \in taken[e] + 1 .. Len(log[e])
         /\ gro[e] \subseteq gro'[e]
         /\ gro'[e] \subseteq gro[e] \cup (taken[e] + 1 .. taken'[e])
         /\ kpc' = [kpc EXCEPT ![e] = "recv"]
<1> DEFINE avail == Len(log[e]) - taken[e]
           n == IF avail < BatchSize THEN avail ELSE BatchSize
<1>1. PICK passed \in SUBSET (taken[e] + 1 .. taken[e] + n) :
        gro' = [gro EXCEPT ![e] = @ \cup passed]
  BY DEF Receive
<1>2. /\ taken' = [taken EXCEPT ![e] = @ + n] /\ ~RingEmpty(e)
      /\ kpc' = [kpc EXCEPT ![e] = "recv"]
      /\ UNCHANGED <<log, completed, top, waived>>
  BY DEF Receive, ringVars
<1>3. /\ Len(log[e]) \in Nat /\ taken[e] \in Nat /\ taken[e] <= Len(log[e])
      /\ BatchSize \in Nat /\ BatchSize >= 1
  BY TypedFacts DEF Typed, TakenInserted
<1>4. n \in 1..avail
  BY <1>2, <1>3 DEF RingEmpty
<1>5. taken \in [Entries -> Nat] /\ gro \in [Entries -> SUBSET Nat]
  BY DEF Typed, Shape, KthreadShape
<1>6. taken'[e] = taken[e] + n /\ \A f \in Entries : f # e => taken'[f] = taken[f]
  BY <1>2, <1>5
<1>7. gro'[e] = gro[e] \cup passed /\ \A f \in Entries : f # e => gro'[f] = gro[f]
  BY <1>1, <1>5
<1> HIDE DEF n
<1>8. taken'[e] \in taken[e] + 1 .. Len(log[e])
  BY <1>3, <1>4, <1>6
<1>9. gro[e] \subseteq gro'[e] /\ gro'[e] \subseteq gro[e] \cup (taken[e] + 1 .. taken'[e])
  BY <1>1, <1>6, <1>7
<1> QED
  BY <1>2, <1>6, <1>7, <1>8, <1>9

LEMMA DeliverFields ==
  ASSUME Typed, NEW e \in Entries, NEW t \in 1..Len(log[e]), Deliver(e, t)
  PROVE  /\ UNCHANGED <<log, taken, completed, waived, kpc>>
         /\ t \in gro[e] /\ gro'[e] = gro[e] \ {t}
         /\ \A f \in Entries : f # e => gro'[f] = gro[f]
         /\ log[e][t].dom \in Domains /\ log[e][t].pub \in Nat
         /\ \A d \in Domains : d # log[e][t].dom => top'[d] = top[d]
         /\ top'[log[e][t].dom] =
              IF log[e][t].pub > top[log[e][t].dom] THEN log[e][t].pub
              ELSE top[log[e][t].dom]
<1>1. gro \in [Entries -> SUBSET Nat] /\ top \in [Domains -> Nat] /\ log[e][t] \in Packets
  BY TypedFacts DEF Typed, Shape, KthreadShape
<1>2. log[e][t].dom \in Domains /\ log[e][t].pub \in Nat
  BY <1>1 DEF Packets
<1>3. gro' = [gro EXCEPT ![e] = @ \ {t}] /\ t \in gro[e]
  BY DEF Deliver
<1>4. top' = [top EXCEPT ![log[e][t].dom] = IF log[e][t].pub > @ THEN log[e][t].pub ELSE @]
  BY DEF Deliver
<1>5. UNCHANGED <<log, taken, completed, waived, kpc>>
  BY DEF Deliver, ringVars
<1> QED
  BY <1>1, <1>2, <1>3, <1>4, <1>5

LEMMA GroHeldStep ==
  ASSUME Typed, Typed', InUse, Lifetimes, Mapped, GroHeld, [Next]_vars
  PROVE  GroHeld'
<1> USE DEF RingEmpty
<1>1. CASE UNCHANGED <<log, taken, gro, kpc>>
  BY <1>1 DEF GroHeld
<1>2. CASE ControlNext
  <2>1. UNCHANGED <<log, taken, gro>>
    BY <1>2, ControlKeeps
  <2>2. \A f \in Entries :
          \/ kpc'[f] = kpc[f]
          \/ kpc[f] = "none" /\ kpc'[f] = "top"
          \/ kpc[f] \in {"top", "asleep"} /\ kpc'[f] = "exited" /\ RingEmpty(f)
    <3> SUFFICES ASSUME NEW f \in Entries
                 PROVE  \/ kpc'[f] = kpc[f]
                        \/ kpc[f] = "none" /\ kpc'[f] = "top"
                        \/ kpc[f] \in {"top", "asleep"} /\ kpc'[f] = "exited" /\ RingEmpty(f)
      OBVIOUS
    <3>0. kpc \in [Entries -> {"none", "top", "asleep", "recv", "flush", "exited"}]
      BY DEF Typed, Shape, KthreadShape
    <3>1. ASSUME NEW e \in Entries, UpdateElem(e)
          PROVE  kpc'[f] = kpc[f] \/ (kpc[f] = "none" /\ kpc'[f] = "top")
      BY <3>0, <3>1 DEF UpdateElem, Lifetimes
    <3>2. ASSUME NEW e \in Entries, KthreadStop(e)
          PROVE  \/ kpc'[f] = kpc[f]
                 \/ kpc[f] \in {"top", "asleep"} /\ kpc'[f] = "exited" /\ RingEmpty(f)
      BY <3>0, <3>2 DEF KthreadStop
    <3>3. ASSUME NEW c \in Cpus, MapFreeEntry(c)
          PROVE  cpuMap[c] \in Entries /\ KthreadStop(cpuMap[c])
      BY <3>3 DEF MapFreeEntry, Typed, Shape, MapShape
    <3> QED
      BY <1>2, <3>1, <3>2, <3>3 DEF ControlNext, FreeWork, DeleteElem, MapFreeBegin,
         MapFreeEnd, Offline, Online, kthVars
  <2> QED
    BY <2>1, <2>2 DEF GroHeld
<1>3. ASSUME NEW s \in Sources, SourceNext(s) PROVE GroHeld'
  <2>1. UNCHANGED <<taken, gro>>
    BY <1>3, SourceKeeps
  <2>2. \A e \in Entries : kpc'[e] = kpc[e] \/ (kpc[e] = "asleep" /\ kpc'[e] = "top")
    BY <1>3, WakesOnly
  <2>3. CASE log' = log
    BY <2>1, <2>2, <2>3 DEF GroHeld
  <2>4. CASE log' # log
    <3> DEFINE f == src[s].ent
    <3>1. Produce(s) /\ \E p : log' = [log EXCEPT ![f] = Append(log[f], p)]
      BY <1>3, <2>4 DEF SourceNext, SourceStep, PollBegin, PollEnd, Reserve, Enqueue,
         FlushFull, FlushBulk, GenericLock, Lock, Produce, Commit, ringVars
    <3>2. f \in Entries
      BY <3>1, ProduceFields
    <3>3. /\ \A e \in Entries : e # f => log'[e] = log[e]
          /\ Len(log'[f]) = Len(log[f]) + 1
      BY <3>1, <3>2, TypedFacts
    <3>4. taken[f] <= Len(log[f]) /\ Len(log[f]) \in Nat /\ taken[f] \in Nat
      BY <3>2, TypedFacts DEF Typed, TakenInserted
    <3>5. taken[f] # Len(log'[f])
      BY <3>3, <3>4
    <3>6. life[f] \in {"live", "retired"}
      BY <3>2 DEF InUse
    <3>7. kpc[f] \notin {"none", "exited"}
      BY <3>2, <3>6 DEF Lifetimes
    <3> HIDE DEF f
    <3> QED
      BY <2>1, <2>2, <3>2, <3>3, <3>5, <3>7 DEF GroHeld
  <2> QED
    BY <2>3, <2>4
<1>4. ASSUME NEW e \in Entries, KthreadNext(e) PROVE GroHeld'
  <2>0. kpc \in [Entries -> {"none", "top", "asleep", "recv", "flush", "exited"}]
    BY DEF Typed, Shape, KthreadShape
  <2>1. CASE Sleep(e)
    BY <2>0, <2>1 DEF Sleep, ringVars, GroHeld
  <2>2. CASE Receive(e)
    <3>1. \A f \in Entries : f # e => kpc'[f] = kpc[f]
      BY <2>0, <2>2, ReceiveFields
    <3>2. kpc'[e] = "recv"
      BY <2>0, <2>2, ReceiveFields
    <3>3. taken[e] \in Nat /\ taken'[e] \in Nat /\ taken'[e] >= taken[e]
      BY <2>2, ReceiveFields, TypedFacts
    <3>4. gro'[e] \subseteq 1..taken'[e]
      BY <2>2, <3>3, ReceiveFields DEF GroHeld
    <3> QED
      BY <2>2, <3>1, <3>2, <3>4, ReceiveFields DEF GroHeld
  <2>3. ASSUME NEW t \in 1..Len(log[e]), Deliver(e, t) PROVE GroHeld'
    BY <2>3, DeliverFields DEF GroHeld
  <2>4. CASE CheckFlush(e)
    BY <2>0, <2>4 DEF CheckFlush, ringVars, GroHeld
  <2>5. CASE PublishCompleted(e)
    BY <2>0, <2>5 DEF PublishCompleted, GroFlushed, ringVars, GroHeld
  <2> QED
    BY <1>4, <2>1, <2>2, <2>3, <2>4, <2>5 DEF KthreadNext, KthreadStep
<1> QED
  BY <1>1, <1>2, <1>3, <1>4, VarsKept DEF Next

LEMMA WatermarkStep ==
  ASSUME Typed, GroHeld, WatermarkHanded, [Next]_vars
  PROVE  WatermarkHanded'
<1>1. CASE UNCHANGED <<completed, taken, gro>>
  BY <1>1 DEF WatermarkHanded
<1>2. ASSUME NEW e \in Entries, KthreadNext(e) PROVE WatermarkHanded'
  <2>1. CASE Sleep(e) \/ CheckFlush(e)
    BY <1>1, <2>1 DEF Sleep, CheckFlush
  <2>2. CASE Receive(e)
    <3>1. taken[e] \in Nat /\ completed[e] \in Nat /\ completed' = completed
      BY <2>2, ReceiveFields DEF Typed, Shape, KthreadShape
    <3>2. completed[e] <= taken[e]
      BY DEF WatermarkHanded
    <3>3. completed[e] <= taken'[e] /\ \A t \in taken[e] + 1 .. taken'[e] : t > completed[e]
      BY <2>2, <3>1, <3>2, ReceiveFields, TypedFacts
    <3> QED
      BY <2>2, <3>1, <3>3, ReceiveFields DEF WatermarkHanded
  <2>3. ASSUME NEW t \in 1..Len(log[e]), Deliver(e, t) PROVE WatermarkHanded'
    BY <2>3, DeliverFields DEF WatermarkHanded
  <2>4. CASE PublishCompleted(e)
    BY <2>4, TypedFacts DEF PublishCompleted, GroFlushed, Processed, WatermarkHanded, Typed,
       Shape, KthreadShape
  <2> QED
    BY <1>2, <2>1, <2>2, <2>3, <2>4 DEF KthreadNext, KthreadStep
<1> QED
  BY <1>1, <1>2, ControlKeeps, SourceKeeps, VarsKept DEF Next

-----------------------------------------------------------------------------
(* Order.                                                                  *)

LEMMA OutstandingIn ==
  ASSUME Typed, GroHeld, NEW e \in Entries
  PROVE  Outstanding(e) \subseteq 1..Len(log[e])
<1>1. taken[e] \in Nat /\ Len(log[e]) \in Nat /\ taken[e] <= Len(log[e])
  BY TypedFacts DEF Typed, TakenInserted
<1>2. gro[e] \subseteq 1..taken[e]
  BY DEF GroHeld
<1> QED
  BY <1>1, <1>2 DEF Outstanding

LEMMA PacketFields ==
  ASSUME Typed, NEW e \in Entries, NEW t \in 1..Len(log[e])
  PROVE  log[e][t].dom \in Domains /\ log[e][t].pub \in Nat
<1>1. log[e][t] \in Packets
  BY TypedFacts
<1> QED
  BY <1>1 DEF Packets

LEMMA OnTimeFields ==
  ASSUME Typed, GroHeld, NEW e \in Entries, NEW t, OnTime(e, t)
  PROVE  t \in 1..Len(log[e]) /\ log[e][t].dom \in Domains /\ log[e][t].pub \in Nat
<1>1. t \in 1..Len(log[e])
  BY OutstandingIn DEF OnTime
<1> QED
  BY <1>1, PacketFields

(* Inserted(s): the ring was not full.  Everything that was there stays,   *)
(* and the new packet is the last one.                                     *)
Inserted(s) == Produce(s) /\ ~RingFull(src[s].ent)

LEMMA InsertedFields ==
  ASSUME Typed, NEW s \in Sources, Inserted(s)
  PROVE  /\ src[s].ent \in Entries /\ Inserting(s) \in Domains
         /\ \A f \in Entries : f # src[s].ent => log'[f] = log[f]
         /\ Len(log'[src[s].ent]) = Len(log[src[s].ent]) + 1
         /\ \A f \in Entries : \A t \in 1..Len(log[f]) : log'[f][t] = log[f][t]
         /\ log'[src[s].ent][Len(log[src[s].ent]) + 1].dom = Inserting(s)
         /\ log'[src[s].ent][Len(log[src[s].ent]) + 1].pub = pubs[Inserting(s)] + 1
         /\ pubs'[Inserting(s)] = pubs[Inserting(s)] + 1 /\ pubs[Inserting(s)] \in Nat
         /\ \A g \in Domains : g # Inserting(s) => pubs'[g] = pubs[g]
         /\ UNCHANGED <<target, lastTail, taken, gro, completed, top, waived>>
<1> DEFINE e == src[s].ent
           d == Inserting(s)
           p == [dom |-> d, pub |-> pubs[d] + 1]
<1>1. e \in Entries /\ d \in Domains
  BY ProduceFields DEF Inserted
<1>2. log' = [log EXCEPT ![e] = Append(log[e], p)] /\ pubs' = [pubs EXCEPT ![d] = pubs[d] + 1]
  BY DEF Inserted, Produce
<1>3. pubs \in [Domains -> Nat]
  BY DEF Typed, Shape, RingShape
<1>4. UNCHANGED <<target, lastTail, taken, gro, completed, top, waived>>
  BY DEF Inserted, Produce, domVars, kthVars
<1>9. p.dom = d /\ p.pub = pubs[d] + 1
  OBVIOUS
<1> HIDE DEF p, e, d
<1>5. log'[e] = Append(log[e], p) /\ \A f \in Entries : f # e => log'[f] = log[f]
  BY <1>1, <1>2, TypedFacts
<1>6. log[e] \in Seq(Packets)
  BY <1>1, TypedFacts
<1>7. /\ Len(log'[e]) = Len(log[e]) + 1 /\ log'[e][Len(log[e]) + 1] = p
      /\ \A t \in 1..Len(log[e]) : log'[e][t] = log[e][t]
  BY <1>5, <1>6
<1>8. \A f \in Entries : \A t \in 1..Len(log[f]) : log'[f][t] = log[f][t]
  BY <1>5, <1>7
<1>10. pubs'[d] = pubs[d] + 1 /\ pubs[d] \in Nat /\ \A g \in Domains : g # d => pubs'[g] = pubs[g]
  BY <1>1, <1>2, <1>3
<1> QED
  BY <1>1, <1>4, <1>5, <1>7, <1>8, <1>9, <1>10 DEF e, d

LEMMA InsertedOutstanding ==
  ASSUME Typed, NEW s \in Sources, Inserted(s)
  PROVE  \A e \in Entries : Outstanding(e)' =
           IF e = src[s].ent THEN Outstanding(e) \cup {Len(log[e]) + 1} ELSE Outstanding(e)
<1> SUFFICES ASSUME NEW e \in Entries
             PROVE  Outstanding(e)' = IF e = src[s].ent
                                      THEN Outstanding(e) \cup {Len(log[e]) + 1}
                                      ELSE Outstanding(e)
  OBVIOUS
<1>1. UNCHANGED <<taken, gro>>
  BY InsertedFields
<1>2. CASE e # src[s].ent
  <2>1. log'[e] = log[e]
    BY <1>2, InsertedFields
  <2> QED
    BY <1>1, <1>2, <2>1 DEF Outstanding
<1>3. CASE e = src[s].ent
  <2>1. Len(log'[e]) = Len(log[e]) + 1
    BY <1>3, InsertedFields
  <2>2. taken[e] \in Nat /\ Len(log[e]) \in Nat /\ taken[e] <= Len(log[e])
    BY TypedFacts DEF Typed, TakenInserted
  <2>3. taken[e] + 1 .. Len(log[e]) + 1 = (taken[e] + 1 .. Len(log[e])) \cup {Len(log[e]) + 1}
    BY <2>2
  <2> QED
    BY <1>1, <1>3, <2>1, <2>3 DEF Outstanding
<1> QED
  BY <1>2, <1>3

(* Any other step: packets only leave. *)
Leaving ==
  /\ UNCHANGED <<log, pubs>>
  /\ \A e \in Entries : Outstanding(e)' \subseteq Outstanding(e)
  /\ waived \subseteq waived'

LEMMA StepKinds ==
  ASSUME Typed, [Next]_vars
  PROVE  Leaving \/ \E s \in Sources : Inserted(s)
<1>1. ASSUME UNCHANGED <<log, pubs, taken, gro>>, waived \subseteq waived' PROVE Leaving
  BY <1>1 DEF Leaving, Outstanding
<1>2. ASSUME NEW s \in Sources, SourceNext(s) PROVE Leaving \/ Inserted(s)
  <2>1. CASE Produce(s)
    BY <1>1, <2>1 DEF Produce, Inserted, kthVars
  <2>2. CASE ~Produce(s)
    <3>1. UNCHANGED <<log, pubs>> /\ waived \subseteq waived'
      BY <1>2, <2>2 DEF SourceNext, SourceStep, PollBegin, PollEnd, Reserve, Enqueue,
         FlushFull, FlushBulk, GenericLock, Lock, Commit, ringVars
    <3> QED
      BY <1>1, <1>2, <3>1, SourceKeeps
  <2> QED
    BY <2>1, <2>2
<1>3. ASSUME NEW e \in Entries, KthreadNext(e) PROVE Leaving
  <2>1. UNCHANGED <<log, pubs, waived>>
    BY <1>3, KthreadKeeps
  <2>2. CASE UNCHANGED <<taken, gro>>
    BY <1>1, <2>1, <2>2
  <2>3. CASE Receive(e)
    <3>1. taken[e] \in Nat /\ Len(log[e]) \in Nat /\ taken'[e] \in Nat
      BY <2>3, ReceiveFields, TypedFacts
    <3>2. Outstanding(e)' \subseteq Outstanding(e)
      BY <2>1, <2>3, <3>1, ReceiveFields DEF Outstanding
    <3>3. \A f \in Entries : f # e => Outstanding(f)' = Outstanding(f)
      BY <2>1, <2>3, ReceiveFields DEF Outstanding
    <3> QED
      BY <2>1, <3>2, <3>3 DEF Leaving
  <2>4. ASSUME NEW t \in 1..Len(log[e]), Deliver(e, t) PROVE Leaving
    <3>1. \A f \in Entries : gro'[f] \subseteq gro[f] /\ taken' = taken
      BY <2>4, DeliverFields
    <3> QED
      BY <2>1, <3>1 DEF Leaving, Outstanding
  <2> QED
    BY <1>3, <2>2, <2>3, <2>4 DEF KthreadNext, KthreadStep, Sleep, CheckFlush,
       PublishCompleted
<1> QED
  BY <1>1, <1>2, <1>3, ControlKeeps, VarsKept DEF Next

LEMMA LeavingOnTime ==
  ASSUME Leaving, NEW e \in Entries, NEW t, OnTime(e, t)'
  PROVE  OnTime(e, t) /\ log'[e][t] = log[e][t]
  BY DEF Leaving, OnTime, Late

LEMMA InsertedOnTime ==
  ASSUME Typed, GroHeld, NEW s \in Sources, Inserted(s), NEW e \in Entries, NEW t,
         OnTime(e, t)'
  PROVE  \/ OnTime(e, t) /\ log'[e][t] = log[e][t]
         \/ e = src[s].ent /\ t = Len(log[e]) + 1
<1>1. UNCHANGED waived
  BY InsertedFields
<1>2. OnTime(e, t) => log'[e][t] = log[e][t]
  BY OnTimeFields, InsertedFields
<1> QED
  BY <1>1, <1>2, InsertedOutstanding DEF OnTime, Late

(* A domain without reservations whose watermark is reached has nothing on *)
(* its way.                                                                *)
LEMMA DrainedIsQuiet ==
  ASSUME Typed, ReservationsCounted, ReservedHome, GroHeld, WatermarkHanded, Homed, TailCovers,
         map # "freed", NEW d \in Domains,
         target[d] # NoEntry => pending[d] = 0 /\ ~(completed[target[d]] < lastTail[d]),
         NEW e \in Entries, NEW t, OnTime(e, t), log[e][t].dom = d
  PROVE  FALSE
<1>1. t \in 1..Len(log[e]) /\ t \in Nat
  BY OnTimeFields
<1>2. target[d] = e
  BY <1>1 DEF Homed
<1>3. pending[d] = 0 /\ ~(completed[e] < lastTail[d])
  BY <1>2
<1>4. \A s \in Sources : ~(src[s].pc = "commit" /\ Inserting(s) = d)
  <2> SUFFICES ASSUME NEW s \in Sources, src[s].pc = "commit", Inserting(s) = d PROVE FALSE
    OBVIOUS
  <2>1. CASE src[s].next = "skb"
    BY <1>3, <2>1, NoneReserved DEF Inserting
  <2>2. CASE src[s].next # "skb"
    <3>0. src[s].ent \in Entries
      BY TypedFacts DEF SourceOK, SrcState
    <3>1. src[s].i \in 1..Len(bulk[s][src[s].ent])
      BY <2>2, <3>0, TypedFacts DEF SourceOK, SrcState
    <3>2. ~Flushed(s, src[s].ent, src[s].i)
      BY <3>1 DEF Flushed
    <3> QED
      BY <1>3, <2>2, <3>0, <3>1, <3>2, NoneReserved DEF Inserting
  <2> QED
    BY <2>1, <2>2
<1>5. t <= lastTail[d]
  BY <1>1, <1>2, <1>4 DEF TailCovers, Committing
<1>6. t > completed[e]
  <2>1. completed[e] \in Nat /\ taken[e] \in Nat /\ completed[e] <= taken[e]
    BY TypedFacts DEF WatermarkHanded, Typed, Shape, KthreadShape
  <2> QED
    BY <1>1, <2>1, TypedFacts DEF OnTime, Outstanding, WatermarkHanded
<1>7. lastTail[d] \in Nat /\ completed[e] \in Nat
  BY DEF Typed, Shape, DomainShape, KthreadShape
<1> QED
  BY <1>1, <1>3, <1>5, <1>6, <1>7

(* A domain that moves has nothing on its way any more. *)
LEMMA MovesQuietly ==
  ASSUME Typed, Placed, ReservationsCounted, ReservedHome, GroHeld, WatermarkHanded, Homed,
         TailCovers, NEW s \in Sources, NEW d \in Domains, NEW c \in Cpus,
         NEW path \in {"admit", "skb"}, Reserve(s, d, c, path), Chosen(d, c) # target[d],
         NEW e \in Entries, NEW t, OnTime(e, t)'
  PROVE  log[e][t].dom # d
<1> SUFFICES ASSUME log[e][t].dom = d PROVE FALSE
  OBVIOUS
<1>1. /\ UNCHANGED <<log, taken, gro>> /\ src[s].pc = "poll"
      /\ waived' = waived \cup LeftBehind(d, target[d], Chosen(d, c))
  BY DEF Reserve, ringVars, kthVars
<1>2. map # "freed"
  BY <1>1 DEF Placed
<1>3. OnTime(e, t)
  BY <1>1 DEF OnTime, Late, Outstanding
<1>4. t \in Nat /\ target[d] = e
  BY <1>2, <1>3, OnTimeFields DEF Homed
<1>5. MayLeave(d)
  BY DEF Chosen
<1>6. CASE CpuOf[e] \notin online
  <2>1. <<e, t>> \in LeftBehind(d, target[d], Chosen(d, c))
    BY <1>3, <1>4, <1>6 DEF LeftBehind, OnTime
  <2> QED
    BY <1>1, <2>1 DEF OnTime, Late
<1>7. CASE CpuOf[e] \in online
  <2>1. pending[d] = 0 /\ ~(completed[e] < lastTail[d])
    BY <1>4, <1>5, <1>7 DEF MayLeave, Busy
  <2> QED
    BY <1>2, <1>3, <1>4, <2>1, DrainedIsQuiet
<1> QED
  BY <1>6, <1>7

LEMMA HomedStep ==
  ASSUME Typed, Placed, Placed', ReservationsCounted, ReservedHome, GroHeld, GroHeld',
         WatermarkHanded, Homed, TailCovers, Typed', [Next]_vars
  PROVE  Homed'
<1> SUFFICES ASSUME map' # "freed", NEW e \in Entries, NEW t \in Nat, OnTime(e, t)'
             PROVE  target'[log'[e][t].dom] = e
  BY DEF Homed
<1>1. map # "freed"
  BY ControlKeeps, SourceKeeps, KthreadKeeps, VarsKept DEF Next
<1>2. CASE \E s \in Sources : Inserted(s)
  <2>1. PICK s \in Sources : Inserted(s)
    BY <1>2
  <2>2. target' = target
    BY <2>1, InsertedFields
  <2>3. CASE OnTime(e, t) /\ log'[e][t] = log[e][t]
    BY <1>1, <2>2, <2>3 DEF Homed
  <2>4. CASE e = src[s].ent /\ t = Len(log[e]) + 1
    <3>1. log'[e][t].dom = Inserting(s)
      BY <2>1, <2>4, InsertedFields
    <3>2. target[Inserting(s)] = e
      BY <2>1, <2>4, InsertsHome DEF Inserted, Produce
    <3> QED
      BY <2>2, <3>1, <3>2
  <2> QED
    BY <2>1, <2>3, <2>4, InsertedOnTime
<1>3. CASE Leaving
  <2>1. OnTime(e, t) /\ log'[e][t] = log[e][t]
    BY <1>3, LeavingOnTime
  <2>2. CASE target' = target
    BY <1>1, <2>1, <2>2 DEF Homed
  <2>3. ASSUME NEW s \in Sources, NEW d \in Domains, NEW c \in Cpus,
               NEW path \in {"admit", "skb"}, Reserve(s, d, c, path)
        PROVE  target'[log'[e][t].dom] = e
    <3>1. target' = [target EXCEPT ![d] = Chosen(d, c)]
      BY <2>3 DEF Reserve
    <3>2. target \in [Domains -> Entries \cup {NoEntry}]
      BY DEF Typed, Shape, DomainShape
    <3>3. CASE Chosen(d, c) = target[d]
      BY <2>2, <3>1, <3>2, <3>3
    <3>4. CASE Chosen(d, c) # target[d]
      <4>1. log[e][t].dom # d /\ log[e][t].dom \in Domains
        BY <2>1, <2>3, <3>4, MovesQuietly, OnTimeFields
      <4> QED
        BY <1>1, <2>1, <3>1, <3>2, <4>1 DEF Homed
    <3> QED
      BY <3>3, <3>4
  <2>4. ~MapFreeEnd
    BY DEF MapFreeEnd
  <2>5. ASSUME NEW s \in Sources, SourceNext(s),
               ~ \E d \in Domains, c \in Cpus, path \in {"admit", "skb"} :
                   Reserve(s, d, c, path)
        PROVE  target' = target
    BY <2>5 DEF SourceNext, SourceStep, PollBegin, PollEnd, Enqueue, FlushFull,
       FlushBulk, GenericLock, Lock, Produce, Commit, domVars
  <2> QED
    BY <2>2, <2>3, <2>4, <2>5, ControlKeeps, KthreadKeeps, VarsKept DEF Next
<1> QED
  BY <1>2, <1>3, StepKinds

LEMMA TogetherStep ==
  ASSUME Typed, Placed, ReservedHome, GroHeld, Homed, Together, [Next]_vars
  PROVE  Together'
<1> SUFFICES ASSUME NEW e \in Entries, NEW f \in Entries, NEW t \in Nat, NEW u \in Nat,
                    OnTime(e, t)', OnTime(f, u)', log'[e][t].dom = log'[f][u].dom
             PROVE  e = f
  BY DEF Together
<1>1. CASE Leaving
  BY <1>1, LeavingOnTime DEF Together
<1>2. ASSUME NEW s \in Sources, Inserted(s) PROVE e = f
  <2> DEFINE h == src[s].ent
             n == Len(log[h]) + 1
             Old(g, v) == OnTime(g, v) /\ log'[g][v] = log[g][v]
             New(g, v) == g = h /\ v = n
  <2>1. map # "freed" /\ src[s].pc = "produce"
    BY <1>2 DEF Inserted, Produce, Placed
  <2>2. log'[h][n].dom = Inserting(s) /\ target[Inserting(s)] = h
    BY <1>2, <2>1, InsertedFields, InsertsHome
  <2>3. ASSUME NEW g \in Entries, NEW v \in Nat, Old(g, v), log[g][v].dom = Inserting(s)
        PROVE  g = h
    BY <2>1, <2>2, <2>3 DEF Homed
  <2>4. (Old(e, t) \/ New(e, t)) /\ (Old(f, u) \/ New(f, u))
    BY <1>2, InsertedOnTime
  <2> QED
    BY <2>2, <2>3, <2>4 DEF Together
<1> QED
  BY <1>1, <1>2, StepKinds

LEMMA NumberedStep ==
  ASSUME Typed, GroHeld, Numbered, [Next]_vars
  PROVE  Numbered'
<1>0. pubs \in [Domains -> Nat] /\ top \in [Domains -> Nat]
  BY DEF Typed, Shape, RingShape, KthreadShape
<1>1. CASE Leaving
  <2>1. UNCHANGED <<log, pubs>>
    BY <1>1 DEF Leaving
  <2>2. CASE UNCHANGED top
    BY <2>1, <2>2 DEF Numbered
  <2>3. ASSUME NEW e \in Entries, NEW t \in 1..Len(log[e]), Deliver(e, t)
        PROVE  Numbered'
    <3>1. \A d \in Domains : top'[d] <= pubs[d]
      BY <1>0, <2>3, DeliverFields DEF Numbered
    <3> QED
      BY <2>1, <3>1 DEF Numbered
  <2>4. ASSUME NEW e \in Entries, Sleep(e) \/ Receive(e) \/ CheckFlush(e) \/ PublishCompleted(e)
        PROVE  UNCHANGED top
    BY <2>4 DEF Sleep, Receive, CheckFlush, PublishCompleted
  <2> QED
    BY <2>2, <2>3, <2>4, ControlKeeps, SourceKeeps, VarsKept DEF Next, KthreadNext, KthreadStep
<1>2. ASSUME NEW s \in Sources, Inserted(s) PROVE Numbered'
  <2> DEFINE h == src[s].ent
             d == Inserting(s)
             n == Len(log[h]) + 1
             Old(g, v) == v \in 1..Len(log[g]) /\ log'[g][v] = log[g][v]
             New(g, v) == g = h /\ v = n
  <2>1. /\ h \in Entries /\ d \in Domains /\ pubs'[d] = pubs[d] + 1 /\ top' = top
        /\ \A g \in Domains : g # d => pubs'[g] = pubs[g]
    BY <1>2, InsertedFields
  <2>3. log'[h][n].dom = d /\ log'[h][n].pub = pubs[d] + 1
    BY <1>2, InsertedFields
  <2>4. ASSUME NEW g \in Entries, NEW v \in 1..Len(log'[g]) PROVE Old(g, v) \/ New(g, v)
    <3>1. CASE v \in 1..Len(log[g])
      BY <1>2, <3>1, InsertedFields
    <3>2. CASE v \notin 1..Len(log[g])
      <4>1. g = h
        BY <1>2, <3>2, InsertedFields
      <4>2. Len(log'[g]) = Len(log[g]) + 1 /\ Len(log[g]) \in Nat
        BY <1>2, <4>1, InsertedFields, TypedFacts
      <4> QED
        BY <3>2, <4>1, <4>2
    <3> QED
      BY <3>1, <3>2
  <2>5. ASSUME NEW g \in Entries, NEW v, Old(g, v)
        PROVE  /\ log[g][v].dom \in Domains /\ log[g][v].pub \in Nat
               /\ log[g][v].pub <= pubs[log[g][v].dom]
    BY <2>5, PacketFields DEF Numbered
  <2>6. n \in Nat /\ \A v \in 1..Len(log[h]) : v < n
    BY <2>1, TypedFacts
  <2> HIDE DEF h, d, n, Old
  <2>7. ASSUME NEW g \in Entries, NEW v \in 1..Len(log'[g])
        PROVE  log'[g][v].pub <= pubs'[log'[g][v].dom]
    <3>1. CASE Old(g, v)
      <4>1. log'[g][v] = log[g][v]
        BY <3>1 DEF Old
      <4>2. log[g][v].dom \in Domains /\ log[g][v].pub <= pubs[log[g][v].dom]
            /\ log[g][v].pub \in Nat
        BY <2>5, <3>1
      <4>3. pubs[log[g][v].dom] \in Nat
        BY <1>0, <4>2
      <4>4. \/ pubs'[log[g][v].dom] = pubs[log[g][v].dom]
            \/ pubs'[log[g][v].dom] = pubs[log[g][v].dom] + 1
        BY <2>1, <4>2
      <4> QED
        BY <4>1, <4>2, <4>3, <4>4
    <3>2. CASE New(g, v)
      BY <1>0, <2>1, <2>3, <3>2
    <3> QED
      BY <2>4, <3>1, <3>2
  <2>8. ASSUME NEW g \in Entries, NEW v \in 1..Len(log'[g]), NEW w \in 1..Len(log'[g]),
               log'[g][v].dom = log'[g][w].dom, v < w
        PROVE  log'[g][v].pub < log'[g][w].pub
    <3>1. CASE Old(g, v) /\ Old(g, w)
      BY <2>8, <3>1 DEF Old, Numbered
    <3>2. CASE Old(g, v) /\ New(g, w)
      <4>1. log'[g][v] = log[g][v]
        BY <3>2 DEF Old
      <4>2. log[g][v].pub <= pubs[log[g][v].dom] /\ log[g][v].pub \in Nat
        BY <2>5, <3>2
      <4>3. pubs[d] \in Nat
        BY <1>0, <2>1
      <4>4. log[g][v].dom = d /\ log'[g][w].pub = pubs[d] + 1
        BY <2>3, <2>8, <3>2, <4>1
      <4> QED
        BY <4>1, <4>2, <4>3, <4>4
    <3>3. CASE New(g, v) /\ Old(g, w)
      BY <2>6, <2>8, <3>3 DEF Old
    <3>4. CASE New(g, v) /\ New(g, w)
      BY <2>6, <2>8, <3>4
    <3> QED
      BY <2>4, <3>1, <3>2, <3>3, <3>4
  <2>9. ASSUME NEW g \in Entries, NEW f \in Entries,
               NEW v \in 1..Len(log'[g]), NEW w \in 1..Len(log'[f]),
               log'[g][v].dom = log'[f][w].dom, log'[g][v].pub = log'[f][w].pub
        PROVE  g = f /\ v = w
    <3>1. CASE Old(g, v) /\ Old(f, w)
      BY <2>9, <3>1 DEF Old, Numbered
    <3>2. CASE Old(g, v) /\ New(f, w)
      <4>1. log'[g][v] = log[g][v]
        BY <3>2 DEF Old
      <4>2. log[g][v].pub <= pubs[log[g][v].dom] /\ log[g][v].pub \in Nat
        BY <2>5, <3>2
      <4>3. pubs[d] \in Nat
        BY <1>0, <2>1
      <4> QED
        BY <2>3, <2>9, <3>2, <4>1, <4>2, <4>3
    <3>3. CASE New(g, v) /\ Old(f, w)
      <4>1. log'[f][w] = log[f][w]
        BY <3>3 DEF Old
      <4>2. log[f][w].pub <= pubs[log[f][w].dom] /\ log[f][w].pub \in Nat
        BY <2>5, <3>3
      <4>3. pubs[d] \in Nat
        BY <1>0, <2>1
      <4> QED
        BY <2>3, <2>9, <3>3, <4>1, <4>2, <4>3
    <3>4. CASE New(g, v) /\ New(f, w)
      BY <3>4
    <3> QED
      BY <2>4, <3>1, <3>2, <3>3, <3>4
  <2>10. \A g \in Domains : top'[g] <= pubs'[g]
    BY <1>0, <2>1 DEF Numbered
  <2> QED
    BY <2>7, <2>8, <2>9, <2>10 DEF Numbered
<1> QED
  BY <1>1, <1>2, StepKinds

LEMMA LateOlderStep ==
  ASSUME Typed, Placed, ReservationsCounted, ReservedHome, GroHeld, WatermarkHanded, Homed,
         TailCovers, Numbered, LateOlder, [Next]_vars
  PROVE  LateOlder'
<1> USE DEF Late
<1>1. ASSUME waived' = waived, Leaving PROVE LateOlder'
  <2>1. UNCHANGED log
    BY <1>1 DEF Leaving
  <2> QED
    BY <1>1, <2>1, LeavingOnTime DEF LateOlder
<1>2. ASSUME NEW s \in Sources, Inserted(s) PROVE LateOlder'
  <2>1. waived' = waived
    BY <1>2, InsertedFields
  <2> SUFFICES ASSUME NEW e \in Entries, NEW t \in Nat, Late(e, t)
               PROVE  /\ t \in 1..Len(log'[e])
                      /\ \A f \in Entries : \A u \in Nat :
                           OnTime(f, u)' /\ log'[f][u].dom = log'[e][t].dom
                           => log'[e][t].pub < log'[f][u].pub
    BY <2>1 DEF LateOlder
  <2>2. t \in 1..Len(log[e])
    BY DEF LateOlder
  <2>3. log'[e][t] = log[e][t]
    BY <1>2, <2>2, InsertedFields
  <2>4. t \in 1..Len(log'[e])
    <3>1. Len(log'[e]) = Len(log[e]) \/ Len(log'[e]) = Len(log[e]) + 1
      BY <1>2, InsertedFields
    <3> QED
      BY <2>2, <3>1, TypedFacts
  <2>5. ASSUME NEW f \in Entries, NEW u \in Nat, OnTime(f, u)',
               log'[f][u].dom = log[e][t].dom
        PROVE  log[e][t].pub < log'[f][u].pub
    <3>1. CASE OnTime(f, u) /\ log'[f][u] = log[f][u]
      BY <2>5, <3>1 DEF LateOlder
    <3>2. CASE f = src[s].ent /\ u = Len(log[f]) + 1
      <4>1. log'[f][u].dom = Inserting(s) /\ log'[f][u].pub = pubs[Inserting(s)] + 1
        BY <1>2, <3>2, InsertedFields
      <4>2. log[e][t].pub <= pubs[Inserting(s)] /\ pubs[Inserting(s)] \in Nat
        BY <1>2, <2>2, <2>5, <4>1, InsertedFields DEF Numbered
      <4>3. log[e][t].pub \in Nat
        BY <2>2, PacketFields
      <4> QED
        BY <4>1, <4>2, <4>3
    <3> QED
      BY <1>2, <2>5, <3>1, <3>2, InsertedOnTime
  <2> QED
    BY <2>3, <2>4, <2>5
<1>3. ASSUME NEW s \in Sources, NEW d \in Domains, NEW c \in Cpus,
             NEW path \in {"admit", "skb"}, Reserve(s, d, c, path)
      PROVE  LateOlder'
  <2>1. /\ UNCHANGED <<log, taken, gro>>
        /\ waived' = waived \cup LeftBehind(d, target[d], Chosen(d, c))
    BY <1>3 DEF Reserve, ringVars, kthVars
  <2>2. \A f \in Entries : \A u : OnTime(f, u)' => OnTime(f, u)
    BY <2>1 DEF OnTime, Outstanding
  <2> SUFFICES ASSUME NEW e \in Entries, NEW t \in Nat, Late(e, t)'
               PROVE  /\ t \in 1..Len(log[e])
                      /\ \A f \in Entries : \A u \in Nat :
                           OnTime(f, u)' /\ log[f][u].dom = log[e][t].dom
                           => log[e][t].pub < log[f][u].pub
    BY <2>1 DEF LateOlder
  <2>3. CASE Late(e, t)
    BY <2>2, <2>3 DEF LateOlder
  <2>4. CASE ~Late(e, t)
    <3>1. <<e, t>> \in LeftBehind(d, target[d], Chosen(d, c))
      BY <2>1, <2>4
    <3>2. Chosen(d, c) # target[d] /\ e = target[d] /\ t \in Outstanding(e) /\ log[e][t].dom = d
      BY <3>1 DEF LeftBehind
    <3>3. t \in 1..Len(log[e])
      BY <3>2, OutstandingIn
    <3>4. \A f \in Entries : \A u : OnTime(f, u)' => log[f][u].dom # d
      BY <1>3, <3>2, MovesQuietly
    <3> QED
      BY <3>2, <3>3, <3>4
  <2> QED
    BY <2>3, <2>4
<1>4. ASSUME NEW s \in Sources, SourceNext(s), ~Inserted(s),
             ~ \E d \in Domains, c \in Cpus, path \in {"admit", "skb"} : Reserve(s, d, c, path)
      PROVE  waived' = waived
  BY <1>4 DEF SourceNext, SourceStep, PollBegin, PollEnd, Enqueue, FlushFull,
     FlushBulk, GenericLock, Lock, Produce, Commit
<1> QED
  BY <1>1, <1>2, <1>3, <1>4, StepKinds, ControlKeeps, KthreadKeeps, VarsKept DEF Next

LEMMA NoOvertakingStep ==
  ASSUME Typed, Typed', GroHeld, GroHeld', Together, Numbered, LateOlder, NoOvertaking,
         [Next]_vars
  PROVE  NoOvertaking'
<1>0. pubs \in [Domains -> Nat] /\ top \in [Domains -> Nat]
  BY DEF Typed, Shape, RingShape, KthreadShape
<1> SUFFICES ASSUME NEW f \in Entries, NEW u, OnTime(f, u)'
             PROVE  log'[f][u].pub > top'[log'[f][u].dom]
  BY DEF NoOvertaking, OnTime, Late
<1>1. ASSUME OnTime(f, u) PROVE log[f][u].pub > top[log[f][u].dom]
  BY <1>1 DEF NoOvertaking, OnTime, Late
<1>2. CASE Leaving
  <2>1. OnTime(f, u) /\ log' = log
    BY <1>2, LeavingOnTime DEF Leaving
  <2>2. CASE top' = top
    BY <1>1, <2>1, <2>2
  <2>3. ASSUME NEW e \in Entries, NEW t \in 1..Len(log[e]), Deliver(e, t)
        PROVE  log[f][u].pub > top'[log[f][u].dom]
    <3>1. CASE log[f][u].dom # log[e][t].dom
      BY <1>1, <2>1, <2>3, <3>1, DeliverFields, OnTimeFields
    <3>2. CASE log[f][u].dom = log[e][t].dom
      <4>1. t \in gro[e] /\ t \in Nat /\ u \in Nat /\ t \in Outstanding(e)
        BY <2>1, <2>3, DeliverFields, OnTimeFields DEF Outstanding
      <4>2. log[e][t].pub < log[f][u].pub
        <5>1. CASE Late(e, t)
          BY <2>1, <3>2, <4>1, <5>1 DEF LateOlder
        <5>2. CASE ~Late(e, t)
          <6>1. e = f
            BY <2>1, <3>2, <4>1, <5>2 DEF Together, OnTime
          <6>2. t < u
            <7>1. t <= taken[e] /\ taken[e] \in Nat
              BY <4>1, TypedFacts DEF GroHeld
            <7>2. u \in (taken[e] + 1 .. Len(log[e])) \cup (gro[e] \ {t})
              BY <2>1, <2>3, <6>1, DeliverFields DEF OnTime, Outstanding
            <7>3. CASE u \in taken[e] + 1 .. Len(log[e])
              BY <4>1, <7>1, <7>3, TypedFacts
            <7>4. CASE u \in gro[e] \ {t}
              BY <2>3, <3>2, <4>1, <6>1, <7>4 DEF Deliver
            <7> QED
              BY <7>2, <7>3, <7>4
          <6>3. u \in 1..Len(log[e])
            BY <2>1, <6>1, OnTimeFields
          <6> QED
            BY <3>2, <6>1, <6>2, <6>3 DEF Numbered
        <5> QED
          BY <5>1, <5>2
      <4> QED
        BY <1>1, <2>1, <2>3, <3>2, <4>2, DeliverFields
    <3> QED
      BY <3>1, <3>2
  <2>4. ASSUME NEW e \in Entries, Sleep(e) \/ Receive(e) \/ CheckFlush(e) \/ PublishCompleted(e)
        PROVE  UNCHANGED top
    BY <2>4 DEF Sleep, Receive, CheckFlush, PublishCompleted
  <2> QED
    BY <2>1, <2>2, <2>3, <2>4, ControlKeeps, SourceKeeps, VarsKept
    DEF Next, KthreadNext, KthreadStep
<1>3. ASSUME NEW s \in Sources, Inserted(s) PROVE log'[f][u].pub > top'[log'[f][u].dom]
  <2>1. top' = top
    BY <1>3, InsertedFields
  <2>2. CASE OnTime(f, u) /\ log'[f][u] = log[f][u]
    BY <1>1, <2>1, <2>2
  <2>3. CASE f = src[s].ent /\ u = Len(log[f]) + 1
    <3>1. log'[f][u].dom = Inserting(s) /\ log'[f][u].pub = pubs[Inserting(s)] + 1
      BY <1>3, <2>3, InsertedFields
    <3>2. Inserting(s) \in Domains /\ top[Inserting(s)] <= pubs[Inserting(s)]
      BY <1>3, InsertedFields DEF Numbered
    <3> QED
      BY <1>0, <2>1, <3>1, <3>2
  <2> QED
    BY <1>3, <2>2, <2>3, InsertedOnTime
<1> QED
  BY <1>2, <1>3, StepKinds

LEMMA TailCoversStep ==
  ASSUME Typed, Typed', Placed, OneProducer, TicketsGiven, ReservationsCounted, ReservedHome,
         GroHeld, GroHeld', WatermarkHanded, Homed, TailCovers, [Next]_vars
  PROVE  TailCovers'
<1> SUFFICES ASSUME NEW e \in Entries, NEW t \in Nat, OnTime(e, t)',
                    target'[log'[e][t].dom] = e
             PROVE  \/ t <= lastTail'[log'[e][t].dom]
                    \/ \E r \in Sources : Committing(r, e)' /\ Inserting(r)' = log'[e][t].dom
  BY DEF TailCovers
<1> DEFINE Handing(d) == \E r \in Sources : Committing(r, e) /\ Inserting(r) = d
           HandingNext(d) == \E r \in Sources : Committing(r, e)' /\ Inserting(r)' = d
<1>0. SUFFICES t <= lastTail'[log'[e][t].dom] \/ HandingNext(log'[e][t].dom)
  OBVIOUS
<1>1. ASSUME OnTime(e, t), target[log[e][t].dom] = e
      PROVE  t <= lastTail[log[e][t].dom] \/ Handing(log[e][t].dom)
  BY <1>1 DEF TailCovers
<1>2. CASE UNCHANGED <<src, bulk, lastTail, target>> /\ Leaving
  <2>1. \A d : Handing(d) <=> HandingNext(d)
    BY <1>2 DEF Committing, Inserting, Leaving
  <2> QED
    BY <1>1, <1>2, <2>1, LeavingOnTime DEF Committing, Inserting
<1>3. CASE ControlNext
  <2>1. CASE target' = target
    BY <1>2, <1>3, <2>1, ControlKeeps DEF Leaving, Outstanding
  <2>2. CASE MapFreeEnd
    <3>1. log' = log /\ target' = [d \in Domains |-> NoEntry]
      BY <2>2 DEF MapFreeEnd, ringVars
    <3>2. OnTime(e, t) /\ log[e][t].dom \in Domains
      BY <1>3, <3>1, ControlKeeps, OnTimeFields DEF OnTime, Late, Outstanding
    <3> QED
      BY <3>1, <3>2
  <2> QED
    BY <1>3, <2>1, <2>2, ControlKeeps
<1>4. ASSUME NEW f \in Entries, KthreadNext(f)
      PROVE  t <= lastTail'[log'[e][t].dom] \/ HandingNext(log'[e][t].dom)
  <2>1. UNCHANGED <<src, bulk, lastTail, target, log>>
    BY <1>4, KthreadKeeps
  <2>2. ~ \E s \in Sources : Inserted(s)
    <3> SUFFICES ASSUME NEW s \in Sources, Inserted(s) PROVE FALSE
      OBVIOUS
    <3>1. Len(log'[src[s].ent]) = Len(log[src[s].ent]) + 1 /\ src[s].ent \in Entries
      BY InsertedFields
    <3> QED
      BY <2>1, <3>1, TypedFacts
  <2> QED
    BY <1>2, <2>1, <2>2, StepKinds
<1>5. ASSUME NEW s \in Sources, SourceNext(s)
      PROVE  t <= lastTail'[log'[e][t].dom] \/ HandingNext(log'[e][t].dom)
  <2>0. \A r \in Sources : r # s => src'[r] = src[r] /\ bulk'[r] = bulk[r]
    BY <1>5, OthersKeep DEF Typed
  <2>1. ASSUME NEW r \in Sources, r # s, NEW d, Committing(r, e), Inserting(r) = d
        PROVE  HandingNext(d)
    <3>1. Committing(r, e)' /\ Inserting(r)' = d
      BY <2>0, <2>1 DEF Committing, Inserting
    <3> QED
      BY <3>1
  <2>2. ASSUME OnTime(e, t), log'[e][t] = log[e][t], target[log[e][t].dom] = e,
               lastTail'[log[e][t].dom] = lastTail[log[e][t].dom], src[s].pc # "commit"
        PROVE  t <= lastTail'[log'[e][t].dom] \/ HandingNext(log'[e][t].dom)
    <3>1. ~Committing(s, e)
      BY <2>2 DEF Committing
    <3> QED
      BY <1>1, <2>1, <2>2, <3>1
  <2>3. CASE PollBegin(s) \/ PollEnd(s)
    <3>1. UNCHANGED <<lastTail, target>> /\ Leaving
      BY <2>3 DEF PollBegin, PollEnd, domVars, ringVars, kthVars, Leaving, Outstanding
    <3> QED
      BY <2>2, <2>3, <3>1, LeavingOnTime, PollFields
  <2>4. CASE Enqueue(s)
    <3>1. UNCHANGED <<lastTail, target>> /\ Leaving
      BY <2>4 DEF Enqueue, domVars, ringVars, kthVars, Leaving, Outstanding
    <3> QED
      BY <2>2, <2>4, <3>1, LeavingOnTime, EnqueueFields
  <2>5. ASSUME NEW f \in Entries, NEW pc \in {"poll", "admit", "skb"}, Locking(s, f, pc)
        PROVE  t <= lastTail'[log'[e][t].dom] \/ HandingNext(log'[e][t].dom)
    <3>1. UNCHANGED <<lastTail, target>> /\ Leaving
      BY <2>5 DEF Locking, Lock, domVars, ringVars, kthVars, Leaving, Outstanding
    <3>2. src[s].pc # "commit"
      BY <2>5, LockFields
    <3> QED
      BY <2>2, <3>1, <3>2, LeavingOnTime
  <2>6. CASE Produce(s)
    <3>1. UNCHANGED <<lastTail, target>> /\ src[s].pc # "commit"
      BY <2>6 DEF Produce, domVars
    <3>2. CASE RingFull(src[s].ent)
      <4>1. Leaving
        BY <2>6, <3>2 DEF Produce, kthVars, Leaving, Outstanding
      <4> QED
        BY <2>2, <3>1, <4>1, LeavingOnTime
    <3>3. CASE ~RingFull(src[s].ent)
      <4>1. Inserted(s)
        BY <2>6, <3>3 DEF Inserted
      <4>2. CASE OnTime(e, t) /\ log'[e][t] = log[e][t]
        BY <2>2, <3>1, <4>2
      <4>3. CASE e = src[s].ent /\ t = Len(log[e]) + 1
        <5>1. log'[e][t].dom = Inserting(s)
          BY <4>1, <4>3, InsertedFields
        <5>2. Committing(s, e)' /\ Inserting(s)' = Inserting(s)
          BY <2>6, <3>3, <4>3, ProduceFields DEF Committing
        <5> QED
          BY <5>1, <5>2
      <4> QED
        BY <4>1, <4>2, <4>3, InsertedOnTime
    <3> QED
      BY <3>2, <3>3
  <2>7. CASE Commit(s)
    <3>1. UNCHANGED target /\ Leaving
      BY <2>7 DEF Commit, kthVars, Leaving, Outstanding
    <3>2. OnTime(e, t) /\ log'[e][t] = log[e][t] /\ target[log[e][t].dom] = e
      BY <3>1, LeavingOnTime
    <3>3. t \in 1..Len(log[e]) /\ log[e][t].dom \in Domains
      BY <3>2, OnTimeFields
    <3>4. /\ lastTail' = [lastTail EXCEPT ![Inserting(s)] =
                            IF src[s].ok THEN submitted[src[s].ent] + 1 ELSE @]
          /\ src[s].pc = "commit"
      BY <2>7 DEF Commit, CpuMapCommit
    <3>5. lastTail \in [Domains -> Nat]
      BY DEF Typed, Shape, DomainShape
    <3>6. CASE Committing(s, e) /\ Inserting(s) = log[e][t].dom
      <4>1. lastTail'[log[e][t].dom] = submitted[e] + 1
        BY <3>3, <3>4, <3>5, <3>6 DEF Committing
      <4>2. Len(log[e]) = submitted[e] + 1
        BY <3>6 DEF TicketsGiven
      <4> QED
        BY <3>2, <3>3, <4>1, <4>2, TypedFacts
    <3>7. CASE ~(Committing(s, e) /\ Inserting(s) = log[e][t].dom)
      <4>1. lastTail'[log[e][t].dom] = lastTail[log[e][t].dom]
        <5>1. CASE Inserting(s) # log[e][t].dom
          BY <3>3, <3>4, <3>5, <5>1
        <5>2. CASE Inserting(s) = log[e][t].dom
          <6>1. src[s].ent = e
            BY <3>2, <3>4, <5>2, InsertsHome
          <6>2. ~src[s].ok
            BY <3>4, <3>7, <5>2, <6>1 DEF Committing
          <6> QED
            BY <3>3, <3>4, <3>5, <6>2
        <5> QED
          BY <5>1, <5>2
      <4> QED
        BY <1>1, <2>1, <3>2, <3>7, <4>1
    <3> QED
      BY <3>6, <3>7
  <2>8. ASSUME NEW d \in Domains, NEW c \in Cpus, NEW path \in {"admit", "skb"},
               Reserve(s, d, c, path)
        PROVE  t <= lastTail'[log'[e][t].dom] \/ HandingNext(log'[e][t].dom)
    <3>1. /\ target' = [target EXCEPT ![d] = Chosen(d, c)]
          /\ lastTail' = [lastTail EXCEPT ![d] = IF Chosen(d, c) = target[d] THEN @ ELSE 0]
          /\ src[s].pc # "commit" /\ Leaving
      BY <2>8 DEF Reserve, ringVars, kthVars, Leaving, Outstanding
    <3>2. OnTime(e, t) /\ log'[e][t] = log[e][t] /\ log[e][t].dom \in Domains
      BY <3>1, LeavingOnTime, OnTimeFields
    <3>3. target \in [Domains -> Entries \cup {NoEntry}] /\ lastTail \in [Domains -> Nat]
      BY DEF Typed, Shape, DomainShape
    <3>4. log[e][t].dom # d \/ Chosen(d, c) = target[d]
      BY <2>8, MovesQuietly
    <3>5. target'[log[e][t].dom] = target[log[e][t].dom]
          /\ lastTail'[log[e][t].dom] = lastTail[log[e][t].dom]
      BY <3>1, <3>2, <3>3, <3>4
    <3> QED
      BY <2>2, <3>1, <3>2, <3>5
  <2> QED
    BY <1>5, <2>3, <2>4, <2>5, <2>6, <2>7, <2>8, SourceCases
<1>6. CASE UNCHANGED vars
  BY <1>2, <1>6, VarsKept DEF Leaving, Outstanding
<1> QED
  BY <1>3, <1>4, <1>5, <1>6 DEF Next


-----------------------------------------------------------------------------
(* The inductive invariant.                                                *)

Ordered == Inv /\ SourcesInv /\ KthreadInv /\ OrderInv

LEMMA InitOrdered == Init => Ordered
<1> SUFFICES ASSUME Init PROVE Ordered
  OBVIOUS
<1>1. Inv
  BY InitInv
<1>2. /\ src = [s \in Sources |-> Idle]
      /\ bulk = [s \in Sources |-> [e \in Entries |-> <<>>]]
      /\ log = [e \in Entries |-> <<>>] /\ submitted = [e \in Entries |-> 0]
      /\ taken = [e \in Entries |-> 0] /\ gro = [e \in Entries |-> {}]
      /\ completed = [e \in Entries |-> 0] /\ kpc = [e \in Entries |-> "none"]
      /\ life = [e \in Entries |-> "unused"] /\ waived = {}
      /\ pubs = [d \in Domains |-> 0] /\ top = [d \in Domains |-> 0] /\ map = "live"
  BY DEF Init
<1>3. \A s \in Sources : src[s].pc = "idle" /\ src[s].ent = NoEntry /\ src[s].dom = NoDomain
  BY <1>2 DEF Idle
<1>4. \A e \in Entries : log[e] = <<>> /\ Len(log[e]) = 0 /\ taken[e] = 0 /\ gro[e] = {}
  BY <1>2
<1>5. \A s \in Sources, e \in Entries : bulk[s][e] = <<>> /\ Len(bulk[s][e]) = 0
  BY <1>2
<1>6. \A e \in Entries : Outstanding(e) = {}
  BY <1>4 DEF Outstanding
<1>7. SourcesInv
  <2>1. Placed
    BY <1>2, <1>3, <1>5 DEF Placed
  <2>2. OneProducer
    BY <1>3 DEF OneProducer
  <2>3. TicketsGiven
    BY <1>2, <1>3, <1>4 DEF TicketsGiven, Committing
  <2>4. InUse
    BY <1>3, <1>5 DEF InUse
  <2>5. ReservedHome
    BY <1>3, <1>5 DEF ReservedHome
  <2> QED
    BY <2>1, <2>2, <2>3, <2>4, <2>5 DEF SourcesInv
<1>8. KthreadInv
  BY <1>2, <1>4 DEF KthreadInv, Lifetimes, GroHeld, RingEmpty, WatermarkHanded
<1>9. OrderInv
  <2>1. Numbered
    BY <1>2, <1>4 DEF Numbered
  <2>2. Homed /\ Together /\ TailCovers /\ LateOlder /\ NoOvertaking
    BY <1>2, <1>6 DEF Homed, Together, TailCovers, LateOlder, NoOvertaking, OnTime, Late
  <2> QED
    BY <2>1, <2>2 DEF OrderInv
<1> QED
  BY <1>1, <1>7, <1>8, <1>9 DEF Ordered

LEMMA NextOrdered == Ordered /\ [Next]_vars => Ordered'
<1> SUFFICES ASSUME Ordered, [Next]_vars PROVE Ordered'
  OBVIOUS
<1>1. Inv' /\ Typed /\ Typed' /\ ReservationsCounted /\ Mapped
  BY NextInv DEF Ordered, Inv
<1> USE <1>1 DEF Ordered, SourcesInv, KthreadInv, OrderInv
<1>2. Placed'
  BY PlacedStep
<1>3. OneProducer' /\ TicketsGiven' /\ ReservedHome'
  BY OneProducerStep, TicketsGivenStep, ReservedHomeStep
<1>4. InUse'
  BY <1>2, InUseStep
<1>5. Lifetimes' /\ GroHeld' /\ WatermarkHanded'
  BY LifetimesStep, GroHeldStep, WatermarkStep
<1>6. Homed' /\ TailCovers'
  BY <1>2, <1>5, HomedStep, TailCoversStep
<1>7. Together' /\ Numbered' /\ LateOlder'
  BY TogetherStep, NumberedStep, LateOlderStep
<1>8. NoOvertaking'
  BY <1>5, NoOvertakingStep
<1> QED
  BY <1>2, <1>3, <1>4, <1>5, <1>6, <1>7, <1>8

(* Sources, kthreads and domains keep to the order the map promises: the   *)
(* inductive invariant holds in every state.                               *)
THEOREM AlwaysOrdered == Spec => []Ordered
<1> QED
  BY InitOrdered, NextOrdered, PTL DEF Spec

(* The packets of a domain reach the stack in the order in which they were *)
(* inserted in rings, whatever migrations and replacements happened; only  *)
(* what was left on an offline CPU may be late.                            *)
THEOREM NobodyOvertakes == Spec => []NoOvertaking
<1>1. Ordered => NoOvertaking
  BY DEF Ordered, OrderInv
<1> QED
  BY <1>1, AlwaysOrdered, PTL

(* The watermark an entry publishes covers only what the stack has been    *)
(* handed.                                                                 *)
THEOREM WatermarksAreHanded == Spec => []WatermarkHanded
<1>1. Ordered => WatermarkHanded
  BY DEF Ordered, KthreadInv
<1> QED
  BY <1>1, AlwaysOrdered, PTL

(* When bpf_cpumap_get_state shows a domain drained, none of its packets   *)
(* is on its way on any entry, except what an offline CPU was left with.   *)
THEOREM DrainedDomainsAreQuiet == Spec => []QuietDomain
<1>1. Ordered => QuietDomain
  <2> SUFFICES ASSUME Ordered, NEW d \in Domains, map = "live", Drained(GetState(d)),
                      NEW e \in Entries, NEW t \in Outstanding(e), log[e][t].dom = d,
                      <<e, t>> \notin waived
               PROVE  FALSE
    BY DEF QuietDomain
  <2> USE DEF Ordered, Inv, SourcesInv, KthreadInv, OrderInv
  <2>1. target[d] # NoEntry => pending[d] = 0 /\ ~(completed[target[d]] < lastTail[d])
    <3> SUFFICES ASSUME target[d] # NoEntry
                 PROVE  pending[d] = 0 /\ ~(completed[target[d]] < lastTail[d])
      OBVIOUS
    <3>1. pending[d] = 0 /\ completed[target[d]] >= lastTail[d]
      BY DEF Drained, GetState
    <3>2. target[d] \in Entries /\ lastTail[d] \in Nat
      BY DEF Typed, Shape, DomainShape
    <3>3. completed[target[d]] \in Nat
      BY <3>2 DEF Typed, Shape, KthreadShape
    <3> QED
      BY <3>1, <3>2, <3>3
  <2>2. OnTime(e, t)
    BY DEF OnTime, Late
  <2> QED
    BY <2>1, <2>2, DrainedIsQuiet
<1> QED
  BY <1>1, AlwaysOrdered, PTL

(* The ring and the bulks of an entry are freed when nothing is queued on  *)
(* it and no source holds it, in a bulk or in hand.                        *)
THEOREM StoppedEntriesAreUnused == Spec => []StoppedIsUnused
<1>1. Ordered => StoppedIsUnused
  <2> SUFFICES ASSUME Ordered, NEW e \in Entries, life[e] = "stopped"
               PROVE  /\ Outstanding(e) = {}
                      /\ \A s \in Sources : bulk[s][e] = <<>> /\ src[s].ent # e
    BY DEF StoppedIsUnused
  <2> USE DEF Ordered, Inv, SourcesInv, KthreadInv
  <2>1. RingEmpty(e) /\ gro[e] = {}
    BY DEF Lifetimes, GroHeld
  <2>2. taken[e] \in Nat
    BY TypedFacts
  <2>3. Outstanding(e) = {}
    BY <2>1, <2>2 DEF RingEmpty, Outstanding
  <2>4. \A s \in Sources : bulk[s][e] = <<>> /\ src[s].ent # e
    BY DEF InUse
  <2> QED
    BY <2>3, <2>4
<1> QED
  BY <1>1, AlwaysOrdered, PTL

-----------------------------------------------------------------------------
(* The domains' queues.                                                    *)

(* Packets of d on their way, in order or perhaps late. *)
OnWay(d, n) ==
  \E e \in Entries : \E t :
    OnTime(e, t) /\ log[e][t].dom = d /\ log[e][t].pub = n
MayBeLate(d, n) ==
  \E e \in Entries : \E t \in Outstanding(e) :
    Late(e, t) /\ log[e][t].dom = d /\ log[e][t].pub = n

InFlightIs ==
  \A d, n : /\ n \in InFlight(d, FALSE) <=> OnWay(d, n)
            /\ n \in InFlight(d, TRUE) <=> MayBeLate(d, n)

LEMMA InFlightMeans == InFlightIs
<1> SUFFICES ASSUME NEW d, NEW n
             PROVE  /\ n \in InFlight(d, FALSE) <=> OnWay(d, n)
                    /\ n \in InFlight(d, TRUE) <=> MayBeLate(d, n)
  BY DEF InFlightIs
<1> DEFINE Some(e, late) ==
             {u \in Outstanding(e) : log[e][u].dom = d /\ (<<e, u>> \in waived) = late}
           Pubs(e, late) == {log[e][t].pub : t \in Some(e, late)}
<1>1. \A e, t : t \in Some(e, FALSE) <=>
                  t \in Outstanding(e) /\ log[e][t].dom = d /\ ~Late(e, t)
  BY DEF Late
<1>2. \A e, t : t \in Some(e, TRUE) <=>
                  t \in Outstanding(e) /\ log[e][t].dom = d /\ Late(e, t)
  BY DEF Late
<1>3. \A late : InFlight(d, late) = UNION {Pubs(e, late) : e \in Entries}
  BY DEF InFlight
<1> HIDE DEF Some
<1>4. \A late : n \in InFlight(d, late) <=>
        \E e \in Entries : \E t \in Some(e, late) : log[e][t].pub = n
  <2> SUFFICES ASSUME NEW late
               PROVE  n \in InFlight(d, late) <=>
                        \E e \in Entries : \E t \in Some(e, late) : log[e][t].pub = n
    OBVIOUS
  <2>1. n \in InFlight(d, late) <=> \E e \in Entries : n \in Pubs(e, late)
    BY <1>3
  <2>2. \A e : n \in Pubs(e, late) <=> \E t \in Some(e, late) : log[e][t].pub = n
    OBVIOUS
  <2> QED
    BY <2>1, <2>2
<1>5. n \in InFlight(d, FALSE) <=> OnWay(d, n)
  BY <1>1, <1>4 DEF OnWay, OnTime
<1>6. n \in InFlight(d, TRUE) <=> MayBeLate(d, n)
  BY <1>2, <1>4 DEF MayBeLate
<1> QED
  BY <1>5, <1>6

LEMMA InFlightAlways == InFlightIs /\ InFlightIs'
  BY InFlightMeans, PTL

LEMMA InFlightNats ==
  ASSUME Typed, GroHeld, NEW d, NEW late \in BOOLEAN
  PROVE  InFlight(d, late) \subseteq Nat
<1>1. \A e \in Entries : \A t \in Outstanding(e) : log[e][t].pub \in Nat
  BY OutstandingIn, PacketFields
<1>2. \A n : OnWay(d, n) \/ MayBeLate(d, n) => n \in Nat
  BY <1>1 DEF OnWay, MayBeLate, OnTime
<1>3. CASE late
  BY <1>2, <1>3, InFlightMeans DEF InFlightIs
<1>4. CASE ~late
  BY <1>2, <1>4, InFlightMeans DEF InFlightIs
<1> QED
  BY <1>3, <1>4

(* Nothing but leaving: what stays keeps its place. *)
LEMMA InFlightSame ==
  ASSUME UNCHANGED <<log, taken, gro, waived>>
  PROVE  \A d, late : InFlight(d, late)' = InFlight(d, late)
  BY DEF InFlight, Outstanding

LEMMA InsertRefines ==
  ASSUME Ordered, Ordered', NEW s \in Sources, Inserted(s)
  PROVE  Fifo!Insert(Inserting(s))
<1> DEFINE d == Inserting(s)
           e == src[s].ent
           u == Len(log[e]) + 1
<1>0. Typed /\ GroHeld /\ Typed' /\ GroHeld'
  BY DEF Ordered, Inv, KthreadInv
<1>1. /\ e \in Entries /\ d \in Domains
      /\ \A f \in Entries : \A t \in 1..Len(log[f]) : log'[f][t] = log[f][t]
      /\ log'[e][u].dom = d /\ log'[e][u].pub = pubs[d] + 1
      /\ pubs'[d] = pubs[d] + 1 /\ \A g \in Domains : g # d => pubs'[g] = pubs[g]
      /\ UNCHANGED <<taken, gro, top, waived>>
  BY <1>0, InsertedFields
<1>2. \A f \in Entries : Outstanding(f)' =
        IF f = e THEN Outstanding(f) \cup {u} ELSE Outstanding(f)
  BY <1>0, InsertedOutstanding
<1>3. ~Late(e, u)
  <2>1. Len(log[e]) \in Nat
    BY <1>0, <1>1, TypedFacts
  <2> QED
    BY <1>1, <2>1 DEF Ordered, OrderInv, LateOlder
<1>4. pubs \in [Domains -> Nat] /\ pubs' \in [Domains -> Nat]
  BY <1>0 DEF Typed, Shape, RingShape
<1>5. \A f \in Entries : \A t \in Outstanding(f) : log'[f][t] = log[f][t]
  BY <1>0, <1>1, OutstandingIn
<1> HIDE DEF d, e, u
<1>6. \A f \in Entries : \A t : OnTime(f, t)' <=> OnTime(f, t) \/ (f = e /\ t = u)
  BY <1>1, <1>2, <1>3 DEF OnTime, Late
<1>7. \A g \in Domains : InFlight(g, FALSE)' =
        IF g = d THEN InFlight(g, FALSE) \cup {pubs[d] + 1} ELSE InFlight(g, FALSE)
  <2> SUFFICES ASSUME NEW g \in Domains, NEW n
               PROVE  n \in InFlight(g, FALSE)' <=>
                        n \in InFlight(g, FALSE) \/ (g = d /\ n = pubs[d] + 1)
    OBVIOUS
  <2>1. OnWay(g, n)' <=> OnWay(g, n) \/ (g = d /\ n = pubs[d] + 1)
    BY <1>1, <1>5, <1>6 DEF OnWay, OnTime
  <2> QED
    BY <2>1, InFlightAlways DEF InFlightIs
<1>8. \A g \in Domains : InFlight(g, TRUE)' = InFlight(g, TRUE)
  <2> SUFFICES ASSUME NEW g \in Domains, NEW n
               PROVE  n \in InFlight(g, TRUE)' <=> n \in InFlight(g, TRUE)
    OBVIOUS
  <2>1. \A f \in Entries : \A t : t \in Outstanding(f)' /\ Late(f, t)' <=>
                              t \in Outstanding(f) /\ Late(f, t)
    BY <1>1, <1>2, <1>3 DEF Late
  <2>2. MayBeLate(g, n)' <=> MayBeLate(g, n)
    BY <1>1, <1>5, <2>1 DEF MayBeLate
  <2> QED
    BY <2>2, InFlightAlways DEF InFlightIs
<1>9. pubs' = [pubs EXCEPT ![d] = @ + 1]
  BY <1>1, <1>4
<1>10. [g \in Domains |-> InFlight(g, FALSE)'] =
         [[g \in Domains |-> InFlight(g, FALSE)] EXCEPT ![d] = @ \cup {pubs[d] + 1}]
  BY <1>1, <1>7
<1>11. [g \in Domains |-> InFlight(g, TRUE)'] = [g \in Domains |-> InFlight(g, TRUE)]
  BY <1>8
<1> QED
  BY <1>1, <1>9, <1>10, <1>11 DEF Fifo!Insert, d

(* A packet on time is the oldest of its domain: the domain has all that   *)
(* is on time on this entry, GRO gives out its packets in ticket order,    *)
(* and the ring is behind GRO.                                             *)
LEMMA HandsOldest ==
  ASSUME Ordered, NEW e \in Entries, NEW t \in 1..Len(log[e]), Deliver(e, t), OnTime(e, t)
  PROVE  \A n : OnWay(log[e][t].dom, n) => log[e][t].pub <= n
<1> SUFFICES ASSUME NEW f \in Entries, NEW u, OnTime(f, u), log[f][u].dom = log[e][t].dom
             PROVE  log[e][t].pub <= log[f][u].pub
  BY DEF OnWay
<1>0. Typed /\ GroHeld /\ Numbered /\ Together
  BY DEF Ordered, Inv, KthreadInv, OrderInv
<1>1. t \in Nat /\ u \in 1..Len(log[f]) /\ u \in Nat
  BY <1>0, OnTimeFields
<1>2. e = f
  BY <1>0, <1>1 DEF Together
<1>3. t <= u
  <2>1. CASE u \in gro[e]
    BY <1>2, <2>1 DEF Deliver
  <2>2. CASE u \notin gro[e]
    <3>1. u > taken[e] /\ taken[e] \in Nat
      BY <1>0, <1>2, <2>2, TypedFacts DEF OnTime, Outstanding
    <3>2. t <= taken[e]
      BY <1>0, <3>1 DEF Deliver, GroHeld
    <3> QED
      BY <1>1, <3>1, <3>2
  <2> QED
    BY <2>1, <2>2
<1>4. log[e][t].pub \in Nat
  BY <1>0, PacketFields
<1>5. CASE t = u
  BY <1>2, <1>4, <1>5
<1>6. CASE t # u
  <2>1. t < u
    BY <1>1, <1>3, <1>6
  <2>2. log[e][t].pub < log[e][u].pub /\ log[e][u].pub \in Nat
    BY <1>0, <1>1, <1>2, <2>1, PacketFields DEF Numbered
  <2> QED
    BY <1>2, <1>4, <2>2
<1> QED
  BY <1>5, <1>6

LEMMA DeliverRefines ==
  ASSUME Ordered, NEW e \in Entries, NEW t \in 1..Len(log[e]), Deliver(e, t)
  PROVE  Fifo!Hand(log[e][t].dom) \/ Fifo!HandLate(log[e][t].dom)
<1> DEFINE d == log[e][t].dom
           n == log[e][t].pub
<1>0. Typed /\ GroHeld /\ Numbered /\ NoOvertaking
  BY DEF Ordered, Inv, KthreadInv, OrderInv
<1>1. /\ UNCHANGED <<log, taken, waived>> /\ t \in gro[e] /\ d \in Domains /\ n \in Nat
      /\ gro'[e] = gro[e] \ {t} /\ \A f \in Entries : f # e => gro'[f] = gro[f]
      /\ \A g \in Domains : g # d => top'[g] = top[g]
      /\ top'[d] = IF n > top[d] THEN n ELSE top[d]
  BY <1>0, DeliverFields
<1>2. UNCHANGED pubs
  BY DEF Deliver, ringVars
<1>3. top \in [Domains -> Nat] /\ top' = [top EXCEPT ![d] = IF n > @ THEN n ELSE @]
  BY <1>0 DEF Deliver, Typed, Shape, KthreadShape
<1>4. t <= taken[e] /\ taken[e] \in Nat /\ t \in Outstanding(e)
  BY <1>0, <1>1, TypedFacts DEF GroHeld, Outstanding
<1>5. \A f \in Entries : \A u : u \in Outstanding(f)' <=>
                                u \in Outstanding(f) /\ ~(f = e /\ u = t)
  BY <1>1, <1>4 DEF Outstanding
<1>6. \A f \in Entries : \A u \in Outstanding(f) :
        log[f][u].dom = d /\ log[f][u].pub = n => f = e /\ u = t
  BY <1>0, OutstandingIn DEF Numbered
<1>7. (\A f, u : Late(f, u)' <=> Late(f, u)) /\ log' = log
  BY <1>1 DEF Late
<1>8. OnTime(e, t) => \A m : OnWay(d, m) => n <= m
  BY HandsOldest
<1> HIDE DEF d, n
<1>9. CASE OnTime(e, t)
  <2>1. n \in InFlight(d, FALSE)
    BY <1>9, InFlightMeans DEF InFlightIs, OnWay, d, n
  <2>2. \A m \in InFlight(d, FALSE) : n <= m
    BY <1>8, <1>9, InFlightMeans DEF InFlightIs
  <2>3. \A f \in Entries : \A u : OnTime(f, u)' <=> OnTime(f, u) /\ ~(f = e /\ u = t)
    BY <1>5, <1>7 DEF OnTime
  <2>4. \A g \in Domains : InFlight(g, FALSE)' =
          IF g = d THEN InFlight(g, FALSE) \ {n} ELSE InFlight(g, FALSE)
    <3> SUFFICES ASSUME NEW g \in Domains, NEW m
                 PROVE  m \in InFlight(g, FALSE)' <=>
                          m \in InFlight(g, FALSE) /\ ~(g = d /\ m = n)
      OBVIOUS
    <3>1. OnWay(g, m)' <=> OnWay(g, m) /\ ~(g = d /\ m = n)
      <4>1. ASSUME NEW f \in Entries, NEW u, OnTime(f, u), log[f][u].dom = g,
                   log[f][u].pub = m
            PROVE  (f = e /\ u = t) <=> (g = d /\ m = n)
        BY <1>6, <4>1 DEF OnTime, d, n
      <4> QED
        BY <1>7, <2>3, <4>1 DEF OnWay
    <3> QED
      BY <3>1, InFlightAlways DEF InFlightIs
  <2>5. \A g \in Domains : InFlight(g, TRUE)' = InFlight(g, TRUE)
    <3> SUFFICES ASSUME NEW g \in Domains, NEW m
                 PROVE  m \in InFlight(g, TRUE)' <=> m \in InFlight(g, TRUE)
      OBVIOUS
    <3>1. \A f \in Entries : \A u : u \in Outstanding(f)' /\ Late(f, u)' <=>
                                    u \in Outstanding(f) /\ Late(f, u)
      BY <1>5, <1>7, <1>9 DEF OnTime
    <3>2. MayBeLate(g, m)' <=> MayBeLate(g, m)
      BY <1>7, <3>1 DEF MayBeLate
    <3> QED
      BY <3>2, InFlightAlways DEF InFlightIs
  <2>6. n > top[d]
    BY <1>0, <1>9 DEF NoOvertaking, OnTime, Late, d, n
  <2>7. top' = [top EXCEPT ![d] = n]
    BY <1>1, <1>3, <2>6
  <2>8. [g \in Domains |-> InFlight(g, FALSE)'] =
          [[g \in Domains |-> InFlight(g, FALSE)] EXCEPT ![d] = @ \ {n}]
    BY <1>1, <2>4
  <2>9. [g \in Domains |-> InFlight(g, TRUE)'] = [g \in Domains |-> InFlight(g, TRUE)]
    BY <2>5
  <2>10. Fifo!Hand(d)
    BY <1>1, <1>2, <2>1, <2>2, <2>7, <2>8, <2>9 DEF Fifo!Hand
  <2> QED
    BY <2>10 DEF d
<1>10. CASE ~OnTime(e, t)
  <2>1. n \in InFlight(d, TRUE) /\ Late(e, t)
    BY <1>4, <1>10, InFlightMeans DEF InFlightIs, MayBeLate, OnTime, d, n
  <2>2. \A f \in Entries : \A u : u \in Outstanding(f)' /\ Late(f, u)' <=>
          u \in Outstanding(f) /\ Late(f, u) /\ ~(f = e /\ u = t)
    BY <1>5, <1>7
  <2>3. \A g \in Domains : InFlight(g, TRUE)' =
          IF g = d THEN InFlight(g, TRUE) \ {n} ELSE InFlight(g, TRUE)
    <3> SUFFICES ASSUME NEW g \in Domains, NEW m
                 PROVE  m \in InFlight(g, TRUE)' <=>
                          m \in InFlight(g, TRUE) /\ ~(g = d /\ m = n)
      OBVIOUS
    <3>1. MayBeLate(g, m)' <=> MayBeLate(g, m) /\ ~(g = d /\ m = n)
      <4>1. ASSUME NEW f \in Entries, NEW u \in Outstanding(f), log[f][u].dom = g,
                   log[f][u].pub = m
            PROVE  (f = e /\ u = t) <=> (g = d /\ m = n)
        BY <1>6, <4>1 DEF d, n
      <4> QED
        BY <1>7, <2>2, <4>1 DEF MayBeLate
    <3> QED
      BY <3>1, InFlightAlways DEF InFlightIs
  <2>4. \A g \in Domains : InFlight(g, FALSE)' = InFlight(g, FALSE)
    <3> SUFFICES ASSUME NEW g \in Domains, NEW m
                 PROVE  m \in InFlight(g, FALSE)' <=> m \in InFlight(g, FALSE)
      OBVIOUS
    <3>1. \A f \in Entries : \A u : OnTime(f, u)' <=> OnTime(f, u)
      BY <1>5, <1>7, <1>10 DEF OnTime
    <3>2. OnWay(g, m)' <=> OnWay(g, m)
      BY <1>7, <3>1 DEF OnWay
    <3> QED
      BY <3>2, InFlightAlways DEF InFlightIs
  <2>5. [g \in Domains |-> InFlight(g, TRUE)'] =
          [[g \in Domains |-> InFlight(g, TRUE)] EXCEPT ![d] = @ \ {n}]
    BY <1>1, <2>3
  <2>6. [g \in Domains |-> InFlight(g, FALSE)'] = [g \in Domains |-> InFlight(g, FALSE)]
    BY <2>4
  <2>7. Fifo!HandLate(d)
    BY <1>1, <1>2, <1>3, <2>1, <2>5, <2>6 DEF Fifo!HandLate
  <2> QED
    BY <2>7 DEF d
<1> QED
  BY <1>9, <1>10

LEMMA ReceiveRefines ==
  ASSUME Ordered, NEW e \in Entries, Receive(e)
  PROVE  Fifo!Drop
<1>0. Typed /\ GroHeld
  BY DEF Ordered, Inv, KthreadInv
<1>1. UNCHANGED <<log, pubs, top, waived>>
  BY DEF Receive, ringVars
<1>2. \A f \in Entries : Outstanding(f)' \subseteq Outstanding(f)
  <2>1. taken[e] \in Nat /\ Len(log[e]) \in Nat /\ taken'[e] \in Nat
    BY <1>0, ReceiveFields, TypedFacts
  <2>2. Outstanding(e)' \subseteq Outstanding(e)
    BY <1>0, <1>1, <2>1, ReceiveFields DEF Outstanding
  <2>3. \A f \in Entries : f # e => Outstanding(f)' = Outstanding(f)
    BY <1>0, <1>1, ReceiveFields DEF Outstanding
  <2> QED
    BY <2>2, <2>3
<1>3. \A f, u : Late(f, u)' <=> Late(f, u)
  BY <1>1 DEF Late
<1>4. \A d \in Domains : InFlight(d, FALSE)' \subseteq InFlight(d, FALSE)
  <2> SUFFICES ASSUME NEW d \in Domains, NEW m, OnWay(d, m)' PROVE OnWay(d, m)
    BY InFlightAlways DEF InFlightIs
  <2> QED
    BY <1>1, <1>2, <1>3 DEF OnWay, OnTime
<1>5. \A d \in Domains : InFlight(d, TRUE)' \subseteq InFlight(d, TRUE)
  <2> SUFFICES ASSUME NEW d \in Domains, NEW m, MayBeLate(d, m)' PROVE MayBeLate(d, m)
    BY InFlightAlways DEF InFlightIs
  <2> QED
    BY <1>1, <1>2, <1>3 DEF MayBeLate
<1> QED
  BY <1>1, <1>4, <1>5 DEF Fifo!Drop

LEMMA ReserveLeavesBehind ==
  ASSUME NEW s, NEW d, NEW c, NEW path, Reserve(s, d, c, path)
  PROVE  /\ UNCHANGED <<log, pubs, taken, gro, top>>
         /\ waived' = waived \cup LeftBehind(d, target[d], Chosen(d, c))
  BY DEF Reserve, ringVars, kthVars

LEMMA MoveRefines ==
  ASSUME Ordered, NEW s \in Sources, NEW d \in Domains, NEW c \in Cpus,
         NEW path \in {"admit", "skb"}, Reserve(s, d, c, path), Chosen(d, c) # target[d]
  PROVE  Fifo!Strand(d)
<1>0. /\ Typed /\ Placed /\ ReservationsCounted /\ ReservedHome /\ GroHeld
      /\ WatermarkHanded /\ Homed /\ TailCovers
  BY DEF Ordered, Inv, SourcesInv, KthreadInv, OrderInv
<1>1. /\ UNCHANGED <<log, pubs, taken, gro, top>>
      /\ waived' = waived \cup LeftBehind(d, target[d], Chosen(d, c))
  BY ReserveLeavesBehind
<1>2. \A f, u : u \in Outstanding(f)' <=> u \in Outstanding(f)
  BY <1>1 DEF Outstanding
<1>3. \A f \in Entries : \A u : OnTime(f, u)' => log[f][u].dom # d
  BY <1>0, MovesQuietly
<1>4. \A f, u : Late(f, u)' <=> Late(f, u) \/ <<f, u>> \in LeftBehind(d, target[d], Chosen(d, c))
  BY <1>1 DEF Late
<1>5. \A f, u : <<f, u>> \in LeftBehind(d, target[d], Chosen(d, c)) => log[f][u].dom = d
  BY DEF LeftBehind
<1>6. \A f \in Entries : \A u : log[f][u].dom # d => (Late(f, u)' <=> Late(f, u))
  BY <1>4, <1>5
<1>7. \A f \in Entries : \A u \in Outstanding(f) : log[f][u].dom = d => Late(f, u)'
  BY <1>2, <1>3 DEF OnTime
<1>8. \A g \in Domains : InFlight(g, FALSE)' = IF g = d THEN {} ELSE InFlight(g, FALSE)
  <2> SUFFICES ASSUME NEW g \in Domains, NEW m
               PROVE  m \in InFlight(g, FALSE)' <=> m \in InFlight(g, FALSE) /\ g # d
    OBVIOUS
  <2>1. OnWay(g, m)' <=> OnWay(g, m) /\ g # d
    BY <1>1, <1>2, <1>3, <1>6 DEF OnWay, OnTime
  <2> QED
    BY <2>1, InFlightAlways DEF InFlightIs
<1>9. \A g \in Domains : InFlight(g, TRUE)' =
        IF g = d THEN InFlight(g, TRUE) \cup InFlight(g, FALSE) ELSE InFlight(g, TRUE)
  <2> SUFFICES ASSUME NEW g \in Domains, NEW m
               PROVE  m \in InFlight(g, TRUE)' <=>
                        m \in InFlight(g, TRUE) \/ (g = d /\ m \in InFlight(g, FALSE))
    OBVIOUS
  <2>1. CASE g # d
    <3>1. MayBeLate(g, m)' <=> MayBeLate(g, m)
      BY <1>1, <1>2, <1>6, <2>1 DEF MayBeLate
    <3> QED
      BY <2>1, <3>1, InFlightAlways DEF InFlightIs
  <2>2. CASE g = d
    <3>1. MayBeLate(g, m)' <=> \E f \in Entries : \E u \in Outstanding(f) :
                                 log[f][u].dom = g /\ log[f][u].pub = m
      BY <1>1, <1>2, <1>7, <2>2 DEF MayBeLate
    <3>2. MayBeLate(g, m)' <=> MayBeLate(g, m) \/ OnWay(g, m)
      BY <3>1 DEF MayBeLate, OnWay, OnTime
    <3> QED
      BY <2>2, <3>2, InFlightAlways DEF InFlightIs
  <2> QED
    BY <2>1, <2>2
<1>10. [g \in Domains |-> InFlight(g, FALSE)'] =
         [[g \in Domains |-> InFlight(g, FALSE)] EXCEPT ![d] = {}]
  BY <1>8
<1>11. [g \in Domains |-> InFlight(g, TRUE)'] =
         [[g \in Domains |-> InFlight(g, TRUE)] EXCEPT
            ![d] = @ \cup [g \in Domains |-> InFlight(g, FALSE)][d]]
  BY <1>9
<1> QED
  BY <1>1, <1>10, <1>11 DEF Fifo!Strand

(* The steps that leave the domains' queues alone. *)
LEMMA OthersStutter ==
  ASSUME Ordered, [Next]_vars, \A s \in Sources : ~Inserted(s),
         \A s \in Sources, d \in Domains, c \in Cpus, path \in {"admit", "skb"} :
           Reserve(s, d, c, path) => Chosen(d, c) = target[d],
         \A e \in Entries : ~Receive(e) /\ \A t \in 1..Len(log[e]) : ~Deliver(e, t)
  PROVE  UNCHANGED <<log, taken, gro, waived, pubs, top>>
<1>0. Typed
  BY DEF Ordered, Inv
<1>1. ASSUME NEW s \in Sources, SourceNext(s)
      PROVE  UNCHANGED <<log, taken, gro, waived, pubs, top>>
  <2>1. CASE Produce(s)
    <3>1. RingFull(src[s].ent)
      BY <2>1 DEF Inserted
    <3>2. UNCHANGED <<log, pubs, waived>> /\ UNCHANGED kthVars
      BY <2>1, <3>1 DEF Produce
    <3> QED
      BY <3>2 DEF kthVars
  <2>2. ASSUME NEW d \in Domains, NEW c \in Cpus, NEW path \in {"admit", "skb"},
               Reserve(s, d, c, path)
        PROVE  UNCHANGED <<log, taken, gro, waived, pubs, top>>
    <3>1. LeftBehind(d, target[d], Chosen(d, c)) = {}
      BY <2>2 DEF LeftBehind
    <3>2. /\ waived' = waived \cup LeftBehind(d, target[d], Chosen(d, c))
          /\ UNCHANGED <<log, taken, gro, pubs, top>>
      BY <2>2, ReserveLeavesBehind
    <3> QED
      BY <3>1, <3>2
  <2>3. CASE (SourceStep(s) /\ ~Produce(s)) \/ PollBegin(s)
    <3>1. \A e, pc : Lock(s, e, pc) => UNCHANGED <<log, pubs, waived>>
      BY DEF Lock, ringVars
    <3>2. PollBegin(s) \/ PollEnd(s) \/ Enqueue(s) => UNCHANGED <<log, pubs, waived>>
      BY DEF PollBegin, PollEnd, Enqueue, ringVars
    <3>3. Commit(s) => UNCHANGED <<log, pubs, waived>>
      BY DEF Commit
    <3> QED
      BY <1>1, <2>3, <3>1, <3>2, <3>3, SourceKeeps DEF SourceStep, FlushFull, FlushBulk,
         GenericLock
  <2> QED
    BY <1>1, <2>1, <2>2, <2>3 DEF SourceNext
<1>2. ASSUME NEW e \in Entries, KthreadNext(e)
      PROVE  UNCHANGED <<log, taken, gro, waived, pubs, top>>
  BY <1>2 DEF KthreadNext, KthreadStep, Sleep, CheckFlush, PublishCompleted, ringVars
<1> QED
  BY <1>1, <1>2, ControlKeeps, VarsKept DEF Next

LEMMA NextRefines == Ordered /\ Ordered' /\ [Next]_vars => [Fifo!Next]_(Fifo!vars)
<1> SUFFICES ASSUME Ordered, Ordered', [Next]_vars
             PROVE  Fifo!Next \/ UNCHANGED Fifo!vars
  OBVIOUS
<1>0. Typed /\ GroHeld
  BY DEF Ordered, Inv, KthreadInv
<1>1. CASE \E s \in Sources : Inserted(s)
  BY <1>0, <1>1, InsertRefines, InsertedFields DEF Fifo!Next
<1>2. CASE \E s \in Sources, d \in Domains, c \in Cpus, path \in {"admit", "skb"} :
             Reserve(s, d, c, path) /\ Chosen(d, c) # target[d]
  BY <1>2, MoveRefines DEF Fifo!Next
<1>3. ASSUME NEW e \in Entries, NEW t \in 1..Len(log[e]), Deliver(e, t) PROVE Fifo!Next
  BY <1>0, <1>3, DeliverRefines, PacketFields DEF Fifo!Next
<1>4. CASE \E e \in Entries : Receive(e)
  BY <1>4, ReceiveRefines DEF Fifo!Next
<1>5. CASE UNCHANGED <<log, taken, gro, waived, pubs, top>>
  <2>1. \A d, late : InFlight(d, late)' = InFlight(d, late)
    BY <1>5, InFlightSame
  <2> QED
    BY <1>5, <2>1 DEF Fifo!vars
<1> QED
  BY <1>1, <1>2, <1>3, <1>4, <1>5, OthersStutter

(* Rings, GRO, tickets, migrations and replacements implement the queues   *)
(* of the domains: packets come out in the order they went in, and only a  *)
(* move away from an offline CPU strands some.                             *)
THEOREM RefinesDomainFifo == Spec => ImplementsDomainFifo
<1>1. Init => Fifo!Init
  <2> SUFFICES ASSUME Init PROVE Fifo!Init
    OBVIOUS
  <2>1. \A e \in Entries : Outstanding(e) = {}
    BY DEF Init, Outstanding
  <2>2. \A d, n : ~OnWay(d, n) /\ ~MayBeLate(d, n)
    BY <2>1 DEF OnWay, MayBeLate, OnTime
  <2>3. \A d : InFlight(d, FALSE) = {} /\ InFlight(d, TRUE) = {}
    BY <2>2, InFlightMeans DEF InFlightIs
  <2> QED
    BY <2>3 DEF Init, Fifo!Init
<1> QED
  BY <1>1, AlwaysOrdered, NextRefines, PTL DEF Spec, ImplementsDomainFifo, Fifo!Spec

-----------------------------------------------------------------------------
(* The redirect intent *)

USE RedirectAssumption

(* What is recorded is what the last request asked for. *)
RecordedAsAsked ==
  /\ ri.type = "unspec" => asked = Nowhere
  /\ ri.type # "unspec" => ri.value = asked
  /\ ri.type = "cpumap" =>
       /\ asked.to = (IF ri.ordered THEN "domain" ELSE "entry")
       /\ asked.cpu = ri.index
  /\ ri.type = "devmap" => asked.to = (IF ri.broadcast THEN "devices" ELSE "device")

(* The inductive invariant. *)
IntentInv == IntentTypeOK /\ RecordedAsAsked

LEMMA IntentStarts == IntentInit => IntentInv
  BY DEF IntentInit, IntentInv, IntentTypeOK, RecordedAsAsked, Nowhere, Requests

(* The records bpf_redirect_info can hold. *)
RecordType ==
  [type : {"unspec", "cpumap", "devmap"}, value : Requests,
   index : 0..MaxCpus - 1, broadcast : BOOLEAN, ordered : BOOLEAN]

LEMMA RefusedKeeps ==
  ASSUME IntentInv, ri' = Refused, asked' = Nowhere, UNCHANGED done
  PROVE  IntentInv'
<1>1. ri' \in RecordType /\ ri'.type = "unspec"
  BY DEF IntentInv, IntentTypeOK, Refused, RecordType
<1>2. asked' \in Requests
  BY DEF Nowhere, Requests
<1> QED
  BY <1>1, <1>2 DEF IntentInv, IntentTypeOK, RecordedAsAsked, RecordType

LEMMA OrderedRequest ==
  ASSUME IntentInv, NEW m \in CpuMaps, NEW cpu \in 0..MaxCpus, NEW domain \in 0..Extra[m],
         BpfCpumapRedirect(m, cpu, domain)
  PROVE  IntentInv'
<1>1. CASE Accepted(m, cpu, domain)
  <2>1. Domain(m, domain, cpu) \in Requests
    BY DEF Domain, Requests
  <2>0. cpu \in 0..MaxCpus - 1
    BY <1>1 DEF Accepted
  <2>2. ri' \in RecordType
    <3>1. ri' = [type |-> "cpumap", value |-> Domain(m, domain, cpu), index |-> cpu,
                 broadcast |-> FALSE, ordered |-> TRUE]
      BY <1>1 DEF BpfCpumapRedirect
    <3> QED
      BY <3>1, <2>0, <2>1 DEF RecordType
  <2>3. /\ ri'.type = "cpumap" /\ ri'.ordered = TRUE /\ ri'.index = cpu
        /\ ri'.value = Domain(m, domain, cpu) /\ asked' = Domain(m, domain, cpu)
    BY <1>1 DEF BpfCpumapRedirect
  <2>4. asked'.to = "domain" /\ asked'.cpu = cpu
    BY <2>3 DEF Domain
  <2> QED
    BY <2>1, <2>2, <2>3, <2>4 DEF IntentInv, IntentTypeOK, RecordedAsAsked, RecordType, BpfCpumapRedirect
<1>2. CASE ~Accepted(m, cpu, domain)
  BY <1>2, RefusedKeeps DEF BpfCpumapRedirect
<1> QED
  BY <1>1, <1>2

LEMMA OrdinaryRequest ==
  ASSUME IntentInv, NEW m \in CpuMaps, NEW cpu \in 0..MaxCpus, CpuMapRedirect(m, cpu)
  PROVE  IntentInv'
<1>1. CASE Extra[m] = 0
  <2>1. cpu \in 0..MaxCpus - 1
    BY <1>1 DEF CpuMapRedirect
  <2>2. Entry(m, cpu) \in Requests
    BY DEF Entry, Requests
  <2>3. ri' \in RecordType
    <3>1. ri' = [type |-> "cpumap", value |-> Entry(m, cpu), index |-> cpu,
                 broadcast |-> FALSE, ordered |-> FALSE]
      BY <1>1 DEF CpuMapRedirect, Ordinary
    <3> QED
      BY <3>1, <2>1, <2>2 DEF RecordType
  <2>4. /\ ri'.type = "cpumap" /\ ri'.ordered = FALSE /\ ri'.index = cpu
        /\ ri'.value = Entry(m, cpu) /\ asked' = Entry(m, cpu)
    BY <1>1 DEF CpuMapRedirect, Ordinary
  <2>5. asked'.to = "entry" /\ asked'.cpu = cpu
    BY <2>4 DEF Entry
  <2> QED
    BY <2>2, <2>3, <2>4, <2>5 DEF IntentInv, IntentTypeOK, RecordedAsAsked, RecordType, CpuMapRedirect
<1>2. CASE Extra[m] # 0
  BY <1>2, RefusedKeeps DEF CpuMapRedirect
<1> QED
  BY <1>1, <1>2

LEMMA DeviceRequest ==
  ASSUME IntentInv, NEW m \in DevMaps, NEW broadcast \in BOOLEAN, DevMapRedirect(m, broadcast)
  PROVE  IntentInv'
  BY ZenonT(40) DEF IntentInv, IntentTypeOK, RecordedAsAsked, DevMapRedirect, Device, Devices, Requests

(* Whatever is dispatched is the last request itself. *)
LEMMA DispatchedIsAsked ==
  ASSUME IntentInv
  PROVE  Dispatched = asked
<1>1. ri \in RecordType /\ asked \in Requests
  BY DEF IntentInv, IntentTypeOK, RecordType
<1>2. CASE ri.type = "unspec"
  BY <1>2 DEF IntentInv, RecordedAsAsked, Dispatched
<1>3. CASE ri.type = "cpumap" /\ ri.ordered
  <2>1. [ri.value EXCEPT !.to = "domain", !.cpu = ri.index] = asked
    BY <1>1, <1>3 DEF IntentInv, RecordedAsAsked, RecordType, Requests
  <2> QED
    BY <1>3, <2>1 DEF Dispatched
<1>4. CASE ri.type = "cpumap" /\ ~ri.ordered
  <2>1. [ri.value EXCEPT !.to = "entry"] = asked
    BY <1>1, <1>4 DEF IntentInv, RecordedAsAsked, RecordType, Requests
  <2> QED
    BY <1>4, <2>1 DEF Dispatched
<1>5. CASE ri.type = "devmap"
  <2>1. [ri.value EXCEPT !.to = IF ri.broadcast THEN "devices" ELSE "device"] = asked
    BY <1>1, <1>5 DEF IntentInv, RecordedAsAsked, RecordType, Requests
  <2> QED
    BY <1>5, <2>1 DEF Dispatched
<1> QED
  BY <1>1, <1>2, <1>3, <1>4, <1>5 DEF RecordType

LEMMA Redirected ==
  ASSUME IntentInv, NEW fits \in BOOLEAN, DoRedirect(fits)
  PROVE  IntentInv'
<1>1. done' \in Requests
  BY DispatchedIsAsked DEF IntentInv, IntentTypeOK, DoRedirect, Nowhere, Requests
<1>2. ri' \in RecordType /\ ri'.type = "unspec" /\ asked' = Nowhere
  BY DEF IntentInv, IntentTypeOK, RecordType, DoRedirect
<1> QED
  BY <1>1, <1>2 DEF IntentInv, IntentTypeOK, RecordType, RecordedAsAsked, Nowhere, Requests

LEMMA IntentKept == IntentInv /\ [IntentNext]_intentVars => IntentInv'
<1> SUFFICES ASSUME IntentInv, [IntentNext]_intentVars PROVE IntentInv'
  OBVIOUS
<1>1. CASE UNCHANGED intentVars
  BY <1>1 DEF intentVars, IntentInv, IntentTypeOK, RecordedAsAsked
<1>2. CASE IntentNext
  BY <1>2, OrderedRequest, OrdinaryRequest, DeviceRequest, Redirected DEF IntentNext
<1> QED
  BY <1>1, <1>2

(* A domain is never taken for a m entry: the ORDERED bit of kern_flags  *)
(* always says what bpf_cpumap_redirect or bpf_redirect_map has stored.    *)
THEOREM TargetsHaveTheirKind == IntentSpec => []TargetHasKind
<1>1. IntentInv => TargetHasKind
  BY DEF IntentInv, RecordedAsAsked, TargetHasKind
<1> QED
  BY <1>1, IntentStarts, IntentKept, PTL DEF IntentSpec

(* xdp_do_redirect carries out the last request or, if the packet does not *)
(* fit, none, and never one that was replaced, refused or carried out.     *)
THEOREM RedirectsLastRequest == IntentSpec => LastRequestDecides
<1>1. IntentInv /\ [IntentNext]_intentVars =>
        [\A fits \in BOOLEAN : DoRedirect(fits) => done' \in {asked, Nowhere}]_intentVars
  BY DispatchedIsAsked DEF DoRedirect
<1> QED
  BY <1>1, IntentStarts, IntentKept, PTL DEF IntentSpec, LastRequestDecides
=============================================================================
