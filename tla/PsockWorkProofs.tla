-------------------------- MODULE PsockWorkProofs --------------------------
(***************************************************************************)
(* Theorems about PsockWork, for any number of psocks and skbs.            *)
(***************************************************************************)
EXTENDS PsockWork, FiniteSetTheorems, SequenceTheorems, TLAPS

(* The callers have a psock exactly while they are in a call. *)
Callers ==
  /\ app.at = "idle" <=> app.psock = None
  /\ close.at \in {"idle", "closed"} <=> close.psock = None

(* RefsExact without cardinalities. *)
Uses(p) ==
  (IF p \in linked THEN 1 ELSE 0) + (IF work[p] \in Working THEN 1 ELSE 0)
  + (IF app.psock = p THEN 1 ELSE 0) + (IF close.psock = p THEN 1 ELSE 0)

RefsHeld == \A p \in Psocks : refs[p] = Uses(p)

(* A psock has references while it is live, only. *)
Alive == \A p \in Psocks : phase[p] = "live" <=> refs[p] > 0

(* What each stage of a removal has put an end to. *)
StageOK(p) ==
  /\ cur = p => phase[p] \in {"live", "dropping"}
  /\ redir = p => phase[p] \in {"live", "dropping", "detached", "stopped"}
  /\ phase[p] \in {"stopped", "cancelled", "locked", "zapped", "freed"} => p \notin tx
  /\ phase[p] \in {"cancelled", "locked", "zapped", "freed"} =>
       work[p] = "idle" /\ p \notin pending
  /\ phase[p] \in {"zapped", "freed"} =>
       ingress[p] = <<>> /\ msgs[p] = <<>> /\ p \notin cork

Stages == \A p \in Psocks : StageOK(p)

(* Where a worker has the head of its queue in its hands, ... *)
Busy == {"lock", "handle", "charge", "publish", "free"}

(* ... and where it has locked S, if that is an ingress skb. *)
WorkerOK(p) ==
  /\ work[p] \in Busy => ingress[p] # <<>>
  /\ work[p] \in Busy \ {"lock"} /\ Head(ingress[p]) \notin Egress => owner = p
  /\ work[p] \in {"charge", "publish"} => Head(ingress[p]) \notin Egress
  /\ work[p] = "freed" => owner = p

Workers == \A p \in Psocks : WorkerOK(p)

(* Who else has locked S. *)
Owners ==
  /\ app.at \in {"locked", "update", "unlock"} => owner = "app"
  /\ close.at \in {"locked", "cork", "update"} => owner = "close"
  /\ \A p \in Psocks : phase[p] \in {"locked", "zapped"} => owner = "destroy"
  /\ \A p, q \in Psocks :
       phase[p] \in {"locked", "zapped"} /\ phase[q] \in {"locked", "zapped"} => p = q

(* Who is between the read and the write of an update. *)
Updating ==
  /\ \A p \in Psocks : update[p] # None <=> work[p] \in {"charge", "freed"}
  /\ update["app"] # None <=> app.at = "update"
  /\ update["close"] # None <=> close.at = "update"
  /\ update["rx"] # None <=> owner = "rx"
  /\ update["destroy"] # None <=> \E p \in Psocks : phase[p] = "zapped"

(* The send path charges nothing to S that is in ingress_skb. *)
NoEgress == charged \cap Egress = {}

(* What sk_forward_alloc is when no update is under way. *)
Native == IF native THEN 1 ELSE 0
Charges == Cardinality(charged) + Cardinality(cork) + Native

Ledger ==
  /\ \A a \in Actors : update[a] # None => owner = a /\ update[a] = -Charges
  /\ (\A a \in Actors : update[a] = None) => alloc = -Charges

Inv ==
  /\ TypeOK /\ Callers /\ RefsHeld /\ Alive /\ Stages
  /\ Workers /\ Owners /\ Updating /\ NoEgress /\ Ledger /\ ChargedIsQueued

USE PsockAssumption

-----------------------------------------------------------------------------
LEMMA Initially == Init => Inv
<1> SUFFICES ASSUME Init PROVE Inv
  OBVIOUS
<1>1. LifeOK
  BY DEF Init, LifeOK
<1>7. MemoryOK
  <2>1. update \in [Actors -> Int \cup {None}]
    BY DEF Init
  <2>2. alloc \in Int /\ charged \subseteq Skbs /\ cork \subseteq Psocks
    BY DEF Init
  <2>3. native \in BOOLEAN
    BY DEF Init
  <2> QED
    BY <2>1, <2>2, <2>3 DEF MemoryOK
<1>2. QueuesOK /\ ControlOK
  BY DEF Init, QueuesOK, ControlOK, Idle, Actors, Working
<1>3. Callers /\ Alive /\ Stages
  BY DEF Init, Callers, Alive, Stages, StageOK, Idle
<1>4. Workers /\ Owners /\ Updating /\ ChargedIsQueued
  BY DEF Init, Workers, Owners, WorkerOK, Busy, Updating, Actors, ChargedIsQueued, Idle
<1>5. RefsHeld
  BY DEF Init, RefsHeld, Uses, Working, Idle
<1>6. NoEgress /\ Ledger
  BY FS_EmptySet DEF Init, NoEgress, Ledger, Charges, Native, Actors
<1> QED
  BY <1>1, <1>2, <1>3, <1>4, <1>5, <1>6, <1>7 DEF Inv, TypeOK

-----------------------------------------------------------------------------
(* Types *)

LEMMA Kept ==
  ASSUME TypeOK
  PROVE  /\ UNCHANGED <<life, refs, tx>> => LifeOK'
         /\ UNCHANGED queues => QueuesOK'
         /\ UNCHANGED memory => MemoryOK'
         /\ UNCHANGED <<run, owner, app, close, bounds>> => ControlOK'
  BY DEF TypeOK, LifeOK, QueuesOK, MemoryOK, ControlOK, life, queues, memory, run, bounds

LEMMA ReceiveTypes ==
  ASSUME TypeOK, Updating, RedirectFind \/ Receive \/ ReceiveEnd
  PROVE  TypeOK'
<1>1. CASE RedirectFind
  <2>1. QueuesOK'
    BY <1>1 DEF TypeOK, QueuesOK, RedirectFind, LifeOK
  <2> QED
    BY <1>1, <2>1, Kept DEF TypeOK, RedirectFind, life, queues, memory, run, bounds
<1>2. CASE Receive
  <2>1. MemoryOK'
    BY <1>2 DEF TypeOK, MemoryOK, Receive, Actors, ReadAlloc
  <2>2. ControlOK'
    BY <1>2 DEF TypeOK, ControlOK, Receive, Working, Actors, bounds, run, Acquire
  <2> QED
    BY <1>2, <2>1, <2>2, Kept DEF TypeOK, Receive, life, queues, memory, run, bounds
<1>3. CASE ReceiveEnd
  <2>1. update["rx"] \in Int
    BY <1>3 DEF ReceiveEnd, Updating, TypeOK, MemoryOK, Actors
  <2>2. MemoryOK'
    BY <1>3, <2>1 DEF TypeOK, MemoryOK, ReceiveEnd, Actors, WriteAlloc
  <2>3. ControlOK'
    BY <1>3, <2>1 DEF TypeOK, ControlOK, ReceiveEnd, Working, Actors, bounds, run
  <2> QED
    BY <1>3, <2>2, <2>3, Kept DEF TypeOK, ReceiveEnd, life, queues, memory, run, bounds
<1> QED
  BY <1>1, <1>2, <1>3

LEMMA QueueTypes ==
  ASSUME TypeOK, NEW s \in Skbs, RedirectQueue(s)
  PROVE  TypeOK'
<1>1. CASE RedirectQueue(s)
  <2>1. redir \in Psocks /\ Append(ingress[redir], s) \in Seq(Skbs)
    BY <1>1 DEF RedirectQueue, TypeOK, QueuesOK
  <2>2. QueuesOK'
    BY <1>1, <2>1 DEF TypeOK, QueuesOK, RedirectQueue, queues
  <2>3. ControlOK'
    BY <1>1, <2>1 DEF TypeOK, ControlOK, RedirectQueue, Working, Actors, bounds, run
  <2> QED
    BY <1>1, <2>2, <2>3, Kept DEF TypeOK, RedirectQueue, life, queues, memory, run, bounds
<1> QED
  BY <1>1

LEMMA WorkerTypes ==
  ASSUME TypeOK, RefsHeld, Workers, Updating,
         NEW p \in Psocks, Worker(p) \/ WorkAgain(p) \/ WorkError(p)
  PROVE  TypeOK'
<1>1. CASE WorkStart(p)
  <2>1. ControlOK'
    BY <1>1 DEF TypeOK, ControlOK, WorkStart, Working, Actors, bounds, run, At
  <2> QED
    BY <1>1, <2>1, Kept DEF TypeOK, WorkStart, life, queues, memory, run, bounds
<1>2. CASE WorkPin(p)
  <2>1. LifeOK'
    BY <1>2 DEF TypeOK, LifeOK, WorkPin, life, Pin
  <2>2. ControlOK'
    BY <1>2 DEF TypeOK, ControlOK, WorkPin, Working, Actors, bounds, run, At
  <2> QED
    BY <1>2, <2>1, <2>2, Kept DEF TypeOK, WorkPin, life, queues, memory, run, bounds
<1>3. CASE WorkPeek(p)
  <2>1. ControlOK'
    BY <1>3 DEF TypeOK, ControlOK, WorkPeek, Working, Actors, bounds, run, At
  <2> QED
    BY <1>3, <2>1, Kept DEF TypeOK, WorkPeek, life, queues, memory, run, bounds
<1>4. CASE WorkLock(p)
  <2>1. ControlOK'
    BY <1>4 DEF TypeOK, ControlOK, WorkLock, Working, Actors, bounds, run, At, Acquire
  <2> QED
    BY <1>4, <2>1, Kept DEF TypeOK, WorkLock, life, queues, memory, run, bounds
<1>5. CASE WorkSend(p)
  <2>1. ControlOK'
    BY <1>5 DEF TypeOK, ControlOK, WorkSend, Working, Actors, bounds, run, At
  <2> QED
    BY <1>5, <2>1, Kept DEF TypeOK, WorkSend, life, queues, memory, run, bounds
<1>6. CASE WorkCharge(p)
  <2>1. Head(ingress[p]) \in Skbs
    BY <1>6 DEF TypeOK, QueuesOK, WorkCharge, Workers, WorkerOK, Busy
  <2>2. MemoryOK'
    BY <1>6, <2>1 DEF TypeOK, MemoryOK, WorkCharge, Actors, ReadAlloc
  <2>3. ControlOK'
    BY <1>6, <2>1 DEF TypeOK, ControlOK, WorkCharge, Working, Actors, bounds, run, At
  <2> QED
    BY <1>6, <2>2, <2>3, Kept DEF TypeOK, WorkCharge, life, queues, memory, run, bounds
<1>7. CASE WorkCharged(p)
  <2>1. update[p] \in Int
    BY <1>7 DEF TypeOK, MemoryOK, WorkCharged, At, Updating, Actors
  <2>2. MemoryOK'
    BY <1>7, <2>1 DEF TypeOK, MemoryOK, WorkCharged, Actors, WriteAlloc
  <2>3. ControlOK'
    BY <1>7, <2>1 DEF TypeOK, ControlOK, WorkCharged, Working, Actors, bounds, run, At
  <2> QED
    BY <1>7, <2>2, <2>3, Kept DEF TypeOK, WorkCharged, life, queues, memory, run, bounds
<1>8. CASE WorkPublish(p)
  <2>1. Head(ingress[p]) \in Skbs
    BY <1>8 DEF TypeOK, QueuesOK, WorkPublish, At, Workers, WorkerOK, Busy
  <2>2. QueuesOK'
    BY <1>8, <2>1 DEF TypeOK, QueuesOK, WorkPublish, queues
  <2>3. ControlOK'
    BY <1>8, <2>1 DEF TypeOK, ControlOK, WorkPublish, Working, Actors, bounds, run, At
  <2> QED
    BY <1>8, <2>2, <2>3, Kept DEF TypeOK, WorkPublish, life, queues, memory, run, bounds
<1>9. CASE WorkFree(p)
  <2>1. Tail(ingress[p]) \in Seq(Skbs)
    BY <1>9 DEF TypeOK, QueuesOK, WorkFree, Workers, WorkerOK, Busy
  <2>2. QueuesOK'
    BY <1>9, <2>1 DEF TypeOK, QueuesOK, WorkFree, queues
  <2>3. MemoryOK'
    BY <1>9, <2>1 DEF TypeOK, MemoryOK, WorkFree, Actors, ReadAlloc
  <2>4. ControlOK'
    BY <1>9, <2>1 DEF TypeOK, ControlOK, WorkFree, Working, Actors, bounds, run, At, Held
  <2> QED
    BY <1>9, <2>2, <2>3, <2>4, Kept DEF TypeOK, WorkFree, life, queues, memory, run, bounds
<1>10. CASE WorkFreed(p)
  <2>1. update[p] \in Int
    BY <1>10 DEF TypeOK, MemoryOK, WorkFreed, At, Updating, Actors
  <2>2. MemoryOK'
    BY <1>10, <2>1 DEF TypeOK, MemoryOK, WorkFreed, Actors, WriteAlloc
  <2>3. ControlOK'
    BY <1>10, <2>1 DEF TypeOK, ControlOK, WorkFreed, Working, Actors, bounds, run, At
  <2> QED
    BY <1>10, <2>2, <2>3, Kept DEF TypeOK, WorkFreed, life, queues, memory, run, bounds
<1>11. CASE WorkUnlock(p)
  <2>1. ControlOK'
    BY <1>11 DEF TypeOK, ControlOK, WorkUnlock, Working, Actors, bounds, run, At, Unlocked
  <2> QED
    BY <1>11, <2>1, Kept DEF TypeOK, WorkUnlock, life, queues, memory, run, bounds
<1>12. CASE WorkPut(p)
  <2>1. refs[p] - 1 \in Nat
    BY <1>12 DEF TypeOK, LifeOK, WorkPut, At, Working, RefsHeld, Uses
  <2>2. LifeOK'
    BY <1>12, <2>1 DEF TypeOK, LifeOK, WorkPut, life, Put
  <2>3. ControlOK'
    BY <1>12, <2>1 DEF TypeOK, ControlOK, WorkPut, Working, Actors, bounds, run, At
  <2> QED
    BY <1>12, <2>2, <2>3, Kept DEF TypeOK, WorkPut, life, queues, memory, run, bounds
<1>13. CASE WorkAgain(p)
  <2>1. ControlOK'
    BY <1>13 DEF TypeOK, ControlOK, WorkAgain, Working, Actors, bounds, run, At, Unlocked
  <2> QED
    BY <1>13, <2>1, Kept DEF TypeOK, WorkAgain, life, queues, memory, run, bounds
<1>14. CASE WorkError(p)
  <2>1. LifeOK'
    BY <1>14 DEF TypeOK, LifeOK, WorkError, life
  <2>2. ControlOK'
    BY <1>14 DEF TypeOK, ControlOK, WorkError, Working, Actors, bounds, run, At, Unlocked
  <2> QED
    BY <1>14, <2>1, <2>2, Kept DEF TypeOK, WorkError, life, queues, memory, run, bounds
<1> QED
  BY <1>1, <1>2, <1>3, <1>4, <1>5, <1>6, <1>7, <1>8, <1>9, <1>10, <1>11, <1>12, <1>13,
       <1>14 DEF Worker

LEMMA CallTypes ==
  ASSUME TypeOK, Callers, RefsHeld, Updating, CallBegin \/ Call
  PROVE  TypeOK'
<1>1. CASE CallBegin
  <2>1. LifeOK'
    BY <1>1 DEF TypeOK, LifeOK, CallBegin, life
  <2>2. ControlOK'
    BY <1>1 DEF TypeOK, ControlOK, CallBegin, Working, Actors, bounds, run, LifeOK
  <2> QED
    BY <1>1, <2>1, <2>2, Kept DEF TypeOK, CallBegin, life, queues, memory, run, bounds
<1>2. CASE CallLock
  <2>1. ControlOK'
    BY <1>2 DEF TypeOK, ControlOK, CallLock, Working, Actors, bounds, run, Acquire
  <2> QED
    BY <1>2, <2>1, Kept DEF TypeOK, CallLock, life, queues, memory, run, bounds
<1>3. CASE CallReceive
  <2>1. app.psock \in Psocks /\ Tail(msgs[app.psock]) \in Seq(Skbs)
    BY <1>3 DEF TypeOK, QueuesOK, ControlOK, Callers, CallReceive
  <2>2. QueuesOK'
    BY <1>3, <2>1 DEF TypeOK, QueuesOK, CallReceive, queues
  <2>3. MemoryOK'
    BY <1>3, <2>1 DEF TypeOK, MemoryOK, CallReceive, Actors, ReadAlloc
  <2>4. ControlOK'
    BY <1>3, <2>1 DEF TypeOK, ControlOK, CallReceive, Working, Actors, bounds, run
  <2> QED
    BY <1>3, <2>2, <2>3, <2>4, Kept DEF TypeOK, CallReceive, life, queues, memory, run, bounds
<1>4. CASE CallSend
  <2>1. app.psock \in Psocks
    BY <1>4 DEF TypeOK, ControlOK, Callers, CallSend
  <2>2. MemoryOK'
    BY <1>4, <2>1 DEF TypeOK, MemoryOK, CallSend, Actors, ReadAlloc
  <2>3. ControlOK'
    BY <1>4, <2>1 DEF TypeOK, ControlOK, CallSend, Working, Actors, bounds, run
  <2> QED
    BY <1>4, <2>2, <2>3, Kept DEF TypeOK, CallSend, life, queues, memory, run, bounds
<1>5. CASE CallUpdate
  <2>1. update["app"] \in Int
    BY <1>5 DEF TypeOK, MemoryOK, CallUpdate, Updating, Actors
  <2>2. MemoryOK'
    BY <1>5, <2>1 DEF TypeOK, MemoryOK, CallUpdate, Actors, WriteAlloc
  <2>3. ControlOK'
    BY <1>5, <2>1 DEF TypeOK, ControlOK, CallUpdate, Working, Actors, bounds, run
  <2> QED
    BY <1>5, <2>2, <2>3, Kept DEF TypeOK, CallUpdate, life, queues, memory, run, bounds
<1>6. CASE CallEnd
  <2>1. app.psock \in Psocks /\ refs[app.psock] - 1 \in Nat
    BY <1>6 DEF TypeOK, LifeOK, ControlOK, Callers, CallEnd, RefsHeld, Uses
  <2>2. LifeOK'
    BY <1>6, <2>1 DEF TypeOK, LifeOK, CallEnd, life, Put
  <2>3. ControlOK'
    BY <1>6, <2>1 DEF TypeOK, ControlOK, CallEnd, Working, Actors, bounds, run, Idle
  <2> QED
    BY <1>6, <2>2, <2>3, Kept DEF TypeOK, CallEnd, life, queues, memory, run, bounds
<1> QED
  BY <1>1, <1>2, <1>3, <1>4, <1>5, <1>6 DEF Call

LEMMA CloseTypes ==
  ASSUME TypeOK, Callers, RefsHeld, Updating, CloseBegin \/ Close
  PROVE  TypeOK'
<1>1. CASE CloseBegin
  <2>1. LifeOK'
    BY <1>1 DEF TypeOK, LifeOK, CloseBegin, life
  <2>2. ControlOK'
    BY <1>1 DEF TypeOK, ControlOK, CloseBegin, Working, Actors, bounds, run, Acquire, LifeOK
  <2> QED
    BY <1>1, <2>1, <2>2, Kept DEF TypeOK, CloseBegin, life, queues, memory, run, bounds
<1>2. CASE CloseStop
  <2>1. close.psock \in Psocks
          /\ refs[close.psock] - (IF close.psock \in linked THEN 1 ELSE 0) \in Nat
    BY <1>2 DEF TypeOK, LifeOK, ControlOK, Callers, CloseStop, RefsHeld, Uses
  <2>2. LifeOK'
    BY <1>2, <2>1 DEF TypeOK, LifeOK, CloseStop, life
  <2>3. ControlOK'
    BY <1>2, <2>1 DEF TypeOK, ControlOK, CloseStop, Working, Actors, bounds, run
  <2> QED
    BY <1>2, <2>2, <2>3, Kept DEF TypeOK, CloseStop, life, queues, memory, run, bounds
<1>3. CASE CloseCork
  <2>1. MemoryOK'
    BY <1>3 DEF TypeOK, MemoryOK, CloseCork, Actors, ReadAlloc
  <2>2. ControlOK'
    BY <1>3 DEF TypeOK, ControlOK, CloseCork, Working, Actors, bounds, run
  <2> QED
    BY <1>3, <2>1, <2>2, Kept DEF TypeOK, CloseCork, life, queues, memory, run, bounds
<1>4. CASE CloseUpdate
  <2>1. update["close"] \in Int
    BY <1>4 DEF TypeOK, MemoryOK, CloseUpdate, Updating, Actors
  <2>2. MemoryOK'
    BY <1>4, <2>1 DEF TypeOK, MemoryOK, CloseUpdate, Actors, WriteAlloc
  <2>3. ControlOK'
    BY <1>4, <2>1 DEF TypeOK, ControlOK, CloseUpdate, Working, Actors, bounds, run
  <2> QED
    BY <1>4, <2>2, <2>3, Kept DEF TypeOK, CloseUpdate, life, queues, memory, run, bounds
<1>5. CASE CloseRelease
  <2>1. ControlOK'
    BY <1>5 DEF TypeOK, ControlOK, CloseRelease, Working, Actors, bounds, run, CancelsUnlocked
  <2> QED
    BY <1>5, <2>1, Kept DEF TypeOK, CloseRelease, life, queues, memory, run, bounds
<1>6. CASE CloseCancel
  <2>1. ControlOK'
    BY <1>6 DEF TypeOK, ControlOK, CloseCancel, Working, Actors, bounds, run, Cancelled
  <2> QED
    BY <1>6, <2>1, Kept DEF TypeOK, CloseCancel, life, queues, memory, run, bounds
<1>7. CASE CloseEnd
  <2>1. close.psock \in Psocks /\ refs[close.psock] - 1 \in Nat
    BY <1>7 DEF TypeOK, LifeOK, ControlOK, Callers, CloseEnd, RefsHeld, Uses
  <2>2. LifeOK'
    BY <1>7, <2>1 DEF TypeOK, LifeOK, CloseEnd, life, Put
  <2>3. ControlOK'
    BY <1>7, <2>1 DEF TypeOK, ControlOK, CloseEnd, Working, Actors, bounds, run
  <2> QED
    BY <1>7, <2>2, <2>3, Kept DEF TypeOK, CloseEnd, life, queues, memory, run, bounds
<1> QED
  BY <1>1, <1>2, <1>3, <1>4, <1>5, <1>6, <1>7 DEF Close

LEMMA LinkTypes ==
  ASSUME TypeOK, RefsHeld, NEW p \in Psocks, Link \/ Unlink(p)
  PROVE  TypeOK'
<1>1. CASE Link
  <2>1. LifeOK'
    BY <1>1 DEF TypeOK, LifeOK, Link, life
  <2> QED
    BY <1>1, <2>1, Kept DEF TypeOK, Link, life, queues, memory, run, bounds
<1>2. CASE Unlink(p)
  <2>1. refs[p] - 1 \in Nat
    BY <1>2 DEF TypeOK, LifeOK, Unlink, RefsHeld, Uses
  <2>2. LifeOK'
    BY <1>2, <2>1 DEF TypeOK, LifeOK, Unlink, life, Put
  <2> QED
    BY <1>2, <2>2, Kept DEF TypeOK, Unlink, life, queues, memory, run, bounds
<1> QED
  BY <1>1, <1>2

LEMMA ZapCount ==
  ASSUME TypeOK, NEW p \in Psocks
  PROVE  Cardinality(charged \cap Zapped(p)) + Cardinality(cork \cap {p}) \in Int
<1>1. IsFiniteSet(charged \cap Zapped(p)) /\ IsFiniteSet(cork \cap {p})
  BY FS_Subset DEF TypeOK, MemoryOK
<1> QED
  BY <1>1, FS_CardinalityType

LEMMA RemovalTypes ==
  ASSUME TypeOK, Updating, NEW p \in Psocks, Removal(p)
  PROVE  TypeOK'
<1>1. CASE Detach(p)
  <2>1. LifeOK'
    BY <1>1 DEF TypeOK, LifeOK, Detach, life, Goes
  <2> QED
    BY <1>1, <2>1, Kept DEF TypeOK, Detach, life, queues, memory, run, bounds
<1>2. CASE Stop(p)
  <2>1. LifeOK'
    BY <1>2 DEF TypeOK, LifeOK, Stop, life, Goes
  <2> QED
    BY <1>2, <2>1, Kept DEF TypeOK, Stop, life, queues, memory, run, bounds
<1>3. CASE DestroyCancel(p)
  <2>1. LifeOK'
    BY <1>3 DEF TypeOK, LifeOK, DestroyCancel, life, Goes
  <2>2. ControlOK'
    BY <1>3 DEF TypeOK, ControlOK, DestroyCancel, Working, Actors, bounds, run, Cancelled
  <2> QED
    BY <1>3, <2>1, <2>2, Kept DEF TypeOK, DestroyCancel, life, queues, memory, run, bounds
<1>4. CASE DestroyLock(p)
  <2>1. LifeOK'
    BY <1>4 DEF TypeOK, LifeOK, DestroyLock, life, Goes
  <2>2. ControlOK'
    BY <1>4 DEF TypeOK, ControlOK, DestroyLock, Working, Actors, bounds, run, Acquire
  <2> QED
    BY <1>4, <2>1, <2>2, Kept DEF TypeOK, DestroyLock, life, queues, memory, run, bounds
<1>5. CASE DestroyZap(p)
  <2>1. Cardinality(charged \cap Zapped(p)) + Cardinality(cork \cap {p}) \in Int
    BY <1>5, ZapCount DEF DestroyZap
  <2>2. LifeOK'
    BY <1>5, <2>1 DEF TypeOK, LifeOK, DestroyZap, life, Goes
  <2>3. QueuesOK'
    BY <1>5, <2>1 DEF TypeOK, QueuesOK, DestroyZap, queues
  <2>4. MemoryOK'
    BY <1>5, <2>1 DEF TypeOK, MemoryOK, DestroyZap, Actors, ReadAlloc
  <2> QED
    BY <1>5, <2>2, <2>3, <2>4, Kept DEF TypeOK, DestroyZap, life, queues, memory, run, bounds
<1>6. CASE DestroyEnd(p)
  <2>1. update["destroy"] \in Int
    BY <1>6 DEF TypeOK, MemoryOK, DestroyEnd, Goes, Updating, Actors
  <2>2. LifeOK'
    BY <1>6, <2>1 DEF TypeOK, LifeOK, DestroyEnd, life, Goes
  <2>3. MemoryOK'
    BY <1>6, <2>1 DEF TypeOK, MemoryOK, DestroyEnd, Actors, WriteAlloc
  <2>4. ControlOK'
    BY <1>6, <2>1 DEF TypeOK, ControlOK, DestroyEnd, Working, Actors, bounds, run
  <2> QED
    BY <1>6, <2>2, <2>3, <2>4, Kept DEF TypeOK, DestroyEnd, life, queues, memory, run, bounds
<1> QED
  BY <1>1, <1>2, <1>3, <1>4, <1>5, <1>6 DEF Removal

LEMMA TypeStep ==
  ASSUME Inv, Next
  PROVE  TypeOK'
<1>1. ASSUME NEW p \in Psocks, Worker(p) \/ WorkAgain(p) \/ WorkError(p) PROVE TypeOK'
  BY <1>1, WorkerTypes DEF Inv
<1>2. ASSUME NEW p \in Psocks, Unlink(p) \/ Removal(p) PROVE TypeOK'
  BY <1>2, LinkTypes, RemovalTypes DEF Inv
<1>3. ASSUME NEW s \in Skbs, RedirectQueue(s) PROVE TypeOK'
  BY <1>3, QueueTypes DEF Inv
<1>4. CASE RedirectFind \/ Receive \/ ReceiveEnd
  BY <1>4, ReceiveTypes DEF Inv
<1>5. CASE CallBegin \/ Call
  BY <1>5, CallTypes DEF Inv
<1>6. CASE CloseBegin \/ Close
  BY <1>6, CloseTypes DEF Inv
<1>7. CASE Link
  <2>1. PICK p \in Psocks : TRUE
    BY <1>7 DEF Link, Inv, TypeOK, LifeOK
  <2> QED
    BY <1>7, <2>1, LinkTypes DEF Inv
<1> QED
  BY <1>1, <1>2, <1>3, <1>4, <1>5, <1>6, <1>7 DEF Next

-----------------------------------------------------------------------------
(* References *)

LEMMA ReceiveCallers ==
  ASSUME TypeOK, Callers,
         RedirectFind \/ Receive \/ ReceiveEnd
  PROVE  Callers'
  BY DEF Callers, TypeOK, LifeOK, ControlOK, RedirectFind, Receive, ReceiveEnd, life, memory,
       run,
         bounds, Acquire, ReadAlloc, queues, WriteAlloc

LEMMA QueueCallers ==
  ASSUME TypeOK, Callers,
         NEW s \in Skbs, RedirectQueue(s)
  PROVE  Callers'
  BY DEF Callers, TypeOK, LifeOK, ControlOK, RedirectQueue, life, memory, bounds

LEMMA WorkerCallers ==
  ASSUME TypeOK, Callers,
         NEW p \in Psocks, Worker(p) \/ WorkAgain(p) \/ WorkError(p)
  PROVE  Callers'
  BY DEF Callers, TypeOK, LifeOK, ControlOK, Worker, WorkStart, WorkPin, WorkPeek, WorkLock,
         WorkSend, WorkCharge, WorkCharged, WorkPublish, WorkFree, WorkFreed, WorkUnlock,
              WorkPut,
         WorkAgain, WorkError, At, life, queues, memory, bounds, Pin, Acquire, ReadAlloc,
         WriteAlloc, Held, Unlocked, Put

LEMMA CallCallers ==
  ASSUME TypeOK, Callers,
         CallBegin \/ Call
  PROVE  Callers'
  BY DEF Callers, TypeOK, LifeOK, ControlOK, Call, CallBegin, CallLock, CallReceive, CallSend,
         CallUpdate, CallEnd, Idle, life, queues, memory, run, Acquire, bounds, ReadAlloc,
         WriteAlloc, Put

LEMMA CloseCallers ==
  ASSUME TypeOK, Callers,
         CloseBegin \/ Close
  PROVE  Callers'
  BY DEF Callers, TypeOK, LifeOK, ControlOK, Close, CloseBegin, CloseStop, CloseCork,
       CloseUpdate,
         CloseRelease, CloseCancel, CloseEnd, Acquire, Idle, life, queues, memory, run, bounds,
         ReadAlloc, WriteAlloc, CancelsUnlocked, Cancelled, Put

LEMMA LinkCallers ==
  ASSUME TypeOK, Callers,
         NEW p \in Psocks, Link \/ Unlink(p)
  PROVE  Callers'
  BY DEF Callers, TypeOK, LifeOK, ControlOK, Link, Unlink, queues, memory, run, bounds, Put

LEMMA RemovalCallers ==
  ASSUME TypeOK, Callers,
         NEW p \in Psocks, Removal(p)
  PROVE  Callers'
  BY DEF Callers, TypeOK, LifeOK, ControlOK, Removal, Detach, Stop, DestroyCancel, DestroyLock,
         DestroyZap, DestroyEnd, Goes, queues, memory, run, bounds, Cancelled, Acquire,
              ReadAlloc,
         WriteAlloc

LEMMA CallersStep ==
  ASSUME Inv, Next
  PROVE  Callers'
<1>1. ASSUME NEW p \in Psocks, Worker(p) \/ WorkAgain(p) \/ WorkError(p) PROVE Callers'
  BY <1>1, WorkerCallers DEF Inv
<1>2. ASSUME NEW p \in Psocks, Unlink(p) \/ Removal(p) PROVE Callers'
  BY <1>2, LinkCallers, RemovalCallers DEF Inv
<1>3. ASSUME NEW s \in Skbs, RedirectQueue(s) PROVE Callers'
  BY <1>3, QueueCallers DEF Inv
<1>4. CASE RedirectFind \/ Receive \/ ReceiveEnd
  BY <1>4, ReceiveCallers DEF Inv
<1>5. CASE CallBegin \/ Call
  BY <1>5, CallCallers DEF Inv
<1>6. CASE CloseBegin \/ Close
  BY <1>6, CloseCallers DEF Inv
<1>7. CASE Link
  <2>1. PICK p \in Psocks : TRUE
    BY <1>7 DEF Link, Inv, TypeOK, LifeOK
  <2> QED
    BY <1>7, <2>1, LinkCallers DEF Inv
<1> QED
  BY <1>1, <1>2, <1>3, <1>4, <1>5, <1>6, <1>7 DEF Next

LEMMA ReceiveUses ==
  ASSUME TypeOK, Callers, RefsHeld, Alive, Callers',
         RedirectFind \/ Receive \/ ReceiveEnd
  PROVE  RefsHeld' /\ Alive'
  BY DEF TypeOK, LifeOK, ControlOK, Callers, RefsHeld, Uses, Alive, Working, RedirectFind,
         Receive, ReceiveEnd, life, memory, run, bounds, Acquire, ReadAlloc, queues, WriteAlloc

LEMMA QueueUses ==
  ASSUME TypeOK, Callers, RefsHeld, Alive, Callers',
         NEW s \in Skbs, RedirectQueue(s)
  PROVE  RefsHeld' /\ Alive'
  BY DEF TypeOK, LifeOK, ControlOK, Callers, RefsHeld, Uses, Alive, Working, RedirectQueue,
       life,
         memory, bounds

LEMMA CloseUses ==
  ASSUME TypeOK, Callers, RefsHeld, Alive, Callers',
         CloseBegin \/ Close
  PROVE  RefsHeld' /\ Alive'
  BY DEF TypeOK, LifeOK, ControlOK, Callers, RefsHeld, Uses, Alive, Working, Close, CloseBegin,
         CloseStop, CloseCork, CloseUpdate, CloseRelease, CloseCancel, CloseEnd, Acquire, Idle,
         life, queues, memory, run, bounds, ReadAlloc, WriteAlloc, CancelsUnlocked, Cancelled,
              Put

LEMMA LinkUses ==
  ASSUME TypeOK, Callers, RefsHeld, Alive, Callers',
         NEW p \in Psocks, Link \/ Unlink(p)
  PROVE  RefsHeld' /\ Alive'
  BY DEF TypeOK, LifeOK, ControlOK, Callers, RefsHeld, Uses, Alive, Working, Link, Unlink,
       queues,
         memory, run, bounds, Put

LEMMA RemovalUses ==
  ASSUME TypeOK, Callers, RefsHeld, Alive, Callers',
         NEW p \in Psocks, Removal(p)
  PROVE  RefsHeld' /\ Alive'
  BY SMTT(30) DEF TypeOK, LifeOK, ControlOK, Callers, RefsHeld, Uses, Alive, Working, Removal,
         Detach, Stop, DestroyCancel, DestroyLock, DestroyZap, DestroyEnd, Goes, queues, memory, run,
         bounds, Cancelled, Acquire, ReadAlloc, WriteAlloc

LEMMA WorkerUses ==
  ASSUME TypeOK, Callers, RefsHeld, Alive, Callers',
         NEW p \in Psocks, Worker(p) \/ WorkAgain(p) \/ WorkError(p)
  PROVE  RefsHeld' /\ Alive'
<1>1. CASE WorkStart(p)
  BY <1>1 DEF TypeOK, LifeOK, ControlOK, Callers, RefsHeld, Uses, Alive, Working, WorkStart, At,
         life, queues, memory, bounds
<1>2. CASE WorkPin(p)
  BY <1>2 DEF TypeOK, LifeOK, ControlOK, Callers, RefsHeld, Uses, Alive, Working, WorkPin, At,
         Pin, life, queues, memory, bounds
<1>3. CASE WorkPeek(p)
  BY <1>3 DEF TypeOK, LifeOK, ControlOK, Callers, RefsHeld, Uses, Alive, Working, WorkPeek, At,
         life, queues, memory, bounds
<1>4. CASE WorkLock(p)
  BY <1>4 DEF TypeOK, LifeOK, ControlOK, Callers, RefsHeld, Uses, Alive, Working, WorkLock, At,
         Acquire, life, queues, memory, bounds
<1>5. CASE WorkSend(p)
  BY <1>5 DEF TypeOK, LifeOK, ControlOK, Callers, RefsHeld, Uses, Alive, Working, WorkSend, At,
         life, queues, memory, bounds
<1>6. CASE WorkCharge(p)
  BY <1>6 DEF TypeOK, LifeOK, ControlOK, Callers, RefsHeld, Uses, Alive, Working, WorkCharge,
       At,
         ReadAlloc, life, queues, bounds
<1>7. CASE WorkCharged(p)
  BY <1>7 DEF TypeOK, LifeOK, ControlOK, Callers, RefsHeld, Uses, Alive, Working, WorkCharged,
       At,
         WriteAlloc, life, queues, bounds
<1>8. CASE WorkPublish(p)
  BY <1>8 DEF TypeOK, LifeOK, ControlOK, Callers, RefsHeld, Uses, Alive, Working, WorkPublish,
       At,
         life, memory, bounds
<1>9. CASE WorkFree(p)
  <2>1. UNCHANGED <<linked, refs, phase, app, close>>
    BY <1>9 DEF WorkFree, life
  <2>2. \E to \in {"freed", "unlock"} : work[p] = "free" /\ work' = [work EXCEPT ![p] = to]
    BY <1>9 DEF WorkFree, At
  <2> QED
    BY <2>1, <2>2 DEF TypeOK, ControlOK, RefsHeld, Uses, Alive, Working
<1>10. CASE WorkFreed(p)
  BY <1>10 DEF TypeOK, LifeOK, ControlOK, Callers, RefsHeld, Uses, Alive, Working, WorkFreed,
       At,
         WriteAlloc, life, queues, bounds
<1>11. CASE WorkUnlock(p)
  BY <1>11 DEF TypeOK, LifeOK, ControlOK, Callers, RefsHeld, Uses, Alive, Working, WorkUnlock,
       At,
         Unlocked, life, queues, memory, bounds
<1>12. CASE WorkPut(p)
  BY <1>12 DEF TypeOK, LifeOK, ControlOK, Callers, RefsHeld, Uses, Alive, Working, WorkPut, At,
         Put, queues, memory, bounds
<1>13. CASE WorkAgain(p)
  BY <1>13 DEF TypeOK, LifeOK, ControlOK, Callers, RefsHeld, Uses, Alive, Working, WorkAgain,
       At,
         Unlocked, life, queues, memory
<1>14. CASE WorkError(p)
  BY <1>14 DEF TypeOK, LifeOK, ControlOK, Callers, RefsHeld, Uses, Alive, Working, WorkError,
       At,
         Unlocked, life, queues, memory, bounds
<1> QED
  BY <1>1, <1>2, <1>3, <1>4, <1>5, <1>6, <1>7, <1>8, <1>9, <1>10, <1>11, <1>12, <1>13, <1>14 DEF
         Worker

LEMMA CallUses ==
  ASSUME TypeOK, Callers, RefsHeld, Alive, Callers',
         CallBegin \/ Call
  PROVE  RefsHeld' /\ Alive'
<1>1. CASE CallBegin
  BY <1>1 DEF TypeOK, LifeOK, ControlOK, Callers, RefsHeld, Uses, Alive, Working, CallBegin,
       Idle,
         life, queues, memory, run
<1>2. CASE CallLock
  BY <1>2 DEF TypeOK, LifeOK, ControlOK, Callers, RefsHeld, Uses, Alive, Working, CallLock,
         Acquire, life, queues, memory, run, bounds
<1>3. CASE CallReceive
  <2>1. app'.psock = app.psock
    BY <1>3 DEF TypeOK, ControlOK, CallReceive
  <2>2. UNCHANGED <<linked, work, refs, phase, close>>
    BY <1>3 DEF CallReceive, life, run
  <2> QED
    BY <2>1, <2>2 DEF RefsHeld, Uses, Alive
<1>4. CASE CallSend
  BY <1>4 DEF TypeOK, LifeOK, ControlOK, Callers, RefsHeld, Uses, Alive, Working, CallSend,
         ReadAlloc, life, queues, run, bounds
<1>5. CASE CallUpdate
  BY <1>5 DEF TypeOK, LifeOK, ControlOK, Callers, RefsHeld, Uses, Alive, Working, CallUpdate,
         WriteAlloc, life, queues, run, bounds
<1>6. CASE CallEnd
  BY <1>6 DEF TypeOK, LifeOK, ControlOK, Callers, RefsHeld, Uses, Alive, Working, CallEnd, Put,
         Idle, queues, memory, run, bounds
<1> QED
  BY <1>1, <1>2, <1>3, <1>4, <1>5, <1>6 DEF Call

LEMMA UsesStep ==
  ASSUME Inv, Callers', Next
  PROVE  RefsHeld' /\ Alive'
<1>1. ASSUME NEW p \in Psocks,
     Worker(p) \/ WorkAgain(p) \/ WorkError(p) PROVE RefsHeld' /\ Alive'
  BY <1>1, WorkerUses DEF Inv
<1>2. ASSUME NEW p \in Psocks, Unlink(p) \/ Removal(p) PROVE RefsHeld' /\ Alive'
  BY <1>2, LinkUses, RemovalUses DEF Inv
<1>3. ASSUME NEW s \in Skbs, RedirectQueue(s) PROVE RefsHeld' /\ Alive'
  BY <1>3, QueueUses DEF Inv
<1>4. CASE RedirectFind \/ Receive \/ ReceiveEnd
  BY <1>4, ReceiveUses DEF Inv
<1>5. CASE CallBegin \/ Call
  BY <1>5, CallUses DEF Inv
<1>6. CASE CloseBegin \/ Close
  BY <1>6, CloseUses DEF Inv
<1>7. CASE Link
  <2>1. PICK p \in Psocks : TRUE
    BY <1>7 DEF Link, Inv, TypeOK, LifeOK
  <2> QED
    BY <1>7, <2>1, LinkUses DEF Inv
<1> QED
  BY <1>1, <1>2, <1>3, <1>4, <1>5, <1>6, <1>7 DEF Next

-----------------------------------------------------------------------------
(* Stages of a removal *)

LEMMA ReceiveStages ==
  ASSUME TypeOK, Callers, RefsHeld, Alive, Stages,
         RedirectFind \/ Receive \/ ReceiveEnd
  PROVE  Stages'
<1>1. CASE RedirectFind
  BY <1>1 DEF TypeOK, LifeOK, Stages, StageOK, RedirectFind, life, memory, run, bounds
<1>2. CASE Receive
  BY <1>2 DEF TypeOK, LifeOK, Stages, StageOK, Receive, Acquire, ReadAlloc, life, queues, run,
         bounds
<1>3. CASE ReceiveEnd
  BY <1>3 DEF TypeOK, LifeOK, Stages, StageOK, ReceiveEnd, WriteAlloc, life, queues, run, bounds
<1> QED
  BY <1>1, <1>2, <1>3

LEMMA QueueStages ==
  ASSUME TypeOK, Callers, RefsHeld, Alive, Stages,
         NEW s \in Skbs, RedirectQueue(s)
  PROVE  Stages'
<1>1. CASE RedirectQueue(s)
  BY <1>1 DEF TypeOK, LifeOK, Stages, StageOK, RedirectQueue, life, memory, bounds, QueuesOK
<1> QED
  BY <1>1

LEMMA WorkerStages ==
  ASSUME TypeOK, Callers, RefsHeld, Alive, Stages,
         NEW p \in Psocks, Worker(p) \/ WorkAgain(p) \/ WorkError(p)
  PROVE  Stages'
<1>1. CASE WorkStart(p)
  BY <1>1 DEF TypeOK, LifeOK, Stages, StageOK, WorkStart, At, life, queues, memory, bounds,
         ControlOK, Callers, RefsHeld, Uses, Alive, Working
<1>2. CASE WorkPin(p)
  BY <1>2 DEF TypeOK, LifeOK, Stages, StageOK, WorkPin, At, Pin, life, queues, memory, bounds,
         ControlOK
<1>3. CASE WorkPeek(p)
  BY <1>3 DEF TypeOK, LifeOK, Stages, StageOK, WorkPeek, At, life, queues, memory, bounds,
         ControlOK, Callers, RefsHeld, Uses, Alive, Working
<1>4. CASE WorkLock(p)
  BY <1>4 DEF TypeOK, LifeOK, Stages, StageOK, WorkLock, At, Acquire, life, queues, memory,
       bounds
<1>5. CASE WorkSend(p)
  BY <1>5 DEF TypeOK, LifeOK, Stages, StageOK, WorkSend, At, life, queues, memory, bounds
<1>6. CASE WorkCharge(p)
  BY <1>6 DEF TypeOK, LifeOK, Stages, StageOK, WorkCharge, At, ReadAlloc, life, queues, bounds,
         ControlOK
<1>7. CASE WorkCharged(p)
  BY <1>7 DEF TypeOK, LifeOK, Stages, StageOK, WorkCharged, At, WriteAlloc, life, queues, bounds
<1>8. CASE WorkPublish(p)
  BY <1>8, SMTT(30) DEF TypeOK, LifeOK, Stages, StageOK, WorkPublish, At, life, memory, bounds,
         QueuesOK, ControlOK
<1>9. CASE WorkFree(p)
  BY <1>9, SMTT(30) DEF TypeOK, LifeOK, Stages, StageOK, WorkFree, At, Held, ReadAlloc, life,
         bounds, QueuesOK, ControlOK
<1>10. CASE WorkFreed(p)
  BY <1>10 DEF TypeOK, LifeOK, Stages, StageOK, WorkFreed, At, WriteAlloc, life, queues, bounds
<1>11. CASE WorkUnlock(p)
  BY <1>11 DEF TypeOK, LifeOK, Stages, StageOK, WorkUnlock, At, Unlocked, life, queues, memory,
         bounds
<1>12. CASE WorkPut(p)
  BY <1>12 DEF TypeOK, LifeOK, Stages, StageOK, WorkPut, At, Put, queues, memory, bounds,
         ControlOK, Callers, RefsHeld, Uses, Alive, Working
<1>13. CASE WorkAgain(p)
  BY <1>13 DEF TypeOK, LifeOK, Stages, StageOK, WorkAgain, At, Unlocked, life, queues, memory,
         ControlOK, Callers, RefsHeld, Uses, Alive, Working
<1>14. CASE WorkError(p)
  BY <1>14 DEF TypeOK, LifeOK, Stages, StageOK, WorkError, At, Unlocked, life, queues, memory,
         bounds, ControlOK, Callers, RefsHeld, Uses, Alive, Working
<1> QED
  BY <1>1, <1>2, <1>3, <1>4, <1>5, <1>6, <1>7, <1>8, <1>9, <1>10, <1>11, <1>12, <1>13, <1>14 DEF
         Worker

LEMMA CallStages ==
  ASSUME TypeOK, Callers, RefsHeld, Alive, Stages,
         CallBegin \/ Call
  PROVE  Stages'
<1>1. CASE CallBegin
  BY <1>1 DEF TypeOK, LifeOK, Stages, StageOK, CallBegin, Idle, life, queues, memory, run
<1>2. CASE CallLock
  BY <1>2 DEF TypeOK, LifeOK, Stages, StageOK, CallLock, Acquire, life, queues, memory, run,
         bounds
<1>3. CASE CallReceive
  <2>1. app.psock \in Psocks
    BY <1>3 DEF TypeOK, ControlOK, Callers, CallReceive
  <2>2. refs[app.psock] > 0
    BY <2>1 DEF TypeOK, LifeOK, RefsHeld, Uses
  <2>3. phase[app.psock] = "live"
    BY <2>1, <2>2 DEF Alive
  <2> QED
    BY <1>3, <2>1, <2>2, <2>3 DEF TypeOK, LifeOK, QueuesOK, Stages, StageOK, CallReceive, life,
         run, queues
<1>4. CASE CallSend
  <2>1. app.psock \in Psocks
    BY <1>4 DEF TypeOK, ControlOK, Callers, CallSend
  <2>2. refs[app.psock] > 0
    BY <2>1 DEF TypeOK, LifeOK, RefsHeld, Uses
  <2>3. phase[app.psock] = "live"
    BY <2>1, <2>2 DEF Alive
  <2> QED
    BY <1>4, <2>1, <2>2, <2>3 DEF TypeOK, LifeOK, QueuesOK, Stages, StageOK, CallSend, life,
         queues, run
<1>5. CASE CallUpdate
  BY <1>5 DEF TypeOK, LifeOK, Stages, StageOK, CallUpdate, WriteAlloc, life, queues, run, bounds
<1>6. CASE CallEnd
  <2>1. app.psock \in Psocks
    BY <1>6 DEF TypeOK, ControlOK, Callers, CallEnd
  <2>2. refs[app.psock] > 0
    BY <2>1 DEF TypeOK, LifeOK, RefsHeld, Uses
  <2>3. phase[app.psock] = "live"
    BY <2>1, <2>2 DEF Alive
  <2> QED
    BY <1>6, <2>1, <2>2, <2>3 DEF TypeOK, LifeOK, QueuesOK, Stages, StageOK, CallEnd, Put,
         queues, run, memory
<1> QED
  BY <1>1, <1>2, <1>3, <1>4, <1>5, <1>6 DEF Call

LEMMA CloseStages ==
  ASSUME TypeOK, Callers, RefsHeld, Alive, Stages,
         CloseBegin \/ Close
  PROVE  Stages'
<1>1. CASE CloseBegin
  BY <1>1 DEF TypeOK, LifeOK, Stages, StageOK, CloseBegin, Acquire, Idle, life, queues, memory,
         run, bounds
<1>2. CASE CloseStop
  BY <1>2 DEF TypeOK, LifeOK, Stages, StageOK, CloseStop, queues, memory, run, bounds,
       ControlOK,
         Callers, RefsHeld, Uses, Alive, Working
<1>3. CASE CloseCork
  BY <1>3 DEF TypeOK, LifeOK, Stages, StageOK, CloseCork, ReadAlloc, life, queues, run, bounds
<1>4. CASE CloseUpdate
  BY <1>4 DEF TypeOK, LifeOK, Stages, StageOK, CloseUpdate, WriteAlloc, life, queues, run,
       bounds
<1>5. CASE CloseRelease
  BY <1>5 DEF TypeOK, LifeOK, Stages, StageOK, CloseRelease, CancelsUnlocked, life, queues,
         memory, run, bounds
<1>6. CASE CloseCancel
  BY <1>6 DEF TypeOK, LifeOK, Stages, StageOK, CloseCancel, Cancelled, life, queues, memory,
         bounds
<1>7. CASE CloseEnd
  <2>1. close.psock \in Psocks
    BY <1>7 DEF TypeOK, ControlOK, Callers, CloseEnd
  <2>2. refs[close.psock] > 0
    BY <2>1 DEF TypeOK, LifeOK, RefsHeld, Uses
  <2>3. phase[close.psock] = "live"
    BY <2>1, <2>2 DEF Alive
  <2> QED
    BY <1>7, <2>1, <2>2, <2>3 DEF TypeOK, LifeOK, QueuesOK, Stages, StageOK, CloseEnd, Put,
         queues, run, memory
<1> QED
  BY <1>1, <1>2, <1>3, <1>4, <1>5, <1>6, <1>7 DEF Close

LEMMA LinkStages ==
  ASSUME TypeOK, Callers, RefsHeld, Alive, Stages,
         NEW p \in Psocks, Link \/ Unlink(p)
  PROVE  Stages'
<1>1. CASE Link
  BY <1>1 DEF TypeOK, LifeOK, Stages, StageOK, Link, queues, memory, run, bounds
<1>2. CASE Unlink(p)
  BY <1>2 DEF TypeOK, LifeOK, Stages, StageOK, Unlink, Put, queues, memory, run, bounds,
         ControlOK, Callers, RefsHeld, Uses, Alive, Working
<1> QED
  BY <1>1, <1>2

LEMMA RemovalStages ==
  ASSUME TypeOK, Callers, RefsHeld, Alive, Stages,
         NEW p \in Psocks, Removal(p)
  PROVE  Stages'
<1>1. CASE Detach(p)
  BY <1>1 DEF TypeOK, LifeOK, Stages, StageOK, Detach, Goes, queues, memory, run, bounds
<1>2. CASE Stop(p)
  BY <1>2 DEF TypeOK, LifeOK, Stages, StageOK, Stop, Goes, queues, memory, run, bounds
<1>3. CASE DestroyCancel(p)
  BY <1>3 DEF TypeOK, LifeOK, Stages, StageOK, DestroyCancel, Goes, Cancelled, queues, memory,
         bounds, ControlOK, Callers, RefsHeld, Uses, Alive, Working
<1>4. CASE DestroyLock(p)
  BY <1>4 DEF TypeOK, LifeOK, Stages, StageOK, DestroyLock, Goes, Acquire, queues, memory, run,
         bounds
<1>5. CASE DestroyZap(p)
  BY <1>5 DEF TypeOK, LifeOK, Stages, StageOK, DestroyZap, Goes, ReadAlloc, run, bounds,
       QueuesOK,
         MemoryOK
<1>6. CASE DestroyEnd(p)
  BY <1>6 DEF TypeOK, LifeOK, Stages, StageOK, DestroyEnd, Goes, WriteAlloc, queues, run, bounds
<1> QED
  BY <1>1, <1>2, <1>3, <1>4, <1>5, <1>6 DEF Removal

LEMMA StagesStep ==
  ASSUME Inv, Next
  PROVE  Stages'
<1>1. ASSUME NEW p \in Psocks, Worker(p) \/ WorkAgain(p) \/ WorkError(p) PROVE Stages'
  BY <1>1, WorkerStages DEF Inv
<1>2. ASSUME NEW p \in Psocks, Unlink(p) \/ Removal(p) PROVE Stages'
  BY <1>2, LinkStages, RemovalStages DEF Inv
<1>3. ASSUME NEW s \in Skbs, RedirectQueue(s) PROVE Stages'
  BY <1>3, QueueStages DEF Inv
<1>4. CASE RedirectFind \/ Receive \/ ReceiveEnd
  BY <1>4, ReceiveStages DEF Inv
<1>5. CASE CallBegin \/ Call
  BY <1>5, CallStages DEF Inv
<1>6. CASE CloseBegin \/ Close
  BY <1>6, CloseStages DEF Inv
<1>7. CASE Link
  <2>1. PICK p \in Psocks : TRUE
    BY <1>7 DEF Link, Inv, TypeOK, LifeOK
  <2> QED
    BY <1>7, <2>1, LinkStages DEF Inv
<1> QED
  BY <1>1, <1>2, <1>3, <1>4, <1>5, <1>6, <1>7 DEF Next

-----------------------------------------------------------------------------
(* The socket lock *)

LEMMA HeadAppend ==
  ASSUME NEW S, NEW q \in Seq(S), q # <<>>, NEW s \in S
  PROVE  Append(q, s) # <<>> /\ Head(Append(q, s)) = Head(q)
  OBVIOUS

(* A worker moves, and takes or releases nobody else's lock. *)
LEMMA OneWorks ==
  ASSUME Workers, NEW p \in Psocks, WorkerOK(p)',
         \A q \in Psocks \ {p} : work'[q] = work[q] /\ ingress'[q] = ingress[q],
         owner' = owner \/ owner \in {p, None}
  PROVE  Workers'
  BY DEF Workers, WorkerOK

(* Nobody else locks or unlocks on a worker's behalf. *)
LEMMA NoneWorks ==
  ASSUME Workers, UNCHANGED <<work, ingress>>, owner' = owner \/ owner \notin Psocks
  PROVE  Workers'
  BY DEF Workers, WorkerOK

LEMMA ReceiveWorkers ==
  ASSUME TypeOK, Workers, Owners,
         RedirectFind \/ Receive \/ ReceiveEnd
  PROVE  Workers'
  BY NoneWorks DEF Owners, TypeOK, RedirectFind, Receive, ReceiveEnd, life, memory, run, bounds,
         Acquire, ReadAlloc, queues, WriteAlloc

LEMMA QueueWorkers ==
  ASSUME TypeOK, Stages, Workers, Owners,
         NEW s \in Skbs, RedirectQueue(s)
  PROVE  Workers'
<1>1. CASE RedirectQueue(s)
  <2>1. redir \in Psocks
    BY <1>1 DEF TypeOK, QueuesOK, RedirectQueue
  <2>2. \A q \in Psocks : ingress'[q] = IF q = redir /\ redir \in tx
                                        THEN Append(ingress[q], s) ELSE ingress[q]
    BY <1>1 DEF TypeOK, QueuesOK, RedirectQueue
  <2>3. ASSUME NEW q \in Psocks, ingress[q] # <<>>
        PROVE  ingress'[q] # <<>> /\ Head(ingress'[q]) = Head(ingress[q])
    <3>1. ingress[q] \in Seq(Skbs)
      BY DEF TypeOK, QueuesOK
    <3>2. Append(ingress[q], s) # <<>> /\ Head(Append(ingress[q], s)) = Head(ingress[q])
      BY <2>3, <3>1, HeadAppend
    <3> QED
      BY <2>2, <2>3, <3>2
  <2>4. UNCHANGED <<work, owner>>
    BY <1>1 DEF RedirectQueue
  <2> QED
    BY <2>3, <2>4 DEF Workers, WorkerOK, Busy
<1> QED
  BY <1>1

LEMMA WorkerWorkers ==
  ASSUME TypeOK, Stages, Workers, Owners, NoEgress,
         NEW p \in Psocks, Worker(p) \/ WorkAgain(p) \/ WorkError(p)
  PROVE  Workers'
<1>1. CASE WorkStart(p)
  <2>1. WorkerOK(p)'
    BY <1>1 DEF TypeOK, QueuesOK, ControlOK, Workers, WorkerOK, Busy, WorkStart, At, life,
         queues, memory, bounds
  <2>2. \A q \in Psocks \ {p} : work'[q] = work[q] /\ ingress'[q] = ingress[q]
    BY <1>1 DEF TypeOK, QueuesOK, ControlOK, WorkStart, At, life, queues, memory, bounds
  <2>3. owner' = owner \/ owner \in {p, None}
    BY <1>1 DEF WorkStart, At, life, queues, memory, bounds
  <2> QED
    BY <2>1, <2>2, <2>3, OneWorks
<1>2. CASE WorkPin(p)
  <2>1. WorkerOK(p)'
    BY <1>2 DEF TypeOK, QueuesOK, ControlOK, Workers, WorkerOK, Busy, WorkPin, At, Pin, life,
         queues, memory, bounds
  <2>2. \A q \in Psocks \ {p} : work'[q] = work[q] /\ ingress'[q] = ingress[q]
    BY <1>2 DEF TypeOK, QueuesOK, ControlOK, WorkPin, At, Pin, life, queues, memory, bounds
  <2>3. owner' = owner \/ owner \in {p, None}
    BY <1>2 DEF WorkPin, At, Pin, life, queues, memory, bounds
  <2> QED
    BY <2>1, <2>2, <2>3, OneWorks
<1>3. CASE WorkPeek(p)
  <2>1. WorkerOK(p)'
    BY <1>3 DEF TypeOK, QueuesOK, ControlOK, Workers, WorkerOK, Busy, WorkPeek, At, life,
         queues, memory, bounds
  <2>2. \A q \in Psocks \ {p} : work'[q] = work[q] /\ ingress'[q] = ingress[q]
    BY <1>3 DEF TypeOK, QueuesOK, ControlOK, WorkPeek, At, life, queues, memory, bounds
  <2>3. owner' = owner \/ owner \in {p, None}
    BY <1>3 DEF WorkPeek, At, life, queues, memory, bounds
  <2> QED
    BY <2>1, <2>2, <2>3, OneWorks
<1>4. CASE WorkLock(p)
  <2>1. WorkerOK(p)'
    BY <1>4 DEF TypeOK, QueuesOK, ControlOK, Workers, WorkerOK, Busy, Locks, WorkLock, At,
         Acquire, life, queues, memory, bounds
  <2>2. \A q \in Psocks \ {p} : work'[q] = work[q] /\ ingress'[q] = ingress[q]
    BY <1>4 DEF TypeOK, QueuesOK, ControlOK, WorkLock, At, Acquire, life, queues, memory, bounds
  <2>3. owner' = owner \/ owner \in {p, None}
    BY <1>4 DEF WorkLock, At, Acquire, life, queues, memory, bounds
  <2> QED
    BY <2>1, <2>2, <2>3, OneWorks
<1>5. CASE WorkSend(p)
  <2>1. WorkerOK(p)'
    BY <1>5 DEF TypeOK, QueuesOK, ControlOK, Workers, WorkerOK, Busy, WorkSend, At, life,
         queues, memory, bounds
  <2>2. \A q \in Psocks \ {p} : work'[q] = work[q] /\ ingress'[q] = ingress[q]
    BY <1>5 DEF TypeOK, QueuesOK, ControlOK, WorkSend, At, life, queues, memory, bounds
  <2>3. owner' = owner \/ owner \in {p, None}
    BY <1>5 DEF WorkSend, At, life, queues, memory, bounds
  <2> QED
    BY <2>1, <2>2, <2>3, OneWorks
<1>6. CASE WorkCharge(p)
  <2>1. WorkerOK(p)'
    BY <1>6 DEF TypeOK, QueuesOK, ControlOK, Workers, WorkerOK, Busy, WorkCharge, At,
         ReadAlloc, life, queues, bounds
  <2>2. \A q \in Psocks \ {p} : work'[q] = work[q] /\ ingress'[q] = ingress[q]
    BY <1>6 DEF TypeOK, QueuesOK, ControlOK, WorkCharge, At, ReadAlloc, life, queues, bounds
  <2>3. owner' = owner \/ owner \in {p, None}
    BY <1>6 DEF WorkCharge, At, ReadAlloc, life, queues, bounds
  <2> QED
    BY <2>1, <2>2, <2>3, OneWorks
<1>7. CASE WorkCharged(p)
  <2>1. WorkerOK(p)'
    BY <1>7 DEF TypeOK, QueuesOK, ControlOK, Workers, WorkerOK, Busy, WorkCharged, At,
         WriteAlloc, life, queues, bounds
  <2>2. \A q \in Psocks \ {p} : work'[q] = work[q] /\ ingress'[q] = ingress[q]
    BY <1>7 DEF TypeOK, QueuesOK, ControlOK, WorkCharged, At, WriteAlloc, life, queues, bounds
  <2>3. owner' = owner \/ owner \in {p, None}
    BY <1>7 DEF WorkCharged, At, WriteAlloc, life, queues, bounds
  <2> QED
    BY <2>1, <2>2, <2>3, OneWorks
<1>8. CASE WorkPublish(p)
  <2>1. WorkerOK(p)'
    BY <1>8 DEF TypeOK, QueuesOK, ControlOK, Workers, WorkerOK, Busy, WorkPublish, At, life,
         memory, bounds
  <2>2. \A q \in Psocks \ {p} : work'[q] = work[q] /\ ingress'[q] = ingress[q]
    BY <1>8 DEF TypeOK, QueuesOK, ControlOK, WorkPublish, At, life, memory, bounds
  <2>3. owner' = owner \/ owner \in {p, None}
    BY <1>8 DEF WorkPublish, At, life, memory, bounds
  <2> QED
    BY <2>1, <2>2, <2>3, OneWorks
<1>9. CASE WorkFree(p)
  <2>1. WorkerOK(p)'
    BY <1>9 DEF TypeOK, QueuesOK, ControlOK, Workers, WorkerOK, Busy, NoEgress, WorkFree, At,
         Held, ReadAlloc, life, bounds
  <2>2. \A q \in Psocks \ {p} : work'[q] = work[q] /\ ingress'[q] = ingress[q]
    BY <1>9 DEF TypeOK, QueuesOK, ControlOK, WorkFree, At, Held, ReadAlloc, life, bounds
  <2>3. owner' = owner \/ owner \in {p, None}
    BY <1>9 DEF WorkFree, At, Held, ReadAlloc, life, bounds
  <2> QED
    BY <2>1, <2>2, <2>3, OneWorks
<1>10. CASE WorkFreed(p)
  <2>1. WorkerOK(p)'
    BY <1>10 DEF TypeOK, QueuesOK, ControlOK, Workers, WorkerOK, Busy, WorkFreed, At,
         WriteAlloc, life, queues, bounds
  <2>2. \A q \in Psocks \ {p} : work'[q] = work[q] /\ ingress'[q] = ingress[q]
    BY <1>10 DEF TypeOK, QueuesOK, ControlOK, WorkFreed, At, WriteAlloc, life, queues, bounds
  <2>3. owner' = owner \/ owner \in {p, None}
    BY <1>10 DEF WorkFreed, At, WriteAlloc, life, queues, bounds
  <2> QED
    BY <2>1, <2>2, <2>3, OneWorks
<1>11. CASE WorkUnlock(p)
  <2>1. WorkerOK(p)'
    BY <1>11 DEF TypeOK, QueuesOK, ControlOK, Workers, WorkerOK, Busy, WorkUnlock, At,
         Unlocked, life, queues, memory, bounds
  <2>2. \A q \in Psocks \ {p} : work'[q] = work[q] /\ ingress'[q] = ingress[q]
    BY <1>11 DEF TypeOK, QueuesOK, ControlOK, WorkUnlock, At, Unlocked, life, queues, memory,
         bounds
  <2>3. owner' = owner \/ owner \in {p, None}
    BY <1>11 DEF WorkUnlock, At, Unlocked, life, queues, memory, bounds
  <2> QED
    BY <2>1, <2>2, <2>3, OneWorks
<1>12. CASE WorkPut(p)
  <2>1. WorkerOK(p)'
    BY <1>12 DEF TypeOK, QueuesOK, ControlOK, Workers, WorkerOK, Busy, WorkPut, At, Put,
         queues, memory, bounds
  <2>2. \A q \in Psocks \ {p} : work'[q] = work[q] /\ ingress'[q] = ingress[q]
    BY <1>12 DEF TypeOK, QueuesOK, ControlOK, WorkPut, At, Put, queues, memory, bounds
  <2>3. owner' = owner \/ owner \in {p, None}
    BY <1>12 DEF WorkPut, At, Put, queues, memory, bounds
  <2> QED
    BY <2>1, <2>2, <2>3, OneWorks
<1>13. CASE WorkAgain(p)
  <2>1. WorkerOK(p)'
    BY <1>13 DEF TypeOK, QueuesOK, ControlOK, Workers, WorkerOK, Busy, WorkAgain, At, Unlocked,
         life, queues, memory
  <2>2. \A q \in Psocks \ {p} : work'[q] = work[q] /\ ingress'[q] = ingress[q]
    BY <1>13 DEF TypeOK, QueuesOK, ControlOK, WorkAgain, At, Unlocked, life, queues, memory
  <2>3. owner' = owner \/ owner \in {p, None}
    BY <1>13 DEF WorkAgain, At, Unlocked, life, queues, memory
  <2> QED
    BY <2>1, <2>2, <2>3, OneWorks
<1>14. CASE WorkError(p)
  <2>1. WorkerOK(p)'
    BY <1>14 DEF TypeOK, QueuesOK, ControlOK, Workers, WorkerOK, Busy, WorkError, At, Unlocked,
         life, queues, memory, bounds
  <2>2. \A q \in Psocks \ {p} : work'[q] = work[q] /\ ingress'[q] = ingress[q]
    BY <1>14 DEF TypeOK, QueuesOK, ControlOK, WorkError, At, Unlocked, life, queues, memory,
         bounds
  <2>3. owner' = owner \/ owner \in {p, None}
    BY <1>14 DEF WorkError, At, Unlocked, life, queues, memory, bounds
  <2> QED
    BY <2>1, <2>2, <2>3, OneWorks
<1> QED
  BY <1>1, <1>2, <1>3, <1>4, <1>5, <1>6, <1>7, <1>8, <1>9, <1>10, <1>11, <1>12, <1>13, <1>14 DEF
         Worker

LEMMA CallWorkers ==
  ASSUME TypeOK, Workers, Owners,
         CallBegin \/ Call
  PROVE  Workers'
  BY NoneWorks DEF Owners, TypeOK, Call, CallBegin, CallLock, CallReceive, CallSend, CallUpdate,
         CallEnd, Idle, life, queues, memory, run, Acquire, bounds, ReadAlloc, WriteAlloc, Put

LEMMA CloseWorkers ==
  ASSUME TypeOK, Workers, Owners,
         CloseBegin \/ Close
  PROVE  Workers'
  BY NoneWorks DEF Owners, TypeOK, Close, CloseBegin, CloseStop, CloseCork, CloseUpdate,
         CloseRelease, CloseCancel, CloseEnd, Acquire, Idle, life, queues, memory, run, bounds,
         ReadAlloc, WriteAlloc, CancelsUnlocked, Cancelled, Put

LEMMA LinkWorkers ==
  ASSUME TypeOK, Workers, Owners,
         NEW p \in Psocks, Link \/ Unlink(p)
  PROVE  Workers'
  BY NoneWorks DEF Owners, TypeOK, Link, Unlink, queues, memory, run, bounds, Put

LEMMA RemovalWorkers ==
  ASSUME TypeOK, Stages, Workers, Owners,
         NEW p \in Psocks, Removal(p)
  PROVE  Workers'
<1>1. CASE Detach(p)
  BY <1>1, NoneWorks DEF Owners, Detach, Goes, queues, memory, run, bounds
<1>2. CASE Stop(p)
  BY <1>2, NoneWorks DEF Owners, Stop, Goes, queues, memory, run, bounds
<1>3. CASE DestroyCancel(p)
  BY <1>3, NoneWorks DEF Owners, DestroyCancel, Goes, Cancelled, queues, memory, bounds
<1>4. CASE DestroyLock(p)
  BY <1>4, NoneWorks DEF Owners, DestroyLock, Goes, Acquire, queues, memory, run, bounds
<1>5. CASE DestroyZap(p)
  <2>1. WorkerOK(p)'
    BY <1>5 DEF TypeOK, ControlOK, Stages, StageOK, DestroyZap, Goes, run, WorkerOK, Busy
  <2>2. \A q \in Psocks \ {p} : work'[q] = work[q] /\ ingress'[q] = ingress[q]
    BY <1>5 DEF TypeOK, QueuesOK, DestroyZap, run
  <2>3. owner' = owner
    BY <1>5 DEF DestroyZap
  <2> QED
    BY <2>1, <2>2, <2>3, OneWorks
<1>6. CASE DestroyEnd(p)
  BY <1>6, NoneWorks DEF Owners, DestroyEnd, Goes, WriteAlloc, queues, run, bounds
<1> QED
  BY <1>1, <1>2, <1>3, <1>4, <1>5, <1>6 DEF Removal

LEMMA WorkersStep ==
  ASSUME Inv, Next
  PROVE  Workers'
<1>1. ASSUME NEW p \in Psocks, Worker(p) \/ WorkAgain(p) \/ WorkError(p) PROVE Workers'
  BY <1>1, WorkerWorkers DEF Inv
<1>2. ASSUME NEW p \in Psocks, Unlink(p) \/ Removal(p) PROVE Workers'
  BY <1>2, LinkWorkers, RemovalWorkers DEF Inv
<1>3. ASSUME NEW s \in Skbs, RedirectQueue(s) PROVE Workers'
  BY <1>3, QueueWorkers DEF Inv
<1>4. CASE RedirectFind \/ Receive \/ ReceiveEnd
  BY <1>4, ReceiveWorkers DEF Inv
<1>5. CASE CallBegin \/ Call
  BY <1>5, CallWorkers DEF Inv
<1>6. CASE CloseBegin \/ Close
  BY <1>6, CloseWorkers DEF Inv
<1>7. CASE Link
  <2>1. PICK p \in Psocks : TRUE
    BY <1>7 DEF Link, Inv, TypeOK, LifeOK
  <2> QED
    BY <1>7, <2>1, LinkWorkers DEF Inv
<1> QED
  BY <1>1, <1>2, <1>3, <1>4, <1>5, <1>6, <1>7 DEF Next

LEMMA ReceiveOwners ==
  ASSUME TypeOK, TypeOK', Workers, Owners,
         RedirectFind \/ Receive \/ ReceiveEnd
  PROVE  Owners'
<1>1. CASE RedirectFind
  BY <1>1 DEF TypeOK, LifeOK, ControlOK, Owners, RedirectFind, life, memory, run, bounds
<1>2. CASE Receive
  BY <1>2 DEF TypeOK, LifeOK, ControlOK, Owners, Receive, Acquire, ReadAlloc, life, queues, run,
         bounds
<1>3. CASE ReceiveEnd
  BY <1>3 DEF TypeOK, LifeOK, ControlOK, Owners, ReceiveEnd, WriteAlloc, life, queues, run,
       bounds
<1> QED
  BY <1>1, <1>2, <1>3

LEMMA QueueOwners ==
  ASSUME TypeOK, TypeOK', Workers, Owners,
         NEW s \in Skbs, RedirectQueue(s)
  PROVE  Owners'
<1>1. CASE RedirectQueue(s)
  BY <1>1 DEF TypeOK, LifeOK, ControlOK, Owners, RedirectQueue, life, memory, bounds
<1> QED
  BY <1>1

LEMMA WorkerOwners ==
  ASSUME TypeOK, TypeOK', Workers, Owners,
         NEW p \in Psocks, Worker(p) \/ WorkAgain(p) \/ WorkError(p)
  PROVE  Owners'
<1>1. CASE WorkStart(p)
  BY <1>1 DEF TypeOK, LifeOK, ControlOK, Owners, Workers, WorkerOK, Busy, WorkStart, At, life,
         queues, memory, bounds
<1>2. CASE WorkPin(p)
  BY <1>2 DEF TypeOK, LifeOK, ControlOK, Owners, Workers, WorkerOK, Busy, WorkPin, At, Pin,
       life,
         queues, memory, bounds
<1>3. CASE WorkPeek(p)
  BY <1>3 DEF TypeOK, LifeOK, ControlOK, Owners, Workers, WorkerOK, Busy, WorkPeek, At, life,
         queues, memory, bounds
<1>4. CASE WorkLock(p)
  BY <1>4 DEF TypeOK, LifeOK, ControlOK, Owners, Workers, WorkerOK, Busy, WorkLock, At, Acquire,
         life, queues, memory, bounds
<1>5. CASE WorkSend(p)
  BY <1>5 DEF TypeOK, LifeOK, ControlOK, Owners, Workers, WorkerOK, Busy, WorkSend, At, life,
         queues, memory, bounds
<1>6. CASE WorkCharge(p)
  BY <1>6 DEF TypeOK, LifeOK, ControlOK, Owners, Workers, WorkerOK, Busy, WorkCharge, At,
         ReadAlloc, life, queues, bounds
<1>7. CASE WorkCharged(p)
  BY <1>7 DEF TypeOK, LifeOK, ControlOK, Owners, Workers, WorkerOK, Busy, WorkCharged, At,
         WriteAlloc, life, queues, bounds
<1>8. CASE WorkPublish(p)
  BY <1>8 DEF TypeOK, LifeOK, ControlOK, Owners, Workers, WorkerOK, Busy, WorkPublish, At, life,
         memory, bounds
<1>9. CASE WorkFree(p)
  BY <1>9 DEF TypeOK, LifeOK, ControlOK, Owners, Workers, WorkerOK, Busy, WorkFree, At, Held,
         ReadAlloc, life, bounds
<1>10. CASE WorkFreed(p)
  BY <1>10 DEF TypeOK, LifeOK, ControlOK, Owners, Workers, WorkerOK, Busy, WorkFreed, At,
         WriteAlloc, life, queues, bounds
<1>11. CASE WorkUnlock(p)
  BY <1>11 DEF TypeOK, LifeOK, ControlOK, Owners, Workers, WorkerOK, Busy, WorkUnlock, At,
         Unlocked, life, queues, memory, bounds
<1>12. CASE WorkPut(p)
  BY <1>12 DEF TypeOK, LifeOK, ControlOK, Owners, Workers, WorkerOK, Busy, WorkPut, At, Put,
         queues, memory, bounds
<1>13. CASE WorkAgain(p)
  BY <1>13 DEF TypeOK, LifeOK, ControlOK, Owners, Workers, WorkerOK, Busy, WorkAgain, At,
         Unlocked, life, queues, memory
<1>14. CASE WorkError(p)
  BY <1>14 DEF TypeOK, LifeOK, ControlOK, Owners, Workers, WorkerOK, Busy, WorkError, At,
         Unlocked, life, queues, memory, bounds
<1> QED
  BY <1>1, <1>2, <1>3, <1>4, <1>5, <1>6, <1>7, <1>8, <1>9, <1>10, <1>11, <1>12, <1>13, <1>14 DEF
         Worker

LEMMA CallOwners ==
  ASSUME TypeOK, TypeOK', Workers, Owners,
         CallBegin \/ Call
  PROVE  Owners'
<1>1. CASE CallBegin
  BY <1>1 DEF TypeOK, LifeOK, ControlOK, Owners, CallBegin, Idle, life, queues, memory, run
<1>2. CASE CallLock
  BY <1>2 DEF TypeOK, LifeOK, ControlOK, Owners, CallLock, Acquire, life, queues, memory, run,
         bounds
<1>3. CASE CallReceive
  BY <1>3 DEF TypeOK, LifeOK, ControlOK, Owners, CallReceive, ReadAlloc, life, run, bounds
<1>4. CASE CallSend
  BY <1>4 DEF TypeOK, LifeOK, ControlOK, Owners, CallSend, ReadAlloc, life, queues, run, bounds
<1>5. CASE CallUpdate
  BY <1>5 DEF TypeOK, LifeOK, ControlOK, Owners, CallUpdate, WriteAlloc, life, queues, run,
       bounds
<1>6. CASE CallEnd
  BY <1>6 DEF TypeOK, LifeOK, ControlOK, Owners, CallEnd, Put, Idle, queues, memory, run, bounds
<1> QED
  BY <1>1, <1>2, <1>3, <1>4, <1>5, <1>6 DEF Call

LEMMA CloseOwners ==
  ASSUME TypeOK, TypeOK', Workers, Owners,
         CloseBegin \/ Close
  PROVE  Owners'
<1>1. CASE CloseBegin
  BY <1>1 DEF TypeOK, LifeOK, ControlOK, Owners, CloseBegin, Acquire, Idle, life, queues,
       memory,
         run, bounds
<1>2. CASE CloseStop
  BY <1>2 DEF TypeOK, LifeOK, ControlOK, Owners, CloseStop, queues, memory, run, bounds
<1>3. CASE CloseCork
  BY <1>3 DEF TypeOK, LifeOK, ControlOK, Owners, CloseCork, ReadAlloc, life, queues, run, bounds
<1>4. CASE CloseUpdate
  BY <1>4 DEF TypeOK, LifeOK, ControlOK, Owners, CloseUpdate, WriteAlloc, life, queues, run,
         bounds
<1>5. CASE CloseRelease
  BY <1>5 DEF TypeOK, LifeOK, ControlOK, Owners, CloseRelease, CancelsUnlocked, life, queues,
         memory, run, bounds
<1>6. CASE CloseCancel
  BY <1>6 DEF TypeOK, LifeOK, ControlOK, Owners, CloseCancel, Cancelled, life, queues, memory,
         bounds
<1>7. CASE CloseEnd
  BY <1>7 DEF TypeOK, LifeOK, ControlOK, Owners, CloseEnd, Put, queues, memory, run, bounds
<1> QED
  BY <1>1, <1>2, <1>3, <1>4, <1>5, <1>6, <1>7 DEF Close

LEMMA LinkOwners ==
  ASSUME TypeOK, TypeOK', Workers, Owners,
         NEW p \in Psocks, Link \/ Unlink(p)
  PROVE  Owners'
<1>1. CASE Link
  BY <1>1 DEF TypeOK, LifeOK, ControlOK, Owners, Link, queues, memory, run, bounds
<1>2. CASE Unlink(p)
  BY <1>2 DEF TypeOK, LifeOK, ControlOK, Owners, Unlink, Put, queues, memory, run, bounds
<1> QED
  BY <1>1, <1>2

LEMMA RemovalOwners ==
  ASSUME TypeOK, TypeOK', Workers, Owners,
         NEW p \in Psocks, Removal(p)
  PROVE  Owners'
<1>1. CASE Detach(p)
  BY <1>1 DEF TypeOK, LifeOK, ControlOK, Owners, Detach, Goes, queues, memory, run, bounds
<1>2. CASE Stop(p)
  BY <1>2 DEF TypeOK, LifeOK, ControlOK, Owners, Stop, Goes, queues, memory, run, bounds
<1>3. CASE DestroyCancel(p)
  BY <1>3 DEF TypeOK, LifeOK, ControlOK, Owners, DestroyCancel, Goes, Cancelled, queues, memory,
         bounds
<1>4. CASE DestroyLock(p)
  BY <1>4 DEF TypeOK, LifeOK, ControlOK, Owners, DestroyLock, Goes, Acquire, queues, memory,
       run,
         bounds
<1>5. CASE DestroyZap(p)
  BY <1>5 DEF TypeOK, LifeOK, ControlOK, Owners, DestroyZap, Goes, ReadAlloc, run, bounds
<1>6. CASE DestroyEnd(p)
  BY <1>6 DEF TypeOK, LifeOK, ControlOK, Owners, DestroyEnd, Goes, WriteAlloc, queues, run,
       bounds
<1> QED
  BY <1>1, <1>2, <1>3, <1>4, <1>5, <1>6 DEF Removal

LEMMA OwnersStep ==
  ASSUME Inv, TypeOK', Next
  PROVE  Owners'
<1>1. ASSUME NEW p \in Psocks, Worker(p) \/ WorkAgain(p) \/ WorkError(p) PROVE Owners'
  BY <1>1, WorkerOwners DEF Inv
<1>2. ASSUME NEW p \in Psocks, Unlink(p) \/ Removal(p) PROVE Owners'
  BY <1>2, LinkOwners, RemovalOwners DEF Inv
<1>3. ASSUME NEW s \in Skbs, RedirectQueue(s) PROVE Owners'
  BY <1>3, QueueOwners DEF Inv
<1>4. CASE RedirectFind \/ Receive \/ ReceiveEnd
  BY <1>4, ReceiveOwners DEF Inv
<1>5. CASE CallBegin \/ Call
  BY <1>5, CallOwners DEF Inv
<1>6. CASE CloseBegin \/ Close
  BY <1>6, CloseOwners DEF Inv
<1>7. CASE Link
  <2>1. PICK p \in Psocks : TRUE
    BY <1>7 DEF Link, Inv, TypeOK, LifeOK
  <2> QED
    BY <1>7, <2>1, LinkOwners DEF Inv
<1> QED
  BY <1>1, <1>2, <1>3, <1>4, <1>5, <1>6, <1>7 DEF Next

LEMMA ReceiveUpdating ==
  ASSUME TypeOK, TypeOK', Callers, RefsHeld, Alive, Workers, Owners, Updating,
         RedirectFind \/ Receive \/ ReceiveEnd
  PROVE  Updating'
<1>1. CASE RedirectFind
  BY <1>1 DEF TypeOK, LifeOK, MemoryOK, ControlOK, Actors, Updating, Owners, Workers, WorkerOK,
         RedirectFind, life, memory, run, bounds
<1>2. CASE Receive
  BY <1>2 DEF TypeOK, LifeOK, MemoryOK, ControlOK, Actors, Updating, Owners, Workers, WorkerOK,
         Receive, Acquire, ReadAlloc, life, queues, run, bounds
<1>3. CASE ReceiveEnd
  BY <1>3 DEF TypeOK, LifeOK, MemoryOK, ControlOK, Actors, Updating, Owners, Workers, WorkerOK,
         ReceiveEnd, WriteAlloc, life, queues, run, bounds
<1> QED
  BY <1>1, <1>2, <1>3

LEMMA QueueUpdating ==
  ASSUME TypeOK, TypeOK', Callers, RefsHeld, Alive, Workers, Owners, Updating,
         NEW s \in Skbs, RedirectQueue(s)
  PROVE  Updating'
<1>1. CASE RedirectQueue(s)
  BY <1>1 DEF TypeOK, LifeOK, MemoryOK, ControlOK, Actors, Updating, Owners, Workers, WorkerOK,
         RedirectQueue, life, memory, bounds
<1> QED
  BY <1>1

LEMMA WorkerUpdating ==
  ASSUME TypeOK, TypeOK', Callers, RefsHeld, Alive, Workers, Owners, Updating,
         NEW p \in Psocks, Worker(p) \/ WorkAgain(p) \/ WorkError(p)
  PROVE  Updating'
<1>1. CASE WorkStart(p)
  BY <1>1 DEF TypeOK, LifeOK, MemoryOK, ControlOK, Actors, Updating, Owners, Workers, WorkerOK,
         WorkStart, At, life, queues, memory, bounds
<1>2. CASE WorkPin(p)
  BY <1>2 DEF TypeOK, LifeOK, MemoryOK, ControlOK, Actors, Updating, Owners, Workers, WorkerOK,
         WorkPin, At, Pin, life, queues, memory, bounds
<1>3. CASE WorkPeek(p)
  BY <1>3 DEF TypeOK, LifeOK, MemoryOK, ControlOK, Actors, Updating, Owners, Workers, WorkerOK,
         WorkPeek, At, life, queues, memory, bounds
<1>4. CASE WorkLock(p)
  BY <1>4 DEF TypeOK, LifeOK, MemoryOK, ControlOK, Actors, Updating, Owners, Workers, WorkerOK,
         WorkLock, At, Acquire, life, queues, memory, bounds
<1>5. CASE WorkSend(p)
  BY <1>5 DEF TypeOK, LifeOK, MemoryOK, ControlOK, Actors, Updating, Owners, Workers, WorkerOK,
         WorkSend, At, life, queues, memory, bounds
<1>6. CASE WorkCharge(p)
  BY <1>6 DEF TypeOK, LifeOK, MemoryOK, ControlOK, Actors, Updating, Owners, Workers, WorkerOK,
         WorkCharge, At, ReadAlloc, life, queues, bounds
<1>7. CASE WorkCharged(p)
  BY <1>7 DEF TypeOK, LifeOK, MemoryOK, ControlOK, Actors, Updating, Owners, Workers, WorkerOK,
         WorkCharged, At, WriteAlloc, life, queues, bounds
<1>8. CASE WorkPublish(p)
  BY <1>8 DEF TypeOK, LifeOK, MemoryOK, ControlOK, Actors, Updating, Owners, Workers, WorkerOK,
         WorkPublish, At, life, memory, bounds
<1>9. CASE WorkFree(p)
  <2>1. /\ work[p] = "free" /\ owner' = owner /\ UNCHANGED <<app, close, phase>>
        /\ \/ /\ work' = [work EXCEPT ![p] = "freed"]
              /\ update' = [update EXCEPT ![p] = alloc + 1]
           \/ work' = [work EXCEPT ![p] = "unlock"] /\ UNCHANGED update
    BY <1>9 DEF WorkFree, At, Held, ReadAlloc, life
  <2> QED
    BY <2>1 DEF TypeOK, MemoryOK, ControlOK, Actors, Updating
<1>10. CASE WorkFreed(p)
  BY <1>10 DEF TypeOK, LifeOK, MemoryOK, ControlOK, Actors, Updating, Owners, Workers, WorkerOK,
         WorkFreed, At, WriteAlloc, life, queues, bounds
<1>11. CASE WorkUnlock(p)
  BY <1>11 DEF TypeOK, LifeOK, MemoryOK, ControlOK, Actors, Updating, Owners, Workers, WorkerOK,
         WorkUnlock, At, Unlocked, life, queues, memory, bounds
<1>12. CASE WorkPut(p)
  <2>1. p \in Psocks /\ refs[p] > 0
    BY <1>12 DEF TypeOK, LifeOK, ControlOK, Callers, RefsHeld, Uses, Working, WorkPut, At
  <2>2. phase[p] = "live"
    BY <2>1 DEF Alive
  <2>3. (\E q \in Psocks : phase'[q] = "zapped") <=> (\E q \in Psocks : phase[q] = "zapped")
    BY <1>12, <2>1, <2>2 DEF TypeOK, LifeOK, WorkPut, Put
  <2> QED
    BY <1>12, <2>3 DEF TypeOK, LifeOK, ControlOK, Updating, WorkPut, At, memory
<1>13. CASE WorkAgain(p)
  BY <1>13 DEF TypeOK, LifeOK, MemoryOK, ControlOK, Actors, Updating, Owners, Workers, WorkerOK,
         WorkAgain, At, Unlocked, life, queues, memory
<1>14. CASE WorkError(p)
  BY <1>14 DEF TypeOK, LifeOK, MemoryOK, ControlOK, Actors, Updating, Owners, Workers, WorkerOK,
         WorkError, At, Unlocked, life, queues, memory, bounds
<1> QED
  BY <1>1, <1>2, <1>3, <1>4, <1>5, <1>6, <1>7, <1>8, <1>9, <1>10, <1>11, <1>12, <1>13, <1>14 DEF
         Worker

LEMMA CallUpdating ==
  ASSUME TypeOK, TypeOK', Callers, RefsHeld, Alive, Workers, Owners, Updating,
         CallBegin \/ Call
  PROVE  Updating'
<1>1. CASE CallBegin
  BY <1>1 DEF TypeOK, LifeOK, MemoryOK, ControlOK, Actors, Updating, Owners, Workers, WorkerOK,
         CallBegin, Idle, life, queues, memory, run
<1>2. CASE CallLock
  BY <1>2 DEF TypeOK, LifeOK, MemoryOK, ControlOK, Actors, Updating, Owners, Workers, WorkerOK,
         CallLock, Acquire, life, queues, memory, run, bounds
<1>3. CASE CallReceive
  BY <1>3 DEF TypeOK, LifeOK, MemoryOK, ControlOK, Actors, Updating, Owners, Workers, WorkerOK,
         CallReceive, ReadAlloc, life, run, bounds
<1>4. CASE CallSend
  BY <1>4 DEF TypeOK, LifeOK, MemoryOK, ControlOK, Actors, Updating, Owners, Workers, WorkerOK,
         CallSend, ReadAlloc, life, queues, run, bounds
<1>5. CASE CallUpdate
  BY <1>5 DEF TypeOK, LifeOK, MemoryOK, ControlOK, Actors, Updating, Owners, Workers, WorkerOK,
         CallUpdate, WriteAlloc, life, queues, run, bounds
<1>6. CASE CallEnd
  <2>1. app.psock \in Psocks /\ refs[app.psock] > 0
    BY <1>6 DEF TypeOK, LifeOK, ControlOK, Callers, RefsHeld, Uses, Working, CallEnd
  <2>2. phase[app.psock] = "live"
    BY <2>1 DEF Alive
  <2>3. (\E q \in Psocks : phase'[q] = "zapped") <=> (\E q \in Psocks : phase[q] = "zapped")
    BY <1>6, <2>1, <2>2 DEF TypeOK, LifeOK, CallEnd, Put
  <2> QED
    BY <1>6, <2>3 DEF TypeOK, LifeOK, ControlOK, Updating, CallEnd, Idle, run, memory
<1> QED
  BY <1>1, <1>2, <1>3, <1>4, <1>5, <1>6 DEF Call

LEMMA CloseUpdating ==
  ASSUME TypeOK, TypeOK', Callers, RefsHeld, Alive, Workers, Owners, Updating,
         CloseBegin \/ Close
  PROVE  Updating'
<1>1. CASE CloseBegin
  BY <1>1 DEF TypeOK, LifeOK, MemoryOK, ControlOK, Actors, Updating, Owners, Workers, WorkerOK,
         CloseBegin, Acquire, Idle, life, queues, memory, run, bounds
<1>2. CASE CloseStop
  BY <1>2 DEF TypeOK, LifeOK, MemoryOK, ControlOK, Actors, Updating, Owners, Workers, WorkerOK,
         CloseStop, queues, memory, run, bounds
<1>3. CASE CloseCork
  BY <1>3 DEF TypeOK, LifeOK, MemoryOK, ControlOK, Actors, Updating, Owners, Workers, WorkerOK,
         CloseCork, ReadAlloc, life, queues, run, bounds
<1>4. CASE CloseUpdate
  BY <1>4 DEF TypeOK, LifeOK, MemoryOK, ControlOK, Actors, Updating, Owners, Workers, WorkerOK,
         CloseUpdate, WriteAlloc, life, queues, run, bounds
<1>5. CASE CloseRelease
  BY <1>5 DEF TypeOK, LifeOK, MemoryOK, ControlOK, Actors, Updating, Owners, Workers, WorkerOK,
         CloseRelease, CancelsUnlocked, life, queues, memory, run, bounds
<1>6. CASE CloseCancel
  BY <1>6 DEF TypeOK, LifeOK, MemoryOK, ControlOK, Actors, Updating, Owners, Workers, WorkerOK,
         CloseCancel, Cancelled, life, queues, memory, bounds
<1>7. CASE CloseEnd
  <2>1. close.psock \in Psocks /\ refs[close.psock] > 0
    BY <1>7 DEF TypeOK, LifeOK, ControlOK, Callers, RefsHeld, Uses, Working, CloseEnd
  <2>2. phase[close.psock] = "live"
    BY <2>1 DEF Alive
  <2>3. (\E q \in Psocks : phase'[q] = "zapped") <=> (\E q \in Psocks : phase[q] = "zapped")
    BY <1>7, <2>1, <2>2 DEF TypeOK, LifeOK, CloseEnd, Put
  <2> QED
    BY <1>7, <2>3 DEF TypeOK, LifeOK, ControlOK, Updating, CloseEnd, run, memory
<1> QED
  BY <1>1, <1>2, <1>3, <1>4, <1>5, <1>6, <1>7 DEF Close

LEMMA LinkUpdating ==
  ASSUME TypeOK, TypeOK', Callers, RefsHeld, Alive, Workers, Owners, Updating,
         NEW p \in Psocks, Link \/ Unlink(p)
  PROVE  Updating'
<1>1. CASE Link
  BY <1>1 DEF TypeOK, LifeOK, MemoryOK, ControlOK, Actors, Updating, Owners, Workers, WorkerOK,
         Link, queues, memory, run, bounds
<1>2. CASE Unlink(p)
  <2>1. p \in Psocks /\ refs[p] > 0
    BY <1>2 DEF TypeOK, LifeOK, ControlOK, Callers, RefsHeld, Uses, Working, Unlink
  <2>2. phase[p] = "live"
    BY <2>1 DEF Alive
  <2>3. (\E q \in Psocks : phase'[q] = "zapped") <=> (\E q \in Psocks : phase[q] = "zapped")
    BY <1>2, <2>1, <2>2 DEF TypeOK, LifeOK, Unlink, Put
  <2> QED
    BY <1>2, <2>3 DEF TypeOK, LifeOK, ControlOK, Updating, Unlink, run, memory
<1> QED
  BY <1>1, <1>2

LEMMA RemovalUpdating ==
  ASSUME TypeOK, TypeOK', Callers, RefsHeld, Alive, Workers, Owners, Updating,
         NEW p \in Psocks, Removal(p)
  PROVE  Updating'
<1>1. CASE Detach(p)
  BY <1>1 DEF TypeOK, LifeOK, MemoryOK, ControlOK, Actors, Updating, Owners, Workers, WorkerOK,
         Detach, Goes, queues, memory, run, bounds
<1>2. CASE Stop(p)
  BY <1>2 DEF TypeOK, LifeOK, MemoryOK, ControlOK, Actors, Updating, Owners, Workers, WorkerOK,
         Stop, Goes, queues, memory, run, bounds
<1>3. CASE DestroyCancel(p)
  BY <1>3 DEF TypeOK, LifeOK, MemoryOK, ControlOK, Actors, Updating, Owners, Workers, WorkerOK,
         DestroyCancel, Goes, Cancelled, queues, memory, bounds
<1>4. CASE DestroyLock(p)
  BY <1>4 DEF TypeOK, LifeOK, MemoryOK, ControlOK, Actors, Updating, Owners, Workers, WorkerOK,
         DestroyLock, Goes, Acquire, queues, memory, run, bounds
<1>5. CASE DestroyZap(p)
  <2> DEFINE n == Cardinality(charged \cap Zapped(p)) + Cardinality(cork \cap {p})
  <2>1. n \in Int
    BY ZapCount
  <2>2. update' = [update EXCEPT !["destroy"] = alloc + n]
    BY <1>5 DEF DestroyZap, ReadAlloc
  <2> HIDE DEF n
  <2>3. phase' = [phase EXCEPT ![p] = "zapped"] /\ UNCHANGED <<work, owner, app, close>>
    BY <1>5 DEF DestroyZap, Goes, run
  <2> QED
    BY <2>1, <2>2, <2>3 DEF TypeOK, LifeOK, MemoryOK, Actors, Updating
<1>6. CASE DestroyEnd(p)
  BY <1>6 DEF TypeOK, LifeOK, MemoryOK, ControlOK, Actors, Updating, Owners, Workers, WorkerOK,
         DestroyEnd, Goes, WriteAlloc, queues, run, bounds
<1> QED
  BY <1>1, <1>2, <1>3, <1>4, <1>5, <1>6 DEF Removal

LEMMA UpdatingStep ==
  ASSUME Inv, TypeOK', Next
  PROVE  Updating'
<1>1. ASSUME NEW p \in Psocks, Worker(p) \/ WorkAgain(p) \/ WorkError(p) PROVE Updating'
  BY <1>1, WorkerUpdating DEF Inv
<1>2. ASSUME NEW p \in Psocks, Unlink(p) \/ Removal(p) PROVE Updating'
  BY <1>2, LinkUpdating, RemovalUpdating DEF Inv
<1>3. ASSUME NEW s \in Skbs, RedirectQueue(s) PROVE Updating'
  BY <1>3, QueueUpdating DEF Inv
<1>4. CASE RedirectFind \/ Receive \/ ReceiveEnd
  BY <1>4, ReceiveUpdating DEF Inv
<1>5. CASE CallBegin \/ Call
  BY <1>5, CallUpdating DEF Inv
<1>6. CASE CloseBegin \/ Close
  BY <1>6, CloseUpdating DEF Inv
<1>7. CASE Link
  <2>1. PICK p \in Psocks : TRUE
    BY <1>7 DEF Link, Inv, TypeOK, LifeOK
  <2> QED
    BY <1>7, <2>1, LinkUpdating DEF Inv
<1> QED
  BY <1>1, <1>2, <1>3, <1>4, <1>5, <1>6, <1>7 DEF Next

-----------------------------------------------------------------------------
(* The ledger *)

LEMMA Counts ==
  ASSUME TypeOK
  PROVE  /\ IsFiniteSet(charged) /\ IsFiniteSet(cork)
         /\ Cardinality(charged) \in Nat /\ Cardinality(cork) \in Nat /\ Charges \in Int
<1>1. IsFiniteSet(charged) /\ IsFiniteSet(cork)
  BY FS_Subset DEF TypeOK, MemoryOK
<1>2. Cardinality(charged) \in Nat /\ Cardinality(cork) \in Nat
  BY <1>1, FS_CardinalityType
<1> QED
  BY <1>1, <1>2 DEF Charges, Native

LEMMA Quiet ==
  ASSUME Ledger, NEW who \in Actors \cup {None}, owner = who,
         who \in Actors => update[who] = None
  PROVE  (\A a \in Actors : update[a] = None) /\ alloc = -Charges
<1>1. \A a \in Actors : update[a] = None
  BY DEF Ledger
<1> QED
  BY <1>1 DEF Ledger

(* Charges are what they were, and nobody who updates loses the lock. *)
LEMMA LedgerKept ==
  ASSUME Ledger, UNCHANGED memory, owner' = owner \/ \A a \in Actors : update[a] = None
  PROVE  Ledger'
<1>1. Charges' = Charges
  BY DEF Charges, Native, memory
<1> QED
  BY <1>1 DEF Ledger, memory

LEMMA LedgerRead ==
  ASSUME TypeOK, Ledger, NEW who \in Actors, NEW n \in Int, ReadAlloc(who, n), alloc' = alloc,
         \A a \in Actors : update[a] = None, owner' = who, Charges' = Charges - n
  PROVE  Ledger'
<1>1. Charges \in Int /\ alloc \in Int /\ alloc = -Charges
  BY Counts DEF TypeOK, MemoryOK, Ledger
<1>2. \A a \in Actors : update'[a] = IF a = who THEN alloc + n ELSE None
  BY DEF TypeOK, MemoryOK, ReadAlloc
<1>3. alloc + n = -(Charges') /\ alloc + n # None
  BY <1>1
<1> QED
  BY <1>2, <1>3 DEF Ledger

LEMMA LedgerWrite ==
  ASSUME TypeOK, Ledger, NEW who \in Actors, WriteAlloc(who), update[who] # None
  PROVE  Ledger'
<1>1. alloc' = -Charges /\ \A a \in Actors : update'[a] = None
  BY DEF TypeOK, MemoryOK, WriteAlloc, Ledger
<1>2. Charges' = Charges
  BY DEF Charges, Native, WriteAlloc
<1> QED
  BY <1>1, <1>2 DEF Ledger

LEMMA ReceiveLedger ==
  ASSUME TypeOK, TypeOK', Workers, Owners, Updating, NoEgress, Ledger,
         RedirectFind \/ Receive \/ ReceiveEnd
  PROVE  Ledger'
<1>1. CASE RedirectFind
  <2>1. UNCHANGED memory
    BY <1>1 DEF RedirectFind, memory
  <2>2. owner' = owner
    BY <1>1 DEF RedirectFind
  <2> QED
    BY <2>1, <2>2, LedgerKept
<1>2. CASE Receive
  <2>1. owner = None /\ (None \in Actors => update[None] = None)
    BY <1>2 DEF Actors, Owners, Updating, Receive, Acquire
  <2>2. \A a \in Actors : update[a] = None
    BY <2>1, Quiet DEF Actors
  <2>3. "rx" \in Actors /\ owner' = "rx" /\ alloc' = alloc
    BY <1>2, <2>1 DEF Actors, Receive, Acquire
  <2>4. (IF native THEN 1 ELSE -1) \in Int /\ ReadAlloc("rx", (IF native THEN 1 ELSE -1))
    BY <1>2 DEF Receive
  <2>5. Charges' = Charges - (IF native THEN 1 ELSE -1)
    <3>1. UNCHANGED <<charged, cork>> /\ native' = ~native
      BY <1>2 DEF Receive
    <3>2. CASE native
      <4>1. Native = 1 /\ Native' = 0 /\ (IF native THEN 1 ELSE -1) = 1
        BY <3>1, <3>2 DEF Native
      <4> QED
        BY <3>1, <4>1, Counts DEF Charges
    <3>3. CASE ~native
      <4>1. Native = 0 /\ Native' = 1 /\ (IF native THEN 1 ELSE -1) = -1
        BY <3>1, <3>3 DEF Native
      <4> QED
        BY <3>1, <4>1, Counts DEF Charges
    <3> QED
      BY <3>2, <3>3
  <2> QED
    BY <2>2, <2>3, <2>4, <2>5, LedgerRead
<1>3. CASE ReceiveEnd
  <2>1. "rx" \in Actors /\ update["rx"] # None
    BY <1>3 DEF Actors, Updating, ReceiveEnd
  <2>2. WriteAlloc("rx")
    BY <1>3 DEF ReceiveEnd
  <2> QED
    BY <2>1, <2>2, LedgerWrite
<1> QED
  BY <1>1, <1>2, <1>3

LEMMA QueueLedger ==
  ASSUME TypeOK, TypeOK', Workers, Owners, Updating, NoEgress, Ledger,
         NEW s \in Skbs, RedirectQueue(s)
  PROVE  Ledger'
<1>1. CASE RedirectQueue(s)
  <2>1. UNCHANGED memory
    BY <1>1 DEF RedirectQueue, memory
  <2>2. owner' = owner
    BY <1>1 DEF RedirectQueue
  <2> QED
    BY <2>1, <2>2, LedgerKept
<1> QED
  BY <1>1

LEMMA WorkerLedger ==
  ASSUME TypeOK, TypeOK', Workers, Owners, Updating, NoEgress, Ledger,
         NEW p \in Psocks, Worker(p) \/ WorkAgain(p) \/ WorkError(p)
  PROVE  Ledger'
<1>1. CASE WorkStart(p)
  <2>1. UNCHANGED memory
    BY <1>1 DEF WorkStart, memory
  <2>2. owner' = owner
    BY <1>1 DEF WorkStart
  <2> QED
    BY <2>1, <2>2, LedgerKept
<1>2. CASE WorkPin(p)
  <2>1. UNCHANGED memory
    BY <1>2 DEF WorkPin, memory
  <2>2. owner' = owner
    BY <1>2 DEF WorkPin
  <2> QED
    BY <2>1, <2>2, LedgerKept
<1>3. CASE WorkPeek(p)
  <2>1. UNCHANGED memory
    BY <1>3 DEF WorkPeek, memory
  <2>2. owner' = owner
    BY <1>3 DEF WorkPeek
  <2> QED
    BY <2>1, <2>2, LedgerKept
<1>4. CASE WorkLock(p)
  <2>1. CASE Locks(p)
    <3>1. owner = None /\ (None \in Actors => update[None] = None)
      BY <1>4, <2>1 DEF Actors, Owners, Updating, WorkLock, Acquire
    <3>2. \A a \in Actors : update[a] = None
      BY <3>1, Quiet DEF Actors
    <3> QED
      BY <1>4, <3>2, LedgerKept DEF WorkLock
  <2>2. CASE ~(Locks(p))
    BY <1>4, <2>2, LedgerKept DEF WorkLock
  <2> QED
    BY <2>1, <2>2
<1>5. CASE WorkSend(p)
  <2>1. UNCHANGED memory
    BY <1>5 DEF WorkSend, memory
  <2>2. owner' = owner
    BY <1>5 DEF WorkSend
  <2> QED
    BY <2>1, <2>2, LedgerKept
<1>6. CASE WorkCharge(p)
  <2> DEFINE s == Head(ingress[p])
  <2>1. CASE ~Owned(s)
    <3>1. owner = p /\ update[p] = None
      BY <1>6, <2>1 DEF Workers, WorkerOK, Busy, Updating, WorkCharge
    <3>2. \A a \in Actors : update[a] = None
      BY <3>1, Quiet DEF Actors
    <3>3. p \in Actors /\ owner' = p /\ alloc' = alloc
      BY <1>6, <3>1 DEF Actors, WorkCharge, Held
    <3>4. ReadAlloc(p, -1) /\ charged' = charged \cup {s} /\ UNCHANGED <<native, cork>>
      BY <1>6, <2>1 DEF WorkCharge, Owned
    <3>5. Cardinality(charged') = Cardinality(charged) + 1
      BY <2>1, <3>4, Counts, FS_AddElement, FS_RemoveElement DEF Owned
    <3>6. Charges' = Charges - (-1)
      BY <3>4, <3>5, Counts DEF Charges, Native
    <3> QED
      BY <3>2, <3>3, <3>4, <3>6, LedgerRead
  <2>2. CASE ~(~Owned(s))
    <3>1. UNCHANGED <<memory, owner>>
      BY <1>6, <2>2 DEF WorkCharge, memory, Held
    <3> QED
      BY <3>1, LedgerKept
  <2> QED
    BY <2>1, <2>2
<1>7. CASE WorkCharged(p)
  <2>1. p \in Actors /\ update[p] # None
    BY <1>7 DEF Actors, Updating, WorkCharged, At
  <2>2. WriteAlloc(p)
    BY <1>7 DEF WorkCharged
  <2> QED
    BY <2>1, <2>2, LedgerWrite
<1>8. CASE WorkPublish(p)
  <2>1. UNCHANGED memory
    BY <1>8 DEF WorkPublish, memory
  <2>2. owner' = owner
    BY <1>8 DEF WorkPublish
  <2> QED
    BY <2>1, <2>2, LedgerKept
<1>9. CASE WorkFree(p)
  <2> DEFINE s == Head(ingress[p])
  <2>1. CASE s \in charged /\ ~Queued(msgs, s)
    <3>1. owner = p /\ update[p] = None
      BY <1>9, <2>1 DEF Workers, WorkerOK, Busy, NoEgress, Updating, WorkFree
    <3>2. \A a \in Actors : update[a] = None
      BY <3>1, Quiet DEF Actors
    <3>3. p \in Actors /\ owner' = p /\ alloc' = alloc
      BY <1>9, <3>1 DEF Actors, WorkFree, Held
    <3>4. ReadAlloc(p, 1) /\ charged' = charged \ {s} /\ UNCHANGED <<native, cork>>
      BY <1>9, <2>1 DEF WorkFree, Owned
    <3>5. Cardinality(charged') = Cardinality(charged) - 1
      BY <2>1, <3>4, Counts, FS_AddElement, FS_RemoveElement DEF Owned
    <3>6. Charges' = Charges - 1
      BY <3>4, <3>5, Counts DEF Charges, Native
    <3> QED
      BY <3>2, <3>3, <3>4, <3>6, LedgerRead
  <2>2. CASE ~(s \in charged /\ ~Queued(msgs, s))
    <3>1. UNCHANGED <<memory, owner>>
      BY <1>9, <2>2 DEF WorkFree, memory, Held
    <3> QED
      BY <3>1, LedgerKept
  <2> QED
    BY <2>1, <2>2
<1>10. CASE WorkFreed(p)
  <2>1. p \in Actors /\ update[p] # None
    BY <1>10 DEF Actors, Updating, WorkFreed, At
  <2>2. WriteAlloc(p)
    BY <1>10 DEF WorkFreed
  <2> QED
    BY <2>1, <2>2, LedgerWrite
<1>11. CASE WorkUnlock(p)
  <2>1. CASE owner = p
    <3>1. owner = p /\ (p \in Actors => update[p] = None)
      BY <1>11, <2>1 DEF Actors, Owners, Updating, Workers, WorkerOK, At, WorkUnlock
    <3>2. \A a \in Actors : update[a] = None
      BY <3>1, Quiet DEF Actors
    <3> QED
      BY <1>11, <3>2, LedgerKept DEF WorkUnlock
  <2>2. CASE ~(owner = p)
    BY <1>11, <2>2, LedgerKept DEF WorkUnlock, Unlocked
  <2> QED
    BY <2>1, <2>2
<1>12. CASE WorkPut(p)
  <2>1. UNCHANGED memory
    BY <1>12 DEF WorkPut, memory
  <2>2. owner' = owner
    BY <1>12 DEF WorkPut
  <2> QED
    BY <2>1, <2>2, LedgerKept
<1>13. CASE WorkAgain(p)
  <2>1. CASE owner = p
    <3>1. owner = p /\ (p \in Actors => update[p] = None)
      BY <1>13, <2>1 DEF Actors, Owners, Updating, Workers, WorkerOK, At, WorkAgain
    <3>2. \A a \in Actors : update[a] = None
      BY <3>1, Quiet DEF Actors
    <3> QED
      BY <1>13, <3>2, LedgerKept DEF WorkAgain
  <2>2. CASE ~(owner = p)
    BY <1>13, <2>2, LedgerKept DEF WorkAgain, Unlocked
  <2> QED
    BY <2>1, <2>2
<1>14. CASE WorkError(p)
  <2>1. CASE owner = p
    <3>1. owner = p /\ (p \in Actors => update[p] = None)
      BY <1>14, <2>1 DEF Actors, Owners, Updating, Workers, WorkerOK, At, WorkError
    <3>2. \A a \in Actors : update[a] = None
      BY <3>1, Quiet DEF Actors
    <3> QED
      BY <1>14, <3>2, LedgerKept DEF WorkError
  <2>2. CASE ~(owner = p)
    BY <1>14, <2>2, LedgerKept DEF WorkError, Unlocked
  <2> QED
    BY <2>1, <2>2
<1> QED
  BY <1>1, <1>2, <1>3, <1>4, <1>5, <1>6, <1>7, <1>8, <1>9, <1>10, <1>11, <1>12, <1>13, <1>14 DEF
         Worker

LEMMA CallLedger ==
  ASSUME TypeOK, TypeOK', Workers, Owners, Updating, NoEgress, Ledger,
         CallBegin \/ Call
  PROVE  Ledger'
<1>1. CASE CallBegin
  <2>1. UNCHANGED memory
    BY <1>1 DEF CallBegin, memory
  <2>2. owner' = owner
    BY <1>1 DEF CallBegin
  <2> QED
    BY <2>1, <2>2, LedgerKept
<1>2. CASE CallLock
  <2>1. owner = None /\ (None \in Actors => update[None] = None)
    BY <1>2 DEF Actors, Owners, Updating, CallLock, Acquire
  <2>2. \A a \in Actors : update[a] = None
    BY <2>1, Quiet DEF Actors
  <2>3. UNCHANGED memory
    BY <1>2 DEF CallLock
  <2> QED
    BY <2>2, <2>3, LedgerKept
<1>3. CASE CallReceive
  <2> DEFINE s == Head(msgs[app.psock])
  <2>1. CASE s \in charged /\ ~Queued(ingress, s)
    <3>1. owner = "app" /\ update["app"] = None
      BY <1>3, <2>1 DEF Owners, Updating, CallReceive, Actors
    <3>2. \A a \in Actors : update[a] = None
      BY <3>1, Quiet DEF Actors
    <3>3. "app" \in Actors /\ owner' = "app" /\ alloc' = alloc
      BY <1>3, <3>1 DEF Actors, CallReceive, Held
    <3>4. ReadAlloc("app", 1) /\ charged' = charged \ {s} /\ UNCHANGED <<native, cork>>
      BY <1>3, <2>1 DEF CallReceive, Owned
    <3>5. Cardinality(charged') = Cardinality(charged) - 1
      BY <2>1, <3>4, Counts, FS_AddElement, FS_RemoveElement DEF Owned
    <3>6. Charges' = Charges - 1
      BY <3>4, <3>5, Counts DEF Charges, Native
    <3> QED
      BY <3>2, <3>3, <3>4, <3>6, LedgerRead
  <2>2. CASE ~(s \in charged /\ ~Queued(ingress, s))
    <3>1. UNCHANGED <<memory, owner>>
      BY <1>3, <2>2 DEF CallReceive, memory, Held
    <3> QED
      BY <3>1, LedgerKept
  <2> QED
    BY <2>1, <2>2
<1>4. CASE CallSend
  <2>1. owner = "app" /\ ("app" \in Actors => update["app"] = None)
    BY <1>4 DEF Actors, Owners, Updating, CallSend
  <2>2. \A a \in Actors : update[a] = None
    BY <2>1, Quiet DEF Actors
  <2>3. "app" \in Actors /\ owner' = "app" /\ alloc' = alloc
    BY <1>4, <2>1 DEF Actors, CallSend
  <2>4. (IF app.psock \in cork THEN 1 ELSE -1) \in Int /\ ReadAlloc("app",
       (IF app.psock \in cork THEN 1 ELSE -1))
    BY <1>4 DEF CallSend
  <2>5. Charges' = Charges - (IF app.psock \in cork THEN 1 ELSE -1)
    <3>1. cork' = IF app.psock \in cork THEN cork \ {app.psock} ELSE cork \cup {app.psock}
      BY <1>4 DEF CallSend
    <3>2. Cardinality(cork') = Cardinality(cork) - (IF app.psock \in cork THEN 1 ELSE -1)
      <4>1. CASE app.psock \in cork
        <5>1. Cardinality(cork \ {app.psock}) = Cardinality(cork) - 1
          BY <4>1, Counts, FS_RemoveElement
        <5> QED
          BY <3>1, <4>1, <5>1
      <4>2. CASE app.psock \notin cork
        <5>1. Cardinality(cork \cup {app.psock}) = Cardinality(cork) + 1
          BY <4>2, Counts, FS_AddElement
        <5> QED
          BY <3>1, <4>2, <5>1, Counts
      <4> QED
        BY <4>1, <4>2
    <3>3. UNCHANGED <<charged, native>>
      BY <1>4 DEF CallSend
    <3> QED
      BY <3>2, <3>3, Counts DEF Charges, Native
  <2> QED
    BY <2>2, <2>3, <2>4, <2>5, LedgerRead
<1>5. CASE CallUpdate
  <2>1. "app" \in Actors /\ update["app"] # None
    BY <1>5 DEF Actors, Updating, CallUpdate
  <2>2. WriteAlloc("app")
    BY <1>5 DEF CallUpdate
  <2> QED
    BY <2>1, <2>2, LedgerWrite
<1>6. CASE CallEnd
  <2>1. owner = "app" /\ ("app" \in Actors => update["app"] = None)
    BY <1>6 DEF Actors, Owners, Updating, CallEnd
  <2>2. \A a \in Actors : update[a] = None
    BY <2>1, Quiet DEF Actors
  <2>3. UNCHANGED memory
    BY <1>6 DEF CallEnd
  <2> QED
    BY <2>2, <2>3, LedgerKept
<1> QED
  BY <1>1, <1>2, <1>3, <1>4, <1>5, <1>6 DEF Call

LEMMA CloseLedger ==
  ASSUME TypeOK, TypeOK', Workers, Owners, Updating, NoEgress, Ledger,
         CloseBegin \/ Close
  PROVE  Ledger'
<1>1. CASE CloseBegin
  <2>1. CASE owner = None
    <3>1. owner = None /\ (None \in Actors => update[None] = None)
      BY <1>1, <2>1 DEF Actors, Owners, Updating, CloseBegin
    <3>2. \A a \in Actors : update[a] = None
      BY <3>1, Quiet DEF Actors
    <3> QED
      BY <1>1, <3>2, LedgerKept DEF CloseBegin
  <2>2. CASE ~(owner = None)
    BY <1>1, <2>2, LedgerKept DEF CloseBegin, Acquire
  <2> QED
    BY <2>1, <2>2
<1>2. CASE CloseStop
  <2>1. UNCHANGED memory
    BY <1>2 DEF CloseStop, memory
  <2>2. owner' = owner
    BY <1>2 DEF CloseStop
  <2> QED
    BY <2>1, <2>2, LedgerKept
<1>3. CASE CloseCork
  <2>1. owner = "close" /\ ("close" \in Actors => update["close"] = None)
    BY <1>3 DEF Actors, Owners, Updating, CloseCork
  <2>2. \A a \in Actors : update[a] = None
    BY <2>1, Quiet DEF Actors
  <2>3. "close" \in Actors /\ owner' = "close" /\ alloc' = alloc
    BY <1>3, <2>1 DEF Actors, CloseCork
  <2>4. 1 \in Int /\ ReadAlloc("close", 1)
    BY <1>3 DEF CloseCork
  <2>5. Charges' = Charges - 1
    <3>1. close.psock \in cork /\ cork' = cork \ {close.psock}
      BY <1>3 DEF CloseCork
    <3>2. Cardinality(cork') = Cardinality(cork) - 1
      BY <3>1, Counts, FS_RemoveElement
    <3>3. UNCHANGED <<charged, native>>
      BY <1>3 DEF CloseCork
    <3> QED
      BY <3>2, <3>3, Counts DEF Charges, Native
  <2> QED
    BY <2>2, <2>3, <2>4, <2>5, LedgerRead
<1>4. CASE CloseUpdate
  <2>1. "close" \in Actors /\ update["close"] # None
    BY <1>4 DEF Actors, Updating, CloseUpdate
  <2>2. WriteAlloc("close")
    BY <1>4 DEF CloseUpdate
  <2> QED
    BY <2>1, <2>2, LedgerWrite
<1>5. CASE CloseRelease
  <2>1. owner = "close" /\ ("close" \in Actors => update["close"] = None)
    BY <1>5 DEF Actors, Owners, Updating, CloseRelease
  <2>2. \A a \in Actors : update[a] = None
    BY <2>1, Quiet DEF Actors
  <2>3. UNCHANGED memory
    BY <1>5 DEF CloseRelease
  <2> QED
    BY <2>2, <2>3, LedgerKept
<1>6. CASE CloseCancel
  <2>1. CASE owner = "close"
    <3>1. owner = "close" /\ ("close" \in Actors => update["close"] = None)
      BY <1>6, <2>1 DEF Actors, Owners, Updating, CloseCancel
    <3>2. \A a \in Actors : update[a] = None
      BY <3>1, Quiet DEF Actors
    <3> QED
      BY <1>6, <3>2, LedgerKept DEF CloseCancel
  <2>2. CASE ~(owner = "close")
    BY <1>6, <2>2, LedgerKept DEF CloseCancel
  <2> QED
    BY <2>1, <2>2
<1>7. CASE CloseEnd
  <2>1. UNCHANGED memory
    BY <1>7 DEF CloseEnd, memory
  <2>2. owner' = owner
    BY <1>7 DEF CloseEnd
  <2> QED
    BY <2>1, <2>2, LedgerKept
<1> QED
  BY <1>1, <1>2, <1>3, <1>4, <1>5, <1>6, <1>7 DEF Close

LEMMA LinkLedger ==
  ASSUME TypeOK, TypeOK', Workers, Owners, Updating, NoEgress, Ledger,
         NEW p \in Psocks, Link \/ Unlink(p)
  PROVE  Ledger'
<1>1. CASE Link
  <2>1. UNCHANGED memory
    BY <1>1 DEF Link, memory
  <2>2. owner' = owner
    BY <1>1 DEF Link
  <2> QED
    BY <2>1, <2>2, LedgerKept
<1>2. CASE Unlink(p)
  <2>1. UNCHANGED memory
    BY <1>2 DEF Unlink, memory
  <2>2. owner' = owner
    BY <1>2 DEF Unlink
  <2> QED
    BY <2>1, <2>2, LedgerKept
<1> QED
  BY <1>1, <1>2

LEMMA RemovalLedger ==
  ASSUME TypeOK, TypeOK', Workers, Owners, Updating, NoEgress, Ledger,
         NEW p \in Psocks, Removal(p)
  PROVE  Ledger'
<1>1. CASE Detach(p)
  <2>1. UNCHANGED memory
    BY <1>1 DEF Detach, memory
  <2>2. owner' = owner
    BY <1>1 DEF Detach
  <2> QED
    BY <2>1, <2>2, LedgerKept
<1>2. CASE Stop(p)
  <2>1. UNCHANGED memory
    BY <1>2 DEF Stop, memory
  <2>2. owner' = owner
    BY <1>2 DEF Stop
  <2> QED
    BY <2>1, <2>2, LedgerKept
<1>3. CASE DestroyCancel(p)
  <2>1. UNCHANGED memory
    BY <1>3 DEF DestroyCancel, memory
  <2>2. owner' = owner
    BY <1>3 DEF DestroyCancel
  <2> QED
    BY <2>1, <2>2, LedgerKept
<1>4. CASE DestroyLock(p)
  <2>1. owner = None /\ (None \in Actors => update[None] = None)
    BY <1>4 DEF Actors, Owners, Updating, DestroyLock, Acquire
  <2>2. \A a \in Actors : update[a] = None
    BY <2>1, Quiet DEF Actors
  <2>3. UNCHANGED memory
    BY <1>4 DEF DestroyLock
  <2> QED
    BY <2>2, <2>3, LedgerKept
<1>5. CASE DestroyZap(p)
  <2>1. owner = "destroy" /\ ("destroy" \in Actors => update["destroy"] = None)
    BY <1>5 DEF TypeOK, LifeOK, Actors, Owners, Updating, DestroyZap, Goes
  <2>2. \A a \in Actors : update[a] = None
    BY <2>1, Quiet DEF Actors
  <2>3. "destroy" \in Actors /\ owner' = "destroy" /\ alloc' = alloc
    BY <1>5, <2>1 DEF Actors, DestroyZap
  <2>4. /\ Cardinality(charged \cap Zapped(p)) + Cardinality(cork \cap {p}) \in Int
        /\ ReadAlloc("destroy",
                     Cardinality(charged \cap Zapped(p)) + Cardinality(cork \cap {p}))
    BY <1>5, ZapCount DEF DestroyZap
  <2>5. Charges' = Charges - (Cardinality(charged \cap Zapped(p)) + Cardinality(cork \cap {p}))
    <3>1. charged' = charged \ Zapped(p) /\ cork' = cork \ {p} /\ UNCHANGED native
      BY <1>5 DEF DestroyZap
    <3>2. Cardinality(charged') = Cardinality(charged) - Cardinality(charged \cap Zapped(p))
      BY <3>1, Counts, FS_Difference
    <3>3. Cardinality(cork') = Cardinality(cork) - Cardinality(cork \cap {p})
      BY <3>1, Counts, FS_Difference
    <3>4. Cardinality(charged \cap Zapped(p)) \in Nat /\ Cardinality(cork \cap {p}) \in Nat
      BY Counts, FS_Subset, FS_CardinalityType
    <3> QED
      BY <3>1, <3>2, <3>3, <3>4, Counts DEF Charges, Native
  <2> QED
    BY <2>2, <2>3, <2>4, <2>5, LedgerRead
<1>6. CASE DestroyEnd(p)
  <2>1. "destroy" \in Actors /\ update["destroy"] # None
    BY <1>6 DEF Actors, Updating, DestroyEnd, Goes
  <2>2. WriteAlloc("destroy")
    BY <1>6 DEF DestroyEnd
  <2> QED
    BY <2>1, <2>2, LedgerWrite
<1> QED
  BY <1>1, <1>2, <1>3, <1>4, <1>5, <1>6 DEF Removal

LEMMA LedgerStep ==
  ASSUME Inv, TypeOK', Next
  PROVE  Ledger'
<1>1. ASSUME NEW p \in Psocks, Worker(p) \/ WorkAgain(p) \/ WorkError(p) PROVE Ledger'
  BY <1>1, WorkerLedger DEF Inv
<1>2. ASSUME NEW p \in Psocks, Unlink(p) \/ Removal(p) PROVE Ledger'
  BY <1>2, LinkLedger, RemovalLedger DEF Inv
<1>3. ASSUME NEW s \in Skbs, RedirectQueue(s) PROVE Ledger'
  BY <1>3, QueueLedger DEF Inv
<1>4. CASE RedirectFind \/ Receive \/ ReceiveEnd
  BY <1>4, ReceiveLedger DEF Inv
<1>5. CASE CallBegin \/ Call
  BY <1>5, CallLedger DEF Inv
<1>6. CASE CloseBegin \/ Close
  BY <1>6, CloseLedger DEF Inv
<1>7. CASE Link
  <2>1. PICK p \in Psocks : TRUE
    BY <1>7 DEF Link, Inv, TypeOK, LifeOK
  <2> QED
    BY <1>7, <2>1, LinkLedger DEF Inv
<1> QED
  BY <1>1, <1>2, <1>3, <1>4, <1>5, <1>6, <1>7 DEF Next

LEMMA ReceiveNoEgress ==
  ASSUME TypeOK, NoEgress,
         RedirectFind \/ Receive \/ ReceiveEnd
  PROVE  NoEgress'
  BY DEF NoEgress, RedirectFind, Receive, ReceiveEnd, life, memory, run, bounds, Acquire,
         ReadAlloc, queues, WriteAlloc

LEMMA QueueNoEgress ==
  ASSUME TypeOK, NoEgress,
         NEW s \in Skbs, RedirectQueue(s)
  PROVE  NoEgress'
  BY DEF NoEgress, RedirectQueue, life, memory, bounds

LEMMA WorkerNoEgress ==
  ASSUME TypeOK, NoEgress,
         NEW p \in Psocks, Worker(p) \/ WorkAgain(p) \/ WorkError(p)
  PROVE  NoEgress'
  BY DEF NoEgress, Worker, WorkStart, WorkPin, WorkPeek, WorkLock, WorkSend, WorkCharge,
         WorkCharged, WorkPublish, WorkFree, WorkFreed, WorkUnlock, WorkPut, WorkAgain,
              WorkError,
         At, life, queues, memory, bounds, Pin, Acquire, ReadAlloc, WriteAlloc, Held, Unlocked,
         Put

LEMMA CallNoEgress ==
  ASSUME TypeOK, NoEgress,
         CallBegin \/ Call
  PROVE  NoEgress'
  BY DEF NoEgress, Call, CallBegin, CallLock, CallReceive, CallSend, CallUpdate, CallEnd, Idle,
         life, queues, memory, run, Acquire, bounds, ReadAlloc, WriteAlloc, Put

LEMMA CloseNoEgress ==
  ASSUME TypeOK, NoEgress,
         CloseBegin \/ Close
  PROVE  NoEgress'
  BY DEF NoEgress, Close, CloseBegin, CloseStop, CloseCork, CloseUpdate, CloseRelease,
         CloseCancel, CloseEnd, Acquire, Idle, life, queues, memory, run, bounds, ReadAlloc,
         WriteAlloc, CancelsUnlocked, Cancelled, Put

LEMMA LinkNoEgress ==
  ASSUME TypeOK, NoEgress,
         NEW p \in Psocks, Link \/ Unlink(p)
  PROVE  NoEgress'
  BY DEF NoEgress, Link, Unlink, queues, memory, run, bounds, Put

LEMMA RemovalNoEgress ==
  ASSUME TypeOK, NoEgress,
         NEW p \in Psocks, Removal(p)
  PROVE  NoEgress'
  BY DEF NoEgress, Removal, Detach, Stop, DestroyCancel, DestroyLock, DestroyZap, DestroyEnd,
         Goes, queues, memory, run, bounds, Cancelled, Acquire, ReadAlloc, WriteAlloc

LEMMA NoEgressStep ==
  ASSUME Inv, Next
  PROVE  NoEgress'
<1>1. ASSUME NEW p \in Psocks, Worker(p) \/ WorkAgain(p) \/ WorkError(p) PROVE NoEgress'
  BY <1>1, WorkerNoEgress DEF Inv
<1>2. ASSUME NEW p \in Psocks, Unlink(p) \/ Removal(p) PROVE NoEgress'
  BY <1>2, LinkNoEgress, RemovalNoEgress DEF Inv
<1>3. ASSUME NEW s \in Skbs, RedirectQueue(s) PROVE NoEgress'
  BY <1>3, QueueNoEgress DEF Inv
<1>4. CASE RedirectFind \/ Receive \/ ReceiveEnd
  BY <1>4, ReceiveNoEgress DEF Inv
<1>5. CASE CallBegin \/ Call
  BY <1>5, CallNoEgress DEF Inv
<1>6. CASE CloseBegin \/ Close
  BY <1>6, CloseNoEgress DEF Inv
<1>7. CASE Link
  <2>1. PICK p \in Psocks : TRUE
    BY <1>7 DEF Link, Inv, TypeOK, LifeOK
  <2> QED
    BY <1>7, <2>1, LinkNoEgress DEF Inv
<1> QED
  BY <1>1, <1>2, <1>3, <1>4, <1>5, <1>6, <1>7 DEF Next

-----------------------------------------------------------------------------
(* Queues *)

LEMMA Elements ==
  ASSUME NEW S, NEW q \in Seq(S)
  PROVE  /\ q # <<>> => Head(q) \in Elems(q) /\ Elems(q) \subseteq Elems(Tail(q)) \cup {Head(q)}
         /\ \A s \in S : Elems(q) \subseteq Elems(Append(q, s)) /\ s \in Elems(Append(q, s))
<1>1. ASSUME q # <<>>
      PROVE  Head(q) \in Elems(q) /\ Elems(q) \subseteq Elems(Tail(q)) \cup {Head(q)}
  <2>1. Len(q) \in Nat /\ Len(q) >= 1 /\ DOMAIN q = 1..Len(q) /\ Head(q) = q[1]
    BY <1>1
  <2>2. DOMAIN Tail(q) = 1..(Len(q) - 1) /\ \A i \in 1..(Len(q) - 1) : Tail(q)[i] = q[i + 1]
    BY <1>1
  <2>3. ASSUME NEW i \in 1..Len(q), i # 1 PROVE q[i] \in Elems(Tail(q))
    <3>1. i - 1 \in 1..(Len(q) - 1) /\ Tail(q)[i - 1] = q[i]
      BY <2>1, <2>2, <2>3
    <3> QED
      BY <2>2, <3>1 DEF Elems
  <2> QED
    BY <2>1, <2>3 DEF Elems
<1>2. ASSUME NEW s \in S
      PROVE  Elems(q) \subseteq Elems(Append(q, s)) /\ s \in Elems(Append(q, s))
  <2>1. Len(q) \in Nat /\ DOMAIN q = 1..Len(q) /\ DOMAIN Append(q, s) = 1..(Len(q) + 1)
    OBVIOUS
  <2>2. Append(q, s)[Len(q) + 1] = s /\ \A i \in 1..Len(q) : Append(q, s)[i] = q[i]
    OBVIOUS
  <2>3. Len(q) + 1 \in 1..(Len(q) + 1) /\ 1..Len(q) \subseteq 1..(Len(q) + 1)
    BY <2>1
  <2> QED
    BY <2>1, <2>2, <2>3 DEF Elems
<1> QED
  BY <1>1, <1>2

LEMMA ReceiveQueued ==
  ASSUME TypeOK, Callers, Workers, ChargedIsQueued,
         RedirectFind \/ Receive \/ ReceiveEnd
  PROVE  ChargedIsQueued'
<1>1. CASE RedirectFind
  <2>1. UNCHANGED <<ingress, msgs, charged>>
    BY <1>1 DEF RedirectFind, memory
  <2> QED
    BY <2>1 DEF ChargedIsQueued, Queued
<1>2. CASE Receive
  <2>1. UNCHANGED <<ingress, msgs, charged>>
    BY <1>2 DEF Receive, queues
  <2> QED
    BY <2>1 DEF ChargedIsQueued, Queued
<1>3. CASE ReceiveEnd
  <2>1. UNCHANGED <<ingress, msgs, charged>>
    BY <1>3 DEF ReceiveEnd, WriteAlloc, queues
  <2> QED
    BY <2>1 DEF ChargedIsQueued, Queued
<1> QED
  BY <1>1, <1>2, <1>3

LEMMA QueueQueued ==
  ASSUME TypeOK, Callers, Workers, ChargedIsQueued,
         NEW s \in Skbs, RedirectQueue(s)
  PROVE  ChargedIsQueued'
<1>1. CASE RedirectQueue(s)
  <2>1. redir \in Psocks /\ ingress[redir] \in Seq(Skbs) /\ UNCHANGED <<msgs, charged>>
    BY <1>1 DEF TypeOK, QueuesOK, RedirectQueue, memory
  <2>2. Elems(ingress[redir]) \subseteq Elems(Append(ingress[redir], s))
    BY <2>1, Elements
  <2>3. \/ ingress' = [ingress EXCEPT ![redir] = Append(ingress[redir], s)]
        \/ UNCHANGED ingress
    BY <1>1 DEF RedirectQueue
  <2>4. \A q \in Psocks : Elems(ingress[q]) \subseteq Elems(ingress'[q])
    BY <2>1, <2>2, <2>3 DEF TypeOK, QueuesOK
  <2> QED
    BY <2>1, <2>4 DEF ChargedIsQueued, Queued
<1> QED
  BY <1>1

LEMMA WorkerQueued ==
  ASSUME TypeOK, Callers, Workers, ChargedIsQueued,
         NEW p \in Psocks, Worker(p) \/ WorkAgain(p) \/ WorkError(p)
  PROVE  ChargedIsQueued'
<1>1. CASE WorkStart(p)
  <2>1. UNCHANGED <<ingress, msgs, charged>>
    BY <1>1 DEF WorkStart, queues, memory
  <2> QED
    BY <2>1 DEF ChargedIsQueued, Queued
<1>2. CASE WorkPin(p)
  <2>1. UNCHANGED <<ingress, msgs, charged>>
    BY <1>2 DEF WorkPin, queues, memory
  <2> QED
    BY <2>1 DEF ChargedIsQueued, Queued
<1>3. CASE WorkPeek(p)
  <2>1. UNCHANGED <<ingress, msgs, charged>>
    BY <1>3 DEF WorkPeek, queues, memory
  <2> QED
    BY <2>1 DEF ChargedIsQueued, Queued
<1>4. CASE WorkLock(p)
  <2>1. UNCHANGED <<ingress, msgs, charged>>
    BY <1>4 DEF WorkLock, queues, memory
  <2> QED
    BY <2>1 DEF ChargedIsQueued, Queued
<1>5. CASE WorkSend(p)
  <2>1. UNCHANGED <<ingress, msgs, charged>>
    BY <1>5 DEF WorkSend, queues, memory
  <2> QED
    BY <2>1 DEF ChargedIsQueued, Queued
<1>6. CASE WorkCharge(p)
  <2> DEFINE s == Head(ingress[p])
  <2>1. ingress[p] \in Seq(Skbs) /\ ingress[p] # <<>> /\ UNCHANGED <<ingress, msgs>>
    BY <1>6 DEF TypeOK, QueuesOK, Workers, WorkerOK, Busy, WorkCharge, queues
  <2>2. s \in Elems(ingress[p])
    BY <2>1, Elements
  <2>3. charged' \subseteq charged \cup {s}
    BY <1>6 DEF WorkCharge
  <2> QED
    BY <2>1, <2>2, <2>3 DEF ChargedIsQueued, Queued
<1>7. CASE WorkCharged(p)
  <2>1. UNCHANGED <<ingress, msgs, charged>>
    BY <1>7 DEF WorkCharged, WriteAlloc, queues
  <2> QED
    BY <2>1 DEF ChargedIsQueued, Queued
<1>8. CASE WorkPublish(p)
  <2> DEFINE s == Head(ingress[p])
  <2>1. s \in Skbs /\ msgs[p] \in Seq(Skbs) /\ UNCHANGED <<ingress, charged>>
    BY <1>8 DEF TypeOK, QueuesOK, Workers, WorkerOK, Busy, WorkPublish, At, memory
  <2>2. Elems(msgs[p]) \subseteq Elems(Append(msgs[p], s))
    BY <2>1, Elements
  <2>3. msgs' = [msgs EXCEPT ![p] = Append(msgs[p], s)] \/ UNCHANGED msgs
    BY <1>8 DEF WorkPublish
  <2> HIDE DEF s
  <2>4. \A q \in Psocks : Elems(msgs[q]) \subseteq Elems(msgs'[q])
    BY <2>1, <2>2, <2>3 DEF TypeOK, QueuesOK
  <2> QED
    BY <2>1, <2>4 DEF ChargedIsQueued, Queued
<1>9. CASE WorkFree(p)
  <2> DEFINE s == Head(ingress[p])
  <2>1. p \in Psocks /\ ingress[p] \in Seq(Skbs) /\ ingress[p] # <<>> /\ UNCHANGED msgs
    BY <1>9 DEF TypeOK, QueuesOK, Workers, WorkerOK, Busy, WorkFree
  <2>2. Elems(ingress[p]) \subseteq Elems(Tail(ingress[p])) \cup {s}
    BY <2>1, Elements
  <2>3. ingress' = [ingress EXCEPT ![p] = Tail(ingress[p])]
    BY <1>9 DEF WorkFree
  <2>4. \/ Queued(msgs, s) /\ charged' = charged
        \/ charged' = charged \ {s}
    BY <1>9 DEF WorkFree
  <2> HIDE DEF s
  <2>5. ASSUME NEW x, Queued(ingress, x), x # s PROVE Queued(ingress, x)'
    <3>1. PICK r \in Psocks : x \in Elems(ingress[r])
      BY <2>5 DEF Queued
    <3>2. x \in Elems(ingress'[r])
      BY <2>1, <2>2, <2>3, <2>5, <3>1 DEF TypeOK, QueuesOK
    <3> QED
      BY <3>2 DEF Queued
  <2>6. \A x : Queued(msgs, x) => Queued(msgs, x)'
    BY <2>1 DEF Queued
  <2> QED
    BY <2>4, <2>5, <2>6 DEF ChargedIsQueued
<1>10. CASE WorkFreed(p)
  <2>1. UNCHANGED <<ingress, msgs, charged>>
    BY <1>10 DEF WorkFreed, WriteAlloc, queues
  <2> QED
    BY <2>1 DEF ChargedIsQueued, Queued
<1>11. CASE WorkUnlock(p)
  <2>1. UNCHANGED <<ingress, msgs, charged>>
    BY <1>11 DEF WorkUnlock, queues, memory
  <2> QED
    BY <2>1 DEF ChargedIsQueued, Queued
<1>12. CASE WorkPut(p)
  <2>1. UNCHANGED <<ingress, msgs, charged>>
    BY <1>12 DEF WorkPut, queues, memory
  <2> QED
    BY <2>1 DEF ChargedIsQueued, Queued
<1>13. CASE WorkAgain(p)
  <2>1. UNCHANGED <<ingress, msgs, charged>>
    BY <1>13 DEF WorkAgain, queues, memory
  <2> QED
    BY <2>1 DEF ChargedIsQueued, Queued
<1>14. CASE WorkError(p)
  <2>1. UNCHANGED <<ingress, msgs, charged>>
    BY <1>14 DEF WorkError, queues, memory
  <2> QED
    BY <2>1 DEF ChargedIsQueued, Queued
<1> QED
  BY <1>1, <1>2, <1>3, <1>4, <1>5, <1>6, <1>7, <1>8, <1>9, <1>10, <1>11, <1>12, <1>13, <1>14 DEF
         Worker

LEMMA CallQueued ==
  ASSUME TypeOK, Callers, Workers, ChargedIsQueued,
         CallBegin \/ Call
  PROVE  ChargedIsQueued'
<1>1. CASE CallBegin
  <2>1. UNCHANGED <<ingress, msgs, charged>>
    BY <1>1 DEF CallBegin, queues, memory
  <2> QED
    BY <2>1 DEF ChargedIsQueued, Queued
<1>2. CASE CallLock
  <2>1. UNCHANGED <<ingress, msgs, charged>>
    BY <1>2 DEF CallLock, queues, memory
  <2> QED
    BY <2>1 DEF ChargedIsQueued, Queued
<1>3. CASE CallReceive
  <2> DEFINE s == Head(msgs[app.psock])
  <2>1. /\ app.psock \in Psocks /\ msgs[app.psock] \in Seq(Skbs) /\ msgs[app.psock] # <<>>
        /\ UNCHANGED ingress
    BY <1>3 DEF TypeOK, QueuesOK, ControlOK, Callers, CallReceive
  <2>2. Elems(msgs[app.psock]) \subseteq Elems(Tail(msgs[app.psock])) \cup {s}
    BY <2>1, Elements
  <2>3. msgs' = [msgs EXCEPT ![app.psock] = Tail(msgs[app.psock])]
    BY <1>3 DEF CallReceive
  <2>4. \/ Queued(ingress, s) /\ charged' = charged
        \/ charged' = charged \ {s}
    BY <1>3 DEF CallReceive
  <2> HIDE DEF s
  <2>5. ASSUME NEW x, Queued(msgs, x), x # s PROVE Queued(msgs, x)'
    <3>1. PICK r \in Psocks : x \in Elems(msgs[r])
      BY <2>5 DEF Queued
    <3>2. x \in Elems(msgs'[r])
      BY <2>1, <2>2, <2>3, <2>5, <3>1 DEF TypeOK, QueuesOK
    <3> QED
      BY <3>2 DEF Queued
  <2>6. \A x : Queued(ingress, x) => Queued(ingress, x)'
    BY <2>1 DEF Queued
  <2> QED
    BY <2>4, <2>5, <2>6 DEF ChargedIsQueued
<1>4. CASE CallSend
  <2>1. UNCHANGED <<ingress, msgs, charged>>
    BY <1>4 DEF CallSend, queues
  <2> QED
    BY <2>1 DEF ChargedIsQueued, Queued
<1>5. CASE CallUpdate
  <2>1. UNCHANGED <<ingress, msgs, charged>>
    BY <1>5 DEF CallUpdate, WriteAlloc, queues
  <2> QED
    BY <2>1 DEF ChargedIsQueued, Queued
<1>6. CASE CallEnd
  <2>1. UNCHANGED <<ingress, msgs, charged>>
    BY <1>6 DEF CallEnd, queues, memory
  <2> QED
    BY <2>1 DEF ChargedIsQueued, Queued
<1> QED
  BY <1>1, <1>2, <1>3, <1>4, <1>5, <1>6 DEF Call

LEMMA CloseQueued ==
  ASSUME TypeOK, Callers, Workers, ChargedIsQueued,
         CloseBegin \/ Close
  PROVE  ChargedIsQueued'
<1>1. CASE CloseBegin
  <2>1. UNCHANGED <<ingress, msgs, charged>>
    BY <1>1 DEF CloseBegin, queues, memory
  <2> QED
    BY <2>1 DEF ChargedIsQueued, Queued
<1>2. CASE CloseStop
  <2>1. UNCHANGED <<ingress, msgs, charged>>
    BY <1>2 DEF CloseStop, queues, memory
  <2> QED
    BY <2>1 DEF ChargedIsQueued, Queued
<1>3. CASE CloseCork
  <2>1. UNCHANGED <<ingress, msgs, charged>>
    BY <1>3 DEF CloseCork, queues
  <2> QED
    BY <2>1 DEF ChargedIsQueued, Queued
<1>4. CASE CloseUpdate
  <2>1. UNCHANGED <<ingress, msgs, charged>>
    BY <1>4 DEF CloseUpdate, WriteAlloc, queues
  <2> QED
    BY <2>1 DEF ChargedIsQueued, Queued
<1>5. CASE CloseRelease
  <2>1. UNCHANGED <<ingress, msgs, charged>>
    BY <1>5 DEF CloseRelease, queues, memory
  <2> QED
    BY <2>1 DEF ChargedIsQueued, Queued
<1>6. CASE CloseCancel
  <2>1. UNCHANGED <<ingress, msgs, charged>>
    BY <1>6 DEF CloseCancel, queues, memory
  <2> QED
    BY <2>1 DEF ChargedIsQueued, Queued
<1>7. CASE CloseEnd
  <2>1. UNCHANGED <<ingress, msgs, charged>>
    BY <1>7 DEF CloseEnd, queues, memory
  <2> QED
    BY <2>1 DEF ChargedIsQueued, Queued
<1> QED
  BY <1>1, <1>2, <1>3, <1>4, <1>5, <1>6, <1>7 DEF Close

LEMMA LinkQueued ==
  ASSUME TypeOK, Callers, Workers, ChargedIsQueued,
         NEW p \in Psocks, Link \/ Unlink(p)
  PROVE  ChargedIsQueued'
<1>1. CASE Link
  <2>1. UNCHANGED <<ingress, msgs, charged>>
    BY <1>1 DEF Link, queues, memory
  <2> QED
    BY <2>1 DEF ChargedIsQueued, Queued
<1>2. CASE Unlink(p)
  <2>1. UNCHANGED <<ingress, msgs, charged>>
    BY <1>2 DEF Unlink, queues, memory
  <2> QED
    BY <2>1 DEF ChargedIsQueued, Queued
<1> QED
  BY <1>1, <1>2

LEMMA RemovalQueued ==
  ASSUME TypeOK, Callers, Workers, ChargedIsQueued,
         NEW p \in Psocks, Removal(p)
  PROVE  ChargedIsQueued'
<1>1. CASE Detach(p)
  <2>1. UNCHANGED <<ingress, msgs, charged>>
    BY <1>1 DEF Detach, queues, memory
  <2> QED
    BY <2>1 DEF ChargedIsQueued, Queued
<1>2. CASE Stop(p)
  <2>1. UNCHANGED <<ingress, msgs, charged>>
    BY <1>2 DEF Stop, queues, memory
  <2> QED
    BY <2>1 DEF ChargedIsQueued, Queued
<1>3. CASE DestroyCancel(p)
  <2>1. UNCHANGED <<ingress, msgs, charged>>
    BY <1>3 DEF DestroyCancel, queues, memory
  <2> QED
    BY <2>1 DEF ChargedIsQueued, Queued
<1>4. CASE DestroyLock(p)
  <2>1. UNCHANGED <<ingress, msgs, charged>>
    BY <1>4 DEF DestroyLock, queues, memory
  <2> QED
    BY <2>1 DEF ChargedIsQueued, Queued
<1>5. CASE DestroyZap(p)
  <2>1. /\ ingress' = [ingress EXCEPT ![p] = <<>>] /\ msgs' = [msgs EXCEPT ![p] = <<>>]
        /\ charged' = charged \ Zapped(p)
    BY <1>5 DEF DestroyZap
  <2>2. ASSUME NEW s \in charged', NEW q \in Psocks,
               s \in Elems(ingress[q]) \/ s \in Elems(msgs[q])
        PROVE  s \in Elems(ingress'[q]) \/ s \in Elems(msgs'[q])
    <3>1. q # p
      BY <2>1, <2>2 DEF Zapped
    <3> QED
      BY <2>1, <2>2, <3>1 DEF TypeOK, QueuesOK
  <2> QED
    BY <2>1, <2>2 DEF ChargedIsQueued, Queued
<1>6. CASE DestroyEnd(p)
  <2>1. UNCHANGED <<ingress, msgs, charged>>
    BY <1>6 DEF DestroyEnd, WriteAlloc, queues
  <2> QED
    BY <2>1 DEF ChargedIsQueued, Queued
<1> QED
  BY <1>1, <1>2, <1>3, <1>4, <1>5, <1>6 DEF Removal

LEMMA ChargedIsQueuedStep ==
  ASSUME Inv, Next
  PROVE  ChargedIsQueued'
<1>1. ASSUME NEW p \in Psocks, Worker(p) \/ WorkAgain(p) \/ WorkError(p) PROVE ChargedIsQueued'
  BY <1>1, WorkerQueued DEF Inv
<1>2. ASSUME NEW p \in Psocks, Unlink(p) \/ Removal(p) PROVE ChargedIsQueued'
  BY <1>2, LinkQueued, RemovalQueued DEF Inv
<1>3. ASSUME NEW s \in Skbs, RedirectQueue(s) PROVE ChargedIsQueued'
  BY <1>3, QueueQueued DEF Inv
<1>4. CASE RedirectFind \/ Receive \/ ReceiveEnd
  BY <1>4, ReceiveQueued DEF Inv
<1>5. CASE CallBegin \/ Call
  BY <1>5, CallQueued DEF Inv
<1>6. CASE CloseBegin \/ Close
  BY <1>6, CloseQueued DEF Inv
<1>7. CASE Link
  <2>1. PICK p \in Psocks : TRUE
    BY <1>7 DEF Link, Inv, TypeOK, LifeOK
  <2> QED
    BY <1>7, <2>1, LinkQueued DEF Inv
<1> QED
  BY <1>1, <1>2, <1>3, <1>4, <1>5, <1>6, <1>7 DEF Next

-----------------------------------------------------------------------------
(* Theorems *)

LEMMA OneOrNone ==
  ASSUME NEW S, NEW p
  PROVE  Cardinality(S \cap {p}) = IF p \in S THEN 1 ELSE 0
<1>1. CASE p \in S
  <2>1. S \cap {p} = {p}
    BY <1>1
  <2>2. Cardinality({p}) = 1
    BY FS_Singleton
  <2> QED
    BY <1>1, <2>1, <2>2
<1>2. CASE p \notin S
  <2>1. S \cap {p} = {}
    BY <1>2
  <2>2. Cardinality({}) = 0
    BY FS_EmptySet
  <2> QED
    BY <1>2, <2>1, <2>2
<1> QED
  BY <1>1, <1>2

LEMMA Holders == RefsExact <=> RefsHeld
<1>1. \A p \in Psocks : Cardinality(linked \cap {p}) = IF p \in linked THEN 1 ELSE 0
  BY OneOrNone
<1>2. ASSUME NEW p \in Psocks
      PROVE  Uses(p) = Cardinality(linked \cap {p}) + (IF work[p] \in Working THEN 1 ELSE 0)
              + (IF app.psock = p THEN 1 ELSE 0) + (IF close.psock = p THEN 1 ELSE 0)
  BY <1>1 DEF Uses
<1> QED
  BY <1>2 DEF RefsExact, RefsHeld

-----------------------------------------------------------------------------
LEMMA Step == Inv /\ [Next]_vars => Inv'
<1> SUFFICES ASSUME Inv, [Next]_vars PROVE Inv'
  OBVIOUS
<1>1. CASE Next
  <2>1. TypeOK' /\ Callers' /\ NoEgress' /\ Stages' /\ Workers' /\ ChargedIsQueued'
    BY <1>1, TypeStep, CallersStep, NoEgressStep, StagesStep, WorkersStep, ChargedIsQueuedStep
  <2>2. RefsHeld' /\ Alive' /\ Owners' /\ Updating' /\ Ledger'
    BY <1>1, <2>1, UsesStep, OwnersStep, UpdatingStep, LedgerStep
  <2> QED
    BY <2>1, <2>2 DEF Inv
<1>2. CASE UNCHANGED vars
  <2>1. /\ UNCHANGED <<cur, phase, refs, linked, tx, ingress, msgs, cork, pending, work>>
        /\ UNCHANGED <<owner, alloc, update, charged, native, fresh, redir, app, close>>
        /\ UNCHANGED <<calls, agains>>
    BY <1>2 DEF vars, life, queues, run, memory, bounds
  <2>2. TypeOK'
    BY <2>1 DEF Inv, TypeOK, LifeOK, QueuesOK, MemoryOK, ControlOK
  <2>3. Callers' /\ Alive' /\ NoEgress'
    BY <2>1 DEF Inv, Callers, Alive, NoEgress
  <2>4. RefsHeld'
    BY <2>1 DEF Inv, RefsHeld, Uses
  <2>5. Stages'
    BY <2>1 DEF Inv, Stages, StageOK
  <2>6. Workers'
    BY <2>1 DEF Inv, Workers, WorkerOK, Busy
  <2>7. Owners' /\ Updating'
    BY <2>1 DEF Inv, Owners, Updating
  <2>8. Ledger'
    BY <2>1 DEF Inv, Ledger, Charges, Native
  <2>9. ChargedIsQueued'
    BY <2>1 DEF Inv, ChargedIsQueued, Queued
  <2> QED
    BY <2>2, <2>3, <2>4, <2>5, <2>6, <2>7, <2>8, <2>9 DEF Inv
<1> QED
  BY <1>1, <1>2

(* The inductive invariant: references, removal stages, lock ownership     *)
(* and the two halves of an update of sk_forward_alloc.                    *)
THEOREM Invariance == Spec => []Inv
  BY Initially, Step, PTL DEF Spec

(* Every variable keeps its type and no reference count goes below zero,   *)
(* however many psocks, skbs, calls and retries there are.                 *)
THEOREM TypeCorrect == Spec => []TypeOK
<1>1. Inv => TypeOK
  BY DEF Inv
<1> QED
  BY <1>1, Invariance, PTL

(* References to psocks are exactly those of the map, the workers, the     *)
(* application and close: the worker drops the one it took.                *)
THEOREM RefsAreExact == Spec => []RefsExact
<1>1. Inv => RefsExact
  BY Holders DEF Inv
<1> QED
  BY <1>1, Invariance, PTL

(* No update of sk_forward_alloc is lost, whoever makes it.                *)
THEOREM LedgerIsExact == Spec => []LedgerExact
<1>1. Inv => LedgerExact
  <2>1. Native = IF native THEN 1 ELSE 0
    BY DEF Native
  <2> QED
    BY <2>1 DEF Inv, Ledger, LedgerExact, Charges
<1> QED
  BY <1>1, Invariance, PTL

(* A psock is freed with nothing in it, and nobody uses it any more.       *)
THEOREM NothingUsesTheFreed == Spec => []FreedUnused
<1>1. Inv => FreedUnused
  <2> SUFFICES ASSUME Inv, NEW p \in Psocks, phase[p] = "freed"
               PROVE  /\ ingress[p] = <<>> /\ msgs[p] = <<>> /\ p \notin cork
                      /\ work[p] = "idle" /\ p \notin pending
                      /\ cur # p /\ redir # p /\ app.psock # p /\ close.psock # p
    BY DEF FreedUnused
  <2>1. refs[p] = 0
    BY DEF Inv, TypeOK, LifeOK, Alive
  <2>2. app.psock # p /\ close.psock # p
    BY <2>1 DEF Inv, RefsHeld, Uses
  <2> QED
    BY <2>2 DEF Inv, Stages, StageOK
<1> QED
  BY <1>1, Invariance, PTL

(* Whatever is charged to the socket is in one of its queues.              *)
THEOREM ChargesAreQueued == Spec => []ChargedIsQueued
<1>1. Inv => ChargedIsQueued
  BY DEF Inv
<1> QED
  BY <1>1, Invariance, PTL
============================================================================
