----------------------------- MODULE PsockWork -----------------------------
(***************************************************************************)
(* The psocks of one TCP socket S in a sockmap, after the three patches of *)
(* sockmap_redirect/patches-v2: the backlog worker of each psock, deletion *)
(* from the map and reinsertion, close and the destroy work, and the one   *)
(* integer they all update, sk_forward_alloc, which nothing but the socket *)
(* lock protects.  Every update of it is a read and a later write.         *)
(*                                                                         *)
(* A definition marked "Faulty" is no part of the specification: it is the *)
(* next definition with a slip.                                            *)
(***************************************************************************)
EXTENDS Integers, Sequences, FiniteSets

CONSTANTS
  Psocks,   \* psocks that S can be given, one after the other
  Skbs,     \* skbs that can be redirected to S
  Egress,   \* those redirected without BPF_F_INGRESS
  MaxRedirects, \* bound: skbs that are redirected
  MaxCalls, \* bound: calls of the application
  MaxAgain, \* bound: -EAGAIN of the worker
  None

ASSUME PsockAssumption ==
  /\ Egress \subseteq Skbs /\ MaxRedirects \in Nat /\ MaxCalls \in Nat /\ MaxAgain \in Nat
  /\ IsFiniteSet(Psocks) /\ IsFiniteSet(Skbs)
  /\ Psocks \cap {"destroy", "app", "rx", "close"} = {}
  /\ None \notin Psocks \cup {"destroy", "app", "rx", "close"} /\ None \notin Int

VARIABLES
  cur,      \* S->sk_user_data
  phase,    \* psock -> "new", "live", then the stages of its removal
  refs,     \* psock -> refcnt
  linked,   \* psocks with a link of a map
  tx,       \* psocks with SK_PSOCK_TX_ENABLED
  ingress,  \* psock -> ingress_skb
  msgs,     \* psock -> skbs of ingress_msg
  cork,     \* psocks with a cork
  pending,  \* psocks whose work is queued
  work,     \* psock -> where its worker is
  owner,    \* who has lock_sock(S)
  alloc,    \* sk_forward_alloc
  update,   \* the values that are about to be written to it, or None
  charged,  \* skbs with destructor sock_rfree and owner S
  native,   \* whether TCP itself has something charged
  fresh,    \* skbs not redirected yet
  redir,    \* the psock a redirecting CPU has found under RCU
  app,      \* the application: the psock it has a reference to and its place
  close,    \* sock_map_close: the same
  calls, agains

queues == <<ingress, msgs, fresh, redir>>
memory == <<alloc, update, charged, native, cork>>
life   == <<cur, phase, linked>>
run    == <<pending, work>>
bounds == <<calls, agains>>
vars   == <<life, refs, tx, queues, run, owner, memory, app, close, bounds>>

(* Who may own S: a worker, a destroy work, ... *)
Actors == Psocks \cup {"destroy", "app", "rx", "close"}

Idle == [psock |-> None, at |-> "idle"]

(* Where a worker holds its reference and may use sk_socket. *)
Working == {"loop", "lock", "handle", "charge", "publish", "free", "freed", "unlock", "put"}

LifeOK ==
  /\ cur \in Psocks \cup {None}
  /\ phase \in [Psocks -> {"new", "live", "dropping", "detached", "stopped",
                           "cancelled", "locked", "zapped", "freed"}]
  /\ refs \in [Psocks -> Nat]
  /\ linked \subseteq Psocks /\ tx \subseteq Psocks

QueuesOK ==
  /\ ingress \in [Psocks -> Seq(Skbs)] /\ msgs \in [Psocks -> Seq(Skbs)]
  /\ fresh \subseteq Skbs /\ redir \in Psocks \cup {None}

MemoryOK ==
  /\ alloc \in Int /\ update \in [Actors -> Int \cup {None}]
  /\ charged \subseteq Skbs /\ native \in BOOLEAN /\ cork \subseteq Psocks

ControlOK ==
  /\ pending \subseteq Psocks
  /\ work \in [Psocks -> Working \cup {"idle", "tested"}]
  /\ owner \in Actors \cup {None}
  /\ app \in [psock : Psocks \cup {None}, at : {"idle", "got", "locked", "update", "unlock"}]
  /\ close \in [psock : Psocks \cup {None},
                at : {"idle", "locked", "cork", "update", "cancel", "put", "closed"}]
  /\ calls \in 0..MaxCalls /\ agains \in 0..MaxAgain

TypeOK == LifeOK /\ QueuesOK /\ MemoryOK /\ ControlOK

Init ==
  /\ cur = None /\ phase = [p \in Psocks |-> "new"] /\ linked = {}
  /\ refs = [p \in Psocks |-> 0] /\ tx = {}
  /\ ingress = [p \in Psocks |-> <<>>] /\ msgs = [p \in Psocks |-> <<>>]
  /\ fresh = Skbs /\ redir = None
  /\ pending = {} /\ work = [p \in Psocks |-> "idle"]
  /\ owner = None
  /\ alloc = 0 /\ update = [a \in Actors |-> None]
  /\ charged = {} /\ native = FALSE /\ cork = {}
  /\ app = Idle /\ close = Idle
  /\ calls = 0 /\ agains = 0

-----------------------------------------------------------------------------
(* Shared steps *)

Elems(s) == {s[i] : i \in DOMAIN s}

(* Who has a reference to an skb. *)
Queued(q, s) == \E p \in Psocks : s \in Elems(q[p])

(* sk_forward_alloc_add: the value read plus n is written by the next step. *)
ReadAlloc(who, n) == update' = [update EXCEPT ![who] = alloc + n]

WriteAlloc(who) ==
  /\ alloc' = update[who] /\ update' = [update EXCEPT ![who] = None]
  /\ UNCHANGED <<charged, native, cork>>

(* sk_psock_put; whoever drops the last reference runs sk_psock_drop. *)
Put(p) ==
  /\ refs' = [refs EXCEPT ![p] = @ - 1]
  /\ phase' = IF refs[p] = 1 THEN [phase EXCEPT ![p] = "dropping"] ELSE phase

Acquire(who) == owner = None /\ owner' = who

At(p, from, to) == work[p] = from /\ work' = [work EXCEPT ![p] = to]

-----------------------------------------------------------------------------
(* Redirects to S, and TCP's own receive path *)

RedirectFind ==
  /\ redir = None /\ cur # None /\ Cardinality(Skbs \ fresh) < MaxRedirects
  /\ redir' = cur
  /\ UNCHANGED <<life, refs, tx, ingress, msgs, fresh, run, owner, memory, app,
                 close, bounds>>

(* sk_psock_skb_redirect under ingress_lock: the skb is dropped when the   *)
(* psock has been stopped.                                                 *)
RedirectQueue(s) ==
  /\ redir # None /\ s \in fresh
  /\ fresh' = fresh \ {s}
  /\ IF redir \in tx
     THEN /\ ingress' = [ingress EXCEPT ![redir] = Append(@, s)]
          /\ pending' = pending \cup {redir}
     ELSE UNCHANGED <<ingress, pending>>
  /\ redir' = None
  /\ UNCHANGED <<life, refs, tx, msgs, work, owner, memory, app, close, bounds>>

(* tcp_v4_rcv when no process owns S: charge or uncharge. *)
Receive ==
  /\ close.at # "closed"
  /\ Acquire("rx")
  /\ ReadAlloc("rx", IF native THEN 1 ELSE -1)
  /\ native' = ~native
  /\ UNCHANGED <<life, refs, tx, queues, run, alloc, charged, cork, app, close, bounds>>

ReceiveEnd ==
  /\ owner = "rx" /\ owner' = None
  /\ WriteAlloc("rx")
  /\ UNCHANGED <<life, refs, tx, queues, run, app, close, bounds>>

-----------------------------------------------------------------------------
(* sk_psock_backlog *)

WorkStart(p) ==
  /\ p \in pending
  /\ pending' = pending \ {p}
  /\ At(p, "idle", IF p \in tx THEN "tested" ELSE "idle")
  /\ UNCHANGED <<life, refs, tx, queues, owner, memory, app, close, bounds>>

(* Faulty: sk_psock_get(psock->sk), which pins the current psock. *)
PinCurrent(p) == cur

(* The psock the worker pins: its own. *)
Pin(p) == p

WorkPin(p) ==
  /\ IF Pin(p) # None /\ refs[Pin(p)] > 0
     THEN /\ refs' = [refs EXCEPT ![Pin(p)] = @ + 1]
          /\ At(p, "tested", "loop")
     ELSE At(p, "tested", "idle") /\ UNCHANGED refs
  /\ UNCHANGED <<life, tx, queues, pending, owner, memory, app, close, bounds>>

WorkPeek(p) ==
  /\ At(p, "loop", IF ingress[p] = <<>> THEN "put" ELSE "lock")
  /\ UNCHANGED <<life, refs, tx, queues, pending, owner, memory, app, close, bounds>>

(* Faulty: the worker locks for egress, too. *)
LocksAlways(p) == TRUE

(* The worker locks S for ingress; the send path locks S itself. *)
Locks(p) == Head(ingress[p]) \notin Egress

WorkLock(p) ==
  /\ At(p, "lock", "handle")
  /\ IF Locks(p) THEN Acquire(p) ELSE UNCHANGED owner
  /\ UNCHANGED <<life, refs, tx, queues, pending, memory, app, close, bounds>>

(* skb_send_sock locks S for as long as it takes. *)
WorkSend(p) ==
  /\ At(p, "handle", "free") /\ Head(ingress[p]) \in Egress
  /\ owner = None
  /\ UNCHANGED <<life, refs, tx, queues, pending, owner, memory, app, close, bounds>>

(* An skb that an earlier attempt has charged stays as it is. *)
Owned(s) == s \in charged

WorkCharge(p) ==
  LET s == Head(ingress[p]) IN
  /\ work[p] = "handle" /\ s \notin Egress
  /\ IF Owned(s)
     THEN At(p, "handle", "publish") /\ UNCHANGED <<update, charged>>
     ELSE At(p, "handle", "charge") /\ ReadAlloc(p, -1) /\ charged' = charged \cup {s}
  /\ UNCHANGED <<life, refs, tx, queues, pending, owner, alloc, native, cork,
                 app, close, bounds>>

WorkCharged(p) ==
  /\ At(p, "charge", "publish")
  /\ WriteAlloc(p)
  /\ UNCHANGED <<life, refs, tx, queues, pending, owner, app, close, bounds>>

Unlocked(p) == IF owner = p THEN None ELSE owner

(* -EAGAIN, before the charge or after it. *)
WorkAgain(p) ==
  /\ agains < MaxAgain /\ agains' = agains + 1
  /\ At(p, "handle", "put") \/ At(p, "publish", "put")
  /\ pending' = IF p \in tx THEN pending \cup {p} ELSE pending
  /\ owner' = Unlocked(p)
  /\ UNCHANGED <<life, refs, tx, queues, memory, app, close, calls>>

(* A hard error stops the psock. *)
WorkError(p) ==
  /\ At(p, "handle", "put") \/ At(p, "publish", "put")
  /\ tx' = tx \ {p}
  /\ owner' = Unlocked(p)
  /\ UNCHANGED <<life, refs, queues, pending, memory, app, close, bounds>>

(* sk_psock_queue_msg: a stopped psock takes no message. *)
WorkPublish(p) ==
  /\ At(p, "publish", "free")
  /\ msgs' = IF p \in tx THEN [msgs EXCEPT ![p] = Append(@, Head(ingress[p]))] ELSE msgs
  /\ UNCHANGED <<life, refs, tx, ingress, fresh, redir, pending, owner, memory,
                 app, close, bounds>>

(* Faulty: the lock is released before kfree_skb. *)
HeldNot(p) == None

(* The lock, while the worker drops its reference. *)
Held(p) == owner

(* skb_dequeue and kfree_skb; the last reference runs sock_rfree.          *)
WorkFree(p) ==
  LET s == Head(ingress[p]) IN
  /\ work[p] = "free"
  /\ ingress' = [ingress EXCEPT ![p] = Tail(@)]
  /\ IF s \in charged /\ ~Queued(msgs, s)
     THEN At(p, "free", "freed") /\ ReadAlloc(p, 1) /\ charged' = charged \ {s}
     ELSE At(p, "free", "unlock") /\ UNCHANGED <<update, charged>>
  /\ owner' = Held(p)
  /\ UNCHANGED <<life, refs, tx, msgs, fresh, redir, pending, alloc, native,
                 cork, app, close, bounds>>

WorkFreed(p) ==
  /\ At(p, "freed", "unlock")
  /\ WriteAlloc(p)
  /\ UNCHANGED <<life, refs, tx, queues, pending, owner, app, close, bounds>>

WorkUnlock(p) ==
  /\ At(p, "unlock", "loop")
  /\ owner' = Unlocked(p)
  /\ UNCHANGED <<life, refs, tx, queues, pending, memory, app, close, bounds>>

WorkPut(p) ==
  /\ At(p, "put", "idle")
  /\ Put(p)
  /\ UNCHANGED <<cur, linked, tx, queues, pending, owner, memory, app, close, bounds>>

-----------------------------------------------------------------------------
(* The map and the application *)

(* sock_map_link: the current psock, unless its last reference is gone, or *)
(* a new one.                                                              *)
Link ==
  /\ owner = None /\ close.at = "idle" /\ linked = {}
  /\ \/ /\ cur # None /\ refs[cur] > 0
        /\ refs' = [refs EXCEPT ![cur] = @ + 1]
        /\ linked' = {cur}
        /\ UNCHANGED <<cur, phase, tx>>
     \/ \E p \in Psocks :
          /\ cur = None /\ phase[p] = "new"
          /\ cur' = p /\ phase' = [phase EXCEPT ![p] = "live"]
          /\ refs' = [refs EXCEPT ![p] = 1]
          /\ linked' = {p} /\ tx' = tx \cup {p}
  /\ UNCHANGED <<queues, run, owner, memory, app, close, bounds>>

(* sock_map_delete_elem: without the socket lock. *)
Unlink(p) ==
  /\ p \in linked /\ linked' = linked \ {p}
  /\ Put(p)
  /\ UNCHANGED <<cur, tx, queues, run, owner, memory, app, close, bounds>>

(* tcp_bpf_recvmsg_parser and tcp_bpf_sendmsg: sk_psock_get, lock_sock, ...*)
CallBegin ==
  /\ app = Idle /\ close.at = "idle" /\ calls < MaxCalls
  /\ cur # None /\ refs[cur] > 0
  /\ calls' = calls + 1
  /\ refs' = [refs EXCEPT ![cur] = @ + 1]
  /\ app' = [psock |-> cur, at |-> "got"]
  /\ UNCHANGED <<life, tx, queues, run, owner, memory, close, agains>>

CallLock ==
  /\ app.at = "got" /\ Acquire("app")
  /\ app' = [app EXCEPT !.at = "locked"]
  /\ UNCHANGED <<life, refs, tx, queues, run, memory, close, bounds>>

(* ... read a message and drop its reference to the skb, ... *)
CallReceive ==
  LET p == app.psock  s == Head(msgs[p]) IN
  /\ app.at = "locked" /\ msgs[p] # <<>>
  /\ msgs' = [msgs EXCEPT ![p] = Tail(@)]
  /\ IF s \in charged /\ ~Queued(ingress, s)
     THEN /\ app' = [app EXCEPT !.at = "update"]
          /\ ReadAlloc("app", 1) /\ charged' = charged \ {s}
     ELSE app' = [app EXCEPT !.at = "unlock"] /\ UNCHANGED <<update, charged>>
  /\ UNCHANGED <<life, refs, tx, ingress, fresh, redir, run, owner, alloc,
                 native, cork, close, bounds>>

(* ... or cork what is sent, or send what is corked, ... *)
CallSend ==
  LET p == app.psock IN
  /\ app.at = "locked"
  /\ cork' = IF p \in cork THEN cork \ {p} ELSE cork \cup {p}
  /\ ReadAlloc("app", IF p \in cork THEN 1 ELSE -1)
  /\ app' = [app EXCEPT !.at = "update"]
  /\ UNCHANGED <<life, refs, tx, queues, run, owner, alloc, charged, native, close, bounds>>

CallUpdate ==
  /\ app.at = "update" /\ app' = [app EXCEPT !.at = "unlock"]
  /\ WriteAlloc("app")
  /\ UNCHANGED <<life, refs, tx, queues, run, owner, close, bounds>>

(* ... and release_sock and sk_psock_put. *)
CallEnd ==
  /\ app.at \in {"locked", "unlock"} /\ owner = "app"
  /\ owner' = None /\ app' = Idle
  /\ Put(app.psock)
  /\ UNCHANGED <<cur, linked, tx, queues, run, memory, close, bounds>>

-----------------------------------------------------------------------------
(* sock_map_close, when the last descriptor of S is gone *)

CloseBegin ==
  /\ close = Idle /\ app = Idle
  /\ IF cur # None /\ refs[cur] > 0
     THEN /\ Acquire("close")
          /\ refs' = [refs EXCEPT ![cur] = @ + 1]
          /\ close' = [psock |-> cur, at |-> "locked"]
     ELSE /\ owner = None /\ UNCHANGED <<owner, refs>>
          /\ close' = [psock |-> None, at |-> "closed"]
  /\ UNCHANGED <<life, tx, queues, run, memory, app, bounds>>

(* sock_map_remove_links and sk_psock_stop *)
CloseStop ==
  LET p == close.psock IN
  /\ close.at = "locked"
  /\ linked' = linked \ {p}
  /\ refs' = [refs EXCEPT ![p] = @ - (IF p \in linked THEN 1 ELSE 0)]
  /\ tx' = tx \ {p}
  /\ close' = [close EXCEPT !.at = "cork"]
  /\ UNCHANGED <<cur, phase, queues, run, owner, memory, app, bounds>>

(* sk_psock_cork_free *)
CloseCork ==
  LET p == close.psock IN
  /\ close.at = "cork" /\ p \in cork
  /\ cork' = cork \ {p} /\ ReadAlloc("close", 1)
  /\ close' = [close EXCEPT !.at = "update"]
  /\ UNCHANGED <<life, refs, tx, queues, run, owner, alloc, charged, native, app, bounds>>

CloseUpdate ==
  /\ close.at = "update" /\ close' = [close EXCEPT !.at = "cork"]
  /\ WriteAlloc("close")
  /\ UNCHANGED <<life, refs, tx, queues, run, owner, app, bounds>>

(* Faulty: S is still locked while close waits for the worker. *)
CancelsLocked == "close"

(* Who owns S while close waits for the worker. *)
CancelsUnlocked == None

CloseRelease ==
  /\ close.at = "cork" /\ close.psock \notin cork
  /\ owner' = CancelsUnlocked
  /\ close' = [close EXCEPT !.at = "cancel"]
  /\ UNCHANGED <<life, refs, tx, queues, run, memory, app, bounds>>

(* Faulty: cancel_delayed_work, which does not wait. *)
CancelledAsync(p) == pending' = pending \ {p}

(* cancel_delayed_work_sync(&psock->work) *)
Cancelled(p) == work[p] = "idle" /\ pending' = pending \ {p}

CloseCancel ==
  /\ close.at = "cancel" /\ Cancelled(close.psock)
  /\ close' = [close EXCEPT !.at = "put"]
  /\ owner' = IF owner = "close" THEN None ELSE owner
  /\ UNCHANGED <<life, refs, tx, queues, work, memory, app, bounds>>

(* sk_psock_put, and saved_close gives up sk_socket. *)
CloseEnd ==
  /\ close.at = "put" /\ close' = [psock |-> None, at |-> "closed"]
  /\ Put(close.psock)
  /\ UNCHANGED <<cur, linked, tx, queues, run, owner, memory, app, bounds>>

-----------------------------------------------------------------------------
(* sk_psock_drop and sk_psock_destroy *)

Goes(p, from, to) == phase[p] = from /\ phase' = [phase EXCEPT ![p] = to]

Detach(p) ==
  /\ Goes(p, "dropping", "detached")
  /\ cur' = None
  /\ UNCHANGED <<linked, refs, tx, queues, run, owner, memory, app, close, bounds>>

(* sk_psock_stop and queue_rcu_work *)
Stop(p) ==
  /\ Goes(p, "detached", "stopped")
  /\ tx' = tx \ {p}
  /\ UNCHANGED <<cur, linked, refs, queues, run, owner, memory, app, close, bounds>>

(* After a grace period: cancel_delayed_work_sync, then lock_sock. *)
DestroyCancel(p) ==
  /\ redir # p
  /\ Goes(p, "stopped", "cancelled") /\ Cancelled(p)
  /\ UNCHANGED <<cur, linked, refs, tx, queues, work, owner, memory, app, close, bounds>>

DestroyLock(p) ==
  /\ Goes(p, "cancelled", "locked") /\ Acquire("destroy")
  /\ UNCHANGED <<cur, linked, refs, tx, queues, run, memory, app, close, bounds>>

(* Faulty: the skbs of ingress_skb only. *)
ZappedSkbs(p) == Elems(ingress[p])

(* What __sk_psock_zap_ingress drops. *)
Zapped(p) == Elems(ingress[p]) \cup Elems(msgs[p])

(* __sk_psock_zap_ingress and sk_psock_cork_free *)
DestroyZap(p) ==
  /\ Goes(p, "locked", "zapped")
  /\ ingress' = [ingress EXCEPT ![p] = <<>>] /\ msgs' = [msgs EXCEPT ![p] = <<>>]
  /\ charged' = charged \ Zapped(p) /\ cork' = cork \ {p}
  /\ ReadAlloc("destroy", Cardinality(charged \cap Zapped(p)) + Cardinality(cork \cap {p}))
  /\ UNCHANGED <<cur, linked, refs, tx, fresh, redir, run, owner, alloc, native,
                 app, close, bounds>>

DestroyEnd(p) ==
  /\ Goes(p, "zapped", "freed")
  /\ WriteAlloc("destroy") /\ owner' = None
  /\ UNCHANGED <<cur, linked, refs, tx, queues, run, app, close, bounds>>

-----------------------------------------------------------------------------

Worker(p) ==
  \/ WorkStart(p) \/ WorkPin(p) \/ WorkPeek(p) \/ WorkLock(p) \/ WorkSend(p)
  \/ WorkCharge(p) \/ WorkCharged(p) \/ WorkPublish(p)
  \/ WorkFree(p) \/ WorkFreed(p) \/ WorkUnlock(p) \/ WorkPut(p)

Removal(p) ==
  \/ Detach(p) \/ Stop(p)
  \/ DestroyCancel(p) \/ DestroyLock(p) \/ DestroyZap(p) \/ DestroyEnd(p)

Call == CallLock \/ CallReceive \/ CallSend \/ CallUpdate \/ CallEnd

Close ==
  \/ CloseStop \/ CloseCork \/ CloseUpdate
  \/ CloseRelease \/ CloseCancel \/ CloseEnd

Next ==
  \/ RedirectFind \/ (\E s \in Skbs : RedirectQueue(s)) \/ Receive \/ ReceiveEnd
  \/ \E p \in Psocks : Worker(p) \/ WorkAgain(p) \/ WorkError(p) \/ Unlink(p) \/ Removal(p)
  \/ Link \/ CallBegin \/ Call \/ CloseBegin \/ Close

Spec == Init /\ [][Next]_vars

(* Softirqs, started system calls and works go on, and a worker that can   *)
(* lock S does so although the receive path comes back.                    *)
Fairness ==
  /\ WF_vars(ReceiveEnd) /\ WF_vars(\E s \in Skbs : RedirectQueue(s))
  /\ SF_vars(Call) /\ SF_vars(Close)
  /\ \A p \in Psocks : SF_vars(Worker(p)) /\ SF_vars(Removal(p))

FairSpec == Spec /\ Fairness

-----------------------------------------------------------------------------
(* Properties *)

(* No update of sk_forward_alloc is lost and nothing is charged or         *)
(* uncharged twice: when no update is under way it stands for what is      *)
(* charged to S.                                                           *)
LedgerExact ==
  (\A a \in Actors : update[a] = None) =>
    alloc = -(Cardinality(charged) + Cardinality(cork) + (IF native THEN 1 ELSE 0))

(* Every reference to a psock is the map's, its own worker's, that of a    *)
(* system call on S or of close.                                           *)
RefsExact ==
  \A p \in Psocks :
    refs[p] = Cardinality(linked \cap {p}) + (IF work[p] \in Working THEN 1 ELSE 0)
              + (IF app.psock = p THEN 1 ELSE 0) + (IF close.psock = p THEN 1 ELSE 0)

(* A psock is freed with nothing left in it, and with no work, no CPU that *)
(* redirects to it and no system call that uses it.                        *)
FreedUnused ==
  \A p \in Psocks : phase[p] = "freed" =>
    /\ ingress[p] = <<>> /\ msgs[p] = <<>> /\ p \notin cork
    /\ work[p] = "idle" /\ p \notin pending
    /\ cur # p /\ redir # p /\ app.psock # p /\ close.psock # p

(* An skb is charged to S only as long as somebody has a reference to it.  *)
ChargedIsQueued ==
  \A s \in charged : Queued(ingress, s) \/ Queued(msgs, s)

(* close does not wait for a worker that waits for it: it ends, once it    *)
(* has begun.                                                              *)
CloseEnds == []<>(close.at \in {"idle", "closed"})

(* A psock that has lost its last link is freed, or linked again, next to  *)
(* a receive path that goes on: no worker keeps it by waiting for a lock   *)
(* that it has itself.                                                     *)
UnlinkedIsFreed ==
  \A p \in Psocks : []<>(phase[p] \in {"new", "freed"} \/ p \in linked)
=============================================================================
