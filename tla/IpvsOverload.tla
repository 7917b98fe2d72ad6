---------------------------- MODULE IpvsOverload ----------------------------
(***************************************************************************)
(* The OVERLOAD flag of an IPVS destination: binding and unbinding count   *)
(* connections without a lock and take the destination's lock only when    *)
(* they see a threshold crossed, while an edit publishes new thresholds    *)
(* under the lock and samples the count.  Translated from                  *)
(* ipvs-overload-fix/overload-ordering.c, with any number of workers where *)
(* the program has one.                                                    *)
(*                                                                         *)
(* Memory is x86-TSO: a plain store waits in its CPU's store buffer, loads *)
(* see their own CPU's buffered stores first, and a locked instruction or  *)
(* a full fence waits until the buffer has drained.                        *)
(***************************************************************************)
EXTENDS Integers, Sequences

CONSTANTS
  Binders,     \* threads that bind a connection in each epoch
  Unbinders,   \* threads that unbind one
  Editor,      \* the thread that edits the thresholds
  Starts,      \* the destination at the start of an epoch: total, u, l, flags
  Edits,       \* the thresholds an edit may set: records of u and l
  FenceEdit,   \* whether the edit has the full fence (fence_edit)
  MaxEdits     \* edits in an epoch, 1 in the program

Workers == Binders \cup Unbinders
Threads == Workers \cup {Editor}

(* Memory locations: the destination and the threads' "done" words. *)
Fields == {"total", "u", "l", "lv", "flags", "lock"}
Locations == Fields \cup Threads

(* The effective lower threshold: 3/4 of the upper one if none is set. *)
LowValue(th) == IF th.l # 0 THEN th.l ELSE th.u - th.u \div 4

(* Without thresholds (u is 0) the flag is clear, from u on it is set and  *)
(* below the lower threshold it is clear; in between it may be either.     *)
FlagAgrees(flags, u, lv, total) ==
  /\ u = 0 => flags = 0
  /\ u # 0 /\ total >= u => flags = 2
  /\ u # 0 /\ total < lv => flags = 0

(* Epochs start from a destination whose flag is right.  The control plane *)
(* refuses a lower threshold above the upper one.                          *)
ASSUME IpvsAssumption ==
  /\ Editor \notin Workers /\ Binders \cap Unbinders = {}
  /\ Fields \cap Threads = {}
  /\ Starts \subseteq [total : Int, u : Nat, l : Nat, flags : {0, 2}] /\ Starts # {}
  /\ \A st \in Starts :
       st.l <= st.u /\ FlagAgrees(st.flags, st.u, LowValue(st), st.total)
  /\ Edits \subseteq [u : Nat, l : Nat] /\ Edits # {}
  /\ \A th \in Edits : th.l <= th.u
  /\ FenceEdit \in BOOLEAN
  /\ MaxEdits \in Nat \ {0}

VARIABLES
  mem,    \* mem[x]: the value of location x all CPUs agree on
  buf,    \* buf[w]: stores of w not yet in memory, oldest first
  pc,     \* pc[w]
  tc,     \* tc[w]: what the worker's atomic operation returned
  edit,   \* the thresholds the editor is about to set
  edits   \* edits begun in this epoch

vars == <<mem, buf, pc, tc, edit, edits>>

Store == [at : Locations, val : Int]
St(x, v) == [at |-> x, val |-> v]

TypeOK ==
  /\ mem \in [Locations -> Int]
  /\ buf \in [Threads -> Seq(Store)]
  /\ pc \in [Threads -> {"count", "compare", "check", "lock", "store", "fence",
                         "update", "done"}]
  /\ tc \in [Workers -> Int]
  /\ edit \in Edits
  /\ edits \in 0..MaxEdits

Reset(st) == [x \in Locations |->
  CASE x = "total" -> st.total
    [] x = "u"     -> st.u
    [] x = "l"     -> st.l
    [] x = "lv"    -> LowValue(st)
    [] x = "flags" -> st.flags
    [] OTHER       -> 0]
StartPc == [w \in Threads |-> IF w = Editor THEN "check" ELSE "count"]

Init ==
  /\ \E st \in Starts : mem = Reset(st)
  /\ buf = [w \in Threads |-> <<>>]
  /\ pc = StartPc
  /\ tc = [w \in Workers |-> 0]
  /\ edit \in Edits
  /\ edits = 0

(* What w loads from x. *)
Load(w, x) ==
  LET own == {i \in DOMAIN buf[w] : buf[w][i].at = x} IN
  IF own = {} THEN mem[x]
  ELSE buf[w][CHOOSE i \in own : \A j \in own : j <= i].val

(* The oldest store of w reaches memory. *)
Drain(w) ==
  /\ buf[w] # <<>>
  /\ mem' = [mem EXCEPT ![Head(buf[w]).at] = Head(buf[w]).val]
  /\ buf' = [buf EXCEPT ![w] = Tail(@)]
  /\ UNCHANGED <<pc, tc, edit, edits>>

Finish(w, stores) ==
  /\ buf' = [buf EXCEPT ![w] = @ \o stores \o <<St(w, 1)>>]
  /\ pc' = [pc EXCEPT ![w] = "done"]

(* bind_worker: atomic_fetch_add or atomic_fetch_sub, a locked instruction. *)
Count(w) ==
  /\ pc[w] = "count"
  /\ buf[w] = <<>>
  /\ LET total == mem["total"] IN
     IF w \in Binders
     THEN mem' = [mem EXCEPT !["total"] = total + 1] /\ tc' = [tc EXCEPT ![w] = total + 1]
     ELSE mem' = [mem EXCEPT !["total"] = total - 1] /\ tc' = [tc EXCEPT ![w] = total]
  /\ pc' = [pc EXCEPT ![w] = "compare"]
  /\ UNCHANGED <<buf, edit, edits>>

(* A crossing is seen by equality with the threshold read without the lock. *)
Compare(w) ==
  /\ pc[w] = "compare"
  /\ IF tc[w] = Load(w, IF w \in Binders THEN "u" ELSE "lv")
     THEN pc' = [pc EXCEPT ![w] = "lock"] /\ UNCHANGED buf
     ELSE Finish(w, <<>>)
  /\ UNCHANGED <<mem, tc, edit, edits>>

(* lock_dest: a locked exchange. *)
LockDest(w) ==
  /\ pc[w] = "lock"
  /\ buf[w] = <<>>
  /\ mem["lock"] = 0
  /\ mem' = [mem EXCEPT !["lock"] = 1]
  /\ pc' = [pc EXCEPT ![w] = IF w = Editor THEN "store" ELSE "update"]
  /\ UNCHANGED <<buf, tc, edit, edits>>

(* edit_worker: nothing is done if the thresholds are already as wanted. *)
Check ==
  /\ pc[Editor] = "check"
  /\ edits' = edits + 1
  /\ edit' \in Edits
  /\ IF Load(Editor, "u") # edit'.u \/ Load(Editor, "l") # edit'.l
     THEN pc' = [pc EXCEPT ![Editor] = "lock"] /\ UNCHANGED buf
     ELSE IF edits' < MaxEdits THEN UNCHANGED <<pc, buf>> ELSE Finish(Editor, <<>>)
  /\ UNCHANGED <<mem, tc>>

StoreThresholds ==
  /\ pc[Editor] = "store"
  /\ buf' = [buf EXCEPT ![Editor] =
               @ \o <<St("u", edit.u), St("l", edit.l), St("lv", LowValue(edit))>>]
  /\ pc' = [pc EXCEPT ![Editor] = "fence"]
  /\ UNCHANGED <<mem, tc, edit, edits>>

(* Faulty: the edit of the unpatched kernel, without smp_mb(). *)
FenceNone ==
  /\ pc[Editor] = "fence"
  /\ pc' = [pc EXCEPT ![Editor] = "update"]
  /\ UNCHANGED <<mem, buf, tc, edit, edits>>

Fence ==
  /\ pc[Editor] = "fence"
  /\ FenceEdit => buf[Editor] = <<>>
  /\ pc' = [pc EXCEPT ![Editor] = "update"]
  /\ UNCHANGED <<mem, buf, tc, edit, edits>>

(* update(mode): the store to flags, if any.  The flag is set at u, or at  *)
(* the lower threshold after a bind, and cleared below the lower one, or   *)
(* below u after an unbind.                                                *)
Overload(w, u, l, conns) ==
  LET set   == conns >= (IF w \in Binders THEN l ELSE u)
      clear == conns < (IF w \in Unbinders THEN u ELSE l) IN
  CASE u = 0 -> <<St("flags", 0)>>
    [] u # 0 /\ set -> <<St("flags", 2)>>
    [] u # 0 /\ ~set /\ clear -> <<St("flags", 0)>>
    [] OTHER -> <<>>

(* Faulty: the lock word is written past the store buffer. *)
ReleaseEarly(w) ==
  LET stores == Overload(w, Load(w, "u"), Load(w, "lv"), mem["total"]) IN
  /\ pc[w] = "update"
  /\ mem' = [mem EXCEPT !["lock"] = 0]
  /\ IF w = Editor /\ edits < MaxEdits
     THEN /\ buf' = [buf EXCEPT ![w] = @ \o stores]
          /\ pc' = [pc EXCEPT ![w] = "check"]
     ELSE Finish(w, stores)
  /\ UNCHANGED <<tc, edit, edits>>

(* Faulty: the lock is not released. *)
ReleaseNever(w) ==
  LET stores == Overload(w, Load(w, "u"), Load(w, "lv"), mem["total"]) IN
  /\ pc[w] = "update"
  /\ Finish(w, stores)
  /\ UNCHANGED <<mem, tc, edit, edits>>

(* update() and unlock_dest(): u and lv are stable under the lock, so only *)
(* the load of total races; the releasing store is a plain one.            *)
Release(w) ==
  LET stores == Overload(w, Load(w, "u"), Load(w, "lv"), mem["total"])
                \o <<St("lock", 0)>> IN
  /\ pc[w] = "update"
  /\ IF w = Editor /\ edits < MaxEdits
     THEN /\ buf' = [buf EXCEPT ![w] = @ \o stores]
          /\ pc' = [pc EXCEPT ![w] = "check"]
     ELSE Finish(w, stores)
  /\ UNCHANGED <<mem, tc, edit, edits>>

(* main: when both threads are done, reset the destination for an epoch. *)
AllDone == \A w \in Threads : mem[w] = 1

NewEpoch ==
  /\ AllDone
  /\ \E st \in Starts : mem' = Reset(st)
  /\ pc' = StartPc
  /\ edits' = 0
  /\ UNCHANGED <<buf, tc, edit>>

Step(w) ==
  \/ Count(w)
  \/ Compare(w)
  \/ LockDest(w)
  \/ Release(w)

EditStep == Check \/ StoreThresholds \/ Fence

Next ==
  \/ \E w \in Threads : Step(w) \/ Drain(w)
  \/ EditStep
  \/ NewEpoch

Spec == Init /\ [][Next]_vars

(* Every thread keeps running, store buffers drain.  No spin on the lock   *)
(* can be overtaken for ever: a worker takes the lock at most once and the *)
(* editor at most MaxEdits times in an epoch.                              *)
FairSpec ==
  /\ Spec
  /\ \A w \in Threads : WF_vars(Step(w)) /\ WF_vars(Drain(w))
  /\ WF_vars(EditStep)

-----------------------------------------------------------------------------
(* No transition is missed: once all are done the flag agrees with the     *)
(* count and the thresholds (the "misses" main counts).                    *)
FlagRight ==
  AllDone => FlagAgrees(mem["flags"], mem["u"], mem["lv"], mem["total"])

(* A thread that has stores to the destination on the way, or is about to  *)
(* make some, holds the lock, and nobody else does: although the releasing *)
(* store is a plain one it does not pass the stores it protects.           *)
Writing(w) ==
  \/ pc[w] \in {"store", "fence", "update"}
  \/ \E i \in DOMAIN buf[w] : buf[w][i].at \in Fields
SoleWriter ==
  \A w \in Threads : Writing(w) =>
    mem["lock"] = 1 /\ \A v \in Threads \ {w} : ~Writing(v)

(* Every epoch ends: nobody spins on the lock for ever. *)
EpochsEnd == []<>AllDone

=============================================================================
