------------------------- MODULE IpvsOverloadProofs -------------------------
(***************************************************************************)
(* The lock of IpvsOverload protects the flag, and with the fence of the   *)
(* edit no crossing is missed, for any threads, thresholds and counts.     *)
(***************************************************************************)
EXTENDS IpvsOverload, SequenceTheorems, TLAPS

Dest == {"u", "l", "lv"}

Critical(w) == pc[w] \in {"store", "fence", "update"}
HasLock(b)  == \E i \in 1..Len(b) : b[i].at = "lock"

(* A thread owns the lock until its releasing store has reached memory. *)
Owns(w) == Critical(w) \/ HasLock(buf[w])

(* The stores a buffer of w may hold: at most one to flags and one to the  *)
(* lock, nothing but the done word behind the latter, nothing behind that. *)
BufShape(b, w) ==
  \A i \in 1..Len(b) :
    /\ b[i].at \in Fields \cup {w}
    /\ b[i].at # "total"
    /\ b[i].at = w => i = Len(b)
    /\ b[i].at = "lock" => b[i].val = 0 /\ \A j \in 1..Len(b) : j > i => b[j].at = w
    /\ b[i].at = "flags" => \A j \in 1..Len(b) : b[j].at = "flags" => j = i

Shapes == \A w \in Threads : BufShape(buf[w], w)

(* Inside the critical section nothing is released and no flag is stored;  *)
(* outside, a store to the destination is followed by the releasing one.   *)
Covered ==
  \A w \in Threads :
    IF Critical(w)
    THEN \A i \in 1..Len(buf[w]) : buf[w][i].at \in Dest
    ELSE (\E i \in 1..Len(buf[w]) : buf[w][i].at \in Fields) => HasLock(buf[w])

Exclusive ==
  \A w \in Threads : Owns(w) =>
    mem["lock"] = 1 /\ \A v \in Threads \ {w} : ~Owns(v)

(* A done word means that nothing is left to do or on the way. *)
DoneLast ==
  \A w \in Threads :
    /\ mem[w] = 1 => pc[w] = "done" /\ buf[w] = <<>>
    /\ \A i \in 1..Len(buf[w]) : buf[w][i].at = w => pc[w] = "done"

(* Which thread is where, and which buffers are empty there. *)
Places ==
  /\ \A w \in Workers :
       /\ pc[w] \in {"count", "compare", "lock", "update", "done"}
       /\ pc[w] # "done" => buf[w] = <<>>
  /\ pc[Editor] \in {"check", "lock", "store", "fence", "update", "done"}
  /\ pc[Editor] = "store" => buf[Editor] = <<>>
  /\ pc[Editor] = "check" => edits < MaxEdits

LockInv == TypeOK /\ Shapes /\ Covered /\ Exclusive /\ DoneLast /\ Places

-----------------------------------------------------------------------------
(* The values on their way to x. *)
Pending(b, x) == {b[i].val : i \in {j \in 1..Len(b) : b[j].at = x}}

(* With the fence, thresholds are on their way only between the editor's   *)
(* stores and its fence.                                                   *)
Thresholds ==
  /\ \A w \in Threads : \A x \in Dest :
       Pending(buf[w], x) # {} => w = Editor /\ pc[Editor] = "fence"
  /\ pc[Editor] = "update" => buf[Editor] = <<>>

(* What is not in memory yet is in the editor's buffer. *)
Wanted(x, v) ==
  /\ Pending(buf[Editor], x) \subseteq {v}
  /\ mem[x] = v \/ Pending(buf[Editor], x) # {}

(* The lower threshold is not above the upper one, except while they are   *)
(* on their way.                                                           *)
Ordered ==
  IF pc[Editor] = "fence"
  THEN Wanted("u", edit.u) /\ Wanted("lv", LowValue(edit))
  ELSE mem["lv"] <= mem["u"]

(* Somebody will set the flag right: the editor, a worker on its way to    *)
(* update, or a worker that will find that it has crossed a threshold.     *)
Fixer ==
  \/ pc[Editor] \in {"fence", "update"}
  \/ \E w \in Workers : pc[w] \in {"lock", "update"}
  \/ \E w \in Binders : pc[w] = "compare" /\ tc[w] = mem["u"]
  \/ \E w \in Unbinders : pc[w] = "compare" /\ tc[w] = mem["lv"]

Agrees(f)   == FlagAgrees(f, mem["u"], mem["lv"], mem["total"])
NoFlagStore == \A w \in Threads : Pending(buf[w], "flags") = {}

(* The flag, in memory or on its way there, is right. *)
Right ==
  /\ \A w \in Threads : \A f \in Pending(buf[w], "flags") : Agrees(f)
  /\ NoFlagStore => Agrees(mem["flags"])

(* The flag is right or will be set right. *)
Agreement == Fixer \/ Right

FlagInv == LockInv /\ Thresholds /\ Ordered /\ Agreement

-----------------------------------------------------------------------------
(* Constants, sequences of stores *)

LEMMA Names ==
  /\ Editor \in Threads /\ Workers \subseteq Threads /\ Editor \notin Workers
  /\ Fields \subseteq Locations /\ Threads \subseteq Locations
  /\ \A w \in Threads : w \notin Fields
  /\ \A w \in Threads : w # Editor => w \in Workers
  /\ \A w \in Workers : w \in Binders \/ w \in Unbinders
  BY IpvsAssumption DEF Threads, Workers, Locations

LEMMA Stores ==
  ASSUME NEW x \in Locations, NEW v \in Int
  PROVE  St(x, v) \in Store /\ St(x, v).at = x /\ St(x, v).val = v
  BY DEF St, Store

LEMMA LowValueInt ==
  ASSUME NEW th, th.u \in Nat, th.l \in Nat, th.l <= th.u
  PROVE  LowValue(th) \in Nat /\ LowValue(th) <= th.u
  BY DEF LowValue

LEMMA HeadTail ==
  ASSUME NEW b \in Seq(Store), b # <<>>
  PROVE  /\ Len(b) \in Nat /\ Len(b) >= 1
         /\ Head(b) = b[1] /\ Head(b) \in Store
         /\ Tail(b) \in Seq(Store)
         /\ Len(Tail(b)) = Len(b) - 1
         /\ \A i \in 1..(Len(b) - 1) : Tail(b)[i] = b[i + 1]
  BY HeadTailProperties, Len(b) \in Nat, EmptySeq, LenProperties

(* What is appended to a buffer when a thread is done. *)
LEMMA Append1 ==
  ASSUME NEW b \in Seq(Store), NEW s \in Store
  PROVE  /\ b \o <<s>> \in Seq(Store)
         /\ Len(b \o <<s>>) = Len(b) + 1
         /\ (b \o <<s>>)[Len(b) + 1] = s
         /\ \A i \in 1..Len(b) : (b \o <<s>>)[i] = b[i]
<1>1. <<s>> \in Seq(Store) /\ Len(<<s>>) = 1 /\ <<s>>[1] = s
  OBVIOUS
<1>2. Len(b) \in Nat
  BY LenProperties
<1> QED
  BY <1>1, <1>2, ConcatProperties

LEMMA DoneShape ==
  ASSUME NEW w \in Threads, NEW b \in Seq(Store), BufShape(b, w),
         \A i \in 1..Len(b) : b[i].at # w
  PROVE  /\ b \o <<St(w, 1)>> \in Seq(Store)
         /\ BufShape(b \o <<St(w, 1)>>, w)
         /\ HasLock(b) => HasLock(b \o <<St(w, 1)>>)
         /\ HasLock(b \o <<St(w, 1)>>) => HasLock(b)
<1> DEFINE c == b \o <<St(w, 1)>>
<1>1. St(w, 1) \in Store /\ St(w, 1).at = w /\ w \notin Fields
  BY Names, Stores
<1>2. /\ c \in Seq(Store) /\ Len(c) = Len(b) + 1 /\ c[Len(b) + 1] = St(w, 1)
      /\ \A i \in 1..Len(b) : c[i] = b[i]
      /\ Len(b) \in Nat
  BY <1>1, Append1, LenProperties
<1> HIDE DEF c
<1>3. BufShape(c, w)
  BY <1>1, <1>2 DEF BufShape, Fields
<1>4. ASSUME HasLock(b) PROVE HasLock(c)
  <2>1. PICK i \in 1..Len(b) : b[i].at = "lock"
    BY <1>4 DEF HasLock
  <2> QED
    BY <2>1, <1>2 DEF HasLock
<1>5. ASSUME HasLock(c) PROVE HasLock(b)
  <2>1. PICK i \in 1..Len(c) : c[i].at = "lock"
    BY <1>5 DEF HasLock
  <2>2. i # Len(b) + 1
    BY <2>1, <1>1, <1>2 DEF Fields
  <2>3. i \in 1..Len(b)
    BY <2>1, <2>2, <1>2
  <2> QED
    BY <2>1, <2>3, <1>2 DEF HasLock
<1> QED
  BY <1>2, <1>3, <1>4, <1>5 DEF c

(* update() stores to flags at most once, then the lock is released. *)
FlagStores == {<<>>, <<St("flags", 0)>>, <<St("flags", 2)>>}
Unlock(b, s) == b \o (s \o <<St("lock", 0)>>)

LEMMA OverloadStores ==
  ASSUME NEW w, NEW u, NEW l, NEW n
  PROVE  Overload(w, u, l, n) \in FlagStores
  BY DEF Overload, FlagStores

LEMMA ReleaseShape ==
  ASSUME NEW w \in Threads, NEW b \in Seq(Store),
         \A i \in 1..Len(b) : b[i].at \in Dest,
         NEW s \in FlagStores,
         NEW c, c = Unlock(b, s)
  PROVE  /\ c \in Seq(Store)
         /\ BufShape(c, w)
         /\ HasLock(c)
         /\ \A i \in 1..Len(c) : c[i].at # w
         /\ \A i \in 1..Len(c) : c[i].at \in Dest => \E j \in 1..Len(b) : c[i] = b[j]
         /\ \A i \in 1..Len(c) : c[i].at = "flags" => s # <<>> /\ c[i] = s[1]
         /\ s # <<>> => \E i \in 1..Len(c) : c[i].at = "flags"
<1> DEFINE r == s \o <<St("lock", 0)>>
<1>1. c = b \o r
  BY DEF Unlock
<1>2. /\ St("lock", 0) \in Store /\ St("lock", 0).at = "lock" /\ St("lock", 0).val = 0
      /\ St("flags", 0) \in Store /\ St("flags", 0).at = "flags"
      /\ St("flags", 2) \in Store /\ St("flags", 2).at = "flags"
  BY Names, Stores DEF Fields
<1>3. s \in Seq(Store) /\ Len(s) \in {0, 1} /\ (Len(s) = 1 => s[1].at = "flags")
      /\ (Len(s) = 0 <=> s = <<>>)
  <2>1. CASE s = <<>>
    BY <2>1
  <2>2. CASE s = <<St("flags", 0)>>
    BY <2>2, <1>2
  <2>3. CASE s = <<St("flags", 2)>>
    BY <2>3, <1>2
  <2> QED
    BY <2>1, <2>2, <2>3 DEF FlagStores
<1>4. /\ r \in Seq(Store) /\ Len(r) = Len(s) + 1
      /\ r[Len(s) + 1].at = "lock" /\ r[Len(s) + 1].val = 0
      /\ Len(s) = 1 => r[1] = s[1]
  BY <1>2, <1>3, Append1
<1> HIDE DEF r
<1>5. /\ c \in Seq(Store) /\ Len(c) = Len(b) + Len(r) /\ Len(b) \in Nat
      /\ \A i \in 1..Len(b) : c[i] = b[i]
      /\ \A i \in 1..Len(r) : c[Len(b) + i] = r[i]
  <2>1. \A i \in 1..Len(b) + Len(r) : c[i] = IF i <= Len(b) THEN b[i] ELSE r[i - Len(b)]
    BY <1>1, <1>4, ConcatProperties
  <2>2. Len(b) \in Nat /\ Len(r) \in Nat /\ Len(c) = Len(b) + Len(r) /\ c \in Seq(Store)
    BY <1>1, <1>4, ConcatProperties, LenProperties
  <2>3. ASSUME NEW i \in 1..Len(r) PROVE c[Len(b) + i] = r[i]
    <3>1. Len(b) + i \in 1..Len(b) + Len(r) /\ ~(Len(b) + i <= Len(b)) /\ Len(b) + i - Len(b) = i
      BY <2>2
    <3> QED
      BY <2>1, <3>1
  <2> QED
    BY <2>1, <2>2, <2>3
<1>6. w \notin Fields
  BY Names
<1>7. ASSUME NEW i \in 1..Len(c)
      PROVE  \/ i <= Len(b) /\ c[i] = b[i] /\ c[i].at \in Dest
             \/ Len(s) = 1 /\ i = Len(b) + 1 /\ c[i] = s[1]
             \/ i = Len(c) /\ c[i].at = "lock" /\ c[i].val = 0
  <2>1. CASE i <= Len(b)
    BY <2>1, <1>5
  <2>2. CASE i > Len(b)
    <3>1. PICK j \in 1..Len(r) : i = Len(b) + j
      <4>1. i - Len(b) \in 1..Len(r) /\ i = Len(b) + (i - Len(b))
        BY <2>2, <1>5, <1>4, <1>3
      <4> QED
        BY <4>1
    <3>2. c[i] = r[j]
      BY <3>1, <1>5
    <3>3. CASE j = Len(s) + 1
      BY <3>1, <3>2, <3>3, <1>3, <1>4, <1>5
    <3>4. CASE j # Len(s) + 1
      <4>1. Len(s) = 1
        <5>1. CASE Len(s) = 0
          <6>1. Len(r) = 1
            BY <5>1, <1>4
          <6>2. j \in 1..1
            BY <6>1
          <6>3. j = 1
            BY <6>2
          <6> QED
            BY <5>1, <6>3, <3>4
        <5> QED
          BY <5>1, <1>3
      <4>2. j = 1
        BY <3>4, <4>1, <1>4
      <4> QED
        BY <3>1, <3>2, <4>1, <4>2, <1>4, <1>5
    <3> QED
      BY <3>3, <3>4
  <2> QED
    BY <2>1, <2>2, <1>5
<1>8. Len(c) \in 1..Len(c) /\ c[Len(c)].at = "lock"
  <2>1. Len(r) \in 1..Len(r) /\ c[Len(b) + Len(r)] = r[Len(r)]
    BY <1>3, <1>4, <1>5
  <2> QED
    BY <2>1, <1>3, <1>4, <1>5
<1>9. BufShape(c, w)
  BY <1>7, <1>6, <1>3, <1>4, <1>5 DEF BufShape, Dest, Fields
<1>10. s # <<>> => Len(b) + 1 \in 1..Len(c) /\ c[Len(b) + 1].at = "flags"
  <2>1. SUFFICES ASSUME s # <<>> PROVE Len(b) + 1 \in 1..Len(c) /\ c[Len(b) + 1].at = "flags"
    OBVIOUS
  <2>2. 1 \in 1..Len(r) /\ c[Len(b) + 1] = r[1]
    BY <1>3, <1>4, <1>5
  <2> QED
    BY <2>1, <2>2, <1>3, <1>4, <1>5
<1>11. HasLock(c)
  BY <1>8 DEF HasLock
<1>12. \A i \in 1..Len(c) : c[i].at # w
  BY <1>7, <1>3, <1>6 DEF Dest, Fields
<1>13. ASSUME NEW i \in 1..Len(c), c[i].at \in Dest
       PROVE  \E j \in 1..Len(b) : c[i] = b[j]
  <2>1. i <= Len(b) /\ c[i] = b[i]
    BY <1>7, <1>13, <1>3 DEF Dest
  <2> QED
    BY <2>1, <1>5
<1>14. \A i \in 1..Len(c) : c[i].at = "flags" => s # <<>> /\ c[i] = s[1]
  BY <1>7, <1>3 DEF Dest
<1>15. s # <<>> => \E i \in 1..Len(c) : c[i].at = "flags"
  BY <1>10
<1> QED
  BY <1>5, <1>9, <1>11, <1>12, <1>13, <1>14, <1>15

-----------------------------------------------------------------------------
(* The lock *)

LEMMA ResetType ==
  ASSUME NEW st \in Starts
  PROVE  /\ Reset(st) \in [Locations -> Int]
         /\ Reset(st)["total"] = st.total /\ Reset(st)["u"] = st.u
         /\ Reset(st)["lv"] = LowValue(st) /\ Reset(st)["flags"] = st.flags
         /\ Reset(st)["lock"] = 0
         /\ \A w \in Threads : Reset(st)[w] = 0
<1>1. st.total \in Int /\ st.u \in Nat /\ st.l \in Nat /\ st.flags \in {0, 2} /\ st.l <= st.u
  BY IpvsAssumption
<1>2. LowValue(st) \in Nat
  BY <1>1, LowValueInt
<1>3. \A w \in Threads : w # "total" /\ w # "u" /\ w # "l" /\ w # "lv" /\ w # "flags"
  BY Names DEF Fields
<1>4. "total" \in Locations /\ "u" \in Locations /\ "lv" \in Locations
      /\ "flags" \in Locations /\ "lock" \in Locations
  BY DEF Locations, Fields
<1> QED
  BY <1>1, <1>2, <1>3, <1>4, Names DEF Reset

(* What an epoch starts from. *)
StartState ==
  /\ buf = [w \in Threads |-> <<>>]
  /\ pc = StartPc
  /\ edits = 0
  /\ \E st \in Starts : mem = Reset(st)

LEMMA StartLock == StartState => Shapes /\ Covered /\ Exclusive /\ DoneLast /\ Places
<1> SUFFICES ASSUME StartState PROVE Shapes /\ Covered /\ Exclusive /\ DoneLast /\ Places
  OBVIOUS
<1> USE DEF StartState
<1>1. \A w \in Threads : buf[w] = <<>> /\ Len(buf[w]) = 0 /\ 1..Len(buf[w]) = {}
  OBVIOUS
<1>2. \A w \in Threads : pc[w] = IF w = Editor THEN "check" ELSE "count"
  BY DEF StartPc
<1>3. Shapes
  BY <1>1 DEF Shapes, BufShape
<1>4. \A w \in Threads : ~Owns(w) /\ ~Critical(w)
  BY <1>1, <1>2 DEF Owns, HasLock, Critical
<1>5. Covered /\ Exclusive
  BY <1>1, <1>4 DEF Covered, Exclusive
<1>6. DoneLast
  BY <1>1, ResetType DEF DoneLast
<1>7. Places
  BY <1>1, <1>2, Names, IpvsAssumption DEF Places
<1> QED
  BY <1>3, <1>5, <1>6, <1>7

LEMMA InitLock == Init => LockInv
<1> SUFFICES ASSUME Init PROVE LockInv
  OBVIOUS
<1>1. PICK st \in Starts : mem = Reset(st)
  BY DEF Init
<1>2. TypeOK
  <2>1. mem \in [Locations -> Int]
    BY <1>1, ResetType
  <2>2. buf \in [Threads -> Seq(Store)]
    BY EmptySeq DEF Init
  <2> QED
    BY <2>1, <2>2, Names, IpvsAssumption DEF Init, TypeOK, StartPc
<1> QED
  BY <1>1, <1>2, StartLock DEF Init, StartState, LockInv

(* Facts of a thread's own position. *)
LEMMA Typed ==
  ASSUME LockInv, NEW w \in Threads
  PROVE  /\ buf[w] \in Seq(Store) /\ Len(buf[w]) \in Nat
         /\ buf \in [Threads -> Seq(Store)] /\ mem \in [Locations -> Int]
         /\ pc \in [Threads -> {"count", "compare", "check", "lock", "store", "fence",
                                "update", "done"}]
         /\ \A x \in Fields : mem[x] \in Int
         /\ pc[w] # "done" => mem[w] # 1 /\ \A i \in 1..Len(buf[w]) : buf[w][i].at # w
  BY LenProperties, Names DEF LockInv, TypeOK, DoneLast

(* A thread that neither enters nor leaves the critical section, and at    *)
(* most reports that it is done, keeps the lock's invariant.               *)
LEMMA OutsideStep ==
  ASSUME LockInv, NEW w \in Threads,
         ~Critical(w), pc[w] # "done",
         pc' \in [Threads -> {"count", "compare", "check", "lock", "store", "fence",
                              "update", "done"}],
         \A v \in Threads \ {w} : pc'[v] = pc[v],
         buf' \in [Threads -> Seq(Store)],
         \A v \in Threads \ {w} : buf'[v] = buf[v],
         \A x \in Locations \ {"total"} : mem'[x] = mem[x],
         ~Critical(w)',
         \/ buf'[w] = buf[w] /\ pc'[w] # "done"
         \/ buf'[w] = buf[w] \o <<St(w, 1)>> /\ pc'[w] = "done"
  PROVE  Shapes' /\ Covered' /\ Exclusive' /\ DoneLast'
<1> USE Typed
<1>1. "lock" \in Locations \ {"total"} /\ Threads \subseteq Locations \ {"total"}
  BY Names DEF Locations, Fields
<1>2. BufShape(buf[w], w) /\ \A i \in 1..Len(buf[w]) : buf[w][i].at # w
  BY DEF LockInv, Shapes
<1>3. /\ BufShape(buf'[w], w)
      /\ HasLock(buf'[w]) <=> HasLock(buf[w])
  <2>1. buf[w] \in Seq(Store)
    OBVIOUS
  <2>2. /\ BufShape(buf[w] \o <<St(w, 1)>>, w)
        /\ HasLock(buf[w] \o <<St(w, 1)>>) <=> HasLock(buf[w])
    BY <2>1, <1>2, DoneShape
  <2>3. CASE buf'[w] = buf[w]
    BY <2>3, <1>2
  <2>4. CASE buf'[w] = buf[w] \o <<St(w, 1)>>
    BY <2>4, <2>2
  <2> QED
    BY <2>3, <2>4
<1>4. Shapes'
  BY <1>3 DEF LockInv, Shapes
<1>5. \A v \in Threads : Critical(v)' = Critical(v) /\ Owns(v)' = Owns(v)
  BY <1>3 DEF Critical, Owns
<1>6. Exclusive'
  BY <1>1, <1>5 DEF LockInv, Exclusive
<1>7. Len(buf'[w]) \in Nat /\
      \A i \in 1..Len(buf'[w]) :
        \/ i \in 1..Len(buf[w]) /\ buf'[w][i] = buf[w][i]
        \/ pc'[w] = "done" /\ buf'[w][i].at = w
  <2>1. CASE buf'[w] = buf[w]
    BY <2>1
  <2>2. CASE buf'[w] = buf[w] \o <<St(w, 1)>> /\ pc'[w] = "done"
    <3>1. St(w, 1) \in Store /\ St(w, 1).at = w
      BY Names, Stores
    <3> QED
      BY <2>2, <3>1, Append1
  <2> QED
    BY <2>1, <2>2
<1>8. Covered'
  <2>1. ASSUME NEW v \in Threads \ {w}
        PROVE  IF Critical(v)'
               THEN \A i \in 1..Len(buf'[v]) : buf'[v][i].at \in Dest
               ELSE (\E i \in 1..Len(buf'[v]) : buf'[v][i].at \in Fields) => HasLock(buf'[v])
    BY <1>5 DEF LockInv, Covered
  <2>2. ASSUME NEW i \in 1..Len(buf'[w]), buf'[w][i].at \in Fields PROVE HasLock(buf'[w])
    <3>1. i \in 1..Len(buf[w]) /\ buf[w][i].at \in Fields
      BY <1>7, <2>2, Names
    <3> QED
      BY <3>1, <1>3 DEF LockInv, Covered
  <2> QED
    BY <2>1, <2>2 DEF Covered
<1>9. DoneLast'
  <2>1. \A v \in Threads \ {w} :
          /\ mem'[v] = 1 => pc'[v] = "done" /\ buf'[v] = <<>>
          /\ \A i \in 1..Len(buf'[v]) : buf'[v][i].at = v => pc'[v] = "done"
    BY <1>1 DEF LockInv, DoneLast
  <2>2. /\ mem'[w] # 1
        /\ \A i \in 1..Len(buf'[w]) : buf'[w][i].at = w => pc'[w] = "done"
    BY <1>1, <1>7, <1>2
  <2> QED
    BY <2>1, <2>2 DEF DoneLast
<1> QED
  BY <1>4, <1>6, <1>8, <1>9

LEMMA FinishEmpty ==
  ASSUME LockInv, NEW w \in Threads, Finish(w, <<>>)
  PROVE  /\ buf' = [buf EXCEPT ![w] = buf[w] \o <<St(w, 1)>>]
         /\ buf' \in [Threads -> Seq(Store)]
         /\ pc' = [pc EXCEPT ![w] = "done"]
<1>1. buf[w] \in Seq(Store) /\ buf \in [Threads -> Seq(Store)]
  BY Typed
<1>2. buf[w] \o <<>> = buf[w]
  BY <1>1, ConcatEmptySeq
<1>3. St(w, 1) \in Store
  BY Names, Stores
<1>4. buf[w] \o <<St(w, 1)>> \in Seq(Store)
  BY <1>1, <1>3, Append1
<1> QED
  BY <1>1, <1>2, <1>4 DEF Finish

LEMMA CountLock ==
  ASSUME LockInv, NEW w \in Threads, Count(w)
  PROVE  LockInv'
<1> USE Typed
<1>1. w \in Workers /\ w # Editor /\ "total" \in Fields /\ "total" \in Locations
  BY Names DEF Count, LockInv, Places, Fields
<1>2. TypeOK'
  BY <1>1, Names DEF LockInv, TypeOK, Count
<1>3. Shapes' /\ Covered' /\ Exclusive' /\ DoneLast'
  <2>1. \A x \in Locations \ {"total"} : mem'[x] = mem[x]
    BY DEF Count
  <2>2. ~Critical(w) /\ ~Critical(w)' /\ pc[w] # "done"
    BY DEF Count, Critical
  <2>3. pc' \in [Threads -> {"count", "compare", "check", "lock", "store", "fence",
                             "update", "done"}]
        /\ buf' \in [Threads -> Seq(Store)]
    BY <1>2 DEF TypeOK
  <2>4. \A v \in Threads \ {w} : pc'[v] = pc[v] /\ buf'[v] = buf[v]
    BY DEF Count
  <2>5. buf'[w] = buf[w] /\ pc'[w] # "done"
    BY DEF Count
  <2> QED
    BY <2>1, <2>2, <2>3, <2>4, <2>5, OutsideStep
<1>4. Places'
  BY <1>1, Names DEF LockInv, Places, Count
<1> QED
  BY <1>2, <1>3, <1>4 DEF LockInv

LEMMA CompareLock ==
  ASSUME LockInv, NEW w \in Threads, Compare(w)
  PROVE  LockInv'
<1> USE Typed
<1>1. w \in Workers /\ w # Editor
  BY Names DEF Compare, LockInv, Places
<1>2. \/ buf' = buf /\ pc' = [pc EXCEPT ![w] = "lock"]
      \/ /\ buf' = [buf EXCEPT ![w] = buf[w] \o <<St(w, 1)>>]
         /\ buf' \in [Threads -> Seq(Store)]
         /\ pc' = [pc EXCEPT ![w] = "done"]
  BY FinishEmpty DEF Compare
<1>3. pc' \in [Threads -> {"count", "compare", "check", "lock", "store", "fence",
                           "update", "done"}]
      /\ buf' \in [Threads -> Seq(Store)]
  BY <1>2
<1>4. TypeOK'
  BY <1>3 DEF LockInv, TypeOK, Compare
<1>5. Shapes' /\ Covered' /\ Exclusive' /\ DoneLast'
  <2>1. \A x \in Locations \ {"total"} : mem'[x] = mem[x]
    BY DEF Compare
  <2>2. ~Critical(w) /\ pc[w] # "done"
    BY DEF Compare, Critical
  <2>3. ~Critical(w)'
    BY <1>2 DEF Critical
  <2>4. \A v \in Threads \ {w} : pc'[v] = pc[v] /\ buf'[v] = buf[v]
    BY <1>2
  <2>5. \/ buf'[w] = buf[w] /\ pc'[w] # "done"
        \/ buf'[w] = buf[w] \o <<St(w, 1)>> /\ pc'[w] = "done"
    BY <1>2
  <2> QED
    BY <1>3, <2>1, <2>2, <2>3, <2>4, <2>5, OutsideStep
<1>6. Places'
  BY <1>1, <1>2, Names DEF LockInv, Places, Compare
<1> QED
  BY <1>4, <1>5, <1>6 DEF LockInv

LEMMA CheckLock ==
  ASSUME LockInv, Check
  PROVE  LockInv'
<1> USE Typed, Names
<1>1. \/ buf' = buf /\ pc' = [pc EXCEPT ![Editor] = "lock"]
      \/ buf' = buf /\ pc' = pc /\ edits' < MaxEdits
      \/ /\ buf' = [buf EXCEPT ![Editor] = buf[Editor] \o <<St(Editor, 1)>>]
         /\ buf' \in [Threads -> Seq(Store)]
         /\ pc' = [pc EXCEPT ![Editor] = "done"]
  BY FinishEmpty DEF Check
<1>2. pc' \in [Threads -> {"count", "compare", "check", "lock", "store", "fence",
                           "update", "done"}]
      /\ buf' \in [Threads -> Seq(Store)]
  BY <1>1
<1>3. edits < MaxEdits /\ pc[Editor] = "check"
  BY DEF LockInv, Places, Check
<1>4. edits' \in 0..MaxEdits
  BY <1>3, IpvsAssumption DEF LockInv, TypeOK, Check
<1>5. TypeOK'
  BY <1>2, <1>4 DEF LockInv, TypeOK, Check
<1>6. Shapes' /\ Covered' /\ Exclusive' /\ DoneLast'
  <2>1. \A x \in Locations \ {"total"} : mem'[x] = mem[x]
    BY DEF Check
  <2>2. ~Critical(Editor) /\ pc[Editor] # "done"
    BY <1>3 DEF Critical
  <2>3. ~Critical(Editor)'
    BY <1>1, <1>3 DEF Critical
  <2>4. \A v \in Threads \ {Editor} : pc'[v] = pc[v] /\ buf'[v] = buf[v]
    BY <1>1
  <2>5. \/ buf'[Editor] = buf[Editor] /\ pc'[Editor] # "done"
        \/ buf'[Editor] = buf[Editor] \o <<St(Editor, 1)>> /\ pc'[Editor] = "done"
    BY <1>1, <1>3
  <2> QED
    BY <1>2, <2>1, <2>2, <2>3, <2>4, <2>5, OutsideStep
<1>7. Places'
  BY <1>1, <1>3 DEF LockInv, Places, Check
<1> QED
  BY <1>5, <1>6, <1>7 DEF LockInv

(* Taking the lock: the buffer is empty and nobody owns the lock. *)
LEMMA LockDestLock ==
  ASSUME LockInv, NEW w \in Threads, LockDest(w)
  PROVE  LockInv'
<1> USE Typed
<1>1. /\ buf[w] = <<>> /\ mem["lock"] = 0 /\ "lock" \in Locations
      /\ mem' = [mem EXCEPT !["lock"] = 1] /\ buf' = buf
      /\ pc' = [pc EXCEPT ![w] = IF w = Editor THEN "store" ELSE "update"]
      /\ pc[w] = "lock"
  BY DEF LockDest, Locations, Fields
<1>2. \A v \in Threads : ~Owns(v)
  BY <1>1 DEF LockInv, Exclusive
<1>3. \A v \in Threads \ {w} : ~Owns(v)'
  BY <1>1, <1>2 DEF Owns, Critical
<1>4. TypeOK'
  BY <1>1, <1>2 DEF LockInv, TypeOK, LockDest
<1>5. Shapes'
  BY <1>1 DEF LockInv, Shapes
<1>6. Covered'
  <2>1. Critical(w)' /\ 1..Len(buf'[w]) = {}
    BY <1>1 DEF Critical
  <2>2. \A v \in Threads \ {w} : Critical(v)' = Critical(v)
    BY <1>1 DEF Critical
  <2> QED
    BY <1>1, <2>1, <2>2 DEF LockInv, Covered
<1>7. Exclusive'
  BY <1>1, <1>3 DEF Exclusive
<1>8. DoneLast'
  BY <1>1, Names DEF LockInv, DoneLast, Fields
<1>9. Places'
  BY <1>1, Names DEF LockInv, Places, LockDest
<1> QED
  BY <1>4, <1>5, <1>6, <1>7, <1>8, <1>9 DEF LockInv

(* The three stores of the editor. *)
LEMMA EditStores ==
  ASSUME LockInv
  PROVE  LET t == <<St("u", edit.u), St("l", edit.l), St("lv", LowValue(edit))>> IN
         /\ t \in Seq(Store) /\ Len(t) = 3
         /\ t[1] = St("u", edit.u) /\ t[2] = St("l", edit.l)
         /\ t[3] = St("lv", LowValue(edit))
         /\ t[1].at = "u" /\ t[2].at = "l" /\ t[3].at = "lv"
         /\ t[1].val = edit.u /\ t[3].val = LowValue(edit)
<1>1. edit.u \in Nat /\ edit.l \in Nat /\ edit.l <= edit.u
  BY IpvsAssumption DEF LockInv, TypeOK
<1>2. LowValue(edit) \in Nat
  BY <1>1, LowValueInt
<1>3. "u" \in Locations /\ "l" \in Locations /\ "lv" \in Locations
  BY DEF Locations, Fields
<1>4. /\ St("u", edit.u) \in Store /\ St("u", edit.u).at = "u" /\ St("u", edit.u).val = edit.u
      /\ St("l", edit.l) \in Store /\ St("l", edit.l).at = "l"
      /\ St("lv", LowValue(edit)) \in Store /\ St("lv", LowValue(edit)).at = "lv"
      /\ St("lv", LowValue(edit)).val = LowValue(edit)
  BY <1>1, <1>2, <1>3, Stores
<1> QED
  BY <1>4

LEMMA StoreLock ==
  ASSUME LockInv, StoreThresholds
  PROVE  /\ LockInv'
         /\ buf'[Editor] = <<St("u", edit.u), St("l", edit.l), St("lv", LowValue(edit))>>
<1> USE Typed, Names
<1> DEFINE t == <<St("u", edit.u), St("l", edit.l), St("lv", LowValue(edit))>>
<1>1. pc[Editor] = "store" /\ buf[Editor] = <<>>
  BY DEF LockInv, Places, StoreThresholds
<1>2. /\ t \in Seq(Store) /\ Len(t) = 3
      /\ t[1].at = "u" /\ t[2].at = "l" /\ t[3].at = "lv"
  BY EditStores
<1>3. buf' = [buf EXCEPT ![Editor] = t]
  <2>1. <<>> \o t = t
    BY <1>2, ConcatEmptySeq
  <2> QED
    BY <2>1, <1>1 DEF StoreThresholds
<1> HIDE DEF t
<1>4. pc' = [pc EXCEPT ![Editor] = "fence"] /\ mem' = mem
  BY DEF StoreThresholds
<1>5. \A i \in 1..Len(t) : t[i].at \in Dest
  BY <1>2 DEF Dest
<1>6. TypeOK'
  BY <1>2, <1>3, <1>4 DEF LockInv, TypeOK, StoreThresholds
<1>7. Shapes'
  <2>1. BufShape(t, Editor)
    BY <1>5 DEF BufShape, Dest, Fields
  <2> QED
    BY <2>1, <1>3 DEF LockInv, Shapes
<1>8. \A v \in Threads : Owns(v)' = Owns(v) /\ Critical(v)' = Critical(v)
  <2>1. Critical(Editor) /\ Critical(Editor)'
    BY <1>1, <1>4 DEF Critical
  <2> QED
    BY <2>1, <1>3, <1>4 DEF Owns, Critical
<1>9. Covered'
  BY <1>8, <1>3, <1>5, <1>1 DEF LockInv, Covered, Critical
<1>10. Exclusive'
  BY <1>8, <1>4 DEF LockInv, Exclusive
<1>11. DoneLast'
  <2>1. \A i \in 1..Len(t) : t[i].at # Editor
    BY <1>5 DEF Dest, Fields
  <2>2. mem[Editor] # 1
    BY <1>1 DEF LockInv, DoneLast
  <2> QED
    BY <2>1, <2>2, <1>3, <1>4 DEF LockInv, DoneLast
<1>12. Places'
  BY <1>1, <1>3, <1>4 DEF LockInv, Places, StoreThresholds
<1> QED
  BY <1>3, <1>6, <1>7, <1>9, <1>10, <1>11, <1>12 DEF LockInv, t

LEMMA FenceLock ==
  ASSUME LockInv, Fence
  PROVE  LockInv'
<1> USE Typed, Names
<1>1. pc[Editor] = "fence" /\ pc' = [pc EXCEPT ![Editor] = "update"] /\ buf' = buf /\ mem' = mem
  BY DEF Fence
<1>2. TypeOK'
  BY <1>1 DEF LockInv, TypeOK, Fence
<1>3. \A v \in Threads : Owns(v)' = Owns(v) /\ Critical(v)' = Critical(v)
  <2>1. Critical(Editor) /\ Critical(Editor)'
    BY <1>1 DEF Critical
  <2> QED
    BY <2>1, <1>1 DEF Owns, Critical
<1>4. Shapes' /\ Covered' /\ Exclusive'
  BY <1>1, <1>3 DEF LockInv, Shapes, Covered, Exclusive
<1>5. DoneLast'
  BY <1>1 DEF LockInv, DoneLast
<1>6. Places'
  BY <1>1 DEF LockInv, Places, Fence
<1> QED
  BY <1>2, <1>4, <1>5, <1>6 DEF LockInv

(* What Load returns when the buffer does not hold the location. *)
LEMMA LoadMem ==
  ASSUME LockInv, NEW w \in Threads, NEW x,
         \A i \in 1..Len(buf[w]) : buf[w][i].at # x
  PROVE  Load(w, x) = mem[x]
<1>1. DOMAIN buf[w] = 1..Len(buf[w])
  BY Typed, LenProperties
<1> QED
  BY <1>1 DEF Load

(* update() and the release: what the buffer holds then. *)
UpdateStores(w) == Overload(w, Load(w, "u"), Load(w, "lv"), mem["total"])
Released(w)     == Unlock(buf[w], UpdateStores(w))

LEMMA ReleaseBuf ==
  ASSUME LockInv, NEW w \in Threads, Release(w)
  PROVE  LET s == UpdateStores(w)
             c == Released(w) IN
         /\ s \in FlagStores
         /\ c \in Seq(Store) /\ BufShape(c, w) /\ HasLock(c)
         /\ \A i \in 1..Len(c) : c[i].at # w
         /\ \A i \in 1..Len(c) : c[i].at \in Dest => \E j \in 1..Len(buf[w]) : c[i] = buf[w][j]
         /\ \A i \in 1..Len(c) : c[i].at = "flags" => s # <<>> /\ c[i] = s[1]
         /\ s # <<>> => \E i \in 1..Len(c) : c[i].at = "flags"
         /\ \/ /\ w = Editor /\ edits < MaxEdits
               /\ buf' = [buf EXCEPT ![w] = c] /\ pc' = [pc EXCEPT ![w] = "check"]
            \/ /\ buf' = [buf EXCEPT ![w] = c \o <<St(w, 1)>>]
               /\ pc' = [pc EXCEPT ![w] = "done"]
<1> DEFINE s == UpdateStores(w)
           c == Released(w)
<1>1. pc[w] = "update" /\ Critical(w)
  BY DEF Release, Critical
<1>2. \A i \in 1..Len(buf[w]) : buf[w][i].at \in Dest
  BY <1>1 DEF LockInv, Covered
<1>3. s \in FlagStores
  BY OverloadStores DEF UpdateStores
<1>4. buf[w] \in Seq(Store) /\ buf \in [Threads -> Seq(Store)]
  BY Typed
<1>5. /\ c \in Seq(Store) /\ BufShape(c, w) /\ HasLock(c)
      /\ \A i \in 1..Len(c) : c[i].at # w
      /\ \A i \in 1..Len(c) : c[i].at \in Dest => \E j \in 1..Len(buf[w]) : c[i] = buf[w][j]
      /\ \A i \in 1..Len(c) : c[i].at = "flags" => s # <<>> /\ c[i] = s[1]
      /\ s # <<>> => \E i \in 1..Len(c) : c[i].at = "flags"
  <2> DEFINE b == buf[w]
  <2>1. c = Unlock(b, s)
    BY DEF Released
  <2>2. b \in Seq(Store) /\ \A i \in 1..Len(b) : b[i].at \in Dest
    BY <1>2, <1>4
  <2> HIDE DEF b, s, c
  <2>3. /\ c \in Seq(Store) /\ BufShape(c, w) /\ HasLock(c)
        /\ \A i \in 1..Len(c) : c[i].at # w
        /\ \A i \in 1..Len(c) : c[i].at \in Dest => \E j \in 1..Len(b) : c[i] = b[j]
        /\ \A i \in 1..Len(c) : c[i].at = "flags" => s # <<>> /\ c[i] = s[1]
        /\ s # <<>> => \E i \in 1..Len(c) : c[i].at = "flags"
    BY <1>3, <2>1, <2>2, ReleaseShape
  <2> QED
    BY <2>3 DEF b
<1>6. CASE w = Editor /\ edits < MaxEdits
  <2>1. buf' = [buf EXCEPT ![w] = c] /\ pc' = [pc EXCEPT ![w] = "check"]
    BY <1>6 DEF Release, Released, UpdateStores, Unlock
  <2> QED
    BY <1>3, <1>5, <1>6, <2>1
<1>7. CASE ~(w = Editor /\ edits < MaxEdits)
  <2>1. buf' = [buf EXCEPT ![w] = c \o <<St(w, 1)>>] /\ pc' = [pc EXCEPT ![w] = "done"]
    BY <1>7 DEF Release, Finish, Released, UpdateStores, Unlock
  <2> QED
    BY <1>3, <1>5, <2>1
<1> QED
  BY <1>6, <1>7

LEMMA ReleaseLock ==
  ASSUME LockInv, NEW w \in Threads, Release(w)
  PROVE  LockInv'
<1> USE Typed
<1> DEFINE c == Released(w)
<1>1. /\ c \in Seq(Store) /\ BufShape(c, w) /\ HasLock(c)
      /\ \A i \in 1..Len(c) : c[i].at # w
      /\ \/ /\ w = Editor /\ edits < MaxEdits
            /\ buf' = [buf EXCEPT ![w] = c] /\ pc' = [pc EXCEPT ![w] = "check"]
         \/ /\ buf' = [buf EXCEPT ![w] = c \o <<St(w, 1)>>]
            /\ pc' = [pc EXCEPT ![w] = "done"]
  BY ReleaseBuf
<1> HIDE DEF c
<1>2. pc[w] = "update" /\ Critical(w) /\ Owns(w) /\ mem' = mem
  BY DEF Release, Critical, Owns
<1>3. LET d == c \o <<St(w, 1)>> IN
      d \in Seq(Store) /\ BufShape(d, w) /\ HasLock(d)
  BY <1>1, DoneShape
<1>4. /\ buf'[w] \in Seq(Store) /\ BufShape(buf'[w], w) /\ HasLock(buf'[w])
      /\ \A v \in Threads \ {w} : buf'[v] = buf[v] /\ pc'[v] = pc[v]
      /\ ~Critical(w)'
  BY <1>1, <1>3 DEF Critical
<1>5. TypeOK'
  <2>1. buf' \in [Threads -> Seq(Store)]
    BY <1>1, <1>3
  <2>2. pc' \in [Threads -> {"count", "compare", "check", "lock", "store", "fence",
                             "update", "done"}]
    BY <1>1
  <2> QED
    BY <2>1, <2>2 DEF LockInv, TypeOK, Release
<1>6. Shapes'
  BY <1>4 DEF LockInv, Shapes
<1>7. \A v \in Threads : Owns(v)' = Owns(v)
  BY <1>2, <1>4 DEF Owns, Critical
<1>8. Covered'
  BY <1>4 DEF LockInv, Covered, Critical
<1>9. Exclusive'
  BY <1>2, <1>7 DEF LockInv, Exclusive
<1>10. DoneLast'
  <2>1. mem'[w] # 1
    BY <1>2
  <2>2. \A i \in 1..Len(buf'[w]) : buf'[w][i].at = w => pc'[w] = "done"
    BY <1>1
  <2> QED
    BY <1>2, <1>4, <2>1, <2>2 DEF LockInv, DoneLast
<1>11. Places'
  <2>1. edits' = edits
    BY DEF Release
  <2>2. CASE w = Editor
    <3>1. pc'[Editor] \in {"check", "done"} /\ (pc'[Editor] = "check" => edits' < MaxEdits)
      BY <1>1, <2>1, <2>2
    <3> QED
      BY <1>4, <2>2, <3>1, Names DEF LockInv, Places
  <2>3. CASE w # Editor
    <3>1. pc'[w] = "done"
      BY <1>1, <2>3
    <3> QED
      BY <1>4, <2>1, <2>3, <3>1, Names DEF LockInv, Places
  <2> QED
    BY <2>2, <2>3
<1> QED
  BY <1>5, <1>6, <1>8, <1>9, <1>10, <1>11 DEF LockInv

(* A store reaches memory. *)
LEMMA DrainLock ==
  ASSUME LockInv, NEW w \in Threads, Drain(w)
  PROVE  LockInv'
<1> USE Typed, Names
<1> DEFINE b == buf[w]
           t == Tail(buf[w])
           h == Head(buf[w])
<1>1. /\ b # <<>> /\ Len(b) \in Nat /\ Len(b) >= 1 /\ h = b[1] /\ h \in Store
      /\ t \in Seq(Store) /\ Len(t) = Len(b) - 1
      /\ \A i \in 1..Len(t) : t[i] = b[i + 1]
      /\ \A i \in 1..Len(t) : i + 1 \in 1..Len(b)
      /\ 1 \in 1..Len(b)
  <2>1. buf[w] \in Seq(Store) /\ buf[w] # <<>>
    BY DEF Drain
  <2>2. /\ Len(b) \in Nat /\ Len(b) >= 1 /\ h = b[1] /\ h \in Store
        /\ t \in Seq(Store) /\ Len(t) = Len(b) - 1
        /\ \A i \in 1..Len(t) : t[i] = b[i + 1]
    BY <2>1, HeadTail
  <2> QED
    BY <2>1, <2>2
<1>2. /\ mem' = [mem EXCEPT ![h.at] = h.val]
      /\ buf' = [buf EXCEPT ![w] = t] /\ pc' = pc
      /\ edits' = edits
  BY DEF Drain
<1>3. h.at \in Locations /\ h.val \in Int
  BY <1>1 DEF Store
<1>4. BufShape(b, w)
  BY DEF LockInv, Shapes
<1> HIDE DEF b, t, h
<1>5. \A i \in 1..Len(t) : i + 1 \in 1..Len(b) /\ i + 1 > 1 /\ i \in Int /\ t[i] = b[i + 1]
  <2>1. ASSUME NEW i \in 1..Len(t) PROVE i + 1 \in 1..Len(b) /\ i + 1 > 1 /\ i \in Int
    BY <1>1
  <2>2. \A i \in 1..Len(t) : t[i] = b[i + 1]
    BY <1>1
  <2> QED
    BY <2>1, <2>2
<1>6. TypeOK'
  <2>1. mem' \in [Locations -> Int] /\ buf' \in [Threads -> Seq(Store)]
    BY <1>1, <1>2, <1>3
  <2> QED
    BY <2>1, <1>2 DEF LockInv, TypeOK, Drain
<1>7. Shapes'
  <2>1. BufShape(t, w)
    <3> SUFFICES ASSUME NEW i \in 1..Len(t)
                 PROVE  /\ t[i].at \in Fields \cup {w}
                        /\ t[i].at # "total"
                        /\ t[i].at = w => i = Len(t)
                        /\ t[i].at = "lock" =>
                             t[i].val = 0 /\ \A j \in 1..Len(t) : j > i => t[j].at = w
                        /\ t[i].at = "flags" =>
                             \A j \in 1..Len(t) : t[j].at = "flags" => j = i
      BY DEF BufShape
    <3>1. i + 1 \in 1..Len(b) /\ t[i] = b[i + 1]
      BY <1>5
    <3>2. \A j \in 1..Len(t) : j + 1 \in 1..Len(b) /\ t[j] = b[j + 1]
      BY <1>5
    <3>3. /\ b[i + 1].at \in Fields \cup {w}
          /\ b[i + 1].at # "total"
          /\ b[i + 1].at = w => i + 1 = Len(b)
          /\ b[i + 1].at = "lock" =>
               b[i + 1].val = 0 /\ \A j \in 1..Len(b) : j > i + 1 => b[j].at = w
          /\ b[i + 1].at = "flags" => \A j \in 1..Len(b) : b[j].at = "flags" => j = i + 1
      BY <3>1, <1>4 DEF BufShape
    <3>4. \A j \in 1..Len(t) : j > i => j + 1 > i + 1
      BY <1>1
    <3>5. \A j \in 1..Len(t) : j + 1 = i + 1 => j = i
      BY <1>1
    <3>6. t[i].at = w => i = Len(t)
      BY <3>1, <3>3, <1>1
    <3>7. ASSUME t[i].at = "lock", NEW j \in 1..Len(t), j > i PROVE t[j].at = w
      <4>1. j + 1 \in 1..Len(b) /\ j + 1 > i + 1 /\ t[j] = b[j + 1]
        BY <3>7, <3>2, <3>4
      <4>2. b[j + 1].at = w
        BY <3>7, <3>1, <3>3, <4>1
      <4> QED
        BY <4>1, <4>2
    <3>8. ASSUME t[i].at = "flags", NEW j \in 1..Len(t), t[j].at = "flags" PROVE j = i
      <4>1. j + 1 \in 1..Len(b) /\ b[j + 1].at = "flags"
        BY <3>8, <3>2
      <4>2. j + 1 = i + 1
        BY <3>8, <3>1, <3>3, <4>1
      <4> QED
        BY <4>2, <3>5
    <3> QED
      BY <3>1, <3>3, <3>6, <3>7, <3>8
  <2> QED
    BY <2>1, <1>1, <1>2 DEF LockInv, Shapes
<1>8. /\ buf[w] = b /\ buf'[w] = t
      /\ \A v \in Threads : Critical(v)' = Critical(v)
      /\ \A v \in Threads \ {w} : buf'[v] = buf[v] /\ Owns(v)' = Owns(v)
  BY <1>2, <1>1 DEF Critical, Owns, b
<1>9. \A i \in 1..Len(t) : t[i].at = w => pc[w] = "done"
  <2>1. \A i \in 1..Len(b) : b[i].at = w => pc[w] = "done"
    BY <1>8 DEF LockInv, DoneLast
  <2>2. ASSUME NEW i \in 1..Len(t), t[i].at = w PROVE pc[w] = "done"
    <3>1. i + 1 \in 1..Len(b) /\ b[i + 1].at = w
      BY <1>5, <2>2
    <3> QED
      BY <2>1, <3>1
  <2> QED
    BY <2>2
<1>10. CASE h.at = "lock"
  <2>1. h.val = 0 /\ mem'["lock"] = 0
    BY <1>10, <1>4, <1>1, <1>2, <1>3 DEF BufShape
  <2>2. HasLock(b)
    BY <1>10, <1>1 DEF HasLock
  <2>3. ~Critical(w)
    BY <1>10, <1>1, <1>8 DEF LockInv, Covered, Dest
  <2>4. ASSUME NEW i \in 1..Len(t) PROVE t[i].at = w
    <3>1. \A j \in 1..Len(b) : j > 1 => b[j].at = w
      BY <1>10, <1>1, <1>4 DEF BufShape
    <3>2. i + 1 \in 1..Len(b) /\ i + 1 > 1 /\ t[i] = b[i + 1]
      BY <1>5
    <3>3. b[i + 1].at = w
      BY <3>1, <3>2
    <3> QED
      BY <3>2, <3>3
  <2>5. ~HasLock(t) /\ ~(\E i \in 1..Len(t) : t[i].at \in Fields)
    BY <2>4 DEF HasLock, Fields
  <2>6. \A v \in Threads : ~Owns(v)'
    <3>1. Owns(w)
      BY <2>2, <1>8 DEF Owns
    <3>2. \A v \in Threads \ {w} : ~Owns(v)
      BY <3>1 DEF LockInv, Exclusive
    <3>3. ~Owns(w)'
      BY <2>3, <2>5, <1>8 DEF Owns
    <3> QED
      BY <3>2, <3>3, <1>8
  <2>7. Exclusive'
    BY <2>6 DEF Exclusive
  <2>8. Covered'
    BY <2>3, <2>5, <1>8 DEF LockInv, Covered
  <2> QED
    <3>1. DoneLast'
      <4>1. \A v \in Threads : mem'[v] = mem[v]
        BY <1>2, <1>10, <1>3 DEF Fields
      <4>2. mem[w] # 1
        BY <1>8, <1>1 DEF LockInv, DoneLast
      <4>3. \A i \in 1..Len(t) : t[i].at = w => pc[w] = "done"
        BY <1>9
      <4> QED
        BY <4>1, <4>2, <4>3, <1>2, <1>8 DEF LockInv, DoneLast
    <3>2. Places'
      BY <1>2, <1>8, <1>1, <1>6 DEF LockInv, Places
    <3> QED
      BY <1>6, <1>7, <2>7, <2>8, <3>1, <3>2 DEF LockInv
<1>11. CASE h.at # "lock"
  <2>1. mem'["lock"] = mem["lock"]
    BY <1>11, <1>2, <1>3 DEF Locations, Fields
  <2>2. HasLock(t) <=> HasLock(b)
    <3>1. ASSUME HasLock(t) PROVE HasLock(b)
      BY <3>1, <1>1 DEF HasLock
    <3>2. ASSUME HasLock(b) PROVE HasLock(t)
      <4>1. PICK i \in 1..Len(b) : b[i].at = "lock"
        BY <3>2 DEF HasLock
      <4>2. i # 1
        BY <4>1, <1>11, <1>1
      <4>3. i - 1 \in 1..Len(t) /\ t[i - 1] = b[i]
        BY <4>1, <4>2, <1>1
      <4> QED
        BY <4>1, <4>3 DEF HasLock
    <3> QED
      BY <3>1, <3>2
  <2>3. Exclusive'
    BY <2>1, <2>2, <1>8 DEF LockInv, Exclusive, Owns
  <2>4. Covered'
    <3>1. Critical(w) => \A i \in 1..Len(t) : t[i].at \in Dest
      BY <1>1, <1>8 DEF LockInv, Covered
    <3>2. ~Critical(w) /\ (\E i \in 1..Len(t) : t[i].at \in Fields) => HasLock(t)
      BY <1>1, <1>8, <2>2, ZenonT(40) DEF LockInv, Covered
    <3> QED
      BY <3>1, <3>2, <1>8 DEF LockInv, Covered
  <2>5. DoneLast'
    <3>1. \A i \in 1..Len(t) : t[i].at = w => pc[w] = "done"
      BY <1>9
    <3>2. \A v \in Threads \ {w} : mem'[v] = mem[v]
      BY <1>1, <1>2, <1>3, <1>4 DEF BufShape
    <3>3. CASE h.at = w
      <4>1. 1 = Len(b) /\ pc[w] = "done"
        BY <3>3, <1>1, <1>4, <1>8 DEF BufShape, LockInv, DoneLast
      <4>2. t = <<>>
        <5>1. Len(t) = 0
          BY <4>1, <1>1
        <5> QED
          BY <5>1, <1>1, EmptySeq
      <4> QED
        BY <3>1, <3>2, <4>1, <4>2, <1>2, <1>8 DEF LockInv, DoneLast
    <3>4. CASE h.at # w
      <4>1. mem'[w] = mem[w] /\ mem[w] # 1
        BY <3>4, <1>1, <1>2, <1>3, <1>8 DEF LockInv, DoneLast
      <4> QED
        BY <3>1, <3>2, <4>1, <1>2, <1>8 DEF LockInv, DoneLast
    <3> QED
      BY <3>3, <3>4
  <2>6. Places'
    BY <1>2, <1>8, <1>1, <1>6 DEF LockInv, Places
  <2> QED
    BY <1>6, <1>7, <2>3, <2>4, <2>5, <2>6 DEF LockInv
<1> QED
  BY <1>10, <1>11

LEMMA NewEpochLock ==
  ASSUME LockInv, NewEpoch
  PROVE  LockInv'
<1>1. PICK st \in Starts : mem' = Reset(st)
  BY DEF NewEpoch
<1>2. \A w \in Threads : buf[w] = <<>>
  BY DEF NewEpoch, AllDone, LockInv, DoneLast
<1>3. buf' = [w \in Threads |-> <<>>] /\ pc' = StartPc /\ edits' = 0
  BY <1>2 DEF NewEpoch, LockInv, TypeOK
<1>4. TypeOK'
  <2>1. mem' \in [Locations -> Int]
    BY <1>1, ResetType
  <2>2. buf' \in [Threads -> Seq(Store)]
    BY <1>3, EmptySeq
  <2> QED
    BY <1>3, <2>1, <2>2, IpvsAssumption DEF NewEpoch, LockInv, TypeOK, StartPc
<1>5. StartState'
  BY <1>1, <1>3 DEF StartState
<1>6. (Shapes /\ Covered /\ Exclusive /\ DoneLast /\ Places)'
  BY <1>5, StartLock, PTL
<1> QED
  BY <1>4, <1>6 DEF LockInv

LEMMA LockStep == LockInv /\ [Next]_vars => LockInv'
<1> SUFFICES ASSUME LockInv, [Next]_vars PROVE LockInv'
  OBVIOUS
<1>1. ASSUME NEW w \in Threads, Step(w) PROVE LockInv'
  BY <1>1, CountLock, CompareLock, LockDestLock, ReleaseLock DEF Step
<1>2. ASSUME NEW w \in Threads, Drain(w) PROVE LockInv'
  BY <1>2, DrainLock
<1>3. CASE EditStep
  BY <1>3, CheckLock, StoreLock, FenceLock DEF EditStep
<1>4. CASE NewEpoch
  BY <1>4, NewEpochLock
<1>5. CASE UNCHANGED vars
  BY <1>5 DEF vars, LockInv, TypeOK, Shapes, BufShape, Covered, Exclusive, DoneLast, Places,
              Critical, Owns, HasLock
<1> QED
  BY <1>1, <1>2, <1>3, <1>4, <1>5 DEF Next

LEMMA LockInvariant == Spec => []LockInv
  BY InitLock, LockStep, PTL DEF Spec

(* A thread that writes, or whose writes are still on their way, has the   *)
(* lock, and no other does either, with or without the fence.              *)
THEOREM PlainReleaseProtects == Spec => []SoleWriter
<1>1. LockInv => SoleWriter
  <2> SUFFICES ASSUME LockInv, NEW w \in Threads, Writing(w)
               PROVE  mem["lock"] = 1 /\ \A v \in Threads \ {w} : ~Writing(v)
    BY DEF SoleWriter
  <2>1. ASSUME NEW v \in Threads, Writing(v) PROVE Owns(v)
    <3>1. DOMAIN buf[v] = 1..Len(buf[v])
      BY Typed, LenProperties
    <3> QED
      BY <2>1, <3>1 DEF Writing, Owns, Critical, LockInv, Covered
  <2> QED
    BY <2>1 DEF LockInv, Exclusive
<1> QED
  BY <1>1, LockInvariant, PTL

-----------------------------------------------------------------------------
(* The values on their way *)

LEMMA PendingEmpty == \A x : Pending(<<>>, x) = {}
  BY DEF Pending

LEMMA PendingDone ==
  ASSUME NEW w \in Threads, NEW b \in Seq(Store), NEW x \in Fields
  PROVE  Pending(b \o <<St(w, 1)>>, x) = Pending(b, x)
<1> DEFINE c == b \o <<St(w, 1)>>
<1>1. St(w, 1) \in Store /\ St(w, 1).at # x
  BY Names, Stores
<1>2. /\ Len(b) \in Nat /\ Len(c) = Len(b) + 1 /\ c[Len(b) + 1] = St(w, 1)
      /\ \A i \in 1..Len(b) : c[i] = b[i]
  BY <1>1, Append1, LenProperties
<1> HIDE DEF c
<1>3. ASSUME NEW i \in 1..Len(c), c[i].at = x PROVE i \in 1..Len(b) /\ c[i] = b[i]
  <2>1. i # Len(b) + 1
    BY <1>1, <1>2, <1>3
  <2> QED
    BY <2>1, <1>2
<1>4. 1..Len(b) \subseteq 1..Len(c)
  BY <1>2
<1>5. Pending(c, x) \subseteq Pending(b, x)
  BY <1>3 DEF Pending
<1>6. Pending(b, x) \subseteq Pending(c, x)
  BY <1>2, <1>4 DEF Pending
<1> QED
  BY <1>5, <1>6 DEF c

LEMMA PendingDrain ==
  ASSUME NEW b \in Seq(Store), b # <<>>, NEW x
  PROVE  /\ Head(b).at # x => Pending(Tail(b), x) = Pending(b, x)
         /\ Head(b).at = x => Pending(b, x) = Pending(Tail(b), x) \cup {Head(b).val}
<1> DEFINE t == Tail(b)
<1>1. /\ Len(b) \in Nat /\ Len(b) >= 1 /\ Head(b) = b[1]
      /\ Len(t) = Len(b) - 1
      /\ \A i \in 1..(Len(b) - 1) : t[i] = b[i + 1]
  BY HeadTail
<1> HIDE DEF t
<1>2. ASSUME NEW i \in 1..Len(t) PROVE i + 1 \in 1..Len(b) /\ t[i] = b[i + 1]
  BY <1>1
<1>3. ASSUME NEW j \in 1..Len(b), j # 1 PROVE \E i \in 1..Len(t) : t[i] = b[j]
  <2>1. j - 1 \in 1..Len(t) /\ j - 1 \in 1..(Len(b) - 1) /\ (j - 1) + 1 = j
    BY <1>1, <1>3
  <2>2. t[j - 1] = b[(j - 1) + 1]
    BY <2>1, <1>1
  <2> QED
    BY <2>1, <2>2
<1>4. 1 \in 1..Len(b)
  BY <1>1
<1>5. Pending(t, x) \subseteq Pending(b, x)
  <2> SUFFICES ASSUME NEW i \in 1..Len(t), t[i].at = x PROVE t[i].val \in Pending(b, x)
    BY DEF Pending
  <2>1. i + 1 \in 1..Len(b) /\ b[i + 1].at = x /\ b[i + 1].val = t[i].val
    BY <1>2
  <2> QED
    BY <2>1 DEF Pending
<1>6. ASSUME NEW v \in Pending(b, x)
      PROVE  v \in Pending(t, x) \/ (Head(b).at = x /\ v = Head(b).val)
  <2>1. PICK j \in 1..Len(b) : b[j].at = x /\ v = b[j].val
    BY <1>6 DEF Pending
  <2>2. CASE j = 1
    BY <2>1, <2>2, <1>1
  <2>3. CASE j # 1
    <3>1. PICK i \in 1..Len(t) : t[i] = b[j]
      BY <2>3, <1>3
    <3>2. t[i].at = x /\ t[i].val = v
      BY <2>1, <3>1
    <3>3. t[i].val \in Pending(t, x)
      BY <3>1, <3>2 DEF Pending
    <3> QED
      BY <3>2, <3>3
  <2> QED
    BY <2>2, <2>3
<1>7. Head(b).at = x => Head(b).val \in Pending(b, x)
  BY <1>1, <1>4 DEF Pending
<1> QED
  BY <1>5, <1>6, <1>7 DEF t

(* The flag that update() computes under the lock is right, and if it      *)
(* stores none the flag is right as it is.                                 *)
LEMMA OverloadAgrees ==
  ASSUME NEW w \in Threads, NEW u \in Int, NEW l \in Int, NEW n \in Int, l <= u
  PROVE  \/ Overload(w, u, l, n) = <<>> /\ \A f : FlagAgrees(f, u, l, n)
         \/ Overload(w, u, l, n) = <<St("flags", 0)>> /\ FlagAgrees(0, u, l, n)
         \/ Overload(w, u, l, n) = <<St("flags", 2)>> /\ FlagAgrees(2, u, l, n)
<1> DEFINE set   == n >= (IF w \in Binders THEN l ELSE u)
           clear == n < (IF w \in Unbinders THEN u ELSE l)
<1>1. CASE u = 0
  BY <1>1 DEF Overload, FlagAgrees
<1>2. CASE u # 0 /\ set
  <2>1. Overload(w, u, l, n) = <<St("flags", 2)>>
    BY <1>2 DEF Overload
  <2>2. n >= l
    BY <1>2
  <2> QED
    BY <1>2, <2>1, <2>2 DEF FlagAgrees
<1>3. CASE u # 0 /\ ~set /\ clear
  <2>1. Overload(w, u, l, n) = <<St("flags", 0)>>
    BY <1>3 DEF Overload
  <2>2. n < u
    BY <1>3
  <2> QED
    BY <1>3, <2>1, <2>2 DEF FlagAgrees
<1>4. CASE u # 0 /\ ~set /\ ~clear
  <2>1. Overload(w, u, l, n) = <<>>
    BY <1>4 DEF Overload
  <2>2. n >= l /\ n < u
    BY <1>4
  <2> QED
    BY <1>4, <2>1, <2>2 DEF FlagAgrees
<1> QED
  BY <1>1, <1>2, <1>3, <1>4

-----------------------------------------------------------------------------
(* The flag *)

LEMMA StartFlag == StartState => Thresholds /\ Ordered /\ Agreement
<1> SUFFICES ASSUME StartState PROVE Thresholds /\ Ordered /\ Agreement
  OBVIOUS
<1> USE Names
<1>1. PICK st \in Starts : mem = Reset(st)
  BY DEF StartState
<1>2. \A w \in Threads : \A x : Pending(buf[w], x) = {}
  BY PendingEmpty DEF StartState
<1>3. pc[Editor] = "check"
  BY DEF StartState, StartPc
<1>4. mem["lv"] <= mem["u"]
  BY <1>1, ResetType, LowValueInt, IpvsAssumption
<1>5. Agrees(mem["flags"])
  BY <1>1, ResetType, IpvsAssumption DEF Agrees
<1> QED
  BY <1>2, <1>3, <1>4, <1>5 DEF Thresholds, Ordered, Agreement, Right

(* A step that puts no thresholds on their way nor lets any arrive. *)
LEMMA QuietDest ==
  ASSUME FlagInv,
         \A v \in Threads : \A x \in Dest : Pending(buf'[v], x) = Pending(buf[v], x),
         mem'["u"] = mem["u"], mem'["lv"] = mem["lv"],
         pc'[Editor] = "fence" <=> pc[Editor] = "fence",
         pc[Editor] = "fence" => edit' = edit,
         pc'[Editor] = "update" => pc[Editor] = "update" /\ buf'[Editor] = buf[Editor]
  PROVE  Thresholds' /\ Ordered'
<1> USE Names DEF FlagInv
<1>1. Thresholds'
  BY DEF Thresholds
<1>2. ASSUME pc[Editor] = "fence" PROVE Ordered'
  BY <1>2 DEF Ordered, Wanted, Dest
<1>3. ASSUME pc[Editor] # "fence" PROVE Ordered'
  BY <1>3 DEF Ordered
<1> QED
  BY <1>1, <1>2, <1>3

LEMMA RightKept ==
  ASSUME Right,
         \A v \in Threads : Pending(buf'[v], "flags") = Pending(buf[v], "flags"),
         \A x \in {"u", "lv", "flags", "total"} : mem'[x] = mem[x]
  PROVE  Right'
  BY DEF Right, NoFlagStore, Agrees

(* A thread adds nothing but its done word. *)
LEMMA KeptFlight ==
  ASSUME LockInv, NEW w \in Threads,
         \A v \in Threads \ {w} : buf'[v] = buf[v],
         buf'[w] = buf[w] \/ buf'[w] = buf[w] \o <<St(w, 1)>>
  PROVE  \A v \in Threads : \A x \in Fields : Pending(buf'[v], x) = Pending(buf[v], x)
<1>1. buf[w] \in Seq(Store)
  BY Typed
<1>2. \A x \in Fields : Pending(buf[w] \o <<St(w, 1)>>, x) = Pending(buf[w], x)
  BY <1>1, PendingDone
<1> QED
  BY <1>2

(* An atomic operation that crosses a threshold sees it. *)
LEMMA CountFlag ==
  ASSUME FlagInv, NEW w \in Threads, Count(w)
  PROVE  Thresholds' /\ Ordered' /\ Agreement'
<1> USE Names
<1>1. LockInv /\ w \in Workers /\ w # Editor
  BY DEF FlagInv, Count, LockInv, Places
<1>2. /\ buf' = buf /\ edit' = edit /\ pc[w] = "count"
      /\ pc' = [pc EXCEPT ![w] = "compare"]
      /\ pc'[Editor] = pc[Editor] /\ pc'[w] = "compare"
      /\ \A v \in Threads \ {w} : pc'[v] = pc[v]
  BY <1>1, Typed DEF Count
<1>3. mem["total"] \in Int /\ mem["u"] \in Int /\ mem["lv"] \in Int
  BY <1>1, Typed DEF Fields
<1>4. /\ \A x \in Locations \ {"total"} : mem'[x] = mem[x]
      /\ mem'["u"] = mem["u"] /\ mem'["lv"] = mem["lv"] /\ mem'["flags"] = mem["flags"]
      /\ w \in Binders => mem'["total"] = mem["total"] + 1 /\ tc'[w] = mem["total"] + 1
      /\ w \in Unbinders => mem'["total"] = mem["total"] - 1 /\ tc'[w] = mem["total"]
      /\ \A v \in Workers \ {w} : tc'[v] = tc[v]
  BY <1>1, Typed, IpvsAssumption, SMTT(30) DEF Count, LockInv, TypeOK, Fields, Locations
<1>5. Thresholds' /\ Ordered'
  BY <1>2, <1>4, QuietDest
<1>6. Fixer => Agreement'
  BY <1>1, <1>2, <1>4 DEF Agreement, Fixer, Workers
<1>7. ASSUME ~Fixer, ~Fixer' PROVE Agreement'
  <2>1. Right
    BY <1>7 DEF FlagInv, Agreement
  <2>2. ASSUME NEW f, Agrees(f) PROVE Agrees(f)'
    <3>1. CASE w \in Binders
      <4>1. mem["total"] + 1 # mem["u"]
        BY <1>2, <1>4, <1>7, <3>1 DEF Fixer
      <4> QED
        BY <1>3, <1>4, <2>2, <3>1, <4>1 DEF Agrees, FlagAgrees
    <3>2. CASE w \in Unbinders
      <4>1. mem["total"] # mem["lv"]
        BY <1>2, <1>4, <1>7, <3>2 DEF Fixer
      <4> QED
        BY <1>3, <1>4, <2>2, <3>2, <4>1 DEF Agrees, FlagAgrees
    <3> QED
      BY <1>1, <3>1, <3>2
  <2>3. \A f : Agrees(f) => Agrees(f)'
    BY <2>2
  <2>4. Right'
    BY <1>2, <1>4, <2>1, <2>3 DEF Right, NoFlagStore, Agrees
  <2> QED
    BY <2>4 DEF Agreement
<1> QED
  BY <1>5, <1>6, <1>7 DEF Agreement

(* Who sees no crossing is nobody's fixer. *)
LEMMA CompareFlag ==
  ASSUME FlagInv, NEW w \in Threads, Compare(w)
  PROVE  Thresholds' /\ Ordered' /\ Agreement'
<1> USE Names
<1>1. LockInv /\ w \in Workers /\ w # Editor /\ buf[w] = <<>> /\ pc[w] = "compare"
  BY DEF FlagInv, Compare, LockInv, Places
<1>2. \A x : Load(w, x) = mem[x]
  BY <1>1, LoadMem
<1>3. mem' = mem /\ edit' = edit /\ tc' = tc
  BY DEF Compare
<1>4. \/ buf' = buf /\ pc' = [pc EXCEPT ![w] = "lock"]
      \/ /\ w \in Binders => tc[w] # mem["u"]
         /\ w \notin Binders => tc[w] # mem["lv"]
         /\ buf' = [buf EXCEPT ![w] = buf[w] \o <<St(w, 1)>>]
         /\ pc' = [pc EXCEPT ![w] = "done"]
  BY <1>1, <1>2, FinishEmpty DEF Compare
<1>5. /\ \A v \in Threads \ {w} : buf'[v] = buf[v] /\ pc'[v] = pc[v]
      /\ buf'[w] = buf[w] \/ buf'[w] = buf[w] \o <<St(w, 1)>>
      /\ pc'[Editor] = pc[Editor] /\ buf'[Editor] = buf[Editor]
  BY <1>1, <1>4, Typed
<1>6. \A v \in Threads : \A x \in Fields : Pending(buf'[v], x) = Pending(buf[v], x)
  BY <1>1, <1>5, KeptFlight
<1>7. Thresholds' /\ Ordered'
  BY <1>3, <1>5, <1>6, QuietDest DEF Dest, Fields
<1>8. pc'[w] = "lock" => Agreement'
  BY <1>1 DEF Agreement, Fixer
<1>9. ASSUME pc'[w] # "lock" PROVE Agreement'
  <2>1. \/ w \in Binders /\ w \notin Unbinders /\ tc[w] # mem["u"]
        \/ w \notin Binders /\ tc[w] # mem["lv"]
    BY <1>1, <1>4, <1>9, Typed, IpvsAssumption
  <2>2. Fixer => Fixer'
    BY <1>1, <1>3, <1>5, <2>1 DEF Fixer, Workers
  <2>3. Right => Right'
    BY <1>3, <1>6, RightKept DEF Fields
  <2> QED
    BY <2>2, <2>3 DEF FlagInv, Agreement
<1> QED
  BY <1>7, <1>8, <1>9

LEMMA LockDestFlag ==
  ASSUME FlagInv, NEW w \in Threads, LockDest(w)
  PROVE  Thresholds' /\ Ordered' /\ Agreement'
<1> USE Names
<1>1. LockInv /\ pc[w] = "lock"
  BY DEF FlagInv, LockDest
<1>2. /\ buf' = buf /\ tc' = tc /\ edit' = edit
      /\ \A v \in Threads \ {w} : pc'[v] = pc[v]
      /\ pc'[w] = IF w = Editor THEN "store" ELSE "update"
      /\ \A x \in {"u", "lv", "flags", "total"} : mem'[x] = mem[x]
  BY <1>1, Typed DEF LockDest
<1>3. Thresholds' /\ Ordered'
  BY <1>1, <1>2, QuietDest
<1>4. Fixer => Fixer'
  BY <1>1, <1>2 DEF Fixer, Workers
<1>5. Right => Right'
  BY <1>2, RightKept
<1> QED
  BY <1>3, <1>4, <1>5 DEF FlagInv, Agreement

LEMMA CheckFlag ==
  ASSUME FlagInv, Check
  PROVE  Thresholds' /\ Ordered' /\ Agreement'
<1> USE Names
<1>1. LockInv /\ pc[Editor] = "check"
  BY DEF FlagInv, Check
<1>2. mem' = mem /\ tc' = tc
  BY DEF Check
<1>3. \/ buf' = buf /\ pc' = [pc EXCEPT ![Editor] = "lock"]
      \/ buf' = buf /\ pc' = pc
      \/ /\ buf' = [buf EXCEPT ![Editor] = buf[Editor] \o <<St(Editor, 1)>>]
         /\ pc' = [pc EXCEPT ![Editor] = "done"]
  BY <1>1, FinishEmpty DEF Check
<1>4. /\ \A v \in Threads \ {Editor} : buf'[v] = buf[v] /\ pc'[v] = pc[v]
      /\ buf'[Editor] = buf[Editor] \/ buf'[Editor] = buf[Editor] \o <<St(Editor, 1)>>
      /\ pc'[Editor] \in {"check", "lock", "done"}
  BY <1>1, <1>3, Typed
<1>5. \A v \in Threads : \A x \in Fields : Pending(buf'[v], x) = Pending(buf[v], x)
  BY <1>1, <1>4, KeptFlight
<1>6. Thresholds' /\ Ordered'
  BY <1>1, <1>2, <1>4, <1>5, QuietDest DEF Dest, Fields
<1>7. Fixer => Fixer'
  BY <1>1, <1>2, <1>4 DEF Fixer, Workers
<1>8. Right => Right'
  BY <1>2, <1>5, RightKept DEF Fields
<1> QED
  BY <1>6, <1>7, <1>8 DEF FlagInv, Agreement

LEMMA StoreFlag ==
  ASSUME FlagInv, StoreThresholds
  PROVE  Thresholds' /\ Ordered' /\ Agreement'
<1> USE Names
<1> DEFINE t == <<St("u", edit.u), St("l", edit.l), St("lv", LowValue(edit))>>
<1>1. LockInv /\ pc[Editor] = "store"
  BY DEF FlagInv, StoreThresholds
<1>2. /\ buf'[Editor] = t /\ edit' = edit
      /\ pc'[Editor] = "fence"
      /\ \A v \in Threads \ {Editor} : buf'[v] = buf[v] /\ pc'[v] = pc[v]
  BY <1>1, StoreLock, Typed DEF StoreThresholds
<1>3. /\ Len(t) = 3 /\ t[1].at = "u" /\ t[2].at = "l" /\ t[3].at = "lv"
      /\ t[1].val = edit.u /\ t[3].val = LowValue(edit)
  BY <1>1, EditStores
<1> HIDE DEF t
<1>4. 1 \in 1..Len(t) /\ 3 \in 1..Len(t) /\ \A i \in 1..Len(t) : i = 1 \/ i = 2 \/ i = 3
  BY <1>3
<1>5. Pending(t, "u") = {edit.u}
  BY <1>3, <1>4 DEF Pending
<1>6. Pending(t, "lv") = {LowValue(edit)}
  BY <1>3, <1>4 DEF Pending
<1>7. Thresholds'
  BY <1>1, <1>2 DEF FlagInv, Thresholds
<1>8. Ordered'
  BY <1>2, <1>5, <1>6 DEF Ordered, Wanted
<1>9. Agreement'
  BY <1>2 DEF Agreement, Fixer
<1> QED
  BY <1>7, <1>8, <1>9

(* Behind the fence the thresholds are in memory. *)
LEMMA FenceFlag ==
  ASSUME FlagInv, FenceEdit, Fence
  PROVE  Thresholds' /\ Ordered' /\ Agreement'
<1> USE Names
<1>1. LockInv /\ pc[Editor] = "fence" /\ buf[Editor] = <<>>
  BY DEF FlagInv, Fence
<1>2. /\ buf' = buf /\ mem' = mem /\ pc'[Editor] = "update"
      /\ \A v \in Threads \ {Editor} : pc'[v] = pc[v]
  BY <1>1, Typed DEF Fence
<1>3. \A v \in Threads : \A x \in Dest : Pending(buf[v], x) = {}
  BY <1>1, PendingEmpty DEF FlagInv, Thresholds
<1>4. Thresholds'
  BY <1>1, <1>2, <1>3 DEF Thresholds
<1>5. mem["u"] = edit.u /\ mem["lv"] = LowValue(edit)
  BY <1>1, <1>3 DEF FlagInv, Ordered, Wanted, Dest
<1>6. Ordered'
  <2>1. edit.u \in Nat /\ edit.l \in Nat /\ edit.l <= edit.u
    BY <1>1, IpvsAssumption DEF LockInv, TypeOK
  <2>2. LowValue(edit) <= edit.u
    BY <2>1, LowValueInt
  <2> QED
    BY <1>2, <1>5, <2>2 DEF Ordered
<1>7. Agreement'
  BY <1>2 DEF Agreement, Fixer
<1> QED
  BY <1>4, <1>6, <1>7

(* Under the lock update() sees the thresholds in memory, and nobody else  *)
(* has a flag on its way.                                                  *)
LEMMA ReleaseFlag ==
  ASSUME FlagInv, NEW w \in Threads, Release(w)
  PROVE  Thresholds' /\ Ordered' /\ Agreement'
<1> USE Names
<1> DEFINE s == UpdateStores(w)
           c == Released(w)
<1>1. /\ LockInv /\ pc[w] = "update" /\ mem' = mem /\ tc' = tc /\ edit' = edit
      /\ pc[Editor] # "fence" /\ (w # Editor => pc[Editor] # "update")
  BY DEF FlagInv, Release, LockInv, Exclusive, Owns, Critical
<1>2. \A v \in Threads : \A x \in Dest : Pending(buf[v], x) = {}
  BY <1>1 DEF FlagInv, Thresholds
<1>3. \A i \in 1..Len(buf[w]) : buf[w][i].at \in Dest
  BY <1>1 DEF LockInv, Covered, Critical
<1>4. Len(buf[w]) \in Nat /\ \A i \in 1..Len(buf[w]) : FALSE
  <2>1. ASSUME NEW i \in 1..Len(buf[w]) PROVE FALSE
    <3>1. buf[w][i].val \in Pending(buf[w], buf[w][i].at)
      BY DEF Pending
    <3> QED
      BY <1>2, <1>3, <3>1
  <2> QED
    BY <1>1, <2>1, Typed
<1>5. /\ c \in Seq(Store)
      /\ \A i \in 1..Len(c) : c[i].at \notin Dest
      /\ \A i \in 1..Len(c) : c[i].at = "flags" => s # <<>> /\ c[i] = s[1]
      /\ s # <<>> => \E i \in 1..Len(c) : c[i].at = "flags"
      /\ \/ /\ w = Editor /\ buf' = [buf EXCEPT ![w] = c]
            /\ pc' = [pc EXCEPT ![w] = "check"]
         \/ /\ buf' = [buf EXCEPT ![w] = c \o <<St(w, 1)>>]
            /\ pc' = [pc EXCEPT ![w] = "done"]
  BY <1>1, <1>4, ReleaseBuf
<1> HIDE DEF c
<1>6. /\ \A v \in Threads \ {w} : buf'[v] = buf[v] /\ pc'[v] = pc[v]
      /\ buf'[w] = c \/ buf'[w] = c \o <<St(w, 1)>>
      /\ pc'[w] \in {"check", "done"}
  BY <1>1, <1>5, Typed
<1>7. \A x \in Fields : Pending(buf'[w], x) = Pending(c, x)
  <2>1. \A x \in Fields : Pending(c \o <<St(w, 1)>>, x) = Pending(c, x)
    BY <1>5, PendingDone
  <2> QED
    BY <1>6, <2>1
<1>8. \A x \in Dest : Pending(buf'[w], x) = {}
  <2>1. \A x \in Dest : \A i \in 1..Len(c) : c[i].at # x
    BY <1>5
  <2>2. \A x \in Dest : Pending(c, x) = {}
    BY <2>1 DEF Pending
  <2> QED
    BY <1>7, <2>2 DEF Dest, Fields
<1>9. Thresholds' /\ Ordered'
  BY <1>1, <1>2, <1>6, <1>8, QuietDest
<1>10. /\ Load(w, "u") = mem["u"] /\ Load(w, "lv") = mem["lv"]
       /\ mem["u"] \in Int /\ mem["lv"] \in Int /\ mem["total"] \in Int
       /\ mem["lv"] <= mem["u"]
  BY <1>1, <1>4, LoadMem, Typed DEF Fields, FlagInv, Ordered
<1>11. \/ s = <<>> /\ \A f : Agrees(f)
       \/ s = <<St("flags", 0)>> /\ Agrees(0)
       \/ s = <<St("flags", 2)>> /\ Agrees(2)
  BY <1>10, OverloadAgrees DEF UpdateStores, Agrees
<1>12. s # <<>> => s[1].at = "flags" /\ Agrees(s[1].val)
  BY <1>11, Stores DEF Locations, Fields
<1>13. s = <<>> => \A f : Agrees(f)
  BY <1>11
<1> HIDE DEF s
<1>14. \A f \in Pending(c, "flags") : Agrees(f)
  <2> TAKE f \in Pending(c, "flags")
  <2>1. PICK i \in 1..Len(c) : c[i].at = "flags" /\ f = c[i].val
    BY DEF Pending
  <2> QED
    BY <1>5, <1>12, <2>1
<1>15. ASSUME s # <<>> PROVE Pending(c, "flags") # {}
  <2>1. PICK i \in 1..Len(c) : c[i].at = "flags"
    BY <1>5, <1>15
  <2>2. c[i].val \in Pending(c, "flags")
    BY <2>1 DEF Pending
  <2> QED
    BY <2>2
<1>16. \A v \in Threads \ {w} : Pending(buf[v], "flags") = {}
  <2> SUFFICES ASSUME NEW v \in Threads \ {w}
               PROVE  \A i \in 1..Len(buf[v]) : buf[v][i].at # "flags"
    BY DEF Pending
  <2>1. ~Owns(v)
    BY <1>1 DEF LockInv, Exclusive, Owns, Critical
  <2> QED
    BY <1>1, <2>1 DEF LockInv, Covered, Owns, Fields
<1>17. Right'
  <2>1. "flags" \in Fields
    BY DEF Fields
  <2>2. \A f : Agrees(f)' = Agrees(f)
    BY <1>1 DEF Agrees
  <2>3. NoFlagStore' => Agrees(mem["flags"])
    BY <1>7, <1>13, <1>15, <2>1 DEF NoFlagStore
  <2>4. \A v \in Threads : \A f \in Pending(buf'[v], "flags") : Agrees(f)
    BY <1>6, <1>7, <1>14, <1>16, <2>1
  <2> QED
    BY <1>1, <2>2, <2>3, <2>4 DEF Right, Agrees
<1> QED
  BY <1>9, <1>17 DEF Agreement

LEMMA DrainFlag ==
  ASSUME FlagInv, NEW w \in Threads, Drain(w)
  PROVE  Thresholds' /\ Ordered' /\ Agreement'
<1> USE Names
<1> DEFINE t == Tail(buf[w])
           h == Head(buf[w])
<1>1. LockInv /\ buf[w] \in Seq(Store) /\ buf[w] # <<>>
  BY Typed DEF FlagInv, Drain
<1>2. /\ mem' = [mem EXCEPT ![h.at] = h.val]
      /\ pc' = pc /\ tc' = tc /\ edit' = edit
      /\ \A v \in Threads \ {w} : buf'[v] = buf[v]
      /\ buf'[w] = t
  BY <1>1, Typed DEF Drain
<1>3. h = buf[w][1] /\ h \in Store /\ 1 \in 1..Len(buf[w])
  BY <1>1, HeadTail
<1>4. h.at \in Locations /\ h.at # "total"
  BY <1>1, <1>3 DEF Store, LockInv, Shapes, BufShape
<1>5. \A x : /\ h.at # x => Pending(t, x) = Pending(buf[w], x)
             /\ h.at = x => Pending(buf[w], x) = Pending(t, x) \cup {h.val}
  BY <1>1, PendingDrain
<1> HIDE DEF t, h
<1>6. /\ mem \in [Locations -> Int]
      /\ \A x \in Locations : x # h.at => mem'[x] = mem[x]
      /\ mem'[h.at] = h.val
  BY <1>1, <1>2, <1>4, Typed
<1>7. /\ "u" \in Locations /\ "lv" \in Locations /\ "total" \in Locations
      /\ "flags" \in Locations /\ mem'["total"] = mem["total"]
  BY <1>4, <1>6 DEF Locations, Fields
<1>8. h.at \in Dest => w = Editor /\ pc[Editor] = "fence"
  <2>1. \A x \in Dest : h.at = x => Pending(buf[w], x) # {}
    BY <1>5
  <2> QED
    BY <2>1 DEF FlagInv, Thresholds
<1>9. Thresholds'
  <2>1. \A v \in Threads : \A x : Pending(buf'[v], x) \subseteq Pending(buf[v], x)
    BY <1>2, <1>5
  <2>2. pc[Editor] = "update" => buf'[Editor] = buf[Editor]
    BY <1>1, <1>2 DEF FlagInv, Thresholds
  <2> QED
    BY <1>2, <2>1, <2>2 DEF FlagInv, Thresholds
<1>10. Ordered'
  <2>1. ASSUME NEW x \in {"u", "lv"}, NEW v, Wanted(x, v) PROVE Wanted(x, v)'
    <3>1. x \in Dest /\ x \in Locations
      BY <1>7 DEF Dest
    <3>2. CASE h.at = x
      <4>1. w = Editor /\ h.val \in Pending(buf[Editor], x)
        BY <1>5, <1>8, <3>1, <3>2
      <4>2. mem'[x] = v
        BY <2>1, <1>6, <3>2, <4>1 DEF Wanted
      <4>3. Pending(buf'[Editor], x) \subseteq {v}
        BY <2>1, <1>2, <1>5, <3>2, <4>1 DEF Wanted
      <4> QED
        BY <4>2, <4>3 DEF Wanted
    <3>3. CASE h.at # x
      <4>1. mem'[x] = mem[x]
        BY <1>6, <3>1, <3>3
      <4>2. Pending(buf'[Editor], x) = Pending(buf[Editor], x)
        BY <1>2, <1>5, <3>3
      <4> QED
        BY <2>1, <4>1, <4>2 DEF Wanted
    <3> QED
      BY <3>2, <3>3
  <2>2. CASE pc[Editor] = "fence"
    BY <1>2, <2>1, <2>2 DEF FlagInv, Ordered
  <2>3. CASE pc[Editor] # "fence"
    <3>1. mem'["u"] = mem["u"] /\ mem'["lv"] = mem["lv"]
      BY <1>6, <1>7, <1>8, <2>3 DEF Dest
    <3> QED
      BY <1>2, <2>3, <3>1 DEF FlagInv, Ordered
  <2> QED
    BY <2>2, <2>3
<1>11. CASE h.at \in Dest
  BY <1>2, <1>8, <1>9, <1>10, <1>11 DEF Agreement, Fixer
<1>12. CASE h.at \notin Dest
  <2>1. mem'["u"] = mem["u"] /\ mem'["lv"] = mem["lv"]
    BY <1>6, <1>7, <1>12 DEF Dest
  <2>2. Fixer => Fixer'
    BY <1>2, <2>1 DEF Fixer
  <2>3. \A f : Agrees(f)' = Agrees(f)
    BY <1>7, <2>1 DEF Agrees
  <2>4. ASSUME Right PROVE Right'
    <3>1. \A v \in Threads : \A f \in Pending(buf'[v], "flags") : Agrees(f)
      BY <1>2, <1>5, <2>4 DEF Right
    <3>2. CASE h.at = "flags"
      <4>1. Agrees(h.val)
        BY <1>5, <2>4, <3>2 DEF Right
      <4> QED
        BY <1>6, <1>7, <2>1, <3>1, <3>2, <4>1 DEF Right, Agrees
    <3>3. CASE h.at # "flags"
      <4>1. mem'["flags"] = mem["flags"]
        BY <1>6, <1>7, <3>3
      <4>2. \A v \in Threads : Pending(buf'[v], "flags") = Pending(buf[v], "flags")
        BY <1>2, <1>5, <3>3
      <4> QED
        BY <1>7, <2>1, <2>4, <4>1, <4>2, RightKept
    <3> QED
      BY <3>2, <3>3
  <2> QED
    BY <1>9, <1>10, <2>2, <2>4 DEF FlagInv, Agreement
<1> QED
  BY <1>11, <1>12

LEMMA NewEpochFlag ==
  ASSUME FlagInv, NewEpoch
  PROVE  Thresholds' /\ Ordered' /\ Agreement'
<1>1. \A w \in Threads : buf[w] = <<>>
  BY DEF NewEpoch, AllDone, FlagInv, LockInv, DoneLast
<1>2. StartState'
  BY <1>1 DEF NewEpoch, StartState, FlagInv, LockInv, TypeOK
<1>3. (Thresholds /\ Ordered /\ Agreement)'
  BY <1>2, StartFlag, PTL
<1> QED
  BY <1>3

LEMMA FlagStep == FenceEdit /\ FlagInv /\ [Next]_vars => FlagInv'
<1> SUFFICES ASSUME FenceEdit, FlagInv, [Next]_vars PROVE Thresholds' /\ Ordered' /\ Agreement'
  BY LockStep DEF FlagInv
<1>1. ASSUME NEW w \in Threads, Step(w) PROVE Thresholds' /\ Ordered' /\ Agreement'
  BY <1>1, CountFlag, CompareFlag, LockDestFlag, ReleaseFlag DEF Step
<1>2. ASSUME NEW w \in Threads, Drain(w) PROVE Thresholds' /\ Ordered' /\ Agreement'
  BY <1>2, DrainFlag
<1>3. CASE EditStep
  BY <1>3, CheckFlag, StoreFlag, FenceFlag DEF EditStep
<1>4. CASE NewEpoch
  BY <1>4, NewEpochFlag
<1>5. CASE UNCHANGED vars
  BY <1>5 DEF vars, FlagInv, Thresholds, Ordered, Wanted, Agreement, Fixer, Right, NoFlagStore,
              Agrees
<1> QED
  BY <1>1, <1>2, <1>3, <1>4, <1>5 DEF Next

(* With the fence in the edit no crossing of a threshold is missed: once   *)
(* all threads are done the flag is right.                                 *)
THEOREM FencedEditMissesNothing == FenceEdit => (Spec => []FlagRight)
<1> SUFFICES ASSUME FenceEdit PROVE Spec => []FlagRight
  OBVIOUS
<1>1. Init => FlagInv
  BY InitLock, StartFlag DEF Init, StartState, FlagInv
<1>2. FlagInv /\ [Next]_vars => FlagInv'
  BY FlagStep
<1>3. FlagInv => FlagRight
  <2> SUFFICES ASSUME FlagInv, AllDone
               PROVE  FlagAgrees(mem["flags"], mem["u"], mem["lv"], mem["total"])
    BY DEF FlagRight
  <2>1. \A w \in Threads : pc[w] = "done" /\ buf[w] = <<>>
    BY DEF AllDone, FlagInv, LockInv, DoneLast
  <2>2. NoFlagStore
    BY <2>1, PendingEmpty DEF NoFlagStore
  <2>3. ~Fixer
    BY <2>1, Names DEF Fixer, Threads, Workers
  <2> QED
    BY <2>2, <2>3 DEF FlagInv, Agreement, Right, Agrees
<1> QED
  BY <1>1, <1>2, <1>3, PTL DEF Spec

=============================================================================
