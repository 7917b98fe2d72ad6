--------------------------- MODULE MmCacheProofs ---------------------------
(***************************************************************************)
(* Theorems about MmCache, for every value of its constants: a backing is  *)
(* in one place, the counters are exact, dead CPUs hold no share, and the  *)
(* caches implement BackingPool.                                           *)
(***************************************************************************)
EXTENDS MmCache, FiniteSetTheorems, SequenceTheorems, TLAPS

(* The words of a backing stay below the batch. *)
Words == \A b \in Backings : value[b] \in [Cpus -> -Batch + 1 .. Batch - 1]

(* Who owns a backing, and who counts in it. *)
Owning ==
  \A m \in Mms :
    /\ IF pc[m] \in {"none", "get", "getnode", "alloc"} THEN ext[m] = NoBacking
       ELSE ext[m] \in Backings
    /\ counters[m] = IF pc[m] = "live" THEN ext[m] ELSE NoBacking

(* A live counter, and no other, is on the list of its node. *)
Listed == \A m \in Mms, n \in Nodes : m \in list[n] <=> pc[m] = "live" /\ n = numaNode[m]

(* What no mm counts in reads zero on every CPU. *)
Blank ==
  /\ \A c \in Cpus : \A i \in 1..Len(cpuCache[c]) : value[cpuCache[c][i]] = Zero
  /\ \A n \in Nodes : \A i \in 1..Len(nodeCache[n]) : value[nodeCache[n][i]] = Zero
  /\ \A m \in Mms : pc[m] \in {"attach", "put", "putnode"} => value[ext[m]] = Zero

(* The walk over the nodes' lists has emptied the words it has passed. *)
Dying == dying = {} \/ \E c \in Cpus : dying = {c} /\ visit <= NrNodes
Folded ==
  \A m \in Mms, c \in dying :
    pc[m] = "live" /\ numaNode[m] < visit => value[counters[m]][c] = 0

IInv ==
  /\ TypeOK /\ Words /\ Owning /\ Listed /\ Blank /\ Dying /\ Folded
  /\ OnePlace /\ RssExact /\ DeadHoldNothing

USE MmCacheAssumption DEF Nodes

-----------------------------------------------------------------------------
(* Counting.                                                               *)

LEMMA SlotsFinite ==
  ASSUME NEW cache, NEW keys, IsFiniteSet(keys), NEW max \in Nat, NEW b
  PROVE  IsFiniteSet(Slots(cache, keys, max, b))
<1>1. IsFiniteSet(1..max)
  BY FS_Interval
<1>2. IsFiniteSet(keys \X (1..max))
  BY <1>1, FS_Product
<1> QED
  BY <1>2, FS_Subset DEF Slots

LEMMA PlacesFinite ==
  ASSUME NEW b
  PROVE  /\ IsFiniteSet(Owners(b)) /\ Cardinality(Owners(b)) \in Nat
         /\ IsFiniteSet(CpuSlots(b)) /\ Cardinality(CpuSlots(b)) \in Nat
         /\ IsFiniteSet(NodeSlots(b)) /\ Cardinality(NodeSlots(b)) \in Nat
<1>1. IsFiniteSet(Owners(b))
  BY FS_Subset DEF Owners
<1>2. IsFiniteSet(CpuSlots(b)) /\ IsFiniteSet(NodeSlots(b))
  <2>1. IsFiniteSet(Nodes)
    BY FS_Interval
  <2> QED
    BY <2>1, SlotsFinite DEF CpuSlots, NodeSlots
<1> QED
  BY <1>1, <1>2, FS_CardinalityType

(* What one place says of the others. *)
LEMMA OnlyPlace ==
  ASSUME OnePlace, NEW b \in Backings
  PROVE  /\ b \in pool => Owners(b) = {} /\ CpuSlots(b) = {} /\ NodeSlots(b) = {}
         /\ Owners(b) # {} => b \notin pool /\ CpuSlots(b) = {} /\ NodeSlots(b) = {}
         /\ CpuSlots(b) # {} => b \notin pool /\ Owners(b) = {} /\ NodeSlots(b) = {}
         /\ NodeSlots(b) # {} => b \notin pool /\ Owners(b) = {} /\ CpuSlots(b) = {}
         /\ \A m, k \in Owners(b) : m = k
<1> DEFINE p == IF b \in pool THEN 1 ELSE 0
           o == Cardinality(Owners(b))
           c == Cardinality(CpuSlots(b))
           n == Cardinality(NodeSlots(b))
<1>1. o \in Nat /\ c \in Nat /\ n \in Nat
  BY PlacesFinite
<1>2. p + o + c + n = 1
  BY DEF OnePlace, Places
<1>3. (o = 0 <=> Owners(b) = {}) /\ (c = 0 <=> CpuSlots(b) = {}) /\ (n = 0 <=> NodeSlots(b) = {})
  BY PlacesFinite, FS_EmptySet
<1>4. \A m, k \in Owners(b) : m = k
  <2> SUFFICES ASSUME NEW m \in Owners(b), NEW k \in Owners(b) PROVE m = k
    OBVIOUS
  <2>1. o = 1
    BY <1>1, <1>2, <1>3
  <2> QED
    BY <2>1, PlacesFinite, FS_Singleton
<1> HIDE DEF o, c, n
<1> QED
  BY <1>1, <1>2, <1>3, <1>4

(* A set that gains or loses an element. *)
LEMMA CountChange ==
  ASSUME NEW S, IsFiniteSet(S), NEW T, NEW x, NEW gain \in BOOLEAN, NEW lose \in BOOLEAN,
         gain /\ ~lose => x \notin S /\ T = S \cup {x},
         lose /\ ~gain => x \in S /\ T = S \ {x},
         gain = lose => T = S
  PROVE  /\ Cardinality(S) \in Nat
         /\ Cardinality(T) = Cardinality(S) + (IF gain THEN 1 ELSE 0) - (IF lose THEN 1 ELSE 0)
<1>1. Cardinality(S) \in Nat
  BY FS_CardinalityType
<1>2. CASE gain /\ ~lose
  <2>1. Cardinality(T) = Cardinality(S) + 1
    BY <1>2, FS_AddElement
  <2> QED
    BY <1>1, <1>2, <2>1
<1>3. CASE lose /\ ~gain
  <2>1. Cardinality(T) = Cardinality(S) - 1
    BY <1>3, FS_RemoveElement
  <2> QED
    BY <1>1, <1>3, <2>1
<1>4. CASE gain = lose
  BY <1>1, <1>4
<1> QED
  BY <1>2, <1>3, <1>4

(* A backing that moves from one place to another. *)
LEMMA OwnersChange ==
  ASSUME ext \in [Mms -> Backings \cup {NoBacking}], NEW m \in Mms,
         NEW x \in Backings \cup {NoBacking}, ext' = [ext EXCEPT ![m] = x],
         NEW b \in Backings
  PROVE  Cardinality(Owners(b)') =
           Cardinality(Owners(b)) + (IF x = b THEN 1 ELSE 0) - (IF ext[m] = b THEN 1 ELSE 0)
<1>0. IsFiniteSet(Owners(b))
  BY PlacesFinite
<1> DEFINE gain == x = b
           lose == ext[m] = b
<1>1. gain /\ ~lose => m \notin Owners(b) /\ Owners(b)' = Owners(b) \cup {m}
  BY DEF Owners
<1>2. lose /\ ~gain => m \in Owners(b) /\ Owners(b)' = Owners(b) \ {m}
  BY DEF Owners
<1>3. gain = lose => Owners(b)' = Owners(b)
  BY DEF Owners
<1>4. gain \in BOOLEAN /\ lose \in BOOLEAN
  OBVIOUS
<1> HIDE DEF gain, lose
<1>5. Cardinality(Owners(b)') =
        Cardinality(Owners(b)) + (IF gain THEN 1 ELSE 0) - (IF lose THEN 1 ELSE 0)
  BY <1>0, <1>1, <1>2, <1>3, <1>4, CountChange
<1> QED
  BY <1>5 DEF gain, lose

Caching(cache, keys, max, k) ==
  /\ IsFiniteSet(keys) /\ max \in Nat /\ cache \in [keys -> Seq(Backings)]
  /\ k \in keys

Pops(new, cache, keys, max, k) ==
  /\ Caching(cache, keys, max, k)
  /\ cache[k] # <<>> /\ Len(cache[k]) <= max
  /\ new = [cache EXCEPT ![k] = Popped(@)]

Pushes(new, cache, keys, max, k, x) ==
  /\ Caching(cache, keys, max, k)
  /\ Len(cache[k]) < max /\ x \in Backings
  /\ new = [cache EXCEPT ![k] = Append(@, x)]

LEMMA PopChange ==
  ASSUME NEW new, NEW cache, NEW keys, NEW max, NEW k, Pops(new, cache, keys, max, k),
         NEW b \in Backings
  PROVE  /\ Top(cache[k]) \in Backings
         /\ new \in [keys -> Seq(Backings)] /\ Len(new[k]) = Len(cache[k]) - 1
         /\ \A j \in keys : \A i \in 1..Len(new[j]) : i \in 1..Len(cache[j])
                                                   /\ new[j][i] = cache[j][i]
         /\ Cardinality(Slots(new, keys, max, b)) =
              Cardinality(Slots(cache, keys, max, b)) - (IF Top(cache[k]) = b THEN 1 ELSE 0)
<1> DEFINE q == cache[k]
           n == Len(q)
<1>0. /\ IsFiniteSet(keys) /\ max \in Nat /\ cache \in [keys -> Seq(Backings)] /\ k \in keys
      /\ cache[k] # <<>> /\ Len(cache[k]) <= max /\ new = [cache EXCEPT ![k] = Popped(@)]
  BY DEF Pops, Caching
<1> USE <1>0
<1>1. q \in Seq(Backings) /\ n \in Nat /\ n >= 1 /\ n <= max
  BY EmptySeq
<1>2. Popped(q) \in Seq(Backings) /\ Len(Popped(q)) = n - 1
      /\ \A i \in 1..n - 1 : Popped(q)[i] = q[i]
  <2> HIDE DEF q, n
  <2>0. n - 1 \in Nat /\ n = Len(q)
    BY <1>1 DEF n
  <2>1. \A i \in 1..n - 1 : q[i] \in Backings
    BY <1>1, <2>0
  <2>2. /\ SubSeq(q, 1, n - 1) \in Seq(Backings)
        /\ Len(SubSeq(q, 1, n - 1)) = IF 1 <= n - 1 THEN (n - 1) - 1 + 1 ELSE 0
        /\ \A i \in 1..(n - 1) - 1 + 1 : SubSeq(q, 1, n - 1)[i] = q[1 + i - 1]
    BY <2>0, <2>1, SubSeqProperties
  <2>3. (n - 1) - 1 + 1 = n - 1 /\ \A i \in 1..n - 1 : 1 + i - 1 = i
    BY <2>0
  <2>4. Len(SubSeq(q, 1, n - 1)) = n - 1
    BY <2>0, <2>2
  <2>5. Popped(q) = SubSeq(q, 1, n - 1)
    BY <2>0 DEF Popped
  <2> QED
    BY <2>2, <2>3, <2>4, <2>5
<1>3. Top(q) = q[n] /\ q[n] \in Backings
  BY <1>1 DEF Top
<1>4. new \in [keys -> Seq(Backings)] /\ new[k] = Popped(q)
      /\ \A j \in keys : j # k => new[j] = cache[j]
  BY <1>2
<1> HIDE DEF q, n
<1>5. \A j \in keys : \A i \in 1..Len(new[j]) : i \in 1..Len(cache[j])
                                             /\ new[j][i] = cache[j][i]
  <2>1. \A i \in 1..n - 1 : i \in 1..n
    BY <1>1
  <2> QED
    BY <1>2, <1>4, <2>1 DEF n, q
<1>6. IsFiniteSet(Slots(cache, keys, max, b))
  BY SlotsFinite
<1>7. CASE q[n] = b
  <2>1. <<k, n>> \in Slots(cache, keys, max, b)
    BY <1>1, <1>7 DEF Slots, q, n
  <2>2. Slots(new, keys, max, b) = Slots(cache, keys, max, b) \ {<<k, n>>}
    <3>1. \A j \in keys, i \in 1..max :
            i <= Len(new[j]) /\ new[j][i] = b
              <=> i <= Len(cache[j]) /\ cache[j][i] = b /\ <<j, i>> # <<k, n>>
      <4>1. \A i \in 1..max : i <= n - 1 <=> i <= n /\ i # n
        BY <1>1
      <4>2. \A i \in 1..max : i <= Len(new[k]) /\ new[k][i] = b
                               <=> i <= Len(cache[k]) /\ cache[k][i] = b /\ i # n
        BY <1>1, <1>2, <1>4, <4>1, SMTT(30) DEF n, q
      <4> QED
        BY <1>4, <4>2
    <3> QED
      BY <3>1 DEF Slots
  <2>3. Cardinality(Slots(new, keys, max, b)) = Cardinality(Slots(cache, keys, max, b)) - 1
    <3> DEFINE S == Slots(cache, keys, max, b)
    <3> HIDE DEF S
    <3>1. Cardinality(S \ {<<k, n>>}) = Cardinality(S) - 1
      BY <1>6, <2>1, FS_RemoveElement DEF S
    <3> QED
      BY <2>2, <3>1 DEF S
  <2> QED
    BY <1>2, <1>3, <1>4, <1>5, <1>7, <2>3 DEF q, n
<1>8. CASE q[n] # b
  <2>1. Slots(new, keys, max, b) = Slots(cache, keys, max, b)
    <3>1. \A j \in keys, i \in 1..max :
            i <= Len(new[j]) /\ new[j][i] = b <=> i <= Len(cache[j]) /\ cache[j][i] = b
      <4>1. \A i \in 1..max : i <= n - 1 <=> i <= n /\ i # n
        BY <1>1
      <4>2. \A i \in 1..max : i <= Len(new[k]) /\ new[k][i] = b
                               <=> i <= Len(cache[k]) /\ cache[k][i] = b
        BY <1>1, <1>2, <1>4, <1>8, <4>1 DEF n, q
      <4> QED
        BY <1>4, <4>2
    <3> QED
      BY <3>1 DEF Slots
  <2>2. Cardinality(Slots(cache, keys, max, b)) \in Nat
    BY <1>6, FS_CardinalityType
  <2> QED
    BY <1>2, <1>3, <1>4, <1>5, <1>8, <2>1, <2>2 DEF q, n
<1> QED
  BY <1>7, <1>8

LEMMA PushChange ==
  ASSUME NEW new, NEW cache, NEW keys, NEW max, NEW k, NEW x,
         Pushes(new, cache, keys, max, k, x), NEW b \in Backings
  PROVE  /\ new \in [keys -> Seq(Backings)] /\ Len(new[k]) = Len(cache[k]) + 1
         /\ \A j \in keys : \A i \in 1..Len(new[j]) :
              new[j][i] = x \/ (i \in 1..Len(cache[j]) /\ new[j][i] = cache[j][i])
         /\ Cardinality(Slots(new, keys, max, b)) =
              Cardinality(Slots(cache, keys, max, b)) + (IF x = b THEN 1 ELSE 0)
<1> DEFINE q == cache[k]
           n == Len(q) + 1
<1>0. /\ IsFiniteSet(keys) /\ max \in Nat /\ cache \in [keys -> Seq(Backings)] /\ k \in keys
      /\ Len(cache[k]) < max /\ x \in Backings /\ new = [cache EXCEPT ![k] = Append(@, x)]
  BY DEF Pushes, Caching
<1> USE <1>0
<1>1. q \in Seq(Backings) /\ Len(q) \in Nat /\ n \in 1..max
  OBVIOUS
<1>2. Append(q, x) \in Seq(Backings) /\ Len(Append(q, x)) = n
      /\ Append(q, x)[n] = x /\ \A i \in 1..Len(q) : Append(q, x)[i] = q[i]
  BY <1>1
<1>4. new \in [keys -> Seq(Backings)] /\ new[k] = Append(q, x)
      /\ \A j \in keys : j # k => new[j] = cache[j]
  BY <1>2
<1> HIDE DEF q
<1>5. \A j \in keys : \A i \in 1..Len(new[j]) :
        new[j][i] = x \/ (i \in 1..Len(cache[j]) /\ new[j][i] = cache[j][i])
  <2> SUFFICES ASSUME NEW i \in 1..Len(new[k])
               PROVE  new[k][i] = x \/ (i \in 1..Len(q) /\ new[k][i] = q[i])
    BY <1>4 DEF q
  <2>1. Len(new[k]) = n
    BY <1>2, <1>4
  <2>2. i = n \/ i \in 1..Len(q)
    BY <1>1, <2>1 DEF q
  <2> HIDE DEF n
  <2>3. \A j \in 1..Len(q) : new[k][j] = q[j]
    BY <1>2, <1>4
  <2> QED
    BY <1>2, <1>4, <2>2, <2>3
<1>6. IsFiniteSet(Slots(cache, keys, max, b))
  BY SlotsFinite
<1>7. CASE x = b
  <2>1. <<k, n>> \notin Slots(cache, keys, max, b)
    BY <1>1 DEF Slots, q
  <2>2. Slots(new, keys, max, b) = Slots(cache, keys, max, b) \cup {<<k, n>>}
    <3>1. \A j \in keys, i \in 1..max :
            i <= Len(new[j]) /\ new[j][i] = b
              <=> (i <= Len(cache[j]) /\ cache[j][i] = b) \/ <<j, i>> = <<k, n>>
      BY <1>1, <1>2, <1>4, <1>7 DEF q
    <3> QED
      BY <1>1, <3>1 DEF Slots
  <2>3. Cardinality(Slots(new, keys, max, b)) = Cardinality(Slots(cache, keys, max, b)) + 1
    BY <1>6, <2>1, <2>2, FS_AddElement
  <2> QED
    BY <1>2, <1>4, <1>5, <1>7, <2>3 DEF q
<1>8. CASE x # b
  <2>1. Slots(new, keys, max, b) = Slots(cache, keys, max, b)
    <3>1. \A j \in keys, i \in 1..max :
            i <= Len(new[j]) /\ new[j][i] = b <=> i <= Len(cache[j]) /\ cache[j][i] = b
      BY <1>1, <1>2, <1>4, <1>8 DEF q
    <3> QED
      BY <3>1 DEF Slots
  <2>2. Cardinality(Slots(cache, keys, max, b)) \in Nat
    BY <1>6, FS_CardinalityType
  <2> QED
    BY <1>2, <1>4, <1>5, <1>8, <2>1, <2>2 DEF q
<1> QED
  BY <1>7, <1>8

(* Sums of words. *)
WordsType == [Cpus -> -Batch + 1 .. Batch - 1]

LEMMA AboveSplit ==
  ASSUME NEW f \in WordsType, NEW c \in Cpus
  PROVE  /\ Cardinality(Above(f)) \in Nat /\ Cardinality(Above([f EXCEPT ![c] = 0])) \in Nat
         /\ Cardinality(Above(f)) = Cardinality(Above([f EXCEPT ![c] = 0]))
                                    + (IF f[c] > 0 THEN f[c] ELSE 0)
<1> DEFINE g == [f EXCEPT ![c] = 0]
           mine == {c} \X (1..f[c])
<1>1. f[c] \in Int /\ \A k \in Cpus : f[k] \in Int /\ f[k] <= Batch
  BY DEF WordsType
<1>2. g[c] = 0 /\ \A k \in Cpus : k # c => g[k] = f[k]
  BY DEF WordsType
<1> HIDE DEF g
<1>3. Above(f) = Above(g) \cup mine /\ Above(g) \cap mine = {}
  <2>1. \A k, i : <<k, i>> \in Above(f) <=> k \in Cpus /\ i \in 1..f[k]
    BY DEF Above
  <2>2. \A k, i : <<k, i>> \in Above(g) <=> k \in Cpus /\ i \in 1..g[k]
    BY DEF Above
  <2>3. \A u \in Above(f) \cup Above(g) \cup mine : u = <<u[1], u[2]>>
    BY DEF Above
  <2>4. \A k, i : <<k, i>> \in mine <=> k = c /\ i \in 1..f[c]
    OBVIOUS
  <2>5. 1..g[c] = {}
    BY <1>2
  <2>6. \A k, i : <<k, i>> \in Above(f) <=> <<k, i>> \in Above(g) \/ <<k, i>> \in mine
    <3>1. ASSUME NEW k, NEW i, k = c
          PROVE  <<k, i>> \in Above(f) <=> <<k, i>> \in Above(g) \/ <<k, i>> \in mine
      BY <2>1, <2>2, <2>4, <2>5, <3>1
    <3>2. ASSUME NEW k, NEW i, k # c
          PROVE  <<k, i>> \in Above(f) <=> <<k, i>> \in Above(g) \/ <<k, i>> \in mine
      <4>1. k \in Cpus => g[k] = f[k]
        BY <1>2, <3>2
      <4> QED
        BY <2>1, <2>2, <2>4, <3>2, <4>1
    <3> QED
      BY <3>1, <3>2
  <2>7. \A k, i : ~(<<k, i>> \in Above(g) /\ <<k, i>> \in mine)
    BY <2>2, <2>4, <2>5
  <2> HIDE DEF mine
  <2> QED
    BY <2>3, <2>6, <2>7
<1>4. IsFiniteSet(Above(f))
  <2>1. IsFiniteSet(1..Batch)
    BY FS_Interval
  <2>2. IsFiniteSet(Cpus \X (1..Batch))
    BY <2>1, FS_Product
  <2>3. Above(f) \subseteq Cpus \X (1..Batch)
    BY <1>1 DEF Above
  <2> QED
    BY <2>2, <2>3, FS_Subset
<1>5. IsFiniteSet(Above(g))
  BY <1>3, <1>4, FS_Subset
<1>6. IsFiniteSet(mine) /\ Cardinality(mine) = IF f[c] > 0 THEN f[c] ELSE 0
  <2>1. /\ IsFiniteSet(1..f[c])
        /\ Cardinality(1..f[c]) = IF 1 > f[c] THEN 0 ELSE f[c] - 1 + 1
    BY <1>1, FS_Interval
  <2>2. IsFiniteSet({c}) /\ Cardinality({c}) = 1
    BY FS_Singleton
  <2>3. IsFiniteSet(mine) /\ Cardinality(mine) = Cardinality({c}) * Cardinality(1..f[c])
    BY <2>1, <2>2, FS_Product
  <2> QED
    BY <1>1, <2>1, <2>2, <2>3
<1>7. Cardinality(Above(f)) = Cardinality(Above(g)) + Cardinality(mine)
  <2>1. Cardinality(Above(g) \cup mine) =
          Cardinality(Above(g)) + Cardinality(mine) - Cardinality(Above(g) \cap mine)
    BY <1>5, <1>6, FS_Union
  <2>2. Cardinality(Above(g)) \in Nat /\ Cardinality(mine) \in Nat
    BY <1>5, <1>6, FS_CardinalityType
  <2>3. Cardinality(Above(g) \cap mine) = 0
    BY <1>3, FS_EmptySet
  <2> QED
    BY <1>3, <2>1, <2>2, <2>3
<1> QED
  BY <1>4, <1>5, <1>6, <1>7, FS_CardinalityType DEF g

LEMMA SumSplit ==
  ASSUME NEW f \in WordsType, NEW c \in Cpus
  PROVE  /\ Sum(f) \in Int /\ Sum([f EXCEPT ![c] = 0]) \in Int
         /\ Sum(f) = Sum([f EXCEPT ![c] = 0]) + f[c]
<1> DEFINE g == [f EXCEPT ![c] = 0]
           Neg(h) == [k \in Cpus |-> -h[k]]
<1>1. f[c] \in Int /\ f \in WordsType /\ g \in WordsType
  BY DEF WordsType
<1>2. Neg(f) \in WordsType /\ Neg(g) = [Neg(f) EXCEPT ![c] = 0] /\ Neg(f)[c] = -f[c]
  <2>1. \A k \in Cpus : f[k] \in -Batch + 1 .. Batch - 1
    BY DEF WordsType
  <2>2. \A k \in Cpus : -f[k] \in -Batch + 1 .. Batch - 1
    BY <2>1
  <2>3. Neg(f) \in WordsType
    BY <2>2 DEF WordsType
  <2>4. \A k \in Cpus : g[k] = IF k = c THEN 0 ELSE f[k]
    BY DEF WordsType
  <2> HIDE DEF g
  <2>5. \A k \in Cpus : -g[k] = IF k = c THEN 0 ELSE -f[k]
    BY <2>4
  <2>6. Neg(g) = [Neg(f) EXCEPT ![c] = 0]
    BY <2>5
  <2> QED
    BY <2>3, <2>6
<1>3. Below(f) = Above(Neg(f)) /\ Below(g) = Above(Neg(g))
  BY DEF Below, Above
<1>4. /\ Cardinality(Above(f)) \in Nat /\ Cardinality(Above(g)) \in Nat
      /\ Cardinality(Above(f)) = Cardinality(Above(g)) + (IF f[c] > 0 THEN f[c] ELSE 0)
  BY AboveSplit
<1> HIDE DEF Neg, g
<1>5. /\ Cardinality(Below(f)) \in Nat /\ Cardinality(Below(g)) \in Nat
      /\ Cardinality(Below(f)) = Cardinality(Below(g)) + (IF -f[c] > 0 THEN -f[c] ELSE 0)
  <2> DEFINE nf == Neg(f)
  <2> HIDE DEF nf
  <2>1. nf \in WordsType /\ nf[c] = -f[c] /\ Below(f) = Above(nf)
        /\ Below(g) = Above([nf EXCEPT ![c] = 0])
    BY <1>2, <1>3 DEF nf
  <2>2. /\ Cardinality(Above(nf)) \in Nat /\ Cardinality(Above([nf EXCEPT ![c] = 0])) \in Nat
        /\ Cardinality(Above(nf)) = Cardinality(Above([nf EXCEPT ![c] = 0]))
                                    + (IF nf[c] > 0 THEN nf[c] ELSE 0)
    BY <2>1, AboveSplit
  <2> QED
    BY <2>1, <2>2
<1>6. Sum(f) \in Int /\ Sum(g) \in Int /\ Sum(f) = Sum(g) + f[c]
  BY <1>1, <1>4, <1>5 DEF Sum
<1> QED
  BY <1>6 DEF g

(* One word changes. *)
LEMMA SumChange ==
  ASSUME NEW f \in WordsType, NEW c \in Cpus, NEW w \in -Batch + 1 .. Batch - 1
  PROVE  /\ Sum(f) \in Int /\ [f EXCEPT ![c] = w] \in WordsType
         /\ Sum([f EXCEPT ![c] = w]) = Sum(f) - f[c] + w
<1> DEFINE g == [f EXCEPT ![c] = w]
           z == [f EXCEPT ![c] = 0]
<1>1. g \in WordsType /\ f[c] \in Int /\ w \in Int /\ g[c] = w /\ [g EXCEPT ![c] = 0] = z
  <2>1. g \in WordsType /\ g[c] = w /\ f[c] \in Int /\ w \in Int
    BY DEF WordsType
  <2>2. [g EXCEPT ![c] = 0] = z
    BY DEF WordsType
  <2> QED
    BY <2>1, <2>2
<1>2. Sum(f) \in Int /\ Sum(z) \in Int /\ Sum(f) = Sum(z) + f[c]
  BY SumSplit
<1> HIDE DEF g, z
<1>3. Sum(g) = Sum(z) + w
  BY <1>1, SumSplit
<1>4. Sum(g) = Sum(f) - f[c] + w
  BY <1>1, <1>2, <1>3
<1> QED
  BY <1>1, <1>2, <1>4 DEF g

LEMMA SumZero == Zero \in WordsType /\ Sum(Zero) = 0
<1>1. Zero \in WordsType
  BY DEF Zero, WordsType
<1>2. Above(Zero) = {} /\ Below(Zero) = {}
  BY DEF Above, Below, Zero
<1> QED
  BY <1>1, <1>2, FS_EmptySet DEF Sum

-----------------------------------------------------------------------------
(* The inductive invariant.                                                *)

LEMMA OwnedAlone ==
  ASSUME TypeOK, OnePlace, NEW m \in Mms, ext[m] \in Backings
  PROVE  /\ ext[m] \notin pool
         /\ \A k \in Mms : ext[k] = ext[m] => k = m
         /\ \A c \in Cpus : \A i \in 1..Len(cpuCache[c]) : cpuCache[c][i] # ext[m]
         /\ \A n \in Nodes : \A i \in 1..Len(nodeCache[n]) : nodeCache[n][i] # ext[m]
<1>1. m \in Owners(ext[m])
  BY DEF Owners
<1>2. /\ ext[m] \notin pool /\ CpuSlots(ext[m]) = {} /\ NodeSlots(ext[m]) = {}
      /\ \A k, j \in Owners(ext[m]) : k = j
  BY <1>1, OnlyPlace
<1>3. \A k \in Mms : ext[k] = ext[m] => k = m
  BY <1>1, <1>2 DEF Owners
<1>4. ASSUME NEW c \in Cpus, NEW i \in 1..Len(cpuCache[c]), cpuCache[c][i] = ext[m]
      PROVE  FALSE
  <2>1. Len(cpuCache[c]) \in Nat /\ Len(cpuCache[c]) <= CpuMax
    BY DEF TypeOK, CacheShape, MmShape, HotplugShape
  <2>2. <<c, i>> \in CpuSlots(ext[m])
    BY <1>4, <2>1 DEF CpuSlots, Slots
  <2> QED
    BY <1>2, <2>2
<1>5. ASSUME NEW n \in Nodes, NEW i \in 1..Len(nodeCache[n]), nodeCache[n][i] = ext[m]
      PROVE  FALSE
  <2>1. Len(nodeCache[n]) \in Nat /\ Len(nodeCache[n]) <= NodeMax
    BY DEF TypeOK, CacheShape, MmShape, HotplugShape
  <2>2. <<n, i>> \in NodeSlots(ext[m])
    BY <1>5, <2>1 DEF NodeSlots, Slots
  <2> QED
    BY <1>2, <2>2
<1> QED
  BY <1>2, <1>3, <1>4, <1>5

LEMMA FreeAlone ==
  ASSUME TypeOK, OnePlace, NEW b \in pool
  PROVE  /\ \A k \in Mms : ext[k] # b
         /\ \A c \in Cpus : \A i \in 1..Len(cpuCache[c]) : cpuCache[c][i] # b
         /\ \A n \in Nodes : \A i \in 1..Len(nodeCache[n]) : nodeCache[n][i] # b
<1>0. b \in Backings
  BY DEF TypeOK, CacheShape, MmShape, HotplugShape
<1>1. Owners(b) = {} /\ CpuSlots(b) = {} /\ NodeSlots(b) = {}
  BY <1>0, OnlyPlace
<1>2. \A c \in Cpus : Len(cpuCache[c]) \in Nat /\ Len(cpuCache[c]) <= CpuMax
  BY DEF TypeOK, CacheShape, MmShape, HotplugShape
<1>3. \A n \in Nodes : Len(nodeCache[n]) \in Nat /\ Len(nodeCache[n]) <= NodeMax
  BY DEF TypeOK, CacheShape, MmShape, HotplugShape
<1>4. \A k \in Mms : ext[k] # b
  BY <1>1 DEF Owners
<1>5. ASSUME NEW c \in Cpus, NEW i \in 1..Len(cpuCache[c]), cpuCache[c][i] = b PROVE FALSE
  <2>1. <<c, i>> \in CpuSlots(b)
    BY <1>2, <1>5 DEF CpuSlots, Slots
  <2> QED
    BY <1>1, <2>1
<1>6. ASSUME NEW n \in Nodes, NEW i \in 1..Len(nodeCache[n]), nodeCache[n][i] = b PROVE FALSE
  <2>1. <<n, i>> \in NodeSlots(b)
    BY <1>3, <1>6 DEF NodeSlots, Slots
  <2> QED
    BY <1>1, <2>1
<1> QED
  BY <1>4, <1>5, <1>6

(* The two outcomes of a look in a cache, and of a return to it. *)
LEMMA GetCpuCases ==
  ASSUME IInv, NEW m \in Mms, NEW c \in Cpus, GetCpu(m, c)
  PROVE  /\ pc[m] = "get" /\ ext[m] = NoBacking
         /\ \/ /\ ext' = ext /\ cpuCache' = cpuCache
               /\ pc' = [pc EXCEPT ![m] = "getnode"]
            \/ /\ Top(cpuCache[c]) \in Backings /\ value[Top(cpuCache[c])] = Zero
               /\ ext' = [ext EXCEPT ![m] = Top(cpuCache[c])]
               /\ pc' = [pc EXCEPT ![m] = "attach"]
               /\ cpuCache' \in [Cpus -> Seq(Backings)]
               /\ \A k \in Cpus : Len(cpuCache'[k]) <= CpuMax
               /\ \A j \in Cpus : \A i \in 1..Len(cpuCache'[j]) :
                    i \in 1..Len(cpuCache[j]) /\ cpuCache'[j][i] = cpuCache[j][i]
               /\ \A b \in Backings : Cardinality(CpuSlots(b)') =
                    Cardinality(CpuSlots(b)) - (IF Top(cpuCache[c]) = b THEN 1 ELSE 0)
<1>1. pc[m] = "get" /\ ext[m] = NoBacking
  BY DEF GetCpu, IInv, Owning
<1>2. CASE cpuCache[c] = <<>>
  BY <1>1, <1>2 DEF GetCpu, Goto
<1>3. CASE cpuCache[c] # <<>>
  <2>1. /\ cpuCache' = [cpuCache EXCEPT ![c] = Popped(@)]
        /\ ext' = [ext EXCEPT ![m] = Top(cpuCache[c])]
        /\ pc' = [pc EXCEPT ![m] = "attach"]
    BY <1>3 DEF GetCpu, Goto
  <2>2. /\ cpuCache \in [Cpus -> Seq(Backings)]
        /\ \A k \in Cpus : Len(cpuCache[k]) \in Nat /\ Len(cpuCache[k]) <= CpuMax
    BY SMTT(30) DEF IInv, TypeOK, CacheShape, MmShape, HotplugShape
  <2>3. \A b \in Backings :
          /\ Top(cpuCache[c]) \in Backings
          /\ cpuCache' \in [Cpus -> Seq(Backings)] /\ Len(cpuCache'[c]) = Len(cpuCache[c]) - 1
          /\ \A j \in Cpus : \A i \in 1..Len(cpuCache'[j]) : i \in 1..Len(cpuCache[j])
                                                   /\ cpuCache'[j][i] = cpuCache[j][i]
          /\ Cardinality(Slots(cpuCache', Cpus, CpuMax, b)) =
              Cardinality(Slots(cpuCache, Cpus, CpuMax, b))
              - (IF Top(cpuCache[c]) = b THEN 1 ELSE 0)
    <3>1. Pops(cpuCache', cpuCache, Cpus, CpuMax, c)
      BY <1>3, <2>1, <2>2 DEF Pops, Caching
    <3> QED
      BY <3>1, PopChange, SMTT(30)
  <2>4. Len(cpuCache[c]) \in 1..Len(cpuCache[c]) /\ Top(cpuCache[c]) \in Backings
    <3>1. Len(cpuCache[c]) # 0
      BY <1>3, <2>2, EmptySeq
    <3> QED
      BY <2>2, <3>1 DEF Top
  <2>5. value[Top(cpuCache[c])] = Zero
    BY <2>4 DEF Top, IInv, Blank
  <2>6. \A k \in Cpus : Len(cpuCache'[k]) <= CpuMax
    <3>1. \A k \in Cpus : k # c => cpuCache'[k] = cpuCache[k]
      BY <2>1, <2>2
    <3> QED
      BY <2>2, <2>3, <2>4, <3>1
  <2> QED
    BY <1>1, <2>1, <2>3, <2>4, <2>5, <2>6 DEF CpuSlots
<1> QED
  BY <1>2, <1>3

LEMMA GetNodeCases ==
  ASSUME IInv, NEW m \in Mms, NEW c \in Cpus, GetNode(m, c)
  PROVE  /\ pc[m] = "getnode" /\ ext[m] = NoBacking
         /\ \/ /\ ext' = ext /\ nodeCache' = nodeCache
               /\ pc' = [pc EXCEPT ![m] = "alloc"]
            \/ /\ Top(nodeCache[NodeOf[c]]) \in Backings /\ value[Top(nodeCache[NodeOf[c]])] = Zero
               /\ ext' = [ext EXCEPT ![m] = Top(nodeCache[NodeOf[c]])]
               /\ pc' = [pc EXCEPT ![m] = "attach"]
               /\ nodeCache' \in [Nodes -> Seq(Backings)]
               /\ \A k \in Nodes : Len(nodeCache'[k]) <= NodeMax
               /\ \A j \in Nodes : \A i \in 1..Len(nodeCache'[j]) :
                    i \in 1..Len(nodeCache[j]) /\ nodeCache'[j][i] = nodeCache[j][i]
               /\ \A b \in Backings : Cardinality(NodeSlots(b)') =
                    Cardinality(NodeSlots(b)) - (IF Top(nodeCache[NodeOf[c]]) = b THEN 1 ELSE 0)
<1>0. NodeOf[c] \in Nodes /\ IsFiniteSet(Nodes)
  BY FS_Interval
<1> HIDE DEF Nodes
<1>1. pc[m] = "getnode" /\ ext[m] = NoBacking
  BY DEF GetNode, IInv, Owning
<1>2. CASE nodeCache[NodeOf[c]] = <<>>
  BY <1>1, <1>2 DEF GetNode, Goto
<1>3. CASE nodeCache[NodeOf[c]] # <<>>
  <2>1. /\ nodeCache' = [nodeCache EXCEPT ![NodeOf[c]] = Popped(@)]
        /\ ext' = [ext EXCEPT ![m] = Top(nodeCache[NodeOf[c]])]
        /\ pc' = [pc EXCEPT ![m] = "attach"]
    BY <1>3 DEF GetNode, Goto
  <2>2. /\ nodeCache \in [Nodes -> Seq(Backings)]
        /\ \A k \in Nodes : Len(nodeCache[k]) \in Nat /\ Len(nodeCache[k]) <= NodeMax
    BY DEF IInv, TypeOK, CacheShape, MmShape, HotplugShape
  <2>3. \A b \in Backings :
          /\ Top(nodeCache[NodeOf[c]]) \in Backings
          /\ nodeCache' \in [Nodes -> Seq(Backings)] /\ Len(nodeCache'[NodeOf[c]]) = Len(nodeCache[NodeOf[c]]) - 1
          /\ \A j \in Nodes : \A i \in 1..Len(nodeCache'[j]) : i \in 1..Len(nodeCache[j])
                                                   /\ nodeCache'[j][i] = nodeCache[j][i]
          /\ Cardinality(Slots(nodeCache', Nodes, NodeMax, b)) =
              Cardinality(Slots(nodeCache, Nodes, NodeMax, b))
              - (IF Top(nodeCache[NodeOf[c]]) = b THEN 1 ELSE 0)
    <3>1. Pops(nodeCache', nodeCache, Nodes, NodeMax, NodeOf[c])
      BY <1>0, <1>3, <2>1, <2>2 DEF Pops, Caching
    <3> QED
      BY <3>1, PopChange
  <2>4. Len(nodeCache[NodeOf[c]]) \in 1..Len(nodeCache[NodeOf[c]]) /\ Top(nodeCache[NodeOf[c]]) \in Backings
    <3>1. Len(nodeCache[NodeOf[c]]) # 0
      BY <1>3, <2>2, EmptySeq
    <3> QED
      BY <2>2, <3>1 DEF Top
  <2>5. value[Top(nodeCache[NodeOf[c]])] = Zero
    BY <2>4 DEF Top, IInv, Blank
  <2>6. \A k \in Nodes : Len(nodeCache'[k]) <= NodeMax
    <3>1. \A k \in Nodes : k # NodeOf[c] => nodeCache'[k] = nodeCache[k]
      BY <2>1, <2>2
    <3> QED
      BY <2>2, <2>3, <2>4, <3>1, SMTT(30)
  <2> QED
    BY <1>1, <2>1, <2>3, <2>4, <2>5, <2>6 DEF NodeSlots
<1> QED
  BY <1>2, <1>3

LEMMA PutCpuCases ==
  ASSUME IInv, NEW m \in Mms, NEW c \in Cpus, PutCpu(m, c), Len(cpuCache[c]) < CpuMax
  PROVE  /\ pc[m] = "put" /\ ext[m] \in Backings
         /\ ext' = [ext EXCEPT ![m] = NoBacking] /\ pc' = [pc EXCEPT ![m] = "none"]
         /\ cpuCache' \in [Cpus -> Seq(Backings)]
         /\ \A k \in Cpus : Len(cpuCache'[k]) <= CpuMax
         /\ \A j \in Cpus : \A i \in 1..Len(cpuCache'[j]) :
              \/ cpuCache'[j][i] = ext[m]
              \/ i \in 1..Len(cpuCache[j]) /\ cpuCache'[j][i] = cpuCache[j][i]
         /\ \A b \in Backings : Cardinality(CpuSlots(b)') =
              Cardinality(CpuSlots(b)) + (IF ext[m] = b THEN 1 ELSE 0)
<1>0. c \in Cpus /\ IsFiniteSet(Cpus)
  BY FS_Interval
<1> HIDE DEF Nodes
<1>1. pc[m] = "put" /\ ext[m] \in Backings
  BY DEF PutCpu, IInv, Owning
<1>2. /\ cpuCache' = [cpuCache EXCEPT ![c] = Append(@, ext[m])]
      /\ ext' = [ext EXCEPT ![m] = NoBacking] /\ pc' = [pc EXCEPT ![m] = "none"]
  BY DEF PutCpu, Given, Goto
<1>3. /\ cpuCache \in [Cpus -> Seq(Backings)]
      /\ \A k \in Cpus : Len(cpuCache[k]) \in Nat /\ Len(cpuCache[k]) <= CpuMax
  BY DEF IInv, TypeOK, CacheShape, MmShape, HotplugShape
<1>4. Pushes(cpuCache', cpuCache, Cpus, CpuMax, c, ext[m])
  BY <1>0, <1>1, <1>2, <1>3 DEF Pushes, Caching
<1>5. \A b \in Backings :
        /\ cpuCache' \in [Cpus -> Seq(Backings)]
        /\ Len(cpuCache'[c]) = Len(cpuCache[c]) + 1
        /\ \A j \in Cpus : \A i \in 1..Len(cpuCache'[j]) :
             cpuCache'[j][i] = ext[m] \/ (i \in 1..Len(cpuCache[j]) /\ cpuCache'[j][i] = cpuCache[j][i])
        /\ Cardinality(Slots(cpuCache', Cpus, CpuMax, b)) =
             Cardinality(Slots(cpuCache, Cpus, CpuMax, b)) + (IF ext[m] = b THEN 1 ELSE 0)
  BY <1>4, PushChange
<1>6. \A k \in Cpus : Len(cpuCache'[k]) <= CpuMax
  <2>1. \A k \in Cpus : k # c => cpuCache'[k] = cpuCache[k]
    BY <1>2, <1>3
  <2>2. Len(cpuCache'[c]) = Len(cpuCache[c]) + 1
    BY <1>1, <1>5
  <2> QED
    BY <1>0, <1>3, <2>1, <2>2
<1> QED
  BY <1>1, <1>2, <1>5, <1>6 DEF CpuSlots

LEMMA PutNodeCases ==
  ASSUME IInv, NEW m \in Mms, NEW c \in Cpus, PutNode(m, c), Len(nodeCache[NodeOf[c]]) < NodeMax
  PROVE  /\ pc[m] = "putnode" /\ ext[m] \in Backings
         /\ ext' = [ext EXCEPT ![m] = NoBacking] /\ pc' = [pc EXCEPT ![m] = "none"]
         /\ nodeCache' \in [Nodes -> Seq(Backings)]
         /\ \A k \in Nodes : Len(nodeCache'[k]) <= NodeMax
         /\ \A j \in Nodes : \A i \in 1..Len(nodeCache'[j]) :
              \/ nodeCache'[j][i] = ext[m]
              \/ i \in 1..Len(nodeCache[j]) /\ nodeCache'[j][i] = nodeCache[j][i]
         /\ \A b \in Backings : Cardinality(NodeSlots(b)') =
              Cardinality(NodeSlots(b)) + (IF ext[m] = b THEN 1 ELSE 0)
<1>0. NodeOf[c] \in Nodes /\ IsFiniteSet(Nodes)
  BY FS_Interval
<1> HIDE DEF Nodes
<1>1. pc[m] = "putnode" /\ ext[m] \in Backings
  BY DEF PutNode, IInv, Owning
<1>2. /\ nodeCache' = [nodeCache EXCEPT ![NodeOf[c]] = Append(@, ext[m])]
      /\ ext' = [ext EXCEPT ![m] = NoBacking] /\ pc' = [pc EXCEPT ![m] = "none"]
  BY DEF PutNode, Given, Goto
<1>3. /\ nodeCache \in [Nodes -> Seq(Backings)]
      /\ \A k \in Nodes : Len(nodeCache[k]) \in Nat /\ Len(nodeCache[k]) <= NodeMax
  BY DEF IInv, TypeOK, CacheShape, MmShape, HotplugShape
<1>4. Pushes(nodeCache', nodeCache, Nodes, NodeMax, NodeOf[c], ext[m])
  BY <1>0, <1>1, <1>2, <1>3 DEF Pushes, Caching
<1>5. \A b \in Backings :
        /\ nodeCache' \in [Nodes -> Seq(Backings)]
        /\ Len(nodeCache'[NodeOf[c]]) = Len(nodeCache[NodeOf[c]]) + 1
        /\ \A j \in Nodes : \A i \in 1..Len(nodeCache'[j]) :
             nodeCache'[j][i] = ext[m] \/ (i \in 1..Len(nodeCache[j]) /\ nodeCache'[j][i] = nodeCache[j][i])
        /\ Cardinality(Slots(nodeCache', Nodes, NodeMax, b)) =
             Cardinality(Slots(nodeCache, Nodes, NodeMax, b)) + (IF ext[m] = b THEN 1 ELSE 0)
  BY <1>4, PushChange
<1>6. \A k \in Nodes : Len(nodeCache'[k]) <= NodeMax
  <2>1. \A k \in Nodes : k # NodeOf[c] => nodeCache'[k] = nodeCache[k]
    BY <1>2, <1>3
  <2>2. Len(nodeCache'[NodeOf[c]]) = Len(nodeCache[NodeOf[c]]) + 1
    BY <1>1, <1>5
  <2> QED
    BY <1>0, <1>3, <2>1, <2>2, SMTT(30)
<1> QED
  BY <1>1, <1>2, <1>5, <1>6 DEF NodeSlots


(* The steps, each with what it leaves alone. *)
LEMMA StepCases ==
  ASSUME TypeOK, Next
  PROVE  \/ \E m \in Mms, c \in Cpus :
              \/ GetCpu(m, c) \/ GetNode(m, c) \/ Attach(m, c) \/ PutCpu(m, c)
              \/ PutNode(m, c) \/ (c \in online /\ \E d \in {1, -1} : Add(m, c, d))
         \/ \E m \in Mms : MmInit(m) \/ Alloc(m) \/ AllocFails(m) \/ Detach(m) \/ ZeroAll(m)
         \/ \E c \in Cpus : CpuDown(c) \/ CpuDead(c) \/ CpuUp(c)
<1>1. ASSUME NEW m \in Mms, NEW c \in online, MmStep(m, c)
      PROVE  c \in Cpus
  BY DEF TypeOK, CacheShape, MmShape, HotplugShape
<1> QED
  BY <1>1 DEF Next, MmStep

LEMMA WordsSet ==
  ASSUME CacheShape, NEW b \in Backings, NEW w \in [Cpus -> Int], value' = [value EXCEPT ![b] = w]
  PROVE  /\ value' \in [Backings -> [Cpus -> Int]] /\ value'[b] = w
         /\ \A a \in Backings : a # b => value'[a] = value[a]
  BY DEF CacheShape

LEMMA ZeroWords == Zero \in [Cpus -> Int] /\ \A c \in Cpus : Zero[c] = 0
  BY DEF Zero

(* What a live mm adds to its counter. *)
LEMMA AddFields ==
  ASSUME IInv, NEW m \in Mms, NEW c \in Cpus, NEW d \in {1, -1}, Add(m, c, d)
  PROVE  /\ counters[m] = ext[m] /\ ext[m] \in Backings
         /\ value[ext[m]] \in WordsType
         /\ value' \in [Backings -> [Cpus -> Int]]
         /\ \A a \in Backings : a # ext[m] => value'[a] = value[a]
         /\ \E w \in -Batch + 1 .. Batch - 1 :
              /\ value'[ext[m]] = [value[ext[m]] EXCEPT ![c] = w]
              /\ count' = [count EXCEPT ![m] = @ + (value[ext[m]][c] + d - w)]
<1> DEFINE b == ext[m]
           v == value[b][c] + d
<1>1. counters[m] = b /\ b \in Backings
  BY DEF Add, IInv, Owning
<1>2. value[b] \in WordsType
  BY <1>1 DEF IInv, Words, WordsType
<1>3. value[b][c] \in -Batch + 1 .. Batch - 1 /\ v \in Int
  BY <1>2 DEF WordsType
<1>4. count \in [Mms -> Int] /\ CacheShape
  BY DEF IInv, TypeOK, MmShape
<1>5. \/ /\ v \in -Batch + 1 .. Batch - 1
         /\ value' = [value EXCEPT ![b][c] = v] /\ count' = count
      \/ /\ value' = [value EXCEPT ![b][c] = 0]
         /\ count' = [count EXCEPT ![m] = @ + v]
  BY <1>1 DEF Add
<1> HIDE DEF v, b
<1>6. PICK w \in -Batch + 1 .. Batch - 1 :
        /\ value' = [value EXCEPT ![b][c] = w]
        /\ count' = [count EXCEPT ![m] = @ + (v - w)]
  <2>1. CASE v \in -Batch + 1 .. Batch - 1 /\ value' = [value EXCEPT ![b][c] = v] /\ count' = count
    <3>1. count' = [count EXCEPT ![m] = @ + (v - v)]
      BY <1>3, <1>4, <2>1
    <3> QED
      BY <2>1, <3>1
  <2>2. CASE value' = [value EXCEPT ![b][c] = 0] /\ count' = [count EXCEPT ![m] = @ + v]
    <3>1. 0 \in -Batch + 1 .. Batch - 1 /\ v - 0 = v
      BY <1>3
    <3> QED
      BY <2>2, <3>1
  <2> QED
    BY <1>5, <2>1, <2>2
<1>7. [value[b] EXCEPT ![c] = w] \in [Cpus -> Int]
  BY <1>2 DEF WordsType
<1>8. value' = [value EXCEPT ![b] = [value[b] EXCEPT ![c] = w]]
  BY <1>6
<1>9. /\ value' \in [Backings -> [Cpus -> Int]] /\ value'[b] = [value[b] EXCEPT ![c] = w]
      /\ \A a \in Backings : a # b => value'[a] = value[a]
  <2> DEFINE f == [value[b] EXCEPT ![c] = w]
  <2> HIDE DEF f
  <2>1. f \in [Cpus -> Int] /\ value' = [value EXCEPT ![b] = f]
    BY <1>7, <1>8 DEF f
  <2>2. /\ value' \in [Backings -> [Cpus -> Int]] /\ value'[b] = f
        /\ \A a \in Backings : a # b => value'[a] = value[a]
    BY <1>1, <1>4, <2>1, WordsSet
  <2> QED
    BY <2>2 DEF f
<1>10. \E x \in -Batch + 1 .. Batch - 1 :
         /\ value'[b] = [value[b] EXCEPT ![c] = x]
         /\ count' = [count EXCEPT ![m] = @ + (value[b][c] + d - x)]
  <2>0. v - w = value[b][c] + d - w
    <3>1. v = value[b][c] + d
      BY DEF v
    <3> QED
      BY <1>3, <3>1
  <2>1. count' = [count EXCEPT ![m] = @ + (value[b][c] + d - w)]
    BY <1>6, <2>0
  <2> QED
    BY <1>6, <1>9, <2>1
<1> QED
  BY <1>1, <1>2, <1>9, <1>10 DEF b

LEMMA TypeStep == IInv /\ [Next]_vars => TypeOK'
<1> SUFFICES ASSUME IInv, [Next]_vars PROVE TypeOK'
  OBVIOUS
<1>0. TypeOK /\ CacheShape /\ MmShape /\ HotplugShape
  BY DEF IInv, TypeOK
<1>1. ASSUME UNCHANGED caches, UNCHANGED value PROVE CacheShape'
  BY <1>0, <1>1 DEF CacheShape, caches
<1>2. ASSUME UNCHANGED list, UNCHANGED hotplug PROVE HotplugShape'
  BY <1>0, <1>2 DEF HotplugShape, hotplug
<1>3. ASSUME UNCHANGED mmVars, UNCHANGED rss PROVE MmShape'
  BY <1>0, <1>3 DEF MmShape, mmVars
<1>4. ASSUME NEW m \in Mms, NEW s \in States, NEW b \in Backings \cup {NoBacking},
             Goto(m, s), UNCHANGED <<counters, count, numaNode, rss>>,
             ext' = ext \/ ext' = [ext EXCEPT ![m] = b]
      PROVE  MmShape'
  BY <1>0, <1>4 DEF MmShape, Goto
<1>5. ASSUME NEW m \in Mms, NEW c \in Cpus, GetCpu(m, c) PROVE TypeOK'
  <2>1. CacheShape'
    BY <1>0, <1>5, GetCpuCases DEF CacheShape, GetCpu
  <2>2. MmShape'
    <3>1. \/ ext' = ext /\ Goto(m, "getnode")
          \/ \E b \in Backings : ext' = [ext EXCEPT ![m] = b] /\ Goto(m, "attach")
      BY <1>5, GetCpuCases DEF Goto
    <3> QED
      BY <1>4, <1>5, <3>1 DEF GetCpu, States
  <2> QED
    BY <1>2, <1>5, <2>1, <2>2 DEF GetCpu, TypeOK
<1>6. ASSUME NEW m \in Mms, NEW c \in Cpus, GetNode(m, c) PROVE TypeOK'
  <2>1. CacheShape'
    BY <1>0, <1>6, GetNodeCases DEF CacheShape, GetNode
  <2>2. MmShape'
    <3>1. \/ ext' = ext /\ Goto(m, "alloc")
          \/ \E b \in Backings : ext' = [ext EXCEPT ![m] = b] /\ Goto(m, "attach")
      BY <1>6, GetNodeCases DEF Goto
    <3> QED
      BY <1>4, <1>6, <3>1 DEF GetNode, States
  <2> QED
    BY <1>2, <1>6, <2>1, <2>2 DEF GetNode, TypeOK
<1>7. ASSUME NEW m \in Mms, NEW c \in Cpus, Attach(m, c) PROVE TypeOK'
  <2>1. ext[m] \in Backings /\ NodeOf[c] \in Nodes
    BY <1>7 DEF IInv, Owning, Attach
  <2>2. MmShape'
    BY <1>0, <1>7, <2>1 DEF MmShape, Attach, Goto, States
  <2>3. HotplugShape'
    BY <1>0, <1>7, <2>1 DEF HotplugShape, Attach, hotplug
  <2> QED
    BY <1>1, <1>7, <2>2, <2>3 DEF TypeOK, Attach
<1>8. ASSUME NEW m \in Mms, NEW c \in Cpus, PutCpu(m, c) PROVE TypeOK'
  <2>1. CASE Len(cpuCache[c]) < CpuMax
    <3>1. CacheShape' /\ MmShape'
      BY <1>0, <1>8, <2>1, PutCpuCases DEF CacheShape, MmShape, States, PutCpu
    <3> QED
      BY <1>2, <1>8, <3>1 DEF PutCpu, TypeOK
  <2>2. CASE ~(Len(cpuCache[c]) < CpuMax)
    BY <1>1, <1>2, <1>4, <1>8, <2>2 DEF TypeOK, PutCpu, caches, States
  <2> QED
    BY <2>1, <2>2
<1>9. ASSUME NEW m \in Mms, NEW c \in Cpus, PutNode(m, c) PROVE TypeOK'
  <2>1. CASE Len(nodeCache[NodeOf[c]]) < NodeMax
    <3>1. CacheShape' /\ MmShape'
      BY <1>0, <1>9, <2>1, PutNodeCases DEF CacheShape, MmShape, States, PutNode
    <3> QED
      BY <1>2, <1>9, <3>1 DEF PutNode, TypeOK
  <2>2. CASE ~(Len(nodeCache[NodeOf[c]]) < NodeMax)
    <3>1. ext[m] \in Backings
      BY <1>9 DEF IInv, Owning, PutNode
    <3>2. CacheShape'
      BY <1>0, <1>9, <2>2, <3>1 DEF CacheShape, PutNode
    <3>3. MmShape'
      BY <1>0, <1>9 DEF MmShape, PutNode, Given, Goto, States
    <3> QED
      BY <1>2, <1>9, <3>2, <3>3 DEF TypeOK, PutNode
  <2> QED
    BY <2>1, <2>2
<1>10. ASSUME NEW m \in Mms, NEW c \in Cpus, NEW d \in {1, -1}, Add(m, c, d) PROVE TypeOK'
  <2>1. counters[m] \in Backings
    BY <1>10 DEF IInv, Owning, Add
  <2>2. value[counters[m]][c] \in Int /\ d \in Int /\ rss[m] \in Int /\ count[m] \in Int
    BY <1>0, <2>1 DEF CacheShape, MmShape
  <2>3. CacheShape'
    BY <1>0, <1>10, AddFields DEF CacheShape, Add, caches
  <2>4. MmShape'
    BY <1>0, <1>10, <2>2 DEF MmShape, Add
  <2> QED
    BY <1>2, <1>10, <2>3, <2>4 DEF TypeOK, Add
<1>11. ASSUME NEW m \in Mms, MmInit(m) \/ AllocFails(m) PROVE TypeOK'
  <2>1. MmShape'
    BY <1>0, <1>11 DEF MmShape, MmInit, AllocFails, Goto, States
  <2> QED
    BY <1>1, <1>2, <1>11, <2>1 DEF TypeOK, MmInit, AllocFails
<1>12. ASSUME NEW m \in Mms, Alloc(m) PROVE TypeOK'
  <2>0. PICK b \in pool : /\ pool' = pool \ {b} /\ value' = [value EXCEPT ![b] = Zero]
                         /\ ext' = [ext EXCEPT ![m] = b]
    BY <1>12 DEF Alloc
  <2>1. b \in Backings
    BY <1>0 DEF CacheShape
  <2>2. CacheShape'
    <3>1. value' \in [Backings -> [Cpus -> Int]]
      BY <1>0, <2>0, <2>1, WordsSet, ZeroWords
    <3> QED
      BY <1>0, <1>12, <2>0, <3>1 DEF CacheShape, Alloc
  <2>3. MmShape'
    BY <1>4, <1>12, <2>0, <2>1 DEF Alloc, States
  <2> QED
    BY <1>2, <1>12, <2>2, <2>3 DEF TypeOK, Alloc
<1>13. ASSUME NEW m \in Mms, Detach(m) PROVE TypeOK'
  <2>1. MmShape' /\ HotplugShape'
    BY <1>0, <1>13 DEF MmShape, HotplugShape, Detach, Goto, States, hotplug
  <2> QED
    BY <1>1, <1>13, <2>1 DEF TypeOK, Detach
<1>14. ASSUME NEW m \in Mms, ZeroAll(m) PROVE TypeOK'
  <2>1. value' = [value EXCEPT ![ext[m]] = Zero] /\ UNCHANGED caches
    BY <1>14 DEF ZeroAll
  <2>2. CacheShape'
    <3>1. ext[m] \in Backings
      BY <1>14 DEF IInv, Owning, ZeroAll
    <3>2. value' \in [Backings -> [Cpus -> Int]]
      BY <1>0, <2>1, <3>1, WordsSet, ZeroWords
    <3> QED
      BY <1>0, <2>1, <3>2 DEF CacheShape, caches
  <2>3. MmShape'
    BY <1>0, <1>14 DEF MmShape, ZeroAll, Goto, States
  <2> QED
    BY <1>2, <1>14, <2>2, <2>3 DEF TypeOK, ZeroAll
<1>15. ASSUME NEW c \in Cpus, CpuDown(c) PROVE TypeOK'
  <2>1. HotplugShape'
    BY <1>0, <1>15 DEF HotplugShape, CpuDown
  <2> QED
    BY <1>1, <1>3, <1>15, <2>1 DEF TypeOK, CpuDown
<1>16. ASSUME NEW c \in Cpus, CpuUp(c) PROVE TypeOK'
  <2>1. HotplugShape'
    BY <1>0, <1>16 DEF HotplugShape, CpuUp
  <2> QED
    BY <1>1, <1>3, <1>16, <2>1 DEF TypeOK, CpuUp
<1>17. ASSUME NEW c \in Cpus, CpuDead(c) PROVE TypeOK'
  <2> DEFINE folded == {m \in list[visit] : counters[m] # NoBacking}
  <2>1. visit \in Nodes
    BY <1>0, <1>17 DEF IInv, Dying, CpuDead, HotplugShape
  <2>2. \A m \in folded : m \in Mms /\ counters[m] \in Backings
    BY <1>0, <2>1 DEF HotplugShape, MmShape
  <2>3. count' = [m \in Mms |-> count[m] + (IF m \in folded THEN value[counters[m]][c] ELSE 0)]
    BY <1>17 DEF CpuDead
  <2>4. value' = [b \in Backings |->
                    IF \E m \in folded : counters[m] = b THEN [value[b] EXCEPT ![c] = 0]
                    ELSE value[b]]
    BY <1>17 DEF CpuDead
  <2> HIDE DEF folded
  <2>5. MmShape'
    BY <1>0, <1>17, <2>2, <2>3, SMTT(30) DEF MmShape, CacheShape, CpuDead
  <2>6. CacheShape'
    BY <1>0, <1>17, <2>4 DEF CacheShape, CpuDead, caches
  <2>7. HotplugShape'
    BY <1>0, <1>17, <2>1 DEF HotplugShape, CpuDead
  <2> QED
    BY <2>5, <2>6, <2>7 DEF TypeOK
<1>18. CASE UNCHANGED vars
  BY <1>1, <1>2, <1>3, <1>18 DEF TypeOK, vars
<1> QED
  BY <1>0, <1>5, <1>6, <1>7, <1>8, <1>9, <1>10, <1>11, <1>12, <1>13, <1>14, <1>15, <1>16,
     <1>17, <1>18, StepCases

(* Who owns what, and where it is listed. *)
LEMMA OwningStep == IInv /\ [Next]_vars => Owning' /\ Listed'
<1> SUFFICES ASSUME IInv, [Next]_vars PROVE Owning' /\ Listed'
  OBVIOUS
<1>0. TypeOK /\ MmShape /\ HotplugShape /\ Owning /\ Listed
  BY DEF IInv, TypeOK
<1>1. ASSUME NEW m \in Mms, NEW s \in States, Goto(m, s), pc[m] # "live", s # "live",
             UNCHANGED <<counters, numaNode, list>>,
             \/ /\ ext' = ext
                /\ s \in {"none", "get", "getnode", "alloc"} <=> ext[m] = NoBacking
             \/ /\ ext' = [ext EXCEPT ![m] = NoBacking]
                /\ s \in {"none", "get", "getnode", "alloc"}
             \/ \E b \in Backings :
                  /\ ext' = [ext EXCEPT ![m] = b]
                  /\ s \notin {"none", "get", "getnode", "alloc"}
      PROVE  Owning' /\ Listed'
  <2>1. pc' = [pc EXCEPT ![m] = s]
    BY <1>1 DEF Goto
  <2>2. \A k \in Mms : k # m => pc'[k] = pc[k] /\ ext'[k] = ext[k]
    BY <1>0, <1>1, <2>1 DEF MmShape
  <2>3. pc'[m] = s
    BY <1>0, <2>1 DEF MmShape
  <2>4. IF s \in {"none", "get", "getnode", "alloc"} THEN ext'[m] = NoBacking
        ELSE ext'[m] \in Backings
    BY <1>0, <1>1 DEF MmShape
  <2>5. counters[m] = NoBacking
    BY <1>0, <1>1 DEF Owning
  <2> QED
    BY <1>0, <1>1, <2>2, <2>3, <2>4, <2>5 DEF Owning, Listed
<1>2. CASE UNCHANGED <<pc, ext, counters, numaNode, list>>
  BY <1>0, <1>2 DEF Owning, Listed
<1> USE DEF States
<1>3. ASSUME NEW m \in Mms, NEW c \in Cpus, GetCpu(m, c) PROVE Owning' /\ Listed'
  <2>1. \/ ext' = ext /\ Goto(m, "getnode")
        \/ \E b \in Backings : ext' = [ext EXCEPT ![m] = b] /\ Goto(m, "attach")
    BY <1>3, GetCpuCases DEF Goto
  <2>2. pc[m] = "get" /\ ext[m] = NoBacking /\ UNCHANGED <<counters, numaNode, list>>
    BY <1>3, GetCpuCases DEF GetCpu
  <2> QED
    BY <1>1, <2>1, <2>2
<1>4. ASSUME NEW m \in Mms, NEW c \in Cpus, GetNode(m, c) PROVE Owning' /\ Listed'
  <2>1. \/ ext' = ext /\ Goto(m, "alloc")
        \/ \E b \in Backings : ext' = [ext EXCEPT ![m] = b] /\ Goto(m, "attach")
    BY <1>4, GetNodeCases DEF Goto
  <2>2. pc[m] = "getnode" /\ ext[m] = NoBacking /\ UNCHANGED <<counters, numaNode, list>>
    BY <1>4, GetNodeCases DEF GetNode
  <2> QED
    BY <1>1, <2>1, <2>2
<1>5. ASSUME NEW m \in Mms, NEW c \in Cpus, Attach(m, c) PROVE Owning' /\ Listed'
  <2>1. /\ NodeOf[c] \in Nodes /\ pc[m] = "attach" /\ ext[m] \in Backings
        /\ counters' = [counters EXCEPT ![m] = ext[m]] /\ ext' = ext
        /\ numaNode' = [numaNode EXCEPT ![m] = NodeOf[c]]
        /\ list' = [list EXCEPT ![NodeOf[c]] = @ \cup {m}]
        /\ pc' = [pc EXCEPT ![m] = "live"]
    BY <1>0, <1>5 DEF Attach, Goto, Owning
  <2>2. Owning'
    BY <1>0, <2>1 DEF Owning, MmShape
  <2>3. \A k \in Mms, n \in Nodes : k \in list'[n] <=> k \in list[n] \/ (k = m /\ n = NodeOf[c])
    BY <1>0, <2>1 DEF HotplugShape
  <2>4. \A k \in Mms : /\ k # m => pc'[k] = pc[k] /\ numaNode'[k] = numaNode[k]
                       /\ pc'[m] = "live" /\ numaNode'[m] = NodeOf[c]
    BY <1>0, <2>1 DEF MmShape
  <2>5. Listed'
    BY <1>0, <2>1, <2>3, <2>4 DEF Listed
  <2> QED
    BY <2>2, <2>5
<1>6. ASSUME NEW m \in Mms, NEW c \in Cpus, PutCpu(m, c) PROVE Owning' /\ Listed'
  <2>1. pc[m] = "put" /\ UNCHANGED <<counters, numaNode, list>> /\ ext[m] # NoBacking
    BY <1>0, <1>6 DEF PutCpu, Owning
  <2>2. \/ ext' = ext /\ Goto(m, "putnode")
        \/ ext' = [ext EXCEPT ![m] = NoBacking] /\ Goto(m, "none")
    BY <1>6 DEF PutCpu, Given
  <2> QED
    BY <1>1, <2>1, <2>2
<1>7. ASSUME NEW m \in Mms, NEW c \in Cpus, PutNode(m, c) PROVE Owning' /\ Listed'
  <2>1. pc[m] = "putnode" /\ UNCHANGED <<counters, numaNode, list>>
    BY <1>7 DEF PutNode
  <2>2. ext' = [ext EXCEPT ![m] = NoBacking] /\ Goto(m, "none")
    BY <1>7 DEF PutNode, Given
  <2> QED
    BY <1>1, <2>1, <2>2
<1>8. ASSUME NEW m \in Mms, NEW c \in Cpus, NEW d \in {1, -1}, Add(m, c, d)
      PROVE  Owning' /\ Listed'
  BY <1>2, <1>8 DEF Add
<1>9. ASSUME NEW m \in Mms, MmInit(m) PROVE Owning' /\ Listed'
  <2>1. pc[m] = "none" /\ UNCHANGED <<counters, numaNode, list>>
        /\ ext' = [ext EXCEPT ![m] = NoBacking] /\ Goto(m, "get")
    BY <1>9 DEF MmInit
  <2> QED
    BY <1>1, <2>1
<1>10. ASSUME NEW m \in Mms, AllocFails(m) PROVE Owning' /\ Listed'
  <2>1. pc[m] = "alloc" /\ UNCHANGED <<counters, numaNode, list, ext>> /\ Goto(m, "none")
        /\ ext[m] = NoBacking
    BY <1>0, <1>10 DEF AllocFails, Owning
  <2> QED
    BY <1>1, <2>1
<1>11. ASSUME NEW m \in Mms, Alloc(m) PROVE Owning' /\ Listed'
  <2>1. PICK b \in pool : ext' = [ext EXCEPT ![m] = b]
    BY <1>11 DEF Alloc
  <2>2. pc[m] = "alloc" /\ UNCHANGED <<counters, numaNode, list>> /\ Goto(m, "attach")
    BY <1>11 DEF Alloc
  <2>3. b \in Backings
    BY <1>0 DEF TypeOK, CacheShape
  <2> QED
    BY <1>1, <2>1, <2>2, <2>3
<1>12. ASSUME NEW m \in Mms, Detach(m) PROVE Owning' /\ Listed'
  <2>1. /\ pc[m] = "live" /\ ext' = ext /\ numaNode' = numaNode /\ numaNode[m] \in Nodes
        /\ counters' = [counters EXCEPT ![m] = NoBacking]
        /\ list' = [list EXCEPT ![numaNode[m]] = @ \ {m}]
        /\ pc' = [pc EXCEPT ![m] = "zero"]
    BY <1>0, <1>12 DEF Detach, Goto, MmShape
  <2>2. Owning'
    BY <1>0, <2>1 DEF Owning, MmShape
  <2>3. \A k \in Mms, n \in Nodes :
          k \in list'[n] <=> k \in list[n] /\ ~(k = m /\ n = numaNode[m])
    BY <1>0, <2>1 DEF HotplugShape
  <2>4. \A k \in Mms : /\ k # m => pc'[k] = pc[k]
                       /\ pc'[m] = "zero"
    BY <1>0, <2>1 DEF MmShape
  <2>5. Listed'
    BY <1>0, <2>1, <2>3, <2>4 DEF Listed
  <2> QED
    BY <2>2, <2>5
<1>13. ASSUME NEW m \in Mms, ZeroAll(m) PROVE Owning' /\ Listed'
  <2>1. pc[m] = "zero" /\ UNCHANGED <<counters, numaNode, list, ext>> /\ Goto(m, "put")
        /\ ext[m] # NoBacking
    BY <1>0, <1>13 DEF ZeroAll, Owning
  <2> QED
    BY <1>1, <2>1
<1>14. ASSUME NEW c \in Cpus, CpuDown(c) \/ CpuDead(c) \/ CpuUp(c) PROVE Owning' /\ Listed'
  BY <1>2, <1>14 DEF CpuDown, CpuDead, CpuUp, mmVars
<1>15. CASE UNCHANGED vars
  BY <1>2, <1>15 DEF vars, mmVars
<1> QED
  BY <1>0, <1>3, <1>4, <1>5, <1>6, <1>7, <1>8, <1>9, <1>10, <1>11, <1>12, <1>13, <1>14,
     <1>15, StepCases

(* A backing that leaves one place enters another. *)
LEMMA PlaceStep == IInv /\ [Next]_vars => OnePlace'
<1> SUFFICES ASSUME IInv, [Next]_vars PROVE OnePlace'
  OBVIOUS
<1>0. /\ TypeOK /\ OnePlace /\ ext \in [Mms -> Backings \cup {NoBacking}]
      /\ pool \subseteq Backings
  BY DEF IInv, TypeOK, MmShape, CacheShape
<1>1. ASSUME UNCHANGED ext, UNCHANGED caches PROVE OnePlace'
  BY <1>0, <1>1 DEF OnePlace, Places, Owners, CpuSlots, NodeSlots, Slots, caches
<1> SUFFICES ASSUME NEW b \in Backings, ~(UNCHANGED ext /\ UNCHANGED caches)
             PROVE  Places(b)' = 1
  BY <1>1 DEF OnePlace
<1> DEFINE o == Cardinality(Owners(b))
           p == Cardinality(CpuSlots(b))
           n == Cardinality(NodeSlots(b))
           One(x) == IF x = b THEN 1 ELSE 0
           Free == IF b \in pool THEN 1 ELSE 0
<1>2. o \in Nat /\ p \in Nat /\ n \in Nat /\ Free \in Nat /\ Free + o + p + n = 1
  BY <1>0, PlacesFinite DEF OnePlace, Places
<1>3. Places(b)' = Free' + o' + p' + n'
  BY DEF Places
<1>4. UNCHANGED cpuCache => p' = p
  BY DEF CpuSlots, Slots
<1>5. UNCHANGED nodeCache => n' = n
  BY DEF NodeSlots, Slots
<1>6. UNCHANGED pool => Free' = Free
  OBVIOUS
<1>7. ASSUME NEW m \in Mms, NEW x \in Backings \cup {NoBacking}, ext' = [ext EXCEPT ![m] = x]
      PROVE  o' = o + One(x) - One(ext[m])
  BY <1>0, <1>7, OwnersChange
<1>8. One(NoBacking) = 0 /\ \A x : One(x) \in Nat
  BY <1>0
<1> HIDE DEF o, p, n, One, Free
<1>9. ASSUME NEW m \in Mms, NEW c \in Cpus, GetCpu(m, c) PROVE Places(b)' = 1
  <2>1. UNCHANGED <<nodeCache, pool>>
    BY <1>9 DEF GetCpu
  <2>2. PICK x \in Backings : ext' = [ext EXCEPT ![m] = x] /\ p' = p - One(x)
    <3>1. ~(ext' = ext /\ cpuCache' = cpuCache)
      BY <2>1 DEF caches
    <3>2. /\ ext[m] = NoBacking /\ Top(cpuCache[c]) \in Backings
          /\ ext' = [ext EXCEPT ![m] = Top(cpuCache[c])]
          /\ Cardinality(CpuSlots(b)') =
               Cardinality(CpuSlots(b)) - (IF Top(cpuCache[c]) = b THEN 1 ELSE 0)
      BY <1>9, <3>1, GetCpuCases
    <3> QED
      BY <3>2 DEF p, One
  <2>3. ext[m] = NoBacking
    BY <1>9, GetCpuCases
  <2>4. o' = o + One(x)
    <3>1. o' = o + One(x) - One(ext[m])
      BY <1>7, <2>2, <2>3
    <3> QED
      BY <1>2, <1>8, <2>3, <3>1
  <2> QED
    BY <1>2, <1>3, <1>5, <1>6, <1>8, <2>1, <2>2, <2>3, <2>4
<1>10. ASSUME NEW m \in Mms, NEW c \in Cpus, GetNode(m, c) PROVE Places(b)' = 1
  <2>1. UNCHANGED <<cpuCache, pool>>
    BY <1>10 DEF GetNode
  <2>2. PICK x \in Backings : ext' = [ext EXCEPT ![m] = x] /\ n' = n - One(x)
    <3>1. ~(ext' = ext /\ nodeCache' = nodeCache)
      BY <2>1 DEF caches
    <3>2. /\ ext[m] = NoBacking /\ Top(nodeCache[NodeOf[c]]) \in Backings
          /\ ext' = [ext EXCEPT ![m] = Top(nodeCache[NodeOf[c]])]
          /\ Cardinality(NodeSlots(b)') =
               Cardinality(NodeSlots(b)) - (IF Top(nodeCache[NodeOf[c]]) = b THEN 1 ELSE 0)
      BY <1>10, <3>1, GetNodeCases
    <3> QED
      BY <3>2 DEF n, One
  <2>3. ext[m] = NoBacking
    BY <1>10, GetNodeCases
  <2>4. o' = o + One(x)
    <3>1. o' = o + One(x) - One(ext[m])
      BY <1>7, <2>2, <2>3
    <3> QED
      BY <1>2, <1>8, <2>3, <3>1
  <2> QED
    BY <1>2, <1>3, <1>4, <1>6, <1>8, <2>1, <2>2, <2>3, <2>4
<1>11. ASSUME NEW m \in Mms, NEW c \in Cpus, PutCpu(m, c) PROVE Places(b)' = 1
  <2>1. UNCHANGED <<nodeCache, pool>>
    BY <1>11 DEF PutCpu
  <2>2. Len(cpuCache[c]) < CpuMax
    BY <1>11, <2>1 DEF PutCpu, caches
  <2>3. ext[m] \in Backings /\ ext' = [ext EXCEPT ![m] = NoBacking] /\ p' = p + One(ext[m])
    BY <1>11, <2>2, PutCpuCases DEF p, One
  <2>4. o' = o - One(ext[m])
    <3>1. o' = o + One(NoBacking) - One(ext[m])
      BY <1>7, <2>3
    <3> QED
      BY <1>2, <1>8, <3>1
  <2> QED
    BY <1>2, <1>3, <1>5, <1>6, <1>8, <2>1, <2>3, <2>4
<1>12. ASSUME NEW m \in Mms, NEW c \in Cpus, PutNode(m, c) PROVE Places(b)' = 1
  <2>1. UNCHANGED cpuCache /\ ext' = [ext EXCEPT ![m] = NoBacking] /\ ext[m] \in Backings
    BY <1>12 DEF PutNode, Given, IInv, Owning
  <2>2. o' = o - One(ext[m])
    <3>1. o' = o + One(NoBacking) - One(ext[m])
      BY <1>7, <2>1
    <3> QED
      BY <1>2, <1>8, <3>1
  <2>3. CASE Len(nodeCache[NodeOf[c]]) < NodeMax
    <3>1. n' = n + One(ext[m]) /\ UNCHANGED pool
      BY <1>12, <2>3, PutNodeCases DEF n, One, PutNode
    <3> QED
      BY <1>2, <1>3, <1>4, <1>6, <1>8, <2>1, <2>2, <3>1
  <2>4. CASE ~(Len(nodeCache[NodeOf[c]]) < NodeMax)
    <3>1. pool' = pool \cup {ext[m]} /\ UNCHANGED nodeCache
      BY <1>12, <2>4 DEF PutNode
    <3>2. ext[m] \notin pool
      BY <1>0, <2>1, OwnedAlone
    <3>3. Free' = Free + One(ext[m])
      BY <3>1, <3>2 DEF Free, One
    <3> QED
      BY <1>2, <1>3, <1>4, <1>5, <1>8, <2>1, <2>2, <3>1, <3>3
  <2> QED
    BY <2>3, <2>4
<1>13. ASSUME NEW m \in Mms, Alloc(m) PROVE Places(b)' = 1
  <2>1. UNCHANGED <<cpuCache, nodeCache>> /\ ext[m] = NoBacking
    BY <1>13 DEF Alloc, IInv, Owning
  <2>2. PICK x \in pool : pool' = pool \ {x} /\ ext' = [ext EXCEPT ![m] = x]
    BY <1>13 DEF Alloc
  <2>3. x \in Backings /\ Free' = Free - One(x)
    BY <1>0, <2>2 DEF Free, One
  <2>4. o' = o + One(x)
    <3>1. o' = o + One(x) - One(ext[m])
      BY <1>7, <2>2, <2>3
    <3> QED
      BY <1>2, <1>8, <2>1, <2>3, <3>1
  <2> QED
    BY <1>2, <1>3, <1>4, <1>5, <1>8, <2>1, <2>2, <2>3, <2>4
<1>14. ASSUME NEW m \in Mms, MmInit(m) PROVE FALSE
  <2>1. ext[m] = NoBacking /\ ext' = [ext EXCEPT ![m] = NoBacking] /\ UNCHANGED caches
    BY <1>14 DEF MmInit, IInv, Owning
  <2> QED
    BY <1>0, <2>1
<1>15. ASSUME NEW m \in Mms, AllocFails(m) \/ Detach(m) \/ ZeroAll(m) PROVE FALSE
  BY <1>15 DEF AllocFails, Detach, ZeroAll
<1>16. ASSUME NEW m \in Mms, NEW c \in Cpus,
              Attach(m, c) \/ \E d \in {1, -1} : Add(m, c, d)
       PROVE  FALSE
  BY <1>16 DEF Attach, Add
<1>17. ASSUME NEW c \in Cpus, CpuDown(c) \/ CpuDead(c) \/ CpuUp(c) PROVE FALSE
  BY <1>17 DEF CpuDown, CpuDead, CpuUp, mmVars
<1>18. ~UNCHANGED vars
  BY DEF vars, mmVars
<1> QED
  BY <1>0, <1>9, <1>10, <1>11, <1>12, <1>13, <1>14, <1>15, <1>16, <1>17, <1>18, StepCases

(* Words stay below the batch, and what no mm counts in reads zero. *)
LEMMA WordsStep == IInv /\ [Next]_vars => Words'
<1> SUFFICES ASSUME IInv, [Next]_vars PROVE Words'
  OBVIOUS
<1>0. TypeOK /\ CacheShape /\ Words
  BY DEF IInv, TypeOK
<1>1. CASE UNCHANGED value
  BY <1>0, <1>1 DEF Words
<1>2. ASSUME NEW a \in Backings, value' = [value EXCEPT ![a] = Zero] PROVE Words'
  <2>1. Zero \in WordsType
    BY SumZero
  <2> QED
    BY <1>0, <1>2, <2>1 DEF Words, WordsType, CacheShape
<1>3. ASSUME NEW m \in Mms, NEW c \in Cpus, NEW d \in {1, -1}, Add(m, c, d) PROVE Words'
  <2>1. /\ ext[m] \in Backings /\ value[ext[m]] \in WordsType
        /\ \A a \in Backings : a # ext[m] => value'[a] = value[a]
        /\ \E w \in -Batch + 1 .. Batch - 1 : value'[ext[m]] = [value[ext[m]] EXCEPT ![c] = w]
    BY <1>3, AddFields
  <2>2. value'[ext[m]] \in WordsType
    BY <2>1, SumChange
  <2> QED
    BY <1>0, <2>1, <2>2 DEF Words, WordsType
<1>4. ASSUME NEW c \in Cpus, CpuDead(c) PROVE Words'
  <2> SUFFICES ASSUME NEW b \in Backings PROVE value'[b] \in WordsType
    BY DEF Words, WordsType
  <2>1. value'[b] = value[b] \/ value'[b] = [value[b] EXCEPT ![c] = 0]
    BY <1>4 DEF CpuDead
  <2>2. value[b] \in WordsType
    BY <1>0 DEF Words, WordsType
  <2>3. 0 \in -Batch + 1 .. Batch - 1
    OBVIOUS
  <2> QED
    BY <2>1, <2>2, <2>3, SumChange
<1>5. ASSUME NEW m \in Mms, Alloc(m) PROVE Words'
  BY <1>0, <1>2, <1>5 DEF Alloc, CacheShape
<1>6. ASSUME NEW m \in Mms, ZeroAll(m) PROVE Words'
  <2>1. ext[m] \in Backings /\ value' = [value EXCEPT ![ext[m]] = Zero]
    BY <1>6 DEF ZeroAll, IInv, Owning
  <2> QED
    BY <1>2, <2>1
<1>7. ASSUME NEW m \in Mms, NEW c \in Cpus,
             GetCpu(m, c) \/ GetNode(m, c) \/ Attach(m, c) \/ PutCpu(m, c) \/ PutNode(m, c)
      PROVE  Words'
  BY <1>1, <1>7 DEF GetCpu, GetNode, Attach, PutCpu, PutNode
<1>8. ASSUME NEW m \in Mms, MmInit(m) \/ AllocFails(m) \/ Detach(m) PROVE Words'
  BY <1>1, <1>8 DEF MmInit, AllocFails, Detach
<1>9. ASSUME NEW c \in Cpus, CpuDown(c) \/ CpuUp(c) PROVE Words'
  BY <1>1, <1>9 DEF CpuDown, CpuUp
<1>10. CASE UNCHANGED vars
  BY <1>1, <1>10 DEF vars
<1> QED
  BY <1>0, <1>3, <1>4, <1>5, <1>6, <1>7, <1>8, <1>9, <1>10, StepCases

LEMMA BlankStep == IInv /\ [Next]_vars => Blank'
<1> SUFFICES ASSUME IInv, [Next]_vars PROVE Blank'
  OBVIOUS
<1>0. /\ TypeOK /\ OnePlace /\ CacheShape /\ MmShape /\ Owning /\ Blank
      /\ pc \in [Mms -> States] /\ ext \in [Mms -> Backings \cup {NoBacking}]
  BY DEF IInv, TypeOK, MmShape
<1> DEFINE Idle == {"attach", "put", "putnode"}
<1>2. ASSUME UNCHANGED value,
             \A c \in Cpus : \A i \in 1..Len(cpuCache'[c]) : value[cpuCache'[c][i]] = Zero,
             \A n \in Nodes : \A i \in 1..Len(nodeCache'[n]) : value[nodeCache'[n][i]] = Zero,
             \A m \in Mms : pc'[m] \in Idle => value[ext'[m]] = Zero
      PROVE  Blank'
  BY <1>2 DEF Blank
<1>3. /\ \A c \in Cpus : \A i \in 1..Len(cpuCache[c]) : value[cpuCache[c][i]] = Zero
      /\ \A n \in Nodes : \A i \in 1..Len(nodeCache[n]) : value[nodeCache[n][i]] = Zero
      /\ \A m \in Mms : pc[m] \in Idle => value[ext[m]] = Zero
  BY <1>0 DEF Blank
<1>4. ASSUME UNCHANGED <<value, cpuCache, nodeCache>>,
             \A m \in Mms : pc'[m] \in Idle => pc[m] \in Idle /\ ext'[m] = ext[m]
      PROVE  Blank'
  <2>1. \A m \in Mms : pc'[m] \in Idle => value[ext'[m]] = Zero
    BY <1>3, <1>4
  <2> HIDE DEF Idle
  <2> QED
    BY <1>2, <1>3, <1>4, <2>1
(* A backing that none of the caches has is written to. *)
<1>5. ASSUME NEW a \in Backings, UNCHANGED <<cpuCache, nodeCache>>,
             \A b \in Backings : b # a => value'[b] = value[b],
             \A c \in Cpus : \A i \in 1..Len(cpuCache[c]) : cpuCache[c][i] # a,
             \A n \in Nodes : \A i \in 1..Len(nodeCache[n]) : nodeCache[n][i] # a,
             \A m \in Mms : pc'[m] \in Idle => value'[ext'[m]] = Zero
      PROVE  Blank'
  <2>1. ASSUME NEW c \in Cpus, NEW i \in 1..Len(cpuCache[c])
        PROVE  value'[cpuCache'[c][i]] = Zero
    <3>1. cpuCache[c][i] \in Backings /\ cpuCache[c][i] # a /\ cpuCache'[c] = cpuCache[c]
      <4>1. cpuCache[c] \in Seq(Backings)
        BY <1>0 DEF CacheShape
      <4>2. cpuCache[c][i] \in Backings
        BY <4>1
      <4>3. cpuCache[c][i] # a /\ cpuCache'[c] = cpuCache[c]
        BY <1>5
      <4> QED
        BY <4>2, <4>3
    <3> QED
      BY <1>3, <1>5, <3>1
  <2>2. ASSUME NEW n \in Nodes, NEW i \in 1..Len(nodeCache[n])
        PROVE  value'[nodeCache'[n][i]] = Zero
    <3>1. nodeCache[n][i] \in Backings /\ nodeCache[n][i] # a /\ nodeCache'[n] = nodeCache[n]
      <4>1. nodeCache[n] \in Seq(Backings)
        BY <1>0 DEF CacheShape
      <4>2. nodeCache[n][i] \in Backings
        BY <4>1
      <4>3. nodeCache[n][i] # a /\ nodeCache'[n] = nodeCache[n]
        BY <1>5
      <4> QED
        BY <4>2, <4>3
    <3> QED
      BY <1>3, <1>5, <3>1
  <2> HIDE DEF Idle
  <2>3. /\ \A c \in Cpus : \A i \in 1..Len(cpuCache'[c]) : value'[cpuCache'[c][i]] = Zero
        /\ \A n \in Nodes : \A i \in 1..Len(nodeCache'[n]) : value'[nodeCache'[n][i]] = Zero
    BY <1>5, <2>1, <2>2
  <2> QED
    BY <1>5, <2>3 DEF Blank, Idle
<1>6. ASSUME NEW m \in Mms, NEW c \in Cpus, GetCpu(m, c) PROVE Blank'
  <2>0. pc[m] = "get" /\ UNCHANGED <<value, nodeCache>>
    BY <1>6 DEF GetCpu
  <2>1. CASE ext' = ext /\ cpuCache' = cpuCache /\ pc' = [pc EXCEPT ![m] = "getnode"]
    BY <1>0, <1>4, <2>0, <2>1
  <2>2. CASE ~(ext' = ext /\ cpuCache' = cpuCache /\ pc' = [pc EXCEPT ![m] = "getnode"])
    <3> DEFINE x == Top(cpuCache[c])
    <3>1. /\ value[x] = Zero /\ x \in Backings
          /\ ext' = [ext EXCEPT ![m] = x] /\ pc' = [pc EXCEPT ![m] = "attach"]
          /\ \A j \in Cpus : \A i \in 1..Len(cpuCache'[j]) :
               i \in 1..Len(cpuCache[j]) /\ cpuCache'[j][i] = cpuCache[j][i]
      BY <1>6, <2>2, GetCpuCases
    <3> HIDE DEF x
    <3>2. \A k \in Mms : pc'[k] \in Idle => value[ext'[k]] = Zero
      BY <1>0, <1>3, <3>1
    <3>3. \A j \in Cpus : \A i \in 1..Len(cpuCache'[j]) : value[cpuCache'[j][i]] = Zero
      BY <1>3, <3>1, SMTT(30)
    <3> HIDE DEF Idle
    <3> QED
      BY <1>2, <1>3, <2>0, <3>2, <3>3
  <2> QED
    BY <2>1, <2>2
<1>7. ASSUME NEW m \in Mms, NEW c \in Cpus, GetNode(m, c) PROVE Blank'
  <2>0. pc[m] = "getnode" /\ UNCHANGED <<value, cpuCache>>
    BY <1>7 DEF GetNode
  <2>1. CASE ext' = ext /\ nodeCache' = nodeCache /\ pc' = [pc EXCEPT ![m] = "alloc"]
    BY <1>0, <1>4, <2>0, <2>1
  <2>2. CASE ~(ext' = ext /\ nodeCache' = nodeCache /\ pc' = [pc EXCEPT ![m] = "alloc"])
    <3> DEFINE x == Top(nodeCache[NodeOf[c]])
    <3>1. /\ value[x] = Zero /\ x \in Backings
          /\ ext' = [ext EXCEPT ![m] = x] /\ pc' = [pc EXCEPT ![m] = "attach"]
          /\ \A j \in Nodes : \A i \in 1..Len(nodeCache'[j]) :
               i \in 1..Len(nodeCache[j]) /\ nodeCache'[j][i] = nodeCache[j][i]
      BY <1>7, <2>2, GetNodeCases
    <3> HIDE DEF x
    <3>2. \A k \in Mms : pc'[k] \in Idle => value[ext'[k]] = Zero
      BY <1>0, <1>3, <3>1
    <3> HIDE DEF Idle, Nodes
    <3>3. \A j \in Nodes : \A i \in 1..Len(nodeCache'[j]) : value[nodeCache'[j][i]] = Zero
      BY <1>3, <3>1
    <3> QED
      BY <1>2, <1>3, <2>0, <3>2, <3>3
  <2> QED
    BY <2>1, <2>2
<1>8. ASSUME NEW m \in Mms, NEW c \in Cpus, PutCpu(m, c) PROVE Blank'
  <2>0. pc[m] = "put" /\ UNCHANGED <<value, nodeCache>> /\ value[ext[m]] = Zero
    BY <1>3, <1>8 DEF PutCpu
  <2>1. CASE Len(cpuCache[c]) < CpuMax
    <3>1. /\ pc' = [pc EXCEPT ![m] = "none"] /\ ext' = [ext EXCEPT ![m] = NoBacking]
          /\ \A j \in Cpus : \A i \in 1..Len(cpuCache'[j]) :
               \/ cpuCache'[j][i] = ext[m]
               \/ i \in 1..Len(cpuCache[j]) /\ cpuCache'[j][i] = cpuCache[j][i]
      BY <1>8, <2>1, PutCpuCases
    <3>2. \A k \in Mms : pc'[k] \in Idle => value[ext'[k]] = Zero
      BY <1>0, <1>3, <3>1
    <3> HIDE DEF Idle, Nodes
    <3>3. ASSUME NEW j \in Cpus, NEW i \in 1..Len(cpuCache'[j])
          PROVE  value[cpuCache'[j][i]] = Zero
      <4>1. CASE cpuCache'[j][i] = ext[m]
        BY <2>0, <4>1
      <4>2. CASE i \in 1..Len(cpuCache[j]) /\ cpuCache'[j][i] = cpuCache[j][i]
        BY <1>3, <4>2
      <4> QED
        BY <3>1, <4>1, <4>2
    <3> QED
      BY <1>2, <1>3, <2>0, <3>2, <3>3
  <2>2. CASE ~(Len(cpuCache[c]) < CpuMax)
    <3>1. pc' = [pc EXCEPT ![m] = "putnode"] /\ UNCHANGED <<ext, cpuCache>>
      BY <1>8, <2>2 DEF PutCpu, Goto
    <3> QED
      BY <1>0, <1>4, <2>0, <3>1
  <2> QED
    BY <2>1, <2>2
<1>9. ASSUME NEW m \in Mms, NEW c \in Cpus, PutNode(m, c) PROVE Blank'
  <2>0. /\ pc[m] = "putnode" /\ UNCHANGED <<value, cpuCache>> /\ value[ext[m]] = Zero
        /\ pc' = [pc EXCEPT ![m] = "none"] /\ ext' = [ext EXCEPT ![m] = NoBacking]
    BY <1>3, <1>9 DEF PutNode, Given, Goto
  <2>1. CASE Len(nodeCache[NodeOf[c]]) < NodeMax
    <3>1. \A j \in Nodes : \A i \in 1..Len(nodeCache'[j]) :
               \/ nodeCache'[j][i] = ext[m]
               \/ i \in 1..Len(nodeCache[j]) /\ nodeCache'[j][i] = nodeCache[j][i]
      BY <1>9, <2>1, PutNodeCases
    <3>2. \A k \in Mms : pc'[k] \in Idle => value[ext'[k]] = Zero
      BY <1>0, <1>3, <2>0
    <3> HIDE DEF Idle, Nodes
    <3>3. ASSUME NEW j \in Nodes, NEW i \in 1..Len(nodeCache'[j])
          PROVE  value[nodeCache'[j][i]] = Zero
      <4>1. CASE nodeCache'[j][i] = ext[m]
        BY <2>0, <4>1
      <4>2. CASE i \in 1..Len(nodeCache[j]) /\ nodeCache'[j][i] = nodeCache[j][i]
        BY <1>3, <4>2
      <4> QED
        BY <3>1, <4>1, <4>2
    <3> QED
      BY <1>2, <1>3, <2>0, <3>2, <3>3
  <2>2. CASE ~(Len(nodeCache[NodeOf[c]]) < NodeMax)
    <3>1. UNCHANGED nodeCache
      BY <1>9, <2>2 DEF PutNode
    <3> QED
      BY <1>0, <1>4, <2>0, <3>1
  <2> QED
    BY <2>1, <2>2
<1>10. ASSUME NEW m \in Mms, NEW c \in Cpus, NEW d \in {1, -1}, Add(m, c, d) PROVE Blank'
  <2>1. /\ ext[m] \in Backings /\ \A b \in Backings : b # ext[m] => value'[b] = value[b]
        /\ pc[m] = "live" /\ UNCHANGED <<ext, pc, cpuCache, nodeCache>>
    <3>1. pc[m] = "live" /\ UNCHANGED <<ext, pc, cpuCache, nodeCache>>
      BY <1>10 DEF Add, caches
    <3>2. ext[m] \in Backings /\ \A b \in Backings : b # ext[m] => value'[b] = value[b]
      BY <1>10, AddFields
    <3> QED
      BY <3>1, <3>2
  <2>2. /\ \A k \in Mms : ext[k] = ext[m] => k = m
        /\ \A j \in Cpus : \A i \in 1..Len(cpuCache[j]) : cpuCache[j][i] # ext[m]
        /\ \A n \in Nodes : \A i \in 1..Len(nodeCache[n]) : nodeCache[n][i] # ext[m]
    BY <1>0, <2>1, OwnedAlone
  <2>3. ASSUME NEW k \in Mms, pc'[k] \in Idle PROVE value'[ext'[k]] = Zero
    <3>1. ext[k] # ext[m] /\ ext[k] \in Backings /\ value[ext[k]] = Zero
      BY <1>0, <1>3, <2>1, <2>2, <2>3 DEF Owning
    <3> QED
      BY <2>1, <3>1
  <2> HIDE DEF Idle
  <2> QED
    BY <1>5, <2>1, <2>2, <2>3
<1>11. ASSUME NEW m \in Mms, ZeroAll(m) PROVE Blank'
  <2>1. /\ ext[m] \in Backings /\ value' = [value EXCEPT ![ext[m]] = Zero]
        /\ UNCHANGED <<ext, cpuCache, nodeCache>> /\ pc' = [pc EXCEPT ![m] = "put"]
    BY <1>11 DEF ZeroAll, caches, Goto, IInv, Owning
  <2>2. /\ \A k \in Mms : ext[k] = ext[m] => k = m
        /\ \A j \in Cpus : \A i \in 1..Len(cpuCache[j]) : cpuCache[j][i] # ext[m]
        /\ \A n \in Nodes : \A i \in 1..Len(nodeCache[n]) : nodeCache[n][i] # ext[m]
    BY <1>0, <2>1, OwnedAlone
  <2>3. \A b \in Backings : value'[b] = IF b = ext[m] THEN Zero ELSE value[b]
    BY <1>0, <2>1 DEF CacheShape
  <2>4. ASSUME NEW k \in Mms, pc'[k] \in Idle PROVE value'[ext'[k]] = Zero
    <3>1. CASE k = m
      BY <2>1, <2>3, <3>1
    <3>2. CASE k # m
      <4>1. pc[k] \in Idle
        BY <1>0, <2>1, <2>4, <3>2
      <4>2. ext[k] # ext[m] /\ ext[k] \in Backings /\ value[ext[k]] = Zero
        BY <1>0, <1>3, <2>1, <2>2, <3>2, <4>1 DEF Owning
      <4> QED
        BY <2>1, <2>3, <4>2
    <3> QED
      BY <3>1, <3>2
  <2> HIDE DEF Idle
  <2> QED
    BY <1>5, <2>1, <2>2, <2>3, <2>4
<1>12. ASSUME NEW m \in Mms, Alloc(m) PROVE Blank'
  <2>0. PICK b \in pool : value' = [value EXCEPT ![b] = Zero] /\ ext' = [ext EXCEPT ![m] = b]
    BY <1>12 DEF Alloc
  <2>1. b \in Backings /\ UNCHANGED <<cpuCache, nodeCache>> /\ pc' = [pc EXCEPT ![m] = "attach"]
    BY <1>0, <1>12 DEF Alloc, Goto, CacheShape
  <2>2. /\ \A k \in Mms : ext[k] # b
        /\ \A j \in Cpus : \A i \in 1..Len(cpuCache[j]) : cpuCache[j][i] # b
        /\ \A n \in Nodes : \A i \in 1..Len(nodeCache[n]) : nodeCache[n][i] # b
    BY <1>0, FreeAlone
  <2>3. \A a \in Backings : value'[a] = IF a = b THEN Zero ELSE value[a]
    BY <1>0, <2>0 DEF CacheShape
  <2>4. ASSUME NEW k \in Mms, pc'[k] \in Idle PROVE value'[ext'[k]] = Zero
    <3>1. CASE k = m
      BY <1>0, <2>0, <2>1, <2>3, <3>1
    <3>2. CASE k # m
      <4>1. pc[k] \in Idle /\ ext'[k] = ext[k]
        BY <1>0, <2>0, <2>1, <2>4, <3>2
      <4>2. ext[k] # b /\ ext[k] \in Backings /\ value[ext[k]] = Zero
        BY <1>0, <1>3, <2>2, <4>1 DEF Owning
      <4> QED
        BY <2>3, <4>1, <4>2
    <3> QED
      BY <3>1, <3>2
  <2> HIDE DEF Idle
  <2> QED
    BY <1>5, <2>1, <2>2, <2>3, <2>4
<1>13. ASSUME NEW c \in Cpus, CpuDead(c) PROVE Blank'
  <2>1. UNCHANGED <<ext, pc, cpuCache, nodeCache>>
    BY <1>13 DEF CpuDead, caches
  <2>2. ASSUME NEW b \in Backings, value[b] = Zero PROVE value'[b] = Zero
    <3>1. value'[b] = Zero \/ value'[b] = [Zero EXCEPT ![c] = 0]
      BY <1>13, <2>2 DEF CpuDead
    <3>2. [Zero EXCEPT ![c] = 0] = Zero
      BY DEF Zero
    <3> QED
      BY <3>1, <3>2
  <2>3. ASSUME NEW j \in Cpus, NEW i \in 1..Len(cpuCache[j]) PROVE value'[cpuCache[j][i]] = Zero
    <3>1. cpuCache[j][i] \in Backings
      BY <1>0 DEF CacheShape
    <3> QED
      BY <1>3, <2>2, <3>1
  <2>4. ASSUME NEW n \in Nodes, NEW i \in 1..Len(nodeCache[n])
        PROVE  value'[nodeCache[n][i]] = Zero
    <3>1. nodeCache[n][i] \in Backings
      BY <1>0 DEF CacheShape
    <3> QED
      BY <1>3, <2>2, <3>1
  <2>5. ASSUME NEW k \in Mms, pc[k] \in Idle PROVE value'[ext[k]] = Zero
    <3>1. ext[k] \in Backings
      BY <1>0, <2>5 DEF Owning
    <3> QED
      BY <1>3, <2>2, <2>5, <3>1
  <2> HIDE DEF Idle
  <2> QED
    BY <2>1, <2>3, <2>4, <2>5 DEF Blank, Idle
<1>14. ASSUME NEW m \in Mms, NEW c \in Cpus, Attach(m, c) PROVE Blank'
  <2>1. UNCHANGED <<value, cpuCache, nodeCache, ext>> /\ pc' = [pc EXCEPT ![m] = "live"]
    BY <1>14 DEF Attach, caches, Goto
  <2> QED
    BY <1>0, <1>4, <2>1
<1>15. ASSUME NEW m \in Mms, MmInit(m) \/ AllocFails(m) \/ Detach(m) PROVE Blank'
  <2>1. UNCHANGED <<value, cpuCache, nodeCache>>
        /\ \E s \in {"get", "none", "zero"} : pc' = [pc EXCEPT ![m] = s]
    BY <1>15 DEF MmInit, AllocFails, Detach, caches, Goto
  <2>2. \A k \in Mms : pc'[k] \in Idle => pc[k] \in Idle /\ k # m
    BY <1>0, <2>1
  <2>3. \A k \in Mms : k # m => ext'[k] = ext[k]
    BY <1>0, <1>15 DEF MmInit, AllocFails, Detach
  <2> HIDE DEF Idle
  <2> QED
    BY <1>4, <2>1, <2>2, <2>3
<1>16. ASSUME NEW c \in Cpus, CpuDown(c) \/ CpuUp(c) PROVE Blank'
  BY <1>4, <1>16 DEF CpuDown, CpuUp, caches, mmVars
<1>17. CASE UNCHANGED vars
  BY <1>4, <1>17 DEF vars, caches, mmVars
<1> QED
  BY <1>0, <1>6, <1>7, <1>8, <1>9, <1>10, <1>11, <1>12, <1>13, <1>14, <1>15, <1>16, <1>17,
     StepCases

(* What the death of a CPU does to a live counter: the visited node's     *)
(* counters lose the dead CPU's word to their count, the others nothing.   *)
LEMMA DeadFields ==
  ASSUME IInv, NEW c \in Cpus, CpuDead(c), NEW m \in Mms, pc[m] = "live"
  PROVE  /\ ext[m] \in Backings /\ counters[m] = ext[m] /\ value[ext[m]] \in WordsType
         /\ numaNode[m] = visit =>
              /\ value'[ext[m]] = [value[ext[m]] EXCEPT ![c] = 0]
              /\ count'[m] = count[m] + value[ext[m]][c]
         /\ numaNode[m] # visit => value'[ext[m]] = value[ext[m]] /\ count'[m] = count[m]
<1> DEFINE folded == {k \in list[visit] : counters[k] # NoBacking}
           b == ext[m]
<1>0. /\ TypeOK /\ HotplugShape /\ MmShape /\ CacheShape /\ OnePlace /\ Owning /\ Listed
      /\ count \in [Mms -> Int]
  BY DEF IInv, TypeOK, MmShape
<1>1. /\ b \in Backings /\ counters[m] = b /\ value[b] \in WordsType
  BY DEF IInv, Owning, Words, WordsType
<1>2. visit \in Nodes
  BY <1>0 DEF IInv, Dying, CpuDead, HotplugShape
<1>3. \A k : k \in folded <=> k \in Mms /\ pc[k] = "live" /\ numaNode[k] = visit
  <2>1. \A k \in list[visit] : k \in Mms
    BY <1>0, <1>2 DEF HotplugShape
  <2>2. \A k \in Mms : pc[k] = "live" => counters[k] = ext[k] /\ ext[k] # NoBacking
    BY <1>0 DEF Owning
  <2>3. \A k \in Mms : k \in list[visit] <=> pc[k] = "live" /\ visit = numaNode[k]
    BY <1>0, <1>2 DEF Listed
  <2> QED
    BY <2>1, <2>2, <2>3
<1>4. value'[b] = IF \E k \in folded : counters[k] = b THEN [value[b] EXCEPT ![c] = 0]
                  ELSE value[b]
  BY <1>1 DEF CpuDead
<1>5. count'[m] = count[m] + (IF m \in folded THEN value[counters[m]][c] ELSE 0)
  BY DEF CpuDead
<1>6. ASSUME NEW k \in folded, counters[k] = b PROVE k = m
  <2>1. k \in Mms /\ ext[k] = b
    BY <1>0, <1>3, <1>6 DEF Owning
  <2> QED
    BY <1>0, <1>1, <2>1, OwnedAlone
<1> HIDE DEF folded, b
<1>7. CASE numaNode[m] = visit
  <2>1. m \in folded
    BY <1>3, <1>7
  <2> QED
    BY <1>1, <1>4, <1>5, <1>7, <2>1 DEF b
<1>8. CASE numaNode[m] # visit
  <2>1. m \notin folded
    BY <1>3, <1>8
  <2>2. value'[b] = value[b]
    BY <1>4, <1>6, <2>1
  <2>3. count'[m] = count[m]
    BY <1>0, <1>5, <2>1
  <2> QED
    BY <1>1, <1>8, <2>2, <2>3 DEF b
<1> QED
  BY <1>7, <1>8

(* The counts stay exact, and the dead hold nothing. *)
LEMMA CountStep ==
  IInv /\ [Next]_vars => RssExact' /\ DeadHoldNothing' /\ Folded' /\ Dying'
<1> DEFINE Goal == RssExact' /\ DeadHoldNothing' /\ Folded' /\ Dying'
<1> SUFFICES ASSUME IInv, [Next]_vars PROVE Goal
  OBVIOUS
<1>0. /\ TypeOK /\ CacheShape /\ MmShape /\ HotplugShape /\ Owning /\ OnePlace /\ Blank
      /\ RssExact /\ DeadHoldNothing /\ Folded /\ Dying
      /\ pc \in [Mms -> States] /\ counters \in [Mms -> Backings \cup {NoBacking}]
      /\ count \in [Mms -> Int] /\ numaNode \in [Mms -> Nodes] /\ rss \in [Mms -> Int]
  BY DEF IInv, TypeOK, MmShape
<1>1. \A m \in Mms : pc[m] = "live" => /\ counters[m] = ext[m] /\ ext[m] \in Backings
                                       /\ value[ext[m]] \in WordsType
  BY DEF IInv, Owning, Words, WordsType
(* The live counters of the next state are as they were. *)
<1> DEFINE Same(k) == /\ pc[k] = "live" /\ counters'[k] = counters[k]
                      /\ value'[counters[k]] = value[counters[k]]
                      /\ count'[k] = count[k] /\ rss'[k] = rss[k] /\ numaNode'[k] = numaNode[k]
<1>2. ASSUME UNCHANGED hotplug, \A k \in Mms : pc'[k] = "live" => Same(k) PROVE Goal
  <2>1. RssExact'
    BY <1>0, <1>2 DEF RssExact
  <2>2. DeadHoldNothing' /\ Folded' /\ Dying'
    BY <1>0, <1>2 DEF DeadHoldNothing, Folded, Dying, hotplug
  <2> QED
    BY <2>1, <2>2
<1>3. ASSUME UNCHANGED <<pc, counters, value, count, rss, numaNode, hotplug>> PROVE Goal
  BY <1>2, <1>3
<1>4. ASSUME NEW m \in Mms, NEW s \in States, s # "live", pc' = [pc EXCEPT ![m] = s],
             UNCHANGED <<counters, value, count, rss, numaNode, hotplug>>
      PROVE  Goal
  BY <1>0, <1>2, <1>4
<1> HIDE DEF Goal
<1>5. ASSUME NEW m \in Mms, NEW c \in Cpus, GetCpu(m, c) PROVE Goal
  BY <1>4, <1>5 DEF GetCpu, Goto, States
<1>6. ASSUME NEW m \in Mms, NEW c \in Cpus, GetNode(m, c) PROVE Goal
  BY <1>4, <1>6 DEF GetNode, Goto, States
<1>7. ASSUME NEW m \in Mms, NEW c \in Cpus, PutCpu(m, c) PROVE Goal
  BY <1>4, <1>7 DEF PutCpu, Given, Goto, States
<1>8. ASSUME NEW m \in Mms, NEW c \in Cpus, PutNode(m, c) PROVE Goal
  BY <1>4, <1>8 DEF PutNode, Given, Goto, States
<1>9. ASSUME NEW m \in Mms, MmInit(m) \/ AllocFails(m) PROVE Goal
  BY <1>4, <1>9 DEF MmInit, AllocFails, Goto, States
<1>10. ASSUME NEW m \in Mms, Detach(m) PROVE Goal
  <2>1. /\ pc' = [pc EXCEPT ![m] = "zero"] /\ counters' = [counters EXCEPT ![m] = NoBacking]
        /\ UNCHANGED <<value, count, rss, numaNode, hotplug>>
    BY <1>10 DEF Detach, Goto
  <2>2. \A k \in Mms : pc'[k] = "live" => Same(k)
    BY <1>0, <2>1
  <2> HIDE DEF Same
  <2> QED
    BY <1>2, <2>1, <2>2
(* The words of a backing that no live mm counts in are cleared. *)
<1>11. ASSUME NEW m \in Mms, NEW b \in Backings, NEW s \in States, s # "live",
              value' = [value EXCEPT ![b] = Zero], pc' = [pc EXCEPT ![m] = s],
              \A k \in Mms : pc[k] = "live" => ext[k] # b,
              UNCHANGED <<counters, count, rss, numaNode, hotplug>>
       PROVE  Goal
  <2>1. \A a \in Backings : a # b => value'[a] = value[a]
    BY <1>0, <1>11 DEF CacheShape
  <2>2. \A k \in Mms : pc'[k] = "live" => pc[k] = "live"
    BY <1>0, <1>11
  <2>3. \A k \in Mms : pc'[k] = "live" => Same(k)
    BY <1>1, <1>11, <2>1, <2>2
  <2> HIDE DEF Same
  <2> QED
    BY <1>2, <1>11, <2>3
<1>12. ASSUME NEW m \in Mms, Alloc(m) PROVE Goal
  <2>1. PICK b \in pool : value' = [value EXCEPT ![b] = Zero]
    BY <1>12 DEF Alloc
  <2>2. b \in Backings /\ \A k \in Mms : ext[k] # b
    BY <1>0, FreeAlone DEF CacheShape
  <2> QED
    BY <1>11, <1>12, <2>1, <2>2 DEF Alloc, Goto, States
<1>13. ASSUME NEW m \in Mms, ZeroAll(m) PROVE Goal
  <2>1. ext[m] \in Backings /\ pc[m] = "zero"
    BY <1>0, <1>13 DEF ZeroAll, Owning
  <2>2. \A k \in Mms : pc[k] = "live" => ext[k] # ext[m]
    BY <1>0, <2>1, OwnedAlone
  <2> QED
    BY <1>11, <1>13, <2>1, <2>2 DEF ZeroAll, Goto, States
<1>14. ASSUME NEW m \in Mms, NEW c \in Cpus, Attach(m, c) PROVE Goal
  <2>1. /\ pc' = [pc EXCEPT ![m] = "live"] /\ counters' = [counters EXCEPT ![m] = ext[m]]
        /\ count' = [count EXCEPT ![m] = 0] /\ rss' = [rss EXCEPT ![m] = 0]
        /\ numaNode' = [numaNode EXCEPT ![m] = NodeOf[c]] /\ value' = value
        /\ UNCHANGED hotplug /\ value[ext[m]] = Zero
    BY <1>0, <1>14 DEF Attach, Goto, Blank
  <2>2. /\ counters'[m] = ext[m] /\ count'[m] = 0 /\ rss'[m] = 0 /\ value'[ext[m]] = Zero
    BY <1>0, <2>1
  <2>3. \A k \in Mms : k # m => (pc'[k] = "live" => Same(k))
    BY <1>0, <2>1
  <2>4. RssExact'
    <3> SUFFICES ASSUME NEW k \in Mms, pc'[k] = "live"
                 PROVE  count'[k] + Sum(value'[counters'[k]]) = rss'[k]
      BY DEF RssExact
    <3>1. CASE k = m
      <4>1. Sum(value'[counters'[k]]) = 0
        BY <2>2, <3>1, SumZero
      <4> QED
        BY <2>2, <3>1, <4>1
    <3>2. CASE k # m
      BY <1>0, <2>3, <3>2 DEF RssExact
    <3> QED
      BY <3>1, <3>2
  <2>5. DeadHoldNothing' /\ Folded' /\ Dying'
    <3>1. \A d \in Cpus : value'[counters'[m]][d] = 0
      BY <2>2 DEF Zero
    <3>2. UNCHANGED <<online, dying, visit>>
      BY <2>1 DEF hotplug
    <3>3. DeadHoldNothing'
      BY <1>0, <2>3, <3>1, <3>2 DEF DeadHoldNothing
    <3>4. \A d \in dying : d \in Cpus
      BY <1>0 DEF HotplugShape
    <3>5. Folded'
      BY <1>0, <2>3, <3>1, <3>2, <3>4 DEF Folded
    <3> QED
      BY <1>0, <3>2, <3>3, <3>5 DEF Dying
  <2> QED
    BY <2>4, <2>5 DEF Goal
<1>15. ASSUME NEW m \in Mms, NEW c \in Cpus, c \in online, NEW d \in {1, -1}, Add(m, c, d)
       PROVE  Goal
  <2> DEFINE b == ext[m]
             f == value[b]
  <2>1. /\ pc[m] = "live" /\ UNCHANGED <<ext, counters, numaNode, pc, hotplug>>
        /\ rss' = [rss EXCEPT ![m] = @ + d]
    BY <1>15 DEF Add
  <2>2. /\ counters[m] = b /\ b \in Backings /\ f \in WordsType
        /\ \A a \in Backings : a # b => value'[a] = value[a]
        /\ \E w \in -Batch + 1 .. Batch - 1 :
             value'[b] = [f EXCEPT ![c] = w] /\ count' = [count EXCEPT ![m] = @ + (f[c] + d - w)]
    <3>1. /\ counters[m] = ext[m] /\ ext[m] \in Backings /\ value[ext[m]] \in WordsType
          /\ \A a \in Backings : a # ext[m] => value'[a] = value[a]
      BY <1>15, AddFields
    <3>2. \E w \in -Batch + 1 .. Batch - 1 :
            /\ value'[ext[m]] = [value[ext[m]] EXCEPT ![c] = w]
            /\ count' = [count EXCEPT ![m] = @ + (value[ext[m]][c] + d - w)]
      BY <1>15, AddFields
    <3> QED
      BY <3>1, <3>2
  <2> HIDE DEF b, f
  <2>3. PICK w \in -Batch + 1 .. Batch - 1 :
          value'[b] = [f EXCEPT ![c] = w] /\ count' = [count EXCEPT ![m] = @ + (f[c] + d - w)]
    BY <2>2
  <2>4. \A k \in Mms : pc[k] = "live" /\ k # m => counters[k] \in Backings /\ counters[k] # b
    BY <1>0, <1>1, <2>1, <2>2, OwnedAlone DEF b
  <2>5. \A k \in Mms : k # m => (pc'[k] = "live" => Same(k))
    BY <1>0, <2>1, <2>2, <2>3, <2>4
  <2>6. f[c] \in Int /\ d \in Int /\ w \in Int
    BY <2>2 DEF WordsType
  <2>7. RssExact'
    <3> SUFFICES ASSUME NEW k \in Mms, pc'[k] = "live"
                 PROVE  count'[k] + Sum(value'[counters'[k]]) = rss'[k]
      BY DEF RssExact
    <3>1. CASE k = m
      <4>1. count[m] + Sum(f) = rss[m]
        BY <1>0, <2>1, <2>2 DEF RssExact, f
      <4>2. Sum(f) \in Int /\ Sum([f EXCEPT ![c] = w]) = Sum(f) - f[c] + w
        <5>1. f \in WordsType
          BY <2>2
        <5>2. \A v \in -Batch + 1 .. Batch - 1 :
                Sum(f) \in Int /\ Sum([f EXCEPT ![c] = v]) = Sum(f) - f[c] + v
          BY <5>1, SumChange
        <5> QED
          BY <5>2
      <4>3. /\ count'[m] = count[m] + (f[c] + d - w) /\ rss'[m] = rss[m] + d
            /\ value'[counters'[m]] = [f EXCEPT ![c] = w]
        BY <1>0, <2>1, <2>2, <2>3
      <4>4. count[m] \in Int /\ rss[m] \in Int
        BY <1>0
      <4> QED
        BY <2>6, <3>1, <4>1, <4>2, <4>3, <4>4
    <3>2. CASE k # m
      BY <1>0, <2>5, <3>2 DEF RssExact
    <3> QED
      BY <3>1, <3>2
  <2>8. DeadHoldNothing' /\ Folded' /\ Dying'
    <3>0. UNCHANGED <<online, dying, visit>> /\ c \notin dying
      BY <1>0, <1>15, <2>1 DEF hotplug, HotplugShape
    <3>1. \A a \in Cpus : a # c => value'[counters'[m]][a] = value[counters[m]][a]
      BY <2>1, <2>2, <2>3 DEF f, WordsType
    <3>2. DeadHoldNothing'
      <4> SUFFICES ASSUME NEW k \in Mms, NEW a \in Cpus, a \notin online \cup dying,
                          pc'[k] = "live"
                   PROVE  value'[counters'[k]][a] = 0
        BY <3>0 DEF DeadHoldNothing
      <4>1. value[counters[k]][a] = 0 /\ a # c
        BY <1>0, <1>15, <2>1 DEF DeadHoldNothing
      <4> QED
        BY <2>5, <3>1, <4>1
    <3>3. Folded'
      <4> SUFFICES ASSUME NEW k \in Mms, NEW a \in dying, pc'[k] = "live", numaNode[k] < visit
                   PROVE  value'[counters'[k]][a] = 0
        BY <2>1, <3>0 DEF Folded
      <4>1. value[counters[k]][a] = 0 /\ a # c /\ a \in Cpus
        BY <1>0, <2>1, <3>0 DEF Folded, HotplugShape
      <4> QED
        BY <2>5, <3>1, <4>1
    <3> QED
      BY <1>0, <3>0, <3>2, <3>3 DEF Dying
  <2> QED
    BY <2>7, <2>8 DEF Goal
<1>16. ASSUME NEW c \in Cpus, CpuDown(c) PROVE Goal
  <2>1. /\ dying = {} /\ online' = online \ {c} /\ dying' = {c} /\ visit' = 1
        /\ UNCHANGED <<pc, counters, value, count, rss, numaNode>> /\ 1 <= NrNodes
    BY <1>16 DEF CpuDown, caches, mmVars
  <2>2. RssExact'
    BY <1>0, <2>1 DEF RssExact
  <2>3. DeadHoldNothing'
    BY <1>0, <2>1 DEF DeadHoldNothing
  <2>4. Folded'
    BY <1>0, <2>1 DEF Folded
  <2> QED
    BY <2>1, <2>2, <2>3, <2>4 DEF Goal, Dying
<1>17. ASSUME NEW c \in Cpus, CpuUp(c) PROVE Goal
  <2>1. /\ dying = {} /\ online' = online \cup {c}
        /\ UNCHANGED <<pc, counters, value, count, rss, numaNode, dying, visit>>
    BY <1>17 DEF CpuUp, caches, mmVars
  <2>2. RssExact'
    BY <1>0, <2>1 DEF RssExact
  <2>3. DeadHoldNothing' /\ Folded' /\ Dying'
    BY <1>0, <2>1 DEF DeadHoldNothing, Folded, Dying
  <2> QED
    BY <2>2, <2>3 DEF Goal
<1>18. ASSUME NEW c \in Cpus, CpuDead(c) PROVE Goal
  <2>1. /\ dying = {c} /\ visit' = visit + 1 /\ dying' = IF visit >= NrNodes THEN {} ELSE dying
        /\ UNCHANGED <<pc, counters, rss, numaNode, online>>
    BY <1>18 DEF CpuDead, VisitLast
  <2>2. visit \in Nodes
    BY <1>0, <2>1 DEF Dying, HotplugShape
  <2>3. RssExact'
    <3> SUFFICES ASSUME NEW m \in Mms, pc[m] = "live"
                 PROVE  count'[m] + Sum(value'[ext[m]]) = rss[m]
      BY <1>1, <2>1 DEF RssExact
    <3>1. count[m] + Sum(value[ext[m]]) = rss[m] /\ count[m] \in Int /\ rss[m] \in Int
      BY <1>0, <1>1 DEF RssExact
    <3>2. CASE numaNode[m] = visit
      <4> DEFINE f == value[ext[m]]
      <4>1. /\ f \in WordsType /\ value'[ext[m]] = [f EXCEPT ![c] = 0]
            /\ count'[m] = count[m] + f[c]
        BY <1>18, <3>2, DeadFields
      <4> HIDE DEF f
      <4>2. 0 \in -Batch + 1 .. Batch - 1 /\ f[c] \in Int
        BY <4>1 DEF WordsType
      <4>3. Sum(f) \in Int /\ Sum([f EXCEPT ![c] = 0]) = Sum(f) - f[c] + 0
        BY <4>1, <4>2, SumChange
      <4> QED
        BY <3>1, <4>1, <4>2, <4>3 DEF f
    <3>3. CASE numaNode[m] # visit
      BY <1>18, <3>1, <3>3, DeadFields
    <3> QED
      BY <3>2, <3>3
  <2>4. ASSUME NEW m \in Mms, pc[m] = "live", numaNode[m] <= visit
        PROVE  value'[counters[m]][c] = 0
    <3>1. CASE numaNode[m] = visit
      <4> DEFINE f == value[ext[m]]
      <4>1. f \in WordsType /\ counters[m] = ext[m] /\ value'[ext[m]] = [f EXCEPT ![c] = 0]
        BY <1>18, <2>4, <3>1, DeadFields
      <4> HIDE DEF f
      <4> QED
        BY <4>1 DEF WordsType
    <3>2. CASE numaNode[m] # visit
      <4>1. numaNode[m] < visit
        BY <1>0, <2>2, <2>4, <3>2
      <4>2. value[counters[m]][c] = 0
        BY <1>0, <2>1, <2>4, <4>1 DEF Folded
      <4> QED
        BY <1>18, <2>4, <3>2, <4>2, DeadFields
    <3> QED
      BY <3>1, <3>2
  <2>5. ASSUME NEW m \in Mms, pc[m] = "live", NEW a \in Cpus, a # c
        PROVE  value'[counters[m]][a] = value[counters[m]][a]
    <3> DEFINE f == value[ext[m]]
    <3>1. /\ f \in WordsType /\ counters[m] = ext[m]
          /\ value'[ext[m]] = [f EXCEPT ![c] = 0] \/ value'[ext[m]] = f
      BY <1>18, <2>5, DeadFields
    <3> HIDE DEF f
    <3>2. value'[ext[m]][a] = f[a]
      BY <2>5, <3>1 DEF WordsType
    <3> QED
      BY <3>1, <3>2 DEF f
  <2>6. DeadHoldNothing'
    <3> SUFFICES ASSUME NEW m \in Mms, NEW a \in Cpus, a \notin online, a \notin dying',
                        pc[m] = "live"
                 PROVE  value'[counters[m]][a] = 0
      BY <2>1 DEF DeadHoldNothing
    <3>1. CASE a = c
      <4>1. visit >= NrNodes
        BY <2>1, <3>1
      <4>2. numaNode[m] <= visit
        BY <1>0, <2>2, <4>1
      <4> QED
        BY <2>4, <3>1, <4>2
    <3>2. CASE a # c
      BY <1>0, <2>1, <2>5, <3>2 DEF DeadHoldNothing
    <3> QED
      BY <3>1, <3>2
  <2>7. Folded'
    <3> SUFFICES ASSUME NEW m \in Mms, NEW a \in dying', pc[m] = "live",
                        numaNode[m] < visit + 1
                 PROVE  value'[counters[m]][a] = 0
      BY <2>1 DEF Folded
    <3>1. a = c /\ numaNode[m] <= visit
      BY <1>0, <2>1, <2>2
    <3> QED
      BY <2>4, <3>1
  <2>8. Dying'
    BY <1>0, <2>1, <2>2 DEF Dying
  <2> QED
    BY <2>3, <2>6, <2>7, <2>8 DEF Goal
<1>19. CASE UNCHANGED vars
  BY <1>3, <1>19 DEF vars, mmVars
<1> QED
  BY <1>0, <1>5, <1>6, <1>7, <1>8, <1>9, <1>10, <1>12, <1>13, <1>14, <1>15, <1>16, <1>17,
     <1>18, <1>19, StepCases

LEMMA InitInv == Init => IInv
<1> SUFFICES ASSUME Init PROVE IInv
  OBVIOUS
<1>1. TypeOK
  <2>1. Zero \in [Cpus -> Int] /\ 1 \in Nodes /\ <<>> \in Seq(Backings) /\ Len(<<>>) = 0
    BY ZeroWords
  <2>2. CacheShape
    BY <2>1 DEF Init, CacheShape
  <2>3. MmShape /\ HotplugShape
    BY <2>1 DEF Init, MmShape, HotplugShape, States
  <2> QED
    BY <2>2, <2>3 DEF TypeOK
<1>2. Words
  BY SumZero DEF Init, Words, WordsType
<1>3. Owning /\ Listed /\ Dying /\ Folded /\ RssExact /\ DeadHoldNothing
  BY DEF Init, Owning, Listed, Dying, Folded, RssExact, DeadHoldNothing
<1>4. Blank
  <2>1. 1..0 = {}
    OBVIOUS
  <2>2. (\A c \in Cpus : cpuCache[c] = <<>>) /\ (\A n \in Nodes : nodeCache[n] = <<>>)
        /\ \A m \in Mms : pc[m] = "none"
    BY DEF Init
  <2> QED
    BY <2>1, <2>2 DEF Blank
<1>5. OnePlace
  <2> SUFFICES ASSUME NEW b \in Backings PROVE Places(b) = 1
    BY DEF OnePlace
  <2>1. Owners(b) = {}
    BY DEF Init, Owners
  <2>2. CpuSlots(b) = {} /\ NodeSlots(b) = {}
    <3>1. \A i \in Nat \ {0} : ~(i <= 0)
      OBVIOUS
    <3>2. CpuSlots(b) = {}
      BY <3>1 DEF Init, CpuSlots, Slots
    <3>3. NodeSlots(b) = {}
      BY <3>1 DEF Init, NodeSlots, Slots
    <3> QED
      BY <3>2, <3>3
  <2>3. b \in pool
    BY DEF Init
  <2> QED
    BY <2>1, <2>2, <2>3, FS_EmptySet DEF Places
<1> QED
  BY <1>1, <1>2, <1>3, <1>4, <1>5 DEF IInv

(* IInv is inductive: the exactness of the counters needs to know where    *)
(* every backing is, what reads zero, and how far a hotplug walk has got.  *)
THEOREM Invariant == Spec => []IInv
<1>1. IInv /\ [Next]_vars => IInv'
  BY TypeStep, OwningStep, PlaceStep, WordsStep, BlankStep, CountStep DEF IInv
<1> QED
  BY InitInv, <1>1, PTL DEF Spec

(* The variables have their types, whatever the numbers of CPUs, nodes and *)
(* mms and the sizes of the caches.                                        *)
THEOREM TypeCorrect == Spec => []TypeOK
<1>1. IInv => TypeOK
  BY DEF IInv
<1> QED
  BY <1>1, Invariant, PTL

(* A backing is free, in one slot of one cache, or with one mm: the caches *)
(* neither lose one nor hand it out twice.                                 *)
THEOREM BackingsInOnePlace == Spec => []OnePlace
<1>1. IInv => OnePlace
  BY DEF IInv
<1> QED
  BY <1>1, Invariant, PTL

(* rss_stat is exact for every live mm, through reuse of its backing and   *)
(* the death of CPUs that counted in it.                                   *)
THEOREM CountersAreExact == Spec => []RssExact
<1>1. IInv => RssExact
  BY DEF IInv
<1> QED
  BY <1>1, Invariant, PTL

(* What percpu_counter_sum skips, the words of dead CPUs, is zero.         *)
THEOREM TheDeadHoldNothing == Spec => []DeadHoldNothing
<1>1. IInv => DeadHoldNothing
  BY DEF IInv
<1> QED
  BY <1>1, Invariant, PTL

-----------------------------------------------------------------------------
(* The refinement: a cache hit or an allocation is Take, zeroing is Give,  *)
(* counting and the death of a CPU are Count, and the rest is not seen.    *)

(* A cached backing has no owner. *)
LEMMA CachedAlone ==
  ASSUME TypeOK, OnePlace
  PROVE  /\ \A c \in Cpus : \A i \in 1..Len(cpuCache[c]), m \in Mms : ext[m] # cpuCache[c][i]
         /\ \A n \in Nodes : \A i \in 1..Len(nodeCache[n]), m \in Mms : ext[m] # nodeCache[n][i]
<1>1. ASSUME NEW c \in Cpus, NEW i \in 1..Len(cpuCache[c]), NEW m \in Mms,
             ext[m] = cpuCache[c][i]
      PROVE  FALSE
  <2>1. ext[m] \in Backings
    BY <1>1 DEF TypeOK, CacheShape
  <2> QED
    BY <1>1, <2>1, OwnedAlone
<1>2. ASSUME NEW n \in Nodes, NEW i \in 1..Len(nodeCache[n]), NEW m \in Mms,
             ext[m] = nodeCache[n][i]
      PROVE  FALSE
  <2>1. ext[m] \in Backings
    BY <1>2 DEF TypeOK, CacheShape
  <2> QED
    BY <1>2, <2>1, OwnedAlone
<1> QED
  BY <1>1, <1>2

LEMMA PoolStep == IInv /\ [Next]_vars => [Pool!Next]_<<Held, Word>>
<1> DEFINE Goal == [Pool!Next]_<<Held, Word>>
           Holding == {"attach", "live", "zero"}
<1> SUFFICES ASSUME IInv, [Next]_vars PROVE Goal
  OBVIOUS
<1>0. /\ TypeOK /\ CacheShape /\ MmShape /\ Owning /\ OnePlace /\ Blank
      /\ pc \in [Mms -> States] /\ ext \in [Mms -> Backings \cup {NoBacking}]
      /\ value \in [Backings -> [Cpus -> Int]] /\ value' \in [Backings -> [Cpus -> Int]]
  BY TypeStep DEF IInv, TypeOK, MmShape, CacheShape
<1>1. Zero \in [Cpus -> Int] /\ Pool!Zero = Zero
  BY ZeroWords DEF Pool!Zero, Zero
<1>2. ASSUME UNCHANGED Held, UNCHANGED value PROVE Goal
  BY <1>2 DEF Word
<1>3. ASSUME UNCHANGED Held PROVE Goal
  <2>1. Word' \in [Backings -> [Cpus -> Int]]
    BY <1>0, <1>1 DEF Word
  <2>2. \A b \in Pool!Unheld : Word'[b] = Word[b]
    BY <1>3 DEF Word, Pool!Unheld
  <2> QED
    BY <1>3, <2>1, <2>2 DEF Pool!Next, Pool!Count
<1>4. ASSUME NEW m \in Mms, NEW x \in Backings, Held[m] = NoBacking,
             \A k \in Mms : ext[k] # x, Held' = [Held EXCEPT ![m] = x], value'[x] = Zero,
             \A a \in Backings : a # x => value'[a] = value[a]
      PROVE  Goal
  <2>1. \A k \in Mms : Held[k] # x
    BY <1>4 DEF Held
  <2>2. x \in Pool!Unheld
    BY <2>1 DEF Pool!Unheld
  <2>3. Held \in [Mms -> Backings \cup {NoBacking}]
    BY <1>0 DEF Held
  <2>4. ASSUME NEW b \in Backings PROVE Word'[b] = Word[b]
    <3>1. CASE b = x
      <4>1. Word'[b] = Zero
        BY <1>4, <3>1 DEF Word
      <4>2. Word[b] = Zero
        BY <2>1, <3>1 DEF Word
      <4> QED
        BY <4>1, <4>2
    <3>2. CASE b # x
      <4>1. (\E k \in Mms : Held'[k] = b) <=> (\E k \in Mms : Held[k] = b)
        <5>1. \A k \in Mms : k # m => Held'[k] = Held[k]
          BY <1>4, <2>3
        <5>2. Held'[m] # b /\ Held[m] # b
          BY <1>4, <2>3, <3>2
        <5> QED
          BY <5>1, <5>2
      <4> QED
        BY <1>4, <3>2, <4>1 DEF Word
    <3> QED
      BY <3>1, <3>2
  <2>5. Word' = Word
    BY <2>4 DEF Word
  <2> QED
    BY <1>4, <2>2, <2>5 DEF Pool!Next, Pool!Take
<1>5. ASSUME NEW m \in Mms, NEW s \in States, pc' = [pc EXCEPT ![m] = s], UNCHANGED ext,
             s \in Holding <=> pc[m] \in Holding
      PROVE  UNCHANGED Held
  BY <1>0, <1>5 DEF Held
<1>6. ASSUME NEW m \in Mms, NEW b \in Backings \cup {NoBacking}, pc[m] \notin Holding,
             ext' = [ext EXCEPT ![m] = b], pc' = [pc EXCEPT ![m] = "attach"]
      PROVE  Held[m] = NoBacking /\ Held' = [Held EXCEPT ![m] = b]
  BY <1>0, <1>6 DEF Held
<1>7. ASSUME NEW m \in Mms, NEW s \in States \ Holding, pc[m] \notin Holding,
             ext' = [ext EXCEPT ![m] = NoBacking], pc' = [pc EXCEPT ![m] = s]
      PROVE  UNCHANGED Held
  BY <1>0, <1>7 DEF Held
<1> HIDE DEF Goal
<1>8. ASSUME NEW m \in Mms, NEW c \in Cpus, GetCpu(m, c) PROVE Goal
  <2>0. pc[m] = "get" /\ UNCHANGED value
    BY <1>8 DEF GetCpu
  <2>1. CASE cpuCache[c] = <<>>
    <3>1. pc' = [pc EXCEPT ![m] = "getnode"] /\ UNCHANGED ext
      BY <1>8, <2>1 DEF GetCpu, Goto
    <3> QED
      BY <1>2, <1>5, <2>0, <3>1 DEF States
  <2>2. CASE cpuCache[c] # <<>>
    <3> DEFINE x == Top(cpuCache[c])
    <3>1. ext' = [ext EXCEPT ![m] = x] /\ pc' = [pc EXCEPT ![m] = "attach"]
      BY <1>8, <2>2 DEF GetCpu, Goto
    <3>2. cpuCache[c] \in Seq(Backings) /\ Len(cpuCache[c]) \in 1..Len(cpuCache[c])
      BY <1>0, <2>2, EmptySeq DEF CacheShape
    <3>3. /\ x \in Backings /\ value[x] = Zero /\ \A k \in Mms : ext[k] # x
      BY <1>0, <3>2, CachedAlone, SMTT(30) DEF Top, Blank
    <3> HIDE DEF x
    <3>4. Held[m] = NoBacking /\ Held' = [Held EXCEPT ![m] = x]
      BY <1>6, <2>0, <3>1, <3>3
    <3> QED
      BY <1>4, <2>0, <3>3, <3>4
  <2> QED
    BY <2>1, <2>2
<1>9. ASSUME NEW m \in Mms, NEW c \in Cpus, GetNode(m, c) PROVE Goal
  <2>0. pc[m] = "getnode" /\ UNCHANGED value /\ NodeOf[c] \in Nodes
    BY <1>9 DEF GetNode
  <2>1. CASE nodeCache[NodeOf[c]] = <<>>
    <3>1. pc' = [pc EXCEPT ![m] = "alloc"] /\ UNCHANGED ext
      BY <1>9, <2>1 DEF GetNode, Goto
    <3> QED
      BY <1>2, <1>5, <2>0, <3>1 DEF States
  <2>2. CASE nodeCache[NodeOf[c]] # <<>>
    <3> DEFINE q == nodeCache[NodeOf[c]]
               x == Top(q)
    <3>1. ext' = [ext EXCEPT ![m] = x] /\ pc' = [pc EXCEPT ![m] = "attach"]
      BY <1>9, <2>2 DEF GetNode, Goto
    <3>2. q \in Seq(Backings) /\ Len(q) \in 1..Len(q)
      <4>1. q \in Seq(Backings)
        BY <1>0, <2>0 DEF CacheShape
      <4> HIDE DEF q
      <4> QED
        BY <2>2, <4>1, EmptySeq DEF q
    <3>3. /\ x \in Backings /\ value[x] = Zero /\ \A k \in Mms : ext[k] # x
      <4> HIDE DEF Nodes
      <4>1. x = q[Len(q)] /\ x \in Backings
        BY <3>2 DEF Top
      <4>2. value[q[Len(q)]] = Zero
        BY <1>0, <2>0, <3>2 DEF Blank
      <4>3. \A k \in Mms : ext[k] # q[Len(q)]
        BY <1>0, <2>0, <3>2, CachedAlone
      <4> QED
        BY <4>1, <4>2, <4>3
    <3> HIDE DEF x, q
    <3>4. Held[m] = NoBacking /\ Held' = [Held EXCEPT ![m] = x]
      BY <1>6, <2>0, <3>1, <3>3
    <3> QED
      BY <1>4, <2>0, <3>3, <3>4
  <2> QED
    BY <2>1, <2>2
<1>10. ASSUME NEW m \in Mms, Alloc(m) PROVE Goal
  <2>0. PICK x \in pool : value' = [value EXCEPT ![x] = Zero] /\ ext' = [ext EXCEPT ![m] = x]
    BY <1>10 DEF Alloc
  <2>1. pc[m] = "alloc" /\ pc' = [pc EXCEPT ![m] = "attach"]
    BY <1>10 DEF Alloc, Goto
  <2>2. x \in Backings /\ \A k \in Mms : ext[k] # x
    BY <1>0, FreeAlone DEF CacheShape
  <2>3. value'[x] = Zero /\ \A a \in Backings : a # x => value'[a] = value[a]
    BY <1>0, <2>0, <2>2
  <2>4. Held[m] = NoBacking /\ Held' = [Held EXCEPT ![m] = x]
    BY <1>6, <2>0, <2>1, <2>2
  <2> QED
    BY <1>4, <2>2, <2>3, <2>4
<1>11. ASSUME NEW m \in Mms, ZeroAll(m) PROVE Goal
  <2>0. /\ pc[m] = "zero" /\ pc' = [pc EXCEPT ![m] = "put"] /\ UNCHANGED ext
        /\ value' = [value EXCEPT ![ext[m]] = Zero] /\ ext[m] \in Backings
    BY <1>0, <1>11 DEF ZeroAll, Goto, Owning
  <2>1. Held[m] = ext[m] /\ Held' = [Held EXCEPT ![m] = NoBacking]
    BY <1>0, <2>0 DEF Held
  <2>2. Held \in [Mms -> Backings \cup {NoBacking}]
    BY <1>0 DEF Held
  <2>3. \A k \in Mms : k # m => Held[k] # ext[m]
    BY <1>0, <2>0, OwnedAlone DEF Held
  <2>4. ASSUME NEW b \in Backings PROVE Word'[b] = IF b = ext[m] THEN Zero ELSE Word[b]
    <3>1. CASE b = ext[m]
      BY <1>0, <2>0, <3>1 DEF Word
    <3>2. CASE b # ext[m]
      <4>1. value'[b] = value[b]
        BY <2>0, <3>2
      <4>2. (\E k \in Mms : Held'[k] = b) <=> (\E k \in Mms : Held[k] = b)
        <5>1. \A k \in Mms : k # m => Held'[k] = Held[k]
          BY <2>1, <2>2
        <5>2. Held'[m] # b /\ Held[m] # b
          BY <1>0, <2>1, <2>2, <3>2
        <5> QED
          BY <5>1, <5>2
      <4> QED
        BY <3>2, <4>1, <4>2 DEF Word
    <3> QED
      BY <3>1, <3>2
  <2>5. Word' = [Word EXCEPT ![ext[m]] = Zero]
    BY <2>4 DEF Word
  <2>6. Held[m] # NoBacking
    BY <2>0, <2>1
  <2> QED
    BY <1>1, <2>1, <2>5, <2>6 DEF Goal, Pool!Next, Pool!Give
<1>12. ASSUME NEW m \in Mms, NEW c \in Cpus, PutCpu(m, c) PROVE Goal
  <2>0. pc[m] = "put" /\ UNCHANGED value
    BY <1>12 DEF PutCpu
  <2>1. CASE Len(cpuCache[c]) < CpuMax
    <3>1. ext' = [ext EXCEPT ![m] = NoBacking] /\ pc' = [pc EXCEPT ![m] = "none"]
      BY <1>12, <2>1 DEF PutCpu, Given, Goto
    <3> QED
      BY <1>2, <1>7, <2>0, <3>1 DEF States
  <2>2. CASE ~(Len(cpuCache[c]) < CpuMax)
    <3>1. UNCHANGED ext /\ pc' = [pc EXCEPT ![m] = "putnode"]
      BY <1>12, <2>2 DEF PutCpu, Goto
    <3> QED
      BY <1>2, <1>5, <2>0, <3>1 DEF States
  <2> QED
    BY <2>1, <2>2
<1>13. ASSUME NEW m \in Mms, NEW c \in Cpus, PutNode(m, c) PROVE Goal
  <2>1. /\ pc[m] = "putnode" /\ UNCHANGED value
        /\ ext' = [ext EXCEPT ![m] = NoBacking] /\ pc' = [pc EXCEPT ![m] = "none"]
    BY <1>13 DEF PutNode, Given, Goto
  <2> QED
    BY <1>2, <1>7, <2>1 DEF States
<1>14. ASSUME NEW m \in Mms, NEW c \in Cpus, Attach(m, c) PROVE Goal
  <2>1. pc[m] = "attach" /\ pc' = [pc EXCEPT ![m] = "live"] /\ UNCHANGED <<ext, value>>
    BY <1>14 DEF Attach, Goto
  <2> QED
    BY <1>2, <1>5, <2>1 DEF States
<1>15. ASSUME NEW m \in Mms, NEW c \in Cpus, NEW d \in {1, -1}, Add(m, c, d) PROVE Goal
  BY <1>3, <1>15 DEF Add, Held
<1>16. ASSUME NEW m \in Mms, MmInit(m) PROVE Goal
  <2>1. /\ pc[m] = "none" /\ UNCHANGED value
        /\ ext' = [ext EXCEPT ![m] = NoBacking] /\ pc' = [pc EXCEPT ![m] = "get"]
    BY <1>16 DEF MmInit, Goto
  <2> QED
    BY <1>2, <1>7, <2>1 DEF States
<1>17. ASSUME NEW m \in Mms, AllocFails(m) PROVE Goal
  <2>1. pc[m] = "alloc" /\ pc' = [pc EXCEPT ![m] = "none"] /\ UNCHANGED <<ext, value>>
    BY <1>17 DEF AllocFails, Goto
  <2> QED
    BY <1>2, <1>5, <2>1 DEF States
<1>18. ASSUME NEW m \in Mms, Detach(m) PROVE Goal
  <2>1. pc[m] = "live" /\ pc' = [pc EXCEPT ![m] = "zero"] /\ UNCHANGED <<ext, value>>
    BY <1>18 DEF Detach, Goto
  <2> QED
    BY <1>2, <1>5, <2>1 DEF States
<1>19. ASSUME NEW c \in Cpus, CpuDown(c) \/ CpuDead(c) \/ CpuUp(c) PROVE Goal
  BY <1>3, <1>19 DEF CpuDown, CpuDead, CpuUp, mmVars, Held
<1>20. CASE UNCHANGED vars
  BY <1>2, <1>20 DEF vars, mmVars, Held
<1> QED
  BY <1>0, <1>8, <1>9, <1>10, <1>11, <1>12, <1>13, <1>14, <1>15, <1>16, <1>17, <1>18,
     <1>19, <1>20, StepCases

(* The caches are transparent: an mm sees zeroed backing that is its own,  *)
(* as it would without them.                                               *)
THEOREM RefinesBackingPool == Spec => ImplementsBackingPool
<1>1. Init => Pool!Init
  BY DEF Init, Pool!Init, Held, Word, Zero, Pool!Zero
<1> QED
  BY <1>1, Invariant, PoolStep, PTL DEF Spec, ImplementsBackingPool, Pool!Spec

=============================================================================
