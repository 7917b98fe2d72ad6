---------------------------- MODULE PipapoProofs ----------------------------
(***************************************************************************)
(* Theorems about Pipapo, for any elements, tables, readers and batches:   *)
(* nothing is freed in use or twice, a clone that outlives its batch is    *)
(* unmodified, and batches are all or nothing.                             *)
(***************************************************************************)
EXTENDS PipapoProperties, FiniteSetTheorems, SequenceTheorems, TLAPS

USE PipapoAssumption

New == Recorded("newelem")
Del == Recorded("delelem")

(* What the phases of a batch leave of it. *)
Phasing ==
  /\ phase = "none" => match = NoTable /\ clone = NoTable /\ Reading = {}
  /\ phase # "none" => match # NoTable
  /\ phase \in {"none", "deleted"} => trans = <<>>
  /\ phase = "flipped" => trans # <<>>
  /\ phase # "prepare" => ~failed

(* The clone's state says how its content differs from the match's; only a *)
(* failed batch has a clone with less in it.                               *)
Cloning ==
  /\ New \cap InTable(match) = {}
  /\ Del \subseteq InTable(match) \cup New
  /\ clone = NoTable => New = {}
  /\ clone # NoTable =>
       /\ clone # match
       /\ state[clone] = "NEW" => elems[clone] = elems[match] /\ New = {}
       /\ state[clone] = "MOD" => elems[clone] = elems[match] \cup New /\ New # {}
       /\ state[clone] = "ERR" => /\ elems[clone] \subseteq elems[match] \cup New
                                  /\ New # {} /\ failed

(* What a lookup goes through is in the match still, or is freed only after *)
(* the lookup has ended.                                                    *)
WaitsIn(d, x, r) == \E i \in DOMAIN d : x \in d[i].objs /\ r \in d[i].waits
Lookups ==
  \A r \in Readers : \A x \in InTable(reader[r]) :
    x \in InTable(match) \/ WaitsIn(doomed, x, r)

(* The generations of the elements: those of the match are active in the   *)
(* old one, those of the batch are not, and the deleted are not active in  *)
(* the young one.                                                          *)
Old   == IF phase = "flipped" THEN "next" ELSE "cur"
Young == IF phase = "flipped" THEN "cur" ELSE "next"
Activity ==
  phase \in {"prepare", "flipped"} =>
    /\ \A e \in elems[match] : Old \in active[e] /\ (Young \in active[e] <=> e \notin Del)
    /\ \A e \in New : Old \notin active[e] /\ (Young \in active[e] <=> e \notin Del)

IInv == TypeOK /\ Phasing /\ Cloning /\ FreedOnce /\ Lookups /\ Activity

-----------------------------------------------------------------------------
(* Records *)

Record == [op : Ops, e : Elems] \cup NoElems

RecordedIn(s, op) == {s[i].e : i \in {j \in DOMAIN s : s[j].op = op}}
Distinct(s) == \A i, j \in DOMAIN s : i # j => s[i] # s[j]

LEMMA RecordedSet ==
  ASSUME NEW s \in Seq(Record), NEW op \in Ops
  PROVE  RecordedIn(s, op) = {e \in Elems : [op |-> op, e |-> e] \in ToSet(s)}
<1>1. \A i \in DOMAIN s : s[i] \in Record
  OBVIOUS
<1>2. ASSUME NEW i \in DOMAIN s, s[i].op = op
      PROVE  s[i].e \in Elems /\ s[i] = [op |-> op, e |-> s[i].e]
  <2>1. s[i] \in [op : Ops, e : Elems]
    BY <1>1, <1>2 DEF Record, NoElems, Ops
  <2> QED
    BY <1>2, <2>1
<1>3. ASSUME NEW e \in Elems, NEW i \in DOMAIN s, s[i] = [op |-> op, e |-> e]
      PROVE  s[i].op = op /\ s[i].e = e
  BY <1>3
<1> QED
  BY <1>2, <1>3 DEF RecordedIn, ToSet

LEMMA AppendSet ==
  ASSUME NEW s \in Seq(Record), NEW x \in Record
  PROVE  /\ Append(s, x) \in Seq(Record) /\ Append(s, x) # <<>>
         /\ ToSet(Append(s, x)) = ToSet(s) \cup {x}
         /\ Distinct(s) /\ x \notin ToSet(s) => Distinct(Append(s, x))
<1> DEFINE t == Append(s, x)
           n == Len(s) + 1
<1>1. /\ t \in Seq(Record) /\ Len(t) = n /\ DOMAIN s = 1..Len(s) /\ DOMAIN t = 1..n
      /\ n \in 1..n /\ t[n] = x /\ \A i \in 1..Len(s) : i \in 1..n /\ i # n /\ t[i] = s[i]
  OBVIOUS
<1>2. \A i \in 1..n : i = n \/ i \in 1..Len(s)
  OBVIOUS
<1> HIDE DEF t, n
<1>3. t # <<>>
  BY <1>1
<1>4. ToSet(t) = ToSet(s) \cup {x}
  BY <1>1, <1>2 DEF ToSet
<1>5. ASSUME Distinct(s), x \notin ToSet(s) PROVE Distinct(t)
  BY <1>1, <1>2, <1>5 DEF Distinct, ToSet
<1> QED
  BY <1>1, <1>3, <1>4, <1>5 DEF t

LEMMA ConcatSet ==
  ASSUME NEW s \in Seq(Record), NEW u \in Seq(Record)
  PROVE  /\ s \o u \in Seq(Record) /\ (s # <<>> => s \o u # <<>>)
         /\ ToSet(s \o u) = ToSet(s) \cup ToSet(u)
         /\ Distinct(s) /\ Distinct(u) /\ ToSet(s) \cap ToSet(u) = {} => Distinct(s \o u)
<1> DEFINE t == s \o u
           n == Len(s)
           m == Len(u)
<1>1. /\ t \in Seq(Record) /\ n \in Nat /\ m \in Nat /\ DOMAIN s = 1..n /\ DOMAIN u = 1..m
      /\ Len(t) = n + m /\ DOMAIN t = 1..n + m
      /\ \A i \in 1..n + m : t[i] = IF i <= n THEN s[i] ELSE u[i - n]
  OBVIOUS
<1>2. /\ \A i \in 1..n : i \in 1..n + m /\ i <= n
      /\ \A i \in 1..n + m : (i <= n /\ i \in 1..n) \/ (~(i <= n) /\ i - n \in 1..m)
      /\ \A i \in 1..m : i + n \in 1..n + m /\ ~(i + n <= n) /\ (i + n) - n = i
      /\ \A i, j \in 1..n + m : i - n = j - n => i = j
  BY <1>1
<1> HIDE DEF t, n, m
<1>3. /\ \A i \in 1..n : i \in DOMAIN t /\ t[i] = s[i]
      /\ \A i \in 1..m : i + n \in DOMAIN t /\ t[i + n] = u[i]
      /\ \A i \in DOMAIN t : \/ i \in DOMAIN s /\ t[i] = s[i]
                             \/ i - n \in DOMAIN u /\ t[i] = u[i - n]
  BY <1>1, <1>2
<1>4. ToSet(t) = ToSet(s) \cup ToSet(u)
  BY <1>1, <1>3 DEF ToSet
<1>5. ASSUME Distinct(s), Distinct(u), ToSet(s) \cap ToSet(u) = {} PROVE Distinct(t)
  <2> SUFFICES ASSUME NEW i \in DOMAIN t, NEW j \in DOMAIN t, i # j, t[i] = t[j] PROVE FALSE
    BY DEF Distinct
  <2>1. ~(i \in DOMAIN s /\ t[i] = s[i] /\ j \in DOMAIN s /\ t[j] = s[j])
    BY <1>5 DEF Distinct
  <2>2. ~(i - n \in DOMAIN u /\ t[i] = u[i - n] /\ j - n \in DOMAIN u /\ t[j] = u[j - n])
    BY <1>1, <1>2, <1>5 DEF Distinct
  <2>3. ~(i \in DOMAIN s /\ t[i] = s[i] /\ j - n \in DOMAIN u /\ t[j] = u[j - n])
    BY <1>5 DEF ToSet
  <2>4. ~(i - n \in DOMAIN u /\ t[i] = u[i - n] /\ j \in DOMAIN s /\ t[j] = s[j])
    BY <1>5 DEF ToSet
  <2> QED
    BY <1>3, <2>1, <2>2, <2>3, <2>4
<1>6. s # <<>> => t # <<>>
  BY <1>1, <1>3, EmptySeq
<1> QED
  BY <1>1, <1>4, <1>5, <1>6 DEF t

LEMMA SetToSeqSet ==
  ASSUME NEW S \in SUBSET Record, IsFiniteSet(S)
  PROVE  SetToSeq(S) \in Seq(Record) /\ ToSet(SetToSeq(S)) = S /\ Distinct(SetToSeq(S))
<1> DEFINE n == Cardinality(S)
           f == SetToSeq(S)
<1>1. n \in Nat /\ ExistsBijection(1..n, S)
  BY FS_CardinalityType
<1>2. \E g \in [1..n -> S] : IsInjective(g)
  BY <1>1 DEF ExistsBijection, Bijection, Injection
<1>3. f \in [1..n -> S] /\ IsInjective(f)
  BY <1>2 DEF SetToSeq
<1>4. IsFiniteSet(1..n) /\ Cardinality(1..n) = n
  BY <1>1, FS_Interval
<1> HIDE DEF n, f
<1>5. f \in Injection(1..n, S)
  BY <1>3 DEF Injection
<1>6. f \in Surjection(1..n, S)
  BY <1>4, <1>5, FS_Injection DEF n
<1>7. ToSet(f) = S
  BY <1>3, <1>6 DEF ToSet, Surjection
<1>8. Distinct(f)
  BY <1>3 DEF Distinct, IsInjective
<1>9. f \in Seq(Record)
  BY <1>1, <1>3
<1> QED
  BY <1>7, <1>8, <1>9 DEF f

LEMMA FlushedRecords ==
  ASSUME NEW es \in SUBSET Elems
  PROVE  [op : {"delelem"}, e : es] \subseteq Record /\ IsFiniteSet([op : {"delelem"}, e : es])
<1> DEFINE S == [op : {"delelem"}, e : es]
           f == [x \in es |-> [op |-> "delelem", e |-> x]]
<1>1. f \in Surjection(es, S)
  BY DEF Surjection
<1>2. IsFiniteSet(es)
  BY FS_Subset
<1>3. IsFiniteSet(S)
  BY <1>1, <1>2, FS_Surjection
<1>4. S \subseteq Record
  BY DEF Record, Ops
<1> QED
  BY <1>3, <1>4

-----------------------------------------------------------------------------
(* What is to be freed *)

Doomings == Seq([objs : SUBSET (Elems \cup Tables), waits : SUBSET Readers])
DoomedIn(d) == UNION {d[i].objs : i \in DOMAIN d}
Apart(d) == \A i, j \in DOMAIN d : i # j => d[i].objs \cap d[j].objs = {}

More(d, objs, ws, new) ==
  new = IF objs = {} THEN d ELSE Append(d, [objs |-> objs, waits |-> ws])

LEMMA DoomMore ==
  ASSUME NEW d \in Doomings, NEW objs \in SUBSET (Elems \cup Tables), NEW ws \in SUBSET Readers,
         NEW new, More(d, objs, ws, new)
  PROVE  /\ new \in Doomings
         /\ DoomedIn(new) = DoomedIn(d) \cup objs
         /\ Apart(d) /\ objs \cap DoomedIn(d) = {} => Apart(new)
         /\ \A x, r : WaitsIn(d, x, r) => WaitsIn(new, x, r)
         /\ \A x \in objs, r \in ws : WaitsIn(new, x, r)
<1> USE DEF More
<1>1. CASE objs = {}
  BY <1>1
<1>2. CASE objs # {}
  <2> DEFINE o == [objs |-> objs, waits |-> ws]
             n == Len(d) + 1
  <2>1. o \in [objs : SUBSET (Elems \cup Tables), waits : SUBSET Readers]
    OBVIOUS
  <2>2. /\ new \in Doomings /\ n \in DOMAIN new /\ new[n] = o /\ n \notin DOMAIN d
        /\ \A i \in DOMAIN d : i \in DOMAIN new /\ new[i] = d[i]
        /\ \A i \in DOMAIN new : i = n \/ i \in DOMAIN d
    <3> DEFINE T == [objs : SUBSET (Elems \cup Tables), waits : SUBSET Readers]
    <3>1. d \in Seq(T) /\ o \in T /\ new = Append(d, o)
      BY <1>2, <2>1 DEF Doomings
    <3> HIDE DEF T, o
    <3>2. /\ new \in Seq(T) /\ DOMAIN d = 1..Len(d) /\ DOMAIN new = 1..n /\ Len(d) \in Nat
          /\ new[n] = o /\ \A i \in 1..Len(d) : new[i] = d[i]
      BY <3>1
    <3>3. /\ n \in 1..n /\ n \notin 1..Len(d)
          /\ \A i \in 1..Len(d) : i \in 1..n
          /\ \A i \in 1..n : i = n \/ i \in 1..Len(d)
      BY <3>2
    <3> QED
      BY <3>2, <3>3 DEF Doomings, T
  <2>3. o.objs = objs /\ o.waits = ws
    OBVIOUS
  <2> HIDE DEF o, n
  <2>4. DoomedIn(new) = DoomedIn(d) \cup objs
    BY <2>2, <2>3 DEF DoomedIn
  <2>5. Apart(d) /\ objs \cap DoomedIn(d) = {} => Apart(new)
    BY <2>2, <2>3 DEF DoomedIn, Apart
  <2>6. \A x, r : WaitsIn(d, x, r) => WaitsIn(new, x, r)
    BY <2>2 DEF WaitsIn
  <2>7. \A x \in objs, r \in ws : WaitsIn(new, x, r)
    BY <2>2, <2>3 DEF WaitsIn
  <2> QED
    BY <2>2, <2>4, <2>5, <2>6, <2>7
<1> QED
  BY <1>1, <1>2

LEMMA DoomLess ==
  ASSUME NEW d \in Doomings, NEW k \in DOMAIN d, Apart(d)
  PROVE  /\ RemoveAt(d, k) \in Doomings
         /\ DoomedIn(RemoveAt(d, k)) = DoomedIn(d) \ d[k].objs
         /\ Apart(RemoveAt(d, k))
         /\ \A x, r : WaitsIn(d, x, r) /\ r \notin d[k].waits => WaitsIn(RemoveAt(d, k), x, r)
<1> DEFINE T == [objs : SUBSET (Elems \cup Tables), waits : SUBSET Readers]
           n == Len(d)
           new == RemoveAt(d, k)
<1>1. d \in Seq(T) /\ n \in Nat /\ k \in 1..n
  BY DEF Doomings
<1>2. /\ new \in Seq(T) /\ Len(new) = n - 1
      /\ \A j \in 1..n - 1 : new[j] = IF j < k THEN d[j] ELSE d[j + 1]
  <2> HIDE DEF T
  <2>1. RemoveAt(d, k) = SubSeq(d, 1, k - 1) \o SubSeq(d, k + 1, n)
    BY DEF RemoveAt
  <2>2. /\ SubSeq(d, 1, k - 1) \in Seq(T) /\ Len(SubSeq(d, 1, k - 1)) = k - 1
        /\ \A j \in 1..k - 1 : SubSeq(d, 1, k - 1)[j] = d[j]
    BY <1>1
  <2>3. /\ SubSeq(d, k + 1, n) \in Seq(T) /\ Len(SubSeq(d, k + 1, n)) = n - k
        /\ \A j \in 1..n - k : SubSeq(d, k + 1, n)[j] = d[k + j]
    BY <1>1
  <2> DEFINE A == SubSeq(d, 1, k - 1)
             B == SubSeq(d, k + 1, n)
  <2> HIDE DEF A, B
  <2>4. /\ A \in Seq(T) /\ B \in Seq(T) /\ Len(A) = k - 1 /\ Len(B) = n - k
    BY <2>2, <2>3 DEF A, B
  <2>5. /\ A \o B \in Seq(T) /\ Len(A \o B) = n - 1
        /\ \A j \in 1..n - 1 : (A \o B)[j] = IF j <= k - 1 THEN A[j] ELSE B[j - (k - 1)]
    <3>1. /\ A \o B \in Seq(T) /\ Len(A \o B) = Len(A) + Len(B)
          /\ \A j \in 1..Len(A) + Len(B) :
               (A \o B)[j] = IF j <= Len(A) THEN A[j] ELSE B[j - Len(A)]
      <4> HIDE DEF T
      <4> QED
        BY <2>4, ConcatProperties
    <3>2. (k - 1) + (n - k) = n - 1
      BY <1>1
    <3> QED
      BY <2>4, <3>1, <3>2
  <2>6. ASSUME NEW j \in 1..n - 1
        PROVE  (IF j <= k - 1 THEN A[j] ELSE B[j - (k - 1)]) = IF j < k THEN d[j] ELSE d[j + 1]
    <3>1. CASE j < k
      <4>1. j \in 1..k - 1 /\ j <= k - 1
        BY <1>1, <3>1
      <4> QED
        BY <2>2, <3>1, <4>1 DEF A
    <3>2. CASE ~(j < k)
      <4>1. j - (k - 1) \in 1..n - k /\ ~(j <= k - 1) /\ k + (j - (k - 1)) = j + 1
        BY <1>1, <3>2
      <4> QED
        BY <2>3, <3>2, <4>1 DEF B
    <3> QED
      BY <3>1, <3>2
  <2> QED
    BY <2>1, <2>5, <2>6 DEF A, B
<1> HIDE DEF T, n, new
<1>3. /\ \A j \in DOMAIN new : \E i \in DOMAIN d : i # k /\ new[j] = d[i]
      /\ \A i \in DOMAIN d : i # k => \E j \in DOMAIN new : new[j] = d[i]
  <2>1. DOMAIN new = 1..n - 1 /\ DOMAIN d = 1..n
    BY <1>1, <1>2 DEF n
  <2>2. ASSUME NEW j \in 1..n - 1 PROVE \E i \in 1..n : i # k /\ new[j] = d[i]
    <3>1. CASE j < k
      BY <1>1, <1>2, <3>1
    <3>2. CASE ~(j < k)
      <4>1. j + 1 \in 1..n /\ j + 1 # k
        BY <1>1, <3>2
      <4> QED
        BY <1>2, <3>2, <4>1
    <3> QED
      BY <3>1, <3>2
  <2>3. ASSUME NEW i \in 1..n, i # k PROVE \E j \in 1..n - 1 : new[j] = d[i]
    <3>1. CASE i < k
      <4>1. i \in 1..n - 1
        BY <1>1, <3>1
      <4> QED
        BY <1>2, <3>1, <4>1
    <3>2. CASE ~(i < k)
      <4>1. i - 1 \in 1..n - 1 /\ ~(i - 1 < k) /\ (i - 1) + 1 = i
        BY <1>1, <2>3, <3>2
      <4> QED
        BY <1>2, <4>1
    <3> QED
      BY <3>1, <3>2
  <2> QED
    BY <2>1, <2>2, <2>3
<1>4. Apart(new)
  <2> SUFFICES ASSUME NEW i \in 1..n - 1, NEW j \in 1..n - 1, i # j
               PROVE  new[i].objs \cap new[j].objs = {}
    BY <1>1, <1>2 DEF Apart
  <2> DEFINE At(l) == IF l < k THEN l ELSE l + 1
  <2>1. At(i) \in 1..n /\ At(j) \in 1..n /\ At(i) # At(j)
    BY <1>1
  <2>2. new[i] = d[At(i)] /\ new[j] = d[At(j)]
    BY <1>2
  <2> HIDE DEF At
  <2>3. 1..n = DOMAIN d
    BY <1>1 DEF n
  <2> QED
    BY <2>1, <2>2, <2>3 DEF Apart
<1>5. DoomedIn(new) = DoomedIn(d) \ d[k].objs
  <2>1. ASSUME NEW x PROVE x \in DoomedIn(new) <=> x \in DoomedIn(d) /\ x \notin d[k].objs
    <3>1. x \in DoomedIn(new) => x \in DoomedIn(d) /\ x \notin d[k].objs
      BY <1>3 DEF DoomedIn, Apart
    <3>2. x \in DoomedIn(d) /\ x \notin d[k].objs => x \in DoomedIn(new)
      BY <1>3 DEF DoomedIn
    <3> QED
      BY <3>1, <3>2
  <2> QED
    BY <2>1
<1>6. \A x, r : WaitsIn(d, x, r) /\ r \notin d[k].waits => WaitsIn(new, x, r)
  BY <1>3 DEF WaitsIn
<1> QED
  BY <1>2, <1>4, <1>5, <1>6 DEF Doomings, new, T

Left(d, q, new) == new = [i \in DOMAIN d |-> [d[i] EXCEPT !.waits = @ \ {q}]]

LEMMA DoomLeft ==
  ASSUME NEW d \in Doomings, NEW q, NEW new, Left(d, q, new)
  PROVE  /\ new \in Doomings /\ DoomedIn(new) = DoomedIn(d) /\ (Apart(d) => Apart(new))
         /\ \A x, r : WaitsIn(d, x, r) /\ r # q => WaitsIn(new, x, r)
<1> USE DEF Left
<1> DEFINE T == [objs : SUBSET (Elems \cup Tables), waits : SUBSET Readers]
<1>1. d \in Seq(T) /\ DOMAIN d = 1..Len(d) /\ Len(d) \in Nat
  BY DEF Doomings
<1>2. ASSUME NEW i \in DOMAIN d
      PROVE  /\ new[i].objs = d[i].objs /\ new[i].waits = d[i].waits \ {q}
             /\ new[i] \in T
  <2>1. d[i] \in T
    <3> HIDE DEF T
    <3> QED
      BY <1>1
  <2>2. new[i] = [d[i] EXCEPT !.waits = @ \ {q}]
    OBVIOUS
  <2> QED
    BY <2>1, <2>2
<1>3. DOMAIN new = DOMAIN d
  OBVIOUS
<1>4. new \in Seq(T)
  <2> HIDE DEF T
  <2>1. new \in [1..Len(d) -> T]
    BY <1>1, <1>2, <1>3
  <2> QED
    BY <1>1, <2>1
<1> HIDE DEF T
<1>5. DoomedIn(new) = DoomedIn(d)
  BY <1>2, <1>3 DEF DoomedIn
<1>6. Apart(d) => Apart(new)
  BY <1>2, <1>3 DEF Apart
<1>7. \A x, r : WaitsIn(d, x, r) /\ r # q => WaitsIn(new, x, r)
  BY <1>2, <1>3 DEF WaitsIn
<1> QED
  BY <1>4, <1>5, <1>6, <1>7 DEF Doomings, T

-----------------------------------------------------------------------------
(* The shape of a state                                                    *)

(* What is allocated and not to be freed. *)
Kept == InTable(match) \cup InTable(clone) \cup (IF phase = "prepare" THEN New ELSE {})

Sharing ==
  /\ Apart(doomed) /\ Distinct(trans)
  /\ DoomedIn(doomed) \cap Kept = {}
  /\ used = DoomedIn(doomed) \cup Kept

LEMMA FreedOnceSharing == FreedOnce <=> Sharing
  BY DEF FreedOnce, Sharing, Apart, Distinct, DoomedIn, Doomed, Kept, New

LEMMA Records ==
  TypeOK => /\ trans \in Seq(Record) /\ doomed \in Doomings
            /\ New = {e \in Elems : [op |-> "newelem", e |-> e] \in ToSet(trans)}
            /\ Del = {e \in Elems : [op |-> "delelem", e |-> e] \in ToSet(trans)}
<1> SUFFICES ASSUME TypeOK
             PROVE  /\ trans \in Seq(Record) /\ doomed \in Doomings
                    /\ New = {e \in Elems : [op |-> "newelem", e |-> e] \in ToSet(trans)}
                    /\ Del = {e \in Elems : [op |-> "delelem", e |-> e] \in ToSet(trans)}
  OBVIOUS
<1>1. trans \in Seq(Record) /\ doomed \in Doomings
  BY DEF TypeOK, Record, Doomings
<1>2. New = RecordedIn(trans, "newelem") /\ Del = RecordedIn(trans, "delelem")
  BY DEF New, Del, Recorded, RecordedIn
<1> QED
  BY <1>1, <1>2, RecordedSet DEF Ops

(* Objects and their places, in a batch and out of it. *)
LEMMA Places ==
  ASSUME IInv
  PROVE  /\ New \subseteq Elems /\ Del \subseteq Elems
         /\ \A t \in Tables : elems[t] \subseteq Elems /\ t \notin Elems
         /\ match \in Tables \cup {NoTable} /\ clone \in Tables \cup {NoTable}
         /\ used \subseteq Elems \cup Tables /\ NoTable \notin used
         /\ InTable(match) \subseteq used /\ InTable(clone) \subseteq used
         /\ phase = "prepare" => New \subseteq used
         /\ phase # "prepare" => New \subseteq InTable(clone)
         /\ DoomedIn(doomed) \subseteq used
         /\ phase # "none" => InTable(match) = {match} \cup elems[match] /\ match \in Tables
         /\ \A r \in Readers : reader[r] # NoTable => reader[r] # clone
<1>1. TypeOK /\ Phasing /\ Cloning /\ Sharing
  BY FreedOnceSharing DEF IInv
<1>2. New \subseteq Elems /\ Del \subseteq Elems
  BY <1>1, Records
<1>3. /\ \A t \in Tables : elems[t] \subseteq Elems /\ t \notin Elems
      /\ match \in Tables \cup {NoTable} /\ clone \in Tables \cup {NoTable}
      /\ used \subseteq Elems \cup Tables
  BY <1>1 DEF TypeOK
<1>4. NoTable \notin used
  BY <1>3
<1>5. /\ InTable(match) \subseteq used /\ InTable(clone) \subseteq used
      /\ phase = "prepare" => New \subseteq used
      /\ DoomedIn(doomed) \subseteq used
  BY <1>1 DEF Sharing, Kept
<1>6. phase # "none" => InTable(match) = {match} \cup elems[match] /\ match \in Tables
  BY <1>1, <1>3 DEF InTable, Phasing
<1>7. phase # "prepare" => New \subseteq InTable(clone)
  <2>1. CASE phase \in {"none", "deleted"}
    <3>1. trans = <<>>
      BY <1>1, <2>1 DEF Phasing
    <3> QED
      BY <3>1 DEF New, Recorded
  <2>2. CASE phase = "flipped"
    <3>1. ~failed /\ clone # NoTable => state[clone] \in {"NEW", "MOD"}
      BY <1>1, <1>3, <2>2 DEF TypeOK, States, Phasing, Cloning
    <3> QED
      BY <1>1, <2>2, <3>1 DEF Phasing, Cloning, InTable
  <2> QED
    BY <1>1, <2>1, <2>2 DEF TypeOK, Phases
<1>8. ASSUME NEW r \in Readers, reader[r] # NoTable PROVE reader[r] # clone
  <2>1. reader[r] \in InTable(reader[r])
    BY <1>8 DEF InTable
  <2>2. reader[r] \in InTable(match) \/ WaitsIn(doomed, reader[r], r)
    BY <2>1 DEF IInv, Lookups
  <2>3. reader[r] \in InTable(match) \/ reader[r] \in DoomedIn(doomed)
    BY <2>2 DEF WaitsIn, DoomedIn
  <2> SUFFICES ASSUME reader[r] = clone PROVE FALSE
    OBVIOUS
  <2>4. clone \in Tables /\ clone # match /\ clone \in InTable(clone)
    BY <1>1, <1>3, <1>8 DEF Cloning, InTable
  <2>5. clone \notin InTable(match)
    BY <1>3, <2>4 DEF InTable
  <2>6. clone \notin DoomedIn(doomed)
    BY <1>1, <2>4 DEF Sharing, Kept
  <2> QED
    BY <2>3, <2>5, <2>6
<1> QED
  BY <1>2, <1>3, <1>4, <1>5, <1>6, <1>7, <1>8

(* The match a command works on. *)
LEMMA CloneFacts ==
  ASSUME IInv, phase = "prepare", NEW c \in MaybeClone
  PROVE  /\ c \in Tables /\ match \in Tables /\ c # match /\ c # NoTable
         /\ clone # NoTable => c = clone
         /\ clone = NoTable => c \notin used /\ New = {} /\ StateOf(c) = "NEW"
         /\ Content(c) \subseteq elems[match] \cup New
         /\ StateOf(c) # "ERR" => Content(c) = elems[match] \cup New
         /\ StateOf(c) \in States /\ (StateOf(c) = "NEW" <=> New = {})
         /\ StateOf(c) = "ERR" => failed
         /\ c \notin DoomedIn(doomed) /\ c \notin InTable(match)
         /\ used \cup {c} = DoomedIn(doomed) \cup InTable(match) \cup New \cup {c}
         /\ \A r \in Readers : reader[r] # c
<1>1. TypeOK /\ Phasing /\ Cloning /\ Sharing
  BY FreedOnceSharing DEF IInv
<1>2. match \in Tables /\ InTable(match) \subseteq used /\ DoomedIn(doomed) \subseteq used
      /\ InTable(match) = {match} \cup elems[match]
  BY Places
<1>3. c \in Tables /\ c # NoTable
  BY <1>1 DEF MaybeClone, TypeOK
<1>4. CASE clone # NoTable
  <2>1. c = clone
    BY <1>4 DEF MaybeClone
  <2>2. StateOf(c) = state[c] /\ Content(c) = elems[c] /\ state[c] \in States
    BY <1>1, <1>3, <2>1 DEF StateOf, Content, TypeOK
  <2>3. /\ c # match /\ Content(c) \subseteq elems[match] \cup New
        /\ StateOf(c) # "ERR" => Content(c) = elems[match] \cup New
        /\ (StateOf(c) = "NEW" <=> New = {}) /\ (StateOf(c) = "ERR" => failed)
    BY <1>1, <1>4, <2>1, <2>2 DEF Cloning, States
  <2>4. c \notin InTable(match)
    BY <1>1, <1>2, <1>3, <2>3 DEF TypeOK
  <2>5. InTable(clone) = {c} \cup Content(c)
    BY <1>3, <2>1, <2>2 DEF InTable
  <2>6. Kept = InTable(match) \cup New \cup {c}
    BY <1>2, <2>3, <2>5 DEF Kept
  <2>7. c \notin DoomedIn(doomed)
    BY <1>1, <2>6 DEF Sharing
  <2>8. used \cup {c} = DoomedIn(doomed) \cup InTable(match) \cup New \cup {c}
    BY <1>1, <2>6 DEF Sharing
  <2>9. \A r \in Readers : reader[r] # c
    BY <1>3, <2>1, Places
  <2> QED
    BY <1>2, <1>3, <1>4, <2>1, <2>2, <2>3, <2>4, <2>7, <2>8, <2>9
<1>5. CASE clone = NoTable
  <2>1. c \notin used /\ New = {}
    BY <1>1, <1>5 DEF MaybeClone, Cloning
  <2>2. StateOf(c) = "NEW" /\ Content(c) = elems[match]
    BY <1>3, <1>5 DEF StateOf, Content, States
  <2>3. c # match /\ c \notin InTable(match) /\ c \notin DoomedIn(doomed)
    BY <1>2, <2>1
  <2>4. Kept = InTable(match) \cup New
    BY <1>5, <2>1 DEF Kept, InTable
  <2>5. ASSUME NEW r \in Readers, reader[r] = c PROVE FALSE
    <3>1. c \in InTable(reader[r])
      BY <1>3, <2>5 DEF InTable
    <3>2. c \in InTable(match) \/ WaitsIn(doomed, c, r)
      BY <3>1 DEF IInv, Lookups
    <3> QED
      BY <2>3, <3>2 DEF WaitsIn, DoomedIn
  <2> QED
    BY <1>1, <1>2, <1>3, <1>5, <2>1, <2>2, <2>3, <2>4, <2>5 DEF Sharing, States
<1> QED
  BY <1>4, <1>5

(* A command that changes the clone. *)
Cloned(c, es, st) ==
  /\ SetClone(c, es, st) /\ es \subseteq Elems /\ st \in States
  /\ trans' \in Seq(Record) /\ Distinct(trans') /\ failed' \in BOOLEAN
  /\ active' \in [Elems -> SUBSET {"cur", "next"}] /\ expired' \subseteq Elems
  /\ New \subseteq New' /\ (New' \ New) \cap used = {}
  /\ Del' \subseteq InTable(match) \cup New'
  /\ used' = used \cup {c} \cup New'
  /\ st = "NEW" => es = elems[match] /\ New' = {}
  /\ st = "MOD" => es = elems[match] \cup New' /\ New' # {}
  /\ st = "ERR" => es \subseteq elems[match] \cup New' /\ New' # {} /\ failed'

LEMMA CloneStep ==
  ASSUME IInv, phase = "prepare", NEW c \in MaybeClone,
         NEW es, NEW st, Cloned(c, es, st), UNCHANGED <<phase, match, doomed, reader>>
  PROVE  TypeOK' /\ Phasing' /\ Cloning' /\ FreedOnce' /\ Lookups'
<1>0. TypeOK /\ Phasing /\ Cloning /\ Sharing /\ Lookups
  BY FreedOnceSharing DEF IInv
<1>1. /\ c \in Tables /\ match \in Tables /\ c # match /\ c # NoTable
      /\ c \notin DoomedIn(doomed) /\ c \notin InTable(match)
      /\ used \cup {c} = DoomedIn(doomed) \cup InTable(match) \cup New \cup {c}
      /\ \A r \in Readers : reader[r] # c
  BY CloneFacts
<1>2. /\ clone' = c /\ elems' = [elems EXCEPT ![c] = es] /\ state' = [state EXCEPT ![c] = st]
      /\ es \subseteq Elems /\ st \in States
  BY DEF Cloned, SetClone
<1>3. /\ elems'[c] = es /\ state'[c] = st /\ \A t \in Tables : t # c => elems'[t] = elems[t]
  BY <1>0, <1>1, <1>2 DEF TypeOK
<1>4. New' \subseteq Elems
  <2>1. New' = RecordedIn(trans', "newelem")
    BY DEF New, Recorded, RecordedIn
  <2> QED
    BY <2>1, RecordedSet DEF Cloned, Ops
<1>5. InTable(match)' = InTable(match)
  BY <1>1, <1>3 DEF InTable
<1>6. TypeOK'
  BY <1>0, <1>1, <1>2, <1>4 DEF TypeOK, Cloned, Record
<1>7. Phasing'
  BY <1>0 DEF Phasing, Reading
<1>8. Cloning'
  <2>1. New \cap InTable(match) = {} /\ InTable(match) \subseteq used
    BY <1>0, Places DEF Cloning
  <2>2. New' \cap InTable(match) = {}
    BY <2>1 DEF Cloned
  <2> QED
    BY <1>1, <1>2, <1>3, <1>5, <2>2 DEF Cloning, Cloned
<1>9. FreedOnce'
  <2>1. InTable(clone)' = {c} \cup es
    BY <1>1, <1>2, <1>3 DEF InTable
  <2>2. es \subseteq InTable(match) \cup New'
    BY <1>1, <1>2 DEF Cloned, States, InTable
  <2>3. Kept' = InTable(match) \cup New' \cup {c}
    BY <1>5, <2>1, <2>2 DEF Kept
  <2>4. DoomedIn(doomed)' = DoomedIn(doomed) /\ Apart(doomed)'
    BY <1>0 DEF Sharing
  <2>5. used' = DoomedIn(doomed) \cup Kept'
    BY <1>1, <2>3 DEF Cloned
  <2>6. DoomedIn(doomed) \cap Kept' = {}
    <3>1. DoomedIn(doomed) \cap (InTable(match) \cup New) = {} /\ DoomedIn(doomed) \subseteq used
      BY <1>0 DEF Sharing, Kept
    <3> QED
      BY <1>1, <2>3, <3>1 DEF Cloned
  <2>7. Sharing'
    BY <2>4, <2>5, <2>6 DEF Sharing, Cloned
  <2>8. FreedOnce' <=> Sharing'
    BY FreedOnceSharing, PTL
  <2> QED
    BY <2>7, <2>8
<1>10. Lookups'
  <2>1. \A r \in Readers : InTable(reader[r])' = InTable(reader[r])
    BY <1>0, <1>1, <1>3 DEF InTable, TypeOK
  <2> QED
    BY <1>0, <1>5, <2>1 DEF Lookups
<1> QED
  BY <1>6, <1>7, <1>8, <1>9, <1>10

-----------------------------------------------------------------------------
(* Commands *)

LEMMA NewRecords ==
  ASSUME trans' \in Seq(Record)
  PROVE  /\ New' = {e \in Elems : [op |-> "newelem", e |-> e] \in ToSet(trans')}
         /\ Del' = {e \in Elems : [op |-> "delelem", e |-> e] \in ToSet(trans')}
<1>1. New' = RecordedIn(trans', "newelem") /\ Del' = RecordedIn(trans', "delelem")
  BY DEF New, Del, Recorded, RecordedIn
<1> QED
  BY <1>1, RecordedSet DEF Ops

LEMMA ElemRecorded ==
  ASSUME IInv, NEW op \in Ops, NEW e \in Elems,
         trans' = Append(trans, [op |-> op, e |-> e])
  PROVE  /\ trans' \in Seq(Record) /\ trans' # <<>>
         /\ New' = New \cup (IF op = "newelem" THEN {e} ELSE {})
         /\ Del' = Del \cup (IF op = "delelem" THEN {e} ELSE {})
         /\ (op = "newelem" => e \notin New) /\ (op = "delelem" => e \notin Del)
              => Distinct(trans')
<1> DEFINE x == [op |-> op, e |-> e]
<1>1. /\ trans \in Seq(Record) /\ Distinct(trans)
      /\ New = {d \in Elems : [op |-> "newelem", e |-> d] \in ToSet(trans)}
      /\ Del = {d \in Elems : [op |-> "delelem", e |-> d] \in ToSet(trans)}
  BY Records, FreedOnceSharing DEF IInv, Sharing
<1>2. x \in Record
  BY DEF Record
<1>3. /\ trans' \in Seq(Record) /\ trans' # <<>> /\ ToSet(trans') = ToSet(trans) \cup {x}
      /\ x \notin ToSet(trans) => Distinct(trans')
  BY <1>1, <1>2, AppendSet
<1>4. \A o \in Ops, d \in Elems : [op |-> o, e |-> d] = x <=> o = op /\ d = e
  OBVIOUS
<1> HIDE DEF x
<1>5. New' = New \cup (IF op = "newelem" THEN {e} ELSE {})
  BY <1>1, <1>3, <1>4, NewRecords DEF Ops
<1>6. Del' = Del \cup (IF op = "delelem" THEN {e} ELSE {})
  BY <1>1, <1>3, <1>4, NewRecords DEF Ops
<1>7. (op = "newelem" => e \notin New) /\ (op = "delelem" => e \notin Del)
        => x \notin ToSet(trans)
  BY <1>1 DEF Ops, x
<1> QED
  BY <1>3, <1>5, <1>6, <1>7

LEMMA Unrecorded ==
  ASSUME IInv, trans' = trans
  PROVE  trans' \in Seq(Record) /\ Distinct(trans') /\ New' = New /\ Del' = Del
  BY Records, FreedOnceSharing DEF IInv, Sharing, New, Del, Recorded

LEMMA InsertStep == ASSUME IInv, NEW e \in Elems, Insert(e) PROVE IInv'
<1>0. TypeOK /\ Activity /\ Cloning
  BY DEF IInv
<1>1. PICK c \in MaybeClone :
        /\ StateOf(c) # "ERR" /\ SetClone(c, Content(c) \cup {e}, "MOD")
        /\ used' = used \cup {c, e}
  BY DEF Insert
<1>2. /\ phase = "prepare" /\ e \notin used
      /\ active' = [active EXCEPT ![e] = {"next"}] /\ expired' = expired \ {e}
      /\ trans' = Append(trans, [op |-> "newelem", e |-> e])
      /\ UNCHANGED <<phase, match, failed, doomed, reader>>
  BY DEF Insert, Updating
<1>3. /\ New \subseteq used /\ InTable(match) \subseteq used /\ New \subseteq Elems
      /\ InTable(match) = {match} \cup elems[match] /\ \A t \in Tables : elems[t] \subseteq Elems
  BY <1>2, Places
<1>4. e \notin New /\ e \notin elems[match] /\ e \notin Del
  BY <1>0, <1>2, <1>3 DEF Cloning
<1>5. trans' \in Seq(Record) /\ Distinct(trans') /\ New' = New \cup {e} /\ Del' = Del
  BY <1>2, <1>4, ElemRecorded DEF Ops
<1>6. /\ c \in Tables /\ c # match /\ match \in Tables /\ Content(c) = elems[match] \cup New
  BY <1>1, <1>2, CloneFacts
<1>7. Cloned(c, Content(c) \cup {e}, "MOD")
  <2>1. active' \in [Elems -> SUBSET {"cur", "next"}] /\ expired' \subseteq Elems
        /\ failed' \in BOOLEAN
    BY <1>0, <1>2 DEF TypeOK
  <2>2. (New' \ New) \cap used = {} /\ used' = used \cup {c} \cup New'
    BY <1>1, <1>2, <1>3, <1>5
  <2>3. Del' \subseteq InTable(match) \cup New'
    BY <1>0, <1>5 DEF Cloning
  <2>4. Content(c) \cup {e} = elems[match] \cup New' /\ Content(c) \cup {e} \subseteq Elems
    BY <1>3, <1>5, <1>6
  <2> QED
    BY <1>1, <1>5, <2>1, <2>2, <2>3, <2>4 DEF Cloned, States
<1>8. TypeOK' /\ Phasing' /\ Cloning' /\ FreedOnce' /\ Lookups'
  BY <1>1, <1>2, <1>7, CloneStep
<1>9. Activity'
  <2>1. elems'[match] = elems[match]
    BY <1>0, <1>1, <1>6 DEF SetClone, TypeOK
  <2>2. \A x \in elems[match] \cup New : active'[x] = active[x]
    BY <1>0, <1>2, <1>3, <1>4, <1>6 DEF TypeOK
  <2>3. active'[e] = {"next"}
    BY <1>0, <1>2 DEF TypeOK
  <2> QED
    BY <1>0, <1>2, <1>4, <1>5, <2>1, <2>2, <2>3 DEF Activity, Old, Young
<1> QED
  BY <1>8, <1>9 DEF IInv

(* A command that keeps what is in the clone and deactivates some of it. *)
Deactivated(c, D) ==
  /\ Keep(c) /\ used' = used \cup {c} /\ failed' \in BOOLEAN
  /\ D \subseteq Content(c)
  /\ trans' \in Seq(Record) /\ Distinct(trans') /\ New' = New /\ Del' = Del \cup D
  /\ active' = [x \in Elems |-> IF x \in D THEN active[x] \ {"next"} ELSE active[x]]
  /\ failed => failed'

LEMMA KeepStep ==
  ASSUME IInv, phase = "prepare", NEW c \in MaybeClone, NEW D, Deactivated(c, D),
         UNCHANGED <<phase, match, expired, doomed, reader>>
  PROVE  IInv'
<1>0. TypeOK /\ Activity /\ Cloning
  BY DEF IInv
<1>1. /\ New \subseteq used /\ New \subseteq Elems
      /\ InTable(match) = {match} \cup elems[match] /\ \A t \in Tables : elems[t] \subseteq Elems
  BY Places
<1>2. /\ c \in Tables /\ c # match /\ match \in Tables
      /\ Content(c) \subseteq elems[match] \cup New
      /\ StateOf(c) # "ERR" => Content(c) = elems[match] \cup New
      /\ StateOf(c) \in States /\ (StateOf(c) = "NEW" <=> New = {})
      /\ StateOf(c) = "ERR" => failed
  BY CloneFacts
<1>3. Cloned(c, Content(c), StateOf(c))
  <2>1. active' \in [Elems -> SUBSET {"cur", "next"}] /\ expired' \subseteq Elems
    BY <1>0 DEF TypeOK, Deactivated
  <2>2. SetClone(c, Content(c), StateOf(c))
    BY DEF Deactivated, Keep
  <2>3. Del' \subseteq InTable(match) \cup New'
    BY <1>0, <1>1, <1>2 DEF Cloning, Deactivated
  <2>4. Content(c) \subseteq Elems
    BY <1>1, <1>2
  <2>5. New' = New /\ used' = used \cup {c} \cup New'
    BY <1>1 DEF Deactivated
  <2> QED
    BY <1>2, <2>1, <2>2, <2>3, <2>4, <2>5 DEF Cloned, States, Deactivated
<1>4. TypeOK' /\ Phasing' /\ Cloning' /\ FreedOnce' /\ Lookups'
  BY <1>2, <1>3, CloneStep
<1>5. Activity'
  <2>1. elems'[match] = elems[match]
    BY <1>0, <1>2 DEF Deactivated, Keep, SetClone, TypeOK
  <2>2. ASSUME NEW x \in elems[match] \cup New
        PROVE  /\ "cur" \in active'[x] <=> "cur" \in active[x]
               /\ "next" \in active'[x] <=> "next" \in active[x] /\ x \notin D
    <3>1. x \in Elems
      BY <1>1, <1>2
    <3>2. active'[x] = IF x \in D THEN active[x] \ {"next"} ELSE active[x]
      BY <3>1 DEF Deactivated
    <3> QED
      BY <3>2
  <2>3. /\ \A x \in elems[match] : "cur" \in active[x] /\ ("next" \in active[x] <=> x \notin Del)
        /\ \A x \in New : "cur" \notin active[x] /\ ("next" \in active[x] <=> x \notin Del)
    BY <1>0 DEF Activity, Old, Young
  <2>4. New' = New /\ Del' = Del \cup D
    BY DEF Deactivated
  <2> QED
    BY <2>1, <2>2, <2>3, <2>4 DEF Activity, Old, Young
<1> QED
  BY <1>4, <1>5 DEF IInv

LEMMA DeactivateStep == ASSUME IInv, NEW e \in Elems, Deactivate(e) PROVE IInv'
<1>1. PICK c \in MaybeClone :
        /\ e \in Get(c, KeyOf[e]) /\ Keep(c) /\ used' = used \cup {c}
  BY DEF Deactivate
<1>2. /\ phase = "prepare" /\ active' = [active EXCEPT ![e] = @ \ {"next"}]
      /\ trans' = Append(trans, [op |-> "delelem", e |-> e])
      /\ UNCHANGED <<phase, match, expired, failed, doomed, reader>>
  BY DEF Deactivate, Updating
<1>3. e \in Content(c) /\ "next" \in active[e]
  BY <1>1 DEF Get
<1>4. Content(c) \subseteq elems[match] \cup New
  BY <1>2, CloneFacts
<1>5. e \notin Del
  BY <1>2, <1>3, <1>4 DEF IInv, Activity, Old, Young
<1>6. trans' \in Seq(Record) /\ Distinct(trans') /\ New' = New /\ Del' = Del \cup {e}
  BY <1>2, <1>5, ElemRecorded DEF Ops
<1>7. active' = [x \in Elems |-> IF x \in {e} THEN active[x] \ {"next"} ELSE active[x]]
  BY <1>2 DEF IInv, TypeOK
<1>8. Deactivated(c, {e})
  BY <1>1, <1>2, <1>3, <1>6, <1>7 DEF Deactivated, IInv, TypeOK
<1> QED
  BY <1>2, <1>8, KeepStep

LEMMA ExistsStep ==
  ASSUME IInv, NEW k, InsertExists(k) \/ DeactivateMissing(k) PROVE IInv'
<1>1. PICK c \in MaybeClone : Keep(c) /\ used' = used \cup {c}
  BY DEF InsertExists, DeactivateMissing
<1>2. /\ phase = "prepare" /\ active' = active /\ trans' = trans /\ failed' \in {failed, TRUE}
      /\ UNCHANGED <<phase, match, expired, doomed, reader>>
  BY DEF InsertExists, DeactivateMissing, Updating
<1>3. active' = [x \in Elems |-> IF x \in {} THEN active[x] \ {"next"} ELSE active[x]]
  BY <1>2 DEF IInv, TypeOK
<1>4. Deactivated(c, {})
  BY <1>1, <1>2, <1>3, Unrecorded DEF Deactivated, IInv, TypeOK
<1> QED
  BY <1>2, <1>4, KeepStep

LEMMA FlushStep == ASSUME IInv, Flush PROVE IInv'
<1>0. TypeOK /\ Activity /\ Sharing
  <2>1. Sharing
    BY FreedOnceSharing DEF IInv
  <2> QED
    BY <2>1 DEF IInv
<1> DEFINE Flushes(c, es) ==
             /\ Keep(c) /\ used' = used \cup {c}
             /\ active' = [e \in Elems |->
                  IF e \notin es THEN active[e]
                  ELSE IF "next" \in active[e] THEN active[e] \ {"next"}
                  ELSE active[e] \cup {"next"}]
             /\ trans' = trans \o SetToSeq([op : {"delelem"}, e : es])
             /\ failed' = (failed \/ es # Flushable(c))
<1>a. PICK c \in MaybeClone : \E es \in SUBSET Flushable(c) : Flushes(c, es)
  BY DEF Flush
<1>1. PICK es \in SUBSET Flushable(c) : Flushes(c, es)
  BY <1>a
<1>2. phase = "prepare" /\ UNCHANGED <<phase, match, expired, doomed, reader>>
  BY DEF Flush, Updating
<1>3. /\ Content(c) \subseteq elems[match] \cup New /\ match \in Tables
  BY <1>2, CloneFacts
<1>4. /\ es \subseteq Content(c) /\ es \subseteq Elems
      /\ \A e \in es : "next" \in active[e] /\ e \notin Del
  <2>1. es \subseteq Content(c) /\ \A e \in es : "next" \in active[e]
    BY DEF Flushable
  <2>2. \A e \in es : e \notin Del
    BY <1>0, <1>2, <1>3, <2>1 DEF Activity, Old, Young
  <2>3. es \subseteq Elems
    BY <1>3, <2>1, Places
  <2> QED
    BY <2>1, <2>2, <2>3
<1>5. active' = [x \in Elems |-> IF x \in es THEN active[x] \ {"next"} ELSE active[x]]
  BY <1>1, <1>4
<1>6. trans' \in Seq(Record) /\ Distinct(trans') /\ New' = New /\ Del' = Del \cup es
  <2> DEFINE S == [op : {"delelem"}, e : es]
             u == SetToSeq(S)
  <2>1. S \in SUBSET Record /\ IsFiniteSet(S)
    BY <1>4, FlushedRecords
  <2>2. /\ \A e : [op |-> "newelem", e |-> e] \notin S
        /\ \A e : [op |-> "delelem", e |-> e] \in S <=> e \in es
        /\ \A x \in S : x.e \in es /\ x = [op |-> "delelem", e |-> x.e]
    OBVIOUS
  <2> HIDE DEF S
  <2>3. u \in Seq(Record) /\ ToSet(u) = S /\ Distinct(u)
    BY <2>1, SetToSeqSet
  <2> HIDE DEF u
  <2>4. /\ trans \in Seq(Record) /\ Distinct(trans) /\ trans' = trans \o u
        /\ New = {e \in Elems : [op |-> "newelem", e |-> e] \in ToSet(trans)}
        /\ Del = {e \in Elems : [op |-> "delelem", e |-> e] \in ToSet(trans)}
    BY <1>0, <1>1, Records DEF Sharing, u, S
  <2>5. ToSet(trans) \cap ToSet(u) = {}
    <3> SUFFICES ASSUME NEW x \in S, x \in ToSet(trans) PROVE FALSE
      BY <2>3
    <3>1. x.e \in es /\ x.e \in Elems /\ x.e \in Del
      BY <1>4, <2>2, <2>4
    <3> QED
      BY <1>4, <3>1
  <2>6. trans' \in Seq(Record) /\ Distinct(trans') /\ ToSet(trans') = ToSet(trans) \cup S
    BY <2>3, <2>4, <2>5, ConcatSet
  <2>7. New' = New /\ Del' = Del \cup es
    BY <1>4, <2>2, <2>4, <2>6, NewRecords
  <2> QED
    BY <2>6, <2>7
<1>7. Deactivated(c, es)
  BY <1>0, <1>1, <1>4, <1>5, <1>6 DEF Deactivated, TypeOK
<1> QED
  BY <1>2, <1>7, KeepStep

LEMMA InsertFailsStep == ASSUME IInv, NEW k, InsertFails(k) PROVE IInv'
<1>0. TypeOK /\ Phasing /\ Cloning /\ Lookups /\ Activity
  BY DEF IInv
<1>1. PICK c \in MaybeClone : StateOf(c) # "ERR" /\ Breaks(c)
  BY DEF InsertFails
<1>2. /\ phase = "prepare" /\ failed' = TRUE /\ trans' = trans
      /\ UNCHANGED <<phase, match, active, expired, trans, doomed, reader>>
  BY DEF InsertFails, Updating
<1>3. New' = New /\ Del' = Del /\ trans' \in Seq(Record) /\ Distinct(trans')
  BY <1>2, Unrecorded
<1>4. /\ c \in Tables /\ c # match /\ match \in Tables /\ c # NoTable
      /\ clone # NoTable => c = clone
      /\ clone = NoTable => c \notin used
      /\ Content(c) = elems[match] \cup New /\ (StateOf(c) = "NEW" <=> New = {})
      /\ used \cup {c} = DoomedIn(doomed) \cup InTable(match) \cup New \cup {c}
      /\ c \notin DoomedIn(doomed) /\ c \notin InTable(match)
  BY <1>1, <1>2, CloneFacts
<1>5. CASE StateOf(c) = "NEW"
  <2>1. clone' = NoTable /\ used' = used \ {c} /\ UNCHANGED <<elems, state>>
    BY <1>1, <1>5 DEF Breaks
  <2>2. New' = {} /\ InTable(match)' = InTable(match)
    BY <1>2, <1>3, <1>4, <1>5, <2>1 DEF InTable
  <2>3. TypeOK'
    BY <1>0, <1>2, <2>1 DEF TypeOK
  <2>4. Phasing'
    BY <1>0, <1>2 DEF Phasing, Reading
  <2>5. Cloning'
    BY <1>0, <1>3, <2>1, <2>2 DEF Cloning
  <2>6. FreedOnce'
    <3>1. Sharing
      BY FreedOnceSharing DEF IInv
    <3>2. Kept' = InTable(match)
      BY <2>1, <2>2 DEF Kept, InTable
    <3>3. used' = DoomedIn(doomed) \cup InTable(match)
      BY <1>3, <1>4, <2>1, <2>2
    <3>4. DoomedIn(doomed) \cap InTable(match) = {}
      BY <3>1 DEF Sharing, Kept
    <3>5. DoomedIn(doomed)' = DoomedIn(doomed) /\ Apart(doomed)'
      BY <1>2, <3>1 DEF Sharing
    <3>6. Sharing'
      BY <1>3, <3>2, <3>3, <3>4, <3>5 DEF Sharing
    <3>7. FreedOnce' <=> Sharing'
      BY FreedOnceSharing, PTL
    <3> QED
      BY <3>6, <3>7
  <2>7. Lookups'
    <3>1. \A r \in Readers : InTable(reader[r])' = InTable(reader[r])
      BY <1>2, <2>1 DEF InTable
    <3> QED
      BY <1>0, <1>2, <2>2, <3>1 DEF Lookups
  <2>8. Activity'
    BY <1>0, <1>2, <1>3, <2>1 DEF Activity, Old, Young
  <2> QED
    BY <2>3, <2>4, <2>5, <2>6, <2>7, <2>8 DEF IInv
<1>6. CASE StateOf(c) # "NEW"
  <2>1. PICK es \in SUBSET Content(c) : SetClone(c, es, "ERR") /\ UNCHANGED used
    BY <1>1, <1>6 DEF Breaks
  <2>2. New # {} /\ clone # NoTable /\ New \subseteq used /\ clone \in used
    BY <1>0, <1>2, <1>4, <1>6, Places DEF Cloning, InTable
  <2>3. es \subseteq Elems /\ es \subseteq elems[match] \cup New
    BY <1>4, Places
  <2>4. Cloned(c, es, "ERR")
    <3>1. /\ failed' \in BOOLEAN /\ expired' \subseteq Elems
          /\ active' \in [Elems -> SUBSET {"cur", "next"}]
      BY <1>0, <1>2 DEF TypeOK
    <3>2. Del' \subseteq InTable(match) \cup New' /\ used' = used \cup {c} \cup New'
      BY <1>0, <1>3, <1>4, <2>1, <2>2 DEF Cloning
    <3> QED
      BY <1>2, <1>3, <2>1, <2>2, <2>3, <3>1, <3>2 DEF Cloned, States
  <2>5. TypeOK' /\ Phasing' /\ Cloning' /\ FreedOnce' /\ Lookups'
    BY <1>2, <2>4, CloneStep
  <2>6. elems'[match] = elems[match]
    BY <1>0, <1>4, <2>1 DEF SetClone, TypeOK
  <2>7. Activity'
    BY <1>0, <1>2, <1>3, <2>6 DEF Activity, Old, Young
  <2> QED
    BY <2>5, <2>7 DEF IInv
<1> QED
  BY <1>5, <1>6

(* A step that changes nothing but records, flags or the clock, or frees.  *)
LEMMA QuietStep ==
  ASSUME IInv, TypeOK', Phasing', UNCHANGED <<tables, used, doomed, reader, active>>,
         New' = New, Del' = Del, Distinct(trans'), phase' = phase, failed => failed'
  PROVE  IInv'
<1>0. TypeOK /\ Phasing /\ Cloning /\ Lookups /\ Activity
  BY DEF IInv
<1>1. Sharing
  BY FreedOnceSharing DEF IInv
<1>2. UNCHANGED <<match, clone, elems, state, used, doomed, reader, active>>
  BY DEF tables
<1>3. Cloning'
  BY <1>0, <1>2 DEF Cloning, InTable
<1>4. Sharing'
  <2>1. Kept' = Kept
    BY <1>2 DEF Kept, InTable
  <2>2. DoomedIn(doomed)' = DoomedIn(doomed) /\ Apart(doomed)' = Apart(doomed)
    BY <1>2
  <2> QED
    BY <1>1, <1>2, <2>1, <2>2 DEF Sharing
<1>5. FreedOnce' <=> Sharing'
  BY FreedOnceSharing, PTL
<1>6. Lookups'
  BY <1>0, <1>2 DEF Lookups, InTable
<1>7. Activity'
  BY <1>0, <1>2 DEF Activity, Old, Young
<1> QED
  BY <1>3, <1>4, <1>5, <1>6, <1>7 DEF IInv

LEMMA DeleteSetStep == ASSUME IInv, DeleteSet PROVE IInv'
<1>1. /\ trans' = Append(trans, [op |-> "delset"]) /\ phase = "prepare"
      /\ \A i \in DOMAIN trans : trans[i].op # "delset"
      /\ UNCHANGED <<phase, failed, tables, used, active, expired, doomed, reader>>
  BY DEF DeleteSet, Updating
<1>2. TypeOK /\ Phasing /\ Sharing
  <2>1. Sharing
    BY FreedOnceSharing DEF IInv
  <2> QED
    BY <2>1 DEF IInv
<1>3. /\ trans \in Seq(Record) /\ Distinct(trans)
      /\ New = {e \in Elems : [op |-> "newelem", e |-> e] \in ToSet(trans)}
      /\ Del = {e \in Elems : [op |-> "delelem", e |-> e] \in ToSet(trans)}
  BY <1>2, Records DEF Sharing
<1> DEFINE x == [op |-> "delset"]
<1>4. x \in Record /\ x.op = "delset"
  BY DEF Record, NoElems
<1>5. /\ \A e : [op |-> "newelem", e |-> e].op = "newelem"
      /\ \A e : [op |-> "delelem", e |-> e].op = "delelem"
  OBVIOUS
<1>6. \A e : [op |-> "newelem", e |-> e] # x /\ [op |-> "delelem", e |-> e] # x
  BY <1>4, <1>5
<1>7. x \notin ToSet(trans)
  BY <1>1, <1>4 DEF ToSet
<1> HIDE DEF x
<1>8. trans' = Append(trans, x)
  BY <1>1 DEF x
<1>9. /\ trans' \in Seq(Record) /\ Distinct(trans')
      /\ ToSet(trans') = ToSet(trans) \cup {x}
  BY <1>3, <1>4, <1>7, <1>8, AppendSet
<1>10. New' = New /\ Del' = Del
  BY <1>3, <1>6, <1>9, NewRecords
<1>11. UNCHANGED <<match, clone, elems, state>>
  BY <1>1 DEF tables
<1>12. TypeOK'
  BY <1>1, <1>2, <1>9, <1>11 DEF TypeOK, Record
<1>13. Phasing'
  BY <1>1, <1>2, <1>11 DEF Phasing, Reading
<1> QED
  BY <1>1, <1>9, <1>10, <1>12, <1>13, QuietStep

LEMMA CommandFailsStep == ASSUME IInv, CommandFails PROVE IInv'
<1>1. phase = "prepare" /\ failed' = TRUE
      /\ UNCHANGED <<phase, tables, used, active, expired, trans, doomed, reader>>
      /\ UNCHANGED <<match, clone, elems, state>>
  BY DEF CommandFails, tables
<1>2. TypeOK' /\ Phasing'
  BY <1>1 DEF IInv, TypeOK, Phasing, Reading
<1> QED
  BY <1>1, <1>2, Unrecorded, QuietStep

LEMMA ExpireStep == ASSUME IInv, NEW e \in Elems, Expire(e) PROVE IInv'
<1>1. expired' = expired \cup {e} /\ UNCHANGED <<ctl, tables, used, active, doomed, reader>>
      /\ UNCHANGED <<phase, trans, failed, match, clone, elems, state>>
  BY DEF Expire, tables, ctl
<1>2. TypeOK' /\ Phasing'
  BY <1>1 DEF IInv, TypeOK, Phasing, Reading
<1> QED
  BY <1>1, <1>2, Unrecorded, QuietStep

LEMMA CreateSetStep == ASSUME IInv, CreateSet PROVE IInv'
<1>0. TypeOK /\ Phasing /\ Sharing
  <2>1. Sharing
    BY FreedOnceSharing DEF IInv
  <2> QED
    BY <2>1 DEF IInv
<1>1. PICK t \in Tables \ used :
        match' = t /\ used' = used \cup {t} /\ elems' = [elems EXCEPT ![t] = {}]
  BY DEF CreateSet
<1>2. /\ phase = "none" /\ phase' = "prepare"
      /\ UNCHANGED <<clone, state, active, expired, trans, failed, doomed, reader>>
  BY DEF CreateSet
<1>3. match = NoTable /\ clone = NoTable /\ Reading = {} /\ trans = <<>> /\ ~failed
  BY <1>0, <1>2 DEF Phasing
<1>4. New = {} /\ Del = {} /\ New' = {} /\ Del' = {}
  BY <1>2, <1>3 DEF New, Del, Recorded
<1>5. t # NoTable /\ elems'[t] = {} /\ match' = t
  BY <1>0, <1>1 DEF TypeOK
<1>6. TypeOK'
  BY <1>0, <1>1, <1>2, <1>3 DEF TypeOK, Phases
<1>7. Phasing'
  BY <1>2, <1>3, <1>5 DEF Phasing
<1>8. Cloning'
  BY <1>2, <1>3, <1>4 DEF Cloning
<1>9. Sharing'
  <2>1. Kept = {} /\ Kept' = {t}
    BY <1>2, <1>3, <1>4, <1>5 DEF Kept, InTable
  <2>2. DoomedIn(doomed)' = DoomedIn(doomed) /\ Apart(doomed)' /\ Distinct(trans)'
    BY <1>0, <1>2 DEF Sharing
  <2> QED
    BY <1>0, <1>1, <2>1, <2>2 DEF Sharing
<1>10. FreedOnce' <=> Sharing'
  BY FreedOnceSharing, PTL
<1>11. Lookups'
  BY <1>2, <1>3 DEF Lookups, InTable, Reading
<1>12. Activity'
  BY <1>4, <1>5 DEF Activity
<1> QED
  BY <1>6, <1>7, <1>8, <1>9, <1>10, <1>11, <1>12 DEF IInv

-----------------------------------------------------------------------------
(* Elsewhere *)

LEMMA ElsewhereStep ==
  ASSUME IInv, UNCHANGED <<ctl, tables, active, expired>>,
         reader' \in [Readers -> Tables \cup {NoTable}], phase = "none" => Reading' = {},
         doomed' \in Doomings, Apart(doomed'), DoomedIn(doomed') \subseteq DoomedIn(doomed),
         used' = used \ (DoomedIn(doomed) \ DoomedIn(doomed')), Lookups'
  PROVE  IInv'
<1>0. TypeOK /\ Phasing /\ Cloning /\ Activity
  BY DEF IInv
<1>1. Sharing
  BY FreedOnceSharing DEF IInv
<1>2. UNCHANGED <<phase, trans, failed, match, clone, elems, state, active, expired>>
  BY DEF ctl, tables
<1>3. New' = New /\ Del' = Del
  BY <1>2 DEF New, Del, Recorded
<1>4. TypeOK'
  BY <1>0, <1>2 DEF TypeOK, Doomings
<1>5. Phasing'
  BY <1>0, <1>2 DEF Phasing
<1>6. Cloning' /\ Activity'
  BY <1>0, <1>2, <1>3 DEF Cloning, Activity, InTable, Old, Young
<1>7. Sharing'
  <2>1. Kept' = Kept
    BY <1>2, <1>3 DEF Kept, InTable
  <2>2. Apart(doomed)' /\ Distinct(trans)'
    BY <1>1, <1>2 DEF Sharing
  <2>3. DoomedIn(doomed)' = DoomedIn(doomed')
    BY DEF DoomedIn
  <2> QED
    BY <1>1, <2>1, <2>2, <2>3 DEF Sharing
<1>8. FreedOnce' <=> Sharing'
  BY FreedOnceSharing, PTL
<1> QED
  BY <1>4, <1>5, <1>6, <1>7, <1>8 DEF IInv

LEMMA ReadBeginStep == ASSUME IInv, NEW r \in Readers, ReadBegin(r) PROVE IInv'
<1>1. /\ phase \in {"prepare", "flipped"} /\ reader' = [reader EXCEPT ![r] = match]
      /\ UNCHANGED <<ctl, tables, used, active, expired, doomed>>
      /\ UNCHANGED <<match, elems>>
  BY DEF ReadBegin, tables
<1>2. TypeOK /\ Lookups
  BY DEF IInv
<1>3. doomed \in Doomings /\ Apart(doomed)
  BY <1>2, Records, FreedOnceSharing DEF IInv, Sharing
<1>4. \A s \in Readers : reader'[s] = IF s = r THEN match ELSE reader[s]
  BY <1>1, <1>2 DEF TypeOK
<1>5. reader' \in [Readers -> Tables \cup {NoTable}]
  BY <1>1, <1>2 DEF TypeOK
<1>6. Lookups'
  BY <1>1, <1>2, <1>4 DEF Lookups, InTable
<1> QED
  BY <1>1, <1>3, <1>5, <1>6, ElsewhereStep

LEMMA ReadEndStep == ASSUME IInv, NEW r \in Readers, ReadEnd(r) PROVE IInv'
<1>1. /\ reader[r] # NoTable /\ reader' = [reader EXCEPT ![r] = NoTable]
      /\ doomed' = [i \in DOMAIN doomed |-> [doomed[i] EXCEPT !.waits = @ \ {r}]]
      /\ UNCHANGED <<ctl, tables, used, active, expired>>
      /\ UNCHANGED <<match, elems>>
  BY DEF ReadEnd, tables
<1>2. TypeOK /\ Lookups /\ Phasing
  BY DEF IInv
<1>3. doomed \in Doomings /\ Apart(doomed)
  BY <1>2, Records, FreedOnceSharing DEF IInv, Sharing
<1>4. /\ doomed' \in Doomings /\ DoomedIn(doomed') = DoomedIn(doomed) /\ Apart(doomed')
      /\ \A x, s : WaitsIn(doomed, x, s) /\ s # r => WaitsIn(doomed', x, s)
  <2>1. Left(doomed, r, doomed')
    BY <1>1 DEF Left
  <2> QED
    BY <1>3, <2>1, DoomLeft
<1>5. \A s \in Readers : reader'[s] = IF s = r THEN NoTable ELSE reader[s]
  BY <1>1, <1>2 DEF TypeOK
<1>6. reader' \in [Readers -> Tables \cup {NoTable}]
  BY <1>1, <1>2 DEF TypeOK
<1>7. phase # "none"
  BY <1>1, <1>2 DEF Phasing, Reading
<1>8. Lookups'
  BY <1>1, <1>2, <1>4, <1>5 DEF Lookups, InTable
<1> QED
  BY <1>1, <1>4, <1>6, <1>7, <1>8, ElsewhereStep

LEMMA FreeStep == ASSUME IInv, NEW i \in DOMAIN doomed, Free(i) PROVE IInv'
<1>1. /\ doomed[i].waits = {} /\ used' = used \ doomed[i].objs /\ doomed' = RemoveAt(doomed, i)
      /\ UNCHANGED <<ctl, tables, active, expired, reader>>
      /\ UNCHANGED <<phase, match, elems, reader>>
  BY DEF Free, tables, ctl
<1>2. TypeOK /\ Lookups /\ Phasing
  BY DEF IInv
<1>3. doomed \in Doomings /\ Apart(doomed)
  BY <1>2, Records, FreedOnceSharing DEF IInv, Sharing
<1>4. /\ doomed' \in Doomings /\ DoomedIn(doomed') = DoomedIn(doomed) \ doomed[i].objs
      /\ Apart(doomed')
      /\ \A x, s : WaitsIn(doomed, x, s) /\ s \notin doomed[i].waits => WaitsIn(doomed', x, s)
  BY <1>1, <1>3, DoomLess
<1>5. doomed[i].objs \subseteq DoomedIn(doomed)
  BY DEF DoomedIn
<1>6. DoomedIn(doomed) \ DoomedIn(doomed') = doomed[i].objs
  BY <1>4, <1>5
<1>7. Lookups'
  BY <1>1, <1>2, <1>4 DEF Lookups, InTable
<1>8. phase = "none" => Reading' = {}
  BY <1>1, <1>2 DEF Phasing, Reading
<1>9. reader' \in [Readers -> Tables \cup {NoTable}]
  BY <1>1, <1>2 DEF TypeOK
<1> QED
  BY <1>1, <1>4, <1>6, <1>7, <1>8, <1>9, ElsewhereStep

-----------------------------------------------------------------------------
(* The end of a batch *)

(* A batch that has not failed has all it inserted in the clone. *)
LEMMA Intact ==
  ASSUME IInv, ~failed
  PROVE  /\ clone # NoTable => elems[clone] = elems[match] \cup New
         /\ New \subseteq InTable(clone)
<1>1. clone # NoTable => state[clone] \in {"NEW", "MOD"}
  BY DEF IInv, TypeOK, States, Cloning
<1> QED
  BY <1>1 DEF IInv, Cloning, InTable

LEMMA FlipStep == ASSUME IInv, Flip PROVE IInv'
<1>0. TypeOK /\ Phasing /\ Cloning /\ Lookups /\ Activity
  BY DEF IInv
<1>1. Sharing
  BY FreedOnceSharing DEF IInv
<1>2. /\ phase = "prepare" /\ phase' = "flipped" /\ ~failed /\ trans # <<>>
      /\ active' = [e \in Elems |->
           (IF "cur" \in active[e] THEN {"next"} ELSE {})
           \cup (IF "next" \in active[e] THEN {"cur"} ELSE {})]
      /\ UNCHANGED <<match, clone, elems, state, used, expired, trans, failed, doomed, reader>>
  BY DEF Flip, tables
<1>3. New' = New /\ Del' = Del
  BY <1>2, Unrecorded
<1>4. /\ New \subseteq InTable(clone) /\ New \subseteq Elems
      /\ match \in Tables /\ elems[match] \subseteq Elems
  BY <1>2, Intact, Places
<1>5. TypeOK'
  <2>1. active' \in [Elems -> SUBSET {"cur", "next"}]
    BY <1>2
  <2> QED
    BY <1>0, <1>2, <2>1 DEF TypeOK, Phases
<1>6. Phasing'
  BY <1>0, <1>2 DEF Phasing
<1>7. Cloning' /\ Lookups'
  BY <1>0, <1>2, <1>3 DEF Cloning, Lookups, InTable
<1>8. Sharing'
  <2>1. Kept' = Kept
    BY <1>2, <1>3, <1>4 DEF Kept, InTable
  <2>2. DoomedIn(doomed)' = DoomedIn(doomed) /\ Apart(doomed)' /\ Distinct(trans)'
    BY <1>1, <1>2 DEF Sharing
  <2> QED
    BY <1>1, <1>2, <2>1, <2>2 DEF Sharing
<1>9. FreedOnce' <=> Sharing'
  BY FreedOnceSharing, PTL
<1>10. Activity'
  <2>1. \A e \in Elems : /\ "cur" \in active'[e] <=> "next" \in active[e]
                         /\ "next" \in active'[e] <=> "cur" \in active[e]
    BY <1>2
  <2>2. /\ \A e \in elems[match] : "cur" \in active[e] /\ ("next" \in active[e] <=> e \notin Del)
        /\ \A e \in New : "cur" \notin active[e] /\ ("next" \in active[e] <=> e \notin Del)
    BY <1>0, <1>2 DEF Activity, Old, Young
  <2>3. Old' = "next" /\ Young' = "cur"
    BY <1>2 DEF Old, Young
  <2> QED
    BY <1>2, <1>3, <1>4, <2>1, <2>2, <2>3 DEF Activity
<1> QED
  BY <1>5, <1>6, <1>7, <1>8, <1>9, <1>10 DEF IInv

LEMMA NoRecords == ASSUME trans' = <<>> PROVE New' = {} /\ Del' = {} /\ Distinct(trans')
<1>1. DOMAIN trans' = {}
  OBVIOUS
<1> QED
  BY <1>1 DEF New, Del, Recorded, Distinct

LEMMA AbortStep == ASSUME IInv, Abort PROVE IInv'
<1>0. TypeOK /\ Phasing /\ Cloning /\ Lookups /\ Activity
  BY DEF IInv
<1>1. Sharing /\ doomed \in Doomings
  BY Records, FreedOnceSharing DEF IInv
<1>2. /\ phase = "prepare" /\ trans' = <<>> /\ failed' = FALSE
      /\ active' = [e \in Elems |-> IF e \in Del THEN active[e] \cup {"next"} ELSE active[e]]
      /\ IF New \cup Del # {} THEN clone' = NoTable /\ used' = used \ {clone}
         ELSE UNCHANGED <<clone, used>>
      /\ doomed' = Doom(New)
      /\ UNCHANGED <<phase, match, elems, state, expired, reader>>
  BY DEF Abort, AbortClone, New, Del
<1>3. New' = {} /\ Del' = {} /\ Distinct(trans')
  BY <1>2, NoRecords
<1>4. /\ New \subseteq Elems /\ match \in Tables /\ elems[match] \subseteq Elems
      /\ InTable(match) = {match} \cup elems[match] /\ NoTable \notin used
      /\ \A t \in Tables : elems[t] \subseteq Elems /\ t \notin Elems
      /\ clone \in Tables \cup {NoTable}
  BY <1>2, Places
<1>5. /\ doomed' \in Doomings /\ DoomedIn(doomed') = DoomedIn(doomed) \cup New
      /\ Apart(doomed) /\ New \cap DoomedIn(doomed) = {} => Apart(doomed')
      /\ \A x, r : WaitsIn(doomed, x, r) => WaitsIn(doomed', x, r)
  <2>1. New \in SUBSET (Elems \cup Tables) /\ Reading \in SUBSET Readers
    BY <1>4 DEF Reading
  <2>2. More(doomed, New, Reading, doomed')
    BY <1>2 DEF Doom, More
  <2> QED
    BY <1>1, <2>1, <2>2, DoomMore
<1>6. TypeOK'
  <2>1. active' \in [Elems -> SUBSET {"cur", "next"}]
    BY <1>0, <1>2 DEF TypeOK
  <2>2. clone' \in Tables \cup {NoTable} /\ used' \subseteq Elems \cup Tables
    BY <1>0, <1>2 DEF TypeOK
  <2>3. trans' \in Seq([op : Ops, e : Elems] \cup NoElems)
    BY <1>2
  <2> QED
    BY <1>0, <1>2, <1>5, <2>1, <2>2, <2>3 DEF TypeOK, Doomings
<1>7. Phasing'
  BY <1>0, <1>2 DEF Phasing, Reading
<1>8. Cloning'
  <2>1. CASE New \cup Del # {}
    BY <1>2, <1>3, <2>1 DEF Cloning
  <2>2. CASE New \cup Del = {}
    <3>1. UNCHANGED <<match, clone, elems, state>> /\ New = {}
      BY <1>2, <2>2
    <3> QED
      BY <1>0, <1>3, <3>1 DEF Cloning
  <2> QED
    BY <2>1, <2>2
<1>9. Sharing'
  <2>1. Kept = InTable(match) \cup InTable(clone) \cup New
    BY <1>2 DEF Kept
  <2>2. New \cap DoomedIn(doomed) = {} /\ New \cap InTable(match) = {}
    BY <1>0, <1>1, <2>1 DEF Sharing, Cloning
  <2>3. DoomedIn(doomed') \cap Kept' = {} /\ used' = DoomedIn(doomed') \cup Kept'
    <3>1. CASE New \cup Del # {}
      <4>1. Kept' = InTable(match)
        BY <1>2, <1>3, <3>1 DEF Kept, InTable
      <4>2. used \ {clone} = DoomedIn(doomed) \cup InTable(match) \cup New
        <5>1. CASE clone = NoTable
          BY <1>1, <1>4, <2>1, <5>1 DEF Sharing, InTable
        <5>2. CASE clone # NoTable
          <6>1. InTable(clone) = {clone} \cup elems[clone] /\ clone \in Tables /\ clone # match
            BY <1>0, <1>4, <5>2 DEF InTable, Cloning
          <6>2. elems[clone] \subseteq elems[match] \cup New
            BY <1>0, <5>2, <6>1 DEF Cloning, TypeOK, States
          <6>3. clone \notin DoomedIn(doomed)
            BY <1>1, <2>1, <6>1 DEF Sharing
          <6>4. clone \notin InTable(match) /\ clone \notin New
            BY <1>4, <6>1
          <6> QED
            BY <1>1, <1>4, <2>1, <6>1, <6>2, <6>3, <6>4 DEF Sharing
        <5> QED
          BY <5>1, <5>2
      <4> QED
        BY <1>1, <1>2, <1>5, <2>1, <2>2, <3>1, <4>1, <4>2 DEF Sharing
    <3>2. CASE New \cup Del = {}
      <4>1. Kept' = Kept /\ New = {} /\ used' = used
        BY <1>2, <1>3, <2>1, <3>2 DEF Kept, InTable
      <4> QED
        BY <1>1, <1>5, <4>1 DEF Sharing
    <3> QED
      BY <3>1, <3>2
  <2>4. Apart(doomed)'
    BY <1>1, <1>5, <2>2 DEF Sharing
  <2>5. DoomedIn(doomed)' = DoomedIn(doomed')
    BY DEF DoomedIn
  <2> QED
    BY <1>3, <2>3, <2>4, <2>5 DEF Sharing
<1>10. FreedOnce' <=> Sharing'
  BY FreedOnceSharing, PTL
<1>11. Lookups'
  BY <1>0, <1>2, <1>5 DEF Lookups, InTable
<1>12. Activity'
  <2>1. \A e \in elems[match] : "cur" \in active[e] /\ ("next" \in active[e] <=> e \notin Del)
    BY <1>0, <1>2 DEF Activity, Old, Young
  <2>2. \A e \in elems[match] : "cur" \in active'[e] /\ "next" \in active'[e]
    BY <1>2, <1>4, <2>1
  <2> QED
    BY <1>2, <1>3, <2>2 DEF Activity, Old, Young
<1> QED
  BY <1>6, <1>7, <1>8, <1>9, <1>10, <1>11, <1>12 DEF IInv

LEMMA CommitStep == ASSUME IInv, Commit PROVE IInv'
<1>0. TypeOK /\ Phasing /\ Cloning /\ Lookups /\ Activity
  BY DEF IInv
<1>1. Sharing /\ doomed \in Doomings
  BY Records, FreedOnceSharing DEF IInv
<1>2. /\ phase = "flipped" /\ phase' \in {"deleted", "prepare"} /\ trans' = <<>> /\ ~failed
      /\ active' = [e \in Elems |-> IF e \in New THEN Both ELSE active[e]]
      /\ IF New \cup Del # {} THEN Publish ELSE UNCHANGED <<tables, used, doomed>>
      /\ UNCHANGED <<expired, failed, reader>>
  BY <1>0 DEF Commit, New, Del, Phasing
<1>3. New' = {} /\ Del' = {} /\ Distinct(trans')
  BY <1>2, NoRecords
<1>4. /\ New \subseteq InTable(clone) /\ New \subseteq Elems
      /\ match \in Tables /\ elems[match] \subseteq Elems
      /\ InTable(match) = {match} \cup elems[match] /\ NoTable \notin used
      /\ \A t \in Tables : elems[t] \subseteq Elems /\ t \notin Elems
      /\ clone \in Tables \cup {NoTable}
      /\ clone # NoTable => elems[clone] = elems[match] \cup New
  BY <1>2, Intact, Places
<1>5. /\ \A e \in elems[match] : "next" \in active[e] /\ ("cur" \in active[e] <=> e \notin Del)
      /\ \A e \in Elems : active'[e] = IF e \in New THEN {"cur", "next"} ELSE active[e]
      /\ Old' = "cur" /\ Young' = "next"
  BY <1>0, <1>2 DEF Activity, Old, Young, Both
<1>6. active' \in [Elems -> SUBSET {"cur", "next"}]
      /\ trans' \in Seq([op : Ops, e : Elems] \cup NoElems)
  BY <1>0, <1>2 DEF TypeOK, Both
<1>7. CASE New \cup Del = {}
  <2>1. UNCHANGED <<match, clone, elems, state, used, doomed>>
    BY <1>2, <1>7 DEF tables
  <2>2. TypeOK' /\ Phasing'
    BY <1>0, <1>2, <1>4, <1>6, <2>1 DEF TypeOK, Phasing, Phases
  <2>3. Cloning' /\ Lookups'
    BY <1>0, <1>2, <1>3, <1>7, <2>1 DEF Cloning, Lookups, InTable
  <2>4. Sharing'
    <3>1. Kept' = Kept
      BY <1>2, <1>3, <1>7, <2>1 DEF Kept, InTable
    <3>2. DoomedIn(doomed)' = DoomedIn(doomed) /\ Apart(doomed)'
      BY <1>1, <2>1 DEF Sharing
    <3> QED
      BY <1>1, <1>3, <2>1, <3>1, <3>2 DEF Sharing
  <2>5. FreedOnce' <=> Sharing'
    BY FreedOnceSharing, PTL
  <2>6. Activity'
    BY <1>3, <1>4, <1>5, <1>7, <2>1 DEF Activity
  <2> QED
    BY <2>2, <2>3, <2>4, <2>5, <2>6 DEF IInv
<1>8. CASE New \cup Del # {}
  <2>1. Publish /\ clone \in Tables /\ clone # match
    BY <1>0, <1>2, <1>4, <1>8 DEF Publish, Cloning
  <2>2. PICK gc \in SUBSET ((elems[clone] \cap expired) \ Del) :
          /\ elems' = [elems EXCEPT ![clone] = @ \ (Del \cup gc)]
          /\ Collect(match, gc, Del)
    BY <2>1 DEF Publish, Del
  <2> DEFINE objs == {match} \cup gc \cup Del
             live == elems[clone] \ (Del \cup gc)
  <2>3. match' = clone /\ clone' = NoTable /\ UNCHANGED <<state, used>>
    BY <2>1, <2>2 DEF Publish, Collect
  <2>4. /\ elems'[clone] = live /\ \A t \in Tables : t # clone => elems'[t] = elems[t]
        /\ InTable(match)' = {clone} \cup live /\ clone # NoTable
    BY <1>0, <2>1, <2>2, <2>3 DEF TypeOK, InTable
  <2>5. gc \subseteq elems[clone] /\ elems[clone] = elems[match] \cup New
    BY <1>4, <2>4
  <2>6. Del \subseteq {match} \cup elems[clone] /\ Del \subseteq Elems
    BY <1>0, <1>4, <2>5, Places DEF Cloning
  <2>7. Kept = {match, clone} \cup elems[clone]
    BY <1>2, <1>4, <2>4, <2>5 DEF Kept, InTable
  <2>8. objs \cap ({clone} \cup live) = {} /\ Kept = objs \cup {clone} \cup live
    BY <1>4, <2>1, <2>5, <2>6, <2>7
  <2>9. objs \in SUBSET (Elems \cup Tables) /\ Reading \in SUBSET Readers
    BY <1>4, <2>1, <2>5, <2>6 DEF Reading
  <2>10. More(doomed, objs, Reading, doomed')
    BY <2>2 DEF Collect, Doom, More
  <2> HIDE DEF objs, live
  <2>11. /\ doomed' \in Doomings /\ DoomedIn(doomed') = DoomedIn(doomed) \cup objs
         /\ Apart(doomed) /\ objs \cap DoomedIn(doomed) = {} => Apart(doomed')
         /\ \A x, r : WaitsIn(doomed, x, r) => WaitsIn(doomed', x, r)
         /\ \A x \in objs, r \in Reading : WaitsIn(doomed', x, r)
    BY <1>1, <2>9, <2>10, DoomMore
  <2>12. TypeOK'
    <3>1. elems' \in [Tables -> SUBSET Elems]
      BY <1>0, <2>2 DEF TypeOK
    <3> QED
      BY <1>0, <1>2, <1>6, <2>1, <2>3, <2>11, <3>1 DEF TypeOK, Phases, Doomings
  <2>13. Phasing' /\ Cloning'
    BY <1>2, <1>3, <2>3, <2>4 DEF Phasing, Cloning
  <2>14. Sharing'
    <3>1. Kept' = {clone} \cup live
      BY <1>3, <2>3, <2>4 DEF Kept, InTable
    <3>2. DoomedIn(doomed)' = DoomedIn(doomed')
      BY DEF DoomedIn
    <3>3. Apart(doomed)'
      BY <1>1, <2>8, <2>11 DEF Sharing
    <3> QED
      BY <1>1, <1>3, <2>3, <2>8, <2>11, <3>1, <3>2, <3>3 DEF Sharing
  <2>15. FreedOnce' <=> Sharing'
    BY FreedOnceSharing, PTL
  <2>16. Lookups'
    <3> SUFFICES ASSUME NEW r \in Readers, NEW x \in InTable(reader[r])'
                 PROVE  x \in InTable(match)' \/ WaitsIn(doomed', x, r)
      BY DEF Lookups, WaitsIn
    <3>1. reader'[r] = reader[r] /\ reader[r] # NoTable /\ reader[r] # clone
          /\ reader[r] \in Tables
      BY <1>0, <1>2, Places DEF InTable, TypeOK
    <3>2. x \in InTable(reader[r]) /\ r \in Reading
      BY <2>4, <3>1 DEF InTable, Reading
    <3>3. x \in InTable(match) \/ WaitsIn(doomed, x, r)
      BY <1>0, <3>2 DEF Lookups
    <3>4. x \in InTable(match) => x \in objs \/ x \in live
      BY <1>4, <2>5 DEF objs, live
    <3> QED
      BY <2>4, <2>11, <3>2, <3>3, <3>4
  <2>17. Activity'
    <3>1. ASSUME NEW e \in live PROVE "cur" \in active'[e] /\ "next" \in active'[e]
      <4>1. e \in Elems /\ e \notin Del /\ (e \in New \/ e \in elems[match])
        BY <1>4, <2>5, <3>1 DEF live
      <4> QED
        BY <1>5, <4>1
    <3> QED
      BY <1>3, <1>5, <2>3, <2>4, <3>1 DEF Activity
  <2> QED
    BY <2>12, <2>13, <2>14, <2>15, <2>16, <2>17 DEF IInv
<1> QED
  BY <1>7, <1>8

LEMMA DestroyStep == ASSUME IInv, Destroy PROVE IInv'
<1>0. TypeOK /\ Phasing /\ Cloning
  BY DEF IInv
<1>1. Sharing
  BY FreedOnceSharing DEF IInv
<1>2. /\ phase = "deleted" /\ Reading = {} /\ phase' = "none"
      /\ used' = used \ (elems[IF clone # NoTable THEN clone ELSE match] \cup {match, clone})
      /\ match' = NoTable /\ clone' = NoTable
      /\ UNCHANGED <<elems, state, active, expired, trans, failed, doomed, reader>>
  BY DEF Destroy, DestroyTables
<1>3. trans = <<>> /\ trans' = <<>> /\ ~failed
  BY <1>0, <1>2 DEF Phasing
<1>4. New' = {} /\ Del' = {} /\ Distinct(trans') /\ New = {}
  <2>1. New' = New
    BY <1>2 DEF New, Recorded
  <2> QED
    BY <1>3, <2>1, NoRecords
<1>5. /\ InTable(match) = {match} \cup elems[match] /\ NoTable \notin used
      /\ clone # NoTable => elems[clone] = elems[match]
  BY <1>2, <1>3, <1>4, Intact, Places
<1>6. TypeOK'
  BY <1>0, <1>2 DEF TypeOK, Phases
<1>7. Phasing' /\ Cloning'
  BY <1>0, <1>2, <1>3, <1>4 DEF Phasing, Cloning, Reading, InTable
<1>8. Sharing'
  <2>1. Kept' = {}
    BY <1>2 DEF Kept, InTable
  <2>2. Kept \cup {NoTable}
          = elems[IF clone # NoTable THEN clone ELSE match] \cup {match, clone, NoTable}
    BY <1>2, <1>4, <1>5 DEF Kept, InTable
  <2>3. DoomedIn(doomed)' = DoomedIn(doomed) /\ Apart(doomed)'
    BY <1>1, <1>2 DEF Sharing
  <2>4. used' = DoomedIn(doomed)
    BY <1>1, <1>2, <1>5, <2>2 DEF Sharing
  <2> QED
    BY <1>4, <2>1, <2>3, <2>4 DEF Sharing
<1>9. FreedOnce' <=> Sharing'
  BY FreedOnceSharing, PTL
<1>10. Lookups' /\ Activity'
  BY <1>2 DEF Lookups, InTable, Reading, Activity
<1> QED
  BY <1>6, <1>7, <1>8, <1>9, <1>10 DEF IInv

-----------------------------------------------------------------------------
(* Invariants *)

LEMMA InitInv == Init => IInv
<1> SUFFICES ASSUME Init PROVE IInv
  OBVIOUS
<1>1. New = {} /\ Del = {} /\ DOMAIN trans = {} /\ DOMAIN doomed = {}
  BY DEF Init, New, Del, Recorded
<1>2. TypeOK
  <2>1. /\ elems \in [Tables -> SUBSET Elems] /\ state \in [Tables -> States]
        /\ active \in [Elems -> SUBSET {"cur", "next"}]
        /\ reader \in [Readers -> Tables \cup {NoTable}]
    BY DEF Init, States
  <2>2. /\ trans \in Seq([op : Ops, e : Elems] \cup NoElems)
        /\ doomed \in Seq([objs : SUBSET (Elems \cup Tables), waits : SUBSET Readers])
    BY DEF Init
  <2> QED
    BY <2>1, <2>2 DEF Init, TypeOK, Phases
<1>3. Phasing /\ Cloning /\ Lookups /\ Activity
  BY <1>1 DEF Init, Phasing, Cloning, Lookups, Activity, Reading, InTable
<1>4. Sharing
  BY <1>1 DEF Init, Sharing, Apart, Distinct, DoomedIn, Kept, InTable
<1>5. FreedOnce
  BY <1>4, FreedOnceSharing
<1> QED
  BY <1>2, <1>3, <1>5 DEF IInv

LEMMA StutterStep == ASSUME IInv, UNCHANGED vars PROVE IInv'
<1>1. /\ UNCHANGED <<ctl, tables, used, active, expired, doomed, reader>>
      /\ UNCHANGED <<phase, trans, failed, match, clone, elems, state>>
  BY DEF vars, ctl, tables
<1>2. TypeOK' /\ Phasing'
  BY <1>1 DEF IInv, TypeOK, Phasing, Reading
<1> QED
  BY <1>1, <1>2, Unrecorded, QuietStep

LEMMA NextInv == IInv /\ [Next]_vars => IInv'
<1> SUFFICES ASSUME IInv, [Next]_vars PROVE IInv'
  OBVIOUS
<1>1. CASE CreateSet
  BY <1>1, CreateSetStep
<1>2. CASE Flush
  BY <1>2, FlushStep
<1>3. CASE DeleteSet
  BY <1>3, DeleteSetStep
<1>4. CASE CommandFails
  BY <1>4, CommandFailsStep
<1>5. CASE \E e \in Elems : Insert(e) \/ Deactivate(e)
  BY <1>5, InsertStep, DeactivateStep
<1>6. ASSUME NEW e \in Elems,
             InsertExists(KeyOf[e]) \/ InsertFails(KeyOf[e]) \/ DeactivateMissing(KeyOf[e])
      PROVE  IInv'
  BY <1>6, ExistsStep, InsertFailsStep
<1>7. CASE Flip
  BY <1>7, FlipStep
<1>8. CASE Commit
  BY <1>8, CommitStep
<1>9. CASE Abort
  BY <1>9, AbortStep
<1>10. CASE Destroy
  BY <1>10, DestroyStep
<1>11. CASE \E e \in Elems : Expire(e)
  BY <1>11, ExpireStep
<1>12. CASE \E r \in Readers : ReadBegin(r) \/ ReadEnd(r)
  BY <1>12, ReadBeginStep, ReadEndStep
<1>13. CASE \E i \in DOMAIN doomed : Free(i)
  BY <1>13, FreeStep
<1>14. CASE UNCHANGED vars
  BY <1>14, StutterStep
<1> QED
  BY <1>1, <1>2, <1>3, <1>4, <1>5, <1>6, <1>7, <1>8, <1>9, <1>10, <1>11, <1>12, <1>13, <1>14
     DEF Next, Command

(* Whatever a batch and the packets do, the objects are where the commands, *)
(* commit, abort and the garbage collection expect them.                    *)
THEOREM Invariant == Spec => []IInv
  BY InitInv, NextInv, PTL DEF Spec

(* Every variable of the set keeps to its values. *)
THEOREM TypeCorrect == Spec => []TypeOK
<1>1. IInv => TypeOK
  BY DEF IInv
<1> QED
  BY <1>1, Invariant, PTL

(* nft_pipapo_commit, nft_pipapo_abort, the garbage collection and          *)
(* nft_pipapo_destroy divide the objects between them: nothing is freed     *)
(* twice or while the set can still find it, and nothing is lost.           *)
THEOREM NothingFreedTwice == Spec => []FreedOnce
<1>1. IInv => FreedOnce
  BY DEF IInv
<1> QED
  BY <1>1, Invariant, PTL

(* No packet's lookup meets a freed match or a freed element, and neither   *)
(* does a command.                                                          *)
THEOREM LookupsAreSafe == Spec => []NothingFreedInUse
<1>1. IInv => NothingFreedInUse
  <2> SUFFICES ASSUME IInv PROVE NothingFreedInUse
    OBVIOUS
  <2>1. Lookups
    BY DEF IInv
  <2>2. /\ InTable(match) \subseteq used /\ InTable(clone) \subseteq used
        /\ DoomedIn(doomed) \subseteq used
    BY Places
  <2>3. \A x, r : WaitsIn(doomed, x, r) => x \in DoomedIn(doomed)
    BY DEF WaitsIn, DoomedIn
  <2> QED
    BY <2>1, <2>2, <2>3 DEF NothingFreedInUse, Lookups
<1> QED
  BY <1>1, Invariant, PTL

(* A clone that is kept for the next batch has nothing of an earlier one in *)
(* it: pipapo_maybe_clone may reuse it.                                     *)
THEOREM ClonesArePristine == Spec => []CloneIsPristine
<1>1. IInv => CloneIsPristine
  <2> SUFFICES ASSUME IInv, trans = <<>>, clone # NoTable
               PROVE  state[clone] = "NEW" /\ elems[clone] = elems[match]
    BY DEF CloneIsPristine
  <2>1. New = {}
    BY DEF New, Recorded
  <2>2. state[clone] \in States
    BY DEF IInv, TypeOK
  <2> QED
    BY <2>1, <2>2 DEF IInv, Cloning, States
<1> QED
  BY <1>1, Invariant, PTL

-----------------------------------------------------------------------------
(* Batches are all or nothing *)

ASet  == IF phase \in {"none", "deleted"} THEN {} ELSE Alive(match, "cur")
ANext == IF phase \in {"none", "deleted"} THEN {}
         ELSE Alive(Working, IF phase = "flipped" THEN "cur" ELSE "next")

(* The sets of TxSet in terms of tables and records. *)
Mapped ==
  /\ phase \in {"none", "deleted"} => ASet = {} /\ ANext = {}
  /\ phase = "prepare" => ASet = elems[match] \ expired
  /\ phase = "flipped" => ASet = (elems[match] \ expired) \ Del
  /\ phase \in {"prepare", "flipped"} =>
       /\ ANext = (elems[Working] \ expired) \ Del
       /\ New = {} \/ ~failed => elems[Working] = elems[match] \cup New

LEMMA Abstraction == IInv => Mapped
<1> SUFFICES ASSUME IInv PROVE Mapped
  OBVIOUS
<1>1. TypeOK /\ Phasing /\ Cloning /\ Activity
  BY DEF IInv
<1>2. CASE phase \in {"none", "deleted"}
  BY <1>2 DEF Mapped, ASet, ANext
<1>3. CASE phase \in {"prepare", "flipped"}
  <2>1. match \in Tables /\ match # NoTable /\ Working \in Tables /\ Working # NoTable
    BY <1>1, <1>3 DEF TypeOK, Phasing, Working
  <2>2. elems[Working] \subseteq elems[match] \cup New
    BY <1>1, <2>1 DEF Working, Cloning, TypeOK, States
  <2>3. New = {} \/ ~failed => elems[Working] = elems[match] \cup New
    BY <1>1, <2>1 DEF Working, Cloning, TypeOK, States
  <2>4. \A e \in elems[match] \cup New : Young \in active[e] <=> e \notin Del
    BY <1>1, <1>3 DEF Activity
  <2>5. \A e \in elems[match] : Old \in active[e]
    BY <1>1, <1>3 DEF Activity
  <2>6. ANext = (elems[Working] \ expired) \ Del
    BY <1>3, <2>1, <2>2, <2>4 DEF ANext, Alive, Young
  <2>7. phase = "prepare" => ASet = elems[match] \ expired
    BY <2>1, <2>5 DEF ASet, Alive, Old
  <2>8. phase = "flipped" => ASet = (elems[match] \ expired) \ Del
    BY <2>1, <2>4 DEF ASet, Alive, Young
  <2> QED
    BY <1>3, <2>3, <2>6, <2>7, <2>8 DEF Mapped
<1> QED
  BY <1>1, <1>2, <1>3 DEF TypeOK, Phases

LEMMA Worked ==
  ASSUME IInv, phase = "prepare", NEW c \in MaybeClone
  PROVE  Content(c) = elems[Working]
BY CloneFacts DEF Content, Working

LEMMA DeleteMaps ==
  ASSUME IInv, IInv', phase = "prepare", UNCHANGED <<phase, match, expired>>,
         elems'[match] = elems[match], (elems[Working])' \subseteq elems[Working],
         Del \subseteq Del', failed' \in {failed, TRUE}
  PROVE  Set!Delete
<1>1. Mapped /\ Mapped'
  BY Abstraction, PTL
<1>2. ASet' = ASet /\ ANext' \subseteq ANext
  BY <1>1 DEF Mapped
<1> QED
  BY <1>2 DEF Set!Delete, ASet, ANext

LEMMA KeepMaps ==
  ASSUME IInv, IInv', phase = "prepare", NEW c \in MaybeClone,
         NEW es \in SUBSET Content(c), NEW st, SetClone(c, es, st),
         UNCHANGED <<phase, match, expired>>, Del \subseteq Del', failed' \in {failed, TRUE}
  PROVE  Set!Delete
<1>1. c \in Tables /\ c # match /\ c # NoTable /\ match \in Tables
  BY CloneFacts
<1>2. clone' = c /\ elems' = [elems EXCEPT ![c] = es]
  BY DEF SetClone
<1>3. elems \in [Tables -> SUBSET Elems]
  BY DEF IInv, TypeOK
<1>4. elems'[c] = es /\ elems'[match] = elems[match]
  BY <1>1, <1>2, <1>3
<1>5. (elems[Working])' = es
  BY <1>1, <1>2, <1>4 DEF Working
<1>6. es \subseteq elems[Working]
  BY Worked
<1> QED
  BY <1>4, <1>5, <1>6, DeleteMaps

LEMMA InsertMaps ==
  ASSUME IInv, IInv', NEW e \in Elems, Insert(e) PROVE Set!Add(e)
<1>1. PICK c \in MaybeClone :
        /\ Get(c, KeyOf[e]) = {} /\ SetClone(c, Content(c) \cup {e}, "MOD")
  BY DEF Insert
<1>2. /\ phase = "prepare" /\ e \notin used /\ expired' = expired \ {e}
      /\ trans' = Append(trans, [op |-> "newelem", e |-> e])
      /\ UNCHANGED <<phase, match, failed>>
  BY DEF Insert, Updating
<1>3. c \in Tables /\ c # match /\ c # NoTable /\ match \in Tables
      /\ Content(c) \subseteq elems[match] \cup New
  BY <1>2, CloneFacts
<1>4. Content(c) = elems[Working]
  BY <1>2, Worked
<1>5. clone' = c /\ elems'[c] = Content(c) \cup {e} /\ elems'[match] = elems[match]
  BY <1>1, <1>3 DEF SetClone, IInv, TypeOK
<1>6. (elems[Working])' = Content(c) \cup {e}
  BY <1>3, <1>5 DEF Working
<1>7. Del' = Del
  BY <1>2, ElemRecorded DEF Ops
<1>8. e \notin elems[match] /\ e \notin New /\ e \notin Del
  BY <1>2, Places DEF IInv, Cloning
<1>9. Mapped /\ Mapped'
  BY Abstraction, PTL
<1>10. ANext' = ANext \cup {e} /\ ASet' = ASet /\ e \notin ANext
  <2>1. ANext = (Content(c) \ expired) \ Del /\ ASet = elems[match] \ expired
    BY <1>2, <1>4, <1>9 DEF Mapped
  <2>2. ANext' = ((elems[Working])' \ expired') \ Del' /\ ASet' = elems'[match'] \ expired'
    BY <1>2, <1>9 DEF Mapped
  <2>3. ANext' = ((Content(c) \cup {e}) \ (expired \ {e})) \ Del
    BY <1>2, <1>6, <1>7, <2>2
  <2>4. ASet' = elems[match] \ (expired \ {e})
    BY <1>2, <1>5, <2>2
  <2> QED
    BY <1>3, <1>8, <2>1, <2>3, <2>4
<1>11. \A d \in ANext : KeyOf[d] # KeyOf[e]
  <2>1. ANext = {d \in Content(c) \ expired : "next" \in active[d]}
    BY <1>2, <1>3, <1>4 DEF ANext, Alive, IInv, TypeOK, Working
  <2> QED
    BY <1>1, <2>1 DEF Get
<1> QED
  BY <1>2, <1>10, <1>11 DEF Set!Add, ASet, ANext

LEMMA InsertFailsMaps ==
  ASSUME IInv, IInv', NEW k, InsertFails(k) PROVE Set!Delete
<1>1. PICK c \in MaybeClone : StateOf(c) # "ERR" /\ Breaks(c)
  BY DEF InsertFails
<1>2. /\ phase = "prepare" /\ failed' = TRUE /\ UNCHANGED <<phase, match, expired, trans>>
  BY DEF InsertFails, Updating
<1>3. Del' = Del
  BY <1>2, Unrecorded
<1>4. CASE StateOf(c) = "NEW"
  <2>1. clone' = NoTable /\ elems' = elems
    BY <1>1, <1>4 DEF Breaks
  <2>2. New = {} /\ match # NoTable
    BY <1>2, <1>4, CloneFacts
  <2>3. elems[Working] = elems[match]
    BY <1>2, <2>2, Abstraction DEF Mapped
  <2>4. (elems[Working])' = elems[match]
    BY <1>2, <2>1 DEF Working
  <2> QED
    BY <1>2, <1>3, <2>1, <2>3, <2>4, DeleteMaps
<1>5. CASE StateOf(c) # "NEW"
  <2>1. PICK es \in SUBSET Content(c) : SetClone(c, es, "ERR")
    BY <1>1, <1>5 DEF Breaks
  <2> QED
    BY <1>2, <1>3, <2>1, KeepMaps
<1> QED
  BY <1>4, <1>5

LEMMA CommandMaps == ASSUME IInv, IInv', Command PROVE [Set!Next]_(Set!vars)
<1>1. ASSUME NEW e \in Elems, Insert(e) PROVE Set!Next
  BY <1>1, InsertMaps DEF Set!Next
<1>2. ASSUME NEW e \in Elems, Deactivate(e) PROVE Set!Delete
  <2>1. PICK c \in MaybeClone : SetClone(c, Content(c), StateOf(c))
    BY <1>2 DEF Deactivate, Keep
  <2>2. phase = "prepare" /\ UNCHANGED <<phase, match, expired, failed>>
        /\ trans' = Append(trans, [op |-> "delelem", e |-> e])
    BY <1>2 DEF Deactivate, Updating
  <2>3. Del \subseteq Del'
    BY <2>2, ElemRecorded DEF Ops
  <2> QED
    BY <2>1, <2>2, <2>3, KeepMaps
<1>3. ASSUME NEW k, InsertExists(k) \/ DeactivateMissing(k) PROVE Set!Delete
  <2>1. PICK c \in MaybeClone : SetClone(c, Content(c), StateOf(c))
    BY <1>3 DEF InsertExists, DeactivateMissing, Keep
  <2>2. phase = "prepare" /\ failed' \in {failed, TRUE}
        /\ UNCHANGED <<phase, match, expired, trans>>
    BY <1>3 DEF InsertExists, DeactivateMissing, Updating
  <2>3. Del' = Del
    BY <2>2, Unrecorded
  <2> QED
    BY <2>1, <2>2, <2>3, KeepMaps
<1>4. CASE Flush
  <2>1. PICK c \in MaybeClone :
          /\ SetClone(c, Content(c), StateOf(c))
          /\ \E es \in SUBSET Flushable(c) :
               /\ trans' = trans \o SetToSeq([op : {"delelem"}, e : es])
               /\ failed' = (failed \/ es # Flushable(c))
    BY <1>4 DEF Flush, Keep
  <2>2. phase = "prepare" /\ UNCHANGED <<phase, match, expired>>
    BY <1>4 DEF Flush, Updating
  <2>3. PICK es \in SUBSET Flushable(c) :
          /\ trans' = trans \o SetToSeq([op : {"delelem"}, e : es])
          /\ failed' = (failed \/ es # Flushable(c))
    BY <2>1
  <2>4. Del \subseteq Del'
    <3> DEFINE u == SetToSeq([op : {"delelem"}, e : es])
    <3>1. es \in SUBSET Elems
      BY <2>2, CloneFacts, Places DEF Flushable
    <3>2. u \in Seq(Record)
      BY <3>1, FlushedRecords, SetToSeqSet
    <3> HIDE DEF u
    <3>3. /\ trans \in Seq(Record) /\ trans' = trans \o u
          /\ Del = {e \in Elems : [op |-> "delelem", e |-> e] \in ToSet(trans)}
      BY <2>3, Records DEF IInv, u
    <3>4. trans' \in Seq(Record) /\ ToSet(trans) \subseteq ToSet(trans')
      BY <3>2, <3>3, ConcatSet
    <3> QED
      BY <3>3, <3>4, NewRecords
  <2>5. failed' \in {failed, TRUE}
    BY <2>3 DEF IInv, TypeOK
  <2>6. SetClone(c, Content(c), StateOf(c)) /\ Content(c) \in SUBSET Content(c)
    BY <2>1
  <2>7. Set!Delete
    BY <2>2, <2>4, <2>5, <2>6, KeepMaps
  <2> QED
    BY <2>7 DEF Set!Next
<1>5. CASE DeleteSet \/ CommandFails
  <2>1. /\ phase = "prepare" /\ UNCHANGED <<phase, match, clone, elems, expired>>
        /\ failed' \in {failed, TRUE}
    BY <1>5 DEF DeleteSet, CommandFails, Updating, tables
  <2>2. Del \subseteq Del'
    <3>1. CASE DeleteSet
      <4> DEFINE x == [op |-> "delset"]
      <4>1. x \in Record /\ trans' = Append(trans, x)
        BY <3>1 DEF DeleteSet, Record, NoElems
      <4> HIDE DEF x
      <4>2. /\ trans \in Seq(Record)
            /\ Del = {e \in Elems : [op |-> "delelem", e |-> e] \in ToSet(trans)}
        BY Records DEF IInv
      <4>3. trans' \in Seq(Record) /\ ToSet(trans) \subseteq ToSet(trans')
        BY <4>1, <4>2, AppendSet
      <4> QED
        BY <4>2, <4>3, NewRecords
    <3>2. CASE CommandFails
      BY <3>2, Unrecorded DEF CommandFails
    <3> QED
      BY <1>5, <3>1, <3>2
  <2>3. (elems[Working])' = elems[Working]
    BY <2>1 DEF Working
  <2>4. elems'[match] = elems[match] /\ UNCHANGED <<phase, match, expired>>
    BY <2>1
  <2>5. (elems[Working])' \subseteq elems[Working]
    BY <2>3
  <2>6. phase = "prepare" /\ failed' \in {failed, TRUE}
    BY <2>1
  <2>7. Set!Delete
    BY <2>2, <2>4, <2>5, <2>6, DeleteMaps
  <2> QED
    BY <2>7 DEF Set!Next
<1>6. CASE CreateSet
  <2>1. PICK t \in Tables \ used : match' = t /\ elems' = [elems EXCEPT ![t] = {}]
    BY <1>6 DEF CreateSet
  <2>2. phase = "none" /\ phase' = "prepare" /\ clone' = NoTable /\ failed' = failed
    BY <1>6 DEF CreateSet, IInv, Phasing
  <2>3. elems'[match'] = {} /\ (elems[Working])' = {}
    BY <2>1, <2>2 DEF Working, IInv, TypeOK
  <2>4. Mapped /\ Mapped'
    BY Abstraction, PTL
  <2>5. ASet = {} /\ ANext = {} /\ ASet' = {} /\ ANext' = {}
    BY <2>2, <2>3, <2>4 DEF Mapped
  <2> QED
    BY <2>2, <2>5 DEF Set!vars, ASet, ANext
<1>7. ASSUME NEW e \in Elems, InsertFails(KeyOf[e]) PROVE Set!Delete
  BY <1>7, InsertFailsMaps
<1> QED
  BY <1>1, <1>2, <1>3, <1>4, <1>5, <1>6, <1>7 DEF Command, Set!Next

LEMMA FlipMaps == ASSUME IInv, IInv', Flip PROVE Set!Commit
<1>1. /\ phase = "prepare" /\ phase' = "flipped" /\ ~failed
      /\ UNCHANGED <<match, clone, elems, expired, trans, failed>>
  BY DEF Flip, tables
<1>2. Del' = Del /\ (elems[Working])' = elems[Working]
  BY <1>1, Unrecorded DEF Working
<1>3. Mapped /\ Mapped'
  BY Abstraction, PTL
<1>4. ASet' = ASet \cap ANext /\ ANext' = ANext
  BY <1>1, <1>2, <1>3 DEF Mapped
<1> QED
  BY <1>1, <1>4 DEF Set!Commit, ASet, ANext

LEMMA CommitMaps == ASSUME IInv, IInv', Commit PROVE Set!Committed \/ Set!Destroy
<1>1. /\ phase = "flipped" /\ trans' = <<>> /\ ~failed /\ phase' \in {"prepare", "deleted"}
      /\ IF New \cup Del # {} THEN Publish ELSE UNCHANGED <<tables, used, doomed>>
      /\ UNCHANGED <<expired, failed>>
  BY DEF Commit, New, Del, IInv, Phasing
<1>2. Mapped /\ Mapped'
  BY Abstraction, PTL
<1>3. Del' = {}
  BY <1>1, NoRecords
<1>4. CASE phase' = "deleted"
  BY <1>1, <1>2, <1>4 DEF Mapped, Set!Destroy, ASet, ANext
<1>5. CASE phase' = "prepare"
  <2>1. ANext = (elems[Working] \ expired) \ Del
    BY <1>1, <1>2 DEF Mapped
  <2>2. ASet' = elems'[match'] \ expired /\ ANext' = (elems[Working])' \ expired
    BY <1>1, <1>2, <1>3, <1>5 DEF Mapped
  <2>3. elems'[match'] \ expired = ANext /\ (elems[Working])' = elems'[match']
    <3>1. CASE New \cup Del # {}
      <4>1. PICK gc \in SUBSET ((elems[clone] \cap expired) \ Del) :
              elems' = [elems EXCEPT ![clone] = @ \ (Del \cup gc)]
        BY <1>1, <3>1 DEF Publish, Del
      <4>2. clone # NoTable /\ clone \in Tables /\ match' = clone /\ clone' = NoTable
        BY <1>1, <3>1 DEF Publish, IInv, TypeOK
      <4>3. elems'[match'] = elems[clone] \ (Del \cup gc)
        BY <4>1, <4>2 DEF IInv, TypeOK
      <4> QED
        BY <2>1, <4>2, <4>3 DEF Working
    <3>2. CASE New \cup Del = {}
      <4>1. UNCHANGED <<match, clone, elems>> /\ New = {} /\ Del = {}
        BY <1>1, <3>2 DEF tables
      <4>2. elems[Working] = elems[match]
        BY <1>1, <1>2, <4>1 DEF Mapped
      <4> QED
        BY <2>1, <4>1, <4>2 DEF Working
    <3> QED
      BY <3>1, <3>2
  <2> QED
    BY <1>1, <1>5, <2>2, <2>3 DEF Set!Committed, ASet, ANext
<1> QED
  BY <1>1, <1>4, <1>5

LEMMA AbortMaps == ASSUME IInv, IInv', Abort PROVE Set!Abort
<1>1. /\ phase = "prepare" /\ trans' = <<>> /\ failed' = FALSE
      /\ IF New \cup Del # {} THEN clone' = NoTable ELSE clone' = clone
      /\ UNCHANGED <<phase, match, elems, expired>>
  BY DEF Abort, AbortClone, New, Del
<1>2. Mapped /\ Mapped'
  BY Abstraction, PTL
<1>3. Del' = {}
  BY <1>1, NoRecords
<1>4. (elems[Working])' = elems[match]
  <2>1. CASE New \cup Del # {}
    BY <1>1, <2>1 DEF Working
  <2>2. CASE New \cup Del = {}
    <3>1. elems[Working] = elems[match]
      BY <1>1, <1>2, <2>2 DEF Mapped
    <3> QED
      BY <1>1, <2>2, <3>1 DEF Working
  <2> QED
    BY <2>1, <2>2
<1>5. ASet' = ASet /\ ANext' = ASet
  BY <1>1, <1>2, <1>3, <1>4 DEF Mapped
<1> QED
  BY <1>1, <1>5 DEF Set!Abort, ASet, ANext

LEMMA ExpireMaps == ASSUME IInv, IInv', NEW e \in Elems, Expire(e) PROVE Set!Expire(e)
<1>1. /\ phase = "prepare" /\ trans = <<>> /\ ~failed /\ expired' = expired \cup {e}
      /\ UNCHANGED <<phase, trans, failed, match, clone, elems>>
  BY DEF Expire, ctl, tables
<1>2. Mapped /\ Mapped'
  BY Abstraction, PTL
<1>3. New = {} /\ Del = {} /\ Del' = {}
  BY <1>1 DEF New, Del, Recorded
<1>4. elems[Working] = elems[match] /\ (elems[Working])' = elems[match]
  BY <1>1, <1>2, <1>3 DEF Mapped, Working
<1>5. ASet = elems[match] \ expired /\ ANext = ASet
  BY <1>1, <1>2, <1>3, <1>4 DEF Mapped
<1>6. ASet' = elems[match] \ expired' /\ ANext' = ASet'
  BY <1>1, <1>2, <1>3, <1>4 DEF Mapped
<1> QED
  BY <1>1, <1>5, <1>6 DEF Set!Expire, ASet, ANext

LEMMA StutterMaps ==
  ASSUME UNCHANGED <<ctl, tables, active, expired>> PROVE UNCHANGED Set!vars
<1>1. UNCHANGED <<phase, failed, match, clone, elems, active, expired>>
  BY DEF ctl, tables
<1>2. ASet' = ASet /\ ANext' = ANext
  BY <1>1 DEF ASet, ANext, Alive, Working
<1> QED
  BY <1>1, <1>2 DEF Set!vars, ASet, ANext

LEMMA DestroyMaps == ASSUME IInv, IInv', Destroy PROVE UNCHANGED Set!vars
<1>1. phase = "deleted" /\ phase' = "none" /\ failed' = failed
  BY DEF Destroy
<1>2. ASet' = ASet /\ ANext' = ANext
  BY <1>1 DEF ASet, ANext
<1> QED
  BY <1>1, <1>2 DEF Set!vars, ASet, ANext

LEMMA StepMaps == IInv /\ IInv' /\ [Next]_vars => [Set!Next]_(Set!vars)
<1> SUFFICES ASSUME IInv, IInv', [Next]_vars PROVE [Set!Next]_(Set!vars)
  OBVIOUS
<1>1. CASE Command
  BY <1>1, CommandMaps
<1>2. CASE Flip
  BY <1>2, FlipMaps DEF Set!Next
<1>3. CASE Commit
  BY <1>3, CommitMaps DEF Set!Next
<1>4. CASE Abort
  BY <1>4, AbortMaps DEF Set!Next
<1>5. CASE Destroy
  BY <1>5, DestroyMaps
<1>6. ASSUME NEW e \in Elems, Expire(e) PROVE Set!Next
  BY <1>6, ExpireMaps DEF Set!Next
<1>7. CASE \E r \in Readers : ReadBegin(r) \/ ReadEnd(r)
  BY <1>7, StutterMaps DEF ReadBegin, ReadEnd
<1>8. CASE \E i \in DOMAIN doomed : Free(i)
  BY <1>8, StutterMaps DEF Free
<1>9. CASE UNCHANGED vars
  BY <1>9, StutterMaps DEF vars
<1> QED
  BY <1>1, <1>2, <1>3, <1>4, <1>5, <1>6, <1>7, <1>8, <1>9 DEF Next

(* Every batch is all or nothing: clones, generations, records and grace    *)
(* periods implement the plain set of TxSet, whatever fails and whenever    *)
(* packets look.                                                            *)
THEOREM RefinesTxSet == Spec => ImplementsTxSet
<1>1. Init => Set!Init
  BY DEF Init, Set!Init
<1> QED
  BY <1>1, StepMaps, Invariant, PTL DEF Spec, ImplementsTxSet, Set!Spec

=============================================================================
