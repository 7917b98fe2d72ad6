-------------------------- MODULE SockmapSeqProofs --------------------------
(***************************************************************************)
(* Theorems about SockmapSeq, for any verdicts, sizes and bounds, as long  *)
(* as none of the cases that the series leaves open happens (Gaps = {}).   *)
(***************************************************************************)
EXTENDS SockmapSeq, FiniteSetTheorems, SequenceTheorems, WellFoundedInduction, TLAPS

(* What m counts for lies between a and b: what is unread of it, and then  *)
(* what has been skipped behind it.                                        *)
MsgFits(m, a, b) ==
  /\ m.len > 0
  /\ IF m.self THEN m.end = a + m.len /\ b = m.end + m.skip ELSE a = b

(* What is unread of skb lies between a and b, if copied_seq is c. *)
SkbFits(skb, c, a, b) ==
  /\ skb.seq < skb.end /\ skb.end <= skb.seq + MaxBytes
  /\ IF Ours(skb) THEN a = (IF c > skb.seq THEN c ELSE skb.seq) /\ b = skb.end /\ c < skb.end
     ELSE a = b

(* n + 1 places, none before the last. *)
Places(n) == {at \in [1..n + 1 -> Nat] : \A i, j \in 1..n + 1 : i <= j => at[i] <= at[j]}

(* The messages, and the skbs, of q lie one behind the other.              *)
MsgsLie(q, from, to) ==
  \E at \in Places(Len(q)) :
    /\ at[1] = from /\ at[Len(q) + 1] = to
    /\ \A i \in 1..Len(q) : MsgFits(q[i], at[i], at[i + 1])

SkbsLie(q, c, from, to) ==
  \E at \in Places(Len(q)) :
    /\ at[1] = from /\ at[Len(q) + 1] = to
    /\ \A i \in 1..Len(q) : SkbFits(q[i], c, at[i], at[i + 1])

(* What has been counted, the reader in progress included. *)
Counted == IF reader = None THEN copied ELSE reader

(* Unread sequence space: ingress_msg up to m, ingress_skb up to s, and    *)
(* then the receive queue.                                                 *)
Lies(m, s) ==
  /\ MsgsLie(msgs, Counted, m)
  /\ SkbsLie(skbs, copied, m, s)
  /\ SkbsLie(queue, copied, s, rcvNxt)

Tiled ==
  /\ \E m, s \in Nat : Lies(m, s)
  /\ copied <= Counted /\ delivered <= Counted
  /\ \A i \in 1..Len(queue) : Ours(queue[i])

(* ingress_seq_msg is the last message of this socket's own. *)
LastSelf(q, last) ==
  IF last = None THEN \A i \in 1..Len(q) : ~q[i].self
  ELSE \E i \in 1..Len(q) :
         q[i].self /\ q[i].end = last /\ \A j \in i + 1..Len(q) : ~q[j].self

(* IngressRange, if copied_seq is c. *)
LengthAt(c, skb) ==
  IF Ours(skb)
  THEN IF c >= skb.end THEN 0 ELSE skb.end - (IF c > skb.seq THEN c ELSE skb.seq)
  ELSE skb.end - skb.seq
RangeAt(c, skb) == [off |-> skb.end - skb.seq - LengthAt(c, skb), len |-> LengthAt(c, skb)]

(* What the worker has computed is still right for the head of ingress_skb. *)
Computed(range) ==
  range # None => psock /\ skbs # <<>> /\ range = RangeAt(copied, Head(skbs))

(* Without a psock there is nothing of one. *)
Detached ==
  ~psock => msgs = <<>> /\ skbs = <<>> /\ seqMsg = None /\ work = None /\ resume = None
            /\ reader = None

(* What waits in ingress_skb is not the socket's own unless it has been    *)
(* passed.                                                                 *)
Marked == \A i \in 1..Len(skbs) : skbs[i].kind # "own"

(* The worker and readers hold references, and a reader that has read      *)
(* nothing agrees with copied_seq.                                         *)
Referenced ==
  /\ alive => psock
  /\ work # None => alive /\ tx
  /\ reader # None => alive
  /\ waiting => reader = copied

(* The inductive invariant. *)
IInv ==
  /\ TypeOK /\ Tiled /\ LastSelf(msgs, seqMsg) /\ Computed(work) /\ Computed(resume)
  /\ Detached /\ Marked /\ Referenced

-----------------------------------------------------------------------------
(* Induction and sums *)

(* A set of naturals that is not empty has a least element. *)
LEMMA LeastNatural ==
  ASSUME NEW T \in SUBSET Nat, T # {}
  PROVE  \E x \in T : \A y \in T : x <= y
<1> DEFINE R == {ss \in Nat \X Nat : ss[1] < ss[2]}
<1>1. R = OpToRel(<, Nat)
  BY DEF OpToRel
<1>2. IsWellFoundedOn(R, Nat)
  BY <1>1, NatLessThanWellFounded
<1>3. \A x, y \in Nat : y < x => <<y, x>> \in R
  OBVIOUS
<1> HIDE DEF R
<1>4. PICK x \in T : \A y \in T : ~(<<y, x>> \in R)
  BY <1>2, WFMin
<1>5. ASSUME NEW y \in T PROVE x <= y
  <2>1. x \in Nat /\ y \in Nat
    OBVIOUS
  <2>2. ~(y < x)
    BY <2>1, <1>3, <1>4
  <2> QED
    BY <2>1, <2>2
<1> QED
  BY <1>5

(* Induction over the naturals, for a set. *)
LEMMA Induction ==
  ASSUME NEW T, 0 \in T, \A n \in Nat : n \in T => n + 1 \in T
  PROVE  Nat \subseteq T
<1> SUFFICES ASSUME ~(Nat \subseteq T) PROVE FALSE
  OBVIOUS
<1>1. PICK x \in Nat \ T : \A y \in Nat \ T : x <= y
  BY LeastNatural
<1>2. x # 0 /\ x - 1 \in Nat
  BY <1>1
<1>3. x - 1 \in T
  BY <1>1, <1>2
<1> QED
  BY <1>1, <1>2, <1>3

(* What SumFunctionOnSet is computed by. *)
Sums(f, S) ==
  CHOOSE g : g = [s \in SUBSET S |-> IF s = {} THEN 0
                    ELSE f[CHOOSE x \in s : TRUE] + g[s \ {CHOOSE x \in s : TRUE}]]
LEMMA SumsDef == ASSUME NEW f, NEW S PROVE SumFunctionOnSet(f, S) = Sums(f, S)[S]
  BY DEF SumFunctionOnSet, FoldFunctionOnSet, MapThenFoldSet, Sums

(* As many pairs as f counts for the elements of s. *)
Units(f, s) == {u \in s \X (Nat \ {0}) : u[2] <= f[u[1]]}

(* A function from a finite set to the naturals is bounded. *)
LEMMA Bounded ==
  ASSUME NEW S, IsFiniteSet(S), NEW f, \A x \in S : f[x] \in Nat
  PROVE  \E b \in Nat : \A x \in S : f[x] <= b
<1> DEFINE T == {k \in Nat : \A s \in SUBSET S : Cardinality(s) = k =>
                   \E b \in Nat : \A x \in s : f[x] <= b}
<1>1. 0 \in T
  <2> SUFFICES ASSUME NEW s \in SUBSET S, Cardinality(s) = 0
               PROVE  \E b \in Nat : \A x \in s : f[x] <= b
    OBVIOUS
  <2>1. s = {}
    BY FS_Subset, FS_EmptySet
  <2> QED
    BY <2>1
<1>2. ASSUME NEW k \in Nat, k \in T PROVE k + 1 \in T
  <2> SUFFICES ASSUME NEW s \in SUBSET S, Cardinality(s) = k + 1
               PROVE  \E b \in Nat : \A x \in s : f[x] <= b
    OBVIOUS
  <2>0. IsFiniteSet(s)
    BY FS_Subset
  <2>1. PICK x \in s : TRUE
    BY <2>0, FS_EmptySet
  <2>2. Cardinality(s \ {x}) = k
    <3>1. Cardinality(s \ {x}) = Cardinality(s) - 1
      BY <2>0, <2>1, FS_RemoveElement
    <3> QED
      BY <3>1
  <2>3. PICK b \in Nat : \A y \in s \ {x} : f[y] <= b
    BY <1>2, <2>2
  <2>4. f[x] \in Nat
    BY <2>1
  <2>5. PICK c \in Nat : b <= c /\ f[x] <= c
    <3>1. b <= b + f[x] /\ f[x] <= b + f[x] /\ b + f[x] \in Nat
      BY <2>4
    <3> QED
      BY <3>1
  <2>6. \A y \in s : f[y] \in Nat
    OBVIOUS
  <2>7. \A y \in s : f[y] <= c
    BY <2>3, <2>5, <2>6
  <2> QED
    BY <2>7
<1> HIDE DEF T
<1>3. Nat \subseteq T
  BY <1>1, <1>2, Induction
<1>4. Cardinality(S) \in T
  BY <1>3, FS_CardinalityType
<1> QED
  BY <1>4 DEF T

LEMMA UnitsFinite ==
  ASSUME NEW S, IsFiniteSet(S), NEW f, \A x \in S : f[x] \in Nat
  PROVE  IsFiniteSet(Units(f, S))
<1>1. PICK b \in Nat : \A x \in S : f[x] <= b
  BY Bounded
<1>2. IsFiniteSet(S \X (1..b))
  <2>1. IsFiniteSet(1..b)
    BY FS_Interval
  <2> QED
    BY <2>1, FS_Product
<1>3. Units(f, S) \subseteq S \X (1..b)
  <2> SUFFICES ASSUME NEW u \in Units(f, S) PROVE u \in S \X (1..b)
    OBVIOUS
  <2>1. PICK x \in S, k \in Nat \ {0} : u = <<x, k>> /\ k <= f[x]
    BY DEF Units
  <2>2. k <= b
    BY <1>1, <2>1
  <2> QED
    BY <2>1, <2>2
<1> QED
  BY <1>2, <1>3, FS_Subset

LEMMA UnitsStep ==
  ASSUME NEW S, IsFiniteSet(S), NEW f, \A x \in S : f[x] \in Nat, NEW x \in S
  PROVE  Cardinality(Units(f, S)) = f[x] + Cardinality(Units(f, S \ {x}))
<1> DEFINE A == Units(f, S \ {x})
           B == {x} \X (1..f[x])
<1>1. IsFiniteSet(A)
  BY UnitsFinite, FS_RemoveElement
<1>2. IsFiniteSet(B) /\ Cardinality(B) = f[x]
  <2>1. IsFiniteSet({x}) /\ Cardinality({x}) = 1
    BY FS_Singleton
  <2>2. IsFiniteSet(1..f[x]) /\ Cardinality(1..f[x]) = f[x]
    BY FS_Interval
  <2>3. IsFiniteSet(B) /\ Cardinality(B) = 1 * f[x]
    BY <2>1, <2>2, FS_Product
  <2> QED
    BY <2>3
<1>3. Units(f, S) = A \cup B
  BY DEF Units
<1>4. A \cap B = {}
  BY DEF Units
<1>5. Cardinality(A \cap B) = 0
  BY <1>4, FS_EmptySet
<1>6. Cardinality(A \cup B) = Cardinality(A) + Cardinality(B) - Cardinality(A \cap B)
  BY <1>1, <1>2, FS_Union
<1>7. Cardinality(A) \in Nat
  BY <1>1, FS_CardinalityType
<1> HIDE DEF A, B
<1>8. Cardinality(A \cup B) = f[x] + Cardinality(A)
  BY <1>2, <1>5, <1>6, <1>7
<1> QED
  BY <1>3, <1>8 DEF A

(* The sum of a function with natural values, which the community modules  *)
(* compute in an order that CHOOSE decides, is the number of its units.    *)
LEMMA SumIsCount ==
  ASSUME NEW S, IsFiniteSet(S), NEW f, \A x \in S : f[x] \in Nat
  PROVE  SumFunctionOnSet(f, S) = Cardinality(Units(f, S))
<1> DEFINE c(s) == CHOOSE x \in s : TRUE
           F(g) == [s \in SUBSET S |-> IF s = {} THEN 0 ELSE f[c(s)] + g[s \ {c(s)}]]
           card == [s \in SUBSET S |-> Cardinality(Units(f, s))]
<1>1. \A s \in SUBSET S : s # {} => c(s) \in s
  OBVIOUS
<1>2. card = F(card)
  <2>1. ASSUME NEW s \in SUBSET S
        PROVE  card[s] = IF s = {} THEN 0 ELSE f[c(s)] + card[s \ {c(s)}]
    <3>0. IsFiniteSet(s)
      BY FS_Subset
    <3>1. CASE s = {}
      <4>1. Units(f, s) = {}
        BY <3>1 DEF Units
      <4> QED
        BY <3>1, <4>1, FS_EmptySet
    <3>2. CASE s # {}
      <4>1. c(s) \in s
        BY <3>2
      <4> HIDE DEF c
      <4>2. Cardinality(Units(f, s)) = f[c(s)] + Cardinality(Units(f, s \ {c(s)}))
        BY <3>0, <4>1, UnitsStep
      <4> QED
        BY <3>2, <4>1, <4>2
    <3> QED
      BY <3>1, <3>2
  <2> QED
    BY <2>1
<1>3. Sums(f, S) = F(Sums(f, S))
  <2>1. Sums(f, S) = CHOOSE g : g = F(g)
    BY DEF Sums
  <2>2. \E g : g = F(g)
    BY <1>2
  <2> QED
    BY <2>1, <2>2
<1> DEFINE T == {k \in Nat : \A s \in SUBSET S : Cardinality(s) = k => Sums(f, S)[s] = card[s]}
<1> HIDE DEF card
<1>a. \A s \in SUBSET S :
        /\ card[s] = IF s = {} THEN 0 ELSE f[c(s)] + card[s \ {c(s)}]
        /\ Sums(f, S)[s] = IF s = {} THEN 0 ELSE f[c(s)] + Sums(f, S)[s \ {c(s)}]
  BY <1>2, <1>3
<1> HIDE DEF c
<1>4. 0 \in T
  <2> SUFFICES ASSUME NEW s \in SUBSET S, Cardinality(s) = 0
               PROVE  Sums(f, S)[s] = card[s]
    OBVIOUS
  <2>1. s = {}
    BY FS_Subset, FS_EmptySet
  <2> QED
    BY <1>a, <2>1
<1>5. ASSUME NEW k \in Nat, k \in T PROVE k + 1 \in T
  <2> SUFFICES ASSUME NEW s \in SUBSET S, Cardinality(s) = k + 1
               PROVE  Sums(f, S)[s] = card[s]
    OBVIOUS
  <2>0. IsFiniteSet(s)
    BY FS_Subset
  <2>1. s # {}
    BY <2>0, FS_EmptySet
  <2>2. c(s) \in s
    BY <1>1, <2>1
  <2>3. Cardinality(s \ {c(s)}) = k
    <3>1. Cardinality(s \ {c(s)}) = Cardinality(s) - 1
      BY <2>0, <2>2, FS_RemoveElement
    <3> QED
      BY <3>1
  <2>4. Sums(f, S)[s \ {c(s)}] = card[s \ {c(s)}]
    BY <1>5, <2>3
  <2> QED
    BY <1>a, <2>1, <2>4
<1> HIDE DEF T
<1>6. Cardinality(S) \in T
  BY <1>4, <1>5, Induction, FS_CardinalityType
<1>7. Sums(f, S)[S] = card[S]
  BY <1>6 DEF T
<1> QED
  BY <1>7, SumsDef DEF card

(* Sums along a sequence. *)
LEMMA SumOfNone == \A f : SumFunctionOnSet(f, 1..0) = 0
<1> SUFFICES ASSUME NEW f PROVE SumFunctionOnSet(f, 1..0) = 0
  OBVIOUS
<1>1. 1..0 = {} /\ Units(f, {}) = {}
  BY DEF Units
<1> QED
  BY <1>1, SumIsCount, FS_EmptySet

LEMMA SumOfMore ==
  ASSUME NEW n \in Nat, NEW f, \A i \in 1..n + 1 : f[i] \in Nat
  PROVE  SumFunctionOnSet(f, 1..n + 1) = SumFunctionOnSet(f, 1..n) + f[n + 1]
<1>1. (1..n + 1) \ {n + 1} = 1..n
  OBVIOUS
<1>2. IsFiniteSet(1..n + 1) /\ IsFiniteSet(1..n)
  BY FS_Interval
<1>3. n + 1 \in 1..n + 1
  OBVIOUS
<1>4. Cardinality(Units(f, 1..n + 1)) = f[n + 1] + Cardinality(Units(f, 1..n))
  BY <1>1, <1>2, <1>3, UnitsStep
<1>5. SumFunctionOnSet(f, 1..n + 1) = Cardinality(Units(f, 1..n + 1))
  BY <1>2, SumIsCount
<1>6. SumFunctionOnSet(f, 1..n) = Cardinality(Units(f, 1..n)) /\ Cardinality(Units(f, 1..n)) \in Nat
  <2>1. \A i \in 1..n : f[i] \in Nat
    OBVIOUS
  <2> QED
    BY <1>2, <2>1, SumIsCount, UnitsFinite, FS_CardinalityType
<1>7. f[n + 1] \in Nat
  BY <1>3
<1> QED
  BY <1>4, <1>5, <1>6, <1>7

(* The sum of the lengths of adjacent ranges is what lies between their    *)
(* ends.                                                                   *)
LEMMA SumTelescopes ==
  ASSUME NEW n \in Nat, NEW f, DOMAIN f = 1..n, NEW at \in [1..n + 1 -> Nat],
         \A i \in 1..n : f[i] \in Nat /\ at[i + 1] = at[i] + f[i]
  PROVE  SumFunction(f) = at[n + 1] - at[1]
<1> DEFINE T == {k \in Nat : k <= n => SumFunctionOnSet(f, 1..k) = at[k + 1] - at[1]}
<1>1. 0 \in T
  <2>1. at[1] \in Nat
    OBVIOUS
  <2> QED
    BY <2>1, SumOfNone
<1>2. ASSUME NEW k \in Nat, k \in T PROVE k + 1 \in T
  <2> SUFFICES ASSUME k + 1 <= n PROVE SumFunctionOnSet(f, 1..k + 1) = at[k + 2] - at[1]
    OBVIOUS
  <2>1. SumFunctionOnSet(f, 1..k) = at[k + 1] - at[1]
    BY <1>2
  <2>2. \A i \in 1..k + 1 : f[i] \in Nat
    OBVIOUS
  <2>3. SumFunctionOnSet(f, 1..k + 1) = SumFunctionOnSet(f, 1..k) + f[k + 1]
    BY <2>2, SumOfMore
  <2>4. at[k + 2] = at[k + 1] + f[k + 1] /\ f[k + 1] \in Nat
    <3>1. k + 1 \in 1..n /\ (k + 1) + 1 = k + 2
      OBVIOUS
    <3> QED
      BY <3>1
  <2>5. at[k + 1] \in Nat /\ at[1] \in Nat
    OBVIOUS
  <2> QED
    BY <2>1, <2>3, <2>4, <2>5
<1> HIDE DEF T
<1>3. n \in T
  BY <1>1, <1>2, Induction
<1> QED
  BY <1>3 DEF T, SumFunction

-----------------------------------------------------------------------------
(* What lies one behind the other *)

LEMMA MsgTyped ==
  ASSUME NEW m \in Msg
  PROVE  /\ m.self \in BOOLEAN /\ m.len \in Seqs /\ m.skip \in Seqs
         /\ m.end \in Nat /\ m.len \in Nat /\ m.skip \in Nat
  BY SockmapAssumption DEF Msg, Seqs

LEMMA SkbTyped ==
  ASSUME NEW skb \in Skb
  PROVE  Ours(skb) \in BOOLEAN /\ skb.seq \in Nat /\ skb.end \in Nat
  BY DEF Skb, Ours

(* A mark does not move an skb, or makes it another's. *)
LEMMA PassedFits ==
  ASSUME NEW skb \in Skb, Ours(skb), NEW c, NEW from, NEW to, SkbFits(skb, c, from, to)
  PROVE  /\ Passed(skb) \in Skb /\ Ours(Passed(skb)) /\ Passed(skb).kind = "passed"
         /\ Passed(skb).end = skb.end /\ SkbFits(Passed(skb), c, from, to)
<1>1. /\ Passed(skb) \in Skb /\ Passed(skb).kind = "passed"
      /\ Passed(skb).seq = skb.seq /\ Passed(skb).end = skb.end
  BY DEF Passed, Skb, Kinds
<1>2. Ours(Passed(skb))
  BY <1>1 DEF Ours
<1> QED
  BY <1>1, <1>2 DEF SkbFits

LEMMA SentFits ==
  ASSUME NEW skb \in Skb, NEW c, NEW from, NEW to, SkbFits(skb, c, from, to), NEW p,
         NEW out, out = [skb EXCEPT !.kind = "out"]
  PROVE  out \in Skb /\ ~Ours(out) /\ out.kind = "out" /\ SkbFits(out, c, p, p)
<1>1. out \in Skb /\ out.kind = "out" /\ out.seq = skb.seq /\ out.end = skb.end
  BY DEF Skb, Kinds
<1>2. ~Ours(out)
  BY <1>1 DEF Ours
<1> QED
  BY <1>1, <1>2 DEF SkbFits

LEMMA MaxOfTwo ==
  ASSUME NEW a \in Nat, NEW b \in Nat
  PROVE  Max({a, b}) = IF a > b THEN a ELSE b
<1> DEFINE m == IF a > b THEN a ELSE b
<1>1. m \in {a, b} /\ \A y \in {a, b} : m >= y
  OBVIOUS
<1>2. \A x \in {a, b} : (\A y \in {a, b} : x >= y) => x = m
  OBVIOUS
<1> QED
  BY <1>1, <1>2 DEF Max

(* What does not change from one place to the next does not change. *)
LEMMA Level ==
  ASSUME NEW n \in Nat, NEW at \in Places(n), NEW i \in 1..n + 1,
         \A j \in i..n : at[j + 1] = at[j]
  PROVE  \A j \in i..n + 1 : at[j] = at[i]
<1> DEFINE T == {k \in Nat : i + k <= n + 1 => at[i + k] = at[i]}
<1>1. 0 \in T
  OBVIOUS
<1>2. ASSUME NEW k \in Nat, k \in T PROVE k + 1 \in T
  <2> SUFFICES ASSUME i + (k + 1) <= n + 1 PROVE at[i + (k + 1)] = at[i]
    OBVIOUS
  <2>1. at[i + k] = at[i]
    BY <1>2
  <2>2. i + k \in i..n /\ (i + k) + 1 = i + (k + 1)
    OBVIOUS
  <2> QED
    BY <2>1, <2>2
<1> HIDE DEF T
<1>3. Nat \subseteq T
  BY <1>1, <1>2, Induction
<1>4. ASSUME NEW j \in i..n + 1 PROVE at[j] = at[i]
  <2>1. j - i \in T
    BY <1>3
  <2> QED
    BY <2>1 DEF T
<1> QED
  BY <1>4

LEMMA AllLevel ==
  ASSUME NEW n \in Nat, NEW at \in Places(n), \A j \in 1..n : at[j + 1] = at[j]
  PROVE  at[n + 1] = at[1]
<1>1. ASSUME NEW i \in 1..n + 1, \A j \in i..n : at[j + 1] = at[j]
      PROVE  \A j \in i..n + 1 : at[j] = at[i]
  BY <1>1, Level
<1>2. 1 \in 1..n + 1 /\ n + 1 \in 1..n + 1
  OBVIOUS
<1>3. \A j \in 1..n + 1 : at[j] = at[1]
  BY <1>1, <1>2
<1> QED
  BY <1>2, <1>3

LEMMA PlacesOf ==
  ASSUME NEW n \in Nat, NEW at \in Places(n)
  PROVE  /\ \A i \in 1..n + 1 : at[i] \in Nat
         /\ \A i, j \in 1..n + 1 : i <= j => at[i] <= at[j]
  BY DEF Places

(* One more place, and one less. *)
LEMMA OneMore ==
  ASSUME NEW n \in Nat, NEW at \in Places(n), NEW to \in Nat, at[n + 1] <= to
  PROVE  \E bt \in Places(n + 1) :
           bt[(n + 1) + 1] = to /\ \A i \in 1..n + 1 : bt[i] = at[i]
<1> DEFINE bt == [i \in 1..(n + 1) + 1 |-> IF i = (n + 1) + 1 THEN to ELSE at[i]]
<1>0. at \in [1..n + 1 -> Nat]
  BY DEF Places
<1>1. bt \in [1..(n + 1) + 1 -> Nat] /\ bt[(n + 1) + 1] = to
  BY <1>0
<1>2. \A i \in 1..n + 1 : bt[i] = at[i]
  OBVIOUS
<1> HIDE DEF bt
<1>3. \A i \in 1..n + 1 : at[i] \in Nat /\ at[i] <= to
  <2> SUFFICES ASSUME NEW i \in 1..n + 1 PROVE at[i] \in Nat /\ at[i] <= to
    OBVIOUS
  <2>1. i <= n + 1 /\ n + 1 \in 1..n + 1
    OBVIOUS
  <2>2. at[i] <= at[n + 1]
    BY <2>1, PlacesOf
  <2>3. at[i] \in Nat /\ at[n + 1] \in Nat
    BY <2>1, PlacesOf
  <2> QED
    BY <2>2, <2>3
<1>4. ASSUME NEW i \in 1..(n + 1) + 1, NEW j \in 1..(n + 1) + 1, i <= j
      PROVE  bt[i] <= bt[j]
  <2>1. CASE j \in 1..n + 1
    <3>1. i \in 1..n + 1
      BY <1>4, <2>1
    <3> QED
      BY <1>2, <1>4, <2>1, <3>1, PlacesOf
  <2>2. CASE j = (n + 1) + 1
    <3>1. i = (n + 1) + 1 \/ i \in 1..n + 1
      OBVIOUS
    <3> QED
      BY <1>1, <1>2, <1>3, <2>2, <3>1
  <2>3. j \in 1..n + 1 \/ j = (n + 1) + 1
    OBVIOUS
  <2> QED
    BY <2>1, <2>2, <2>3
<1>5. bt \in Places(n + 1)
  BY <1>1, <1>4 DEF Places
<1> QED
  BY <1>1, <1>2, <1>5

LEMMA OneLess ==
  ASSUME NEW n \in Nat, NEW at \in Places(n + 1)
  PROVE  \E bt \in Places(n) :
           bt[n + 1] = at[(n + 1) + 1] /\ \A i \in 1..n + 1 : bt[i] = at[i + 1]
<1> DEFINE bt == [i \in 1..n + 1 |-> at[i + 1]]
<1>0. n + 1 \in Nat /\ \A i \in 1..n + 1 : i + 1 \in 1..(n + 1) + 1
  OBVIOUS
<1>1. bt \in [1..n + 1 -> Nat] /\ \A i \in 1..n + 1 : bt[i] = at[i + 1]
  BY <1>0, PlacesOf
<1> HIDE DEF bt
<1>2. ASSUME NEW i \in 1..n + 1, NEW j \in 1..n + 1, i <= j PROVE bt[i] <= bt[j]
  <2>1. i + 1 \in 1..(n + 1) + 1 /\ j + 1 \in 1..(n + 1) + 1 /\ i + 1 <= j + 1
    BY <1>2
  <2> QED
    BY <1>0, <1>1, <2>1, PlacesOf
<1>3. n + 1 \in 1..n + 1
  OBVIOUS
<1>4. bt \in Places(n)
  BY <1>1, <1>2 DEF Places
<1> QED
  BY <1>1, <1>3, <1>4

LEMMA OneBefore ==
  ASSUME NEW n \in Nat, NEW at \in Places(n), NEW from \in Nat, from <= at[1]
  PROVE  \E bt \in Places(n + 1) : bt[1] = from /\ \A i \in 1..n + 1 : bt[i + 1] = at[i]
<1> DEFINE bt == [i \in 1..(n + 1) + 1 |-> IF i = 1 THEN from ELSE at[i - 1]]
<1>1. \A i \in 1..(n + 1) + 1 : i # 1 => i - 1 \in 1..n + 1
  OBVIOUS
<1>2. \A i \in 1..n + 1 : at[i] \in Nat /\ from <= at[i]
  <2> SUFFICES ASSUME NEW i \in 1..n + 1 PROVE at[i] \in Nat /\ from <= at[i]
    OBVIOUS
  <2>1. 1 \in 1..n + 1 /\ 1 <= i
    OBVIOUS
  <2>2. at[1] \in Nat /\ at[i] \in Nat /\ at[1] <= at[i]
    BY <2>1, PlacesOf
  <2> QED
    BY <2>2
<1>3. bt \in [1..(n + 1) + 1 -> Nat]
  BY <1>1, <1>2
<1>4. bt[1] = from /\ \A i \in 1..(n + 1) + 1 : i # 1 => bt[i] = at[i - 1]
  OBVIOUS
<1> HIDE DEF bt
<1>5. ASSUME NEW i \in 1..(n + 1) + 1, NEW j \in 1..(n + 1) + 1, i <= j PROVE bt[i] <= bt[j]
  <2>1. CASE i = 1
    BY <1>1, <1>2, <1>4, <2>1
  <2>2. CASE i # 1
    <3>1. j # 1 /\ i - 1 <= j - 1
      BY <1>5, <2>2
    <3>2. at[i - 1] <= at[j - 1]
      BY <1>1, <2>2, <3>1, PlacesOf
    <3> QED
      BY <1>4, <2>2, <3>1, <3>2
  <2> QED
    BY <2>1, <2>2
<1>6. bt \in Places(n + 1)
  BY <1>3, <1>5 DEF Places
<1>7. \A i \in 1..n + 1 : bt[i + 1] = at[i]
  <2> SUFFICES ASSUME NEW i \in 1..n + 1 PROVE bt[i + 1] = at[i]
    OBVIOUS
  <2>1. i + 1 \in 1..(n + 1) + 1 /\ i + 1 # 1 /\ (i + 1) - 1 = i
    OBVIOUS
  <2> QED
    BY <1>4, <2>1
<1> QED
  BY <1>4, <1>6, <1>7

LEMMA MsgsOrdered ==
  ASSUME NEW q \in Seq(Msg), NEW from \in Nat, NEW to \in Nat, MsgsLie(q, from, to)
  PROVE  from <= to
  BY DEF MsgsLie, Places

LEMMA SkbsOrdered ==
  ASSUME NEW q \in Seq(Skb), NEW c \in Nat, NEW from \in Nat, NEW to \in Nat,
         SkbsLie(q, c, from, to)
  PROVE  from <= to
  BY DEF SkbsLie, Places

LEMMA NothingLies ==
  ASSUME NEW p \in Nat, NEW c \in Nat
  PROVE  MsgsLie(<<>>, p, p) /\ SkbsLie(<<>>, c, p, p)
<1> DEFINE at == [i \in {1} |-> p]
<1>1. Len(<<>>) = 0 /\ 1..0 + 1 = {1} /\ 1..0 = {}
  OBVIOUS
<1>2. at \in [1..0 + 1 -> Nat] /\ at[1] = p
  BY <1>1
<1> HIDE DEF at
<1>3. at \in Places(0)
  BY <1>1, <1>2 DEF Places
<1>4. MsgsLie(<<>>, p, p)
  BY <1>1, <1>2, <1>3 DEF MsgsLie
<1>5. SkbsLie(<<>>, c, p, p)
  BY <1>1, <1>2, <1>3 DEF SkbsLie
<1> QED
  BY <1>4, <1>5

LEMMA EmptyLies ==
  ASSUME NEW from \in Nat, NEW to \in Nat, NEW c \in Nat
  PROVE  (MsgsLie(<<>>, from, to) => from = to) /\ (SkbsLie(<<>>, c, from, to) => from = to)
<1>1. Len(<<>>) + 1 = 1
  OBVIOUS
<1> QED
  BY <1>1 DEF MsgsLie, SkbsLie

(* Others' messages and skbs take no room. *)
LEMMA OthersMsgs ==
  ASSUME NEW q \in Seq(Msg), NEW from \in Nat, NEW to \in Nat, MsgsLie(q, from, to),
         \A i \in 1..Len(q) : ~q[i].self
  PROVE  from = to
<1>1. PICK at \in Places(Len(q)) :
        /\ at[1] = from /\ at[Len(q) + 1] = to
        /\ \A i \in 1..Len(q) : MsgFits(q[i], at[i], at[i + 1])
  BY DEF MsgsLie
<1>2. \A j \in 1..Len(q) : at[j + 1] = at[j]
  BY <1>1 DEF MsgFits
<1> DEFINE n == Len(q)
<1>3. n \in Nat /\ 1 \in 1..n + 1 /\ n + 1 \in 1..n + 1
  OBVIOUS
<1> HIDE DEF n
<1>4. at[n + 1] = at[1]
  <2>1. at \in Places(n) /\ \A j \in 1..n : at[j + 1] = at[j]
    BY <1>1, <1>2 DEF n
  <2> QED
    BY <1>3, <2>1, AllLevel
<1> QED
  BY <1>1, <1>3, <1>4 DEF n

LEMMA OthersSkbs ==
  ASSUME NEW q \in Seq(Skb), NEW c \in Nat, NEW from \in Nat, NEW to \in Nat,
         SkbsLie(q, c, from, to), \A i \in 1..Len(q) : ~Ours(q[i])
  PROVE  from = to
<1>1. PICK at \in Places(Len(q)) :
        /\ at[1] = from /\ at[Len(q) + 1] = to
        /\ \A i \in 1..Len(q) : SkbFits(q[i], c, at[i], at[i + 1])
  BY DEF SkbsLie
<1>2. \A j \in 1..Len(q) : at[j + 1] = at[j]
  BY <1>1 DEF SkbFits
<1> DEFINE n == Len(q)
<1>3. n \in Nat /\ 1 \in 1..n + 1 /\ n + 1 \in 1..n + 1
  OBVIOUS
<1> HIDE DEF n
<1>4. at[n + 1] = at[1]
  <2>1. at \in Places(n) /\ \A j \in 1..n : at[j + 1] = at[j]
    BY <1>1, <1>2 DEF n
  <2> QED
    BY <1>3, <2>1, AllLevel
<1> QED
  BY <1>1, <1>3, <1>4 DEF n

LEMMA MsgsAppendAt ==
  ASSUME NEW q \in Seq(Msg), NEW m \in Msg,
         NEW from \in Nat, NEW mid \in Nat, NEW to \in Nat, MsgFits(m, mid, to), mid <= to,
         NEW n \in Nat, n = Len(q), NEW at \in Places(n),
         at[1] = from, at[n + 1] = mid, \A i \in 1..n : MsgFits(q[i], at[i], at[i + 1])
  PROVE  MsgsLie(Append(q, m), from, to)
<1>0. at[n + 1] <= to
  OBVIOUS
<1>1. PICK bt \in Places(n + 1) :
        bt[(n + 1) + 1] = to /\ \A i \in 1..n + 1 : bt[i] = at[i]
  BY <1>0, OneMore
<1> DEFINE r == Append(q, m)
<1>2. Len(r) = n + 1 /\ r[n + 1] = m /\ \A i \in 1..n : r[i] = q[i]
  OBVIOUS
<1> HIDE DEF r
<1>3. 1 \in 1..n + 1 /\ n + 1 \in 1..n + 1
  OBVIOUS
<1>4. ASSUME NEW i \in 1..n + 1 PROVE MsgFits(r[i], bt[i], bt[i + 1])
  <2>1. CASE i = n + 1
    BY <1>1, <1>2, <1>3, <2>1
  <2>2. CASE i # n + 1
    <3>1. i \in 1..n /\ i + 1 \in 1..n + 1
      BY <2>2
    <3> QED
      BY <1>1, <1>2, <3>1
  <2> QED
    BY <2>1, <2>2
<1>5. MsgsLie(r, from, to)
  BY <1>1, <1>2, <1>3, <1>4 DEF MsgsLie
<1> QED
  BY <1>5 DEF r

LEMMA MsgsAppend ==
  ASSUME NEW q \in Seq(Msg), NEW m \in Msg,
         NEW from \in Nat, NEW mid \in Nat, NEW to \in Nat,
         MsgsLie(q, from, mid), MsgFits(m, mid, to), mid <= to
  PROVE  MsgsLie(Append(q, m), from, to)
<1>1. PICK n \in Nat : n = Len(q)
  OBVIOUS
<1>2. PICK at \in Places(n) :
        /\ at[1] = from /\ at[n + 1] = mid
        /\ \A i \in 1..n : MsgFits(q[i], at[i], at[i + 1])
  BY <1>1 DEF MsgsLie
<1> QED
  BY <1>1, <1>2, MsgsAppendAt

LEMMA SkbsAppendAt ==
  ASSUME NEW q \in Seq(Skb), NEW m \in Skb, NEW c \in Nat,
         NEW from \in Nat, NEW mid \in Nat, NEW to \in Nat, SkbFits(m, c, mid, to), mid <= to,
         NEW n \in Nat, n = Len(q), NEW at \in Places(n),
         at[1] = from, at[n + 1] = mid, \A i \in 1..n : SkbFits(q[i], c, at[i], at[i + 1])
  PROVE  SkbsLie(Append(q, m), c, from, to)
<1>0. at[n + 1] <= to
  OBVIOUS
<1>1. PICK bt \in Places(n + 1) :
        bt[(n + 1) + 1] = to /\ \A i \in 1..n + 1 : bt[i] = at[i]
  BY <1>0, OneMore
<1> DEFINE r == Append(q, m)
<1>2. Len(r) = n + 1 /\ r[n + 1] = m /\ \A i \in 1..n : r[i] = q[i]
  OBVIOUS
<1> HIDE DEF r
<1>3. 1 \in 1..n + 1 /\ n + 1 \in 1..n + 1
  OBVIOUS
<1>4. ASSUME NEW i \in 1..n + 1 PROVE SkbFits(r[i], c, bt[i], bt[i + 1])
  <2>1. CASE i = n + 1
    BY <1>1, <1>2, <1>3, <2>1
  <2>2. CASE i # n + 1
    <3>1. i \in 1..n /\ i + 1 \in 1..n + 1
      BY <2>2
    <3> QED
      BY <1>1, <1>2, <3>1
  <2> QED
    BY <2>1, <2>2
<1>5. SkbsLie(r, c, from, to)
  BY <1>1, <1>2, <1>3, <1>4 DEF SkbsLie
<1> QED
  BY <1>5 DEF r

LEMMA SkbsAppend ==
  ASSUME NEW q \in Seq(Skb), NEW m \in Skb, NEW c \in Nat,
         NEW from \in Nat, NEW mid \in Nat, NEW to \in Nat,
         SkbsLie(q, c, from, mid), SkbFits(m, c, mid, to), mid <= to
  PROVE  SkbsLie(Append(q, m), c, from, to)
<1>1. PICK n \in Nat : n = Len(q)
  OBVIOUS
<1>2. PICK at \in Places(n) :
        /\ at[1] = from /\ at[n + 1] = mid
        /\ \A i \in 1..n : SkbFits(q[i], c, at[i], at[i + 1])
  BY <1>1 DEF SkbsLie
<1> QED
  BY <1>1, <1>2, SkbsAppendAt

LEMMA MsgsTail ==
  ASSUME NEW q \in Seq(Msg), q # <<>>, NEW from \in Nat, NEW to \in Nat,
         MsgsLie(q, from, to)
  PROVE  \E mid \in Nat :
           /\ from <= mid /\ MsgFits(Head(q), from, mid)
           /\ MsgsLie(Tail(q), mid, to)
<1> DEFINE n == Len(q) - 1
           r == Tail(q)
<1>0. n \in Nat /\ Len(q) = n + 1 /\ 1 \in 1..n + 1 /\ n + 1 \in 1..n + 1 /\ Head(q) = q[1]
  OBVIOUS
<1>2. Len(r) = n /\ \A i \in 1..n : r[i] = q[i + 1]
  OBVIOUS
<1> HIDE DEF n, r
<1>1. PICK at \in Places(n + 1) :
        /\ at[1] = from /\ at[(n + 1) + 1] = to
        /\ \A i \in 1..n + 1 : MsgFits(q[i], at[i], at[i + 1])
  BY <1>0 DEF MsgsLie
<1>3. PICK bt \in Places(n) :
        bt[n + 1] = at[(n + 1) + 1] /\ \A i \in 1..n + 1 : bt[i] = at[i + 1]
  BY <1>0, <1>1, OneLess
<1>4. at[2] \in Nat /\ from <= at[2] /\ MsgFits(Head(q), from, at[2])
  <2>1. 1 \in 1..(n + 1) + 1 /\ 2 \in 1..(n + 1) + 1 /\ 1 + 1 = 2
    BY <1>0
  <2> QED
    BY <1>0, <1>1, <2>1, PlacesOf
<1>5. ASSUME NEW i \in 1..n PROVE MsgFits(r[i], bt[i], bt[i + 1])
  <2>1. i \in 1..n + 1 /\ i + 1 \in 1..n + 1
    BY <1>0
  <2> QED
    BY <1>1, <1>2, <1>3, <2>1
<1>6. bt[1] = at[2]
  BY <1>0, <1>3
<1>7. MsgsLie(r, at[2], to)
  BY <1>1, <1>2, <1>3, <1>5, <1>6 DEF MsgsLie
<1> QED
  BY <1>4, <1>7 DEF r

LEMMA SkbsTail ==
  ASSUME NEW q \in Seq(Skb), q # <<>>, NEW c \in Nat, NEW from \in Nat, NEW to \in Nat,
         SkbsLie(q, c, from, to)
  PROVE  \E mid \in Nat :
           /\ from <= mid /\ SkbFits(Head(q), c, from, mid)
           /\ SkbsLie(Tail(q), c, mid, to)
<1> DEFINE n == Len(q) - 1
           r == Tail(q)
<1>0. n \in Nat /\ Len(q) = n + 1 /\ 1 \in 1..n + 1 /\ n + 1 \in 1..n + 1 /\ Head(q) = q[1]
  OBVIOUS
<1>2. Len(r) = n /\ \A i \in 1..n : r[i] = q[i + 1]
  OBVIOUS
<1> HIDE DEF n, r
<1>1. PICK at \in Places(n + 1) :
        /\ at[1] = from /\ at[(n + 1) + 1] = to
        /\ \A i \in 1..n + 1 : SkbFits(q[i], c, at[i], at[i + 1])
  BY <1>0 DEF SkbsLie
<1>3. PICK bt \in Places(n) :
        bt[n + 1] = at[(n + 1) + 1] /\ \A i \in 1..n + 1 : bt[i] = at[i + 1]
  BY <1>0, <1>1, OneLess
<1>4. at[2] \in Nat /\ from <= at[2] /\ SkbFits(Head(q), c, from, at[2])
  <2>1. 1 \in 1..(n + 1) + 1 /\ 2 \in 1..(n + 1) + 1 /\ 1 + 1 = 2
    BY <1>0
  <2> QED
    BY <1>0, <1>1, <2>1, PlacesOf
<1>5. ASSUME NEW i \in 1..n PROVE SkbFits(r[i], c, bt[i], bt[i + 1])
  <2>1. i \in 1..n + 1 /\ i + 1 \in 1..n + 1
    BY <1>0
  <2> QED
    BY <1>1, <1>2, <1>3, <2>1
<1>6. bt[1] = at[2]
  BY <1>0, <1>3
<1>7. SkbsLie(r, c, at[2], to)
  BY <1>1, <1>2, <1>3, <1>5, <1>6 DEF SkbsLie
<1> QED
  BY <1>4, <1>7 DEF r

(* The other way round. *)
LEMMA MsgsCons ==
  ASSUME NEW q \in Seq(Msg), q # <<>>, NEW from \in Nat, NEW mid \in Nat, NEW to \in Nat,
         from <= mid, MsgFits(Head(q), from, mid), MsgsLie(Tail(q), mid, to)
  PROVE  MsgsLie(q, from, to)
<1> DEFINE r == Tail(q)
<1>0. Len(q) \in Nat /\ Len(q) - 1 \in Nat
  OBVIOUS
<1>1. PICK n \in Nat : n = Len(q) - 1
  BY <1>0
<1>2. Len(q) = n + 1 /\ Len(r) = n /\ Head(q) = q[1] /\ \A i \in 1..n : r[i] = q[i + 1]
  BY <1>1
<1> HIDE DEF r
<1>3. PICK at \in Places(n) :
        /\ at[1] = mid /\ at[n + 1] = to
        /\ \A i \in 1..n : MsgFits(r[i], at[i], at[i + 1])
  BY <1>2 DEF MsgsLie, r
<1>4. PICK bt \in Places(n + 1) : bt[1] = from /\ \A i \in 1..n + 1 : bt[i + 1] = at[i]
  <2>1. from <= at[1]
    BY <1>3
  <2> QED
    BY <2>1, OneBefore
<1>5. ASSUME NEW i \in 1..n + 1 PROVE MsgFits(q[i], bt[i], bt[i + 1])
  <2>1. CASE i = 1
    BY <1>2, <1>3, <1>4, <2>1
  <2>2. CASE i # 1
    <3>1. PICK j \in 1..n : i = j + 1 /\ i \in 1..n + 1
      BY <2>2
    <3>2. bt[j + 1] = at[j] /\ bt[i + 1] = at[j + 1]
      BY <1>4, <3>1
    <3> QED
      BY <1>2, <1>3, <3>1, <3>2
  <2> QED
    BY <2>1, <2>2
<1>6. bt[(n + 1) + 1] = to
  BY <1>3, <1>4
<1> QED
  BY <1>2, <1>4, <1>5, <1>6 DEF MsgsLie

LEMMA SkbsCons ==
  ASSUME NEW q \in Seq(Skb), q # <<>>, NEW c \in Nat,
         NEW from \in Nat, NEW mid \in Nat, NEW to \in Nat,
         from <= mid, SkbFits(Head(q), c, from, mid), SkbsLie(Tail(q), c, mid, to)
  PROVE  SkbsLie(q, c, from, to)
<1> DEFINE r == Tail(q)
<1>0. Len(q) \in Nat /\ Len(q) - 1 \in Nat
  OBVIOUS
<1>1. PICK n \in Nat : n = Len(q) - 1
  BY <1>0
<1>2. Len(q) = n + 1 /\ Len(r) = n /\ Head(q) = q[1] /\ \A i \in 1..n : r[i] = q[i + 1]
  BY <1>1
<1> HIDE DEF r
<1>3. PICK at \in Places(n) :
        /\ at[1] = mid /\ at[n + 1] = to
        /\ \A i \in 1..n : SkbFits(r[i], c, at[i], at[i + 1])
  BY <1>2 DEF SkbsLie, r
<1>4. PICK bt \in Places(n + 1) : bt[1] = from /\ \A i \in 1..n + 1 : bt[i + 1] = at[i]
  <2>1. from <= at[1]
    BY <1>3
  <2> QED
    BY <2>1, OneBefore
<1>5. ASSUME NEW i \in 1..n + 1 PROVE SkbFits(q[i], c, bt[i], bt[i + 1])
  <2>1. CASE i = 1
    BY <1>2, <1>3, <1>4, <2>1
  <2>2. CASE i # 1
    <3>1. PICK j \in 1..n : i = j + 1 /\ i \in 1..n + 1
      BY <2>2
    <3>2. bt[j + 1] = at[j] /\ bt[i + 1] = at[j + 1]
      BY <1>4, <3>1
    <3> QED
      BY <1>2, <1>3, <3>1, <3>2
  <2> QED
    BY <2>1, <2>2
<1>6. bt[(n + 1) + 1] = to
  BY <1>3, <1>4
<1> QED
  BY <1>2, <1>4, <1>5, <1>6 DEF SkbsLie

(* Others' messages and skbs lie anywhere. *)
LEMMA OthersAnywhere ==
  ASSUME NEW p \in Nat, NEW c \in Nat
  PROVE  /\ \A q \in Seq(Msg), from, to \in Nat :
              MsgsLie(q, from, to) /\ (\A i \in 1..Len(q) : ~q[i].self) => MsgsLie(q, p, p)
         /\ \A q \in Seq(Skb), d, from, to \in Nat :
              SkbsLie(q, d, from, to) /\ (\A i \in 1..Len(q) : ~Ours(q[i])) => SkbsLie(q, c, p, p)
<1> DEFINE flat(n) == [i \in 1..n + 1 |-> p]
<1>1. ASSUME NEW n \in Nat
      PROVE  /\ flat(n) \in Places(n) /\ flat(n)[1] = p /\ flat(n)[n + 1] = p
             /\ \A i \in 1..n : flat(n)[i] = p /\ flat(n)[i + 1] = p
  BY DEF Places
<1> HIDE DEF flat
<1>2. ASSUME NEW q \in Seq(Msg), NEW from \in Nat, NEW to \in Nat, MsgsLie(q, from, to),
             \A i \in 1..Len(q) : ~q[i].self
      PROVE  MsgsLie(q, p, p)
  <2>1. Len(q) \in Nat
    OBVIOUS
  <2>2. \A i \in 1..Len(q) : q[i].len > 0
    BY <1>2 DEF MsgsLie, MsgFits
  <2>3. \A i \in 1..Len(q) : MsgFits(q[i], p, p)
    BY <1>2, <2>2 DEF MsgFits
  <2> QED
    BY <1>1, <2>1, <2>3 DEF MsgsLie
<1>3. ASSUME NEW q \in Seq(Skb), NEW d \in Nat, NEW from \in Nat, NEW to \in Nat,
             SkbsLie(q, d, from, to), \A i \in 1..Len(q) : ~Ours(q[i])
      PROVE  SkbsLie(q, c, p, p)
  <2>1. Len(q) \in Nat
    OBVIOUS
  <2>2. \A i \in 1..Len(q) : q[i].seq < q[i].end /\ q[i].end <= q[i].seq + MaxBytes
    BY <1>3 DEF SkbsLie, SkbFits
  <2>3. \A i \in 1..Len(q) : SkbFits(q[i], c, p, p)
    BY <1>3, <2>2 DEF SkbFits
  <2> QED
    BY <1>1, <2>1, <2>3 DEF SkbsLie
<1> QED
  BY <1>2, <1>3

(* copied_seq may advance up to where the skbs begin. *)
LEMMA SkbsRaise ==
  ASSUME NEW q \in Seq(Skb), NEW c \in Nat, NEW d \in Nat, NEW from \in Nat, NEW to \in Nat,
         SkbsLie(q, c, from, to), c <= d, d <= from
  PROVE  SkbsLie(q, d, from, to)
<1>1. PICK at \in Places(Len(q)) :
        /\ at[1] = from /\ at[Len(q) + 1] = to
        /\ \A i \in 1..Len(q) : SkbFits(q[i], c, at[i], at[i + 1])
  BY DEF SkbsLie
<1>2. ASSUME NEW i \in 1..Len(q) PROVE SkbFits(q[i], d, at[i], at[i + 1])
  <2>1. q[i] \in Skb /\ q[i].seq \in Nat /\ q[i].end \in Nat
    BY SkbTyped
  <2>2. Len(q) \in Nat /\ 1 \in 1..Len(q) + 1 /\ i \in 1..Len(q) + 1 /\ 1 <= i
    OBVIOUS
  <2>3. at[i] \in Nat /\ d <= at[i]
    BY <1>1, <2>2, PlacesOf
  <2>4. SkbFits(q[i], c, at[i], at[i + 1])
    BY <1>1
  <2>5. CASE Ours(q[i])
    <3>1. /\ q[i].seq < q[i].end /\ q[i].end <= q[i].seq + MaxBytes
          /\ at[i] = (IF c > q[i].seq THEN c ELSE q[i].seq)
          /\ at[i + 1] = q[i].end /\ c < q[i].end
      BY <2>4, <2>5 DEF SkbFits
    <3>2. at[i] = (IF d > q[i].seq THEN d ELSE q[i].seq) /\ d < q[i].end
      BY <2>1, <2>3, <3>1
    <3> QED
      BY <2>5, <3>1, <3>2 DEF SkbFits
  <2> QED
    BY <2>4, <2>5 DEF SkbFits
<1> QED
  BY <1>1, <1>2 DEF SkbsLie

(* Where a message, or an skb, of this socket's own can be. *)
LEMMA MsgsWithin ==
  ASSUME NEW q \in Seq(Msg), NEW from \in Nat, NEW to \in Nat, MsgsLie(q, from, to),
         NEW i \in 1..Len(q), q[i].self
  PROVE  from + q[i].len <= q[i].end /\ q[i].end + q[i].skip <= to
<1>1. PICK n \in Nat : n = Len(q)
  OBVIOUS
<1>2. PICK at \in Places(n) :
        at[1] = from /\ at[n + 1] = to /\ MsgFits(q[i], at[i], at[i + 1])
  BY <1>1 DEF MsgsLie
<1>3. /\ 1 \in 1..n + 1 /\ n + 1 \in 1..n + 1 /\ i \in 1..n + 1 /\ i + 1 \in 1..n + 1
      /\ 1 <= i /\ i + 1 <= n + 1
  BY <1>1
<1>4. at[i] \in Nat /\ at[i + 1] \in Nat /\ from <= at[i] /\ at[i + 1] <= to
  BY <1>2, <1>3, PlacesOf
<1>5. q[i] \in Msg
  OBVIOUS
<1>6. q[i].end \in Nat /\ q[i].len \in Nat /\ q[i].skip \in Nat
  BY <1>5, MsgTyped
<1>7. q[i].end = at[i] + q[i].len /\ at[i + 1] = q[i].end + q[i].skip
  BY <1>2 DEF MsgFits
<1> QED
  BY <1>4, <1>6, <1>7

LEMMA SkbsWithin ==
  ASSUME NEW q \in Seq(Skb), NEW c \in Nat, NEW from \in Nat, NEW to \in Nat,
         SkbsLie(q, c, from, to), NEW i \in 1..Len(q), Ours(q[i])
  PROVE  c < q[i].end
  BY DEF SkbsLie, SkbFits

(* Messages of this socket's own end one after the other. *)
LEMMA EndsRise ==
  ASSUME NEW q \in Seq(Msg), NEW from \in Nat, NEW to \in Nat, MsgsLie(q, from, to),
         NEW i \in 1..Len(q), NEW j \in 1..Len(q), q[i].self, q[j].self, i < j
  PROVE  q[i].end < q[j].end
<1>1. PICK n \in Nat : n = Len(q)
  OBVIOUS
<1>2. PICK at \in Places(n) :
        MsgFits(q[i], at[i], at[i + 1]) /\ MsgFits(q[j], at[j], at[j + 1])
  BY <1>1 DEF MsgsLie
<1>3. i + 1 \in 1..n + 1 /\ j \in 1..n + 1 /\ i \in 1..n + 1 /\ i + 1 <= j
  BY <1>1
<1>4. at[i] \in Nat /\ at[i + 1] \in Nat /\ at[j] \in Nat /\ at[i + 1] <= at[j]
  BY <1>2, <1>3, PlacesOf
<1>5. q[i] \in Msg /\ q[j] \in Msg
  OBVIOUS
<1>6. q[i].end \in Nat /\ q[j].end \in Nat /\ q[j].len \in Nat /\ q[i].skip \in Nat
  BY <1>5, MsgTyped
<1>7. q[j].end = at[j] + q[j].len /\ q[j].len > 0 /\ at[i + 1] = q[i].end + q[i].skip
  BY <1>2 DEF MsgFits
<1>8. q[i].end <= at[i + 1]
  BY <1>6, <1>7
<1>9. at[j] < q[j].end
  BY <1>4, <1>6, <1>7
<1>10. \A a, b, c, d \in Nat : a <= b /\ b <= c /\ c < d => a < d
  OBVIOUS
<1> QED
  BY <1>4, <1>6, <1>8, <1>9, <1>10

(* The last message of this socket's own takes n more behind it. *)
LEMMA MsgsDefer ==
  ASSUME NEW q \in Seq(Msg), NEW from \in Nat, NEW to \in Nat, MsgsLie(q, from, to),
         NEW k \in 1..Len(q), q[k].self, \A j \in k + 1..Len(q) : ~q[j].self,
         NEW n \in Nat, NEW r, DOMAIN r = DOMAIN q, Len(r) = Len(q),
         r[k] = [q[k] EXCEPT !.skip = @ + n], \A i \in 1..Len(q) : i # k => r[i] = q[i]
  PROVE  MsgsLie(r, from, to + n)
<1>1. PICK l \in Nat : l = Len(q)
  OBVIOUS
<1>2. PICK at \in Places(l) :
        /\ at[1] = from /\ at[l + 1] = to
        /\ \A i \in 1..l : MsgFits(q[i], at[i], at[i + 1])
  BY <1>1 DEF MsgsLie
<1> DEFINE bt == [i \in 1..l + 1 |-> IF i <= k THEN at[i] ELSE at[i] + n]
<1>3. \A i \in 1..l + 1 : at[i] \in Nat
  BY PlacesOf
<1>4. \A i \in 1..l + 1 : bt[i] = IF i <= k THEN at[i] ELSE at[i] + n
  OBVIOUS
<1>5. bt \in [1..l + 1 -> Nat]
  BY <1>3
<1> HIDE DEF bt
<1>k. k \in Nat
  OBVIOUS
<1>6. ASSUME NEW i \in 1..l + 1, NEW j \in 1..l + 1, i <= j PROVE bt[i] <= bt[j]
  <2>1. at[i] \in Nat /\ at[j] \in Nat /\ at[i] <= at[j]
    BY <1>6, PlacesOf
  <2> QED
    BY <1>1, <1>4, <1>6, <2>1
<1>7. bt \in Places(l)
  BY <1>5, <1>6 DEF Places
<1>8. bt[1] = from /\ bt[l + 1] = to + n
  <2>1. 1 \in 1..l + 1 /\ l + 1 \in 1..l + 1 /\ 1 <= k /\ ~(l + 1 <= k)
    BY <1>1, <1>k
  <2> QED
    BY <1>2, <1>4, <2>1
<1>9. ASSUME NEW i \in 1..l PROVE MsgFits(r[i], bt[i], bt[i + 1])
  <2>1. q[i] \in Msg /\ i \in 1..l + 1 /\ i + 1 \in 1..l + 1 /\ MsgFits(q[i], at[i], at[i + 1])
    BY <1>1, <1>2
  <2>2. CASE i < k
    <3>1. r[i] = q[i]
      <4>1. i # k /\ i \in 1..Len(q)
        BY <1>1, <1>k, <2>2
      <4> QED
        BY <4>1
    <3>2. i <= k /\ i + 1 <= k
      BY <1>k, <2>2
    <3>3. bt[i] = at[i] /\ bt[i + 1] = at[i + 1]
      BY <1>4, <2>1, <3>2
    <3> QED
      BY <2>1, <3>1, <3>3
  <2>3. CASE i = k
    <3>1. r[i] = [q[i] EXCEPT !.skip = @ + n] /\ bt[i] = at[i] /\ bt[i + 1] = at[i + 1] + n
      BY <1>1, <1>4, <2>1, <2>3
    <3>2. /\ r[i].self = q[i].self /\ r[i].len = q[i].len /\ r[i].end = q[i].end
          /\ r[i].skip = q[i].skip + n
      BY <2>1, <3>1 DEF Msg
    <3>3. q[i].end \in Nat /\ q[i].skip \in Nat /\ q[i].len \in Nat /\ q[i].self
      BY <2>1, <2>3, MsgTyped
    <3>4. q[i].len > 0 /\ q[i].end = at[i] + q[i].len /\ at[i + 1] = q[i].end + q[i].skip
      BY <2>1, <3>3 DEF MsgFits
    <3>5. at[i + 1] + n = q[i].end + (q[i].skip + n)
      BY <3>3, <3>4
    <3> QED
      BY <3>1, <3>2, <3>3, <3>4, <3>5 DEF MsgFits
  <2>4. CASE i > k
    <3>1. r[i] = q[i] /\ ~q[i].self
      <4>1. i # k /\ i \in 1..Len(q) /\ i \in k + 1..Len(q)
        BY <1>1, <1>k, <2>4
      <4> QED
        BY <4>1
    <3>2. ~(i <= k) /\ ~(i + 1 <= k)
      BY <1>k, <2>4
    <3>3. bt[i] = at[i] + n /\ bt[i + 1] = at[i + 1] + n
      BY <1>4, <2>1, <3>2
    <3> QED
      BY <1>3, <2>1, <3>1, <3>3 DEF MsgFits
  <2> QED
    BY <1>1, <2>2, <2>3, <2>4
<1> QED
  BY <1>1, <1>7, <1>8, <1>9 DEF MsgsLie

(* The first n units of the first message have been read. *)
ReadOff(q, n) == [q EXCEPT ![1].len = @ - n]
LEMMA MsgsRead ==
  ASSUME NEW q \in Seq(Msg), q # <<>>, NEW from \in Nat, NEW to \in Nat, MsgsLie(q, from, to),
         NEW n \in Nat, n < Head(q).len
  PROVE  /\ MsgsLie(ReadOff(q, n), from + (IF Head(q).self THEN n ELSE 0), to)
         /\ ReadOff(q, n) \in Seq(Msg) /\ Len(ReadOff(q, n)) = Len(q)
         /\ \A i \in 1..Len(q) :
              ReadOff(q, n)[i].self = q[i].self /\ ReadOff(q, n)[i].end = q[i].end
<1> DEFINE r == ReadOff(q, n)
<1>1. PICK mid \in Nat :
        from <= mid /\ MsgFits(Head(q), from, mid) /\ MsgsLie(Tail(q), mid, to)
  BY MsgsTail
<1>2. Head(q) = q[1] /\ q[1] \in Msg /\ 1 \in 1..Len(q)
  OBVIOUS
<1>3. /\ q[1].end \in Nat /\ q[1].len \in Nat /\ q[1].skip \in Nat /\ q[1].len \in Seqs
      /\ q[1].len - n \in Nat /\ q[1].len - n > 0
  <2>1. q[1].end \in Nat /\ q[1].len \in Nat /\ q[1].skip \in Nat /\ q[1].len \in Seqs
    BY <1>2, MsgTyped
  <2> QED
    BY <1>2, <2>1
<1>4. q[1].len - n \in Seqs
  BY <1>3, SockmapAssumption DEF Seqs
<1>5. [q[1] EXCEPT !.len = @ - n] \in Msg
  BY <1>2, <1>4 DEF Msg
<1>6. /\ r \in Seq(Msg) /\ r # <<>> /\ Tail(r) = Tail(q)
      /\ Head(r) = [q[1] EXCEPT !.len = @ - n] /\ Len(r) = Len(q)
      /\ \A i \in 1..Len(q) : r[i].self = q[i].self /\ r[i].end = q[i].end
  <2>1. /\ r = [i \in 1..Len(q) |-> IF i = 1 THEN [q[1] EXCEPT !.len = @ - n] ELSE q[i]]
        /\ Len(q) \in Nat
    BY DEF ReadOff
  <2> HIDE DEF r
  <2>2. Len(r) = Len(q) /\ \A i \in 1..Len(q) : r[i] \in Msg
    BY <1>5, <2>1
  <2>3. r \in Seq(Msg)
    BY <1>5, <2>1
  <2>4. r # <<>> /\ Head(r) = [q[1] EXCEPT !.len = @ - n]
    BY <1>2, <2>1, <2>2, <2>3
  <2>5. Tail(r) = Tail(q)
    BY <2>1, <2>2, <2>3
  <2>6. [q[1] EXCEPT !.len = @ - n].self = q[1].self /\ [q[1] EXCEPT !.len = @ - n].end = q[1].end
    BY <1>2 DEF Msg
  <2>7. \A i \in 1..Len(q) : r[i].self = q[i].self /\ r[i].end = q[i].end
    BY <2>1, <2>6
  <2> QED
    BY <2>2, <2>3, <2>4, <2>5, <2>7
<1> HIDE DEF r
<1>7. Head(r).self = Head(q).self /\ Head(r).len = q[1].len - n
      /\ Head(r).end = q[1].end /\ Head(r).skip = q[1].skip
  BY <1>2, <1>6 DEF Msg
<1>9. PICK p \in Nat : p = from + (IF Head(q).self THEN n ELSE 0)
  OBVIOUS
<1>10. p <= mid /\ MsgFits(Head(r), p, mid)
  <2>1. CASE Head(q).self
    <3>1. p = from + n /\ q[1].end = from + q[1].len /\ mid = q[1].end + q[1].skip
      BY <1>1, <1>2, <1>9, <2>1 DEF MsgFits
    <3>2. q[1].end = p + (q[1].len - n)
      BY <1>3, <3>1
    <3>3. p <= q[1].end /\ q[1].end <= mid
      <4>1. n <= q[1].len
        BY <1>2, <1>3
      <4>2. q[1].end <= q[1].end + q[1].skip
        BY <1>3
      <4>3. from + n <= from + q[1].len
        BY <1>3, <4>1
      <4> QED
        BY <3>1, <4>2, <4>3
    <3>4. p <= mid
      BY <1>3, <3>3
    <3> QED
      BY <1>3, <1>7, <2>1, <3>1, <3>2, <3>4 DEF MsgFits
  <2>2. CASE ~Head(q).self
    BY <1>1, <1>3, <1>7, <1>9, <2>2 DEF MsgFits
  <2> QED
    BY <2>1, <2>2
<1>11. MsgsLie(r, p, to)
  BY <1>1, <1>6, <1>10, MsgsCons
<1> QED
  BY <1>6, <1>9, <1>11 DEF r

(* The sums that sk_psock_account_ingress_seq and the receive queue come to. *)
LEMMA MsgsSum ==
  ASSUME NEW q \in Seq(Msg), NEW from \in Nat, NEW to \in Nat, MsgsLie(q, from, to)
  PROVE  SumFunction([i \in DOMAIN q |-> IF q[i].self THEN q[i].len + q[i].skip ELSE 0])
           = to - from
<1> DEFINE f == [i \in DOMAIN q |-> IF q[i].self THEN q[i].len + q[i].skip ELSE 0]
<1>1. PICK n \in Nat : n = Len(q)
  OBVIOUS
<1>2. PICK at \in Places(n) :
        /\ at[1] = from /\ at[n + 1] = to
        /\ \A i \in 1..n : MsgFits(q[i], at[i], at[i + 1])
  BY <1>1 DEF MsgsLie
<1>3. /\ DOMAIN f = 1..n
      /\ \A i \in 1..n : f[i] = IF q[i].self THEN q[i].len + q[i].skip ELSE 0
  BY <1>1
<1> HIDE DEF f
<1>4. ASSUME NEW i \in 1..n PROVE f[i] \in Nat /\ at[i + 1] = at[i] + f[i]
  <2>1. q[i] \in Msg /\ i \in 1..n + 1 /\ i + 1 \in 1..n + 1
    BY <1>1
  <2>2. at[i] \in Nat /\ at[i + 1] \in Nat
    BY <2>1, PlacesOf
  <2>3. q[i].end \in Nat /\ q[i].len \in Nat /\ q[i].skip \in Nat
    BY <2>1, MsgTyped
  <2>4. CASE q[i].self
    <3>1. q[i].end = at[i] + q[i].len /\ at[i + 1] = q[i].end + q[i].skip
      BY <1>2, <2>4 DEF MsgFits
    <3>2. f[i] = q[i].len + q[i].skip /\ f[i] \in Nat
      BY <1>3, <2>3, <2>4
    <3>3. (at[i] + q[i].len) + q[i].skip = at[i] + (q[i].len + q[i].skip)
      BY <2>2, <2>3
    <3> QED
      BY <3>1, <3>2, <3>3
  <2>5. CASE ~q[i].self
    BY <1>2, <1>3, <2>2, <2>5 DEF MsgFits
  <2> QED
    BY <2>4, <2>5
<1>5. at \in [1..n + 1 -> Nat]
  BY DEF Places
<1>6. SumFunction(f) = at[n + 1] - at[1]
  BY <1>3, <1>4, <1>5, SumTelescopes
<1> QED
  BY <1>2, <1>6 DEF f

LEMMA ReadableFits ==
  ASSUME copied \in Nat, NEW skb \in Skb, Ours(skb), NEW from \in Nat, NEW to \in Nat,
         SkbFits(skb, copied, from, to)
  PROVE  Readable(skb) = to - from /\ from < to
<1>1. skb.seq \in Nat /\ skb.end \in Nat
  BY SkbTyped
<1>2. Max({copied, skb.seq}) = IF copied > skb.seq THEN copied ELSE skb.seq
  BY <1>1, MaxOfTwo
<1> QED
  BY <1>1, <1>2 DEF Readable, SkbFits

LEMMA SkbsSum ==
  ASSUME copied \in Nat, NEW q \in Seq(Skb), NEW from \in Nat, NEW to \in Nat,
         SkbsLie(q, copied, from, to), NEW f, DOMAIN f = DOMAIN q,
         \A i \in DOMAIN q : f[i] = IF Ours(q[i]) THEN Readable(q[i]) ELSE 0
  PROVE  SumFunction(f) = to - from
<1>1. PICK n \in Nat : n = Len(q)
  OBVIOUS
<1>2. PICK at \in Places(n) :
        /\ at[1] = from /\ at[n + 1] = to
        /\ \A i \in 1..n : SkbFits(q[i], copied, at[i], at[i + 1])
  BY <1>1 DEF SkbsLie
<1>3. DOMAIN f = 1..n /\ \A i \in 1..n : f[i] = IF Ours(q[i]) THEN Readable(q[i]) ELSE 0
  BY <1>1
<1>4. ASSUME NEW i \in 1..n PROVE f[i] \in Nat /\ at[i + 1] = at[i] + f[i]
  <2>1. /\ q[i] \in Skb /\ i \in 1..n + 1 /\ i + 1 \in 1..n + 1
        /\ SkbFits(q[i], copied, at[i], at[i + 1])
    BY <1>1, <1>2
  <2>2. at[i] \in Nat /\ at[i + 1] \in Nat
    BY <2>1, PlacesOf
  <2>3. CASE Ours(q[i])
    <3>1. Readable(q[i]) = at[i + 1] - at[i] /\ at[i] < at[i + 1]
      BY <2>1, <2>2, <2>3, ReadableFits
    <3>2. f[i] = Readable(q[i])
      BY <1>3, <2>3
    <3>3. f[i] = at[i + 1] - at[i]
      BY <3>1, <3>2
    <3> QED
      BY <2>2, <3>1, <3>3
  <2>4. CASE ~Ours(q[i])
    BY <1>3, <2>1, <2>2, <2>4 DEF SkbFits
  <2> QED
    BY <2>3, <2>4
<1>5. at \in [1..n + 1 -> Nat]
  BY DEF Places
<1>6. SumFunction(f) = at[n + 1] - at[1]
  BY <1>3, <1>4, <1>5, SumTelescopes
<1> QED
  BY <1>2, <1>6

-----------------------------------------------------------------------------
(* Ranges, published messages, ingress_seq_msg *)

LEMMA RangeIs ==
  ASSUME copied \in Nat, NEW skb \in Skb, skb.kind # "own"
  PROVE  IngressRange(skb) = RangeAt(copied, skb)
<1>1. skb.seq \in Nat /\ skb.end \in Nat
  BY SkbTyped
<1>2. Max({copied, skb.seq}) = IF copied > skb.seq THEN copied ELSE skb.seq
  BY <1>1, MaxOfTwo
<1>3. Trimmed(skb) <=> Ours(skb)
  BY DEF Trimmed, Ours
<1> QED
  BY <1>2, <1>3 DEF IngressRange, RangeAt, LengthAt, Readable

LEMMA RangeFits ==
  ASSUME NEW skb \in Skb, NEW c \in Nat, NEW from \in Nat, NEW to \in Nat,
         SkbFits(skb, c, from, to)
  PROVE  /\ RangeAt(c, skb) \in Extent /\ LengthAt(c, skb) \in Seqs
         /\ RangeAt(c, skb).len = LengthAt(c, skb) /\ LengthAt(c, skb) > 0
         /\ Ours(skb) => LengthAt(c, skb) = to - from
<1>1. /\ skb.seq \in Nat /\ skb.end \in Nat /\ MaxBytes \in Nat /\ Ours(skb) \in BOOLEAN
      /\ skb.end <= skb.seq + MaxBytes
  BY SkbTyped, SockmapAssumption DEF SkbFits
<1>2. skb.seq < skb.end
  BY DEF SkbFits
<1>3. CASE Ours(skb)
  <2>1. /\ from = (IF c > skb.seq THEN c ELSE skb.seq) /\ to = skb.end /\ c < skb.end
    BY <1>3 DEF SkbFits
  <2>2. LengthAt(c, skb) = skb.end - (IF c > skb.seq THEN c ELSE skb.seq)
    BY <1>1, <1>3, <2>1 DEF LengthAt
  <2> QED
    BY <1>1, <1>2, <2>1, <2>2 DEF RangeAt, Extent, Seqs
<1>4. CASE ~Ours(skb)
  <2>1. LengthAt(c, skb) = skb.end - skb.seq
    BY <1>4 DEF LengthAt
  <2> QED
    BY <1>1, <1>2, <1>4, <2>1 DEF RangeAt, Extent, Seqs
<1> QED
  BY <1>1, <1>3, <1>4

LEMMA RangeSame ==
  ASSUME NEW skb \in Skb, NEW c \in Nat, NEW d \in Nat, NEW from \in Nat, NEW to \in Nat,
         SkbFits(skb, c, from, to), ~Ours(skb) \/ SkbFits(skb, d, from, to)
  PROVE  RangeAt(c, skb) = RangeAt(d, skb)
<1>1. skb.seq \in Nat /\ skb.end \in Nat
  BY SkbTyped
<1>2. LengthAt(c, skb) = LengthAt(d, skb)
  <2>1. CASE ~Ours(skb)
    BY <2>1 DEF LengthAt
  <2>2. CASE Ours(skb)
    BY <1>1, <2>2 DEF LengthAt, SkbFits
  <2> QED
    BY <2>1, <2>2
<1> QED
  BY <1>2 DEF RangeAt

LEMMA LastSelfAppend ==
  ASSUME NEW q \in Seq(Msg), NEW last, LastSelf(q, last), NEW m \in Msg, m.end # None
  PROVE  LastSelf(Append(q, m), IF m.self THEN m.end ELSE last)
<1> DEFINE r == Append(q, m)
<1>1. PICK n \in Nat : n = Len(q)
  OBVIOUS
<1>2. Len(r) = n + 1 /\ r[n + 1] = m /\ \A i \in 1..n : r[i] = q[i]
  BY <1>1
<1> HIDE DEF r
<1>3. CASE m.self
  <2>1. n + 1 \in 1..Len(r) /\ (n + 1) + 1..Len(r) = {}
    BY <1>2
  <2> QED
    BY <1>2, <1>3, <2>1 DEF LastSelf, r
<1>4. CASE ~m.self /\ last = None
  <2>1. \A i \in 1..Len(r) : ~r[i].self
    BY <1>1, <1>2, <1>4 DEF LastSelf
  <2> QED
    BY <1>4, <2>1 DEF LastSelf, r
<1>5. CASE ~m.self /\ last # None
  <2>1. PICK i \in 1..n : q[i].self /\ q[i].end = last /\ \A j \in i + 1..n : ~q[j].self
    BY <1>1, <1>5 DEF LastSelf
  <2>2. i \in 1..Len(r) /\ r[i].self /\ r[i].end = last
    BY <1>2, <2>1
  <2>3. ASSUME NEW j \in i + 1..Len(r) PROVE ~r[j].self
    <3>1. j = n + 1 \/ (j \in 1..n /\ j \in i + 1..n)
      BY <1>2
    <3> QED
      BY <1>2, <1>5, <2>1, <3>1
  <2> QED
    BY <1>5, <2>2, <2>3 DEF LastSelf, r
<1> QED
  BY <1>3, <1>4, <1>5

LEMMA LastSelfSame ==
  ASSUME NEW q, NEW r, NEW last, LastSelf(q, last), Len(r) = Len(q),
         \A i \in 1..Len(q) : r[i].self = q[i].self /\ r[i].end = q[i].end,
         Len(q) \in Nat
  PROVE  LastSelf(r, last)
<1>1. CASE last = None
  BY <1>1 DEF LastSelf
<1>2. CASE last # None
  <2>1. PICK i \in 1..Len(q) :
          q[i].self /\ q[i].end = last /\ \A j \in i + 1..Len(q) : ~q[j].self
    BY <1>2 DEF LastSelf
  <2>2. \A j \in i + 1..Len(q) : j \in 1..Len(q)
    OBVIOUS
  <2>3. i \in 1..Len(r) /\ r[i].self /\ r[i].end = last /\ \A j \in i + 1..Len(r) : ~r[j].self
    BY <2>1, <2>2
  <2> QED
    BY <1>2, <2>3 DEF LastSelf
<1> QED
  BY <1>1, <1>2

(* Only the last of this socket's own messages ends at ingress_seq_msg. *)
LEMMA SeqMsgUnique ==
  ASSUME NEW q \in Seq(Msg), NEW from \in Nat, NEW to \in Nat, MsgsLie(q, from, to),
         NEW k \in 1..Len(q), q[k].self, \A j \in k + 1..Len(q) : ~q[j].self,
         NEW i \in 1..Len(q), q[i].self, q[i].end = q[k].end
  PROVE  i = k
<1>1. i \in Nat /\ k \in Nat
  OBVIOUS
<1>2. q[k].end \in Nat
  BY MsgTyped
<1>3. ~(i < k)
  <2> SUFFICES ASSUME i < k PROVE FALSE
    OBVIOUS
  <2>1. q[i].end < q[k].end
    BY EndsRise
  <2> QED
    BY <1>2, <2>1
<1>4. ~(i > k)
  <2> SUFFICES ASSUME i > k PROVE FALSE
    OBVIOUS
  <2>1. i \in k + 1..Len(q)
    BY <1>1
  <2> QED
    BY <2>1
<1> QED
  BY <1>1, <1>3, <1>4

LEMMA LastSelfTail ==
  ASSUME NEW q \in Seq(Msg), q # <<>>, NEW from \in Nat, NEW to \in Nat, MsgsLie(q, from, to),
         NEW last, LastSelf(q, last)
  PROVE  LastSelf(Tail(q), IF Head(q).self /\ Head(q).end = last THEN None ELSE last)
<1> DEFINE r == Tail(q)
<1>1. Len(q) \in Nat /\ Len(q) - 1 \in Nat
  OBVIOUS
<1>2. PICK n \in Nat : n = Len(q) - 1
  BY <1>1
<1>3. Len(q) = n + 1 /\ Len(r) = n /\ Head(q) = q[1] /\ \A i \in 1..n : r[i] = q[i + 1]
  BY <1>2
<1> HIDE DEF r
<1>4. CASE last = None
  <2>1. \A i \in 1..n : ~r[i].self
    BY <1>3, <1>4 DEF LastSelf
  <2> QED
    BY <1>3, <1>4, <2>1 DEF LastSelf, r
<1>5. CASE last # None
  <2>1. PICK k \in 1..n + 1 :
          q[k].self /\ q[k].end = last /\ \A j \in k + 1..n + 1 : ~q[j].self
    BY <1>3, <1>5 DEF LastSelf
  <2>2. CASE k = 1
    <3>1. \A i \in 1..n : i + 1 \in k + 1..n + 1
      BY <2>2
    <3>2. \A i \in 1..n : ~r[i].self
      BY <1>3, <2>1, <3>1
    <3> QED
      BY <1>3, <2>1, <2>2, <3>2 DEF LastSelf, r
  <2>3. CASE k # 1
    <3>1. PICK i \in 1..n : k = i + 1
      BY <2>3
    <3>2. ~(Head(q).self /\ Head(q).end = last)
      <4> SUFFICES ASSUME Head(q).self, Head(q).end = last PROVE FALSE
        OBVIOUS
      <4>1. 1 \in 1..Len(q) /\ k \in 1..Len(q) /\ q[1].self /\ q[1].end = q[k].end
        BY <1>3, <2>1
      <4>2. \A j \in k + 1..Len(q) : ~q[j].self
        BY <1>3, <2>1
      <4> QED
        BY <2>1, <2>3, <4>1, <4>2, SeqMsgUnique
    <3>3. r[i].self /\ r[i].end = last
      BY <1>3, <2>1, <3>1
    <3>4. ASSUME NEW j \in i + 1..n PROVE ~r[j].self
      <4>1. j \in 1..n /\ j + 1 \in k + 1..n + 1
        BY <3>1
      <4> QED
        BY <1>3, <2>1, <4>1
    <3> QED
      BY <1>3, <1>5, <3>2, <3>3, <3>4 DEF LastSelf, r
  <2> QED
    BY <2>2, <2>3
<1> QED
  BY <1>4, <1>5

(* What sk_psock_queue_msg appends fits where the skb was. *)
LEMMA Published ==
  ASSUME NEW q \in Seq(Msg), NEW counted \in Nat, NEW from \in Nat, NEW to \in Nat,
         MsgsLie(q, counted, from), NEW last, LastSelf(q, last),
         NEW skb \in Skb, NEW c \in Nat, SkbFits(skb, c, from, to),
         NEW m, m = [self |-> Ours(skb), end |-> skb.end, len |-> RangeAt(c, skb).len, skip |-> 0]
  PROVE  /\ Append(q, m) \in Seq(Msg) /\ MsgsLie(Append(q, m), counted, to)
         /\ LastSelf(Append(q, m), IF Ours(skb) THEN skb.end ELSE last)
<1>1. /\ RangeAt(c, skb).len \in Seqs /\ RangeAt(c, skb).len > 0
      /\ Ours(skb) => RangeAt(c, skb).len = to - from
  BY RangeFits
<1>2. Ours(skb) \in BOOLEAN /\ skb.end \in Nat
  BY SkbTyped
<1>3. 0 \in Seqs
  BY SockmapAssumption DEF Seqs
<1>4. m \in Msg
  BY <1>1, <1>2, <1>3 DEF Msg
<1>5. m.self = Ours(skb) /\ m.end = skb.end /\ m.len = RangeAt(c, skb).len /\ m.skip = 0
  OBVIOUS
<1>6. MsgFits(m, from, to) /\ from <= to
  <2>1. CASE Ours(skb)
    <3>1. to = skb.end
      BY <2>1 DEF SkbFits
    <3>2. from <= to
      BY <2>1 DEF SkbFits, Skb, Seqs
    <3> QED
      BY <1>1, <1>2, <1>5, <2>1, <3>1, <3>2 DEF MsgFits
  <2>2. CASE ~Ours(skb)
    BY <1>1, <1>5, <2>2 DEF MsgFits, SkbFits
  <2> QED
    BY <2>1, <2>2
<1>7. m.end # None
  BY <1>2, <1>5, SockmapAssumption
<1>8. LastSelf(Append(q, m), IF m.self THEN m.end ELSE last)
  BY <1>4, <1>7, LastSelfAppend
<1>9. Append(q, m) \in Seq(Msg)
  BY <1>4
<1> QED
  BY <1>4, <1>5, <1>6, <1>8, <1>9, MsgsAppend

-----------------------------------------------------------------------------
(* What the invariant says of the heads *)

(* Everything ends at rcv_nxt. *)
LEMMA Bounds ==
  ASSUME IInv, NEW m \in Nat, NEW s \in Nat, Lies(m, s)
  PROVE  /\ copied \in Nat /\ Counted \in Nat /\ rcvNxt \in Nat /\ rcvNxt \in Seqs
         /\ copied <= Counted /\ Counted <= m /\ m <= s /\ s <= rcvNxt
         /\ \A p \in Nat : p <= rcvNxt => p \in Seqs
<1>1. /\ copied \in Nat /\ rcvNxt \in Nat /\ rcvNxt \in Seqs /\ Counted \in Nat
      /\ reader \in Nat \cup {None}
      /\ msgs \in Seq(Msg) /\ skbs \in Seq(Skb) /\ queue \in Seq(Skb)
  BY SockmapAssumption DEF IInv, TypeOK, Seqs, Counted
<1>2. MsgsLie(msgs, Counted, m) /\ SkbsLie(skbs, copied, m, s) /\ SkbsLie(queue, copied, s, rcvNxt)
  BY DEF Lies
<1>3. Counted <= m
  BY <1>1, <1>2, MsgsOrdered
<1>4. m <= s
  BY <1>1, <1>2, SkbsOrdered
<1>5. s <= rcvNxt
  BY <1>1, <1>2, SkbsOrdered
<1>6. copied <= Counted
  BY DEF IInv, Tiled
<1>7. \A p \in Nat : p <= rcvNxt => p \in Seqs
  BY <1>1, SockmapAssumption DEF Seqs
<1> QED
  BY <1>1, <1>3, <1>4, <1>5, <1>6, <1>7

LEMMA QueueHead ==
  ASSUME IInv, NEW m \in Nat, NEW s \in Nat, Lies(m, s), queue # <<>>
  PROVE  /\ Head(queue) \in Skb /\ Ours(Head(queue)) /\ Tail(queue) \in Seq(Skb)
         /\ \A i \in 1..Len(Tail(queue)) : Ours(Tail(queue)[i])
         /\ \E mid \in Nat :
              /\ s < mid /\ mid <= rcvNxt /\ Head(queue).end = mid
              /\ Readable(Head(queue)) = mid - s
              /\ SkbFits(Head(queue), copied, s, mid)
              /\ SkbsLie(Tail(queue), copied, mid, rcvNxt)
<1>1. copied \in Nat /\ rcvNxt \in Nat
  BY Bounds
<1>2. queue \in Seq(Skb) /\ \A i \in 1..Len(queue) : Ours(queue[i])
  BY DEF IInv, TypeOK, Tiled
<1>3. Head(queue) \in Skb /\ Ours(Head(queue)) /\ Tail(queue) \in Seq(Skb)
  <2>1. Head(queue) = queue[1] /\ 1 \in 1..Len(queue)
    BY <1>2
  <2> QED
    BY <1>2, <2>1
<1>4. \A i \in 1..Len(Tail(queue)) : Ours(Tail(queue)[i])
  <2> SUFFICES ASSUME NEW i \in 1..Len(Tail(queue)) PROVE Ours(Tail(queue)[i])
    OBVIOUS
  <2>1. Tail(queue)[i] = queue[i + 1] /\ i + 1 \in 1..Len(queue)
    BY <1>2
  <2> QED
    BY <1>2, <2>1
<1>5. SkbsLie(queue, copied, s, rcvNxt)
  BY DEF Lies
<1>6. PICK mid \in Nat :
        /\ s <= mid /\ SkbFits(Head(queue), copied, s, mid)
        /\ SkbsLie(Tail(queue), copied, mid, rcvNxt)
  BY <1>1, <1>2, <1>5, SkbsTail
<1>7. mid <= rcvNxt
  BY <1>1, <1>3, <1>6, SkbsOrdered
<1>8. Readable(Head(queue)) = mid - s /\ s < mid
  BY <1>1, <1>3, <1>6, ReadableFits
<1>9. Head(queue).end = mid
  BY <1>3, <1>6 DEF SkbFits
<1> QED
  BY <1>3, <1>4, <1>6, <1>7, <1>8, <1>9

LEMMA SkbsHead ==
  ASSUME IInv, NEW m \in Nat, NEW s \in Nat, Lies(m, s), skbs # <<>>
  PROVE  /\ Head(skbs) \in Skb /\ Tail(skbs) \in Seq(Skb)
         /\ \E mid \in Nat :
              /\ m <= mid /\ mid <= s
              /\ SkbFits(Head(skbs), copied, m, mid)
              /\ SkbsLie(Tail(skbs), copied, mid, s)
<1>1. copied \in Nat
  BY Bounds
<1>2. skbs \in Seq(Skb)
  BY DEF IInv, TypeOK
<1>3. Head(skbs) \in Skb /\ Tail(skbs) \in Seq(Skb)
  <2>1. Head(skbs) = skbs[1] /\ 1 \in 1..Len(skbs)
    BY <1>2
  <2> QED
    BY <1>2, <2>1
<1>5. SkbsLie(skbs, copied, m, s)
  BY DEF Lies
<1>6. PICK mid \in Nat :
        /\ m <= mid /\ SkbFits(Head(skbs), copied, m, mid)
        /\ SkbsLie(Tail(skbs), copied, mid, s)
  BY <1>1, <1>2, <1>5, SkbsTail
<1>7. mid <= s
  BY <1>1, <1>3, <1>6, SkbsOrdered
<1> QED
  BY <1>3, <1>6, <1>7

(* The head of a list that has one stays the head if more is appended. *)
LEMMA HeadAppend ==
  ASSUME NEW S, NEW q \in Seq(S), NEW x \in S
  PROVE  Append(q, x) # <<>> /\ (q # <<>> => Head(Append(q, x)) = Head(q))
<1>1. Len(Append(q, x)) = Len(q) + 1 /\ Len(q) \in Nat
  OBVIOUS
<1>2. Append(q, x) # <<>>
  BY <1>1
<1>3. ASSUME q # <<>> PROVE Head(Append(q, x)) = Head(q)
  <2>1. 1 \in 1..Len(q)
    BY <1>3
  <2> QED
    BY <2>1
<1> QED
  BY <1>2, <1>3

LEMMA MarkedAppend ==
  ASSUME NEW q \in Seq(Skb), \A i \in 1..Len(q) : q[i].kind # "own",
         NEW x \in Skb, x.kind # "own"
  PROVE  \A i \in 1..Len(Append(q, x)) : Append(q, x)[i].kind # "own"
<1> DEFINE r == Append(q, x)
<1>1. Len(r) = Len(q) + 1 /\ r[Len(q) + 1] = x /\ \A i \in 1..Len(q) : r[i] = q[i]
  OBVIOUS
<1>2. \A i \in 1..Len(q) + 1 : i = Len(q) + 1 \/ i \in 1..Len(q)
  OBVIOUS
<1> HIDE DEF r
<1>3. \A i \in 1..Len(r) : r[i].kind # "own"
  BY <1>1, <1>2
<1> QED
  BY <1>3 DEF r

LEMMA MarkedTail ==
  ASSUME NEW q \in Seq(Skb), q # <<>>, \A i \in 1..Len(q) : q[i].kind # "own"
  PROVE  Head(q).kind # "own" /\ \A i \in 1..Len(Tail(q)) : Tail(q)[i].kind # "own"
<1>1. Head(q) = q[1] /\ 1 \in 1..Len(q)
  OBVIOUS
<1>2. \A i \in 1..Len(Tail(q)) : i + 1 \in 1..Len(q) /\ Tail(q)[i] = q[i + 1]
  OBVIOUS
<1> QED
  BY <1>1, <1>2

(* A reader during which a verdict runs has counted nothing yet. *)
LEMMA CountedAtVerdict ==
  ASSUME IInv, Verdict
  PROVE  psock /\ Counted = copied /\ queue # <<>> /\ (waiting => reader # None)
<1>1. copied \in Nat
  BY SockmapAssumption DEF IInv, TypeOK, Seqs
<1> QED
  BY <1>1, SockmapAssumption DEF IInv, Referenced, Verdict, Counted

-----------------------------------------------------------------------------
(* The steps *)

LEMMA InitIInv == ASSUME Init PROVE IInv
<1>1. TypeOK
  <2>1. 0 \in Seqs /\ 0 \in Nat /\ 0 \in 0..MaxRedirects /\ 0 \in 0..MaxAttaches
    BY SockmapAssumption DEF Seqs
  <2>2. <<>> \in Seq(Skb) /\ <<>> \in Seq(Msg)
    OBVIOUS
  <2> QED
    BY <2>1, <2>2 DEF Init, TypeOK
<1>2. Tiled
  <2>1. Counted = 0
    BY DEF Init, Counted
  <2>2. MsgsLie(<<>>, 0, 0) /\ SkbsLie(<<>>, 0, 0, 0)
    BY NothingLies
  <2>3. Lies(0, 0)
    BY <2>1, <2>2 DEF Init, Lies
  <2> QED
    BY <2>1, <2>3 DEF Init, Tiled
<1> QED
  BY <1>1, <1>2 DEF Init, IInv, LastSelf, Computed, Detached, Marked, Referenced

LEMMA ArriveStep == ASSUME IInv, NEW n \in Sizes, Arrive(n) PROVE IInv'
<1> USE DEF Arrive
<1> DEFINE skb == [kind |-> "own", seq |-> rcvNxt, end |-> rcvNxt + n]
<1>1. PICK m \in Nat, s \in Nat : Lies(m, s)
  BY DEF IInv, Tiled
<1>2. /\ copied \in Nat /\ rcvNxt \in Nat /\ copied <= rcvNxt /\ n \in Nat /\ n > 0
      /\ rcvNxt \in Seqs /\ rcvNxt + n \in Seqs /\ rcvNxt + n \in Nat
  <2>1. /\ copied \in Nat /\ rcvNxt \in Nat /\ rcvNxt \in Seqs /\ Counted \in Nat
        /\ copied <= Counted /\ Counted <= m /\ m <= s /\ s <= rcvNxt
    BY <1>1, Bounds
  <2>2. n \in Nat /\ n > 0 /\ rcvNxt + n <= MaxBytes /\ MaxBytes \in Nat
    BY SockmapAssumption
  <2> QED
    BY <2>1, <2>2 DEF Seqs
<1>3. skb \in Skb /\ Ours(skb) /\ SkbFits(skb, copied, rcvNxt, rcvNxt + n)
  <2>1. skb \in Skb /\ Ours(skb)
    BY <1>2 DEF Skb, Kinds, Ours
  <2>2. n <= MaxBytes /\ MaxBytes \in Nat
    BY SockmapAssumption
  <2> QED
    BY <1>2, <2>1, <2>2 DEF SkbFits
<1>4. queue \in Seq(Skb) /\ \A i \in 1..Len(queue) : Ours(queue[i])
  BY DEF IInv, TypeOK, Tiled
<1>5. SkbsLie(Append(queue, skb), copied, s, rcvNxt + n)
  <2>1. SkbsLie(queue, copied, s, rcvNxt) /\ rcvNxt <= rcvNxt + n
    BY <1>1, <1>2 DEF Lies
  <2> QED
    BY <1>2, <1>3, <1>4, <2>1, SkbsAppend
<1>6. /\ Append(queue, skb) \in Seq(Skb)
      /\ \A i \in 1..Len(Append(queue, skb)) : Ours(Append(queue, skb)[i])
  BY <1>3, <1>4
<1> HIDE DEF skb
<1>7. queue' = Append(queue, skb) /\ rcvNxt' = rcvNxt + n
  BY DEF skb
<1>8. UNCHANGED <<copied, psock, alive, tx, skbs, msgs, seqMsg, work, resume, reader,
                  waiting, delivered, redirects, attaches>>
  BY DEF state, ingress, worker, recv, bounds
<1>9. TypeOK'
  BY <1>2, <1>6, <1>7, <1>8 DEF IInv, TypeOK
<1>10. Lies(m, s)'
  BY <1>1, <1>5, <1>7, <1>8 DEF Lies, Counted
<1>11. Tiled'
  BY <1>6, <1>7, <1>8, <1>10 DEF IInv, Tiled, Counted
<1> QED
  BY <1>8, <1>9, <1>11 DEF IInv, Computed, Detached, Marked, Referenced

LEMMA RedirectInStep == ASSUME IInv, NEW n \in Sizes, RedirectIn(n) PROVE IInv'
<1> USE DEF RedirectIn
<1> DEFINE seq == MaxBytes + MaxBytes * redirects
<1>0. PICK kind \in {"other", "out"} :
        skbs' = Append(skbs, [kind |-> kind, seq |-> seq, end |-> seq + n])
  OBVIOUS
<1> DEFINE skb == [kind |-> kind, seq |-> seq, end |-> seq + n]
<1>1. PICK m \in Nat, s \in Nat : Lies(m, s)
  BY DEF IInv, Tiled
<1>2. copied \in Nat
  BY <1>1, Bounds
<1>3. skb \in Skb /\ skb.kind # "own" /\ SkbFits(skb, copied, s, s)
  <2>1. n \in Nat /\ n > 0 /\ n <= MaxBytes /\ MaxBytes \in Nat /\ redirects \in Nat
    BY SockmapAssumption DEF IInv, TypeOK
  <2>2. seq \in Nat
    BY <2>1
  <2> HIDE DEF seq
  <2>3. seq + n \in Nat /\ seq < seq + n /\ seq + n <= seq + MaxBytes
    BY <2>1, <2>2
  <2>4. skb \in Skb /\ skb.kind # "own" /\ ~Ours(skb)
    BY <2>2, <2>3 DEF Skb, Kinds, Ours
  <2> QED
    BY <2>3, <2>4 DEF SkbFits
<1>4. skbs \in Seq(Skb) /\ \A i \in 1..Len(skbs) : skbs[i].kind # "own"
  BY DEF IInv, TypeOK, Marked
<1>5. SkbsLie(Append(skbs, skb), copied, m, s)
  <2>1. SkbsLie(skbs, copied, m, s)
    BY <1>1 DEF Lies
  <2> QED
    BY <1>2, <1>3, <1>4, <2>1, SkbsAppend
<1>6. /\ Append(skbs, skb) \in Seq(Skb) /\ Append(skbs, skb) # <<>>
      /\ skbs # <<>> => Head(Append(skbs, skb)) = Head(skbs)
  BY <1>3, <1>4, HeadAppend
<1>m. \A i \in 1..Len(Append(skbs, skb)) : Append(skbs, skb)[i].kind # "own"
  BY <1>3, <1>4, MarkedAppend
<1> HIDE DEF skb
<1>7. skbs' = Append(skbs, skb) /\ redirects' = redirects + 1 /\ psock
  BY <1>0 DEF skb
<1>8. UNCHANGED <<rcvNxt, copied, queue, psock, alive, tx, msgs, seqMsg, work, resume,
                  reader, waiting, delivered, attaches>>
  BY DEF sock, state, worker, recv
<1>9. redirects' \in 0..MaxRedirects
  BY <1>7, SockmapAssumption DEF IInv, TypeOK
<1>10. TypeOK'
  BY <1>6, <1>7, <1>8, <1>9 DEF IInv, TypeOK
<1>11. Tiled'
  <2>1. Lies(m, s)'
    BY <1>1, <1>5, <1>7, <1>8 DEF Lies, Counted
  <2> QED
    BY <1>8, <2>1 DEF IInv, Tiled, Counted
<1>12. Computed(work)' /\ Computed(resume)'
  BY <1>6, <1>7, <1>8 DEF IInv, Computed
<1> QED
  BY <1>7, <1>8, <1>m, <1>10, <1>11, <1>12 DEF IInv, Detached, Marked, Referenced

LEMMA PassDirectStep == ASSUME IInv, Gaps = {}, PassDirect PROVE IInv'
<1> USE DEF PassDirect, Verdict, Taken
<1> DEFINE skb == Passed(Head(queue))
           msg == [self |-> Ours(skb), end |-> skb.end, len |-> IngressRange(skb).len, skip |-> 0]
<1>1. PICK m \in Nat, s \in Nat : Lies(m, s)
  BY DEF IInv, Tiled
<1>2. copied \in Nat /\ Counted \in Nat /\ rcvNxt \in Nat
  BY <1>1, Bounds
<1>3. /\ Head(queue) \in Skb /\ Ours(Head(queue)) /\ Tail(queue) \in Seq(Skb)
      /\ \A i \in 1..Len(Tail(queue)) : Ours(Tail(queue)[i])
  BY <1>1, QueueHead
<1>4. PICK mid \in Nat :
        SkbFits(Head(queue), copied, s, mid) /\ SkbsLie(Tail(queue), copied, mid, rcvNxt)
  BY <1>1, QueueHead
<1>p. skb \in Skb /\ Ours(skb) /\ skb.kind = "passed" /\ SkbFits(skb, copied, s, mid)
  BY <1>3, <1>4, PassedFits
<1> HIDE DEF skb
<1>5. m = s
  BY <1>1, <1>2, EmptyLies DEF Lies
<1>6. IngressRange(skb) = RangeAt(copied, skb)
  BY <1>2, <1>p, RangeIs
<1>7. IngressRange(skb).len > 0
  BY <1>2, <1>p, <1>6, RangeFits
<1>8. /\ Append(msgs, msg) \in Seq(Msg) /\ MsgsLie(Append(msgs, msg), Counted, mid)
      /\ LastSelf(Append(msgs, msg), skb.end)
  <2>1. msgs \in Seq(Msg) /\ MsgsLie(msgs, Counted, s) /\ LastSelf(msgs, seqMsg)
    BY <1>1, <1>5 DEF IInv, TypeOK, Lies
  <2>2. msg = [self |-> Ours(skb), end |-> skb.end, len |-> RangeAt(copied, skb).len, skip |-> 0]
    BY <1>6
  <2> HIDE DEF msg
  <2> QED
    BY <1>2, <1>p, <2>1, <2>2, Published
<1>9. msgs' = Append(msgs, msg) /\ seqMsg' = skb.end /\ queue' = Tail(queue)
  BY <1>p, <1>7 DEF QueueMsg, skb
<1>10. psock /\ skbs = <<>>
       /\ UNCHANGED <<rcvNxt, copied, psock, alive, tx, skbs, work, resume, reader, waiting,
                      delivered, redirects, attaches>>
  BY DEF state, worker, recv, bounds
<1>11. skb.end \in Nat
  BY <1>p, SkbTyped
<1> HIDE DEF msg
<1>12. TypeOK'
  BY <1>3, <1>8, <1>9, <1>10, <1>11 DEF IInv, TypeOK
<1>13. Tiled'
  <2>1. SkbsLie(<<>>, copied, mid, mid)
    BY <1>2, NothingLies
  <2>2. Lies(mid, mid)'
    BY <1>4, <1>8, <1>9, <1>10, <2>1 DEF Lies, Counted
  <2> QED
    BY <1>3, <1>9, <1>10, <2>2 DEF IInv, Tiled, Counted
<1>14. Computed(work)' /\ Computed(resume)'
  BY <1>10 DEF IInv, Computed
<1> QED
  BY <1>8, <1>9, <1>10, <1>12, <1>13, <1>14 DEF IInv, Detached, Marked, Referenced

LEMMA PassQueuedStep == ASSUME IInv, PassQueued PROVE IInv'
<1> USE DEF PassQueued, Verdict, Taken
<1> DEFINE skb == Passed(Head(queue))
<1>1. PICK m \in Nat, s \in Nat : Lies(m, s)
  BY DEF IInv, Tiled
<1>2. copied \in Nat
  BY <1>1, Bounds
<1>3. /\ Head(queue) \in Skb /\ Ours(Head(queue)) /\ Tail(queue) \in Seq(Skb)
      /\ \A i \in 1..Len(Tail(queue)) : Ours(Tail(queue)[i])
  BY <1>1, QueueHead
<1>4. PICK mid \in Nat :
        /\ s <= mid /\ SkbFits(Head(queue), copied, s, mid)
        /\ SkbsLie(Tail(queue), copied, mid, rcvNxt)
  <2>1. \A p \in Nat : s < p => s <= p
    OBVIOUS
  <2> QED
    BY <1>1, <2>1, QueueHead
<1>p. skb \in Skb /\ skb.kind # "own" /\ SkbFits(skb, copied, s, mid)
  BY <1>3, <1>4, PassedFits
<1>5. /\ skbs \in Seq(Skb) /\ SkbsLie(skbs, copied, m, s)
      /\ \A i \in 1..Len(skbs) : skbs[i].kind # "own"
  BY <1>1 DEF IInv, TypeOK, Marked, Lies
<1>6. skbs' = Append(skbs, skb) /\ queue' = Tail(queue) /\ psock
  OBVIOUS
<1>7. UNCHANGED <<rcvNxt, copied, psock, alive, tx, msgs, seqMsg, work, resume, reader,
                  waiting, delivered, redirects, attaches>>
  BY DEF state, worker, recv, bounds
<1> HIDE DEF skb
<1>8. SkbsLie(Append(skbs, skb), copied, m, mid)
  BY <1>2, <1>4, <1>p, <1>5, SkbsAppend
<1>9. /\ Append(skbs, skb) \in Seq(Skb) /\ Append(skbs, skb) # <<>>
      /\ skbs # <<>> => Head(Append(skbs, skb)) = Head(skbs)
  BY <1>p, <1>5, HeadAppend
<1>m. \A i \in 1..Len(Append(skbs, skb)) : Append(skbs, skb)[i].kind # "own"
  BY <1>p, <1>5, MarkedAppend
<1>10. TypeOK'
  BY <1>3, <1>6, <1>7, <1>9 DEF IInv, TypeOK
<1>11. Tiled'
  <2>1. Lies(m, mid)'
    BY <1>1, <1>4, <1>6, <1>7, <1>8 DEF Lies, Counted
  <2> QED
    BY <1>3, <1>6, <1>7, <2>1 DEF IInv, Tiled, Counted
<1>12. Computed(work)' /\ Computed(resume)'
  BY <1>6, <1>7, <1>9 DEF IInv, Computed
<1> QED
  BY <1>6, <1>7, <1>m, <1>10, <1>11, <1>12 DEF IInv, Detached, Marked, Referenced

(* Nothing of this socket's own waits in ingress_skb, so skipped sequence  *)
(* comes right after what is in ingress_msg; others' skbs may be added.    *)
LEMMA EatStep ==
  ASSUME IInv, Gaps = {}, Verdict, Eatable, Eat(Head(queue)), Taken,
         UNCHANGED <<rcvNxt, psock, alive, tx, work, resume, reader, waiting, delivered,
                     redirects, attaches>>,
         skbs' \in Seq(Skb), \A i \in 1..Len(skbs') : skbs'[i].kind # "own",
         \A c, p \in Nat : SkbsLie(skbs', c, p, p),
         skbs # <<>> => skbs' # <<>> /\ Head(skbs') = Head(skbs)
  PROVE  IInv'
<1> USE DEF Taken
<1> DEFINE skb == Head(queue)
           n == Readable(skb)
<1>1. PICK m \in Nat, s \in Nat : Lies(m, s)
  BY DEF IInv, Tiled
<1>2. /\ copied \in Nat /\ Counted \in Nat /\ rcvNxt \in Nat /\ Counted <= m
      /\ \A p \in Nat : p <= rcvNxt => p \in Seqs
  BY <1>1, Bounds
<1>0. psock /\ Counted = copied /\ queue # <<>> /\ (waiting => reader # None)
  BY CountedAtVerdict
<1>3. /\ skb \in Skb /\ Ours(skb) /\ Tail(queue) \in Seq(Skb)
      /\ \A i \in 1..Len(Tail(queue)) : Ours(Tail(queue)[i])
  BY <1>0, <1>1, QueueHead
<1>4. PICK mid \in Nat :
        /\ s < mid /\ mid <= rcvNxt /\ skb.end = mid /\ n = mid - s
        /\ SkbsLie(Tail(queue), copied, mid, rcvNxt)
  BY <1>0, <1>1, QueueHead
<1>5. skbs \in Seq(Skb) /\ SkbsLie(skbs, copied, m, s) /\ \A i \in 1..Len(skbs) : ~Ours(skbs[i])
  <2>1. skbs \in Seq(Skb) /\ SkbsLie(skbs, copied, m, s) /\ DOMAIN skbs = 1..Len(skbs)
    BY <1>1 DEF IInv, TypeOK, Lies
  <2>2. \A i \in DOMAIN skbs : ~Trimmed(skbs[i]) /\ skbs[i].kind # "own"
    BY <2>1 DEF IInv, Marked, Eatable
  <2> QED
    BY <2>1, <2>2 DEF Trimmed, Ours
<1>6. m = s
  BY <1>2, <1>5, OthersSkbs
<1>7. msgs \in Seq(Msg) /\ MsgsLie(msgs, Counted, m) /\ LastSelf(msgs, seqMsg)
  BY <1>1 DEF IInv, TypeOK, Lies
<1>8. /\ psock /\ Counted = copied /\ queue' = Tail(queue)
      /\ UNCHANGED <<rcvNxt, psock, alive, tx, work, resume, reader, waiting, delivered,
                     redirects, attaches>>
  BY <1>0
<1>e. seqMsg # None \/ reader = None
  BY <1>4 DEF Eatable, Deferrable
<1>9. Eat(skb) /\ n > 0 /\ n \in Nat
  BY <1>4
<1>10. \A i \in 1..Len(queue') : Ours(queue'[i])
  BY <1>3, <1>8
<1> HIDE DEF skb, n
<1>11. CASE seqMsg # None
  <2>1. /\ msgs' = [i \in DOMAIN msgs |->
                      IF IsSeqMsg(msgs[i]) THEN [msgs[i] EXCEPT !.skip = @ + n] ELSE msgs[i]]
        /\ copied' = copied /\ seqMsg' = seqMsg
    BY <1>9, <1>11 DEF Eat, Deferrable, n
  <2>2. PICK k \in 1..Len(msgs) :
          msgs[k].self /\ msgs[k].end = seqMsg /\ \A j \in k + 1..Len(msgs) : ~msgs[j].self
    BY <1>7, <1>11 DEF LastSelf
  <2>3. \A i \in 1..Len(msgs) : IsSeqMsg(msgs[i]) <=> i = k
    <3> SUFFICES ASSUME NEW i \in 1..Len(msgs), IsSeqMsg(msgs[i]) PROVE i = k
      BY <2>2 DEF IsSeqMsg
    <3> QED
      BY <1>2, <1>7, <2>2, SeqMsgUnique DEF IsSeqMsg
  <2>4. DOMAIN msgs = 1..Len(msgs) /\ Len(msgs) \in Nat /\ \A i \in 1..Len(msgs) : msgs[i] \in Msg
    BY <1>7
  <2>5. /\ DOMAIN msgs' = DOMAIN msgs /\ msgs'[k] = [msgs[k] EXCEPT !.skip = @ + n]
        /\ \A i \in 1..Len(msgs) : i # k => msgs'[i] = msgs[i]
    BY <2>1, <2>3, <2>4
  <2>6. Len(msgs') = Len(msgs)
    BY <2>4, <2>5
  <2>7. m + n = mid
    BY <1>4, <1>6
  <2>8. MsgsLie(msgs', Counted, mid)
    <3>1. MsgsLie(msgs', Counted, m + n)
      BY <1>2, <1>7, <1>9, <2>2, <2>5, <2>6, MsgsDefer
    <3> QED
      BY <2>7, <3>1
  <2>9. [msgs[k] EXCEPT !.skip = @ + n] \in Msg
    <3>1. msgs[k].end + msgs[k].skip <= m
      BY <1>2, <1>7, <2>2, MsgsWithin
    <3>2. msgs[k].end \in Nat /\ msgs[k].skip \in Nat /\ msgs[k] \in Msg
      BY <2>4, MsgTyped
    <3>a. mid <= rcvNxt /\ rcvNxt \in Nat /\ n \in Nat
      BY <1>2, <1>4, <1>9
    <3>3. msgs[k].skip + n \in Nat /\ msgs[k].skip + n <= rcvNxt
      BY <2>7, <3>1, <3>2, <3>a
    <3>4. msgs[k].skip + n \in Seqs
      BY <1>2, <3>3
    <3> QED
      BY <3>2, <3>4 DEF Msg
  <2>10. msgs' \in Seq(Msg)
    <3>1. \A i \in 1..Len(msgs) : msgs'[i] \in Msg
      BY <2>4, <2>5, <2>9
    <3>2. msgs' = [i \in 1..Len(msgs) |-> msgs'[i]]
      BY <2>1, <2>4
    <3> QED
      BY <2>4, <3>1, <3>2
  <2>11. LastSelf(msgs', seqMsg)
    <3>1. \A i \in 1..Len(msgs) : msgs'[i].self = msgs[i].self /\ msgs'[i].end = msgs[i].end
      <4> SUFFICES ASSUME NEW i \in 1..Len(msgs)
                   PROVE  msgs'[i].self = msgs[i].self /\ msgs'[i].end = msgs[i].end
        OBVIOUS
      <4>1. CASE i = k
        BY <2>4, <2>5, <4>1 DEF Msg
      <4>2. CASE i # k
        BY <2>5, <4>2
      <4> QED
        BY <4>1, <4>2
    <3> QED
      BY <1>7, <2>4, <2>6, <3>1, LastSelfSame
  <2>12. TypeOK'
    BY <1>3, <1>8, <2>1, <2>10 DEF IInv, TypeOK
  <2>13. Tiled'
    <3>1. SkbsLie(skbs', copied, mid, mid)
      BY <1>2
    <3>2. Lies(mid, mid)'
      BY <1>4, <1>8, <2>1, <2>8, <3>1 DEF Lies, Counted
    <3> QED
      BY <1>8, <1>10, <2>1, <3>2 DEF IInv, Tiled, Counted
  <2>14. Computed(work)' /\ Computed(resume)'
    BY <1>8, <2>1 DEF IInv, Computed
  <2> QED
    BY <1>8, <2>1, <2>11, <2>12, <2>13, <2>14 DEF IInv, Detached, Marked, Referenced
<1>12. CASE seqMsg = None
  <2>1. \A i \in 1..Len(msgs) : ~msgs[i].self
    BY <1>7, <1>12 DEF LastSelf
  <2>2. copied = s
    BY <1>2, <1>6, <1>7, <1>8, <2>1, OthersMsgs
  <2>3. copied' = mid /\ UNCHANGED <<msgs, seqMsg>>
    <3>1. copied' = copied + (skb.end - copied) /\ UNCHANGED <<msgs, seqMsg>>
      BY <1>9, <1>12 DEF Eat, Deferrable, n
    <3> QED
      BY <1>2, <1>4, <3>1
  <2>4. mid \in Seqs
    BY <1>2, <1>4
  <2>5. TypeOK'
    BY <1>3, <1>8, <2>3, <2>4 DEF IInv, TypeOK
  <2>6. Tiled'
    <3>1. SkbsLie(skbs', mid, mid, mid)
      OBVIOUS
    <3>2. MsgsLie(msgs, mid, mid)
      BY <1>2, <1>7, <2>1, OthersAnywhere
    <3>3. SkbsLie(Tail(queue), mid, mid, rcvNxt)
      <4>1. copied <= mid /\ mid <= mid
        BY <1>4, <2>2
      <4> QED
        BY <1>2, <1>3, <1>4, <4>1, SkbsRaise
    <3>4. Lies(mid, mid)'
      BY <1>8, <1>12, <1>e, <2>3, <3>1, <3>2, <3>3 DEF Lies, Counted
    <3>5. delivered <= mid
      <4>1. delivered <= copied /\ delivered \in Nat
        BY <1>8 DEF IInv, Tiled, TypeOK, Seqs
      <4> QED
        BY <1>4, <2>2, <4>1
    <3> QED
      BY <1>8, <1>10, <1>12, <1>e, <2>3, <3>4, <3>5 DEF Tiled, Counted
  <2>7. \A range : Computed(range) /\ range # None =>
          psock' /\ skbs' # <<>> /\ range = RangeAt(copied', Head(skbs'))
    <3> SUFFICES ASSUME NEW range, Computed(range), range # None
                 PROVE  psock' /\ skbs' # <<>> /\ range = RangeAt(copied', Head(skbs'))
      OBVIOUS
    <3>1. psock /\ skbs # <<>> /\ range = RangeAt(copied, Head(skbs))
      BY DEF Computed
    <3>2. Head(skbs) \in Skb /\ ~Ours(Head(skbs))
      <4>1. Head(skbs) = skbs[1] /\ 1 \in 1..Len(skbs)
        BY <1>5, <3>1
      <4> QED
        BY <1>5, <4>1
    <3>3. PICK p \in Nat : SkbFits(Head(skbs), copied, m, p)
      BY <1>1, <3>1, SkbsHead
    <3>4. RangeAt(copied, Head(skbs)) = RangeAt(mid, Head(skbs))
      BY <1>2, <3>2, <3>3, RangeSame
    <3> QED
      BY <1>8, <2>3, <3>1, <3>4
  <2>8. Computed(work)' /\ Computed(resume)'
    <3>1. work' = work /\ resume' = resume
      BY <1>8
    <3> QED
      BY <2>7, <3>1 DEF IInv, Computed
  <2> QED
    BY <1>0, <1>7, <1>8, <1>12, <1>e, <2>3, <2>5, <2>6, <2>8 DEF IInv, Detached, Marked, Referenced
<1> QED
  BY <1>11, <1>12

LEMMA SkipStep == ASSUME IInv, Gaps = {}, Skip PROVE IInv'
<1> USE DEF Skip
<1>1. PICK m \in Nat, s \in Nat : Lies(m, s)
  BY DEF IInv, Tiled
<1>2. /\ skbs \in Seq(Skb) /\ SkbsLie(skbs, copied, m, s) /\ DOMAIN skbs = 1..Len(skbs)
      /\ copied \in Nat /\ \A i \in 1..Len(skbs) : skbs[i].kind # "own"
  BY <1>1, Bounds DEF IInv, TypeOK, Marked, Lies
<1>3. \A i \in 1..Len(skbs) : ~Ours(skbs[i])
  BY <1>2 DEF Eatable, Trimmed, Ours
<1>4. \A c, p \in Nat : SkbsLie(skbs, c, p, p)
  BY <1>2, <1>3, OthersAnywhere
<1>5. UNCHANGED <<rcvNxt, psock, alive, tx, skbs, work, resume, reader, waiting, delivered,
                  redirects, attaches>>
  BY DEF state, worker, recv, bounds
<1>6. Verdict /\ Eatable /\ Eat(Head(queue)) /\ Taken
  OBVIOUS
<1> HIDE DEF Skip
<1> QED
  BY <1>2, <1>4, <1>5, <1>6, EatStep

LEMMA RedirectSelfStep == ASSUME IInv, Gaps = {}, RedirectSelf PROVE IInv'
<1> USE DEF RedirectSelf
<1> DEFINE out == [Head(queue) EXCEPT !.kind = "out"]
<1>1. PICK m \in Nat, s \in Nat : Lies(m, s)
  BY DEF IInv, Tiled
<1>2. /\ skbs \in Seq(Skb) /\ SkbsLie(skbs, copied, m, s) /\ DOMAIN skbs = 1..Len(skbs)
      /\ copied \in Nat /\ \A i \in 1..Len(skbs) : skbs[i].kind # "own"
  BY <1>1, Bounds DEF IInv, TypeOK, Marked, Lies
<1>3. \A i \in 1..Len(skbs) : ~Ours(skbs[i])
  BY <1>2 DEF Eatable, Trimmed, Ours
<1>4. Head(queue) \in Skb /\ \E mid \in Nat : SkbFits(Head(queue), copied, s, mid)
  BY <1>1, CountedAtVerdict, QueueHead
<1>5. /\ UNCHANGED <<rcvNxt, psock, alive, tx, work, resume, reader, waiting, delivered,
                     redirects, attaches>>
      /\ skbs' = Append(skbs, out)
  BY DEF state, worker, recv, bounds
<1>6. Verdict /\ Eatable /\ Eat(Head(queue)) /\ Taken
  OBVIOUS
<1> HIDE DEF RedirectSelf
<1>7. out \in Skb /\ out.kind = "out"
  BY <1>4, SentFits
<1>8. ASSUME NEW c \in Nat, NEW p \in Nat PROVE SkbFits(out, c, p, p)
  <2>1. PICK mid \in Nat : SkbFits(Head(queue), copied, s, mid)
    BY <1>4
  <2>2. SkbFits(out, copied, p, p) /\ ~Ours(out)
    BY <1>4, <2>1, SentFits
  <2> QED
    BY <2>2 DEF SkbFits
<1> HIDE DEF out
<1>9. ASSUME NEW c \in Nat, NEW p \in Nat PROVE SkbsLie(skbs', c, p, p)
  <2>1. SkbsLie(skbs, c, p, p)
    BY <1>2, <1>3, OthersAnywhere
  <2>2. SkbFits(out, c, p, p) /\ p <= p
    BY <1>8
  <2> QED
    BY <1>2, <1>5, <1>7, <2>1, <2>2, SkbsAppend
<1>10. skbs' \in Seq(Skb) /\ (skbs # <<>> => skbs' # <<>> /\ Head(skbs') = Head(skbs))
  BY <1>2, <1>5, <1>7, HeadAppend
<1>11. \A i \in 1..Len(skbs') : skbs'[i].kind # "own"
  <2>1. \A i \in 1..Len(Append(skbs, out)) : Append(skbs, out)[i].kind # "own"
    BY <1>2, <1>7, MarkedAppend
  <2> QED
    BY <1>5, <2>1
<1> QED
  BY <1>5, <1>6, <1>9, <1>10, <1>11, EatStep

LEMMA WorkRangeStep == ASSUME IInv, WorkRange PROVE IInv'
<1> USE DEF WorkRange
<1>1. PICK m \in Nat, s \in Nat : Lies(m, s)
  BY DEF IInv, Tiled
<1>2. copied \in Nat
  BY <1>1, Bounds
<1>3. Head(skbs) \in Skb
  BY <1>1, SkbsHead
<1>4. PICK mid \in Nat : SkbFits(Head(skbs), copied, m, mid)
  BY <1>1, SkbsHead
<1>k. Head(skbs).kind # "own"
  BY MarkedTail DEF IInv, TypeOK, Marked
<1>5. /\ IngressRange(Head(skbs)) = RangeAt(copied, Head(skbs))
      /\ RangeAt(copied, Head(skbs)) \in Extent
  BY <1>2, <1>3, <1>4, <1>k, RangeIs, RangeFits
<1>6. UNCHANGED <<rcvNxt, copied, queue, psock, alive, tx, skbs, msgs, seqMsg, resume,
                  reader, waiting, delivered, redirects, attaches>>
  BY DEF sock, state, ingress, recv, bounds
<1>7. work' = RangeAt(copied, Head(skbs))
  BY <1>5 DEF IInv, Computed
<1>8. TypeOK'
  BY <1>5, <1>6, <1>7 DEF IInv, TypeOK
<1>9. Tiled'
  BY <1>6 DEF IInv, Tiled, Lies, Counted
<1>10. Computed(work)' /\ Computed(resume)'
  BY <1>6, <1>7 DEF IInv, Computed, Referenced
<1> QED
  BY <1>6, <1>8, <1>9, <1>10 DEF IInv, Detached, Marked, Referenced

LEMMA WorkPublishStep == ASSUME IInv, WorkPublish PROVE IInv'
<1> USE DEF WorkPublish
<1> DEFINE skb == Head(skbs)
           msg == [self |-> Ours(skb), end |-> skb.end, len |-> work.len, skip |-> 0]
<1>1. PICK m \in Nat, s \in Nat : Lies(m, s)
  BY DEF IInv, Tiled
<1>2. copied \in Nat /\ Counted \in Nat
  BY <1>1, Bounds
<1>3. psock /\ tx /\ skbs # <<>> /\ work = RangeAt(copied, skb)
  BY DEF IInv, Computed, Referenced
<1>4. skb \in Skb /\ Tail(skbs) \in Seq(Skb)
  BY <1>1, <1>3, SkbsHead
<1>5. PICK mid \in Nat : SkbFits(skb, copied, m, mid) /\ SkbsLie(Tail(skbs), copied, mid, s)
  BY <1>1, <1>3, SkbsHead
<1>6. work.len > 0
  BY <1>2, <1>3, <1>4, <1>5, RangeFits
<1>7. resume' = None /\ work' = None /\ skbs' = Tail(skbs)
  BY <1>6
<1>8. UNCHANGED <<rcvNxt, copied, queue, psock, alive, tx, reader, waiting, delivered,
                  redirects, attaches>>
  BY DEF sock, state, recv, bounds
<1>9. msgs \in Seq(Msg) /\ MsgsLie(msgs, Counted, m) /\ LastSelf(msgs, seqMsg)
  BY <1>1 DEF IInv, TypeOK, Lies
<1>10. /\ msgs' \in Seq(Msg) /\ MsgsLie(msgs', Counted, mid) /\ LastSelf(msgs', seqMsg')
       /\ seqMsg' \in Nat \cup {None}
  <2>1. CASE skb.kind = "out"
    <3>1. msgs' = msgs /\ seqMsg' = seqMsg
      BY <2>1
    <3>2. m = mid
      BY <1>5, <2>1 DEF SkbFits, Ours
    <3> QED
      BY <1>9, <3>1, <3>2 DEF IInv, TypeOK
  <2>2. CASE skb.kind # "out"
    <3>1. msgs' = Append(msgs, msg) /\ seqMsg' = (IF Ours(skb) THEN skb.end ELSE seqMsg)
      BY <1>3, <1>6, <2>2 DEF QueueMsg
    <3>2. msg = [self |-> Ours(skb), end |-> skb.end, len |-> RangeAt(copied, skb).len, skip |-> 0]
      BY <1>3
    <3>3. skb.end \in Nat /\ seqMsg \in Nat \cup {None}
      BY <1>4, SkbTyped DEF IInv, TypeOK
    <3> HIDE DEF skb, msg
    <3>4. /\ Append(msgs, msg) \in Seq(Msg) /\ MsgsLie(Append(msgs, msg), Counted, mid)
          /\ LastSelf(Append(msgs, msg), IF Ours(skb) THEN skb.end ELSE seqMsg)
      BY <1>2, <1>4, <1>5, <1>9, <3>2, Published
    <3> QED
      BY <3>1, <3>3, <3>4
  <2> QED
    BY <2>1, <2>2
<1>m. Marked'
  <2>1. \A i \in 1..Len(Tail(skbs)) : Tail(skbs)[i].kind # "own"
    BY <1>3, MarkedTail DEF IInv, TypeOK, Marked
  <2> QED
    BY <1>7, <2>1 DEF Marked
<1> HIDE DEF skb, msg, WorkPublish
<1>11. TypeOK'
  BY <1>4, <1>7, <1>8, <1>10 DEF IInv, TypeOK
<1>12. Tiled'
  <2>1. Lies(mid, s)'
    BY <1>1, <1>5, <1>7, <1>8, <1>10 DEF Lies, Counted
  <2> QED
    BY <1>8, <2>1 DEF IInv, Tiled, Counted
<1>13. Computed(work)' /\ Computed(resume)'
  BY <1>7 DEF Computed
<1> QED
  BY <1>3, <1>7, <1>8, <1>10, <1>11, <1>12, <1>13, <1>m DEF IInv, Detached, Referenced

LEMMA WorkAgainStep == ASSUME IInv, Gaps = {}, WorkAgain PROVE IInv'
<1> USE DEF WorkAgain
<1>1. UNCHANGED <<rcvNxt, copied, queue, psock, alive, tx, skbs, msgs, seqMsg, reader,
                  waiting, delivered, redirects, attaches>>
  BY DEF sock, state, recv, bounds
<1>2. TypeOK'
  BY <1>1 DEF IInv, TypeOK
<1>3. Tiled'
  BY <1>1 DEF IInv, Tiled, Lies, Counted
<1>4. Computed(work)' /\ Computed(resume)'
  BY <1>1 DEF IInv, Computed
<1> QED
  BY <1>1, <1>2, <1>3, <1>4 DEF IInv, Detached, Marked, Referenced, Computed

LEMMA WorkFailStep == ASSUME IInv, WorkFail PROVE IInv'
<1> USE DEF WorkFail
<1>1. UNCHANGED <<rcvNxt, copied, queue, psock, alive, skbs, msgs, seqMsg, resume, reader,
                  waiting, delivered, redirects, attaches>>
  BY DEF sock, ingress, recv, bounds
<1>2. TypeOK'
  BY <1>1 DEF IInv, TypeOK
<1>3. Tiled'
  BY <1>1 DEF IInv, Tiled, Lies, Counted
<1>4. Computed(work)' /\ Computed(resume)'
  BY <1>1 DEF IInv, Computed
<1> QED
  BY <1>1, <1>2, <1>3, <1>4 DEF IInv, Detached, Marked, Referenced

LEMMA RecvBeginStep == ASSUME IInv, RecvBegin PROVE IInv'
<1> USE DEF RecvBegin
<1>1. UNCHANGED <<rcvNxt, copied, queue, psock, alive, tx, skbs, msgs, seqMsg, work, resume,
                  delivered, redirects, attaches>>
  BY DEF sock, state, ingress, worker, bounds
<1>2. copied \in Nat /\ copied # None
  BY SockmapAssumption DEF IInv, TypeOK, Seqs
<1>3. Counted' = Counted
  BY <1>1, <1>2 DEF Counted
<1>4. TypeOK'
  BY <1>1, <1>2 DEF IInv, TypeOK
<1>5. Tiled'
  BY <1>1, <1>3 DEF IInv, Tiled, Lies
<1> QED
  BY <1>1, <1>2, <1>4, <1>5 DEF IInv, Detached, Computed, Marked, Referenced

LEMMA RecvMsgStep == ASSUME IInv, NEW n \in Seqs \ {0}, RecvMsg(n) PROVE IInv'
<1> USE DEF RecvMsg
<1> DEFINE hd == Head(msgs)
<1>1. PICK m \in Nat, s \in Nat : Lies(m, s)
  BY DEF IInv, Tiled
<1>2. /\ copied \in Nat /\ Counted \in Nat /\ copied <= Counted /\ m <= rcvNxt
      /\ rcvNxt \in Nat /\ \A p \in Nat : p <= rcvNxt => p \in Seqs
  <2>1. /\ copied \in Nat /\ Counted \in Nat /\ copied <= Counted /\ m <= s /\ s <= rcvNxt
        /\ rcvNxt \in Nat /\ \A p \in Nat : p <= rcvNxt => p \in Seqs
    BY <1>1, Bounds
  <2> QED
    BY <2>1
<1>3. /\ msgs # <<>> /\ n \in 1..hd.len /\ reader # None /\ Counted = reader
      /\ reader' = reader + FromSelf(hd, n) /\ waiting' = FALSE
      /\ delivered' = IF hd.self THEN hd.end - hd.len + n ELSE delivered
  BY DEF Counted
<1>4. UNCHANGED <<rcvNxt, copied, queue, psock, alive, tx, skbs, work, resume, redirects,
                  attaches>>
  BY DEF sock, state, worker, bounds
<1>5. msgs \in Seq(Msg) /\ MsgsLie(msgs, reader, m) /\ LastSelf(msgs, seqMsg)
  BY <1>1, <1>3 DEF IInv, TypeOK, Lies
<1>6. hd \in Msg /\ hd = msgs[1] /\ 1 \in 1..Len(msgs)
  BY <1>3, <1>5
<1>7. /\ n \in Nat /\ n <= hd.len /\ hd.len \in Nat /\ hd.end \in Nat /\ hd.skip \in Nat
      /\ reader \in Nat
  <2>1. hd.len \in Nat /\ hd.end \in Nat /\ hd.skip \in Nat
    BY <1>6, MsgTyped
  <2> QED
    BY <1>2, <1>3, <2>1
<1>8. PICK mid \in Nat :
        reader <= mid /\ MsgFits(hd, reader, mid) /\ MsgsLie(Tail(msgs), mid, m)
  BY <1>3, <1>5, <1>7, MsgsTail
<1>9. Tail(msgs) \in Seq(Msg) /\ mid <= m
  <2>1. Tail(msgs) \in Seq(Msg)
    BY <1>3, <1>5
  <2> QED
    BY <1>8, <2>1, MsgsOrdered
<1>10. /\ hd.self => hd.end = reader + hd.len /\ mid = hd.end + hd.skip
       /\ ~hd.self => mid = reader
  BY <1>8 DEF MsgFits
<1>11. /\ reader' \in Nat /\ reader <= reader' /\ delivered' \in Nat /\ delivered' <= reader'
       /\ reader' <= mid /\ (n = hd.len => reader' = mid)
       /\ n < hd.len => reader' = reader + (IF hd.self THEN n ELSE 0)
  <2>1. CASE hd.self
    <3>1. delivered' = reader + n
      BY <1>3, <1>7, <1>10, <2>1
    <3>2. reader' = reader + (n + (IF n = hd.len THEN hd.skip ELSE 0))
      BY <1>3, <2>1 DEF FromSelf
    <3>3. mid = (reader + hd.len) + hd.skip
      BY <1>10, <2>1
    <3>4. CASE n = hd.len
      <4>1. reader' = reader + (hd.len + hd.skip)
        BY <3>2, <3>4
      <4>2. reader' = mid
        BY <1>7, <3>3, <4>1
      <4>3. mid \in Nat /\ reader + n <= mid
        BY <1>7, <3>3, <3>4
      <4> QED
        BY <1>7, <3>1, <3>4, <4>2, <4>3
    <3>5. CASE n # hd.len
      <4>1. n < hd.len
        BY <1>7, <3>5
      <4>2. reader' = reader + n
        BY <1>7, <3>2, <3>5
      <4>3. reader' <= mid
        BY <1>7, <3>3, <4>1, <4>2
      <4> QED
        BY <1>7, <2>1, <3>1, <3>5, <4>2, <4>3
    <3> QED
      BY <3>4, <3>5
  <2>2. CASE ~hd.self
    <3>1. reader' = reader
      BY <1>3, <1>7, <2>2 DEF FromSelf
    <3>2. delivered' = delivered /\ delivered \in Nat /\ delivered <= reader
      BY <1>3, <2>2 DEF IInv, TypeOK, Tiled, Seqs
    <3> QED
      BY <1>7, <1>10, <2>2, <3>1, <3>2
  <2> QED
    BY <2>1, <2>2
<1>12. /\ msgs' \in Seq(Msg) /\ MsgsLie(msgs', reader', m) /\ LastSelf(msgs', seqMsg')
       /\ seqMsg' \in Nat \cup {None}
  <2>1. seqMsg \in Nat \cup {None}
    BY DEF IInv, TypeOK
  <2>2. CASE n = hd.len
    <3>1. msgs' = Tail(msgs) /\ seqMsg' = SeqMsgWithout(hd)
      BY <2>2
    <3>2. seqMsg' = IF hd.self /\ hd.end = seqMsg THEN None ELSE seqMsg
      BY <3>1 DEF SeqMsgWithout, IsSeqMsg
    <3>3. LastSelf(Tail(msgs), IF hd.self /\ hd.end = seqMsg THEN None ELSE seqMsg)
      BY <1>3, <1>5, <1>7, LastSelfTail
    <3>4. reader' = mid
      BY <1>11, <2>2
    <3> QED
      BY <1>8, <1>9, <2>1, <3>1, <3>2, <3>3, <3>4
  <2>3. CASE n # hd.len
    <3>1. n < hd.len
      BY <1>7, <2>3
    <3>2. msgs' = [msgs EXCEPT ![1].len = @ - n] /\ seqMsg' = seqMsg
      BY <2>3
    <3>3. /\ MsgsLie(msgs', reader + (IF hd.self THEN n ELSE 0), m)
          /\ msgs' \in Seq(Msg) /\ Len(msgs') = Len(msgs)
          /\ \A i \in 1..Len(msgs) : msgs'[i].self = msgs[i].self /\ msgs'[i].end = msgs[i].end
      <4>1. msgs # <<>> /\ reader \in Nat /\ n \in Nat /\ n < Head(msgs).len
        BY <1>3, <1>7, <3>1
      <4>2. msgs \in Seq(Msg) /\ MsgsLie(msgs, reader, m)
        BY <1>5
      <4>3. msgs' = ReadOff(msgs, n)
        BY <3>2 DEF ReadOff
      <4> QED
        BY <4>1, <4>2, <4>3, MsgsRead
    <3>4. MsgsLie(msgs', reader', m)
      BY <1>11, <3>1, <3>3
    <3>5. LastSelf(msgs', seqMsg)
      <4>1. Len(msgs) \in Nat
        BY <1>5
      <4> QED
        BY <1>5, <3>3, <4>1, LastSelfSame
    <3> QED
      BY <2>1, <3>2, <3>3, <3>4, <3>5
  <2> QED
    BY <2>2, <2>3
<1> HIDE DEF hd, RecvMsg
<1>13. Counted' = reader' /\ reader' # None
  BY <1>11, SockmapAssumption DEF Counted
<1>14. delivered' \in Seqs
  <2>1. delivered' <= rcvNxt
    BY <1>2, <1>7, <1>9, <1>11
  <2> QED
    BY <1>2, <1>11, <2>1
<1>15. TypeOK'
  BY <1>3, <1>4, <1>11, <1>12, <1>14 DEF IInv, TypeOK
<1>16. Tiled'
  <2>1. Lies(m, s)'
    BY <1>1, <1>4, <1>12, <1>13 DEF Lies
  <2>2. copied' <= Counted' /\ delivered' <= Counted'
    BY <1>2, <1>3, <1>4, <1>11, <1>13
  <2> QED
    BY <1>4, <2>1, <2>2 DEF IInv, Tiled
<1>17. psock /\ alive
  BY <1>3 DEF IInv, Referenced
<1> QED
  BY <1>3, <1>4, <1>12, <1>15, <1>16, <1>17 DEF IInv, Detached, Computed, Marked, Referenced

LEMMA RecvEndStep == ASSUME IInv, RecvEnd PROVE IInv'
<1> USE DEF RecvEnd
<1>1. PICK m \in Nat, s \in Nat : Lies(m, s)
  BY DEF IInv, Tiled
<1>2. /\ copied \in Nat /\ rcvNxt \in Nat /\ reader \in Nat /\ Counted = reader
      /\ copied <= reader /\ reader <= m /\ m <= s /\ reader <= s /\ reader \in Seqs
  <2>1. /\ copied \in Nat /\ rcvNxt \in Nat /\ Counted \in Nat /\ Counted = reader
        /\ copied <= Counted /\ Counted <= m /\ m <= s /\ s <= rcvNxt
        /\ \A p \in Nat : p <= rcvNxt => p \in Seqs
    BY <1>1, Bounds DEF Counted
  <2> QED
    BY <2>1
<1>3. /\ copied' = reader /\ reader' = None /\ waiting' = FALSE /\ Counted' = reader
      /\ UNCHANGED <<rcvNxt, queue, psock, alive, tx, skbs, msgs, seqMsg, work, resume,
                     delivered, redirects, attaches>>
  BY DEF state, ingress, worker, bounds, Counted
<1>4. skbs \in Seq(Skb) /\ queue \in Seq(Skb)
  BY DEF IInv, TypeOK
<1>5. SkbsLie(skbs, reader, m, s)
  BY <1>1, <1>2, <1>4, SkbsRaise DEF Lies
<1>6. SkbsLie(queue, reader, s, rcvNxt)
  BY <1>1, <1>2, <1>4, SkbsRaise DEF Lies
<1>7. TypeOK'
  BY <1>2, <1>3 DEF IInv, TypeOK
<1>8. Tiled'
  <2>1. Lies(m, s)'
    BY <1>1, <1>2, <1>3, <1>5, <1>6 DEF Lies
  <2> QED
    BY <1>2, <1>3, <2>1 DEF IInv, Tiled
<1>9. ASSUME skbs # <<>> PROVE RangeAt(copied, Head(skbs)) = RangeAt(reader, Head(skbs))
  <2>1. Head(skbs) \in Skb
    BY <1>1, <1>9, SkbsHead
  <2>2. PICK p \in Nat : SkbFits(Head(skbs), copied, m, p)
    BY <1>1, <1>9, SkbsHead
  <2>3. PICK p2 \in Nat : SkbFits(Head(skbs), reader, m, p2)
    BY <1>2, <1>4, <1>5, <1>9, SkbsTail
  <2>4. p = p2 \/ ~Ours(Head(skbs))
    BY <2>2, <2>3 DEF SkbFits
  <2> QED
    BY <1>2, <2>1, <2>2, <2>3, <2>4, RangeSame
<1>10. Computed(work)' /\ Computed(resume)'
  BY <1>3, <1>9 DEF IInv, Computed
<1> QED
  BY <1>3, <1>7, <1>8, <1>10 DEF IInv, Detached, Marked, Referenced

LEMMA NativeRecvStep == ASSUME IInv, NEW n \in Seqs \ {0}, NativeRecv(n) PROVE IInv'
<1> USE DEF NativeRecv
<1> DEFINE skb == Head(queue)
<1>1. PICK m \in Nat, s \in Nat : Lies(m, s)
  BY DEF IInv, Tiled
<1>2. /\ copied \in Nat /\ rcvNxt \in Nat /\ n \in Nat /\ n > 0
      /\ \A p \in Nat : p <= rcvNxt => p \in Seqs
  <2>1. n \in Nat /\ n > 0
    BY DEF Seqs
  <2> QED
    BY <1>1, <2>1, Bounds
<1>3. msgs = <<>> /\ skbs = <<>> /\ seqMsg = None /\ work = None /\ resume = None /\ reader = None
  BY DEF IInv, Detached
<1>4. Counted = copied /\ copied = m /\ m = s
  BY <1>1, <1>2, <1>3, EmptyLies DEF Lies, Counted
<1>5. /\ skb \in Skb /\ Ours(skb) /\ Tail(queue) \in Seq(Skb) /\ queue \in Seq(Skb)
      /\ \A i \in 1..Len(Tail(queue)) : Ours(Tail(queue)[i])
  BY <1>1, QueueHead DEF IInv, TypeOK
<1>6. PICK mid \in Nat :
        /\ s < mid /\ mid <= rcvNxt /\ skb.end = mid
        /\ SkbFits(skb, copied, s, mid) /\ SkbsLie(Tail(queue), copied, mid, rcvNxt)
  BY <1>1, QueueHead
<1>7. /\ skb.seq <= copied /\ copied + n <= mid /\ queue # <<>> /\ ~psock
      /\ copied' = copied + n /\ delivered' = copied + n
      /\ queue' = IF copied + n = mid THEN Tail(queue) ELSE queue
  BY <1>6
<1>8. UNCHANGED <<rcvNxt, psock, alive, tx, skbs, msgs, seqMsg, work, resume, reader,
                  waiting, redirects, attaches>>
  BY DEF state, ingress, worker, recv, bounds
<1>9. copied + n \in Nat /\ copied + n \in Seqs /\ copied <= copied + n
  <2>1. copied + n \in Nat /\ copied <= copied + n /\ copied + n <= rcvNxt
    BY <1>2, <1>6, <1>7
  <2> QED
    BY <1>2, <2>1
<1> HIDE DEF skb, NativeRecv
<1>10. queue' \in Seq(Skb) /\ \A i \in 1..Len(queue') : Ours(queue'[i])
  BY <1>5, <1>7 DEF IInv, Tiled
<1>11. SkbsLie(queue', copied + n, copied + n, rcvNxt)
  <2>1. SkbsLie(Tail(queue), copied + n, mid, rcvNxt)
    BY <1>2, <1>5, <1>6, <1>7, <1>9, SkbsRaise
  <2>2. CASE copied + n = mid
    BY <1>7, <2>1, <2>2
  <2>3. CASE copied + n # mid
    <3>1. copied + n < mid
      BY <1>2, <1>7, <2>3
    <3>2. skb.seq \in Nat /\ skb.end \in Nat
      BY <1>5, SkbTyped
    <3>3. SkbFits(skb, copied + n, copied + n, mid)
      BY <1>2, <1>5, <1>6, <1>7, <3>1, <3>2 DEF SkbFits
    <3>4. SkbsLie(queue, copied + n, copied + n, rcvNxt)
      BY <1>2, <1>5, <1>7, <1>9, <2>1, <3>3, SkbsCons DEF skb
    <3> QED
      BY <1>7, <2>3, <3>4
  <2> QED
    BY <2>2, <2>3
<1>w. ~waiting
  BY <1>2, <1>3, SockmapAssumption DEF IInv, Referenced
<1>12. TypeOK'
  BY <1>7, <1>8, <1>9, <1>10 DEF IInv, TypeOK
<1>13. Tiled'
  <2>1. Counted' = copied + n
    BY <1>3, <1>7, <1>8 DEF Counted
  <2>2. MsgsLie(msgs', copied + n, copied + n) /\ SkbsLie(skbs', copied + n, copied + n, copied + n)
    BY <1>3, <1>8, <1>9, NothingLies
  <2>3. copied' <= Counted' /\ delivered' <= Counted'
    BY <1>7, <1>9, <2>1
  <2>4. \E p, q \in Nat : Lies(p, q)'
    BY <1>7, <1>8, <1>9, <1>11, <2>1, <2>2 DEF Lies
  <2> QED
    BY <1>10, <2>3, <2>4 DEF Tiled
<1> QED
  BY <1>3, <1>8, <1>12, <1>13, <1>w DEF IInv, Detached, Computed, Marked, Referenced

LEMMA AttachStep == ASSUME IInv, Attach PROVE IInv'
<1> USE DEF Attach
<1>1. UNCHANGED <<rcvNxt, copied, queue, skbs, msgs, seqMsg, work, resume, reader, waiting,
                  delivered, redirects>>
  BY DEF sock, ingress, worker, recv
<1>2. attaches' \in 0..MaxAttaches
  BY SockmapAssumption DEF IInv, TypeOK
<1>3. TypeOK'
  BY <1>1, <1>2 DEF IInv, TypeOK
<1>4. Tiled'
  BY <1>1 DEF IInv, Tiled, Lies, Counted
<1> QED
  BY <1>1, <1>3, <1>4 DEF IInv, Detached, Computed, Marked, Referenced

(* Pending is what lies between what has been counted and the queue. *)
LEMMA PendingIs ==
  ASSUME IInv, NEW m \in Nat, NEW s \in Nat, Lies(m, s)
  PROVE  Pending = s - Counted
<1>1. /\ copied \in Nat /\ Counted \in Nat /\ msgs \in Seq(Msg) /\ skbs \in Seq(Skb)
      /\ Counted <= m /\ m <= s
  BY Bounds DEF IInv, TypeOK
<1>2. MsgsLie(msgs, Counted, m) /\ SkbsLie(skbs, copied, m, s)
  BY DEF Lies
<1> DEFINE f == [i \in DOMAIN skbs |-> IF Trimmed(skbs[i]) THEN Readable(skbs[i]) ELSE 0]
           g == [i \in DOMAIN msgs |-> IF msgs[i].self THEN msgs[i].len + msgs[i].skip ELSE 0]
<1>3. SumFunction(g) = m - Counted
  BY <1>1, <1>2, MsgsSum
<1>4. SumFunction(f) = s - m
  <2>1. DOMAIN f = DOMAIN skbs
        /\ \A i \in DOMAIN skbs : f[i] = IF Ours(skbs[i]) THEN Readable(skbs[i]) ELSE 0
    <3>1. \A i \in DOMAIN skbs : skbs[i].kind # "own"
      BY <1>1 DEF IInv, Marked
    <3> QED
      BY <3>1 DEF Trimmed, Ours
  <2> HIDE DEF f
  <2> QED
    BY <1>1, <1>2, <2>1, SkbsSum
<1>5. Pending = SumFunction(g) + SumFunction(f)
  BY DEF Pending
<1> HIDE DEF f, g
<1> QED
  BY <1>1, <1>3, <1>4, <1>5

LEMMA DetachStep == ASSUME IInv, Detach PROVE IInv'
<1> USE DEF Detach
<1>1. PICK m \in Nat, s \in Nat : Lies(m, s)
  BY DEF IInv, Tiled
<1>0. reader = None
  BY DEF IInv, Referenced
<1>2. /\ copied \in Nat /\ rcvNxt \in Nat /\ Counted = copied /\ copied <= s
      /\ s \in Seqs /\ delivered <= copied /\ delivered \in Nat
  <2>1. /\ copied \in Nat /\ rcvNxt \in Nat /\ Counted = copied
        /\ copied <= Counted /\ Counted <= m /\ m <= s /\ s <= rcvNxt
        /\ \A p \in Nat : p <= rcvNxt => p \in Seqs
    BY <1>0, <1>1, Bounds DEF Counted
  <2>2. delivered \in Nat /\ delivered <= Counted
    BY DEF IInv, Tiled, TypeOK, Seqs
  <2> QED
    BY <2>1, <2>2
<1>3. /\ copied' = s /\ psock' = FALSE /\ skbs' = <<>> /\ msgs' = <<>> /\ seqMsg' = None
      /\ resume' = None
      /\ work = None /\ reader = None /\ ~waiting /\ ~alive
      /\ UNCHANGED <<rcvNxt, queue, alive, tx, work, reader, waiting, delivered, redirects,
                     attaches>>
  <2>1. Pending = s - Counted
    BY <1>1, PendingIs
  <2>2. work = None /\ reader = None /\ ~waiting /\ ~alive
    BY <1>0, <1>2, SockmapAssumption DEF IInv, Referenced
  <2> QED
    BY <1>2, <2>1, <2>2 DEF recv, bounds
<1> HIDE DEF Detach
<1>4. queue \in Seq(Skb) /\ \A i \in 1..Len(queue) : Ours(queue[i])
  BY DEF IInv, TypeOK, Tiled
<1>5. SkbsLie(queue, s, s, rcvNxt)
  BY <1>1, <1>2, <1>4, SkbsRaise DEF Lies
<1>6. TypeOK'
  <2>1. <<>> \in Seq(Skb) /\ <<>> \in Seq(Msg)
    OBVIOUS
  <2> QED
    BY <1>2, <1>3, <2>1 DEF IInv, TypeOK
<1>7. Tiled'
  <2>1. Counted' = s
    BY <1>3 DEF Counted
  <2>2. MsgsLie(<<>>, s, s) /\ SkbsLie(<<>>, s, s, s)
    BY NothingLies
  <2>3. Lies(s, s)'
    BY <1>3, <1>5, <2>1, <2>2 DEF Lies
  <2> QED
    BY <1>2, <1>3, <1>4, <2>1, <2>3 DEF Tiled
<1> QED
  BY <1>3, <1>6, <1>7 DEF IInv, Detached, Computed, LastSelf, Marked, Referenced

LEMMA StopStep == ASSUME IInv, Stop PROVE IInv'
<1> USE DEF Stop
<1>1. UNCHANGED <<rcvNxt, copied, queue, psock, skbs, msgs, seqMsg, work, resume, reader,
                  waiting, delivered, redirects, attaches>>
  BY DEF sock, ingress, worker, recv, bounds
<1>2. TypeOK'
  BY <1>1 DEF IInv, TypeOK
<1>3. Tiled'
  BY <1>1 DEF IInv, Tiled, Lies, Counted
<1> QED
  BY <1>1, <1>2, <1>3 DEF IInv, Detached, Computed, Marked, Referenced

LEMMA Preserved == ASSUME IInv, Gaps = {}, [Next]_vars PROVE IInv'
<1>1. ASSUME NEW n \in Sizes, Arrive(n) PROVE IInv'
  BY <1>1, ArriveStep
<1>2. ASSUME NEW n \in Sizes, RedirectIn(n) PROVE IInv'
  BY <1>2, RedirectInStep
<1>3. CASE PassDirect
  BY <1>3, PassDirectStep
<1>4. CASE PassQueued
  BY <1>4, PassQueuedStep
<1>5. CASE Skip
  BY <1>5, SkipStep
<1>6. CASE RedirectSelf
  BY <1>6, RedirectSelfStep
<1>7. CASE WorkRange
  BY <1>7, WorkRangeStep
<1>8. CASE WorkPublish
  BY <1>8, WorkPublishStep
<1>9. CASE WorkAgain
  BY <1>9, WorkAgainStep
<1>10. CASE WorkFail
  BY <1>10, WorkFailStep
<1>11. CASE RecvBegin
  BY <1>11, RecvBeginStep
<1>12. CASE RecvEnd
  BY <1>12, RecvEndStep
<1>13. ASSUME NEW n \in Seqs \ {0}, RecvMsg(n) PROVE IInv'
  BY <1>13, RecvMsgStep
<1>14. ASSUME NEW n \in Seqs \ {0}, NativeRecv(n) PROVE IInv'
  BY <1>14, NativeRecvStep
<1>15. CASE Attach
  BY <1>15, AttachStep
<1>16. CASE Stop
  BY <1>16, StopStep
<1>17. CASE Detach
  BY <1>17, DetachStep
<1>18. CASE UNCHANGED vars
  <2>1. UNCHANGED <<rcvNxt, copied, queue, psock, alive, tx, skbs, msgs, seqMsg, work,
                    resume, reader, waiting, delivered, redirects, attaches>>
    BY <1>18 DEF vars, sock, state, ingress, worker, recv, bounds
  <2> QED
    BY <2>1 DEF IInv, TypeOK, Tiled, Lies, Counted, LastSelf, Computed, Detached, Marked, Referenced
<1> QED
  BY <1>1, <1>2, <1>3, <1>4, <1>5, <1>6, <1>7, <1>8, <1>9, <1>10, <1>11, <1>12,
     <1>13, <1>14, <1>15, <1>16, <1>17, <1>18 DEF Next

-----------------------------------------------------------------------------
(* The theorems *)

LEMMA Invariance == Gaps = {} => (Spec => []IInv)
<1> SUFFICES ASSUME Gaps = {} PROVE Spec => []IInv
  OBVIOUS
<1>1. Init => IInv
  BY InitIInv
<1>2. IInv /\ [Next]_vars => IInv'
  BY Preserved
<1> QED
  BY <1>1, <1>2, PTL DEF Spec

(* As long as none of the open cases happens, the receive path, the backlog *)
(* worker, readers and the psock's life keep every sequence number within  *)
(* what has arrived, and lists of messages and skbs stay lists of them.    *)
THEOREM TypeCorrect == Gaps = {} => (Spec => []TypeOK)
<1>1. IInv => TypeOK
  BY DEF IInv
<1> QED
  BY <1>1, Invariance, PTL

(* No received byte is counted twice or never: copied_seq (or the reader's *)
(* local seq), what ingress_msg and ingress_skb still hold of this socket, *)
(* the deferred skips included, and the receive queue always add up to     *)
(* rcv_nxt.                                                                *)
THEOREM ByteByByte == Gaps = {} => (Spec => []EveryByteOnce)
<1>1. IInv => EveryByteOnce
  <2> SUFFICES ASSUME IInv PROVE EveryByteOnce
    OBVIOUS
  <2>1. PICK m \in Nat, s \in Nat : Lies(m, s)
    BY DEF IInv, Tiled
  <2>2. copied \in Nat /\ Counted \in Nat /\ rcvNxt \in Nat
    BY <2>1, Bounds
  <2>3. /\ queue \in Seq(Skb) /\ SkbsLie(queue, copied, s, rcvNxt)
        /\ \A i \in 1..Len(queue) : Ours(queue[i])
    BY <2>1 DEF IInv, TypeOK, Tiled, Lies
  <2> DEFINE f == [i \in DOMAIN queue |-> Readable(queue[i])]
  <2>4. /\ DOMAIN f = DOMAIN queue
        /\ \A i \in DOMAIN queue : f[i] = IF Ours(queue[i]) THEN Readable(queue[i]) ELSE 0
    BY <2>3
  <2>5. EveryByteOnce <=> Counted + Pending + SumFunction(f) = rcvNxt
    BY DEF EveryByteOnce, Counted
  <2> HIDE DEF f
  <2>6. SumFunction(f) = rcvNxt - s
    BY <2>2, <2>3, <2>4, SkbsSum
  <2>7. Pending = s - Counted
    BY <2>1, PendingIs
  <2> QED
    BY <2>2, <2>5, <2>6, <2>7
<1> QED
  BY <1>1, Invariance, PTL

(* copied_seq never passes data that user space has not read, neither in   *)
(* ingress_msg nor in ingress_skb, and what waits for user space begins    *)
(* after what it has read: no byte is read twice.                          *)
THEOREM NothingRunsAhead == Gaps = {} => (Spec => []BehindUnread)
<1>1. IInv => BehindUnread
  <2> SUFFICES ASSUME IInv PROVE BehindUnread
    OBVIOUS
  <2>1. PICK m \in Nat, s \in Nat : Lies(m, s)
    BY DEF IInv, Tiled
  <2>2. copied \in Nat /\ Counted \in Nat /\ copied <= Counted
    BY <2>1, Bounds
  <2>3. delivered \in Nat /\ delivered <= Counted
    BY DEF IInv, TypeOK, Tiled, Seqs
  <2>4. msgs \in Seq(Msg) /\ skbs \in Seq(Skb) /\ DOMAIN msgs = 1..Len(msgs)
        /\ DOMAIN skbs = 1..Len(skbs)
    BY DEF IInv, TypeOK
  <2>5. ASSUME NEW i \in 1..Len(msgs), msgs[i].self
        PROVE  /\ copied <= msgs[i].end - msgs[i].len
               /\ delivered <= msgs[i].end - msgs[i].len
    <3>1. Counted + msgs[i].len <= msgs[i].end
      BY <2>1, <2>2, <2>4, <2>5, MsgsWithin DEF Lies
    <3>2. msgs[i].end \in Nat /\ msgs[i].len \in Nat
      BY <2>4, MsgTyped
    <3> QED
      BY <2>2, <2>3, <3>1, <3>2
  <2>6. ASSUME NEW i \in 1..Len(skbs), Trimmed(skbs[i]) PROVE copied < skbs[i].end
    <3>1. Ours(skbs[i])
      BY <2>6 DEF Trimmed, Ours
    <3> QED
      BY <2>1, <2>2, <2>4, <3>1, SkbsWithin DEF Lies
  <2> QED
    BY <2>4, <2>5, <2>6 DEF BehindUnread, Unread
<1> QED
  BY <1>1, Invariance, PTL

(* Whenever the psock is gone, copied_seq points into the first skb of the *)
(* receive queue or to its start, so that tcp_recvmsg_locked continues     *)
(* where the psock stopped.                                                *)
THEOREM NativeTakesOver == Gaps = {} => (Spec => []NativeContinues)
<1>1. IInv => NativeContinues
  <2> SUFFICES ASSUME IInv, ~psock
               PROVE  copied <= rcvNxt /\ (queue # <<>> => Head(queue).seq <= copied)
    BY DEF NativeContinues
  <2>1. PICK m \in Nat, s \in Nat : Lies(m, s)
    BY DEF IInv, Tiled
  <2>2. /\ copied \in Nat /\ Counted \in Nat /\ rcvNxt \in Nat
        /\ copied <= Counted /\ Counted <= m /\ m <= s /\ s <= rcvNxt
    BY <2>1, Bounds
  <2>3. copied = s
    <3>1. msgs = <<>> /\ skbs = <<>> /\ reader = None
      BY DEF IInv, Detached
    <3> QED
      BY <2>1, <2>2, <3>1, EmptyLies DEF Lies, Counted
  <2>4. ASSUME queue # <<>> PROVE Head(queue).seq <= copied
    <3>1. Head(queue) \in Skb /\ Ours(Head(queue))
      BY <2>1, <2>4, QueueHead
    <3>2. PICK mid \in Nat : SkbFits(Head(queue), copied, s, mid)
      BY <2>1, <2>4, QueueHead
    <3> QED
      BY <2>2, <2>3, <3>1, <3>2, SkbTyped DEF SkbFits
  <2> QED
    BY <2>2, <2>4
<1> QED
  BY <1>1, Invariance, PTL

(* The series' aim, copied_seq <= rcv_nxt, is met as long as no skip       *)
(* overtakes passed skbs, nothing is redirected to the socket's own        *)
(* ingress, no skip eats behind a reader's back, no retry adopts another's *)
(* skb and no pass is published after sk_psock_stop.                       *)
THEOREM NeverBeyondReceived == Gaps = {} => (Spec => []WithinReceived)
<1>1. IInv => WithinReceived
  <2> SUFFICES ASSUME IInv PROVE WithinReceived
    OBVIOUS
  <2>1. PICK m \in Nat, s \in Nat : Lies(m, s)
    BY DEF IInv, Tiled
  <2> QED
    BY <2>1, Bounds DEF WithinReceived
<1> QED
  BY <1>1, Invariance, PTL

=============================================================================
