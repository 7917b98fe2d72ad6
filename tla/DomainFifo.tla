----------------------------- MODULE DomainFifo -----------------------------
(***************************************************************************)
(* What an ordered CPUMAP promises a domain: its packets, numbered in the  *)
(* order they were inserted, reach the network stack in that order, with   *)
(* gaps for packets that are dropped.  Only when the domain is moved away  *)
(* from an offline CPU are the packets it had there stranded; those may be *)
(* late.  Which CPU a packet is on, rings, GRO and tickets do not appear.  *)
(***************************************************************************)
EXTENDS Integers

CONSTANT Domains

VARIABLES
  sent,       \* sent[d]: number of the latest packet inserted
  inflight,   \* inflight[d]: packets inserted and neither handed nor dropped
  stranded,   \* stranded[d]: packets left behind on an offline CPU
  top         \* top[d]: latest packet handed to the stack

vars == <<sent, inflight, stranded, top>>

TypeOK ==
  /\ sent \in [Domains -> Nat]
  /\ inflight \in [Domains -> SUBSET Nat]
  /\ stranded \in [Domains -> SUBSET Nat]
  /\ top \in [Domains -> Nat]

Init ==
  /\ sent = [d \in Domains |-> 0]
  /\ inflight = [d \in Domains |-> {}]
  /\ stranded = [d \in Domains |-> {}]
  /\ top = [d \in Domains |-> 0]

Insert(d) ==
  /\ sent' = [sent EXCEPT ![d] = @ + 1]
  /\ inflight' = [inflight EXCEPT ![d] = @ \cup {sent[d] + 1}]
  /\ UNCHANGED <<stranded, top>>

(* The oldest packet in flight reaches the stack. *)
Hand(d) ==
  \E n \in inflight[d] :
    /\ \A m \in inflight[d] : n <= m
    /\ inflight' = [inflight EXCEPT ![d] = @ \ {n}]
    /\ top' = [top EXCEPT ![d] = n]
    /\ UNCHANGED <<sent, stranded>>

HandLate(d) ==
  \E n \in stranded[d] :
    /\ stranded' = [stranded EXCEPT ![d] = @ \ {n}]
    /\ top' = [top EXCEPT ![d] = IF n > @ THEN n ELSE @]
    /\ UNCHANGED <<sent, inflight>>

(* Packets of any domains are dropped. *)
Drop ==
  /\ inflight' = [d \in Domains |-> inflight'[d]]
  /\ stranded' = [d \in Domains |-> stranded'[d]]
  /\ \A d \in Domains :
       inflight'[d] \subseteq inflight[d] /\ stranded'[d] \subseteq stranded[d]
  /\ UNCHANGED <<sent, top>>

(* The domain leaves an offline CPU and all it had there. *)
Strand(d) ==
  /\ inflight' = [inflight EXCEPT ![d] = {}]
  /\ stranded' = [stranded EXCEPT ![d] = @ \cup inflight[d]]
  /\ UNCHANGED <<sent, top>>

Next ==
  \/ \E d \in Domains : Insert(d) \/ Hand(d) \/ HandLate(d) \/ Strand(d)
  \/ Drop

Spec == Init /\ [][Next]_vars

(* Whatever is in flight is newer than everything handed to the stack so   *)
(* far and than everything stranded.                                       *)
InOrder ==
  \A d \in Domains : \A n \in inflight[d] :
    n > top[d] /\ \A m \in stranded[d] : m < n

=============================================================================
