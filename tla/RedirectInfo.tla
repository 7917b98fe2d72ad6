---------------------------- MODULE RedirectInfo ----------------------------
(***************************************************************************)
(* The redirect intent of a CPU (bpf_redirect_info) after ordered CPUMAP:  *)
(* XDP programs record where a packet shall go, any number of times and    *)
(* over any number of packets, and xdp_do_redirect takes what is recorded  *)
(* when a program returns XDP_REDIRECT.  An ordered request leaves a       *)
(* domain in tgt_value, an ordinary one a map entry: only one bit of       *)
(* kern_flags says which.                                                  *)
(*                                                                         *)
(* A definition marked "Faulty" is no part of the specification: it is the *)
(* next definition with a slip.                                            *)
(***************************************************************************)
EXTENDS Naturals

CONSTANTS
  CpuMaps,   \* CPUMAPs
  DevMaps,   \* DEVMAPs
  Extra,     \* CPUMAP -> map_extra, the number of its domains; 0: ordinary
  EntriesOf, \* CPUMAP -> the CPUs it has an entry for
  MaxCpus,   \* max_entries of every CPUMAP
  None

ASSUME RedirectAssumption ==
  /\ CpuMaps \cap DevMaps = {}
  /\ Extra \in [CpuMaps -> Nat] /\ MaxCpus \in Nat \ {0}
  /\ EntriesOf \in [CpuMaps -> SUBSET (0..MaxCpus - 1)]

VARIABLES
  ri,    \* struct bpf_redirect_info
  asked, \* history: what the last request on this CPU asked for, or "nothing"
  done   \* history: what the last xdp_do_redirect did

intentVars == <<ri, asked, done>>

(* The ways a packet can go: to a map entry, to a domain with a proposed   *)
(* CPU, to one device or to all of a map, or nowhere.                      *)
Entry(map, cpu)          == [to |-> "entry", map |-> map, at |-> cpu, cpu |-> cpu]
Domain(map, domain, cpu) == [to |-> "domain", map |-> map, at |-> domain, cpu |-> cpu]
Device(map)              == [to |-> "device", map |-> map, at |-> 0, cpu |-> 0]
Devices(map)             == [to |-> "devices", map |-> map, at |-> 0, cpu |-> 0]
Nowhere                  == [to |-> "nowhere", map |-> None, at |-> 0, cpu |-> 0]

Requests ==
  [to : {"entry", "domain", "device", "devices", "nowhere"},
   map : CpuMaps \cup DevMaps \cup {None}, at : Nat, cpu : Nat]

IntentTypeOK ==
  /\ ri \in [type : {"unspec", "cpumap", "devmap"},
             value : Requests, index : 0..MaxCpus - 1, broadcast : BOOLEAN, ordered : BOOLEAN]
  /\ asked \in Requests /\ done \in Requests

IntentInit ==
  /\ ri = [type |-> "unspec", value |-> Nowhere, index |-> 0,
           broadcast |-> FALSE, ordered |-> FALSE]
  /\ asked = Nowhere /\ done = Nowhere

(* A refused request: map_id 0, BPF_MAP_TYPE_UNSPEC, not ordered. *)
Refused == [ri EXCEPT !.type = "unspec", !.ordered = FALSE]

(* The arguments of an ordered request are in range. *)
Accepted(map, cpu, domain) == domain < Extra[map] /\ cpu < MaxCpus

(* bpf_cpumap_redirect                                                     *)
BpfCpumapRedirect(map, cpu, domain) ==
  /\ IF Accepted(map, cpu, domain)
     THEN /\ ri' = [type |-> "cpumap", value |-> Domain(map, domain, cpu), index |-> cpu,
                    broadcast |-> FALSE, ordered |-> TRUE]
          /\ asked' = Domain(map, domain, cpu)
     ELSE ri' = Refused /\ asked' = Nowhere
  /\ UNCHANGED done

(* Faulty: an ordinary request leaves the bit of an earlier ordered one.   *)
OrdinaryKeeps == ri.ordered

(* The bit after an ordinary request to a CPUMAP. *)
Ordinary == FALSE

(* cpu_map_redirect, the bpf_redirect_map of a CPUMAP: an ordered map      *)
(* refuses it.  What a failed lookup in an ordinary map leaves behind is   *)
(* not this code's: such requests are left out.                            *)
CpuMapRedirect(map, cpu) ==
  /\ Extra[map] = 0 => cpu \in EntriesOf[map]
  /\ IF Extra[map] = 0
     THEN /\ ri' = [type |-> "cpumap", value |-> Entry(map, cpu), index |-> cpu,
                    broadcast |-> FALSE, ordered |-> Ordinary]
          /\ asked' = Entry(map, cpu)
     ELSE ri' = Refused /\ asked' = Nowhere
  /\ UNCHANGED done

(* bpf_redirect_map of a DEVMAP, to one device or with BPF_F_BROADCAST: it *)
(* knows nothing of the bit.                                               *)
DevMapRedirect(map, broadcast) ==
  LET request == IF broadcast THEN Devices(map) ELSE Device(map) IN
  /\ ri' = [ri EXCEPT !.type = "devmap", !.value = request, !.broadcast = broadcast]
  /\ asked' = request
  /\ UNCHANGED done

(* What is done with the recorded intent: the type of the map selects the  *)
(* function, kern_flags the kind of tgt_value it is given.                 *)
Dispatched ==
  CASE ri.type = "cpumap" /\ ri.ordered  -> [ri.value EXCEPT !.to = "domain", !.cpu = ri.index]
    [] ri.type = "cpumap" /\ ~ri.ordered -> [ri.value EXCEPT !.to = "entry"]
    [] ri.type = "devmap" ->
         [ri.value EXCEPT !.to = IF ri.broadcast THEN "devices" ELSE "device"]
    [] OTHER -> Nowhere

(* __xdp_do_redirect_frame and xdp_do_generic_redirect, which take the     *)
(* intent before they use it; a packet that is too large goes nowhere.     *)
DoRedirect(fits) ==
  /\ ri' = [ri EXCEPT !.type = "unspec", !.broadcast = FALSE, !.ordered = FALSE]
  /\ done' = IF fits THEN Dispatched ELSE Nowhere
  /\ asked' = Nowhere

IntentNext ==
  \/ \E map \in CpuMaps, cpu \in 0..MaxCpus :
       CpuMapRedirect(map, cpu) \/ \E domain \in 0..Extra[map] : BpfCpumapRedirect(map, cpu, domain)
  \/ \E map \in DevMaps, broadcast \in BOOLEAN : DevMapRedirect(map, broadcast)
  \/ \E fits \in BOOLEAN : DoRedirect(fits)

IntentSpec == IntentInit /\ [][IntentNext]_intentVars

-----------------------------------------------------------------------------
(* Properties *)

(* A domain is never taken for a map entry, nor an entry for a domain,     *)
(* whatever other requests came before and whether they were carried out.  *)
TargetHasKind ==
  ri.type = "cpumap" => (ri.ordered <=> ri.value.to = "domain")

(* A redirect carries out the last request, not one that it replaced or    *)
(* that was refused, and no request is carried out twice.                  *)
LastRequestDecides ==
  [][\A fits \in BOOLEAN : DoRedirect(fits) => done' \in {asked, Nowhere}]_intentVars
=============================================================================
