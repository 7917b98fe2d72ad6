---------------------------- MODULE BackingPool ----------------------------
(***************************************************************************)
(* What mm_init and __mmdrop need of the cache of percpu backing: a        *)
(* backing is handed to one mm at a time, reads zero on every CPU when it  *)
(* is, and is given back whole.  Where it rests in between is not seen.    *)
(***************************************************************************)
EXTENDS Integers

CONSTANTS Mms, Backings, Cpus, NoBacking

VARIABLES
  held,    \* held[m]: the backing an mm counts in, or NoBacking
  value    \* value[b][c]: what a held backing reads on a CPU

Zero == [c \in Cpus |-> 0]

Init ==
  /\ held = [m \in Mms |-> NoBacking]
  /\ value = [b \in Backings |-> Zero]

Unheld == {b \in Backings : \A m \in Mms : held[m] # b}

Take(m, b) ==
  /\ held[m] = NoBacking
  /\ b \in Unheld
  /\ held' = [held EXCEPT ![m] = b]
  /\ UNCHANGED value

(* A CPU counts in a held backing, or a dead one is folded out of several. *)
Count ==
  /\ value' \in [Backings -> [Cpus -> Int]]
  /\ \A b \in Unheld : value'[b] = value[b]
  /\ UNCHANGED held

Give(m) ==
  /\ held[m] # NoBacking
  /\ value' = [value EXCEPT ![held[m]] = Zero]
  /\ held' = [held EXCEPT ![m] = NoBacking]

Next ==
  \/ \E m \in Mms, b \in Backings : Take(m, b)
  \/ \E m \in Mms : Give(m)
  \/ Count

Spec == Init /\ [][Next]_<<held, value>>
=============================================================================
