--------------------------- MODULE MCIpvsOverload ---------------------------
(***************************************************************************)
(* Thresholds and counts divided by 25 from those of the program: 8 and 4  *)
(* for an upper threshold of 200 and 100, 3 and 2 for 75 and 50.           *)
(***************************************************************************)
EXTENDS IpvsOverload, TLC

Thresholds == {[u |-> 8, l |-> 0], [u |-> 4, l |-> 0], [u |-> 4, l |-> 2]}
Unlimited == [u |-> 0, l |-> 0]

(* Every state an epoch can start in with the flag as it should be.        *)
StartsDef ==
  {st \in [total : 2..4, u : {0, 4, 8}, l : {0, 2}, flags : {0, 2}] :
     /\ [u |-> st.u, l |-> st.l] \in Thresholds \cup {Unlimited}
     /\ FlagAgrees(st.flags, st.u, LowValue(st), st.total)}
EditsDef == Thresholds \cup {Unlimited}

Symm == Permutations(Binders) \cup Permutations(Unbinders)
=============================================================================
