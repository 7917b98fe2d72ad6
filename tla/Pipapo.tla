------------------------------- MODULE Pipapo -------------------------------
(***************************************************************************)
(* One nft_set_pipapo under nf_tables transactions, after the series       *)
(* OLK-5.10-maybe-unused: the first change of a batch clones the match     *)
(* data, later ones work on the clone, commit publishes it to packets and  *)
(* abort drops it.  A failed insertion frees a clone that nothing has been *)
(* inserted into and marks any other one erroneous.                        *)
(*                                                                         *)
(* Commands run one after the other under the commit mutex; packets look   *)
(* the set up under RCU meanwhile.  A definition marked "Faulty" is no     *)
(* part of the specification: it is the next definition with a slip.       *)
(***************************************************************************)
EXTENDS Naturals, Sequences, FiniteSets, SequencesExt

CONSTANTS
  Elems,     \* element objects
  KeyOf,     \* KeyOf[e]: its key; keys that differ do not overlap
  Tables,    \* struct nft_pipapo_match objects
  NoTable,   \* NULL
  Readers,   \* CPUs that look packets up
  MaxTrans   \* bound: transaction records of a batch

ASSUME PipapoAssumption ==
  /\ NoTable \notin Tables /\ Elems \cap (Tables \cup {NoTable}) = {}
  /\ IsFiniteSet(Elems) /\ MaxTrans \in Nat

VARIABLES
  phase,     \* where the control plane is
  match,     \* priv->match
  clone,     \* priv->clone
  elems,     \* elems[t]: the elements a match maps keys to
  state,     \* state[t]: enum nft_pipapo_clone_state
  used,      \* the objects that are allocated
  active,    \* active[e]: the generations an element is active in
  expired,   \* elements that have timed out
  trans,     \* the batch's transaction records for the set
  failed,    \* a command of the batch has failed
  doomed,    \* objects to be freed together, after the readers of now have left
  reader     \* reader[r]: the match a lookup goes through

tables == <<match, clone, elems, state>>
ctl    == <<phase, trans, failed>>
vars   == <<ctl, tables, used, active, expired, doomed, reader>>

Phases  == {"none", "prepare", "flipped", "deleted"}
States  == {"NEW", "MOD", "ERR"}
Ops     == {"newelem", "delelem"}
NoElems == [op : {"delset"}]

TypeOK ==
  /\ phase \in Phases /\ (phase = "none" => match = NoTable /\ clone = NoTable)
  /\ match \in Tables \cup {NoTable} /\ clone \in Tables \cup {NoTable}
  /\ elems \in [Tables -> SUBSET Elems] /\ state \in [Tables -> States]
  /\ used \subseteq Elems \cup Tables
  /\ active \in [Elems -> SUBSET {"cur", "next"}]
  /\ expired \subseteq Elems
  /\ trans \in Seq([op : Ops, e : Elems] \cup NoElems)
  /\ failed \in BOOLEAN
  /\ doomed \in Seq([objs : SUBSET (Elems \cup Tables), waits : SUBSET Readers])
  /\ reader \in [Readers -> Tables \cup {NoTable}]

Both == {"cur", "next"}

Init ==
  /\ phase = "none"
  /\ match = NoTable /\ clone = NoTable
  /\ elems = [t \in Tables |-> {}] /\ state = [t \in Tables |-> "NEW"]
  /\ used = {}
  /\ active = [e \in Elems |-> {}]
  /\ expired = {}
  /\ trans = <<>>
  /\ failed = FALSE
  /\ doomed = <<>>
  /\ reader = [r \in Readers |-> NoTable]

(* The records of a kind, and what becomes of the objects of a set.        *)
Recorded(op) == {trans[i].e : i \in {j \in DOMAIN trans : trans[j].op = op}}
Reading == {r \in Readers : reader[r] # NoTable}
Doom(objs) == IF objs = {} THEN doomed ELSE Append(doomed, [objs |-> objs, waits |-> Reading])

-----------------------------------------------------------------------------
(* Commands of a batch *)

CreateSet ==
  /\ phase = "none" /\ match = NoTable
  /\ \E t \in Tables \ used :
       /\ match' = t
       /\ used' = used \cup {t}
       /\ elems' = [elems EXCEPT ![t] = {}]
  /\ phase' = "prepare"
  /\ UNCHANGED <<clone, state, active, expired, trans, failed, doomed, reader>>

(* pipapo_maybe_clone: the match an update works on, and what is in it.    *)
MaybeClone == IF clone # NoTable THEN {clone} ELSE Tables \ used
Content(c) == IF c = clone THEN elems[c] ELSE elems[match]
StateOf(c) == IF c = clone THEN state[c] ELSE "NEW"

SetClone(c, es, st) ==
  /\ clone' = c
  /\ elems' = [elems EXCEPT ![c] = es]
  /\ state' = [state EXCEPT ![c] = st]

Keep(c) == SetClone(c, Content(c), StateOf(c))

(* pipapo_get in the next generation.                                      *)
Get(c, k) ==
  {e \in Content(c) : KeyOf[e] = k /\ "next" \in active[e] /\ e \notin expired}

Updating == phase = "prepare" /\ Len(trans) < MaxTrans
               /\ \A i \in DOMAIN trans : trans[i].op # "delset"

(* nft_pipapo_insert *)
Insert(e) ==
  /\ Updating /\ e \notin used
  /\ \E c \in MaybeClone :
       /\ StateOf(c) # "ERR" /\ Get(c, KeyOf[e]) = {}
       /\ SetClone(c, Content(c) \cup {e}, "MOD")
       /\ used' = used \cup {c, e}
  /\ active' = [active EXCEPT ![e] = {"next"}]
  /\ expired' = expired \ {e}
  /\ trans' = Append(trans, [op |-> "newelem", e |-> e])
  /\ UNCHANGED <<phase, match, failed, doomed, reader>>

(* ... -EEXIST, which is no error without NLM_F_EXCL. *)
InsertExists(k) ==
  /\ Updating
  /\ \E c \in MaybeClone :
       /\ StateOf(c) # "ERR" /\ Get(c, k) # {}
       /\ Keep(c)
       /\ used' = used \cup {c}
  /\ failed' \in {failed, TRUE}
  /\ UNCHANGED <<phase, match, active, expired, trans, doomed, reader>>

(* Faulty: as before patch 0018. *)
BreaksUnmarked(c) == SetClone(c, {}, StateOf(c)) /\ used' = used \cup {c}

(* The abort label: some fields of the clone have been changed already.    *)
Breaks(c) ==
  IF StateOf(c) = "NEW"
  THEN /\ clone' = NoTable
       /\ used' = used \ {c}
       /\ UNCHANGED <<elems, state>>
  ELSE \E es \in SUBSET Content(c) : SetClone(c, es, "ERR") /\ UNCHANGED used

(* ... no memory for a field or for the scratch maps. *)
InsertFails(k) ==
  /\ Updating
  /\ \E c \in MaybeClone :
       StateOf(c) # "ERR" /\ Get(c, k) = {} /\ Breaks(c)
  /\ failed' = TRUE
  /\ UNCHANGED <<phase, match, active, expired, trans, doomed, reader>>

(* nft_pipapo_deactivate finds an element *)
Deactivate(e) ==
  /\ Updating
  /\ \E c \in MaybeClone :
       /\ StateOf(c) # "ERR" /\ e \in Get(c, KeyOf[e])
       /\ Keep(c)
       /\ used' = used \cup {c}
  /\ active' = [active EXCEPT ![e] = @ \ {"next"}]
  /\ trans' = Append(trans, [op |-> "delelem", e |-> e])
  /\ UNCHANGED <<phase, match, expired, failed, doomed, reader>>

(* ... or none. *)
DeactivateMissing(k) ==
  /\ Updating
  /\ \E c \in MaybeClone :
       /\ StateOf(c) # "ERR" /\ Get(c, k) = {}
       /\ Keep(c)
       /\ used' = used \cup {c}
  /\ failed' = TRUE
  /\ UNCHANGED <<phase, match, active, expired, trans, doomed, reader>>

(* Faulty: nft_flush_set does not skip elements that are inactive already. *)
FlushableAll(c) == Content(c)

(* What nft_flush_set makes a record of: elements active in the next       *)
(* generation, expired or not.                                             *)
Flushable(c) == {e \in Content(c) : "next" \in active[e]}

(* The NFT_ITER_UPDATE_CLONE walk of nf_tables_delsetelem, which ends at   *)
(* the first record that cannot be allocated; the generation bit is        *)
(* toggled (nft_set_elem_change_active).                                   *)
Flush ==
  /\ Updating
  /\ \E c \in MaybeClone : \E es \in SUBSET Flushable(c) :
       /\ Len(trans) + Cardinality(es) <= MaxTrans
       /\ Keep(c)
       /\ used' = used \cup {c}
       /\ active' = [e \in Elems |->
            IF e \notin es THEN active[e]
            ELSE IF "next" \in active[e] THEN active[e] \ {"next"}
            ELSE active[e] \cup {"next"}]
       /\ trans' = trans \o SetToSeq([op : {"delelem"}, e : es])
       /\ failed' = (failed \/ es # Flushable(c))
  /\ UNCHANGED <<phase, match, expired, doomed, reader>>

DeleteSet ==
  /\ Updating
  /\ trans' = Append(trans, [op |-> "delset"])
  /\ UNCHANGED <<phase, failed, tables, used, active, expired, doomed, reader>>

(* No memory for a clone, an erroneous clone, or an error elsewhere in the *)
(* batch.                                                                  *)
CommandFails ==
  /\ phase = "prepare"
  /\ failed' = TRUE
  /\ UNCHANGED <<phase, tables, used, active, expired, trans, doomed, reader>>

-----------------------------------------------------------------------------
(* The end of a batch *)

(* The generations change place. *)
Flip ==
  /\ phase = "prepare" /\ ~failed /\ trans # <<>>
  /\ active' = [e \in Elems |->
       (IF "cur" \in active[e] THEN {"next"} ELSE {})
       \cup (IF "next" \in active[e] THEN {"cur"} ELSE {})]
  /\ phase' = "flipped"
  /\ UNCHANGED <<tables, used, expired, trans, failed, doomed, reader>>

(* Faulty: collected elements are freed at once. *)
CollectEarly(old, gc, del) ==
  /\ doomed' = Doom({old} \cup del)
  /\ used' = used \ gc

Collect(old, gc, del) == doomed' = Doom({old} \cup gc \cup del) /\ UNCHANGED used

(* The records: new elements become active in both generations, deleted    *)
(* ones leave the clone.  nft_pipapo_commit: expired elements leave the    *)
(* clone too, if a scan is due and as far as memory lasts; the clone is    *)
(* published; everything old is freed after a grace period.                *)
Publish ==
  LET del == Recorded("delelem") IN
  /\ clone # NoTable
  /\ \E gc \in SUBSET ((elems[clone] \cap expired) \ del) :
       /\ elems' = [elems EXCEPT ![clone] = @ \ (del \cup gc)]
       /\ Collect(match, gc, del)
  /\ match' = clone
  /\ clone' = NoTable
  /\ UNCHANGED state

Commit ==
  /\ phase = "flipped"
  /\ active' = [e \in Elems |-> IF e \in Recorded("newelem") THEN Both ELSE active[e]]
  /\ IF Recorded("newelem") \cup Recorded("delelem") # {}
     THEN Publish
     ELSE UNCHANGED <<tables, used, doomed>>
  /\ phase' = IF \E i \in DOMAIN trans : trans[i].op = "delset" THEN "deleted" ELSE "prepare"
  /\ trans' = <<>>
  /\ UNCHANGED <<expired, failed, reader>>

(* Faulty: a clone survives the abort. *)
AbortKeeps == UNCHANGED <<clone, used>>

(* nft_pipapo_abort *)
AbortClone == clone' = NoTable /\ used' = used \ {clone}

(* __nf_tables_abort: deleted elements become active again, new ones are   *)
(* not removed from the clone but freed after it; a set without records is *)
(* not told.                                                               *)
Abort ==
  LET new == Recorded("newelem")
      del == Recorded("delelem") IN
  /\ phase = "prepare" /\ (failed \/ trans # <<>>)
  /\ active' = [e \in Elems |-> IF e \in del THEN active[e] \cup {"next"} ELSE active[e]]
  /\ IF new \cup del # {} THEN AbortClone ELSE UNCHANGED <<clone, used>>
  /\ doomed' = Doom(new)
  /\ trans' = <<>>
  /\ failed' = FALSE
  /\ UNCHANGED <<phase, match, elems, state, expired, reader>>

DestroyTables ==
  /\ used' = used \ (elems[IF clone # NoTable THEN clone ELSE match] \cup {match, clone})
  /\ match' = NoTable /\ clone' = NoTable

(* nft_pipapo_destroy: rules do not refer to the set any more.             *)
Destroy ==
  /\ phase = "deleted" /\ Reading = {}
  /\ DestroyTables
  /\ phase' = "none"
  /\ UNCHANGED <<elems, state, active, expired, trans, failed, doomed, reader>>

-----------------------------------------------------------------------------
(* Elsewhere *)

(* The control plane's clock is read when a batch begins.                  *)
Expire(e) ==
  /\ phase = "prepare" /\ trans = <<>> /\ ~failed
  /\ e \in used \ expired
  /\ expired' = expired \cup {e}
  /\ UNCHANGED <<ctl, tables, used, active, doomed, reader>>

ReadBegin(r) ==
  /\ reader[r] = NoTable /\ phase \in {"prepare", "flipped"}
  /\ reader' = [reader EXCEPT ![r] = match]
  /\ UNCHANGED <<ctl, tables, used, active, expired, doomed>>

ReadEnd(r) ==
  /\ reader[r] # NoTable
  /\ reader' = [reader EXCEPT ![r] = NoTable]
  /\ doomed' = [i \in DOMAIN doomed |-> [doomed[i] EXCEPT !.waits = @ \ {r}]]
  /\ UNCHANGED <<ctl, tables, used, active, expired>>

Free(i) ==
  /\ doomed[i].waits = {}
  /\ used' = used \ doomed[i].objs
  /\ doomed' = RemoveAt(doomed, i)
  /\ UNCHANGED <<ctl, tables, active, expired, reader>>

Command ==
  \/ CreateSet \/ Flush \/ DeleteSet \/ CommandFails
  \/ \E e \in Elems : Insert(e) \/ Deactivate(e)
  \/ \E e \in Elems : LET k == KeyOf[e] IN
       InsertExists(k) \/ InsertFails(k) \/ DeactivateMissing(k)

Next ==
  \/ Command \/ Flip \/ Commit \/ Abort \/ Destroy
  \/ \E e \in Elems : Expire(e)
  \/ \E r \in Readers : ReadBegin(r) \/ ReadEnd(r)
  \/ \E i \in DOMAIN doomed : Free(i)

Spec == Init /\ [][Next]_vars

=============================================================================
