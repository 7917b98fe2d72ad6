----------------------------- MODULE SockmapSeq -----------------------------
(***************************************************************************)
(* The receive sequence of a TCP socket in a sockmap, after                *)
(* sockmap-patch-v6: a stream verdict passes, drops or redirects received  *)
(* skbs, user space reads passed data from ingress_msg, and copied_seq     *)
(* must count every received byte once, in order, also across partial      *)
(* native reads before the psock is attached and after it is detached.     *)
(*                                                                         *)
(* Bytes are units of sequence space.  Verdicts run with the socket locked *)
(* or in softirq, so never while a reader takes messages; the backlog      *)
(* worker takes no socket lock.  The code leaves five cases open in which  *)
(* the count goes wrong; an instance contains those that Gaps names.  A    *)
(* definition marked "Faulty" is no part of the specification: it is the   *)
(* next definition with a slip.                                            *)
(***************************************************************************)
EXTENDS Naturals, Sequences, FiniteSetsExt

CONSTANTS
  Verdicts,     \* verdicts the program returns: "pass", "drop", "redirect"
  Sizes,        \* lengths of skbs
  Backlog,      \* whether skbs can get into ingress_skb
  Gaps,         \* which of the cases the series leaves open can happen
  None,
  MaxBytes,     \* bound: bytes received
  MaxRedirects, \* bound: skbs other sockets redirect here
  MaxAttaches   \* bound: psocks

ASSUME SockmapAssumption ==
  /\ Verdicts \subseteq {"pass", "drop", "redirect"}
  /\ Backlog \in BOOLEAN
  /\ Gaps \subseteq {"overtake",  \* a skip eats past passed skbs in ingress_skb
                     "self",      \* a redirect to this socket's own ingress
                     "inside",    \* a skip eats while a reader holds its seq
                     "adopt",     \* a retry takes another's skb for an own one
                     "late"}      \* a pass is published after sk_psock_stop
  /\ MaxBytes \in Nat /\ MaxRedirects \in Nat /\ MaxAttaches \in Nat
  /\ Sizes \subseteq 1..MaxBytes
  /\ None \notin Nat \cup [off : Nat, len : Nat]

VARIABLES
  rcvNxt,     \* tcp->rcv_nxt
  copied,     \* tcp->copied_seq
  queue,      \* sk_receive_queue
  psock,      \* whether a psock is attached
  alive,      \* whether its last reference is still to be put
  tx,         \* SK_PSOCK_TX_ENABLED
  skbs,       \* psock->ingress_skb
  msgs,       \* psock->ingress_msg
  seqMsg,     \* psock->ingress_seq_msg
  work,       \* the worker: the range it has computed, or None
  resume,     \* psock->work_state
  reader,     \* recvmsg in progress: its local seq, or None
  waiting,    \* whether it has read nothing so far
  delivered,  \* history: the end of what user space has read
  redirects, attaches

sock    == <<rcvNxt, copied, queue>>
state   == <<psock, alive, tx>>
ingress == <<skbs, msgs, seqMsg>>
worker  == <<work, resume>>
recv    == <<reader, waiting>>
bounds  == <<redirects, attaches>>
vars    == <<sock, state, ingress, worker, recv, delivered, bounds>>

(* An skb is this socket's ("own"), with the self-ingress bit once it has  *)
(* been passed ("passed"), or another socket's ("other"); one redirected   *)
(* for egress is to be sent ("out").                                       *)
Kinds == {"own", "passed", "other", "out"}

Seqs  == 0..MaxBytes
Skb   == [kind : Kinds, seq : Nat, end : Nat]
Msg   == [self : BOOLEAN, end : Nat, len : Seqs, skip : Seqs]
Extent == [off : Seqs, len : Seqs]

TypeOK ==
  /\ rcvNxt \in Seqs /\ copied \in Seqs
  /\ queue \in Seq(Skb) /\ skbs \in Seq(Skb) /\ msgs \in Seq(Msg)
  /\ psock \in BOOLEAN /\ alive \in BOOLEAN /\ tx \in BOOLEAN
  /\ seqMsg \in Nat \cup {None}
  /\ work \in Extent \cup {None} /\ resume \in Extent \cup {None}
  /\ reader \in Nat \cup {None} /\ waiting \in BOOLEAN
  /\ delivered \in Seqs
  /\ redirects \in 0..MaxRedirects /\ attaches \in 0..MaxAttaches

Init ==
  /\ rcvNxt = 0 /\ copied = 0 /\ queue = <<>>
  /\ psock = FALSE /\ alive = FALSE /\ tx = FALSE
  /\ skbs = <<>> /\ msgs = <<>> /\ seqMsg = None
  /\ work = None /\ resume = None
  /\ reader = None /\ waiting = FALSE
  /\ delivered = 0 /\ redirects = 0 /\ attaches = 0

-----------------------------------------------------------------------------
(* Sequence space *)

(* Faulty: as if no prefix could have been read. *)
ReadableWhole(skb) == skb.end - skb.seq

(* tcp_skb_readable_len                                                    *)
Readable(skb) == IF copied >= skb.end THEN 0 ELSE skb.end - Max({copied, skb.seq})

(* skb_bpf_self_ingress: what is trimmed, and counted on detach. *)
Trimmed(skb) == skb.kind = "passed"

(* What sk_psock_skb_ingress makes a message of the socket itself: one     *)
(* with the bit, or with skb->sk = sk.                                     *)
Ours(skb) == skb.kind \in {"passed", "own"}

(* sk_psock_skb_ingress_range; length 0 for false. *)
IngressRange(skb) ==
  LET len == IF Trimmed(skb) THEN Readable(skb) ELSE skb.end - skb.seq
  IN [off |-> skb.end - skb.seq - len, len |-> len]

(* sk_psock_queue_msg; the message of an own skb has msg->sk = psock->sk,  *)
(* is counted when it is read and is the one to defer to.                  *)
QueueMsg(skb, range) ==
  IF tx
  THEN /\ msgs' = Append(msgs, [self |-> Ours(skb), end |-> skb.end,
                                len |-> range.len, skip |-> 0])
       /\ seqMsg' = IF Ours(skb) THEN skb.end ELSE seqMsg
  ELSE UNCHANGED <<msgs, seqMsg>>

(* Faulty: skipped sequence is never deferred. *)
DeferNever(n) == FALSE

(* sk_psock_defer_tcp_eat finds a message to defer to. *)
Deferrable(n) == seqMsg # None

IsSeqMsg(m) == m.self /\ m.end = seqMsg

(* sk_psock_defer_tcp_eat, or tcp_eat_skb of what has not been read.       *)
Eat(skb) ==
  LET n == Readable(skb) IN
  IF n > 0 /\ Deferrable(n)
  THEN /\ msgs' = [i \in DOMAIN msgs |->
                     IF IsSeqMsg(msgs[i]) THEN [msgs[i] EXCEPT !.skip = @ + n] ELSE msgs[i]]
       /\ UNCHANGED <<copied, seqMsg>>
  ELSE copied' = copied + (IF n = 0 THEN 0 ELSE skb.end - copied) /\ UNCHANGED <<msgs, seqMsg>>

-----------------------------------------------------------------------------
(* The receive path *)

Arrive(n) ==
  /\ rcvNxt + n <= MaxBytes
  /\ rcvNxt' = rcvNxt + n
  /\ queue' = Append(queue, [kind |-> "own", seq |-> rcvNxt, end |-> rcvNxt + n])
  /\ UNCHANGED <<copied, state, ingress, worker, recv, delivered, bounds>>

(* tcp_read_skb hands the head of the receive queue to the verdict.  A     *)
(* reader runs it before it has read anything, from tcp_data_ready, and    *)
(* lets softirq run it while it waits with the socket unlocked.            *)
Verdict == psock /\ (reader = None \/ waiting) /\ queue # <<>>

Taken == queue' = Tail(queue)

Passed(skb) == [skb EXCEPT !.kind = "passed"]

(* __SK_PASS: into ingress_msg directly if nothing waits in ingress_skb    *)
(* and memory permits; sk_psock_stop may come between the test of          *)
(* SK_PSOCK_TX_ENABLED and the message ...                                 *)
PassDirect ==
  LET skb   == Passed(Head(queue))
      range == IngressRange(skb)
  IN
  /\ Verdict /\ "pass" \in Verdicts /\ skbs = <<>>
  /\ tx \/ "late" \in Gaps
  /\ IF range.len = 0 THEN UNCHANGED <<msgs, seqMsg>> ELSE QueueMsg(skb, range)
  /\ Taken
  /\ UNCHANGED <<rcvNxt, copied, state, skbs, worker, recv, delivered, bounds>>

(* ... or else through ingress_skb.                                        *)
PassQueued ==
  LET skb == Passed(Head(queue)) IN
  /\ Verdict /\ "pass" \in Verdicts /\ Backlog /\ tx
  /\ skbs # <<>> \/ IngressRange(skb).len > 0
  /\ skbs' = Append(skbs, skb)
  /\ Taken
  /\ UNCHANGED <<rcvNxt, copied, state, msgs, seqMsg, worker, recv, delivered, bounds>>

(* Whether the head of the queue can be eaten: copied_seq jumps over what  *)
(* waits in ingress_skb, and behind the back of a reader, only in a gap.   *)
Eatable ==
  LET n == Readable(Head(queue)) IN
  /\ "overtake" \in Gaps \/ \A i \in DOMAIN skbs : ~Trimmed(skbs[i])
  /\ "inside" \in Gaps \/ reader = None \/ n = 0 \/ Deferrable(n)

(* __SK_DROP; __SK_REDIRECT to another socket, or to none that takes it;   *)
(* and __SK_PASS when SK_PSOCK_TX_ENABLED is clear.                        *)
Skip ==
  /\ Verdict /\ Eatable
  /\ Verdicts \cap {"drop", "redirect"} # {} \/ ("pass" \in Verdicts /\ ~tx)
  /\ Eat(Head(queue))
  /\ Taken
  /\ UNCHANGED <<rcvNxt, state, skbs, worker, recv, delivered, bounds>>

(* __SK_REDIRECT to the socket itself: for egress, or with BPF_F_INGRESS   *)
(* in a gap, since skb->sk stays its own and the bytes that are eaten here *)
(* will be counted again when they are read.                               *)
RedirectSelf ==
  /\ Verdict /\ Eatable /\ "redirect" \in Verdicts /\ Backlog /\ tx
  /\ Eat(Head(queue))
  /\ \E kind \in IF "self" \in Gaps THEN {"own", "out"} ELSE {"out"} :
       skbs' = Append(skbs, [Head(queue) EXCEPT !.kind = kind])
  /\ Taken
  /\ UNCHANGED <<rcvNxt, state, worker, recv, delivered, bounds>>

(* Another socket's verdict redirects an skb here, of another sequence     *)
(* space, to be read or to be sent.                                        *)
RedirectIn(n) ==
  LET seq == MaxBytes + MaxBytes * redirects IN
  /\ psock /\ tx /\ Backlog /\ redirects < MaxRedirects
  /\ redirects' = redirects + 1
  /\ \E kind \in {"other", "out"} :
       skbs' = Append(skbs, [kind |-> kind, seq |-> seq, end |-> seq + n])
  /\ UNCHANGED <<sock, state, msgs, seqMsg, worker, recv, delivered, attaches>>

-----------------------------------------------------------------------------
(* sk_psock_backlog *)

(* The worker holds a reference while it runs. *)
WorkRange ==
  /\ alive /\ tx /\ work = None /\ skbs # <<>>
  /\ work' = IF resume # None THEN resume ELSE IngressRange(Head(skbs))
  /\ UNCHANGED <<sock, state, ingress, resume, recv, delivered, bounds>>

(* The message is queued, or the skb sent, or dropped if nothing is left.  *)
WorkPublish ==
  /\ work # None
  /\ IF work.len = 0 \/ Head(skbs).kind = "out"
     THEN UNCHANGED <<msgs, seqMsg>>
     ELSE QueueMsg(Head(skbs), work)
  /\ resume' = IF work.len = 0 THEN resume ELSE None
  /\ skbs' = Tail(skbs) /\ work' = None
  /\ UNCHANGED <<sock, state, recv, delivered, bounds>>

(* -EAGAIN: the range is kept for the next attempt.  If the failure comes  *)
(* after skb_set_owner_r, the next one takes the skb for an own one.       *)
WorkAgain ==
  /\ work # None /\ work.len > 0
  /\ resume' = work /\ work' = None
  /\ skbs' \in {skbs} \cup
       IF "adopt" \in Gaps /\ Head(skbs).kind = "other"
       THEN {[skbs EXCEPT ![1].kind = "own"]} ELSE {}
  /\ UNCHANGED <<sock, state, msgs, seqMsg, recv, delivered, bounds>>

(* A hard error in sending: the skb stays, and the worker stops for good.  *)
WorkFail ==
  /\ work # None /\ Head(skbs).kind = "out"
  /\ tx' = FALSE /\ work' = None
  /\ UNCHANGED <<sock, psock, alive, ingress, resume, recv, delivered, bounds>>

-----------------------------------------------------------------------------
(* Readers *)

(* Faulty: rx_seq_skip of a message that has been read is not counted. *)
FromSelfUnskipped(m, n) == IF m.self THEN n ELSE 0

(* What reading n bytes of a message counts for. *)
FromSelf(m, n) == IF m.self THEN n + (IF n = m.len THEN m.skip ELSE 0) ELSE 0

(* sk_psock_dequeue_msg_locked: ingress_seq_msg once m has left the list.  *)
SeqMsgWithout(m) == IF IsSeqMsg(m) THEN None ELSE seqMsg

(* tcp_bpf_recvmsg_parser takes the socket and a reference, and its copy   *)
(* of copied_seq, before it looks for data.                                *)
RecvBegin ==
  /\ alive /\ reader = None
  /\ reader' = copied /\ waiting' = TRUE
  /\ UNCHANGED <<sock, state, ingress, worker, delivered, bounds>>

(* __sk_msg_recvmsg: a message that is read to its end leaves the list.    *)
RecvMsg(n) ==
  LET m == Head(msgs) IN
  /\ reader # None /\ msgs # <<>> /\ n \in 1..m.len
  /\ reader' = reader + FromSelf(m, n) /\ waiting' = FALSE
  /\ IF n = m.len
     THEN msgs' = Tail(msgs) /\ seqMsg' = SeqMsgWithout(m)
     ELSE msgs' = [msgs EXCEPT ![1].len = @ - n] /\ UNCHANGED seqMsg
  /\ delivered' = IF m.self THEN m.end - m.len + n ELSE delivered
  /\ UNCHANGED <<sock, state, skbs, worker, bounds>>

RecvEnd ==
  /\ reader # None
  /\ copied' = reader
  /\ reader' = None /\ waiting' = FALSE
  /\ UNCHANGED <<rcvNxt, queue, state, ingress, worker, delivered, bounds>>

(* tcp_recvmsg without a psock: from the skb copied_seq points into.       *)
NativeRecv(n) ==
  LET skb == Head(queue) IN
  /\ ~psock /\ queue # <<>> /\ skb.seq <= copied /\ copied + n <= skb.end
  /\ copied' = copied + n
  /\ delivered' = copied + n
  /\ queue' = IF copied + n = skb.end THEN Tail(queue) ELSE queue
  /\ UNCHANGED <<rcvNxt, state, ingress, worker, recv, bounds>>

-----------------------------------------------------------------------------
(* The psock *)

Attach ==
  /\ ~psock /\ attaches < MaxAttaches
  /\ psock' = TRUE /\ alive' = TRUE /\ tx' = TRUE
  /\ attaches' = attaches + 1
  /\ UNCHANGED <<sock, ingress, worker, recv, delivered, redirects>>

(* sk_psock_account_ingress_seq                                            *)
Pending ==
  SumFunction([i \in DOMAIN msgs |-> IF msgs[i].self THEN msgs[i].len + msgs[i].skip ELSE 0])
  + SumFunction([i \in DOMAIN skbs |-> IF Trimmed(skbs[i]) THEN Readable(skbs[i]) ELSE 0])

(* sk_psock_put of the last reference: no reader is inside and no worker   *)
(* runs.  sk_psock_drop stops the psock, ...                               *)
Stop ==
  /\ alive /\ reader = None /\ work = None
  /\ alive' = FALSE /\ tx' = FALSE
  /\ UNCHANGED <<sock, psock, ingress, worker, recv, delivered, bounds>>

(* ... and, with the verdict callback stopped, counts what is pending and  *)
(* detaches it.                                                            *)
Detach ==
  /\ psock /\ ~alive
  /\ copied' = copied + Pending
  /\ psock' = FALSE
  /\ skbs' = <<>> /\ msgs' = <<>> /\ seqMsg' = None /\ resume' = None
  /\ UNCHANGED <<rcvNxt, queue, alive, tx, work, recv, delivered, bounds>>

Next ==
  \/ \E n \in Sizes : Arrive(n) \/ RedirectIn(n)
  \/ PassDirect \/ PassQueued \/ Skip \/ RedirectSelf
  \/ WorkRange \/ WorkPublish \/ WorkAgain \/ WorkFail
  \/ RecvBegin \/ RecvEnd
  \/ \E n \in Seqs \ {0} : RecvMsg(n) \/ NativeRecv(n)
  \/ Attach \/ Stop \/ Detach

Spec == Init /\ [][Next]_vars

-----------------------------------------------------------------------------
(* Properties *)

(* No byte is counted twice or never: what copied_seq has not counted is   *)
(* in the receive queue, on its way to user space, or deferred behind      *)
(* something that is.                                                      *)
EveryByteOnce ==
  (IF reader = None THEN copied ELSE reader) + Pending
    + SumFunction([i \in DOMAIN queue |-> Readable(queue[i])]) = rcvNxt

(* Where the unread data of this socket in ingress_msg begin.              *)
Unread == {msgs[i].end - msgs[i].len : i \in {j \in DOMAIN msgs : msgs[j].self}}

(* copied_seq does not advance past passed data before user space has read *)
(* them, neither those in ingress_msg nor those still in ingress_skb, and  *)
(* user space reads no byte twice: what is queued begins after what has    *)
(* been delivered, also by the native path.                                *)
BehindUnread ==
  /\ \A s \in Unread : copied <= s /\ delivered <= s
  /\ \A i \in DOMAIN skbs : Trimmed(skbs[i]) => copied < skbs[i].end

(* tcp_recvmsg_locked finds its place in the receive queue whenever the    *)
(* psock is gone.                                                          *)
NativeContinues ==
  ~psock => copied <= rcvNxt /\ (queue # <<>> => Head(queue).seq <= copied)

(* The series' aim: copied_seq does not move beyond rcv_nxt, with every    *)
(* verdict and the backlog worker together.                                *)
WithinReceived == copied <= rcvNxt
=============================================================================
