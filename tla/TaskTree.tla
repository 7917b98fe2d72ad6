------------------------------ MODULE TaskTree ------------------------------
(***************************************************************************)
(* The process tree after tasklist_opt/0001: fork, exit, reparenting,      *)
(* ptrace, wait and the subreaper walk without one tasklist_lock.  A       *)
(* process leader's home shard, its group's tasklist_state_lock and its    *)
(* parent's tasklist_links_lock take its place; waiting, attaching and     *)
(* detaching take all shards.                                              *)
(*                                                                         *)
(* Threads of a process are tasks with the same leader; the leader stands  *)
(* for the signal_struct.  A links lock is held for one step, and so is    *)
(* the rcu_read_lock of a hop to an ancestor: between two hops anything    *)
(* may happen.  A definition marked "Faulty" is no part of the             *)
(* specification: it is the next definition with a slip.                   *)
(***************************************************************************)
EXTENDS Naturals, FiniteSets

CONSTANTS
  Tasks,       \* task_structs
  None,        \* NULL, and the idle task as an ancestor
  InitProcess, \* the leader of the PID namespace's init
  Nodes,       \* NUMA nodes
  Parent0,     \* the tree at the start: task -> its parent
  Leader0,     \* task -> its group_leader; of the same tasks
  Home0,       \* task -> its task_domain_nid
  Exiters,     \* bound: tasks that exit
  Forkers,     \* bound: tasks that fork
  Ignorers,    \* groups that ignore SIGCHLD
  Subreapers,  \* bound: tasks that call prctl(PR_SET_CHILD_SUBREAPER)
  Tracings     \* bound: pairs of a tracer and a tracee

Born == DOMAIN Parent0

ASSUME TaskTreeAssumption ==
  /\ IsFiniteSet(Tasks) /\ None \notin Tasks /\ Born \subseteq Tasks /\ InitProcess \in Born
  /\ Parent0 \in [Born -> Born \cup {None}] /\ Leader0 \in [Born -> Born]
  /\ Home0 \in [Born -> Nodes]
  (* The threads of a process have one parent, all but init have one, and  *)
  (* nobody is its own ancestor.                                           *)
  /\ Leader0[InitProcess] = InitProcess
  /\ \A t \in Born :
       /\ Leader0[Leader0[t]] = Leader0[t] /\ Parent0[Leader0[t]] = Parent0[t]
       /\ Parent0[t] = None <=> Leader0[t] = InitProcess
  /\ \E age \in [Born -> 0..Cardinality(Born)] :
       \A t \in Born : Parent0[t] # None => age[Leader0[Parent0[t]]] < age[Leader0[t]]

VARIABLES
  (* struct task_struct *)
  hashed,      \* tasks with a PID (pid_alive), in their thread lists
  leader,      \* leader[t]: its group_leader
  home,        \* home[t]: task_domain_nid
  realParent, parent,
  children,    \* children[t]: the leaders on its children list
  ptraced,     \* ptraced[t]: the tasks on its ptraced list
  traced,      \* tasks with ->ptrace
  exitState,   \* exitState[t]: "live", "zombie", "trace", "dead"
  exiting,     \* tasks with PF_EXITING
  childReaper, \* pid_ns->child_reaper: a thread of init
  (* struct signal_struct, by leader *)
  isSub,       \* groups with is_child_subreaper
  hasSub,      \* groups with has_child_subreaper
  state,       \* state[g]: who has tasklist_state_lock, or None
  (* Shards *)
  shard,       \* shard[n]: who has write-locked it, or None
  (* Control *)
  pc,
  cur,         \* cur[t]: the child, tracee or zombie t is dealing with
  cursor,      \* cursor[t]: where find_new_reaper has got to
  dead,        \* dead[t]: what t has claimed for release_task
  walk,        \* walk_process_tree: who walks and the groups it will visit, has visited
  (* History *)
  told         \* told[t]: the group that was last notified of t's death

links   == <<realParent, parent, children, ptraced, traced>>
groups  == <<leader, home, hashed>>
sub     == <<isSub, hasSub, walk>>
status  == <<exitState, dead, told>>
locks   == <<state, shard>>
control == <<pc, cur, cursor>>
vars    == <<groups, links, exiting, childReaper, sub, status, locks, control>>

States == {"none", "born", "run", "fork", "publish", "shard", "tracees", "tracee", "reaper",
           "state", "children", "child", "find", "hop", "adopt", "notify", "gone", "release",
           "trace", "walk", "visit"}

NoWalk == [by |-> None, todo |-> {}, done |-> {}]

GroupsType ==
  hashed \subseteq Tasks /\ leader \in [Tasks -> Tasks] /\ home \in [Tasks -> Nodes]
LinksType ==
  /\ realParent \in [Tasks -> Tasks \cup {None}] /\ parent \in [Tasks -> Tasks \cup {None}]
  /\ children \in [Tasks -> SUBSET Tasks] /\ ptraced \in [Tasks -> SUBSET Tasks]
  /\ traced \subseteq Tasks
StatusType ==
  /\ exitState \in [Tasks -> {"live", "zombie", "trace", "dead"}]
  /\ dead \in [Tasks -> SUBSET Tasks] /\ told \in [Tasks -> Tasks \cup {None}]
SubType ==
  /\ isSub \subseteq Tasks /\ hasSub \subseteq Tasks
  /\ walk \in [by : Tasks \cup {None}, todo : SUBSET Tasks, done : SUBSET Tasks]
LocksType == state \in [Tasks -> Tasks \cup {None}] /\ shard \in [Nodes -> Tasks \cup {None}]
ControlType ==
  /\ pc \in [Tasks -> States]
  /\ cur \in [Tasks -> Tasks \cup {None}] /\ cursor \in [Tasks -> Tasks \cup {None}]
TypeOK ==
  /\ GroupsType /\ LinksType /\ StatusType /\ SubType /\ LocksType /\ ControlType
  /\ exiting \subseteq Tasks /\ childReaper \in Tasks

Init ==
  /\ hashed = Born
  /\ leader = [t \in Tasks |-> IF t \in Born THEN Leader0[t] ELSE t]
  /\ home = [t \in Tasks |-> IF t \in Born THEN Home0[t] ELSE Home0[InitProcess]]
  /\ realParent = [t \in Tasks |-> IF t \in Born THEN Parent0[t] ELSE None]
  /\ parent = realParent
  /\ children = [t \in Tasks |-> {c \in Born : Parent0[c] = t /\ Leader0[c] = c}]
  /\ ptraced = [t \in Tasks |-> {}] /\ traced = {}
  /\ exitState = [t \in Tasks |-> "live"] /\ exiting = {} /\ childReaper = InitProcess
  /\ isSub = {} /\ hasSub = {} /\ walk = NoWalk
  /\ state = [t \in Tasks |-> None] /\ shard = [n \in Nodes |-> None]
  /\ pc = [t \in Tasks |-> IF t \in Born THEN "run" ELSE "none"]
  /\ cur = [t \in Tasks |-> None] /\ cursor = [t \in Tasks |-> None]
  /\ dead = [t \in Tasks |-> {}]
  /\ told = [t \in Tasks |-> None]

-----------------------------------------------------------------------------
Threads(g) == {u \in hashed : leader[u] = g}
SameGroup(t, u) == leader[t] = leader[u]

(* thread_group_empty, asked of a leader. *)
Alone(p) == Threads(p) = {p}

(* Faulty: an exiting thread will do. *)
AliveThreadsAny(t) == Threads(leader[t])

(* find_alive_thread *)
AliveThreads(t) == Threads(leader[t]) \ exiting

(* t is in user space or at the start of a system call. *)
Idle(t) == pc[t] = "run" /\ dead[t] = {}

Goto(t, to) == pc' = [pc EXCEPT ![t] = to]
Moves(t, from, to) == pc[t] = from /\ Goto(t, to)

NoShardHeld == \A n \in Nodes : shard[n] = None
LockShard(t, n) == shard[n] = None /\ shard' = [shard EXCEPT ![n] = t]
UnlockShard(n) == shard' = [shard EXCEPT ![n] = None]
Free(g) == state[g] = None

(* do_notify_parent, which, if p is not traced, returns Ignores(to).        *)
Ignores(to) == leader[to] \in Ignorers
NotifyParent(p, to) == told' = [told EXCEPT ![p] = leader[to]]

(* Faulty: EXIT_DEAD is stored whatever the state was. *)
ClaimBlindly(t, p, want) ==
  IF want
  THEN /\ exitState' = [exitState EXCEPT ![p] = "dead"]
       /\ dead' = [dead EXCEPT ![t] = @ \cup {p}]
  ELSE UNCHANGED <<exitState, dead>>

(* cmpxchg(&p->exit_state, EXIT_ZOMBIE, EXIT_DEAD) by t, which will        *)
(* release p if it wins.                                                   *)
Claim(t, p, want) ==
  IF want /\ exitState[p] = "zombie"
  THEN /\ exitState' = [exitState EXCEPT ![p] = "dead"]
       /\ dead' = [dead EXCEPT ![t] = @ \cup {p}]
  ELSE UNCHANGED <<exitState, dead>>

-----------------------------------------------------------------------------
(* copy_process *)

(* The shard of the new task: its leader's, or that of the node it starts  *)
(* on, if it is a process.                                                 *)
ForkLock(t, n, nid, thread) ==
  /\ Idle(t) /\ t \in Forkers /\ pc[n] = "none"
  /\ thread => nid = home[leader[t]]
  /\ pc' = [pc EXCEPT ![t] = "fork", ![n] = "born"]
  /\ LockShard(t, nid)
  /\ leader' = [leader EXCEPT ![n] = IF thread THEN leader[t] ELSE n]
  /\ home' = [home EXCEPT ![n] = nid]
  /\ cur' = [cur EXCEPT ![t] = n]
  /\ UNCHANGED <<hashed, links, exiting, childReaper, sub, status, state, cursor>>

(* The groups whose state a fork locks. *)
ForkStates(t) == {leader[t], leader[cur[t]]}

(* The parent is current, or current's with CLONE_PARENT and CLONE_THREAD; *)
(* the tracer of current may get the child, too (ptrace_init_task).        *)
ForkState(t, sibling, auto) ==
  LET n == cur[t]
      p == IF sibling THEN realParent[t] ELSE t IN
  /\ Moves(t, "fork", "publish")
  /\ leader[n] = n \/ sibling
  /\ sibling /\ leader[n] = n => leader[t] # InitProcess
  /\ Free(leader[t])
  /\ state' = [g \in Tasks |-> IF g \in ForkStates(t) THEN t ELSE state[g]]
  /\ realParent' = [realParent EXCEPT ![n] = p]
  /\ IF auto /\ t \in traced
     THEN /\ parent' = [parent EXCEPT ![n] = parent[t]]
          /\ ptraced' = [ptraced EXCEPT ![parent[t]] = @ \cup {n}]
          /\ traced' = traced \cup {n}
     ELSE /\ parent' = [parent EXCEPT ![n] = p]
          /\ UNCHANGED <<ptraced, traced>>
  /\ UNCHANGED <<groups, children, exiting, childReaper, sub, status, shard, cur, cursor>>

(* Faulty: the flag is inherited from current. *)
InheritsCurrent(t, n) == leader[t] \in hasSub \cup isSub

Inherits(t, n) == leader[realParent[n]] \in hasSub \cup isSub

(* The child is put on the children list of its parent, whose flags it     *)
(* inherits under the same links lock, gets its PIDs and is unlocked.      *)
ForkPublish(t) ==
  LET n == cur[t] IN
  /\ pc[t] = "publish" /\ pc' = [pc EXCEPT ![t] = "run", ![n] = "run"]
  /\ hashed' = hashed \cup {n}
  /\ IF leader[n] = n
     THEN /\ children' = [children EXCEPT ![realParent[n]] = @ \cup {n}]
          /\ hasSub' = IF Inherits(t, n) THEN hasSub \cup {n} ELSE hasSub
     ELSE UNCHANGED <<children, hasSub>>
  /\ state' = [g \in Tasks |-> IF g \in ForkStates(t) THEN None ELSE state[g]]
  /\ UnlockShard(home[n])
  /\ cur' = [cur EXCEPT ![t] = None]
  /\ UNCHANGED <<leader, home, realParent, parent, ptraced, traced, exiting, childReaper, isSub,
                 walk, status, cursor>>

-----------------------------------------------------------------------------
(* do_exit, exit_notify *)

(* Bound: the last thread of init stays. *)
Exit(t) ==
  /\ Idle(t) /\ t \in Exiters \cap hashed
  /\ leader[t] = InitProcess => AliveThreads(t) # {t}
  /\ Goto(t, "shard")
  /\ exiting' = exiting \cup {t}
  /\ UNCHANGED <<childReaper, groups, links, sub, status, locks, cur, cursor>>

ExitLock(t) ==
  /\ Moves(t, "shard", "tracees") /\ LockShard(t, home[t])
  /\ UNCHANGED <<groups, links, exiting, childReaper, sub, status, state, cur, cursor>>

(* exit_ptrace: a tracee is pinned under the links lock, *)
TakeTracee(t) ==
  /\ pc[t] = "tracees"
  /\ \/ \E q \in ptraced[t] : cur' = [cur EXCEPT ![t] = q] /\ Goto(t, "tracee")
     \/ /\ ptraced[t] = {} /\ cur' = [cur EXCEPT ![t] = None]
        /\ Goto(t, IF childReaper = t THEN "reaper" ELSE "state")
  /\ UNCHANGED <<groups, links, exiting, childReaper, sub, status, locks, cursor>>

Unlinked(q) ==
  /\ ptraced' = [ptraced EXCEPT ![parent[q]] = @ \ {q}]
  /\ parent' = [parent EXCEPT ![q] = realParent[q]]
  /\ traced' = traced \ {q}

(* __ptrace_detach by t: a zombie that nobody else will see is claimed.    *)
PtraceDetached(t, q) ==
  /\ Unlinked(q)
  /\ IF leader[q] = q /\ Alone(q) /\ exitState[q] = "zombie" /\ ~SameGroup(realParent[q], t)
     THEN NotifyParent(q, realParent[q]) ELSE UNCHANGED told
  /\ Claim(t, q, leader[q] # q \/ (Alone(q) /\ Ignores(realParent[q])))

StillTraced(t, q) == q \in traced /\ parent[q] = t

(* ... and detached under its group's state lock. *)
DropTracee(t) ==
  LET q == cur[t] IN
  /\ Moves(t, "tracee", "tracees") /\ Free(leader[q])
  /\ IF StillTraced(t, q) THEN PtraceDetached(t, q)
     ELSE UNCHANGED <<parent, ptraced, traced, status>>
  /\ UNCHANGED <<groups, realParent, children, exiting, childReaper, sub, locks, cur, cursor>>

(* find_child_reaper: init's orphans go to another thread of it. *)
FindChildReaper(t) ==
  /\ Moves(t, "reaper", "state")
  /\ childReaper' \in AliveThreads(t)
  /\ UNCHANGED <<groups, links, exiting, sub, status, locks, cur, cursor>>

(* forget_original_parent keeps its own group's state lock ... *)
ExitState(t) ==
  /\ Moves(t, "state", "children")
  /\ Free(leader[t]) /\ state' = [state EXCEPT ![leader[t]] = t]
  /\ UNCHANGED <<groups, links, exiting, childReaper, sub, status, shard, cur, cursor>>

(* ... until it finds no child under its links lock. *)
TakeChild(t) ==
  /\ pc[t] = "children"
  /\ \/ \E p \in children[t] :
          cur' = [cur EXCEPT ![t] = p] /\ Goto(t, "child") /\ UNCHANGED state
     \/ /\ children[t] = {}
        /\ Goto(t, "notify") /\ state' = [state EXCEPT ![leader[t]] = None]
        /\ cur' = [cur EXCEPT ![t] = None]
  /\ UNCHANGED <<groups, links, exiting, childReaper, sub, status, shard, cursor>>

(* By the time the child's group is locked, the child may have been        *)
(* released or have another parent.                                        *)
Ours(t, p) == p \in hashed /\ realParent[p] = t

LockChild(t) ==
  LET p == cur[t] IN
  /\ pc[t] = "child" /\ Free(leader[p])
  /\ IF Ours(t, p) THEN Goto(t, "find") /\ state' = [state EXCEPT ![leader[p]] = t]
     ELSE Goto(t, "children") /\ UNCHANGED state
  /\ UNCHANGED <<groups, links, exiting, childReaper, sub, status, shard, cur, cursor>>

(* find_new_reaper: another thread, or a subreaper among the ancestors, or *)
(* the child reaper.                                                       *)
FindThread(t) ==
  /\ pc[t] = "find"
  /\ \/ \E r \in AliveThreads(t) : cursor' = [cursor EXCEPT ![t] = r] /\ Goto(t, "adopt")
     \/ /\ AliveThreads(t) = {}
        /\ IF leader[t] \in hasSub
           THEN cursor' = [cursor EXCEPT ![t] = realParent[t]] /\ Goto(t, "hop")
           ELSE cursor' = [cursor EXCEPT ![t] = childReaper] /\ Goto(t, "adopt")
  /\ UNCHANGED <<groups, links, exiting, childReaper, sub, status, locks, cur>>

(* One ancestor, which may have been released meanwhile. *)
Hop(t) ==
  LET r == cursor[t] IN
  /\ pc[t] = "hop"
  /\ \/ /\ r = None
        /\ cursor' = [cursor EXCEPT ![t] = childReaper] /\ Goto(t, "adopt")
     \/ /\ r # None /\ r \in hashed /\ leader[r] \in isSub
        /\ \E u \in AliveThreads(r) : cursor' = [cursor EXCEPT ![t] = u]
        /\ Goto(t, "adopt")
     \/ /\ r # None
        /\ r \in hashed /\ leader[r] \in isSub => AliveThreads(r) = {}
        /\ cursor' = [cursor EXCEPT ![t] = realParent[r]]
        /\ UNCHANGED pc
  /\ UNCHANGED <<groups, links, exiting, childReaper, sub, status, locks, cur>>

(* Faulty: the candidate is trusted. *)
MayAdoptAny(r) == TRUE

(* PF_EXITING is looked at again under the candidate's links lock; the     *)
(* child reaper has not begun to look through its list yet.                *)
MayAdopt(r) == r \notin exiting \/ r = childReaper

(* Faulty: only the leader gets the new parent. *)
ReparentedLeader(p) == {p}

(* The tasks whose real parent changes with p's. *)
Reparented(p) == Threads(p)

(* Faulty: the new parent is not told of a zombie. *)
MournsNot(t, p) == FALSE

(* reparent_leader has to tell the new parent, or to release, a zombie.    *)
Mourns(t, p) ==
  /\ ~SameGroup(cursor[t], t)
  /\ p \notin traced /\ exitState[p] = "zombie" /\ Alone(p)

Adopt(t) ==
  LET p == cur[t]
      r == cursor[t] IN
  /\ pc[t] = "adopt"
  /\ IF ~MayAdopt(r)
     THEN Goto(t, "find") /\ UNCHANGED <<realParent, parent, children, traced, status, state>>
     ELSE /\ realParent' = [u \in Tasks |-> IF u \in Reparented(p) THEN r ELSE realParent[u]]
          /\ parent' = [u \in Tasks |->
                          IF u \in Reparented(p) \ traced THEN r ELSE parent[u]]
          /\ children' = [children EXCEPT ![t] = @ \ {p}, ![r] = @ \cup {p}]
          /\ UNCHANGED traced
          /\ IF Mourns(t, p)
             THEN NotifyParent(p, r) /\ Claim(t, p, Ignores(r))
             ELSE UNCHANGED status
          /\ state' = [state EXCEPT ![leader[p]] = None]
          /\ Goto(t, "children")
  /\ cursor' = [cursor EXCEPT ![t] = None]
  /\ UNCHANGED <<groups, ptraced, exiting, childReaper, sub, shard, cur>>

(* The rest of exit_notify, under the state lock once more: t becomes a    *)
(* zombie, tells its parent if it is the last thread's leader or traced,   *)
(* and may claim itself.                                                   *)
ExitNotify(t) ==
  LET tells == t \in traced \/ (leader[t] = t /\ Alone(t))
      auto  == t \notin traced /\ (leader[t] # t \/ (Alone(t) /\ Ignores(parent[t]))) IN
  /\ Moves(t, "notify", "gone") /\ Free(leader[t])
  /\ told' = IF tells THEN [told EXCEPT ![t] = leader[parent[t]]] ELSE told
  /\ exitState' = [exitState EXCEPT ![t] = IF auto THEN "dead" ELSE "zombie"]
  /\ dead' = IF auto THEN [dead EXCEPT ![t] = @ \cup {t}] ELSE dead
  /\ UnlockShard(home[t])
  /\ UNCHANGED <<groups, links, exiting, childReaper, sub, state, cur, cursor>>

-----------------------------------------------------------------------------
(* release_task of what a task has claimed, when it has no lock *)

ReleaseLock(t) ==
  /\ pc[t] \in {"run", "gone"}
  /\ \E q \in dead[t] : cur' = [cur EXCEPT ![t] = q] /\ LockShard(t, home[q])
  /\ Goto(t, "release")
  /\ UNCHANGED <<groups, links, exiting, childReaper, sub, status, state, cursor>>

(* The last thread that is released tells the parent of its leader, which  *)
(* has been waiting for it.                                                *)
ZapsLeader(q) ==
  /\ leader[q] # q /\ Threads(leader[q]) = {q, leader[q]}
  /\ exitState[leader[q]] = "zombie"

ReleaseTask(t) ==
  LET q == cur[t]
      l == leader[q]
      zap == ZapsLeader(q) /\ l \notin traced /\ Ignores(parent[l]) IN
  /\ pc[t] = "release" /\ Free(l)
  /\ Goto(t, IF t \in exiting THEN "gone" ELSE "run")
  /\ hashed' = hashed \ {q}
  /\ IF q \in traced THEN Unlinked(q) ELSE UNCHANGED <<ptraced, parent, traced>>
  /\ children' = IF l = q THEN [children EXCEPT ![realParent[q]] = @ \ {q}] ELSE children
  /\ told' = [told EXCEPT ![q] = None, ![l] = IF ZapsLeader(q) THEN leader[parent[l]] ELSE @]
  /\ exitState' = IF zap THEN [exitState EXCEPT ![l] = "dead"] ELSE exitState
  /\ dead' = [dead EXCEPT ![t] = (@ \ {q}) \cup (IF zap THEN {l} ELSE {})]
  /\ UnlockShard(home[q])
  /\ cur' = [cur EXCEPT ![t] = None]
  /\ UNCHANGED <<leader, home, realParent, exiting, childReaper, sub, state, cursor>>

-----------------------------------------------------------------------------
(* Callers that lock all shards *)

(* A zombie that t's group may reap: its own child, or its tracee; not a   *)
(* leader that still has threads.                                          *)
MayReap(t, p) ==
  /\ p \in hashed /\ exitState[p] = "zombie"
  /\ leader[p] = p => Alone(p)
  /\ \E u \in Threads(leader[t]) : p \in ptraced[u] \/ p \in children[u] \ traced

(* ptrace_reparented *)
Reparents(p) == p \in traced /\ ~SameGroup(parent[p], realParent[p])

(* wait_task_zombie: a tracer of somebody else's child must not release it *)
(* but give it back.                                                       *)
Wait(t, p) ==
  /\ Idle(t) /\ NoShardHeld /\ MayReap(t, p)
  /\ IF leader[p] = p /\ Reparents(p)
     THEN /\ exitState' = [exitState EXCEPT ![p] = "trace"]
          /\ cur' = [cur EXCEPT ![t] = p] /\ Goto(t, "trace")
          /\ UNCHANGED <<dead, told>>
     ELSE Claim(t, p, TRUE) /\ UNCHANGED <<cur, pc, told>>
  /\ UNCHANGED <<groups, links, exiting, childReaper, sub, locks, cursor>>

WaitTraced(t) ==
  LET p == cur[t] IN
  /\ Moves(t, "trace", "run") /\ NoShardHeld
  /\ IF p \in traced THEN Unlinked(p) ELSE UNCHANGED <<ptraced, parent, traced>>
  /\ NotifyParent(p, realParent[p])
  /\ exitState' = [exitState EXCEPT ![p] = IF Ignores(realParent[p]) THEN "dead" ELSE "zombie"]
  /\ dead' = IF Ignores(realParent[p]) THEN [dead EXCEPT ![t] = @ \cup {p}] ELSE dead
  /\ cur' = [cur EXCEPT ![t] = None]
  /\ UNCHANGED <<groups, realParent, children, exiting, childReaper, sub, locks, cursor>>

PtraceAttach(t, q) ==
  /\ Idle(t) /\ <<t, q>> \in Tracings /\ NoShardHeld
  /\ q \in hashed \ traced /\ exitState[q] = "live" /\ ~SameGroup(q, t)
  /\ ptraced' = [ptraced EXCEPT ![t] = @ \cup {q}]
  /\ parent' = [parent EXCEPT ![q] = t]
  /\ traced' = traced \cup {q}
  /\ UNCHANGED <<groups, realParent, children, exiting, childReaper, sub, status, locks,
                 control>>

(* ptrace_detach of a tracee that is frozen. *)
PtraceDetach(t, q) ==
  /\ Idle(t) /\ NoShardHeld
  /\ q \in ptraced[t] /\ Idle(q)
  /\ Unlinked(q)
  /\ UNCHANGED <<groups, realParent, children, exiting, childReaper, sub, status, locks,
                 control>>

-----------------------------------------------------------------------------
(* PR_SET_CHILD_SUBREAPER *)

ClearSubreaper(t) ==
  /\ Idle(t) /\ t \in Subreapers /\ leader[t] \in isSub
  /\ isSub' = isSub \ {leader[t]}
  /\ UNCHANGED <<groups, links, exiting, childReaper, hasSub, walk, status, locks, control>>

SetSubreaper(t) ==
  /\ Idle(t) /\ t \in Subreapers
  /\ Goto(t, "walk")
  /\ isSub' = isSub \cup {leader[t]}
  /\ UNCHANGED <<groups, links, exiting, childReaper, hasSub, walk, status, locks, cur, cursor>>

(* walk_process_tree, under tasklist_walk_mutex. *)
WalkBegin(t) ==
  /\ Moves(t, "walk", "visit") /\ walk.by = None
  /\ walk' = [by |-> t, todo |-> {leader[t]}, done |-> {}]
  /\ UNCHANGED <<groups, links, exiting, childReaper, isSub, hasSub, status, locks, cur, cursor>>

(* propagate_has_child_subreaper: whether to go on below g. *)
Descends(t, g) == g \in hashed /\ (g = leader[t] \/ g \notin hasSub \cup {InitProcess})

(* Under the state lock of g it is marked and its children are queued.     *)
WalkVisit(t, g) ==
  LET below == UNION {children[u] : u \in Threads(g)} IN
  /\ pc[t] = "visit" /\ g \in walk.todo /\ Free(g)
  /\ IF Descends(t, g)
     THEN /\ hasSub' = IF g = leader[t] THEN hasSub ELSE hasSub \cup {g}
          /\ walk' = [walk EXCEPT !.todo = (@ \cup (below \ walk.done)) \ {g},
                                  !.done = @ \cup {g}]
     ELSE /\ walk' = [walk EXCEPT !.todo = @ \ {g}, !.done = @ \cup {g}]
          /\ UNCHANGED hasSub
  /\ UNCHANGED <<groups, links, exiting, childReaper, isSub, status, locks, control>>

WalkEnd(t) ==
  /\ Moves(t, "visit", "run") /\ walk.todo = {}
  /\ walk' = NoWalk
  /\ UNCHANGED <<groups, links, exiting, childReaper, isSub, hasSub, status, locks, cur, cursor>>

-----------------------------------------------------------------------------
(* What t has begun and goes on with. *)
Proceed(t) ==
  /\ pc[t] \notin {"none", "born"} /\ ~Idle(t)
  /\ \/ \E sibling, auto \in BOOLEAN : ForkState(t, sibling, auto)
     \/ ForkPublish(t)
     \/ ExitLock(t) \/ TakeTracee(t) \/ FindChildReaper(t) \/ ExitState(t) \/ TakeChild(t)
     \/ LockChild(t) \/ FindThread(t) \/ Hop(t) \/ ReleaseLock(t)
     \/ DropTracee(t) \/ Adopt(t) \/ ExitNotify(t) \/ ReleaseTask(t) \/ WaitTraced(t)
     \/ WalkBegin(t) \/ (\E g \in Tasks : WalkVisit(t, g)) \/ WalkEnd(t)

Start(t) ==
  \/ \E n \in Tasks, nid \in Nodes, thread \in BOOLEAN : ForkLock(t, n, nid, thread)
  \/ Exit(t) \/ SetSubreaper(t) \/ ClearSubreaper(t)
  \/ \E q \in Tasks : Wait(t, q) \/ PtraceAttach(t, q) \/ PtraceDetach(t, q)

Next == \E t \in Tasks : Start(t) \/ Proceed(t)

Spec == Init /\ [][Next]_vars

(* What has been begun goes on, and the locks are queued.                  *)
FairSpec == Spec /\ \A t \in Tasks : SF_vars(Proceed(t))

-----------------------------------------------------------------------------
(* Properties *)

(* The lists say what the pointers say, in every state in which others can *)
(* look: each process is on the children list of the task that all its     *)
(* threads have for a parent, each tracee on the list of its tracer, and   *)
(* nobody else is on any list.                                             *)
Unpublished == {cur[t] : t \in {u \in Tasks : pc[u] = "publish"}}
ListsExact ==
  \A t \in Tasks :
    /\ children[t] = {p \in hashed : leader[p] = p /\ realParent[p] = t}
    /\ ptraced[t] = {q \in traced : parent[q] = t}
    /\ t \in hashed =>
         /\ realParent[t] = realParent[leader[t]]
         /\ t \in traced \/ parent[t] = realParent[t]
    /\ t \in traced => t \in hashed \cup Unpublished

(* Nobody is left to a parent or tracer that has looked through its lists  *)
(* for the last time.                                                      *)
NobodyLeftBehind ==
  \A t \in Tasks :
    /\ pc[t] \in {"notify", "gone"} \/ t \notin hashed => children[t] = {}
    /\ t \in exiting /\ pc[t] \notin {"shard", "tracees", "tracee"} => ptraced[t] = {}

(* What is to be released has been claimed by exactly one task, which will *)
(* release it before it goes on, and what has been released is claimed by  *)
(* nobody.                                                                 *)
ReapedOnce ==
  \A p \in Tasks :
    Cardinality({t \in Tasks : p \in dead[t]}) =
      IF exitState[p] = "dead" /\ p \in hashed THEN 1 ELSE 0

(* A zombie whose threads are gone is no news to the group that may reap   *)
(* it, whoever adopted, traced or gave it back meanwhile.                  *)
ZombiesAnnounced ==
  \A p \in hashed :
    leader[p] = p /\ exitState[p] = "zombie" /\ Alone(p) => told[p] = leader[parent[p]]

(* has_child_subreaper reaches all descendants of a subreaper whose call   *)
(* has returned, and is right below everyone who has it: no exiting task   *)
(* overlooks a subreaper.                                                  *)
SubreapersKnown ==
  \A p \in hashed \ {InitProcess} : leader[p] = p /\ realParent[p] # None =>
    LET g == leader[realParent[p]]
        calls == {t \in Tasks : pc[t] \in {"walk", "visit"}} IN
    (g \in hasSub \/ g \in isSub) /\ calls = {} /\ g # InitProcess => p \in hasSub

(* Whoever exits gets rid of its children and tracees and is gone: nobody  *)
(* waits for a lock or looks for a reaper forever.                         *)
ExitsEnd == \A t \in Tasks : []<>(t \in exiting => pc[t] = "gone")
=============================================================================
