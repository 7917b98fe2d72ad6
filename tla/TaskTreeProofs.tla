---------------------------- MODULE TaskTreeProofs ----------------------------
(***************************************************************************)
(* What a fork, an exit and a wait leave behind, for every tree of tasks   *)
(* and any number of them.                                                 *)
(***************************************************************************)
EXTENDS TaskTree, FiniteSetTheorems, TLAPS

(* t has been given a PID. *)
Started(t) == pc[t] \notin {"none", "born"}

Exits == {"shard", "tracees", "tracee", "reaper", "state", "children", "child", "find", "hop",
          "adopt", "notify"}

(* exit_state, PF_EXITING and the PID say how far a task has got. *)
Life ==
  \A t \in Tasks :
    /\ t \in hashed => Started(t)
    /\ Started(t) /\ t \notin hashed =>
         t \in exiting /\ pc[t] \in {"gone", "release"} /\ exitState[t] = "dead"
    /\ pc[t] \in Exits \cup {"gone"} => t \in exiting
    /\ t \in exiting => pc[t] \in Exits \cup {"gone", "release"}
    /\ exitState[t] # "live" <=> t \in exiting /\ pc[t] \in {"gone", "release"}
    /\ dead[t] # {} => pc[t] \in Exits \cup {"run", "gone", "release"}

(* A group has a leader for as long as it has threads, and gets no new     *)
(* ones when the leader is to be released or given back.                   *)
Groups ==
  \A t \in Tasks :
    /\ leader[leader[t]] = leader[t]
    /\ pc[t] = "none" => leader[t] = t
    /\ leader[t] # t => Started(leader[t])
    /\ t \in hashed => leader[t] \in hashed
Closed == \A p \in hashed : leader[p] = p /\ exitState[p] \in {"dead", "trace"} => Alone(p)

Forks(t) == pc[t] \in {"fork", "publish"}

(* A fork has a task of its own to set up. *)
Forking ==
  /\ \A t \in Tasks : Forks(t) =>
       cur[t] \in Tasks /\ pc[cur[t]] = "born" /\ leader[cur[t]] \in {cur[t], leader[t]}
  /\ \A t, u \in Tasks : Forks(t) /\ Forks(u) /\ cur[t] = cur[u] => t = u

(* What is dead has been claimed, once, and is not released by anybody     *)
(* else.                                                                   *)
Claims ==
  /\ \A t, p \in Tasks : p \in dead[t] => p \in hashed /\ exitState[p] = "dead"
  /\ \A t, u, p \in Tasks : p \in dead[t] /\ p \in dead[u] => t = u
  /\ \A p \in hashed : exitState[p] = "dead" => \E t \in Tasks : p \in dead[t]
Releasing == \A t \in Tasks : pc[t] = "release" => cur[t] \in dead[t]

(* A leader that is given back to its parent is in one tracer's hands. *)
GivenBack ==
  /\ \A t \in Tasks : pc[t] = "trace" =>
       cur[t] \in Tasks /\ leader[cur[t]] = cur[t] /\ exitState[cur[t]] = "trace"
  /\ \A t, u \in Tasks : pc[t] = "trace" /\ pc[u] = "trace" /\ cur[t] = cur[u] => t = u

Seeks == {"find", "hop", "adopt"}

(* tasklist_state_lock *)
Locked ==
  \A t \in Tasks :
    /\ pc[t] \in {"publish", "children", "child"} \cup Seeks => state[leader[t]] = t
    /\ pc[t] \in {"publish"} \cup Seeks => state[leader[cur[t]]] = t

(* The child a task finds a new parent for stays its child, *)
Orphans ==
  \A t \in Tasks :
    /\ pc[t] = "tracee" => cur[t] \in Tasks
    /\ pc[t] \in {"child"} \cup Seeks =>
         cur[t] \in Tasks /\ leader[cur[t]] = cur[t] /\ Started(cur[t])
    /\ pc[t] \in Seeks =>
         cur[t] \in hashed /\ realParent[cur[t]] = t /\ leader[t] # cur[t]

(* ... and the candidate is a task. *)
Cursors ==
  \A t \in Tasks :
    /\ pc[t] = "adopt" => cursor[t] \in Tasks /\ Started(cursor[t])
    /\ pc[t] = "hop" /\ cursor[t] # None => Started(cursor[t])

(* Parents are tasks that have run, and only init has none. *)
Parented ==
  /\ \A t \in Tasks : realParent[t] # None => Started(realParent[t])
  /\ \A t \in traced : parent[t] # None /\ Started(parent[t])
  /\ \A t \in hashed : realParent[t] = None <=> leader[t] = InitProcess

(* The task of a fork that is to be published has the parent that its      *)
(* siblings or the other threads of its group have.                        *)
Newborn ==
  \A t \in Tasks : pc[t] = "publish" =>
    /\ realParent[cur[t]] \in {t, realParent[t]}
    /\ leader[cur[t]] # cur[t] => realParent[cur[t]] = realParent[t]
    /\ leader[cur[t]] = cur[t] => realParent[cur[t]] # None
    /\ cur[t] \notin traced => parent[cur[t]] = realParent[cur[t]]

(* The halves of ListsExact. *)
ChildrenExact ==
  \A t \in Tasks :
    /\ children[t] = {p \in hashed : leader[p] = p /\ realParent[p] = t}
    /\ t \in hashed => realParent[t] = realParent[leader[t]]
TraceesExact ==
  \A t \in Tasks :
    /\ ptraced[t] = {q \in traced : parent[q] = t}
    /\ t \in hashed => t \in traced \/ parent[t] = realParent[t]
    /\ t \in traced => t \in hashed \cup Unpublished

(* init has a thread that stays, and a child reaper that can adopt. *)
Reaper ==
  /\ InitProcess \in hashed /\ leader[InitProcess] = InitProcess
  /\ leader[childReaper] = InitProcess /\ childReaper \in hashed
  /\ childReaper \in exiting => pc[childReaper] \in {"shard", "tracees", "tracee", "reaper"}
  /\ \A t \in Tasks : pc[t] = "reaper" => childReaper = t
  /\ AliveThreads(InitProcess) # {}

(* Who has looked through its children, and through its tracees, for the  *)
(* last time has none: NobodyLeftBehind, and while it releases a task.     *)
Done(t) == exitState[t] # "live" \/ pc[t] = "notify"
Past(t) == t \in exiting /\ pc[t] \notin {"shard", "tracees", "tracee"}
Behind ==
  \A t \in Tasks :
    /\ Done(t) => children[t] = {}
    /\ Past(t) => ptraced[t] = {}

Control ==
  /\ Life /\ Groups /\ Closed /\ Forking /\ Claims /\ Releasing /\ GivenBack
  /\ Locked /\ Orphans /\ Cursors /\ Reaper

IInv ==
  /\ TypeOK /\ Control /\ Parented /\ Newborn /\ ChildrenExact /\ TraceesExact
  /\ Behind /\ ZombiesAnnounced

(* Whom a task that finds no live thread of its own goes on to ask. *)
LeavesGroup(t) ==
  \/ pc[t] = "hop"
  \/ pc[t] = "adopt" /\ leader[cursor[t]] \notin {leader[t], InitProcess}

(* A walk goes down from its root, and skips what is marked. *)
Walks ==
  /\ walk.by = None => walk = NoWalk
  /\ \A t \in Tasks : pc[t] = "visit" <=> walk.by = t
  /\ \A g \in walk.todo \cup walk.done : Started(g) /\ leader[g] = g
  /\ \A g \in walk.done \cap hashed : g \in hasSub \cup {leader[walk.by], InitProcess}
Leaving == \A t \in Tasks : LeavesGroup(t) => leader[t] \in hasSub /\ AliveThreads(t) = {}

(* A child of a group with has_child_subreaper or is_child_subreaper that  *)
(* is not marked yet will be: by a call that has not begun to walk, or by  *)
(* the walk, which has it, or the group it is its root, in its queue.      *)
ToBeMarked(p, g) ==
  \/ \E u \in Tasks : pc[u] = "walk" /\ leader[u] = g
  \/ walk.by # None /\ p \in walk.todo /\ p # leader[walk.by]
  \/ walk.by # None /\ g \in walk.todo /\ g = leader[walk.by]

Marked ==
  \A p \in hashed :
    leader[p] = p /\ p # InitProcess /\ leader[realParent[p]] # InitProcess
    /\ leader[realParent[p]] \in hasSub \cup isSub
      => p \in hasSub \/ ToBeMarked(p, leader[realParent[p]])

(* Ancestors are older: groups keep their age. *)
Ages(age) ==
  /\ age[InitProcess] = 0
  /\ \A t \in Tasks : Started(t) /\ realParent[t] # None =>
       age[leader[realParent[t]]] < age[leader[t]]
  /\ \A t \in Tasks : pc[t] \in {"hop", "adopt"} /\ cursor[t] # None =>
       age[leader[cursor[t]]] <= age[leader[t]]
  /\ walk.by # None =>
       \A g \in walk.todo \cup walk.done :
         g = leader[walk.by] \/ age[leader[walk.by]] < age[g]

Aged == \E age \in [Tasks -> Nat] : Ages(age)

SubInv == Walks /\ Leaving /\ Marked /\ Aged

USE TaskTreeAssumption

(* Who writes what. *)
ChangesGroups == \E t \in Tasks :
    (\E n \in Tasks, nid \in Nodes, thread \in BOOLEAN : ForkLock(t, n, nid, thread)) \/
    ForkPublish(t) \/ ReleaseTask(t)
ChangesLinks == \E t \in Tasks :
  (\E q \in Tasks : PtraceAttach(t, q)) \/
    (\E q \in Tasks : PtraceDetach(t, q)) \/
    (\E sibling, auto \in BOOLEAN : ForkState(t, sibling, auto)) \/ ForkPublish(t) \/
    DropTracee(t) \/ Adopt(t) \/ ReleaseTask(t) \/ WaitTraced(t)
ChangesStatus == \E t \in Tasks :
  (\E q \in Tasks : Wait(t, q)) \/ DropTracee(t) \/
    Adopt(t) \/ ExitNotify(t) \/ ReleaseTask(t) \/ WaitTraced(t)
ChangesSub == \E t \in Tasks :
  SetSubreaper(t) \/ ClearSubreaper(t) \/ ForkPublish(t) \/
    WalkBegin(t) \/ (\E g \in Tasks : WalkVisit(t, g)) \/ WalkEnd(t)
ChangesState == \E t \in Tasks :
    (\E sibling, auto \in BOOLEAN : ForkState(t, sibling, auto)) \/ ForkPublish(t) \/
    ExitState(t) \/ TakeChild(t) \/ LockChild(t) \/ Adopt(t)
ChangesExiting == \E t \in Tasks :
  Exit(t)
ChangesReaper == \E t \in Tasks :
  FindChildReaper(t)

(* What an action does not write it leaves alone. *)
LEMMA Frames ==
  ASSUME [Next]_vars
  PROVE  /\ UNCHANGED groups \/ ChangesGroups
         /\ UNCHANGED links \/ ChangesLinks
         /\ UNCHANGED status \/ ChangesStatus
         /\ UNCHANGED sub \/ ChangesSub
         /\ UNCHANGED state \/ ChangesState
         /\ UNCHANGED exiting \/ ChangesExiting
         /\ UNCHANGED childReaper \/ ChangesReaper
<1> DEFINE Goal == /\ UNCHANGED groups \/ ChangesGroups
                   /\ UNCHANGED links \/ ChangesLinks
                   /\ UNCHANGED status \/ ChangesStatus
                   /\ UNCHANGED sub \/ ChangesSub
                   /\ UNCHANGED state \/ ChangesState
                   /\ UNCHANGED exiting \/ ChangesExiting
                   /\ UNCHANGED childReaper \/ ChangesReaper
<1>1. ASSUME NEW t \in Tasks, NEW n \in Tasks, NEW nid \in Nodes, NEW thread \in BOOLEAN,
             ForkLock(t, n, nid, thread)
      PROVE  Goal
  <2>1. UNCHANGED <<links, status, sub, state, exiting, childReaper>>
    BY <1>1 DEF ForkLock, groups, links, status, sub, locks, control
  <2>2. ChangesGroups
    BY <1>1 DEF ChangesGroups
  <2> QED
    BY <2>1, <2>2
<1>2. ASSUME NEW t \in Tasks, Exit(t) PROVE Goal
  <2>1. UNCHANGED <<groups, links, status, sub, state, childReaper>>
    BY <1>2 DEF Exit, groups, links, status, sub, locks, control
  <2>2. ChangesExiting
    BY <1>2 DEF ChangesExiting
  <2> QED
    BY <2>1, <2>2
<1>3. ASSUME NEW t \in Tasks,
             SetSubreaper(t) \/ ClearSubreaper(t) \/ WalkBegin(t) \/ WalkEnd(t)
      PROVE  Goal
  <2>1. UNCHANGED <<groups, links, status, state, exiting, childReaper>>
    BY <1>3 DEF SetSubreaper, ClearSubreaper, WalkBegin, WalkEnd, groups, links, status, sub,
       locks, control
  <2>2. ChangesSub
    BY <1>3 DEF ChangesSub
  <2> QED
    BY <2>1, <2>2
<1>4. ASSUME NEW t \in Tasks, NEW q \in Tasks, Wait(t, q) PROVE Goal
  <2>1. UNCHANGED <<groups, links, sub, state, exiting, childReaper>>
    BY <1>4 DEF Wait, groups, links, status, sub, locks, control
  <2>2. ChangesStatus
    BY <1>4 DEF ChangesStatus
  <2> QED
    BY <2>1, <2>2
<1>5. ASSUME NEW t \in Tasks, NEW q \in Tasks,
             PtraceAttach(t, q) \/ PtraceDetach(t, q)
      PROVE  Goal
  <2>1. UNCHANGED <<groups, status, sub, state, exiting, childReaper>>
    BY <1>5 DEF PtraceAttach, PtraceDetach, groups, links, status, sub, locks, control
  <2>2. ChangesLinks
    BY <1>5 DEF ChangesLinks
  <2> QED
    BY <2>1, <2>2
<1>6. ASSUME NEW t \in Tasks, NEW sibling \in BOOLEAN, NEW auto \in BOOLEAN,
             ForkState(t, sibling, auto)
      PROVE  Goal
  <2>1. UNCHANGED <<groups, status, sub, exiting, childReaper>>
    BY <1>6 DEF ForkState, groups, links, status, sub, locks, control
  <2>2. ChangesLinks /\ ChangesState
    BY <1>6 DEF ChangesLinks, ChangesState
  <2> QED
    BY <2>1, <2>2
<1>7. ASSUME NEW t \in Tasks, ForkPublish(t) PROVE Goal
  <2>1. UNCHANGED <<status, exiting, childReaper>>
    BY <1>7 DEF ForkPublish, groups, links, status, sub, locks, control
  <2>2. ChangesGroups /\ ChangesLinks /\ ChangesSub /\ ChangesState
    BY <1>7 DEF ChangesGroups, ChangesLinks, ChangesSub, ChangesState
  <2> QED
    BY <2>1, <2>2
<1>8. ASSUME NEW t \in Tasks,
             ExitLock(t) \/ TakeTracee(t) \/ FindThread(t) \/ Hop(t) \/ ReleaseLock(t)
      PROVE  Goal
  BY <1>8 DEF ExitLock, TakeTracee, FindThread, Hop, ReleaseLock, groups, links, status, sub,
     locks, control
<1>9. ASSUME NEW t \in Tasks, FindChildReaper(t) PROVE Goal
  <2>1. UNCHANGED <<groups, links, status, sub, state, exiting>>
    BY <1>9 DEF FindChildReaper, groups, links, status, sub, locks, control
  <2>2. ChangesReaper
    BY <1>9 DEF ChangesReaper
  <2> QED
    BY <2>1, <2>2
<1>10. ASSUME NEW t \in Tasks,
              ExitState(t) \/ TakeChild(t) \/ LockChild(t)
       PROVE  Goal
  <2>1. UNCHANGED <<groups, links, status, sub, exiting, childReaper>>
    BY <1>10 DEF ExitState, TakeChild, LockChild, groups, links, status, sub, locks, control
  <2>2. ChangesState
    BY <1>10 DEF ChangesState
  <2> QED
    BY <2>1, <2>2
<1>11. ASSUME NEW t \in Tasks,
              DropTracee(t) \/ WaitTraced(t)
       PROVE  Goal
  <2>1. UNCHANGED <<groups, sub, state, exiting, childReaper>>
    BY <1>11 DEF DropTracee, WaitTraced, groups, links, status, sub, locks, control
  <2>2. ChangesLinks /\ ChangesStatus
    BY <1>11 DEF ChangesLinks, ChangesStatus
  <2> QED
    BY <2>1, <2>2
<1>12. ASSUME NEW t \in Tasks, Adopt(t) PROVE Goal
  <2>1. UNCHANGED <<groups, sub, exiting, childReaper>>
    BY <1>12 DEF Adopt, groups, links, status, sub, locks, control
  <2>2. ChangesLinks /\ ChangesStatus /\ ChangesState
    BY <1>12 DEF ChangesLinks, ChangesStatus, ChangesState
  <2> QED
    BY <2>1, <2>2
<1>13. ASSUME NEW t \in Tasks, ExitNotify(t) PROVE Goal
  <2>1. UNCHANGED <<groups, links, sub, state, exiting, childReaper>>
    BY <1>13 DEF ExitNotify, groups, links, status, sub, locks, control
  <2>2. ChangesStatus
    BY <1>13 DEF ChangesStatus
  <2> QED
    BY <2>1, <2>2
<1>14. ASSUME NEW t \in Tasks, ReleaseTask(t) PROVE Goal
  <2>1. UNCHANGED <<sub, state, exiting, childReaper>>
    BY <1>14 DEF ReleaseTask, groups, links, status, sub, locks, control
  <2>2. ChangesGroups /\ ChangesLinks /\ ChangesStatus
    BY <1>14 DEF ChangesGroups, ChangesLinks, ChangesStatus
  <2> QED
    BY <2>1, <2>2
<1>15. ASSUME NEW t \in Tasks, NEW g \in Tasks, WalkVisit(t, g) PROVE Goal
  <2>1. UNCHANGED <<groups, links, status, state, exiting, childReaper>>
    BY <1>15 DEF WalkVisit, groups, links, status, sub, locks, control
  <2>2. ChangesSub
    BY <1>15 DEF ChangesSub
  <2> QED
    BY <2>1, <2>2
<1>16. CASE UNCHANGED vars
  BY <1>16 DEF vars, locks
<1> HIDE DEF Goal
<1>17. ASSUME NEW t \in Tasks, Start(t) PROVE Goal
  <2>1. CASE \E n \in Tasks, nid \in Nodes, thread \in BOOLEAN : ForkLock(t, n, nid, thread)
    BY <2>1, <1>1
  <2>2. CASE \E q \in Tasks : Wait(t, q) \/ PtraceAttach(t, q) \/ PtraceDetach(t, q)
    BY <2>2, <1>4, <1>5
  <2>3. CASE Exit(t) \/ SetSubreaper(t) \/ ClearSubreaper(t)
    BY <2>3, <1>2, <1>3
  <2> QED
    BY <1>17, <2>1, <2>2, <2>3 DEF Start
<1>18. ASSUME NEW t \in Tasks, Proceed(t) PROVE Goal
  <2>1. CASE \E sibling, auto \in BOOLEAN : ForkState(t, sibling, auto)
    BY <2>1, <1>6
  <2>2. CASE \E g \in Tasks : WalkVisit(t, g)
    BY <2>2, <1>15
  <2>3. CASE ForkPublish(t) \/ ExitLock(t) \/ TakeTracee(t) \/ FindChildReaper(t) \/
          ExitState(t) \/ TakeChild(t) \/ LockChild(t) \/ FindThread(t) \/ Hop(t) \/
          ReleaseLock(t) \/ DropTracee(t) \/ Adopt(t) \/ ExitNotify(t) \/ ReleaseTask(t) \/
          WaitTraced(t) \/ WalkBegin(t) \/ WalkEnd(t)
    BY <2>3, <1>3, <1>7, <1>8, <1>9, <1>10, <1>11, <1>12, <1>13, <1>14
  <2> QED
    BY <1>18, <2>1, <2>2, <2>3 DEF Proceed
<1> QED
  BY <1>16, <1>17, <1>18 DEF Next, Goal

(* A group without live threads is not init, and has a parent. *)
LEMMA DeadGroup ==
  ASSUME IInv, NEW g \in hashed, leader[g] = g, Threads(g) \subseteq exiting
  PROVE  g \in Tasks /\ g # InitProcess /\ realParent[g] \in Tasks /\ parent[g] \in Tasks
<1>1. g \in Tasks
  BY DEF IInv, TypeOK, GroupsType
<1>2. g # InitProcess
  BY DEF IInv, Control, Reaper, AliveThreads, Threads
<1>3. realParent[g] \in Tasks
  BY <1>1, <1>2 DEF IInv, Parented, TypeOK, LinksType
<1>4. g \in traced \/ parent[g] = realParent[g]
  BY <1>1 DEF IInv, TraceesExact
<1>5. parent[g] \in Tasks
  BY <1>1, <1>3, <1>4 DEF IInv, Parented, TypeOK, LinksType
<1> QED
  BY <1>1, <1>2, <1>3, <1>5

LEMMA LoneZombie ==
  ASSUME IInv, NEW p \in Tasks, leader[p] = p, Alone(p), p \in exiting
  PROVE  p \in hashed /\ p # InitProcess /\ realParent[p] \in Tasks /\ parent[p] \in Tasks
<1>1. p \in hashed /\ Threads(p) \subseteq exiting
  BY DEF Alone, Threads
<1> QED
  BY <1>1, DeadGroup

(* A task with an exit_state is exiting. *)
LEMMA ExitStates ==
  ASSUME IInv, NEW p \in Tasks, exitState[p] # "live"
  PROVE  p \in exiting /\ pc[p] \in {"gone", "release"} /\ Started(p)
BY DEF IInv, Control, Life, Started

(* What is released, and what is forked. *)
LEMMA Released ==
  ASSUME IInv, NEW t \in Tasks, pc[t] = "release"
  PROVE  /\ cur[t] \in hashed /\ cur[t] \in Tasks /\ exitState[cur[t]] = "dead"
         /\ cur[t] \in exiting /\ cur[t] \in dead[t]
         /\ \A x \in hashed : leader[x] = cur[t] => x = cur[t]
<1>1. cur[t] \in Tasks /\ cur[t] \in hashed /\ exitState[cur[t]] = "dead" /\ cur[t] \in dead[t]
  BY DEF IInv, Control, Claims, Releasing, TypeOK, StatusType
<1>2. cur[t] \in exiting
  BY <1>1, ExitStates
<1>3. leader[cur[t]] = cur[t] => \A x \in hashed : leader[x] = cur[t] => x = cur[t]
  BY <1>1 DEF IInv, Control, Closed, Alone, Threads
<1>4. \A x \in hashed : leader[x] = cur[t] => leader[cur[t]] = cur[t]
  BY DEF IInv, Control, Groups, TypeOK, GroupsType
<1> QED
  BY <1>1, <1>2, <1>3, <1>4

LEMMA Forked ==
  ASSUME IInv, NEW t \in Tasks, Forks(t)
  PROVE  /\ cur[t] \in Tasks /\ pc[cur[t]] = "born" /\ leader[cur[t]] \in {cur[t], leader[t]}
         /\ cur[t] \notin hashed /\ cur[t] # t /\ t \in hashed /\ t \notin exiting
         /\ ~Started(cur[t]) /\ leader[t] \in hashed /\ leader[t] # cur[t]
<1>1. cur[t] \in Tasks /\ pc[cur[t]] = "born" /\ leader[cur[t]] \in {cur[t], leader[t]}
  BY DEF IInv, Control, Forking
<1>2. cur[t] \notin hashed /\ cur[t] # t /\ t \in hashed /\ t \notin exiting /\ ~Started(cur[t])
  BY <1>1 DEF IInv, Control, Life, Exits, Started, Forks
<1> QED
  BY <1>1, <1>2 DEF IInv, Control, Groups

(* TypeOK, part by part. *)
LEMMA GroupsTypes == IInv /\ [Next]_vars => GroupsType'
<1> SUFFICES ASSUME IInv, [Next]_vars PROVE GroupsType'
  OBVIOUS
<1>0. TypeOK
  BY DEF IInv
<1>1. ASSUME NEW t \in Tasks, NEW n \in Tasks, NEW nid \in Nodes, NEW thread \in BOOLEAN,
             ForkLock(t, n, nid, thread)
      PROVE  GroupsType'
  BY <1>0, <1>1 DEF TypeOK, GroupsType, ForkLock
<1>2. ASSUME NEW t \in Tasks, ForkPublish(t) PROVE GroupsType'
  <2>1. cur[t] \in Tasks
    BY <1>2 DEF IInv, Control, Forking, Forks, ForkPublish
  <2> QED
    BY <1>0, <1>2, <2>1 DEF TypeOK, GroupsType, ForkPublish
<1>3. ASSUME NEW t \in Tasks, ReleaseTask(t) PROVE GroupsType'
  BY <1>0, <1>3 DEF TypeOK, GroupsType, ReleaseTask
<1>4. CASE UNCHANGED groups
  BY <1>0, <1>4 DEF TypeOK, GroupsType, groups
<1> QED
  BY <1>1, <1>2, <1>3, <1>4, Frames
     DEF ChangesGroups

LEMMA LinksTypes == IInv /\ [Next]_vars => LinksType'
<1> SUFFICES ASSUME IInv, [Next]_vars PROVE LinksType'
  OBVIOUS
<1>0. TypeOK
  BY DEF IInv
<1>1. ASSUME NEW t \in Tasks, NEW q \in Tasks,
             PtraceAttach(t, q) \/ PtraceDetach(t, q)
      PROVE  LinksType'
  BY <1>0, <1>1 DEF TypeOK, LinksType, PtraceAttach, PtraceDetach, Unlinked
<1>2. ASSUME NEW t \in Tasks, NEW sibling \in BOOLEAN, NEW auto \in BOOLEAN,
             ForkState(t, sibling, auto)
      PROVE  LinksType'
  <2>1. cur[t] \in Tasks
    BY <1>2 DEF IInv, Control, Forking, Forks, ForkState, Moves
  <2> QED
    BY <1>0, <1>2, <2>1 DEF TypeOK, LinksType, ForkState
<1>3. ASSUME NEW t \in Tasks, ForkPublish(t) PROVE LinksType'
  <2>1. cur[t] \in Tasks
    BY <1>3 DEF IInv, Control, Forking, Forks, ForkPublish
  <2> QED
    BY <1>0, <1>3, <2>1 DEF TypeOK, LinksType, ForkPublish
<1>4. ASSUME NEW t \in Tasks, DropTracee(t) PROVE LinksType'
  BY <1>0, <1>4 DEF TypeOK, LinksType, DropTracee, PtraceDetached, Unlinked
<1>5. ASSUME NEW t \in Tasks, Adopt(t) PROVE LinksType'
  <2>1. cursor[t] \in Tasks /\ cur[t] \in Tasks
    BY <1>5 DEF IInv, Control, Orphans, Cursors, Seeks, Adopt
  <2>2. realParent' \in [Tasks -> Tasks \cup {None}] /\ parent' \in [Tasks -> Tasks \cup {None}]
    BY <1>0, <1>5, <2>1 DEF TypeOK, LinksType, Adopt
  <2>3. children' \in [Tasks -> SUBSET Tasks] /\ ptraced' = ptraced /\ traced' = traced
    BY <1>0, <1>5, <2>1 DEF TypeOK, LinksType, Adopt
  <2> QED
    BY <1>0, <2>2, <2>3 DEF TypeOK, LinksType
<1>6. ASSUME NEW t \in Tasks, ReleaseTask(t) PROVE LinksType'
  <2>1. /\ children' \in [Tasks -> SUBSET Tasks]
        /\ realParent' \in [Tasks -> Tasks \cup {None}]
    BY <1>0, <1>6 DEF TypeOK, LinksType, ReleaseTask
  <2>2. /\ parent' \in [Tasks -> Tasks \cup {None}] /\ ptraced' \in [Tasks -> SUBSET Tasks]
        /\ traced' \subseteq Tasks
    BY <1>0, <1>6 DEF TypeOK, LinksType, ReleaseTask, Unlinked
  <2> QED
    BY <2>1, <2>2 DEF LinksType
<1>7. ASSUME NEW t \in Tasks, WaitTraced(t) PROVE LinksType'
  BY <1>0, <1>7 DEF TypeOK, LinksType, WaitTraced, Unlinked
<1>8. CASE UNCHANGED links
  BY <1>0, <1>8 DEF TypeOK, LinksType, links
<1> QED
  BY <1>1, <1>2, <1>3, <1>4, <1>5, <1>6, <1>7, <1>8, Frames
     DEF ChangesLinks

LEMMA StatusTypes == IInv /\ [Next]_vars => StatusType'
<1> SUFFICES ASSUME IInv, [Next]_vars PROVE StatusType'
  OBVIOUS
<1>0. TypeOK
  BY DEF IInv
<1>1. ASSUME NEW t \in Tasks, NEW q \in Tasks, Wait(t, q) PROVE StatusType'
  BY SMTT(30), <1>0, <1>1 DEF TypeOK, StatusType, GroupsType, LinksType, Wait, Claim
<1>2. ASSUME NEW t \in Tasks, DropTracee(t) PROVE StatusType'
  <2>0. cur[t] \in Tasks
    BY <1>2 DEF IInv, Control, Orphans, DropTracee, Moves
  <2>1. exitState' \in [Tasks -> {"live", "zombie", "trace", "dead"}]
        /\ dead' \in [Tasks -> SUBSET Tasks]
    BY <1>0, <1>2, <2>0 DEF TypeOK, StatusType, DropTracee, PtraceDetached, Claim, status
  <2>2. told' \in [Tasks -> Tasks \cup {None}]
    <3>1. told' = told \/ (NotifyParent(cur[t], realParent[cur[t]]) /\ leader[cur[t]] = cur[t]
                          /\ Alone(cur[t]) /\ exitState[cur[t]] = "zombie")
      BY <1>2 DEF DropTracee, PtraceDetached, status
    <3>2. CASE told' = told
      BY <1>0, <3>2 DEF TypeOK, StatusType
    <3>3. CASE told' # told
      <4>1. realParent[cur[t]] \in Tasks
        BY <1>0, <2>0, <3>1, <3>3, LoneZombie, ExitStates
      <4> QED
        BY SMTT(30), <1>0, <3>1, <3>3, <4>1 DEF TypeOK, StatusType, GroupsType, NotifyParent
    <3> QED
      BY <3>2, <3>3
  <2> QED
    BY <2>1, <2>2 DEF StatusType
<1>3. ASSUME NEW t \in Tasks, Adopt(t) PROVE StatusType'
  <2>1. cursor[t] \in Tasks /\ cur[t] \in Tasks
    BY <1>3 DEF IInv, Control, Orphans, Cursors, Seeks, Adopt
  <2>2. exitState' \in [Tasks -> {"live", "zombie", "trace", "dead"}]
        /\ dead' \in [Tasks -> SUBSET Tasks]
    BY <1>0, <1>3, <2>1 DEF TypeOK, StatusType, Adopt, Claim, status
  <2>3. told' = told \/ told' = [told EXCEPT ![cur[t]] = leader[cursor[t]]]
    BY <1>3 DEF Adopt, NotifyParent, status
  <2> QED
    BY <1>0, <2>1, <2>2, <2>3 DEF TypeOK, StatusType, GroupsType
<1>4. ASSUME NEW t \in Tasks, ExitNotify(t) PROVE StatusType'
  <2>1. exitState' \in [Tasks -> {"live", "zombie", "trace", "dead"}]
        /\ dead' \in [Tasks -> SUBSET Tasks]
    BY <1>0, <1>4 DEF TypeOK, StatusType, ExitNotify
  <2>2. told' = told
        \/ /\ told' = [told EXCEPT ![t] = leader[parent[t]]]
           /\ t \in traced \/ (leader[t] = t /\ Alone(t))
    BY <1>4 DEF ExitNotify
  <2>3. t \in traced \/ (leader[t] = t /\ Alone(t)) => parent[t] \in Tasks
    <3>1. t \in exiting
      BY <1>4 DEF IInv, Control, Life, Exits, ExitNotify, Moves
    <3>2. t \in traced => parent[t] \in Tasks
      BY <1>0 DEF IInv, Parented, TypeOK, LinksType
    <3> QED
      BY <3>1, <3>2, LoneZombie
  <2> QED
    BY <1>0, <2>1, <2>2, <2>3 DEF TypeOK, StatusType, GroupsType
<1>5. ASSUME NEW t \in Tasks, ReleaseTask(t) PROVE StatusType'
  <2> DEFINE q == cur[t]
             l == leader[q]
  <2>0. q \in hashed /\ q \in Tasks /\ l \in Tasks /\ exitState[q] = "dead"
    BY <1>0, <1>5, Released DEF ReleaseTask, TypeOK, GroupsType
  <2>1. ZapsLeader(q) => parent[l] \in Tasks
    <3>1. ASSUME ZapsLeader(q) PROVE l \in hashed /\ leader[l] = l /\ Threads(l) \subseteq exiting
      BY <2>0, <3>1, ExitStates DEF ZapsLeader, Threads
    <3> QED
      BY <3>1, DeadGroup
  <2>2. exitState' \in [Tasks -> {"live", "zombie", "trace", "dead"}]
        /\ dead' \in [Tasks -> SUBSET Tasks]
    BY <1>0, <1>5, <2>0 DEF TypeOK, StatusType, ReleaseTask
  <2>3. told' \in [Tasks -> Tasks \cup {None}]
    <3>1. told' = [told EXCEPT ![q] = None, ![l] = IF ZapsLeader(q) THEN leader[parent[l]] ELSE @]
      BY <1>5 DEF ReleaseTask
    <3> HIDE DEF q, l
    <3>2. CASE ZapsLeader(q)
      BY <1>0, <2>0, <2>1, <3>1, <3>2 DEF TypeOK, StatusType, GroupsType
    <3>3. CASE ~ZapsLeader(q)
      BY <1>0, <2>0, <3>1, <3>3 DEF TypeOK, StatusType
    <3> QED
      BY <3>2, <3>3
  <2> QED
    BY <2>2, <2>3 DEF StatusType
<1>6. ASSUME NEW t \in Tasks, WaitTraced(t) PROVE StatusType'
  <2> DEFINE p == cur[t]
  <2>0. p \in Tasks /\ leader[p] = p /\ exitState[p] = "trace"
    BY <1>6 DEF IInv, Control, GivenBack, WaitTraced, Moves
  <2>1. realParent[p] \in Tasks
    <3>1. p \in exiting /\ p \in hashed
      BY <2>0, ExitStates DEF IInv, Control, Life
    <3>2. Alone(p)
      BY <2>0, <3>1 DEF IInv, Control, Closed
    <3> QED
      BY <2>0, <3>1, <3>2, LoneZombie
  <2> QED
    BY <1>0, <1>6, <2>0, <2>1 DEF TypeOK, StatusType, GroupsType, WaitTraced, NotifyParent
<1>7. CASE UNCHANGED status
  BY <1>0, <1>7 DEF TypeOK, StatusType, status
<1> QED
  BY <1>1, <1>2, <1>3, <1>4, <1>5, <1>6, <1>7, Frames
     DEF ChangesStatus

LEMMA SubTypes == IInv /\ [Next]_vars => SubType'
<1> SUFFICES ASSUME IInv, [Next]_vars PROVE SubType'
  OBVIOUS
<1>0. TypeOK
  BY DEF IInv
<1>1. ASSUME NEW t \in Tasks,
             SetSubreaper(t) \/ ClearSubreaper(t)
      PROVE  SubType'
  BY <1>0, <1>1 DEF TypeOK, SubType, GroupsType, LinksType, SetSubreaper, ClearSubreaper
<1>2. ASSUME NEW t \in Tasks, ForkPublish(t) PROVE SubType'
  <2>1. cur[t] \in Tasks
    BY <1>2 DEF IInv, Control, Forking, Forks, ForkPublish
  <2> QED
    BY <1>0, <1>2, <2>1 DEF TypeOK, SubType, ForkPublish
<1>3. ASSUME NEW t \in Tasks,
             WalkBegin(t) \/ WalkEnd(t)
      PROVE  SubType'
  BY <1>0, <1>3 DEF TypeOK, SubType, GroupsType, LinksType, WalkBegin, WalkEnd, NoWalk
<1>4. ASSUME NEW t \in Tasks, NEW g \in Tasks, WalkVisit(t, g) PROVE SubType'
  <2>1. UNION {children[u] : u \in Threads(g)} \subseteq Tasks
    BY <1>0 DEF TypeOK, LinksType, GroupsType, Threads
  <2>2. hasSub' \subseteq Tasks /\ isSub' \subseteq Tasks
    BY <1>0, <1>4 DEF TypeOK, SubType, WalkVisit
  <2>3. \E todo, done \in SUBSET Tasks : walk' = [walk EXCEPT !.todo = todo, !.done = done]
    <3>1. walk.todo \subseteq Tasks /\ walk.done \subseteq Tasks
      BY <1>0 DEF TypeOK, SubType
    <3> QED
      BY <1>4, <2>1, <3>1 DEF WalkVisit
  <2> QED
    BY <1>0, <2>2, <2>3 DEF TypeOK, SubType
<1>5. CASE UNCHANGED sub
  BY <1>0, <1>5 DEF TypeOK, SubType, sub
<1> QED
  BY <1>1, <1>2, <1>3, <1>4, <1>5, Frames
     DEF ChangesSub

LEMMA LocksTypes == IInv /\ [Next]_vars => LocksType'
<1> SUFFICES ASSUME IInv, [Next]_vars PROVE LocksType'
  OBVIOUS
<1>0. TypeOK
  BY DEF IInv
<1>1. ASSUME NEW t \in Tasks, NEW n \in Tasks, NEW nid \in Nodes, NEW thread \in BOOLEAN,
             ForkLock(t, n, nid, thread)
      PROVE  LocksType'
  BY <1>0, <1>1 DEF TypeOK, LocksType, GroupsType, ForkLock, LockShard
<1>2. ASSUME NEW t \in Tasks,
             Exit(t) \/ SetSubreaper(t) \/ ClearSubreaper(t)
      PROVE  LocksType'
  BY <1>0, <1>2 DEF TypeOK, LocksType, GroupsType, Exit, SetSubreaper, ClearSubreaper, locks
<1>3. ASSUME NEW t \in Tasks, NEW q \in Tasks,
             Wait(t, q) \/ PtraceAttach(t, q) \/ PtraceDetach(t, q)
      PROVE  LocksType'
  BY <1>0, <1>3 DEF TypeOK, LocksType, GroupsType, Wait, PtraceAttach, PtraceDetach, locks
<1>4. ASSUME NEW t \in Tasks, NEW sibling \in BOOLEAN, NEW auto \in BOOLEAN,
             ForkState(t, sibling, auto)
      PROVE  LocksType'
  BY <1>0, <1>4 DEF TypeOK, LocksType, GroupsType, ForkState
<1>5. ASSUME NEW t \in Tasks, ForkPublish(t) PROVE LocksType'
  BY <1>0, <1>5 DEF TypeOK, LocksType, GroupsType, ForkPublish, UnlockShard
<1>6. ASSUME NEW t \in Tasks,
             ExitLock(t) \/ ReleaseLock(t)
      PROVE  LocksType'
  BY <1>0, <1>6 DEF TypeOK, LocksType, GroupsType, ExitLock, ReleaseLock, LockShard
<1>7. ASSUME NEW t \in Tasks,
             TakeTracee(t) \/ FindChildReaper(t) \/ FindThread(t) \/ Hop(t) \/ DropTracee(t) \/
             WaitTraced(t)
      PROVE  LocksType'
  BY <1>0, <1>7 DEF TypeOK, LocksType, GroupsType, TakeTracee, FindChildReaper, FindThread, Hop,
     DropTracee, WaitTraced, locks
<1>8. ASSUME NEW t \in Tasks,
             ExitState(t) \/ TakeChild(t) \/ LockChild(t) \/ Adopt(t)
      PROVE  LocksType'
  BY <1>0, <1>8 DEF TypeOK, LocksType, GroupsType, ExitState, TakeChild, LockChild, Adopt
<1>9. ASSUME NEW t \in Tasks,
             ExitNotify(t) \/ ReleaseTask(t)
      PROVE  LocksType'
  BY <1>0, <1>9 DEF TypeOK, LocksType, GroupsType, ExitNotify, ReleaseTask, UnlockShard
<1>10. ASSUME NEW t \in Tasks,
              WalkBegin(t) \/ WalkEnd(t)
       PROVE  LocksType'
  BY <1>0, <1>10 DEF TypeOK, LocksType, GroupsType, WalkBegin, WalkEnd, locks
<1>11. ASSUME NEW t \in Tasks, NEW g \in Tasks, WalkVisit(t, g) PROVE LocksType'
  BY <1>0, <1>11 DEF TypeOK, LocksType, GroupsType, WalkVisit, locks
<1>12. CASE UNCHANGED vars
  BY <1>0, <1>12 DEF TypeOK, LocksType, vars, locks
<1>13. ASSUME NEW t \in Tasks, Start(t) PROVE LocksType'
  <2>1. CASE \E n \in Tasks, nid \in Nodes, thread \in BOOLEAN : ForkLock(t, n, nid, thread)
    BY <2>1, <1>1
  <2>2. CASE \E q \in Tasks : Wait(t, q) \/ PtraceAttach(t, q) \/ PtraceDetach(t, q)
    BY <2>2, <1>3
  <2>3. CASE Exit(t) \/ SetSubreaper(t) \/ ClearSubreaper(t)
    BY <2>3, <1>2
  <2> QED
    BY <1>13, <2>1, <2>2, <2>3 DEF Start
<1>14. ASSUME NEW t \in Tasks, Proceed(t) PROVE LocksType'
  <2>1. CASE \E sibling, auto \in BOOLEAN : ForkState(t, sibling, auto)
    BY <2>1, <1>4
  <2>2. CASE \E g \in Tasks : WalkVisit(t, g)
    BY <2>2, <1>11
  <2>3. CASE ForkPublish(t) \/ ExitLock(t) \/ TakeTracee(t) \/ FindChildReaper(t) \/
          ExitState(t) \/ TakeChild(t) \/ LockChild(t) \/ FindThread(t) \/ Hop(t) \/
          ReleaseLock(t) \/ DropTracee(t) \/ Adopt(t) \/ ExitNotify(t) \/ ReleaseTask(t) \/
          WaitTraced(t) \/ WalkBegin(t) \/ WalkEnd(t)
    BY <2>3, <1>5, <1>6, <1>7, <1>8, <1>9, <1>10
  <2> QED
    BY <1>14, <2>1, <2>2, <2>3 DEF Proceed
<1> QED
  BY <1>12, <1>13, <1>14 DEF Next

LEMMA ControlTypes == IInv /\ [Next]_vars => ControlType'
<1> SUFFICES ASSUME IInv, [Next]_vars PROVE ControlType'
  OBVIOUS
<1>0. TypeOK
  BY DEF IInv
<1>a. \A to \in {"born", "run", "fork", "publish", "shard", "tracees", "tracee", "reaper", "state",
               "children", "child", "find", "hop", "adopt", "notify", "gone", "release",
               "trace", "walk", "visit"} : to \in States
  BY DEF States
<1>1. ASSUME NEW t \in Tasks, NEW n \in Tasks, NEW nid \in Nodes, NEW thread \in BOOLEAN,
             ForkLock(t, n, nid, thread)
      PROVE  ControlType'
  BY <1>0, <1>a, <1>1 DEF TypeOK, ControlType, Goto, Moves, control, ForkLock
<1>2. ASSUME NEW t \in Tasks,
             Exit(t) \/ SetSubreaper(t) \/ ClearSubreaper(t)
      PROVE  ControlType'
  BY <1>0, <1>a, <1>2 DEF TypeOK, ControlType, Goto, Moves, control, Exit, SetSubreaper,
     ClearSubreaper
<1>3. ASSUME NEW t \in Tasks, NEW q \in Tasks, Wait(t, q) PROVE ControlType'
  <2>1. /\ cursor' = cursor
        /\ \/ UNCHANGED <<cur, pc>>
           \/ cur' = [cur EXCEPT ![t] = q] /\ pc' = [pc EXCEPT ![t] = "trace"]
    BY <1>3 DEF Wait, Goto
  <2> QED
    BY <1>0, <1>a, <2>1 DEF TypeOK, ControlType
<1>4. ASSUME NEW t \in Tasks, NEW q \in Tasks,
             PtraceAttach(t, q) \/ PtraceDetach(t, q)
      PROVE  ControlType'
  BY <1>0, <1>4 DEF TypeOK, PtraceAttach, PtraceDetach, control, ControlType
<1>5. ASSUME NEW t \in Tasks, NEW sibling \in BOOLEAN, NEW auto \in BOOLEAN,
             ForkState(t, sibling, auto)
      PROVE  ControlType'
  BY <1>0, <1>a, <1>5 DEF TypeOK, ControlType, Goto, Moves, control, ForkState
<1>6. ASSUME NEW t \in Tasks, ForkPublish(t) PROVE ControlType'
  BY <1>0, <1>a, <1>6 DEF TypeOK, ControlType, Goto, Moves, control, ForkPublish
<1>7. ASSUME NEW t \in Tasks,
             ExitLock(t) \/ FindChildReaper(t) \/ ExitState(t) \/ DropTracee(t) \/ ExitNotify(t)
      PROVE  ControlType'
  BY <1>0, <1>a, <1>7 DEF TypeOK, ControlType, Goto, Moves, control, ExitLock, FindChildReaper,
     ExitState, DropTracee, ExitNotify
<1>8. ASSUME NEW t \in Tasks, TakeTracee(t) PROVE ControlType'
  <2>1. /\ \E to \in {"tracee", "reaper", "state"} : pc' = [pc EXCEPT ![t] = to]
        /\ \E q \in Tasks \cup {None} : cur' = [cur EXCEPT ![t] = q]
        /\ UNCHANGED cursor
    BY <1>0, <1>8 DEF TakeTracee, Goto, TypeOK, LinksType
  <2> QED
    BY <1>0, <1>a, <2>1 DEF TypeOK, ControlType
<1>9. ASSUME NEW t \in Tasks, TakeChild(t) PROVE ControlType'
  <2>1. /\ \E to \in {"child", "notify"} : pc' = [pc EXCEPT ![t] = to]
        /\ \E q \in Tasks \cup {None} : cur' = [cur EXCEPT ![t] = q]
        /\ UNCHANGED cursor
    BY <1>0, <1>9 DEF TakeChild, Goto, TypeOK, LinksType
  <2> QED
    BY <1>0, <1>a, <2>1 DEF TypeOK, ControlType
<1>10. ASSUME NEW t \in Tasks,
              LockChild(t) \/ ReleaseTask(t) \/ WaitTraced(t)
       PROVE  ControlType'
  BY <1>0, <1>a, <1>10 DEF TypeOK, ControlType, Goto, Moves, control, LockChild, ReleaseTask,
     WaitTraced
<1>11. ASSUME NEW t \in Tasks, ReleaseLock(t) PROVE ControlType'
  BY <1>0, <1>a, <1>11 DEF TypeOK, ControlType, Goto, Moves, control, ReleaseLock, StatusType
<1>12. ASSUME NEW t \in Tasks,
              FindThread(t) \/ Hop(t)
       PROVE  ControlType'
  <2>1. /\ AliveThreads(t) \subseteq Tasks /\ AliveThreads(cursor[t]) \subseteq Tasks
        /\ \A u \in Tasks : realParent[u] \in Tasks \cup {None}
        /\ cursor[t] \in Tasks \cup {None} /\ childReaper \in Tasks
    BY <1>0 DEF TypeOK, ControlType, GroupsType, LinksType, AliveThreads, Threads
  <2>2. /\ \E x \in Tasks \cup {None} : cursor' = [cursor EXCEPT ![t] = x]
        /\ \E to \in {"adopt", "hop", pc[t]} : pc' = [pc EXCEPT ![t] = to]
        /\ cur' = cur
    <3>1. CASE FindThread(t)
      BY <2>1, <3>1 DEF FindThread, Goto
    <3>2. CASE Hop(t)
      <4>1. pc' = pc => pc' = [pc EXCEPT ![t] = pc[t]]
        BY <1>0 DEF TypeOK, ControlType
      <4> QED
        BY <2>1, <3>2, <4>1 DEF Hop, Goto
    <3> QED
      BY <1>12, <3>1, <3>2
  <2>3. {"adopt", "hop", pc[t]} \subseteq States
    BY <1>0, <1>a DEF TypeOK, ControlType
  <2> HIDE DEF States
  <2> QED
    BY <1>0, <2>2, <2>3 DEF TypeOK, ControlType
<1>13. ASSUME NEW t \in Tasks, Adopt(t) PROVE ControlType'
  BY <1>0, <1>a, <1>13 DEF TypeOK, ControlType, Goto, Moves, control, Adopt
<1>14. ASSUME NEW t \in Tasks,
              WalkBegin(t) \/ WalkEnd(t)
       PROVE  ControlType'
  BY <1>0, <1>a, <1>14 DEF TypeOK, ControlType, Goto, Moves, control, WalkBegin, WalkEnd
<1>15. ASSUME NEW t \in Tasks, NEW g \in Tasks, WalkVisit(t, g) PROVE ControlType'
  BY <1>0, <1>a, <1>15 DEF TypeOK, ControlType, Goto, Moves, control, WalkVisit
<1>16. CASE UNCHANGED vars
  BY <1>0, <1>16 DEF TypeOK, ControlType, vars, control
<1>17. ASSUME NEW t \in Tasks, Start(t) PROVE ControlType'
  <2>1. CASE \E n \in Tasks, nid \in Nodes, thread \in BOOLEAN : ForkLock(t, n, nid, thread)
    BY <2>1, <1>1
  <2>2. CASE \E q \in Tasks : Wait(t, q) \/ PtraceAttach(t, q) \/ PtraceDetach(t, q)
    BY <2>2, <1>3, <1>4
  <2>3. CASE Exit(t) \/ SetSubreaper(t) \/ ClearSubreaper(t)
    BY <2>3, <1>2
  <2> QED
    BY <1>17, <2>1, <2>2, <2>3 DEF Start
<1>18. ASSUME NEW t \in Tasks, Proceed(t) PROVE ControlType'
  <2>1. CASE \E sibling, auto \in BOOLEAN : ForkState(t, sibling, auto)
    BY <2>1, <1>5
  <2>2. CASE \E g \in Tasks : WalkVisit(t, g)
    BY <2>2, <1>15
  <2>3. CASE ForkPublish(t) \/ ExitLock(t) \/ TakeTracee(t) \/ FindChildReaper(t) \/
          ExitState(t) \/ TakeChild(t) \/ LockChild(t) \/ FindThread(t) \/ Hop(t) \/
          ReleaseLock(t) \/ DropTracee(t) \/ Adopt(t) \/ ExitNotify(t) \/ ReleaseTask(t) \/
          WaitTraced(t) \/ WalkBegin(t) \/ WalkEnd(t)
    BY <2>3, <1>6, <1>7, <1>8, <1>9, <1>10, <1>11, <1>12, <1>13, <1>14
  <2> QED
    BY <1>18, <2>1, <2>2, <2>3 DEF Proceed
<1> QED
  BY <1>16, <1>17, <1>18 DEF Next

LEMMA TypeStep == IInv /\ [Next]_vars => TypeOK'
<1> SUFFICES ASSUME IInv, [Next]_vars PROVE TypeOK'
  OBVIOUS
<1>0. TypeOK
  BY DEF IInv
<1>1. exiting' \subseteq Tasks
  BY <1>0, Frames DEF TypeOK, ChangesExiting, Exit
<1>2. childReaper' \in Tasks
  <2>1. ASSUME NEW t \in Tasks, FindChildReaper(t) PROVE childReaper' \in Tasks
    BY <1>0, <2>1 DEF TypeOK, GroupsType, FindChildReaper, AliveThreads, Threads
  <2> QED
    BY <1>0, <2>1, Frames DEF TypeOK, ChangesReaper
<1> QED
  BY <1>1, <1>2, GroupsTypes, LinksTypes, StatusTypes, SubTypes, LocksTypes, ControlTypes
     DEF TypeOK

(* Life *)
LEMMA LifeStep == IInv /\ [Next]_vars => Life'
<1> SUFFICES ASSUME IInv, [Next]_vars PROVE Life'
  OBVIOUS
<1>0. /\ hashed \subseteq Tasks /\ exiting \subseteq Tasks /\ pc \in [Tasks -> States]
      /\ exitState \in [Tasks -> {"live", "zombie", "trace", "dead"}]
      /\ dead \in [Tasks -> SUBSET Tasks] /\ Life
  BY DEF IInv, Control, TypeOK, GroupsType, ControlType, StatusType
<1>1. ASSUME NEW t \in Tasks, NEW n \in Tasks, NEW nid \in Nodes, NEW thread \in BOOLEAN,
             ForkLock(t, n, nid, thread)
      PROVE  Life'
  BY <1>0, <1>1 DEF Life, Started, Exits, Goto, Moves, ForkLock, Idle, status
<1>2. ASSUME NEW t \in Tasks,
             Exit(t) \/ SetSubreaper(t)
      PROVE  Life'
  BY <1>0, <1>2 DEF Life, Started, Exits, Goto, Moves, Exit, SetSubreaper, Idle, groups, status
<1>3. ASSUME NEW t \in Tasks,
             ClearSubreaper(t) \/ WalkBegin(t) \/ WalkEnd(t)
      PROVE  Life'
  BY <1>0, <1>3 DEF Life, Started, Exits, Goto, Moves, ClearSubreaper, WalkBegin, WalkEnd, groups,
     status, control
<1>4. ASSUME NEW t \in Tasks, NEW q \in Tasks, Wait(t, q) PROVE Life'
  BY <1>0, <1>4 DEF Life, Started, Exits, Goto, Moves, Wait, Idle, Claim, groups, MayReap
<1>5. ASSUME NEW t \in Tasks, NEW q \in Tasks,
             PtraceAttach(t, q) \/ PtraceDetach(t, q)
      PROVE  Life'
  BY <1>0, <1>5 DEF Life, Started, Exits, Goto, Moves, PtraceAttach, PtraceDetach, groups, status,
     control
<1>6. ASSUME NEW t \in Tasks, NEW sibling \in BOOLEAN, NEW auto \in BOOLEAN,
             ForkState(t, sibling, auto)
      PROVE  Life'
  BY <1>0, <1>6 DEF Life, Started, Exits, Goto, Moves, ForkState, groups, status
<1>7. ASSUME NEW t \in Tasks, ForkPublish(t) PROVE Life'
  <2>1. cur[t] \in Tasks /\ pc[cur[t]] = "born"
    BY <1>7 DEF IInv, Control, Forking, Forks, ForkPublish
  <2> QED
    BY <1>0, <1>7, <2>1 DEF Life, Started, Exits, ForkPublish, status
<1>8. ASSUME NEW t \in Tasks,
             ExitLock(t) \/ TakeTracee(t) \/ FindChildReaper(t) \/ ExitState(t)
      PROVE  Life'
  BY <1>0, <1>8 DEF Life, Started, Exits, Goto, Moves, ExitLock, TakeTracee, FindChildReaper,
     ExitState, groups, status
<1>9. ASSUME NEW t \in Tasks,
             TakeChild(t) \/ LockChild(t) \/ FindThread(t) \/ Hop(t)
      PROVE  Life'
  BY <1>0, <1>9 DEF Life, Started, Exits, Goto, Moves, TakeChild, LockChild, FindThread, Hop,
     groups, status
<1>10. ASSUME NEW t \in Tasks, ReleaseLock(t) PROVE Life'
  BY <1>0, <1>10 DEF Life, Started, Exits, Goto, Moves, ReleaseLock, groups, status
<1>11. ASSUME NEW t \in Tasks, DropTracee(t) PROVE Life'
  BY <1>0, <1>11 DEF Life, Started, Exits, Goto, Moves, DropTracee, PtraceDetached, Claim, groups,
     status
<1>12. ASSUME NEW t \in Tasks, Adopt(t) PROVE Life'
  BY <1>0, <1>12 DEF Life, Started, Exits, Goto, Moves, Adopt, Claim, groups, status
<1>13. ASSUME NEW t \in Tasks, ExitNotify(t) PROVE Life'
  BY <1>0, <1>13 DEF Life, Started, Exits, Goto, Moves, ExitNotify, groups, status
<1>14. ASSUME NEW t \in Tasks, ReleaseTask(t) PROVE Life'
  <2> DEFINE q == cur[t]
             l == leader[q]
  <2>1. q \in hashed /\ q \in Tasks /\ exitState[q] = "dead"
    BY <1>0, <1>14, Released DEF ReleaseTask
  <2>2. q \in exiting /\ pc[q] \in {"gone", "release"}
    BY <2>1, ExitStates
  <2>3. /\ hashed' = hashed \ {q} /\ exiting' = exiting
        /\ pc' = [pc EXCEPT ![t] = IF t \in exiting THEN "gone" ELSE "run"] /\ pc[t] = "release"
        /\ \A k \in Tasks : (dead'[k] = dead[k] \/ k = t)
        /\ \A k \in Tasks : \/ exitState'[k] = exitState[k]
                            \/ exitState[k] = "zombie" /\ exitState'[k] = "dead"
    BY <1>0, <1>14 DEF ReleaseTask, Goto, ZapsLeader
  <2> HIDE DEF q
  <2> QED
    BY <1>0, <2>1, <2>2, <2>3 DEF Life, Started, Exits
<1>15. ASSUME NEW t \in Tasks, WaitTraced(t) PROVE Life'
  <2>1. cur[t] \in Tasks /\ exitState[cur[t]] = "trace"
    BY <1>15 DEF IInv, Control, GivenBack, WaitTraced, Moves
  <2> QED
    BY <1>0, <1>15, <2>1 DEF Life, Started, Exits, Goto, Moves, WaitTraced, groups
<1>16. ASSUME NEW t \in Tasks, NEW g \in Tasks, WalkVisit(t, g) PROVE Life'
  BY <1>0, <1>16 DEF Life, Started, Exits, Goto, Moves, WalkVisit, groups, status, control
<1>17. CASE UNCHANGED vars
  BY <1>0, <1>17 DEF Life, Started, vars, groups, status, control
<1>18. ASSUME NEW t \in Tasks, Start(t) PROVE Life'
  <2>1. CASE \E n \in Tasks, nid \in Nodes, thread \in BOOLEAN : ForkLock(t, n, nid, thread)
    BY <2>1, <1>1
  <2>2. CASE \E q \in Tasks : Wait(t, q) \/ PtraceAttach(t, q) \/ PtraceDetach(t, q)
    BY <2>2, <1>4, <1>5
  <2>3. CASE Exit(t) \/ SetSubreaper(t) \/ ClearSubreaper(t)
    BY <2>3, <1>2, <1>3
  <2> QED
    BY <1>18, <2>1, <2>2, <2>3 DEF Start
<1>19. ASSUME NEW t \in Tasks, Proceed(t) PROVE Life'
  <2>1. CASE \E sibling, auto \in BOOLEAN : ForkState(t, sibling, auto)
    BY <2>1, <1>6
  <2>2. CASE \E g \in Tasks : WalkVisit(t, g)
    BY <2>2, <1>16
  <2>3. CASE ForkPublish(t) \/ ExitLock(t) \/ TakeTracee(t) \/ FindChildReaper(t) \/
          ExitState(t) \/ TakeChild(t) \/ LockChild(t) \/ FindThread(t) \/ Hop(t) \/
          ReleaseLock(t) \/ DropTracee(t) \/ Adopt(t) \/ ExitNotify(t) \/ ReleaseTask(t) \/
          WaitTraced(t) \/ WalkBegin(t) \/ WalkEnd(t)
    BY <2>3, <1>3, <1>7, <1>8, <1>9, <1>10, <1>11, <1>12, <1>13, <1>14, <1>15
  <2> QED
    BY <1>19, <2>1, <2>2, <2>3 DEF Proceed
<1> QED
  BY <1>17, <1>18, <1>19 DEF Next

(* A task that has been started stays so. *)
LEMMA Starts ==
  IInv /\ [Next]_vars =>
    \A x \in Tasks :
      (Started(x) => Started(x)') /\ (pc'[x] = "none" => pc[x] = "none")
<1> SUFFICES ASSUME IInv, [Next]_vars
             PROVE  \A x \in Tasks :
                      (Started(x) => Started(x)') /\ (pc'[x] = "none" => pc[x] = "none")
  OBVIOUS
<1>0. pc \in [Tasks -> States]
  BY DEF IInv, TypeOK, ControlType
<1> DEFINE Goal == \A x \in Tasks :
                     (Started(x) => Started(x)') /\ (pc'[x] = "none" => pc[x] = "none")
<1>1. ASSUME NEW t \in Tasks, NEW n \in Tasks, NEW nid \in Nodes, NEW thread \in BOOLEAN,
             ForkLock(t, n, nid, thread)
      PROVE  Goal
  BY <1>0, <1>1 DEF Started, Goto, Moves, ForkLock
<1>2. ASSUME NEW t \in Tasks,
             Exit(t) \/ SetSubreaper(t) \/ ClearSubreaper(t)
      PROVE  Goal
  BY <1>0, <1>2 DEF Started, Goto, Moves, Exit, SetSubreaper, ClearSubreaper, control
<1>3. ASSUME NEW t \in Tasks, NEW q \in Tasks,
             Wait(t, q) \/ PtraceAttach(t, q) \/ PtraceDetach(t, q)
      PROVE  Goal
  BY <1>0, <1>3 DEF Started, Goto, Moves, Wait, PtraceAttach, PtraceDetach, control
<1>4. ASSUME NEW t \in Tasks, NEW sibling \in BOOLEAN, NEW auto \in BOOLEAN,
             ForkState(t, sibling, auto)
      PROVE  Goal
  BY <1>0, <1>4 DEF Started, Goto, Moves, ForkState
<1>5. ASSUME NEW t \in Tasks, ForkPublish(t) PROVE Goal
  BY <1>0, <1>5 DEF Started, Goto, Moves, ForkPublish
<1>6. ASSUME NEW t \in Tasks,
             ExitLock(t) \/ TakeTracee(t) \/ FindChildReaper(t) \/ ExitState(t) \/
             TakeChild(t) \/ LockChild(t) \/ FindThread(t) \/ Hop(t)
      PROVE  Goal
  BY <1>0, <1>6 DEF Started, Goto, Moves, ExitLock, TakeTracee, FindChildReaper, ExitState,
     TakeChild, LockChild, FindThread, Hop
<1>7. ASSUME NEW t \in Tasks,
             ReleaseLock(t) \/ DropTracee(t) \/ Adopt(t) \/ ExitNotify(t) \/ ReleaseTask(t) \/
             WaitTraced(t) \/ WalkBegin(t) \/ WalkEnd(t)
      PROVE  Goal
  BY <1>0, <1>7 DEF Started, Goto, Moves, ReleaseLock, DropTracee, Adopt, ExitNotify, ReleaseTask,
     WaitTraced, WalkBegin, WalkEnd
<1>8. ASSUME NEW t \in Tasks, NEW g \in Tasks, WalkVisit(t, g) PROVE Goal
  BY <1>0, <1>8 DEF Started, Goto, Moves, WalkVisit, control
<1>9. CASE UNCHANGED vars
  BY <1>0, <1>9 DEF Started, vars, control
<1>10. ASSUME NEW t \in Tasks, Start(t) PROVE Goal
  <2>1. CASE \E n \in Tasks, nid \in Nodes, thread \in BOOLEAN : ForkLock(t, n, nid, thread)
    BY <2>1, <1>1
  <2>2. CASE \E q \in Tasks : Wait(t, q) \/ PtraceAttach(t, q) \/ PtraceDetach(t, q)
    BY <2>2, <1>3
  <2>3. CASE Exit(t) \/ SetSubreaper(t) \/ ClearSubreaper(t)
    BY <2>3, <1>2
  <2> QED
    BY <1>10, <2>1, <2>2, <2>3 DEF Start
<1>11. ASSUME NEW t \in Tasks, Proceed(t) PROVE Goal
  <2>1. CASE \E sibling, auto \in BOOLEAN : ForkState(t, sibling, auto)
    BY <2>1, <1>4
  <2>2. CASE \E g \in Tasks : WalkVisit(t, g)
    BY <2>2, <1>8
  <2>3. CASE ForkPublish(t) \/ ExitLock(t) \/ TakeTracee(t) \/ FindChildReaper(t) \/
          ExitState(t) \/ TakeChild(t) \/ LockChild(t) \/ FindThread(t) \/ Hop(t) \/
          ReleaseLock(t) \/ DropTracee(t) \/ Adopt(t) \/ ExitNotify(t) \/ ReleaseTask(t) \/
          WaitTraced(t) \/ WalkBegin(t) \/ WalkEnd(t)
    BY <2>3, <1>5, <1>6, <1>7
  <2> QED
    BY <1>11, <2>1, <2>2, <2>3 DEF Proceed
<1> QED
  BY <1>9, <1>10, <1>11 DEF Next

(* What each step does to the groups: one lemma per conjunct of the invariant. *)
LEMMA GroupsStep == IInv /\ [Next]_vars => Groups'
<1> SUFFICES ASSUME IInv, [Next]_vars PROVE Groups'
  OBVIOUS
<1>0. /\ hashed \subseteq Tasks /\ pc \in [Tasks -> States] /\ leader \in [Tasks -> Tasks]
      /\ Groups /\ Life
  BY DEF IInv, Control, TypeOK, GroupsType, ControlType
<1>s. \A x \in Tasks : (Started(x) => Started(x)') /\ (pc'[x] = "none" => pc[x] = "none")
  BY Starts
<1>1. ASSUME NEW t \in Tasks, NEW n \in Tasks, NEW nid \in Nodes, NEW thread \in BOOLEAN,
             ForkLock(t, n, nid, thread)
      PROVE  Groups'
  <2>1. /\ leader' = [leader EXCEPT ![n] = IF thread THEN leader[t] ELSE n]
        /\ pc[n] = "none" /\ pc'[n] = "born" /\ hashed' = hashed /\ pc[t] = "run" /\ n # t
    BY <1>0, <1>1 DEF ForkLock, Idle
  <2>2. n \notin hashed /\ Started(t)
    BY <1>0, <2>1 DEF Life, Started
  <2>3. \A x \in Tasks : leader[x] = n => x = n
    BY <1>0, <2>1 DEF Groups, Started
  <2>4. leader[t] # n /\ Started(leader[t])
    BY <1>0, <2>1, <2>2 DEF Groups, Started
  <2> QED
    BY <1>0, <1>s, <2>1, <2>2, <2>3, <2>4 DEF Groups
<1>2. ASSUME NEW t \in Tasks, ForkPublish(t) PROVE Groups'
  <2>1. /\ cur[t] \in Tasks /\ leader[cur[t]] \in {cur[t], leader[t]} /\ pc[t] = "publish"
        /\ hashed' = hashed \cup {cur[t]} /\ leader' = leader
    BY <1>2 DEF IInv, Control, Forking, Forks, ForkPublish
  <2>2. t \in hashed
    BY <1>0, <2>1 DEF Life, Started
  <2> QED
    BY <1>0, <1>s, <2>1, <2>2 DEF Groups
<1>3. ASSUME NEW t \in Tasks, ReleaseTask(t) PROVE Groups'
  <2>1. cur[t] \in hashed /\ \A x \in hashed : leader[x] = cur[t] => x = cur[t]
    BY <1>3, Released DEF ReleaseTask
  <2>2. hashed' = hashed \ {cur[t]} /\ leader' = leader
    BY <1>3 DEF ReleaseTask
  <2> QED
    BY <1>0, <1>s, <2>1, <2>2 DEF Groups
<1>4. CASE UNCHANGED groups
  BY <1>0, <1>s, <1>4 DEF Groups, groups
<1> QED
  BY <1>1, <1>2, <1>3, <1>4, Frames
     DEF ChangesGroups

(* Nobody joins the group of a dead leader: to join, a live thread must fork. *)
LEMMA ClosedStep == IInv /\ [Next]_vars => Closed'
<1> SUFFICES ASSUME IInv, [Next]_vars PROVE Closed'
  OBVIOUS
<1>0. /\ hashed \subseteq Tasks /\ leader \in [Tasks -> Tasks]
      /\ exitState \in [Tasks -> {"live", "zombie", "trace", "dead"}] /\ Closed
  BY DEF IInv, Control, TypeOK, GroupsType, StatusType
<1>1. ASSUME NEW t \in Tasks, NEW n \in Tasks, NEW nid \in Nodes, NEW thread \in BOOLEAN,
             ForkLock(t, n, nid, thread)
      PROVE  Closed'
  <2>1. leader' = [leader EXCEPT ![n] = IF thread THEN leader[t] ELSE n] /\ UNCHANGED hashed
        /\ UNCHANGED exitState /\ pc[n] = "none"
    BY <1>1 DEF ForkLock, status
  <2>2. n \notin hashed
    BY <2>1 DEF IInv, Control, Life, Started
  <2> QED
    BY <1>0, <2>1, <2>2 DEF Closed, Alone, Threads
<1>2. ASSUME NEW t \in Tasks,
             Exit(t) \/ SetSubreaper(t) \/ ClearSubreaper(t) \/ WalkBegin(t) \/ WalkEnd(t)
      PROVE  Closed'
  BY <1>0, <1>2 DEF Closed, Alone, Threads, Exit, SetSubreaper, ClearSubreaper, WalkBegin, WalkEnd,
     groups, status
<1>3. ASSUME NEW t \in Tasks,
             ExitLock(t) \/ TakeTracee(t) \/ FindChildReaper(t) \/ ExitState(t) \/
             TakeChild(t) \/ LockChild(t) \/ FindThread(t) \/ Hop(t)
      PROVE  Closed'
  BY <1>0, <1>3 DEF Closed, Alone, Threads, ExitLock, TakeTracee, FindChildReaper, ExitState,
     TakeChild, LockChild, FindThread, Hop, groups, status
<1>4. ASSUME NEW t \in Tasks, NEW sibling \in BOOLEAN, NEW auto \in BOOLEAN,
             ForkState(t, sibling, auto)
      PROVE  Closed'
  BY <1>0, <1>4 DEF Closed, Alone, Threads, ForkState, groups, status
<1>5. ASSUME NEW t \in Tasks, ReleaseLock(t) PROVE Closed'
  BY <1>0, <1>5 DEF Closed, Alone, Threads, ReleaseLock, groups, status
<1>6. ASSUME NEW t \in Tasks, NEW q \in Tasks,
             PtraceAttach(t, q) \/ PtraceDetach(t, q)
      PROVE  Closed'
  BY <1>0, <1>6 DEF Closed, Alone, Threads, PtraceAttach, PtraceDetach, groups, status
<1>7. ASSUME NEW t \in Tasks, NEW g \in Tasks, WalkVisit(t, g) PROVE Closed'
  BY <1>0, <1>7 DEF Closed, Alone, Threads, WalkVisit, groups, status
<1>8. ASSUME NEW t \in Tasks, NEW q \in Tasks, Wait(t, q) PROVE Closed'
  BY <1>0, <1>8 DEF Closed, Alone, Threads, Wait, MayReap, Claim, groups
<1>9. ASSUME NEW t \in Tasks, ForkPublish(t) PROVE Closed'
  <2>1. /\ leader[cur[t]] \in {cur[t], leader[t]} /\ cur[t] \notin hashed /\ t \in hashed
        /\ t \notin exiting /\ cur[t] \in Tasks /\ ~Started(cur[t])
    BY <1>9, Forked DEF ForkPublish, Forks
  <2>2. hashed' = hashed \cup {cur[t]} /\ leader' = leader /\ exitState' = exitState
    BY <1>9 DEF ForkPublish, status
  <2> SUFFICES ASSUME NEW p \in hashed', leader[p] = p, exitState[p] \in {"dead", "trace"}
               PROVE  Alone(p)'
    BY <2>2 DEF Closed
  <2>3. p \in Tasks /\ p \in exiting /\ Started(p)
    BY <1>0, <2>1, <2>2, ExitStates
  <2>4. p \in hashed /\ Alone(p)
    BY <1>0, <2>1, <2>2, <2>3 DEF Closed
  <2>5. leader[t] # p
    BY <2>1, <2>3, <2>4 DEF Alone, Threads
  <2> QED
    BY <1>0, <2>1, <2>2, <2>3, <2>4, <2>5 DEF Alone, Threads
<1>10. ASSUME NEW t \in Tasks, DropTracee(t) PROVE Closed'
  BY <1>0, <1>10 DEF Closed, Alone, Threads, DropTracee, PtraceDetached, Claim, groups, status
<1>11. ASSUME NEW t \in Tasks, Adopt(t) PROVE Closed'
  BY <1>0, <1>11 DEF Closed, Alone, Threads, Adopt, Claim, Mourns, groups, status
<1>12. ASSUME NEW t \in Tasks, ExitNotify(t) PROVE Closed'
  BY <1>0, <1>12 DEF Closed, Alone, Threads, ExitNotify, groups
<1>13. ASSUME NEW t \in Tasks, ReleaseTask(t) PROVE Closed'
  <2> DEFINE q == cur[t]
             l == leader[q]
  <2>1. q \in hashed /\ q \in Tasks /\ l \in Tasks
    BY <1>0, <1>13, Released DEF ReleaseTask
  <2>2. /\ hashed' = hashed \ {q} /\ leader' = leader
        /\ exitState' = exitState \/ (ZapsLeader(q) /\ exitState' = [exitState EXCEPT ![l] = "dead"])
    BY <1>13 DEF ReleaseTask
  <2> HIDE DEF q
  <2> QED
    BY <1>0, <2>1, <2>2 DEF Closed, Alone, Threads, ZapsLeader
<1>14. ASSUME NEW t \in Tasks, WaitTraced(t) PROVE Closed'
  <2> DEFINE p == cur[t]
  <2>1. p \in Tasks /\ exitState[p] = "trace"
    BY <1>14 DEF IInv, Control, GivenBack, WaitTraced, Moves
  <2>2. \E x \in {"dead", "zombie"} : exitState' = [exitState EXCEPT ![p] = x]
    BY <1>14 DEF WaitTraced
  <2>3. UNCHANGED <<hashed, leader>>
    BY <1>14 DEF WaitTraced, groups
  <2> HIDE DEF p
  <2> QED
    BY <1>0, <2>1, <2>2, <2>3 DEF Closed, Alone, Threads
<1>15. CASE UNCHANGED vars
  BY <1>0, <1>15 DEF Closed, Alone, Threads, vars, groups, status
<1>16. ASSUME NEW t \in Tasks, Start(t) PROVE Closed'
  <2>1. CASE \E n \in Tasks, nid \in Nodes, thread \in BOOLEAN : ForkLock(t, n, nid, thread)
    BY <2>1, <1>1
  <2>2. CASE \E q \in Tasks : Wait(t, q) \/ PtraceAttach(t, q) \/ PtraceDetach(t, q)
    BY <2>2, <1>6, <1>8
  <2>3. CASE Exit(t) \/ SetSubreaper(t) \/ ClearSubreaper(t)
    BY <2>3, <1>2
  <2> QED
    BY <1>16, <2>1, <2>2, <2>3 DEF Start
<1>17. ASSUME NEW t \in Tasks, Proceed(t) PROVE Closed'
  <2>1. CASE \E sibling, auto \in BOOLEAN : ForkState(t, sibling, auto)
    BY <2>1, <1>4
  <2>2. CASE \E g \in Tasks : WalkVisit(t, g)
    BY <2>2, <1>7
  <2>3. CASE ForkPublish(t) \/ ExitLock(t) \/ TakeTracee(t) \/ FindChildReaper(t) \/
          ExitState(t) \/ TakeChild(t) \/ LockChild(t) \/ FindThread(t) \/ Hop(t) \/
          ReleaseLock(t) \/ DropTracee(t) \/ Adopt(t) \/ ExitNotify(t) \/ ReleaseTask(t) \/
          WaitTraced(t) \/ WalkBegin(t) \/ WalkEnd(t)
    BY <2>3, <1>2, <1>3, <1>5, <1>9, <1>10, <1>11, <1>12, <1>13, <1>14
  <2> QED
    BY <1>17, <2>1, <2>2, <2>3 DEF Proceed
<1> QED
  BY <1>15, <1>16, <1>17 DEF Next

(* Two forks never set up the same task.                                   *)
LEMMA ForkingStep == IInv /\ [Next]_vars => Forking'
<1> SUFFICES ASSUME IInv, [Next]_vars PROVE Forking'
  OBVIOUS
<1>0. /\ leader \in [Tasks -> Tasks] /\ pc \in [Tasks -> States]
      /\ cur \in [Tasks -> Tasks \cup {None}] /\ Forking
  BY DEF IInv, Control, TypeOK, GroupsType, ControlType
<1>1. ASSUME NEW t \in Tasks, NEW n \in Tasks, NEW nid \in Nodes, NEW thread \in BOOLEAN,
             ForkLock(t, n, nid, thread)
      PROVE  Forking'
  <2>1. /\ leader' = [leader EXCEPT ![n] = IF thread THEN leader[t] ELSE n]
        /\ pc' = [pc EXCEPT ![t] = "fork", ![n] = "born"] /\ cur' = [cur EXCEPT ![t] = n]
        /\ pc[t] = "run" /\ pc[n] = "none"
    BY <1>1 DEF ForkLock, Idle
  <2>2. \A x \in Tasks : leader[x] = n => x = n
    BY <2>1 DEF IInv, Control, Groups, Started
  <2>3. \A u \in Tasks : Forks(u) => u # t /\ u # n /\ cur[u] # n
    BY <1>0, <2>1 DEF Forking, Forks
  <2>4. \A u \in Tasks : Forks(u)' <=> u = t \/ Forks(u)
    BY <1>0, <2>1 DEF Forks
  <2>5. \A u \in Tasks : Forks(u) => cur'[u] = cur[u] /\ pc'[cur[u]] = "born"
                                     /\ leader'[cur[u]] = leader[cur[u]] /\ leader'[u] = leader[u]
    BY <1>0, <2>1, <2>3 DEF Forking
  <2>6. cur'[t] = n /\ pc'[n] = "born" /\ leader'[n] \in {n, leader'[t]} /\ n # t
    BY <1>0, <2>1
  <2> QED
    BY <1>0, <2>3, <2>4, <2>5, <2>6 DEF Forking
<1>2. ASSUME NEW t \in Tasks,
             Exit(t) \/ SetSubreaper(t) \/ ClearSubreaper(t)
      PROVE  Forking'
  BY <1>0, <1>2 DEF Forking, Forks, Goto, Moves, Exit, SetSubreaper, ClearSubreaper, groups,
     control, Idle
<1>3. ASSUME NEW t \in Tasks, NEW q \in Tasks, Wait(t, q) PROVE Forking'
  <2>1. pc[t] = "run" /\ leader' = leader
    BY <1>3 DEF Wait, Idle, groups
  <2>2. \/ UNCHANGED <<cur, pc>>
        \/ cur' = [cur EXCEPT ![t] = q] /\ pc' = [pc EXCEPT ![t] = "trace"]
    BY <1>3 DEF Wait, Goto
  <2> QED
    BY <1>0, <2>1, <2>2 DEF Forking, Forks
<1>4. ASSUME NEW t \in Tasks, NEW q \in Tasks,
             PtraceAttach(t, q) \/ PtraceDetach(t, q)
      PROVE  Forking'
  BY <1>0, <1>4 DEF Forking, Forks, Goto, Moves, PtraceAttach, PtraceDetach, groups, control
<1>5. ASSUME NEW t \in Tasks, NEW sibling \in BOOLEAN, NEW auto \in BOOLEAN,
             ForkState(t, sibling, auto)
      PROVE  Forking'
  BY <1>0, <1>5 DEF Forking, Forks, Goto, Moves, ForkState, groups
<1>6. ASSUME NEW t \in Tasks, ForkPublish(t) PROVE Forking'
  <2>1. /\ leader' = leader /\ cur' = [cur EXCEPT ![t] = None] /\ pc[t] = "publish"
        /\ pc' = [pc EXCEPT ![t] = "run", ![cur[t]] = "run"]
    BY <1>6 DEF ForkPublish
  <2>2. cur[t] \in Tasks
    BY <2>1, Forked DEF Forks
  <2>3. \A u \in Tasks : Forks(u)' => Forks(u) /\ u # t
    BY <1>0, <2>1, <2>2 DEF Forks
  <2>4. \A u \in Tasks : Forks(u)' => cur'[u] = cur[u] /\ pc'[cur[u]] = pc[cur[u]]
    BY <1>0, <2>1, <2>2, <2>3 DEF Forking, Forks
  <2> QED
    BY <1>0, <2>1, <2>3, <2>4 DEF Forking
<1>7. ASSUME NEW t \in Tasks,
             ExitLock(t) \/ TakeTracee(t) \/ FindChildReaper(t) \/ ExitState(t) \/
             TakeChild(t) \/ LockChild(t) \/ FindThread(t) \/ Hop(t)
      PROVE  Forking'
  BY <1>0, <1>7 DEF Forking, Forks, Goto, Moves, ExitLock, TakeTracee, FindChildReaper, ExitState,
     TakeChild, LockChild, FindThread, Hop, groups
<1>8. ASSUME NEW t \in Tasks,
             ReleaseLock(t) \/ DropTracee(t) \/ ExitNotify(t)
      PROVE  Forking'
  BY <1>0, <1>8 DEF Forking, Forks, Goto, Moves, ReleaseLock, DropTracee, ExitNotify, groups
<1>9. ASSUME NEW t \in Tasks,
             Adopt(t) \/ ReleaseTask(t)
      PROVE  Forking'
  BY <1>0, <1>9 DEF Forking, Forks, Goto, Moves, Adopt, ReleaseTask, groups
<1>10. ASSUME NEW t \in Tasks, WaitTraced(t) PROVE Forking'
  BY <1>0, <1>10 DEF Forking, Forks, Goto, Moves, WaitTraced, groups
<1>11. ASSUME NEW t \in Tasks,
              WalkBegin(t) \/ WalkEnd(t)
       PROVE  Forking'
  BY <1>0, <1>11 DEF Forking, Forks, Goto, Moves, WalkBegin, WalkEnd, groups
<1>12. ASSUME NEW t \in Tasks, NEW g \in Tasks, WalkVisit(t, g) PROVE Forking'
  BY <1>0, <1>12 DEF Forking, Forks, Goto, Moves, WalkVisit, groups, control
<1>13. CASE UNCHANGED vars
  BY <1>0, <1>13 DEF Forking, Forks, vars, groups, control
<1>14. ASSUME NEW t \in Tasks, Start(t) PROVE Forking'
  <2>1. CASE \E n \in Tasks, nid \in Nodes, thread \in BOOLEAN : ForkLock(t, n, nid, thread)
    BY <2>1, <1>1
  <2>2. CASE \E q \in Tasks : Wait(t, q) \/ PtraceAttach(t, q) \/ PtraceDetach(t, q)
    BY <2>2, <1>3, <1>4
  <2>3. CASE Exit(t) \/ SetSubreaper(t) \/ ClearSubreaper(t)
    BY <2>3, <1>2
  <2> QED
    BY <1>14, <2>1, <2>2, <2>3 DEF Start
<1>15. ASSUME NEW t \in Tasks, Proceed(t) PROVE Forking'
  <2>1. CASE \E sibling, auto \in BOOLEAN : ForkState(t, sibling, auto)
    BY <2>1, <1>5
  <2>2. CASE \E g \in Tasks : WalkVisit(t, g)
    BY <2>2, <1>12
  <2>3. CASE ForkPublish(t) \/ ExitLock(t) \/ TakeTracee(t) \/ FindChildReaper(t) \/
          ExitState(t) \/ TakeChild(t) \/ LockChild(t) \/ FindThread(t) \/ Hop(t) \/
          ReleaseLock(t) \/ DropTracee(t) \/ Adopt(t) \/ ExitNotify(t) \/ ReleaseTask(t) \/
          WaitTraced(t) \/ WalkBegin(t) \/ WalkEnd(t)
    BY <2>3, <1>6, <1>7, <1>8, <1>9, <1>10, <1>11
  <2> QED
    BY <1>15, <2>1, <2>2, <2>3 DEF Proceed
<1> QED
  BY <1>13, <1>14, <1>15 DEF Next

(* A task that t has claimed is nobody else's. *)
LEMMA Claiming ==
  ASSUME IInv, NEW t \in Tasks, NEW p \in hashed, exitState[p] # "dead", UNCHANGED hashed,
         exitState' = [exitState EXCEPT ![p] = "dead"],
         dead' = [dead EXCEPT ![t] = @ \cup {p}]
  PROVE  Claims'
<1>0. /\ hashed \subseteq Tasks /\ dead \in [Tasks -> SUBSET Tasks] /\ Claims
      /\ exitState \in [Tasks -> {"live", "zombie", "trace", "dead"}]
  BY DEF IInv, Control, TypeOK, GroupsType, StatusType
<1>1. p \in Tasks /\ \A u \in Tasks : p \notin dead[u]
  BY <1>0 DEF Claims
<1>2. \A u, k \in Tasks : k \in dead'[u] <=> k \in dead[u] \/ (u = t /\ k = p)
  BY <1>0
<1>3. \A k \in Tasks : exitState'[k] = IF k = p THEN "dead" ELSE exitState[k]
  BY <1>0
<1> QED
  BY <1>0, <1>1, <1>2, <1>3 DEF Claims

LEMMA NothingClaimed ==
  ASSUME IInv, NEW p \in Tasks, NEW x \in {"zombie", "trace"}, exitState[p] # "dead",
         UNCHANGED <<hashed, dead>>, exitState' = [exitState EXCEPT ![p] = x]
  PROVE  Claims'
<1>0. /\ hashed \subseteq Tasks /\ Claims
      /\ exitState \in [Tasks -> {"live", "zombie", "trace", "dead"}]
  BY DEF IInv, Control, TypeOK, GroupsType, StatusType
<1> QED
  BY <1>0 DEF Claims

(* A tracee that has an exit_state has a PID. *)
LEMMA TraceesHashed ==
  ASSUME IInv, NEW q \in Tasks, q \in traced, Started(q)
  PROVE  q \in hashed
<1>1. \A u \in Tasks : pc[u] = "publish" => ~Started(cur[u])
  BY Forked DEF Forks
<1> QED
  BY <1>1 DEF IInv, TraceesExact, Unpublished

(* Every way to claim a task leaves it with one claimant.                  *)
LEMMA ClaimsStep == IInv /\ [Next]_vars => Claims'
<1> SUFFICES ASSUME IInv, [Next]_vars PROVE Claims'
  OBVIOUS
<1>0. /\ hashed \subseteq Tasks /\ dead \in [Tasks -> SUBSET Tasks] /\ Claims
      /\ exitState \in [Tasks -> {"live", "zombie", "trace", "dead"}]
  BY DEF IInv, Control, TypeOK, GroupsType, StatusType
<1>k. UNCHANGED <<hashed, exitState, dead>> => Claims'
  BY <1>0 DEF Claims
<1>1. ASSUME NEW t \in Tasks, NEW n \in Tasks, NEW nid \in Nodes, NEW thread \in BOOLEAN,
             ForkLock(t, n, nid, thread)
      PROVE  Claims'
  BY <1>k, <1>1 DEF ForkLock, status
<1>2. ASSUME NEW t \in Tasks, ForkPublish(t) PROVE Claims'
  <2>1. ~Started(cur[t]) /\ cur[t] \in Tasks /\ cur[t] \notin hashed
    BY <1>2, Forked DEF ForkPublish, Forks
  <2>2. exitState[cur[t]] = "live"
    BY <2>1, ExitStates
  <2>3. hashed' = hashed \cup {cur[t]} /\ UNCHANGED <<exitState, dead>>
    BY <1>2 DEF ForkPublish, status
  <2> QED
    BY <1>0, <2>1, <2>2, <2>3 DEF Claims
<1>3. ASSUME NEW t \in Tasks, NEW q \in Tasks, Wait(t, q) PROVE Claims'
  <2>1. q \in hashed /\ exitState[q] = "zombie" /\ UNCHANGED hashed
    BY <1>3 DEF Wait, MayReap, groups
  <2>2. \/ exitState' = [exitState EXCEPT ![q] = "trace"] /\ UNCHANGED dead
        \/ exitState' = [exitState EXCEPT ![q] = "dead"] /\ dead' = [dead EXCEPT ![t] = @ \cup {q}]
    BY <1>3, <2>1 DEF Wait, Claim
  <2> QED
    BY <2>1, <2>2, Claiming, NothingClaimed
<1>4. ASSUME NEW t \in Tasks, DropTracee(t) PROVE Claims'
  <2> DEFINE q == cur[t]
  <2>1. \/ UNCHANGED <<exitState, dead>>
        \/ /\ exitState' = [exitState EXCEPT ![q] = "dead"] /\ dead' = [dead EXCEPT ![t] = @ \cup {q}]
           /\ exitState[q] = "zombie" /\ q \in traced
    BY <1>4 DEF DropTracee, PtraceDetached, Claim, StillTraced, status
  <2>2. q \in Tasks /\ UNCHANGED hashed
    BY <1>4 DEF IInv, Control, Orphans, DropTracee, Moves, groups
  <2>3. q \in traced /\ exitState[q] = "zombie" => q \in hashed
    BY <2>2, TraceesHashed, ExitStates
  <2> QED
    BY <1>k, <2>1, <2>2, <2>3, Claiming
<1>5. ASSUME NEW t \in Tasks, Adopt(t) PROVE Claims'
  <2>1. \/ UNCHANGED <<exitState, dead>>
        \/ /\ exitState' = [exitState EXCEPT ![cur[t]] = "dead"]
           /\ dead' = [dead EXCEPT ![t] = @ \cup {cur[t]}] /\ exitState[cur[t]] = "zombie"
    BY <1>5 DEF Adopt, Claim, status
  <2>2. cur[t] \in hashed /\ UNCHANGED hashed
    BY <1>5 DEF IInv, Control, Orphans, Seeks, Adopt, groups
  <2> QED
    BY <1>k, <2>1, <2>2, Claiming
<1>6. ASSUME NEW t \in Tasks, ExitNotify(t) PROVE Claims'
  <2>1. \/ exitState' = [exitState EXCEPT ![t] = "zombie"] /\ UNCHANGED dead
        \/ exitState' = [exitState EXCEPT ![t] = "dead"] /\ dead' = [dead EXCEPT ![t] = @ \cup {t}]
    BY <1>6 DEF ExitNotify
  <2>2. t \in hashed /\ exitState[t] = "live" /\ UNCHANGED hashed
    BY <1>6 DEF IInv, Control, Life, Started, ExitNotify, Moves, groups
  <2> QED
    BY <2>1, <2>2, Claiming, NothingClaimed
<1>7. ASSUME NEW t \in Tasks, ReleaseTask(t) PROVE Claims'
  <2> DEFINE q == cur[t]
             l == leader[q]
  <2>1. q \in Tasks /\ q \in dead[t]
    BY <1>7, Released DEF ReleaseTask
  <2>2. hashed' = hashed \ {q}
    BY <1>7 DEF ReleaseTask
  <2>3. \/ UNCHANGED exitState /\ dead' = [dead EXCEPT ![t] = @ \ {q}]
        \/ /\ exitState' = [exitState EXCEPT ![l] = "dead"]
           /\ dead' = [dead EXCEPT ![t] = (@ \ {q}) \cup {l}]
           /\ l # q /\ l \in hashed /\ exitState[l] = "zombie"
    BY <1>7 DEF ReleaseTask, ZapsLeader, Threads
  <2> HIDE DEF q, l
  <2>4. CASE UNCHANGED exitState /\ dead' = [dead EXCEPT ![t] = @ \ {q}]
    <3>1. \A u, k \in Tasks : k \in dead'[u] <=> k \in dead[u] /\ ~(u = t /\ k = q)
      BY <1>0, <2>4
    <3> QED
      BY <1>0, <2>1, <2>2, <2>4, <3>1 DEF Claims
  <2>5. CASE /\ exitState' = [exitState EXCEPT ![l] = "dead"]
             /\ dead' = [dead EXCEPT ![t] = (@ \ {q}) \cup {l}]
             /\ l # q /\ l \in hashed /\ exitState[l] = "zombie"
    <3>1. \A u, k \in Tasks : k \in dead'[u] <=> (k \in dead[u] /\ ~(u = t /\ k = q))
                                                 \/ (u = t /\ k = l)
      BY <1>0, <2>5
    <3>2. l \in Tasks /\ \A u \in Tasks : l \notin dead[u]
      BY <1>0, <2>5 DEF Claims
    <3>3. \A k \in Tasks : exitState'[k] = IF k = l THEN "dead" ELSE exitState[k]
      BY <1>0, <2>5
    <3> QED
      BY <1>0, <2>1, <2>2, <2>5, <3>1, <3>2, <3>3 DEF Claims
  <2> QED
    BY <2>3, <2>4, <2>5
<1>8. ASSUME NEW t \in Tasks, WaitTraced(t) PROVE Claims'
  <2>1. cur[t] \in Tasks /\ exitState[cur[t]] = "trace"
    BY <1>8 DEF IInv, Control, GivenBack, WaitTraced, Moves
  <2>2. cur[t] \in hashed /\ UNCHANGED hashed
    BY <1>8, <2>1, ExitStates DEF IInv, Control, Life, WaitTraced, groups
  <2>3. \/ exitState' = [exitState EXCEPT ![cur[t]] = "zombie"] /\ UNCHANGED dead
        \/ /\ exitState' = [exitState EXCEPT ![cur[t]] = "dead"]
           /\ dead' = [dead EXCEPT ![t] = @ \cup {cur[t]}]
    BY <1>8 DEF WaitTraced
  <2> QED
    BY <2>1, <2>2, <2>3, Claiming, NothingClaimed
<1>9. CASE UNCHANGED <<groups, status>>
  BY <1>k, <1>9 DEF groups, status
<1> QED
  BY <1>1, <1>2, <1>3, <1>4, <1>5, <1>6, <1>7, <1>8, <1>9, Frames
     DEF ChangesGroups, ChangesStatus

LEMMA ReleasingStep == IInv /\ [Next]_vars => Releasing'
<1> SUFFICES ASSUME IInv, [Next]_vars PROVE Releasing'
  OBVIOUS
<1>0. /\ pc \in [Tasks -> States] /\ dead \in [Tasks -> SUBSET Tasks]
      /\ cur \in [Tasks -> Tasks \cup {None}] /\ Releasing
  BY DEF IInv, Control, TypeOK, StatusType, ControlType
<1>1. ASSUME NEW t \in Tasks, NEW n \in Tasks, NEW nid \in Nodes, NEW thread \in BOOLEAN,
             ForkLock(t, n, nid, thread)
      PROVE  Releasing'
  BY <1>0, <1>1 DEF Releasing, Goto, Moves, ForkLock, status
<1>2. ASSUME NEW t \in Tasks,
             Exit(t) \/ SetSubreaper(t) \/ ClearSubreaper(t)
      PROVE  Releasing'
  BY <1>0, <1>2 DEF Releasing, Goto, Moves, Exit, SetSubreaper, ClearSubreaper, status, control
<1>3. ASSUME NEW t \in Tasks, NEW q \in Tasks, Wait(t, q) PROVE Releasing'
  <2>1. pc[t] = "run" /\ \A u \in Tasks : u # t => dead'[u] = dead[u]
    BY <1>0, <1>3 DEF Wait, Claim, Idle
  <2>2. \/ UNCHANGED <<cur, pc>>
        \/ cur' = [cur EXCEPT ![t] = q] /\ pc' = [pc EXCEPT ![t] = "trace"]
    BY <1>3 DEF Wait, Goto
  <2> QED
    BY <1>0, <2>1, <2>2 DEF Releasing
<1>4. ASSUME NEW t \in Tasks, NEW q \in Tasks,
             PtraceAttach(t, q) \/ PtraceDetach(t, q)
      PROVE  Releasing'
  BY <1>0, <1>4 DEF Releasing, Goto, Moves, PtraceAttach, PtraceDetach, status, control
<1>5. ASSUME NEW t \in Tasks, NEW sibling \in BOOLEAN, NEW auto \in BOOLEAN,
             ForkState(t, sibling, auto)
      PROVE  Releasing'
  BY <1>0, <1>5 DEF Releasing, Goto, Moves, ForkState, status
<1>6. ASSUME NEW t \in Tasks, ForkPublish(t) PROVE Releasing'
  BY <1>0, <1>6 DEF Releasing, Goto, Moves, ForkPublish, status
<1>7. ASSUME NEW t \in Tasks,
             ExitLock(t) \/ TakeTracee(t) \/ FindChildReaper(t) \/ ExitState(t) \/
             TakeChild(t) \/ LockChild(t) \/ FindThread(t) \/ Hop(t)
      PROVE  Releasing'
  BY <1>0, <1>7 DEF Releasing, Goto, Moves, ExitLock, TakeTracee, FindChildReaper, ExitState,
     TakeChild, LockChild, FindThread, Hop, status
<1>8. ASSUME NEW t \in Tasks, ReleaseLock(t) PROVE Releasing'
  BY <1>0, <1>8 DEF Releasing, Goto, Moves, ReleaseLock, status
<1>9. ASSUME NEW t \in Tasks, DropTracee(t) PROVE Releasing'
  BY <1>0, <1>9 DEF Releasing, Goto, Moves, DropTracee, PtraceDetached, Claim, status
<1>10. ASSUME NEW t \in Tasks, Adopt(t) PROVE Releasing'
  BY <1>0, <1>10 DEF Releasing, Goto, Moves, Adopt, Claim, status
<1>11. ASSUME NEW t \in Tasks, ExitNotify(t) PROVE Releasing'
  BY <1>0, <1>11 DEF Releasing, Goto, Moves, ExitNotify
<1>12. ASSUME NEW t \in Tasks, ReleaseTask(t) PROVE Releasing'
  BY <1>0, <1>12 DEF Releasing, Goto, Moves, ReleaseTask
<1>13. ASSUME NEW t \in Tasks, WaitTraced(t) PROVE Releasing'
  BY <1>0, <1>13 DEF Releasing, Goto, Moves, WaitTraced
<1>14. ASSUME NEW t \in Tasks,
              WalkBegin(t) \/ WalkEnd(t)
       PROVE  Releasing'
  BY <1>0, <1>14 DEF Releasing, Goto, Moves, WalkBegin, WalkEnd, status
<1>15. ASSUME NEW t \in Tasks, NEW g \in Tasks, WalkVisit(t, g) PROVE Releasing'
  BY <1>0, <1>15 DEF Releasing, Goto, Moves, WalkVisit, status, control
<1>16. CASE UNCHANGED vars
  BY <1>0, <1>16 DEF Releasing, vars, status, control
<1>17. ASSUME NEW t \in Tasks, Start(t) PROVE Releasing'
  <2>1. CASE \E n \in Tasks, nid \in Nodes, thread \in BOOLEAN : ForkLock(t, n, nid, thread)
    BY <2>1, <1>1
  <2>2. CASE \E q \in Tasks : Wait(t, q) \/ PtraceAttach(t, q) \/ PtraceDetach(t, q)
    BY <2>2, <1>3, <1>4
  <2>3. CASE Exit(t) \/ SetSubreaper(t) \/ ClearSubreaper(t)
    BY <2>3, <1>2
  <2> QED
    BY <1>17, <2>1, <2>2, <2>3 DEF Start
<1>18. ASSUME NEW t \in Tasks, Proceed(t) PROVE Releasing'
  <2>1. CASE \E sibling, auto \in BOOLEAN : ForkState(t, sibling, auto)
    BY <2>1, <1>5
  <2>2. CASE \E g \in Tasks : WalkVisit(t, g)
    BY <2>2, <1>15
  <2>3. CASE ForkPublish(t) \/ ExitLock(t) \/ TakeTracee(t) \/ FindChildReaper(t) \/
          ExitState(t) \/ TakeChild(t) \/ LockChild(t) \/ FindThread(t) \/ Hop(t) \/
          ReleaseLock(t) \/ DropTracee(t) \/ Adopt(t) \/ ExitNotify(t) \/ ReleaseTask(t) \/
          WaitTraced(t) \/ WalkBegin(t) \/ WalkEnd(t)
    BY <2>3, <1>6, <1>7, <1>8, <1>9, <1>10, <1>11, <1>12, <1>13, <1>14
  <2> QED
    BY <1>18, <2>1, <2>2, <2>3 DEF Proceed
<1> QED
  BY <1>16, <1>17, <1>18 DEF Next

(* A leader in EXIT_TRACE is nobody else's until it is given back.         *)
LEMMA GivenBackStep == IInv /\ [Next]_vars => GivenBack'
<1> SUFFICES ASSUME IInv, [Next]_vars PROVE GivenBack'
  OBVIOUS
<1>0. /\ pc \in [Tasks -> States] /\ cur \in [Tasks -> Tasks \cup {None}]
      /\ exitState \in [Tasks -> {"live", "zombie", "trace", "dead"}]
      /\ leader \in [Tasks -> Tasks] /\ GivenBack
  BY DEF IInv, Control, TypeOK, StatusType, ControlType, GroupsType
<1>e. \A p \in Tasks : exitState[p] = "trace" => Started(p)
  BY ExitStates
<1>1. ASSUME NEW t \in Tasks, NEW n \in Tasks, NEW nid \in Nodes, NEW thread \in BOOLEAN,
             ForkLock(t, n, nid, thread)
      PROVE  GivenBack'
  BY <1>0, <1>e, <1>1 DEF GivenBack, Goto, Moves, ForkLock, status, Idle, Started
<1>2. ASSUME NEW t \in Tasks,
             Exit(t) \/ SetSubreaper(t) \/ ClearSubreaper(t)
      PROVE  GivenBack'
  BY <1>0, <1>2 DEF GivenBack, Goto, Moves, Exit, SetSubreaper, ClearSubreaper, groups, status,
     control
<1>3. ASSUME NEW t \in Tasks, NEW q \in Tasks, Wait(t, q) PROVE GivenBack'
  <2>1. pc[t] = "run" /\ exitState[q] = "zombie" /\ leader' = leader
    BY <1>0, <1>3 DEF Wait, MayReap, Idle, groups
  <2>2. \/ /\ UNCHANGED <<cur, pc>> /\ exitState' = [exitState EXCEPT ![q] = "dead"]
        \/ /\ cur' = [cur EXCEPT ![t] = q] /\ pc' = [pc EXCEPT ![t] = "trace"]
           /\ exitState' = [exitState EXCEPT ![q] = "trace"] /\ leader[q] = q
    BY <1>3, <2>1 DEF Wait, Goto, Claim
  <2>3. \A k \in Tasks : exitState[k] = "trace" => exitState'[k] = "trace"
    BY <1>0, <2>1, <2>2
  <2>4. \A u \in Tasks : pc[u] = "trace" => u # t /\ cur[u] # q
    BY <1>0, <2>1 DEF GivenBack
  <2>5. \A u \in Tasks : pc'[u] = "trace" =>
          \/ pc[u] = "trace" /\ cur'[u] = cur[u]
          \/ u = t /\ cur'[u] = q /\ exitState'[q] = "trace" /\ leader[q] = q
    BY <1>0, <2>1, <2>2
  <2> QED
    BY <1>0, <2>1, <2>3, <2>4, <2>5 DEF GivenBack
<1>4. ASSUME NEW t \in Tasks, NEW q \in Tasks,
             PtraceAttach(t, q) \/ PtraceDetach(t, q)
      PROVE  GivenBack'
  BY <1>0, <1>4 DEF GivenBack, Goto, Moves, PtraceAttach, PtraceDetach, groups, status, control
<1>5. ASSUME NEW t \in Tasks, NEW sibling \in BOOLEAN, NEW auto \in BOOLEAN,
             ForkState(t, sibling, auto)
      PROVE  GivenBack'
  BY <1>0, <1>5 DEF GivenBack, Goto, Moves, ForkState, groups, status
<1>6. ASSUME NEW t \in Tasks, ForkPublish(t) PROVE GivenBack'
  BY <1>0, <1>6 DEF GivenBack, Goto, Moves, ForkPublish, status
<1>7. ASSUME NEW t \in Tasks, ExitLock(t) PROVE GivenBack'
  BY <1>0, <1>7 DEF GivenBack, Goto, Moves, ExitLock, groups, status
<1>8. ASSUME NEW t \in Tasks, TakeTracee(t) PROVE GivenBack'
  BY <1>0, <1>8 DEF GivenBack, Goto, Moves, TakeTracee, groups, status
<1>9. ASSUME NEW t \in Tasks, FindChildReaper(t) PROVE GivenBack'
  BY <1>0, <1>9 DEF GivenBack, Goto, Moves, FindChildReaper, groups, status
<1>10. ASSUME NEW t \in Tasks, ExitState(t) PROVE GivenBack'
  BY <1>0, <1>10 DEF GivenBack, Goto, Moves, ExitState, groups, status
<1>11. ASSUME NEW t \in Tasks,
              TakeChild(t) \/ LockChild(t) \/ FindThread(t) \/ Hop(t)
       PROVE  GivenBack'
  BY <1>0, <1>11 DEF GivenBack, Goto, Moves, TakeChild, LockChild, FindThread, Hop, groups, status
<1>12. ASSUME NEW t \in Tasks, ReleaseLock(t) PROVE GivenBack'
  BY <1>0, <1>12 DEF GivenBack, Goto, Moves, ReleaseLock, groups, status
<1>13. ASSUME NEW t \in Tasks, DropTracee(t) PROVE GivenBack'
  <2>1. \/ UNCHANGED exitState
        \/ /\ exitState' = [exitState EXCEPT ![cur[t]] = "dead"] /\ exitState[cur[t]] = "zombie"
    BY <1>13 DEF DropTracee, PtraceDetached, Claim, status
  <2>2. /\ pc[t] = "tracee" /\ pc' = [pc EXCEPT ![t] = "tracees"] /\ UNCHANGED <<cur, leader>>
    BY <1>13 DEF DropTracee, Moves, Goto, groups
  <2> QED
    BY <1>0, <2>1, <2>2 DEF GivenBack
<1>14. ASSUME NEW t \in Tasks, Adopt(t) PROVE GivenBack'
  <2>1. \/ UNCHANGED exitState
        \/ /\ exitState' = [exitState EXCEPT ![cur[t]] = "dead"] /\ exitState[cur[t]] = "zombie"
    BY <1>14 DEF Adopt, Claim, status
  <2>2. /\ pc[t] = "adopt" /\ UNCHANGED <<cur, leader>>
        /\ \E to \in {"find", "children"} : pc' = [pc EXCEPT ![t] = to]
    BY <1>14 DEF Adopt, Moves, Goto, groups
  <2> QED
    BY <1>0, <2>1, <2>2 DEF GivenBack
<1>15. ASSUME NEW t \in Tasks, ExitNotify(t) PROVE GivenBack'
  <2>1. exitState[t] # "trace"
    BY <1>15, ExitStates DEF ExitNotify, Moves
  <2>2. /\ pc[t] = "notify" /\ pc' = [pc EXCEPT ![t] = "gone"] /\ UNCHANGED <<cur, leader>>
        /\ \E x \in {"dead", "zombie"} : exitState' = [exitState EXCEPT ![t] = x]
    BY <1>15 DEF ExitNotify, Moves, Goto, groups
  <2> QED
    BY <1>0, <2>1, <2>2 DEF GivenBack
<1>16. ASSUME NEW t \in Tasks, ReleaseTask(t) PROVE GivenBack'
  <2>1. \A k \in Tasks : exitState[k] = "trace" => exitState'[k] = "trace"
    BY <1>0, <1>16 DEF ReleaseTask, ZapsLeader
  <2>2. /\ pc[t] = "release" /\ cur' = [cur EXCEPT ![t] = None] /\ UNCHANGED leader
        /\ \E to \in {"gone", "run"} : pc' = [pc EXCEPT ![t] = to]
    BY <1>16 DEF ReleaseTask, Moves, Goto
  <2> QED
    BY <1>0, <2>1, <2>2 DEF GivenBack
<1>17. ASSUME NEW t \in Tasks, WaitTraced(t) PROVE GivenBack'
  <2>1. /\ pc[t] = "trace" /\ cur' = [cur EXCEPT ![t] = None] /\ UNCHANGED leader
        /\ pc' = [pc EXCEPT ![t] = "run"]
        /\ \E x \in {"dead", "zombie"} : exitState' = [exitState EXCEPT ![cur[t]] = x]
    BY <1>17 DEF WaitTraced, Moves, Goto, groups
  <2>2. \A u \in Tasks : u # t /\ pc[u] = "trace" => cur[u] # cur[t]
    BY <1>0, <2>1 DEF GivenBack
  <2> QED
    BY <1>0, <2>1, <2>2 DEF GivenBack
<1>18. ASSUME NEW t \in Tasks, WalkBegin(t) PROVE GivenBack'
  BY <1>0, <1>18 DEF GivenBack, Goto, Moves, WalkBegin, groups, status
<1>19. ASSUME NEW t \in Tasks, WalkEnd(t) PROVE GivenBack'
  BY <1>0, <1>19 DEF GivenBack, Goto, Moves, WalkEnd, groups, status
<1>20. ASSUME NEW t \in Tasks, NEW g \in Tasks, WalkVisit(t, g) PROVE GivenBack'
  BY <1>0, <1>20 DEF GivenBack, Goto, Moves, WalkVisit, groups, status, control
<1>21. CASE UNCHANGED vars
  BY <1>0, <1>21 DEF GivenBack, vars, groups, status, control
<1>22. ASSUME NEW t \in Tasks, Start(t) PROVE GivenBack'
  <2>1. CASE \E n \in Tasks, nid \in Nodes, thread \in BOOLEAN : ForkLock(t, n, nid, thread)
    BY <2>1, <1>1
  <2>2. CASE \E q \in Tasks : Wait(t, q) \/ PtraceAttach(t, q) \/ PtraceDetach(t, q)
    BY <2>2, <1>3, <1>4
  <2>3. CASE Exit(t) \/ SetSubreaper(t) \/ ClearSubreaper(t)
    BY <2>3, <1>2
  <2> QED
    BY <1>22, <2>1, <2>2, <2>3 DEF Start
<1>23. ASSUME NEW t \in Tasks, Proceed(t) PROVE GivenBack'
  <2>1. CASE \E sibling, auto \in BOOLEAN : ForkState(t, sibling, auto)
    BY <2>1, <1>5
  <2>2. CASE \E g \in Tasks : WalkVisit(t, g)
    BY <2>2, <1>20
  <2>3. CASE ForkPublish(t) \/ ExitLock(t) \/ TakeTracee(t) \/ FindChildReaper(t) \/
          ExitState(t) \/ TakeChild(t) \/ LockChild(t) \/ FindThread(t) \/ Hop(t) \/
          ReleaseLock(t) \/ DropTracee(t) \/ Adopt(t) \/ ExitNotify(t) \/ ReleaseTask(t) \/
          WaitTraced(t) \/ WalkBegin(t) \/ WalkEnd(t)
    BY <2>3, <1>6, <1>7, <1>8, <1>9, <1>10, <1>11, <1>12, <1>13, <1>14, <1>15, <1>16, <1>17,
       <1>18, <1>19
  <2> QED
    BY <1>23, <2>1, <2>2, <2>3 DEF Proceed
<1> QED
  BY <1>21, <1>22, <1>23 DEF Next

(* The state lock is held from where it is taken to where it is given up.  *)
LEMMA LockedStep == IInv /\ [Next]_vars => Locked'
<1> SUFFICES ASSUME IInv, [Next]_vars PROVE Locked'
  OBVIOUS
<1>0. /\ pc \in [Tasks -> States] /\ cur \in [Tasks -> Tasks \cup {None}]
      /\ state \in [Tasks -> Tasks \cup {None}] /\ leader \in [Tasks -> Tasks]
      /\ None \notin Tasks /\ Locked
  BY DEF IInv, Control, TypeOK, LocksType, ControlType, GroupsType
<1>c. \A u \in Tasks : pc[u] \in {"publish"} \cup Seeks =>
        cur[u] \in Tasks /\ pc[cur[u]] # "none" /\ leader[cur[u]] \in {cur[u], leader[u]}
  BY Forked DEF IInv, Control, Orphans, Seeks, Started, Forks
<1>1. ASSUME NEW t \in Tasks, NEW n \in Tasks, NEW nid \in Nodes, NEW thread \in BOOLEAN,
             ForkLock(t, n, nid, thread)
      PROVE  Locked'
  <2>1. /\ leader' = [leader EXCEPT ![n] = IF thread THEN leader[t] ELSE n]
        /\ pc' = [pc EXCEPT ![t] = "fork", ![n] = "born"] /\ cur' = [cur EXCEPT ![t] = n]
        /\ pc[n] = "none" /\ UNCHANGED state
    BY <1>1 DEF ForkLock
  <2>2. \A u \in Tasks : pc'[u] \in {"publish", "children", "child"} \cup Seeks =>
          u # t /\ u # n /\ pc[u] = pc'[u]
    BY <1>0, <2>1 DEF Seeks
  <2> QED
    BY <1>0, <1>c, <2>1, <2>2 DEF Locked
<1>2. ASSUME NEW t \in Tasks,
             Exit(t) \/ SetSubreaper(t) \/ ClearSubreaper(t)
      PROVE  Locked'
  BY <1>0, <1>2 DEF Locked, Seeks, Goto, Moves, Exit, SetSubreaper, ClearSubreaper, groups, locks,
     control
<1>3. ASSUME NEW t \in Tasks, NEW q \in Tasks, Wait(t, q) PROVE Locked'
  <2>1. pc[t] = "run" /\ UNCHANGED <<leader, state>>
    BY <1>3 DEF Wait, Idle, groups, locks
  <2>2. \/ UNCHANGED <<cur, pc>>
        \/ cur' = [cur EXCEPT ![t] = q] /\ pc' = [pc EXCEPT ![t] = "trace"]
    BY <1>3 DEF Wait, Goto
  <2> QED
    BY <1>0, <2>1, <2>2 DEF Locked, Seeks
<1>4. ASSUME NEW t \in Tasks, NEW q \in Tasks,
             PtraceAttach(t, q) \/ PtraceDetach(t, q)
      PROVE  Locked'
  BY <1>0, <1>4 DEF Locked, Seeks, Goto, Moves, PtraceAttach, PtraceDetach, groups, locks, control
<1>5. ASSUME NEW t \in Tasks, NEW sibling \in BOOLEAN, NEW auto \in BOOLEAN,
             ForkState(t, sibling, auto)
      PROVE  Locked'
  <2>1. /\ pc[t] = "fork" /\ pc' = [pc EXCEPT ![t] = "publish"] /\ UNCHANGED <<cur, leader>>
        /\ state[leader[t]] = None
        /\ state' = [g \in Tasks |-> IF g \in {leader[t], leader[cur[t]]} THEN t ELSE state[g]]
    BY <1>5 DEF ForkState, Moves, Goto, Free, ForkStates, groups
  <2>2. cur[t] \in Tasks /\ leader[cur[t]] \in {cur[t], leader[t]} /\ ~Started(cur[t])
        /\ pc[cur[t]] = "born"
    BY <2>1, Forked DEF Forks
  <2>3. \A u \in Tasks : u # t /\ pc[u] \in {"publish", "children", "child"} \cup Seeks =>
          leader[u] # leader[t] /\ leader[u] # cur[t]
    <3>1. \A u \in Tasks : leader[u] = cur[t] => u = cur[t]
      BY <2>2 DEF IInv, Control, Groups
    <3> QED
      BY <1>0, <2>1, <2>2, <3>1 DEF Locked, Seeks
  <2>4. \A u \in Tasks : u # t /\ pc[u] \in {"publish"} \cup Seeks =>
          leader[cur[u]] # leader[t] /\ leader[cur[u]] # cur[t]
    <3>1. \A u \in Tasks : u # t /\ pc[u] \in {"publish"} \cup Seeks => cur[u] # cur[t]
      BY <2>1, <2>2 DEF IInv, Control, Forking, Forks, Orphans, Seeks
    <3> QED
      BY <1>0, <1>c, <2>1, <2>3, <3>1 DEF Locked, Seeks
  <2>5. \A u \in Tasks : u # t => pc'[u] = pc[u] /\ cur'[u] = cur[u]
    BY <1>0, <2>1
  <2>6. state'[leader[t]] = t /\ state'[leader[cur[t]]] = t
    BY <1>0, <2>1, <2>2
  <2> QED
    BY <1>0, <1>c, <2>1, <2>2, <2>3, <2>4, <2>5, <2>6 DEF Locked
<1>6. ASSUME NEW t \in Tasks, ForkPublish(t) PROVE Locked'
  <2>1. /\ pc[t] = "publish" /\ pc' = [pc EXCEPT ![t] = "run", ![cur[t]] = "run"]
        /\ cur' = [cur EXCEPT ![t] = None] /\ UNCHANGED leader
        /\ state' = [g \in Tasks |-> IF g \in {leader[t], leader[cur[t]]} THEN None ELSE state[g]]
    BY <1>6 DEF ForkPublish, ForkStates
  <2>2. cur[t] \in Tasks /\ state[leader[t]] = t /\ state[leader[cur[t]]] = t
    BY <1>0, <2>1, Forked DEF Forks, Locked
  <2>3. \A u \in Tasks : pc'[u] \in {"publish", "children", "child"} \cup Seeks =>
          u # t /\ pc[u] = pc'[u] /\ cur'[u] = cur[u]
    BY <1>0, <2>1, <2>2 DEF Seeks
  <2> QED
    BY <1>0, <1>c, <2>1, <2>2, <2>3 DEF Locked
<1>7. ASSUME NEW t \in Tasks,
             ExitLock(t) \/ TakeTracee(t) \/ FindChildReaper(t)
      PROVE  Locked'
  BY <1>0, <1>7 DEF Locked, Seeks, Goto, Moves, ExitLock, TakeTracee, FindChildReaper, groups,
     locks
<1>8. ASSUME NEW t \in Tasks, ExitState(t) PROVE Locked'
  BY <1>0, <1>c, <1>8 DEF Locked, Seeks, Goto, Moves, ExitState, groups, Free
<1>9. ASSUME NEW t \in Tasks, TakeChild(t) PROVE Locked'
  <2>1. pc[t] = "children" /\ UNCHANGED leader
    BY <1>9 DEF TakeChild, groups
  <2>2. \/ \E p \in children[t] :
             cur' = [cur EXCEPT ![t] = p] /\ pc' = [pc EXCEPT ![t] = "child"] /\ UNCHANGED state
        \/ /\ cur' = [cur EXCEPT ![t] = None] /\ pc' = [pc EXCEPT ![t] = "notify"]
           /\ state' = [state EXCEPT ![leader[t]] = None]
    BY <1>9 DEF TakeChild, Goto
  <2>3. state[leader[t]] = t
    BY <1>0, <2>1 DEF Locked
  <2> QED
    BY <1>0, <1>c, <2>1, <2>2, <2>3 DEF Locked, Seeks
<1>10. ASSUME NEW t \in Tasks, LockChild(t) PROVE Locked'
  <2>1. pc[t] = "child" /\ UNCHANGED <<leader, cur>> /\ state[leader[cur[t]]] = None
    BY <1>10 DEF LockChild, groups, Free
  <2>2. \/ pc' = [pc EXCEPT ![t] = "children"] /\ UNCHANGED state
        \/ /\ pc' = [pc EXCEPT ![t] = "find"]
           /\ state' = [state EXCEPT ![leader[cur[t]]] = t]
    BY <1>10 DEF LockChild, Goto
  <2>3. state[leader[t]] = t /\ cur[t] \in Tasks
    BY <1>0, <2>1 DEF Locked, IInv, Control, Orphans
  <2> QED
    BY <1>0, <1>c, <2>1, <2>2, <2>3 DEF Locked, Seeks
<1>11. ASSUME NEW t \in Tasks,
              FindThread(t) \/ Hop(t)
       PROVE  Locked'
  BY <1>0, <1>11 DEF Locked, Seeks, Goto, Moves, FindThread, Hop, groups, locks
<1>12. ASSUME NEW t \in Tasks, ReleaseLock(t) PROVE Locked'
  <2>1. /\ pc[t] \in {"run", "gone"} /\ pc' = [pc EXCEPT ![t] = "release"]
        /\ \E q \in dead[t] : cur' = [cur EXCEPT ![t] = q]
        /\ UNCHANGED <<leader, state>>
    BY <1>12 DEF ReleaseLock, Goto, groups
  <2> QED
    BY <1>0, <2>1 DEF Locked, Seeks
<1>13. ASSUME NEW t \in Tasks, DropTracee(t) PROVE Locked'
  BY <1>0, <1>13 DEF Locked, Seeks, Goto, Moves, DropTracee, groups, locks
<1>14. ASSUME NEW t \in Tasks, Adopt(t) PROVE Locked'
  <2>1. pc[t] = "adopt" /\ UNCHANGED <<leader, cur>>
    BY <1>14 DEF Adopt, groups
  <2>2. \/ pc' = [pc EXCEPT ![t] = "find"] /\ UNCHANGED state
        \/ /\ pc' = [pc EXCEPT ![t] = "children"]
           /\ state' = [state EXCEPT ![leader[cur[t]]] = None]
    BY <1>14 DEF Adopt, Goto
  <2>3. state[leader[t]] = t /\ state[leader[cur[t]]] = t /\ leader[t] # leader[cur[t]]
    BY <1>0, <2>1 DEF Locked, IInv, Control, Orphans, Seeks
  <2> QED
    BY <1>0, <1>c, <2>1, <2>2, <2>3 DEF Locked, Seeks
<1>15. ASSUME NEW t \in Tasks,
              ExitNotify(t) \/ ReleaseTask(t)
       PROVE  Locked'
  BY <1>0, <1>15 DEF Locked, Seeks, Goto, Moves, ExitNotify, ReleaseTask, groups
<1>16. ASSUME NEW t \in Tasks,
              WaitTraced(t) \/ WalkBegin(t) \/ WalkEnd(t)
       PROVE  Locked'
  BY <1>0, <1>16 DEF Locked, Seeks, Goto, Moves, WaitTraced, WalkBegin, WalkEnd, groups, locks
<1>17. ASSUME NEW t \in Tasks, NEW g \in Tasks, WalkVisit(t, g) PROVE Locked'
  BY <1>0, <1>17 DEF Locked, Seeks, Goto, Moves, WalkVisit, groups, locks, control
<1>18. CASE UNCHANGED vars
  BY <1>0, <1>18 DEF Locked, vars, groups, locks, control
<1>19. ASSUME NEW t \in Tasks, Start(t) PROVE Locked'
  <2>1. CASE \E n \in Tasks, nid \in Nodes, thread \in BOOLEAN : ForkLock(t, n, nid, thread)
    BY <2>1, <1>1
  <2>2. CASE \E q \in Tasks : Wait(t, q) \/ PtraceAttach(t, q) \/ PtraceDetach(t, q)
    BY <2>2, <1>3, <1>4
  <2>3. CASE Exit(t) \/ SetSubreaper(t) \/ ClearSubreaper(t)
    BY <2>3, <1>2
  <2> QED
    BY <1>19, <2>1, <2>2, <2>3 DEF Start
<1>20. ASSUME NEW t \in Tasks, Proceed(t) PROVE Locked'
  <2>1. CASE \E sibling, auto \in BOOLEAN : ForkState(t, sibling, auto)
    BY <2>1, <1>5
  <2>2. CASE \E g \in Tasks : WalkVisit(t, g)
    BY <2>2, <1>17
  <2>3. CASE ForkPublish(t) \/ ExitLock(t) \/ TakeTracee(t) \/ FindChildReaper(t) \/
          ExitState(t) \/ TakeChild(t) \/ LockChild(t) \/ FindThread(t) \/ Hop(t) \/
          ReleaseLock(t) \/ DropTracee(t) \/ Adopt(t) \/ ExitNotify(t) \/ ReleaseTask(t) \/
          WaitTraced(t) \/ WalkBegin(t) \/ WalkEnd(t)
    BY <2>3, <1>6, <1>7, <1>8, <1>9, <1>10, <1>11, <1>12, <1>13, <1>14, <1>15, <1>16
  <2> QED
    BY <1>20, <2>1, <2>2, <2>3 DEF Proceed
<1> QED
  BY <1>18, <1>19, <1>20 DEF Next

(* Under its state lock no one else adopts or releases the child.          *)
LEMMA OrphansStep == IInv /\ [Next]_vars => Orphans'
<1> SUFFICES ASSUME IInv, [Next]_vars PROVE Orphans'
  OBVIOUS
<1>0. /\ pc \in [Tasks -> States] /\ cur \in [Tasks -> Tasks \cup {None}]
      /\ realParent \in [Tasks -> Tasks \cup {None}] /\ leader \in [Tasks -> Tasks]
      /\ hashed \subseteq Tasks /\ Orphans
  BY DEF IInv, Control, TypeOK, LinksType, ControlType, GroupsType
<1>s. \A x \in Tasks : (Started(x) => Started(x)') /\ (pc'[x] = "none" => pc[x] = "none")
  BY Starts
<1> DEFINE Seeking == {"child"} \cup Seeks
           (* What Orphans says of u is left alone. *)
           Stays(u) ==
             /\ pc'[u] \in {"tracee"} \cup Seeking => pc'[u] = pc[u] /\ cur'[u] = cur[u]
             /\ pc'[u] \in Seeking =>
                  leader'[cur[u]] = leader[cur[u]] /\ leader'[u] = leader[u]
             /\ pc'[u] \in Seeks => cur[u] \in hashed' /\ realParent'[cur[u]] = realParent[cur[u]]
<1>u. (\A u \in Tasks : Stays(u)) => Orphans'
  BY <1>s, <1>0 DEF Orphans
<1>h. \A u \in Tasks : pc[u] \in Seeks => cur[u] \in hashed
  BY <1>0 DEF Orphans
<1> DEFINE Quiet(u) ==
      pc'[u] \in {"tracee"} \cup Seeking => pc'[u] = pc[u] /\ cur'[u] = cur[u]
<1>q. UNCHANGED <<hashed, leader, realParent>> /\ (\A u \in Tasks : Quiet(u)) => Orphans'
  BY <1>u, <1>h
<1> HIDE DEF Quiet, Stays
<1>1. ASSUME NEW t \in Tasks, NEW n \in Tasks, NEW nid \in Nodes, NEW thread \in BOOLEAN,
             ForkLock(t, n, nid, thread)
      PROVE  Orphans'
  <2>1. /\ leader' = [leader EXCEPT ![n] = IF thread THEN leader[t] ELSE n]
        /\ pc' = [pc EXCEPT ![t] = "fork", ![n] = "born"] /\ cur' = [cur EXCEPT ![t] = n]
        /\ pc[n] = "none" /\ UNCHANGED <<hashed, realParent>>
    BY <1>1 DEF ForkLock, links
  <2>2. \A u \in Tasks : pc'[u] \in {"tracee"} \cup Seeking =>
          u # t /\ u # n /\ pc[u] = pc'[u] /\ (pc[u] \in Seeking => cur[u] # n)
    BY <1>0, <2>1 DEF Seeks, Orphans, Started
  <2> QED
    BY <1>0, <1>u, <1>h, <2>1, <2>2 DEF Stays
<1>2. ASSUME NEW t \in Tasks,
             Exit(t) \/ SetSubreaper(t) \/ ClearSubreaper(t)
      PROVE  Orphans'
  BY <1>0, <1>q, <1>2 DEF Quiet, Seeks, Goto, Moves, groups, links, Exit, SetSubreaper,
     ClearSubreaper, control
<1>3. ASSUME NEW t \in Tasks, NEW q \in Tasks, Wait(t, q) PROVE Orphans'
  <2>1. pc[t] = "run" /\ UNCHANGED <<hashed, leader, realParent>>
    BY <1>3 DEF Wait, Idle, groups, links
  <2>2. \/ UNCHANGED <<cur, pc>>
        \/ cur' = [cur EXCEPT ![t] = q] /\ pc' = [pc EXCEPT ![t] = "trace"]
    BY <1>3 DEF Wait, Goto
  <2> QED
    BY <1>0, <1>q, <2>1, <2>2 DEF Quiet, Seeks
<1>4. ASSUME NEW t \in Tasks, NEW q \in Tasks,
             PtraceAttach(t, q) \/ PtraceDetach(t, q)
      PROVE  Orphans'
  BY <1>0, <1>q, <1>4 DEF Quiet, Seeks, Goto, Moves, groups, links, PtraceAttach, PtraceDetach,
     control
<1>5. ASSUME NEW t \in Tasks, NEW sibling \in BOOLEAN, NEW auto \in BOOLEAN,
             ForkState(t, sibling, auto)
      PROVE  Orphans'
  <2>1. /\ pc[t] = "fork" /\ pc' = [pc EXCEPT ![t] = "publish"]
        /\ UNCHANGED <<cur, leader, hashed>>
        /\ \E x : realParent' = [realParent EXCEPT ![cur[t]] = x]
    BY <1>5 DEF ForkState, Moves, Goto, groups
  <2>2. cur[t] \notin hashed
    BY <2>1, Forked DEF Forks
  <2>3. \A x \in hashed : realParent'[x] = realParent[x]
    BY <1>0, <2>1, <2>2
  <2> QED
    BY <1>0, <1>u, <1>h, <2>1, <2>3 DEF Stays, Seeks
<1>6. ASSUME NEW t \in Tasks, ForkPublish(t) PROVE Orphans'
  <2>1. /\ pc[t] = "publish" /\ pc' = [pc EXCEPT ![t] = "run", ![cur[t]] = "run"]
        /\ cur' = [cur EXCEPT ![t] = None] /\ UNCHANGED <<leader, realParent>>
        /\ hashed' = hashed \cup {cur[t]}
    BY <1>6 DEF ForkPublish
  <2>2. \A u \in Tasks : pc'[u] \in {"tracee"} \cup Seeking =>
          u # t /\ pc[u] = pc'[u] /\ cur'[u] = cur[u]
    BY <1>0, <2>1, Forked DEF Seeks, Forks
  <2> QED
    BY <1>0, <1>u, <1>h, <2>1, <2>2 DEF Stays
<1>7. ASSUME NEW t \in Tasks,
             ExitLock(t) \/ FindChildReaper(t) \/ ExitState(t)
      PROVE  Orphans'
  BY <1>0, <1>q, <1>7 DEF Quiet, Seeks, Goto, Moves, groups, links, ExitLock, FindChildReaper,
     ExitState
<1>8. ASSUME NEW t \in Tasks, TakeTracee(t) PROVE Orphans'
  <2>1. UNCHANGED <<hashed, leader, realParent>> /\ pc[t] = "tracees"
        /\ \/ \E q \in Tasks : cur' = [cur EXCEPT ![t] = q] /\ pc' = [pc EXCEPT ![t] = "tracee"]
           \/ /\ cur' = [cur EXCEPT ![t] = None]
              /\ \E to \in {"reaper", "state"} : pc' = [pc EXCEPT ![t] = to]
    BY <1>8 DEF TakeTracee, Goto, groups, links, IInv, TypeOK, LinksType
  <2> QED
    BY <1>0, <1>s, <2>1 DEF Orphans, Seeks
<1>9. ASSUME NEW t \in Tasks, TakeChild(t) PROVE Orphans'
  <2>1. UNCHANGED <<hashed, leader, realParent>> /\ pc[t] = "children"
        /\ \/ \E p \in children[t] :
                cur' = [cur EXCEPT ![t] = p] /\ pc' = [pc EXCEPT ![t] = "child"]
           \/ cur' = [cur EXCEPT ![t] = None] /\ pc' = [pc EXCEPT ![t] = "notify"]
    BY <1>9 DEF TakeChild, Goto, groups, links
  <2>2. \A p \in children[t] : p \in Tasks /\ leader[p] = p /\ Started(p)
    BY <1>0 DEF IInv, ChildrenExact, Control, Life
  <2> QED
    BY <1>0, <1>s, <2>1, <2>2 DEF Orphans, Seeks
<1>10. ASSUME NEW t \in Tasks, LockChild(t) PROVE Orphans'
  <2>1. UNCHANGED <<hashed, leader, realParent, cur>> /\ pc[t] = "child"
        /\ state[leader[cur[t]]] = None
        /\ \/ pc' = [pc EXCEPT ![t] = "children"]
           \/ pc' = [pc EXCEPT ![t] = "find"] /\ Ours(t, cur[t])
    BY <1>10 DEF LockChild, Goto, groups, links, Free
  <2>2. leader[cur[t]] = cur[t] /\ cur[t] \in Tasks /\ state[leader[t]] = t
    BY <1>0, <2>1 DEF Orphans, IInv, Control, Locked
  <2> QED
    BY <1>0, <1>s, <2>1, <2>2 DEF Orphans, Seeks, Ours
<1>11. ASSUME NEW t \in Tasks,
              FindThread(t) \/ Hop(t)
       PROVE  Orphans'
  <2>1. UNCHANGED <<hashed, leader, realParent, cur>> /\ pc[t] \in Seeks
        /\ \E to \in Seeks : pc' = [pc EXCEPT ![t] = to]
    <3>1. pc' = pc => pc' = [pc EXCEPT ![t] = pc[t]]
      BY <1>0
    <3> QED
      BY <1>11, <3>1 DEF FindThread, Hop, Goto, groups, links, Seeks
  <2> QED
    BY <1>0, <1>s, <2>1 DEF Orphans, Seeks
<1>12. ASSUME NEW t \in Tasks, ReleaseLock(t) PROVE Orphans'
  <2>1. /\ pc[t] \in {"run", "gone"} /\ pc' = [pc EXCEPT ![t] = "release"]
        /\ \E q \in dead[t] : cur' = [cur EXCEPT ![t] = q]
        /\ UNCHANGED <<leader, hashed, realParent>>
    BY <1>12 DEF ReleaseLock, Goto, groups, links
  <2> QED
    BY <1>0, <1>q, <2>1 DEF Quiet, Seeks
<1>13. ASSUME NEW t \in Tasks,
              DropTracee(t) \/ ExitNotify(t)
       PROVE  Orphans'
  BY <1>0, <1>q, <1>13 DEF Quiet, Seeks, Goto, Moves, groups, links, DropTracee, ExitNotify
<1>14. ASSUME NEW t \in Tasks, Adopt(t) PROVE Orphans'
  <2> DEFINE p == cur[t]
  <2>1. /\ pc[t] = "adopt" /\ UNCHANGED <<cur, leader, hashed>>
        /\ \/ UNCHANGED realParent /\ pc' = [pc EXCEPT ![t] = "find"]
           \/ /\ \E r : realParent' =
                          [u \in Tasks |-> IF u \in Reparented(p) THEN r ELSE realParent[u]]
              /\ pc' = [pc EXCEPT ![t] = "children"]
    BY <1>14 DEF Adopt, Goto, groups
  <2>2. p \in hashed /\ realParent[p] = t
    BY <1>0, <2>1 DEF Orphans, Seeks
  <2>3. \A u \in Tasks : u # t /\ pc[u] \in Seeks => cur[u] \notin Reparented(p)
    BY <1>0, <2>1, <2>2 DEF Orphans, Reparented, Threads
  <2>4. CASE UNCHANGED realParent /\ pc' = [pc EXCEPT ![t] = "find"]
    BY <1>0, <1>s, <2>1, <2>4 DEF Orphans, Seeks
  <2>5. CASE ~(UNCHANGED realParent /\ pc' = [pc EXCEPT ![t] = "find"])
    <3>1. \A u \in Tasks : u # t /\ pc[u] \in Seeks => realParent'[cur[u]] = realParent[cur[u]]
      BY <1>0, <1>h, <2>1, <2>3, <2>5
    <3>2. pc'[t] = "children" /\ \A u \in Tasks : u # t => pc'[u] = pc[u]
      BY <1>0, <2>1, <2>5
    <3> QED
      BY <1>0, <1>u, <1>h, <2>1, <3>1, <3>2 DEF Stays, Seeks
  <2> QED
    BY <2>4, <2>5
<1>15. ASSUME NEW t \in Tasks, ReleaseTask(t) PROVE Orphans'
  <2>1. /\ pc[t] = "release" /\ cur' = [cur EXCEPT ![t] = None] /\ UNCHANGED <<leader, realParent>>
        /\ \E to \in {"gone", "run"} : pc' = [pc EXCEPT ![t] = to]
        /\ hashed' = hashed \ {cur[t]} /\ state[leader[cur[t]]] = None
    BY <1>15 DEF ReleaseTask, Goto, Free
  <2>2. \A u \in Tasks : pc[u] \in Seeks => cur[u] # cur[t]
    BY <1>0, <2>1 DEF IInv, TypeOK, Control, Locked
  <2> QED
    BY <1>0, <1>u, <1>h, <2>1, <2>2 DEF Stays, Seeks
<1>16. ASSUME NEW t \in Tasks,
              WaitTraced(t) \/ WalkBegin(t) \/ WalkEnd(t)
       PROVE  Orphans'
  BY <1>0, <1>q, <1>16 DEF Quiet, Seeks, Goto, Moves, groups, links, WaitTraced, WalkBegin, WalkEnd
<1>17. ASSUME NEW t \in Tasks, NEW g \in Tasks, WalkVisit(t, g) PROVE Orphans'
  BY <1>0, <1>q, <1>17 DEF Quiet, Seeks, Goto, Moves, groups, links, WalkVisit, control
<1>18. CASE UNCHANGED vars
  BY <1>q, <1>18 DEF Quiet, vars, groups, links, control
<1>19. ASSUME NEW t \in Tasks, Start(t) PROVE Orphans'
  <2>1. CASE \E n \in Tasks, nid \in Nodes, thread \in BOOLEAN : ForkLock(t, n, nid, thread)
    BY <2>1, <1>1
  <2>2. CASE \E q \in Tasks : Wait(t, q) \/ PtraceAttach(t, q) \/ PtraceDetach(t, q)
    BY <2>2, <1>3, <1>4
  <2>3. CASE Exit(t) \/ SetSubreaper(t) \/ ClearSubreaper(t)
    BY <2>3, <1>2
  <2> QED
    BY <1>19, <2>1, <2>2, <2>3 DEF Start
<1>20. ASSUME NEW t \in Tasks, Proceed(t) PROVE Orphans'
  <2>1. CASE \E sibling, auto \in BOOLEAN : ForkState(t, sibling, auto)
    BY <2>1, <1>5
  <2>2. CASE \E g \in Tasks : WalkVisit(t, g)
    BY <2>2, <1>17
  <2>3. CASE ForkPublish(t) \/ ExitLock(t) \/ TakeTracee(t) \/ FindChildReaper(t) \/
          ExitState(t) \/ TakeChild(t) \/ LockChild(t) \/ FindThread(t) \/ Hop(t) \/
          ReleaseLock(t) \/ DropTracee(t) \/ Adopt(t) \/ ExitNotify(t) \/ ReleaseTask(t) \/
          WaitTraced(t) \/ WalkBegin(t) \/ WalkEnd(t)
    BY <2>3, <1>6, <1>7, <1>8, <1>9, <1>10, <1>11, <1>12, <1>13, <1>14, <1>15, <1>16
  <2> QED
    BY <1>20, <2>1, <2>2, <2>3 DEF Proceed
<1> QED
  BY <1>18, <1>19, <1>20 DEF Next

LEMMA CursorsStep == IInv /\ [Next]_vars => Cursors'
<1> SUFFICES ASSUME IInv, [Next]_vars PROVE Cursors'
  OBVIOUS
<1>0. /\ pc \in [Tasks -> States] /\ cursor \in [Tasks -> Tasks \cup {None}] /\ Cursors
  BY DEF IInv, Control, TypeOK, ControlType
<1>s. \A x \in Tasks : (Started(x) => Started(x)') /\ (pc'[x] = "none" => pc[x] = "none")
  BY Starts
<1> DEFINE Quiet == \A u \in Tasks :
             pc'[u] \in {"hop", "adopt"} => pc'[u] = pc[u] /\ cursor'[u] = cursor[u]
<1>q. Quiet => Cursors'
  BY <1>0, <1>s DEF Cursors
<1>a. /\ \A u \in Tasks : \A r \in AliveThreads(u) : r \in Tasks /\ Started(r)
      /\ childReaper \in Tasks /\ Started(childReaper)
      /\ \A u \in Tasks : realParent[u] # None => realParent[u] \in Tasks /\ Started(realParent[u])
  BY DEF IInv, TypeOK, GroupsType, LinksType, AliveThreads, Threads, Control, Life, Reaper, Parented
<1> HIDE DEF Quiet
<1>1. ASSUME NEW t \in Tasks, NEW n \in Tasks, NEW nid \in Nodes, NEW thread \in BOOLEAN,
             ForkLock(t, n, nid, thread)
      PROVE  Cursors'
  BY <1>0, <1>q, <1>1 DEF Quiet, Goto, Moves, ForkLock
<1>2. ASSUME NEW t \in Tasks,
             Exit(t) \/ SetSubreaper(t) \/ ClearSubreaper(t)
      PROVE  Cursors'
  BY <1>0, <1>q, <1>2 DEF Quiet, Goto, Moves, Exit, SetSubreaper, ClearSubreaper, control
<1>3. ASSUME NEW t \in Tasks, NEW q \in Tasks, Wait(t, q) PROVE Cursors'
  BY <1>0, <1>q, <1>3 DEF Quiet, Goto, Moves, Wait
<1>4. ASSUME NEW t \in Tasks, NEW q \in Tasks,
             PtraceAttach(t, q) \/ PtraceDetach(t, q)
      PROVE  Cursors'
  BY <1>0, <1>q, <1>4 DEF Quiet, Goto, Moves, PtraceAttach, PtraceDetach, control
<1>5. ASSUME NEW t \in Tasks, NEW sibling \in BOOLEAN, NEW auto \in BOOLEAN,
             ForkState(t, sibling, auto)
      PROVE  Cursors'
  BY <1>0, <1>q, <1>5 DEF Quiet, Goto, Moves, ForkState
<1>6. ASSUME NEW t \in Tasks, ForkPublish(t) PROVE Cursors'
  BY <1>0, <1>q, <1>6 DEF Quiet, Goto, Moves, ForkPublish
<1>7. ASSUME NEW t \in Tasks,
             ExitLock(t) \/ TakeTracee(t) \/ FindChildReaper(t) \/ ExitState(t) \/
             TakeChild(t) \/ LockChild(t)
      PROVE  Cursors'
  BY <1>0, <1>q, <1>7 DEF Quiet, Goto, Moves, ExitLock, TakeTracee, FindChildReaper, ExitState,
     TakeChild, LockChild
<1>8. ASSUME NEW t \in Tasks, FindThread(t) PROVE Cursors'
  <2>1. pc[t] = "find" /\
        \/ \E r \in AliveThreads(t) :
             cursor' = [cursor EXCEPT ![t] = r] /\ pc' = [pc EXCEPT ![t] = "adopt"]
        \/ cursor' = [cursor EXCEPT ![t] = realParent[t]] /\ pc' = [pc EXCEPT ![t] = "hop"]
        \/ cursor' = [cursor EXCEPT ![t] = childReaper] /\ pc' = [pc EXCEPT ![t] = "adopt"]
    BY <1>8 DEF FindThread, Goto
  <2>2. \A u \in Tasks : u # t => pc'[u] = pc[u] /\ cursor'[u] = cursor[u]
    BY <1>0, <2>1
  <2>3. \/ pc'[t] = "adopt" /\ cursor'[t] \in Tasks /\ Started(cursor'[t])
        \/ pc'[t] = "hop" /\ (cursor'[t] # None => Started(cursor'[t]) /\ cursor'[t] \in Tasks)
    BY <1>0, <1>a, <2>1
  <2> QED
    BY <1>0, <1>s, <2>2, <2>3 DEF Cursors
<1>9. ASSUME NEW t \in Tasks, Hop(t) PROVE Cursors'
  <2>1. pc[t] = "hop" /\
        \/ \E r \in Tasks : /\ Started(r) /\ cursor' = [cursor EXCEPT ![t] = r]
                            /\ pc' = [pc EXCEPT ![t] = "adopt"]
        \/ /\ cursor[t] # None /\ cursor' = [cursor EXCEPT ![t] = realParent[cursor[t]]]
           /\ pc' = pc
    <3>1. cursor[t] # None => \A r \in AliveThreads(cursor[t]) : r \in Tasks /\ Started(r)
      BY <1>0, <1>a
    <3> QED
      BY <1>a, <3>1, <1>9 DEF Hop, Goto
  <2>2. \A u \in Tasks : u # t => pc'[u] = pc[u] /\ cursor'[u] = cursor[u]
    BY <1>0, <2>1
  <2>3. \/ pc'[t] = "adopt" /\ cursor'[t] \in Tasks /\ Started(cursor'[t])
        \/ pc'[t] = "hop" /\ (cursor'[t] # None => Started(cursor'[t]) /\ cursor'[t] \in Tasks)
    BY <1>0, <1>a, <2>1
  <2> QED
    BY <1>0, <1>s, <2>2, <2>3 DEF Cursors
<1>10. ASSUME NEW t \in Tasks,
              ReleaseLock(t) \/ DropTracee(t) \/ Adopt(t)
       PROVE  Cursors'
  BY <1>0, <1>q, <1>10 DEF Quiet, Goto, Moves, ReleaseLock, DropTracee, Adopt
<1>11. ASSUME NEW t \in Tasks,
              ExitNotify(t) \/ ReleaseTask(t) \/ WaitTraced(t) \/ WalkBegin(t) \/ WalkEnd(t)
       PROVE  Cursors'
  BY <1>0, <1>q, <1>11 DEF Quiet, Goto, Moves, ExitNotify, ReleaseTask, WaitTraced, WalkBegin,
     WalkEnd
<1>12. ASSUME NEW t \in Tasks, NEW g \in Tasks, WalkVisit(t, g) PROVE Cursors'
  BY <1>0, <1>q, <1>12 DEF Quiet, Goto, Moves, WalkVisit, control
<1>13. CASE UNCHANGED vars
  BY <1>q, <1>13 DEF Quiet, vars, control
<1>14. ASSUME NEW t \in Tasks, Start(t) PROVE Cursors'
  <2>1. CASE \E n \in Tasks, nid \in Nodes, thread \in BOOLEAN : ForkLock(t, n, nid, thread)
    BY <2>1, <1>1
  <2>2. CASE \E q \in Tasks : Wait(t, q) \/ PtraceAttach(t, q) \/ PtraceDetach(t, q)
    BY <2>2, <1>3, <1>4
  <2>3. CASE Exit(t) \/ SetSubreaper(t) \/ ClearSubreaper(t)
    BY <2>3, <1>2
  <2> QED
    BY <1>14, <2>1, <2>2, <2>3 DEF Start
<1>15. ASSUME NEW t \in Tasks, Proceed(t) PROVE Cursors'
  <2>1. CASE \E sibling, auto \in BOOLEAN : ForkState(t, sibling, auto)
    BY <2>1, <1>5
  <2>2. CASE \E g \in Tasks : WalkVisit(t, g)
    BY <2>2, <1>12
  <2>3. CASE ForkPublish(t) \/ ExitLock(t) \/ TakeTracee(t) \/ FindChildReaper(t) \/
          ExitState(t) \/ TakeChild(t) \/ LockChild(t) \/ FindThread(t) \/ Hop(t) \/
          ReleaseLock(t) \/ DropTracee(t) \/ Adopt(t) \/ ExitNotify(t) \/ ReleaseTask(t) \/
          WaitTraced(t) \/ WalkBegin(t) \/ WalkEnd(t)
    BY <2>3, <1>6, <1>7, <1>8, <1>9, <1>10, <1>11
  <2> QED
    BY <1>15, <2>1, <2>2, <2>3 DEF Proceed
<1> QED
  BY <1>13, <1>14, <1>15 DEF Next

(* The child reaper is replaced before it looks through its children.      *)
LEMMA ReaperStep == IInv /\ [Next]_vars => Reaper'
<1> SUFFICES ASSUME IInv, [Next]_vars PROVE Reaper'
  OBVIOUS
<1>0. /\ pc \in [Tasks -> States] /\ leader \in [Tasks -> Tasks] /\ hashed \subseteq Tasks
      /\ InitProcess \in Tasks /\ childReaper \in Tasks /\ Reaper
  BY DEF IInv, Control, TypeOK, GroupsType, ControlType
<1>a. PICK u0 \in Tasks : u0 \in hashed /\ leader[u0] = InitProcess /\ u0 \notin exiting
  BY <1>0 DEF Reaper, AliveThreads, Threads
<1> DEFINE Early == {"shard", "tracees", "tracee", "reaper"}
           Quiet ==
             /\ InitProcess \in hashed' /\ childReaper \in hashed' /\ u0 \in hashed'
             /\ \A x \in hashed : leader'[x] = leader[x]
             /\ childReaper \in exiting' => pc'[childReaper] \in Early
             /\ \A u \in Tasks : pc'[u] = "reaper" => pc[u] = "reaper" \/ childReaper = u
<1>q. Quiet /\ childReaper' = childReaper /\ exiting' = exiting => Reaper'
  BY <1>0, <1>a DEF Reaper, AliveThreads, Threads
<1> HIDE DEF Quiet
<1>1. ASSUME NEW t \in Tasks, NEW n \in Tasks, NEW nid \in Nodes, NEW thread \in BOOLEAN,
             ForkLock(t, n, nid, thread)
      PROVE  Reaper'
  <2>1. /\ leader' = [leader EXCEPT ![n] = IF thread THEN leader[t] ELSE n]
        /\ pc' = [pc EXCEPT ![t] = "fork", ![n] = "born"] /\ pc[t] = "run" /\ pc[n] = "none"
        /\ UNCHANGED <<hashed, exiting, childReaper>>
    BY <1>1 DEF ForkLock, Idle
  <2>2. n \notin hashed
    BY <2>1 DEF IInv, Control, Life, Started
  <2> QED
    BY <1>0, <1>a, <1>q, <2>1, <2>2 DEF Quiet, Reaper
<1>2. ASSUME NEW t \in Tasks, Exit(t) PROVE Reaper'
  <2>1. /\ pc[t] = "run" /\ pc' = [pc EXCEPT ![t] = "shard"] /\ UNCHANGED <<groups, childReaper>>
        /\ exiting' = exiting \cup {t} /\ t \in hashed
        /\ leader[t] = InitProcess => AliveThreads(t) # {t}
    BY <1>2 DEF Exit, Idle, Goto
  <2>2. leader[t] = InitProcess => t \in AliveThreads(t)
    BY <2>1 DEF IInv, Control, Life, Exits, AliveThreads, Threads
  <2>3. \E u \in Tasks : u \in hashed /\ leader[u] = InitProcess /\ u \notin exiting /\ u # t
    BY <1>0, <1>a, <2>1, <2>2 DEF AliveThreads, Threads
  <2> QED
    BY <1>0, <2>1, <2>3 DEF Reaper, AliveThreads, Threads, groups
<1>3. ASSUME NEW t \in Tasks,
             SetSubreaper(t) \/ ClearSubreaper(t)
      PROVE  Reaper'
  <2>1. /\ pc[t] = "run" /\ UNCHANGED <<groups, childReaper, exiting>>
        /\ pc' = pc \/ pc' = [pc EXCEPT ![t] = "walk"]
    BY <1>3 DEF SetSubreaper, ClearSubreaper, Idle, Goto, control
  <2>2. t \notin exiting
    BY <2>1 DEF IInv, Control, Life, Exits
  <2> QED
    BY <1>0, <1>a, <1>q, <2>1, <2>2 DEF Quiet, Reaper, groups
<1>4. ASSUME NEW t \in Tasks, NEW q \in Tasks, Wait(t, q) PROVE Reaper'
  <2>1. /\ pc[t] = "run" /\ UNCHANGED <<groups, childReaper, exiting>>
        /\ pc' = pc \/ pc' = [pc EXCEPT ![t] = "trace"]
    BY <1>4 DEF Wait, Idle, Goto
  <2>2. t \notin exiting
    BY <2>1 DEF IInv, Control, Life, Exits
  <2> QED
    BY <1>0, <1>a, <1>q, <2>1, <2>2 DEF Quiet, Reaper, groups
<1>5. ASSUME NEW t \in Tasks, NEW q \in Tasks,
             PtraceAttach(t, q) \/ PtraceDetach(t, q)
      PROVE  Reaper'
  BY <1>0, <1>a, <1>q, <1>5 DEF Quiet, Goto, Moves, Reaper, groups, PtraceAttach, PtraceDetach,
     control
<1>6. ASSUME NEW t \in Tasks, NEW sibling \in BOOLEAN, NEW auto \in BOOLEAN,
             ForkState(t, sibling, auto)
      PROVE  Reaper'
  BY <1>0, <1>a, <1>q, <1>6 DEF Quiet, Goto, Moves, Reaper, groups, ForkState
<1>7. ASSUME NEW t \in Tasks, ForkPublish(t) PROVE Reaper'
  <2>1. /\ pc[t] = "publish" /\ pc' = [pc EXCEPT ![t] = "run", ![cur[t]] = "run"]
        /\ UNCHANGED <<leader, childReaper, exiting>> /\ hashed' = hashed \cup {cur[t]}
    BY <1>7 DEF ForkPublish
  <2>2. cur[t] \in Tasks /\ cur[t] \notin hashed
    BY <2>1, Forked DEF Forks
  <2> QED
    BY <1>0, <1>a, <1>q, <2>1, <2>2 DEF Quiet, Reaper
<1>8. ASSUME NEW t \in Tasks,
             ExitLock(t) \/ DropTracee(t)
      PROVE  Reaper'
  BY <1>0, <1>a, <1>q, <1>8 DEF Quiet, Goto, Moves, Reaper, groups, ExitLock, DropTracee
<1>9. ASSUME NEW t \in Tasks, TakeTracee(t) PROVE Reaper'
  BY <1>0, <1>a, <1>q, <1>9 DEF Quiet, Goto, Moves, Reaper, groups, TakeTracee
<1>10. ASSUME NEW t \in Tasks, FindChildReaper(t) PROVE Reaper'
  <2>1. /\ pc[t] = "reaper" /\ pc' = [pc EXCEPT ![t] = "state"] /\ UNCHANGED <<groups, exiting>>
        /\ childReaper' \in AliveThreads(t) /\ childReaper = t
    BY <1>0, <1>10 DEF FindChildReaper, Moves, Goto, Reaper
  <2>2. /\ childReaper' \in hashed /\ leader[childReaper'] = InitProcess
        /\ childReaper' \notin exiting
    BY <1>0, <2>1 DEF AliveThreads, Threads, Reaper
  <2>3. \A u \in Tasks : pc'[u] # "reaper"
    BY <1>0, <2>1 DEF Reaper
  <2> QED
    BY <1>0, <1>a, <2>1, <2>2, <2>3 DEF Reaper, AliveThreads, Threads, groups
<1>11. ASSUME NEW t \in Tasks,
              ExitState(t) \/ TakeChild(t) \/ LockChild(t) \/ FindThread(t) \/ Hop(t) \/
              Adopt(t) \/ ExitNotify(t)
       PROVE  Reaper'
  <2>1. /\ pc[t] \in {"state", "children", "child", "find", "hop", "adopt", "notify"}
        /\ \E to \in {"children", "child", "find", "hop", "adopt", "notify", "gone"} :
             pc' = [pc EXCEPT ![t] = to]
        /\ UNCHANGED <<groups, childReaper, exiting>>
    <3>1. pc' = pc => pc' = [pc EXCEPT ![t] = pc[t]]
      BY <1>0
    <3>2. CASE ExitState(t) \/ TakeChild(t) \/ LockChild(t)
      BY <3>2 DEF ExitState, TakeChild, LockChild, Moves, Goto
    <3>3. CASE FindThread(t) \/ Hop(t)
      BY <3>1, <3>3 DEF FindThread, Hop, Goto
    <3>4. CASE Adopt(t) \/ ExitNotify(t)
      BY <3>4 DEF Adopt, ExitNotify, Moves, Goto
    <3> QED
      BY <1>11, <3>2, <3>3, <3>4
  <2>2. t # childReaper
    BY <2>1 DEF IInv, Control, Life, Exits, Reaper
  <2> QED
    BY <1>0, <1>a, <1>q, <2>1, <2>2 DEF Quiet, Reaper, groups
<1>12. ASSUME NEW t \in Tasks, ReleaseLock(t) PROVE Reaper'
  <2>1. /\ pc[t] \in {"run", "gone"} /\ pc' = [pc EXCEPT ![t] = "release"]
        /\ UNCHANGED <<groups, childReaper, exiting>>
    BY <1>12 DEF ReleaseLock, Goto
  <2>2. childReaper \in exiting => t # childReaper
    BY <2>1 DEF IInv, Control, Reaper
  <2> QED
    BY <1>0, <1>a, <1>q, <2>1, <2>2 DEF Quiet, Reaper, groups
<1>13. ASSUME NEW t \in Tasks, ReleaseTask(t) PROVE Reaper'
  <2>1. /\ pc[t] = "release" /\ \E to \in {"gone", "run"} : pc' = [pc EXCEPT ![t] = to]
        /\ UNCHANGED <<leader, childReaper, exiting>> /\ hashed' = hashed \ {cur[t]}
    BY <1>13 DEF ReleaseTask, Goto
  <2>2. childReaper \in exiting => t # childReaper
    BY <2>1 DEF IInv, Control, Reaper
  <2>3. /\ cur[t] \in exiting /\ pc[cur[t]] \in {"gone", "release"}
        /\ \A x \in hashed : leader[x] = cur[t] => x = cur[t]
    BY <2>1, Released, ExitStates
  <2>4. cur[t] # u0 /\ cur[t] # childReaper /\ cur[t] # InitProcess
    BY <1>0, <1>a, <2>3 DEF Reaper
  <2> QED
    BY <1>0, <1>a, <1>q, <2>1, <2>2, <2>4 DEF Quiet, Reaper
<1>14. ASSUME NEW t \in Tasks,
              WaitTraced(t) \/ WalkBegin(t) \/ WalkEnd(t)
       PROVE  Reaper'
  <2>1. /\ pc[t] \in {"trace", "walk", "visit"} /\ \E to \in {"run", "visit"} : pc' = [pc EXCEPT ![t] = to]
        /\ UNCHANGED <<groups, childReaper, exiting>>
    BY <1>14 DEF WaitTraced, WalkBegin, WalkEnd, Moves, Goto
  <2>2. t \notin exiting
    BY <2>1 DEF IInv, Control, Life, Exits
  <2> QED
    BY <1>0, <1>a, <1>q, <2>1, <2>2 DEF Quiet, Reaper, groups
<1>15. ASSUME NEW t \in Tasks, NEW g \in Tasks, WalkVisit(t, g) PROVE Reaper'
  BY <1>0, <1>a, <1>q, <1>15 DEF Quiet, Goto, Moves, Reaper, groups, WalkVisit, control
<1>16. CASE UNCHANGED vars
  BY <1>0, <1>a, <1>q, <1>16 DEF Quiet, Reaper, vars, groups, control
<1>17. ASSUME NEW t \in Tasks, Start(t) PROVE Reaper'
  <2>1. CASE \E n \in Tasks, nid \in Nodes, thread \in BOOLEAN : ForkLock(t, n, nid, thread)
    BY <2>1, <1>1
  <2>2. CASE \E q \in Tasks : Wait(t, q) \/ PtraceAttach(t, q) \/ PtraceDetach(t, q)
    BY <2>2, <1>4, <1>5
  <2>3. CASE Exit(t) \/ SetSubreaper(t) \/ ClearSubreaper(t)
    BY <2>3, <1>2, <1>3
  <2> QED
    BY <1>17, <2>1, <2>2, <2>3 DEF Start
<1>18. ASSUME NEW t \in Tasks, Proceed(t) PROVE Reaper'
  <2>1. CASE \E sibling, auto \in BOOLEAN : ForkState(t, sibling, auto)
    BY <2>1, <1>6
  <2>2. CASE \E g \in Tasks : WalkVisit(t, g)
    BY <2>2, <1>15
  <2>3. CASE ForkPublish(t) \/ ExitLock(t) \/ TakeTracee(t) \/ FindChildReaper(t) \/
          ExitState(t) \/ TakeChild(t) \/ LockChild(t) \/ FindThread(t) \/ Hop(t) \/
          ReleaseLock(t) \/ DropTracee(t) \/ Adopt(t) \/ ExitNotify(t) \/ ReleaseTask(t) \/
          WaitTraced(t) \/ WalkBegin(t) \/ WalkEnd(t)
    BY <2>3, <1>7, <1>8, <1>9, <1>10, <1>11, <1>12, <1>13, <1>14
  <2> QED
    BY <1>18, <2>1, <2>2, <2>3 DEF Proceed
<1> QED
  BY <1>16, <1>17, <1>18 DEF Next

(* A parent has been started, whoever adopts or traces.                    *)
LEMMA ParentedStep == IInv /\ [Next]_vars => Parented'
<1> SUFFICES ASSUME IInv, [Next]_vars PROVE Parented'
  OBVIOUS
<1>0. /\ pc \in [Tasks -> States] /\ leader \in [Tasks -> Tasks] /\ hashed \subseteq Tasks
      /\ realParent \in [Tasks -> Tasks \cup {None}] /\ parent \in [Tasks -> Tasks \cup {None}]
      /\ traced \subseteq Tasks /\ cur \in [Tasks -> Tasks \cup {None}] /\ None \notin Tasks
      /\ Parented
  BY DEF IInv, TypeOK, GroupsType, LinksType, ControlType
<1>s. \A x \in Tasks : (Started(x) => Started(x)') /\ (pc'[x] = "none" => pc[x] = "none")
  BY Starts
(* Who leaves a tracer goes back to its parent. *)
<1>u. ASSUME NEW q \in Tasks, Unlinked(q), UNCHANGED <<leader, realParent>>, hashed' \subseteq hashed
      PROVE  Parented'
  <2>1. \A x \in Tasks : x # q => parent'[x] = parent[x]
    BY <1>0, <1>u DEF Unlinked
  <2> QED
    BY <1>0, <1>s, <1>u, <2>1 DEF Parented, Unlinked
<1>k. UNCHANGED <<leader, hashed, realParent, parent, traced>> => Parented'
  BY <1>0, <1>s DEF Parented
<1>1. ASSUME NEW t \in Tasks, NEW n \in Tasks, NEW nid \in Nodes, NEW thread \in BOOLEAN,
             ForkLock(t, n, nid, thread)
      PROVE  Parented'
  <2>1. /\ leader' = [leader EXCEPT ![n] = IF thread THEN leader[t] ELSE n] /\ pc[n] = "none"
        /\ UNCHANGED <<hashed, realParent, parent, traced>>
    BY <1>1 DEF ForkLock, links
  <2>2. n \notin hashed
    BY <2>1 DEF IInv, Control, Life, Started
  <2> QED
    BY <1>0, <1>s, <2>1, <2>2 DEF Parented
<1>2. ASSUME NEW t \in Tasks, NEW q \in Tasks, PtraceAttach(t, q) PROVE Parented'
  <2>1. /\ UNCHANGED <<leader, hashed, realParent>> /\ traced' = traced \cup {q}
        /\ parent' = [parent EXCEPT ![q] = t] /\ Started(t)
    BY <1>2 DEF PtraceAttach, Idle, Started, groups
  <2> QED
    BY <1>0, <1>s, <2>1 DEF Parented
<1>3. ASSUME NEW t \in Tasks, NEW q \in Tasks, PtraceDetach(t, q) PROVE Parented'
  BY <1>u, <1>3 DEF PtraceDetach, groups
<1>4. ASSUME NEW t \in Tasks, NEW sibling \in BOOLEAN, NEW auto \in BOOLEAN,
             ForkState(t, sibling, auto)
      PROVE  Parented'
  <2> DEFINE n == cur[t]
             p == IF sibling THEN realParent[t] ELSE t
  <2>1. /\ realParent' = [realParent EXCEPT ![n] = p] /\ UNCHANGED <<leader, hashed>>
        /\ \/ /\ t \in traced /\ parent' = [parent EXCEPT ![n] = parent[t]]
              /\ traced' = traced \cup {n}
           \/ parent' = [parent EXCEPT ![n] = p] /\ UNCHANGED traced
        /\ pc[t] = "fork"
    BY <1>4 DEF ForkState, Moves, groups
  <2>2. n \in Tasks /\ n \notin hashed /\ t \in hashed /\ Started(t)
    BY <2>1, Forked DEF Forks, IInv, Control, Life
  <2>3. n \notin traced
    BY <2>1, <2>2 DEF IInv, TraceesExact, Unpublished, Control, Forking, Forks
  <2>4. p \in Tasks \cup {None} /\ (p # None => Started(p))
    BY <1>0, <2>2 DEF Parented
  <2> HIDE DEF n, p
  <2>5. \A x \in Tasks : x # n => parent'[x] = parent[x] /\ realParent'[x] = realParent[x]
    BY <1>0, <2>1
  <2>6. realParent'[n] = p /\ (n \in traced' => parent'[n] = parent[t] /\ t \in traced)
    BY <1>0, <2>1, <2>2, <2>3
  <2>7. \A x \in traced' : x = n \/ x \in traced
    BY <2>1
  <2>8. \A x \in Tasks : realParent'[x] # None => pc'[realParent'[x]] \notin {"none", "born"}
    <3>1. \A x \in Tasks : realParent'[x] # None =>
            realParent'[x] \in Tasks /\ Started(realParent'[x])
      BY <1>0, <2>2, <2>4, <2>5, <2>6 DEF Parented
    <3> QED
      BY <1>s, <3>1 DEF Started
  <2>9. \A x \in traced' : parent'[x] # None /\ pc'[parent'[x]] \notin {"none", "born"}
    <3>1. \A x \in traced' : parent'[x] # None /\ parent'[x] \in Tasks /\ Started(parent'[x])
      BY <1>0, <2>2, <2>5, <2>6, <2>7 DEF Parented
    <3> QED
      BY <1>s, <3>1 DEF Started
  <2>10. \A x \in hashed : realParent'[x] = None <=> leader[x] = InitProcess
    BY <1>0, <2>2, <2>5 DEF Parented
  <2> QED
    BY <2>1, <2>8, <2>9, <2>10 DEF Parented, Started
<1>5. ASSUME NEW t \in Tasks, ForkPublish(t) PROVE Parented'
  <2>1. /\ hashed' = hashed \cup {cur[t]} /\ pc[t] = "publish"
        /\ UNCHANGED <<leader, realParent, parent, traced>>
    BY <1>5 DEF ForkPublish
  <2>2. /\ cur[t] \in Tasks /\ leader[cur[t]] \in {cur[t], leader[t]} /\ t \in hashed
        /\ cur[t] \notin hashed
    BY <2>1, Forked DEF Forks
  <2>3. realParent[cur[t]] = None <=> leader[cur[t]] = InitProcess
    <3>1. CASE leader[cur[t]] = cur[t]
      BY <2>1, <2>2, <3>1 DEF IInv, Newborn, Control, Reaper
    <3>2. CASE leader[cur[t]] # cur[t]
      BY <1>0, <2>1, <2>2, <3>2 DEF IInv, Newborn, Parented
    <3> QED
      BY <3>1, <3>2
  <2> QED
    BY <1>0, <1>s, <2>1, <2>2, <2>3 DEF Parented
<1>6. ASSUME NEW t \in Tasks, DropTracee(t) PROVE Parented'
  <2>1. cur[t] \in Tasks /\ UNCHANGED <<leader, realParent, hashed>>
    BY <1>6 DEF IInv, Control, Orphans, DropTracee, Moves, groups
  <2>2. Unlinked(cur[t]) \/ UNCHANGED <<parent, traced>>
    BY <1>6 DEF DropTracee, PtraceDetached
  <2> QED
    BY <1>k, <1>u, <2>1, <2>2
<1>7. ASSUME NEW t \in Tasks, Adopt(t) PROVE Parented'
  <2> DEFINE p == cur[t]
             r == cursor[t]
  <2>1. UNCHANGED <<leader, hashed, traced>> /\ pc[t] = "adopt"
        /\ \/ UNCHANGED <<realParent, parent>>
           \/ /\ realParent' = [u \in Tasks |-> IF u \in Threads(p) THEN r ELSE realParent[u]]
              /\ parent' = [u \in Tasks |-> IF u \in Threads(p) \ traced THEN r ELSE parent[u]]
    BY <1>7 DEF Adopt, groups, Reparented
  <2>2. /\ p \in hashed /\ realParent[p] = t /\ leader[p] = p
        /\ r \in Tasks /\ Started(r)
    BY <2>1 DEF IInv, Control, Orphans, Cursors, Seeks
  <2>3. \A u \in Threads(p) : leader[u] # InitProcess
    BY <1>0, <2>2 DEF Parented, Threads
  <2> HIDE DEF p, r
  <2> QED
    BY <1>0, <1>k, <1>s, <2>1, <2>2, <2>3 DEF Parented
<1>8. ASSUME NEW t \in Tasks, ReleaseTask(t) PROVE Parented'
  <2>1. cur[t] \in Tasks /\ UNCHANGED <<leader, realParent>> /\ hashed' \subseteq hashed
    BY <1>8, Released DEF ReleaseTask
  <2>2. Unlinked(cur[t]) \/ UNCHANGED <<parent, traced>>
    BY <1>8 DEF ReleaseTask
  <2>3. CASE UNCHANGED <<parent, traced>>
    BY <1>0, <1>s, <2>1, <2>3 DEF Parented
  <2> QED
    BY <1>u, <2>1, <2>2, <2>3
<1>9. ASSUME NEW t \in Tasks, WaitTraced(t) PROVE Parented'
  <2>1. cur[t] \in Tasks /\ UNCHANGED <<leader, realParent, hashed>>
    BY <1>9 DEF IInv, Control, GivenBack, WaitTraced, Moves, groups
  <2>2. Unlinked(cur[t]) \/ UNCHANGED <<parent, traced>>
    BY <1>9 DEF WaitTraced
  <2> QED
    BY <1>k, <1>u, <2>1, <2>2
<1>10. CASE UNCHANGED <<groups, links>>
  BY <1>k, <1>10 DEF groups, links
<1> QED
  BY <1>1, <1>2, <1>3, <1>4, <1>5, <1>6, <1>7, <1>8, <1>9, <1>10, Frames
     DEF ChangesGroups, ChangesLinks

(* Until it is published, the parent of a new task is current, or current's parent. *)
LEMMA NewbornStep == IInv /\ [Next]_vars => Newborn'
<1> SUFFICES ASSUME IInv, [Next]_vars PROVE Newborn'
  OBVIOUS
<1>0. /\ pc \in [Tasks -> States] /\ leader \in [Tasks -> Tasks] /\ hashed \subseteq Tasks
      /\ realParent \in [Tasks -> Tasks \cup {None}] /\ parent \in [Tasks -> Tasks \cup {None}]
      /\ traced \subseteq Tasks /\ cur \in [Tasks -> Tasks \cup {None}] /\ None \notin Tasks
      /\ Newborn
  BY DEF IInv, TypeOK, GroupsType, LinksType, ControlType
<1> DEFINE Quiet == \A u \in Tasks : pc'[u] = "publish" =>
             /\ pc[u] = "publish" /\ cur'[u] = cur[u]
             /\ leader'[cur[u]] = leader[cur[u]]
             /\ realParent'[u] = realParent[u] /\ realParent'[cur[u]] = realParent[cur[u]]
             /\ cur[u] \notin traced' => \/ cur[u] \notin traced /\ parent'[cur[u]] = parent[cur[u]]
                                         \/ parent'[cur[u]] = realParent[cur[u]]
<1>q. Quiet => Newborn'
  BY <1>0 DEF Newborn
<1>f. \A u \in Tasks : pc[u] = "publish" =>
        cur[u] \in Tasks /\ cur[u] \notin hashed /\ pc[cur[u]] = "born" /\ u \in hashed
  BY Forked DEF Forks
<1> HIDE DEF Quiet
<1>1. ASSUME NEW t \in Tasks, NEW n \in Tasks, NEW nid \in Nodes, NEW thread \in BOOLEAN,
             ForkLock(t, n, nid, thread)
      PROVE  Newborn'
  <2>1. /\ leader' = [leader EXCEPT ![n] = IF thread THEN leader[t] ELSE n] /\ pc[n] = "none"
        /\ pc' = [pc EXCEPT ![t] = "fork", ![n] = "born"] /\ cur' = [cur EXCEPT ![t] = n]
        /\ UNCHANGED <<hashed, realParent, parent, traced>>
    BY <1>1 DEF ForkLock, links
  <2> QED
    BY <1>0, <1>f, <1>q, <2>1 DEF Quiet
<1>2. ASSUME NEW t \in Tasks,
             Exit(t) \/ SetSubreaper(t) \/ ClearSubreaper(t)
      PROVE  Newborn'
  BY <1>0, <1>f, <1>q, <1>2 DEF Quiet, Goto, Moves, groups, links, Exit, SetSubreaper,
     ClearSubreaper, control
<1>3. ASSUME NEW t \in Tasks, NEW q \in Tasks, Wait(t, q) PROVE Newborn'
  <2>1. pc[t] = "run" /\ UNCHANGED <<groups, links>>
    BY <1>3 DEF Wait, Idle
  <2>2. \/ UNCHANGED <<cur, pc>>
        \/ cur' = [cur EXCEPT ![t] = q] /\ pc' = [pc EXCEPT ![t] = "trace"]
    BY <1>3 DEF Wait, Goto
  <2> QED
    BY <1>0, <1>q, <2>1, <2>2 DEF Quiet, groups, links
<1>4. ASSUME NEW t \in Tasks, NEW q \in Tasks,
             PtraceAttach(t, q) \/ PtraceDetach(t, q)
      PROVE  Newborn'
  <2>1. /\ UNCHANGED <<control, groups, realParent>>
        /\ \/ /\ q \in hashed /\ parent' = [parent EXCEPT ![q] = t]
              /\ traced' = traced \cup {q}
           \/ /\ parent' = [parent EXCEPT ![q] = realParent[q]]
              /\ traced' = traced \ {q}
    BY <1>4 DEF PtraceAttach, PtraceDetach, Unlinked
  <2> QED
    BY <1>0, <1>f, <1>q, <2>1 DEF Quiet, groups, control
<1>5. ASSUME NEW t \in Tasks, NEW sibling \in BOOLEAN, NEW auto \in BOOLEAN,
             ForkState(t, sibling, auto)
      PROVE  Newborn'
  <2> DEFINE n == cur[t]
             p == IF sibling THEN realParent[t] ELSE t
  <2>1. /\ realParent' = [realParent EXCEPT ![n] = p] /\ UNCHANGED <<leader, hashed, cur>>
        /\ \/ /\ t \in traced /\ parent' = [parent EXCEPT ![n] = parent[t]]
              /\ traced' = traced \cup {n}
           \/ parent' = [parent EXCEPT ![n] = p] /\ UNCHANGED traced
        /\ pc[t] = "fork" /\ pc' = [pc EXCEPT ![t] = "publish"]
        /\ leader[n] = n \/ sibling
        /\ sibling /\ leader[n] = n => leader[t] # InitProcess
    BY <1>5 DEF ForkState, Moves, Goto, groups
  <2>2. n \in Tasks /\ n \notin hashed /\ t \in hashed /\ n # t /\ pc[n] = "born"
    BY <2>1, Forked DEF Forks
  <2>3. \A u \in Tasks : u # t /\ pc[u] = "publish" => cur[u] # n /\ u # n
    BY <2>1, <2>2 DEF IInv, Control, Forking, Forks
  <2>4. realParent[t] = None => leader[t] = InitProcess
    BY <2>2 DEF IInv, Parented
  <2>5. leader[n] = n => p # None
    BY <1>0, <2>1, <2>4
  <2>6. p \in {t, realParent[t]} /\ (leader[n] # n => p = realParent[t])
    BY <2>1
  <2> HIDE DEF n, p
  <2>7. \A x \in Tasks : x # n => parent'[x] = parent[x] /\ realParent'[x] = realParent[x]
    BY <1>0, <2>1
  <2>8. realParent'[n] = p /\ (n \notin traced' => parent'[n] = p)
    BY <1>0, <2>1, <2>2
  <2>9. \A x \in Tasks : x # n => (x \in traced' <=> x \in traced)
    BY <2>1
  <2>10. cur[t] = n
    BY DEF n
  <2>11. ASSUME NEW u \in Tasks, pc'[u] = "publish"
         PROVE  /\ realParent'[cur[u]] \in {u, realParent'[u]}
                /\ leader[cur[u]] # cur[u] => realParent'[cur[u]] = realParent'[u]
                /\ leader[cur[u]] = cur[u] => realParent'[cur[u]] # None
                /\ cur[u] \notin traced' => parent'[cur[u]] = realParent'[cur[u]]
    <3>1. CASE u = t
      BY <2>2, <2>5, <2>6, <2>7, <2>8, <2>10, <3>1
    <3>2. CASE u # t
      <4>1. pc[u] = "publish"
        BY <1>0, <2>1, <2>11, <3>2
      <4>2. /\ cur[u] \in Tasks /\ cur[u] # n /\ u # n
        BY <1>f, <2>3, <3>2, <4>1
      <4> QED
        BY <1>0, <2>7, <2>9, <4>1, <4>2 DEF Newborn
    <3> QED
      BY <3>1, <3>2
  <2> QED
    BY <2>1, <2>11 DEF Newborn
<1>6. ASSUME NEW t \in Tasks, ForkPublish(t) PROVE Newborn'
  <2>1. /\ pc[t] = "publish" /\ pc' = [pc EXCEPT ![t] = "run", ![cur[t]] = "run"]
        /\ cur' = [cur EXCEPT ![t] = None] /\ UNCHANGED <<leader, realParent, parent, traced>>
    BY <1>6 DEF ForkPublish
  <2>2. \A u \in Tasks : pc'[u] = "publish" => pc[u] = "publish" /\ cur'[u] = cur[u]
    BY <1>0, <1>f, <2>1
  <2> QED
    BY <1>0, <1>q, <2>1, <2>2 DEF Quiet
<1>7. ASSUME NEW t \in Tasks,
             ExitLock(t) \/ TakeTracee(t) \/ FindChildReaper(t) \/ ExitState(t)
      PROVE  Newborn'
  BY <1>0, <1>f, <1>q, <1>7 DEF Quiet, Goto, Moves, groups, links, ExitLock, TakeTracee,
     FindChildReaper, ExitState
<1>8. ASSUME NEW t \in Tasks,
             TakeChild(t) \/ LockChild(t) \/ FindThread(t) \/ Hop(t)
      PROVE  Newborn'
  BY <1>0, <1>f, <1>q, <1>8 DEF Quiet, Goto, Moves, groups, links, TakeChild, LockChild,
     FindThread, Hop
<1>9. ASSUME NEW t \in Tasks, ReleaseLock(t) PROVE Newborn'
  BY <1>0, <1>f, <1>q, <1>9 DEF Quiet, Goto, Moves, groups, links, ReleaseLock
<1>10. ASSUME NEW t \in Tasks,
              DropTracee(t) \/ WaitTraced(t)
       PROVE  Newborn'
  <2>1. /\ pc[t] \in {"tracee", "trace"} /\ UNCHANGED <<groups, realParent>>
        /\ \E to \in {"run", "tracees"} : pc' = [pc EXCEPT ![t] = to]
        /\ cur' = cur \/ cur' = [cur EXCEPT ![t] = None]
        /\ \/ UNCHANGED <<parent, traced>>
           \/ /\ parent' = [parent EXCEPT ![cur[t]] = realParent[cur[t]]]
              /\ traced' = traced \ {cur[t]}
    BY <1>10 DEF DropTracee, WaitTraced, PtraceDetached, Unlinked, Moves, Goto
  <2> QED
    BY <1>0, <1>f, <1>q, <2>1 DEF Quiet, groups
<1>11. ASSUME NEW t \in Tasks, Adopt(t) PROVE Newborn'
  <2> DEFINE p == cur[t]
             r == cursor[t]
  <2>1. UNCHANGED <<leader, hashed, traced, cur>> /\ pc[t] = "adopt"
        /\ \E to \in {"find", "children"} : pc' = [pc EXCEPT ![t] = to]
        /\ \/ UNCHANGED <<realParent, parent>>
           \/ /\ realParent' = [u \in Tasks |-> IF u \in Threads(p) THEN r ELSE realParent[u]]
              /\ parent' = [u \in Tasks |-> IF u \in Threads(p) \ traced THEN r ELSE parent[u]]
    BY <1>11 DEF Adopt, groups, Reparented, Goto
  <2>2. \A u \in Tasks : pc[u] = "publish" => u \notin Threads(p) /\ cur[u] \notin Threads(p)
    <3>1. state[leader[p]] = t /\ leader[p] = p
      BY <2>1 DEF IInv, Control, Locked, Orphans, Seeks
    <3>2. \A u \in Tasks : pc[u] = "publish" => state[leader[u]] = u
      BY DEF IInv, Control, Locked
    <3> HIDE DEF p
    <3> QED
      BY <1>f, <2>1, <3>1, <3>2 DEF Threads
  <2>3. \A u \in Tasks : pc'[u] = "publish" => pc[u] = "publish"
    BY <1>0, <2>1
  <2> HIDE DEF p, r
  <2> QED
    BY <1>0, <1>f, <1>q, <2>1, <2>2, <2>3 DEF Quiet
<1>12. ASSUME NEW t \in Tasks, ExitNotify(t) PROVE Newborn'
  BY <1>0, <1>f, <1>q, <1>12 DEF Quiet, Goto, Moves, groups, links, ExitNotify
<1>13. ASSUME NEW t \in Tasks, ReleaseTask(t) PROVE Newborn'
  <2>1. /\ pc[t] = "release" /\ UNCHANGED <<leader, realParent>>
        /\ \E to \in {"run", "gone"} : pc' = [pc EXCEPT ![t] = to]
        /\ cur' = [cur EXCEPT ![t] = None]
        /\ \/ UNCHANGED <<parent, traced>>
           \/ /\ parent' = [parent EXCEPT ![cur[t]] = realParent[cur[t]]]
              /\ traced' = traced \ {cur[t]}
    BY <1>13 DEF ReleaseTask, Unlinked, Goto
  <2> QED
    BY <1>0, <1>f, <1>q, <2>1 DEF Quiet
<1>14. ASSUME NEW t \in Tasks,
              WalkBegin(t) \/ WalkEnd(t)
       PROVE  Newborn'
  BY <1>0, <1>f, <1>q, <1>14 DEF Quiet, Goto, Moves, groups, links, WalkBegin, WalkEnd
<1>15. ASSUME NEW t \in Tasks, NEW g \in Tasks, WalkVisit(t, g) PROVE Newborn'
  BY <1>0, <1>f, <1>q, <1>15 DEF Quiet, Goto, Moves, groups, links, WalkVisit, control
<1>16. CASE UNCHANGED vars
  BY <1>q, <1>16 DEF Quiet, vars, groups, links, control
<1>17. ASSUME NEW t \in Tasks, Start(t) PROVE Newborn'
  <2>1. CASE \E n \in Tasks, nid \in Nodes, thread \in BOOLEAN : ForkLock(t, n, nid, thread)
    BY <2>1, <1>1
  <2>2. CASE \E q \in Tasks : Wait(t, q) \/ PtraceAttach(t, q) \/ PtraceDetach(t, q)
    BY <2>2, <1>3, <1>4
  <2>3. CASE Exit(t) \/ SetSubreaper(t) \/ ClearSubreaper(t)
    BY <2>3, <1>2
  <2> QED
    BY <1>17, <2>1, <2>2, <2>3 DEF Start
<1>18. ASSUME NEW t \in Tasks, Proceed(t) PROVE Newborn'
  <2>1. CASE \E sibling, auto \in BOOLEAN : ForkState(t, sibling, auto)
    BY <2>1, <1>5
  <2>2. CASE \E g \in Tasks : WalkVisit(t, g)
    BY <2>2, <1>15
  <2>3. CASE ForkPublish(t) \/ ExitLock(t) \/ TakeTracee(t) \/ FindChildReaper(t) \/
          ExitState(t) \/ TakeChild(t) \/ LockChild(t) \/ FindThread(t) \/ Hop(t) \/
          ReleaseLock(t) \/ DropTracee(t) \/ Adopt(t) \/ ExitNotify(t) \/ ReleaseTask(t) \/
          WaitTraced(t) \/ WalkBegin(t) \/ WalkEnd(t)
    BY <2>3, <1>6, <1>7, <1>8, <1>9, <1>10, <1>11, <1>12, <1>13, <1>14
  <2> QED
    BY <1>18, <2>1, <2>2, <2>3 DEF Proceed
<1> QED
  BY <1>16, <1>17, <1>18 DEF Next

(* A child leaves one list as it enters the other.                         *)
LEMMA ChildrenStep == IInv /\ [Next]_vars => ChildrenExact'
<1> SUFFICES ASSUME IInv, [Next]_vars PROVE ChildrenExact'
  OBVIOUS
<1>0. /\ pc \in [Tasks -> States] /\ leader \in [Tasks -> Tasks] /\ hashed \subseteq Tasks
      /\ realParent \in [Tasks -> Tasks \cup {None}] /\ parent \in [Tasks -> Tasks \cup {None}]
      /\ children \in [Tasks -> SUBSET Tasks] /\ ptraced \in [Tasks -> SUBSET Tasks]
      /\ traced \subseteq Tasks /\ cur \in [Tasks -> Tasks \cup {None}] /\ None \notin Tasks
      /\ ChildrenExact
  BY DEF IInv, TypeOK, GroupsType, LinksType, ControlType
<1>l. \A x \in hashed : leader[x] \in hashed
  BY <1>0 DEF IInv, Control, Groups
<1>k. UNCHANGED <<leader, hashed, realParent, children>> => ChildrenExact'
  BY <1>0 DEF ChildrenExact
<1>1. ASSUME NEW t \in Tasks, NEW n \in Tasks, NEW nid \in Nodes, NEW thread \in BOOLEAN,
             ForkLock(t, n, nid, thread)
      PROVE  ChildrenExact'
  <2>1. /\ leader' = [leader EXCEPT ![n] = IF thread THEN leader[t] ELSE n] /\ pc[n] = "none"
        /\ UNCHANGED <<hashed, realParent, children>>
    BY <1>1 DEF ForkLock, links
  <2>2. n \notin hashed
    BY <2>1 DEF IInv, Control, Life, Started
  <2>3. \A x \in hashed : leader'[x] = leader[x]
    BY <1>0, <2>1, <2>2
  <2> QED
    BY <1>0, <2>1, <2>3 DEF ChildrenExact
<1>2. ASSUME NEW t \in Tasks, NEW q \in Tasks,
             PtraceAttach(t, q) \/ PtraceDetach(t, q)
      PROVE  ChildrenExact'
  BY <1>k, <1>2 DEF PtraceAttach, PtraceDetach, groups
<1>3. ASSUME NEW t \in Tasks, NEW sibling \in BOOLEAN, NEW auto \in BOOLEAN,
             ForkState(t, sibling, auto)
      PROVE  ChildrenExact'
  <2>1. /\ UNCHANGED <<leader, hashed, children>> /\ pc[t] = "fork"
        /\ \A x \in Tasks : x # cur[t] => realParent'[x] = realParent[x]
    BY <1>0, <1>3 DEF ForkState, Moves, groups
  <2>2. \A x \in hashed : realParent'[x] = realParent[x] /\ realParent'[leader[x]] = realParent[leader[x]]
    BY <1>0, <1>l, <2>1, Forked DEF Forks
  <2> QED
    BY <1>0, <2>1, <2>2 DEF ChildrenExact
<1>4. ASSUME NEW t \in Tasks, ForkPublish(t) PROVE ChildrenExact'
  <2> DEFINE n == cur[t]
  <2>1. /\ hashed' = hashed \cup {n} /\ pc[t] = "publish" /\ UNCHANGED <<leader, realParent>>
        /\ IF leader[n] = n THEN children' = [children EXCEPT ![realParent[n]] = @ \cup {n}]
           ELSE UNCHANGED children
    BY <1>4 DEF ForkPublish
  <2>2. n \in Tasks /\ leader[n] \in {n, leader[t]} /\ t \in hashed /\ n \notin hashed
    BY <2>1, Forked DEF Forks
  <2>3. /\ leader[n] = n => realParent[n] # None
        /\ leader[n] # n => realParent[n] = realParent[leader[n]]
    BY <1>0, <2>1, <2>2 DEF IInv, Newborn, ChildrenExact
  <2> HIDE DEF n
  <2>4. \A x \in Tasks :
          children'[x] = children[x] \cup (IF leader[n] = n /\ realParent[n] = x THEN {n} ELSE {})
    BY <1>0, <2>1, <2>2, <2>3
  <2>5. \A x \in Tasks : children'[x] = {p \in hashed' : leader'[p] = p /\ realParent'[p] = x}
    BY <1>0, <2>1, <2>2, <2>4 DEF ChildrenExact
  <2> QED
    BY <1>0, <2>1, <2>3, <2>5 DEF ChildrenExact
<1>5. ASSUME NEW t \in Tasks,
             DropTracee(t) \/ WaitTraced(t)
      PROVE  ChildrenExact'
  BY <1>k, <1>5 DEF DropTracee, WaitTraced, groups
<1>6. ASSUME NEW t \in Tasks, Adopt(t) PROVE ChildrenExact'
  <2> DEFINE p == cur[t]
             r == cursor[t]
  <2>1. UNCHANGED <<leader, hashed>> /\ pc[t] = "adopt"
        /\ \/ UNCHANGED <<realParent, children>>
           \/ /\ realParent' = [u \in Tasks |-> IF u \in Threads(p) THEN r ELSE realParent[u]]
              /\ children' = [children EXCEPT ![t] = @ \ {p}, ![r] = @ \cup {p}]
              /\ MayAdopt(r)
    BY <1>6 DEF Adopt, groups, Reparented
  <2>2. /\ p \in hashed /\ realParent[p] = t /\ leader[p] = p /\ p \in Tasks /\ r \in Tasks
    BY <2>1 DEF IInv, Control, Orphans, Cursors, Seeks
  <2>3. MayAdopt(r) => r # t
    BY <2>1 DEF MayAdopt, IInv, Control, Life, Exits, Reaper
  <2>4. CASE UNCHANGED <<realParent, children>>
    BY <1>k, <2>1, <2>4
  <2>5. CASE ~UNCHANGED <<realParent, children>>
    <3>0. r # t /\ children' = [children EXCEPT ![t] = @ \ {p}, ![r] = @ \cup {p}]
      BY <2>1, <2>3, <2>5
    <3>r. r # t
      BY <3>0
    <3> HIDE DEF p, r
    <3>1. /\ children'[t] = children[t] \ {p} /\ children'[r] = children[r] \cup {p}
          /\ \A x \in Tasks \ {t, r} : children'[x] = children[x]
      BY <1>0, <2>2, <3>0
    <3>2. \A x \in Tasks : realParent'[x] = IF x \in hashed /\ leader[x] = p THEN r ELSE realParent[x]
      BY <1>0, <2>1, <2>5 DEF Threads
    <3>3. \A x \in Tasks : children'[x] = {k \in hashed : leader[k] = k /\ realParent'[k] = x}
      <4>1. \A x \in Tasks : children[x] = {k \in hashed : leader[k] = k /\ realParent[k] = x}
        BY <1>0 DEF ChildrenExact
      <4>2. \A k \in hashed : leader[k] = k => realParent'[k] = IF k = p THEN r ELSE realParent[k]
        BY <1>0, <3>2
      <4>3. ASSUME NEW x \in Tasks, NEW k
            PROVE  k \in children'[x] <=> k \in hashed /\ leader[k] = k /\ realParent'[k] = x
        <5>1. k \in children[x] <=> k \in hashed /\ leader[k] = k /\ realParent[k] = x
          BY <4>1
        <5>2. CASE k = p
          <6>1. k \in children'[x] <=> x = r
            BY <2>2, <3>1, <5>1, <5>2, <3>r
          <6> QED
            BY <2>2, <4>2, <5>2, <6>1
        <5>3. CASE k # p
          <6>1. x = t => (k \in children'[x] <=> k \in children[x])
            BY <3>1, <5>3
          <6>2. x = r => (k \in children'[x] <=> k \in children[x])
            BY <3>1, <5>3
          <6>3. x \notin {t, r} => (k \in children'[x] <=> k \in children[x])
            BY <3>1, <5>3
          <6>4. k \in children'[x] <=> k \in children[x]
            BY <6>1, <6>2, <6>3
          <6> QED
            BY <4>2, <5>1, <5>3, <6>4
        <5> QED
          BY <5>2, <5>3
      <4>4. \A x \in Tasks : children'[x] \subseteq Tasks
        BY <1>0, <2>2, <3>1
      <4> QED
        BY <1>0, <4>3, <4>4
    <3>4. \A x \in hashed : realParent'[x] = realParent'[leader[x]]
      <4>1. \A x \in hashed : leader[leader[x]] = leader[x]
        BY <1>0 DEF IInv, Control, Groups
      <4> QED
        BY <1>0, <1>l, <3>2, <4>1 DEF ChildrenExact
    <3> QED
      BY <2>1, <3>3, <3>4 DEF ChildrenExact
  <2> QED
    BY <2>4, <2>5
<1>7. ASSUME NEW t \in Tasks, ReleaseTask(t) PROVE ChildrenExact'
  <2> DEFINE q == cur[t]
  <2>1. /\ pc[t] = "release" /\ UNCHANGED <<leader, realParent>> /\ hashed' = hashed \ {q}
        /\ IF leader[q] = q THEN children' = [children EXCEPT ![realParent[q]] = @ \ {q}]
           ELSE UNCHANGED children
    BY <1>7 DEF ReleaseTask
  <2>2. q \in hashed /\ q \in Tasks /\ \A x \in hashed : leader[x] = q => x = q
    BY <2>1, Released
  <2> HIDE DEF q
  <2>3. \A x \in Tasks :
          children'[x] = children[x] \ (IF leader[q] = q /\ realParent[q] = x THEN {q} ELSE {})
    BY <1>0, <2>1
  <2>4. \A x \in Tasks : children'[x] = {p \in hashed' : leader'[p] = p /\ realParent'[p] = x}
    BY <1>0, <2>1, <2>2, <2>3 DEF ChildrenExact
  <2> QED
    BY <1>0, <2>1, <2>2, <2>4 DEF ChildrenExact
<1>8. CASE UNCHANGED <<groups, links>>
  BY <1>k, <1>8 DEF groups, links
<1> QED
  BY <1>1, <1>2, <1>3, <1>4, <1>5, <1>6, <1>7, <1>8, Frames
     DEF ChangesGroups, ChangesLinks

(* Only ForkPublish publishes. *)
LEMMA Publishing ==
  IInv /\ [Next]_vars =>
    \/ \A u \in Tasks : pc[u] = "publish" => pc'[u] = "publish" /\ cur'[u] = cur[u]
    \/ \E t \in Tasks : ForkPublish(t)
<1> SUFFICES ASSUME IInv, [Next]_vars
             PROVE  \/ \A u \in Tasks : pc[u] = "publish" => pc'[u] = "publish" /\ cur'[u] = cur[u]
                    \/ \E t \in Tasks : ForkPublish(t)
  OBVIOUS
<1>0. pc \in [Tasks -> States] /\ cur \in [Tasks -> Tasks \cup {None}]
  BY DEF IInv, TypeOK, ControlType
<1> DEFINE Goal ==
      \/ \A u \in Tasks : pc[u] = "publish" => pc'[u] = "publish" /\ cur'[u] = cur[u]
      \/ \E t \in Tasks : ForkPublish(t)
<1>1. ASSUME NEW t \in Tasks, NEW n \in Tasks, NEW nid \in Nodes, NEW thread \in BOOLEAN,
             ForkLock(t, n, nid, thread)
      PROVE  Goal
  BY <1>0, <1>1 DEF Goto, Moves, ForkLock, Idle
<1>2. ASSUME NEW t \in Tasks,
             Exit(t) \/ SetSubreaper(t) \/ ClearSubreaper(t)
      PROVE  Goal
  BY <1>0, <1>2 DEF Goto, Moves, Exit, SetSubreaper, ClearSubreaper, Idle, control
<1>3. ASSUME NEW t \in Tasks, NEW q \in Tasks, Wait(t, q) PROVE Goal
  BY <1>0, <1>3 DEF Goto, Moves, Wait, Idle
<1>4. ASSUME NEW t \in Tasks, NEW q \in Tasks,
             PtraceAttach(t, q) \/ PtraceDetach(t, q)
      PROVE  Goal
  BY <1>0, <1>4 DEF Goto, Moves, PtraceAttach, PtraceDetach, control
<1>5. ASSUME NEW t \in Tasks, NEW sibling \in BOOLEAN, NEW auto \in BOOLEAN,
             ForkState(t, sibling, auto)
      PROVE  Goal
  BY <1>0, <1>5 DEF Goto, Moves, ForkState
<1>6. ASSUME NEW t \in Tasks, ForkPublish(t) PROVE Goal
  BY <1>6
<1>7. ASSUME NEW t \in Tasks,
             ExitLock(t) \/ TakeTracee(t) \/ FindChildReaper(t) \/ ExitState(t)
      PROVE  Goal
  BY <1>0, <1>7 DEF Goto, Moves, ExitLock, TakeTracee, FindChildReaper, ExitState
<1>8. ASSUME NEW t \in Tasks,
             TakeChild(t) \/ LockChild(t) \/ FindThread(t) \/ Hop(t)
      PROVE  Goal
  BY <1>0, <1>8 DEF Goto, Moves, TakeChild, LockChild, FindThread, Hop
<1>9. ASSUME NEW t \in Tasks,
             ReleaseLock(t) \/ DropTracee(t) \/ WaitTraced(t)
      PROVE  Goal
  BY <1>0, <1>9 DEF Goto, Moves, ReleaseLock, DropTracee, WaitTraced
<1>10. ASSUME NEW t \in Tasks,
              Adopt(t) \/ ExitNotify(t) \/ ReleaseTask(t)
       PROVE  Goal
  BY <1>0, <1>10 DEF Goto, Moves, Adopt, ExitNotify, ReleaseTask
<1>11. ASSUME NEW t \in Tasks,
              WalkBegin(t) \/ WalkEnd(t)
       PROVE  Goal
  BY <1>0, <1>11 DEF Goto, Moves, WalkBegin, WalkEnd
<1>12. ASSUME NEW t \in Tasks, NEW g \in Tasks, WalkVisit(t, g) PROVE Goal
  BY <1>0, <1>12 DEF Goto, Moves, WalkVisit, control
<1>13. CASE UNCHANGED vars
  BY <1>13 DEF vars, control
<1>14. ASSUME NEW t \in Tasks, Start(t) PROVE Goal
  <2>1. CASE \E n \in Tasks, nid \in Nodes, thread \in BOOLEAN : ForkLock(t, n, nid, thread)
    BY <2>1, <1>1
  <2>2. CASE \E q \in Tasks : Wait(t, q) \/ PtraceAttach(t, q) \/ PtraceDetach(t, q)
    BY <2>2, <1>3, <1>4
  <2>3. CASE Exit(t) \/ SetSubreaper(t) \/ ClearSubreaper(t)
    BY <2>3, <1>2
  <2> QED
    BY <1>14, <2>1, <2>2, <2>3 DEF Start
<1>15. ASSUME NEW t \in Tasks, Proceed(t) PROVE Goal
  <2>1. CASE \E sibling, auto \in BOOLEAN : ForkState(t, sibling, auto)
    BY <2>1, <1>5
  <2>2. CASE \E g \in Tasks : WalkVisit(t, g)
    BY <2>2, <1>12
  <2>3. CASE ForkPublish(t) \/ ExitLock(t) \/ TakeTracee(t) \/ FindChildReaper(t) \/
          ExitState(t) \/ TakeChild(t) \/ LockChild(t) \/ FindThread(t) \/ Hop(t) \/
          ReleaseLock(t) \/ DropTracee(t) \/ Adopt(t) \/ ExitNotify(t) \/ ReleaseTask(t) \/
          WaitTraced(t) \/ WalkBegin(t) \/ WalkEnd(t)
    BY <2>3, <1>6, <1>7, <1>8, <1>9, <1>10, <1>11
  <2> QED
    BY <1>15, <2>1, <2>2, <2>3 DEF Proceed
<1> QED
  BY <1>13, <1>14, <1>15 DEF Next

(* The ptraced lists follow ->ptrace and ->parent.                         *)
LEMMA TraceesStep == IInv /\ [Next]_vars => TraceesExact'
<1> SUFFICES ASSUME IInv, [Next]_vars PROVE TraceesExact'
  OBVIOUS
<1>0. /\ pc \in [Tasks -> States] /\ leader \in [Tasks -> Tasks] /\ hashed \subseteq Tasks
      /\ realParent \in [Tasks -> Tasks \cup {None}] /\ parent \in [Tasks -> Tasks \cup {None}]
      /\ children \in [Tasks -> SUBSET Tasks] /\ ptraced \in [Tasks -> SUBSET Tasks]
      /\ traced \subseteq Tasks /\ cur \in [Tasks -> Tasks \cup {None}] /\ None \notin Tasks
      /\ TraceesExact
  BY DEF IInv, TypeOK, GroupsType, LinksType, ControlType
<1>p. (\A t \in Tasks : ~ForkPublish(t)) => Unpublished \subseteq Unpublished'
  <2>1. (\A t \in Tasks : ~ForkPublish(t)) =>
          \A u \in Tasks : pc[u] = "publish" => pc'[u] = "publish" /\ cur'[u] = cur[u]
    BY Publishing
  <2> QED
    BY <2>1 DEF Unpublished
<1>f. ASSUME NEW t \in Tasks, ForkPublish(t)
      PROVE  /\ Unpublished \subseteq Unpublished' \cup {cur[t]}
             /\ UNCHANGED <<realParent, parent, ptraced, traced>> /\ hashed' = hashed \cup {cur[t]}
             /\ cur[t] \notin traced => parent[cur[t]] = realParent[cur[t]]
  <2>1. /\ pc[t] = "publish" /\ pc' = [pc EXCEPT ![t] = "run", ![cur[t]] = "run"]
        /\ cur' = [cur EXCEPT ![t] = None]
        /\ UNCHANGED <<realParent, parent, ptraced, traced>> /\ hashed' = hashed \cup {cur[t]}
    BY <1>f DEF ForkPublish
  <2>2. pc[cur[t]] = "born"
    BY <2>1, Forked DEF Forks
  <2>3. \A u \in Tasks : pc[u] = "publish" /\ u # t => pc'[u] = "publish" /\ cur'[u] = cur[u]
    BY <1>0, <2>1, <2>2
  <2>4. Unpublished \subseteq Unpublished' \cup {cur[t]}
    BY <2>3 DEF Unpublished
  <2>5. cur[t] \notin traced => parent[cur[t]] = realParent[cur[t]]
    BY <2>1 DEF IInv, Newborn
  <2> QED
    BY <2>1, <2>4, <2>5
(* Who leaves a tracer goes back to its parent. *)
<1>u. ASSUME NEW q \in Tasks, Unlinked(q), UNCHANGED realParent,
             hashed' = hashed \/ hashed' = hashed \ {q}, Unpublished \subseteq Unpublished'
      PROVE  TraceesExact'
  <2>1. \A x \in Tasks : parent'[x] = IF x = q THEN realParent[q] ELSE parent[x]
    BY <1>0, <1>u DEF Unlinked
  <2>2. \A x \in Tasks : ptraced'[x] = IF x = parent[q] THEN ptraced[x] \ {q} ELSE ptraced[x]
    BY <1>0, <1>u DEF Unlinked
  <2>3. traced' = traced \ {q}
    BY <1>u DEF Unlinked
  <2>4. \A x \in Tasks : ptraced'[x] = {k \in traced' : parent'[k] = x}
    <3>1. TAKE x \in Tasks
    <3>2. ptraced[x] = {k \in traced : parent[k] = x}
      BY <1>0 DEF TraceesExact
    <3>3. \A k \in traced : k \in Tasks
      BY <1>0
    <3>4. CASE x = parent[q]
      <4>1. ptraced'[x] = ptraced[x] \ {q}
        BY <2>2, <3>4
      <4>2. {k \in traced' : parent'[k] = x} \subseteq {k \in traced : parent[k] = x} \ {q}
        BY <2>1, <2>3, <3>3
      <4>3. {k \in traced : parent[k] = x} \ {q} \subseteq {k \in traced' : parent'[k] = x}
        BY <2>1, <2>3, <3>3
      <4> QED
        BY <3>2, <4>1, <4>2, <4>3
    <3>5. CASE x # parent[q]
      BY SMTT(30), <2>1, <2>2, <2>3, <3>2, <3>3, <3>5
    <3> QED
      BY <3>4, <3>5
  <2> QED
    BY <1>0, <1>u, <2>1, <2>3, <2>4 DEF TraceesExact
<1>k. ASSUME UNCHANGED <<hashed, realParent, parent, ptraced, traced>>,
             Unpublished \subseteq Unpublished' \/ \E t \in Tasks : ForkPublish(t)
      PROVE  TraceesExact'
  <2>1. traced \subseteq hashed' \cup Unpublished'
    BY <1>0, <1>f, <1>k DEF TraceesExact
  <2> QED
    BY <1>0, <1>k, <2>1 DEF TraceesExact
<1>1. ASSUME NEW t \in Tasks, NEW n \in Tasks, NEW nid \in Nodes, NEW thread \in BOOLEAN,
             ForkLock(t, n, nid, thread)
      PROVE  TraceesExact'
  <2>1. UNCHANGED <<hashed, links>>
    BY <1>1 DEF ForkLock
  <2> QED
    BY <1>k, <1>p, <2>1 DEF links
<1>2. ASSUME NEW t \in Tasks, NEW q \in Tasks, PtraceAttach(t, q) PROVE TraceesExact'
  <2>1. /\ UNCHANGED <<groups, realParent, control>> /\ traced' = traced \cup {q}
        /\ ptraced' = [ptraced EXCEPT ![t] = @ \cup {q}] /\ q \in hashed \ traced
        /\ parent' = [parent EXCEPT ![q] = t]
    BY <1>2 DEF PtraceAttach
  <2>2. Unpublished' = Unpublished /\ hashed' = hashed
    BY <2>1 DEF Unpublished, groups, control
  <2>3. \A x \in Tasks : parent'[x] = IF x = q THEN t ELSE parent[x]
    BY <1>0, <2>1
  <2>4. \A x \in Tasks : ptraced'[x] = IF x = t THEN ptraced[x] \cup {q} ELSE ptraced[x]
    BY <1>0, <2>1
  <2>5. \A x \in Tasks : ptraced'[x] = {k \in traced' : parent'[k] = x}
    BY <1>0, <2>1, <2>3, <2>4 DEF TraceesExact
  <2> QED
    BY <1>0, <2>1, <2>2, <2>3, <2>5 DEF TraceesExact
<1>3. ASSUME NEW t \in Tasks, NEW q \in Tasks, PtraceDetach(t, q) PROVE TraceesExact'
  <2>1. Unlinked(q) /\ UNCHANGED <<groups, realParent, control>>
    BY <1>3 DEF PtraceDetach
  <2> QED
    BY <1>u, <2>1 DEF groups, control, Unpublished
<1>4. ASSUME NEW t \in Tasks, NEW sibling \in BOOLEAN, NEW auto \in BOOLEAN,
             ForkState(t, sibling, auto)
      PROVE  TraceesExact'
  <2> DEFINE n == cur[t]
             p == IF sibling THEN realParent[t] ELSE t
  <2>1. /\ realParent' = [realParent EXCEPT ![n] = p] /\ UNCHANGED <<leader, hashed, cur>>
        /\ \/ /\ t \in traced /\ parent' = [parent EXCEPT ![n] = parent[t]]
              /\ ptraced' = [ptraced EXCEPT ![parent[t]] = @ \cup {n}]
              /\ traced' = traced \cup {n}
           \/ parent' = [parent EXCEPT ![n] = p] /\ UNCHANGED <<traced, ptraced>>
        /\ pc[t] = "fork" /\ pc' = [pc EXCEPT ![t] = "publish"]
    BY <1>4 DEF ForkState, Moves, Goto, groups
  <2>2. n \in Tasks /\ n \notin hashed /\ t \in hashed
    BY <2>1, Forked DEF Forks
  <2>3. n \notin traced
    BY <2>1, <2>2 DEF IInv, TraceesExact, Unpublished, Control, Forking, Forks
  <2>4. Unpublished \cup {n} \subseteq Unpublished'
    BY <1>0, <2>1 DEF Unpublished
  <2>5. t \in traced => parent[t] \in Tasks
    BY <1>0 DEF IInv, Parented
  <2> HIDE DEF n, p
  <2>6. \A x \in Tasks : x # n => parent'[x] = parent[x] /\ realParent'[x] = realParent[x]
    BY <1>0, <2>1
  <2>7. \A x \in Tasks : ptraced'[x] = {k \in traced' : parent'[k] = x}
    <3>1. CASE UNCHANGED <<traced, ptraced>>
      BY <1>0, <2>3, <2>6, <3>1 DEF TraceesExact
    <3>2. CASE t \in traced /\ parent' = [parent EXCEPT ![n] = parent[t]]
               /\ ptraced' = [ptraced EXCEPT ![parent[t]] = @ \cup {n}] /\ traced' = traced \cup {n}
      <4>1. parent'[n] = parent[t] /\ \A x \in Tasks :
              ptraced'[x] = IF x = parent[t] THEN ptraced[x] \cup {n} ELSE ptraced[x]
        BY <1>0, <2>2, <3>2
      <4> QED
        BY <1>0, <2>2, <2>3, <2>6, <3>2, <4>1 DEF TraceesExact
    <3> QED
      BY <2>1, <3>1, <3>2
  <2>8. traced \subseteq traced' /\ traced' \subseteq traced \cup {n}
    BY <2>1
  <2> QED
    BY <1>0, <2>1, <2>2, <2>4, <2>6, <2>7, <2>8 DEF TraceesExact
<1>5. ASSUME NEW t \in Tasks, ForkPublish(t) PROVE TraceesExact'
  <2>1. \A x \in Tasks : ptraced'[x] = {k \in traced' : parent'[k] = x}
    BY <1>0, <1>f, <1>5 DEF TraceesExact
  <2> QED
    BY <1>0, <1>f, <1>5, <2>1 DEF TraceesExact
<1>6. ASSUME NEW t \in Tasks, DropTracee(t) PROVE TraceesExact'
  <2>1. /\ pc[t] = "tracee" /\ UNCHANGED <<hashed, realParent, cur>>
        /\ pc' = [pc EXCEPT ![t] = "tracees"]
        /\ Unlinked(cur[t]) \/ UNCHANGED <<parent, ptraced, traced>>
    BY <1>6 DEF DropTracee, PtraceDetached, Moves, Goto, groups
  <2>2. cur[t] \in Tasks /\ Unpublished \subseteq Unpublished'
    BY <1>0, <2>1 DEF IInv, Control, Orphans, Unpublished
  <2> QED
    BY <1>k, <1>u, <2>1, <2>2
<1>7. ASSUME NEW t \in Tasks, Adopt(t) PROVE TraceesExact'
  <2> DEFINE p == cur[t]
             r == cursor[t]
  <2>1. UNCHANGED <<leader, hashed, traced, ptraced, cur>> /\ pc[t] = "adopt"
        /\ \E to \in {"find", "children"} : pc' = [pc EXCEPT ![t] = to]
        /\ \/ UNCHANGED <<realParent, parent>>
           \/ /\ realParent' = [u \in Tasks |-> IF u \in Threads(p) THEN r ELSE realParent[u]]
              /\ parent' = [u \in Tasks |-> IF u \in Threads(p) \ traced THEN r ELSE parent[u]]
    BY <1>7 DEF Adopt, groups, Reparented, Goto
  <2>2. Unpublished \subseteq Unpublished'
    BY <1>0, <2>1 DEF Unpublished
  <2>3. \A x \in traced : parent'[x] = parent[x]
    BY <1>0, <2>1
  <2> HIDE DEF p, r
  <2>4. \A x \in Tasks : ptraced'[x] = {k \in traced' : parent'[k] = x}
    BY <1>0, <2>1, <2>3 DEF TraceesExact
  <2>5. \A x \in hashed \ traced : parent'[x] = realParent'[x]
    BY <1>0, <2>1 DEF TraceesExact
  <2> QED
    BY <1>0, <2>1, <2>2, <2>4, <2>5 DEF TraceesExact
<1>8. ASSUME NEW t \in Tasks, ReleaseTask(t) PROVE TraceesExact'
  <2>1. /\ pc[t] = "release" /\ UNCHANGED realParent /\ cur' = [cur EXCEPT ![t] = None]
        /\ \E to \in {"gone", "run"} : pc' = [pc EXCEPT ![t] = to]
        /\ hashed' = hashed \ {cur[t]}
        /\ IF cur[t] \in traced THEN Unlinked(cur[t]) ELSE UNCHANGED <<parent, ptraced, traced>>
    BY <1>8 DEF ReleaseTask, Goto
  <2>2. cur[t] \in Tasks /\ Unpublished \subseteq Unpublished'
    BY <1>0, <2>1, Released DEF Unpublished
  <2>3. CASE cur[t] \notin traced
    <3>1. \A x \in Tasks : ptraced'[x] = {k \in traced' : parent'[k] = x}
      BY <1>0, <2>1, <2>3 DEF TraceesExact
    <3> QED
      BY <1>0, <2>1, <2>2, <2>3, <3>1 DEF TraceesExact
  <2> QED
    BY <1>u, <2>1, <2>2, <2>3
<1>9. ASSUME NEW t \in Tasks, WaitTraced(t) PROVE TraceesExact'
  <2>1. /\ pc[t] = "trace" /\ UNCHANGED <<hashed, realParent>> /\ cur' = [cur EXCEPT ![t] = None]
        /\ pc' = [pc EXCEPT ![t] = "run"]
        /\ Unlinked(cur[t]) \/ UNCHANGED <<parent, ptraced, traced>>
    BY <1>9 DEF WaitTraced, Moves, Goto, groups
  <2>2. cur[t] \in Tasks /\ Unpublished \subseteq Unpublished'
    BY <1>0, <2>1 DEF IInv, Control, GivenBack, Unpublished
  <2> QED
    BY <1>k, <1>u, <2>1, <2>2
<1>10. CASE UNCHANGED <<groups, links>>
  BY <1>k, <1>p, <1>10 DEF groups, links
<1> QED
  BY <1>1, <1>2, <1>3, <1>4, <1>5, <1>6, <1>7, <1>8, <1>9, <1>10, Frames
     DEF ChangesGroups, ChangesLinks

(* A task is done with a list when it has found it empty. *)
LEMMA DoneStep ==
  IInv /\ [Next]_vars =>
    \A x \in Tasks :
      /\ Done(x)' => Done(x) \/ children'[x] = {}
      /\ Past(x)' => Past(x) \/ ptraced'[x] = {}
<1> SUFFICES ASSUME IInv, [Next]_vars
             PROVE  \A x \in Tasks :
                      /\ Done(x)' => Done(x) \/ children'[x] = {}
                      /\ Past(x)' => Past(x) \/ ptraced'[x] = {}
  OBVIOUS
<1>0. /\ pc \in [Tasks -> States] /\ exiting \subseteq Tasks
      /\ exitState \in [Tasks -> {"live", "zombie", "trace", "dead"}]
  BY DEF IInv, TypeOK, ControlType, StatusType
<1> DEFINE Goal == \A x \in Tasks :
                     /\ Done(x)' => Done(x) \/ children'[x] = {}
                     /\ Past(x)' => Past(x) \/ ptraced'[x] = {}
<1>q. ASSUME UNCHANGED exiting,
             \A x \in Tasks : /\ exitState'[x] = "live" <=> exitState[x] = "live"
                              /\ pc'[x] = "notify" => pc[x] = "notify"
                              /\ pc'[x] \in {"shard", "tracees", "tracee"} \/ pc'[x] = pc[x]
                                 \/ pc[x] \notin {"shard", "tracees", "tracee"}
      PROVE  Goal
  BY <1>q DEF Done, Past
<1> DEFINE Quiet ==
      /\ UNCHANGED exiting
      /\ \A x \in Tasks : /\ exitState'[x] = "live" <=> exitState[x] = "live"
                          /\ pc'[x] = "notify" => pc[x] = "notify"
                          /\ pc'[x] \in {"shard", "tracees", "tracee"} \/ pc'[x] = pc[x]
                             \/ pc[x] \notin {"shard", "tracees", "tracee"}
<1>1. ASSUME NEW t \in Tasks, NEW n \in Tasks, NEW nid \in Nodes, NEW thread \in BOOLEAN,
             ForkLock(t, n, nid, thread)
      PROVE  Goal
  <2> Quiet
    BY <1>0, <1>1 DEF Goto, Moves, Idle, status, ForkLock
  <2> QED
    BY <1>q
<1>2. ASSUME NEW t \in Tasks, Exit(t) PROVE Goal
  <2>1. /\ exiting' = exiting \cup {t} /\ pc' = [pc EXCEPT ![t] = "shard"] /\ UNCHANGED exitState
    BY <1>2 DEF Exit, Goto, status
  <2> QED
    BY <1>0, <2>1 DEF Done, Past
<1>3. ASSUME NEW t \in Tasks,
             SetSubreaper(t) \/ ClearSubreaper(t)
      PROVE  Goal
  <2> Quiet
    BY <1>0, <1>3 DEF Goto, Moves, Idle, status, control, SetSubreaper, ClearSubreaper
  <2> QED
    BY <1>q
<1>4. ASSUME NEW t \in Tasks, NEW q \in Tasks, Wait(t, q) PROVE Goal
  <2> Quiet
    BY <1>0, <1>4 DEF Goto, Moves, Idle, Claim, MayReap, Wait
  <2> QED
    BY <1>q
<1>5. ASSUME NEW t \in Tasks, NEW q \in Tasks,
             PtraceAttach(t, q) \/ PtraceDetach(t, q)
      PROVE  Goal
  <2> Quiet
    BY <1>0, <1>5 DEF Goto, Moves, status, control, PtraceAttach, PtraceDetach
  <2> QED
    BY <1>q
<1>6. ASSUME NEW t \in Tasks, NEW sibling \in BOOLEAN, NEW auto \in BOOLEAN,
             ForkState(t, sibling, auto)
      PROVE  Goal
  <2> Quiet
    BY <1>0, <1>6 DEF Goto, Moves, status, ForkState
  <2> QED
    BY <1>q
<1>7. ASSUME NEW t \in Tasks, ForkPublish(t) PROVE Goal
  <2>1. /\ pc' = [pc EXCEPT ![t] = "run", ![cur[t]] = "run"] /\ UNCHANGED <<exiting, exitState>>
        /\ pc[t] = "publish"
    BY <1>7 DEF ForkPublish, status
  <2>2. pc[cur[t]] = "born"
    BY <2>1, Forked DEF Forks
  <2> Quiet
    BY <1>0, <2>1, <2>2
  <2> QED
    BY <1>q
<1>8. ASSUME NEW t \in Tasks, ExitLock(t) PROVE Goal
  <2> Quiet
    BY <1>0, <1>8 DEF Goto, Moves, status, ExitLock
  <2> QED
    BY <1>q
<1>9. ASSUME NEW t \in Tasks, TakeTracee(t) PROVE Goal
  <2>1. UNCHANGED <<exiting, exitState>> /\ pc[t] = "tracees"
        /\ \/ pc' = [pc EXCEPT ![t] = "tracee"]
           \/ /\ \E to \in {"reaper", "state"} : pc' = [pc EXCEPT ![t] = to]
              /\ ptraced'[t] = {}
    BY <1>9 DEF TakeTracee, Goto, status, links
  <2> QED
    BY <1>0, <2>1 DEF Done, Past
<1>10. ASSUME NEW t \in Tasks,
              FindChildReaper(t) \/ ExitState(t)
       PROVE  Goal
  <2> Quiet
    BY <1>0, <1>10 DEF Goto, Moves, status, FindChildReaper, ExitState
  <2> QED
    BY <1>q
<1>11. ASSUME NEW t \in Tasks, TakeChild(t) PROVE Goal
  <2>1. UNCHANGED <<exiting, exitState>> /\ pc[t] = "children"
        /\ \/ pc' = [pc EXCEPT ![t] = "child"]
           \/ pc' = [pc EXCEPT ![t] = "notify"] /\ children'[t] = {}
    BY <1>11 DEF TakeChild, Goto, status, links
  <2> QED
    BY <1>0, <2>1 DEF Done, Past
<1>12. ASSUME NEW t \in Tasks,
              LockChild(t) \/ FindThread(t) \/ Hop(t)
       PROVE  Goal
  <2> Quiet
    BY <1>0, <1>12 DEF Goto, Moves, status, LockChild, FindThread, Hop
  <2> QED
    BY <1>q
<1>13. ASSUME NEW t \in Tasks, ReleaseLock(t) PROVE Goal
  <2> Quiet
    BY <1>0, <1>13 DEF Goto, Moves, status, ReleaseLock
  <2> QED
    BY <1>q
<1>14. ASSUME NEW t \in Tasks, DropTracee(t) PROVE Goal
  <2>1. UNCHANGED exiting /\ pc[t] = "tracee" /\ pc' = [pc EXCEPT ![t] = "tracees"]
        /\ \/ UNCHANGED exitState
           \/ exitState[cur[t]] = "zombie" /\ exitState' = [exitState EXCEPT ![cur[t]] = "dead"]
    BY <1>14 DEF DropTracee, Moves, Goto, PtraceDetached, Claim, status
  <2> Quiet
    BY <1>0, <2>1
  <2> QED
    BY <1>q
<1>15. ASSUME NEW t \in Tasks, Adopt(t) PROVE Goal
  <2>1. /\ UNCHANGED exiting /\ pc[t] = "adopt"
        /\ \E to \in {"find", "children"} : pc' = [pc EXCEPT ![t] = to]
        /\ \/ UNCHANGED exitState
           \/ exitState[cur[t]] = "zombie" /\ exitState' = [exitState EXCEPT ![cur[t]] = "dead"]
    BY <1>15 DEF Adopt, Goto, Claim, status
  <2> Quiet
    BY <1>0, <2>1
  <2> QED
    BY <1>q
<1>16. ASSUME NEW t \in Tasks, ExitNotify(t) PROVE Goal
  <2>1. /\ UNCHANGED exiting /\ pc[t] = "notify" /\ pc' = [pc EXCEPT ![t] = "gone"]
        /\ \E e \in {"zombie", "dead"} : exitState' = [exitState EXCEPT ![t] = e]
    BY <1>16 DEF ExitNotify, Moves, Goto
  <2> QED
    BY <1>0, <2>1 DEF Done, Past
<1>17. ASSUME NEW t \in Tasks, ReleaseTask(t) PROVE Goal
  <2>1. /\ UNCHANGED exiting /\ pc[t] = "release"
        /\ \E to \in {"gone", "run"} : pc' = [pc EXCEPT ![t] = to]
        /\ \/ UNCHANGED exitState
           \/ \E l \in Tasks : exitState[l] = "zombie" /\ exitState' = [exitState EXCEPT ![l] = "dead"]
    <3>1. leader[cur[t]] \in Tasks
      BY <1>17, Released DEF ReleaseTask, IInv, TypeOK, GroupsType
    <3> QED
      BY <3>1, <1>17 DEF ReleaseTask, Goto, ZapsLeader
  <2> Quiet
    BY <1>0, <2>1
  <2> QED
    BY <1>q
<1>18. ASSUME NEW t \in Tasks, WaitTraced(t) PROVE Goal
  <2>1. /\ UNCHANGED exiting /\ pc[t] = "trace" /\ pc' = [pc EXCEPT ![t] = "run"]
        /\ \E e \in {"zombie", "dead"} : exitState' = [exitState EXCEPT ![cur[t]] = e]
    BY <1>18 DEF WaitTraced, Moves, Goto
  <2>2. exitState[cur[t]] = "trace"
    BY <2>1 DEF IInv, Control, GivenBack
  <2> Quiet
    BY <1>0, <2>1, <2>2
  <2> QED
    BY <1>q
<1>19. ASSUME NEW t \in Tasks,
              WalkBegin(t) \/ WalkEnd(t)
       PROVE  Goal
  <2> Quiet
    BY <1>0, <1>19 DEF Goto, Moves, status, WalkBegin, WalkEnd
  <2> QED
    BY <1>q
<1>20. ASSUME NEW t \in Tasks, NEW g \in Tasks, WalkVisit(t, g) PROVE Goal
  <2> Quiet
    BY <1>0, <1>20 DEF Goto, Moves, status, control, WalkVisit
  <2> QED
    BY <1>q
<1>21. CASE UNCHANGED vars
  BY <1>q, <1>21 DEF vars, control, status
<1>22. ASSUME NEW t \in Tasks, Start(t) PROVE Goal
  <2>1. CASE \E n \in Tasks, nid \in Nodes, thread \in BOOLEAN : ForkLock(t, n, nid, thread)
    BY <2>1, <1>1
  <2>2. CASE \E q \in Tasks : Wait(t, q) \/ PtraceAttach(t, q) \/ PtraceDetach(t, q)
    BY <2>2, <1>4, <1>5
  <2>3. CASE Exit(t) \/ SetSubreaper(t) \/ ClearSubreaper(t)
    BY <2>3, <1>2, <1>3
  <2> QED
    BY <1>22, <2>1, <2>2, <2>3 DEF Start
<1>23. ASSUME NEW t \in Tasks, Proceed(t) PROVE Goal
  <2>1. CASE \E sibling, auto \in BOOLEAN : ForkState(t, sibling, auto)
    BY <2>1, <1>6
  <2>2. CASE \E g \in Tasks : WalkVisit(t, g)
    BY <2>2, <1>20
  <2>3. CASE ForkPublish(t) \/ ExitLock(t) \/ TakeTracee(t) \/ FindChildReaper(t) \/
          ExitState(t) \/ TakeChild(t) \/ LockChild(t) \/ FindThread(t) \/ Hop(t) \/
          ReleaseLock(t) \/ DropTracee(t) \/ Adopt(t) \/ ExitNotify(t) \/ ReleaseTask(t) \/
          WaitTraced(t) \/ WalkBegin(t) \/ WalkEnd(t)
    BY <2>3, <1>7, <1>8, <1>9, <1>10, <1>11, <1>12, <1>13, <1>14, <1>15, <1>16, <1>17, <1>18,
       <1>19
  <2> QED
    BY <1>23, <2>1, <2>2, <2>3 DEF Proceed
<1> QED
  BY <1>21, <1>22, <1>23 DEF Next

(* No list grows after its owner has found it empty.                       *)
LEMMA BehindStep == IInv /\ [Next]_vars => Behind'
<1> SUFFICES ASSUME IInv, [Next]_vars PROVE Behind'
  OBVIOUS
<1>0. /\ pc \in [Tasks -> States] /\ hashed \subseteq Tasks /\ leader \in [Tasks -> Tasks]
      /\ children \in [Tasks -> SUBSET Tasks] /\ ptraced \in [Tasks -> SUBSET Tasks]
      /\ None \notin Tasks /\ Behind
  BY DEF IInv, TypeOK, ControlType, GroupsType, LinksType
(* No list of a task that is done with it grows. *)
<1>q. ASSUME \A x \in Tasks : /\ Done(x) => children'[x] \subseteq children[x]
                              /\ Past(x) => ptraced'[x] \subseteq ptraced[x]
      PROVE  Behind'
  <2>1. ASSUME NEW x \in Tasks PROVE (Done(x)' => children'[x] = {}) /\ (Past(x)' => ptraced'[x] = {})
    BY <1>0, <1>q, DoneStep DEF Behind
  <2> QED
    BY <2>1 DEF Behind
<1>1. ASSUME NEW t \in Tasks, NEW q \in Tasks, PtraceAttach(t, q) PROVE Behind'
  <2>1. UNCHANGED children /\ pc[t] = "run" /\ ptraced' = [ptraced EXCEPT ![t] = @ \cup {q}]
    BY <1>1 DEF PtraceAttach, Idle
  <2>2. ~Past(t)
    BY <2>1 DEF IInv, Control, Life, Exits, Past
  <2> QED
    BY <1>0, <1>q, <2>1, <2>2
<1>2. ASSUME NEW t \in Tasks, NEW q \in Tasks, PtraceDetach(t, q) PROVE Behind'
  <2>1. UNCHANGED children
        /\ \A x \in Tasks : ptraced'[x] \subseteq ptraced[x]
    BY <1>0, <1>2 DEF PtraceDetach, Unlinked
  <2> QED
    BY <1>q, <2>1
<1>3. ASSUME NEW t \in Tasks, NEW sibling \in BOOLEAN, NEW auto \in BOOLEAN,
             ForkState(t, sibling, auto)
      PROVE  Behind'
  <2>1. UNCHANGED children
        /\ \/ UNCHANGED ptraced
           \/ t \in traced /\ ptraced' = [ptraced EXCEPT ![parent[t]] = @ \cup {cur[t]}]
    BY <1>3 DEF ForkState
  <2>2. t \in traced => parent[t] \in Tasks /\ ~Past(parent[t])
    <3>1. t \in traced => parent[t] \in Tasks
      BY DEF IInv, Parented, TypeOK, LinksType
    <3>2. t \in traced => t \in ptraced[parent[t]]
      BY <3>1 DEF IInv, TraceesExact
    <3> QED
      BY <1>0, <3>1, <3>2 DEF Behind
  <2> QED
    BY <1>0, <1>q, <2>1, <2>2
<1>4. ASSUME NEW t \in Tasks, ForkPublish(t) PROVE Behind'
  <2> DEFINE n == cur[t]
  <2>1. UNCHANGED ptraced /\ pc[t] = "publish"
        /\ \/ UNCHANGED children
           \/ leader[n] = n /\ children' = [children EXCEPT ![realParent[n]] = @ \cup {n}]
    BY <1>4 DEF ForkPublish
  <2>2. t \in hashed /\ leader[t] \in hashed /\ ~Done(t)
    BY <2>1, Forked DEF Forks, IInv, Control, Life, Done
  <2>3. realParent[t] \in Tasks => ~Done(realParent[t])
    <3>1. leader[leader[t]] = leader[t] /\ realParent[leader[t]] = realParent[t]
      BY <2>2 DEF IInv, Control, Groups, ChildrenExact
    <3>2. realParent[t] \in Tasks => leader[t] \in children[realParent[t]]
      BY <2>2, <3>1 DEF IInv, ChildrenExact
    <3> QED
      BY <1>0, <3>2 DEF Behind
  <2>4. realParent[n] \in {t, realParent[t]}
    BY <2>1 DEF IInv, Newborn
  <2> HIDE DEF n
  <2> QED
    BY <1>0, <1>q, <2>1, <2>2, <2>3, <2>4
<1>5. ASSUME NEW t \in Tasks, DropTracee(t) PROVE Behind'
  <2>1. UNCHANGED children
        /\ \A x \in Tasks : ptraced'[x] \subseteq ptraced[x]
    BY SMTT(30), <1>0, <1>5 DEF DropTracee, PtraceDetached, Unlinked
  <2> QED
    BY <1>q, <2>1
<1>6. ASSUME NEW t \in Tasks, Adopt(t) PROVE Behind'
  <2>1. UNCHANGED ptraced /\ pc[t] = "adopt"
        /\ \/ UNCHANGED children
           \/ /\ children' = [children EXCEPT ![t] = @ \ {cur[t]}, ![cursor[t]] = @ \cup {cur[t]}]
              /\ MayAdopt(cursor[t])
    BY <1>6 DEF Adopt
  <2>2. MayAdopt(cursor[t]) => ~Done(cursor[t])
    <3>1. cursor[t] \in Tasks
      BY <2>1 DEF IInv, Control, Cursors
    <3> QED
      BY <3>1 DEF MayAdopt, IInv, Control, Life, Exits, Reaper, Done
  <2>3. \A x \in Tasks : x # cursor[t] => children'[x] \subseteq children[x]
    BY <1>0, <2>1
  <2> QED
    BY <1>0, <1>q, <2>1, <2>2, <2>3
<1>7. ASSUME NEW t \in Tasks, ReleaseTask(t) PROVE Behind'
  <2>1. /\ children' = [children EXCEPT ![realParent[cur[t]]] = @ \ {cur[t]}] \/ UNCHANGED children
        /\ UNCHANGED ptraced \/ Unlinked(cur[t])
    BY <1>7 DEF ReleaseTask
  <2> QED
    BY <1>0, <1>q, <2>1 DEF Unlinked
<1>8. ASSUME NEW t \in Tasks, WaitTraced(t) PROVE Behind'
  <2>1. UNCHANGED children
        /\ \A x \in Tasks : ptraced'[x] \subseteq ptraced[x]
    BY <1>0, <1>8 DEF WaitTraced, Unlinked
  <2> QED
    BY <1>q, <2>1
<1>9. CASE UNCHANGED links
  BY <1>q, <1>9 DEF links
<1> QED
  BY <1>1, <1>2, <1>3, <1>4, <1>5, <1>6, <1>7, <1>8, <1>9, Frames
     DEF ChangesLinks

LEMMA LeftBehind == IInv => NobodyLeftBehind
<1> SUFFICES ASSUME IInv, NEW t \in Tasks
             PROVE  /\ pc[t] \in {"notify", "gone"} \/ t \notin hashed => children[t] = {}
                    /\ t \in exiting /\ pc[t] \notin {"shard", "tracees", "tracee"} => ptraced[t] = {}
  BY DEF NobodyLeftBehind
<1>1. ~Started(t) => children[t] = {}
  BY DEF IInv, Parented, ChildrenExact, TypeOK, GroupsType
<1>2. pc[t] \in {"notify", "gone"} \/ (t \notin hashed /\ Started(t)) => Done(t)
  BY DEF IInv, Control, Life, Done
<1> QED
  BY <1>1, <1>2 DEF IInv, Behind, Past

(* The parent of a lone zombie is a task that has run. *)
LEMMA LoneParent ==
  ASSUME IInv, NEW p \in hashed, leader[p] = p, exitState[p] # "live", Alone(p)
  PROVE  p \in Tasks /\ parent[p] \in Tasks /\ Started(parent[p])
<1>1. p \in Tasks
  BY DEF IInv, TypeOK, GroupsType
<1>2. parent[p] \in Tasks /\ realParent[p] \in Tasks
  BY <1>1, ExitStates, LoneZombie
<1>3. p \in traced \/ parent[p] = realParent[p]
  BY <1>1 DEF IInv, TraceesExact
<1> QED
  BY <1>1, <1>2, <1>3 DEF IInv, Parented, TypeOK

(* Every step that makes, moves or gives back a lone zombie tells its parent. *)
LEMMA AnnouncedStep == IInv /\ [Next]_vars => ZombiesAnnounced'
<1> SUFFICES ASSUME IInv, [Next]_vars PROVE ZombiesAnnounced'
  OBVIOUS
<1>0. /\ pc \in [Tasks -> States] /\ hashed \subseteq Tasks /\ leader \in [Tasks -> Tasks]
      /\ parent \in [Tasks -> Tasks \cup {None}] /\ None \notin Tasks /\ ZombiesAnnounced
      /\ exitState \in [Tasks -> {"live", "zombie", "trace", "dead"}]
      /\ told \in [Tasks -> Tasks \cup {None}] /\ dead \in [Tasks -> SUBSET Tasks]
  BY DEF IInv, TypeOK, ControlType, GroupsType, LinksType, StatusType
<1> DEFINE Lone(x) == leader[x] = x /\ exitState[x] = "zombie" /\ Alone(x)
(* Who is new to be a lone zombie, or has a new parent, is told. *)
<1>q. ASSUME UNCHANGED leader,
             \A x \in hashed' : Lone(x)' =>
               \/ told'[x] = leader[parent'[x]]
               \/ x \in hashed /\ Lone(x) /\ told'[x] = told[x] /\ parent'[x] = parent[x]
      PROVE  ZombiesAnnounced'
  BY <1>0, <1>q DEF ZombiesAnnounced
<1>a. UNCHANGED <<leader, hashed>> => \A x : Alone(x)' <=> Alone(x)
  BY DEF Alone, Threads
<1>k. ASSUME UNCHANGED <<leader, hashed>>, NEW q,
             \A x \in hashed : x # q /\ exitState'[x] = "zombie" =>
               exitState[x] = "zombie" /\ told'[x] = told[x] /\ parent'[x] = parent[x],
             q \in hashed /\ Lone(q)' => told'[q] = leader[parent'[q]]
      PROVE  ZombiesAnnounced'
  BY <1>0, <1>a, <1>k DEF ZombiesAnnounced
<1> HIDE DEF Lone
<1>1. ASSUME NEW t \in Tasks, NEW n \in Tasks, NEW nid \in Nodes, NEW thread \in BOOLEAN,
             ForkLock(t, n, nid, thread)
      PROVE  ZombiesAnnounced'
  <2>1. /\ leader' = [leader EXCEPT ![n] = IF thread THEN leader[t] ELSE n] /\ pc[n] = "none"
        /\ UNCHANGED <<hashed, parent, exitState, told>>
    BY <1>1 DEF ForkLock, links, status
  <2>2. n \notin hashed
    BY <2>1 DEF IInv, Control, Life, Started
  <2>3. \A x \in Tasks : x # n => leader'[x] = leader[x]
    BY <1>0, <2>1
  <2>4. \A x \in hashed : Threads(x)' = Threads(x)
    BY <1>0, <2>1, <2>2, <2>3 DEF Threads
  <2>5. ASSUME NEW x \in hashed, leader'[x] = x, exitState'[x] = "zombie", Alone(x)'
        PROVE  told'[x] = leader'[parent'[x]]
    <3>1. leader[x] = x /\ exitState[x] = "zombie" /\ Alone(x)
      BY <1>0, <2>1, <2>2, <2>3, <2>4, <2>5 DEF Alone
    <3>2. parent[x] \in Tasks /\ parent[x] # n
      BY <2>1, <3>1, LoneParent DEF Started
    <3> QED
      BY <1>0, <2>1, <2>3, <3>1, <3>2 DEF ZombiesAnnounced
  <2> QED
    BY <2>1, <2>5 DEF ZombiesAnnounced
<1>2. ASSUME NEW t \in Tasks, NEW q \in Tasks, Wait(t, q) PROVE ZombiesAnnounced'
  <2>1. /\ UNCHANGED <<leader, hashed, parent, told>>
        /\ \/ UNCHANGED exitState
           \/ \E e \in {"trace", "dead"} : exitState' = [exitState EXCEPT ![q] = e]
    BY <1>2 DEF Wait, Claim, groups, links
  <2> QED
    BY <1>0, <1>k, <2>1 DEF Lone
<1>3. ASSUME NEW t \in Tasks, NEW q \in Tasks, PtraceAttach(t, q) PROVE ZombiesAnnounced'
  <2>1. /\ UNCHANGED <<leader, hashed, exitState, told>>
        /\ parent' = [parent EXCEPT ![q] = t] /\ exitState[q] = "live"
    BY <1>3 DEF PtraceAttach, groups, status
  <2> QED
    BY <1>0, <1>k, <2>1 DEF Lone
<1>4. ASSUME NEW t \in Tasks, NEW q \in Tasks, PtraceDetach(t, q) PROVE ZombiesAnnounced'
  <2>1. /\ UNCHANGED <<leader, hashed, exitState, told>>
        /\ parent' = [parent EXCEPT ![q] = realParent[q]] /\ pc[q] = "run"
    BY <1>4 DEF PtraceDetach, Unlinked, Idle, groups, status
  <2>2. exitState[q] = "live"
    BY <2>1, ExitStates
  <2> QED
    BY <1>0, <1>k, <2>1, <2>2 DEF Lone
<1>5. ASSUME NEW t \in Tasks, NEW sibling \in BOOLEAN, NEW auto \in BOOLEAN,
             ForkState(t, sibling, auto)
      PROVE  ZombiesAnnounced'
  <2>1. /\ UNCHANGED <<leader, hashed, exitState, told>> /\ pc[t] = "fork"
        /\ \E p : parent' = [parent EXCEPT ![cur[t]] = p]
    BY <1>5 DEF ForkState, Moves, groups, status
  <2>2. cur[t] \notin hashed
    BY <2>1, Forked DEF Forks
  <2> QED
    BY <1>0, <1>k, <2>1, <2>2 DEF Lone
<1>6. ASSUME NEW t \in Tasks, ForkPublish(t) PROVE ZombiesAnnounced'
  <2>1. /\ UNCHANGED <<leader, parent, exitState, told>> /\ pc[t] = "publish"
        /\ hashed' = hashed \cup {cur[t]}
    BY <1>6 DEF ForkPublish, status
  <2>2. cur[t] \in Tasks /\ exitState[cur[t]] = "live"
    BY <2>1, Forked, ExitStates DEF Forks
  <2>3. \A x \in hashed : Alone(x)' /\ leader[x] = x => Alone(x)
    BY <2>1 DEF Alone, Threads
  <2> QED
    BY <1>q, <2>1, <2>2, <2>3 DEF Lone
<1>7. ASSUME NEW t \in Tasks, DropTracee(t) PROVE ZombiesAnnounced'
  <2>0. PICK q : q = cur[t]
    OBVIOUS
  <2>1. /\ UNCHANGED <<leader, hashed>> /\ pc[t] = "tracee"
        /\ UNCHANGED <<parent, status>> \/ (StillTraced(t, q) /\ PtraceDetached(t, q))
    BY <2>0, <1>7 DEF DropTracee, Moves, groups
  <2>2. q \in Tasks
    BY <2>0, <2>1 DEF IInv, Control, Orphans
  <2>3. CASE UNCHANGED <<parent, status>>
    BY <1>q, <1>a, <2>1, <2>3 DEF status, Lone
  <2>4. CASE StillTraced(t, q) /\ PtraceDetached(t, q)
    <3>1. /\ parent' = [parent EXCEPT ![q] = realParent[q]] /\ parent[q] = t
          /\ UNCHANGED exitState \/ exitState' = [exitState EXCEPT ![q] = "dead"]
          /\ IF leader[q] = q /\ Alone(q) /\ exitState[q] = "zombie" /\ leader[realParent[q]] # leader[t]
             THEN told' = [told EXCEPT ![q] = leader[realParent[q]]] ELSE UNCHANGED told
      BY <2>4 DEF StillTraced, PtraceDetached, Unlinked, Claim, NotifyParent, SameGroup
    <3>2. \A x \in hashed : x # q /\ exitState'[x] = "zombie" =>
            exitState[x] = "zombie" /\ told'[x] = told[x] /\ parent'[x] = parent[x]
      BY <1>0, <3>1
    <3>3. ASSUME q \in hashed, Lone(q)' PROVE told'[q] = leader[parent'[q]]
      <4>1. leader[q] = q /\ exitState[q] = "zombie" /\ Alone(q)
        BY <1>0, <1>a, <2>1, <2>2, <3>1, <3>3 DEF Lone
      <4>2. parent'[q] = realParent[q] /\ told[q] = leader[t]
        BY <1>0, <2>2, <3>1, <3>3, <4>1 DEF ZombiesAnnounced
      <4> QED
        BY <1>0, <2>2, <3>1, <4>1, <4>2
    <3> QED
      BY <1>k, <2>1, <3>2, <3>3
  <2> QED
    BY <2>1, <2>3, <2>4
<1>8. ASSUME NEW t \in Tasks, Adopt(t) PROVE ZombiesAnnounced'
  <2>0. PICK p, r : p = cur[t] /\ r = cursor[t]
    OBVIOUS
  <2>1. /\ UNCHANGED <<leader, hashed>> /\ pc[t] = "adopt"
        /\ \/ UNCHANGED <<parent, status>>
           \/ /\ parent' = [u \in Tasks |-> IF u \in Threads(p) \ traced THEN r ELSE parent[u]]
              /\ IF Mourns(t, p) THEN NotifyParent(p, r) /\ Claim(t, p, Ignores(r))
                 ELSE UNCHANGED status
    BY <2>0, <1>8 DEF Adopt, Reparented, groups
  <2>2. p \in hashed /\ p \in Tasks /\ realParent[p] = t /\ leader[p] = p /\ r \in Tasks
    BY <2>0, <2>1 DEF IInv, Control, Orphans, Cursors, Seeks
  <2>3. CASE UNCHANGED <<parent, status>>
    BY <1>q, <1>a, <2>1, <2>3 DEF status, Lone
  <2>4. CASE ~UNCHANGED <<parent, status>>
    <3>1. /\ UNCHANGED exitState \/ exitState' = [exitState EXCEPT ![p] = "dead"]
          /\ IF Mourns(t, p) THEN told' = [told EXCEPT ![p] = leader[r]] ELSE UNCHANGED told
      BY <2>1, <2>4 DEF NotifyParent, Claim, status
    <3>2. /\ \A x \in hashed : leader[x] = x /\ x # p => parent'[x] = parent[x]
          /\ parent'[p] = IF p \in traced THEN parent[p] ELSE r
      BY <1>0, <2>1, <2>2, <2>4 DEF Threads
    <3>3. Mourns(t, p) <=> /\ leader[r] # leader[t]
                           /\ p \notin traced /\ exitState[p] = "zombie" /\ Alone(p)
      BY <2>0 DEF Mourns, SameGroup
    <3>4. p \in traced \/ parent[p] = t
      BY <2>2 DEF IInv, TraceesExact
    <3>5. ASSUME NEW x \in hashed, Lone(x)', x # p
          PROVE  Lone(x) /\ told'[x] = told[x] /\ parent'[x] = parent[x]
      BY <1>0, <1>a, <2>1, <3>1, <3>2, <3>5 DEF Lone
    <3>6. ASSUME Lone(p)' PROVE told'[p] = leader[parent'[p]]
      <4>1. leader[p] = p /\ exitState[p] = "zombie" /\ Alone(p)
        BY <1>0, <1>a, <2>1, <2>2, <3>1, <3>6 DEF Lone
      <4>2. told[p] = leader[parent[p]]
        BY <1>0, <2>2, <4>1 DEF ZombiesAnnounced
      <4>3. CASE Mourns(t, p)
        BY <1>0, <2>2, <3>1, <3>2, <3>3, <4>3
      <4>4. CASE ~Mourns(t, p)
        BY <2>2, <3>1, <3>2, <3>3, <3>4, <4>1, <4>2, <4>4
      <4> QED
        BY <4>3, <4>4
    <3> QED
      BY <1>q, <2>1, <3>5, <3>6
  <2> QED
    BY <2>3, <2>4
<1>9. ASSUME NEW t \in Tasks, ExitNotify(t) PROVE ZombiesAnnounced'
  <2>1. /\ UNCHANGED <<leader, hashed, parent>> /\ pc[t] = "notify"
        /\ told' = IF t \in traced \/ (leader[t] = t /\ Alone(t))
                   THEN [told EXCEPT ![t] = leader[parent[t]]] ELSE told
        /\ \E e \in {"zombie", "dead"} : exitState' = [exitState EXCEPT ![t] = e]
    BY <1>9 DEF ExitNotify, Moves, groups, links
  <2>2. Lone(t)' => told'[t] = leader[parent'[t]]
    BY <1>0, <1>a, <2>1 DEF Lone
  <2> QED
    BY <1>0, <1>k, <2>1, <2>2
<1>10. ASSUME NEW t \in Tasks, ReleaseTask(t) PROVE ZombiesAnnounced'
  <2> DEFINE q == cur[t]
             l == leader[q]
  <2>1. /\ UNCHANGED leader /\ pc[t] = "release" /\ hashed' = hashed \ {q}
        /\ UNCHANGED parent \/ parent' = [parent EXCEPT ![q] = realParent[q]]
        /\ told' = [told EXCEPT ![q] = None, ![l] = IF ZapsLeader(q) THEN leader[parent[l]] ELSE @]
        /\ UNCHANGED exitState \/ exitState' = [exitState EXCEPT ![l] = "dead"]
    BY <1>10 DEF ReleaseTask, Unlinked
  <2>2. q \in hashed /\ q \in Tasks /\ l \in Tasks
    BY <1>0, <2>1, Released
  <2> HIDE DEF q
  <2>3. ASSUME NEW x \in hashed', Lone(x)'
        PROVE  \/ told'[x] = leader[parent'[x]]
               \/ x \in hashed /\ Lone(x) /\ told'[x] = told[x] /\ parent'[x] = parent[x]
    <3>1. /\ x \in hashed /\ x # q /\ x \in Tasks /\ leader[x] = x /\ exitState[x] = "zombie"
          /\ parent'[x] = parent[x]
      BY <1>0, <2>1, <2>2, <2>3 DEF Lone
    <3>2. Threads(x)' = {x} /\ Threads(x)' = Threads(x) \ {q}
      BY <2>1, <2>3 DEF Lone, Alone, Threads
    <3>3. CASE x = l
      <4>1. q \in Threads(x)
        BY <2>2, <3>3 DEF Threads
      <4>2. Threads(x) = {q, x}
        BY <3>2, <4>1
      <4>3. ZapsLeader(q)
        BY <3>1, <3>3, <4>2 DEF ZapsLeader
      <4> QED
        BY <1>0, <2>1, <3>1, <3>3, <4>3
    <3>4. CASE x # l
      <4>1. q \notin Threads(x)
        BY <3>4 DEF Threads
      <4>2. Alone(x)
        BY <3>2, <4>1 DEF Alone
      <4>3. told'[x] = told[x]
        BY <1>0, <2>1, <3>1, <3>4
      <4> QED
        BY <3>1, <4>2, <4>3 DEF Lone
    <3> QED
      BY <3>3, <3>4
  <2> QED
    BY <1>q, <2>1, <2>3
<1>11. ASSUME NEW t \in Tasks, WaitTraced(t) PROVE ZombiesAnnounced'
  <2> DEFINE p == cur[t]
  <2>1. /\ UNCHANGED <<leader, hashed>> /\ pc[t] = "trace"
        /\ IF p \in traced THEN parent' = [parent EXCEPT ![p] = realParent[p]] ELSE UNCHANGED parent
        /\ told' = [told EXCEPT ![p] = leader[realParent[p]]]
        /\ \E e \in {"zombie", "dead"} : exitState' = [exitState EXCEPT ![p] = e]
    BY <1>11 DEF WaitTraced, Moves, Unlinked, NotifyParent, groups
  <2>2. p \in Tasks /\ (p \in hashed => p \in traced \/ parent[p] = realParent[p])
    BY <2>1 DEF IInv, Control, GivenBack, TraceesExact
  <2> HIDE DEF p
  <2>3. \A x \in hashed : x # p => exitState'[x] = exitState[x] /\ told'[x] = told[x] /\ parent'[x] = parent[x]
    BY <1>0, <2>1
  <2>4. p \in hashed => told'[p] = leader[parent'[p]]
    BY <1>0, <2>1, <2>2
  <2> QED
    BY <1>k, <2>1, <2>3, <2>4
<1>12. CASE UNCHANGED <<groups, links, status>>
  BY <1>0, <1>12, <1>q DEF groups, links, status, ZombiesAnnounced, Alone, Threads, Lone
<1> QED
  BY <1>1, <1>2, <1>3, <1>4, <1>5, <1>6, <1>7, <1>8, <1>9, <1>10, <1>11, <1>12, Frames
     DEF ChangesGroups, ChangesLinks, ChangesStatus

LEMMA InvInit == Init => IInv
<1> SUFFICES ASSUME Init PROVE IInv
  OBVIOUS
<1>1. /\ InitProcess \in Born /\ Born \subseteq Tasks /\ None \notin Tasks
      /\ Leader0 \in [Born -> Born] /\ Parent0 \in [Born -> Born \cup {None}]
      /\ Home0 \in [Born -> Nodes] /\ Leader0[InitProcess] = InitProcess
      /\ \A t \in Born :
           /\ Leader0[Leader0[t]] = Leader0[t] /\ Parent0[Leader0[t]] = Parent0[t]
           /\ Parent0[t] = None <=> Leader0[t] = InitProcess
  BY DEF TaskTreeAssumption
<1> HIDE TaskTreeAssumption
<1>2. /\ hashed = Born /\ exiting = {} /\ traced = {} /\ childReaper = InitProcess
      /\ leader \in [Tasks -> Tasks] /\ realParent \in [Tasks -> Born \cup {None}]
      /\ children \in [Tasks -> SUBSET Tasks] /\ parent = realParent
      /\ \A t \in Tasks :
           /\ leader[t] = (IF t \in Born THEN Leader0[t] ELSE t)
           /\ realParent[t] = (IF t \in Born THEN Parent0[t] ELSE None)
           /\ children[t] = {c \in Born : Parent0[c] = t /\ Leader0[c] = c}
           /\ ptraced[t] = {} /\ dead[t] = {} /\ exitState[t] = "live"
           /\ pc[t] = IF t \in Born THEN "run" ELSE "none"
  BY <1>1 DEF Init
<1>3. TypeOK
  <2>1. GroupsType
    BY <1>1, <1>2 DEF Init, GroupsType
  <2>2. LinksType
    BY <1>1, <1>2 DEF Init, LinksType
  <2>3. StatusType /\ LocksType
    BY DEF Init, StatusType, LocksType
  <2>4. SubType
    BY DEF Init, SubType, NoWalk
  <2>5. ControlType
    BY DEF Init, ControlType, States
  <2> QED
    BY <1>1, <1>2, <2>1, <2>2, <2>3, <2>4, <2>5 DEF TypeOK
<1>4. Control
  <2>1. Life /\ Groups
    BY <1>1, <1>2 DEF Life, Groups, Started, Exits
  <2>2. Closed /\ Forking /\ Claims /\ Releasing /\ GivenBack /\ Locked /\ Orphans /\ Cursors
    BY <1>1, <1>2 DEF Closed, Forking, Forks, Claims, Releasing, GivenBack, Locked, Orphans,
       Cursors, Seeks
  <2>3. Reaper
    BY <1>1, <1>2 DEF Reaper, AliveThreads, Threads
  <2> QED
    BY <2>1, <2>2, <2>3 DEF Control
<1>5. Parented /\ Newborn
  BY <1>1, <1>2 DEF Parented, Newborn, Started
<1>6. ChildrenExact
  BY <1>1, <1>2 DEF ChildrenExact
<1>7. TraceesExact
  BY <1>1, <1>2 DEF TraceesExact
<1>8. Behind /\ ZombiesAnnounced
  BY <1>1, <1>2 DEF Behind, Done, Past, ZombiesAnnounced
<1> QED
  BY <1>3, <1>4, <1>5, <1>6, <1>7, <1>8 DEF IInv

LEMMA InvStep == IInv /\ [Next]_vars => IInv'
<1> SUFFICES ASSUME IInv, [Next]_vars PROVE IInv'
  OBVIOUS
<1>1. Control'
  BY LifeStep, GroupsStep, ClosedStep, ForkingStep, ClaimsStep, ReleasingStep, GivenBackStep,
     LockedStep, OrphansStep, CursorsStep, ReaperStep DEF Control
<1> QED
  BY <1>1, TypeStep, ParentedStep, NewbornStep, ChildrenStep, TraceesStep, BehindStep,
     AnnouncedStep DEF IInv

(* In every state, whoever runs next: the lists and the links agree, what  *)
(* is dead has one claimant, nobody has left children or tracees, the      *)
(* zombies are announced.                                                  *)
THEOREM Invariant == Spec => []IInv
BY InvInit, InvStep, PTL DEF Spec

(* Every task keeps a place, links, locks and a status of the right kind,  *)
(* whatever the tasks, nodes and initial tree.                             *)
THEOREM TypeCorrect == Spec => []TypeOK
<1>1. IInv => TypeOK
  BY DEF IInv
<1> QED
  BY <1>1, Invariant, PTL

(* Each process is on the children list of its threads' parent, each       *)
(* tracee on the list of its tracer, and nobody else is on any list, though *)
(* two exits, a fork and ptrace may move them at the same time.            *)
THEOREM ListsAreExact == Spec => []ListsExact
<1>1. IInv => ListsExact
  BY DEF IInv, ChildrenExact, TraceesExact, ListsExact
<1> QED
  BY <1>1, Invariant, PTL

(* Nobody is left to a parent or tracer that has looked through its lists  *)
(* for the last time.                                                      *)
THEOREM NobodyIsLeftBehind == Spec => []NobodyLeftBehind
BY LeftBehind, Invariant, PTL

(* A dead task is to be released by exactly one task: of a parent, a new   *)
(* parent, a tracer and the task itself one wins.                          *)
THEOREM ReapedByOne == Spec => []ReapedOnce
<1>1. IInv => ReapedOnce
  <2> SUFFICES ASSUME IInv, NEW p \in Tasks
               PROVE  Cardinality({t \in Tasks : p \in dead[t]}) =
                        IF exitState[p] = "dead" /\ p \in hashed THEN 1 ELSE 0
    BY DEF ReapedOnce
  <2> DEFINE C == {t \in Tasks : p \in dead[t]}
  <2>0. Claims
    BY DEF IInv, Control
  <2>1. CASE exitState[p] = "dead" /\ p \in hashed
    <3>1. PICK t \in Tasks : p \in dead[t]
      BY <2>0, <2>1 DEF Claims
    <3>2. C = {t}
      BY <2>0, <3>1 DEF Claims
    <3> HIDE DEF C
    <3>3. Cardinality(C) = 1
      BY <3>2, FS_Singleton
    <3> QED
      BY <2>1, <3>3 DEF C
  <2>2. CASE ~(exitState[p] = "dead" /\ p \in hashed)
    <3>1. C = {}
      BY <2>0, <2>2 DEF Claims
    <3> HIDE DEF C
    <3>2. Cardinality(C) = 0
      BY <3>1, FS_EmptySet
    <3> QED
      BY <2>2, <3>2 DEF C
  <2> QED
    BY <2>1, <2>2
<1> QED
  BY <1>1, Invariant, PTL

(* A zombie whose threads are gone is no news to the group that may reap   *)
(* it, whoever adopted, traced or gave it back meanwhile.                  *)
THEOREM ZombiesAreAnnounced == Spec => []ZombiesAnnounced
<1>1. IInv => ZombiesAnnounced
  BY DEF IInv
<1> QED
  BY <1>1, Invariant, PTL

(* What a walk, a call to set the flag and a search go on from. *)
Walkers ==
  /\ \/ UNCHANGED walk /\ \A x \in Tasks : pc'[x] = "visit" <=> pc[x] = "visit"
     \/ \E t \in Tasks : WalkBegin(t) \/ (\E g \in Tasks : WalkVisit(t, g)) \/ WalkEnd(t)
  /\ \A x \in Tasks :
       /\ pc[x] = "walk" => pc'[x] = "walk" \/ WalkBegin(x)
       /\ pc'[x] \in {"hop", "adopt"} =>
            \/ pc'[x] = pc[x] /\ cursor'[x] = cursor[x]
            \/ FindThread(x) \/ Hop(x)
  /\ hasSub \subseteq hasSub'
LEMMA WalkersStep == IInv /\ [Next]_vars => Walkers
<1> SUFFICES ASSUME IInv, [Next]_vars PROVE Walkers
  OBVIOUS
<1>0. pc \in [Tasks -> States] /\ cursor \in [Tasks -> Tasks \cup {None}]
  BY DEF IInv, TypeOK, ControlType
<1>1. ASSUME NEW t \in Tasks, NEW n \in Tasks, NEW nid \in Nodes, NEW thread \in BOOLEAN,
             ForkLock(t, n, nid, thread)
      PROVE  Walkers
  BY <1>0, <1>1 DEF Walkers, Goto, Moves, ForkLock, Idle, sub
<1>2. ASSUME NEW t \in Tasks,
             Exit(t) \/ SetSubreaper(t) \/ ClearSubreaper(t)
      PROVE  Walkers
  BY <1>0, <1>2 DEF Walkers, Goto, Moves, Exit, SetSubreaper, ClearSubreaper, Idle, control, sub
<1>3. ASSUME NEW t \in Tasks, NEW q \in Tasks, Wait(t, q) PROVE Walkers
  BY <1>0, <1>3 DEF Walkers, Goto, Moves, Wait, Idle, sub
<1>4. ASSUME NEW t \in Tasks, NEW q \in Tasks,
             PtraceAttach(t, q) \/ PtraceDetach(t, q)
      PROVE  Walkers
  BY <1>0, <1>4 DEF Walkers, Goto, Moves, PtraceAttach, PtraceDetach, control, sub
<1>5. ASSUME NEW t \in Tasks, NEW sibling \in BOOLEAN, NEW auto \in BOOLEAN,
             ForkState(t, sibling, auto)
      PROVE  Walkers
  BY <1>0, <1>5 DEF Walkers, Goto, Moves, ForkState, sub
<1>6. ASSUME NEW t \in Tasks, ForkPublish(t) PROVE Walkers
  <2>1. /\ pc' = [pc EXCEPT ![t] = "run", ![cur[t]] = "run"] /\ UNCHANGED <<walk, cursor>>
        /\ pc[t] = "publish" /\ hasSub \subseteq hasSub'
    BY <1>6 DEF ForkPublish, sub
  <2>2. pc[cur[t]] = "born"
    BY <2>1, Forked DEF Forks
  <2> QED
    BY <1>0, <2>1, <2>2 DEF Walkers
<1>7. ASSUME NEW t \in Tasks,
             ExitLock(t) \/ TakeTracee(t) \/ FindChildReaper(t) \/ ExitState(t)
      PROVE  Walkers
  BY <1>0, <1>7 DEF Walkers, Goto, Moves, ExitLock, TakeTracee, FindChildReaper, ExitState, sub
<1>8. ASSUME NEW t \in Tasks,
             TakeChild(t) \/ LockChild(t)
      PROVE  Walkers
  BY <1>0, <1>8 DEF Walkers, Goto, Moves, TakeChild, LockChild, sub
<1>9. ASSUME NEW t \in Tasks, FindThread(t) PROVE Walkers
  <2>1. UNCHANGED <<walk, hasSub>>
        /\ \E to \in {"hop", "adopt"} : \E r : pc' = [pc EXCEPT ![t] = to] /\ cursor' = [cursor EXCEPT ![t] = r]
    BY <1>9 DEF FindThread, Goto, sub
  <2>2. pc[t] \in {"find", "hop"}
    BY <1>9 DEF FindThread
  <2> QED
    BY <1>0, <2>1, <2>2, <1>9 DEF Walkers
<1>10. ASSUME NEW t \in Tasks, Hop(t) PROVE Walkers
  <2>1. UNCHANGED <<walk, hasSub>> /\ pc[t] = "hop"
    BY <1>10 DEF Hop, sub
  <2>2. \A x \in Tasks : x # t => pc'[x] = pc[x]
    BY <1>0, <1>10 DEF Hop, Goto
  <2>3. \A x \in Tasks : x # t => cursor'[x] = cursor[x]
    BY <1>0, <1>10 DEF Hop
  <2>4. pc'[t] \in {"hop", "adopt"}
    BY <1>0, <1>10 DEF Hop, Goto
  <2> QED
    BY <2>1, <2>2, <2>3, <2>4, <1>10 DEF Walkers
<1>11. ASSUME NEW t \in Tasks,
              ReleaseLock(t) \/ DropTracee(t) \/ WaitTraced(t)
       PROVE  Walkers
  BY <1>0, <1>11 DEF Walkers, Goto, Moves, ReleaseLock, DropTracee, WaitTraced, sub
<1>12. ASSUME NEW t \in Tasks,
              Adopt(t) \/ ExitNotify(t) \/ ReleaseTask(t)
       PROVE  Walkers
  BY <1>0, <1>12 DEF Walkers, Goto, Moves, Adopt, ExitNotify, ReleaseTask, sub
<1>13. ASSUME NEW t \in Tasks,
              WalkBegin(t) \/ WalkEnd(t)
       PROVE  Walkers
  BY <1>0, <1>13 DEF Walkers, Goto, Moves, WalkBegin, WalkEnd
<1>14. ASSUME NEW t \in Tasks, NEW g \in Tasks, WalkVisit(t, g) PROVE Walkers
  BY <1>0, <1>14 DEF Walkers, Goto, Moves, WalkVisit, control
<1>15. CASE UNCHANGED vars
  BY <1>0, <1>15 DEF vars, control, sub, Walkers
<1>16. ASSUME NEW t \in Tasks, Start(t) PROVE Walkers
  <2>1. CASE \E n \in Tasks, nid \in Nodes, thread \in BOOLEAN : ForkLock(t, n, nid, thread)
    BY <2>1, <1>1
  <2>2. CASE \E q \in Tasks : Wait(t, q) \/ PtraceAttach(t, q) \/ PtraceDetach(t, q)
    BY <2>2, <1>3, <1>4
  <2>3. CASE Exit(t) \/ SetSubreaper(t) \/ ClearSubreaper(t)
    BY <2>3, <1>2
  <2> QED
    BY <1>16, <2>1, <2>2, <2>3 DEF Start
<1>17. ASSUME NEW t \in Tasks, Proceed(t) PROVE Walkers
  <2>1. CASE \E sibling, auto \in BOOLEAN : ForkState(t, sibling, auto)
    BY <2>1, <1>5
  <2>2. CASE \E g \in Tasks : WalkVisit(t, g)
    BY <2>2, <1>14
  <2>3. CASE ForkPublish(t) \/ ExitLock(t) \/ TakeTracee(t) \/ FindChildReaper(t) \/
          ExitState(t) \/ TakeChild(t) \/ LockChild(t) \/ FindThread(t) \/ Hop(t) \/
          ReleaseLock(t) \/ DropTracee(t) \/ Adopt(t) \/ ExitNotify(t) \/ ReleaseTask(t) \/
          WaitTraced(t) \/ WalkBegin(t) \/ WalkEnd(t)
    BY <2>3, <1>6, <1>7, <1>8, <1>9, <1>10, <1>11, <1>12, <1>13
  <2> QED
    BY <1>17, <2>1, <2>2, <2>3 DEF Proceed
<1> QED
  BY <1>15, <1>16, <1>17 DEF Next

(* A task that has been started keeps its group; only a fork adds tasks. *)
GroupsKept ==
  /\ \A x \in Tasks : Started(x) => leader'[x] = leader[x]
  /\ \A x \in hashed' : x \in hashed \/ \E u \in Tasks : ForkPublish(u) /\ x = cur[u]
LEMMA GroupsStay == IInv /\ [Next]_vars => GroupsKept
<1> SUFFICES ASSUME IInv, [Next]_vars PROVE GroupsKept
  OBVIOUS
<1>0. pc \in [Tasks -> States] /\ leader \in [Tasks -> Tasks] /\ hashed \subseteq Tasks
  BY DEF IInv, TypeOK, ControlType, GroupsType
<1>1. ASSUME NEW t \in Tasks, NEW n \in Tasks, NEW nid \in Nodes, NEW thread \in BOOLEAN,
             ForkLock(t, n, nid, thread)
      PROVE  GroupsKept
  BY <1>0, <1>1 DEF ForkLock, Started, GroupsKept
<1>2. ASSUME NEW t \in Tasks, ForkPublish(t) PROVE GroupsKept
  BY <1>0, <1>2 DEF ForkPublish, GroupsKept
<1>3. ASSUME NEW t \in Tasks, ReleaseTask(t) PROVE GroupsKept
  BY <1>0, <1>3 DEF ReleaseTask, GroupsKept
<1>4. CASE UNCHANGED groups
  BY <1>4 DEF groups, GroupsKept
<1> QED
  BY <1>1, <1>2, <1>3, <1>4, Frames
     DEF ChangesGroups

(* A group without live threads gets none. *)
LEMMA DeadStays ==
  IInv /\ [Next]_vars =>
    \A t \in Tasks : Started(t) /\ AliveThreads(t) = {} => AliveThreads(t)' = {}
<1> SUFFICES ASSUME IInv, [Next]_vars, NEW t \in Tasks, Started(t), AliveThreads(t) = {},
                    NEW z \in AliveThreads(t)'
             PROVE  FALSE
  OBVIOUS
<1>1. z \in hashed' /\ leader'[z] = leader'[t] /\ z \notin exiting'
  BY DEF AliveThreads, Threads
<1>2. leader'[t] = leader[t] /\ exiting \subseteq exiting'
  <2>1. ChangesExiting => exiting \subseteq exiting'
    BY DEF ChangesExiting, Exit
  <2> QED
    BY <2>1, GroupsStay, Frames DEF GroupsKept
<1>3. CASE z \in hashed
  <2>1. Started(z) /\ z \in Tasks
    BY <1>3 DEF IInv, Control, Life, TypeOK, GroupsType
  <2>2. leader'[z] = leader[z]
    BY <2>1, GroupsStay DEF GroupsKept
  <2> QED
    BY <1>1, <1>2, <1>3, <2>2 DEF AliveThreads, Threads
<1>4. CASE z \notin hashed
  <2>1. PICK u \in Tasks : ForkPublish(u) /\ z = cur[u]
    BY <1>1, <1>4, GroupsStay DEF GroupsKept
  <2>2. pc[u] = "publish" /\ UNCHANGED leader
    BY <2>1 DEF ForkPublish
  <2>3. z \in Tasks /\ ~Started(z) /\ leader[z] \in {z, leader[u]} /\ u \in hashed /\ u \notin exiting
    BY <2>1, <2>2, Forked DEF Forks
  <2>4. leader[t] # z
    BY <2>3 DEF IInv, Control, Groups
  <2> QED
    BY <1>1, <2>2, <2>3, <2>4 DEF AliveThreads, Threads
<1> QED
  BY <1>3, <1>4

(* A walk goes down from its root, and what it has done with is marked.   *)
LEMMA WalksStep == IInv /\ SubInv /\ [Next]_vars => Walks'
<1> SUFFICES ASSUME IInv, SubInv, [Next]_vars PROVE Walks'
  OBVIOUS
<1>0. /\ pc \in [Tasks -> States] /\ leader \in [Tasks -> Tasks] /\ hashed \subseteq Tasks
      /\ walk \in [by : Tasks \cup {None}, todo : SUBSET Tasks, done : SUBSET Tasks]
      /\ None \notin Tasks /\ hasSub \subseteq hasSub' /\ Walks
  BY WalkersStep DEF IInv, SubInv, TypeOK, ControlType, GroupsType, SubType, Walkers
<1>1. \A x \in Tasks : Started(x) => leader'[x] = leader[x] /\ Started(x)'
  BY Starts, GroupsStay DEF GroupsKept
<1>2. \A x \in Tasks : Started(x) /\ x \in hashed' => x \in hashed
  <2>1. ASSUME NEW u \in Tasks, ForkPublish(u) PROVE ~Started(cur[u])
    BY <2>1, Forked DEF ForkPublish, Forks
  <2> QED
    BY <2>1, GroupsStay DEF GroupsKept
<1>3. walk.by # None => walk.by \in Tasks /\ Started(walk.by)
  BY <1>0 DEF Walks, Started
<1>4. CASE UNCHANGED walk /\ \A x \in Tasks : pc'[x] = "visit" <=> pc[x] = "visit"
  BY <1>0, <1>1, <1>2, <1>3, <1>4 DEF Walks, NoWalk
<1>5. ASSUME NEW t \in Tasks, WalkBegin(t) PROVE Walks'
  <2>1. /\ pc' = [pc EXCEPT ![t] = "visit"] /\ pc[t] = "walk" /\ walk.by = None
        /\ walk'.by = t /\ walk'.todo = {leader[t]} /\ walk'.done = {}
    BY <1>5 DEF WalkBegin, Moves, Goto
  <2>2. \A x \in Tasks : pc'[x] = "visit" <=> walk'.by = x
    BY <1>0, <2>1 DEF Walks
  <2>3. Started(leader[t]) /\ leader[leader[t]] = leader[t] /\ leader[t] \in Tasks
    BY <1>0, <2>1 DEF IInv, Control, Groups, Started
  <2> QED
    BY <1>0, <1>1, <2>1, <2>2, <2>3 DEF Walks
<1>6. ASSUME NEW t \in Tasks, NEW g \in Tasks, WalkVisit(t, g) PROVE Walks'
  <2> DEFINE below == UNION {children[u] : u \in Threads(g)}
  <2>1. /\ UNCHANGED <<pc, leader, hashed>> /\ pc[t] = "visit" /\ g \in walk.todo
        /\ IF Descends(t, g)
           THEN /\ hasSub' = IF g = leader[t] THEN hasSub ELSE hasSub \cup {g}
                /\ walk' = [walk EXCEPT !.todo = (@ \cup (below \ walk.done)) \ {g},
                                        !.done = @ \cup {g}]
           ELSE /\ walk' = [walk EXCEPT !.todo = @ \ {g}, !.done = @ \cup {g}]
                /\ UNCHANGED hasSub
    BY <1>6 DEF WalkVisit, control, groups
  <2>2. walk.by = t
    BY <2>1, <1>0 DEF Walks
  <2>3. \A x \in below : x \in hashed /\ leader[x] = x /\ Started(x)
    <3>1. \A u \in Tasks : \A x \in children[u] : x \in hashed /\ leader[x] = x
      BY DEF IInv, ChildrenExact
    <3>2. \A x \in hashed : Started(x)
      BY <1>0 DEF IInv, Control, Life
    <3> QED
      BY <1>0, <3>1, <3>2 DEF Threads
  <2>4. g \in hashed => g \in hasSub' \cup {leader[t], InitProcess}
    BY <1>0, <2>1 DEF Descends
  <2> HIDE DEF below
  <2>w. /\ walk'.by = walk.by /\ walk'.done = walk.done \cup {g}
        /\ walk'.todo \subseteq walk.todo \cup below
    <3> DEFINE W == [by : Tasks \cup {None}, todo : SUBSET Tasks, done : SUBSET Tasks]
    <3>1. walk \in W
      BY <1>0
    <3>2. CASE walk' = [walk EXCEPT !.todo = (@ \cup (below \ walk.done)) \ {g}, !.done = @ \cup {g}]
      BY <3>1, <3>2
    <3>3. CASE walk' = [walk EXCEPT !.todo = @ \ {g}, !.done = @ \cup {g}]
      BY <3>1, <3>3
    <3> QED
      BY <2>1, <3>2, <3>3
  <2>5. \A x \in walk'.todo \cup walk'.done : Started(x) /\ leader[x] = x
    BY <1>0, <2>1, <2>3, <2>w DEF Walks
  <2>6. Started(t)
    BY <1>3, <2>2, <1>0
  <2>7. \A x \in walk'.todo \cup walk'.done : Started(x)' /\ leader'[x] = x
    BY <2>1, <2>5 DEF Started
  <2> QED
    BY <1>0, <2>1, <2>2, <2>4, <2>7, <2>w DEF Walks
<1>7. ASSUME NEW t \in Tasks, WalkEnd(t) PROVE Walks'
  <2>1. pc[t] = "visit" /\ pc' = [pc EXCEPT ![t] = "run"] /\ walk' = NoWalk
    BY <1>7 DEF WalkEnd, Moves, Goto
  <2>2. \A x \in Tasks : pc'[x] # "visit"
    BY <1>0, <2>1 DEF Walks
  <2> QED
    BY <1>0, <2>1, <2>2 DEF Walks, NoWalk
<1> QED
  BY <1>4, <1>5, <1>6, <1>7, WalkersStep DEF Walkers

(* Who asks its ancestors has has_child_subreaper and no live thread.      *)
LEMMA LeavingStep == IInv /\ SubInv /\ [Next]_vars => Leaving'
<1> SUFFICES ASSUME IInv, SubInv, [Next]_vars, NEW t \in Tasks, LeavesGroup(t)'
             PROVE  (leader[t] \in hasSub /\ AliveThreads(t) = {})'
  BY DEF Leaving
<1>0. /\ pc \in [Tasks -> States] /\ leader \in [Tasks -> Tasks] /\ hashed \subseteq Tasks
      /\ cursor \in [Tasks -> Tasks \cup {None}] /\ None \notin Tasks
      /\ hasSub \subseteq hasSub' /\ Leaving
  BY WalkersStep DEF IInv, SubInv, TypeOK, ControlType, GroupsType, Walkers
<1>1. \A x \in Tasks : Started(x) => leader'[x] = leader[x]
  BY GroupsStay DEF GroupsKept
<1>2. pc'[t] \in {"hop", "adopt"}
  BY DEF LeavesGroup
<1>3. ASSUME Started(t), leader[t] \in hasSub, AliveThreads(t) = {}
      PROVE  (leader[t] \in hasSub /\ AliveThreads(t) = {})'
  BY <1>0, <1>1, <1>3, DeadStays
<1>4. CASE pc'[t] = pc[t] /\ cursor'[t] = cursor[t]
  <2>1. Started(t) /\ (pc[t] = "adopt" => cursor[t] \in Tasks /\ Started(cursor[t]))
    BY <1>2, <1>4 DEF Started, IInv, Control, Cursors
  <2>2. LeavesGroup(t)
    BY <1>1, <1>2, <1>4, <2>1 DEF LeavesGroup
  <2> QED
    BY <1>0, <1>3, <2>1, <2>2 DEF Leaving
<1>5. CASE FindThread(t)
  <2>1. pc[t] = "find" /\ UNCHANGED leader
    BY <1>5 DEF FindThread, groups
  <2>2. ASSUME NEW r \in AliveThreads(t), cursor' = [cursor EXCEPT ![t] = r],
               pc' = [pc EXCEPT ![t] = "adopt"]
        PROVE  FALSE
    <3>1. leader'[cursor'[t]] = leader'[t] /\ pc'[t] = "adopt"
      BY <1>0, <2>1, <2>2 DEF AliveThreads, Threads
    <3> QED
      BY <3>1 DEF LeavesGroup
  <2>3. ASSUME cursor' = [cursor EXCEPT ![t] = childReaper], pc' = [pc EXCEPT ![t] = "adopt"]
        PROVE  FALSE
    <3>1. leader'[cursor'[t]] = InitProcess /\ pc'[t] = "adopt"
      BY <1>0, <2>1, <2>3 DEF IInv, Control, Reaper
    <3> QED
      BY <3>1 DEF LeavesGroup
  <2>4. AliveThreads(t) = {} /\ leader[t] \in hasSub
    BY <1>5, <2>2, <2>3 DEF FindThread, Goto
  <2> QED
    BY <1>3, <2>1, <2>4 DEF Started
<1>6. CASE Hop(t)
  <2>1. pc[t] = "hop"
    BY <1>6 DEF Hop
  <2> QED
    BY <1>0, <1>3, <2>1 DEF Leaving, LeavesGroup, Started
<1> QED
  BY <1>2, <1>4, <1>5, <1>6, WalkersStep DEF Walkers

(* A task is started by the fork that publishes it. *)
LEMMA NewTasks ==
  IInv /\ [Next]_vars =>
    \A x \in Tasks : Started(x)' => Started(x) \/ \E u \in Tasks : ForkPublish(u) /\ x = cur[u]
<1> SUFFICES ASSUME IInv, [Next]_vars, NEW x \in Tasks, Started(x)', ~Started(x)
             PROVE  \E u \in Tasks : ForkPublish(u) /\ x = cur[u]
  OBVIOUS
<1>1. x \notin hashed /\ x \notin exiting
  BY DEF IInv, Control, Life, Exits, Started
<1>2. x \notin exiting'
  <2>1. ASSUME NEW u \in Tasks, Exit(u) PROVE x \notin exiting'
    BY <1>1, <2>1 DEF Exit, Idle, Started
  <2> QED
    BY <1>1, <2>1, Frames DEF ChangesExiting
<1>3. x \in hashed'
  BY <1>2, LifeStep DEF Life
<1> QED
  BY <1>1, <1>3, GroupsStay DEF GroupsKept

(* The parent of a task that has been started changes when it is adopted.  *)
ParentsKept ==
  \A x \in Tasks : Started(x) =>
    \/ realParent'[x] = realParent[x]
    \/ \E t \in Tasks : pc[t] = "adopt" /\ leader[x] = cur[t] /\ realParent'[x] = cursor[t]
LEMMA ParentsStay == IInv /\ [Next]_vars => ParentsKept
<1> SUFFICES ASSUME IInv, [Next]_vars PROVE ParentsKept
  OBVIOUS
<1>0. /\ pc \in [Tasks -> States] /\ leader \in [Tasks -> Tasks] /\ hashed \subseteq Tasks
      /\ realParent \in [Tasks -> Tasks \cup {None}]
  BY DEF IInv, TypeOK, ControlType, GroupsType, LinksType
<1>1. ASSUME NEW t \in Tasks, NEW q \in Tasks,
             PtraceAttach(t, q) \/ PtraceDetach(t, q)
      PROVE  ParentsKept
  BY <1>1 DEF PtraceAttach, PtraceDetach, ParentsKept
<1>2. ASSUME NEW t \in Tasks, NEW sibling \in BOOLEAN, NEW auto \in BOOLEAN,
             ForkState(t, sibling, auto)
      PROVE  ParentsKept
  <2>1. pc[t] = "fork" /\ \E p : realParent' = [realParent EXCEPT ![cur[t]] = p]
    BY <1>2 DEF ForkState, Moves
  <2>2. ~Started(cur[t])
    BY <2>1, Forked DEF Forks
  <2> QED
    BY <1>0, <2>1, <2>2 DEF ParentsKept
<1>3. ASSUME NEW t \in Tasks,
             ForkPublish(t) \/ DropTracee(t)
      PROVE  ParentsKept
  BY <1>3 DEF ForkPublish, DropTracee, ParentsKept
<1>4. ASSUME NEW t \in Tasks, Adopt(t) PROVE ParentsKept
  <2>1. /\ pc[t] = "adopt"
        /\ \/ UNCHANGED realParent
           \/ realParent' = [u \in Tasks |-> IF u \in Threads(cur[t]) THEN cursor[t] ELSE realParent[u]]
    BY <1>4 DEF Adopt, Reparented
  <2> QED
    BY <1>0, <2>1 DEF ParentsKept, Threads
<1>5. ASSUME NEW t \in Tasks,
             ReleaseTask(t) \/ WaitTraced(t)
      PROVE  ParentsKept
  BY <1>5 DEF ReleaseTask, WaitTraced, ParentsKept
<1>6. CASE UNCHANGED links
  BY <1>6 DEF links, ParentsKept
<1> QED
  BY <1>1, <1>2, <1>3, <1>4, <1>5, <1>6, Frames
     DEF ChangesLinks

(* Whoever adopts is no younger than who dies, so ancestors stay older.    *)
LEMMA AgedStep == IInv /\ SubInv /\ [Next]_vars => Aged'
<1> SUFFICES ASSUME IInv, SubInv, [Next]_vars PROVE Aged'
  OBVIOUS
<1>0. /\ pc \in [Tasks -> States] /\ leader \in [Tasks -> Tasks] /\ hashed \subseteq Tasks
      /\ cursor \in [Tasks -> Tasks \cup {None}] /\ realParent \in [Tasks -> Tasks \cup {None}]
      /\ walk \in [by : Tasks \cup {None}, todo : SUBSET Tasks, done : SUBSET Tasks]
      /\ children \in [Tasks -> SUBSET Tasks] /\ None \notin Tasks /\ childReaper \in Tasks
  BY DEF IInv, TypeOK, ControlType, GroupsType, LinksType, SubType
<1>1. PICK old \in [Tasks -> Nat] : Ages(old)
  BY DEF SubInv, Aged
(* A new process is younger than the group that forks it. *)
<1>2. PICK age \in [Tasks -> Nat] :
        /\ \A k \in Tasks : Started(k) => age[k] = old[k]
        /\ \A u \in Tasks : pc[u] = "publish" => age[cur[u]] = old[leader[u]] + 1
  <2> DEFINE P(k) == {u \in Tasks : pc[u] = "publish" /\ cur[u] = k}
             f == [k \in Tasks |-> IF P(k) = {} THEN old[k]
                                   ELSE old[leader[CHOOSE u \in P(k) : TRUE]] + 1]
  <2>1. f \in [Tasks -> Nat]
    BY <1>0
  <2>2. ASSUME NEW k \in Tasks, Started(k) PROVE f[k] = old[k]
    <3>1. P(k) = {}
      BY <2>2, Forked DEF Forks
    <3> QED
      BY <3>1
  <2>3. ASSUME NEW u \in Tasks, pc[u] = "publish" PROVE f[cur[u]] = old[leader[u]] + 1
    <3>1. cur[u] \in Tasks
      BY <2>3, Forked DEF Forks
    <3>2. P(cur[u]) = {u}
      BY <2>3 DEF IInv, Control, Forking, Forks
    <3>3. (CHOOSE z \in P(cur[u]) : TRUE) = u
      BY <3>2
    <3> QED
      BY <3>1, <3>2, <3>3
  <2> QED
    BY <2>1, <2>2, <2>3
<1>3. \A x \in Tasks : Started(x) => leader'[x] = leader[x]
  BY GroupsStay DEF GroupsKept
<1>4. \A x \in Tasks : Started(x) => leader[x] \in Tasks /\ Started(leader[x]) /\ Started(x)'
  BY <1>0, Starts DEF IInv, Control, Groups
<1>5. \A x \in Tasks : Started(x) => age[leader[x]] = old[leader[x]] /\ age[leader[x]] \in Nat
  BY <1>2, <1>4
<1>6. \A x \in Tasks : Started(x) /\ realParent[x] # None =>
        realParent[x] \in Tasks /\ Started(realParent[x])
        /\ age[leader[realParent[x]]] < age[leader[x]]
  BY <1>0, <1>1, <1>5 DEF Ages, IInv, Parented
<1>7. \A t \in Tasks : pc[t] \in {"hop", "adopt"} /\ cursor[t] # None =>
        cursor[t] \in Tasks /\ Started(cursor[t]) /\ age[leader[cursor[t]]] <= age[leader[t]]
  <2>1. \A t \in Tasks : pc[t] \in {"hop", "adopt"} /\ cursor[t] # None =>
          cursor[t] \in Tasks /\ Started(cursor[t]) /\ Started(t)
    BY <1>0 DEF IInv, Control, Cursors, Started
  <2> QED
    BY <1>1, <1>5, <2>1 DEF Ages
<1>8. age[InitProcess] = 0
  <2>1. InitProcess \in Tasks /\ Started(InitProcess)
    BY <1>0 DEF IInv, Control, Reaper, Life
  <2> QED
    BY <1>1, <1>2, <2>1 DEF Ages
<1>9. \A x \in hashed : x \in Tasks /\ Started(x)
  BY <1>0 DEF IInv, Control, Life
<1>10. ASSUME NEW x \in Tasks, Started(x)', realParent'[x] # None
       PROVE  age[leader'[realParent'[x]]] < age[leader'[x]]
  <2>1. CASE Started(x) /\ realParent'[x] = realParent[x]
    BY <1>3, <1>6, <1>10, <2>1
  <2>2. CASE Started(x) /\ realParent'[x] # realParent[x]
    <3>1. PICK t \in Tasks : pc[t] = "adopt" /\ leader[x] = cur[t] /\ realParent'[x] = cursor[t]
      BY <2>2, ParentsStay DEF ParentsKept
    <3>2. cursor[t] \in Tasks /\ Started(cursor[t]) /\ age[leader[cursor[t]]] <= age[leader[t]]
      BY <1>0, <1>7, <3>1 DEF IInv, Control, Cursors
    <3>3. cur[t] \in Tasks /\ Started(cur[t]) /\ realParent[cur[t]] = t /\ leader[cur[t]] = cur[t]
      BY <3>1 DEF IInv, Control, Orphans, Seeks
    <3>4. age[leader[t]] < age[leader[x]]
      BY <1>0, <1>6, <3>1, <3>3
    <3>5. Started(t)
      BY <3>1 DEF Started
    <3> QED
      BY <1>2, <1>3, <1>4, <2>2, <3>1, <3>2, <3>4, <3>5
  <2>3. CASE ~Started(x)
    <3>1. PICK u \in Tasks : ForkPublish(u) /\ x = cur[u]
      BY <1>10, <2>3, NewTasks
    <3>2. pc[u] = "publish" /\ UNCHANGED <<leader, realParent>>
      BY <3>1 DEF ForkPublish
    <3>3. Started(u) /\ leader[x] \in {x, leader[u]}
      BY <3>1, <3>2, Forked DEF Forks, Started
    <3>4. realParent[x] \in {u, realParent[u]} /\ (leader[x] # x => realParent[x] = realParent[u])
      BY <3>1, <3>2 DEF IInv, Newborn
    <3>5. age[leader[realParent[x]]] <= age[leader[u]]
          /\ (leader[x] # x => age[leader[realParent[x]]] < age[leader[u]])
      BY <1>2, <1>4, <1>5, <1>6, <1>10, <3>2, <3>3, <3>4
    <3>6. age[x] = age[leader[u]] + 1
      BY <1>2, <1>5, <3>1, <3>2, <3>3
    <3>7. age[leader[u]] \in Nat /\ age[leader[realParent[x]]] \in Nat
      BY <1>4, <1>5, <1>6, <1>10, <3>2, <3>3, <3>4
    <3> QED
      BY <3>2, <3>3, <3>5, <3>6, <3>7
  <2> QED
    BY <2>1, <2>2, <2>3
<1>11. ASSUME NEW t \in Tasks, pc'[t] \in {"hop", "adopt"}, cursor'[t] # None
       PROVE  age[leader'[cursor'[t]]] <= age[leader'[t]]
  <2>1. CASE pc'[t] = pc[t] /\ cursor'[t] = cursor[t]
    BY <1>3, <1>7, <1>11, <2>1 DEF Started
  <2>2. ASSUME pc[t] \in {"find", "hop"}, NEW r \in Tasks, cursor'[t] = r, Started(r),
               age[leader[r]] <= age[leader[t]]
        PROVE  age[leader'[cursor'[t]]] <= age[leader'[t]]
    BY <1>3, <2>2 DEF Started
  <2>3. childReaper \in Tasks /\ Started(childReaper) /\ age[leader[childReaper]] = 0
    BY <1>0, <1>8, <1>9 DEF IInv, Control, Reaper
  <2>4. CASE FindThread(t)
    <3>1. pc[t] = "find" /\ Started(t)
      BY <2>4 DEF FindThread, Started
    <3>2. \/ \E r \in AliveThreads(t) : cursor'[t] = r
          \/ cursor'[t] \in {realParent[t], childReaper}
      BY <1>0, <2>4 DEF FindThread
    <3>3. \A r \in AliveThreads(t) : r \in Tasks /\ Started(r) /\ leader[r] = leader[t]
      BY <1>9 DEF AliveThreads, Threads
    <3>4. age[leader[t]] \in Nat
      BY <1>5, <3>1
    <3>5. CASE \E r \in AliveThreads(t) : cursor'[t] = r
      BY <2>2, <3>1, <3>3, <3>4, <3>5
    <3>6. CASE cursor'[t] = realParent[t]
      <4>1. age[leader[realParent[t]]] < age[leader[t]] /\ realParent[t] \in Tasks
            /\ Started(realParent[t])
        BY <1>6, <1>11, <3>1, <3>6
      <4>2. age[leader[realParent[t]]] \in Nat
        BY <1>5, <4>1
      <4> QED
        BY <2>2, <3>1, <3>4, <3>6, <4>1, <4>2
    <3>7. CASE cursor'[t] = childReaper
      BY <2>2, <2>3, <3>1, <3>4, <3>7
    <3> QED
      BY <3>2, <3>5, <3>6, <3>7
  <2>5. CASE Hop(t)
    <3> DEFINE r == cursor[t]
    <3>1. pc[t] = "hop" /\ Started(t)
      BY <2>5 DEF Hop, Started
    <3>2. \/ cursor'[t] = childReaper
          \/ r # None /\ \E u \in AliveThreads(r) : cursor'[t] = u
          \/ r # None /\ cursor'[t] = realParent[r]
      BY <1>0, <2>5 DEF Hop
    <3>3. age[leader[t]] \in Nat
      BY <1>5, <3>1
    <3>4. r # None => r \in Tasks /\ Started(r) /\ age[leader[r]] <= age[leader[t]] /\ age[leader[r]] \in Nat
      BY <1>5, <1>7, <3>1
    <3>5. CASE cursor'[t] = childReaper
      BY <2>2, <2>3, <3>1, <3>3, <3>5
    <3>6. CASE r # None /\ \E u \in AliveThreads(r) : cursor'[t] = u
      <4>1. \A u \in AliveThreads(r) : u \in Tasks /\ Started(u) /\ leader[u] = leader[r]
        BY <1>9 DEF AliveThreads, Threads
      <4> QED
        BY <2>2, <3>1, <3>4, <3>6, <4>1
    <3>7. CASE r # None /\ cursor'[t] = realParent[r]
      <4>1. age[leader[realParent[r]]] < age[leader[r]] /\ realParent[r] \in Tasks
            /\ Started(realParent[r])
        BY <1>6, <1>11, <3>4, <3>7
      <4>2. age[leader[realParent[r]]] \in Nat
        BY <1>5, <4>1
      <4>3. age[leader[realParent[r]]] <= age[leader[t]]
        BY <3>3, <3>4, <3>7, <4>1, <4>2
      <4> QED
        BY <2>2, <3>1, <3>7, <4>1, <4>3
    <3> QED
      BY <3>2, <3>5, <3>6, <3>7
  <2> QED
    BY <1>11, <2>1, <2>4, <2>5, WalkersStep DEF Walkers
<1>12. ASSUME walk'.by # None, NEW g \in walk'.todo \cup walk'.done
       PROVE  g = leader'[walk'.by] \/ age[leader'[walk'.by]] < age[g]
  <2>1. walk.by # None => walk.by \in Tasks /\ Started(walk.by)
    BY <1>0 DEF SubInv, Walks, Started
  <2>2. ASSUME walk.by # None, NEW k \in walk.todo \cup walk.done
        PROVE  k = leader[walk.by] \/ age[leader[walk.by]] < age[k]
    <3>1. k \in Tasks /\ Started(k)
      BY <1>0, <2>2 DEF SubInv, Walks
    <3> QED
      BY <1>1, <1>2, <1>5, <2>1, <2>2, <3>1 DEF Ages
  <2>3. CASE UNCHANGED walk
    BY <1>3, <1>12, <2>1, <2>2, <2>3
  <2>4. ASSUME NEW t \in Tasks, WalkBegin(t) PROVE g = leader'[walk'.by]
    BY <1>12, <2>4 DEF WalkBegin, groups
  <2>5. ASSUME NEW t \in Tasks, NEW k \in Tasks, WalkVisit(t, k)
        PROVE  g = leader'[walk'.by] \/ age[leader'[walk'.by]] < age[g]
    <3> DEFINE below == UNION {children[u] : u \in Threads(k)}
    <3>1. UNCHANGED leader /\ k \in walk.todo
          /\ \/ walk' = [walk EXCEPT !.todo = (@ \cup (below \ walk.done)) \ {k}, !.done = @ \cup {k}]
             \/ walk' = [walk EXCEPT !.todo = @ \ {k}, !.done = @ \cup {k}]
      BY <2>5 DEF WalkVisit, groups
    <3>2. \A x \in below : x \in Tasks /\ Started(x) /\ leader[x] = x /\ age[k] < age[x]
      <4>1. ASSUME NEW u \in Threads(k), NEW x \in children[u]
            PROVE  x \in Tasks /\ Started(x) /\ leader[x] = x /\ age[k] < age[x]
        <5>1. u \in Tasks /\ leader[u] = k
          BY <1>0 DEF Threads
        <5>2. x \in hashed /\ leader[x] = x /\ realParent[x] = u
          BY <5>1 DEF IInv, ChildrenExact
        <5> QED
          BY <1>0, <1>6, <1>9, <5>1, <5>2
      <4> QED
        BY <4>1
    <3>3. walk'.by = walk.by /\ (g \in walk.todo \cup walk.done \/ g \in below)
      <4> HIDE DEF below
      <4>1. CASE walk' = [walk EXCEPT !.todo = (@ \cup (below \ walk.done)) \ {k}, !.done = @ \cup {k}]
        BY <1>0, <3>1, <4>1, <1>12
      <4>2. CASE walk' = [walk EXCEPT !.todo = @ \ {k}, !.done = @ \cup {k}]
        BY <1>0, <3>1, <4>2, <1>12
      <4> QED
        BY <3>1, <4>1, <4>2
    <3>4. k = leader[walk.by] \/ age[leader[walk.by]] < age[k]
      BY <1>12, <2>2, <3>1, <3>3
    <3>5. leader[walk.by] \in Tasks
      BY <1>0, <1>12, <2>1, <3>3
    <3> HIDE DEF below
    <3> QED
      BY <1>2, <1>12, <2>2, <3>1, <3>2, <3>3, <3>4, <3>5
  <2>6. ASSUME NEW t \in Tasks, WalkEnd(t) PROVE FALSE
    BY <1>12, <2>6 DEF WalkEnd, NoWalk
  <2> QED
    BY <2>3, <2>4, <2>5, <2>6, WalkersStep DEF Walkers
<1> QED
  BY <1>8, <1>10, <1>11, <1>12 DEF Aged, Ages

(* p has to be marked because its parent's group g has one of the flags.   *)
Needs(p, g) ==
  /\ p \in hashed /\ leader[p] = p /\ p # InitProcess /\ p \notin hasSub
  /\ g = leader[realParent[p]] /\ g # InitProcess /\ g \in hasSub \cup isSub

(* A group that has a flag, or gets it, has its children marked or in the queue. *)
LEMMA MarkedStep == IInv /\ SubInv /\ [Next]_vars => Marked'
<1> SUFFICES ASSUME IInv /\ SubInv, [Next]_vars PROVE Marked'
  OBVIOUS
<1>0. /\ pc \in [Tasks -> States] /\ leader \in [Tasks -> Tasks] /\ hashed \subseteq Tasks
      /\ realParent \in [Tasks -> Tasks \cup {None}] /\ None \notin Tasks
      /\ walk \in [by : Tasks \cup {None}, todo : SUBSET Tasks, done : SUBSET Tasks]
      /\ children \in [Tasks -> SUBSET Tasks] /\ InitProcess \in Tasks
      /\ hasSub \subseteq hasSub' /\ Walks
  BY WalkersStep DEF IInv, SubInv, TypeOK, ControlType, GroupsType, LinksType, SubType, Walkers,
     TaskTreeAssumption
<1>a. \A x \in hashed : x \in Tasks /\ Started(x) /\ leader[x] \in hashed
  BY <1>0 DEF IInv, Control, Life, Groups
<1>b. \A x \in Tasks : Started(x) => leader'[x] = leader[x]
  BY GroupsStay DEF GroupsKept
<1>c. \A x \in hashed : leader[x] # InitProcess => realParent[x] \in Tasks /\ Started(realParent[x])
  BY <1>0 DEF IInv, Parented
<1>d. walk.by # None => walk.by \in hashed /\ Started(walk.by) /\ walk.by \notin exiting
  BY <1>0 DEF Walks, IInv, Control, Life, Exits, Started
<1>e. \A x, k : Needs(x, k) => ToBeMarked(x, k)
  BY DEF SubInv, Marked, Needs
<1> SUFFICES ASSUME NEW p, NEW g, Needs(p, g)'
             PROVE  ToBeMarked(p, g)'
  BY DEF Marked, Needs, ToBeMarked
<1>n. /\ p \in hashed' /\ leader'[p] = p /\ p # InitProcess /\ p \notin hasSub' /\ p \notin hasSub
      /\ g = leader'[realParent'[p]] /\ g # InitProcess /\ g \in hasSub' \cup isSub'
  BY <1>0 DEF Needs
<1>f. UNCHANGED walk => \A x \in Tasks : pc[x] = "walk" => pc'[x] = "walk"
  <2>1. \A x \in Tasks : WalkBegin(x) => walk' # walk
    BY <1>0 DEF WalkBegin
  <2> QED
    BY <2>1, WalkersStep DEF Walkers
(* Who is to be marked stays so unless the walk goes on. *)
<1>s. ASSUME UNCHANGED walk, ToBeMarked(p, g) PROVE ToBeMarked(p, g)'
  <2>1. \A u \in Tasks : pc[u] = "walk" => leader'[u] = leader[u] /\ pc'[u] = "walk"
    BY <1>b, <1>f, <1>s DEF Started
  <2> QED
    BY <1>a, <1>b, <1>d, <1>s, <2>1 DEF ToBeMarked
<1>h. ASSUME p \in hashed, realParent'[p] = realParent[p], g \in hasSub \cup isSub PROVE Needs(p, g)
  <2>1. leader[p] = p
    BY <1>a, <1>b, <1>h, <1>n
  <2>2. g = leader[realParent[p]]
    BY <1>b, <1>c, <1>h, <1>n, <2>1
  <2> QED
    BY <1>h, <1>n, <2>1, <2>2 DEF Needs
<1>k. ASSUME UNCHANGED <<walk, hasSub>>, hashed' \subseteq hashed, isSub' \subseteq isSub,
             \A x \in hashed : realParent'[x] = realParent[x]
      PROVE  ToBeMarked(p, g)'
  <2>1. Needs(p, g)
    BY <1>h, <1>k, <1>n
  <2> QED
    BY <1>e, <1>s, <1>k, <2>1
<1>1. ASSUME NEW t \in Tasks, NEW n \in Tasks, NEW nid \in Nodes, NEW thread \in BOOLEAN,
             ForkLock(t, n, nid, thread)
      PROVE  ToBeMarked(p, g)'
  <2>1. UNCHANGED <<walk, hasSub, isSub, realParent>> /\ hashed' \subseteq hashed
    BY <1>1 DEF ForkLock, links, sub
  <2> QED
    BY <1>k, <2>1
<1>2. ASSUME NEW t \in Tasks, ReleaseTask(t) PROVE ToBeMarked(p, g)'
  <2>1. UNCHANGED <<walk, hasSub, isSub, realParent>> /\ hashed' \subseteq hashed
    BY <1>2 DEF ReleaseTask, sub
  <2> QED
    BY <1>k, <2>1
<1>3. ASSUME NEW t \in Tasks, NEW q \in Tasks,
             PtraceAttach(t, q) \/ PtraceDetach(t, q)
      PROVE  ToBeMarked(p, g)'
  <2>1. UNCHANGED <<walk, hasSub, isSub, realParent>> /\ hashed' \subseteq hashed
    BY <1>3 DEF PtraceAttach, PtraceDetach, sub, groups
  <2> QED
    BY <1>k, <2>1
<1>4. ASSUME NEW t \in Tasks,
             DropTracee(t) \/ WaitTraced(t)
      PROVE  ToBeMarked(p, g)'
  <2>1. UNCHANGED <<walk, hasSub, isSub, realParent>> /\ hashed' \subseteq hashed
    BY <1>4 DEF DropTracee, WaitTraced, sub, groups
  <2> QED
    BY <1>k, <2>1
<1>5. ASSUME NEW t \in Tasks, NEW sibling \in BOOLEAN, NEW auto \in BOOLEAN,
             ForkState(t, sibling, auto)
      PROVE  ToBeMarked(p, g)'
  <2>1. /\ UNCHANGED <<walk, hasSub, isSub, hashed>> /\ pc[t] = "fork"
        /\ \E r : realParent' = [realParent EXCEPT ![cur[t]] = r]
    BY <1>5 DEF ForkState, Moves, sub, groups
  <2>2. cur[t] \notin hashed
    BY <2>1, Forked DEF Forks
  <2> QED
    BY <1>0, <1>k, <2>1, <2>2
<1>6. ASSUME NEW t \in Tasks, ForkPublish(t) PROVE ToBeMarked(p, g)'
  <2> DEFINE n == cur[t]
  <2>1. /\ UNCHANGED <<walk, isSub, realParent, leader>> /\ pc[t] = "publish"
        /\ hashed' = hashed \cup {n}
        /\ hasSub' = IF leader[n] = n /\ Inherits(t, n) THEN hasSub \cup {n} ELSE hasSub
    BY <1>6 DEF ForkPublish
  <2>2. ~Started(n) /\ t \in Tasks /\ Started(t) /\ t \in hashed
    BY <2>1, Forked DEF Forks, Started
  <2>3. g # n
    <3>1. realParent[p] \in Tasks /\ Started(realParent[p])
      <4>1. CASE p = n
        <5>1. realParent[n] \in {t, realParent[t]} /\ realParent[n] # None
          BY <1>n, <2>1, <4>1 DEF IInv, Newborn
        <5> QED
          BY <1>0, <2>2, <4>1, <5>1 DEF IInv, Parented
      <4>2. CASE p # n
        BY <1>c, <1>n, <2>1, <4>2
      <4> QED
        BY <4>1, <4>2
    <3>2. Started(leader[realParent[p]])
      BY <1>0, <3>1 DEF IInv, Control, Groups
    <3> QED
      BY <1>n, <2>1, <2>2, <3>2
  <2>4. g \in hasSub \cup isSub
    BY <1>n, <2>1, <2>3
  <2>5. p # n
    BY <1>n, <2>1, <2>4 DEF Inherits
  <2>6. Needs(p, g)
    BY <1>h, <1>n, <2>1, <2>4, <2>5
  <2> QED
    BY <1>e, <1>s, <2>1, <2>6
<1>7. ASSUME NEW t \in Tasks, Adopt(t) PROVE ToBeMarked(p, g)'
  <2>1. /\ UNCHANGED <<walk, hasSub, isSub, leader, hashed>> /\ pc[t] = "adopt"
        /\ \/ UNCHANGED realParent
           \/ realParent' = [u \in Tasks |-> IF u \in Threads(cur[t]) THEN cursor[t] ELSE realParent[u]]
    BY <1>7 DEF Adopt, Reparented, sub, groups
  <2>2. cur[t] \in hashed /\ realParent[cur[t]] = t /\ leader[cur[t]] = cur[t]
    BY <2>1 DEF IInv, Control, Orphans, Seeks
  <2>3. CASE realParent'[p] = realParent[p]
    BY <1>e, <1>s, <1>h, <1>n, <2>1, <2>3
  <2>4. CASE realParent'[p] # realParent[p]
    <3>1. p = cur[t] /\ realParent'[p] = cursor[t]
      BY <1>0, <1>n, <2>1, <2>4 DEF Threads
    <3>2. g = leader[cursor[t]]
      BY <1>n, <2>1, <3>1
    <3>3. CASE g = leader[t]
      <4>1. Needs(p, g)
        BY <1>n, <2>1, <2>2, <3>1, <3>3 DEF Needs
      <4> QED
        BY <1>e, <1>s, <2>1, <4>1
    <3>4. CASE g # leader[t]
      <4>1. leader[t] \in hasSub /\ AliveThreads(t) = {}
        BY <1>n, <2>1, <3>2, <3>4 DEF LeavesGroup, SubInv, Leaving
      <4>2. leader[t] # InitProcess
        BY <4>1 DEF IInv, Control, Reaper, AliveThreads
      <4>3. ToBeMarked(p, leader[t])
        BY <1>e, <1>n, <2>1, <2>2, <3>1, <4>1, <4>2 DEF Needs
      <4>4. \A u \in Tasks : pc[u] = "walk" => u \in hashed /\ u \notin exiting
        BY DEF IInv, Control, Life, Started, Exits
      <4>5. \A u \in hashed : u \notin exiting => leader[u] # leader[t]
        BY <4>1 DEF AliveThreads, Threads
      <4>6. walk.by # None /\ p \in walk.todo /\ p # leader[walk.by]
        BY <1>d, <4>3, <4>4, <4>5 DEF ToBeMarked
      <4> QED
        BY <1>s, <2>1, <4>6 DEF ToBeMarked
    <3> QED
      BY <3>3, <3>4
  <2> QED
    BY <2>3, <2>4
<1>8. ASSUME NEW t \in Tasks, SetSubreaper(t) PROVE ToBeMarked(p, g)'
  <2>1. /\ UNCHANGED <<walk, hasSub, realParent, leader, hashed>> /\ pc[t] = "run"
        /\ isSub' = isSub \cup {leader[t]} /\ pc' = [pc EXCEPT ![t] = "walk"]
    BY <1>8 DEF SetSubreaper, Idle, Goto, groups, links
  <2>2. CASE g = leader[t]
    BY <1>0, <2>1, <2>2 DEF ToBeMarked
  <2>3. CASE g # leader[t]
    BY <1>e, <1>s, <1>h, <1>n, <2>1, <2>3
  <2> QED
    BY <2>2, <2>3
<1>9. ASSUME NEW t \in Tasks, ClearSubreaper(t) PROVE ToBeMarked(p, g)'
  <2>1. UNCHANGED <<walk, hasSub, realParent, hashed>> /\ isSub' \subseteq isSub
    BY <1>9 DEF ClearSubreaper, groups, links
  <2> QED
    BY <1>k, <2>1
<1>10. ASSUME NEW t \in Tasks, WalkBegin(t) PROVE ToBeMarked(p, g)'
  <2>1. /\ UNCHANGED <<hasSub, isSub, realParent, leader, hashed>> /\ walk.by = None
        /\ pc' = [pc EXCEPT ![t] = "visit"] /\ walk'.by = t /\ walk'.todo = {leader[t]}
    BY <1>10 DEF WalkBegin, Moves, Goto, groups, links
  <2>2. ToBeMarked(p, g)
    BY <1>e, <1>h, <1>n, <2>1
  <2>3. PICK u \in Tasks : pc[u] = "walk" /\ leader[u] = g
    BY <2>1, <2>2 DEF ToBeMarked
  <2> QED
    BY <1>0, <2>1, <2>3 DEF ToBeMarked
<1>11. ASSUME NEW t \in Tasks, WalkEnd(t) PROVE ToBeMarked(p, g)'
  <2>1. /\ UNCHANGED <<hasSub, isSub, realParent, leader, hashed>> /\ walk.todo = {}
        /\ pc' = [pc EXCEPT ![t] = "run"] /\ pc[t] = "visit"
    BY <1>11 DEF WalkEnd, Moves, Goto, groups, links
  <2>2. ToBeMarked(p, g)
    BY <1>e, <1>h, <1>n, <2>1
  <2>3. PICK u \in Tasks : pc[u] = "walk" /\ leader[u] = g
    BY <2>1, <2>2 DEF ToBeMarked
  <2> QED
    BY <1>0, <2>1, <2>3 DEF ToBeMarked
<1>12. ASSUME NEW t \in Tasks, NEW x \in Tasks, WalkVisit(t, x) PROVE ToBeMarked(p, g)'
  <2> DEFINE below == UNION {children[u] : u \in Threads(x)}
  <2>1. /\ UNCHANGED <<isSub, realParent, leader, hashed, pc>> /\ pc[t] = "visit" /\ x \in walk.todo
        /\ IF Descends(t, x)
           THEN /\ hasSub' = IF x = leader[t] THEN hasSub ELSE hasSub \cup {x}
                /\ walk' = [walk EXCEPT !.todo = (@ \cup (below \ walk.done)) \ {x},
                                        !.done = @ \cup {x}]
           ELSE /\ walk' = [walk EXCEPT !.todo = @ \ {x}, !.done = @ \cup {x}]
                /\ UNCHANGED hasSub
    BY <1>12 DEF WalkVisit, groups, links, control
  <2>2. walk.by = t /\ walk'.by = t /\ leader[t] \in Tasks /\ t \in hashed
    <3>1. walk.by = t
      BY <1>0, <2>1 DEF Walks
    <3> HIDE DEF below
    <3>2. walk'.by = walk.by
      BY <1>0, <2>1
    <3> QED
      BY <1>0, <1>d, <3>1, <3>2
  <2>3. walk'.todo = IF Descends(t, x) THEN (walk.todo \cup (below \ walk.done)) \ {x}
                     ELSE walk.todo \ {x}
    <3> HIDE DEF below
    <3>1. CASE Descends(t, x)
      BY <1>0, <2>1, <3>1
    <3>2. CASE ~Descends(t, x)
      BY <1>0, <2>1, <3>2
    <3> QED
      BY <3>1, <3>2
  <2>4. p \in hashed /\ leader[p] = p /\ g = leader[realParent[p]] /\ realParent[p] \in Tasks
    BY <1>c, <1>n, <2>1
  (* What is to be marked is still in the queue. *)
  <2>5. CASE g \in hasSub \cup isSub /\ ~(g = x /\ Descends(t, x))
    <3>1. ToBeMarked(p, g)
      BY <1>e, <1>h, <1>n, <2>1, <2>5
    <3>2. CASE \E u \in Tasks : pc[u] = "walk" /\ leader[u] = g
      BY <2>1, <3>2 DEF ToBeMarked
    <3>3. CASE p \in walk.todo /\ p # leader[t]
      <4>1. p # x
        BY <1>n, <2>1, <2>4, <3>3 DEF Descends
      <4> QED
        BY <2>1, <2>2, <2>3, <3>3, <4>1, <1>0 DEF ToBeMarked
    <3>4. CASE g \in walk.todo /\ g = leader[t]
      <4>1. leader[t] \in hashed
        BY <1>a, <2>2
      <4>2. g # x
        BY <2>5, <3>4, <4>1 DEF Descends
      <4> QED
        BY <2>1, <2>2, <2>3, <3>4, <4>2, <1>0 DEF ToBeMarked
    <3> QED
      BY <2>2, <3>1, <3>2, <3>3, <3>4 DEF ToBeMarked
  (* The children of a group that is visited are put there. *)
  <2>6. CASE g = x /\ Descends(t, x)
    <3>1. p \in children[realParent[p]]
      BY <2>4 DEF IInv, ChildrenExact
    <3>2. realParent[p] \in hashed
      BY <2>4, <3>1, LeftBehind DEF NobodyLeftBehind
    <3>3. p \in below
      <4>1. realParent[p] \in Threads(x)
        BY <2>4, <2>6, <3>2 DEF Threads
      <4> QED
        BY <3>1, <4>1
    <3>4. p # x /\ p # leader[t]
      <4>1. PICK age \in [Tasks -> Nat] : Ages(age)
        BY DEF SubInv, Aged
      <4>2. x = leader[t] \/ age[leader[t]] < age[x]
        BY <1>0, <2>1, <2>2, <4>1 DEF Ages
      <4>3. age[x] < age[p]
        BY <1>0, <1>a, <2>4, <2>6, <4>1 DEF Ages
      <4>4. age[x] \in Nat /\ age[p] \in Nat /\ age[leader[t]] \in Nat
        BY <1>a, <2>2, <2>4
      <4> QED
        BY <4>2, <4>3, <4>4
    <3>5. p \notin walk.done
      BY <1>0, <1>n, <2>2, <2>4, <3>4 DEF Walks
    <3> HIDE DEF below
    <3>6. p \in walk'.todo
      BY <2>3, <2>6, <3>3, <3>4, <3>5
    <3> QED
      BY <1>0, <2>1, <2>2, <3>4, <3>6 DEF ToBeMarked
  <2>7. g \in hasSub \cup isSub \/ (g = x /\ Descends(t, x))
    BY <1>n, <2>1
  <2> QED
    BY <2>5, <2>6, <2>7
<1>13. CASE UNCHANGED <<groups, links, sub>>
  BY <1>k, <1>13 DEF groups, links, sub
<1> QED
  BY <1>1, <1>2, <1>3, <1>4, <1>5, <1>6, <1>7, <1>8, <1>9, <1>10, <1>11, <1>12, <1>13, Frames
     DEF ChangesGroups, ChangesLinks, ChangesSub

LEMMA SubInit == Init => SubInv
<1> SUFFICES ASSUME Init PROVE SubInv
  OBVIOUS
<1>0. walk = NoWalk /\ hasSub = {} /\ isSub = {} /\ \A t \in Tasks : pc[t] \in {"none", "run"}
  BY DEF Init
<1>1. Walks /\ Leaving
  BY <1>0 DEF Walks, Leaving, LeavesGroup, NoWalk, TaskTreeAssumption
<1>2. Marked
  BY <1>0 DEF Marked
<1>3. Aged
  <2>1. /\ Born \subseteq Tasks /\ InitProcess \in Born /\ None \notin Tasks
        /\ Parent0 \in [Born -> Born \cup {None}] /\ Leader0 \in [Born -> Born]
        /\ \A t \in Born : Parent0[t] = None <=> Leader0[t] = InitProcess
        /\ \A t \in Born : Leader0[Leader0[t]] = Leader0[t]
    BY DEF TaskTreeAssumption
  <2>2. PICK old : /\ old \in [Born -> 0..Cardinality(Born)]
                   /\ \A t \in Born : Parent0[t] # None => old[Leader0[Parent0[t]]] < old[Leader0[t]]
    BY DEF TaskTreeAssumption
  <2>3. Cardinality(Born) \in Nat
    BY FS_Subset, FS_CardinalityType DEF TaskTreeAssumption
  <2> DEFINE age == [t \in Tasks |-> IF t \in Born /\ t # InitProcess THEN old[t] + 1 ELSE 0]
  <2>4. \A t \in Born : old[t] \in Nat
    BY <2>2, <2>3
  <2>5. age \in [Tasks -> Nat] /\ age[InitProcess] = 0
    BY <2>1, <2>4
  <2>6. \A t \in Tasks : Started(t) => t \in Born /\ realParent[t] = Parent0[t] /\ leader[t] = Leader0[t]
    BY <2>1 DEF Init, Started
  <2>7. ASSUME NEW t \in Tasks, Started(t), realParent[t] # None
        PROVE  age[leader[realParent[t]]] < age[leader[t]]
    <3>1. t \in Born /\ Parent0[t] \in Born /\ Leader0[t] \in Born /\ Leader0[t] # InitProcess
          /\ Leader0[Parent0[t]] \in Born
      BY <2>1, <2>6, <2>7
    <3>2. leader[realParent[t]] = Leader0[Parent0[t]] /\ leader[t] = Leader0[t]
      BY <2>1, <2>6, <2>7, <3>1 DEF Init
    <3>3. old[Leader0[Parent0[t]]] < old[Leader0[t]]
      BY <2>2, <2>6, <2>7
    <3>4. age[Leader0[t]] = old[Leader0[t]] + 1
          /\ age[Leader0[Parent0[t]]] \in {0, old[Leader0[Parent0[t]]] + 1}
      BY <2>1, <3>1
    <3> QED
      BY <2>4, <3>1, <3>2, <3>3, <3>4
  <2> HIDE DEF age
  <2>8. Ages(age)
    BY <1>0, <2>5, <2>7 DEF Ages, NoWalk
  <2> QED
    BY <2>5, <2>8 DEF Aged
<1> QED
  BY <1>1, <1>2, <1>3 DEF SubInv

(* has_child_subreaper reaches all descendants of a subreaper whose call   *)
(* has returned, and is right below everyone who has it, though processes  *)
(* are forked, reparented and released while the tree is walked.           *)
THEOREM SubreapersAreKnown == Spec => []SubreapersKnown
<1>1. IInv /\ SubInv /\ [Next]_vars => SubInv'
  BY WalksStep, LeavingStep, MarkedStep, AgedStep DEF SubInv
<1>2. Spec => [](IInv /\ SubInv)
  BY InvInit, InvStep, SubInit, <1>1, PTL DEF Spec
<1>3. IInv /\ SubInv => SubreapersKnown
  <2> SUFFICES ASSUME IInv, SubInv, NEW p \in hashed \ {InitProcess}, leader[p] = p,
                      realParent[p] # None, leader[realParent[p]] # InitProcess,
                      leader[realParent[p]] \in hasSub \cup isSub,
                      {t \in Tasks : pc[t] \in {"walk", "visit"}} = {}
               PROVE  p \in hasSub
    BY DEF SubreapersKnown
  <2>1. \A t \in Tasks : pc[t] \notin {"walk", "visit"}
    OBVIOUS
  <2>2. walk.by = None
    BY <2>1 DEF IInv, TypeOK, SubType, SubInv, Walks
  <2> QED
    BY <2>1, <2>2 DEF SubInv, Marked, ToBeMarked
<1> QED
  BY <1>2, <1>3, PTL


=============================================================================
