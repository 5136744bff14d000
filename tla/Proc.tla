-------------------------------- MODULE Proc --------------------------------
(***************************************************************************)
(* Processes and threads (sched/task.c): fork, exit, wait, reparenting to  *)
(* init, and the lifetime of a proc_t.                                     *)
(*                                                                         *)
(* What happens under one spinlock is one step; a thread can be preempted  *)
(* between any two steps.  schedule() requeues a preempted thread only if  *)
(* its state is RUNNING, and thread_exit sets the state to ZOMBIE first:   *)
(* an exit that is preempted half way never goes on (Strand).              *)
(*                                                                         *)
(* Pids are never reused, and a proc_t that was freed keeps its fields: a  *)
(* thread that still uses one reads what was there.                        *)
(***************************************************************************)
EXTENDS Lists, FiniteSets

CONSTANTS Procs, Threads,
          init_proc, InitThread,      \* task_create_init_proc
          FirstProc, FirstThread,     \* a process kmain starts, without a parent
          ANY,                        \* the pid -1 of proc_wait
          NULL

ASSUME BootAssumption == /\ {init_proc, FirstProc} \subseteq Procs /\ init_proc # FirstProc
                         /\ {InitThread, FirstThread} \subseteq Threads
                         /\ InitThread # FirstThread
ASSUME FiniteAssumption == IsFiniteSet(Procs) /\ IsFiniteSet(Threads)
ASSUME NullAssumption == {ANY, NULL} \cap (Procs \cup Threads) = {}

VARIABLES pstate,      \* proc->state, "NONE" before proc_alloc
          parent,      \* proc->parent
          children,    \* proc->children, linked by sibling_next
          refcount,    \* proc->refcount
          live,        \* proc->live_thread_count
          threads,     \* proc->threads
          freed,       \* the processes proc_free has freed
          proc,        \* thread->proc
          pc,          \* where each thread is
          kid,         \* the process a fork, a wait or an exit works on
          walk,        \* what proc_exit has left of the list of children
          want         \* the child_pid argument of proc_wait

procs == <<pstate, parent, children, refcount, live, threads, freed>>
locals == <<proc, kid, walk, want>>
vars == <<procs, pc, locals>>

Booted(p, a, b) == IF p = init_proc THEN a ELSE IF p = FirstProc THEN b ELSE <<>>

Init == /\ pstate = [p \in Procs |-> IF p \in {init_proc, FirstProc} THEN "RUNNING" ELSE "NONE"]
        /\ parent = [p \in Procs |-> NULL]
        /\ children = [p \in Procs |-> <<>>]
        /\ refcount = [p \in Procs |-> IF p \in {init_proc, FirstProc} THEN 1 ELSE 0]
        /\ live = [p \in Procs |-> IF p \in {init_proc, FirstProc} THEN 1 ELSE 0]
        /\ threads = [p \in Procs |-> Range(Booted(p, <<InitThread>>, <<FirstThread>>))]
        /\ freed = {}
        /\ proc = [t \in Threads |-> IF t = InitThread THEN init_proc
                                     ELSE IF t = FirstThread THEN FirstProc ELSE NULL]
        /\ pc = [t \in Threads |-> IF t \in {InitThread, FirstThread} THEN "run" ELSE "none"]
        /\ kid = [t \in Threads |-> NULL]
        /\ walk = [t \in Threads |-> <<>>]
        /\ want = [t \in Threads |-> NULL]

-----------------------------------------------------------------------------
At(t, l) == pc[t] = l
Goto(t, l) == pc' = [pc EXCEPT ![t] = l]
User(t) == At(t, "run") /\ t # InitThread

proc_add_child(p, c) == children' = [children EXCEPT ![p] = Pushed(@, c)]

proc_remove_child(p, c) ==
    children' = [children EXCEPT ![p] = IF c \in Range(@) THEN Unlinked(@, PlaceOf(@, c)) ELSE @]

thread_link_to_proc(p, u) == /\ threads' = [threads EXCEPT ![p] = @ \cup {u}]
                             /\ live' = [live EXCEPT ![p] = @ + 1]

\* thread_create, and the caller's sched_enqueue.
thread_create(t, u) ==
    /\ User(t) /\ At(u, "none")
    /\ thread_link_to_proc(proc[t], u)
    /\ proc' = [proc EXCEPT ![u] = proc[t]]
    /\ Goto(u, "run")
    /\ UNCHANGED <<pstate, parent, children, refcount, freed, kid, walk, want>>

\* proc_fork up to proc_add_child.
proc_fork(t, c) ==
    /\ User(t) /\ pstate[c] = "NONE"
    /\ pstate' = [pstate EXCEPT ![c] = "RUNNING"]
    /\ refcount' = [refcount EXCEPT ![c] = 1]
    /\ parent' = [parent EXCEPT ![c] = proc[t]]
    /\ proc_add_child(proc[t], c)
    /\ kid' = [kid EXCEPT ![t] = c]
    /\ Goto(t, "forking")
    /\ UNCHANGED <<live, threads, freed, proc, walk, want>>

\* thread_fork_from_syscall, and sched_enqueue of the child's thread...
ForkThread(t, u) ==
    /\ At(t, "forking") /\ At(u, "none")
    /\ thread_link_to_proc(kid[t], u)
    /\ proc' = [proc EXCEPT ![u] = kid[t]]
    /\ pc' = [pc EXCEPT ![t] = "run", ![u] = "run"]
    /\ kid' = [kid EXCEPT ![t] = NULL]
    /\ UNCHANGED <<pstate, parent, children, refcount, freed, walk, want>>

\* (Mutant: the child stays on the list.)
ForkFailsListed(t) ==
    /\ At(t, "forking")
    /\ Goto(t, "unref")
    /\ UNCHANGED <<procs, locals>>

\* ...or there is no memory for it: take the child off the list again.
ForkFails(t) ==
    /\ At(t, "forking")
    /\ proc_remove_child(proc[t], kid[t])
    /\ Goto(t, "unref")
    /\ UNCHANGED <<pstate, parent, refcount, live, threads, freed, locals>>

\* proc_unref of kid, and proc_list_remove and proc_free with the last one.
proc_unref(t) ==
    /\ At(t, "unref")
    /\ refcount' = [refcount EXCEPT ![kid[t]] = @ - 1]
    /\ freed' = IF refcount[kid[t]] = 1 THEN freed \cup {kid[t]} ELSE freed
    /\ kid' = [kid EXCEPT ![t] = NULL]
    /\ Goto(t, "run")
    /\ UNCHANGED <<pstate, parent, children, live, threads, proc, walk, want>>

-----------------------------------------------------------------------------
\* Where on the list of p the children are that proc_wait(p, w) may return.
Matching(p, w) == {n \in DOMAIN children[p] : w \in {ANY, children[p][n]}}
Zombies(p, w) == {n \in Matching(p, w) : pstate[children[p][n]] = "ZOMBIE"}

\* A thread is in proc_wait(w): it calls it, or goes round its loop again.
\* Init's thread calls nothing else.
InWait(t, w) == \/ At(t, "run") /\ (t = InitThread => w = ANY)
                \/ At(t, "wait") /\ want[t] = w

\* One round of proc_wait under parent->lock: take the first zombie off the
\* list, return -ECHILD, or go to sleep.
proc_wait(t, w) ==
    /\ InWait(t, w)
    /\ LET p == proc[t]
           found == Zombies(p, w)
       IN \/ \E n \in found :
             /\ \A m \in found : n <= m
             /\ children' = [children EXCEPT ![p] = Unlinked(@, n)]
             /\ kid' = [kid EXCEPT ![t] = children[p][n]]
             /\ want' = [want EXCEPT ![t] = NULL]
             /\ Goto(t, "reap")
          \/ /\ Matching(p, w) = {}
             /\ want' = [want EXCEPT ![t] = NULL]
             /\ Goto(t, "run")
             /\ UNCHANGED <<children, kid>>
          \/ /\ found = {} /\ Matching(p, w) # {}
             /\ want' = [want EXCEPT ![t] = w]
             /\ Goto(t, "sleep")
             /\ UNCHANGED <<children, kid>>
    /\ UNCHANGED <<pstate, parent, refcount, live, threads, freed, proc, walk>>

\* The child found is DEAD; proc_unref follows.
Reap(t) ==
    /\ At(t, "reap")
    /\ pstate' = [pstate EXCEPT ![kid[t]] = "DEAD"]
    /\ Goto(t, "unref")
    /\ UNCHANGED <<parent, children, refcount, live, threads, freed, locals>>

\* waitqueue_wait on the process's own queue, after the lock was released.
Sleep(t) ==
    /\ At(t, "sleep")
    /\ Goto(t, "asleep")
    /\ UNCHANGED <<procs, locals>>

\* waitqueue_wake_all on the queue of p by t, which goes on at label l.
Wake(t, p, l) ==
    pc' = [u \in Threads |-> IF u = t THEN l
                             ELSE IF pc[u] = "asleep" /\ proc[u] = p THEN "wait" ELSE pc[u]]

-----------------------------------------------------------------------------
\* thread_exit of the current thread, the only one it is called for.  It is a
\* ZOMBIE from here on...
thread_exit(t) ==
    /\ User(t)
    /\ Goto(t, "exiting")
    /\ UNCHANGED <<procs, locals>>

\* (Mutant: the count is compared before this thread is taken off it.)
LastOfTwo(n) == n <= 1

\* Whether live_thread_count says that the last thread is gone.
LastThread(n) == n = 0

\* ...and the last one runs proc_exit.
CountDown(t) ==
    /\ At(t, "exiting")
    /\ LET p == proc[t]
           n == IF live[p] > 0 THEN live[p] - 1 ELSE 0
       IN /\ live' = [live EXCEPT ![p] = n]
          /\ Goto(t, IF LastThread(n) THEN "proc_exit" ELSE "unlink")
    /\ UNCHANGED <<pstate, parent, children, refcount, threads, freed, locals>>

proc_exit(t) ==
    /\ At(t, "proc_exit")
    /\ LET p == proc[t] IN
       IF pstate[p] \in {"ZOMBIE", "DEAD"}
       THEN Goto(t, "unlink") /\ UNCHANGED <<pstate, walk>>
       ELSE /\ pstate' = [pstate EXCEPT ![p] = "ZOMBIE"]
            /\ walk' = [walk EXCEPT ![t] = children[p]]
            /\ Goto(t, "walk")
    /\ UNCHANGED <<parent, children, refcount, live, threads, freed, proc, kid, want>>

\* The loop of proc_exit gives the next child a new parent...
Reparent(t) ==
    /\ At(t, "walk") /\ walk[t] # <<>>
    /\ parent' = [parent EXCEPT ![Head(walk[t])] = init_proc]
    /\ Goto(t, "adopt")
    /\ UNCHANGED <<pstate, children, refcount, live, threads, freed, locals>>

\* (Mutant: sibling_next is read after proc_add_child has overwritten it.)
AdoptLosesRest(t) ==
    /\ At(t, "adopt")
    /\ proc_add_child(init_proc, Head(walk[t]))
    /\ walk' = [walk EXCEPT ![t] = children[init_proc]]
    /\ Goto(t, "walk")
    /\ UNCHANGED <<pstate, parent, refcount, live, threads, freed, proc, kid, want>>

\* ...and adds it to init's list, having read sibling_next before.
Adopt(t) ==
    /\ At(t, "adopt")
    /\ proc_add_child(init_proc, Head(walk[t]))
    /\ walk' = [walk EXCEPT ![t] = Tail(@)]
    /\ Goto(t, "walk")
    /\ UNCHANGED <<pstate, parent, refcount, live, threads, freed, proc, kid, want>>

ForgetChildren(t) ==
    /\ At(t, "walk") /\ walk[t] = <<>>
    /\ children' = [children EXCEPT ![proc[t]] = <<>>]
    /\ Goto(t, "wake_parent")
    /\ UNCHANGED <<pstate, parent, refcount, live, threads, freed, locals>>

\* proc_exit ends with two waitqueue_wake_all.
WakeParent(t) ==
    /\ At(t, "wake_parent")
    /\ Wake(t, parent[proc[t]], "wake_init")
    /\ UNCHANGED <<procs, locals>>

WakeInit(t) ==
    /\ At(t, "wake_init")
    /\ Wake(t, init_proc, "unlink")
    /\ UNCHANGED <<procs, locals>>

\* proc_unlink_thread, and sched_exit_current.
proc_unlink_thread(t) ==
    /\ At(t, "unlink")
    /\ threads' = [threads EXCEPT ![proc[t]] = @ \ {t}]
    /\ Goto(t, "gone")
    /\ UNCHANGED <<pstate, parent, children, refcount, live, freed, locals>>

Exiting == {"exiting", "proc_exit", "walk", "adopt", "wake_parent", "wake_init", "unlink"}

\* The timer preempts a thread that is already a ZOMBIE.
Strand(t) ==
    /\ pc[t] \in Exiting
    /\ Goto(t, "stranded")
    /\ UNCHANGED <<procs, locals>>

Next == \E t \in Threads :
    \/ \E u \in Threads : thread_create(t, u) \/ ForkThread(t, u)
    \/ \E c \in Procs : proc_fork(t, c)
    \/ ForkFails(t) \/ proc_unref(t)
    \/ \E w \in Procs \cup {ANY} : proc_wait(t, w)
    \/ Reap(t) \/ Sleep(t)
    \/ thread_exit(t) \/ CountDown(t) \/ proc_exit(t) \/ Reparent(t) \/ Adopt(t)
    \/ ForgetChildren(t) \/ WakeParent(t) \/ WakeInit(t) \/ proc_unlink_thread(t)
    \/ Strand(t)

Spec == Init /\ [][Next]_vars

-----------------------------------------------------------------------------
Labels == {"none", "run", "forking", "wait", "reap", "unref", "sleep", "asleep", "stranded",
           "gone"} \cup Exiting

\* Processes and threads have their types, and no count goes below zero.
TypeOK == /\ pstate \in [Procs -> {"NONE", "RUNNING", "ZOMBIE", "DEAD"}]
          /\ parent \in [Procs -> Procs \cup {NULL}]
          /\ children \in [Procs -> Seq(Procs)]
          /\ refcount \in [Procs -> Nat]
          /\ live \in [Procs -> Nat]
          /\ threads \in [Procs -> SUBSET Threads]
          /\ freed \subseteq Procs
          /\ proc \in [Threads -> Procs \cup {NULL}]
          /\ pc \in [Threads -> Labels]
          /\ kid \in [Threads -> Procs \cup {NULL}]
          /\ walk \in [Threads -> Seq(Procs)]
          /\ want \in [Threads -> Procs \cup {ANY, NULL}]

Running == Labels \ (Exiting \cup {"none", "stranded", "gone"})

\* However the threads of a process exit, the process is no zombie while one of
\* them still runs, and proc_exit runs in one thread only.
LastThreadExits ==
    /\ TypeOK
    /\ \A p \in Procs :
          /\ pstate[p] \in {"ZOMBIE", "DEAD"} =>
                \A t \in Threads : proc[t] = p => pc[t] \notin Running
          /\ Cardinality({t \in Threads : proc[t] = p /\
                pc[t] \in {"proc_exit", "walk", "adopt", "wake_parent", "wake_init"}}) <= 1

Taken(p) == {t \in Threads : kid[t] = p /\ pc[t] \in {"reap", "unref"}}

\* Two waiters never reap the same child, a process is freed by its one reaper
\* (or the fork that failed), and no list that proc_wait may follow leads to
\* a process that was freed.
ReapedOnce ==
    \A p \in Procs :
        /\ Cardinality(Taken(p)) <= 1
        /\ refcount[p] = IF pstate[p] = "NONE" \/ p \in freed THEN 0 ELSE 1
        /\ p \in freed => \A q \in Procs : pstate[q] = "RUNNING" => p \notin Range(children[q])

\* The children an exit has left behind: the timer cut it short before it had
\* moved them.  Nobody moves or reaps them any more.
Abandoned == UNION {Range(walk[t]) : t \in {u \in Threads : pc[u] = "stranded"}}
Leaving(p, c) == \E t \in Threads : /\ proc[t] = p /\ pc[t] \in {"walk", "adopt"}
                                    /\ c \in Range(walk[t])

\* No child is lost but those the timer makes proc_exit abandon.  Every other one
\* is on the list of its parent, once, and the parent runs or its exit will still
\* move the child; or the exit is just giving the child to init, or a reaper has
\* the child.
ChildStaysListed ==
    \A c \in Procs \ Abandoned : pstate[c] \in {"RUNNING", "ZOMBIE"} /\ parent[c] # NULL =>
        \/ /\ IsInjective(children[parent[c]]) /\ c \in Range(children[parent[c]])
           /\ pstate[parent[c]] = "RUNNING" \/ Leaving(parent[c], c)
        \/ \E t \in Threads : pc[t] = "adopt" /\ Head(walk[t]) = c
        \/ Taken(c) # {} \/ c \in freed
=============================================================================
