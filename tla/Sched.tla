------------------------------- MODULE Sched -------------------------------
(***************************************************************************)
(* The multilevel feedback scheduler (sched/sched.c) and the wait queues   *)
(* (sched/waitqueue.c) on the one CPU that kmain brings up: smp_start_aps  *)
(* runs before smp_prepare and returns, so nr_cpus stays 1 and try_steal   *)
(* never finds a victim.                                                   *)
(*                                                                         *)
(* Concurrency is preemption: a timer interrupt may arrive between any two *)
(* steps of a thread that runs with interrupts enabled, and every          *)
(* interrupt ends in sched_check_resched.  Code that runs after _cli() is  *)
(* atomic, unless it needs a spinlock whose holder was interrupted: then   *)
(* the CPU spins for ever with interrupts disabled, and hung says on what. *)
(***************************************************************************)
EXTENDS Integers, Sequences, SequencesExt, FiniteSets

CONSTANTS Workers,      \* the threads other than the idle thread
          Idle,         \* rq->idle
          BootQueue,    \* the threads kmain enqueues before sched_start
          MaxLevel,     \* the last of the levels of the feedback queue
          Ops,          \* what threads do besides computing
          NONE

Threads == Workers \cup {Idle}
Levels == 0 .. MaxLevel

ASSUME IdleAssumption == Idle \notin Workers
ASSUME BootAssumption == BootQueue \in Seq(Workers) /\ IsInjective(BootQueue)
ASSUME LevelAssumption == MaxLevel \in Nat
ASSUME OpsAssumption == Ops \subseteq {"yield", "wait", "wake_one", "wake_all", "exit", "spawn"}

VARIABLES state,        \* thread->state
          prio,         \* thread->priority_level
          levels,       \* rq->levels: a queue of threads for each level
          nr_running,   \* rq->nr_running
          current,      \* cpu->current_thread
          boost,        \* rq->last_boost_ns: "unset", or whether an interval passed
          rq_lock,      \* the thread that holds rq->lock
          wq,           \* the list of a wait queue
          wq_lock,      \* the thread that holds wq->lock
          woken,        \* thread->wait_node.woken
          pc,           \* where each thread is
          todo,         \* the waiters a waker has detached and not woken yet
          target,       \* the argument of sched_enqueue
          freed,        \* threads whose descriptor and stack were released
          hung          \* the lock the CPU spins on with interrupts disabled

queues == <<levels, nr_running, prio, boost>>
waits == <<wq, woken, todo>>
vars == <<state, queues, current, rq_lock, waits, wq_lock, pc, target, freed, hung>>

Queued == UNION {Range(levels[l]) : l \in Levels}

Init == /\ state = [t \in Threads |-> IF t = Idle THEN "RUNNING"
                                      ELSE IF t \in Range(BootQueue) THEN "READY" ELSE "NEW"]
        /\ prio = [t \in Threads |-> 0]
        /\ levels = [l \in Levels |-> IF l = 0 THEN BootQueue ELSE <<>>]
        /\ nr_running = Len(BootQueue)
        /\ current = Idle
        /\ boost = "unset"
        /\ rq_lock = NONE /\ wq_lock = NONE
        /\ wq = <<>>
        /\ woken = [t \in Threads |-> FALSE]
        /\ pc = [t \in Threads |-> "run"]
        /\ todo = [t \in Threads |-> <<>>]
        /\ target = [t \in Threads |-> NONE]
        /\ freed = {}
        /\ hung = NONE

-----------------------------------------------------------------------------
\* The queues are first in, first out.
mlfq_push(q, lvl, t) == [q EXCEPT ![lvl] = Append(@, t)]
mlfq_pop(q, lvl) == [q EXCEPT ![lvl] = Tail(@)]

\* The level mlfq_pick_next pops from: the first whose queue is not empty.
mlfq_pick_next(q) == CHOOSE lvl \in Levels : /\ q[lvl] # <<>>
                                             /\ \A l \in 0 .. lvl - 1 : q[l] = <<>>

\* maybe_boost: once an interval has passed, every queue is emptied into
\* level 0, in the order of the levels.
Boosted(q) == [l \in Levels |-> IF l = 0
                                THEN FlattenSeq([i \in 1 .. MaxLevel + 1 |-> q[i - 1]])
                                ELSE <<>>]

\* (Mutant: the queues below level 0 are never boosted.)
NoBoost(q) == q

maybe_boost(q) == IF boost = "due" THEN Boosted(q) ELSE q

\* (Mutant: every thread that is not blocked is requeued.)
RequeuesUnlessBlocked(st) == st # "BLOCKED"

\* schedule() puts prev back on the run queue only if it is still running.
Requeues(st) == st = "RUNNING"

\* The count after mlfq_pick_next: idle was not counted.
CountAfterPick(count, picked) == IF picked THEN count - 1 ELSE count

\* schedule(), entered with the thread states st and the priorities pr:
\* requeue a running prev, maybe boost, take the first thread of the first
\* queue that is not empty, or else idle.  A thread that picks itself returns
\* early, before do_switch would set its state to RUNNING again.
schedule(st, pr) ==
    LET prev == current
        requeue == Requeues(st[prev])
        pushed == IF requeue THEN mlfq_push(levels, pr[prev], prev) ELSE levels
        st1 == IF requeue THEN [st EXCEPT ![prev] = "READY"] ELSE st
        count == IF requeue THEN nr_running + 1 ELSE nr_running
        ready == maybe_boost(pushed)
        some == \E l \in Levels : ready[l] # <<>>
        lvl == mlfq_pick_next(ready)
        next == IF some THEN Head(ready[lvl]) ELSE Idle
    IN /\ levels' = IF some THEN mlfq_pop(ready, lvl) ELSE ready
       /\ nr_running' = CountAfterPick(count, some)
       /\ prio' = [t \in Threads |-> IF \E l \in Levels \ {0} :
                                           boost = "due" /\ t \in Range(pushed[l])
                                     THEN 0 ELSE pr[t]]
       /\ boost' = "waiting"
       /\ current' = next
       /\ state' = IF next = prev THEN st1 ELSE [st1 EXCEPT ![next] = "RUNNING"]

\* An interval of PRIORITY_BOOST_INTERVAL_NS passes.
BoostInterval == /\ boost = "waiting"
                 /\ boost' = "due"
                 /\ UNCHANGED <<state, levels, nr_running, prio, current, rq_lock, waits,
                                wq_lock, pc, target, freed, hung>>

\* The timer interrupt: sched_tick, and sched_check_resched on the way out.
\* A tick that does not exhaust the quantum changes nothing modelled here.
sched_tick ==
    /\ hung = NONE
    /\ LET demoted == IF current # Idle /\ prio[current] < MaxLevel
                      THEN [prio EXCEPT ![current] = @ + 1] ELSE prio
       IN IF rq_lock = NONE
          THEN schedule(state, demoted) /\ UNCHANGED hung
          ELSE /\ hung' = "rq" /\ prio' = demoted
               /\ UNCHANGED <<state, levels, nr_running, boost, current>>
    /\ UNCHANGED <<rq_lock, waits, wq_lock, pc, target, freed>>

-----------------------------------------------------------------------------
wq_link(q, t) == Append(q, t)
wq_unlink(q, t) == SelectSeq(q, LAMBDA u : u # t)

\* The current thread c is at label l, and goes on to m.
At(c, l) == hung = NONE /\ c = current /\ pc[c] = l
Goto(c, m) == pc' = [pc EXCEPT ![c] = m]
Calls(c, op) == op \in Ops /\ c # Idle /\ At(c, "run")

sched_yield(c) ==
    /\ Calls(c, "yield")
    /\ schedule(state, prio)
    /\ UNCHANGED <<rq_lock, waits, wq_lock, pc, target, freed, hung>>

\* (Mutant: the thread blocks first and links its node after schedule() returns.)
WaitLinksLate(c) ==
    /\ Calls(c, "wait")
    /\ wq_lock = NONE
    /\ schedule([state EXCEPT ![c] = "BLOCKED"], prio)
    /\ Goto(c, "waited")
    /\ UNCHANGED <<waits, hung, rq_lock, wq_lock, target, freed>>

\* waitqueue_wait up to and including schedule(), all with interrupts off.
waitqueue_wait(c) ==
    /\ Calls(c, "wait")
    /\ IF wq_lock = NONE
       THEN /\ wq' = wq_link(wq, c)
            /\ woken' = [woken EXCEPT ![c] = FALSE]
            /\ schedule([state EXCEPT ![c] = "BLOCKED"], prio)
            /\ Goto(c, "waited")
            /\ UNCHANGED <<todo, hung>>
       ELSE /\ hung' = "wq"
            /\ UNCHANGED <<state, queues, current, waits, pc>>
    /\ UNCHANGED <<rq_lock, wq_lock, target, freed>>

\* Back in waitqueue_wait: the node is unlinked unless a waker has done so.
WaitReturn(c) ==
    /\ At(c, "waited")
    /\ wq_lock = NONE
    /\ wq_lock' = c
    /\ Goto(c, "unlink")
    /\ UNCHANGED <<state, queues, current, rq_lock, waits, target, freed, hung>>

WaitUnlink(c) ==
    /\ At(c, "unlink")
    /\ wq' = IF woken[c] THEN wq ELSE wq_unlink(wq, c)
    /\ wq_lock' = NONE
    /\ Goto(c, "run")
    /\ UNCHANGED <<state, queues, current, rq_lock, woken, todo, target, freed, hung>>

\* waitqueue_wake_one and waitqueue_wake_all: take the lock...
WakeLock(c, op) ==
    /\ Calls(c, op)
    /\ op \in {"wake_one", "wake_all"}
    /\ wq_lock = NONE
    /\ wq_lock' = c
    /\ Goto(c, op)
    /\ UNCHANGED <<state, queues, current, rq_lock, waits, target, freed, hung>>

\* ...detach the first node, or all of them...
waitqueue_wake_one(c) ==
    /\ At(c, "wake_one")
    /\ todo' = [todo EXCEPT ![c] = IF wq = <<>> THEN <<>> ELSE <<Head(wq)>>]
    /\ woken' = IF wq = <<>> THEN woken ELSE [woken EXCEPT ![Head(wq)] = TRUE]
    /\ wq' = IF wq = <<>> THEN <<>> ELSE wq_unlink(wq, Head(wq))
    /\ wq_lock' = NONE
    /\ Goto(c, "waking")
    /\ UNCHANGED <<state, queues, current, rq_lock, target, freed, hung>>

waitqueue_wake_all(c) ==
    /\ At(c, "wake_all")
    /\ todo' = [todo EXCEPT ![c] = wq]
    /\ wq' = <<>>
    /\ wq_lock' = NONE
    /\ Goto(c, "waking")
    /\ UNCHANGED <<state, queues, current, rq_lock, woken, target, freed, hung>>

\* (Mutant: the node is not marked woken.)
WakeUnmarked(c) ==
    /\ At(c, "waking")
    /\ todo[c] # <<>>
    /\ LET t == Head(todo[c]) IN
       /\ todo' = [todo EXCEPT ![c] = Tail(@)]
       /\ state' = [state EXCEPT ![t] = "READY"]
       /\ target' = [target EXCEPT ![c] = t]
       /\ Goto(c, "enqueue")
    /\ UNCHANGED <<queues, current, rq_lock, wq, woken, wq_lock, freed, hung>>

\* ...and wake them one after the other: sched_wake makes a blocked thread
\* READY and hands it to sched_enqueue.
Wakeable(t) == state[t] \in {"BLOCKED", "SLEEPING"}

sched_wake(c) ==
    /\ At(c, "waking")
    /\ todo[c] # <<>>
    /\ LET t == Head(todo[c]) IN
       /\ woken' = [woken EXCEPT ![t] = TRUE]
       /\ todo' = [todo EXCEPT ![c] = Tail(@)]
       /\ IF Wakeable(t)
          THEN /\ state' = [state EXCEPT ![t] = "READY"]
               /\ target' = [target EXCEPT ![c] = t]
               /\ Goto(c, "enqueue")
          ELSE UNCHANGED <<state, target, pc>>
    /\ UNCHANGED <<queues, current, rq_lock, wq, wq_lock, freed, hung>>

WakeDone(c) ==
    /\ At(c, "waking")
    /\ todo[c] = <<>>
    /\ Goto(c, "run")
    /\ UNCHANGED <<state, queues, current, rq_lock, waits, wq_lock, target, freed, hung>>

\* thread_create and the caller's sched_enqueue of the new thread.
Spawn(c, t) ==
    /\ Calls(c, "spawn")
    /\ state[t] = "NEW"
    /\ state' = [state EXCEPT ![t] = "READY"]
    /\ target' = [target EXCEPT ![c] = t]
    /\ Goto(c, "enqueue")
    /\ UNCHANGED <<queues, current, rq_lock, waits, wq_lock, freed, hung>>

\* (Mutant: nr_running is not incremented.)
EnqueueUncounted(c) ==
    /\ At(c, "enqueue_locked")
    /\ LET t == target[c] IN
       /\ state' = [state EXCEPT ![t] = "READY"]
       /\ levels' = mlfq_push(levels, prio[t], t)
    /\ target' = [target EXCEPT ![c] = NONE]
    /\ rq_lock' = NONE
    /\ Goto(c, "waking")
    /\ UNCHANGED <<nr_running, prio, boost, current, waits, wq_lock, freed, hung>>

\* sched_enqueue: rq->lock is taken with interrupts enabled.
EnqueueLock(c) ==
    /\ At(c, "enqueue")
    /\ rq_lock' = c
    /\ Goto(c, "enqueue_locked")
    /\ UNCHANGED <<state, queues, current, waits, wq_lock, target, freed, hung>>

sched_enqueue(c) ==
    /\ At(c, "enqueue_locked")
    /\ LET t == target[c] IN
       /\ state' = [state EXCEPT ![t] = "READY"]
       /\ levels' = mlfq_push(levels, prio[t], t)
       /\ nr_running' = nr_running + 1
    /\ target' = [target EXCEPT ![c] = NONE]
    /\ rq_lock' = NONE
    /\ Goto(c, "waking")
    /\ UNCHANGED <<prio, boost, current, waits, wq_lock, freed, hung>>

\* sched_exit_current: the thread becomes a zombie and cpu->zombie_to_reap,
\* and schedule() begins by freeing what zombie_to_reap names: the thread itself,
\* whose stack the switch then still uses.  Interrupts are off until the switch,
\* and with one CPU nobody takes the memory in between: it is one step.
sched_exit_current(c) ==
    /\ Calls(c, "exit")
    /\ freed' = freed \cup {c}
    /\ schedule([state EXCEPT ![c] = "ZOMBIE"], prio)
    /\ UNCHANGED <<rq_lock, waits, wq_lock, pc, target, hung>>

Next == \/ sched_tick \/ BoostInterval
        \/ \E c \in Threads :
              \/ sched_yield(c) \/ waitqueue_wait(c) \/ WaitReturn(c) \/ WaitUnlink(c)
              \/ \E op \in Ops : WakeLock(c, op)
              \/ waitqueue_wake_one(c) \/ waitqueue_wake_all(c)
              \/ sched_wake(c) \/ WakeDone(c)
              \/ \E t \in Workers : Spawn(c, t)
              \/ EnqueueLock(c) \/ sched_enqueue(c) \/ sched_exit_current(c)

Spec == Init /\ [][Next]_vars

\* The timer keeps interrupting, time passes, and a running thread goes on:
\* it computes until its quantum is used up, or it gives up the CPU.
Fairness == /\ WF_vars(BoostInterval)
            /\ WF_vars(sched_tick \/ \E c \in Threads : sched_yield(c))

FairSpec == Spec /\ Fairness

-----------------------------------------------------------------------------
States == {"NEW", "READY", "RUNNING", "BLOCKED", "ZOMBIE"}
Labels == {"run", "waited", "unlink", "wake_one", "wake_all", "waking", "enqueue",
           "enqueue_locked"}

\* The scheduler's variables keep their types; nr_running never wraps.
TypeOK == /\ state \in [Threads -> States]
          /\ prio \in [Threads -> Levels]
          /\ levels \in [Levels -> Seq(Threads)]
          /\ nr_running \in Nat
          /\ current \in Threads
          /\ boost \in {"unset", "waiting", "due"}
          /\ rq_lock \in Threads \cup {NONE} /\ wq_lock \in Threads \cup {NONE}
          /\ wq \in Seq(Threads)
          /\ woken \in [Threads -> BOOLEAN]
          /\ pc \in [Threads -> Labels]
          /\ todo \in [Threads -> Seq(Threads)]
          /\ target \in [Threads -> Threads \cup {NONE}]
          /\ freed \subseteq Threads
          /\ hung \in {NONE, "rq", "wq"}

\* However sched_enqueue, schedule, boosts and preemptions interleave, the run
\* queue holds only READY threads, each once, at its own level and never the
\* running one, and nr_running counts them.
RunqueueSound ==
    /\ TypeOK
    /\ \A t \in Queued : state[t] = "READY" /\ t # current
    /\ \A l \in Levels : /\ IsInjective(levels[l])
                         /\ \A t \in Range(levels[l]) : prio[t] = l
    /\ nr_running = Cardinality(Queued)

\* A thread that waitqueue_wait has blocked is never forgotten: it is on the
\* wait queue with woken unset, or in the hands of exactly one waker.
NoLostWaiter ==
    /\ IsInjective(wq)
    /\ \A t \in Range(wq) : state[t] = "BLOCKED" /\ ~woken[t]
    /\ \A t \in Threads : state[t] = "BLOCKED" =>
          t \in Range(wq) \/ Cardinality({c \in Threads : t \in Range(todo[c])}) = 1

\* What waitqueue_wait relies on when it skips wq_unlink: a waiter that runs
\* again was unlinked and marked woken before it was made READY.
WaiterReturnsWoken ==
    \A t \in Threads : pc[t] \in {"waited", "unlink"} /\ state[t] # "BLOCKED"
                          => woken[t] /\ t \notin Range(wq)

\* The message at the end of sched_exit_current never appears, and no pointer
\* to a released descriptor is left behind: a thread that has exited is not
\* current, not queued to run or to be woken, and not about to be enqueued.
NoDanglingThread ==
    freed \cap (  {current} \cup Queued \cup Range(wq)
                \cup UNION {Range(todo[c]) \cup {target[c]} : c \in Threads}) = {}

\* maybe_boost saves a thread at a low level from starving behind threads
\* that give up the CPU early: every queued thread gets to run.
NoStarvation == \A t \in Threads : (t \in Queued) ~> (current = t)

\* spinlock_acquire reports a "recursive deadlock" when the lock is held on
\* its own CPU; with one CPU that is every hang, and none should happen.
NoRecursiveDeadlock == hung = NONE
=============================================================================
