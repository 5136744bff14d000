----------------------------- MODULE ProcSteps -----------------------------
(***************************************************************************)
(* The inductive invariant of Proc, for every set of processes and         *)
(* threads, and the steps that move a thread or give up a child: each      *)
(* keeps it.                                                               *)
(***************************************************************************)
EXTENDS Proc, FiniteSetTheorems, ListLemmas, TLAPS

-----------------------------------------------------------------------------
Over == {"ZOMBIE", "DEAD"}
Holding == {"forking", "reap", "unref"}
ExitSection == {"proc_exit", "walk", "adopt", "wake_parent", "wake_init"}

\* The threads that live_thread_count has to count.
Counted(p) == {t \in Threads : proc[t] = p /\ pc[t] \in Running \cup {"exiting"}}

\* A child that some list or walk must lead to.
Alive(c) == pstate[c] \in {"RUNNING", "ZOMBIE"} /\ c \notin freed /\ Taken(c) = {}

\* The process a thread belongs to, and the one it holds: a fork the child it
\* has not finished, proc_wait the one it found.
ThreadOk(t) ==
    /\ pc[t] = "none" <=> proc[t] = NULL
    /\ proc[t] # NULL => pstate[proc[t]] # "NONE"
    /\ t = InitThread <=> proc[t] = init_proc
    /\ t = InitThread => pc[t] \in Running \ {"forking"}

HoldOk(t) ==
    /\ kid[t] # NULL <=> pc[t] \in Holding
    /\ kid[t] # NULL => /\ pstate[kid[t]] # "NONE" /\ kid[t] \notin freed
                        /\ \A u \in Threads : kid[u] = kid[t] => u = t
    /\ pc[t] = "reap" => pstate[kid[t]] = "ZOMBIE"
    /\ pc[t] = "forking" => /\ pstate[kid[t]] = "RUNNING" /\ live[kid[t]] = 0
                            /\ kid[t] # init_proc /\ parent[kid[t]] = proc[t]
                            /\ \A u \in Threads : proc[u] # kid[t]

\* The count of a process is never too small, and zero once one thread has
\* seen it so: nobody is left who could add a thread.
LiveOk(p) ==
    /\ Cardinality(Counted(p)) <= live[p]
    /\ pstate[p] # "RUNNING" => live[p] = 0
    /\ \A t \in Threads : proc[t] = p /\ pc[t] \in ExitSection => live[p] = 0
    /\ \A t, u \in Threads : /\ proc[t] = p /\ pc[t] \in ExitSection
                             /\ proc[u] = p /\ pc[u] \in ExitSection
                             => t = u

RefOk(p) ==
    /\ refcount[p] = IF pstate[p] = "NONE" \/ p \in freed THEN 0 ELSE 1
    /\ pstate[p] = "NONE" => p \notin freed /\ children[p] = << >>

\* The list of a process that has not exited has just its children; the rest
\* of the list that proc_exit walks has those that are still to be moved.
ListOk(q) ==
    /\ IsInjective(children[q])
    /\ pstate[q] = "RUNNING" =>
          \A c \in Range(children[q]) : /\ parent[c] = q /\ Alive(c)
                                        /\ \A t \in Threads : c \notin Range(walk[t])

WalkOk(t) ==
    /\ pc[t] \in {"walk", "adopt"} => pstate[proc[t]] \in Over
    /\ walk[t] # << >> => pc[t] \in {"walk", "adopt", "stranded"} /\ pstate[proc[t]] \in Over
    /\ IsInjective(walk[t])
    /\ \A c \in Range(walk[t]) : /\ parent[c] \in {proc[t], init_proc} /\ Alive(c)
                                 /\ \A u \in Threads : c \in Range(walk[u]) => u = t
    /\ pc[t] = "adopt" => walk[t] # << >> /\ parent[Head(walk[t])] = init_proc
    /\ pc[t] \in {"walk", "adopt"} =>
          \A c \in Procs : Alive(c) /\ parent[c] = proc[t] => c \in Range(walk[t])

Moving(c) == \E t \in Threads : /\ pc[t] \in {"adopt", "stranded"}
                                /\ walk[t] # << >> /\ Head(walk[t]) = c
Walked(c) == \E t \in Threads : c \in Range(walk[t])
ChildOk(c) == Alive(c) /\ parent[c] # NULL =>
                 /\ c \in Range(children[parent[c]]) \/ Moving(c)
                 /\ pstate[parent[c]] = "RUNNING" \/ Walked(c)

\* The inductive invariant.
Inv == /\ TypeOK /\ pstate[init_proc] = "RUNNING"
       /\ \A t \in Threads : ThreadOk(t) /\ HoldOk(t) /\ WalkOk(t)
       /\ \A p \in Procs : LiveOk(p) /\ RefOk(p) /\ ListOk(p) /\ ChildOk(p)

-----------------------------------------------------------------------------
LEMMA FiniteThreads ==
    \A S \in SUBSET Threads : IsFiniteSet(S) /\ Cardinality(S) \in Nat
  BY FiniteAssumption, FS_Subset, FS_CardinalityType, Zenon

\* A process that counts a thread has not exited, and nobody runs its exit.
LEMMA CountedRuns ==
    ASSUME Inv, NEW t \in Threads, pc[t] \in Running \cup {"exiting"}
    PROVE  /\ proc[t] \in Procs /\ pstate[proc[t]] = "RUNNING" /\ live[proc[t]] > 0
           /\ \A u \in Threads : proc[u] = proc[t] => pc[u] \notin ExitSection
  <1>1. proc[t] \in Procs /\ live[proc[t]] \in Nat
    <2>1. pc[t] # "none"
      BY Zenon DEF Running, Exiting
    <2>2. QED
      BY <2>1, Zenon DEF Inv, TypeOK, ThreadOk
  <1>2. t \in Counted(proc[t]) /\ Counted(proc[t]) \in SUBSET Threads
    BY Zenon DEF Counted
  <1>3. Cardinality(Counted(proc[t])) # 0 /\ Cardinality(Counted(proc[t])) \in Nat
    BY <1>2, FiniteThreads, FS_EmptySet, Zenon
  <1>4. LiveOk(proc[t])
    BY <1>1, Zenon DEF Inv
  <1>5. live[proc[t]] > 0
    BY <1>1, <1>3, <1>4, SMTT(30) DEF LiveOk
  <1>6. QED
    BY <1>1, <1>4, <1>5, SMTT(30) DEF LiveOk

\* What a step leaves alone.  The four lemmas say when the parts of the invariant
\* are not disturbed.
LEMMA KeepThreads ==
    ASSUME Inv, proc' = proc,
           \A p \in Procs : pstate'[p] = "NONE" => pstate[p] = "NONE",
           \A u \in Threads : pc'[u] = "none" <=> pc[u] = "none",
           pc'[InitThread] \in Running \ {"forking"}
    PROVE  \A u \in Threads : ThreadOk(u)'
  BY ZenonT(30) DEF Inv, ThreadOk, TypeOK

LEMMA NewbornHasNoThread ==
    ASSUME Inv, NEW u \in Threads, pc[u] = "forking"
    PROVE  kid[u] \in Procs /\ \A w \in Threads : proc[w] # kid[u]
  BY SMTT(30) DEF Inv, TypeOK, HoldOk, Holding

LEMMA KeepHold ==
    ASSUME Inv, UNCHANGED <<kid, freed>>,
           \A p \in Procs : \/ pstate'[p] = pstate[p]
                            \/ /\ pstate[p] = "RUNNING" /\ pstate'[p] # "NONE"
                               /\ \E u \in Threads : proc[u] = p,
           \A u \in Threads : pc'[u] \in Holding \/ pc[u] \in Holding => pc'[u] = pc[u],
           \A u \in Threads : pc[u] = "forking" =>
              /\ parent'[kid[u]] = parent[kid[u]] /\ live'[kid[u]] = live[kid[u]]
              /\ proc'[u] = proc[u] /\ \A w \in Threads : proc'[w] # kid[u]
    PROVE  \A u \in Threads : HoldOk(u)'
  <1>1. SUFFICES ASSUME NEW u \in Threads
                 PROVE  HoldOk(u)'
    BY Zenon
  <1>2. HoldOk(u) /\ kid[u] \in Procs \cup {NULL}
    BY Zenon DEF Inv, TypeOK
  <1>3. pc'[u] \in Holding <=> pc[u] \in Holding
    BY Zenon
  <1>4. pc'[u] = "reap" => pstate'[kid[u]] = "ZOMBIE"
    <2>1. SUFFICES ASSUME pc'[u] = "reap"
                   PROVE  pstate'[kid[u]] = "ZOMBIE"
      BY Zenon
    <2>2. pc[u] = "reap"
      BY <2>1, Zenon DEF Holding
    <2>3. kid[u] \in Procs /\ pstate[kid[u]] = "ZOMBIE"
      BY <1>2, <2>2, Zenon DEF HoldOk, Holding
    <2>4. QED
      BY <2>3, Zenon
  <1>5. ASSUME pc'[u] = "forking"
        PROVE  /\ pstate'[kid[u]] = "RUNNING" /\ live'[kid[u]] = 0
               /\ kid[u] # init_proc /\ parent'[kid[u]] = proc'[u]
               /\ \A w \in Threads : proc'[w] # kid[u]
    <2>1. pc[u] = "forking"
      BY <1>5, Zenon DEF Holding
    <2>2. kid[u] \in Procs /\ pstate[kid[u]] = "RUNNING" /\ \A w \in Threads : proc[w] # kid[u]
      BY <1>2, <2>1, Zenon DEF HoldOk, Holding
    <2>3. pstate'[kid[u]] = "RUNNING"
      BY <2>2, ZenonT(30)
    <2>4. QED
      BY <1>2, <2>1, <2>2, <2>3, Zenon DEF HoldOk
  <1>6. kid[u] # NULL => pstate'[kid[u]] # "NONE"
    BY <1>2, Zenon DEF HoldOk
  <1>7. QED
    BY <1>2, <1>3, <1>4, <1>5, <1>6, Zenon DEF HoldOk

LEMMA KeepLive ==
    ASSUME Inv, UNCHANGED <<proc, live>>,
           \A p \in Procs : pstate'[p] # "RUNNING" => live[p] = 0,
           \A u \in Threads : pc'[u] \in Running \cup {"exiting"} => pc[u] \in Running \cup {"exiting"},
           \A u \in Threads : pc'[u] \in ExitSection => pc[u] \in ExitSection
    PROVE  \A p \in Procs : LiveOk(p)'
  <1>1. SUFFICES ASSUME NEW p \in Procs
                 PROVE  LiveOk(p)'
    BY Zenon
  <1>2. LiveOk(p) /\ live[p] \in Nat
    BY Zenon DEF Inv, TypeOK
  <1>3. Counted(p)' \subseteq Counted(p) /\ Counted(p) \in SUBSET Threads /\ Counted(p)' \in SUBSET Threads
    BY Zenon DEF Counted
  <1>4. Cardinality(Counted(p)') <= Cardinality(Counted(p))
    BY <1>3, FiniteThreads, FS_Subset, Zenon
  <1>5. Cardinality(Counted(p)') <= live[p]
    BY <1>2, <1>3, <1>4, FiniteThreads, SMTT(30) DEF LiveOk
  <1>6. QED
    BY <1>2, <1>5, Zenon DEF LiveOk

LEMMA KeepRefs ==
    ASSUME Inv, UNCHANGED <<refcount, freed>>,
           \A p \in Procs : pstate'[p] = "NONE" <=> pstate[p] = "NONE",
           \A p \in Procs : pstate[p] = "NONE" => children'[p] = children[p]
    PROVE  \A p \in Procs : RefOk(p)'
  BY Zenon DEF Inv, RefOk

LEMMA KeepLists ==
    ASSUME Inv, UNCHANGED <<children, walk, parent>>,
           \A c \in Procs : Alive(c)' = Alive(c),
           \A p \in Procs : /\ pstate'[p] = "RUNNING" <=> pstate[p] = "RUNNING"
                            /\ pstate[p] \in Over => pstate'[p] \in Over,
           \A u \in Threads : /\ pc[u] # "none" => proc'[u] = proc[u]
                              /\ pc'[u] \in {"walk", "adopt"} => pc'[u] = pc[u]
                              /\ walk[u] # << >> => pc'[u] \in {pc[u], "stranded"}
    PROVE  /\ \A u \in Threads : WalkOk(u)'
           /\ \A p \in Procs : ListOk(p)' /\ ChildOk(p)'
  <1>1. \A u \in Threads : WalkOk(u)'
    <2>1. SUFFICES ASSUME NEW u \in Threads
                   PROVE  WalkOk(u)'
      BY Zenon
    <2>2. /\ WalkOk(u) /\ ThreadOk(u) /\ proc[u] \in Procs \cup {NULL} /\ walk[u] \in Seq(Procs)
          /\ pc[u] \in Labels
      BY Zenon DEF Inv, TypeOK
    <2>3. Range(walk[u]) \subseteq Procs
      BY <2>2, ListSet, Zenon
    <2>4. ASSUME pc'[u] \in {"walk", "adopt"} \/ walk[u] # << >>
          PROVE  proc'[u] = proc[u] /\ proc[u] \in Procs /\ pstate'[proc[u]] \in Over
      <3>1. pc[u] \in {"walk", "adopt", "stranded"}
        BY <2>2, <2>4, Zenon DEF WalkOk
      <3>2. proc'[u] = proc[u] /\ proc[u] \in Procs
        BY <2>2, <3>1, Zenon DEF ThreadOk
      <3>3. pstate[proc[u]] \in Over
        BY <2>2, <2>4, Zenon DEF WalkOk
      <3>4. QED
        BY <3>2, <3>3, Zenon
    <2>5. \A c \in Range(walk[u]) : /\ parent[c] \in {proc'[u], init_proc} /\ Alive(c)'
                                    /\ \A w \in Threads : c \in Range(walk[w]) => w = u
      <3>1. Range(walk[u]) # {} => walk[u] # << >>
        BY <2>2, ListSet, Zenon
      <3>2. QED
        BY <2>2, <2>3, <2>4, <3>1, Zenon DEF WalkOk
    <2>6. pc'[u] \in {"walk", "adopt"} =>
             \A c \in Procs : Alive(c)' /\ parent[c] = proc'[u] => c \in Range(walk[u])
      BY <2>2, <2>4, Zenon DEF WalkOk
    <2>7. walk[u] # << >> => pc'[u] \in {"walk", "adopt", "stranded"}
      BY <2>2, Zenon DEF WalkOk
    <2>8. QED
      BY <2>2, <2>4, <2>5, <2>6, <2>7, Zenon DEF WalkOk
  <1>2. \A p \in Procs : ListOk(p)'
    <2>1. SUFFICES ASSUME NEW p \in Procs
                   PROVE  ListOk(p)'
      BY Zenon
    <2>2. ListOk(p) /\ Range(children[p]) \subseteq Procs
      BY ListSet, ZenonT(30) DEF Inv, TypeOK
    <2>3. QED
      BY <2>2, Zenon DEF ListOk
  <1>3. \A p \in Procs : ChildOk(p)'
    <2>1. \A c : (Moving(c) => Moving(c)') /\ (Walked(c) => Walked(c)')
      BY Zenon DEF Moving, Walked
    <2>2. \A c \in Procs : ChildOk(c) /\ parent[c] \in Procs \cup {NULL}
      BY Zenon DEF Inv, TypeOK
    <2>3. QED
      BY <2>1, <2>2, Zenon DEF ChildOk
  <1>4. QED
    BY <1>1, <1>2, <1>3, Zenon

-----------------------------------------------------------------------------
\* Steps that only move threads from label to label.
Ready == Running \ Holding
Moved(a, b) ==
    \/ a = b
    \/ a \in Ready /\ b \in Ready \cup {"exiting"}
    \/ a \in Exiting /\ b = "stranded"
    \/ a \in {"proc_exit", "wake_parent", "wake_init"} /\ b \in {"wake_init", "unlink"}
    \/ a = "unlink" /\ b = "gone"

LEMMA LabelStep ==
    ASSUME Inv, UNCHANGED <<pstate, parent, children, refcount, live, freed, proc, kid, walk>>,
           threads' \in [Procs -> SUBSET Threads], want' \in [Threads -> Procs \cup {ANY, NULL}],
           pc' \in [Threads -> Labels], pc'[InitThread] \in Running,
           \A u \in Threads : Moved(pc[u], pc'[u])
    PROVE  Inv'
  <1>1. TypeOK' /\ pstate'[init_proc] = "RUNNING"
    BY Zenon DEF Inv, TypeOK
  <1>2. \A u \in Threads : /\ pc'[u] = "none" <=> pc[u] = "none"
                           /\ pc'[u] \in Holding \/ pc[u] \in Holding => pc'[u] = pc[u]
    BY Zenon DEF Moved, Ready, Running, Exiting, Holding, Labels
  <1>3. \A u \in Threads : /\ pc'[u] \in Running \cup {"exiting"} => pc[u] \in Running \cup {"exiting"}
                           /\ pc'[u] \in ExitSection => pc[u] \in ExitSection
    BY ZenonT(30) DEF Moved, Ready, Running, Exiting, Holding, Labels, ExitSection
  <1>4. \A u \in Threads : /\ pc'[u] \in {"walk", "adopt"} => pc'[u] = pc[u]
                           /\ walk[u] # << >> => pc'[u] \in {pc[u], "stranded"}
    <2>1. SUFFICES ASSUME NEW u \in Threads
                   PROVE  /\ pc'[u] \in {"walk", "adopt"} => pc'[u] = pc[u]
                          /\ walk[u] # << >> => pc'[u] \in {pc[u], "stranded"}
      BY Zenon
    <2>2. Moved(pc[u], pc'[u])
      BY Zenon
    <2>3. walk[u] # << >> => pc[u] \in {"walk", "adopt", "stranded"}
      BY Zenon DEF Inv, WalkOk
    <2>4. QED
      BY <2>2, <2>3, Zenon DEF Moved, Ready, Running, Exiting, Holding, Labels
  <1>5. pc'[InitThread] \in Running \ {"forking"}
    <2>1. InitThread \in Threads
      BY BootAssumption, Zenon
    <2>2. pc[InitThread] # "forking"
      BY <2>1, Zenon DEF Inv, ThreadOk
    <2>3. QED
      BY <1>2, <2>1, <2>2, Zenon DEF Holding
  <1>6. \A c \in Procs : Alive(c)' = Alive(c)
    <2>1. \A c \in Procs : Taken(c)' = Taken(c)
      BY <1>2, Zenon DEF Taken, Holding
    <2>2. QED
      BY <2>1, Zenon DEF Alive
  <1>7. \A p \in Procs : pstate[p] # "RUNNING" => live[p] = 0
    BY Zenon DEF Inv, LiveOk
  <1>8. \A u \in Threads : ThreadOk(u)'
    BY <1>2, <1>5, KeepThreads, Zenon
  <1>9. \A u \in Threads : HoldOk(u)'
    BY <1>2, NewbornHasNoThread, KeepHold, Zenon
  <1>10. \A p \in Procs : LiveOk(p)'
    BY <1>3, <1>7, KeepLive, Zenon
  <1>11. \A p \in Procs : RefOk(p)'
    BY KeepRefs, Zenon
  <1>12. /\ \A u \in Threads : WalkOk(u)'
         /\ \A p \in Procs : ListOk(p)' /\ ChildOk(p)'
    BY <1>4, <1>6, KeepLists, Zenon
  <1>13. QED
    BY <1>1, <1>8, <1>9, <1>10, <1>11, <1>12, Zenon DEF Inv

LEMMA InitRuns ==
    ASSUME Inv
    PROVE  /\ InitThread \in Threads /\ pc[InitThread] \in Running \ {"forking"}
           /\ init_proc \in Procs /\ pstate[init_proc] = "RUNNING"
           /\ proc[InitThread] = init_proc
  BY BootAssumption, Zenon DEF Inv, ThreadOk

\* A thread that does not wait in init goes to another label.
LEMMA GotoStep ==
    ASSUME Inv, NEW t \in Threads, NEW l \in Labels, Goto(t, l),
           Moved(pc[t], l), t = InitThread => l \in Running,
           UNCHANGED <<pstate, parent, children, refcount, live, freed, proc, kid, walk>>,
           threads' \in [Procs -> SUBSET Threads], want' \in [Threads -> Procs \cup {ANY, NULL}]
    PROVE  Inv'
  <1>1. pc \in [Threads -> Labels]
    BY Zenon DEF Inv, TypeOK
  <1>2. /\ pc' \in [Threads -> Labels] /\ pc'[t] = l
        /\ \A u \in Threads \ {t} : pc'[u] = pc[u]
    BY <1>1, Zenon DEF Goto
  <1>3. \A u \in Threads : Moved(pc[u], pc'[u])
    BY <1>2, Zenon DEF Moved
  <1>4. pc'[InitThread] \in Running
    BY <1>2, InitRuns, Zenon
  <1>5. QED
    BY <1>2, <1>3, <1>4, LabelStep, Zenon

LEMMA SleepStep == \A t \in Threads : Inv /\ Sleep(t) => Inv'
  <1>1. SUFFICES ASSUME NEW t \in Threads, Inv, Sleep(t)
                 PROVE  Inv'
    BY Zenon
  <1>2. pc[t] = "sleep" /\ Goto(t, "asleep")
    BY <1>1, Zenon DEF Sleep, At
  <1>3. Moved(pc[t], "asleep") /\ "asleep" \in Labels /\ "asleep" \in Running
    BY <1>2, Zenon DEF Moved, Ready, Running, Labels, Exiting, Holding
  <1>4. UNCHANGED <<procs, locals>> /\ TypeOK
    BY <1>1, Zenon DEF Sleep, Inv
  <1>5. QED
    BY <1>1, <1>2, <1>3, <1>4, GotoStep, Zenon DEF procs, locals, TypeOK

LEMMA ExitStep == \A t \in Threads : Inv /\ thread_exit(t) => Inv'
  <1>1. SUFFICES ASSUME NEW t \in Threads, Inv, thread_exit(t)
                 PROVE  Inv'
    OBVIOUS
  <1>2. pc[t] = "run" /\ t # InitThread /\ Goto(t, "exiting")
    BY <1>1, Zenon DEF thread_exit, User, At
  <1>3. Moved(pc[t], "exiting") /\ "exiting" \in Labels
    BY <1>2, Zenon DEF Moved, Ready, Running, Labels, Exiting, Holding
  <1>4. UNCHANGED <<procs, locals>> /\ TypeOK
    BY <1>1, Zenon DEF thread_exit, Inv
  <1>5. QED
    BY <1>1, <1>2, <1>3, <1>4, GotoStep, Zenon DEF procs, locals, TypeOK

LEMMA StrandStep == \A t \in Threads : Inv /\ Strand(t) => Inv'
  <1>1. SUFFICES ASSUME NEW t \in Threads, Inv, Strand(t)
                 PROVE  Inv'
    OBVIOUS
  <1>2. pc[t] \in Exiting /\ Goto(t, "stranded")
    BY <1>1, Zenon DEF Strand
  <1>3. Moved(pc[t], "stranded") /\ "stranded" \in Labels /\ t # InitThread
    BY <1>1, <1>2, InitRuns, Zenon DEF Moved, Running, Labels
  <1>4. UNCHANGED <<procs, locals>> /\ TypeOK
    BY <1>1, Zenon DEF Strand, Inv
  <1>5. QED
    BY <1>1, <1>2, <1>3, <1>4, GotoStep, Zenon DEF procs, locals, TypeOK

LEMMA UnlinkStep == \A t \in Threads : Inv /\ proc_unlink_thread(t) => Inv'
  <1>1. SUFFICES ASSUME NEW t \in Threads, Inv, proc_unlink_thread(t)
                 PROVE  Inv'
    OBVIOUS
  <1>2. pc[t] = "unlink" /\ Goto(t, "gone")
    BY <1>1, Zenon DEF proc_unlink_thread, At
  <1>3. Moved(pc[t], "gone") /\ "gone" \in Labels /\ t # InitThread
    BY <1>1, <1>2, InitRuns, Zenon DEF Moved, Running, Labels, Exiting
  <1>4. UNCHANGED <<pstate, parent, children, refcount, live, freed, proc, kid, walk, want>> /\ TypeOK
    BY <1>1, Zenon DEF proc_unlink_thread, Inv, locals
  <1>5. threads' \in [Procs -> SUBSET Threads]
    BY <1>1, <1>4, Zenon DEF proc_unlink_thread, TypeOK
  <1>6. QED
    BY <1>1, <1>2, <1>3, <1>4, <1>5, GotoStep, Zenon DEF TypeOK

LEMMA WakeStep ==
    ASSUME Inv, NEW t \in Threads, NEW p, NEW l, Wake(t, p, l), UNCHANGED <<procs, locals>>,
           \/ pc[t] = "wake_parent" /\ l = "wake_init"
           \/ pc[t] = "wake_init" /\ l = "unlink"
    PROVE  Inv'
  <1>1. TypeOK /\ UNCHANGED <<pstate, parent, children, refcount, live, threads, freed, proc, kid, walk, want>>
    BY Zenon DEF Inv, procs, locals
  <1>2. \A u \in Threads : pc'[u] = IF u = t THEN l
                             ELSE IF pc[u] = "asleep" /\ proc[u] = p THEN "wait" ELSE pc[u]
    BY Zenon DEF Wake
  <1>3. l \in Labels /\ "wait" \in Labels /\ Moved(pc[t], l) /\ Moved("asleep", "wait")
    BY Zenon DEF Labels, Exiting, Moved, Ready, Running, Holding
  <1>4. pc' \in [Threads -> Labels]
    BY <1>1, <1>3, Zenon DEF Wake, TypeOK
  <1>5. \A u \in Threads : Moved(pc[u], pc'[u])
    BY <1>2, <1>3, Zenon DEF Moved
  <1>6. t # InitThread
    BY InitRuns, Zenon DEF Running, Labels, Exiting
  <1>7. pc'[InitThread] \in Running
    <2>1. "wait" \in Running
      BY Zenon DEF Running, Labels, Exiting
    <2>2. QED
      BY <1>2, <1>6, <2>1, InitRuns, Zenon
  <1>8. QED
    BY <1>1, <1>4, <1>5, <1>7, LabelStep, ZenonT(30) DEF TypeOK

LEMMA WakesStep == \A t \in Threads : Inv /\ (WakeParent(t) \/ WakeInit(t)) => Inv'
  BY WakeStep, Zenon DEF WakeParent, WakeInit, At

\* proc_wait when it has found no zombie.
LEMMA NotFoundStep ==
    ASSUME Inv, NEW t \in Threads, NEW w \in Procs \cup {ANY}, proc_wait(t, w),
           UNCHANGED <<children, kid>>
    PROVE  Inv'
  <1>1. TypeOK /\ UNCHANGED <<pstate, parent, children, refcount, live, threads, freed, proc, kid, walk>>
    BY Zenon DEF Inv, proc_wait
  <1>2. pc[t] \in {"run", "wait"}
    BY Zenon DEF proc_wait, InWait, At
  <1>3. kid[t] = NULL
    BY <1>2, Zenon DEF Inv, HoldOk, Holding
  <1>4. ~ \E n \in Zombies(proc[t], w) : kid' = [kid EXCEPT ![t] = children[proc[t]][n]]
    <2>1. SUFFICES ASSUME NEW n \in Zombies(proc[t], w), kid' = [kid EXCEPT ![t] = children[proc[t]][n]]
                   PROVE  FALSE
      BY Zenon
    <2>2. kid'[t] = children[proc[t]][n]
      BY <1>1, <2>1, Zenon DEF TypeOK
    <2>3. proc[t] \in Procs
      BY <1>2, CountedRuns, Zenon DEF Running, Labels, Exiting
    <2>4. children[proc[t]][n] \in Procs
      <3>1. children[proc[t]] \in Seq(Procs) /\ n \in DOMAIN children[proc[t]]
        BY <1>1, <2>3, Zenon DEF TypeOK, Zombies, Matching
      <3>2. QED
        BY <3>1, SMTT(30)
    <2>5. QED
      BY <1>1, <1>3, <2>2, <2>4, NullAssumption, ZenonT(30)
  <1>5. PICK l \in {"run", "sleep"}, x \in {NULL, w} : Goto(t, l) /\ want' = [want EXCEPT ![t] = x]
    BY <1>4, Zenon DEF proc_wait
  <1>6. l \in Labels /\ l \in Running /\ Moved(pc[t], l)
    BY <1>2, Zenon DEF Labels, Exiting, Running, Moved, Ready, Holding
  <1>7. want' \in [Threads -> Procs \cup {ANY, NULL}]
    BY <1>1, <1>5, Zenon DEF TypeOK
  <1>8. QED
    BY <1>1, <1>5, <1>6, <1>7, GotoStep, Zenon DEF TypeOK

\* thread_exit takes the thread off the count, and the last one of a process
\* goes on with proc_exit.
LEMMA CountDownStep == \A t \in Threads : Inv /\ CountDown(t) => Inv'
  <1>1. SUFFICES ASSUME NEW t \in Threads, Inv, CountDown(t)
                 PROVE  Inv'
    OBVIOUS
  <1>2. PICK p : p = proc[t]
    BY Zenon
  <1>3. /\ TypeOK /\ pc[t] = "exiting"
        /\ UNCHANGED <<pstate, parent, children, refcount, threads, freed, proc, kid, walk, want>>
    BY <1>1, Zenon DEF Inv, CountDown, At, locals
  <1>4. /\ p \in Procs /\ pstate[p] = "RUNNING" /\ live[p] > 0 /\ live[p] \in Nat
        /\ \A u \in Threads : proc[u] = p => pc[u] \notin ExitSection
    BY <1>1, <1>2, <1>3, CountedRuns, Zenon DEF TypeOK
  <1>5. PICK l \in {"proc_exit", "unlink"} :
          /\ live' = [live EXCEPT ![p] = live[p] - 1] /\ Goto(t, l)
          /\ l = "proc_exit" => live[p] - 1 = 0
    <2>1. LET n == live[p] - 1
          IN /\ live' = [live EXCEPT ![p] = n]
             /\ Goto(t, IF LastThread(n) THEN "proc_exit" ELSE "unlink")
      BY <1>1, <1>2, <1>4, Zenon DEF CountDown
    <2>2. QED
      BY <2>1, Zenon DEF LastThread
  <1>6. /\ live' \in [Procs -> Nat] /\ live'[p] = live[p] - 1
        /\ \A q \in Procs \ {p} : live'[q] = live[q]
    BY <1>3, <1>4, <1>5, SMTT(30) DEF TypeOK
  <1>7. /\ pc' \in [Threads -> Labels] /\ pc'[t] = l /\ \A u \in Threads \ {t} : pc'[u] = pc[u]
    BY <1>3, <1>5, Zenon DEF TypeOK, Goto, Labels, Exiting
  <1>8. TypeOK' /\ pstate'[init_proc] = "RUNNING"
    BY <1>1, <1>3, <1>6, <1>7, Zenon DEF TypeOK, Inv
  <1>9. t # InitThread
    BY <1>1, <1>3, InitRuns, Zenon DEF Running, Exiting
  <1>10. \A u \in Threads : ThreadOk(u)'
    <2>1. pc'[InitThread] \in Running \ {"forking"}
      BY <1>1, <1>7, <1>9, InitRuns, Zenon
    <2>2. QED
      BY <1>1, <1>3, <1>7, <2>1, KeepThreads, Zenon
  <1>11. \A u \in Threads : HoldOk(u)'
    <2>1. \A u \in Threads : pc'[u] \in Holding \/ pc[u] \in Holding => pc'[u] = pc[u]
      BY <1>3, <1>7, Zenon DEF Holding
    <2>2. \A u \in Threads : pc[u] = "forking" => live'[kid[u]] = live[kid[u]]
      BY <1>1, <1>2, <1>6, NewbornHasNoThread, Zenon
    <2>3. QED
      BY <1>1, <1>3, <2>1, <2>2, NewbornHasNoThread, KeepHold, Zenon
  <1>12. \A q \in Procs : LiveOk(q)'
    <2>1. ASSUME NEW q \in Procs \ {p}
          PROVE  LiveOk(q)'
      <3>1. Counted(q)' = Counted(q)
        BY <1>2, <1>3, <1>7, Zenon DEF Counted
      <3>2. LiveOk(q)
        BY <1>1, Zenon DEF Inv
      <3>3. \A u \in Threads : proc[u] = q => pc'[u] = pc[u]
        BY <1>2, <1>7, Zenon
      <3>4. QED
        BY <1>3, <1>6, <3>1, <3>2, <3>3, Zenon DEF LiveOk
    <2>2. LiveOk(p)'
      <3>1. Counted(p)' = Counted(p) \ {t} /\ t \in Counted(p) /\ Counted(p) \in SUBSET Threads
        BY <1>2, <1>3, <1>7, Zenon DEF Counted, Running, Exiting
      <3>2. Cardinality(Counted(p) \ {t}) = Cardinality(Counted(p)) - 1
        BY <3>1, FiniteThreads, FS_RemoveElement, Zenon
      <3>3. Cardinality(Counted(p)) <= live[p] /\ Cardinality(Counted(p)) \in Nat
        BY <1>1, <1>4, <3>1, FiniteThreads, Zenon DEF Inv, LiveOk
      <3>4. Cardinality(Counted(p)') <= live'[p]
        BY <1>4, <1>6, <3>1, <3>2, <3>3, SMTT(30)
      <3>5. \A u \in Threads : proc[u] = p /\ pc'[u] \in ExitSection => u = t /\ l = "proc_exit"
        BY <1>4, <1>5, <1>7, Zenon DEF ExitSection
      <3>6. QED
        BY <1>3, <1>4, <1>5, <1>6, <3>4, <3>5, ZenonT(30) DEF LiveOk
    <2>3. QED
      BY <2>1, <2>2, Zenon
  <1>13. \A q \in Procs : RefOk(q)'
    BY <1>1, <1>3, KeepRefs, Zenon
  <1>14. /\ \A u \in Threads : WalkOk(u)'
         /\ \A q \in Procs : ListOk(q)' /\ ChildOk(q)'
    <2>1. \A c \in Procs : Alive(c)' = Alive(c)
      <3>1. \A c \in Procs : Taken(c)' = Taken(c)
        BY <1>3, <1>7, Zenon DEF Taken
      <3>2. QED
        BY <1>3, <3>1, Zenon DEF Alive
    <2>2. walk[t] = << >>
      BY <1>1, <1>3, Zenon DEF Inv, WalkOk
    <2>3. \A u \in Threads : /\ pc'[u] \in {"walk", "adopt"} => pc'[u] = pc[u]
                             /\ walk[u] # << >> => pc'[u] \in {pc[u], "stranded"}
      BY <1>7, <2>2, Zenon
    <2>4. QED
      BY <1>1, <1>3, <2>1, <2>3, KeepLists, Zenon
  <1>15. QED
    BY <1>8, <1>10, <1>11, <1>12, <1>13, <1>14, Zenon DEF Inv

-----------------------------------------------------------------------------
\* A new thread u of a process p that has not exited; t may be the fork that
\* makes it.
LEMMA LinkStep ==
    ASSUME Inv, NEW t \in Threads, NEW u \in Threads, NEW p \in Procs, pc[u] = "none",
           pstate[p] = "RUNNING", p # init_proc,
           \A w \in Threads : proc[w] = p => pc[w] \notin ExitSection,
           thread_link_to_proc(p, u), proc' = [proc EXCEPT ![u] = p],
           UNCHANGED <<pstate, parent, children, refcount, freed, walk, want>>,
           pc' \in [Threads -> Labels], pc'[u] = "run",
           \A w \in Threads \ {u} : pc'[w] = pc[w] \/ (w = t /\ pc[t] = "forking" /\ pc'[t] = "run"),
           \A w \in Threads \ {t} : kid'[w] = kid[w], kid' \in [Threads -> Procs \cup {NULL}],
           kid'[t] = kid[t] \/ (pc[t] = "forking" /\ pc'[t] = "run"),
           \A w \in Threads : HoldOk(w)'
    PROVE  Inv'
  <1>1. TypeOK
    BY Zenon DEF Inv
  <1>2. /\ live' \in [Procs -> Nat] /\ live'[p] = live[p] + 1 /\ live[p] \in Nat
        /\ \A q \in Procs \ {p} : live'[q] = live[q]
    BY <1>1, SMTT(30) DEF TypeOK, thread_link_to_proc
  <1>3. /\ proc' \in [Threads -> Procs \cup {NULL}] /\ proc'[u] = p
        /\ \A w \in Threads \ {u} : proc'[w] = proc[w]
    BY <1>1, Zenon DEF TypeOK
  <1>4. threads' \in [Procs -> SUBSET Threads]
    BY <1>1, ZenonT(30) DEF TypeOK, thread_link_to_proc
  <1>5. TypeOK' /\ pstate'[init_proc] = "RUNNING"
    BY <1>1, <1>2, <1>3, <1>4, Zenon DEF TypeOK, Inv
  <1>6. u # InitThread /\ proc[u] = NULL
    BY InitRuns, Zenon DEF Running, Inv, ThreadOk
  <1>7. \A w \in Threads : ThreadOk(w)'
    <2>1. ThreadOk(u)'
      BY <1>3, <1>6, NullAssumption, Zenon DEF ThreadOk
    <2>2. ASSUME NEW w \in Threads \ {u}
          PROVE  ThreadOk(w)'
      <3>1. ThreadOk(w)
        BY Zenon DEF Inv
      <3>2. w = InitThread => pc'[w] = pc[w]
        BY InitRuns, Zenon
      <3>3. pc'[w] = "none" <=> pc[w] = "none"
        BY Zenon
      <3>4. QED
        BY <1>3, <3>1, <3>2, <3>3, Zenon DEF ThreadOk
    <2>3. QED
      BY <2>1, <2>2, Zenon
  <1>8. \A q \in Procs : LiveOk(q)'
    <2>1. "run" \in Running /\ "forking" \in Running /\ "none" \notin Running
      BY Zenon DEF Running, Labels, Exiting
    <2>2. \A w \in Threads \ {u} : pc'[w] \in Running \cup {"exiting"} <=> pc[w] \in Running \cup {"exiting"}
      BY <2>1, Zenon
    <2>3. \A w \in Threads : pc'[w] \in ExitSection => w # u /\ pc[w] \in ExitSection
      BY Zenon DEF ExitSection
    <2>4. ASSUME NEW q \in Procs \ {p}
          PROVE  LiveOk(q)'
      <3>1. Counted(q)' = Counted(q)
        BY <1>3, <1>6, <2>2, NullAssumption, ZenonT(30) DEF Counted
      <3>2. LiveOk(q)
        BY Zenon DEF Inv
      <3>3. \A w \in Threads : proc'[w] = q => w # u /\ proc[w] = q
        BY <1>3, Zenon
      <3>4. QED
        BY <1>2, <2>3, <3>1, <3>2, <3>3, Zenon DEF LiveOk
    <2>5. LiveOk(p)'
      <3>1. Counted(p)' = Counted(p) \cup {u} /\ u \notin Counted(p) /\ Counted(p) \in SUBSET Threads
        BY <1>3, <1>6, <2>1, <2>2, NullAssumption, SMTT(30) DEF Counted
      <3>2. Cardinality(Counted(p) \cup {u}) = Cardinality(Counted(p)) + 1
        BY <3>1, FiniteThreads, FS_AddElement, Zenon
      <3>3. Cardinality(Counted(p)) <= live[p] /\ Cardinality(Counted(p)) \in Nat
        BY <3>1, FiniteThreads, Zenon DEF Inv, LiveOk
      <3>4. Cardinality(Counted(p)') <= live'[p]
        BY <1>2, <3>1, <3>2, <3>3, SMTT(30)
      <3>5. \A w \in Threads : proc'[w] = p => pc'[w] \notin ExitSection
        BY <1>3, <2>3, Zenon
      <3>6. QED
        BY <3>4, <3>5, Zenon DEF LiveOk
    <2>6. QED
      BY <2>4, <2>5, Zenon
  <1>9. \A q \in Procs : RefOk(q)'
    BY KeepRefs, Zenon
  <1>10. /\ \A w \in Threads : WalkOk(w)'
         /\ \A q \in Procs : ListOk(q)' /\ ChildOk(q)'
    <2>1. \A c \in Procs : Alive(c)' = Alive(c)
      <3>1. \A c \in Procs : Taken(c)' = Taken(c)
        <4>1. \A w \in Threads : pc'[w] \in {"reap", "unref"} <=> pc[w] \in {"reap", "unref"}
          BY Zenon
        <4>2. \A w \in Threads : pc'[w] \in {"reap", "unref"} => kid'[w] = kid[w]
          BY Zenon
        <4>3. QED
          BY <4>1, <4>2, ZenonT(30) DEF Taken
      <3>2. QED
        BY <3>1, Zenon DEF Alive
    <2>2. \A w \in Threads : /\ pc[w] # "none" => proc'[w] = proc[w]
                             /\ pc'[w] \in {"walk", "adopt"} => pc'[w] = pc[w]
                             /\ walk[w] # << >> => pc'[w] \in {pc[w], "stranded"}
      <3>1. \A w \in Threads : walk[w] # << >> => pc[w] \in {"walk", "adopt", "stranded"}
        BY Zenon DEF Inv, WalkOk
      <3>2. QED
        BY <1>3, <3>1, SMTT(30)
    <2>3. QED
      BY <2>1, <2>2, KeepLists, Zenon
  <1>11. QED
    BY <1>5, <1>7, <1>8, <1>9, <1>10, Zenon DEF Inv

LEMMA CreateStep == \A t, u \in Threads : Inv /\ thread_create(t, u) => Inv'
  <1>1. SUFFICES ASSUME NEW t \in Threads, NEW u \in Threads, Inv, thread_create(t, u)
                 PROVE  Inv'
    BY Zenon
  <1>2. PICK p : p = proc[t]
    BY Zenon
  <1>3. /\ TypeOK /\ pc[t] = "run" /\ t # InitThread /\ pc[u] = "none"
        /\ thread_link_to_proc(p, u) /\ proc' = [proc EXCEPT ![u] = p] /\ Goto(u, "run")
        /\ UNCHANGED <<pstate, parent, children, refcount, freed, kid, walk, want>>
    BY <1>1, <1>2, Zenon DEF Inv, thread_create, User, At
  <1>4. "run" \in Running /\ "run" \in Labels
    BY Zenon DEF Running, Labels, Exiting
  <1>5. /\ p \in Procs /\ pstate[p] = "RUNNING"
        /\ \A w \in Threads : proc[w] = p => pc[w] \notin ExitSection
    BY <1>1, <1>2, <1>3, <1>4, CountedRuns, Zenon
  <1>6. p # init_proc
    BY <1>1, <1>2, <1>3, Zenon DEF Inv, ThreadOk
  <1>7. /\ pc' \in [Threads -> Labels] /\ pc'[u] = "run" /\ \A w \in Threads \ {u} : pc'[w] = pc[w]
    BY <1>3, <1>4, Zenon DEF TypeOK, Goto
  <1>8. \A w \in Threads : HoldOk(w)'
    <2>1. \A w \in Threads : pc'[w] \in Holding \/ pc[w] \in Holding => pc'[w] = pc[w]
      BY <1>3, <1>7, Zenon DEF Holding
    <2>2. ASSUME NEW w \in Threads, pc[w] = "forking"
          PROVE  /\ live'[kid[w]] = live[kid[w]] /\ proc'[w] = proc[w]
                 /\ \A x \in Threads : proc'[x] # kid[w]
      <3>1. kid[w] \in Procs /\ \A x \in Threads : proc[x] # kid[w]
        BY <1>1, <2>2, NewbornHasNoThread, Zenon
      <3>2. w # u /\ kid[w] # p
        BY <1>2, <1>3, <2>2, <3>1, ZenonT(30)
      <3>3. QED
        BY <1>3, <3>1, <3>2, Zenon DEF TypeOK, thread_link_to_proc
    <2>3. QED
      BY <1>1, <1>3, <2>1, <2>2, KeepHold, Zenon
  <1>9. kid' = kid /\ kid \in [Threads -> Procs \cup {NULL}]
    BY <1>3, Zenon DEF TypeOK
  <1>10. QED
    BY <1>1, <1>3, <1>5, <1>6, <1>7, <1>8, <1>9, LinkStep, Zenon

LEMMA ForkThreadStep == \A t, u \in Threads : Inv /\ ForkThread(t, u) => Inv'
  <1>1. SUFFICES ASSUME NEW t \in Threads, NEW u \in Threads, Inv, ForkThread(t, u)
                 PROVE  Inv'
    OBVIOUS
  <1>2. PICK p : p = kid[t]
    OBVIOUS
  <1>3. /\ TypeOK /\ pc[t] = "forking" /\ pc[u] = "none"
        /\ thread_link_to_proc(p, u) /\ proc' = [proc EXCEPT ![u] = p]
        /\ pc' = [pc EXCEPT ![t] = "run", ![u] = "run"] /\ kid' = [kid EXCEPT ![t] = NULL]
        /\ UNCHANGED <<pstate, parent, children, refcount, freed, walk, want>>
    BY <1>1, <1>2, Zenon DEF Inv, ForkThread, At
  <1>4. "run" \in Labels
    BY Zenon DEF Labels
  <1>5. /\ p \in Procs /\ pstate[p] = "RUNNING" /\ p # init_proc /\ \A w \in Threads : proc[w] # p
    BY <1>1, <1>2, <1>3, NewbornHasNoThread, Zenon DEF Inv, HoldOk
  <1>6. /\ pc' \in [Threads -> Labels] /\ pc'[u] = "run" /\ pc'[t] = "run"
        /\ \A w \in Threads \ {t, u} : pc'[w] = pc[w]
    BY <1>3, <1>4, Zenon DEF TypeOK
  <1>7. /\ kid' \in [Threads -> Procs \cup {NULL}] /\ kid'[t] = NULL
        /\ \A w \in Threads \ {t} : kid'[w] = kid[w]
    BY <1>3, Zenon DEF TypeOK
  <1>8. ASSUME NEW w \in Threads
        PROVE  HoldOk(w)'
    <2>1. HoldOk(w) /\ kid[w] \in Procs \cup {NULL}
      BY <1>1, <1>3, Zenon DEF Inv, TypeOK
    <2>2. CASE w = t
      BY <1>6, <1>7, <2>2, Zenon DEF HoldOk, Holding
    <2>3. CASE w = u
      BY <1>3, <1>6, <1>7, <2>1, <2>3, Zenon DEF HoldOk, Holding
    <2>4. CASE w # t /\ w # u
      <3>1. kid'[w] = kid[w] /\ pc'[w] = pc[w] /\ kid[w] # p
        BY <1>1, <1>2, <1>5, <1>6, <1>7, <2>1, <2>4, NullAssumption, Zenon DEF Inv, HoldOk
      <3>2. \A x \in Threads : kid[w] # NULL /\ kid'[x] = kid'[w] => x = w
        BY <1>7, <2>1, <3>1, Zenon DEF HoldOk
      <3>3. pc[w] = "forking" => /\ live'[kid[w]] = live[kid[w]] /\ proc'[w] = proc[w]
                                 /\ \A x \in Threads : proc'[x] # kid[w]
        <4>1. SUFFICES ASSUME pc[w] = "forking"
                       PROVE  /\ live'[kid[w]] = live[kid[w]] /\ proc'[w] = proc[w]
                              /\ \A x \in Threads : proc'[x] # kid[w]
          BY Zenon
        <4>2. kid[w] \in Procs /\ \A x \in Threads : proc[x] # kid[w]
          BY <1>1, <4>1, NewbornHasNoThread, Zenon
        <4>3. QED
          BY <1>3, <2>4, <3>1, <4>2, Zenon DEF TypeOK, thread_link_to_proc
      <3>4. QED
        BY <1>3, <2>1, <3>1, <3>2, <3>3, SMTT(30) DEF HoldOk
    <2>5. QED
      BY <2>2, <2>3, <2>4, ZenonT(30)
  <1>9. QED
    BY <1>1, <1>3, <1>5, <1>6, <1>7, <1>8, LinkStep, Zenon

-----------------------------------------------------------------------------
\* The thread t that holds c goes on in proc_wait or proc_fork: c stays out of
\* reach of everybody else.
LEMMA HeldStep ==
    ASSUME Inv, NEW t \in Threads, NEW c \in Procs, pc[t] \in {"reap", "unref"}, kid[t] = c,
           TypeOK', \A u \in Threads : HoldOk(u)', \A p \in Procs : RefOk(p)',
           UNCHANGED <<parent, children, live, proc, walk>>,
           \A p \in Procs : p # c => pstate'[p] = pstate[p] /\ (p \in freed' <=> p \in freed),
           pstate'[c] = pstate[c] \/ (pstate[c] = "ZOMBIE" /\ pstate'[c] = "DEAD"),
           (pc'[t] = "unref" /\ kid'[t] = c) \/ (pc'[t] = "run" /\ kid'[t] = NULL /\ c \in freed'),
           \A u \in Threads \ {t} : pc'[u] = pc[u] /\ kid'[u] = kid[u]
    PROVE  Inv'
  <1>1. \A p \in Procs : /\ pstate'[p] = "RUNNING" <=> pstate[p] = "RUNNING"
                         /\ pstate'[p] = "NONE" <=> pstate[p] = "NONE"
                         /\ pstate[p] \in Over => pstate'[p] \in Over
    BY Zenon DEF Over
  <1>2. pstate'[init_proc] = "RUNNING"
    BY <1>1, InitRuns, Zenon
  <1>3. "run" \in Running /\ "unref" \in Running /\ "reap" \in Running
    BY Zenon DEF Running, Labels, Exiting
  <1>4. \A u \in Threads : ThreadOk(u)'
    <2>1. pc'[InitThread] \in Running \ {"forking"}
      BY <1>3, InitRuns, ZenonT(30)
    <2>2. QED
      BY <1>1, <2>1, KeepThreads, Zenon
  <1>5. \A p \in Procs : LiveOk(p)'
    <2>1. \A p \in Procs : pstate'[p] # "RUNNING" => live[p] = 0
      BY <1>1, Zenon DEF Inv, LiveOk
    <2>2. \A u \in Threads : /\ pc'[u] \in Running \cup {"exiting"} => pc[u] \in Running \cup {"exiting"}
                             /\ pc'[u] \in ExitSection => pc[u] \in ExitSection
      BY <1>3, Zenon DEF ExitSection
    <2>3. QED
      BY <2>1, <2>2, KeepLive, Zenon
  <1>6. \A d \in Procs : Alive(d)' = Alive(d)
    <2>1. ASSUME NEW d \in Procs \ {c}
          PROVE  Alive(d)' = Alive(d)
      <3>1. Taken(d)' = Taken(d)
        BY NullAssumption, Zenon DEF Taken
      <3>2. QED
        BY <3>1, ZenonT(30) DEF Alive
    <2>2. ~Alive(c)
      BY Zenon DEF Alive, Taken
    <2>3. ~Alive(c)'
      <3>1. CASE pc'[t] = "unref" /\ kid'[t] = c
        <4>1. t \in Taken(c)'
          BY <3>1, Zenon DEF Taken
        <4>2. QED
          BY <4>1, Zenon DEF Alive
      <3>2. CASE c \in freed'
        BY <3>2, Zenon DEF Alive
      <3>3. QED
        BY <3>1, <3>2, Zenon
    <2>4. Alive(c)' = Alive(c)
      BY <2>2, <2>3, Zenon DEF Alive
    <2>5. QED
      BY <2>1, <2>4, ZenonT(30)
  <1>7. /\ \A u \in Threads : WalkOk(u)'
        /\ \A p \in Procs : ListOk(p)' /\ ChildOk(p)'
    <2>1. \A u \in Threads : /\ pc'[u] \in {"walk", "adopt"} => pc'[u] = pc[u]
                             /\ walk[u] # << >> => pc'[u] \in {pc[u], "stranded"}
      BY Zenon DEF Inv, WalkOk
    <2>2. QED
      BY <1>1, <1>6, <2>1, KeepLists, Zenon
  <1>8. QED
    BY <1>2, <1>4, <1>5, <1>7, Zenon DEF Inv

LEMMA HeldChild ==
    ASSUME Inv, NEW t \in Threads, pc[t] \in Holding
    PROVE  /\ kid[t] \in Procs /\ pstate[kid[t]] # "NONE" /\ kid[t] \notin freed
           /\ refcount[kid[t]] = 1
           /\ \A u \in Threads \ {t} : kid[u] # kid[t]
  BY Zenon DEF Inv, TypeOK, HoldOk, RefOk

LEMMA ReapStep == \A t \in Threads : Inv /\ Reap(t) => Inv'
  <1>1. SUFFICES ASSUME NEW t \in Threads, Inv, Reap(t)
                 PROVE  Inv'
    OBVIOUS
  <1>2. PICK c : c = kid[t]
    OBVIOUS
  <1>3. /\ TypeOK /\ pc[t] = "reap" /\ Goto(t, "unref") /\ pstate' = [pstate EXCEPT ![c] = "DEAD"]
        /\ UNCHANGED <<parent, children, refcount, live, threads, freed, proc, kid, walk, want>>
    BY <1>1, <1>2, Zenon DEF Inv, Reap, At, locals
  <1>4. /\ c \in Procs /\ c \notin freed /\ \A u \in Threads \ {t} : kid[u] # c
    BY <1>1, <1>2, <1>3, HeldChild, Zenon DEF Holding
  <1>5. pstate[c] = "ZOMBIE"
    BY <1>1, <1>2, <1>3, Zenon DEF Inv, HoldOk
  <1>6. /\ pstate' \in [Procs -> {"NONE", "RUNNING", "ZOMBIE", "DEAD"}] /\ pstate'[c] = "DEAD"
        /\ \A p \in Procs : p # c => pstate'[p] = pstate[p]
    BY <1>3, <1>4, Zenon DEF TypeOK
  <1>7. /\ pc' \in [Threads -> Labels] /\ pc'[t] = "unref" /\ \A u \in Threads \ {t} : pc'[u] = pc[u]
    BY <1>3, Zenon DEF TypeOK, Goto, Labels
  <1>8. TypeOK'
    BY <1>3, <1>6, <1>7, Zenon DEF TypeOK
  <1>9. ASSUME NEW u \in Threads
        PROVE  HoldOk(u)'
    <2>1. HoldOk(u) /\ kid[u] \in Procs \cup {NULL}
      BY <1>1, <1>3, ZenonT(30) DEF Inv, TypeOK
    <2>2. CASE u = t
      BY <1>2, <1>3, <1>4, <1>6, <1>7, <2>2, NullAssumption, ZenonT(30) DEF HoldOk, Holding
    <2>3. CASE u # t
      <3>1. pc'[u] = pc[u] /\ kid[u] # c
        BY <1>4, <1>7, <2>3, Zenon
      <3>2. kid[u] # NULL => pstate'[kid[u]] = pstate[kid[u]]
        BY <1>6, <2>1, <3>1, Zenon
      <3>3. QED
        BY <1>3, <2>1, <3>1, <3>2, Zenon DEF HoldOk, Holding
    <2>4. QED
      BY <2>2, <2>3, Zenon
  <1>10. \A p \in Procs : RefOk(p)'
    <2>1. \A p \in Procs : pstate'[p] = "NONE" <=> pstate[p] = "NONE"
      BY <1>5, <1>6, ZenonT(30)
    <2>2. QED
      BY <1>1, <1>3, <2>1, KeepRefs, Zenon
  <1>11. QED
    BY <1>1, <1>2, <1>3, <1>4, <1>5, <1>6, <1>7, <1>8, <1>9, <1>10, HeldStep, ZenonT(30)

LEMMA UnrefStep == \A t \in Threads : Inv /\ proc_unref(t) => Inv'
  <1>1. SUFFICES ASSUME NEW t \in Threads, Inv, proc_unref(t)
                 PROVE  Inv'
    OBVIOUS
  <1>2. PICK c : c = kid[t]
    OBVIOUS
  <1>3. /\ c \in Procs /\ pstate[c] # "NONE" /\ c \notin freed /\ refcount[c] = 1
        /\ \A u \in Threads \ {t} : kid[u] # c
    BY <1>1, <1>2, HeldChild, Zenon DEF proc_unref, At, Holding
  <1>4. /\ TypeOK /\ pc[t] = "unref" /\ Goto(t, "run") /\ kid' = [kid EXCEPT ![t] = NULL]
        /\ refcount' = [refcount EXCEPT ![c] = 0] /\ freed' = freed \cup {c}
        /\ UNCHANGED <<pstate, parent, children, live, threads, proc, walk, want>>
    BY <1>1, <1>2, <1>3, SMTT(30) DEF Inv, proc_unref, At, TypeOK
  <1>5. /\ pc' \in [Threads -> Labels] /\ pc'[t] = "run" /\ \A u \in Threads \ {t} : pc'[u] = pc[u]
    BY <1>4, Zenon DEF TypeOK, Goto, Labels
  <1>6. /\ kid' \in [Threads -> Procs \cup {NULL}] /\ kid'[t] = NULL
        /\ \A u \in Threads \ {t} : kid'[u] = kid[u]
    BY <1>4, Zenon DEF TypeOK
  <1>7. /\ refcount' \in [Procs -> Nat] /\ refcount'[c] = 0
        /\ \A p \in Procs \ {c} : refcount'[p] = refcount[p]
    BY <1>3, <1>4, Zenon DEF TypeOK
  <1>8. TypeOK'
    BY <1>3, <1>4, <1>5, <1>6, <1>7, Zenon DEF TypeOK
  <1>9. ASSUME NEW u \in Threads
        PROVE  HoldOk(u)'
    <2>1. HoldOk(u)
      BY <1>1, Zenon DEF Inv
    <2>2. CASE u = t
      BY <1>5, <1>6, <2>2, Zenon DEF HoldOk, Holding
    <2>3. CASE u # t
      <3>1. pc'[u] = pc[u] /\ kid'[u] = kid[u] /\ kid[u] # c
        BY <1>3, <1>5, <1>6, <2>3, Zenon
      <3>2. kid[u] # NULL => kid[u] \notin freed' /\ \A w \in Threads : kid'[w] = kid[u] => w = u
        BY <1>4, <1>6, <2>1, <3>1, Zenon DEF HoldOk
      <3>3. QED
        BY <1>4, <2>1, <3>1, <3>2, Zenon DEF HoldOk
    <2>4. QED
      BY <2>2, <2>3
  <1>10. \A p \in Procs : RefOk(p)'
    <2>1. \A p \in Procs : RefOk(p)
      BY <1>1, ZenonT(30) DEF Inv
    <2>2. QED
      BY <1>3, <1>4, <1>7, <2>1, Zenon DEF RefOk
  <1>11. QED
    BY <1>1, <1>2, <1>3, <1>4, <1>5, <1>6, <1>8, <1>9, <1>10, HeldStep, ZenonT(30)

\* The list r is s without its element c.
Drops(r, s, c) == Range(r) = Range(s) \ {c} /\ IsInjective(r)

\* The thread t takes the child c off the list of its process.
LEMMA TakeStep ==
    ASSUME Inv, NEW t \in Threads, NEW c \in Procs, NEW p \in Procs, NEW r \in Seq(Procs),
           pstate[p] = "RUNNING", parent[c] = p, \A u \in Threads : c \notin Range(walk[u]),
           children' = [children EXCEPT ![p] = r], Drops(r, children[p], c),
           pc[t] \in {"run", "wait", "forking"}, pc'[t] \in {"reap", "unref"}, kid'[t] = c,
           \A u \in Threads \ {t} : pc'[u] = pc[u] /\ kid'[u] = kid[u],
           UNCHANGED <<pstate, parent, refcount, live, freed, proc, walk>>,
           TypeOK', \A u \in Threads : HoldOk(u)'
    PROVE  Inv'
  <1>1. pstate'[init_proc] = "RUNNING"
    BY InitRuns, Zenon
  <1>2. {"run", "wait", "forking", "unref", "reap"} \subseteq Running
    BY Zenon DEF Running, Labels, Exiting
  <1>3. \A u \in Threads : ThreadOk(u)'
    <2>1. pc'[InitThread] \in Running \ {"forking"}
      BY <1>2, InitRuns, SMTT(30)
    <2>2. QED
      BY <2>1, KeepThreads, ZenonT(30)
  <1>4. \A q \in Procs : LiveOk(q)'
    <2>1. \A q \in Procs : pstate[q] # "RUNNING" => live[q] = 0
      BY Zenon DEF Inv, LiveOk
    <2>2. \A u \in Threads : /\ pc'[u] \in Running \cup {"exiting"} => pc[u] \in Running \cup {"exiting"}
                             /\ pc'[u] \in ExitSection => pc[u] \in ExitSection
      BY <1>2, ZenonT(30) DEF ExitSection
    <2>3. QED
      BY <2>1, <2>2, KeepLive, Zenon
  <1>5. /\ children \in [Procs -> Seq(Procs)] /\ children'[p] = r
        /\ \A q \in Procs \ {p} : children'[q] = children[q]
    BY ZenonT(30) DEF Inv, TypeOK
  <1>6. \A q \in Procs : RefOk(q)'
    BY <1>5, KeepRefs, Zenon
  <1>7. /\ ~Alive(c)'
        /\ \A d \in Procs \ {c} : Alive(d)' = Alive(d)
    <2>1. t \in Taken(c)'
      BY ZenonT(30) DEF Taken
    <2>2. ASSUME NEW d \in Procs \ {c}
          PROVE  Taken(d)' = Taken(d)
      BY ZenonT(30) DEF Taken
    <2>3. QED
      BY <2>1, <2>2, Zenon DEF Alive
  <1>8. ASSUME NEW u \in Threads
        PROVE  WalkOk(u)'
    <2>1. WalkOk(u) /\ walk[u] \in Seq(Procs) /\ c \notin Range(walk[u])
      BY Zenon DEF Inv, TypeOK
    <2>2. Range(walk[u]) \subseteq Procs
      BY <2>1, ListSet, ZenonT(30)
    <2>3. \A d \in Range(walk[u]) : Alive(d)'
      BY <1>7, <2>1, <2>2, Zenon DEF WalkOk
    <2>4. /\ pc'[u] \in {"walk", "adopt"} => pc'[u] = pc[u]
          /\ walk[u] # << >> => pc'[u] = pc[u]
      BY <2>1, Zenon DEF WalkOk
    <2>5. pc'[u] \in {"walk", "adopt"} =>
             \A d \in Procs : Alive(d)' /\ parent[d] = proc[u] => d \in Range(walk[u])
      BY <1>7, <2>1, <2>4, Zenon DEF WalkOk
    <2>6. QED
      BY <2>1, <2>3, <2>4, <2>5, Zenon DEF WalkOk
  <1>9. ASSUME NEW q \in Procs
        PROVE  ListOk(q)'
    <2>1. /\ ListOk(q) /\ Range(children[q]) \subseteq Procs /\ Range(children'[q]) \subseteq Range(children[q])
      <3>1. ListOk(q)
        BY Zenon DEF Inv
      <3>2. Range(children[q]) \subseteq Procs
        BY <1>5, ListSet, Zenon
      <3>3. Range(children'[q]) \subseteq Range(children[q])
        BY <1>5, Zenon DEF Drops
      <3>4. QED
        BY <3>1, <3>2, <3>3, Zenon
    <2>2. IsInjective(children'[q])
      BY <1>5, <2>1, Zenon DEF ListOk, Drops
    <2>3. pstate[q] = "RUNNING" => c \notin Range(children'[q])
      BY <1>5, <2>1, Zenon DEF ListOk, Drops
    <2>4. QED
      BY <1>7, <2>1, <2>2, <2>3, Zenon DEF ListOk
  <1>10. ASSUME NEW d \in Procs
         PROVE  ChildOk(d)'
    <2>1. (Moving(d) => Moving(d)') /\ (Walked(d) => Walked(d)')
      BY Zenon DEF Moving, Walked
    <2>2. ChildOk(d) /\ parent[d] \in Procs \cup {NULL}
      BY Zenon DEF Inv, TypeOK
    <2>3. d # c /\ parent[d] # NULL /\ d \in Range(children[parent[d]]) => d \in Range(children'[parent[d]])
      BY <1>5, <2>2, Zenon DEF Drops
    <2>4. QED
      BY <1>7, <2>1, <2>2, <2>3, Zenon DEF ChildOk
  <1>11. QED
    BY <1>1, <1>3, <1>4, <1>6, <1>8, <1>9, <1>10, ZenonT(30) DEF Inv

LEMMA ForkFailsStep == \A t \in Threads : Inv /\ ForkFails(t) => Inv'
  <1>1. SUFFICES ASSUME NEW t \in Threads, Inv, ForkFails(t)
                 PROVE  Inv'
    OBVIOUS
  <1>2. PICK p : p = proc[t]
    OBVIOUS
  <1>3. PICK c : c = kid[t]
    OBVIOUS
  <1>4. /\ TypeOK /\ pc[t] = "forking" /\ Goto(t, "unref") /\ proc_remove_child(p, c)
        /\ UNCHANGED <<pstate, parent, refcount, live, threads, freed, proc, kid, walk, want>>
    BY <1>1, <1>2, <1>3, Zenon DEF Inv, ForkFails, At, locals
  <1>5. p \in Procs /\ pstate[p] = "RUNNING"
    BY <1>1, <1>2, <1>4, CountedRuns, ZenonT(30) DEF Running, Labels, Exiting
  <1>6. /\ c \in Procs /\ pstate[c] = "RUNNING" /\ parent[c] = p /\ c \notin freed
        /\ \A u \in Threads \ {t} : kid[u] # c
    BY <1>1, <1>2, <1>3, <1>4, HeldChild, Zenon DEF Inv, HoldOk, Holding
  <1>7. PICK r \in Seq(Procs) : /\ children' = [children EXCEPT ![p] = r]
                                /\ Drops(r, children[p], c)
    <2>1. children[p] \in Seq(Procs) /\ IsInjective(children[p])
      BY <1>1, <1>4, <1>5, Zenon DEF Inv, TypeOK, ListOk
    <2>2. CASE c \notin Range(children[p])
      <3>1. Drops(children[p], children[p], c)
        BY <2>1, <2>2, Zenon DEF Drops
      <3>2. QED
        BY <1>4, <2>1, <2>2, <3>1, Zenon DEF proc_remove_child
    <2>3. CASE c \in Range(children[p])
      <3>1. PICK n : n = PlaceOf(children[p], c)
        BY Zenon
      <3>2. children' = [children EXCEPT ![p] = Unlinked(children[p], n)]
        BY <1>4, <2>3, <3>1, ZenonT(30) DEF proc_remove_child
      <3>3. n \in 1 .. Len(children[p]) /\ children[p][n] = c
        BY <2>1, <2>3, <3>1, PlaceList, Zenon
      <3>4. /\ Unlinked(children[p], n) \in Seq(Procs) /\ IsInjective(Unlinked(children[p], n))
            /\ Range(Unlinked(children[p], n)) = Range(children[p]) \ {children[p][n]}
        BY <2>1, <3>3, DropList, Zenon
      <3>5. QED
        BY <3>2, <3>3, <3>4, Zenon DEF Drops
    <2>4. QED
      BY <2>2, <2>3, ZenonT(30)
  <1>8. /\ pc' \in [Threads -> Labels] /\ pc'[t] = "unref" /\ \A u \in Threads \ {t} : pc'[u] = pc[u]
    BY <1>4, Zenon DEF TypeOK, Goto, Labels
  <1>9. TypeOK'
    BY <1>4, <1>7, <1>8, Zenon DEF TypeOK
  <1>10. ASSUME NEW u \in Threads
         PROVE  HoldOk(u)'
    <2>1. HoldOk(u)
      BY <1>1, ZenonT(30) DEF Inv
    <2>2. CASE u = t
      BY <1>3, <1>4, <1>6, <1>8, <2>2, NullAssumption, ZenonT(30) DEF HoldOk, Holding
    <2>3. CASE u # t
      BY <1>4, <1>8, <2>1, <2>3, ZenonT(30) DEF HoldOk
    <2>4. QED
      BY <2>2, <2>3, Zenon
  <1>11. ASSUME NEW u \in Threads
         PROVE  c \notin Range(walk[u])
    <2>1. WalkOk(u) /\ walk[u] \in Seq(Procs)
      BY <1>1, <1>4, Zenon DEF Inv, TypeOK
    <2>2. c \in Range(walk[u]) => pstate[proc[u]] \in Over /\ parent[c] \in {proc[u], init_proc}
      BY <2>1, ListSet, Zenon DEF WalkOk
    <2>3. p # init_proc
      BY <1>1, <1>2, <1>4, InitRuns, Zenon DEF Inv, ThreadOk
    <2>4. QED
      BY <1>5, <1>6, <2>2, <2>3, Zenon DEF Over
  <1>12. QED
    <2>1. /\ pc[t] \in {"run", "wait", "forking"} /\ pc'[t] \in {"reap", "unref"} /\ kid'[t] = c
          /\ \A u \in Threads \ {t} : pc'[u] = pc[u] /\ kid'[u] = kid[u]
          /\ UNCHANGED <<pstate, parent, refcount, live, freed, proc, walk>>
      BY <1>3, <1>4, <1>8, ZenonT(30)
    <2>2. QED
      BY <1>1, <1>5, <1>6, <1>7, <1>9, <1>10, <1>11, <2>1, TakeStep, ZenonT(30)
=============================================================================
