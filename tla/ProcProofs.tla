----------------------------- MODULE ProcProofs -----------------------------
(***************************************************************************)
(* Proofs about Proc: the other steps of the invariant of ProcSteps, and   *)
(* the theorems that follow from it.                                       *)
(***************************************************************************)
EXTENDS ProcSteps

-----------------------------------------------------------------------------
LEMMA WaitStep == \A t \in Threads, w \in Procs \cup {ANY} : Inv /\ proc_wait(t, w) => Inv'
  <1>1. SUFFICES ASSUME NEW t \in Threads, NEW w \in Procs \cup {ANY}, Inv, proc_wait(t, w)
                 PROVE  Inv'
    BY Zenon
  <1>2. PICK p : p = proc[t]
    BY Zenon
  <1>3. CASE UNCHANGED <<children, kid>>
    BY <1>1, <1>3, NotFoundStep, Zenon
  <1>4. CASE \E n \in Zombies(p, w) :
               /\ children' = [children EXCEPT ![p] = Unlinked(@, n)]
               /\ kid' = [kid EXCEPT ![t] = children[p][n]]
               /\ want' = [want EXCEPT ![t] = NULL]
               /\ Goto(t, "reap")
    <2>1. PICK n \in Zombies(p, w) :
               /\ children' = [children EXCEPT ![p] = Unlinked(children[p], n)]
               /\ kid' = [kid EXCEPT ![t] = children[p][n]]
               /\ want' = [want EXCEPT ![t] = NULL]
               /\ Goto(t, "reap")
      BY <1>4, Zenon
    <2>2. /\ TypeOK /\ pc[t] \in {"run", "wait"}
          /\ UNCHANGED <<pstate, parent, refcount, live, threads, freed, proc, walk>>
      BY <1>1, Zenon DEF Inv, proc_wait, InWait, At
    <2>3. p \in Procs /\ pstate[p] = "RUNNING"
      BY <1>1, <1>2, <2>2, CountedRuns, Zenon DEF Running, Labels, Exiting
    <2>4. children[p] \in Seq(Procs) /\ IsInjective(children[p]) /\ ListOk(p)
      BY <1>1, <2>2, <2>3, Zenon DEF Inv, TypeOK, ListOk
    <2>5. n \in 1 .. Len(children[p]) /\ pstate[children[p][n]] = "ZOMBIE"
      BY <2>1, <2>4, SMTT(30) DEF Zombies, Matching
    <2>6. PICK c : c = children[p][n]
      BY Zenon
    <2>7. c \in Procs /\ c \in Range(children[p])
      BY <2>4, <2>5, <2>6, ListSet, Zenon
    <2>8. /\ parent[c] = p /\ Alive(c) /\ \A u \in Threads : c \notin Range(walk[u])
      BY <2>3, <2>4, <2>7, ZenonT(30) DEF ListOk
    <2>9. PICK r : r = Unlinked(children[p], n)
      BY Zenon
    <2>10. r \in Seq(Procs) /\ Drops(r, children[p], c)
      <3>1. /\ Unlinked(children[p], n) \in Seq(Procs) /\ IsInjective(Unlinked(children[p], n))
            /\ Range(Unlinked(children[p], n)) = Range(children[p]) \ {children[p][n]}
        BY <2>4, <2>5, DropList, Zenon
      <3>2. QED
        BY <2>6, <2>9, <3>1, Zenon DEF Drops
    <2>11. /\ children' = [children EXCEPT ![p] = r] /\ kid' = [kid EXCEPT ![t] = c]
      BY <2>1, <2>6, <2>9, Zenon
    <2>12. /\ pc' \in [Threads -> Labels] /\ pc'[t] = "reap" /\ \A u \in Threads \ {t} : pc'[u] = pc[u]
      BY <2>1, <2>2, Zenon DEF TypeOK, Goto, Labels
    <2>13. /\ kid' \in [Threads -> Procs \cup {NULL}] /\ kid'[t] = c
           /\ \A u \in Threads \ {t} : kid'[u] = kid[u]
      BY <2>2, <2>7, <2>11, Zenon DEF TypeOK
    <2>14. TypeOK'
      <3>1. want' \in [Threads -> Procs \cup {ANY, NULL}]
        BY <2>1, <2>2, Zenon DEF TypeOK
      <3>2. children' \in [Procs -> Seq(Procs)]
        BY <2>2, <2>10, <2>11, Zenon DEF TypeOK
      <3>3. QED
        BY <2>2, <2>12, <2>13, <3>1, <3>2, Zenon DEF TypeOK
    <2>15. ASSUME NEW u \in Threads \ {t}
           PROVE  kid[u] # c
      <3>1. HoldOk(u)
        BY <1>1, Zenon DEF Inv
      <3>2. kid[u] = c => pc[u] \in {"reap", "unref"}
        BY <2>5, <2>6, <2>7, <3>1, NullAssumption, ZenonT(30) DEF HoldOk, Holding
      <3>3. QED
        BY <2>8, <3>2, Zenon DEF Alive, Taken
    <2>16. ASSUME NEW u \in Threads
           PROVE  HoldOk(u)'
      <3>1. HoldOk(u)
        BY <1>1, Zenon DEF Inv
      <3>2. CASE u = t
        BY <2>2, <2>5, <2>6, <2>7, <2>8, <2>12, <2>13, <2>15, <3>2, NullAssumption, ZenonT(30) DEF HoldOk, Holding, Alive
      <3>3. CASE u # t
        <4>1. kid[u] # c /\ kid'[u] = kid[u] /\ pc'[u] = pc[u]
          BY <2>12, <2>13, <2>15, <3>3, Zenon
        <4>2. kid[u] # NULL => \A x \in Threads : kid'[x] = kid[u] => x = u
          BY <2>13, <3>1, <4>1, Zenon DEF HoldOk
        <4>3. QED
          BY <2>2, <3>1, <4>1, <4>2, Zenon DEF HoldOk
      <3>4. QED
        BY <3>2, <3>3, Zenon
    <2>17. QED
      <3>1. /\ pc[t] \in {"run", "wait", "forking"} /\ pc'[t] \in {"reap", "unref"} /\ kid'[t] = c
            /\ \A u \in Threads \ {t} : pc'[u] = pc[u] /\ kid'[u] = kid[u]
            /\ UNCHANGED <<pstate, parent, refcount, live, freed, proc, walk>>
        BY <2>2, <2>12, <2>13, Zenon
      <3>2. QED
        BY <1>1, <2>3, <2>7, <2>8, <2>10, <2>11, <2>14, <2>16, <3>1, TakeStep, ZenonT(30)
  <1>5. QED
    BY <1>1, <1>2, <1>3, <1>4, Zenon DEF proc_wait

\* proc_fork: nothing leads to a process that was not allocated before.
LEMMA ForkStep == \A t \in Threads, c \in Procs : Inv /\ proc_fork(t, c) => Inv'
  <1>1. SUFFICES ASSUME NEW t \in Threads, NEW c \in Procs, Inv, proc_fork(t, c)
                 PROVE  Inv'
    BY Zenon
  <1>2. PICK p : p = proc[t]
    BY Zenon
  <1>3. /\ TypeOK /\ pc[t] = "run" /\ t # InitThread /\ pstate[c] = "NONE" /\ Goto(t, "forking")
        /\ pstate' = [pstate EXCEPT ![c] = "RUNNING"] /\ refcount' = [refcount EXCEPT ![c] = 1]
        /\ parent' = [parent EXCEPT ![c] = p] /\ children' = [children EXCEPT ![p] = Pushed(children[p], c)]
        /\ kid' = [kid EXCEPT ![t] = c]
        /\ UNCHANGED <<live, threads, freed, proc, walk, want>>
    BY <1>1, <1>2, Zenon DEF Inv, proc_fork, User, At, proc_add_child
  <1>4. /\ p \in Procs /\ pstate[p] = "RUNNING" /\ p # c
    BY <1>1, <1>2, <1>3, CountedRuns, ZenonT(30) DEF Running, Labels, Exiting
  <1>5. /\ pc' \in [Threads -> Labels] /\ pc'[t] = "forking" /\ \A u \in Threads \ {t} : pc'[u] = pc[u]
    BY <1>3, Zenon DEF TypeOK, Goto, Labels
  <1>6. /\ kid' \in [Threads -> Procs \cup {NULL}] /\ kid'[t] = c
        /\ \A u \in Threads \ {t} : kid'[u] = kid[u]
    BY <1>3, Zenon DEF TypeOK
  <1>7. /\ pstate' \in [Procs -> {"NONE", "RUNNING", "ZOMBIE", "DEAD"}] /\ pstate'[c] = "RUNNING"
        /\ \A q \in Procs \ {c} : pstate'[q] = pstate[q]
    BY <1>3, Zenon DEF TypeOK
  <1>8. /\ refcount' \in [Procs -> Nat] /\ refcount'[c] = 1
        /\ \A q \in Procs \ {c} : refcount'[q] = refcount[q]
    BY <1>3, Zenon DEF TypeOK
  <1>9. /\ parent' \in [Procs -> Procs \cup {NULL}] /\ parent'[c] = p
        /\ \A q \in Procs \ {c} : parent'[q] = parent[q]
    BY <1>3, <1>4, Zenon DEF TypeOK
  <1>10. children[p] \in Seq(Procs)
    BY <1>3, <1>4, Zenon DEF TypeOK
  <1>11. /\ Pushed(children[p], c) \in Seq(Procs)
         /\ Range(Pushed(children[p], c)) = Range(children[p]) \cup {c}
         /\ IsInjective(children[p]) /\ c \notin Range(children[p]) => IsInjective(Pushed(children[p], c))
    <2>1. Pushed(children[p], c) \in Seq(Procs)
      BY <1>10, PushList, Zenon
    <2>2. Range(Pushed(children[p], c)) = Range(children[p]) \cup {c}
      BY <1>10, PushList, SMTT(30)
    <2>3. IsInjective(children[p]) /\ c \notin Range(children[p]) => IsInjective(Pushed(children[p], c))
      BY <1>10, PushList, Zenon
    <2>4. QED
      BY <2>1, <2>2, <2>3, Zenon
  <1>12. /\ children' \in [Procs -> Seq(Procs)]
         /\ Range(children'[p]) = Range(children[p]) \cup {c}
         /\ IsInjective(children[p]) /\ c \notin Range(children[p]) => IsInjective(children'[p])
         /\ \A q \in Procs \ {p} : children'[q] = children[q]
    BY <1>3, <1>4, <1>11, Zenon DEF TypeOK
  <1>13. TypeOK' /\ pstate'[init_proc] = "RUNNING"
    <2>1. pstate'[init_proc] = "RUNNING"
      BY <1>1, <1>7, InitRuns, Zenon
    <2>2. QED
      BY <1>3, <1>5, <1>6, <1>7, <1>8, <1>9, <1>12, <2>1, Zenon DEF TypeOK
  <1>14. /\ c \notin freed /\ children[c] = << >> /\ live[c] = 0 /\ c # init_proc
         /\ \A u \in Threads : proc[u] # c /\ kid[u] # c
    <2>1. c \notin freed /\ children[c] = << >> /\ live[c] = 0 /\ c # init_proc
      BY <1>1, <1>3, Zenon DEF Inv, RefOk, LiveOk
    <2>2. ASSUME NEW u \in Threads
          PROVE  proc[u] # c /\ kid[u] # c
      BY <1>1, <1>3, NullAssumption, ZenonT(30) DEF Inv, ThreadOk, HoldOk
    <2>3. QED
      BY <2>1, <2>2, Zenon
  <1>15. ~Alive(c) /\ Alive(c)' /\ \A d \in Procs \ {c} : Alive(d)' = Alive(d)
    <2>1. \A d \in Procs : Taken(d)' = Taken(d)
      BY <1>3, <1>5, <1>6, Zenon DEF Taken
    <2>2. Taken(c) = {}
      BY <1>14, Zenon DEF Taken
    <2>3. QED
      BY <1>3, <1>7, <1>14, <2>1, <2>2, Zenon DEF Alive
  <1>16. /\ \A q \in Procs : pstate[q] = "RUNNING" => c \notin Range(children[q])
         /\ \A u \in Threads : c \notin Range(walk[u])
    BY <1>1, <1>15, Zenon DEF Inv, ListOk, WalkOk
  <1>17. \A u \in Threads : ThreadOk(u)'
    <2>1. pc'[InitThread] \in Running \ {"forking"}
      BY <1>1, <1>3, <1>5, InitRuns, Zenon
    <2>2. QED
      BY <1>1, <1>3, <1>5, <1>7, <2>1, KeepThreads, ZenonT(30)
  <1>18. ASSUME NEW u \in Threads
         PROVE  HoldOk(u)'
    <2>1. CASE u = t
      BY <1>2, <1>3, <1>5, <1>6, <1>7, <1>9, <1>14, <2>1, NullAssumption, ZenonT(30) DEF HoldOk, Holding
    <2>2. CASE u # t
      <3>1. HoldOk(u) /\ kid[u] \in Procs \cup {NULL} /\ kid[u] # c /\ kid'[u] = kid[u] /\ pc'[u] = pc[u]
        BY <1>1, <1>3, <1>5, <1>6, <1>14, <2>2, ZenonT(30) DEF Inv, TypeOK
      <3>2. kid[u] # NULL => /\ pstate'[kid[u]] = pstate[kid[u]] /\ parent'[kid[u]] = parent[kid[u]]
                             /\ \A w \in Threads : kid'[w] = kid[u] => w = u
        BY <1>6, <1>7, <1>9, <3>1, Zenon DEF HoldOk
      <3>3. QED
        BY <1>3, <3>1, <3>2, SMTT(30) DEF HoldOk, Holding
    <2>3. QED
      BY <2>1, <2>2, Zenon
  <1>19. \A q \in Procs : LiveOk(q)'
    <2>1. \A q \in Procs : pstate'[q] # "RUNNING" => live[q] = 0
      BY <1>1, <1>7, Zenon DEF Inv, LiveOk
    <2>2. \A u \in Threads : /\ pc'[u] \in Running \cup {"exiting"} => pc[u] \in Running \cup {"exiting"}
                             /\ pc'[u] \in ExitSection => pc[u] \in ExitSection
      BY <1>3, <1>5, Zenon DEF ExitSection, Running, Labels, Exiting
    <2>3. QED
      BY <1>1, <1>3, <2>1, <2>2, KeepLive, Zenon
  <1>20. \A q \in Procs : RefOk(q)'
    <2>1. \A q \in Procs : RefOk(q)
      BY <1>1, Zenon DEF Inv
    <2>2. QED
      BY <1>3, <1>4, <1>7, <1>8, <1>12, <1>14, <2>1, ZenonT(30) DEF RefOk
  <1>21. ASSUME NEW u \in Threads
         PROVE  WalkOk(u)'
    <2>1. /\ WalkOk(u) /\ walk[u] \in Seq(Procs) /\ proc[u] # c /\ proc[u] \in Procs \cup {NULL}
          /\ ThreadOk(u)
      BY <1>1, <1>3, <1>14, ZenonT(30) DEF Inv, TypeOK
    <2>2. Range(walk[u]) \subseteq Procs \ {c}
      BY <1>16, <2>1, ListSet, ZenonT(30)
    <2>3. /\ pc'[u] \in {"walk", "adopt"} => pc'[u] = pc[u]
          /\ walk[u] # << >> => pc'[u] = pc[u]
      BY <1>3, <1>5, <2>1, Zenon DEF WalkOk
    <2>4. (pc'[u] \in {"walk", "adopt"} \/ walk[u] # << >>) =>
             proc[u] \in Procs /\ pstate'[proc[u]] = pstate[proc[u]] /\ pstate[proc[u]] \in Over
      BY <1>7, <2>1, <2>3, Zenon DEF WalkOk, ThreadOk
    <2>5. \A d \in Range(walk[u]) : Alive(d)' /\ parent'[d] = parent[d]
      BY <1>9, <1>15, <2>1, <2>2, Zenon DEF WalkOk
    <2>6. pc[u] = "adopt" => Head(walk[u]) \in Range(walk[u])
      BY <2>1, TailList, Zenon DEF WalkOk
    <2>7. pc'[u] \in {"walk", "adopt"} =>
             \A d \in Procs : Alive(d)' /\ parent'[d] = proc[u] => d \in Range(walk[u])
      BY <1>4, <1>9, <1>15, <2>1, <2>3, <2>4, ZenonT(30) DEF WalkOk, Over
    <2>8. QED
      BY <1>3, <2>1, <2>3, <2>4, <2>5, <2>6, <2>7, ZenonT(30) DEF WalkOk
  <1>22. ASSUME NEW q \in Procs
         PROVE  ListOk(q)'
    <2>1. ListOk(q) /\ children[q] \in Seq(Procs)
      BY <1>1, <1>3, Zenon DEF Inv, TypeOK
    <2>2. Range(children[q]) \subseteq Procs
      BY <2>1, ListSet, Zenon
    <2>3. CASE q = p
      BY <1>3, <1>4, <1>9, <1>12, <1>15, <1>16, <2>1, <2>2, <2>3, SMTT(30) DEF ListOk
    <2>4. CASE q = c
      <3>1. Range(children[q]) = {}
        BY <1>14, <2>1, <2>4, ListSet, Zenon
      <3>2. QED
        BY <1>4, <1>12, <2>1, <2>4, <3>1, Zenon DEF ListOk
    <2>5. CASE q # p /\ q # c
      <3>1. children'[q] = children[q] /\ pstate'[q] = pstate[q]
        BY <1>7, <1>12, <2>5, ZenonT(30)
      <3>2. pstate[q] = "RUNNING" => \A d \in Range(children[q]) : d # c /\ parent'[d] = parent[d] /\ Alive(d)'
        BY <1>9, <1>15, <1>16, <2>1, <2>2, ZenonT(30) DEF ListOk
      <3>3. QED
        BY <1>3, <2>1, <3>1, <3>2, Zenon DEF ListOk
    <2>6. QED
      BY <2>3, <2>4, <2>5, ZenonT(30)
  <1>23. ASSUME NEW d \in Procs
         PROVE  ChildOk(d)'
    <2>1. (Moving(d) => Moving(d)') /\ (Walked(d) => Walked(d)')
      BY <1>3, <1>5, Zenon DEF Moving, Walked
    <2>2. CASE d = c
      BY <1>4, <1>7, <1>9, <1>12, <2>2, Zenon DEF ChildOk
    <2>3. CASE d # c
      <3>1. ChildOk(d) /\ parent[d] \in Procs \cup {NULL} /\ parent'[d] = parent[d]
        BY <1>1, <1>3, <1>9, <2>3, ZenonT(30) DEF Inv, TypeOK
      <3>2. parent[d] # NULL => Range(children[parent[d]]) \subseteq Range(children'[parent[d]])
        BY <1>12, <3>1, Zenon
      <3>3. parent[d] # NULL /\ pstate[parent[d]] = "RUNNING" => pstate'[parent[d]] = "RUNNING"
        BY <1>7, <3>1, Zenon
      <3>4. QED
        BY <1>15, <2>1, <2>3, <3>1, <3>2, <3>3, Zenon DEF ChildOk
    <2>4. QED
      BY <2>2, <2>3, Zenon
  <1>24. QED
    BY <1>13, <1>17, <1>18, <1>19, <1>20, <1>21, <1>22, <1>23, ZenonT(30) DEF Inv

-----------------------------------------------------------------------------
\* proc_exit, step by step.  It runs in a thread of a process other than init.
LEMMA ExitProcess ==
    ASSUME Inv, NEW t \in Threads, pc[t] \in ExitSection
    PROVE  /\ proc[t] \in Procs /\ proc[t] # init_proc /\ t # InitThread /\ live[proc[t]] = 0
           /\ pstate[proc[t]] \in Over \cup {"RUNNING"} /\ walk[t] \in Seq(Procs)
  <1>1. pc[t] \notin Running /\ pc[t] # "none"
    BY Zenon DEF ExitSection, Running, Exiting
  <1>2. t # InitThread
    BY <1>1, InitRuns, Zenon
  <1>3. proc[t] \in Procs /\ proc[t] # init_proc /\ pstate[proc[t]] # "NONE"
    BY <1>1, <1>2, Zenon DEF Inv, TypeOK, ThreadOk
  <1>4. QED
    BY <1>2, <1>3, ZenonT(30) DEF Inv, TypeOK, LiveOk, Over

LEMMA ExitKeeps ==
    ASSUME Inv, NEW t \in Threads, pc[t] \in {"proc_exit", "walk", "adopt"},
           pc'[t] \in {"walk", "adopt", "wake_parent"},
           \A u \in Threads \ {t} : pc'[u] = pc[u],
           UNCHANGED <<refcount, live, freed, proc, kid>>,
           \A q \in Procs : \/ pstate'[q] = pstate[q]
                            \/ q = proc[t] /\ pstate[q] = "RUNNING" /\ pstate'[q] = "ZOMBIE",
           \A u \in Threads : pc[u] = "forking" => parent'[kid[u]] = parent[kid[u]],
           \A q \in Procs : pstate[q] = "NONE" => children'[q] = children[q]
    PROVE  /\ pstate'[init_proc] = "RUNNING"
           /\ \A u \in Threads : ThreadOk(u)' /\ HoldOk(u)'
           /\ \A q \in Procs : LiveOk(q)' /\ RefOk(q)' /\ (Alive(q)' = Alive(q))
  <1>1. /\ proc[t] \in Procs /\ proc[t] # init_proc /\ t # InitThread /\ live[proc[t]] = 0
    BY ExitProcess, Zenon DEF ExitSection
  <1>2. pstate'[init_proc] = "RUNNING"
    BY <1>1, InitRuns, Zenon
  <1>3. \A u \in Threads : ThreadOk(u)'
    <2>1. pc'[InitThread] \in Running \ {"forking"}
      BY <1>1, InitRuns, Zenon
    <2>2. \A u \in Threads : pc'[u] = "none" <=> pc[u] = "none"
      BY Zenon
    <2>3. QED
      BY <2>1, <2>2, KeepThreads, ZenonT(30)
  <1>4. \A u \in Threads : HoldOk(u)'
    <2>1. \A u \in Threads : pc'[u] \in Holding \/ pc[u] \in Holding => pc'[u] = pc[u]
      BY Zenon DEF Holding
    <2>2. QED
      BY <2>1, NewbornHasNoThread, KeepHold, Zenon
  <1>5. \A q \in Procs : LiveOk(q)'
    <2>1. \A q \in Procs : pstate'[q] # "RUNNING" => live[q] = 0
      BY <1>1, Zenon DEF Inv, LiveOk
    <2>2. \A u \in Threads : /\ pc'[u] \in Running \cup {"exiting"} => pc[u] \in Running \cup {"exiting"}
                             /\ pc'[u] \in ExitSection => pc[u] \in ExitSection
      BY ZenonT(30) DEF ExitSection, Running, Labels, Exiting
    <2>3. QED
      BY <2>1, <2>2, KeepLive, Zenon
  <1>6. \A q \in Procs : RefOk(q)'
    BY KeepRefs, Zenon
  <1>7. ASSUME NEW q \in Procs
        PROVE  Alive(q)' = Alive(q)
    <2>1. Taken(q)' = Taken(q)
      BY ZenonT(30) DEF Taken
    <2>2. QED
      BY <2>1, Zenon DEF Alive
  <1>8. QED
    BY <1>2, <1>3, <1>4, <1>5, <1>6, <1>7, Zenon

LEMMA ProcExitStep == \A t \in Threads : Inv /\ proc_exit(t) => Inv'
  <1>1. SUFFICES ASSUME NEW t \in Threads, Inv, proc_exit(t)
                 PROVE  Inv'
    BY Zenon
  <1>2. PICK p : p = proc[t]
    BY Zenon
  <1>3. /\ TypeOK /\ pc[t] = "proc_exit"
        /\ UNCHANGED <<parent, children, refcount, live, threads, freed, proc, kid, want>>
    BY <1>1, Zenon DEF Inv, proc_exit, At
  <1>4. /\ p \in Procs /\ p # init_proc /\ t # InitThread /\ pstate[p] \in Over \cup {"RUNNING"}
    BY <1>1, <1>2, <1>3, ExitProcess, ZenonT(30) DEF ExitSection
  <1>5. CASE pstate[p] \in Over
    <2>1. Goto(t, "unlink") /\ UNCHANGED <<pstate, walk>>
      BY <1>1, <1>2, <1>5, ZenonT(30) DEF proc_exit, Over
    <2>2. Moved(pc[t], "unlink") /\ "unlink" \in Labels
      BY <1>3, Zenon DEF Moved, Labels, Exiting
    <2>3. QED
      BY <1>1, <1>3, <1>4, <2>1, <2>2, GotoStep, Zenon DEF TypeOK
  <1>6. CASE pstate[p] = "RUNNING"
    <2>1. /\ pstate' = [pstate EXCEPT ![p] = "ZOMBIE"]
          /\ walk' = [walk EXCEPT ![t] = children[p]] /\ Goto(t, "walk")
      BY <1>1, <1>2, <1>6, ZenonT(30) DEF proc_exit
    <2>2. /\ pstate' \in [Procs -> {"NONE", "RUNNING", "ZOMBIE", "DEAD"}] /\ pstate'[p] = "ZOMBIE"
          /\ \A q \in Procs \ {p} : pstate'[q] = pstate[q]
      BY <1>3, <1>4, <2>1, Zenon DEF TypeOK
    <2>3. /\ walk' \in [Threads -> Seq(Procs)] /\ walk'[t] = children[p]
          /\ \A u \in Threads \ {t} : walk'[u] = walk[u]
      BY <1>3, <1>4, <2>1, Zenon DEF TypeOK
    <2>4. /\ pc' \in [Threads -> Labels] /\ pc'[t] = "walk" /\ \A u \in Threads \ {t} : pc'[u] = pc[u]
      BY <1>3, <2>1, Zenon DEF TypeOK, Goto, Labels, Exiting
    <2>5. TypeOK'
      BY <1>3, <2>2, <2>3, <2>4, Zenon DEF TypeOK
    <2>6. /\ pstate'[init_proc] = "RUNNING"
          /\ \A u \in Threads : ThreadOk(u)' /\ HoldOk(u)'
          /\ \A q \in Procs : LiveOk(q)' /\ RefOk(q)' /\ (Alive(q)' = Alive(q))
      BY <1>1, <1>2, <1>3, <1>6, <2>2, <2>4, ExitKeeps, ZenonT(30)
    <2>7. ListOk(p) /\ Range(children[p]) \subseteq Procs
      BY <1>1, <1>3, <1>4, ListSet, ZenonT(30) DEF Inv, TypeOK
    <2>8. \A c \in Range(children[p]) : /\ parent[c] = p /\ Alive(c)
                                        /\ \A u \in Threads : c \notin Range(walk[u])
      BY <1>6, <2>7, Zenon DEF ListOk
    <2>9. ASSUME NEW c \in Procs, Moving(c)
          PROVE  parent[c] # p
      <3>1. PICK u \in Threads : walk[u] # << >> /\ Head(walk[u]) = c
        BY <2>9, ZenonT(30) DEF Moving
      <3>2. WalkOk(u) /\ c \in Range(walk[u])
        BY <1>1, <1>3, <3>1, TailList, Zenon DEF Inv, TypeOK
      <3>3. parent[c] \in {proc[u], init_proc} /\ pstate[proc[u]] \in Over
        BY <3>1, <3>2, ZenonT(30) DEF WalkOk
      <3>4. QED
        BY <1>4, <1>6, <3>3, Zenon DEF Over
    <2>10. WalkOk(t)'
      <3>1. \A c \in Procs : Alive(c) /\ parent[c] = p => c \in Range(children[p])
        BY <1>1, <1>4, <2>9, NullAssumption, Zenon DEF Inv, ChildOk
      <3>2. \A c \in Range(children[p]) : \A u \in Threads : c \in Range(walk'[u]) => u = t
        BY <2>3, <2>8, Zenon
      <3>3. \A c \in Range(children[p]) : Alive(c)'
        BY <2>6, <2>7, <2>8, Zenon
      <3>4. \A c \in Procs : Alive(c)' /\ parent[c] = p => c \in Range(children[p])
        BY <2>6, <3>1, Zenon
      <3>5. QED
        BY <1>2, <1>3, <2>2, <2>3, <2>4, <2>7, <2>8, <3>2, <3>3, <3>4, ZenonT(30) DEF WalkOk, Over, ListOk
    <2>11. ASSUME NEW u \in Threads \ {t}
           PROVE  WalkOk(u)'
      <3>1. /\ WalkOk(u) /\ walk[u] \in Seq(Procs) /\ pc'[u] = pc[u] /\ walk'[u] = walk[u]
        BY <1>1, <1>3, <2>3, <2>4, Zenon DEF Inv, TypeOK
      <3>2. Range(walk[u]) \subseteq Procs
        BY <3>1, ListSet, Zenon
      <3>3. pc[u] \in {"walk", "adopt"} \/ walk[u] # << >> => proc[u] \in Procs
        <4>1. proc[u] \in Procs \cup {NULL} /\ (proc[u] = NULL => pc[u] = "none")
          BY <1>1, <1>3, Zenon DEF Inv, TypeOK, ThreadOk
        <4>2. pc[u] \in {"walk", "adopt"} \/ walk[u] # << >> => pc[u] # "none"
          BY <3>1, Zenon DEF WalkOk
        <4>3. QED
          BY <4>1, <4>2, Zenon
      <3>4. pc[u] \in {"walk", "adopt"} \/ walk[u] # << >> => pstate'[proc[u]] \in Over
        BY <2>2, <3>1, <3>3, Zenon DEF WalkOk, Over
      <3>5. \A c \in Range(walk[u]) : Alive(c)' /\ \A x \in Threads : c \in Range(walk'[x]) => x = u
        BY <2>3, <2>6, <2>8, <3>1, <3>2, ZenonT(30) DEF WalkOk
      <3>6. QED
        BY <1>3, <2>6, <3>1, <3>4, <3>5, Zenon DEF WalkOk
    <2>12. ASSUME NEW q \in Procs
           PROVE  ListOk(q)'
      <3>1. ListOk(q) /\ Range(children[q]) \subseteq Procs
        BY <1>1, <1>3, ListSet, Zenon DEF Inv, TypeOK
      <3>2. pstate'[q] = "RUNNING" => q # p /\ pstate[q] = "RUNNING"
        BY <2>2, ZenonT(30)
      <3>3. pstate'[q] = "RUNNING" =>
               \A c \in Range(children[q]) : Alive(c)' /\ \A u \in Threads : c \notin Range(walk'[u])
        BY <2>3, <2>6, <2>8, <3>1, <3>2, Zenon DEF ListOk
      <3>4. QED
        BY <1>3, <3>1, <3>2, <3>3, Zenon DEF ListOk
    <2>13. ASSUME NEW c \in Procs, Alive(c)', parent[c] # NULL
           PROVE  /\ c \in Range(children[parent[c]]) \/ Moving(c)'
                  /\ pstate'[parent[c]] = "RUNNING" \/ Walked(c)'
      <3>1. Moving(c) => Moving(c)'
        BY <1>3, <2>3, <2>4, Zenon DEF Moving
      <3>2. /\ c \in Range(children[parent[c]]) \/ Moving(c)
            /\ pstate[parent[c]] = "RUNNING" \/ Walked(c)
            /\ Alive(c) /\ parent[c] \in Procs
        BY <1>1, <1>3, <2>6, <2>13, ZenonT(30) DEF Inv, ChildOk, TypeOK
      <3>3. CASE parent[c] = p
        <4>1. c \in Range(children[p])
          BY <2>9, <3>2, <3>3, Zenon
        <4>2. c \in Range(walk'[t])
          BY <2>3, <4>1, Zenon
        <4>3. QED
          BY <1>1, <3>3, <4>1, <4>2, Zenon DEF Walked
      <3>4. CASE parent[c] # p
        <4>1. Walked(c) => Walked(c)'
          <5>1. t \in Threads /\ walk[t] = << >> /\ walk[t] \in Seq(Procs)
            BY <1>1, <1>3, ZenonT(30) DEF Inv, WalkOk, TypeOK
          <5>2. Range(walk[t]) = {}
            BY <5>1, ListSet, Zenon
          <5>3. QED
            BY <2>3, <5>2, Zenon DEF Walked
        <4>2. QED
          BY <2>2, <3>1, <3>2, <3>4, <4>1, Zenon
      <3>5. QED
        BY <3>3, <3>4, Zenon
    <2>15. \A c \in Procs : ChildOk(c)'
      BY <1>3, <2>13, Zenon DEF ChildOk
    <2>14. QED
      BY <2>5, <2>6, <2>10, <2>11, <2>12, <2>15, ZenonT(30) DEF Inv
  <1>7. QED
    BY <1>4, <1>5, <1>6, Zenon

LEMMA ReparentStep == \A t \in Threads : Inv /\ Reparent(t) => Inv'
  <1>1. SUFFICES ASSUME NEW t \in Threads, Inv, Reparent(t)
                 PROVE  Inv'
    OBVIOUS
  <1>2. PICK c : c = Head(walk[t])
    BY Zenon
  <1>3. /\ TypeOK /\ pc[t] = "walk" /\ walk[t] # << >>
        /\ UNCHANGED <<pstate, children, refcount, live, threads, freed, proc, kid, walk, want>>
        /\ parent' = [parent EXCEPT ![c] = init_proc] /\ Goto(t, "adopt")
    BY <1>1, <1>2, ZenonT(30) DEF Inv, Reparent, At, locals
  <1>4. /\ WalkOk(t) /\ walk[t] \in Seq(Procs)
    BY <1>1, <1>3, Zenon DEF Inv, TypeOK
  <1>5. c \in Range(walk[t]) /\ c \in Procs
    BY <1>2, <1>3, <1>4, TailList, ListSet, Zenon
  <1>6. /\ parent[c] \in {proc[t], init_proc} /\ Alive(c) /\ pstate[proc[t]] \in Over
        /\ \A u \in Threads : c \in Range(walk[u]) => u = t
    BY <1>3, <1>4, <1>5, Zenon DEF WalkOk
  <1>7. /\ proc[t] # init_proc /\ proc[t] \in Procs /\ init_proc \in Procs
    BY <1>1, <1>3, ExitProcess, BootAssumption, Zenon DEF ExitSection
  <1>8. /\ parent' \in [Procs -> Procs \cup {NULL}] /\ parent'[c] = init_proc
        /\ \A d \in Procs \ {c} : parent'[d] = parent[d]
    BY <1>3, <1>5, <1>7, Zenon DEF TypeOK
  <1>9. /\ pc' \in [Threads -> Labels] /\ pc'[t] = "adopt" /\ \A u \in Threads \ {t} : pc'[u] = pc[u]
    BY <1>3, Zenon DEF TypeOK, Goto, Labels, Exiting
  <1>10. TypeOK'
    BY <1>3, <1>8, <1>9, Zenon DEF TypeOK
  <1>11. ASSUME NEW u \in Threads, pc[u] = "forking"
         PROVE  parent'[kid[u]] = parent[kid[u]]
    <2>1. u # InitThread /\ pc[u] \in Running
      BY <1>11, InitRuns, <1>1, Zenon DEF Running, Labels, Exiting
    <2>2. proc[u] \in Procs /\ pstate[proc[u]] = "RUNNING" /\ proc[u] # init_proc
      BY <1>1, <2>1, CountedRuns, ZenonT(30) DEF Inv, ThreadOk
    <2>3. parent[kid[u]] = proc[u] /\ kid[u] \in Procs
      BY <1>1, <1>3, <1>11, ZenonT(30) DEF Inv, TypeOK, HoldOk, Holding
    <2>4. kid[u] # c
      BY <1>6, <2>2, <2>3, Zenon DEF Over
    <2>5. QED
      BY <1>8, <2>3, <2>4, ZenonT(30)
  <1>12. /\ pstate'[init_proc] = "RUNNING"
         /\ \A u \in Threads : ThreadOk(u)' /\ HoldOk(u)'
         /\ \A q \in Procs : LiveOk(q)' /\ RefOk(q)' /\ (Alive(q)' = Alive(q))
    BY <1>1, <1>3, <1>9, <1>11, ExitKeeps, ZenonT(30)
  <1>13. ASSUME NEW u \in Threads
         PROVE  WalkOk(u)'
    <2>1. /\ WalkOk(u) /\ walk[u] \in Seq(Procs)
      BY <1>1, <1>3, Zenon DEF Inv, TypeOK
    <2>2. Range(walk[u]) \subseteq Procs
      BY <2>1, ListSet, ZenonT(30)
    <2>3. \A d \in Range(walk[u]) : Alive(d)' /\ parent'[d] \in {proc[u], init_proc}
      BY <1>8, <1>12, <2>1, <2>2, Zenon DEF WalkOk
    <2>4. pc'[u] \in {"walk", "adopt"} => pc[u] \in {"walk", "adopt"} /\ proc[u] # init_proc
      BY <1>1, <1>3, <1>9, ExitProcess, Zenon DEF ExitSection
    <2>5. pc'[u] \in {"walk", "adopt"} =>
             \A d \in Procs : Alive(d)' /\ parent'[d] = proc[u] => d \in Range(walk[u])
      BY <1>8, <1>12, <2>1, <2>4, Zenon DEF WalkOk
    <2>6. pc'[u] = "adopt" => walk[u] # << >> /\ Head(walk[u]) \in Procs
      <3>1. pc'[u] = "adopt" => walk[u] # << >>
        BY <1>3, <1>9, <2>1, Zenon DEF WalkOk
      <3>2. walk[u] # << >> => Head(walk[u]) \in Range(walk[u])
        BY <2>1, TailList, Zenon
      <3>3. QED
        BY <2>2, <3>1, <3>2, Zenon
    <2>7. pc'[u] = "adopt" => parent'[Head(walk[u])] = init_proc
      BY <1>2, <1>8, <1>9, <2>1, <2>6, ZenonT(30) DEF WalkOk
    <2>8. pc'[u] \in {"walk", "adopt", "stranded"} <=> pc[u] \in {"walk", "adopt", "stranded"}
      BY <1>3, <1>9, ZenonT(30)
    <2>9. QED
      BY <1>3, <2>1, <2>3, <2>4, <2>5, <2>6, <2>7, <2>8, ZenonT(30) DEF WalkOk
  <1>14. ASSUME NEW q \in Procs
         PROVE  ListOk(q)'
    <2>1. ListOk(q) /\ Range(children[q]) \subseteq Procs
      BY <1>1, <1>3, ListSet, Zenon DEF Inv, TypeOK
    <2>2. pstate[q] = "RUNNING" => c \notin Range(children[q])
      BY <1>5, <2>1, ZenonT(30) DEF ListOk
    <2>3. QED
      BY <1>3, <1>8, <1>12, <2>1, <2>2, ZenonT(30) DEF ListOk
  <1>15. ASSUME NEW d \in Procs
         PROVE  ChildOk(d)'
    <2>1. (Moving(d) \/ d = c => Moving(d)') /\ (Walked(d) => Walked(d)')
      BY <1>2, <1>3, <1>9, Zenon DEF Moving, Walked
    <2>2. IF d = c THEN pstate'[parent'[d]] = "RUNNING" ELSE parent'[d] = parent[d]
      BY <1>8, <1>12, Zenon
    <2>3. QED
      BY <1>1, <1>3, <1>12, <2>1, <2>2, Zenon DEF Inv, ChildOk
  <1>16. QED
    BY <1>10, <1>12, <1>13, <1>14, <1>15, ZenonT(30) DEF Inv

LEMMA AdoptStep == \A t \in Threads : Inv /\ Adopt(t) => Inv'
  <1>1. SUFFICES ASSUME NEW t \in Threads, Inv, Adopt(t)
                 PROVE  Inv'
    OBVIOUS
  <1>2. PICK c : c = Head(walk[t])
    OBVIOUS
  <1>3. /\ TypeOK /\ pc[t] = "adopt"
        /\ UNCHANGED <<pstate, parent, refcount, live, threads, freed, proc, kid, want>>
        /\ children' = [children EXCEPT ![init_proc] = Pushed(@, c)]
        /\ walk' = [walk EXCEPT ![t] = Tail(@)] /\ Goto(t, "walk")
    BY <1>1, <1>2, ZenonT(30) DEF Inv, Adopt, At, proc_add_child
  <1>4. /\ WalkOk(t) /\ walk[t] \in Seq(Procs) /\ walk[t] # << >> /\ parent[c] = init_proc
    BY <1>1, <1>2, <1>3, ZenonT(30) DEF Inv, TypeOK, WalkOk
  <1>5. /\ Tail(walk[t]) \in Seq(Procs) /\ c \in Range(walk[t]) /\ c \in Procs
        /\ Range(walk[t]) = Range(Tail(walk[t])) \cup {c}
        /\ IsInjective(Tail(walk[t])) /\ c \notin Range(Tail(walk[t]))
    <2>1. IsInjective(walk[t])
      BY <1>4, Zenon DEF WalkOk
    <2>2. Range(walk[t]) \subseteq Procs
      BY <1>4, ListSet, Zenon
    <2>3. QED
      BY <1>2, <1>4, <2>1, <2>2, TailList, Zenon
  <1>6. /\ Alive(c) /\ pstate[proc[t]] \in Over
        /\ \A u \in Threads : c \in Range(walk[u]) => u = t
    BY <1>3, <1>4, <1>5, ZenonT(30) DEF WalkOk
  <1>7. /\ proc[t] # init_proc /\ proc[t] \in Procs /\ init_proc \in Procs
        /\ pstate[init_proc] = "RUNNING"
    BY <1>1, <1>3, ExitProcess, BootAssumption, ZenonT(30) DEF ExitSection, Inv
  <1>8. ListOk(init_proc) /\ children[init_proc] \in Seq(Procs) /\ c \notin Range(children[init_proc])
    BY <1>1, <1>3, <1>5, <1>7, ZenonT(30) DEF Inv, TypeOK, ListOk
  <1>9. /\ Pushed(children[init_proc], c) \in Seq(Procs) /\ IsInjective(Pushed(children[init_proc], c))
        /\ Range(Pushed(children[init_proc], c)) = Range(children[init_proc]) \cup {c}
    <2>1. IsInjective(children[init_proc])
      BY <1>8, Zenon DEF ListOk
    <2>2. \A s \in Seq(Procs) : /\ Pushed(s, c) \in Seq(Procs)
                                /\ Range(Pushed(s, c)) = Range(s) \cup {c}
                                /\ IsInjective(s) /\ c \notin Range(s) => IsInjective(Pushed(s, c))
      BY <1>5, PushList, SMTT(30)
    <2>3. QED
      BY <1>8, <2>1, <2>2, Zenon
  <1>10. /\ children' \in [Procs -> Seq(Procs)] /\ \A q \in Procs \ {init_proc} : children'[q] = children[q]
         /\ children'[init_proc] = Pushed(children[init_proc], c)
    BY <1>3, <1>7, <1>9, Zenon DEF TypeOK
  <1>11. /\ walk' \in [Threads -> Seq(Procs)] /\ \A u \in Threads \ {t} : walk'[u] = walk[u]
         /\ walk'[t] = Tail(walk[t])
    BY <1>3, <1>5, Zenon DEF TypeOK
  <1>12. /\ pc' \in [Threads -> Labels] /\ pc'[t] = "walk" /\ \A u \in Threads \ {t} : pc'[u] = pc[u]
    BY <1>3, Zenon DEF TypeOK, Goto, Labels, Exiting
  <1>13. TypeOK'
    BY <1>3, <1>10, <1>11, <1>12, Zenon DEF TypeOK
  <1>14. /\ pstate'[init_proc] = "RUNNING"
         /\ \A u \in Threads : ThreadOk(u)' /\ HoldOk(u)'
         /\ \A q \in Procs : LiveOk(q)' /\ RefOk(q)' /\ (Alive(q)' = Alive(q))
    BY <1>1, <1>3, <1>7, <1>10, <1>12, ExitKeeps, ZenonT(30)
  <1>15. \A u \in Threads : Range(walk'[u]) \subseteq Range(walk[u]) /\ c \notin Range(walk'[u])
    BY <1>5, <1>6, <1>11, Zenon
  <1>16. ASSUME NEW u \in Threads
         PROVE  WalkOk(u)'
    <2>1. /\ WalkOk(u) /\ walk[u] \in Seq(Procs)
      BY <1>1, <1>3, Zenon DEF Inv, TypeOK
    <2>2. Range(walk[u]) \subseteq Procs
      BY <2>1, ListSet, Zenon
    <2>3. \A d \in Range(walk'[u]) : /\ Alive(d)' /\ parent[d] \in {proc[u], init_proc}
                                     /\ \A x \in Threads : d \in Range(walk'[x]) => x = u
      BY <1>14, <1>15, <2>1, <2>2, Zenon DEF WalkOk
    <2>4. pc'[u] \in {"walk", "adopt"} => pc[u] \in {"walk", "adopt"} /\ proc[u] # init_proc
      BY <1>1, <1>3, <1>12, ExitProcess, Zenon DEF ExitSection
    <2>5. ASSUME pc'[u] \in {"walk", "adopt"}, NEW d \in Procs, Alive(d)', parent[d] = proc[u]
          PROVE  d \in Range(walk'[u])
      <3>1. d \in Range(walk[u]) /\ d # c
        BY <1>4, <1>14, <2>1, <2>4, <2>5, Zenon DEF WalkOk
      <3>2. QED
        BY <1>5, <1>11, <3>1, Zenon
    <2>6. pc'[u] = "adopt" => walk'[u] = walk[u] /\ walk[u] # << >> /\ parent[Head(walk[u])] = init_proc
      BY <1>11, <1>12, <2>1, Zenon DEF WalkOk
    <2>7. IsInjective(walk'[u])
      BY <1>5, <1>11, <2>1, Zenon DEF WalkOk
    <2>8. walk'[u] # << >> => pc'[u] \in {"walk", "adopt", "stranded"} /\ pstate[proc[u]] \in Over
      BY <1>6, <1>11, <1>12, <2>1, Zenon DEF WalkOk
    <2>9. pc'[u] \in {"walk", "adopt"} => pstate[proc[u]] \in Over
      BY <2>1, <2>4, Zenon DEF WalkOk
    <2>10. QED
      BY <1>3, <2>3, <2>5, <2>6, <2>7, <2>8, <2>9, ZenonT(30) DEF WalkOk
  <1>17. ASSUME NEW q \in Procs
         PROVE  ListOk(q)'
    <2>1. ListOk(q) /\ Range(children[q]) \subseteq Procs
      BY <1>1, <1>3, ListSet, ZenonT(30) DEF Inv, TypeOK
    <2>2. CASE q = init_proc
      <3>1. Range(children'[q]) = Range(children[q]) \cup {c}
        BY <1>9, <1>10, <2>2, Zenon
      <3>2. parent[c] = q /\ Alive(c)' /\ \A u \in Threads : c \notin Range(walk'[u])
        BY <1>4, <1>5, <1>6, <1>14, <1>15, <2>2, Zenon
      <3>3. \A d \in Range(children[q]) : /\ parent[d] = q /\ Alive(d)'
                                          /\ \A u \in Threads : d \notin Range(walk'[u])
        BY <1>7, <1>14, <1>15, <2>1, <2>2, ZenonT(30) DEF ListOk
      <3>4. QED
        BY <1>3, <1>9, <1>10, <2>2, <3>1, <3>2, <3>3, SMTT(30) DEF ListOk
    <2>3. CASE q # init_proc
      BY <1>3, <1>10, <1>14, <1>15, <2>1, <2>3, ZenonT(30) DEF ListOk
    <2>4. QED
      BY <2>2, <2>3, ZenonT(30)
  <1>18. ASSUME NEW d \in Procs
         PROVE  ChildOk(d)'
    <2>1. Moving(d) /\ d # c => Moving(d)'
      BY <1>2, <1>3, <1>11, <1>12, Zenon DEF Moving
    <2>2. d = c => d \in Range(children'[parent[d]])
      BY <1>4, <1>9, <1>10, ZenonT(30)
    <2>3. parent[d] # NULL /\ d \in Range(children[parent[d]]) => d \in Range(children'[parent[d]])
      BY <1>3, <1>9, <1>10, ZenonT(30) DEF TypeOK
    <2>4. d # c /\ Walked(d) => Walked(d)'
      <3>1. \A u \in Threads : d # c /\ d \in Range(walk[u]) => d \in Range(walk'[u])
        BY <1>5, <1>11, Zenon
      <3>2. QED
        BY <3>1, Zenon DEF Walked
    <2>5. d = c => pstate'[parent[d]] = "RUNNING"
      BY <1>4, <1>14, Zenon
    <2>6. QED
      BY <1>1, <1>3, <1>14, <2>1, <2>2, <2>3, <2>4, <2>5, ZenonT(30) DEF Inv, ChildOk
  <1>19. QED
    BY <1>13, <1>14, <1>16, <1>17, <1>18 DEF Inv

LEMMA ForgetChildrenStep == \A t \in Threads : Inv /\ ForgetChildren(t) => Inv'
  <1>1. SUFFICES ASSUME NEW t \in Threads, Inv, ForgetChildren(t)
                 PROVE  Inv'
    OBVIOUS
  <1>2. PICK p : p = proc[t]
    OBVIOUS
  <1>3. /\ TypeOK /\ pc[t] = "walk" /\ walk[t] = << >>
        /\ UNCHANGED <<pstate, parent, refcount, live, threads, freed, proc, kid, walk, want>>
        /\ children' = [children EXCEPT ![p] = << >>] /\ Goto(t, "wake_parent")
    BY <1>1, <1>2, Zenon DEF Inv, ForgetChildren, At, locals
  <1>4. /\ WalkOk(t) /\ p \in Procs /\ << >> \in Seq(Procs)
    BY <1>1, <1>2, <1>3, ExitProcess, Zenon DEF Inv, ExitSection
  <1>5. pstate[p] \in Over /\ \A c \in Procs : Alive(c) => parent[c] # p
    <2>1. Range(walk[t]) = {}
      BY <1>3, <1>4, ListSet, Zenon
    <2>2. QED
      BY <1>2, <1>3, <1>4, <2>1, Zenon DEF WalkOk
  <1>6. /\ children' \in [Procs -> Seq(Procs)] /\ children'[p] = << >>
        /\ \A q \in Procs \ {p} : children'[q] = children[q]
    BY <1>3, <1>4, Zenon DEF TypeOK
  <1>7. /\ pc' \in [Threads -> Labels] /\ pc'[t] = "wake_parent" /\ \A u \in Threads \ {t} : pc'[u] = pc[u]
    BY <1>3, Zenon DEF TypeOK, Goto, Labels, Exiting
  <1>8. TypeOK'
    BY <1>3, <1>6, <1>7, Zenon DEF TypeOK
  <1>9. /\ pstate'[init_proc] = "RUNNING"
        /\ \A u \in Threads : ThreadOk(u)' /\ HoldOk(u)'
        /\ \A q \in Procs : LiveOk(q)' /\ RefOk(q)' /\ (Alive(q)' = Alive(q))
    <2>1. \A q \in Procs : pstate[q] = "NONE" => children'[q] = children[q]
      BY <1>5, <1>6, Zenon DEF Over
    <2>2. QED
      BY <1>1, <1>3, <1>7, <2>1, ExitKeeps, Zenon
  <1>10. ASSUME NEW u \in Threads
         PROVE  WalkOk(u)'
    <2>1. /\ WalkOk(u) /\ Range(walk[u]) \subseteq Procs
      BY <1>1, <1>3, ListSet, Zenon DEF Inv, TypeOK
    <2>2. pc'[u] = pc[u] \/ (pc'[u] = "wake_parent" /\ walk[u] = << >>)
      BY <1>3, <1>7, Zenon
    <2>3. \A d \in Range(walk[u]) : Alive(d)'
      BY <1>9, <2>1, Zenon DEF WalkOk
    <2>4. pc'[u] \in {"walk", "adopt"} =>
             \A d \in Procs : Alive(d)' /\ parent[d] = proc[u] => d \in Range(walk[u])
      BY <1>9, <2>1, <2>2, Zenon DEF WalkOk
    <2>5. QED
      BY <1>3, <2>1, <2>2, <2>3, <2>4, Zenon DEF WalkOk
  <1>11. ASSUME NEW q \in Procs
         PROVE  ListOk(q)'
    <2>1. ListOk(q) /\ Range(children[q]) \subseteq Procs
      BY <1>1, <1>3, ListSet, Zenon DEF Inv, TypeOK
    <2>2. IsInjective(children'[q])
      <3>1. IsInjective(<< >>)
        BY DEF IsInjective
      <3>2. QED
        BY <1>6, <2>1, <3>1, ZenonT(30) DEF ListOk
    <2>3. pstate[q] = "RUNNING" => children'[q] = children[q]
      BY <1>5, <1>6, Zenon DEF Over
    <2>4. QED
      BY <1>3, <1>9, <2>1, <2>2, <2>3, Zenon DEF ListOk
  <1>12. ASSUME NEW d \in Procs
         PROVE  ChildOk(d)'
    <2>1. (Moving(d) => Moving(d)') /\ (Walked(d) => Walked(d)')
      BY <1>3, <1>7, ZenonT(30) DEF Moving, Walked
    <2>2. Alive(d) /\ parent[d] # NULL => children'[parent[d]] = children[parent[d]]
      BY <1>3, <1>5, <1>6, ZenonT(30) DEF TypeOK
    <2>3. QED
      BY <1>1, <1>3, <1>9, <2>1, <2>2, ZenonT(30) DEF Inv, ChildOk
  <1>13. QED
    BY <1>8, <1>9, <1>10, <1>11, <1>12 DEF Inv

-----------------------------------------------------------------------------
\* kmain's two processes, each with its one thread.
LEMMA InvInit == Init => Inv
  <1>1. SUFFICES ASSUME Init
                 PROVE  Inv
    BY Zenon
  <1>2. /\ init_proc \in Procs /\ FirstProc \in Procs /\ init_proc # FirstProc
        /\ InitThread \in Threads /\ FirstThread \in Threads /\ InitThread # FirstThread
        /\ NULL \notin Procs
    BY BootAssumption, NullAssumption, Zenon
  <1>3. /\ \A p \in Procs : pstate[p] = IF p \in {init_proc, FirstProc} THEN "RUNNING" ELSE "NONE"
        /\ \A p \in Procs : /\ parent[p] = NULL /\ children[p] = << >>
                            /\ refcount[p] = IF p \in {init_proc, FirstProc} THEN 1 ELSE 0
                            /\ live[p] = IF p \in {init_proc, FirstProc} THEN 1 ELSE 0
        /\ freed = {}
    BY <1>1, Zenon DEF Init
  <1>4. \A t \in Threads : /\ proc[t] = IF t = InitThread THEN init_proc
                                        ELSE IF t = FirstThread THEN FirstProc ELSE NULL
                           /\ pc[t] = IF t \in {InitThread, FirstThread} THEN "run" ELSE "none"
                           /\ kid[t] = NULL /\ walk[t] = << >>
    BY <1>1, Zenon DEF Init
  <1>5. "run" \in Running \ {"forking"} /\ "none" \notin Running \cup {"exiting"} /\ {"run", "none"} \subseteq Labels
        /\ {"run", "none"} \cap (ExitSection \cup Holding \cup {"walk", "adopt"}) = {}
    BY Zenon DEF Running, Labels, Exiting, ExitSection, Holding
  <1>6. Range(<< >>) = {} /\ IsInjective(<< >>)
    <2>1. << >> \in Seq(Procs)
      OBVIOUS
    <2>2. Range(<< >>) = {}
      BY <2>1, ListSet, ZenonT(30)
    <2>3. QED
      BY <2>2 DEF IsInjective
  <1>7. TypeOK
    <2>1. /\ pstate \in [Procs -> {"NONE", "RUNNING", "ZOMBIE", "DEAD"}]
          /\ parent \in [Procs -> Procs \cup {NULL}]
          /\ children \in [Procs -> Seq(Procs)]
          /\ refcount \in [Procs -> Nat] /\ live \in [Procs -> Nat] /\ freed \subseteq Procs
      BY <1>1, SMTT(30) DEF Init
    <2>2. threads \in [Procs -> SUBSET Threads]
      <3>1. <<InitThread>> \in Seq(Threads) /\ <<FirstThread>> \in Seq(Threads) /\ << >> \in Seq(Threads)
        BY <1>2
      <3>2. \A s \in Seq(Threads) : Range(s) \subseteq Threads
        BY ListSet, Zenon
      <3>3. \A p \in Procs : Range(Booted(p, <<InitThread>>, <<FirstThread>>)) \subseteq Threads
        BY <3>1, <3>2, Zenon DEF Booted
      <3>4. QED
        BY <1>1, <3>3, Zenon DEF Init
    <2>3. /\ proc \in [Threads -> Procs \cup {NULL}] /\ pc \in [Threads -> Labels]
          /\ kid \in [Threads -> Procs \cup {NULL}] /\ walk \in [Threads -> Seq(Procs)]
          /\ want \in [Threads -> Procs \cup {ANY, NULL}]
      BY <1>1, <1>2, <1>5, SMTT(30) DEF Init
    <2>4. QED
      BY <2>1, <2>2, <2>3, Zenon DEF TypeOK
  <1>8. ASSUME NEW t \in Threads
        PROVE  ThreadOk(t) /\ HoldOk(t) /\ WalkOk(t)
    <2>1. ThreadOk(t)
      BY <1>2, <1>3, <1>4, <1>5, SMTT(30) DEF ThreadOk
    <2>2. HoldOk(t)
      BY <1>4, <1>5, Zenon DEF HoldOk, Holding
    <2>3. WalkOk(t)
      BY <1>4, <1>5, <1>6, Zenon DEF WalkOk
    <2>4. QED
      BY <2>1, <2>2, <2>3, ZenonT(30)
  <1>9. ASSUME NEW p \in Procs
        PROVE  LiveOk(p) /\ RefOk(p) /\ ListOk(p) /\ ChildOk(p)
    <2>1. LiveOk(p)
      <3>1. Counted(p) = IF p = init_proc THEN {InitThread}
                         ELSE IF p = FirstProc THEN {FirstThread} ELSE {}
        BY <1>2, <1>4, <1>5, SMTT(30) DEF Counted
      <3>2. Cardinality({InitThread}) = 1 /\ Cardinality({FirstThread}) = 1 /\ Cardinality({}) = 0
        BY FS_Singleton, FS_EmptySet, Zenon
      <3>3. Cardinality(Counted(p)) <= live[p]
        BY <1>2, <1>3, <3>1, <3>2, SMTT(30)
      <3>4. QED
        BY <1>3, <1>4, <1>5, <3>3, ZenonT(30) DEF LiveOk
    <2>2. RefOk(p)
      BY <1>3, Zenon DEF RefOk
    <2>3. ListOk(p)
      BY <1>3, <1>6, Zenon DEF ListOk
    <2>4. ChildOk(p)
      BY <1>3, ZenonT(30) DEF ChildOk
    <2>5. QED
      BY <2>1, <2>2, <2>3, <2>4, Zenon
  <1>10. QED
    BY <1>2, <1>3, <1>7, <1>8, <1>9, Zenon DEF Inv

LEMMA InvNext == Inv /\ [Next]_vars => Inv'
  <1>1. SUFFICES ASSUME Inv, [Next]_vars
                 PROVE  Inv'
    BY Zenon
  <1>2. ASSUME NEW t \in Threads, NEW u \in Threads, thread_create(t, u) \/ ForkThread(t, u)
        PROVE  Inv'
    BY <1>1, <1>2, CreateStep, ForkThreadStep, Zenon
  <1>3. ASSUME NEW t \in Threads, NEW c \in Procs, proc_fork(t, c)
        PROVE  Inv'
    BY <1>1, <1>3, ForkStep, Zenon
  <1>4. ASSUME NEW t \in Threads, NEW w \in Procs \cup {ANY}, proc_wait(t, w)
        PROVE  Inv'
    BY <1>1, <1>4, WaitStep, Zenon
  <1>5. ASSUME NEW t \in Threads,
               \/ ForkFails(t) \/ proc_unref(t) \/ Reap(t) \/ Sleep(t) \/ thread_exit(t)
               \/ CountDown(t) \/ proc_unlink_thread(t) \/ Strand(t)
        PROVE  Inv'
    BY <1>1, <1>5, ForkFailsStep, UnrefStep, ReapStep, SleepStep, ExitStep, CountDownStep,
       UnlinkStep, StrandStep, ZenonT(30)
  <1>6. ASSUME NEW t \in Threads,
               \/ proc_exit(t) \/ Reparent(t) \/ Adopt(t) \/ ForgetChildren(t)
               \/ WakeParent(t) \/ WakeInit(t)
        PROVE  Inv'
    BY <1>1, <1>6, ProcExitStep, ReparentStep, AdoptStep, ForgetChildrenStep, WakesStep, ZenonT(30)
  <1>7. CASE UNCHANGED vars
    <2>1. /\ pstate' = pstate /\ parent' = parent /\ children' = children /\ refcount' = refcount
          /\ live' = live /\ threads' = threads /\ freed' = freed /\ proc' = proc /\ pc' = pc
          /\ kid' = kid /\ walk' = walk /\ want' = want
      BY <1>7, Zenon DEF vars, procs, locals
    <2>2. TypeOK'
      BY <1>1, <2>1, ZenonT(30) DEF Inv, TypeOK
    <2>3. \A t \in Threads : (ThreadOk(t)' = ThreadOk(t)) /\ (HoldOk(t)' = HoldOk(t))
      BY <2>1, ZenonT(30) DEF ThreadOk, HoldOk
    <2>4. \A t \in Threads : WalkOk(t)'
      BY <1>1, <2>1, SMTT(30) DEF Inv, WalkOk, Alive, Taken
    <2>5. \A p \in Procs : LiveOk(p)' /\ RefOk(p)'
      BY <1>1, <2>1, ZenonT(30) DEF Inv, LiveOk, RefOk, Counted
    <2>6. ASSUME NEW p \in Procs
          PROVE  ListOk(p)' /\ ChildOk(p)'
      <3>1. \A c : (Alive(c)' <=> Alive(c)) /\ (Moving(c)' <=> Moving(c)) /\ (Walked(c)' <=> Walked(c))
        BY <2>1, Zenon DEF Alive, Taken, Moving, Walked
      <3>2. ListOk(p) /\ ChildOk(p)
        BY <1>1, Zenon DEF Inv
      <3>3. ListOk(p)'
        BY <2>1, <3>1, <3>2, Zenon DEF ListOk
      <3>4. ChildOk(p)'
        BY <2>1, <3>1, <3>2, Zenon DEF ChildOk
      <3>5. QED
        BY <3>3, <3>4, Zenon
    <2>7. QED
      BY <1>1, <2>1, <2>2, <2>3, <2>4, <2>5, <2>6, ZenonT(30) DEF Inv
  <1>8. QED
    BY <1>1, <1>2, <1>3, <1>4, <1>5, <1>6, <1>7, ZenonT(30) DEF Next

\* The inductive invariant holds in every reachable state: who belongs to and
\* holds which process, the counts of task.c, and where every child is listed.
THEOREM ProcInvariant == Spec => []Inv
  <1>1. QED
    BY InvInit, InvNext, PTL DEF Spec

\* A set of threads in which any two are equal has at most one.
LEMMA AtMostOne ==
    ASSUME NEW S \in SUBSET Threads, \A t, u \in S : t = u
    PROVE  Cardinality(S) <= 1
  <1>1. CASE S = {}
    BY <1>1, FS_EmptySet
  <1>2. ASSUME NEW t \in S
        PROVE  Cardinality(S) <= 1
    <2>1. S = {t}
      BY Zenon
    <2>2. QED
      BY <2>1, FS_Singleton
  <1>3. QED
    BY <1>1, <1>2, ZenonT(30)

\* A process is a zombie only once none of its threads runs any more, and one
\* thread of it at most runs proc_exit, however their thread_exit calls, and
\* the thread_create and proc_fork of the others, interleave.
THEOREM LastThreadEndsTheProcess == Spec => []LastThreadExits
  <1>1. Inv => LastThreadExits
    <2>1. SUFFICES ASSUME Inv, NEW p \in Procs
                   PROVE  /\ pstate[p] \in {"ZOMBIE", "DEAD"} =>
                                \A t \in Threads : proc[t] = p => pc[t] \notin Running
                          /\ Cardinality({t \in Threads : proc[t] = p /\ pc[t] \in ExitSection}) <= 1
      BY Zenon DEF LastThreadExits, Inv, ExitSection
    <2>2. pstate[p] \in {"ZOMBIE", "DEAD"} => \A t \in Threads : proc[t] = p => pc[t] \notin Running
      BY <2>1, CountedRuns, Zenon
    <2>3. PICK S : S = {t \in Threads : proc[t] = p /\ pc[t] \in ExitSection}
      BY Zenon
    <2>4. S \in SUBSET Threads /\ \A t, u \in S : t = u
      BY <2>1, <2>3, Zenon DEF Inv, LiveOk
    <2>5. Cardinality(S) <= 1
      BY <2>4, AtMostOne, ZenonT(30)
    <2>6. QED
      BY <2>2, <2>3, <2>5, Zenon
  <1>2. QED
    BY <1>1, ProcInvariant, PTL

\* A zombie goes to one waiter only, its memory is freed by that one, and no
\* list of a process that can still call proc_wait leads to freed memory.
THEOREM ZombiesAreReapedOnce == Spec => []ReapedOnce
  <1>1. Inv => ReapedOnce
    <2>1. SUFFICES ASSUME Inv, NEW p \in Procs
                   PROVE  /\ Cardinality(Taken(p)) <= 1
                          /\ refcount[p] = IF pstate[p] = "NONE" \/ p \in freed THEN 0 ELSE 1
                          /\ p \in freed => \A q \in Procs : pstate[q] = "RUNNING" => p \notin Range(children[q])
      BY Zenon DEF ReapedOnce
    <2>2. Taken(p) \in SUBSET Threads
      BY Zenon DEF Taken
    <2>3. \A t, u \in Taken(p) : t = u
      BY <2>1, NullAssumption, ZenonT(30) DEF Taken, Inv, HoldOk
    <2>4. Cardinality(Taken(p)) <= 1
      BY <2>2, <2>3, AtMostOne, Zenon
    <2>5. refcount[p] = IF pstate[p] = "NONE" \/ p \in freed THEN 0 ELSE 1
      BY <2>1, Zenon DEF Inv, RefOk
    <2>6. p \in freed => \A q \in Procs : pstate[q] = "RUNNING" => p \notin Range(children[q])
      BY <2>1, Zenon DEF Inv, ListOk, Alive
    <2>7. QED
      BY <2>4, <2>5, <2>6, ZenonT(30)
  <1>2. QED
    BY <1>1, ProcInvariant, PTL

\* No fork, wait or exit loses a child, but for those the timer makes an exit
\* abandon.  Every other one that nobody has reaped is on the list of its parent,
\* once, and the parent runs or its exit will still move the child, or proc_exit
\* is just giving it to init.
THEOREM ChildrenStayListed == Spec => []ChildStaysListed
  <1>1. Inv => ChildStaysListed
    <2>1. SUFFICES ASSUME Inv, NEW c \in Procs \ Abandoned, pstate[c] \in {"RUNNING", "ZOMBIE"},
                          parent[c] # NULL, Taken(c) = {}, c \notin freed,
                          ~ \E t \in Threads : pc[t] = "adopt" /\ Head(walk[t]) = c
                   PROVE  /\ IsInjective(children[parent[c]]) /\ c \in Range(children[parent[c]])
                          /\ pstate[parent[c]] = "RUNNING" \/ Leaving(parent[c], c)
      BY Zenon DEF ChildStaysListed
    <2>2. Alive(c) /\ ChildOk(c) /\ parent[c] \in Procs
      BY <2>1, Zenon DEF Inv, Alive, TypeOK
    <2>3. ASSUME NEW t \in Threads, c \in Range(walk[t])
          PROVE  pc[t] \in {"walk", "adopt"} /\ parent[c] \in {proc[t], init_proc}
      <3>1. WalkOk(t) /\ walk[t] \in Seq(Procs)
        BY <2>1, Zenon DEF Inv, TypeOK
      <3>2. walk[t] # << >>
        BY <2>3, <3>1, ListSet, Zenon
      <3>3. pc[t] # "stranded"
        BY <2>1, <2>3, Zenon DEF Abandoned
      <3>4. QED
        BY <2>3, <3>1, <3>2, <3>3, Zenon DEF WalkOk
    <2>4. ~Moving(c)
      <3>1. SUFFICES ASSUME NEW t \in Threads, pc[t] = "stranded", walk[t] # << >>, Head(walk[t]) = c
                     PROVE  FALSE
        BY <2>1, Zenon DEF Moving
      <3>2. walk[t] \in Seq(Procs)
        BY <2>1, Zenon DEF Inv, TypeOK
      <3>3. c \in Range(walk[t])
        BY <3>1, <3>2, TailList, Zenon
      <3>4. QED
        BY <2>3, <3>1, <3>3, Zenon
    <2>5. pstate[parent[c]] = "RUNNING" \/ Leaving(parent[c], c)
      <3>1. SUFFICES ASSUME NEW t \in Threads, c \in Range(walk[t]), pstate[parent[c]] # "RUNNING"
                     PROVE  Leaving(parent[c], c)
        BY <2>1, <2>2, Zenon DEF ChildOk, Walked
      <3>2. parent[c] # init_proc
        BY <2>1, <3>1, Zenon DEF Inv
      <3>3. QED
        BY <2>3, <3>1, <3>2, Zenon DEF Leaving
    <2>6. QED
      BY <2>1, <2>2, <2>4, <2>5, Zenon DEF ChildOk, ListOk, Inv
  <1>2. QED
    BY <1>1, ProcInvariant, PTL

=============================================================================
