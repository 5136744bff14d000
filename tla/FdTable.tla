------------------------------ MODULE FdTable ------------------------------
(***************************************************************************)
(* File descriptor tables (sched/fd.c): tables shared by reference count   *)
(* or copied by fdtable_clone, and the reference counted entries that      *)
(* their slots point to.                                                   *)
(*                                                                         *)
(* What happens under table->lock is one step, with the fd_entry_ref it    *)
(* contains.  fd_entry_unref runs outside that lock and is two steps: the  *)
(* count is decremented under entry->lock, and the entry is closed and     *)
(* freed after the lock was released.  So are the calls that fdtable_dup,  *)
(* fdtable_dup2 and fdtable_unref make one after the other.                *)
(***************************************************************************)
EXTENDS Integers, FiniteSets

CONSTANTS Threads, Tables, Entries,
          FD_TABLE_INITIAL,   \* capacity of a new table
          FD_TABLE_MAX,       \* no table grows beyond it
          NULL

ASSUME CapacityAssumption ==
    FD_TABLE_INITIAL \in Nat \ {0} /\ FD_TABLE_MAX \in Nat /\ FD_TABLE_INITIAL <= FD_TABLE_MAX
ASSUME FiniteAssumption == IsFiniteSet(Threads) /\ IsFiniteSet(Tables)
ASSUME NullAssumption == NULL \notin Tables \cup Entries

VARIABLES entries,      \* table->entries, by table and slot
          capacity,     \* table->capacity
          tablerefs,    \* table->refcount
          refcount,     \* entry->refcount
          open,         \* the entries that are allocated
          tab,          \* the table of each thread's process
          call          \* the call each thread is in, and its locals

vars == <<entries, capacity, tablerefs, refcount, open, tab, call>>

Fds == 0 .. FD_TABLE_MAX - 1
Idle == [pc |-> "run", back |-> "run", held |-> NULL, arg |-> NULL, fd |-> 0, table |-> NULL]

\* The tables that are allocated: referenced, or being torn down.
Allocated == {T \in Tables : tablerefs[T] > 0 \/ \E t \in Threads : call[t].table = T}

Init == /\ entries = [T \in Tables |-> [i \in Fds |-> NULL]]
        /\ capacity = [T \in Tables |-> FD_TABLE_INITIAL]
        /\ tablerefs = [T \in Tables |-> 0]
        /\ refcount = [e \in Entries |-> 0]
        /\ open = {}
        /\ tab = [t \in Threads |-> NULL]
        /\ call = [t \in Threads |-> Idle]

-----------------------------------------------------------------------------
At(t, pc) == call[t].pc = pc
Set(t, c) == call' = [call EXCEPT ![t] = c]

\* Thread t calls fd_entry_unref(e) and goes on at label back, with locals c.
Unref(c, e, back) == [c EXCEPT !.pc = "unref", !.arg = e, !.back = back]

fd_entry_ref(e) == refcount' = [refcount EXCEPT ![e] = @ + 1]

InUse(T, fd) == fd < capacity[T] /\ entries[T][fd] # NULL

\* (Mutant: doubling is taken to be enough.)
GrownIgnoresMin(n, min) == IF n * 2 > FD_TABLE_MAX THEN FD_TABLE_MAX ELSE n * 2

\* The capacity fdtable_grow gives a table of capacity n for at least min.
Grown(n, min) == LET twice == IF n * 2 < min THEN min ELSE n * 2
                 IN IF twice > FD_TABLE_MAX THEN FD_TABLE_MAX ELSE twice

\* fdtable_grow succeeds, unless the limit is reached or kzalloc fails.
fdtable_grow(T, min) == /\ min <= FD_TABLE_MAX
                        /\ capacity' = [capacity EXCEPT ![T] = Grown(@, min)]

Place(T, fd, e) == /\ entries' = [entries EXCEPT ![T][fd] = e]
                   /\ fd_entry_ref(e)

\* fdtable_install_at succeeding; it fails on a slot in use, and when it
\* cannot grow the table.
fdtable_install_at(T, fd, e) ==
    /\ IF fd < capacity[T] THEN UNCHANGED capacity ELSE fdtable_grow(T, fd + 1)
    /\ entries[T][fd] = NULL
    /\ Place(T, fd, e)

\* fdtable_install succeeding: the first empty slot, or the first one that
\* growing the table adds.
fdtable_install(T, e) ==
    LET empty == {i \in Fds : i < capacity[T] /\ entries[T][i] = NULL} IN
    IF empty # {}
    THEN /\ \E i \in empty : (\A j \in empty : i <= j) /\ Place(T, i, e)
         /\ UNCHANGED capacity
    ELSE /\ fdtable_grow(T, capacity[T] + 1)
         /\ Place(T, capacity[T], e)

\* Either call returning an error: nothing changes.  A table that must grow
\* may always fail to, for lack of memory.
InstallAtFails(T, fd) == fd >= capacity[T] \/ entries[T][fd] # NULL
InstallFails(T) == \A i \in Fds : i < capacity[T] => entries[T][i] # NULL
NotInstalled == UNCHANGED <<entries, capacity, refcount>>

-----------------------------------------------------------------------------
\* The calls of a thread that does not hold an entry, or of one that does.
Ready(t) == At(t, "run") /\ tab[t] # NULL
Free(t) == Ready(t) /\ call[t].held = NULL
Holding(t) == Ready(t) /\ call[t].held # NULL

fd_open(t, e) ==
    /\ Free(t) /\ e \notin open
    /\ open' = open \cup {e}
    /\ refcount' = [refcount EXCEPT ![e] = 1]
    /\ Set(t, [call[t] EXCEPT !.held = e])
    /\ UNCHANGED <<entries, capacity, tablerefs, tab>>

\* (Mutant: the entry is returned without a reference of its own.)
GetUncounted(t, fd, c) ==
    /\ Free(t) /\ InUse(tab[t], fd)
    /\ Set(t, [c EXCEPT !.held = entries[tab[t]][fd]])
    /\ UNCHANGED <<entries, capacity, tablerefs, refcount, open, tab>>

\* fdtable_get finding an entry; the caller goes on with the locals c.
Get(t, fd, c) ==
    /\ Free(t) /\ InUse(tab[t], fd)
    /\ fd_entry_ref(entries[tab[t]][fd])
    /\ Set(t, [c EXCEPT !.held = entries[tab[t]][fd]])
    /\ UNCHANGED <<entries, capacity, tablerefs, open, tab>>

fdtable_get(t, fd) == Get(t, fd, call[t])

\* A caller installs the entry it holds (from fd_open or fdtable_get)...
Install(t) ==
    /\ Holding(t)
    /\ fdtable_install(tab[t], call[t].held)
    /\ UNCHANGED <<tablerefs, open, tab, call>>

InstallAt(t, fd) ==
    /\ Holding(t)
    /\ fdtable_install_at(tab[t], fd, call[t].held)
    /\ UNCHANGED <<tablerefs, open, tab, call>>

\* ...and gives up its own reference.
Release(t) ==
    /\ Holding(t)
    /\ Set(t, Unref([call[t] EXCEPT !.held = NULL], call[t].held, "run"))
    /\ UNCHANGED <<entries, capacity, tablerefs, refcount, open, tab>>

fdtable_close(t, fd) ==
    /\ Ready(t) /\ InUse(tab[t], fd)
    /\ entries' = [entries EXCEPT ![tab[t]][fd] = NULL]
    /\ Set(t, Unref(call[t], entries[tab[t]][fd], "run"))
    /\ UNCHANGED <<capacity, tablerefs, refcount, open, tab>>

\* fd_entry_unref: the count first...
fd_entry_unref(t) ==
    /\ At(t, "unref")
    /\ LET e == call[t].arg IN
       /\ refcount' = [refcount EXCEPT ![e] = @ - 1]
       /\ Set(t, IF refcount[e] > 1
                 THEN [call[t] EXCEPT !.pc = call[t].back, !.arg = NULL]
                 ELSE [call[t] EXCEPT !.pc = "free"])
    /\ UNCHANGED <<entries, capacity, tablerefs, open, tab>>

\* ...then, for the last reference, kclose or vnode_unref, and kfree.
FreeEntry(t) ==
    /\ At(t, "free")
    /\ open' = open \ {call[t].arg}
    /\ Set(t, [call[t] EXCEPT !.pc = call[t].back, !.arg = NULL])
    /\ UNCHANGED <<entries, capacity, tablerefs, refcount, tab>>

-----------------------------------------------------------------------------
\* fdtable_dup and fdtable_dup2 begin with fdtable_get of oldfd.
fdtable_dup(t, oldfd) == Get(t, oldfd, [call[t] EXCEPT !.pc = "dup"])

fdtable_dup2(t, oldfd, newfd) ==
    Get(t, oldfd, [call[t] EXCEPT !.pc = IF oldfd = newfd THEN "dup_done" ELSE "dup2_close",
                                  !.fd = newfd])

DupInstall(t) ==
    /\ At(t, "dup")
    /\ \/ fdtable_install(tab[t], call[t].held)
       \/ InstallFails(tab[t]) /\ NotInstalled
    /\ Set(t, [call[t] EXCEPT !.pc = "dup_done"])
    /\ UNCHANGED <<tablerefs, open, tab>>

\* dup2 closes newfd, if it is in use...
Dup2Close(t) ==
    /\ At(t, "dup2_close")
    /\ LET fd == call[t].fd IN
       IF InUse(tab[t], fd)
       THEN /\ entries' = [entries EXCEPT ![tab[t]][fd] = NULL]
            /\ Set(t, Unref(call[t], entries[tab[t]][fd], "dup2_at"))
       ELSE /\ Set(t, [call[t] EXCEPT !.pc = "dup2_at"])
            /\ UNCHANGED entries
    /\ UNCHANGED <<capacity, tablerefs, refcount, open, tab>>

\* (Mutant: the slot is filled although another thread took it meanwhile.)
Dup2Overwrites(t) ==
    /\ At(t, "dup2_at")
    /\ call[t].fd < capacity[tab[t]]
    /\ Place(tab[t], call[t].fd, call[t].held)
    /\ Set(t, [call[t] EXCEPT !.pc = "dup_done"])
    /\ UNCHANGED <<capacity, tablerefs, open, tab>>

\* ...and only then, under the lock again, installs the entry there.
Dup2InstallAt(t) ==
    /\ At(t, "dup2_at")
    /\ \/ fdtable_install_at(tab[t], call[t].fd, call[t].held)
       \/ InstallAtFails(tab[t], call[t].fd) /\ NotInstalled
    /\ Set(t, [call[t] EXCEPT !.pc = "dup_done"])
    /\ UNCHANGED <<tablerefs, open, tab>>

\* Both end with fd_entry_unref of what fdtable_get returned.
DupDone(t) ==
    /\ At(t, "dup_done")
    /\ Set(t, Unref([call[t] EXCEPT !.held = NULL, !.fd = 0], call[t].held, "run"))
    /\ UNCHANGED <<entries, capacity, tablerefs, refcount, open, tab>>

-----------------------------------------------------------------------------
\* The process of thread u, which has no table yet, gets a new one, a copy of
\* the table of t, or a reference to the table of t.
NewTable(u, T) == tab[u] = NULL /\ At(u, "run") /\ T \in Tables \ Allocated

fdtable_create(u, T) ==
    /\ NewTable(u, T)
    /\ entries' = [entries EXCEPT ![T] = [i \in Fds |-> NULL]]
    /\ capacity' = [capacity EXCEPT ![T] = FD_TABLE_INITIAL]
    /\ tablerefs' = [tablerefs EXCEPT ![T] = 1]
    /\ tab' = [tab EXCEPT ![u] = T]
    /\ UNCHANGED <<refcount, open, call>>

SlotsOf(T, e) == {i \in Fds : i < capacity[T] /\ entries[T][i] = e}

fdtable_clone(t, u, T) ==
    /\ Ready(t) /\ NewTable(u, T)
    /\ entries' = [entries EXCEPT ![T] = entries[tab[t]]]
    /\ capacity' = [capacity EXCEPT ![T] = capacity[tab[t]]]
    /\ tablerefs' = [tablerefs EXCEPT ![T] = 1]
    /\ refcount' = [e \in Entries |-> refcount[e] + Cardinality(SlotsOf(tab[t], e))]
    /\ tab' = [tab EXCEPT ![u] = T]
    /\ UNCHANGED <<open, call>>

fdtable_ref(t, u) ==
    /\ Ready(t) /\ tab[u] = NULL /\ At(u, "run")
    /\ tablerefs' = [tablerefs EXCEPT ![tab[t]] = @ + 1]
    /\ tab' = [tab EXCEPT ![u] = tab[t]]
    /\ UNCHANGED <<entries, capacity, refcount, open, call>>

\* (Mutant: every user of a table that goes away tears it down.)
UnrefAlwaysTearsDown(t) ==
    /\ Free(t)
    /\ tablerefs' = [tablerefs EXCEPT ![tab[t]] = @ - 1]
    /\ tab' = [tab EXCEPT ![t] = NULL]
    /\ Set(t, [call[t] EXCEPT !.pc = "teardown", !.table = tab[t]])
    /\ UNCHANGED <<entries, capacity, refcount, open>>

\* fdtable_unref: the last reference starts the loop over the slots...
fdtable_unref(t) ==
    /\ Free(t)
    /\ tablerefs' = [tablerefs EXCEPT ![tab[t]] = @ - 1]
    /\ tab' = [tab EXCEPT ![t] = NULL]
    /\ IF tablerefs[tab[t]] > 1
       THEN UNCHANGED call
       ELSE Set(t, [call[t] EXCEPT !.pc = "teardown", !.table = tab[t]])
    /\ UNCHANGED <<entries, capacity, refcount, open>>

\* ...which drops the references of the slots without clearing them...
Teardown(t) ==
    /\ At(t, "teardown")
    /\ LET T == call[t].table
           i == call[t].fd
           c == [call[t] EXCEPT !.fd = i + 1]
       IN /\ i < capacity[T]
          /\ Set(t, IF entries[T][i] = NULL THEN c ELSE Unref(c, entries[T][i], "teardown"))
    /\ UNCHANGED <<entries, capacity, tablerefs, refcount, open, tab>>

\* ...and frees the table.
FreeTable(t) ==
    /\ At(t, "teardown")
    /\ call[t].fd = capacity[call[t].table]
    /\ Set(t, Idle)
    /\ UNCHANGED <<entries, capacity, tablerefs, refcount, open, tab>>

Next == \E t \in Threads :
    \/ \E e \in Entries : fd_open(t, e)
    \/ Install(t) \/ Release(t) \/ fd_entry_unref(t) \/ FreeEntry(t)
    \/ DupInstall(t) \/ Dup2Close(t) \/ Dup2InstallAt(t) \/ DupDone(t)
    \/ fdtable_unref(t) \/ Teardown(t) \/ FreeTable(t)
    \/ \E fd \in Fds : \/ fdtable_get(t, fd) \/ InstallAt(t, fd) \/ fdtable_close(t, fd)
                       \/ fdtable_dup(t, fd)
                       \/ \E newfd \in Fds : fdtable_dup2(t, fd, newfd)
    \/ \E T \in Tables : fdtable_create(t, T)
    \/ \E u \in Threads : \/ fdtable_ref(t, u)
                          \/ \E T \in Tables : fdtable_clone(t, u, T)

Spec == Init /\ [][Next]_vars

-----------------------------------------------------------------------------
Labels == {"run", "unref", "free", "dup", "dup2_close", "dup2_at", "dup_done", "teardown"}
Calls == [pc : Labels, back : {"run", "dup2_at", "teardown"}, held : Entries \cup {NULL},
          arg : Entries \cup {NULL}, fd : 0 .. FD_TABLE_MAX, table : Tables \cup {NULL}]

\* The types: no table outgrows FD_TABLE_MAX, no count goes below zero.
TypeOK == /\ entries \in [Tables -> [Fds -> Entries \cup {NULL}]]
          /\ capacity \in [Tables -> FD_TABLE_INITIAL .. FD_TABLE_MAX]
          /\ tablerefs \in [Tables -> Nat]
          /\ refcount \in [Entries -> Nat]
          /\ open \subseteq Entries
          /\ tab \in [Threads -> Tables \cup {NULL}]
          /\ call \in [Threads -> Calls]

\* The slots that still count: those of an allocated table that its teardown
\* has not passed.
Slots == {s \in Tables \X Fds :
             /\ s[1] \in Allocated /\ s[2] < capacity[s[1]] /\ entries[s[1]][s[2]] # NULL
             /\ \A t \in Threads : call[t].table = s[1] => s[2] >= call[t].fd}

SlotRefs(e) == {s \in Slots : entries[s[1]][s[2]] = e}
HeldRefs(e) == {t \in Threads : call[t].held = e}
ArgRefs(e) == {t \in Threads : call[t].pc = "unref" /\ call[t].arg = e}
Freers(e) == {t \in Threads : call[t].pc = "free" /\ call[t].arg = e}

\* Across dup, dup2, clone, close and teardown racing each other, an entry's
\* refcount is the number of slots and of callers that refer to it.
EntryRefcountExact ==
    \A e \in open : refcount[e] = Cardinality(SlotRefs(e)) + Cardinality(HeldRefs(e))
                                  + Cardinality(ArgRefs(e))

\* fd_entry_unref frees an entry after it let go of the lock: by then nobody
\* else may reach it, and nobody else may be freeing it; and an entry that
\* nobody refers to is being freed, so its file does get closed.
EntryLifetime ==
    /\ \A e \in Entries \ open : SlotRefs(e) \cup HeldRefs(e) \cup ArgRefs(e) = {}
    /\ \A e \in open : Cardinality(Freers(e)) = IF refcount[e] = 0 THEN 1 ELSE 0

Users(T) == {t \in Threads : tab[t] = T}
Killers(T) == {t \in Threads : call[t].table = T}

\* A table is torn down once, and only when no thread uses it any more.
TableLifetime ==
    \A T \in Tables :
        /\ tablerefs[T] = Cardinality(Users(T))
        /\ Killers(T) # {} => tablerefs[T] = 0 /\ Cardinality(Killers(T)) = 1

\* fdtable_grow keeps every slot that is written inside the array, and the array
\* within its limit.
SlotsInBounds == /\ TypeOK
                 /\ \A T \in Tables, i \in Fds : i >= capacity[T] => entries[T][i] = NULL
=============================================================================
