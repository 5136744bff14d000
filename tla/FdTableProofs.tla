--------------------------- MODULE FdTableProofs ---------------------------
(***************************************************************************)
(* Proofs about FdTable for every set of threads, tables and entries and   *)
(* every limit on the size of a table.                                     *)
(***************************************************************************)
EXTENDS FdTable, FiniteSetTheorems, TLAPS

-----------------------------------------------------------------------------
\* Where a thread is in its call, the fd_entry_unref it may be in left aside.
Frame(c) == IF c.pc \in {"unref", "free"} THEN c.back ELSE c.pc

\* What the locals of a call are at each label: fd_entry_unref has its
\* argument, dup and dup2 hold an entry, fdtable_unref its table.
Shape(t) ==
    /\ call[t].arg # NULL <=> call[t].pc \in {"unref", "free"}
    /\ call[t].table # NULL <=> Frame(call[t]) = "teardown"
    /\ Frame(call[t]) = "run" => call[t].fd = 0
    /\ Frame(call[t]) \in {"dup", "dup2_close", "dup2_at", "dup_done"}
         => call[t].held # NULL /\ call[t].fd \in Fds
    /\ call[t].held # NULL => tab[t] # NULL
    /\ call[t].table # NULL => tab[t] = NULL /\ call[t].fd <= capacity[call[t].table]

CallShape == \A t \in Threads : Shape(t)

\* The account of one entry: a count of an allocated entry is exact, and zero
\* in the hands of one thread that frees it; nothing refers to one that is not
\* allocated.
Balanced(e) ==
    /\ e \in open => /\ refcount[e] = Cardinality(SlotRefs(e)) + Cardinality(HeldRefs(e))
                                      + Cardinality(ArgRefs(e))
                     /\ Cardinality(Freers(e)) = IF refcount[e] = 0 THEN 1 ELSE 0
    /\ e \notin open => SlotRefs(e) \cup HeldRefs(e) \cup ArgRefs(e) \cup Freers(e) = {}

\* The inductive invariant.
Inv == /\ SlotsInBounds /\ CallShape /\ TableLifetime
       /\ \A e \in Entries : Balanced(e)

LEMMA InvImplies == Inv => EntryRefcountExact /\ EntryLifetime /\ TypeOK
  BY Zenon DEF Inv, Balanced, EntryRefcountExact, EntryLifetime, SlotsInBounds, TypeOK

-----------------------------------------------------------------------------
\* Everything that is counted is finite.
LEMMA Finite ==
    /\ \A S \in SUBSET Threads : IsFiniteSet(S) /\ Cardinality(S) \in Nat
    /\ \A S \in SUBSET (Tables \X Fds) : IsFiniteSet(S) /\ Cardinality(S) \in Nat
  <1>1. IsFiniteSet(Fds)
    BY CapacityAssumption, FS_Interval DEF Fds
  <1>2. IsFiniteSet(Tables \X Fds)
    BY <1>1, FiniteAssumption, FS_Product, Zenon
  <1>3. QED
    BY <1>2, FiniteAssumption, FS_Subset, FS_CardinalityType, Zenon

LEMMA FiniteRefs ==
    \A e : /\ IsFiniteSet(SlotRefs(e)) /\ Cardinality(SlotRefs(e)) \in Nat
           /\ IsFiniteSet(HeldRefs(e)) /\ Cardinality(HeldRefs(e)) \in Nat
           /\ IsFiniteSet(ArgRefs(e)) /\ Cardinality(ArgRefs(e)) \in Nat
           /\ IsFiniteSet(Freers(e)) /\ Cardinality(Freers(e)) \in Nat
  <1>1. ASSUME NEW e
        PROVE  /\ SlotRefs(e) \in SUBSET (Tables \X Fds)
               /\ HeldRefs(e) \in SUBSET Threads
               /\ ArgRefs(e) \in SUBSET Threads
               /\ Freers(e) \in SUBSET Threads
    BY Zenon DEF SlotRefs, Slots, HeldRefs, ArgRefs, Freers
  <1>2. QED
    BY <1>1, Finite, Zenon

\* A table that a process has is not being torn down: all its slots count.
LEMMA LiveTable ==
    ASSUME Inv, NEW t \in Threads, tab[t] # NULL
    PROVE  /\ tab[t] \in Tables /\ tab[t] \in Allocated /\ tablerefs[tab[t]] > 0
           /\ \A u \in Threads : call[u].table # tab[t]
           /\ \A i \in Fds : <<tab[t], i>> \in Slots <=> InUse(tab[t], i)
  <1> DEFINE T == tab[t]
  <1>1. T \in Tables /\ TypeOK
    BY Zenon DEF Inv, SlotsInBounds, TypeOK
  <1>2. tablerefs[T] > 0
    <2>1. t \in Users(T) /\ IsFiniteSet(Users(T)) /\ Cardinality(Users(T)) \in Nat
      BY Finite, Zenon DEF Users
    <2>2. Cardinality(Users(T)) # 0
      BY <2>1, FS_EmptySet, Zenon
    <2>3. QED
      BY <1>1, <2>1, <2>2, SMTT(30) DEF Inv, TableLifetime
  <1>3. Killers(T) = {}
    BY <1>1, <1>2 DEF Inv, TableLifetime
  <1>4. \A u \in Threads : call[u].table # T
    BY <1>3, Zenon DEF Killers
  <1>5. ASSUME NEW i \in Fds
        PROVE  <<T, i>> \in Slots <=> InUse(T, i)
    BY <1>1, <1>2, <1>4, Zenon DEF Slots, Allocated, InUse
  <1>6. QED
    BY <1>1, <1>2, <1>4, <1>5, Zenon DEF Allocated

\* The slots that count are the same after a step that changes no table and no
\* teardown.
LEMMA QuietSlots ==
    ASSUME UNCHANGED <<entries, capacity, tablerefs>>,
           \A t \in Threads : /\ call'[t].table = call[t].table
                              /\ call[t].table # NULL => call'[t].fd = call[t].fd
    PROVE  Slots' = Slots /\ \A e : SlotRefs(e)' = SlotRefs(e)
  <1>1. Allocated' = Allocated
    BY Zenon DEF Allocated
  <1>2. Slots' = Slots
    BY <1>1, NullAssumption, ZenonT(30) DEF Slots
  <1>3. QED
    BY <1>2, Zenon DEF SlotRefs

LEMMA QuietTables ==
    ASSUME TableLifetime, UNCHANGED <<tablerefs, tab>>,
           \A t \in Threads : call'[t].table = call[t].table
    PROVE  TableLifetime'
  <1>1. ASSUME NEW T \in Tables
        PROVE  Users(T)' = Users(T) /\ Killers(T)' = Killers(T)
    BY Zenon DEF Users, Killers
  <1>2. QED
    BY <1>1, Zenon DEF TableLifetime

\* The call of a thread that a step leaves alone.
LEMMA QuietCalls ==
    ASSUME CallShape, NEW t \in Threads, UNCHANGED <<capacity, tab>>, Shape(t)',
           \A u \in Threads \ {t} : call'[u] = call[u]
    PROVE  CallShape'
  <1>1. ASSUME NEW u \in Threads \ {t}
        PROVE  Shape(u)'
    BY <1>1, ZenonT(30) DEF CallShape, Shape
  <1>2. QED
    BY <1>1, Zenon DEF CallShape

\* The account of an entry that a step leaves alone.
LEMMA Untouched ==
    ASSUME NEW e, Balanced(e), refcount'[e] = refcount[e], e \in open' <=> e \in open,
           SlotRefs(e)' = SlotRefs(e), HeldRefs(e)' = HeldRefs(e),
           ArgRefs(e)' = ArgRefs(e), Freers(e)' = Freers(e)
    PROVE  Balanced(e)'
  BY Zenon DEF Balanced

-----------------------------------------------------------------------------
\* fd_open: the new entry has one reference, its creator's.
LEMMA OpenStep ==
    ASSUME Inv, NEW t \in Threads, NEW e \in Entries, fd_open(t, e)
    PROVE  Inv'
  <1> USE DEF Inv
  <1>1. /\ call' = [call EXCEPT ![t] = [call[t] EXCEPT !.held = e]]
        /\ call[t].pc = "run" /\ call[t].held = NULL /\ tab[t] # NULL
        /\ e \notin open /\ e # NULL /\ TypeOK
    BY NullAssumption, Zenon DEF fd_open, Free, Ready, At, Set, SlotsInBounds
  <1>2. TypeOK'
    <2>0. call[t] \in Calls
      BY <1>1, Zenon DEF TypeOK
    <2>1. [call[t] EXCEPT !.held = e] \in Calls
      BY <2>0, Zenon DEF Calls
    <2>2. QED
      BY <1>1, <2>1, Zenon DEF fd_open, TypeOK
  <1>3. SlotsInBounds'
    BY <1>2, Zenon DEF fd_open, SlotsInBounds
  <1>4. CallShape'
    <2>1. Shape(t)'
      BY <1>1, SMTT(30) DEF fd_open, CallShape, Shape, Frame, TypeOK, Calls
    <2>2. QED
      BY <1>1, <2>1, QuietCalls, Zenon DEF fd_open, TypeOK
  <1>5. \A u \in Threads : call'[u].table = call[u].table /\ call'[u].fd = call[u].fd
    BY <1>1, SMTT(30) DEF TypeOK, Calls
  <1>6. TableLifetime' /\ \A x : SlotRefs(x)' = SlotRefs(x)
    BY <1>5, QuietTables, QuietSlots, Zenon DEF fd_open
  <1>7. ASSUME NEW x \in Entries
        PROVE  Balanced(x)'
    <2>1. ArgRefs(x)' = ArgRefs(x) /\ Freers(x)' = Freers(x)
      BY <1>1, ZenonT(30) DEF ArgRefs, Freers, TypeOK, Calls
    <2>2. CASE x = e
      <3>0. SlotRefs(e) = {} /\ HeldRefs(e) = {} /\ ArgRefs(e) = {} /\ Freers(e) = {}
        BY <1>1, Zenon DEF Balanced
      <3>1. HeldRefs(e)' = {t}
        BY <1>1, <3>0, SMTT(30) DEF HeldRefs, TypeOK, Calls
      <3>2. refcount'[e] = 1 /\ e \in open'
        BY Zenon DEF fd_open, SlotsInBounds, TypeOK
      <3>3. Cardinality({t}) = 1 /\ Cardinality({}) = 0
        BY FS_Singleton, FS_EmptySet, Zenon
      <3>4. QED
        BY <2>1, <2>2, <3>0, <3>1, <3>2, <3>3, <1>6, SMTT(30) DEF Balanced
    <2>3. CASE x # e
      <3>1. HeldRefs(x)' = HeldRefs(x)
        BY <1>1, <2>3, NullAssumption, SMTT(30) DEF HeldRefs, TypeOK, Calls
      <3>2. refcount'[x] = refcount[x] /\ (x \in open' <=> x \in open)
        BY <2>3, Zenon DEF fd_open, SlotsInBounds, TypeOK
      <3>3. QED
        BY <2>1, <3>1, <3>2, <1>6, Untouched, Zenon
    <2>4. QED
      BY <2>2, <2>3, Zenon
  <1>8. QED
    BY <1>3, <1>4, <1>6, <1>7, Zenon

\* fdtable_get, and the call of it that dup and dup2 begin with: one more
\* reference, the caller's.
LEMMA GetStep ==
    ASSUME Inv, NEW t \in Threads, NEW fd \in Fds, NEW c \in Calls, Get(t, fd, c),
           c.pc \in {"run", "dup", "dup2_close", "dup_done"},
           c.arg = NULL, c.table = NULL, c.fd \in Fds, c.pc = "run" => c.fd = 0
    PROVE  Inv'
  <1> USE DEF Inv
  <1> DEFINE e == entries[tab[t]][fd]
  <1>1. /\ call' = [call EXCEPT ![t] = [c EXCEPT !.held = e]]
        /\ call[t].pc = "run" /\ call[t].held = NULL /\ tab[t] # NULL /\ TypeOK
        /\ call[t].table = NULL /\ call[t].arg = NULL
        /\ refcount' = [refcount EXCEPT ![e] = @ + 1]
        /\ UNCHANGED <<entries, capacity, tablerefs, open, tab>>
    BY Zenon DEF Get, Free, Ready, At, Set, SlotsInBounds, fd_entry_ref, CallShape, Shape, Frame
  <1>2. e \in Entries /\ e # NULL /\ <<tab[t], fd>> \in SlotRefs(e) /\ tab[t] \in Tables
    BY LiveTable, SMTT(30) DEF Get, Free, Ready, InUse, SlotRefs, SlotsInBounds, TypeOK
  <1>3. e \in open
    BY <1>2, Zenon DEF Balanced
  <1>4. TypeOK'
    <2>1. [c EXCEPT !.held = e] \in Calls
      BY <1>2, Zenon DEF Calls
    <2>2. QED
      BY <1>1, <1>2, <2>1, SMTT(30) DEF TypeOK
  <1>5. SlotsInBounds'
    BY <1>1, <1>4, Zenon DEF SlotsInBounds
  <1>6. CallShape'
    <2>1. Shape(t)'
      BY <1>1, <1>2, Zenon DEF Shape, Frame, TypeOK, Calls
    <2>2. QED
      BY <1>1, <2>1, QuietCalls, Zenon DEF TypeOK
  <1>7. \A u \in Threads : /\ call'[u].table = call[u].table
                           /\ call[u].table # NULL => call'[u].fd = call[u].fd
    BY <1>1, Zenon DEF TypeOK, Calls
  <1>8. TableLifetime' /\ \A x : SlotRefs(x)' = SlotRefs(x)
    BY <1>1, <1>7, QuietTables, QuietSlots, Zenon
  <1>9. ASSUME NEW x \in Entries
        PROVE  Balanced(x)'
    <2>1. ArgRefs(x)' = ArgRefs(x) /\ Freers(x)' = Freers(x)
      BY <1>1, ZenonT(30) DEF ArgRefs, Freers, TypeOK, Calls
    <2>2. CASE x = e
      <3>1. HeldRefs(e)' = HeldRefs(e) \cup {t} /\ t \notin HeldRefs(e)
        BY <1>1, <1>2, SMTT(30) DEF HeldRefs, TypeOK, Calls
      <3>2. Cardinality(HeldRefs(e)') = Cardinality(HeldRefs(e)) + 1
        BY <3>1, FiniteRefs, FS_AddElement, Zenon
      <3>3. refcount'[e] = refcount[e] + 1 /\ refcount[e] \in Nat
        BY <1>1, <1>2, Zenon DEF TypeOK
      <3>4. refcount[e] # 0
        <4>1. Cardinality(SlotRefs(e)) # 0
          BY <1>2, FiniteRefs, FS_EmptySet, Zenon
        <4>2. QED
          BY <4>1, <1>3, <1>2, FiniteRefs, SMTT(30) DEF Balanced
      <3>5. QED
        BY <2>1, <2>2, <3>2, <3>3, <3>4, <1>1, <1>3, <1>8, FiniteRefs, SMTT(30) DEF Balanced
    <2>3. CASE x # e
      <3>1. HeldRefs(x)' = HeldRefs(x)
        BY <1>1, <2>3, NullAssumption, SMTT(30) DEF HeldRefs, TypeOK, Calls
      <3>2. refcount'[x] = refcount[x]
        BY <2>3, <1>1, Zenon DEF TypeOK
      <3>3. QED
        BY <2>1, <3>1, <3>2, <1>1, <1>8, Untouched, Zenon
    <2>4. QED
      BY <2>2, <2>3, Zenon
  <1>10. QED
    BY <1>5, <1>6, <1>8, <1>9, Zenon

\* A caller turns the reference it holds into the argument of fd_entry_unref.
LEMMA DropStep ==
    ASSUME Inv, NEW t \in Threads, NEW c \in Calls, call' = [call EXCEPT ![t] = c],
           call[t].held # NULL, call[t].pc \in {"run", "dup_done"},
           c.pc = "unref", c.back = "run", c.arg = call[t].held, c.held = NULL,
           c.fd = 0, c.table = NULL,
           UNCHANGED <<entries, capacity, tablerefs, refcount, open, tab>>
    PROVE  Inv'
  <1> USE DEF Inv
  <1> DEFINE e == call[t].held
  <1>1. TypeOK /\ call[t] \in Calls /\ call[t].table = NULL /\ call[t].arg = NULL /\ e \in Entries
    BY Zenon DEF SlotsInBounds, TypeOK, Calls, CallShape, Shape, Frame
  <1>2. TypeOK' /\ SlotsInBounds'
    BY Zenon DEF SlotsInBounds, TypeOK
  <1>3. CallShape'
    <2>1. Shape(t)'
      BY <1>1, Zenon DEF Shape, Frame, TypeOK
    <2>2. QED
      BY <1>1, <2>1, QuietCalls, Zenon DEF TypeOK
  <1>4. \A u \in Threads : /\ call'[u].table = call[u].table
                           /\ call[u].table # NULL => call'[u].fd = call[u].fd
    BY <1>1, Zenon DEF TypeOK
  <1>5. TableLifetime' /\ \A x : SlotRefs(x)' = SlotRefs(x)
    BY <1>4, QuietTables, QuietSlots, Zenon
  <1>6. ASSUME NEW x \in Entries
        PROVE  Balanced(x)'
    <2>1. Freers(x)' = Freers(x)
      BY <1>1, Zenon DEF Freers, TypeOK
    <2>2. CASE x = e
      <3>1. /\ HeldRefs(x)' = HeldRefs(x) \ {t} /\ t \in HeldRefs(x)
            /\ ArgRefs(x)' = ArgRefs(x) \cup {t} /\ t \notin ArgRefs(x)
        BY <1>1, <2>2, NullAssumption, SMTT(30) DEF HeldRefs, ArgRefs, TypeOK
      <3>2. /\ Cardinality(HeldRefs(x)') = Cardinality(HeldRefs(x)) - 1
            /\ Cardinality(ArgRefs(x)') = Cardinality(ArgRefs(x)) + 1
        <4>1. IsFiniteSet(HeldRefs(x)) /\ IsFiniteSet(ArgRefs(x))
          BY FiniteRefs, Zenon
        <4>2. Cardinality(HeldRefs(x) \ {t}) = Cardinality(HeldRefs(x)) - 1
          BY <3>1, <4>1, FS_RemoveElement, Zenon
        <4>3. Cardinality(ArgRefs(x) \cup {t}) = Cardinality(ArgRefs(x)) + 1
          BY <3>1, <4>1, FS_AddElement, Zenon
        <4>4. QED
          BY <3>1, <4>2, <4>3, Zenon
      <3>3. x \in open
        BY <3>1, Zenon DEF Balanced
      <3>4. QED
        BY <2>1, <2>2, <3>2, <3>3, <1>1, <1>5, FiniteRefs, SMTT(30) DEF Balanced
    <2>3. CASE x # e
      <3>1. HeldRefs(x)' = HeldRefs(x) /\ ArgRefs(x)' = ArgRefs(x)
        BY <1>1, <2>3, NullAssumption, Zenon DEF HeldRefs, ArgRefs, TypeOK
      <3>2. QED
        BY <2>1, <3>1, <1>5, Untouched, Zenon
    <2>4. QED
      BY <2>2, <2>3, Zenon
  <1>7. QED
    BY <1>2, <1>3, <1>5, <1>6, Zenon

\* A step of a call that moves no reference and touches no table.
LEMMA LabelStep ==
    ASSUME Inv, NEW t \in Threads, NEW c \in Calls, call' = [call EXCEPT ![t] = c],
           call[t].pc \in {"dup", "dup2_close", "dup2_at"}, c.pc \in {"dup2_at", "dup_done"},
           c.held = call[t].held, c.arg = call[t].arg, c.fd = call[t].fd,
           c.table = call[t].table,
           UNCHANGED <<entries, capacity, tablerefs, refcount, open, tab>>
    PROVE  Inv'
  <1> USE DEF Inv
  <1>1. TypeOK /\ call[t] \in Calls
    BY Zenon DEF SlotsInBounds, TypeOK
  <1>2. TypeOK' /\ SlotsInBounds'
    BY Zenon DEF SlotsInBounds, TypeOK
  <1>3. CallShape'
    <2>1. Shape(t)'
      BY <1>1, SMTT(30) DEF CallShape, Shape, Frame, TypeOK
    <2>2. QED
      BY <1>1, <2>1, QuietCalls, Zenon DEF TypeOK
  <1>4. \A u \in Threads : /\ call'[u].table = call[u].table
                           /\ call[u].table # NULL => call'[u].fd = call[u].fd
    BY <1>1, Zenon DEF TypeOK
  <1>5. TableLifetime' /\ \A x : SlotRefs(x)' = SlotRefs(x)
    BY <1>4, QuietTables, QuietSlots, Zenon
  <1>6. ASSUME NEW x \in Entries
        PROVE  Balanced(x)'
    <2>1. /\ Freers(x)' = Freers(x)
          /\ HeldRefs(x)' = HeldRefs(x)
          /\ ArgRefs(x)' = ArgRefs(x)
      BY <1>1, ZenonT(30) DEF Freers, HeldRefs, ArgRefs, TypeOK
    <2>2. QED
      BY <2>1, <1>5, Untouched, Zenon
  <1>7. QED
    BY <1>2, <1>3, <1>5, <1>6, Zenon

\* fdtable_close, and the closing of newfd in fdtable_dup2: the reference of
\* the slot becomes the argument of fd_entry_unref.
LEMMA CloseStep ==
    ASSUME Inv, NEW t \in Threads, NEW fd \in Fds, NEW c \in Calls,
           tab[t] # NULL, InUse(tab[t], fd),
           entries' = [entries EXCEPT ![tab[t]][fd] = NULL],
           call' = [call EXCEPT ![t] = c], call[t].pc \in {"run", "dup2_close"},
           c.pc = "unref", c.arg = entries[tab[t]][fd],
           c.back = IF call[t].pc = "run" THEN "run" ELSE "dup2_at",
           c.held = call[t].held, c.fd = call[t].fd, c.table = call[t].table,
           UNCHANGED <<capacity, tablerefs, refcount, open, tab>>
    PROVE  Inv'
  <1> USE DEF Inv
  <1> DEFINE T == tab[t]
             e == entries[T][fd]
  <1>1. TypeOK /\ call[t] \in Calls /\ call[t].table = NULL /\ call[t].arg = NULL
    BY Zenon DEF SlotsInBounds, TypeOK, CallShape, Shape, Frame
  <1>2. /\ T \in Tables /\ e \in Entries /\ e # NULL /\ <<T, fd>> \in Slots
        /\ \A u \in Threads : call[u].table # T
    BY <1>1, LiveTable, NullAssumption, SMTT(30) DEF InUse, TypeOK
  <1>3. TypeOK' /\ SlotsInBounds'
    <2>1. TypeOK'
      BY <1>1, <1>2, Zenon DEF TypeOK
    <2>2. QED
      BY <1>1, <1>2, <2>1, SMTT(30) DEF SlotsInBounds, TypeOK
  <1>4. CallShape'
    <2>1. Shape(t)'
      BY <1>1, <1>2, SMTT(30) DEF CallShape, Shape, Frame, TypeOK
    <2>2. QED
      BY <1>1, <2>1, QuietCalls, Zenon DEF TypeOK
  <1>5. \A u \in Threads : call'[u].table = call[u].table /\ call'[u].fd = call[u].fd
    BY <1>1, Zenon DEF TypeOK
  <1>6. TableLifetime'
    BY <1>5, QuietTables, Zenon
  <1>7. Slots' = Slots \ {<<T, fd>>}
    <2>1. Allocated' = Allocated
      BY <1>5, Zenon DEF Allocated
    <2>2. ASSUME NEW s \in Tables \X Fds
          PROVE  s \in Slots' <=> s \in Slots /\ s # <<T, fd>>
      BY <1>1, <1>2, <1>5, <2>1, SMTT(30) DEF Slots, TypeOK
    <2>3. QED
      BY <2>2, Zenon DEF Slots
  <1>8. ASSUME NEW x \in Entries
        PROVE  Balanced(x)'
    <2>1. Freers(x)' = Freers(x) /\ HeldRefs(x)' = HeldRefs(x)
      BY <1>1, Zenon DEF Freers, HeldRefs, TypeOK
    <2>2. SlotRefs(x)' = SlotRefs(x) \ {<<T, fd>>}
      BY <1>1, <1>2, <1>7, ZenonT(30) DEF SlotRefs, Slots, TypeOK
    <2>3. CASE x = e
      <3>1. /\ <<T, fd>> \in SlotRefs(x)
            /\ ArgRefs(x)' = ArgRefs(x) \cup {t} /\ t \notin ArgRefs(x)
        BY <1>1, <1>2, <2>3, Zenon DEF SlotRefs, ArgRefs, TypeOK
      <3>2. /\ Cardinality(SlotRefs(x)') = Cardinality(SlotRefs(x)) - 1
            /\ Cardinality(ArgRefs(x)') = Cardinality(ArgRefs(x)) + 1
        <4>1. IsFiniteSet(SlotRefs(x)) /\ IsFiniteSet(ArgRefs(x))
          BY FiniteRefs, Zenon
        <4>2. Cardinality(SlotRefs(x) \ {<<T, fd>>}) = Cardinality(SlotRefs(x)) - 1
          BY <3>1, <4>1, FS_RemoveElement, Zenon
        <4>3. Cardinality(ArgRefs(x) \cup {t}) = Cardinality(ArgRefs(x)) + 1
          BY <3>1, <4>1, FS_AddElement, Zenon
        <4>4. QED
          BY <2>2, <3>1, <4>2, <4>3, Zenon
      <3>3. x \in open
        BY <3>1, Zenon DEF Balanced
      <3>4. QED
        BY <2>1, <2>3, <3>2, <3>3, <1>2, FiniteRefs, SMTT(30) DEF Balanced
    <2>4. CASE x # e
      <3>1. <<T, fd>> \notin SlotRefs(x) /\ ArgRefs(x)' = ArgRefs(x)
        BY <1>1, <2>4, NullAssumption, Zenon DEF SlotRefs, ArgRefs, TypeOK
      <3>2. QED
        BY <2>1, <2>2, <3>1, Untouched, Zenon
    <2>5. QED
      BY <2>3, <2>4, Zenon
  <1>9. QED
    BY <1>3, <1>4, <1>6, <1>8, Zenon

\* fdtable_grow: the new capacity is enough, is not smaller, and is within the
\* limit.
LEMMA GrownBounds ==
    ASSUME NEW n \in FD_TABLE_INITIAL .. FD_TABLE_MAX, NEW min \in 0 .. FD_TABLE_MAX
    PROVE  /\ Grown(n, min) \in FD_TABLE_INITIAL .. FD_TABLE_MAX
           /\ Grown(n, min) >= n /\ Grown(n, min) >= min
  BY CapacityAssumption DEF Grown

\* Where the two ways to install an entry put it.
Placed(T, fd, n, e) ==
    /\ fd \in Fds /\ n \in FD_TABLE_INITIAL .. FD_TABLE_MAX
    /\ entries[T][fd] = NULL /\ fd < n /\ capacity[T] <= n
    /\ capacity' = [capacity EXCEPT ![T] = n]
    /\ entries' = [entries EXCEPT ![T][fd] = e]
    /\ refcount' = [refcount EXCEPT ![e] = @ + 1]

LEMMA InstallPlace ==
    ASSUME Inv, NEW T \in Tables, NEW e \in Entries, fdtable_install(T, e)
    PROVE  \E fd, n : Placed(T, fd, n, e)
  <1> DEFINE empty == {i \in Fds : i < capacity[T] /\ entries[T][i] = NULL}
  <1>1. PICK n \in Nat : n = capacity[T] /\ n \in FD_TABLE_INITIAL .. FD_TABLE_MAX
    BY CapacityAssumption, SMTT(30) DEF Inv, SlotsInBounds, TypeOK
  <1>2. capacity \in [Tables -> FD_TABLE_INITIAL .. FD_TABLE_MAX]
    BY Zenon DEF Inv, SlotsInBounds, TypeOK
  <1>3. CASE empty # {}
    <2>1. PICK fd \in empty : Place(T, fd, e) /\ capacity' = capacity
      BY <1>3, Zenon DEF fdtable_install
    <2>2. /\ capacity' = capacity /\ entries' = [entries EXCEPT ![T][fd] = e]
          /\ refcount' = [refcount EXCEPT ![e] = @ + 1]
      BY <2>1, Zenon DEF Place, fd_entry_ref
    <2>3. fd \in empty
      BY <2>1, Zenon
    <2>4. capacity' = [capacity EXCEPT ![T] = n]
      BY <1>1, <1>2, <2>2, Zenon
    <2>5. Placed(T, fd, n, e)
      <3>1. fd \in Fds /\ fd < n /\ entries[T][fd] = NULL /\ capacity[T] <= n
        BY <1>1, <2>3, SMTT(30)
      <3>2. QED
        BY <1>1, <2>2, <2>4, <3>1, Zenon DEF Placed
    <2>6. QED
      BY <2>5, Zenon
  <1>4. CASE empty = {}
    <2>1. /\ n + 1 <= FD_TABLE_MAX /\ capacity' = [capacity EXCEPT ![T] = Grown(n, n + 1)]
          /\ entries' = [entries EXCEPT ![T][n] = e]
          /\ refcount' = [refcount EXCEPT ![e] = @ + 1]
      BY <1>1, <1>4, Zenon DEF fdtable_install, fdtable_grow, Place, fd_entry_ref
    <2>2. n \in Fds /\ n + 1 \in 0 .. FD_TABLE_MAX
      BY <1>1, <2>1, CapacityAssumption, SMTT(30) DEF Fds
    <2>3. entries[T][n] = NULL
      BY <1>1, <2>2, SMTT(30) DEF Inv, SlotsInBounds
    <2>4. /\ Grown(n, n + 1) \in FD_TABLE_INITIAL .. FD_TABLE_MAX
          /\ Grown(n, n + 1) >= n + 1
      BY <1>1, <2>2, GrownBounds, Zenon
    <2>5. Placed(T, n, Grown(n, n + 1), e)
      BY <1>1, <2>1, <2>2, <2>3, <2>4, CapacityAssumption, SMTT(30) DEF Placed
    <2>6. QED
      BY <2>5, Zenon
  <1>5. QED
    BY <1>3, <1>4, Zenon

LEMMA InstallAtPlace ==
    ASSUME Inv, NEW T \in Tables, NEW e \in Entries, NEW fd \in Fds,
           fdtable_install_at(T, fd, e)
    PROVE  \E n : Placed(T, fd, n, e)
  <1>1. PICK n \in Nat : n = capacity[T] /\ n \in FD_TABLE_INITIAL .. FD_TABLE_MAX
    BY CapacityAssumption, SMTT(30) DEF Inv, SlotsInBounds, TypeOK
  <1>2. /\ entries[T][fd] = NULL /\ entries' = [entries EXCEPT ![T][fd] = e]
        /\ refcount' = [refcount EXCEPT ![e] = @ + 1]
    BY Zenon DEF fdtable_install_at, Place, fd_entry_ref
  <1>3. CASE fd < n
    <2>1. capacity' = [capacity EXCEPT ![T] = n]
      BY <1>1, <1>3, Zenon DEF fdtable_install_at, Inv, SlotsInBounds, TypeOK
    <2>2. Placed(T, fd, n, e)
      BY <1>1, <1>2, <1>3, <2>1, SMTT(30) DEF Placed
    <2>3. QED
      BY <2>2, Zenon
  <1>4. CASE ~(fd < n)
    <2>1. fd + 1 <= FD_TABLE_MAX /\ capacity' = [capacity EXCEPT ![T] = Grown(n, fd + 1)]
      BY <1>1, <1>4, Zenon DEF fdtable_install_at, fdtable_grow
    <2>2. fd \in Nat /\ fd + 1 \in 0 .. FD_TABLE_MAX
      BY <2>1, CapacityAssumption DEF Fds
    <2>3. /\ Grown(n, fd + 1) \in FD_TABLE_INITIAL .. FD_TABLE_MAX
          /\ fd + 1 <= Grown(n, fd + 1) /\ n <= Grown(n, fd + 1)
      BY <1>1, <2>2, GrownBounds, Zenon
    <2>4. Placed(T, fd, Grown(n, fd + 1), e)
      BY <1>1, <1>2, <2>1, <2>2, <2>3, CapacityAssumption, SMTT(30) DEF Placed
    <2>5. QED
      BY <2>4, Zenon
  <1>5. QED
    BY <1>3, <1>4, Zenon

\* Installing the entry a thread holds: the slot is one more reference, also
\* when the table grows for it.
LEMMA PlaceStep ==
    ASSUME Inv, NEW t \in Threads, NEW fd, NEW n, NEW c \in Calls,
           tab[t] # NULL, call[t].held # NULL,
           Placed(tab[t], fd, n, call[t].held),
           call' = [call EXCEPT ![t] = c],
           \/ c = call[t] /\ call[t].pc = "run"
           \/ /\ call[t].pc \in {"dup", "dup2_at"} /\ c.pc = "dup_done"
              /\ c.held = call[t].held /\ c.arg = call[t].arg /\ c.fd = call[t].fd
              /\ c.table = call[t].table,
           UNCHANGED <<tablerefs, open, tab>>
    PROVE  Inv'
  <1> USE DEF Inv
  <1>0. PICK T, e : T = tab[t] /\ e = call[t].held
    BY Zenon
  <1>1. /\ TypeOK /\ call[t] \in Calls /\ T \in Tables /\ e \in Entries /\ Placed(T, fd, n, e)
        /\ \A u \in Threads : call[u].table # T
        /\ T \in Allocated /\ entries \in [Tables -> [Fds -> Entries \cup {NULL}]]
        /\ capacity \in [Tables -> FD_TABLE_INITIAL .. FD_TABLE_MAX]
    BY <1>0, LiveTable, NullAssumption, SMTT(30) DEF SlotsInBounds, TypeOK, Calls
  <1>2. /\ entries' \in [Tables -> [Fds -> Entries \cup {NULL}]]
        /\ capacity' \in [Tables -> FD_TABLE_INITIAL .. FD_TABLE_MAX]
        /\ fd \in Fds /\ fd < n /\ capacity[T] <= n /\ entries[T][fd] = NULL
        /\ n \in Int /\ capacity'[T] = n /\ entries'[T][fd] = e
        /\ \A U \in Tables, i \in Fds : U # T \/ i # fd => entries'[U][i] = entries[U][i]
        /\ \A U \in Tables : U # T => capacity'[U] = capacity[U]
    <2>1. /\ fd \in Fds /\ fd < n /\ capacity[T] <= n /\ entries[T][fd] = NULL
          /\ n \in FD_TABLE_INITIAL .. FD_TABLE_MAX
          /\ entries' = [entries EXCEPT ![T][fd] = e]
          /\ capacity' = [capacity EXCEPT ![T] = n]
      BY <1>1, Zenon DEF Placed
    <2>2. /\ entries' \in [Tables -> [Fds -> Entries \cup {NULL}]] /\ entries'[T][fd] = e
          /\ \A U \in Tables, i \in Fds : U # T \/ i # fd => entries'[U][i] = entries[U][i]
      BY <1>1, <2>1, Zenon
    <2>3. /\ capacity' \in [Tables -> FD_TABLE_INITIAL .. FD_TABLE_MAX] /\ capacity'[T] = n
          /\ \A U \in Tables : U # T => capacity'[U] = capacity[U]
      BY <1>1, <2>1, Zenon
    <2>4. n \in Int
      BY <2>1, CapacityAssumption, SMTT(30)
    <2>5. QED
      BY <2>1, <2>2, <2>3, <2>4, Zenon
  <1>3. TypeOK' /\ SlotsInBounds'
    <2>1. TypeOK'
      BY <1>1, <1>2, SMTT(30) DEF TypeOK, Placed
    <2>2. ASSUME NEW U \in Tables, NEW i \in Fds, i >= capacity'[U]
          PROVE  entries'[U][i] = NULL
      <3>1. capacity[U] \in Int /\ i \in Int /\ fd \in Int
        BY <1>1, <1>2, CapacityAssumption, SMTT(30) DEF Fds
      <3>2. U # T \/ i # fd
        BY <1>2, <2>2, <3>1, SMTT(30)
      <3>3. i >= capacity[U]
        BY <1>2, <2>2, <3>1, SMTT(30)
      <3>4. QED
        BY <1>2, <3>2, <3>3, ZenonT(30) DEF SlotsInBounds
    <2>3. QED
      BY <2>1, <2>2, ZenonT(30) DEF SlotsInBounds
  <1>4. /\ call' \in [Threads -> Calls]
        /\ \A u \in Threads : /\ call'[u].table = call[u].table /\ call'[u].fd = call[u].fd
                              /\ call'[u].held = call[u].held /\ call'[u].arg = call[u].arg
        /\ \A u \in Threads \ {t} : call'[u] = call[u]
    BY <1>1, Zenon DEF TypeOK
  <1>5. CallShape'
    <2>1. Shape(t)'
      BY <1>1, <1>4, ZenonT(30) DEF CallShape, Shape, Frame, TypeOK
    <2>2. ASSUME NEW u \in Threads \ {t}
          PROVE  Shape(u)'
      <3>1. call'[u] = call[u] /\ Shape(u) /\ tab' = tab
        BY <1>4, Zenon DEF CallShape
      <3>2. call[u].table # NULL => capacity'[call[u].table] = capacity[call[u].table]
        <4>1. call[u].table # NULL => call[u].table \in Tables \ {T}
          BY <1>1, Zenon DEF TypeOK, Calls
        <4>2. QED
          BY <1>2, <4>1, Zenon
      <3>3. QED
        BY <3>1, <3>2, SMTT(30) DEF Shape
    <2>3. QED
      BY <2>1, <2>2, Zenon DEF CallShape
  <1>6. TableLifetime'
    BY <1>4, QuietTables, ZenonT(30)
  <1>7. Slots' = Slots \cup {<<T, fd>>} /\ <<T, fd>> \notin Slots
    <2>1. Allocated' = Allocated
      BY <1>4, SMTT(30) DEF Allocated
    <2>2. ASSUME NEW s \in Tables \X Fds
          PROVE  s \in Slots' <=> s \in Slots \/ s = <<T, fd>>
      <3>1. PICK U \in Tables, i \in Fds : s = <<U, i>>
        BY SMTT(30)
      <3>2. capacity[U] \in Int /\ i \in Int /\ fd \in Int
        BY <1>1, <1>2, CapacityAssumption, SMTT(30) DEF Fds
      <3>3. CASE U # T
        BY <1>2, <1>4, <2>1, <3>1, <3>3, SMTT(30) DEF Slots
      <3>4. CASE U = T /\ i # fd
        <4>1. entries'[U][i] # NULL => i < capacity[U]
          BY <1>2, <3>2, <3>4, SMTT(30) DEF SlotsInBounds
        <4>2. QED
          BY <1>2, <1>4, <2>1, <3>1, <3>2, <3>4, <4>1, SMTT(30) DEF Slots
      <3>5. CASE U = T /\ i = fd
        BY <1>1, <1>2, <1>4, <2>1, <3>1, <3>2, <3>5, NullAssumption, SMTT(30) DEF Slots
      <3>6. QED
        BY <3>3, <3>4, <3>5, Zenon
    <2>3. <<T, fd>> \notin Slots
      BY <1>2, Zenon DEF Slots
    <2>4. QED
      BY <1>1, <1>2, <2>2, <2>3, Zenon DEF Slots
  <1>8. ASSUME NEW x \in Entries
        PROVE  Balanced(x)'
    <2>1. /\ Freers(x)' = Freers(x) /\ HeldRefs(x)' = HeldRefs(x)
          /\ ArgRefs(x)' = ArgRefs(x)
      BY <1>1, <1>4, ZenonT(30) DEF Freers, HeldRefs, ArgRefs, TypeOK
    <2>2. CASE x = e
      <3>1. SlotRefs(x)' = SlotRefs(x) \cup {<<T, fd>>} /\ <<T, fd>> \notin SlotRefs(x)
        BY <1>2, <1>7, <2>2, SMTT(30) DEF SlotRefs, Slots
      <3>2. Cardinality(SlotRefs(x)') = Cardinality(SlotRefs(x)) + 1
        <4>1. IsFiniteSet(SlotRefs(x))
          BY FiniteRefs, Zenon
        <4>2. QED
          BY <3>1, <4>1, FS_AddElement, Zenon
      <3>3. t \in HeldRefs(x) /\ x \in open
        BY <1>0, <2>2, Zenon DEF HeldRefs, Balanced
      <3>4. refcount'[x] = refcount[x] + 1 /\ refcount[x] \in Nat
        BY <1>1, <2>2, Zenon DEF Placed, TypeOK
      <3>5. Cardinality(HeldRefs(x)) # 0
        BY <3>3, FiniteRefs, FS_EmptySet, Zenon
      <3>6. QED
        BY <2>1, <3>2, <3>3, <3>4, <3>5, FiniteRefs, SMTT(30) DEF Balanced
    <2>3. CASE x # e
      <3>1. SlotRefs(x)' = SlotRefs(x)
        BY <1>2, <1>7, <2>3, SMTT(30) DEF SlotRefs, Slots
      <3>2. refcount'[x] = refcount[x]
        BY <1>1, <2>3, Zenon DEF Placed, TypeOK
      <3>3. QED
        BY <2>1, <3>1, <3>2, Untouched, ZenonT(30)
    <2>4. QED
      BY <2>2, <2>3, Zenon
  <1>9. QED
    BY <1>3, <1>5, <1>6, <1>8, ZenonT(30)

\* fd_entry_unref, the part under entry->lock: whoever takes the count to zero
\* is the one that frees the entry.
LEMMA UnrefStep ==
    ASSUME Inv, NEW t \in Threads, fd_entry_unref(t)
    PROVE  Inv'
  <1> USE DEF Inv
  <1>0. PICK e, c : /\ e = call[t].arg
                    /\ c = IF refcount[e] > 1
                           THEN [call[t] EXCEPT !.pc = call[t].back, !.arg = NULL]
                           ELSE [call[t] EXCEPT !.pc = "free"]
    BY Zenon
  <1>1. /\ call[t].pc = "unref" /\ call' = [call EXCEPT ![t] = c]
        /\ refcount' = [refcount EXCEPT ![e] = @ - 1]
        /\ UNCHANGED <<entries, capacity, tablerefs, open, tab>>
    BY <1>0, Zenon DEF fd_entry_unref, At, Set
  <1>2. TypeOK /\ call[t] \in Calls /\ e \in Entries /\ e # NULL /\ Shape(t)
    <2>1. TypeOK /\ call[t] \in Calls /\ Shape(t)
      BY Zenon DEF SlotsInBounds, TypeOK, CallShape
    <2>2. QED
      BY <1>0, <1>1, <2>1, Zenon DEF Shape, Calls
  <1>3. /\ c \in Calls /\ c.held = call[t].held /\ c.fd = call[t].fd /\ c.table = call[t].table
        /\ c.back = call[t].back
        /\ refcount[e] > 1 => c.pc = c.back /\ c.arg = NULL
        /\ ~(refcount[e] > 1) => c.pc = "free" /\ c.arg = e
    BY <1>0, <1>2, Zenon DEF Calls, Labels
  <1>4. /\ t \in ArgRefs(e) /\ e \in open /\ refcount[e] \in Nat \ {0}
        /\ Cardinality(Freers(e)) = 0
    <2>1. t \in ArgRefs(e) /\ e \in open /\ refcount[e] \in Nat
      BY <1>0, <1>1, <1>2, Zenon DEF ArgRefs, Balanced, TypeOK
    <2>2. Cardinality(ArgRefs(e)) # 0
      BY <2>1, FiniteRefs, FS_EmptySet, Zenon
    <2>3. QED
      BY <1>2, <2>1, <2>2, FiniteRefs, SMTT(30) DEF Balanced
  <1>5. TypeOK' /\ SlotsInBounds'
    <2>0. refcount' \in [Entries -> Nat]
      <3>1. refcount \in [Entries -> Nat] /\ refcount[e] - 1 \in Nat
        BY <1>2, <1>4, SMTT(30) DEF TypeOK
      <3>2. QED
        BY <1>1, <1>2, <3>1, Zenon
    <2>1. TypeOK'
      BY <1>1, <1>2, <1>3, <2>0, Zenon DEF TypeOK
    <2>2. QED
      BY <1>1, <2>1, Zenon DEF SlotsInBounds
  <1>6. CallShape'
    <2>1. Shape(t)'
      BY <1>1, <1>2, <1>3, SMTT(30) DEF Shape, Frame, TypeOK, Calls
    <2>2. QED
      BY <1>1, <1>2, <2>1, QuietCalls, Zenon DEF TypeOK
  <1>7. \A u \in Threads : /\ call'[u].table = call[u].table /\ call'[u].fd = call[u].fd
                           /\ call'[u].held = call[u].held
    BY <1>1, <1>2, <1>3, Zenon DEF TypeOK
  <1>8. TableLifetime' /\ \A x : SlotRefs(x)' = SlotRefs(x)
    BY <1>1, <1>7, QuietTables, QuietSlots, Zenon
  <1>9. ASSUME NEW x \in Entries
        PROVE  Balanced(x)'
    <2>1. HeldRefs(x)' = HeldRefs(x)
      BY <1>7, Zenon DEF HeldRefs
    <2>2. CASE x = e
      <3>1. ArgRefs(x)' = ArgRefs(x) \ {t}
        BY <1>0, <1>1, <1>2, <1>3, <2>2, Zenon DEF ArgRefs, TypeOK, Calls
      <3>2. Cardinality(ArgRefs(x)') = Cardinality(ArgRefs(x)) - 1
        <4>1. IsFiniteSet(ArgRefs(x))
          BY FiniteRefs, Zenon
        <4>2. QED
          BY <3>1, <4>1, <1>4, <2>2, FS_RemoveElement, ZenonT(30)
      <3>3. refcount'[x] = refcount[x] - 1 /\ x \in open'
        BY <1>1, <1>2, <1>4, <2>2, Zenon DEF TypeOK
      <3>4. Freers(x) = {}
        BY <1>4, <2>2, FiniteRefs, FS_EmptySet, Zenon
      <3>5. CASE refcount[x] > 1
        <4>1. Freers(x)' = {}
          BY <3>4, <3>5, <1>1, <1>2, <1>3, <2>2, NullAssumption, ZenonT(30) DEF Freers, TypeOK
        <4>2. QED
          BY <4>1, <2>1, <2>2, <3>2, <3>3, <3>5, <1>4, <1>8, FiniteRefs, FS_EmptySet, SMTT(30)
             DEF Balanced
      <3>6. CASE ~(refcount[x] > 1)
        <4>1. Freers(x)' = {t}
          BY <3>4, <3>6, <1>1, <1>2, <1>3, <2>2, Zenon DEF Freers, TypeOK
        <4>2. refcount[x] = 1 /\ Cardinality(Freers(x)') = 1
          <5>1. Cardinality({t}) = 1
            BY FS_Singleton, Zenon
          <5>2. QED
            BY <4>1, <5>1, <3>6, <1>4, <2>2
        <4>3. QED
          BY <4>2, <2>1, <2>2, <3>2, <3>3, <1>4, <1>8, FiniteRefs, SMTT(30) DEF Balanced
      <3>7. QED
        BY <3>5, <3>6, Zenon
    <2>3. CASE x # e
      <3>1. ArgRefs(x)' = ArgRefs(x) /\ Freers(x)' = Freers(x)
        BY <1>0, <1>1, <1>2, <1>3, <2>3, NullAssumption, Zenon DEF ArgRefs, Freers, TypeOK
      <3>2. refcount'[x] = refcount[x]
        BY <2>3, <1>1, ZenonT(30) DEF SlotsInBounds, TypeOK
      <3>3. QED
        BY <2>1, <3>1, <3>2, <1>1, <1>8, Untouched, Zenon
    <2>4. QED
      BY <2>2, <2>3, Zenon
  <1>10. QED
    BY <1>5, <1>6, <1>8, <1>9, Zenon

\* fd_entry_unref, the part after the lock is released: nothing refers to the
\* entry any more, and no other thread is freeing it.
LEMMA FreeEntryStep ==
    ASSUME Inv, NEW t \in Threads, FreeEntry(t)
    PROVE  Inv'
  <1> USE DEF Inv
  <1>0. PICK e, c : /\ e = call[t].arg
                    /\ c = [call[t] EXCEPT !.pc = call[t].back, !.arg = NULL]
    BY Zenon
  <1>1. /\ call[t].pc = "free" /\ call' = [call EXCEPT ![t] = c] /\ open' = open \ {e}
        /\ UNCHANGED <<entries, capacity, tablerefs, refcount, tab>>
    BY <1>0, Zenon DEF FreeEntry, At, Set
  <1>2. TypeOK /\ call[t] \in Calls /\ e \in Entries /\ e # NULL /\ Shape(t)
    <2>1. TypeOK /\ call[t] \in Calls /\ Shape(t)
      BY SMTT(30) DEF SlotsInBounds, TypeOK, CallShape
    <2>2. QED
      BY <1>0, <1>1, <2>1, Zenon DEF Shape, Calls
  <1>3. /\ c \in Calls /\ c.held = call[t].held /\ c.fd = call[t].fd /\ c.table = call[t].table
        /\ c.back = call[t].back /\ c.pc = c.back /\ c.arg = NULL
    BY <1>0, <1>2, Zenon DEF Calls, Labels
  <1>4. /\ SlotRefs(e) = {} /\ HeldRefs(e) = {} /\ ArgRefs(e) = {} /\ Freers(e) = {t}
    <2>1. t \in Freers(e)
      BY <1>0, <1>1, Zenon DEF Freers
    <2>2. e \in open /\ refcount[e] = 0 /\ Cardinality(Freers(e)) = 1
      <3>1. Cardinality(Freers(e)) # 0
        BY <2>1, FiniteRefs, FS_EmptySet, Zenon
      <3>2. QED
        BY <1>2, <2>1, <3>1, Zenon DEF Balanced
    <2>3. \E y : Freers(e) = {y}
      BY <2>2, FiniteRefs, FS_Singleton, Zenon
    <2>4. /\ Cardinality(SlotRefs(e)) = 0 /\ Cardinality(HeldRefs(e)) = 0
          /\ Cardinality(ArgRefs(e)) = 0
      BY <1>2, <2>2, FiniteRefs, SMTT(30) DEF Balanced
    <2>5. QED
      BY <2>1, <2>3, <2>4, FiniteRefs, FS_EmptySet, ZenonT(30)
  <1>5. TypeOK' /\ SlotsInBounds'
    <2>1. TypeOK'
      BY <1>1, <1>2, <1>3, Zenon DEF TypeOK
    <2>2. QED
      BY <1>1, <2>1, Zenon DEF SlotsInBounds
  <1>6. CallShape'
    <2>1. Shape(t)'
      BY <1>1, <1>2, <1>3, SMTT(30) DEF Shape, Frame, TypeOK, Calls
    <2>2. QED
      BY <1>1, <1>2, <2>1, QuietCalls, Zenon DEF TypeOK
  <1>7. \A u \in Threads : /\ call'[u].table = call[u].table /\ call'[u].fd = call[u].fd
                           /\ call'[u].held = call[u].held
    BY <1>1, <1>2, <1>3, Zenon DEF TypeOK
  <1>8. TableLifetime' /\ \A x : SlotRefs(x)' = SlotRefs(x)
    BY <1>1, <1>7, QuietTables, QuietSlots, ZenonT(30)
  <1>9. ASSUME NEW x \in Entries
        PROVE  Balanced(x)'
    <2>1. HeldRefs(x)' = HeldRefs(x)
      BY <1>7, SMTT(30) DEF HeldRefs
    <2>2. ArgRefs(x)' = ArgRefs(x) /\ Freers(x)' = Freers(x) \ {t}
      BY <1>1, <1>2, <1>3, NullAssumption, ZenonT(30) DEF ArgRefs, Freers, TypeOK, Calls
    <2>3. CASE x = e
      BY <1>1, <1>4, <1>8, <2>1, <2>2, <2>3, ZenonT(30) DEF Balanced
    <2>4. CASE x # e
      <3>1. t \notin Freers(x)
        BY <1>0, <2>4, Zenon DEF Freers
      <3>2. QED
        BY <1>1, <1>8, <2>1, <2>2, <2>4, <3>1, Untouched, Zenon
    <2>5. QED
      BY <2>3, <2>4
  <1>10. QED
    BY <1>5, <1>6, <1>8, <1>9

-----------------------------------------------------------------------------
\* A table that is not allocated: nobody uses it or tears it down, and none of
\* its slots counts.
LEMMA UnusedTable ==
    ASSUME Inv, NEW T \in Tables, T \notin Allocated
    PROVE  /\ tablerefs[T] = 0 /\ Users(T) = {} /\ Killers(T) = {}
           /\ \A u \in Threads : call[u].table # T /\ tab[u] # T
           /\ \A s \in Slots : s[1] # T
  <1>1. tablerefs[T] \in Nat
    BY Zenon DEF Inv, SlotsInBounds, TypeOK
  <1>2. tablerefs[T] = 0 /\ \A u \in Threads : call[u].table # T
    BY <1>1, SMTT(30) DEF Allocated
  <1>3. Users(T) = {}
    <2>1. IsFiniteSet(Users(T)) /\ Cardinality(Users(T)) = 0
      BY <1>2, Finite, Zenon DEF Inv, TableLifetime, Users
    <2>2. QED
      BY <2>1, FS_EmptySet, Zenon
  <1>4. QED
    BY <1>2, <1>3, Zenon DEF Users, Killers, Slots

\* The tables' part of the step in which the process of u gets the unused
\* table T, with contents arr and capacity n.
LEMMA NewTableStep ==
    ASSUME Inv, NEW u \in Threads, NEW T \in Tables, NewTable(u, T),
           NEW arr \in [Fds -> Entries \cup {NULL}], NEW n \in FD_TABLE_INITIAL .. FD_TABLE_MAX,
           \A i \in Fds : i >= n => arr[i] = NULL,
           entries' = [entries EXCEPT ![T] = arr],
           capacity' = [capacity EXCEPT ![T] = n],
           tablerefs' = [tablerefs EXCEPT ![T] = 1],
           tab' = [tab EXCEPT ![u] = T],
           refcount' \in [Entries -> Nat], UNCHANGED <<open, call>>
    PROVE  /\ SlotsInBounds' /\ CallShape' /\ TableLifetime'
           /\ Slots' = Slots \cup {s \in {T} \X Fds : s[2] < n /\ arr[s[2]] # NULL}
           /\ \A s \in Slots : s[1] # T /\ entries'[s[1]][s[2]] = entries[s[1]][s[2]]
  <1> USE DEF Inv
  <1>1. /\ TypeOK /\ T \notin Allocated /\ tab[u] = NULL /\ call[u].pc = "run"
        /\ tablerefs[T] = 0 /\ Users(T) = {} /\ Killers(T) = {}
        /\ \A v \in Threads : call[v].table # T /\ tab[v] # T
        /\ \A s \in Slots : s[1] # T
    BY UnusedTable, ZenonT(30) DEF NewTable, At, SlotsInBounds
  <1>2. TypeOK' /\ SlotsInBounds'
    <2>1. TypeOK'
      BY <1>1, Zenon DEF TypeOK
    <2>2. QED
      BY <1>1, <2>1, SMTT(30) DEF SlotsInBounds, TypeOK
  <1>3. CallShape'
    <2>1. ASSUME NEW v \in Threads
          PROVE  Shape(v)'
      <3>1. call[v].table # NULL => capacity'[call[v].table] = capacity[call[v].table]
        <4>1. call[v].table # NULL => call[v].table \in Tables \ {T}
          BY <1>1, Zenon DEF TypeOK, Calls
        <4>2. QED
          BY <1>1, <4>1, Zenon DEF TypeOK
      <3>2. CASE v = u
        <4>1. tab'[v] # NULL /\ call[v].table = NULL
          BY <1>1, <3>2, NullAssumption, SMTT(30) DEF TypeOK, CallShape, Shape, Frame
        <4>2. QED
          BY <4>1, Zenon DEF CallShape, Shape
      <3>3. CASE v # u
        <4>1. tab'[v] = tab[v]
          BY <1>1, <3>3, Zenon DEF TypeOK
        <4>2. QED
          BY <3>1, <4>1, Zenon DEF CallShape, Shape
      <3>4. QED
        BY <3>2, <3>3, Zenon
    <2>2. QED
      BY <2>1, Zenon DEF CallShape
  <1>4. TableLifetime'
    <2>1. ASSUME NEW U \in Tables
          PROVE  /\ tablerefs'[U] = Cardinality(Users(U)')
                 /\ Killers(U)' # {} => tablerefs'[U] = 0 /\ Cardinality(Killers(U)') = 1
      <3>1. Killers(U)' = Killers(U)
        BY Zenon DEF Killers
      <3>2. CASE U = T
        <4>1. Users(T)' = {u}
          BY <1>1, Zenon DEF Users, TypeOK
        <4>2. Cardinality({u}) = 1 /\ tablerefs'[T] = 1
          BY <1>1, FS_Singleton, Zenon DEF TypeOK
        <4>3. QED
          BY <1>1, <3>1, <3>2, <4>1, <4>2, Zenon
      <3>3. CASE U # T
        <4>1. Users(U)' = Users(U)
          BY <1>1, <3>3, NullAssumption, Zenon DEF Users, TypeOK
        <4>2. tablerefs'[U] = tablerefs[U]
          BY <1>1, <3>3, Zenon DEF TypeOK
        <4>3. QED
          BY <3>1, <4>1, <4>2, Zenon DEF TableLifetime
      <3>4. QED
        BY <3>2, <3>3, Zenon
    <2>2. QED
      BY <2>1, Zenon DEF TableLifetime
  <1>5. Slots' = Slots \cup {s \in {T} \X Fds : s[2] < n /\ arr[s[2]] # NULL}
    <2>1. ASSUME NEW U \in Tables
          PROVE  U \in Allocated' <=> U \in Allocated \/ U = T
      BY <1>1, SMTT(30) DEF Allocated, TypeOK
    <2>2. ASSUME NEW U \in Tables, NEW i \in Fds
          PROVE  <<U, i>> \in Slots' <=> \/ <<U, i>> \in Slots
                                         \/ U = T /\ i < n /\ arr[i] # NULL
      <3>1. CASE U = T
        <4>1. entries'[U] = arr /\ capacity'[U] = n
          BY <1>1, <3>1, Zenon DEF TypeOK
        <4>2. <<U, i>> \notin Slots
          BY <1>1, <3>1, Zenon
        <4>3. QED
          BY <1>1, <2>1, <3>1, <4>1, <4>2, ZenonT(30) DEF Slots
      <3>2. CASE U # T
        <4>1. entries'[U] = entries[U] /\ capacity'[U] = capacity[U]
          BY <1>1, <3>2, Zenon DEF TypeOK
        <4>2. QED
          BY <1>1, <2>1, <3>2, <4>1, Zenon DEF Slots
      <3>3. QED
        BY <3>1, <3>2, Zenon
    <2>3. Slots \subseteq Tables \X Fds /\ Slots' \subseteq Tables \X Fds
      BY Zenon DEF Slots
    <2>4. QED
      BY <2>2, <2>3, SMTT(30)
  <1>6. \A s \in Slots : entries'[s[1]][s[2]] = entries[s[1]][s[2]]
    BY <1>1, Zenon DEF Slots, TypeOK
  <1>7. QED
    BY <1>1, <1>2, <1>3, <1>4, <1>5, <1>6, Zenon

\* fdtable_create.
LEMMA CreateStep ==
    ASSUME Inv, NEW u \in Threads, NEW T \in Tables, fdtable_create(u, T)
    PROVE  Inv'
  <1> USE DEF Inv
  <1> DEFINE arr == [i \in Fds |-> NULL]
  <1>1. /\ arr \in [Fds -> Entries \cup {NULL}]
        /\ FD_TABLE_INITIAL \in FD_TABLE_INITIAL .. FD_TABLE_MAX
        /\ \A i \in Fds : i >= FD_TABLE_INITIAL => arr[i] = NULL
    BY CapacityAssumption
  <1>2. /\ NewTable(u, T) /\ UNCHANGED <<refcount, open, call>>
        /\ entries' = [entries EXCEPT ![T] = arr]
        /\ capacity' = [capacity EXCEPT ![T] = FD_TABLE_INITIAL]
        /\ tablerefs' = [tablerefs EXCEPT ![T] = 1]
        /\ tab' = [tab EXCEPT ![u] = T]
    BY Zenon DEF fdtable_create
  <1>3. refcount' \in [Entries -> Nat]
    BY <1>2, Zenon DEF SlotsInBounds, TypeOK
  <1>4. /\ SlotsInBounds' /\ CallShape' /\ TableLifetime'
        /\ Slots' = Slots \cup {s \in {T} \X Fds : s[2] < FD_TABLE_INITIAL /\ arr[s[2]] # NULL}
        /\ \A s \in Slots : s[1] # T /\ entries'[s[1]][s[2]] = entries[s[1]][s[2]]
    BY <1>1, <1>2, <1>3, NewTableStep, Zenon
  <1>5. Slots' = Slots
    BY <1>4, Zenon
  <1>6. ASSUME NEW x \in Entries
        PROVE  Balanced(x)'
    <2>1. SlotRefs(x)' = SlotRefs(x)
      BY <1>4, <1>5, Zenon DEF SlotRefs
    <2>2. /\ HeldRefs(x)' = HeldRefs(x) /\ ArgRefs(x)' = ArgRefs(x)
          /\ Freers(x)' = Freers(x)
      BY <1>2, Zenon DEF HeldRefs, ArgRefs, Freers
    <2>3. QED
      BY <1>2, <2>1, <2>2, Untouched, Zenon
  <1>7. QED
    BY <1>4, <1>6, Zenon

LEMMA DisjointUnion ==
    ASSUME NEW A, NEW B, IsFiniteSet(A), IsFiniteSet(B), A \cap B = {}
    PROVE  Cardinality(A \cup B) = Cardinality(A) + Cardinality(B)
  <1>1. Cardinality(A \cup B) = Cardinality(A) + Cardinality(B) - Cardinality(A \cap B)
    BY FS_Union, Zenon
  <1>2. Cardinality(A \cap B) = 0 /\ Cardinality(A) \in Nat /\ Cardinality(B) \in Nat
    BY FS_EmptySet, FS_CardinalityType, Zenon
  <1>3. QED
    BY <1>1, <1>2

\* fdtable_clone: every slot of the copy is one more reference to its entry.
LEMMA CloneStep ==
    ASSUME Inv, NEW t \in Threads, NEW u \in Threads, NEW T \in Tables, fdtable_clone(t, u, T)
    PROVE  Inv'
  <1> USE DEF Inv
  <1>0. PICK S, arr, n : S = tab[t] /\ arr = entries[S] /\ n = capacity[S]
    BY Zenon
  <1>1. /\ NewTable(u, T) /\ tab[t] # NULL /\ UNCHANGED <<open, call>>
        /\ entries' = [entries EXCEPT ![T] = arr]
        /\ capacity' = [capacity EXCEPT ![T] = n]
        /\ tablerefs' = [tablerefs EXCEPT ![T] = 1]
        /\ tab' = [tab EXCEPT ![u] = T]
        /\ refcount' = [e \in Entries |-> refcount[e] + Cardinality(SlotsOf(S, e))]
    BY <1>0, Zenon DEF fdtable_clone, Ready
  <1>2. /\ TypeOK /\ S \in Tables
        /\ \A i \in Fds : <<S, i>> \in Slots <=> i < n /\ arr[i] # NULL
    BY <1>0, <1>1, LiveTable, Zenon DEF SlotsInBounds, InUse
  <1>3. /\ arr \in [Fds -> Entries \cup {NULL}] /\ n \in FD_TABLE_INITIAL .. FD_TABLE_MAX
        /\ \A i \in Fds : i >= n => arr[i] = NULL
    BY <1>0, <1>2, Zenon DEF SlotsInBounds, TypeOK
  <1>4. \A e : /\ IsFiniteSet(SlotsOf(S, e)) /\ Cardinality(SlotsOf(S, e)) \in Nat
               /\ SlotsOf(S, e) \subseteq Fds
    <2>1. IsFiniteSet(Fds) /\ \A e : SlotsOf(S, e) \subseteq Fds
      <3>1. 0 \in Int /\ FD_TABLE_MAX - 1 \in Int
        BY CapacityAssumption
      <3>2. IsFiniteSet(Fds)
        BY <3>1, FS_Interval, Zenon DEF Fds
      <3>3. \A e : SlotsOf(S, e) \subseteq Fds
        BY Zenon DEF SlotsOf
      <3>4. QED
        BY <3>2, <3>3, Zenon
    <2>2. QED
      BY <2>1, FS_Subset, FS_CardinalityType, Zenon
  <1>5. refcount' \in [Entries -> Nat]
    <2>1. refcount \in [Entries -> Nat]
      BY <1>2, Zenon DEF TypeOK
    <2>2. ASSUME NEW e \in Entries
          PROVE  refcount[e] + Cardinality(SlotsOf(S, e)) \in Nat
      <3>1. refcount[e] \in Nat /\ Cardinality(SlotsOf(S, e)) \in Nat
        BY <1>4, <2>1, Zenon
      <3>2. QED
        BY <3>1
    <2>3. QED
      BY <1>1, <2>2, Zenon
  <1>6. /\ SlotsInBounds' /\ CallShape' /\ TableLifetime'
        /\ Slots' = Slots \cup {s \in {T} \X Fds : s[2] < n /\ arr[s[2]] # NULL}
        /\ \A s \in Slots : s[1] # T /\ entries'[s[1]][s[2]] = entries[s[1]][s[2]]
    BY <1>1, <1>3, <1>5, NewTableStep, Zenon
  <1>7. ASSUME NEW x \in Entries
        PROVE  Balanced(x)'
    <2>1. /\ HeldRefs(x)' = HeldRefs(x) /\ ArgRefs(x)' = ArgRefs(x)
          /\ Freers(x)' = Freers(x)
      BY <1>1, Zenon DEF HeldRefs, ArgRefs, Freers
    <2>2. /\ SlotRefs(x)' = SlotRefs(x) \cup ({T} \X SlotsOf(S, x))
          /\ SlotRefs(x) \cap ({T} \X SlotsOf(S, x)) = {}
      <3>1. \A i \in Fds : entries'[T][i] = arr[i]
        BY <1>1, <1>2, Zenon DEF TypeOK
      <3>2. \A i \in Fds : i \in SlotsOf(S, x) <=> i < n /\ arr[i] = x
        BY <1>0, Zenon DEF SlotsOf
      <3>3. SlotRefs(x)' = SlotRefs(x) \cup ({T} \X SlotsOf(S, x))
        <4>1. ASSUME NEW s \in SlotRefs(x)'
              PROVE  s \in SlotRefs(x) \cup ({T} \X SlotsOf(S, x))
          BY <1>6, <3>1, <3>2, SMTT(30) DEF SlotRefs
        <4>2. ASSUME NEW s \in SlotRefs(x)
              PROVE  s \in SlotRefs(x)'
          BY <1>6, Zenon DEF SlotRefs
        <4>3. ASSUME NEW i \in SlotsOf(S, x)
              PROVE  <<T, i>> \in SlotRefs(x)'
          <5>1. i \in Fds /\ i < n /\ arr[i] = x /\ x # NULL
            BY <1>4, <3>2, NullAssumption, ZenonT(30)
          <5>2. QED
            BY <1>6, <3>1, <5>1, Zenon DEF SlotRefs
        <4>4. QED
          BY <4>1, <4>2, <4>3
      <3>4. QED
        BY <1>6, <3>3, Zenon DEF SlotRefs
    <2>3. Cardinality(SlotRefs(x)') = Cardinality(SlotRefs(x)) + Cardinality(SlotsOf(S, x))
      <3>1. /\ IsFiniteSet({T} \X SlotsOf(S, x))
            /\ Cardinality({T} \X SlotsOf(S, x)) = Cardinality(SlotsOf(S, x))
        <4>1. IsFiniteSet({T}) /\ Cardinality({T}) = 1
          BY FS_Singleton, Zenon
        <4>2. /\ IsFiniteSet({T} \X SlotsOf(S, x))
              /\ Cardinality({T} \X SlotsOf(S, x)) = Cardinality({T}) * Cardinality(SlotsOf(S, x))
          BY <1>4, <4>1, FS_Product, Zenon
        <4>3. QED
          BY <1>4, <4>1, <4>2, SMTT(30)
      <3>2. IsFiniteSet(SlotRefs(x)) /\ Cardinality(SlotRefs(x)) \in Nat
        BY FiniteRefs, Zenon
      <3>3. Cardinality(SlotRefs(x) \cup ({T} \X SlotsOf(S, x)))
               = Cardinality(SlotRefs(x)) + Cardinality({T} \X SlotsOf(S, x))
        BY <2>2, <3>1, <3>2, DisjointUnion, Zenon
      <3>4. QED
        BY <2>2, <3>1, <3>3, Zenon
    <2>4. refcount'[x] = refcount[x] + Cardinality(SlotsOf(S, x)) /\ refcount[x] \in Nat
      BY <1>1, <1>2, Zenon DEF TypeOK
    <2>5. SlotRefs(x) = {} => SlotsOf(S, x) = {}
      <3>1. ASSUME NEW i \in SlotsOf(S, x)
            PROVE  <<S, i>> \in SlotRefs(x)
        BY <1>0, <1>2, NullAssumption, Zenon DEF SlotsOf, SlotRefs
      <3>2. QED
        BY <3>1, Zenon
    <2>6. CASE x \in open
      <3>1. refcount[x] = 0 => Cardinality(SlotsOf(S, x)) = 0
        <4>1. refcount[x] = 0 => Cardinality(SlotRefs(x)) = 0
          BY <2>6, FiniteRefs, SMTT(30) DEF Balanced
        <4>2. QED
          BY <2>5, <4>1, FiniteRefs, FS_EmptySet, Zenon
      <3>2. QED
        BY <1>1, <1>4, <2>1, <2>3, <2>4, <2>6, <3>1, FiniteRefs, SMTT(30) DEF Balanced
    <2>7. CASE x \notin open
      <3>1. SlotRefs(x)' = {}
        BY <2>2, <2>5, <2>7, Zenon DEF Balanced
      <3>2. QED
        BY <1>1, <2>1, <2>7, <3>1, Zenon DEF Balanced
    <2>8. QED
      BY <2>6, <2>7, Zenon
  <1>8. QED
    BY <1>6, <1>7, Zenon

\* The accounts after a step that changes no entry and no slot that counts.
LEMMA SameAccounts ==
    ASSUME Inv, Slots' = Slots, UNCHANGED <<entries, refcount, open>>,
           \A v \in Threads : /\ call'[v].held = call[v].held
                              /\ call'[v].arg = call[v].arg \/ call[v].pc \notin {"unref", "free"}
                              /\ call'[v].pc \in {"unref", "free"} \/ call[v].pc \in {"unref", "free"}
                                   => call'[v].pc = call[v].pc
    PROVE  \A x \in Entries : Balanced(x)'
  <1>1. ASSUME NEW x \in Entries
        PROVE  Balanced(x)'
    <2>1. SlotRefs(x)' = SlotRefs(x)
      BY Zenon DEF SlotRefs
    <2>2. /\ HeldRefs(x)' = HeldRefs(x) /\ ArgRefs(x)' = ArgRefs(x)
          /\ Freers(x)' = Freers(x)
      BY Zenon DEF HeldRefs, ArgRefs, Freers
    <2>3. QED
      BY <2>1, <2>2, Untouched, Zenon DEF Inv
  <1>2. QED
    BY <1>1, Zenon

\* fdtable_ref: another process uses the table.
LEMMA RefStep ==
    ASSUME Inv, NEW t \in Threads, NEW u \in Threads, fdtable_ref(t, u)
    PROVE  Inv'
  <1> USE DEF Inv
  <1>0. PICK T : T = tab[t]
    BY Zenon
  <1>1. /\ T # NULL /\ tab[u] = NULL /\ call[u].pc = "run"
        /\ tablerefs' = [tablerefs EXCEPT ![T] = @ + 1]
        /\ tab' = [tab EXCEPT ![u] = T]
        /\ UNCHANGED <<entries, capacity, refcount, open, call>>
    BY <1>0, Zenon DEF fdtable_ref, Ready, At
  <1>2. /\ TypeOK /\ T \in Tables /\ T \in Allocated /\ tablerefs[T] \in Nat
        /\ \A v \in Threads : call[v].table # T
    BY <1>0, <1>1, LiveTable, Zenon DEF SlotsInBounds, TypeOK
  <1>3. TypeOK' /\ SlotsInBounds'
    <2>1. TypeOK'
      BY <1>1, <1>2, SMTT(30) DEF TypeOK
    <2>2. QED
      BY <1>1, <2>1, Zenon DEF SlotsInBounds
  <1>4. CallShape'
    <2>1. ASSUME NEW v \in Threads
          PROVE  Shape(v)'
      <3>1. CASE v = u
        <4>1. tab'[v] # NULL /\ call[v].table = NULL
          BY <1>1, <1>2, <3>1, NullAssumption, Zenon DEF TypeOK, CallShape, Shape, Frame
        <4>2. QED
          BY <1>1, <4>1, Zenon DEF CallShape, Shape
      <3>2. CASE v # u
        <4>1. tab'[v] = tab[v]
          BY <1>1, <1>2, <3>2, Zenon DEF TypeOK
        <4>2. QED
          BY <1>1, <4>1, Zenon DEF CallShape, Shape
      <3>3. QED
        BY <3>1, <3>2, Zenon
    <2>2. QED
      BY <2>1, Zenon DEF CallShape
  <1>5. TableLifetime'
    <2>1. ASSUME NEW U \in Tables
          PROVE  /\ tablerefs'[U] = Cardinality(Users(U)')
                 /\ Killers(U)' # {} => tablerefs'[U] = 0 /\ Cardinality(Killers(U)') = 1
      <3>1. Killers(U)' = Killers(U)
        BY <1>1, Zenon DEF Killers
      <3>2. CASE U = T
        <4>1. Users(U)' = Users(U) \cup {u} /\ u \notin Users(U) /\ Killers(U) = {}
          BY <1>1, <1>2, <3>2, Zenon DEF Users, Killers, TypeOK
        <4>2. IsFiniteSet(Users(U))
          BY Finite, Zenon DEF Users
        <4>3. Cardinality(Users(U)') = Cardinality(Users(U)) + 1
          BY <4>1, <4>2, FS_AddElement, Zenon
        <4>4. QED
          BY <1>1, <1>2, <3>1, <3>2, <4>1, <4>3, Zenon DEF TableLifetime, TypeOK
      <3>3. CASE U # T
        <4>1. Users(U)' = Users(U)
          BY <1>1, <1>2, <3>3, NullAssumption, Zenon DEF Users, TypeOK
        <4>2. tablerefs'[U] = tablerefs[U]
          BY <1>1, <1>2, <3>3, Zenon DEF TypeOK
        <4>3. QED
          BY <3>1, <4>1, <4>2, Zenon DEF TableLifetime
      <3>4. QED
        BY <3>2, <3>3, Zenon
    <2>2. QED
      BY <2>1, Zenon DEF TableLifetime
  <1>6. Slots' = Slots
    <2>1. \A U \in Tables : tablerefs'[U] > 0 <=> tablerefs[U] > 0 \/ U = T
      BY <1>1, <1>2, SMTT(30) DEF TypeOK
    <2>2. Allocated' = Allocated
      BY <1>1, <1>2, <2>1, Zenon DEF Allocated
    <2>3. QED
      BY <1>1, <2>2, Zenon DEF Slots
  <1>7. \A x \in Entries : Balanced(x)'
    BY <1>1, <1>6, SameAccounts, Zenon
  <1>8. QED
    BY <1>3, <1>4, <1>5, <1>7, Zenon

\* fdtable_unref: the thread that drops the last reference, and it alone,
\* tears the table down.
LEMMA TableUnrefStep ==
    ASSUME Inv, NEW t \in Threads, fdtable_unref(t)
    PROVE  Inv'
  <1> USE DEF Inv
  <1>0. PICK T, c : /\ T = tab[t]
                    /\ c = IF tablerefs[T] > 1 THEN call[t]
                           ELSE [call[t] EXCEPT !.pc = "teardown", !.table = T]
    BY Zenon
  <1>1. /\ T # NULL /\ call[t].pc = "run" /\ call[t].held = NULL
        /\ tablerefs' = [tablerefs EXCEPT ![T] = @ - 1]
        /\ tab' = [tab EXCEPT ![t] = NULL]
        /\ UNCHANGED <<entries, capacity, refcount, open>>
    BY <1>0, Zenon DEF fdtable_unref, Free, Ready, At
  <1>2. /\ TypeOK /\ T \in Tables /\ T \in Allocated /\ tablerefs[T] \in Nat \ {0}
        /\ \A v \in Threads : call[v].table # T
        /\ call \in [Threads -> Calls]
    BY <1>0, <1>1, LiveTable, SMTT(30) DEF SlotsInBounds, TypeOK
  <1>3. call[t].table = NULL /\ call[t].fd = 0 /\ call[t].arg = NULL /\ call[t] \in Calls
    BY <1>1, <1>2, Zenon DEF CallShape, Shape, Frame
  <1>4. /\ c \in Calls /\ c.held = NULL /\ c.fd = 0 /\ c.arg = NULL
        /\ tablerefs[T] > 1 => c = call[t]
        /\ ~(tablerefs[T] > 1) => c.pc = "teardown" /\ c.table = T
    BY <1>0, <1>1, <1>2, <1>3, Zenon DEF Calls, Labels
  <1>5. call' = [call EXCEPT ![t] = c]
    <2>1. CASE tablerefs[T] > 1
      <3>1. call' = call /\ c = call[t]
        BY <1>0, <2>1, Zenon DEF fdtable_unref
      <3>2. QED
        BY <1>2, <3>1, Zenon
    <2>2. CASE ~(tablerefs[T] > 1)
      BY <1>0, <2>2, Zenon DEF fdtable_unref, Set
    <2>3. QED
      BY <2>1, <2>2, Zenon
  <1>6. TypeOK' /\ SlotsInBounds'
    <2>1. tablerefs' \in [Tables -> Nat]
      <3>1. tablerefs \in [Tables -> Nat] /\ tablerefs[T] - 1 \in Nat
        BY <1>2, SMTT(30) DEF TypeOK
      <3>2. QED
        BY <1>1, <1>2, <3>1, Zenon
    <2>2. TypeOK'
      BY <1>1, <1>2, <1>4, <1>5, <2>1, Zenon DEF TypeOK
    <2>3. QED
      BY <1>1, <2>2, Zenon DEF SlotsInBounds
  <1>7. CallShape'
    <2>1. Shape(t)'
      <3>1. call'[t] = c /\ tab'[t] = NULL /\ capacity' = capacity
        BY <1>1, <1>2, <1>5, Zenon DEF TypeOK
      <3>2. capacity[T] >= 0
        BY <1>2, CapacityAssumption, SMTT(30) DEF TypeOK
      <3>3. CASE tablerefs[T] > 1
        BY <1>1, <1>3, <1>4, <3>1, <3>3, Zenon DEF Shape, Frame
      <3>4. CASE ~(tablerefs[T] > 1)
        BY <1>1, <1>4, <3>1, <3>2, <3>4, Zenon DEF Shape, Frame
      <3>5. QED
        BY <3>3, <3>4, Zenon
    <2>2. ASSUME NEW v \in Threads \ {t}
          PROVE  Shape(v)'
      <3>1. call'[v] = call[v] /\ tab'[v] = tab[v] /\ Shape(v)
        BY <1>1, <1>2, <1>5, Zenon DEF TypeOK, CallShape
      <3>2. QED
        BY <1>1, <3>1, Zenon DEF Shape
    <2>3. QED
      BY <2>1, <2>2, Zenon DEF CallShape
  <1>8. TableLifetime'
    <2>1. ASSUME NEW U \in Tables
          PROVE  /\ tablerefs'[U] = Cardinality(Users(U)')
                 /\ Killers(U)' # {} => tablerefs'[U] = 0 /\ Cardinality(Killers(U)') = 1
      <3>1. CASE U = T
        <4>1. Users(U)' = Users(U) \ {t} /\ t \in Users(U) /\ IsFiniteSet(Users(U))
          BY <1>0, <1>1, <1>2, <3>1, NullAssumption, Finite, Zenon DEF Users, TypeOK
        <4>2. Cardinality(Users(U)') = Cardinality(Users(U)) - 1
          BY <4>1, FS_RemoveElement, Zenon
        <4>3. tablerefs'[U] = tablerefs[U] - 1
          BY <1>1, <1>2, <3>1, Zenon DEF TypeOK
        <4>4. Killers(U)' = IF tablerefs[T] > 1 THEN {} ELSE {t}
          BY <1>2, <1>4, <1>5, <3>1, Zenon DEF Killers
        <4>5. Cardinality({t}) = 1
          BY FS_Singleton, Zenon
        <4>6. QED
          BY <1>2, <3>1, <4>2, <4>3, <4>4, <4>5, SMTT(30) DEF TableLifetime
      <3>2. CASE U # T
        <4>1. Users(U)' = Users(U)
          BY <1>0, <1>1, <1>2, <3>2, NullAssumption, Zenon DEF Users, TypeOK
        <4>2. Killers(U)' = Killers(U)
          BY <1>2, <1>3, <1>4, <1>5, <3>2, NullAssumption, Zenon DEF Killers
        <4>3. tablerefs'[U] = tablerefs[U]
          BY <1>1, <1>2, <3>2, Zenon DEF TypeOK
        <4>4. QED
          BY <4>1, <4>2, <4>3, Zenon DEF TableLifetime
      <3>3. QED
        BY <3>1, <3>2, Zenon
    <2>2. QED
      BY <2>1, Zenon DEF TableLifetime
  <1>9. Slots' = Slots
    <2>1. \A U \in Tables : U # T => tablerefs'[U] = tablerefs[U]
      BY <1>1, <1>2, Zenon DEF TypeOK
    <2>2. \A v \in Threads, U \in Tables : U # T => (call'[v].table = U <=> call[v].table = U)
      BY <1>2, <1>3, <1>4, <1>5, NullAssumption, Zenon
    <2>3. tablerefs'[T] > 0 \/ call'[t].table = T
      BY <1>1, <1>2, <1>4, <1>5, SMTT(30) DEF TypeOK
    <2>4. Allocated' = Allocated
      BY <1>2, <2>1, <2>2, <2>3, SMTT(30) DEF Allocated
    <2>5. \A v \in Threads : call'[v].table = T => call'[v].fd = 0
      BY <1>2, <1>4, <1>5, Zenon
    <2>6. \A v \in Threads : call'[v].fd = call[v].fd
      BY <1>2, <1>3, <1>4, <1>5, ZenonT(30)
    <2>7. ASSUME NEW U \in Tables, NEW i \in Fds
          PROVE  <<U, i>> \in Slots' <=> <<U, i>> \in Slots
      <3>1. i >= 0
        BY DEF Fds
      <3>2. QED
        BY <1>1, <1>2, <2>2, <2>4, <2>5, <2>6, <3>1, SMTT(30) DEF Slots
    <2>8. Slots \subseteq Tables \X Fds /\ Slots' \subseteq Tables \X Fds
      BY Zenon DEF Slots
    <2>9. QED
      BY <2>7, <2>8
  <1>10. \A x \in Entries : Balanced(x)'
    <2>1. \A v \in Threads : /\ call'[v].held = call[v].held /\ call'[v].arg = call[v].arg
                             /\ call'[v].pc \in {"unref", "free"} \/ call[v].pc \in {"unref", "free"}
                                  => call'[v].pc = call[v].pc
      BY <1>1, <1>2, <1>3, <1>4, <1>5, Zenon
    <2>2. QED
      BY <1>1, <1>9, <2>1, SameAccounts, Zenon
  <1>11. QED
    BY <1>6, <1>7, <1>8, <1>10, Zenon

\* The one thread that tears a table down.
LEMMA OneKiller ==
    ASSUME Inv, NEW t \in Threads, NEW T, T = call[t].table, T # NULL
    PROVE  /\ T \in Tables /\ T \in Allocated /\ Killers(T) = {t} /\ tablerefs[T] = 0
           /\ \A v \in Threads : call[v].table = T => v = t
  <1>1. T \in Tables /\ t \in Killers(T) /\ IsFiniteSet(Killers(T))
    BY Finite, Zenon DEF Inv, SlotsInBounds, TypeOK, Calls, Killers
  <1>2. Cardinality(Killers(T)) = 1 /\ tablerefs[T] = 0
    BY <1>1, Zenon DEF Inv, TableLifetime
  <1>3. \E y : Killers(T) = {y}
    BY <1>1, <1>2, FS_Singleton, Zenon
  <1>4. QED
    BY <1>1, <1>2, <1>3, SMTT(30) DEF Killers, Allocated

\* The loop of fdtable_unref, one slot: its reference becomes the argument of
\* fd_entry_unref.
LEMMA TeardownStep ==
    ASSUME Inv, NEW t \in Threads, Teardown(t)
    PROVE  Inv'
  <1> USE DEF Inv
  <1>0. PICK T, i, e, c : /\ T = call[t].table /\ i = call[t].fd /\ e = entries[T][i]
                          /\ c = IF e = NULL THEN [call[t] EXCEPT !.fd = i + 1]
                                 ELSE Unref([call[t] EXCEPT !.fd = i + 1], e, "teardown")
    BY Zenon
  <1>1. /\ call[t].pc = "teardown" /\ i < capacity[T] /\ call' = [call EXCEPT ![t] = c]
        /\ UNCHANGED <<entries, capacity, tablerefs, refcount, open, tab>>
    BY <1>0, Zenon DEF Teardown, At, Set
  <1>2. TypeOK /\ call[t] \in Calls /\ call \in [Threads -> Calls] /\ Shape(t) /\ T # NULL
    <2>1. TypeOK /\ call[t] \in Calls /\ call \in [Threads -> Calls] /\ Shape(t)
      BY Zenon DEF SlotsInBounds, TypeOK, CallShape
    <2>2. QED
      BY <1>0, <1>1, <2>1, Zenon DEF Shape, Frame
  <1>3. /\ T \in Tables /\ T \in Allocated /\ \A v \in Threads : call[v].table = T => v = t
    BY <1>0, <1>2, OneKiller, Zenon
  <1>4. /\ i \in Fds /\ i + 1 \in 0 .. FD_TABLE_MAX /\ i \in Int /\ capacity[T] \in Int
        /\ i + 1 <= capacity[T] /\ e \in Entries \cup {NULL}
    <2>1. i \in Nat /\ capacity[T] \in Int /\ capacity[T] <= FD_TABLE_MAX
      <3>1. i \in 0 .. FD_TABLE_MAX /\ capacity[T] \in FD_TABLE_INITIAL .. FD_TABLE_MAX
        BY <1>0, <1>2, <1>3, Zenon DEF TypeOK, Calls
      <3>2. QED
        BY <3>1, CapacityAssumption
    <2>2. i \in Fds
      BY <1>1, <2>1, CapacityAssumption, SMTT(30) DEF Fds
    <2>3. QED
      BY <1>0, <1>1, <1>2, <1>3, <2>1, <2>2, CapacityAssumption, SMTT(30) DEF TypeOK
  <1>5. /\ c \in Calls /\ c.held = call[t].held /\ c.fd = i + 1 /\ c.table = T
        /\ e = NULL => c.pc = "teardown" /\ c.arg = call[t].arg
        /\ e # NULL => c.pc = "unref" /\ c.arg = e /\ c.back = "teardown"
    BY <1>0, <1>1, <1>2, <1>4, ZenonT(30) DEF Unref, Calls, Labels
  <1>6. TypeOK' /\ SlotsInBounds'
    <2>1. TypeOK'
      BY <1>1, <1>2, <1>5, Zenon DEF TypeOK
    <2>2. QED
      BY <1>1, <2>1, Zenon DEF SlotsInBounds
  <1>7. CallShape'
    <2>1. Shape(t)'
      <3>1. call'[t] = c /\ tab' = tab /\ capacity' = capacity /\ tab[t] = NULL
        BY <1>0, <1>1, <1>2, Zenon DEF Shape
      <3>2. call[t].held = NULL /\ call[t].arg = NULL
        BY <1>1, <1>2, <3>1, Zenon DEF Shape
      <3>3. QED
        BY <1>2, <1>4, <1>5, <3>1, <3>2, Zenon DEF Shape, Frame
    <2>2. QED
      BY <1>1, <1>2, <2>1, QuietCalls, Zenon
  <1>8. \A u \in Threads : call'[u].table = call[u].table
    BY <1>0, <1>1, <1>2, <1>5, Zenon
  <1>9. TableLifetime'
    BY <1>1, <1>8, QuietTables, Zenon
  <1>10. Slots' = Slots \ {<<T, i>>}
    <2>1. Allocated' = Allocated
      BY <1>1, <1>8, Zenon DEF Allocated
    <2>2. ASSUME NEW U \in Tables, NEW j \in Fds
          PROVE  <<U, j>> \in Slots' <=> <<U, j>> \in Slots /\ <<U, j>> # <<T, i>>
      <3>1. j \in Int
        BY DEF Fds
      <3>2. CASE U = T
        <4>1. \A v \in Threads : call'[v].table = T => call'[v].fd = i + 1
          BY <1>1, <1>2, <1>3, <1>5, <1>8, Zenon
        <4>2. \A v \in Threads : call[v].table = T => call[v].fd = i
          BY <1>0, <1>3, Zenon
        <4>3. call'[t].table = T /\ call[t].table = T
          BY <1>0, <1>8, Zenon
        <4>4. QED
          BY <1>1, <1>4, <2>1, <3>1, <3>2, <4>1, <4>2, <4>3, SMTT(30) DEF Slots
      <3>3. CASE U # T
        <4>1. \A v \in Threads : call[v].table = U => call'[v] = call[v]
          BY <1>0, <1>1, <1>2, <3>3, Zenon
        <4>2. QED
          BY <1>1, <1>8, <2>1, <3>3, <4>1, ZenonT(30) DEF Slots
      <3>4. QED
        BY <3>2, <3>3, Zenon
    <2>3. Slots \subseteq Tables \X Fds /\ Slots' \subseteq Tables \X Fds
      BY SMTT(30) DEF Slots
    <2>4. QED
      BY <2>2, <2>3
  <1>11. CASE e = NULL
    <2>1. Slots' = Slots
      <3>1. <<T, i>> \notin Slots
        BY <1>0, <1>11, Zenon DEF Slots
      <3>2. QED
        BY <1>10, <3>1, Zenon
    <2>2. \A v \in Threads : /\ call'[v].held = call[v].held /\ call'[v].arg = call[v].arg
                             /\ call'[v].pc = call[v].pc
      BY <1>1, <1>2, <1>5, <1>11, Zenon
    <2>3. \A x \in Entries : Balanced(x)'
      BY <1>1, <2>1, <2>2, SameAccounts, Zenon
    <2>4. QED
      BY <1>6, <1>7, <1>9, <2>3, Zenon
  <1>12. CASE e # NULL
    <2>1. ASSUME NEW x \in Entries
          PROVE  Balanced(x)'
      <3>1. Freers(x)' = Freers(x) /\ HeldRefs(x)' = HeldRefs(x)
        BY <1>1, <1>2, <1>5, <1>12, Zenon DEF Freers, HeldRefs
      <3>2. SlotRefs(x)' = SlotRefs(x) \ {<<T, i>>}
        BY <1>1, <1>10, ZenonT(30) DEF SlotRefs
      <3>3. CASE x = e
        <4>1. <<T, i>> \in SlotRefs(x)
          <5>1. \A v \in Threads : call[v].table = T => i >= call[v].fd
            BY <1>0, <1>3, <1>4, SMTT(30)
          <5>2. QED
            BY <1>0, <1>1, <1>3, <1>4, <1>12, <3>3, <5>1, ZenonT(30) DEF SlotRefs, Slots
        <4>2. ArgRefs(x)' = ArgRefs(x) \cup {t} /\ t \notin ArgRefs(x)
          BY <1>1, <1>2, <1>5, <1>12, <3>3, Zenon DEF ArgRefs
        <4>3. IsFiniteSet(SlotRefs(x)) /\ IsFiniteSet(ArgRefs(x))
          BY FiniteRefs, Zenon
        <4>4. Cardinality(SlotRefs(x)') = Cardinality(SlotRefs(x)) - 1
          BY <3>2, <4>1, <4>3, FS_RemoveElement, Zenon
        <4>5. Cardinality(ArgRefs(x)') = Cardinality(ArgRefs(x)) + 1
          BY <4>2, <4>3, FS_AddElement, Zenon
        <4>6. x \in open
          BY <4>1, Zenon DEF Balanced
        <4>7. QED
          BY <1>1, <3>1, <4>4, <4>5, <4>6, FiniteRefs, SMTT(30) DEF Balanced
      <3>4. CASE x # e
        <4>1. <<T, i>> \notin SlotRefs(x) /\ ArgRefs(x)' = ArgRefs(x)
          BY <1>0, <1>1, <1>2, <1>5, <1>12, <3>4, ZenonT(30) DEF SlotRefs, ArgRefs
        <4>2. QED
          BY <1>1, <3>1, <3>2, <4>1, Untouched, Zenon
      <3>5. QED
        BY <3>3, <3>4
    <2>2. QED
      BY <1>6, <1>7, <1>9, <2>1, Zenon
  <1>13. QED
    BY <1>11, <1>12, Zenon

\* The end of fdtable_unref: no slot of the table counts any more.
LEMMA FreeTableStep ==
    ASSUME Inv, NEW t \in Threads, FreeTable(t)
    PROVE  Inv'
  <1> USE DEF Inv
  <1>0. PICK T : T = call[t].table
    BY Zenon
  <1>1. /\ call[t].pc = "teardown" /\ call[t].fd = capacity[T]
        /\ call' = [call EXCEPT ![t] = Idle]
        /\ UNCHANGED <<entries, capacity, tablerefs, refcount, open, tab>>
    BY <1>0, Zenon DEF FreeTable, At, Set
  <1>2. /\ TypeOK /\ call[t] \in Calls /\ call \in [Threads -> Calls] /\ Shape(t) /\ T # NULL
        /\ Idle \in Calls
    <2>1. TypeOK /\ call[t] \in Calls /\ call \in [Threads -> Calls] /\ Shape(t)
      BY Zenon DEF SlotsInBounds, TypeOK, CallShape
    <2>2. Idle \in Calls
      BY CapacityAssumption, SMTT(30) DEF Idle, Calls, Labels
    <2>3. QED
      BY <1>0, <1>1, <2>1, <2>2, Zenon DEF Shape, Frame
  <1>3. /\ T \in Tables /\ Killers(T) = {t} /\ tablerefs[T] = 0
        /\ \A v \in Threads : call[v].table = T => v = t
    BY <1>0, <1>2, OneKiller, Zenon
  <1>4. call[t].held = NULL /\ call[t].arg = NULL /\ tab[t] = NULL
    BY <1>0, <1>1, <1>2, Zenon DEF Shape
  <1>5. TypeOK' /\ SlotsInBounds'
    <2>1. TypeOK'
      BY <1>1, <1>2, Zenon DEF TypeOK
    <2>2. QED
      BY <1>1, <2>1, Zenon DEF SlotsInBounds
  <1>6. CallShape'
    <2>1. Shape(t)'
      BY <1>1, <1>2, <1>4, Zenon DEF Shape, Frame, Idle
    <2>2. QED
      BY <1>1, <1>2, <2>1, QuietCalls, Zenon
  <1>7. \A v \in Threads, U \in Tables : call'[v].table = U <=> call[v].table = U /\ v # t
    BY <1>0, <1>1, <1>2, NullAssumption, Zenon DEF Idle
  <1>8. TableLifetime'
    <2>1. ASSUME NEW U \in Tables
          PROVE  /\ tablerefs'[U] = Cardinality(Users(U)')
                 /\ Killers(U)' # {} => tablerefs'[U] = 0 /\ Cardinality(Killers(U)') = 1
      <3>1. Users(U)' = Users(U)
        BY <1>1, Zenon DEF Users
      <3>2. Killers(U)' = IF U = T THEN {} ELSE Killers(U)
        BY <1>0, <1>3, <1>7, ZenonT(30) DEF Killers
      <3>3. QED
        BY <1>1, <3>1, <3>2, Zenon DEF TableLifetime
    <2>2. QED
      BY <2>1, SMTT(30) DEF TableLifetime
  <1>9. Slots' = Slots
    <2>1. ASSUME NEW U \in Tables, NEW i \in Fds
          PROVE  <<U, i>> \in Slots' <=> <<U, i>> \in Slots
      <3>1. CASE U = T
        <4>1. U \notin Allocated'
          BY <1>1, <1>3, <1>7, <3>1, SMTT(30) DEF Allocated
        <4>2. <<U, i>> \notin Slots
          <5>1. capacity[T] \in Int /\ i \in Int
            BY <1>2, <1>3, CapacityAssumption, SMTT(30) DEF TypeOK, Fds
          <5>2. QED
            BY <1>0, <1>1, <3>1, <5>1, SMTT(30) DEF Slots
        <4>3. QED
          BY <4>1, <4>2, Zenon DEF Slots
      <3>2. CASE U # T
        <4>1. \A v \in Threads : call[v].table = U => call'[v] = call[v]
          BY <1>0, <1>1, <1>2, <3>2, Zenon
        <4>2. \A v \in Threads : call'[v].table = U <=> call[v].table = U
          BY <1>0, <1>7, <3>2, Zenon
        <4>3. U \in Allocated' <=> U \in Allocated
          BY <1>1, <4>2, Zenon DEF Allocated
        <4>4. QED
          BY <1>1, <4>1, <4>2, <4>3, ZenonT(30) DEF Slots
      <3>3. QED
        BY <3>1, <3>2, Zenon
    <2>2. Slots \subseteq Tables \X Fds /\ Slots' \subseteq Tables \X Fds
      BY DEF Slots
    <2>3. QED
      BY <2>1, <2>2
  <1>10. \A x \in Entries : Balanced(x)'
    <2>1. \A v \in Threads : /\ call'[v].held = call[v].held
                             /\ call'[v].arg = call[v].arg
                             /\ call'[v].pc \in {"unref", "free"} \/ call[v].pc \in {"unref", "free"}
                                  => call'[v].pc = call[v].pc
      BY <1>1, <1>2, <1>4, Zenon DEF Idle
    <2>2. QED
      BY <1>1, <1>9, <2>1, SameAccounts, Zenon
  <1>11. QED
    BY <1>5, <1>6, <1>8, <1>10

-----------------------------------------------------------------------------
\* At the start there is no table and no entry.
LEMMA InvInit == Init => Inv
  <1> SUFFICES ASSUME Init
               PROVE  Inv
    BY Zenon
  <1>0. Cardinality({}) = 0
    BY FS_EmptySet, Zenon
  <1>1. TypeOK
    <2>1. Idle \in Calls
      BY CapacityAssumption DEF Idle, Calls, Labels
    <2>2. QED
      BY <2>1, CapacityAssumption DEF Init, TypeOK
  <1>2. SlotsInBounds
    BY <1>1, Zenon DEF Init, SlotsInBounds
  <1>3. CallShape
    BY Zenon DEF Init, CallShape, Shape, Frame, Idle
  <1>4. TableLifetime
    <2>1. ASSUME NEW T \in Tables
          PROVE  Users(T) = {} /\ Killers(T) = {} /\ tablerefs[T] = 0
      BY NullAssumption, Zenon DEF Init, Users, Killers, Idle
    <2>2. QED
      BY <1>0, <2>1, Zenon DEF TableLifetime
  <1>5. ASSUME NEW e \in Entries
        PROVE  Balanced(e)
    <2>1. /\ e \notin open /\ SlotRefs(e) = {} /\ HeldRefs(e) = {} /\ ArgRefs(e) = {}
          /\ Freers(e) = {}
      BY NullAssumption, Zenon DEF Init, SlotRefs, Slots, HeldRefs, ArgRefs, Freers, Idle
    <2>2. QED
      BY <2>1, Zenon DEF Balanced
  <1>6. QED
    BY <1>2, <1>3, <1>4, <1>5, Zenon DEF Inv

\* One of the two calls that a thread makes with the entry it holds.
LEMMA InstallStep ==
    ASSUME Inv, NEW t \in Threads, Install(t) \/ \E fd \in Fds : InstallAt(t, fd)
    PROVE  Inv'
  <1>1. PICK T, e : T = tab[t] /\ e = call[t].held
    BY Zenon
  <1>2. /\ call[t].pc = "run" /\ T # NULL /\ e # NULL
        /\ fdtable_install(T, e) \/ \E fd \in Fds : fdtable_install_at(T, fd, e)
        /\ UNCHANGED <<tablerefs, open, tab, call>>
    BY <1>1, Zenon DEF Install, InstallAt, Holding, Ready, At
  <1>3. T \in Tables /\ e \in Entries /\ call[t] \in Calls /\ call \in [Threads -> Calls]
    BY <1>1, <1>2, Zenon DEF Inv, SlotsInBounds, TypeOK, Calls
  <1>4. PICK fd, n : Placed(T, fd, n, e)
    BY <1>2, <1>3, InstallPlace, InstallAtPlace, Zenon
  <1>5. Placed(tab[t], fd, n, call[t].held)
    BY <1>1, <1>4, Zenon
  <1>6. call' = [call EXCEPT ![t] = call[t]]
    BY <1>2, <1>3, Zenon
  <1>7. QED
    BY <1>1, <1>2, <1>3, <1>5, <1>6, PlaceStep, Zenon

\* The installing step of fdtable_dup and of fdtable_dup2.
LEMMA DupInstallStep ==
    ASSUME Inv, NEW t \in Threads, DupInstall(t) \/ Dup2InstallAt(t)
    PROVE  Inv'
  <1>1. PICK T, e, c : T = tab[t] /\ e = call[t].held /\ c = [call[t] EXCEPT !.pc = "dup_done"]
    BY Zenon
  <1>2. call[t].pc \in {"dup", "dup2_at"} /\ call' = [call EXCEPT ![t] = c]
    BY <1>1, Zenon DEF DupInstall, Dup2InstallAt, At, Set
  <1>3. call[t] \in Calls /\ Shape(t) /\ tab \in [Threads -> Tables \cup {NULL}]
    BY Zenon DEF Inv, SlotsInBounds, TypeOK, CallShape
  <1>4. T \in Tables /\ e \in Entries /\ T # NULL /\ e # NULL /\ call[t].fd \in Fds
    BY <1>1, <1>2, <1>3, Zenon DEF Shape, Frame, Calls
  <1>5. /\ c \in Calls /\ c.pc = "dup_done" /\ c.held = call[t].held /\ c.arg = call[t].arg
        /\ c.fd = call[t].fd /\ c.table = call[t].table
    BY <1>1, <1>3, Zenon DEF Calls, Labels
  <1>6. /\ \/ fdtable_install(T, e) \/ \E fd \in Fds : fdtable_install_at(T, fd, e)
           \/ UNCHANGED <<entries, capacity, refcount>>
        /\ UNCHANGED <<tablerefs, open, tab>>
    BY <1>1, <1>4, Zenon DEF DupInstall, Dup2InstallAt, NotInstalled
  <1>7. CASE UNCHANGED <<entries, capacity, refcount>>
    BY <1>2, <1>5, <1>6, <1>7, LabelStep, Zenon
  <1>8. CASE fdtable_install(T, e) \/ \E fd \in Fds : fdtable_install_at(T, fd, e)
    <2>1. PICK fd, n : Placed(T, fd, n, e)
      BY <1>4, <1>8, InstallPlace, InstallAtPlace, Zenon
    <2>2. Placed(tab[t], fd, n, call[t].held)
      BY <1>1, <2>1, Zenon
    <2>3. QED
      BY <1>1, <1>2, <1>4, <1>5, <1>6, <2>2, PlaceStep, ZenonT(30)
  <1>9. QED
    BY <1>6, <1>7, <1>8, Zenon

\* Giving up the reference a thread holds: Release, and the end of dup and dup2.
LEMMA GiveUpStep ==
    ASSUME Inv, NEW t \in Threads, Release(t) \/ DupDone(t)
    PROVE  Inv'
  <1>1. call[t] \in Calls /\ Shape(t)
    BY Zenon DEF Inv, SlotsInBounds, TypeOK, CallShape
  <1>2. /\ call[t].held # NULL /\ call[t].pc \in {"run", "dup_done"}
        /\ call[t].pc = "run" => call[t].fd = 0
        /\ call[t].table = NULL
        /\ UNCHANGED <<entries, capacity, tablerefs, refcount, open, tab>>
    BY <1>1, Zenon DEF Release, DupDone, Holding, Ready, At, Shape, Frame
  <1>3. CASE Release(t)
    <2>1. PICK c : c = Unref([call[t] EXCEPT !.held = NULL], call[t].held, "run")
      BY Zenon
    <2>2. call' = [call EXCEPT ![t] = c] /\ call[t].pc = "run"
      BY <1>3, <2>1, Zenon DEF Release, Holding, Ready, At, Set
    <2>3. /\ c \in Calls /\ c.pc = "unref" /\ c.back = "run" /\ c.arg = call[t].held
          /\ c.held = NULL /\ c.fd = call[t].fd /\ c.table = call[t].table
      BY <1>1, <2>1, Zenon DEF Unref, Calls, Labels
    <2>4. QED
      BY <1>2, <2>2, <2>3, DropStep, Zenon
  <1>4. CASE DupDone(t)
    <2>1. PICK c : c = Unref([call[t] EXCEPT !.held = NULL, !.fd = 0], call[t].held, "run")
      BY Zenon
    <2>2. call' = [call EXCEPT ![t] = c]
      BY <1>4, <2>1, Zenon DEF DupDone, Set
    <2>3. /\ c \in Calls /\ c.pc = "unref" /\ c.back = "run" /\ c.arg = call[t].held
          /\ c.held = NULL /\ c.fd = 0 /\ c.table = call[t].table
      <3>1. PICK d : d = [call[t] EXCEPT !.held = NULL, !.fd = 0]
        BY Zenon
      <3>2. d \in Calls /\ d.held = NULL /\ d.fd = 0 /\ d.table = call[t].table
        <4>1. 0 \in 0 .. FD_TABLE_MAX
          BY CapacityAssumption
        <4>2. QED
          BY <1>1, <3>1, <4>1, Zenon DEF Calls
      <3>3. c = [d EXCEPT !.pc = "unref", !.arg = call[t].held, !.back = "run"]
        BY <2>1, <3>1, Zenon DEF Unref
      <3>4. call[t].held \in Entries \cup {NULL}
        BY <1>1, Zenon DEF Calls
      <3>5. QED
        BY <3>2, <3>3, <3>4, Zenon DEF Calls, Labels
    <2>4. QED
      BY <1>2, <2>2, <2>3, DropStep, Zenon
  <1>5. QED
    BY <1>3, <1>4, Zenon

\* Closing a descriptor: fdtable_close, and the first half of fdtable_dup2.
LEMMA CloseFdStep ==
    ASSUME Inv, NEW t \in Threads, Dup2Close(t) \/ \E fd \in Fds : fdtable_close(t, fd)
    PROVE  Inv'
  <1>1. call[t] \in Calls /\ Shape(t) /\ entries \in [Tables -> [Fds -> Entries \cup {NULL}]]
        /\ tab \in [Threads -> Tables \cup {NULL}]
    BY Zenon DEF Inv, SlotsInBounds, TypeOK, CallShape
  <1>2. ASSUME NEW fd \in Fds, fdtable_close(t, fd)
        PROVE  Inv'
    <2>1. PICK c : c = Unref(call[t], entries[tab[t]][fd], "run")
      BY Zenon
    <2>2. /\ tab[t] # NULL /\ InUse(tab[t], fd) /\ call[t].pc = "run"
          /\ entries' = [entries EXCEPT ![tab[t]][fd] = NULL]
          /\ call' = [call EXCEPT ![t] = c]
          /\ UNCHANGED <<capacity, tablerefs, refcount, open, tab>>
      BY <1>2, <2>1, Zenon DEF fdtable_close, Ready, At, Set
    <2>3. entries[tab[t]][fd] \in Entries
      BY <1>1, <2>2, Zenon DEF InUse
    <2>4. /\ c \in Calls /\ c.pc = "unref" /\ c.arg = entries[tab[t]][fd] /\ c.back = "run"
          /\ c.held = call[t].held /\ c.fd = call[t].fd /\ c.table = call[t].table
      BY <1>1, <2>1, <2>3, Zenon DEF Unref, Calls, Labels
    <2>5. QED
      BY <2>2, <2>4, CloseStep, Zenon
  <1>3. ASSUME Dup2Close(t)
        PROVE  Inv'
    <2>1. PICK fd : fd = call[t].fd
      BY Zenon
    <2>2. /\ call[t].pc = "dup2_close" /\ fd \in Fds /\ tab[t] # NULL
          /\ UNCHANGED <<capacity, tablerefs, refcount, open, tab>>
      BY <1>1, <1>3, <2>1, Zenon DEF Dup2Close, At, Shape, Frame
    <2>3. CASE InUse(tab[t], fd)
      <3>1. PICK c : c = Unref(call[t], entries[tab[t]][fd], "dup2_at")
        BY Zenon
      <3>2. /\ entries' = [entries EXCEPT ![tab[t]][fd] = NULL]
            /\ call' = [call EXCEPT ![t] = c]
        BY <1>3, <2>1, <2>3, <3>1, Zenon DEF Dup2Close, Set
      <3>3. entries[tab[t]][fd] \in Entries
        BY <1>1, <2>2, <2>3, Zenon DEF InUse
      <3>4. /\ c \in Calls /\ c.pc = "unref" /\ c.arg = entries[tab[t]][fd]
            /\ c.back = "dup2_at"
            /\ c.held = call[t].held /\ c.fd = call[t].fd /\ c.table = call[t].table
        BY <1>1, <3>1, <3>3, Zenon DEF Unref, Calls, Labels
      <3>5. QED
        BY <2>2, <2>3, <3>2, <3>4, CloseStep, Zenon
    <2>4. CASE ~InUse(tab[t], fd)
      <3>1. PICK c : c = [call[t] EXCEPT !.pc = "dup2_at"]
        BY Zenon
      <3>2. call' = [call EXCEPT ![t] = c] /\ entries' = entries
        BY <1>3, <2>1, <2>4, <3>1, Zenon DEF Dup2Close, Set
      <3>3. /\ c \in Calls /\ c.pc = "dup2_at" /\ c.arg = call[t].arg
            /\ c.held = call[t].held /\ c.fd = call[t].fd /\ c.table = call[t].table
        BY <1>1, <3>1, Zenon DEF Calls, Labels
      <3>4. QED
        BY <2>2, <3>2, <3>3, LabelStep, Zenon
    <2>5. QED
      BY <2>3, <2>4, Zenon
  <1>4. QED
    BY <1>2, <1>3, Zenon

\* fdtable_get, and the start of dup and dup2.
LEMMA GetsStep ==
    ASSUME Inv, NEW t \in Threads, NEW fd \in Fds, NEW newfd \in Fds,
           fdtable_get(t, fd) \/ fdtable_dup(t, fd) \/ fdtable_dup2(t, fd, newfd)
    PROVE  Inv'
  <1> DEFINE c2 == [call[t] EXCEPT !.pc = IF fd = newfd THEN "dup_done" ELSE "dup2_close",
                                   !.fd = newfd]
  <1>1. /\ call[t] \in Calls /\ call[t].pc = "run" /\ call[t].arg = NULL
        /\ call[t].table = NULL /\ call[t].fd = 0
    <2>1. call[t] \in Calls /\ Shape(t)
      BY Zenon DEF Inv, SlotsInBounds, TypeOK, CallShape
    <2>2. call[t].pc = "run"
      BY Zenon DEF fdtable_get, fdtable_dup, fdtable_dup2, Get, Free, Ready, At
    <2>3. QED
      BY <2>1, <2>2, Zenon DEF Shape, Frame
  <1>2. 0 \in Fds /\ newfd \in 0 .. FD_TABLE_MAX
    BY CapacityAssumption DEF Fds
  <1>3. CASE fdtable_get(t, fd)
    BY <1>1, <1>2, <1>3, GetStep, Zenon DEF fdtable_get
  <1>4. CASE fdtable_dup(t, fd)
    <2>1. PICK c : c = [call[t] EXCEPT !.pc = "dup"]
      BY Zenon
    <2>2. /\ c \in Calls /\ c.pc = "dup" /\ c.arg = NULL /\ c.table = NULL /\ c.fd = 0
      BY <1>1, <2>1, Zenon DEF Calls, Labels
    <2>3. Get(t, fd, c)
      BY <1>4, <2>1, Zenon DEF fdtable_dup
    <2>4. QED
      BY <1>2, <2>2, <2>3, GetStep, Zenon
  <1>5. CASE fdtable_dup2(t, fd, newfd)
    <2>1. PICK c : c = c2
      BY Zenon
    <2>2. /\ c \in Calls /\ c.pc \in {"dup_done", "dup2_close"} /\ c.arg = NULL
          /\ c.table = NULL /\ c.fd = newfd
      BY <1>1, <1>2, <2>1, ZenonT(30) DEF Calls, Labels
    <2>3. Get(t, fd, c)
      BY <1>5, <2>1, Zenon DEF fdtable_dup2
    <2>4. QED
      BY <2>2, <2>3, GetStep, Zenon
  <1>6. QED
    BY <1>3, <1>4, <1>5, Zenon

\* Every step of every call keeps the invariant.
LEMMA InvNext == Inv /\ [Next]_vars => Inv'
  <1> SUFFICES ASSUME Inv, [Next]_vars
               PROVE  Inv'
    BY Zenon
  <1>1. CASE UNCHANGED vars
    <2>1. /\ Slots' = Slots /\ SlotsInBounds' /\ CallShape' /\ TableLifetime'
      <3>1. Allocated' = Allocated
        BY <1>1, Zenon DEF vars, Allocated
      <3>2. Slots' = Slots
        BY <1>1, <3>1, Zenon DEF vars, Slots
      <3>3. TypeOK' /\ SlotsInBounds'
        BY <1>1, Zenon DEF vars, Inv, SlotsInBounds, TypeOK
      <3>4. CallShape'
        BY <1>1, Zenon DEF vars, Inv, CallShape, Shape
      <3>5. TableLifetime'
        BY <1>1, QuietTables, Zenon DEF vars, Inv
      <3>6. QED
        BY <3>2, <3>3, <3>4, <3>5, Zenon
    <2>2. QED
      BY <1>1, <2>1, SameAccounts, Zenon DEF vars, Inv
  <1>2. ASSUME NEW t \in Threads, NEW e \in Entries, fd_open(t, e)
        PROVE  Inv'
    BY <1>2, OpenStep, Zenon
  <1>3. ASSUME NEW t \in Threads,
               \/ Install(t) \/ Release(t) \/ fd_entry_unref(t) \/ FreeEntry(t)
               \/ DupInstall(t) \/ Dup2Close(t) \/ Dup2InstallAt(t) \/ DupDone(t)
               \/ fdtable_unref(t) \/ Teardown(t) \/ FreeTable(t)
        PROVE  Inv'
    BY <1>3, InstallStep, GiveUpStep, UnrefStep, FreeEntryStep, DupInstallStep, CloseFdStep,
       TableUnrefStep, TeardownStep, FreeTableStep, Zenon
  <1>4. ASSUME NEW t \in Threads, NEW fd \in Fds,
               \/ fdtable_get(t, fd) \/ InstallAt(t, fd) \/ fdtable_close(t, fd)
               \/ fdtable_dup(t, fd) \/ \E newfd \in Fds : fdtable_dup2(t, fd, newfd)
        PROVE  Inv'
    BY <1>4, GetsStep, InstallStep, CloseFdStep, Zenon
  <1>5. ASSUME NEW t \in Threads, NEW T \in Tables, fdtable_create(t, T)
        PROVE  Inv'
    BY <1>5, CreateStep
  <1>6. ASSUME NEW t \in Threads, NEW u \in Threads,
               fdtable_ref(t, u) \/ \E T \in Tables : fdtable_clone(t, u, T)
        PROVE  Inv'
    BY <1>6, RefStep, CloneStep, Zenon
  <1>7. QED
    BY <1>1, <1>2, <1>3, <1>4, <1>5, <1>6, Zenon DEF Next

\* Whatever calls the threads of the processes that share or copy a table
\* make, in whatever order, the invariant above holds.
THEOREM FdTableInvariant == Spec => []Inv
  BY InvInit, InvNext, PTL DEF Spec

\* fdtable_grow never leaves a used slot outside its array, no count goes
\* below zero and no array grows beyond FD_TABLE_MAX.
THEOREM SlotsStayInBounds == Spec => []SlotsInBounds
  <1>1. Inv => SlotsInBounds
    BY Zenon DEF Inv
  <1>2. QED
    BY <1>1, FdTableInvariant, PTL

\* A table is torn down by one thread, after its last user let go of it.
THEOREM TablesDieOnce == Spec => []TableLifetime
  <1>1. Inv => TableLifetime
    BY Zenon DEF Inv
  <1>2. QED
    BY <1>1, FdTableInvariant, PTL

\* An entry's reference count is the number of slots and callers that refer to
\* it, across dup, dup2, close, clone and teardown.
THEOREM EntryCountsAreExact == Spec => []EntryRefcountExact
  <1>1. Inv => EntryRefcountExact
    BY InvImplies, Zenon
  <1>2. QED
    BY <1>1, FdTableInvariant, PTL

\* fd_entry_unref frees an entry once, when nobody refers to it.
THEOREM EntriesDieOnce == Spec => []EntryLifetime
  <1>1. Inv => EntryLifetime
    BY InvImplies, Zenon
  <1>2. QED
    BY <1>1, FdTableInvariant, PTL
=============================================================================
