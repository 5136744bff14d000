----------------------------- MODULE IrqProofs -----------------------------
(***************************************************************************)
(* Proofs about Irq for every range of vectors, all lines, overrides,      *)
(* devices and drivers: the inductive invariant, the steps of the calls    *)
(* that take and give back a vector, those of the boot and of the driver   *)
(* model, and the theorems that follow.                                    *)
(***************************************************************************)
EXTENDS Irq, ListLemmas, TLAPS

-----------------------------------------------------------------------------
TypeOK ==
    /\ vector_used \in SUBSET Vectors
    /\ irq_descs \in [Vectors -> Descs \cup {NULL}]
    /\ isr \in [Vectors \cup {CAL_VECTOR} -> {NULL, "irq", "pit"}]
    /\ redir \in [Gsis -> [vector : Vectors \cup {CAL_VECTOR}, masked : BOOLEAN]]
    /\ entry \in [AcpiIrqs -> [handler : BOOLEAN, irq_vector : Vectors \cup {0}]]
    /\ device \in [Devices -> [driver : Drivers \cup {NULL}, irq : Vectors \cup {0}]]
    /\ device_list \in Seq(Devices) /\ driver_list \in Seq(Drivers)
    /\ denied \in SUBSET Devices

\* Where a call is.  It works for a user who, on a vector v (0 if there is none
\* yet), and has devices b to ask when that is done.
Asking == {"request", "deny"}
Taking == {"register", "enable", "grant"}
Freeing == {"disable", "release", "unregister", "forget", "uninstall"}
Booting == {"calibrate", "route", "await", "uncalibrate", "mask"}
Phases == {"bind"} \cup Asking \cup Taking \cup Freeing \cup Booting

\* One step, then others.
Then(op, s) == <<op>> \o s
Ask(op, who) == [do |-> op, who |-> who]
GrantOp(v, who) == [do |-> "grant", arg |-> v, who |-> who]
Forgets(v, who) == Then(Step("forget", v), Then(Step("uninstall", who.id), << >>))
Unregisters(v, who) == Then(Step("unregister", v), Forgets(v, who))
Releases(v, who) == Then(Step("release", v), Unregisters(v, who))

\* The steps that are left in each phase.
Steps(ph, who, v, b) ==
    CASE ph = "bind" -> b
      [] ph = "request" -> Then(Ask("request", who), b)
      [] ph = "deny" -> Then(Ask("deny", who), b)
      [] ph = "register" -> Then(Step("register", v), Then(Step("enable", v), Then(GrantOp(v, who), b)))
      [] ph = "enable" -> Then(Step("enable", v), Then(GrantOp(v, who), b))
      [] ph = "grant" -> Then(GrantOp(v, who), b)
      [] ph = "disable" -> Then(Step("disable", v), Releases(v, who))
      [] ph = "release" -> Releases(v, who)
      [] ph = "unregister" -> Unregisters(v, who)
      [] ph = "forget" -> Forgets(v, who)
      [] ph = "uninstall" -> Then(Step("uninstall", who.id), << >>)
      [] ph = "calibrate" -> Then(Step("calibrate", NULL), << >>)
      [] ph = "route" -> Then(Step("route", 0), << >>)
      [] ph = "await" -> Then(Step("await", NULL), << >>)
      [] ph = "uncalibrate" -> Then(Step("unregister", CAL_VECTOR), Then(Step("mask", 0), << >>))
      [] ph = "mask" -> Then(Step("mask", 0), << >>)

Binds == {Step("bind", d) : d \in Range(device_list)}

\* Who and what a call works for.
Progress(ph, who, v) ==
    /\ ph \in Phases
    /\ ph \in Asking \cup Taking => who \in Users
    /\ ph \in Freeing => \E h \in AcpiIrqs : who = Acpi(h) /\ entry[h] = [handler |-> TRUE, irq_vector |-> v]
    /\ ph \in {"bind"} \cup Booting => who = NULL
    /\ IF ph \in Taking \cup Freeing THEN v \in Vectors \ {TimerVector} ELSE v = 0

\* A descriptor is its user's.
DescOk(w) == irq_descs[w] # NULL =>
    IF w = TimerVector THEN irq_descs[w].domain = "lapic" /\ irq_descs[w].who = NULL
    ELSE /\ irq_descs[w].domain = "ioapic" /\ irq_descs[w].who \in Users
         /\ irq_descs[w].hwirq = LineOf(irq_descs[w].who)

\* The conjuncts of VectorsOwned for one vector.
Owned(w) ==
    /\ w \in vector_used <=> irq_descs[w] # NULL
    /\ Owners(w) = IF w \in vector_used THEN {irq_descs[w].who} ELSE {}
    /\ w \in vector_used <=> isr[w] = "irq"

\* The same for the vector that a call works on.
Handled(ph, who, v) ==
    /\ v \in vector_used <=> ph \in Taking \cup {"disable", "release"}
    /\ irq_descs[v] # NULL <=> ph # "uninstall"
    /\ irq_descs[v] # NULL => irq_descs[v].who = who
    /\ isr[v] = "irq" <=> ph \in {"enable", "grant", "disable", "release", "unregister"}
    /\ Owners(v) = IF ph \in Taking THEN {} ELSE {who}
    /\ ph \in Taking => irq_descs[v].enabled

\* An unmasked line finds its handler and its user, unless it is the one of the
\* PIT: for that line see Answered.
Ready(g) ==
    \/ redir[g].masked
    \/ redir[g].vector = CAL_VECTOR
    \/ /\ redir[g].vector \in Vectors \ {TimerVector}
       /\ isr[redir[g].vector] = "irq" /\ irq_descs[redir[g].vector] # NULL
       /\ Gsi(irq_descs[redir[g].vector].hwirq) = g

\* The phases in which no line leads to the vector yet, or any more.
Apart == {"register", "enable", "release", "unregister", "forget", "uninstall"}
Quiet(g) == redir[g].masked \/ redir[g].vector = CAL_VECTOR
Led(g, w) == redir[g] = [vector |-> w, masked |-> ~irq_descs[w].enabled]

\* What LinesServed says of one line, within a call on v too.
Served(ph, v, g) ==
    /\ \A w \in Live(g) : IF w = v /\ ph \in Apart THEN Quiet(g) ELSE Led(g, w)
    /\ \A w, x \in Live(g) : w = x
    /\ Live(g) = {} => Quiet(g)

\* Devices and ACPI: who has a vector and who waits for one.
Bound(d, todoBinds) ==
    LET fit == {drv \in Range(driver_list) : Matches(drv, d)}
    IN /\ device[d].driver # NULL => d \in Range(device_list) /\ device[d].driver \in fit
       /\ device[d].driver = NULL /\ d \in Range(device_list) /\ fit # {} => Step("bind", d) \in Range(todoBinds)
Entitled(d) == device[d].driver \in Handling /\ Line[d] # NULL /\ d \notin denied
Waits(ph, who, u) == ph \in Asking \cup Taking /\ who = u
DeviceOk(ph, who, d) ==
    /\ IF Waits(ph, who, Dev(d)) THEN device[d].irq = 0 /\ Entitled(d) ELSE device[d].irq # 0 <=> Entitled(d)
    /\ d \in denied => device[d].driver # NULL
EntryOk(ph, who, h) ==
    IF Waits(ph, who, Acpi(h)) THEN entry[h] = [handler |-> TRUE, irq_vector |-> 0]
    ELSE entry[h].handler <=> entry[h].irq_vector # 0

\* The calibration comes before all requests and opens the line of the PIT only.
\* That line has the handler of the calibration, but where it is to be masked.
Answered(g) == redir[g].masked \/ redir[g].vector # CAL_VECTOR \/ isr[CAL_VECTOR] = "pit"
BootOk(ph) ==
    /\ ph \in Booting => \A w \in Vectors \ {TimerVector} : irq_descs[w] = NULL
    /\ ph \in Booting => \A g \in Gsis : redir[g].masked \/ g = Gsi(0)
    /\ ph \in {"route", "await", "uncalibrate"} => isr[CAL_VECTOR] = "pit"
    /\ ph # "mask" => \A g \in Gsis : Answered(g)

\* What a call on v for who keeps of the vectors, lines and handlers.
IrqOk(ph, who, v) ==
    /\ \A w \in Vectors : DescOk(w)
    /\ \A w \in Vectors \ {v} : Owned(w)
    /\ v # 0 => Handled(ph, who, v)
    /\ v # 0 /\ ph \in Apart => \A g \in Gsis : redir[g].vector = v => redir[g].masked
    /\ \A g \in Gsis : Ready(g)
    /\ \A g \in Gsis \ shared : Served(ph, v, g)
    /\ BootOk(ph)

\* ... and of its users.
UsersOk(ph, who, b) ==
    /\ \A d \in Devices : DeviceOk(ph, who, d) /\ Bound(d, b)
    /\ \A h \in AcpiIrqs : EntryOk(ph, who, h)

\* The inductive invariant, in a given phase and in some phase.
At(ph, who, v, b) ==
    /\ Progress(ph, who, v) /\ b \in Seq(Binds) /\ todo = Steps(ph, who, v, b)
    /\ ph \in Freeing \cup Booting => b = << >>
    /\ IrqOk(ph, who, v)
    /\ UsersOk(ph, who, b)

Inv == /\ TypeOK
       /\ \E ph \in Phases, who \in Users \cup {NULL}, v \in Vectors \cup {0}, b \in Seq(Binds) :
             At(ph, who, v, b)

-----------------------------------------------------------------------------
\* Sequences of steps.
Listed(s) == \E X : s \in Seq(X)

LEMMA ThenList ==
    ASSUME NEW a, NEW s, Listed(s)
    PROVE  /\ Listed(Then(a, s)) /\ Then(a, s) # << >>
           /\ Head(Then(a, s)) = a /\ Tail(Then(a, s)) = s
  <1>1. PICK X : s \in Seq(X)
    BY Zenon DEF Listed
  <1>2. <<a>> \in Seq(X \cup {a}) /\ s \in Seq(X \cup {a})
    BY <1>1
  <1>3. <<a>> \o s \in Seq(X \cup {a}) /\ Len(<<a>> \o s) = 1 + Len(s)
    BY <1>2
  <1>4. Head(<<a>> \o s) = a /\ <<a>> \o s # << >>
    BY <1>2, <1>3
  <1>5. Tail(<<a>> \o s) = s
    BY <1>2, <1>3, SMTT(30)
  <1>6. QED
    BY <1>3, <1>4, <1>5, Zenon DEF Listed, Then

LEMMA EmptyList == /\ Listed(<< >>)
                   /\ \A s : Listed(s) => << >> \o s = s
  <1>1. Listed(<< >>)
    <2>1. << >> \in Seq({})
      OBVIOUS
    <2>2. QED
      BY <2>1, Zenon DEF Listed
  <1>2. ASSUME NEW s, Listed(s)
        PROVE  << >> \o s = s
    <2>1. PICK X : s \in Seq(X)
      BY <1>2, Zenon DEF Listed
    <2>2. QED
      BY <2>1
  <1>3. QED
    BY <1>1, <1>2, Zenon

LEMMA ThenElements ==
    ASSUME NEW X, NEW a \in X, NEW s \in Seq(X)
    PROVE  /\ Then(a, s) \in Seq(X) /\ Len(Then(a, s)) = Len(s) + 1 /\ Then(a, s)[1] = a
           /\ \A i \in 1 .. Len(s) : Then(a, s)[i + 1] = s[i]
  <1>1. <<a>> \in Seq(X) /\ Len(<<a>>) = 1 /\ <<a>>[1] = a
    OBVIOUS
  <1>2. QED
    BY <1>1, SMTT(30) DEF Then

\* What follows the first step of t is s.
Shifted(t, s) == \A i \in 1 .. Len(s) : t[i + 1] = s[i]

LEMMA ThenShifts ==
    ASSUME NEW X, NEW a \in X, NEW s \in Seq(X)
    PROVE  Shifted(Then(a, s), s)
  BY ThenElements, SMTT(30) DEF Shifted

\* The fields of a redirection entry.
LEMMA EntryFields ==
    \A w, b : [vector |-> w, masked |-> b].vector = w /\ [vector |-> w, masked |-> b].masked = b
  BY Zenon

LEMMA OpenEntry ==
    ASSUME NEW e, NEW w, e = [vector |-> w, masked |-> FALSE]
    PROVE  e.vector = w /\ e.masked = FALSE
  BY Zenon

\* A tuple is its first step, then the others.
LEMMA Tuple1 ==
    ASSUME NEW a
    PROVE  <<a>> = Then(a, << >>)
  BY DEF Then

LEMMA Tuple2 ==
    ASSUME NEW a, NEW b
    PROVE  <<a, b>> = Then(a, <<b>>)
  <1>1. PICK X, s, x : X = {a, b} /\ s = <<b>> /\ x = Then(a, s)
    BY Zenon
  <1>2. a \in X /\ s \in Seq(X) /\ <<a, b>> \in Seq(X) /\ Len(<<a, b>>) = 2
    BY <1>1
  <1>3. Len(s) = 1 /\ s[1] = b
    BY <1>1, Zenon
  <1>4. x \in Seq(X) /\ Len(x) = Len(s) + 1 /\ x[1] = a /\ \A i \in 1 .. Len(s) : x[i + 1] = s[i]
    <2>1. /\ Then(a, s) \in Seq(X) /\ Len(Then(a, s)) = Len(s) + 1 /\ Then(a, s)[1] = a
          /\ \A i \in 1 .. Len(s) : Then(a, s)[i + 1] = s[i]
      BY <1>2, ThenElements, SMTT(30)
    <2>2. x = Then(a, s)
      BY <1>1, Zenon
    <2>3. QED
      BY <2>1, <2>2, Zenon
  <1>5. x[2] = b
    BY <1>3, <1>4
  <1>6. \A i \in 1 .. 2 : <<a, b>>[i] = x[i]
    BY <1>4, <1>5, SMTT(30)
  <1>7. QED
    BY <1>1, <1>2, <1>3, <1>4, <1>6, SMTT(30)

LEMMA Tuple3 ==
    ASSUME NEW a, NEW b, NEW c
    PROVE  <<a, b, c>> = Then(a, <<b, c>>)
  <1>1. PICK X, s, x : X = {a, b, c} /\ s = <<b, c>> /\ x = Then(a, s)
    BY Zenon
  <1>2. a \in X /\ s \in Seq(X) /\ <<a, b, c>> \in Seq(X) /\ Len(<<a, b, c>>) = 3
    BY <1>1
  <1>3. Len(s) = 2 /\ s[1] = b /\ s[2] = c
    BY <1>1, Zenon
  <1>4. x \in Seq(X) /\ Len(x) = Len(s) + 1 /\ x[1] = a /\ \A i \in 1 .. Len(s) : x[i + 1] = s[i]
    <2>1. /\ Then(a, s) \in Seq(X) /\ Len(Then(a, s)) = Len(s) + 1 /\ Then(a, s)[1] = a
          /\ \A i \in 1 .. Len(s) : Then(a, s)[i + 1] = s[i]
      BY <1>2, ThenElements, SMTT(30)
    <2>2. x = Then(a, s)
      BY <1>1, Zenon
    <2>3. QED
      BY <2>1, <2>2, SMTT(30)
  <1>5. x[2] = b /\ x[3] = c
    BY <1>3, <1>4, SMTT(30)
  <1>6. \A i \in 1 .. 3 : <<a, b, c>>[i] = x[i]
    BY <1>4, <1>5, SMTT(30)
  <1>7. QED
    BY <1>1, <1>2, <1>3, <1>4, <1>6, SMTT(30)

LEMMA Tuple4 ==
    ASSUME NEW a, NEW b, NEW c, NEW d
    PROVE  <<a, b, c, d>> = Then(a, <<b, c, d>>)
  <1>1. PICK X, s, x : X = {a, b, c, d} /\ s = <<b, c, d>> /\ x = Then(a, s)
    BY Zenon
  <1>2. a \in X /\ s \in Seq(X) /\ <<a, b, c, d>> \in Seq(X) /\ Len(<<a, b, c, d>>) = 4
    BY <1>1
  <1>3. Len(s) = 3 /\ s[1] = b /\ s[2] = c /\ s[3] = d
    BY <1>1, Zenon
  <1>4. x \in Seq(X) /\ Len(x) = Len(s) + 1 /\ x[1] = a /\ \A i \in 1 .. Len(s) : x[i + 1] = s[i]
    <2>1. /\ Then(a, s) \in Seq(X) /\ Len(Then(a, s)) = Len(s) + 1 /\ Then(a, s)[1] = a
          /\ \A i \in 1 .. Len(s) : Then(a, s)[i + 1] = s[i]
      BY <1>2, ThenElements, SMTT(30)
    <2>2. x = Then(a, s)
      BY <1>1, Zenon
    <2>3. QED
      BY <2>1, <2>2
  <1>5. x[2] = b /\ x[3] = c /\ x[4] = d
    BY <1>3, <1>4, SMTT(30)
  <1>6. \A i \in 1 .. 4 : <<a, b, c, d>>[i] = x[i]
    BY <1>4, <1>5, SMTT(30)
  <1>7. QED
    BY <1>1, <1>2, <1>3, <1>4, <1>6, SMTT(30)

\* A step before the others of a list.
Cat(r, s) == r \o s

LEMMA ThenConcat ==
    ASSUME NEW a, NEW r, NEW s, Listed(r), Listed(s)
    PROVE  Cat(Then(a, r), s) = Then(a, Cat(r, s))
  <1>1. PICK X, Y : r \in Seq(X) /\ s \in Seq(Y)
    BY Zenon DEF Listed
  <1>2. PICK Z : Z = X \cup Y \cup {a}
    BY Zenon
  <1>3. r \in Seq(Z) /\ s \in Seq(Z) /\ <<a>> \in Seq(Z)
    BY <1>1, <1>2
  <1>4. QED
    BY <1>3, SMTT(30) DEF Then, Cat

LEMMA ThreeList ==
    ASSUME NEW a, NEW b, NEW c, NEW s, Listed(s)
    PROVE  <<a, b, c>> \o s = Then(a, Then(b, Then(c, s)))
  <1>1. PICK z : z = << >>
    BY Zenon
  <1>2. Listed(z) /\ Cat(z, s) = s
    BY <1>1, EmptyList, Zenon DEF Cat
  <1>3. Listed(Then(c, z)) /\ Cat(Then(c, z), s) = Then(c, s)
    BY <1>2, ThenList, ThenConcat, SMTT(30)
  <1>4. Listed(Then(b, Then(c, z))) /\ Cat(Then(b, Then(c, z)), s) = Then(b, Then(c, s))
    BY <1>3, ThenList, ThenConcat, SMTT(30)
  <1>5. Cat(Then(a, Then(b, Then(c, z))), s) = Then(a, Then(b, Then(c, s)))
    BY <1>4, ThenConcat
  <1>6. <<a, b, c>> = Then(a, <<b, c>>) /\ <<b, c>> = Then(b, <<c>>) /\ <<c>> = Then(c, z)
    BY <1>1, Tuple1, Tuple2, Tuple3, Zenon
  <1>7. QED
    BY <1>5, <1>6, Zenon DEF Cat

LEMMA FiveList ==
    ASSUME NEW a, NEW b, NEW c, NEW d, NEW e
    PROVE  <<a, b, c, d>> \o <<e>> = Then(a, Then(b, Then(c, Then(d, Then(e, << >>)))))
  <1>1. Listed(Then(e, << >>)) /\ <<e>> = Then(e, << >>)
    BY Tuple1, ThenList, EmptyList, Zenon
  <1>2. <<b, c, d>> \o Then(e, << >>) = Then(b, Then(c, Then(d, Then(e, << >>))))
    BY <1>1, ThreeList, SMTT(30)
  <1>3. Listed(<<b, c, d>>)
    <2>1. <<b, c, d>> \in Seq({b, c, d})
      OBVIOUS
    <2>2. QED
      BY <2>1, Zenon DEF Listed
  <1>4. Then(a, <<b, c, d>>) \o Then(e, << >>) = Then(a, <<b, c, d>> \o Then(e, << >>))
    BY <1>1, <1>3, ThenConcat, SMTT(30) DEF Cat
  <1>5. <<a, b, c, d>> = Then(a, <<b, c, d>>)
    BY Tuple4, Zenon
  <1>6. QED
    BY <1>1, <1>2, <1>4, <1>5, Zenon

\* The first step of what is left is the one that is taken.
LEMMA FirstStep ==
    ASSUME NEW op, NEW s, Listed(s), todo = Then(op, s)
    PROVE  /\ todo # << >> /\ Head(todo) = op
           /\ \A next : Proceed(next) => todo' = next \o s
           /\ Proceed(<< >>) => todo' = s
           /\ \A a : Proceed(<<a>>) => todo' = Then(a, s)
  BY ThenList, EmptyList, Zenon DEF Proceed, Then

\* What is left in a phase, as its first step and what is left in the next.
LEMMA StepsLeft ==
    ASSUME NEW who, NEW v, NEW b
    PROVE  /\ Steps("bind", who, v, b) = b
           /\ Steps("request", who, v, b) = Then(Ask("request", who), b)
           /\ Steps("deny", who, v, b) = Then(Ask("deny", who), b)
           /\ Steps("register", who, v, b) = Then(Step("register", v), Steps("enable", who, v, b))
           /\ Steps("enable", who, v, b) = Then(Step("enable", v), Steps("grant", who, v, b))
           /\ Steps("grant", who, v, b) = Then(GrantOp(v, who), b)
           /\ Steps("disable", who, v, b) = Then(Step("disable", v), Steps("release", who, v, b))
           /\ Steps("release", who, v, b) = Then(Step("release", v), Steps("unregister", who, v, b))
           /\ Steps("unregister", who, v, b) = Then(Step("unregister", v), Steps("forget", who, v, b))
           /\ Steps("forget", who, v, b) = Then(Step("forget", v), Steps("uninstall", who, v, b))
           /\ Steps("uninstall", who, v, b) = Then(Step("uninstall", who.id), << >>)
           /\ Steps("calibrate", who, v, b) = Then(Step("calibrate", NULL), << >>)
           /\ Steps("route", who, v, b) = Then(Step("route", 0), << >>)
           /\ Steps("await", who, v, b) = Then(Step("await", NULL), << >>)
           /\ Steps("uncalibrate", who, v, b) = Then(Step("unregister", CAL_VECTOR), Steps("mask", who, v, b))
           /\ Steps("mask", who, v, b) = Then(Step("mask", 0), << >>)
  <1>1. Steps("bind", who, v, b) = b
    BY Zenon DEF Steps
  <1>2. Steps("request", who, v, b) = Then(Ask("request", who), b)
    BY Zenon DEF Steps
  <1>3. Steps("deny", who, v, b) = Then(Ask("deny", who), b)
    BY Zenon DEF Steps
  <1>4. Steps("register", who, v, b) = Then(Step("register", v), Steps("enable", who, v, b))
    BY Zenon DEF Steps
  <1>5. Steps("enable", who, v, b) = Then(Step("enable", v), Steps("grant", who, v, b))
    BY Zenon DEF Steps
  <1>6. Steps("grant", who, v, b) = Then(GrantOp(v, who), b)
    BY Zenon DEF Steps
  <1>7. Steps("disable", who, v, b) = Then(Step("disable", v), Steps("release", who, v, b))
    BY Zenon DEF Steps
  <1>8. Steps("release", who, v, b) = Then(Step("release", v), Steps("unregister", who, v, b))
    BY Zenon DEF Steps, Releases
  <1>9. Steps("unregister", who, v, b) = Then(Step("unregister", v), Steps("forget", who, v, b))
    BY Zenon DEF Steps, Unregisters
  <1>10. Steps("forget", who, v, b) = Then(Step("forget", v), Steps("uninstall", who, v, b))
    BY Zenon DEF Steps, Forgets
  <1>11. Steps("uninstall", who, v, b) = Then(Step("uninstall", who.id), << >>)
    BY Zenon DEF Steps
  <1>12. Steps("calibrate", who, v, b) = Then(Step("calibrate", NULL), << >>)
    BY Zenon DEF Steps
  <1>13. Steps("route", who, v, b) = Then(Step("route", 0), << >>)
    BY Zenon DEF Steps
  <1>14. Steps("await", who, v, b) = Then(Step("await", NULL), << >>)
    BY Zenon DEF Steps
  <1>15. Steps("uncalibrate", who, v, b) = Then(Step("unregister", CAL_VECTOR), Steps("mask", who, v, b))
    BY Zenon DEF Steps
  <1>16. Steps("mask", who, v, b) = Then(Step("mask", 0), << >>)
    BY Zenon DEF Steps
  <1>17. QED
    BY <1>1, <1>2, <1>3, <1>4, <1>5, <1>6, <1>7, <1>8, <1>9, <1>10, <1>11, <1>12, <1>13, <1>14, <1>15, <1>16, Zenon

\* The whole of irq_free and what its caller does after it.
LEMMA FreeSteps ==
    ASSUME NEW who, NEW v
    PROVE  Steps("disable", who, v, << >>) =
              Then(Step("disable", v), Then(Step("release", v), Then(Step("unregister", v),
                Then(Step("forget", v), Then(Step("uninstall", who.id), << >>)))))
  BY Zenon DEF Steps, Releases, Unregisters, Forgets

LEMMA BindSteps == \A who, v, b : Steps("bind", who, v, b) = b
  BY Zenon DEF Steps

LEMMA RequestSteps == \A who, v, b : Steps("request", who, v, b) = Then(Ask("request", who), b)
  BY Zenon DEF Steps

\* The tails of a phase are lists.
LEMMA PhaseLists ==
    ASSUME NEW who, NEW v, NEW b, Listed(b)
    PROVE  /\ Listed(Steps("grant", who, v, b)) /\ Listed(Steps("enable", who, v, b))
           /\ Listed(Steps("uninstall", who, v, b)) /\ Listed(Steps("forget", who, v, b))
           /\ Listed(Steps("unregister", who, v, b)) /\ Listed(Steps("release", who, v, b))
           /\ Listed(Steps("mask", who, v, b)) /\ Listed(<< >>)
  <1>1. Listed(<< >>)
    BY EmptyList, Zenon
  <1>2. Listed(Steps("grant", who, v, b))
    BY ThenList, StepsLeft, SMTT(30)
  <1>3. Listed(Steps("enable", who, v, b))
    BY <1>2, ThenList, StepsLeft, SMTT(30)
  <1>4. Listed(Steps("uninstall", who, v, b))
    BY <1>1, ThenList, StepsLeft, SMTT(30)
  <1>5. Listed(Steps("forget", who, v, b))
    BY <1>4, ThenList, StepsLeft, SMTT(30)
  <1>6. Listed(Steps("unregister", who, v, b))
    BY <1>5, ThenList, StepsLeft, SMTT(30)
  <1>7. Listed(Steps("release", who, v, b))
    BY <1>6, ThenList, StepsLeft, SMTT(30)
  <1>8. Listed(Steps("mask", who, v, b))
    BY <1>1, ThenList, StepsLeft, SMTT(30)
  <1>9. QED
    BY <1>1, <1>2, <1>3, <1>4, <1>5, <1>6, <1>7, <1>8, Zenon

LEMMA AtLists ==
    ASSUME NEW ph, NEW who, NEW v, NEW b, At(ph, who, v, b)
    PROVE  Listed(b)
  BY Zenon DEF At, Listed

-----------------------------------------------------------------------------
\* What a step leaves as it is.
LEMMA SameOwners == UNCHANGED <<device, entry>> => \A w : Owners(w)' = Owners(w)
  BY Zenon DEF Owners

LEMMA SameLive == UNCHANGED irq_descs => \A g : Live(g)' = Live(g)
  BY Zenon DEF Live

LEMMA SameServed ==
    UNCHANGED <<irq_descs, redir>> => \A ph, v, g : Served(ph, v, g)' <=> Served(ph, v, g)
  <1>1. SUFFICES ASSUME UNCHANGED <<irq_descs, redir>>, NEW ph, NEW v, NEW g
                 PROVE  Served(ph, v, g)' <=> Served(ph, v, g)
    BY Zenon
  <1>2. Live(g)' = Live(g) /\ (Quiet(g)' <=> Quiet(g)) /\ \A w : Led(g, w)' <=> Led(g, w)
    BY <1>1, SameLive, Zenon DEF Quiet, Led
  <1>3. QED
    BY <1>2, Zenon DEF Served

LEMMA SameBinds == UNCHANGED device_list => Binds' = Binds
  BY Zenon DEF Binds, Range

LEMMA KeepUsers ==
    ASSUME NEW ph, NEW ph2, NEW who, NEW b, UsersOk(ph, who, b), UNCHANGED users,
           ph \in Asking \cup Taking <=> ph2 \in Asking \cup Taking
    PROVE  UsersOk(ph2, who, b)'
  <1>1. UNCHANGED <<device, entry, denied, device_list, driver_list>>
    BY Zenon DEF users
  <1>2. ASSUME NEW d \in Devices
        PROVE  DeviceOk(ph2, who, d)' /\ Bound(d, b)'
    <2>1. DeviceOk(ph, who, d) /\ Bound(d, b)
      BY Zenon DEF UsersOk
    <2>2. DeviceOk(ph2, who, d)'
      BY <1>1, <2>1, Zenon DEF DeviceOk, Waits, Entitled
    <2>3. Bound(d, b)'
      BY <1>1, <2>1, Zenon DEF Bound
    <2>4. QED
      BY <2>2, <2>3, Zenon
  <1>3. ASSUME NEW h \in AcpiIrqs
        PROVE  EntryOk(ph2, who, h)'
    BY <1>1, Zenon DEF UsersOk, EntryOk, Waits
  <1>4. QED
    BY <1>2, <1>3, Zenon DEF UsersOk

LEMMA Null == 0 \notin Vectors /\ CAL_VECTOR \notin Vectors /\ TimerVector \in Vectors
  BY IrqAssumption DEF Vectors, TimerVector

\* Later calls keep what the calibration has left.
LEMMA BootKept ==
    ASSUME NEW ph, NEW ph2, BootOk(ph), ph \notin Booting, ph2 \notin Booting,
           isr'[CAL_VECTOR] = isr[CAL_VECTOR],
           \A g \in Gsis : redir'[g] = redir[g] \/ redir'[g].masked \/ redir'[g].vector # CAL_VECTOR
    PROVE  BootOk(ph2)'
  BY ZenonT(30) DEF BootOk, Booting, Answered

-----------------------------------------------------------------------------
\* irq_request: the handler, then the line.
LEMMA RegisterStep ==
    ASSUME TypeOK, NEW who, NEW v, NEW b, At("register", who, v, b), Thread
    PROVE  TypeOK' /\ At("enable", who, v, b)'
  <1>0. Listed(b)
    BY AtLists, Zenon
  <1>1. todo = Then(Step("register", v), Steps("enable", who, v, b))
    BY StepsLeft, SMTT(30) DEF At
  <1>2. /\ isr' = [isr EXCEPT ![v] = "irq"]
        /\ UNCHANGED <<vector_used, irq_descs, redir, boot, users, shared>>
        /\ todo' = Steps("enable", who, v, b)
    <2>1. Head(todo) = Step("register", v) /\ (Proceed(<< >>) => todo' = Steps("enable", who, v, b))
      BY <1>0, <1>1, PhaseLists, FirstStep, Zenon
    <2>2. Run(Step("register", v))
      BY <2>1, Zenon DEF Thread
    <2>3. QED
      BY <2>1, <2>2, Zenon DEF Run, Step, Handler
  <1>3. /\ v \in Vectors /\ v # 0 /\ v # TimerVector /\ v # CAL_VECTOR
        /\ IrqOk("register", who, v) /\ UsersOk("register", who, b)
    BY Null, Zenon DEF At, Progress, Taking, Freeing
  <1>4. UNCHANGED <<device, entry, denied, device_list, driver_list, pit>>
    BY <1>2, Zenon DEF users, boot
  <1>5. TypeOK'
    BY <1>2, <1>3, <1>4, Zenon DEF TypeOK
  <1>6. UsersOk("enable", who, b)'
    BY <1>2, <1>3, KeepUsers, Zenon DEF Taking
  <1>7. IrqOk("enable", who, v)'
    <2>1. \A w \in Vectors : DescOk(w)'
      BY <1>2, <1>3, Zenon DEF IrqOk, DescOk
    <2>2. \A w \in Vectors \ {v} : Owned(w)'
      BY <1>2, <1>3, <1>4, SameOwners, Zenon DEF IrqOk, Owned, TypeOK
    <2>3. Handled("enable", who, v)'
      BY <1>2, <1>3, <1>4, SameOwners, Zenon DEF IrqOk, Handled, TypeOK, Taking
    <2>4. \A g \in Gsis : (redir[g].vector = v => redir[g].masked)'
      BY <1>2, <1>3, Zenon DEF IrqOk, Apart
    <2>5. \A g \in Gsis : Ready(g)'
      BY <1>2, <1>3, <1>4, <2>4, Zenon DEF IrqOk, Ready, TypeOK
    <2>6. \A g \in Gsis \ shared : Served("enable", v, g)'
      BY <1>2, <1>3, SameLive, ZenonT(30) DEF IrqOk, Served, Apart, Quiet, Led
    <2>7. BootOk("enable")'
      BY <1>2, <1>3, <1>4, Zenon DEF IrqOk, BootOk, Booting, Answered, TypeOK
    <2>8. QED
      BY <1>2, <2>1, <2>2, <2>3, <2>4, <2>5, <2>6, <2>7, Zenon DEF IrqOk
  <1>8. Progress("enable", who, v)'
    BY <1>4, Zenon DEF At, Progress, Phases, Asking, Taking, Freeing, Booting
  <1>9. QED
    BY <1>2, <1>4, <1>5, <1>6, <1>7, <1>8, SameBinds, Zenon DEF At, Freeing, Booting

LEMMA EnableStep ==
    ASSUME TypeOK, NEW who, NEW v, NEW b, At("enable", who, v, b), Thread
    PROVE  TypeOK' /\ At("grant", who, v, b)'
  <1>0. Listed(b)
    BY AtLists, Zenon
  <1>1. todo = Then(Step("enable", v), Steps("grant", who, v, b))
    BY StepsLeft, SMTT(30) DEF At
  <1>2. /\ redir' = Routed(irq_descs[v].hwirq, v)
        /\ UNCHANGED <<vector_used, irq_descs, isr, boot, users, shared>>
        /\ todo' = Steps("grant", who, v, b)
    <2>1. Head(todo) = Step("enable", v) /\ (Proceed(<< >>) => todo' = Steps("grant", who, v, b))
      BY <1>0, <1>1, PhaseLists, FirstStep, Zenon
    <2>2. Run(Step("enable", v))
      BY <2>1, Zenon DEF Thread
    <2>3. QED
      BY <2>1, <2>2, Zenon DEF Run, Step, Redirect
  <1>3. /\ v \in Vectors /\ v # 0 /\ v # TimerVector /\ v # CAL_VECTOR
        /\ IrqOk("enable", who, v) /\ UsersOk("enable", who, b)
    BY Null, Zenon DEF At, Progress, Taking, Freeing
  <1>4. UNCHANGED <<device, entry, denied, device_list, driver_list, pit>>
    BY <1>2, Zenon DEF users, boot
  <1>5. PICK g0 : g0 = Gsi(irq_descs[v].hwirq)
    BY Zenon
  <1>6. /\ \A g \in Gsis : redir'[g] = IF g = g0 THEN [vector |-> v, masked |-> FALSE] ELSE redir[g]
        /\ redir' \in [Gsis -> [vector : Vectors \cup {CAL_VECTOR}, masked : BOOLEAN]]
    BY <1>2, <1>3, <1>5, Zenon DEF Routed, TypeOK
  <1>7. TypeOK'
    BY <1>2, <1>4, <1>6, Zenon DEF TypeOK
  <1>8. UsersOk("grant", who, b)'
    BY <1>2, <1>3, KeepUsers, Zenon DEF Taking
  <1>9. IrqOk("grant", who, v)'
    <2>1. \A w \in Vectors : DescOk(w)'
      BY <1>2, <1>3, Zenon DEF IrqOk, DescOk
    <2>2. \A w \in Vectors \ {v} : Owned(w)'
      BY <1>2, <1>3, <1>4, SameOwners, Zenon DEF IrqOk, Owned
    <2>3. Handled("enable", who, v) /\ DescOk(v)
      BY <1>3, Zenon DEF IrqOk
    <2>4. Handled("grant", who, v)'
      BY <1>2, <1>4, <2>3, SameOwners, Zenon DEF Handled, Taking
    <2>5. ASSUME NEW g \in Gsis
          PROVE  Ready(g)'
      <3>1. Ready(g)
        BY <1>3, Zenon DEF IrqOk
      <3>2. CASE g = g0
        <4>1. redir'[g].vector = v
          BY <1>6, <3>2, SMTT(30)
        <4>2. isr[v] = "irq" /\ irq_descs[v] # NULL
          BY <2>3, Zenon DEF Handled
        <4>3. QED
          BY <1>2, <1>3, <1>5, <3>2, <4>1, <4>2, Zenon DEF Ready
      <3>3. CASE g # g0
        <4>1. redir'[g] = redir[g]
          BY <1>6, <3>3, Zenon
        <4>2. QED
          BY <1>2, <1>4, <3>1, <4>1, Zenon DEF Ready
      <3>4. QED
        BY <3>2, <3>3, Zenon
    <2>6. /\ irq_descs[v].enabled /\ \A g : v \in Live(g) <=> g = g0
      BY <1>3, <1>5, <2>3, Zenon DEF Live, DescOk, Handled, Taking
    <2>7. ASSUME NEW g \in Gsis \ shared
          PROVE  Served("grant", v, g)'
      <3>1. Served("enable", v, g)
        BY <1>3, Zenon DEF IrqOk
      <3>2. CASE g = g0
        <4>1. redir'[g] = [vector |-> v, masked |-> FALSE]
          BY <1>6, <3>2, Zenon
        <4>2. v \in Live(g)' /\ \A w \in Live(g)' : w = v
          BY <1>2, <2>6, <3>1, <3>2, SameLive, Zenon DEF Served
        <4>3. (~irq_descs'[v].enabled) = FALSE
          BY <1>2, <2>6, Zenon
        <4>4. Led(g, v)'
          BY <4>1, <4>3, Zenon DEF Led
        <4>5. QED
          BY <4>2, <4>4, Zenon DEF Served, Apart
      <3>3. CASE g # g0
        BY <1>2, <1>6, <2>6, <3>1, <3>3, SameLive, Zenon DEF Served, Apart, Quiet, Led
      <3>4. QED
        BY <3>2, <3>3, Zenon
    <2>8. BootOk("grant")'
      <3>1. \A g \in Gsis : redir'[g] = redir[g] \/ redir'[g].vector # CAL_VECTOR
        BY <1>3, <1>6, OpenEntry, Zenon
      <3>2. BootOk("enable") /\ isr' = isr /\ "enable" \notin Booting /\ "grant" \notin Booting
        BY <1>2, <1>3, Zenon DEF IrqOk, Booting
      <3>3. QED
        BY <3>1, <3>2, BootKept, Zenon
    <2>9. QED
      BY <1>2, <2>1, <2>2, <2>4, <2>5, <2>7, <2>8, Zenon DEF IrqOk, Apart
  <1>10. Progress("grant", who, v)'
    BY <1>4, Zenon DEF At, Progress, Phases, Asking, Taking, Freeing, Booting
  <1>11. QED
    BY <1>2, <1>4, <1>7, <1>8, <1>9, <1>10, SameBinds, Zenon DEF At, Freeing, Booting

\* Who holds a vector, by kind.
DevsOf(w) == {e \in Devices : device[e].irq = w}
AcpisOf(w) == {q \in AcpiIrqs : entry[q].handler /\ entry[q].irq_vector = w}

LEMMA OwnersByKind ==
    ASSUME NEW w
    PROVE  Owners(w) = (IF w = TimerVector THEN {NULL} ELSE {})
                       \cup {Dev(d) : d \in DevsOf(w)} \cup {Acpi(h) : h \in AcpisOf(w)}
  BY Zenon DEF Owners, DevsOf, AcpisOf

LEMMA SameKinds ==
    ASSUME NEW w, DevsOf(w)' = DevsOf(w), AcpisOf(w)' = AcpisOf(w)
    PROVE  Owners(w)' = Owners(w)
  <1>1. Owners(w)' = (IF w = TimerVector THEN {NULL} ELSE {})
                     \cup {Dev(d) : d \in DevsOf(w)'} \cup {Acpi(h) : h \in AcpisOf(w)'}
    BY Zenon DEF Owners, DevsOf, AcpisOf
  <1>2. QED
    BY <1>1, OwnersByKind, Zenon

LEMMA NoOwners ==
    ASSUME NEW w, Owners(w) = {}
    PROVE  DevsOf(w) = {} /\ AcpisOf(w) = {}
  <1>1. {Dev(d) : d \in DevsOf(w)} = {} /\ {Acpi(h) : h \in AcpisOf(w)} = {}
    BY OwnersByKind, Zenon
  <1>2. QED
    BY <1>1, Zenon

LEMMA GrantStep ==
    ASSUME TypeOK, NEW who, NEW v, NEW b, At("grant", who, v, b), Thread
    PROVE  TypeOK' /\ At("bind", NULL, 0, b)'
  <1>0. Listed(b)
    BY AtLists, Zenon
  <1>1. todo = Then(GrantOp(v, who), b)
    BY StepsLeft, SMTT(30) DEF At
  <1>2. Grant(v, who) /\ todo' = b
    <2>1. Head(todo) = GrantOp(v, who) /\ (Proceed(<< >>) => todo' = b)
      BY <1>0, <1>1, FirstStep, Zenon
    <2>2. Run(GrantOp(v, who))
      BY <2>1, Zenon DEF Thread
    <2>3. QED
      BY <2>1, <2>2, Zenon DEF Run, GrantOp
  <1>3. /\ v \in Vectors /\ v # 0 /\ v # TimerVector /\ who \in Users
        /\ IrqOk("grant", who, v) /\ UsersOk("grant", who, b)
    BY Null, Zenon DEF At, Progress, Taking, Freeing
  <1>4. /\ UNCHANGED <<vector_used, irq_descs, isr, redir, shared, pit>>
        /\ UNCHANGED <<denied, device_list, driver_list>>
    BY <1>2, Zenon DEF Grant, irq, boot
  <1>5. /\ TypeOK' /\ \A w \in Vectors \ {v} : Owners(w)' = Owners(w)
        /\ Owners(v)' = {who} /\ UsersOk("bind", NULL, b)'
    <2>1. CASE \E d \in Devices : who = Dev(d) /\ Line[d] # NULL
      <3>1. PICK d \in Devices : who = Dev(d) /\ Line[d] # NULL
        BY <2>1, Zenon
      <3>2. device' = [device EXCEPT ![d].irq = v] /\ entry' = entry
        BY <1>2, <3>1, Zenon DEF Grant, Dev
      <3>3. /\ device[d].irq = 0 /\ Entitled(d) /\ \A h \in AcpiIrqs : Acpi(h) # who
            /\ \A e \in Devices \ {d} : Dev(e) # who
        BY <1>3, <3>1, Zenon DEF UsersOk, DeviceOk, Waits, Taking, Dev, Acpi
      <3>4. TypeOK'
        BY <1>3, <1>4, <3>2, ZenonT(30) DEF TypeOK
      <3>5. \A w \in Vectors \ {v} : Owners(w)' = Owners(w)
        <4>1. ASSUME NEW w \in Vectors \ {v}
              PROVE  DevsOf(w)' = DevsOf(w) /\ AcpisOf(w)' = AcpisOf(w)
          BY <3>2, <3>3, Null, ZenonT(30) DEF DevsOf, AcpisOf, TypeOK
        <4>2. QED
          BY <4>1, SameKinds, Zenon
      <3>6. Owners(v)' = {who}
        <4>1. DevsOf(v) = {} /\ AcpisOf(v) = {}
          <5>1. Owners(v) = {}
            BY <1>3, Zenon DEF IrqOk, Handled, Taking
          <5>2. QED
            BY <5>1, NoOwners, Zenon
        <4>2. DevsOf(v)' = {d} /\ AcpisOf(v)' = {}
          BY <3>2, <4>1, Zenon DEF DevsOf, AcpisOf, TypeOK
        <4>3. Owners(v)' = {Dev(e) : e \in DevsOf(v)'} \cup {Acpi(h) : h \in AcpisOf(v)'}
          BY <1>3, Zenon DEF Owners, DevsOf, AcpisOf
        <4>4. QED
          BY <3>1, <4>2, <4>3, Zenon
      <3>7. ASSUME NEW e \in Devices
            PROVE  DeviceOk("bind", NULL, e)' /\ Bound(e, b)'
        <4>1. DeviceOk("grant", who, e) /\ Bound(e, b)
          BY <1>3, Zenon DEF UsersOk
        <4>2. device'[e].driver = device[e].driver /\ device'[e].irq = IF e = d THEN v ELSE device[e].irq
          BY <3>2, Zenon DEF TypeOK
        <4>3. DeviceOk("bind", NULL, e)'
          BY <1>3, <1>4, <3>3, <4>1, <4>2, Zenon DEF DeviceOk, Waits, Entitled, Asking, Taking
        <4>4. Bound(e, b)'
          BY <1>4, <4>1, <4>2, Zenon DEF Bound
        <4>5. QED
          BY <4>3, <4>4, Zenon
      <3>8. \A h \in AcpiIrqs : EntryOk("bind", NULL, h)'
        BY <1>3, <3>2, <3>3, Zenon DEF UsersOk, EntryOk, Waits, Asking, Taking
      <3>9. QED
        BY <3>4, <3>5, <3>6, <3>7, <3>8, Zenon DEF UsersOk
    <2>2. CASE \E h \in AcpiIrqs : who = Acpi(h)
      <3>1. PICK h \in AcpiIrqs : who = Acpi(h)
        BY <2>2, Zenon
      <3>2. entry' = [entry EXCEPT ![h].irq_vector = v] /\ device' = device
        BY <1>2, <3>1, Zenon DEF Grant, Acpi
      <3>3. /\ entry[h] = [handler |-> TRUE, irq_vector |-> 0] /\ \A d \in Devices : Dev(d) # who
            /\ \A q \in AcpiIrqs \ {h} : Acpi(q) # who
        BY <1>3, <3>1, Zenon DEF UsersOk, EntryOk, Waits, Taking, Dev, Acpi
      <3>4. TypeOK'
        BY <1>3, <1>4, <3>2, ZenonT(30) DEF TypeOK
      <3>5. \A w \in Vectors \ {v} : Owners(w)' = Owners(w)
        <4>1. ASSUME NEW w \in Vectors \ {v}
              PROVE  DevsOf(w)' = DevsOf(w) /\ AcpisOf(w)' = AcpisOf(w)
          BY <3>2, <3>3, Null, SMTT(30) DEF DevsOf, AcpisOf, TypeOK
        <4>2. QED
          BY <4>1, SameKinds
      <3>6. Owners(v)' = {who}
        <4>1. DevsOf(v) = {} /\ AcpisOf(v) = {}
          <5>1. Owners(v) = {}
            BY <1>3, SMTT(30) DEF IrqOk, Handled, Taking
          <5>2. QED
            BY <5>1, NoOwners
        <4>2. DevsOf(v)' = {} /\ AcpisOf(v)' = {h}
          BY <3>2, <3>3, <4>1, SMTT(30) DEF DevsOf, AcpisOf, TypeOK
        <4>3. Owners(v)' = {Dev(e) : e \in DevsOf(v)'} \cup {Acpi(q) : q \in AcpisOf(v)'}
          BY <1>3, Zenon DEF Owners, DevsOf, AcpisOf
        <4>4. QED
          BY <3>1, <4>2, <4>3, Zenon
      <3>7. ASSUME NEW e \in Devices
            PROVE  DeviceOk("bind", NULL, e)' /\ Bound(e, b)'
        <4>1. DeviceOk("grant", who, e) /\ Bound(e, b)
          BY <1>3, Zenon DEF UsersOk
        <4>2. DeviceOk("bind", NULL, e)'
          BY <1>4, <3>2, <3>3, <4>1, Zenon DEF DeviceOk, Waits, Entitled, Asking, Taking
        <4>3. Bound(e, b)'
          BY <1>4, <3>2, <4>1, Zenon DEF Bound
        <4>4. QED
          BY <4>2, <4>3, Zenon
      <3>8. ASSUME NEW q \in AcpiIrqs
            PROVE  EntryOk("bind", NULL, q)'
        <4>1. EntryOk("grant", who, q)
          BY <1>3, Zenon DEF UsersOk
        <4>2. /\ entry'[q].handler = entry[q].handler
              /\ entry'[q].irq_vector = IF q = h THEN v ELSE entry[q].irq_vector
          BY <3>2, Zenon DEF TypeOK
        <4>3. QED
          BY <1>3, <3>3, <4>1, <4>2, SMTT(30) DEF EntryOk, Waits, Asking, Taking
      <3>9. QED
        BY <3>4, <3>5, <3>6, <3>7, <3>8, Zenon DEF UsersOk
    <2>3. QED
      BY <1>3, <2>1, <2>2, Zenon DEF Users
  <1>6. IrqOk("bind", NULL, 0)'
    <2>1. Handled("grant", who, v)
      BY <1>3, Zenon DEF IrqOk
    <2>2. \A w \in Vectors : DescOk(w)'
      BY <1>3, <1>4, Zenon DEF IrqOk, DescOk
    <2>3. \A w \in Vectors \ {v} : Owned(w)'
      BY <1>3, <1>4, <1>5, Zenon DEF IrqOk, Owned
    <2>4. Owned(v)'
      BY <1>4, <1>5, <2>1, Zenon DEF Owned, Handled, Taking
    <2>5. \A g \in Gsis : Ready(g)'
      BY <1>3, <1>4, Zenon DEF IrqOk, Ready
    <2>6. \A g \in Gsis \ shared : Served("bind", 0, g)'
      BY <1>3, <1>4, SameLive, Zenon DEF IrqOk, Served, Apart, Quiet, Led
    <2>7. BootOk("bind")'
      BY <1>3, <1>4, Zenon DEF IrqOk, BootOk, Booting, Answered, TypeOK
    <2>8. QED
      BY <1>4, <2>2, <2>3, <2>4, <2>5, <2>6, <2>7, Zenon DEF IrqOk
  <1>7. Progress("bind", NULL, 0)' /\ b \in Seq(Binds)' /\ todo' = Steps("bind", NULL, 0, b)
    BY <1>2, <1>4, SameBinds, StepsLeft, SMTT(30) DEF At, Progress, Phases, Asking, Taking, Freeing, Booting
  <1>8. QED
    BY <1>5, <1>6, <1>7, Zenon DEF At, Freeing, Booting

\* irq_free: the line, the vector, the handler, the descriptor.
LEMMA DisableStep ==
    ASSUME TypeOK, NEW who, NEW v, NEW b, At("disable", who, v, b), Thread
    PROVE  TypeOK' /\ At("release", who, v, b)'
  <1>0. Listed(b)
    BY AtLists, Zenon
  <1>1. todo = Then(Step("disable", v), Steps("release", who, v, b))
    BY StepsLeft, SMTT(30) DEF At
  <1>2. /\ redir' = Masked(irq_descs[v].hwirq)
        /\ UNCHANGED <<vector_used, irq_descs, isr, boot, users, shared>>
        /\ todo' = Steps("release", who, v, b)
    <2>1. Head(todo) = Step("disable", v) /\ (Proceed(<< >>) => todo' = Steps("release", who, v, b))
      BY <1>0, <1>1, PhaseLists, FirstStep, Zenon
    <2>2. Run(Step("disable", v))
      BY <2>1, Zenon DEF Thread
    <2>3. QED
      BY <2>1, <2>2, Zenon DEF Run, Step, Redirect
  <1>3. /\ v \in Vectors /\ v # 0 /\ v # TimerVector /\ v # CAL_VECTOR
        /\ IrqOk("disable", who, v) /\ UsersOk("disable", who, b)
    BY Null, Zenon DEF At, Progress, Taking, Freeing
  <1>4. UNCHANGED <<device, entry, denied, device_list, driver_list, pit>>
    BY <1>2, Zenon DEF users, boot
  <1>5. UsersOk("release", who, b)'
    BY <1>2, <1>3, KeepUsers, Zenon DEF Taking, Asking
  <1>6. Progress("release", who, v)'
    BY <1>4, Zenon DEF At, Progress, Phases, Asking, Taking, Freeing, Booting
  <1>7. Handled("disable", who, v) /\ DescOk(v)
    BY <1>3, Zenon DEF IrqOk
  <1>8. PICK g0 : g0 = Gsi(irq_descs[v].hwirq)
    BY Zenon
  <1>9. /\ \A g \in Gsis : /\ redir'[g].vector = redir[g].vector
                           /\ redir'[g].masked = (redir[g].masked \/ g = g0)
                           /\ g # g0 => redir'[g] = redir[g]
        /\ redir' \in [Gsis -> [vector : Vectors \cup {CAL_VECTOR}, masked : BOOLEAN]]
    <2>1. CASE g0 \in Gsis
      <3>1. redir' = [redir EXCEPT ![g0].masked = TRUE]
        BY <1>2, <1>8, <2>1, Zenon DEF Masked
      <3>2. QED
        BY <2>1, <3>1, ZenonT(30) DEF TypeOK
    <2>2. CASE g0 \notin Gsis
      <3>1. redir' = redir
        BY <1>2, <1>8, <2>2, Zenon DEF Masked
      <3>2. QED
        BY <2>2, <3>1, Zenon DEF TypeOK
    <2>3. QED
      BY <2>1, <2>2, Zenon
  <1>10. TypeOK'
    BY <1>2, <1>4, <1>9, Zenon DEF TypeOK
  <1>11. IrqOk("release", who, v)'
    <2>1. \A w \in Vectors : DescOk(w)'
      BY <1>2, <1>3, Zenon DEF IrqOk, DescOk
    <2>2. \A w \in Vectors \ {v} : Owned(w)'
      BY <1>2, <1>3, <1>4, SameOwners, Zenon DEF IrqOk, Owned
    <2>3. Handled("release", who, v)'
      BY <1>2, <1>4, <1>7, SameOwners, Zenon DEF Handled, Taking
    <2>4. ASSUME NEW g \in Gsis, redir'[g].vector = v
          PROVE  redir'[g].masked
      <3>1. Ready(g)
        BY <1>3, Zenon DEF IrqOk
      <3>2. redir[g].vector = v /\ redir'[g].masked = (redir[g].masked \/ g = g0)
        BY <1>9, <2>4, Zenon
      <3>3. redir[g].masked \/ g = g0
        BY <1>3, <1>8, <3>1, <3>2, Zenon DEF Ready
      <3>4. QED
        BY <3>2, <3>3, Zenon
    <2>5. \A g \in Gsis : Ready(g)'
      <3>1. \A g \in Gsis : Ready(g)
        BY <1>3, Zenon DEF IrqOk
      <3>2. QED
        BY <1>2, <1>4, <1>9, <3>1, ZenonT(30) DEF Ready
    <2>6. \A g : v \in Live(g) <=> g = g0
      BY <1>3, <1>7, <1>8, Zenon DEF Live, DescOk, Handled
    <2>7. ASSUME NEW g \in Gsis \ shared
          PROVE  Served("release", v, g)'
      <3>1. Served("disable", v, g)
        BY <1>3, Zenon DEF IrqOk
      <3>2. CASE g = g0
        <4>1. v \in Live(g)' /\ \A w \in Live(g)' : w = v
          BY <1>2, <2>6, <3>1, <3>2, SameLive, Zenon DEF Served
        <4>2. redir'[g].masked
          BY <1>9, <3>2, ZenonT(30)
        <4>3. QED
          BY <4>1, <4>2, Zenon DEF Served, Apart, Quiet
      <3>3. CASE g # g0
        BY <1>2, <1>9, <2>6, <3>1, <3>3, SameLive, SMTT(30) DEF Served, Apart, Quiet, Led
      <3>4. QED
        BY <3>2, <3>3, Zenon
    <2>8. BootOk("release")'
      <3>1. \A g \in Gsis : redir'[g] = redir[g] \/ redir'[g].masked
        BY <1>9, ZenonT(30)
      <3>2. BootOk("disable") /\ isr' = isr /\ "disable" \notin Booting /\ "release" \notin Booting
        BY <1>2, <1>3, Zenon DEF IrqOk, Booting
      <3>3. QED
        BY <3>1, <3>2, BootKept, Zenon
    <2>9. QED
      BY <1>2, <2>1, <2>2, <2>3, <2>4, <2>5, <2>7, <2>8, Zenon DEF IrqOk
  <1>12. QED
    BY <1>2, <1>4, <1>5, <1>6, <1>10, <1>11, SameBinds, Zenon DEF At, Freeing

LEMMA ReleaseStep ==
    ASSUME TypeOK, NEW who, NEW v, NEW b, At("release", who, v, b), Thread
    PROVE  TypeOK' /\ At("unregister", who, v, b)'
  <1>0. Listed(b)
    BY AtLists, Zenon
  <1>1. todo = Then(Step("release", v), Steps("unregister", who, v, b))
    BY StepsLeft, SMTT(30) DEF At
  <1>2. /\ vector_used' = vector_used \ {v}
        /\ UNCHANGED <<irq_descs, isr, redir, boot, users, shared>>
        /\ todo' = Steps("unregister", who, v, b)
    <2>1. Head(todo) = Step("release", v) /\ (Proceed(<< >>) => todo' = Steps("unregister", who, v, b))
      BY <1>0, <1>1, PhaseLists, FirstStep, Zenon
    <2>2. Run(Step("release", v))
      BY <2>1, Zenon DEF Thread
    <2>3. QED
      BY <2>1, <2>2, Zenon DEF Run, Step, Release
  <1>3. /\ v \in Vectors /\ v # 0 /\ v # TimerVector /\ v # CAL_VECTOR
        /\ IrqOk("release", who, v) /\ UsersOk("release", who, b)
    BY Null, Zenon DEF At, Progress, Taking, Freeing
  <1>4. UNCHANGED <<device, entry, denied, device_list, driver_list, pit>>
    BY <1>2, Zenon DEF users, boot
  <1>5. UsersOk("unregister", who, b)'
    BY <1>2, <1>3, KeepUsers, Zenon DEF Taking, Asking
  <1>6. Progress("unregister", who, v)'
    BY <1>4, Zenon DEF At, Progress, Phases, Asking, Taking, Freeing, Booting
  <1>7. Handled("release", who, v) /\ DescOk(v)
    BY <1>3, Zenon DEF IrqOk
  <1>9. TypeOK'
    BY <1>2, <1>4, Zenon DEF TypeOK
  <1>10. IrqOk("unregister", who, v)'
    <2>1. \A w \in Vectors : DescOk(w)'
      BY <1>2, <1>3, Zenon DEF IrqOk, DescOk
    <2>2. \A w \in Vectors \ {v} : Owned(w)'
      BY <1>2, <1>3, <1>4, SameOwners, Zenon DEF IrqOk, Owned
    <2>3. Handled("unregister", who, v)'
      BY <1>2, <1>4, <1>7, SameOwners, Zenon DEF Handled, Taking
    <2>4. \A g \in Gsis : (redir[g].vector = v => redir[g].masked)'
      BY <1>2, <1>3, Zenon DEF IrqOk, Apart
    <2>5. \A g \in Gsis : Ready(g)'
      BY <1>2, <1>3, <1>4, ZenonT(30) DEF IrqOk, Ready
    <2>6. \A g \in Gsis \ shared : Served("unregister", v, g)'
      BY <1>2, <1>3, SameLive, Zenon DEF IrqOk, Served, Apart, Quiet, Led
    <2>7. BootOk("unregister")'
      BY <1>2, <1>3, <1>4, Zenon DEF IrqOk, BootOk, Booting, Answered, TypeOK
    <2>8. QED
      BY <1>2, <2>1, <2>2, <2>3, <2>4, <2>5, <2>6, <2>7, Zenon DEF IrqOk
  <1>11. QED
    BY <1>2, <1>4, <1>5, <1>6, <1>9, <1>10, SameBinds, Zenon DEF At, Freeing

LEMMA UnregisterStep ==
    ASSUME TypeOK, NEW who, NEW v, NEW b, At("unregister", who, v, b), Thread
    PROVE  TypeOK' /\ At("forget", who, v, b)'
  <1>0. Listed(b)
    BY AtLists, Zenon
  <1>1. todo = Then(Step("unregister", v), Steps("forget", who, v, b))
    BY StepsLeft, SMTT(30) DEF At
  <1>2. /\ isr' = [isr EXCEPT ![v] = NULL]
        /\ UNCHANGED <<vector_used, irq_descs, redir, boot, users, shared>>
        /\ todo' = Steps("forget", who, v, b)
    <2>1. Head(todo) = Step("unregister", v) /\ (Proceed(<< >>) => todo' = Steps("forget", who, v, b))
      BY <1>0, <1>1, PhaseLists, FirstStep, Zenon
    <2>2. Run(Step("unregister", v))
      BY <2>1, Zenon DEF Thread
    <2>3. QED
      BY <2>1, <2>2, Zenon DEF Run, Step, Handler
  <1>3. /\ v \in Vectors /\ v # 0 /\ v # TimerVector /\ v # CAL_VECTOR
        /\ IrqOk("unregister", who, v) /\ UsersOk("unregister", who, b)
    BY Null, Zenon DEF At, Progress, Taking, Freeing
  <1>4. UNCHANGED <<device, entry, denied, device_list, driver_list, pit>>
    BY <1>2, Zenon DEF users, boot
  <1>5. UsersOk("forget", who, b)'
    BY <1>2, <1>3, KeepUsers, Zenon DEF Taking, Asking
  <1>6. Progress("forget", who, v)'
    BY <1>4, Zenon DEF At, Progress, Phases, Asking, Taking, Freeing, Booting
  <1>7. Handled("unregister", who, v) /\ DescOk(v)
    BY <1>3, Zenon DEF IrqOk
  <1>9. TypeOK'
    BY <1>2, <1>4, Zenon DEF TypeOK
  <1>10. IrqOk("forget", who, v)'
    <2>1. \A w \in Vectors : DescOk(w)'
      BY <1>2, <1>3, Zenon DEF IrqOk, DescOk
    <2>2. \A w \in Vectors \ {v} : Owned(w)'
      BY <1>2, <1>3, <1>4, SameOwners, Zenon DEF IrqOk, Owned, TypeOK
    <2>3. Handled("forget", who, v)'
      BY <1>2, <1>3, <1>4, <1>7, SameOwners, NullAssumption, Zenon DEF Handled, Taking, TypeOK
    <2>4. \A g \in Gsis : (redir[g].vector = v => redir[g].masked)'
      BY <1>2, <1>3, Zenon DEF IrqOk, Apart
    <2>5. \A g \in Gsis : Ready(g)'
      BY <1>2, <1>3, <1>4, <2>4, ZenonT(30) DEF IrqOk, Ready, TypeOK
    <2>6. \A g \in Gsis \ shared : Served("forget", v, g)'
      <3>1. \A g \in Gsis \ shared : Served("unregister", v, g)'
        BY <1>2, <1>3, SameServed, Zenon DEF IrqOk
      <3>2. QED
        BY <3>1, Zenon DEF Served, Apart
    <2>7. BootOk("forget")'
      BY <1>2, <1>3, <1>4, Zenon DEF IrqOk, BootOk, Booting, Answered, TypeOK
    <2>8. QED
      BY <1>2, <2>1, <2>2, <2>3, <2>4, <2>5, <2>6, <2>7, Zenon DEF IrqOk
  <1>11. QED
    BY <1>2, <1>4, <1>5, <1>6, <1>9, <1>10, SameBinds, Zenon DEF At, Freeing

LEMMA ForgetStep ==
    ASSUME TypeOK, NEW who, NEW v, NEW b, At("forget", who, v, b), Thread
    PROVE  TypeOK' /\ At("uninstall", who, v, b)'
  <1>0. Listed(b)
    BY AtLists, Zenon
  <1>1. todo = Then(Step("forget", v), Steps("uninstall", who, v, b))
    BY StepsLeft, SMTT(30) DEF At
  <1>2. /\ irq_descs' = [irq_descs EXCEPT ![v] = NULL]
        /\ UNCHANGED <<vector_used, isr, redir, boot, users, shared>>
        /\ todo' = Steps("uninstall", who, v, b)
    <2>1. Head(todo) = Step("forget", v) /\ (Proceed(<< >>) => todo' = Steps("uninstall", who, v, b))
      BY <1>0, <1>1, PhaseLists, FirstStep, Zenon
    <2>2. Run(Step("forget", v))
      BY <2>1, Zenon DEF Thread
    <2>3. QED
      BY <2>1, <2>2, Zenon DEF Run, Step, Forget
  <1>3. /\ v \in Vectors /\ v # 0 /\ v # TimerVector /\ v # CAL_VECTOR
        /\ IrqOk("forget", who, v) /\ UsersOk("forget", who, b)
    BY Null, Zenon DEF At, Progress, Taking, Freeing
  <1>4. UNCHANGED <<device, entry, denied, device_list, driver_list, pit>>
    BY <1>2, Zenon DEF users, boot
  <1>5. UsersOk("uninstall", who, b)'
    BY <1>2, <1>3, KeepUsers, Zenon DEF Taking, Asking
  <1>6. Progress("uninstall", who, v)'
    BY <1>4, Zenon DEF At, Progress, Phases, Asking, Taking, Freeing, Booting
  <1>7. Handled("forget", who, v) /\ DescOk(v)
    BY <1>3, Zenon DEF IrqOk
  <1>8. irq_descs'[v] = NULL /\ \A w \in Vectors \ {v} : irq_descs'[w] = irq_descs[w]
    BY <1>2, <1>3, Zenon DEF TypeOK
  <1>9. TypeOK'
    BY <1>2, <1>4, Zenon DEF TypeOK
  <1>10. IrqOk("uninstall", who, v)'
    <2>1. \A w \in Vectors : DescOk(w)'
      BY <1>3, <1>8, ZenonT(30) DEF IrqOk, DescOk
    <2>2. \A w \in Vectors \ {v} : Owned(w)'
      BY <1>2, <1>3, <1>4, <1>8, SameOwners, Zenon DEF IrqOk, Owned
    <2>3. Handled("uninstall", who, v)'
      BY <1>2, <1>3, <1>4, <1>7, <1>8, SameOwners, Zenon DEF Handled, Taking
    <2>4. \A g \in Gsis : (redir[g].vector = v => redir[g].masked)'
      BY <1>2, <1>3, Zenon DEF IrqOk, Apart
    <2>5. ASSUME NEW g \in Gsis
          PROVE  Ready(g)'
      <3>1. Ready(g)
        BY <1>3, Zenon DEF IrqOk
      <3>2. redir' = redir /\ (redir[g].vector = v => redir[g].masked)
        BY <1>2, <2>4, Zenon
      <3>3. redir[g].vector \in Vectors \ {v} => irq_descs'[redir[g].vector] = irq_descs[redir[g].vector]
        BY <1>8, Zenon
      <3>4. QED
        BY <1>2, <1>4, <3>1, <3>2, <3>3, Zenon DEF Ready
    <2>6. \A g : Live(g)' = Live(g) \ {v}
      BY <1>3, <1>8, Zenon DEF Live
    <2>7. \A g \in Gsis \ shared : Served("uninstall", v, g)'
      <3>1. ASSUME NEW g \in Gsis \ shared
            PROVE  Served("uninstall", v, g)'
        <4>1. Served("forget", v, g)
          BY <1>3, Zenon DEF IrqOk
        <4>2. \A w \in Live(g) : w \in Vectors
          BY Zenon DEF Live
        <4>3. QED
          BY <1>2, <1>8, <2>6, <4>1, <4>2, Zenon DEF Served, Apart, Quiet, Led
      <3>2. QED
        BY <3>1, ZenonT(30)
    <2>8. BootOk("uninstall")'
      BY <1>2, <1>3, <1>4, Zenon DEF IrqOk, BootOk, Booting, Answered, TypeOK
    <2>9. QED
      BY <1>2, <2>1, <2>2, <2>3, <2>4, <2>5, <2>7, <2>8, ZenonT(30) DEF IrqOk
  <1>11. QED
    BY <1>2, <1>4, <1>5, <1>6, <1>9, <1>10, SameBinds, Zenon DEF At, Freeing

LEMMA UninstallStep ==
    ASSUME TypeOK, NEW who, NEW v, NEW b, At("uninstall", who, v, b), Thread
    PROVE  TypeOK' /\ At("bind", NULL, 0, << >>)'
  <1>1. PICK h \in AcpiIrqs : who = Acpi(h) /\ entry[h] = [handler |-> TRUE, irq_vector |-> v]
    BY Zenon DEF At, Progress, Freeing
  <1>2. todo = Then(Step("uninstall", h), << >>) /\ b = << >>
    <2>1. todo = Steps("uninstall", Acpi(h), v, b) /\ b = << >>
      BY <1>1, Zenon DEF At, Freeing
    <2>2. Acpi(h).id = h
      BY Zenon DEF Acpi
    <2>3. QED
      BY <2>1, <2>2, StepsLeft, SMTT(30)
  <1>3. /\ entry' = [entry EXCEPT ![h] = [handler |-> FALSE, irq_vector |-> 0]]
        /\ UNCHANGED <<irq, boot, device_list, driver_list, device, denied, shared>>
        /\ todo' = << >>
    <2>1. Head(todo) = Step("uninstall", h) /\ (Proceed(<< >>) => todo' = << >>)
      BY <1>2, PhaseLists, EmptyList, FirstStep, Zenon
    <2>2. Run(Step("uninstall", h))
      BY <2>1, Zenon DEF Thread
    <2>3. QED
      BY <2>1, <2>2, Zenon DEF Run, Step
  <1>4. /\ v \in Vectors /\ v # 0 /\ v # TimerVector
        /\ IrqOk("uninstall", who, v) /\ UsersOk("uninstall", who, b)
    BY Null, Zenon DEF At, Progress, Taking, Freeing
  <1>5. UNCHANGED <<vector_used, irq_descs, isr, redir, pit>>
    BY <1>3, Zenon DEF irq, boot
  <1>6. TypeOK'
    BY <1>3, <1>5, Zenon DEF TypeOK
  <1>7. /\ entry'[h].handler = FALSE /\ entry'[h].irq_vector = 0
        /\ \A q \in AcpiIrqs \ {h} : entry'[q] = entry[q]
    BY <1>3, Zenon DEF TypeOK
  <1>8. Handled("uninstall", who, v)
    BY <1>4, Zenon DEF IrqOk
  <1>9. \A w \in Vectors \ {v} : Owners(w)' = Owners(w)
    <2>1. ASSUME NEW w \in Vectors \ {v}
          PROVE  DevsOf(w)' = DevsOf(w) /\ AcpisOf(w)' = AcpisOf(w)
      <3>1. DevsOf(w)' = DevsOf(w)
        BY <1>3, Zenon DEF DevsOf
      <3>2. entry[h].irq_vector # w /\ ~entry'[h].handler
        BY <1>1, <1>7, SMTT(30)
      <3>3. \A q \in AcpiIrqs : q \in AcpisOf(w)' <=> q \in AcpisOf(w)
        BY <1>7, <3>2, Zenon DEF AcpisOf
      <3>4. QED
        BY <3>1, <3>3, Zenon DEF AcpisOf
    <2>2. QED
      BY <2>1, SameKinds, Zenon
  <1>10. Owners(v)' = {}
    <2>1. Owners(v) = {Acpi(h)}
      BY <1>1, <1>8, Zenon DEF Handled, Taking
    <2>2. \A d \in DevsOf(v) : Dev(d) \in Owners(v)
      BY OwnersByKind, Zenon
    <2>3. \A d : Dev(d) # Acpi(h)
      BY Zenon DEF Dev, Acpi
    <2>4. DevsOf(v) = {}
      BY <2>1, <2>2, <2>3, Zenon
    <2>5. \A q \in AcpisOf(v) : Acpi(q) \in Owners(v)
      BY OwnersByKind, Zenon
    <2>6. \A q : Acpi(q) = Acpi(h) => q = h
      BY Zenon DEF Acpi
    <2>7. \A q \in AcpisOf(v) : q = h
      BY <2>1, <2>5, <2>6, Zenon
    <2>8. DevsOf(v)' = {}
      BY <1>3, <2>4, Zenon DEF DevsOf
    <2>9. AcpisOf(v)' = {}
      BY <1>7, <2>7, Zenon DEF AcpisOf
    <2>10. Owners(v)' = {Dev(e) : e \in DevsOf(v)'} \cup {Acpi(q) : q \in AcpisOf(v)'}
      BY <1>4, Zenon DEF Owners, DevsOf, AcpisOf
    <2>11. QED
      BY <2>8, <2>9, <2>10, Zenon
  <1>11. UsersOk("bind", NULL, << >>)'
    <2>1. ASSUME NEW e \in Devices
          PROVE  DeviceOk("bind", NULL, e)' /\ Bound(e, << >>)'
      <3>1. DeviceOk("uninstall", who, e) /\ Bound(e, << >>)
        BY <1>2, <1>4, Zenon DEF UsersOk
      <3>2. DeviceOk("bind", NULL, e)'
        BY <1>3, <3>1, Zenon DEF DeviceOk, Waits, Entitled, Asking, Taking
      <3>3. Bound(e, << >>)'
        BY <1>3, <3>1, Zenon DEF Bound
      <3>4. QED
        BY <3>2, <3>3, Zenon
    <2>2. ASSUME NEW q \in AcpiIrqs
          PROVE  EntryOk("bind", NULL, q)'
      <3>1. EntryOk("uninstall", who, q)
        BY <1>4, Zenon DEF UsersOk
      <3>2. QED
        BY <1>7, <3>1, Zenon DEF EntryOk, Waits, Asking, Taking
    <2>3. QED
      BY <2>1, <2>2, Zenon DEF UsersOk
  <1>12. IrqOk("bind", NULL, 0)'
    <2>1. \A w \in Vectors : DescOk(w)'
      BY <1>4, <1>5, Zenon DEF IrqOk, DescOk
    <2>2. \A w \in Vectors \ {v} : Owned(w)'
      BY <1>4, <1>5, <1>9, Zenon DEF IrqOk, Owned
    <2>3. Owned(v)'
      BY <1>5, <1>8, <1>10, Zenon DEF Owned, Handled, Taking
    <2>4. \A g \in Gsis : Ready(g)'
      BY <1>4, <1>5, Zenon DEF IrqOk, Ready
    <2>5. \A g : v \notin Live(g)
      BY <1>8, Zenon DEF Handled, Live
    <2>6. \A g \in Gsis \ shared : Served("bind", 0, g)'
      BY <1>4, <1>5, <2>5, SameLive, Zenon DEF IrqOk, Served, Apart, Quiet, Led
    <2>7. BootOk("bind")'
      BY <1>4, <1>5, Zenon DEF IrqOk, BootOk, Booting, Answered, TypeOK
    <2>8. QED
      BY <1>3, <2>1, <2>2, <2>3, <2>4, <2>6, <2>7, Zenon DEF IrqOk
  <1>13. /\ Progress("bind", NULL, 0)' /\ << >> \in Seq(Binds)'
         /\ todo' = Steps("bind", NULL, 0, << >>)
    BY <1>3, EmptyList, StepsLeft, SMTT(30) DEF Progress, Phases, Asking, Taking, Freeing, Booting
  <1>14. QED
    BY <1>6, <1>11, <1>12, <1>13, Zenon DEF At, Freeing, Booting

-----------------------------------------------------------------------------
\* The timer's vector is never free.
LEMMA TimerUsed ==
    ASSUME NEW v, v # TimerVector, \A w \in Vectors \ {v} : Owned(w)
    PROVE  TimerVector \in vector_used
  <1>1. Owned(TimerVector) /\ NULL \in Owners(TimerVector)
    BY Null, OwnersByKind, Zenon
  <1>2. QED
    BY <1>1, Zenon DEF Owned

\* irq_request takes a vector and describes it, or has none to give.
LEMMA RequestStep ==
    ASSUME TypeOK, NEW who, NEW b, At("request", who, 0, b), Thread
    PROVE  /\ TypeOK'
           /\ \/ At("deny", who, 0, b)'
              \/ \E v \in Vectors : At("register", who, v, b)'
  <1>0. Listed(b) /\ who \in Users /\ b \in Seq(Binds)
    BY AtLists, Zenon DEF At, Progress, Asking
  <1>1. todo = Then(Ask("request", who), b)
    BY StepsLeft, SMTT(30) DEF At
  <1>2. irq_request(who) /\ \A next : Proceed(next) => todo' = next \o b
    <2>1. Head(todo) = Ask("request", who) /\ \A next : Proceed(next) => todo' = next \o b
      BY <1>0, <1>1, FirstStep, Zenon
    <2>2. Run(Ask("request", who))
      BY <2>1, Zenon DEF Thread
    <2>3. QED
      BY <2>1, <2>2, Zenon DEF Run, Ask
  <1>3. IrqOk("request", who, 0) /\ UsersOk("request", who, b)
    BY Zenon DEF At
  <1>4. CASE UNCHANGED <<irq, boot, users, shared>> /\ Proceed(<<Ask("deny", who)>>)
    <2>1. UNCHANGED <<irq, boot, users, shared>> /\ Proceed(<<Ask("deny", who)>>)
      BY <1>4, Zenon
    <2>2. UNCHANGED <<vector_used, irq_descs, isr, redir, pit, device, entry, denied, device_list, driver_list>>
      BY <2>1, Zenon DEF irq, boot, users
    <2>3. TypeOK' /\ UsersOk("deny", who, b)' /\ Binds' = Binds
      BY <1>3, <2>1, <2>2, KeepUsers, SameBinds, Zenon DEF TypeOK, Asking, Taking
    <2>4. IrqOk("deny", who, 0)'
      <3>1. \A w \in Vectors : DescOk(w)' /\ Owned(w)'
        BY <1>3, <2>2, SameOwners, Null, Zenon DEF IrqOk, DescOk, Owned
      <3>2. \A g \in Gsis : Ready(g)'
        BY <1>3, <2>2, ZenonT(30) DEF IrqOk, Ready
      <3>3. \A g \in Gsis \ shared : Served("deny", 0, g)'
        BY <1>3, <2>2, SameLive, Zenon DEF IrqOk, Served, Apart, Quiet, Led
      <3>4. BootOk("deny")'
        BY <1>3, <2>2, Zenon DEF IrqOk, BootOk, Booting, Answered, TypeOK
      <3>5. QED
        BY <2>1, <3>1, <3>2, <3>3, <3>4, Zenon DEF IrqOk
    <2>5. Progress("deny", who, 0)'
      BY <1>0, Zenon DEF Progress, Phases, Asking, Taking, Freeing, Booting
    <2>6. todo' = Steps("deny", who, 0, b)
      <3>1. todo' = Then(Ask("deny", who), b)
        BY <1>2, <2>1, Zenon DEF Then
      <3>2. QED
        BY <3>1, StepsLeft, SMTT(30)
    <2>7. QED
      BY <1>0, <2>3, <2>4, <2>5, <2>6, Zenon DEF At, Freeing, Booting
  <1>5. ASSUME NEW v \in vector_alloc,
               /\ vector_used' = vector_used \cup {v}
               /\ irq_descs' = [irq_descs EXCEPT ![v] =
                     [hwirq |-> LineOf(who), domain |-> "ioapic", who |-> who, enabled |-> TRUE]]
               /\ shared' = shared \cup (IF Live(Gsi(LineOf(who))) = {} THEN {} ELSE {Gsi(LineOf(who))})
               /\ Proceed(Requested(v, who))
               /\ UNCHANGED <<isr, redir, boot, users>>
        PROVE  TypeOK' /\ At("register", who, v, b)'
    <2>1. v \in Vectors /\ v \notin vector_used
      BY Zenon DEF vector_alloc
    <2>2. v \in Vectors /\ v \notin vector_used /\ v # 0 /\ v # TimerVector
      BY <1>3, <2>1, TimerUsed, Null, Zenon DEF IrqOk
    <2>3. PICK g0, D : /\ g0 = Gsi(LineOf(who))
                       /\ D = [hwirq |-> LineOf(who), domain |-> "ioapic", who |-> who, enabled |-> TRUE]
      BY Zenon
    <2>4. /\ vector_used' = vector_used \cup {v} /\ irq_descs' = [irq_descs EXCEPT ![v] = D]
          /\ shared' = shared \cup (IF Live(g0) = {} THEN {} ELSE {g0})
          /\ Proceed(Requested(v, who))
          /\ UNCHANGED <<isr, redir, boot, users>>
      BY <1>5, <2>3, Zenon
    <2>5. UNCHANGED <<pit, device, entry, denied, device_list, driver_list>>
      BY <2>4, Zenon DEF boot, users
    <2>6. /\ D \in Descs /\ D # NULL /\ D.hwirq = LineOf(who) /\ D.domain = "ioapic" /\ D.who = who /\ D.enabled
      <3>1. D \in Descs
        BY <1>0, <2>3, Zenon DEF Descs
      <3>2. QED
        BY <2>3, <3>1, NullAssumption, Zenon
    <2>7. irq_descs'[v] = D /\ \A w \in Vectors \ {v} : irq_descs'[w] = irq_descs[w]
      BY <2>2, <2>4, Zenon DEF TypeOK
    <2>8. TypeOK'
      BY <2>2, <2>4, <2>5, <2>6, Zenon DEF TypeOK
    <2>9. UsersOk("register", who, b)' /\ Binds' = Binds
      BY <1>3, <2>4, <2>5, KeepUsers, SameBinds, Zenon DEF Asking, Taking
    <2>10. Owned(v) /\ irq_descs[v] = NULL /\ \A g : v \notin Live(g)
      BY <1>3, <2>2, Zenon DEF IrqOk, Owned, Live
    <2>11. IrqOk("register", who, v)'
      <3>1. \A w \in Vectors : DescOk(w)'
        BY <1>0, <1>3, <2>2, <2>6, <2>7, ZenonT(30) DEF IrqOk, DescOk
      <3>2. \A w \in Vectors \ {v} : Owned(w)'
        <4>1. \A w \in Vectors : Owned(w)
          BY <1>3, <2>2, Null, Zenon DEF IrqOk
        <4>2. QED
          BY <2>4, <2>5, <2>7, <4>1, SameOwners, Zenon DEF Owned
      <3>3. Handled("register", who, v)'
        BY <2>2, <2>4, <2>5, <2>6, <2>7, <2>10, SameOwners, Zenon DEF Handled, Owned, Taking
      <3>4. \A g \in Gsis : Ready(g)
        BY <1>3, Zenon DEF IrqOk
      <3>5. \A g \in Gsis : redir[g].vector = v => redir[g].masked
        BY <2>2, <2>10, <3>4, Null, ZenonT(30) DEF Ready
      <3>6. \A g \in Gsis : Ready(g)'
        BY <2>4, <2>5, <2>7, <3>4, <3>5, ZenonT(30) DEF Ready
      <3>7. ASSUME NEW g
            PROVE  Live(g)' = IF g = g0 THEN Live(g) \cup {v} ELSE Live(g)
        <4>1. v \in Live(g)' <=> g = g0
          BY <2>2, <2>3, <2>6, <2>7, Zenon DEF Live
        <4>2. v \notin Live(g) /\ \A w : w \in Live(g) \cup Live(g)' => w \in Vectors
          BY <2>10, Zenon DEF Live
        <4>3. \A w \in Vectors \ {v} : w \in Live(g)' <=> w \in Live(g)
          BY <2>7, Zenon DEF Live
        <4>4. PICK L, M : L = Live(g) /\ M = Live(g)'
          BY Zenon
        <4>5. /\ v \in M <=> g = g0
              /\ v \notin L
              /\ \A w : w \in L \/ w \in M => w \in Vectors
              /\ \A w \in Vectors \ {v} : w \in M <=> w \in L
          BY <4>1, <4>2, <4>3, <4>4, Zenon
        <4>6. M = IF g = g0 THEN L \cup {v} ELSE L
          <5>1. CASE g = g0
            <6>1. M = L \cup {v}
              BY <4>5, <5>1, Zenon
            <6>2. QED
              BY <5>1, <6>1, Zenon
          <5>2. CASE g # g0
            <6>1. M = L
              <7>1. \A w : w \in Live(g)' <=> w \in Live(g)
                BY <4>4, <4>5, <5>2, Zenon
              <7>2. Live(g)' = Live(g)
                BY <7>1, Zenon DEF Live
              <7>3. QED
                BY <4>4, <7>2, Zenon
            <6>2. QED
              BY <5>2, <6>1, Zenon
          <5>3. QED
            BY <5>1, <5>2, Zenon
        <4>7. QED
          BY <4>4, <4>6, Zenon
      <3>8. ASSUME NEW g \in Gsis \ shared'
            PROVE  Served("register", v, g)'
        <4>1. Served("request", 0, g) /\ \A w \in Live(g) : w \in Vectors /\ w # v
          BY <1>3, <2>4, <2>10, Zenon DEF IrqOk, Live
        <4>2. CASE g = g0
          <5>1. Live(g) = {} /\ Live(g)' = {v} /\ Quiet(g)
            BY <2>4, <3>7, <4>1, <4>2, Zenon DEF Served
          <5>2. QED
            BY <2>4, <5>1, Zenon DEF Served, Quiet, Apart
        <4>3. CASE g # g0
          <5>1. Live(g)' = Live(g) /\ (Quiet(g)' <=> Quiet(g)) /\ \A w \in Live(g) : Led(g, w)' <=> Led(g, w)
            BY <2>4, <2>7, <3>7, <4>1, <4>3, Zenon DEF Quiet, Led
          <5>2. \A w \in Live(g) : Led(g, w)
            BY <4>1, Zenon DEF Served, Apart
          <5>3. QED
            BY <4>1, <5>1, <5>2, Zenon DEF Served
        <4>4. QED
          BY <4>2, <4>3, Zenon
      <3>9. BootOk("register")'
        BY <1>3, <2>4, <2>5, Zenon DEF IrqOk, BootOk, Booting, Answered, TypeOK
      <3>10. QED
        BY <2>4, <3>1, <3>2, <3>3, <3>5, <3>6, <3>8, <3>9, ZenonT(30) DEF IrqOk
    <2>12. Progress("register", who, v)'
      BY <1>0, <2>2, Zenon DEF Progress, Phases, Asking, Taking, Freeing, Booting
    <2>13. todo' = Steps("register", who, v, b)
      <3>1. todo' = Requested(v, who) \o b
        BY <1>2, <2>4, Zenon
      <3>2. Requested(v, who) = <<Step("register", v), Step("enable", v), GrantOp(v, who)>>
        BY Zenon DEF Requested, GrantOp
      <3>3. todo' = Then(Step("register", v), Then(Step("enable", v), Then(GrantOp(v, who), b)))
        BY <1>0, <3>1, <3>2, ThreeList, SMTT(30)
      <3>4. QED
        BY <3>3, StepsLeft, SMTT(30)
    <2>14. QED
      BY <1>0, <2>2, <2>8, <2>9, <2>11, <2>12, <2>13, Zenon DEF At, Freeing, Booting
  <1>6. QED
    BY <1>2, <1>4, <1>5, Zenon DEF irq_request, vector_alloc, Ask

LEMMA DenyStep ==
    ASSUME TypeOK, NEW who, NEW b, At("deny", who, 0, b), Thread
    PROVE  TypeOK' /\ At("bind", NULL, 0, b)'
  <1>0. Listed(b) /\ who \in Users /\ b \in Seq(Binds)
    BY AtLists, Zenon DEF At, Progress, Asking
  <1>1. todo = Then(Ask("deny", who), b)
    BY StepsLeft, SMTT(30) DEF At
  <1>2. Deny(who) /\ todo' = b
    <2>1. Head(todo) = Ask("deny", who) /\ (Proceed(<< >>) => todo' = b)
      BY <1>0, <1>1, FirstStep, Zenon
    <2>2. Run(Ask("deny", who))
      BY <2>1, Zenon DEF Thread
    <2>3. QED
      BY <2>1, <2>2, Zenon DEF Run, Ask
  <1>3. IrqOk("deny", who, 0) /\ UsersOk("deny", who, b)
    BY Zenon DEF At
  <1>4. UNCHANGED <<vector_used, irq_descs, isr, redir, pit, shared, device, device_list, driver_list>>
    BY <1>2, Zenon DEF Deny, irq, boot
  <1>5. /\ TypeOK' /\ UsersOk("bind", NULL, b)' /\ \A w \in Vectors : AcpisOf(w)' = AcpisOf(w)
    <2>1. CASE \E d \in Devices : who = Dev(d)
      <3>1. PICK d \in Devices : who = Dev(d)
        BY <2>1, Zenon
      <3>2. denied' = denied \cup {d} /\ entry' = entry
        BY <1>2, <3>1, Zenon DEF Deny, Dev
      <3>3. /\ \A h \in AcpiIrqs : Acpi(h) # who
            /\ \A e \in Devices \ {d} : Dev(e) # who
        BY <3>1, Zenon DEF Dev, Acpi
      <3>4. device[d].driver # NULL /\ device[d].irq = 0
        BY <1>3, <3>1, IrqAssumption, NullAssumption, Zenon DEF UsersOk, DeviceOk, Waits, Entitled, Asking
      <3>5. TypeOK'
        BY <1>4, <3>2, Zenon DEF TypeOK
      <3>6. ASSUME NEW e \in Devices
            PROVE  DeviceOk("bind", NULL, e)' /\ Bound(e, b)'
        <4>1. DeviceOk("deny", who, e) /\ Bound(e, b)
          BY <1>3, Zenon DEF UsersOk
        <4>2. DeviceOk("bind", NULL, e)'
          BY <1>4, <3>2, <3>3, <3>4, <4>1, Zenon DEF DeviceOk, Waits, Entitled, Asking, Taking
        <4>3. Bound(e, b)'
          BY <1>4, <4>1, Zenon DEF Bound
        <4>4. QED
          BY <4>2, <4>3, Zenon
      <3>7. \A h \in AcpiIrqs : EntryOk("bind", NULL, h)'
        BY <1>3, <3>2, <3>3, Zenon DEF UsersOk, EntryOk, Waits, Asking, Taking
      <3>8. QED
        BY <3>2, <3>5, <3>6, <3>7, Zenon DEF UsersOk, AcpisOf
    <2>2. CASE \E h \in AcpiIrqs : who = Acpi(h)
      <3>1. PICK h \in AcpiIrqs : who = Acpi(h)
        BY <2>2
      <3>2. entry' = [entry EXCEPT ![h].handler = FALSE] /\ denied' = denied
        BY <1>2, <3>1, Zenon DEF Deny, Acpi
      <3>3. /\ entry[h] = [handler |-> TRUE, irq_vector |-> 0] /\ \A d \in Devices : Dev(d) # who
            /\ \A q \in AcpiIrqs \ {h} : Acpi(q) # who
        BY <1>3, <3>1, Zenon DEF UsersOk, EntryOk, Waits, Asking, Dev, Acpi
      <3>4. TypeOK'
        BY <1>4, <3>2, Zenon DEF TypeOK
      <3>5. /\ entry'[h].handler = FALSE /\ entry'[h].irq_vector = 0
            /\ \A q \in AcpiIrqs \ {h} : entry'[q] = entry[q]
        BY <3>2, <3>3, SMTT(30) DEF TypeOK
      <3>6. ASSUME NEW e \in Devices
            PROVE  DeviceOk("bind", NULL, e)' /\ Bound(e, b)'
        <4>1. DeviceOk("deny", who, e) /\ Bound(e, b)
          BY <1>3, Zenon DEF UsersOk
        <4>2. DeviceOk("bind", NULL, e)'
          BY <1>4, <3>2, <3>3, <4>1, Zenon DEF DeviceOk, Waits, Entitled, Asking, Taking
        <4>3. Bound(e, b)'
          BY <1>4, <4>1, Zenon DEF Bound
        <4>4. QED
          BY <4>2, <4>3, Zenon
      <3>7. ASSUME NEW q \in AcpiIrqs
            PROVE  EntryOk("bind", NULL, q)'
        <4>1. EntryOk("deny", who, q)
          BY <1>3, Zenon DEF UsersOk
        <4>2. QED
          BY <3>3, <3>5, <4>1, Zenon DEF EntryOk, Waits, Asking, Taking
      <3>8. \A w \in Vectors : AcpisOf(w)' = AcpisOf(w)
        BY <3>3, <3>5, Null, SMTT(30) DEF AcpisOf
      <3>9. QED
        BY <3>4, <3>6, <3>7, <3>8, Zenon DEF UsersOk
    <2>3. QED
      BY <1>0, <2>1, <2>2, Zenon DEF Users
  <1>6. \A w \in Vectors : Owners(w)' = Owners(w)
    <2>1. ASSUME NEW w \in Vectors
          PROVE  DevsOf(w)' = DevsOf(w)
      BY <1>4, Zenon DEF DevsOf
    <2>2. QED
      BY <1>5, <2>1, SameKinds, Zenon
  <1>7. IrqOk("bind", NULL, 0)'
    <2>1. \A w \in Vectors : DescOk(w)' /\ Owned(w)'
      BY <1>3, <1>4, <1>6, Null, Zenon DEF IrqOk, DescOk, Owned
    <2>2. \A g \in Gsis : Ready(g)'
      BY <1>3, <1>4, Zenon DEF IrqOk, Ready
    <2>3. \A g \in Gsis \ shared : Served("bind", 0, g)'
      BY <1>3, <1>4, SameLive, Zenon DEF IrqOk, Served, Apart, Quiet, Led
    <2>4. BootOk("bind")'
      BY <1>3, <1>4, Zenon DEF IrqOk, BootOk, Booting, Answered, TypeOK
    <2>5. QED
      BY <1>4, <2>1, <2>2, <2>3, <2>4, Zenon DEF IrqOk
  <1>8. Progress("bind", NULL, 0)' /\ b \in Seq(Binds)' /\ todo' = Steps("bind", NULL, 0, b)
    <2>1. Progress("bind", NULL, 0)'
      BY <1>4, Zenon DEF Progress, Phases, Asking, Taking, Freeing, Booting
    <2>2. b \in Seq(Binds)'
      BY <1>0, <1>4, SameBinds, Zenon
    <2>3. todo' = Steps("bind", NULL, 0, b)
      BY <1>2, <1>4, StepsLeft, SMTT(30)
    <2>4. QED
      BY <2>1, <2>2, <2>3, Zenon
  <1>9. QED
    BY <1>5, <1>7, <1>8, Zenon DEF At, Freeing, Booting

-----------------------------------------------------------------------------
\* The walk of driver_try_bind over the drivers.
Fits(d) == {n \in DOMAIN driver_list : Matches(driver_list[n], d)}
Fit(d) == {drv \in Range(driver_list) : Matches(drv, d)}

First(d) == {driver_list[n] : n \in {m \in Fits(d) : \A k \in Fits(d) : m <= k}}

LEMMA FirstFitFits ==
    ASSUME driver_list \in Seq(Drivers), NEW d
    PROVE  (Fits(d) = {} => Fit(d) = {}) /\ First(d) \subseteq Fit(d)
  BY Zenon DEF Fit, Fits, First, Range

\* What is asked next, and what after.
LEMMA HeadBind ==
    ASSUME TypeOK, NEW b \in Seq(Binds), b # << >>
    PROVE  \E d \in Devices : /\ d \in Range(device_list) /\ Tail(b) \in Seq(Binds)
                              /\ b = Then(Step("bind", d), Tail(b))
                              /\ \A x \in Range(b) : x # Step("bind", d) => x \in Range(Tail(b))
  <1>1. Head(b) \in Binds /\ Tail(b) \in Seq(Binds) /\ b = <<Head(b)>> \o Tail(b)
    BY SMTT(30)
  <1>2. PICK d \in Range(device_list) : Head(b) = Step("bind", d)
    BY <1>1, Zenon DEF Binds
  <1>3. d \in Devices
    BY <1>2, SMTT(30) DEF TypeOK, Range
  <1>4. ASSUME NEW x \in Range(b), x # Head(b)
        PROVE  x \in Range(Tail(b))
    <2>1. PICK i \in 1 .. Len(b) : x = b[i]
      BY DEF Range
    <2>2. i # 1
      BY <1>4, <2>1, SMTT(30)
    <2>3. i - 1 \in DOMAIN Tail(b) /\ Tail(b)[i - 1] = b[i]
      BY <2>1, <2>2, SMTT(30)
    <2>4. QED
      BY <2>1, <2>3, Zenon DEF Range
  <1>5. QED
    BY <1>1, <1>2, <1>3, <1>4, Zenon DEF Then

\* A step that changes nothing that is said of vectors and lines.
LEMMA KeepIrq ==
    ASSUME TypeOK, NEW ph, NEW ph2, NEW who, NEW who2, IrqOk(ph, who, 0),
           UNCHANGED <<vector_used, irq_descs, isr, redir, pit, shared, entry>>,
           \A w \in Vectors : DevsOf(w)' = DevsOf(w),
           ph \notin Booting, ph2 \notin Booting
    PROVE  IrqOk(ph2, who2, 0)'
  <1>1. \A w \in Vectors : Owners(w)' = Owners(w)
    BY SameKinds, Zenon DEF AcpisOf
  <1>2. \A w \in Vectors : DescOk(w)' /\ Owned(w)'
    BY <1>1, Null, Zenon DEF IrqOk, DescOk, Owned
  <1>3. \A g \in Gsis : Ready(g)'
    BY Zenon DEF IrqOk, Ready
  <1>4. \A g \in Gsis \ shared : Served(ph2, 0, g)'
    <2>1. \A g : 0 \notin Live(g)
      BY Null, Zenon DEF Live
    <2>2. QED
      BY <2>1, SameLive, SMTT(30) DEF IrqOk, Served, Quiet, Led
  <1>5. BootOk(ph2)'
    BY BootKept, Zenon DEF IrqOk
  <1>6. QED
    BY <1>2, <1>3, <1>4, <1>5, Zenon DEF IrqOk

\* driver_try_bind asks one device.
LEMMA BindStep ==
    ASSUME TypeOK, NEW b, At("bind", NULL, 0, b), b # << >>, Thread
    PROVE  /\ TypeOK'
           /\ \/ At("bind", NULL, 0, Tail(b))'
              \/ \E who \in Users : At("request", who, 0, Tail(b))'
  <1>1. PICK c : c = Tail(b)
    BY Zenon
  <1>2. PICK d \in Devices : /\ d \in Range(device_list) /\ c \in Seq(Binds)
                             /\ b = Then(Step("bind", d), c)
                             /\ \A x \in Range(b) : x # Step("bind", d) => x \in Range(c)
    BY <1>1, HeadBind, Zenon DEF At
  <1>3. Listed(c) /\ todo = Then(Step("bind", d), c)
    BY <1>2, StepsLeft, SMTT(30) DEF Listed, At
  <1>4. /\ driver_try_bind(d) /\ (Proceed(<< >>) => todo' = c)
        /\ \A a : Proceed(<<a>>) => todo' = Then(a, c)
    <2>1. /\ Head(todo) = Step("bind", d) /\ (Proceed(<< >>) => todo' = c)
          /\ \A a : Proceed(<<a>>) => todo' = Then(a, c)
      BY <1>3, FirstStep, Zenon
    <2>2. Run(Step("bind", d))
      BY <2>1, Zenon DEF Thread
    <2>3. QED
      BY <2>1, <2>2, Zenon DEF Run, Step
  <1>5. IrqOk("bind", NULL, 0) /\ UsersOk("bind", NULL, b)
    BY Zenon DEF At
  <1>6. (Fits(d) = {} => Fit(d) = {}) /\ First(d) \subseteq Fit(d)
    BY FirstFitFits, Zenon DEF TypeOK
  <1>7. ASSUME NEW e \in Devices, e # d, Bound(e, b)
        PROVE  Bound(e, c)
    <2>1. Step("bind", e) # Step("bind", d)
      BY <1>7, Zenon DEF Step
    <2>2. QED
      BY <1>2, <1>7, <2>1, Zenon DEF Bound
  <1>8. CASE device[d].driver # NULL \/ Fits(d) = {}
    <2>1. Proceed(<< >>) /\ UNCHANGED <<irq, boot, users, shared>>
      BY <1>4, <1>8, Zenon DEF driver_try_bind, Fits
    <2>2. UNCHANGED <<vector_used, irq_descs, isr, redir, pit, device, entry, denied, device_list, driver_list>>
      BY <2>1, Zenon DEF irq, boot, users
    <2>3. TypeOK' /\ Binds' = Binds
      BY <2>2, SameBinds, Zenon DEF TypeOK
    <2>4. IrqOk("bind", NULL, 0)'
      BY <1>5, <2>1, <2>2, KeepIrq, Zenon DEF DevsOf, Booting
    <2>5. Bound(d, c)
      BY <1>5, <1>6, <1>8, Zenon DEF UsersOk, Bound, Fit
    <2>6. UsersOk("bind", NULL, c)
      BY <1>5, <1>7, <2>5, Zenon DEF UsersOk
    <2>7. UsersOk("bind", NULL, c)'
      BY <2>1, <2>6, KeepUsers, Zenon
    <2>8. Progress("bind", NULL, 0)' /\ todo' = Steps("bind", NULL, 0, c)
      BY <1>4, <2>1, StepsLeft, SMTT(30) DEF Progress, Phases, Asking, Taking, Freeing, Booting
    <2>9. QED
      BY <1>1, <1>2, <2>3, <2>4, <2>7, <2>8, Zenon DEF At, Freeing, Booting
  <1>9. CASE device[d].driver = NULL /\ Fits(d) # {}
    <2>1. PICK drv \in First(d) :
             /\ device' = [device EXCEPT ![d].driver = drv]
             /\ Proceed(IF drv \in Handling /\ Line[d] # NULL
                        THEN <<Ask("request", Dev(d))>> ELSE << >>)
             /\ UNCHANGED <<irq, boot, entry, device_list, driver_list, denied, shared>>
      BY <1>4, <1>9, Zenon DEF driver_try_bind, Fits, First, Ask
    <2>2. drv \in Fit(d) /\ drv \in Drivers /\ drv # NULL
      BY <1>6, <1>9, <2>1, NullAssumption, SMTT(30) DEF Fit, Range, TypeOK
    <2>3. /\ device' = [device EXCEPT ![d].driver = drv]
          /\ Proceed(IF drv \in Handling /\ Line[d] # NULL
                     THEN <<Ask("request", Dev(d))>> ELSE << >>)
          /\ UNCHANGED <<irq, boot, entry, device_list, driver_list, denied, shared>>
      BY <2>1, Zenon
    <2>4. UNCHANGED <<vector_used, irq_descs, isr, redir, pit>>
      BY <2>3, Zenon DEF irq, boot
    <2>5. /\ device'[d].driver = drv /\ device'[d].irq = device[d].irq
          /\ \A e \in Devices \ {d} : device'[e] = device[e]
      BY <2>3, Zenon DEF TypeOK
    <2>6. TypeOK' /\ Binds' = Binds
      BY <2>2, <2>3, <2>4, SameBinds, ZenonT(30) DEF TypeOK
    <2>7. \A who : \A ph \in {"bind", "request"} : IrqOk(ph, who, 0)'
      BY <1>5, <2>3, <2>4, <2>5, KeepIrq, ZenonT(30) DEF DevsOf, Booting
    <2>8. device[d].irq = 0 /\ d \notin denied
      <3>1. DeviceOk("bind", NULL, d)
        BY <1>5, Zenon DEF UsersOk
      <3>2. QED
        BY <1>9, <3>1, IrqAssumption, NullAssumption, Zenon DEF DeviceOk, Waits, Entitled, Asking, Taking
    <2>9. \A e \in Devices : Bound(e, c)'
      <3>1. Bound(d, c)'
        BY <1>2, <2>2, <2>3, <2>5, Zenon DEF Bound, Fit
      <3>2. ASSUME NEW e \in Devices \ {d}
            PROVE  Bound(e, c)'
        <4>1. Bound(e, c)
          BY <1>5, <1>7, Zenon DEF UsersOk
        <4>2. QED
          BY <2>3, <2>5, <4>1, Zenon DEF Bound
      <3>3. QED
        BY <3>1, <3>2, Zenon
    <2>10. PICK ph, who : /\ IF drv \in Handling /\ Line[d] # NULL THEN ph = "request" /\ who = Dev(d)
                             ELSE ph = "bind" /\ who = NULL
      BY Zenon
    <2>11. \A e \in Devices : DeviceOk(ph, who, e)'
      <3>1. ASSUME NEW e \in Devices
            PROVE  DeviceOk(ph, who, e)'
        <4>1. DeviceOk("bind", NULL, e)
          BY <1>5, Zenon DEF UsersOk
        <4>2. e # d => Dev(e) # Dev(d)
          BY Zenon DEF Dev
        <4>3. QED
          BY <2>2, <2>3, <2>5, <2>8, <2>10, <4>1, <4>2, Zenon DEF DeviceOk, Waits, Entitled, Asking, Taking
      <3>2. QED
        BY <3>1, Zenon
    <2>12. \A h \in AcpiIrqs : EntryOk(ph, who, h)'
      <3>1. \A h : Acpi(h) # Dev(d)
        BY Zenon DEF Acpi, Dev
      <3>2. \A h \in AcpiIrqs : EntryOk("bind", NULL, h)
        BY <1>5, Zenon DEF UsersOk
      <3>3. QED
        BY <2>3, <2>10, <3>1, <3>2, Zenon DEF EntryOk, Waits, Asking, Taking
    <2>13. UsersOk(ph, who, c)' /\ IrqOk(ph, who, 0)'
      BY <2>7, <2>9, <2>10, <2>11, <2>12, Zenon DEF UsersOk
    <2>14. /\ Progress(ph, who, 0)' /\ todo' = Steps(ph, who, 0, c)
           /\ (ph = "bind" /\ who = NULL) \/ (ph = "request" /\ who \in Users)
      BY <1>4, <2>3, <2>10, StepsLeft, SMTT(30) DEF Progress, Phases, Asking, Taking, Freeing, Booting, Users
    <2>15. At(ph, who, 0, c)'
      BY <1>2, <2>6, <2>13, <2>14, Zenon DEF At, Freeing, Booting
    <2>16. QED
      BY <1>1, <2>6, <2>14, <2>15, Zenon
  <1>10. QED
    BY <1>8, <1>9, Zenon

-----------------------------------------------------------------------------
LEMMA BootProgress ==
    \A ph \in Booting \cup {"bind"} : Progress(ph, NULL, 0)' /\ << >> \in Seq(Binds)'
  BY SMTT(30) DEF Progress, Phases, Asking, Taking, Freeing, Booting

\* lapic_timer_init has the lines for itself: all it has to keep is that a line
\* leads nowhere or to the handler of the calibration.
LEMMA BootKeeps ==
    ASSUME TypeOK, NEW ph \in Booting, NEW ph2 \in Booting \cup {"bind"}, At(ph, NULL, 0, << >>),
           UNCHANGED <<vector_used, irq_descs, shared>>, UNCHANGED users,
           isr' \in [Vectors \cup {CAL_VECTOR} -> {NULL, "irq", "pit"}],
           \A w \in Vectors : isr'[w] = isr[w],
           redir' \in [Gsis -> [vector : Vectors \cup {CAL_VECTOR}, masked : BOOLEAN]],
           \A g \in Gsis : redir'[g] = redir[g] \/ redir'[g].masked \/ redir'[g].vector = CAL_VECTOR,
           \A g \in Gsis : redir'[g].masked \/ g = Gsi(0),
           ph2 \in {"route", "await", "uncalibrate"} => isr'[CAL_VECTOR] = "pit",
           ph2 # "mask" => isr'[CAL_VECTOR] = "pit" \/ \A g \in Gsis : redir'[g].masked,
           todo' = Steps(ph2, NULL, 0, << >>)
    PROVE  TypeOK' /\ At(ph2, NULL, 0, << >>)'
  <1>1. UNCHANGED <<device, entry, denied, device_list, driver_list>>
    BY Zenon DEF users
  <1>2. IrqOk(ph, NULL, 0) /\ UsersOk(ph, NULL, << >>)
    BY Zenon DEF At
  <1>3. TypeOK' /\ Binds' = Binds
    BY <1>1, SameBinds, Zenon DEF TypeOK
  <1>4. UsersOk(ph2, NULL, << >>)'
    BY <1>2, KeepUsers, Zenon DEF Booting, Asking, Taking
  <1>5. \A w \in Vectors \ {TimerVector} : irq_descs[w] = NULL
    BY <1>2, Zenon DEF IrqOk, BootOk
  <1>6. \A g : Live(g) = {}
    <2>1. DescOk(TimerVector)
      BY <1>2, Null, Zenon DEF IrqOk
    <2>2. QED
      BY <1>5, <2>1, Zenon DEF Live, DescOk
  <1>7. IrqOk(ph2, NULL, 0)'
    <2>1. \A w \in Vectors : DescOk(w)' /\ Owned(w)'
      BY <1>1, <1>2, SameOwners, Null, ZenonT(30) DEF IrqOk, DescOk, Owned
    <2>2. ASSUME NEW g \in Gsis
          PROVE  Ready(g)' /\ Quiet(g)'
      <3>1. Ready(g)
        BY <1>2, Zenon DEF IrqOk
      <3>2. redir[g].masked \/ redir[g].vector = CAL_VECTOR
        BY <1>5, <3>1, Zenon DEF Ready
      <3>3. redir'[g].masked \/ redir'[g].vector = CAL_VECTOR
        BY <3>2, Zenon
      <3>4. QED
        BY <3>3, Zenon DEF Ready, Quiet
    <2>3. \A g \in Gsis \ shared : Served(ph2, 0, g)'
      BY <1>6, <2>2, SameLive, Zenon DEF Served
    <2>4. BootOk(ph2)'
      BY <1>5, Zenon DEF BootOk, Answered
    <2>5. QED
      BY <2>1, <2>2, <2>3, <2>4, ZenonT(30) DEF IrqOk
  <1>8. Progress(ph2, NULL, 0)' /\ << >> \in Seq(Binds)'
    BY BootProgress, Zenon
  <1>9. QED
    BY <1>3, <1>4, <1>7, <1>8, Zenon DEF At

\* What is left at each point of the calibration.
LEMMA BootSteps ==
    ASSUME NEW ph \in Booting, At(ph, NULL, 0, << >>), Thread
    PROVE  \E op, s : /\ todo = Then(op, s) /\ Run(op) /\ (Proceed(<< >>) => todo' = s)
                      /\ \A a : Proceed(<<a>>) => todo' = Then(a, s)
                      /\ \A a, c : Proceed(<<a, c>>) => todo' = <<a, c>> \o s
                      /\ ph = "calibrate" => op = Step("calibrate", NULL) /\ s = << >>
                      /\ ph = "route" => op = Step("route", 0) /\ s = << >>
                      /\ ph = "await" => op = Step("await", NULL) /\ s = << >>
                      /\ ph = "uncalibrate" => op = Step("unregister", CAL_VECTOR)
                                               /\ s = Then(Step("mask", 0), << >>)
                      /\ ph = "mask" => op = Step("mask", 0) /\ s = << >>
  <1>1. PICK op, s : /\ todo = Then(op, s) /\ s \in {<< >>, Then(Step("mask", 0), << >>)}
                     /\ ph = "calibrate" => op = Step("calibrate", NULL) /\ s = << >>
                     /\ ph = "route" => op = Step("route", 0) /\ s = << >>
                     /\ ph = "await" => op = Step("await", NULL) /\ s = << >>
                     /\ ph = "uncalibrate" => op = Step("unregister", CAL_VECTOR)
                                              /\ s = Then(Step("mask", 0), << >>)
                     /\ ph = "mask" => op = Step("mask", 0) /\ s = << >>
    BY StepsLeft, SMTT(30) DEF At, Booting
  <1>2. Listed(s)
    BY <1>1, EmptyList, ThenList, ZenonT(30)
  <1>3. /\ Head(todo) = op /\ \A next : Proceed(next) => todo' = next \o s
        /\ Proceed(<< >>) => todo' = s
        /\ \A a : Proceed(<<a>>) => todo' = Then(a, s)
    BY <1>1, <1>2, FirstStep, Zenon
  <1>4. QED
    BY <1>1, <1>3, Zenon DEF Thread

LEMMA BootStep ==
    ASSUME TypeOK, NEW ph \in Booting, At(ph, NULL, 0, << >>), Thread
    PROVE  TypeOK' /\ \E ph2 \in Booting \cup {"bind"} : At(ph2, NULL, 0, << >>)'
  <1>1. PICK op, s : /\ todo = Then(op, s) /\ Run(op) /\ (Proceed(<< >>) => todo' = s)
                     /\ \A a : Proceed(<<a>>) => todo' = Then(a, s)
                     /\ \A a, c : Proceed(<<a, c>>) => todo' = <<a, c>> \o s
                     /\ ph = "calibrate" => op = Step("calibrate", NULL) /\ s = << >>
                     /\ ph = "route" => op = Step("route", 0) /\ s = << >>
                     /\ ph = "await" => op = Step("await", NULL) /\ s = << >>
                     /\ ph = "uncalibrate" => op = Step("unregister", CAL_VECTOR)
                                              /\ s = Then(Step("mask", 0), << >>)
                     /\ ph = "mask" => op = Step("mask", 0) /\ s = << >>
    BY BootSteps, Zenon
  <1>2. \A g \in Gsis : redir[g].masked \/ g = Gsi(0)
    BY Zenon DEF At, IrqOk, BootOk
  <1>9. ph \in {"route", "await", "uncalibrate"} => isr[CAL_VECTOR] = "pit"
    BY Zenon DEF At, IrqOk, BootOk
  <1>3. CASE ph = "calibrate"
    <2>1. /\ isr' = [isr EXCEPT ![CAL_VECTOR] = "pit"] /\ todo' = Then(Step("route", 0), << >>)
          /\ UNCHANGED <<vector_used, irq_descs, redir, boot, users, shared>>
      <3>1. Run(Step("calibrate", NULL)) /\ s = << >> /\ \A a : Proceed(<<a>>) => todo' = Then(a, s)
        BY <1>1, <1>3, Zenon
      <3>2. QED
        BY <3>1, Zenon DEF Run, Step, Handler
    <2>3. /\ isr' \in [Vectors \cup {CAL_VECTOR} -> {NULL, "irq", "pit"}]
          /\ \A w \in Vectors : isr'[w] = isr[w]
          /\ isr'[CAL_VECTOR] = "pit"
      BY <2>1, Null, Zenon DEF TypeOK
    <2>4. TypeOK' /\ At("route", NULL, 0, << >>)'
      <3>1. todo' = Steps("route", NULL, 0, << >>)
        BY <2>1, StepsLeft, SMTT(30)
      <3>2. "route" \in Booting /\ redir \in [Gsis -> [vector : Vectors \cup {CAL_VECTOR}, masked : BOOLEAN]]
        BY Zenon DEF TypeOK, Booting
      <3>3. QED
        BY <1>2, <2>1, <2>3, <3>1, <3>2, BootKeeps, ZenonT(30)
    <2>5. QED
      BY <2>4, Zenon DEF Booting
  <1>4. CASE ph = "route"
    <2>1. /\ redir' = Routed(0, CAL_VECTOR) /\ todo' = Then(Step("await", NULL), << >>)
          /\ UNCHANGED <<vector_used, irq_descs, isr, users, shared>>
      <3>1. Run(Step("route", 0)) /\ s = << >> /\ \A a : Proceed(<<a>>) => todo' = Then(a, s)
        BY <1>1, <1>4, Zenon
      <3>2. QED
        BY <3>1, Zenon DEF Run, Step, apic_route_irq
    <2>2. isr[CAL_VECTOR] = "pit"
      BY <1>4, <1>9, Zenon
    <2>3. /\ redir' \in [Gsis -> [vector : Vectors \cup {CAL_VECTOR}, masked : BOOLEAN]]
          /\ \A g \in Gsis : redir'[g] = redir[g] \/ redir'[g].vector = CAL_VECTOR
          /\ \A g \in Gsis \ {Gsi(0)} : redir'[g] = redir[g]
      BY <2>1, Zenon DEF Routed, TypeOK
    <2>4. TypeOK' /\ At("await", NULL, 0, << >>)'
      <3>1. todo' = Steps("await", NULL, 0, << >>)
        BY <2>1, StepsLeft, SMTT(30)
      <3>2. "await" \in Booting /\ isr \in [Vectors \cup {CAL_VECTOR} -> {NULL, "irq", "pit"}]
        BY Zenon DEF TypeOK, Booting
      <3>3. QED
        BY <1>2, <2>1, <2>2, <2>3, <3>1, <3>2, BootKeeps, ZenonT(30)
    <2>5. QED
      BY <2>4, Zenon DEF Booting
  <1>5. CASE ph = "await"
    <2>1. Calibrated
      <3>1. Run(Step("await", NULL))
        BY <1>1, <1>5, Zenon
      <3>2. QED
        BY <3>1, Zenon DEF Run, Step
    <2>2. PICK ph2 \in {"bind", "uncalibrate"} : todo' = Steps(ph2, NULL, 0, << >>)
      <3>1. CASE ticks = 0
        <4>1. todo' = << >>
          BY <1>1, <1>5, <2>1, <3>1, ZenonT(30) DEF Calibrated
        <4>2. QED
          BY <4>1, StepsLeft, SMTT(30)
      <3>2. CASE ticks # 0
        <4>1. todo' = <<Step("unregister", CAL_VECTOR), Step("mask", 0)>> \o << >>
          BY <1>1, <1>5, <2>1, <3>2, Zenon DEF Calibrated
        <4>2. <<Step("unregister", CAL_VECTOR), Step("mask", 0)>> \o << >>
                 = <<Step("unregister", CAL_VECTOR), Step("mask", 0)>>
          OBVIOUS
        <4>3. QED
          BY <4>1, <4>2, Tuple1, Tuple2, StepsLeft, SMTT(30)
      <3>3. QED
        BY <3>1, <3>2, Zenon
    <2>3. /\ UNCHANGED <<vector_used, irq_descs, isr, redir, shared>> /\ UNCHANGED users
          /\ isr[CAL_VECTOR] = "pit"
      BY <1>5, <1>9, <2>1, Zenon DEF Calibrated, irq
    <2>4. TypeOK' /\ At(ph2, NULL, 0, << >>)'
      <3>1. ph2 \in Booting \cup {"bind"} /\ ph2 \notin {"route", "await"}
        BY <2>2, Zenon DEF Booting
      <3>2. /\ redir \in [Gsis -> [vector : Vectors \cup {CAL_VECTOR}, masked : BOOLEAN]]
            /\ isr \in [Vectors \cup {CAL_VECTOR} -> {NULL, "irq", "pit"}]
        BY Zenon DEF TypeOK
      <3>3. QED
        BY <1>2, <2>2, <2>3, <3>1, <3>2, BootKeeps, ZenonT(30)
    <2>5. QED
      BY <2>2, <2>4, Zenon DEF Booting
  <1>6. CASE ph = "uncalibrate"
    <2>1. /\ isr' = [isr EXCEPT ![CAL_VECTOR] = NULL] /\ todo' = Then(Step("mask", 0), << >>)
          /\ UNCHANGED <<vector_used, irq_descs, redir, boot, users, shared>>
      <3>1. /\ Run(Step("unregister", CAL_VECTOR)) /\ s = Then(Step("mask", 0), << >>)
            /\ Proceed(<< >>) => todo' = s
        BY <1>1, <1>6, Zenon
      <3>2. QED
        BY <3>1, Zenon DEF Run, Step, Handler
    <2>3. /\ isr' \in [Vectors \cup {CAL_VECTOR} -> {NULL, "irq", "pit"}]
          /\ \A w \in Vectors : isr'[w] = isr[w]
      BY <2>1, Null, Zenon DEF TypeOK
    <2>4. TypeOK' /\ At("mask", NULL, 0, << >>)'
      <3>1. todo' = Steps("mask", NULL, 0, << >>)
        BY <2>1, StepsLeft, SMTT(30)
      <3>2. "mask" \in Booting /\ redir \in [Gsis -> [vector : Vectors \cup {CAL_VECTOR}, masked : BOOLEAN]]
        BY Zenon DEF TypeOK, Booting
      <3>3. QED
        BY <1>2, <2>1, <2>3, <3>1, <3>2, BootKeeps, ZenonT(30)
    <2>5. QED
      BY <2>4, Zenon DEF Booting
  <1>7. CASE ph = "mask"
    <2>1. /\ redir' = Masked(0) /\ todo' = << >>
          /\ UNCHANGED <<vector_used, irq_descs, isr, boot, users, shared>>
      <3>1. Run(Step("mask", 0)) /\ s = << >> /\ (Proceed(<< >>) => todo' = s)
        BY <1>1, <1>7, Zenon
      <3>2. QED
        BY <3>1, Zenon DEF Run, Step, Redirect, apic_mask_irq
    <2>3. /\ redir' \in [Gsis -> [vector : Vectors \cup {CAL_VECTOR}, masked : BOOLEAN]]
          /\ \A g \in Gsis : redir'[g] = redir[g] \/ redir'[g].masked
          /\ \A g \in Gsis : redir'[g].masked
      <3>1. CASE Gsi(0) \in Gsis
        <4>1. redir' = [redir EXCEPT ![Gsi(0)].masked = TRUE]
          BY <2>1, <3>1, Zenon DEF Masked
        <4>2. QED
          BY <1>2, <3>1, <4>1, ZenonT(30) DEF TypeOK
      <3>2. CASE Gsi(0) \notin Gsis
        BY <1>2, <2>1, <3>2, Zenon DEF Masked, TypeOK
      <3>3. QED
        BY <3>1, <3>2, Zenon
    <2>4. TypeOK' /\ At("bind", NULL, 0, << >>)'
      <3>1. todo' = Steps("bind", NULL, 0, << >>)
        BY <2>1, StepsLeft, SMTT(30)
      <3>2. "bind" \in Booting \cup {"bind"} /\ isr \in [Vectors \cup {CAL_VECTOR} -> {NULL, "irq", "pit"}]
        BY Zenon DEF TypeOK
      <3>3. QED
        BY <1>2, <2>1, <2>3, <3>1, <3>2, BootKeeps, ZenonT(30)
    <2>5. QED
      BY <2>4, Zenon
  <1>8. QED
    BY <1>3, <1>4, <1>5, <1>6, <1>7, Zenon DEF Booting

-----------------------------------------------------------------------------
\* The calls start when nothing is left of the last one.
LEMMA Idle ==
    ASSUME NEW ph, NEW who, NEW v, NEW b, At(ph, who, v, b), todo = << >>
    PROVE  ph = "bind" /\ who = NULL /\ v = 0 /\ b = << >>
  <1>1. Listed(b)
    BY AtLists, Zenon
  <1>2. \A op, s : Listed(s) => Then(op, s) # << >>
    BY ThenList, Zenon
  <1>3. ph \in Phases /\ todo = Steps(ph, who, v, b)
    BY Zenon DEF At, Progress
  <1>4. ph \notin Asking
    BY <1>1, <1>2, <1>3, StepsLeft, SMTT(30) DEF Asking
  <1>5. ph \notin Taking
    <2>1. ph = "register" => todo = Then(Step("register", v), Steps("enable", who, v, b))
      BY <1>3, StepsLeft, SMTT(30)
    <2>2. ph = "enable" => todo = Then(Step("enable", v), Steps("grant", who, v, b))
      BY <1>3, StepsLeft, SMTT(30)
    <2>3. ph = "grant" => todo = Then(GrantOp(v, who), b)
      BY <1>3, StepsLeft, SMTT(30)
    <2>4. QED
      BY <1>1, <1>2, <2>1, <2>2, <2>3, PhaseLists, Zenon DEF Taking
  <1>6. ph \notin Freeing
    <2>1. ph = "disable" => todo = Then(Step("disable", v), Steps("release", who, v, b))
      BY <1>3, StepsLeft, SMTT(30)
    <2>2. ph = "release" => todo = Then(Step("release", v), Steps("unregister", who, v, b))
      BY <1>3, StepsLeft, SMTT(30)
    <2>3. ph = "unregister" => todo = Then(Step("unregister", v), Steps("forget", who, v, b))
      BY <1>3, StepsLeft, SMTT(30)
    <2>4. ph = "forget" => todo = Then(Step("forget", v), Steps("uninstall", who, v, b))
      BY <1>3, StepsLeft, SMTT(30)
    <2>5. ph = "uninstall" => todo = Then(Step("uninstall", who.id), << >>)
      BY <1>3, StepsLeft, SMTT(30)
    <2>6. QED
      BY <1>1, <1>2, <2>1, <2>2, <2>3, <2>4, <2>5, PhaseLists, Zenon DEF Freeing
  <1>7. ph \notin Booting
    <2>1. ph = "uncalibrate" => todo = Then(Step("unregister", CAL_VECTOR), Steps("mask", who, v, b))
      BY <1>3, StepsLeft, SMTT(30)
    <2>2. ph \in Booting \ {"uncalibrate"} => \E op : todo = Then(op, << >>)
      BY <1>3, StepsLeft, SMTT(30) DEF Booting
    <2>3. QED
      BY <1>1, <1>2, <2>1, <2>2, PhaseLists, Zenon
  <1>8. ph = "bind"
    BY <1>3, <1>4, <1>5, <1>6, <1>7, Zenon DEF Phases
  <1>9. Steps("bind", who, v, b) = b
    BY StepsLeft, SMTT(30)
  <1>10. QED
    BY <1>3, <1>8, <1>9, Zenon DEF At, Progress, Taking, Freeing

LEMMA RegisterDriver ==
    ASSUME TypeOK, At("bind", NULL, 0, << >>), NEW drv \in Drivers, driver_register(drv)
    PROVE  TypeOK' /\ At("bind", NULL, 0, BindAll)'
  <1>1. /\ driver_list' = <<drv>> \o driver_list /\ todo' = BindAll
        /\ UNCHANGED <<device_list, device, entry, denied, shared>>
        /\ UNCHANGED <<vector_used, irq_descs, isr, redir, pit>>
    BY Zenon DEF driver_register, irq, boot
  <1>2. /\ IrqOk("bind", NULL, 0) /\ UsersOk("bind", NULL, << >>)
    BY Zenon DEF At
  <1>3. driver_list' \in Seq(Drivers) /\ \A x : x \in Range(driver_list) => x \in Range(driver_list)'
    <2>1. driver_list \in Seq(Drivers) /\ driver_list' = Pushed(driver_list, drv)
      BY <1>1, Zenon DEF TypeOK, Pushed
    <2>2. driver_list' \in Seq(Drivers) /\ Range(driver_list') = Range(driver_list) \cup {drv}
      BY <2>1, PushList, ZenonT(30)
    <2>3. QED
      BY <2>2, Zenon
  <1>4. TypeOK' /\ Binds' = Binds
    BY <1>1, <1>3, SameBinds, Zenon DEF TypeOK
  <1>5. BindAll \in Seq(Binds) /\ \A d \in Range(device_list) : Step("bind", d) \in Range(BindAll)
    <2>1. /\ BindAll = [i \in 1 .. Len(device_list) |-> Step("bind", device_list[i])]
          /\ Len(device_list) \in Nat /\ DOMAIN device_list = 1 .. Len(device_list)
      BY SMTT(30) DEF BindAll, TypeOK
    <2>2. \A i \in 1 .. Len(device_list) : Step("bind", device_list[i]) \in Binds
      BY <2>1, Zenon DEF Binds, Range
    <2>3. BindAll \in Seq(Binds)
      BY <2>1, <2>2, SMTT(30)
    <2>4. QED
      BY <2>1, <2>3, Zenon DEF Range
  <1>6. IrqOk("bind", NULL, 0)'
    BY <1>1, <1>2, KeepIrq, Zenon DEF DevsOf, Booting
  <1>7. PICK c : c = BindAll
    BY Zenon
  <1>8. UsersOk("bind", NULL, c)'
    <2>1. ASSUME NEW d \in Devices
          PROVE  DeviceOk("bind", NULL, d)' /\ Bound(d, c)'
      <3>1. DeviceOk("bind", NULL, d) /\ Bound(d, << >>)
        BY <1>2, Zenon DEF UsersOk
      <3>2. DeviceOk("bind", NULL, d)'
        BY <1>1, <3>1, Zenon DEF DeviceOk, Waits, Entitled
      <3>3. Bound(d, c)'
        BY <1>1, <1>3, <1>5, <1>7, <3>1, Zenon DEF Bound
      <3>4. QED
        BY <3>2, <3>3, Zenon
    <2>2. \A h \in AcpiIrqs : EntryOk("bind", NULL, h)'
      BY <1>1, <1>2, Zenon DEF UsersOk, EntryOk, Waits
    <2>3. QED
      BY <2>1, <2>2, Zenon DEF UsersOk
  <1>9. Progress("bind", NULL, 0)'
    BY BootProgress, Zenon
  <1>10. At("bind", NULL, 0, c)'
    BY <1>1, <1>4, <1>5, <1>6, <1>7, <1>8, <1>9, BindSteps, Zenon DEF At, Freeing, Booting
  <1>11. BindAll' = c
    BY <1>1, <1>7, ZenonT(30) DEF BindAll
  <1>12. QED
    BY <1>4, <1>10, <1>11, Zenon

LEMMA AddDevice ==
    ASSUME TypeOK, At("bind", NULL, 0, << >>), NEW d \in Devices, pci_create_device(d)
    PROVE  TypeOK' /\ At("bind", NULL, 0, <<Step("bind", d)>>)'
  <1>1. /\ device_list' = <<d>> \o device_list /\ todo' = <<Step("bind", d)>> /\ d \notin Range(device_list)
        /\ UNCHANGED <<driver_list, device, entry, denied, shared>>
        /\ UNCHANGED <<vector_used, irq_descs, isr, redir, pit>>
    BY Zenon DEF pci_create_device, bus_device_add, irq, boot
  <1>2. /\ IrqOk("bind", NULL, 0) /\ UsersOk("bind", NULL, << >>)
    BY DEF At
  <1>3. device_list' \in Seq(Devices) /\ Range(device_list)' = Range(device_list) \cup {d}
    <2>1. device_list \in Seq(Devices) /\ device_list' = Pushed(device_list, d)
      BY <1>1, Zenon DEF TypeOK, Pushed
    <2>2. QED
      BY <2>1, PushList, ZenonT(30)
  <1>4. TypeOK'
    BY <1>1, <1>3, Zenon DEF TypeOK
  <1>5. /\ <<Step("bind", d)>> \in Seq(Binds)'
        /\ Step("bind", d) \in Range(<<Step("bind", d)>>)
    BY <1>3, SMTT(30) DEF Binds, Range
  <1>6. IrqOk("bind", NULL, 0)'
    BY <1>1, <1>2, KeepIrq, Zenon DEF DevsOf, Booting
  <1>7. UsersOk("bind", NULL, <<Step("bind", d)>>)'
    <2>1. PICK c : c = <<Step("bind", d)>>
      BY Zenon
    <2>2. ASSUME NEW e \in Devices
          PROVE  DeviceOk("bind", NULL, e)' /\ Bound(e, c)'
      <3>1. DeviceOk("bind", NULL, e) /\ Bound(e, << >>)
        BY <1>2, Zenon DEF UsersOk
      <3>2. DeviceOk("bind", NULL, e)'
        BY <1>1, <3>1, Zenon DEF DeviceOk, Waits, Entitled
      <3>3. Bound(e, c)'
        <4>1. Step("bind", e) \notin Range(<< >>)
          BY DEF Range
        <4>2. CASE e = d
          BY <1>1, <1>3, <1>5, <2>1, <3>1, <4>2, Zenon DEF Bound
        <4>3. CASE e # d
          BY <1>1, <1>3, <3>1, <4>1, <4>3, Zenon DEF Bound
        <4>4. QED
          BY <4>2, <4>3, Zenon
      <3>4. QED
        BY <3>2, <3>3, Zenon
    <2>3. \A h \in AcpiIrqs : EntryOk("bind", NULL, h)'
      BY <1>1, <1>2, ZenonT(30) DEF UsersOk, EntryOk, Waits
    <2>4. QED
      BY <2>1, <2>2, <2>3, Zenon DEF UsersOk
  <1>8. Progress("bind", NULL, 0)'
    BY BootProgress, Zenon
  <1>9. QED
    BY <1>1, <1>4, <1>5, <1>6, <1>7, <1>8, BindSteps, Zenon DEF At, Freeing, Booting

LEMMA InstallAcpi ==
    ASSUME TypeOK, At("bind", NULL, 0, << >>), NEW h \in AcpiIrqs,
           uacpi_kernel_install_interrupt_handler(h)
    PROVE  TypeOK' /\ At("request", Acpi(h), 0, << >>)'
  <1>1. /\ ~entry[h].handler /\ entry' = [entry EXCEPT ![h].handler = TRUE]
        /\ todo' = <<Ask("request", Acpi(h))>>
        /\ UNCHANGED <<device_list, driver_list, device, denied, shared>>
        /\ UNCHANGED <<vector_used, irq_descs, isr, redir, pit>>
    BY Zenon DEF uacpi_kernel_install_interrupt_handler, irq, boot, Ask
  <1>2. /\ IrqOk("bind", NULL, 0) /\ UsersOk("bind", NULL, << >>)
    BY DEF At
  <1>3. entry[h].irq_vector = 0
    BY <1>1, <1>2, Zenon DEF UsersOk, EntryOk, Waits, Asking, Taking
  <1>4. /\ entry'[h] = [handler |-> TRUE, irq_vector |-> 0]
        /\ \A q \in AcpiIrqs \ {h} : entry'[q] = entry[q]
    <2>1. entry[h] \in [handler : BOOLEAN, irq_vector : Vectors \cup {0}]
      BY Zenon DEF TypeOK
    <2>2. entry'[h] = [entry[h] EXCEPT !.handler = TRUE]
      BY <1>1, Zenon DEF TypeOK
    <2>3. QED
      BY <1>1, <1>3, <2>1, <2>2, Zenon DEF TypeOK
  <1>5. TypeOK' /\ Binds' = Binds
    BY <1>1, SameBinds, ZenonT(30) DEF TypeOK
  <1>6. \A w \in Vectors : Owners(w)' = Owners(w)
    <2>1. ASSUME NEW w \in Vectors
          PROVE  DevsOf(w)' = DevsOf(w) /\ AcpisOf(w)' = AcpisOf(w)
      BY <1>1, <1>3, <1>4, Null, SMTT(30) DEF DevsOf, AcpisOf
    <2>2. QED
      BY <2>1, SameKinds, Zenon
  <1>7. IrqOk("request", Acpi(h), 0)'
    <2>1. \A w \in Vectors : DescOk(w)' /\ Owned(w)'
      BY <1>1, <1>2, <1>6, Null, Zenon DEF IrqOk, DescOk, Owned
    <2>2. \A g \in Gsis : Ready(g)'
      BY <1>1, <1>2, Zenon DEF IrqOk, Ready
    <2>3. \A g \in Gsis \ shared : Served("request", 0, g)'
      <3>1. \A g \in Gsis \ shared : Served("bind", 0, g)'
        BY <1>1, <1>2, SameServed, Zenon DEF IrqOk
      <3>2. QED
        BY <3>1, Zenon DEF Served, Apart
    <2>4. BootOk("request")'
      BY <1>1, <1>2, Zenon DEF IrqOk, BootOk, Booting, Answered, TypeOK
    <2>5. QED
      BY <1>1, <2>1, <2>2, <2>3, <2>4, Zenon DEF IrqOk
  <1>8. UsersOk("request", Acpi(h), << >>)'
    <2>1. \A e : Dev(e) # Acpi(h)
      BY Zenon DEF Dev, Acpi
    <2>2. \A q : Acpi(q) = Acpi(h) => q = h
      BY Zenon DEF Acpi
    <2>3. ASSUME NEW e \in Devices
          PROVE  DeviceOk("request", Acpi(h), e)' /\ Bound(e, << >>)'
      <3>1. DeviceOk("bind", NULL, e) /\ Bound(e, << >>)
        BY <1>2, Zenon DEF UsersOk
      <3>2. DeviceOk("request", Acpi(h), e)'
        BY <1>1, <2>1, <3>1, Zenon DEF DeviceOk, Waits, Entitled, Asking, Taking
      <3>3. Bound(e, << >>)'
        BY <1>1, <3>1, Zenon DEF Bound
      <3>4. QED
        BY <3>2, <3>3, Zenon
    <2>4. ASSUME NEW q \in AcpiIrqs
          PROVE  EntryOk("request", Acpi(h), q)'
      <3>1. EntryOk("bind", NULL, q)
        BY <1>2, Zenon DEF UsersOk
      <3>2. QED
        BY <1>4, <2>2, <3>1, Zenon DEF EntryOk, Waits, Asking, Taking
    <2>5. QED
      BY <2>3, <2>4, Zenon DEF UsersOk
  <1>9. Progress("request", Acpi(h), 0)'
    BY Zenon DEF Progress, Phases, Asking, Taking, Freeing, Booting, Users
  <1>10. todo' = Steps("request", Acpi(h), 0, << >>) /\ << >> \in Seq(Binds)'
    <2>1. todo' = Then(Ask("request", Acpi(h)), << >>)
      BY <1>1, Tuple1, ZenonT(30)
    <2>2. todo' = Steps("request", Acpi(h), 0, << >>)
      BY <2>1, RequestSteps, Zenon
    <2>3. QED
      BY <2>2
  <1>11. QED
    BY <1>5, <1>7, <1>8, <1>9, <1>10, Zenon DEF At, Freeing, Booting

LEMMA UninstallAcpi ==
    ASSUME TypeOK, At("bind", NULL, 0, << >>), NEW h \in AcpiIrqs,
           uacpi_kernel_uninstall_interrupt_handler(h)
    PROVE  TypeOK' /\ \E v \in Vectors : At("disable", Acpi(h), v, << >>)'
  <1>1. PICK v : v = entry[h].irq_vector
    BY Zenon
  <1>2. /\ entry[h].handler /\ todo' = irq_free(v) \o <<Step("uninstall", h)>>
        /\ UNCHANGED <<irq, boot, users, shared>>
    BY <1>1, Zenon DEF uacpi_kernel_uninstall_interrupt_handler
  <1>3. /\ UNCHANGED <<device_list, driver_list, device, denied, entry>>
        /\ UNCHANGED <<vector_used, irq_descs, isr, redir, pit>>
    BY <1>2, Zenon DEF irq, boot, users
  <1>4. /\ IrqOk("bind", NULL, 0) /\ UsersOk("bind", NULL, << >>)
    BY DEF At
  <1>5. v \in Vectors /\ entry[h] = [handler |-> TRUE, irq_vector |-> v]
    <2>1. entry[h] \in [handler : BOOLEAN, irq_vector : Vectors \cup {0}]
      BY SMTT(30) DEF TypeOK
    <2>2. v # 0
      BY <1>1, <1>2, <1>4, Zenon DEF UsersOk, EntryOk, Waits, Asking, Taking
    <2>3. QED
      BY <1>1, <1>2, <2>1, <2>2, Zenon
  <1>6. Acpi(h) \in Owners(v) /\ Acpi(h) \in Users
    BY <1>1, <1>2, Zenon DEF Owners, Users
  <1>7. /\ v \in vector_used /\ irq_descs[v] # NULL /\ irq_descs[v].who = Acpi(h)
        /\ isr[v] = "irq" /\ Owners(v) = {Acpi(h)} /\ v # TimerVector
    <2>1. Owned(v)
      BY <1>4, <1>5, Null, Zenon DEF IrqOk
    <2>2. v \in vector_used /\ irq_descs[v] # NULL /\ Owners(v) = {irq_descs[v].who} /\ isr[v] = "irq"
      BY <1>6, <2>1, Zenon DEF Owned
    <2>3. irq_descs[v].who = Acpi(h) /\ Owners(v) = {Acpi(h)}
      BY <1>6, <2>2, Zenon
    <2>4. v = TimerVector => NULL \in Owners(v)
      BY Zenon DEF Owners
    <2>5. QED
      BY <1>6, <2>2, <2>3, <2>4, NullAssumption, Zenon
  <1>8. TypeOK' /\ Binds' = Binds
    BY <1>2, <1>3, SameBinds, Zenon DEF TypeOK
  <1>9. IrqOk("disable", Acpi(h), v)'
    <2>1. \A w \in Vectors : DescOk(w)' /\ Owned(w)'
      BY <1>3, <1>4, SameOwners, Null, Zenon DEF IrqOk, DescOk, Owned
    <2>2. Handled("disable", Acpi(h), v)'
      BY <1>3, <1>7, SameOwners, Zenon DEF Handled, Taking
    <2>3. \A g \in Gsis : Ready(g)'
      BY <1>3, <1>4, ZenonT(30) DEF IrqOk, Ready
    <2>4. \A g \in Gsis \ shared : Served("disable", v, g)'
      BY <1>3, <1>4, SameLive, ZenonT(30) DEF IrqOk, Served, Apart, Quiet, Led
    <2>5. BootOk("disable")'
      BY <1>3, <1>4, Zenon DEF IrqOk, BootOk, Booting, Answered, TypeOK
    <2>6. QED
      BY <1>2, <2>1, <2>2, <2>3, <2>4, <2>5, Zenon DEF IrqOk, Apart
  <1>10. UsersOk("disable", Acpi(h), << >>)'
    <2>1. UsersOk("disable", Acpi(h), << >>)
      BY <1>4, Zenon DEF UsersOk, DeviceOk, EntryOk, Waits, Asking, Taking
    <2>2. QED
      BY <1>2, <2>1, KeepUsers, Zenon
  <1>11. Progress("disable", Acpi(h), v)'
    BY <1>3, <1>5, <1>7, ZenonT(30) DEF Progress, Phases, Asking, Taking, Freeing, Booting
  <1>12. todo' = Steps("disable", Acpi(h), v, << >>)
    <2>1. Acpi(h).id = h
      BY Zenon DEF Acpi
    <2>2. todo' = Then(Step("disable", v), Then(Step("release", v), Then(Step("unregister", v),
                     Then(Step("forget", v), Then(Step("uninstall", h), << >>)))))
      BY <1>2, FiveList, SMTT(30) DEF irq_free
    <2>3. QED
      BY <2>1, <2>2, FreeSteps, Zenon
  <1>13. << >> \in Seq(Binds)'
    OBVIOUS
  <1>14. QED
    BY <1>5, <1>8, <1>9, <1>10, <1>11, <1>12, <1>13, Zenon DEF At

LEMMA EnableCall ==
    ASSUME TypeOK, At("bind", NULL, 0, << >>), todo = << >>, NEW v \in vector_used, NEW on \in BOOLEAN,
           irq_enable(v, on)
    PROVE  TypeOK' /\ At("bind", NULL, 0, << >>)'
  <1>1. PICK g0 : g0 = Gsi(irq_descs[v].hwirq)
    BY Zenon
  <1>2. /\ irq_descs[v] # NULL /\ irq_descs[v].domain = "ioapic"
        /\ redir' = IF on THEN Routed(irq_descs[v].hwirq, v) ELSE Masked(irq_descs[v].hwirq)
        /\ irq_descs' = [irq_descs EXCEPT ![v].enabled = on]
        /\ UNCHANGED <<vector_used, isr, todo, shared>> /\ UNCHANGED users /\ UNCHANGED pit
    BY Zenon DEF irq_enable, boot
  <1>3. UNCHANGED <<device_list, driver_list, device, denied, entry>>
    BY <1>2, Zenon DEF users
  <1>4. /\ IrqOk("bind", NULL, 0) /\ UsersOk("bind", NULL, << >>)
    BY Zenon DEF At
  <1>5. v \in Vectors /\ irq_descs[v] \in Descs
    BY <1>2, Zenon DEF TypeOK
  <1>6. v # TimerVector
    <2>1. DescOk(v)
      BY <1>4, <1>5, Zenon DEF IrqOk
    <2>2. QED
      BY <1>2, <2>1, Zenon DEF DescOk
  <1>7. PICK D : D = [irq_descs[v] EXCEPT !.enabled = on]
    BY Zenon
  <1>8. /\ D \in Descs /\ D # NULL /\ D.enabled = on /\ D.hwirq = irq_descs[v].hwirq
        /\ D.domain = irq_descs[v].domain /\ D.who = irq_descs[v].who
    <2>1. D \in Descs
      BY <1>5, <1>7, Zenon DEF Descs
    <2>2. QED
      BY <1>5, <1>7, <2>1, NullAssumption, Zenon DEF Descs
  <1>9. /\ irq_descs'[v] = D /\ \A w \in Vectors \ {v} : irq_descs'[w] = irq_descs[w]
        /\ irq_descs' \in [Vectors -> Descs \cup {NULL}]
    BY <1>2, <1>5, <1>7, <1>8, Zenon DEF TypeOK
  <1>10. /\ redir' \in [Gsis -> [vector : Vectors \cup {CAL_VECTOR}, masked : BOOLEAN]]
         /\ \A g \in Gsis : IF g = g0 THEN IF on THEN redir'[g] = [vector |-> v, masked |-> FALSE]
                                           ELSE redir'[g].vector = redir[g].vector /\ redir'[g].masked
                            ELSE redir'[g] = redir[g]
    <2>1. CASE on
      <3>1. CASE g0 \in Gsis
        <4>1. redir' = [redir EXCEPT ![g0] = [vector |-> v, masked |-> FALSE]]
          BY <1>1, <1>2, <2>1, <3>1, Zenon DEF Routed
        <4>2. QED
          BY <1>5, <2>1, <3>1, <4>1, Zenon DEF TypeOK
      <3>2. CASE g0 \notin Gsis
        <4>1. redir' = redir
          BY <1>1, <1>2, <2>1, <3>2, Zenon DEF Routed
        <4>2. QED
          BY <2>1, <3>2, <4>1, Zenon DEF TypeOK
      <3>3. QED
        BY <3>1, <3>2, Zenon
    <2>2. CASE ~on /\ g0 \in Gsis
      <3>1. redir' = [redir EXCEPT ![g0].masked = TRUE]
        BY <1>1, <1>2, <2>2, Zenon DEF Masked
      <3>2. QED
        BY <2>2, <3>1, ZenonT(30) DEF TypeOK
    <2>3. CASE ~on /\ g0 \notin Gsis
      BY <1>1, <1>2, <2>3, Zenon DEF Masked, TypeOK
    <2>4. QED
      BY <2>1, <2>2, <2>3, Zenon
  <1>11. TypeOK' /\ Binds' = Binds
    BY <1>2, <1>3, <1>9, <1>10, SameBinds, Zenon DEF TypeOK
  <1>12. \A g : Live(g)' = Live(g) /\ (v \in Live(g) <=> g = g0)
    BY <1>1, <1>2, <1>5, <1>8, <1>9, SMTT(30) DEF Live
  <1>13. IrqOk("bind", NULL, 0)'
    <2>1. \A w \in Vectors : DescOk(w) /\ Owned(w)
      BY <1>4, Null, Zenon DEF IrqOk
    <2>2. \A w \in Vectors : DescOk(w)'
      BY <1>2, <1>8, <1>9, <2>1, SMTT(30) DEF DescOk
    <2>3. \A w \in Vectors : Owned(w)'
      BY <1>2, <1>3, <1>8, <1>9, <2>1, SameOwners, SMTT(30) DEF Owned
    <2>4. isr[v] = "irq"
      BY <1>5, <2>1, Zenon DEF Owned
    <2>5. \A g \in Gsis : Ready(g)'
      <3>1. ASSUME NEW g \in Gsis
            PROVE  Ready(g)'
        <4>1. Ready(g)
          BY <1>4, Zenon DEF IrqOk
        <4>2. CASE g = g0 /\ on
          <5>1. redir'[g].vector = v
            <6>1. redir'[g] = [vector |-> v, masked |-> FALSE]
              BY <1>10, <4>2, Zenon
            <6>2. QED
              BY <6>1, EntryFields, Zenon
          <5>2. isr'[v] = "irq" /\ irq_descs'[v] # NULL /\ Gsi(irq_descs'[v].hwirq) = g
            BY <1>1, <1>2, <1>8, <1>9, <2>4, <4>2, Zenon
          <5>3. QED
            BY <1>5, <1>6, <5>1, <5>2, Zenon DEF Ready
        <4>3. CASE g = g0 /\ ~on
          BY <1>10, <4>3, Zenon DEF Ready
        <4>4. CASE g # g0
          <5>1. redir'[g] = redir[g]
            BY <1>10, <4>4, Zenon
          <5>2. \A w \in Vectors :
                   /\ irq_descs'[w] # NULL <=> irq_descs[w] # NULL
                   /\ irq_descs[w] # NULL => irq_descs'[w].hwirq = irq_descs[w].hwirq
            BY <1>2, <1>8, <1>9, Zenon
          <5>3. isr' = isr /\ pit' = pit
            BY <1>2, Zenon
          <5>4. QED
            BY <4>1, <5>1, <5>2, <5>3, Zenon DEF Ready
        <4>5. QED
          BY <4>2, <4>3, <4>4, Zenon
      <3>2. QED
        BY <3>1, Zenon
    <2>6. ASSUME NEW g \in Gsis \ shared
          PROVE  Served("bind", 0, g)'
      <3>1. Served("bind", 0, g) /\ \A w \in Live(g) : w \in Vectors
        BY <1>4, Zenon DEF IrqOk, Live
      <3>2. CASE g = g0
        <4>1. Live(g) = {v} /\ redir[g].vector = v
          <5>1. v \in Live(g) /\ Led(g, v) /\ \A w \in Live(g) : w = v
            BY <1>12, <3>1, <3>2, Zenon DEF Served, Apart
          <5>2. Live(g) = {v}
            BY <5>1, Zenon
          <5>3. redir[g].vector = v
            BY <5>1, EntryFields, ZenonT(30) DEF Led
          <5>4. QED
            BY <5>2, <5>3, Zenon
        <4>2. redir'[g].vector = v /\ redir'[g].masked = ~on
          <5>1. CASE on
            <6>1. redir'[g] = [vector |-> v, masked |-> FALSE]
              BY <1>10, <3>2, <5>1, Zenon
            <6>2. redir'[g].vector = v /\ redir'[g].masked = FALSE
              BY <6>1, OpenEntry, Zenon
            <6>3. (~on) = FALSE
              BY <5>1, Zenon
            <6>4. QED
              BY <6>2, <6>3, Zenon
          <5>2. CASE ~on
            <6>1. redir'[g].vector = redir[g].vector /\ redir'[g].masked
              BY <1>10, <3>2, <5>2, Zenon
            <6>2. redir'[g].masked \in BOOLEAN
              BY <1>10, Zenon
            <6>3. QED
              BY <4>1, <5>2, <6>1, <6>2, Zenon
          <5>3. QED
            BY <5>1, <5>2, Zenon
        <4>3. redir'[g] = [vector |-> v, masked |-> ~on]
          <5>1. redir'[g] \in [vector : Vectors \cup {CAL_VECTOR}, masked : BOOLEAN]
            BY <1>10, Zenon
          <5>2. QED
            BY <4>2, <5>1, Zenon
        <4>4. Led(g, v)'
          BY <1>8, <1>9, <4>3, Zenon DEF Led
        <4>5. QED
          BY <1>12, <4>1, <4>4, Zenon DEF Served, Apart
      <3>3. CASE g # g0
        <4>1. redir'[g] = redir[g] /\ Live(g)' = Live(g) /\ v \notin Live(g)
          BY <1>10, <1>12, <3>3, Zenon
        <4>2. \A w \in Live(g) : irq_descs'[w] = irq_descs[w]
          BY <1>9, <3>1, <4>1, Zenon
        <4>3. \A w \in Live(g) : Led(g, w) => Led(g, w)'
          BY <4>1, <4>2, Zenon DEF Led
        <4>4. Quiet(g)' = Quiet(g)
          BY <4>1, Zenon DEF Quiet
        <4>5. QED
          BY <3>1, <4>1, <4>3, <4>4, Zenon DEF Served, Apart
      <3>4. QED
        BY <3>2, <3>3, Zenon
    <2>7. BootOk("bind")'
      <3>1. v # CAL_VECTOR
        BY <1>5, Null, Zenon
      <3>2. \A g \in Gsis : redir'[g] = redir[g] \/ redir'[g].masked \/ redir'[g].vector # CAL_VECTOR
        BY <1>10, <3>1, OpenEntry, Zenon
      <3>3. BootOk("bind") /\ isr' = isr /\ "bind" \notin Booting
        BY <1>2, <1>4, Zenon DEF IrqOk, Booting
      <3>4. QED
        BY <3>2, <3>3, BootKept, Zenon
    <2>8. QED
      BY <1>2, <2>2, <2>3, <2>5, <2>6, <2>7, Zenon DEF IrqOk
  <1>14. UsersOk("bind", NULL, << >>)'
    BY <1>2, <1>4, KeepUsers, Zenon
  <1>15. Progress("bind", NULL, 0)' /\ todo' = Steps("bind", NULL, 0, << >>) /\ << >> \in Seq(Binds)'
    BY <1>2, StepsLeft, SMTT(30) DEF Progress, Phases, Asking, Taking, Freeing, Booting
  <1>16. QED
    BY <1>11, <1>13, <1>14, <1>15, Zenon DEF At, Freeing, Booting

-----------------------------------------------------------------------------
\* Interrupts, raised or taken, change nothing of this.
LEMMA KeepAt ==
    ASSUME TypeOK, NEW ph, NEW who, NEW v, NEW b, At(ph, who, v, b),
           UNCHANGED <<vector_used, irq_descs, isr, redir, todo, shared>>, UNCHANGED users
    PROVE  TypeOK' /\ At(ph, who, v, b)'
  <1>1. UNCHANGED <<device_list, driver_list, device, denied, entry>>
    BY Zenon DEF users
  <1>2. IrqOk(ph, who, v) /\ UsersOk(ph, who, b) /\ Progress(ph, who, v)
    BY Zenon DEF At
  <1>3. TypeOK' /\ Binds' = Binds
    BY <1>1, SameBinds, Zenon DEF TypeOK
  <1>4. UsersOk(ph, who, b)'
    BY <1>2, KeepUsers, Zenon
  <1>5. IrqOk(ph, who, v)'
    <2>1. \A w \in Vectors : DescOk(w)'
      BY <1>2, Zenon DEF IrqOk, DescOk
    <2>2. \A w \in Vectors \ {v} : Owned(w)'
      BY <1>1, <1>2, SameOwners, Zenon DEF IrqOk, Owned
    <2>3. v # 0 => Handled(ph, who, v)'
      BY <1>1, <1>2, SameOwners, Zenon DEF IrqOk, Handled
    <2>4. v # 0 /\ ph \in Apart => \A g \in Gsis : (redir[g].vector = v => redir[g].masked)'
      BY <1>2, Zenon DEF IrqOk
    <2>5. \A g \in Gsis : Ready(g)'
      BY <1>2, Zenon DEF IrqOk, Ready
    <2>6. \A g \in Gsis \ shared : Served(ph, v, g)'
      BY <1>2, SameLive, Zenon DEF IrqOk, Served, Quiet, Led
    <2>7. BootOk(ph)'
      BY <1>2, Zenon DEF IrqOk, BootOk, Answered
    <2>8. QED
      BY <2>1, <2>2, <2>3, <2>4, <2>5, <2>6, <2>7, Zenon DEF IrqOk
  <1>6. Progress(ph, who, v)'
    BY <1>1, <1>2, Zenon DEF Progress
  <1>7. QED
    BY <1>3, <1>4, <1>5, <1>6, Zenon DEF At

LEMMA InPhase ==
    ASSUME TypeOK', NEW ph, NEW who, NEW v, NEW b, At(ph, who, v, b)'
    PROVE  Inv'
  <1>1. ph \in Phases /\ who \in Users \cup {NULL} /\ v \in Vectors \cup {0}
    BY Zenon DEF At, Progress, Phases, Asking, Taking, Freeing, Booting, Users
  <1>2. b \in Seq(Binds)'
    BY Zenon DEF At
  <1>3. QED
    BY <1>1, <1>2, Zenon DEF Inv

LEMMA InvInit == Init => Inv
  <1>1. SUFFICES ASSUME Init
                 PROVE  Inv
    BY Zenon
  <1>2. TypeOK
    <2>1. [hwirq |-> 0, domain |-> "lapic", who |-> NULL, enabled |-> TRUE] \in Descs
      BY Zenon DEF Descs
    <2>2. irq_descs \in [Vectors -> Descs \cup {NULL}]
      BY <1>1, <2>1, Zenon DEF Init
    <2>3. /\ isr \in [Vectors \cup {CAL_VECTOR} -> {NULL, "irq", "pit"}]
          /\ redir \in [Gsis -> [vector : Vectors \cup {CAL_VECTOR}, masked : BOOLEAN]]
      BY <1>1, Null, Zenon DEF Init, ioapic_mask_all, TimerVector
    <2>4. /\ entry \in [AcpiIrqs -> [handler : BOOLEAN, irq_vector : Vectors \cup {0}]]
          /\ device \in [Devices -> [driver : Drivers \cup {NULL}, irq : Vectors \cup {0}]]
      BY <1>1, Zenon DEF Init
    <2>5. vector_used \in SUBSET Vectors /\ denied \in SUBSET Devices
      BY <1>1, Null, Zenon DEF Init
    <2>6. device_list \in Seq(Devices) /\ driver_list \in Seq(Drivers)
      BY <1>1, SMTT(30) DEF Init
    <2>7. QED
      BY <2>2, <2>3, <2>4, <2>5, <2>6, Zenon DEF TypeOK
  <1>3. /\ \A w \in Vectors \ {TimerVector} : irq_descs[w] = NULL /\ isr[w] = NULL /\ w \notin vector_used
        /\ irq_descs[TimerVector] = [hwirq |-> 0, domain |-> "lapic", who |-> NULL, enabled |-> TRUE]
        /\ TimerVector \in vector_used /\ isr[TimerVector] = "irq"
        /\ \A g \in Gsis : redir[g].masked
        /\ \A h \in AcpiIrqs : entry[h].handler = FALSE /\ entry[h].irq_vector = 0
        /\ \A d \in Devices : device[d].driver = NULL /\ device[d].irq = 0
    BY <1>1, Null, Zenon DEF Init, ioapic_mask_all
  <1>4. [hwirq |-> 0, domain |-> "lapic", who |-> NULL, enabled |-> TRUE] # NULL
    <2>1. [hwirq |-> 0, domain |-> "lapic", who |-> NULL, enabled |-> TRUE] \in Descs
      BY Zenon DEF Descs
    <2>2. QED
      BY <2>1, NullAssumption, Zenon
  <1>5. \A w \in Vectors : DescOk(w)
    <2>1. DescOk(TimerVector)
      <3>1. PICK D : D = [hwirq |-> 0, domain |-> "lapic", who |-> NULL, enabled |-> TRUE]
        BY Zenon
      <3>2. D.domain = "lapic" /\ D.who = NULL
        BY <3>1, Zenon
      <3>3. irq_descs[TimerVector] = D
        BY <1>3, <3>1, Zenon
      <3>4. QED
        BY <3>2, <3>3, Zenon DEF DescOk
    <2>2. \A w \in Vectors \ {TimerVector} : DescOk(w)
      BY <1>3, Zenon DEF DescOk
    <2>3. QED
      BY <2>1, <2>2, Zenon
  <1>6. \A w \in Vectors : Owned(w)
    <2>1. ASSUME NEW w \in Vectors
          PROVE  Owners(w) = IF w = TimerVector THEN {NULL} ELSE {}
      <3>1. DevsOf(w) = {} /\ AcpisOf(w) = {}
        BY <1>3, Null, Zenon DEF DevsOf, AcpisOf
      <3>2. QED
        BY <3>1, OwnersByKind, Zenon
    <2>2. irq_descs[TimerVector].who = NULL /\ irq_descs[TimerVector] # NULL
      BY <1>3, <1>4, SMTT(30)
    <2>3. QED
      BY <1>3, <2>1, <2>2, NullAssumption, Zenon DEF Owned
  <1>7. \A g \in Gsis : Ready(g) /\ Served("calibrate", 0, g)
    <2>1. ASSUME NEW g \in Gsis
          PROVE  Live(g) = {}
      BY <1>3, SMTT(30) DEF Live
    <2>2. QED
      BY <1>3, <2>1, Zenon DEF Ready, Served, Quiet
  <1>8. IrqOk("calibrate", NULL, 0)
    BY <1>1, <1>3, <1>5, <1>6, <1>7, Zenon DEF IrqOk, BootOk, Answered, Init
  <1>9. UsersOk("calibrate", NULL, << >>)
    <2>1. NULL \notin Handling /\ Range(<< >>) = {}
      BY IrqAssumption, NullAssumption DEF Range
    <2>2. \A d \in Devices : DeviceOk("calibrate", NULL, d)
      BY <1>1, <1>3, <2>1, Zenon DEF DeviceOk, Waits, Entitled, Asking, Taking, Init
    <2>3. \A d \in Devices : Bound(d, << >>)
      BY <1>1, <1>3, <2>1, Zenon DEF Bound, Init
    <2>4. \A h \in AcpiIrqs : EntryOk("calibrate", NULL, h)
      BY <1>3, Zenon DEF EntryOk, Waits, Asking, Taking
    <2>5. QED
      BY <2>2, <2>3, <2>4, Zenon DEF UsersOk
  <1>10. Progress("calibrate", NULL, 0)
    BY Zenon DEF Progress, Phases, Asking, Taking, Freeing, Booting
  <1>11. todo = Steps("calibrate", NULL, 0, << >>) /\ << >> \in Seq(Binds)
    <2>1. todo = Then(Step("calibrate", NULL), << >>)
      BY <1>1, Tuple1, Zenon DEF Init
    <2>2. QED
      BY <2>1, StepsLeft, SMTT(30)
  <1>12. At("calibrate", NULL, 0, << >>)
    BY <1>8, <1>9, <1>10, <1>11, Zenon DEF At
  <1>13. QED
    BY <1>2, <1>10, <1>11, <1>12, Zenon DEF Inv, Progress

LEMMA InvNext == Inv /\ [Next]_vars => Inv'
  <1>1. SUFFICES ASSUME Inv, [Next]_vars
                 PROVE  Inv'
    BY Zenon
  <1>2. TypeOK
    BY <1>1, Zenon DEF Inv
  <1>3. PICK ph, who, v, b : At(ph, who, v, b)
    BY <1>1, Zenon DEF Inv
  <1>4. CASE Thread
    <2>1. ph \in Phases
      BY <1>3, Zenon DEF At, Progress
    <2>2. ph \in {"bind"} \cup Asking \cup Booting => v = 0
      BY <1>3, Zenon DEF At, Progress, Asking, Taking, Freeing, Booting
    <2>3. ph \in {"bind"} \cup Booting => who = NULL
      BY <1>3, Zenon DEF At, Progress
    <2>4. ph \in Booting => b = << >>
      BY <1>3, Zenon DEF At
    <2>5. CASE ph = "bind"
      <3>1. b # << >>
        BY <1>3, <1>4, <2>5, StepsLeft, SMTT(30) DEF Thread, At
      <3>2. QED
        BY <1>2, <1>3, <1>4, <2>2, <2>3, <2>5, <3>1, BindStep, InPhase, ZenonT(30)
    <2>6. CASE ph = "request"
      BY <1>2, <1>3, <1>4, <2>2, <2>6, RequestStep, InPhase, Zenon DEF Asking
    <2>7. CASE ph = "deny"
      BY <1>2, <1>3, <1>4, <2>2, <2>7, DenyStep, InPhase, Zenon DEF Asking
    <2>8. CASE ph = "register"
      BY <1>2, <1>3, <1>4, <2>8, RegisterStep, InPhase, Zenon
    <2>9. CASE ph = "enable"
      BY <1>2, <1>3, <1>4, <2>9, EnableStep, InPhase, Zenon
    <2>10. CASE ph = "grant"
      BY <1>2, <1>3, <1>4, <2>10, GrantStep, InPhase, Zenon
    <2>11. CASE ph = "disable"
      BY <1>2, <1>3, <1>4, <2>11, DisableStep, InPhase, Zenon
    <2>12. CASE ph = "release"
      BY <1>2, <1>3, <1>4, <2>12, ReleaseStep, InPhase, Zenon
    <2>13. CASE ph = "unregister"
      BY <1>2, <1>3, <1>4, <2>13, UnregisterStep, InPhase, Zenon
    <2>14. CASE ph = "forget"
      BY <1>2, <1>3, <1>4, <2>14, ForgetStep, InPhase, Zenon
    <2>15. CASE ph = "uninstall"
      BY <1>2, <1>3, <1>4, <2>15, UninstallStep, InPhase, Zenon
    <2>16. CASE ph \in Booting
      BY <1>2, <1>3, <1>4, <2>2, <2>3, <2>4, <2>16, BootStep, InPhase, Zenon
    <2>17. QED
      BY <2>1, <2>5, <2>6, <2>7, <2>8, <2>9, <2>10, <2>11, <2>12, <2>13, <2>14, <2>15, <2>16, Zenon DEF Phases, Asking, Taking, Freeing

  <1>5. CASE Calls
    <2>1. todo = << >> /\ At("bind", NULL, 0, << >>)
      BY <1>3, <1>5, Idle, SMTT(30) DEF Calls
    <2>2. CASE \E drv \in Drivers : driver_register(drv)
      <3>1. TypeOK' /\ At("bind", NULL, 0, BindAll)'
        BY <1>2, <2>1, <2>2, RegisterDriver, Zenon
      <3>2. PICK c : c = BindAll'
        BY Zenon
      <3>3. At("bind", NULL, 0, c)'
        BY <3>1, <3>2, Zenon
      <3>4. QED
        BY <3>1, <3>3, InPhase, Zenon
    <2>3. CASE \E d \in Devices : pci_create_device(d)
      BY <1>2, <2>1, <2>3, AddDevice, InPhase, Zenon
    <2>4. CASE \E h \in AcpiIrqs : uacpi_kernel_install_interrupt_handler(h)
      BY <1>2, <2>1, <2>4, InstallAcpi, InPhase, Zenon
    <2>5. CASE \E h \in AcpiIrqs : uacpi_kernel_uninstall_interrupt_handler(h)
      BY <1>2, <2>1, <2>5, UninstallAcpi, InPhase, Zenon
    <2>6. CASE \E w \in vector_used, on \in BOOLEAN : irq_enable(w, on)
      BY <1>2, <2>1, <2>6, EnableCall, InPhase, Zenon
    <2>7. QED
      BY <1>5, <2>2, <2>3, <2>4, <2>5, <2>6, Zenon DEF Calls
  <1>6. CASE Interrupts \/ UNCHANGED vars
    <2>1. UNCHANGED <<vector_used, irq_descs, isr, redir, todo, shared>> /\ UNCHANGED users
      BY <1>6, Zenon DEF Interrupts, Raise, interrupt_isr, irq, vars
    <2>2. QED
      BY <1>2, <1>3, <2>1, KeepAt, InPhase, Zenon
  <1>7. QED
    BY <1>1, <1>4, <1>5, <1>6, Zenon DEF Next

\* Every step of the thread, every call and every interrupt keeps the invariant:
\* what irq.c has done for a user of an interrupt is always some prefix of
\* irq_request or of irq_free, and everything else is in order.
THEOREM IrqInvariant == Spec => []Inv
  <1>1. QED
    BY InvInit, InvNext, PTL DEF Spec

LEMMA InvBetweenCalls ==
    ASSUME Inv, todo = << >>
    PROVE  IrqOk("bind", NULL, 0) /\ UsersOk("bind", NULL, << >>)
  <1>1. PICK ph, who, v, b : At(ph, who, v, b)
    BY Zenon DEF Inv
  <1>2. ph = "bind" /\ who = NULL /\ v = 0 /\ b = << >>
    BY <1>1, Idle, Zenon
  <1>3. QED
    BY <1>1, <1>2, Zenon DEF At

\* However calls of drivers and of ACPI follow each other, between two calls the
\* bitmap of vectors, the descriptors, the handlers and the users of irq.c agree,
\* with any number of vectors, devices and entries of ACPI.
THEOREM VectorsAreOwned == Spec => []VectorsOwned
  <1>1. Inv => VectorsOwned
    <2>1. SUFFICES ASSUME Inv, todo = << >>, NEW w \in Vectors
                   PROVE  /\ w \in vector_used <=> irq_descs[w] # NULL
                          /\ Owners(w) = IF w \in vector_used THEN {irq_descs[w].who} ELSE {}
                          /\ w \in vector_used <=> isr[w] = "irq"
      BY Zenon DEF VectorsOwned
    <2>2. Owned(w)
      BY <2>1, InvBetweenCalls, Null, Zenon DEF IrqOk
    <2>3. QED
      BY <2>2, Zenon DEF Owned
  <1>2. QED
    BY <1>1, IrqInvariant, PTL

\* At every step of every call, an open line has a handler and a descriptor of a
\* user of the line.  The line of the PIT has the handler of the calibration,
\* also if the calibration fails, except while the last thing that is left to
\* lapic_timer_init is to mask it.
THEOREM LinesAreReady == Spec => []LinesReady
  <1>1. Inv => LinesReady
    <2>1. SUFFICES ASSUME Inv, NEW g \in Gsis
                   PROVE  /\ Ready(g)
                          /\ Answered(g) \/ (g = Gsi(0) /\ todo = <<Step("mask", 0)>>)
      BY ZenonT(30) DEF LinesReady, Ready, Answered
    <2>2. PICK ph, who, v, b : At(ph, who, v, b)
      BY <2>1, Zenon DEF Inv
    <2>3. Ready(g) /\ BootOk(ph) /\ todo = Steps(ph, who, v, b)
      BY <2>2, Zenon DEF At, IrqOk
    <2>4. CASE ph = "mask"
      <3>1. todo = <<Step("mask", 0)>>
        BY <2>3, <2>4, StepsLeft, Tuple1, SMTT(30)
      <3>2. redir[g].masked \/ g = Gsi(0)
        BY <2>3, <2>4, Zenon DEF BootOk, Booting
      <3>3. QED
        BY <2>3, <3>1, <3>2, Zenon DEF Answered
    <2>5. QED
      BY <2>3, <2>4, Zenon DEF BootOk
  <1>2. QED
    BY <1>1, IrqInvariant, PTL

\* Between calls the line of a user who does not share it leads to the vector
\* of the user, for any overrides of the lines (ioapic_domain_enable and
\* ioapic_domain_disable).
THEOREM LinesAreServed == Spec => []LinesServed
  <1>1. Inv => LinesServed
    <2>1. SUFFICES ASSUME Inv, todo = << >>, NEW g \in Gsis \ shared
                   PROVE  /\ \A w \in Live(g) : redir[g] = [vector |-> w, masked |-> ~irq_descs[w].enabled]
                          /\ Live(g) = {} => redir[g].masked \/ redir[g].vector = CAL_VECTOR
      BY Zenon DEF LinesServed
    <2>2. Served("bind", 0, g)
      BY <2>1, InvBetweenCalls, Zenon DEF IrqOk
    <2>3. Live(g) = {} => Quiet(g)
      BY <2>2, Zenon DEF Served
    <2>4. \A w \in Live(g) : Led(g, w)
      BY <2>2, Zenon DEF Served, Apart
    <2>5. QED
      BY <2>3, <2>4, Zenon DEF Quiet, Led
  <1>2. QED
    BY <1>1, IrqInvariant, PTL

\* In whatever order any number of drivers and devices appear, driver_register
\* and bus_device_add leave a device with a driver exactly if one fits, and with
\* a vector exactly if that driver handles interrupts and a vector was left.
THEOREM DevicesAreBound == Spec => []DevicesBound
  <1>1. Inv => DevicesBound
    <2>1. SUFFICES ASSUME Inv, todo = << >>, NEW d \in Devices
                   PROVE  LET fit == {drv \in Range(driver_list) : Matches(drv, d)}
                          IN /\ IF d \in Range(device_list) /\ fit # {} THEN device[d].driver \in fit
                                ELSE device[d].driver = NULL
                             /\ device[d].irq # 0 <=> device[d].driver \in Handling /\ Line[d] # NULL /\ d \notin denied
      BY Zenon DEF DevicesBound
    <2>2. DeviceOk("bind", NULL, d) /\ Bound(d, << >>)
      BY <2>1, InvBetweenCalls, Zenon DEF UsersOk
    <2>3. device[d].irq # 0 <=> Entitled(d)
      BY <2>2, Zenon DEF DeviceOk, Waits, Asking, Taking
    <2>4. Step("bind", d) \notin Range(<< >>)
      BY DEF Range
    <2>5. QED
      BY <2>2, <2>3, <2>4, Zenon DEF Bound, Entitled
  <1>2. QED
    BY <1>1, IrqInvariant, PTL

=============================================================================
