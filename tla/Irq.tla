--------------------------------- MODULE Irq ---------------------------------
(***************************************************************************)
(* Interrupt lines, vectors and their users: the descriptors of            *)
(* arch/interrupts/irq.c, the handlers of isr.c and idt.c, the IOAPIC's    *)
(* redirection table, the calibration of the timer in apic.c, the binding  *)
(* of drivers to devices (dev/) and ACPI's handlers (uacpi_wrappers.c).    *)
(*                                                                         *)
(* One thread makes the calls.  irq_lock does not disable interrupts, so   *)
(* that they are taken between the steps of a call: todo has the steps     *)
(* that are left.  An interrupt that the IOAPIC has sent is pending until  *)
(* it is taken, whatever happens to its line in the meantime.              *)
(* (kmain has interrupts disabled from the namespace of ACPI on to the     *)
(* start of the scheduler; the calls may also come from a thread.)         *)
(*                                                                         *)
(* hwirq_to_irq is written and never read, and is left out; so are the     *)
(* ticks of the local timer, which Sched has.                              *)
(***************************************************************************)
EXTENDS Integers, Sequences, Functions

CONSTANTS IRQ_VECTOR_MIN, IRQ_VECTOR_MAX,
          SYSCALL_VECTOR,   \* 0x80, for which the IDT has another handler
          CAL_VECTOR,       \* 0xFE, for the calibration
          CalTicks,         \* bound: ticks of the PIT that are told apart
          AcpiIrqs,         \* the lines for which ACPI installs handlers
          Iso,              \* the source overrides: a function from lines to GSIs
          Gsis,             \* the GSIs that have a pin of some IOAPIC
          Devices, Drivers,
          Line,             \* the interrupt line of each device, NULL if it has none
          DeviceId,         \* what a device is: its class, vendor... by name
          id_table,         \* the ids of a driver's devices, 0 for any
          Handling,         \* the drivers that have an irq_handler
          NULL

Vectors == IRQ_VECTOR_MIN .. IRQ_VECTOR_MAX
TimerVector == IRQ_VECTOR_MIN    \* the first that is requested
Lines == (AcpiIrqs \cup {Line[d] : d \in Devices}) \ {NULL}

ASSUME IrqAssumption == /\ IRQ_VECTOR_MIN \in Nat \ {0} /\ IRQ_VECTOR_MAX \in Nat
                        /\ SYSCALL_VECTOR \in Vectors \ {TimerVector}
                        /\ CAL_VECTOR \in Nat \ Vectors
                        /\ 0 \notin Lines /\ \A h \in DOMAIN Iso : h = 0 \/ Iso[h] # Iso[0]
                        /\ Handling \subseteq Drivers

Acpi(h) == [kind |-> "acpi", id |-> h]
Dev(d) == [kind |-> "device", id |-> d]
\* Who may ask for a vector: a device that has a line, and ACPI.
Users == {Dev(d) : d \in {e \in Devices : Line[e] # NULL}} \cup {Acpi(h) : h \in AcpiIrqs}
LineOf(who) == IF who.kind = "acpi" THEN who.id ELSE Line[who.id]

\* struct irq_desc; an unused one is NULL.
Descs == [hwirq : {LineOf(u) : u \in Users} \cup {0}, domain : {"lapic", "ioapic"},
          who : Users \cup {NULL}, enabled : BOOLEAN]

ASSUME NullAssumption == /\ NULL \notin Vectors /\ NULL \notin Drivers /\ NULL \notin {"irq", "pit"}
                         /\ NULL \notin Users /\ NULL \notin Descs

VARIABLES vector_used, irq_descs,
          isr,           \* the handlers of the CPU, by vector
          redir,         \* the redirection entry of each GSI
          pending,       \* vectors that wait for the CPU
          unacked,       \* vectors that were taken, and for which no EOI was sent
          halted,        \* the kernel stopped at an interrupt without handler
          todo,          \* what is left of the call
          ticks, pit,    \* lapic_calib_count; what the PIT still does
          entry,         \* uacpi_irq_entries
          device_list, driver_list,
          device,        \* driver and irq of a device
          shared, denied \* ghosts: GSIs with two users at once; devices that got no vector

irq == <<vector_used, irq_descs, isr, redir>>
cpu == <<pending, unacked, halted>>
boot == <<ticks, pit>>
users == <<entry, device_list, driver_list, device, denied>>
vars == <<irq, cpu, todo, boot, users, shared>>

Step(do, arg) == [do |-> do, arg |-> arg]

ioapic_mask_all == [g \in Gsis |-> [vector |-> IRQ_VECTOR_MIN, masked |-> TRUE]]

\* After apic_init, irq_init and irq_request_local; lapic_timer_init follows.
Init ==
    /\ vector_used = {TimerVector}
    /\ irq_descs = [v \in Vectors |-> IF v = TimerVector
                      THEN [hwirq |-> 0, domain |-> "lapic", who |-> NULL, enabled |-> TRUE] ELSE NULL]
    /\ isr = [v \in Vectors \cup {CAL_VECTOR} |-> IF v = TimerVector THEN "irq" ELSE NULL]
    /\ redir = ioapic_mask_all
    /\ pending = {} /\ unacked = {} /\ halted = FALSE
    /\ todo = <<Step("calibrate", NULL)>>
    /\ ticks = 0 /\ pit = "off"
    /\ entry = [h \in AcpiIrqs |-> [handler |-> FALSE, irq_vector |-> 0]]
    /\ device_list = << >> /\ driver_list = << >>
    /\ device = [d \in Devices |-> [driver |-> NULL, irq |-> 0]]
    /\ shared = {} /\ denied = {}

-----------------------------------------------------------------------------
\* apic_lookup_iso; a GSI without pin is ignored.
Gsi(h) == IF h \in DOMAIN Iso THEN Iso[h] ELSE h

\* ioapic_domain_enable.
Routed(h, v) == IF Gsi(h) \in Gsis
                THEN [redir EXCEPT ![Gsi(h)] = [vector |-> v, masked |-> FALSE]] ELSE redir

\* (Mutant: the overrides are not looked up.)
MaskedRaw(h) == IF h \in Gsis THEN [redir EXCEPT ![h].masked = TRUE] ELSE redir
\* ioapic_domain_disable.
Masked(h) == IF Gsi(h) \in Gsis THEN [redir EXCEPT ![Gsi(h)].masked = TRUE] ELSE redir

\* apic.c has them once more, for the calibration.
apic_route_irq(h, v) == Routed(h, v)
apic_mask_irq(h) == Masked(h)

\* The first step of a call is done, and next is to be done before the others.
Proceed(next) == todo' = next \o Tail(todo)
\* The vectors that were requested for a GSI.
Live(g) == {v \in Vectors : /\ irq_descs[v] # NULL /\ irq_descs[v].domain = "ioapic"
                            /\ Gsi(irq_descs[v].hwirq) = g}

\* (Mutant: the line is enabled before there is a handler.)
EnableFirst(v, who) == <<Step("enable", v), Step("register", v),
                         [do |-> "grant", arg |-> v, who |-> who]>>
\* What irq_request does with a vector, and its caller with the answer.
Requested(v, who) == <<Step("register", v), Step("enable", v),
                       [do |-> "grant", arg |-> v, who |-> who]>>

\* The first free vector, if there is one.
vector_alloc == {v \in Vectors \ vector_used : \A w \in Vectors \ vector_used : v <= w}

irq_request(who) ==
    \/ /\ Vectors \subseteq vector_used
       /\ Proceed(<<[do |-> "deny", who |-> who]>>)
       /\ UNCHANGED <<irq, boot, users, shared>>
    \/ \E v \in vector_alloc :
          /\ vector_used' = vector_used \cup {v}
          /\ irq_descs' = [irq_descs EXCEPT ![v] =
                [hwirq |-> LineOf(who), domain |-> "ioapic", who |-> who, enabled |-> TRUE]]
          /\ shared' = shared \cup (IF Live(Gsi(LineOf(who))) = {} THEN {} ELSE {Gsi(LineOf(who))})
          /\ Proceed(Requested(v, who))
          /\ UNCHANGED <<isr, redir, boot, users>>

\* register_interrupt and unregister_interrupt.
Handler(v, h) == isr' = [isr EXCEPT ![v] = h] /\ UNCHANGED <<vector_used, irq_descs, redir, boot, users, shared>>
Redirect(r) == redir' = r /\ UNCHANGED <<vector_used, irq_descs, isr, boot, users, shared>>

\* The caller keeps the vector: driver_try_bind in the device, uACPI in its entry.
Grant(v, who) ==
    /\ IF who.kind = "device"
       THEN device' = [device EXCEPT ![who.id].irq = v] /\ UNCHANGED entry
       ELSE entry' = [entry EXCEPT ![who.id].irq_vector = v] /\ UNCHANGED device
    /\ UNCHANGED <<irq, boot, device_list, driver_list, denied, shared>>

\* No vector is left: uACPI clears its entry, a device stays without interrupt.
Deny(who) ==
    /\ IF who.kind = "device"
       THEN denied' = denied \cup {who.id} /\ UNCHANGED entry
       ELSE entry' = [entry EXCEPT ![who.id].handler = FALSE] /\ UNCHANGED denied
    /\ UNCHANGED <<irq, boot, device_list, driver_list, device, shared>>

\* irq_free: the line is masked, then the vector is free before its handler and
\* its descriptor are gone.
Release(v) == vector_used' = vector_used \ {v} /\ UNCHANGED <<irq_descs, isr, redir, boot, users, shared>>
Forget(v) == irq_descs' = [irq_descs EXCEPT ![v] = NULL] /\ UNCHANGED <<vector_used, isr, redir, boot, users, shared>>
\* (Mutant: the vector stays taken.)
FreeKept(v) == <<Step("disable", v), Step("unregister", v), Step("forget", v)>>
irq_free(v) == <<Step("disable", v), Step("release", v), Step("unregister", v), Step("forget", v)>>

-----------------------------------------------------------------------------
match_device(d, id) == \A k \in DOMAIN id : id[k] = 0 \/ id[k] = DeviceId[d][k]
Matches(drv, d) == \E id \in id_table[drv] : match_device(d, id)

\* driver_try_bind: the newest driver that fits.  Its init is left out.
driver_try_bind(d) ==
    LET fits == {n \in DOMAIN driver_list : Matches(driver_list[n], d)}
        first == {driver_list[n] : n \in {m \in fits : \A k \in fits : m <= k}}
    IN IF device[d].driver # NULL \/ fits = {}
       THEN Proceed(<< >>) /\ UNCHANGED <<irq, boot, users, shared>>
       ELSE \E drv \in first :
            /\ device' = [device EXCEPT ![d].driver = drv]
            /\ Proceed(IF drv \in Handling /\ Line[d] # NULL
                       THEN <<[do |-> "request", who |-> Dev(d)]>> ELSE << >>)
            /\ UNCHANGED <<irq, boot, entry, device_list, driver_list, denied, shared>>

\* (Mutant: the devices that are there already are not asked.)
NewOnly == << >>
\* driver_register asks every device, the newest first.
BindAll == [n \in DOMAIN device_list |-> Step("bind", device_list[n])]

\* Every driver is registered once: the callers see to that, not driver_register.
driver_register(drv) ==
    /\ drv \notin Range(driver_list)
    /\ driver_list' = <<drv>> \o driver_list
    /\ todo' = BindAll
    /\ UNCHANGED <<irq, cpu, boot, entry, device_list, device, denied, shared>>

bus_device_add(d) == /\ device_list' = <<d>> \o device_list
                     /\ todo' = <<Step("bind", d)>>

pci_create_device(d) ==
    /\ d \notin Range(device_list)
    /\ bus_device_add(d)
    /\ UNCHANGED <<irq, cpu, boot, entry, driver_list, device, denied, shared>>

uacpi_kernel_install_interrupt_handler(h) ==
    /\ ~entry[h].handler
    /\ entry' = [entry EXCEPT ![h].handler = TRUE]
    /\ todo' = <<[do |-> "request", who |-> Acpi(h)]>>
    /\ UNCHANGED <<irq, cpu, boot, device_list, driver_list, device, denied, shared>>

uacpi_kernel_uninstall_interrupt_handler(h) ==
    /\ entry[h].handler
    /\ todo' = irq_free(entry[h].irq_vector) \o <<Step("uninstall", h)>>
    /\ UNCHANGED <<irq, cpu, boot, users, shared>>

\* irq_enable and irq_disable; the local domain does nothing.
irq_enable(v, on) ==
    /\ irq_descs[v] # NULL /\ irq_descs[v].domain = "ioapic"
    /\ redir' = IF on THEN Routed(irq_descs[v].hwirq, v) ELSE Masked(irq_descs[v].hwirq)
    /\ irq_descs' = [irq_descs EXCEPT ![v].enabled = on]
    /\ UNCHANGED <<vector_used, isr, cpu, todo, boot, users, shared>>

-----------------------------------------------------------------------------
\* pit_init makes the PIT interrupt again and again.  pit_stop lets it count
\* down a last time: one more interrupt will come.
pit_init == pit' = "on"
pit_stop == pit' = "once"

\* lapic_timer_init waits for the PIT, for a limited time.  Without a tick it
\* leaves the handler and the line as they are; else the handler goes before
\* the line is masked.
Calibrated == /\ pit_stop
              /\ Proceed(IF ticks = 0 THEN << >>
                         ELSE <<Step("unregister", CAL_VECTOR), Step("mask", 0)>>)
              /\ UNCHANGED <<irq, ticks, users, shared>>

Run(op) ==
    \/ op.do = "calibrate" /\ Handler(CAL_VECTOR, "pit") /\ Proceed(<<Step("route", 0)>>)
    \/ /\ op.do = "route" /\ redir' = apic_route_irq(0, CAL_VECTOR) /\ pit_init
       /\ Proceed(<<Step("await", NULL)>>)
       /\ UNCHANGED <<vector_used, irq_descs, isr, ticks, users, shared>>
    \/ op.do = "await" /\ Calibrated
    \/ op.do = "mask" /\ Redirect(apic_mask_irq(0)) /\ Proceed(<< >>)
    \/ op.do = "request" /\ irq_request(op.who)
    \/ op.do = "register" /\ Handler(op.arg, "irq") /\ Proceed(<< >>)
    \/ op.do = "enable" /\ Redirect(Routed(irq_descs[op.arg].hwirq, op.arg)) /\ Proceed(<< >>)
    \/ op.do = "grant" /\ Grant(op.arg, op.who) /\ Proceed(<< >>)
    \/ op.do = "deny" /\ Deny(op.who) /\ Proceed(<< >>)
    \/ op.do = "bind" /\ driver_try_bind(op.arg)
    \/ op.do = "disable" /\ Redirect(Masked(irq_descs[op.arg].hwirq)) /\ Proceed(<< >>)
    \/ op.do = "release" /\ Release(op.arg) /\ Proceed(<< >>)
    \/ op.do = "unregister" /\ Handler(op.arg, NULL) /\ Proceed(<< >>)
    \/ op.do = "forget" /\ Forget(op.arg) /\ Proceed(<< >>)
    \/ /\ op.do = "uninstall" /\ entry' = [entry EXCEPT ![op.arg] = [handler |-> FALSE, irq_vector |-> 0]]
       /\ Proceed(<< >>)
       /\ UNCHANGED <<irq, boot, device_list, driver_list, device, denied, shared>>

Thread == todo # << >> /\ Run(Head(todo)) /\ UNCHANGED cpu

Calls ==
    /\ todo = << >>
    /\ \/ \E drv \in Drivers : driver_register(drv)
       \/ \E d \in Devices : pci_create_device(d)
       \/ \E h \in AcpiIrqs : \/ uacpi_kernel_install_interrupt_handler(h)
                              \/ uacpi_kernel_uninstall_interrupt_handler(h)
       \/ \E v \in vector_used, on \in BOOLEAN : irq_enable(v, on)

-----------------------------------------------------------------------------
\* A line is raised; the IOAPIC sends its vector unless it is masked.
Raise(h) == /\ Gsi(h) \in Gsis /\ ~redir[Gsi(h)].masked
            /\ pending' = pending \cup {redir[Gsi(h)].vector}
            /\ IF h = 0 THEN pit # "off" /\ pit' = (IF pit = "once" THEN "off" ELSE pit)
               ELSE UNCHANGED pit
            /\ UNCHANGED <<irq, unacked, halted, todo, ticks, users, shared>>

\* irq_dispatch and pit_calibrate_irq send an EOI in every case,
\* legacy_syscall_handler sends none.
irq_dispatch(v) == unacked' = IF v = SYSCALL_VECTOR THEN unacked \cup {v} ELSE unacked
pit_calibrate_irq(v) == ticks' = IF v = CAL_VECTOR /\ ticks < CalTicks THEN ticks + 1 ELSE ticks

\* The APIC holds back what has no higher priority.
interrupt_isr(v) ==
    /\ v \in pending
    /\ \A w \in unacked : v \div 16 > w \div 16
    /\ pending' = pending \ {v}
    /\ irq_dispatch(v)
    /\ halted' = (v # SYSCALL_VECTOR /\ isr[v] = NULL)
    /\ pit_calibrate_irq(v)
    /\ UNCHANGED <<irq, todo, pit, users, shared>>

Interrupts == (\E h \in Lines \cup {0} : Raise(h)) \/ (\E v \in pending : interrupt_isr(v))

Next == ~halted /\ (Thread \/ Calls \/ Interrupts)

Spec == Init /\ [][Next]_vars

-----------------------------------------------------------------------------
Owners(v) == (IF v = TimerVector THEN {NULL} ELSE {})
             \cup {Dev(d) : d \in {e \in Devices : device[e].irq = v}}
             \cup {Acpi(h) : h \in {q \in AcpiIrqs : entry[q].handler /\ entry[q].irq_vector = v}}

\* Between calls a vector is taken, has a descriptor and a handler exactly if one
\* of its possible users, the timer, a device and ACPI, holds it, and the
\* descriptor is that user's: none is lost or given out twice, also when vectors
\* run out in the middle of a call (irq_request, irq_free and their callers).
VectorsOwned ==
    todo = << >> => \A v \in Vectors :
        /\ v \in vector_used <=> irq_descs[v] # NULL
        /\ Owners(v) = IF v \in vector_used THEN {irq_descs[v].who} ELSE {}
        /\ v \in vector_used <=> isr[v] = "irq"

\* At every moment, also within a call, an interrupt that is raised now finds
\* its handler and the descriptor of a user of its line: irq_request enables the
\* line last and irq_free masks it first.  There are two exceptions.  The end of
\* lapic_timer_init takes the handler of the PIT away before it masks the line:
\* between the two the last interrupt of the PIT finds none.  And the vector of
\* system calls is given out like others, though the IDT leads elsewhere.
LinesReady ==
    \A g \in Gsis :
        LET v == redir[g].vector
        IN \/ redir[g].masked
           \/ v = SYSCALL_VECTOR
           \/ v = CAL_VECTOR /\ (isr[v] = "pit" \/ (g = Gsi(0) /\ todo = <<Step("mask", 0)>>))
           \/ v \in Vectors /\ isr[v] = "irq" /\ irq_descs[v] # NULL /\ Gsi(irq_descs[v].hwirq) = g

\* Between calls the line of a user that never had to share it leads to the
\* user's vector, and is masked exactly if the user disabled it; a line that
\* nobody uses any more is masked, whatever overrides there are.
LinesServed ==
    todo = << >> => \A g \in Gsis \ shared :
        /\ \A v \in Live(g) : redir[g] = [vector |-> v, masked |-> ~irq_descs[v].enabled]
        /\ Live(g) = {} => redir[g].masked \/ redir[g].vector = CAL_VECTOR

\* In whatever order drivers and devices appear, a device has a driver exactly
\* if some driver fits it, that driver fits, and if it handles interrupts the
\* device has a vector unless there was none (driver_register, bus_device_add).
DevicesBound ==
    todo = << >> => \A d \in Devices :
        LET fit == {drv \in Range(driver_list) : Matches(drv, d)}
        IN /\ IF d \in Range(device_list) /\ fit # {} THEN device[d].driver \in fit
              ELSE device[d].driver = NULL
           /\ device[d].irq # 0 <=> device[d].driver \in Handling /\ Line[d] # NULL /\ d \notin denied
=============================================================================
