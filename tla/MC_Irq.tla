------------------------------- MODULE MC_Irq -------------------------------
(* Model-checking instance of Irq. *)
EXTENDS Irq, TLC

CONSTANTS net, disk, old, new

\* The line of the PIT and one of ACPI are overridden; 30 has no pin.
MCIso == (0 :> 2) @@ (9 :> 4)
MCLine == (net :> 5) @@ (disk :> 5)
MCDeviceId == (net :> [class |-> 2, vendor_id |-> 7]) @@ (disk :> [class |-> 1, vendor_id |-> 7])
\* The old driver is for any device of the vendor, the new one for one class.
Mid_table == (old :> {[class |-> 0, vendor_id |-> 7]}) @@ (new :> {[class |-> 2, vendor_id |-> 0]})
=============================================================================
