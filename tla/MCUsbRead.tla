----------------------------- MODULE MCUsbRead ------------------------------
(* A task that waits for DSR or the carrier, and a device that reports      *)
(* nothing, a framing error (whose bits are also DSR and RING) or the       *)
(* carrier.                                                                 *)
EXTENDS UsbRead

CONSTANT Alice

MCTasks   == {Alice}
MCReports == {{}, FRAME, {8}}
MCMask    == [t \in MCTasks |-> {2, 8}]

=============================================================================
