----------------------------- MODULE MCUsbWrite -----------------------------
(* Two writers over a buffer that holds three bytes and an URB of two.     *)
EXTENDS UsbWrite

CONSTANTS User, Echo

MCWriters == {User, Echo}

=============================================================================
