----------------------------- MODULE MCSettings -----------------------------
(* A small instance of Settings.                                           *)
EXTENDS Settings

(* What may be connected, and where the launcher was started from.         *)
MCMachines == {<<{"mc", "usb"}, "usb">>, <<{"mc", "hdd"}, "hdd">>,
               <<{"usb", "hdd"}, "mc">>}
=============================================================================
