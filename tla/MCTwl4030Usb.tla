---------------------------- MODULE MCTwl4030Usb ----------------------------
(* Cable sets for the runs: a charger or host cable only, or also the OTG *)
(* adapter that grounds ID.                                                *)
EXTENDS Twl4030Usb

MCVbusCables == {NONE, VBUS}
MCAllCables  == {NONE, VBUS, ID}

=============================================================================
