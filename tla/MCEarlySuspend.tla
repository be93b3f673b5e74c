--------------------------- MODULE MCEarlySuspend ---------------------------
(* Three handlers; two share a level so that registration order matters.   *)
EXTENDS EarlySuspend

CONSTANTS h1, h2, h3

MCHandlers == {h1, h2, h3}
MCLevel == (h1 :> 5) @@ (h2 :> 1) @@ (h3 :> 5)

=============================================================================
