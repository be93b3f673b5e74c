--------------------------- MODULE AbstractSuspend ---------------------------
(***************************************************************************)
(* What the early-suspend coordinator promises, without work queues,      *)
(* locks or wake locks: the user sets a requested state, and the applied  *)
(* state (the one the handlers have been told) follows it.                *)
(***************************************************************************)
VARIABLES requested, applied

avars == <<requested, applied>>

States == {"on", "sleep"}

Init == requested = "on" /\ applied = "on"

(* The user asks for a state (request_suspend_state).                      *)
Request(r) == requested' = r /\ UNCHANGED applied

(* The coordinator applies the requested state.                            *)
Apply == applied # requested /\ applied' = requested /\ UNCHANGED requested

Next == (\E r \in States : Request(r)) \/ Apply

Spec == Init /\ [][Next]_avars /\ WF_avars(Apply)

=============================================================================
