---------------------------- MODULE EarlySuspend ----------------------------
(***************************************************************************)
(* The Android early-suspend coordinator, kernel/power/earlysuspend.c.    *)
(*                                                                         *)
(* request_suspend_state() flips the SUSPEND_REQUESTED bit under          *)
(* state_lock and queues early_suspend_work or late_resume_work on the    *)
(* single-threaded suspend work queue.  The work functions check the      *)
(* state bits again, set or clear SUSPENDED, and call every registered    *)
(* handler in list order (suspend) or reverse list order (resume).        *)
(* early_suspend() blocks in sys_sync() after calling the handlers and    *)
(* only then decides whether to drop main_wake_lock, so a request can     *)
(* interleave between its two halves: that is the one suspension point   *)
(* of the worker that is visible to the other actors.                     *)
(*                                                                         *)
(* early_suspend_lock is held only inside single steps of this model (the *)
(* handler loops, register and unregister), so it needs no variable.      *)
(***************************************************************************)
EXTENDS Naturals, Sequences, SequencesExt

CONSTANTS
  Handlers,      \* struct early_suspend objects that may register
  Level          \* handler -> its ->level

ASSUME Level \in [Handlers -> Nat]

\* The two bits of the static "state" word.
SR == "SUSPEND_REQUESTED"
SU == "SUSPENDED"

\* The two work items of the suspend work queue.
ESWork == "early_suspend_work"
LRWork == "late_resume_work"

\* suspend_state_t values: PM_SUSPEND_ON and a sleep state.
On  == "PM_SUSPEND_ON"
Mem == "PM_SUSPEND_MEM"

VARIABLES
  state,          \* subset of {SR, SU}
  requested,      \* requested_suspend_state
  wakeLocked,     \* main_wake_lock held
  queue,          \* pending works of suspend_work_queue, FIFO
  wpc,            \* the suspend worker: "idle" or "sync" (early_suspend in sys_sync)
  list,           \* early_suspend_handlers, in list order
  regOrder,       \* auxiliary: registered handlers in order of registration
  regStatus,      \* handler -> "new" | "in" | "out"
  hview           \* handler -> the last callback it received

vars == <<state, requested, wakeLocked, queue, wpc, list, regOrder, regStatus, hview>>

TypeOK ==
  /\ state \subseteq {SR, SU}
  /\ requested \in {On, Mem}
  /\ wakeLocked \in BOOLEAN
  /\ queue \in Seq({ESWork, LRWork})
  /\ wpc \in {"idle", "sync"}
  /\ list \in Seq(Handlers)
  /\ regOrder \in Seq(Handlers)
  /\ regStatus \in [Handlers -> {"new", "in", "out"}]
  /\ hview \in [Handlers -> {"awake", "suspended"}]

(* queue_work(): a work whose PENDING bit is set is not queued twice.      *)
QueueWork(q, w) == IF w \in ToSet(q) THEN q ELSE Append(q, w)

(* Every handler on the list is called; callbacks are modelled by what    *)
(* they tell the handler.                                                  *)
Notify(view) == [h \in Handlers |-> IF h \in ToSet(list) THEN view ELSE hview[h]]

Init ==
  /\ state = {}
  /\ requested = On
  /\ wakeLocked = TRUE
  /\ queue = <<>>
  /\ wpc = "idle"
  /\ list = <<>>
  /\ regOrder = <<>>
  /\ regStatus = [h \in Handlers |-> "new"]
  /\ hview = [h \in Handlers |-> "awake"]

(* register_early_suspend(): insert before the first entry of a greater   *)
(* level, then call ->suspend at once if the system is already SUSPENDED. *)
\* Variant: insert after entries of an equal level is lost (>= for >).
InsertPosBeforeEqual(l, h) ==
  LET i == SelectInSeq(l, LAMBDA e : Level[e] >= Level[h])
  IN  IF i = 0 THEN Len(l) + 1 ELSE i

InsertPos(l, h) ==
  LET i == SelectInSeq(l, LAMBDA e : Level[e] > Level[h])
  IN  IF i = 0 THEN Len(l) + 1 ELSE i

RegisterEarlySuspend(h) ==
  /\ regStatus[h] = "new"
  /\ list' = InsertAt(list, InsertPos(list, h), h)
  /\ regOrder' = Append(regOrder, h)
  /\ regStatus' = [regStatus EXCEPT ![h] = "in"]
  /\ hview' = IF SU \in state THEN [hview EXCEPT ![h] = "suspended"] ELSE hview
  /\ UNCHANGED <<state, requested, wakeLocked, queue, wpc>>

(* unregister_early_suspend(): list_del under the mutex.                  *)
UnregisterEarlySuspend(h) ==
  /\ regStatus[h] = "in"
  /\ list' = Remove(list, h)
  /\ regOrder' = Remove(regOrder, h)
  /\ regStatus' = [regStatus EXCEPT ![h] = "out"]
  /\ UNCHANGED <<state, requested, wakeLocked, queue, wpc, hview>>

(* request_suspend_state(new_state), all under state_lock.                *)
RequestSuspendState(ns) ==
  LET oldSleep == SR \in state IN
  /\ \/ /\ ~oldSleep /\ ns # On
        /\ state' = state \cup {SR}
        /\ queue' = QueueWork(queue, ESWork)
        /\ UNCHANGED wakeLocked
     \/ /\ oldSleep /\ ns = On
        /\ state' = state \ {SR}
        /\ wakeLocked' = TRUE
        /\ queue' = QueueWork(queue, LRWork)
     \/ /\ ~(~oldSleep /\ ns # On) /\ ~(oldSleep /\ ns = On)
        /\ UNCHANGED <<state, wakeLocked, queue>>
  /\ requested' = ns
  /\ UNCHANGED <<wpc, list, regOrder, regStatus, hview>>

(* The abort: label of early_suspend(): main_wake_lock is dropped only if *)
(* the system is still both requested to sleep and suspended.             *)
\* Variants: the abort: label always unlocks, or never does.
AbortLabelAlwaysUnlock == FALSE
AbortLabelNeverUnlock == wakeLocked

AbortLabelWakeLock == IF state = {SR, SU} THEN FALSE ELSE wakeLocked

(* early_suspend(), up to sys_sync(): check and set SUSPENDED and call the *)
(* handlers in list order; on a state mismatch go straight to abort:.     *)
EarlySuspendWork ==
  /\ wpc = "idle"
  /\ queue # <<>> /\ Head(queue) = ESWork
  /\ queue' = Tail(queue)
  /\ IF state = {SR}
       THEN /\ state' = {SR, SU}
            /\ hview' = Notify("suspended")
            /\ wpc' = "sync"
            /\ UNCHANGED wakeLocked
       ELSE /\ UNCHANGED <<state, hview, wpc>>
            /\ wakeLocked' = AbortLabelWakeLock
  /\ UNCHANGED <<requested, list, regOrder, regStatus>>

(* early_suspend() after sys_sync(): the abort: label.                     *)
EarlySuspendSynced ==
  /\ wpc = "sync"
  /\ wpc' = "idle"
  /\ wakeLocked' = AbortLabelWakeLock
  /\ UNCHANGED <<state, requested, queue, list, regOrder, regStatus, hview>>

\* Variants of late_resume(): the handlers are not called, or SUSPENDED is
\* cleared whenever it is set, without checking SUSPEND_REQUESTED.
LateResumeWorkNoNotify ==
  /\ wpc = "idle"
  /\ queue # <<>> /\ Head(queue) = LRWork
  /\ queue' = Tail(queue)
  /\ state' = IF state = {SU} THEN {} ELSE state
  /\ UNCHANGED <<requested, wakeLocked, wpc, list, regOrder, regStatus, hview>>

LateResumeWorkLax ==
  /\ wpc = "idle"
  /\ queue # <<>> /\ Head(queue) = LRWork
  /\ queue' = Tail(queue)
  /\ IF SU \in state
       THEN /\ state' = state \ {SU}
            /\ hview' = Notify("awake")
       ELSE UNCHANGED <<state, hview>>
  /\ UNCHANGED <<requested, wakeLocked, wpc, list, regOrder, regStatus>>

(* late_resume(): check and clear SUSPENDED, call the handlers in reverse *)
(* list order; on a mismatch just unlock.                                  *)
LateResumeWork ==
  /\ wpc = "idle"
  /\ queue # <<>> /\ Head(queue) = LRWork
  /\ queue' = Tail(queue)
  /\ IF state = {SU}
       THEN /\ state' = {}
            /\ hview' = Notify("awake")
       ELSE UNCHANGED <<state, hview>>
  /\ UNCHANGED <<requested, wakeLocked, wpc, list, regOrder, regStatus>>

Next ==
  \/ \E ns \in {On, Mem} : RequestSuspendState(ns)
  \/ EarlySuspendWork
  \/ EarlySuspendSynced
  \/ LateResumeWork
  \/ \E h \in Handlers : RegisterEarlySuspend(h)
  \/ \E h \in Handlers : UnregisterEarlySuspend(h)

(* The suspend work queue's thread is a kernel thread the scheduler keeps *)
(* running: a queued work is eventually executed.                          *)
Fairness ==
  /\ WF_vars(EarlySuspendWork)
  /\ WF_vars(EarlySuspendSynced)
  /\ WF_vars(LateResumeWork)

Spec == Init /\ [][Next]_vars /\ Fairness

-----------------------------------------------------------------------------
(* Properties *)

(* main_wake_lock is never released while the user has asked to be awake: *)
(* early_suspend() may still be in sys_sync() when a wakeup request takes  *)
(* the lock again, and its abort: label must then keep it.                 *)
WakeLockHeldWhileAwake == SR \notin state => wakeLocked

(* Once the suspend queue has drained, the SUSPENDED bit agrees with the   *)
(* request and every registered handler was last told the same thing,     *)
(* whatever order requests, works and registrations interleaved in.       *)
QuiescentAgreement ==
  (queue = <<>> /\ wpc = "idle") =>
    /\ (SU \in state) <=> (SR \in state)
    /\ \A h \in ToSet(list) :
         hview[h] = IF SU \in state THEN "suspended" ELSE "awake"

(* register_early_suspend() keeps the list ordered by ascending level, and *)
(* handlers of equal level in the order they registered, so suspend calls  *)
(* them by ascending and resume by descending level.                       *)
HandlerListOrdered ==
  /\ ToSet(list) = ToSet(regOrder)
  /\ \A i, j \in 1..Len(list) : i < j =>
       \/ Level[list[i]] < Level[list[j]]
       \/ /\ Level[list[i]] = Level[list[j]]
          /\ SelectInSeq(regOrder, LAMBDA e : e = list[i])
               < SelectInSeq(regOrder, LAMBDA e : e = list[j])

(* A suspend request that is not revoked takes effect: SUSPENDED is set   *)
(* and main_wake_lock released.                                            *)
SuspendTakesEffect ==
  (SR \in state) ~> (SR \notin state \/ (SU \in state /\ ~wakeLocked))

(* The coordinator implements the abstract suspend state machine: the     *)
(* applied state only ever moves to the requested one, and eventually does.*)
Abstract == INSTANCE AbstractSuspend WITH
  requested <- IF SR \in state THEN "sleep" ELSE "on",
  applied   <- IF SU \in state THEN "sleep" ELSE "on"

AbstractSpecHolds == Abstract!Spec

=============================================================================
