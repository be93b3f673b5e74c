----------------------------- MODULE Twl4030Usb -----------------------------
(***************************************************************************)
(* The TWL4030 USB transceiver driver, drivers/usb/otg/twl4030-usb.c      *)
(* (CONFIG_LGE_OMAP3_EXT_PWR on, as on this board).                        *)
(*                                                                         *)
(* Actors:                                                                 *)
(*  - the threaded handler twl4030_usb_irq() of the USB_PRES line.  It is *)
(*    IRQF_ONESHOT: one run at a time; edges during a run are latched and *)
(*    coalesce into one more run, which reads only the final cable state; *)
(*  - probe(), which calls twl4030_usb_irq() itself once after            *)
(*    request_threaded_irq() ("fake an IRQ");                              *)
(*  - the delayed work twl4030_usb_wq_func() that drops the wake lock.    *)
(* None of them takes a lock around asleep, the PHY or the wake lock.     *)
(* twl4030_phy_power() blocks (msleep(250) before powering off, the DPLL  *)
(* poll after powering on): the end of each is a step of its own.         *)
(* lge_usb_dp_dm_check() powers the PHY up and down again with balanced   *)
(* regulator calls; it is one step whose effect is the PHY powered down.  *)
(* get_external_power_status() returns what the driver last passed to     *)
(* set_external_power_detect().                                            *)
(***************************************************************************)
EXTENDS Naturals

CONSTANTS
  Cables,        \* cable states the STS_HW_CONDITIONS register may show
  ReadMayFail,   \* the i2c read of STS_HW_CONDITIONS may fail
  ProbeRaces     \* a real IRQ may run while probe's fake IRQ runs

\* enum usb_xceiv_events, also the cable states they report
NONE == "USB_EVENT_NONE"
VBUS == "USB_EVENT_VBUS"
ID   == "USB_EVENT_ID"
Events == {NONE, VBUS, ID}

ASSUME Cables \subseteq Events /\ NONE \in Cables

IrqThread == "irq_thread"
Probe     == "probe"
Actors == {IrqThread, Probe}

MaxRegUse == 3      \* bound of the regulator use count (an int in the core)

VARIABLES
  cable,        \* what STS_HW_CONDITIONS shows
  irqPending,   \* a latched USB_PRES edge not yet handled
  linkstat,     \* twl->linkstat
  asleep,       \* twl->asleep
  phyOn,        \* PHY_PWR_CTRL.PHYPWD clear: the PHY is powered
  regUse,       \* use count of the usb1v5/usb1v8 regulators
  extPwr,       \* last value passed to set_external_power_detect()
  wakeLocked,   \* the_wlock.wake_lock_on, and the wake lock held
  unlockQueued, \* twl4030_usb_wq (the delayed unlock) is pending
  act           \* actor -> [pc, st]: where it is and its first linkstat

vars == <<cable, irqPending, linkstat, asleep, phyOn, regUse, extPwr,
          wakeLocked, unlockQueued, act>>

Pcs == {"start", "idle", "off", "on", "tail", "exit"}

TypeOK ==
  /\ cable \in Cables
  /\ irqPending \in BOOLEAN
  /\ linkstat \in Events
  /\ asleep \in BOOLEAN /\ phyOn \in BOOLEAN
  /\ regUse \in 0..MaxRegUse
  /\ extPwr \in BOOLEAN /\ wakeLocked \in BOOLEAN /\ unlockQueued \in BOOLEAN
  /\ act \in [Actors -> [pc : Pcs, st : Events]]

(* The register reads a linkstat may see: the cable, or an i2c error.     *)
Reads == IF ReadMayFail THEN {cable, "err"} ELSE {cable}

(* twl4030_usb_linkstat(): an error leaves linkstat at USB_EVENT_NONE.     *)
Event(r) == IF r = "err" THEN NONE ELSE r

(* Probe: twl->asleep = 1, regulators off, the fake IRQ about to run.     *)
Init ==
  /\ cable \in Cables
  /\ irqPending = FALSE
  /\ linkstat = NONE
  /\ asleep = TRUE /\ phyOn = FALSE /\ regUse = 0
  /\ extPwr = FALSE
  /\ wakeLocked = FALSE /\ unlockQueued = FALSE
  /\ act = [t \in Actors |-> [pc |-> IF t = Probe THEN "start" ELSE "idle", st |-> NONE]]

(* The cable is plugged or pulled: USB_PRES changes and an edge latches.  *)
CableChange(c) ==
  /\ c # cable
  /\ cable' = c
  /\ irqPending' = TRUE
  /\ UNCHANGED <<linkstat, asleep, phyOn, regUse, extPwr, wakeLocked, unlockQueued, act>>

(* twl4030_phy_resume() once twl->asleep was found set: linkstat again    *)
(* (twl4030_usb_irq_occured is clear now, so without charger calls); at  *)
(* USB_EVENT_NONE return, else power on (regulators enabled, PHYPWD       *)
(* cleared) and go on to the DPLL poll.  phy0 is the PHY before.  The    *)
(* use count is capped at MaxRegUse.                                        *)
PhyResumeRead(t, ev, r, phy0) ==
  LET ev2 == Event(r) IN
  /\ linkstat' = ev2
  /\ IF ev2 = NONE
       THEN /\ phyOn' = phy0 /\ UNCHANGED regUse
            /\ act' = [act EXCEPT ![t] = [pc |-> "tail", st |-> ev]]
       ELSE /\ regUse < MaxRegUse
            /\ phyOn' = TRUE /\ regUse' = regUse + 1
            /\ act' = [act EXCEPT ![t] = [pc |-> "on", st |-> ev]]

(* The charger calls of twl4030_usb_linkstat() after an IRQ: USB_EVENT_NONE *)
(* -> set_external_power_detect(0), USB_EVENT_VBUS -> (after               *)
(* lge_usb_dp_dm_check()) set_external_power_detect(1), USB_EVENT_ID none. *)
ExtPwrAfter(ev) == CASE ev = NONE -> FALSE [] ev = VBUS -> TRUE [] OTHER -> extPwr

(* lge_usb_dp_dm_check() gets past its early return (external power not   *)
(* yet known; factory LT cables are not modelled) and ends with the PHY   *)
(* powered down.                                                           *)
DpDmCheckRuns(ev) == ev = VBUS /\ ~extPwr

(* twl4030_usb_irq() up to the end of the PHY call's first half: set      *)
(* twl4030_usb_irq_occured and read linkstat, which tells the charger;    *)
(* twl->linkstat is stored; then twl4030_phy_suspend() on USB_EVENT_NONE, *)
(* else twl4030_phy_resume(), each returning at once if the PHY is        *)
(* already in that state.                                                  *)
HandleIrq(t) ==
  \E r1, r2 \in Reads :
    LET ev   == Event(r1)
        phy0 == IF DpDmCheckRuns(ev) THEN FALSE ELSE phyOn
    IN  /\ extPwr' = ExtPwrAfter(ev)
        /\ IF ev = NONE \/ ~asleep
             THEN /\ linkstat' = ev /\ phyOn' = phy0 /\ UNCHANGED regUse
                  /\ act' = [act EXCEPT ![t] =
                               [pc |-> IF ev = NONE /\ ~asleep THEN "off" ELSE "tail",
                                st |-> ev]]
             ELSE PhyResumeRead(t, ev, r2, phy0)

(* The IRQ thread takes a latched edge.  Unless ProbeRaces, real IRQs    *)
(* only run once probe's fake one has finished.                            *)
IrqThreadRun ==
  /\ act[IrqThread].pc = "idle" /\ irqPending
  /\ ProbeRaces \/ act[Probe].pc = "exit"
  /\ irqPending' = FALSE
  /\ HandleIrq(IrqThread)
  /\ UNCHANGED <<cable, asleep, wakeLocked, unlockQueued>>

(* probe() calls twl4030_usb_irq() to learn the initial cable state.      *)
ProbeFakeIrq ==
  /\ act[Probe].pc = "start"
  /\ HandleIrq(Probe)
  /\ UNCHANGED <<cable, irqPending, asleep, wakeLocked, unlockQueued>>

(* twl4030_phy_power(twl, 0) after its msleep(250): PHYPWD set, both      *)
(* regulators disabled (a disable at use count 0 is refused), and         *)
(* twl4030_phy_suspend() sets twl->asleep.                                *)
PhyOffDone(t) ==
  /\ act[t].pc = "off"
  /\ phyOn' = FALSE
  /\ regUse' = IF regUse > 0 THEN regUse - 1 ELSE 0
  /\ asleep' = TRUE
  /\ act' = [act EXCEPT ![t].pc = "tail"]
  /\ UNCHANGED <<cable, irqPending, linkstat, extPwr, wakeLocked, unlockQueued>>

\* Variant: twl->asleep is left set after powering on.
PhyOnDoneKeepAsleep(t) ==
  /\ act[t].pc = "on"
  /\ act' = [act EXCEPT ![t].pc = "tail"]
  /\ UNCHANGED <<cable, irqPending, linkstat, asleep, phyOn, regUse, extPwr, wakeLocked, unlockQueued>>

(* The DPLL poll and the ULPI mode set are done; twl->asleep = 0.          *)
PhyOnDone(t) ==
  /\ act[t].pc = "on"
  /\ asleep' = FALSE
  /\ act' = [act EXCEPT ![t].pc = "tail"]
  /\ UNCHANGED <<cable, irqPending, linkstat, phyOn, regUse, extPwr, wakeLocked, unlockQueued>>

(* The tail of twl4030_usb_irq(): after the notifier chain, on a          *)
(* disconnect with the wake lock taken, schedule its release in 500 ms    *)
(* (no effect if already scheduled); on VBUS, take it if not taken.       *)
IrqTail(t) ==
  LET st == act[t].st IN
  /\ act[t].pc = "tail"
  /\ unlockQueued' = (unlockQueued \/ (st = NONE /\ wakeLocked))
  /\ wakeLocked' = (wakeLocked \/ st = VBUS)
  /\ act' = [act EXCEPT ![t].pc = IF t = Probe THEN "exit" ELSE "idle"]
  /\ UNCHANGED <<cable, irqPending, linkstat, asleep, phyOn, regUse, extPwr>>

(* twl4030_usb_wq_func(): wake_unlock and wake_lock_on = 0.               *)
DelayedUnlock ==
  /\ unlockQueued
  /\ unlockQueued' = FALSE
  /\ wakeLocked' = FALSE
  /\ UNCHANGED <<cable, irqPending, linkstat, asleep, phyOn, regUse, extPwr, act>>

Next ==
  \/ \E c \in Cables : CableChange(c)
  \/ IrqThreadRun
  \/ ProbeFakeIrq
  \/ \E t \in Actors : PhyOffDone(t) \/ PhyOnDone(t) \/ IrqTail(t)
  \/ DelayedUnlock

(* The IRQ thread is a kernel thread woken by the edge; probe runs to its *)
(* end; the PHY calls return; the delayed work runs after its 500 ms.     *)
(* Cable changes get no fairness.                                         *)
Fairness ==
  /\ WF_vars(IrqThreadRun) /\ WF_vars(ProbeFakeIrq) /\ WF_vars(DelayedUnlock)
  /\ \A t \in Actors : WF_vars(PhyOffDone(t)) /\ WF_vars(PhyOnDone(t)) /\ WF_vars(IrqTail(t))

Spec == Init /\ [][Next]_vars /\ Fairness

-----------------------------------------------------------------------------
(* Properties *)

Quiet == \A t \in Actors : act[t].pc \in {"idle", "exit"}

(* Whenever no handler run is in progress, the PHY is powered exactly     *)
(* when twl->asleep is clear, and the regulators are enabled once for it. *)
(* It is not a run: with charger cables only and probe's fake IRQ done    *)
(* before real ones it holds, but then nothing can break it; with a real *)
(* IRQ during the fake one (the unlocked asleep test-then-act) the PHY is *)
(* resumed twice, and with the ID cable lge_usb_dp_dm_check() powers down *)
(* a PHY resumed for ID while twl->asleep stays clear.                    *)
PhyStateConsistent ==
  Quiet => /\ phyOn = ~asleep
           /\ regUse = IF asleep THEN 0 ELSE 1

(* Once the latest edge has been handled and nothing is in progress, the  *)
(* wake lock is held while VBUS is present: a delayed release scheduled   *)
(* at an earlier disconnect does not drop it after a reconnect.           *)
WakeLockWhileVbus ==
  (Quiet /\ ~irqPending /\ cable = VBUS) => wakeLocked

(* A connected cable gets a powered PHY, unless it is pulled again.       *)
PhyFollowsCable == (cable # NONE) ~> (cable = NONE \/ (phyOn /\ ~asleep))

=============================================================================
