---------------------------- MODULE HubModemCtrl ----------------------------
(***************************************************************************)
(* The modem control driver drivers/hub/hub_modem_ctrl.c (the RIL        *)
(* recovery build with CONFIG_LGE_MDM_FOTA).                               *)
(*                                                                         *)
(* Two sequences drive the modem's RESET and POWER lines, each blocking   *)
(* in msleep() between its GPIO writes:                                    *)
(*  - the boot check, a delayed work scheduled 15 s after probe; when the *)
(*    CP has not reported RIL init (cp_ril_init == 0) and no FOTA session *)
(*    was started, it runs modem_reset_restart_to_ril_recovery();         *)
(*  - a write of 99 to the fota_gpio_ctrl sysfs file, which runs          *)
(*    modem_ctrl_reset() in the writer's context.                         *)
(* Both end up in modem_ctrl_reset() -> modem_ctrl_power_down().  Each of *)
(* the three wake locks is taken only "if not active" and dropped "if     *)
(* active", with no lock around either test.  The RIL-init IRQ and the    *)
(* other sysfs stores (power_ctrl, reset_ctrl, ril_fail, cp_ril_init) are *)
(* single steps that may come at any time.                                 *)
(***************************************************************************)
EXTENDS Naturals

CONSTANTS
  FotaValues,     \* values written to fota_gpio_ctrl
  LineValues,     \* values written to power_ctrl / reset_ctrl
  RilFailValues,  \* values written to ril_fail
  RilInitValues   \* values written to cp_ril_init

Check == "boot_check"     \* the kworker running cp_boot_check_workq_func
Fota  == "fota_store"     \* the process writing fota_gpio_ctrl
Actors == {Check, Fota}

(* Where an actor is: not in a sequence, in the msleep(250) of            *)
(* modem_ctrl_power_down(), in the msleep(3000) of modem_ctrl_reset(), or *)
(* in the recovery's msleep(3000) after it.                                *)
Pcs == {"idle", "pd_wait", "pwr_wait", "boot_wait"}

VARIABLES
  rilInit,       \* cp_ril_init
  fotaPrgress,   \* fota_prgress
  fotaGpio,      \* MODEM_FOTA_CTRL_GPIO
  rilFail,       \* ril_fail
  checkQueued,   \* cp_boot_check_workq is pending
  gpioPower,     \* MODEM_POWER_CTRL_GPIO
  gpioReset,     \* MODEM_RESET_CTRL_GPIO
  powerCtrl,     \* modem_ctrl.power_ctrl
  resetCtrl,     \* modem_ctrl.reset_ctrl
  wlPowerOn,     \* modem_power_on_wake_lock active
  wlPowerDown,   \* modem_power_down_wake_lock active
  wlRecover,     \* ril_recover_wake_lock active
  downProc,      \* modem_power_down_prcess
  act,           \* actor -> Pcs
  panicked       \* panic("Ril Fail") was called

vars == <<rilInit, fotaPrgress, fotaGpio, rilFail, checkQueued, gpioPower,
          gpioReset, powerCtrl, resetCtrl, wlPowerOn, wlPowerDown, wlRecover,
          downProc, act, panicked>>

TypeOK ==
  /\ rilInit \in RilInitValues \cup {0, 1}
  /\ fotaPrgress \in {0, 1} /\ fotaGpio \in {0, 1}
  /\ rilFail \in RilFailValues \cup {0}
  /\ checkQueued \in BOOLEAN
  /\ gpioPower \in {0, 1} /\ gpioReset \in {0, 1}
  /\ powerCtrl \in LineValues \cup {0} /\ resetCtrl \in LineValues \cup {0}
  /\ {wlPowerOn, wlPowerDown, wlRecover, panicked} \subseteq BOOLEAN
  /\ downProc \in {0, 1}
  /\ act \in [Actors -> Pcs]

(* After modem_ctrl_probe(): the RESET and FOTA lines driven low, the     *)
(* POWER line as the boot loader left it (released), the boot check       *)
(* scheduled, and cancelled again with cp_ril_init = 1 when the RIL-init  *)
(* line is already high (or its IRQ came between request_irq() and        *)
(* schedule_delayed_work()).                                               *)
Init ==
  /\ \E high \in BOOLEAN :
       /\ rilInit = IF high THEN 1 ELSE 0
       /\ checkQueued = ~high
  /\ fotaPrgress = 0 /\ fotaGpio = 0 /\ rilFail = 0
  /\ gpioPower = 0 /\ gpioReset = 0 /\ powerCtrl = 0 /\ resetCtrl = 0
  /\ wlPowerOn = FALSE /\ wlPowerDown = FALSE /\ wlRecover = FALSE
  /\ downProc = 0
  /\ act = [a \in Actors |-> "idle"]
  /\ panicked = FALSE

-----------------------------------------------------------------------------
(* modem_ctrl_reset() up to the msleep(250) of modem_ctrl_power_down():   *)
(* both wake locks taken (a no-op when already active),                   *)
(* modem_power_down_prcess = 1, the RESET line driven high.               *)
ResetBegin(a) ==
  /\ wlPowerOn' = TRUE /\ downProc' = 1
  /\ wlPowerDown' = TRUE /\ gpioReset' = 1
  /\ act' = [act EXCEPT ![a] = "pd_wait"]

(* mdm_ril_init_check_handler(): the CP raised the RIL-init line.         *)
(* cancel_delayed_work() removes a pending boot check (not a running one). *)
RilInitIrq ==
  /\ ~panicked
  /\ checkQueued' = FALSE /\ rilInit' = 1
  /\ UNCHANGED <<fotaPrgress, fotaGpio, rilFail, gpioPower, gpioReset,
                 powerCtrl, resetCtrl, wlPowerOn, wlPowerDown, wlRecover,
                 downProc, act, panicked>>

(* modem_reset_restart_to_ril_recovery() up to its modem_ctrl_reset():   *)
(* cp_ril_init = 0, panic if ril_fail == 99, else take                    *)
(* ril_recover_wake_lock, modem_power_down_prcess = 1.                     *)
RecoveryBegin ==
  /\ rilInit' = 0
  /\ IF rilFail = 99
       THEN /\ panicked' = TRUE
            /\ UNCHANGED <<gpioReset, wlPowerOn, wlPowerDown, wlRecover, downProc, act>>
       ELSE /\ wlRecover' = TRUE /\ ResetBegin(Check)
            /\ UNCHANGED panicked

(* cp_boot_check_workq_func(): skip when a FOTA session was started or    *)
(* the CP reported, else start the recovery.                               *)
CheckRun ==
  /\ ~panicked /\ checkQueued /\ act[Check] = "idle"
  /\ checkQueued' = FALSE
  /\ IF fotaPrgress = 1 \/ rilInit # 0
       THEN UNCHANGED <<rilInit, gpioReset, wlPowerOn, wlPowerDown, wlRecover,
                        downProc, act, panicked>>
       ELSE RecoveryBegin
  /\ UNCHANGED <<fotaPrgress, fotaGpio, rilFail, gpioPower, powerCtrl, resetCtrl>>

\* Variant: modem_ctrl_power_down() leaves its wake lock held.
PowerDownDoneNoUnlock(a) ==
  /\ ~panicked /\ act[a] = "pd_wait"
  /\ gpioReset' = 0 /\ gpioPower' = 1
  /\ act' = [act EXCEPT ![a] = "pwr_wait"]
  /\ UNCHANGED <<rilInit, fotaPrgress, fotaGpio, rilFail, checkQueued,
                 powerCtrl, resetCtrl, wlPowerOn, wlPowerDown, wlRecover,
                 downProc, panicked>>

(* After msleep(250): RESET low, modem_power_down_wake_lock dropped if    *)
(* active; back in modem_ctrl_reset(), the POWER line driven high.         *)
PowerDownDone(a) ==
  /\ ~panicked /\ act[a] = "pd_wait"
  /\ gpioReset' = 0 /\ wlPowerDown' = FALSE /\ gpioPower' = 1
  /\ act' = [act EXCEPT ![a] = "pwr_wait"]
  /\ UNCHANGED <<rilInit, fotaPrgress, fotaGpio, rilFail, checkQueued,
                 powerCtrl, resetCtrl, wlPowerOn, wlRecover, downProc, panicked>>

(* After msleep(3000): POWER low, modem_power_down_prcess = 0,            *)
(* modem_power_on_wake_lock dropped if active.  The boot check goes on to *)
(* the recovery's msleep(3000); the sysfs writer returns.                  *)
PowerOnDone(a) ==
  /\ ~panicked /\ act[a] = "pwr_wait"
  /\ gpioPower' = 0 /\ downProc' = 0 /\ wlPowerOn' = FALSE
  /\ act' = [act EXCEPT ![a] = IF a = Check THEN "boot_wait" ELSE "idle"]
  /\ UNCHANGED <<rilInit, fotaPrgress, fotaGpio, rilFail, checkQueued,
                 gpioReset, powerCtrl, resetCtrl, wlPowerDown, wlRecover, panicked>>

(* The end of the recovery: modem_power_down_prcess = 0,                  *)
(* ril_recover_wake_lock dropped if active.                                *)
RecoveryDone ==
  /\ ~panicked /\ act[Check] = "boot_wait"
  /\ downProc' = 0 /\ wlRecover' = FALSE
  /\ act' = [act EXCEPT ![Check] = "idle"]
  /\ UNCHANGED <<rilInit, fotaPrgress, fotaGpio, rilFail, checkQueued,
                 gpioPower, gpioReset, powerCtrl, resetCtrl, wlPowerOn,
                 wlPowerDown, panicked>>

(* modem_fota_gpio_ctrl_store(v): fota_prgress = 1, the FOTA line set to  *)
(* !!v, and on 99 modem_ctrl_reset().                                      *)
FotaStore(v) ==
  /\ ~panicked /\ act[Fota] = "idle"
  /\ fotaPrgress' = 1 /\ fotaGpio' = IF v # 0 THEN 1 ELSE 0
  /\ IF v = 99
       THEN ResetBegin(Fota)
       ELSE UNCHANGED <<gpioReset, wlPowerOn, wlPowerDown, downProc, act>>
  /\ UNCHANGED <<rilInit, rilFail, checkQueued, gpioPower, powerCtrl,
                 resetCtrl, wlRecover, panicked>>

(* modem_power_ctrl_store(v): power_ctrl = v and the POWER line set to it *)
(* (the "changed" test is commented out).                                  *)
PowerCtrlStore(v) ==
  /\ ~panicked
  /\ powerCtrl' = v /\ gpioPower' = v
  /\ UNCHANGED <<rilInit, fotaPrgress, fotaGpio, rilFail, checkQueued,
                 gpioReset, resetCtrl, wlPowerOn, wlPowerDown, wlRecover,
                 downProc, act, panicked>>

(* modem_reset_ctrl_store(v): only when v differs from reset_ctrl, set it *)
(* and drive the RESET line.                                               *)
ResetCtrlStore(v) ==
  /\ ~panicked /\ resetCtrl # v
  /\ resetCtrl' = v /\ gpioReset' = v
  /\ UNCHANGED <<rilInit, fotaPrgress, fotaGpio, rilFail, checkQueued,
                 gpioPower, powerCtrl, wlPowerOn, wlPowerDown, wlRecover,
                 downProc, act, panicked>>

(* modem_ril_fail_store(v) *)
RilFailStore(v) ==
  /\ ~panicked /\ rilFail' = v
  /\ UNCHANGED <<rilInit, fotaPrgress, fotaGpio, checkQueued, gpioPower,
                 gpioReset, powerCtrl, resetCtrl, wlPowerOn, wlPowerDown,
                 wlRecover, downProc, act, panicked>>

(* cp_ril_init_store(v) *)
CpRilInitStore(v) ==
  /\ ~panicked /\ rilInit' = v
  /\ UNCHANGED <<fotaPrgress, fotaGpio, rilFail, checkQueued, gpioPower,
                 gpioReset, powerCtrl, resetCtrl, wlPowerOn, wlPowerDown,
                 wlRecover, downProc, act, panicked>>

(* After panic() nothing runs again.                                       *)
Halted == panicked /\ UNCHANGED vars

Next ==
  \/ RilInitIrq \/ CheckRun \/ RecoveryDone
  \/ \E a \in Actors : PowerDownDone(a) \/ PowerOnDone(a)
  \/ \E v \in FotaValues : FotaStore(v)
  \/ \E v \in LineValues : PowerCtrlStore(v) \/ ResetCtrlStore(v)
  \/ \E v \in RilFailValues : RilFailStore(v)
  \/ \E v \in RilInitValues : CpRilInitStore(v)
  \/ Halted

(* The delayed work runs once its 15 s are over and each msleep() ends;   *)
(* the IRQ and the sysfs writes are the CP's and the user's choice.       *)
Fairness ==
  /\ WF_vars(CheckRun) /\ WF_vars(RecoveryDone)
  /\ \A a \in Actors : WF_vars(PowerDownDone(a)) /\ WF_vars(PowerOnDone(a))

Spec == Init /\ [][Next]_vars /\ Fairness

-----------------------------------------------------------------------------
(* Properties *)

Idle == \A a \in Actors : act[a] = "idle"

(* Once neither sequence is running, none of the three wake locks is      *)
(* left held: the "take if not active" / "drop if active" pairs of        *)
(* modem_ctrl_power_down(), modem_ctrl_reset() and the recovery, however  *)
(* the FOTA reset and the boot-check recovery overlap, never leak a lock. *)
LocksReleasedWhenIdle == Idle => ~(wlPowerOn \/ wlPowerDown \/ wlRecover)

(* While either sequence is between its first and its last GPIO write, a  *)
(* wake lock is held, so the phone cannot suspend in the middle of a      *)
(* modem reset.                                                            *)
WakeLockWhileResetting == ~Idle => (wlPowerOn \/ wlPowerDown \/ wlRecover)

====
