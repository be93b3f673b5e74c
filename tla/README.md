# TLA+ models of the smartass2 governor, the early-suspend coordinator, the OMAP PM constraints, the TWL4030 USB transceiver, the modem control driver and SmartReflex device creation

The models cover the control core of this kernel tree:

- `drivers/cpufreq/cpufreq_smartass2.c`, the smartass2 cpufreq governor;
- `kernel/power/earlysuspend.c`, the Android early-suspend coordinator that calls the governor's suspend and resume handlers;
- `arch/arm/plat-omap/omap-pm.c`, the OMAP PM layer that aggregates the drivers' bus throughput and minimum MPU frequency requests, and picks the VDD1 operating point (OPP) for the MPU and the DSP, with the MPU rate change of `arch/arm/mach-omap2/cpufreq34xx.c` (`omap3_mpu_set_rate`, which sends cpufreq's PRECHANGE and POSTCHANGE notifications);
- `drivers/usb/otg/twl4030-usb.c`, the USB transceiver driver: cable detection, PHY power, the charger notification and the USB wake lock;
- `drivers/hub/hub_modem_ctrl.c`, the modem control driver: the boot check that resets a silent modem, the FOTA reset, and their wake locks;
- `arch/arm/mach-omap2/sr_device.c`, SmartReflex device creation at boot: the class walk, the eFuse nValue read with the Sniper's chained approximation `cal_opp5_nvalue()` of the nValues above index 10, and the device ids.

Board data and register-level clock programming are left out. The sections below say why.

## 1. Inventory of the system

| Part | State | Operations | Interacts with |
|---|---|---|---|
| Sampling timer, `cpufreq_smartass2_timer` (270-346) | per CPU: `timer`, `idle_exit_time`, `time_in_idle`, `cur_cpu_load`, `old_freq`, `ramp_dir`; global `work_cpumask` | short-sample retry; load decision; set the mask bit; `queue_work` on `up_wq` or `down_wq`; re-arm | work function; idle hook |
| Idle hook, `cpufreq_idle` (348-365) | the same timer | delete the timer at policy min before idling; re-arm it after | timer |
| Work function, `cpufreq_smartass2_freq_change_time_work` (368-443) | one `freq_scale_work` item on two queues; a function-level `relation` | per CPU in the mask: `new_freq`, then `target_freq` and `__cpufreq_driver_target` (blocking), then record the change time and re-arm or delete the timer | timer; driver; resume handler |
| `target_freq` / `validate_freq` (192-268) | none | clamp; table lookup; retry with the opposite relation | frequency table (kernel, outside `src/`) |
| Suspend handlers, `smartass2_early_suspend`, `smartass2_late_resume`, `smartass2_suspend` (730-777) | `suspended`, `ideal_speed`, `freq_change_time` | set the sleep or awake `ideal_speed`; jump to `sleep_wakeup_freq` on resume; re-arm | early-suspend worker; driver |
| Governor events (652-728) | `enable`, `cur_policy`, `active_count` | GOV_START, GOV_LIMITS, GOV_STOP | cpufreq core |
| Tunables, `store_*` (445-614) | the globals `up_rate_us` ... `min_cpu_load` | bounded stores, with no lock | timer; work function |
| Early suspend (`earlysuspend.c`) | `state` bits SUSPEND_REQUESTED/SUSPENDED; `main_wake_lock`; the single-threaded `suspend_work_queue`; the handler list | `request_suspend_state`; `early_suspend` work (blocks in `sys_sync`); `late_resume` work; register/unregister | every handler, including smartass2 |
| OMAP PM throughput aggregator (`omap-pm.c` 85-372, 894-968) | per interconnect: the user list, `target_level`, `no_of_users`, `max_level` | add, replace, remove a request; set the L3 rate or the MPU rate | drivers; clock framework |
| OMAP PM OPP selection (`omap-pm.c` 572-812) | unlocked globals `dsp_req_id`, `mpu_req_id`, `mpu_req_freq` | `omap_pm_cpu_set_freq`, `omap_pm_dsp_set_min_opp`, each with two blocking `omap_device_set_rate` calls | cpufreq; DSP bridge |
| TWL4030 USB transceiver (`twl4030-usb.c` 415-1072) | `linkstat`, `asleep`, PHY power, regulator use count, `the_wlock.wake_lock_on`, the delayed unlock work | threaded one-shot IRQ handler; probe's fake IRQ; PHY suspend/resume (blocking); `lge_usb_dp_dm_check`; delayed wake-unlock; `twl4030_set_suspend` | charger driver; musb controller; regulators |
| MPU rate change (`cpufreq34xx.c` 196-249) | `policy->cur` as cpufreq last heard it; dpll1's rate | PRECHANGE; `clk_set_rate`, returning early on error; POSTCHANGE | cpufreq core; OMAP PM OPP selection |
| SmartReflex devices (`sr_device.c` 62-289) | the static id counter `i`; each domain's `volt_data[].sr_nvalue`; the built devices | class walk; allocation and domain lookup with their error paths; the eFuse read loop; `cal_opp5_nvalue`; `omap_device_build` | SmartReflex driver (takes the id as the VDD index) |
| Modem control (`hub_modem_ctrl.c` 83-790) | `cp_ril_init`, `fota_prgress`, `ril_fail`, the RESET/POWER GPIOs, `modem_power_down_prcess`, three wake locks, the delayed boot check | RIL-init IRQ; boot check → recovery reset (blocking `msleep`s); FOTA reset from sysfs; the `power_ctrl`, `reset_ctrl`, `ril_fail`, `cp_ril_init` stores | modem (CP); RIL daemon; FOTA tool |

The hard behaviours are:

- **Shared work item.** The timer may queue `freq_scale_work` on the other queue while a run is blocked in the driver.
- **Unsynchronised resume jump.** The resume handler's jump is not synchronised with the work function.
- **Ignored platform result.** The work function ignores the driver's result.
- **Timer deletion on several paths.** Three paths delete the timer: the timer itself, the idle hook and the work function.
- **Wake-up request during `sys_sync`.** A request can arrive while `early_suspend` is in `sys_sync`.
- **Request coalescing.** Requests coalesce on pending works.
- **Handler order.** Handlers are ordered on insert.

The properties that make the parts correct are:

- at most one transition in flight per CPU;
- no marked CPU forgotten;
- a CPU below max keeps being sampled;
- `ideal_speed` follows the regime;
- under load the CPU reaches max;
- the wake lock is held while awake;
- when quiescent, state and handlers agree;
- the handler list is ordered and stable;
- a suspend request takes effect.

## 2. Modules and how they map to the code

### `Smartass2.tla`

This module models the governor on `NumCpus` CPUs with table `FreqTable` and one policy, `policy` = [`min`, `max`], which starts as `[PolicyMin, PolicyMax]` and which CPUFREQ_GOV_LIMITS changes to a member of `Limits`.

**Time.** `Tick` counts jiffies. `changeAge` is now − `freq_change_time`, saturated at max(`UpRate`, `DownRate`), which is where the comparisons stop telling values apart. `exitAge` is jiffies since `reset_timer`, saturated at 2, or `ExitZero` once GOV_STOP has set `idle_exit_time = 0`. A re-arm made in timer context happens at a jiffy boundary, so a full jiffy has passed by the next expiry and the <1 ms retry cannot recur. A re-arm made from a thread may be just before a tick.

**Loads.** A sample's load is chosen from `Loads`. 100 stands for `delta_idle == 0`.

**Correspondence between actions and code:**

| Action | Code |
|---|---|
| `TimerIdleExitZero` | lines 282-286: `idle_exit_time == 0`, return without re-arming (the `update_time == idle_exit_time` half needs an expiry in the microsecond of the re-arm, which a timer at least one jiffy out cannot have) |
| `TimerShortSample` | lines 282-296 |
| `TimerSample` (with `RampDecision`) | 298-346 |
| `CpuIdleEnter` / `CpuIdleExit` | the two halves of `cpufreq_idle` around `pm_idle_old()` |
| `WorkStart` | a queue thread takes the work; PENDING is cleared and `relation = RELATION_L` |
| `WorkSkip` | `work_cpumask_test_and_clear` fails |
| `WorkPick` | lines 382-431 up to the blocking driver call (`NewFreq`, `TargetFreq`), or the `target_freq() == 0` path through to `reset_timer` |
| `WorkDone` | the driver returns; lines 432-441 |
| `Smartass2EarlySuspend` | `smartass2_early_suspend` + `smartass2_suspend(i,1)` |
| `Smartass2LateResume` | `smartass2_late_resume`, and the update before the first jump |
| `PmDone` | each wake-up jump returning, then `reset_timer` |
| `GovStop` / `GovStopFlushed` / `GovStart` | CPUFREQ_GOV_STOP before and after `flush_work`; CPUFREQ_GOV_START |
| `GovLimits` / `GovLimitsDone` | CPUFREQ_GOV_LIMITS (693-709): `update_min_max` for the new policy and, when `policy->cur` is outside it, the jump to the new max or min, blocked in the driver until `GovLimitsDone`; then the timer re-arm |
| `Store` (`StoreRate`, `StoreIdealFreq`, `StoreSampleRate`, `StoreRampStep`, `StoreLoad`) | the `store_*` sysfs functions, 465-614, with their range checks |

**`smp_processor_id()`.** `smartass2_suspend` uses `smp_processor_id()`, so both handlers act on the CPU `p` that runs the early-suspend worker.

**Platform.** `PlatformMayFail` lets a transition leave `policy->cur` unchanged.

**Governor start and stop.** `enable[c]` is the per-CPU `enable` flag. `gov` is the cpufreq core's one governor call in progress; the core serialises them. `GovStop(c)` is CPUFREQ_GOV_STOP up to `flush_work` (lines 711-715): `enable = 0` and `del_timer`. `GovStopFlushed` is the flush returning once the work is neither pending nor running, then `idle_exit_time = 0` (715-724), after which the timer returns at once if it fires (`TimerIdleExitZero`) until a `reset_timer` sets `idle_exit_time` again. `GovStart(c)` is CPUFREQ_GOV_START (659-691). `Init` is the module init followed by a first GOV_START. The suspend handlers and the idle hook test `enable` as the code does (lines 352, 736). The timer and the work function do not test it, as in the code. `GovSwitch` turns the stop and start actions on. `GovLimits(c, l)` is the core's GOV_LIMITS call with the new policy `l`; it holds `gov` like the other governor calls, and its jump is one more transition in `InFlight`. Every helper that reads `policy->min` or `policy->max` (`ValidateFreq`, the table lookup, the timer's decision, the idle hook) reads the variable at the time of its step.

**Tunables.** `tun` is the record of the ten tunables, set to the `DEFAULT_*` values (`Defaults`) at module init. Every read of a tunable in the timer, the work function and the suspend handlers reads `tun`, so a sysfs write can land between the timer's decision and the work that acts on it, as it can in the code (the stores take no lock). `Inputs[f]` is the set of values a user writes to tunable `f`; a write outside a store's range (rates above `RateLimit`, `sample_rate_jiffies` 0 or above 1000, loads outside 1..100 or 1..99) leaves `tun` unchanged. A write of `sleep_ideal_freq` while suspended, or of `awake_ideal_freq` while awake, recomputes `ideal_speed` of every enabled CPU (`UpdateMinMaxAllCpus`). `ramp_up_step` and `ramp_down_step` accept any value, kept modulo 2^`IntBits`; `old_freq ± step` wraps at that width and is read back as a signed `int` (`UIntToInt`). `IntBits` = 5 is the 32 bits of the code scaled to the model's frequency unit: the model's policy max 8 lies below 2^4 as 1 GHz in kHz lies below 2^31. `debug_mask` only selects log output and is left out.

**Frequency-table lookup.** `cpufreq_frequency_table_target` is kernel code outside `src/`. `TableTarget` models it from the spec: RELATION_L is the lowest entry ≥ f, else the highest; RELATION_H is the highest ≤ f, else the lowest.

### `EarlySuspend.tla`, `AbstractSuspend.tla`

| Action | Code |
|---|---|
| `RequestSuspendState` | `request_suspend_state`, under `state_lock`, including the no-op branch |
| `EarlySuspendWork` | `early_suspend` up to `sys_sync()` |
| `EarlySuspendSynced` | the `abort:` label after it |
| `LateResumeWork` | `late_resume` |
| `RegisterEarlySuspend` / `UnregisterEarlySuspend` | the list operations under `early_suspend_lock`, including the immediate `->suspend` when SUSPENDED |

**Queue.** `queue` is the FIFO of `suspend_work_queue`. `QueueWork` refuses a pending work, as `queue_work` does.

**Handlers.** A handler's callbacks are abstracted to `hview`, the last thing it was told.

**Refinement.** `AbstractSuspend` is the promise:

- the user requests on or sleep;
- the applied state moves only to the requested one, and eventually does.

`EarlySuspend` implements it under the mapping:

- requested = SUSPEND_REQUESTED;
- applied = SUSPENDED.

### `OmapPmTput.tla`

This module models the two request lists of `omap-pm.c`, `bus_tput` and `mpu_tput`. `bus_tput` holds L3 bandwidth requests; `mpu_tput` holds minimum MPU frequency requests.

**State.** Each list is a record:

- `req` is the users list, as a function from a device to its level (`None` when the device has no node);
- `target` is `target_level`;
- `users` is `no_of_users`;
- `max` is `max_level`.

`l3Rate` and `mpuRate` are the rates last handed to `omap_device_set_rate`. `busRet` and `mpuRet` are the callers' return values.

**Operations.** Every entry point holds `bus_tput_mutex` or `mpu_tput_mutex`, and `throughput_mutex` inside it. So a call is one atomic step:

- `SetMinBusTput(d, r)` is `omap_pm_set_min_bus_tput`. `r = -1` releases the request.
- `SetMinMpuFreq(d, f)` is `omap_pm_set_min_mpu_freq`.

**Helpers.** `AddReqTput`, `RemoveReqTput` and `MaxLookup` are the helpers of the same names. They return the new list and the function's return value.

**Failures.** `get_user()` allocation failure and `omap_device_set_rate()` errors are inputs, enabled by `KmallocMayFail` and `SetRateMayFail`.

**Not modelled.** `!dev` and an invalid agent are rejected with no state change, so they are not modelled. The LG-DVFS branch (`ds_status.flag_run_dvs`) is taken as off.

### `OmapPmOpp.tla`

This module models `omap_pm_cpu_set_freq`, called by cpufreq, and `omap_pm_dsp_set_min_opp`, called by the DSP bridge, with the `!CONFIG_CPU_OVERCLOCK` branch of the latter's OPP choice (`DspSelOpp`, lines 696-699). The `CONFIG_CPU_OVERCLOCK` branch (639-695), which also clamps both request ids to the cpufreq policy and writes `mpu_req_id`, is not modelled. `SrDevice` takes its VDD1 length from the overclock table; the two modules model code of different build options and no property relates them.

**Tables.** `MCOmapPmOpp` takes the tables from `cpufreq34xx.c`: the first five OPPs of the OMAP36xx list (MPU 120..500 MHz, DSP 260, 260, 260, 300, 400 MHz), whose repeated DSP rate reaches the early return at line 702 on an equal IVA rate, and the five OPPs of the OMAP34xx list, whose DSP rates are distinct. The ten OPPs of the 36xx list take TLC past ten minutes; the five keep every branch the ten have.

**Shared state.** Both read and write `dsp_req_id`, `mpu_req_id` and `mpu_req_freq` with no lock.

**Steps.** Each function is split at its blocking `omap_device_set_rate` calls:

- `CpuSetFreq` → `CpuMpuDone` → `CpuIvaDone` → `CpuReqId`;
- `DspSetMinOpp` → `DspMpuDone` → `DspIvaDone`.

**Tables.** The tables are indexed from 0 as in C. Index `ft_count` is the `CPUFREQ_TABLE_END` terminator.

**MPU rate change.** The first blocking call of each function is `omap3_mpu_set_rate()` of `cpufreq34xx.c`:

- `Dpll1SetRate` is its first half (PRECHANGE, `clk_set_rate`, return on error);
- `CpuMpuPost` and `DspMpuPost` are the POSTCHANGE that follows a success, which sets cpufreq's `policy->cur` (variable `policyCur`) to the new rate.

The step ending the call and the POSTCHANGE are separate steps, so another call can run in between.

**History variables.** `overlapped` records whether a call ever started while the other was in progress. `failed` records whether an `omap_device_set_rate()` ever returned an error (`NoteOutcome`).

**Tables and getters.** These are operators, since they only read state:

- `DspOpps` is the `dsp_opps` table that `initialize_tables()` builds for the DSP bridge: entry 0 is zero, entries 1..`ft_count` hold the DSP rates with `opp_id` = cpufreq index + 1, and a zero entry ends the table;
- `DspGetOpp` is `omap_pm_dsp_get_opp()`: the RECURSIVE scan `DspOppScan` looks up the IVA rate in `dsp_opps` from entry 1 and gives 0 at the terminator; with a repeated DSP rate it gives the first OPP of that rate;
- `CpuGetFreq` is `omap_pm_cpu_get_freq()`, the MPU clock rate in kHz.

The count check of `initialize_tables()` (both tables have `ft_count` entries) is an ASSUME.

### `SrDevice.tla`, `MCSrDevice.tla`

This module models `omap_devinit_smartreflex()` and `sr_dev_init()` on OMAP3, with `SR_TESTING_NVALUES` off. The code runs once at boot, in one thread, so the model is a sequential state machine with one step per loop iteration.

| Action | Code |
|---|---|
| `DevInit` | `sr_dev_init()` up to `sr_read_efuse()`: a failed `kzalloc` returns -ENOMEM and ends the walk (`pc = "stopped"`); a failed domain lookup or an empty table goes to `exit` |
| `ReadEfuseStart` (part of `DevInit`) | `sr_set_nvalues()` → `sr_read_efuse()` up to its loop: with no `efuse_sr_control` on OMAP3630, `senn_mod` = `senp_mod` = 1 |
| `ReadEfuse` | one iteration of the loop of `sr_read_efuse()`: index ≤ 10 reads the eFuse, above it `cal_opp5_nvalue()` of the entry before |
| `Build` | `omap_device_build()` with id `i`, success or failure, then `exit` |
| `Exit` (helper) | `i++`, on to the next hwmod |
| `WalkDone`, `Finished` | the walk ends; boot goes on |

`cal_reciprocal()` is the RECURSIVE operator `RecipLoop`, and nValues are 24-bit integers packed and unpacked with the shifts of `plat/smartreflex.h`. The eFuse register at index 10 is the input `seed`, chosen by `Init` from `MCSeeds`.


### `Twl4030Usb.tla`

This module models the driver with `CONFIG_LGE_OMAP3_EXT_PWR` on, as on this board. Its actors are the threaded IRQ handler (`IrqThread`) and probe's direct call of the handler (`Probe`). The delayed unlock work is an action of its own. Each actor has a record `act[t]`: `pc` says where it is, and `st` holds the event its first read of the link status returned.

| Action | Code |
|---|---|
| `CableChange(c)` | a cable is plugged or pulled; the USB_PRES edge is latched (`irqPending`) |
| `IrqThreadRun` | the one-shot thread starts a run of `twl4030_usb_irq` for a latched edge (1052-1061) |
| `ProbeFakeIrq` | probe's `twl4030_usb_irq(twl->irq, twl)` (1062-1072) |
| `HandleIrq` (inside both) | the linkstat read and charger call (572-616), `lge_usb_dp_dm_check` as one step that leaves the PHY off (415-567), then `twl4030_phy_suspend` or the first half of `twl4030_phy_resume` (877-921, 758-774) |
| `PhyOffDone` / `PhyOnDone` | the end of the blocking `twl4030_phy_power` (725-756, 775-780), which sets `asleep` |
| `IrqTail` | the wake-lock code at the end of the handler (922-942) |
| `DelayedUnlock` | `twl4030_usb_wq_func` (862-867) |

**Abstractions.**
- The register contents are abstracted to the cable state: `NONE`, `VBUS` or `ID`.
- `get_external_power_status()` is assumed to return the value last passed to `set_external_power_detect()`; the charger driver is outside `src/`.
- The regulator use count is capped at `MaxRegUse` = 3. It is 0 or 1 in a correct run, and 2 shows the double enable.

### `HubModemCtrl.tla`

This module models the driver as built here, with RIL recovery and `CONFIG_LGE_MDM_FOTA`. It has two actors. `Check` is the kworker running the boot check 15 s after probe. `Fota` is a process writing 99 to `fota_gpio_ctrl`. Both go through `modem_ctrl_reset()` → `modem_ctrl_power_down()`, and each `msleep()` in between is a point where the other steps may run. `act[a]` says which sleep an actor is in.

| Action | Code |
|---|---|
| `ResetBegin(a)` (inside `RecoveryBegin` and `FotaStore`) | `modem_ctrl_power_down` up to its `msleep(250)`: both wake locks, `modem_power_down_prcess = 1`, RESET line (116-137) |
| `PowerDownDone(a)` | after the 250 ms: the power-down lock dropped, the POWER line (120-138) |
| `PowerOnDone(a)` | after the 3 s of `modem_ctrl_reset`: the power-on lock dropped (139-150) |
| `RilInitIrq` | the RIL-init interrupt: `cp_ril_init = 1`, the boot check cancelled (83-89) |
| `CheckRun` / `RecoveryBegin` | `cp_boot_check_workq_func` (92-106), then `modem_reset_restart_to_ril_recovery` (216-226), which panics when `ril_fail == 99` |
| `RecoveryDone` | the recovery's closing `msleep(3000)` and unlock (227-233) |
| `FotaStore(v)`, `PowerCtrlStore(v)`, `ResetCtrlStore(v)`, `RilFailStore(v)`, `CpRilInitStore(v)` | the sysfs stores (303-566) |

**Abstractions.** A GPIO is 0 or 1. A store's value is one of a small set holding the values the code tests. `Halted` stutters after `panic()`, so the model does not report a deadlock there.

## 3. Runs

| Run | cfg | Result | What it shows |
|---|---|---|---|
| governor_safety | `MCSmartass2.cfg` | pass, 3.1M states | 1 CPU, table {1,2,4,8}, policy 1..8, loads {0,40,60,100}, idle allowed, reliable platform, governor stop and start allowed, writes of `ramp_down_step` = 0 at any time. `NoLostWork` and `IdealMatchesRegime` hold under every interleaving of timer, idle hook, both queues, suspend/resume, GOV_STOP/GOV_START and the write. `RampFollowsDecision`: every transition the work function starts moves `policy->cur` in the direction `ramp_dir` says, also when the write switches the ramp-down branch to the load heuristic between the timer and the work. |
| governor_high_load | `MCSmartass2_load.cfg` | pass, 180k states | Load 100, `nr_running() > 1`, no idle, a write to every tunable (`MCLoadInputs`), and GOV_LIMITS raising `policy->min` to 2 and lowering it back to 1 any number of times. When no transition is in flight, `policy->cur` is inside the limits (`CurWithinLimits`). A CPU below max always has its timer pending, its mask bit set or a transition in flight (`SamplingAlive`), through every jump of GOV_LIMITS and the resume handler; governor_safety cannot check it (see the GOV_STOP/GOV_START entry below). The CPU reaches policy max and stays there (`HighLoadReachesMax`). This needs the RELATION_H→L retry of `target_freq`: from 2, +1 step with RELATION_H lands back on 2. `ideal_speed` follows the awake/sleep regime through writes of the ideal frequencies (`IdealMatchesRegime`). |
| governor_stop | `MCSmartass2_stop.cfg` | violation | After GOV_STOP returns, a wake-up jump of the resume handler, started before `enable` was cleared, ends in `reset_timer()`. The stopped governor's timer is armed again, and `cpufreq_smartass2_timer` never tests `enable` (`GovStopQuiesces`). A work run ending inside `flush_work()` arms it too; that timer fires into the `idle_exit_time == 0` return (see the list below). |
| earlysuspend | `MCEarlySuspend.cfg` | pass | Three handlers, two at the same level; every interleaving of requests, works and registration. Checks `WakeLockHeldWhileAwake`, `QuiescentAgreement`, `HandlerListOrdered`, `SuspendTakesEffect` and the refinement `AbstractSpecHolds`. |
| tput_bookkeeping | `MCOmapPmTput.cfg` | pass | 3 devices (symmetric), bus levels {0,400,800}, MPU levels {300,600}, allocation failures on. `target_level`/`no_of_users` always match the requests (`ListBookkeeping`). With a reliable clock, the MPU rate is the greatest request (`MpuRateIsMaxRequest`). |
| tput_unknown_release | `MCOmapPmTput_release.cfg` | violation | Releasing a device with no request sets the L3 rate to 0 and returns success. |
| opp_sequential | `MCOmapPmOpp.cfg` | pass, 683k states | The five 36xx OPPs, opp_id in 0..5, and any `omap_device_set_rate()` may fail. While calls never overlap, quiet states have cpufreq's `policy->cur` equal to what `omap_pm_cpu_get_freq()` reports, failures or not (`CpufreqSeesClock`). While calls never overlap and no rate change has failed, the IVA runs at least at the DSP rate of the DSP's minimum OPP and MPU/IVA are at the rates of one OPP (`SequentialCallsCorrect`). It is stated over rates: over OPPs it fails without any race (see the list below). |
| opp_race | `MCOmapPmOpp_race.cfg` | violation | On the 34xx table, whose DSP rates are distinct, a DSP request made while the CPU path lowers the MPU is lost. |
| usb_connect | `MCTwl4030Usb.cfg` | pass, 112 states | A charger cable plugged and pulled at any time, edges coalescing while the handler sleeps, probe's fake IRQ finishing before real IRQs, reliable i2c. A connected cable always ends with a powered PHY (`PhyFollowsCable`), whatever edges the one-shot handler coalesced. It does not hold with the ID cable or with a real IRQ during probe's fake one (see the list below); `PhyStateConsistent` is stated in the module but cannot fail in this configuration, so it is not checked here. |
| usb_wakelock_lost | `MCTwl4030Usb_wakelock.cfg` | violation | Disconnect, then reconnect within the 500 ms of the delayed unlock: the reconnect finds `wake_lock_on` set and takes no lock, and the unlock then drops the lock with VBUS present (`WakeLockWhileVbus`). |
| modem_reset | `MCHubModemCtrl.cfg` | pass, 1316 states | Boot with or without RIL init, the boot check, FOTA writes of 0 and 99, every sysfs store, `ril_fail` 0 or 99 (panic). Whenever no reset sequence is in progress, no modem wake lock is held (`LocksReleasedWhenIdle`), however the take-if-inactive and drop-if-active pairs of the two sequences interleave. |
| sr_nvalues | `MCSrDevice.cfg` | pass, 5832 states | sr1 (VDD1) with the 18 volts of the overclock table and sr2 with 2, every allocation, lookup and build failure, 108 values of eFuse register 10. A built device's id is its position in the walk (`SrIdMatchesVdd`), and every chained nValue encodes sensor values within 1/64 above the previous entry's plus the step (`ApproxTracksStep`). |

Each violation run has a finding in `PROJECT.json`. TLC also violates properties of the model in more configurations. Each is listed as a hazard with a note rather than as a run; the note says where the model's lack of time makes a trace more likely than the code's sleeps allow:

- **Resume jump during a work transition.** `SingleInFlight` fails when the resume jump is issued while a work transition of the same CPU is in the driver. - **Two runs of the work on one CPU.** With two worker threads, `WorkRunsSerialized` fails: `freq_scale_work` is queued on `up_wq` and `down_wq`, and both runs are in the driver for one CPU. 
- **Sampling dead after GOV_STOP and GOV_START.** In `MCSmartass2.cfg`, `SamplingAlive` fails in 10 states: a sample queues the work, GOV_STOP deletes the timer, the work run inside `flush_work()` ends in `reset_timer()`, the flush returns and sets `idle_exit_time = 0`, GOV_START skips `reset_timer()` because the timer is pending, and the timer fires into the `idle_exit_time == 0` return without re-arming. A CPU that never idles is then not sampled again.
- **POSTCHANGE out of order.** Without the `~overlapped` premise, `CpufreqSeesClock` fails: the CPU path sets 120, the DSP path sets 400 and notifies, then the CPU path's late POSTCHANGE leaves `policy->cur` at 120 with dpll1 at 400.
- **Repeated DSP rates.** On the 36xx table, stated over OPPs instead of rates, `SequentialCallsCorrect` fails in one step: with the MPU at 120 MHz and the IVA at 260 MHz, `omap_pm_dsp_set_min_opp(2)` finds the IVA already at OPP 2's DSP rate and returns at line 702, leaving the MPU (and VDD1) at OPP 1; `omap_pm_dsp_get_opp()` then reports OPP 1.
- **IVA moved after a failed MPU change.** In `MCOmapPmOpp.cfg`, an invariant saying the IVA is never at a higher OPP than the MPU fails in four steps when the `~failed` premise is dropped. cpufreq asks for 400 MHz and the MPU change fails. `omap_pm_cpu_set_freq()` still sets the IVA to 300 MHz and `mpu_req_id` to 3, while the MPU stays at 120 MHz. `omap_pm_dsp_set_min_opp()` skips the IVA change in this case (line 707).
- **Failed MPU rescale never retried.** With `SetRateMayFail = TRUE` in `MCOmapPmTput`, `MpuRateIsMaxRequest` fails: `max_level` already holds the new maximum, so a failed rescale is never retried.
- **ID cable, then a charger.** With `Cables <- MCAllCables`, `PhyStateConsistent` and `PhyFollowsCable` fail in seven states. Probe resumes the PHY for an ID cable, the cable becomes VBUS during the DPLL poll, the next run's `lge_usb_dp_dm_check()` powers the PHY down while `asleep = 0`, `twl4030_phy_resume()` returns at once, and the PHY stays off with VBUS present.
- **Probe's fake IRQ racing a real one.** With `ProbeRaces = TRUE`, `PhyStateConsistent` and `PhyFollowsCable` fail: the two runs both power the PHY on and enable the regulators twice (the REVISIT comment at line 1068).
- **Failed jump to policy max.** With `PlatformMayFail = TRUE` in `MCSmartass2`, `SamplingAlive` fails: the work function deletes the timer because it aimed at max, although `policy->cur` stayed below it.
- **opp_id one past the table.** With `OppIds` extended to `ft_count` + 1, `DspReqInTable` fails: `opp_id <= ft_count + 1` admits the terminator entry.
- **Boot check racing a FOTA reset.** `WakeLockWhileResetting` fails in `MCHubModemCtrl` in five steps, but the model has no time, and that trace needs the FOTA's 250 ms power-down to outlast the recovery's 3 s pulse and 3 s wait. With the real sleeps a window remains: a FOTA write of 99 in the last 250 ms of the recovery's 3 s power pulse finds `modem_power_on_wake_lock` active and takes nothing, the recovery drops it at the end of its pulse, and the last (up to 250 ms) of the FOTA's power pulse runs after the recovery has dropped `ril_recover_wake_lock`, with no wake lock held.
- **ramp_up_step at the wrap.** With `IntBits` = 5 and a write of `ramp_up_step` = 30, `RampFollowsDecision` fails: `old_freq + ramp_up_step` wraps to a value below `old_freq`, and a ramp-up under load moves the CPU down.
- **GOV_LIMITS lowering max under an in-flight jump.** With a `Limits` set that lowers `policy->max` from 8 to 4, `CurWithinLimits` fails in 5 states: the resume jump, resolved to 8 under the old limits, completes after GOV_LIMITS found `policy->cur` = 2 inside the new ones. Under load the timer is then deleted at `cur >= max`, and nothing brings the CPU back under the limit.
- **i2c read error.** With `ReadMayFail = TRUE`, `PhyFollowsCable` fails: a failed read is taken as a disconnect, and no further edge resumes the PHY.

Each property of a passing run has a mutant in `PROJECT.json`: a plausible bug in the mapped code that TLC catches.

- dropped test-and-clear of the mask bit;
- the work function not re-arming the timer below max;
- resume not recomputing `ideal_speed`;
- no relation retry;
- the work function without its third-party check (`old_freq != policy->cur`);
- `store_*_ideal_freq` recomputing `ideal_speed` in the wrong regime;
- GOV_LIMITS without the jump up to a raised `policy->min`;
- an off-by-one CPU loop;
- the abort label always or never unlocking;
- `late_resume` without notifying handlers, or clearing SUSPENDED without checking the request;
- `>=` in the handler insertion;
- a replaced throughput request not subtracted;
- `max_level` not reset in `max_lookup`;
- the release path not checking `found`;
- `selfreq` ignoring the DSP;
- `opp_id` 0 not rejected;
- `phy_resume` not clearing `asleep`;
- the power-down lock not dropped after 250 ms;
- POSTCHANGE carrying the old frequency;
- the eFuse loop running one index too far (`<=`);
- an error path skipping `i++`;
- `cal_reciprocal()` with `mul` one bit short.

## 4. Bounds and why they suffice

**Table.** The table {1,2,4,8} has a gap above 2, so ramping by step 1 with RELATION_H hits the retry. Ideal 2 lies strictly inside the policy, and the sleep ideal 1 is the minimum.

**Rates.** `UpRate` 2 and `DownRate` 3 make the rate-limit branches distinguishable from the ideal-speed branches. `SampleRate` 1 gives the minimum timer period. The <1 ms retry is reachable after a thread re-arm.

**Loads.** Loads {0,40,60,100} cover each branch of the decision: below min, between, above max, and no idle.

**Tput devices.** Three devices with two or three levels reach:

- replacement of a request by a different level;
- a release of a device with no request;
- a maximum held by one device while another holds a lower request, which is what the "changed" test of the MPU path needs.

**OPPs.** Five OPPs, with both callers in flight, cover:

- raising and lowering;
- the early "no change" return of both functions;
- the out-of-range ids on both sides;
- on the 36xx table, requests for OPPs sharing the IVA's DSP rate.

In opp_sequential, any `omap_device_set_rate()` may fail, since the clock framework returns errors and the code handles them.

**Handlers.** Three handlers, with two at the same level, are the least that exercise insertion order and stability.

**USB cables.** `MCVbusCables` = {NONE, VBUS}. The USB runs plug and pull a charger cable any number of times, including while a handler run sleeps. This covers the coalesced edges (VBUS after VBUS, NONE after NONE) and the 500 ms window of the delayed unlock. `MCAllCables` adds the ID (OTG host) cable; no run uses it, as `PhyFollowsCable` fails with it (see the list above).

**Tunable writes.** governor_safety writes only `ramp_down_step` = 0, the write that changes which ramp-down branch the work function takes; writes of all ten tunables there take the run past 16M states. governor_high_load writes each tunable: accepted values of the ideal frequencies (0, 4, 8) and the ramp steps, and rejected values of the range-checked ones (`up_rate_us` 21, above `RateLimit` 20; `max_cpu_load` 101; `min_cpu_load` 100; `sample_rate_jiffies` 0). With no idle time, the load thresholds and the sample period do not change the decision, so an accepted value of them would only multiply the states. The ramp steps stay below the wrap, which the confirmed-defect list above describes.

**Policy limits.** governor_high_load lets GOV_LIMITS move `policy->min` between 1 and 2, so that `policy->cur` = 1 is below a raised minimum and the jump to the min happens, and the ideal speed 1 of the sleep regime is clamped to 2. It keeps `policy->max` at 8: lowering it breaks `CurWithinLimits` (see the list above), and under full load no transition heads below the raised min. governor_safety and governor_stop have no GOV_LIMITS (`MCNoLimits`).

**Governor stop.** One CPU is enough to show the stop defect: the resume handler's jump and the work run both end in `reset_timer()` after the flush. GOV_STOP and GOV_START alternate any number of times.

**Modem.** Each store takes its value from {0, 99} or {0, 1}, which are the values the code tests (`== 99`, `== 1`, nonzero). Both actors can be in a reset at once, and the boot check is queued at most once, as the code does at probe.

**SmartReflex.** VDD1 gets 18 volts, the length of the overclock OPP table, so indexes 11 to 17 chain seven approximations. VDD2 gets 2, so its walk has no chain. `MCSeeds` sets the gains to 9..11 and the reciprocals from 128 to 255, which covers every sensor range the fused entries encode. The fused entries below index 10 are fixed, since nothing reads them except their own slot.

## 5. Fairness

- `Tick`, an expired timer (`TimerSample`, `TimerShortSample`, `TimerIdleExitZero`), an idle CPU being woken (`CpuIdleExit`), the queue threads and a blocked driver call returning (`WorkDone`, `PmDone`, `GovLimitsDone`) are weakly fair. The kernel runs timers and runnable kernel threads, and the clock change completes.
- Suspend, resume, GOV_LIMITS, sysfs writes, registration and user requests get no fairness: they are the user's choice.
- The suspend work queue's works are weakly fair.
- The OMAP PM modules state only safety properties, so they assume no fairness.
- In `Twl4030Usb`, four steps are weakly fair: the IRQ thread (a kernel thread woken by the edge), probe, the delayed work and the end of each PHY call. Cable changes are the user's choice and get no fairness.
- `GovStopFlushed` is weakly fair: `flush_work` returns once the work is done, and the work's threads are fair. GOV_STOP and GOV_START are the user's choice.
- `SrDevice` states only invariants and assumes no fairness: it is sequential boot code.
- In `HubModemCtrl`, the boot check and the end of each `msleep()` are weakly fair. The kworker runs and sleeps end. The IRQ and the sysfs stores get no fairness.

## 6. Not modelled, and the plan

**Not modelled** in `omap-pm.c`:

- the latency and clock-rate constraint entry points, which only forward to pm_qos and powerdomain code outside `src/`. No caller is under `src/` either. The missing lock in `omap_pm_set_max_sdma_lat()` is listed as a hazard;
- the error paths of `initialize_tables()`;
- the context-loss counter, a test stub;
- the `CONFIG_CPU_OVERCLOCK` clamping.

**Not modelled**, being board or data code the spec excludes:

- in `cpufreq34xx.c`: the OPP tables and `omap3_pm_init_opp_table()`, which register data once at boot; the LG-DVFS branches of `omap3_mpu_set_rate()`, whose `ds_status` flags are set by `dvs_suite.c` outside `src/`; the IVA and L3 rate functions, which only forward to `clk_set_rate()`; `compute_lpj()`, which this `CONFIG_CPU_FREQ` build does not compile;
- in `sr_device.c`: the OMAP44xx eFuse layout, the `SR_TESTING_NVALUES` test values (`sr_set_testing_nvalues`), which this build compiles out;
- `dvs_suite.h`, which holds only declarations and data whose implementation is outside `src/`;
- the other headers.

**Not modelled** in `twl4030-usb.c`:

- `twl4030_set_suspend`, because its caller, the musb controller, is outside `src/`;
- `set_host`/`set_peripheral`, which only store pointers;
- the sysfs `vbus` show;
- `ldo_init` and remove;
- the charger work;
- the skip of the D+/D- check for LT factory cables;
- the bits of PHY_PWR_CTRL other than PHYPWD. The listed hazard at line 720 is about them: `twl4030_phy_power()` writes the PHY_CLK_CTRL_STS value into PHY_PWR_CTRL.

**Not modelled** in `hub_modem_ctrl.c`:

- the sysfs show functions;
- `uart_path`, which only routes the UART through the MUIC;
- `dss_debug`, which only sets display debug flags;
- `modem_ctrl_remove`, since the driver is built in;
- the `#if 0` code;
- the modem itself, beyond its RIL-init interrupt.

**Not modelled** in `cpufreq_smartass2.c`: `debug_mask`; the load arithmetic of lines 299-302, abstracted to a chosen load (its 32-bit truncation needs a sleep of over an hour without a sample); the `active_count` and `pm_idle` bookkeeping across CPUs. The OMAP3630 of this board has one CPU, so the defects that need two (the `active_count` off-by-one at line 720, the `relation` local shared across the CPU loop, `smp_processor_id()` in `smartass2_suspend`) cannot occur on it, and every run has one CPU.

**Next steps**, in order:

1. **Composition.** Combine `EarlySuspend` with `Smartass2` as a registered handler.
2. **OPP path.** Add violation runs for the IVA moving after a failed MPU change and for the repeated DSP rates, and model the `CONFIG_CPU_OVERCLOCK` variant of the OPP selection.
3. **Governor.** Give the dead sampling after GOV_STOP/GOV_START a violation run of its own.
4. **USB controller.** Model the musb controller's `set_suspend` calls, once its calling context is known.
5. **Modem control.** Add the modem's own RIL-init timing and a second boot check, and a timed model of the two reset sequences for the wake-lock window.
