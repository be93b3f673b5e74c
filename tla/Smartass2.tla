----------------------------- MODULE Smartass2 -----------------------------
(***************************************************************************)
(* The smartass2 cpufreq governor, drivers/cpufreq/cpufreq_smartass2.c.   *)
(*                                                                         *)
(* Actors:                                                                 *)
(*  - the per-CPU deferrable sample timer, cpufreq_smartass2_timer();     *)
(*  - the idle hook cpufreq_idle() of every CPU;                          *)
(*  - two work-queue threads, ksmartass2_up and ksmartass2_down, that run *)
(*    the ONE work item freq_scale_work.  queue_work() sets its PENDING   *)
(*    bit, the thread clears it before calling the work function, so the  *)
(*    work can be queued on the other queue while it runs;                *)
(*  - the early-suspend worker calling smartass2_early_suspend() and      *)
(*    smartass2_late_resume().                                             *)
(* __cpufreq_driver_target() blocks (clock and voltage change): it is a   *)
(* transition "in flight" between two steps of the caller.  policy->cur   *)
(* changes when it completes, and not at all if the platform fails.       *)
(*                                                                         *)
(* Time is counted in jiffies by Tick.  Absolute times are kept as ages   *)
(* that saturate once no comparison of the code can tell them apart.      *)
(* The governor starts out started (GOV_START done) on every CPU with a      *)
(* policy; the cpufreq core may stop it (GOV_STOP, which waits in         *)
(* flush_work()), start it again, and change the policy limits            *)
(* (GOV_LIMITS).  The governor threads run on CPU 1.                      *)
(***************************************************************************)
EXTENDS Naturals, Integers, FiniteSets, SequencesExt

CONSTANTS
  NumCpus,
  FreqTable,          \* frequencies of cpufreq_frequency_get_table()
  PolicyMin, PolicyMax, \* the policy at GOV_START
  Limits,             \* policies the cpufreq core may set (GOV_LIMITS)
  AwakeIdealFreq,     \* the tunables' values at module init (DEFAULT_*):
  SleepIdealFreq,     \*   awake_ideal_freq, sleep_ideal_freq,
  SleepWakeupFreq,    \*   sleep_wakeup_freq,
  RampUpStep,         \*   ramp_up_step, ramp_down_step,
  RampDownStep,
  MaxCpuLoad,         \*   max_cpu_load, min_cpu_load,
  MinCpuLoad,
  UpRate,             \*   up_rate_us and down_rate_us, in jiffies,
  DownRate,
  SampleRate,         \*   sample_rate_jiffies
  Inputs,             \* tunable -> values the user writes to its sysfs file
  RateLimit,          \* 100000000 us, the largest rate the stores accept
  Loads,              \* loads a sample may measure
  NrRunning,          \* possible values of nr_running() > 1
  PlatformMayFail,    \* clk_set_rate() may reject a rate
  CpuMayIdle,         \* the CPU may enter the idle loop
  GovSwitch,          \* the cpufreq core may stop and restart the governor
  IntBits             \* width of unsigned int / int, scaled to the model's kHz unit

CPUS == 1..NumCpus

ASSUME
  /\ NumCpus \in Nat \ {0}
  /\ FreqTable \subseteq Nat \ {0}
  /\ {PolicyMin, PolicyMax} \subseteq FreqTable /\ PolicyMin <= PolicyMax
  /\ SampleRate \in Nat \ {0}
  /\ Loads \subseteq 0..100
  /\ NrRunning \subseteq BOOLEAN /\ NrRunning # {}
  /\ IntBits \in Nat /\ PolicyMax < 2^(IntBits - 1)
  /\ Limits \subseteq [min : FreqTable, max : FreqTable]
  /\ \A l \in Limits : l.min <= l.max /\ l.max < 2^(IntBits - 1)

UpWQ   == "ksmartass2_up"
DownWQ == "ksmartass2_down"
Workers == {UpWQ, DownWQ}
RelL == "CPUFREQ_RELATION_L"
RelH == "CPUFREQ_RELATION_H"
NoTimer == -1                       \* timer not pending
ExitZero == -1                      \* idle_exit_time == 0
Tunables == {"up_rate_us", "down_rate_us", "sleep_ideal_freq", "sleep_wakeup_freq",
             "awake_ideal_freq", "sample_rate_jiffies", "ramp_up_step",
             "ramp_down_step", "max_cpu_load", "min_cpu_load"}
AgeCap == Max({UpRate, DownRate} \cup {r \in Inputs.up_rate_us \cup Inputs.down_rate_us : r <= RateLimit})
MaxSample == Max({SampleRate} \cup {r \in Inputs.sample_rate_jiffies : r <= 1000})
ThreadCpu == 1                      \* the CPU the governor threads run on

VARIABLES
  cur,          \* cpu -> policy->cur
  idealSpeed,   \* cpu -> ideal_speed
  oldFreq,      \* cpu -> old_freq, the timer's snapshot of policy->cur
  rampDir,      \* cpu -> ramp_dir
  curCpuLoad,   \* cpu -> cur_cpu_load
  timer,        \* cpu -> jiffies until the sample timer expires, or NoTimer
  changeAge,    \* cpu -> now - freq_change_time, saturated at AgeCap
  exitAge,      \* cpu -> jiffies since idle_exit_time, saturated at 2;
                \* ExitZero once GOV_STOP has zeroed idle_exit_time
  idle,         \* cpu -> inside pm_idle_old()
  mask,         \* work_cpumask
  pending,      \* queue freq_scale_work is pending on, or "none"
  wk,           \* worker -> state of its run of the work function
  suspended,    \* the governor's suspended flag
  pm,           \* the early-suspend worker inside a smartass2 handler
  enable,       \* cpu -> this_smartass2->enable
  gov,          \* the cpufreq core's governor call: GOV_STOP in flush_work(),
                \* GOV_LIMITS in __cpufreq_driver_target()
  policy,       \* policy->min and policy->max
  tun           \* the tunables, a record with a field per global

vars == <<cur, idealSpeed, oldFreq, rampDir, curCpuLoad, timer, changeAge,
          exitAge, idle, mask, pending, wk, suspended, pm, enable, gov, policy, tun>>
govVars == <<enable, gov, policy, tun>>

WorkerState == [pc : {"idle", "loop", "transit"}, cpu : CPUS,
                rel : {RelL, RelH}, target : FreqTable \cup {0}]
PmState == [pc : {"idle", "transit"}, cpu : CPUS, left : 0..NumCpus,
            target : FreqTable]

TypeOK ==
  /\ cur \in [CPUS -> FreqTable]
  /\ idealSpeed \in [CPUS -> Nat]
  /\ oldFreq \in [CPUS -> FreqTable \cup {0}]
  /\ rampDir \in [CPUS -> {-1, 0, 1}]
  /\ curCpuLoad \in [CPUS -> 0..100]
  /\ timer \in [CPUS -> {NoTimer} \cup 0..MaxSample]
  /\ changeAge \in [CPUS -> 0..AgeCap]
  /\ exitAge \in [CPUS -> {ExitZero} \cup 0..2]
  /\ idle \in [CPUS -> BOOLEAN]
  /\ mask \subseteq CPUS
  /\ pending \in Workers \cup {"none"}
  /\ wk \in [Workers -> WorkerState]
  /\ suspended \in BOOLEAN
  /\ pm \in PmState
  /\ enable \in [CPUS -> BOOLEAN]
  /\ gov \in [pc : {"idle", "flush", "limits"}, cpu : CPUS, target : FreqTable]
  /\ policy \in [min : FreqTable, max : FreqTable]
  /\ DOMAIN tun = Tunables /\ \A f \in Tunables : tun[f] \in Nat

-----------------------------------------------------------------------------
(* Helpers of the source *)

(* smartass2_update_min_max(): the ideal speed of the regime under the   *)
(* tunables t, clamped to the policy p.                                    *)
UpdateMinMax(p, t, suspend) ==
  IF suspend
    THEN IF p.max > t.sleep_ideal_freq
           THEN (IF t.sleep_ideal_freq > p.min THEN t.sleep_ideal_freq ELSE p.min)
           ELSE p.max
    ELSE IF p.min < t.awake_ideal_freq
           THEN (IF t.awake_ideal_freq < p.max THEN t.awake_ideal_freq ELSE p.max)
           ELSE p.min

(* validate_freq() *)
ValidateFreq(f) ==
  IF f > policy.max THEN policy.max ELSE IF f < policy.min THEN policy.min ELSE f

(* cpufreq_frequency_table_target(): among the table entries inside the   *)
(* policy, RELATION_L picks the lowest at or above f (else the highest    *)
(* below), RELATION_H the highest at or below f (else the lowest above).  *)
InPolicyOf(p) == {x \in FreqTable : p.min <= x /\ x <= p.max}
TableTargetIn(p, f, rel) ==
  LET above == {x \in InPolicyOf(p) : x >= f}
      below == {x \in InPolicyOf(p) : x <= f}
  IN  IF rel = RelL
        THEN IF above # {} THEN Min(above) ELSE Max(InPolicyOf(p))
        ELSE IF below # {} THEN Max(below) ELSE Min(InPolicyOf(p))
InPolicy == InPolicyOf(policy)
TableTarget(f, rel) == TableTargetIn(policy, f, rel)

\* Variant: no retry with the opposite relation.
TargetFreqNoRetry(newFreq, old, rel) ==
  LET v == ValidateFreq(newFreq)
      t == TableTarget(v, rel)
  IN  IF newFreq = old \/ v = old \/ t = old THEN 0 ELSE t

(* target_freq(): 0 when no transition is to be made, otherwise the table *)
(* frequency handed to __cpufreq_driver_target().  When the preferred     *)
(* relation lands back on old, the opposite relation is tried.            *)
TargetFreq(newFreq, old, rel) ==
  LET v  == ValidateFreq(newFreq)
      t1 == TableTarget(v, rel)
      t2 == IF t1 = old /\ v > old /\ rel = RelH THEN TableTarget(v, RelL)
            ELSE IF t1 = old /\ v < old /\ rel = RelL THEN TableTarget(v, RelH)
            ELSE t1
  IN  IF newFreq = old \/ v = old \/ t2 = old THEN 0 ELSE t2

(* reset_timer(): sample the idle time now and re-arm the timer.  Called  *)
(* from the timer itself it runs at a jiffy boundary, so a full jiffy has *)
(* passed by the next expiry; called from a thread it may be just before  *)
(* a tick.  exitAge counts that boundary as one jiffy.                    *)
ResetTimerAt(c, inTick) ==
  /\ timer' = [timer EXCEPT ![c] = tun.sample_rate_jiffies]
  /\ exitAge' = [exitAge EXCEPT ![c] = IF inTick THEN 1 ELSE 0]
ResetTimer(c) == ResetTimerAt(c, FALSE)

(* queue_work() on freq_scale_work: no effect while it is pending.         *)
QueueWork(wq) == IF pending = "none" THEN wq ELSE pending

Running(c) == ~idle[c]

Outcomes == IF PlatformMayFail THEN BOOLEAN ELSE {TRUE}

(* The transitions in flight on a CPU: governor workers and the resume    *)
(* handler and GOV_LIMITS blocked in __cpufreq_driver_target().          *)
InFlight(c) ==
  {w \in Workers : wk[w].pc = "transit" /\ wk[w].cpu = c}
    \cup (IF pm.pc = "transit" /\ pm.cpu = c THEN {"pm"} ELSE {})
    \cup (IF gov.pc = "limits" /\ gov.cpu = c THEN {"gov"} ELSE {})

-----------------------------------------------------------------------------
(* cpufreq_smartass2_init(): the tunables at their DEFAULT_* values.     *)
Defaults ==
  [up_rate_us |-> UpRate, down_rate_us |-> DownRate,
   sleep_ideal_freq |-> SleepIdealFreq, sleep_wakeup_freq |-> SleepWakeupFreq,
   awake_ideal_freq |-> AwakeIdealFreq, sample_rate_jiffies |-> SampleRate,
   ramp_up_step |-> RampUpStep, ramp_down_step |-> RampDownStep,
   max_cpu_load |-> MaxCpuLoad, min_cpu_load |-> MinCpuLoad]

(* GOV_START has run on every CPU: the policy is attached, ideal_speed set *)
(* for the awake regime, the timer armed unless already at policy max.    *)
InitPolicy == [min |-> PolicyMin, max |-> PolicyMax]

Init ==
  /\ policy = InitPolicy
  /\ cur \in [CPUS -> InPolicyOf(InitPolicy)]
  /\ idealSpeed = [c \in CPUS |-> UpdateMinMax(InitPolicy, Defaults, FALSE)]
  /\ oldFreq = [c \in CPUS |-> 0]
  /\ rampDir = [c \in CPUS |-> 0]
  /\ curCpuLoad = [c \in CPUS |-> 0]
  /\ timer = [c \in CPUS |-> IF cur[c] < PolicyMax THEN SampleRate ELSE NoTimer]
  /\ changeAge = [c \in CPUS |-> AgeCap]
  /\ exitAge = [c \in CPUS |-> 0]
  /\ idle = [c \in CPUS |-> FALSE]
  /\ mask = {}
  /\ pending = "none"
  /\ wk = [w \in Workers |-> [pc |-> "idle", cpu |-> 1, rel |-> RelL, target |-> 0]]
  /\ suspended = FALSE
  /\ pm = [pc |-> "idle", cpu |-> 1, left |-> 0, target |-> PolicyMax]
  /\ enable = [c \in CPUS |-> TRUE]
  /\ gov = [pc |-> "idle", cpu |-> 1, target |-> PolicyMax]
  /\ tun = Defaults

(* One jiffy passes.                                                       *)
Tick ==
  /\ timer' = [c \in CPUS |-> IF timer[c] > 0 THEN timer[c] - 1 ELSE timer[c]]
  /\ changeAge' = [c \in CPUS |-> IF changeAge[c] < AgeCap THEN changeAge[c] + 1 ELSE AgeCap]
  /\ exitAge' = [c \in CPUS |-> IF exitAge[c] \in 0..1 THEN exitAge[c] + 1 ELSE exitAge[c]]
  /\ UNCHANGED <<cur, idealSpeed, oldFreq, rampDir, curCpuLoad, idle, mask,
                 pending, wk, suspended, pm>>
  /\ UNCHANGED govVars

(* The ramp direction cpufreq_smartass2_timer() decides for a sample of    *)
(* the given load; a load of 100 means delta_idle == 0.                    *)
RampDecision(c, load) ==
  LET old == cur[c]
      noIdle == load = 100
  IN  IF load > tun.max_cpu_load \/ noIdle
        THEN IF old < policy.max
                /\ (old < idealSpeed[c] \/ noIdle \/ changeAge[c] >= tun.up_rate_us)
               THEN 1 ELSE 0
        ELSE IF load < tun.min_cpu_load /\ old > policy.min
                /\ (old > idealSpeed[c] \/ changeAge[c] >= tun.down_rate_us)
               THEN -1 ELSE 0

(* cpufreq_smartass2_timer() with idle_exit_time == 0: return at once,   *)
(* without re-arming.  Only GOV_STOP zeroes it; every reset_timer() sets  *)
(* it to the current time, and update_time == idle_exit_time would need  *)
(* the timer to fire in the microsecond it was armed.                     *)
TimerIdleExitZero(c) ==
  /\ timer[c] = 0
  /\ exitAge[c] = ExitZero
  /\ timer' = [timer EXCEPT ![c] = NoTimer]
  /\ UNCHANGED <<cur, idealSpeed, oldFreq, rampDir, curCpuLoad, changeAge, exitAge,
                 idle, mask, pending, wk, suspended, pm>>
  /\ UNCHANGED govVars

(* cpufreq_smartass2_timer(), sample shorter than 1ms: only re-arm.  It    *)
(* can only happen when the timer fires at the first tick after a         *)
(* reset_timer() made by a thread.                                        *)
TimerShortSample(c) ==
  /\ timer[c] = 0
  /\ exitAge[c] \in 0..1
  /\ ResetTimerAt(c, TRUE)
  /\ UNCHANGED <<cur, idealSpeed, oldFreq, rampDir, curCpuLoad, changeAge,
                 idle, mask, pending, wk, suspended, pm>>
  /\ UNCHANGED govVars

(* cpufreq_smartass2_timer(): record load and old_freq, decide, mark the  *)
(* CPU in work_cpumask and queue the work on the up or down queue, or     *)
(* re-arm the timer when nothing was queued and not at policy max.        *)
TimerSample(c) ==
  /\ timer[c] = 0
  /\ exitAge[c] # ExitZero
  /\ \E load \in Loads :
       LET dir == RampDecision(c, load) IN
       /\ curCpuLoad' = [curCpuLoad EXCEPT ![c] = load]
       /\ oldFreq' = [oldFreq EXCEPT ![c] = cur[c]]
       /\ rampDir' = [rampDir EXCEPT ![c] = dir]
       /\ mask' = IF dir # 0 THEN mask \cup {c} ELSE mask
       /\ pending' = CASE dir = 1  -> QueueWork(UpWQ)
                       [] dir = -1 -> QueueWork(DownWQ)
                       [] OTHER    -> pending
       /\ IF dir = 0 /\ cur[c] < policy.max
            THEN ResetTimerAt(c, TRUE)
            ELSE /\ timer' = [timer EXCEPT ![c] = NoTimer]
                 /\ UNCHANGED exitAge
  /\ UNCHANGED <<cur, idealSpeed, changeAge, idle, wk, suspended, pm>>
  /\ UNCHANGED govVars

(* cpufreq_idle(), before pm_idle_old(): at policy min the timer is       *)
(* deleted; a disabled governor only idles.  The CPU only idles when no   *)
(* governor thread is runnable.                                            *)
CpuIdleEnter(c) ==
  /\ CpuMayIdle /\ ~idle[c]
  /\ c = ThreadCpu =>
       /\ pending = "none"
       /\ \A w \in Workers : wk[w].pc # "loop"
  /\ timer' = IF enable[c] /\ cur[c] = policy.min THEN [timer EXCEPT ![c] = NoTimer]
              ELSE timer
  /\ idle' = [idle EXCEPT ![c] = TRUE]
  /\ UNCHANGED <<cur, idealSpeed, oldFreq, rampDir, curCpuLoad, changeAge,
                 exitAge, mask, pending, wk, suspended, pm>>
  /\ UNCHANGED govVars

(* cpufreq_idle(), after pm_idle_old(): re-arm the timer if not pending.   *)
CpuIdleExit(c) ==
  /\ idle[c]
  /\ idle' = [idle EXCEPT ![c] = FALSE]
  /\ IF enable[c] /\ timer[c] = NoTimer THEN ResetTimer(c) ELSE UNCHANGED <<timer, exitAge>>
  /\ UNCHANGED <<cur, idealSpeed, oldFreq, rampDir, curCpuLoad, changeAge,
                 mask, pending, wk, suspended, pm>>
  /\ UNCHANGED govVars

(* old_freq +/- ramp_*_step is unsigned int arithmetic, wrapping at       *)
(* 2^IntBits, and the result is stored in the int new_freq.              *)
UIntToInt(x) ==
  LET u == x % (2^IntBits)
  IN  IF u >= 2^(IntBits - 1) THEN u - 2^IntBits ELSE u

(* The ramp-down heuristic of the work function when ramp_down_step is 0. *)
RampDownHeuristic(old, load) ==
  LET n == (old * (load + 100 - tun.max_cpu_load)) \div 100
  IN  IF n > old THEN old - 1 ELSE n

\* Variant: no test for a frequency changed by a third party.
NewFreqNoThirdParty(c, busy, rel) ==
  LET old == oldFreq[c]
      dir == rampDir[c]
  IN  IF dir > 0 /\ busy
        THEN IF old < idealSpeed[c] THEN <<idealSpeed[c], rel>>
             ELSE IF tun.ramp_up_step # 0 THEN <<UIntToInt(old + tun.ramp_up_step), RelH>>
             ELSE <<policy.max, RelH>>
      ELSE IF dir < 0
        THEN IF old > idealSpeed[c] THEN <<idealSpeed[c], RelH>>
             ELSE IF tun.ramp_down_step # 0 THEN <<UIntToInt(old - tun.ramp_down_step), rel>>
             ELSE <<RampDownHeuristic(old, curCpuLoad[c]), rel>>
      ELSE <<old, rel>>

(* The work function's new_freq and relation for CPU c.  The relation is  *)
(* a local of the whole work function, initialised once before the CPU    *)
(* loop, so rel is whatever an earlier CPU of the same run left in it.    *)
NewFreq(c, busy, rel) ==
  LET old == oldFreq[c]
      dir == rampDir[c]
  IN  IF old # cur[c] THEN <<old, rel>>              \* changed by a 3rd party
      ELSE IF dir > 0 /\ busy
        THEN IF old < idealSpeed[c] THEN <<idealSpeed[c], rel>>
             ELSE IF tun.ramp_up_step # 0 THEN <<UIntToInt(old + tun.ramp_up_step), RelH>>
             ELSE <<policy.max, RelH>>
      ELSE IF dir < 0
        THEN IF old > idealSpeed[c] THEN <<idealSpeed[c], RelH>>
             ELSE IF tun.ramp_down_step # 0 THEN <<UIntToInt(old - tun.ramp_down_step), rel>>
             ELSE <<RampDownHeuristic(old, curCpuLoad[c]), rel>>
      ELSE <<old, rel>>

\* Variant: the CPU loop runs one past the last CPU.
AdvanceOffByOne(s) ==
  IF s.cpu <= NumCpus THEN [s EXCEPT !.pc = "loop", !.cpu = @ + 1, !.target = 0]
                      ELSE [s EXCEPT !.pc = "idle", !.target = 0]

(* The loop of the work function moves on to the next possible CPU.        *)
Advance(s) ==
  IF s.cpu < NumCpus THEN [s EXCEPT !.pc = "loop", !.cpu = @ + 1, !.target = 0]
                     ELSE [s EXCEPT !.pc = "idle", !.target = 0]

(* A work-queue thread takes freq_scale_work off its queue; the PENDING   *)
(* bit is cleared before the work function runs.                           *)
WorkStart(w) ==
  /\ Running(ThreadCpu)
  /\ pending = w /\ wk[w].pc = "idle"
  /\ pending' = "none"
  /\ wk' = [wk EXCEPT ![w] = [pc |-> "loop", cpu |-> 1, rel |-> RelL, target |-> 0]]
  /\ UNCHANGED <<cur, idealSpeed, oldFreq, rampDir, curCpuLoad, timer,
                 changeAge, exitAge, idle, mask, suspended, pm>>
  /\ UNCHANGED govVars

(* work_cpumask_test_and_clear() finds the CPU's bit clear: continue.      *)
WorkSkip(w) ==
  /\ Running(ThreadCpu)
  /\ wk[w].pc = "loop" /\ wk[w].cpu \notin mask
  /\ wk' = [wk EXCEPT ![w] = Advance(wk[w])]
  /\ UNCHANGED <<cur, idealSpeed, oldFreq, rampDir, curCpuLoad, timer,
                 changeAge, exitAge, idle, mask, pending, suspended, pm>>
  /\ UNCHANGED govVars

\* Variant: the CPU's bit is tested but not cleared.
WorkPickNoClear(w) ==
  LET c == wk[w].cpu IN
  /\ Running(ThreadCpu)
  /\ wk[w].pc = "loop" /\ c \in mask
  /\ \E busy \in NrRunning :
       LET nf == NewFreq(c, busy, wk[w].rel)
           t  == TargetFreq(nf[1], oldFreq[c], nf[2])
       IN  /\ rampDir' = [rampDir EXCEPT ![c] = 0]
           /\ IF t = 0
                THEN /\ wk' = [wk EXCEPT ![w] = Advance([@ EXCEPT !.rel = nf[2]])]
                     /\ ResetTimer(c)
                ELSE /\ wk' = [wk EXCEPT ![w] = [@ EXCEPT !.pc = "transit",
                                                   !.rel = nf[2], !.target = t]]
                     /\ UNCHANGED <<timer, exitAge>>
  /\ UNCHANGED <<cur, idealSpeed, oldFreq, curCpuLoad, changeAge, idle, mask,
                 pending, suspended, pm>>
  /\ UNCHANGED govVars

(* The bit was set: take ramp_dir, compute the new frequency and call     *)
(* target_freq().  When it returns 0 nothing is set and the timer is      *)
(* re-armed (0 < policy->max); otherwise the transition starts.           *)
WorkPick(w) ==
  LET c == wk[w].cpu IN
  /\ Running(ThreadCpu)
  /\ wk[w].pc = "loop" /\ c \in mask
  /\ \E busy \in NrRunning :
       LET nf == NewFreq(c, busy, wk[w].rel)
           t  == TargetFreq(nf[1], oldFreq[c], nf[2])
       IN  /\ mask' = mask \ {c}
           /\ rampDir' = [rampDir EXCEPT ![c] = 0]
           /\ IF t = 0
                THEN /\ wk' = [wk EXCEPT ![w] = Advance([@ EXCEPT !.rel = nf[2]])]
                     /\ ResetTimer(c)
                ELSE /\ wk' = [wk EXCEPT ![w] = [@ EXCEPT !.pc = "transit",
                                                   !.rel = nf[2], !.target = t]]
                     /\ UNCHANGED <<timer, exitAge>>
  /\ UNCHANGED <<cur, idealSpeed, oldFreq, curCpuLoad, changeAge, idle,
                 pending, suspended, pm>>
  /\ UNCHANGED govVars

\* Variant: the work function leaves the timer alone below policy max.
WorkDoneNoRearm(w) ==
  LET c == wk[w].cpu
      t == wk[w].target
  IN  /\ Running(ThreadCpu)
      /\ wk[w].pc = "transit"
      /\ \E ok \in Outcomes : cur' = IF ok THEN [cur EXCEPT ![c] = t] ELSE cur
      /\ changeAge' = [changeAge EXCEPT ![c] = 0]
      /\ IF t < policy.max
           THEN UNCHANGED <<timer, exitAge>>
           ELSE /\ timer' = [timer EXCEPT ![c] = NoTimer]
                /\ UNCHANGED exitAge
      /\ wk' = [wk EXCEPT ![w] = Advance(wk[w])]
      /\ UNCHANGED <<idealSpeed, oldFreq, rampDir, curCpuLoad, idle, mask,
                     pending, suspended, pm>>
      /\ UNCHANGED govVars

(* __cpufreq_driver_target() returns; its result is ignored.  The change  *)
(* time is recorded, and the timer re-armed below policy max or deleted   *)
(* at it, both after the frequency that was asked for.                     *)
WorkDone(w) ==
  LET c == wk[w].cpu
      t == wk[w].target
  IN  /\ Running(ThreadCpu)
      /\ wk[w].pc = "transit"
      /\ \E ok \in Outcomes : cur' = IF ok THEN [cur EXCEPT ![c] = t] ELSE cur
      /\ changeAge' = [changeAge EXCEPT ![c] = 0]
      /\ IF t < policy.max
           THEN ResetTimer(c)
           ELSE /\ timer' = [timer EXCEPT ![c] = NoTimer]
                /\ UNCHANGED exitAge
      /\ wk' = [wk EXCEPT ![w] = Advance(wk[w])]
      /\ UNCHANGED <<idealSpeed, oldFreq, rampDir, curCpuLoad, idle, mask,
                     pending, suspended, pm>>
      /\ UNCHANGED govVars

(* smartass2_early_suspend() run by the early-suspend worker on CPU p.    *)
(* It returns at once when already suspended or sleep_ideal_freq is 0.    *)
(* smartass2_suspend(i, 1) works on smp_processor_id(), not on i, so the  *)
(* loop over the online CPUs updates CPU p NumCpus times, and does       *)
(* nothing when CPU p's governor is disabled.                              *)
Smartass2EarlySuspend(p) ==
  /\ pm.pc = "idle" /\ Running(p)
  /\ ~suspended /\ tun.sleep_ideal_freq # 0
  /\ suspended' = TRUE
  /\ IF enable[p]
       THEN /\ idealSpeed' = [idealSpeed EXCEPT ![p] = UpdateMinMax(policy, tun, TRUE)]
            /\ changeAge' = [changeAge EXCEPT ![p] = 0]
            /\ ResetTimer(p)
       ELSE UNCHANGED <<idealSpeed, changeAge, timer, exitAge>>
  /\ UNCHANGED <<cur, oldFreq, rampDir, curCpuLoad, idle, mask, pending, wk, pm>>
  /\ UNCHANGED govVars

(* The driver resolves the wake-up frequency with RELATION_L.              *)
WakeTarget == TableTarget(ValidateFreq(tun.sleep_wakeup_freq), RelL)

\* Variant: the resume handler leaves ideal_speed at the sleep value.
Smartass2LateResumeKeepIdeal(p) ==
  /\ pm.pc = "idle" /\ Running(p)
  /\ suspended
  /\ suspended' = FALSE
  /\ pm' = IF enable[p]
           THEN [pc |-> "transit", cpu |-> p, left |-> NumCpus - 1,
                 target |-> WakeTarget]
           ELSE pm
  /\ UNCHANGED <<cur, idealSpeed, oldFreq, rampDir, curCpuLoad, timer, changeAge,
                 exitAge, idle, mask, pending, wk>>
  /\ UNCHANGED govVars

(* smartass2_late_resume(): clear suspended, then smartass2_suspend(i, 0) *)
(* for every online CPU, each on CPU p: awake ideal speed and a jump to   *)
(* sleep_wakeup_freq; nothing when CPU p's governor is disabled.          *)
Smartass2LateResume(p) ==
  /\ pm.pc = "idle" /\ Running(p)
  /\ suspended
  /\ suspended' = FALSE
  /\ IF enable[p]
       THEN /\ idealSpeed' = [idealSpeed EXCEPT ![p] = UpdateMinMax(policy, tun, FALSE)]
            /\ pm' = [pc |-> "transit", cpu |-> p, left |-> NumCpus - 1,
                      target |-> WakeTarget]
       ELSE UNCHANGED <<idealSpeed, pm>>
  /\ UNCHANGED <<cur, oldFreq, rampDir, curCpuLoad, timer, changeAge, exitAge,
                 idle, mask, pending, wk>>
  /\ UNCHANGED govVars

(* The wake-up jump returns; reset_timer(); the next loop iteration (same *)
(* CPU again) starts another jump unless the governor was disabled.        *)
PmDone ==
  /\ pm.pc = "transit" /\ Running(pm.cpu)
  /\ \E ok \in Outcomes :
       cur' = IF ok THEN [cur EXCEPT ![pm.cpu] = pm.target] ELSE cur
  /\ ResetTimer(pm.cpu)
  /\ pm' = IF pm.left > 0 /\ enable[pm.cpu] THEN [pm EXCEPT !.left = @ - 1]
           ELSE [pm EXCEPT !.pc = "idle"]
  /\ UNCHANGED <<idealSpeed, oldFreq, rampDir, curCpuLoad, changeAge, idle,
                 mask, pending, wk, suspended>>
  /\ UNCHANGED govVars

(* CPUFREQ_GOV_STOP up to flush_work(): enable = 0, del_timer().  The     *)
(* cpufreq core serialises governor calls: one at a time.  The call runs  *)
(* on a CPU that is not in pm_idle, so cpufreq_idle(), which reads enable *)
(* once on entry, never sees it change under it.                          *)
GovStop(c) ==
  /\ GovSwitch /\ enable[c] /\ gov.pc = "idle" /\ ~idle[c]
  /\ enable' = [enable EXCEPT ![c] = FALSE]
  /\ timer' = [timer EXCEPT ![c] = NoTimer]
  /\ gov' = [gov EXCEPT !.pc = "flush", !.cpu = c]
  /\ UNCHANGED <<cur, idealSpeed, oldFreq, rampDir, curCpuLoad, changeAge,
                 exitAge, idle, mask, pending, wk, suspended, pm, policy, tun>>

(* flush_work() returns once freq_scale_work is neither pending nor       *)
(* running; then idle_exit_time = 0.  With one CPU, active_count drops to *)
(* 0, the sysfs group is removed and pm_idle restored, after which the    *)
(* idle loop behaves as cpufreq_idle() does for a disabled governor.      *)
GovStopFlushed ==
  /\ gov.pc = "flush"
  /\ pending = "none" /\ \A w \in Workers : wk[w].pc = "idle"
  /\ exitAge' = [exitAge EXCEPT ![gov.cpu] = ExitZero]
  /\ gov' = [gov EXCEPT !.pc = "idle"]
  /\ UNCHANGED <<cur, idealSpeed, oldFreq, rampDir, curCpuLoad, timer,
                 changeAge, idle, mask, pending, wk, suspended, pm, enable, policy, tun>>

(* CPUFREQ_GOV_START: enable = 1, ideal_speed for the current regime, and *)
(* the timer armed when below policy max and not already pending.          *)
GovStart(c) ==
  /\ GovSwitch /\ ~enable[c] /\ gov.pc = "idle" /\ ~idle[c]
  /\ enable' = [enable EXCEPT ![c] = TRUE]
  /\ idealSpeed' = [idealSpeed EXCEPT ![c] = UpdateMinMax(policy, tun, suspended)]
  /\ IF cur[c] < policy.max /\ timer[c] = NoTimer
       THEN ResetTimer(c) ELSE UNCHANGED <<timer, exitAge>>
  /\ UNCHANGED <<cur, oldFreq, rampDir, curCpuLoad, changeAge, idle, mask,
                 pending, wk, suspended, pm, gov, policy, tun>>

\* Variant: GOV_LIMITS without the jump up to a raised policy->min.
GovLimitsNoMinJump(c, l) ==
  /\ enable[c] /\ gov.pc = "idle" /\ ~idle[c]
  /\ policy' = l
  /\ idealSpeed' = [idealSpeed EXCEPT ![c] = UpdateMinMax(l, tun, suspended)]
  /\ IF cur[c] > l.max
       THEN /\ gov' = [pc |-> "limits", cpu |-> c, target |-> TableTargetIn(l, l.max, RelH)]
            /\ UNCHANGED <<timer, exitAge>>
       ELSE /\ IF cur[c] < l.max /\ timer[c] = NoTimer
                 THEN ResetTimer(c) ELSE UNCHANGED <<timer, exitAge>>
            /\ UNCHANGED gov
  /\ UNCHANGED <<cur, oldFreq, rampDir, curCpuLoad, changeAge, idle, mask,
                 pending, wk, suspended, pm, enable, tun>>

(* CPUFREQ_GOV_LIMITS with the new policy l: ideal_speed for the current  *)
(* regime clamped to l, then a jump to the new max (RELATION_H) when      *)
(* policy->cur is above it, or to the new min (RELATION_L) when below it; *)
(* the call blocks in __cpufreq_driver_target().  Without a jump the     *)
(* timer is re-armed at once when below max and not pending.               *)
GovLimits(c, l) ==
  /\ enable[c] /\ gov.pc = "idle" /\ ~idle[c]
  /\ policy' = l
  /\ idealSpeed' = [idealSpeed EXCEPT ![c] = UpdateMinMax(l, tun, suspended)]
  /\ IF cur[c] > l.max \/ cur[c] < l.min
       THEN /\ gov' = [pc |-> "limits", cpu |-> c,
                       target |-> IF cur[c] > l.max THEN TableTargetIn(l, l.max, RelH)
                                                    ELSE TableTargetIn(l, l.min, RelL)]
            /\ UNCHANGED <<timer, exitAge>>
       ELSE /\ IF cur[c] < l.max /\ timer[c] = NoTimer
                 THEN ResetTimer(c) ELSE UNCHANGED <<timer, exitAge>>
            /\ UNCHANGED gov
  /\ UNCHANGED <<cur, oldFreq, rampDir, curCpuLoad, changeAge, idle, mask,
                 pending, wk, suspended, pm, enable, tun>>

(* The GOV_LIMITS jump returns; the timer is re-armed when policy->cur,   *)
(* read again, is below the new max and the timer is not pending.          *)
GovLimitsDone ==
  LET c == gov.cpu IN
  /\ gov.pc = "limits" /\ Running(c)
  /\ \E ok \in Outcomes :
       LET cur2 == IF ok THEN [cur EXCEPT ![c] = gov.target] ELSE cur IN
       /\ cur' = cur2
       /\ IF cur2[c] < policy.max /\ timer[c] = NoTimer
            THEN ResetTimer(c) ELSE UNCHANGED <<timer, exitAge>>
  /\ gov' = [gov EXCEPT !.pc = "idle"]
  /\ UNCHANGED <<idealSpeed, oldFreq, rampDir, curCpuLoad, changeAge, idle,
                 mask, pending, wk, suspended, pm, enable, policy, tun>>

-----------------------------------------------------------------------------
(* The sysfs stores of the tunables.  Each parses its input, and if the    *)
(* value is in range writes the global, with no lock; out of range, the   *)
(* write returns without effect.                                           *)

\* Variant: the regime test of the ideal-speed stores inverted.
StoreIdealFreqInverted(f, v) ==
  LET t == [tun EXCEPT ![f] = v] IN
  /\ tun' = t
  /\ IF \/ f = "sleep_ideal_freq" /\ ~suspended
        \/ f = "awake_ideal_freq" /\ suspended
       THEN idealSpeed' = [c \in CPUS |-> IF enable[c] THEN UpdateMinMax(policy, t, suspended)
                                                    ELSE idealSpeed[c]]
       ELSE UNCHANGED idealSpeed
  /\ UNCHANGED <<cur, oldFreq, rampDir, curCpuLoad, timer, changeAge, exitAge,
                 idle, mask, pending, wk, suspended, pm, enable, gov, policy>>

(* smartass2_update_min_max_allcpus(): every enabled CPU gets the ideal    *)
(* speed of the regime under the tunables t.                               *)
UpdateMinMaxAllCpus(t) ==
  idealSpeed' = [c \in CPUS |-> IF enable[c] THEN UpdateMinMax(policy, t, suspended)
                                             ELSE idealSpeed[c]]

StoreOthers == <<cur, oldFreq, rampDir, curCpuLoad, timer, changeAge, exitAge,
                 idle, mask, pending, wk, suspended, pm, enable, gov, policy>>

(* store_up_rate_us(), store_down_rate_us(): 0 .. 100000000 us.            *)
StoreRate(f, v) ==
  /\ tun' = IF v <= RateLimit THEN [tun EXCEPT ![f] = v] ELSE tun
  /\ UNCHANGED <<idealSpeed, StoreOthers>>

(* store_sleep_ideal_freq(), store_awake_ideal_freq(): any value; the     *)
(* ideal speeds are recomputed when the value is the current regime's.    *)
(* store_sleep_wakeup_freq() only writes the global.                      *)
StoreIdealFreq(f, v) ==
  LET t == [tun EXCEPT ![f] = v] IN
  /\ tun' = t
  /\ IF \/ f = "sleep_ideal_freq" /\ suspended
        \/ f = "awake_ideal_freq" /\ ~suspended
       THEN UpdateMinMaxAllCpus(t)
       ELSE UNCHANGED idealSpeed
  /\ UNCHANGED StoreOthers

(* store_sample_rate_jiffies(): 1 .. 1000.                                 *)
StoreSampleRate(v) ==
  /\ tun' = IF v > 0 /\ v <= 1000 THEN [tun EXCEPT !.sample_rate_jiffies = v] ELSE tun
  /\ UNCHANGED <<idealSpeed, StoreOthers>>

(* store_ramp_up_step(), store_ramp_down_step(): any unsigned long, kept *)
(* in an unsigned int.                                                   *)
StoreRampStep(f, v) ==
  /\ tun' = [tun EXCEPT ![f] = v % (2^IntBits)]
  /\ UNCHANGED <<idealSpeed, StoreOthers>>

(* store_max_cpu_load(): 1 .. 100; store_min_cpu_load(): 1 .. 99.  The   *)
(* two are not checked against each other.                                *)
StoreLoad(f, v) ==
  LET ok == v > 0 /\ (IF f = "max_cpu_load" THEN v <= 100 ELSE v < 100) IN
  /\ tun' = IF ok THEN [tun EXCEPT ![f] = v] ELSE tun
  /\ UNCHANGED <<idealSpeed, StoreOthers>>

Store ==
  \/ \E f \in {"up_rate_us", "down_rate_us"} : \E v \in Inputs[f] : StoreRate(f, v)
  \/ \E f \in {"sleep_ideal_freq", "awake_ideal_freq", "sleep_wakeup_freq"} :
        \E v \in Inputs[f] : StoreIdealFreq(f, v)
  \/ \E v \in Inputs.sample_rate_jiffies : StoreSampleRate(v)
  \/ \E f \in {"ramp_up_step", "ramp_down_step"} : \E v \in Inputs[f] : StoreRampStep(f, v)
  \/ \E f \in {"max_cpu_load", "min_cpu_load"} : \E v \in Inputs[f] : StoreLoad(f, v)

Next ==
  \/ Tick
  \/ Store
  \/ \E c \in CPUS : TimerIdleExitZero(c) \/ TimerShortSample(c) \/ TimerSample(c)
  \/ \E c \in CPUS : CpuIdleEnter(c) \/ CpuIdleExit(c)
  \/ \E w \in Workers : WorkStart(w) \/ WorkSkip(w) \/ WorkPick(w) \/ WorkDone(w)
  \/ \E p \in CPUS : Smartass2EarlySuspend(p) \/ Smartass2LateResume(p)
  \/ PmDone
  \/ \E c \in CPUS : GovStop(c) \/ GovStart(c)
  \/ GovStopFlushed
  \/ \E c \in CPUS : \E l \in Limits : GovLimits(c, l)
  \/ GovLimitsDone

(* Time passes; an expired timer fires; a woken CPU leaves idle; a        *)
(* runnable kernel thread runs; a blocked clock change returns.  Suspend  *)
(* and resume, the choice of governor and of its limits are the user's   *)
(* and get no fairness.                                                    *)
Fairness ==
  /\ WF_vars(Tick)
  /\ \A c \in CPUS : /\ WF_vars(TimerIdleExitZero(c)) /\ WF_vars(TimerSample(c))
                     /\ WF_vars(CpuIdleExit(c))
  /\ \A w \in Workers : /\ WF_vars(WorkStart(w)) /\ WF_vars(WorkSkip(w))
                        /\ WF_vars(WorkPick(w)) /\ WF_vars(WorkDone(w))
  /\ WF_vars(PmDone) /\ WF_vars(GovStopFlushed) /\ WF_vars(GovLimitsDone)

Spec == Init /\ [][Next]_vars /\ Fairness

-----------------------------------------------------------------------------
(* Properties *)

(* At most one frequency transition is in flight per CPU (spec: a suspend *)
(* and a governor transition on a CPU exclude each other; transitions of  *)
(* a CPU are strictly ordered).  Concerns the two work-queue threads      *)
(* sharing freq_scale_work and the resume handler's jump.                  *)
SingleInFlight == \A c \in CPUS : Cardinality(InFlight(c)) <= 1

(* The two work-queue threads never both run the work function's         *)
(* transition for the same CPU: freq_scale_work is one work item, but     *)
(* PENDING is cleared before it runs, so the timer can queue it on the    *)
(* other queue while a run is blocked in the driver.                      *)
WorkRunsSerialized ==
  \A c \in CPUS : Cardinality(InFlight(c) \cap Workers) <= 1

(* A CPU marked in work_cpumask is not forgotten: the work is pending, or *)
(* a running work function has yet to reach that CPU in its loop.  This   *)
(* is about the timer setting the bit while a run of the work is past it. *)
NoLostWork ==
  \A c \in mask :
    \/ pending # "none"
    \/ \E w \in Workers : \/ wk[w].pc = "loop" /\ wk[w].cpu <= c
                          \/ wk[w].pc = "transit" /\ wk[w].cpu < c

(* A CPU whose governor is enabled and below policy max keeps being       *)
(* sampled: its timer is pending, it                                       *)
(* is idle (the idle hook re-arms the timer on exit), it is marked for    *)
(* the work, or a transition that will re-arm the timer is in flight.     *)
(* Concerns the work function deleting the timer after a jump to max.     *)
(* It fails once GOV_STOP and GOV_START are allowed: a timer re-armed    *)
(* inside flush_work() fires after idle_exit_time = 0 and GOV_START,     *)
(* and returns without re-arming.                                          *)
SamplingAlive ==
  \A c \in CPUS :
    enable[c] /\ cur[c] < policy.max =>
      timer[c] # NoTimer \/ idle[c] \/ c \in mask \/ InFlight(c) # {}

(* Every CPU whose governor is enabled has the clamped ideal of the       *)
(* current regime as ideal_speed, after any sequence of suspend and resume *)
(* handlers and of governor stops and starts (the handlers skip a disabled *)
(* governor, and GOV_START recomputes it).                                 *)
IdealMatchesRegime ==
  \A c \in CPUS : enable[c] => idealSpeed[c] = UpdateMinMax(policy, tun, suspended)

(* Under sustained load with more than one runnable task, every CPU       *)
(* reaches policy max and stays there.                                      *)
HighLoadReachesMax == <>[](\A c \in CPUS : cur[c] = policy.max)

(* Once GOV_STOP has returned for a CPU, the governor has left nothing     *)
(* behind on it: no sample timer armed, the CPU not marked for the work,   *)
(* and no transition of its own in flight.  Concerns del_timer() coming   *)
(* before flush_work(): a work run finishing inside the flush calls       *)
(* reset_timer(), and the timer function never tests enable.              *)
GovStopQuiesces ==
  \A c \in CPUS :
    (~enable[c] /\ gov.pc = "idle") =>
       timer[c] = NoTimer /\ c \notin mask /\ InFlight(c) = {}

(* A transition the work function starts moves policy->cur in the        *)
(* direction the timer decided for the CPU: up for ramp_dir 1, down for   *)
(* ramp_dir -1, and there is none for ramp_dir 0.  The work function reads *)
(* ramp_dir, old_freq, ideal_speed and the tunables after the timer, and  *)
(* the resume handler's jump or a sysfs store may have come in between.   *)
RampFollowsDecision ==
  [][\A w \in Workers :
       wk[w].pc = "loop" /\ wk'[w].pc = "transit" =>
         LET c == wk[w].cpu IN
         \/ rampDir[c] = 1 /\ wk'[w].target > cur[c]
         \/ rampDir[c] = -1 /\ wk'[w].target < cur[c]]_vars


(* When no transition is in flight on a CPU whose governor is enabled,    *)
(* policy->cur lies inside the policy limits.  GOV_LIMITS jumps into the  *)
(* new limits, but the work function's and the resume handler's targets  *)
(* were resolved against the limits of their own time.                    *)
CurWithinLimits ==
  \A c \in CPUS :
    enable[c] /\ InFlight(c) = {} => policy.min <= cur[c] /\ cur[c] <= policy.max

=============================================================================
