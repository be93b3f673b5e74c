---------------------------- MODULE MCSmartass2 ----------------------------
(* The frequency table of the spec's scenario (100, 200, 400, 800 MHz)    *)
(* in units of 100 MHz, the default thresholds, and rates in jiffies.     *)
EXTENDS Smartass2

MCFreqTable == {1, 2, 4, 8}

\* 100000000 us is far above any rate in jiffies the runs use.
MCRateLimit == 20

MCNoInputs == [f \in Tunables |-> {}]

(* Writes to the sysfs files: ramp_down_step 0 turns on the load          *)
(* heuristic of the ramp down.                                             *)
MCInputs == [MCNoInputs EXCEPT !.ramp_down_step = {0}]

(* Under full load, a write to every file: accepted values of the ideal  *)
(* frequencies and ramp steps, values out of the store's range            *)
(* (up_rate_us 21, sample_rate_jiffies 0, max_cpu_load 101, min_cpu_load  *)
(* 100) and the current value (down_rate_us, sleep_wakeup_freq,           *)
(* ramp_down_step).  With no idle time the load thresholds and the sample *)
(* period do not change the decision, so only their range checks matter. *)
MCLoadInputs ==
  [up_rate_us |-> {21}, down_rate_us |-> {3},
   sleep_ideal_freq |-> {0}, sleep_wakeup_freq |-> {8},
   awake_ideal_freq |-> {4}, sample_rate_jiffies |-> {0},
   ramp_up_step |-> {0}, ramp_down_step |-> {1},
   max_cpu_load |-> {101}, min_cpu_load |-> {100}]

MCNoLimits == {}

(* GOV_LIMITS raising policy->min to 2 and lowering it back to 1.          *)
MCLimits == {[min |-> 1, max |-> 8], [min |-> 2, max |-> 8]}

====
