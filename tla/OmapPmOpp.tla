------------------------------ MODULE OmapPmOpp ------------------------------
(***************************************************************************)
(* VDD1 operating-point selection of arch/arm/plat-omap/omap-pm.c, the     *)
(* !CONFIG_CPU_OVERCLOCK build.                                            *)
(*                                                                         *)
(* Two callers pick the OPP of the MPU and IVA (DSP) clocks:               *)
(*  - omap_pm_cpu_set_freq(f), called by cpufreq for the MPU frequency;    *)
(*  - omap_pm_dsp_set_min_opp(opp_id), called by the DSP bridge for the    *)
(*    DSP's minimum OPP.                                                   *)
(* Each takes the higher of its own request and the other's last one      *)
(* (mpu_req_id, dsp_req_id); the globals are shared without a lock.  Each  *)
(* omap_device_set_rate() blocks (voltage and clock change): its effect is *)
(* a step of its own, so the other caller can run in between.  The two     *)
(* callers are one process each (cpufreq serialises its targets).          *)
(* Tables are indexed from 0 as in C; the entry at index ft_count is the   *)
(* CPUFREQ_TABLE_END terminator of the cpufreq tables.                     *)
(*                                                                         *)
(* An MPU rate change ends in omap3_mpu_set_rate() (mach-omap2/           *)
(* cpufreq34xx.c, LG-DVFS not running): CPUFREQ_PRECHANGE, clk_set_rate()  *)
(* on dpll1, and only if that succeeded CPUFREQ_POSTCHANGE, on which the   *)
(* cpufreq core sets policy->cur to the new rate.  Rates are in kHz; the   *)
(* * 1000 of omap-pm.c and the / 1000 of cpufreq34xx.c cancel exactly.     *)
(***************************************************************************)
EXTENDS Naturals, Sequences

CONSTANTS
  MpuTable,        \* mpu_freq_table[0..ft_count-1].frequency
  DspTable,        \* dsp_freq_table[0..ft_count-1].frequency
  TableEnd,        \* CPUFREQ_TABLE_END
  OppIds,          \* opp_id values the DSP bridge may pass
  SetRateMayFail   \* omap_device_set_rate() may return an error

FtCount == Len(MpuTable)      \* ft_count: both tables have it (checked at init)
Idx == 0..FtCount - 1

ASSUME
  /\ Len(DspTable) = FtCount /\ FtCount > 0
  /\ \A i \in 1..FtCount - 1 : MpuTable[i] < MpuTable[i + 1]
  /\ \A i \in 1..FtCount - 1 : DspTable[i] <= DspTable[i + 1]

(* table[i].frequency, C indexing, the terminator after the last OPP.     *)
MpuF(i) == IF i < FtCount THEN MpuTable[i + 1] ELSE TableEnd
DspF(i) == IF i < FtCount THEN DspTable[i + 1] ELSE TableEnd

(* initialize_tables(): dsp_opps, the table the DSP bridge is handed,     *)
(* holds the DSP OPPs from its first (not 0th) entry on, opp_id being the *)
(* cpufreq index + 1, between two zero entries.                            *)
DspOpps ==
  [i \in 0..FtCount + 1 |->
     IF i \in 1..FtCount THEN [enabled |-> 1, rate |-> DspF(i - 1), opp_id |-> i]
                         ELSE [enabled |-> 0, rate |-> 0, opp_id |-> 0]]

VARIABLES
  mpuClk, ivaClk,  \* rates of mpu_clk and iva_clk (kHz)
  dspReqId,        \* dsp_req_id
  mpuReqId,        \* mpu_req_id
  mpuReqFreq,      \* mpu_req_freq
  cpu,             \* omap_pm_cpu_set_freq(): [pc, sel, i]
  dsp,             \* omap_pm_dsp_set_min_opp(): [pc, sel]
  overlapped,      \* history: a call once started while the other was in progress
  failed,          \* history: an omap_device_set_rate() once returned an error
  policyCur        \* cpufreq's policy->cur, as the notifications left it

vars == <<mpuClk, ivaClk, dspReqId, mpuReqId, mpuReqFreq, cpu, dsp, overlapped, failed, policyCur>>

Freqs == {MpuF(i) : i \in 0..FtCount} \cup {DspF(i) : i \in 0..FtCount}

TypeOK ==
  /\ mpuClk \in Freqs /\ ivaClk \in Freqs
  /\ dspReqId \in 0..FtCount /\ mpuReqId \in Idx
  /\ mpuReqFreq \in {0} \cup Freqs
  /\ cpu \in [pc : {"idle", "mpu", "post", "iva", "reqid"}, sel : {0} \cup Freqs, i : Idx]
  /\ dsp \in [pc : {"idle", "mpu", "post", "iva"}, sel : 0..FtCount]
  /\ overlapped \in BOOLEAN /\ failed \in BOOLEAN
  /\ policyCur \in Freqs

Outcomes == IF SetRateMayFail THEN BOOLEAN ELSE {TRUE}

(* omap3_mpu_set_rate() up to its return on a clk_set_rate() error: the   *)
(* PRECHANGE notification changes nothing cpufreq keeps here, and dpll1   *)
(* takes the new rate only if clk_set_rate() succeeds.                    *)
Dpll1SetRate(ok, rate) == mpuClk' = IF ok THEN rate ELSE mpuClk

(* History: the outcome of an omap_device_set_rate() call.                 *)
NoteOutcome(ok) == failed' = (failed \/ ~ok)

(* Boot: both clocks at one OPP, the static request ids 0.                 *)
Init ==
  /\ \E k \in Idx : mpuClk = MpuF(k) /\ ivaClk = DspF(k)
  /\ dspReqId = 0 /\ mpuReqId = 0 /\ mpuReqFreq = 0
  /\ cpu = [pc |-> "idle", sel |-> 0, i |-> 0]
  /\ dsp = [pc |-> "idle", sel |-> 0]
  /\ overlapped = FALSE /\ failed = FALSE
  /\ policyCur = mpuClk

-----------------------------------------------------------------------------
(* omap_pm_cpu_set_freq(f) *)

\* Variant: selfreq ignores the DSP's minimum.
CpuSetFreqOwnOnly(f) ==
  LET currspeed == mpuClk IN
  /\ cpu.pc = "idle"
  /\ mpuReqFreq' = f
  /\ cpu' = [cpu EXCEPT !.pc = IF f # currspeed THEN "mpu" ELSE "iva", !.sel = f]
  /\ overlapped' = (overlapped \/ dsp.pc # "idle")
  /\ UNCHANGED <<mpuClk, ivaClk, dspReqId, mpuReqId, dsp, failed, policyCur>>

(* Up to the first omap_device_set_rate(): currspeed is read, f rounded up *)
(* to an OPP (opp_find_freq_ceil) and recorded, selfreq is the higher of   *)
(* it and the DSP's minimum.  The MPU rate is set only when mpu_req_freq  *)
(* differs from currspeed.                                                 *)
CpuSetFreq(f) ==
  LET currspeed == mpuClk
      sel == IF f > MpuF(dspReqId) THEN f ELSE MpuF(dspReqId)
  IN  /\ cpu.pc = "idle"
      /\ mpuReqFreq' = f
      /\ cpu' = [cpu EXCEPT !.pc = IF f # currspeed THEN "mpu" ELSE "iva", !.sel = sel]
      /\ overlapped' = (overlapped \/ dsp.pc # "idle")
      /\ UNCHANGED <<mpuClk, ivaClk, dspReqId, mpuReqId, dsp, failed, policyCur>>

(* clk_set_rate() on dpll1 returns.  On an error omap3_mpu_set_rate()     *)
(* returns at once, without CPUFREQ_POSTCHANGE, and the caller only logs  *)
(* it.                                                                     *)
CpuMpuDone ==
  /\ cpu.pc = "mpu"
  /\ \E ok \in Outcomes :
       /\ Dpll1SetRate(ok, cpu.sel) /\ NoteOutcome(ok)
       /\ cpu' = [cpu EXCEPT !.pc = IF ok THEN "post" ELSE "iva"]
  /\ UNCHANGED <<ivaClk, dspReqId, mpuReqId, mpuReqFreq, dsp, overlapped, policyCur>>

\* Variant: the post notification carries freqs.old.
CpuMpuPostOld ==
  /\ cpu.pc = "post"
  /\ policyCur' = policyCur
  /\ cpu' = [cpu EXCEPT !.pc = "iva"]
  /\ UNCHANGED <<mpuClk, ivaClk, dspReqId, mpuReqId, mpuReqFreq, dsp, overlapped, failed>>

(* CPUFREQ_POSTCHANGE with freqs.new = rate / 1000: policy->cur = new.     *)
CpuMpuPost ==
  /\ cpu.pc = "post"
  /\ policyCur' = cpu.sel
  /\ cpu' = [cpu EXCEPT !.pc = "iva"]
  /\ UNCHANGED <<mpuClk, ivaClk, dspReqId, mpuReqId, mpuReqFreq, dsp, overlapped, failed>>

(* The loop finds the OPP of selfreq and sets the DSP rate of that OPP;   *)
(* with no such OPP the function ends.                                     *)
CpuIvaDone ==
  /\ cpu.pc = "iva"
  /\ IF \E i \in Idx : MpuF(i) = cpu.sel
       THEN LET i == CHOOSE i \in Idx : MpuF(i) = cpu.sel IN
            /\ \E ok \in Outcomes : /\ ivaClk' = IF ok THEN DspF(i) ELSE ivaClk
                                    /\ NoteOutcome(ok)
            /\ cpu' = [cpu EXCEPT !.pc = "reqid", !.i = i]
       ELSE /\ cpu' = [cpu EXCEPT !.pc = "idle"]
            /\ UNCHANGED <<ivaClk, failed>>
  /\ UNCHANGED <<mpuClk, dspReqId, mpuReqId, mpuReqFreq, dsp, overlapped, policyCur>>

(* mpu_req_id = i, after the DSP rate change returned.                     *)
CpuReqId ==
  /\ cpu.pc = "reqid"
  /\ mpuReqId' = cpu.i
  /\ cpu' = [cpu EXCEPT !.pc = "idle"]
  /\ UNCHANGED <<mpuClk, ivaClk, dspReqId, mpuReqFreq, dsp, overlapped, failed, policyCur>>

-----------------------------------------------------------------------------
(* omap_pm_dsp_set_min_opp(opp_id) *)

(* selopp in the build without CONFIG_CPU_OVERCLOCK: the higher of the    *)
(* DSP's and the CPU's request ids.                                        *)
DspSelOpp(rid) == IF rid > mpuReqId THEN rid ELSE mpuReqId

\* Variant: opp_id 0 is not rejected.
DspSetMinOppNoLowerCheck(opp) ==
  LET currspeed == ivaClk
      rid == opp - 1
      sel == DspSelOpp(rid)
  IN  /\ dsp.pc = "idle"
      /\ IF opp > FtCount + 1
           THEN UNCHANGED <<dspReqId, dsp>>
           ELSE /\ dspReqId' = rid
                /\ dsp' = IF currspeed = DspF(sel) THEN dsp
                          ELSE [pc |-> "mpu", sel |-> sel]
      /\ overlapped' = (overlapped \/ cpu.pc # "idle")
      /\ UNCHANGED <<mpuClk, ivaClk, mpuReqId, mpuReqFreq, cpu, failed, policyCur>>

(* Up to the first omap_device_set_rate(): currspeed is the IVA rate, an   *)
(* opp_id outside 1..ft_count+1 is rejected, dsp_req_id = opp_id - 1, and *)
(* selopp is chosen; nothing is set if the IVA already runs at that OPP's *)
(* DSP rate.  LG-DVFS is not running (ds_status.flag_run_dvs = 0), so its *)
(* block at the top falls through.                                         *)
DspSetMinOpp(opp) ==
  LET currspeed == ivaClk
      rid == opp - 1
      sel == DspSelOpp(rid)
  IN  /\ dsp.pc = "idle"
      /\ IF opp <= 0 \/ opp > FtCount + 1
           THEN UNCHANGED <<dspReqId, dsp>>
           ELSE /\ dspReqId' = rid
                /\ dsp' = IF currspeed = DspF(sel) THEN dsp
                          ELSE [pc |-> "mpu", sel |-> sel]
      /\ overlapped' = (overlapped \/ cpu.pc # "idle")
      /\ UNCHANGED <<mpuClk, ivaClk, mpuReqId, mpuReqFreq, cpu, failed, policyCur>>

(* The MPU rate change returns; only on success is the IVA rate set, after *)
(* the post notification.                                                  *)
DspMpuDone ==
  /\ dsp.pc = "mpu"
  /\ \E ok \in Outcomes :
       /\ Dpll1SetRate(ok, MpuF(dsp.sel)) /\ NoteOutcome(ok)
       /\ dsp' = [dsp EXCEPT !.pc = IF ok THEN "post" ELSE "idle"]
  /\ UNCHANGED <<ivaClk, dspReqId, mpuReqId, mpuReqFreq, cpu, overlapped, policyCur>>

DspMpuPost ==
  /\ dsp.pc = "post"
  /\ policyCur' = MpuF(dsp.sel)
  /\ dsp' = [dsp EXCEPT !.pc = "iva"]
  /\ UNCHANGED <<mpuClk, ivaClk, dspReqId, mpuReqId, mpuReqFreq, cpu, overlapped, failed>>

DspIvaDone ==
  /\ dsp.pc = "iva"
  /\ \E ok \in Outcomes : /\ ivaClk' = IF ok THEN DspF(dsp.sel) ELSE ivaClk
                          /\ NoteOutcome(ok)
  /\ dsp' = [dsp EXCEPT !.pc = "idle"]
  /\ UNCHANGED <<mpuClk, dspReqId, mpuReqId, mpuReqFreq, cpu, overlapped, policyCur>>

-----------------------------------------------------------------------------
(* The getters: what cpufreq and the DSP bridge read back. *)

(* The loop of omap_pm_dsp_get_opp() from entry i: the first entry whose  *)
(* rate is the IVA rate, 0 at the zero terminator ("not in dsp_opps").     *)
RECURSIVE DspOppScan(_, _)
DspOppScan(rate, i) ==
  CASE DspOpps[i].rate = 0    -> 0
    [] DspOpps[i].rate = rate -> i
    [] OTHER                  -> DspOppScan(rate, i + 1)

(* omap_pm_dsp_get_opp(): the IVA rate in kHz looked up in dsp_opps from  *)
(* entry 1.                                                                *)
DspGetOpp == DspOppScan(ivaClk, 1)

(* omap_pm_cpu_get_freq(): clk_get_rate(mpu_clk) / 1000, the MPU rate in  *)
(* kHz, what the cpufreq driver's get() reports.                           *)
CpuGetFreq == mpuClk

Next ==
  \/ \E f \in {MpuF(i) : i \in Idx} : CpuSetFreq(f)
  \/ CpuMpuDone \/ CpuMpuPost \/ CpuIvaDone \/ CpuReqId
  \/ \E opp \in OppIds : DspSetMinOpp(opp)
  \/ DspMpuDone \/ DspMpuPost \/ DspIvaDone

Spec == Init /\ [][Next]_vars

-----------------------------------------------------------------------------
(* Properties *)

Quiet == cpu.pc = "idle" /\ dsp.pc = "idle"

(* With neither call in progress, the MPU runs at least at the MPU rate   *)
(* of the DSP's minimum OPP: whatever order the two callers ran in, the    *)
(* DSP's request is honoured.                                              *)
DspMinHonoured == Quiet => mpuClk >= MpuF(dspReqId)

(* As long as the two callers never overlapped and no rate change failed, *)
(* every quiet state has the IVA at least at the DSP rate of the DSP's     *)
(* minimum OPP and both clocks at the rates of one OPP: the selection of  *)
(* each function is right on its own, and breaking it needs the unlocked *)
(* interleaving or an error of the clock framework.  It speaks of the DSP *)
(* rate, not of the MPU OPP: where DSP rates repeat (the 36xx table), the  *)
(* early return of omap_pm_dsp_set_min_opp() on an equal IVA rate leaves  *)
(* the MPU below the requested OPP even without a race.                   *)
SequentialCallsCorrect ==
  (Quiet /\ ~overlapped /\ ~failed) =>
    /\ ivaClk >= DspF(dspReqId)
    /\ \E i \in Idx : mpuClk = MpuF(i) /\ ivaClk = DspF(i)

(* As long as the two callers never overlapped, cpufreq's policy->cur is  *)
(* what omap_pm_cpu_get_freq() reports whenever no call is in progress,    *)
(* rate changes failing or not: each successful dpll1 change is followed  *)
(* by its CPUFREQ_POSTCHANGE, and a failed one returns before it, leaving *)
(* both alone.  The governor's decisions start from policy->cur.          *)
CpufreqSeesClock == (Quiet /\ ~overlapped) => policyCur = CpuGetFreq

(* The DSP's request id always names an OPP of the table (the comment at  *)
(* line 619: the caller's [1..N] is the table's [0..N-1]).                  *)
DspReqInTable == dspReqId \in Idx

====
