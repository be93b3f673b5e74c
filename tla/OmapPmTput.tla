----------------------------- MODULE OmapPmTput -----------------------------
(***************************************************************************)
(* The interconnect-throughput aggregators of arch/arm/plat-omap/omap-pm.c *)
(*                                                                         *)
(* Two lists of the same shape, bus_tput (L3 bandwidth, KiB/s) and         *)
(* mpu_tput (minimum MPU frequency), keep one request per device.          *)
(* omap_pm_set_min_bus_tput() adds, replaces or removes a device's request *)
(* and hands the sum, converted to Hz, to omap_device_set_rate();          *)
(* omap_pm_set_min_mpu_freq() does the same and sets the maximum request   *)
(* when it changed.  Every call runs under bus_tput_mutex or               *)
(* mpu_tput_mutex (and throughput_mutex inside), so each call is one step. *)
(* LG-DVFS (ds_status.flag_run_dvs) is off: the early returns it guards   *)
(* are not taken.                                                          *)
(***************************************************************************)
EXTENDS Naturals, FiniteSets, FiniteSetsExt, Functions

CONSTANTS
  Devs,            \* struct device pointers that make requests (non-NULL)
  BusLevels,       \* throughput levels a driver requests, in KiB/s
  MpuLevels,       \* minimum MPU frequencies a driver requests
  KmallocMayFail,  \* get_user() may return ERR_PTR(-ENOMEM)
  SetRateMayFail   \* omap_device_set_rate() may return an error

None == -1         \* also the "release" argument r == -1 / f == -1

ASSUME BusLevels \subseteq Nat /\ MpuLevels \subseteq Nat

VARIABLES
  bus,        \* *bus_tput: [req, target, users, max]
  mpu,        \* *mpu_tput
  l3Rate,     \* rate last set on the L3 device by the bus path
  mpuRate,    \* rate last set on the MPU device by the mpu path
  busRet,     \* what the last omap_pm_set_min_bus_tput() returned
  mpuRet      \* what the last omap_pm_set_min_mpu_freq() returned

vars == <<bus, mpu, l3Rate, mpuRate, busRet, mpuRet>>

Rets == {"0", "-err"}     \* 0 or the error of omap_device_set_rate()

(* struct interconnect_tput: the users list as a function from a device to *)
(* its level (None when it has no node on the list), target_level,        *)
(* no_of_users and max_level.                                             *)
TputList(L) == [req : [Devs -> L \cup {None}], target : Nat, users : Nat, max : Nat]

TypeOK ==
  /\ bus \in TputList(BusLevels)
  /\ mpu \in TputList(MpuLevels)
  /\ l3Rate \in Nat
  /\ mpuRate \in Nat
  /\ busRet \in Rets /\ mpuRet \in Rets

Users(l) == {d \in Devs : l.req[d] # None}

(* omap_tput_list_init() *)
EmptyList == [req |-> [d \in Devs |-> None], target |-> 0, users |-> 0, max |-> 0]

(* The outcomes of a call that may fail in the platform. *)
Outcomes(mayFail) == IF mayFail THEN BOOLEAN ELSE {TRUE}

\* Variant: a replaced request is added without taking the old one off.
AddReqTputNoSub(l, d, level, allocOk) ==
  IF l.req[d] = None
    THEN IF ~allocOk THEN <<l, 0>>
         ELSE LET n == [l EXCEPT !.target = @ + level, !.users = @ + 1,
                                 !.req[d] = level]
              IN  <<n, n.target>>
    ELSE LET n == [l EXCEPT !.target = @ + level, !.req[d] = level]
         IN  <<n, n.target>>

(* add_req_tput(): a new device gets a node (unless kmalloc fails, which  *)
(* returns 0 and changes nothing); a known device has its level replaced. *)
(* Returns the new list and the value the function returns.               *)
AddReqTput(l, d, level, allocOk) ==
  IF l.req[d] = None
    THEN IF ~allocOk THEN <<l, 0>>
         ELSE LET n == [l EXCEPT !.target = @ + level, !.users = @ + 1,
                                 !.req[d] = level]
              IN  <<n, n.target>>
    ELSE LET n == [l EXCEPT !.target = @ - l.req[d] + level, !.req[d] = level]
         IN  <<n, n.target>>

\* Variant: the found flag is not checked after the list walk.
RemoveReqTputNoCheck(l, d) ==
  LET n == [l EXCEPT !.target = @ - (IF l.req[d] = None THEN 0 ELSE l.req[d]),
                     !.users = @ - 1, !.req[d] = None]
  IN  <<n, n.target>>

(* remove_req_tput(): an unknown device returns 0 and changes nothing.     *)
RemoveReqTput(l, d) ==
  IF l.req[d] = None THEN <<l, 0>>
  ELSE LET n == [l EXCEPT !.target = @ - l.req[d], !.users = @ - 1,
                          !.req[d] = None]
       IN  <<n, n.target>>

\* Variant: max_level is not reset before the scan.
MaxLookupNoReset(l) ==
  [l EXCEPT !.max = Max({l.max} \cup {l.req[d] : d \in Users(l)})]

(* max_lookup(): max_level is the greatest level on the list, 0 if none.  *)
MaxLookup(l) ==
  [l EXCEPT !.max = IF Users(l) = {} THEN 0 ELSE Max({l.req[d] : d \in Users(l)})]

(* KiB/s to Hz: (target_level * 1000) / 4.                                 *)
TputToHz(t) == (t * 1000) \div 4

Init ==
  /\ bus = EmptyList
  /\ mpu = EmptyList
  /\ l3Rate = 0
  /\ mpuRate = 0
  /\ busRet = "0" /\ mpuRet = "0"

(* omap_pm_set_min_bus_tput(dev, agent_id, r): release on r == -1, else   *)
(* add; the returned level is converted and set on the L3 device.          *)
SetMinBusTput(d, r) ==
  \E allocOk \in Outcomes(KmallocMayFail), ok \in Outcomes(SetRateMayFail) :
    LET res == IF r = None THEN RemoveReqTput(bus, d)
                           ELSE AddReqTput(bus, d, r, allocOk)
    IN  /\ bus' = res[1]
        /\ l3Rate' = IF ok THEN TputToHz(res[2]) ELSE l3Rate
        /\ busRet' = IF ok THEN "0" ELSE "-err"
        /\ UNCHANGED <<mpu, mpuRate, mpuRet>>

(* omap_pm_set_min_mpu_freq(dev, f): save max_level, release or add (the  *)
(* returned level is ignored), max_lookup(), and set the MPU rate only if *)
(* max_level changed.                                                      *)
SetMinMpuFreq(d, f) ==
  \E allocOk \in Outcomes(KmallocMayFail), ok \in Outcomes(SetRateMayFail) :
    LET oldMax == mpu.max
        res == IF f = None THEN RemoveReqTput(mpu, d)
                           ELSE AddReqTput(mpu, d, f, allocOk)
        n   == MaxLookup(res[1])
    IN  /\ mpu' = n
        /\ IF n.max # oldMax
             THEN /\ mpuRate' = IF ok THEN n.max ELSE mpuRate
                  /\ mpuRet' = IF ok THEN "0" ELSE "-err"
             ELSE UNCHANGED <<mpuRate>> /\ mpuRet' = "0"
        /\ UNCHANGED <<bus, l3Rate, busRet>>

Next ==
  \/ \E d \in Devs, r \in BusLevels \cup {None} : SetMinBusTput(d, r)
  \/ \E d \in Devs, f \in MpuLevels \cup {None} : SetMinMpuFreq(d, f)

Spec == Init /\ [][Next]_vars

-----------------------------------------------------------------------------
(* Properties *)

(* The sum of the outstanding requests of a list.                         *)
Outstanding(l) == SumFunctionOnSet(l.req, Users(l))
TopRequest(l) == IF Users(l) = {} THEN 0 ELSE Max({l.req[d] : d \in Users(l)})

(* target_level and no_of_users stay the sum and the number of the        *)
(* outstanding requests through any sequence of adds, replacements,       *)
(* releases and failed allocations in add_req_tput/remove_req_tput.       *)
ListBookkeeping ==
  \A l \in {bus, mpu} :
    /\ l.target = Outstanding(l)
    /\ l.users = Cardinality(Users(l))

(* When omap_pm_set_min_mpu_freq() returns 0, the MPU runs at the greatest *)
(* outstanding minimum-frequency request: the "only if max_level changed" *)
(* shortcut never skips a rescale an earlier call still owes.              *)
MpuRateIsMaxRequest == mpuRet = "0" => mpuRate = TopRequest(mpu)

(* When omap_pm_set_min_bus_tput() returns 0, the L3 rate is the converted *)
(* sum of the outstanding throughput requests of all devices.              *)
L3RateCoversRequests == busRet = "0" => l3Rate = TputToHz(Outstanding(bus))

====
