------------------------------ MODULE SrDevice ------------------------------
(***************************************************************************)
(* SmartReflex device creation, arch/arm/mach-omap2/sr_device.c, on an    *)
(* OMAP3 (not OMAP44xx) with SR_TESTING_NVALUES off.                       *)
(*                                                                         *)
(* omap_devinit_smartreflex() walks the "smartreflex" hwmods in class      *)
(* order and calls sr_dev_init() on each until one returns non-zero.  For  *)
(* each it allocates sr_data, looks up the voltage domain and its voltage  *)
(* table, reads one nValue per voltage from the eFuse (sr_read_efuse), and *)
(* builds the omap_device "smartreflex" with the id held in a static       *)
(* counter i.  The Sniper has eFuse nValues only up to index 10: every     *)
(* higher entry is approximated from the entry before it by               *)
(* cal_opp5_nvalue(), so the approximations chain.                         *)
(*                                                                         *)
(* The code runs once, at boot, in one thread: the model is a sequential   *)
(* state machine, one step per loop iteration, whose inputs (allocation    *)
(* and lookup failures, the last fused nValue) are chosen by \E and Init.  *)
(***************************************************************************)
EXTENDS Naturals, Sequences, FiniteSetsExt, Bitwise

CONSTANTS
  Order,          \* the smartreflex hwmods in omap_hwmod_for_each_by_class order
  Volts,          \* hwmod -> volts_supported of its voltage domain
  EfuseRegs,      \* hwmod -> [0..LastFused -> nValue read by omap_ctrl_readl]
  Seeds,          \* nValues the last fused register (index LastFused) may hold
  AllocMayFail,   \* kzalloc() may fail
  LookupMayFail,  \* omap_voltage_domain_get() may return an error
  BuildMayFail,   \* omap_device_build() may return an error
  GainMaxLimit, RMaxLimit,                       \* plat/smartreflex.h
  SenpGainShift, SennGainShift, RnsenpShift, RnsennShift

Hwmods == {Order[p] : p \in 1..Len(Order)}
LastFused == 10                      \* "if (i > 10)" in sr_read_efuse()
NoDevice == -1
MaxVolts == Max({Volts[h] : h \in Hwmods})
Chained == {h \in Hwmods : Volts[h] > LastFused + 1}

VARIABLES
  pos,      \* position of the current hwmod in the class walk
  srId,     \* the static int i of sr_dev_init()
  pc,       \* "init", "efuse" (in the read loop), "stopped", "done"
  k,        \* loop index of sr_read_efuse()
  nv,       \* hwmod -> index -> volt_data[index].sr_nvalue
  mods,     \* hwmod -> <<senn_mod, senp_mod>>
  dev,      \* hwmod -> id of the built omap_device, or NoDevice
  seed      \* hwmod in Chained -> content of its eFuse register LastFused

vars == <<pos, srId, pc, k, nv, mods, dev, seed>>

Cur == Order[pos]

TypeOK ==
  /\ pos \in 1..Len(Order) + 1 /\ srId \in 0..Len(Order)
  /\ pc \in {"init", "efuse", "stopped", "done"}
  /\ k \in 0..MaxVolts
  /\ nv \in [Hwmods -> [0..MaxVolts - 1 -> 0..2^24 - 1]]
  /\ mods \in [Hwmods -> {<<0, 0>>, <<1, 1>>}]
  /\ dev \in [Hwmods -> {NoDevice} \cup 0..Len(Order) - 1]

-----------------------------------------------------------------------------
(* The nValue arithmetic *)

(* (x & mask) >> shift, for a mask of w bits at shift.                     *)
Field(x, shift, w) == (x \div 2^shift) % 2^w

(* The locals sengain/rnsen of cal_opp5_nvalue() when no gain fits: never  *)
(* reached, since every sensor value passed in is at least 235.           *)
NoFit == [gain |-> 0, rn |-> 0]

\* Variant: mul = 1 << (gn + 7), one bit short.
RECURSIVE RecipLoopShortMul(_, _, _)
RecipLoopShortMul(sensor, gn, acc) ==
  IF gn >= GainMaxLimit THEN acc
  ELSE LET rn == 2^(gn + 7) \div sensor
       IN  RecipLoopShortMul(sensor, gn + 1, IF rn < RMaxLimit THEN [gain |-> gn, rn |-> rn] ELSE acc)

(* cal_reciprocal(): for gn = 0 .. GAIN_MAXLIMIT-1, rn = 2^(gn+8)/sensor; *)
(* the last gn with rn < R_MAXLIMIT wins.                                  *)
RECURSIVE RecipLoop(_, _, _)
RecipLoop(sensor, gn, acc) ==
  IF gn >= GainMaxLimit THEN acc
  ELSE LET rn == 2^(gn + 8) \div sensor
       IN  RecipLoop(sensor, gn + 1, IF rn < RMaxLimit THEN [gain |-> gn, rn |-> rn] ELSE acc)

CalReciprocal(sensor) == RecipLoop(sensor, 0, NoFit)

(* The sensor value an nValue encodes, 2^(gain+8) / reciprocal, for the   *)
(* SenP and SenN halves.                                                   *)
SenP(n) == 2^(Field(n, SenpGainShift, 4) + 8) \div Field(n, RnsenpShift, 8)
SenN(n) == 2^(Field(n, SennGainShift, 4) + 8) \div Field(n, RnsennShift, 8)

(* cal_opp5_nvalue(): decode the previous nValue's sensor values, add 235 *)
(* to SenP and 385 to SenN, and pack the reciprocals of the results.       *)
CalOpp5Nvalue(prev) ==
  LET p == CalReciprocal(SenP(prev) + 235)
      n == CalReciprocal(SenN(prev) + 385)
  IN  (p.gain * 2^SenpGainShift) | (n.gain * 2^SennGainShift)
        | (p.rn * 2^RnsenpShift) | (n.rn * 2^RnsennShift)

(* The eFuse register read for index i of hwmod h.                          *)
Efuse(h, i) == IF i = LastFused /\ h \in Chained THEN seed[h] ELSE EfuseRegs[h][i]

-----------------------------------------------------------------------------
(* The class walk and sr_dev_init() *)

Init ==
  /\ pos = 1 /\ srId = 0 /\ pc = "init" /\ k = 0
  /\ nv = [h \in Hwmods |-> [i \in 0..MaxVolts - 1 |-> 0]]
  /\ mods = [h \in Hwmods |-> <<0, 0>>]
  /\ dev = [h \in Hwmods |-> NoDevice]
  /\ seed \in [Chained -> Seeds]

Outcomes(mayFail) == IF mayFail THEN BOOLEAN ELSE {TRUE}

\* Variant: an error path that skips the i++.
ExitNoCount == UNCHANGED srId /\ pos' = pos + 1 /\ pc' = "init"

(* goto exit: i++ and the walk moves on to the next hwmod.                 *)
Exit == srId' = srId + 1 /\ pos' = pos + 1 /\ pc' = "init"

(* sr_set_nvalues() -> sr_read_efuse() up to its loop.  Its bad-parameter *)
(* returns are not taken: sr_dev_init() has checked the voltage table.     *)
(* OMAP3630 has no efuse_sr_control, so senn_mod = senp_mod = 1.           *)
ReadEfuseStart ==
  /\ mods' = [mods EXCEPT ![Cur] = <<1, 1>>]
  /\ k' = 0 /\ pc' = "efuse"

(* sr_dev_init() up to sr_read_efuse(): a failed kzalloc returns -ENOMEM, *)
(* which ends the class walk; a failed domain lookup or an empty voltage  *)
(* table goes to exit.  Otherwise the eFuse read starts.                   *)
DevInit ==
  /\ pc = "init" /\ pos <= Len(Order)
  /\ \E allocOk \in Outcomes(AllocMayFail), lookupOk \in Outcomes(LookupMayFail) :
       IF ~allocOk THEN pc' = "stopped" /\ UNCHANGED <<pos, srId, k, mods>>
       ELSE IF ~lookupOk \/ Volts[Cur] = 0 THEN Exit /\ UNCHANGED <<k, mods>>
       ELSE ReadEfuseStart /\ UNCHANGED <<pos, srId>>
  /\ UNCHANGED <<nv, dev, seed>>

\* Variant: the loop runs while i <= volts_supported.
ReadEfuseOffByOne ==
  /\ pc = "efuse" /\ k <= Volts[Cur]
  /\ nv' = [nv EXCEPT ![Cur][k] = IF k > LastFused THEN CalOpp5Nvalue(nv[Cur][k - 1])
                                                    ELSE Efuse(Cur, k)]
  /\ k' = k + 1
  /\ UNCHANGED <<pos, srId, pc, mods, dev, seed>>

(* One iteration of the loop of sr_read_efuse(): up to index 10 the       *)
(* nValue is read from the eFuse, above it approximated from the entry    *)
(* before.                                                                 *)
ReadEfuse ==
  /\ pc = "efuse" /\ k < Volts[Cur]
  /\ nv' = [nv EXCEPT ![Cur][k] = IF k > LastFused THEN CalOpp5Nvalue(nv[Cur][k - 1])
                                                    ELSE Efuse(Cur, k)]
  /\ k' = k + 1
  /\ UNCHANGED <<pos, srId, pc, mods, dev, seed>>

(* The loop ends; omap_device_build() with id i, then exit.                *)
Build ==
  /\ pc = "efuse" /\ k = Volts[Cur]
  /\ \E ok \in Outcomes(BuildMayFail) :
       dev' = IF ok THEN [dev EXCEPT ![Cur] = srId] ELSE dev
  /\ Exit
  /\ UNCHANGED <<k, nv, mods, seed>>

(* omap_hwmod_for_each_by_class() has visited every hwmod.                 *)
WalkDone ==
  /\ pc = "init" /\ pos > Len(Order)
  /\ pc' = "done"
  /\ UNCHANGED <<pos, srId, k, nv, mods, dev, seed>>

(* Boot goes on without this code.                                         *)
Finished == pc \in {"stopped", "done"} /\ UNCHANGED vars

Next == DevInit \/ ReadEfuse \/ Build \/ WalkDone \/ Finished

Spec == Init /\ [][Next]_vars

-----------------------------------------------------------------------------
(* Properties *)

(* The smartreflex driver takes the device id as the index of the voltage *)
(* domain it controls: a built device's id is its hwmod's position in the *)
(* class walk, whatever failed for the hwmods before it.                   *)
SrIdMatchesVdd ==
  \A p \in 1..Len(Order) : dev[Order[p]] # NoDevice => dev[Order[p]] = p - 1

(* Every approximated nValue encodes sensor values within 1/64 above the   *)
(* previous entry's plus 235 (SenP) and 385 (SenN): cal_reciprocal() keeps *)
(* the largest gain whose reciprocal fits in 8 bits, so the reciprocal    *)
(* keeps 7 significant bits, and the truncation never lets the chain of   *)
(* approximations drift by more than that per OPP.                         *)
ApproxTracksStep ==
  \A h \in Chained : \A i \in LastFused + 1..Volts[h] - 1 :
    nv[h][i] # 0 =>
      LET sp == SenP(nv[h][i - 1]) + 235
          sn == SenN(nv[h][i - 1]) + 385
      IN  /\ sp <= SenP(nv[h][i]) /\ SenP(nv[h][i]) <= sp + sp \div 64
          /\ sn <= SenN(nv[h][i]) /\ SenN(nv[h][i]) <= sn + sn \div 64

====
