------------------------------ MODULE MCSrDevice ------------------------------
EXTENDS SrDevice

\* The two OMAP3 smartreflex hwmods: SR1 on VDD1 (MPU/IVA), SR2 on VDD2 (CORE).
MCOrder == <<"sr1_hwmod", "sr2_hwmod">>

\* VDD1 has one voltage per MPU OPP of the CONFIG_CPU_OVERCLOCK table of
\* cpufreq34xx.c (18); VDD2 has OPP50 and OPP100.
MCVolts == [h \in {"sr1_hwmod", "sr2_hwmod"} |-> IF h = "sr1_hwmod" THEN 18 ELSE 2]

\* nValue = SenPgain<<20 | SenNgain<<16 | RnSenP<<8 | RnSenN, as fused.
NV(pg, ng, rp, rn) == pg * 2^20 + ng * 2^16 + rp * 2^8 + rn

MCEfuseRegs == [h \in {"sr1_hwmod", "sr2_hwmod"} |->
                 [i \in 0..10 |-> NV(9, 9, 255 - 8 * i, 250 - 8 * i)]]

\* Normalised fused nValues: gains 9..11, reciprocals with the top bit set.
MCSeeds == {NV(pg, ng, rp, rn) : pg \in 9..11, ng \in 9..11,
                                 rp \in {128, 171, 213, 255}, rn \in {128, 192, 255}}
====
