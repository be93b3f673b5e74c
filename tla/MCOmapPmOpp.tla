---------------------------- MODULE MCOmapPmOpp -----------------------------
EXTENDS OmapPmOpp

\* The OPP tables of mach-omap2/cpufreq34xx.c, rates in MHz.

\* The first five OPPs of omap36xx_opp_def_list (the ten of the build
\* without CONFIG_CPU_OVERCLOCK are beyond TLC here): three OPPs sharing
\* the DSP rate 260 MHz and two above it.
MC36xxMpuTable == <<120, 220, 300, 400, 500>>
MC36xxDspTable == <<260, 260, 260, 300, 400>>
\* The opp_id values of the OPPs, and 0, which the driver rejects.
MC36xxOppIds == 0..5

\* omap34xx_opp_def_list: five VDD1 OPPs with distinct DSP rates.
MC34xxMpuTable == <<125, 250, 500, 550, 600>>
MC34xxDspTable == <<90, 180, 360, 400, 430>>
====
