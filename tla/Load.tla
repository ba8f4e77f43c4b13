-------------------------------- MODULE Load --------------------------------
(***************************************************************************)
(* The cpu check: cpu.c, on the counters of readperf.c.  The load is taken *)
(* from two samples of the processor's idle time, which get_load keeps     *)
(* from one call to the next; a sample may fail, or come back without the  *)
(* _Total instance, and the clock may be set between two of them.          *)
(*                                                                         *)
(* Idle time is counted in hundredths of a second, in which the first      *)
(* division of get_load is exact.  A counter and the clock are read at one *)
(* and the same second.                                                    *)
(***************************************************************************)
EXTENDS Integers

CONSTANTS
  bootyellow, bootred, cpuyellow, cpured,  \* the limits of mrbig.cfg
  PerMinute,  \* seconds in a minute
  Busy,       \* how busy the processor may be in a second, in percent
  Idle0,      \* idle time when the agent starts
  MaxUptime   \* bound on the seconds the machine has been up

ASSUME LoadAssumption ==
  /\ {bootyellow, bootred, cpuyellow, cpured} \subseteq Nat
  /\ PerMinute \in Nat \ {0}
  /\ Busy \subseteq 0 .. 100
  /\ Idle0 \in Nat \ {0}
  /\ MaxUptime \in Nat

VARIABLES
  up,        \* seconds the machine has been up
  clock,     \* time(NULL)
  idle,      \* the idle counter of _Total
  time0,     \* when get_load took its last sample
  proc0,     \* the idle time it had then
  load,      \* the load of the last report
  cpu_color, \* its colour; "none" before the first
  since,     \* history: seconds since that sample
  idled,     \* history: idle time since that sample
  sound,     \* history: that sample was good and nobody set the clock since
  expected   \* history: what the last report should be

ld_vars == <<up, clock, idle, time0, proc0, load, cpu_color, since, idled, sound, expected>>

LdInit ==
  /\ up = 0
  /\ clock = 1
  /\ idle = Idle0
  /\ time0 = 0
  /\ proc0 = 0
  /\ load = 0
  /\ cpu_color = "none"
  /\ since = 0
  /\ idled = 0
  /\ sound = FALSE
  /\ expected = "none"

-----------------------------------------------------------------------------
(* A second goes by.                                                       *)
Second ==
  /\ up < MaxUptime
  /\ up' = up + 1
  /\ clock' = clock + 1
  /\ \E busy \in Busy :
       /\ idle' = idle + 100 - busy
       /\ idled' = idled + 100 - busy
  /\ since' = since + 1
  /\ UNCHANGED <<time0, proc0, load, cpu_color, sound, expected>>

SetClock ==
  /\ clock' \in 1 .. MaxUptime + 1
  /\ clock' # clock
  /\ sound' = FALSE
  /\ UNCHANGED <<up, idle, time0, proc0, load, cpu_color, since, idled, expected>>

-----------------------------------------------------------------------------
(* What read_perfcounters makes of the processor object: the counter, no   *)
(* instance called _Total, which counts as 0, or nothing at all.           *)
Samples == {"total", "nototal", "none"}

(* C divides towards zero.                                                 *)
Div(a, n) == IF a < 0 THEN -((-a) \div n) ELSE a \div n

LoadOf(proc1) ==
  LET percent == 100 - Div(proc1 - proc0, clock - time0)
  IN IF proc0 # 0 /\ clock > time0 /\ percent > 0 THEN percent ELSE 0

(* Mutant: the time is taken before the counters are seen to fail.         *)
get_load_early(sample) ==
  LET proc1 == IF sample = "total" THEN idle ELSE 0
  IN /\ time0' = clock
     /\ IF sample = "none"
        THEN load' = 0 /\ UNCHANGED proc0
        ELSE load' = LoadOf(proc1) /\ proc0' = proc1

(* get_load: without counters it leaves the last sample as it is.          *)
get_load(sample) ==
  LET proc1 == IF sample = "total" THEN idle ELSE 0
  IN IF sample = "none"
     THEN load' = 0 /\ UNCHANGED <<time0, proc0>>
     ELSE load' = LoadOf(proc1) /\ time0' = clock /\ proc0' = proc1

(* A recent boot decides first; the load may only make things worse.       *)
Color(um, percent) ==
  LET boot == IF um < bootred THEN "red" ELSE IF um < bootyellow THEN "yellow" ELSE "green"
  IN IF percent >= cpured THEN "red"
     ELSE IF percent >= cpuyellow /\ boot = "green" THEN "yellow" ELSE boot

(* get_uptime returns 0 when its counters cannot be read.                  *)
Minutes(readable) == IF readable THEN up \div PerMinute ELSE 0

(* What the machine did between two good samples, in percent, rounded up;  *)
(* 0 where there were not two of them.                                     *)
Average ==
  IF sound /\ since > 0
  THEN CHOOSE p \in 0 .. 100 : /\ p * since >= 100 * since - idled
                               /\ (p - 1) * since < 100 * since - idled
  ELSE 0

Cpu ==
  /\ \E sample \in Samples, readable \in BOOLEAN :
       /\ get_load(sample)
       /\ cpu_color' = Color(Minutes(readable), load')
       /\ expected' = IF readable /\ sample = "total" /\ (sound \/ proc0 = 0)
                      THEN Color(up \div PerMinute, Average) ELSE "unknown"
       /\ sound' = IF sample = "none" THEN sound ELSE sample = "total"
       /\ since' = IF sample = "none" THEN since ELSE 0
       /\ idled' = IF sample = "none" THEN idled ELSE 0
  /\ UNCHANGED <<up, clock, idle>>

(* option no_cpu, or no version information: no sample is taken.           *)
CpuWithoutLoad ==
  /\ cpu_color' \in {"clear", "red"}
  /\ load' = 0
  /\ expected' = "unknown"
  /\ UNCHANGED <<up, clock, idle, time0, proc0, since, idled, sound>>

(* The agent starts anew, and so does its first sample.                    *)
AgentRestarts ==
  /\ time0' = 0
  /\ proc0' = 0
  /\ load' = 0
  /\ cpu_color' = "none"
  /\ since' = 0
  /\ idled' = 0
  /\ sound' = FALSE
  /\ expected' = "none"
  /\ UNCHANGED <<up, clock, idle>>

LdNext == Second \/ SetClock \/ Cpu \/ CpuWithoutLoad \/ AgentRestarts

LdSpec == LdInit /\ [][LdNext]_ld_vars

-----------------------------------------------------------------------------
(* Where uptime and counters could be read, the colour is that of a recent *)
(* boot or of what the processor did on average since the last good        *)
(* sample, over calls that failed or took none in between, and a first     *)
(* sample never shows as load.  Excepted are clocks set between two        *)
(* samples and samples without _Total, which do show as load.              *)
LoadIsAverage == expected # "unknown" => cpu_color = expected
=============================================================================
