--------------------------- MODULE Checks_proofs ---------------------------
(***************************************************************************)
(* Proofs about the checks of a pass: that the cpu check reports what the  *)
(* processor did, for every machine, limit and history of samples; that    *)
(* the event log check leaves out a stretch of the log only when asked to, *)
(* and is as bad as its worst event; that every complete file in the       *)
(* pickup directory is reported once, whoever writes there; that the       *)
(* process and service checks give every machine one report, with the      *)
(* worst of its lines; and that a WMI page shows its own bullets only.     *)
(***************************************************************************)
EXTENDS EventLog, Load, Pickup, Inventory, Wmi, FiniteSetTheorems,
        WellFoundedInduction, TLAPS

(* What Div and the average mean in terms of products.                     *)
LEMMA Quotient ==
  ASSUME NEW a \in Nat, NEW n \in Nat \ {0}
  PROVE  LET q == a \div n IN q \in Nat /\ q * n <= a /\ a < (q + 1) * n
BY SMT

LEMMA SmallerFactor ==
  ASSUME NEW a \in Int, NEW c \in Int, NEW n \in Nat \ {0}, a * n < c * n
  PROVE  a < c
BY SMT

(* What the machine did, written with the quotient of get_load.            *)
LEMMA AverageIsQuotient ==
  ASSUME NEW n \in Nat \ {0}, NEW a \in 0 .. 100 * n
  PROVE  LET p == 100 - a \div n
         IN /\ p \in 0 .. 100
            /\ p * n >= 100 * n - a
            /\ (p - 1) * n < 100 * n - a
            /\ \A r \in 0 .. 100 :
                 r * n >= 100 * n - a /\ (r - 1) * n < 100 * n - a => r = p
<1> DEFINE q == a \div n
           p == 100 - q
<1>1. q \in Nat /\ q * n <= a /\ a < (q + 1) * n
  BY Quotient
<1>2. q <= 100
  <2>1. q * n < 101 * n
    BY <1>1
  <2>2. QED BY <1>1, <2>1, SmallerFactor
<1> HIDE DEF q
<1>3. p * n = 100 * n - q * n /\ (p - 1) * n = 100 * n - (q + 1) * n
  BY <1>1
<1>4. ASSUME NEW r \in 0 .. 100, r * n >= 100 * n - a, (r - 1) * n < 100 * n - a
      PROVE  r = p
  <2>1. (r - 1) * n < p * n /\ (p - 1) * n < r * n
    BY <1>1, <1>3, <1>4
  <2>2. r - 1 < p /\ p - 1 < r
    BY <1>1, <2>1, SmallerFactor
  <2>3. QED BY <1>1, <2>2
<1>5. QED BY <1>1, <1>2, <1>3, <1>4 DEF q

-----------------------------------------------------------------------------
(* A sound sample is since seconds and idled idle time old; the processor  *)
(* was idle for no longer than that.                                       *)
LoadInv ==
  /\ clock \in Int
  /\ idle \in Nat \ {0}
  /\ since \in Nat
  /\ idled \in 0 .. 100 * since
  /\ time0 \in Int /\ proc0 \in Nat
  /\ sound => proc0 = idle - idled /\ proc0 # 0 /\ time0 = clock - since

(* With a sound sample behind it, or none, get_load computes the average.  *)
LEMMA LoadOfIsAverage ==
  ASSUME LoadInv, sound \/ proc0 = 0
  PROVE  LoadOf(idle) = Average
<1> USE DEF LoadInv, LoadOf, Average
<1>1. CASE ~sound
  BY <1>1
<1>2. CASE sound /\ since = 0
  BY <1>2
<1>3. CASE sound /\ since > 0
  <2>1. Div(idle - proc0, clock - time0) = idled \div since
    BY <1>3 DEF Div
  <2>2. PICK p \in 0 .. 100 : p = 100 - idled \div since
    BY <1>3, AverageIsQuotient
  <2>3. LoadOf(idle) = p
    BY <1>3, <2>1, <2>2
  <2>4. Average = p
    BY <1>3, <2>2, AverageIsQuotient
  <2>5. QED BY <2>3, <2>4
<1>4. QED BY <1>1, <1>2, <1>3

LEMMA LoadStep ==
  ASSUME LoadInv, LoadIsAverage, [LdNext]_ld_vars
  PROVE  LoadInv' /\ LoadIsAverage'
<1> USE LoadAssumption DEF LoadInv, LoadIsAverage
<1>1. CASE Second
  <2>1. PICK busy \in Busy : idle' = idle + 100 - busy /\ idled' = idled + 100 - busy
    BY <1>1 DEF Second
  <2>2. busy \in 0 .. 100
    BY <2>1
  <2>3. 100 * since' = 100 * since + 100
    BY <1>1 DEF Second
  <2>4. QED BY <1>1, <2>1, <2>2, <2>3 DEF Second
<1>2. CASE SetClock
  <2>1. clock' \in Int /\ ~sound' /\ UNCHANGED <<idle, time0, proc0, since, idled, expected, cpu_color>>
    BY <1>2 DEF SetClock
  <2>2. QED BY <2>1
<1>3. CASE Cpu
  <2>1. PICK sample \in Samples, up_read \in BOOLEAN :
          /\ get_load(sample)
          /\ cpu_color' = Color(Minutes(up_read), load')
          /\ expected' = IF up_read /\ sample = "total" /\ (sound \/ proc0 = 0)
                         THEN Color(up \div PerMinute, Average) ELSE "unknown"
          /\ sound' = IF sample = "none" THEN sound ELSE sample = "total"
          /\ since' = IF sample = "none" THEN since ELSE 0
          /\ idled' = IF sample = "none" THEN idled ELSE 0
    BY <1>3 DEF Cpu
  <2>2. UNCHANGED <<up, clock, idle>>
    BY <1>3 DEF Cpu
  <2>3. LoadInv'
    <3>1. CASE sample = "none"
      <4>1. UNCHANGED <<clock, idle, time0, proc0, since, idled, sound>>
        BY <2>1, <2>2, <3>1 DEF get_load
      <4>2. QED BY <4>1
    <3>2. CASE sample = "nototal"
      <4>1. since' = 0 /\ idled' = 0 /\ time0' = clock /\ proc0' = 0 /\ ~sound'
        BY <2>1, <3>2 DEF get_load
      <4>2. QED BY <2>2, <4>1
    <3>3. CASE sample = "total"
      <4>1. since' = 0 /\ idled' = 0 /\ time0' = clock /\ proc0' = idle
        BY <2>1, <3>3 DEF get_load
      <4>2. QED BY <2>2, <4>1
    <3>4. QED BY <3>1, <3>2, <3>3 DEF Samples
  <2>4. LoadIsAverage'
    <3>1. CASE up_read /\ sample = "total" /\ (sound \/ proc0 = 0)
      <4>1. load' = Average
        BY <2>1, <3>1, LoadOfIsAverage DEF get_load
      <4>2. QED BY <2>1, <3>1, <4>1 DEF Minutes
    <3>2. CASE ~(up_read /\ sample = "total" /\ (sound \/ proc0 = 0))
      BY <2>1, <3>2
    <3>3. QED BY <3>1, <3>2
  <2>5. QED BY <2>3, <2>4
<1>4. CASE CpuWithoutLoad
  BY <1>4 DEF CpuWithoutLoad
<1>5. CASE AgentRestarts
  BY <1>5 DEF AgentRestarts
<1>6. CASE UNCHANGED ld_vars
  BY <1>6 DEF ld_vars
<1>7. QED BY <1>1, <1>2, <1>3, <1>4, <1>5, <1>6 DEF LdNext

(* Where uptime and counters could be read, the colour reported is that of *)
(* a recent boot or of the average load since the last good sample.        *)
THEOREM LoadReported == LdSpec => []LoadIsAverage
<1>1. LdInit => LoadInv /\ LoadIsAverage
  BY LoadAssumption DEF LdInit, LoadInv, LoadIsAverage
<1>2. QED BY <1>1, LoadStep, PTL DEF LdSpec

-----------------------------------------------------------------------------
(* The marker stands when a pass was asked to be fast, and while one that  *)
(* looks for it reads the logs.                                            *)
Reading == ev_pc = "logs" /\ fastmsgs = "auto"

MarkerInv ==
  /\ marker \in BOOLEAN /\ fastfile \in BOOLEAN /\ asked \in BOOLEAN
  /\ Reading => marker /\ fastfile = asked
  /\ ~Reading => marker = asked
  /\ ev_pc = "marker" => fastmsgs = "auto"
  /\ ev_pc = "logs" /\ fastmsgs # "auto" => ~fastfile

LEMMA MarkerStep == ASSUME MarkerInv, [EvNext]_ev_vars PROVE MarkerInv'
<1> USE DEF MarkerInv, Reading, EvUnchanged, ev_pass
<1>1. CASE EvDisabled
  BY <1>1 DEF EvDisabled
<1>2. CASE EvBegin
  BY <1>2 DEF EvBegin
<1>3. CASE EvMarker
  BY <1>3 DEF EvMarker
<1>4. CASE EvReadLog
  BY <1>4 DEF EvReadLog
<1>5. CASE EvSkipLog \/ EvNoLogs
  BY <1>5 DEF EvSkipLog, EvNoLogs
<1>6. CASE EvEndMarker
  BY <1>6 DEF EvEndMarker
<1>7. CASE EvReport
  BY <1>7 DEF EvReport
<1>8. CASE EvDie
  BY <1>8 DEF EvDie
<1>9. CASE EvRestart
  BY <1>9 DEF EvRestart
<1>10. CASE EvAdmin
  BY <1>10 DEF EvAdmin
<1>11. CASE UNCHANGED ev_vars
  BY <1>11 DEF ev_vars
<1>12. QED
  BY <1>1, <1>2, <1>3, <1>4, <1>5, <1>6, <1>7, <1>8, <1>9, <1>10, <1>11 DEF EvNext

(* Under fastmsgs=auto a pass is fast exactly when an earlier one died at  *)
(* the logs, or the administrator asked for it.                            *)
THEOREM FastOnlyWhenAsked == EvSpec => []FastWhenAsked
<1>1. EvInit => MarkerInv
  BY DEF EvInit, MarkerInv, Reading
<1>2. MarkerInv => FastWhenAsked
  BY DEF MarkerInv, FastWhenAsked, Reading
<1>3. QED BY <1>1, <1>2, MarkerStep, PTL DEF EvSpec

-----------------------------------------------------------------------------
(* The worst event.  match_rules, with the rules it works by named.        *)
Judge(list, e, l) ==
  LET hits == {k \in 1 .. Len(list) : Matches(list[k], e, l)}
  IN IF hits = {} THEN "ignore"
     ELSE list[CHOOSE k \in hits : \A j \in hits : k <= j].action

LEMMA JudgeIsMatch ==
  ASSUME NEW e, NEW l PROVE match_rules(e, l) = Judge(rules, e, l)
BY DEF match_rules, Judge

(* An event that is due is on the report unless that is full, and the      *)
(* colour is as bad as the event.                                          *)
ShownOn(d, list, shown, rest, c) ==
  LET a == Judge(list, d[2], d[1])
  IN /\ a # "ignore" => d \in shown \/ rest = 0
     /\ a = "red" => c = "red"
     /\ a = "yellow" => c # "green"

WorstInv ==
  /\ left \in Nat
  /\ readable => \A d \in due : ShownOn(d, rules, lines, left, mcolor)

(* A claim about numbers that fails, fails first somewhere.                *)
LEMMA FirstOf ==
  ASSUME NEW S \in SUBSET Nat, S # {}
  PROVE  \E n \in S : \A m \in S : n <= m
<1>1. PICK n \in S : \A m \in S : ~(<<m, n>> \in OpToRel(<, Nat))
  BY NatLessThanWellFounded, WFMin
<1>2. ASSUME NEW m \in S PROVE n <= m
  <2>1. ~(m < n)
    BY <1>1 DEF OpToRel
  <2>2. QED BY <2>1
<1>3. QED BY <1>2

(* A function that is defined from step to step is there.                  *)
Steps(n, c, G, f) == f[0] = c /\ \A k \in 1 .. n : f[k] = G[k][f[k - 1]]

LEMMA StepsExist ==
  ASSUME NEW N \in Nat, NEW S, NEW c \in S, NEW G \in [1 .. N -> [S -> S]]
  PROVE  \E f \in [0 .. N -> S] : Steps(N, c, G, f)
<1> DEFINE Without == {n \in 0 .. N : ~\E f \in [0 .. n -> S] : Steps(n, c, G, f)}
<1>1. SUFFICES ASSUME Without # {} PROVE FALSE
  OBVIOUS
<1>2. PICK n \in Without : \A m \in Without : n <= m
  <2>1. Without \in SUBSET Nat
    BY SMT
  <2> HIDE DEF Without
  <2>2. QED BY <1>1, <2>1, FirstOf
<1>3. CASE n = 0
  <2>1. [k \in 0 .. 0 |-> c] \in [0 .. 0 -> S] /\ Steps(0, c, G, [k \in 0 .. 0 |-> c])
    BY DEF Steps
  <2>2. QED BY <1>2, <1>3, <2>1
<1>4. CASE n # 0
  <2>1. n \in 1 .. N /\ n - 1 \in 0 .. N /\ n - 1 \notin Without
    BY <1>2, <1>4
  <2>2. PICK f \in [0 .. n - 1 -> S] : Steps(n - 1, c, G, f)
    BY <2>1
  <2> DEFINE h == [k \in 0 .. n |-> IF k = n THEN G[n][f[n - 1]] ELSE f[k]]
  <2>3. h \in [0 .. n -> S]
    BY <2>1
  <2>4. h[0] = c
    BY <1>4, <2>1, <2>2 DEF Steps
  <2>5. ASSUME NEW k \in 1 .. n PROVE h[k] = G[k][h[k - 1]]
    <3>1. h[k - 1] = f[k - 1]
      BY <2>1
    <3>2. CASE k = n
      BY <2>1, <3>1, <3>2
    <3>3. CASE k # n
      <4>1. k \in 1 .. n - 1 /\ h[k] = f[k]
        BY <2>1, <3>3
      <4>2. f[k] = G[k][f[k - 1]]
        BY <2>2, <4>1 DEF Steps
      <4>3. QED BY <3>1, <4>1, <4>2
    <3>4. QED BY <3>2, <3>3
  <2> HIDE DEF h
  <2>6. Steps(n, c, G, h)
    BY <2>4, <2>5 DEF Steps
  <2>7. QED BY <1>2, <2>3, <2>6
<1>5. QED BY <1>3, <1>4

(* The colours on the way through a list of judgements g, from c on.       *)
Colors(N, g, c, f) ==
  f = [k \in 0 .. N |->
         IF k = 0 THEN c
         ELSE IF g[k] = "ignore" THEN f[k - 1] ELSE Worse(f[k - 1], g[k])]

LEMMA ColorsExist ==
  ASSUME NEW N \in Nat, NEW g, NEW c PROVE \E f : Colors(N, g, c, f)
<1> DEFINE S == {c} \union {g[k] : k \in 1 .. N}
           G == [k \in 1 .. N |->
                   [x \in S |-> IF g[k] = "ignore" THEN x ELSE Worse(x, g[k])]]
<1>1. G \in [1 .. N -> [S -> S]]
  BY DEF Worse
<1>2. PICK f \in [0 .. N -> S] : Steps(N, c, G, f)
  <2> HIDE DEF G
  <2>1. c \in S
    OBVIOUS
  <2> HIDE DEF S
  <2>2. QED BY <1>1, <2>1, StepsExist
<1>3. ASSUME NEW k \in 0 .. N
      PROVE  f[k] = IF k = 0 THEN c
                    ELSE IF g[k] = "ignore" THEN f[k - 1] ELSE Worse(f[k - 1], g[k])
  <2>1. k # 0 => k \in 1 .. N /\ f[k - 1] \in S
    BY <1>2
  <2>2. k \in 1 .. N => f[k] = G[k][f[k - 1]]
    BY <1>2 DEF Steps
  <2>3. k = 0 => f[k] = c
    BY <1>2 DEF Steps
  <2> HIDE DEF S
  <2>4. QED BY <2>1, <2>2, <2>3
<1>4. f = [k \in 0 .. N |->
             IF k = 0 THEN c
             ELSE IF g[k] = "ignore" THEN f[k - 1] ELSE Worse(f[k - 1], g[k])]
  BY <1>2, <1>3, Zenon
<1>5. QED BY <1>4, Zenon DEF Colors

(* Red stays, and what is not green does not become green.                 *)
LEMMA WorseAndWorse ==
  ASSUME NEW N \in Nat, NEW g, NEW c, NEW f, Colors(N, g, c, f)
  PROVE  /\ c = "red" => f[N] = "red"
         /\ c # "green" => f[N] # "green"
         /\ \A j \in 1 .. N : /\ g[j] = "red" => f[N] = "red"
                              /\ g[j] = "yellow" => f[N] # "green"
<1> DEFINE Good(n) == /\ c = "red" => f[n] = "red"
                      /\ c # "green" => f[n] # "green"
                      /\ \A j \in 1 .. n : /\ g[j] = "red" => f[n] = "red"
                                           /\ g[j] = "yellow" => f[n] # "green"
           Bad == {n \in 0 .. N : ~Good(n)}
<1>1. SUFFICES ASSUME Bad # {} PROVE FALSE
  OBVIOUS
<1>2. PICK n \in Bad : \A m \in Bad : n <= m
  <2>1. Bad \in SUBSET Nat
    BY SMT
  <2> HIDE DEF Bad
  <2>2. QED BY <1>1, <2>1, FirstOf
<1>3. f[n] = IF n = 0 THEN c
             ELSE IF g[n] = "ignore" THEN f[n - 1] ELSE Worse(f[n - 1], g[n])
  BY <1>2 DEF Colors
<1>4. n # 0
  BY <1>2, <1>3
<1>5. Good(n - 1)
  BY <1>2, <1>4
<1>6. Good(n)
  BY <1>2, <1>3, <1>4, <1>5 DEF Worse
<1>7. QED BY <1>2, <1>6

(* The colour after a log is as bad as it was, and as its worst event.     *)
LEMMA ColorAfterLog ==
  ASSUME NEW events, Len(events) \in Nat, NEW l
  PROVE  LET c == ColorAfter(events, l)
         IN  /\ mcolor = "red" => c = "red"
             /\ mcolor # "green" => c # "green"
             /\ \A j \in 1 .. Len(events) :
                  /\ Judge(rules, events[j], l) = "red" => c = "red"
                  /\ Judge(rules, events[j], l) = "yellow" => c # "green"
<1> DEFINE N == Len(events)
           mine(k) == match_rules(events[N + 1 - k], l)
           g == [k \in 1 .. N |-> mine(k)]
           upto == CHOOSE f : f = [k \in 0 .. N |->
                     IF k = 0 THEN mcolor
                     ELSE IF mine(k) = "ignore" THEN f[k - 1] ELSE Worse(f[k - 1], mine(k))]
<1>1. ColorAfter(events, l) = upto[N]
  BY Zenon DEF ColorAfter
<1>2. PICK f : Colors(N, g, mcolor, f)
  <2> HIDE DEF g
  <2>1. QED BY ColorsExist
<1>3. f = [k \in 0 .. N |->
             IF k = 0 THEN mcolor
             ELSE IF mine(k) = "ignore" THEN f[k - 1] ELSE Worse(f[k - 1], mine(k))]
  <2> HIDE DEF mine
  <2>1. f = [k \in 0 .. N |->
               IF k = 0 THEN mcolor
               ELSE IF g[k] = "ignore" THEN f[k - 1] ELSE Worse(f[k - 1], g[k])]
    BY <1>2, Zenon DEF Colors
  <2>2. \A k \in 0 .. N : k # 0 => g[k] = mine(k)
    OBVIOUS
  <2> HIDE DEF g
  <2>3. QED BY <2>1, <2>2
<1>4. upto = [k \in 0 .. N |->
                IF k = 0 THEN mcolor
                ELSE IF mine(k) = "ignore" THEN upto[k - 1] ELSE Worse(upto[k - 1], mine(k))]
  BY <1>3, Zenon
<1> HIDE DEF upto
<1>5. Colors(N, g, mcolor, upto)
  <2> HIDE DEF mine
  <2>1. \A k \in 0 .. N : k # 0 => g[k] = mine(k)
    OBVIOUS
  <2> HIDE DEF g
  <2>2. upto = [k \in 0 .. N |->
                  IF k = 0 THEN mcolor
                  ELSE IF g[k] = "ignore" THEN upto[k - 1] ELSE Worse(upto[k - 1], g[k])]
    BY <1>4, <2>1
  <2>3. QED BY <2>2, Zenon DEF Colors
<1>6. /\ mcolor = "red" => upto[N] = "red"
      /\ mcolor # "green" => upto[N] # "green"
      /\ \A j \in 1 .. N : /\ g[j] = "red" => upto[N] = "red"
                           /\ g[j] = "yellow" => upto[N] # "green"
  <2> HIDE DEF g
  <2>1. QED BY <1>5, WorseAndWorse
<1>7. ASSUME NEW j \in 1 .. N
      PROVE  N + 1 - j \in 1 .. N /\ g[N + 1 - j] = Judge(rules, events[j], l)
  <2>1. N + 1 - j \in 1 .. N /\ N + 1 - (N + 1 - j) = j
    OBVIOUS
  <2>2. QED BY <2>1, JudgeIsMatch
<1> HIDE DEF g
<1>8. QED BY <1>1, <1>6, <1>7

(* The pages on the way through a list of lines d, those with judgement    *)
(* "ignore" left out, from p on.                                           *)
Pages(N, g, d, p, f) ==
  f = [k \in 0 .. N |->
         IF k = 0 THEN p
         ELSE IF g[k] = "ignore" THEN f[k - 1] ELSE Written(f[k - 1], d[k])]

PageSet(D) == [lines : SUBSET D, left : Nat]

LEMMA WrittenPage ==
  ASSUME NEW D, NEW x \in PageSet(D), NEW e \in D, e[2].size \in Nat \ {0}
  PROVE  /\ Written(x, e) \in PageSet(D)
         /\ x.lines \subseteq Written(x, e).lines
         /\ x.left = 0 => Written(x, e).left = 0
         /\ e \in Written(x, e).lines \/ Written(x, e).left = 0
BY DEF Written, PageSet

LEMMA PagesExist ==
  ASSUME NEW N \in Nat, NEW g, NEW D, NEW d \in [1 .. N -> D], NEW p \in PageSet(D),
         \A k \in 1 .. N : d[k][2].size \in Nat \ {0}
  PROVE  \E f \in [0 .. N -> PageSet(D)] : Pages(N, g, d, p, f)
<1> DEFINE S == PageSet(D)
           G == [k \in 1 .. N |->
                   [x \in S |-> IF g[k] = "ignore" THEN x ELSE Written(x, d[k])]]
<1>1. G \in [1 .. N -> [S -> S]]
  <2>1. ASSUME NEW k \in 1 .. N, NEW x \in S
        PROVE  (IF g[k] = "ignore" THEN x ELSE Written(x, d[k])) \in S
    BY WrittenPage
  <2> HIDE DEF S
  <2>2. QED BY <2>1
<1>2. PICK f \in [0 .. N -> S] : Steps(N, p, G, f)
  <2> HIDE DEF G, S
  <2>1. p \in S
    BY DEF S
  <2>2. QED BY <1>1, <2>1, StepsExist
<1>3. ASSUME NEW k \in 0 .. N
      PROVE  f[k] = IF k = 0 THEN p
                    ELSE IF g[k] = "ignore" THEN f[k - 1] ELSE Written(f[k - 1], d[k])
  <2>1. k # 0 => k \in 1 .. N /\ f[k - 1] \in S
    BY <1>2
  <2>2. k \in 1 .. N => f[k] = G[k][f[k - 1]]
    BY <1>2 DEF Steps
  <2>3. k = 0 => f[k] = p
    BY <1>2 DEF Steps
  <2> HIDE DEF S
  <2>4. QED BY <2>1, <2>2, <2>3
<1>4. f = [k \in 0 .. N |->
             IF k = 0 THEN p
             ELSE IF g[k] = "ignore" THEN f[k - 1] ELSE Written(f[k - 1], d[k])]
  BY <1>2, <1>3, Zenon
<1>5. QED BY <1>2, <1>4, Zenon DEF Pages

(* What is on the page stays there, a full page stays full, and a line     *)
(* that is not on it found it full.                                        *)
PageWell(g, d, p, x, n, D) ==
  /\ x \in PageSet(D)
  /\ p.lines \subseteq x.lines
  /\ p.left = 0 => x.left = 0
  /\ \A j \in 1 .. n : g[j] # "ignore" => d[j] \in x.lines \/ x.left = 0

LEMMA OnePage ==
  ASSUME NEW n \in Nat \ {0}, NEW g, NEW D, NEW d, d[n] \in D, d[n][2].size \in Nat \ {0},
         NEW p, NEW x, PageWell(g, d, p, x, n - 1, D)
  PROVE  PageWell(g, d, p, IF g[n] = "ignore" THEN x ELSE Written(x, d[n]), n, D)
<1>1. \A j \in 1 .. n : j \in 1 .. n - 1 \/ j = n
  OBVIOUS
<1>2. CASE g[n] = "ignore"
  BY <1>1, <1>2 DEF PageWell
<1>3. CASE g[n] # "ignore"
  <2> DEFINE y == Written(x, d[n])
  <2>1. /\ x \in PageSet(D) /\ p.lines \subseteq x.lines /\ (p.left = 0 => x.left = 0)
        /\ \A j \in 1 .. n - 1 : g[j] # "ignore" => d[j] \in x.lines \/ x.left = 0
    BY DEF PageWell
  <2>2. /\ y \in PageSet(D) /\ x.lines \subseteq y.lines /\ (x.left = 0 => y.left = 0)
        /\ d[n] \in y.lines \/ y.left = 0
    BY <2>1, WrittenPage
  <2> HIDE DEF y
  <2>3. PageWell(g, d, p, y, n, D)
    BY <1>1, <2>1, <2>2 DEF PageWell
  <2>4. QED BY <1>3, <2>3 DEF y
<1>4. QED BY <1>2, <1>3

LEMMA NoLineIsMissing ==
  ASSUME NEW N \in Nat, NEW g, NEW D, NEW d \in [1 .. N -> D], NEW p \in PageSet(D),
         \A k \in 1 .. N : d[k][2].size \in Nat \ {0},
         NEW f, Pages(N, g, d, p, f)
  PROVE  PageWell(g, d, p, f[N], N, D)
<1> DEFINE Bad == {n \in 0 .. N : ~PageWell(g, d, p, f[n], n, D)}
<1>1. ASSUME Bad # {} PROVE FALSE
  <2>1. PICK n \in Bad : \A m \in Bad : n <= m
    <3>1. Bad \in SUBSET Nat
      BY SMT
    <3> HIDE DEF Bad
    <3>2. QED BY <1>1, <3>1, FirstOf
  <2>2. n \in 0 .. N /\ ~PageWell(g, d, p, f[n], n, D)
    OBVIOUS
  <2>3. f[n] = IF n = 0 THEN p
               ELSE IF g[n] = "ignore" THEN f[n - 1] ELSE Written(f[n - 1], d[n])
    BY <2>2 DEF Pages
  <2>4. CASE n = 0
    BY <2>2, <2>3, <2>4 DEF PageWell
  <2>5. CASE n # 0
    <3>1. n \in Nat \ {0} /\ n - 1 \in 0 .. N /\ ~(n <= n - 1) /\ n \in 1 .. N
      BY <2>2, <2>5
    <3>2. PageWell(g, d, p, f[n - 1], n - 1, D)
      BY <2>1, <3>1
    <3>3. d[n] \in D /\ d[n][2].size \in Nat \ {0}
      BY <3>1
    <3> HIDE DEF Bad
    <3>4. PageWell(g, d, p, IF g[n] = "ignore" THEN f[n - 1] ELSE Written(f[n - 1], d[n]), n, D)
      BY <3>1, <3>2, <3>3, OnePage
    <3>5. QED BY <2>2, <2>3, <2>5, <3>4
  <2>6. QED BY <2>4, <2>5
<1>2. N \in 0 .. N
  OBVIOUS
<1>3. QED BY <1>1, <1>2

(* The report behind a log has what it had, and the log's events unless it *)
(* is full.                                                                *)
LEMMA ReportAfterLog ==
  ASSUME NEW events, Len(events) \in Nat, NEW l, left \in Nat,
         \A j \in 1 .. Len(events) : events[j].size \in Nat \ {0}
  PROVE  LET r == Reported(events, l)
         IN  /\ r.left \in Nat
             /\ lines \subseteq r.lines
             /\ left = 0 => r.left = 0
             /\ \A j \in 1 .. Len(events) : Judge(rules, events[j], l) # "ignore" =>
                  <<l, events[j]>> \in r.lines \/ r.left = 0
<1> DEFINE N == Len(events)
           e(k) == events[N + 1 - k]
           g == [k \in 1 .. N |-> match_rules(e(k), l)]
           d == [k \in 1 .. N |-> <<l, e(k)>>]
           D == lines \union {<<l, e(k)>> : k \in 1 .. N}
           p == [lines |-> lines, left |-> left]
           upto == CHOOSE f : f = [k \in 0 .. N |->
                     IF k = 0 THEN p
                     ELSE IF match_rules(e(k), l) = "ignore" THEN f[k - 1]
                          ELSE Written(f[k - 1], <<l, e(k)>>)]
<1>1. Reported(events, l) = upto[N]
  BY Zenon DEF Reported
<1>2. /\ N \in Nat /\ d \in [1 .. N -> D] /\ p \in PageSet(D)
      /\ \A k \in 1 .. N : d[k][2].size \in Nat \ {0}
  <2>1. ASSUME NEW k \in 1 .. N PROVE d[k][2] = e(k) /\ e(k).size \in Nat \ {0}
    <3>1. N + 1 - k \in 1 .. N
      OBVIOUS
    <3>2. QED BY <3>1
  <2>2. d \in [1 .. N -> D] /\ p \in PageSet(D)
    BY DEF PageSet
  <2>3. QED BY <2>1, <2>2
<1>3. \A k \in 1 .. N : g[k] = match_rules(e(k), l) /\ d[k] = <<l, e(k)>>
  OBVIOUS
<1>4. /\ p.lines = lines /\ p.left = left
      /\ \A j \in 1 .. N : /\ N + 1 - j \in 1 .. N
                           /\ g[N + 1 - j] = Judge(rules, events[j], l)
                           /\ d[N + 1 - j] = <<l, events[j]>>
  <2>1. ASSUME NEW j \in 1 .. N
        PROVE  N + 1 - j \in 1 .. N /\ N + 1 - (N + 1 - j) = j
    OBVIOUS
  <2>2. ASSUME NEW j \in 1 .. N
        PROVE  g[N + 1 - j] = Judge(rules, events[j], l) /\ d[N + 1 - j] = <<l, events[j]>>
    BY <2>1, JudgeIsMatch
  <2>3. QED BY <2>1, <2>2
<1> HIDE DEF g, d, D, p, e
<1>5. \A f : Pages(N, g, d, p, f) <=>
        f = [k \in 0 .. N |->
               IF k = 0 THEN p
               ELSE IF match_rules(e(k), l) = "ignore" THEN f[k - 1]
                    ELSE Written(f[k - 1], <<l, e(k)>>)]
  <2>1. \A k \in 0 .. N : k # 0 => g[k] = match_rules(e(k), l) /\ d[k] = <<l, e(k)>>
    BY <1>2, <1>3
  <2> HIDE DEF N
  <2>2. TAKE f
  <2> DEFINE m(k) == match_rules(e(k), l)
             w(k) == <<l, e(k)>>
  <2>3. \A k \in 0 .. N : k # 0 => g[k] = m(k) /\ d[k] = w(k)
    BY <2>1
  <2> HIDE DEF m, w
  <2>4. Pages(N, g, d, p, f) <=>
          f = [k \in 0 .. N |->
                 IF k = 0 THEN p
                 ELSE IF m(k) = "ignore" THEN f[k - 1] ELSE Written(f[k - 1], w(k))]
    BY <2>3 DEF Pages
  <2>5. QED BY <2>4 DEF m, w
<1>6. Pages(N, g, d, p, upto)
  <2> HIDE DEF N
  <2>1. PICK f : Pages(N, g, d, p, f)
    BY <1>2, PagesExist
  <2>2. QED BY <1>5, <2>1, Zenon
<1> HIDE DEF upto, N
<1>7. PageWell(g, d, p, upto[N], N, D)
  BY <1>2, <1>6, NoLineIsMissing
<1>8. /\ upto[N].left \in Nat
      /\ lines \subseteq upto[N].lines
      /\ left = 0 => upto[N].left = 0
      /\ \A j \in 1 .. N : g[j] # "ignore" => d[j] \in upto[N].lines \/ upto[N].left = 0
  BY <1>4, <1>7 DEF PageWell, PageSet
<1>9. \A j \in 1 .. N : Judge(rules, events[j], l) # "ignore" =>
        <<l, events[j]>> \in upto[N].lines \/ upto[N].left = 0
  BY <1>4, <1>8
<1>10. QED BY <1>1, <1>8, <1>9 DEF N

(* What is picked from a sequence, on the way through it.                  *)
Picked(N, s, Y, f) ==
  f = [k \in 0 .. N |->
         IF k = 0 THEN <<>>
         ELSE IF k \in Y THEN Append(f[k - 1], s[k]) ELSE f[k - 1]]

LEMMA PickedExists ==
  ASSUME NEW E, NEW N \in Nat, NEW s \in [1 .. N -> E], NEW Y
  PROVE  \E f \in [0 .. N -> Seq(E)] : Picked(N, s, Y, f)
<1> DEFINE G == [k \in 1 .. N |->
                   [x \in Seq(E) |-> IF k \in Y THEN Append(x, s[k]) ELSE x]]
<1>1. G \in [1 .. N -> [Seq(E) -> Seq(E)]]
  OBVIOUS
<1>2. PICK f \in [0 .. N -> Seq(E)] : Steps(N, <<>>, G, f)
  <2> HIDE DEF G
  <2>1. <<>> \in Seq(E)
    OBVIOUS
  <2>2. QED BY <1>1, <2>1, StepsExist
<1>3. ASSUME NEW k \in 0 .. N
      PROVE  f[k] = IF k = 0 THEN <<>>
                    ELSE IF k \in Y THEN Append(f[k - 1], s[k]) ELSE f[k - 1]
  <2>1. k # 0 => k \in 1 .. N /\ f[k - 1] \in Seq(E)
    BY <1>2
  <2>2. k \in 1 .. N => f[k] = G[k][f[k - 1]]
    BY <1>2 DEF Steps
  <2>3. k = 0 => f[k] = <<>>
    BY <1>2 DEF Steps
  <2>4. QED BY <2>1, <2>2, <2>3
<1>4. f = [k \in 0 .. N |->
             IF k = 0 THEN <<>>
             ELSE IF k \in Y THEN Append(f[k - 1], s[k]) ELSE f[k - 1]]
  BY <1>2, <1>3, Zenon
<1>5. QED BY <1>2, <1>4, Zenon DEF Picked

(* All that is to be picked is there, no further back than it was.         *)
PickedWell(s, Y, t, n, E) ==
  /\ t \in Seq(E)
  /\ Len(t) <= n
  /\ \A k \in 1 .. n : k \in Y => \E j \in 1 .. k : j <= Len(t) /\ t[j] = s[k]

LEMMA OnePicked ==
  ASSUME NEW E, NEW n \in Nat \ {0}, NEW s, s[n] \in E, NEW Y, NEW t,
         PickedWell(s, Y, t, n - 1, E)
  PROVE  PickedWell(s, Y, IF n \in Y THEN Append(t, s[n]) ELSE t, n, E)
<1>1. t \in Seq(E) /\ Len(t) \in Nat /\ Len(t) <= n - 1
  BY DEF PickedWell
<1>2. \A k \in 1 .. n - 1 : k \in Y => \E j \in 1 .. k : j <= Len(t) /\ t[j] = s[k]
  BY DEF PickedWell
<1>3. CASE n \in Y
  <2> DEFINE u == Append(t, s[n])
  <2>1. u \in Seq(E) /\ Len(u) = Len(t) + 1 /\ u[Len(t) + 1] = s[n]
    BY <1>1
  <2>2. \A j \in 1 .. Len(t) : u[j] = t[j]
    BY <1>1
  <2> HIDE DEF u
  <2>3. ASSUME NEW k \in 1 .. n, k \in Y
        PROVE  \E j \in 1 .. k : j <= Len(u) /\ u[j] = s[k]
    <3>1. CASE k = n
      <4>1. Len(t) + 1 \in 1 .. k /\ Len(t) + 1 <= Len(u) /\ u[Len(t) + 1] = s[k]
        BY <1>1, <2>1, <3>1
      <4>2. QED BY <4>1, Zenon
    <3>2. CASE k # n
      <4>1. PICK j \in 1 .. k : j <= Len(t) /\ t[j] = s[k]
        BY <1>2, <2>3, <3>2
      <4>2. QED BY <1>1, <2>1, <2>2, <4>1
    <3>3. QED BY <3>1, <3>2
  <2>4. PickedWell(s, Y, u, n, E)
    BY <1>1, <2>1, <2>3 DEF PickedWell
  <2>5. QED BY <1>3, <2>4 DEF u
<1>4. CASE n \notin Y
  <2>1. \A k \in 1 .. n : k \in Y => k \in 1 .. n - 1
    BY <1>4
  <2>2. QED BY <1>1, <1>2, <1>4, <2>1 DEF PickedWell
<1>5. QED BY <1>3, <1>4

LEMMA NoneIsMissing ==
  ASSUME NEW E, NEW N \in Nat, NEW s \in [1 .. N -> E], NEW Y, NEW f, Picked(N, s, Y, f)
  PROVE  PickedWell(s, Y, f[N], N, E)
<1> DEFINE Bad == {n \in 0 .. N : ~PickedWell(s, Y, f[n], n, E)}
<1>1. ASSUME Bad # {} PROVE FALSE
  <2>1. PICK n \in Bad : \A m \in Bad : n <= m
    <3>1. Bad \in SUBSET Nat
      BY SMT
    <3> HIDE DEF Bad
    <3>2. QED BY <1>1, <3>1, FirstOf
  <2>2. n \in 0 .. N /\ ~PickedWell(s, Y, f[n], n, E)
    OBVIOUS
  <2>3. f[n] = IF n = 0 THEN <<>>
               ELSE IF n \in Y THEN Append(f[n - 1], s[n]) ELSE f[n - 1]
    BY <2>2 DEF Picked
  <2>4. CASE n = 0
    BY <2>2, <2>3, <2>4 DEF PickedWell
  <2>5. CASE n # 0
    <3>1. n \in Nat \ {0} /\ n - 1 \in 0 .. N /\ ~(n <= n - 1) /\ s[n] \in E
      BY <2>2, <2>5
    <3>2. PickedWell(s, Y, f[n - 1], n - 1, E)
      BY <2>1, <3>1
    <3> HIDE DEF Bad
    <3>3. PickedWell(s, Y, IF n \in Y THEN Append(f[n - 1], s[n]) ELSE f[n - 1], n, E)
      BY <3>1, <3>2, OnePicked
    <3>4. QED BY <2>2, <2>3, <2>5, <3>3
  <2>6. QED BY <2>4, <2>5
<1>2. N \in 0 .. N
  OBVIOUS
<1>3. QED BY <1>1, <1>2

LEMMA SmallerOrEqual ==
  ASSUME NEW a \in Nat, NEW m \in Nat, NEW n \in Nat \ {0}, a <= m
  PROVE  a * n <= m * n
BY SMT

(* The query selects every event that is young enough, and puts none       *)
(* further back than it was.                                               *)
LEMMA YoungIsSelected ==
  ASSUME QueryReaches, NEW entries \in Seq(Events)
  PROVE  /\ Selected(entries) \in Seq(Events)
         /\ \A k \in 1 .. Len(entries) : entries[k].age <= MsgAge =>
              \E j \in 1 .. k : /\ j <= Len(Selected(entries))
                                /\ Selected(entries)[j] = entries[k]
<1> DEFINE N == Len(entries)
           Y == {k \in 1 .. N : entries[k].age * PerSecond <= Clock - MsgAge}
           upto == CHOOSE f : f = [k \in 0 .. N |->
                     IF k = 0 THEN <<>>
                     ELSE IF entries[k].age * PerSecond <= Clock - MsgAge
                          THEN Append(f[k - 1], entries[k])
                          ELSE f[k - 1]]
<1>1. Selected(entries) = upto[N]
  BY Zenon DEF Selected
<1>2. N \in Nat /\ entries \in [1 .. N -> Events]
  OBVIOUS
<1>3. PICK f \in [0 .. N -> Seq(Events)] : Picked(N, entries, Y, f)
  <2> HIDE DEF N, Y
  <2>1. QED BY <1>2, PickedExists
<1>4. \A h : Picked(N, entries, Y, h) <=>
        h = [k \in 0 .. N |->
               IF k = 0 THEN <<>>
               ELSE IF entries[k].age * PerSecond <= Clock - MsgAge
                    THEN Append(h[k - 1], entries[k])
                    ELSE h[k - 1]]
  <2>1. \A k \in 0 .. N : k # 0 =>
          (k \in Y <=> entries[k].age * PerSecond <= Clock - MsgAge)
    OBVIOUS
  <2> HIDE DEF Y, N
  <2>2. TAKE h
  <2> DEFINE Q(k) == entries[k].age * PerSecond <= Clock - MsgAge
  <2>3. \A k \in 0 .. N : k # 0 => (k \in Y <=> Q(k))
    BY <2>1
  <2> HIDE DEF Q
  <2>4. Picked(N, entries, Y, h) <=>
          h = [k \in 0 .. N |->
                 IF k = 0 THEN <<>>
                 ELSE IF Q(k) THEN Append(h[k - 1], entries[k]) ELSE h[k - 1]]
    BY <2>3 DEF Picked
  <2>5. QED BY <2>4 DEF Q
<1>5. Picked(N, entries, Y, upto)
  <2> HIDE DEF Y
  <2>1. QED BY <1>3, <1>4, Zenon
<1>6. PickedWell(entries, Y, upto[N], N, Events)
  <2> HIDE DEF Y, N, upto
  <2>1. QED BY <1>2, <1>5, NoneIsMissing
<1> HIDE DEF upto
<1>7. ASSUME NEW k \in 1 .. N, entries[k].age <= MsgAge PROVE k \in Y
  <2>1. entries[k].age \in Nat
    BY <1>2 DEF Events
  <2>2. entries[k].age * PerSecond <= MsgAge * PerSecond
    BY <1>7, <2>1, EventLogAssumption, SmallerOrEqual
  <2>3. entries[k].age * PerSecond <= Clock - MsgAge
    <3> DEFINE a == entries[k].age * PerSecond
               m == MsgAge * PerSecond
    <3>1. a \in Int /\ m \in Int /\ Clock - MsgAge \in Int
      BY <2>1, EventLogAssumption
    <3>2. a <= m /\ m <= Clock - MsgAge
      BY <2>2 DEF QueryReaches
    <3> HIDE DEF a, m
    <3>3. a <= Clock - MsgAge
      BY <3>1, <3>2
    <3>4. QED BY <3>3 DEF a
  <2>4. QED BY <2>3
<1> HIDE DEF Y, N
<1>8. /\ upto[N] \in Seq(Events)
      /\ \A k \in 1 .. N : k \in Y =>
           \E j \in 1 .. k : j <= Len(upto[N]) /\ upto[N][j] = entries[k]
  BY <1>6 DEF PickedWell
<1>9. QED BY <1>1, <1>7, <1>8 DEF N

LEMMA ReadLogStep ==
  ASSUME QueryReaches, WorstInv, NEW entries \in Contents, ReadLog(entries), rules' = rules
  PROVE  WorstInv'
<1> DEFINE l == Logs[log]
           sel == Selected(entries)
           depths == Depths(Len(sel))
<1>1. PICK n \in depths.cut \union {depths.whole} :
        LET events == SubSeq(sel, 1, n)
        IN /\ mcolor' = ColorAfter(events, l)
           /\ lines' = Reported(events, l).lines
           /\ left' = Reported(events, l).left
           /\ readable' = (readable /\ n = depths.whole)
           /\ due' = due \union {<<l, entries[k]>> : k \in
                       {j \in 1 .. Len(entries) :
                          entries[j].age <= MsgAge /\ (Fast => j <= BatchSize)}}
  BY Zenon DEF ReadLog
<1> DEFINE events == SubSeq(sel, 1, n)
<1>2. entries \in Seq(Events) /\ BatchSize \in Nat
  BY EventLogAssumption
<1>3. /\ sel \in Seq(Events)
      /\ \A k \in 1 .. Len(entries) : entries[k].age <= MsgAge =>
           \E j \in 1 .. k : j <= Len(sel) /\ sel[j] = entries[k]
  BY <1>2, YoungIsSelected
<1> HIDE DEF sel
<1>4. n \in 0 .. Len(sel)
  <2>1. depths.whole \in 0 .. Len(sel) /\ depths.cut \subseteq 0 .. depths.whole
    BY <1>2, <1>3 DEF Depths
  <2> HIDE DEF depths
  <2>2. QED BY <2>1, <1>3
<1>5. /\ Len(events) = n
      /\ \A j \in 1 .. n : events[j] = sel[j] /\ events[j].size \in Nat \ {0}
  <2>1. \A j \in 1 .. n : sel[j] \in Events
    BY <1>3, <1>4
  <2>2. Len(events) = n /\ \A j \in 1 .. n : events[j] = sel[j]
    BY <1>3, <1>4
  <2> HIDE DEF events
  <2>3. QED BY <2>1, <2>2 DEF Events
<1>6. /\ mcolor' = ColorAfter(events, l)
      /\ lines' = Reported(events, l).lines /\ left' = Reported(events, l).left
  BY <1>1, Zenon
<1> HIDE DEF events, l
<1>7. /\ left' \in Nat /\ lines \subseteq lines' /\ (left = 0 => left' = 0)
      /\ \A j \in 1 .. n : Judge(rules, events[j], l) # "ignore" =>
           <<l, events[j]>> \in lines' \/ left' = 0
  <2>1. Len(events) \in Nat /\ left \in Nat
    BY <1>4, <1>5 DEF WorstInv
  <2>2. QED BY <1>5, <1>6, <2>1, ReportAfterLog
<1>8. /\ mcolor = "red" => mcolor' = "red"
      /\ mcolor # "green" => mcolor' # "green"
      /\ \A j \in 1 .. n :
           /\ Judge(rules, events[j], l) = "red" => mcolor' = "red"
           /\ Judge(rules, events[j], l) = "yellow" => mcolor' # "green"
  <2>1. Len(events) \in Nat
    BY <1>4, <1>5
  <2>2. QED BY <1>5, <1>6, <2>1, ColorAfterLog
<1>9. SUFFICES ASSUME readable, n = depths.whole
               PROVE  \A d \in due' : ShownOn(d, rules, lines', left', mcolor')
  BY <1>1, <1>7, Zenon DEF WorstInv
<1>10. ASSUME NEW d \in due PROVE ShownOn(d, rules, lines', left', mcolor')
  <2>1. ShownOn(d, rules, lines, left, mcolor)
    BY <1>9 DEF WorstInv
  <2>2. QED BY <1>7, <1>8, <2>1 DEF ShownOn
<1>11. n = IF Fast /\ Len(sel) > BatchSize THEN BatchSize ELSE Len(sel)
  BY <1>9 DEF Depths
<1> HIDE DEF depths
<1>12. ASSUME NEW k \in 1 .. Len(entries), entries[k].age <= MsgAge, Fast => k <= BatchSize
       PROVE  ShownOn(<<l, entries[k]>>, rules, lines', left', mcolor')
  <2>1. PICK j \in 1 .. k : j <= Len(sel) /\ sel[j] = entries[k]
    BY <1>3, <1>12
  <2>2. j \in 1 .. n
    BY <1>2, <1>3, <1>12, <1>11, <2>1
  <2>3. events[j] = entries[k]
    BY <1>5, <2>1, <2>2
  <2>4. QED BY <1>7, <1>8, <2>2, <2>3 DEF ShownOn
<1>13. ASSUME NEW d \in due' PROVE ShownOn(d, rules, lines', left', mcolor')
  <2>1. CASE d \in due
    BY <1>10, <2>1
  <2>2. CASE d \notin due
    <3>1. PICK k \in {j \in 1 .. Len(entries) :
                        entries[j].age <= MsgAge /\ (Fast => j <= BatchSize)} :
            d = <<l, entries[k]>>
      BY <1>1, <2>2, Zenon DEF l
    <3>2. QED BY <1>12, <3>1
  <2>3. QED BY <2>1, <2>2
<1>14. QED BY <1>13

LEMMA WorstStep ==
  ASSUME QueryReaches, WorstInv, [EvNext]_ev_vars PROVE WorstInv'
<1>1. CASE EvReadLog
  <2>1. PICK entries \in Contents : ReadLog(entries)
    BY <1>1 DEF EvReadLog
  <2>2. rules' = rules
    BY <1>1 DEF EvReadLog, EvUnchanged
  <2>3. QED BY <2>1, <2>2, ReadLogStep
<1>2. CASE EvBegin
  BY <1>2, EventLogAssumption DEF EvBegin, WorstInv
<1>3. CASE EvNoLogs
  BY <1>3 DEF EvNoLogs, WorstInv
<1>4. CASE UNCHANGED <<readable, due, rules, lines, left, mcolor>>
  BY <1>4 DEF WorstInv, ShownOn
<1>5. QED
  BY <1>1, <1>2, <1>3, <1>4
  DEF EvNext, ev_vars, EvUnchanged, ev_pass, EvDisabled, EvMarker, EvSkipLog, EvEndMarker,
      EvReport, EvDie, EvRestart, EvAdmin

(* A report whose logs could all be read is as bad as the worst event that *)
(* is young enough, and shows each of them unless it is full, provided     *)
(* that the query reaches back that far.                                   *)
THEOREM WorstEventReported ==
  ASSUME QueryReaches PROVE EvSpec => []WorstEventShows
<1>1. EvInit => WorstInv
  BY EventLogAssumption DEF EvInit, WorstInv
<1>2. WorstInv => WorstEventShows
  <2> SUFFICES ASSUME WorstInv, readable, NEW d \in due
               PROVE  LET a == match_rules(d[2], d[1])
                      IN /\ a # "ignore" => d \in lines \/ left = 0
                         /\ a = "red" => mcolor = "red"
                         /\ a = "yellow" => mcolor # "green"
    BY DEF WorstEventShows
  <2>1. ShownOn(d, rules, lines, left, mcolor)
    BY DEF WorstInv
  <2>2. match_rules(d[2], d[1]) = Judge(rules, d[2], d[1])
    BY JudgeIsMatch
  <2>3. QED BY <2>1, <2>2 DEF ShownOn
<1>3. WorstInv /\ [EvNext]_ev_vars => WorstInv'
  BY WorstStep
<1>4. QED BY <1>1, <1>2, <1>3, PTL DEF EvSpec

-----------------------------------------------------------------------------
(* The pickup directory.                                                   *)

(* The directory.  Only what is being written is open.                     *)
DirectoryOK ==
  /\ exists \subseteq PickupFiles
  /\ content \in [PickupFiles -> Seq({"color", "text"})]
  /\ writer \in [PickupFiles -> {"none", "command", "other"}]
  /\ written \in [PickupFiles -> 0 .. 2]
  /\ held \subseteq PickupFiles /\ \A f \in held : writer[f] # "none"

(* The pieces of a file, n of which are written.                           *)
SoFar(n) == IF n = 0 THEN <<>> ELSE IF n = 1 THEN <<"color">> ELSE Pieces

(* The command that runs has written its file from the beginning.          *)
CommandOK ==
  ext_pc = "waiting" =>
    LET f == Command[command]
    IN  /\ f \in PickupFiles /\ writer[f] = "command" /\ f \in exists
        /\ content[f] = SoFar(written[f])

(* What was completed by a command is complete until the listing.          *)
FinishedOK ==
  ext_pc \in {"commands", "waiting"} =>
    /\ found = {} /\ ext_sent = <<>>
    /\ \A f \in finished : /\ f \in exists /\ writer[f] = "none" /\ content[f] = Pieces

(* What is read of a file.                                                 *)
Parts == {"color", "text", "beginning"}

Reports == {Report(f, pieces) : f \in PickupFiles, pieces \in Seq(Parts)}

ListingOK ==
  /\ ext_pc \in {"idle", "commands", "waiting", "pickup", "opened", "end"}
  /\ command \in Nat \ {0}
  /\ ext_sent \in Seq(Reports)
  /\ ext_pc = "opened" => /\ reading \in PickupFiles /\ reading \in found
                          /\ b \in Seq(Parts)

(* A file that nobody touches and the system does not refuse is whole      *)
(* until it is read, then what was read of it is whole, and then it was    *)
(* reported, once.                                                         *)
Whole(f) == f \in exists /\ writer[f] = "none" /\ content[f] = Pieces

NotReported(f) == \A k \in 1 .. Len(ext_sent) : ext_sent[k].file # f

ReportedOnce(f) ==
  \E k \in 1 .. Len(ext_sent) :
    /\ ext_sent[k] = Report(f, Fits(f))
    /\ \A j \in 1 .. Len(ext_sent) : ext_sent[j].file = f => j = k

Unread(f) == f \notin found /\ Whole(f) /\ NotReported(f)

BeingRead(f) ==
  /\ ext_pc = "opened" /\ reading = f
  /\ Whole(f) /\ NotReported(f) /\ b = Fits(f)

PickedUp(f) ==
  /\ f \in found /\ (f \in exists => f \in stuck) /\ ReportedOnce(f)
  /\ ext_pc = "opened" => reading # f

SettledOK ==
  ext_pc \in {"pickup", "opened", "end"} /\ ~no_ext =>
    \A f \in settled \ refused : /\ f \in PickupFiles /\ f \in listed
                                 /\ Unread(f) \/ BeingRead(f) \/ PickedUp(f)

EndOK == ext_pc = "end" /\ ~no_ext => settled \ refused \subseteq found

PickupInv == DirectoryOK /\ CommandOK /\ FinishedOK /\ ListingOK /\ SettledOK /\ EndOK

LEMMA PieceFacts ==
  /\ Pieces \in Seq({"color", "text"}) /\ Len(Pieces) = 2 /\ Pieces # <<>>
  /\ SoFar(0) = <<>> /\ SoFar(2) = Pieces
  /\ \A n \in 0 .. 2 :
       n < 2 => /\ Pieces[n + 1] \in {"color", "text"}
                /\ SoFar(n + 1) = Append(SoFar(n), Pieces[n + 1])
<1>1. Pieces \in Seq({"color", "text"}) /\ Len(Pieces) = 2 /\ Pieces # <<>>
  BY DEF Pieces
<1>2. SoFar(0) = <<>> /\ SoFar(2) = Pieces
  BY DEF SoFar
<1>3. Pieces[1] = "color" /\ Pieces[2] = "text"
  BY DEF Pieces
<1>4. SoFar(1) = Append(SoFar(0), Pieces[1]) /\ SoFar(2) = Append(SoFar(1), Pieces[2])
  BY <1>2, <1>3 DEF SoFar, Pieces
<1>5. QED BY <1>1, <1>2, <1>3, <1>4

(* What is read of a complete file, and of any.                            *)
LEMMA ReadFacts ==
  ASSUME NEW f, content[f] \in Seq({"color", "text"})
  PROVE  /\ ReadFrom(f) \in Seq(Parts)
         /\ content[f] = Pieces => ReadFrom(f) = Fits(f)
         /\ Fits(f) # <<>>
<1>1. ReadFrom(f) \in Seq(Parts)
  <2>1. \A k \in 1 .. Len(content[f]) : content[f][k] \in Parts
    BY DEF Parts
  <2>2. QED BY <2>1 DEF ReadFrom, Parts
<1>2. ASSUME content[f] = Pieces PROVE ReadFrom(f) = Fits(f)
  <2> DEFINE r == ReadFrom(f)
  <2>1. Pieces = <<"color", "text">> /\ Len(Pieces) = 2
    BY DEF Pieces
  <2>2. /\ r = [k \in 1 .. 2 |-> IF f \in Long /\ Pieces[k] = "text"
                                 THEN "beginning" ELSE Pieces[k]]
    BY <1>2, <2>1 DEF ReadFrom
  <2>3. r \in Seq(Parts)
    BY <1>1
  <2> HIDE DEF r
  <2>4. Len(r) = 2 /\ r[1] = "color" /\ r[2] = (IF f \in Long THEN "beginning" ELSE "text")
    BY <2>1, <2>2, <2>3
  <2>5. CASE f \in Long
    <3>1. r = <<"color", "beginning">>
      BY <2>3, <2>4, <2>5
    <3>2. QED BY <2>5, <3>1 DEF Fits, r
  <2>6. CASE f \notin Long
    <3>1. r = <<"color", "text">>
      BY <2>3, <2>4, <2>6
    <3>2. QED BY <2>1, <2>6, <3>1 DEF Fits, r
  <2>7. QED BY <2>5, <2>6
<1>3. Fits(f) # <<>>
  BY DEF Fits, Pieces
<1>4. QED BY <1>1, <1>2, <1>3

(* A writer's step touches one file, and leaves the directory in order.    *)
LEMMA WriterStep ==
  ASSUME DirectoryOK, NEW f \in PickupFiles, NEW who \in {"command", "other"},
         BeginWriting(f, who) \/ AddPiece(f) \/ EndWriting(f)
  PROVE  /\ DirectoryOK'
         /\ \A g \in PickupFiles \ {f} :
              /\ (g \in exists' <=> g \in exists) /\ (g \in held' <=> g \in held)
              /\ writer'[g] = writer[g] /\ content'[g] = content[g] /\ written'[g] = written[g]
<1>1. CASE BeginWriting(f, who)
  BY <1>1 DEF BeginWriting, DirectoryOK
<1>2. CASE AddPiece(f)
  <2>1. written[f] \in 0 .. 2 /\ written[f] < 2
    BY <1>2, PieceFacts DEF AddPiece, DirectoryOK
  <2>2. Pieces[written[f] + 1] \in {"color", "text"} /\ written[f] + 1 \in 0 .. 2
    BY <2>1, PieceFacts
  <2>3. QED BY <1>2, <2>2 DEF AddPiece, DirectoryOK
<1>3. CASE EndWriting(f)
  BY <1>3 DEF EndWriting, DirectoryOK
<1>4. QED BY <1>1, <1>2, <1>3

(* Whoever else writes spoils at most the file that is written.            *)
LEMMA OtherWritesStep == ASSUME PickupInv, OtherWrites PROVE PickupInv'
<1>1. /\ UNCHANGED <<ext_pc, command, no_ext, ext_agent>>
      /\ \E f \in PickupFiles :
           /\ \/ BeginWriting(f, "other")
              \/ writer[f] = "other" /\ (AddPiece(f) \/ EndWriting(f))
           /\ settled' = settled \ {f}
           /\ finished' = finished \ {f}
  BY DEF OtherWrites
<1>2. PICK f \in PickupFiles :
           /\ \/ BeginWriting(f, "other")
              \/ writer[f] = "other" /\ (AddPiece(f) \/ EndWriting(f))
           /\ settled' = settled \ {f}
           /\ finished' = finished \ {f}
  BY <1>1
<1>3. /\ DirectoryOK'
      /\ \A g \in PickupFiles \ {f} :
           /\ (g \in exists' <=> g \in exists) /\ (g \in held' <=> g \in held)
           /\ writer'[g] = writer[g] /\ content'[g] = content[g] /\ written'[g] = written[g]
  BY <1>2, WriterStep DEF PickupInv
<1>4. writer[f] # "command"
  BY <1>2 DEF BeginWriting
<1>5. CommandOK'
  <2>1. SUFFICES ASSUME ext_pc = "waiting"
                 PROVE  LET g == Command[command]
                        IN  /\ g \in PickupFiles /\ writer'[g] = "command" /\ g \in exists'
                            /\ content'[g] = SoFar(written'[g])
    BY <1>1 DEF CommandOK
  <2>2. Command[command] \in PickupFiles \ {f}
    BY <1>4, <2>1 DEF PickupInv, CommandOK
  <2>3. QED BY <1>3, <2>1, <2>2 DEF PickupInv, CommandOK
<1>6. FinishedOK'
  <2>1. SUFFICES ASSUME ext_pc \in {"commands", "waiting"}
                 PROVE  /\ found = {} /\ ext_sent = <<>>
                        /\ \A g \in finished' :
                             g \in exists' /\ writer'[g] = "none" /\ content'[g] = Pieces
    BY <1>1 DEF FinishedOK, ext_agent
  <2>2. \A g \in finished' : g \in finished /\ g \in PickupFiles \ {f}
    BY <1>2, <2>1 DEF PickupInv, FinishedOK, DirectoryOK
  <2>3. QED BY <1>3, <2>1, <2>2 DEF PickupInv, FinishedOK
<1>7. ListingOK'
  BY <1>1 DEF ext_agent, PickupInv, ListingOK
<1>8. SettledOK'
  <2>1. SUFFICES ASSUME ext_pc \in {"pickup", "opened", "end"}, ~no_ext,
                        NEW g \in settled' \ refused
                 PROVE  /\ g \in PickupFiles /\ g \in listed
                        /\ (Unread(g) \/ BeingRead(g) \/ PickedUp(g))'
    BY <1>1 DEF SettledOK, ext_agent
  <2>2. /\ g \in PickupFiles \ {f} /\ g \in listed
        /\ Unread(g) \/ BeingRead(g) \/ PickedUp(g)
    BY <1>2, <2>1 DEF PickupInv, SettledOK
  <2>3. /\ Whole(g)' <=> Whole(g)
        /\ g \in exists' <=> g \in exists
        /\ NotReported(g)' <=> NotReported(g)
        /\ ReportedOnce(g)' <=> ReportedOnce(g)
    BY <1>1, <1>3, <2>2 DEF Whole, NotReported, ReportedOnce, ext_agent
  <2>4. QED BY <1>1, <2>2, <2>3 DEF Unread, BeingRead, PickedUp, ext_agent
<1>9. EndOK'
  BY <1>1, <1>2 DEF PickupInv, EndOK, ext_agent
<1>10. QED BY <1>3, <1>5, <1>6, <1>7, <1>8, <1>9 DEF PickupInv

(* The calls of the agent until the listing begins.                        *)
LEMMA CommandStep ==
  ASSUME PickupInv, ExtCall \/ StartCommand \/ CommandWrites \/ CommandExits \/ CommandTimesOut
  PROVE  PickupInv'
<1> DEFINE f == Command[command]
<1>1. CASE ExtCall
  <2>1. /\ ext_pc = "idle" /\ ext_pc' = "commands" /\ command' = 1
        /\ found' = {} /\ ext_sent' = <<>> /\ finished' = {} /\ settled' = {}
        /\ UNCHANGED <<ext_files, reading, b, listed, refused, stuck>>
    BY <1>1 DEF ExtCall
  <2>2. DirectoryOK'
    BY <2>1 DEF ext_files, PickupInv, DirectoryOK
  <2>3. CommandOK' /\ FinishedOK' /\ SettledOK' /\ EndOK'
    BY <2>1 DEF CommandOK, FinishedOK, SettledOK, EndOK
  <2>4. ListingOK'
    BY <2>1 DEF ListingOK
  <2>5. QED BY <2>2, <2>3, <2>4 DEF PickupInv
<1>2. CASE ~ExtCall
  <2>1. /\ ext_pc \in {"commands", "waiting"} /\ ext_pc' \in {"commands", "waiting"}
        /\ UNCHANGED <<no_ext, ext_agent, settled>> /\ command' \in Nat \ {0}
    BY <1>2 DEF StartCommand, CommandWrites, CommandExits, CommandTimesOut, PickupInv, ListingOK
  <2>2. ListingOK' /\ SettledOK' /\ EndOK' /\ found' = {} /\ ext_sent' = <<>>
    BY <2>1 DEF PickupInv, ListingOK, SettledOK, EndOK, FinishedOK, ext_agent
  <2>3. /\ \A g \in finished : g \in PickupFiles /\ g \in exists
                                /\ writer[g] = "none" /\ content[g] = Pieces
        /\ ext_pc = "waiting" => /\ f \in PickupFiles /\ writer[f] = "command" /\ f \in exists
                                 /\ content[f] = SoFar(written[f])
    BY <2>1 DEF PickupInv, FinishedOK, CommandOK, DirectoryOK
  <2>4. SUFFICES /\ DirectoryOK' /\ CommandOK'
                 /\ \A g \in finished' :
                      g \in exists' /\ writer'[g] = "none" /\ content'[g] = Pieces
    BY <2>2 DEF PickupInv, FinishedOK
  <2> DEFINE Rest == \A g \in PickupFiles \ {f} :
               /\ (g \in exists' <=> g \in exists) /\ (g \in held' <=> g \in held)
               /\ writer'[g] = writer[g] /\ content'[g] = content[g] /\ written'[g] = written[g]
  <2>5. ASSUME StartCommand, BeginWriting(f, "command"), ext_pc' = "waiting",
               finished' = finished \ {f}, UNCHANGED command
        PROVE  /\ DirectoryOK' /\ CommandOK'
               /\ \A g \in finished' :
                    g \in exists' /\ writer'[g] = "none" /\ content'[g] = Pieces
    <3>1. f \in PickupFiles
      <4>1. command \in 1 .. Len(Command)
        BY <2>5, PickupAssumption DEF StartCommand, PickupInv, ListingOK
      <4>2. QED BY <4>1, PickupAssumption
    <3>2. DirectoryOK' /\ Rest
      BY <2>5, <3>1, WriterStep DEF PickupInv
    <3>3. CommandOK'
      BY <2>5, <3>1, PieceFacts DEF BeginWriting, CommandOK, PickupInv, DirectoryOK
    <3>4. QED BY <2>3, <2>5, <3>2, <3>3
  <2>6. ASSUME ext_pc' = "commands", UNCHANGED <<ext_files, finished>>
        PROVE  /\ DirectoryOK' /\ CommandOK'
               /\ \A g \in finished' :
                    g \in exists' /\ writer'[g] = "none" /\ content'[g] = Pieces
    BY <2>3, <2>6 DEF ext_files, CommandOK, PickupInv, DirectoryOK
  <2>7. CASE StartCommand
    <3>1. \/ /\ BeginWriting(f, "command") /\ ext_pc' = "waiting"
             /\ finished' = finished \ {f} /\ UNCHANGED command
          \/ UNCHANGED <<ext_pc, ext_files, finished>> /\ ext_pc = "commands"
      BY <2>7 DEF StartCommand
    <3>2. QED BY <2>5, <2>6, <2>7, <3>1
  <2>8. CASE CommandWrites
    <3>1. /\ ext_pc = "waiting" /\ ext_pc' = "waiting" /\ AddPiece(f)
          /\ UNCHANGED <<command, finished>>
      BY <2>8 DEF CommandWrites
    <3>2. DirectoryOK' /\ Rest
      BY <2>3, <3>1, WriterStep DEF PickupInv
    <3>3. CommandOK'
      <4>1. /\ written[f] \in 0 .. 2 /\ written[f] < 2 /\ written'[f] = written[f] + 1
            /\ writer' = writer /\ f \in exists'
            /\ content'[f] = Append(content[f], Pieces[written[f] + 1])
        BY <2>3, <3>1, PieceFacts DEF AddPiece, PickupInv, DirectoryOK
      <4>2. content'[f] = SoFar(written'[f])
        BY <2>3, <3>1, <4>1, PieceFacts
      <4>3. QED BY <2>3, <3>1, <4>1, <4>2 DEF CommandOK
    <3>4. QED BY <2>3, <3>1, <3>2, <3>3
  <2>9. CASE CommandExits
    <3>1. /\ ext_pc = "waiting" /\ ext_pc' = "commands" /\ EndWriting(f)
          /\ finished' = finished \cup {f}
      BY <2>9 DEF CommandExits
    <3>2. DirectoryOK' /\ Rest
      BY <2>3, <3>1, WriterStep DEF PickupInv
    <3>3. f \in exists' /\ writer'[f] = "none" /\ content'[f] = Pieces
      BY <2>3, <3>1, PieceFacts DEF EndWriting, PickupInv, DirectoryOK
    <3>4. CommandOK'
      BY <3>1 DEF CommandOK
    <3>5. QED BY <2>3, <3>1, <3>2, <3>3, <3>4
  <2>10. CASE CommandTimesOut
    <3>1. /\ ext_pc = "waiting" /\ ext_pc' = "commands"
          /\ \/ writer' = [writer EXCEPT ![f] = "none"] /\ held' = held \ {f}
             \/ writer' = [writer EXCEPT ![f] = "other"] /\ held' = held
          /\ UNCHANGED <<exists, content, written, finished>>
      BY <2>10 DEF CommandTimesOut
    <3>2. DirectoryOK' /\ CommandOK'
      BY <2>3, <3>1 DEF CommandOK, PickupInv, DirectoryOK
    <3>3. \A g \in finished : g # f
      BY <2>3, <3>1
    <3>4. QED BY <2>3, <3>1, <3>2, <3>3 DEF PickupInv, DirectoryOK
  <2>11. QED BY <1>2, <2>7, <2>8, <2>9, <2>10
<1>3. QED BY <1>1, <1>2

(* The listing begins: what is settled is there, whole and unread.         *)
LEMMA StartPickupStep == ASSUME PickupInv, StartPickup PROVE PickupInv'
<1>1. /\ ext_pc = "commands" /\ listed' = exists
      /\ ext_pc' = "pickup" \/ (ext_pc' = "end" /\ refused' = PickupFiles)
      /\ settled' = finished \cup {f \in exists : writer[f] = "none" /\ content[f] = Pieces}
      /\ UNCHANGED <<command, no_ext, ext_files, found, reading, b, ext_sent, stuck, finished>>
  BY DEF StartPickup
<1>2. DirectoryOK' /\ CommandOK' /\ FinishedOK' /\ ListingOK'
  BY <1>1 DEF ext_files, PickupInv, DirectoryOK, CommandOK, FinishedOK, ListingOK
<1>3. found' = {} /\ ext_sent' = <<>>
  BY <1>1 DEF PickupInv, FinishedOK
<1>4. \A f \in settled' : f \in PickupFiles /\ f \in listed' /\ Whole(f)'
  BY <1>1 DEF ext_files, PickupInv, FinishedOK, DirectoryOK, Whole
<1>5. \A f \in settled' : Unread(f)'
  BY <1>3, <1>4 DEF Unread, NotReported
<1>6. SettledOK'
  BY <1>4, <1>5 DEF SettledOK
<1>7. EndOK'
  BY <1>1, <1>4 DEF EndOK
<1>8. QED BY <1>2, <1>6, <1>7 DEF PickupInv

(* The next entry: a settled file is not open, and is read.                *)
LEMMA PickupOpenStep == ASSUME PickupInv, PickupOpen PROVE PickupInv'
<1>1. /\ ext_pc = "pickup"
      /\ UNCHANGED <<command, no_ext, ext_files, ext_sent, listed, stuck, finished, settled>>
      /\ \E f \in exists \ found :
           /\ found' = found \union {f}
           /\ \/ no_ext /\ UNCHANGED <<ext_pc, reading, b, refused>>
              \/ ~no_ext /\ (RefuseOpen(f) \/ ReadFile(f))
  BY DEF PickupOpen
<1>2. PICK f \in exists \ found :
           /\ found' = found \union {f}
           /\ \/ no_ext /\ UNCHANGED <<ext_pc, reading, b, refused>>
              \/ ~no_ext /\ (RefuseOpen(f) \/ ReadFile(f))
  BY <1>1
<1>3. f \in PickupFiles /\ ext_pc' \in {"pickup", "opened"} /\ refused \subseteq refused'
  BY <1>1, <1>2 DEF PickupInv, DirectoryOK, RefuseOpen, ReadFile
<1>4. DirectoryOK' /\ CommandOK' /\ FinishedOK' /\ EndOK'
  BY <1>1, <1>3 DEF ext_files, PickupInv, DirectoryOK, CommandOK, FinishedOK, EndOK
<1>5. content[f] \in Seq({"color", "text"})
  BY <1>3 DEF PickupInv, DirectoryOK
<1>6. ListingOK'
  <2>1. CASE ~no_ext /\ ReadFile(f)
    <3>1. ext_pc' = "opened" /\ reading' = f /\ b' \in Seq(Parts)
      BY <1>5, <2>1, ReadFacts DEF ReadFile
    <3>2. QED BY <1>1, <1>2, <1>3, <3>1 DEF PickupInv, ListingOK
  <2>2. CASE ~(~no_ext /\ ReadFile(f))
    <3>1. ext_pc' = "pickup"
      BY <1>1, <1>2, <2>2 DEF RefuseOpen
    <3>2. QED BY <1>1, <3>1 DEF PickupInv, ListingOK
  <2>3. QED BY <2>1, <2>2
<1>7. SettledOK'
  <2>1. SUFFICES ASSUME ~no_ext, NEW g \in settled \ refused'
                 PROVE  /\ g \in PickupFiles /\ g \in listed
                        /\ (Unread(g) \/ BeingRead(g) \/ PickedUp(g))'
    BY <1>1, <1>3 DEF SettledOK
  <2>2. g \in PickupFiles /\ g \in listed /\ (Unread(g) \/ PickedUp(g))
    BY <1>1, <1>3, <2>1 DEF PickupInv, SettledOK, BeingRead
  <2>3. /\ Whole(g)' <=> Whole(g)
        /\ NotReported(g)' <=> NotReported(g)
        /\ ReportedOnce(g)' <=> ReportedOnce(g)
        /\ exists' = exists /\ stuck' = stuck
    BY <1>1 DEF Whole, NotReported, ReportedOnce, ext_files
  <2>4. CASE Unread(g) /\ g = f
    <3>1. ext_pc' = "opened" /\ reading' = g /\ b' = ReadFrom(g)
      BY <1>2, <2>1, <2>4 DEF RefuseOpen, ReadFile
    <3>2. b' = Fits(g)
      BY <1>5, <2>4, <3>1, ReadFacts DEF Unread, Whole
    <3>3. BeingRead(g)'
      BY <2>3, <2>4, <3>1, <3>2 DEF Unread, BeingRead, Fits
    <3>4. QED BY <2>2, <3>3
  <2>5. CASE Unread(g) /\ g # f
    BY <1>2, <2>2, <2>3, <2>5 DEF Unread
  <2>6. CASE PickedUp(g)
    <3>1. g # f
      BY <2>6 DEF PickedUp
    <3>2. ext_pc' = "opened" => reading' = f
      BY <1>1, <1>2 DEF RefuseOpen, ReadFile
    <3>3. PickedUp(g)'
      BY <1>2, <2>3, <2>6, <3>1, <3>2 DEF PickedUp
    <3>4. QED BY <2>2, <3>3
  <2>7. QED BY <2>2, <2>4, <2>5, <2>6
<1>8. QED BY <1>4, <1>6, <1>7 DEF PickupInv

(* A file that was read is removed and reported.                           *)
LEMMA PickupSendStep == ASSUME PickupInv, PickupSend PROVE PickupInv'
<1>1. /\ ext_pc = "opened" /\ ext_pc' = "pickup"
      /\ \/ exists' = exists \ {reading} /\ stuck' = stuck
         \/ exists' = exists /\ stuck' = stuck \union {reading}
      /\ ext_sent' = IF b = <<>> THEN ext_sent ELSE Append(ext_sent, Report(reading, b))
      /\ UNCHANGED <<command, no_ext, content, writer, written, held, found, listed,
                     refused, finished, settled>>
  BY DEF PickupSend, RemoveWorks, RemoveFails
<1>2. /\ reading \in PickupFiles /\ reading \in found /\ Report(reading, b) \in Reports
      /\ ext_sent \in Seq(Reports)
  BY <1>1 DEF PickupInv, ListingOK, Reports
<1>3. DirectoryOK' /\ CommandOK' /\ FinishedOK' /\ EndOK'
  BY <1>1 DEF PickupInv, DirectoryOK, CommandOK, FinishedOK, EndOK
<1>4. ListingOK'
  BY <1>1, <1>2 DEF PickupInv, ListingOK
<1>5. Report(reading, b).file = reading
  BY DEF Report
<1>6. SettledOK'
  <2>1. SUFFICES ASSUME ~no_ext, NEW g \in settled \ refused
                 PROVE  /\ g \in PickupFiles /\ g \in listed
                        /\ (Unread(g) \/ BeingRead(g) \/ PickedUp(g))'
    BY <1>1 DEF SettledOK
  <2>2. g \in PickupFiles /\ g \in listed /\ (Unread(g) \/ BeingRead(g) \/ PickedUp(g))
    BY <1>1, <2>1 DEF PickupInv, SettledOK
  <2> DEFINE r == Report(reading, b)
  <2>3. \/ ext_sent' = ext_sent
        \/ /\ Len(ext_sent') = Len(ext_sent) + 1 /\ Len(ext_sent) \in Nat
           /\ \A k \in 1 .. Len(ext_sent) : ext_sent'[k] = ext_sent[k]
           /\ ext_sent'[Len(ext_sent) + 1] = r
    BY <1>1, <1>2
  <2> HIDE DEF r
  <2>4. ASSUME g # reading
        PROVE  /\ NotReported(g) => NotReported(g)'
               /\ ReportedOnce(g) => ReportedOnce(g)'
    <3>1. r.file # g
      BY <1>5, <2>4 DEF r
    <3>2. NotReported(g) => NotReported(g)'
      BY <2>3, <3>1 DEF NotReported
    <3>3. ReportedOnce(g) => ReportedOnce(g)'
      BY <2>3, <3>1 DEF ReportedOnce
    <3>4. QED BY <3>2, <3>3
  <2>5. CASE Unread(g)
    <3>1. g # reading
      BY <1>2, <2>5 DEF Unread
    <3>2. Unread(g)'
      BY <1>1, <2>4, <2>5, <3>1 DEF Unread, Whole
    <3>3. QED BY <2>2, <3>2
  <2>6. CASE BeingRead(g)
    <3>1. g = reading /\ b = Fits(g) /\ b # <<>> /\ NotReported(g)
      <4>1. content[g] \in Seq({"color", "text"})
        BY <2>2 DEF PickupInv, DirectoryOK
      <4>2. QED BY <2>6, <4>1, ReadFacts DEF BeingRead
    <3>2. /\ Len(ext_sent') = Len(ext_sent) + 1 /\ Len(ext_sent) \in Nat
          /\ \A k \in 1 .. Len(ext_sent) : ext_sent'[k] = ext_sent[k]
          /\ ext_sent'[Len(ext_sent) + 1] = Report(g, Fits(g))
      BY <1>1, <1>2, <3>1
    <3>3. ReportedOnce(g)'
      BY <3>1, <3>2 DEF ReportedOnce, NotReported
    <3>4. PickedUp(g)'
      BY <1>1, <1>2, <3>1, <3>3 DEF PickedUp
    <3>5. QED BY <2>2, <3>4
  <2>7. CASE PickedUp(g)
    <3>1. g # reading
      BY <1>1, <2>7 DEF PickedUp
    <3>2. PickedUp(g)'
      BY <1>1, <2>4, <2>7, <3>1 DEF PickedUp
    <3>3. QED BY <2>2, <3>2
  <2>8. QED BY <2>2, <2>5, <2>6, <2>7
<1>7. QED BY <1>3, <1>4, <1>6 DEF PickupInv

(* A report names the file it was made of.                                 *)
LEMMA ReportNamesFile == ASSUME NEW f, NEW pieces PROVE Report(f, pieces).file = f
BY DEF Report

(* The listing ends, and the call.                                         *)
LEMMA PickupEndStep == ASSUME PickupInv, PickupEnd \/ ExtReturn PROVE PickupInv'
<1>1. CASE PickupEnd
  <2>1. /\ ext_pc = "pickup" /\ ext_pc' = "end" /\ PickupDone
        /\ UNCHANGED <<command, no_ext, ext_files, ext_agent, finished, settled>>
    BY <1>1 DEF PickupEnd
  <2>2. DirectoryOK' /\ CommandOK' /\ FinishedOK' /\ ListingOK'
    BY <2>1 DEF ext_files, ext_agent, PickupInv, DirectoryOK, CommandOK, FinishedOK, ListingOK
  <2>3. ~no_ext => \A f \in settled \ refused : /\ f \in PickupFiles /\ f \in listed
                                                /\ Unread(f) \/ PickedUp(f)
    BY <2>1 DEF PickupInv, SettledOK, BeingRead
  <2>4. \A f \in PickupFiles :
          /\ Unread(f)' <=> Unread(f)
          /\ PickedUp(f) => PickedUp(f)'
    BY <2>1 DEF ext_files, ext_agent, Unread, PickedUp, Whole, NotReported, ReportedOnce
  <2>5. SettledOK'
    BY <2>1, <2>3, <2>4 DEF SettledOK, ext_agent
  <2>6. EndOK'
    BY <2>1, <2>3 DEF EndOK, PickupDone, Unread, Whole, PickedUp, ext_agent
  <2>7. QED BY <2>2, <2>5, <2>6 DEF PickupInv
<1>2. CASE ExtReturn
  <2>1. /\ ext_pc' = "idle" /\ ext_sent' = <<>> /\ refused' = {}
        /\ UNCHANGED <<command, no_ext, ext_files, found, reading, b, listed, finished, settled>>
    BY <1>2 DEF ExtReturn
  <2>2. QED
    BY <2>1 DEF ext_files, PickupInv, DirectoryOK, CommandOK, FinishedOK, ListingOK, SettledOK,
       EndOK
<1>3. QED BY <1>1, <1>2

(* Every complete file that nobody touches and the system lets the agent   *)
(* open is reported once, as far as it fits, and is gone unless the system *)
(* refused to remove it.                                                   *)
THEOREM FilesPickedUpOnce == ExtSpec => []PickedUpOnce
<1>1. ExtInit => PickupInv
  BY DEF ExtInit, PickupInv, DirectoryOK, CommandOK, FinishedOK, ListingOK, SettledOK, EndOK
<1>2. PickupInv /\ [ExtNext]_ext_vars => PickupInv'
  <2> SUFFICES ASSUME PickupInv, [ExtNext]_ext_vars PROVE PickupInv'
    OBVIOUS
  <2>1. CASE ExtNext
    BY <2>1, OtherWritesStep, CommandStep, StartPickupStep, PickupOpenStep, PickupSendStep,
       PickupEndStep DEF ExtNext
  <2>2. CASE UNCHANGED ext_vars
    <3>1. UNCHANGED <<ext_pc, command, no_ext, ext_files, ext_agent, finished, settled>>
      BY <2>2 DEF ext_vars, ext_files, ext_agent
    <3>2. DirectoryOK' /\ CommandOK' /\ FinishedOK' /\ ListingOK' /\ EndOK'
      BY <3>1 DEF ext_files, ext_agent, PickupInv, DirectoryOK, CommandOK, FinishedOK, ListingOK,
         EndOK
    <3>3. SettledOK'
      BY <3>1 DEF ext_files, ext_agent, PickupInv, SettledOK, Unread, BeingRead, PickedUp, Whole,
         NotReported, ReportedOnce
    <3>4. QED BY <3>2, <3>3 DEF PickupInv
  <2>3. QED BY <2>1, <2>2
<1>3. PickupInv => PickedUpOnce
  <2> SUFFICES ASSUME PickupInv, ext_pc = "end", ~no_ext, NEW f \in settled \ refused
               PROVE  LET mine == {k \in 1 .. Len(ext_sent) : ext_sent[k].file = f}
                      IN /\ Cardinality(mine) = 1
                         /\ \A k \in mine : IsReportOf(ext_sent[k], f)
                         /\ f \in exists => f \in stuck
    BY DEF PickedUpOnce
  <2> DEFINE mine == {k \in 1 .. Len(ext_sent) : ext_sent[k].file = f}
  <2>1. f \in found /\ (Unread(f) \/ BeingRead(f) \/ PickedUp(f))
    BY DEF PickupInv, SettledOK, EndOK
  <2>2. (f \in exists => f \in stuck) /\ ReportedOnce(f)
    BY <2>1 DEF Unread, BeingRead, PickedUp
  <2>3. PICK k \in 1 .. Len(ext_sent) :
          /\ ext_sent[k] = Report(f, Fits(f))
          /\ \A j \in 1 .. Len(ext_sent) : ext_sent[j].file = f => j = k
    BY <2>2 DEF ReportedOnce
  <2>4. mine = {k}
    <3>1. ext_sent[k].file = f
      BY <2>3, ReportNamesFile
    <3>2. k \in mine /\ \A j \in mine : j = k
      BY <2>3, <3>1
    <3>3. QED BY <3>2
  <2>5. Cardinality(mine) = 1
    BY <2>4, FS_Singleton
  <2>6. QED BY <2>2, <2>3, <2>4, <2>5 DEF IsReportOf
<1>4. QED BY <1>1, <1>2, <1>3, PTL DEF ExtSpec

-----------------------------------------------------------------------------
(* What the code makes of line k of a section for the test t, whether it   *)
(* finds that met by what runs, and what it has to say of a machine when   *)
(* the lines behind n have been judged.                                   *)
EntryOf(t, sect, k) == IF t = "procs" THEN ProcEntry(sect[k]) ELSE SvcEntry(sect, k)

Met(t, list, sect, k) ==
  (IF t = "procs" THEN count(list, sect[k].name) ELSE status(list, sect, sect[k].name))
    \in EntryOf(t, sect, k).wanted

Fails(t, list, sect, m, n) ==
  \/ \E k \in n + 1 .. Len(sect) : MachineOf(sect[k]) = m /\ ~Met(t, list, sect, k)
  \/ t = "svcs" /\ Mixed(sect) /\ m = OwnMachine

Verdict(t, list, sect, m, n) ==
  [machine |-> m, color |-> IF Fails(t, list, sect, m, n) THEN "red" ELSE "green"]

MachinesFrom(sect, n) ==
  {OwnMachine} \union {MachineOf(sect[k]) : k \in n + 1 .. Len(sect)}

Verdicts(t, list, sect, n) ==
  {Verdict(t, list, sect, m, n) : m \in MachinesFrom(sect, n)}

Reporting(sect) == [machine : MachinesFrom(sect, 0), color : {"green", "red"}]

(* The reports of a list.                                                  *)
Told(s) == {s[k] : k \in 1 .. Len(s)}

(* No two of them are for the same machine.                                *)
OneEach(s) == \A j, k \in 1 .. Len(s) : s[j].machine = s[k].machine => j = k

(* Which section and which list a call works on; what stands while lines   *)
(* are judged, while reports are sent, and when the call has ended.        *)
InvTyped ==
  /\ inv_pc \in {"idle", "lines", "send"}
  /\ got => \/ test = "procs" /\ section \in ProcLines /\ running \in ProcessLists
            \/ test = "svcs" /\ section \in SvcLines

LinesOK ==
  inv_pc = "lines" /\ got =>
    /\ config \in Seq({EntryOf(test, section, k) : k \in 1 .. Len(section)})
    /\ Len(config) <= Len(section)
    /\ \A k \in 1 .. Len(config) : config[k] = EntryOf(test, section, Len(config) + 1 - k)
    /\ reports \in Seq(Reporting(section))
    /\ Told(reports) = Verdicts(test, running, section, Len(config))
    /\ OneEach(reports)
    /\ inv_sent = <<>>

SendingOK ==
  inv_pc = "send" /\ got =>
    /\ reports \in Seq(Reporting(section))
    /\ inv_sent \in Seq(Reporting(section))
    /\ Told(inv_sent) \union Told(reports) = Verdicts(test, running, section, 0)
    /\ OneEach(reports)
    /\ OneEach(inv_sent)
    /\ \A j \in 1 .. Len(inv_sent), k \in 1 .. Len(reports) :
         inv_sent[j].machine # reports[k].machine

IdleOK ==
  inv_pc = "idle" /\ got =>
    Told(inv_sent) = Verdicts(test, running, section, 0) /\ OneEach(inv_sent)

InventoryInv == InvTyped /\ LinesOK /\ SendingOK /\ IdleOK

AnyLine == [name : DOMAIN Fold, quoted : BOOLEAN, nums : Seq(Int),
            machine : {NoMachine} \union DOMAIN Comma]

(* The lists of configuration lines are built backwards.                  *)
LEMMA ReadBackwards ==
  ASSUME NEW s, Len(s) \in Nat
  PROVE  LET r == Backwards(s)
         IN /\ Len(r) = Len(s)
            /\ \A k \in 1 .. Len(s) : r[k] = s[Len(s) + 1 - k]
            /\ \A S : (\A k \in 1 .. Len(s) : s[k] \in S) => r \in Seq(S)
<1> DEFINE r == Backwards(s)
<1>1. r = [k \in 1 .. Len(s) |-> s[Len(s) + 1 - k]]
  BY DEF Backwards
<1>2. ASSUME NEW S, \A k \in 1 .. Len(s) : s[k] \in S
      PROVE  r \in Seq(S)
  <2>1. \A k \in 1 .. Len(s) : Len(s) + 1 - k \in 1 .. Len(s)
    OBVIOUS
  <2>2. r \in [1 .. Len(s) -> S]
    BY <1>1, <1>2, <2>1
  <2>3. QED BY <2>2
<1>3. r \in Seq({s[k] : k \in 1 .. Len(s)})
  BY <1>2
<1>4. Len(r) = Len(s)
  BY <1>1, <1>3
<1>5. QED BY <1>1, <1>2, <1>4

(* One more line is judged.                                                *)
LEMMA OneMore ==
  ASSUME NEW t, NEW list, NEW sect, Len(sect) \in Nat, NEW n \in 1 .. Len(sect)
  PROVE  /\ MachinesFrom(sect, n - 1) = MachinesFrom(sect, n) \union {MachineOf(sect[n])}
         /\ \A m : Fails(t, list, sect, m, n - 1) <=>
                    \/ Fails(t, list, sect, m, n)
                    \/ m = MachineOf(sect[n]) /\ ~Met(t, list, sect, n)
<1>1. n - 1 + 1 .. Len(sect) = {n} \union (n + 1 .. Len(sect))
  OBVIOUS
<1>2. MachinesFrom(sect, n - 1) = MachinesFrom(sect, n) \union {MachineOf(sect[n])}
  BY <1>1 DEF MachinesFrom
<1>3. ASSUME NEW m
      PROVE  Fails(t, list, sect, m, n - 1) <=>
               \/ Fails(t, list, sect, m, n)
               \/ m = MachineOf(sect[n]) /\ ~Met(t, list, sect, n)
  BY <1>1 DEF Fails
<1>4. QED BY <1>2, <1>3

(* Two sets of values are the same when each value of one is one of the   *)
(* other.                                                                  *)
LEMMA SameValues ==
  ASSUME NEW f, NEW S, NEW T, \A k \in S : f[k] \in T, \A v \in T : \E k \in S : f[k] = v
  PROVE  {f[k] : k \in S} = T
OBVIOUS

(* A report is taken for the line: what stands then is what is to be said  *)
(* with that line judged as well.                                          *)
LEMMA LineTaken ==
  ASSUME NEW t, NEW list, NEW sect, Len(sect) \in Nat, NEW n \in 1 .. Len(sect),
         NEW sofar \in Seq(Reporting(sect)), Told(sofar) = Verdicts(t, list, sect, n),
         OneEach(sofar),
         NEW taken, taken = TakeLine(sofar, MachineOf(sect[n]), Met(t, list, sect, n))
  PROVE  /\ taken \in Seq(Reporting(sect))
         /\ Told(taken) = Verdicts(t, list, sect, n - 1)
         /\ OneEach(taken)
<1> DEFINE M == MachineOf(sect[n])
           met == Met(t, list, sect, n)
           mine == {k \in 1 .. Len(sofar) : sofar[k].machine = M}
           said == [machine |-> M, color |-> IF met THEN "green" ELSE "red"]
           Then(r) == IF r.machine = M /\ ~met
                      THEN [machine |-> M, color |-> "red"] ELSE r
<1>1. M \in MachinesFrom(sect, 0)
  BY DEF MachinesFrom
<1>2. \A m : /\ Verdict(t, list, sect, m, n).machine = m
             /\ m # M => Verdict(t, list, sect, m, n - 1) = Verdict(t, list, sect, m, n)
             /\ Verdict(t, list, sect, m, n - 1) = Then(Verdict(t, list, sect, m, n))
  <2> SUFFICES ASSUME NEW m
      PROVE  /\ Verdict(t, list, sect, m, n).machine = m
             /\ m # M => Verdict(t, list, sect, m, n - 1) = Verdict(t, list, sect, m, n)
             /\ Verdict(t, list, sect, m, n - 1) = Then(Verdict(t, list, sect, m, n))
    OBVIOUS
  <2>1. Fails(t, list, sect, m, n - 1) <=> Fails(t, list, sect, m, n) \/ (m = M /\ ~met)
    BY OneMore
  <2> HIDE DEF M, met
  <2>2. QED BY <2>1 DEF Verdict
<1>3. CASE mine = {}
  <2>1. taken = <<said>> \o sofar /\ said \in Reporting(sect)
    BY <1>1, <1>3 DEF TakeLine, Reporting
  <2>2. M \notin MachinesFrom(sect, n)
    <3>1. \A m \in MachinesFrom(sect, n) : \E k \in 1 .. Len(sofar)  :
            sofar[k] = Verdict(t, list, sect, m, n)
      BY DEF Verdicts, Told
    <3>2. QED BY <1>2, <1>3, <3>1
  <2>3. ~Fails(t, list, sect, M, n)
    BY <2>2 DEF Fails, MachinesFrom
  <2>4. Verdict(t, list, sect, M, n - 1) = said
    BY <2>3, OneMore DEF Verdict
  <2>5. Verdicts(t, list, sect, n - 1) = {said} \union Verdicts(t, list, sect, n)
    <3>1. MachinesFrom(sect, n - 1) = MachinesFrom(sect, n) \union {M}
      BY OneMore
    <3>2. \A m \in MachinesFrom(sect, n) :
            Verdict(t, list, sect, m, n - 1) = Verdict(t, list, sect, m, n)
      BY <1>2, <2>2
    <3> HIDE DEF M, said
    <3>3. QED BY <2>4, <3>1, <3>2 DEF Verdicts
  <2>6. /\ taken \in Seq(Reporting(sect))
        /\ Len(taken) = Len(sofar) + 1 /\ taken[1] = said
        /\ \A k \in 1 .. Len(sofar) : taken[k + 1] = sofar[k]
    BY <2>1
  <2>7. Told(taken) = {said} \union Told(sofar)
    <3> DEFINE T == {said} \union Told(sofar)
    <3>1. \A k \in 1 .. Len(taken) :
            k = 1 \/ (k - 1 \in 1 .. Len(sofar) /\ taken[k] = sofar[k - 1])
      BY <2>6
    <3>2. 1 \in 1 .. Len(taken) /\ \A k \in 1 .. Len(sofar) : k + 1 \in 1 .. Len(taken)
      BY <2>6
    <3>3. \A k \in 1 .. Len(taken) : taken[k] \in T
      BY <2>6, <3>1 DEF Told
    <3>4. \A v \in T : \E k \in 1 .. Len(taken) : taken[k] = v
      BY <2>6, <3>2 DEF Told
    <3> HIDE DEF T
    <3>5. Told(taken) = T
      BY <3>3, <3>4, SameValues DEF Told
    <3>6. QED BY <3>5 DEF T
  <2>8. OneEach(taken)
    <3>1. \A k \in 1 .. Len(sofar) : sofar[k].machine # M
      BY <1>3
    <3>2. \A k \in 1 .. Len(taken) :
            \/ k = 1 /\ taken[k].machine = M
            \/ k - 1 \in 1 .. Len(sofar) /\ taken[k] = sofar[k - 1]
      BY <2>6
    <3>3. ASSUME NEW j \in 1 .. Len(taken), NEW k \in 1 .. Len(taken),
                 taken[j].machine = taken[k].machine
          PROVE  j = k
      <4>1. CASE j = 1 \/ k = 1
        BY <3>1, <3>2, <3>3, <4>1
      <4>2. CASE j # 1 /\ k # 1
        <5>1. sofar[j - 1].machine = sofar[k - 1].machine
          BY <3>2, <3>3, <4>2
        <5>2. j - 1 = k - 1
          BY <3>2, <4>2, <5>1 DEF OneEach
        <5>3. QED BY <5>2
      <4>3. QED BY <4>1, <4>2
    <3>4. QED BY <3>3 DEF OneEach
  <2>9. QED BY <2>5, <2>6, <2>7, <2>8
<1>4. CASE mine # {}
  <2>1. taken = [k \in 1 .. Len(sofar) |->
                   IF k \in mine /\ ~met THEN [sofar[k] EXCEPT !.color = "red"]
                   ELSE sofar[k]]
    BY <1>4 DEF TakeLine
  <2>2. M \in MachinesFrom(sect, n)
    <3>1. PICK k \in 1 .. Len(sofar) : sofar[k].machine = M
      BY <1>4
    <3>2. sofar[k] \in Verdicts(t, list, sect, n)
      BY DEF Told
    <3>3. PICK m \in MachinesFrom(sect, n) : sofar[k] = Verdict(t, list, sect, m, n)
      BY <3>2 DEF Verdicts
    <3>4. QED BY <1>2, <3>1, <3>3
  <2>3. MachinesFrom(sect, n - 1) = MachinesFrom(sect, n)
    <3>1. MachinesFrom(sect, n - 1) = MachinesFrom(sect, n) \union {M}
      BY OneMore
    <3> HIDE DEF M
    <3>2. QED BY <2>2, <3>1
  <2>4. Verdicts(t, list, sect, n - 1) = {Then(r) : r \in Verdicts(t, list, sect, n)}
    BY <1>2, <2>3 DEF Verdicts
  <2>5. \A k \in 1 .. Len(sofar) : taken[k] = Then(sofar[k]) /\ taken[k] \in Reporting(sect)
    <3> SUFFICES ASSUME NEW k \in 1 .. Len(sofar)
                 PROVE  taken[k] = Then(sofar[k]) /\ taken[k] \in Reporting(sect)
      OBVIOUS
    <3>1. sofar[k] \in Reporting(sect)
      OBVIOUS
    <3>2. taken[k] = IF sofar[k].machine = M /\ ~met
                     THEN [sofar[k] EXCEPT !.color = "red"] ELSE sofar[k]
      BY <2>1
    <3>3. [sofar[k] EXCEPT !.color = "red"] =
            [machine |-> sofar[k].machine, color |-> "red"]
      BY <3>1 DEF Reporting
    <3>4. QED BY <1>1, <3>1, <3>2, <3>3 DEF Reporting
  <2>6. taken \in Seq(Reporting(sect)) /\ Len(taken) = Len(sofar)
    BY <2>1, <2>5
  <2>7. Told(taken) = {Then(r) : r \in Told(sofar)}
    <3> DEFINE T == {Then(r) : r \in Told(sofar)}
    <3>1. \A k \in 1 .. Len(taken) : taken[k] \in T
      BY <2>5, <2>6 DEF Told
    <3>2. \A v \in T : \E k \in 1 .. Len(taken) : taken[k] = v
      BY <2>5, <2>6 DEF Told
    <3> HIDE DEF T
    <3>3. Told(taken) = T
      BY <3>1, <3>2, SameValues DEF Told
    <3>4. QED BY <3>3 DEF T
  <2>8. OneEach(taken)
    <3>1. \A k \in 1 .. Len(sofar) : taken[k].machine = sofar[k].machine
      BY <2>5
    <3>2. QED BY <2>6, <3>1 DEF OneEach
  <2>9. QED BY <2>4, <2>6, <2>7, <2>8
<1>5. QED BY <1>3, <1>4

(* The sections as they may be.                                            *)
LEMMA SectionFacts ==
  ASSUME InvTyped, got
  PROVE  /\ section \in Seq(AnyLine) /\ Len(section) \in Nat
         /\ test = "procs" => \A k \in 1 .. Len(section) : Len(section[k].nums) <= 2
         /\ test = "svcs" => \A k \in 1 .. Len(section) :
              /\ Len(section[k].nums) <= 1
              /\ section[k].machine # NoMachine => Len(section[k].nums) = 1
<1>1. section \in Seq(AnyLine) /\ Len(section) \in Nat
  <2>1. section \in ProcLines \union SvcLines
    BY DEF InvTyped
  <2>2. section \in Seq(AnyLine)
    BY <2>1, InventoryAssumption DEF AnyLine
  <2>3. QED BY <2>2
<1>2. CASE test = "procs"
  <2>1. section \in ProcLines
    BY <1>2 DEF InvTyped
  <2>2. \A k \in 1 .. Len(section) : Len(section[k].nums) <= 2
    BY <2>1, InventoryAssumption
  <2>3. QED BY <1>1, <1>2, <2>2
<1>3. CASE test = "svcs"
  <2>1. section \in SvcLines
    BY <1>3 DEF InvTyped
  <2>2. ASSUME NEW k \in 1 .. Len(section)
        PROVE  /\ Len(section[k].nums) <= 1
               /\ section[k].machine # NoMachine => Len(section[k].nums) = 1
    BY <2>1, InventoryAssumption
  <2>3. test # "procs"
    BY <1>3
  <2>4. QED BY <1>1, <2>2, <2>3
<1>4. QED BY <1>1, <1>2, <1>3 DEF InvTyped

(* The numbers and the machine a line gives.                               *)
LEMMA LineFacts ==
  ASSUME NEW line \in AnyLine
  PROVE  /\ line.quoted \in BOOLEAN
         /\ line.nums = <<>> \/ Len(line.nums) > 0
         /\ Len(line.nums) \in Nat
         /\ Given(line) \in Nat
         /\ Given(line) = 0 <=> line.nums = <<>> /\ line.machine = NoMachine
<1> DEFINE nums == line.nums
<1>1. line.quoted \in BOOLEAN /\ nums \in Seq(Int)
  BY DEF AnyLine
<1> HIDE DEF nums
<1>2. PICK n \in Nat : n = Len(nums)
  BY <1>1
<1>3. (nums = <<>> => n = 0) /\ (nums # <<>> => n > 0)
  BY <1>1, <1>2
<1>4. Given(line) = n + (IF line.machine = NoMachine THEN 0 ELSE 1)
  BY <1>2 DEF Given, nums
<1>5. Given(line) \in Nat /\ (Given(line) = 0 <=> n = 0 /\ line.machine = NoMachine)
  <2>1. CASE line.machine = NoMachine
    <3>1. Given(line) = n
      BY <1>4, <2>1
    <3>2. QED BY <2>1, <3>1
  <2>2. CASE line.machine # NoMachine
    <3>1. Given(line) = n + 1
      BY <1>4, <2>2
    <3>2. QED BY <2>2, <3>1
  <2>3. QED BY <2>1, <2>2
<1>6. QED BY <1>1, <1>2, <1>3, <1>5 DEF nums

(* How many items there are for a line that has something of its own.      *)
LEMMA ItemsOfLine ==
  ASSUME NEW sect \in Seq(AnyLine), NEW k \in 1 .. Len(sect)
  PROVE  /\ Given(sect[k]) \in Nat
         /\ (~sect[k].quoted \/ Given(sect[k]) > 0)
              => Items(sect, k) = Given(sect[k]) + (IF sect[k].quoted THEN 0 ELSE 1)
<1> DEFINE scanned == {j \in 1 .. k : ~sect[j].quoted \/ Given(sect[j]) > 0}
           last == CHOOSE j \in scanned : \A h \in scanned : h <= j
<1>1. Given(sect[k]) \in Nat
  <2>1. sect[k] \in AnyLine
    OBVIOUS
  <2>2. QED BY <2>1, LineFacts
<1>2. ASSUME ~sect[k].quoted \/ Given(sect[k]) > 0
      PROVE  Items(sect, k) = Given(sect[k]) + (IF sect[k].quoted THEN 0 ELSE 1)
  <2>1. k \in scanned /\ \A h \in scanned : h <= k
    BY <1>2
  <2>2. last \in scanned /\ \A h \in scanned : h <= last
    BY <2>1
  <2>3. last = k
    BY <2>1, <2>2
  <2> HIDE DEF scanned
  <2>4. Items(sect, k) = IF scanned = {} THEN 0
                          ELSE Given(sect[last]) + (IF sect[last].quoted THEN 0 ELSE 1)
    BY DEF Items, scanned
  <2>5. QED BY <2>1, <2>3, <2>4
<1>3. QED BY <1>1, <1>2

(* Where no line is misread, the code judges each as the sample explains.  *)
LEMMA JudgedAsAsked ==
  ASSUME InvTyped, got, NEW k \in 1 .. Len(section), ~Misread(k), ~Hidden(k),
         test = "procs" => Len(running) <= MaxProcesses
  PROVE  Met(test, running, section, k) <=> Answer(k) \in Asked(k)
<1>1. /\ section \in Seq(AnyLine) /\ section[k] \in AnyLine
  <2>1. section \in Seq(AnyLine)
    BY SectionFacts
  <2>2. QED BY <2>1
<1>2. CASE test = "procs"
  <2>1. EntryOf(test, section, k).wanted = Asked(k)
    <3> DEFINE nums == section[k].nums
    <3>1. PICK n \in Nat : n = Len(nums) /\ n <= 2 /\ (nums = <<>> \/ n > 0)
      BY <1>1, <1>2, SectionFacts, LineFacts
    <3>2. /\ EntryOf(test, section, k).wanted = (IF n < 1 THEN 1 ELSE nums[1]) ..
                (IF n < 2 THEN IF n < 1 THEN 1 ELSE nums[1] ELSE nums[2])
          /\ Asked(k) = IF nums = <<>> THEN {1} ELSE nums[1] .. nums[n]
      BY <1>2, <3>1 DEF EntryOf, ProcEntry, Asked
    <3> HIDE DEF nums
    <3>3. CASE n = 0
      <4>1. 1 .. 1 = {1} /\ nums = <<>>
        BY <3>1, <3>3
      <4>2. QED BY <3>2, <3>3, <4>1
    <3>4. CASE n \in {1, 2}
      <4>1. nums # <<>>
        <5>1. Len(<<>>) = 0
          OBVIOUS
        <5>2. QED BY <3>1, <3>4, <5>1
      <4>2. QED BY <3>2, <3>4, <4>1
    <3>5. QED BY <3>1, <3>3, <3>4
  <2>2. count(running, section[k].name) = Answer(k)
    <3> DEFINE name == Fold[section[k].name]
    <3>1. running \in Seq(Process) /\ MaxProcesses \in Nat
      BY <1>2, InventoryAssumption DEF InvTyped
    <3>2. \A j \in 1 .. Len(running) : j <= MaxProcesses
      BY <1>2, <3>1
    <3>3. \A j \in 1 .. Len(running) : Fold[Seen(running[j])] = name <=>
                                        Fold[running[j].name] = name
      <4> SUFFICES ASSUME NEW j \in 1 .. Len(running)
                   PROVE  Fold[Seen(running[j])] = name <=> Fold[running[j].name] = name
        OBVIOUS
      <4>1. CASE running[j].opens
        BY <4>1 DEF Seen
      <4>2. CASE ~running[j].opens
        <5>1. name # Fold[running[j].name] /\ name # Fold[Unknown]
          BY <1>2, <4>2 DEF Hidden
        <5>2. Seen(running[j]) = Unknown
          BY <4>2 DEF Seen
        <5>3. QED BY <5>1, <5>2
      <4>3. QED BY <4>1, <4>2
    <3>4. {j \in 1 .. Len(running) : j <= MaxProcesses /\ Fold[Seen(running[j])] = name} =
            {j \in 1 .. Len(running) : Fold[running[j].name] = name}
      BY <3>2, <3>3
    <3>5. QED BY <1>2, <3>4 DEF count, Answer
  <2>3. QED BY <1>2, <2>1, <2>2 DEF Met
<1>3. CASE test = "svcs"
  <2>1. EntryOf(test, section, k).wanted = Asked(k)
    <3> DEFINE nums == section[k].nums
    <3>1. section[k].machine # NoMachine => nums # <<>>
      <4>1. section[k].machine # NoMachine => Len(nums) = 1
        BY <1>3, SectionFacts
      <4>2. Len(<<>>) = 0
        OBVIOUS
      <4>3. QED BY <4>1, <4>2
    <3>2. Given(section[k]) = 0 <=> nums = <<>>
      BY <1>1, <3>1, LineFacts, Zenon
    <3>3. Items(section, k) < (IF section[k].quoted THEN 1 ELSE 2) <=> nums = <<>>
      <4>1. CASE section[k].quoted /\ nums = <<>>
        BY <1>3, <4>1 DEF Misread
      <4>2. CASE ~(section[k].quoted /\ nums = <<>>)
        <5>1. Given(section[k]) \in Nat /\ section[k].quoted \in BOOLEAN
          BY <1>1, LineFacts
        <5>2. ~section[k].quoted \/ Given(section[k]) > 0
          BY <3>2, <4>2, <5>1
        <5>3. Items(section, k) = Given(section[k]) + (IF section[k].quoted THEN 0 ELSE 1)
          BY <1>1, <5>2, ItemsOfLine
        <5>4. QED BY <3>2, <4>2, <5>1, <5>3
      <4>3. QED BY <4>1, <4>2
    <3>4. QED BY <1>3, <3>3 DEF EntryOf, SvcEntry, Asked
  <2>2. QED BY <1>3, <2>1 DEF Met, Answer
<1>4. QED BY <1>2, <1>3 DEF InvTyped

(* The state of a call, unchanged or new, under each step.                 *)
LEMMA InvDisabledStep == ASSUME InventoryInv, InvDisabled PROVE InventoryInv'
BY DEF InventoryInv, InvDisabled, InvTyped, LinesOK, SendingOK, IdleOK

(* Nothing is judged yet: the agent's own report, red for a mixture only.  *)
LEMMA InvBeginStep == ASSUME InventoryInv, Procs \/ Svcs PROVE InventoryInv'
<1> SUFFICES ASSUME got' = TRUE PROVE InventoryInv'
  BY DEF Procs, Svcs, InventoryInv, InvTyped, LinesOK, SendingOK, IdleOK
<1>1. /\ InvTyped' /\ inv_pc' = "lines" /\ inv_sent' = <<>> /\ test' \in {"procs", "svcs"}
      /\ section' \in Seq(AnyLine)
  BY InventoryAssumption DEF Procs, Svcs, InventoryInv, InvTyped, AnyLine
<1>2. Len(section') \in Nat
  BY <1>1
<1> DEFINE n == Len(section')
           entries == [k \in 1 .. n |-> EntryOf(test', section', k)]
<1>3. config' = Backwards(entries)
  BY DEF Procs, Svcs, read_proccfg, read_svccfg, EntryOf
<1>4. entries \in Seq({EntryOf(test', section', k) : k \in 1 .. n}) /\ Len(entries) = n
  BY <1>2
<1>5. /\ Len(config') = n /\ config' \in Seq({EntryOf(test', section', k) : k \in 1 .. n})
      /\ \A k \in 1 .. n : config'[k] = entries[n + 1 - k]
  BY <1>2, <1>3, <1>4, ReadBackwards
<1>6. \A k \in 1 .. n : config'[k] = EntryOf(test', section', n + 1 - k)
  <2>1. \A k \in 1 .. n : n + 1 - k \in 1 .. n
    BY <1>2
  <2>2. QED BY <1>5, <2>1
<1>7. reports' = <<Verdict(test', running', section', OwnMachine, n)>>
  <2>1. Fails(test', running', section', OwnMachine, n) <=> test' = "svcs" /\ Mixed(section')
    <3>1. (n + 1) .. Len(section') = {}
      BY <1>2
    <3>2. QED BY <3>1 DEF Fails
  <2>2. reports' = <<Own(IF test' = "svcs" /\ Mixed(section') THEN "red" ELSE "green")>>
    BY DEF Procs, Svcs
  <2>3. QED BY <2>1, <2>2 DEF Own, Verdict
<1>8. MachinesFrom(section', n) = {OwnMachine} /\ OwnMachine \in MachinesFrom(section', 0)
  <2>1. (n + 1) .. Len(section') = {}
    BY <1>2
  <2>2. QED BY <2>1 DEF MachinesFrom
<1>9. Verdicts(test', running', section', n) =
        {Verdict(test', running', section', OwnMachine, n)}
  BY <1>8 DEF Verdicts
<1>10. /\ reports' \in Seq(Reporting(section'))
       /\ Told(reports') = {Verdict(test', running', section', OwnMachine, n)}
       /\ OneEach(reports')
  BY <1>7, <1>8 DEF Told, Reporting, Verdict, OneEach
<1>11. LinesOK'
  BY <1>1, <1>2, <1>5, <1>6, <1>9, <1>10 DEF LinesOK
<1>12. QED BY <1>1, <1>11 DEF InventoryInv, SendingOK, IdleOK

(* A line is judged.                                                       *)
LEMMA InvLineStep == ASSUME InventoryInv, InvLine PROVE InventoryInv'
<1> SUFFICES ASSUME got = TRUE PROVE InventoryInv'
  BY DEF InvLine, InventoryInv, InvTyped, LinesOK, SendingOK, IdleOK
<1>1. /\ inv_pc = "lines" /\ inv_pc' = "lines" /\ config # <<>> /\ config' = Tail(config)
      /\ UNCHANGED <<test, running, got, inv_sent, section>>
  BY DEF InvLine
<1> DEFINE n == Len(config)
<1>2. /\ config \in Seq({EntryOf(test, section, k) : k \in 1 .. Len(section)})
      /\ n <= Len(section) /\ inv_sent = <<>>
      /\ \A k \in 1 .. n : config[k] = EntryOf(test, section, n + 1 - k)
      /\ reports \in Seq(Reporting(section))
      /\ Told(reports) = Verdicts(test, running, section, n)
      /\ OneEach(reports)
  BY <1>1 DEF InventoryInv, LinesOK
<1>3. Len(section) \in Nat /\ n \in 1 .. Len(section) /\ Len(config') = n - 1
  <2>1. Len(section) \in Nat
    BY SectionFacts DEF InventoryInv
  <2>2. n \in Nat \ {0} /\ Len(config') = n - 1
    BY <1>1, <1>2
  <2>3. QED BY <1>2, <2>1, <2>2
<1>4. Head(config) = EntryOf(test, section, n)
  BY <1>2, <1>3
<1>5. Head(config).machine = MachineOf(section[n]) /\ Head(config).name = section[n].name
  BY <1>4 DEF EntryOf, ProcEntry, SvcEntry
<1>6. reports' = TakeLine(reports, MachineOf(section[n]), Met(test, running, section, n))
  BY <1>4, <1>5 DEF InvLine, Met
<1>7. /\ reports' \in Seq(Reporting(section))
      /\ Told(reports') = Verdicts(test, running, section, n - 1)
      /\ OneEach(reports')
  <2>1. /\ reports \in Seq(Reporting(section))
        /\ Told(reports) = Verdicts(test, running, section, n)
        /\ OneEach(reports)
    BY <1>2
  <2> HIDE DEF n
  <2>2. QED BY <1>3, <1>6, <2>1, LineTaken
<1>8. /\ Reporting(section') = Reporting(section)
      /\ \A k : EntryOf(test', section', k) = EntryOf(test, section, k)
      /\ Verdicts(test', running', section', n - 1) = Verdicts(test, running, section, n - 1)
  BY <1>1 DEF Reporting, MachinesFrom, EntryOf, Verdicts, Verdict, Fails, Met
<1>9. Told(reports') = Verdicts(test', running', section', n - 1)
  BY <1>7, <1>8
<1>10. \A k \in 1 .. n - 1 : config'[k] = EntryOf(test, section, n - 1 + 1 - k)
  BY <1>1, <1>2, <1>3
<1>11. config' \in Seq({EntryOf(test, section, k) : k \in 1 .. Len(section)})
  BY <1>1, <1>2
<1>12. LinesOK'
  BY <1>1, <1>2, <1>3, <1>7, <1>8, <1>9, <1>10, <1>11 DEF LinesOK
<1>13. QED BY <1>1, <1>12 DEF InventoryInv, InvTyped, SendingOK, IdleOK

(* All lines are judged; the reports are sent.                             *)
LEMMA InvLinesDoneStep == ASSUME InventoryInv, InvLinesDone PROVE InventoryInv'
<1>1. /\ inv_pc = "lines" /\ config = <<>> /\ inv_pc' = "send"
      /\ UNCHANGED <<test, config, running, got, reports, inv_sent, section>>
  BY DEF InvLinesDone
<1>2. Len(config) = 0
  BY <1>1
<1>3. got => /\ reports \in Seq(Reporting(section)) /\ OneEach(reports) /\ inv_sent = <<>>
             /\ Told(reports) = Verdicts(test, running, section, 0)
  BY <1>1, <1>2 DEF InventoryInv, LinesOK
<1>4. /\ inv_sent = <<>> => Told(inv_sent) = {} /\ OneEach(inv_sent) /\ Len(inv_sent) = 0
      /\ <<>> \in Seq(Reporting(section))
  BY DEF Told, OneEach
<1>5. got => /\ inv_sent \in Seq(Reporting(section)) /\ OneEach(inv_sent)
             /\ Told(inv_sent) \union Told(reports) = Verdicts(test, running, section, 0)
             /\ Len(inv_sent) = 0
  BY <1>3, <1>4
<1>6. /\ got' = got /\ Reporting(section') = Reporting(section)
      /\ Verdicts(test', running', section', 0) = Verdicts(test, running, section, 0)
  BY <1>1 DEF Reporting, MachinesFrom, Verdicts, Verdict, Fails, Met, EntryOf
<1>7. SendingOK'
  BY <1>1, <1>3, <1>5, <1>6 DEF SendingOK, Told, OneEach
<1>8. QED BY <1>1, <1>7 DEF InventoryInv, InvTyped, LinesOK, IdleOK

LEMMA InvSendStep == ASSUME InventoryInv, InvSend PROVE InventoryInv'
<1> SUFFICES ASSUME got = TRUE PROVE InventoryInv'
  BY DEF InvSend, InventoryInv, InvTyped, LinesOK, SendingOK, IdleOK
<1>1. /\ inv_pc = "send" /\ reports # <<>>
      /\ inv_sent' = Append(inv_sent, Head(reports)) /\ reports' = Tail(reports)
      /\ inv_pc' = IF Len(reports) = 1 THEN "idle" ELSE "send"
      /\ UNCHANGED <<test, config, running, got, section>>
  BY DEF InvSend
<1>2. /\ reports \in Seq(Reporting(section)) /\ inv_sent \in Seq(Reporting(section))
      /\ Told(inv_sent) \union Told(reports) = Verdicts(test, running, section, 0)
      /\ OneEach(reports) /\ OneEach(inv_sent)
      /\ \A j \in 1 .. Len(inv_sent), k \in 1 .. Len(reports) :
           inv_sent[j].machine # reports[k].machine
  BY <1>1 DEF InventoryInv, SendingOK
<1>3. /\ Len(reports) \in Nat \ {0} /\ Len(reports') = Len(reports) - 1
      /\ Head(reports) = reports[1] /\ Head(reports) \in Reporting(section)
      /\ \A k \in 1 .. Len(reports) - 1 : reports'[k] = reports[k + 1]
      /\ reports' \in Seq(Reporting(section))
  BY <1>1, <1>2
<1>4. /\ Len(inv_sent) \in Nat /\ Len(inv_sent') = Len(inv_sent) + 1
      /\ inv_sent' \in Seq(Reporting(section))
      /\ inv_sent'[Len(inv_sent) + 1] = Head(reports)
      /\ \A k \in 1 .. Len(inv_sent) : inv_sent'[k] = inv_sent[k]
  BY <1>1, <1>2, <1>3
<1>5. Told(inv_sent') \union Told(reports') = Told(inv_sent) \union Told(reports)
  <2>1. Told(reports) = {Head(reports)} \union Told(reports')
    <3> DEFINE T == {Head(reports)} \union Told(reports')
    <3>1. \A k \in 1 .. Len(reports) :
            k = 1 \/ (k - 1 \in 1 .. Len(reports') /\ reports'[k - 1] = reports[k])
      BY <1>3
    <3>2. \A j \in 1 .. Len(reports') :
            j + 1 \in 1 .. Len(reports) /\ reports[j + 1] = reports'[j]
      BY <1>3
    <3>3. \A k \in 1 .. Len(reports) : reports[k] \in T
      BY <1>3, <3>1 DEF Told
    <3>4. \A v \in T : \E k \in 1 .. Len(reports) : reports[k] = v
      BY <1>3, <3>2 DEF Told
    <3> HIDE DEF T
    <3>5. Told(reports) = T
      BY <3>3, <3>4, SameValues DEF Told
    <3>6. QED BY <3>5 DEF T
  <2>2. Told(inv_sent') = Told(inv_sent) \union {Head(reports)}
    <3> DEFINE T == Told(inv_sent) \union {Head(reports)}
    <3>1. \A k \in 1 .. Len(inv_sent') : k \in 1 .. Len(inv_sent) \/ k = Len(inv_sent) + 1
      BY <1>4
    <3>2. \A k \in 1 .. Len(inv_sent') : inv_sent'[k] \in T
      BY <1>4, <3>1 DEF Told
    <3>3. \A v \in T : \E k \in 1 .. Len(inv_sent') : inv_sent'[k] = v
      BY <1>4 DEF Told
    <3> HIDE DEF T
    <3>4. Told(inv_sent') = T
      BY <3>2, <3>3, SameValues DEF Told
    <3>5. QED BY <3>4 DEF T
  <2>3. QED BY <2>1, <2>2
<1>6. /\ OneEach(reports') /\ OneEach(inv_sent')
      /\ \A j \in 1 .. Len(inv_sent'), k \in 1 .. Len(reports') :
           inv_sent'[j].machine # reports'[k].machine
  <2>1. \A k \in 1 .. Len(reports') :
          k + 1 \in 2 .. Len(reports) /\ reports'[k] = reports[k + 1]
    BY <1>3
  <2>2. \A k \in 1 .. Len(inv_sent') :
          \/ k \in 1 .. Len(inv_sent) /\ inv_sent'[k] = inv_sent[k]
          \/ k = Len(inv_sent) + 1 /\ inv_sent'[k] = reports[1]
    BY <1>3, <1>4
  <2>3. \A k \in 2 .. Len(reports) : reports[k].machine # reports[1].machine
    BY <1>2, <1>3 DEF OneEach
  <2>4. OneEach(reports')
    <3> SUFFICES ASSUME NEW j \in 1 .. Len(reports'), NEW k \in 1 .. Len(reports'),
                        reports'[j].machine = reports'[k].machine
                 PROVE  j = k
      BY DEF OneEach
    <3>1. j + 1 \in 1 .. Len(reports) /\ k + 1 \in 1 .. Len(reports)
      BY <2>1
    <3>2. reports[j + 1].machine = reports[k + 1].machine
      BY <2>1
    <3>3. j + 1 = k + 1
      BY <1>2, <3>1, <3>2 DEF OneEach
    <3>4. QED BY <3>3
  <2>5. \A k \in 1 .. Len(inv_sent) : inv_sent[k].machine # reports[1].machine
    BY <1>2, <1>3
  <2>6. OneEach(inv_sent')
    BY <1>2, <2>2, <2>5 DEF OneEach
  <2>7. ASSUME NEW j \in 1 .. Len(inv_sent'), NEW k \in 1 .. Len(reports')
        PROVE  inv_sent'[j].machine # reports'[k].machine
    <3>1. CASE j \in 1 .. Len(inv_sent) /\ inv_sent'[j] = inv_sent[j]
      <4>1. k + 1 \in 1 .. Len(reports)
        BY <2>1
      <4>2. QED BY <1>2, <2>1, <3>1, <4>1
    <3>2. CASE inv_sent'[j] = reports[1]
      BY <2>1, <2>3, <3>2
    <3>3. QED BY <2>2, <3>1, <3>2
  <2>8. QED BY <2>4, <2>6, <2>7
<1>7. /\ Reporting(section') = Reporting(section)
      /\ Verdicts(test', running', section', 0) = Verdicts(test, running, section, 0)
  BY <1>1 DEF Reporting, MachinesFrom, EntryOf, Verdicts, Verdict, Fails, Met
<1>8. Len(reports) = 1 => Told(reports') = {}
  BY <1>3 DEF Told
<1>9. Told(inv_sent') \union Told(reports') = Verdicts(test', running', section', 0)
  BY <1>2, <1>5, <1>7
<1>10. SendingOK'
  BY <1>1, <1>3, <1>4, <1>6, <1>7, <1>9 DEF SendingOK, Told, OneEach
<1>11. IdleOK'
  BY <1>1, <1>6, <1>8, <1>9 DEF IdleOK, Told, OneEach
<1>12. QED BY <1>1, <1>10, <1>11 DEF InventoryInv, InvTyped, LinesOK

(* Every machine is told once whether its lines are met.                  *)
THEOREM EveryMachineJudged == InvSpec => []MachinesJudged
<1>1. InvInit => InventoryInv
  BY DEF InvInit, InventoryInv, InvTyped, LinesOK, SendingOK, IdleOK
<1>2. InventoryInv /\ [InvNext]_inv_vars => InventoryInv'
  <2> SUFFICES ASSUME InventoryInv, [InvNext]_inv_vars PROVE InventoryInv'
    OBVIOUS
  <2>1. CASE InvNext
    BY <2>1, InvDisabledStep, InvBeginStep, InvLineStep, InvLinesDoneStep, InvSendStep DEF InvNext
  <2>2. CASE UNCHANGED inv_vars
    BY <2>2 DEF inv_vars, InventoryInv, InvTyped, LinesOK, SendingOK, IdleOK, Told,
       OneEach
  <2>3. QED BY <2>1, <2>2
<1>3. InventoryInv => MachinesJudged
  <2> SUFFICES ASSUME InventoryInv, inv_pc = "idle", got,
                      test = "procs" => Len(running) <= MaxProcesses,
                      \A k \in 1 .. Len(section) : ~Misread(k) /\ ~Hidden(k)
               PROVE  /\ Told(inv_sent) =
                           {[machine |-> m,
                             color |-> IF \/ \E k \in 1 .. Len(section) :
                                               /\ MachineOf(section[k]) = m
                                               /\ Answer(k) \notin Asked(k)
                                          \/ test = "svcs" /\ Mixed(section) /\ m = OwnMachine
                                       THEN "red" ELSE "green"] :
                            m \in {OwnMachine} \union
                                  {MachineOf(section[k]) : k \in 1 .. Len(section)}}
                      /\ OneEach(inv_sent)
    BY DEF MachinesJudged, Told, OneEach
  <2>1. \A k \in 1 .. Len(section) : Met(test, running, section, k) <=> Answer(k) \in Asked(k)
    BY JudgedAsAsked DEF InventoryInv
  <2>2. Told(inv_sent) = Verdicts(test, running, section, 0) /\ OneEach(inv_sent)
    BY DEF InventoryInv, IdleOK
  <2>3. 0 + 1 = 1
    OBVIOUS
  <2>4. QED BY <2>1, <2>2, <2>3, Zenon DEF Verdicts, Verdict, Fails, MachinesFrom
<1>4. QED BY <1>1, <1>2, <1>3, PTL DEF InvSpec

-----------------------------------------------------------------------------
(* While no colour is given for the page, the colour is that of its        *)
(* bullets; and a bullet is red exactly when something asked for was       *)
(* missing or not met.                                                     *)
WmiInv ==
  /\ wm \in WmiSections \union {<<>>}
  /\ i \in Nat \ {0}
  /\ always = fixed
  /\ fixed = None => color = IF alarm THEN "red" ELSE "green"
  /\ alarm \in BOOLEAN
  /\ alarm <=> "red" \in report

LEMMA RedBullet ==
  ASSUME NEW op, NEW value \in Values
  PROVE  Bullet(op, value) = "red" <=> \/ value = "missing" /\ op # "none"
                                       \/ value = "fails" /\ op = "full"
BY DEF Bullet, Values

(* The rows of a query go on the page.                                     *)
Shown(rows) ==
  LET cells == DOMAIN rows
      bullets == {Bullet(fields[c[2]], rows[c]) : c \in cells}
  IN /\ report' = report \union bullets
     /\ color' = IF "red" \in bullets THEN "red" ELSE color
     /\ alarm' = (alarm \/ \E c \in cells :
                    \/ rows[c] = "missing" /\ fields[c[2]] # "none"
                    \/ rows[c] = "fails" /\ fields[c[2]] = "full")

LEMMA GoStep == ASSUME WmiInv, Go PROVE WmiInv'
<1> USE DEF WmiInv
<1>1. PICK n \in 0 .. (IF query THEN MaxRows ELSE 0) :
        \E rows \in [(1 .. n) \X DOMAIN fields -> Values] : Shown(rows)
  BY Zenon DEF Go, Shown
<1> PICK rows \in [(1 .. n) \X DOMAIN fields -> Values] : Shown(rows)
  BY <1>1
<1>2. UNCHANGED <<wm, always, fixed>> /\ i' = i + 1
  BY DEF Go, At
<1> DEFINE bullets == {Bullet(fields[c[2]], rows[c]) : c \in DOMAIN rows}
           Bad == \E c \in DOMAIN rows :
                    \/ rows[c] = "missing" /\ fields[c[2]] # "none"
                    \/ rows[c] = "fails" /\ fields[c[2]] = "full"
<1>3. "red" \in bullets <=> Bad
  <2>1. "red" \in bullets <=> \E c \in DOMAIN rows : Bullet(fields[c[2]], rows[c]) = "red"
    BY Zenon
  <2>2. ASSUME NEW c \in DOMAIN rows PROVE rows[c] \in Values
    BY Zenon
  <2>3. QED BY <2>1, <2>2, RedBullet, Zenon
<1>4. /\ report' = report \union bullets
      /\ color' = IF "red" \in bullets THEN "red" ELSE color
      /\ alarm' = (alarm \/ Bad)
  BY Zenon DEF Shown
<1>5. Bad \in BOOLEAN
  BY Zenon
<1> HIDE DEF bullets, Bad
<1>6. alarm' \in BOOLEAN /\ (alarm' <=> "red" \in report')
  BY <1>3, <1>4, <1>5
<1>7. fixed = None => color' = IF alarm' THEN "red" ELSE "green"
  BY <1>3, <1>4, <1>5
<1>8. QED BY <1>2, <1>6, <1>7

LEMMA AlwaysGivesColor == ASSUME WmiInv, Always PROVE wm[i].value # None
BY WmiAssumption DEF WmiInv, Always, At

LEMMA WmiStep == ASSUME WmiInv, [WmNext]_wm_vars PROVE WmiInv'
<1> USE DEF WmiInv, At, wm_page
<1>1. CASE WmCall
  <2>1. color' = "green" /\ report' = {} /\ alarm' = FALSE
    BY <1>1, Zenon DEF WmCall
  <2>2. alarm' \in BOOLEAN /\ (alarm' <=> "red" \in report')
    BY <2>1, Zenon
  <2>3. color' = IF alarm' THEN "red" ELSE "green"
    BY <2>1, Zenon
  <2>4. QED BY <1>1, <2>2, <2>3 DEF WmCall
<1>2. CASE Always
  BY <1>2, AlwaysGivesColor DEF Always
<1>3. CASE Begin
  <2>1. color' = "green" /\ report' = {} /\ alarm' = FALSE
    BY <1>3, Zenon DEF Begin
  <2>2. alarm' \in BOOLEAN /\ (alarm' <=> "red" \in report')
    BY <2>1, Zenon
  <2>3. color' = IF alarm' THEN "red" ELSE "green"
    BY <2>1, Zenon
  <2>4. QED BY <1>3, <2>2, <2>3 DEF Begin
<1>4. CASE End
  BY <1>4 DEF End
<1>5. CASE Query \/ Field \/ Text
  BY <1>5 DEF Query, Field, Text
<1>6. CASE Go
  BY <1>6, GoStep
<1>7. CASE WmReturn
  BY <1>7 DEF WmReturn
<1>8. CASE UNCHANGED wm_vars
  BY <1>8 DEF wm_vars
<1>9. QED BY <1>1, <1>2, <1>3, <1>4, <1>5, <1>6, <1>7, <1>8 DEF WmNext

(* Only an end line sends, and it sends the page that is open, in its      *)
(* fixed colour or that of its bullets.                                    *)
LEMMA SentStep ==
  ASSUME WmiInv, [WmNext]_wm_vars, NEW k \in DOMAIN wm_sent', wm_sent' # wm_sent
  PROVE  /\ wm_sent'[k].page = page
         /\ wm_sent'[k].color = IF fixed # None THEN fixed
                                ELSE IF alarm THEN "red" ELSE "green"
         /\ alarm <=> "red" \in wm_sent'[k].bullets
<1>1. CASE End
  <2>1. wm_sent' = <<[page |-> page, color |-> color', bullets |-> report]>>
    BY <1>1 DEF End
  <2>2. k = 1
    BY <2>1
  <2>3. wm_sent'[k].page = page /\ wm_sent'[k].color = color' /\ wm_sent'[k].bullets = report
    BY <2>1, <2>2
  <2>4. color' = IF always # None THEN always ELSE color
    BY <1>1 DEF End
  <2>5. QED BY <2>3, <2>4 DEF WmiInv
<1>2. CASE wm_sent' = <<>>
  BY <1>2
<1>3. QED
  BY <1>1, <1>2
  DEF WmNext, wm_vars, WmCall, Always, Begin, Query, Field, Text, Go, WmReturn

(* A page that is sent has the colour its section fixed for it, or is red  *)
(* exactly when something asked for was missing or not met in any of its   *)
(* queries; nothing of an earlier page shows on it.                        *)
THEOREM PageShowsItsOwn == WmSpec => PageTellsAlarm
<1>1. WmInit => WmiInv
  <2> SUFFICES ASSUME WmInit PROVE WmiInv OBVIOUS
  <2>1. color = "green" /\ report = {} /\ alarm = FALSE
    BY Zenon DEF WmInit
  <2>2. alarm \in BOOLEAN /\ (alarm <=> "red" \in report)
    BY <2>1, Zenon
  <2>3. color = IF alarm THEN "red" ELSE "green"
    BY <2>1, Zenon
  <2>4. QED BY <2>2, <2>3 DEF WmInit, WmiInv
<1>2. WmiInv /\ [WmNext]_wm_vars
        => [\A k \in DOMAIN wm_sent' : wm_sent' # wm_sent =>
              /\ wm_sent'[k].page = page
              /\ wm_sent'[k].color = IF fixed # None THEN fixed
                                     ELSE IF alarm THEN "red" ELSE "green"
              /\ alarm <=> "red" \in wm_sent'[k].bullets]_wm_vars
  BY SentStep
<1>3. QED BY <1>1, <1>2, WmiStep, PTL DEF WmSpec, PageTellsAlarm

=============================================================================
