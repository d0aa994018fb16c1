------------------------------ MODULE MCAnalyze ------------------------------
(***************************************************************************)
(* What the graphs and tables of one analysis owe each other (see Analyze),*)
(* and the directories TLC hands to it: a run as fc_experiment.sh leaves   *)
(* it, and runs that lack one thing each.                                  *)
(***************************************************************************)
EXTENDS Analyze

After(step) ==
  LET order == <<"timeline", "idle_vs_active", "energy", "cpu_vs_power", "residuals",
                 "correlation", "pmu_scatter", "rapl_stack", "invocations", "report", "repeatability",
                 "comparison", "cross_run", "table", "cross_plot", "done">>
  IN  SelectInSeq(order, LAMBDA s : s = step) < SelectInSeq(order, LAMBDA s : s = pc)

\* What one graph makes the next one shows.  "Residuals of the linear cpu% baseline",
\* "for reuse in graph 6": the residuals are those of the fit graph 5 shows, made of the
\* same samples, and there are none without it.  "Strongest PMU feature vs power": what
\* graph 7 recommends graph 8 shows, a feature of the heatmap that is not the CPU usage.
HandedOn ==
  /\ After("residuals") => ("06" \in DOMAIN drawn <=> "05" \in DOMAIN drawn)
  /\ "06" \in DOMAIN drawn => /\ drawn["06"].fit = drawn["05"] /\ drawn["06"].of = drawn["05"]
                              /\ drawn["06b"].fit = drawn["06"].fit
  /\ After("pmu_scatter") =>
       /\ ("08" \in DOMAIN drawn <=> best # None)
       /\ best # None => /\ best \in drawn["07"] \ {"cpu_pct"}
                         /\ drawn["08"].feature = best /\ Len(drawn["08"].of) = Len(Points)

\* A distribution is named after the run it is of, whichever runs had to be left out:
\* by its directory in graph 3, by the label given for that directory in graph 10.  A
\* mean is listed beside its run as long as every run before it has values of that
\* metric (what becomes of the others is MeansNamed).
RunsNamed ==
  /\ \A m \in Metrics : \A j \in DOMAIN table[m] :
       (\A i \in 1..table[m][j].of : Values(m, Recorded[dirs[i]]) # <<>>) =>
         table[m][j].name = dirs[table[m][j].of]
  /\ \A g \in {"03", "10"} \cap DOMAIN drawn : \A j \in DOMAIN drawn[g] :
       LET bar      == drawn[g][j]
           label(i) == IF g = "03" \/ labels = None THEN dirs[i] ELSE labels[i]
       IN  \E i \in DOMAIN dirs :
             /\ g = "03" \/ labels = None \/ i \in DOMAIN labels
             /\ label(i) = bar.name /\ Joules(Recorded[dirs[i]]) = bar.joules

\* The tables and graphs count alike.  Every invocation with an energy has a power, and
\* is one of the invocations recorded; the energies are those graphs 3 and 4 show; and
\* a run that can be compared by its energies has its place in the power statistics.
CountsAgree ==
  /\ After("invocations") =>
       /\ Len(inv.energy) <= Len(inv.power)
       /\ Len(inv.power) <= Total([i \in DOMAIN dirs |-> Len(Recorded[dirs[i]].inv)])
       /\ "04" \in DOMAIN drawn => IsPrefix(drawn["04"], inv.energy)
       /\ "03" \in DOMAIN drawn =>
            Total([j \in DOMAIN drawn["03"] |-> Len(drawn["03"][j].joules)]) <= Len(inv.energy)
  /\ After("cross_run") /\ "03" \in DOMAIN drawn =>
       {bar.name : bar \in Range(drawn["03"])} \subseteq {dirs[v.of] : v \in Range(cross["power"])}

\* "one value per run", "Per-run breakdown", "bar-per-run": a mean is listed beside the
\* run it is the mean of.
MeansNamed ==
  \A m \in Metrics : \A j \in DOMAIN table[m] : table[m][j].name = dirs[table[m][j].of]
----------------------------------------------------------------------------
\* The clocks: the power file begins at wall-clock time Epoch, the invocation loop 4
\* ticks later.
Epoch == 100

PowerFile(cols, Watts(_, _), n) ==
  [cols |-> cols,
   rows |-> [i \in 1..n |-> [ts |-> Epoch + Seconds(i), el |-> Seconds(i),
                             w  |-> [c \in Range(cols) |-> Watts(c, i)]]]]

ValueFile(cols, Of(_, _), n) ==
  [cols |-> cols, rows |-> [i \in 1..n |-> [el |-> Seconds(i), v |-> [c \in cols |-> Of(c, i)]]]]

NoFile == [cols |-> <<>>, rows |-> <<>>]
NoValues == [cols |-> {}, rows |-> <<>>]

\* An invocation between two times of the power file.
Call(from, to) == [startIso |-> Epoch + from, endIso |-> Epoch + to,
                   startElapsed |-> from - 4, endElapsed |-> to - 4]

Calls == <<Call(5, 9), Call(23, 27)>>

Busy(i) == i \in {3, 4, 12, 13}

Watt(c, i) == IF c = <<"dram", 0>> THEN (IF i = 2 THEN None ELSE 1) ELSE IF Busy(i) THEN 4 + (i % 2) ELSE 1
Flat(c, i) == 2
Usage(c, i) == IF c = "cpu_pct" THEN (IF Busy(i) THEN 90 ELSE 5) ELSE IF c = "threads" THEN 3 ELSE 10 + i
Stall(c, i) == IF c = "cpu_some_avg10" THEN i % 3 ELSE 0

Perf == [i \in 1..28 |->
           LET k == (i + 1) \div 2
           IN  IF i % 2 = 1 THEN [t |-> Seconds(k), v |-> 2 + (k % 4), event |-> "cycles"]
               ELSE [t |-> Seconds(k), v |-> IF k = 3 THEN None ELSE 9 - (k % 3), event |-> "instructions"]]

Full ==
  [rapl      |-> PowerFile(<<<<"dram", 0>>, <<"package", 0>>>>, Watt, 14),
   turbostat |-> PowerFile(<<<<"package", 0>>, <<"busy_pct", 0>>>>, Flat, 14),
   inv       |-> Calls,
   proc      |-> ValueFile({"cpu_pct", "vmrss_kb", "threads"}, Usage, 14),
   pressure  |-> ValueFile({"cpu_some_avg10", "io_some_avg10"}, Stall, 14),
   perf      |-> Perf,
   saaf      |-> <<>>]

Warm(ms) == [runtime |-> ms, active |-> 3, idle |-> 1]

NineRuns ==
  "full" :> Full
  @@ "no power" :> [Full EXCEPT !.rapl = NoFile,
                                !.turbostat = PowerFile(<<<<"busy_pct", 0>>>>, Flat, 14)]
  \* rapl.csv holds its header only; turbostat has no package column
  @@ "fallback" :> [Full EXCEPT !.rapl = [cols |-> <<<<"package", 0>>>>, rows |-> <<>>],
                                !.turbostat = PowerFile(<<<<"core", 0>>, <<"dram", 0>>>>, Watt, 14),
                                !.perf = <<>>, !.pressure = NoValues]
  \* a baseline without invocations
  @@ "baseline" :> [Full EXCEPT !.inv = <<>>]
  \* invocations shorter than two intervals
  @@ "short" :> [Full EXCEPT !.inv = <<Call(5, 5), Call(9, 11), Call(13, 14)>>]
  \* a host whose power is in arm_power.csv
  @@ "arm" :> [Full EXCEPT !.rapl = NoFile, !.turbostat = NoFile]
  \* several VMs: their traces are in directories of their own
  @@ "fan-out" :> [Full EXCEPT !.inv = <<Call(5, 9), Call(5, 11)>>, !.proc = NoValues,
                               !.pressure = NoValues, !.perf = <<>>]
  \* the domains in the order of the directory
  @@ "flat" :> [Full EXCEPT !.rapl = PowerFile(<<<<"uncore", 0>>, <<"package", 0>>, <<"core", 0>>>>, Flat, 14)]
  \* answers of warm containers, one of them without its run time; few samples
  @@ "saaf" :> [Full EXCEPT !.saaf = <<Warm(4), Warm(None)>>,
                            !.rapl = PowerFile(<<<<"package", 0>>>>, Watt, 4),
                            !.proc = ValueFile({"cpu_pct"}, Usage, 4)]

SomeLabels == {None, <<"A", "B">>, <<"A", "B", "C">>}
=============================================================================
