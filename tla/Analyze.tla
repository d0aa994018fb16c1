------------------------------- MODULE Analyze -------------------------------
(***************************************************************************)
(* fc_analyze_pkg.py, main(): the graphs and tables made of one or several *)
(* experiment directories, in the order the program makes them.  Each step *)
(* reads the files anew, has reasons of its own for leaving its graph out, *)
(* and what an earlier step found is handed to a later one: the fit of     *)
(* graph 5 to graph 6, the strongest feature of graph 7 to graph 8, the    *)
(* statistics to the tables.  How a graph looks is left out, what it shows *)
(* is kept; a fit is kept as the points it was fitted to.                  *)
(***************************************************************************)
EXTENDS Trace

CONSTANTS
  Recorded,  \* the directories there are: a function from names to contents
  MaxDirs,   \* how many are given at most
  LabelSets, \* --labels: None or a sequence
  ZoomN      \* --timeline-zoom-n

\* A file is a table of rows, a field of it a number or empty; the clock of a collector does
\* not go back (time.monotonic).
Numbers == Int \cup {None}
IsTrace(file) ==
  /\ file.cols \in Seq(Range(file.cols)) /\ file.rows \in Seq(Range(file.rows))
  /\ \A r \in Range(file.rows) : {r.ts, r.el} \subseteq Numbers
  /\ \A i, j \in DOMAIN file.rows :
       i <= j /\ file.rows[i].el # None /\ file.rows[j].el # None => file.rows[i].el <= file.rows[j].el

IsRecorded(d) ==
  /\ IsTrace(d.rapl) /\ IsTrace(d.turbostat)
  /\ d.inv \in Seq(Range(d.inv)) /\ d.perf \in Seq(Range(d.perf))
  /\ \A r \in Range(d.inv) : {r.startIso, r.endIso, r.startElapsed, r.endElapsed} \subseteq Numbers

ASSUME RecordedAssumption == \A name \in DOMAIN Recorded : IsRecorded(Recorded[name])
ASSUME GivenAssumption    == MaxDirs \in Nat /\ LabelSets \ {None} \subseteq Seq(STRING)

VARIABLES
  dirs,    \* args.dirs, names
  labels,  \* args.labels
  domain,  \* --power-domain
  pc,      \* the next step of main(); "done"
  drawn,   \* the graphs written so far, and what each shows
  fit,     \* fit_r[0] of graph 5
  best,    \* best_feat of graph 7
  inv,     \* inv_stats
  report,  \* the rows of invocation_stats.txt and .md, and those of .csv
  cross,   \* the cross-run stats of each metric; <<>> for None
  table    \* the per-run breakdown printed of them

given == <<dirs, labels, domain>>
vars  == <<given, pc, drawn, fit, best, inv, report, cross, table>>

Directories == DOMAIN Recorded
Primary == Recorded[dirs[1]]
Metrics == {"runtime", "cpu", "power"}

Init ==
  /\ dirs \in {s \in UNION {[1..n -> Directories] : n \in 1..MaxDirs} : IsInjective(s)}
  /\ labels \in LabelSets
  /\ domain \in {"package", "core"}
  /\ pc = "timeline"
  /\ drawn = << >>
  /\ fit = None /\ best = None
  /\ inv = [m \in Metrics \cup {"energy"} |-> <<>>]
  /\ report = [text |-> << >>, csv |-> << >>]
  /\ cross = [m \in Metrics |-> <<>>]
  /\ table = [m \in Metrics |-> <<>>]

Goto(from, to) == pc = from /\ pc' = to

\* One graph, or the two views of one.
One(g, shown) == [x \in {g} |-> shown]
Two(g, whole, h, part) == [x \in {g, h} |-> IF x = g THEN whole ELSE part]

Draw(graphs) ==
  drawn' = [g \in DOMAIN drawn \cup DOMAIN graphs |-> IF g \in DOMAIN graphs THEN graphs[g] ELSE drawn[g]]
DrawIf(guard, graphs) == IF guard THEN Draw(graphs) ELSE UNCHANGED drawn

Windows == InvocationWindows(Primary)
Points  == PowerSamples(Primary, domain)

(***************************************************************************)
(* Graphs of the first directory.                                          *)
(***************************************************************************)
Baseline(points, windows) ==
  LET first == Min(Range(Xs(points)))
      calm  == IF windows # <<>> THEN SplitActiveIdle(points, windows).idle
               ELSE Ys(Where(points, LAMBDA p : X(p) <= first + Seconds(5)))
  IN  Median2(IF calm # <<>> THEN calm ELSE Ys(points))

\* The two views of a trace over time.
Overview(points, windows) == DrawAll(points, windows, Envelope(points))

Zoomed(points, windows) == DrawZoom(points, windows, ZoomXlim(Xs(points), windows, ZoomN))

PlotTimeline ==
  /\ Goto("timeline", "idle_vs_active")
  /\ DrawIf(HasPower(Primary, domain) /\ Points # <<>>,
            LET base == Baseline(Points, Windows)
            IN  Two("01", [view |-> Overview(Points, Windows), base |-> base],
                    "01b", [view |-> Zoomed(Points, Windows), base |-> base]))
  /\ UNCHANGED <<given, fit, best, inv, report, cross, table>>

PlotIdleVsActive ==
  /\ Goto("idle_vs_active", "energy")
  /\ LET split == SplitActiveIdle(Points, Windows)
     IN  DrawIf(/\ HasPower(Primary, domain) /\ Windows # <<>>
                /\ Len(split.active) >= 2 /\ Len(split.idle) >= 2,
                One("02", split))
  /\ UNCHANGED <<given, fit, best, inv, report, cross, table>>

Joules(d) == IF HasPower(d, domain)
             THEN IntegratePerWindow(PowerSamples(d, domain), InvocationWindows(d)) ELSE <<>>

PlotEnergyDistribution ==
  /\ Goto("energy", "cpu_vs_power")
  /\ DrawIf(Len(Joules(Primary)) >= 2, One("04", Joules(Primary)))
  /\ UNCHANGED <<given, fit, best, inv, report, cross, table>>

Column(file, col) == IF col \in file.cols THEN Readable([i \in DOMAIN file.rows |-> <<file.rows[i].el, file.rows[i].v[col]>>]) ELSE <<>>

Pairs(points, onto) ==
  LET aligned == Align(points, onto) IN [i \in DOMAIN onto |-> <<aligned[i], Y(onto[i])>>]

Cpu == Column(Primary.proc, "cpu_pct")

CpuAndPower == HasPower(Primary, domain) /\ Len(Points) >= MinFit /\ Len(Cpu) >= MinFit

PlotCpuVsPower ==
  /\ Goto("cpu_vs_power", "residuals")
  /\ DrawIf(CpuAndPower, One("05", Pairs(Cpu, Points)))
  /\ fit' = IF CpuAndPower THEN Pairs(Cpu, Points) ELSE None
  /\ UNCHANGED <<given, best, inv, report, cross, table>>

\* The residual at a sample is a number for its power; the views are those of graph 1.
PlotBaselineResiduals ==
  /\ Goto("residuals", "correlation")
  /\ LET model == IF fit = None THEN Pairs(Cpu, Points) ELSE fit
         shows(view) == [fit |-> model, of |-> Pairs(Cpu, Points), view |-> view]
     IN  DrawIf(CpuAndPower, Two("06", shows(Overview(Points, Windows)), "06b", shows(Zoomed(Points, Windows))))
  /\ UNCHANGED <<given, fit, best, inv, report, cross, table>>

FromProc     == {"cpu_pct", "vmrss_kb", "read_bytes", "write_bytes",
                 "net_rx_bytes_d", "net_tx_bytes_d", "threads"}
FromPressure == {"cpu_some_avg10", "memory_some_avg10", "io_some_avg10"}
FromPerf     == {"cycles", "instructions", "cache-references", "cache-misses",
                 "LLC-load-misses", "dTLB-load-misses", "branch-misses",
                 "ipc", "llc_miss_rate", "branch_miss_rate"}

\* No two files have a feature of one name: EVENTS of fc_perf.sh, cols of fc_proc.py.
ASSUME NamesAssumption ==
  \A name \in DOMAIN Recorded :
    LET d == Recorded[name]
    IN  /\ {r.event : r \in Range(d.perf)} \cap (FromProc \cup FromPressure) = {}
        /\ d.proc.cols \cap FromPressure = {}

Series(f) ==
  IF f \in FromPerf THEN PerfWide(Primary, f)
  ELSE Column(IF f \in FromProc THEN Primary.proc ELSE Primary.pressure, f)

\* Columns without variance have no correlation.
Features ==
  {f \in FromProc \cup FromPressure \cup FromPerf :
     Len(Series(f)) >= MinFit /\ ~ Constant(Ys(Series(f)))}

\* r is a number if neither of the two is constant at the power samples.
Candidates ==
  {f \in Features \ {"cpu_pct"} :
     ~ Constant(Align(Series(f), Points)) /\ ~ Constant(Ys(Points))}

\* The largest |r|; which of the candidates that is depends on the data alone.
PlotCorrelation ==
  /\ Goto("correlation", "pmu_scatter")
  /\ LET able == HasPower(Primary, domain) /\ Len(Points) >= MinFit /\ Cardinality(Features) >= 2
     IN  /\ DrawIf(able, One("07", Features))
         /\ best' \in IF able /\ Candidates # {} THEN Candidates ELSE {None}
  /\ UNCHANGED <<given, fit, inv, report, cross, table>>

\* Mutant: the feature is looked for in perf.csv only.
Lookup_PerfOnly(f) == PerfWide(Primary, f)

\* perf.csv first, then the file that has a column of that name.
Lookup(f) ==
  IF PerfWide(Primary, f) # <<>> THEN PerfWide(Primary, f)
  ELSE IF Primary.proc.rows # <<>> /\ f \in Primary.proc.cols THEN Column(Primary.proc, f)
  ELSE Column(Primary.pressure, f)

PlotPmuScatter ==
  /\ Goto("pmu_scatter", "rapl_stack")
  /\ DrawIf(best # None /\ HasPower(Primary, domain) /\ Len(Lookup(best)) >= MinFit,
            One("08", [feature |-> best, of |-> Pairs(Lookup(best), Points)]))
  /\ UNCHANGED <<given, fit, best, inv, report, cross, table>>

\* A domain that could not be read at a sample counts as 0 there.
StackOf(col) ==
  LET rows == LoadPower(Primary).rows
      xs   == Where([i \in DOMAIN rows |-> rows[i].el], LAMBDA x : x # None)
  IN  [i \in DOMAIN xs |-> <<xs[i], IF rows[i].w[col] = None THEN 0 ELSE rows[i].w[col]>>]

PlotRaplStack ==
  /\ Goto("rapl_stack", "invocations")
  /\ LET file == LoadPower(Primary)
         cols == IF file.rows = <<>> THEN <<>> ELSE WattCols(file)
         whole(i) == DrawAll(StackOf(cols[i]), Windows, DecimateMean(StackOf(cols[i])))
         part(i)  == Zoomed(StackOf(cols[i]), Windows)
     IN  DrawIf(Len(cols) >= 2, Two("09", [i \in DOMAIN cols |-> whole(i)], "09b", [i \in DOMAIN cols |-> part(i)]))
  /\ UNCHANGED <<given, fit, best, inv, report, cross, table>>

(***************************************************************************)
(* Statistics over every invocation of every directory.                    *)
(***************************************************************************)
Given == [i \in DOMAIN dirs |-> Recorded[dirs[i]]]

PowerMeans(d) == IF HasPower(d, domain)
                 THEN MeanPerWindow(PowerSamples(d, domain), InvocationWindows(d)) ELSE <<>>

PerInvocationStats ==
  /\ Goto("invocations", "report")
  /\ inv' = [runtime |-> FlattenSeq([i \in DOMAIN Given |-> SaafRuntimes(Given[i])]),
             cpu     |-> FlattenSeq([i \in DOMAIN Given |-> SaafCpuPcts(Given[i])]),
             energy  |-> FlattenSeq([i \in DOMAIN Given |-> Joules(Given[i])]),
             power   |-> FlattenSeq([i \in DOMAIN Given |-> PowerMeans(Given[i])])]
  /\ UNCHANGED <<given, drawn, fit, best, report, cross, table>>

\* A metric without data has its row in the two tables, and none in the CSV.
ReportPerInvocationStats ==
  /\ pc = "report"
  /\ pc' = IF Len(dirs) >= 2 THEN "repeatability" ELSE "done"
  /\ report' = [text |-> [m \in DOMAIN inv |-> Len(inv[m])],
                csv  |-> [m \in {x \in DOMAIN inv : inv[x] # <<>>} |-> Len(inv[m])]]
  /\ UNCHANGED <<given, drawn, fit, best, inv, cross, table>>

(***************************************************************************)
(* Several directories.                                                    *)
(***************************************************************************)
Indices == [i \in DOMAIN dirs |-> i]

\* The runs with a distribution of energies, among the first n.
WithEnergy(n) == Where(SubSeq(Indices, 1, n), LAMBDA i : Len(Joules(Recorded[dirs[i]])) >= 2)

Bars(runs, names) ==
  [j \in DOMAIN runs |-> [name |-> names[runs[j]], joules |-> Joules(Recorded[dirs[runs[j]]])]]

PlotRepeatability ==
  /\ Goto("repeatability", "comparison")
  /\ LET runs == WithEnergy(Len(dirs))
     IN  DrawIf(Len(runs) >= 2, One("03", Bars(runs, dirs)))
  /\ UNCHANGED <<given, fit, best, inv, report, cross, table>>

\* Mutant: the labels are taken from the front, whichever runs were left out.
PlotWorkloadComparison_Shifted ==
  /\ Goto("comparison", "cross_run")
  /\ LET lbls == IF labels = None THEN dirs ELSE labels
         runs == WithEnergy(Min({Len(dirs), Len(lbls)}))
         bars == Bars(runs, lbls)
     IN  DrawIf(Len(runs) >= 2, One("10", [j \in DOMAIN bars |-> [bars[j] EXCEPT !.name = lbls[j]]]))
  /\ UNCHANGED <<given, fit, best, inv, report, cross, table>>

\* Directories past the last label are left out.
PlotWorkloadComparison ==
  /\ Goto("comparison", "cross_run")
  /\ LET lbls == IF labels = None THEN dirs ELSE labels
         runs == WithEnergy(Min({Len(dirs), Len(lbls)}))
     IN  DrawIf(Len(runs) >= 2, One("10", Bars(runs, lbls)))
  /\ UNCHANGED <<given, fit, best, inv, report, cross, table>>

Durations(d) ==
  LET whole == Where(d.inv, LAMBDA r : \/ r.startIso # None /\ r.endIso # None
                                       \/ r.startElapsed # None /\ r.endElapsed # None)
  IN  [i \in DOMAIN whole |->
         LET r == whole[i]
         IN  IF r.startIso # None /\ r.endIso # None THEN r.endIso - r.startIso
             ELSE r.endElapsed - r.startElapsed]

\* A whole trace of two samples or more, or what of it lies in the windows.
ActivePart(points, windows) ==
  IF Len(points) < 2 THEN <<>>
  ELSE IF windows = <<>> THEN Ys(points) ELSE SplitActiveIdle(points, windows).active

\* The values a run's mean is taken of: the fallbacks are for runs without any.
Values(m, d) ==
  CASE m = "runtime" -> IF SaafRuntimes(d) # <<>> THEN SaafRuntimes(d) ELSE Durations(d)
    [] m = "cpu"     -> IF SaafCpuPcts(d) # <<>> THEN SaafCpuPcts(d)
                        ELSE ActivePart(Column(d.proc, "cpu_pct"), InvocationWindows(d))
    [] m = "power"   -> IF HasPower(d, domain)
                        THEN ActivePart(PowerSamples(d, domain), InvocationWindows(d)) ELSE <<>>

\* The per-run means, each with the run it is of (history); sample statistics need two.
RunStat(m) ==
  LET runs == Where(Indices, LAMBDA i : Values(m, Recorded[dirs[i]]) # <<>>)
  IN  IF Len(runs) < 2 THEN <<>>
      ELSE [j \in DOMAIN runs |-> [of |-> runs[j], mean |-> Mean(Values(m, Recorded[dirs[runs[j]]]))]]

CrossRunStats ==
  /\ Goto("cross_run", "table")
  /\ cross' = [m \in Metrics |-> RunStat(m)]
  /\ UNCHANGED <<given, drawn, fit, best, inv, report, table>>

\* zip(exp_dirs, per_run_means) and run_names[:len(vals)]
Named(means) == [j \in DOMAIN means |-> [name |-> dirs[j], of |-> means[j].of]]

PrintStatsTable ==
  /\ Goto("table", "cross_plot")
  /\ table' = [m \in Metrics |-> Named(cross[m])]
  /\ UNCHANGED <<given, drawn, fit, best, inv, report, cross>>

PlotCrossRunStats ==
  /\ Goto("cross_plot", "done")
  /\ LET shown == {m \in Metrics : cross[m] # <<>>}
     IN  DrawIf(shown # {}, One("11", [m \in shown |-> Named(cross[m])]))
  /\ UNCHANGED <<given, fit, best, inv, report, cross, table>>

Next ==
  \/ PlotTimeline \/ PlotIdleVsActive \/ PlotEnergyDistribution
  \/ PlotCpuVsPower \/ PlotBaselineResiduals \/ PlotCorrelation \/ PlotPmuScatter
  \/ PlotRaplStack \/ PerInvocationStats \/ ReportPerInvocationStats
  \/ PlotRepeatability \/ PlotWorkloadComparison
  \/ CrossRunStats \/ PrintStatsTable \/ PlotCrossRunStats

Spec == Init /\ [][Next]_vars
=============================================================================
