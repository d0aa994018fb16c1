---------------------------- MODULE AnalyzeProofs ----------------------------
(***************************************************************************)
(* Proofs about Analyze, for any directories a run can leave, any number   *)
(* of them, any labels and any thresholds: what a step hands to a later    *)
(* one, and what two graphs or tables show of the same thing, agree.       *)
(***************************************************************************)
EXTENDS MCAnalyze, Induction

----------------------------------------------------------------------------
\* The steps of main() in their order.
Order == <<"timeline", "idle_vs_active", "energy", "cpu_vs_power", "residuals",
           "correlation", "pmu_scatter", "rapl_stack", "invocations", "report", "repeatability",
           "comparison", "cross_run", "table", "cross_plot", "done">>

\* The steps up to the one that makes what a later one uses: the fit, the residuals,
\* the strongest feature, its graph, the tables, the bars and the means.
ToFit       == {"timeline", "idle_vs_active", "energy", "cpu_vs_power"}
ToResiduals == ToFit \cup {"residuals"}
ToBest      == ToResiduals \cup {"correlation"}
ToScatter   == ToBest \cup {"pmu_scatter"}
ToStats     == ToScatter \cup {"rapl_stack", "invocations"}
ToBars      == ToStats \cup {"report", "repeatability"}
ToCross     == ToBars \cup {"comparison", "cross_run"}
Steps       == ToCross \cup {"table", "cross_plot", "done"}

\* Where a step stands in that order.
At(x) == {i \in 1..16 : Order[i] = x}

LEMMA Places ==
  /\ At("timeline") = {1} /\ At("idle_vs_active") = {2} /\ At("energy") = {3} /\ At("cpu_vs_power") = {4}
  /\ At("residuals") = {5} /\ At("correlation") = {6} /\ At("pmu_scatter") = {7} /\ At("rapl_stack") = {8}
  /\ At("invocations") = {9} /\ At("report") = {10} /\ At("repeatability") = {11} /\ At("comparison") = {12}
  /\ At("cross_run") = {13} /\ At("table") = {14} /\ At("cross_plot") = {15} /\ At("done") = {16}
<1>1. At("timeline") = {1} /\ At("idle_vs_active") = {2} /\ At("energy") = {3} /\ At("cpu_vs_power") = {4}
  BY DEF At, Order
<1>2. At("residuals") = {5} /\ At("correlation") = {6} /\ At("pmu_scatter") = {7} /\ At("rapl_stack") = {8}
  BY DEF At, Order
<1>3. At("invocations") = {9} /\ At("report") = {10} /\ At("repeatability") = {11} /\ At("comparison") = {12}
  BY DEF At, Order
<1>4. At("cross_run") = {13} /\ At("table") = {14} /\ At("cross_plot") = {15} /\ At("done") = {16}
  BY DEF At, Order
<1> QED BY <1>1, <1>2, <1>3, <1>4

LEMMA MinOne == \A k \in 1..16 : Min({k}) = k
BY MinIs

LEMMA AfterMeans ==
  ASSUME NEW step, At(step) # {}, At(pc) # {}
  PROVE  After(step) <=> Min(At(step)) < Min(At(pc))
<1>1. Len(Order) = 16
  BY DEF Order
<1>2. After(step) <=> SelectInSeq(Order, LAMBDA s : s = step) < SelectInSeq(Order, LAMBDA s : s = pc)
  BY DEF After, Order
<1>3. SelectInSeq(Order, LAMBDA s : s = step) = Min(At(step))
  BY <1>1 DEF SelectInSeq, At
<1>4. SelectInSeq(Order, LAMBDA s : s = pc) = Min(At(pc))
  BY <1>1 DEF SelectInSeq, At
<1> QED BY <1>2, <1>3, <1>4

\* A step is over when main() is beyond it.
LEMMA AfterIs ==
  ASSUME pc \in Steps
  PROVE  /\ After("residuals") => pc \notin ToResiduals
         /\ After("pmu_scatter") => pc \notin ToScatter
         /\ After("invocations") => pc \notin ToStats
         /\ After("cross_run") => pc \notin ToCross
<1>1. \E k \in 1..16 : At(pc) = {k} /\ (pc \in ToResiduals => k <= 5) /\ (pc \in ToScatter => k <= 7)
                       /\ (pc \in ToStats => k <= 9) /\ (pc \in ToCross => k <= 13)
  <2>1. CASE pc \in ToScatter
    BY <2>1, Places DEF ToScatter, ToBest, ToResiduals, ToFit, ToStats, ToCross, ToBars
  <2>2. CASE pc \in Steps \ ToScatter
    BY <2>2, Places DEF ToScatter, ToBest, ToResiduals, ToFit, ToStats, ToCross, ToBars, Steps
  <2> QED BY <2>1, <2>2
<1>2. PICK k \in 1..16 : At(pc) = {k} /\ (pc \in ToResiduals => k <= 5) /\ (pc \in ToScatter => k <= 7)
                       /\ (pc \in ToStats => k <= 9) /\ (pc \in ToCross => k <= 13)
  BY <1>1
<1>3. ASSUME NEW step, NEW n \in 1..16, At(step) = {n}, After(step) PROVE n < k
  <2>1. At(step) # {} /\ At(pc) # {} /\ Min(At(step)) = n /\ Min(At(pc)) = k
    BY <1>2, <1>3, MinOne
  <2> QED BY <1>3, <2>1, AfterMeans
<1> QED BY <1>2, <1>3, Places

----------------------------------------------------------------------------
\* What one step leaves as it is.
Same(g) == /\ g \in DOMAIN drawn' <=> g \in DOMAIN drawn
           /\ g \in DOMAIN drawn => drawn'[g] = drawn[g]

\* A graph appears when its guard holds, and no other one changes.
LEMMA Drawing ==
  ASSUME NEW graphs, NEW guard, DrawIf(guard, graphs), NEW g
  PROVE  /\ g \notin DOMAIN graphs \/ ~guard => Same(g)
         /\ guard /\ g \in DOMAIN graphs => g \in DOMAIN drawn' /\ drawn'[g] = graphs[g]
BY DEF DrawIf, Draw, Same

\* No graph but those of G changes.
OnlyDraws(G) == \A g : g \notin G => Same(g)

LEMMA DrawsOne ==
  ASSUME NEW g, NEW shown, NEW guard, DrawIf(guard, One(g, shown))
  PROVE  OnlyDraws({g})
BY Drawing DEF OnlyDraws, One

LEMMA DrawsTwo ==
  ASSUME NEW g, NEW h, NEW shown, NEW part, NEW guard, DrawIf(guard, Two(g, shown, h, part))
  PROVE  OnlyDraws({g, h})
BY Drawing DEF OnlyDraws, Two

\* What a function that draws one graph, or two, leaves to see.
LEMMA DrawnOne ==
  ASSUME NEW g, NEW shown, NEW guard, DrawIf(guard, One(g, shown))
  PROVE  /\ guard => g \in DOMAIN drawn' /\ drawn'[g] = shown
         /\ ~guard => Same(g)
BY DEF DrawIf, Draw, One, Same

LEMMA DrawnTwo ==
  ASSUME NEW g, NEW h, g # h, NEW shown, NEW part, NEW guard, DrawIf(guard, Two(g, shown, h, part))
  PROVE  /\ guard => {g, h} \subseteq DOMAIN drawn' /\ drawn'[g] = shown /\ drawn'[h] = part
         /\ ~guard => Same(g) /\ Same(h)
BY DEF DrawIf, Draw, Two, Same

\* Who changes what: every graph and every result has one function that makes it.
Untouched ==
  /\ dirs' = dirs /\ labels' = labels /\ domain' = domain
  /\ pc # "energy" => Same("04")
  /\ pc # "cpu_vs_power" => Same("05") /\ fit' = fit
  /\ pc # "residuals" => Same("06") /\ Same("06b")
  /\ pc # "correlation" => Same("07") /\ best' = best
  /\ pc # "pmu_scatter" => Same("08")
  /\ pc # "invocations" => inv' = inv
  /\ pc # "repeatability" => Same("03")
  /\ pc # "comparison" => Same("10")
  /\ pc # "cross_run" => cross' = cross
  /\ pc # "table" => table' = table

LEMMA StepTouches ==
  ASSUME Next
  PROVE  Untouched
<1>1. CASE PlotTimeline
  <2>1. OnlyDraws({"01", "01b"})
    BY <1>1, DrawsTwo DEF PlotTimeline
  <2> QED BY <1>1, <2>1 DEF PlotTimeline, Untouched, Goto, given, OnlyDraws
<1>2. CASE PlotIdleVsActive
  <2>1. OnlyDraws({"02"})
    BY <1>2, DrawsOne DEF PlotIdleVsActive
  <2> QED BY <1>2, <2>1 DEF PlotIdleVsActive, Untouched, Goto, given, OnlyDraws
<1>3. CASE PlotEnergyDistribution
  <2>1. OnlyDraws({"04"})
    BY <1>3, DrawsOne DEF PlotEnergyDistribution
  <2> QED BY <1>3, <2>1 DEF PlotEnergyDistribution, Untouched, Goto, given, OnlyDraws
<1>4. CASE PlotCpuVsPower
  <2>1. OnlyDraws({"05"})
    BY <1>4, DrawsOne DEF PlotCpuVsPower
  <2> QED BY <1>4, <2>1 DEF PlotCpuVsPower, Untouched, Goto, given, OnlyDraws
<1>5. CASE PlotBaselineResiduals
  <2>1. OnlyDraws({"06", "06b"})
    BY <1>5, DrawsTwo DEF PlotBaselineResiduals
  <2> QED BY <1>5, <2>1 DEF PlotBaselineResiduals, Untouched, Goto, given, OnlyDraws
<1>6. CASE PlotCorrelation
  <2>1. OnlyDraws({"07"})
    BY <1>6, DrawsOne DEF PlotCorrelation
  <2> QED BY <1>6, <2>1 DEF PlotCorrelation, Untouched, Goto, given, OnlyDraws
<1>7. CASE PlotPmuScatter
  <2>1. OnlyDraws({"08"})
    BY <1>7, DrawsOne DEF PlotPmuScatter
  <2> QED BY <1>7, <2>1 DEF PlotPmuScatter, Untouched, Goto, given, OnlyDraws
<1>8. CASE PlotRaplStack
  <2>1. OnlyDraws({"09", "09b"})
    BY <1>8, DrawsTwo DEF PlotRaplStack
  <2> QED BY <1>8, <2>1 DEF PlotRaplStack, Untouched, Goto, given, OnlyDraws
<1>9. CASE PerInvocationStats
  BY <1>9 DEF PerInvocationStats, Untouched, Goto, given, Same
<1>10. CASE ReportPerInvocationStats
  BY <1>10 DEF ReportPerInvocationStats, Untouched, Goto, given, Same
<1>11. CASE PlotRepeatability
  <2>1. OnlyDraws({"03"})
    BY <1>11, DrawsOne DEF PlotRepeatability
  <2> QED BY <1>11, <2>1 DEF PlotRepeatability, Untouched, Goto, given, OnlyDraws
<1>12. CASE PlotWorkloadComparison
  <2>1. OnlyDraws({"10"})
    BY <1>12, DrawsOne DEF PlotWorkloadComparison
  <2> QED BY <1>12, <2>1 DEF PlotWorkloadComparison, Untouched, Goto, given, OnlyDraws
<1>13. CASE CrossRunStats
  BY <1>13 DEF CrossRunStats, Untouched, Goto, given, Same
<1>14. CASE PrintStatsTable
  BY <1>14 DEF PrintStatsTable, Untouched, Goto, given, Same
<1>15. CASE PlotCrossRunStats
  <2>1. OnlyDraws({"11"})
    BY <1>15, DrawsOne DEF PlotCrossRunStats
  <2> QED BY <1>15, <2>1 DEF PlotCrossRunStats, Untouched, Goto, given, OnlyDraws
<1> QED BY <1>1, <1>2, <1>3, <1>4, <1>5, <1>6, <1>7, <1>8, <1>9, <1>10, <1>11, <1>12, <1>13, <1>14, <1>15 DEF Next

\* main() goes from each function to the next, and ends early without invocations.
Moves == <<pc, pc'>> \in
  {<<"timeline", "idle_vs_active">>, <<"idle_vs_active", "energy">>, <<"energy", "cpu_vs_power">>,
   <<"cpu_vs_power", "residuals">>, <<"residuals", "correlation">>, <<"correlation", "pmu_scatter">>,
   <<"pmu_scatter", "rapl_stack">>, <<"rapl_stack", "invocations">>, <<"invocations", "report">>,
   <<"report", "repeatability">>, <<"report", "done">>, <<"repeatability", "comparison">>,
   <<"comparison", "cross_run">>, <<"cross_run", "table">>, <<"table", "cross_plot">>, <<"cross_plot", "done">>}

LEMMA StepMoves ==
  ASSUME Next
  PROVE  Moves
<1>1. CASE PlotTimeline
  BY <1>1 DEF PlotTimeline, Moves, Goto
<1>2. CASE PlotIdleVsActive
  BY <1>2 DEF PlotIdleVsActive, Moves, Goto
<1>3. CASE PlotEnergyDistribution
  BY <1>3 DEF PlotEnergyDistribution, Moves, Goto
<1>4. CASE PlotCpuVsPower
  BY <1>4 DEF PlotCpuVsPower, Moves, Goto
<1>5. CASE PlotBaselineResiduals
  BY <1>5 DEF PlotBaselineResiduals, Moves, Goto
<1>6. CASE PlotCorrelation
  BY <1>6 DEF PlotCorrelation, Moves, Goto
<1>7. CASE PlotPmuScatter
  BY <1>7 DEF PlotPmuScatter, Moves, Goto
<1>8. CASE PlotRaplStack
  BY <1>8 DEF PlotRaplStack, Moves, Goto
<1>9. CASE PerInvocationStats
  BY <1>9 DEF PerInvocationStats, Moves, Goto
<1>10. CASE ReportPerInvocationStats
  BY <1>10 DEF ReportPerInvocationStats, Moves, Goto
<1>11. CASE PlotRepeatability
  BY <1>11 DEF PlotRepeatability, Moves, Goto
<1>12. CASE PlotWorkloadComparison
  BY <1>12 DEF PlotWorkloadComparison, Moves, Goto
<1>13. CASE CrossRunStats
  BY <1>13 DEF CrossRunStats, Moves, Goto
<1>14. CASE PrintStatsTable
  BY <1>14 DEF PrintStatsTable, Moves, Goto
<1>15. CASE PlotCrossRunStats
  BY <1>15 DEF PlotCrossRunStats, Moves, Goto
<1> QED BY <1>1, <1>2, <1>3, <1>4, <1>5, <1>6, <1>7, <1>8, <1>9, <1>10, <1>11, <1>12, <1>13, <1>14, <1>15 DEF Next

LEMMA StepIs ==
  ASSUME Next
  PROVE  /\ pc' \in Steps
         /\ pc = "energy" => PlotEnergyDistribution
         /\ pc = "cpu_vs_power" => PlotCpuVsPower
         /\ pc = "residuals" => PlotBaselineResiduals
         /\ pc = "correlation" => PlotCorrelation
         /\ pc = "pmu_scatter" => PlotPmuScatter
         /\ pc = "invocations" => PerInvocationStats
         /\ pc = "repeatability" => PlotRepeatability
         /\ pc = "comparison" => PlotWorkloadComparison
         /\ pc = "cross_run" => CrossRunStats
         /\ pc = "table" => PrintStatsTable
<1>1. pc' \in Steps
  BY StepMoves DEF Moves, Steps, ToCross, ToBars, ToStats, ToScatter, ToBest, ToResiduals, ToFit
<1> QED BY <1>1 DEF Next, Goto, PlotTimeline, PlotIdleVsActive, PlotEnergyDistribution, PlotCpuVsPower,
                    PlotBaselineResiduals, PlotCorrelation, PlotPmuScatter, PlotRaplStack, PerInvocationStats,
                    ReportPerInvocationStats, PlotRepeatability, PlotWorkloadComparison, CrossRunStats,
                    PrintStatsTable, PlotCrossRunStats

\* The step with which main() leaves a part of the way.
LEMMA StepLeaves ==
  ASSUME Next
  PROVE  /\ pc' \in ToFit <=> pc \in ToFit /\ pc # "cpu_vs_power"
         /\ pc' \in ToResiduals <=> pc \in ToResiduals /\ pc # "residuals"
         /\ pc' \in ToBest <=> pc \in ToBest /\ pc # "correlation"
         /\ pc' \in ToScatter <=> pc \in ToScatter /\ pc # "pmu_scatter"
         /\ pc' \in ToStats <=> pc \in ToStats /\ pc # "invocations"
         /\ pc' \in ToBars => pc \in ToBars /\ pc # "repeatability"
         /\ pc' \notin ToCross /\ pc \in ToCross => pc = "cross_run" \/ (pc \in ToBars /\ pc # "repeatability")
         /\ pc \notin ToCross => pc' \notin ToCross
BY StepMoves DEF Moves, ToCross, ToBars, ToStats, ToScatter, ToBest, ToResiduals, ToFit

\* No function changes what was read.
LEMMA DataKept ==
  ASSUME Next
  PROVE  /\ Primary' = Primary /\ Points' = Points /\ Cpu' = Cpu
         /\ CpuAndPower' <=> CpuAndPower
<1>1. dirs' = dirs /\ domain' = domain
  BY StepTouches DEF Untouched
<1>2. Primary' = Primary
  BY <1>1 DEF Primary
<1> QED BY <1>1, <1>2 DEF Points, Cpu, CpuAndPower

----------------------------------------------------------------------------
\* What graph 5 hands to graph 6.
FitHandedOn ==
  /\ pc \in ToFit => "05" \notin DOMAIN drawn
  /\ pc \notin ToFit => /\ "05" \in DOMAIN drawn <=> CpuAndPower
                        /\ CpuAndPower => fit = Pairs(Cpu, Points)
  /\ "05" \in DOMAIN drawn => drawn["05"] = Pairs(Cpu, Points)
  /\ pc \in ToResiduals => "06" \notin DOMAIN drawn
  /\ pc \notin ToResiduals => ("06" \in DOMAIN drawn <=> CpuAndPower)
  /\ "06" \in DOMAIN drawn =>
       /\ "06b" \in DOMAIN drawn
       /\ drawn["06"].fit = Pairs(Cpu, Points) /\ drawn["06"].of = Pairs(Cpu, Points)
       /\ drawn["06b"].fit = Pairs(Cpu, Points)

LEMMA FitInit == Init => FitHandedOn
BY DEF Init, FitHandedOn, ToResiduals, ToFit

\* Graph 5 fits, graph 6 uses the fit.
LEMMA FitKept == FitHandedOn /\ [Next]_vars => FitHandedOn'
<1> SUFFICES ASSUME FitHandedOn, [Next]_vars PROVE FitHandedOn'
  OBVIOUS
<1> DEFINE pairs == Pairs(Cpu, Points)
<1>1. CASE UNCHANGED vars
  BY <1>1 DEF vars, given, FitHandedOn, CpuAndPower, Cpu, Points, Primary
<1>2. CASE Next
  <2>0. pairs' = pairs
    BY <1>2, DataKept
  <2> HIDE DEF pairs
  <2>1. CASE pc = "cpu_vs_power"
    <3>1. PlotCpuVsPower
      BY <1>2, <2>1, StepIs
    <3>2. DrawIf(CpuAndPower, One("05", pairs))
      BY <3>1 DEF PlotCpuVsPower, pairs
    <3>3. /\ CpuAndPower => "05" \in DOMAIN drawn' /\ drawn'["05"] = pairs
          /\ ~CpuAndPower => Same("05")
      BY <3>2, DrawnOne
    <3>4. CpuAndPower => fit' = pairs
      BY <3>1 DEF PlotCpuVsPower, pairs
    <3>5. Same("06") /\ Same("06b")
      BY <1>2, <2>1, StepTouches DEF Untouched
    <3> QED BY <1>2, <2>0, <2>1, <3>3, <3>4, <3>5, StepLeaves, DataKept
            DEF FitHandedOn, Same, pairs, ToFit, ToResiduals
  <2>2. CASE pc = "residuals"
    <3>1. PlotBaselineResiduals
      BY <1>2, <2>2, StepIs
    <3>2. CpuAndPower => fit = pairs
      BY <2>2 DEF FitHandedOn, pairs, ToFit
    <3>3. CpuAndPower => /\ "06" \in DOMAIN drawn' /\ "06b" \in DOMAIN drawn'
                         /\ drawn'["06"].fit = pairs /\ drawn'["06"].of = pairs /\ drawn'["06b"].fit = pairs
      <4> DEFINE model == IF fit = None THEN pairs ELSE fit
                 shows(view) == [fit |-> model, of |-> pairs, view |-> view]
      <4>1. DrawIf(CpuAndPower, Two("06", shows(Overview(Points, Windows)), "06b", shows(Zoomed(Points, Windows))))
        BY <3>1 DEF PlotBaselineResiduals, pairs
      <4>2. CpuAndPower => model = pairs
        BY <3>2
      <4> HIDE DEF model
      <4>3. CpuAndPower => /\ "06" \in DOMAIN drawn' /\ "06b" \in DOMAIN drawn'
                           /\ drawn'["06"] = shows(Overview(Points, Windows))
                           /\ drawn'["06b"] = shows(Zoomed(Points, Windows))
        <5> HIDE DEF shows
        <5> QED BY <4>1, DrawnTwo
      <4> QED BY <4>2, <4>3
    <3>4. ~CpuAndPower => Same("06") /\ Same("06b")
      BY <3>1, DrawnTwo DEF PlotBaselineResiduals
    <3>5. Same("05") /\ fit' = fit
      BY <1>2, <2>2, StepTouches DEF Untouched
    <3> QED BY <1>2, <2>0, <2>2, <3>3, <3>4, <3>5, StepLeaves, DataKept
            DEF FitHandedOn, Same, pairs, ToFit, ToResiduals
  <2>3. CASE pc # "cpu_vs_power" /\ pc # "residuals"
    <3>1. Same("05") /\ fit' = fit /\ Same("06") /\ Same("06b")
      BY <1>2, <2>3, StepTouches DEF Untouched
    <3> QED BY <1>2, <2>0, <2>3, <3>1, StepLeaves, DataKept DEF FitHandedOn, Same, pairs
  <2> QED BY <2>1, <2>2, <2>3
<1> QED BY <1>1, <1>2

\* The directories and labels of the command line.
GivenOK == dirs \in Seq(Directories) /\ Len(dirs) >= 1 /\ labels \in LabelSets

LEMMA EachRecorded ==
  ASSUME GivenOK, NEW i \in DOMAIN dirs
  PROVE  /\ IsRecorded(Recorded[dirs[i]])
         /\ dirs[i] \in Directories /\ 1 \in DOMAIN dirs
<1>1. dirs[i] \in Directories /\ 1 \in DOMAIN dirs
  BY DEF GivenOK
<1> QED BY <1>1, RecordedAssumption DEF Directories

----------------------------------------------------------------------------
\* No event of that name, no series.
LEMMA NoEvent ==
  ASSUME NEW d, IsRecorded(d), NEW f, f \notin {r.event : r \in Range(d.perf)},
         f \notin {"ipc", "llc_miss_rate", "branch_miss_rate"}
  PROVE  PerfWide(d, f) = <<>>
<1> DEFINE D == {i \in DOMAIN d.perf : d.perf[i].t # None /\ d.perf[i].v # None /\ d.perf[i].event = f}
<1>1. D = {}
  BY DEF Range
<1>2. Only(d.perf, D) = <<>>
  BY <1>1, OnlyNone DEF IsRecorded
<1>3. EventPoints(d, f) = <<>>
  BY <1>2 DEF EventPoints, Where
<1> QED BY <1>3 DEF PerfWide

\* No column of that name, or no row, no series.
LEMMA NoColumn ==
  ASSUME NEW file, NEW f, file.rows = <<>> \/ f \notin file.cols
  PROVE  Column(file, f) = <<>>
<1>1. CASE f \notin file.cols
  BY <1>1 DEF Column
<1>2. CASE f \in file.cols /\ file.rows = <<>>
  <2>1. [i \in DOMAIN file.rows |-> <<file.rows[i].el, file.rows[i].v[f]>>] = <<>>
    BY <1>2
  <2>2. Readable(<<>>) = <<>>
    <3>1. DOMAIN <<>> = {} /\ <<>> \in Seq(Int)
      OBVIOUS
    <3>2. {i \in DOMAIN <<>> : X(<<>>[i]) # None /\ Y(<<>>[i]) # None} = {}
      OBVIOUS
    <3>3. Only(<<>>, {}) = <<>>
      BY <3>1, OnlyNone
    <3> QED BY <3>2, <3>3 DEF Readable, Where
  <2> QED BY <1>2, <2>1, <2>2 DEF Column
<1> QED BY <1>1, <1>2

\* A feature is found where graph 7 has it from.
LEMMA Found ==
  ASSUME GivenOK, NEW f \in Features
  PROVE  Lookup(f) = Series(f) /\ Len(Series(f)) >= MinFit
<1>1. Len(Series(f)) >= MinFit /\ f \in FromProc \cup FromPressure \cup FromPerf
  BY DEF Features
<1>2. Series(f) # <<>>
  <2>1. MinFit \in Nat \ {0} /\ Len(<<>>) = 0
    BY BoundAssumption
  <2> QED BY <1>1, <2>1
<1>3. IsRecorded(Primary) /\ dirs[1] \in DOMAIN Recorded
  BY EachRecorded DEF Primary, Directories, GivenOK
<1>4. /\ {r.event : r \in Range(Primary.perf)} \cap (FromProc \cup FromPressure) = {}
      /\ Primary.proc.cols \cap FromPressure = {}
  BY <1>3, NamesAssumption DEF Primary
<1>5. CASE f \in FromPerf
  BY <1>1, <1>2, <1>5 DEF Series, Lookup
<1>6. CASE f \notin FromPerf
  <2>1. PerfWide(Primary, f) = <<>>
    BY <1>1, <1>3, <1>4, <1>6, NoEvent DEF FromPerf
  <2>2. CASE f \in FromProc
    BY <1>1, <1>2, <1>6, <2>1, <2>2, NoColumn DEF Series, Lookup
  <2>3. CASE f \in FromPressure /\ f \notin FromProc
    BY <1>1, <1>4, <1>6, <2>1, <2>3 DEF Series, Lookup
  <2> QED BY <1>1, <1>6, <2>2, <2>3
<1> QED BY <1>1, <1>5, <1>6

----------------------------------------------------------------------------
\* What graph 7 hands to graph 8.
BestHandedOn ==
  /\ pc \in ToBest => best = None
  /\ best # None => /\ HasPower(Primary, domain) /\ best \in Candidates
                    /\ "07" \in DOMAIN drawn /\ drawn["07"] = Features
  /\ pc \in ToScatter => "08" \notin DOMAIN drawn
  /\ pc \notin ToScatter => ("08" \in DOMAIN drawn <=> best # None)
  /\ "08" \in DOMAIN drawn => drawn["08"] = [feature |-> best, of |-> Pairs(Lookup(best), Points)]

LEMMA BestInit == Init => BestHandedOn
BY DEF Init, BestHandedOn, ToScatter, ToBest, ToResiduals, ToFit

\* What the features are depends on what was read only.
LEMMA FeaturesKept ==
  ASSUME dirs' = dirs, domain' = domain
  PROVE  /\ Features' = Features /\ Candidates' = Candidates
         /\ \A f : Lookup(f)' = Lookup(f)
<1>1. Primary' = Primary /\ Points' = Points
  BY DEF Primary, Points
<1>2. \A f : Series(f)' = Series(f) /\ Lookup(f)' = Lookup(f)
  BY <1>1 DEF Series, Lookup
<1>3. Features' = Features
  BY <1>2 DEF Features
<1> QED BY <1>1, <1>2, <1>3 DEF Candidates

\* Graph 7 recommends, graph 8 shows.
LEMMA BestKept == GivenOK /\ BestHandedOn /\ [Next]_vars => BestHandedOn'
<1> SUFFICES ASSUME GivenOK, BestHandedOn, [Next]_vars PROVE BestHandedOn'
  OBVIOUS
<1>0. dirs' = dirs /\ domain' = domain
  BY StepTouches DEF Untouched, vars, given
<1>1. /\ Primary' = Primary /\ Points' = Points /\ Features' = Features /\ Candidates' = Candidates
      /\ HasPower(Primary, domain)' = HasPower(Primary, domain)
      /\ \A f : Lookup(f)' = Lookup(f)
  BY <1>0, FeaturesKept DEF Primary, Points
<1> DEFINE shown(f) == [feature |-> f, of |-> Pairs(Lookup(f), Points)]
<1>2. best' = best => shown(best)' = shown(best)
  BY <1>1 DEF Pairs
<1>3. CASE UNCHANGED vars
  BY <1>1, <1>2, <1>3 DEF vars, given, BestHandedOn
<1>4. CASE Next /\ pc = "correlation"
  <2> DEFINE able == HasPower(Primary, domain) /\ Len(Points) >= MinFit /\ Cardinality(Features) >= 2
  <2>1. /\ DrawIf(able, One("07", Features))
        /\ best' \in IF able /\ Candidates # {} THEN Candidates ELSE {None}
    BY <1>4, StepIs DEF PlotCorrelation
  <2>2. able => "07" \in DOMAIN drawn' /\ drawn'["07"] = Features
    <3> HIDE DEF able
    <3> QED BY <2>1, DrawnOne
  <2>3. Same("08") /\ pc' \in ToScatter /\ pc' \notin ToBest
    <3>1. pc \in ToScatter /\ pc # "pmu_scatter" /\ pc \in ToBest
      BY <1>4 DEF ToScatter, ToBest
    <3> QED BY <1>4, <3>1, StepTouches, StepLeaves DEF Untouched
  <2>4. "08" \notin DOMAIN drawn'
    BY <1>4, <2>3 DEF BestHandedOn, Same, ToScatter, ToBest
  <2>5. best' # None => able /\ best' \in Candidates
    BY <2>1
  <2> QED BY <1>1, <2>2, <2>3, <2>4, <2>5 DEF BestHandedOn
<1>5. CASE Next /\ pc = "pmu_scatter"
  <2> DEFINE guard == best # None /\ HasPower(Primary, domain) /\ Len(Lookup(best)) >= MinFit
  <2>1. DrawIf(guard, One("08", shown(best)))
    BY <1>5, StepIs DEF PlotPmuScatter
  <2>2. guard <=> best # None
    BY Found DEF BestHandedOn, Candidates
  <2>3. /\ best # None => "08" \in DOMAIN drawn' /\ drawn'["08"] = shown(best)
        /\ best = None => Same("08")
    <3> HIDE DEF guard, shown
    <3> QED BY <2>1, <2>2, DrawnOne
  <2>4. Same("07") /\ best' = best
    BY <1>5, StepTouches DEF Untouched
  <2>5. pc' \notin ToScatter /\ pc' \notin ToBest /\ "08" \notin DOMAIN drawn
    BY <1>5, StepLeaves DEF BestHandedOn, ToScatter, ToBest, ToResiduals, ToFit
  <2> HIDE DEF shown
  <2> QED BY <1>1, <1>2, <2>3, <2>4, <2>5 DEF BestHandedOn, Same, shown
<1>6. CASE Next /\ pc # "correlation" /\ pc # "pmu_scatter"
  <2>1. Same("07") /\ Same("08") /\ best' = best
    BY <1>6, StepTouches DEF Untouched
  <2>2. (pc' \in ToBest <=> pc \in ToBest) /\ (pc' \in ToScatter <=> pc \in ToScatter)
    BY <1>6, StepLeaves
  <2> QED BY <1>1, <1>2, <2>1, <2>2 DEF BestHandedOn, Same
<1> QED BY <1>3, <1>4, <1>5, <1>6

----------------------------------------------------------------------------
\* Samples in the order of their times.
InOrder(points) ==
  /\ points \in Seq(Range(points))
  /\ \A i \in 1..Len(points) : X(points[i]) \in Int
  /\ \A i, j \in 1..Len(points) : i <= j => X(points[i]) <= X(points[j])

\* A function over 1..n is a sequence.
LEMMA IsASequence ==
  ASSUME NEW n \in Nat, NEW s, DOMAIN s = 1..n, s = [i \in 1..n |-> s[i]]
  PROVE  s \in Seq(Range(s)) /\ Len(s) = n
<1>1. s \in [1..n -> Range(s)]
  BY DEF Range
<1> QED BY <1>1

\* Some of a list's elements, in their order.
LEMMA OnlyOf ==
  ASSUME NEW s, s \in Seq(Range(s)), NEW D, D \subseteq DOMAIN s
  PROVE  /\ Only(s, D) \in Seq(Range(s))
         /\ \E p : Picks(p, Only(s, D), s, D)
         /\ Only(s, D) \in Seq(Range(Only(s, D)))
<1>1. Only(s, D) \in Seq(Range(s)) /\ \E p : Picks(p, Only(s, D), s, D)
  BY OnlyPicks
<1> DEFINE t == Only(s, D)
<1>2. t \in Seq(Range(s))
  BY <1>1
<1> HIDE DEF t
<1>3. Len(t) \in Nat /\ DOMAIN t = 1..Len(t) /\ t = [i \in 1..Len(t) |-> t[i]]
  BY <1>2
<1>4. t \in Seq(Range(t))
  BY <1>3, IsASequence
<1> QED BY <1>1, <1>4 DEF t

\* The power samples of a run are in the order of their times.
LEMMA SamplesAre ==
  ASSUME NEW d, IsRecorded(d), NEW dom
  PROVE  InOrder(PowerSamples(d, dom))
<1> DEFINE file == LoadPower(d)
           col == PowerCol(file, dom)
           pairs == [i \in DOMAIN file.rows |-> <<file.rows[i].el, file.rows[i].w[col]>>]
           D == {i \in DOMAIN pairs : X(pairs[i]) # None /\ Y(pairs[i]) # None}
           points == Only(pairs, D)
<1>1. IsTrace(file)
  BY DEF LoadPower, IsRecorded
<1> HIDE DEF file, col
<1>2. pairs \in Seq(Range(pairs)) /\ Len(pairs) = Len(file.rows) /\ Len(file.rows) \in Nat
      /\ \A i \in 1..Len(pairs) : X(pairs[i]) = file.rows[i].el
  <2>1. file.rows \in Seq(Range(file.rows))
    BY <1>1 DEF IsTrace
  <2>2. DOMAIN file.rows = 1..Len(file.rows) /\ Len(file.rows) \in Nat
    BY <2>1
  <2>3. DOMAIN pairs = 1..Len(file.rows) /\ pairs = [i \in 1..Len(file.rows) |-> pairs[i]]
    BY <2>2
  <2>4. \A i \in 1..Len(file.rows) : X(pairs[i]) = file.rows[i].el
    BY <2>2 DEF X
  <2> HIDE DEF pairs
  <2>5. pairs \in Seq(Range(pairs)) /\ Len(pairs) = Len(file.rows)
    BY <2>2, <2>3, IsASequence
  <2> QED BY <2>2, <2>4, <2>5
<1> HIDE DEF pairs
<1>3. \A i \in D : i \in 1..Len(pairs) /\ X(pairs[i]) \in Int
  <2> SUFFICES ASSUME NEW i \in D PROVE i \in 1..Len(pairs) /\ X(pairs[i]) \in Int
    OBVIOUS
  <2>1. i \in 1..Len(pairs) /\ X(pairs[i]) # None /\ X(pairs[i]) = file.rows[i].el
    BY <1>2
  <2>2. file.rows[i] \in Range(file.rows)
    BY <2>1, <1>1, <1>2 DEF IsTrace, Range
  <2> QED BY <2>1, <2>2, <1>1 DEF IsTrace, Numbers
<1>4. \A i, j \in D : i <= j => X(pairs[i]) <= X(pairs[j])
  <2> SUFFICES ASSUME NEW i \in D, NEW j \in D, i <= j PROVE X(pairs[i]) <= X(pairs[j])
    OBVIOUS
  <2>1. i \in DOMAIN file.rows /\ j \in DOMAIN file.rows
    <3>1. file.rows \in Seq(Range(file.rows))
      BY <1>1 DEF IsTrace
    <3> QED BY <3>1, <1>2, <1>3
  <2>2. X(pairs[i]) = file.rows[i].el /\ X(pairs[j]) = file.rows[j].el
    BY <1>2, <1>3
  <2>3. X(pairs[i]) # None /\ X(pairs[j]) # None
    OBVIOUS
  <2> QED BY <2>1, <2>2, <2>3, <1>1 DEF IsTrace
<1>5. D \subseteq DOMAIN pairs
  OBVIOUS
<1> HIDE DEF D
<1>6. PICK p : Picks(p, points, pairs, D)
  BY <1>2, <1>5, OnlyOf
<1>7. points \in Seq(Range(points))
  BY <1>2, <1>5, OnlyOf
<1> HIDE DEF points
<1>8. \A i \in 1..Len(points) : p[i] \in D /\ points[i] = pairs[p[i]] /\ p[i] \in Int
  <2>1. \A i \in 1..Len(points) : p[i] \in D /\ points[i] = pairs[p[i]]
    BY <1>6 DEF Picks
  <2> QED BY <2>1, <1>2, <1>3
<1>9. \A i, j \in 1..Len(points) : i <= j => p[i] <= p[j]
  <2> SUFFICES ASSUME NEW i \in 1..Len(points), NEW j \in 1..Len(points), i <= j PROVE p[i] <= p[j]
    OBVIOUS
  <2>1. i = j \/ i < j
    BY <1>7
  <2>2. i < j => p[i] < p[j]
    BY <1>6 DEF Picks
  <2> QED BY <2>1, <2>2, <1>8
<1>10. InOrder(points)
  BY <1>3, <1>4, <1>7, <1>8, <1>9 DEF InOrder
<1>11. PowerSamples(d, dom) = points
  BY DEF PowerSamples, Readable, Where, points, D, pairs, file, col
<1> QED BY <1>10, <1>11

\* The parts of the invariant give the property.
LEMMA HandsOn ==
  ASSUME GivenOK, pc \in Steps, FitHandedOn, BestHandedOn
  PROVE  HandedOn
<1>1. After("residuals") => ("06" \in DOMAIN drawn <=> "05" \in DOMAIN drawn)
  BY AfterIs DEF FitHandedOn, ToResiduals
<1>2. "06" \in DOMAIN drawn => /\ drawn["06"].fit = drawn["05"] /\ drawn["06"].of = drawn["05"]
                               /\ drawn["06b"].fit = drawn["06"].fit
  <2> SUFFICES ASSUME "06" \in DOMAIN drawn
               PROVE  /\ drawn["06"].fit = drawn["05"] /\ drawn["06"].of = drawn["05"]
                      /\ drawn["06b"].fit = drawn["06"].fit
    OBVIOUS
  <2>1. pc \notin ToResiduals /\ pc \notin ToFit /\ "05" \in DOMAIN drawn
    BY DEF FitHandedOn, ToResiduals
  <2> QED BY <2>1 DEF FitHandedOn
<1>3. Len(Pairs(Lookup(best), Points)) = Len(Points)
  <2>1. IsRecorded(Primary)
    BY EachRecorded DEF Primary, GivenOK
  <2>2. Points \in Seq(Range(Points))
    BY <2>1, SamplesAre DEF Points, InOrder
  <2> QED BY <2>2 DEF Pairs
<1>4. After("pmu_scatter") =>
        /\ ("08" \in DOMAIN drawn <=> best # None)
        /\ best # None => /\ best \in drawn["07"] \ {"cpu_pct"}
                          /\ drawn["08"].feature = best /\ Len(drawn["08"].of) = Len(Points)
  <2> SUFFICES ASSUME After("pmu_scatter")
               PROVE  /\ ("08" \in DOMAIN drawn <=> best # None)
                      /\ best # None => /\ best \in drawn["07"] \ {"cpu_pct"}
                                        /\ drawn["08"].feature = best /\ Len(drawn["08"].of) = Len(Points)
    OBVIOUS
  <2>1. "08" \in DOMAIN drawn <=> best # None
    BY AfterIs DEF BestHandedOn
  <2>2. best # None => best \in drawn["07"] \ {"cpu_pct"}
    BY DEF BestHandedOn, Candidates
  <2>3. best # None => drawn["08"] = [feature |-> best, of |-> Pairs(Lookup(best), Points)]
    BY <2>1 DEF BestHandedOn
  <2> QED BY <1>3, <2>1, <2>2, <2>3
<1> QED BY <1>1, <1>2, <1>4 DEF HandedOn

----------------------------------------------------------------------------
\* The names and values that stand beside each other.
Labels == IF labels = None THEN dirs ELSE labels
Labelled == Min({Len(dirs), Len(Labels)})

BarsNamed ==
  /\ pc \in ToBars => "03" \notin DOMAIN drawn
  /\ "03" \in DOMAIN drawn => /\ drawn["03"] = Bars(WithEnergy(Len(dirs)), dirs)
                              /\ Len(WithEnergy(Len(dirs))) >= 2
  /\ "10" \in DOMAIN drawn => drawn["10"] = Bars(WithEnergy(Labelled), Labels)

\* A metric's means are those of the runs that have values of it, in their order.
MeansOfRuns ==
  /\ \A m \in Metrics : cross[m] = <<>> \/ cross[m] = RunStat(m)
  /\ \A m \in Metrics : table[m] = <<>> \/ table[m] = Named(RunStat(m))
  /\ pc \notin ToCross /\ "03" \in DOMAIN drawn => cross["power"] = RunStat("power")

LEMMA NamesInit == Init => BarsNamed /\ MeansOfRuns
BY DEF Init, BarsNamed, MeansOfRuns, ToBars, ToCross, ToStats, ToScatter, ToBest, ToResiduals, ToFit

\* What is said of a run depends on what was read only.
LEMMA RunsKept ==
  ASSUME dirs' = dirs, domain' = domain, labels' = labels
  PROVE  /\ \A n : WithEnergy(n)' = WithEnergy(n)
         /\ \A runs, names : Bars(runs, names)' = Bars(runs, names)
         /\ \A m : RunStat(m)' = RunStat(m)
         /\ \A means : Named(means)' = Named(means)
         /\ Labels' = Labels /\ Labelled' = Labelled
<1>1. \A d : Joules(d)' = Joules(d)
  BY DEF Joules
<1>2. \A n : WithEnergy(n)' = WithEnergy(n)
  BY <1>1 DEF WithEnergy, Indices, Where
<1>3. \A runs, names : Bars(runs, names)' = Bars(runs, names)
  BY <1>1 DEF Bars
<1>4. \A m, d : Values(m, d)' = Values(m, d)
  BY DEF Values
<1>5. \A m : RunStat(m)' = RunStat(m)
  BY <1>4 DEF RunStat, Indices, Where
<1> QED BY <1>2, <1>3, <1>5 DEF Named, Labels, Labelled

\* Each of the four functions that name a run leaves the others' names alone.
LEMMA NamesKept == BarsNamed /\ MeansOfRuns /\ [Next]_vars => BarsNamed' /\ MeansOfRuns'
<1> SUFFICES ASSUME BarsNamed, MeansOfRuns, [Next]_vars PROVE BarsNamed' /\ MeansOfRuns'
  OBVIOUS
<1>0. dirs' = dirs /\ domain' = domain /\ labels' = labels
  BY StepTouches DEF Untouched, vars, given
<1> DEFINE runs3 == WithEnergy(Len(dirs))
           bars3 == Bars(runs3, dirs)
           runs10 == WithEnergy(Labelled)
           bars10 == Bars(runs10, Labels)
<1>1. runs3' = runs3 /\ bars3' = bars3 /\ bars10' = bars10
  BY <1>0, RunsKept
<1>2. \A m : RunStat(m)' = RunStat(m) /\ Named(RunStat(m))' = Named(RunStat(m))
  BY <1>0, RunsKept
<1> HIDE DEF runs3, runs10, bars3, bars10
<1>3. BarsNamed <=> /\ pc \in ToBars => "03" \notin DOMAIN drawn
                    /\ "03" \in DOMAIN drawn => drawn["03"] = bars3 /\ Len(runs3) >= 2
                    /\ "10" \in DOMAIN drawn => drawn["10"] = bars10
  BY DEF BarsNamed, runs3, runs10, bars3, bars10
<1>4. BarsNamed' <=> /\ pc' \in ToBars => "03" \notin DOMAIN drawn'
                     /\ "03" \in DOMAIN drawn' => drawn'["03"] = bars3 /\ Len(runs3) >= 2
                     /\ "10" \in DOMAIN drawn' => drawn'["10"] = bars10
  BY <1>1 DEF BarsNamed, runs3, runs10, bars3, bars10
<1>5. BarsNamed'
  <2>1. CASE UNCHANGED vars
    BY <2>1, <1>3, <1>4 DEF vars
  <2>2. CASE Next /\ pc = "repeatability"
    <3>1. DrawIf(Len(runs3) >= 2, One("03", bars3))
      BY <2>2, StepIs DEF PlotRepeatability, runs3, bars3
    <3>2. /\ Len(runs3) >= 2 => "03" \in DOMAIN drawn' /\ drawn'["03"] = bars3
          /\ ~(Len(runs3) >= 2) => Same("03")
      BY <3>1, DrawnOne
    <3>3. Same("10") /\ pc' \notin ToBars
      BY <2>2, StepTouches, StepLeaves DEF Untouched
    <3> QED BY <3>2, <3>3, <1>3, <1>4 DEF Same
  <2>3. CASE Next /\ pc = "comparison"
    <3>1. DrawIf(Len(runs10) >= 2, One("10", bars10))
      BY <2>3, StepIs DEF PlotWorkloadComparison, runs10, bars10, Labels, Labelled
    <3>2. /\ Len(runs10) >= 2 => "10" \in DOMAIN drawn' /\ drawn'["10"] = bars10
          /\ ~(Len(runs10) >= 2) => Same("10")
      BY <3>1, DrawnOne
    <3>3. Same("03") /\ (pc' \in ToBars => pc \in ToBars)
      BY <2>3, StepTouches, StepLeaves DEF Untouched
    <3> QED BY <3>2, <3>3, <1>3, <1>4 DEF Same
  <2>4. CASE Next /\ pc # "repeatability" /\ pc # "comparison"
    <3>1. Same("03") /\ Same("10") /\ (pc' \in ToBars => pc \in ToBars)
      BY <2>4, StepTouches, StepLeaves DEF Untouched
    <3> QED BY <3>1, <1>3, <1>4 DEF Same
  <2> QED BY <2>1, <2>2, <2>3, <2>4
<1>6. MeansOfRuns'
  <2>1. CASE UNCHANGED vars
    BY <2>1, <1>2 DEF vars, MeansOfRuns
  <2>2. CASE Next /\ pc = "cross_run"
    <3>1. cross' = [m \in Metrics |-> RunStat(m)]
      BY <2>2, StepIs DEF CrossRunStats
    <3>2. table' = table
      BY <2>2, StepTouches DEF Untouched
    <3>3. \A m \in Metrics : cross'[m] = RunStat(m)
      BY <3>1
    <3> QED BY <3>2, <3>3, <1>2 DEF MeansOfRuns, Metrics
  <2>3. CASE Next /\ pc # "cross_run"
    <3>1. cross' = cross
      BY <2>3, StepTouches DEF Untouched
    <3>2. \A m \in Metrics : table'[m] = <<>> \/ table'[m] = Named(RunStat(m))
      <4>1. CASE pc = "table"
        <5>1. table' = [m \in Metrics |-> Named(cross[m])]
          BY <2>3, <4>1, StepIs DEF PrintStatsTable
        <5>2. Named(<<>>) = <<>>
          BY DEF Named
        <5> QED BY <5>1, <5>2 DEF MeansOfRuns
      <4>2. CASE pc # "table"
        BY <2>3, <4>2, StepTouches DEF Untouched, MeansOfRuns
      <4> QED BY <4>1, <4>2
    <3>3. pc' \notin ToCross /\ "03" \in DOMAIN drawn' => cross'["power"] = RunStat("power")
      <4>1. CASE pc = "repeatability"
        <5>1. pc' \in ToCross
          BY <2>3, <4>1, StepMoves DEF Moves, ToCross
        <5> QED BY <5>1
      <4>2. CASE pc # "repeatability"
        <5>1. Same("03")
          BY <2>3, <4>2, StepTouches DEF Untouched
        <5>2. pc \in ToBars => "03" \notin DOMAIN drawn
          BY DEF BarsNamed
        <5>3. pc' \notin ToCross /\ pc \in ToCross => pc \in ToBars
          BY <2>3, StepLeaves
        <5> QED BY <3>1, <5>1, <5>2, <5>3 DEF MeansOfRuns, Same
      <4> QED BY <4>1, <4>2
    <3> QED BY <3>1, <3>2, <3>3, <1>2 DEF MeansOfRuns
  <2> QED BY <2>1, <2>2, <2>3
<1> QED BY <1>5, <1>6

----------------------------------------------------------------------------
\* Of the first n runs, those in D.
UpToN(n) == [i \in 1..n |-> i]

LEMMA RunsOf ==
  ASSUME NEW n \in Nat, NEW D, D \subseteq 1..n
  PROVE  LET runs == Only(UpToN(n), D)
         IN  /\ runs \in Seq(1..n) /\ Len(runs) = Cardinality(D)
             /\ Picks(runs, runs, UpToN(n), D)
             /\ \A j \in 1..Len(runs) : runs[j] \in D
<1> DEFINE s == UpToN(n)
           runs == Only(s, D)
<1>1. s \in Seq(1..n) /\ Len(s) = n /\ \A i \in 1..n : s[i] = i
  BY DEF UpToN
<1> HIDE DEF s
<1>2. runs \in Seq(1..n)
  BY <1>1, OnlyPicks
<1>3. PICK p : Picks(p, runs, s, D)
  BY <1>1, OnlyPicks
<1>4. Len(runs) = Cardinality(D)
  BY <1>1, OnlyCounts
<1> HIDE DEF runs
<1>5. \A j \in 1..Len(runs) : runs[j] = p[j] /\ p[j] \in D
  BY <1>1, <1>3 DEF Picks
<1>6. p = [j \in 1..Len(runs) |-> p[j]] /\ runs = [j \in 1..Len(runs) |-> runs[j]]
  BY <1>2, <1>3 DEF Picks
<1>7. p = runs
  BY <1>5, <1>6
<1> QED BY <1>2, <1>3, <1>4, <1>5, <1>7 DEF s, runs

\* The runs compared by their energies, and those with values of a metric.
Energetic(n) == {i \in 1..n : Len(Joules(Recorded[dirs[i]])) >= 2}
Having(m)    == {i \in 1..Len(dirs) : Values(m, Recorded[dirs[i]]) # <<>>}

\* The runs a graph or a table leaves out: as few as it says, the others in order.
LEMMA TheRuns ==
  ASSUME GivenOK
  PROVE  /\ \A n \in 0..Len(dirs) : WithEnergy(n) = Only(UpToN(n), Energetic(n))
         /\ \A m : LET runs == Only(UpToN(Len(dirs)), Having(m))
                   IN  RunStat(m) = IF Len(runs) < 2 THEN <<>>
                                    ELSE [j \in DOMAIN runs |->
                                            [of |-> runs[j], mean |-> Mean(Values(m, Recorded[dirs[runs[j]]]))]]
<1>1. Len(dirs) \in Nat /\ DOMAIN dirs = 1..Len(dirs)
  BY DEF GivenOK
<1>2. Indices = UpToN(Len(dirs)) /\ Indices \in Seq(1..Len(dirs)) /\ Len(Indices) = Len(dirs)
  BY <1>1 DEF Indices, UpToN
<1>3. ASSUME NEW n \in 0..Len(dirs) PROVE WithEnergy(n) = Only(UpToN(n), Energetic(n))
  <2> DEFINE s == SubSeq(Indices, 1, n)
  <2>1. s = UpToN(n)
    <3>1. s = [i \in 1..n |-> Indices[i]]
      BY <1>1, <1>2
    <3>2. \A i \in 1..n : Indices[i] = i
      BY <1>1, <1>2 DEF UpToN
    <3> QED BY <3>1, <3>2 DEF UpToN
  <2>2. {i \in DOMAIN UpToN(n) : Len(Joules(Recorded[dirs[UpToN(n)[i]]])) >= 2} = Energetic(n)
    BY DEF UpToN, Energetic
  <2> QED BY <2>1, <2>2 DEF WithEnergy, Where
<1>4. ASSUME NEW m
      PROVE  LET runs == Only(UpToN(Len(dirs)), Having(m))
             IN  RunStat(m) = IF Len(runs) < 2 THEN <<>>
                              ELSE [j \in DOMAIN runs |->
                                      [of |-> runs[j], mean |-> Mean(Values(m, Recorded[dirs[runs[j]]]))]]
  <2> DEFINE N == Len(dirs)
  <2>1. {i \in DOMAIN UpToN(N) : Values(m, Recorded[dirs[UpToN(N)[i]]]) # <<>>} = Having(m)
    BY DEF UpToN, Having
  <2> HIDE DEF N
  <2>2. Indices = UpToN(N)
    BY <1>2 DEF N
  <2> QED BY <2>1, <2>2 DEF RunStat, Where, N
<1> QED BY <1>3, <1>4

\* A label without a directory, or a directory without a label, is left out.
LEMMA LabelledIs ==
  ASSUME GivenOK
  PROVE  /\ Labelled \in 0..Len(dirs) /\ Labelled <= Len(Labels)
         /\ labels # None => DOMAIN labels = 1..Len(labels)
<1>1. Len(dirs) \in Nat
  BY DEF GivenOK
<1>2. labels # None => labels \in Seq(STRING)
  BY GivenAssumption DEF GivenOK
<1>3. Len(Labels) \in Nat
  BY <1>1, <1>2 DEF Labels
<1>4. Labelled = IF Len(dirs) <= Len(Labels) THEN Len(dirs) ELSE Len(Labels)
  BY <1>1, <1>3, OfTwo DEF Labelled
<1> QED BY <1>1, <1>2, <1>3, <1>4

\* When every run before the one at place k has values, its mean is the k-th.
LEMMA AreNamed ==
  ASSUME GivenOK, BarsNamed, MeansOfRuns
  PROVE  RunsNamed
<1> DEFINE N == Len(dirs)
<1>0. N \in Nat /\ DOMAIN dirs = 1..N
  BY DEF GivenOK
<1>1. ASSUME NEW m \in Metrics, NEW j \in DOMAIN table[m],
             \A i \in 1..table[m][j].of : Values(m, Recorded[dirs[i]]) # <<>>
      PROVE  table[m][j].name = dirs[table[m][j].of]
  <2> DEFINE D == Having(m)
             runs == Only(UpToN(N), D)
  <2>1. table[m] = Named(RunStat(m))
    <3>1. DOMAIN <<>> = {}
      OBVIOUS
    <3> QED BY <1>1, <3>1 DEF MeansOfRuns
  <2>2. D \subseteq 1..N
    BY DEF Having
  <2>3. runs \in Seq(1..N) /\ Picks(runs, runs, UpToN(N), D) /\ \A i \in 1..Len(runs) : runs[i] \in D
    <3> HIDE DEF D, N
    <3> QED BY <1>0, <2>2, RunsOf
  <2>4. RunStat(m) = IF Len(runs) < 2 THEN <<>>
                     ELSE [i \in DOMAIN runs |-> [of |-> runs[i], mean |-> Mean(Values(m, Recorded[dirs[runs[i]]]))]]
    BY TheRuns
  <2> HIDE DEF runs, D
  <2>5. j \in 1..Len(runs) /\ RunStat(m)[j].of = runs[j] /\ table[m][j].of = runs[j] /\ table[m][j].name = dirs[j]
    <3>1. DOMAIN RunStat(m) = DOMAIN table[m] /\ DOMAIN <<>> = {}
      BY <2>1 DEF Named
    <3>2. j \in DOMAIN RunStat(m)
      BY <3>1
    <3>3. RunStat(m) = [i \in DOMAIN runs |-> [of |-> runs[i], mean |-> Mean(Values(m, Recorded[dirs[runs[i]]]))]]
      BY <2>4, <3>1, <3>2
    <3>4. j \in DOMAIN runs /\ RunStat(m)[j].of = runs[j]
      BY <3>2, <3>3
    <3>5. j \in 1..Len(runs)
      BY <3>4, <2>3
    <3> QED BY <3>2, <3>4, <3>5, <2>1 DEF Named
  <2> DEFINE k == runs[j]
  <2>6. k \in 1..N /\ k \in Nat /\ k >= 1
    BY <1>0, <2>3, <2>5
  <2>7. 1..k \subseteq D
    BY <1>1, <2>5, <2>6, <1>0 DEF D, Having
  <2>8. D \subseteq Nat \ {0}
    BY <2>2, <1>0
  <2> HIDE DEF k
  <2>9. InFront(runs, runs, k)
    BY <2>3, <2>6, <2>7, <2>8, PicksFirst
  <2>10. k \in 1..Len(runs) /\ runs[k] = k /\ runs[j] = k
    BY <2>6, <2>9 DEF InFront, k
  <2>11. j = k
    <3>1. j < k => runs[j] < runs[k]
      BY <2>3, <2>5, <2>10 DEF Picks
    <3>2. k < j => runs[k] < runs[j]
      BY <2>3, <2>5, <2>10 DEF Picks
    <3> QED BY <3>1, <3>2, <2>5, <2>6, <2>10
  <2> QED BY <2>5, <2>10, <2>11
<1>2. ASSUME NEW n \in 0..N, NEW names, NEW j \in DOMAIN Bars(WithEnergy(n), names)
      PROVE  \E i \in 1..n : /\ Bars(WithEnergy(n), names)[j].name = names[i]
                             /\ Bars(WithEnergy(n), names)[j].joules = Joules(Recorded[dirs[i]])
  <2> DEFINE runs == WithEnergy(n)
  <2>1. runs = Only(UpToN(n), Energetic(n)) /\ Energetic(n) \subseteq 1..n /\ n \in Nat
    BY <1>0, TheRuns DEF Energetic
  <2>2. runs \in Seq(1..n)
    BY <2>1, RunsOf
  <2> HIDE DEF runs
  <2>3. j \in DOMAIN runs /\ Bars(runs, names)[j] = [name |-> names[runs[j]], joules |-> Joules(Recorded[dirs[runs[j]]])]
    BY DEF Bars, runs
  <2>4. runs[j] \in 1..n
    BY <2>2, <2>3
  <2> QED BY <2>3, <2>4 DEF runs
<1>3. ASSUME NEW j \in DOMAIN drawn["03"], "03" \in DOMAIN drawn
      PROVE  \E i \in DOMAIN dirs : dirs[i] = drawn["03"][j].name /\ Joules(Recorded[dirs[i]]) = drawn["03"][j].joules
  <2>1. drawn["03"] = Bars(WithEnergy(N), dirs) /\ N \in 0..N
    BY <1>0, <1>3 DEF BarsNamed
  <2>2. PICK i \in 1..N : /\ Bars(WithEnergy(N), dirs)[j].name = dirs[i]
                          /\ Bars(WithEnergy(N), dirs)[j].joules = Joules(Recorded[dirs[i]])
    <3> HIDE DEF N
    <3> QED BY <1>2, <1>3, <2>1
  <2> QED BY <1>0, <2>1, <2>2
<1>4. ASSUME NEW j \in DOMAIN drawn["10"], "10" \in DOMAIN drawn
      PROVE  \E i \in DOMAIN dirs : /\ labels = None \/ i \in DOMAIN labels
                                    /\ Labels[i] = drawn["10"][j].name
                                    /\ Joules(Recorded[dirs[i]]) = drawn["10"][j].joules
  <2>1. drawn["10"] = Bars(WithEnergy(Labelled), Labels) /\ Labelled \in 0..N
    BY <1>4, LabelledIs DEF BarsNamed
  <2>2. PICK i \in 1..Labelled : /\ Bars(WithEnergy(Labelled), Labels)[j].name = Labels[i]
                                 /\ Bars(WithEnergy(Labelled), Labels)[j].joules = Joules(Recorded[dirs[i]])
    <3> HIDE DEF N
    <3> QED BY <1>2, <1>4, <2>1
  <2>3. i \in DOMAIN dirs /\ (labels = None \/ i \in DOMAIN labels)
    <3>1. Labelled <= Len(Labels) /\ (labels # None => DOMAIN labels = 1..Len(labels) /\ Len(labels) \in Nat)
      <4>1. labels # None => labels \in Seq(STRING)
        BY GivenAssumption DEF GivenOK
      <4> QED BY <4>1, LabelledIs
    <3> QED BY <3>1, <2>1, <2>2, <1>0 DEF Labels
  <2> QED BY <2>1, <2>2, <2>3
<1>5. ASSUME NEW g \in {"03", "10"} \cap DOMAIN drawn, NEW j \in DOMAIN drawn[g]
      PROVE  LET bar      == drawn[g][j]
                 label(i) == IF g = "03" \/ labels = None THEN dirs[i] ELSE labels[i]
             IN  \E i \in DOMAIN dirs :
                   /\ g = "03" \/ labels = None \/ i \in DOMAIN labels
                   /\ label(i) = bar.name /\ Joules(Recorded[dirs[i]]) = bar.joules
  <2>1. CASE g = "03"
    BY <1>3, <1>5, <2>1
  <2>2. CASE g = "10"
    BY <1>4, <1>5, <2>2 DEF Labels
  <2> QED BY <2>1, <2>2
<1> QED BY <1>1, <1>5 DEF RunsNamed

----------------------------------------------------------------------------
\* Sums of numbers none of which is greater.
LEMMA TotalMono ==
  ASSUME NEW s \in Seq(Int), NEW t \in Seq(Int), Len(s) = Len(t), \A i \in 1..Len(s) : s[i] <= t[i]
  PROVE  Total(s) <= Total(t)
<1> DEFINE n == Len(s)
<1>1. PICK p \in [0..n -> Int] : p[0] = 0 /\ \A i \in 1..n : p[i] = p[i - 1] + s[i]
  BY PrefixSums
<1>2. PICK q \in [0..n -> Int] : q[0] = 0 /\ \A i \in 1..n : q[i] = q[i - 1] + t[i]
  BY PrefixSums
<1>3. Total(s) = p[n] /\ Total(t) = q[n]
  BY <1>1, <1>2, TotalIs
<1>4. n \in Nat /\ \A i \in 1..n : s[i] \in Int /\ t[i] \in Int /\ s[i] <= t[i]
  OBVIOUS
<1> HIDE DEF n
<1> DEFINE T == {i \in Nat : i <= n => p[i] <= q[i]}
<1>5. 0 \in T
  BY <1>1, <1>2
<1>6. ASSUME NEW i \in Nat, i \in T PROVE i + 1 \in T
  <2> SUFFICES ASSUME i + 1 <= n PROVE p[i + 1] <= q[i + 1]
    OBVIOUS
  <2>1. i + 1 \in 1..n /\ (i + 1) - 1 = i /\ i \in 0..n /\ p[i] <= q[i]
    BY <1>4, <1>6
  <2>2. PICK x \in Int, y \in Int : x = p[i] /\ y = q[i]
    BY <1>1, <1>2, <2>1
  <2>3. PICK u \in Int, v \in Int : u = s[i + 1] /\ v = t[i + 1] /\ u <= v
    BY <1>4, <2>1
  <2>4. p[i + 1] = x + u /\ q[i + 1] = y + v
    BY <1>1, <1>2, <2>1, <2>2, <2>3
  <2>5. x <= y
    BY <2>1, <2>2
  <2>6. x + u <= y + v
    BY <2>3, <2>5
  <2> QED BY <2>4, <2>6
<1> HIDE DEF T
<1>7. n \in T
  BY <1>4, <1>5, <1>6, ByInduction
<1> QED BY <1>3, <1>4, <1>7 DEF T

\* A list of lists made one.
AllLists(ss) == ss \in Seq(Range(ss)) /\ \A i \in 1..Len(ss) : ss[i] \in Seq(Range(ss[i]))

\* It is as long as they are together, and the first one is at its front.
LEMMA Flattened ==
  ASSUME NEW ss, AllLists(ss), Len(ss) >= 1
  PROVE  /\ Len(FlattenSeq(ss)) = Total([i \in 1..Len(ss) |-> Len(ss[i])])
         /\ IsPrefix(ss[1], FlattenSeq(ss))
<1> DEFINE n == Len(ss)
           S == UNION {Range(ss[i]) : i \in 1..n}
           H == [x \in (1..n) \X Seq(S) |-> x[2] \o ss[x[1]]]
           G == CHOOSE g : g = [i \in 1..n |-> IF i = 1 THEN ss[i] ELSE g[i - 1] \o ss[i]]
<1>1. n \in Nat /\ n >= 1 /\ 1 \in 1..n
  BY DEF AllLists
<1>2. \A i \in 1..n : ss[i] \in Seq(S)
  <2> SUFFICES ASSUME NEW i \in 1..n PROVE ss[i] \in Seq(S)
    OBVIOUS
  <2>1. Range(ss[i]) \subseteq S
    OBVIOUS
  <2>2. ss[i] \in Seq(Range(ss[i]))
    BY DEF AllLists
  <2> HIDE DEF S
  <2>3. Len(ss[i]) \in Nat /\ DOMAIN ss[i] = 1..Len(ss[i]) /\ ss[i] = [j \in 1..Len(ss[i]) |-> ss[i][j]]
    BY <2>2
  <2>4. \A j \in 1..Len(ss[i]) : ss[i][j] \in S
    BY <2>1, <2>3 DEF Range
  <2>5. ss[i] \in [1..Len(ss[i]) -> S]
    BY <2>3, <2>4
  <2> QED BY <2>3, <2>5
<1> HIDE DEF S
<1>3. PICK g : Follows(g, H, <<>>, n, Seq(S))
  <2>1. IsStep(H, n, Seq(S))
    <3>1. \A x \in (1..n) \X Seq(S) : x[2] \o ss[x[1]] \in Seq(S)
      BY <1>2
    <3> QED BY <3>1 DEF IsStep
  <2>2. <<>> \in Seq(S)
    OBVIOUS
  <2> HIDE DEF H, n
  <2> QED BY <1>1, <2>1, <2>2, Recursion
<1>4. g \in [0..n -> Seq(S)] /\ g[0] = <<>> /\ \A i \in 1..n : g[i] = g[i - 1] \o ss[i]
  <2>1. g \in [0..n -> Seq(S)] /\ g[0] = <<>> /\ \A i \in 1..n : g[i] = H[<<i, g[i - 1]>>]
    <3> HIDE DEF H, n
    <3> QED BY <1>3 DEF Follows
  <2>2. ASSUME NEW i \in 1..n PROVE g[i] = g[i - 1] \o ss[i]
    <3>1. i - 1 \in 0..n /\ g[i - 1] \in Seq(S)
      BY <1>1, <2>1
    <3>2. <<i, g[i - 1]>> \in (1..n) \X Seq(S)
      BY <3>1
    <3> QED BY <2>1, <3>2
  <2> QED BY <2>1, <2>2
<1>5. g[1] = ss[1]
  <2>1. g[1] = g[0] \o ss[1]
    <3>1. 1 - 1 = 0
      OBVIOUS
    <3> QED BY <1>1, <1>4, <3>1
  <2>2. ss[1] \in Seq(S)
    BY <1>1, <1>2
  <2>3. <<>> \o ss[1] = ss[1]
    BY <2>2
  <2> QED BY <1>4, <2>1, <2>3
<1> HIDE DEF H
<1> DEFINE Step(f) == [i \in 1..n |-> IF i = 1 THEN ss[i] ELSE f[i - 1] \o ss[i]]
<1>6. G = Step(G)
  <2> DEFINE f == [i \in 1..n |-> g[i]]
  <2>1. ASSUME NEW i \in 1..n PROVE f[i] = IF i = 1 THEN ss[i] ELSE f[i - 1] \o ss[i]
    <3>1. i = 1 \/ i - 1 \in 1..n
      BY <1>1
    <3> QED BY <3>1, <1>4, <1>5
  <2>2. f = Step(f)
    <3>1. f = [i \in 1..n |-> f[i]]
      OBVIOUS
    <3> HIDE DEF f
    <3> QED BY <2>1, <3>1
  <2> HIDE DEF f, n
  <2>3. \E h : h = Step(h)
    BY <2>2
  <2> QED BY <2>3
<1>7. FlattenSeq(ss) = G[n]
  BY <1>1 DEF FlattenSeq
<1>8. G[1] = ss[1] /\ \A i \in 2..n : G[i] = G[i - 1] \o ss[i]
  <2>1. \A i \in 1..n : G[i] = IF i = 1 THEN ss[i] ELSE G[i - 1] \o ss[i]
    <3> HIDE DEF G
    <3> QED BY <1>6
  <2> HIDE DEF G, n
  <2>2. G[1] = ss[1]
    BY <2>1, <1>1
  <2>3. ASSUME NEW i \in 2..n PROVE G[i] = G[i - 1] \o ss[i]
    <3>1. i \in 1..n /\ i # 1
      BY <1>1
    <3> QED BY <2>1, <3>1
  <2> QED BY <2>2, <2>3
<1> HIDE DEF G, n
<1> DEFINE T == {i \in Nat : i + 1 <= n => G[i + 1] = g[i + 1]}
<1>9. 0 \in T
  BY <1>5, <1>8
<1>10. ASSUME NEW i \in Nat, i \in T PROVE i + 1 \in T
  <2> SUFFICES ASSUME (i + 1) + 1 <= n PROVE G[(i + 1) + 1] = g[(i + 1) + 1]
    OBVIOUS
  <2>1. (i + 1) + 1 \in 2..n /\ (i + 1) + 1 \in 1..n /\ ((i + 1) + 1) - 1 = i + 1 /\ i + 1 <= n
    BY <1>1
  <2>2. G[i + 1] = g[i + 1]
    BY <1>10, <2>1
  <2> QED BY <1>4, <1>8, <2>1, <2>2
<1>11. \A i \in 1..n : G[i] = g[i]
  <2>1. \A i \in Nat : i \in T
    <3> HIDE DEF T
    <3> QED BY <1>9, <1>10, ByInduction
  <2> SUFFICES ASSUME NEW i \in 1..n PROVE G[i] = g[i]
    OBVIOUS
  <2>2. i - 1 \in Nat /\ (i - 1) + 1 = i /\ i <= n
    BY <1>1
  <2>3. i - 1 \in T
    BY <2>1, <2>2
  <2> QED BY <2>2, <2>3
<1> HIDE DEF T
<1>12. Len(FlattenSeq(ss)) = Total([i \in 1..n |-> Len(ss[i])])
  <2> DEFINE t == [i \in 1..n |-> Len(ss[i])]
             p == [i \in 0..n |-> Len(g[i])]
  <2>1. t \in Seq(Int) /\ Len(t) = n
    <3>1. \A i \in 1..n : Len(ss[i]) \in Int
      BY <1>2
    <3> QED BY <1>1, <3>1
  <2>2. p[0] = 0 /\ p[n] = Len(FlattenSeq(ss))
    BY <1>1, <1>4, <1>7, <1>11
  <2>3. \A i \in 1..Len(t) : p[i] = p[i - 1] + t[i]
    <3> SUFFICES ASSUME NEW i \in 1..n PROVE p[i] = p[i - 1] + t[i]
      BY <2>1
    <3>1. i \in 0..n /\ i - 1 \in 0..n
      BY <1>1
    <3>2. g[i - 1] \in Seq(S) /\ ss[i] \in Seq(S) /\ g[i] = g[i - 1] \o ss[i]
      BY <1>2, <1>4, <3>1
    <3>3. Len(g[i]) = Len(g[i - 1]) + Len(ss[i])
      BY <3>2
    <3> QED BY <3>1, <3>3
  <2> HIDE DEF t, p
  <2>4. Total(t) = p[Len(t)]
    BY <2>1, <2>2, <2>3, TotalIs
  <2> QED BY <2>1, <2>2, <2>4 DEF t
<1>13. IsPrefix(ss[1], FlattenSeq(ss))
  <2> DEFINE a == ss[1]
             B(i) == Len(a) <= Len(g[i + 1]) /\ \A j \in 1..Len(a) : g[i + 1][j] = a[j]
             U == {i \in Nat : i + 1 <= n => B(i)}
  <2>1. a \in Seq(S) /\ Len(a) \in Nat
    BY <1>1, <1>2
  <2>2. 0 \in U
    BY <1>5, <2>1
  <2>3. ASSUME NEW i \in Nat, i \in U PROVE i + 1 \in U
    <3> SUFFICES ASSUME (i + 1) + 1 <= n PROVE B(i + 1)
      OBVIOUS
    <3>1. (i + 1) + 1 \in 1..n /\ ((i + 1) + 1) - 1 = i + 1 /\ i + 1 <= n /\ i + 1 \in 0..n
      BY <1>1
    <3>2. PICK x, y : x = g[i + 1] /\ y = ss[(i + 1) + 1]
      OBVIOUS
    <3>3. x \in Seq(S) /\ y \in Seq(S) /\ g[(i + 1) + 1] = x \o y
      BY <1>2, <1>4, <3>1, <3>2
    <3>4. Len(a) <= Len(x) /\ \A j \in 1..Len(a) : x[j] = a[j]
      BY <2>3, <3>1, <3>2
    <3>5. Len(x \o y) = Len(x) + Len(y) /\ \A j \in 1..Len(x) : (x \o y)[j] = x[j]
      BY <3>3
    <3>6. Len(x) \in Nat /\ Len(y) \in Nat
      BY <3>3
    <3> HIDE DEF a
    <3> QED BY <2>1, <3>3, <3>4, <3>5, <3>6
  <2>4. \A i \in Nat : i \in U
    <3> HIDE DEF U
    <3> QED BY <2>2, <2>3, ByInduction
  <2>5. n - 1 \in Nat /\ (n - 1) + 1 = n
    BY <1>1
  <2>6. Len(a) <= Len(g[n]) /\ \A j \in 1..Len(a) : g[n][j] = a[j]
    <3>1. n - 1 \in U
      BY <2>4, <2>5
    <3> QED BY <2>5, <3>1, <1>1
  <2>7. g[n] = FlattenSeq(ss) /\ g[n] \in Seq(S)
    BY <1>1, <1>4, <1>7, <1>11
  <2> HIDE DEF a
  <2>8. PICK f \in Seq(S) : f = g[n]
    BY <2>7
  <2>9. SubSeq(a, 1, Len(a)) = [j \in 1..Len(a) |-> a[j]] /\ SubSeq(f, 1, Len(a)) = [j \in 1..Len(a) |-> f[j]]
    BY <2>1, <2>6, <2>8
  <2>10. IsPrefix(a, f)
    BY <2>6, <2>8, <2>9 DEF IsPrefix
  <2> QED BY <2>7, <2>8, <2>10 DEF a
<1> QED BY <1>12, <1>13 DEF n

----------------------------------------------------------------------------
\* The windows of a run: no more than its invocations.
Numbered(ws) == ws \in Seq(Range(ws)) /\ \A i \in 1..Len(ws) : ws[i][1] \in Int /\ ws[i][2] \in Int

\* A list made of another one by its places.
LEMMA MappedSeq ==
  ASSUME NEW s, s \in Seq(Range(s)), NEW t, DOMAIN t = DOMAIN s, t = [i \in DOMAIN s |-> t[i]]
  PROVE  t \in Seq(Range(t)) /\ Len(t) = Len(s) /\ DOMAIN t = 1..Len(t) /\ Len(t) \in Nat
<1>1. DOMAIN s = 1..Len(s) /\ Len(s) \in Nat
  OBVIOUS
<1>2. t \in Seq(Range(t)) /\ Len(t) = Len(s)
  BY <1>1, IsASequence
<1> QED BY <1>1, <1>2

\* A list of some elements of another is no longer.
LEMMA OnlyIsShorter ==
  ASSUME NEW s, s \in Seq(Range(s)), NEW D, D \subseteq DOMAIN s
  PROVE  Len(Only(s, D)) <= Len(s) /\ Len(Only(s, D)) = Cardinality(D) /\ Len(Only(s, D)) \in Nat
<1>1. DOMAIN s = 1..Len(s) /\ Len(s) \in Nat
  OBVIOUS
<1>2. Len(Only(s, D)) = Cardinality(D)
  BY <1>1, OnlyCounts
<1>3. IsFiniteSet(1..Len(s)) /\ Cardinality(1..Len(s)) = Len(s)
  <2>1. IsFiniteSet(1..Len(s)) /\ Cardinality(1..Len(s)) = IF 1 > Len(s) THEN 0 ELSE Len(s) - 1 + 1
    BY <1>1, FS_Interval
  <2> QED BY <1>1, <2>1
<1>4. Cardinality(D) <= Len(s)
  BY <1>1, <1>3, FS_Subset
<1>5. Only(s, D) \in Seq(Range(s))
  BY OnlyOf
<1> QED BY <1>2, <1>4, <1>5

\* Of a file's pairs only those of two numbers are read.
LEMMA ReadablePairs ==
  ASSUME NEW s, s \in Seq(Range(s)), NEW t, DOMAIN t = DOMAIN s, t = [i \in DOMAIN s |-> t[i]],
         \A i \in DOMAIN s : X(t[i]) \in Numbers /\ Y(t[i]) \in Numbers
  PROVE  Numbered(Readable(t)) /\ Len(Readable(t)) <= Len(s)
<1> DEFINE D == {i \in DOMAIN t : X(t[i]) # None /\ Y(t[i]) # None}
           r == Only(t, D)
<1>1. t \in Seq(Range(t)) /\ Len(t) = Len(s)
  BY MappedSeq
<1>2. \A i \in D : t[i][1] \in Int /\ t[i][2] \in Int
  BY DEF X, Y, Numbers
<1>3. D \subseteq DOMAIN t
  OBVIOUS
<1> HIDE DEF D
<1>4. PICK p : Picks(p, r, t, D)
  BY <1>1, <1>3, OnlyOf
<1>5. r \in Seq(Range(r)) /\ Len(r) <= Len(s)
  BY <1>1, <1>3, OnlyOf, OnlyIsShorter
<1> HIDE DEF r
<1>6. \A i \in 1..Len(r) : p[i] \in D /\ r[i] = t[p[i]]
  BY <1>4 DEF Picks
<1>7. Numbered(r)
  BY <1>2, <1>5, <1>6 DEF Numbered
<1> QED BY <1>5, <1>7 DEF Readable, Where, r, D

\* The wall-clock time of the power file's beginning, if any row tells it.
LEMMA OriginIs ==
  ASSUME NEW d, IsRecorded(d)
  PROVE  RaplClockOrigin(d) = None \/ RaplClockOrigin(d) \in Int
<1> DEFINE rows == LoadPower(d).rows
           I == {i \in 1..Len(rows) : rows[i].ts # None /\ rows[i].el # None}
           at == IF I # {} THEN Min(I) ELSE 0
<1>1. RaplClockOrigin(d) = IF at = 0 THEN None ELSE rows[at].ts - rows[at].el
  BY DEF RaplClockOrigin, SelectInSeq
<1>2. IsTrace(LoadPower(d))
  BY DEF LoadPower, IsRecorded
<1>3. rows \in Seq(Range(rows)) /\ \A r \in Range(rows) : {r.ts, r.el} \subseteq Numbers
  BY <1>2 DEF IsTrace
<1> HIDE DEF rows
<1>4. I # {} => Min(I) \in I
  <2>1. I \subseteq Nat
    OBVIOUS
  <2> HIDE DEF I
  <2> QED BY <2>1, MinIsLeast
<1>5. I # {} => rows[Min(I)].ts \in Int /\ rows[Min(I)].el \in Int
  <2> SUFFICES ASSUME I # {} PROVE rows[Min(I)].ts \in Int /\ rows[Min(I)].el \in Int
    OBVIOUS
  <2>1. Min(I) \in 1..Len(rows) /\ rows[Min(I)].ts # None /\ rows[Min(I)].el # None
    BY <1>4
  <2>2. rows[Min(I)] \in Range(rows)
    <3>1. DOMAIN rows = 1..Len(rows)
      BY <1>3
    <3> QED BY <2>1, <3>1 DEF Range
  <2> QED BY <2>1, <2>2, <1>3 DEF Numbers
<1>6. CASE I = {}
  BY <1>1, <1>6
<1>7. CASE I # {}
  <2>1. PICK a \in Int, b \in Int : a = rows[Min(I)].ts /\ b = rows[Min(I)].el
    BY <1>5, <1>7
  <2>2. RaplClockOrigin(d) = a - b \/ RaplClockOrigin(d) = None
    BY <1>1, <1>7, <2>1
  <2> QED BY <2>2
<1> QED BY <1>6, <1>7

\* The windows are intervals of numbers, no more than there are invocations.
LEMMA WindowsAre ==
  ASSUME NEW d, IsRecorded(d)
  PROVE  Numbered(InvocationWindows(d)) /\ Len(InvocationWindows(d)) <= Len(d.inv) /\ Len(d.inv) \in Nat
<1> DEFINE origin == RaplClockOrigin(d)
           isos == [i \in DOMAIN d.inv |-> <<d.inv[i].startIso, d.inv[i].endIso>>]
           elapsed == [i \in DOMAIN d.inv |-> <<d.inv[i].startElapsed, d.inv[i].endElapsed>>]
           wall == Readable(isos)
           aligned == [i \in DOMAIN wall |-> <<wall[i][1] - origin, wall[i][2] - origin>>]
<1>1. InvocationWindows(d) = IF origin # None /\ wall # <<>> THEN aligned ELSE Readable(elapsed)
  BY DEF InvocationWindows
<1>2. d.inv \in Seq(Range(d.inv))
  BY DEF IsRecorded
<1>3. \A i \in DOMAIN d.inv : /\ d.inv[i].startIso \in Numbers /\ d.inv[i].endIso \in Numbers
                              /\ d.inv[i].startElapsed \in Numbers /\ d.inv[i].endElapsed \in Numbers
  BY DEF IsRecorded, Range
<1>4. Numbered(wall) /\ Len(wall) <= Len(d.inv)
  <2>1. DOMAIN isos = DOMAIN d.inv /\ \A i \in DOMAIN d.inv : X(isos[i]) \in Numbers /\ Y(isos[i]) \in Numbers
    BY <1>3 DEF X, Y
  <2>2. isos = [i \in DOMAIN d.inv |-> isos[i]]
    OBVIOUS
  <2> HIDE DEF isos
  <2> QED BY <1>2, <2>1, <2>2, ReadablePairs
<1>5. Numbered(Readable(elapsed)) /\ Len(Readable(elapsed)) <= Len(d.inv)
  <2>1. DOMAIN elapsed = DOMAIN d.inv /\ \A i \in DOMAIN d.inv : X(elapsed[i]) \in Numbers /\ Y(elapsed[i]) \in Numbers
    BY <1>3 DEF X, Y
  <2>2. elapsed = [i \in DOMAIN d.inv |-> elapsed[i]]
    OBVIOUS
  <2> HIDE DEF elapsed
  <2> QED BY <1>2, <2>1, <2>2, ReadablePairs
<1> HIDE DEF isos, elapsed, wall, origin
<1>6. origin # None => Numbered(aligned) /\ Len(aligned) = Len(wall)
  <2> SUFFICES ASSUME origin # None PROVE Numbered(aligned) /\ Len(aligned) = Len(wall)
    OBVIOUS
  <2>1. origin \in Int
    BY OriginIs DEF origin
  <2>2. wall \in Seq(Range(wall)) /\ DOMAIN aligned = DOMAIN wall /\ aligned = [i \in DOMAIN wall |-> aligned[i]]
    BY <1>4 DEF Numbered
  <2>3. \A i \in DOMAIN wall : aligned[i] = <<wall[i][1] - origin, wall[i][2] - origin>>
    OBVIOUS
  <2> HIDE DEF aligned
  <2>4. aligned \in Seq(Range(aligned)) /\ Len(aligned) = Len(wall) /\ DOMAIN wall = 1..Len(wall)
    BY <2>2, MappedSeq
  <2>5. ASSUME NEW i \in 1..Len(wall) PROVE aligned[i][1] \in Int /\ aligned[i][2] \in Int
    <3>1. PICK a \in Int, b \in Int : a = wall[i][1] /\ b = wall[i][2]
      BY <1>4 DEF Numbered
    <3>2. aligned[i] = <<a - origin, b - origin>>
      BY <2>3, <2>4, <3>1
    <3> QED BY <2>1, <3>2
  <2> QED BY <2>4, <2>5 DEF Numbered
<1> HIDE DEF aligned
<1>7. Len(d.inv) \in Nat
  BY <1>2
<1> QED BY <1>1, <1>4, <1>5, <1>6, <1>7

----------------------------------------------------------------------------
\* The samples in one window, and the windows with at least so many.
Section(points, w) == {j \in DOMAIN points : w[1] <= X(points[j]) /\ X(points[j]) <= w[2]}
Filled(points, ws, n) == {i \in DOMAIN ws : Len(Inside(points, ws[i][1], ws[i][2])) >= n}

\* What is integrated are the samples of the window.
LEMMA InsideIs ==
  ASSUME NEW points, InOrder(points), NEW w
  PROVE  /\ Inside(points, w[1], w[2]) = Only(points, Section(points, w))
         /\ Len(Inside(points, w[1], w[2])) = Cardinality(Section(points, w))
         /\ Len(Inside(points, w[1], w[2])) <= Len(points)
         /\ Len(Inside(points, w[1], w[2])) \in Nat
<1>1. points \in Seq(Range(points))
  BY DEF InOrder
<1>2. Inside(points, w[1], w[2]) = Only(points, Section(points, w))
  BY DEF Inside, Where, Section
<1>3. Section(points, w) \subseteq DOMAIN points
  BY DEF Section
<1> QED BY <1>1, <1>2, <1>3, OnlyIsShorter

\* A window with an energy has a mean: two samples, or one.
LEMMA PerWindow ==
  ASSUME NEW points, InOrder(points), NEW ws, Numbered(ws)
  PROVE  LET joules == IntegratePerWindow(points, ws)
             means  == MeanPerWindow(points, ws)
         IN  /\ joules \in Seq(Range(joules)) /\ Len(joules) = Cardinality(Filled(points, ws, 2))
             /\ means \in Seq(Range(means)) /\ Len(means) = Cardinality(Filled(points, ws, 1))
             /\ Len(joules) <= Len(means) /\ Len(means) <= Len(ws)
<1> DEFINE cut == [i \in DOMAIN ws |-> Inside(points, ws[i][1], ws[i][2])]
           long == Only(cut, Filled(points, ws, 2))
           some == Only(cut, Filled(points, ws, 1))
           joules == IntegratePerWindow(points, ws)
           means  == MeanPerWindow(points, ws)
<1>1. ws \in Seq(Range(ws)) /\ Len(ws) \in Nat
  BY DEF Numbered
<1>2. cut \in Seq(Range(cut)) /\ Len(cut) = Len(ws) /\ DOMAIN cut = DOMAIN ws
  <2>1. DOMAIN cut = DOMAIN ws /\ cut = [i \in DOMAIN ws |-> cut[i]]
    OBVIOUS
  <2> HIDE DEF cut
  <2> QED BY <1>1, <2>1, MappedSeq
<1>3. joules = [i \in DOMAIN long |-> Trapezoid2(long[i])] /\ means = [i \in DOMAIN some |-> Mean(Ys(some[i]))]
  <2>1. Filled(points, ws, 2) = {i \in DOMAIN cut : Len(cut[i]) >= 2}
    BY DEF Filled
  <2>2. Filled(points, ws, 1) = {i \in DOMAIN cut : Len(cut[i]) >= 1}
    BY DEF Filled
  <2>3. joules = [i \in DOMAIN long |-> Trapezoid2(long[i])]
    BY <2>1 DEF IntegratePerWindow, Where
  <2>4. means = [i \in DOMAIN some |-> Mean(Ys(some[i]))]
    BY <2>2 DEF MeanPerWindow, Where
  <2> QED BY <2>3, <2>4
<1>4. Filled(points, ws, 2) \subseteq Filled(points, ws, 1) /\ Filled(points, ws, 1) \subseteq DOMAIN cut
  <2>1. \A i \in DOMAIN ws : Len(Inside(points, ws[i][1], ws[i][2])) \in Nat
    BY InsideIs
  <2> QED BY <2>1 DEF Filled
<1> HIDE DEF cut
<1>5. /\ long \in Seq(Range(long)) /\ Len(long) = Cardinality(Filled(points, ws, 2))
      /\ some \in Seq(Range(some)) /\ Len(some) = Cardinality(Filled(points, ws, 1)) /\ Len(some) <= Len(ws)
  BY <1>2, <1>4, OnlyOf, OnlyIsShorter
<1> HIDE DEF long, some
<1>6. /\ joules \in Seq(Range(joules)) /\ Len(joules) = Len(long)
      /\ means \in Seq(Range(means)) /\ Len(means) = Len(some)
  <2>1. DOMAIN joules = DOMAIN long /\ joules = [i \in DOMAIN long |-> joules[i]]
    BY <1>3
  <2>2. DOMAIN means = DOMAIN some /\ means = [i \in DOMAIN some |-> means[i]]
    BY <1>3
  <2> HIDE DEF joules, means
  <2> QED BY <1>5, <2>1, <2>2, MappedSeq
<1>7. Cardinality(Filled(points, ws, 2)) <= Cardinality(Filled(points, ws, 1))
  <2>1. IsFiniteSet(1..Len(ws)) /\ DOMAIN cut = 1..Len(ws)
    BY <1>1, <1>2, FS_Interval
  <2>2. IsFiniteSet(Filled(points, ws, 1))
    BY <1>4, <2>1, FS_Subset
  <2> QED BY <1>4, <2>2, FS_Subset
<1> QED BY <1>5, <1>6, <1>7

\* A run has no more energies than powers, and no more powers than invocations.
LEMMA EnergiesAre ==
  ASSUME NEW d, IsRecorded(d)
  PROVE  /\ Joules(d) \in Seq(Range(Joules(d))) /\ PowerMeans(d) \in Seq(Range(PowerMeans(d)))
         /\ Len(Joules(d)) <= Len(PowerMeans(d)) /\ Len(PowerMeans(d)) <= Len(d.inv) /\ Len(d.inv) \in Nat
<1>1. InOrder(PowerSamples(d, domain))
  BY SamplesAre
<1>2. Numbered(InvocationWindows(d)) /\ Len(InvocationWindows(d)) <= Len(d.inv) /\ Len(d.inv) \in Nat
      /\ Len(InvocationWindows(d)) \in Nat
  BY WindowsAre DEF Numbered
<1> DEFINE joules == IntegratePerWindow(PowerSamples(d, domain), InvocationWindows(d))
           means == MeanPerWindow(PowerSamples(d, domain), InvocationWindows(d))
<1>3. /\ joules \in Seq(Range(joules)) /\ means \in Seq(Range(means))
      /\ Len(joules) <= Len(means) /\ Len(means) <= Len(InvocationWindows(d))
  BY <1>1, <1>2, PerWindow
<1>4. Joules(d) = IF HasPower(d, domain) THEN joules ELSE <<>>
  BY DEF Joules
<1>5. PowerMeans(d) = IF HasPower(d, domain) THEN means ELSE <<>>
  BY DEF PowerMeans
<1> HIDE DEF joules, means
<1>6. CASE HasPower(d, domain)
  <2>1. Len(means) \in Nat
    BY <1>3
  <2> QED BY <1>2, <1>3, <1>4, <1>5, <1>6, <2>1
<1>7. CASE ~HasPower(d, domain)
  <2>1. <<>> \in Seq(Range(<<>>)) /\ Len(<<>>) = 0
    OBVIOUS
  <2> QED BY <1>2, <1>4, <1>5, <1>7, <2>1
<1> QED BY <1>6, <1>7

----------------------------------------------------------------------------
\* The slack around a window is none that takes away from it.
LEMMA PadIsNone ==
  ASSUME NEW points, InOrder(points)
  PROVE  Pad(Xs(points)) \in Nat
<1> DEFINE xs == Xs(points)
           n == Len(points)
           gaps == [i \in 1..(n - 1) |-> xs[i + 1] - xs[i]]
<1>1. n \in Nat /\ DOMAIN points = 1..n
  BY DEF InOrder
<1>2. xs \in Seq(Int) /\ Len(xs) = n /\ \A i, j \in 1..n : i <= j => xs[i] <= xs[j]
  <2>1. xs = [i \in 1..n |-> X(points[i])]
    BY <1>1 DEF Xs
  <2>2. \A i \in 1..n : X(points[i]) \in Int
    BY DEF InOrder
  <2>3. \A i, j \in 1..n : i <= j => X(points[i]) <= X(points[j])
    BY DEF InOrder
  <2> HIDE DEF n
  <2> QED BY <1>1, <2>1, <2>2, <2>3
<1> HIDE DEF xs, n
<1>3. CASE n < 2
  BY <1>2, <1>3, BoundAssumption DEF Pad, xs
<1>4. CASE n >= 2
  <2>1. \A i \in 1..(n - 1) : gaps[i] \in Int /\ gaps[i] >= 0
    <3> SUFFICES ASSUME NEW i \in 1..(n - 1) PROVE xs[i + 1] - xs[i] \in Int /\ xs[i + 1] - xs[i] >= 0
      OBVIOUS
    <3>1. i \in 1..n /\ i + 1 \in 1..n /\ i <= i + 1
      BY <1>1
    <3>2. PICK a \in Int, b \in Int : a = xs[i] /\ b = xs[i + 1]
      BY <1>2, <3>1
    <3>3. a <= b
      BY <1>2, <3>1, <3>2
    <3> QED BY <3>2, <3>3
  <2>2. gaps \in Seq(Int) /\ Len(gaps) = n - 1
    <3>1. n - 1 \in Nat
      BY <1>1, <1>4
    <3>2. gaps \in [1..(n - 1) -> Int]
      <4>1. gaps = [i \in 1..(n - 1) |-> gaps[i]]
        OBVIOUS
      <4> HIDE DEF gaps
      <4> QED BY <2>1, <4>1
    <3> HIDE DEF gaps
    <3> QED BY <3>1, <3>2
  <2>3. Pad(xs) = Median2(gaps)
    BY <1>1, <1>2, <1>4 DEF Pad
  <2> HIDE DEF gaps
  <2>4. Len(gaps) > 0
    BY <1>1, <1>4, <2>2
  <2>5. PICK i, j \in 1..Len(gaps) : Median2(gaps) = gaps[i] + gaps[j]
    BY <2>2, <2>4, MedianIsOfTwo
  <2>6. gaps[i] \in Nat /\ gaps[j] \in Nat
    BY <2>1, <2>2
  <2> QED BY <2>3, <2>5, <2>6 DEF xs
<1> QED BY <1>1, <1>3, <1>4

\* A run with two energies has values of its power.
LEMMA HasValues ==
  ASSUME NEW d, IsRecorded(d), Len(Joules(d)) >= 2
  PROVE  Values("power", d) # <<>>
<1> DEFINE points == PowerSamples(d, domain)
           ws == InvocationWindows(d)
<1>1. InOrder(points) /\ Numbered(ws)
  BY SamplesAre, WindowsAre
<1>2. HasPower(d, domain)
  <2>1. ~(Len(<<>>) >= 2)
    OBVIOUS
  <2> QED BY <2>1 DEF Joules
<1>3. Joules(d) = IntegratePerWindow(points, ws)
  BY <1>2 DEF Joules
<1>4. Values("power", d) = ActivePart(points, ws)
  BY <1>2 DEF Values
<1> HIDE DEF points, ws
<1>5. Cardinality(Filled(points, ws, 2)) >= 2
  BY <1>1, <1>3, PerWindow
<1>6. PICK i \in DOMAIN ws : Len(Inside(points, ws[i][1], ws[i][2])) >= 2
  <2>1. Filled(points, ws, 2) # {}
    <3>1. Cardinality({}) = 0
      BY FS_EmptySet
    <3> QED BY <1>5, <3>1
  <2> QED BY <2>1 DEF Filled
<1> DEFINE E == Section(points, ws[i])
<1>7. Cardinality(E) >= 2 /\ Len(points) >= 2
  <2>1. /\ Len(Inside(points, ws[i][1], ws[i][2])) = Cardinality(E)
        /\ Len(Inside(points, ws[i][1], ws[i][2])) <= Len(points)
        /\ Len(Inside(points, ws[i][1], ws[i][2])) \in Nat
    BY <1>1, InsideIs
  <2>2. Len(points) \in Nat
    BY <1>1 DEF InOrder
  <2> HIDE DEF E
  <2> QED BY <1>6, <2>1, <2>2
<1>8. PICK j : j \in E
  <2>1. Cardinality({}) = 0
    BY FS_EmptySet
  <2>2. Cardinality(E) = 0 => FALSE
    BY <1>7
  <2>3. E = {} => Cardinality(E) = Cardinality({})
    OBVIOUS
  <2> HIDE DEF E
  <2> QED BY <2>1, <2>2, <2>3
<1>9. j \in DOMAIN points /\ IsActive(X(points[j]), ws, Pad(Xs(points)))
  <2>1. j \in DOMAIN points /\ ws[i][1] <= X(points[j]) /\ X(points[j]) <= ws[i][2]
    BY <1>8 DEF Section
  <2>2. j \in 1..Len(points) /\ i \in 1..Len(ws)
    <3>1. DOMAIN points = 1..Len(points) /\ DOMAIN ws = 1..Len(ws)
      BY <1>1 DEF InOrder, Numbered
    <3> QED BY <2>1, <3>1
  <2>3. PICK x \in Int, a \in Int, b \in Int, pad \in Nat :
          x = X(points[j]) /\ a = ws[i][1] /\ b = ws[i][2] /\ pad = Pad(Xs(points))
    <3>1. X(points[j]) \in Int
      BY <1>1, <2>2 DEF InOrder
    <3>2. ws[i][1] \in Int /\ ws[i][2] \in Int
      BY <1>1, <2>2 DEF Numbered
    <3>3. Pad(Xs(points)) \in Nat
      BY <1>1, PadIsNone
    <3> QED BY <3>1, <3>2, <3>3
  <2>4. a - pad <= x /\ x <= b + pad
    BY <2>1, <2>3
  <2> QED BY <2>1, <2>3, <2>4 DEF IsActive
<1> DEFINE A == {k \in DOMAIN points : IsActive(X(points[k]), ws, Pad(Xs(points)))}
           t == Only(points, A)
<1>10. SplitActiveIdle(points, ws).active = Ys(t)
  BY DEF SplitActiveIdle, Where
<1>11. j \in A /\ A \subseteq DOMAIN points
  BY <1>9
<1> HIDE DEF A
<1>12. PICK p : Picks(p, t, points, A)
  BY <1>1, <1>11, OnlyOf DEF InOrder
<1> HIDE DEF t
<1>13. Ys(t) # <<>>
  <2>1. PICK k \in 1..Len(t) : p[k] = j
    BY <1>11, <1>12 DEF Picks
  <2>2. DOMAIN t = 1..Len(t)
    <3>1. t \in Seq(Range(points))
      BY <1>1, <1>11, OnlyOf DEF InOrder, t
    <3> QED BY <3>1
  <2>3. k \in DOMAIN Ys(t)
    BY <2>1, <2>2 DEF Ys
  <2>4. DOMAIN <<>> = {}
    OBVIOUS
  <2> QED BY <2>3, <2>4
<1>14. ActivePart(points, ws) = Ys(t)
  <2>1. ws # <<>> /\ ~(Len(points) < 2)
    <3>1. DOMAIN <<>> = {}
      OBVIOUS
    <3>2. Len(points) \in Nat
      BY <1>1 DEF InOrder
    <3> QED BY <1>6, <1>7, <3>1, <3>2
  <2> QED BY <2>1, <1>10 DEF ActivePart
<1> QED BY <1>4, <1>13, <1>14

----------------------------------------------------------------------------
\* What has been counted.
AllJoules == [i \in DOMAIN dirs |-> Joules(Recorded[dirs[i]])]
AllMeans  == [i \in DOMAIN dirs |-> PowerMeans(Recorded[dirs[i]])]

Counted ==
  /\ "04" \in DOMAIN drawn => drawn["04"] = Joules(Primary)
  /\ pc \notin ToStats => inv.energy = FlattenSeq(AllJoules) /\ inv.power = FlattenSeq(AllMeans)

LEMMA CountedInit == Init => Counted
BY DEF Init, Counted, ToStats, ToScatter, ToBest, ToResiduals, ToFit

\* The lists of the report are those of all runs, one after another.
LEMMA CountedKept == Counted /\ [Next]_vars => Counted'
<1> SUFFICES ASSUME Counted, [Next]_vars PROVE Counted'
  OBVIOUS
<1>0. dirs' = dirs /\ domain' = domain
  BY StepTouches DEF Untouched, vars, given
<1>1. AllJoules' = AllJoules /\ AllMeans' = AllMeans /\ Joules(Primary)' = Joules(Primary)
  BY <1>0 DEF AllJoules, AllMeans, Joules, PowerMeans, Primary
<1>2. CASE UNCHANGED vars
  BY <1>1, <1>2 DEF vars, Counted
<1>3. CASE Next
  <2>1. "04" \in DOMAIN drawn' => drawn'["04"] = Joules(Primary)
    <3>1. CASE pc = "energy"
      <4>1. DrawIf(Len(Joules(Primary)) >= 2, One("04", Joules(Primary)))
        BY <1>3, <3>1, StepIs DEF PlotEnergyDistribution
      <4>2. Same("04") \/ drawn'["04"] = Joules(Primary)
        BY <4>1, DrawnOne
      <4> QED BY <4>2 DEF Counted, Same
    <3>2. CASE pc # "energy"
      BY <1>3, <3>2, StepTouches DEF Untouched, Same, Counted
    <3> QED BY <3>1, <3>2
  <2>2. pc' \notin ToStats => inv'.energy = FlattenSeq(AllJoules) /\ inv'.power = FlattenSeq(AllMeans)
    <3>1. CASE pc = "invocations"
      <4>1. /\ [i \in DOMAIN Given |-> Joules(Given[i])] = AllJoules
            /\ [i \in DOMAIN Given |-> PowerMeans(Given[i])] = AllMeans
        BY DEF Given, AllJoules, AllMeans
      <4>2. /\ inv'.energy = FlattenSeq([i \in DOMAIN Given |-> Joules(Given[i])])
            /\ inv'.power = FlattenSeq([i \in DOMAIN Given |-> PowerMeans(Given[i])])
        BY <1>3, <3>1, StepIs DEF PerInvocationStats
      <4> QED BY <4>1, <4>2
    <3>2. CASE pc # "invocations"
      BY <1>3, <3>2, StepTouches, StepLeaves DEF Untouched, Counted
    <3> QED BY <3>1, <3>2
  <2> QED BY <1>1, <2>1, <2>2 DEF Counted
<1> QED BY <1>2, <1>3

\* The sums behind the tables.
LEMMA TheSums ==
  ASSUME GivenOK
  PROVE  LET N == Len(dirs)
             lens == [i \in 1..N |-> Len(Joules(Recorded[dirs[i]]))]
             calls == [i \in 1..N |-> Len(Recorded[dirs[i]].inv)]
         IN  /\ lens \in Seq(Int) /\ Len(lens) = N /\ \A i \in 1..N : lens[i] >= 0
             /\ Len(FlattenSeq(AllJoules)) = Total(lens)
             /\ Len(FlattenSeq(AllJoules)) <= Len(FlattenSeq(AllMeans))
             /\ Len(FlattenSeq(AllMeans)) <= Total(calls)
             /\ IsPrefix(Joules(Primary), FlattenSeq(AllJoules))
<1> DEFINE N == Len(dirs)
           lens == [i \in 1..N |-> Len(Joules(Recorded[dirs[i]]))]
           mids == [i \in 1..N |-> Len(PowerMeans(Recorded[dirs[i]]))]
           calls == [i \in 1..N |-> Len(Recorded[dirs[i]].inv)]
<1>1. N \in Nat /\ N >= 1 /\ DOMAIN dirs = 1..N
  BY DEF GivenOK
<1>2. ASSUME NEW i \in 1..N
      PROVE  /\ AllJoules[i] \in Seq(Range(AllJoules[i])) /\ AllMeans[i] \in Seq(Range(AllMeans[i]))
             /\ Len(AllJoules[i]) = lens[i] /\ Len(AllMeans[i]) = mids[i]
             /\ lens[i] \in Nat /\ mids[i] \in Nat /\ calls[i] \in Nat
             /\ lens[i] <= mids[i] /\ mids[i] <= calls[i]
  <2>1. IsRecorded(Recorded[dirs[i]])
    BY <1>1, EachRecorded
  <2> DEFINE d == Recorded[dirs[i]]
  <2>2. AllJoules[i] = Joules(d) /\ AllMeans[i] = PowerMeans(d)
    BY <1>1 DEF AllJoules, AllMeans
  <2>3. lens[i] = Len(Joules(d)) /\ mids[i] = Len(PowerMeans(d)) /\ calls[i] = Len(d.inv)
    OBVIOUS
  <2> HIDE DEF d, lens, mids, calls
  <2>4. /\ Joules(d) \in Seq(Range(Joules(d))) /\ PowerMeans(d) \in Seq(Range(PowerMeans(d)))
        /\ Len(Joules(d)) <= Len(PowerMeans(d)) /\ Len(PowerMeans(d)) <= Len(d.inv) /\ Len(d.inv) \in Nat
    BY <2>1, EnergiesAre DEF d
  <2>5. Len(Joules(d)) \in Nat /\ Len(PowerMeans(d)) \in Nat
    BY <2>4
  <2> QED BY <2>2, <2>3, <2>4, <2>5
<1>3. /\ lens \in Seq(Int) /\ Len(lens) = N /\ mids \in Seq(Int) /\ Len(mids) = N
      /\ calls \in Seq(Int) /\ Len(calls) = N
  <2>1. lens = [i \in 1..N |-> lens[i]] /\ mids = [i \in 1..N |-> mids[i]] /\ calls = [i \in 1..N |-> calls[i]]
    OBVIOUS
  <2> HIDE DEF lens, mids, calls, N
  <2>2. lens \in [1..N -> Int] /\ mids \in [1..N -> Int] /\ calls \in [1..N -> Int]
    BY <1>2, <2>1
  <2> QED BY <1>1, <2>2
<1>4. /\ AllLists(AllJoules) /\ Len(AllJoules) = N
      /\ AllLists(AllMeans) /\ Len(AllMeans) = N
  <2>1. DOMAIN AllJoules = 1..N /\ AllJoules = [i \in 1..N |-> AllJoules[i]]
    BY <1>1 DEF AllJoules
  <2>2. DOMAIN AllMeans = 1..N /\ AllMeans = [i \in 1..N |-> AllMeans[i]]
    BY <1>1 DEF AllMeans
  <2> HIDE DEF N, lens, mids, calls
  <2>3. AllJoules \in Seq(Range(AllJoules)) /\ Len(AllJoules) = N
    BY <1>1, <2>1, IsASequence
  <2>4. AllMeans \in Seq(Range(AllMeans)) /\ Len(AllMeans) = N
    BY <1>1, <2>2, IsASequence
  <2> QED BY <1>2, <2>3, <2>4 DEF AllLists
<1>5. /\ Len(FlattenSeq(AllJoules)) = Total([i \in 1..N |-> Len(AllJoules[i])])
      /\ IsPrefix(AllJoules[1], FlattenSeq(AllJoules))
      /\ Len(FlattenSeq(AllMeans)) = Total([i \in 1..N |-> Len(AllMeans[i])])
  <2> HIDE DEF N
  <2>1. /\ Len(FlattenSeq(AllJoules)) = Total([i \in 1..Len(AllJoules) |-> Len(AllJoules[i])])
        /\ IsPrefix(AllJoules[1], FlattenSeq(AllJoules))
    BY <1>1, <1>4, Flattened
  <2>2. Len(FlattenSeq(AllMeans)) = Total([i \in 1..Len(AllMeans) |-> Len(AllMeans[i])])
    BY <1>1, <1>4, Flattened
  <2> QED BY <1>4, <2>1, <2>2
<1>6. [i \in 1..N |-> Len(AllJoules[i])] = lens /\ [i \in 1..N |-> Len(AllMeans[i])] = mids
  BY <1>1 DEF AllJoules, AllMeans
<1>7. AllJoules[1] = Joules(Primary)
  BY <1>1 DEF AllJoules, Primary
<1>8. (\A i \in 1..N : lens[i] <= mids[i] /\ mids[i] <= calls[i] /\ lens[i] \in Nat)
  BY <1>2
<1> HIDE DEF lens, mids, calls, N
<1>9. Total(lens) <= Total(mids)
  BY <1>3, <1>8, TotalMono
<1>10. Total(mids) <= Total(calls)
  BY <1>3, <1>8, TotalMono
<1>11. \A i \in 1..N : lens[i] >= 0
  BY <1>8
<1>12. /\ lens \in Seq(Int) /\ Len(lens) = N /\ \A i \in 1..N : lens[i] >= 0
       /\ Len(FlattenSeq(AllJoules)) = Total(lens)
       /\ Len(FlattenSeq(AllJoules)) <= Len(FlattenSeq(AllMeans))
       /\ Len(FlattenSeq(AllMeans)) <= Total(calls)
       /\ IsPrefix(Joules(Primary), FlattenSeq(AllJoules))
  BY <1>3, <1>5, <1>6, <1>7, <1>9, <1>10, <1>11
<1> QED BY <1>12 DEF lens, calls, N

\* The bars of graph 3 are of no more invocations than the report counts.
LEMMA BarsCount ==
  ASSUME GivenOK
  PROVE  LET bars == Bars(WithEnergy(Len(dirs)), dirs)
         IN  Total([j \in DOMAIN bars |-> Len(bars[j].joules)]) <= Len(FlattenSeq(AllJoules))
<1> DEFINE N == Len(dirs)
           D == Energetic(N)
           s == UpToN(N)
           runs == Only(s, D)
           bars == Bars(runs, dirs)
           lens == [i \in 1..N |-> Len(Joules(Recorded[dirs[i]]))]
<1>1. N \in Nat /\ D \subseteq 1..N
  BY DEF GivenOK, Energetic
<1>2. WithEnergy(N) = runs
  <2>1. N \in 0..N
    BY <1>1
  <2> QED BY <2>1, TheRuns
<1>3. lens \in Seq(Int) /\ Len(lens) = N /\ (\A i \in 1..N : lens[i] >= 0)
      /\ Len(FlattenSeq(AllJoules)) = Total(lens)
  BY TheSums
<1>4. runs \in Seq(1..N)
  <2> HIDE DEF D, N
  <2> QED BY <1>1, RunsOf
<1>5. s \in Seq(1..N) /\ Len(s) = N /\ \A i \in 1..N : s[i] = i
  <2> HIDE DEF N
  <2> QED BY <1>1 DEF UpToN
<1>6. [j \in DOMAIN bars |-> Len(bars[j].joules)] = Weighed(runs, lens)
  <2>1. DOMAIN bars = DOMAIN runs /\ DOMAIN runs = 1..Len(runs)
    <3>1. DOMAIN runs = 1..Len(runs)
      <4> HIDE DEF runs
      <4> QED BY <1>4
    <3> QED BY <3>1 DEF Bars
  <2>2. ASSUME NEW j \in DOMAIN runs PROVE Len(bars[j].joules) = lens[runs[j]]
    <3>1. \A k \in 1..Len(runs) : runs[k] \in 1..N
      <4> HIDE DEF runs, N, D, s
      <4>1. \A S : runs \in Seq(S) => \A k \in 1..Len(runs) : runs[k] \in S
        OBVIOUS
      <4> QED BY <1>4, <4>1
    <3>2. runs[j] \in 1..N
      BY <2>1, <3>1
    <3>3. bars[j].joules = Joules(Recorded[dirs[runs[j]]])
      BY DEF Bars
    <3> HIDE DEF runs, N, bars
    <3> QED BY <3>2, <3>3
  <2> HIDE DEF bars, lens, runs
  <2> QED BY <2>1, <2>2 DEF Weighed
<1>7. Weighed(s, lens) = lens
  <2>1. lens = [i \in 1..N |-> lens[i]]
    OBVIOUS
  <2> HIDE DEF lens, s, N
  <2> QED BY <1>5, <2>1 DEF Weighed
<1>8. lens \in [1..N -> Int] /\ \A i \in 1..Len(s) : i \notin D => lens[s[i]] >= 0
  <2>1. lens = [i \in 1..N |-> lens[i]]
    OBVIOUS
  <2> HIDE DEF lens, s, N, D
  <2>2. \A i \in 1..N : lens[i] \in Int
    BY <1>3
  <2>3. lens \in [1..N -> Int]
    BY <2>1, <2>2
  <2> QED BY <1>3, <1>5, <2>3
<1> HIDE DEF lens, N, D, s
<1>9. Total(Weighed(Only(s, D), lens)) <= Total(Weighed(s, lens))
  BY <1>5, <1>8, TotalOnly
<1>10. Total([j \in DOMAIN bars |-> Len(bars[j].joules)]) <= Len(FlattenSeq(AllJoules))
  BY <1>3, <1>6, <1>7, <1>9
<1> QED BY <1>2, <1>10 DEF N

\* A run with a bar in graph 3 has its mean of the power.
LEMMA BarsHaveMeans ==
  ASSUME GivenOK, Len(WithEnergy(Len(dirs))) >= 2
  PROVE  {bar.name : bar \in Range(Bars(WithEnergy(Len(dirs)), dirs))} \subseteq
           {dirs[v.of] : v \in Range(RunStat("power"))}
<1> DEFINE N == Len(dirs)
           D == Energetic(N)
           V == Having("power")
           barred == Only(UpToN(N), D)
           meant == Only(UpToN(N), V)
<1>1. N \in Nat /\ D \subseteq 1..N /\ V \subseteq 1..N /\ DOMAIN dirs = 1..N
  BY DEF GivenOK, Energetic, Having
<1>2. D \subseteq V
  <2> SUFFICES ASSUME NEW i \in D PROVE i \in V
    OBVIOUS
  <2>1. i \in 1..N /\ Len(Joules(Recorded[dirs[i]])) >= 2
    BY DEF Energetic
  <2>2. IsRecorded(Recorded[dirs[i]])
    BY <1>1, <2>1, EachRecorded
  <2>3. Values("power", Recorded[dirs[i]]) # <<>>
    BY <2>1, <2>2, HasValues
  <2> QED BY <2>1, <2>3 DEF Having
<1>3. WithEnergy(N) = barred
  <2>1. N \in 0..N
    BY <1>1
  <2> QED BY <2>1, TheRuns
<1>4. RunStat("power") = IF Len(meant) < 2 THEN <<>>
                         ELSE [j \in DOMAIN meant |->
                                 [of |-> meant[j], mean |-> Mean(Values("power", Recorded[dirs[meant[j]]]))]]
  BY TheRuns
<1> HIDE DEF D, V
<1>5. /\ barred \in Seq(1..N) /\ Len(barred) = Cardinality(D) /\ \A j \in 1..Len(barred) : barred[j] \in D
      /\ meant \in Seq(1..N) /\ Len(meant) = Cardinality(V) /\ Picks(meant, meant, UpToN(N), V)
  <2> HIDE DEF N
  <2> QED BY <1>1, RunsOf
<1>6. Cardinality(D) <= Cardinality(V)
  <2>1. IsFiniteSet(1..N)
    BY <1>1, FS_Interval
  <2> HIDE DEF N
  <2>2. IsFiniteSet(V)
    BY <1>1, <2>1, FS_Subset
  <2> QED BY <1>2, <2>2, FS_Subset
<1> HIDE DEF barred, meant, N
<1>7. ~(Len(meant) < 2)
  <2>1. Len(barred) >= 2 /\ Len(barred) \in Nat /\ Len(meant) \in Nat
    BY <1>3, <1>5 DEF N
  <2> QED BY <1>5, <1>6, <2>1
<1>8. ASSUME NEW bar \in Range(Bars(barred, dirs))
      PROVE  \E v \in Range(RunStat("power")) : bar.name = dirs[v.of]
  <2>1. PICK j \in DOMAIN barred : bar = [name |-> dirs[barred[j]], joules |-> Joules(Recorded[dirs[barred[j]]])]
    BY DEF Range, Bars
  <2>2. barred[j] \in V
    <3>1. j \in 1..Len(barred)
      BY <1>5, <2>1
    <3> QED BY <1>2, <1>5, <3>1
  <2>3. PICK k \in 1..Len(meant) : meant[k] = barred[j]
    BY <1>5, <2>2 DEF Picks
  <2>4. k \in DOMAIN meant
    BY <1>5, <2>3
  <2>5. k \in DOMAIN RunStat("power") /\ RunStat("power")[k].of = meant[k]
    BY <1>4, <1>7, <2>4
  <2>6. RunStat("power")[k] \in Range(RunStat("power"))
    BY <2>5 DEF Range
  <2> QED BY <2>1, <2>3, <2>5, <2>6
<1>9. {bar.name : bar \in Range(Bars(barred, dirs))} \subseteq {dirs[v.of] : v \in Range(RunStat("power"))}
  BY <1>8
<1> QED BY <1>3, <1>9 DEF N

\* The parts of the invariant give the property.
LEMMA Agree ==
  ASSUME GivenOK, pc \in Steps, Counted, BarsNamed, MeansOfRuns
  PROVE  CountsAgree
<1> DEFINE calls == [i \in DOMAIN dirs |-> Len(Recorded[dirs[i]].inv)]
           bars == Bars(WithEnergy(Len(dirs)), dirs)
<1>0. DOMAIN dirs = 1..Len(dirs)
  BY DEF GivenOK
<1>1. /\ Len(FlattenSeq(AllJoules)) <= Len(FlattenSeq(AllMeans))
      /\ Len(FlattenSeq(AllMeans)) <= Total(calls)
      /\ IsPrefix(Joules(Primary), FlattenSeq(AllJoules))
  BY <1>0, TheSums
<1>2. Total([j \in DOMAIN bars |-> Len(bars[j].joules)]) <= Len(FlattenSeq(AllJoules))
  BY BarsCount
<1>3. "03" \in DOMAIN drawn => drawn["03"] = bars
  BY DEF BarsNamed
<1> HIDE DEF calls, bars
<1>4. After("invocations") =>
        /\ Len(inv.energy) <= Len(inv.power)
        /\ Len(inv.power) <= Total(calls)
        /\ "04" \in DOMAIN drawn => IsPrefix(drawn["04"], inv.energy)
        /\ "03" \in DOMAIN drawn =>
             Total([j \in DOMAIN drawn["03"] |-> Len(drawn["03"][j].joules)]) <= Len(inv.energy)
  <2> SUFFICES ASSUME After("invocations")
               PROVE  /\ Len(inv.energy) <= Len(inv.power)
                      /\ Len(inv.power) <= Total(calls)
                      /\ "04" \in DOMAIN drawn => IsPrefix(drawn["04"], inv.energy)
                      /\ "03" \in DOMAIN drawn =>
                           Total([j \in DOMAIN drawn["03"] |-> Len(drawn["03"][j].joules)]) <= Len(inv.energy)
    OBVIOUS
  <2>1. inv.energy = FlattenSeq(AllJoules) /\ inv.power = FlattenSeq(AllMeans)
    BY AfterIs DEF Counted
  <2>2. "04" \in DOMAIN drawn => drawn["04"] = Joules(Primary)
    BY DEF Counted
  <2> QED BY <1>1, <1>2, <1>3, <2>1, <2>2
<1>5. After("cross_run") /\ "03" \in DOMAIN drawn =>
        {bar.name : bar \in Range(drawn["03"])} \subseteq {dirs[v.of] : v \in Range(cross["power"])}
  <2> SUFFICES ASSUME After("cross_run"), "03" \in DOMAIN drawn
               PROVE  {bar.name : bar \in Range(drawn["03"])} \subseteq {dirs[v.of] : v \in Range(cross["power"])}
    OBVIOUS
  <2>1. pc \notin ToCross
    BY AfterIs
  <2>2. cross["power"] = RunStat("power")
    BY <2>1 DEF MeansOfRuns
  <2>3. {bar.name : bar \in Range(bars)} \subseteq {dirs[v.of] : v \in Range(RunStat("power"))}
    BY BarsHaveMeans DEF BarsNamed, bars
  <2> QED BY <1>3, <2>2, <2>3
<1> QED BY <1>4, <1>5 DEF CountsAgree, calls

----------------------------------------------------------------------------
\* The inductive invariant.
IInv == GivenOK /\ pc \in Steps /\ FitHandedOn /\ BestHandedOn /\ BarsNamed /\ MeansOfRuns /\ Counted

LEMMA InitIInv == Init => IInv
<1> SUFFICES ASSUME Init PROVE IInv
  OBVIOUS
<1>1. PICK n \in 1..MaxDirs : dirs \in [1..n -> Directories]
  <2>1. dirs \in UNION {[1..n -> Directories] : n \in 1..MaxDirs}
    BY DEF Init
  <2> QED BY <2>1
<1>2. n \in Nat /\ n >= 1
  BY GivenAssumption
<1>3. GivenOK
  <2>1. dirs \in Seq(Directories) /\ Len(dirs) = n
    BY <1>1, <1>2
  <2> QED BY <1>2, <2>1 DEF GivenOK, Init
<1>4. pc \in Steps
  BY DEF Init, Steps, ToCross, ToBars, ToStats, ToScatter, ToBest, ToResiduals, ToFit
<1> QED BY <1>3, <1>4, FitInit, BestInit, NamesInit, CountedInit DEF IInv

LEMMA NextIInv == IInv /\ [Next]_vars => IInv'
<1> SUFFICES ASSUME IInv, [Next]_vars PROVE IInv'
  OBVIOUS
<1> USE DEF IInv
<1>1. dirs' = dirs /\ labels' = labels
  BY StepTouches DEF Untouched, vars, given
<1>2. GivenOK'
  BY <1>1 DEF GivenOK, Directories
<1>3. pc' \in Steps
  BY StepIs DEF vars
<1> QED BY <1>2, <1>3, FitKept, BestKept, NamesKept, CountedKept

LEMMA Inductive == Spec => []IInv
BY InitIInv, NextIInv, PTL DEF Spec

\* What plot_cpu_vs_power hands to plot_baseline_residuals, and plot_correlation to
\* plot_pmu_scatter, is what both graphs of the pair show: main() passes the result of
\* the first, whatever ran in between, and each function tests again what it needs.
THEOREM Handed == Spec => []HandedOn
<1>1. IInv => HandedOn
  BY HandsOn DEF IInv
<1> QED BY <1>1, Inductive, PTL

\* plot_repeatability, plot_workload_comparison and print_stats_table leave out the runs
\* they have nothing of, and what they show of the others is beside its own directory or
\* label; a mean of cross_run_stats, which forgets whose it is, while no run before its
\* own is left out.
THEOREM OwnNames == Spec => []RunsNamed
<1>1. IInv => RunsNamed
  BY AreNamed DEF IInv
<1> QED BY <1>1, Inductive, PTL

\* per_invocation_stats, plot_energy_distribution, plot_repeatability and cross_run_stats
\* each cut the samples into windows again, with thresholds of their own: what they count
\* of the same invocations agrees.
THEOREM CountAlike == Spec => []CountsAgree
<1>1. IInv => CountsAgree
  BY Agree DEF IInv
<1> QED BY <1>1, Inductive, PTL
=============================================================================
