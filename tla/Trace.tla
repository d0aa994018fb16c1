-------------------------------- MODULE Trace --------------------------------
(***************************************************************************)
(* fc_analyze_pkg.py, the part that reads a run and computes: what one     *)
(* experiment directory says about power over time and where its           *)
(* invocations lie in it.  A CSV that was not written, or whose collector  *)
(* died before its first row, has no rows.  Time is counted in ticks, of   *)
(* whatever length; numbers are integers, so a mean is kept as a sum and a *)
(* count, joules are twice the trapezoid, and quotients are truncated.     *)
(***************************************************************************)
EXTENDS TLC, Lists

CONSTANTS
  None,     \* an empty field, or one that num() or parse_iso() cannot read
  Dense,    \* traces longer than this are thinned out (4000 in the code)
  Bins,     \* to this many bins (2000)
  BandCap,  \* bands are drawn for so many windows at most (60)
  MinFit,   \* samples a fit or a correlation needs (5)
  HalfSecond  \* in ticks

ASSUME NoneAssumption  == None \notin Int
ASSUME BoundAssumption == {Dense, BandCap} \subseteq Nat /\ {Bins, MinFit, HalfSecond} \subseteq Nat \ {0}

Seconds(n) == 2 * n * HalfSecond

X(p) == p[1]
Y(p) == p[2]
Xs(points) == [i \in DOMAIN points |-> X(points[i])]
Ys(points) == [i \in DOMAIN points |-> Y(points[i])]

Mean(s) == [sum |-> Total(s), n |-> Len(s)]

Constant(s) == \A i, j \in DOMAIN s : s[i] = s[j]

(***************************************************************************)
(* The files of a run.  A power file has the columns of its header, each   *)
(* <<what, number>>, and rows with a wall-clock time ts, the seconds since *)
(* its collector started, el, and a value w for each column.               *)
(***************************************************************************)
Domains == {"package", "core", "uncore", "dram", "gfx"}

LoadPower(d) == IF d.rapl.rows # <<>> THEN d.rapl ELSE d.turbostat

\* Pairs of which both fields could be read.
Readable(pairs) == Where(pairs, LAMBDA p : X(p) # None /\ Y(p) # None)

\* The columns named *_watts.
WattCols(file) == Where(file.cols, LAMBDA c : c[1] \in Domains)

\* primary in c.lower(): a part of the name is enough.
Matches(c, what) == c[1] = what \/ (c[1] = "uncore" /\ what = "core")

FirstOf(cols, what) == SelectInSeq(cols, LAMBDA c : Matches(c, what))

Preference(domain) == IF domain = "core" THEN <<"core", "package">> ELSE <<"package", "core">>

PowerCol(file, domain) ==
  LET cols == WattCols(file)
      at   == [i \in 1..2 |-> FirstOf(cols, Preference(domain)[i])]
  IN  IF file.rows = <<>> \/ cols = <<>> THEN None
      ELSE IF at[1] # 0 THEN cols[at[1]]
      ELSE IF at[2] # 0 THEN cols[at[2]] ELSE cols[1]

\* The samples of the power target, as every graph reads them.
PowerSamples(d, domain) ==
  LET file == LoadPower(d)  col == PowerCol(file, domain)
  IN  Readable([i \in DOMAIN file.rows |-> <<file.rows[i].el, file.rows[i].w[col]>>])

HasPower(d, domain) == PowerCol(LoadPower(d), domain) # None

(***************************************************************************)
(* The invocations, on the clock of the power file.                        *)
(***************************************************************************)
RaplClockOrigin(d) ==
  LET rows == LoadPower(d).rows
      at   == SelectInSeq(rows, LAMBDA r : r.ts # None /\ r.el # None)
  IN  IF at = 0 THEN None ELSE rows[at].ts - rows[at].el

\* Both files count from an origin of their own: the windows come from wall-clock times,
\* and from the elapsed times only if there are none.
InvocationWindows(d) ==
  LET origin  == RaplClockOrigin(d)
      wall    == Readable([i \in DOMAIN d.inv |-> <<d.inv[i].startIso, d.inv[i].endIso>>])
      aligned == [i \in DOMAIN wall |-> <<wall[i][1] - origin, wall[i][2] - origin>>]
  IN  IF origin # None /\ wall # <<>> THEN aligned
      ELSE Readable([i \in DOMAIN d.inv |-> <<d.inv[i].startElapsed, d.inv[i].endElapsed>>])

(***************************************************************************)
(* perf.csv and the SAAF records.                                          *)
(***************************************************************************)
Before(p, q) == X(p) < X(q) \/ (X(p) = X(q) /\ Y(p) < Y(q))

\* An event without a row has no series.
EventPoints(d, ev) ==
  LET rows == Where(d.perf, LAMBDA r : r.t # None /\ r.v # None /\ r.event = ev)
  IN  IF rows = <<>> THEN <<>> ELSE SortSeq([i \in DOMAIN rows |-> <<rows[i].t, rows[i].v>>], Before)

\* Two series are divided point by point, in their order, if they have one length.
Derived(num, den) ==
  IF num = <<>> \/ Len(num) # Len(den) THEN <<>>
  ELSE [i \in DOMAIN num |-> <<X(num[i]), IF Y(den[i]) = 0 THEN 0 ELSE Y(num[i]) \div Y(den[i])>>]

\* The series of an event, or of a ratio of two; <<>> if the file has none.
PerfWide(d, ev) ==
  CASE ev = "ipc"              -> Derived(EventPoints(d, "instructions"), EventPoints(d, "cycles"))
    [] ev = "llc_miss_rate"    -> Derived(EventPoints(d, "LLC-load-misses"), EventPoints(d, "cache-references"))
    [] ev = "branch_miss_rate" -> Derived(EventPoints(d, "branch-misses"), EventPoints(d, "instructions"))
    [] OTHER                   -> EventPoints(d, ev)

\* d.saaf is what load_saaf_logs returns (see Invoke): the warm starts.
SaafRuntimes(d) ==
  LET with == Where(d.saaf, LAMBDA r : r.runtime # None)
  IN  [i \in DOMAIN with |-> with[i].runtime]

SaafCpuPcts(d) ==
  LET with == Where(d.saaf, LAMBDA r : r.active + r.idle > 0)
  IN  [i \in DOMAIN with |-> (100 * with[i].active) \div (with[i].active + with[i].idle)]

(***************************************************************************)
(* Samples and windows.                                                    *)
(***************************************************************************)
\* Mutant: one interval of slack.
Pad_OneInterval(xs) ==
  IF Len(xs) < 2 THEN HalfSecond
  ELSE Median2([i \in 1..(Len(xs) - 1) |-> xs[i + 1] - xs[i]]) \div 2

\* Two sample intervals.
Pad(xs) ==
  IF Len(xs) < 2 THEN HalfSecond
  ELSE Median2([i \in 1..(Len(xs) - 1) |-> xs[i + 1] - xs[i]])

IsActive(x, windows, pad) ==
  \E i \in DOMAIN windows : windows[i][1] - pad <= x /\ x <= windows[i][2] + pad

SplitActiveIdle(points, windows) ==
  LET pad == Pad(Xs(points))
      active(p) == IsActive(X(p), windows, pad)
  IN  [active |-> Ys(Where(points, active)),
       idle   |-> Ys(Where(points, LAMBDA p : ~active(p)))]

\* Mutant: a sample at either end is not inside.
Inside_Strict(points, from, to) == Where(points, LAMBDA p : from < X(p) /\ X(p) < to)

Inside(points, from, to) == Where(points, LAMBDA p : from <= X(p) /\ X(p) <= to)

Trapezoid2(points) ==
  Total([i \in 1..(Len(points) - 1) |->
           (Y(points[i]) + Y(points[i + 1])) * (X(points[i + 1]) - X(points[i]))])

\* Mutant: a window with one sample has an energy, 0.
IntegratePerWindow_AnySample(points, windows) ==
  [i \in DOMAIN windows |-> Trapezoid2(Inside(points, windows[i][1], windows[i][2]))]

\* Windows with less than two samples are passed over.
IntegratePerWindow(points, windows) ==
  LET cut  == [i \in DOMAIN windows |-> Inside(points, windows[i][1], windows[i][2])]
      long == Where(cut, LAMBDA c : Len(c) >= 2)
  IN  [i \in DOMAIN long |-> Trapezoid2(long[i])]

MeanPerWindow(points, windows) ==
  LET cut  == [i \in DOMAIN windows |-> Inside(points, windows[i][1], windows[i][2])]
      some == Where(cut, LAMBDA c : Len(c) >= 1)
  IN  [i \in DOMAIN some |-> Mean(Ys(some[i]))]

\* np.interp: flat outside of the samples, straight lines between them.
Interp(x, points) ==
  LET n == Len(points)
      k == SelectLastInSeq(points, LAMBDA p : X(p) <= x)
  IN  IF k = 0 THEN Y(points[1])
      ELSE IF k = n \/ X(points[k]) = x THEN Y(points[k])
      ELSE LET p == points[k]  q == points[k + 1]
           IN  Y(p) + ((Y(q) - Y(p)) * (x - X(p))) \div (X(q) - X(p))

Align(points, onto) == [i \in DOMAIN onto |-> Interp(X(onto[i]), points)]

(***************************************************************************)
(* Thinning out, zooming and drawing.                                      *)
(***************************************************************************)
\* np.linspace(0, n, nbins + 1).astype(int)
Edge(n, i) == (i * n) \div Bins

\* The samples of each bin that has any.
Binned(points) ==
  LET n == Len(points)
  IN  Where([i \in 1..Bins |-> SubSeq(points, Edge(n, i - 1) + 1, Edge(n, i))],
                LAMBDA bin : bin # <<>>)

Envelope(points) ==
  LET bins == Binned(points)
  IN  [i \in DOMAIN bins |-> [x  |-> Mean(Xs(bins[i])),
                              lo |-> Min(Range(Ys(bins[i]))), hi |-> Max(Range(Ys(bins[i])))]]

DecimateMean(points) ==
  LET bins == Binned(points)
  IN  [i \in DOMAIN bins |-> [x |-> Mean(Xs(bins[i])), y |-> Mean(Ys(bins[i]))]]

\* Mutant: exactly the invocations, nothing around them.
ZoomPad_None(from, to) == 0

ZoomPad(from, to) == Max({HalfSecond, (15 * (to - from)) \div 100})

\* The first zoomN invocations, in the order of the file, or the first 30 s.
ZoomXlim(xs, windows, zoomN) ==
  LET lo == Min(Range(xs))  hi == Max(Range(xs))
      k  == Max({1, Min({zoomN, Len(windows)})})
      from == windows[1][1]  to == windows[k][2]
  IN  IF windows = <<>> THEN <<lo, Min({hi, lo + Seconds(30)})>>
      ELSE <<Max({lo, from - ZoomPad(from, to)}), Min({hi, to + ZoomPad(from, to)})>>

DrawBands(windows, cap) == IF Len(windows) <= cap THEN windows ELSE <<>>

InXlim(windows, xlim) == Where(windows, LAMBDA w : w[2] >= xlim[1] /\ w[1] <= xlim[2])

\* _draw_timeline, _draw_residuals and _draw_stack: a whole trace, thinned out if it is
\* dense, or the part in xlim as it is.
DrawAll(points, windows, thinned) ==
  [line  |-> IF Len(points) > Dense THEN thinned ELSE points,
   bands |-> IF points = <<>> THEN <<>> ELSE DrawBands(windows, BandCap)]

DrawZoom(points, windows, xlim) ==
  LET shown == Inside(points, xlim[1], xlim[2])
  IN  [line |-> shown, bands |-> IF shown = <<>> THEN <<>> ELSE InXlim(windows, xlim)]
=============================================================================
