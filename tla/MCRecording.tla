----------------------------- MODULE MCRecording -----------------------------
(***************************************************************************)
(* What the analyzer makes of the files of a run, whenever it is asked     *)
(* (see Recording and Trace).                                              *)
(***************************************************************************)
EXTENDS Recording

CONSTANT ZoomN

ASSUME ZoomAssumption == ZoomN \in Nat

SmallPlans == {<<1, 2>>, <<2, 1>>}

Points  == PowerSamples(Dir, "package")
Windows == InvocationWindows(Dir)

\* Did an invocation on record run between two times, its first `head` and its last
\* `tail` ticks not counted?
Worked(from, to, head, tail) == \E i \in DOMAIN inv : /\ inv[i].startIso - Epoch + head < to
                                                      /\ inv[i].endIso - Epoch - tail > from
                                                      /\ from < to

\* The samples of a trace, taken at these times, that are counted idle were taken of
\* an interval without such work.
IdleIsIdle(xs, times, head, tail) ==
  LET windows == Windows  pad == Pad(xs)
  IN  \A i \in 2..Len(xs) :
        Worked(times[i - 1], times[i], head, tail) => IsActive(xs[i], windows, pad)

ProcTimes == [i \in DOMAIN procEl |-> t0["proc"] + procEl[i]]

\* What two intervals of slack leave of the distance between two collectors, and of the
\* delay of a sample and of the first time stamp.
LostHead(apart) == Max({0, apart - 2 * Interval - 1})
LostTail(apart) == Max({0, Jitter + Lag + apart - Interval - 1})

\* What is counted as idle of an invocation is at most a fixed piece of it at either end,
\* however long the run, and nothing if the clocks are as near each other as the slack
\* allows: though collectors and loop count from different times, samples are late, the
\* clock of the first row lags, turbostat begins again, and proc.csv, whose collector
\* begins apart, is read with the windows of the power file.
BusyNotIdle ==
  LoadPower(Dir).rows # <<>> =>
    /\ HasPower(Dir, "package") => IdleIsIdle(Xs(Points), watched, 0, LostTail(0))
    /\ source = "rapl" => IdleIsIdle(procEl, ProcTimes, LostHead(Skew), LostTail(Skew))

\* An invocation that takes two of the longest intervals, counted from the tick before
\* it, after the first row and over before the last, has an energy of its own: none of
\* its length is passed over.
LongOnesMeasured ==
  HasPower(Dir, "package") =>
    LET long == {i \in DOMAIN inv :
                   /\ inv[i].endIso - inv[i].startIso + 1 >= 2 * Interval + Min({MaxLate, 2}) * Jitter
                   /\ inv[i].startIso >= out.rows[1].ts
                   /\ inv[i].endIso - Epoch <= watched[Len(watched)]}
    IN  Cardinality(long) <= Len(IntegratePerWindow(Points, Windows))

\* What is drawn is what was measured.  The zoomed views "cover the first zoom_n
\* invocations": no sample of one of them is cut off, although the file lists them as
\* they ended and they began apart.  "Preserving transient spikes": a thinned trace
\* covers every sample once, and its band reaches from the least to the highest.
TracesFaithful ==
  HasPower(Dir, "package") =>
    LET points  == Points
        windows == Windows
        zoomed  == DrawZoom(points, windows, ZoomXlim(Xs(points), windows, ZoomN)).line
        drawn   == DrawAll(points, windows, Envelope(points)).line
        ys      == Range(Ys(points))
    IN  /\ \A i \in 1..Min({ZoomN, Len(windows)}) :
             Range(Inside(points, windows[i][1], windows[i][2])) \subseteq Range(zoomed)
        /\ Len(points) > Dense =>
             /\ Total([i \in DOMAIN drawn |-> drawn[i].x.n]) = Len(points)
             /\ Total([i \in DOMAIN drawn |-> drawn[i].x.sum]) = Total(Xs(points))
             /\ Max({drawn[i].hi : i \in DOMAIN drawn}) = Max(ys)
             /\ Min({drawn[i].lo : i \in DOMAIN drawn}) = Min(ys)
=============================================================================
