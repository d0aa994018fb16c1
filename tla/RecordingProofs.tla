--------------------------- MODULE RecordingProofs ---------------------------
(***************************************************************************)
(* Proofs about Recording, for any intervals, delays and clocks that begin *)
(* apart, and runs of any length: what the analyzer makes of the files of  *)
(* a run is what happened.                                                 *)
(***************************************************************************)
EXTENDS MCRecording, Induction

Columns    == {"package", "dram", "pkgtmp"} \X {0}
Rows(cols) == [ts : Int, el : Int, w : [Range(cols) -> Int]]
Calls      == [startIso : Int, endIso : Int, startElapsed : Int, endElapsed : Int]

IsFile(f) == /\ f = [cols |-> f.cols, rows |-> f.rows]
             /\ f.cols \in Seq(Columns) /\ f.rows \in Seq(Rows(f.cols))

TypeOK ==
  /\ now \in Nat /\ source \in {"rapl", "turbostat"} /\ tries \in 1..3
  /\ conv \in [cols : Seq(Columns), t0 : Int \cup {None}]
  /\ IsFile(out)
  /\ t0 \in [Collectors -> 0..Skew] /\ last \in [Collectors -> Int] /\ late \in Nat
  /\ procEl \in Seq(Int) /\ used \in Int /\ watched \in Seq(Int)
  /\ plan \in (Nat \ {0}) \X Nat
  /\ began \in [Instances -> Int] /\ loopT0 \in Int
  /\ inv \in Seq(Calls)

----------------------------------------------------------------------------
LEMMA Constants ==
  /\ Interval \in Nat /\ Interval > 0 /\ Jitter \in Nat /\ MaxLate \in Nat /\ Lag \in Nat
  /\ Skew \in Nat /\ Spread \in Nat /\ Epoch \in Nat
BY RecordingAssumption

LEMMA ShownAreColumns == \A n \in 1..3 : Shown(n) \in Seq(Columns) /\ Len(Shown(n)) > 0
<1>2. <<"package", 0>> \in Columns /\ <<"dram", 0>> \in Columns /\ <<"pkgtmp", 0>> \in Columns
  BY DEF Columns
<1> QED BY <1>2 DEF Shown

LEMMA InitTypes == Init => TypeOK
<1> SUFFICES ASSUME Init PROVE TypeOK
  OBVIOUS
<1>1. now \in Nat /\ tries \in 1..3 /\ source \in {"rapl", "turbostat"} /\ late \in Nat
  BY Constants DEF Init
<1>2. conv \in [cols : Seq(Columns), t0 : Int \cup {None}]
  BY DEF Init
<1>3. IsFile(out)
  <2>1. out.cols \in Seq(Columns) /\ out.rows = <<>> /\ out = [cols |-> out.cols, rows |-> out.rows]
    <3>1. Shown(1) \in Seq(Columns) /\ Len(Shown(1)) = 3
      BY ShownAreColumns DEF Shown
    <3>4. SubSeq(Shown(1), 1, 2) \in Seq(Columns)
      <4>1. \A i \in 1..2 : Shown(1)[i] \in Columns
        BY <3>1
      <4> QED BY <4>1, <3>1
    <3> QED BY <3>4 DEF Init, NoFile
  <2> QED BY <2>1 DEF IsFile
<1>4. t0 \in [Collectors -> 0..Skew] /\ last \in [Collectors -> Int]
  BY Constants DEF Init
<1>5. procEl \in Seq(Int) /\ used \in Int /\ watched \in Seq(Int) /\ inv \in Seq(Calls) /\ loopT0 \in Int
  BY DEF Init
<1>6. plan \in (Nat \ {0}) \X Nat /\ began \in [Instances -> Int]
  BY RecordingAssumption DEF Init
<1> QED BY <1>1, <1>2, <1>3, <1>4, <1>5, <1>6 DEF TypeOK
\* A collector that is due has let time pass.
LEMMA DueIsLater ==
  ASSUME TypeOK, NEW c \in Collectors, Due(c)
  PROVE  now - last[c] \in Nat /\ now - last[c] > 0 /\ now - last[c] >= Interval
BY Constants DEF TypeOK, Due

LEMMA Readings ==
  ASSUME TypeOK, NEW c, NEW dt \in Nat, dt > 0
  PROVE  Reading(c, dt) \in Int
<1>1. used \in Int /\ Interval \in Int /\ Jitter \in Int
  BY Constants DEF TypeOK
<1>2. used * Interval * (Interval + Jitter) \in Int
  BY <1>1
<1>3. (used * Interval * (Interval + Jitter)) \div dt \in Int
  <2>1. \A z \in Int : z \div dt \in Int
    OBVIOUS
  <2> HIDE <1>1
  <2> QED BY <1>2, <2>1
<1> QED BY <1>3 DEF Reading, Watts

\* A row is added to a file.
LEMMA RowAdded ==
  ASSUME NEW f, IsFile(f), NEW lag \in Int, NEW el \in Int, NEW w \in [Range(f.cols) -> Int],
         now \in Int, Epoch \in Int
  PROVE  LET g == Append1(f, lag, el, w)
         IN  /\ IsFile(g) /\ g.cols = f.cols
             /\ g.rows = Append(f.rows, g.rows[Len(g.rows)])
             /\ Len(g.rows) = Len(f.rows) + 1
             /\ g.rows[Len(g.rows)].el = el /\ g.rows[Len(g.rows)].w = w
             /\ f.rows = <<>> => g.rows[Len(g.rows)].ts = Epoch + now + lag
<1> DEFINE row == [ts |-> Epoch + now + (IF f.rows = <<>> THEN lag ELSE 0), el |-> el, w |-> w]
           g == Append1(f, lag, el, w)
<1>1. row \in Rows(f.cols)
  <2>1. Epoch + now + (IF f.rows = <<>> THEN lag ELSE 0) \in Int
    OBVIOUS
  <2> QED BY <2>1 DEF Rows
<1>2. row.el = el /\ row.w = w /\ (f.rows = <<>> => row.ts = Epoch + now + lag)
  OBVIOUS
<1>3. g = [f EXCEPT !.rows = Append(f.rows, row)]
  BY DEF Append1
<1> HIDE DEF row
<1>4. f = [cols |-> f.cols, rows |-> f.rows] /\ f.cols \in Seq(Columns) /\ f.rows \in Seq(Rows(f.cols))
  BY DEF IsFile
<1>5. g.cols = f.cols /\ g.rows = Append(f.rows, row) /\ g = [cols |-> g.cols, rows |-> g.rows]
  BY <1>3, <1>4
<1>6. Append(f.rows, row) \in Seq(Rows(f.cols)) /\ Len(Append(f.rows, row)) = Len(f.rows) + 1
      /\ Append(f.rows, row)[Len(f.rows) + 1] = row
  BY <1>1, <1>4
<1>7. IsFile(g)
  BY <1>4, <1>5, <1>6 DEF IsFile
<1> HIDE DEF g
<1>8. Len(g.rows) = Len(f.rows) + 1 /\ g.rows[Len(g.rows)] = row /\ g.rows = Append(f.rows, row)
  BY <1>5, <1>6
<1>9. /\ IsFile(g) /\ g.cols = f.cols
      /\ g.rows = Append(f.rows, g.rows[Len(g.rows)])
      /\ Len(g.rows) = Len(f.rows) + 1
      /\ g.rows[Len(g.rows)].el = el /\ g.rows[Len(g.rows)].w = w
      /\ f.rows = <<>> => g.rows[Len(g.rows)].ts = Epoch + now + lag
  BY <1>2, <1>5, <1>7, <1>8
<1> QED BY <1>9 DEF g

\* What the collectors add.
Sampled(lag, el) ==
  /\ lag \in 0..Lag /\ el \in Int
  /\ IsFile(out') /\ out'.cols = out.cols
  /\ out'.rows = Append(out.rows, out'.rows[Len(out'.rows)])
  /\ Len(out'.rows) = Len(out.rows) + 1
  /\ out'.rows[Len(out'.rows)].el = el
  /\ out.rows = <<>> => out'.rows[Len(out'.rows)].ts = Epoch + now + lag
  /\ watched' = Append(watched, now)
  /\ last' = [last EXCEPT !["power"] = now]
  /\ late' = IF now > last["power"] + Interval THEN late + 1 ELSE late
  /\ now >= last["power"] + Interval

LEMMA RaplSamples ==
  ASSUME TypeOK, SampleRapl
  PROVE  \E lag \in 0..Lag : Sampled(lag, now - t0["power"])
<1>1. Due("power") /\ "power" \in Collectors
  BY DEF SampleRapl, Collectors
<1>2. PICK lag \in 0..Lag :
        out' = Append1(out, lag, now - t0["power"],
                       [c \in Range(out.cols) |-> Reading(c, now - last["power"])])
  BY DEF SampleRapl
<1> DEFINE w == [c \in Range(out.cols) |-> Reading(c, now - last["power"])]
<1>3. w \in [Range(out.cols) -> Int]
  BY <1>1, DueIsLater, Readings
<1>4. now - t0["power"] \in Int /\ now \in Int /\ Epoch \in Int /\ lag \in Int /\ IsFile(out)
  BY <1>1, Constants DEF TypeOK
<1>5. /\ IsFile(out') /\ out'.cols = out.cols
      /\ out'.rows = Append(out.rows, out'.rows[Len(out'.rows)])
      /\ Len(out'.rows) = Len(out.rows) + 1
      /\ out'.rows[Len(out'.rows)].el = now - t0["power"]
      /\ out.rows = <<>> => out'.rows[Len(out'.rows)].ts = Epoch + now + lag
  <2> HIDE DEF w
  <2> QED BY <1>2, <1>3, <1>4, RowAdded DEF w
<1>6. Sampled(lag, now - t0["power"])
  BY <1>4, <1>5 DEF Sampled, SampleRapl, Took, Due
<1> QED BY <1>6
\* What the converter of turbostat's output counts from.
Origin == IF conv.t0 = None THEN now - Interval ELSE conv.t0

LEMMA TurbostatSamples ==
  ASSUME TypeOK, ReadRow, out.cols = conv.cols
  PROVE  /\ \E lag \in 0..Lag : Sampled(lag, now - Origin)
         /\ Origin \in Int
<1>1. Due("power") /\ "power" \in Collectors
  BY DEF ReadRow, Collectors
<1> DEFINE reading == [i \in DOMAIN conv.cols |-> Reading(conv.cols[i], now - last["power"])]
           named(c) == CHOOSE i \in DOMAIN conv.cols : conv.cols[i] = c
           w == [c \in Range(out.cols) |-> reading[named(c)]]
<1>2. PICK lag \in 0..Lag : out' = Append1(out, lag, now - Origin, w)
  BY DEF ReadRow, Origin
<1>3. w \in [Range(out.cols) -> Int]
  <2>1. \A i \in DOMAIN conv.cols : reading[i] \in Int
    BY <1>1, DueIsLater, Readings
  <2>2. \A c \in Range(out.cols) : named(c) \in DOMAIN conv.cols
    BY DEF Range
  <2> HIDE DEF reading, named
  <2> QED BY <2>1, <2>2
<1>4. Origin \in Int /\ now - Origin \in Int /\ now \in Int /\ Epoch \in Int /\ lag \in Int /\ IsFile(out)
  <2>1. now \in Int /\ Interval \in Int /\ conv.t0 \in Int \cup {None}
    BY Constants DEF TypeOK
  <2>2. Origin \in Int
    BY <2>1 DEF Origin
  <2> QED BY <2>1, <2>2, Constants DEF TypeOK
<1>5. /\ IsFile(out') /\ out'.cols = out.cols
      /\ out'.rows = Append(out.rows, out'.rows[Len(out'.rows)])
      /\ Len(out'.rows) = Len(out.rows) + 1
      /\ out'.rows[Len(out'.rows)].el = now - Origin
      /\ out.rows = <<>> => out'.rows[Len(out'.rows)].ts = Epoch + now + lag
  <2> HIDE DEF w, reading, named
  <2>1. PICK el \in Int : el = now - Origin
    BY <1>4
  <2>2. out' = Append1(out, lag, el, w)
    BY <1>2, <2>1
  <2>3. LET g == Append1(out, lag, el, w)
        IN  /\ IsFile(g) /\ g.cols = out.cols
            /\ g.rows = Append(out.rows, g.rows[Len(g.rows)])
            /\ Len(g.rows) = Len(out.rows) + 1
            /\ g.rows[Len(g.rows)].el = el /\ g.rows[Len(g.rows)].w = w
            /\ out.rows = <<>> => g.rows[Len(g.rows)].ts = Epoch + now + lag
    BY <1>3, <1>4, RowAdded
  <2> QED BY <2>1, <2>2, <2>3
<1>6. Sampled(lag, now - Origin)
  BY <1>4, <1>5 DEF Sampled, ReadRow, Took, Due
<1> QED BY <1>4, <1>6

\* The file that is written is the one whose header was read last.
Headed == conv.cols # <<>> => out.cols = conv.cols

LEMMA SampleTypes ==
  ASSUME TypeOK, NEW lag, NEW el, Sampled(lag, el)
  PROVE  IsFile(out)' /\ last' \in [Collectors -> Int] /\ late' \in Nat /\ watched' \in Seq(Int)
<1>1. IsFile(out)'
  <2>1. IsFile(out')
    BY DEF Sampled
  <2> QED BY <2>1 DEF IsFile, Rows, Range
<1>2. now \in Int /\ last \in [Collectors -> Int] /\ watched \in Seq(Int) /\ late \in Nat
  BY DEF TypeOK
<1>3. last' = [last EXCEPT !["power"] = now] /\ late' \in {late, late + 1} /\ watched' = Append(watched, now)
  BY DEF Sampled
<1>4. last' \in [Collectors -> Int]
  BY <1>2, <1>3
<1>5. late' \in Nat
  BY <1>2, <1>3
<1>6. watched' \in Seq(Int)
  BY <1>2, <1>3
<1> QED BY <1>1, <1>4, <1>5, <1>6

LEMMA NextTypes == TypeOK /\ Headed /\ [Next]_vars => TypeOK' /\ Headed'
<1> SUFFICES ASSUME TypeOK, Headed, [Next]_vars PROVE TypeOK' /\ Headed'
  OBVIOUS
<1> USE DEF vars, power, loop
<1>1. CASE UNCHANGED vars
  BY <1>1 DEF TypeOK, Headed, IsFile, Instances
<1>2. CASE Tick
  <2>1. Cardinality(Running) \in Nat
    <3>1. plan[1] \in Nat
      BY DEF TypeOK
    <3>2. IsFiniteSet(0..(plan[1] - 1)) /\ Running \subseteq 0..(plan[1] - 1)
      BY <3>1, FS_Interval DEF Running, Instances
    <3> QED BY <3>2, FS_Subset, FS_CardinalityType
  <2>2. used' \in Int /\ now' \in Nat
    BY <1>2, <2>1 DEF Tick, TypeOK
  <2> QED BY <1>2, <2>2 DEF Tick, TypeOK, Headed, IsFile, Instances
<1>3. CASE SampleRapl
  <2>1. PICK lag : Sampled(lag, now - t0["power"])
    BY <1>3, RaplSamples
  <2>2. IsFile(out)' /\ last' \in [Collectors -> Int] /\ late' \in Nat /\ watched' \in Seq(Int)
    BY <2>1, SampleTypes
  <2>3. used' = 0 /\ UNCHANGED <<now, source, tries, conv, t0, procEl, loop>>
    BY <1>3 DEF SampleRapl, Took
  <2>4. TypeOK'
    BY <2>2, <2>3 DEF TypeOK, Instances
  <2>5. Headed'
    BY <2>1, <2>3 DEF Headed, Sampled
  <2> QED BY <2>4, <2>5
<1>4. CASE ReadHeader
  <2>1. tries' \in 1..3 /\ Shown(tries') \in Seq(Columns)
    <3>1. tries' \in 1..3
      BY <1>4 DEF ReadHeader, TypeOK
    <3> QED BY <3>1, ShownAreColumns
  <2>2. conv' = [conv EXCEPT !.cols = Shown(tries')] /\ out' = [cols |-> Shown(tries'), rows |-> <<>>]
        /\ watched' = <<>>
    BY <1>4 DEF ReadHeader
  <2>3. UNCHANGED <<now, source, t0, used, last, late, procEl, loop>>
    BY <1>4 DEF ReadHeader
  <2>4. IsFile(out)'
    BY <2>1, <2>2 DEF IsFile
  <2>5. conv' \in [cols : Seq(Columns), t0 : Int \cup {None}] /\ conv'.cols = Shown(tries')
    BY <2>1, <2>2 DEF TypeOK
  <2>6. watched' \in Seq(Int)
    BY <2>2
  <2>7. Headed'
    BY <2>2, <2>5 DEF Headed
  <2>8. TypeOK'
    BY <2>1, <2>3, <2>4, <2>5, <2>6 DEF TypeOK, Instances
  <2> QED BY <2>7, <2>8
<1>5. CASE ReadRow
  <2>1. out.cols = conv.cols
    BY <1>5 DEF ReadRow, Headed
  <2>2. PICK lag : Sampled(lag, now - Origin)
    BY <1>5, <2>1, TurbostatSamples
  <2>3. IsFile(out)' /\ last' \in [Collectors -> Int] /\ late' \in Nat /\ watched' \in Seq(Int)
    BY <2>2, SampleTypes
  <2>4. used' = 0 /\ UNCHANGED <<now, source, tries, t0, procEl, loop>> /\ conv' = [conv EXCEPT !.t0 = Origin]
    BY <1>5 DEF ReadRow, Took, Origin
  <2>5. conv' \in [cols : Seq(Columns), t0 : Int \cup {None}] /\ conv'.cols = conv.cols
    BY <1>5, <2>1, <2>4, TurbostatSamples DEF TypeOK
  <2>6. TypeOK'
    <3>1. used' \in Int /\ tries' \in 1..3 /\ UNCHANGED <<now, source, t0, procEl, loop>>
      BY <2>4 DEF TypeOK
    <3> QED BY <2>3, <3>1, <2>5 DEF TypeOK, Instances
  <2>7. Headed'
    BY <2>1, <2>2, <2>5 DEF Headed, Sampled
  <2> QED BY <2>6, <2>7
<1>6. CASE Retry
  <2>1. conv' = [cols |-> <<>>, t0 |-> None] /\ tries' \in 1..3
    BY <1>6 DEF Retry, TypeOK
  <2>2. UNCHANGED <<now, source, out, t0, used, watched, last, late, procEl, loop>>
    BY <1>6 DEF Retry
  <2>3. conv' \in [cols : Seq(Columns), t0 : Int \cup {None}] /\ conv'.cols = <<>>
    BY <2>1
  <2> QED BY <2>1, <2>2, <2>3 DEF TypeOK, Headed, IsFile, Instances
<1>7. CASE SampleProc
  <2>1. procEl' = Append(procEl, now - t0["proc"]) /\ last' = [last EXCEPT !["proc"] = now]
        /\ late' \in {late, late + 1} /\ UNCHANGED <<now, power, loop>>
    BY <1>7 DEF SampleProc, Took
  <2>2. procEl' \in Seq(Int) /\ last' \in [Collectors -> Int] /\ late' \in Nat
    <3>1. t0["proc"] \in Int /\ now \in Int
      BY Constants DEF TypeOK, Collectors
    <3>2. procEl \in Seq(Int) /\ last \in [Collectors -> Int] /\ late \in Nat
      BY DEF TypeOK
    <3>3. procEl' \in Seq(Int)
      BY <3>1, <3>2, <2>1
    <3>4. last' \in [Collectors -> Int]
      BY <3>1, <3>2, <2>1
    <3>5. late' \in Nat
      BY <3>2, <2>1
    <3> QED BY <3>3, <3>4, <3>5
  <2> QED BY <2>1, <2>2 DEF TypeOK, Headed, IsFile, Instances
<1>8. CASE FireRound
  <2>1. loopT0' \in Int
    BY <1>8 DEF FireRound, TypeOK
  <2> QED BY <1>8, <2>1 DEF FireRound, TypeOK, Headed, IsFile, Instances
<1>9. CASE RoundOver
  BY <1>9 DEF RoundOver, TypeOK, Headed, IsFile, Instances
<1>10. CASE \E k \in Instances : Begin(k)
  <2>1. began' \in [Instances -> Int]
    BY <1>10 DEF Begin, TypeOK
  <2> QED BY <1>10, <2>1 DEF Begin, TypeOK, Headed, IsFile, Instances
<1>11. CASE \E k \in Instances : End(k)
  <2>1. PICK k \in Instances : End(k)
    BY <1>11
  <2>2. began[k] \in Int /\ now \in Int /\ loopT0 \in Int /\ Epoch \in Int
    BY Constants DEF TypeOK
  <2>3. inv' \in Seq(Calls)
    <3>1. [startIso |-> Epoch + began[k], endIso |-> Epoch + now,
           startElapsed |-> began[k] - loopT0, endElapsed |-> now - loopT0] \in Calls
      BY <2>2 DEF Calls
    <3> QED BY <3>1, <2>1 DEF End, TypeOK
  <2> QED BY <2>1, <2>3 DEF End, TypeOK, Headed, IsFile, Instances
<1> QED
  BY <1>1, <1>2, <1>3, <1>4, <1>5, <1>6, <1>7, <1>8, <1>9, <1>10, <1>11 DEF Next
----------------------------------------------------------------------------
\* The clocks of the power file: its rows count from one time, and the wall clock was
\* read at most Lag after the first of them.
CountsFrom(o) == \A i \in 1..Len(watched) : out.rows[i].el = watched[i] - o

Clocked ==
  /\ Len(out.rows) = Len(watched)
  /\ source = "rapl" => conv.t0 = None /\ conv.cols = <<>>
  /\ conv.t0 = None /\ conv.cols # <<>> => watched = <<>>
  /\ \E o \in Int : /\ CountsFrom(o)
                    /\ source = "rapl" => o = t0["power"]
                    /\ conv.t0 # None => o = conv.t0
  /\ watched # <<>> => out.rows[1].ts - Epoch - watched[1] \in 0..Lag

\* A row is stamped by the clock the others are.
LEMMA SampleClocked ==
  ASSUME TypeOK, NEW lag, NEW o \in Int, Sampled(lag, now - o), Len(out.rows) = Len(watched),
         CountsFrom(o), watched # <<>> => out.rows[1].ts - Epoch - watched[1] \in 0..Lag
  PROVE  /\ Len(out'.rows) = Len(watched') /\ watched' # <<>>
         /\ CountsFrom(o)'
         /\ out'.rows[1].ts - Epoch - watched'[1] \in 0..Lag
<1> DEFINE n == Len(watched)
           row == out'.rows[Len(out'.rows)]
<1>1. n \in Nat /\ watched \in Seq(Int) /\ now \in Int /\ out.rows \in Seq(Rows(out.cols))
      /\ out'.rows \in Seq(Rows(out'.cols))
  BY DEF TypeOK, Sampled, IsFile
<1>2. watched' = Append(watched, now) /\ Len(watched') = n + 1 /\ watched'[n + 1] = now
      /\ \A i \in 1..n : watched'[i] = watched[i]
  BY <1>1 DEF Sampled
<1>3. Len(out'.rows) = n + 1 /\ out'.rows = Append(out.rows, row) /\ out'.rows[n + 1] = row
      /\ row.el = now - o
  BY DEF Sampled
<1>4. \A i \in 1..n : out'.rows[i] = out.rows[i]
  BY <1>1, <1>3
<1> HIDE DEF n, row
<1>5. ASSUME NEW i \in 1..(n + 1) PROVE out'.rows[i].el = watched'[i] - o
  <2>1. CASE i = n + 1
    BY <2>1, <1>2, <1>3
  <2>2. CASE i # n + 1
    <3>1. i \in 1..n
      BY <2>2, <1>1
    <3> QED BY <3>1, <1>2, <1>4 DEF CountsFrom, n
  <2> QED BY <2>1, <2>2
<1>6. CountsFrom(o)'
  BY <1>2, <1>5 DEF CountsFrom
<1>7. out'.rows[1].ts - Epoch - watched'[1] \in 0..Lag
  <2>1. CASE watched = <<>>
    <3>1. n = 0 /\ out.rows = <<>>
      BY <2>1, <1>1 DEF n
    <3>2. out'.rows[1] = row /\ watched'[1] = now
      BY <3>1, <1>2, <1>3
    <3>3. row.ts = Epoch + now + lag /\ lag \in 0..Lag
      BY <3>1 DEF Sampled, row
    <3> QED BY <3>2, <3>3, <1>1, Constants
  <2>2. CASE watched # <<>>
    <3>1. 1 \in 1..n
      BY <2>2, <1>1 DEF n
    <3> QED BY <3>1, <2>2, <1>2, <1>4
  <2> QED BY <2>1, <2>2
<1>8. Len(out'.rows) = Len(watched') /\ watched' # <<>>
  <2>1. n + 1 # 0 /\ Len(<<>>) = 0
    BY <1>1
  <2> QED BY <1>2, <1>3, <2>1
<1> QED BY <1>6, <1>7, <1>8

LEMMA ClockedKept == TypeOK /\ Headed /\ Clocked /\ [Next]_vars => Clocked'
<1> SUFFICES ASSUME TypeOK, Headed, Clocked, [Next]_vars PROVE Clocked'
  OBVIOUS
<1>1. CASE SampleRapl
  <2>1. PICK o \in Int : CountsFrom(o) /\ (source = "rapl" => o = t0["power"])
    BY DEF Clocked, CountsFrom
  <2>2. source = "rapl" /\ o = t0["power"] /\ UNCHANGED <<source, conv, t0>>
    BY <1>1, <2>1 DEF SampleRapl
  <2>3. PICK lag : Sampled(lag, now - o)
    BY <1>1, <2>2, RaplSamples
  <2>4. /\ Len(out'.rows) = Len(watched') /\ watched' # <<>> /\ CountsFrom(o)'
        /\ out'.rows[1].ts - Epoch - watched'[1] \in 0..Lag
    BY <2>1, <2>3, SampleClocked DEF Clocked
  <2> QED BY <2>2, <2>4 DEF Clocked
<1>2. CASE ReadRow
  <2>1. out.cols = conv.cols /\ source = "turbostat" /\ conv.cols # <<>>
    BY <1>2 DEF ReadRow, Headed
  <2>2. Origin \in Int
    BY <1>2, <2>1, TurbostatSamples
  <2>3. CountsFrom(Origin)
    <3>1. CASE conv.t0 = None
      <4>1. watched = <<>>
        BY <2>1, <3>1 DEF Clocked
      <4> QED BY <4>1 DEF CountsFrom
    <3>2. CASE conv.t0 # None
      BY <3>2 DEF Clocked, Origin, CountsFrom
    <3> QED BY <3>1, <3>2
  <2>4. PICK lag : Sampled(lag, now - Origin)
    BY <1>2, <2>1, TurbostatSamples
  <2> DEFINE o == Origin
  <2> HIDE DEF o
  <2>5. o \in Int /\ CountsFrom(o) /\ Sampled(lag, now - o) /\ o = Origin
    BY <2>2, <2>3, <2>4 DEF o
  <2>6. PICK x \in Int : x = o
    BY <2>5
  <2>7. CountsFrom(x) /\ Sampled(lag, now - x)
    BY <2>5, <2>6
  <2>8. /\ Len(out'.rows) = Len(watched') /\ watched' # <<>> /\ CountsFrom(x)'
        /\ out'.rows[1].ts - Epoch - watched'[1] \in 0..Lag
    BY <2>7, SampleClocked DEF Clocked
  <2>9. UNCHANGED source /\ conv' = [conv EXCEPT !.t0 = Origin]
    BY <1>2 DEF ReadRow, Origin
  <2>10. conv'.t0 = x /\ conv'.cols = conv.cols
    BY <2>5, <2>6, <2>9 DEF TypeOK
  <2>11. \A i \in 1..Len(watched') : out'.rows[i].el = watched'[i] - x
    BY <2>8 DEF CountsFrom
  <2> QED BY <2>1, <2>6, <2>8, <2>9, <2>10, <2>11, NoneAssumption DEF Clocked, CountsFrom
<1>3. CASE ReadHeader
  <2>1. watched' = <<>> /\ out'.rows = <<>> /\ UNCHANGED source /\ source = "turbostat"
        /\ conv' = [conv EXCEPT !.cols = Shown(tries')]
    BY <1>3 DEF ReadHeader
  <2>2. Len(out'.rows) = 0 /\ Len(watched') = 0 /\ conv'.t0 = conv.t0
    BY <2>1 DEF TypeOK
  <2>3. \A o : CountsFrom(o)'
    BY <2>2 DEF CountsFrom
  <2>4. \E o \in Int : conv'.t0 # None => o = conv'.t0
    BY <2>2 DEF TypeOK
  <2> QED BY <2>1, <2>2, <2>3, <2>4 DEF Clocked
<1>4. CASE Retry
  <2>1. conv' = [cols |-> <<>>, t0 |-> None] /\ UNCHANGED <<source, out, watched, t0>>
    BY <1>4 DEF Retry
  <2>2. conv'.cols = <<>> /\ conv'.t0 = None
    BY <2>1
  <2> QED BY <2>1, <2>2 DEF Clocked, CountsFrom
<1>5. CASE UNCHANGED <<source, conv, out, t0, watched>>
  BY <1>5 DEF Clocked, CountsFrom
<1>6. ~SampleRapl /\ ~ReadRow /\ ~ReadHeader /\ ~Retry => UNCHANGED <<source, conv, out, t0, watched>>
  BY DEF Next, vars, power, Tick, SampleProc, FireRound, RoundOver, Begin, End
<1> QED BY <1>1, <1>2, <1>3, <1>4, <1>5, <1>6

LEMMA InitClocked == Init => Clocked /\ Headed
<1> SUFFICES ASSUME Init PROVE Clocked /\ Headed
  OBVIOUS
<1>1. out.rows = <<>> /\ watched = <<>> /\ conv.t0 = None /\ conv.cols = <<>>
  BY DEF Init, NoFile
<1>2. Len(out.rows) = 0 /\ Len(watched) = 0
  BY <1>1
<1>3. t0["power"] \in Int
  BY Constants DEF Init, Collectors
<1>4. \A o : CountsFrom(o)
  BY <1>2 DEF CountsFrom
<1> QED BY <1>1, <1>2, <1>3, <1>4 DEF Clocked, Headed
----------------------------------------------------------------------------
\* Consecutive samples are an interval apart, and a delay.
Gaps(s) == \A i \in 1..(Len(s) - 1) : s[i] + Interval <= s[i + 1] /\ s[i + 1] <= s[i] + Interval + Jitter

LongGap(i) == i \in 1..(Len(watched) - 1) /\ watched[i + 1] > watched[i] + Interval

LEMMA GapAdded ==
  ASSUME NEW s \in Seq(Int), NEW x \in Int, Gaps(s),
         s # <<>> => s[Len(s)] + Interval <= x /\ x <= s[Len(s)] + Interval + Jitter
  PROVE  Gaps(Append(s, x))
<1> DEFINE t == Append(s, x)
           n == Len(s)
<1>1. n \in Nat /\ Len(t) = n + 1 /\ t[n + 1] = x /\ \A i \in 1..n : t[i] = s[i]
  OBVIOUS
<1> HIDE DEF t
<1>2. ASSUME NEW i \in 1..(Len(t) - 1)
      PROVE  t[i] + Interval <= t[i + 1] /\ t[i + 1] <= t[i] + Interval + Jitter
  <2>1. i \in 1..n /\ t[i] = s[i] /\ s # <<>>
    BY <1>1
  <2>2. CASE i = n
    BY <2>1, <2>2, <1>1
  <2>3. CASE i # n
    <3>1. i + 1 \in 1..n /\ i \in 1..(Len(s) - 1)
      BY <2>1, <2>3, <1>1
    <3>2. t[i + 1] = s[i + 1]
      BY <3>1, <1>1
    <3> QED BY <2>1, <3>1, <3>2 DEF Gaps
  <2> QED BY <2>2, <2>3
<1>3. Gaps(t)
  BY <1>2 DEF Gaps
<1> QED BY <1>3 DEF t

\* How the power file is paced: only so many samples are late.
OnTime(c) == last[c] <= now /\ now <= last[c] + Interval + Jitter

Paced ==
  /\ Gaps(watched)
  /\ watched # <<>> =>
       /\ last["power"] = watched[Len(watched)] /\ OnTime("power")
       /\ now > last["power"] + Interval =>
            /\ MaxLate >= 1
            /\ \A i \in 1..(Len(watched) - 1) : LongGap(i) => MaxLate >= 2
  /\ \A i \in 1..(Len(watched) - 1) : LongGap(i) => MaxLate >= 1 /\ late >= 1
  /\ \A i, j \in 1..(Len(watched) - 1) : LongGap(i) /\ LongGap(j) /\ i # j => MaxLate >= 2

LEMMA SamplePaced ==
  ASSUME TypeOK, Paced, NEW lag, NEW el, Sampled(lag, el), now' = now
  PROVE  Paced'
<1> DEFINE n == Len(watched)
<1>1. n \in Nat /\ watched \in Seq(Int) /\ now \in Int /\ last["power"] \in Int /\ late \in Nat
      /\ Interval \in Nat /\ Jitter \in Nat /\ MaxLate \in Nat /\ "power" \in Collectors
  BY Constants DEF TypeOK, Collectors
<1>2. watched' = Append(watched, now) /\ Len(watched') = n + 1 /\ watched'[n + 1] = now
      /\ \A i \in 1..n : watched'[i] = watched[i]
  BY <1>1 DEF Sampled
<1>3. now >= last["power"] + Interval
      /\ late' = (IF now > last["power"] + Interval THEN late + 1 ELSE late)
      /\ last'["power"] = now
  BY <1>1 DEF Sampled, TypeOK
<1>4. watched # <<>> => n \in 1..n /\ last["power"] = watched[n] /\ now <= last["power"] + Interval + Jitter
  BY <1>1 DEF Paced, OnTime
<1>5. Gaps(watched)'
  <2>1. Gaps(Append(watched, now))
    BY <1>1, <1>3, <1>4, GapAdded DEF Paced
  <2>2. Gaps(watched')
    BY <2>1, <1>2
  <2> QED BY <2>2 DEF Gaps
<1>6. late' \in Nat /\ late' >= late
  BY <1>1, <1>3
<1>7. ASSUME NEW i \in 1..(Len(watched') - 1), LongGap(i)'
      PROVE  /\ \/ i \in 1..(n - 1) /\ LongGap(i)
                \/ i = n /\ watched # <<>> /\ now > last["power"] + Interval
             /\ MaxLate >= 1 /\ late' >= 1
  <2>1. i \in 1..n /\ watched'[i] = watched[i] /\ watched # <<>> /\ watched'[i + 1] > watched[i] + Interval
    BY <1>1, <1>2, <1>7 DEF LongGap
  <2>2. CASE i = n
    <3>1. now > last["power"] + Interval
      BY <2>1, <2>2, <1>2, <1>4
    <3>2. MaxLate >= 1
      BY <2>1, <3>1 DEF Paced
    <3>3. late' >= 1
      BY <3>1, <1>1, <1>3
    <3> QED BY <2>1, <2>2, <3>1, <3>2, <3>3
  <2>3. CASE i # n
    <3>1. i \in 1..(n - 1) /\ i + 1 \in 1..n
      BY <2>1, <2>3, <1>1
    <3>2. LongGap(i)
      BY <2>1, <3>1, <1>2 DEF LongGap
    <3>3. MaxLate >= 1 /\ late >= 1
      BY <3>1, <3>2 DEF Paced
    <3> QED BY <3>1, <3>2, <3>3, <1>1, <1>6
  <2> QED BY <2>2, <2>3
<1>8. ASSUME NEW i \in 1..(Len(watched') - 1), NEW j \in 1..(Len(watched') - 1),
             LongGap(i)', LongGap(j)', i # j
      PROVE  MaxLate >= 2
  <2>1. CASE i \in 1..(n - 1) /\ LongGap(i) /\ j \in 1..(n - 1) /\ LongGap(j)
    BY <2>1, <1>8 DEF Paced
  <2>2. CASE (i \in 1..(n - 1) /\ LongGap(i)) /\ now > last["power"] + Interval /\ watched # <<>>
    BY <2>2 DEF Paced
  <2>3. CASE (j \in 1..(n - 1) /\ LongGap(j)) /\ now > last["power"] + Interval /\ watched # <<>>
    BY <2>3 DEF Paced
  <2> QED BY <2>1, <2>2, <2>3, <1>7, <1>8
<1>9. /\ last'["power"] = watched'[Len(watched')] /\ OnTime("power")'
      /\ ~ (now' > last'["power"] + Interval)
  BY <1>1, <1>2, <1>3 DEF OnTime
<1> QED BY <1>5, <1>7, <1>8, <1>9 DEF Paced

LEMMA PacedKept == TypeOK /\ Headed /\ Paced /\ [Next]_vars => Paced'
<1> SUFFICES ASSUME TypeOK, Headed, Paced, [Next]_vars PROVE Paced'
  OBVIOUS
<1>0. now \in Nat /\ last["power"] \in Int /\ Interval \in Nat /\ Jitter \in Nat /\ MaxLate \in Nat
      /\ late \in Nat
  BY Constants DEF TypeOK, Collectors
<1>1. CASE SampleRapl
  <2>1. PICK lag : Sampled(lag, now - t0["power"])
    BY <1>1, RaplSamples
  <2> QED BY <1>1, <2>1, SamplePaced DEF SampleRapl, Took
<1>2. CASE ReadRow
  <2>1. out.cols = conv.cols
    BY <1>2 DEF ReadRow, Headed
  <2>2. PICK lag : Sampled(lag, now - Origin)
    BY <1>2, <2>1, TurbostatSamples
  <2>3. PICK el : Sampled(lag, el)
    <3> DEFINE x == now - Origin
    <3> HIDE DEF x
    <3>1. Sampled(lag, x)
      BY <2>2 DEF x
    <3> QED BY <3>1
  <2> QED BY <1>2, <2>3, SamplePaced DEF ReadRow, Took
<1>3. CASE ReadHeader
  <2>1. watched' = <<>> /\ Len(watched') = 0
    BY <1>3 DEF ReadHeader
  <2> QED BY <2>1 DEF Paced, Gaps, LongGap
<1>4. CASE Tick
  <2>1. now' = now + 1 /\ UNCHANGED <<last, late, watched>>
        /\ now < last["power"] + Interval + (IF late < MaxLate THEN Jitter ELSE 0)
    BY <1>4 DEF Tick, Traced, Collectors
  <2>2. watched # <<>> => OnTime("power")'
    BY <1>0, <2>1 DEF OnTime, Paced
  <2>3. ASSUME watched # <<>>, now' > last["power"] + Interval
        PROVE  MaxLate >= 1 /\ \A i \in 1..(Len(watched) - 1) : LongGap(i) => MaxLate >= 2
    <3>1. late < MaxLate
      BY <1>0, <2>1, <2>3
    <3>2. \A i \in 1..(Len(watched) - 1) : LongGap(i) => late >= 1
      BY DEF Paced
    <3> QED BY <1>0, <3>1, <3>2
  <2> QED BY <2>1, <2>2, <2>3 DEF Paced, Gaps, LongGap
<1>5. CASE SampleProc
  <2>1. UNCHANGED <<now, watched>> /\ last' = [last EXCEPT !["proc"] = now] /\ late' \in {late, late + 1}
    BY <1>5 DEF SampleProc, Took, power
  <2>2. last'["power"] = last["power"] /\ late' \in Nat /\ late' >= late
    BY <1>0, <2>1 DEF TypeOK
  <2>3. \A i \in 1..(Len(watched) - 1) : LongGap(i) => MaxLate >= 1 /\ late' >= 1
    BY <1>0, <2>2 DEF Paced
  <2> QED BY <2>1, <2>2, <2>3 DEF Paced, Gaps, LongGap, OnTime
<1>6. CASE UNCHANGED <<now, watched, last, late>>
  BY <1>6 DEF Paced, Gaps, LongGap, OnTime
<1>7. ~Tick /\ ~SampleRapl /\ ~ReadRow /\ ~ReadHeader /\ ~SampleProc => UNCHANGED <<now, watched, last, late>>
  BY DEF Next, vars, power, Retry, FireRound, RoundOver, Begin, End
<1> QED BY <1>1, <1>2, <1>3, <1>4, <1>5, <1>6, <1>7

----------------------------------------------------------------------------
\* proc.csv is paced alike, on the clock of its collector.
ProcPaced ==
  /\ Gaps(procEl)
  /\ procEl # <<>> =>
       /\ "proc" \in Traced /\ last["proc"] = t0["proc"] + procEl[Len(procEl)] /\ OnTime("proc")

LEMMA ProcPacedKept == TypeOK /\ Headed /\ ProcPaced /\ [Next]_vars => ProcPaced'
<1> SUFFICES ASSUME TypeOK, Headed, ProcPaced, [Next]_vars PROVE ProcPaced'
  OBVIOUS
<1>0. /\ now \in Nat /\ last["proc"] \in Int /\ Interval \in Nat /\ Jitter \in Nat /\ MaxLate \in Nat
      /\ late \in Nat /\ t0["proc"] \in Int /\ procEl \in Seq(Int)
  BY Constants DEF TypeOK, Collectors
<1>1. CASE SampleProc
  <2>1. /\ procEl' = Append(procEl, now - t0["proc"]) /\ last' = [last EXCEPT !["proc"] = now]
        /\ "proc" \in Traced /\ UNCHANGED <<now, t0, plan>> /\ now >= last["proc"] + Interval
    BY <1>1 DEF SampleProc, Took, Due, power, loop
  <2>2. last'["proc"] = now
    BY <2>1 DEF TypeOK, Collectors
  <2>3. ASSUME procEl # <<>>
        PROVE  /\ procEl[Len(procEl)] + Interval <= now - t0["proc"]
               /\ now - t0["proc"] <= procEl[Len(procEl)] + Interval + Jitter
    <3>1. procEl[Len(procEl)] \in Int
      BY <1>0, <2>3
    <3>2. PICK x \in Int : x = procEl[Len(procEl)]
      BY <3>1
    <3>3. last["proc"] = t0["proc"] + x /\ now <= last["proc"] + Interval + Jitter
      BY <2>3, <3>2 DEF ProcPaced, OnTime
    <3>4. now >= last["proc"] + Interval
      BY <2>1
    <3>5. x + Interval <= now - t0["proc"] /\ now - t0["proc"] <= x + Interval + Jitter
      BY <1>0, <3>3, <3>4
    <3> QED BY <3>2, <3>5
  <2>4. Gaps(Append(procEl, now - t0["proc"]))
    <3>1. now - t0["proc"] \in Int
      BY <1>0
    <3> QED BY <1>0, <2>3, <3>1, GapAdded DEF ProcPaced
  <2>5. Gaps(procEl')
    BY <2>1, <2>4
  <2>6. procEl'[Len(procEl')] = now - t0["proc"]
    BY <2>1, <1>0
  <2>7. OnTime("proc")' /\ last'["proc"] = t0'["proc"] + procEl'[Len(procEl')]
    BY <2>1, <2>2, <2>6, <1>0 DEF OnTime
  <2>8. ("proc" \in Traced)'
    BY <2>1 DEF Traced
  <2> QED BY <2>5, <2>7, <2>8 DEF ProcPaced, Gaps
<1>2. CASE Tick
  <2>1. /\ now' = now + 1 /\ UNCHANGED <<last, procEl, t0, plan>>
        /\ "proc" \in Traced => now < last["proc"] + Interval + (IF late < MaxLate THEN Jitter ELSE 0)
    BY <1>2 DEF Tick, loop
  <2>2. ASSUME procEl # <<>> PROVE OnTime("proc")'
    <3>1. now < last["proc"] + Interval + (IF late < MaxLate THEN Jitter ELSE 0)
          /\ last["proc"] <= now /\ last'["proc"] = last["proc"]
      BY <2>1, <2>2 DEF ProcPaced, OnTime
    <3>2. now' <= last["proc"] + Interval + Jitter /\ last["proc"] <= now'
      BY <3>1, <2>1, <1>0
    <3> QED BY <3>1, <3>2 DEF OnTime
  <2> QED BY <2>1, <2>2 DEF ProcPaced, Gaps, Traced
<1>3. CASE SampleRapl \/ ReadRow
  <2>1. /\ last' = [last EXCEPT !["power"] = now] /\ UNCHANGED <<now, procEl, t0, plan>>
    BY <1>3 DEF SampleRapl, ReadRow, Took, loop
  <2>2. last'["proc"] = last["proc"]
    BY <2>1 DEF TypeOK
  <2> QED BY <2>1, <2>2 DEF ProcPaced, Gaps, Traced, OnTime
<1>4. CASE UNCHANGED <<now, procEl, last, t0, plan>>
  BY <1>4 DEF ProcPaced, Gaps, Traced, OnTime
<1>5. ~Tick /\ ~SampleRapl /\ ~ReadRow /\ ~SampleProc => UNCHANGED <<now, procEl, last, t0, plan>>
  BY DEF Next, vars, power, loop, ReadHeader, Retry, FireRound, RoundOver, Begin, End
<1> QED BY <1>1, <1>2, <1>3, <1>4, <1>5
----------------------------------------------------------------------------
\* What the analyzer reads of the files.
LEMMA TheFile ==
  ASSUME TypeOK
  PROVE  /\ LoadPower(Dir).rows # <<>> => LoadPower(Dir) = out
         /\ out.rows # <<>> => LoadPower(Dir) = out
<1>0. source \in {"rapl", "turbostat"}
  BY DEF TypeOK
<1>1. NoFile.rows = <<>>
  BY DEF NoFile
<1>2. /\ Dir.rapl = (IF source = "rapl" THEN out ELSE NoFile)
      /\ Dir.turbostat = (IF source = "turbostat" THEN out ELSE NoFile)
  BY DEF Dir
<1>3. CASE source = "rapl"
  BY <1>1, <1>2, <1>3 DEF LoadPower
<1>4. CASE source = "turbostat"
  BY <1>1, <1>2, <1>4 DEF LoadPower
<1> QED BY <1>0, <1>3, <1>4

IInv == TypeOK /\ Headed /\ Clocked /\ Paced /\ ProcPaced

LEMMA Rowing ==
  ASSUME TypeOK
  PROVE  /\ out.rows \in Seq(Rows(out.cols)) /\ Len(out.rows) \in Nat
         /\ \A i \in 1..Len(out.rows) : /\ out.rows[i].ts \in Int /\ out.rows[i].el \in Int
                                        /\ out.rows[i].w \in [Range(out.cols) -> Int]
<1>1. out.rows \in Seq(Rows(out.cols))
  BY DEF TypeOK, IsFile
<1>2. \A i \in 1..Len(out.rows) : out.rows[i] \in Rows(out.cols)
  BY <1>1
<1>3. \A r \in Rows(out.cols) : r.ts \in Int /\ r.el \in Int /\ r.w \in [Range(out.cols) -> Int]
  BY DEF Rows
<1> QED BY <1>1, <1>2, <1>3

LEMMA TheOrigin ==
  ASSUME TypeOK, out.rows # <<>>
  PROVE  RaplClockOrigin(Dir) = out.rows[1].ts - out.rows[1].el
<1> DEFINE I == {i \in 1..Len(out.rows) : out.rows[i].ts # None /\ out.rows[i].el # None}
<1>1. 1 \in 1..Len(out.rows)
  BY Rowing
<1>2. 1 \in I
  BY <1>1, Rowing, NoneAssumption
<1>3. I \subseteq Nat /\ \A i \in I : i >= 1
  BY Rowing
<1> HIDE DEF I
<1>4. Min(I) \in I /\ Min(I) <= 1
  BY <1>2, <1>3, MinIsLeast
<1>5. Min(I) = 1
  <2>1. Min(I) \in Nat /\ Min(I) >= 1
    BY <1>3, <1>4
  <2> QED BY <2>1, <1>4
<1>6. SelectInSeq(out.rows, LAMBDA r : r.ts # None /\ r.el # None) = 1
  BY <1>2, <1>5 DEF SelectInSeq, I
<1> QED BY <1>6, TheFile DEF RaplClockOrigin

\* Everything can be read.
LEMMA AllReadable ==
  ASSUME NEW s \in Seq(Int \X Int)
  PROVE  Readable(s) = s
<1>1. \A i \in DOMAIN s : X(s[i]) # None /\ Y(s[i]) # None
  <2>1. \A i \in DOMAIN s : s[i] \in Int \X Int
    OBVIOUS
  <2> QED BY <2>1, NoneAssumption DEF X, Y
<1>2. {i \in DOMAIN s : X(s[i]) # None /\ Y(s[i]) # None} = 1..Len(s)
  BY <1>1
<1> QED BY <1>2, OnlyAll DEF Readable, Where

LEMMA TheWindows ==
  ASSUME TypeOK, out.rows # <<>>, NEW o \in Int, o = out.rows[1].ts - out.rows[1].el
  PROVE  Windows = [i \in 1..Len(inv) |-> <<inv[i].startIso - o, inv[i].endIso - o>>]
<1> DEFINE wall == [i \in DOMAIN inv |-> <<inv[i].startIso, inv[i].endIso>>]
           own == [i \in DOMAIN inv |-> <<inv[i].startElapsed, inv[i].endElapsed>>]
<1>1. inv \in Seq(Calls) /\ DOMAIN inv = 1..Len(inv) /\ Len(inv) \in Nat
  BY DEF TypeOK
<1>2. \A i \in 1..Len(inv) : /\ inv[i].startIso \in Int /\ inv[i].endIso \in Int
                             /\ inv[i].startElapsed \in Int /\ inv[i].endElapsed \in Int
  <2>1. \A i \in 1..Len(inv) : inv[i] \in Calls
    BY <1>1
  <2> QED BY <2>1 DEF Calls
<1>3. wall \in Seq(Int \X Int) /\ own \in Seq(Int \X Int)
  BY <1>1, <1>2
<1>4. Len(wall) = Len(inv) /\ DOMAIN wall = 1..Len(inv) /\ DOMAIN own = 1..Len(inv)
      /\ \A i \in 1..Len(inv) : wall[i][1] = inv[i].startIso /\ wall[i][2] = inv[i].endIso
  BY <1>1
<1>5. Dir.inv = inv /\ RaplClockOrigin(Dir) = o /\ o # None
  BY TheOrigin, NoneAssumption DEF Dir
<1> DEFINE aligned == [i \in DOMAIN wall |-> <<wall[i][1] - o, wall[i][2] - o>>]
<1>6. aligned = [i \in 1..Len(inv) |-> <<inv[i].startIso - o, inv[i].endIso - o>>]
  <2> HIDE DEF wall
  <2> QED BY <1>4
<1>7. Readable(wall) = wall /\ Readable(own) = own
  <2> HIDE DEF wall, own
  <2> QED BY <1>3, AllReadable
<1>8. Windows = IF wall # <<>> THEN aligned ELSE own
  <2>1. Readable([i \in DOMAIN Dir.inv |-> <<Dir.inv[i].startIso, Dir.inv[i].endIso>>]) = wall
    BY <1>5, <1>7
  <2>2. Readable([i \in DOMAIN Dir.inv |-> <<Dir.inv[i].startElapsed, Dir.inv[i].endElapsed>>]) = own
    BY <1>5, <1>7
  <2> HIDE DEF wall, own
  <2> QED BY <1>5, <2>1, <2>2 DEF Windows, InvocationWindows
<1>9. CASE wall # <<>>
  BY <1>6, <1>8, <1>9
<1>10. CASE wall = <<>>
  <2>1. Len(inv) = 0
    <3> HIDE DEF wall
    <3> QED BY <1>4, <1>10
  <2>2. 1..Len(inv) = {} /\ DOMAIN inv = {}
    BY <1>1, <2>1
  <2>3. own = [i \in {} |-> <<inv[i].startIso - o, inv[i].endIso - o>>]
    BY <2>2
  <2> HIDE DEF wall, own
  <2> QED BY <1>8, <1>10, <2>2, <2>3
<1> QED BY <1>9, <1>10
LEMMA TheColumn ==
  ASSUME TypeOK, HasPower(Dir, "package")
  PROVE  /\ out.rows # <<>> /\ LoadPower(Dir) = out
         /\ PowerCol(out, "package") \in Range(out.cols)
<1>1. out.rows # <<>> /\ LoadPower(Dir) = out
  <2>1. LoadPower(Dir).rows # <<>>
    BY DEF HasPower, PowerCol
  <2> QED BY <2>1, TheFile
<1>2. out.cols \in Seq(Columns)
  BY DEF TypeOK, IsFile
<1> DEFINE D == {i \in DOMAIN out.cols : out.cols[i][1] \in Domains}
           cols == Only(out.cols, D)
<1>3. cols = WattCols(out) /\ D \subseteq 1..Len(out.cols) /\ DOMAIN out.cols = 1..Len(out.cols)
  <2>1. DOMAIN out.cols = 1..Len(out.cols)
    BY <1>2
  <2> QED BY <2>1 DEF WattCols, Where
<1>4. PICK p : cols \in Seq(Columns) /\ Picks(p, cols, out.cols, D)
  <2> HIDE DEF D
  <2> QED BY <1>2, <1>3, OnlyPicks
<1>5. \A k \in 1..Len(cols) : cols[k] \in Range(out.cols)
  <2> SUFFICES ASSUME NEW k \in 1..Len(cols) PROVE cols[k] \in Range(out.cols)
    OBVIOUS
  <2>1. p[k] \in 1..Len(out.cols) /\ cols[k] = out.cols[p[k]]
    <3> HIDE DEF cols, D
    <3> QED BY <1>3, <1>4 DEF Picks
  <2> QED BY <2>1, <1>3 DEF Range
<1> HIDE DEF cols, D
<1>6. ASSUME NEW what PROVE FirstOf(cols, what) = 0 \/ FirstOf(cols, what) \in 1..Len(cols)
  <2> DEFINE I == {i \in 1..Len(cols) : Matches(cols[i], what)}
  <2>1. FirstOf(cols, what) = IF I # {} THEN Min(I) ELSE 0
    BY DEF FirstOf, SelectInSeq
  <2>2. I \subseteq Nat /\ I \subseteq 1..Len(cols)
    BY <1>4
  <2> HIDE DEF I
  <2>3. I # {} => Min(I) \in I
    BY <2>2, MinIsLeast
  <2> QED BY <2>1, <2>2, <2>3
<1>7. PowerCol(out, "package") # None
  BY <1>1 DEF HasPower
<1>8. cols # <<>> => 1 \in 1..Len(cols)
  BY <1>4
<1>9. PowerCol(out, "package") \in {cols[k] : k \in 1..Len(cols)}
  <2> DEFINE at == [i \in 1..2 |-> FirstOf(cols, Preference("package")[i])]
  <2>1. at[1] \in {0} \cup 1..Len(cols) /\ at[2] \in {0} \cup 1..Len(cols)
    BY <1>6
  <2>2. PowerCol(out, "package") =
          (IF out.rows = <<>> \/ cols = <<>> THEN None
           ELSE IF at[1] # 0 THEN cols[at[1]]
           ELSE IF at[2] # 0 THEN cols[at[2]] ELSE cols[1])
    BY <1>3 DEF PowerCol
  <2> HIDE DEF at
  <2>3. cols # <<>>
    BY <2>2, <1>7
  <2> QED BY <2>1, <2>2, <2>3, <1>1, <1>8
<1> QED BY <1>1, <1>5, <1>9

\* The samples of the power target, in the order they were taken.
LEMMA ThePoints ==
  ASSUME TypeOK, HasPower(Dir, "package")
  PROVE  /\ Points \in Seq(Int \X Int) /\ Len(Points) = Len(out.rows)
         /\ \A i \in 1..Len(out.rows) : X(Points[i]) = out.rows[i].el
         /\ Xs(Points) = [i \in 1..Len(out.rows) |-> out.rows[i].el]
<1> DEFINE col == PowerCol(out, "package")
           s == [i \in DOMAIN out.rows |-> <<out.rows[i].el, out.rows[i].w[col]>>]
<1>1. LoadPower(Dir) = out /\ col \in Range(out.cols)
  BY TheColumn
<1>2. DOMAIN out.rows = 1..Len(out.rows) /\ Len(out.rows) \in Nat
  BY Rowing
<1> HIDE DEF col
<1>3. \A i \in 1..Len(out.rows) : <<out.rows[i].el, out.rows[i].w[col]>> \in Int \X Int
  BY <1>1, Rowing
<1>4. s \in Seq(Int \X Int) /\ Len(s) = Len(out.rows)
  BY <1>2, <1>3
<1>5. Points = Readable(s)
  BY <1>1 DEF Points, PowerSamples, col
<1>6. \A i \in 1..Len(out.rows) : X(s[i]) = out.rows[i].el
  BY <1>2 DEF X
<1> HIDE DEF s
<1>7. Points = s
  BY <1>4, <1>5, AllReadable
<1>8. DOMAIN Points = 1..Len(out.rows)
  BY <1>4, <1>7
<1>9. Xs(Points) = [i \in 1..Len(out.rows) |-> out.rows[i].el]
  BY <1>6, <1>7, <1>8 DEF Xs
<1> QED BY <1>4, <1>6, <1>7, <1>9
----------------------------------------------------------------------------
\* Two sample intervals and more.
LEMMA PadIsWide ==
  ASSUME NEW xs \in Seq(Int), Len(xs) >= 2, Gaps(xs)
  PROVE  /\ Pad(xs) \in Int /\ Pad(xs) >= 2 * Interval
<1> DEFINE d == [i \in 1..(Len(xs) - 1) |-> xs[i + 1] - xs[i]]
<1>1. Len(xs) \in Nat /\ \A i \in 1..Len(xs) : xs[i] \in Int
  OBVIOUS
<1>2. \A i \in 1..(Len(xs) - 1) : xs[i + 1] - xs[i] \in Int /\ xs[i + 1] - xs[i] >= Interval
  <2> SUFFICES ASSUME NEW i \in 1..(Len(xs) - 1)
               PROVE  xs[i + 1] - xs[i] \in Int /\ xs[i + 1] - xs[i] >= Interval
    OBVIOUS
  <2>1. i \in 1..Len(xs) /\ i + 1 \in 1..Len(xs)
    BY <1>1
  <2>2. xs[i] \in Int /\ xs[i + 1] \in Int /\ xs[i] + Interval <= xs[i + 1] /\ Interval \in Int
    BY <1>1, <2>1, Constants DEF Gaps
  <2> QED BY <2>2
<1>3. d \in Seq(Int) /\ Len(d) = Len(xs) - 1 /\ \A i \in 1..Len(d) : d[i] \in Int /\ d[i] >= Interval
  BY <1>1, <1>2
<1>4. Pad(xs) = Median2(d)
  BY <1>1 DEF Pad
<1> HIDE DEF d
<1>5. Len(d) > 0
  BY <1>1, <1>3
<1>6. \E i, j \in 1..Len(d) : Median2(d) = d[i] + d[j]
  BY <1>3, <1>5, MedianIsOfTwo
<1>7. PICK i \in 1..Len(d), j \in 1..Len(d) : Median2(d) = d[i] + d[j]
  BY <1>6
<1>8. d[i] \in Int /\ d[j] \in Int /\ d[i] >= Interval /\ d[j] >= Interval
  BY <1>3
<1> QED BY <1>4, <1>7, <1>8, Constants

\* They absorb the difference of two clocks, and the delay of a sample, but for the first
\* `head` and the last `tail` ticks.
LEMMA SlackIsEnough ==
  ASSUME NEW x \in Int, NEW y \in Int, NEW a \in Int, NEW b \in Int, NEW s \in Int, NEW e \in Int,
         NEW pad \in Int, NEW I \in Int, NEW J \in Int, NEW head \in Int, NEW tail \in Int,
         pad >= 2 * I, x <= y + I + J, J + (b - a) <= I + 1 + tail, b - a + 2 * I + 1 + head >= 0,
         s + head < x + a, e - tail > y + a
  PROVE  s - b - pad <= x /\ x <= e - b + pad
<1>1. s - b - pad <= x
  <2>1. s <= x + a - head - 1 /\ a - head - 1 <= b + 2 * I
    OBVIOUS
  <2>2. s - b <= x + 2 * I
    BY <2>1
  <2> QED BY <2>2
<1>2. x <= e - b + pad
  <2>1. e >= x - I - J + a + tail + 1
    OBVIOUS
  <2>2. e - b >= x - 2 * I
    BY <2>1
  <2> QED BY <2>2
<1> QED BY <1>1, <1>2

LEMMA SlackCovers ==
  ASSUME NEW xs \in Seq(Int), Gaps(xs), NEW a \in Int, NEW b \in Int, NEW head \in Int, NEW tail \in Int,
         Jitter + (b - a) <= Interval + 1 + tail, b - a + 2 * Interval + 1 + head >= 0,
         NEW i \in 2..Len(xs), NEW s \in Int, NEW e \in Int,
         s + head < xs[i] + a, e - tail > xs[i - 1] + a
  PROVE  s - b - Pad(xs) <= xs[i] /\ xs[i] <= e - b + Pad(xs)
<1>1. Len(xs) >= 2 /\ i - 1 \in 1..(Len(xs) - 1) /\ i \in 1..Len(xs) /\ i - 1 \in 1..Len(xs)
      /\ (i - 1) + 1 = i /\ Len(xs) \in Nat
  OBVIOUS
<1>2. xs[i] \in Int /\ xs[i - 1] \in Int
  BY <1>1
<1>3. xs[i] <= xs[i - 1] + Interval + Jitter
  BY <1>1 DEF Gaps
<1>4. Pad(xs) \in Int /\ Pad(xs) >= 2 * Interval
  BY <1>1, PadIsWide
<1>5. Interval \in Int /\ Jitter \in Int
  BY Constants
<1> QED BY <1>2, <1>3, <1>4, <1>5, SlackIsEnough

\* What the slack leaves is a number of ticks.
LEMMA LostIsBound ==
  ASSUME NEW apart \in Nat
  PROVE  /\ LostHead(apart) \in Nat /\ LostHead(apart) >= apart - 2 * Interval - 1
         /\ LostTail(apart) \in Nat /\ LostTail(apart) >= Jitter + Lag + apart - Interval - 1
<1>1. \A q \in Int : Max({0, q}) = IF 0 >= q THEN 0 ELSE q
  BY OfTwo
<1>2. PICK h \in Int, t \in Int : h = apart - 2 * Interval - 1 /\ t = Jitter + Lag + apart - Interval - 1
  BY Constants
<1>3. LostHead(apart) = Max({0, h}) /\ LostTail(apart) = Max({0, t})
  BY <1>2 DEF LostHead, LostTail
<1>4. Max({0, h}) \in Nat /\ Max({0, h}) >= h /\ Max({0, t}) \in Nat /\ Max({0, t}) >= t
  BY <1>1
<1> QED BY <1>2, <1>3, <1>4

\* Work between two samples lies in a window the later sample is counted with.
LEMMA WorkIsCovered ==
  ASSUME TypeOK, NEW xs \in Seq(Int), Gaps(xs), NEW a \in Int, NEW b \in Int,
         NEW head \in Int, NEW tail \in Int,
         Jitter + (b - a) <= Interval + 1 + tail, b - a + 2 * Interval + 1 + head >= 0,
         Windows = [i \in 1..Len(inv) |-> <<inv[i].startIso - (Epoch + b), inv[i].endIso - (Epoch + b)>>],
         NEW times, \A i \in 1..Len(xs) : times[i] = xs[i] + a
  PROVE  IdleIsIdle(xs, times, head, tail)
<1> SUFFICES ASSUME NEW i \in 2..Len(xs), Worked(times[i - 1], times[i], head, tail)
             PROVE  IsActive(xs[i], Windows, Pad(xs))
  BY DEF IdleIsIdle
<1>1. i \in 1..Len(xs) /\ i - 1 \in 1..Len(xs)
  OBVIOUS
<1>2. times[i] = xs[i] + a /\ times[i - 1] = xs[i - 1] + a
  BY <1>1
<1>3. PICK k \in DOMAIN inv : /\ inv[k].startIso - Epoch + head < xs[i] + a
                              /\ inv[k].endIso - Epoch - tail > xs[i - 1] + a
  BY <1>2 DEF Worked
<1>4. k \in 1..Len(inv) /\ inv[k].startIso \in Int /\ inv[k].endIso \in Int /\ Epoch \in Int
  <2>1. inv \in Seq(Calls)
    BY DEF TypeOK
  <2>2. DOMAIN inv = 1..Len(inv)
    BY <2>1
  <2>3. k \in 1..Len(inv)
    BY <2>2, <1>3
  <2>4. inv[k] \in Calls
    BY <2>1, <2>3
  <2> QED BY <2>3, <2>4, Constants DEF Calls
<1>5. PICK s \in Int, e \in Int : s = inv[k].startIso - Epoch /\ e = inv[k].endIso - Epoch
  <2>1. PICK x \in Int, y \in Int : x = inv[k].startIso /\ y = inv[k].endIso
    BY <1>4
  <2>2. x - Epoch \in Int /\ y - Epoch \in Int
    BY <1>4
  <2> QED BY <2>1, <2>2
<1>6. s - b = inv[k].startIso - (Epoch + b) /\ e - b = inv[k].endIso - (Epoch + b)
  <2>1. \A t \in Int : (t - Epoch) - b = t - (Epoch + b)
    BY <1>4
  <2> QED BY <1>4, <1>5, <2>1
<1>7. s - b - Pad(xs) <= xs[i] /\ xs[i] <= e - b + Pad(xs)
  <2>1. s + head < xs[i] + a /\ e - tail > xs[i - 1] + a
    BY <1>3, <1>5
  <2> QED BY <2>1, SlackCovers
<1>8. k \in DOMAIN Windows /\ Windows[k][1] = s - b /\ Windows[k][2] = e - b
  BY <1>4, <1>6
<1> QED BY <1>7, <1>8 DEF IsActive

\* The samples and the windows, on one clock.
LEMMA OnOneClock ==
  ASSUME IInv, out.rows # <<>>
  PROVE  /\ Len(watched) \in Nat /\ Len(out.rows) = Len(watched) /\ 1 \in 1..Len(watched)
         /\ \A i \in 1..Len(watched) : watched[i] \in Int
         /\ \E o \in Int, b \in Int :
              /\ CountsFrom(o)
              /\ source = "rapl" => o = t0["power"]
              /\ b - o \in 0..Lag /\ out.rows[1].ts = Epoch + watched[1] + (b - o)
              /\ Windows = [i \in 1..Len(inv) |-> <<inv[i].startIso - (Epoch + b), inv[i].endIso - (Epoch + b)>>]
<1>1. TypeOK /\ Clocked
  BY DEF IInv
<1>2. Len(out.rows) = Len(watched) /\ Len(watched) \in Nat /\ watched \in Seq(Int) /\ watched # <<>>
  <2>1. watched \in Seq(Int) /\ out.rows \in Seq(Rows(out.cols))
    BY <1>1, Rowing DEF TypeOK
  <2>2. Len(out.rows) = Len(watched)
    BY <1>1 DEF Clocked
  <2> QED BY <2>1, <2>2
<1>3. PICK o \in Int : CountsFrom(o) /\ (source = "rapl" => o = t0["power"])
  BY <1>1 DEF Clocked
<1> DEFINE lag == out.rows[1].ts - Epoch - watched[1]
           b == o + lag
<1>4. lag \in 0..Lag
  BY <1>1, <1>2 DEF Clocked
<1>5. 1 \in 1..Len(watched) /\ out.rows[1].ts \in Int /\ out.rows[1].el = watched[1] - o
      /\ watched[1] \in Int
  <2>1. 1 \in 1..Len(watched)
    BY <1>2
  <2> QED BY <2>1, <1>1, <1>2, <1>3, Rowing DEF CountsFrom
<1>6. out.rows[1].ts - out.rows[1].el = Epoch + b /\ out.rows[1].ts = Epoch + watched[1] + lag
  BY <1>5, Constants
<1> HIDE DEF lag
<1>7. b \in Int /\ Epoch + b \in Int /\ b - o = lag
  BY <1>4, Constants
<1>8. Windows = [i \in 1..Len(inv) |-> <<inv[i].startIso - (Epoch + b), inv[i].endIso - (Epoch + b)>>]
  <2> HIDE DEF b
  <2> QED BY <1>1, <1>6, <1>7, TheWindows
<1>9. \A i \in 1..Len(watched) : watched[i] \in Int
  BY <1>2
<1> HIDE DEF b
<1> QED BY <1>2, <1>3, <1>4, <1>5, <1>6, <1>7, <1>8, <1>9

LEMMA NoneIsIdle ==
  ASSUME IInv
  PROVE  BusyNotIdle
<1> SUFFICES ASSUME LoadPower(Dir).rows # <<>>
             PROVE  /\ HasPower(Dir, "package") => IdleIsIdle(Xs(Points), watched, 0, LostTail(0))
                    /\ source = "rapl" =>
                         IdleIsIdle(procEl, ProcTimes, LostHead(Skew), LostTail(Skew))
  BY DEF BusyNotIdle
<1>1. TypeOK /\ Clocked /\ Paced /\ ProcPaced
  BY DEF IInv
<1>2. out.rows # <<>>
  BY <1>1, TheFile
<1>3. /\ Len(watched) \in Nat /\ Len(out.rows) = Len(watched)
      /\ \A i \in 1..Len(watched) : watched[i] \in Int
  BY <1>2, OnOneClock
<1>4. PICK o \in Int, b \in Int :
        /\ CountsFrom(o)
        /\ source = "rapl" => o = t0["power"]
        /\ b - o \in 0..Lag
        /\ Windows = [i \in 1..Len(inv) |-> <<inv[i].startIso - (Epoch + b), inv[i].endIso - (Epoch + b)>>]
  BY <1>2, OnOneClock
<1>5. ASSUME HasPower(Dir, "package") PROVE IdleIsIdle(Xs(Points), watched, 0, LostTail(0))
  <2>1. Xs(Points) = [i \in 1..Len(watched) |-> out.rows[i].el]
    BY <1>1, <1>3, <1>5, ThePoints
  <2>2. \A i \in 1..Len(watched) : watched[i] \in Int /\ out.rows[i].el = watched[i] - o
    BY <1>3, <1>4 DEF CountsFrom
  <2> DEFINE xs == Xs(Points)
  <2> HIDE DEF xs
  <2>3. xs \in Seq(Int) /\ Len(xs) = Len(watched) /\ \A i \in 1..Len(xs) : xs[i] = watched[i] - o
    BY <2>1, <2>2, <1>3 DEF xs
  <2>4. Gaps(xs)
    <3> SUFFICES ASSUME NEW i \in 1..(Len(xs) - 1)
                 PROVE  xs[i] + Interval <= xs[i + 1] /\ xs[i + 1] <= xs[i] + Interval + Jitter
      BY DEF Gaps
    <3>1. i \in 1..Len(xs) /\ i + 1 \in 1..Len(xs) /\ i \in 1..(Len(watched) - 1)
      BY <2>3, <1>3
    <3>2. watched[i] + Interval <= watched[i + 1] /\ watched[i + 1] <= watched[i] + Interval + Jitter
      BY <3>1, <1>1 DEF Paced, Gaps
    <3>3. watched[i] \in Int /\ watched[i + 1] \in Int /\ xs[i] = watched[i] - o /\ xs[i + 1] = watched[i + 1] - o
      BY <3>1, <2>2, <2>3
    <3> QED BY <3>2, <3>3, Constants
  <2>5. \A i \in 1..Len(xs) : watched[i] = xs[i] + o
    BY <2>2, <2>3
  <2>6. /\ LostTail(0) \in Int /\ Jitter + (b - o) <= Interval + 1 + LostTail(0)
        /\ b - o + 2 * Interval + 1 + 0 >= 0
    <3>1. LostTail(0) \in Nat /\ LostTail(0) >= Jitter + Lag + 0 - Interval - 1
      BY LostIsBound
    <3> QED BY <3>1, <1>4, Constants
  <2>7. PICK head \in Int, tail \in Int : head = 0 /\ tail = LostTail(0)
    BY <2>6
  <2>8. Jitter + (b - o) <= Interval + 1 + tail /\ b - o + 2 * Interval + 1 + head >= 0
    BY <2>6, <2>7
  <2>9. IdleIsIdle(xs, watched, head, tail)
    BY <1>1, <1>4, <2>3, <2>4, <2>5, <2>8, WorkIsCovered
  <2> QED BY <2>7, <2>9 DEF xs
<1>6. ASSUME source = "rapl"
       PROVE  IdleIsIdle(procEl, ProcTimes, LostHead(Skew), LostTail(Skew))
  <2>1. procEl \in Seq(Int) /\ t0["proc"] \in 0..Skew /\ o \in 0..Skew
    BY <1>1, <1>4, <1>6 DEF TypeOK, Collectors
  <2> DEFINE a == t0["proc"]
  <2>2. \A i \in 1..Len(procEl) : ProcTimes[i] = procEl[i] + a
    BY <2>1 DEF ProcTimes
  <2>3. /\ a \in Int /\ LostHead(Skew) \in Int /\ LostTail(Skew) \in Int
        /\ Jitter + (b - a) <= Interval + 1 + LostTail(Skew)
        /\ b - a + 2 * Interval + 1 + LostHead(Skew) >= 0
    <3>1. a \in 0..Skew /\ o \in 0..Skew /\ b - o \in 0..Lag
      BY <2>1, <1>4
    <3>2. b - a <= Lag + Skew /\ b - a + Skew >= 0
      BY <3>1, Constants
    <3>3. /\ LostHead(Skew) \in Nat /\ LostHead(Skew) >= Skew - 2 * Interval - 1
          /\ LostTail(Skew) \in Nat /\ LostTail(Skew) >= Jitter + Lag + Skew - Interval - 1
      BY LostIsBound, Constants
    <3>4. PICK d \in Int, h \in Int, t \in Int : d = b - a /\ h = LostHead(Skew) /\ t = LostTail(Skew)
      BY <3>1, <3>3, Constants
    <3>5. Jitter + d <= Interval + 1 + t
      BY <3>2, <3>3, <3>4, Constants
    <3>6. d + 2 * Interval + 1 + h >= 0
      BY <3>2, <3>3, <3>4, Constants
    <3> QED BY <3>1, <3>4, <3>5, <3>6, Constants
  <2> HIDE DEF a
  <2>4. Gaps(procEl)
    BY <1>1 DEF ProcPaced
  <2>5. IdleIsIdle(procEl, ProcTimes, LostHead(Skew), LostTail(Skew))
    BY <1>1, <1>4, <2>1, <2>2, <2>3, <2>4, WorkIsCovered
  <2> QED BY <2>5
<1> QED BY <1>5, <1>6

LEMMA IInvInit == Init => IInv
<1> SUFFICES ASSUME Init PROVE IInv
  OBVIOUS
<1>1. watched = <<>> /\ procEl = <<>> /\ Len(watched) = 0 /\ Len(procEl) = 0
  BY DEF Init
<1>2. Paced /\ ProcPaced
  BY <1>1 DEF Paced, ProcPaced, Gaps, LongGap
<1> QED BY <1>2, InitTypes, InitClocked DEF IInv

LEMMA IInvNext == IInv /\ [Next]_vars => IInv'
BY NextTypes, ClockedKept, PacedKept, ProcPacedKept DEF IInv

LEMMA Inductive == Spec => []IInv
BY IInvInit, IInvNext, PTL DEF Spec

\* Of an invocation the analyzer counts at most a fixed piece at either end as idle, in a
\* run of any length and at any rate: the distance of the collectors, the lag of the first
\* time stamp and the delay of a sample, less what its two sample intervals absorb; nothing
\* is lost where they absorb it all (split_active_idle and load_invocation_windows of
\* fc_analyze_pkg.py).
THEOREM Busy == Spec => []BusyNotIdle
<1>1. IInv => BusyNotIdle
  BY NoneIsIdle
<1> QED BY <1>1, Inductive, PTL
----------------------------------------------------------------------------
\* How many samples in a row can be late.
Delays == Min({MaxLate, 2})

LEMMA FewDelays ==
  /\ Delays \in 0..2 /\ (MaxLate >= 1 => Delays >= 1) /\ (MaxLate >= 2 => Delays = 2)
  /\ Delays * Jitter \in Nat
  /\ (Delays >= 1 => Delays * Jitter >= Jitter) /\ (Delays = 2 => Delays * Jitter = 2 * Jitter)
<1>1. {MaxLate, 2} \subseteq Nat /\ {MaxLate, 2} # {} /\ MaxLate \in Nat /\ Jitter \in Nat
  BY Constants
<1>2. Delays \in {MaxLate, 2} /\ Delays <= MaxLate /\ Delays <= 2
  BY <1>1, MinIsLeast DEF Delays
<1>3. Delays \in 0..2 /\ (MaxLate >= 1 => Delays >= 1) /\ (MaxLate >= 2 => Delays = 2)
  BY <1>1, <1>2
<1>4. CASE Delays = 0
  BY <1>1, <1>3, <1>4
<1>5. CASE Delays = 1
  BY <1>1, <1>3, <1>5
<1>6. CASE Delays = 2
  BY <1>1, <1>3, <1>6
<1> QED BY <1>3, <1>4, <1>5, <1>6

\* One interval between two samples, and two between three.
LEMMA Stretch ==
  ASSUME TypeOK, Paced, NEW i \in 1..(Len(watched) - 1)
  PROVE  /\ watched[i] \in Int /\ watched[i + 1] \in Int
         /\ watched[i] < watched[i + 1]
         /\ watched[i + 1] - watched[i] <= Interval + Delays * Jitter
         /\ i + 1 \in 1..(Len(watched) - 1) =>
              watched[i + 2] - watched[i] <= 2 * Interval + Delays * Jitter
<1>1. watched \in Seq(Int) /\ Len(watched) \in Nat /\ Interval \in Nat /\ Interval > 0 /\ Jitter \in Nat
  BY Constants DEF TypeOK
<1>2. \A k \in 1..Len(watched) : watched[k] \in Int
  BY <1>1
<1> DEFINE g == Delays * Jitter
<1>3. g \in Nat
  BY FewDelays
<1>4. MaxLate \in Nat /\ (MaxLate >= 1 => g >= Jitter) /\ (MaxLate >= 2 => g = 2 * Jitter)
  BY FewDelays, Constants
<1> HIDE DEF g
<1>5. ASSUME NEW k \in 1..(Len(watched) - 1)
      PROVE  /\ watched[k] + Interval <= watched[k + 1] /\ watched[k + 1] <= watched[k] + Interval + Jitter
             /\ ~LongGap(k) => watched[k + 1] <= watched[k] + Interval
             /\ LongGap(k) => g >= Jitter
             /\ watched[k] \in Int /\ watched[k + 1] \in Int
  <2>1. k \in 1..Len(watched) /\ k + 1 \in 1..Len(watched)
    BY <1>1
  <2>2. watched[k] \in Int /\ watched[k + 1] \in Int
    BY <2>1, <1>2
  <2>3. LongGap(k) => g >= Jitter
    BY <1>4 DEF Paced
  <2>4. ~LongGap(k) => watched[k + 1] <= watched[k] + Interval
    BY <2>2, <1>1 DEF LongGap
  <2>5. watched[k] + Interval <= watched[k + 1] /\ watched[k + 1] <= watched[k] + Interval + Jitter
    BY DEF Paced, Gaps
  <2> QED BY <2>2, <2>3, <2>4, <2>5
<1>6. watched[i] \in Int /\ watched[i + 1] \in Int /\ watched[i] < watched[i + 1]
      /\ watched[i + 1] - watched[i] <= Interval + g
  BY <1>1, <1>3, <1>5
<1>7. ASSUME i + 1 \in 1..(Len(watched) - 1)
      PROVE  watched[i + 2] - watched[i] <= 2 * Interval + g
  <2>1. (i + 1) + 1 = i + 2 /\ i # i + 1
    OBVIOUS
  <2>2. LongGap(i) /\ LongGap(i + 1) => g = 2 * Jitter
    BY <1>4, <1>7, <2>1 DEF Paced
  <2>3. /\ watched[i + 1] <= watched[i + 2]
        /\ watched[i + 2] <= watched[i + 1] + Interval + Jitter
        /\ ~LongGap(i + 1) => watched[i + 2] <= watched[i + 1] + Interval
        /\ LongGap(i + 1) => g >= Jitter
        /\ watched[i + 2] \in Int
    <3>1. /\ watched[i + 1] + Interval <= watched[(i + 1) + 1]
          /\ watched[(i + 1) + 1] <= watched[i + 1] + Interval + Jitter
          /\ ~LongGap(i + 1) => watched[(i + 1) + 1] <= watched[i + 1] + Interval
          /\ LongGap(i + 1) => g >= Jitter
          /\ watched[i + 1] \in Int /\ watched[(i + 1) + 1] \in Int
      BY <1>5, <1>7
    <3> QED BY <3>1, <2>1, <1>1
  <2>4. /\ watched[i + 1] <= watched[i] + Interval + Jitter
        /\ ~LongGap(i) => watched[i + 1] <= watched[i] + Interval
        /\ LongGap(i) => g >= Jitter
    BY <1>5
  <2>5. PICK x \in Int, y \in Int, z \in Int : x = watched[i] /\ y = watched[i + 1] /\ z = watched[i + 2]
    BY <1>6, <2>3
  <2>6. y <= x + Interval + Jitter /\ z <= y + Interval + Jitter
    BY <2>3, <2>4, <2>5
  <2>10. Interval \in Nat /\ Jitter \in Nat /\ g \in Nat
    BY <1>1, <1>3
  <2>7. CASE LongGap(i) /\ LongGap(i + 1)
    <3>1. g = 2 * Jitter
      BY <2>2, <2>7
    <3>2. z - x <= 2 * Interval + g
      BY <2>6, <3>1, <2>10
    <3> QED BY <2>5, <3>2
  <2>8. CASE ~LongGap(i)
    <3>1. y <= x + Interval
      BY <2>4, <2>5, <2>8
    <3>2. z <= y + Interval + g
      <4>1. CASE LongGap(i + 1)
        <5>1. z <= y + Interval + Jitter /\ g >= Jitter
          BY <2>3, <2>6, <4>1
        <5> QED BY <5>1, <2>10
      <4>2. CASE ~LongGap(i + 1)
        <5>1. z <= y + Interval
          BY <2>3, <2>5, <4>2
        <5> QED BY <5>1, <2>10
      <4> QED BY <4>1, <4>2
    <3>3. z - x <= 2 * Interval + g
      BY <3>1, <3>2, <2>10
    <3> QED BY <2>5, <3>3
  <2>9. CASE LongGap(i) /\ ~LongGap(i + 1)
    <3>1. z <= y + Interval /\ g >= Jitter
      BY <2>3, <2>4, <2>5, <2>9
    <3>2. z - x <= 2 * Interval + g
      BY <2>6, <3>1, <2>10
    <3> QED BY <2>5, <3>2
  <2> QED BY <2>7, <2>8, <2>9
<1> QED BY <1>6, <1>7 DEF g

\* Two samples lie in an interval that is long enough.
LEMMA TwoSamples ==
  ASSUME TypeOK, Paced, watched # <<>>, NEW s \in Int, NEW e \in Int,
         e - s + 1 >= 2 * Interval + Delays * Jitter,
         watched[1] <= s, e <= watched[Len(watched)]
  PROVE  \E i, j \in 1..Len(watched) : /\ i # j
                                       /\ s <= watched[i] /\ watched[i] <= e
                                       /\ s <= watched[j] /\ watched[j] <= e
<1> DEFINE n == Len(watched)
           g == Delays * Jitter
           T == {i \in 1..n : watched[i] >= s}
<1>1. n \in Nat /\ 1 \in 1..n /\ n \in 1..n /\ \A i \in 1..n : watched[i] \in Int
  BY DEF TypeOK
<1>2. g \in Nat /\ Interval \in Nat /\ Interval > 0 /\ e - s + 1 >= 2 * Interval + g
  BY FewDelays, Constants
<1> HIDE DEF g
<1>3. n \in T
  BY <1>1, <1>2
<1>4. PICK i \in T : \A y \in T : i <= y
  <2>1. T \subseteq Nat
    BY <1>1
  <2> HIDE DEF T
  <2> QED BY <1>3, <2>1, LeastOf
<1>5. i \in 1..n /\ watched[i] >= s /\ watched[i] \in Int
  BY <1>1
<1>6. i < n /\ watched[i + 1] <= e /\ s <= watched[i + 1] /\ watched[i] <= e
  <2>1. CASE i = 1
    <3>1. watched[i] = s /\ watched[n] > s
      BY <1>1, <1>2, <1>5, <2>1
    <3>2. i # n
      BY <3>1
    <3>3. i \in 1..(Len(watched) - 1)
      BY <3>2, <1>1, <1>5
    <3>4. watched[i + 1] \in Int /\ watched[i] < watched[i + 1] /\ watched[i + 1] - watched[i] <= Interval + g
      BY <3>3, Stretch DEF g
    <3> QED BY <3>1, <3>3, <3>4, <1>1, <1>2
  <2>2. CASE i # 1
    <3>1. i - 1 \in 1..n /\ i - 1 \notin T /\ (i - 1) + 1 = i /\ (i - 1) + 2 = i + 1 /\ i - 1 \in 1..(Len(watched) - 1)
      BY <1>1, <1>4, <1>5, <2>2
    <3>2. watched[i - 1] \in Int /\ watched[i - 1] < s
      BY <1>1, <3>1
    <3>3. watched[i] - watched[i - 1] <= Interval + g
      <4>1. watched[(i - 1) + 1] - watched[i - 1] <= Interval + Delays * Jitter
        BY <3>1, Stretch
      <4> QED BY <4>1, <3>1 DEF g
    <3>4. watched[i] < e /\ watched[n] >= e
      BY <3>2, <3>3, <1>1, <1>2, <1>5
    <3>5. i # n
      BY <3>4, <1>1, <1>5
    <3>6. i \in 1..(Len(watched) - 1)
      BY <3>5, <1>1, <1>5
    <3>7. watched[i + 1] - watched[i - 1] <= 2 * Interval + g
      <4>1. (i - 1) + 1 \in 1..(Len(watched) - 1)
        BY <3>1, <3>6
      <4>2. watched[(i - 1) + 2] - watched[i - 1] <= 2 * Interval + Delays * Jitter
        BY <3>1, <4>1, Stretch
      <4> QED BY <4>2, <3>1 DEF g
    <3>8. watched[i + 1] \in Int /\ watched[i] < watched[i + 1]
      BY <3>6, Stretch
    <3>9. watched[i + 1] <= e
      BY <3>2, <3>7, <3>8, <1>2
    <3> QED BY <3>4, <3>6, <3>8, <3>9, <1>1, <1>5
  <2> QED BY <2>1, <2>2
<1>7. i + 1 \in 1..n /\ i # i + 1
  BY <1>1, <1>5, <1>6
<1> QED BY <1>5, <1>6, <1>7
\* What is inside of a window.
LEMMA InsideHasTwo ==
  ASSUME NEW S, NEW points \in Seq(S), NEW from, NEW to,
         NEW i \in 1..Len(points), NEW j \in 1..Len(points), i # j,
         from <= X(points[i]), X(points[i]) <= to, from <= X(points[j]), X(points[j]) <= to
  PROVE  Len(Inside(points, from, to)) >= 2
<1> DEFINE D == {k \in DOMAIN points : from <= X(points[k]) /\ X(points[k]) <= to}
<1>1. D \subseteq 1..Len(points) /\ i \in D /\ j \in D
  OBVIOUS
<1>2. Inside(points, from, to) = Only(points, D)
  BY DEF Inside, Where
<1> HIDE DEF D
<1>3. IsFiniteSet(D) /\ Len(Only(points, D)) = Cardinality(D)
  BY <1>1, OnlyCounts
<1>4. IsFiniteSet({i}) /\ Cardinality({i}) = 1
  BY FS_Singleton
<1>5. Cardinality({i} \cup {j}) = 2
  <2>1. j \notin {i}
    OBVIOUS
  <2>2. Cardinality({i} \cup {j}) = (IF j \in {i} THEN Cardinality({i}) ELSE Cardinality({i}) + 1)
    BY <1>4, FS_AddElement
  <2>3. Cardinality({i} \cup {j}) = Cardinality({i}) + 1
    BY <2>1, <2>2
  <2>4. Cardinality({i} \cup {j}) = 1 + 1
    BY <2>3, <1>4
  <2>5. 1 + 1 = 2
    OBVIOUS
  <2> QED BY <2>4, <2>5, Zenon
<1>6. {i} \cup {j} \in SUBSET D
  BY <1>1
<1>7. Cardinality({i} \cup {j}) <= Cardinality(D)
  BY <1>3, <1>6, FS_Subset
<1>8. Cardinality(D) \in Nat
  BY <1>3, FS_CardinalityType
<1> QED BY <1>2, <1>3, <1>5, <1>7, <1>8

\* The windows that have an energy.
LEMMA Energies ==
  ASSUME NEW S, NEW points \in Seq(S), NEW n \in Nat, NEW windows, DOMAIN windows = 1..n,
         NEW long, long \subseteq 1..n,
         \A i \in long : Len(Inside(points, windows[i][1], windows[i][2])) >= 2
  PROVE  Cardinality(long) <= Len(IntegratePerWindow(points, windows))
<1> DEFINE cut == [i \in DOMAIN windows |-> Inside(points, windows[i][1], windows[i][2])]
           D == {i \in DOMAIN cut : Len(cut[i]) >= 2}
           kept == Only(cut, D)
<1>1. \A from, to : Inside(points, from, to) \in Seq(S)
  <2> SUFFICES ASSUME NEW from, NEW to PROVE Inside(points, from, to) \in Seq(S)
    OBVIOUS
  <2> DEFINE E == {k \in DOMAIN points : from <= X(points[k]) /\ X(points[k]) <= to}
  <2>1. E \subseteq 1..Len(points) /\ Inside(points, from, to) = Only(points, E)
    BY DEF Inside, Where
  <2> HIDE DEF E
  <2> QED BY <2>1, OnlyPicks
<1>2. cut \in Seq(Seq(S)) /\ Len(cut) = n /\ DOMAIN cut = 1..n
  <2>1. \A i \in 1..n : Inside(points, windows[i][1], windows[i][2]) \in Seq(S)
    BY <1>1
  <2> QED BY <2>1
<1>3. long \subseteq D /\ D \subseteq 1..Len(cut)
  BY <1>2
<1>4. IntegratePerWindow(points, windows) = [i \in DOMAIN kept |-> Trapezoid2(kept[i])]
  BY DEF IntegratePerWindow, Where
<1> HIDE DEF cut, D
<1>5. kept \in Seq(Seq(S)) /\ IsFiniteSet(D) /\ Len(kept) = Cardinality(D)
  BY <1>2, <1>3, OnlyPicks, OnlyCounts
<1> HIDE DEF kept
<1>6. Len(IntegratePerWindow(points, windows)) = Len(kept)
  <2>1. DOMAIN kept = 1..Len(kept) /\ Len(kept) \in Nat
    BY <1>5
  <2> QED BY <1>4, <2>1
<1>7. Cardinality(long) <= Cardinality(D)
  BY <1>3, <1>5, FS_Subset
<1> QED BY <1>5, <1>6, <1>7

LEMMA LongAreMeasured == IInv => LongOnesMeasured
<1> SUFFICES ASSUME IInv, HasPower(Dir, "package") PROVE LongOnesMeasured
  BY DEF LongOnesMeasured
<1> DEFINE long == {i \in DOMAIN inv :
                      /\ inv[i].endIso - inv[i].startIso + 1 >= 2 * Interval + Delays * Jitter
                      /\ inv[i].startIso >= out.rows[1].ts
                      /\ inv[i].endIso - Epoch <= watched[Len(watched)]}
<1>1. TypeOK /\ Paced /\ out.rows # <<>>
  BY TheColumn DEF IInv
<1>2. /\ Len(watched) \in Nat /\ Len(out.rows) = Len(watched) /\ 1 \in 1..Len(watched)
      /\ \A i \in 1..Len(watched) : watched[i] \in Int
  BY <1>1, OnOneClock
<1>3. PICK o \in Int, b \in Int :
        /\ CountsFrom(o)
        /\ b - o \in 0..Lag /\ out.rows[1].ts = Epoch + watched[1] + (b - o)
        /\ Windows = [i \in 1..Len(inv) |-> <<inv[i].startIso - (Epoch + b), inv[i].endIso - (Epoch + b)>>]
  BY <1>1, OnOneClock
<1>4. /\ Points \in Seq(Int \X Int) /\ Len(Points) = Len(watched)
      /\ \A i \in 1..Len(watched) : X(Points[i]) = watched[i] - o
  BY <1>1, <1>2, <1>3, ThePoints DEF CountsFrom
<1>5. inv \in Seq(Calls) /\ DOMAIN inv = 1..Len(inv) /\ Len(inv) \in Nat
  BY <1>1 DEF TypeOK
<1>6. ASSUME NEW i \in long PROVE Len(Inside(Points, Windows[i][1], Windows[i][2])) >= 2
  <2>1. i \in 1..Len(inv) /\ inv[i].startIso \in Int /\ inv[i].endIso \in Int /\ Epoch \in Int
    <3>1. i \in 1..Len(inv) /\ inv[i] \in Calls
      BY <1>5
    <3> QED BY <3>1, Constants DEF Calls
  <2>2. PICK u \in Int, v \in Int, c \in Int : u = inv[i].startIso /\ v = inv[i].endIso /\ c = b - o
    BY <2>1
  <2> DEFINE s == u - Epoch - c
             e == v - Epoch - c
  <2>3. s \in Int /\ e \in Int /\ e - s + 1 >= 2 * Interval + Delays * Jitter
    <3>1. v - u + 1 >= 2 * Interval + Delays * Jitter
      BY <2>2
    <3>2. s \in Int /\ e \in Int /\ e - s = v - u
      BY <2>1
    <3> HIDE DEF s, e
    <3> QED BY <3>1, <3>2
  <2>4. watched[1] <= s
    <3>1. u >= Epoch + watched[1] + c
      BY <1>3, <2>2
    <3> QED BY <3>1, <2>1, <1>2
  <2>5. e <= watched[Len(watched)]
    <3>1. v - Epoch <= watched[Len(watched)] /\ watched[Len(watched)] \in Int /\ c \in Nat
      BY <1>2, <1>3, <2>2, Constants
    <3> QED BY <3>1, <2>1
  <2>6. PICK j \in 1..Len(watched), k \in 1..Len(watched) :
          /\ j # k /\ s <= watched[j] /\ watched[j] <= e /\ s <= watched[k] /\ watched[k] <= e
    <3>1. watched # <<>>
      BY <1>2
    <3> HIDE DEF s, e
    <3> QED BY <1>1, <2>3, <2>4, <2>5, <3>1, TwoSamples
  <2>7. Windows[i][1] = s - o /\ Windows[i][2] = e - o
    <3>1. Windows[i] = <<u - (Epoch + b), v - (Epoch + b)>>
      BY <1>3, <2>1, <2>2
    <3>2. s - o = u - (Epoch + b) /\ e - o = v - (Epoch + b)
      <4>1. c = b - o /\ Epoch \in Int
        BY <2>1, <2>2
      <4> QED BY <4>1
    <3> HIDE DEF s, e
    <3> QED BY <3>1, <3>2
  <2>8. /\ s - o <= watched[j] - o /\ watched[j] - o <= e - o
        /\ s - o <= watched[k] - o /\ watched[k] - o <= e - o
    <3> HIDE DEF s, e
    <3> QED BY <2>3, <2>6, <1>2
  <2>9. j \in 1..Len(Points) /\ k \in 1..Len(Points) /\ X(Points[j]) = watched[j] - o /\ X(Points[k]) = watched[k] - o
    BY <1>4, <2>6
  <2> HIDE DEF long, s, e
  <2> QED BY <1>4, <2>6, <2>7, <2>8, <2>9, InsideHasTwo
<1>7. long \subseteq 1..Len(inv) /\ DOMAIN Windows = 1..Len(inv)
  BY <1>3, <1>5
<1>8. Cardinality(long) <= Len(IntegratePerWindow(Points, Windows))
  <2> HIDE DEF long
  <2> QED BY <1>4, <1>5, <1>6, <1>7, Energies
<1> QED BY <1>8 DEF LongOnesMeasured, Delays

\* Every invocation that takes two of the longest intervals, after the first row and
\* before the last, has an energy of its own: none of them is passed over for want of
\* samples, however long the run is, whichever of the samples were late and however far
\* the wall clock of the first row lags (integrate_per_window of fc_analyze_pkg.py).
THEOREM Measured == Spec => []LongOnesMeasured
BY LongAreMeasured, Inductive, PTL
----------------------------------------------------------------------------
\* The rounds: the invocations of a round begin within Spread, nothing begins before the
\* first round, the first row is of that round, and the rows are in the order they end.
Rounds ==
  /\ call \in [Instances -> {"idle", "due", "running", "done"}] /\ round \in Nat /\ fired \in Nat
  /\ round = 0 => inv = <<>> /\ \A k \in Instances : call[k] = "idle"
  /\ round # 0 => loopT0 <= now /\ loopT0 <= fired
  /\ round # 0 /\ inv = <<>> => fired = loopT0 /\ \A k \in Instances : call[k] \in {"due", "running"}
  /\ \A k \in Instances : call[k] = "due" => fired <= now /\ now <= fired + Spread
  /\ \A k \in Instances :
       call[k] = "running" => fired <= began[k] /\ began[k] <= now /\ began[k] <= fired + Spread

Rowed ==
  /\ inv # <<>> => inv[1].startIso <= Epoch + loopT0 + Spread
  /\ \A i \in 1..Len(inv) : Epoch + loopT0 <= inv[i].startIso /\ inv[i].endIso <= Epoch + now
  /\ \A i, j \in 1..Len(inv) : i <= j => inv[i].endIso <= inv[j].endIso

LEMMA RoundsKept == TypeOK /\ Rounds /\ [Next]_vars => Rounds'
<1> SUFFICES ASSUME TypeOK, Rounds, [Next]_vars PROVE Rounds'
  OBVIOUS
<1>0. /\ now \in Nat /\ Spread \in Nat /\ Gap \in Nat /\ loopT0 \in Int /\ round \in Nat /\ fired \in Nat
      /\ began \in [Instances -> Int] /\ 0 \in Instances
  <2>1. 0 \in Instances
    <3>1. plan[1] \in Nat /\ plan[1] > 0
      BY DEF TypeOK
    <3> QED BY <3>1 DEF Instances
  <2> QED BY <2>1, RecordingAssumption DEF TypeOK, Rounds
<1>1. CASE Tick
  <2>1. /\ now' = now + 1 /\ UNCHANGED <<plan, call, began, round, fired, loopT0, inv>>
        /\ \A k \in Instances : call[k] = "due" => now < fired + Spread
    BY <1>1 DEF Tick, loop
  <2> QED BY <1>0, <2>1 DEF Rounds, Instances
<1>2. CASE FireRound
  <2>1. /\ \A k \in Instances : call[k] = "idle"
        /\ round' = round + 1 /\ fired' = now /\ now >= fired
        /\ loopT0' = (IF round = 0 THEN now ELSE loopT0)
        /\ call' = [k \in Instances |-> "due"] /\ UNCHANGED <<now, plan, began, inv>>
    BY <1>2 DEF FireRound
  <2>2. round' # 0 /\ round' \in Nat /\ fired' \in Nat /\ Instances' = Instances
    BY <1>0, <2>1 DEF Instances
  <2>3. loopT0' <= now' /\ loopT0' <= fired'
    BY <1>0, <2>1 DEF Rounds
  <2>4. inv' = <<>> => fired' = loopT0'
    <3>1. round # 0 => inv # <<>>
      BY <1>0, <2>1 DEF Rounds
    <3> QED BY <2>1, <3>1
  <2>5. fired' <= now' /\ now' <= fired' + Spread
    BY <1>0, <2>1
  <2>6. \A k \in Instances : call'[k] = "due"
    BY <2>1
  <2> QED BY <2>1, <2>2, <2>3, <2>4, <2>5, <2>6 DEF Rounds
<1>3. CASE RoundOver
  <2>1. /\ \A k \in Instances : call[k] = "done"
        /\ call' = [k \in Instances |-> "idle"] /\ fired' = now + Gap
        /\ UNCHANGED <<now, plan, began, round, loopT0, inv>>
    BY <1>3 DEF RoundOver
  <2>2. round # 0 /\ inv # <<>>
    BY <1>0, <2>1 DEF Rounds
  <2>3. loopT0 <= now /\ loopT0 <= fired' /\ fired' \in Nat
    BY <1>0, <2>1, <2>2 DEF Rounds
  <2> QED BY <1>0, <2>1, <2>2, <2>3 DEF Rounds, Instances
<1>4. CASE \E k \in Instances : Begin(k)
  <2>1. PICK a \in Instances : Begin(a)
    BY <1>4
  <2>2. /\ call[a] = "due" /\ call' = [call EXCEPT ![a] = "running"] /\ began' = [began EXCEPT ![a] = now]
        /\ UNCHANGED <<now, plan, round, fired, loopT0, inv>>
    BY <2>1 DEF Begin
  <2>3. fired <= now /\ now <= fired + Spread
    BY <2>2 DEF Rounds
  <2>4. \A k \in Instances : /\ call'[k] = (IF k = a THEN "running" ELSE call[k])
                             /\ began'[k] = (IF k = a THEN now ELSE began[k])
    BY <1>0, <2>2 DEF Rounds
  <2>5. call' \in [Instances -> {"idle", "due", "running", "done"}] /\ Instances' = Instances
    BY <2>2 DEF Rounds, Instances
  <2>6. round # 0
    BY <2>2 DEF Rounds
  <2>7. \A k \in Instances :
          call'[k] = "running" => fired <= began'[k] /\ began'[k] <= now /\ began'[k] <= fired + Spread
    BY <1>0, <2>3, <2>4 DEF Rounds
  <2>8. inv = <<>> => fired = loopT0 /\ \A k \in Instances : call'[k] \in {"due", "running"}
    BY <2>4, <2>6 DEF Rounds
  <2>9. \A k \in Instances : call'[k] = "due" => fired <= now /\ now <= fired + Spread
    BY <2>3
  <2>10. loopT0 <= now /\ loopT0 <= fired
    BY <2>6 DEF Rounds
  <2> QED BY <1>0, <2>2, <2>5, <2>6, <2>7, <2>8, <2>9, <2>10 DEF Rounds
<1>5. CASE \E k \in Instances : End(k)
  <2>1. PICK a \in Instances : End(a)
    BY <1>5
  <2>2. /\ call[a] = "running" /\ call' = [call EXCEPT ![a] = "done"] /\ inv' # <<>>
        /\ UNCHANGED <<now, plan, began, round, fired, loopT0>>
    <3>1. /\ call[a] = "running" /\ call' = [call EXCEPT ![a] = "done"]
          /\ UNCHANGED <<now, plan, began, round, fired, loopT0>>
      BY <2>1 DEF End
    <3>2. PICK r : inv' = Append(inv, r)
      BY <2>1 DEF End
    <3>3. Append(inv, r) # <<>>
      <4>1. Len(Append(inv, r)) = Len(inv) + 1 /\ Len(inv) \in Nat
        BY DEF TypeOK
      <4> QED BY <4>1
    <3> QED BY <3>1, <3>2, <3>3
  <2>3. \A k \in Instances : call'[k] = (IF k = a THEN "done" ELSE call[k])
    BY <2>2 DEF Rounds
  <2>4. call' \in [Instances -> {"idle", "due", "running", "done"}] /\ Instances' = Instances
    BY <2>2 DEF Rounds, Instances
  <2>5. round # 0
    BY <2>2 DEF Rounds
  <2>6. \A k \in Instances :
          call'[k] = "running" => fired <= began[k] /\ began[k] <= now /\ began[k] <= fired + Spread
    BY <2>3 DEF Rounds
  <2>7. \A k \in Instances : call'[k] = "due" => fired <= now /\ now <= fired + Spread
    BY <2>3 DEF Rounds
  <2>8. loopT0 <= now /\ loopT0 <= fired
    BY <2>5 DEF Rounds
  <2> QED BY <1>0, <2>2, <2>4, <2>5, <2>6, <2>7, <2>8 DEF Rounds
<1>6. CASE UNCHANGED <<now, loop>>
  BY <1>6 DEF loop, Rounds, Instances
<1>7. \/ Tick \/ FireRound \/ RoundOver \/ (\E k \in Instances : Begin(k))
      \/ (\E k \in Instances : End(k)) \/ UNCHANGED <<now, loop>>
  BY DEF Next, vars, power, SampleRapl, ReadHeader, ReadRow, Retry, SampleProc, Took
<1> QED BY <1>1, <1>2, <1>3, <1>4, <1>5, <1>6, <1>7

LEMMA RowedKept == TypeOK /\ Rounds /\ Rowed /\ [Next]_vars => Rowed'
<1> SUFFICES ASSUME TypeOK, Rounds, Rowed, [Next]_vars PROVE Rowed'
  OBVIOUS
<1>0. /\ now \in Nat /\ Spread \in Nat /\ Epoch \in Nat /\ loopT0 \in Int /\ fired \in Nat
      /\ inv \in Seq(Calls) /\ Len(inv) \in Nat
      /\ \A i \in 1..Len(inv) : inv[i].startIso \in Int /\ inv[i].endIso \in Int
  <2>1. inv \in Seq(Calls)
    BY DEF TypeOK
  <2>2. \A i \in 1..Len(inv) : inv[i].startIso \in Int /\ inv[i].endIso \in Int
    <3>1. \A i \in 1..Len(inv) : inv[i] \in Calls
      BY <2>1
    <3> QED BY <3>1 DEF Calls
  <2>3. now \in Nat /\ loopT0 \in Int /\ fired \in Nat
    BY DEF TypeOK, Rounds
  <2> QED BY <2>1, <2>2, <2>3, Constants
<1>1. CASE Tick
  <2>1. now' = now + 1 /\ UNCHANGED <<loopT0, inv>>
    BY <1>1 DEF Tick, loop
  <2>2. \A i \in 1..Len(inv) : inv[i].endIso <= Epoch + now'
    <3> SUFFICES ASSUME NEW i \in 1..Len(inv) PROVE inv[i].endIso <= Epoch + now'
      OBVIOUS
    <3>1. inv[i].endIso <= Epoch + now /\ inv[i].endIso \in Int
      BY <1>0 DEF Rowed
    <3> QED BY <1>0, <2>1, <3>1
  <2> QED BY <2>1, <2>2 DEF Rowed
<1>2. CASE FireRound
  <2>1. (inv # <<>> => loopT0' = loopT0) /\ UNCHANGED <<now, inv>>
    BY <1>2 DEF FireRound, Rounds
  <2>2. inv = <<>> => Len(inv) = 0
    OBVIOUS
  <2> QED BY <2>1, <2>2 DEF Rowed
<1>3. CASE \E k \in Instances : End(k)
  <2>1. PICK a \in Instances : End(a)
    BY <1>3
  <2> DEFINE r == [startIso |-> Epoch + began[a], endIso |-> Epoch + now,
                   startElapsed |-> began[a] - loopT0, endElapsed |-> now - loopT0]
             n == Len(inv)
  <2>2. call[a] = "running" /\ inv' = Append(inv, r) /\ UNCHANGED <<now, loopT0>>
    BY <2>1 DEF End
  <2>3. r \in Calls /\ r.startIso = Epoch + began[a] /\ r.endIso = Epoch + now /\ began[a] \in Int
    <3>1. began[a] \in Int
      BY DEF TypeOK
    <3> QED BY <1>0, <3>1 DEF Calls
  <2> HIDE DEF r
  <2>4. Len(inv') = n + 1 /\ inv'[n + 1] = r /\ \A i \in 1..n : inv'[i] = inv[i]
    BY <1>0, <2>2, <2>3
  <2>5. loopT0 <= began[a] /\ began[a] <= now
    <3>1. round # 0 /\ fired <= began[a] /\ began[a] <= now
      BY <2>2 DEF Rounds
    <3> QED BY <1>0, <2>3, <3>1 DEF Rounds
  <2>6. inv'[1].startIso <= Epoch + loopT0 + Spread
    <3>1. CASE inv = <<>>
      <4>1. n = 0 /\ inv'[1] = r
        BY <2>4, <3>1
      <4>2. round # 0 /\ fired = loopT0 /\ began[a] <= fired + Spread
        BY <2>2, <3>1 DEF Rounds
      <4> QED BY <4>1, <4>2, <1>0, <2>3
    <3>2. CASE inv # <<>>
      <4>1. 1 \in 1..n
        BY <1>0, <3>2
      <4> QED BY <4>1, <2>4, <3>2 DEF Rowed
    <3> QED BY <3>1, <3>2
  <2>7. \A i \in 1..(n + 1) : i \in 1..n \/ i = n + 1
    BY <1>0
  <2>8. ASSUME NEW i \in 1..(n + 1)
        PROVE  /\ Epoch + loopT0 <= inv'[i].startIso /\ inv'[i].endIso <= Epoch + now
               /\ inv'[i].endIso \in Int
    <3>1. CASE i \in 1..n
      BY <3>1, <1>0, <2>4 DEF Rowed
    <3>2. CASE i = n + 1
      BY <3>2, <1>0, <2>3, <2>4, <2>5
    <3> QED BY <3>1, <3>2, <2>7
  <2>9. ASSUME NEW i \in 1..(n + 1), NEW j \in 1..(n + 1), i <= j
        PROVE  inv'[i].endIso <= inv'[j].endIso
    <3>1. CASE j \in 1..n
      <4>1. i \in 1..n
        BY <3>1, <2>9
      <4> QED BY <3>1, <4>1, <2>4, <2>9 DEF Rowed
    <3>2. CASE j = n + 1
      <4>1. inv'[j].endIso = Epoch + now
        BY <3>2, <2>3, <2>4
      <4> QED BY <4>1, <2>8
    <3> QED BY <3>1, <3>2, <2>7
  <2>10. \A i \in 1..Len(inv') : Epoch + loopT0' <= inv'[i].startIso /\ inv'[i].endIso <= Epoch + now'
    BY <2>2, <2>4, <2>8
  <2>11. \A i, j \in 1..Len(inv') : i <= j => inv'[i].endIso <= inv'[j].endIso
    BY <2>4, <2>9
  <2> QED BY <2>2, <2>6, <2>10, <2>11 DEF Rowed
<1>4. CASE UNCHANGED <<now, loopT0, inv>>
  BY <1>4 DEF Rowed
<1>5. \/ Tick \/ FireRound \/ (\E k \in Instances : End(k)) \/ UNCHANGED <<now, loopT0, inv>>
  BY DEF Next, vars, power, loop, SampleRapl, ReadHeader, ReadRow, Retry, SampleProc, Took, RoundOver, Begin
<1> QED BY <1>1, <1>2, <1>3, <1>4, <1>5

LEMMA InRounds == Spec => [](TypeOK /\ Rounds /\ Rowed)
<1>1. Init => Rounds /\ Rowed
  <2> SUFFICES ASSUME Init PROVE Rounds /\ Rowed
    OBVIOUS
  <2>1. Len(inv) = 0 /\ inv = <<>>
    BY DEF Init
  <2> QED BY <2>1 DEF Init, Rounds, Rowed
<1>2. IInv /\ Rounds /\ Rowed /\ [Next]_vars => (Rounds /\ Rowed)'
  BY RoundsKept, RowedKept DEF IInv
<1>3. IInv => TypeOK
  BY DEF IInv
<1> QED BY <1>1, <1>2, <1>3, Inductive, PTL DEF Spec
----------------------------------------------------------------------------
\* What lies between two times.
LEMMA InsideAre ==
  ASSUME NEW S, NEW points \in Seq(S), NEW from, NEW to
  PROVE  Range(Inside(points, from, to)) =
           {points[j] : j \in {k \in 1..Len(points) : from <= X(points[k]) /\ X(points[k]) <= to}}
<1> DEFINE D == {k \in 1..Len(points) : from <= X(points[k]) /\ X(points[k]) <= to}
           t == Only(points, D)
<1>1. D \subseteq 1..Len(points) /\ Inside(points, from, to) = t
  <2>1. DOMAIN points = 1..Len(points)
    OBVIOUS
  <2> QED BY <2>1 DEF Inside, Where
<1> HIDE DEF D
<1>2. PICK p : t \in Seq(S) /\ Picks(p, t, points, D)
  BY <1>1, OnlyPicks
<1> HIDE DEF t
<1>3. DOMAIN t = 1..Len(t)
  BY <1>2
<1>4. Range(t) = {points[j] : j \in D}
  <2>1. p \in [1..Len(t) -> D] /\ (\A m \in 1..Len(t) : t[m] = points[p[m]])
        /\ \A d \in D : \E m \in 1..Len(t) : p[m] = d
    BY <1>2 DEF Picks
  <2>2. ASSUME NEW m \in 1..Len(t) PROVE t[m] \in {points[j] : j \in D}
    <3>1. p[m] \in D /\ t[m] = points[p[m]]
      BY <2>1
    <3> QED BY <3>1
  <2>3. ASSUME NEW d \in D PROVE \E m \in 1..Len(t) : points[d] = t[m]
    <3>1. PICK m \in 1..Len(t) : p[m] = d
      BY <2>1
    <3> QED BY <3>1, <2>1
  <2>4. Range(t) = {t[m] : m \in 1..Len(t)}
    BY <1>3 DEF Range
  <2>5. Range(t) \subseteq {points[j] : j \in D}
    BY <2>2, <2>4
  <2>6. {points[j] : j \in D} \subseteq Range(t)
    BY <2>3, <2>4
  <2> QED BY <2>5, <2>6
<1> QED BY <1>1, <1>4 DEF D

\* The coordinates of a list of points.
LEMMA CoordinatesAre ==
  ASSUME NEW points \in Seq(Int \X Int)
  PROVE  /\ Xs(points) \in Seq(Int) /\ Len(Xs(points)) = Len(points)
         /\ Ys(points) \in Seq(Int) /\ Len(Ys(points)) = Len(points)
         /\ \A j \in 1..Len(points) : /\ Xs(points)[j] = X(points[j]) /\ Xs(points)[j] \in Int
                                     /\ Ys(points)[j] = Y(points[j]) /\ Ys(points)[j] \in Int
<1> DEFINE n == Len(points)
<1>1. n \in Nat /\ DOMAIN points = 1..n /\ \A j \in 1..n : X(points[j]) \in Int /\ Y(points[j]) \in Int
  <2>1. \A j \in 1..n : points[j] \in Int \X Int
    OBVIOUS
  <2>2. \A p \in Int \X Int : X(p) \in Int /\ Y(p) \in Int
    BY DEF X, Y
  <2> QED BY <2>1, <2>2
<1> HIDE DEF n
<1>2. [j \in 1..n |-> X(points[j])] \in [1..n -> Int] /\ [j \in 1..n |-> Y(points[j])] \in [1..n -> Int]
  BY <1>1
<1>3. Xs(points) = [j \in 1..n |-> X(points[j])] /\ Ys(points) = [j \in 1..n |-> Y(points[j])]
  BY <1>1 DEF Xs, Ys
<1>4. \A t \in [1..n -> Int] : t \in Seq(Int) /\ Len(t) = n
  BY <1>1
<1>5. Xs(points) \in Seq(Int) /\ Ys(points) \in Seq(Int) /\ Len(Xs(points)) = n /\ Len(Ys(points)) = n
  BY <1>2, <1>3, <1>4
<1>6. \A j \in 1..n : Xs(points)[j] = X(points[j]) /\ Ys(points)[j] = Y(points[j])
  BY <1>3
<1> QED BY <1>1, <1>5, <1>6 DEF n

\* The zoomed view covers the first invocations, if they begin in order but for half a
\* second, and end in order.
LEMMA ZoomCovers ==
  ASSUME NEW points \in Seq(Int \X Int), NEW windows \in Seq(Int \X Int),
         NEW i \in 1..Len(windows), i <= ZoomN, windows[1][1] <= windows[i][1] + HalfSecond,
         \A k \in i..Len(windows) : windows[i][2] <= windows[k][2]
  PROVE  Range(Inside(points, windows[i][1], windows[i][2]))
           \subseteq Range(DrawZoom(points, windows, ZoomXlim(Xs(points), windows, ZoomN)).line)
<1> DEFINE xs == Xs(points)
           k == Max({1, Min({ZoomN, Len(windows)})})
           from == windows[1][1]
           to == windows[k][2]
           pad == ZoomPad(from, to)
           lo == Min(Range(xs))
           hi == Max(Range(xs))
           xlim == ZoomXlim(xs, windows, ZoomN)
<1>1. Len(windows) \in Nat /\ i \in Nat /\ i >= 1 /\ i <= Len(windows) /\ ZoomN \in Nat
      /\ \A j \in 1..Len(windows) : windows[j][1] \in Int /\ windows[j][2] \in Int
  <2>1. \A j \in 1..Len(windows) : windows[j] \in Int \X Int
    OBVIOUS
  <2> QED BY <2>1, ZoomAssumption
<1>2. k \in i..Len(windows) /\ k \in 1..Len(windows)
  <2>1. PICK n \in Nat : n = Len(windows)
    BY <1>1
  <2>2. PICK z \in Nat : z = ZoomN
    BY <1>1
  <2>3. Min({z, n}) = IF z <= n THEN z ELSE n
    <3>1. z \in Int /\ n \in Int
      OBVIOUS
    <3> QED BY <3>1, OfTwo, Zenon
  <2>4. PICK q \in Nat : q = Min({z, n}) /\ i <= q /\ q <= n
    BY <2>1, <2>2, <2>3, <1>1
  <2>5. Max({1, q}) = IF 1 >= q THEN 1 ELSE q
    BY OfTwo
  <2>6. k = q
    BY <2>1, <2>2, <2>4, <2>5, <1>1
  <2> HIDE DEF k
  <2> QED BY <1>1, <2>1, <2>4, <2>6
<1>3. xlim = <<Max({lo, from - pad}), Min({hi, to + pad})>>
  <2>1. windows # <<>>
    BY <1>1
  <2> QED BY <2>1 DEF ZoomXlim
<1> HIDE DEF k
<1>4. from \in Int /\ to \in Int /\ windows[i][2] <= to /\ from <= windows[i][1] + HalfSecond
      /\ windows[i][1] \in Int /\ windows[i][2] \in Int
  <2>1. 1 \in 1..Len(windows)
    BY <1>1
  <2> QED BY <1>1, <1>2, <2>1
<1> HIDE DEF from, to
<1>5. pad \in Int /\ HalfSecond \in Nat /\ pad >= HalfSecond
  <2>1. (15 * (to - from)) \div 100 \in Int
    <3>1. 15 * (to - from) \in Int
      BY <1>4
    <3> QED BY <3>1
  <2>2. PICK q \in Int : q = (15 * (to - from)) \div 100
    BY <2>1
  <2>3. PICK h \in Int : h = HalfSecond /\ h \in Nat
    BY BoundAssumption
  <2>4. Max({h, q}) = IF h >= q THEN h ELSE q
    BY OfTwo
  <2>5. Max({h, q}) \in Int /\ Max({h, q}) >= h
    BY <2>4
  <2> QED BY <2>2, <2>3, <2>5 DEF ZoomPad
<1> HIDE DEF pad, xlim
<1>6. ASSUME NEW j \in 1..Len(points), windows[i][1] <= X(points[j]), X(points[j]) <= windows[i][2]
      PROVE  xlim[1] <= X(points[j]) /\ X(points[j]) <= xlim[2]
  <2>1. xs \in Seq(Int) /\ Len(xs) = Len(points) /\ xs # <<>> /\ xs[j] = X(points[j]) /\ xs[j] \in Int
    <3>1. xs \in Seq(Int) /\ Len(xs) = Len(points) /\ xs[j] = X(points[j]) /\ xs[j] \in Int
      BY CoordinatesAre
    <3> HIDE DEF xs
    <3>2. Len(xs) # 0
      BY <3>1
    <3> QED BY <3>1, <3>2
  <2> HIDE DEF xs
  <2>2. lo \in Int /\ hi \in Int /\ lo <= xs[j] /\ xs[j] <= hi /\ xs[j] \in Int
    <3>1. j \in 1..Len(xs) /\ xs[j] \in Int
      BY <2>1
    <3>2. Range(xs) \subseteq Int /\ hi \in Range(xs) /\ lo \in Range(xs)
          /\ lo <= xs[j] /\ xs[j] <= hi
      BY <2>1, <3>1, Extent, Zenon
    <3> QED BY <3>1, <3>2
  <2> HIDE DEF lo, hi
  <2>3. PICK x \in Int, w1 \in Int, w2 \in Int : x = xs[j] /\ w1 = windows[i][1] /\ w2 = windows[i][2]
    BY <1>4, <2>2
  <2>4. w1 <= x /\ x <= w2 /\ w2 <= to /\ from <= w1 + HalfSecond /\ lo <= x /\ x <= hi
    BY <1>4, <1>6, <2>1, <2>2, <2>3
  <2>5. from - pad <= x /\ x <= to + pad /\ from - pad \in Int /\ to + pad \in Int
    <3>1. from - pad \in Int /\ to + pad \in Int
      <4>1. \A u, v \in Int : u - v \in Int /\ u + v \in Int
        OBVIOUS
      <4> QED BY <1>4, <1>5, <4>1, Zenon
    <3>2. from - pad <= x
      BY <1>4, <1>5, <2>4
    <3>3. x <= to + pad
      BY <1>4, <1>5, <2>4
    <3> QED BY <3>1, <3>2, <3>3
  <2>6. PICK a \in Int, b \in Int : a = from - pad /\ b = to + pad
    BY <2>5
  <2>7. Max({lo, a}) = (IF lo >= a THEN lo ELSE a) /\ Min({hi, b}) = (IF hi <= b THEN hi ELSE b)
    BY <2>2, OfTwo, Zenon
  <2>8. Max({lo, a}) <= x /\ x <= Min({hi, b})
    BY <2>2, <2>4, <2>5, <2>6, <2>7
  <2>9. xlim[1] = Max({lo, a}) /\ xlim[2] = Min({hi, b})
    BY <1>3, <2>6
  <2> QED BY <2>1, <2>3, <2>8, <2>9
<1>7. DrawZoom(points, windows, xlim).line = Inside(points, xlim[1], xlim[2])
  BY DEF DrawZoom
<1>8. Range(Inside(points, windows[i][1], windows[i][2])) \subseteq Range(Inside(points, xlim[1], xlim[2]))
  BY <1>6, InsideAre
<1> QED BY <1>7, <1>8 DEF xlim
----------------------------------------------------------------------------
\* The bins of a trace: where they are cut,
LEMMA EdgesCut ==
  ASSUME NEW n \in Nat
  PROVE  Cuts([i \in 0..Bins |-> Edge(n, i)], Bins, n)
<1> DEFINE e == [i \in 0..Bins |-> Edge(n, i)]
<1>0. Bins \in Nat \ {0}
  BY BoundAssumption
<1>1. ASSUME NEW i \in 1..Bins PROVE e[i - 1] \in Nat /\ e[i] \in Nat /\ e[i - 1] <= e[i]
  <2>1. i - 1 \in Nat /\ i \in Nat /\ (i - 1) + 1 = i /\ i \in 0..Bins /\ i - 1 \in 0..Bins
    BY <1>0
  <2>2. (i - 1) * n \in Nat /\ i * n \in Nat /\ (i - 1) * n <= i * n
    BY <2>1, MulMono
  <2>3. PICK a \in Nat, b \in Nat : a = (i - 1) * n /\ b = i * n /\ a <= b
    BY <2>2
  <2>4. a \div Bins \in Nat /\ b \div Bins \in Nat /\ a \div Bins <= b \div Bins
    BY <1>0, <2>3, DivIs, DivMono
  <2>5. e[i - 1] = a \div Bins /\ e[i] = b \div Bins
    BY <2>1, <2>3 DEF Edge
  <2> QED BY <2>4, <2>5
<1>2. e[0] = 0 /\ e[Bins] = n
  BY <1>0, DivExact DEF Edge
<1> HIDE DEF e
<1>3. ASSUME NEW i \in 0..Bins PROVE e[i] \in 0..n
  <2> DEFINE T == {k \in Nat : k <= Bins => Bins - k \in 0..Bins /\ e[Bins - k] \in 0..n}
  <2>1. 0 \in T
    BY <1>0, <1>2
  <2>2. ASSUME NEW k \in Nat, k \in T PROVE k + 1 \in T
    <3> SUFFICES ASSUME k + 1 <= Bins PROVE Bins - (k + 1) \in 0..Bins /\ e[Bins - (k + 1)] \in 0..n
      OBVIOUS
    <3>1. PICK j \in 1..Bins : j = Bins - k
      BY <1>0
    <3>2. e[j] \in 0..n
      BY <2>2, <3>1, <1>0
    <3>3. e[j - 1] \in Nat /\ e[j] \in Nat /\ e[j - 1] <= e[j]
      BY <1>1
    <3>4. PICK u \in Nat, v \in Nat : u = e[j - 1] /\ v = e[j] /\ u <= v /\ v <= n
      BY <3>2, <3>3
    <3>5. e[j - 1] \in 0..n
      BY <3>4
    <3>6. Bins - (k + 1) = j - 1 /\ j - 1 \in 0..Bins
      BY <3>1, <1>0
    <3> QED BY <3>5, <3>6
  <2> HIDE DEF T
  <2>3. \A k \in Nat : k \in T
    BY <2>1, <2>2, ByInduction
  <2>4. Bins - i \in Nat /\ Bins - i <= Bins /\ Bins - (Bins - i) = i
    BY <1>0
  <2> QED BY <2>3, <2>4 DEF T
<1>4. e \in [0..Bins -> 0..n]
  BY <1>3 DEF e
<1> QED BY <1>1, <1>2, <1>4 DEF Cuts, e

\* what is between two cuts,
LEMMA SubPoints ==
  ASSUME NEW points \in Seq(Int \X Int), NEW a \in 0..Len(points), NEW b \in 0..Len(points), a <= b
  PROVE  /\ SubSeq(points, a + 1, b) \in Seq(Int \X Int) /\ Len(SubSeq(points, a + 1, b)) = b - a
         /\ \A j \in 1..(b - a) : SubSeq(points, a + 1, b)[j] = points[a + j] /\ a + j \in 1..Len(points)
         /\ Xs(SubSeq(points, a + 1, b)) = SubSeq(Xs(points), a + 1, b)
<1> DEFINE t == SubSeq(points, a + 1, b)
<1>1. Len(points) \in Nat /\ a \in Nat /\ b \in Nat /\ b - a \in Nat /\ b <= Len(points)
  OBVIOUS
<1>2. t \in Seq(Int \X Int) /\ Len(t) = b - a
  <2>1. \A i \in (a + 1)..b : points[i] \in Int \X Int
    BY <1>1
  <2>2. t = [j \in 1..(b - a) |-> points[a + j]]
    BY <1>1
  <2>3. \A j \in 1..(b - a) : a + j \in (a + 1)..b
    BY <1>1
  <2> HIDE DEF t
  <2>4. t \in [1..(b - a) -> Int \X Int]
    BY <2>1, <2>2, <2>3
  <2>5. \A n \in Nat : \A u \in [1..n -> Int \X Int] : u \in Seq(Int \X Int) /\ Len(u) = n
    OBVIOUS
  <2> QED BY <2>4, <2>5, <1>1
<1>3. \A j \in 1..(b - a) : t[j] = points[a + j] /\ a + j \in 1..Len(points)
  <2>1. t = [j \in 1..(b - a) |-> points[a + j]]
    BY <1>1
  <2>2. \A j \in 1..(b - a) : a + j \in 1..Len(points)
    BY <1>1
  <2> HIDE DEF t
  <2> QED BY <2>1, <2>2
<1> HIDE DEF t
<1>4. Xs(points) \in Seq(Int) /\ Len(Xs(points)) = Len(points)
      /\ \A j \in 1..Len(points) : Xs(points)[j] = X(points[j])
  BY CoordinatesAre
<1> DEFINE xs == Xs(points)
<1> HIDE DEF xs
<1>5. SubSeq(xs, a + 1, b) = [j \in 1..(b - a) |-> xs[a + j]]
  BY <1>1, <1>4 DEF xs
<1>6. DOMAIN t = 1..(b - a)
  BY <1>1, <1>2
<1>7. Xs(t) = [j \in 1..(b - a) |-> X(t[j])]
  BY <1>6 DEF Xs
<1>8. \A j \in 1..(b - a) : X(t[j]) = xs[a + j]
  BY <1>3, <1>4 DEF xs
<1>9. Xs(t) = SubSeq(xs, a + 1, b)
  BY <1>5, <1>7, <1>8
<1> QED BY <1>2, <1>3, <1>9 DEF t, xs

\* and what the bins hold: every point once, and nothing else.
LEMMA TheBins ==
  ASSUME NEW points \in Seq(Int \X Int)
  PROVE  LET bins == Binned(points)
         IN  /\ bins \in Seq(Seq(Int \X Int))
             /\ Total([m \in 1..Len(bins) |-> Len(bins[m])]) = Len(points)
             /\ Total([m \in 1..Len(bins) |-> Total(Xs(bins[m]))]) = Total(Xs(points))
             /\ \A m \in 1..Len(bins) :
                  /\ Len(bins[m]) > 0
                  /\ \A j \in 1..Len(bins[m]) : \E k \in 1..Len(points) : bins[m][j] = points[k]
             /\ \A k \in 1..Len(points) :
                  \E m \in 1..Len(bins) : \E j \in 1..Len(bins[m]) : bins[m][j] = points[k]
<1> DEFINE n == Len(points)
           P == Seq(Int \X Int)
           e == [i \in 0..Bins |-> Edge(n, i)]
           parts == [i \in 1..Bins |-> SubSeq(points, Edge(n, i - 1) + 1, Edge(n, i))]
           D == {i \in DOMAIN parts : parts[i] # <<>>}
           bins == Only(parts, D)
<1>0. n \in Nat /\ Bins \in Nat \ {0} /\ points \in P
  BY BoundAssumption
<1>1. Cuts(e, Bins, n)
  BY <1>0, EdgesCut
<1>2. Binned(points) = bins
  BY DEF Binned, Where
<1>3. ASSUME NEW i \in 1..Bins
      PROVE  /\ e[i - 1] \in 0..n /\ e[i] \in 0..n /\ e[i - 1] <= e[i]
             /\ parts[i] = SubSeq(points, e[i - 1] + 1, e[i])
  <2>1. i - 1 \in 0..Bins /\ i \in 0..Bins
    BY <1>0
  <2>2. e[i - 1] = Edge(n, i - 1) /\ e[i] = Edge(n, i)
    BY <2>1
  <2> HIDE DEF e
  <2> QED BY <1>1, <2>1, <2>2 DEF Cuts
<1>4. DOMAIN parts = 1..Bins /\ parts = [i \in 1..Bins |-> parts[i]]
  OBVIOUS
<1> HIDE DEF e, parts, bins, n
<1>5. ASSUME NEW i \in 1..Bins
      PROVE  /\ parts[i] \in P /\ Len(parts[i]) = e[i] - e[i - 1] /\ Len(parts[i]) \in Nat
             /\ \A j \in 1..Len(parts[i]) : parts[i][j] = points[e[i - 1] + j] /\ e[i - 1] + j \in 1..n
             /\ Xs(parts[i]) = SubSeq(Xs(points), e[i - 1] + 1, e[i])
  <2>1. PICK a \in 0..n, b \in 0..n : a = e[i - 1] /\ b = e[i] /\ a <= b
    BY <1>3
  <2>2. /\ SubSeq(points, a + 1, b) \in P /\ Len(SubSeq(points, a + 1, b)) = b - a
        /\ \A j \in 1..(b - a) : SubSeq(points, a + 1, b)[j] = points[a + j] /\ a + j \in 1..n
        /\ Xs(SubSeq(points, a + 1, b)) = SubSeq(Xs(points), a + 1, b)
    BY <2>1, SubPoints DEF n
  <2>3. parts[i] = SubSeq(points, a + 1, b)
    BY <2>1, <1>3
  <2>4. b - a \in Nat
    BY <2>1, <1>0
  <2> QED BY <2>1, <2>2, <2>3, <2>4
<1>6. parts \in Seq(P) /\ Len(parts) = Bins /\ D \subseteq 1..Len(parts)
  <2>1. parts \in [1..Bins -> P]
    BY <1>4, <1>5
  <2>2. parts \in Seq(P) /\ Len(parts) = Bins
    BY <2>1, <1>0
  <2> QED BY <2>2, <1>4
<1>7. PICK p : bins \in Seq(P) /\ Picks(p, bins, parts, D)
  BY <1>6, OnlyPicks DEF bins
<1>8. /\ p \in [1..Len(bins) -> D] /\ \A m \in 1..Len(bins) : bins[m] = parts[p[m]]
      /\ \A d \in D : \E m \in 1..Len(bins) : p[m] = d
  BY <1>7 DEF Picks
<1>9. Total([m \in 1..Len(bins) |-> Len(bins[m])]) = n
  <2> DEFINE weight == [b \in P |-> Len(b)]
  <2>1. weight \in [P -> Int] /\ \A b \in P : weight[b] = Len(b) /\ Len(b) >= 0
    OBVIOUS
  <2> HIDE DEF weight
  <2>2. \A i \in 1..Len(parts) : i \notin D => weight[parts[i]] = 0 /\ weight[parts[i]] >= 0
    <3>1. <<>> \in P /\ Len(<<>>) = 0
      OBVIOUS
    <3> QED BY <2>1, <3>1, <1>4, <1>6
  <2>3. Total([m \in 1..Len(bins) |-> weight[bins[m]]]) = Total([i \in 1..Len(parts) |-> weight[parts[i]]])
    <3> DEFINE picked == D
    <3>1. Weightless(parts, P, picked, weight)
      BY <2>1, <2>2, <1>6 DEF Weightless
    <3>2. bins = Only(parts, picked)
      BY DEF bins
    <3> HIDE DEF picked, P
    <3>3. Total(Weighed(Only(parts, picked), weight)) = Total(Weighed(parts, weight))
      BY <3>1, TotalOnlyAll
    <3> QED BY <3>2, <3>3 DEF Weighed
  <2>4. [m \in 1..Len(bins) |-> weight[bins[m]]] = [m \in 1..Len(bins) |-> Len(bins[m])]
    <3>1. \A m \in 1..Len(bins) : bins[m] \in P
      BY <1>7
    <3> QED BY <2>1, <3>1
  <2>5. [i \in 1..Len(parts) |-> weight[parts[i]]] = [i \in 1..Bins |-> Len(SubSeq(points, e[i - 1] + 1, e[i]))]
    <3>1. \A i \in 1..Bins : weight[parts[i]] = Len(SubSeq(points, e[i - 1] + 1, e[i]))
      BY <2>1, <1>3, <1>5
    <3> QED BY <3>1, <1>6
  <2>6. Total([i \in 1..Bins |-> Len(SubSeq(points, e[i - 1] + 1, e[i]))]) = n
    BY <1>0, <1>1, LengthParts DEF n
  <2> QED BY <2>3, <2>4, <2>5, <2>6
<1>10. Total([m \in 1..Len(bins) |-> Total(Xs(bins[m]))]) = Total(Xs(points))
  <2> DEFINE weight == [b \in P |-> Total(Xs(b))]
             xs == Xs(points)
  <2>1. weight \in [P -> Int] /\ \A b \in P : weight[b] = Total(Xs(b))
    <3>1. ASSUME NEW b \in P PROVE Total(Xs(b)) \in Int
      <4>1. Xs(b) \in Seq(Int)
        BY CoordinatesAre
      <4> QED BY <4>1, TotalAppend
    <3> QED BY <3>1
  <2>0. xs \in Seq(Int) /\ Len(xs) = n
    BY CoordinatesAre DEF n
  <2> HIDE DEF weight, xs
  <2>2. \A i \in 1..Len(parts) : i \notin D => weight[parts[i]] = 0 /\ weight[parts[i]] >= 0
    <3>1. <<>> \in P /\ Xs(<<>>) = <<>>
      BY DEF Xs
    <3>2. weight[<<>>] = 0
      BY <2>1, <3>1, TotalEmpty
    <3>3. \A i \in 1..Len(parts) : i \notin D => parts[i] = <<>>
      BY <1>4, <1>6
    <3> QED BY <3>2, <3>3
  <2>3. Total([m \in 1..Len(bins) |-> weight[bins[m]]]) = Total([i \in 1..Len(parts) |-> weight[parts[i]]])
    <3> DEFINE picked == D
    <3>1. Weightless(parts, P, picked, weight)
      BY <2>1, <2>2, <1>6 DEF Weightless
    <3>2. bins = Only(parts, picked)
      BY DEF bins
    <3> HIDE DEF picked, P
    <3>3. Total(Weighed(Only(parts, picked), weight)) = Total(Weighed(parts, weight))
      BY <3>1, TotalOnlyAll
    <3> QED BY <3>2, <3>3 DEF Weighed
  <2>4. [m \in 1..Len(bins) |-> weight[bins[m]]] = [m \in 1..Len(bins) |-> Total(Xs(bins[m]))]
    <3>1. \A m \in 1..Len(bins) : bins[m] \in P
      BY <1>7
    <3> QED BY <2>1, <3>1
  <2>5. [i \in 1..Len(parts) |-> weight[parts[i]]] = [i \in 1..Bins |-> Total(SubSeq(xs, e[i - 1] + 1, e[i]))]
    <3>1. \A i \in 1..Bins : weight[parts[i]] = Total(SubSeq(xs, e[i - 1] + 1, e[i]))
      BY <2>1, <1>3, <1>5 DEF xs
    <3> QED BY <3>1, <1>6
  <2>6. Total([i \in 1..Bins |-> Total(SubSeq(xs, e[i - 1] + 1, e[i]))]) = Total(xs)
    BY <1>0, <1>1, <2>0, TotalParts
  <2> QED BY <2>3, <2>4, <2>5, <2>6 DEF xs
<1>11. ASSUME NEW m \in 1..Len(bins)
       PROVE  /\ Len(bins[m]) > 0
              /\ \A j \in 1..Len(bins[m]) : \E k \in 1..n : bins[m][j] = points[k]
  <2>1. PICK i \in D : bins[m] = parts[i]
    BY <1>8
  <2>2. i \in 1..Bins /\ parts[i] # <<>>
    BY <2>1, <1>4
  <2>3. Len(parts[i]) # 0 /\ Len(parts[i]) \in Nat
    BY <2>2, <1>5
  <2>4. \A j \in 1..Len(parts[i]) : parts[i][j] = points[e[i - 1] + j] /\ e[i - 1] + j \in 1..n
    BY <2>2, <1>5
  <2> QED BY <2>1, <2>3, <2>4
<1>12. ASSUME NEW k \in 1..n
       PROVE  \E m \in 1..Len(bins) : \E j \in 1..Len(bins[m]) : bins[m][j] = points[k]
  <2>1. PICK i \in 1..Bins : e[i - 1] < k /\ k <= e[i]
    BY <1>0, <1>1, InAPart
  <2>2. PICK a \in 0..n, b \in 0..n : a = e[i - 1] /\ b = e[i]
    BY <1>3
  <2>3. PICK j \in 1..(b - a) : a + j = k
    <3>1. a < k /\ k <= b /\ a \in Nat /\ b \in Nat /\ k \in Nat
      BY <1>0, <2>1, <2>2
    <3>2. k - a \in 1..(b - a) /\ a + (k - a) = k
      BY <3>1
    <3> QED BY <3>2
  <2>4. Len(parts[i]) = b - a /\ parts[i][j] = points[k] /\ j \in 1..Len(parts[i])
    BY <1>5, <2>2, <2>3
  <2>5. i \in D
    <3>1. Len(parts[i]) # 0
      BY <2>4
    <3>2. parts[i] # <<>>
      BY <3>1
    <3> QED BY <3>2, <1>4
  <2>6. PICK m \in 1..Len(bins) : p[m] = i
    BY <2>5, <1>8
  <2>7. bins[m] = parts[i]
    BY <2>6, <1>8
  <2> QED BY <2>4, <2>7
<1> QED BY <1>2, <1>7, <1>9, <1>10, <1>11, <1>12 DEF n

\* The envelope counts every point and every coordinate once, and reaches the extremes.
LEMMA TheEnvelope ==
  ASSUME NEW points \in Seq(Int \X Int), points # <<>>
  PROVE  LET drawn == Envelope(points)
         IN  /\ Total([i \in DOMAIN drawn |-> drawn[i].x.n]) = Len(points)
             /\ Total([i \in DOMAIN drawn |-> drawn[i].x.sum]) = Total(Xs(points))
             /\ Max({drawn[i].hi : i \in DOMAIN drawn}) = Max(Range(Ys(points)))
             /\ Min({drawn[i].lo : i \in DOMAIN drawn}) = Min(Range(Ys(points)))
<1> DEFINE bins == Binned(points)
           drawn == Envelope(points)
           n == Len(points)
           ys == Ys(points)
           top == Max(Range(ys))
           low == Min(Range(ys))
<1>1. /\ bins \in Seq(Seq(Int \X Int))
      /\ Total([m \in 1..Len(bins) |-> Len(bins[m])]) = Len(points)
      /\ Total([m \in 1..Len(bins) |-> Total(Xs(bins[m]))]) = Total(Xs(points))
      /\ \A m \in 1..Len(bins) :
           /\ Len(bins[m]) > 0
           /\ \A j \in 1..Len(bins[m]) : \E k \in 1..n : bins[m][j] = points[k]
      /\ \A k \in 1..n : \E m \in 1..Len(bins) : \E j \in 1..Len(bins[m]) : bins[m][j] = points[k]
  BY TheBins
<1>2. drawn = [i \in DOMAIN bins |-> [x  |-> Mean(Xs(bins[i])),
                                      lo |-> Min(Range(Ys(bins[i]))), hi |-> Max(Range(Ys(bins[i])))]]
  BY DEF Envelope
<1> HIDE DEF bins, drawn
<1>3. DOMAIN bins = 1..Len(bins) /\ DOMAIN drawn = 1..Len(bins)
  BY <1>1, <1>2
<1>4. ASSUME NEW m \in 1..Len(bins)
      PROVE  /\ drawn[m].x.n = Len(bins[m]) /\ drawn[m].x.sum = Total(Xs(bins[m]))
             /\ drawn[m].lo = Min(Range(Ys(bins[m]))) /\ drawn[m].hi = Max(Range(Ys(bins[m])))
  <2>1. drawn[m] = [x |-> Mean(Xs(bins[m])), lo |-> Min(Range(Ys(bins[m]))), hi |-> Max(Range(Ys(bins[m])))]
    BY <1>2, <1>3
  <2>2. Mean(Xs(bins[m])) = [sum |-> Total(Xs(bins[m])), n |-> Len(Xs(bins[m]))]
    BY DEF Mean
  <2>3. Len(Xs(bins[m])) = Len(bins[m])
    BY <1>1, CoordinatesAre
  <2> QED BY <2>1, <2>2, <2>3
<1>5. Total([i \in DOMAIN drawn |-> drawn[i].x.n]) = Len(points)
  <2>1. [i \in DOMAIN drawn |-> drawn[i].x.n] = [m \in 1..Len(bins) |-> Len(bins[m])]
    BY <1>3, <1>4
  <2> QED BY <2>1, <1>1
<1>6. Total([i \in DOMAIN drawn |-> drawn[i].x.sum]) = Total(Xs(points))
  <2>1. [i \in DOMAIN drawn |-> drawn[i].x.sum] = [m \in 1..Len(bins) |-> Total(Xs(bins[m]))]
    BY <1>3, <1>4
  <2> QED BY <2>1, <1>1
<1>7. /\ ys \in Seq(Int) /\ Len(ys) = n /\ ys # <<>>
      /\ \A j \in 1..n : ys[j] = Y(points[j]) /\ ys[j] \in Int
  <2>1. /\ ys \in Seq(Int) /\ Len(ys) = n
        /\ \A j \in 1..n : ys[j] = Y(points[j]) /\ ys[j] \in Int
    BY CoordinatesAre
  <2>2. n # 0
    OBVIOUS
  <2> HIDE DEF ys, n
  <2>3. ys # <<>>
    BY <2>1, <2>2
  <2> QED BY <2>1, <2>3
<1> HIDE DEF ys, n
\* The band of a bin lies between the extremes of the trace, and holds its points.
<1>8. /\ top \in Int /\ low \in Int
      /\ \A j \in 1..n : low <= ys[j] /\ ys[j] <= top
      /\ \E j \in 1..n : ys[j] = top
      /\ \E j \in 1..n : ys[j] = low
  <2>1. /\ Range(ys) \subseteq Int /\ top \in Range(ys) /\ low \in Range(ys)
        /\ \A j \in 1..Len(ys) : low <= ys[j] /\ ys[j] <= top
    BY <1>7, Extent, Zenon
  <2> HIDE DEF top, low
  <2>2. DOMAIN ys = 1..n
    BY <1>7
  <2>3. \A v \in Range(ys) : \E j \in 1..n : ys[j] = v
    BY <2>2 DEF Range
  <2> QED BY <1>7, <2>1, <2>3
<1> HIDE DEF top, low
<1>9. ASSUME NEW m \in 1..Len(bins)
      PROVE  /\ drawn[m].hi \in Int /\ drawn[m].lo \in Int
             /\ low <= drawn[m].lo /\ drawn[m].hi <= top
             /\ \A j \in 1..Len(bins[m]) : drawn[m].lo <= Y(bins[m][j]) /\ Y(bins[m][j]) <= drawn[m].hi
  <2> DEFINE b == bins[m]
             t == Ys(b)
  <2>0. b \in Seq(Int \X Int)
    BY <1>1
  <2>10. Len(b) > 0
    BY <1>1
  <2>11. \A j \in 1..Len(b) : \E k \in 1..n : b[j] = points[k]
    BY <1>1
  <2>1. b \in Seq(Int \X Int) /\ Len(b) > 0 /\ \A j \in 1..Len(b) : \E k \in 1..n : b[j] = points[k]
    BY <2>0, <2>10, <2>11
  <2> HIDE DEF b
  <2>2. /\ t \in Seq(Int) /\ Len(t) = Len(b)
        /\ \A j \in 1..Len(b) : t[j] = Y(b[j]) /\ t[j] \in Int
    BY <2>1, CoordinatesAre
  <2> HIDE DEF t
  <2>3. t # <<>>
    BY <2>1, <2>2
  <2>4. /\ Range(t) \subseteq Int /\ Max(Range(t)) \in Range(t) /\ Min(Range(t)) \in Range(t)
        /\ \A j \in 1..Len(t) : Min(Range(t)) <= t[j] /\ t[j] <= Max(Range(t))
    BY <2>2, <2>3, Extent
  <2>5. drawn[m].hi = Max(Range(t)) /\ drawn[m].lo = Min(Range(t))
    BY <1>4 DEF t, b
  <2>6. \A v \in Range(t) : \E k \in 1..n : v = ys[k]
    <3>1. DOMAIN t = 1..Len(b)
      BY <2>2
    <3>2. \A v \in Range(t) : \E j \in 1..Len(b) : v = Y(b[j])
      BY <2>2, <3>1 DEF Range
    <3> QED BY <3>2, <2>1, <1>7
  <2>7. \A v \in Range(t) : v \in Int /\ low <= v /\ v <= top
    BY <2>6, <1>7, <1>8
  <2>8. drawn[m].hi \in Int /\ drawn[m].lo \in Int /\ low <= drawn[m].lo /\ drawn[m].hi <= top
    BY <2>4, <2>5, <2>7
  <2>9. \A j \in 1..Len(b) : drawn[m].lo <= Y(b[j]) /\ Y(b[j]) <= drawn[m].hi
    BY <2>2, <2>4, <2>5
  <2> QED BY <2>8, <2>9 DEF b
<1>10. Max({drawn[i].hi : i \in DOMAIN drawn}) = top
  <2> DEFINE H == {drawn[i].hi : i \in 1..Len(bins)}
  <2>1. H \subseteq Int /\ \A v \in H : v <= top
    BY <1>9
  <2>2. PICK k \in 1..n : ys[k] = top
    BY <1>8
  <2>3. PICK m \in 1..Len(bins) : \E j \in 1..Len(bins[m]) : bins[m][j] = points[k]
    BY <1>1
  <2>9. PICK j \in 1..Len(bins[m]) : bins[m][j] = points[k]
    BY <2>3
  <2>4. Y(bins[m][j]) = top
    BY <2>2, <2>9, <1>7
  <2>5. top <= drawn[m].hi /\ drawn[m].hi <= top /\ drawn[m].hi \in Int
    BY <2>4, <1>9
  <2>6. drawn[m].hi = top
    BY <2>5, <1>8
  <2>7. top \in H
    BY <2>6
  <2> HIDE DEF H
  <2>8. Max(H) = top
    BY <2>1, <2>7, MaxIs
  <2> QED BY <2>8, <1>3 DEF H
<1>11. Min({drawn[i].lo : i \in DOMAIN drawn}) = low
  <2> DEFINE H == {drawn[i].lo : i \in 1..Len(bins)}
  <2>1. H \subseteq Int /\ \A v \in H : low <= v
    BY <1>9
  <2>2. PICK k \in 1..n : ys[k] = low
    BY <1>8
  <2>3. PICK m \in 1..Len(bins) : \E j \in 1..Len(bins[m]) : bins[m][j] = points[k]
    BY <1>1
  <2>9. PICK j \in 1..Len(bins[m]) : bins[m][j] = points[k]
    BY <2>3
  <2>4. Y(bins[m][j]) = low
    BY <2>2, <2>9, <1>7
  <2>5. drawn[m].lo <= low /\ low <= drawn[m].lo /\ drawn[m].lo \in Int
    BY <2>4, <1>9
  <2>6. drawn[m].lo = low
    BY <2>5, <1>8
  <2>7. low \in H
    BY <2>6
  <2> HIDE DEF H
  <2>8. Min(H) = low
    BY <2>1, <2>7, MinIs
  <2> QED BY <2>8, <1>3 DEF H
<1> QED BY <1>5, <1>6, <1>10, <1>11 DEF drawn, top, low, ys, n
----------------------------------------------------------------------------
\* The first invocations are drawn whole, if those of a round begin within half a second.
LEMMA ZoomedWhole ==
  ASSUME TypeOK, Rowed, Spread <= HalfSecond, HasPower(Dir, "package"),
         NEW i \in 1..Min({ZoomN, Len(Windows)})
  PROVE  Range(Inside(Points, Windows[i][1], Windows[i][2]))
           \subseteq Range(DrawZoom(Points, Windows, ZoomXlim(Xs(Points), Windows, ZoomN)).line)
<1>1. out.rows # <<>> /\ Points \in Seq(Int \X Int)
  BY TheColumn, ThePoints
<1>2. PICK o \in Int : o = out.rows[1].ts - out.rows[1].el
  <2>1. 1 \in 1..Len(out.rows) /\ out.rows[1].ts \in Int /\ out.rows[1].el \in Int
    BY <1>1, Rowing
  <2> QED BY <2>1
<1>3. Windows = [k \in 1..Len(inv) |-> <<inv[k].startIso - o, inv[k].endIso - o>>]
  BY <1>1, <1>2, TheWindows
<1>4. /\ Len(inv) \in Nat /\ Spread \in Nat /\ Epoch \in Nat /\ loopT0 \in Int
      /\ \A k \in 1..Len(inv) : inv[k].startIso \in Int /\ inv[k].endIso \in Int
  <2>1. inv \in Seq(Calls) /\ loopT0 \in Int
    BY DEF TypeOK
  <2>2. \A k \in 1..Len(inv) : inv[k] \in Calls
    BY <2>1
  <2>3. \A k \in 1..Len(inv) : inv[k].startIso \in Int /\ inv[k].endIso \in Int
    BY <2>2 DEF Calls
  <2>4. Spread \in Nat /\ Epoch \in Nat
    BY RecordingAssumption
  <2> QED BY <2>1, <2>3, <2>4
<1> DEFINE windows == Windows
<1> HIDE DEF windows
<1>5. /\ windows \in Seq(Int \X Int) /\ Len(windows) = Len(inv)
      /\ \A k \in 1..Len(inv) : windows[k][1] = inv[k].startIso - o /\ windows[k][2] = inv[k].endIso - o
  <2> DEFINE w(k) == <<inv[k].startIso - o, inv[k].endIso - o>>
  <2>1. windows = [k \in 1..Len(inv) |-> w(k)]
    BY <1>3 DEF windows
  <2>2. \A k \in 1..Len(inv) : w(k) \in Int \X Int /\ w(k)[1] = inv[k].startIso - o /\ w(k)[2] = inv[k].endIso - o
    BY <1>4
  <2> HIDE DEF w
  <2>3. windows \in [1..Len(inv) -> Int \X Int]
    BY <2>1, <2>2
  <2>4. windows \in Seq(Int \X Int) /\ Len(windows) = Len(inv)
    BY <2>3, <1>4
  <2> QED BY <2>1, <2>2, <2>4
<1>6. i \in 1..Len(windows) /\ i <= ZoomN
  <2>1. PICK n \in Nat, z \in Nat : n = Len(windows) /\ z = ZoomN
    BY <1>4, <1>5, ZoomAssumption
  <2>2. n \in Int /\ z \in Int /\ i \in 1..Min({z, n})
    BY <2>1 DEF windows
  <2>3. Min({z, n}) = IF z <= n THEN z ELSE n
    BY <2>2, OfTwo, Zenon
  <2>4. i \in 1..n /\ i <= z
    BY <2>1, <2>2, <2>3
  <2> QED BY <2>1, <2>4
<1>7. windows[1][1] <= windows[i][1] + HalfSecond
  <2>1. 1 \in 1..Len(inv) /\ i \in 1..Len(inv) /\ inv # <<>>
    BY <1>4, <1>5, <1>6
  <2>2. PICK a \in Int, b \in Int : a = inv[1].startIso /\ b = inv[i].startIso
    BY <1>4, <2>1
  <2>3. a <= Epoch + loopT0 + Spread /\ Epoch + loopT0 <= b
    BY <2>1, <2>2 DEF Rowed
  <2>4. a - o <= (b - o) + HalfSecond
    <3>1. HalfSecond \in Int
      BY BoundAssumption
    <3> QED BY <1>4, <2>3, <3>1
  <2> QED BY <1>5, <2>1, <2>2, <2>4
<1>8. \A k \in i..Len(windows) : windows[i][2] <= windows[k][2]
  <2> SUFFICES ASSUME NEW k \in i..Len(windows) PROVE windows[i][2] <= windows[k][2]
    OBVIOUS
  <2>1. i \in 1..Len(inv) /\ k \in 1..Len(inv) /\ i <= k
    BY <1>4, <1>5, <1>6
  <2>2. PICK a \in Int, b \in Int : a = inv[i].endIso /\ b = inv[k].endIso
    BY <1>4, <2>1
  <2>3. a <= b
    BY <2>1, <2>2 DEF Rowed
  <2>4. a - o <= b - o
    BY <2>3
  <2> QED BY <1>5, <2>1, <2>2, <2>4
<1>9. Range(Inside(Points, windows[i][1], windows[i][2]))
        \subseteq Range(DrawZoom(Points, windows, ZoomXlim(Xs(Points), windows, ZoomN)).line)
  BY <1>1, <1>5, <1>6, <1>7, <1>8, ZoomCovers
<1> QED BY <1>9 DEF windows

LEMMA DrawnFaithfully == TypeOK /\ Rowed /\ Spread <= HalfSecond => TracesFaithful
<1> SUFFICES ASSUME TypeOK, Rowed, Spread <= HalfSecond, HasPower(Dir, "package") PROVE TracesFaithful
  BY DEF TracesFaithful
<1> DEFINE points == Points
           windows == Windows
           zoomed == DrawZoom(points, windows, ZoomXlim(Xs(points), windows, ZoomN)).line
           drawn == DrawAll(points, windows, Envelope(points)).line
<1>1. ASSUME NEW i \in 1..Min({ZoomN, Len(windows)})
      PROVE  Range(Inside(points, windows[i][1], windows[i][2])) \subseteq Range(zoomed)
  BY ZoomedWhole
<1>2. ASSUME Len(points) > Dense
      PROVE  /\ Total([i \in DOMAIN drawn |-> drawn[i].x.n]) = Len(points)
             /\ Total([i \in DOMAIN drawn |-> drawn[i].x.sum]) = Total(Xs(points))
             /\ Max({drawn[i].hi : i \in DOMAIN drawn}) = Max(Range(Ys(points)))
             /\ Min({drawn[i].lo : i \in DOMAIN drawn}) = Min(Range(Ys(points)))
  <2>1. drawn = Envelope(points)
    BY <1>2 DEF DrawAll
  <2>2. points \in Seq(Int \X Int) /\ Dense \in Nat
    BY ThePoints, BoundAssumption
  <2>3. points # <<>>
    BY <1>2, <2>2
  <2> HIDE DEF points, drawn
  <2> QED BY <2>1, <2>2, <2>3, TheEnvelope
<1> HIDE DEF zoomed, drawn
<1> QED BY <1>1, <1>2 DEF TracesFaithful, zoomed, drawn

\* What is drawn is what was measured, at any rate and for any number of bins: a thinned
\* trace (_binned, _decimate_envelope) counts every sample once and its band reaches the
\* extremes, and the zoomed views (_zoom_xlim) cut off no sample of the first zoom_n
\* invocations, as long as those of one round begin within a half second: the least the
\* view adds on either side.
THEOREM Faithful ==
  ASSUME Spread <= HalfSecond
  PROVE  Spec => []TracesFaithful
<1>1. TypeOK /\ Rounds /\ Rowed => TracesFaithful
  BY DrawnFaithfully
<1> QED BY <1>1, InRounds, PTL
=============================================================================
