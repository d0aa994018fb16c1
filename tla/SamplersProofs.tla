--------------------------- MODULE SamplersProofs ---------------------------
(***************************************************************************)
(* Proofs about the collectors that are programs of their own.             *)
(* EnergyMeter: type correctness and what every entry of a row says, for   *)
(* all domains and names, wherever the counters wrap and the code takes    *)
(* them to, for all histories.  VmSamplers: what the two collectors of a   *)
(* VM write of a VM that goes away, for any number of reads and rows.      *)
(***************************************************************************)
EXTENDS Samplers, Sequences, Induction

\* The domain whose reading is remembered for a name.
Source(n) == Latest(Watched(n))

\* What the variables are, rows aside.
Shape ==
  /\ kind \in {"rapl", "arm"}
  /\ doms \in [Names -> Domains] /\ \A n \in Names : NameOf[doms[n]] = n
  /\ counter \in [Domains -> 0..(EnergyRange - 1)] /\ spent \in [Domains -> 0..MaxStep]
  /\ present \subseteq Domains /\ wrapped \subseteq Domains
  /\ prev \in [Names -> 0..(EnergyRange - 1) \cup {NoValue}]

\* A counter is what was remembered of it and what has been used since, less its range
\* if it has started again.
Ahead ==
  \A n \in Names : prev[n] # NoValue =>
    counter[Source(n)] =
      prev[n] + spent[Source(n)] - (IF Source(n) \in wrapped THEN EnergyRange ELSE 0)

Rows ==
  /\ row \in [Names -> Int \cup {NoValue}]
  /\ owed \in [Names -> 0..MaxStep] /\ across \in [Names -> BOOLEAN]
  /\ RowsAreTrue

IInv == Shape /\ Ahead /\ Rows

----------------------------------------------------------------------------
\* Of a finite set of naturals one is the greatest.
LEMMA GreatestOfFinite ==
  ASSUME NEW D, D \subseteq Nat, IsFiniteSet(D), D # {}
  PROVE  \E x \in D : \A y \in D : y <= x
<1> DEFINE Tops(U) == \E x \in U : \A y \in U : y <= x
           T == {n \in Nat : \A U \in SUBSET D : U # {} /\ Cardinality(U) = n => Tops(U)}
<1>1. \A U \in SUBSET D : IsFiniteSet(U)
  BY FS_Subset
<1>2. 0 \in T
  <2>1. \A U \in SUBSET D : Cardinality(U) = 0 => U = {}
    BY <1>1, FS_EmptySet
  <2> QED BY <2>1
<1>3. ASSUME NEW n \in Nat, n \in T PROVE n + 1 \in T
  <2> SUFFICES ASSUME NEW U \in SUBSET D, U # {}, Cardinality(U) = n + 1 PROVE Tops(U)
    OBVIOUS
  <2>1. PICK z : z \in U
    OBVIOUS
  <2>2. Cardinality(U \ {z}) = n
    <3>1. IsFiniteSet(U) /\ Cardinality(U) = n + 1
      BY <1>1
    <3>2. Cardinality(U \ {z}) = Cardinality(U) - 1
      BY <2>1, <3>1, FS_RemoveElement
    <3> QED BY <3>1, <3>2
  <2>3. CASE U \ {z} = {}
    <3>1. \A y \in U : y = z /\ y \in Nat
      BY <2>1, <2>3
    <3> QED BY <2>1, <3>1
  <2>4. CASE U \ {z} # {}
    <3>1. Tops(U \ {z})
      BY <1>3, <2>2, <2>4
    <3>2. PICK w \in U \ {z} : \A y \in U \ {z} : y <= w
      BY <3>1
    <3>3. z \in Nat /\ w \in Nat
      BY <2>1, <3>2
    <3>4. CASE z <= w
      BY <3>2, <3>4
    <3>5. CASE ~(z <= w)
      <4>1. \A y \in U : y <= z
        BY <3>2, <3>3, <3>5
      <4> QED BY <2>1, <4>1
    <3> QED BY <3>4, <3>5
  <2> QED BY <2>3, <2>4
<1>4. Cardinality(D) \in T
  <2>1. Cardinality(D) \in Nat
    BY FS_CardinalityType
  <2> HIDE DEF T
  <2> QED BY <1>2, <1>3, <2>1, ByInduction
<1> QED BY <1>4

\* The latest of some domains is one of them.
LEMMA LatestIsOne ==
  ASSUME NEW D \in SUBSET Domains, D # {} PROVE Latest(D) \in D
<1>1. D \subseteq Nat /\ IsFiniteSet(D)
  BY DomainsAssumption, FS_Subset
<1>2. \E d \in D : \A e \in D : e <= d
  BY <1>1, GreatestOfFinite
<1> QED BY <1>2 DEF Latest

\* Both collectors watch a file for each name.
LEMMA SomeWatched ==
  ASSUME Shape, NEW n \in Names
  PROVE  /\ Watched(n) \in SUBSET Domains /\ Watched(n) # {}
         /\ Source(n) \in Watched(n) /\ Source(n) \in Domains
         /\ \A d \in Watched(n) : NameOf[d] = n
<1>1. doms[n] \in Domains /\ NameOf[doms[n]] = n
  BY DEF Shape
<1>2. Watched(n) \in SUBSET Domains /\ Watched(n) # {} /\ \A d \in Watched(n) : NameOf[d] = n
  BY <1>1 DEF Watched
<1> QED
  BY <1>2, LatestIsOne DEF Source

\* A reading is a value of the counter, or nothing.
LEMMA ReadingType ==
  ASSUME Shape, NEW d \in Domains
  PROVE  /\ Reading(d) \in 0..(EnergyRange - 1) \cup {NoValue}
         /\ Reading(d) # NoValue => Reading(d) = counter[d]
BY DEF Reading, Shape

\* So is what a difference is taken from.
LEMMA BaseType ==
  ASSUME Shape, NEW n \in Names, NEW d \in Watched(n)
  PROVE  Base(d) \in 0..(EnergyRange - 1) \cup {NoValue}
<1>1. NameOf[d] = n
  BY SomeWatched
<1>2. prev[n] \in 0..(EnergyRange - 1) \cup {NoValue}
  BY DEF Shape
<1>3. ASSUME {e \in Watched(n) : e < d} # {}
      PROVE  Reading(Latest({e \in Watched(n) : e < d})) \in 0..(EnergyRange - 1) \cup {NoValue}
  <2>1. {e \in Watched(n) : e < d} \in SUBSET Domains
    BY SomeWatched
  <2>2. Latest({e \in Watched(n) : e < d}) \in Domains
    BY <1>3, <2>1, LatestIsOne
  <2> QED BY <2>2, ReadingType
<1> QED BY <1>1, <1>2, <1>3 DEF Base

\* Where one counter stands behind a column, the difference is taken from the reading
\* remembered of that counter.
LEMMA SingleSource ==
  ASSUME Shape, NEW n \in Names, Single(n)
  PROVE  Watched(n) = {Source(n)} /\ Base(Source(n)) = prev[n]
<1>1. \E d : Watched(n) = {d}
  <2>1. CASE kind = "rapl"
    BY <2>1 DEF Watched
  <2>2. CASE Cardinality(Watched(n)) = 1
    <3>1. IsFiniteSet(Watched(n))
      BY SomeWatched, DomainsAssumption, FS_Subset
    <3> QED BY <2>2, <3>1, FS_Singleton
  <2> QED BY <2>1, <2>2 DEF Single
<1>2. Watched(n) = {Source(n)} /\ NameOf[Source(n)] = n /\ Source(n) \in Domains
  BY <1>1, SomeWatched
<1>3. ~(Source(n) < Source(n))
  <2>1. Source(n) \in Nat
    BY <1>2, DomainsAssumption
  <2>2. \A i \in Nat : ~(i < i)
    OBVIOUS
  <2> QED BY <2>1, <2>2
<1>4. {e \in Watched(NameOf[Source(n)]) : e < Source(n)} = {}
  BY <1>2, <1>3
<1> QED BY <1>2, <1>4 DEF Base

\* The difference of two readings is the energy used between them, but for a wrap.
LEMMA DeltaIsSpent ==
  ASSUME NEW new \in 0..(EnergyRange - 1), NEW old \in 0..(EnergyRange - 1),
         NEW s \in 0..MaxStep
  PROVE  /\ new = old + s => Delta(new, old) = s
         /\ new = old + s - EnergyRange => Delta(new, old) = s + (Wrap - EnergyRange)
BY RangeAssumption DEF Delta

----------------------------------------------------------------------------
LEMMA InitIInv == ASSUME MeterInit PROVE IInv
<1> USE RangeAssumption, NoValueAssumption
<1>1. /\ kind \in {"rapl", "arm"} /\ doms \in [Names -> Domains]
      /\ \A n \in Names : NameOf[doms[n]] = n
      /\ counter \in [Domains -> 0..(EnergyRange - 1)] /\ spent = [d \in Domains |-> 0]
      /\ present = Domains /\ wrapped = {}
      /\ prev = [n \in Names |-> Reading(Source(n))]
  BY DEF MeterInit, Source
<1>2. ASSUME NEW n \in Names PROVE Source(n) \in Domains /\ prev[n] = counter[Source(n)]
  <2>1. doms[n] \in Domains /\ NameOf[doms[n]] = n
    BY <1>1
  <2>2. Watched(n) \in SUBSET Domains /\ Watched(n) # {}
    BY <2>1 DEF Watched
  <2>3. Source(n) \in Domains
    BY <2>2, LatestIsOne DEF Source
  <2> QED BY <1>1, <2>3 DEF Reading
<1>3. Shape
  <2>1. \A n \in Names : prev[n] \in 0..(EnergyRange - 1) \cup {NoValue}
    BY <1>1, <1>2
  <2>2. prev \in [Names -> 0..(EnergyRange - 1) \cup {NoValue}]
    BY <1>1, <2>1
  <2>3. spent \in [Domains -> 0..MaxStep]
    BY <1>1
  <2> QED
    BY <1>1, <2>2, <2>3 DEF Shape
<1>4. Ahead
  <2> SUFFICES ASSUME NEW n \in Names
               PROVE  counter[Source(n)] = prev[n] + spent[Source(n)] - 0
    BY <1>1 DEF Ahead
  <2>1. spent[Source(n)] = 0 /\ counter[Source(n)] \in Int /\ prev[n] = counter[Source(n)]
    BY <1>1, <1>2
  <2> QED BY <2>1
<1>5. Rows
  BY DEF MeterInit, Rows, RowsAreTrue
<1> QED
  BY <1>3, <1>4, <1>5 DEF IInv

\* A unit is used, and the counter may start again.
LEMMA ConsumeStep ==
  ASSUME IInv, NEW d \in Domains, Consume(d) PROVE IInv'
<1> USE RangeAssumption
<1>0. Shape /\ Ahead /\ Rows
  BY DEF IInv
<1>1. /\ counter[d] \in 0..(EnergyRange - 1) /\ spent[d] \in 0..MaxStep /\ spent[d] < MaxStep
      /\ counter' = [counter EXCEPT ![d] = IF counter[d] = EnergyRange - 1 THEN 0 ELSE counter[d] + 1]
      /\ spent' = [spent EXCEPT ![d] = spent[d] + 1]
      /\ wrapped' = IF counter[d] = EnergyRange - 1 THEN wrapped \cup {d} ELSE wrapped
      /\ UNCHANGED <<kind, doms, present, prev, row, owed, across>>
  BY <1>0 DEF Shape, Consume
<1>2. counter' \in [Domains -> 0..(EnergyRange - 1)] /\ spent' \in [Domains -> 0..MaxStep]
      /\ wrapped' \subseteq Domains
  BY <1>0, <1>1 DEF Shape
<1>3. Shape'
  BY <1>0, <1>1, <1>2 DEF Shape
<1>4. \A n \in Names : Watched(n)' = Watched(n) /\ Source(n)' = Source(n)
  BY <1>1 DEF Watched, Source
<1>5. Ahead'
  <2> SUFFICES ASSUME NEW n \in Names, prev[n] # NoValue
               PROVE  counter'[Source(n)] = prev[n] + spent'[Source(n)]
                        - (IF Source(n) \in wrapped' THEN EnergyRange ELSE 0)
    BY <1>1, <1>4 DEF Ahead
  <2> DEFINE e == Source(n)
  <2>1. e \in Domains
    BY <1>0, SomeWatched
  <2>2. /\ prev[n] \in 0..(EnergyRange - 1) /\ counter[e] \in 0..(EnergyRange - 1)
        /\ spent[e] \in 0..MaxStep
        /\ counter[e] = prev[n] + spent[e] - (IF e \in wrapped THEN EnergyRange ELSE 0)
    BY <1>0, <2>1 DEF Shape, Ahead
  <2> HIDE DEF e
  <2>3. CASE e = d
    <3>1. /\ counter'[e] = IF counter[e] = EnergyRange - 1 THEN 0 ELSE counter[e] + 1
          /\ spent'[e] = spent[e] + 1
      BY <1>0, <1>1, <2>3 DEF Shape
    <3>2. CASE counter[e] = EnergyRange - 1
      <4>1. e \notin wrapped
        BY <1>1, <2>2, <2>3, <3>2
      <4>2. e \in wrapped'
        BY <1>1, <2>3, <3>2
      <4>3. counter'[e] = prev[n] + spent'[e] - EnergyRange
        BY <2>2, <3>1, <3>2, <4>1
      <4> QED BY <4>2, <4>3 DEF e
    <3>3. CASE counter[e] # EnergyRange - 1
      <4>1. wrapped' = wrapped
        BY <1>1, <2>3, <3>3
      <4>2. counter'[e] = prev[n] + spent'[e] - (IF e \in wrapped THEN EnergyRange ELSE 0)
        BY <2>2, <3>1, <3>3
      <4> QED BY <4>1, <4>2 DEF e
    <3> QED BY <3>2, <3>3
  <2>4. CASE e # d
    <3>1. counter'[e] = counter[e] /\ spent'[e] = spent[e] /\ (e \in wrapped' <=> e \in wrapped)
      BY <1>0, <1>1, <2>1, <2>4 DEF Shape
    <3> QED BY <2>2, <3>1 DEF e
  <2> QED BY <2>3, <2>4
<1>6. Rows'
  <2>1. \A n \in Names : Single(n)' <=> Single(n)
    BY <1>1, <1>4 DEF Single
  <2> QED BY <1>0, <1>1, <2>1 DEF Rows, RowsAreTrue
<1> QED
  BY <1>3, <1>5, <1>6 DEF IInv

\* A sample remembers what it has read, and its row is the energy since the last.
LEMMA SampleStep == ASSUME IInv, Sample PROVE IInv'
<1> USE RangeAssumption, NoValueAssumption
<1>0. Shape /\ Ahead
  BY DEF IInv
<1>1. /\ row'  = [n \in Names |->
                   IF Rated(n) = {} THEN NoValue
                   ELSE LET d == Latest(Rated(n)) IN Delta(Reading(d), Base(d))]
      /\ owed' = [n \in Names |-> IF Rated(n) = {} THEN 0 ELSE spent[Latest(Rated(n))]]
      /\ across' = [n \in Names |-> Rated(n) # {} /\ Latest(Rated(n)) \in wrapped]
      /\ prev' = [n \in Names |-> Reading(Source(n))]
      /\ spent' = [d \in Domains |-> 0]
      /\ wrapped' = {}
      /\ UNCHANGED <<kind, doms, counter, present>>
  BY DEF Sample, Remember, Source
<1>2. \A n \in Names : Watched(n)' = Watched(n) /\ Source(n)' = Source(n)
  BY <1>1 DEF Watched, Source
<1>3. Shape'
  <2>1. \A n \in Names : Reading(Source(n)) \in 0..(EnergyRange - 1) \cup {NoValue}
    BY <1>0, SomeWatched, ReadingType
  <2>2. prev' \in [Names -> 0..(EnergyRange - 1) \cup {NoValue}]
    BY <1>1, <2>1
  <2> QED
    BY <1>0, <1>1, <2>2 DEF Shape
<1>4. Ahead'
  <2> SUFFICES ASSUME NEW n \in Names, prev'[n] # NoValue
               PROVE  counter[Source(n)] = prev'[n] + spent'[Source(n)] - 0
    BY <1>1, <1>2 DEF Ahead
  <2>1. Source(n) \in Domains /\ prev'[n] = Reading(Source(n))
    BY <1>0, <1>1, SomeWatched
  <2>2. prev'[n] = counter[Source(n)] /\ spent'[Source(n)] = 0 /\ counter[Source(n)] \in Int
    BY <1>0, <1>1, <2>1, ReadingType DEF Shape
  <2> QED BY <2>2
<1>5. ASSUME NEW n \in Names
      PROVE  /\ owed'[n] \in 0..MaxStep
             /\ row'[n] \in Int \cup {NoValue}
             /\ across'[n] \in BOOLEAN
             /\ row'[n] # NoValue /\ Single(n) =>
                  row'[n] = owed'[n] + (IF across'[n] THEN Wrap - EnergyRange ELSE 0)
  <2> DEFINE d == Latest(Rated(n))
  <2>1. CASE Rated(n) = {}
    BY <1>1, <2>1
  <2>2. CASE Rated(n) # {}
    <3>1. /\ row'[n] = Delta(Reading(d), Base(d)) /\ owed'[n] = spent[d]
          /\ across'[n] = (d \in wrapped)
      BY <1>1, <2>2
    <3>2. d \in Rated(n) /\ d \in Watched(n) /\ d \in Domains
      <4>1. Rated(n) \in SUBSET Domains /\ Rated(n) \subseteq Watched(n)
        BY <1>0, SomeWatched DEF Rated
      <4> QED BY <2>2, <4>1, LatestIsOne
    <3> HIDE DEF d
    <3>3. /\ Reading(d) \in 0..(EnergyRange - 1) /\ Base(d) \in 0..(EnergyRange - 1)
          /\ Reading(d) = counter[d] /\ spent[d] \in 0..MaxStep
      <4>1. Reading(d) # NoValue /\ Base(d) # NoValue
        BY <3>2 DEF Rated
      <4>2. Reading(d) \in 0..(EnergyRange - 1) /\ Reading(d) = counter[d]
        BY <1>0, <3>2, <4>1, ReadingType
      <4>3. Base(d) \in 0..(EnergyRange - 1)
        BY <1>0, <3>2, <4>1, BaseType
      <4> QED BY <1>0, <3>2, <4>2, <4>3 DEF Shape
    <3>4. Delta(Reading(d), Base(d)) \in Int
      BY <3>3 DEF Delta
    <3>5. ASSUME Single(n)
          PROVE  Delta(Reading(d), Base(d)) =
                   spent[d] + (IF d \in wrapped THEN Wrap - EnergyRange ELSE 0)
      <4>1. d = Source(n) /\ Base(d) = prev[n]
        BY <1>0, <3>2, <3>5, SingleSource
      <4>2. counter[d] = prev[n] + spent[d] - (IF d \in wrapped THEN EnergyRange ELSE 0)
        BY <1>0, <3>3, <4>1 DEF Ahead
      <4>3. prev[n] \in Int /\ spent[d] \in Int
        BY <3>3, <4>1
      <4>4. CASE d \in wrapped
        <5>1. Reading(d) = Base(d) + spent[d] - EnergyRange
          BY <3>3, <4>1, <4>2, <4>4
        <5>2. Delta(Reading(d), Base(d)) = spent[d] + (Wrap - EnergyRange)
          BY <3>3, <5>1, DeltaIsSpent
        <5> QED BY <4>4, <5>2
      <4>5. CASE d \notin wrapped
        <5>1. Reading(d) = Base(d) + spent[d]
          BY <3>3, <4>1, <4>2, <4>3, <4>5
        <5>2. Delta(Reading(d), Base(d)) = spent[d]
          BY <3>3, <5>1, DeltaIsSpent
        <5> QED BY <3>3, <4>5, <5>2
      <4> QED BY <4>4, <4>5
    <3>6. owed'[n] \in 0..MaxStep /\ row'[n] \in Int /\ across'[n] \in BOOLEAN
      BY <3>1, <3>3, <3>4
    <3>7. Single(n) => row'[n] = owed'[n] + (IF across'[n] THEN Wrap - EnergyRange ELSE 0)
      BY <3>1, <3>5
    <3> QED BY <3>6, <3>7
  <2> QED BY <2>1, <2>2
<1>6. Rows'
  <2>1. \A n \in Names : Single(n)' <=> Single(n)
    BY <1>1, <1>2 DEF Single
  <2>2. /\ owed' \in [Names -> 0..MaxStep] /\ row' \in [Names -> Int \cup {NoValue}]
        /\ across' \in [Names -> BOOLEAN]
    BY <1>1, <1>5
  <2>3. RowsAreTrue'
    BY <1>5, <2>1 DEF RowsAreTrue
  <2> QED
    BY <2>2, <2>3 DEF Rows
<1> QED
  BY <1>3, <1>4, <1>6 DEF IInv

LEMMA Inductive == ASSUME IInv, [MeterNext]_meterVars PROVE IInv'
<1>1. CASE Sample
  BY <1>1, SampleStep
<1>2. ASSUME NEW d \in Domains, Consume(d) PROVE IInv'
  BY <1>2, ConsumeStep
<1>3. CASE (\E d \in Domains : Appear(d) \/ Disappear(d)) \/ UNCHANGED meterVars
  <2>1. UNCHANGED <<kind, doms, counter, spent, prev, row, history>> /\ present' \subseteq Domains
    BY <1>3 DEF Appear, Disappear, meterVars, history, IInv, Shape
  <2>2. \A n \in Names : Watched(n)' = Watched(n)
    BY <2>1 DEF Watched
  <2>3. \A n \in Names : (Single(n)' <=> Single(n)) /\ Source(n)' = Source(n)
    BY <2>1, <2>2 DEF Single, Source
  <2> QED
    BY <2>1, <2>3 DEF IInv, Shape, Ahead, Rows, RowsAreTrue, history
<1> QED
  BY <1>1, <1>2, <1>3 DEF MeterNext

LEMMA EnergyInvariance == MeterSpec => []IInv
<1>1. MeterInit => IInv
  BY InitIInv
<1>2. IInv /\ [MeterNext]_meterVars => IInv'
  BY Inductive
<1> QED
  BY <1>1, <1>2, PTL DEF MeterSpec

\* Every entry of fc_rapl.py, and of fc_arm_power.py where a label has one sensor, is the
\* energy used in the interval of its row, also after samples that could not be read;
\* only the entry of an interval in which the counter starts again differs, by what
\* the counter's range differs from 2^32.
THEOREM RowsTrue == MeterSpec => []RowsAreTrue
<1>1. IInv => RowsAreTrue
  BY DEF IInv, Rows
<1> QED
  BY <1>1, EnergyInvariance, PTL

\* Every variable has its type.
THEOREM TypeCorrect == MeterSpec => []MeterTypeOK
<1>1. IInv => MeterTypeOK
  BY DEF IInv, Shape, Rows, MeterTypeOK
<1> QED
  BY <1>1, EnergyInvariance, PTL

----------------------------------------------------------------------------
(***************************************************************************)
(* The two collectors of a VM.                                             *)
(***************************************************************************)
Reads == Nat \cup {NoValue}

\* What fc_pressure.py goes through, and what a row of it is.
PressureType ==
  /\ leaf \in BOOLEAN /\ cgSeen \in BOOLEAN /\ used \in [{"cpu", "net", "stall"} -> Nat]
  /\ DOMAIN step = S!Collectors /\ step = [c \in S!Collectors |-> step[c]]
  /\ DOMAIN csv = S!Collectors /\ csv = [c \in S!Collectors |-> csv[c]]
  /\ csv["pressure"] \in Seq([tracked -> Reads])
  /\ row2 \in [DOMAIN row2 -> Reads] /\ DOMAIN row2 \subseteq tracked

\* No row is written before the columns are known, and what is known stays known.
Columns ==
  step["pressure"] \in {"cgroup", "resources"} => csv["pressure"] = <<>> /\ row2 = << >>

\* An empty field says that the cgroup is gone, and it does not come back.
Empty(r) == \A k \in DOMAIN r : r[k] = NoValue

GoneForGood ==
  /\ \A k \in DOMAIN row2 : row2[k] = NoValue => ~leaf
  /\ step["pressure"] = "read" /\ ~cgSeen => ~leaf /\ Empty(row2)
  /\ \A i \in 1..Len(csv["pressure"]) : \A k \in tracked :
       csv["pressure"][i][k] = NoValue => ~leaf /\ (step["pressure"] = "read" => Empty(row2))

StallsInv == PressureType /\ Columns /\ GoneForGood /\ S!StallsAreRead

LEMMA NoField == << >> \in [DOMAIN << >> -> Reads] /\ DOMAIN << >> = {}
<1>1. << >> \in [1..0 -> Reads] /\ DOMAIN << >> = 1..0
  OBVIOUS
<1>2. 1..0 = {}
  OBVIOUS
<1> QED BY <1>1, <1>2

LEMMA InitStalls == S!Init => StallsInv
<1> SUFFICES ASSUME S!Init PROVE StallsInv
  OBVIOUS
<1>1. /\ leaf = TRUE /\ cgSeen = FALSE /\ used = [cpu |-> 1, net |-> 1, stall |-> 1]
      /\ csv = [c \in S!Collectors |-> <<>>] /\ row2 = << >> /\ tracked = {}
      /\ step \in {[proc |-> "prev_stat", pressure |-> "done"], [proc |-> "done", pressure |-> "cgroup"]}
  BY DEF S!Init
<1>2. DOMAIN step = S!Collectors /\ step = [c \in S!Collectors |-> step[c]]
  BY <1>1 DEF S!Collectors
<1>3. step["pressure"] # "read" /\ csv["pressure"] = <<>>
  BY <1>1 DEF S!Collectors
<1>4. DOMAIN csv = S!Collectors /\ csv = [c \in S!Collectors |-> csv[c]]
      /\ csv["pressure"] \in Seq([tracked -> Reads])
  <2>1. csv = [c \in S!Collectors |-> <<>>]
    BY <1>1
  <2>2. DOMAIN csv = S!Collectors /\ csv = [c \in S!Collectors |-> csv[c]]
    BY <2>1
  <2>3. <<>> \in Seq([tracked -> Reads])
    OBVIOUS
  <2>4. csv["pressure"] \in Seq([tracked -> Reads])
    BY <1>3, <2>3, Zenon
  <2> QED BY <2>2, <2>4
<1>5. row2 \in [DOMAIN row2 -> Reads] /\ DOMAIN row2 \subseteq tracked
  <2>1. row2 = << >>
    BY <1>1
  <2>2. row2 \in [DOMAIN row2 -> Reads] /\ DOMAIN row2 = {}
    BY <2>1, NoField, Zenon
  <2> QED BY <2>2
<1>6. used \in [{"cpu", "net", "stall"} -> Nat]
  BY <1>1
<1>7. PressureType
  BY <1>1, <1>2, <1>4, <1>5, <1>6 DEF PressureType
<1> QED BY <1>1, <1>3, <1>7, NoField DEF StallsInv, Columns, GoneForGood, Empty, S!StallsAreRead

\* Whatever happens to the VM or to fc_proc.py, at most the cgroup goes.
LEMMA Aside ==
  ASSUME StallsInv, UNCHANGED <<cgSeen, tracked, row2>>, leaf' \in BOOLEAN, leaf' => leaf,
         used' \in [{"cpu", "net", "stall"} -> Nat],
         DOMAIN step' = S!Collectors, step' = [c \in S!Collectors |-> step'[c]],
         DOMAIN csv' = S!Collectors, csv' = [c \in S!Collectors |-> csv'[c]],
         step'["pressure"] = step["pressure"], csv'["pressure"] = csv["pressure"]
  PROVE  StallsInv'
<1>1. PressureType'
  BY DEF StallsInv, PressureType
<1>2. Columns'
  BY DEF StallsInv, Columns
<1>3. GoneForGood'
  <2>1. GoneForGood /\ cgSeen' = cgSeen /\ tracked' = tracked /\ row2' = row2
    BY DEF StallsInv
  <2>2. Empty(row2)' <=> Empty(row2)
    BY <2>1 DEF Empty
  <2>3. \A k \in DOMAIN row2' : row2'[k] = NoValue => ~leaf'
    BY <2>1 DEF GoneForGood
  <2>4. step'["pressure"] = "read" /\ ~cgSeen' => ~leaf' /\ Empty(row2)'
    BY <2>1, <2>2 DEF GoneForGood
  <2>5. \A i \in 1..Len(csv'["pressure"]) : \A k \in tracked' :
          csv'["pressure"][i][k] = NoValue => ~leaf' /\ (step'["pressure"] = "read" => Empty(row2)')
    BY <2>1, <2>2 DEF GoneForGood
  <2> QED BY <2>3, <2>4, <2>5 DEF GoneForGood
<1>4. S!StallsAreRead'
  BY DEF StallsInv, S!StallsAreRead
<1> QED BY <1>1, <1>2, <1>3, <1>4 DEF StallsInv

\* A collector's next command is its own.
LEMMA GoesAlone ==
  ASSUME PressureType, NEW c \in S!Collectors, NEW from, NEW to, S!Goes(c, from, to)
  PROVE  /\ step[c] = from /\ step'[c] = to
         /\ DOMAIN step' = S!Collectors /\ step' = [d \in S!Collectors |-> step'[d]]
         /\ \A d \in S!Collectors : d # c => step'[d] = step[d]
BY DEF PressureType, S!Goes

LEMMA HostAside == ASSUME StallsInv, S!HostStep PROVE StallsInv'
<1>1. UNCHANGED <<cgSeen, tracked, row2, step, csv>>
  BY DEF S!HostStep, S!Exit, S!Reaped, S!Rmdir, S!Work, S!proc, S!pressure
<1>2. leaf' \in BOOLEAN /\ (leaf' => leaf)
  <2>1. leaf' = leaf \/ leaf' = FALSE
    BY DEF S!HostStep, S!Exit, S!Reaped, S!Rmdir, S!Work
  <2>2. leaf \in BOOLEAN
    BY DEF StallsInv, PressureType
  <2>3. CASE leaf' = leaf
    BY <2>2, <2>3, Zenon
  <2>4. CASE leaf' = FALSE
    BY <2>4
  <2> QED BY <2>1, <2>3, <2>4
<1>3. used' \in [{"cpu", "net", "stall"} -> Nat]
  <2>1. CASE UNCHANGED used
    BY <2>1 DEF StallsInv, PressureType
  <2>2. ASSUME NEW what \in {"cpu", "net", "stall"}, S!Work(what)
        PROVE  used' \in [{"cpu", "net", "stall"} -> Nat]
    BY <2>2 DEF StallsInv, PressureType, S!Work
  <2> QED BY <2>1, <2>2 DEF S!HostStep, S!Exit, S!Reaped, S!Rmdir
<1> QED BY <1>1, <1>2, <1>3, Aside DEF StallsInv, PressureType

LEMMA ProcAside == ASSUME StallsInv, S!ProcStep PROVE StallsInv'
<1>1. UNCHANGED <<cgSeen, tracked, row2, leaf, used>>
  BY DEF S!ProcStep, S!PrevStat, S!PrevNet, S!Wake, S!ReadStat, S!ReadStatus, S!ReadNet,
         S!LookFd, S!ListFd, S!WriteRow, S!host, S!pressure, S!proc
<1>2. "proc" \in S!Collectors /\ "pressure" \in S!Collectors /\ "pressure" # "proc"
  BY DEF S!Collectors
<1>3. \E from, to : S!Goes("proc", from, to)
  BY DEF S!ProcStep, S!PrevStat, S!PrevNet, S!Wake, S!ReadStat, S!ReadStatus, S!ReadNet,
         S!LookFd, S!ListFd, S!WriteRow
<1>4. /\ DOMAIN step' = S!Collectors /\ step' = [d \in S!Collectors |-> step'[d]]
      /\ step'["pressure"] = step["pressure"]
  BY <1>2, <1>3, GoesAlone DEF StallsInv
<1>5. csv' = csv \/ \E r : csv' = [csv EXCEPT !["proc"] = r]
  BY DEF S!ProcStep, S!PrevStat, S!PrevNet, S!Wake, S!ReadStat, S!ReadStatus, S!ReadNet,
         S!LookFd, S!ListFd, S!WriteRow
<1>6. /\ DOMAIN csv' = S!Collectors /\ csv' = [d \in S!Collectors |-> csv'[d]]
      /\ csv'["pressure"] = csv["pressure"]
  BY <1>2, <1>5 DEF StallsInv, PressureType
<1> QED BY <1>1, <1>4, <1>6, Aside DEF StallsInv, PressureType

LEMMA StartKeeps == ASSUME StallsInv, S!StartSample PROVE StallsInv'
<1>1. /\ row2' = << >> /\ cgSeen' = leaf
      /\ UNCHANGED <<leaf, used, csv, tracked>> /\ S!Goes("pressure", "sleep", "read")
  BY DEF S!StartSample, S!host, S!proc
<1>2. /\ step'["pressure"] = "read" /\ step["pressure"] = "sleep"
      /\ DOMAIN step' = S!Collectors /\ step' = [d \in S!Collectors |-> step'[d]]
  BY <1>1, GoesAlone DEF StallsInv, S!Collectors
<1>3. row2' \in [DOMAIN row2' -> Reads] /\ DOMAIN row2' = {}
  BY <1>1, NoField, Zenon
<1>4. PressureType'
  BY <1>1, <1>2, <1>3 DEF StallsInv, PressureType
<1>5. Columns'
  BY <1>2 DEF Columns
<1>6. GoneForGood'
  <2>1. Empty(row2)' /\ \A k \in DOMAIN row2' : row2'[k] = NoValue => ~leaf'
    BY <1>3 DEF Empty
  <2>2. ~cgSeen' => ~leaf'
    BY <1>1
  <2>3. \A i \in 1..Len(csv'["pressure"]) : \A k \in tracked' :
          csv'["pressure"][i][k] = NoValue => ~leaf'
    BY <1>1 DEF StallsInv, GoneForGood
  <2> QED BY <2>1, <2>2, <2>3 DEF GoneForGood
<1>7. S!StallsAreRead'
  BY <1>1, <1>3 DEF StallsInv, S!StallsAreRead
<1> QED BY <1>4, <1>5, <1>6, <1>7 DEF StallsInv

LEMMA ReadKeeps == ASSUME StallsInv, NEW r \in Resources, S!ReadStall(r) PROVE StallsInv'
<1>1. /\ step["pressure"] = "read" /\ r \in tracked \ DOMAIN row2
      /\ row2' = [x \in DOMAIN row2 \cup {r} |-> IF x = r THEN S!Stall(r) ELSE row2[x]]
      /\ UNCHANGED <<leaf, used, step, csv, tracked, cgSeen>>
  BY DEF S!ReadStall, S!host, S!proc
<1>2. /\ DOMAIN row2' = DOMAIN row2 \cup {r} /\ row2'[r] = S!Stall(r)
      /\ \A k \in DOMAIN row2 : row2'[k] = row2[k]
  BY <1>1
<1>3. S!Stall(r) \in Reads /\ (S!Stall(r) = NoValue => ~leaf) /\ (~leaf => S!Stall(r) = NoValue)
  <2>1. used.stall \in Nat
    BY DEF StallsInv, PressureType
  <2>2. CASE leaf
    BY <2>1, <2>2, NoValueAssumption DEF S!Stall, Reads
  <2>3. CASE ~leaf
    BY <2>3 DEF S!Stall, Reads
  <2> QED BY <2>2, <2>3
<1>4. PressureType'
  <2>1. row2' \in [DOMAIN row2' -> Reads] /\ DOMAIN row2' \subseteq tracked'
    BY <1>1, <1>2, <1>3 DEF StallsInv, PressureType
  <2> QED BY <1>1, <2>1 DEF StallsInv, PressureType
<1>5. Columns'
  BY <1>1 DEF Columns
<1>6. Empty(row2) /\ ~leaf => Empty(row2)'
  BY <1>2, <1>3 DEF Empty
<1>7. GoneForGood'
  <2>1. \A k \in DOMAIN row2' : row2'[k] = NoValue => ~leaf'
    BY <1>1, <1>2, <1>3 DEF StallsInv, GoneForGood
  <2>2. ~cgSeen' => ~leaf' /\ Empty(row2)'
    BY <1>1, <1>6 DEF StallsInv, GoneForGood
  <2>3. \A i \in 1..Len(csv'["pressure"]) : \A k \in tracked' :
          csv'["pressure"][i][k] = NoValue => ~leaf' /\ Empty(row2)'
    BY <1>1, <1>6 DEF StallsInv, GoneForGood
  <2> QED BY <2>1, <2>2, <2>3 DEF GoneForGood
<1>8. S!StallsAreRead'
  <2>1. ~cgSeen' => \A k \in DOMAIN row2' : row2'[k] = NoValue
    BY <1>1, <1>6 DEF StallsInv, GoneForGood, Empty
  <2> QED BY <1>1, <2>1 DEF StallsInv, S!StallsAreRead
<1> QED BY <1>4, <1>5, <1>7, <1>8 DEF StallsInv

LEMMA WriteKeeps == ASSUME StallsInv, S!WriteStalls PROVE StallsInv'
<1> DEFINE old == csv["pressure"]
           new == csv'["pressure"]
<1>1. /\ tracked = DOMAIN row2 /\ csv' = [csv EXCEPT !["pressure"] = Append(old, row2)]
      /\ UNCHANGED <<leaf, used, tracked, row2, cgSeen>>
      /\ \E to : to \in {"done", "sleep"} /\ S!Goes("pressure", "read", to)
  BY DEF S!WriteStalls, S!host, S!proc, S!pressure
<1>2. /\ step["pressure"] = "read" /\ step'["pressure"] \in {"done", "sleep"}
      /\ DOMAIN step' = S!Collectors /\ step' = [d \in S!Collectors |-> step'[d]]
  BY <1>1, GoesAlone DEF StallsInv, S!Collectors
<1>3. new = Append(old, row2)
  BY <1>1 DEF StallsInv, PressureType, S!Collectors
<1>4. old \in Seq([tracked -> Reads]) /\ row2 \in [tracked -> Reads]
  BY <1>1 DEF StallsInv, PressureType
<1>5. /\ new \in Seq([tracked -> Reads]) /\ Len(old) \in Nat /\ Len(new) = Len(old) + 1
      /\ DOMAIN new = 1..Len(new) /\ DOMAIN old = 1..Len(old)
      /\ new[Len(old) + 1] = row2 /\ \A i \in 1..Len(old) : new[i] = old[i]
  BY <1>3, <1>4
<1>6. PressureType'
  <2>1. DOMAIN csv' = S!Collectors /\ csv' = [d \in S!Collectors |-> csv'[d]]
    BY <1>1 DEF StallsInv, PressureType
  <2> QED BY <1>1, <1>2, <1>5, <2>1 DEF StallsInv, PressureType
<1>7. Columns'
  BY <1>2 DEF Columns
<1>8. GoneForGood /\ S!StallsAreRead
  BY DEF StallsInv
<1> HIDE DEF new, old
<1>9. GoneForGood'
  <2>1. \A k \in DOMAIN row2' : row2'[k] = NoValue => ~leaf'
    BY <1>1, <1>8 DEF GoneForGood
  <2>2. ASSUME NEW i \in 1..Len(new), NEW k \in tracked, new[i][k] = NoValue PROVE ~leaf
    <3>1. CASE i \in 1..Len(old)
      BY <1>5, <1>8, <2>2, <3>1 DEF GoneForGood, old
    <3>2. CASE i = Len(old) + 1
      BY <1>1, <1>5, <1>8, <2>2, <3>2 DEF GoneForGood
    <3> QED BY <1>5, <3>1, <3>2
  <2> QED BY <1>1, <1>2, <2>1, <2>2 DEF GoneForGood, new
<1>10. S!StallsAreRead'
  <2>1. ASSUME NEW i \in 1..Len(new), NEW j \in 1..Len(new), i < j,
               NEW k \in tracked, new[i][k] = NoValue
        PROVE  new[j][k] = NoValue
    <3>1. i \in 1..Len(old) /\ new[i] = old[i]
      BY <1>5, <2>1
    <3>2. CASE j \in 1..Len(old)
      <4>1. \A a, b \in DOMAIN old : a < b =>
              \A c \in tracked : old[a][c] = NoValue => old[b][c] = NoValue
        BY <1>8 DEF S!StallsAreRead, old
      <4>2. old[i][k] = NoValue /\ new[j] = old[j]
        BY <1>5, <2>1, <3>1, <3>2
      <4>3. i \in DOMAIN old /\ j \in DOMAIN old
        BY <1>5, <3>1, <3>2
      <4> QED BY <2>1, <4>1, <4>2, <4>3
    <3>3. CASE j = Len(old) + 1
      <4>1. Empty(row2)
        BY <1>2, <1>8, <2>1, <3>1 DEF GoneForGood, old
      <4> QED BY <1>1, <1>5, <3>3, <4>1 DEF Empty
    <3> QED BY <1>5, <3>2, <3>3
  <2> QED BY <1>1, <1>2, <1>5, <2>1 DEF S!StallsAreRead, new
<1> QED BY <1>6, <1>7, <1>9, <1>10 DEF StallsInv

LEMMA StallsStep == StallsInv /\ [S!Next]_vmVars => StallsInv'
<1> SUFFICES ASSUME StallsInv, [S!Next]_vmVars PROVE StallsInv'
  OBVIOUS
<1>1. CASE UNCHANGED vmVars
  BY <1>1, Aside DEF vmVars, StallsInv, PressureType
<1>2. CASE S!FindCgroup \/ S!FindResources
  <2>1. /\ UNCHANGED <<leaf, used, csv, row2, cgSeen>> /\ (tracked' = tracked \/ S!FindResources)
        /\ step["pressure"] \in {"cgroup", "resources"}
        /\ \E from, to : to \in {"resources", "sleep", "failed"} /\ S!Goes("pressure", from, to)
    BY <1>2 DEF S!FindCgroup, S!FindResources, S!Goes, S!host, S!proc, S!pressure
  <2>2. /\ step'["pressure"] \in {"resources", "sleep", "failed"}
        /\ DOMAIN step' = S!Collectors /\ step' = [d \in S!Collectors |-> step'[d]]
    BY <2>1, GoesAlone DEF StallsInv, S!Collectors
  <2>3. csv["pressure"] = <<>> /\ row2 = << >>
    BY <2>1 DEF StallsInv, Columns
  <2>4. <<>> \in Seq([tracked' -> Reads]) /\ Len(<<>>) = 0 /\ DOMAIN row2 = {}
    BY <2>3, NoField
  <2>5. PressureType'
    BY <2>1, <2>2, <2>3, <2>4 DEF StallsInv, PressureType
  <2>6. Columns'
    BY <2>1, <2>3 DEF Columns
  <2>7. GoneForGood'
    BY <2>1, <2>2, <2>3, <2>4 DEF GoneForGood
  <2>8. S!StallsAreRead'
    BY <2>1, <2>2, <2>3, <2>4 DEF S!StallsAreRead
  <2> QED BY <2>5, <2>6, <2>7, <2>8 DEF StallsInv
<1>3. CASE S!HostStep \/ S!ProcStep
  BY <1>3, HostAside, ProcAside
<1>4. CASE S!StartSample \/ S!WriteStalls \/ \E r \in Resources : S!ReadStall(r)
  BY <1>4, StartKeeps, WriteKeeps, ReadKeeps
<1> QED BY <1>1, <1>2, <1>3, <1>4 DEF S!Next, S!PressureStep

\* An entry of pressure.csv was read in its own sample, and once the VM's cgroup is gone
\* every field stays empty: a row keeps nothing of the row before it, for any set of PSI
\* files, any number of samples and a cgroup that goes between any two reads.
THEOREM Stalls == S!Spec => []StallsAreRead
<1>1. S!Init => StallsInv
  BY InitStalls
<1>2. StallsInv /\ [S!Next]_(S!vars) => StallsInv'
  BY StallsStep DEF vmVars, S!vars, S!host, S!proc, S!pressure
<1>3. StallsInv => StallsAreRead
  BY DEF StallsInv, StallsAreRead
<1> QED BY <1>1, <1>2, <1>3, PTL DEF S!Spec

----------------------------------------------------------------------------
\* What fc_proc.py has read, and what a row of it is.
ProcRow == [cpu : Int, net : Int, mem : {"VmRSS", NoValue}]

ProcType ==
  /\ used \in [{"cpu", "net", "stall"} -> Nat]
  /\ DOMAIN step = S!Collectors /\ step = [c \in S!Collectors |-> step[c]]
  /\ DOMAIN csv = S!Collectors /\ csv = [c \in S!Collectors |-> csv[c]]
  /\ csv["proc"] \in Seq(ProcRow)
  /\ cs \in Reads /\ prevStat \in Reads /\ st \in {"VmRSS", NoValue}
  /\ net \in Nat /\ prevNet \in Nat

\* Has fc_proc.py read the bytes of the row it is about to write?
Asked == step["proc"] \in {"fd", "list", "write"}

\* Bytes are read from a living VM, which has no less of them than before, or they are 0.
BytesRead ==
  /\ vm = "up" => prevNet <= used["net"]
  /\ Asked => /\ vm = "up" => net <= used["net"]
              /\ net >= prevNet \/ (net = 0 /\ vm # "up")

\* Once they have been taken back, there are none before the row to come, nor in it.
NoneLeft ==
  \A i \in 1..Len(csv["proc"]) : csv["proc"][i].net < 0 =>
    /\ vm # "up" /\ prevNet = 0 /\ (Asked => net = 0)
    /\ \A j \in 1..Len(csv["proc"]) : i < j => csv["proc"][j].net = 0

NothingYet == step["proc"] \in {"prev_stat", "prev_net"} => csv["proc"] = <<>>

BytesInv == ProcType /\ BytesRead /\ NoneLeft /\ NothingYet

LEMMA InitBytes == S!Init => BytesInv
<1> SUFFICES ASSUME S!Init PROVE BytesInv
  OBVIOUS
<1>1. /\ used = [cpu |-> 1, net |-> 1, stall |-> 1] /\ csv = [c \in S!Collectors |-> <<>>]
      /\ cs = NoValue /\ prevStat = NoValue /\ st = NoValue /\ net = 0 /\ prevNet = 0
      /\ step \in {[proc |-> "prev_stat", pressure |-> "done"], [proc |-> "done", pressure |-> "cgroup"]}
  BY DEF S!Init
<1>2. /\ DOMAIN step = S!Collectors /\ step = [c \in S!Collectors |-> step[c]]
      /\ step["proc"] \in {"prev_stat", "done"}
  BY <1>1 DEF S!Collectors
<1>3. csv["proc"] = <<>> /\ <<>> \in Seq(ProcRow) /\ Len(<<>>) = 0
  BY <1>1 DEF S!Collectors
<1>4. DOMAIN csv = S!Collectors /\ csv = [c \in S!Collectors |-> csv[c]]
  BY <1>1
<1>5. used \in [{"cpu", "net", "stall"} -> Nat]
  BY <1>1
<1>6. ProcType
  BY <1>1, <1>2, <1>3, <1>4, <1>5 DEF ProcType, Reads
<1>7. BytesRead
  BY <1>1, <1>2, <1>5 DEF BytesRead, Asked
<1> QED BY <1>3, <1>6, <1>7 DEF BytesInv, NoneLeft, NothingYet

\* Whatever happens to the VM, to fc_pressure.py, or in a sample where no bytes are read.
LEMMA BytesAside ==
  ASSUME BytesInv, UNCHANGED <<net, prevNet>>, vm' = "up" => vm = "up",
         used' \in [{"cpu", "net", "stall"} -> Nat], used["net"] <= used'["net"],
         cs' \in Reads, prevStat' \in Reads, st' \in {"VmRSS", NoValue},
         DOMAIN step' = S!Collectors, step' = [c \in S!Collectors |-> step'[c]],
         DOMAIN csv' = S!Collectors, csv' = [c \in S!Collectors |-> csv'[c]],
         csv'["proc"] = csv["proc"], Asked' => Asked,
         step'["proc"] \in {"prev_stat", "prev_net"} => step["proc"] \in {"prev_stat", "prev_net"}
  PROVE  BytesInv'
<1>1. ProcType'
  BY DEF BytesInv, ProcType
<1>2. BytesRead'
  BY DEF BytesInv, ProcType, BytesRead
<1>3. NoneLeft'
  BY DEF BytesInv, NoneLeft
<1>4. NothingYet'
  BY DEF BytesInv, NothingYet
<1> QED BY <1>1, <1>2, <1>3, <1>4 DEF BytesInv

\* A command of one collector leaves the other where it is.
LEMMA StepOf ==
  ASSUME ProcType, NEW c \in S!Collectors, NEW from, NEW to, S!Goes(c, from, to)
  PROVE  /\ step[c] = from /\ step'[c] = to
         /\ DOMAIN step' = S!Collectors /\ step' = [d \in S!Collectors |-> step'[d]]
         /\ \A d \in S!Collectors : d # c => step'[d] = step[d]
BY DEF ProcType, S!Goes

LEMMA HostBytes == ASSUME BytesInv, S!HostStep PROVE BytesInv'
<1>1. UNCHANGED <<net, prevNet, cs, prevStat, st, step, csv>>
  BY DEF S!HostStep, S!Exit, S!Reaped, S!Rmdir, S!Work, S!proc
<1>2. vm' = "up" => vm = "up"
  BY DEF S!HostStep, S!Exit, S!Reaped, S!Rmdir, S!Work
<1>3. used' \in [{"cpu", "net", "stall"} -> Nat] /\ used["net"] <= used'["net"]
  <2>1. CASE UNCHANGED used
    BY <2>1 DEF BytesInv, ProcType
  <2>2. ASSUME NEW what \in {"cpu", "net", "stall"}, S!Work(what)
        PROVE  used' \in [{"cpu", "net", "stall"} -> Nat] /\ used["net"] <= used'["net"]
    <3>1. used' = [used EXCEPT ![what] = used[what] + 1]
      BY <2>2 DEF S!Work
    <3> QED BY <3>1 DEF BytesInv, ProcType
  <2> QED BY <2>1, <2>2 DEF S!HostStep, S!Exit, S!Reaped, S!Rmdir
<1> QED BY <1>1, <1>2, <1>3, BytesAside DEF BytesInv, ProcType, Asked

LEMMA PressureBytes == ASSUME BytesInv, S!PressureStep PROVE BytesInv'
<1>1. UNCHANGED <<net, prevNet, cs, prevStat, st, vm, used>>
  BY DEF S!PressureStep, S!FindCgroup, S!FindResources, S!StartSample, S!WriteStalls, S!ReadStall,
         S!host, S!proc
<1>2. "proc" \in S!Collectors /\ "pressure" \in S!Collectors /\ "pressure" # "proc"
  BY DEF S!Collectors
<1>3. UNCHANGED step \/ \E from, to : S!Goes("pressure", from, to)
  BY DEF S!PressureStep, S!FindCgroup, S!FindResources, S!StartSample, S!WriteStalls, S!ReadStall
<1>4. /\ DOMAIN step' = S!Collectors /\ step' = [d \in S!Collectors |-> step'[d]]
      /\ step'["proc"] = step["proc"]
  BY <1>2, <1>3, StepOf DEF BytesInv, ProcType
<1>5. csv' = csv \/ \E r : csv' = [csv EXCEPT !["pressure"] = r]
  BY DEF S!PressureStep, S!FindCgroup, S!FindResources, S!StartSample, S!WriteStalls, S!ReadStall
<1>6. /\ DOMAIN csv' = S!Collectors /\ csv' = [d \in S!Collectors |-> csv'[d]]
      /\ csv'["proc"] = csv["proc"]
  BY <1>2, <1>5 DEF BytesInv, ProcType
<1> QED BY <1>1, <1>4, <1>6, BytesAside DEF BytesInv, ProcType, Asked

LEMMA BytesOf ==
  ASSUME ProcType
  PROVE  /\ S!NetBytes \in Nat /\ S!Stat \in Reads /\ S!Status \in {"VmRSS", NoValue}
         /\ vm = "up" => S!NetBytes = used["net"]
         /\ vm # "up" => S!NetBytes = 0
<1>1. used.net \in Nat /\ used.cpu \in Nat /\ used.net = used["net"]
  BY DEF ProcType
<1> QED BY <1>1 DEF S!NetBytes, S!Stat, S!Status, Reads

\* The commands of fc_proc.py that read no bytes and write nothing.
LEMMA ReadingBytes ==
  ASSUME BytesInv, \/ S!PrevStat \/ S!Wake \/ S!ReadStat \/ S!ReadStatus \/ S!LookFd \/ S!ListFd
  PROVE  BytesInv'
<1> USE DEF BytesInv
<1>1. UNCHANGED <<net, prevNet, vm, used, csv>>
  BY DEF S!PrevStat, S!Wake, S!ReadStat, S!ReadStatus, S!LookFd, S!ListFd, S!host, S!proc
<1>2. cs' \in Reads /\ prevStat' \in Reads /\ st' \in {"VmRSS", NoValue}
  BY BytesOf DEF ProcType, S!PrevStat, S!Wake, S!ReadStat, S!ReadStatus, S!LookFd, S!ListFd, S!proc
<1>3. \E from, to :
         /\ S!Goes("proc", from, to)
         /\ to \in {"fd", "list", "write"} => from \in {"fd", "list", "write"}
         /\ to \in {"prev_stat", "prev_net"} => from = "prev_stat"
  BY DEF S!PrevStat, S!Wake, S!ReadStat, S!ReadStatus, S!LookFd, S!ListFd, S!Goes
<1>4. /\ DOMAIN step' = S!Collectors /\ step' = [d \in S!Collectors |-> step'[d]]
      /\ Asked' => Asked
      /\ step'["proc"] \in {"prev_stat", "prev_net"} => step["proc"] \in {"prev_stat", "prev_net"}
  BY <1>3, StepOf DEF S!Collectors, Asked
<1> HIDE DEF BytesInv
<1>5. ProcType /\ used["net"] \in Nat
  BY DEF BytesInv, ProcType
<1> QED BY <1>1, <1>2, <1>4, <1>5, BytesAside DEF ProcType

LEMMA PrevNetKeeps == ASSUME BytesInv, S!PrevNet PROVE BytesInv'
<1> USE DEF BytesInv
<1>1. /\ prevNet' = S!NetBytes /\ UNCHANGED <<net, cs, st, prevStat, vm, used, csv>>
      /\ S!Goes("proc", "prev_net", "sleep")
  BY DEF S!PrevNet, S!host
<1>2. /\ step["proc"] = "prev_net" /\ step'["proc"] = "sleep"
      /\ DOMAIN step' = S!Collectors /\ step' = [d \in S!Collectors |-> step'[d]]
  BY <1>1, StepOf DEF S!Collectors
<1>3. csv["proc"] = <<>> /\ Len(<<>>) = 0
  BY <1>2 DEF NothingYet
<1>4. ProcType'
  BY <1>1, <1>2, BytesOf DEF ProcType
<1>5. BytesRead'
  <2>1. vm = "up" => S!NetBytes <= used["net"]
    BY BytesOf DEF ProcType
  <2> QED BY <1>1, <1>2, <2>1 DEF BytesRead, Asked
<1>6. NoneLeft' /\ NothingYet'
  BY <1>1, <1>2, <1>3 DEF NoneLeft, NothingYet
<1> QED BY <1>4, <1>5, <1>6

LEMMA ReadNetKeeps == ASSUME BytesInv, S!ReadNet PROVE BytesInv'
<1> USE DEF BytesInv
<1>1. /\ net' = S!NetBytes /\ UNCHANGED <<prevNet, cs, st, prevStat, vm, used, csv>>
      /\ S!Goes("proc", "net", "fd")
  BY DEF S!ReadNet, S!host
<1>2. /\ step["proc"] = "net" /\ step'["proc"] = "fd"
      /\ DOMAIN step' = S!Collectors /\ step' = [d \in S!Collectors |-> step'[d]]
  BY <1>1, StepOf DEF S!Collectors
<1>3. ProcType'
  BY <1>1, <1>2, BytesOf DEF ProcType
<1>4. BytesRead'
  <2>1. prevNet \in Nat /\ used["net"] \in Nat /\ (vm = "up" => prevNet <= used["net"])
    BY DEF ProcType, BytesRead
  <2>2. CASE vm = "up"
    BY <1>1, <2>1, <2>2, BytesOf DEF BytesRead
  <2>3. CASE vm # "up"
    BY <1>1, <2>1, <2>3, BytesOf DEF BytesRead
  <2> QED BY <2>2, <2>3
<1>5. NoneLeft'
  BY <1>1, BytesOf DEF NoneLeft
<1>6. NothingYet'
  BY <1>2 DEF NothingYet
<1> QED BY <1>3, <1>4, <1>5, <1>6

LEMMA WriteRowKeeps == ASSUME BytesInv, S!WriteRow PROVE BytesInv'
<1> DEFINE new == csv'["proc"]
           old == csv["proc"]
           added == [cpu |-> S!CpuPct(prevStat, cs), net |-> net - prevNet, mem |-> st]
<1>1. /\ csv' = [csv EXCEPT !["proc"] = Append(old, added)]
      /\ prevStat' = cs /\ prevNet' = net /\ UNCHANGED <<net, cs, st, vm, used>>
      /\ \E to : to \in {"done", "sleep"} /\ S!Goes("proc", "write", to)
  BY DEF S!WriteRow, S!host
<1>2. /\ step["proc"] = "write" /\ step'["proc"] \in {"done", "sleep"}
      /\ DOMAIN step' = S!Collectors /\ step' = [d \in S!Collectors |-> step'[d]]
  BY <1>1, StepOf DEF BytesInv, S!Collectors
<1>3. new = Append(old, added)
  BY <1>1 DEF BytesInv, ProcType, S!Collectors
<1>4. added \in ProcRow /\ added.net = net - prevNet
  <2>1. S!CpuPct(prevStat, cs) \in Int
    BY DEF BytesInv, ProcType, Reads, S!CpuPct
  <2>2. net - prevNet \in Int /\ st \in {"VmRSS", NoValue}
    BY DEF BytesInv, ProcType
  <2> QED BY <2>1, <2>2 DEF ProcRow
<1>5. old \in Seq(ProcRow)
  BY DEF BytesInv, ProcType
<1> HIDE DEF added
<1>6. /\ new \in Seq(ProcRow) /\ Len(old) \in Nat /\ Len(new) = Len(old) + 1
      /\ new[Len(old) + 1] = added /\ \A i \in 1..Len(old) : new[i] = old[i]
  BY <1>3, <1>4, <1>5
<1>7. ProcType'
  <2>1. DOMAIN csv' = S!Collectors /\ csv' = [d \in S!Collectors |-> csv'[d]]
    BY <1>1 DEF BytesInv, ProcType
  <2> QED BY <1>1, <1>2, <1>6, <2>1 DEF BytesInv, ProcType
<1> HIDE DEF new, old
<1>8. /\ net \in Nat /\ prevNet \in Nat /\ used["net"] \in Nat
      /\ vm = "up" => net <= used["net"]
      /\ net >= prevNet \/ (net = 0 /\ vm # "up")
  BY <1>2 DEF BytesInv, ProcType, BytesRead, Asked
<1>9. BytesRead'
  BY <1>1, <1>2, <1>8 DEF BytesRead, Asked
<1>10. NoneLeft'
  <2>1. \A i \in 1..Len(old) : old[i].net < 0 =>
          /\ vm # "up" /\ prevNet = 0 /\ net = 0
          /\ \A j \in 1..Len(old) : i < j => old[j].net = 0
    BY <1>2 DEF BytesInv, NoneLeft, Asked, old
  <2>2. ASSUME NEW i \in 1..Len(new), new[i].net < 0
        PROVE  vm # "up" /\ net = 0 /\ \A j \in 1..Len(new) : i < j => new[j].net = 0
    <3>1. CASE i \in 1..Len(old)
      <4>1. vm # "up" /\ net = 0 /\ prevNet = 0 /\ \A j \in 1..Len(old) : i < j => old[j].net = 0
        BY <1>6, <2>1, <2>2, <3>1
      <4>2. added.net = 0
        BY <1>4, <1>8, <4>1
      <4> QED BY <1>6, <4>1, <4>2
    <3>2. CASE i = Len(old) + 1
      <4>1. added.net < 0
        BY <1>6, <2>2, <3>2
      <4>2. net = 0 /\ vm # "up"
        BY <1>4, <1>8, <4>1
      <4> QED BY <1>6, <3>2, <4>2
    <3> QED BY <1>6, <3>1, <3>2
  <2> QED BY <1>1, <1>2, <2>2 DEF NoneLeft, Asked, new
<1>11. NothingYet'
  BY <1>2 DEF NothingYet
<1> QED BY <1>7, <1>9, <1>10, <1>11 DEF BytesInv

LEMMA BytesStep == BytesInv /\ [S!Next]_vmVars => BytesInv'
<1> SUFFICES ASSUME BytesInv, [S!Next]_vmVars PROVE BytesInv'
  OBVIOUS
<1>1. CASE UNCHANGED vmVars
  <2>1. used["net"] \in Nat
    BY DEF BytesInv, ProcType
  <2> QED BY <1>1, <2>1, BytesAside DEF vmVars, BytesInv, ProcType, Asked
<1>2. CASE S!HostStep \/ S!PressureStep
  BY <1>2, HostBytes, PressureBytes
<1>3. CASE S!ProcStep
  BY <1>3, ReadingBytes, PrevNetKeeps, ReadNetKeeps, WriteRowKeeps DEF S!ProcStep
<1> QED BY <1>1, <1>2, <1>3 DEF S!Next

\* The bytes of a VM are taken back at most once, by the row in which it was found dead,
\* and the rows after that count none, though it may exit between any two reads.
LEMMA TakenBackOnce == ASSUME BytesInv PROVE S!BackOnce
<1>1. /\ Len(csv["proc"]) \in Nat /\ DOMAIN csv["proc"] = 1..Len(csv["proc"])
      /\ \A i \in 1..Len(csv["proc"]) : csv["proc"][i].net \in Int
  <2>1. csv["proc"] \in Seq(ProcRow) /\ \A r \in ProcRow : r.net \in Int
    BY DEF BytesInv, ProcType, ProcRow
  <2>2. \A i \in 1..Len(csv["proc"]) : csv["proc"][i] \in ProcRow
    BY <2>1
  <2> QED BY <2>1, <2>2
<1>2. S!Nets \in [1..Len(csv["proc"]) -> Int]
  BY <1>1 DEF S!Nets
<1>3. DOMAIN S!Nets = 1..Len(csv["proc"]) /\ Len(S!Nets) = Len(csv["proc"])
  BY <1>1, <1>2
<1>4. \A i \in 1..Len(csv["proc"]) : S!Nets[i] = csv["proc"][i].net
  BY <1>1 DEF S!Nets
<1> QED BY <1>1, <1>3, <1>4 DEF BytesInv, NoneLeft, S!BackOnce

----------------------------------------------------------------------------
\* Has fc_proc.py read the CPU time of the row it is about to write?
StatRead == step["proc"] \in {"status", "net", "fd", "list", "write"}

\* The rows add up to the time between the first reading and the last; a reading that
\* fails says that the VM is gone, and no later one succeeds.
CpuSum ==
  begun # NoValue =>
    /\ prevStat # NoValue =>
         begun <= prevStat /\ prevStat <= used["cpu"] /\ Total(S!Cpus) = prevStat - begun
    /\ prevStat = NoValue =>
         vm = "gone" /\ 0 <= Total(S!Cpus) /\ Total(S!Cpus) <= used["cpu"] - begun
    /\ StatRead => /\ cs = NoValue => vm = "gone"
                   /\ cs # NoValue => prevStat # NoValue /\ prevStat <= cs /\ cs <= used["cpu"]

CpuInv == BytesInv /\ begun \in Reads /\ CpuSum

LEMMA SumIsAdded == S!Sum(S!Cpus) = Total(S!Cpus)
BY DEF S!Sum, Total, S!FoldLeft, S!MapThenFoldSet, S!Max, FoldLeft, MapThenFoldSet, Max

\* The sum is a constant operator.
LEMMA AddedNext == Total(S!Cpus)' = Total(S!Cpus')
BY DEF Total, FoldLeft, MapThenFoldSet, Max

LEMMA CpusType ==
  ASSUME ProcType
  PROVE  S!Cpus \in Seq(Int) /\ Total(S!Cpus) \in Int
<1>1. csv["proc"] \in Seq(ProcRow) /\ \A r \in ProcRow : r.cpu \in Int
  BY DEF ProcType, ProcRow
<1>2. Len(csv["proc"]) \in Nat /\ DOMAIN csv["proc"] = 1..Len(csv["proc"])
      /\ \A i \in 1..Len(csv["proc"]) : csv["proc"][i].cpu \in Int
  BY <1>1
<1>3. S!Cpus \in [1..Len(csv["proc"]) -> Int]
  BY <1>2 DEF S!Cpus
<1>4. S!Cpus \in Seq(Int)
  BY <1>2, <1>3
<1> QED BY <1>4, TotalAppend

\* Whatever leaves the readings and the rows alone, however much the VM works meanwhile.
LEMMA CpuAside ==
  ASSUME CpuInv, BytesInv', UNCHANGED <<begun, prevStat, cs>>, csv'["proc"] = csv["proc"],
         vm = "gone" => vm' = "gone", used["cpu"] <= used'["cpu"], StatRead' => StatRead
  PROVE  CpuInv'
<1>1. S!Cpus' = S!Cpus /\ Total(S!Cpus)' = Total(S!Cpus)
  BY AddedNext DEF S!Cpus
<1>2. /\ used["cpu"] \in Nat /\ used'["cpu"] \in Nat /\ begun \in Reads /\ prevStat \in Reads
      /\ cs \in Reads /\ Total(S!Cpus) \in Int
  BY CpusType DEF CpuInv, BytesInv, ProcType
<1>3. CpuSum'
  <2> SUFFICES ASSUME begun # NoValue
               PROVE  /\ prevStat # NoValue =>
                           begun <= prevStat /\ prevStat <= used'["cpu"] /\ Total(S!Cpus) = prevStat - begun
                      /\ prevStat = NoValue =>
                           vm' = "gone" /\ 0 <= Total(S!Cpus) /\ Total(S!Cpus) <= used'["cpu"] - begun
                      /\ StatRead' => /\ cs = NoValue => vm' = "gone"
                                      /\ cs # NoValue => prevStat # NoValue /\ prevStat <= cs /\ cs <= used'["cpu"]
    BY <1>1 DEF CpuSum
  <2>1. begun \in Nat /\ (prevStat # NoValue => prevStat \in Nat) /\ (cs # NoValue => cs \in Nat)
    BY <1>2 DEF Reads
  <2> QED BY <1>2, <2>1 DEF CpuInv, CpuSum
<1> QED BY <1>3 DEF CpuInv

LEMMA HostCpu == ASSUME CpuInv, S!HostStep PROVE CpuInv'
<1>1. UNCHANGED <<begun, prevStat, cs, csv, step>> /\ BytesInv'
  BY HostBytes DEF CpuInv, S!HostStep, S!Exit, S!Reaped, S!Rmdir, S!Work, S!proc
<1>2. vm = "gone" => vm' = "gone"
  BY DEF S!HostStep, S!Exit, S!Reaped, S!Rmdir, S!Work
<1>3. used["cpu"] <= used'["cpu"]
  <2>1. used \in [{"cpu", "net", "stall"} -> Nat]
    BY DEF CpuInv, BytesInv, ProcType
  <2>2. CASE UNCHANGED used
    BY <2>1, <2>2
  <2>3. ASSUME NEW what \in {"cpu", "net", "stall"}, S!Work(what) PROVE used["cpu"] <= used'["cpu"]
    <3>1. used' = [used EXCEPT ![what] = used[what] + 1]
      BY <2>3 DEF S!Work
    <3> QED BY <2>1, <3>1
  <2> QED BY <2>2, <2>3 DEF S!HostStep, S!Exit, S!Reaped, S!Rmdir
<1> QED BY <1>1, <1>2, <1>3, CpuAside DEF StatRead

LEMMA PressureCpu == ASSUME CpuInv, S!PressureStep PROVE CpuInv'
<1>1. UNCHANGED <<begun, prevStat, cs, vm, used>> /\ BytesInv'
  BY PressureBytes DEF CpuInv, S!PressureStep, S!FindCgroup, S!FindResources, S!StartSample,
     S!WriteStalls, S!ReadStall, S!host, S!proc
<1>2. "proc" \in S!Collectors /\ "pressure" \in S!Collectors /\ "pressure" # "proc"
  BY DEF S!Collectors
<1>3. UNCHANGED step \/ \E from, to : S!Goes("pressure", from, to)
  BY DEF S!PressureStep, S!FindCgroup, S!FindResources, S!StartSample, S!WriteStalls, S!ReadStall
<1>4. step'["proc"] = step["proc"]
  BY <1>2, <1>3, StepOf DEF CpuInv, BytesInv, ProcType
<1>5. csv' = csv \/ \E r : csv' = [csv EXCEPT !["pressure"] = r]
  BY DEF S!PressureStep, S!FindCgroup, S!FindResources, S!StartSample, S!WriteStalls, S!ReadStall
<1>6. csv'["proc"] = csv["proc"]
  BY <1>2, <1>5 DEF CpuInv, BytesInv, ProcType
<1>7. used["cpu"] \in Nat
  BY DEF CpuInv, BytesInv, ProcType
<1> QED BY <1>1, <1>4, <1>6, <1>7, CpuAside DEF StatRead

\* The commands of fc_proc.py that read no CPU time and write no row.
LEMMA OtherReads ==
  ASSUME CpuInv, \/ S!PrevNet \/ S!Wake \/ S!ReadStatus \/ S!ReadNet \/ S!LookFd \/ S!ListFd
  PROVE  CpuInv'
<1>1. UNCHANGED <<begun, prevStat, cs, vm, used, csv>>
  BY DEF S!PrevNet, S!Wake, S!ReadStatus, S!ReadNet, S!LookFd, S!ListFd, S!host, S!proc
<1>2. BytesInv'
  BY ReadingBytes, PrevNetKeeps, ReadNetKeeps DEF CpuInv
<1>3. \E from, to :
         /\ S!Goes("proc", from, to)
         /\ to \in {"status", "net", "fd", "list", "write"} => from \in {"status", "net", "fd", "list", "write"}
  BY DEF S!PrevNet, S!Wake, S!ReadStatus, S!ReadNet, S!LookFd, S!ListFd, S!Goes
<1>4. StatRead' => StatRead
  BY <1>3, StepOf DEF CpuInv, BytesInv, S!Collectors, StatRead
<1>5. used["cpu"] \in Nat
  BY DEF CpuInv, BytesInv, ProcType
<1> QED BY <1>1, <1>2, <1>4, <1>5, CpuAside

\* The first reading, before any row.
LEMMA PrevStatCpu == ASSUME CpuInv, S!PrevStat PROVE CpuInv'
<1>1. /\ begun' = S!Stat /\ prevStat' = S!Stat /\ UNCHANGED <<vm, used, csv>>
      /\ S!Goes("proc", "prev_stat", "prev_net")
  BY DEF S!PrevStat, S!host
<1>2. step["proc"] = "prev_stat" /\ step'["proc"] = "prev_net"
  BY <1>1, StepOf DEF CpuInv, BytesInv, S!Collectors
<1>3. csv["proc"] = <<>>
  BY <1>2 DEF CpuInv, BytesInv, NothingYet
<1>4. S!Cpus' = <<>>
  BY <1>1, <1>3 DEF S!Cpus
<1>5. Total(S!Cpus)' = 0
  BY <1>4, TotalEmpty, AddedNext
<1>6. used["cpu"] \in Nat /\ used.cpu = used["cpu"] /\ S!Stat \in Reads
      /\ (S!Stat # NoValue => S!Stat = used["cpu"])
  BY BytesOf DEF CpuInv, BytesInv, ProcType, S!Stat
<1>7. CpuSum'
  BY <1>1, <1>2, <1>5, <1>6 DEF CpuSum, StatRead
<1>8. BytesInv'
  BY ReadingBytes DEF CpuInv
<1> QED BY <1>1, <1>6, <1>7, <1>8 DEF CpuInv

LEMMA ReadStatCpu == ASSUME CpuInv, S!ReadStat PROVE CpuInv'
<1>1. cs' = S!Stat /\ UNCHANGED <<begun, prevStat, vm, used, csv>>
  BY DEF S!ReadStat, S!host
<1>2. S!Cpus' = S!Cpus /\ Total(S!Cpus)' = Total(S!Cpus)
  BY <1>1, AddedNext DEF S!Cpus
<1>3. /\ used["cpu"] \in Nat /\ used.cpu = used["cpu"]
      /\ S!Stat = IF vm = "gone" THEN NoValue ELSE used["cpu"]
  BY DEF CpuInv, BytesInv, ProcType, S!Stat
<1>4. CpuSum'
  BY <1>1, <1>2, <1>3, NoValueAssumption DEF CpuInv, CpuSum
<1>5. BytesInv'
  BY ReadingBytes DEF CpuInv
<1> QED BY <1>1, <1>4, <1>5 DEF CpuInv

\* A row has the time since the reading of the row before, or none if one of them failed.
LEMMA WriteRowCpu == ASSUME CpuInv, S!WriteRow PROVE CpuInv'
<1> DEFINE old == csv["proc"]
           pct == S!CpuPct(prevStat, cs)
           added == [cpu |-> pct, net |-> net - prevNet, mem |-> st]
<1>1. /\ csv' = [csv EXCEPT !["proc"] = Append(old, added)]
      /\ prevStat' = cs /\ UNCHANGED <<begun, vm, used, cs>>
      /\ \E to : to \in {"done", "sleep"} /\ S!Goes("proc", "write", to)
  BY DEF S!WriteRow, S!host
<1>2. step["proc"] = "write" /\ step'["proc"] \in {"done", "sleep"}
  BY <1>1, StepOf DEF CpuInv, BytesInv, S!Collectors
<1>3. csv'["proc"] = Append(old, added) /\ old \in Seq(ProcRow) /\ cs \in Reads /\ prevStat \in Reads
  BY <1>1 DEF CpuInv, BytesInv, ProcType, S!Collectors
<1>4. pct \in Int /\ added.cpu = pct
  BY <1>3 DEF Reads, S!CpuPct
<1> HIDE DEF added, pct
<1>5. /\ Len(old) \in Nat /\ DOMAIN old = 1..Len(old)
      /\ DOMAIN Append(old, added) = 1..(Len(old) + 1)
      /\ Append(old, added)[Len(old) + 1] = added
      /\ \A i \in 1..Len(old) : Append(old, added)[i] = old[i]
  BY <1>3
<1>6. S!Cpus \in Seq(Int) /\ Len(S!Cpus) = Len(old) /\ Total(S!Cpus) \in Int
      /\ \A i \in 1..Len(old) : S!Cpus[i] = old[i].cpu
  <2>1. S!Cpus \in Seq(Int) /\ Total(S!Cpus) \in Int
    BY CpusType DEF CpuInv, BytesInv
  <2>2. DOMAIN S!Cpus = 1..Len(old) /\ \A i \in 1..Len(old) : S!Cpus[i] = old[i].cpu
    BY <1>5 DEF S!Cpus
  <2> QED BY <1>5, <2>1, <2>2
<1> HIDE DEF old
<1>7. S!Cpus' = Append(S!Cpus, pct)
  <2>1. S!Cpus' = [i \in 1..(Len(old) + 1) |-> Append(old, added)[i].cpu]
    BY <1>3, <1>5 DEF S!Cpus
  <2>2. \A i \in 1..(Len(old) + 1) :
          Append(old, added)[i].cpu = IF i = Len(old) + 1 THEN pct ELSE S!Cpus[i]
    BY <1>4, <1>5, <1>6
  <2>3. DOMAIN S!Cpus' = 1..(Len(S!Cpus) + 1) /\ S!Cpus'[Len(S!Cpus) + 1] = pct
        /\ \A i \in 1..Len(S!Cpus) : S!Cpus'[i] = S!Cpus[i]
    BY <1>5, <1>6, <2>1, <2>2
  <2>4. S!Cpus' \in Seq(Int)
    <3>1. S!Cpus' \in [1..(Len(old) + 1) -> Int]
      BY <1>4, <1>5, <1>6, <2>1, <2>2
    <3> QED BY <1>5, <3>1
  <2> QED BY <1>4, <1>6, <2>3, <2>4, AppendIs
<1>8. Total(S!Cpus)' = Total(S!Cpus) + pct
  BY <1>4, <1>6, <1>7, TotalAppend, AddedNext
<1>9. CpuSum'
  <2> SUFFICES ASSUME begun # NoValue
               PROVE  /\ cs # NoValue =>
                           begun <= cs /\ cs <= used["cpu"] /\ Total(S!Cpus) + pct = cs - begun
                      /\ cs = NoValue =>
                           vm = "gone" /\ 0 <= Total(S!Cpus) + pct /\ Total(S!Cpus) + pct <= used["cpu"] - begun
    BY <1>1, <1>2, <1>8 DEF CpuSum, StatRead
  <2>1. begun \in Nat /\ used["cpu"] \in Nat
    BY DEF CpuInv, BytesInv, ProcType, Reads
  <2>2. CASE cs # NoValue
    <3>1. prevStat \in Nat /\ cs \in Nat /\ prevStat # NoValue
      BY <1>2, <1>3, <2>2 DEF CpuInv, CpuSum, StatRead, Reads
    <3>2. pct = cs - prevStat
      BY <2>2, <3>1 DEF pct, S!CpuPct
    <3>3. begun <= prevStat /\ Total(S!Cpus) = prevStat - begun /\ prevStat <= cs /\ cs <= used["cpu"]
      BY <1>2, <2>2, <3>1 DEF CpuInv, CpuSum, StatRead
    <3> QED BY <1>6, <2>1, <2>2, <3>1, <3>2, <3>3
  <2>3. CASE cs = NoValue
    <3>1. pct = 0 /\ vm = "gone"
      BY <1>2, <2>3 DEF pct, S!CpuPct, CpuInv, CpuSum, StatRead
    <3>2. 0 <= Total(S!Cpus) /\ Total(S!Cpus) <= used["cpu"] - begun
      <4>1. CASE prevStat = NoValue
        BY <4>1 DEF CpuInv, CpuSum
      <4>2. CASE prevStat # NoValue
        <5>1. prevStat \in Nat /\ begun <= prevStat /\ prevStat <= used["cpu"]
              /\ Total(S!Cpus) = prevStat - begun
          BY <1>3, <4>2 DEF CpuInv, CpuSum, Reads
        <5> QED BY <2>1, <5>1
      <4> QED BY <4>1, <4>2
    <3> QED BY <1>6, <2>3, <3>1, <3>2
  <2> QED BY <2>2, <2>3
<1>10. BytesInv'
  BY WriteRowKeeps DEF CpuInv
<1> QED BY <1>1, <1>9, <1>10 DEF CpuInv

LEMMA CpuStep == CpuInv /\ [S!Next]_vmVars => CpuInv'
<1> SUFFICES ASSUME CpuInv, [S!Next]_vmVars PROVE CpuInv'
  OBVIOUS
<1>1. CASE UNCHANGED vmVars
  <2>1. used["cpu"] \in Nat /\ BytesInv'
    BY <1>1, BytesStep DEF CpuInv, BytesInv, ProcType
  <2> QED BY <1>1, <2>1, CpuAside DEF vmVars, StatRead
<1>2. CASE S!HostStep \/ S!PressureStep
  BY <1>2, HostCpu, PressureCpu
<1>3. CASE S!ProcStep
  BY <1>3, OtherReads, PrevStatCpu, ReadStatCpu, WriteRowCpu DEF S!ProcStep
<1> QED BY <1>1, <1>2, <1>3 DEF S!Next

\* The rows of proc.csv add up to the CPU time the VM used between the first reading and
\* the last that succeeded, and take its bytes back at most once, for any number of rows
\* and a VM that exits, and is reaped, between any two reads.
THEOREM ProcRowsAddUp == S!Spec => []ProcAddsUp
<1>1. S!Init => CpuInv
  BY InitBytes DEF CpuInv, CpuSum, Reads, S!Init
<1>2. CpuInv /\ [S!Next]_(S!vars) => CpuInv'
  BY CpuStep DEF vmVars, S!vars, S!host, S!proc, S!pressure
<1>3. CpuInv => S!BackOnce
  BY TakenBackOnce DEF CpuInv
<1>4. CpuInv => ProcAddsUp
  <2>1. used["cpu"] = used.cpu
    OBVIOUS
  <2> QED BY <1>3, <2>1, SumIsAdded DEF CpuInv, CpuSum, ProcAddsUp, S!ProcAddsUp
<1> QED BY <1>1, <1>2, <1>4, PTL DEF S!Spec

=============================================================================
