---------------------------- MODULE EnergyMeter ----------------------------
(***************************************************************************)
(* fc_rapl.py and fc_arm_power.py: watts from energy counters.  A counter  *)
(* only grows and starts again at zero past its range; its file may go and *)
(* come back.  At every sample a collector takes the difference of two     *)
(* readings, adding 2^32 when it is negative, as the energy of the         *)
(* interval, whatever the counter's range is.  Energy is counted in units, *)
(* an interval is one sample.                                              *)
(***************************************************************************)
EXTENDS Integers, FiniteSets

CONSTANTS
  Domains,  \* energy counters in sysfs, in the order of their paths
  Names,    \* what their name files hold
  NameOf,   \* of each domain; two may have the same
  EnergyRange,  \* where the hardware's counter wraps, max_energy_range_uj
  Wrap,     \* where the code takes it to wrap, 2^32
  MaxStep,  \* the most a domain consumes between two samples
  NoValue   \* no reading, no entry in a row

ASSUME DomainsAssumption ==
  Domains \subseteq Nat /\ IsFiniteSet(Domains) /\ NameOf \in [Domains -> Names] /\ \A n \in Names : \E d \in Domains : NameOf[d] = n
ASSUME RangeAssumption == EnergyRange \in Nat \ {0} /\ Wrap \in Nat /\ MaxStep \in Nat /\ MaxStep < EnergyRange
ASSUME NoValueAssumption == NoValue \notin Int

VARIABLES
  kind,     \* "rapl" or "arm": which of the two runs
  doms,     \* fc_rapl.py's domains(): one file for a name
  counter,  \* what each counter shows
  spent,    \* history: energy used since the last sample
  present,  \* domains whose file can be read
  prev,     \* the reading a name's next difference is taken from
  row,      \* the energy of the last row, for each name
  wrapped,  \* history: domains whose counter has started again since the last sample
  owed,     \* history: the energy of the interval the entry is about
  across    \* history: did the counter start again in that interval?

meterVars == <<kind, doms, counter, spent, present, prev, row, wrapped, owed, across>>
history == <<wrapped, owed, across>>

\* fc_rapl.py keeps one file for each name, fc_arm_power.py goes through them all.
Watched(n) == IF kind = "rapl" THEN {doms[n]} ELSE {d \in Domains : NameOf[d] = n}

Reading(d) == IF d \in present THEN counter[d] ELSE NoValue

Latest(S) == CHOOSE d \in S : \A e \in S : e <= d

\* The listing of a directory has no order, so any file of a name may come last.
MeterInit ==
  /\ kind \in {"rapl", "arm"}
  /\ doms \in [Names -> Domains] /\ \A n \in Names : NameOf[doms[n]] = n
  /\ counter \in [Domains -> 0..(EnergyRange - 1)]
  /\ spent = [d \in Domains |-> 0]
  /\ present = Domains
  /\ prev = [n \in Names |-> Reading(Latest(Watched(n)))]
  /\ row  = [n \in Names |-> NoValue]
  /\ wrapped = {}
  /\ owed   = [n \in Names |-> 0]
  /\ across = [n \in Names |-> FALSE]

(***************************************************************************)
(* The host.                                                               *)
(***************************************************************************)
Consume(d) ==
  /\ spent[d] < MaxStep
  /\ counter' = [counter EXCEPT ![d] = IF @ = EnergyRange - 1 THEN 0 ELSE @ + 1]
  /\ spent'   = [spent EXCEPT ![d] = @ + 1]
  /\ wrapped' = IF counter[d] = EnergyRange - 1 THEN wrapped \cup {d} ELSE wrapped
  /\ UNCHANGED <<kind, doms, present, prev, row, owed, across>>

Appear(d) ==
  /\ d \notin present
  /\ present' = present \cup {d}
  /\ UNCHANGED <<kind, doms, counter, spent, prev, row, history>>

Disappear(d) ==
  /\ d \in present
  /\ present' = present \ {d}
  /\ UNCHANGED <<kind, doms, counter, spent, prev, row, history>>

(***************************************************************************)
(* A sample.                                                               *)
(***************************************************************************)
Delta(new, old) == IF new < old THEN new - old + Wrap ELSE new - old

\* The readings of one name overwrite each other in the order of the sensors.
Base(d) ==
  LET prior == {e \in Watched(NameOf[d]) : e < d}
  IN  IF prior = {} THEN prev[NameOf[d]] ELSE Reading(Latest(prior))

Rated(n) == {d \in Watched(n) : Reading(d) # NoValue /\ Base(d) # NoValue}

\* Mutant: only what could be read is remembered, prev.update(curr).
Remember_Update(n) ==
  LET v == Reading(Latest(Watched(n))) IN IF v = NoValue THEN prev[n] ELSE v

Remember(n) == Reading(Latest(Watched(n)))

Sample ==
  /\ row'  = [n \in Names |->
                IF Rated(n) = {} THEN NoValue
                ELSE LET d == Latest(Rated(n)) IN Delta(Reading(d), Base(d))]
  /\ owed'   = [n \in Names |-> IF Rated(n) = {} THEN 0 ELSE spent[Latest(Rated(n))]]
  /\ across' = [n \in Names |-> Rated(n) # {} /\ Latest(Rated(n)) \in wrapped]
  /\ prev'   = [n \in Names |-> Remember(n)]
  /\ spent'  = [d \in Domains |-> 0]
  /\ wrapped' = {}
  /\ UNCHANGED <<kind, doms, counter, present>>

MeterNext == Sample \/ \E d \in Domains : Consume(d) \/ Appear(d) \/ Disappear(d)

MeterSpec == MeterInit /\ [][MeterNext]_meterVars
----------------------------------------------------------------------------
\* Every variable has its type.
MeterTypeOK ==
  /\ kind \in {"rapl", "arm"} /\ doms \in [Names -> Domains]
  /\ counter \in [Domains -> 0..(EnergyRange - 1)] /\ spent \in [Domains -> 0..MaxStep]
  /\ present \subseteq Domains
  /\ prev \in [Names -> 0..(EnergyRange - 1) \cup {NoValue}]
  /\ row \in [Names -> Int \cup {NoValue}]
  /\ wrapped \subseteq Domains
  /\ owed \in [Names -> 0..MaxStep] /\ across \in [Names -> BOOLEAN]

\* One counter stands behind the column of n.
Single(n) == kind = "rapl" \/ Cardinality(Watched(n)) = 1

\* Where one counter stands behind a column, an entry of it is the energy used in the
\* entry's own interval, whichever samples before could not be read; a counter that
\* starts again spoils the entry of that interval alone, and by what its range differs
\* from 2^32, never by what was used before or after.
RowsAreTrue ==
  \A n \in Names : row[n] # NoValue /\ Single(n) =>
    row[n] = owed[n] + (IF across[n] THEN Wrap - EnergyRange ELSE 0)
=============================================================================
