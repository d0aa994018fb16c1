---------------------------- MODULE ClientsProofs ----------------------------
(***************************************************************************)
(* Proofs about the clients of a fleet: the records and the reports of     *)
(* SaafDriver, for any number of endpoints, runs and iterations and any    *)
(* payloads, and the exit code of Invoke, for any set of instances.        *)
(***************************************************************************)
EXTENDS Clients, FiniteSetTheorems, Induction

Entry == [iteration : Nat, endpoint : Eps, run : Nat, slot : Nat]

DriverTypeOK ==
  /\ phase \in {"start", "iterate", "run", "report", "combine", "exit"}
  /\ it \in Nat
  /\ next \in [Eps -> Nat] /\ call \in [Eps -> {"none", "waiting"}]
  /\ results \in Seq(Entry) /\ all \in Seq(Seq(Entry))

\* A thread is within its slice while the pool is up, and through with it otherwise.
ThreadsInSlices ==
  /\ \A e \in Eps : next[e] <= RunsPerEndpoint /\ (call[e] = "waiting" => next[e] < RunsPerEndpoint)
  /\ phase # "run" => PoolDone

\* A record is of a run its thread is through with, answered by a benchmark; and no
\* run has two.
Recorded ==
  /\ \A i \in DOMAIN results :
       LET r == results[i]
       IN  /\ r.run < next[r.endpoint] /\ r.slot = Slot(r.endpoint, r.run)
           /\ list[r.slot] \in Benchmarks
  /\ \A i, j \in DOMAIN results :
       results[i].endpoint = results[j].endpoint /\ results[i].run = results[j].run => i = j
  /\ phase = "start" => results = <<>>

RecordsInv == DriverTypeOK /\ ThreadsInSlices /\ Recorded

----------------------------------------------------------------------------
LEMMA RunsAreNatural == RunsPerEndpoint \in Nat /\ Eps \subseteq Nat
BY RunsAssumption, EndpointsAssumption DEF RunsPerEndpoint, Eps

\* The slices of the endpoints are disjoint, and within the payloads to be called.
LEMMA SlotsApart ==
  ASSUME NEW d \in Eps, NEW e \in Eps, NEW q \in Nat, NEW r \in Nat,
         q < RunsPerEndpoint, r < RunsPerEndpoint
  PROVE  /\ Slot(d, q) = Slot(e, r) => d = e /\ q = r
         /\ Slot(e, r) \in Nat /\ Slot(e, r) < RunsPerEndpoint * Endpoints
<1> DEFINE R == RunsPerEndpoint
<1>1. R \in Nat /\ d \in Nat /\ e \in Nat /\ e <= Endpoints - 1 /\ Endpoints \in Nat
  BY RunsAreNatural, EndpointsAssumption DEF Eps
<1>2. Slot(d, q) = d * R + q /\ Slot(e, r) = e * R + r
  BY DEF Slot
<1> HIDE DEF R
<1>3. \A a, b \in Nat : a <= b => a * R <= b * R
  BY <1>1
<1>4. d * R \in Nat /\ e * R \in Nat /\ (d + 1) * R = d * R + R /\ (e + 1) * R = e * R + R
  BY <1>1
<1>5. d < e => (d + 1) * R <= e * R
  BY <1>1, <1>3
<1>6. e < d => (e + 1) * R <= d * R
  BY <1>1, <1>3
<1>7. q < R /\ r < R
  BY DEF R
<1>8. ~(d < e) /\ ~(e < d) => d = e
  BY <1>1
<1>9. ASSUME d * R + q = e * R + r PROVE d = e /\ q = r
  BY <1>1, <1>4, <1>5, <1>6, <1>7, <1>8, <1>9
<1>10. (e + 1) * R <= Endpoints * R /\ Endpoints * R \in Nat /\ Endpoints * R = R * Endpoints
  BY <1>1, <1>3
<1>11. e * R + r \in Nat /\ e * R + r < R * Endpoints
  BY <1>1, <1>4, <1>7, <1>10
<1> QED BY <1>2, <1>9, <1>11 DEF R

LEMMA InitRecords == DriverInit => RecordsInv
<1> SUFFICES ASSUME DriverInit PROVE RecordsInv
  OBVIOUS
<1>1. DriverTypeOK
  BY RunsAreNatural DEF DriverInit, DriverTypeOK
<1>2. ThreadsInSlices
  BY RunsAreNatural DEF DriverInit, ThreadsInSlices, PoolDone, Idle
<1>3. Recorded
  BY DEF DriverInit, Recorded
<1> QED BY <1>1, <1>2, <1>3 DEF RecordsInv

\* The main thread starts a list of records or leaves it alone.
LEMMA MainKeepsRecords ==
  ASSUME RecordsInv, Main
  PROVE  RecordsInv'
<1> USE DEF RecordsInv
<1>1. CASE Start
  <2>1. results = <<>> /\ UNCHANGED <<it, next, call, results, all>>
    BY <1>1 DEF Start, Recorded
  <2>2. phase' \in {"iterate", "exit"} /\ phase = "start"
    BY <1>1 DEF Start
  <2>3. DriverTypeOK'
    BY <2>1, <2>2 DEF DriverTypeOK
  <2>4. ThreadsInSlices'
    BY <2>1, <2>2 DEF ThreadsInSlices, PoolDone, Idle
  <2>5. Recorded'
    BY <2>1, <2>2 DEF Recorded
  <2> QED BY <2>3, <2>4, <2>5
<1>2. CASE BeginIteration
  <2>1. DriverTypeOK'
    BY <1>2 DEF BeginIteration, DriverTypeOK
  <2>2. \A e \in Eps : call[e] = "none"
    BY <1>2 DEF BeginIteration, ThreadsInSlices, PoolDone, Idle
  <2>3. ThreadsInSlices'
    BY <1>2, <2>2, RunsAreNatural DEF BeginIteration, ThreadsInSlices
  <2>4. Recorded'
    BY <1>2 DEF BeginIteration, Recorded
  <2> QED BY <2>1, <2>3, <2>4
<1>3. CASE EndIteration \/ Report \/ Combine \/ Exit
  <2>1. /\ UNCHANGED <<list, next, call, results>>
        /\ phase # "start" /\ phase' \in {"iterate", "report", "combine", "exit"}
        /\ PoolDone
    <3>1. CASE EndIteration
      BY <3>1 DEF EndIteration
    <3>2. CASE Report \/ Combine \/ Exit
      BY <3>2 DEF Report, Combine, Exit, ThreadsInSlices
    <3> QED BY <1>3, <3>1, <3>2
  <2>2. it' \in Nat /\ all' \in Seq(Seq(Entry))
    <3>1. CASE EndIteration
      BY <3>1 DEF EndIteration, DriverTypeOK
    <3>2. CASE Report \/ Combine \/ Exit
      BY <3>2 DEF Report, Combine, Exit, DriverTypeOK
    <3> QED BY <1>3, <3>1, <3>2
  <2>3. DriverTypeOK'
    BY <2>1, <2>2 DEF DriverTypeOK
  <2>4. ThreadsInSlices'
    BY <2>1 DEF ThreadsInSlices, PoolDone, Idle
  <2>5. Recorded'
    BY <2>1 DEF Recorded
  <2> QED BY <2>3, <2>4, <2>5
<1> QED BY <1>1, <1>2, <1>3 DEF Main

\* A record stays one when its thread goes on.
LEMMA Later ==
  ASSUME Recorded, NEW i \in DOMAIN results, results[i] \in Entry,
         next \in [Eps -> Nat], next' \in [Eps -> Nat], \A d \in Eps : next[d] <= next'[d]
  PROVE  /\ results[i].run < next'[results[i].endpoint]
         /\ results[i].slot = Slot(results[i].endpoint, results[i].run)
         /\ list[results[i].slot] \in Benchmarks
<1> DEFINE d == results[i].endpoint
           q == results[i].run
<1>1. d \in Eps /\ q \in Nat /\ next[d] \in Nat /\ next'[d] \in Nat /\ next[d] <= next'[d]
  BY DEF Entry
<1>2. q < next[d]
  BY DEF Recorded
<1>3. q < next'[d]
  BY <1>1, <1>2
<1>4. results[i].slot = Slot(d, q) /\ list[results[i].slot] \in Benchmarks
  BY DEF Recorded
<1> QED BY <1>3, <1>4

\* An answer that is usable adds a record, of the run its thread has waited for.
LEMMA AnswerKeepsRecords ==
  ASSUME RecordsInv, NEW e \in Eps, call[e] = "waiting",
         call' = [call EXCEPT ![e] = "none"], next' = [next EXCEPT ![e] = @ + 1],
         UNCHANGED <<phase, list, it, all>>,
         \/ results' = results
         \/ /\ results' = Append(results, Record(e, next[e]))
            /\ list[Slot(e, next[e])] \in Benchmarks
  PROVE  RecordsInv'
<1> USE DEF RecordsInv
<1>1. next[e] \in Nat /\ next[e] < RunsPerEndpoint /\ phase = "run"
  BY DEF DriverTypeOK, ThreadsInSlices, PoolDone, Idle
<1>2. Record(e, next[e]) \in Entry
  <2>1. Slot(e, next[e]) \in Nat /\ it \in Nat
    BY <1>1, SlotsApart DEF DriverTypeOK
  <2> QED BY <1>1, <2>1 DEF Record, Entry
<1>3. DriverTypeOK'
  <2>1. next' \in [Eps -> Nat] /\ call' \in [Eps -> {"none", "waiting"}]
    BY <1>1 DEF DriverTypeOK
  <2>2. results' \in Seq(Entry)
    <3>1. results \in Seq(Entry)
      BY DEF DriverTypeOK
    <3>2. \A s, x : s \in Seq(Entry) /\ x \in Entry => Append(s, x) \in Seq(Entry)
      OBVIOUS
    <3> HIDE DEF RecordsInv
    <3> QED BY <3>1, <3>2, <1>2
  <2> QED BY <2>1, <2>2 DEF DriverTypeOK
<1>4. ThreadsInSlices'
  BY <1>1, RunsAreNatural DEF DriverTypeOK, ThreadsInSlices
<1>5. \A d \in Eps : next[d] <= next'[d]
  BY <1>1 DEF DriverTypeOK
<1>6. \A i \in DOMAIN results : results[i] \in Entry
  BY DEF DriverTypeOK
<1>7. \A d, q : Slot(d, q)' = Slot(d, q)
  BY DEF Slot
<1>8. \A i \in DOMAIN results :
        /\ results[i].run < next'[results[i].endpoint]
        /\ results[i].slot = Slot(results[i].endpoint, results[i].run)
        /\ list[results[i].slot] \in Benchmarks
  BY <1>3, <1>5, <1>6, Later DEF DriverTypeOK
<1>9. CASE results' = results
  BY <1>1, <1>3, <1>4, <1>7, <1>8, <1>9 DEF Recorded
<1>10. CASE /\ results' = Append(results, Record(e, next[e]))
            /\ list[Slot(e, next[e])] \in Benchmarks
  <2> DEFINE n == Len(results)
             r == Record(e, next[e])
  <2>1. /\ n \in Nat /\ DOMAIN results = 1..n /\ DOMAIN results' = 1..(n + 1)
        /\ \A i \in 1..n : results'[i] = results[i]
        /\ results'[n + 1] = r
    BY <1>2, <1>10 DEF DriverTypeOK
  <2>2. r.endpoint = e /\ r.run = next[e] /\ r.slot = Slot(e, next[e])
    BY DEF Record
  <2>3. next'[e] = next[e] + 1
    BY DEF DriverTypeOK
  <2> HIDE DEF n, r
  <2>4. ASSUME NEW i \in DOMAIN results'
        PROVE  /\ results'[i].run < next'[results'[i].endpoint]
               /\ results'[i].slot = Slot(results'[i].endpoint, results'[i].run)
               /\ list[results'[i].slot] \in Benchmarks
    <3>1. CASE i \in 1..n
      BY <3>1, <2>1, <1>8
    <3>2. CASE i = n + 1
      BY <3>2, <2>1, <2>2, <2>3, <1>1, <1>10
    <3> QED BY <2>1, <2>4, <3>1, <3>2
  <2>5. ASSUME NEW i \in 1..n PROVE ~(results[i].endpoint = e /\ results[i].run = next[e])
    <3>1. results[i].run < next[results[i].endpoint] /\ results[i] \in Entry
      BY <2>1, <1>6 DEF Recorded
    <3> QED BY <3>1, <1>1 DEF Entry
  <2>6. ASSUME NEW i \in DOMAIN results', NEW j \in DOMAIN results',
               results'[i].endpoint = results'[j].endpoint, results'[i].run = results'[j].run
        PROVE  i = j
    BY <2>1, <2>2, <2>5, <2>6 DEF Recorded
  <2> QED BY <1>1, <1>3, <1>4, <1>7, <2>4, <2>6 DEF Recorded
<1> QED BY <1>3, <1>4, <1>9, <1>10

LEMMA ThreadsKeepRecords ==
  ASSUME RecordsInv, NEW e \in Eps, Post(e) \/ Refused(e) \/ Timeout(e) \/ Answer(e)
  PROVE  RecordsInv'
<1> USE DEF RecordsInv
<1>1. CASE Post(e)
  <2>1. DriverTypeOK' /\ ThreadsInSlices'
    BY <1>1, RunsAreNatural DEF Post, Working, DriverTypeOK, ThreadsInSlices, PoolDone, Idle
  <2>2. Recorded'
    BY <1>1 DEF Post, Recorded
  <2> QED BY <2>1, <2>2
<1>2. CASE Refused(e)
  <2>1. DriverTypeOK' /\ ThreadsInSlices'
    BY <1>2, RunsAreNatural DEF Refused, Working, DriverTypeOK, ThreadsInSlices, PoolDone, Idle
  <2>2. \A i \in DOMAIN results : results[i] \in Entry
    BY DEF DriverTypeOK
  <2>3. \A d \in Eps : next[d] <= next'[d]
    BY <1>2 DEF Refused, DriverTypeOK
  <2>4. UNCHANGED <<phase, list, results>>
    BY <1>2 DEF Refused
  <2>5. \A d, q : Slot(d, q)' = Slot(d, q)
    BY DEF Slot
  <2>6. \A i \in DOMAIN results :
          /\ results[i].run < next'[results[i].endpoint]
          /\ results[i].slot = Slot(results[i].endpoint, results[i].run)
          /\ list[results[i].slot] \in Benchmarks
    BY <2>1, <2>2, <2>3, Later DEF DriverTypeOK
  <2>7. Recorded'
    BY <2>4, <2>5, <2>6 DEF Recorded
  <2> QED BY <2>1, <2>7
<1>3. CASE Timeout(e)
  BY <1>3, AnswerKeepsRecords DEF Timeout
<1>4. CASE Answer(e)
  <2>1. CASE call[e] = "waiting" /\ Len(guest[e]) = 1
    <3>1. PICK a \in Answers(list[Slot(e, next[e])]) :
             results' = IF Usable(a) THEN Append(results, Record(e, next[e])) ELSE results
      BY <1>4, <2>1 DEF Answer
    <3>2. Usable(a) => list[Slot(e, next[e])] \in Benchmarks
      BY DEF Usable, Answers, Dispatched
    <3>3. /\ call' = [call EXCEPT ![e] = "none"] /\ next' = [next EXCEPT ![e] = @ + 1]
          /\ UNCHANGED <<phase, list, it, all>>
      BY <1>4, <2>1 DEF Answer
    <3> QED BY <2>1, <3>1, <3>2, <3>3, AnswerKeepsRecords
  <2>2. CASE ~(call[e] = "waiting" /\ Len(guest[e]) = 1)
    <3>1. UNCHANGED <<phase, list, it, all, call, next, results>>
      BY <1>4, <2>2 DEF Answer
    <3> QED BY <3>1 DEF DriverTypeOK, ThreadsInSlices, PoolDone, Idle, Recorded
  <2> QED BY <2>1, <2>2
<1> QED BY <1>1, <1>2, <1>3, <1>4

LEMMA Records == DriverSpec => []RecordsInv
<1>1. RecordsInv /\ [DriverNext]_driverVars => RecordsInv'
  <2> SUFFICES ASSUME RecordsInv, [DriverNext]_driverVars PROVE RecordsInv'
    OBVIOUS
  <2>1. CASE UNCHANGED driverVars
    BY <2>1 DEF driverVars, RecordsInv, DriverTypeOK, ThreadsInSlices, PoolDone, Idle, Recorded
  <2>2. CASE DriverNext
    BY <2>2, MainKeepsRecords, ThreadsKeepRecords DEF DriverNext
  <2> QED BY <2>1, <2>2
<1> QED BY <1>1, InitRecords, PTL DEF DriverSpec

----------------------------------------------------------------------------
\* The iteration the main thread is at, its records, and those of the ones before.
Iterating ==
  /\ it <= Iterations /\ (phase \in {"run", "report"} => it < Iterations)
  /\ Len(all) = IF phase = "report" THEN it + 1 ELSE it
  /\ phase \in {"run", "report"} => \A i \in DOMAIN results : results[i].iteration = it
  /\ phase = "report" => all[it + 1] = results
  /\ phase = "iterate" /\ it > 0 => all[it] = results
  /\ phase = "start" => it = 0

\* A report is the records of its iteration, and no later step touches it.
Reported ==
  \A i \in DOMAIN reports \ {Combined} :
    /\ i \in Nat /\ i < it
    /\ reports[i] = all[i + 1]
    /\ \A j \in DOMAIN reports[i] : reports[i][j].iteration = i

ReportsInv == RecordsInv /\ Iterating /\ Reported

LEMMA InitReports == DriverInit => ReportsInv
<1> SUFFICES ASSUME DriverInit PROVE ReportsInv
  OBVIOUS
<1>1. Iterating /\ Reported
  BY IterationsAssumption DEF DriverInit, Iterating, Reported
<1> QED BY <1>1, InitRecords DEF ReportsInv

LEMMA MainKeepsReports ==
  ASSUME ReportsInv, Main, RecordsInv'
  PROVE  ReportsInv'
<1> USE DEF ReportsInv
<1>1. it \in Nat /\ Iterations \in Nat /\ all \in Seq(Seq(Entry)) /\ results \in Seq(Entry)
  BY IterationsAssumption DEF RecordsInv, DriverTypeOK
<1>2. CASE Start
  <2>1. /\ phase = "start" /\ phase' \in {"iterate", "exit"} /\ results = <<>>
        /\ UNCHANGED <<it, results, all, reports>>
    BY <1>2 DEF Start, RecordsInv, Recorded
  <2>2. it = 0
    BY <2>1 DEF Iterating
  <2>3. Iterating'
    BY <1>1, <2>1, <2>2 DEF Iterating
  <2>4. Reported'
    BY <2>1 DEF Reported, Combined
  <2> QED BY <2>3, <2>4
<1>3. CASE BeginIteration
  <2>1. Iterating'
    BY <1>1, <1>3 DEF BeginIteration, Iterating
  <2>2. Reported'
    BY <1>3 DEF BeginIteration, Reported
  <2> QED BY <2>1, <2>2
<1>4. CASE EndIteration
  <2>1. /\ phase = "run" /\ phase' = "report" /\ all' = Append(all, results)
        /\ UNCHANGED <<it, results, reports>>
    BY <1>4 DEF EndIteration
  <2>2. Len(all) = it /\ Len(all') = it + 1 /\ all'[it + 1] = results
        /\ \A i \in 1..it : all'[i] = all[i]
    BY <1>1, <2>1 DEF Iterating
  <2>3. Iterating'
    BY <1>1, <2>1, <2>2 DEF Iterating
  <2>4. ASSUME NEW i \in DOMAIN reports \ {Combined}
        PROVE  i \in Nat /\ i < it /\ reports[i] = all'[i + 1]
    BY <1>1, <2>2, <2>4 DEF Reported
  <2>5. Reported'
    BY <2>1, <2>4 DEF Reported, Combined
  <2> QED BY <2>3, <2>5
<1>5. CASE Report
  <2>1. /\ phase = "report" /\ phase' = "iterate" /\ it' = it + 1
        /\ UNCHANGED <<results, all>>
        /\ reports' = IF results = <<>> THEN reports
                      ELSE [i \in DOMAIN reports \cup {it} |->
                              IF i = it THEN results ELSE reports[i]]
    BY <1>5 DEF Report
  <2>2. /\ it < Iterations /\ Len(all) = it + 1 /\ all[it + 1] = results
        /\ \A i \in DOMAIN results : results[i].iteration = it
    BY <2>1 DEF Iterating
  <2>3. Iterating'
    BY <1>1, <2>1, <2>2 DEF Iterating
  <2>4. Reported'
    BY <1>1, <2>1, <2>2 DEF Reported, Combined
  <2> QED BY <2>3, <2>4
<1>6. CASE Combine \/ Exit
  <2>1. /\ phase \in {"iterate", "combine"} /\ phase' \in {"combine", "exit"}
        /\ UNCHANGED <<it, results, all>>
    BY <1>6 DEF Combine, Exit
  <2>2. \A i \in DOMAIN reports' \ {Combined} : i \in DOMAIN reports /\ reports'[i] = reports[i]
    BY <1>6 DEF Combine, Exit
  <2>3. Iterating'
    BY <2>1 DEF Iterating
  <2>4. Reported'
    BY <2>1, <2>2 DEF Reported, Combined
  <2> QED BY <2>3, <2>4
<1> QED BY <1>2, <1>3, <1>4, <1>5, <1>6 DEF Main

LEMMA ThreadsKeepReports ==
  ASSUME ReportsInv, NEW e \in Eps, Post(e) \/ Refused(e) \/ Timeout(e) \/ Answer(e), RecordsInv'
  PROVE  ReportsInv'
<1> USE DEF ReportsInv
<1>1. UNCHANGED <<phase, it, all, reports>>
  BY DEF Post, Refused, Timeout, Answer
<1>2. Reported'
  BY <1>1 DEF Reported, Combined
<1>3. CASE UNCHANGED results
  BY <1>1, <1>2, <1>3 DEF Iterating
<1>4. CASE call[e] = "waiting" /\ results' = Append(results, Record(e, next[e]))
  <2>1. phase = "run"
    BY <1>4 DEF RecordsInv, ThreadsInSlices, PoolDone, Idle
  <2>2. results \in Seq(Entry) /\ Record(e, next[e]).iteration = it
    BY DEF RecordsInv, DriverTypeOK, Record
  <2>3. \A i \in DOMAIN results' :
          (i \in DOMAIN results /\ results'[i] = results[i]) \/ results'[i] = Record(e, next[e])
    BY <1>4, <2>2
  <2>4. \A i \in DOMAIN results' : results'[i].iteration = it
    BY <2>1, <2>2, <2>3 DEF Iterating
  <2> QED BY <1>1, <1>2, <2>1, <2>4 DEF Iterating
<1> QED BY <1>3, <1>4 DEF Post, Refused, Timeout, Answer

LEMMA ReportsAre == DriverSpec => []ReportsInv
<1>1. ReportsInv /\ [DriverNext]_driverVars => ReportsInv'
  <2> SUFFICES ASSUME ReportsInv, [DriverNext]_driverVars PROVE ReportsInv'
    OBVIOUS
  <2>1. CASE UNCHANGED driverVars
    BY <2>1 DEF driverVars, ReportsInv, RecordsInv, DriverTypeOK, ThreadsInSlices, PoolDone, Idle,
                Recorded, Iterating, Reported, Combined
  <2>2. CASE Main
    BY <2>2, MainKeepsRecords, MainKeepsReports DEF ReportsInv
  <2>3. ASSUME NEW e \in Eps, Post(e) \/ Refused(e) \/ Timeout(e) \/ Answer(e) PROVE ReportsInv'
    BY <2>3, ThreadsKeepRecords, ThreadsKeepReports DEF ReportsInv
  <2> QED BY <2>1, <2>2, <2>3 DEF DriverNext
<1> QED BY <1>1, InitReports, PTL DEF DriverSpec

\* A report that saaf_driver.py has written holds the answers of its own iteration, all
\* of them and none that came late from an earlier one: leaving the pool's `with` block
\* waits for every thread, and an answer nobody waits for any more is lost.
THEOREM Reports == DriverSpec => []ReportsComplete
<1>1. ReportsInv => ReportsComplete
  <2> SUFFICES ASSUME ReportsInv, NEW i \in DOMAIN reports \ {Combined}
               PROVE  /\ reports[i] = all[i + 1]
                      /\ \A r \in Elements(reports[i]) : r.iteration = i
                      /\ it = i + 1 /\ phase = "iterate" => reports[i] = results
    BY DEF ReportsComplete
  <2>1. /\ i \in Nat /\ reports[i] = all[i + 1]
        /\ \A j \in DOMAIN reports[i] : reports[i][j].iteration = i
    BY DEF ReportsInv, Reported
  <2>2. it = i + 1 /\ phase = "iterate" => all[i + 1] = results
    BY <2>1 DEF ReportsInv, Iterating
  <2> QED BY <2>1, <2>2 DEF Elements
<1> QED BY <1>1, ReportsAre, PTL

----------------------------------------------------------------------------
\* Records that the combined report is to have.
AfterWarmupOf(a, r) ==
  \E i \in Nat : WarmupBuffer <= i /\ i < Len(a) /\ r \in Elements(a[i + 1])

Rest(F, a) == F = [i \in Nat |-> IF i >= Len(a) THEN <<>> ELSE a[i + 1] \o F[i + 1]]

LEMMA ElementsOfBoth ==
  ASSUME NEW E, NEW s \in Seq(E), NEW t \in Seq(E)
  PROVE  s \o t \in Seq(E) /\ Elements(s \o t) = Elements(s) \cup Elements(t)
<1>1. /\ s \o t \in Seq(E) /\ Len(s \o t) = Len(s) + Len(t) /\ Len(s) \in Nat /\ Len(t) \in Nat
      /\ \A i \in 1..Len(s) : (s \o t)[i] = s[i]
      /\ \A i \in 1..Len(t) : (s \o t)[Len(s) + i] = t[i]
  OBVIOUS
<1> DEFINE u == s \o t
<1> HIDE DEF u
<1>2. ASSUME NEW i \in 1..Len(u) PROVE u[i] \in Elements(s) \cup Elements(t)
  <2>1. CASE i <= Len(s)
    BY <1>1, <2>1 DEF u, Elements
  <2>2. CASE i > Len(s)
    <3>1. i - Len(s) \in 1..Len(t) /\ i = Len(s) + (i - Len(s))
      BY <1>1, <2>2 DEF u
    <3> QED BY <1>1, <3>1 DEF u, Elements
  <2> QED BY <1>1, <2>1, <2>2
<1>3. ASSUME NEW i \in 1..Len(s) PROVE s[i] \in Elements(u)
  <2>1. i \in DOMAIN u /\ u[i] = s[i]
    BY <1>1 DEF u
  <2> QED BY <2>1 DEF Elements
<1>4. ASSUME NEW i \in 1..Len(t) PROVE t[i] \in Elements(u)
  <2>1. Len(s) + i \in DOMAIN u /\ u[Len(s) + i] = t[i]
    BY <1>1 DEF u
  <2> QED BY <2>1 DEF Elements
<1>5. u \in Seq(E)
  BY <1>1 DEF u
<1>6. Elements(u) = Elements(s) \cup Elements(t)
  <2>1. \A r \in Elements(u) : r \in Elements(s) \cup Elements(t)
    BY <1>2, <1>5 DEF Elements
  <2>2. \A r \in Elements(s) \cup Elements(t) : r \in Elements(u)
    BY <1>3, <1>4 DEF Elements
  <2> QED BY <2>1, <2>2
<1> QED BY <1>5, <1>6 DEF u

\* There is a function that satisfies the recursion of From, counted from the end.
LEMMA RestExists == ASSUME NEW E, NEW a \in Seq(Seq(E)) PROVE \E F : Rest(F, a)
<1> DEFINE L == Len(a)
           H == [x \in (1..L) \X Seq(E) |-> a[L - x[1] + 1] \o x[2]]
<1>1. L \in Nat /\ \A i \in 1..L : a[i] \in Seq(E)
  OBVIOUS
<1>2. \A k \in 1..L : L - k + 1 \in 1..L /\ a[L - k + 1] \in Seq(E)
  BY <1>1
<1>3. H \in [(1..L) \X Seq(E) -> Seq(E)]
  <2>1. ASSUME NEW k \in 1..L, NEW v \in Seq(E) PROVE a[L - k + 1] \o v \in Seq(E)
    BY <1>2
  <2> QED BY <2>1
<1>4. \A k \in 1..L, v \in Seq(E) : H[<<k, v>>] = a[L - k + 1] \o v
  OBVIOUS
<1> HIDE DEF H
<1>5. PICK g : Follows(g, H, <<>>, L, Seq(E))
  <2>1. IsStep(H, L, Seq(E)) /\ <<>> \in Seq(E)
    BY <1>3 DEF IsStep
  <2> HIDE DEF L
  <2> QED BY <1>1, <2>1, Recursion
<1>6. /\ g \in [0..L -> Seq(E)] /\ g[0] = <<>>
      /\ \A k \in 1..L : g[k] = H[<<k, g[k - 1]>>]
  BY <1>5 DEF Follows
<1>7. \A k \in 1..L : g[k] = a[L - k + 1] \o g[k - 1]
  <2>1. \A k \in 1..L : k - 1 \in 0..L
    BY <1>1
  <2> QED BY <1>4, <1>6, <2>1
<1> DEFINE F == [i \in Nat |-> IF i >= L THEN <<>> ELSE g[L - i]]
<1>8. ASSUME NEW i \in Nat PROVE F[i] = IF i >= L THEN <<>> ELSE a[i + 1] \o F[i + 1]
  <2>1. CASE i >= L
    BY <2>1
  <2>2. CASE i < L
    <3>1. L - i \in 1..L /\ L - (L - i) + 1 = i + 1 /\ (L - i) - 1 = L - (i + 1)
      BY <1>1, <2>2
    <3>2. F[i] = a[i + 1] \o g[L - (i + 1)]
      <4>1. F[i] = g[L - i]
        BY <1>1, <2>2
      <4>2. g[L - i] = a[L - (L - i) + 1] \o g[(L - i) - 1]
        BY <1>7, <3>1
      <4> QED BY <3>1, <4>1, <4>2
    <3>3. F[i + 1] = g[L - (i + 1)]
      <4>1. CASE i + 1 < L
        BY <1>1, <4>1
      <4>2. CASE i + 1 = L
        BY <1>1, <1>6, <4>2
      <4> QED BY <1>1, <2>2, <4>1, <4>2
    <3> QED BY <1>1, <2>2, <3>2, <3>3
  <2> QED BY <1>1, <2>1, <2>2
<1>9. Rest(F, a)
  BY <1>8 DEF Rest
<1> QED BY <1>9

\* AfterWarmup is the records of the iterations from WarmupBuffer on.
LEMMA RestIs ==
  ASSUME NEW E, NEW a \in Seq(Seq(E)), NEW F, Rest(F, a)
  PROVE  /\ F[WarmupBuffer] \in Seq(E)
         /\ \A r : r \in Elements(F[WarmupBuffer]) <=> AfterWarmupOf(a, r)
<1> DEFINE L == Len(a)
           Late(n, r) == \E i \in Nat : n <= i /\ i < L /\ r \in Elements(a[i + 1])
           Good(n) == F[n] \in Seq(E) /\ \A r : r \in Elements(F[n]) <=> Late(n, r)
           T == {k \in Nat : k <= L => Good(L - k)}
<1>1. L \in Nat /\ \A i \in Nat : i < L => i + 1 \in 1..L /\ a[i + 1] \in Seq(E)
  OBVIOUS
<1>2. \A i \in Nat : F[i] = IF i >= L THEN <<>> ELSE a[i + 1] \o F[i + 1]
  BY DEF Rest
<1>3. ASSUME NEW i \in Nat, i >= L PROVE Good(i)
  <2>1. F[i] = <<>> /\ <<>> \in Seq(E) /\ DOMAIN <<>> = {}
    BY <1>2, <1>3
  <2>2. \A r : ~ Late(i, r)
    BY <1>1, <1>3
  <2> QED BY <2>1, <2>2 DEF Elements
<1>4. ASSUME NEW i \in Nat, i < L, Good(i + 1) PROVE Good(i)
  <2>1. F[i] = a[i + 1] \o F[i + 1] /\ a[i + 1] \in Seq(E) /\ F[i + 1] \in Seq(E)
    <3>1. ~ (i >= L)
      BY <1>1, <1>4
    <3>2. F[i] = IF i >= L THEN <<>> ELSE a[i + 1] \o F[i + 1]
      BY <1>2
    <3> QED BY <1>1, <1>4, <3>1, <3>2
  <2> DEFINE s == a[i + 1]  t == F[i + 1]
  <2>2. s \o t \in Seq(E) /\ Elements(s \o t) = Elements(s) \cup Elements(t)
    <3>1. s \in Seq(E) /\ t \in Seq(E)
      BY <2>1
    <3> HIDE DEF s, t
    <3> QED BY <3>1, ElementsOfBoth
  <2>3. ASSUME NEW r PROVE Late(i, r) <=> r \in Elements(a[i + 1]) \/ Late(i + 1, r)
    <3>1. \A j \in Nat : i <= j <=> j = i \/ i + 1 <= j
      OBVIOUS
    <3> QED BY <1>4, <3>1
  <2>4. \A r : r \in Elements(F[i]) <=> Late(i, r)
    BY <1>4, <2>1, <2>2, <2>3
  <2> QED BY <2>1, <2>2, <2>4
<1> HIDE DEF Good
<1>5. \A k \in Nat : k \in T
  <2>1. 0 \in T
    BY <1>1, <1>3
  <2>2. ASSUME NEW k \in Nat, k \in T PROVE k + 1 \in T
    <3> SUFFICES ASSUME k + 1 <= L PROVE Good(L - (k + 1))
      OBVIOUS
    <3>1. L - (k + 1) \in Nat /\ L - (k + 1) < L /\ (L - (k + 1)) + 1 = L - k /\ k <= L
      BY <1>1
    <3>2. Good(L - k)
      BY <2>2, <3>1
    <3> QED BY <1>4, <3>1, <3>2
  <2> HIDE DEF T
  <2> QED BY <2>1, <2>2, ByInduction
<1>6. Good(WarmupBuffer)
  <2>1. WarmupBuffer \in Nat
    BY WarmupAssumption
  <2>2. CASE WarmupBuffer < L
    <3>1. L - WarmupBuffer \in T /\ L - WarmupBuffer <= L /\ L - (L - WarmupBuffer) = WarmupBuffer
      BY <1>1, <1>5, <2>1, <2>2
    <3> QED BY <3>1
  <2> QED BY <1>1, <1>3, <2>1, <2>2
<1> QED BY <1>6 DEF Good, AfterWarmupOf

LEMMA CombinedHas ==
  ASSUME DriverTypeOK
  PROVE  AfterWarmup \in Seq(Entry) /\ \A r : r \in Elements(AfterWarmup) <=> AfterWarmupOf(all, r)
<1>1. all \in Seq(Seq(Entry))
  BY DEF DriverTypeOK
<1>2. PICK F : Rest(F, all)
  BY <1>1, RestExists
<1>3. From = CHOOSE G : Rest(G, all)
  BY DEF From, Rest
<1>4. Rest(From, all)
  BY <1>2, <1>3
<1>5. From[WarmupBuffer] \in Seq(Entry)
      /\ \A r : r \in Elements(From[WarmupBuffer]) <=> AfterWarmupOf(all, r)
  <2> HIDE DEF From
  <2> QED BY <1>1, <1>4, RestIs
<1> QED BY <1>5 DEF AfterWarmup

\* An iteration without a report has no records; and once the combined report is
\* written, or not, it has what it should have.
ReportsAll ==
  /\ \A i \in Nat : i < it /\ i \notin DOMAIN reports => all[i + 1] = <<>>
  /\ phase \notin {"combine", "exit"} => Combined \notin DOMAIN reports

CombinedTells ==
  phase \in {"combine", "exit"} /\ CombineSheets /\ Iterations > 1 =>
    IF Combined \in DOMAIN reports
    THEN \A r : r \in Elements(reports[Combined]) <=> AfterWarmupOf(all, r)
    ELSE \A r : ~ AfterWarmupOf(all, r)

CombinedInv == ReportsInv /\ ReportsAll /\ CombinedTells

LEMMA CombineKeeps == ASSUME CombinedInv, Combine, ReportsInv' PROVE CombinedInv'
<1>1. /\ phase = "iterate" /\ it = Iterations /\ phase' = "combine" /\ UNCHANGED <<it, all>>
      /\ reports' = IF CombineSheets /\ Iterations > 1 /\ AfterWarmup # <<>>
                    THEN [i \in DOMAIN reports \cup {Combined} |->
                            IF i = Combined THEN AfterWarmup ELSE reports[i]]
                    ELSE reports
  BY DEF Combine
<1>2. Combined \notin DOMAIN reports /\ Combined' = Combined /\ it \in Nat
  BY <1>1 DEF CombinedInv, ReportsAll, Combined, ReportsInv, RecordsInv, DriverTypeOK
<1>3. AfterWarmup \in Seq(Entry) /\ \A r : r \in Elements(AfterWarmup) <=> AfterWarmupOf(all, r)
  BY CombinedHas DEF CombinedInv, ReportsInv, RecordsInv
<1>4. ReportsAll'
  <2>1. DOMAIN reports \subseteq DOMAIN reports'
    BY <1>1
  <2> QED BY <1>1, <2>1 DEF CombinedInv, ReportsAll
<1>5. CombinedTells'
  <2> SUFFICES ASSUME CombineSheets, Iterations > 1
               PROVE  IF Combined \in DOMAIN reports'
                      THEN \A r : r \in Elements(reports'[Combined]) <=> AfterWarmupOf(all, r)
                      ELSE \A r : ~ AfterWarmupOf(all, r)
    BY <1>1, <1>2 DEF CombinedTells, AfterWarmupOf, Elements
  <2>1. CASE AfterWarmup # <<>>
    <3>1. Combined \in DOMAIN reports' /\ reports'[Combined] = AfterWarmup
      BY <1>1, <2>1
    <3> QED BY <1>3, <3>1
  <2>2. CASE AfterWarmup = <<>>
    <3>1. Elements(AfterWarmup) = {} /\ reports' = reports
      BY <1>1, <2>2 DEF Elements
    <3> QED BY <1>2, <1>3, <3>1
  <2> QED BY <2>1, <2>2
<1> QED BY <1>4, <1>5 DEF CombinedInv

LEMMA OthersKeepCombined ==
  ASSUME CombinedInv, ReportsInv',
         \/ UNCHANGED driverVars \/ Start \/ BeginIteration \/ EndIteration \/ Report \/ Exit
         \/ \E e \in Eps : Post(e) \/ Refused(e) \/ Timeout(e) \/ Answer(e)
  PROVE  CombinedInv'
<1>1. it \in Nat /\ all \in Seq(Seq(Entry)) /\ results \in Seq(Entry) /\ Combined' = Combined
  BY DEF CombinedInv, ReportsInv, RecordsInv, DriverTypeOK, Combined
<1>2. CASE UNCHANGED <<it, all, reports>> /\ (phase' = phase \/ phase' \notin {"combine", "exit"})
  <2>1. phase' \notin {"combine", "exit"} => Combined \notin DOMAIN reports
    <3>1. phase' \notin {"combine", "exit"} /\ phase \in {"combine", "exit"} => FALSE
      BY <1>2 DEF Start, BeginIteration, EndIteration, Report, Exit, Post, Refused, Timeout,
                  Answer, driverVars
    <3> QED BY <3>1 DEF CombinedInv, ReportsAll
  <2>2. ReportsAll'
    BY <1>1, <1>2, <2>1 DEF CombinedInv, ReportsAll
  <2>3. CombinedTells'
    <3>1. CASE phase' \notin {"combine", "exit"}
      BY <3>1 DEF CombinedTells
    <3>2. CASE UNCHANGED phase
      <4>1. \A r : AfterWarmupOf(all, r)' <=> AfterWarmupOf(all, r)
        BY <1>2 DEF AfterWarmupOf, Elements
      <4>2. CombinedTells /\ reports' = reports
        BY <1>2 DEF CombinedInv
      <4> QED BY <1>1, <3>2, <4>1, <4>2 DEF CombinedTells, Elements
    <3> QED BY <1>2, <3>1, <3>2
  <2> QED BY <2>2, <2>3 DEF CombinedInv
<1>3. CASE Start /\ phase' = "exit"
  <2>1. it = 0 /\ Len(all) = 0 /\ UNCHANGED <<it, all, reports>> /\ Combined \notin DOMAIN reports
    BY <1>3 DEF Start, CombinedInv, ReportsInv, Iterating, ReportsAll
  <2>2. ReportsAll'
    BY <1>1, <1>3, <2>1 DEF ReportsAll
  <2>3. \A r : ~ AfterWarmupOf(all, r)
    BY <2>1 DEF AfterWarmupOf
  <2>4. CombinedTells'
    BY <1>1, <2>1, <2>3 DEF CombinedTells, AfterWarmupOf, Elements
  <2> QED BY <2>2, <2>4 DEF CombinedInv
<1>4. CASE EndIteration
  <2>1. /\ phase = "run" /\ phase' = "report" /\ all' = Append(all, results)
        /\ UNCHANGED <<it, reports>> /\ Len(all) = it
    BY <1>4 DEF EndIteration, CombinedInv, ReportsInv, Iterating
  <2>2. \A i \in Nat : i < it => all'[i + 1] = all[i + 1]
    BY <1>1, <2>1
  <2>3. ReportsAll' /\ CombinedTells'
    BY <1>1, <2>1, <2>2 DEF CombinedInv, ReportsAll, CombinedTells
  <2> QED BY <2>3 DEF CombinedInv
<1>5. CASE Report
  <2>1. /\ phase = "report" /\ phase' = "iterate" /\ it' = it + 1 /\ UNCHANGED <<results, all>>
        /\ reports' = IF results = <<>> THEN reports
                      ELSE [i \in DOMAIN reports \cup {it} |-> IF i = it THEN results ELSE reports[i]]
        /\ all[it + 1] = results /\ it < Iterations
    BY <1>5 DEF Report, CombinedInv, ReportsInv, Iterating
  <2>2. Combined \notin DOMAIN reports'
    BY <1>1, <2>1, IterationsAssumption DEF CombinedInv, ReportsAll, Combined
  <2>3. ASSUME NEW i \in Nat, i < it + 1, i \notin DOMAIN reports' PROVE all[i + 1] = <<>>
    <3>1. CASE i = it
      BY <2>1, <2>3, <3>1
    <3>2. CASE i < it
      BY <2>1, <2>3, <3>2 DEF CombinedInv, ReportsAll
    <3> QED BY <1>1, <2>3, <3>1, <3>2
  <2>4. ReportsAll' /\ CombinedTells'
    BY <1>1, <2>1, <2>2, <2>3 DEF ReportsAll, CombinedTells
  <2> QED BY <2>4 DEF CombinedInv
<1>6. CASE Exit
  <2>1. phase = "combine" /\ phase' = "exit" /\ UNCHANGED <<it, all, reports>>
    BY <1>6 DEF Exit
  <2>2. ReportsAll'
    BY <1>1, <2>1 DEF CombinedInv, ReportsAll
  <2>3. CombinedTells'
    BY <1>1, <2>1 DEF CombinedInv, CombinedTells, AfterWarmupOf, Elements
  <2> QED BY <2>2, <2>3 DEF CombinedInv
<1>7. \/ (UNCHANGED <<it, all, reports>> /\ (phase' = phase \/ phase' \notin {"combine", "exit"}))
      \/ (Start /\ phase' = "exit") \/ EndIteration \/ Report \/ Exit
  BY DEF Start, BeginIteration, Post, Refused, Timeout, Answer, driverVars
<1> QED BY <1>2, <1>3, <1>4, <1>5, <1>6, <1>7

\* The combined report of an experiment has the records of every iteration after the
\* warmup and of no other, for any number of iterations and any warmup, and is left out
\* only if there are none: "warmupBuffer" counts iterations, reported or not.
THEOREM Warmup == DriverSpec => []WarmupLeftOut
<1>1. DriverInit => CombinedInv
  BY InitReports, IterationsAssumption DEF DriverInit, CombinedInv, ReportsAll, CombinedTells
<1>2. CombinedInv /\ ReportsInv' /\ [DriverNext]_driverVars => CombinedInv'
  BY CombineKeeps, OthersKeepCombined DEF DriverNext, Main
<1>3. CombinedInv => WarmupLeftOut
  <2> SUFFICES ASSUME CombinedInv, phase = "exit", CombineSheets, Iterations > 1
               PROVE  UNION {Elements(reports[i]) :
                               i \in {d \in DOMAIN reports : WarmupBuffer <= d /\ d < Combined}}
                        = IF Combined \in DOMAIN reports THEN Elements(reports[Combined]) ELSE {}
    BY DEF WarmupLeftOut
  <2> DEFINE K == UNION {Elements(reports[i]) :
                           i \in {d \in DOMAIN reports : WarmupBuffer <= d /\ d < Combined}}
  <2>1. Len(all) = it /\ it \in Nat /\ it <= Combined /\ Combined \in Nat /\ all \in Seq(Seq(Entry))
    BY IterationsAssumption DEF CombinedInv, ReportsInv, RecordsInv, DriverTypeOK, Iterating, Combined
  <2>2. ASSUME NEW r PROVE r \in K <=> AfterWarmupOf(all, r)
    <3>1. ASSUME NEW i \in DOMAIN reports, WarmupBuffer <= i, i < Combined, r \in Elements(reports[i])
          PROVE  AfterWarmupOf(all, r)
      <4>1. i \in Nat /\ i < it /\ reports[i] = all[i + 1]
        BY <2>1, <3>1 DEF CombinedInv, ReportsInv, Reported
      <4> QED BY <2>1, <3>1, <4>1 DEF AfterWarmupOf
    <3>2. ASSUME NEW i \in Nat, WarmupBuffer <= i, i < Len(all), r \in Elements(all[i + 1])
          PROVE  r \in K
      <4>1. i < it /\ i < Combined /\ all[i + 1] # <<>>
        BY <2>1, <3>2 DEF Elements
      <4>2. i \in DOMAIN reports \ {Combined}
        BY <2>1, <4>1 DEF CombinedInv, ReportsAll
      <4>3. reports[i] = all[i + 1]
        BY <4>2 DEF CombinedInv, ReportsInv, Reported
      <4> QED BY <3>2, <4>1, <4>2, <4>3
    <3> QED BY <3>1, <3>2 DEF AfterWarmupOf
  <2> HIDE DEF K
  <2>3. K = IF Combined \in DOMAIN reports THEN Elements(reports[Combined]) ELSE {}
    <3>1. CASE Combined \in DOMAIN reports
      <4>1. \A r : r \in Elements(reports[Combined]) <=> r \in K
        BY <2>2, <3>1 DEF CombinedInv, CombinedTells
      <4> QED BY <3>1, <4>1
    <3>2. CASE Combined \notin DOMAIN reports
      <4>1. \A r : r \notin K
        BY <2>2, <3>2 DEF CombinedInv, CombinedTells
      <4> QED BY <3>2, <4>1
    <3> QED BY <3>1, <3>2
  <2> QED BY <2>3 DEF K
<1> QED BY <1>1, <1>2, <1>3, ReportsAre, PTL DEF DriverSpec

----------------------------------------------------------------------------
\* A division is exact up to its remainder, and does not decrease.
LEMMA Division ==
  ASSUME NEW b \in Nat, b > 0, NEW a \in Nat
  PROVE  /\ a \div b \in Nat /\ a % b \in 0..(b - 1)
         /\ a = b * (a \div b) + (a % b)
         /\ \A c \in Nat : c <= a => c \div b <= a \div b
<1>1. ASSUME NEW c \in Nat
      PROVE  c \div b \in Nat /\ c % b \in 0..(b - 1) /\ c = b * (c \div b) + (c % b)
  <2> DEFINE q == c \div b
             r == c % b
  <2>1. q \in Int /\ r \in 0..(b - 1)
    OBVIOUS
  <2>2. c = b * q + r
    OBVIOUS
  <2>3. q \in Nat
    OBVIOUS
  <2> QED BY <2>1, <2>2, <2>3, Zenon
<1>2. ASSUME NEW c \in Nat, c <= a PROVE c \div b <= a \div b
  <2> DEFINE m == a \div b
             k == c \div b
  <2>1. m \in Nat /\ k \in Nat /\ a < b * m + b /\ b * k <= c
    BY <1>1
  <2> HIDE DEF m, k
  <2>2. k > m => b * k >= b * (m + 1)
    BY <2>1
  <2>3. b * (m + 1) = b * m + b /\ b * m \in Nat /\ b * k \in Nat
    BY <2>1
  <2>4. k <= m
    BY <1>2, <2>1, <2>2, <2>3
  <2> QED BY <2>4 DEF m, k
<1> QED BY <1>1, <1>2

\* The payload list that is not shuffled: the payloads over and over.
LEMMA Turns ==
  ASSUME NEW s \in Nat, s < RunsPerEndpoint * Endpoints
  PROVE  Duplicated[s] = Payloads[(s % Len(Payloads)) + 1]
<1> DEFINE N == RunsPerEndpoint * Endpoints
           L == Len(Payloads)
<1>1. N \in Nat /\ L \in Nat \ {0} /\ s < N
  BY RunsAreNatural, EndpointsAssumption, PayloadsAssumption
<1>2. Copies = IF N <= L THEN 1 ELSE (N + L - 1) \div L
  BY DEF Copies
<1>3. Duplicated = [i \in 0..(Copies * L - 1) |-> Payloads[(i % L) + 1]]
  BY DEF Duplicated
<1> HIDE DEF N, L
<1>4. CASE N <= L
  BY <1>1, <1>2, <1>3, <1>4 DEF L
<1>5. CASE N > L
  <2> DEFINE c == (N + L - 1) \div L
             r == (N + L - 1) % L
  <2>1. c \in Nat /\ r \in 0..(L - 1) /\ N + L - 1 = L * c + r
    BY <1>1, Division
  <2>2. Copies = c
    BY <1>1, <1>2, <1>5
  <2> HIDE DEF c, r
  <2>3. L * c = c * L /\ c * L \in Nat
    BY <1>1, <2>1
  <2>4. s <= c * L - 1
    BY <1>1, <2>1, <2>3
  <2> QED BY <1>1, <1>3, <2>2, <2>3, <2>4 DEF L
<1> QED BY <1>1, <1>4, <1>5

LEMMA RecordSlots ==
  ASSUME RecordsInv
  PROVE  /\ \A i \in DOMAIN results :
              /\ results[i].slot \in Nat /\ results[i].slot < RunsPerEndpoint * Endpoints
              /\ list[results[i].slot] \in Benchmarks
         /\ \A i, j \in DOMAIN results : results[i].slot = results[j].slot => i = j
<1>1. ASSUME NEW i \in DOMAIN results
      PROVE  /\ results[i].endpoint \in Eps /\ results[i].run \in Nat
             /\ results[i].run < RunsPerEndpoint
             /\ results[i].slot = Slot(results[i].endpoint, results[i].run)
             /\ list[results[i].slot] \in Benchmarks
  <2>1. results[i] \in Entry
    BY DEF RecordsInv, DriverTypeOK
  <2>2. /\ results[i].run < next[results[i].endpoint]
        /\ results[i].slot = Slot(results[i].endpoint, results[i].run)
        /\ list[results[i].slot] \in Benchmarks
    BY DEF RecordsInv, Recorded
  <2>3. results[i].endpoint \in Eps /\ results[i].run \in Nat
    BY <2>1 DEF Entry
  <2>4. /\ next[results[i].endpoint] \in Nat
        /\ next[results[i].endpoint] <= RunsPerEndpoint
    BY <2>3 DEF RecordsInv, DriverTypeOK, ThreadsInSlices
  <2> QED BY <2>2, <2>3, <2>4, RunsAreNatural
<1>2. ASSUME NEW i \in DOMAIN results, NEW j \in DOMAIN results,
             results[i].slot = results[j].slot
      PROVE  i = j
  <2>1. results[i].endpoint = results[j].endpoint /\ results[i].run = results[j].run
    BY <1>1, <1>2, SlotsApart
  <2> QED BY <2>1 DEF RecordsInv, Recorded
<1>3. \A i \in DOMAIN results :
        results[i].slot \in Nat /\ results[i].slot < RunsPerEndpoint * Endpoints
  BY <1>1, SlotsApart
<1> QED BY <1>1, <1>2, <1>3

\* How often the records can be of one payload.
LEMMA TurnsAreFew ==
  ASSUME RecordsInv, list = Duplicated, NEW p
  PROVE  Cardinality({i \in DOMAIN results : list[results[i].slot] = p})
           <= Cardinality({k \in DOMAIN Payloads : Payloads[k] = p})
                * ((RunsPerEndpoint * Endpoints) \div Len(Payloads) + 1)
<1> DEFINE N == RunsPerEndpoint * Endpoints
           L == Len(Payloads)
           M == N \div L
           P == {k \in DOMAIN Payloads : Payloads[k] = p}
           D == {i \in DOMAIN results : list[results[i].slot] = p}
           place(i) == results[i].slot % L
           copy(i) == results[i].slot \div L
           f == [i \in D |-> <<place(i) + 1, copy(i)>>]
<1>1. N \in Nat /\ L \in Nat \ {0} /\ DOMAIN Payloads = 1..L
  BY RunsAreNatural, EndpointsAssumption, PayloadsAssumption
<1>2. M \in Nat
  BY <1>1, Division
<1>3. IsFiniteSet(P) /\ IsFiniteSet(0..M) /\ Cardinality(0..M) = M + 1
  <2>1. P \subseteq 1..L
    BY <1>1
  <2>2. IsFiniteSet(1..L)
    BY <1>1, FS_Interval
  <2> HIDE DEF P, M, L
  <2>3. IsFiniteSet(P)
    BY <2>1, <2>2, FS_Subset
  <2>4. IsFiniteSet(0..M) /\ Cardinality(0..M) = M + 1
    BY <1>2, FS_Interval
  <2> QED BY <2>3, <2>4
<1>4. \A i \in D : i \in DOMAIN results /\ results[i].slot \in Nat /\ results[i].slot < N
                    /\ list[results[i].slot] = p
  <2>1. \A i \in DOMAIN results : results[i].slot \in Nat /\ results[i].slot < N
    BY RecordSlots
  <2> QED BY <2>1
<1>5. \A i \in D : /\ place(i) \in 0..(L - 1) /\ copy(i) \in 0..M
                    /\ results[i].slot = L * copy(i) + place(i)
  <2> SUFFICES ASSUME NEW i \in D
               PROVE  /\ place(i) \in 0..(L - 1) /\ copy(i) \in 0..M
                      /\ results[i].slot = L * copy(i) + place(i)
    OBVIOUS
  <2> DEFINE s == results[i].slot
  <2>1. s \in Nat /\ s <= N
    BY <1>1, <1>4
  <2> HIDE DEF s, N, L
  <2>2. s % L \in 0..(L - 1) /\ s \div L \in Nat /\ s = L * (s \div L) + (s % L)
        /\ s \div L <= M
    BY <1>1, <2>1, Division
  <2> HIDE DEF M
  <2>3. \A k \in Nat : k <= M => k \in 0..M
    BY <1>2
  <2>4. s \div L \in 0..M
    BY <2>2, <2>3, Zenon
  <2> QED BY <2>2, <2>4, Zenon DEF s
<1>6. \A i \in D : Payloads[place(i) + 1] = p
  BY <1>4, Turns
<1> HIDE DEF N, L, M, place, copy
<1>7. ASSUME NEW i \in D, NEW j \in D, f[i] = f[j] PROVE i = j
  <2>1. place(i) \in Nat /\ place(j) \in Nat /\ place(i) + 1 = place(j) + 1 /\ copy(i) = copy(j)
    BY <1>1, <1>5, <1>7
  <2>2. results[i].slot = results[j].slot
    BY <2>1, <1>5
  <2> QED BY <1>4, <2>2, RecordSlots
<1>8. f \in [D -> P \X (0..M)]
  <2>1. \A i \in D : place(i) + 1 \in 1..L
    BY <1>1, <1>5
  <2> QED BY <1>1, <1>5, <1>6, <2>1
<1> HIDE DEF f, D, P, M
<1>9. f \in Injection(D, P \X (0..M))
  BY <1>7, <1>8 DEF Injection, IsInjective
<1>10. IsFiniteSet(P \X (0..M)) /\ Cardinality(P \X (0..M)) = Cardinality(P) * (M + 1)
  BY <1>3, FS_Product
<1>11. Cardinality(D) <= Cardinality(P) * (M + 1)
  BY <1>9, <1>10, FS_Injection
<1> QED BY <1>11 DEF D, P, M, N, L

\* Whatever the threads do and the guests answer, no run of the payload list is recorded
\* twice, none beyond the runs the report's header states and none of a method the
\* handler does not know; and without a shuffle no payload has more than its turns.
THEOREM Payload == DriverSpec => []PayloadsOnce
<1>1. RecordsInv => PayloadsOnce
  BY RecordSlots, TurnsAreFew DEF PayloadsOnce
<1> QED BY <1>1, Records, PTL

----------------------------------------------------------------------------
(***************************************************************************)
(* invoke.sh.                                                              *)
(***************************************************************************)
CallsTypeOK ==
  /\ shell \in {"start", "fan", "wait", "flush", "exit", "killed"}
  /\ targets \in Seq(Instances) /\ turn \in Nat /\ turn <= Len(targets)
  /\ job \in [Instances -> {"none", "running", "ok", "failed"}]
  /\ DOMAIN file = Instances /\ failed \in BOOLEAN /\ socks \subseteq Instances

\* The sockets are called once each, and there is one to call.
TargetsApart ==
  /\ \A i, j \in 1..Len(targets) : targets[i] = targets[j] => i = j
  /\ shell \in {"fan", "wait", "flush"} => targets # <<>>

\* A call is over when its answer is in its file, and it is "ok" if the answer is one.
FilesTell ==
  shell # "killed" => \A k \in Instances : I!Answered(k) <=> job[k] = "ok"

\* How far the three loops of the script are.
LoopsSoFar ==
  /\ shell = "start" => turn = 0 /\ (\A k \in Instances : job[k] = "none")
  /\ shell = "fan"   => \A i \in 1..Len(targets) : i > turn => job[targets[i]] = "none"
  /\ shell \in {"start", "fan"} => ~failed
  /\ shell = "wait"  =>
       /\ \A i \in 1..Len(targets) : i <= turn => I!Over(targets[i])
       /\ failed <=> \E i \in 1..Len(targets) : i <= turn /\ job[targets[i]] = "failed"
  /\ shell = "flush" =>
       /\ \A i \in 1..Len(targets) : I!Over(targets[i])
       /\ failed <=> \E i \in 1..Len(targets) : job[targets[i]] = "failed"
  /\ shell = "exit"  =>
       /\ \A i \in 1..Len(targets) : I!Over(targets[i])
       /\ exitCode = 0 <=> /\ targets # <<>>
                          /\ \A i \in 1..Len(targets) : job[targets[i]] # "failed"

CallsInv == CallsTypeOK /\ TargetsApart /\ FilesTell /\ LoopsSoFar

LEMMA InitCalls == I!Init => CallsInv
<1> SUFFICES ASSUME I!Init PROVE CallsInv
  OBVIOUS
<1>1. CallsTypeOK
  <2>1. targets = <<>> /\ turn = 0 /\ Len(targets) = 0 /\ targets \in Seq(Instances)
    BY DEF I!Init
  <2>2. shell = "start" /\ job = [k \in Instances |-> "none"] /\ DOMAIN file = Instances
    BY DEF I!Init
  <2>3. failed \in BOOLEAN /\ socks \subseteq Instances
    BY DEF I!Init
  <2>4. 0 \in Nat /\ 0 <= 0
    OBVIOUS
  <2> QED BY <2>1, <2>2, <2>3, <2>4 DEF CallsTypeOK
<1>2. TargetsApart /\ LoopsSoFar
  BY DEF I!Init, TargetsApart, LoopsSoFar
<1>3. FilesTell
  BY DEF I!Init, FilesTell, I!Answered
<1> QED BY <1>1, <1>2, <1>3 DEF CallsInv

\* What a job leaves in its file, and how it ends.
LEMMA BlockTells ==
  ASSUME NEW k, NEW r \in I!Responses
  PROVE  /\ (\E i \in DOMAIN I!Block(k, r) : I!Block(k, r)[i].is \in {"answer", "text"})
             <=> I!Verdict(r) = "ok"
         /\ I!Verdict(r) \in {"ok", "failed"}
<1>1. I!Header(k).is = "header" /\ I!Rule(k).is = "rule" /\ I!Body(k, r).is = r
  BY DEF I!Header, I!Rule, I!Body
<1>2. CASE r = "nothing"
  <2>1. I!Block(k, r) = <<I!Header(k), I!Rule(k)>> /\ I!Verdict(r) = "failed"
    BY <1>2 DEF I!Block, I!Verdict
  <2> QED BY <2>1, <1>1
<1>3. CASE r # "nothing"
  <2>1. I!Block(k, r) = <<I!Header(k), I!Body(k, r), I!Rule(k)>>
    BY <1>3 DEF I!Block
  <2>2. I!Block(k, r)[2].is = r /\ DOMAIN I!Block(k, r) = {1, 2, 3}
        /\ I!Block(k, r)[1].is = "header" /\ I!Block(k, r)[3].is = "rule"
    BY <2>1, <1>1
  <2>3. (\E i \in DOMAIN I!Block(k, r) : I!Block(k, r)[i].is \in {"answer", "text"})
          <=> r \in {"answer", "text"}
    BY <2>2
  <2>4. I!Verdict(r) = "ok" <=> r \in {"answer", "text"}
    BY <1>3 DEF I!Verdict, I!Responses
  <2>5. I!Verdict(r) \in {"ok", "failed"}
    BY DEF I!Verdict
  <2> QED BY <2>3, <2>4, <2>5
<1> QED BY <1>2, <1>3

LEMMA BeginKeeps ==
  ASSUME CallsInv, NEW found \in Seq(Instances), I!Begin(found),
         \A i, j \in 1..Len(found) : found[i] = found[j] => i = j
  PROVE  CallsInv'
<1> USE DEF CallsInv
<1>1. /\ shell = "start" /\ targets' = found
      /\ IF found = <<>> THEN shell' = "exit" /\ exitCode' = 1
                         ELSE shell' = "fan" /\ UNCHANGED exitCode
      /\ UNCHANGED <<socks, turn, job, file, failed>>
  BY DEF I!Begin
<1>2. turn = 0 /\ ~failed /\ \A k \in Instances : job[k] = "none"
  BY <1>1 DEF LoopsSoFar
<1>3. CallsTypeOK'
  BY <1>1, <1>2 DEF CallsTypeOK
<1>4. TargetsApart'
  BY <1>1 DEF TargetsApart
<1>5. FilesTell'
  BY <1>1 DEF FilesTell, I!Answered
<1>6. \A i \in 1..Len(found) : found[i] \in Instances
  OBVIOUS
<1>7. LoopsSoFar'
  BY <1>1, <1>2, <1>6 DEF LoopsSoFar
<1> QED BY <1>3, <1>4, <1>5, <1>7

LEMMA FoundOnce ==
  ASSUME CallsTypeOK, NEW found \in [1..Cardinality(socks) -> socks],
         \A i, j \in DOMAIN found : i < j => found[i] < found[j]
  PROVE  /\ found \in Seq(Instances)
         /\ \A i, j \in 1..Len(found) : found[i] = found[j] => i = j
<1>1. socks \subseteq Instances /\ Cardinality(socks) \in Nat
  BY InstancesAssumption, FS_Subset, FS_CardinalityType DEF CallsTypeOK
<1>2. found \in Seq(Instances) /\ Len(found) = Cardinality(socks)
  BY <1>1
<1>3. \A i \in 1..Len(found) : found[i] \in Nat
  BY <1>1, <1>2, InstancesAssumption
<1> QED BY <1>1, <1>2, <1>3

LEMMA FanOutKeeps == ASSUME CallsInv, I!FanOut PROVE CallsInv'
<1> USE DEF CallsInv
<1>1. shell = "fan" /\ UNCHANGED <<socks, targets, file, failed, exitCode>>
  BY DEF I!FanOut, I!Through
<1>2. turn \in Nat /\ turn <= Len(targets) /\ Len(targets) \in Nat
      /\ \A i \in 1..Len(targets) : targets[i] \in Instances
  BY DEF CallsTypeOK
<1>3. TargetsApart'
  BY <1>1 DEF TargetsApart, I!FanOut, I!Through
<1>4. CASE turn < Len(targets)
  <2>1. shell' = "fan" /\ turn' = turn + 1 /\ job' = [job EXCEPT ![targets[turn + 1]] = "running"]
    BY <1>4 DEF I!FanOut, I!Through
  <2>2. targets[turn + 1] \in Instances /\ job[targets[turn + 1]] = "none"
    BY <1>1, <1>2, <1>4 DEF LoopsSoFar
  <2>3. CallsTypeOK'
    BY <1>1, <1>2, <1>4, <2>1, <2>2 DEF CallsTypeOK
  <2>4. FilesTell'
    BY <1>1, <2>1, <2>2 DEF FilesTell, I!Answered, CallsTypeOK
  <2>5. LoopsSoFar'
    BY <1>1, <1>2, <1>4, <2>1, <2>2 DEF LoopsSoFar, TargetsApart, CallsTypeOK
  <2> QED BY <1>3, <2>3, <2>4, <2>5
<1>5. CASE turn = Len(targets)
  <2>1. shell' = "wait" /\ turn' = 0 /\ UNCHANGED job
    BY <1>2, <1>5 DEF I!FanOut, I!Through
  <2>2. CallsTypeOK'
    BY <1>1, <1>2, <2>1 DEF CallsTypeOK
  <2>3. FilesTell'
    BY <1>1, <2>1 DEF FilesTell, I!Answered
  <2>4. LoopsSoFar'
    BY <1>1, <1>2, <2>1 DEF LoopsSoFar
  <2> QED BY <1>3, <2>2, <2>3, <2>4
<1> QED BY <1>2, <1>4, <1>5

LEMMA WaitKeeps == ASSUME CallsInv, I!Wait PROVE CallsInv'
<1> USE DEF CallsInv
<1>1. shell = "wait" /\ UNCHANGED <<socks, targets, job, file, exitCode>>
  BY DEF I!Wait, I!Through
<1>2. turn \in Nat /\ turn <= Len(targets) /\ Len(targets) \in Nat /\ failed \in BOOLEAN
  BY DEF CallsTypeOK
<1>3. /\ \A i \in 1..Len(targets) : i <= turn => I!Over(targets[i])
      /\ failed <=> \E i \in 1..Len(targets) : i <= turn /\ job[targets[i]] = "failed"
  BY <1>1 DEF LoopsSoFar
<1>4. CASE turn < Len(targets)
  <2>1. /\ shell' = "wait" /\ turn' = turn + 1 /\ I!Over(targets[turn + 1])
        /\ failed' = (failed \/ job[targets[turn + 1]] = "failed")
    BY <1>4 DEF I!Wait, I!Through
  <2>2. CallsTypeOK' /\ TargetsApart'
    BY <1>1, <1>2, <1>4, <2>1 DEF CallsTypeOK, TargetsApart
  <2>3. FilesTell'
    BY <1>1, <2>1 DEF FilesTell, I!Answered
  <2>4. \A i \in 1..Len(targets) : i <= turn + 1 => i <= turn \/ i = turn + 1
    BY <1>2
  <2>5. \A i \in 1..Len(targets) : i <= turn' => I!Over(targets[i])
    BY <1>3, <2>1, <2>4
  <2>6. failed' <=> \E i \in 1..Len(targets) : i <= turn + 1 /\ job[targets[i]] = "failed"
    <3> DEFINE Bad(i) == job[targets[i]] = "failed"
    <3>1. failed <=> \E i \in 1..Len(targets) : i <= turn /\ Bad(i)
      BY <1>3
    <3>2. failed' <=> failed \/ Bad(turn + 1)
      BY <2>1, <1>2
    <3> HIDE DEF Bad
    <3>3. (\E i \in 1..Len(targets) : i <= turn + 1 /\ Bad(i))
            <=> (\E i \in 1..Len(targets) : i <= turn /\ Bad(i)) \/ Bad(turn + 1)
      BY <1>2, <1>4
    <3> QED BY <3>1, <3>2, <3>3 DEF Bad
  <2>7. LoopsSoFar'
    BY <1>1, <2>1, <2>5, <2>6 DEF LoopsSoFar, I!Over
  <2> QED BY <2>2, <2>3, <2>7
<1>5. CASE turn = Len(targets)
  <2>1. shell' = "flush" /\ turn' = 0 /\ UNCHANGED failed
    BY <1>2, <1>5 DEF I!Wait, I!Through
  <2>2. CallsTypeOK' /\ TargetsApart'
    BY <1>1, <1>2, <2>1 DEF CallsTypeOK, TargetsApart
  <2>3. FilesTell'
    BY <1>1, <2>1 DEF FilesTell, I!Answered
  <2>4. \A i \in 1..Len(targets) : i <= turn
    BY <1>2, <1>5
  <2>5. LoopsSoFar'
    BY <1>1, <1>3, <2>1, <2>4 DEF LoopsSoFar, I!Over
  <2> QED BY <2>2, <2>3, <2>5
<1> QED BY <1>2, <1>4, <1>5

LEMMA FlushKeeps == ASSUME CallsInv, I!Flush PROVE CallsInv'
<1> USE DEF CallsInv
<1>1. shell = "flush" /\ UNCHANGED <<socks, targets, job, file, failed>>
  BY DEF I!Flush, I!Through
<1>2. turn \in Nat /\ turn <= Len(targets) /\ Len(targets) \in Nat
  BY DEF CallsTypeOK
<1>3. /\ \A i \in 1..Len(targets) : I!Over(targets[i])
      /\ failed <=> \E i \in 1..Len(targets) : job[targets[i]] = "failed"
      /\ targets # <<>>
  BY <1>1 DEF LoopsSoFar, TargetsApart
<1>4. CASE turn < Len(targets)
  <2>1. shell' = "flush" /\ turn' = turn + 1
    BY <1>4 DEF I!Flush, I!Through
  <2>2. CallsTypeOK' /\ TargetsApart'
    BY <1>1, <1>2, <1>4, <2>1 DEF CallsTypeOK, TargetsApart
  <2>3. FilesTell'
    BY <1>1, <2>1 DEF FilesTell, I!Answered
  <2>4. LoopsSoFar'
    BY <1>1, <1>3, <2>1 DEF LoopsSoFar, I!Over
  <2> QED BY <2>2, <2>3, <2>4
<1>5. CASE turn = Len(targets)
  <2>1. shell' = "exit" /\ turn' = 0 /\ exitCode' = IF failed THEN 1 ELSE 0
    BY <1>2, <1>5 DEF I!Flush, I!Through
  <2>2. CallsTypeOK' /\ TargetsApart'
    BY <1>1, <1>2, <2>1 DEF CallsTypeOK, TargetsApart
  <2>3. FilesTell'
    BY <1>1, <2>1 DEF FilesTell, I!Answered
  <2>4. exitCode' = 0 <=> \A i \in 1..Len(targets) : job[targets[i]] # "failed"
    BY <1>3, <2>1
  <2>5. LoopsSoFar'
    BY <1>1, <1>3, <2>1, <2>4 DEF LoopsSoFar, I!Over
  <2> QED BY <2>2, <2>3, <2>5
<1> QED BY <1>2, <1>4, <1>5

LEMMA ReturnKeeps == ASSUME CallsInv, NEW k \in Instances, I!Return(k) PROVE CallsInv'
<1> USE DEF CallsInv
<1>1. job[k] = "running" /\ UNCHANGED <<shell, socks, targets, turn, failed, exitCode>>
  BY DEF I!Return
<1>2. PICK r \in I!Responses :
         /\ job' = [job EXCEPT ![k] = I!Verdict(r)]
         /\ file' = IF shell = "killed" THEN file ELSE [file EXCEPT ![k] = I!Block(k, r)]
  BY DEF I!Return
<1>3. I!Verdict(r) \in {"ok", "failed"}
  BY BlockTells
<1>4. CallsTypeOK' /\ TargetsApart'
  BY <1>1, <1>2, <1>3 DEF CallsTypeOK, TargetsApart
<1>5. FilesTell'
  <2> SUFFICES ASSUME shell # "killed", NEW j \in Instances
               PROVE  I!Answered(j)' <=> job'[j] = "ok"
    BY <1>1 DEF FilesTell
  <2>1. CASE j = k
    <3>1. file'[k] = I!Block(k, r) /\ job'[k] = I!Verdict(r)
      BY <1>2 DEF CallsTypeOK
    <3> QED BY <2>1, <3>1, BlockTells DEF I!Answered
  <2>2. CASE j # k
    <3>1. file'[j] = file[j] /\ job'[j] = job[j]
      BY <1>2, <2>2 DEF CallsTypeOK
    <3> QED BY <3>1 DEF FilesTell, I!Answered
  <2> QED BY <2>1, <2>2
<1>6. \A i \in 1..Len(targets) : targets[i] \in Instances
  BY DEF CallsTypeOK
\* A call that is over, or has not begun, is not the one that returns.
<1>7. \A j \in Instances : job[j] # "running" => job'[j] = job[j]
  BY <1>1, <1>2 DEF CallsTypeOK
<1>8. \A j \in Instances : I!Over(j) => job'[j] = job[j] /\ I!Over(j)'
  BY <1>7 DEF I!Over
<1>9. ASSUME shell \in {"start", "fan", "flush", "exit"} PROVE LoopsSoFar'
  BY <1>1, <1>6, <1>7, <1>8, <1>9 DEF LoopsSoFar
<1>10. ASSUME shell = "wait" PROVE LoopsSoFar'
  <2>1. /\ \A i \in 1..Len(targets) : i <= turn => I!Over(targets[i])
        /\ failed <=> \E i \in 1..Len(targets) : i <= turn /\ job[targets[i]] = "failed"
    BY <1>10 DEF LoopsSoFar
  <2>2. \A i \in 1..Len(targets) :
          i <= turn => I!Over(targets[i])' /\ job'[targets[i]] = job[targets[i]]
    BY <1>1, <1>6, <1>8, <2>1 DEF I!Over
  <2> QED BY <1>1, <1>10, <2>1, <2>2 DEF LoopsSoFar
<1>11. ASSUME shell = "killed" PROVE LoopsSoFar'
  BY <1>1, <1>11 DEF LoopsSoFar
<1>12. LoopsSoFar'
  BY <1>9, <1>10, <1>11 DEF CallsTypeOK
<1> QED BY <1>4, <1>5, <1>12

LEMMA CallsStep == CallsInv /\ [I!Next]_invokeVars => CallsInv'
<1> SUFFICES ASSUME CallsInv, [I!Next]_invokeVars PROVE CallsInv'
  OBVIOUS
<1>1. CASE UNCHANGED invokeVars
  BY <1>1 DEF invokeVars, CallsInv, CallsTypeOK, TargetsApart, FilesTell, LoopsSoFar,
              I!Answered, I!Over
<1>2. CASE I!All
  <2>1. PICK found \in [1..Cardinality(socks) -> socks] :
           /\ \A i, j \in DOMAIN found : i < j => found[i] < found[j]
           /\ I!Begin(found)
    BY <1>2 DEF I!All, I!Cardinality, Cardinality
  <2>2. CallsTypeOK
    BY DEF CallsInv
  <2>3. found \in Seq(Instances) /\ \A i, j \in 1..Len(found) : found[i] = found[j] => i = j
    BY <2>1, <2>2, FoundOnce
  <2> HIDE DEF CallsInv
  <2> QED BY <2>1, <2>3, BeginKeeps
<1>3. ASSUME NEW k \in Instances, I!One(k) PROVE CallsInv'
  <2>1. CASE k \in socks
    <3>1. I!Begin(<<k>>)
      BY <1>3, <2>1 DEF I!One
    <3>2. <<k>> \in Seq(Instances) /\ \A i, j \in 1..Len(<<k>>) : <<k>>[i] = <<k>>[j] => i = j
      OBVIOUS
    <3> QED BY <3>1, <3>2, BeginKeeps
  <2>2. CASE k \notin socks
    <3>1. I!Begin(<<>>)
      BY <1>3, <2>2 DEF I!One
    <3>2. <<>> \in Seq(Instances) /\ \A i, j \in 1..Len(<<>>) : <<>>[i] = <<>>[j] => i = j
      OBVIOUS
    <3> QED BY <3>1, <3>2, BeginKeeps
  <2> QED BY <2>1, <2>2
<1>4. CASE I!Interrupted
  <2>1. /\ shell' = "killed" /\ DOMAIN file' = Instances
        /\ UNCHANGED <<socks, targets, turn, job, failed>>
    BY <1>4 DEF I!Interrupted
  <2> QED BY <2>1 DEF CallsInv, CallsTypeOK, TargetsApart, FilesTell, LoopsSoFar
<1>5. ASSUME NEW k \in Instances, I!Return(k) PROVE CallsInv'
  BY <1>5, ReturnKeeps
<1>6. CASE I!FanOut \/ I!Wait \/ I!Flush
  BY <1>6, FanOutKeeps, WaitKeeps, FlushKeeps
<1> QED BY <1>1, <1>2, <1>3, <1>4, <1>5, <1>6 DEF I!Next, I!Script

\* invoke.sh exits with 0 exactly when there was somebody to invoke and every call came
\* back with an answer that is no error, in whatever order: the loop over `wait` ends
\* only after every job, and only an answer makes a job end well.
THEOREM ExitCode == I!Spec => []ExitTellsAll
<1>1. I!Init => CallsInv
  BY InitCalls
<1>2. CallsInv /\ [I!Next]_(I!vars) => CallsInv'
  BY CallsStep DEF invokeVars, I!vars
<1>3. CallsInv => ExitTellsAll
  <2> SUFFICES ASSUME CallsInv, shell = "exit"
               PROVE  exitCode = 0 <=> targets # <<>> /\ \A i \in DOMAIN targets : I!Answered(targets[i])
    BY DEF ExitTellsAll, I!ExitTellsAll
  <2>1. DOMAIN targets = 1..Len(targets) /\ \A i \in 1..Len(targets) : targets[i] \in Instances
    BY DEF CallsInv, CallsTypeOK
  <2>2. \A i \in 1..Len(targets) : I!Answered(targets[i]) <=> job[targets[i]] = "ok"
    BY <2>1 DEF CallsInv, FilesTell
  <2>3. \A i \in 1..Len(targets) : job[targets[i]] # "failed" <=> job[targets[i]] = "ok"
    BY DEF CallsInv, LoopsSoFar, I!Over
  <2>4. exitCode = 0 <=> /\ targets # <<>>
                         /\ \A i \in 1..Len(targets) : job[targets[i]] # "failed"
    BY DEF CallsInv, LoopsSoFar
  <2> QED BY <2>1, <2>2, <2>3, <2>4
<1> QED BY <1>1, <1>2, <1>3, PTL DEF I!Spec

----------------------------------------------------------------------------
\* The lines invoke.sh prints.
Line == [is : {"header", "rule"} \cup I!Responses, of : Instances]

\* The blocks of the first n of the targets t, one after the other.
Printed(s, t, n) ==
  LET heads == I!Places(s, "header")
  IN  /\ IsFiniteSet(heads) /\ Cardinality(heads) = n
      /\ IsFiniteSet(I!Places(s, "rule")) /\ Cardinality(I!Places(s, "rule")) = n
      /\ \A i \in heads : s[i].of = t[Cardinality({h \in heads : h <= i})]
      /\ \A i \in DOMAIN s \ heads : i > 1 /\ s[i - 1].of = s[i].of

LEMMA BlockIs ==
  ASSUME NEW k \in Instances, NEW r \in I!Responses
  PROVE  /\ I!Block(k, r) \in Seq(Line) /\ Len(I!Block(k, r)) \in {2, 3}
         /\ \A i \in 1..Len(I!Block(k, r)) :
              /\ I!Block(k, r)[i].of = k
              /\ I!Block(k, r)[i].is = "header" <=> i = 1
              /\ I!Block(k, r)[i].is = "rule" <=> i = Len(I!Block(k, r))
<1> DEFINE h == I!Header(k)  b == I!Body(k, r)  l == I!Rule(k)
<1>1. /\ h \in Line /\ h.of = k /\ h.is = "header"
      /\ l \in Line /\ l.of = k /\ l.is = "rule"
      /\ b \in Line /\ b.of = k /\ b.is \notin {"header", "rule"}
  BY DEF Line, I!Header, I!Body, I!Rule, I!Responses
<1> HIDE DEF h, b, l
<1>2. CASE r = "nothing"
  <2>1. I!Block(k, r) = <<h, l>>
    BY <1>2 DEF I!Block, h, l
  <2> QED BY <1>1, <2>1
<1>3. CASE r # "nothing"
  <2>1. I!Block(k, r) = <<h, b, l>>
    BY <1>3 DEF I!Block, h, b, l
  <2> QED BY <1>1, <2>1
<1> QED BY <1>2, <1>3

\* Another block is that of the next target.
LEMMA OneMore ==
  ASSUME NEW s \in Seq(Line), NEW t \in Seq(Instances), NEW n \in Nat, n < Len(t), Printed(s, t, n),
         NEW r \in I!Responses
  PROVE  s \o I!Block(t[n + 1], r) \in Seq(Line) /\ Printed(s \o I!Block(t[n + 1], r), t, n + 1)
<1> DEFINE k == t[n + 1]
           b == I!Block(k, r)
           m == Len(b)
           u == s \o b
           heads == I!Places(s, "header")
           rules == I!Places(s, "rule")
<1>1. k \in Instances
  OBVIOUS
<1>2. /\ b \in Seq(Line) /\ m \in {2, 3}
      /\ \A i \in 1..m : /\ b[i].of = k
                         /\ b[i].is = "header" <=> i = 1
                         /\ b[i].is = "rule" <=> i = m
  BY <1>1, BlockIs
<1> HIDE DEF k, b
<1>3. /\ u \in Seq(Line) /\ Len(u) = Len(s) + m /\ Len(s) \in Nat /\ DOMAIN u = 1..(Len(s) + m)
      /\ \A i \in 1..Len(s) : u[i] = s[i]
      /\ \A i \in 1..m : u[Len(s) + i] = b[i]
  BY <1>2
<1> HIDE DEF u, m
<1>4. ASSUME NEW i \in DOMAIN u
      PROVE  \/ i \in DOMAIN s /\ u[i] = s[i]
             \/ /\ i > Len(s) /\ u[i].of = k
                /\ u[i].is = "header" <=> i = Len(s) + 1
                /\ u[i].is = "rule" <=> i = Len(s) + m
  <2>1. CASE i <= Len(s)
    BY <1>3, <2>1
  <2>2. CASE i > Len(s)
    <3>1. i - Len(s) \in 1..m /\ i = Len(s) + (i - Len(s))
      BY <1>2, <1>3, <2>2
    <3>2. PICK j \in 1..m : i = Len(s) + j
      BY <3>1
    <3>3. u[i] = b[j] /\ (j = 1 <=> i = Len(s) + 1) /\ (j = m <=> i = Len(s) + m)
      BY <1>2, <1>3, <3>2
    <3> QED BY <1>2, <2>2, <3>3
  <2> QED BY <1>3, <2>1, <2>2
<1>5. DOMAIN s = 1..Len(s) /\ Len(s) + 1 \in DOMAIN u /\ Len(s) + m \in DOMAIN u
      /\ u[Len(s) + 1].is = "header" /\ u[Len(s) + m].is = "rule" /\ u[Len(s) + 1].of = k
  <2>1. 1 \in 1..m /\ m \in 1..m
    BY <1>2
  <2>2. b[1].is = "header" /\ b[1].of = k /\ b[m].is = "rule"
    BY <1>2, <2>1
  <2>3. u[Len(s) + 1] = b[1] /\ u[Len(s) + m] = b[m]
    BY <1>3, <2>1
  <2>4. DOMAIN s = 1..Len(s) /\ Len(s) + 1 \in 1..(Len(s) + m) /\ Len(s) + m \in 1..(Len(s) + m)
    BY <1>2, <1>3
  <2> QED BY <1>3, <2>2, <2>3, <2>4
<1>6. I!Places(u, "header") = heads \cup {Len(s) + 1} /\ Len(s) + 1 \notin heads
  <2>1. \A i \in I!Places(u, "header") : i \in heads \cup {Len(s) + 1}
    BY <1>4 DEF I!Places
  <2>2. \A i \in heads : i \in I!Places(u, "header")
    BY <1>3, <1>5 DEF I!Places
  <2>3. Len(s) + 1 \in I!Places(u, "header") /\ Len(s) + 1 \notin heads
    BY <1>3, <1>5 DEF I!Places
  <2> QED BY <2>1, <2>2, <2>3
<1>7. I!Places(u, "rule") = rules \cup {Len(s) + m} /\ Len(s) + m \notin rules
  <2>1. \A i \in I!Places(u, "rule") : i \in rules \cup {Len(s) + m}
    BY <1>4 DEF I!Places
  <2>2. \A i \in rules : i \in I!Places(u, "rule")
    BY <1>3, <1>5 DEF I!Places
  <2>3. Len(s) + m \in I!Places(u, "rule") /\ Len(s) + m \notin rules
    BY <1>2, <1>3, <1>5 DEF I!Places
  <2> QED BY <2>1, <2>2, <2>3
<1>8. IsFiniteSet(heads) /\ Cardinality(heads) = n /\ IsFiniteSet(rules) /\ Cardinality(rules) = n
  BY DEF Printed
<1>9. /\ IsFiniteSet(I!Places(u, "header")) /\ Cardinality(I!Places(u, "header")) = n + 1
      /\ IsFiniteSet(I!Places(u, "rule")) /\ Cardinality(I!Places(u, "rule")) = n + 1
  BY <1>6, <1>7, <1>8, FS_AddElement
<1>10. ASSUME NEW i \in I!Places(u, "header")
       PROVE  u[i].of = t[Cardinality({h \in I!Places(u, "header") : h <= i})]
  <2>0. heads \subseteq 1..Len(s)
    BY <1>5 DEF I!Places
  <2>1. CASE i = Len(s) + 1
    <3>1. {h \in I!Places(u, "header") : h <= i} = I!Places(u, "header")
      BY <1>3, <1>6, <2>0, <2>1
    <3> QED BY <1>5, <1>9, <2>1, <3>1 DEF k
  <2>2. CASE i \in heads
    <3>1. {h \in I!Places(u, "header") : h <= i} = {h \in heads : h <= i}
      BY <1>3, <1>6, <2>0, <2>2
    <3>2. u[i] = s[i]
      BY <1>3, <2>0, <2>2
    <3> QED BY <2>2, <3>1, <3>2 DEF Printed
  <2> QED BY <1>6, <2>1, <2>2
<1>11. ASSUME NEW i \in DOMAIN u \ I!Places(u, "header")
       PROVE  i > 1 /\ u[i - 1].of = u[i].of
  <2>0. u[i].is # "header"
    BY DEF I!Places
  <2>1. CASE i \in DOMAIN s
    <3>1. i \in DOMAIN s \ heads /\ u[i] = s[i]
      BY <1>3, <1>5, <2>0, <2>1 DEF I!Places
    <3>2. i > 1 /\ s[i - 1].of = s[i].of
      BY <3>1 DEF Printed
    <3>3. i - 1 \in 1..Len(s)
      BY <1>3, <1>5, <2>1, <3>2
    <3> QED BY <1>3, <3>1, <3>2, <3>3
  <2>2. CASE i \notin DOMAIN s
    <3>1. i > Len(s) /\ i # Len(s) + 1 /\ u[i].of = k /\ i \in Nat
      BY <1>3, <1>4, <2>0, <2>2
    <3>2. i - 1 \in DOMAIN u /\ i - 1 \notin DOMAIN s
      BY <1>2, <1>3, <1>5, <3>1
    <3>3. u[i - 1].of = k
      BY <1>4, <3>2
    <3> QED BY <1>3, <3>1, <3>3
  <2> QED BY <2>1, <2>2
<1>12. Printed(u, t, n + 1)
  BY <1>9, <1>10, <1>11 DEF Printed
<1> QED BY <1>3, <1>12 DEF u, b, k

\* A job that is over has left its block, and what is printed is the blocks so far.
FilesAreBlocks ==
  shell # "killed" => \A k \in Instances : I!Over(k) => \E r \in I!Responses : file[k] = I!Block(k, r)

PrintedSoFar ==
  /\ out \in Seq(Line)
  /\ \E n \in Nat : /\ n <= Len(targets) /\ Printed(out, targets, n)
                    /\ shell \in {"start", "fan", "wait"} => n = 0 /\ out = <<>>
                    /\ shell = "flush" => n = turn
                    /\ shell = "exit" => n = Len(targets)

PrintedInv == CallsInv /\ FilesAreBlocks /\ PrintedSoFar

LEMMA NothingPrinted == ASSUME NEW t PROVE <<>> \in Seq(Line) /\ Printed(<<>>, t, 0)
<1>1. \A what : I!Places(<<>>, what) = {}
  BY DEF I!Places
<1>2. IsFiniteSet({}) /\ Cardinality({}) = 0
  BY FS_EmptySet
<1>3. DOMAIN <<>> = {} /\ <<>> \in Seq(Line)
  OBVIOUS
<1> QED BY <1>1, <1>2, <1>3 DEF Printed

LEMMA PrintedNext ==
  ASSUME out' \in Seq(Line), NEW n \in Nat, n <= Len(targets'), Printed(out', targets', n),
         shell' \in {"start", "fan", "wait"} => n = 0 /\ out' = <<>>,
         shell' = "flush" => n = turn', shell' = "exit" => n = Len(targets')
  PROVE  PrintedSoFar'
BY DEF PrintedSoFar, Printed, I!Places

LEMMA FlushPrints == ASSUME PrintedInv, I!Flush PROVE PrintedSoFar'
<1>1. shell = "flush" /\ UNCHANGED targets /\ turn \in Nat /\ Len(targets) \in Nat /\ targets \in Seq(Instances)
  BY DEF I!Flush, I!Through, PrintedInv, CallsInv, CallsTypeOK
<1>2. out \in Seq(Line) /\ Printed(out, targets, turn)
  BY <1>1 DEF PrintedInv, PrintedSoFar
<1>3. CASE turn < Len(targets)
  <2>1. out' = out \o file[targets[turn + 1]] /\ turn' = turn + 1 /\ UNCHANGED shell
    BY <1>3 DEF I!Flush, I!Through
  <2>2. targets[turn + 1] \in Instances /\ I!Over(targets[turn + 1])
    BY <1>1, <1>3 DEF PrintedInv, CallsInv, LoopsSoFar
  <2>3. PICK r \in I!Responses : file[targets[turn + 1]] = I!Block(targets[turn + 1], r)
    BY <1>1, <2>2 DEF PrintedInv, FilesAreBlocks
  <2>4. out' \in Seq(Line) /\ Printed(out', targets, turn + 1)
    BY <1>1, <1>2, <1>3, <2>1, <2>3, OneMore
  <2>5. turn + 1 \in Nat /\ turn + 1 <= Len(targets)
    BY <1>1, <1>3
  <2> QED BY <1>1, <2>1, <2>4, <2>5, PrintedNext
<1>4. CASE ~ (turn < Len(targets))
  <2>1. turn = Len(targets) /\ shell' = "exit" /\ UNCHANGED out
    BY <1>4 DEF I!Flush, I!Through
  <2> QED BY <1>1, <1>2, <2>1, PrintedNext
<1> QED BY <1>3, <1>4

LEMMA OthersPrintNothing ==
  ASSUME PrintedInv, UNCHANGED out, targets' \in Seq(Instances),
         \/ shell = "start" /\ (shell' = "fan" \/ (shell' = "exit" /\ targets' = <<>>))
         \/ UNCHANGED targets /\ shell \in {"fan", "wait"} /\ shell' = shell
         \/ UNCHANGED targets /\ shell = "fan" /\ shell' = "wait"
         \/ UNCHANGED targets /\ shell = "wait" /\ shell' = "flush" /\ turn' = 0
         \/ UNCHANGED targets /\ shell' = "killed"
         \/ UNCHANGED <<targets, shell, turn>>
  PROVE  PrintedSoFar'
<1>1. PICK n \in Nat : /\ n <= Len(targets) /\ Printed(out, targets, n)
                       /\ shell \in {"start", "fan", "wait"} => n = 0 /\ out = <<>>
                       /\ shell = "flush" => n = turn
                       /\ shell = "exit" => n = Len(targets)
  BY DEF PrintedInv, PrintedSoFar
<1>2. out' \in Seq(Line) /\ Len(targets') \in Nat
  BY DEF PrintedInv, PrintedSoFar
<1>3. CASE shell = "start" /\ (shell' = "fan" \/ (shell' = "exit" /\ targets' = <<>>))
  <2>1. out' = <<>> /\ Printed(<<>>, targets', 0)
    BY <1>1, <1>3, NothingPrinted
  <2> QED BY <1>2, <1>3, <2>1 DEF PrintedSoFar, Printed, I!Places
<1>4. CASE UNCHANGED targets
  <2>1. /\ shell' \in {"start", "fan", "wait"} => n = 0 /\ out' = <<>>
        /\ shell' = "flush" => n = turn'
        /\ shell' = "exit" => n = Len(targets')
    BY <1>1, <1>4
  <2>2. Printed(out', targets', n)
    BY <1>1, <1>4
  <2> QED BY <1>1, <1>2, <1>4, <2>1, <2>2 DEF PrintedSoFar, Printed, I!Places
<1> QED BY <1>3, <1>4

LEMMA PrintedStep == PrintedInv /\ CallsInv' /\ [I!Next]_invokeVars => PrintedInv'
<1> SUFFICES ASSUME PrintedInv, CallsInv', [I!Next]_invokeVars PROVE PrintedInv'
  OBVIOUS
<1>1. targets' \in Seq(Instances) /\ shell \in {"start", "fan", "wait", "flush", "exit", "killed"}
  BY DEF PrintedInv, CallsInv, CallsTypeOK
<1>2. FilesAreBlocks'
  <2> SUFFICES ASSUME shell' # "killed", NEW k \in Instances, I!Over(k)'
               PROVE  \E r \in I!Responses : file'[k] = I!Block(k, r)
    BY DEF FilesAreBlocks, I!Block, I!Header, I!Body, I!Rule, I!Responses
  <2>1. ASSUME NEW j \in Instances, I!Return(j) PROVE \E r \in I!Responses : file'[k] = I!Block(k, r)
    <3>1. PICK r \in I!Responses :
             /\ job' = [job EXCEPT ![j] = I!Verdict(r)] /\ shell' = shell
             /\ file' = IF shell = "killed" THEN file ELSE [file EXCEPT ![j] = I!Block(j, r)]
      BY <2>1 DEF I!Return
    <3>2. CASE k = j
      BY <3>1, <3>2 DEF PrintedInv, CallsInv, CallsTypeOK
    <3>3. CASE k # j
      <4>1. file'[k] = file[k] /\ I!Over(k)
        BY <3>1, <3>3 DEF PrintedInv, CallsInv, CallsTypeOK, I!Over
      <4> QED BY <3>1, <4>1 DEF PrintedInv, FilesAreBlocks
    <3> QED BY <3>2, <3>3
  <2>2. CASE UNCHANGED file /\ (UNCHANGED job \/ I!FanOut) /\ shell # "killed"
    <3>1. I!Over(k)
      BY <2>2 DEF I!FanOut, I!Through, I!Over, PrintedInv, CallsInv, CallsTypeOK
    <3> QED BY <2>2, <3>1 DEF PrintedInv, FilesAreBlocks
  <2>3. (\E j \in Instances : I!Return(j)) \/ (UNCHANGED file /\ (UNCHANGED job \/ I!FanOut) /\ shell # "killed")
    BY DEF I!Next, I!Script, I!All, I!One, I!Begin, I!FanOut, I!Through, I!Wait, I!Flush,
           I!Interrupted, invokeVars
  <2> QED BY <2>1, <2>2, <2>3
<1>3. PrintedSoFar'
  <2>1. CASE I!Flush
    BY <2>1, FlushPrints
  <2>2. CASE I!All \/ \E k \in Instances : I!One(k)
    <3>1. PICK found : I!Begin(found)
      BY <2>2 DEF I!All, I!One
    <3>2. UNCHANGED out /\ shell = "start" /\ (shell' = "fan" \/ (shell' = "exit" /\ targets' = <<>>))
      BY <3>1 DEF I!Begin
    <3> QED BY <1>1, <3>2, OthersPrintNothing
  <2>3. CASE I!FanOut
    BY <1>1, <2>3, OthersPrintNothing DEF I!FanOut, I!Through
  <2>4. CASE I!Wait
    BY <1>1, <2>4, OthersPrintNothing DEF I!Wait, I!Through
  <2>5. CASE I!Interrupted
    BY <1>1, <2>5, OthersPrintNothing DEF I!Interrupted
  <2>6. CASE UNCHANGED invokeVars \/ \E k \in Instances : I!Return(k)
    <3>1. UNCHANGED <<out, targets, shell, turn>>
      BY <2>6 DEF invokeVars, I!Return
    <3> QED BY <1>1, <3>1, OthersPrintNothing
  <2> QED BY <2>1, <2>2, <2>3, <2>4, <2>5, <2>6 DEF I!Next, I!Script
<1> QED BY <1>2, <1>3 DEF PrintedInv

\* "Flushed in instance order, so parallel output doesn't interleave": in whatever order
\* the calls come back, invoke.sh prints the blocks of the first targets, each whole and
\* once, and of all of them before it exits.
THEOREM Output == I!Spec => []OutputInOrder
<1>1. I!Init => CallsInv
  BY InitCalls
<1>2. CallsInv /\ [I!Next]_(I!vars) => CallsInv'
  BY CallsStep DEF invokeVars, I!vars
<1>3. I!Init => PrintedInv
  <2> SUFFICES ASSUME I!Init PROVE PrintedInv
    OBVIOUS
  <2>1. shell = "start" /\ out = <<>> /\ targets = <<>> /\ job = [k \in Instances |-> "none"]
    BY DEF I!Init
  <2>2. FilesAreBlocks
    BY <2>1 DEF FilesAreBlocks, I!Over
  <2>3. 0 <= Len(targets) /\ <<>> \in Seq(Line) /\ Printed(<<>>, targets, 0)
    BY <2>1, NothingPrinted
  <2>4. PrintedSoFar
    BY <2>1, <2>3 DEF PrintedSoFar
  <2> QED BY <1>1, <2>2, <2>4 DEF PrintedInv
<1>4. PrintedInv /\ CallsInv' /\ [I!Next]_(I!vars) => PrintedInv'
  BY PrintedStep DEF invokeVars, I!vars
<1>5. PrintedInv => OutputInOrder
  <2> SUFFICES ASSUME PrintedInv PROVE OutputInOrder
    OBVIOUS
  <2>1. PICK n \in Nat : n <= Len(targets) /\ Printed(out, targets, n) /\ (shell = "exit" => n = Len(targets))
    BY DEF PrintedInv, PrintedSoFar
  <2>2. \A S : I!Cardinality(S) = Cardinality(S)
    BY DEF I!Cardinality, Cardinality
  <2> QED BY <2>1, <2>2 DEF Printed, OutputInOrder, I!OutputInOrder
<1> QED BY <1>1, <1>2, <1>3, <1>4, <1>5, PTL DEF I!Spec
=============================================================================
