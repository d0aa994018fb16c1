----------------------------- MODULE SaafDriver -----------------------------
(***************************************************************************)
(* saaf_driver.py: the SAAF experiment driver, and the function it calls   *)
(* (function/handler.py).  One thread per endpoint posts that endpoint's   *)
(* slice of the payload list to its guest, one call after another; answers *)
(* that are usable go to a list all threads share, from which the main     *)
(* thread writes a report per iteration and, at the end, a combined one.   *)
(* A guest's runtime interface emulator (RIE) takes one invocation at a    *)
(* time; the ones that come meanwhile wait in it.                          *)
(***************************************************************************)
EXTENDS Naturals, Sequences, FiniteSets

CONSTANTS
  Endpoints,     \* how many function files the driver is given
  Runs,          \* exp['runs'], over all endpoints
  Payloads,      \* exp['payloads'] merged with the parent payload, each by its method
  Benchmarks,    \* the methods the handler knows
  Orders,        \* what random.shuffle may make of the list, as permutations of its indices
  Iterations,    \* exp['iterations']
  WarmupBuffer,  \* exp['warmupBuffer']
  CombineSheets  \* exp['combineSheets']

ASSUME EndpointsAssumption  == Endpoints \in Nat \ {0}
ASSUME RunsAssumption       == Runs \in Nat
ASSUME PayloadsAssumption   == Payloads \in Seq(STRING) \ {<<>>} /\ Benchmarks \subseteq STRING
ASSUME IterationsAssumption == Iterations \in Nat
ASSUME WarmupAssumption     == WarmupBuffer \in Nat /\ CombineSheets \in BOOLEAN

VARIABLES
  phase,    \* of the main thread: "start", "iterate", "run", "report", "combine", "exit"
  list,     \* payload_list
  it,       \* i, the iteration
  next,     \* per endpoint, the run its thread does next; past the last one, it is through
  call,     \* per endpoint, "none" or the request its thread waits for
  guest,    \* per endpoint, the invocations its RIE holds, the served one first
  results,  \* the list the threads append to
  all,      \* all_iterations
  reports,  \* the reports written: iteration, or Combined, to its records
  code      \* the exit code, once phase is "exit"

driverVars == <<phase, list, it, next, call, guest, results, all, reports, code>>

Eps            == 0..(Endpoints - 1)
RunsPerEndpoint == Runs \div Endpoints
Combined       == Iterations        \* the key of the combined report

\* The length of build_payload_list's list: whole copies of the payloads until there
\* are enough of them.
Copies == IF RunsPerEndpoint * Endpoints <= Len(Payloads) THEN 1
          ELSE (RunsPerEndpoint * Endpoints + Len(Payloads) - 1) \div Len(Payloads)

Duplicated == [i \in 0..(Copies * Len(Payloads) - 1) |-> Payloads[(i % Len(Payloads)) + 1]]

\* exp['shufflePayloads'] shuffles all of it, the seed decides how.
PayloadLists ==
  {Duplicated} \cup {[i \in DOMAIN Duplicated |-> Duplicated[o[i]]] : o \in Orders}

\* The place in payload_list of run r of endpoint e.
Slot(e, r) == e * RunsPerEndpoint + r

\* post_process: the answer, stamped with where it comes from.
Record(e, r) == [iteration |-> it, endpoint |-> e, run |-> r, slot |-> Slot(e, r)]

\* handler: a method without a benchmark is answered with an errorMessage only.
Dispatched(method) == IF method \in Benchmarks THEN "benchmark" ELSE "error"

\* What the guest's RIE sends back: the benchmark's own answer carries SAAF's version;
\* it may fail, and then there is an error without a version or no JSON at all.
Answers(method) ==
  IF Dispatched(method) = "benchmark" THEN {"version", "no version"} ELSE {"no version"}

\* Mutant: whatever parses is taken for a result.
Usable_Parses(answer) == answer \in {"version", "no version"}

\* faas_runner's gate for a usable response.
Usable(answer) == answer = "version"

DriverInit ==
  /\ phase   = "start"
  /\ list    = Duplicated
  /\ it      = 0
  /\ next    = [e \in Eps |-> RunsPerEndpoint]
  /\ call    = [e \in Eps |-> "none"]
  /\ guest   = [e \in Eps |-> <<>>]
  /\ results = <<>>
  /\ all     = <<>>
  /\ reports = [i \in {} |-> <<>>]
  /\ code    = 0

(***************************************************************************)
(* The main thread.                                                        *)
(***************************************************************************)
\* More endpoints than runs is refused; otherwise the list is made, once for all
\* iterations.
Start ==
  /\ phase = "start"
  /\ IF Runs < Endpoints
     THEN phase' = "exit" /\ code' = 1 /\ UNCHANGED list
     ELSE phase' = "iterate" /\ list' \in PayloadLists /\ UNCHANGED code
  /\ UNCHANGED <<it, next, call, guest, results, all, reports>>

\* run_iteration: a fresh list, and one task per endpoint in the pool.
BeginIteration ==
  /\ phase = "iterate" /\ it < Iterations
  /\ phase'   = "run"
  /\ next'    = [e \in Eps |-> 0]
  /\ results' = <<>>
  /\ UNCHANGED <<list, it, call, guest, all, reports, code>>

\* A thread of the pool is through with its slice.
Idle(e) == next[e] = RunsPerEndpoint /\ call[e] = "none"

\* Mutant: the pool is not waited for.
PoolDone_NoWait == \E e \in Eps : Idle(e)

\* Leaving the `with` block of the pool waits for every thread.
PoolDone == \A e \in Eps : Idle(e)

EndIteration ==
  /\ phase = "run" /\ PoolDone
  /\ all'   = Append(all, results)
  /\ phase' = "report"
  /\ UNCHANGED <<list, it, next, call, guest, results, reports, code>>

\* An iteration without a single usable answer has no report.
Report ==
  /\ phase = "report"
  /\ reports' = IF results = <<>> THEN reports
                ELSE [i \in DOMAIN reports \cup {it} |-> IF i = it THEN results ELSE reports[i]]
  /\ it'    = it + 1
  /\ phase' = "iterate"
  /\ UNCHANGED <<list, next, call, guest, results, all, code>>

\* The records of the iterations from i on, in order.
From[i \in Nat] == IF i >= Len(all) THEN <<>> ELSE all[i + 1] \o From[i + 1]

\* Mutant: the first iteration after the warmup is dropped, too.
AfterWarmup_OffByOne == From[WarmupBuffer + 1]

AfterWarmup == From[WarmupBuffer]

Combine ==
  /\ phase = "iterate" /\ it = Iterations
  /\ phase' = "combine"
  /\ reports' =
       IF CombineSheets /\ Iterations > 1 /\ AfterWarmup # <<>>
       THEN [i \in DOMAIN reports \cup {Combined} |->
               IF i = Combined THEN AfterWarmup ELSE reports[i]]
       ELSE reports
  /\ UNCHANGED <<list, it, next, call, guest, results, all, code>>

Failed == Cardinality({i \in DOMAIN all : all[i] = <<>>}) = Iterations

Exit ==
  /\ phase = "combine"
  /\ phase' = "exit"
  /\ code'  = IF Failed THEN 1 ELSE 0
  /\ UNCHANGED <<list, it, next, call, guest, results, all, reports>>

(***************************************************************************)
(* The thread of endpoint e, and its guest.                                *)
(***************************************************************************)
Working(e) == next[e] < RunsPerEndpoint

Post(e) ==
  /\ Working(e) /\ call[e] = "none"
  /\ call'  = [call EXCEPT ![e] = "waiting"]
  /\ guest' = [guest EXCEPT ![e] = Append(@, next[e])]
  /\ UNCHANGED <<phase, list, it, next, results, all, reports, code>>

\* The connection is refused or breaks before the guest has the request.
Refused(e) ==
  /\ Working(e) /\ call[e] = "none"
  /\ next' = [next EXCEPT ![e] = @ + 1]
  /\ UNCHANGED <<phase, list, it, call, guest, results, all, reports, code>>

\* The guest finishes the invocation at the head.  Its answer reaches the thread
\* if that is the request the thread waits for, and is lost otherwise.
Answer(e) ==
  /\ guest[e] # <<>>
  /\ guest' = [guest EXCEPT ![e] = Tail(@)]
  /\ IF call[e] = "waiting" /\ Len(guest[e]) = 1
     THEN /\ call' = [call EXCEPT ![e] = "none"]
          /\ next' = [next EXCEPT ![e] = @ + 1]
          /\ \E a \in Answers(list[Slot(e, next[e])]) :
               results' = IF Usable(a) THEN Append(results, Record(e, next[e])) ELSE results
     ELSE UNCHANGED <<call, next, results>>
  /\ UNCHANGED <<phase, list, it, all, reports, code>>

\* Mutant: requests.post without a timeout.
Timeout_Never(e) ==
  /\ call[e] = "waiting" /\ FALSE
  /\ UNCHANGED driverVars

\* httpTimeout passes: the run is given up, the guest
\* goes on with it.
Timeout(e) ==
  /\ call[e] = "waiting"
  /\ call' = [call EXCEPT ![e] = "none"]
  /\ next' = [next EXCEPT ![e] = @ + 1]
  /\ UNCHANGED <<phase, list, it, guest, results, all, reports, code>>

Main    == Start \/ BeginIteration \/ EndIteration \/ Report \/ Combine \/ Exit
Thread(e) == Post(e) \/ Timeout(e)

DriverNext == Main \/ \E e \in Eps : Post(e) \/ Refused(e) \/ Timeout(e) \/ Answer(e)

DriverSpec == DriverInit /\ [][DriverNext]_driverVars

\* Python's threads are scheduled and a request that is not answered times out; a
\* guest may never answer.
DriverFairness == WF_driverVars(Main) /\ \A e \in Eps : WF_driverVars(Thread(e))
=============================================================================
