---------------------------- MODULE MCSaafDriver ----------------------------
(***************************************************************************)
(* What a SAAF experiment owes its reader (see SaafDriver), for TLC.       *)
(***************************************************************************)
EXTENDS SaafDriver

\* Two methods the handler knows and one it does not.
ThreePayloads == <<"float", "csv", "flaot">>
KnownMethods  == {"float", "csv"}

\* Of the orders of six payloads: the halves of each pair swapped.
OneOrder == {[i \in 0..5 |-> IF i % 2 = 0 THEN i + 1 ELSE i - 1]}

Elements(s) == {s[i] : i \in DOMAIN s}

\* The records on the shared list are of different slots of the payload list, each below
\* the runs the report's header states, and of payloads the handler has a benchmark for.
\* Unless the list is shuffled, no payload has had a whole turn more than another can,
\* as often as the experiment names it.
PayloadsOnce ==
  /\ \A i, j \in DOMAIN results :
       /\ results[i].slot = results[j].slot => i = j
       /\ results[i].slot < RunsPerEndpoint * Endpoints
       /\ list[results[i].slot] \in Benchmarks
  /\ list = Duplicated =>
       \A p \in Elements(Payloads) :
         Cardinality({i \in DOMAIN results : list[results[i].slot] = p})
           <= Cardinality({k \in DOMAIN Payloads : Payloads[k] = p})
                * ((RunsPerEndpoint * Endpoints) \div Len(Payloads) + 1)

\* A written report holds exactly the answers of its own iteration: none that came
\* late from an earlier one, and all that came before the pool was through.
ReportsComplete ==
  \A i \in DOMAIN reports \ {Combined} :
    /\ reports[i] = all[i + 1]
    /\ \A r \in Elements(reports[i]) : r.iteration = i
    /\ it = i + 1 /\ phase = "iterate" => reports[i] = results

\* The combined report, if there is to be one, leaves out the warmup iterations and
\* nothing else, and it is missing only when nothing is left.
WarmupLeftOut ==
  phase = "exit" /\ CombineSheets /\ Iterations > 1 =>
    LET kept == UNION {Elements(reports[i]) :
                         i \in {d \in DOMAIN reports : WarmupBuffer <= d /\ d < Combined}}
    IN  kept = IF Combined \in DOMAIN reports THEN Elements(reports[Combined]) ELSE {}
=============================================================================
