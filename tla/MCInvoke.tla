------------------------------ MODULE MCInvoke ------------------------------
(***************************************************************************)
(* What an invocation owes its caller (see Invoke), for TLC.               *)
(***************************************************************************)
EXTENDS Invoke

Places(lines, what) == {i \in DOMAIN lines : lines[i].is = what}

Answered(k) == \E i \in DOMAIN file[k] : file[k][i].is \in {"answer", "text"}

\* "Exits non-zero if any invocation fails": the exit code is 0 if there was somebody
\* to invoke and every function called gave an answer that is no error, in whatever
\* order the answers came back.
ExitTellsAll ==
  pc = "exit" =>
    (code = 0 <=> targets # <<>> /\ \A i \in DOMAIN targets : Answered(targets[i]))

\* "Flushed in instance order, so parallel output doesn't interleave": the headers
\* printed are those of the first targets, ascending, each line belongs to the header
\* above it, and at the end every target has its block, the failed ones too.
OutputInOrder ==
  LET heads == Places(out, "header")
  IN  /\ Cardinality(heads) <= Len(targets)
      /\ Cardinality(Places(out, "rule")) = Cardinality(heads)
      /\ \A i \in heads : out[i].of = targets[Cardinality({h \in heads : h <= i})]
      /\ \A i \in DOMAIN out \ heads : i > 1 /\ out[i - 1].of = out[i].of
      /\ pc = "exit" => Cardinality(heads) = Len(targets)
=============================================================================
