------------------------------- MODULE Invoke -------------------------------
(***************************************************************************)
(* invoke.sh: one call to the function in every VM of a fleet, or in one   *)
(* of them.  The calls run as background jobs at the same time, each with  *)
(* a file for its output; the script waits for all of them and then prints *)
(* the files in the order of the instances.                                *)
(***************************************************************************)
EXTENDS Naturals, Sequences, FiniteSets

CONSTANT Ids  \* instances that may be up, natural numbers

VARIABLES
  pc,       \* "start", "fan", "wait", "flush"; "exit", or "killed" by a signal
  sock,     \* instances whose socket file exists
  targets,  \* TARGETS
  at,       \* how many targets the current loop is through with
  job,      \* of each instance: "none", "running", and then "ok" or "failed"
  file,     \* the lines of its output file
  failed,   \* FAILED
  out,      \* the lines printed
  code      \* the exit code

vars == <<pc, sock, targets, at, job, file, failed, out, code>>

\* What curl has in the end: an answer of the function, its error, something that is no
\* JSON, or (timeout, no connection, HTTP error) nothing.
Responses == {"answer", "error", "text", "nothing"}

Header(k)  == [is |-> "header", of |-> k]
Body(k, r) == [is |-> r, of |-> k]
Rule(k)    == [is |-> "rule", of |-> k]

\* What invoke_one prints of a response.
Block(k, r) ==
  IF r = "nothing" THEN <<Header(k), Rule(k)>> ELSE <<Header(k), Body(k, r), Rule(k)>>

\* Mutant: only a curl that fails makes an invocation fail.
Verdict_NoBody(r) == IF r = "nothing" THEN "failed" ELSE "ok"

\* What is not JSON has no .errorMessage, and passes.
Verdict(r) == IF r \in {"nothing", "error"} THEN "failed" ELSE "ok"

Init ==
  /\ pc = "start"
  /\ sock \in SUBSET Ids
  /\ targets = <<>> /\ at = 0
  /\ job  = [k \in Ids |-> "none"]
  /\ file = [k \in Ids |-> <<>>]
  /\ failed = FALSE
  /\ out = <<>>
  /\ code = 0

(***************************************************************************)
(* The script.                                                             *)
(***************************************************************************)
Begin(found) ==
  /\ pc = "start"
  /\ targets' = found
  /\ IF found = <<>> THEN pc' = "exit" /\ code' = 1 ELSE pc' = "fan" /\ UNCHANGED code
  /\ UNCHANGED <<sock, at, job, file, failed, out>>

\* -a: the sockets there are, in ascending order.
All ==
  \E found \in [1..Cardinality(sock) -> sock] :
    /\ \A i, j \in DOMAIN found : i < j => found[i] < found[j]
    /\ Begin(found)

\* -i k.
One(k) == Begin(IF k \in sock THEN <<k>> ELSE <<>>)

Through(from, to) == pc = from /\ at = Len(targets) /\ pc' = to /\ at' = 0

FanOut ==
  \/ /\ pc = "fan" /\ at < Len(targets)
     /\ job' = [job EXCEPT ![targets[at + 1]] = "running"]
     /\ at' = at + 1
     /\ UNCHANGED <<pc, sock, targets, file, failed, out, code>>
  \/ /\ Through("fan", "wait")
     /\ UNCHANGED <<sock, targets, job, file, failed, out, code>>

Over(k) == job[k] \in {"ok", "failed"}

Wait ==
  \/ /\ pc = "wait" /\ at < Len(targets)
     /\ Over(targets[at + 1])
     /\ failed' = (failed \/ job[targets[at + 1]] = "failed")
     /\ at' = at + 1
     /\ UNCHANGED <<pc, sock, targets, job, file, out, code>>
  \/ /\ Through("wait", "flush")
     /\ UNCHANGED <<sock, targets, job, file, failed, out, code>>

Flush ==
  \/ /\ pc = "flush" /\ at < Len(targets)
     /\ out' = out \o file[targets[at + 1]]
     /\ at' = at + 1
     /\ UNCHANGED <<pc, sock, targets, job, file, failed, code>>
  \/ /\ Through("flush", "exit")
     /\ code' = IF failed THEN 1 ELSE 0
     /\ UNCHANGED <<sock, targets, job, file, failed, out>>

\* INT or TERM: the EXIT trap removes the files; the jobs, which ignore the
\* terminal's interrupt, stay until their curl returns.
Interrupted ==
  /\ pc \in {"fan", "wait", "flush"}
  /\ pc' = "killed"
  /\ file' = [k \in Ids |-> <<>>]
  /\ UNCHANGED <<sock, targets, at, job, failed, out, code>>

(***************************************************************************)
(* The jobs.                                                               *)
(***************************************************************************)
\* Mutant: no job has a file of its own.
Return_Unbuffered(k) ==
  /\ job[k] = "running"
  /\ \E r \in Responses :
       /\ job' = [job EXCEPT ![k] = Verdict(r)]
       /\ out' = out \o Block(k, r)
  /\ UNCHANGED <<pc, sock, targets, at, file, failed, code>>

\* curl returns, after --max-time at the latest.
Return(k) ==
  /\ job[k] = "running"
  /\ \E r \in Responses :
       /\ job'  = [job EXCEPT ![k] = Verdict(r)]
       /\ file' = IF pc = "killed" THEN file ELSE [file EXCEPT ![k] = Block(k, r)]
  /\ UNCHANGED <<pc, sock, targets, at, failed, out, code>>

Script == All \/ (\E k \in Ids : One(k)) \/ FanOut \/ Wait \/ Flush

Next == Script \/ Interrupted \/ \E k \in Ids : Return(k)

Spec == Init /\ [][Next]_vars

\* The shell runs its next command, and curl has a --max-time.
Fairness == WF_vars(Script) /\ \A k \in Ids : WF_vars(Return(k))
=============================================================================
