------------------------------ MODULE Recording ------------------------------
(***************************************************************************)
(* How the files of a run come about while it runs.  fc_rapl.py, or        *)
(* turbostat and fc_turbostat_to_csv.py behind it, samples the power of    *)
(* the host, fc_proc.py the CPU time of a VM, and fc_experiment.sh invokes *)
(* the VMs in rounds.  Each of the three counts from a time of its own,    *)
(* samples when the scheduler lets it, and stamps its rows with the wall   *)
(* clock.  Trace then reads the files.                                     *)
(***************************************************************************)
EXTENDS Trace

CONSTANTS
  Interval, \* between two samples
  Jitter,   \* by which a sample may be late
  MaxLate,  \* so many times
  Lag,      \* by which the wall clock is read after the sample's own clock
  Skew,     \* by which the collectors begin apart
  Spread,   \* by which the invocations of a round begin apart
  Lead,     \* baseline before the first round
  Plans,    \* how many VMs, and how many rounds: pairs
  Gap,      \* DELAY between them
  Horizon,  \* where the clock is stopped
  Epoch     \* the wall clock at time 0

ASSUME RecordingAssumption ==
  /\ Interval \in Nat \ {0} /\ {Jitter, MaxLate, Lag, Skew, Spread, Lead, Gap, Horizon, Epoch} \subseteq Nat
  /\ Plans \subseteq (Nat \ {0}) \X Nat

VARIABLES
  now,      \* ticks since the first collector began
  source,   \* "rapl" or "turbostat": which collector this host has
  tries,    \* attempt of fc_turbostat.sh, 1 to 3
  conv,     \* the converter: cur_cols and t0
  out,      \* the power file
  t0,       \* where fc_rapl.py and fc_proc.py begin to count
  last,     \* when the power and the proc collector took their last sample
  late,     \* samples that were late
  procEl,   \* elapsed_s of the rows of proc.csv
  used,     \* energy of the package since the last power sample
  watched,  \* history: when each row of the power file was taken
  plan,     \* VMs and rounds of this run
  call,     \* of each VM, its invocation: "idle", "due", "running" or "done"
  began,    \* start of its last invocation
  round,    \* rounds fired
  fired,    \* when the last of them was; its end, once it is over
  loopT0,   \* T0, when the loop began
  inv       \* the rows of invocations.csv

power == <<source, tries, conv, out, t0, used, watched>>
loop  == <<plan, call, began, round, fired, loopT0, inv>>
vars  == <<now, power, last, late, procEl, loop>>

Instances  == 0..(plan[1] - 1)
Collectors == {"power", "proc"}
\* vm_out: with one VM its traces are beside the power file, otherwise not.
Traced     == IF plan[1] = 1 THEN Collectors ELSE {"power"}
Running    == {k \in Instances : call[k] = "running"}
NoFile     == [cols |-> <<>>, rows |-> <<>>]

\* What an attempt asks turbostat for: the third has no power columns.
Shown(n) == IF n < 3 THEN <<<<"package", 0>>, <<"dram", 0>>, <<"pkgtmp", 0>>>> ELSE <<<<"pkgtmp", 0>>>>

Init ==
  /\ now = 0
  /\ source \in {"rapl", "turbostat"}
  /\ tries = 1
  /\ conv = [cols |-> <<>>, t0 |-> None]
  /\ out = [NoFile EXCEPT !.cols = IF source = "rapl" THEN SubSeq(Shown(1), 1, 2) ELSE <<>>]
  /\ plan \in Plans
  /\ t0 \in [Collectors -> 0..Skew] /\ \E c \in Traced : t0[c] = 0
  /\ Traced # Collectors => t0["proc"] = 0
  /\ last = t0 /\ late = 0
  /\ procEl = <<>> /\ used = 0 /\ watched = <<>>
  /\ call = [k \in Instances |-> "idle"] /\ began = [k \in Instances |-> 0]
  /\ round = 0 /\ fired = 0 /\ loopT0 = 0
  /\ inv = <<>>

(***************************************************************************)
(* Time, and the energy the host uses: one unit, and one for each          *)
(* invocation that runs.                                                   *)
(***************************************************************************)
Tick ==
  /\ now < Horizon
  /\ \A c \in Traced : now < last[c] + Interval + (IF late < MaxLate THEN Jitter ELSE 0)
  /\ \A k \in Instances : call[k] = "due" => now < fired + Spread
  /\ now' = now + 1
  /\ used' = IF now < t0["power"] THEN 0 ELSE used + 1 + Cardinality(Running)
  /\ UNCHANGED <<source, tries, conv, out, t0, watched, last, late, procEl, loop>>

(***************************************************************************)
(* The power collector.                                                    *)
(***************************************************************************)
\* Watts, in units that divide by every interval.
Watts(n, dt) == (n * Interval * (Interval + Jitter)) \div dt

\* What a column holds at a sample.
Reading(c, dt) == IF c[1] = "package" THEN Watts(used, dt) ELSE 1

\* Rows after the first lag behind without effect.
Append1(file, lag, el, w) ==
  [file EXCEPT !.rows = Append(@, [ts |-> Epoch + now + (IF file.rows = <<>> THEN lag ELSE 0),
                                   el |-> el, w |-> w])]

Due(c) == now >= last[c] + Interval

Took(c) == /\ last' = [last EXCEPT ![c] = now]
           /\ late' = IF now > last[c] + Interval THEN late + 1 ELSE late
           /\ UNCHANGED <<now, loop>>

SampleRapl ==
  /\ source = "rapl" /\ Due("power")
  /\ \E lag \in 0..Lag :
       out' = Append1(out, lag, now - t0["power"],
                      [c \in Range(out.cols) |-> Reading(c, now - last["power"])])
  /\ used' = 0 /\ watched' = Append(watched, now)
  /\ Took("power")
  /\ UNCHANGED <<source, tries, conv, t0, procEl>>

\* fc_turbostat_to_csv.py reads a header, which turbostat prints with its first row: the
\* first one of a process opens the file.  Attempts that print nothing are passed over,
\* and attempt 2 asks for what attempt 1 does.
ReadHeader ==
  /\ source = "turbostat" /\ conv.cols = <<>> /\ Due("power")
  /\ tries' \in {tries, 3}
  /\ conv' = [conv EXCEPT !.cols = Shown(tries')]
  /\ out'  = [cols |-> Shown(tries'), rows |-> <<>>]
  /\ watched' = <<>>
  /\ UNCHANGED <<now, source, t0, used, last, late, procEl, loop>>

\* It reads a row: the first one is taken to end one interval.
ReadRow ==
  /\ source = "turbostat" /\ conv.cols # <<>> /\ Due("power")
  /\ LET origin == IF conv.t0 = None THEN now - Interval ELSE conv.t0
         w      == [i \in DOMAIN conv.cols |-> Reading(conv.cols[i], now - last["power"])]
         named(c) == CHOOSE i \in DOMAIN conv.cols : conv.cols[i] = c
     IN  /\ conv' = [conv EXCEPT !.t0 = origin]
         /\ \E lag \in 0..Lag :
              out' = Append1(out, lag, now - origin, [c \in Range(out.cols) |-> w[named(c)]])
  /\ used' = 0 /\ watched' = Append(watched, now)
  /\ Took("power")
  /\ UNCHANGED <<source, tries, t0, procEl>>

\* turbostat fails, and fc_turbostat.sh tries it with other arguments, and with a new
\* converter; the file stays until that one reads a header.
Retry ==
  /\ source = "turbostat" /\ conv.cols # <<>> /\ tries < 3 /\ now =< Lead
  /\ tries' = tries + 1
  /\ conv' = [cols |-> <<>>, t0 |-> None]
  /\ UNCHANGED <<now, source, out, t0, used, watched, last, late, procEl, loop>>

SampleProc ==
  /\ "proc" \in Traced /\ Due("proc")
  /\ procEl' = Append(procEl, now - t0["proc"])
  /\ Took("proc")
  /\ UNCHANGED power

(***************************************************************************)
(* The rounds of fc_experiment.sh.                                         *)
(***************************************************************************)
FireRound ==
  /\ \A k \in Instances : call[k] = "idle"
  /\ round < plan[2] /\ now >= Lead /\ now >= fired
  /\ round' = round + 1 /\ fired' = now
  /\ loopT0' = IF round = 0 THEN now ELSE loopT0
  /\ call' = [k \in Instances |-> "due"]
  /\ UNCHANGED <<now, power, last, late, procEl, plan, began, inv>>

Begin(k) ==
  /\ call[k] = "due"
  /\ call' = [call EXCEPT ![k] = "running"] /\ began' = [began EXCEPT ![k] = now]
  /\ UNCHANGED <<now, power, last, late, procEl, plan, round, fired, loopT0, inv>>

\* Its row is appended when an invocation is over.
End(k) ==
  /\ call[k] = "running"
  /\ call' = [call EXCEPT ![k] = "done"]
  /\ inv' = Append(inv, [startIso |-> Epoch + began[k], endIso |-> Epoch + now,
                         startElapsed |-> began[k] - loopT0, endElapsed |-> now - loopT0])
  /\ UNCHANGED <<now, power, last, late, procEl, plan, began, round, fired, loopT0>>

RoundOver ==
  /\ \A k \in Instances : call[k] = "done"
  /\ call' = [k \in Instances |-> "idle"]
  /\ fired' = now + Gap
  /\ UNCHANGED <<now, power, last, late, procEl, plan, began, round, loopT0, inv>>

Next ==
  \/ Tick \/ SampleRapl \/ ReadHeader \/ ReadRow \/ Retry \/ SampleProc
  \/ FireRound \/ RoundOver \/ \E k \in Instances : Begin(k) \/ End(k)

Spec == Init /\ [][Next]_vars

\* The directory as it is at any time.
Dir == [rapl |-> IF source = "rapl" THEN out ELSE NoFile,
        turbostat |-> IF source = "turbostat" THEN out ELSE NoFile, inv |-> inv]
=============================================================================
