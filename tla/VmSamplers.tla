----------------------------- MODULE VmSamplers -----------------------------
(***************************************************************************)
(* fc_proc.py and fc_pressure.py, each watching one VM.  A sample is no    *)
(* snapshot: it is a row of reads, and the VM works, exits, is reaped and  *)
(* loses its cgroup between any two of them.  fc_proc.py ends with its     *)
(* VM, fc_pressure.py only when its time is over.  They share nothing, so  *)
(* a behaviour has one of them.                                            *)
(***************************************************************************)
EXTENDS Integers, Sequences, SequencesExt

CONSTANTS
  Nothing,   \* an empty field, or a file that could not be read
  MaxTicks,  \* bound: CPU time, bytes and stall time go up to it
  Duration,  \* --duration, in intervals
  Resources  \* the PSI files a kernel may have

VARIABLES
  vm,     \* "up", "zombie" or "gone"
  leaf,   \* is its cgroup there?
  psi,    \* the PSI files there are
  used,   \* its CPU ticks, network bytes and stall time
  step,   \* of each collector, what it does next
  rows,   \* of each collector, the rows of its CSV
  cs, st, net, \* what fc_proc.py has read in this sample
  prevStat, prevNet,
  begun,  \* history: the ticks at the first reading
  tracked, row, \* fc_pressure.py's resources, and the row it fills
  cgSeen  \* history: was the cgroup there when this sample began?

host     == <<vm, leaf, psi, used>>
proc     == <<cs, st, net, prevStat, prevNet, begun>>
pressure == <<tracked, row, cgSeen>>
vars     == <<host, step, rows, proc, pressure>>

Collectors == {"proc", "pressure"}
Sum(s)     == FoldLeft(+, 0, s)
Cpus       == [i \in DOMAIN rows["proc"] |-> rows["proc"][i].cpu]
Nets       == [i \in DOMAIN rows["proc"] |-> rows["proc"][i].net]

Init ==
  /\ vm = "up" /\ leaf = TRUE /\ psi \in SUBSET Resources
  /\ used = [cpu |-> 1, net |-> 1, stall |-> 1]
  /\ step \in {[proc |-> "prev_stat", pressure |-> "done"], [proc |-> "done", pressure |-> "cgroup"]}
  /\ rows = [c \in Collectors |-> <<>>]
  /\ cs = Nothing /\ st = Nothing /\ net = 0
  /\ prevStat = Nothing /\ prevNet = 0 /\ begun = Nothing
  /\ tracked = {} /\ row = << >> /\ cgSeen = FALSE

(***************************************************************************)
(* The VM and its cgroup.                                                  *)
(***************************************************************************)
\* What nobody reads is not counted.
Work(what) ==
  /\ vm = "up" /\ used[what] < MaxTicks
  /\ step[IF what = "stall" THEN "pressure" ELSE "proc"] # "done"
  /\ used' = [used EXCEPT ![what] = @ + 1]
  /\ UNCHANGED <<vm, leaf, psi, step, rows, proc, pressure>>

Exit   == /\ vm = "up" /\ vm' = "zombie"
          /\ UNCHANGED <<leaf, psi, used, step, rows, proc, pressure>>

Reaped == /\ vm = "zombie" /\ vm' = "gone"
          /\ UNCHANGED <<leaf, psi, used, step, rows, proc, pressure>>

\* cleanup of run_firecracker.sh.
Rmdir  == /\ vm = "gone" /\ leaf /\ leaf' = FALSE
          /\ UNCHANGED <<vm, psi, used, step, rows, proc, pressure>>

(***************************************************************************)
(* What /proc says.  A zombie has a stat, and a status without memory, but *)
(* no namespace of its own to ask for its network.                         *)
(***************************************************************************)
Stat     == IF vm = "gone" THEN Nothing ELSE used.cpu
Status   == IF vm = "up" THEN "VmRSS" ELSE Nothing
NetBytes == IF vm = "up" THEN used.net ELSE 0

CpuPct(prev, curr) == IF prev = Nothing \/ curr = Nothing THEN 0 ELSE curr - prev

Goes(c, from, to) == step[c] = from /\ step' = [step EXCEPT ![c] = to]

PrevStat ==
  /\ Goes("proc", "prev_stat", "prev_net")
  /\ prevStat' = Stat /\ begun' = Stat
  /\ UNCHANGED <<host, rows, cs, st, net, prevNet, pressure>>

PrevNet ==
  /\ Goes("proc", "prev_net", "sleep")
  /\ prevNet' = NetBytes
  /\ UNCHANGED <<host, rows, cs, st, net, prevStat, begun, pressure>>

Wake ==
  /\ Goes("proc", "sleep", IF vm = "gone" THEN "done" ELSE "stat")
  /\ UNCHANGED <<host, rows, proc, pressure>>

ReadStat ==
  /\ Goes("proc", "stat", "status")
  /\ cs' = Stat
  /\ UNCHANGED <<host, rows, st, net, prevStat, prevNet, begun, pressure>>

\* status() and io_stats(): empty if they cannot be read.
ReadStatus ==
  /\ Goes("proc", "status", "net")
  /\ st' = Status
  /\ UNCHANGED <<host, rows, cs, net, prevStat, prevNet, begun, pressure>>

ReadNet ==
  /\ Goes("proc", "net", "fd")
  /\ net' = NetBytes
  /\ UNCHANGED <<host, rows, cs, st, prevStat, prevNet, begun, pressure>>

\* fd is listed only if it exists, which is asked first.
LookFd ==
  /\ Goes("proc", "fd", IF vm = "gone" THEN "write" ELSE "list")
  /\ UNCHANGED <<host, rows, proc, pressure>>

\* The process is gone meanwhile: nothing catches the error, and the row is lost.
ListFd ==
  /\ Goes("proc", "list", IF vm = "gone" THEN "failed" ELSE "write")
  /\ UNCHANGED <<host, rows, proc, pressure>>

\* Mutant: prev_stat keeps the reading before the loop.
WriteRow_KeepsFirst ==
  /\ Goes("proc", "write", IF Len(rows["proc"]) + 1 >= Duration THEN "done" ELSE "sleep")
  /\ rows' = [rows EXCEPT !["proc"] =
                Append(@, [cpu |-> CpuPct(prevStat, cs), net |-> net - prevNet, mem |-> st])]
  /\ prevNet' = net
  /\ UNCHANGED <<host, cs, st, net, prevStat, begun, pressure>>

WriteRow ==
  /\ Goes("proc", "write", IF Len(rows["proc"]) + 1 >= Duration THEN "done" ELSE "sleep")
  /\ rows' = [rows EXCEPT !["proc"] =
                Append(@, [cpu |-> CpuPct(prevStat, cs), net |-> net - prevNet, mem |-> st])]
  /\ prevStat' = cs /\ prevNet' = net
  /\ UNCHANGED <<host, cs, st, net, begun, pressure>>

(***************************************************************************)
(* fc_pressure.py.                                                         *)
(***************************************************************************)
\* The cgroup of the process; a zombie still has one.
FindCgroup ==
  /\ Goes("pressure", "cgroup", IF vm # "gone" /\ leaf THEN "resources" ELSE "failed")
  /\ UNCHANGED <<host, rows, proc, pressure>>

\* The columns are those of the files there are now.
FindResources ==
  /\ Goes("pressure", "resources", IF leaf /\ psi # {} THEN "sleep" ELSE "failed")
  /\ tracked' = IF leaf THEN psi ELSE {}
  /\ UNCHANGED <<host, rows, proc, row, cgSeen>>

StartSample ==
  /\ Goes("pressure", "sleep", "read")
  /\ row' = << >> /\ cgSeen' = leaf
  /\ UNCHANGED <<host, rows, proc, tracked>>

\* Mutant: what cannot be read keeps the value of the row before.
Stall_Stale(r) ==
  LET n == Len(rows["pressure"])
  IN  IF leaf THEN used.stall ELSE IF n = 0 THEN Nothing ELSE rows["pressure"][n][r]

Stall(r) == IF leaf THEN used.stall ELSE Nothing

ReadStall(r) ==
  /\ step["pressure"] = "read" /\ r \in tracked \ DOMAIN row
  /\ row' = [x \in DOMAIN row \cup {r} |-> IF x = r THEN Stall(r) ELSE row[x]]
  /\ UNCHANGED <<host, step, rows, proc, tracked, cgSeen>>

\* Mutant: a sample without any reading is passed over, the check of the time with it.
WriteStalls_SkipsEmpty ==
  /\ tracked = DOMAIN row
  /\ IF \A r \in DOMAIN row : row[r] = Nothing
     THEN Goes("pressure", "read", "sleep") /\ UNCHANGED rows
     ELSE /\ Goes("pressure", "read", IF Len(rows["pressure"]) + 1 >= Duration THEN "done" ELSE "sleep")
          /\ rows' = [rows EXCEPT !["pressure"] = Append(@, row)]
  /\ UNCHANGED <<host, proc, pressure>>

WriteStalls ==
  /\ tracked = DOMAIN row
  /\ Goes("pressure", "read", IF Len(rows["pressure"]) + 1 >= Duration THEN "done" ELSE "sleep")
  /\ rows' = [rows EXCEPT !["pressure"] = Append(@, row)]
  /\ UNCHANGED <<host, proc, pressure>>

ProcStep == PrevStat \/ PrevNet \/ Wake \/ ReadStat \/ ReadStatus \/ ReadNet \/ LookFd \/ ListFd \/ WriteRow

PressureStep ==
  FindCgroup \/ FindResources \/ StartSample \/ WriteStalls \/ \E r \in Resources : ReadStall(r)

HostStep == Exit \/ Reaped \/ Rmdir \/ \E what \in {"cpu", "net", "stall"} : Work(what)

Over == \A c \in Collectors : step[c] \in {"done", "failed"}

Next == HostStep \/ ProcStep \/ PressureStep

Spec == Init /\ [][Next]_vars

\* A collector goes on as long as it has something to do.
Fairness == WF_vars(ProcStep) /\ WF_vars(PressureStep)
----------------------------------------------------------------------------
\* Bytes are taken back at most once, after the VM's death, and none are counted after that.
BackOnce ==
  \A i \in DOMAIN Nets : Nets[i] < 0 => vm # "up" /\ \A j \in (i + 1)..Len(Nets) : Nets[j] = 0

\* The CPU time of the rows is what the VM has used between the first reading and the
\* last that succeeded: nothing twice, nothing of before, though it may exit between any
\* two reads.
ProcAddsUp ==
  /\ begun # Nothing =>
       IF prevStat # Nothing THEN Sum(Cpus) = prevStat - begun
       ELSE 0 <= Sum(Cpus) /\ Sum(Cpus) <= used.cpu - begun
  /\ BackOnce

\* A stall that is recorded was read in its sample: a cgroup that was gone when the
\* sample began leaves its columns empty, and those stay empty.
StallsAreRead ==
  /\ step["pressure"] = "read" /\ ~ cgSeen => \A r \in DOMAIN row : row[r] = Nothing
  /\ \A i, j \in DOMAIN rows["pressure"] : i < j =>
       \A r \in tracked : rows["pressure"][i][r] = Nothing => rows["pressure"][j][r] = Nothing
=============================================================================
