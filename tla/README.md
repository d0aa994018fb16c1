# firecracker-tooling-setup in TLA+

The repository is a set of shell and Python programs around Firecracker: they
install it, launch a fleet of microVMs on one host, invoke a Lambda function in
each of them, and measure what that costs in time and power. No program holds the
state of the fleet. It is in socket files, pid files, TAP devices, cgroups and
processes that several scripts create, look at and remove, each on its own and any
of them liable to be interrupted. That is what these modules are about.

Paths are those of the repository; `PROJECT.json` maps every definition to the
lines it models.

## 1. Inventory

| Component (source) | State it keeps | Operations | Module |
|---|---|---|---|
| Fleet launcher (`run_firecracker.sh`, `setup_tap.sh`) | shell: `NUM_INSTANCES`, `k`, `PIDS`, trap; host: socket and run directories, TAPs, cgroup leaves, pool | preflight, clear, TAPs, pool, configs, launch loop, `cleanup`, wait | `Fleet`, `FleetAbstract` |
| Fleet killer (`kill_firecracker.sh`) | `INSTANCES` | discover, stray kill, Ctrl-Alt-Del, kill by pid file, remove TAPs and directories | `Fleet` |
| Addressing and capacity (`common.sh`) | none | IPs, MAC, id check, memory ceiling, CPU quota, vCPU count | `Host` |
| Shared CPU pool (`common.sh`, `run_firecracker.sh`, `run_saaf_experiment.sh`) | `cpuset.cpus` and `cpuset.mems` of the parent cgroup | order of CPUs, pool by size, list or ratio, clearing, siblings, CPUs left for the driver | `CpuPool` |
| SAAF driver (`saaf_driver.py`) | the payload list, a thread per endpoint, a shared result list, reports | duplicate, shuffle and slice the payloads, post, time out, report, combine | `SaafDriver` |
| SAAF scripts (`run_saaf_experiment.sh`, `gen_saaf_functions.sh`) | function files | discovery, generation, pinning of the driver | `CpuPool` (pinning) |
| Invocation (`invoke.sh`) | background jobs, their files | discovery, fan-out, wait, ordered output, exit code | `Invoke` |
| Power experiment (`fc_experiment.sh`) | `FC_STARTED`, `FC_PIDS`, `COLLECTORS`, rounds, `invocations.csv` | reuse or launch, await sockets, confirm, collect, rounds, stop, kill | `Experiment` |
| PID resolution (`fc_pid.sh`, `find_pid` of `fc_proc.py`) | none | socket to process | `Experiment` |
| Energy samplers (`fc_rapl.py`, `fc_arm_power.py`) | previous reading of each counter | sample, difference, wrap | `EnergyMeter`; pace and clock in `Recording` |
| Per-VM samplers (`fc_proc.py`, `fc_pressure.py`, `fc_pidstat.sh`, `fc_perf.sh`, `fc_ml_metrics.sh`) | previous readings, CSV files | sample until the duration is over or the VM is gone | `VmSamplers` (the first two), `Experiment` (process and lifetime) |
| turbostat (`fc_turbostat.sh`, `fc_turbostat_to_csv.py`) | columns and origin of the converter, CSV | three attempts through a pipeline | `Recording` |
| Analyzer (`fc_analyze_pkg.py`) | the fit, the strongest feature and the statistics it hands from one step to the next | read the files, align clocks, integrate, correlate, draw, compare runs | `Trace`, `Analyze`, `Recording` |
| CSV plotter (`fc_plot_csv.py`) | none | one CSV to one picture | not modelled |
| Installation (`install_download.sh`, `install_build.sh`, `install_verify.sh`, `build_function.sh`) | files in the repository directory, mounts | fetch, build rootfs, unpack release, function drive, verify; skip what exists | `Install` |
| Guest function (`handler.py`, `Inspector.py`, `benchmark/`) | none between calls | one invocation at a time | `SaafDriver` (dispatch and queue); Inspector planned |
| `install_cgroup.sh`, `install_deps.sh`, `fc_arch.sh`, `config.sh`, vendored binaries | - | - | not modelled (section 8) |

How they interact:

- **Through the file system.** `fc_instances` is a listing of `*.socket`: the
  launcher's VMs bind the sockets, the launcher, the killer and the next launch
  remove them, and `invoke.sh -a`, `run_saaf_experiment.sh`, `fc_experiment.sh`
  and `kill_firecracker.sh` take them for the fleet. Pid files name processes.
- **Through the kernel.** TAP names, `/30` subnets, `vm<k>` cgroup leaves and the
  cpuset on the parent cgroup are shared by all launches of a host.
- **By processes.** `fc_experiment.sh` starts `run_firecracker.sh` in a terminal,
  collectors and `invoke.sh` in the background and `kill_firecracker.sh` at the
  end; `run_saaf_experiment.sh` starts the driver.
- **Over HTTP.** `invoke.sh` and the driver post to the runtime interface emulator
  (RIE) of a guest, which serves one invocation at a time.
- **Through CSV files.** Collectors and the invocation loop write them while a run
  lasts, each counting from a time of its own; the analyzer reads them afterwards and
  has nothing but wall-clock stamps to tell how they belong together.

What is hard here: signals between any two commands of a shell script (`set -e`, an
EXIT trap that does not exit, INT with and without a handler); SIGKILL, which
leaves VMs and files to whoever comes next; two scripts over the same files;
client timeouts with a server that goes on; collectors that are told beforehand
how long to live; scripts that resume from whatever files an earlier run left; and
samples that consist of several reads of something that goes away in between; and
arithmetic at the ends of address ranges, counters, CPU lists and sample intervals.

What makes each component correct: the launcher can always take down all it has put up, and
inherits nothing (`Fleet`); the killer reaches what it finds (`Fleet`); instances have
different, usable addresses and fit into memory (`Host`); guests have their own pool and the
load generator stays off it (`CpuPool`); every payload goes out once and every usable answer is
in the report of its iteration (`SaafDriver`); an exit code speaks for all calls (`Invoke`);
rounds do not overlap, collectors outlast them, a fleet that was found is left alone and one
that was launched is taken down whatever processes were resolved (`Experiment`); a row holds the
energy of its interval, a wrapped counter spoiling no other (`EnergyMeter`), and what the VM
used in it (`VmSamplers`); no more of an invocation is counted as idle than a fixed piece at
either end and nothing measured is lost on the way to a graph (`Recording`, `Trace`); graphs and
tables of one analysis agree and bear the right names (`Analyze`); only finished images are
published and a re-run leads to one (`Install`).

## 2. Modules

Each component module has the state, one action per operation and the
specification; properties are in a `...Props` module, or, where only TLC reads
them, in the `MC...` module, which also has the instance for TLC. `...Proofs`
modules extend the component and TLAPS. A definition whose comment begins with
"Mutant:" is a wrong variant of the one after it; `PROJECT.json` says which
property notices it.

| Module | Models |
|---|---|
| `Fleet`, `FleetProps`, `FleetProofs`, `MCFleet` | launches, VM processes and the killer over the shared host |
| `FleetAbstract` | what a launch promises; `FleetProps` maps `Fleet` to it, `FleetProofs` proves that it keeps it |
| `Host` | arithmetic of addresses, memory and CPU quota |
| `CpuPool`, `CpuPoolProps` | CPU pools over fleets that come and go, and the pinned driver |
| `MCHost`, `HostProofs` | what is prepared before a launch, as TLC runs it: the inputs of `Host`, the pools of `CpuPool`, the scripts of `Install`; and the proofs about all three |
| `SaafDriver`, `MCSaafDriver` | payload list, driver threads, guests that answer late, reports |
| `Invoke`, `MCInvoke` | `invoke.sh`: concurrent calls, their output and the exit code |
| `Clients`, `ClientsProofs` | the two clients, driver and `invoke.sh`, side by side, and the proofs about both |
| `Experiment`, `ExperimentProps` | one power experiment in time |
| `MCExperiment`, `ExperimentProofs` | an experiment and what it starts, as TLC runs them: the script of `Experiment`, the collectors of `Samplers`, the clients of `Clients`; and the proofs about the script |
| `EnergyMeter` | energy counters and their differences |
| `VmSamplers` | `fc_proc.py` and `fc_pressure.py`, read by read, against a VM that goes away |
| `Samplers`, `SamplersProofs` | `EnergyMeter` and `VmSamplers` side by side, and the proofs about both |
| `Recording`, `MCRecording`, `RecordingProofs` | how the files of a run come about: collectors, turbostat's attempts, rounds, clocks |
| `Trace` | the analyzer's functions over one directory: columns, clocks, windows, energy, thinning, zoom |
| `Analyze`, `MCAnalyze`, `AnalyzeProofs` | the analyzer's `main()`: graph after graph, table after table, over several directories |
| `Install`, `MCInstall` | installation scripts re-run over one directory |
| `Lists` | what the analyzer does with a list of anything: comprehension, sum, median |
| `Induction` | lemmas by induction over lists and numbers, which four of the proof modules use |

### Fleet

A launch `l` is one execution of `run_firecracker.sh`; `pc[l]` is the command it
is about to run. `clear` to `configs` are the prelude (lines 81 to 273), `register` sets
the trap, `fork`, `append` and `pidfile` are the three commands of the loop that matter
(the subshell, `PIDS+=($!)`, the pid file), `cl_term` to `cl_pool` are the steps of
`cleanup`, and `ret[l]` is where the shell goes on afterwards: `cleanup` does not
`exit`, so an INT that bash takes between two commands of the loop runs it and
resumes the loop, whose next pid file cannot be written any more. A signal during
`wait` ends the script. Without a handler a signal, and always SIGKILL, ends the
launcher (`LauncherDies`) and leaves its VMs.

Every file or device per instance is a function from ids to the launch that owns
it (`sock`, `pidf`, `cfg`, `tap`), so "left behind" and "in the way" are statements about
owners. A VM is `starting` from the fork until it binds its socket, which fails if
its directory or config is gone or the path is taken. The killer is one process
that may run any number of times; `Discover` is its look at the sockets, and every
later command works on that list while launchers go on.

Left out: instance ids beyond `MaxN`, option parsing, the content of configs,
failures of TAP commands (ignored by the code), reuse of process ids, and with
`Overlap = FALSE` launches at the same time, which the code does nothing to prevent
or support.

### FleetAbstract

`FleetAbstract` says what a launch promises without a file, a device or a command: a
launch is `idle`, `running`, `stopping`, `over` or `lost` and has a set of live VMs it answers for
(`ours`). VMs start only while it runs; stopping lets at most one get away, the one being
started; it is over only when none is left; dying gives up all of them. `FleetProps` maps
`Fleet` to it: `Stage` reads the stage from `pc` and `trap` (a loop resumed after the handler
is still `stopping`, although its `pc` is that of a launch), `Ours` is the live VMs that are neither
`stray` nor of a killed launcher. `KeepsPromise` is the abstract specification under this mapping.
Clearing, TAPs, pid files, the pool and the killer's bookkeeping are invisible in it;
a kill, a crash and `kill -9` in the handler are its `EndVms`.

### Host and CpuPool

`Host` is arithmetic: addresses as the last two octets, capacity, quota and vCPU
count with the shell's truncating division. `CpuPool` has any topology (`core`,
`node`) and lets fleets with any request for a pool follow each other, ending with
`cleanup` or without; `client` is what `taskset` gives the driver, computed from
`fc_free_cpus` as in the script. `OVERSUB` is a rational `<<p, q>>`. A socket is a
node of its own, as on most hosts.

### SaafDriver, Invoke

`list` is what `build_payload_list` makes: whole copies of the payloads, as many as give every
run one, and in a shuffled experiment any of `Orders`. A thread posts its slice of it one run
after another. `guest[e]` is the queue of the RIE: after a client timeout the abandoned
invocation stays in it and later runs wait behind. `Dispatched` is `handler.py`: a method without
a benchmark is answered with an error message. `Answers` distinguishes what `call_endpoint`
appends from what it drops. `Invoke` has one output file per job and a log of lines; lines are
`header`, `rule` or the kind of the answer, with the instance they came from.

### Experiment, EnergyMeter, VmSamplers

`Experiment` counts seconds from the start of the collectors; time passes only while the script
sleeps or waits for a round. `Resolve` is `fc_pid.sh` with its order of tools, which a host has
or has not: with fuser or ss (`exact`) a living VM is found by its socket; with only lsof
(`lsof`) the answer is some Firecracker with a UNIX socket, for a living VM too; without any,
the only Firecracker there is. `FindPid` is what `fc_proc.py` makes of it. `EnergyMeter` covers
both samplers: RAPL keeps one file per name, hwmon goes through all sensors, and several
counters may have a name. The counters wrap at `EnergyRange`, the code adds `Wrap`, and the two
need not be equal; `wrapped`, `owed` and `across` remember what an entry should have been. In
`VmSamplers` every read of a sample is an action, so the VM can work, exit, be reaped and lose
its cgroup between any two: `PrevStat` and `PrevNet` before the loop, then `Wake` (is
`/proc/PID` there?), `ReadStat`, `ReadStatus`, `ReadNet`, `LookFd`, `ListFd` (where an exception
ends the program) and `WriteRow`; `fc_pressure.py` looks for the cgroup and its PSI files once,
reads what there is of them in each sample and writes a row even of nothing.

### Recording, Trace, Analyze

`Trace` is the analyzer's arithmetic over one directory, as operators: which file and column the
power comes from, the wall-clock time of the power file's zero, windows of invocations on its
clock, active and idle samples, energy and mean power per window, interpolation, the two ways of
thinning a trace, the zoomed view. `Recording` lets a run write such a directory: `SampleRapl`,
or `ReadHeader`, `ReadRow` and `Retry` of the turbostat pipeline, `SampleProc` and the rounds of
invocations, on one clock `now` of ticks, of which `HalfSecond` make half a second, each
stamping rows as the program does; the collectors begin up to `Skew` apart. The properties
compare what `Trace` makes of the files with what really happened, at every moment of the run.
`Analyze` is `main()`: one action per graph or table, with the conditions under which it is left
out; `drawn` maps a graph to what it shows, `fit`, `best`, `inv` and `cross` are what is handed
on. A fit is kept as the points it was made of, so equal fits are equal data; which feature
correlates best is any of those that can.

### Install

`art` and its neighbours are what is on disk, with how whole it is. A stage is
skipped when its output is there; that of the Python packages also, with a warning, when the image has no
pip or `guest-requirements.txt` asks for nothing (`pip`, chosen for each image), and such an image is
published all the same. A command may fail, the operator may interrupt
(the EXIT trap runs), the host may go down (it does not). The kernel of the
re-run problem is that all a run knows of earlier ones is which names exist.

## 3. Runs

| Run | Question | Bounds |
|---|---|---|
| `fleet` | Does an interrupted or failing launch take down all it has started, does a kill reach what it found, do both come to an end, and is all of it the promise of `FleetAbstract`? | one launch, 1 or 2 VMs (3 are refused), all faults, unlimited kills |
| `fleet_relaunch` | What can a launch inherit from one that ended in any way? | two launches of one VM, all faults, unlimited kills, symmetry of launches |
| `host` | Are addresses usable and different, capacity exact, the quota spendable? Or: are pools packed and of the right size, is none inherited, does the driver keep off them? Or: is a published image finished, and does a retry always lead to one? | every id of the code (0..16383) against neighbours, boundary sizes of memory; every topology of 4 CPUs and 1 or 2 nodes, 1 or 2 VMs of 2 vCPUs, three ratios, all lists and sizes; 2 faults, 1 crash, download and build in turn |
| `cpu_pool_claim_mems` | Is a pool of an earlier run ever in force? (it is: `cpuset.mems`) | the same pools |
| `experiment` | Do rounds stay apart, rows complete, collectors alive, fleets left or taken down, and when are two instances taken for one process? Or: is every entry of a collector's row that of its interval? Or: does each payload get its turns, is each report the answers of its iteration? Or: does the exit code of `invoke.sh` speak for all calls, is its output whole and in order? Do all of them end? | 2 of 3 instances, 2 rounds, sleeps of 1 or 2 s, VMs crashing at any time, every choice of tools; 3 counters of range 3, two of one name, `Wrap` 2, files that come and go; 3 ticks of CPU time, bytes and stalls, 3 rows, two PSI files of which any may be missing; 2 endpoints, 5 runs (one does not divide), 3 payloads of which one is unknown, in their order and in one other, 3 iterations, one of them warmup; 3 calls, 4 kinds of answers, a signal |
| `experiment_claim_teardown` | Does a launched fleet go, however the experiment ends? (it does not) | the script with the same bounds |
| `experiment_claim_features` | May `fc_ml_metrics.sh` run to its end? (it may not) | the same, with fairness |
| `recording` | How much work does the analyzer take for idle, does it lose an invocation, cut one off or thin out a spike? | 7 ticks, samples every 2 of which one may be 1 late, collectors up to 2 apart, stamps up to 2 behind, two VMs in one round or one VM in two |
| `analyze` | Do graphs and tables of one analysis agree, and bear the right names? | up to 3 of 9 directories in any order, three choices of labels, both power domains |
| `analyze_claim_names` | Does the table of runs print each mean beside its run? (it does not) | the same |
| `install_claim_rerun` | Is a re-run safe, as the script says? (it is not) | 1 fault, any order |
| `install_claim_verified` | Has an installation that is accepted all it needs, whole? (it need not) | the same |

`host` and `experiment` are disjoint unions: a constant of the behaviour (`part`) says which of
its components it is of, the other variables do not move, and the state space is the sum of
theirs. Components in one run share a question (what a launch takes for granted; what an
experiment, and whoever collects or calls for it, may rely on), not state.

Why the bounds are enough. `fleet`: the kill list is about VMs that are recorded, being recorded
and not yet forked; two instances give each role and every pair of roles, and the theorems of
section 5 hold for any number. `fleet_relaunch`: what is inherited belongs to one instance id at
a time. `host`: four CPUs are the least that have two nodes of two cores, two cores of two
threads, and room outside a pool; two faults of the installation let one leftover meet another.
`experiment`: with three VMs one can be dead while two others live, and two rounds have one gap
and one barrier. Its clients: two threads interleave on the list, two runs each let a late
answer meet the next request, four slots of three payloads make a second copy with a rest, three
iterations put one on each side of the warmup and one beyond; with three jobs of `invoke.sh` the
first, the last and one between can fail or be late. Its collectors: a range of 3 that is not
the one added, and counters that start anywhere in it, contain every wrap, before, between and
after samples that fail; three rows are the first, one whose VM went away in the middle and one
after. `recording`: seven ticks hold up to three samples, which have a median interval that need
not be that of the late one, and an invocation begins and ends before, at, between and after
them; every clock can be ahead of every other, `proc.csv`'s by a whole interval, and turbostat
fails once, twice or not at all. With these bounds `BusyNotIdle` allows the power file nothing
and `proc.csv` 2 ticks of an invocation's end; `LongOnesMeasured` is tight: claimed of
invocations one tick shorter it is violated. A trace is dense at 3 samples and has 2 bins, in
`analyze` at 7 and 3 for traces of 14, so that bins of different sizes occur. `analyze`: each
directory but the first lacks one thing a graph needs or has one thing twice, and with three of
them one that is left out can stand before, between and after two that are not.

What the passing runs show is in the comments of the properties; those most worth reading are
`KillListComplete`, `TeardownFreesHost`, `KeepsPromise`, `NothingInherited`, `KillReaches`,
`PoolIsItsOwn`, `PayloadsOnce`, `ReportsComplete`, `CollectorsOutlast`, `TornDown`,
`SharedIsLast`, `ProcAddsUp`, `BusyNotIdle`, `HandedOn`, `CountsAgree`, `PublishedIsComplete`
and `ImageAgain`. `RowsAreTrue` is about columns with one counter behind them, which every one
of `rapl.csv` is, and the first conjunct of `RunsNamed` about runs no earlier run without the
metric stands before; what becomes of the others is what `analyze_claim_names` shows. `TornDown`
is about hosts with fuser or ss: elsewhere nothing names the processes that are left when
`kill_firecracker.sh` has failed. `SharedIsLast` is about those that have no lsof besides, which
answers before the rule of the only Firecracker is asked (section 6). Type invariants are not
run: those of the fleet, the experiment and the meter are proved.

The traces of a VM are beside the power file, where the analyzer looks for them, only if
there is one VM; that is why `Recording` samples `proc.csv` in its single-VM plan alone.

Deadlock is checked for the fleet, where there is always somebody who can act; the others model
programs that end, or clocks that are stopped.

## 4. Fairness

- `Fleet`: weak fairness of each launcher's next command, of a forked VM's start
  (or failure) and of a running killer, because the kernel schedules them. No
  fairness of signals, faults, new launches or new kills, and none of VMs going down:
  `wait` may last for ever.
- `SaafDriver`: the main thread and each endpoint thread go on, and `requests.post` has a
  timeout. The guest has none: it may never answer.
- `Invoke`: the shell goes on, and `curl --max-time` makes every call return.
- `VmSamplers`: each collector goes on while it has something to do. The VM need not work,
  exit or be reaped.
- `Experiment`: the shell goes on, time passes, and `invoke.sh` returns.
- `Install`: a running script goes on, and the operator keeps alternating download
  and build (strong fairness of beginning each; faults and crashes are bounded by
  constants). The last is an assumption about a person and is what "gets an image
  again" means.
- `Recording`, `Analyze` and `EnergyMeter` assume none: what they claim holds at every moment.
- `HostSpec` and `ExperimentsSpec` take the fairness of the component a behaviour is of.

## 5. What is proved

`FleetProofs`, for every number of launches and instances, with any set of faults,
launches overlapping or not, from the assumptions on constants in `Fleet`:

- `TypeCorrect`: `Spec => []TypeOK`. The loop index needs the launch loop's guard and
  survives the return from a handler, hence `AtRecordsInstance`.
- `KillList`: `Spec => []KillListComplete`, and `Teardown`: `Spec => []TeardownEndsVMs`. Neither is
  inductive: that a live VM is on the list says nothing about whether the list will
  still be used. `CleanupAhead` adds where the launch is: in its loop or waiting with the
  handler armed, or in the handler before its `kill -9`. It is preserved by every
  action, the killer's and the other launches' included, because those only end VMs;
  the steps that matter are the fork, the recording, the signal (which turns the
  VM being recorded into a stray one) and `CleanKill`.

`FleetProofs`, on the same assumptions: `Refinement`, `Spec => KeepsPromise`. `LaunchRefines` and
`RestRefines` say that a command of a launch, a VM's own step and a command of the killer is a
step of the abstract launch or leaves it alone. Two invariants carry it. `CleanupAhead` is why
`cleanup`'s last step may be the abstract `Finish`: by then no VM is answered for. `HandlerOff` (the
handler runs disarmed) is why a loop resumed after it cannot count as running again. A
fork in such a loop starts a VM nobody answers for, which the promise does not hide: it
is `stray` from its first moment.

`FleetProofs`, for every number of launches and instances and any set of faults, where launches
take turns (`~Overlap`, the hypothesis of each of its theorems): `FreesHost` (`TeardownFreesHost`),
`Inheritance` (`NothingInherited`), `FreeSockets` (`SocketFree`), `OneVM` (`OneVMPerInstance`) and
`KillerReaches` (`KillReaches`). The hypothesis is needed: with `Overlap = TRUE` TLC violates every one
of the five. All rest on one inductive invariant, `SerialInv`, of five parts that need each other:

- `OneAtATime`: one launch has the prelude, the loop or the handler, and a VM on its way to
  exec is of that one, or all such VMs are of one launch that has ended;
- `ForkedSoFar`: VMs are forked in the order of their index, and a launch with a stray one has
  lost its handler;
- `Owners`: who may own a socket, a pid file or a TAP, given where its VM and its launch are;
- `Inherits`: which resources of earlier launches the prelude has removed by now;
- `Freed`: what `cleanup` has removed does not come back. This is where `stray` VMs come in: one
  may still bind its socket, but only while the directory is there.

`LeafOwned` is separate because it holds with overlapping launches too: a cgroup leaf that
is there has held a VM of a launch that has not come to remove it, or a stray one.
`NamedUntilKilled` adds the killer to it: between its look at the sockets and its SIGKILLs a
VM that it found with a pid file still has that pid file, or is dead.

`HostProofs`, for every id below 16384 and every size: `InstancesAreAddressable`,
`InstancesAreDistinct`, `CapacityIsExact`, `QuotaIsSpendable`. The division facts are stated once
(`DivisionBound`), with quotient and remainder named because the solver does not find them.
`AllAddressable` and `AllExact` carry them over to the two properties the run checks, whose inputs
are then any distances between ids, and any memory sizes that are not zero.

`HostProofs`, for every number of CPUs and nodes, every topology of at most two threads to a core
and any sequence of fleets: `OwnPool` (`PoolIsItsOwn`), `Fits` (`PoolFits`) and `Apart` (`ClientApart`).
The invariant `PoolAsAsked` says that a pool given by size or by ratio is the first `m` CPUs of
`fc_cpu_list`'s order. What makes `PoolFits` hold of any such pool is about the order alone: it is total
(`EarlierIsAnOrder`), so the rank of a CPU is a bijection onto the positions (`RankIsABijection`) and
there is a pool of each size (`FirstCpusCount`); and the threads of a core, and the CPUs of a node, are
consecutive in it (`FirstCpusFill`), so the end of the pool cuts at most one of each. `SizeIsLeast` is the
rounding up of `vms * vcpus / OVERSUB`, for any rational `OVERSUB`.

`ClientsProofs`, for the driver with any numbers of endpoints, runs, iterations and payloads: `Payload`
(`PayloadsOnce`) and `Reports` (`ReportsComplete`). `Recorded` ties a record to the
position of its thread: a thread's runs are behind it once answered, so no two records are of
one slot; slices of different threads are disjoint (`SlotsApart`). How often a payload's turn comes
is counted with an injection of its slots into pairs of a copy of the list and a place in it,
which holds of lists that name a payload more than once as well (`TurnsAreFew`). `Iterating` adds
what iteration the main thread is in: the pool's `with` block ends only when every
thread is through, so that the results collected are of that one. `Warmup` (`WarmupLeftOut`)
adds that an iteration without a report has no records (`ReportsAll`), and that a
concatenation over iterations has the elements of its parts and no others.

`ClientsProofs`, for `invoke.sh` with any finite set of instances: `ExitCode` (`ExitTellsAll`).
`FilesTell` relates a job's end to the lines in its file, and `LoopsSoFar` says how far each of the
three loops over the targets has come, which the exit code is made of at the end. `Output`
(`OutputInOrder`) rests on two facts about the files: a job that is over has left exactly its
block (`FilesAreBlocks`), and the output is the concatenation of the blocks up to `at`
(`PrintedSoFar`), in which the header of an instance has exactly one place.

`ExperimentProofs`, for any number of VMs and rounds and for all times, with VMs that crash at
any moment: `TypeCorrect`, `Rounded` (`RoundBarrier`), `LeftAsFound` (`FleetAsFound`),
`Teardown` (`TornDown`), `Shared` (`SharedIsLast`), `Rows` (`RowsComplete`) and `Outlast`
(`CollectorsOutlast`). The invariant adds `Phases`, which ties the step of the script to the
other variables (no invocation runs outside the barrier, only a launched fleet is killed).
`Teardown` needs two parts more: `Found`, that with fuser or ss every instance that lives and
has been looked for has been found, which rests on no VM coming up once the sockets have been
waited for; and `OwnFleet`, that a launched fleet has no VMs but those asked for, because a
fleet is launched only where no socket is. `Given`, for `Shared`, says that an instance with
another's process has it because no other lived when it was looked for, and that none comes up
after that. `RowsSoFar` says which rows there are in the middle of a round, and `OnTime` gives
each phase of round `r` its latest end, `By(r)`, a sum over the rounds before it, for any number
of rounds; that no invocation takes longer than estimated is part of the property.

`SamplersProofs`, for any counters under any names, of any range, whatever the code adds:
`RowsTrue` (`RowsAreTrue`) and `TypeCorrect`. The invariant `Ahead` relates the last reading,
the counter and the energy used since: the counter is at their sum, less its own range if it has
started again. An entry is therefore off by the difference of that range and the one added, and
only if the counter started again in the entry's own interval. That no counter does so twice
between two samples is `RangeAssumption`.

`SamplersProofs`, for a VM that goes away between any two reads, any set of PSI files and any
number of rows: `Stalls` (`StallsAreRead`) and `ProcRowsAddUp` (`ProcAddsUp`). `GoneForGood` is
the strengthening of the first: an empty field, also of the row being filled, says that the
cgroup is gone, and that the rest of the row stays empty. `BytesRead` and `NoneLeft` are that of
the second: bytes read from a living VM are never fewer than those before, and after a row that
took them back both the last reading and the next are 0. `CpuSum` is for the sum: the rows so
far add up to the difference of the first reading and the last, and a reading that failed says
that the VM is gone, so that no later one succeeds and the difference of two readings that
surround a failed one never arises.

`HostProofs`, for any number of failures, interruptions and crashes in any order of the
scripts: `Complete` (`PublishedIsComplete`). `BuiltSoFar` says of each stage of a build what the
unpublished image has been through when the stage begins, with the packages or, where there is nothing to
install them with, without; `Published`, that the image under the final name is such a one, because it
got there by one `mv` and is never written to again.

`RecordingProofs`, for any interval, delay, lag and distance of the collectors' clocks, any plans of
invocations and runs of any length:

- `Measured` (`LongOnesMeasured`) and `Busy` (`BusyNotIdle`). Of the invariant, `Clocked` says
  that the rows of each file are its samples counted from one origin, the wall clock of the
  first alone lagging; `Paced` and `ProcPaced`, that two samples are an interval apart and at
  most a late one more; `Headed`, that the converter writes rows under the header it has read,
  however many attempts of turbostat there were. From these follow what
  `load_invocation_windows` makes of the files (`TheWindows`), and that a median of gaps is one
  of the gaps or the middle of two, hence no less than the interval (`PadIsWide`). Neither has a
  hypothesis. `Busy` says how much of an invocation can be counted as idle: of its beginning
  what the collectors are apart, less two intervals and a tick (`LostHead`); of its end what
  they are apart, a sample's delay and the lag together, less one interval and a tick
  (`LostTail`); nothing in between, however long it is. Both are nothing only while the
  collectors are about an interval apart. At the default of 100 Hz an interval is 10 ms and the
  slack 20, which `sudo` and the search for a process exceed: there `BusyNotIdle` allows exactly
  what the analyzer loses (section 6).
- `Faithful` (`TracesFaithful`), on an invariant of its own (`Rounds`, `Rowed`): the rows of
  `invocations.csv` are in the order in which the calls of a round came back, and the calls of a
  round begin within `Spread`. Its hypothesis is that they begin within the half second that
  `_zoom_xlim` adds at least; `fc_experiment.sh` starts them in a loop that waits for nothing.
  That the bins of a thinned trace cut it into parts without a gap or an overlap is `EdgesCut`,
  by arithmetic of truncating division for any number of bins; sums and extremes over the parts
  are then those of the whole.

`AnalyzeProofs`, for any directories a run can leave, any number of them, any labels, thresholds
and either power domain: `Handed` (`HandedOn`), `OwnNames` (`RunsNamed`) and `CountAlike`
(`CountsAgree`). `StepTouches` says which function makes which graph or result. The invariant
has a part for each thing that is handed on: `FitHandedOn` and `BestHandedOn` (what graphs 5 and
7 found is what it was when graphs 6 and 8 use it), `BarsNamed` and `MeansOfRuns` (what was made
of each run, by its place among those not left out) and `Counted` (the report's lists are those
of all runs, one after another). The properties follow by what lists are: of the runs not left
out, the one at place `k` is run `k` as long as none before it was left out (`PicksFirst`); sums
over some of the runs are no more than those over all (`TotalOnly`); a flattened list begins
with its first part and is as long as all parts together (`Flattened`); and a window with two
samples has one, and one the slack does not take away, since the median of the gaps of an
ordered list is not negative (`PadIsNone`), so that a run with a bar has a mean (`HasValues`).

`Induction` has what these proofs need of data of any length. The library's induction theorems
cannot be instantiated here, but a set of numbers can: `ByInduction` is about the set of those
numbers of which the fact holds, `Recursion` says that a function defined step by step exists
and is unique, and `TotalIs`, `OnlyPicks`, `TotalOnly`, `TotalParts` and the rest are its
instances for the sums and comprehensions of `Lists`, each stated once and cited by name.

The assumptions on constants are those named in the modules. They say that sets of ids and of
numbers are what the scripts count with (`ZoomAssumption` and `BoundAssumption` for the
analyzer's options and thresholds), that "none" is no value (`NoneAssumption`,
`NoValueAssumption`, `LaunchesAssumption`), and that instances are finitely many
(`IdsAssumption`). Those of `Analyze` say what the files are that it is given:
`RecordedAssumption`, that rows are in the order of their collector's clock, which is
`time.monotonic()` in `fc_rapl.py`, `fc_arm_power.py` and `fc_turbostat_to_csv.py`;
`NamesAssumption`, that no two files have a feature of one name, as the events of `fc_perf.sh`
and the columns of `fc_proc.py` are fixed; `GivenAssumption`, that labels are a list. TLC
evaluates each on every run of its module. `HostSpec` and `ExperimentsSpec` are
disjoint unions (section 3); `Composed` says in `HostProofs` and in `ExperimentProofs` that such
a behaviour is one of each of its components, so that what is proved of the component holds in
the run.

Only model-checked, as liveness under fairness and ENABLED are out of the prover's reach: `LaunchesEnd`,
`ClientsEnd`, `Ends`, `SamplersEnd` and `ImageAgain`. Every other property of a passing run is proved.

## 6. Where code and documentation disagree

Checked by a run that fails:

- `run_firecracker.sh:185`: `cpuset.mems` is never cleared, so a fleet without a pool is bound to
  the memory nodes of the last one (`cpu_pool_claim_mems`).
- `install_build.sh:57`: an extraction cut short is taken for a whole one by the next build, which
  publishes an image without the rest (`install_claim_rerun`).
- `install_verify.sh:30` checks the last `*.ext4` in order, which is `function.ext4` once that
  exists, and accepts an installation without a rootfs; of kernel and binaries it asks only
  whether there is a file, which after a download (`install_download.sh:36`) or an extraction
  (`install_build.sh:270`) cut short there is (`install_claim_verified`).
- `fc_experiment.sh:219`: an experiment that gives up before it has measured exits without the
  teardown the docs promise of a fleet it has launched (`experiment_claim_teardown`).
- `fc_ml_metrics.sh:61` writes its CSV only when perf ends by itself; the experiment
  stops it before, as it does all collectors (`experiment_claim_features`).
- `fc_analyze_pkg.py:1054` pairs the means of a metric with run names by position, but
  `compute_cross_run_stats` leaves runs without the metric out: behind such a run the "Per-run
  breakdown" prints means beside the wrong names (`analyze_claim_names`).

Met while modelling, without a run of their own; most are visible in the hypotheses and
exceptions of the properties:

- `fc_pid.sh:39`: where only lsof is installed, `lsof -t -U SOCKET` lists the processes that have
  the socket *or* any UNIX socket, so two living instances are given one process, although
  `docs/power_scripts.md:22` has it that lsof resolves the owner exactly (`~lsof` in
  `SharedIsLast`). Without lsof a dead VM gets another's process when exactly one other runs
  (line 48; the consequent of `SharedIsLast`).
- `fc_rapl.py:38` adds 2^32 on a wrap, where the range of a zone is its `max_energy_range_uj`; the
  entry of an interval with a wrap is off by the difference (`Wrap - EnergyRange` in `RowsAreTrue`).
- `fc_analyze_pkg.py:352`: two intervals of slack are 20 ms at the default rate, as the comment
  says, and do not absorb collectors that begin further apart: what remains is counted as idle
  (`LostHead` and `LostTail` in `BusyNotIdle`).
- `fc_analyze_pkg.py:252` looks for response headers that `invoke.sh:52` does not print, since
  those name the instance: `load_saaf_logs` finds nothing in the logs of an experiment, and the
  telemetry that `docs/power_scripts.md:354` speaks of is never read.
- `run_firecracker.sh:327`: a VM forked just before an INT is not yet in `PIDS`; the
  handler misses it (`stray` in `Fleet`).
- `kill_firecracker.sh:31`: once a newer launch has sockets, a VM orphaned by a SIGKILLed
  launcher is neither found nor killed (`Orphan`, `seen = "loose"`).
- `common.sh:77`: `fc_instances` lists a VM that has crashed.
- `run_firecracker.sh:284`: a launcher slow to clean up removes directories and TAPs of a
  launch that has started since; `run_firecracker.sh:81` counts the memory of its own VMs only.
- `saaf_driver.py:9`: after a timeout a guest has two invocations of the driver.
- `common.sh:201`: a pool that touches every core leaves no CPU, which
  `run_saaf_experiment.sh:87` takes for no pool.
- `fc_rapl.py:27` keeps one file for domains of the same name, so that `dram` in `rapl.csv` is that of
  one socket; `fc_arm_power.py:127` compares sensors of the same label with each other, and the
  entry of such a label is a difference of two counters (`Single` in `EnergyMeter`).
- `fc_analyze_pkg.py:241` finds "core" in "uncore" and takes whichever column comes first, the order
  being that in which `fc_rapl.py` found the zones.
- `fc_analyze_pkg.py:988` reads `proc.csv` with windows that are on the clock of the power file; when
  `turbostat` needed a second attempt that clock begins later than `proc.csv`'s (`BusyNotIdle`
  claims it for `rapl` only).
- `fc_analyze_pkg.py:204` divides two perf series by position when they have one length, also when
  they miss different samples.
- The traces of several VMs are in directories of their own, and the analyzer reads the
  root: graphs 05 to 08 are skipped for them. `arm_power.csv` is not read at all.
- `saaf_driver.py`: with `payloads: []` `build_payload_list` does not end (`PayloadsAssumption`
  excludes it); a shuffled list is cut to the runs, so that a payload may get more turns
  than others.
- `run_saaf_experiment.sh:73` pins the driver to what is free at that moment; a fleet relaunched with
  another pool during the experiment shares its CPUs.
- `fc_proc.py:142` lists `/proc/PID/fd` after asking whether it exists; a VM reaped in between ends the
  collector with a traceback and loses the row (`ListFd`).
- `install_build.sh:50` cannot unmount the image while the bind mounts are below it.

## 7. Abstractions worth knowing

Killing takes effect at once. A signal is taken between commands, never inside one.
In `Install` a SIGKILL of a build without a reboot is not modelled, and `e2fsck` accepts
any published image. In `Experiment` the collectors of an instance are one, their
grandchildren are not modelled, and times are whole seconds. In `EnergyMeter` 2^32 and the counter's own
range are scaled down to `Wrap` and `EnergyRange`, an interval is one sample, whatever its length, and no
counter starts again twice in it. In `CpuPool` the host's CPUs do not change.
In `VmSamplers` network bytes are those of the VM's namespace and fall to 0 with it, and what no
collector reads is not counted. In `Recording` and `Trace` time is in ticks, all numbers are
integers (a mean is a sum and a count, joules are twice the trapezoid, quotients are
truncated), a wall-clock stamp differs from its sample's own clock in the first row only, and
an invocation is a window and not a process. In `Analyze` the regression and the correlation are
the data they are made of.

## 8. Not modelled

`install_cgroup.sh` and `install_deps.sh` are one idempotent write and one package installation;
`fc_arch.sh` prints what the host has; `config.sh` is constants, of which the bounds are
parameters; the guest bootstrap is a straight line without an error path; `benchmark/` is
workloads; binaries are third-party. `fc_plot_csv.py` turns one CSV into one picture and keeps
nothing; `fc_pidstat.sh`, `fc_perf.sh` and `fc_ml_metrics.sh` are pipelines around tools of the
host, whose lifetime and target are in `Experiment`. Of the analyzer, colours, axes and wording
are left out, and the values of floating-point statistics, of which only the data they are taken
of is kept. `gen_saaf_functions.sh` writes one file per instance it finds.

## 9. Plan

In order of importance for the system; all of it done:

1. `Fleet`, then its proofs. 2. `Host`, proved. 3. `SaafDriver`. 4. `Install`. 5. `Experiment`.
6. `CpuPool`. 7. `EnergyMeter`. 8. `Invoke`.
9. `FleetAbstract`, checked as a property of `Fleet` and proved (`FleetProofs`).
10. `Trace`, `Analyze`, `Recording` with turbostat, `VmSamplers`.
11. Launches that take turns (`FleetProofs`), `ClientsProofs`, the pools and the installation in `HostProofs`, rows
and times in `ExperimentProofs`, the collectors of a VM in `SamplersProofs`.
12. `Induction` and what needs it: `RecordingProofs`, `AnalyzeProofs`, the sums and concatenations of `ClientsProofs` and
`SamplersProofs`.

Worth doing next:

- An abstract experiment that `Experiment` implements, as `Fleet` does `FleetAbstract`.
- Composition of `Experiment` with `Fleet`: the experiment's launch and kill as the
  real ones; `gen_saaf_functions.sh` and its second discovery.
- Inspector: deltas of `/proc/stat` around an invocation.
