------------------------------ MODULE CpuPool ------------------------------
(***************************************************************************)
(* Which host CPUs the fleet may use and which the load generator takes.   *)
(* run_firecracker.sh writes the pool to the parent cgroup, every instance *)
(* inherits it, and run_saaf_experiment.sh pins the driver to what is left *)
(* of the host (common.sh, "Host CPU topology").  The pool outlives the    *)
(* launch that set it whenever that launch does not end by its handler.    *)
(***************************************************************************)
EXTENDS Naturals, FiniteSets

CONSTANTS
  NumCpus,   \* nproc --all
  Nodes,     \* NUMA nodes
  MaxVms,    \* -n is at most this
  Vcpus,     \* VCPU_COUNT
  Ratios     \* OVERSUB, as fractions <<p, q>>

ASSUME SizesAssumption  == NumCpus \in Nat \ {0} /\ MaxVms \in Nat /\ Vcpus \in Nat \ {0}
ASSUME NodesAssumption  == Nodes \subseteq Nat /\ Nodes # {}
ASSUME RatiosAssumption == Ratios \subseteq (Nat \ {0}) \X (Nat \ {0})

VARIABLES
  core,       \* the physical core of each CPU, named by its first CPU
  node,       \* the NUMA node of each CPU
  delegated,  \* the cpuset controller is delegated to the parent cgroup
  cpuset,     \* its cpuset.cpus; empty: the whole host
  mems,       \* its cpuset.mems
  vms,        \* instances of the fleet that is up
  asked,      \* CPU_POOL and OVERSUB of its launch
  driver,     \* the load generator runs
  client      \* the CPUs it is pinned to; empty: unrestricted

host == <<core, node, delegated>>
vars == <<host, cpuset, mems, vms, asked, driver, client>>

Cpus == 0..(NumCpus - 1)

\* At most two threads to a core, and a core on one node.
Topology(cr, nd) ==
  /\ \A c \in Cpus : cr[c] <= c /\ cr[cr[c]] = cr[c] /\ nd[cr[c]] = nd[c]
  /\ \A c \in Cpus : Cardinality({d \in Cpus : cr[d] = cr[c]}) <= 2

(***************************************************************************)
(* fc_cpu_list, fc_cpu_pool, fc_cpu_nodes.                                 *)
(***************************************************************************)
\* Mutant: the order is that of the CPU ids.
Earlier_ById(c, d) == c < d

Earlier(c, d) ==
  \/ node[c] < node[d]
  \/ node[c] = node[d] /\ core[c] < core[d]
  \/ node[c] = node[d] /\ core[c] = core[d] /\ c < d

FirstCpus(m) == {c \in Cpus : Cardinality({d \in Cpus : Earlier(d, c)}) < m}

NodesOf(S) == {node[c] : c \in S}

(***************************************************************************)
(* What a launch asks for.                                                 *)
(***************************************************************************)
NoPool == [count |-> 0, list |-> {}, ratio |-> <<0, 1>>]

Requests ==
  {NoPool}
  \cup {[NoPool EXCEPT !.count = m] : m \in 1..(NumCpus + 1)}
  \cup {[NoPool EXCEPT !.list = S] : S \in SUBSET Cpus \ {{}}}
  \cup {[NoPool EXCEPT !.ratio = x] : x \in Ratios}

\* ceil(N * vcpu_count / OVERSUB)
SizeFor(n, x) ==
  LET c == (n * Vcpus * x[2] + x[1] - 1) \div x[1] IN IF c < 1 THEN 1 ELSE c

Wanted(r, n) == IF r.ratio # NoPool.ratio THEN SizeFor(n, r.ratio) ELSE r.count

\* No pool at all when the host has fewer CPUs than that.
Chosen(r, n) ==
  IF r.list # {} THEN r.list
  ELSE IF Wanted(r, n) <= NumCpus THEN FirstCpus(Wanted(r, n))
  ELSE {}

Init ==
  /\ core \in [Cpus -> Cpus] /\ node \in [Cpus -> Nodes] /\ Topology(core, node)
  /\ delegated \in BOOLEAN
  /\ cpuset = {} /\ mems = {}
  /\ vms = 0 /\ asked = NoPool
  /\ driver = "off" /\ client = {}

(***************************************************************************)
(* run_firecracker.sh: the pool is cleared before a new one is set.        *)
(***************************************************************************)
\* Mutant: only a launch with a pool of its own touches the cgroup.
Unpooled_Keeps(n, r) ==
  /\ r = NoPool \/ ~delegated
  /\ vms' = n /\ asked' = r
  /\ UNCHANGED <<cpuset, mems>>

\* No pool is asked for, or none can be had, which is a warning.
Unpooled(n, r) ==
  /\ r = NoPool \/ ~delegated
  /\ cpuset' = {}
  /\ vms' = n /\ asked' = r
  /\ UNCHANGED mems

\* Writing cpuset.mems may fail, which is a warning too.
Pooled(n, r) ==
  /\ r # NoPool /\ delegated
  /\ Chosen(r, n) # {}
  /\ cpuset' = Chosen(r, n)
  /\ mems' \in {NodesOf(Chosen(r, n)), mems}
  /\ vms' = n /\ asked' = r

\* More CPUs than the host has, or cpuset.cpus cannot be written: the launch ends.
Refused(r) ==
  /\ r # NoPool /\ delegated
  /\ cpuset' = {}
  /\ UNCHANGED <<mems, vms, asked>>

Launch ==
  /\ vms = 0
  /\ \E n \in 1..MaxVms, r \in Requests : Unpooled(n, r) \/ Pooled(n, r) \/ Refused(r)
  /\ UNCHANGED <<host, driver, client>>

\* cleanup: the pool is released, the binding to its nodes is not.
Cleanup ==
  /\ vms > 0
  /\ vms' = 0 /\ cpuset' = {}
  /\ UNCHANGED <<host, mems, asked, driver, client>>

\* kill -9 of the launcher and of its VMs: no handler runs.
Vanish ==
  /\ vms > 0
  /\ vms' = 0
  /\ UNCHANGED <<host, cpuset, mems, asked, driver, client>>

(***************************************************************************)
(* fc_thread_siblings, fc_reserved_cpus, fc_free_cpus, the driver.         *)
(***************************************************************************)
Siblings(c) == {d \in Cpus : core[d] = core[c]}

\* Mutant: the pool alone is reserved.
Reserved_PoolOnly == cpuset

Reserved == UNION {Siblings(c) : c \in cpuset}

Free == IF Reserved = {} THEN {} ELSE Cpus \ Reserved

\* run_saaf_experiment.sh: with running instances only; taskset if there is a list.
StartDriver ==
  /\ driver = "off" /\ vms > 0
  /\ driver' = "on"
  /\ client' = Free
  /\ UNCHANGED <<host, cpuset, mems, vms, asked>>

EndDriver ==
  /\ driver = "on"
  /\ driver' = "off" /\ client' = {}
  /\ UNCHANGED <<host, cpuset, mems, vms, asked>>

Next == Launch \/ Cleanup \/ Vanish \/ StartDriver \/ EndDriver

Spec == Init /\ [][Next]_vars

\* The driver comes to its end (see SaafDriver).
FairSpec == Spec /\ WF_vars(EndDriver)
=============================================================================
