---------------------------- MODULE CpuPoolProps ----------------------------
(***************************************************************************)
(* Where guests and load generator may run (see CpuPool).                  *)
(***************************************************************************)
EXTENDS CpuPool

Cut(S, Of(_)) == {c \in S : ~ Of(c) \subseteq S}

\* "filling whole cores and whole nodes before spilling onto the next": a pool given
\* by size cuts through one core and one node at most.  "OVERSUB=1 gives the fleet
\* exactly as many CPUs as it asks for, OVERSUB=2 gives it half": one given by a ratio
\* is the smallest that keeps the requested vCPUs per CPU at it.
PoolFits ==
  /\ vms > 0 /\ asked.list = {} =>
       LET sameNode(c) == {d \in Cpus : node[d] = node[c]}
       IN  /\ Cardinality(Cut(cpuset, Siblings)) <= 1
           /\ Cardinality(NodesOf(Cut(cpuset, sameNode))) <= 1
  /\ vms > 0 /\ asked.ratio \in Ratios /\ cpuset # {} =>
       LET p == asked.ratio[1]  q == asked.ratio[2]  size == Cardinality(cpuset)
       IN  /\ vms * Vcpus * q <= p * size
           /\ size = 1 \/ vms * Vcpus * q > p * (size - 1)

\* "one left behind would silently constrain the next": a fleet whose launch set no
\* pool runs on the whole host, however the fleets before it ended.
PoolIsItsOwn == vms > 0 /\ asked = NoPool => cpuset = {}

\* The driver, where it is pinned, shares no physical core with the pool it was
\* started beside.
ClientApart ==
  [][driver = "off" /\ driver' = "on" =>
       \A c \in client', d \in cpuset : core[c] # core[d]]_vars

\* The same of the memory nodes: a fleet without a pool is bound to none.
MemoryIsItsOwn == vms > 0 /\ asked = NoPool => mems = {}
=============================================================================
