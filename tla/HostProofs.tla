----------------------------- MODULE HostProofs -----------------------------
(***************************************************************************)
(* Proofs about Host, for every instance id and every size; about CpuPool, *)
(* for every number of CPUs and every topology of them; and about Install, *)
(* for any number of failing commands, interruptions and crashes, in any   *)
(* order of the scripts: what has the final name is finished.              *)
(***************************************************************************)
EXTENDS MCHost, FiniteSetTheorems, TLAPS

\* The two octets of instance k spell 4k: the subnets are laid out one after another.
LEMMA HostIpIs4k ==
  ASSUME NEW k \in Nat
  PROVE  HostIp(k) = 4 * k + 1 /\ GuestIp(k) = 4 * k + 2
<1> DEFINE q == k \div 64
           r == k % 64
<1>1. q \in Nat /\ r \in Nat /\ k = 64 * q + r
  OBVIOUS
<1>2. HostIp(k) = 256 * q + 4 * r + 1 /\ GuestIp(k) = 256 * q + 4 * r + 2
  BY <1>1 DEF HostIp, GuestIp, High, HostLow, GuestLow
<1> HIDE DEF q, r
<1> QED BY <1>1, <1>2

\* Every instance id that fc_check_instance accepts has the two usable addresses
\* of one /30 inside 172.16.0.0/16, and a MAC of two more bytes.
THEOREM InstancesAreAddressable ==
  ASSUME NEW k \in Nat, CheckInstance(k)
  PROVE  AddressesUsable(k)
<1>1. k < 16384
  BY DEF CheckInstance, MaxInstances
<1>2. HostIp(k) % 4 = 1 /\ GuestIp(k) % 4 = 2 /\ HostIp(k) \div 4 = GuestIp(k) \div 4
  <2>1. (4 * k + 1) % 4 = 1 /\ (4 * k + 2) % 4 = 2
    OBVIOUS
  <2>2. (4 * k + 1) \div 4 = k /\ (4 * k + 2) \div 4 = k
    OBVIOUS
  <2> QED BY <2>1, <2>2, HostIpIs4k
<1>3. GuestIp(k) <= 65535
  BY <1>1, HostIpIs4k
<1>4. k \div 64 \in 0..255 /\ k % 64 \in 0..63
  BY <1>1
<1>5. High(k) \in 0..255 /\ GuestLow(k) \in 0..255
  BY <1>4 DEF High, GuestLow
<1> QED BY <1>2, <1>3, <1>5 DEF AddressesUsable, Mac, Subnet

\* No two instances share a subnet, and so no address; nor do they share a MAC.
THEOREM InstancesAreDistinct ==
  ASSUME NEW j \in Nat, NEW k \in Nat, j # k
  PROVE  Distinct(j, k)
<1>1. HostIp(j) \div 4 = j /\ HostIp(k) \div 4 = k
  BY SMTT(20), HostIpIs4k
<1>2. CASE j \div 64 # k \div 64
  BY <1>1, <1>2 DEF Distinct, Subnet, Mac, High
<1>3. CASE j \div 64 = k \div 64
  <2>1. j % 64 # k % 64
    BY <1>3
  <2>2. GuestLow(j) # GuestLow(k)
    BY <2>1 DEF GuestLow
  <2> QED BY <1>1, <2>2 DEF Distinct, Subnet, Mac
<1> QED BY <1>2, <1>3

\* A truncating division compares as the multiplication does.
LEMMA DivisionBound ==
  ASSUME NEW a \in Nat, NEW b \in Nat, b > 0, NEW n \in Nat
  PROVE  n <= a \div b <=> n * b <= a
<1> DEFINE q == a \div b
           r == a % b
<1>1. q \in Nat /\ r \in 0..(b - 1) /\ a = b * q + r
  OBVIOUS
<1>2. ASSUME n <= q PROVE n * b <= a
  <2>1. n * b <= q * b
    BY <1>1, <1>2
  <2> QED BY <1>1, <2>1
<1>3. ASSUME n > q PROVE n * b > a
  <2>1. n >= q + 1
    BY <1>1, <1>3
  <2>2. n * b >= (q + 1) * b
    BY <1>1, <2>1
  <2>3. (q + 1) * b = q * b + b
    BY <1>1
  <2> QED BY <1>1, <2>2, <2>3
<1>4. q \in Nat /\ n * b \in Nat
  BY <1>1
<1> QED BY <1>2, <1>3, <1>4

\* The memory ceiling is exact for every host and every guest size: the preflight
\* accepts n instances if and only if they fit beside the reserve.
THEOREM CapacityIsExact ==
  ASSUME NEW all \in Nat, NEW kept \in Nat, NEW overhead \in Nat,
         NEW size \in Nat \ {0}, NEW n \in Nat \ {0}
  PROVE  CapacityExact(all, kept, overhead, size, n)
<1> DEFINE per == size + overhead
<1>1. per \in Nat /\ per > 0
  OBVIOUS
<1>2. n * per \in Nat /\ n * per > 0
  BY <1>1
<1>3. CASE all - kept > 0
  <2>1. all - kept \in Nat
    BY <1>3
  <2>2. n <= (all - kept) \div per <=> n * per <= all - kept
    BY <1>1, <2>1, DivisionBound
  <2> QED
    BY <1>1, <1>2, <1>3, <2>2 DEF CapacityExact, MemCapacity
<1>4. CASE ~(all - kept > 0)
  BY <1>2, <1>4 DEF CapacityExact, MemCapacity
<1> QED BY <1>3, <1>4

\* Whatever the memory size, the guest has the vCPUs to spend its CPU quota.
THEOREM QuotaIsSpendable ==
  ASSUME NEW size \in Nat \ {0}, NEW count \in Nat \ {0}
  PROVE  QuotaSpendable(count, size)
<1> DEFINE q == (size * 100000) \div 1769
<1>1. q \in Nat /\ 1769 * q <= size * 100000
  OBVIOUS
<1>2. CASE size <= 1769
  BY <1>1, <1>2 DEF QuotaSpendable, QuotaUs, VcpuCount, PeriodUs, MiBPerVcpu
<1>3. CASE size > 1769
  <2> DEFINE c == (size + 1768) \div 1769
  <2>1. c \in Nat /\ 1769 * c >= size
    OBVIOUS
  <2>2. q <= 100000 * c
    BY <1>1, <2>1
  <2>3. VcpuCount(count, size) = c
    BY <1>3 DEF VcpuCount, MiBPerVcpu
  <2> QED
    BY <1>3, <1>1, <2>1, <2>2, <2>3 DEF QuotaSpendable, QuotaUs, PeriodUs, MiBPerVcpu
<1> QED BY <1>2, <1>3

----------------------------------------------------------------------------
(***************************************************************************)
(* The pools, whatever the topology.                                       *)
(***************************************************************************)
TopologyOK == core \in [Cpus -> Cpus] /\ node \in [Cpus -> Nodes] /\ Topology(core, node)

LEMMA CpusAreFinite == IsFiniteSet(Cpus) /\ Cardinality(Cpus) = NumCpus /\ Cpus \subseteq Nat
BY SizesAssumption, FS_Interval DEF Cpus

\* fc_cpu_list sorts by node, core and CPU: a strict total order.
LEMMA EarlierIsAnOrder ==
  ASSUME TopologyOK
  PROVE  \A c, d, e \in Cpus :
           /\ ~Earlier(c, c)
           /\ Earlier(c, d) \/ Earlier(d, c) \/ c = d
           /\ Earlier(c, d) /\ Earlier(d, e) => Earlier(c, e)
<1>1. \A c \in Cpus : c \in Nat /\ core[c] \in Nat /\ node[c] \in Nat
  BY NodesAssumption, CpusAreFinite DEF TopologyOK
<1> SUFFICES ASSUME NEW c \in Cpus, NEW d \in Cpus, NEW e \in Cpus
             PROVE  /\ ~Earlier(c, c)
                    /\ Earlier(c, d) \/ Earlier(d, c) \/ c = d
                    /\ Earlier(c, d) /\ Earlier(d, e) => Earlier(c, e)
  OBVIOUS
<1> QED BY <1>1 DEF Earlier

\* How many CPUs come before c.
Before(c) == {d \in Cpus : Earlier(d, c)}
Rank      == [c \in Cpus |-> Cardinality(Before(c))]

LEMMA RankGrows ==
  ASSUME TopologyOK, NEW c \in Cpus, NEW d \in Cpus, Earlier(c, d)
  PROVE  Rank[c] < Rank[d]
<1>1. /\ IsFiniteSet(Before(c)) /\ IsFiniteSet(Before(d))
      /\ Cardinality(Before(c)) \in Nat /\ Cardinality(Before(d)) \in Nat
  BY CpusAreFinite, FS_Subset, FS_CardinalityType DEF Before
<1>2. c \notin Before(c) /\ Before(c) \cup {c} \subseteq Before(d)
  BY EarlierIsAnOrder DEF Before
<1>3. Cardinality(Before(c) \cup {c}) = Cardinality(Before(c)) + 1
  BY <1>1, <1>2, FS_AddElement
<1>4. Cardinality(Before(c) \cup {c}) <= Cardinality(Before(d))
  BY <1>1, <1>2, FS_Subset
<1> QED BY <1>1, <1>3, <1>4 DEF Rank

\* So the ranks are 0, 1, ... without a gap.
LEMMA RankIsABijection ==
  ASSUME TopologyOK
  PROVE  Rank \in Bijection(Cpus, 0..(NumCpus - 1))
<1>1. \A c \in Cpus : Rank[c] \in 0..(NumCpus - 1)
  <2> SUFFICES ASSUME NEW c \in Cpus PROVE Rank[c] \in 0..(NumCpus - 1)
    OBVIOUS
  <2>1. Before(c) \subseteq Cpus \ {c}
    BY EarlierIsAnOrder DEF Before
  <2>2. IsFiniteSet(Cpus \ {c}) /\ Cardinality(Cpus \ {c}) = NumCpus - 1
    BY CpusAreFinite, FS_RemoveElement
  <2>3. IsFiniteSet(Before(c)) /\ Cardinality(Before(c)) <= NumCpus - 1
    BY <2>1, <2>2, FS_Subset
  <2> QED BY <2>3, FS_CardinalityType, SizesAssumption DEF Rank
<1>2. Rank \in [Cpus -> 0..(NumCpus - 1)]
  BY <1>1 DEF Rank
<1>3. ASSUME NEW c \in Cpus, NEW d \in Cpus, Rank[c] = Rank[d] PROVE c = d
  BY <1>1, <1>3, EarlierIsAnOrder, RankGrows
<1>4. Rank \in Injection(Cpus, 0..(NumCpus - 1))
  BY <1>2, <1>3 DEF Injection, IsInjective
<1>5. IsFiniteSet(0..(NumCpus - 1)) /\ Cardinality(0..(NumCpus - 1)) = NumCpus
  BY SizesAssumption, FS_Interval
<1>6. Rank \in Surjection(Cpus, 0..(NumCpus - 1))
  BY <1>4, <1>5, CpusAreFinite, FS_Injection
<1> QED BY <1>4, <1>6 DEF Bijection

\* fc_cpu_pool gives as many CPUs as it is asked for.
LEMMA FirstCpusCount ==
  ASSUME TopologyOK, NEW m \in Nat, m <= NumCpus
  PROVE  IsFiniteSet(FirstCpus(m)) /\ Cardinality(FirstCpus(m)) = m
<1> DEFINE S == FirstCpus(m)
           f == [c \in S |-> Rank[c]]
<1>1. Rank \in [Cpus -> 0..(NumCpus - 1)]
      /\ (\A c, d \in Cpus : Rank[c] = Rank[d] => c = d)
      /\ (\A r \in 0..(NumCpus - 1) : \E c \in Cpus : Rank[c] = r)
  BY RankIsABijection DEF Bijection, Injection, Surjection, IsInjective
<1>2. S = {c \in Cpus : Rank[c] < m}
  BY DEF FirstCpus, Rank, Before
<1>3. f \in [S -> 0..(m - 1)]
  BY <1>1, <1>2
<1>4. \A r \in 0..(m - 1) : \E c \in S : f[c] = r
  <2> SUFFICES ASSUME NEW r \in 0..(m - 1) PROVE \E c \in S : f[c] = r
    OBVIOUS
  <2>1. PICK c \in Cpus : Rank[c] = r
    BY <1>1, SizesAssumption
  <2>2. c \in S /\ f[c] = r
    BY <2>1, <1>2
  <2> QED BY <2>2
<1>5. \A c, d \in S : f[c] = f[d] => c = d
  BY <1>1, <1>2
<1> HIDE DEF f, S
<1>6. f \in Injection(S, 0..(m - 1)) /\ f \in Surjection(S, 0..(m - 1))
  BY <1>3, <1>4, <1>5 DEF Injection, Surjection, IsInjective
<1>7. IsFiniteSet(0..(m - 1)) /\ Cardinality(0..(m - 1)) = m
  BY FS_Interval
<1> QED BY <1>6, <1>7, FS_Injection DEF S

\* What comes before a CPU of the pool is in the pool.
LEMMA FirstCpusComeFirst ==
  ASSUME TopologyOK, NEW m \in Nat, NEW c \in Cpus, NEW d \in FirstCpus(m), Earlier(c, d)
  PROVE  c \in FirstCpus(m)
<1>1. d \in Cpus /\ Rank[d] < m /\ Rank[c] < Rank[d]
  BY RankGrows DEF FirstCpus, Rank, Before
<1>2. Rank[c] \in Nat /\ Rank[d] \in Nat
  BY <1>1, RankIsABijection DEF Bijection, Injection
<1> QED BY <1>1, <1>2 DEF FirstCpus, Rank, Before

LEMMA AtMostOne ==
  ASSUME NEW S, \A c, d \in S : c = d
  PROVE  Cardinality(S) <= 1
<1>1. CASE S = {}
  BY <1>1, FS_EmptySet
<1>2. CASE S # {}
  <2>1. PICK c \in S : TRUE
    BY <1>2
  <2>2. S = {c}
    BY <2>1
  <2>3. Cardinality({c}) = 1
    BY FS_Singleton
  <2> QED BY <2>2, <2>3
<1> QED BY <1>1, <1>2

\* Three CPUs do not share a core.
LEMMA TwoThreads ==
  ASSUME TopologyOK, NEW c \in Cpus, NEW d \in Cpus, NEW e \in Cpus,
         core[c] = core[e], core[d] = core[e], c # d, c # e
  PROVE  d = e
<1> DEFINE S == {b \in Cpus : core[b] = core[e]}
           P == {c} \cup {d}
           T == P \cup {e}
<1> SUFFICES ASSUME d # e PROVE FALSE
  OBVIOUS
<1>1. IsFiniteSet(S) /\ Cardinality(S) \in Nat /\ Cardinality(S) <= 2
  BY CpusAreFinite, FS_Subset, FS_CardinalityType DEF TopologyOK, Topology
<1>2. d \notin {c} /\ e \notin P /\ T \subseteq S
  OBVIOUS
<1> HIDE DEF S
<1>3. IsFiniteSet({c}) /\ Cardinality({c}) = 1
  BY FS_Singleton
<1>4. IsFiniteSet(P) /\ Cardinality(P) = 2
  <2>1. d \notin {c} => /\ IsFiniteSet({c} \cup {d})
                        /\ Cardinality({c} \cup {d}) = Cardinality({c}) + 1
    BY <1>3, FS_AddElement
  <2> QED BY <1>2, <1>3, <2>1
<1> HIDE DEF P
<1>5. IsFiniteSet(T) /\ Cardinality(T) = 3
  BY <1>2, <1>4, FS_AddElement
<1> HIDE DEF T
<1>6. Cardinality(T) <= Cardinality(S)
  BY <1>1, <1>2, FS_Subset
<1> QED BY <1>1, <1>5, <1>6

\* A pool given by its size splits one core at most, and one node.
LEMMA FirstCpusFill ==
  ASSUME TopologyOK, NEW m \in Nat, NEW S, S = FirstCpus(m)
  PROVE  LET sameNode(c) == {d \in Cpus : node[d] = node[c]}
         IN  /\ Cardinality(Cut(S, Siblings)) <= 1
             /\ Cardinality(NodesOf(Cut(S, sameNode))) <= 1
<1> DEFINE sameNode(c) == {d \in Cpus : node[d] = node[c]}
<1>1. \A c \in Cpus : c \in Nat /\ core[c] \in Cpus /\ core[c] \in Nat /\ node[c] \in Nat
                     /\ node[core[c]] = node[c]
  BY NodesAssumption, CpusAreFinite DEF TopologyOK, Topology
<1>2. S \subseteq Cpus
  BY DEF FirstCpus
\* c before d, both in the pool, and a sibling e of c outside: it comes after d.
<1>3. ASSUME NEW c \in S, NEW d \in S, NEW e \in Cpus \ S, Earlier(c, d), core[e] = core[c]
      PROVE  FALSE
  <2>1. ~Earlier(e, d) /\ e # d /\ c # e
    BY <1>3, FirstCpusComeFirst
  <2>2. Earlier(d, e)
    BY <2>1, <1>2, EarlierIsAnOrder
  <2>3. node[c] = node[e]
    BY <1>1, <1>2, <1>3
  <2>4. core[d] = core[e]
    BY <1>1, <1>2, <1>3, <2>2, <2>3 DEF Earlier
  <2>5. c # d
    BY <1>2, <1>3, EarlierIsAnOrder
  <2> QED BY <1>2, <1>3, <2>1, <2>4, <2>5, TwoThreads
<1>4. \A c, d \in Cut(S, Siblings) : c = d
  <2> SUFFICES ASSUME NEW c \in Cut(S, Siblings), NEW d \in Cut(S, Siblings), c # d
               PROVE  FALSE
    OBVIOUS
  <2>1. /\ c \in S /\ d \in S
        /\ \E e \in Cpus \ S : core[e] = core[c]
        /\ \E e \in Cpus \ S : core[e] = core[d]
    BY DEF Cut, Siblings
  <2>2. Earlier(c, d) \/ Earlier(d, c)
    BY <2>1, <1>2, EarlierIsAnOrder
  <2> QED BY <2>1, <2>2, <1>3
\* d on a later node than c, and a CPU e of c's node outside: it comes before d.
<1>5. ASSUME NEW c \in S, NEW d \in S, NEW e \in Cpus \ S, node[e] = node[c]
      PROVE  ~(node[c] < node[d])
  BY <1>2, <1>5, FirstCpusComeFirst DEF Earlier
<1>6. \A c, d \in Cut(S, sameNode) : node[c] = node[d]
  <2>1. \A c \in Cut(S, sameNode) : c \in S /\ \E e \in Cpus \ S : node[e] = node[c]
    BY DEF Cut
  <2>2. \A c, d \in S : ~(node[c] < node[d]) /\ ~(node[d] < node[c]) => node[c] = node[d]
    BY <1>1, <1>2
  <2> SUFFICES ASSUME NEW c \in Cut(S, sameNode), NEW d \in Cut(S, sameNode)
               PROVE  node[c] = node[d]
    OBVIOUS
  <2>3. PICK e \in Cpus \ S : node[e] = node[c]
    BY <2>1
  <2>4. PICK g \in Cpus \ S : node[g] = node[d]
    BY <2>1
  <2>5. c \in S /\ d \in S
    BY <2>1
  <2>6. ~(node[c] < node[d]) /\ ~(node[d] < node[c])
    BY <1>5, <2>3, <2>4, <2>5
  <2> QED BY <2>2, <2>5, <2>6
<1>7. \A x, y \in NodesOf(Cut(S, sameNode)) : x = y
  BY <1>6 DEF NodesOf
<1> HIDE DEF sameNode
<1>8. Cardinality(Cut(S, Siblings)) <= 1
  BY <1>4, AtMostOne
<1>9. Cardinality(NodesOf(Cut(S, sameNode))) <= 1
  BY <1>7, AtMostOne
<1> QED BY <1>8, <1>9 DEF sameNode

----------------------------------------------------------------------------
\* A pool asked for by a ratio: the least number of CPUs that keeps to it.
LEMMA SizeIsLeast ==
  ASSUME NEW n \in Nat \ {0}, NEW x \in Ratios
  PROVE  /\ SizeFor(n, x) \in Nat \ {0}
         /\ n * Vcpus * x[2] <= x[1] * SizeFor(n, x)
         /\ SizeFor(n, x) = 1 \/ n * Vcpus * x[2] > x[1] * (SizeFor(n, x) - 1)
<1> DEFINE a == n * Vcpus * x[2]
           p == x[1]
           c == (a + p - 1) \div p
           r == (a + p - 1) % p
<1>1. x[1] \in Nat \ {0} /\ x[2] \in Nat \ {0} /\ Vcpus \in Nat \ {0}
  BY RatiosAssumption, SizesAssumption
<1>2. n * Vcpus \in Nat \ {0}
  BY <1>1
<1>3. a \in Nat \ {0} /\ p \in Nat \ {0}
  BY <1>1, <1>2
<1>4. SizeFor(n, x) = IF c < 1 THEN 1 ELSE c
  BY DEF SizeFor
<1> HIDE DEF a, p
<1>5. c \in Nat /\ r \in 0..(p - 1) /\ a + p - 1 = p * c + r
  BY <1>3
<1> HIDE DEF c, r
<1>6. p * c \in Nat /\ p * (c - 1) = p * c - p /\ (c = 0 => p * c = 0)
  BY <1>3, <1>5
<1>7. c >= 1
  BY <1>3, <1>5, <1>6
<1>8. a <= p * c /\ a > p * (c - 1)
  BY <1>3, <1>5, <1>6
<1>9. SizeFor(n, x) = c
  BY <1>4, <1>5, <1>7
<1> QED BY <1>5, <1>7, <1>8, <1>9 DEF a, p

LEMMA RequestForms ==
  ASSUME NEW r \in Requests
  PROVE  /\ r.list = {} => r.count \in Nat /\ (r.ratio = NoPool.ratio \/ r.ratio \in Ratios)
         /\ r.ratio \in Ratios => r.list = {}
BY SizesAssumption, RatiosAssumption DEF Requests, NoPool

\* What the launch that is up asked for, and the pool it has.
PoolAsAsked ==
  vms > 0 /\ asked.list = {} =>
    \E m \in Nat : /\ m <= NumCpus
                   /\ cpuset = FirstCpus(m)
                   /\ asked.ratio \in Ratios /\ cpuset # {} => m = SizeFor(vms, asked.ratio)

PoolsInv == TopologyOK /\ vms \in Nat /\ asked \in Requests /\ PoolIsItsOwn /\ PoolAsAsked

LEMMA NoCpus == ASSUME TopologyOK PROVE FirstCpus(0) = {}
<1>1. IsFiniteSet(FirstCpus(0)) /\ Cardinality(FirstCpus(0)) = 0
  BY FirstCpusCount, SizesAssumption
<1> QED BY <1>1, FS_EmptySet

LEMMA PooledAsAsked ==
  ASSUME TopologyOK, NEW n \in 1..MaxVms, NEW r \in Requests,
         Unpooled(n, r) \/ Pooled(n, r), UNCHANGED host
  PROVE  PoolAsAsked'
<1> SUFFICES ASSUME r.list = {}
             PROVE  \E m \in Nat :
                      /\ m <= NumCpus
                      /\ cpuset' = FirstCpus(m)
                      /\ r.ratio \in Ratios /\ cpuset' # {} => m = SizeFor(n, r.ratio)
  <2>1. asked' = r /\ vms' = n
    BY DEF Unpooled, Pooled
  <2>2. \A m \in Nat : FirstCpus(m)' = FirstCpus(m)
    BY DEF host, FirstCpus, Earlier
  <2> QED BY <2>1, <2>2 DEF PoolAsAsked
<1>1. CASE Unpooled(n, r)
  <2>1. cpuset' = {}
    BY <1>1 DEF Unpooled
  <2> QED BY <2>1, NoCpus, SizesAssumption
<1>2. CASE Pooled(n, r)
  <2>1. cpuset' = Chosen(r, n) /\ Chosen(r, n) # {}
    BY <1>2 DEF Pooled
  <2>2. cpuset' = FirstCpus(Wanted(r, n)) /\ Wanted(r, n) <= NumCpus
    BY <2>1 DEF Chosen
  <2>3. r.ratio \in Ratios => r.ratio # NoPool.ratio
    BY RatiosAssumption DEF NoPool
  <2>4. n \in Nat \ {0}
    BY SizesAssumption
  <2>5. Wanted(r, n) \in Nat /\ (r.ratio \in Ratios => Wanted(r, n) = SizeFor(n, r.ratio))
    BY <2>3, <2>4, RequestForms, SizeIsLeast DEF Wanted
  <2> QED BY <2>2, <2>5
<1> QED BY <1>1, <1>2

LEMMA PoolsStep == PoolsInv /\ [Next]_vars => PoolsInv'
<1> SUFFICES ASSUME PoolsInv, [Next]_vars PROVE PoolsInv'
  OBVIOUS
<1> USE DEF PoolsInv
<1>1. TopologyOK'
  BY DEF TopologyOK, Topology, Next, Launch, Cleanup, Vanish, StartDriver, EndDriver, vars, host
<1>2. CASE Launch
  <2>1. PICK n \in 1..MaxVms, r \in Requests : Unpooled(n, r) \/ Pooled(n, r) \/ Refused(r)
    BY <1>2 DEF Launch
  <2>2. vms = 0 /\ UNCHANGED host
    BY <1>2 DEF Launch
  <2>3. CASE Refused(r)
    BY <2>2, <2>3, <1>1 DEF Refused, PoolIsItsOwn, PoolAsAsked
  <2>4. CASE Unpooled(n, r) \/ Pooled(n, r)
    <3>1. vms' \in Nat /\ asked' \in Requests /\ PoolIsItsOwn'
      BY <2>4, SizesAssumption DEF Unpooled, Pooled, PoolIsItsOwn
    <3> QED BY <3>1, <2>2, <2>4, <1>1, PooledAsAsked
  <2> QED BY <2>1, <2>3, <2>4
<1>3. CASE Cleanup \/ Vanish
  BY <1>1, <1>3 DEF Cleanup, Vanish, PoolIsItsOwn, PoolAsAsked
<1>4. CASE StartDriver \/ EndDriver \/ UNCHANGED vars
  <2>1. UNCHANGED <<host, cpuset, vms, asked>>
    BY <1>4 DEF StartDriver, EndDriver, vars
  <2>2. \A m \in Nat : FirstCpus(m)' = FirstCpus(m)
    BY <2>1 DEF host, FirstCpus, Earlier
  <2> QED BY <1>1, <2>1, <2>2 DEF PoolIsItsOwn, PoolAsAsked
<1> QED BY <1>2, <1>3, <1>4 DEF Next

LEMMA Pools == Spec => []PoolsInv
<1>1. Init => PoolsInv
  BY DEF Init, PoolsInv, TopologyOK, PoolIsItsOwn, PoolAsAsked, Requests
<1> QED BY <1>1, PoolsStep, PTL DEF Spec

\* A fleet whose launch set no pool has the whole host, however the fleets before it
\* ended: run_firecracker.sh clears cpuset.cpus before anything else it does with it.
THEOREM OwnPool == Spec => []PoolIsItsOwn
<1>1. PoolsInv => PoolIsItsOwn
  BY DEF PoolsInv
<1> QED BY <1>1, Pools, PTL

\* On every topology of at most two threads to a core, fc_cpu_pool fills whole cores
\* and whole nodes before it spills onto the next, and OVERSUB is kept to by the
\* fewest CPUs that can.
THEOREM Fits == Spec => []PoolFits
<1>1. PoolsInv => PoolFits
  <2> SUFFICES ASSUME PoolsInv, vms > 0, asked.list = {} PROVE PoolFits
    BY RequestForms DEF PoolsInv, PoolFits
  <2>1. PICK m \in Nat : /\ m <= NumCpus
                         /\ cpuset = FirstCpus(m)
                         /\ asked.ratio \in Ratios /\ cpuset # {} => m = SizeFor(vms, asked.ratio)
    BY DEF PoolsInv, PoolAsAsked
  <2>2. LET sameNode(c) == {d \in Cpus : node[d] = node[c]}
        IN  /\ Cardinality(Cut(cpuset, Siblings)) <= 1
            /\ Cardinality(NodesOf(Cut(cpuset, sameNode))) <= 1
    BY <2>1, FirstCpusFill DEF PoolsInv
  <2>3. ASSUME asked.ratio \in Ratios, cpuset # {}
        PROVE  LET p == asked.ratio[1]  q == asked.ratio[2]  size == Cardinality(cpuset)
               IN  /\ vms * Vcpus * q <= p * size
                   /\ size = 1 \/ vms * Vcpus * q > p * (size - 1)
    <3>1. Cardinality(FirstCpus(m)) = m
      BY <2>1, FirstCpusCount DEF PoolsInv
    <3>2. vms \in Nat \ {0}
      BY DEF PoolsInv
    <3>3. m = SizeFor(vms, asked.ratio) /\ Cardinality(cpuset) = m
      BY <2>1, <2>3, <3>1
    <3> QED BY <2>3, <3>2, <3>3, SizeIsLeast
  <2> QED BY <2>2, <2>3 DEF PoolFits
<1> QED BY <1>1, Pools, PTL

\* Where the load generator is pinned, fc_free_cpus leaves it no CPU whose core has a
\* thread in the pool.
THEOREM Apart == Spec => ClientApart
<1>1. [Next]_vars /\ TopologyOK =>
        [driver = "off" /\ driver' = "on" =>
           \A c \in client', d \in cpuset : core[c] # core[d]]_vars
  <2> SUFFICES ASSUME Next, driver = "off", driver' = "on",
                      NEW c \in client', NEW d \in cpuset
               PROVE  core[c] # core[d]
    BY DEF vars
  <2>1. client' = Free
    BY DEF Next, Launch, Cleanup, Vanish, StartDriver, EndDriver
  <2>2. c \in Cpus /\ c \notin Siblings(d)
    BY <2>1 DEF Free, Reserved
  <2> QED BY <2>2 DEF Siblings
<1> QED BY <1>1, Pools, PTL DEF Spec, ClientApart, PoolsInv

----------------------------------------------------------------------------
\* Every instance that fc_check_instance accepts has addresses of its own, for every
\* distance to another instance.
THEOREM AllAddressable ==
  ASSUME Spread \subseteq Nat \ {0}
  PROVE  HostSpec => []Addressable
<1>1. HostInit => CheckInstance(instance)
  BY DEF HostInit, CheckInstance, MaxInstances
<1>2. CheckInstance(instance) /\ [HostNext]_<<vars, part, instance, sizes, installVars>>
        => CheckInstance(instance)'
  BY DEF HostNext, NextInstance, NextSizes, CheckInstance
<1>3. CheckInstance(instance) => Addressable
  <2> SUFFICES ASSUME CheckInstance(instance)
               PROVE  AddressesUsable(instance)
                      /\ \A d \in Spread : Distinct(instance, instance + d)
    BY DEF Addressable
  <2>1. instance \in Nat
    BY DEF CheckInstance
  <2>2. \A d \in Spread : instance + d \in Nat /\ instance + d # instance
    BY <2>1
  <2> QED BY <2>1, <2>2, InstancesAreAddressable, InstancesAreDistinct
<1> QED BY <1>1, <1>2, <1>3, PTL DEF HostSpec

\* The capacity of every host is exact and the quota of every guest can be spent,
\* whatever the host's memory, its reserve and the size of a guest.
THEOREM AllExact ==
  ASSUME Totals \subseteq Nat, Reserves \subseteq Nat,
         Mems \subseteq Nat \ {0}, Templates \subseteq Nat \ {0}
  PROVE  HostSpec => []SizesExact
<1> DEFINE Sizes == total \in Nat /\ reserve \in Nat /\ mem \in Nat \ {0} /\ template \in Nat \ {0}
<1>1. HostInit => Sizes
  BY DEF HostInit
<1>2. Sizes /\ [HostNext]_<<vars, part, instance, sizes, installVars>> => Sizes'
  BY DEF HostNext, NextInstance, NextSizes, sizes
<1>3. Sizes => SizesExact
  <2> SUFFICES ASSUME Sizes PROVE SizesExact
    OBVIOUS
  <2> DEFINE c == MemCapacity(total, reserve, Overhead, mem)
  <2>1. Overhead \in Nat
    BY DEF Overhead
  <2>2. c \in Nat
    BY DEF MemCapacity, Overhead
  <2>3. \A n \in {c, c + 1} : n > 0 => CapacityExact(total, reserve, Overhead, mem, n)
    BY <2>1, <2>2, CapacityIsExact
  <2>4. QuotaSpendable(template, mem)
    BY QuotaIsSpendable
  <2> QED BY <2>3, <2>4 DEF SizesExact
<1> QED BY <1>1, <1>2, <1>3, PTL DEF HostSpec

\* What the pools and the installation promise holds of the composition that the run
\* checks, too.
THEOREM Composed == HostSpec => Spec /\ I!Spec
<1>1. HostInit => Init /\ I!Init
  BY DEF HostInit
<1>2. [HostNext]_<<vars, part, instance, sizes, installVars>> => [Next]_vars
  BY DEF HostNext
<1>3. [HostNext]_<<vars, part, instance, sizes, installVars>> => [I!Next]_(I!vars)
  BY DEF HostNext, installVars, I!vars
<1> QED BY <1>1, <1>2, <1>3, PTL DEF HostSpec, Spec, I!Spec

----------------------------------------------------------------------------
(***************************************************************************)
(* Install.                                                                *)
(***************************************************************************)
Stages == {"idle"} \cup I!BuildStages
          \cup {"get_kernel", "get_base", "get_busybox", "get_archive", "get_sums"}

\* Stages in which the image under the other name is this build's.
Made     == {"rm_layers", "mount", "inject"}
Injected == {"pip", "pip_failed"}
Ready    == {"umount", "publish"}

TypeOK ==
  /\ pc \in Stages
  /\ art \in [I!Fetched \cup {"layers"} -> I!Status \cup {"empty"}]
  /\ \A a \in I!Fetched : art[a] \in I!Status
  /\ partial \in I!Image \cup {I!NoImage} /\ image \in I!Image \cup {I!NoImage}
  /\ bin \in [I!Binaries -> I!Status] /\ inFolder \in [I!Binaries -> I!Status]
  /\ verdict \in {"none", "pass", "fail"}
  /\ crashes \in Nat

\* What the stage a build is at says of what it has made so far.
BuiltSoFar ==
  /\ pc \in {"untar", "rm_base", "mkfs"} => I!Has("layers")
  /\ pc \in Made     => partial # I!NoImage /\ partial.stage = "made"
  /\ pc \in Injected => partial # I!NoImage /\ partial.stage = "injected"
  /\ pc \in Ready    => partial # I!NoImage /\ I!Finished(partial)
  /\ pc \notin Made \cup Injected \cup Ready /\ partial # I!NoImage => crashes > 0

\* What has the final name.
Published == image # I!NoImage => I!Finished(image)

IInv == TypeOK /\ BuiltSoFar /\ Published

----------------------------------------------------------------------------
LEMMA InitIInv == I!Init => IInv
<1> SUFFICES ASSUME I!Init PROVE IInv
  OBVIOUS
<1>1. TypeOK
  BY DEF I!Init, TypeOK, Stages, I!Status, I!Fetched, I!Binaries
<1>2. BuiltSoFar /\ Published
  BY DEF I!Init, BuiltSoFar, Published, Made, Injected, Ready
<1> QED BY <1>1, <1>2 DEF IInv

\* The images that are made.
LEMMA Images ==
  ASSUME TypeOK
  PROVE  /\ I!Has("layers") =>
              I!MadeOf(art["layers"]) \in I!Image /\ I!MadeOf(art["layers"]).stage = "made"
         /\ partial # I!NoImage =>
              /\ \A pip \in BOOLEAN :
                   LET next == [partial EXCEPT !.stage = "injected", !.busybox = art["busybox"],
                                               !.pip = pip]
                   IN  next \in I!Image /\ next.stage = "injected"
              /\ [partial EXCEPT !.stage = "ready"] \in I!Image
              /\ [partial EXCEPT !.stage = "ready"].stage = "ready"
              /\ [partial EXCEPT !.stage = "ready"].pip = partial.pip
         /\ I!NoImage \notin I!Image
<1>1. art["layers"] \in I!Status \cup {"empty"} /\ art["busybox"] \in I!Status
  BY DEF TypeOK, I!Fetched
<1>2. I!Has("layers") => art["layers"] \in {"empty", "part", "full"}
  BY <1>1 DEF I!Has, I!Status
<1>3. partial # I!NoImage => partial \in I!Image
  BY DEF TypeOK
<1> QED BY <1>1, <1>2, <1>3 DEF I!Image, I!Status, I!NoImage, I!MadeOf

----------------------------------------------------------------------------
\* What a fetch, or an interrupted one, leaves on disk.
LEMMA Sets ==
  ASSUME TypeOK, NEW a \in I!Fetched \cup {"layers"}, NEW s \in I!Status \cup {"empty"},
         a \in I!Fetched => s \in I!Status, I!Set(a, s)
  PROVE  /\ art' \in [I!Fetched \cup {"layers"} -> I!Status \cup {"empty"}]
         /\ \A b \in I!Fetched : art'[b] \in I!Status
         /\ art'["layers"] # art["layers"] => a = "layers"
         /\ a = "layers" => art'["layers"] = s
BY DEF TypeOK, I!Set, I!Fetched

\* An operator or a command that stops the script half-way.
LEMMA HalfDoneTypes ==
  ASSUME TypeOK, I!HalfDone
  PROVE  /\ art' \in [I!Fetched \cup {"layers"} -> I!Status \cup {"empty"}]
         /\ \A b \in I!Fetched : art'[b] \in I!Status
<1>1. CASE UNCHANGED art
  BY <1>1 DEF TypeOK
<1>2. CASE I!Set("layers", "part")
  BY <1>2, Sets DEF I!Status, I!Fetched
<1>3. CASE I!Set("base", "part")
  BY <1>3, Sets DEF I!Status, I!Fetched
<1> QED BY <1>1, <1>2, <1>3 DEF I!HalfDone

LEMMA DownloadKeeps ==
  ASSUME IInv, I!Download \/ I!StopDownload
  PROVE  IInv'
<1> USE DEF IInv
<1>1. /\ pc \in {"get_kernel", "get_base", "get_busybox", "get_archive", "get_sums"}
      /\ pc' \in {"get_base", "get_busybox", "get_archive", "get_sums", "idle"}
      /\ UNCHANGED <<partial, image, bin, inFolder, drive, verdict, crashes>>
  BY DEF I!Download, I!Get, I!StopDownload, I!GetStage, I!Fetched, I!Rootfs, I!Release, I!NoFault, I!Fault
<1>2. UNCHANGED art \/ \E a \in I!Fetched, s \in I!Status : I!Set(a, s)
  BY DEF I!Download, I!Get, I!StopDownload, I!Remains, I!Fetched, I!Status
<1>3. /\ art' \in [I!Fetched \cup {"layers"} -> I!Status \cup {"empty"}]
      /\ \A b \in I!Fetched : art'[b] \in I!Status
  BY <1>2, Sets DEF TypeOK
<1>4. TypeOK'
  BY <1>1, <1>3 DEF TypeOK, Stages
<1>5. BuiltSoFar'
  BY <1>1 DEF BuiltSoFar, Made, Injected, Ready
<1>6. Published'
  BY <1>1 DEF Published
<1> QED BY <1>4, <1>5, <1>6

----------------------------------------------------------------------------
\* The stages of the rootfs image.
LEMMA RootfsKeeps ==
  ASSUME IInv,
         I!StartRootfs \/ I!Untar \/ I!RemoveBase \/ I!Mkfs \/ I!RemoveLayers \/ I!Mount
         \/ I!Inject \/ I!Pip \/ I!Umount \/ I!Publish
  PROVE  IInv'
<1> USE DEF IInv
<1>1. CASE I!StartRootfs
  <2>1. TypeOK'
    BY <1>1, Sets DEF I!StartRootfs, I!Rootfs, I!Release, I!NoFault, I!Goto, TypeOK, Stages, I!BuildStages, I!RootfsStages, I!ReleaseStages, I!Status, I!Fetched
  <2>2. BuiltSoFar'
    <3>1. pc' \in {"untar", "rm_base"} => I!Has("layers")'
      BY <1>1, Sets DEF I!StartRootfs, I!Has, I!Status, I!Fetched
    <3>2. pc = "rootfs" /\ pc' \in {"check", "rm_base", "untar"}
      BY <1>1 DEF I!StartRootfs
    <3>3. UNCHANGED <<partial, crashes>>
      BY <1>1 DEF I!StartRootfs, I!Rootfs, I!NoFault
    <3> QED BY <3>1, <3>2, <3>3 DEF BuiltSoFar, Made, Injected, Ready
  <2>3. Published'
    BY <1>1 DEF I!StartRootfs, I!Rootfs, I!Release, I!NoFault, I!Goto, Published
  <2> QED BY <2>1, <2>2, <2>3
<1>2. CASE I!Untar
  <2>1. TypeOK'
    BY <1>2, Sets DEF I!Untar, I!Rootfs, I!Release, I!NoFault, I!Goto, TypeOK, Stages, I!BuildStages, I!RootfsStages, I!ReleaseStages, I!Status, I!Fetched
  <2>2. BuiltSoFar'
    BY <1>2, Sets DEF I!Untar, I!Rootfs, I!Release, I!NoFault, I!Goto, BuiltSoFar, Made, Injected, Ready, I!Has, I!Status
  <2>3. Published'
    BY <1>2 DEF I!Untar, I!Rootfs, I!Release, I!NoFault, I!Goto, Published
  <2> QED BY <2>1, <2>2, <2>3
<1>3. CASE I!RemoveBase
  <2>1. TypeOK'
    BY <1>3, Sets DEF I!RemoveBase, I!Rootfs, I!Release, I!NoFault, I!Goto, TypeOK, Stages, I!BuildStages, I!RootfsStages, I!ReleaseStages, I!Status, I!Fetched
  <2>2. BuiltSoFar'
    BY <1>3, Sets DEF I!RemoveBase, I!Rootfs, I!Release, I!NoFault, I!Goto, BuiltSoFar, Made, Injected, Ready, I!Has, I!Status, I!Fetched
  <2>3. Published'
    BY <1>3 DEF I!RemoveBase, I!Rootfs, I!Release, I!NoFault, I!Goto, Published
  <2> QED BY <2>1, <2>2, <2>3
<1>4. CASE I!Mkfs
  <2>1. TypeOK'
    BY <1>4, Images DEF I!Mkfs, I!Rootfs, I!Release, I!NoFault, I!Goto, TypeOK, Stages, I!BuildStages, I!RootfsStages, I!ReleaseStages, BuiltSoFar
  <2>2. BuiltSoFar'
    BY <1>4, Images DEF I!Mkfs, I!Rootfs, I!Release, I!NoFault, I!Goto, BuiltSoFar, Made, Injected, Ready
  <2>3. Published'
    BY <1>4 DEF I!Mkfs, I!Rootfs, I!Release, I!NoFault, I!Goto, Published
  <2> QED BY <2>1, <2>2, <2>3
<1>5. CASE I!RemoveLayers
  <2>1. TypeOK'
    BY <1>5, Sets DEF I!RemoveLayers, I!Rootfs, I!Release, I!NoFault, I!Goto, TypeOK, Stages, I!BuildStages, I!RootfsStages, I!ReleaseStages, I!Status, I!Fetched
  <2>2. BuiltSoFar'
    BY <1>5 DEF I!RemoveLayers, I!Rootfs, I!Release, I!NoFault, I!Goto, BuiltSoFar, Made, Injected, Ready
  <2>3. Published'
    BY <1>5 DEF I!RemoveLayers, I!Rootfs, I!Release, I!NoFault, I!Goto, Published
  <2> QED BY <2>1, <2>2, <2>3
<1>6. CASE I!Mount
  <2>1. TypeOK'
    BY <1>6 DEF I!Mount, I!Rootfs, I!Release, I!NoFault, I!Goto, TypeOK, Stages, I!BuildStages, I!RootfsStages, I!ReleaseStages
  <2>2. BuiltSoFar'
    BY <1>6 DEF I!Mount, I!Rootfs, I!Release, I!NoFault, I!Goto, BuiltSoFar, Made, Injected, Ready
  <2>3. Published'
    BY <1>6 DEF I!Mount, I!Rootfs, I!Release, I!NoFault, I!Goto, Published
  <2> QED BY <2>1, <2>2, <2>3
<1>7. CASE I!Inject
  <2>1. TypeOK'
    BY <1>7, Images DEF I!Inject, I!Rootfs, I!Release, I!NoFault, I!Goto, TypeOK, Stages, I!BuildStages, I!RootfsStages, I!ReleaseStages, BuiltSoFar, Made
  <2>2. BuiltSoFar'
    BY <1>7, Images DEF I!Inject, I!Rootfs, I!Release, I!NoFault, I!Goto, BuiltSoFar, Made, Injected, Ready
  <2>3. Published'
    BY <1>7 DEF I!Inject, I!Rootfs, I!Release, I!NoFault, I!Goto, Published
  <2> QED BY <2>1, <2>2, <2>3
<1>8. CASE I!Pip
  <2>1. TypeOK'
    BY <1>8, Images DEF I!Pip, I!Rootfs, I!Release, I!NoFault, I!Goto, TypeOK, Stages, I!BuildStages, I!RootfsStages, I!ReleaseStages, BuiltSoFar, Injected, I!Fault
  <2>2. BuiltSoFar'
    BY <1>8, Images DEF I!Pip, I!Rootfs, I!Release, I!NoFault, I!Goto, BuiltSoFar, Made, Injected, Ready, I!Finished, I!Fault
  <2>3. Published'
    BY <1>8 DEF I!Pip, I!Rootfs, I!Release, I!NoFault, I!Goto, Published, I!Fault
  <2> QED BY <2>1, <2>2, <2>3
<1>9. CASE I!Umount
  <2>1. TypeOK'
    BY <1>9 DEF I!Umount, I!Rootfs, I!Release, I!NoFault, I!Goto, TypeOK, Stages, I!BuildStages, I!RootfsStages, I!ReleaseStages
  <2>2. BuiltSoFar'
    BY <1>9 DEF I!Umount, I!Rootfs, I!Release, I!NoFault, I!Goto, BuiltSoFar, Made, Injected, Ready
  <2>3. Published'
    BY <1>9 DEF I!Umount, I!Rootfs, I!Release, I!NoFault, I!Goto, Published
  <2> QED BY <2>1, <2>2, <2>3
<1>10. CASE I!Publish
  <2>1. TypeOK'
    BY <1>10 DEF I!Publish, I!Rootfs, I!Release, I!NoFault, I!Goto, TypeOK, Stages, I!BuildStages, I!RootfsStages, I!ReleaseStages
  <2>2. BuiltSoFar'
    BY <1>10 DEF I!Publish, I!Rootfs, I!Release, I!NoFault, I!Goto, BuiltSoFar, Made, Injected, Ready
  <2>3. Published'
    BY <1>10, <2>1 DEF I!Publish, I!Rootfs, I!Release, I!NoFault, I!Goto, Published, BuiltSoFar, Ready
  <2> QED BY <2>1, <2>2, <2>3
<1> QED BY <1>1, <1>2, <1>3, <1>4, <1>5, <1>6, <1>7, <1>8, <1>9, <1>10

----------------------------------------------------------------------------
\* The release and the function drive.
LEMMA ReleaseKeeps ==
  ASSUME IInv,
         I!CheckArchive \/ I!BeginExtract \/ I!EndExtract \/ I!FunctionDrive
         \/ I!Name("firecracker", "name_jailer") \/ I!Name("jailer", "function_drive")
  PROVE  IInv'
<1> USE DEF IInv
<1>1. CASE I!CheckArchive
  <2>1. TypeOK'
    BY <1>1 DEF I!CheckArchive, I!Rootfs, I!Release, I!NoFault, I!Goto, TypeOK, Stages, I!BuildStages, I!RootfsStages, I!ReleaseStages
  <2>2. BuiltSoFar'
    BY <1>1 DEF I!CheckArchive, I!Rootfs, I!Release, I!NoFault, I!Goto, BuiltSoFar, Made, Injected, Ready
  <2>3. Published'
    BY <1>1 DEF I!CheckArchive, I!Rootfs, I!Release, I!NoFault, I!Goto, Published
  <2> QED BY <2>1, <2>2, <2>3
<1>2. CASE I!BeginExtract
  <2>1. TypeOK'
    BY <1>2 DEF I!BeginExtract, I!Rootfs, I!Release, I!NoFault, I!Goto, TypeOK, Stages, I!BuildStages, I!RootfsStages, I!ReleaseStages
  <2>2. BuiltSoFar'
    BY <1>2 DEF I!BeginExtract, I!Rootfs, I!Release, I!NoFault, I!Goto, BuiltSoFar, Made, Injected, Ready
  <2>3. Published'
    BY <1>2 DEF I!BeginExtract, I!Rootfs, I!Release, I!NoFault, I!Goto, Published
  <2> QED BY <2>1, <2>2, <2>3
<1>3. CASE I!EndExtract
  <2>1. TypeOK'
    BY <1>3 DEF I!EndExtract, I!Rootfs, I!Release, I!NoFault, I!Goto, TypeOK, Stages, I!BuildStages, I!RootfsStages, I!ReleaseStages, I!Binaries, I!Status
  <2>2. BuiltSoFar'
    BY <1>3 DEF I!EndExtract, I!Rootfs, I!Release, I!NoFault, I!Goto, BuiltSoFar, Made, Injected, Ready
  <2>3. Published'
    BY <1>3 DEF I!EndExtract, I!Rootfs, I!Release, I!NoFault, I!Goto, Published
  <2> QED BY <2>1, <2>2, <2>3
<1>4. CASE I!FunctionDrive
  <2>1. TypeOK'
    BY <1>4 DEF I!FunctionDrive, I!Rootfs, I!Release, I!NoFault, I!Goto, TypeOK, Stages, I!BuildStages, I!RootfsStages, I!ReleaseStages, I!Fault
  <2>2. BuiltSoFar'
    BY <1>4 DEF I!FunctionDrive, I!Rootfs, I!Release, I!NoFault, I!Goto, BuiltSoFar, Made, Injected, Ready, I!Fault
  <2>3. Published'
    BY <1>4 DEF I!FunctionDrive, I!Rootfs, I!Release, I!NoFault, I!Goto, Published, I!Fault
  <2> QED BY <2>1, <2>2, <2>3
<1>5. CASE I!Name("firecracker", "name_jailer")
  <2>1. TypeOK'
    BY <1>5 DEF I!Name, I!Rootfs, I!Release, I!NoFault, I!Goto, TypeOK, Stages, I!BuildStages, I!RootfsStages, I!ReleaseStages, I!NameStage, I!Binaries, I!Status
  <2>2. BuiltSoFar'
    BY <1>5 DEF I!Name, I!Rootfs, I!Release, I!NoFault, I!Goto, BuiltSoFar, Made, Injected, Ready, I!NameStage, I!Binaries
  <2>3. Published'
    BY <1>5 DEF I!Name, I!Rootfs, I!Release, I!NoFault, I!Goto, Published
  <2> QED BY <2>1, <2>2, <2>3
<1>6. CASE I!Name("jailer", "function_drive")
  <2>1. TypeOK'
    BY <1>6 DEF I!Name, I!Rootfs, I!Release, I!NoFault, I!Goto, TypeOK, Stages, I!BuildStages, I!RootfsStages, I!ReleaseStages, I!NameStage, I!Binaries, I!Status
  <2>2. BuiltSoFar'
    BY <1>6 DEF I!Name, I!Rootfs, I!Release, I!NoFault, I!Goto, BuiltSoFar, Made, Injected, Ready, I!NameStage, I!Binaries
  <2>3. Published'
    BY <1>6 DEF I!Name, I!Rootfs, I!Release, I!NoFault, I!Goto, Published
  <2> QED BY <2>1, <2>2, <2>3
<1> QED BY <1>1, <1>2, <1>3, <1>4, <1>5, <1>6

----------------------------------------------------------------------------
\* A script that begins, one that does not get to its end, and the operator's own
\* commands.
LEMMA OthersKeep ==
  ASSUME IInv,
         I!BeginDownload \/ I!BeginBuild \/ I!Abort \/ I!Crash \/ I!Verify \/ I!ForceRebuild
  PROVE  IInv'
<1> USE DEF IInv
<1>1. CASE I!BeginDownload
  <2>1. TypeOK'
    BY <1>1 DEF I!BeginDownload, I!Rootfs, I!Release, I!NoFault, I!Goto, TypeOK, Stages, I!BuildStages, I!RootfsStages, I!ReleaseStages
  <2>2. BuiltSoFar'
    BY <1>1 DEF I!BeginDownload, I!Rootfs, I!Release, I!NoFault, I!Goto, BuiltSoFar, Made, Injected, Ready
  <2>3. Published'
    BY <1>1 DEF I!BeginDownload, I!Rootfs, I!Release, I!NoFault, I!Goto, Published
  <2> QED BY <2>1, <2>2, <2>3
<1>2. CASE I!BeginBuild
  <2>1. TypeOK'
    BY <1>2 DEF I!BeginBuild, I!Rootfs, I!Release, I!NoFault, I!Goto, TypeOK, Stages, I!BuildStages, I!RootfsStages, I!ReleaseStages
  <2>2. BuiltSoFar'
    BY <1>2 DEF I!BeginBuild, I!Rootfs, I!Release, I!NoFault, I!Goto, BuiltSoFar, Made, Injected, Ready
  <2>3. Published'
    BY <1>2 DEF I!BeginBuild, I!Rootfs, I!Release, I!NoFault, I!Goto, Published
  <2> QED BY <2>1, <2>2, <2>3
<1>3. CASE I!Abort
  <2>1. /\ pc \in I!BuildStages /\ pc' = "idle"
        /\ UNCHANGED <<image, bin, inFolder, drive, verdict, crashes>>
        /\ I!HalfDone
    BY <1>3 DEF I!Abort, I!Release
  <2>2. IF pc \in I!RootfsStages THEN partial' = I!NoImage ELSE UNCHANGED partial
    BY <1>3 DEF I!Abort, I!Trap
  <2>3. TypeOK'
    BY <2>1, <2>2, HalfDoneTypes DEF TypeOK, Stages
  <2>4. BuiltSoFar'
    BY <2>1, <2>2 DEF BuiltSoFar, Made, Injected, Ready, I!RootfsStages
  <2>5. Published'
    BY <2>1 DEF Published
  <2> QED BY <2>3, <2>4, <2>5
<1>4. CASE I!Crash
  <2>1. /\ pc' = "idle" /\ crashes' = crashes + 1 /\ I!HalfDone
        /\ UNCHANGED <<partial, image, bin, inFolder, drive, verdict>>
    BY <1>4 DEF I!Crash, I!Release
  <2>2. TypeOK'
    BY <2>1, HalfDoneTypes DEF TypeOK, Stages
  <2>3. BuiltSoFar'
    BY <2>1 DEF BuiltSoFar, Made, Injected, Ready, TypeOK
  <2>4. Published'
    BY <2>1 DEF Published
  <2> QED BY <2>2, <2>3, <2>4
<1>5. CASE I!Verify
  <2>1. TypeOK'
    BY <1>5 DEF I!Verify, I!Rootfs, I!Release, I!NoFault, I!Goto, TypeOK, Stages, I!BuildStages, I!RootfsStages, I!ReleaseStages
  <2>2. BuiltSoFar'
    BY <1>5 DEF I!Verify, I!Rootfs, I!Release, I!NoFault, I!Goto, BuiltSoFar, Made, Injected, Ready
  <2>3. Published'
    BY <1>5 DEF I!Verify, I!Rootfs, I!Release, I!NoFault, I!Goto, Published
  <2> QED BY <2>1, <2>2, <2>3
<1>6. CASE I!ForceRebuild
  <2>1. TypeOK'
    BY <1>6 DEF I!ForceRebuild, I!Rootfs, I!Release, I!NoFault, I!Goto, TypeOK, Stages, I!BuildStages, I!RootfsStages, I!ReleaseStages
  <2>2. BuiltSoFar'
    BY <1>6 DEF I!ForceRebuild, I!Rootfs, I!Release, I!NoFault, I!Goto, BuiltSoFar, Made, Injected, Ready
  <2>3. Published'
    BY <1>6 DEF I!ForceRebuild, I!Rootfs, I!Release, I!NoFault, I!Goto, Published
  <2> QED BY <2>1, <2>2, <2>3
<1> QED BY <1>1, <1>2, <1>3, <1>4, <1>5, <1>6

----------------------------------------------------------------------------
LEMMA StepIInv == IInv /\ [I!Next]_(I!vars) => IInv'
<1> SUFFICES ASSUME IInv, [I!Next]_(I!vars) PROVE IInv'
  OBVIOUS
<1>1. CASE UNCHANGED I!vars
  BY <1>1 DEF I!vars, IInv, TypeOK, BuiltSoFar, Published, I!Has
<1>2. CASE I!Next
  BY <1>2, DownloadKeeps, RootfsKeeps, ReleaseKeeps, OthersKeep DEF I!Next, I!Build
<1> QED BY <1>1, <1>2

LEMMA Invariance == I!Spec => []IInv
<1> QED BY InitIInv, StepIInv, PTL DEF I!Spec

\* aws_baseimage.ext4 is never a half-built image, and the other name is left behind
\* only by a crash of the host: install_build.sh's mkfs, mount, inject, pip, umount
\* and mv, its EXIT trap, and any number of failures in between.
THEOREM Complete == I!Spec => []PublishedIsComplete
<1>1. IInv => PublishedIsComplete
  BY DEF PublishedIsComplete, IInv, BuiltSoFar, Published, I!PublishedIsComplete, Made, Injected, Ready
<1> QED BY <1>1, Invariance, PTL
=============================================================================
