-------------------------------- MODULE Host --------------------------------
(***************************************************************************)
(* The arithmetic common.sh and run_firecracker.sh do before a launch: the *)
(* addresses of an instance, how many instances the RAM holds, and the CPU *)
(* quota and vCPU count that go with a memory size.  Division truncates,   *)
(* as the shell's does; every operand is natural.                          *)
(***************************************************************************)
EXTENDS Integers

MaxInstances == 16384

\* The last two octets, within 172.16.0.0/16, of an instance's addresses.
High(k)     == k \div 64
HostLow(k)  == 4 * (k % 64) + 1

GuestLow(k) == 4 * (k % 64) + 2

HostIp(k)  == 256 * High(k) + HostLow(k)     \* fc_host_ip
GuestIp(k) == 256 * High(k) + GuestLow(k)    \* fc_guest_ip

\* Mutant: 128 subnets are packed into the third octet.
Mac_Wide(k) == <<k \div 128, (4 * (k % 128) + 2) % 256>>

Mac(k)     == <<High(k), GuestLow(k)>>       \* fc_mac, after 06:00:AC:10

\* fc_check_instance.
CheckInstance(k) == k \in Nat /\ k < MaxInstances

\* fc_mem_capacity: the instances of mem MiB that fit beside the host's reserve.
MemCapacity(total, reserve, overhead, mem) ==
  IF mem + overhead > 0 /\ total - reserve > 0
  THEN (total - reserve) \div (mem + overhead)
  ELSE 0

PeriodUs    == 100000
MiBPerVcpu  == 1769

\* CPU_QUOTA_US: one full CPU for every 1769 MiB.
QuotaUs(mem) ==
  LET q == (mem * PeriodUs) \div MiBPerVcpu IN IF q > 0 THEN q ELSE 1000

\* Mutant: the division rounds down.
VcpuCount_Floor(template, mem) == IF mem > MiBPerVcpu THEN mem \div MiBPerVcpu ELSE template

\* VCPU_COUNT: the template's, or ceil(mem / 1769) past one CPU's worth.
VcpuCount(template, mem) ==
  IF mem > MiBPerVcpu THEN (mem + MiBPerVcpu - 1) \div MiBPerVcpu ELSE template

(***************************************************************************)
(* What the arithmetic promises, for one value of each input.              *)
(***************************************************************************)
\* The /30 tap<k> is configured with: all but the last two bits of its address.
Subnet(k) == HostIp(k) \div 4

\* The host and the guest of instance k are the two usable addresses of one /30,
\* neither its network nor its broadcast address, and the MAC's two bytes are bytes.
AddressesUsable(k) ==
  /\ HostIp(k) % 4 = 1 /\ GuestIp(k) % 4 = 2
  /\ GuestIp(k) \div 4 = Subnet(k)
  /\ GuestIp(k) <= 65535
  /\ Mac(k)[1] \in 0..255 /\ Mac(k)[2] \in 0..255

\* Two instances share no subnet, no address and no MAC.
Distinct(j, k) ==
  /\ Subnet(j) # Subnet(k)
  /\ Mac(j) # Mac(k)

\* As many instances as the capacity says fit in the RAM beside the reserve, and
\* not one more: n guests and their VMMs fit exactly when n is within it.
CapacityExact(total, reserve, overhead, mem, n) ==
  n <= MemCapacity(total, reserve, overhead, mem)
    <=> reserve + n * (mem + overhead) <= total

\* The guest has enough vCPUs to spend its whole quota, so memory, and not the
\* vCPU count, decides what CPU time it gets.
QuotaSpendable(template, mem) == QuotaUs(mem) <= PeriodUs * VcpuCount(template, mem)
=============================================================================
