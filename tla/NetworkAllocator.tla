-------------------------- MODULE NetworkAllocator --------------------------
(***************************************************************************)
(* The network allocator of the manager (pkg/cni): CNINetworkAllocator     *)
(* with the CNIProvider that generates subnets and the IPAMManager that    *)
(* hands out the addresses of each subnet.  Every method holds the         *)
(* allocator's mutex from beginning to end, so each is one action; what is *)
(* hard is the sequence of calls, among them the retry of a call that      *)
(* failed half way: SwarmKit calls an Allocate method while the matching   *)
(* IsAllocated method says no.                                             *)
(*                                                                         *)
(* An IPv4 address is the subnet it was counted from and its offset in it, *)
(* which may lie beyond the end.  Octet is 256 and Size the size of a      *)
(* subnet (256 for a /24); both are parameters so that their limits can be *)
(* reached.  The gateway of a subnet is its address 0, which is what       *)
(* parsing the generated CIDR yields.                                      *)
(***************************************************************************)
EXTENDS Integers, Sequences, FiniteSetsExt

CONSTANTS
  Network, Task, Service, Node,
  NetsOf,       \* the networks of each task, in the order of its attachments
  ServiceNets,  \* the networks of each service, in the order of its specification
  Ingress,      \* the ingress networks
  Published,    \* the services with published ports
  Octet,        \* values of an octet, 256
  Size,         \* addresses of a subnet, 2^(32 - SubnetSize)
  MaxAttempts,  \* AllocateIP's limit, 256
  VIPs,         \* AllocateVIP's limit, 16
  PoolBits,     \* prefix length of the pool, 8
  SubnetSize,   \* prefix length of a subnet, 24
  PoolBase,     \* the four octets of the pool's address
  Unset,        \* nothing
  NoVIP,        \* an entry of Services without a VIP
  MaxIndex,     \* bound: networks that are allocated
  MaxHost       \* bound: the highest offset that is handed out

ASSUME AllocatorAssumptions ==
  /\ Octet \in Nat \ {0}
  /\ Size \in Nat \ {0, 1}
  /\ MaxAttempts \in Nat
  /\ VIPs \in Nat
  /\ PoolBits \in 0..32 /\ SubnetSize \in 0..32
  /\ PoolBits + SubnetSize = 32  \* else a subnet could adjoin another
  /\ PoolBase \in [0..3 -> 0..(Octet - 1)]
  /\ MaxIndex \in Nat
  /\ MaxHost \in Nat
  /\ NetsOf \in [Task -> Seq(Network)]
  /\ ServiceNets \in [Service -> Seq(Network)]
  /\ Ingress \subseteq Network /\ Published \subseteq Service
  \* The IDs of tasks, services and nodes are distinct.
  /\ Task \cap Service = {} /\ Task \cap Node = {} /\ Service \cap Node = {}
  \* Nothing is neither an offset nor a subnet, an address or an entry without a VIP.
  /\ Unset # NoVIP /\ Unset \notin Int /\ Unset \notin [0..3 -> Int]
  /\ {Unset, NoVIP} \cap [sub : [0..3 -> Int], host : Int] = {}

Holder == Task \cup Service \cup Node

\* IPPool: who uses which offset, and where the next search begins.
NewPool == [used |-> <<>>, next |-> 1]

VARIABLES
  index,    \* CNIProvider.networkIndex
  pools,    \* IPAMManager.pools, by subnet
  subnet,   \* allocatedNets: the subnet of each allocated network, or Unset
  addr,     \* the address of each attachment of a task, or Unset
  vip,      \* AllocatedNetwork.Services
  attached, \* AllocatedNetwork.Attachments
  lost      \* history: the addresses that were replaced in the records of their owner

allocVars == <<index, pools, subnet, addr, vip, attached, lost>>

AllocInit ==
  /\ index = 0
  /\ pools = <<>>
  /\ subnet = [n \in Network |-> Unset]
  /\ addr = [t \in Task |-> [n \in Network |-> Unset]]
  /\ vip = [s \in Service |-> [n \in Network |-> Unset]]
  /\ attached = [d \in Node |-> [n \in Network |-> Unset]]
  /\ lost = {}

-----------------------------------------------------------------------------
\* The address manager.

Put(f, x, y) == [z \in DOMAIN f \cup {x} |-> IF z = x THEN y ELSE f[z]]
Drop(f, x) == [z \in DOMAIN f \ {x} |-> f[z]]
At(s, h) == [sub |-> s, host |-> h]
Allocated(n) == subnet[n] # Unset

OffsetByte == (32 - PoolBits - SubnetSize) \div 8

\* GenerateSubnet: the index replaces the octet at OffsetByte and the one before it.
GenerateSubnet(i) ==
  [b \in 0..3 |-> IF b = OffsetByte THEN i % Octet
                  ELSE IF b = OffsetByte - 1 THEN (i \div Octet) % Octet
                  ELSE PoolBase[b]]

\* The k-th offset AllocateIP looks at: the first is not compared with the subnet,
\* the others go round from the end to the address after the gateway.
Candidate(pool, k) ==
  LET second == IF pool.next + 1 < Size THEN pool.next + 1 ELSE 1
  IN  IF k = 0 THEN pool.next ELSE ((second - 1 + k - 1) % (Size - 1)) + 1

\* Mutant: the table of used addresses is not looked at.
Free_ReservedOnly(pool, h) == h # 0

\* isReserved: the gateway alone is.
Free(pool, h) == h \notin DOMAIN pool.used /\ h # 0

\* AllocateIP: the first free offset among the attempts, or Unset.
FreeTries(pool) == {k \in 0..(MaxAttempts - 1) : Free(pool, Candidate(pool, k))}
NextFree(pool) == IF FreeTries(pool) = {} THEN Unset ELSE Candidate(pool, Min(FreeTries(pool)))

\* AllocateVIP: from getVIPRangeStart downwards.
VIPStart == Max({Size - (VIPs + 1), 0})
VIPTries(pool) == {k \in 0..(VIPs - 1) : Free(pool, VIPStart - k)}
NextVIP(pool) == IF VIPTries(pool) = {} THEN Unset ELSE VIPStart - Min(VIPTries(pool))

\* What the two leave behind.
TakeIP(pool, h, owner) == [used |-> Put(pool.used, h, owner), next |-> h + 1]
TakeVIP(pool, h, owner) == [pool EXCEPT !.used = Put(@, h, owner)]

\* ReleaseIP on the pool of a subnet; an address that is not in use is an error the
\* callers ignore.
ReleaseIP(ps, s, a) ==
  IF s \in DOMAIN ps /\ a.sub = s /\ a.host \in DOMAIN ps[s].used
    THEN [ps EXCEPT ![s].used = Drop(@, a.host)]
    ELSE ps

-----------------------------------------------------------------------------
\* Networks.

CreatePool(s) == IF s \in DOMAIN pools THEN pools ELSE Put(pools, s, NewPool)

Allocate(n) ==
  /\ ~Allocated(n)
  /\ index < MaxIndex
  /\ index' = index + 1
  /\ LET s == GenerateSubnet(index + 1) IN
       /\ pools' = CreatePool(s)
       /\ subnet' = [subnet EXCEPT ![n] = s]
  /\ UNCHANGED <<addr, vip, attached, lost>>

\* The CNI configuration cannot be written: the index and the pool are spent.
AllocateFail(n) ==
  /\ ~Allocated(n)
  /\ index < MaxIndex
  /\ index' = index + 1
  /\ pools' = CreatePool(GenerateSubnet(index + 1))
  /\ UNCHANGED <<subnet, addr, vip, attached, lost>>

Deallocate(n) ==
  /\ Allocated(n)
  /\ pools' = Drop(pools, subnet[n])
  /\ subnet' = [subnet EXCEPT ![n] = Unset]
  /\ vip' = [s \in Service |-> [vip[s] EXCEPT ![n] = Unset]]
  /\ attached' = [d \in Node |-> [attached[d] EXCEPT ![n] = Unset]]
  /\ UNCHANGED <<index, addr, lost>>

-----------------------------------------------------------------------------
\* A task or a service is served one network after the other; an error ends the
\* loop and leaves what has been done.  got is what the owner has on each network.
\* A call that is repeated begins again with the first network, and what it gets there
\* replaces what the owner had.

Real(as) == as \ {Unset, NoVIP}

\* AllocateVIP for a service, AllocateIP for a task.
Find(pool, owner) == IF owner \in Service THEN NextVIP(pool) ELSE NextFree(pool)
Take(pool, h, owner) == IF owner \in Service THEN TakeVIP(pool, h, owner) ELSE TakeIP(pool, h, owner)

Serve(st, n, owner) ==
  LET s == subnet[n]
      h == IF st.ok /\ Allocated(n) /\ s \in DOMAIN st.pools THEN Find(st.pools[s], owner) ELSE Unset
  IN  IF h = Unset
        THEN [st EXCEPT !.ok = FALSE]
        ELSE [ok    |-> TRUE,
              pools |-> [st.pools EXCEPT ![s] = Take(@, h, owner)],
              got   |-> [st.got EXCEPT ![n] = At(s, h)],
              lost  |-> st.lost \cup Real({st.got[n]})]

\* What the loop over the networks has done after each of them.
Served(owner, nets, got) ==
  LET after[i \in 0..Len(nets)] ==
        IF i = 0 THEN [ok |-> TRUE, pools |-> pools, got |-> got, lost |-> lost]
                 ELSE Serve(after[i - 1], nets[i], owner)
  IN  after

ServeTask(t) == Served(t, NetsOf[t], addr[t])[Len(NetsOf[t])]
ServeService(s) == Served(s, ServiceNets[s], vip[s])[Len(ServiceNets[s])]

\* Mutant: the owner forgets its address, the pool does not.
Release_OwnerOnly(st, n) ==
  IF Allocated(n) THEN [st EXCEPT !.got[n] = Unset] ELSE st

\* Networks that are not allocated, or on which the owner has nothing, are skipped.
Release(st, n) ==
  IF Allocated(n) /\ st.got[n] # Unset
    THEN [pools |-> IF st.got[n] = NoVIP THEN st.pools ELSE ReleaseIP(st.pools, subnet[n], st.got[n]),
          got   |-> [st.got EXCEPT ![n] = Unset]]
    ELSE st

Released(nets, got) ==
  LET after[i \in 0..Len(nets)] ==
        IF i = 0 THEN [pools |-> pools, got |-> got] ELSE Release(after[i - 1], nets[i])
  IN  after

ReleaseTask(t) == Released(NetsOf[t], addr[t])[Len(NetsOf[t])]
ReleaseService(s) == Released(ServiceNets[s], vip[s])[Len(ServiceNets[s])]

\* The bound on what is handed out.
Bounded(got) == \A n \in Network : got[n] \notin {Unset, NoVIP} => got[n].host < MaxHost

-----------------------------------------------------------------------------
\* Tasks.

IsTaskAllocated(t) == \A i \in DOMAIN NetsOf[t] : addr[t][NetsOf[t][i]] # Unset

AllocateTask(t) ==
  /\ ~IsTaskAllocated(t)
  /\ LET st == ServeTask(t) IN
       /\ Bounded(st.got)
       /\ pools' = st.pools
       /\ addr' = [addr EXCEPT ![t] = st.got]
       /\ lost' = st.lost
  /\ UNCHANGED <<index, subnet, vip, attached>>

DeallocateTask(t) ==
  /\ LET st == ReleaseTask(t) IN
       /\ pools' = st.pools
       /\ addr' = [addr EXCEPT ![t] = st.got]
  /\ UNCHANGED <<index, subnet, vip, attached, lost>>

-----------------------------------------------------------------------------
\* Services.

IsServiceAllocated(s) ==
  \A i \in DOMAIN ServiceNets[s] :
    Allocated(ServiceNets[s][i]) /\ vip[s][ServiceNets[s][i]] # Unset

\* One allocated ingress network, if there is any.
IngressChoice ==
  LET hosts == {n \in Ingress : Allocated(n)}
  IN  IF hosts = {} THEN {{}} ELSE {{n} : n \in hosts}

\* The published ports go to an ingress network, where they replace the entry that
\* holds the VIP; they are reached only when every network has been served.
AllocateService(s) ==
  /\ ~IsServiceAllocated(s)
  /\ LET st == ServeService(s) IN
       /\ pools' = st.pools
       /\ \E I \in IF st.ok /\ s \in Published THEN IngressChoice ELSE {{}} :
            /\ vip' = [vip EXCEPT ![s] = [n \in Network |-> IF n \in I THEN NoVIP ELSE st.got[n]]]
            /\ lost' = st.lost \cup Real({st.got[n] : n \in I})
  /\ UNCHANGED <<index, subnet, addr, attached>>

DeallocateService(s) ==
  /\ LET st == ReleaseService(s) IN
       /\ pools' = st.pools
       /\ \E I \in IngressChoice :
            vip' = [vip EXCEPT ![s] = [n \in Network |-> IF n \in I THEN Unset ELSE st.got[n]]]
  /\ UNCHANGED <<index, subnet, addr, attached, lost>>

-----------------------------------------------------------------------------
\* Node attachments.

AllocateAttachment(d, n) ==
  /\ Allocated(n) /\ attached[d][n] = Unset
  /\ subnet[n] \in DOMAIN pools
  /\ LET s == subnet[n]
         h == NextFree(pools[s])
     IN  /\ h # Unset /\ h < MaxHost
         /\ pools' = [pools EXCEPT ![s] = TakeIP(@, h, d)]
         /\ attached' = [attached EXCEPT ![d][n] = At(s, h)]
  /\ UNCHANGED <<index, subnet, addr, vip, lost>>

DeallocateAttachment(d, n) ==
  /\ Allocated(n) /\ attached[d][n] # Unset
  /\ pools' = ReleaseIP(pools, subnet[n], attached[d][n])
  /\ attached' = [attached EXCEPT ![d][n] = Unset]
  /\ UNCHANGED <<index, subnet, addr, vip, lost>>

AllocNext ==
  \/ \E n \in Network : Allocate(n) \/ AllocateFail(n) \/ Deallocate(n)
  \/ \E t \in Task : AllocateTask(t) \/ DeallocateTask(t)
  \/ \E s \in Service : AllocateService(s) \/ DeallocateService(s)
  \/ \E d \in Node, n \in Network : AllocateAttachment(d, n) \/ DeallocateAttachment(d, n)

AllocSpec == AllocInit /\ [][AllocNext]_allocVars

-----------------------------------------------------------------------------
\* Properties.

\* The address that a holder has on a network, or Unset.
Held(x, n) ==
  IF x \in Task THEN addr[x][n]
  ELSE IF x \in Node THEN attached[x][n]
  ELSE IF vip[x][n] = NoVIP THEN Unset ELSE vip[x][n]

Holds(x, n) == Allocated(n) /\ Held(x, n) # Unset

\* No two tasks, nodes or services have the same address on allocated networks
\* (AllocateIP and AllocateVIP serve one table), over any sequence of calls.
UniqueAddresses ==
  \A x, y \in Holder, m, n \in Network :
    Holds(x, m) /\ Holds(y, n) /\ Held(x, m) = Held(y, n) => x = y /\ m = n

\* Every address that is in use is one that its owner has, so that releasing it will
\* find it.  The exceptions are those that a repeated call of the owner, or its
\* published ports, replaced (allocator.go:312, 253): nothing else loses an address, not
\* a call that fails half way, nor releasing what a half-failed call has left, nor a
\* network that goes and comes back (AllocateTask, AllocateService, AllocateAttachment
\* and their counterparts).
LostOnlyWhenReplaced ==
  \A n \in Network : Allocated(n) /\ subnet[n] \in DOMAIN pools =>
    \A h \in DOMAIN pools[subnet[n]].used :
      \/ Held(pools[subnet[n]].used[h], n) = At(subnet[n], h)
      \/ At(subnet[n], h) \in lost

-----------------------------------------------------------------------------
(***************************************************************************)
(* The inductive invariants behind them.  They are stated of the subnets   *)
(* sub, the pools ps and the addresses held, so that they can be followed  *)
(* through the rounds of a loop.                                           *)
(***************************************************************************)

\* No subnet is generated twice.
FewNetworks == MaxIndex <= Octet

Holdings == [x \in Holder |-> [n \in Network |-> Held(x, n)]]
Generated == {GenerateSubnet(i) : i \in 1..index}
Address == [sub : Generated, host : Int]

AllocTypeOK ==
  /\ index \in 0..MaxIndex
  /\ DOMAIN pools \subseteq Generated
  /\ subnet \in [Network -> Generated \cup {Unset}]
  /\ addr \in [Task -> [Network -> Address \cup {Unset}]]
  /\ vip \in [Service -> [Network -> Address \cup {Unset, NoVIP}]]
  /\ attached \in [Node -> [Network -> Address \cup {Unset}]]

\* Every pool is a pool, and no two networks share a subnet.
Apart(sub, ps) ==
  /\ \A s \in DOMAIN ps : ps[s] = [used |-> ps[s].used, next |-> ps[s].next] /\ ps[s].next \in Int
  /\ \A m, n \in Network : sub[m] = sub[n] /\ sub[m] # Unset => m = n

\* No address is held twice, not even one of a network that is gone.
Distinct(held) ==
  \A x, y \in Holder, m, n \in Network :
    held[x][m] # Unset /\ held[x][m] = held[y][n] => x = y /\ m = n

\* An address of the subnet of a network is held on that network, and in use.
InUse(sub, ps, held) ==
  \A x \in Holder, m, n \in Network :
    held[x][m] # Unset /\ sub[n] # Unset /\ held[x][m].sub = sub[n] =>
      /\ m = n
      /\ sub[n] \in DOMAIN ps
      /\ held[x][m].host \in DOMAIN ps[sub[n]].used
      /\ ps[sub[n]].used[held[x][m].host] = x

Sound(sub, ps, held) == Apart(sub, ps) /\ Distinct(held) /\ InUse(sub, ps, held)

\* Every address in use is held by its owner or among those that were replaced.
Kept(sub, ps, held, gone) ==
  \A n \in Network : sub[n] # Unset /\ sub[n] \in DOMAIN ps =>
    \A h \in DOMAIN ps[sub[n]].used :
      /\ h \in Int
      /\ ps[sub[n]].used[h] \in Holder
      /\ held[ps[sub[n]].used[h]][n] = At(sub[n], h) \/ At(sub[n], h) \in gone

\* A service has VIPs on its own networks only.
OnOwnNetworks ==
  \A s \in Service, n \in Network :
    vip[s][n] \notin {Unset, NoVIP} => \E i \in DOMAIN ServiceNets[s] : ServiceNets[s][i] = n

AllocInv == AllocTypeOK /\ Sound(subnet, pools, Holdings)
KeptInv == OnOwnNetworks /\ Kept(subnet, pools, Holdings, lost)
=============================================================================
