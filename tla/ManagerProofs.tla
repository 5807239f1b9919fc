--------------------------- MODULE ManagerProofs ----------------------------
(***************************************************************************)
(* Proofs about the manager's side of a cluster.                           *)
(*                                                                         *)
(* ControlCommands: for any number of commands, services, nodes and        *)
(* writes, ControlInv is inductive, no accepted update undoes another, and *)
(* a remove by name spares a newer service.                                *)
(*                                                                         *)
(* NetworkAllocator: for any networks, tasks, services and nodes, any size *)
(* of the subnets and any sequence of calls, AllocInv is inductive as long *)
(* as no subnet is generated twice (FewNetworks), and no address is given  *)
(* twice and none is lost but what a call replaced.                        *)
(***************************************************************************)
EXTENDS ControlCommands, NetworkAllocator, WellFoundedInduction, TLAPS

\* What one command knows: the part of Reads about it, as a predicate of its record.
Knows(m) ==
  /\ m.do = "node" => m.arg \in NodeId
  /\ m.at = "list" => m.do \in {"update", "rm"}
  /\ m.at = "send" /\ m.do = "update" =>
       /\ m.id \in SvcId /\ m.read.version \in 0..version
       /\ service[m.id] # None /\ service[m.id].version = m.read.version =>
            service[m.id].spec = m.read.spec
  /\ m.at = "send" /\ m.do = "rm" => m.id \in SvcId /\ m.id \in m.seen
  /\ m.at = "send" /\ m.do = "node" =>
       /\ m.id \in NodeId /\ m.read.version \in 0..version
       /\ node[m.id] # None /\ node[m.id].version = m.read.version => node[m.id] = m.read

\* m has the fields of a command, and no others.
IsCommand(m) ==
  DOMAIN m = {"do", "tool", "arg", "ch", "at", "id", "read", "seen"}

LEMMA ReadsKnows == Reads <=> \A c \in Client : Knows(client[c])
  BY DEF Reads, Knows

LEMMA ControlInvInit == Init => ControlInv
<1> SUFFICES ASSUME Init PROVE ControlInv
  OBVIOUS
<1>1. \A c \in Client : client[c] = Idle
  BY DEF Init
<1>2. IsCommand(Idle) /\ Knows(Idle)
  BY DEF Idle, IsCommand, Knows
<1>3. Reads
  BY <1>1, <1>2, ReadsKnows
<1>4. \A n \in NodeId : node[n] = [version |-> 0, avail |-> "active", role |-> "worker", ready |-> TRUE]
  BY DEF Init
<1>5. Versions
  BY <1>4 DEF Init, Versions
<1>6. version \in Nat /\ used \subseteq SvcId /\ service = [i \in SvcId |-> service[i]]
      /\ node = [n \in NodeId |-> node[n]] /\ client = [c \in Client |-> client[c]]
  BY DEF Init
<1>7. TypeOK
  BY <1>1, <1>2, <1>4, <1>6 DEF TypeOK, IsCommand
<1> QED BY <1>3, <1>5, <1>7 DEF ControlInv

\* A step of one command that leaves the store alone.
LEMMA ClientStep ==
  ASSUME ControlInv, NEW c \in Client, NEW m, IsCommand(m), Knows(m),
         client' = [client EXCEPT ![c] = m], UNCHANGED <<service, used, node, version>>
  PROVE  ControlInv'
<1>1. TypeOK'
  BY DEF ControlInv, TypeOK, IsCommand
<1>2. Versions'
  BY DEF ControlInv, Versions
<1>3. \A d \in Client : client'[d] = m \/ client'[d] = client[d]
  BY DEF ControlInv, TypeOK
<1>4. Reads'
  <2>1. \A d \in Client : Knows(client[d])
    BY ReadsKnows DEF ControlInv
  <2> QED BY <1>3, <2>1 DEF Knows, Reads
<1> QED BY <1>1, <1>2, <1>4 DEF ControlInv

LEMMA IdleKnows == IsCommand(Idle) /\ Knows(Idle)
  BY DEF Idle, IsCommand, Knows

\* A command that ends, for whatever reason, before it has changed the store.
LEMMA ControlInvEnd ==
  ASSUME ControlInv, NEW c \in Client, End(c), UNCHANGED <<service, used, node, version>>
  PROVE  ControlInv'
  BY IdleKnows, ClientStep DEF End

\* A command is called.
LEMMA ControlInvStart ==
  ASSUME ControlInv, NEW c \in Client, Start(c)
  PROVE  ControlInv'
<1>1. ASSUME NEW do, NEW tool, NEW arg, NEW ch, NEW at, Begin(c, do, tool, arg, ch, at),
             at \in {"get", "send"}, at = "send" => do = "create", do = "node" => arg \in NodeId
      PROVE  ControlInv'
  <2> DEFINE m == [Idle EXCEPT !.do = do, !.tool = tool, !.arg = arg, !.ch = ch, !.at = at]
  <2>0. IsCommand(m) /\ m.do = do /\ m.arg = arg /\ m.at = at
    BY DEF Idle, IsCommand
  <2>1. Knows(m)
    <3> HIDE DEF m
    <3> QED BY <1>1, <2>0 DEF Knows
  <2>2. client' = [client EXCEPT ![c] = m] /\ UNCHANGED <<service, used, node, version>>
    BY <1>1 DEF Begin
  <2> HIDE DEF m
  <2> QED BY <2>0, <2>1, <2>2, ClientStep
<1>2. ASSUME NEW tool, NEW arg, RemoveService(c, tool, arg) PROVE ControlInv'
  <2>1. CASE tool = "ctl"
    <3> DEFINE m == [Idle EXCEPT !.do = "rm", !.tool = tool, !.arg = arg, !.at = "send", !.id = arg,
                                 !.seen = used]
    <3>1. arg \in used /\ arg \in SvcId
      BY <1>2, <2>1 DEF RemoveService, Arg, ControlInv, TypeOK
    <3>0. IsCommand(m) /\ m.do = "rm" /\ m.at = "send" /\ m.id = arg /\ m.seen = used
      BY DEF Idle, IsCommand
    <3>2. Knows(m)
      <4> HIDE DEF m
      <4> QED BY <3>0, <3>1 DEF Knows
    <3>3. client' = [client EXCEPT ![c] = m] /\ UNCHANGED <<service, used, node, version>>
      BY <1>2, <2>1 DEF RemoveService
    <3> HIDE DEF m
    <3> QED BY <3>0, <3>2, <3>3, ClientStep
  <2>2. CASE tool # "ctl"
    BY <1>1, <1>2, <2>2 DEF RemoveService
  <2> QED BY <2>1, <2>2
<1>3. ASSUME NEW name, NEW image, CreateService(c, name, image) PROVE ControlInv'
  BY <1>1, <1>3 DEF CreateService
<1>4. ASSUME NEW tool, NEW arg, NEW ch, UpdateService(c, tool, arg, ch) PROVE ControlInv'
  BY <1>1, <1>4 DEF UpdateService
<1>5. ASSUME NEW n \in NodeId, NEW ch, ChangeNode(c, n, ch) PROVE ControlInv'
  BY <1>1, <1>5 DEF ChangeNode
<1>6. ASSUME NEW n \in NodeId, NEW force, RemoveNode(c, n, force) PROVE ControlInv'
  BY <1>1, <1>6 DEF RemoveNode
<1> QED BY <1>2, <1>3, <1>4, <1>5, <1>6 DEF Start

\* An object is found: what was read is what is there.
LEMMA ControlInvFound ==
  ASSUME ControlInv, NEW c \in Client, client[c].do \in {"update", "rm"},
         NEW i \in SvcId, service[i] # None, Found(c, i), UNCHANGED <<service, used, node, version>>
  PROVE  ControlInv'
<1> DEFINE m == [client[c] EXCEPT !.at = "send", !.id = i, !.read = service[i], !.seen = used]
<1>1. IsCommand(m)
  BY DEF IsCommand, ControlInv, TypeOK
<1>2. m.do = client[c].do /\ m.at = "send" /\ m.id = i /\ m.read = service[i] /\ m.seen = used
  BY DEF ControlInv, TypeOK
<1>3. client' = [client EXCEPT ![c] = m]
  BY DEF Found, ControlInv, TypeOK
<1> HIDE DEF m
<1>4. Knows(m)
  BY <1>2 DEF Knows, ControlInv, Versions
<1> QED BY <1>1, <1>3, <1>4, ClientStep

LEMMA ControlInvGet ==
  ASSUME ControlInv, NEW c \in Client, GetService(c) \/ ListServices(c) \/ GetNode(c)
  PROVE  ControlInv'
<1>1. CASE GetService(c)
  <2>1. CASE client[c].arg \in SvcId /\ service[client[c].arg] # None
    BY <1>1, <2>1, ControlInvFound DEF GetService
  <2>2. CASE client' = [client EXCEPT ![c].at = "list"]
    <3> DEFINE m == [client[c] EXCEPT !.at = "list"]
    <3>1. IsCommand(m) /\ m.do = client[c].do /\ m.at = "list"
      BY DEF IsCommand, ControlInv, TypeOK
    <3>2. client' = [client EXCEPT ![c] = m]
      BY <2>2 DEF ControlInv, TypeOK
    <3> HIDE DEF m
    <3>3. Knows(m)
      BY <1>1, <3>1 DEF Knows, GetService
    <3> QED BY <1>1, <3>1, <3>2, <3>3, ClientStep DEF GetService
  <2> QED BY <1>1, <2>1, <2>2, ControlInvEnd DEF GetService
<1>2. CASE ListServices(c)
  <2>1. client[c].do \in {"update", "rm"}
    BY <1>2 DEF ListServices, ControlInv, Reads
  <2>2. ASSUME NEW i \in Named(client[c].arg), Found(c, i) PROVE ControlInv'
    BY <1>2, <2>1, <2>2, ControlInvFound DEF ListServices, Named
  <2> QED BY <1>2, <2>2, ControlInvEnd DEF ListServices
<1>3. CASE GetNode(c)
  <2>1. CASE End(c)
    BY <1>3, <2>1, ControlInvEnd DEF GetNode
  <2>2. CASE ~End(c)
    <3> DEFINE m == [client[c] EXCEPT !.at = "send", !.id = client[c].arg, !.read = node[client[c].arg]]
    <3>1. IsCommand(m)
      BY DEF IsCommand, ControlInv, TypeOK
    <3>2. m.do = client[c].do /\ m.at = "send" /\ m.id = client[c].arg /\ m.read = node[client[c].arg]
          /\ m.arg = client[c].arg
      BY DEF ControlInv, TypeOK
    <3>3. node[client[c].arg] # None /\ client' = [client EXCEPT ![c] = m]
      BY <1>3, <2>2 DEF GetNode, ControlInv, TypeOK
    <3>4. client[c].do = "node" => client[c].arg \in NodeId
      BY DEF ControlInv, Reads
    <3> HIDE DEF m
    <3>5. Knows(m)
      <4>1. m.do \in {"node", "noderm"} /\ (m.do = "node" => m.arg \in NodeId /\ m.id \in NodeId)
        BY <1>3, <3>2, <3>4 DEF GetNode
      <4>2. m.do = "node" => m.read.version \in 0..version /\ node[m.id] = m.read
        BY <3>2, <3>3, <4>1 DEF ControlInv, Versions
      <4> QED BY <3>2, <4>1, <4>2 DEF Knows
    <3> QED BY <1>3, <3>1, <3>3, <3>5, ClientStep DEF GetNode
  <2> QED BY <2>1, <2>2
<1> QED BY <1>1, <1>2, <1>3

\* A write of the store keeps what the other commands know: a new version is none that
\* has been read, and what is not written does not change.
LEMMA StoreWrite ==
  ASSUME ControlInv, NEW c \in Client, End(c) \/ UNCHANGED client, Write, TypeOK', Versions',
         \A i \in SvcId : service'[i] = service[i] \/ service'[i] = None \/ service'[i].version = version + 1,
         \A n \in NodeId : node'[n] = node[n] \/ node'[n] = None \/ node'[n].version = version + 1
  PROVE  ControlInv'
<1>1. version' = version + 1 /\ version \in Nat
  BY DEF Write, ControlInv, TypeOK
<1>2. \A d \in Client : client'[d] = client[d] \/ client'[d] = Idle
  BY DEF End, ControlInv, TypeOK
<1>3. \A d \in Client : Knows(client[d])
  BY ReadsKnows DEF ControlInv
<1>4. ASSUME NEW m, Knows(m) PROVE Knows(m)'
  <2>1. m.at = "send" /\ m.do = "update" =>
          /\ m.id \in SvcId /\ m.read.version \in 0..version'
          /\ service'[m.id] # None /\ service'[m.id].version = m.read.version =>
               service'[m.id].spec = m.read.spec
    BY <1>1, <1>4 DEF Knows
  <2>2. m.at = "send" /\ m.do = "node" =>
          /\ m.id \in NodeId /\ m.read.version \in 0..version'
          /\ node'[m.id] # None /\ node'[m.id].version = m.read.version => node'[m.id] = m.read
    BY <1>1, <1>4 DEF Knows
  <2> QED BY <1>4, <2>1, <2>2 DEF Knows
<1>5. \A d \in Client : Knows(client[d])' 
  <2> SUFFICES ASSUME NEW d \in Client PROVE Knows(client[d])'
    OBVIOUS
  <2>1. Knows(Idle)
    BY IdleKnows
  <2> QED BY <1>2, <1>3, <1>1, <2>1 DEF Knows, Idle
<1>6. Reads'
  BY <1>5 DEF Reads, Knows
<1> QED BY <1>6 DEF ControlInv

\* What every write has in common.
LEMMA WriteFacts ==
  ASSUME ControlInv, Write
  PROVE  version' = version + 1 /\ version \in Nat /\ version' \in Nat /\ version' \in 0..version'
  BY DEF Write, ControlInv, TypeOK

LEMMA ClientTypeEnd ==
  ASSUME ControlInv, NEW c \in Client, End(c)
  PROVE  /\ client' = [d \in Client |-> client'[d]]
         /\ \A d \in Client : DOMAIN client'[d] = {"do", "tool", "arg", "ch", "at", "id", "read", "seen"}
<1>1. client' = [client EXCEPT ![c] = Idle] /\ IsCommand(Idle)
  BY IdleKnows DEF End
<1> QED BY <1>1 DEF ControlInv, TypeOK, IsCommand

LEMMA ControlInvSend ==
  ASSUME ControlInv, NEW c \in Client, SendCreate(c) \/ SendUpdate(c) \/ SendRemove(c)
  PROVE  ControlInv'
<1>1. Write /\ End(c) /\ UNCHANGED node
  BY DEF SendCreate, SendUpdate, SendRemove
<1>2. PICK i \in SvcId : /\ i \in used' /\ used \subseteq used' /\ used' \subseteq SvcId
                         /\ \/ service' = [service EXCEPT ![i] = None]
                            \/ \E s : service' = [service EXCEPT ![i] = [version |-> version', spec |-> s]]
  <2>1. CASE SendCreate(c)
    <3>1. PICK i \in SvcId \ used, r \in 0..MaxReplicas, e \in SUBSET Key :
            /\ used' = used \cup {i}
            /\ service' = [service EXCEPT ![i] =
                 [version |-> version', spec |-> [name |-> client[c].arg, replicas |-> r,
                                                  image |-> client[c].ch, env |-> e, force |-> 0]]]
      BY <2>1 DEF SendCreate
    <3> QED BY <3>1 DEF ControlInv, TypeOK
  <2>2. CASE SendUpdate(c)
    <3>1. client[c].id \in SvcId /\ service[client[c].id] # None
      BY <2>2 DEF SendUpdate, ControlInv, Reads
    <3>2. client[c].id \in used /\ used' = used /\ used \subseteq SvcId
      BY <2>2, <3>1 DEF SendUpdate, ControlInv, Versions, TypeOK
    <3>3. \E s : service' = [service EXCEPT ![client[c].id] = [version |-> version', spec |-> s]]
      BY <2>2 DEF SendUpdate
    <3> QED BY <3>1, <3>2, <3>3
  <2>3. CASE SendRemove(c)
    <3>1. client[c].id \in SvcId /\ service[client[c].id] # None
      BY <2>3 DEF SendRemove, SentId, ControlInv, Reads
    <3>2. client[c].id \in used /\ used' = used /\ used \subseteq SvcId
      BY <2>3, <3>1 DEF SendRemove, ControlInv, Versions, TypeOK
    <3> QED BY <2>3, <3>1, <3>2 DEF SendRemove, SentId
  <2> QED BY <2>1, <2>2, <2>3
<1>3. /\ service' = [j \in SvcId |-> service'[j]]
      /\ \A j \in SvcId : \/ service'[j] = service[j] \/ service'[j] = None
                          \/ j = i /\ service'[j].version = version'
  BY <1>2 DEF ControlInv, TypeOK
<1>4. TypeOK'
  BY <1>1, <1>2, <1>3, WriteFacts, ClientTypeEnd DEF ControlInv, TypeOK
<1>5. Versions'
  BY <1>1, <1>2, <1>3, WriteFacts DEF ControlInv, Versions
<1>6. \A j \in SvcId : service'[j] = service[j] \/ service'[j] = None \/ service'[j].version = version + 1
  BY <1>1, <1>3, WriteFacts
<1> QED BY <1>1, <1>4, <1>5, <1>6, StoreWrite

\* A node is written or removed.
LEMMA ControlInvNode ==
  ASSUME ControlInv, NEW c \in Client, NEW n \in NodeId, NEW y, Write, End(c) \/ UNCHANGED client,
         UNCHANGED <<service, used>>, node' = [node EXCEPT ![n] = y],
         y # None => DOMAIN y = {"version", "avail", "role", "ready"} /\ y.version = version'
  PROVE  ControlInv'
<1>1. /\ node' = [m \in NodeId |-> node'[m]] /\ node'[n] = y
      /\ \A m \in NodeId : m # n => node'[m] = node[m]
  BY DEF ControlInv, TypeOK
<1>2. /\ client' = [d \in Client |-> client'[d]]
      /\ \A d \in Client : DOMAIN client'[d] = {"do", "tool", "arg", "ch", "at", "id", "read", "seen"}
  BY ClientTypeEnd DEF ControlInv, TypeOK
<1>3. TypeOK'
  BY <1>1, <1>2, WriteFacts DEF ControlInv, TypeOK
<1>4. Versions'
  BY <1>1, WriteFacts DEF ControlInv, Versions
<1>5. \A m \in NodeId : node'[m] = node[m] \/ node'[m] = None \/ node'[m].version = version + 1
  BY <1>1, WriteFacts
<1> QED BY <1>3, <1>4, <1>5, StoreWrite

\* What an accepted update of a node writes.
LEMMA NodeMerge ==
  ASSUME ControlInv, NEW c \in Client, SendNode(c)
  PROVE  LET n == client[c].id
             y == [NewNode(node[n], client[c].ch) EXCEPT !.version = version']
         IN  /\ n \in NodeId /\ node' = [node EXCEPT ![n] = y] /\ node'[n] = y
             /\ DOMAIN y = {"version", "avail", "role", "ready"} /\ y.version = version'
<1> DEFINE n == client[c].id
           x == NewNode(node[n], client[c].ch)
           y == [x EXCEPT !.version = version']
           z == [x EXCEPT !.version = version', !.ready = node[n].ready]
<1>1. n \in NodeId /\ node[n] # None /\ node[n] = client[c].read
  BY DEF SendNode, SentVersion, ControlInv, Reads
<1>2. node' = [node EXCEPT ![n] = z]
  BY <1>1 DEF SendNode
<1>3. DOMAIN node[n] = {"version", "avail", "role", "ready"}
  BY <1>1 DEF ControlInv, TypeOK
<1>4. DOMAIN x = DOMAIN node[n] /\ x.ready = node[n].ready
  BY <1>3 DEF NewNode
<1> HIDE DEF x
<1>5. DOMAIN y = DOMAIN x /\ y.version = version'
  BY <1>3, <1>4
<1>6. y = z
  BY <1>3, <1>4
<1> QED BY <1>1, <1>2, <1>3, <1>4, <1>5, <1>6 DEF ControlInv, TypeOK, x

LEMMA ControlInvNext == ControlInv /\ [Next]_controlVars => ControlInv'
<1> SUFFICES ASSUME ControlInv, [Next]_controlVars PROVE ControlInv'
  OBVIOUS
<1>1. ASSUME NEW c \in Client, Start(c) PROVE ControlInv'
  BY <1>1, ControlInvStart
<1>2. ASSUME NEW c \in Client, GetService(c) \/ ListServices(c) \/ GetNode(c) PROVE ControlInv'
  BY <1>2, ControlInvGet
<1>3. ASSUME NEW c \in Client, SendCreate(c) \/ SendUpdate(c) \/ SendRemove(c) PROVE ControlInv'
  BY <1>3, ControlInvSend
<1>4. ASSUME NEW c \in Client, SendNode(c) PROVE ControlInv'
  <2>1. Write /\ End(c) /\ UNCHANGED <<service, used>>
    BY <1>4 DEF SendNode
  <2> QED BY <1>4, <2>1, NodeMerge, ControlInvNode
<1>5. ASSUME NEW c \in Client, SendNodeRemove(c) PROVE ControlInv'
  <2>1. /\ Write /\ End(c) /\ UNCHANGED <<service, used>>
        /\ node' = [node EXCEPT ![client[c].id] = None]
    BY <1>5 DEF SendNodeRemove
  <2>2. CASE client[c].id \in NodeId
    BY <2>1, <2>2, ControlInvNode
  <2>3. CASE client[c].id \notin NodeId
    <3>1. node' = node
      BY <2>1, <2>3 DEF ControlInv, TypeOK
    <3>2. TypeOK'
      BY <2>1, <3>1, WriteFacts, ClientTypeEnd DEF ControlInv, TypeOK
    <3>3. Versions'
      BY <2>1, <3>1, WriteFacts DEF ControlInv, Versions
    <3> QED BY <2>1, <3>1, <3>2, <3>3, StoreWrite
  <2> QED BY <2>2, <2>3
<1>6. ASSUME NEW c \in Client, Fails(c) PROVE ControlInv'
  BY <1>6, ControlInvEnd DEF Fails
<1>7. ASSUME NEW n \in NodeId, Heartbeat(n) PROVE ControlInv'
  <2> DEFINE y == [node[n] EXCEPT !.ready = ~@, !.version = version']
  <2>1. node[n] # None /\ Write /\ UNCHANGED <<service, used, client>>
    BY <1>7 DEF Heartbeat
  <2>2. node' = [node EXCEPT ![n] = y]
    BY <1>7 DEF Heartbeat, ControlInv, TypeOK
  <2>3. DOMAIN y = {"version", "avail", "role", "ready"} /\ y.version = version'
    BY <2>1 DEF ControlInv, TypeOK
  <2> HIDE DEF y
  <2>4. TypeOK' /\ Versions' /\ \A m \in NodeId : node'[m] = node[m] \/ node'[m].version = version + 1
    <3>1. /\ node' = [m \in NodeId |-> node'[m]] /\ node'[n] = y
          /\ \A m \in NodeId : m # n => node'[m] = node[m]
      BY <2>2 DEF ControlInv, TypeOK
    <3>2. TypeOK'
      BY <2>1, <2>3, <3>1, WriteFacts DEF ControlInv, TypeOK
    <3>3. Versions'
      BY <2>1, <2>3, <3>1, WriteFacts DEF ControlInv, Versions
    <3> QED BY <2>1, <2>3, <3>1, <3>2, <3>3, WriteFacts
  <2>5. CASE Client = {}
    BY <2>4, <2>5 DEF ControlInv, Reads
  <2>6. CASE Client # {}
    BY <2>1, <2>4, <2>6, StoreWrite
  <2> QED BY <2>5, <2>6
<1>8. CASE UNCHANGED controlVars
  BY <1>8 DEF controlVars, ControlInv, TypeOK, Versions, Reads
<1> QED BY <1>1, <1>2, <1>3, <1>4, <1>5, <1>6, <1>7, <1>8 DEF Next, Request

-----------------------------------------------------------------------------
\* The inductive invariant holds of every behaviour of the commands and the store.
THEOREM ControlInvariant == Spec => []ControlInv
  BY ControlInvInit, ControlInvNext, PTL DEF Spec

\* No update is lost, however many commands read, change and send at the same time
\* (UpdatesMerge).
THEOREM NoUpdateLost == Spec => UpdatesMerge
<1>1. ASSUME ControlInv, NEW c \in Client, SendUpdate(c)
      PROVE  LET i == client[c].id IN
               service'[i].spec = NewSpec(client[c].tool, service[i].spec, client[c].ch)
  <2>1. client[c].id \in SvcId /\ service[client[c].id].spec = client[c].read.spec
    BY <1>1 DEF SendUpdate, SentVersion, ControlInv, Reads
  <2> QED BY <1>1, <2>1 DEF SendUpdate, ControlInv, TypeOK
<1>2. ASSUME ControlInv, NEW c \in Client, SendNode(c)
      PROVE  LET n == client[c].id IN
               node'[n] = [NewNode(node[n], client[c].ch) EXCEPT !.version = version']
  BY <1>2, NodeMerge
<1>3. ControlInv /\ [Next]_controlVars =>
        [\A c \in Client :
           /\ SendUpdate(c) => LET i == client[c].id IN
                service'[i].spec = NewSpec(client[c].tool, service[i].spec, client[c].ch)
           /\ SendNode(c) => LET n == client[c].id IN
                node'[n] = [NewNode(node[n], client[c].ch) EXCEPT !.version = version']]_controlVars
  BY <1>1, <1>2
<1> QED BY <1>3, ControlInvariant, PTL DEF Spec, UpdatesMerge

\* A remove by name removes the service that had the name when the command looked, and
\* never one that was created since (RemoveSparesNewer).
THEOREM NewerIsSpared == Spec => RemoveSparesNewer
<1>1. ASSUME ControlInv, NEW c \in Client, SendRemove(c), NEW i \in SvcId, service[i] # None, service'[i] = None
      PROVE  i \in client[c].seen
  <2>1. client[c].id \in client[c].seen /\ service' = [service EXCEPT ![client[c].id] = None]
    BY <1>1 DEF SendRemove, SentId, ControlInv, Reads
  <2>2. i = client[c].id
    BY <1>1, <2>1 DEF ControlInv, TypeOK
  <2> QED BY <2>1, <2>2
<1>2. ControlInv /\ [Next]_controlVars =>
        [\A c \in Client : SendRemove(c) =>
           \A i \in SvcId : service[i] # None /\ service'[i] = None => i \in client[c].seen]_controlVars
  BY <1>1
<1> QED BY <1>2, ControlInvariant, PTL DEF Spec, RemoveSparesNewer

-----------------------------------------------------------------------------
(***************************************************************************)
(* The network allocator: operators.                                       *)
(***************************************************************************)

\* A non-empty set of numbers has a least one.
LEMMA LeastNumber ==
  ASSUME NEW T, T \subseteq Nat, T # {}
  PROVE  \E x \in T : \A y \in T : x <= y
<1> DEFINE R == {ss \in Nat \X Nat : ss[1] < ss[2]}
<1>1. IsWellFoundedOn(R, Nat)
  BY NatLessThanWellFounded, Zenon DEF OpToRel
<1> HIDE DEF R
<1>2. PICK x \in T : \A y \in T : ~(<<y, x>> \in R)
  BY <1>1, WFMin
<1>3. \A y \in T : ~(y < x)
  BY <1>2 DEF R
<1> QED BY <1>3

LEMMA MinIsMember ==
  ASSUME NEW T, T \subseteq Nat, T # {}
  PROVE  Min(T) \in T
<1>1. \E x \in T : \A y \in T : x =< y
  BY LeastNumber
<1> QED BY <1>1, Zenon DEF Min

LEMMA VIPStartIsInt == VIPStart \in Int
<1>1. Size - (VIPs + 1) \in Int
  BY AllocatorAssumptions
<1> DEFINE a == Size - (VIPs + 1)
<1> HIDE DEF a
<1>2. \E x \in {a, 0} : \A y \in {a, 0} : x >= y
  BY <1>1 DEF a
<1>3. Max({a, 0}) \in {a, 0}
  BY <1>2, Zenon DEF Max
<1> QED BY <1>1, <1>3 DEF VIPStart, a

\* AllocateIP and AllocateVIP return an address that nobody has (AllocateIP,
\* AllocateVIP).
LEMMA FindIsFree ==
  ASSUME NEW pool, pool.next \in Int, NEW owner, Find(pool, owner) # Unset
  PROVE  Find(pool, owner) \in Int /\ Find(pool, owner) \notin DOMAIN pool.used
<1>1. ASSUME FreeTries(pool) # {}
      PROVE  NextFree(pool) \in Int /\ NextFree(pool) \notin DOMAIN pool.used
  <2> DEFINE k == Min(FreeTries(pool))
  <2>1. FreeTries(pool) \subseteq Nat
    BY DEF FreeTries
  <2>2. k \in FreeTries(pool)
    BY <1>1, <2>1, MinIsMember
  <2> HIDE DEF k
  <2>3. k \in Nat /\ Free(pool, Candidate(pool, k))
    BY <2>2 DEF FreeTries
  <2>4. NextFree(pool) = Candidate(pool, k)
    BY <1>1 DEF NextFree, k
  <2>5. Candidate(pool, k) \in Int
    <3> DEFINE second == IF pool.next + 1 < Size THEN pool.next + 1 ELSE 1
    <3>1. second \in Int /\ Size - 1 \in Nat /\ Size - 1 > 0
      BY AllocatorAssumptions
    <3> HIDE DEF second
    <3>2. (second - 1 + k - 1) % (Size - 1) \in Int
      BY <2>3, <3>1
    <3> QED BY <3>2 DEF Candidate, second
  <2> QED BY <2>3, <2>4, <2>5 DEF Free
<1>2. ASSUME VIPTries(pool) # {}
      PROVE  NextVIP(pool) \in Int /\ NextVIP(pool) \notin DOMAIN pool.used
  <2> DEFINE k == Min(VIPTries(pool))
  <2>1. VIPTries(pool) \subseteq Nat
    BY DEF VIPTries
  <2>2. k \in VIPTries(pool)
    BY <1>2, <2>1, MinIsMember
  <2> HIDE DEF k
  <2>3. k \in Nat /\ Free(pool, VIPStart - k)
    BY <2>2 DEF VIPTries
  <2>4. NextVIP(pool) = VIPStart - k
    BY <1>2 DEF NextVIP, k
  <2> QED BY <2>3, <2>4, VIPStartIsInt DEF Free
<1> QED BY <1>1, <1>2 DEF Find, NextFree, NextVIP

\* What a pool holds once an address is taken.
LEMMA TakeUsed ==
  ASSUME NEW pool, pool = [used |-> pool.used, next |-> pool.next], pool.next \in Int, NEW h \in Int, NEW owner
  PROVE  /\ Take(pool, h, owner) = [used |-> Put(pool.used, h, owner), next |-> Take(pool, h, owner).next]
         /\ Take(pool, h, owner).next \in Int
<1>1. CASE owner \in Service
  <2>1. TakeVIP(pool, h, owner) = [used |-> Put(pool.used, h, owner), next |-> pool.next]
    BY DEF TakeVIP
  <2> QED BY <1>1, <2>1 DEF Take
<1>2. CASE owner \notin Service
  BY <1>2 DEF Take, TakeIP
<1> QED BY <1>1, <1>2

\* The first indices give different subnets.
LEMMA SubnetsDiffer ==
  ASSUME FewNetworks, NEW i \in 1..MaxIndex, NEW j \in 1..MaxIndex, GenerateSubnet(i) = GenerateSubnet(j)
  PROVE  i = j
<1>1. OffsetByte = 0
  <2>1. PoolBits \in 0..32 /\ SubnetSize \in 0..32 /\ PoolBits + SubnetSize = 32
    BY AllocatorAssumptions, Zenon
  <2>2. 32 - PoolBits - SubnetSize = 0
    BY <2>1, SMTT(60)
  <2> QED BY <2>2 DEF OffsetByte
<1>2. GenerateSubnet(i)[0] = i % Octet /\ GenerateSubnet(j)[0] = j % Octet
  BY <1>1 DEF GenerateSubnet
<1>3. i % Octet = j % Octet
  BY <1>2
<1>4. Octet \in Nat /\ Octet > 0 /\ i \in Nat /\ j \in Nat /\ 1 <= i /\ i <= Octet /\ 1 <= j /\ j <= Octet
  BY AllocatorAssumptions DEF FewNetworks
<1>5. \A k \in Nat : 1 <= k /\ k <= Octet => k % Octet = IF k = Octet THEN 0 ELSE k
  BY <1>4
<1> QED BY <1>3, <1>4, <1>5

LEMMA SubnetIsFunction ==
  ASSUME NEW i \in Nat
  PROVE  GenerateSubnet(i) \in [0..3 -> Int]
<1>1. \A b \in 0..3 : PoolBase[b] \in Int
  BY AllocatorAssumptions
<1>2. i % Octet \in Int /\ (i \div Octet) % Octet \in Int
  <2>1. Octet \in Nat /\ Octet > 0 /\ i \div Octet \in Int
    BY AllocatorAssumptions
  <2> QED BY <2>1
<1> QED BY <1>1, <1>2 DEF GenerateSubnet

\* Subnets and addresses are something.
LEMMA AddressIsSet ==
  ASSUME AllocTypeOK
  PROVE  /\ Unset \notin Generated
         /\ \A a \in Address : a # Unset /\ a # NoVIP
         /\ \A s \in Generated, h \in Int : At(s, h) \in Address /\ At(s, h) # Unset /\ At(s, h) # NoVIP
<1>1. Generated \subseteq [0..3 -> Int]
  BY SubnetIsFunction DEF Generated
<1>2. Address \subseteq [sub : [0..3 -> Int], host : Int]
  BY <1>1 DEF Address
<1>3. \A a \in Address : a # Unset /\ a # NoVIP
  BY <1>2, AllocatorAssumptions
<1>4. \A s \in Generated, h \in Int : At(s, h) \in Address
  BY DEF At, Address
<1>5. Unset \notin Generated
  BY <1>1, AllocatorAssumptions
<1> QED BY <1>3, <1>4, <1>5

-----------------------------------------------------------------------------
(***************************************************************************)
(* What taking, releasing and forgetting one address does to Sound.        *)
(***************************************************************************)

\* An address that was free is taken, and the owner has it.
LEMMA TakeSound ==
  ASSUME NEW sub, NEW ps, NEW held, Sound(sub, ps, held),
         NEW x \in Holder, NEW n \in Network, NEW h, At(sub[n], h) # Unset,
         sub[n] # Unset, sub[n] \in DOMAIN ps, h \notin DOMAIN ps[sub[n]].used,
         NEW ps2, DOMAIN ps2 = DOMAIN ps, \A s \in DOMAIN ps : s # sub[n] => ps2[s] = ps[s],
         ps2[sub[n]] = [used |-> Put(ps[sub[n]].used, h, x), next |-> ps2[sub[n]].next],
         ps2[sub[n]].next \in Int,
         NEW held2, held2[x][n] = At(sub[n], h),
         \A y \in Holder, m \in Network : y # x \/ m # n => held2[y][m] = held[y][m]
  PROVE  Sound(sub, ps2, held2)
<1>1. At(sub[n], h).sub = sub[n] /\ At(sub[n], h).host = h
  BY DEF At
<1>2. ASSUME NEW y \in Holder, NEW m \in Network, held[y][m] = At(sub[n], h) PROVE FALSE
  BY <1>1, <1>2 DEF Sound, InUse
<1>3. Apart(sub, ps2)
  BY DEF Sound, Apart
<1>4. Distinct(held2)
  BY <1>2 DEF Sound, Distinct
<1>5. ps2[sub[n]].used = Put(ps[sub[n]].used, h, x)
  OBVIOUS
<1>6. InUse(sub, ps2, held2)
  <2> SUFFICES ASSUME NEW y \in Holder, NEW m \in Network, NEW k \in Network,
                      held2[y][m] # Unset, sub[k] # Unset, held2[y][m].sub = sub[k]
               PROVE  /\ m = k
                      /\ sub[k] \in DOMAIN ps2
                      /\ held2[y][m].host \in DOMAIN ps2[sub[k]].used
                      /\ ps2[sub[k]].used[held2[y][m].host] = y
    BY DEF InUse
  <2>1. CASE y = x /\ m = n
    BY <1>1, <1>5, <2>1 DEF Sound, Apart, Put
  <2>2. CASE y # x \/ m # n
    <3>1. /\ m = k
          /\ sub[k] \in DOMAIN ps
          /\ held[y][m].host \in DOMAIN ps[sub[k]].used
          /\ ps[sub[k]].used[held[y][m].host] = y
          /\ held2[y][m] = held[y][m]
      BY <2>2 DEF Sound, InUse
    <3>2. CASE sub[k] = sub[n]
      BY <1>5, <3>1, <3>2 DEF Put
    <3>3. CASE sub[k] # sub[n]
      BY <3>1, <3>3
    <3> QED BY <3>2, <3>3
  <2> QED BY <2>1, <2>2
<1> QED BY <1>3, <1>4, <1>6 DEF Sound

\* Addresses are forgotten, the pools stay.
LEMMA ForgetSound ==
  ASSUME NEW sub, NEW ps, NEW held, Sound(sub, ps, held),
         NEW held2, \A y \in Holder, m \in Network : held2[y][m] \in {held[y][m], Unset}
  PROVE  Sound(sub, ps, held2)
  BY DEF Sound, Distinct, InUse

\* What ReleaseIP does to the pools.
LEMMA ReleaseIPResult ==
  ASSUME NEW ps, NEW s, NEW a, \A r \in DOMAIN ps : ps[r] = [used |-> ps[r].used, next |-> ps[r].next]
  PROVE  /\ DOMAIN ReleaseIP(ps, s, a) = DOMAIN ps
         /\ \A r \in DOMAIN ps :
              /\ ReleaseIP(ps, s, a)[r] = [used |-> ReleaseIP(ps, s, a)[r].used, next |-> ps[r].next]
              /\ r # s => ReleaseIP(ps, s, a)[r].used = ps[r].used
              /\ r = s => ReleaseIP(ps, s, a)[r].used
                          = IF a.sub = s /\ a.host \in DOMAIN ps[r].used THEN Drop(ps[r].used, a.host)
                            ELSE ps[r].used
<1>1. CASE s \in DOMAIN ps /\ a.sub = s /\ a.host \in DOMAIN ps[s].used
  <2> DEFINE q == [ps EXCEPT ![s].used = Drop(ps[s].used, a.host)]
  <2>1. ReleaseIP(ps, s, a) = q
    BY <1>1 DEF ReleaseIP
  <2>2. DOMAIN q = DOMAIN ps /\ \A r \in DOMAIN ps : r # s => q[r] = ps[r]
    OBVIOUS
  <2>3. q[s] = [used |-> Drop(ps[s].used, a.host), next |-> ps[s].next]
    BY <1>1
  <2> HIDE DEF q
  <2> QED BY <1>1, <2>1, <2>2, <2>3
<1>2. CASE ~(s \in DOMAIN ps /\ a.sub = s /\ a.host \in DOMAIN ps[s].used)
  <2>1. ReleaseIP(ps, s, a) = ps
    BY <1>2 DEF ReleaseIP
  <2> QED BY <1>2, <2>1
<1> QED BY <1>1, <1>2

\* An address is released, and its owner has it no more.
LEMMA ReleaseSound ==
  ASSUME NEW sub, NEW ps, NEW held, Sound(sub, ps, held),
         NEW x \in Holder, NEW n \in Network, sub[n] # Unset, held[x][n] # Unset,
         NEW held2, held2[x][n] = Unset,
         \A y \in Holder, m \in Network : y # x \/ m # n => held2[y][m] = held[y][m]
  PROVE  Sound(sub, ReleaseIP(ps, sub[n], held[x][n]), held2)
<1> DEFINE a == held[x][n]
           ps2 == ReleaseIP(ps, sub[n], a)
<1>1. /\ DOMAIN ps2 = DOMAIN ps
      /\ \A r \in DOMAIN ps :
           /\ ps2[r] = [used |-> ps2[r].used, next |-> ps[r].next]
           /\ r # sub[n] => ps2[r].used = ps[r].used
           /\ r = sub[n] => ps2[r].used = IF a.sub = sub[n] /\ a.host \in DOMAIN ps[r].used
                                            THEN Drop(ps[r].used, a.host) ELSE ps[r].used
  BY ReleaseIPResult DEF Sound, Apart
<1> HIDE DEF ps2
<1>2. Apart(sub, ps2)
  BY <1>1 DEF Sound, Apart
<1>3. Distinct(held2)
  BY DEF Sound, Distinct
<1>4. InUse(sub, ps2, held2)
  <2> SUFFICES ASSUME NEW y \in Holder, NEW m \in Network, NEW k \in Network,
                      held2[y][m] # Unset, sub[k] # Unset, held2[y][m].sub = sub[k]
               PROVE  /\ m = k
                      /\ sub[k] \in DOMAIN ps2
                      /\ held2[y][m].host \in DOMAIN ps2[sub[k]].used
                      /\ ps2[sub[k]].used[held2[y][m].host] = y
    BY DEF InUse
  <2>1. y # x \/ m # n
    OBVIOUS
  <2>2. /\ m = k
        /\ sub[k] \in DOMAIN ps
        /\ held[y][m].host \in DOMAIN ps[sub[k]].used
        /\ ps[sub[k]].used[held[y][m].host] = y
        /\ held2[y][m] = held[y][m]
    BY <2>1 DEF Sound, InUse
  <2>3. CASE sub[k] = sub[n] /\ a.sub = sub[n]
    <3>1. k = n
      BY <2>3 DEF Sound, Apart
    <3>2. ps[sub[n]].used[a.host] = x /\ a.host \in DOMAIN ps[sub[n]].used
      BY <2>3 DEF Sound, InUse
    <3>3. a.host # held[y][m].host
      BY <2>1, <2>2, <3>1, <3>2
    <3>4. ps2[sub[k]].used = Drop(ps[sub[k]].used, a.host)
      BY <1>1, <2>2, <2>3, <3>1, <3>2
    <3>5. /\ held[y][m].host \in DOMAIN Drop(ps[sub[k]].used, a.host)
          /\ Drop(ps[sub[k]].used, a.host)[held[y][m].host] = ps[sub[k]].used[held[y][m].host]
      BY <2>2, <3>3 DEF Drop
    <3> QED BY <1>1, <2>2, <3>4, <3>5
  <2>4. CASE ~(sub[k] = sub[n] /\ a.sub = sub[n])
    BY <1>1, <2>2, <2>4
  <2> QED BY <2>3, <2>4
<1> QED BY <1>2, <1>3, <1>4 DEF Sound, ps2

-----------------------------------------------------------------------------
(***************************************************************************)
(* The loops.                                                              *)
(***************************************************************************)

\* The rounds of a loop that serves, and of one that releases: see the argument for
\* recursive functions in ProbeRounds of NetworkProofs.
LEMMA ServedRounds ==
  ASSUME NEW x, NEW nets, Len(nets) \in Nat, NEW got
  PROVE  Served(x, nets, got) =
           [i \in 0..Len(nets) |-> IF i = 0 THEN [ok |-> TRUE, pools |-> pools, got |-> got, lost |-> lost]
                                   ELSE Serve(Served(x, nets, got)[i - 1], nets[i], x)]
<1> DEFINE N == Len(nets)
           start == [ok |-> TRUE, pools |-> pools, got |-> got, lost |-> lost]
           Run(g, n) == g = [i \in 0..n |-> IF i = 0 THEN start ELSE Serve(g[i - 1], nets[i], x)]
           Bad == {n \in 0..N : ~ \E g : Run(g, n)}
<1> HIDE DEF start
<1>1. Bad = {}
  <2> SUFFICES ASSUME Bad # {} PROVE FALSE
    OBVIOUS
  <2>1. Bad \subseteq Nat
    OBVIOUS
  <2>2. PICK n \in Bad : \A m \in Bad : n <= m
    <3> HIDE DEF Bad
    <3> QED BY <2>1, LeastNumber
  <2>3. n \in 0..N /\ n \in Nat /\ ~ \E g : Run(g, n)
    OBVIOUS
  <2>4. CASE n = 0
    <3> DEFINE f == [i \in 0..0 |-> start]
    <3>1. Run(f, 0)
      OBVIOUS
    <3> QED BY <2>3, <2>4, <3>1
  <2>5. CASE n # 0
    <3>0. n - 1 \in 0..N /\ ~(n <= n - 1)
      BY <2>3, <2>5
    <3>1. n - 1 \in 0..N /\ n - 1 \notin Bad
      BY <2>2, <3>0
    <3>2. PICK g : Run(g, n - 1)
      BY <3>1
    <3> DEFINE f == [i \in 0..n |-> IF i = n THEN Serve(g[n - 1], nets[n], x) ELSE g[i]]
    <3>3. Run(f, n)
      BY <2>3, <2>5, <3>2
    <3> QED BY <2>3, <3>3
  <2> QED BY <2>4, <2>5
<1>2. \E g : Run(g, N)
  BY <1>1
<1>3. Served(x, nets, got) = CHOOSE g : Run(g, N)
  BY DEF Served, start
<1> DEFINE f == Served(x, nets, got)
<1>4. Run(f, N)
  <2> HIDE DEF f
  <2> QED BY <1>2, <1>3, Zenon DEF f
<1> QED BY <1>4 DEF start

LEMMA ReleasedRounds ==
  ASSUME NEW nets, Len(nets) \in Nat, NEW got
  PROVE  Released(nets, got) =
           [i \in 0..Len(nets) |-> IF i = 0 THEN [pools |-> pools, got |-> got]
                                   ELSE Release(Released(nets, got)[i - 1], nets[i])]
<1> DEFINE N == Len(nets)
           start == [pools |-> pools, got |-> got]
           Run(g, n) == g = [i \in 0..n |-> IF i = 0 THEN start ELSE Release(g[i - 1], nets[i])]
           Bad == {n \in 0..N : ~ \E g : Run(g, n)}
<1> HIDE DEF start
<1>1. Bad = {}
  <2> SUFFICES ASSUME Bad # {} PROVE FALSE
    OBVIOUS
  <2>1. Bad \subseteq Nat
    OBVIOUS
  <2>2. PICK n \in Bad : \A m \in Bad : n <= m
    <3> HIDE DEF Bad
    <3> QED BY <2>1, LeastNumber
  <2>3. n \in 0..N /\ n \in Nat /\ ~ \E g : Run(g, n)
    OBVIOUS
  <2>4. CASE n = 0
    <3> DEFINE f == [i \in 0..0 |-> start]
    <3>1. Run(f, 0)
      OBVIOUS
    <3> QED BY <2>3, <2>4, <3>1
  <2>5. CASE n # 0
    <3>0. n - 1 \in 0..N /\ ~(n <= n - 1)
      BY <2>3, <2>5
    <3>1. n - 1 \in 0..N /\ n - 1 \notin Bad
      BY <2>2, <3>0
    <3>2. PICK g : Run(g, n - 1)
      BY <3>1
    <3> DEFINE f == [i \in 0..n |-> IF i = n THEN Release(g[n - 1], nets[n]) ELSE g[i]]
    <3>3. Run(f, n)
      BY <2>3, <2>5, <3>2
    <3> QED BY <2>3, <3>3
  <2> QED BY <2>4, <2>5
<1>2. \E g : Run(g, N)
  BY <1>1
<1>3. Released(nets, got) = CHOOSE g : Run(g, N)
  BY DEF Released, start
<1> DEFINE f == Released(nets, got)
<1>4. Run(f, N)
  <2> HIDE DEF f
  <2> QED BY <1>2, <1>3, Zenon DEF f
<1> QED BY <1>4 DEF start

\* What everyone holds if x has got.
With(x, got) ==
  [y \in Holder |-> IF y = x THEN [n \in Network |-> IF got[n] = NoVIP THEN Unset ELSE got[n]]
                    ELSE Holdings[y]]

\* The invariant of the loops: ps and got are the pools and the addresses of x, who had
\* start when the loop began.
Underway(x, start, ps, got) ==
  /\ DOMAIN ps = DOMAIN pools
  /\ got = [n \in Network |-> got[n]]
  /\ \A n \in Network : got[n] \in Address \cup {Unset, start[n]}
  /\ Sound(subnet, ps, With(x, got))

LEMMA ServeKeeps ==
  ASSUME AllocTypeOK, NEW x \in Holder, NEW start, NEW n \in Network, NEW st,
         Underway(x, start, st.pools, st.got)
  PROVE  Underway(x, start, Serve(st, n, x).pools, Serve(st, n, x).got)
<1> DEFINE s == subnet[n]
           h == IF st.ok /\ Allocated(n) /\ s \in DOMAIN st.pools THEN Find(st.pools[s], x) ELSE Unset
           ps2 == [st.pools EXCEPT ![s] = Take(st.pools[s], h, x)]
           got2 == [st.got EXCEPT ![n] = At(s, h)]
<1>1. CASE h = Unset
  <2>1. Serve(st, n, x) = [st EXCEPT !.ok = FALSE]
    BY <1>1 DEF Serve
  <2>2. Serve(st, n, x).pools = st.pools /\ Serve(st, n, x).got = st.got
    BY <2>1
  <2> QED BY <2>2
<1>2. CASE h # Unset
  <2>1. Serve(st, n, x).pools = ps2 /\ Serve(st, n, x).got = got2
    BY <1>2 DEF Serve
  <2>2. Allocated(n) /\ s \in DOMAIN st.pools /\ h = Find(st.pools[s], x)
    BY <1>2
  <2>3. st.pools[s] = [used |-> st.pools[s].used, next |-> st.pools[s].next] /\ st.pools[s].next \in Int
    BY <2>2 DEF Underway, Sound, Apart
  <2>4. h \in Int /\ h \notin DOMAIN st.pools[s].used
    BY <1>2, <2>2, <2>3, FindIsFree
  <2>5. s \in Generated /\ s # Unset
    BY <2>2 DEF Allocated, AllocTypeOK
  <2>6. At(s, h) \in Address /\ At(s, h) # Unset /\ At(s, h) # NoVIP
    BY <2>4, <2>5, AddressIsSet
  <2>7. DOMAIN ps2 = DOMAIN st.pools /\ (\A r \in DOMAIN st.pools : r # s => ps2[r] = st.pools[r])
        /\ ps2[s] = Take(st.pools[s], h, x)
    BY <2>2
  <2>8. ps2[s] = [used |-> Put(st.pools[s].used, h, x), next |-> ps2[s].next] /\ ps2[s].next \in Int
    BY <2>3, <2>4, <2>7, TakeUsed
  <2>9. got2[n] = At(s, h) /\ (\A m \in Network : m # n => got2[m] = st.got[m])
        /\ got2 = [m \in Network |-> got2[m]]
    BY DEF Underway
  <2> HIDE DEF h, ps2, got2
  <2>10. With(x, got2)[x][n] = At(s, h)
    BY <2>6, <2>9 DEF With
  <2>11. \A y \in Holder, m \in Network : y # x \/ m # n => With(x, got2)[y][m] = With(x, st.got)[y][m]
    BY <2>9 DEF With
  <2>12. Sound(subnet, ps2, With(x, got2))
    BY <2>2, <2>4, <2>5, <2>6, <2>7, <2>8, <2>10, <2>11, TakeSound DEF Underway
  <2>13. \A m \in Network : got2[m] \in Address \cup {Unset, start[m]}
    BY <2>6, <2>9 DEF Underway
  <2> QED BY <2>1, <2>7, <2>9, <2>12, <2>13 DEF Underway
<1> QED BY <1>1, <1>2

LEMMA ReleaseKeeps ==
  ASSUME AllocTypeOK, NEW x \in Holder, NEW start, NEW n \in Network, NEW st,
         Underway(x, start, st.pools, st.got)
  PROVE  Underway(x, start, Release(st, n).pools, Release(st, n).got)
<1> DEFINE got2 == [st.got EXCEPT ![n] = Unset]
<1>1. CASE ~(Allocated(n) /\ st.got[n] # Unset)
  BY <1>1 DEF Release
<1>2. got2[n] = Unset /\ (\A m \in Network : m # n => got2[m] = st.got[m])
      /\ got2 = [m \in Network |-> got2[m]]
  BY DEF Underway
<1>3. \A m \in Network : got2[m] \in Address \cup {Unset, start[m]}
  BY <1>2 DEF Underway
<1>4. CASE Allocated(n) /\ st.got[n] = NoVIP /\ st.got[n] # Unset
  <2>1. Release(st, n).pools = st.pools /\ Release(st, n).got = got2
    BY <1>4 DEF Release
  <2> HIDE DEF got2
  <2>2. \A y \in Holder, m \in Network : With(x, got2)[y][m] \in {With(x, st.got)[y][m], Unset}
    BY <1>2 DEF With
  <2>3. Sound(subnet, st.pools, With(x, got2))
    BY <2>2, ForgetSound DEF Underway
  <2> QED BY <1>2, <1>3, <2>1, <2>3 DEF Underway
<1>5. CASE Allocated(n) /\ st.got[n] # NoVIP /\ st.got[n] # Unset
  <2> DEFINE ps2 == ReleaseIP(st.pools, subnet[n], st.got[n])
  <2>1. Release(st, n).pools = ps2 /\ Release(st, n).got = got2
    BY <1>5 DEF Release
  <2> HIDE DEF got2
  <2>2. With(x, st.got)[x][n] = st.got[n]
    BY <1>5 DEF With
  <2>3. With(x, got2)[x][n] = Unset
    BY <1>2 DEF With
  <2>4. \A y \in Holder, m \in Network : y # x \/ m # n => With(x, got2)[y][m] = With(x, st.got)[y][m]
    BY <1>2 DEF With
  <2>5. Sound(subnet, ps2, With(x, got2))
    BY <1>5, <2>2, <2>3, <2>4, ReleaseSound DEF Underway, Allocated
  <2>6. DOMAIN ps2 = DOMAIN st.pools
    BY DEF ReleaseIP
  <2> QED BY <1>2, <1>3, <2>1, <2>5, <2>6 DEF Underway
<1> QED BY <1>1, <1>4, <1>5

\* The loops keep their invariant to the end.
LEMMA ServedKeeps ==
  ASSUME AllocTypeOK, NEW x \in Holder, NEW nets \in Seq(Network), NEW got, Underway(x, got, pools, got)
  PROVE  LET st == Served(x, nets, got)[Len(nets)] IN Underway(x, got, st.pools, st.got)
<1> DEFINE f == Served(x, nets, got)
           Bad == {i \in 0..Len(nets) : ~Underway(x, got, f[i].pools, f[i].got)}
<1>1. Len(nets) \in Nat /\ \A i \in 1..Len(nets) : nets[i] \in Network
  OBVIOUS
<1>2. \A i \in 0..Len(nets) :
        f[i] = IF i = 0 THEN [ok |-> TRUE, pools |-> pools, got |-> got, lost |-> lost] ELSE Serve(f[i - 1], nets[i], x)
  <2>1. f = [i \in 0..Len(nets) |-> IF i = 0 THEN [ok |-> TRUE, pools |-> pools, got |-> got, lost |-> lost]
                                    ELSE Serve(f[i - 1], nets[i], x)]
    BY <1>1, ServedRounds
  <2> HIDE DEF f
  <2> QED BY <2>1
<1> HIDE DEF f
<1>3. Bad = {}
  <2> SUFFICES ASSUME Bad # {} PROVE FALSE
    OBVIOUS
  <2>1. Bad \subseteq Nat
    OBVIOUS
  <2>2. PICK i \in Bad : \A j \in Bad : i <= j
    <3> HIDE DEF Bad
    <3> QED BY <2>1, LeastNumber
  <2>3. i \in 0..Len(nets) /\ ~Underway(x, got, f[i].pools, f[i].got)
    OBVIOUS
  <2>4. i # 0
    BY <1>2, <2>3
  <2>5. i - 1 \in 0..Len(nets) /\ ~(i <= i - 1) /\ i \in 1..Len(nets)
    BY <1>1, <2>3, <2>4
  <2>6. Underway(x, got, f[i - 1].pools, f[i - 1].got)
    BY <2>2, <2>5
  <2>7. f[i] = Serve(f[i - 1], nets[i], x)
    BY <1>2, <2>3, <2>4
  <2>8. nets[i] \in Network
    BY <1>1, <2>5
  <2> QED BY <2>3, <2>6, <2>7, <2>8, ServeKeeps
<1> QED BY <1>1, <1>3 DEF f

LEMMA ReleasedKeeps ==
  ASSUME AllocTypeOK, NEW x \in Holder, NEW nets \in Seq(Network), NEW got, Underway(x, got, pools, got)
  PROVE  LET st == Released(nets, got)[Len(nets)] IN Underway(x, got, st.pools, st.got)
<1> DEFINE f == Released(nets, got)
           Bad == {i \in 0..Len(nets) : ~Underway(x, got, f[i].pools, f[i].got)}
<1>1. Len(nets) \in Nat /\ \A i \in 1..Len(nets) : nets[i] \in Network
  OBVIOUS
<1>2. \A i \in 0..Len(nets) :
        f[i] = IF i = 0 THEN [pools |-> pools, got |-> got] ELSE Release(f[i - 1], nets[i])
  <2>1. f = [i \in 0..Len(nets) |-> IF i = 0 THEN [pools |-> pools, got |-> got]
                                    ELSE Release(f[i - 1], nets[i])]
    BY <1>1, ReleasedRounds
  <2> HIDE DEF f
  <2> QED BY <2>1
<1> HIDE DEF f
<1>3. Bad = {}
  <2> SUFFICES ASSUME Bad # {} PROVE FALSE
    OBVIOUS
  <2>1. Bad \subseteq Nat
    OBVIOUS
  <2>2. PICK i \in Bad : \A j \in Bad : i <= j
    <3> HIDE DEF Bad
    <3> QED BY <2>1, LeastNumber
  <2>3. i \in 0..Len(nets) /\ ~Underway(x, got, f[i].pools, f[i].got)
    OBVIOUS
  <2>4. i # 0
    BY <1>2, <2>3
  <2>5. i - 1 \in 0..Len(nets) /\ ~(i <= i - 1) /\ i \in 1..Len(nets)
    BY <1>1, <2>3, <2>4
  <2>6. Underway(x, got, f[i - 1].pools, f[i - 1].got)
    BY <2>2, <2>5
  <2>7. f[i] = Release(f[i - 1], nets[i])
    BY <1>2, <2>3, <2>4
  <2>8. nets[i] \in Network
    BY <1>1, <2>5
  <2> QED BY <2>3, <2>6, <2>7, <2>8, ReleaseKeeps
<1> QED BY <1>1, <1>3 DEF f

-----------------------------------------------------------------------------
(***************************************************************************)
(* No address is given twice.                                              *)
(***************************************************************************)

\* What a holder has, by its kind.
LEMMA HoldingsOf ==
  ASSUME NEW n \in Network
  PROVE  /\ \A t \in Task : Holdings[t][n] = addr[t][n]
         /\ \A d \in Node : Holdings[d][n] = attached[d][n]
         /\ \A s \in Service : Holdings[s][n] = IF vip[s][n] = NoVIP THEN Unset ELSE vip[s][n]
  BY AllocatorAssumptions DEF Holdings, Held, Holder

\* A loop begins with what the owner has.
LEMMA TaskUnderway ==
  ASSUME AllocInv, NEW t \in Task
  PROVE  Underway(t, addr[t], pools, addr[t])
<1>1. addr[t] \in [Network -> Address \cup {Unset}]
  BY DEF AllocInv, AllocTypeOK
<1>2. \A n \in Network : addr[t][n] # NoVIP
  BY <1>1, AddressIsSet, AllocatorAssumptions DEF AllocInv
<1>3. With(t, addr[t]) = Holdings
  BY <1>2, AllocatorAssumptions DEF With, Holdings, Held, Holder
<1> QED BY <1>1, <1>3 DEF Underway, AllocInv

LEMMA ServiceUnderway ==
  ASSUME AllocInv, NEW s \in Service
  PROVE  Underway(s, vip[s], pools, vip[s])
<1>1. vip[s] \in [Network -> Address \cup {Unset, NoVIP}]
  BY DEF AllocInv, AllocTypeOK
<1>2. With(s, vip[s]) = Holdings
  BY AllocatorAssumptions DEF With, Holdings, Held, Holder
<1> QED BY <1>1, <1>2 DEF Underway, AllocInv

\* Where a loop ends.
LEMMA LoopsKeep ==
  ASSUME AllocInv
  PROVE  /\ \A t \in Task : /\ Underway(t, addr[t], ServeTask(t).pools, ServeTask(t).got)
                            /\ Underway(t, addr[t], ReleaseTask(t).pools, ReleaseTask(t).got)
         /\ \A s \in Service : /\ Underway(s, vip[s], ServeService(s).pools, ServeService(s).got)
                               /\ Underway(s, vip[s], ReleaseService(s).pools, ReleaseService(s).got)
<1>1. ASSUME NEW t \in Task
      PROVE  /\ Underway(t, addr[t], ServeTask(t).pools, ServeTask(t).got)
             /\ Underway(t, addr[t], ReleaseTask(t).pools, ReleaseTask(t).got)
  <2>1. t \in Holder /\ NetsOf[t] \in Seq(Network)
    BY AllocatorAssumptions DEF Holder
  <2>2. Underway(t, addr[t], pools, addr[t])
    BY TaskUnderway
  <2> QED BY <2>1, <2>2, ServedKeeps, ReleasedKeeps DEF AllocInv, ServeTask, ReleaseTask
<1>2. ASSUME NEW s \in Service
      PROVE  /\ Underway(s, vip[s], ServeService(s).pools, ServeService(s).got)
             /\ Underway(s, vip[s], ReleaseService(s).pools, ReleaseService(s).got)
  <2>1. s \in Holder /\ ServiceNets[s] \in Seq(Network)
    BY AllocatorAssumptions DEF Holder
  <2>2. Underway(s, vip[s], pools, vip[s])
    BY ServiceUnderway
  <2> QED BY <2>1, <2>2, ServedKeeps, ReleasedKeeps DEF AllocInv, ServeService, ReleaseService
<1> QED BY <1>1, <1>2

\* The holdings after a call for a task.
LEMMA TaskHoldings ==
  ASSUME AllocInv, NEW t \in Task, NEW got, \A n \in Network : got[n] # NoVIP,
         addr' = [addr EXCEPT ![t] = got], vip' = vip, attached' = attached
  PROVE  Holdings' = With(t, got)
<1>1. addr'[t] = got /\ \A u \in Task : u # t => addr'[u] = addr[u]
  BY DEF AllocInv, AllocTypeOK
<1>2. \A n \in Network : Held(t, n)' = With(t, got)[t][n]
  BY <1>1 DEF With, Held, Holder
<1>3. ASSUME NEW y \in Holder, y # t, NEW n \in Network PROVE Held(y, n)' = Held(y, n)
  BY <1>1, <1>3 DEF Held, Holder
<1>4. \A y \in Holder, n \in Network : Held(y, n)' = With(t, got)[y][n]
  BY <1>2, <1>3 DEF With, Holdings
<1>5. With(t, got) = [y \in Holder |-> [n \in Network |-> With(t, got)[y][n]]]
  BY DEF With, Holdings
<1> QED BY <1>4, <1>5 DEF Holdings

\* The end of a call for a task, and of one for a service that may forget some entries.
LEMMA TaskDone ==
  ASSUME AllocInv, NEW t \in Task, NEW got, Underway(t, addr[t], pools', got),
         addr' = [addr EXCEPT ![t] = got], UNCHANGED <<index, subnet, vip, attached>>
  PROVE  AllocInv'
<1>1. \A n \in Network : got[n] \in Address \cup {Unset}
  BY DEF Underway, AllocInv, AllocTypeOK
<1>2. Generated' = Generated /\ Address' = Address
  BY DEF Generated, Address
<1>3. AllocTypeOK'
  <2>1. got \in [Network -> Address \cup {Unset}]
    BY <1>1 DEF Underway
  <2>2. addr' \in [Task -> [Network -> Address \cup {Unset}]]
    BY <2>1 DEF AllocInv, AllocTypeOK
  <2> QED BY <1>2, <2>2 DEF AllocInv, AllocTypeOK, Underway
<1>4. \A n \in Network : got[n] # NoVIP
  BY <1>1, AddressIsSet, AllocatorAssumptions DEF AllocInv
<1>5. Holdings' = With(t, got)
  BY <1>4, TaskHoldings
<1> QED BY <1>3, <1>5 DEF AllocInv, Underway

LEMMA ServiceDone ==
  ASSUME AllocInv, NEW s \in Service, NEW got, Underway(s, vip[s], pools', got),
         NEW new, new = [n \in Network |-> new[n]], \A n \in Network : new[n] \in {got[n], Unset, NoVIP},
         vip' = [vip EXCEPT ![s] = new], UNCHANGED <<index, subnet, addr, attached>>
  PROVE  AllocInv'
<1>1. \A n \in Network : got[n] \in Address \cup {Unset, NoVIP}
  BY DEF Underway, AllocInv, AllocTypeOK
<1>2. Generated' = Generated /\ Address' = Address
  BY DEF Generated, Address
<1>3. AllocTypeOK'
  <2>1. new \in [Network -> Address \cup {Unset, NoVIP}]
    BY <1>1
  <2>2. vip' \in [Service -> [Network -> Address \cup {Unset, NoVIP}]]
    BY <2>1 DEF AllocInv, AllocTypeOK
  <2> QED BY <1>2, <2>2 DEF AllocInv, AllocTypeOK, Underway
<1>4. vip'[s] = new /\ \A r \in Service : r # s => vip'[r] = vip[r]
  BY DEF AllocInv, AllocTypeOK
<1>5. \A y \in Holder, m \in Network : Holdings'[y][m] \in {With(s, got)[y][m], Unset}
  BY <1>4, AllocatorAssumptions DEF With, Holdings, Held, Holder
<1>6. Sound(subnet, pools', Holdings')
  BY <1>5, ForgetSound DEF Underway
<1> QED BY <1>3, <1>6 DEF AllocInv

LEMMA AllocInvInit == AllocInit => AllocInv
<1> SUFFICES ASSUME AllocInit PROVE AllocInv
  OBVIOUS
<1>1. AllocTypeOK
  BY AllocatorAssumptions DEF AllocInit, AllocTypeOK
<1>2. \A x \in Holder, n \in Network : Holdings[x][n] = Unset
  BY AllocatorAssumptions DEF AllocInit, Holdings, Held, Holder
<1>3. Sound(subnet, pools, Holdings)
  BY <1>2 DEF AllocInit, Sound, Apart, Distinct, InUse
<1> QED BY <1>1, <1>3 DEF AllocInv

\* The next subnet is one that nobody has, and no address is in it.
LEMMA FreshSubnet ==
  ASSUME FewNetworks, AllocInv, index < MaxIndex
  PROVE  GenerateSubnet(index + 1) \notin Generated
<1>1. index \in Nat /\ index + 1 \in 1..MaxIndex /\ \A i \in 1..index : i \in 1..MaxIndex /\ i # index + 1
  BY AllocatorAssumptions DEF AllocInv, AllocTypeOK
<1> QED BY <1>1, SubnetsDiffer DEF Generated

\* What CreatePool leaves.
LEMMA CreatePoolResult ==
  ASSUME NEW s
  PROVE  /\ DOMAIN CreatePool(s) = DOMAIN pools \cup {s}
         /\ \A r \in DOMAIN pools : CreatePool(s)[r] = pools[r]
         /\ s \notin DOMAIN pools => CreatePool(s)[s] = NewPool
  BY DEF CreatePool, Put

LEMMA GrowType ==
  ASSUME AllocTypeOK, index < MaxIndex, index' = index + 1
  PROVE  /\ Generated' = Generated \cup {GenerateSubnet(index + 1)}
         /\ Address \subseteq Address' /\ index' \in 0..MaxIndex
<1>1. index \in Nat /\ index' \in 0..MaxIndex /\ 1..(index + 1) = 1..index \cup {index + 1}
  BY AllocatorAssumptions DEF AllocTypeOK
<1>2. Generated' = {GenerateSubnet(i) : i \in 1..(index + 1)}
  BY DEF Generated, GenerateSubnet, OffsetByte
<1>3. Generated' = Generated \cup {GenerateSubnet(index + 1)}
  BY <1>1, <1>2 DEF Generated
<1> QED BY <1>1, <1>3 DEF Address

\* A network gets the next subnet.
LEMMA AllocateKeeps ==
  ASSUME FewNetworks, AllocInv, NEW n \in Network, Allocate(n)
  PROVE  AllocInv'
<1> DEFINE s == GenerateSubnet(index + 1)
<1>1. index < MaxIndex /\ index' = index + 1 /\ pools' = CreatePool(s) /\ subnet' = [subnet EXCEPT ![n] = s]
      /\ addr' = addr /\ vip' = vip /\ attached' = attached
  BY DEF Allocate
<1>2. s \notin Generated
  BY <1>1, FreshSubnet
<1>3. Generated' = Generated \cup {s} /\ Address \subseteq Address' /\ index' \in 0..MaxIndex
  BY <1>1, GrowType DEF AllocInv
<1> HIDE DEF s
<1>4. s \notin DOMAIN pools
  BY <1>2 DEF AllocInv, AllocTypeOK
<1>5. DOMAIN pools' = DOMAIN pools \cup {s} /\ pools'[s] = NewPool /\ \A r \in DOMAIN pools : pools'[r] = pools[r]
  BY <1>1, <1>4, CreatePoolResult
<1>6. subnet'[n] = s /\ \A m \in Network : m # n => subnet'[m] = subnet[m]
  BY <1>1 DEF AllocInv, AllocTypeOK
<1>7. AllocTypeOK'
  <2>1. DOMAIN pools' \subseteq Generated' /\ subnet' \in [Network -> Generated' \cup {Unset}]
    BY <1>1, <1>3, <1>5 DEF AllocInv, AllocTypeOK
  <2>2. addr' \in [Task -> [Network -> Address' \cup {Unset}]]
    BY <1>1, <1>3 DEF AllocInv, AllocTypeOK
  <2>3. vip' \in [Service -> [Network -> Address' \cup {Unset, NoVIP}]]
    BY <1>1, <1>3 DEF AllocInv, AllocTypeOK
  <2>4. attached' \in [Node -> [Network -> Address' \cup {Unset}]]
    BY <1>1, <1>3 DEF AllocInv, AllocTypeOK
  <2> QED BY <1>3, <2>1, <2>2, <2>3, <2>4 DEF AllocTypeOK
<1>8. Holdings' = Holdings
  BY <1>1 DEF Holdings, Held
<1>9. \A m \in Network : subnet[m] # s
  BY <1>2, <1>3, SubnetIsFunction, AllocatorAssumptions DEF AllocInv, AllocTypeOK, s
<1>10. \A x \in Holder, m \in Network : Holdings[x][m] # Unset => Holdings[x][m].sub \in Generated
  BY AllocatorAssumptions DEF AllocInv, AllocTypeOK, Holdings, Held, Holder, Address
<1>11. Apart(subnet', pools')
  BY <1>5, <1>6, <1>9 DEF AllocInv, Sound, Apart, NewPool
<1>12. InUse(subnet', pools', Holdings)
  BY <1>2, <1>5, <1>6, <1>10 DEF AllocInv, Sound, InUse
<1> QED BY <1>7, <1>8, <1>11, <1>12 DEF AllocInv, Sound

\* A subnet is spent for nothing.
LEMMA AllocateFailKeeps ==
  ASSUME AllocInv, NEW n \in Network, AllocateFail(n)
  PROVE  AllocInv'
<1> DEFINE s == GenerateSubnet(index + 1)
<1>1. index < MaxIndex /\ index' = index + 1 /\ pools' = CreatePool(s) /\ subnet' = subnet
      /\ addr' = addr /\ vip' = vip /\ attached' = attached
  BY DEF AllocateFail
<1>2. Generated' = Generated \cup {s} /\ Address \subseteq Address' /\ index' \in 0..MaxIndex
  BY <1>1, GrowType DEF AllocInv
<1> HIDE DEF s
<1>3. DOMAIN pools' = DOMAIN pools \cup {s} /\ (\A r \in DOMAIN pools : pools'[r] = pools[r])
      /\ (s \notin DOMAIN pools => pools'[s] = NewPool)
  BY <1>1, CreatePoolResult
<1>4. AllocTypeOK'
  <2>1. DOMAIN pools' \subseteq Generated' /\ subnet' \in [Network -> Generated' \cup {Unset}]
    BY <1>1, <1>2, <1>3 DEF AllocInv, AllocTypeOK
  <2>2. addr' \in [Task -> [Network -> Address' \cup {Unset}]]
    BY <1>1, <1>2 DEF AllocInv, AllocTypeOK
  <2>3. vip' \in [Service -> [Network -> Address' \cup {Unset, NoVIP}]]
    BY <1>1, <1>2 DEF AllocInv, AllocTypeOK
  <2>4. attached' \in [Node -> [Network -> Address' \cup {Unset}]]
    BY <1>1, <1>2 DEF AllocInv, AllocTypeOK
  <2> QED BY <1>2, <2>1, <2>2, <2>3, <2>4 DEF AllocTypeOK
<1>5. Holdings' = Holdings
  BY <1>1 DEF Holdings, Held
<1>6. Apart(subnet, pools')
  BY <1>3 DEF AllocInv, Sound, Apart, NewPool
<1>7. InUse(subnet, pools', Holdings)
  BY <1>3 DEF AllocInv, Sound, InUse
<1> QED BY <1>1, <1>4, <1>5, <1>6, <1>7 DEF AllocInv, Sound

\* A network goes with its pool, its VIPs and its attachments; tasks keep the addresses
\* they had on it.
LEMMA DeallocateKeeps ==
  ASSUME AllocInv, NEW n \in Network, Deallocate(n)
  PROVE  AllocInv'
<1>1. subnet[n] # Unset /\ pools' = Drop(pools, subnet[n]) /\ subnet' = [subnet EXCEPT ![n] = Unset]
      /\ index' = index /\ addr' = addr
  BY DEF Deallocate, Allocated
<1>2. /\ vip' = [s \in Service |-> [vip[s] EXCEPT ![n] = Unset]]
      /\ attached' = [d \in Node |-> [attached[d] EXCEPT ![n] = Unset]]
  BY DEF Deallocate
<1>3. Generated' = Generated /\ Address' = Address
  BY <1>1 DEF Generated, Address
<1>4. subnet'[n] = Unset /\ \A m \in Network : m # n => subnet'[m] = subnet[m]
  BY <1>1 DEF AllocInv, AllocTypeOK
<1>5. AllocTypeOK'
  <2>1. DOMAIN pools' \subseteq Generated /\ subnet' \in [Network -> Generated \cup {Unset}]
    BY <1>1 DEF AllocInv, AllocTypeOK, Drop
  <2>2. vip' \in [Service -> [Network -> Address \cup {Unset, NoVIP}]]
    BY <1>2 DEF AllocInv, AllocTypeOK
  <2>3. attached' \in [Node -> [Network -> Address \cup {Unset}]]
    BY <1>2 DEF AllocInv, AllocTypeOK
  <2> QED BY <1>1, <1>3, <2>1, <2>2, <2>3 DEF AllocInv, AllocTypeOK
<1>6. \A y \in Holder, m \in Network : Holdings'[y][m] \in {Holdings[y][m], Unset}
  <2>1. \A s \in Service, m \in Network : vip'[s][m] = IF m = n THEN Unset ELSE vip[s][m]
    BY <1>2 DEF AllocInv, AllocTypeOK
  <2>2. \A d \in Node, m \in Network : attached'[d][m] = IF m = n THEN Unset ELSE attached[d][m]
    BY <1>2 DEF AllocInv, AllocTypeOK
  <2> QED BY <1>1, <2>1, <2>2, AllocatorAssumptions DEF Holdings, Held, Holder
<1>7. DOMAIN pools' = DOMAIN pools \ {subnet[n]} /\ \A r \in DOMAIN pools' : pools'[r] = pools[r]
  BY <1>1 DEF Drop
<1>8. \A m \in Network : subnet'[m] # Unset => subnet'[m] = subnet[m] /\ subnet[m] # subnet[n]
  BY <1>1, <1>4 DEF AllocInv, Sound, Apart
<1>9. Apart(subnet', pools')
  BY <1>7, <1>8 DEF AllocInv, Sound, Apart
<1>10. InUse(subnet', pools', Holdings)
  BY <1>7, <1>8 DEF AllocInv, Sound, InUse
<1>11. Sound(subnet', pools', Holdings)
  BY <1>9, <1>10 DEF AllocInv, Sound
<1>12. Sound(subnet', pools', Holdings')
  BY <1>6, <1>11, ForgetSound
<1> QED BY <1>5, <1>12 DEF AllocInv

\* A node is attached, and detached.
LEMMA AttachKeeps ==
  ASSUME AllocInv, NEW d \in Node, NEW n \in Network, AllocateAttachment(d, n)
  PROVE  AllocInv'
<1> DEFINE s == subnet[n]
           h == NextFree(pools[s])
<1>1. s # Unset /\ s \in DOMAIN pools /\ h # Unset
      /\ pools' = [pools EXCEPT ![s] = TakeIP(pools[s], h, d)]
      /\ attached' = [attached EXCEPT ![d][n] = At(s, h)]
      /\ index' = index /\ subnet' = subnet /\ addr' = addr /\ vip' = vip
  BY DEF AllocateAttachment, Allocated
<1>2. d \in Holder /\ d \notin Service /\ d \notin Task
  BY AllocatorAssumptions DEF Holder
<1>3. pools[s] = [used |-> pools[s].used, next |-> pools[s].next] /\ pools[s].next \in Int
  BY <1>1 DEF AllocInv, Sound, Apart
<1>4. h \in Int /\ h \notin DOMAIN pools[s].used
  <2>1. Find(pools[s], d) = h
    BY <1>2 DEF Find
  <2> QED BY <1>1, <1>3, <2>1, FindIsFree
<1>5. At(s, h) \in Address /\ At(s, h) # Unset
  BY <1>1, <1>4, AddressIsSet DEF AllocInv, AllocTypeOK
<1> HIDE DEF h
<1>6. DOMAIN pools' = DOMAIN pools /\ (\A r \in DOMAIN pools : r # s => pools'[r] = pools[r])
      /\ pools'[s] = [used |-> Put(pools[s].used, h, d), next |-> h + 1]
  BY <1>1 DEF TakeIP
<1>7. attached'[d][n] = At(s, h)
      /\ \A e \in Node, m \in Network : e # d \/ m # n => attached'[e][m] = attached[e][m]
  BY <1>1 DEF AllocInv, AllocTypeOK
<1>8. Generated' = Generated /\ Address' = Address
  BY <1>1 DEF Generated, Address
<1>9. AllocTypeOK'
  <2>1. attached' \in [Node -> [Network -> Address \cup {Unset}]]
    BY <1>1, <1>5 DEF AllocInv, AllocTypeOK
  <2> QED BY <1>1, <1>6, <1>8, <2>1 DEF AllocInv, AllocTypeOK
<1>10. Holdings'[d][n] = At(s, h)
  BY <1>2, <1>7 DEF Holdings, Held
<1>11. \A y \in Holder, m \in Network : y # d \/ m # n => Holdings'[y][m] = Holdings[y][m]
  BY <1>1, <1>7 DEF Holdings, Held, Holder
<1>12. pools'[s] = [used |-> Put(pools[s].used, h, d), next |-> pools'[s].next] /\ pools'[s].next \in Int
  BY <1>4, <1>6
<1>13. Sound(subnet, pools, Holdings)
  BY DEF AllocInv
<1>14. Sound(subnet, pools', Holdings')
  <2> DEFINE ps2 == pools'
             held2 == Holdings'
  <2>1. At(subnet[n], h) # Unset /\ subnet[n] # Unset /\ subnet[n] \in DOMAIN pools
        /\ h \notin DOMAIN pools[subnet[n]].used
    BY <1>1, <1>4, <1>5
  <2>2. DOMAIN ps2 = DOMAIN pools /\ (\A r \in DOMAIN pools : r # subnet[n] => ps2[r] = pools[r])
        /\ ps2[subnet[n]] = [used |-> Put(pools[subnet[n]].used, h, d), next |-> ps2[subnet[n]].next]
        /\ ps2[subnet[n]].next \in Int
    BY <1>6, <1>12
  <2>3. held2[d][n] = At(subnet[n], h)
        /\ \A y \in Holder, m \in Network : y # d \/ m # n => held2[y][m] = Holdings[y][m]
    BY <1>10, <1>11
  <2> HIDE DEF ps2, held2
  <2>4. Sound(subnet, ps2, held2)
    BY <1>2, <1>13, <2>1, <2>2, <2>3, TakeSound
  <2> QED BY <2>4 DEF ps2, held2
<1> QED BY <1>1, <1>9, <1>14 DEF AllocInv

LEMMA DetachKeeps ==
  ASSUME AllocInv, NEW d \in Node, NEW n \in Network, DeallocateAttachment(d, n)
  PROVE  AllocInv'
<1>1. subnet[n] # Unset /\ attached[d][n] # Unset
      /\ pools' = ReleaseIP(pools, subnet[n], attached[d][n])
      /\ attached' = [attached EXCEPT ![d][n] = Unset]
      /\ index' = index /\ subnet' = subnet /\ addr' = addr /\ vip' = vip
  BY DEF DeallocateAttachment, Allocated
<1>2. d \in Holder /\ d \notin Service /\ d \notin Task
  BY AllocatorAssumptions DEF Holder
<1>3. attached'[d][n] = Unset
      /\ \A e \in Node, m \in Network : e # d \/ m # n => attached'[e][m] = attached[e][m]
  BY <1>1 DEF AllocInv, AllocTypeOK
<1>4. Generated' = Generated /\ Address' = Address
  BY <1>1 DEF Generated, Address
<1>5. DOMAIN pools' = DOMAIN pools
  BY <1>1 DEF ReleaseIP
<1>6. AllocTypeOK'
  <2>1. attached' \in [Node -> [Network -> Address \cup {Unset}]]
    BY <1>1 DEF AllocInv, AllocTypeOK
  <2> QED BY <1>1, <1>4, <1>5, <2>1 DEF AllocInv, AllocTypeOK
<1>7. Holdings'[d][n] = Unset /\ Holdings[d][n] = attached[d][n]
  BY <1>2, <1>3 DEF Holdings, Held
<1>8. \A y \in Holder, m \in Network : y # d \/ m # n => Holdings'[y][m] = Holdings[y][m]
  BY <1>1, <1>3 DEF Holdings, Held, Holder
<1>9. Sound(subnet, pools, Holdings)
  BY DEF AllocInv
<1>10. Sound(subnet, pools', Holdings')
  BY <1>1, <1>2, <1>7, <1>8, <1>9, ReleaseSound
<1> QED BY <1>1, <1>6, <1>10 DEF AllocInv

LEMMA AllocInvNext == FewNetworks /\ AllocInv /\ [AllocNext]_allocVars => AllocInv'
<1> SUFFICES ASSUME FewNetworks, AllocInv, [AllocNext]_allocVars PROVE AllocInv'
  OBVIOUS
<1>1. ASSUME NEW t \in Task, AllocateTask(t) PROVE AllocInv'
  BY <1>1, LoopsKeep, TaskDone DEF AllocateTask
<1>2. ASSUME NEW t \in Task, DeallocateTask(t) PROVE AllocInv'
  BY <1>2, LoopsKeep, TaskDone DEF DeallocateTask
<1>3. ASSUME NEW s \in Service, AllocateService(s) PROVE AllocInv'
  <2> DEFINE got == ServeService(s).got
  <2>1. PICK I : vip' = [vip EXCEPT ![s] = [n \in Network |-> IF n \in I THEN NoVIP ELSE got[n]]]
    BY <1>3 DEF AllocateService
  <2> DEFINE new == [n \in Network |-> IF n \in I THEN NoVIP ELSE got[n]]
  <2>2. new = [n \in Network |-> new[n]] /\ \A n \in Network : new[n] \in {got[n], Unset, NoVIP}
    OBVIOUS
  <2>3. Underway(s, vip[s], pools', got) /\ UNCHANGED <<index, subnet, addr, attached>>
    BY <1>3, LoopsKeep DEF AllocateService
  <2> HIDE DEF new, got
  <2>4. vip' = [vip EXCEPT ![s] = new]
    BY <2>1 DEF new
  <2> QED BY <2>2, <2>3, <2>4, ServiceDone
<1>4. ASSUME NEW s \in Service, DeallocateService(s) PROVE AllocInv'
  <2> DEFINE got == ReleaseService(s).got
  <2>1. PICK I : vip' = [vip EXCEPT ![s] = [n \in Network |-> IF n \in I THEN Unset ELSE got[n]]]
    BY <1>4 DEF DeallocateService
  <2> DEFINE new == [n \in Network |-> IF n \in I THEN Unset ELSE got[n]]
  <2>2. new = [n \in Network |-> new[n]] /\ \A n \in Network : new[n] \in {got[n], Unset, NoVIP}
    OBVIOUS
  <2>3. Underway(s, vip[s], pools', got) /\ UNCHANGED <<index, subnet, addr, attached>>
    BY <1>4, LoopsKeep DEF DeallocateService
  <2> HIDE DEF new, got
  <2>4. vip' = [vip EXCEPT ![s] = new]
    BY <2>1 DEF new
  <2> QED BY <2>2, <2>3, <2>4, ServiceDone
<1>5. CASE UNCHANGED allocVars
  BY <1>5 DEF allocVars, AllocInv, AllocTypeOK, Generated, Address, Sound, Apart, Distinct, InUse, Holdings, Held
<1> QED BY <1>1, <1>2, <1>3, <1>4, <1>5, AllocateKeeps, AllocateFailKeeps, DeallocateKeeps, AttachKeeps,
       DetachKeeps DEF AllocNext

\* The inductive invariant of the network allocator, as long as no subnet is generated
\* twice.
THEOREM AllocInvariant ==
  ASSUME FewNetworks
  PROVE  AllocSpec => []AllocInv
  BY AllocInvInit, AllocInvNext, PTL DEF AllocSpec

\* No two tasks, nodes or services have the same address (AllocateIP, AllocateVIP and
\* their callers), over any sequence of calls, of which any may fail or be repeated,
\* for any networks of the tasks and services, as long as no subnet is generated twice.
THEOREM AddressesAreUnique ==
  ASSUME FewNetworks
  PROVE  AllocSpec => []UniqueAddresses
<1>1. AllocInv => UniqueAddresses
  BY DEF AllocInv, Sound, Distinct, UniqueAddresses, Holds, Holdings
<1> QED BY <1>1, AllocInvariant, PTL

-----------------------------------------------------------------------------
(***************************************************************************)
(* An address is lost only when it is replaced.                            *)
(***************************************************************************)

\* An address is taken; what the owner had on the network is among the replaced ones.
LEMMA TakeKept ==
  ASSUME NEW sub, NEW ps, NEW held, NEW gone, Apart(sub, ps), Kept(sub, ps, held, gone),
         NEW x \in Holder, NEW n \in Network, NEW h \in Int,
         sub[n] # Unset, sub[n] \in DOMAIN ps,
         NEW ps2, DOMAIN ps2 = DOMAIN ps, \A s \in DOMAIN ps : s # sub[n] => ps2[s] = ps[s],
         ps2[sub[n]].used = Put(ps[sub[n]].used, h, x),
         NEW held2, held2[x][n] = At(sub[n], h),
         \A y \in Holder, m \in Network : y # x \/ m # n => held2[y][m] = held[y][m],
         NEW gone2, gone \subseteq gone2, \A g \in Int : held[x][n] = At(sub[n], g) => At(sub[n], g) \in gone2
  PROVE  Kept(sub, ps2, held2, gone2)
<1> SUFFICES ASSUME NEW k \in Network, sub[k] # Unset, sub[k] \in DOMAIN ps, NEW g \in DOMAIN ps2[sub[k]].used
             PROVE  /\ g \in Int
                    /\ ps2[sub[k]].used[g] \in Holder
                    /\ held2[ps2[sub[k]].used[g]][k] = At(sub[k], g) \/ At(sub[k], g) \in gone2
  BY DEF Kept
<1>1. CASE sub[k] # sub[n]
  <2>1. k # n /\ ps2[sub[k]] = ps[sub[k]]
    BY <1>1
  <2> DEFINE y == ps[sub[k]].used[g]
  <2>2. g \in Int /\ y \in Holder /\ (held[y][k] = At(sub[k], g) \/ At(sub[k], g) \in gone)
    BY <2>1 DEF Kept
  <2> QED BY <2>1, <2>2
<1>2. CASE sub[k] = sub[n] /\ g = h
  BY <1>2 DEF Apart, Put
<1>3. CASE sub[k] = sub[n] /\ g # h
  <2>1. k = n
    BY <1>3 DEF Apart
  <2>2. g \in DOMAIN ps[sub[n]].used /\ ps2[sub[n]].used[g] = ps[sub[n]].used[g]
    BY <1>3 DEF Put
  <2> DEFINE y == ps[sub[n]].used[g]
  <2>3. g \in Int /\ y \in Holder /\ (held[y][n] = At(sub[n], g) \/ At(sub[n], g) \in gone)
    BY <2>2 DEF Kept
  <2> QED BY <2>1, <2>2, <2>3
<1> QED BY <1>1, <1>2, <1>3

\* An address is released by the one who has it.
LEMMA ReleaseKept ==
  ASSUME NEW sub, NEW ps, NEW held, NEW gone, Apart(sub, ps), Kept(sub, ps, held, gone),
         NEW x \in Holder, NEW n \in Network, sub[n] # Unset,
         NEW held2, \A y \in Holder, m \in Network : y # x \/ m # n => held2[y][m] = held[y][m]
  PROVE  Kept(sub, ReleaseIP(ps, sub[n], held[x][n]), held2, gone)
<1> DEFINE a == held[x][n]
           ps2 == ReleaseIP(ps, sub[n], a)
<1>1. /\ DOMAIN ps2 = DOMAIN ps
      /\ \A r \in DOMAIN ps :
           /\ ps2[r] = [used |-> ps2[r].used, next |-> ps[r].next]
           /\ r # sub[n] => ps2[r].used = ps[r].used
           /\ r = sub[n] => ps2[r].used = IF a.sub = sub[n] /\ a.host \in DOMAIN ps[r].used
                                            THEN Drop(ps[r].used, a.host) ELSE ps[r].used
  BY ReleaseIPResult DEF Apart
<1> HIDE DEF ps2
<1> SUFFICES ASSUME NEW k \in Network, sub[k] # Unset, sub[k] \in DOMAIN ps, NEW g \in DOMAIN ps2[sub[k]].used
             PROVE  /\ g \in Int
                    /\ ps2[sub[k]].used[g] \in Holder
                    /\ held2[ps2[sub[k]].used[g]][k] = At(sub[k], g) \/ At(sub[k], g) \in gone
  BY <1>1 DEF Kept, ps2
<1>2. g \in DOMAIN ps[sub[k]].used /\ ps2[sub[k]].used[g] = ps[sub[k]].used[g]
  <2>1. CASE sub[k] # sub[n]
    BY <1>1, <2>1
  <2>2. CASE sub[k] = sub[n]
    <3>1. ps2[sub[k]].used \in {ps[sub[k]].used, Drop(ps[sub[k]].used, a.host)}
      BY <1>1, <2>2
    <3> QED BY <3>1 DEF Drop
  <2> QED BY <2>1, <2>2
<1> DEFINE y == ps[sub[k]].used[g]
<1>3. g \in Int /\ y \in Holder /\ (held[y][k] = At(sub[k], g) \/ At(sub[k], g) \in gone)
  BY <1>2 DEF Kept
<1>4. held[y][k] = At(sub[k], g) => ~(y = x /\ k = n)
  <2> SUFFICES ASSUME y = x, k = n, held[y][k] = At(sub[k], g) PROVE FALSE
    OBVIOUS
  <2>1. a.sub = sub[n] /\ a.host = g
    BY DEF At
  <2>2. ps2[sub[n]].used = Drop(ps[sub[n]].used, g)
    BY <1>1, <1>2, <2>1
  <2> QED BY <2>2 DEF Drop
<1> QED BY <1>2, <1>3, <1>4

\* One round of a loop that serves.
LEMMA ServeKept ==
  ASSUME AllocTypeOK, NEW x \in Holder, NEW start, NEW n \in Network, NEW st,
         Underway(x, start, st.pools, st.got), Kept(subnet, st.pools, With(x, st.got), st.lost)
  PROVE  /\ Kept(subnet, Serve(st, n, x).pools, With(x, Serve(st, n, x).got), Serve(st, n, x).lost)
         /\ \A m \in Network : m # n => Serve(st, n, x).got[m] = st.got[m]
         /\ st.lost \subseteq Serve(st, n, x).lost
<1> DEFINE s == subnet[n]
           h == IF st.ok /\ Allocated(n) /\ s \in DOMAIN st.pools THEN Find(st.pools[s], x) ELSE Unset
           ps2 == [st.pools EXCEPT ![s] = Take(st.pools[s], h, x)]
           got2 == [st.got EXCEPT ![n] = At(s, h)]
           gone2 == st.lost \cup Real({st.got[n]})
<1>1. CASE h = Unset
  <2>1. Serve(st, n, x) = [st EXCEPT !.ok = FALSE]
    BY <1>1 DEF Serve
  <2>2. Serve(st, n, x).pools = st.pools /\ Serve(st, n, x).got = st.got /\ Serve(st, n, x).lost = st.lost
    BY <2>1
  <2> QED BY <2>2
<1>2. CASE h # Unset
  <2>1. Serve(st, n, x).pools = ps2 /\ Serve(st, n, x).got = got2 /\ Serve(st, n, x).lost = gone2
    BY <1>2 DEF Serve
  <2>2. s # Unset /\ s \in DOMAIN st.pools /\ h = Find(st.pools[s], x)
    BY <1>2 DEF Allocated
  <2>3. st.pools[s] = [used |-> st.pools[s].used, next |-> st.pools[s].next] /\ st.pools[s].next \in Int
        /\ Apart(subnet, st.pools)
    BY <2>2 DEF Underway, Sound, Apart
  <2>4. h \in Int
    BY <1>2, <2>2, <2>3, FindIsFree
  <2>5. \A g \in Int : At(s, g) # Unset /\ At(s, g) # NoVIP
    BY <2>2, AddressIsSet DEF AllocTypeOK
  <2>6. DOMAIN ps2 = DOMAIN st.pools /\ (\A r \in DOMAIN st.pools : r # s => ps2[r] = st.pools[r])
        /\ ps2[s].used = Put(st.pools[s].used, h, x)
    BY <2>2, <2>3, <2>4, TakeUsed
  <2>7. got2[n] = At(s, h) /\ (\A m \in Network : m # n => got2[m] = st.got[m])
    BY DEF Underway
  <2>8. st.lost \subseteq gone2 /\ (st.got[n] \notin {Unset, NoVIP} => st.got[n] \in gone2)
    BY DEF Real
  <2> HIDE DEF h, ps2, got2, gone2
  <2> DEFINE held1 == With(x, st.got)
             held2 == With(x, got2)
  <2>9. held2[x][n] = At(s, h)
    BY <2>4, <2>5, <2>7 DEF With
  <2>10. \A y \in Holder, m \in Network : y # x \/ m # n => held2[y][m] = held1[y][m]
    BY <2>7 DEF With
  <2>11. \A g \in Int : held1[x][n] = At(s, g) => At(s, g) \in gone2
    BY <2>5, <2>8 DEF With
  <2>12. Kept(subnet, st.pools, held1, st.lost)
    OBVIOUS
  <2> HIDE DEF held1, held2
  <2>13. Kept(subnet, ps2, held2, gone2)
    BY <2>2, <2>3, <2>4, <2>6, <2>8, <2>9, <2>10, <2>11, <2>12, TakeKept
  <2> QED BY <2>1, <2>7, <2>8, <2>13 DEF held2
<1> QED BY <1>1, <1>2

\* One round of a loop that releases.
LEMMA ReleaseOnceKept ==
  ASSUME AllocTypeOK, NEW x \in Holder, NEW start, NEW n \in Network, NEW st,
         Underway(x, start, st.pools, st.got), Kept(subnet, st.pools, With(x, st.got), lost)
  PROVE  /\ Kept(subnet, Release(st, n).pools, With(x, Release(st, n).got), lost)
         /\ \A m \in Network : Release(st, n).got[m] \in {st.got[m], Unset}
         /\ Allocated(n) => Release(st, n).got[n] = Unset
<1> DEFINE got2 == [st.got EXCEPT ![n] = Unset]
           held1 == With(x, st.got)
           held2 == With(x, got2)
<1>1. CASE ~(Allocated(n) /\ st.got[n] # Unset)
  BY <1>1 DEF Release
<1>2. got2[n] = Unset /\ \A m \in Network : m # n => got2[m] = st.got[m]
  BY DEF Underway
<1>3. CASE Allocated(n) /\ st.got[n] = NoVIP /\ st.got[n] # Unset
  <2>1. Release(st, n).pools = st.pools /\ Release(st, n).got = got2
    BY <1>3 DEF Release
  <2> HIDE DEF got2
  <2>2. \A y \in Holder, m \in Network : held2[y][m] = held1[y][m]
    BY <1>2, <1>3 DEF With
  <2>3. Kept(subnet, st.pools, held1, lost)
    OBVIOUS
  <2> HIDE DEF held1, held2
  <2>4. Kept(subnet, st.pools, held2, lost)
    BY <2>2, <2>3 DEF Kept
  <2> QED BY <1>2, <1>3, <2>1, <2>4 DEF held2
<1>4. CASE Allocated(n) /\ st.got[n] # NoVIP /\ st.got[n] # Unset
  <2> DEFINE ps2 == ReleaseIP(st.pools, subnet[n], st.got[n])
  <2>1. Release(st, n).pools = ps2 /\ Release(st, n).got = got2
    BY <1>4 DEF Release
  <2> HIDE DEF got2
  <2>2. held1[x][n] = st.got[n]
    BY <1>4 DEF With
  <2>3. \A y \in Holder, m \in Network : y # x \/ m # n => held2[y][m] = held1[y][m]
    BY <1>2 DEF With
  <2>4. Kept(subnet, st.pools, held1, lost)
    OBVIOUS
  <2> HIDE DEF held1, held2
  <2>5. Kept(subnet, ps2, held2, lost)
    BY <1>4, <2>2, <2>3, <2>4, ReleaseKept DEF Allocated, Underway, Sound
  <2> QED BY <1>2, <1>4, <2>1, <2>5 DEF held2
<1> QED BY <1>1, <1>3, <1>4

\* The loop that serves: what it replaces is recorded, and it stays on its networks.
LEMMA ServedKept ==
  ASSUME AllocTypeOK, NEW x \in Holder, NEW nets \in Seq(Network), NEW got, Underway(x, got, pools, got),
         Kept(subnet, pools, With(x, got), lost)
  PROVE  LET st == Served(x, nets, got)[Len(nets)]
         IN  /\ Kept(subnet, st.pools, With(x, st.got), st.lost)
             /\ \A m \in Network : st.got[m] = got[m] \/ \E j \in DOMAIN nets : nets[j] = m
             /\ lost \subseteq st.lost
<1> DEFINE f == Served(x, nets, got)
           first == [ok |-> TRUE, pools |-> pools, got |-> got, lost |-> lost]
           Good(i) == /\ Underway(x, got, f[i].pools, f[i].got)
                      /\ Kept(subnet, f[i].pools, With(x, f[i].got), f[i].lost)
                      /\ \A m \in Network : f[i].got[m] = got[m] \/ \E j \in DOMAIN nets : nets[j] = m
                      /\ lost \subseteq f[i].lost
           Bad == {i \in 0..Len(nets) : ~Good(i)}
<1>1. Len(nets) \in Nat /\ DOMAIN nets = 1..Len(nets) /\ \A i \in 1..Len(nets) : nets[i] \in Network
  OBVIOUS
<1>2. \A i \in 0..Len(nets) : f[i] = IF i = 0 THEN first ELSE Serve(f[i - 1], nets[i], x)
  <2>1. f = [i \in 0..Len(nets) |-> IF i = 0 THEN first ELSE Serve(f[i - 1], nets[i], x)]
    BY <1>1, ServedRounds
  <2> HIDE DEF f, first
  <2> QED BY <2>1
<1>3. first.pools = pools /\ first.got = got /\ first.lost = lost
  OBVIOUS
<1> HIDE DEF f, first
<1>4. Good(0)
  <2>1. f[0] = first
    BY <1>1, <1>2
  <2> QED BY <1>3, <2>1
<1>5. ASSUME NEW i \in 1..Len(nets), Good(i - 1) PROVE Good(i)
  <2>1. f[i] = Serve(f[i - 1], nets[i], x) /\ nets[i] \in Network /\ i \in DOMAIN nets
    BY <1>1, <1>2
  <2>2. Underway(x, got, f[i].pools, f[i].got)
    <3> DEFINE st == f[i - 1]
    <3>1. Underway(x, got, st.pools, st.got)
      BY <1>5
    <3> HIDE DEF st, Good
    <3>2. Underway(x, got, Serve(st, nets[i], x).pools, Serve(st, nets[i], x).got)
      BY <2>1, <3>1, ServeKeeps
    <3> QED BY <2>1, <3>2 DEF st
  <2>3. Kept(subnet, f[i].pools, With(x, f[i].got), f[i].lost)
        /\ (\A m \in Network : m # nets[i] => f[i].got[m] = f[i - 1].got[m])
        /\ f[i - 1].lost \subseteq f[i].lost
    <3> DEFINE st == f[i - 1]
    <3>1. Underway(x, got, st.pools, st.got) /\ Kept(subnet, st.pools, With(x, st.got), st.lost)
      BY <1>5
    <3> HIDE DEF st, Good
    <3>2. /\ Kept(subnet, Serve(st, nets[i], x).pools, With(x, Serve(st, nets[i], x).got), Serve(st, nets[i], x).lost)
          /\ \A m \in Network : m # nets[i] => Serve(st, nets[i], x).got[m] = st.got[m]
          /\ st.lost \subseteq Serve(st, nets[i], x).lost
      BY <2>1, <3>1, ServeKept
    <3> QED BY <2>1, <3>2 DEF st
  <2> QED BY <1>5, <2>1, <2>2, <2>3
<1> HIDE DEF Good
<1>6. Bad = {}
  <2> SUFFICES ASSUME Bad # {} PROVE FALSE
    OBVIOUS
  <2>1. Bad \subseteq Nat
    OBVIOUS
  <2>2. PICK i \in Bad : \A j \in Bad : i <= j
    <3> HIDE DEF Bad
    <3> QED BY <2>1, LeastNumber
  <2>3. i \in 0..Len(nets) /\ ~Good(i)
    OBVIOUS
  <2>4. i \in 1..Len(nets) /\ i - 1 \in 0..Len(nets) /\ ~(i <= i - 1)
    BY <1>1, <1>4, <2>3
  <2>5. Good(i - 1)
    BY <2>2, <2>4
  <2> QED BY <1>5, <2>3, <2>4, <2>5
<1>7. Good(Len(nets))
  BY <1>1, <1>6
<1> QED BY <1>7 DEF Good, f

\* The loop that releases: on the allocated ones of its networks nothing is left.
LEMMA ReleasedKept ==
  ASSUME AllocTypeOK, NEW x \in Holder, NEW nets \in Seq(Network), NEW got, Underway(x, got, pools, got),
         Kept(subnet, pools, With(x, got), lost)
  PROVE  LET st == Released(nets, got)[Len(nets)]
         IN  /\ Kept(subnet, st.pools, With(x, st.got), lost)
             /\ \A m \in Network : st.got[m] \in {got[m], Unset}
             /\ \A j \in DOMAIN nets : Allocated(nets[j]) => st.got[nets[j]] = Unset
<1> DEFINE f == Released(nets, got)
           first == [pools |-> pools, got |-> got]
           Good(i) == /\ Underway(x, got, f[i].pools, f[i].got)
                      /\ Kept(subnet, f[i].pools, With(x, f[i].got), lost)
                      /\ \A m \in Network : f[i].got[m] \in {got[m], Unset}
                      /\ \A j \in 1..i : Allocated(nets[j]) => f[i].got[nets[j]] = Unset
           Bad == {i \in 0..Len(nets) : ~Good(i)}
<1>1. Len(nets) \in Nat /\ DOMAIN nets = 1..Len(nets) /\ \A i \in 1..Len(nets) : nets[i] \in Network
  OBVIOUS
<1>2. \A i \in 0..Len(nets) : f[i] = IF i = 0 THEN first ELSE Release(f[i - 1], nets[i])
  <2>1. f = [i \in 0..Len(nets) |-> IF i = 0 THEN first ELSE Release(f[i - 1], nets[i])]
    BY <1>1, ReleasedRounds
  <2> HIDE DEF f, first
  <2> QED BY <2>1
<1>3. first.pools = pools /\ first.got = got
  OBVIOUS
<1> HIDE DEF f, first
<1>4. Good(0)
  <2>1. f[0] = first
    BY <1>1, <1>2
  <2> QED BY <1>3, <2>1
<1>5. ASSUME NEW i \in 1..Len(nets), Good(i - 1) PROVE Good(i)
  <2>1. f[i] = Release(f[i - 1], nets[i]) /\ nets[i] \in Network
    BY <1>1, <1>2
  <2>2. Underway(x, got, f[i].pools, f[i].got)
    BY <1>5, <2>1, ReleaseKeeps
  <2>3. Kept(subnet, f[i].pools, With(x, f[i].got), lost)
        /\ (\A m \in Network : f[i].got[m] \in {f[i - 1].got[m], Unset})
        /\ (Allocated(nets[i]) => f[i].got[nets[i]] = Unset)
    <3> DEFINE st == f[i - 1]
    <3>1. Underway(x, got, st.pools, st.got) /\ Kept(subnet, st.pools, With(x, st.got), lost)
      BY <1>5
    <3> HIDE DEF st, Good
    <3> DEFINE n == nets[i]
    <3>2. n \in Network
      BY <2>1
    <3> HIDE DEF n
    <3>3. /\ Kept(subnet, Release(st, n).pools, With(x, Release(st, n).got), lost)
          /\ \A m \in Network : Release(st, n).got[m] \in {st.got[m], Unset}
          /\ Allocated(n) => Release(st, n).got[n] = Unset
      BY <3>1, <3>2, ReleaseOnceKept
    <3> QED BY <2>1, <3>3 DEF st, n
  <2>4. \A m \in Network : f[i].got[m] \in {got[m], Unset}
    BY <1>5, <2>3
  <2>5. ASSUME NEW j \in 1..i, Allocated(nets[j]) PROVE f[i].got[nets[j]] = Unset
    <3>1. nets[j] \in Network /\ (j = i \/ j \in 1..(i - 1))
      BY <1>1
    <3>2. CASE j = i
      BY <2>3, <2>5, <3>1, <3>2
    <3>3. CASE j \in 1..(i - 1)
      BY <1>5, <2>3, <2>5, <3>1, <3>3
    <3> QED BY <3>1, <3>2, <3>3
  <2> QED BY <2>2, <2>3, <2>4, <2>5
<1> HIDE DEF Good
<1>6. Bad = {}
  <2> SUFFICES ASSUME Bad # {} PROVE FALSE
    OBVIOUS
  <2>1. Bad \subseteq Nat
    OBVIOUS
  <2>2. PICK i \in Bad : \A j \in Bad : i <= j
    <3> HIDE DEF Bad
    <3> QED BY <2>1, LeastNumber
  <2>3. i \in 0..Len(nets) /\ ~Good(i)
    OBVIOUS
  <2>4. i \in 1..Len(nets) /\ i - 1 \in 0..Len(nets) /\ ~(i <= i - 1)
    BY <1>1, <1>4, <2>3
  <2>5. Good(i - 1)
    BY <2>2, <2>4
  <2> QED BY <1>5, <2>3, <2>4, <2>5
<1>7. Good(Len(nets))
  BY <1>1, <1>6
<1> QED BY <1>1, <1>7 DEF Good, f

\* What everyone holds after a call for a service.
LEMMA ServiceHoldings ==
  ASSUME AllocInv, NEW s \in Service, NEW new, vip' = [vip EXCEPT ![s] = new], addr' = addr, attached' = attached
  PROVE  /\ \A m \in Network : Holdings'[s][m] = IF new[m] = NoVIP THEN Unset ELSE new[m]
         /\ \A y \in Holder, m \in Network : y # s => Holdings'[y][m] = Holdings[y][m]
<1>1. vip'[s] = new /\ \A r \in Service : r # s => vip'[r] = vip[r]
  BY DEF AllocInv, AllocTypeOK
<1>2. \A m \in Network : Held(s, m)' = IF new[m] = NoVIP THEN Unset ELSE new[m]
  BY <1>1, AllocatorAssumptions DEF Held
<1>3. ASSUME NEW y \in Holder, y # s, NEW m \in Network PROVE Held(y, m)' = Held(y, m)
  BY <1>1, <1>3 DEF Held, Holder
<1> QED BY <1>2, <1>3 DEF Holdings, Holder

\* What tasks and services have before a call.
LEMMA WithSelf ==
  ASSUME AllocInv
  PROVE  /\ \A t \in Task : /\ With(t, addr[t]) = Holdings /\ t \in Holder
                            /\ \A n \in Network : addr[t][n] # NoVIP
         /\ \A s \in Service : With(s, vip[s]) = Holdings /\ s \in Holder
<1>1. \A t \in Task, n \in Network : addr[t][n] # NoVIP
  BY AddressIsSet, AllocatorAssumptions DEF AllocInv, AllocTypeOK
<1>2. \A t \in Task : With(t, addr[t]) = Holdings
  BY <1>1, AllocatorAssumptions DEF With, Holdings, Held, Holder
<1>3. \A s \in Service : With(s, vip[s]) = Holdings
  BY AllocatorAssumptions DEF With, Holdings, Held, Holder
<1> QED BY <1>1, <1>2, <1>3 DEF Holder

\* What the loops leave behind, in the terms of KeptInv.
LEMMA LoopsKept ==
  ASSUME AllocInv, KeptInv
  PROVE  /\ \A t \in Task :
              /\ Kept(subnet, ServeTask(t).pools, With(t, ServeTask(t).got), ServeTask(t).lost)
              /\ Kept(subnet, ReleaseTask(t).pools, With(t, ReleaseTask(t).got), lost)
         /\ \A s \in Service :
              /\ Kept(subnet, ServeService(s).pools, With(s, ServeService(s).got), ServeService(s).lost)
              /\ \A m \in Network : \/ ServeService(s).got[m] = vip[s][m]
                                    \/ \E j \in DOMAIN ServiceNets[s] : ServiceNets[s][j] = m
              /\ Kept(subnet, ReleaseService(s).pools, With(s, ReleaseService(s).got), lost)
              /\ \A m \in Network : ReleaseService(s).got[m] \in {vip[s][m], Unset}
              /\ \A j \in DOMAIN ServiceNets[s] :
                   Allocated(ServiceNets[s][j]) => ReleaseService(s).got[ServiceNets[s][j]] = Unset
<1>1. ASSUME NEW t \in Task
      PROVE  /\ Kept(subnet, ServeTask(t).pools, With(t, ServeTask(t).got), ServeTask(t).lost)
             /\ Kept(subnet, ReleaseTask(t).pools, With(t, ReleaseTask(t).got), lost)
  <2>1. t \in Holder /\ NetsOf[t] \in Seq(Network) /\ AllocTypeOK
    BY AllocatorAssumptions DEF Holder, AllocInv
  <2>2. Underway(t, addr[t], pools, addr[t])
    BY TaskUnderway
  <2>3. Kept(subnet, pools, With(t, addr[t]), lost)
    BY WithSelf DEF KeptInv
  <2> QED BY <2>1, <2>2, <2>3, ServedKept, ReleasedKept DEF ServeTask, ReleaseTask
<1>2. ASSUME NEW s \in Service
      PROVE  /\ Kept(subnet, ServeService(s).pools, With(s, ServeService(s).got), ServeService(s).lost)
             /\ \A m \in Network : \/ ServeService(s).got[m] = vip[s][m]
                                   \/ \E j \in DOMAIN ServiceNets[s] : ServiceNets[s][j] = m
             /\ Kept(subnet, ReleaseService(s).pools, With(s, ReleaseService(s).got), lost)
             /\ \A m \in Network : ReleaseService(s).got[m] \in {vip[s][m], Unset}
             /\ \A j \in DOMAIN ServiceNets[s] :
                  Allocated(ServiceNets[s][j]) => ReleaseService(s).got[ServiceNets[s][j]] = Unset
  <2>1. s \in Holder /\ ServiceNets[s] \in Seq(Network) /\ AllocTypeOK
    BY AllocatorAssumptions DEF Holder, AllocInv
  <2>2. Underway(s, vip[s], pools, vip[s])
    BY ServiceUnderway
  <2>3. Kept(subnet, pools, With(s, vip[s]), lost)
    BY WithSelf DEF KeptInv
  <2>4. /\ Kept(subnet, ServeService(s).pools, With(s, ServeService(s).got), ServeService(s).lost)
        /\ \A m \in Network : \/ ServeService(s).got[m] = vip[s][m]
                              \/ \E j \in DOMAIN ServiceNets[s] : ServiceNets[s][j] = m
    BY <2>1, <2>2, <2>3, ServedKept DEF ServeService
  <2>5. /\ Kept(subnet, ReleaseService(s).pools, With(s, ReleaseService(s).got), lost)
        /\ \A m \in Network : ReleaseService(s).got[m] \in {vip[s][m], Unset}
        /\ \A j \in DOMAIN ServiceNets[s] :
             Allocated(ServiceNets[s][j]) => ReleaseService(s).got[ServiceNets[s][j]] = Unset
    BY <2>1, <2>2, <2>3, ReleasedKept DEF ReleaseService
  <2> QED BY <2>4, <2>5
<1> QED BY <1>1, <1>2

\* Calls for a task, whether they fail or not.
LEMMA TasksKept ==
  ASSUME AllocInv, KeptInv, NEW t \in Task, AllocateTask(t) \/ DeallocateTask(t)
  PROVE  KeptInv'
<1>1. PICK got, gone :
        /\ Kept(subnet, pools', With(t, got), gone) /\ lost' = gone
        /\ \A m \in Network : got[m] \in Address \cup {Unset, addr[t][m]}
        /\ addr' = [addr EXCEPT ![t] = got] /\ subnet' = subnet /\ vip' = vip /\ attached' = attached
  <2>1. CASE AllocateTask(t)
    BY <2>1, LoopsKept, LoopsKeep DEF AllocateTask, Underway
  <2>2. CASE DeallocateTask(t)
    BY <2>2, LoopsKept, LoopsKeep DEF DeallocateTask, Underway
  <2> QED BY <2>1, <2>2
<1>2. \A m \in Network : got[m] # NoVIP
  <2>1. NoVIP \notin Address /\ NoVIP # Unset /\ \A m \in Network : addr[t][m] # NoVIP
    BY AddressIsSet, WithSelf, AllocatorAssumptions DEF AllocInv
  <2> QED BY <1>1, <2>1
<1>3. Holdings' = With(t, got)
  BY <1>1, <1>2, TaskHoldings
<1>4. OnOwnNetworks'
  BY <1>1 DEF KeptInv, OnOwnNetworks
<1> QED BY <1>1, <1>3, <1>4 DEF KeptInv

\* AllocateService: what its ports replace is recorded.
LEMMA AllocateServiceKept ==
  ASSUME AllocInv, KeptInv, NEW s \in Service, AllocateService(s)
  PROVE  KeptInv'
<1> DEFINE st == ServeService(s)
<1>1. PICK I \in IF st.ok /\ s \in Published THEN IngressChoice ELSE {{}} :
        /\ vip' = [vip EXCEPT ![s] = [m \in Network |-> IF m \in I THEN NoVIP ELSE st.got[m]]]
        /\ lost' = st.lost \cup Real({st.got[m] : m \in I})
  BY DEF AllocateService
<1>2. pools' = st.pools /\ subnet' = subnet /\ addr' = addr /\ attached' = attached
  BY DEF AllocateService
<1>3. Kept(subnet, st.pools, With(s, st.got), st.lost)
      /\ \A m \in Network : st.got[m] = vip[s][m] \/ \E j \in DOMAIN ServiceNets[s] : ServiceNets[s][j] = m
  BY LoopsKept
<1> HIDE DEF st
<1> DEFINE new == [m \in Network |-> IF m \in I THEN NoVIP ELSE st.got[m]]
           held1 == With(s, st.got)
           held2 == Holdings'
<1>4. vip' = [vip EXCEPT ![s] = new] /\ \A m \in Network : new[m] = IF m \in I THEN NoVIP ELSE st.got[m]
  BY <1>1
<1> HIDE DEF new
<1>5. /\ \A m \in Network : held2[s][m] = IF new[m] = NoVIP THEN Unset ELSE new[m]
      /\ \A y \in Holder, m \in Network : y # s => held2[y][m] = Holdings[y][m]
  BY <1>2, <1>4, ServiceHoldings
<1>6. /\ \A m \in Network : held1[s][m] = IF st.got[m] = NoVIP THEN Unset ELSE st.got[m]
      /\ \A y \in Holder, m \in Network : y # s => held1[y][m] = Holdings[y][m]
  BY DEF With, Holder
<1>7. st.lost \subseteq lost' /\ \A m \in Network : m \in I /\ held1[s][m] # Unset => held1[s][m] \in lost'
  BY <1>1, <1>6 DEF Real
<1>8. \A y \in Holder, m \in Network : held1[y][m] # Unset => held2[y][m] = held1[y][m] \/ held1[y][m] \in lost'
  BY <1>4, <1>5, <1>6, <1>7
<1>9. \A m \in Network, g \in Int : subnet[m] # Unset => At(subnet[m], g) # Unset
  BY AddressIsSet DEF AllocInv, AllocTypeOK
<1> HIDE DEF held1, held2
<1>10. Kept(subnet, st.pools, held2, lost')
  <2>1. Kept(subnet, st.pools, held1, st.lost)
    BY <1>3 DEF held1
  <2> QED BY <1>7, <1>8, <1>9, <2>1 DEF Kept
<1>11. vip'[s] = new /\ \A r \in Service : r # s => vip'[r] = vip[r]
  BY <1>4 DEF AllocInv, AllocTypeOK
<1>12. OnOwnNetworks'
  <2>1. \A m \in Network : new[m] \notin {Unset, NoVIP} => \E j \in DOMAIN ServiceNets[s] : ServiceNets[s][j] = m
    BY <1>3, <1>4 DEF KeptInv, OnOwnNetworks
  <2> QED BY <1>11, <2>1 DEF KeptInv, OnOwnNetworks
<1> QED BY <1>2, <1>10, <1>12 DEF KeptInv, held2

\* DeallocateService: what it forgets on an ingress network has been released.
LEMMA DeallocateServiceKept ==
  ASSUME AllocInv, KeptInv, NEW s \in Service, DeallocateService(s)
  PROVE  KeptInv'
<1> DEFINE st == ReleaseService(s)
<1>1. PICK I \in IngressChoice :
        vip' = [vip EXCEPT ![s] = [m \in Network |-> IF m \in I THEN Unset ELSE st.got[m]]]
  BY DEF DeallocateService
<1>2. pools' = st.pools /\ subnet' = subnet /\ addr' = addr /\ attached' = attached /\ lost' = lost
  BY DEF DeallocateService
<1>3. /\ Kept(subnet, st.pools, With(s, st.got), lost)
      /\ \A m \in Network : st.got[m] \in {vip[s][m], Unset}
      /\ \A j \in DOMAIN ServiceNets[s] : Allocated(ServiceNets[s][j]) => st.got[ServiceNets[s][j]] = Unset
  BY LoopsKept
<1>4. \A m \in Network : Allocated(m) => st.got[m] \in {Unset, NoVIP}
  BY <1>3 DEF KeptInv, OnOwnNetworks
<1>5. \A m \in Network : m \in I => Allocated(m)
  BY DEF IngressChoice
<1> HIDE DEF st
<1> DEFINE new == [m \in Network |-> IF m \in I THEN Unset ELSE st.got[m]]
           held1 == With(s, st.got)
           held2 == Holdings'
<1>6. vip' = [vip EXCEPT ![s] = new] /\ \A m \in Network : new[m] = IF m \in I THEN Unset ELSE st.got[m]
  BY <1>1
<1> HIDE DEF new
<1>7. /\ \A m \in Network : held2[s][m] = IF new[m] = NoVIP THEN Unset ELSE new[m]
      /\ \A y \in Holder, m \in Network : y # s => held2[y][m] = Holdings[y][m]
  BY <1>2, <1>6, ServiceHoldings
<1>8. /\ \A m \in Network : held1[s][m] = IF st.got[m] = NoVIP THEN Unset ELSE st.got[m]
      /\ \A y \in Holder, m \in Network : y # s => held1[y][m] = Holdings[y][m]
  BY DEF With, Holder
<1>9. \A y \in Holder, m \in Network : held2[y][m] = held1[y][m]
  BY <1>4, <1>5, <1>6, <1>7, <1>8
<1> HIDE DEF held1, held2
<1>10. Kept(subnet, st.pools, held2, lost)
  <2>1. Kept(subnet, st.pools, held1, lost)
    BY <1>3 DEF held1
  <2> QED BY <1>9, <2>1 DEF Kept
<1>11. vip'[s] = new /\ \A r \in Service : r # s => vip'[r] = vip[r]
  BY <1>6 DEF AllocInv, AllocTypeOK
<1>12. OnOwnNetworks'
  <2>1. \A m \in Network : new[m] \notin {Unset, NoVIP} => \E j \in DOMAIN ServiceNets[s] : ServiceNets[s][j] = m
    BY <1>3, <1>6 DEF KeptInv, OnOwnNetworks
  <2> QED BY <1>11, <2>1 DEF KeptInv, OnOwnNetworks
<1> QED BY <1>2, <1>10, <1>12 DEF KeptInv, held2

LEMMA NewPoolEmpty == DOMAIN NewPool.used = {}
<1>1. NewPool.used = <<>>
  BY DEF NewPool
<1> QED BY <1>1

\* Networks come with an empty pool and go with their pool.
LEMMA NetworksKept ==
  ASSUME FewNetworks, AllocInv, KeptInv, NEW n \in Network, Allocate(n) \/ AllocateFail(n) \/ Deallocate(n)
  PROVE  KeptInv'
<1>1. CASE Allocate(n)
  <2> DEFINE s == GenerateSubnet(index + 1)
  <2>1. index < MaxIndex /\ pools' = CreatePool(s) /\ subnet' = [subnet EXCEPT ![n] = s]
        /\ addr' = addr /\ vip' = vip /\ attached' = attached /\ lost' = lost
    BY <1>1 DEF Allocate
  <2>2. s \notin Generated
    BY <2>1, FreshSubnet
  <2> HIDE DEF s
  <2>3. s \notin DOMAIN pools
    BY <2>2 DEF AllocInv, AllocTypeOK
  <2>4. DOMAIN pools' = DOMAIN pools \cup {s} /\ DOMAIN pools'[s].used = {}
        /\ \A r \in DOMAIN pools : pools'[r] = pools[r]
    BY <2>1, <2>3, CreatePoolResult, NewPoolEmpty
  <2>5. subnet'[n] = s /\ \A m \in Network : m # n => subnet'[m] = subnet[m]
    BY <2>1 DEF AllocInv, AllocTypeOK
  <2>6. Holdings' = Holdings /\ OnOwnNetworks'
    BY <2>1 DEF Holdings, Held, OnOwnNetworks, KeptInv
  <2>7. Kept(subnet', pools', Holdings, lost)
    BY <2>4, <2>5 DEF KeptInv, Kept
  <2> QED BY <2>1, <2>6, <2>7 DEF KeptInv
<1>2. CASE AllocateFail(n)
  <2> DEFINE s == GenerateSubnet(index + 1)
  <2>1. pools' = CreatePool(s) /\ subnet' = subnet /\ addr' = addr /\ vip' = vip /\ attached' = attached
        /\ lost' = lost
    BY <1>2 DEF AllocateFail
  <2> HIDE DEF s
  <2>2. DOMAIN pools' = DOMAIN pools \cup {s} /\ (s \notin DOMAIN pools => DOMAIN pools'[s].used = {})
        /\ \A r \in DOMAIN pools : pools'[r] = pools[r]
    BY <2>1, CreatePoolResult, NewPoolEmpty
  <2>3. Holdings' = Holdings /\ OnOwnNetworks'
    BY <2>1 DEF Holdings, Held, OnOwnNetworks, KeptInv
  <2>4. Kept(subnet, pools', Holdings, lost)
    BY <2>2 DEF KeptInv, Kept
  <2> QED BY <2>1, <2>3, <2>4 DEF KeptInv
<1>3. CASE Deallocate(n)
  <2>1. subnet[n] # Unset /\ pools' = Drop(pools, subnet[n]) /\ subnet' = [subnet EXCEPT ![n] = Unset]
        /\ addr' = addr /\ lost' = lost
        /\ vip' = [s \in Service |-> [vip[s] EXCEPT ![n] = Unset]]
        /\ attached' = [d \in Node |-> [attached[d] EXCEPT ![n] = Unset]]
    BY <1>3 DEF Deallocate, Allocated
  <2>2. subnet'[n] = Unset /\ \A m \in Network : m # n => subnet'[m] = subnet[m]
    BY <2>1 DEF AllocInv, AllocTypeOK
  <2>3. \A s \in Service, m \in Network : vip'[s][m] = IF m = n THEN Unset ELSE vip[s][m]
    BY <2>1 DEF AllocInv, AllocTypeOK
  <2>4. \A d \in Node, m \in Network : attached'[d][m] = IF m = n THEN Unset ELSE attached[d][m]
    BY <2>1 DEF AllocInv, AllocTypeOK
  <2>5. \A y \in Holder, m \in Network : m # n => Holdings'[y][m] = Holdings[y][m]
    BY <2>1, <2>3, <2>4 DEF Holdings, Held, Holder
  <2>6. DOMAIN pools' = DOMAIN pools \ {subnet[n]} /\ \A r \in DOMAIN pools' : pools'[r] = pools[r]
    BY <2>1 DEF Drop
  <2> DEFINE held2 == Holdings'
             sub2 == subnet'
             ps2 == pools'
  <2>7. Kept(sub2, ps2, held2, lost)
    <3>1. sub2[n] = Unset /\ \A m \in Network : m # n => sub2[m] = subnet[m]
      BY <2>2
    <3>2. DOMAIN ps2 = DOMAIN pools \ {subnet[n]} /\ \A r \in DOMAIN ps2 : ps2[r] = pools[r]
      BY <2>6
    <3>3. \A y \in Holder, m \in Network : m # n => held2[y][m] = Holdings[y][m]
      BY <2>5
    <3> HIDE DEF held2, sub2, ps2
    <3> QED BY <3>1, <3>2, <3>3 DEF KeptInv, Kept
  <2>8. OnOwnNetworks'
    BY <2>1, <2>3 DEF OnOwnNetworks, KeptInv
  <2> QED BY <2>1, <2>7, <2>8 DEF KeptInv
<1> QED BY <1>1, <1>2, <1>3

\* A node is attached where it was not, and gives its address back.
LEMMA AttachmentsKept ==
  ASSUME AllocInv, KeptInv, NEW d \in Node, NEW n \in Network,
         AllocateAttachment(d, n) \/ DeallocateAttachment(d, n)
  PROVE  KeptInv'
<1>1. d \in Holder /\ d \notin Service /\ d \notin Task
  BY AllocatorAssumptions DEF Holder
<1>2. subnet[n] # Unset /\ subnet' = subnet /\ addr' = addr /\ vip' = vip /\ lost' = lost
      /\ \E v : attached' = [attached EXCEPT ![d][n] = v]
  BY DEF AllocateAttachment, DeallocateAttachment, Allocated
<1>3. \A e \in Node, m \in Network : e # d \/ m # n => attached'[e][m] = attached[e][m]
  BY <1>2 DEF AllocInv, AllocTypeOK
<1> DEFINE held2 == Holdings'
           ps2 == pools'
<1>4. \A y \in Holder, m \in Network : y # d \/ m # n => held2[y][m] = Holdings[y][m]
  BY <1>2, <1>3 DEF Holdings, Held, Holder
<1>5. Holdings[d][n] = attached[d][n] /\ held2[d][n] = attached'[d][n]
  BY <1>1 DEF Holdings, Held
<1>6. Apart(subnet, pools) /\ Kept(subnet, pools, Holdings, lost)
  BY DEF AllocInv, Sound, KeptInv
<1>7. Kept(subnet, ps2, held2, lost)
  <2>1. CASE AllocateAttachment(d, n)
    <3> DEFINE s == subnet[n]
               h == NextFree(pools[s])
    <3>1. s \in DOMAIN pools /\ h # Unset /\ attached[d][n] = Unset
          /\ pools' = [pools EXCEPT ![s] = TakeIP(pools[s], h, d)]
          /\ attached' = [attached EXCEPT ![d][n] = At(s, h)]
      BY <2>1 DEF AllocateAttachment
    <3>2. h \in Int
      <4>1. Find(pools[s], d) = h
        BY <1>1 DEF Find
      <4> QED BY <1>6, <3>1, <4>1, FindIsFree DEF Apart
    <3>3. \A g \in Int : At(s, g) # Unset
      BY <1>2, AddressIsSet DEF AllocInv, AllocTypeOK
    <3> HIDE DEF h
    <3>4. DOMAIN ps2 = DOMAIN pools /\ (\A r \in DOMAIN pools : r # s => ps2[r] = pools[r])
          /\ ps2[s].used = Put(pools[s].used, h, d)
      BY <3>1 DEF TakeIP
    <3>5. held2[d][n] = At(s, h) /\ Holdings[d][n] = Unset
      BY <1>5, <3>1 DEF AllocInv, AllocTypeOK
    <3> HIDE DEF held2, ps2
    <3>6. \A g \in Int : Holdings[d][n] = At(subnet[n], g) => At(subnet[n], g) \in lost
      BY <3>3, <3>5
    <3> QED BY <1>1, <1>2, <1>4, <1>6, <3>1, <3>2, <3>4, <3>5, <3>6, TakeKept
  <2>2. CASE DeallocateAttachment(d, n)
    <3>1. ps2 = ReleaseIP(pools, subnet[n], Holdings[d][n])
      BY <1>5, <2>2 DEF DeallocateAttachment
    <3> HIDE DEF held2, ps2
    <3> QED BY <1>1, <1>2, <1>4, <1>6, <3>1, ReleaseKept
  <2> QED BY <2>1, <2>2
<1>8. OnOwnNetworks'
  BY <1>2 DEF KeptInv, OnOwnNetworks
<1> QED BY <1>2, <1>7, <1>8 DEF KeptInv

LEMMA KeptInvInit == AllocInit => KeptInv
  BY AllocatorAssumptions DEF AllocInit, KeptInv, OnOwnNetworks, Kept

LEMMA KeptInvNext == FewNetworks /\ AllocInv /\ KeptInv /\ [AllocNext]_allocVars => KeptInv'
<1>1. ASSUME KeptInv, UNCHANGED allocVars PROVE KeptInv'
  <2>1. Holdings' = Holdings
    BY <1>1 DEF Holdings, Held, allocVars
  <2>2. Kept(subnet, pools, Holdings, lost)' /\ OnOwnNetworks'
    BY <1>1, <2>1 DEF KeptInv, OnOwnNetworks, Kept, allocVars
  <2> QED BY <2>2 DEF KeptInv
<1> QED BY <1>1, NetworksKept, AttachmentsKept, TasksKept, AllocateServiceKept, DeallocateServiceKept
    DEF AllocNext

\* An address in use is one that its owner has, and will release, or one that a repeated
\* call of the owner or its published ports replaced: no other call loses one, whether
\* it fails half way, is repeated, or releases what a half-failed call has left
\* (AllocateTask, AllocateService, AllocateAttachment and their counterparts), for any
\* networks of the tasks and services, as long as no subnet is generated twice.
THEOREM LossesAreReplacements ==
  ASSUME FewNetworks
  PROVE  AllocSpec => []LostOnlyWhenReplaced
<1>1. KeptInv => LostOnlyWhenReplaced
  <2> SUFFICES ASSUME KeptInv, NEW n \in Network, Allocated(n), subnet[n] \in DOMAIN pools,
                      NEW h \in DOMAIN pools[subnet[n]].used
               PROVE  \/ Held(pools[subnet[n]].used[h], n) = At(subnet[n], h)
                      \/ At(subnet[n], h) \in lost
    BY DEF LostOnlyWhenReplaced
  <2> DEFINE x == pools[subnet[n]].used[h]
  <2>1. x \in Holder /\ (Holdings[x][n] = At(subnet[n], h) \/ At(subnet[n], h) \in lost)
    BY DEF KeptInv, Kept, Allocated
  <2> QED BY <2>1 DEF Holdings
<1>2. AllocSpec => []KeptInv
  BY AllocInvariant, KeptInvInit, KeptInvNext, PTL DEF AllocSpec
<1> QED BY <1>1, <1>2, PTL
=============================================================================
