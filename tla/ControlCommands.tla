-------------------------- MODULE ControlCommands --------------------------
(***************************************************************************)
(* The commands that change services and nodes: swarmcracker service and   *)
(* node (cmd/swarmcracker/cmd_service.go, cmd_node.go) and swarmctl        *)
(* (cmd/swarmctl/main.go).  Each is a process of its own that speaks to    *)
(* the manager's control API: it reads an object, changes its copy and     *)
(* sends the whole specification back with the version it has read, or it  *)
(* resolves a name and then removes what it has found.  Several run at     *)
(* once; each has 30 seconds, so that an answer may be lost.               *)
(*                                                                         *)
(* The manager is external: it keeps versioned objects, refuses an update  *)
(* with a version that is not the current one, gives every service a new   *)
(* ID and a unique name, and may refuse any request for its own reasons.   *)
(***************************************************************************)
EXTENDS Naturals

CONSTANTS
  Client,      \* commands that run at the same time
  SvcId,       \* service IDs, each given once
  Name,        \* service names
  Image,       \* container images
  Key,         \* environment variables
  NodeId,      \* nodes
  MaxReplicas, \* largest replica count
  MaxVersion,  \* bound: writes of the store
  Changes,     \* the changes service update is asked for
  None

\* What the flags of an update ask for: None (replicas, image) leaves the field alone.
Change == [replicas : {None} \cup 0..MaxReplicas, image : {None} \cup Image,
           add : SUBSET Key, drop : SUBSET Key, force : BOOLEAN]

NodeChange == [avail : {"active", "pause", "drain"}, role : {None}]
                \cup [avail : {None}, role : {"worker", "manager"}]

ASSUME ChangesAssumption == Changes \subseteq Change /\ MaxReplicas \in Nat \ {0}

VARIABLES
  service, \* the services: None, or the version and the specification
  used,    \* service IDs that were given
  node,    \* the nodes: None, or version, avail, role and ready
  version, \* the version of the store's last write
  client   \* the command of each client

controlVars == <<service, used, node, version, client>>

\* do: the command, arg: the service or node it is given, ch: its change or flag,
\* at: its next request, id: what arg was resolved to, read: the object it has read.
Idle == [do |-> "none", tool |-> "cracker", arg |-> None, ch |-> None, at |-> "end",
         id |-> None, read |-> None, seen |-> {}]

Init ==
  /\ service = [i \in SvcId |-> None] /\ used = {}
  /\ node = [n \in NodeId |-> [version |-> 0, avail |-> "active", role |-> "worker", ready |-> TRUE]]
  /\ version = 0
  /\ client = [c \in Client |-> Idle]

-----------------------------------------------------------------------------
\* What the commands make of what they have read.

\* service update of swarmcracker: 0 replicas is no change, also for scale.
UpdateServiceSpec(s, ch) ==
  [s EXCEPT !.replicas = IF ch.replicas \in {None, 0} THEN @ ELSE ch.replicas,
            !.image = IF ch.image = None THEN @ ELSE ch.image,
            !.env = (@ \ ch.drop) \cup ch.add,
            !.force = IF ch.force THEN @ + 1 ELSE @]

\* update and scale of swarmctl, which know neither --env-rm nor --force.  ch is what is
\* left of the flags: update never looks at the first one.
SwarmctlUpdateSpec(s, ch) ==
  [s EXCEPT !.replicas = IF ch.replicas = None THEN @ ELSE ch.replicas,
            !.image = IF ch.image = None THEN @ ELSE ch.image,
            !.env = @ \cup ch.add]

NewSpec(tool, s, ch) == IF tool = "ctl" THEN SwarmctlUpdateSpec(s, ch) ELSE UpdateServiceSpec(s, ch)

\* setNodeAvailability, promoteNode and demoteNode.
NewNode(n, ch) == [n EXCEPT !.avail = IF ch.avail = None THEN @ ELSE ch.avail,
                            !.role = IF ch.role = None THEN @ ELSE ch.role]

-----------------------------------------------------------------------------
Begin(c, do, tool, arg, ch, at) ==
  /\ client[c] = Idle
  /\ client' = [client EXCEPT ![c] = [Idle EXCEPT !.do = do, !.tool = tool, !.arg = arg,
                                                  !.ch = ch, !.at = at]]
  /\ UNCHANGED <<service, used, node, version>>

\* The command ends: its exit status is all that is left of it.
End(c) == client' = [client EXCEPT ![c] = Idle]

\* swarmctl takes an ID that it was told, swarmcracker such an ID or a name.
Arg(tool) == used \cup (IF tool = "ctl" THEN {} ELSE Name)

CreateService(c, name, image) == Begin(c, "create", "cracker", name, image, "send")
UpdateService(c, tool, arg, ch) == arg \in Arg(tool) /\ Begin(c, "update", tool, arg, ch, "get")

\* swarmctl sends what it was given, swarmcracker looks it up first.
RemoveService(c, tool, arg) ==
  /\ arg \in Arg(tool)
  /\ IF tool = "ctl"
     THEN /\ client[c] = Idle
          /\ client' = [client EXCEPT ![c] = [Idle EXCEPT !.do = "rm", !.tool = tool, !.arg = arg,
                                                          !.at = "send", !.id = arg, !.seen = used]]
          /\ UNCHANGED <<service, used, node, version>>
     ELSE Begin(c, "rm", tool, arg, None, "get")

ChangeNode(c, n, ch) == Begin(c, "node", "cracker", n, ch, "get")
RemoveNode(c, n, force) == Begin(c, "noderm", "cracker", n, force, "get")

\* A request fails, is refused or takes longer than the command has: nothing has changed.
Fails(c) ==
  /\ client[c].do # "none"
  /\ End(c)
  /\ UNCHANGED <<service, used, node, version>>

Found(c, i) ==
  client' = [client EXCEPT ![c].at = "send", ![c].id = i, ![c].read = service[i], ![c].seen = used]

\* GetService, and for swarmcracker ListServices when there is no such ID.
GetService(c) ==
  /\ client[c].do \in {"update", "rm"} /\ client[c].at = "get"
  /\ LET i == client[c].arg IN
     IF i \in SvcId /\ service[i] # None THEN Found(c, i)
     ELSE IF client[c].tool = "ctl" THEN End(c)
     ELSE client' = [client EXCEPT ![c].at = "list"]
  /\ UNCHANGED <<service, used, node, version>>

Named(name) == {i \in SvcId : service[i] # None /\ service[i].spec.name = name}

ListServices(c) ==
  /\ client[c].at = "list"
  /\ \/ \E i \in Named(client[c].arg) : Found(c, i)
     \/ Named(client[c].arg) = {} /\ End(c)
  /\ UNCHANGED <<service, used, node, version>>

\* GetNode; node rm stops here when the node is ready, unless forced.
GetNode(c) ==
  /\ client[c].do \in {"node", "noderm"} /\ client[c].at = "get"
  /\ LET n == node[client[c].arg] IN
     IF n = None \/ (client[c].do = "noderm" /\ n.ready /\ ~client[c].ch)
     THEN End(c)
     ELSE client' = [client EXCEPT ![c].at = "send", ![c].id = client[c].arg, ![c].read = n]
  /\ UNCHANGED <<service, used, node, version>>

-----------------------------------------------------------------------------
\* The request that changes the store.  Whether its answer arrives makes no difference
\* to the store: the command ends.

\* Mutant: the client asks for the version again when it sends.
SentVersion_Fresh(c) ==
  IF client[c].do = "update" THEN service[client[c].id].version ELSE node[client[c].id].version

\* The version a client sends with its update.
SentVersion(c) == client[c].read.version

\* Mutant: the client sends its argument, and the manager resolves it.
SentId_Arg(c) ==
  IF client[c].arg \in Name /\ Named(client[c].arg) # {}
  THEN CHOOSE i \in Named(client[c].arg) : TRUE ELSE client[c].id

\* The ID a client sends to remove a service.
SentId(c) == client[c].id

\* The version of the next write of the store.
Write == version < MaxVersion /\ version' = version + 1

SendCreate(c) ==
  /\ client[c].do = "create" /\ Named(client[c].arg) = {}
  /\ Write
  /\ \E i \in SvcId \ used, r \in 0..MaxReplicas, e \in SUBSET Key :
       /\ used' = used \cup {i}
       /\ service' = [service EXCEPT ![i] =
            [version |-> version', spec |-> [name |-> client[c].arg, replicas |-> r,
                                             image |-> client[c].ch, env |-> e, force |-> 0]]]
  /\ End(c)
  /\ UNCHANGED node

SendUpdate(c) ==
  /\ client[c].do = "update" /\ client[c].at = "send"
  /\ LET i == client[c].id IN
       /\ service[i] # None /\ SentVersion(c) = service[i].version
       /\ Write
       /\ service' = [service EXCEPT ![i] =
            [version |-> version', spec |-> NewSpec(client[c].tool, client[c].read.spec, client[c].ch)]]
  /\ End(c)
  /\ UNCHANGED <<used, node>>

SendRemove(c) ==
  /\ client[c].do = "rm" /\ client[c].at = "send"
  /\ service[SentId(c)] # None
  /\ Write
  /\ service' = [service EXCEPT ![SentId(c)] = None]
  /\ End(c)
  /\ UNCHANGED <<used, node>>

SendNode(c) ==
  /\ client[c].do = "node" /\ client[c].at = "send"
  /\ LET n == client[c].id IN
       /\ node[n] # None /\ SentVersion(c) = node[n].version
       /\ Write
       /\ node' = [node EXCEPT ![n] = [NewNode(client[c].read, client[c].ch) EXCEPT
                                         !.version = version', !.ready = node[n].ready]]
  /\ End(c)
  /\ UNCHANGED <<service, used>>

\* The manager refuses to remove a manager, and a node that is ready unless forced.
SendNodeRemove(c) ==
  /\ client[c].do = "noderm" /\ client[c].at = "send"
  /\ LET n == client[c].id IN
       /\ node[n] # None /\ node[n].role = "worker" /\ (node[n].ready => client[c].ch)
       /\ Write
       /\ node' = [node EXCEPT ![n] = None]
  /\ End(c)
  /\ UNCHANGED <<service, used>>

\* A node goes down and comes back.
Heartbeat(n) ==
  /\ node[n] # None
  /\ Write
  /\ node' = [node EXCEPT ![n].ready = ~@, ![n].version = version']
  /\ UNCHANGED <<service, used, client>>

-----------------------------------------------------------------------------
Start(c) ==
  \/ \E name \in Name, image \in Image : CreateService(c, name, image)
  \/ \E tool \in {"cracker", "ctl"}, arg \in SvcId \cup Name :
       RemoveService(c, tool, arg) \/ \E ch \in Changes : UpdateService(c, tool, arg, ch)
  \/ \E n \in NodeId : (\E ch \in NodeChange : ChangeNode(c, n, ch))
                       \/ (\E force \in BOOLEAN : RemoveNode(c, n, force))

Request(c) ==
  \/ GetService(c) \/ ListServices(c) \/ GetNode(c)
  \/ SendCreate(c) \/ SendUpdate(c) \/ SendRemove(c) \/ SendNode(c) \/ SendNodeRemove(c)

Next ==
  \/ \E c \in Client : Start(c) \/ Request(c) \/ Fails(c)
  \/ \E n \in NodeId : Heartbeat(n)

Spec == Init /\ [][Next]_controlVars

-----------------------------------------------------------------------------
\* No update is lost: what an accepted update leaves in the store is what the command has
\* parsed from its flags, done to the service or node as it was at that moment, although
\* the command sends back everything it has read.  Flags that the parsing itself drops are
\* not in it: the first one of swarmctl update, and 0 replicas of swarmcracker.
UpdatesMerge ==
  [][\A c \in Client :
       /\ SendUpdate(c) => LET i == client[c].id IN
            service'[i].spec = NewSpec(client[c].tool, service[i].spec, client[c].ch)
       /\ SendNode(c) => LET n == client[c].id IN
            node'[n] = [NewNode(node[n], client[c].ch) EXCEPT !.version = version']]_controlVars

\* A service that is removed existed when the command that removes it was told which one
\* its argument means: one that has taken over the name since then is spared.
RemoveSparesNewer ==
  [][\A c \in Client : SendRemove(c) =>
       \A i \in SvcId : service[i] # None /\ service'[i] = None => i \in client[c].seen]_controlVars

-----------------------------------------------------------------------------
(***************************************************************************)
(* The inductive invariant behind both.                                    *)
(***************************************************************************)
\* The type of every variable, as far as it matters.
TypeOK ==
  /\ version \in Nat
  /\ used \subseteq SvcId
  /\ service = [i \in SvcId |-> service[i]]
  /\ node = [n \in NodeId |-> node[n]]
  /\ \A n \in NodeId : node[n] # None => DOMAIN node[n] = {"version", "avail", "role", "ready"}
  /\ client = [c \in Client |-> client[c]]
  /\ \A c \in Client : DOMAIN client[c] = {"do", "tool", "arg", "ch", "at", "id", "read", "seen"}

\* Every object was written at its version, and the store has not been written since
\* the newest of them.
Versions ==
  /\ \A i \in SvcId : service[i] # None => i \in used /\ service[i].version \in 0..version
  /\ \A n \in NodeId : node[n] # None => node[n].version \in 0..version

\* What a command knows when it is about to send: the object it has read is still the
\* same if its version is, and the service it removes was there when it looked.
Reads ==
  \A c \in Client :
    /\ client[c].do = "node" => client[c].arg \in NodeId
    /\ client[c].at = "list" => client[c].do \in {"update", "rm"}
    /\ client[c].at = "send" /\ client[c].do = "update" =>
         /\ client[c].id \in SvcId /\ client[c].read.version \in 0..version
         /\ LET s == service[client[c].id] IN
              s # None /\ s.version = client[c].read.version => s.spec = client[c].read.spec
    /\ client[c].at = "send" /\ client[c].do = "rm" =>
         client[c].id \in SvcId /\ client[c].id \in client[c].seen
    /\ client[c].at = "send" /\ client[c].do = "node" =>
         /\ client[c].id \in NodeId /\ client[c].read.version \in 0..version
         /\ LET n == node[client[c].id] IN
              n # None /\ n.version = client[c].read.version => n = client[c].read

ControlInv == TypeOK /\ Versions /\ Reads

=============================================================================
