--------------------------- MODULE OverlayNetwork ---------------------------
(***************************************************************************)
(* The VXLAN overlay of a node: ensureBridge and setupVXLANOverlay         *)
(* (pkg/network/manager.go), VXLANManager (pkg/network/vxlan.go) and the   *)
(* Consul watcher that feeds it (pkg/discovery/consul.go).                 *)
(*                                                                         *)
(* NewExecutor runs Init, and then starts the watcher, unless it cannot    *)
(* reach Consul or register there.  If Init could not                      *)
(* create the bridge, every PrepareNetwork tries ensureBridge again, and   *)
(* several of them may be in it at once: nm.mu is dropped before the       *)
(* overlay is set up, and the fields of the manager are then written       *)
(* without it.  Each setup makes a VXLANManager with a peer store of its   *)
(* own, named here by the caller that made it.                             *)
(***************************************************************************)
EXTENDS Integers, FiniteSets, Functions

CONSTANTS
  Peer, NoPeer,  \* the other nodes
  Caller,        \* calls of ensureBridge by PrepareNetwork
  Boot,          \* the call of ensureBridge by Init
  NoMgr,
  Static,        \* NetworkConfig.VXLANPeers
  MaxChanges,    \* bound: how often a node joins or leaves the registry
  Faults,        \* which commands may fail
  MaxFaults      \* bound: how many commands fail

Thread == Caller \cup {Boot}

Commands == {"bridge", "route", "link", "fdb"}

ASSUME OverlayAssumptions ==
  /\ NoPeer \notin Peer
  /\ Boot \notin Caller
  /\ NoMgr \notin Thread
  /\ Static \subseteq Peer
  /\ MaxChanges \in Nat
  /\ Faults \subseteq Commands
  /\ MaxFaults \in Nat

VARIABLES
  registry,   \* the peers registered in Consul
  changes,    \* how often it has changed
  bridges,    \* NetworkManager.bridges[bridgeName]
  vxlanMgr,   \* NetworkManager.vxlanMgr: the thread that made it
  pending,    \* NetworkManager.pendingPeers
  store,      \* the peer store of each manager
  pc,         \* where each thread is in ensureBridge
  mgr,        \* the manager a thread adds the interface for
  todo,       \* the peers a thread still has to apply
  link,       \* does the VXLAN interface exist?
  fdb,        \* the forwarding entries of the interface
  watch,      \* the watcher: "off", "never", "poll", "check", "queue" or "update"
  found,      \* the peers of its last answer
  listener,   \* the manager whose UDP listener runs
  heard,      \* the peer it has stored and not yet forwarded
  faults      \* how many commands of each kind have failed

overlayVars == <<registry, changes, bridges, vxlanMgr, pending, store, pc, mgr, todo,
                 link, fdb, watch, found, listener, heard, faults>>

OverlayInit ==
  /\ registry \in SUBSET Peer
  /\ changes = 0
  /\ bridges = FALSE
  /\ vxlanMgr = NoMgr
  /\ pending = {}
  /\ store = [c \in Thread |-> {}]
  /\ pc = [c \in Thread |-> "idle"]
  /\ mgr = [c \in Thread |-> NoMgr]
  /\ todo = [c \in Thread |-> {}]
  /\ link = FALSE
  /\ fdb = {}
  /\ watch = "off"
  /\ found = {}
  /\ listener = NoMgr
  /\ heard = NoPeer
  /\ faults = [k \in Commands |-> 0]

\* A command of the host fails.
FaultsLeft == FoldFunction(+, 0, faults) < MaxFaults
Fail(kind) ==
  /\ kind \in Faults
  /\ FaultsLeft
  /\ faults' = [faults EXCEPT ![kind] = @ + 1]

Goto(c, where) == pc' = [pc EXCEPT ![c] = where]

\* A node registers in Consul or leaves it.
RegistryChange(p) ==
  /\ changes < MaxChanges
  /\ changes' = changes + 1
  /\ registry' = IF p \in registry THEN registry \ {p} ELSE registry \cup {p}
  /\ UNCHANGED <<bridges, vxlanMgr, pending, store, pc, mgr, todo, link, fdb, watch,
                 found, listener, heard, faults>>

-----------------------------------------------------------------------------
(***************************************************************************)
(* VXLANManager                                                            *)
(***************************************************************************)
\* UpdatePeers of manager m; failed is the set of peers whose forwarding entry
\* could not be added.  Entries of peers that left are not deleted.
UpdatePeers(m, peers, failed) ==
  /\ failed \subseteq peers \ store[m]
  /\ IF failed = {} THEN UNCHANGED faults ELSE Fail("fdb")
  /\ IF link
       THEN /\ fdb' = fdb \cup ((peers \ store[m]) \ failed)
            /\ store' = [store EXCEPT ![m] = peers \ failed]
       ELSE UNCHANGED <<fdb, store>>

(***************************************************************************)
(* ensureBridge.  The first section, under nm.mu, creates the bridge; a    *)
(* failure there ends the call.                                            *)
(***************************************************************************)
MayEnsure(c) ==
  /\ pc[c] = "idle"
  /\ c = Boot \/ watch # "off"

AlreadyThere(c) ==
  /\ MayEnsure(c)
  /\ bridges
  /\ Goto(c, "done")
  /\ UNCHANGED <<registry, changes, bridges, vxlanMgr, pending, store, mgr, todo,
                 link, fdb, watch, found, listener, heard, faults>>

BridgeFail(c) ==
  /\ MayEnsure(c)
  /\ ~bridges
  /\ Fail("bridge")
  /\ Goto(c, "failed")
  /\ UNCHANGED <<registry, changes, bridges, vxlanMgr, pending, store, mgr, todo,
                 link, fdb, watch, found, listener, heard>>

\* The bridge is up; discoverPeerWorkers asks Consul, if that is the discovery
\* provider: it is set after Init, together with the watcher.  A query that fails
\* counts as no peers.
BridgeUp(c) ==
  /\ MayEnsure(c)
  /\ ~bridges
  /\ \E known \in {{}} \cup (IF c = Boot \/ watch = "never" THEN {} ELSE {registry}) :
       todo' = [todo EXCEPT ![c] = Static \cup known]
  /\ Goto(c, "assign")
  /\ UNCHANGED <<registry, changes, bridges, vxlanMgr, pending, store, mgr, link,
                 fdb, watch, found, listener, heard, faults>>

\* setupVXLANOverlay: a new manager with the peers known so far.
NewManager(c) ==
  /\ pc[c] = "assign"
  /\ store' = [store EXCEPT ![c] = todo[c]]
  /\ vxlanMgr' = c
  /\ Goto(c, "link")
  /\ UNCHANGED <<registry, changes, bridges, pending, mgr, todo, link, fdb, watch,
                 found, listener, heard, faults>>

\* getPhysicalInterface fails: there is no manager then, and the bridge is
\* marked ready all the same.
NoInterface(c) ==
  /\ pc[c] = "assign"
  /\ Fail("route")
  /\ Goto(c, "listen")
  /\ UNCHANGED <<registry, changes, bridges, vxlanMgr, pending, store, mgr, todo,
                 link, fdb, watch, found, listener, heard>>

(***************************************************************************)
(* SetupVXLAN of the manager the field holds by now: the interface, then   *)
(* one entry per stored peer.  It gives up at the first failure, and       *)
(* ensureBridge goes on with a warning.  The interface is looked up first  *)
(* and added then, so of two calls that find none one fails to add it.     *)
(***************************************************************************)
\* Mutant: the peers known so far get no entries.
Forward_NoPeers(c, m) ==
  /\ todo' = [todo EXCEPT ![c] = {}]
  /\ Goto(c, "fdb")

\* The interface is there: the peers manager m has stored come next.
Forward(c, m) ==
  /\ todo' = [todo EXCEPT ![c] = store[m]]
  /\ Goto(c, "fdb")

FindInterface(c) ==
  /\ pc[c] = "link"
  /\ IF link
       THEN Forward(c, vxlanMgr) /\ UNCHANGED mgr
       ELSE Goto(c, "add") /\ mgr' = [mgr EXCEPT ![c] = vxlanMgr] /\ UNCHANGED todo
  /\ UNCHANGED <<registry, changes, bridges, vxlanMgr, pending, store, link, fdb,
                 watch, found, listener, heard, faults>>

AddInterface(c) ==
  /\ pc[c] = "add"
  /\ ~link
  /\ link' = TRUE
  /\ Forward(c, mgr[c])
  /\ mgr' = [mgr EXCEPT ![c] = NoMgr]
  /\ UNCHANGED <<registry, changes, bridges, vxlanMgr, pending, store, fdb,
                 watch, found, listener, heard, faults>>

\* Another call has added it in the meantime: LinkAdd fails.
InterfaceExists(c) ==
  /\ pc[c] = "add"
  /\ link
  /\ faults' = [faults EXCEPT !["link"] = @ + 1]
  /\ Goto(c, "listen")
  /\ mgr' = [mgr EXCEPT ![c] = NoMgr]
  /\ UNCHANGED <<registry, changes, bridges, vxlanMgr, pending, store, todo, link,
                 fdb, watch, found, listener, heard>>

\* The interface cannot be created, or is created and then not attached.
InterfaceFail(c) ==
  /\ pc[c] \in {"link", "add"}
  /\ Fail("link")
  /\ link' \in {link, TRUE}
  /\ Goto(c, "listen")
  /\ mgr' = [mgr EXCEPT ![c] = NoMgr]
  /\ UNCHANGED <<registry, changes, bridges, vxlanMgr, pending, store, todo,
                 fdb, watch, found, listener, heard>>

AddPeerForwarding(c, p) ==
  /\ pc[c] = "fdb"
  /\ p \in todo[c]
  /\ fdb' = fdb \cup {p}
  /\ todo' = [todo EXCEPT ![c] = @ \ {p}]
  /\ UNCHANGED <<registry, changes, bridges, vxlanMgr, pending, store, pc, mgr,
                 link, watch, found, listener, heard, faults>>

\* An entry cannot be added, or the settings of the bridge that come after them.
ForwardingFail(c) ==
  /\ pc[c] = "fdb"
  /\ Fail("fdb")
  /\ Goto(c, "listen")
  /\ UNCHANGED <<registry, changes, bridges, vxlanMgr, pending, store, mgr, todo,
                 link, fdb, watch, found, listener, heard>>

(***************************************************************************)
(* The queued peers are read and cleared by two statements.  The comment   *)
(* there says that the caller holds nm.mu; ensureBridge has released it.   *)
(***************************************************************************)
DrainRead(c) ==
  /\ pc[c] = "fdb"
  /\ todo[c] = {}
  /\ todo' = [todo EXCEPT ![c] = pending]
  /\ Goto(c, "clear")
  /\ UNCHANGED <<registry, changes, bridges, vxlanMgr, pending, store, mgr, link,
                 fdb, watch, found, listener, heard, faults>>

DrainClear(c) ==
  /\ pc[c] = "clear"
  /\ pending' = {}
  /\ Goto(c, IF todo[c] = {} THEN "listen" ELSE "apply")
  /\ UNCHANGED <<registry, changes, bridges, vxlanMgr, store, mgr, todo, link, fdb,
                 watch, found, listener, heard, faults>>

DrainApply(c, failed) ==
  /\ pc[c] = "apply"
  /\ UpdatePeers(vxlanMgr, todo[c], failed)
  /\ Goto(c, "listen")
  /\ UNCHANGED <<registry, changes, bridges, vxlanMgr, pending, mgr, todo, link,
                 watch, found, listener, heard>>

\* StartPeerDiscovery, with static peers and a manager only; a second listener
\* cannot bind the port.
StartPeerDiscovery(c) ==
  /\ pc[c] = "listen"
  /\ listener' = IF Static # {} /\ listener = NoMgr THEN vxlanMgr ELSE listener
  /\ Goto(c, "mark")
  /\ UNCHANGED <<registry, changes, bridges, vxlanMgr, pending, store, mgr, todo,
                 link, fdb, watch, found, heard, faults>>

DiscoveryFail(c) ==
  /\ pc[c] = "listen"
  /\ Fail("route")
  /\ Goto(c, "mark")
  /\ UNCHANGED <<registry, changes, bridges, vxlanMgr, pending, store, mgr, todo,
                 link, fdb, watch, found, listener, heard>>

MarkReady(c) ==
  /\ pc[c] = "mark"
  /\ bridges' = TRUE
  /\ Goto(c, "done")
  /\ UNCHANGED <<registry, changes, vxlanMgr, pending, store, mgr, todo, link, fdb,
                 watch, found, listener, heard, faults>>

-----------------------------------------------------------------------------
(***************************************************************************)
(* The watcher.  A blocking query answers when the registry changed and    *)
(* after thirty seconds at the latest; an empty answer is not passed on.   *)
(***************************************************************************)
WatchStart ==
  /\ watch = "off"
  /\ pc[Boot] \in {"done", "failed"}
  /\ watch' = "poll"
  /\ UNCHANGED <<registry, changes, bridges, vxlanMgr, pending, store, pc, mgr,
                 todo, link, fdb, found, listener, heard, faults>>

\* No Consul client, or no registration: a warning, and no watcher for as long as
\* the daemon runs.
WatchStartFail ==
  /\ watch = "off"
  /\ pc[Boot] \in {"done", "failed"}
  /\ watch' = "never"
  /\ UNCHANGED <<registry, changes, bridges, vxlanMgr, pending, store, pc, mgr,
                 todo, link, fdb, found, listener, heard, faults>>

\* Mutant: an answer without news is dropped.
WatchPoll_OnlyNews ==
  /\ watch = "poll"
  /\ registry # {}
  /\ registry # found
  /\ found' = registry
  /\ watch' = "check"
  /\ UNCHANGED <<registry, changes, bridges, vxlanMgr, pending, store, pc, mgr,
                 todo, link, fdb, listener, heard, faults>>

WatchPoll ==
  /\ watch = "poll"
  /\ registry # {}
  /\ found' = registry
  /\ watch' = "check"
  /\ UNCHANGED <<registry, changes, bridges, vxlanMgr, pending, store, pc, mgr,
                 todo, link, fdb, listener, heard, faults>>

\* NetworkManager.UpdatePeers tests vxlanMgr without the lock.
WatchCheck ==
  /\ watch = "check"
  /\ watch' = IF vxlanMgr = NoMgr THEN "queue" ELSE "update"
  /\ UNCHANGED <<registry, changes, bridges, vxlanMgr, pending, store, pc, mgr,
                 todo, link, fdb, found, listener, heard, faults>>

WatchQueue ==
  /\ watch = "queue"
  /\ pending' = found
  /\ watch' = "poll"
  /\ UNCHANGED <<registry, changes, bridges, vxlanMgr, store, pc, mgr, todo, link,
                 fdb, found, listener, heard, faults>>

WatchUpdate(failed) ==
  /\ watch = "update"
  /\ UpdatePeers(vxlanMgr, found, failed)
  /\ watch' = "poll"
  /\ UNCHANGED <<registry, changes, bridges, vxlanMgr, pending, pc, mgr, todo, link,
                 found, listener, heard>>

(***************************************************************************)
(* listenForPeers: an announced peer is stored first and forwarded then.   *)
(***************************************************************************)
Hear(p) ==
  /\ listener # NoMgr
  /\ heard = NoPeer
  /\ p \notin store[listener]
  /\ store' = [store EXCEPT ![listener] = @ \cup {p}]
  /\ heard' = p
  /\ UNCHANGED <<registry, changes, bridges, vxlanMgr, pending, pc, mgr, todo, link,
                 fdb, watch, found, listener, faults>>

HeardForward ==
  /\ heard # NoPeer
  /\ fdb' = IF link THEN fdb \cup {heard} ELSE fdb
  /\ heard' = NoPeer
  /\ UNCHANGED <<registry, changes, bridges, vxlanMgr, pending, store, pc, mgr,
                 todo, link, watch, found, listener, faults>>

HeardFail ==
  /\ heard # NoPeer
  /\ Fail("fdb")
  /\ heard' = NoPeer
  /\ UNCHANGED <<registry, changes, bridges, vxlanMgr, pending, store, pc, mgr,
                 todo, link, fdb, watch, found, listener>>

-----------------------------------------------------------------------------
SetupStep(c) ==
  \/ AlreadyThere(c) \/ BridgeFail(c) \/ BridgeUp(c) \/ NewManager(c)
  \/ NoInterface(c) \/ DiscoveryFail(c)
  \/ FindInterface(c) \/ AddInterface(c) \/ InterfaceExists(c) \/ InterfaceFail(c)
  \/ \E p \in Peer : AddPeerForwarding(c, p)
  \/ ForwardingFail(c) \/ DrainRead(c) \/ DrainClear(c)
  \/ \E failed \in SUBSET Peer : DrainApply(c, failed)
  \/ StartPeerDiscovery(c) \/ MarkReady(c)

WatchStep ==
  \/ WatchStart \/ WatchStartFail \/ WatchPoll \/ WatchCheck \/ WatchQueue
  \/ \E failed \in SUBSET Peer : WatchUpdate(failed)

ListenStep == HeardForward \/ HeardFail

OverlayNext ==
  \/ \E c \in Thread : SetupStep(c)
  \/ WatchStep
  \/ ListenStep
  \/ \E p \in Peer : Hear(p) \/ RegistryChange(p)

\* Init is called and every call returns, Consul answers a watcher that was started,
\* the listener handles what it read.  Nothing makes a task be prepared, so nothing makes
\* ensureBridge be called again, and nothing is assumed of the other nodes or of
\* announcements.
OverlaySpec ==
  /\ OverlayInit /\ [][OverlayNext]_overlayVars
  /\ WF_overlayVars(SetupStep(Boot))
  /\ \A c \in Caller : WF_overlayVars(pc[c] # "idle" /\ SetupStep(c))
  /\ WF_overlayVars(WatchStep) /\ WF_overlayVars(ListenStep)
-----------------------------------------------------------------------------
(***************************************************************************)
(* Properties.                                                             *)
(***************************************************************************)

OnlyBridgeFailed == \A k \in Commands \ {"bridge"} : faults[k] = 0

\* The store of the current manager is backed by the forwarding table once its
\* setup is over, but for the peer the listener is handling.  UpdatePeers relies
\* on it: it adds no entry for a peer that is in the store.  It breaks when the
\* interface or an entry cannot be made, not when the bridge cannot; two calls that both
\* find no interface are such a case, for the second to add it fails.  (Nothing of
\* the kind holds of a manager that another call has replaced: SetupVXLAN then runs
\* on the new one, and the listener may still serve the old.)
StoreForwarded ==
  OnlyBridgeFailed /\ vxlanMgr # NoMgr /\ pc[vxlanMgr] \in {"listen", "mark", "done"}
    => store[vxlanMgr] \subseteq fdb \cup {heard}

\* "When a new peer shows up, the VXLAN forwarding database gets updated
\* automatically": a peer that stays registered is forwarded to in the end,
\* whichever of setup, queue and watcher saw it first, on a node that has a manager and
\* a watcher, when no command but those that make the bridge fails.
PeersForwardedUnlessFault ==
  \A p \in Peer :
    <>[](p \in registry /\ OnlyBridgeFailed /\ vxlanMgr # NoMgr /\ watch # "never")
      => <>[](p \in fdb)

\* Under a bounded number of failed commands, a watcher that was started makes the store
\* of the current manager contain a registry that has stopped changing.
StoreConverges ==
  \A R \in SUBSET Peer :
    <>[](registry = R /\ watch # "never")
      => <>[](vxlanMgr # NoMgr /\ link => R \subseteq store[vxlanMgr])

-----------------------------------------------------------------------------
(***************************************************************************)
(* The inductive invariant behind StoreForwarded.                          *)
(***************************************************************************)

\* The type of every variable.
OverlayTypeOK ==
  /\ registry \subseteq Peer /\ pending \subseteq Peer /\ found \subseteq Peer /\ fdb \subseteq Peer
  /\ changes \in Nat
  /\ bridges \in BOOLEAN /\ link \in BOOLEAN
  /\ vxlanMgr \in Thread \cup {NoMgr} /\ listener \in Thread \cup {NoMgr}
  /\ store \in [Thread -> SUBSET Peer]
  /\ todo \in [Thread -> SUBSET Peer]
  /\ mgr \in [Thread -> Thread \cup {NoMgr}]
  /\ pc \in [Thread -> {"idle", "assign", "link", "add", "fdb", "clear", "apply", "listen", "mark", "done", "failed"}]
  /\ watch \in {"off", "never", "poll", "check", "queue", "update"}
  /\ heard \in Peer \cup {NoPeer}
  /\ faults \in [Commands -> Nat]

\* A thread that sets up an interface, and a watcher about to update, have a manager.
HasManager ==
  /\ (\E c \in Thread : pc[c] \in {"link", "add"}) \/ watch = "update" => vxlanMgr # NoMgr
  /\ \A c \in Thread : pc[c] = "add" => mgr[c] # NoMgr

\* How far the current manager is, by the thread that made it: what it has stored is
\* forwarded to, or is still to be by that thread or by the listener.
Backed ==
  OnlyBridgeFailed /\ vxlanMgr # NoMgr =>
    /\ pc[vxlanMgr] \in {"link", "add", "fdb", "clear", "apply", "listen", "mark", "done"}
    /\ pc[vxlanMgr] \notin {"link", "add"} => link
    /\ pc[vxlanMgr] = "add" => mgr[vxlanMgr] = vxlanMgr
    /\ pc[vxlanMgr] = "fdb" => store[vxlanMgr] \subseteq fdb \cup todo[vxlanMgr] \cup {heard}
    /\ pc[vxlanMgr] \in {"clear", "apply", "listen", "mark", "done"}
         => store[vxlanMgr] \subseteq fdb \cup {heard}

OverlayInv == OverlayTypeOK /\ HasManager /\ Backed
=============================================================================
