--------------------------- MODULE NetworkProofs ----------------------------
(***************************************************************************)
(* Proofs about the networking of a node.                                  *)
(*                                                                         *)
(* TapNetwork: for any number of tasks, any subnet and any hash, if no     *)
(* task has two TAPs without an address from SwarmKit (OneLocalTap),       *)
(* NetInv is inductive, and addresses are unique, reserved and given back. *)
(* The probing loop of Allocate reaches every address of a subnet that has *)
(* no more of them than the loop has rounds.                               *)
(*                                                                         *)
(* OverlayNetwork: for any number of peers and of overlapping calls of     *)
(* ensureBridge, OverlayInv is inductive, and what the current manager has *)
(* stored is forwarded to.                                                 *)
(***************************************************************************)
EXTENDS TapNetwork, OverlayNetwork, WellFoundedInduction, TLAPS

\* What IPAllocator.Allocate returns: the address the task has, else one that nobody
\* has, or none.
LEMMA AllocateResult ==
  ASSUME NEW t \in Task
  PROVE  IF Own(t) # {} THEN Allocate(t) \in Own(t)
         ELSE Allocate(t) = NoAddr \/ Allocate(t) \notin DOMAIN allocated
<1> DEFINE hits  == {i \in 0..(MaxProbes - 1) : Usable(Probe(t)[i])}
           first == {i \in hits : \A j \in hits : i <= j}
<1>1. CASE Own(t) # {}
  <2>1. (CHOOSE a \in Own(t) : TRUE) \in Own(t)
    BY <1>1, Zenon
  <2> QED BY <1>1, <2>1 DEF Allocate
<1>2. CASE Own(t) = {} /\ first = {}
  BY <1>2 DEF Allocate
<1>3. CASE Own(t) = {} /\ first # {}
  <2>1. (CHOOSE i \in first : TRUE) \in first
    <3> HIDE DEF first
    <3> QED BY <1>3, Zenon
  <2>2. Usable(Probe(t)[CHOOSE i \in first : TRUE])
    BY <2>1
  <2>3. Allocate(t) = Probe(t)[CHOOSE i \in first : TRUE]
    BY <1>3 DEF Allocate
  <2> QED BY <1>3, <2>2, <2>3 DEF Usable
<1> QED BY <1>1, <1>2, <1>3

\* The attachments of a task, by position.
LEMMA NetsOfTask ==
  ASSUME NEW t \in Task
  PROVE  Len(Nets[t]) \in Nat /\ DOMAIN Nets[t] = 1..Len(Nets[t])
         /\ (Nets[t] # <<>> => 1 \in DOMAIN Nets[t])
  BY NetworkAssumptions

LEMMA NetInvInit == Init => NetInv
  BY NetworkAssumptions DEF Init, NetInv, TypeOK, Position, Records, Indices, Reserved, InProgress,
     Cleaning, Accounted, Own

\* PrepareNetwork begins, again after a failure.
LEMMA NetInvBegin ==
  ASSUME OneLocalTap, NetInv, NEW t \in Task, PrepareBegin(t)
  PROVE  NetInv'
<1> USE NetworkAssumptions DEF NetInv, PrepareBegin, failures
<1>1. TypeOK'
  BY DEF TypeOK
<1>2. Position'
  BY NetsOfTask, SMTT(60) DEF TypeOK, Position
<1>3. Records'
  BY DEF TypeOK, Records
<1>4. Indices'
  BY DEF TypeOK, Indices
<1>5. Reserved'
  BY DEF Reserved, Own
<1>6. InProgress'
  BY DEF TypeOK, InProgress, Own
<1>7. Cleaning'
  BY DEF TypeOK, Cleaning
<1>8. Accounted'
  BY DEF TypeOK, Accounted, Own
<1> QED BY <1>1, <1>2, <1>3, <1>4, <1>5, <1>6, <1>7, <1>8

\* The choice of an address takes none away from another task, and the task itself has
\* the one it is given, and no other.
LEMMA ChooseKeepsOthers ==
  ASSUME NetInv, NEW t \in Task, ChooseAddress(t)
  PROVE  /\ \A u \in Task : u # t => Own(u)' = Own(u)
         /\ IF addr'[t] = NoAddr THEN Own(t)' = {} ELSE Own(t)' = {addr'[t]}
         /\ NoAddr \notin DOMAIN allocated'
         /\ \A a \in DOMAIN allocated' : allocated'[a] \in Task
         /\ addr' = [addr EXCEPT ![t] = addr'[t]]
         /\ Own(t) \subseteq Own(t)'
<1> USE DEF NetInv
<1>1. CASE Nets[t] = <<>> /\ pos[t] = 1 /\ addr[t] # NoAddr
  <2>1. addr' = addr /\ allocated' = allocated
    BY <1>1 DEF ChooseAddress
  <2>2. addr[t] \in Own(t)
    BY <1>1 DEF ChooseAddress, InProgress
  <2>3. Own(t) = {addr[t]}
    BY <2>2 DEF Reserved
  <2>4. \A u \in Task : Own(u)' = Own(u)
    BY <2>1 DEF Own
  <2> QED BY <1>1, <2>1, <2>3, <2>4 DEF TypeOK
<1>2. CASE ~(Nets[t] = <<>> /\ pos[t] = 1 /\ addr[t] # NoAddr)
  <2> DEFINE a == Allocate(t)
  <2>1. /\ addr' = [addr EXCEPT ![t] = a]
        /\ allocated' = IF a = NoAddr THEN allocated ELSE Put(allocated, a, t)
    BY <1>2 DEF ChooseAddress
  <2>2. addr'[t] = a
    BY <2>1 DEF TypeOK
  <2>3. IF Own(t) # {} THEN a \in Own(t) ELSE a = NoAddr \/ a \notin DOMAIN allocated
    BY AllocateResult
  <2> HIDE DEF a
  <2>4. CASE a = NoAddr
    <3>1. Own(t) = {}
      BY <2>3, <2>4 DEF TypeOK, Own
    <3> QED BY <2>1, <2>2, <2>4, <3>1 DEF TypeOK, Own
  <2>5. CASE a # NoAddr
    <3>1. /\ DOMAIN allocated' = DOMAIN allocated \cup {a}
          /\ \A x \in DOMAIN allocated' : allocated'[x] = IF x = a THEN t ELSE allocated[x]
      BY <2>1, <2>5 DEF Put
    <3>2. a \in DOMAIN allocated => allocated[a] = t
      BY <2>3, <2>5 DEF Own
    <3>3. Own(t)' = {a}
      BY <2>3, <3>1, <3>2 DEF Own, Reserved
    <3>4. \A u \in Task : u # t => Own(u)' = Own(u)
      BY <3>1, <3>2 DEF Own
    <3>5. Own(t) \subseteq Own(t)'
      BY <3>1, <3>2, <3>3 DEF Own
    <3> QED BY <2>1, <2>2, <2>5, <3>1, <3>3, <3>4, <3>5 DEF TypeOK
  <2> QED BY <2>4, <2>5
<1> QED BY <1>1, <1>2

LEMMA NetInvChoose ==
  ASSUME OneLocalTap, NetInv, NEW t \in Task, ChooseAddress(t)
  PROVE  NetInv'
<1> USE NetworkAssumptions DEF NetInv
<1>k. /\ \A u \in Task : u # t => Own(u)' = Own(u)
      /\ IF addr'[t] = NoAddr THEN Own(t)' = {} ELSE Own(t)' = {addr'[t]}
      /\ NoAddr \notin DOMAIN allocated'
      /\ \A a \in DOMAIN allocated' : allocated'[a] \in Task
      /\ addr' = [addr EXCEPT ![t] = addr'[t]]
      /\ Own(t) \subseteq Own(t)'
  BY ChooseKeepsOthers
<1>s. /\ status[t] = "address" /\ LocalTap(t)
      /\ status' = [status EXCEPT ![t] = "link"]
      /\ UNCHANGED <<tapDevices, mu, links, cniTaps, pos, failures>>
  BY DEF ChooseAddress
<1>1. TypeOK'
  BY <1>k, <1>s DEF TypeOK, failures
<1>2. Position'
  BY <1>s DEF TypeOK, Position, LocalTap
<1>3. Records'
  BY <1>s DEF Records
<1>4. Indices'
  BY <1>s DEF Indices
<1>5. Reserved'
  <2>1. ASSUME NEW r \in tapDevices, r.ip # NoAddr PROVE r.ip \in Own(r.task)'
    BY <2>1, <1>k, <1>s DEF Reserved, TypeOK, Own
  <2>2. ASSUME NEW u \in Task, NEW a \in Own(u)', NEW b \in Own(u)' PROVE a = b
    BY <2>2, <1>k, <1>s DEF Reserved, Own
  <2> QED BY <1>s, <2>1, <2>2 DEF Reserved
<1>6. InProgress'
  <2> SUFFICES ASSUME NEW u \in Task
               PROVE  /\ status'[u] = "link" => IF addr'[u] = NoAddr THEN Own(u)' = {} ELSE addr'[u] \in Own(u)'
                      /\ status'[u] = "address" /\ Nets[u] = <<>> /\ pos'[u] = 1 /\ addr'[u] # NoAddr
                           => addr'[u] \in Own(u)'
    BY <1>s DEF InProgress
  <2>1. CASE u = t
    BY <2>1, <1>k, <1>s DEF TypeOK
  <2>2. CASE u # t
    <3>1. Own(u)' = Own(u) /\ addr'[u] = addr[u] /\ status'[u] = status[u] /\ pos'[u] = pos[u]
      BY <2>2, <1>k, <1>s DEF TypeOK
    <3> QED BY <3>1 DEF InProgress
  <2> QED BY <2>1, <2>2
<1>7. Cleaning'
  BY <1>s DEF TypeOK, Cleaning
<1>8. Accounted'
  <2> SUFFICES ASSUME NEW u \in Task
               PROVE  /\ status'[u] = "gone" => \A r \in tapDevices : r.task # u
                      /\ status'[u] = "gone" /\ u \notin delFailed => u \notin cniTaps
                      /\ u \in cniTaps => Nets[u] # <<>>
                      /\ u \notin addFailed =>
                           \A a \in Own(u)' : \/ status'[u] = "link"
                                              \/ \E r \in tapDevices : r.task = u /\ r.ip = a
                      /\ u \notin delFailed =>
                           \A l \in links : l[1] = u => \E r \in tapDevices : r.task = u /\ r.index = l[2]
    BY <1>s DEF Accounted, failures
  <2>1. CASE u = t
    BY <2>1, <1>k, <1>s DEF TypeOK, Accounted
  <2>2. CASE u # t
    BY <2>2, <1>k, <1>s DEF TypeOK, Accounted
  <2> QED BY <2>1, <2>2
<1> QED BY <1>1, <1>2, <1>3, <1>4, <1>5, <1>6, <1>7, <1>8

\* The device is made and its record replaces that of the round before.
LEMMA NetInvCreate ==
  ASSUME OneLocalTap, NetInv, NEW t \in Task, CreateTap(t)
  PROVE  NetInv'
<1> USE NetworkAssumptions DEF NetInv, CreateTap, failures
<1>a. Index(t) \in Nat /\ (Nets[t] # <<>> => Index(t) + 1 \in DOMAIN Nets[t] /\ Nets[t][Index(t) + 1] = "none")
  BY DEF TypeOK, Position, Index
<1>b. \A r \in tapDevices : r.task = t => r.index = Index(t)
  <2> HIDE DEF CreateTap
  <2> QED BY <1>a DEF TypeOK, Indices, Index, OneLocalTap
<1>c. tapDevices' = {r \in tapDevices : r.task # t}
                      \cup {[task |-> t, index |-> Index(t), ip |-> addr[t]]}
  BY <1>b DEF TypeOK
<1>1. TypeOK'
  BY <1>a, <1>c DEF TypeOK
<1>2. Position'
  <2>1. CASE pos[t] + 1 = Rounds(t)
    BY <2>1 DEF TypeOK, Position
  <2>2. CASE pos[t] + 1 # Rounds(t)
    BY <2>2, NetsOfTask, SMTT(60) DEF TypeOK, Position, Rounds
  <2> QED BY <2>1, <2>2
<1>3. Records'
  BY <1>c DEF Records
<1>4. Indices'
  BY <1>a, <1>c DEF TypeOK, Indices, Index
<1>5. Reserved'
  BY <1>c DEF TypeOK, Reserved, InProgress, Own
<1>6. InProgress'
  BY DEF TypeOK, InProgress, Own
<1>7. Cleaning'
  BY DEF TypeOK, Cleaning
<1>8. Accounted'
  <2> SUFFICES ASSUME NEW u \in Task
               PROVE  /\ status'[u] = "gone" => \A r \in tapDevices' : r.task # u
                      /\ status'[u] = "gone" /\ u \notin delFailed' => u \notin cniTaps'
                      /\ u \in cniTaps' => Nets[u] # <<>>
                      /\ u \notin addFailed' =>
                           \A a \in Own(u)' : \/ status'[u] = "link"
                                              \/ \E r \in tapDevices' : r.task = u /\ r.ip = a
                      /\ u \notin delFailed' =>
                           \A l \in links' : l[1] = u => \E r \in tapDevices' : r.task = u /\ r.index = l[2]
    BY DEF Accounted
  <2>o. Own(u)' = Own(u)
    BY DEF Own
  <2>1. CASE u = t
    <3> DEFINE new == [task |-> t, index |-> Index(t), ip |-> addr[t]]
    <3>1. new \in tapDevices' /\ new.task = t /\ new.ip = addr[t] /\ new.index = Index(t)
      BY <1>c
    <3>2. \A a \in Own(t) : a = addr[t]
      BY DEF InProgress, Reserved
    <3>3. \A l \in links' : l[1] = t /\ t \notin delFailed => l[2] = Index(t)
      BY <1>b DEF Accounted
    <3>4. status'[t] # "gone" /\ (t \in cniTaps' => Nets[t] # <<>>)
      BY DEF TypeOK, Accounted
    <3>5. \A a \in Own(t)' : \E r \in tapDevices' : r.task = t /\ r.ip = a
      BY <2>o, <2>1, <3>1, <3>2
    <3>6. t \notin delFailed' => \A l \in links' : l[1] = t => \E r \in tapDevices' : r.task = t /\ r.index = l[2]
      BY <3>1, <3>3
    <3> QED BY <2>1, <3>4, <3>5, <3>6
  <2>2. CASE u # t
    BY <1>c, <2>o, <2>2 DEF TypeOK, Accounted
  <2> QED BY <2>1, <2>2
<1> QED BY <1>1, <1>2, <1>3, <1>4, <1>5, <1>6, <1>7, <1>8

\* A command fails: the task is marked.
LEMMA NetInvFail ==
  ASSUME OneLocalTap, NetInv, NEW t \in Task, CreateTapFail(t)
  PROVE  NetInv'
<1> USE NetworkAssumptions DEF NetInv, CreateTapFail, failures
<1>a. Index(t) \in Nat
  BY DEF TypeOK, Index
<1>b. links' \subseteq Task \X Nat /\ delFailed' \subseteq Task
  BY <1>a DEF TypeOK
<1>1. TypeOK'
  BY <1>b DEF TypeOK
<1>2. Position'
  BY DEF TypeOK, Position
<1>3. Records'
  BY DEF TypeOK, Records
<1>4. Indices'
  BY DEF TypeOK, Indices
<1>5. Reserved'
  BY DEF Reserved, Own
<1>6. InProgress'
  BY DEF TypeOK, InProgress, Own
<1>7. Cleaning'
  BY DEF TypeOK, Cleaning
<1>8. Accounted'
  <2>1. \A u \in Task : Own(u)' = Own(u)
    BY DEF Own
  <2>2. status[t] = "link" /\ \A u \in Task : u # t => status'[u] = status[u]
    BY DEF TypeOK
  <2>3. \A u \in Task : u \notin delFailed' => \A l \in links' : l[1] = u => l \in links
    OBVIOUS
  <2> QED BY <2>1, <2>2, <2>3 DEF TypeOK, Accounted
<1> QED BY <1>1, <1>2, <1>3, <1>4, <1>5, <1>6, <1>7, <1>8

\* The plug-in is called, and its result does not decode.
LEMMA NetInvCNI ==
  ASSUME OneLocalTap, NetInv, NEW t \in Task, CNIAdd(t) \/ CNIAddFail(t)
  PROVE  NetInv'
<1> USE NetworkAssumptions DEF NetInv, CNIAdd, CNIAddFail, CNIResultDecodes, failures
<1>a. Nets[t] # <<>>
  BY DEF LocalTap
<1>b. /\ status' = [status EXCEPT ![t] = "failed"] /\ cniTaps' \subseteq cniTaps \cup {t}
      /\ DOMAIN pos' = DOMAIN pos /\ \A u \in Task : pos'[u] = pos[u]
      /\ UNCHANGED <<allocated, tapDevices, mu, links, addr, addFailed, delFailed>>
      /\ \A u \in Task : u # t => (u \in cniTaps' <=> u \in cniTaps)
  BY DEF TypeOK, failures
<1>c. pos' = pos
  BY <1>b DEF TypeOK
<1>d. status[t] = "address"
  OBVIOUS
<1>e. status'[t] = "failed"
  BY <1>b DEF TypeOK
<1>1. TypeOK'
  <2> HIDE DEF CNIAdd, CNIAddFail
  <2> QED BY <1>b, <1>c DEF TypeOK
<1>2. Position'
  <2> HIDE DEF CNIAdd, CNIAddFail
  <2> QED BY <1>b, <1>c, <1>d DEF TypeOK, Position
<1>3. Records'
  BY DEF TypeOK, Records
<1>4. Indices'
  BY DEF TypeOK, Indices
<1>5. Reserved'
  BY <1>b DEF Reserved, Own
<1>6. InProgress'
  <2>1. \A u \in Task : Own(u)' = Own(u)
    BY <1>b DEF Own
  <2> HIDE DEF CNIAdd, CNIAddFail
  <2> QED BY <1>b, <2>1 DEF TypeOK, InProgress
<1>7. Cleaning'
  BY DEF TypeOK, Cleaning
<1>8. Accounted'
  <2>1. \A u \in Task : Own(u)' = Own(u)
    BY <1>b DEF Own
  <2> HIDE DEF CNIAdd, CNIAddFail
  <2> SUFFICES ASSUME NEW u \in Task
               PROVE  /\ status'[u] = "gone" => \A r \in tapDevices : r.task # u
                      /\ status'[u] = "gone" /\ u \notin delFailed => u \notin cniTaps'
                      /\ u \in cniTaps' => Nets[u] # <<>>
                      /\ u \notin addFailed =>
                           \A a \in Own(u) : \/ status'[u] = "link"
                                             \/ \E r \in tapDevices : r.task = u /\ r.ip = a
                      /\ u \notin delFailed =>
                           \A l \in links : l[1] = u => \E r \in tapDevices : r.task = u /\ r.index = l[2]
    BY <1>b, <2>1 DEF Accounted
  <2>2. CASE u = t
    BY <1>a, <1>b, <1>d, <1>e, <2>2, ZenonT(60) DEF TypeOK, Accounted
  <2>3. CASE u # t
    BY <1>b, <2>3 DEF TypeOK, Accounted
  <2> QED BY <2>2, <2>3
<1> QED BY <1>1, <1>2, <1>3, <1>4, <1>5, <1>6, <1>7, <1>8

\* CleanupNetwork takes nm.mu.
LEMMA NetInvCleanupBegin ==
  ASSUME OneLocalTap, NetInv, NEW t \in Task, CleanupBegin(t)
  PROVE  NetInv'
<1> USE NetworkAssumptions DEF NetInv, CleanupBegin, failures
<1>1. TypeOK'
  BY DEF TypeOK
<1>2. Position'
  BY DEF TypeOK, Position
<1>3. Records'
  BY DEF TypeOK, Records
<1>4. Indices'
  BY DEF TypeOK, Indices
<1>5. Reserved'
  BY DEF Reserved, Own
<1>6. InProgress'
  BY DEF TypeOK, InProgress, Own
<1>7. Cleaning'
  BY DEF TypeOK, Cleaning
<1>8. Accounted'
  <2>1. \A u \in Task : Own(u)' = Own(u)
    BY DEF Own
  <2> QED BY <2>1 DEF TypeOK, Accounted, Cleaning
<1> QED BY <1>1, <1>2, <1>3, <1>4, <1>5, <1>6, <1>7, <1>8

\* CleanupNetwork returns, with no record of the task left.
LEMMA NetInvCleanupEnd ==
  ASSUME OneLocalTap, NetInv, NEW t \in Task, CleanupEnd(t) \/ CleanupEndDelFails(t)
  PROVE  NetInv'
<1> USE NetworkAssumptions DEF NetInv, CleanupEnd, CleanupEndDelFails, failures
<1>a. /\ mu = t /\ mu' = NoTask
      /\ status' = [status EXCEPT ![t] = "gone"]
      /\ \A r \in tapDevices : r.task # t
      /\ cniTaps' \subseteq cniTaps /\ (cniTaps' = cniTaps \/ cniTaps' = cniTaps \ {t})
      /\ addFailed' = addFailed /\ (delFailed' = delFailed \/ delFailed' = delFailed \cup {t})
      /\ Nets[t] # <<>> => t \notin cniTaps' \/ t \in delFailed'
      /\ UNCHANGED <<allocated, tapDevices, links, pos, addr>>
  OBVIOUS
<1> HIDE DEF CleanupEnd, CleanupEndDelFails
<1>1. TypeOK'
  BY <1>a DEF TypeOK
<1>2. Position'
  BY <1>a DEF TypeOK, Position
<1>3. Records'
  BY <1>a DEF TypeOK, Records
<1>4. Indices'
  BY <1>a DEF TypeOK, Indices
<1>5. Reserved'
  BY <1>a DEF Reserved, Own
<1>6. InProgress'
  BY <1>a DEF TypeOK, InProgress, Own
<1>7. Cleaning'
  BY <1>a DEF TypeOK, Cleaning
<1>8. Accounted'
  <2>1. \A u \in Task : Own(u)' = Own(u)
    BY <1>a DEF Own
  <2>2. \A u \in Task : u # t => status'[u] = status[u]
    BY <1>a DEF TypeOK
  <2>3. status'[t] = "gone" /\ status[t] = "cleaning"
    BY <1>a DEF TypeOK, Cleaning
  <2>4. \A u \in Task : u # t => (u \in cniTaps' <=> u \in cniTaps) /\ (u \in delFailed' <=> u \in delFailed)
    BY <1>a
  <2>5. t \in cniTaps' => t \in cniTaps
    BY <1>a
  <2> QED BY <1>a, <2>1, <2>2, <2>3, <2>4, <2>5 DEF Accounted
<1> QED BY <1>1, <1>2, <1>3, <1>4, <1>5, <1>6, <1>7, <1>8

\* CleanupNetwork releases one record: no other has its address.
LEMMA NetInvDrop ==
  ASSUME OneLocalTap, NetInv, NEW r \in tapDevices, CleanupTap(r) \/ CleanupTapFail(r)
  PROVE  NetInv'
<1> USE NetworkAssumptions DEF NetInv, CleanupTap, CleanupTapFail, DropRecord, Release, failures
<1>1. TypeOK'
  BY DEF TypeOK, Delete
<1>2. Position'
  BY DEF TypeOK, Position
<1>3. Records'
  BY DEF TypeOK, Records
<1>4. Indices'
  BY DEF TypeOK, Indices
<1>5. Reserved'
  BY DEF TypeOK, Reserved, Records, Own, Delete
<1>6. InProgress'
  BY DEF TypeOK, InProgress, Reserved, Own, Delete, Cleaning
<1>7. Cleaning'
  BY DEF TypeOK, Cleaning
<1>8. Accounted'
  BY DEF TypeOK, Accounted, Reserved, Own, Delete, Cleaning, Records, Indices
<1> QED BY <1>1, <1>2, <1>3, <1>4, <1>5, <1>6, <1>7, <1>8

LEMMA NetInvNext == OneLocalTap /\ NetInv /\ [Next]_vars => NetInv'
<1> SUFFICES ASSUME OneLocalTap, NetInv, [Next]_vars PROVE NetInv'
  OBVIOUS
<1>1. ASSUME NEW t \in Task, PrepareBegin(t) PROVE NetInv'
  BY <1>1, NetInvBegin
<1>2. ASSUME NEW t \in Task, ChooseAddress(t) PROVE NetInv'
  BY <1>2, NetInvChoose
<1>3. ASSUME NEW t \in Task, CreateTap(t) PROVE NetInv'
  BY <1>3, NetInvCreate
<1>4. ASSUME NEW t \in Task, CreateTapFail(t) PROVE NetInv'
  BY <1>4, NetInvFail
<1>5. ASSUME NEW t \in Task, CNIAdd(t) \/ CNIAddFail(t) PROVE NetInv'
  BY <1>5, NetInvCNI
<1>6. ASSUME NEW t \in Task, CleanupBegin(t) PROVE NetInv'
  BY <1>6, NetInvCleanupBegin
<1>7. ASSUME NEW t \in Task, CleanupEnd(t) \/ CleanupEndDelFails(t) PROVE NetInv'
  BY <1>7, NetInvCleanupEnd
<1>8. ASSUME NEW r \in tapDevices, CleanupTap(r) \/ CleanupTapFail(r) PROVE NetInv'
  BY <1>8, NetInvDrop
<1>9. CASE UNCHANGED vars
  BY <1>9 DEF vars, failures, NetInv, TypeOK, Position, Records, Indices, Reserved, InProgress, Cleaning, Accounted, Own
<1> QED BY <1>1, <1>2, <1>3, <1>4, <1>5, <1>6, <1>7, <1>8, <1>9 DEF Next

-----------------------------------------------------------------------------
\* The inductive invariant holds of every behaviour (PrepareNetwork and CleanupNetwork
\* of any number of tasks, interleaved and failing anywhere).
THEOREM NetInvariant ==
  ASSUME OneLocalTap
  PROVE  Spec => []NetInv
<1>1. NetInv /\ [Next]_vars => NetInv'
  BY NetInvNext
<1> QED BY NetInvInit, <1>1, PTL DEF Spec

\* Two VMs never have the same address, whatever the tasks hash to (UniqueIPs).
THEOREM AddressesUnique ==
  ASSUME OneLocalTap
  PROVE  Spec => []UniqueIPs
<1>1. NetInv => UniqueIPs
  BY DEF NetInv, Reserved, UniqueIPs, Own
<1> QED BY NetInvariant, <1>1, PTL

\* The address of a recorded device stays reserved for its task until the task is
\* cleaned up (AddressReserved).
THEOREM RecordedIsReserved ==
  ASSUME OneLocalTap
  PROVE  Spec => []AddressReserved
<1>1. NetInv => AddressReserved
  BY DEF NetInv, Reserved, AddressReserved
<1> QED BY NetInvariant, <1>1, PTL

\* CleanupNetwork leaves devices or addresses behind only if a command failed for the
\* task (CleanupComplete).
THEOREM CleanupIsComplete ==
  ASSUME OneLocalTap
  PROVE  Spec => []CleanupComplete
<1>1. NetInv => CleanupComplete
  BY DEF NetInv, Accounted, Reserved, CleanupComplete, Cleaning
<1> QED BY NetInvariant, <1>1, PTL

-----------------------------------------------------------------------------
(***************************************************************************)
(* The probing loop of Allocate reaches every address, for any subnet that *)
(* has no more addresses than the loop has rounds.                         *)
(***************************************************************************)

\* A non-empty set of numbers has a least one.
LEMMA LeastNumber ==
  ASSUME NEW T, T \subseteq Nat, T # {}
  PROVE  \E x \in T : \A y \in T : x <= y
<1> DEFINE R == {ss \in Nat \X Nat : ss[1] < ss[2]}
<1>1. IsWellFoundedOn(R, Nat)
  BY NatLessThanWellFounded, Zenon DEF OpToRel
<1> HIDE DEF R
<1>2. PICK x \in T : \A y \in T : ~(<<y, x>> \in R)
  BY <1>1, WFMin
<1>3. \A y \in T : ~(y < x)
  BY <1>2 DEF R
<1> QED BY <1>3

\* The rounds of the loop: a shortest run of rounds without an address each would have
\* one round more than a run that has them.
LEMMA ProbeRounds ==
  ASSUME NEW t \in Task
  PROVE  Probe(t) = [i \in 0..(MaxProbes - 1) |-> IF i = 0 THEN HashToIP(t) ELSE NextIP(Probe(t)[i - 1])]
<1> DEFINE N == MaxProbes - 1
           Run(g, n) == g = [i \in 0..n |-> IF i = 0 THEN HashToIP(t) ELSE NextIP(g[i - 1])]
           Bad == {n \in 0..N : ~ \E g : Run(g, n)}
<1>1. N \in Nat
  BY NetworkAssumptions
<1>2. Bad = {}
  <2> SUFFICES ASSUME Bad # {} PROVE FALSE
    OBVIOUS
  <2>1. Bad \subseteq Nat
    BY <1>1
  <2>2. PICK n \in Bad : \A m \in Bad : n <= m
    <3> HIDE DEF Bad
    <3> QED BY <2>1, LeastNumber
  <2>3. n \in 0..N /\ n \in Nat /\ ~ \E g : Run(g, n)
    BY <1>1
  <2>4. CASE n = 0
    <3> DEFINE h == [i \in 0..0 |-> HashToIP(t)]
    <3>1. Run(h, 0)
      OBVIOUS
    <3> QED BY <2>3, <2>4, <3>1
  <2>5. CASE n # 0
    <3>1. n - 1 \in 0..N /\ n - 1 \notin Bad
      BY <1>1, <2>2, <2>3, <2>5
    <3>2. PICK g : Run(g, n - 1)
      BY <3>1
    <3> DEFINE h == [i \in 0..n |-> IF i = n THEN NextIP(g[n - 1]) ELSE g[i]]
    <3>3. Run(h, n)
      BY <2>3, <2>5, <3>2
    <3> QED BY <2>3, <3>3
  <2> QED BY <2>4, <2>5
<1>3. \E g : Run(g, N)
  BY <1>1, <1>2
<1>4. Probe(t) = CHOOSE g : Run(g, N)
  BY DEF Probe
<1> DEFINE f == Probe(t)
<1>5. Run(f, N)
  <2> HIDE DEF f
  <2> QED BY <1>3, <1>4, Zenon DEF f
<1> QED BY <1>5

\* The loop starts inside the subnet.
LEMMA HashInSubnet ==
  ASSUME NEW t \in Task
  PROVE  HashToIP(t) \in 0..(Size - 1)
<1>1. Hash[t] \in Nat /\ Size \in Nat /\ Size > 0
  BY NetworkAssumptions
<1>2. CASE Size < 4
  BY <1>1, <1>2 DEF HashToIP
<1>3. CASE Size >= 4
  <2>1. Hash[t] % (Size - 2) \in 0..(Size - 3)
    BY <1>1, <1>3
  <2> QED BY <1>1, <1>3, <2>1 DEF HashToIP
<1> QED BY <1>1, <1>2, <1>3

\* The address of a round: up from the hash to the end of the subnet, then from .2 on,
\* for as long as that does not reach the end again.
LEMMA ProbeAddress ==
  ASSUME NEW t \in Task, NEW i \in 0..(MaxProbes - 1), HashToIP(t) + i < 2 * Size - 2
  PROVE  Probe(t)[i] = IF HashToIP(t) + i < Size THEN HashToIP(t) + i ELSE HashToIP(t) + i - Size + 2
<1> DEFINE h == HashToIP(t)
           At(j) == IF h + j < Size THEN h + j ELSE h + j - Size + 2
           Bad == {j \in 0..(MaxProbes - 1) : h + j < 2 * Size - 2 /\ Probe(t)[j] # At(j)}
<1>1. h \in 0..(Size - 1) /\ Size \in Nat /\ MaxProbes \in Nat
  BY HashInSubnet, NetworkAssumptions
<1>2. Bad = {}
  <2> SUFFICES ASSUME Bad # {} PROVE FALSE
    OBVIOUS
  <2>1. Bad \subseteq Nat
    BY <1>1
  <2>2. PICK n \in Bad : \A m \in Bad : n <= m
    <3> HIDE DEF Bad
    <3> QED BY <2>1, LeastNumber
  <2>3. n \in 0..(MaxProbes - 1) /\ n \in Nat /\ h + n < 2 * Size - 2 /\ Probe(t)[n] # At(n)
    BY <1>1
  <2>4. Probe(t)[n] = IF n = 0 THEN h ELSE NextIP(Probe(t)[n - 1])
    <3> HIDE DEF h
    <3> QED BY <2>3, ProbeRounds DEF h
  <2> HIDE DEF h
  <2>5. n # 0
    BY <1>1, <2>3, <2>4
  <2>6. Probe(t)[n - 1] = At(n - 1)
    BY <1>1, <2>2, <2>3, <2>5
  <2>7. NextIP(At(n - 1)) = At(n)
    BY <1>1, <2>3, <2>5 DEF NextIP
  <2> QED BY <2>3, <2>4, <2>5, <2>6, <2>7
<1>3. i \notin Bad
  BY <1>2
<1> QED BY <1>3

\* Every address from .2 on is that of some round.
LEMMA ProbeReaches ==
  ASSUME Size <= MaxProbes, NEW t \in Task, NEW a \in 2..(Size - 1)
  PROVE  \E i \in 0..(MaxProbes - 1) : Probe(t)[i] = a
<1> DEFINE h == HashToIP(t)
<1>1. h \in 0..(Size - 1) /\ Size \in Nat /\ MaxProbes \in Nat
  BY HashInSubnet, NetworkAssumptions
<1> HIDE DEF h
<1>2. CASE h <= a
  <2>1. a - h \in 0..(MaxProbes - 1) /\ h + (a - h) = a /\ a < Size /\ a < 2 * Size - 2
    BY <1>1, <1>2
  <2>2. Probe(t)[a - h] = a
    BY <2>1, ProbeAddress DEF h
  <2> QED BY <2>1, <2>2
<1>3. CASE a < h
  <2> DEFINE i == Size - h + a - 2
  <2>1. i \in 0..(MaxProbes - 1) /\ h + i = Size + a - 2 /\ h + i < 2 * Size - 2 /\ ~(h + i < Size)
        /\ h + i - Size + 2 = a
    BY <1>1, <1>3
  <2> HIDE DEF i
  <2>2. Probe(t)[i] = a
    BY <2>1, ProbeAddress DEF h
  <2> QED BY <2>1, <2>2
<1> QED BY <1>1, <1>2, <1>3

\* A round that finds a usable address ends the loop with an address.
LEMMA NoAddrIsExhaustion ==
  ASSUME NoAddr \notin DOMAIN allocated, NEW t \in Task, Allocate(t) = NoAddr,
         \A i \in 0..(MaxProbes - 1) : Probe(t)[i] # NoAddr
  PROVE  \A i \in 0..(MaxProbes - 1) : ~Usable(Probe(t)[i])
<1> DEFINE hits  == {i \in 0..(MaxProbes - 1) : Usable(Probe(t)[i])}
           first == {i \in hits : \A j \in hits : i <= j}
<1>1. Own(t) = {}
  BY AllocateResult DEF Own
<1>2. first = {}
  <2> SUFFICES ASSUME first # {} PROVE FALSE
    OBVIOUS
  <2>1. (CHOOSE i \in first : TRUE) \in first
    <3> HIDE DEF first
    <3> QED BY Zenon
  <2>2. Allocate(t) = Probe(t)[CHOOSE i \in first : TRUE]
    BY <1>1 DEF Allocate
  <2> QED BY <2>1, <2>2
<1>3. hits = {}
  <2> SUFFICES ASSUME hits # {} PROVE FALSE
    OBVIOUS
  <2>1. hits \subseteq Nat
    OBVIOUS
  <2>2. PICK n \in hits : \A m \in hits : n <= m
    <3> HIDE DEF hits
    <3> QED BY <2>1, LeastNumber
  <2> QED BY <1>2, <2>2
<1> QED BY <1>3

\* No round looks at a negative offset.
LEMMA ProbeIsAddress ==
  ASSUME NEW t \in Task, NEW i \in 0..(MaxProbes - 1)
  PROVE  Probe(t)[i] \in Nat
<1> DEFINE Bad == {j \in 0..(MaxProbes - 1) : Probe(t)[j] \notin Nat}
<1>1. MaxProbes \in Nat /\ Size \in Nat
  BY NetworkAssumptions
<1>2. Bad = {}
  <2> SUFFICES ASSUME Bad # {} PROVE FALSE
    OBVIOUS
  <2>1. Bad \subseteq Nat
    OBVIOUS
  <2>2. PICK n \in Bad : \A m \in Bad : n <= m
    <3> HIDE DEF Bad
    <3> QED BY <2>1, LeastNumber
  <2>3. Probe(t)[n] = IF n = 0 THEN HashToIP(t) ELSE NextIP(Probe(t)[n - 1])
    BY ProbeRounds
  <2>4. n = 0 \/ (n - 1 \in 0..(MaxProbes - 1) /\ n - 1 \notin Bad)
    BY <1>1, <2>2
  <2>5. n = 0 \/ Probe(t)[n - 1] \in Nat
    BY <2>4
  <2>6. HashToIP(t) \in Nat
    BY HashInSubnet, <1>1
  <2> QED BY <1>1, <2>3, <2>5, <2>6 DEF NextIP
<1> QED BY <1>2

\* No entry of the allocator is the absent address.
RealAddresses == NoAddr \notin DOMAIN allocated

LEMMA OnlyRealAddresses == Spec => []RealAddresses
<1>1. Init => RealAddresses
  BY DEF Init, RealAddresses
<1>2. ASSUME RealAddresses, Next PROVE RealAddresses'
  <2>1. ASSUME NEW t \in Task, ChooseAddress(t) PROVE RealAddresses'
    <3>1. allocated' = allocated \/ (Allocate(t) # NoAddr /\ allocated' = Put(allocated, Allocate(t), t))
      BY <2>1 DEF ChooseAddress
    <3> QED BY <1>2, <3>1 DEF RealAddresses, Put
  <2>2. ASSUME NEW r \in tapDevices, DropRecord(r) PROVE RealAddresses'
    BY <1>2, <2>2 DEF RealAddresses, DropRecord, Release, Delete
  <2>3. ASSUME allocated' = allocated PROVE RealAddresses'
    BY <1>2, <2>3 DEF RealAddresses
  <2> QED BY <1>2, <2>1, <2>2, <2>3 DEF Next, PrepareBegin, CreateTap, CreateTapFail, CNIAdd, CNIAddFail,
         CleanupBegin, CleanupEnd, CleanupEndDelFails, CleanupTap, CleanupTapFail
<1>3. RealAddresses /\ UNCHANGED vars => RealAddresses'
  BY DEF RealAddresses, vars
<1> QED BY <1>1, <1>2, <1>3, PTL DEF Spec

\* Allocate gives up only when every address from .2 on but the gateway's is in use, if
\* the subnet has no more addresses than the loop has rounds (256 in the code, which is
\* a /24): neither the limit of the loop nor its wrap-around hides a free address.
THEOREM ExhaustionIsReal ==
  ASSUME Size <= MaxProbes
  PROVE  Spec => []NoFalseExhaustion
<1>1. ASSUME RealAddresses PROVE NoFalseExhaustion
  <2> SUFFICES ASSUME NEW t \in Task, Allocate(t) = NoAddr, NEW a \in 2..(Size - 1)
               PROVE  a = Gateway \/ a \in DOMAIN allocated
    BY DEF NoFalseExhaustion
  <2>1. PICK i \in 0..(MaxProbes - 1) : Probe(t)[i] = a
    BY ProbeReaches
  <2>2. \A j \in 0..(MaxProbes - 1) : Probe(t)[j] # NoAddr
    BY ProbeIsAddress DEF NoAddr
  <2>3. ~Usable(Probe(t)[i])
    BY <1>1, <2>2, NoAddrIsExhaustion DEF RealAddresses
  <2> QED BY <2>1, <2>3 DEF Usable
<1> QED BY <1>1, OnlyRealAddresses, PTL

-----------------------------------------------------------------------------
(***************************************************************************)
(* The VXLAN overlay.                                                      *)
(***************************************************************************)

LEMMA OverlayInvInit == OverlayInit => OverlayInv
<1> SUFFICES ASSUME OverlayInit PROVE OverlayInv
  OBVIOUS
<1>1. bridges \in BOOLEAN /\ link \in BOOLEAN
  BY Zenon DEF OverlayInit
<1>2. registry \subseteq Peer /\ pending \subseteq Peer /\ found \subseteq Peer /\ fdb \subseteq Peer
  BY DEF OverlayInit
<1>3. OverlayTypeOK
  BY <1>1, <1>2 DEF OverlayInit, OverlayTypeOK, Commands
<1> QED BY <1>3 DEF OverlayInit, OverlayInv, HasManager, Backed

\* Every step keeps the types.
LEMMA OverlayTypeStep ==
  ASSUME OverlayTypeOK, HasManager, OverlayNext
  PROVE  OverlayTypeOK'
<1>1. ASSUME NEW c \in Thread, AlreadyThere(c) PROVE OverlayTypeOK'
  BY <1>1, OverlayAssumptions DEF AlreadyThere, MayEnsure, Goto, OverlayTypeOK, HasManager, Commands
<1>2. ASSUME NEW c \in Thread, BridgeFail(c) PROVE OverlayTypeOK'
  BY <1>2, OverlayAssumptions DEF BridgeFail, MayEnsure, Goto, Fail, OverlayTypeOK, HasManager, Commands
<1>3. ASSUME NEW c \in Thread, BridgeUp(c) PROVE OverlayTypeOK'
  BY <1>3, OverlayAssumptions DEF BridgeUp, MayEnsure, Goto, OverlayTypeOK, HasManager, Commands
<1>4. ASSUME NEW c \in Thread, NewManager(c) PROVE OverlayTypeOK'
  BY <1>4, OverlayAssumptions DEF NewManager, Goto, OverlayTypeOK, HasManager, Commands
<1>5. ASSUME NEW c \in Thread, NoInterface(c) PROVE OverlayTypeOK'
  BY <1>5, OverlayAssumptions DEF NoInterface, Goto, Fail, OverlayTypeOK, HasManager, Commands
<1>6. ASSUME NEW c \in Thread, FindInterface(c) PROVE OverlayTypeOK'
  BY <1>6, OverlayAssumptions DEF FindInterface, Forward, Goto, OverlayTypeOK, HasManager, Commands
<1>25. ASSUME NEW c \in Thread, AddInterface(c) PROVE OverlayTypeOK'
  BY <1>25, OverlayAssumptions DEF AddInterface, Forward, Goto, OverlayTypeOK, HasManager, Commands
<1>26. ASSUME NEW c \in Thread, InterfaceExists(c) PROVE OverlayTypeOK'
  BY <1>26, OverlayAssumptions DEF InterfaceExists, Goto, OverlayTypeOK, HasManager, Commands
<1>7. ASSUME NEW c \in Thread, InterfaceFail(c) PROVE OverlayTypeOK'
  <2>1. link' \in BOOLEAN
    BY <1>7, Zenon DEF InterfaceFail, OverlayTypeOK
  <2> QED BY <1>7, <2>1 DEF InterfaceFail, Goto, Fail, OverlayTypeOK, Commands
<1>8. ASSUME NEW c \in Thread, NEW p \in Peer, AddPeerForwarding(c, p) PROVE OverlayTypeOK'
  BY <1>8, OverlayAssumptions DEF AddPeerForwarding, OverlayTypeOK, HasManager, Commands
<1>9. ASSUME NEW c \in Thread, ForwardingFail(c) PROVE OverlayTypeOK'
  BY <1>9, OverlayAssumptions DEF ForwardingFail, Goto, Fail, OverlayTypeOK, HasManager, Commands
<1>10. ASSUME NEW c \in Thread, DrainRead(c) PROVE OverlayTypeOK'
  BY <1>10, OverlayAssumptions DEF DrainRead, Goto, OverlayTypeOK, HasManager, Commands
<1>11. ASSUME NEW c \in Thread, DrainClear(c) PROVE OverlayTypeOK'
  BY <1>11, OverlayAssumptions DEF DrainClear, Goto, OverlayTypeOK, HasManager, Commands
<1>12. ASSUME NEW c \in Thread, NEW failed \in SUBSET Peer, DrainApply(c, failed) PROVE OverlayTypeOK'
  BY <1>12, OverlayAssumptions DEF DrainApply, Goto, UpdatePeers, Fail, OverlayTypeOK, HasManager, Commands
<1>13. ASSUME NEW c \in Thread, StartPeerDiscovery(c) PROVE OverlayTypeOK'
  BY <1>13, OverlayAssumptions DEF StartPeerDiscovery, Goto, OverlayTypeOK, HasManager, Commands
<1>14. ASSUME NEW c \in Thread, DiscoveryFail(c) PROVE OverlayTypeOK'
  BY <1>14, OverlayAssumptions DEF DiscoveryFail, Goto, Fail, OverlayTypeOK, HasManager, Commands
<1>15. ASSUME NEW c \in Thread, MarkReady(c) PROVE OverlayTypeOK'
  BY <1>15, OverlayAssumptions DEF MarkReady, Goto, OverlayTypeOK, HasManager, Commands
<1>16. ASSUME WatchStart PROVE OverlayTypeOK'
  BY <1>16, OverlayAssumptions DEF WatchStart, OverlayTypeOK, HasManager, Commands
<1>27. ASSUME WatchStartFail PROVE OverlayTypeOK'
  BY <1>27, OverlayAssumptions DEF WatchStartFail, OverlayTypeOK, HasManager, Commands
<1>17. ASSUME WatchPoll PROVE OverlayTypeOK'
  BY <1>17, OverlayAssumptions DEF WatchPoll, OverlayTypeOK, HasManager, Commands
<1>18. ASSUME WatchCheck PROVE OverlayTypeOK'
  BY <1>18, OverlayAssumptions DEF WatchCheck, OverlayTypeOK, HasManager, Commands
<1>19. ASSUME WatchQueue PROVE OverlayTypeOK'
  BY <1>19, OverlayAssumptions DEF WatchQueue, OverlayTypeOK, HasManager, Commands
<1>20. ASSUME NEW failed \in SUBSET Peer, WatchUpdate(failed) PROVE OverlayTypeOK'
  BY <1>20, OverlayAssumptions DEF WatchUpdate, UpdatePeers, Fail, OverlayTypeOK, HasManager, Commands
<1>21. ASSUME NEW p \in Peer, Hear(p) PROVE OverlayTypeOK'
  BY <1>21, OverlayAssumptions DEF Hear, OverlayTypeOK, HasManager, Commands
<1>22. ASSUME HeardForward PROVE OverlayTypeOK'
  BY <1>22, OverlayAssumptions DEF HeardForward, OverlayTypeOK, HasManager, Commands
<1>23. ASSUME HeardFail PROVE OverlayTypeOK'
  BY <1>23, OverlayAssumptions DEF HeardFail, Fail, OverlayTypeOK, HasManager, Commands
<1>24. ASSUME NEW p \in Peer, RegistryChange(p) PROVE OverlayTypeOK'
  BY <1>24, OverlayAssumptions DEF RegistryChange, OverlayTypeOK, HasManager, Commands
<1> QED BY <1>1, <1>2, <1>3, <1>4, <1>5, <1>6, <1>7, <1>8, <1>9, <1>10, <1>11, <1>12, <1>13, <1>14, <1>15, <1>16, <1>17, <1>18, <1>19, <1>20, <1>21, <1>22, <1>23, <1>24,
      <1>25, <1>26, <1>27
    DEF OverlayNext, SetupStep, WatchStep, ListenStep

\* Once there is a manager there always is one.
LEMMA HasManagerStep ==
  ASSUME OverlayTypeOK, HasManager, OverlayNext
  PROVE  HasManager'
<1>1. ASSUME NEW c \in Thread, AlreadyThere(c) PROVE HasManager'
  BY <1>1, OverlayAssumptions DEF AlreadyThere, MayEnsure, Goto, OverlayTypeOK, HasManager
<1>2. ASSUME NEW c \in Thread, BridgeFail(c) PROVE HasManager'
  BY <1>2, OverlayAssumptions DEF BridgeFail, MayEnsure, Goto, Fail, OverlayTypeOK, HasManager
<1>3. ASSUME NEW c \in Thread, BridgeUp(c) PROVE HasManager'
  BY <1>3, OverlayAssumptions DEF BridgeUp, MayEnsure, Goto, OverlayTypeOK, HasManager
<1>4. ASSUME NEW c \in Thread, NewManager(c) PROVE HasManager'
  BY <1>4, OverlayAssumptions DEF NewManager, Goto, OverlayTypeOK, HasManager
<1>5. ASSUME NEW c \in Thread, NoInterface(c) PROVE HasManager'
  BY <1>5, OverlayAssumptions DEF NoInterface, Goto, Fail, OverlayTypeOK, HasManager
<1>6. ASSUME NEW c \in Thread, FindInterface(c) PROVE HasManager'
  BY <1>6, OverlayAssumptions DEF FindInterface, Forward, Goto, OverlayTypeOK, HasManager
<1>25. ASSUME NEW c \in Thread, AddInterface(c) PROVE HasManager'
  BY <1>25, OverlayAssumptions DEF AddInterface, Forward, Goto, OverlayTypeOK, HasManager
<1>26. ASSUME NEW c \in Thread, InterfaceExists(c) PROVE HasManager'
  BY <1>26, OverlayAssumptions DEF InterfaceExists, Goto, OverlayTypeOK, HasManager
<1>7. ASSUME NEW c \in Thread, InterfaceFail(c) PROVE HasManager'
  BY <1>7, OverlayAssumptions DEF InterfaceFail, Goto, Fail, OverlayTypeOK, HasManager
<1>8. ASSUME NEW c \in Thread, NEW p \in Peer, AddPeerForwarding(c, p) PROVE HasManager'
  BY <1>8, OverlayAssumptions DEF AddPeerForwarding, OverlayTypeOK, HasManager
<1>9. ASSUME NEW c \in Thread, ForwardingFail(c) PROVE HasManager'
  BY <1>9, OverlayAssumptions DEF ForwardingFail, Goto, Fail, OverlayTypeOK, HasManager
<1>10. ASSUME NEW c \in Thread, DrainRead(c) PROVE HasManager'
  BY <1>10, OverlayAssumptions DEF DrainRead, Goto, OverlayTypeOK, HasManager
<1>11. ASSUME NEW c \in Thread, DrainClear(c) PROVE HasManager'
  BY <1>11, OverlayAssumptions DEF DrainClear, Goto, OverlayTypeOK, HasManager
<1>12. ASSUME NEW c \in Thread, NEW failed \in SUBSET Peer, DrainApply(c, failed) PROVE HasManager'
  BY <1>12, OverlayAssumptions DEF DrainApply, Goto, UpdatePeers, Fail, OverlayTypeOK, HasManager
<1>13. ASSUME NEW c \in Thread, StartPeerDiscovery(c) PROVE HasManager'
  BY <1>13, OverlayAssumptions DEF StartPeerDiscovery, Goto, OverlayTypeOK, HasManager
<1>14. ASSUME NEW c \in Thread, DiscoveryFail(c) PROVE HasManager'
  BY <1>14, OverlayAssumptions DEF DiscoveryFail, Goto, Fail, OverlayTypeOK, HasManager
<1>15. ASSUME NEW c \in Thread, MarkReady(c) PROVE HasManager'
  BY <1>15, OverlayAssumptions DEF MarkReady, Goto, OverlayTypeOK, HasManager
<1>16. ASSUME WatchStart PROVE HasManager'
  BY <1>16, OverlayAssumptions DEF WatchStart, OverlayTypeOK, HasManager
<1>27. ASSUME WatchStartFail PROVE HasManager'
  BY <1>27, OverlayAssumptions DEF WatchStartFail, OverlayTypeOK, HasManager
<1>17. ASSUME WatchPoll PROVE HasManager'
  BY <1>17, OverlayAssumptions DEF WatchPoll, OverlayTypeOK, HasManager
<1>18. ASSUME WatchCheck PROVE HasManager'
  BY <1>18, OverlayAssumptions DEF WatchCheck, OverlayTypeOK, HasManager
<1>19. ASSUME WatchQueue PROVE HasManager'
  BY <1>19, OverlayAssumptions DEF WatchQueue, OverlayTypeOK, HasManager
<1>20. ASSUME NEW failed \in SUBSET Peer, WatchUpdate(failed) PROVE HasManager'
  BY <1>20, OverlayAssumptions DEF WatchUpdate, UpdatePeers, Fail, OverlayTypeOK, HasManager
<1>21. ASSUME NEW p \in Peer, Hear(p) PROVE HasManager'
  BY <1>21, OverlayAssumptions DEF Hear, OverlayTypeOK, HasManager
<1>22. ASSUME HeardForward PROVE HasManager'
  BY <1>22, OverlayAssumptions DEF HeardForward, OverlayTypeOK, HasManager
<1>23. ASSUME HeardFail PROVE HasManager'
  BY <1>23, OverlayAssumptions DEF HeardFail, Fail, OverlayTypeOK, HasManager
<1>24. ASSUME NEW p \in Peer, RegistryChange(p) PROVE HasManager'
  BY <1>24, OverlayAssumptions DEF RegistryChange, OverlayTypeOK, HasManager
<1> QED BY <1>1, <1>2, <1>3, <1>4, <1>5, <1>6, <1>7, <1>8, <1>9, <1>10, <1>11, <1>12, <1>13, <1>14, <1>15, <1>16, <1>17, <1>18, <1>19, <1>20, <1>21, <1>22, <1>23, <1>24,
      <1>25, <1>26, <1>27
    DEF OverlayNext, SetupStep, WatchStep, ListenStep

\* What has failed has failed.
LEMMA FaultsStay ==
  ASSUME OverlayTypeOK, OverlayNext
  PROVE  OnlyBridgeFailed' => OnlyBridgeFailed
<1>1. ASSUME NEW c \in Thread, AlreadyThere(c) PROVE OnlyBridgeFailed' => OnlyBridgeFailed
  BY <1>1 DEF AlreadyThere, MayEnsure, Goto, OverlayTypeOK, OnlyBridgeFailed, Commands
<1>2. ASSUME NEW c \in Thread, BridgeFail(c) PROVE OnlyBridgeFailed' => OnlyBridgeFailed
  BY <1>2 DEF BridgeFail, MayEnsure, Goto, Fail, OverlayTypeOK, OnlyBridgeFailed, Commands
<1>3. ASSUME NEW c \in Thread, BridgeUp(c) PROVE OnlyBridgeFailed' => OnlyBridgeFailed
  BY <1>3 DEF BridgeUp, MayEnsure, Goto, OverlayTypeOK, OnlyBridgeFailed, Commands
<1>4. ASSUME NEW c \in Thread, NewManager(c) PROVE OnlyBridgeFailed' => OnlyBridgeFailed
  BY <1>4 DEF NewManager, Goto, OverlayTypeOK, OnlyBridgeFailed, Commands
<1>5. ASSUME NEW c \in Thread, NoInterface(c) PROVE OnlyBridgeFailed' => OnlyBridgeFailed
  BY <1>5 DEF NoInterface, Goto, Fail, OverlayTypeOK, OnlyBridgeFailed, Commands
<1>6. ASSUME NEW c \in Thread, FindInterface(c) PROVE OnlyBridgeFailed' => OnlyBridgeFailed
  BY <1>6 DEF FindInterface, Forward, Goto, OverlayTypeOK, OnlyBridgeFailed, Commands
<1>25. ASSUME NEW c \in Thread, AddInterface(c) PROVE OnlyBridgeFailed' => OnlyBridgeFailed
  BY <1>25 DEF AddInterface, Forward, Goto, OverlayTypeOK, OnlyBridgeFailed, Commands
<1>26. ASSUME NEW c \in Thread, InterfaceExists(c) PROVE OnlyBridgeFailed' => OnlyBridgeFailed
  BY <1>26 DEF InterfaceExists, Goto, OverlayTypeOK, OnlyBridgeFailed, Commands
<1>7. ASSUME NEW c \in Thread, InterfaceFail(c) PROVE OnlyBridgeFailed' => OnlyBridgeFailed
  BY <1>7 DEF InterfaceFail, Goto, Fail, OverlayTypeOK, OnlyBridgeFailed, Commands
<1>8. ASSUME NEW c \in Thread, NEW p \in Peer, AddPeerForwarding(c, p) PROVE OnlyBridgeFailed' => OnlyBridgeFailed
  BY <1>8 DEF AddPeerForwarding, OverlayTypeOK, OnlyBridgeFailed, Commands
<1>9. ASSUME NEW c \in Thread, ForwardingFail(c) PROVE OnlyBridgeFailed' => OnlyBridgeFailed
  BY <1>9 DEF ForwardingFail, Goto, Fail, OverlayTypeOK, OnlyBridgeFailed, Commands
<1>10. ASSUME NEW c \in Thread, DrainRead(c) PROVE OnlyBridgeFailed' => OnlyBridgeFailed
  BY <1>10 DEF DrainRead, Goto, OverlayTypeOK, OnlyBridgeFailed, Commands
<1>11. ASSUME NEW c \in Thread, DrainClear(c) PROVE OnlyBridgeFailed' => OnlyBridgeFailed
  BY <1>11 DEF DrainClear, Goto, OverlayTypeOK, OnlyBridgeFailed, Commands
<1>12. ASSUME NEW c \in Thread, NEW failed \in SUBSET Peer, DrainApply(c, failed) PROVE OnlyBridgeFailed' => OnlyBridgeFailed
  BY <1>12 DEF DrainApply, Goto, UpdatePeers, Fail, OverlayTypeOK, OnlyBridgeFailed, Commands
<1>13. ASSUME NEW c \in Thread, StartPeerDiscovery(c) PROVE OnlyBridgeFailed' => OnlyBridgeFailed
  BY <1>13 DEF StartPeerDiscovery, Goto, OverlayTypeOK, OnlyBridgeFailed, Commands
<1>14. ASSUME NEW c \in Thread, DiscoveryFail(c) PROVE OnlyBridgeFailed' => OnlyBridgeFailed
  BY <1>14 DEF DiscoveryFail, Goto, Fail, OverlayTypeOK, OnlyBridgeFailed, Commands
<1>15. ASSUME NEW c \in Thread, MarkReady(c) PROVE OnlyBridgeFailed' => OnlyBridgeFailed
  BY <1>15 DEF MarkReady, Goto, OverlayTypeOK, OnlyBridgeFailed, Commands
<1>16. ASSUME WatchStart PROVE OnlyBridgeFailed' => OnlyBridgeFailed
  BY <1>16 DEF WatchStart, OverlayTypeOK, OnlyBridgeFailed, Commands
<1>27. ASSUME WatchStartFail PROVE OnlyBridgeFailed' => OnlyBridgeFailed
  BY <1>27 DEF WatchStartFail, OverlayTypeOK, OnlyBridgeFailed, Commands
<1>17. ASSUME WatchPoll PROVE OnlyBridgeFailed' => OnlyBridgeFailed
  BY <1>17 DEF WatchPoll, OverlayTypeOK, OnlyBridgeFailed, Commands
<1>18. ASSUME WatchCheck PROVE OnlyBridgeFailed' => OnlyBridgeFailed
  BY <1>18 DEF WatchCheck, OverlayTypeOK, OnlyBridgeFailed, Commands
<1>19. ASSUME WatchQueue PROVE OnlyBridgeFailed' => OnlyBridgeFailed
  BY <1>19 DEF WatchQueue, OverlayTypeOK, OnlyBridgeFailed, Commands
<1>20. ASSUME NEW failed \in SUBSET Peer, WatchUpdate(failed) PROVE OnlyBridgeFailed' => OnlyBridgeFailed
  BY <1>20 DEF WatchUpdate, UpdatePeers, Fail, OverlayTypeOK, OnlyBridgeFailed, Commands
<1>21. ASSUME NEW p \in Peer, Hear(p) PROVE OnlyBridgeFailed' => OnlyBridgeFailed
  BY <1>21 DEF Hear, OverlayTypeOK, OnlyBridgeFailed, Commands
<1>22. ASSUME HeardForward PROVE OnlyBridgeFailed' => OnlyBridgeFailed
  BY <1>22 DEF HeardForward, OverlayTypeOK, OnlyBridgeFailed, Commands
<1>23. ASSUME HeardFail PROVE OnlyBridgeFailed' => OnlyBridgeFailed
  BY <1>23 DEF HeardFail, Fail, OverlayTypeOK, OnlyBridgeFailed, Commands
<1>24. ASSUME NEW p \in Peer, RegistryChange(p) PROVE OnlyBridgeFailed' => OnlyBridgeFailed
  BY <1>24 DEF RegistryChange, OverlayTypeOK, OnlyBridgeFailed, Commands
<1> QED BY <1>1, <1>2, <1>3, <1>4, <1>5, <1>6, <1>7, <1>8, <1>9, <1>10, <1>11, <1>12, <1>13, <1>14, <1>15, <1>16, <1>17, <1>18, <1>19, <1>20, <1>21, <1>22, <1>23, <1>24,
      <1>25, <1>26, <1>27
    DEF OverlayNext, SetupStep, WatchStep, ListenStep

\* Every step keeps the store of the current manager backed: a thread that replaces the
\* manager starts over, and no other thread changes the store but by UpdatePeers.
LEMMA BackedStep ==
  ASSUME OverlayInv, OnlyBridgeFailed' => OnlyBridgeFailed, OverlayNext
  PROVE  Backed'
<1>1. ASSUME NEW c \in Thread, AlreadyThere(c) PROVE Backed'
  BY <1>1, OverlayAssumptions DEF AlreadyThere, MayEnsure, Goto, OverlayInv, OverlayTypeOK, HasManager, Backed, OnlyBridgeFailed, Commands
<1>2. ASSUME NEW c \in Thread, BridgeFail(c) PROVE Backed'
  BY <1>2, OverlayAssumptions DEF BridgeFail, MayEnsure, Goto, Fail, OverlayInv, OverlayTypeOK, HasManager, Backed, OnlyBridgeFailed, Commands
<1>3. ASSUME NEW c \in Thread, BridgeUp(c) PROVE Backed'
  BY <1>3, OverlayAssumptions DEF BridgeUp, MayEnsure, Goto, OverlayInv, OverlayTypeOK, HasManager, Backed, OnlyBridgeFailed, Commands
<1>4. ASSUME NEW c \in Thread, NewManager(c) PROVE Backed'
  BY <1>4, OverlayAssumptions DEF NewManager, Goto, OverlayInv, OverlayTypeOK, HasManager, Backed, OnlyBridgeFailed, Commands
<1>5. ASSUME NEW c \in Thread, NoInterface(c) PROVE Backed'
  BY <1>5, OverlayAssumptions DEF NoInterface, Goto, Fail, OverlayInv, OverlayTypeOK, HasManager, Backed, OnlyBridgeFailed, Commands
<1>6. ASSUME NEW c \in Thread, FindInterface(c) PROVE Backed'
  BY <1>6, OverlayAssumptions DEF FindInterface, Forward, Goto, OverlayInv, OverlayTypeOK, HasManager, Backed, OnlyBridgeFailed, Commands
<1>25. ASSUME NEW c \in Thread, AddInterface(c) PROVE Backed'
  BY <1>25, OverlayAssumptions DEF AddInterface, Forward, Goto, OverlayInv, OverlayTypeOK, HasManager, Backed, OnlyBridgeFailed, Commands
<1>26. ASSUME NEW c \in Thread, InterfaceExists(c) PROVE Backed'
  BY <1>26, OverlayAssumptions DEF InterfaceExists, Goto, OverlayInv, OverlayTypeOK, HasManager, Backed, OnlyBridgeFailed, Commands
<1>7. ASSUME NEW c \in Thread, InterfaceFail(c) PROVE Backed'
  BY <1>7, OverlayAssumptions DEF InterfaceFail, Goto, Fail, OverlayInv, OverlayTypeOK, HasManager, Backed, OnlyBridgeFailed, Commands
<1>8. ASSUME NEW c \in Thread, NEW p \in Peer, AddPeerForwarding(c, p) PROVE Backed'
  BY <1>8, OverlayAssumptions DEF AddPeerForwarding, OverlayInv, OverlayTypeOK, HasManager, Backed, OnlyBridgeFailed, Commands
<1>9. ASSUME NEW c \in Thread, ForwardingFail(c) PROVE Backed'
  BY <1>9, OverlayAssumptions DEF ForwardingFail, Goto, Fail, OverlayInv, OverlayTypeOK, HasManager, Backed, OnlyBridgeFailed, Commands
<1>10. ASSUME NEW c \in Thread, DrainRead(c) PROVE Backed'
  BY <1>10, OverlayAssumptions DEF DrainRead, Goto, OverlayInv, OverlayTypeOK, HasManager, Backed, OnlyBridgeFailed, Commands
<1>11. ASSUME NEW c \in Thread, DrainClear(c) PROVE Backed'
  BY <1>11, OverlayAssumptions DEF DrainClear, Goto, OverlayInv, OverlayTypeOK, HasManager, Backed, OnlyBridgeFailed, Commands
<1>12. ASSUME NEW c \in Thread, NEW failed \in SUBSET Peer, DrainApply(c, failed) PROVE Backed'
  BY <1>12, OverlayAssumptions DEF DrainApply, Goto, UpdatePeers, Fail, OverlayInv, OverlayTypeOK, HasManager, Backed, OnlyBridgeFailed, Commands
<1>13. ASSUME NEW c \in Thread, StartPeerDiscovery(c) PROVE Backed'
  BY <1>13, OverlayAssumptions DEF StartPeerDiscovery, Goto, OverlayInv, OverlayTypeOK, HasManager, Backed, OnlyBridgeFailed, Commands
<1>14. ASSUME NEW c \in Thread, DiscoveryFail(c) PROVE Backed'
  BY <1>14, OverlayAssumptions DEF DiscoveryFail, Goto, Fail, OverlayInv, OverlayTypeOK, HasManager, Backed, OnlyBridgeFailed, Commands
<1>15. ASSUME NEW c \in Thread, MarkReady(c) PROVE Backed'
  BY <1>15, OverlayAssumptions DEF MarkReady, Goto, OverlayInv, OverlayTypeOK, HasManager, Backed, OnlyBridgeFailed, Commands
<1>16. ASSUME WatchStart PROVE Backed'
  BY <1>16, OverlayAssumptions DEF WatchStart, OverlayInv, OverlayTypeOK, HasManager, Backed, OnlyBridgeFailed, Commands
<1>27. ASSUME WatchStartFail PROVE Backed'
  BY <1>27, OverlayAssumptions DEF WatchStartFail, OverlayInv, OverlayTypeOK, HasManager, Backed, OnlyBridgeFailed, Commands
<1>17. ASSUME WatchPoll PROVE Backed'
  BY <1>17, OverlayAssumptions DEF WatchPoll, OverlayInv, OverlayTypeOK, HasManager, Backed, OnlyBridgeFailed, Commands
<1>18. ASSUME WatchCheck PROVE Backed'
  BY <1>18, OverlayAssumptions DEF WatchCheck, OverlayInv, OverlayTypeOK, HasManager, Backed, OnlyBridgeFailed, Commands
<1>19. ASSUME WatchQueue PROVE Backed'
  BY <1>19, OverlayAssumptions DEF WatchQueue, OverlayInv, OverlayTypeOK, HasManager, Backed, OnlyBridgeFailed, Commands
<1>20. ASSUME NEW failed \in SUBSET Peer, WatchUpdate(failed) PROVE Backed'
  BY <1>20, OverlayAssumptions DEF WatchUpdate, UpdatePeers, Fail, OverlayInv, OverlayTypeOK, HasManager, Backed, OnlyBridgeFailed, Commands
<1>21. ASSUME NEW p \in Peer, Hear(p) PROVE Backed'
  BY <1>21, OverlayAssumptions DEF Hear, OverlayInv, OverlayTypeOK, HasManager, Backed, OnlyBridgeFailed, Commands
<1>22. ASSUME HeardForward PROVE Backed'
  BY <1>22, OverlayAssumptions DEF HeardForward, OverlayInv, OverlayTypeOK, HasManager, Backed, OnlyBridgeFailed, Commands
<1>23. ASSUME HeardFail PROVE Backed'
  BY <1>23, OverlayAssumptions DEF HeardFail, Fail, OverlayInv, OverlayTypeOK, HasManager, Backed, OnlyBridgeFailed, Commands
<1>24. ASSUME NEW p \in Peer, RegistryChange(p) PROVE Backed'
  BY <1>24, OverlayAssumptions DEF RegistryChange, OverlayInv, OverlayTypeOK, HasManager, Backed, OnlyBridgeFailed, Commands
<1> QED BY <1>1, <1>2, <1>3, <1>4, <1>5, <1>6, <1>7, <1>8, <1>9, <1>10, <1>11, <1>12, <1>13, <1>14, <1>15, <1>16, <1>17, <1>18, <1>19, <1>20, <1>21, <1>22, <1>23, <1>24,
      <1>25, <1>26, <1>27
    DEF OverlayNext, SetupStep, WatchStep, ListenStep

LEMMA OverlayInvNext == OverlayInv /\ [OverlayNext]_overlayVars => OverlayInv'
<1>1. ASSUME OverlayInv, OverlayNext PROVE OverlayInv'
  BY <1>1, OverlayTypeStep, HasManagerStep, FaultsStay, BackedStep DEF OverlayInv
<1>2. ASSUME OverlayInv, UNCHANGED overlayVars PROVE OverlayInv'
  BY <1>2 DEF OverlayInv, OverlayTypeOK, HasManager, Backed, OnlyBridgeFailed, overlayVars
<1> QED BY <1>1, <1>2

\* The inductive invariant of the overlay: also its types.
THEOREM OverlayInvariant == OverlaySpec => []OverlayInv
  BY OverlayInvInit, OverlayInvNext, PTL DEF OverlaySpec

\* Once the call of ensureBridge that made the current manager has set up its interface,
\* every peer in the manager's store has a forwarding entry or is about to get one
\* (VXLANManager.UpdatePeers, setupVXLANOverlay), however many calls overlap with it,
\* with the watcher and with the listener, as long as only bridges fail.
THEOREM CurrentStoreForwarded == OverlaySpec => []StoreForwarded
<1>1. OverlayInv => StoreForwarded
  BY DEF OverlayInv, Backed, StoreForwarded
<1> QED BY <1>1, OverlayInvariant, PTL
=============================================================================
