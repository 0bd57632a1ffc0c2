------------------------ MODULE ConfigVersions_proofs ------------------------
(***************************************************************************)
(* More theorems about ConfigReload in NSQ mode: which version of poule.yml*)
(* is in force.  An older one never replaces a newer one, the scheduled    *)
(* jobs start under the latest one installed, no merge is lost, and the    *)
(* registry implements ConfigRegistry.                                     *)
(*                                                                         *)
(* All rest on OneWriter of ConfigReload_proofs: what a goroutine has      *)
(* fetched for a repository can only grow old by a merge, never by another *)
(* refresh.                                                                *)
(***************************************************************************)
EXTENDS ConfigReload_proofs

\* The steps of a refresh at which it has the content of a file in hand.
Holding == {"lookup", "stop", "start", "store"}

(***************************************************************************)
(* Versions in force are not older than those in hand are not older than   *)
(* master's; and who has the version of master has its content.            *)
(***************************************************************************)
Bounded ==
    \A r \in Repos : configs[r] # None => configs[r].cron.ver <= master[r].ver

InOrder(p) ==
    LET r == task[p].repo
        got == task[p].got
    IN  /\ got.ver <= master[r].ver
        /\ got.ver = master[r].ver => got = master[r]
        /\ configs[r] # None => configs[r].cron.ver <= got.ver
        /\ pc[p] = "store" => task[p].cron.ver = got.ver

Versions ==
    /\ Bounded
    /\ \A p \in Procs : pc[p] \in Holding => InOrder(p)

VInv == IInv /\ Versions

\* The versions in force and in hand are numbers.
LEMMA VersionTypes ==
    ASSUME TypeInv
    PROVE  /\ \A r \in Repos : master[r].ver \in Nat
           /\ \A r \in Repos : configs[r] # None => configs[r].cron.ver \in Nat
           /\ \A p \in Procs : pc[p] \in Holding =>
                 task[p].repo \in Repos /\ task[p].got.ver \in Nat
BY DEF TypeInv, TypeOK, TaskOK, Idle, Holding, Content, Config, Cron

(***************************************************************************)
(* A step that leaves master, the map and whatever is in hand alone keeps  *)
(* the versions in order.                                                  *)
(***************************************************************************)
LEMMA VersionsKept ==
    ASSUME Versions, UNCHANGED <<master, configs>>,
           \A p \in Procs : pc'[p] \in Holding =>
               /\ pc[p] \in Holding
               /\ pc'[p] = "store" => pc[p] = "store"
               /\ task'[p].repo = task[p].repo
               /\ task'[p].got = task[p].got
               /\ task'[p].cron = task[p].cron \/ pc'[p] # "store"
    PROVE  Versions'
BY DEF Versions, Bounded, InOrder, Holding

\* The end of a refresh of which nothing is stored.
LEMMA VersionsReturn ==
    ASSUME TypeInv, Versions, UNCHANGED <<master, configs>>, NEW p \in Procs, Return(p)
    PROVE  Versions'
<1>1. \A q \in Procs : pc'[q] \in Holding => pc'[q] = pc[q] /\ task'[q] = task[q]
  BY DEF Return, TypeInv, TypeOK, Holding
<1> QED
  BY <1>1, VersionsKept

\* What is fetched is the newest.
LEMMA VersionsFetch ==
    ASSUME TypeInv, Versions, NEW p \in Procs, FetchList(p)
    PROVE  Versions'
<1> DEFINE r == task[p].repo
<1>1. r \in Repos
  BY DEF FetchList, TypeInv, TaskOK, Idle
<1>2. /\ task'[p].got = master[r] /\ task'[p].repo = r /\ pc'[p] = "lookup"
      /\ UNCHANGED <<master, configs>>
      /\ \A q \in Procs : q # p => pc'[q] = pc[q] /\ task'[q] = task[q]
  BY DEF FetchList, TypeInv, TypeOK, Task, server
<1>3. master[r].ver \in Nat
  BY <1>1, VersionTypes
<1>4. InOrder(p)'
  BY <1>1, <1>2, <1>3 DEF InOrder, Versions, Bounded
<1>5. Bounded'
  BY <1>2 DEF Versions, Bounded
<1>6. \A q \in Procs : q # p /\ pc'[q] \in Holding => InOrder(q)'
  BY <1>2 DEF Versions, InOrder
<1> QED
  BY <1>4, <1>5, <1>6 DEF Versions

\* The new scheduler is that of the version in hand.
LEMMA VersionsStart ==
    ASSUME TypeInv, Versions, NEW p \in Procs, StartCron(p)
    PROVE  Versions'
<1>1. /\ task'[p].got = task[p].got /\ task'[p].repo = task[p].repo
      /\ task'[p].cron = NewCron(p)
      /\ UNCHANGED <<master, configs>>
      /\ \A q \in Procs : q # p => pc'[q] = pc[q] /\ task'[q] = task[q]
  BY DEF StartCron, TypeInv, TypeOK, Task, remote
<1>2. NewCron(p).ver = task[p].got.ver
  BY DEF NewCron
<1>3. InOrder(p)
  BY DEF StartCron, Versions, Holding
<1>4. InOrder(p)'
  BY <1>1, <1>2, <1>3 DEF InOrder
<1>5. \A q \in Procs : q # p /\ pc'[q] \in Holding => InOrder(q)'
  BY <1>1 DEF Versions, InOrder
<1>6. Bounded'
  BY <1>1 DEF Versions, Bounded
<1> QED
  BY <1>4, <1>5, <1>6 DEF Versions

\* What a store changes: the entry of its repository, and the goroutine.
LEMMA StoreEffect ==
    ASSUME TypeInv, NEW p \in Procs, Store(p)
    PROVE  /\ task[p].repo \in Repos /\ task[p].got \in Content
           /\ configs'[task[p].repo] # None
           /\ configs'[task[p].repo].actions = task[p].got.file.actions
           /\ configs'[task[p].repo].cron = task[p].cron
           /\ \A s \in Repos : s # task[p].repo => configs'[s] = configs[s]
           /\ pc'[p] = "idle"
           /\ \A q \in Procs : q # p => pc'[q] = pc[q] /\ task'[q] = task[q]
           /\ UNCHANGED <<master, running, queue, missed, nextId, stage>>
<1> DEFINE e == [actions |-> task[p].got.file.actions, cron |-> task[p].cron]
<1>1. /\ task[p].repo \in Repos /\ task[p].got \in Content
      /\ task[p].got.file.actions \in Actions /\ task[p].cron \in Cron
  BY FilesAssumption DEF Store, TypeInv, TaskOK, Idle, Content, File
<1>2. e \in Config
  BY <1>1 DEF Config
<1>3. e # None
  BY <1>2, NoneAssumption
<1>4. configs' = [configs EXCEPT ![task[p].repo] = e]
  BY DEF Store
<1>5. configs'[task[p].repo] = e
  BY <1>1, <1>4 DEF TypeInv, TypeOK
<1> QED
  BY <1>1, <1>3, <1>4, <1>5 DEF Store, Return, TypeInv, TypeOK, remote

\* The version in hand comes into force; nobody else has one in hand.
LEMMA VersionsStore ==
    ASSUME Exclusive, VInv, NEW p \in Procs, Store(p)
    PROVE  Versions'
<1> DEFINE r == task[p].repo
<1>1. TypeInv /\ Versions
  BY DEF VInv, IInv
<1>2. InOrder(p) /\ pc[p] = "store"
  BY <1>1 DEF Store, Versions, Holding
<1>3. \A q \in Procs : q # p /\ ~Idle(q) => task[q].repo # r
  BY OneWriter DEF VInv, IInv, Idle, Store
<1>4. Bounded'
  BY <1>1, <1>2, StoreEffect DEF Versions, Bounded, InOrder
<1>5. ASSUME NEW q \in Procs, pc'[q] \in Holding PROVE InOrder(q)'
  <2>1. q # p
    BY <1>1, <1>5, StoreEffect DEF Holding
  <2>2. pc'[q] = pc[q] /\ task'[q] = task[q]
    BY <1>1, <2>1, StoreEffect
  <2>3. InOrder(q) /\ task[q].repo \in Repos
    BY <1>1, <1>5, <2>2, VersionTypes DEF Versions
  <2>4. configs'[task[q].repo] = configs[task[q].repo] /\ master' = master
    BY <1>1, <1>3, <1>5, <2>1, <2>2, <2>3, StoreEffect DEF Idle, Holding
  <2> QED
    BY <2>2, <2>3, <2>4 DEF InOrder
<1> QED
  BY <1>4, <1>5 DEF Versions

\* Every step keeps the versions in order.
LEMMA VersionsNext ==
    ASSUME Exclusive, VInv, [Next]_vars
    PROVE  Versions'
<1>0. TypeInv /\ Versions
  BY DEF VInv, IInv
<1>1. ASSUME NEW r \in Repos, Merge(r) PROVE Versions'
  <2>1. master[r].ver \in Nat
    BY <1>0, VersionTypes
  <2>2. /\ master'[r].ver = master[r].ver + 1
        /\ \A s \in Repos : s # r => master'[s] = master[s]
        /\ UNCHANGED <<configs, pc, task>>
    BY <1>0, <1>1 DEF Merge, TypeInv, TypeOK, Content, server
  <2>3. Bounded'
    BY <1>0, <2>1, <2>2, VersionTypes DEF Versions, Bounded
  <2>4. ASSUME NEW p \in Procs, pc[p] \in Holding PROVE InOrder(p)'
    <3>1. InOrder(p) /\ task[p].repo \in Repos /\ task[p].got.ver \in Nat
      BY <1>0, <2>4, VersionTypes DEF Versions
    <3>2. CASE task[p].repo = r
      BY <2>1, <2>2, <3>1, <3>2 DEF InOrder
    <3>3. CASE task[p].repo # r
      BY <2>2, <3>1, <3>3 DEF InOrder
    <3> QED
      BY <3>2, <3>3
  <2> QED
    BY <2>2, <2>3, <2>4 DEF Versions
<1>2. ASSUME NEW r \in Repos, BootNext(r) PROVE Versions'
  BY <1>0, <1>2, VersionsKept DEF BootNext, remote, server, Holding, TypeInv, TypeOK, Procs
<1>3. ASSUME NEW w \in Workers, NEW r \in Repos, NEW m \in queue[r],
             Deliver(w, r, m) \/ GiveUp(w, r, m)
      PROVE  Versions'
  BY <1>0, <1>3, VersionsKept DEF Deliver, GiveUp, server, Holding, TypeInv, TypeOK, Procs
<1>4. ASSUME NEW w \in Workers, Gather(w) \/ MsgTimeout(w) PROVE Versions'
  <2>1. \A p \in Procs : pc'[p] \in Holding =>
            /\ pc'[p] = pc[p] /\ task'[p].repo = task[p].repo
            /\ task'[p].got = task[p].got /\ task'[p].cron = task[p].cron
    BY <1>0, <1>4 DEF Gather, MsgTimeout, remote, server, Holding, TypeInv, TypeOK, Procs, Task
  <2> QED
    BY <1>0, <1>4, <2>1, VersionsKept DEF Gather, MsgTimeout, remote, server
<1>8. ASSUME NEW w \in Workers, ListFiles(w) PROVE Versions'
  <2>1. CASE ~task[w].msg.listed
    BY <1>0, <1>8, <2>1, VersionsReturn DEF ListFiles, server, Procs
  <2>2. CASE task[w].msg.listed
    BY <1>0, <1>8, <2>2, VersionsKept
    DEF ListFiles, server, Holding, TypeInv, TypeOK, Procs
  <2> QED
    BY <2>1, <2>2
<1>5. ASSUME NEW p \in Procs, Refresh(p) PROVE Versions'
  <2>1. CASE FetchMissing(p) \/ FetchError(p)
    BY <1>0, <2>1, VersionsReturn DEF FetchMissing, FetchError, ReturnError, server
  <2>2. CASE Lookup(p) \/ StopCron(p)
    <3>1. \A q \in Procs : pc'[q] \in Holding =>
              /\ pc[q] \in Holding
              /\ pc'[q] = "store" => pc[q] = "store"
              /\ task'[q].repo = task[q].repo
              /\ task'[q].got = task[q].got
              /\ task'[q].cron = task[q].cron \/ pc'[q] # "store"
      BY <1>0, <2>2 DEF Lookup, StopCron, Holding, TypeInv, TypeOK, Task
    <3> QED
      BY <1>0, <2>2, <3>1, VersionsKept DEF Lookup, StopCron, remote, server
  <2> QED
    BY <1>0, <1>5, <2>1, <2>2, VersionsFetch, VersionsStart, VersionsStore DEF Refresh
<1>6. ASSUME \/ Serve
             \/ Restart
             \/ \E c \in running : \E e \in c.entries : Fire(c, e)
             \/ \E j \in jobs : JobEnds(j)
             \/ UNCHANGED vars
      PROVE  Versions'
  BY <1>0, <1>6, VersionsKept DEF Serve, Restart, Fire, JobEnds, remote, server, vars
<1>7. ASSUME Die PROVE Versions'
  BY <1>7 DEF Die, Versions, Bounded, Holding
<1> QED
  BY <1>1, <1>2, <1>3, <1>4, <1>5, <1>6, <1>7, <1>8
  DEF Next, Handle, Load, Crash, RaceCrash, Procs

\* The versions are in order initially, and every step keeps them so.
LEMMA VersionsInv == Exclusive => (Spec => []VInv)
<1> SUFFICES ASSUME Exclusive PROVE Spec => []VInv
  OBVIOUS
<1>1. Init => VInv
  <2> SUFFICES ASSUME Init PROVE Versions
    BY SafeInit DEF VInv
  <2> QED
    BY DEF Init, Versions, Bounded, Holding
<1>2. VInv /\ [Next]_vars => VInv'
  BY SafeNext, VersionsNext DEF VInv
<1> QED
  BY <1>1, <1>2, PTL DEF Spec

-----------------------------------------------------------------------------
(***************************************************************************)
(* Only four kinds of steps move schedulers or the map.                    *)
(***************************************************************************)
LEMMA WhoMoves ==
    ASSUME [Next]_vars
    PROVE  \/ UNCHANGED <<running, configs, nextId>>
           \/ Die
           \/ \E p \in Procs : StopCron(p) \/ StartCron(p) \/ Store(p)
<1>1. ASSUME NEW p \in Procs, Refresh(p)
      PROVE  \/ UNCHANGED <<running, configs, nextId>>
             \/ StopCron(p) \/ StartCron(p) \/ Store(p)
  BY <1>1 DEF Refresh, FetchList, FetchMissing, FetchError, Lookup, server
<1>2. CASE \E w \in Workers : Handle(w)
  BY <1>1, <1>2 DEF Handle, Deliver, GiveUp, Gather, ListFiles, server, Procs
<1>3. CASE Load
  BY <1>1, <1>3 DEF Load, BootNext, Serve, server, Procs
<1>4. CASE \/ \E r \in Repos : Merge(r)
           \/ \E w \in Workers : MsgTimeout(w)
           \/ \E c \in running : \E e \in c.entries : Fire(c, e)
           \/ \E j \in jobs : JobEnds(j)
           \/ Restart
           \/ UNCHANGED vars
  BY <1>4 DEF Merge, MsgTimeout, Fire, JobEnds, Restart, server, vars
<1>5. CASE Crash \/ RaceCrash
  BY <1>5 DEF Crash, RaceCrash
<1> QED
  BY <1>2, <1>3, <1>4, <1>5 DEF Next

(***************************************************************************)
(* In NSQ mode an older configuration never replaces a newer one, and only *)
(* the end of the process takes one out of force.                          *)
(***************************************************************************)
THEOREM NeverBackwards == Exclusive => (Spec => ForwardOnly)
<1> SUFFICES ASSUME Exclusive PROVE Spec => ForwardOnly
  OBVIOUS
<1> DEFINE Forward == \A r \in Repos : configs[r] # None /\ stage' # "down" =>
                         configs'[r] # None /\ configs'[r].cron.ver >= configs[r].cron.ver
<1>1. VInv /\ [Next]_vars => [Forward]_vars
  <2> SUFFICES ASSUME VInv, Next PROVE Forward
    OBVIOUS
  <2>1. TypeInv /\ Versions
    BY DEF VInv, IInv
  <2>2. CASE UNCHANGED configs
    BY <2>1, <2>2, VersionTypes
  <2>3. CASE Die
    BY <2>3 DEF Die
  <2>4. ASSUME NEW p \in Procs, Store(p) PROVE Forward
    <3>1. InOrder(p) /\ pc[p] = "store" /\ task[p].got.ver \in Nat
      BY <2>1, <2>4, VersionTypes DEF Store, Versions, Holding
    <3> QED
      BY <2>1, <2>4, <3>1, StoreEffect, VersionTypes DEF InOrder
  <2>5. UNCHANGED configs \/ Die \/ \E p \in Procs : Store(p)
    BY WhoMoves DEF StopCron, StartCron
  <2> QED
    BY <2>2, <2>3, <2>4, <2>5
<1>2. Spec => [][Next]_vars
  BY DEF Spec
<1> QED
  BY <1>1, <1>2, VersionsInv, PTL DEF ForwardOnly

(***************************************************************************)
(* In NSQ mode no job starts under a scheduler that a reload has stopped   *)
(* or is about to replace.                                                 *)
(***************************************************************************)
THEOREM NoJobOfAnOldScheduler == Exclusive => (Spec => JobsStartCurrent)
<1> SUFFICES ASSUME Exclusive PROVE Spec => JobsStartCurrent
  OBVIOUS
<1> DEFINE Current == \A j \in jobs' \ jobs : \A p \in Procs :
                         pc[p] \in {"start", "store"} /\ task[p].repo = j.cron.repo
                             => task[p].cron = j.cron
<1>1. VInv /\ [Next]_vars => [Current]_vars
  <2> SUFFICES ASSUME VInv, Next PROVE Current
    OBVIOUS
  <2>1. CASE jobs' \subseteq jobs
    BY <2>1
  <2>2. ASSUME NEW c \in running, NEW e \in c.entries, Fire(c, e) PROVE Current
    <3>1. \A j \in jobs' \ jobs : j.cron = c
      BY <2>2 DEF Fire
    <3> QED
      BY <3>1 DEF VInv, IInv, InHand
  <2>3. jobs' \subseteq jobs \/ \E c \in running : \E e \in c.entries : Fire(c, e)
    BY DEF Next, Merge, Handle, Deliver, GiveUp, Gather, ListFiles, Refresh, FetchList,
           FetchMissing, FetchError, Lookup, StopCron, StartCron, Store, MsgTimeout, Load, BootNext, Serve,
           JobEnds, Crash, RaceCrash, Die, Restart, server
  <2> QED
    BY <2>1, <2>2, <2>3
<1>2. Spec => [][Next]_vars
  BY DEF Spec
<1> QED
  BY <1>1, <1>2, VersionsInv, PTL DEF JobsStartCurrent

-----------------------------------------------------------------------------
(***************************************************************************)
(* The registry implements ConfigRegistry.  A scheduler that starts is not *)
(* the one in force because identities are used once.                      *)
(***************************************************************************)
Identities ==
    /\ \A c \in running : c.id < nextId
    /\ \A r \in Repos : configs[r] # None => configs[r].cron.id < nextId

\* Every step keeps the identities below the next one.
LEMMA IdentitiesNext ==
    ASSUME IInv, Identities, [Next]_vars
    PROVE  Identities'
<1>0. TypeInv /\ nextId \in Nat
  BY DEF IInv, TypeInv, TypeOK
<1>1. CASE running' \subseteq running /\ UNCHANGED <<configs, nextId>>
  BY <1>1 DEF Identities
<1>2. ASSUME NEW p \in Procs, StartCron(p) PROVE Identities'
  <2>1. /\ running' = running \cup {NewCron(p)} /\ nextId' = nextId + 1
        /\ UNCHANGED configs
    BY <1>2 DEF StartCron
  <2>2. NewCron(p).id = nextId
    BY DEF NewCron
  <2>3. \A c \in running : c.id \in Nat
    BY <1>0 DEF TypeInv, TypeOK, Cron
  <2>4. \A r \in Repos : configs[r] # None => configs[r].cron.id \in Nat
    BY <1>0 DEF TypeInv, TypeOK, Config, Cron
  <2> QED
    BY <1>0, <2>1, <2>2, <2>3, <2>4 DEF Identities
<1>3. ASSUME NEW p \in Procs, Store(p) PROVE Identities'
  <2>1. task[p].cron \in running
    BY <1>3 DEF Store, IInv, InHand
  <2> QED
    BY <1>0, <1>3, <2>1, StoreEffect DEF Identities
<1>4. CASE Die
  BY <1>4 DEF Die, Identities
<1>5. ASSUME NEW p \in Procs, StopCron(p) PROVE Identities'
  BY <1>1, <1>5 DEF StopCron
<1> QED
  BY <1>1, <1>2, <1>3, <1>4, <1>5, WhoMoves

\* What is mapped does not change unless a scheduler or the map does.
LEMMA MappedKept ==
    ASSUME UNCHANGED <<running, configs>>
    PROVE  UNCHANGED <<Live, Stored>>
BY DEF Live, Stored

\* Stop retires the scheduler in force.
LEMMA StopRetires ==
    ASSUME IInv, NEW p \in Procs, StopCron(p)
    PROVE  Registry!Retire(task[p].repo)
<1> DEFINE r == task[p].repo
           c == task[p].cron
<1>1. /\ r \in Repos /\ c \in running /\ c.repo = r
      /\ configs[r] # None /\ c = configs[r].cron
  BY DEF StopCron, IInv, TypeInv, TaskOK, Idle, InHand, InForce
<1>2. running' = running \ {c} /\ configs' = configs
  BY DEF StopCron
<1>3. Live[r] = {c} /\ Stored[r] = c
  BY <1>1 DEF Live, Stored, IInv, OneScheduler
<1>4. Live' = [Live EXCEPT ![r] = {}]
  <2>1. \A s \in Repos : Live'[s] = IF s = r THEN {} ELSE Live[s]
    BY <1>1, <1>2 DEF Live, IInv, OneScheduler
  <2> QED
    BY <2>1 DEF Live
<1>5. Stored' = Stored
  BY <1>2 DEF Stored
<1> QED
  BY <1>3, <1>4, <1>5 DEF Registry!Retire

\* Start installs a scheduler that is newer in both senses.
LEMMA StartInstalls ==
    ASSUME VInv, Identities, NEW p \in Procs, StartCron(p)
    PROVE  Registry!Install(task[p].repo)
<1> DEFINE r == task[p].repo
           n == NewCron(p)
<1>0. TypeInv
  BY DEF VInv, IInv
<1>1. n.repo = r /\ r \in Repos /\ n.id = nextId /\ n.ver = task[p].got.ver
  BY <1>0 DEF NewCron, StartCron, TypeInv, TaskOK, Idle
<1>2. \A d \in running : d.repo # r
  BY DEF StartCron, VInv, IInv, InHand
<1>3. running' = running \cup {n} /\ configs' = configs
  BY DEF StartCron
<1>4. Live[r] = {} /\ Live'[r] = {n}
  BY <1>1, <1>2, <1>3 DEF Live
<1>5. Live' = [Live EXCEPT ![r] = {n}]
  <2>1. \A s \in Repos : Live'[s] = IF s = r THEN {n} ELSE Live[s]
    BY <1>1, <1>2, <1>3 DEF Live
  <2> QED
    BY <2>1 DEF Live
<1>6. Stored' = Stored
  BY <1>3 DEF Stored
<1>7. Stored[r] # None => n.ver >= Stored[r].ver
  <2>1. pc[p] \in Holding
    BY DEF StartCron, Holding
  <2>2. configs[r] # None => configs[r].cron.ver <= n.ver
    BY <1>1, <2>1 DEF VInv, Versions, InOrder
  <2>3. configs[r] # None => configs[r].cron.ver \in Nat /\ n.ver \in Nat
    BY <1>0, <1>1, <2>1, VersionTypes
  <2> QED
    BY <1>1, <2>2, <2>3 DEF Stored
<1>8. n # Stored[r]
  <2>1. n \in Cron /\ nextId \in Nat
    BY <1>0, NewCronType DEF StartCron, TypeInv, TypeOK, TaskOK, Idle
  <2>2. configs[r] # None => configs[r].cron # n
    BY <1>1, <2>1 DEF Identities
  <2> QED
    BY <1>1, <2>1, <2>2, NoneAssumption DEF Stored
<1> QED
  BY <1>4, <1>5, <1>6, <1>7, <1>8 DEF Registry!Install

\* The store publishes the scheduler that runs.
LEMMA StorePublishes ==
    ASSUME IInv, NEW p \in Procs, Store(p)
    PROVE  Registry!Publish(task[p].repo)
<1> DEFINE r == task[p].repo
           c == task[p].cron
<1>0. TypeInv
  BY DEF IInv
<1>1. r \in Repos /\ c \in running /\ c.repo = r
  BY <1>0, StoreEffect DEF Store, IInv, InHand
<1>2. c \in Live[r] /\ Live' = Live
  BY <1>0, <1>1, StoreEffect DEF Live
<1>3. Stored' = [Stored EXCEPT ![r] = c]
  <2>1. \A s \in Repos : Stored'[s] = IF s = r THEN c ELSE Stored[s]
    BY <1>0, <1>1, StoreEffect DEF Stored
  <2> QED
    BY <2>1 DEF Stored
<1> QED
  BY <1>2, <1>3 DEF Registry!Publish

(***************************************************************************)
(* In NSQ mode the steps of a refresh, taken together with crashes, do to  *)
(* the schedulers of a repository what ConfigRegistry allows.              *)
(***************************************************************************)
THEOREM RegistryImplemented == Exclusive => (Spec => RegistrySpec)
<1> SUFFICES ASSUME Exclusive PROVE Spec => RegistrySpec
  OBVIOUS
<1>1. Init => Registry!Init /\ Identities
  <2> SUFFICES ASSUME Init PROVE Registry!Init /\ Identities
    OBVIOUS
  <2>1. Live = [r \in Repos |-> {}] /\ Stored = [r \in Repos |-> None]
    BY DEF Init, Live, Stored
  <2>2. Identities
    BY DEF Init, Identities
  <2> QED
    BY <2>1, <2>2 DEF Registry!Init
<1>2. VInv /\ Identities /\ [Next]_vars => [Registry!Next]_(Registry!vars)
  <2> SUFFICES ASSUME VInv, Identities, [Next]_vars
               PROVE  Registry!Next \/ UNCHANGED <<Live, Stored>>
    BY DEF Registry!vars
  <2>1. IInv /\ TypeInv
    BY DEF VInv, IInv
  <2>2. CASE UNCHANGED <<running, configs>>
    BY <2>2, MappedKept
  <2>3. CASE Die
    <3>1. Live' = [r \in Repos |-> {}] /\ Stored' = [r \in Repos |-> None]
      BY <2>3 DEF Die, Live, Stored
    <3> QED
      BY <3>1 DEF Registry!Next, Registry!Reset
  <2>4. ASSUME NEW p \in Procs, StopCron(p) \/ StartCron(p) \/ Store(p)
        PROVE  Registry!Next
    <3>1. task[p].repo \in Repos
      BY <2>1, <2>4 DEF StopCron, StartCron, Store, TypeInv, TaskOK, Idle
    <3>2. \/ Registry!Retire(task[p].repo) \/ Registry!Install(task[p].repo)
          \/ Registry!Publish(task[p].repo)
      BY <2>1, <2>4, StopRetires, StartInstalls, StorePublishes
    <3> QED
      BY <3>1, <3>2 DEF Registry!Next
  <2> QED
    BY <2>2, <2>3, <2>4, WhoMoves
<1>3. VInv /\ Identities /\ [Next]_vars => Identities'
  BY IdentitiesNext DEF VInv
<1>4. Spec => Init /\ [][Next]_vars
  BY DEF Spec
<1> QED
  BY <1>1, <1>2, <1>3, <1>4, VersionsInv, PTL DEF RegistrySpec, Registry!Spec

-----------------------------------------------------------------------------
(***************************************************************************)
(* No merge is lost.  At every moment a repository that was not given up   *)
(* on is up to date, or has an event queued, or is being refreshed; what a *)
(* refresh holds is the file on master, or an event is queued that will    *)
(* fetch it again.  A handler whose message was timed out has it in the    *)
(* queue, so that an error of its loses nothing.                           *)
(***************************************************************************)
Loads ==
    /\ stage = "serving" => todo = {}
    /\ stage = "down" => todo = Repos

Requeued ==
    \A w \in Workers :
        ~Idle(w) /\ Persistent /\ ~task[w].held => task[w].msg \in queue[task[w].repo]

Fetched ==
    \A p \in Procs : pc[p] \in Holding =>
        LET r == task[p].repo IN task[p].got = master[r] \/ queue[r] # {} \/ r \in missed

Covered ==
    \A r \in Repos : r \in todo \/ r \in missed \/ UpToDate(r) \/ queue[r] # {} \/ Busy(r)

NothingLost == Loads /\ Requeued /\ Fetched /\ Covered

QInv == VInv /\ NothingLost

\* Nobody else is at work for a repository whose events a worker can take.
LEMMA FreeServer ==
    ASSUME Exclusive, IInv, stage = "serving",
           NEW w \in Workers, Idle(w), NEW r \in Serves[w]
    PROVE  \A p \in Procs : ~Idle(p) => task[p].repo # r
<1> SUFFICES ASSUME NEW p \in Procs, ~Idle(p), task[p].repo = r PROVE FALSE
  OBVIOUS
<1>1. p \in Workers
  BY DEF IInv, Stages, Procs
<1> QED
  BY <1>1, ReloadAssumption DEF IInv, Assigned, Exclusive

(***************************************************************************)
(* A step that takes nothing from a queue, forgets no repository given up  *)
(* on, and leaves the refreshes and what they hold alone.                  *)
(***************************************************************************)
LEMMA LostKept ==
    ASSUME NothingLost, UNCHANGED <<master, configs, stage, todo>>,
           \A r \in Repos : queue[r] \subseteq queue'[r],
           missed \subseteq missed',
           \A p \in Procs :
               /\ Idle(p) = Idle(p)' /\ task'[p].repo = task[p].repo
               /\ task'[p].msg = task[p].msg /\ task'[p].held = task[p].held
               /\ pc'[p] \in Holding => pc[p] \in Holding /\ task'[p].got = task[p].got,
           TypeInv
    PROVE  NothingLost'
<1>1. \A p \in Procs : ~Idle(p) => task[p].repo \in Repos
  BY DEF TypeInv, TaskOK
<1>2. \A p \in Procs : pc[p] \in Holding => ~Idle(p)
  BY DEF Holding, Idle
<1>3. Loads'
  BY DEF NothingLost, Loads
<1>4. Requeued'
  BY <1>1 DEF NothingLost, Requeued, Procs
<1>5. Fetched'
  BY <1>1, <1>2 DEF NothingLost, Fetched
<1>6. Covered'
  <2> SUFFICES ASSUME NEW r \in Repos
               PROVE  (r \in todo \/ r \in missed \/ UpToDate(r) \/ queue[r] # {} \/ Busy(r))'
    BY DEF Covered
  <2>1. Busy(r) => Busy(r)'
    BY DEF Busy
  <2>2. UpToDate(r) => UpToDate(r)'
    BY DEF UpToDate
  <2> QED
    BY <2>1, <2>2 DEF NothingLost, Covered
<1> QED
  BY <1>3, <1>4, <1>5, <1>6 DEF NothingLost

(***************************************************************************)
(* The end of a refresh loses nothing if its repository is up to date, in  *)
(* a queue or given up on.                                                 *)
(***************************************************************************)
LEMMA LostReturn ==
    ASSUME Exclusive, QInv, NEW p \in Procs, ~Idle(p), Return(p),
           NEW r, r = task[p].repo,
           UNCHANGED <<master, stage>>,
           \A s \in Repos : queue[s] \subseteq queue'[s],
           missed \ {r} \subseteq missed',
           \A s \in Repos \ {r} : configs'[s] = configs[s],
           r \in missed' \/ UpToDate(r)' \/ queue'[r] # {}
    PROVE  NothingLost'
<1>1. TypeInv /\ NothingLost /\ IInv
  BY DEF QInv, VInv, IInv
<1>2. r \in Repos /\ \A q \in Procs : ~Idle(q) => task[q].repo \in Repos
  BY <1>1 DEF TypeInv, TaskOK
<1>3. \A q \in Procs : q # p /\ ~Idle(q) => task[q].repo # r
  BY <1>1, OneWriter DEF IInv
<1>4. /\ pc'[p] = "idle"
      /\ \A q \in Procs : q # p => pc'[q] = pc[q] /\ task'[q] = task[q]
  BY <1>1 DEF Return, TypeInv, TypeOK
<1>5. Loads'
  <2>1. stage # "down"
    BY <1>1 DEF IInv, Stages, Procs
  <2> QED
    BY <1>1, <2>1 DEF NothingLost, Loads, Return
<1>6. Requeued'
  BY <1>1, <1>2, <1>4 DEF NothingLost, Requeued, Procs, Idle
<1>7. Fetched'
  <2> SUFFICES ASSUME NEW q \in Procs, pc'[q] \in Holding
               PROVE  \/ task'[q].got = master'[task'[q].repo]
                      \/ queue'[task'[q].repo] # {}
                      \/ task'[q].repo \in missed'
    BY DEF Fetched
  <2>1. q # p
    BY <1>4 DEF Holding
  <2>2. ~Idle(q) /\ pc[q] \in Holding /\ task'[q] = task[q]
    BY <1>4, <2>1 DEF Holding, Idle
  <2> QED
    BY <1>1, <1>2, <1>3, <2>1, <2>2 DEF NothingLost, Fetched
<1>8. Covered'
  <2> SUFFICES ASSUME NEW s \in Repos
               PROVE  (s \in todo \/ s \in missed \/ UpToDate(s) \/ queue[s] # {} \/ Busy(s))'
    BY DEF Covered
  <2>1. CASE s = r
    BY <2>1
  <2>2. CASE s # r
    <3>1. Busy(s) => Busy(s)'
      BY <1>4, <2>2 DEF Busy, Idle
    <3>2. UpToDate(s) => UpToDate(s)'
      BY <2>2 DEF UpToDate
    <3>3. s \in todo => s \in todo'
      BY <2>2 DEF Return
    <3> QED
      BY <1>1, <2>2, <3>1, <3>2, <3>3 DEF NothingLost, Covered
  <2> QED
    BY <2>1, <2>2
<1> QED
  BY <1>5, <1>6, <1>7, <1>8 DEF NothingLost

\* A refresh that returns an error has its event queued, or is given up on.
LEMMA LostError ==
    ASSUME Exclusive, QInv, NEW p \in Procs, FetchError(p)
    PROVE  NothingLost'
<1> DEFINE r == task[p].repo
<1>1. TypeInv /\ NothingLost
  BY DEF QInv, VInv, IInv
<1>2. ~Idle(p) /\ Return(p) /\ UNCHANGED <<master, stage, configs>>
  BY DEF FetchError, ReturnError, Idle, server
<1>3. r \in Repos
  BY <1>1, <1>2 DEF TypeInv, TaskOK
<1>4. \A s \in Repos : queue[s] \subseteq queue'[s]
  BY <1>1, <1>3 DEF FetchError, ReturnError, TypeInv, TypeOK
<1>5. missed \subseteq missed'
  BY DEF FetchError, ReturnError
<1>6. r \in missed' \/ queue'[r] # {}
  <2>1. CASE p = Boot \/ ~Persistent
    BY <2>1 DEF FetchError, ReturnError
  <2>2. CASE p # Boot /\ Persistent /\ task[p].held
    BY <1>1, <1>3, <2>2 DEF FetchError, ReturnError, TypeInv, TypeOK
  <2>3. CASE p # Boot /\ Persistent /\ ~task[p].held
    BY <1>1, <1>2, <1>3, <1>4, <2>3 DEF NothingLost, Requeued, Procs
  <2> QED
    BY <2>1, <2>2, <2>3
<1> QED
  BY <1>2, <1>4, <1>5, <1>6, LostReturn

\* What is stored is the file on master, or that will be fetched again.
LEMMA LostStore ==
    ASSUME Exclusive, QInv, NEW p \in Procs, Store(p)
    PROVE  NothingLost'
<1>1. TypeInv /\ NothingLost /\ Versions /\ pc[p] \in Holding /\ pc[p] = "store"
  BY DEF QInv, VInv, IInv, Store, Holding
<1>2. PICK r \in Repos : r = task[p].repo
  BY <1>1, StoreEffect
<1>3. task[p].got = master[r] => UpToDate(r)'
  <2>1. task[p].cron.ver = task[p].got.ver
    BY <1>1 DEF Versions, InOrder
  <2> QED
    BY <1>1, <1>2, <2>1, StoreEffect DEF UpToDate
<1>4. ~Idle(p) /\ Return(p)
  BY DEF Store, Idle
<1>5. /\ UNCHANGED <<master, stage, queue, missed>>
      /\ \A s \in Repos \ {r} : configs'[s] = configs[s]
  BY <1>1, <1>2, StoreEffect
<1>6. r \in missed' \/ UpToDate(r)' \/ queue'[r] # {}
  BY <1>1, <1>2, <1>3, <1>5 DEF NothingLost, Fetched
<1> QED
  BY <1>2, <1>4, <1>5, <1>6, LostReturn

\* What is fetched is the file on master.
LEMMA LostFetch ==
    ASSUME Exclusive, QInv, NEW p \in Procs, FetchList(p)
    PROVE  NothingLost'
<1> DEFINE r == task[p].repo
<1>1. TypeInv /\ NothingLost /\ IInv
  BY DEF QInv, VInv, IInv
<1>2. ~Idle(p) /\ \A q \in Procs : ~Idle(q) => task[q].repo \in Repos
  BY <1>1 DEF FetchList, TypeInv, TaskOK, Idle
<1>3. \A q \in Procs : q # p /\ ~Idle(q) => task[q].repo # r
  BY <1>1, <1>2, OneWriter DEF IInv
<1>4. /\ pc'[p] = "lookup" /\ task'[p].repo = r /\ task'[p].got = master[r]
      /\ task'[p].msg = task[p].msg /\ task'[p].held = task[p].held
      /\ \A q \in Procs : q # p => pc'[q] = pc[q] /\ task'[q] = task[q]
      /\ missed' = missed \ {r} /\ UNCHANGED <<master, queue, stage, todo, configs>>
  BY <1>1 DEF FetchList, TypeInv, TypeOK, Task, server
<1>5. \A q \in Procs : Idle(q)' = Idle(q)
  BY <1>2, <1>4 DEF Idle
<1>6. Loads'
  BY <1>1, <1>4 DEF NothingLost, Loads
<1>7. Requeued'
  <2> SUFFICES ASSUME NEW w \in Workers, ~Idle(w)', Persistent, ~task'[w].held
               PROVE  task'[w].msg \in queue'[task'[w].repo]
    BY DEF Requeued
  <2>1. w \in Procs /\ ~Idle(w)
    BY <1>5 DEF Procs
  <2>2. task'[w].held = task[w].held /\ task'[w].msg = task[w].msg /\ task'[w].repo = task[w].repo
    BY <1>4, <2>1
  <2> QED
    BY <1>1, <1>4, <2>1, <2>2 DEF NothingLost, Requeued
<1>8. Fetched'
  <2> SUFFICES ASSUME NEW q \in Procs, pc'[q] \in Holding
               PROVE  \/ task'[q].got = master'[task'[q].repo]
                      \/ queue'[task'[q].repo] # {}
                      \/ task'[q].repo \in missed'
    BY DEF Fetched
  <2>1. CASE q = p
    BY <1>4, <2>1
  <2>2. CASE q # p
    BY <1>1, <1>3, <1>4, <2>2 DEF NothingLost, Fetched, Holding, Idle
  <2> QED
    BY <2>1, <2>2
<1>9. Covered'
  <2> SUFFICES ASSUME NEW s \in Repos
               PROVE  (s \in todo \/ s \in missed \/ UpToDate(s) \/ queue[s] # {} \/ Busy(s))'
    BY DEF Covered
  <2>1. CASE s = r
    BY <1>2, <1>4, <1>5, <2>1 DEF Busy
  <2>2. CASE s # r
    <3>1. Busy(s) => Busy(s)'
      BY <1>4, <1>5 DEF Busy
    <3>2. UpToDate(s) => UpToDate(s)'
      BY <1>4 DEF UpToDate
    <3> QED
      BY <1>1, <1>4, <2>2, <3>1, <3>2 DEF NothingLost, Covered
  <2> QED
    BY <2>1, <2>2
<1> QED
  BY <1>6, <1>7, <1>8, <1>9 DEF NothingLost

\* A merge is queued, or known to be missed.
LEMMA LostMerge ==
    ASSUME QInv, NEW r \in Repos, Merge(r)
    PROVE  NothingLost'
<1>1. TypeInv /\ NothingLost
  BY DEF QInv, VInv, IInv
<1>2. /\ \A s \in Repos \ {r} : master'[s] = master[s]
      /\ \A s \in Repos : queue[s] \subseteq queue'[s]
      /\ missed \subseteq missed'
      /\ queue'[r] # {} \/ r \in missed'
      /\ UNCHANGED <<stage, todo, configs, pc, task>>
  <2>1. \A s \in Repos \ {r} : master'[s] = master[s]
    BY <1>1 DEF Merge, TypeInv, TypeOK
  <2>2. UNCHANGED <<stage, todo, configs, pc, task>>
    BY DEF Merge, server
  <2>3. CASE Persistent \/ stage = "serving"
    <3>1. PICK l \in Listings :
              queue' = [queue EXCEPT ![r] = @ \cup
                          {[ver |-> master[r].ver + 1, attempts |-> 0, listed |-> l]}]
      BY <2>3 DEF Merge
    <3> DEFINE m == [ver |-> master[r].ver + 1, attempts |-> 0, listed |-> l]
    <3>2. queue' = [queue EXCEPT ![r] = @ \cup {m}] /\ missed' = missed
      BY <2>3, <3>1 DEF Merge
    <3> HIDE DEF m
    <3> QED
      BY <1>1, <2>1, <2>2, <3>2 DEF TypeInv, TypeOK
  <2>4. CASE ~(Persistent \/ stage = "serving")
    BY <2>1, <2>2, <2>4 DEF Merge
  <2> QED
    BY <2>3, <2>4
<1>3. \A p \in Procs : ~Idle(p) => task[p].repo \in Repos
  BY <1>1 DEF TypeInv, TaskOK
<1>4. Loads'
  BY <1>1, <1>2 DEF NothingLost, Loads
<1>5. Requeued'
  BY <1>1, <1>2, <1>3 DEF NothingLost, Requeued, Idle, Procs
<1>6. Fetched'
  BY <1>1, <1>2, <1>3 DEF NothingLost, Fetched, Holding, Idle
<1>7. Covered'
  <2> SUFFICES ASSUME NEW s \in Repos
               PROVE  (s \in todo \/ s \in missed \/ UpToDate(s) \/ queue[s] # {} \/ Busy(s))'
    BY DEF Covered
  <2>1. CASE s = r
    BY <1>2, <2>1
  <2>2. CASE s # r
    <3>1. Busy(s) => Busy(s)'
      BY <1>2 DEF Busy, Idle
    <3>2. UpToDate(s) => UpToDate(s)'
      BY <1>2, <2>2 DEF UpToDate
    <3> QED
      BY <1>1, <1>2, <3>1, <3>2 DEF NothingLost, Covered
  <2> QED
    BY <2>1, <2>2
<1> QED
  BY <1>4, <1>5, <1>6, <1>7 DEF NothingLost

\* A repository is visited at startup.
LEMMA LostBoot ==
    ASSUME QInv, NEW r \in Repos, BootNext(r)
    PROVE  NothingLost'
<1>1. TypeInv /\ NothingLost
  BY DEF QInv, VInv, IInv
<1>2. /\ \A p \in Procs : p # Boot => pc'[p] = pc[p] /\ task'[p] = task[p]
      /\ pc'[Boot] = "fetch" /\ Idle(Boot)
      /\ UNCHANGED <<master, queue, missed, stage, todo, configs>>
  BY <1>1 DEF BootNext, TypeInv, TypeOK, remote, server, Procs
<1>3. Loads'
  BY <1>1, <1>2 DEF NothingLost, Loads
<1>4. Requeued'
  BY <1>1, <1>2, ReloadAssumption DEF NothingLost, Requeued, Idle, Procs
<1>5. Fetched'
  BY <1>1, <1>2 DEF NothingLost, Fetched, Holding
<1>6. Covered'
  <2>1. \A s \in Repos : Busy(s) => Busy(s)'
    BY <1>2 DEF Busy, Idle
  <2>2. \A s \in Repos : UpToDate(s) => UpToDate(s)'
    BY <1>2 DEF UpToDate
  <2> QED
    BY <1>1, <1>2, <2>1, <2>2 DEF NothingLost, Covered
<1> QED
  BY <1>3, <1>4, <1>5, <1>6 DEF NothingLost

(***************************************************************************)
(* An event taken from its queue is being handled, or was given up on; no  *)
(* other goroutine counted on it.                                          *)
(***************************************************************************)
LEMMA LostTake ==
    ASSUME Exclusive, QInv, NEW w \in Workers, NEW r \in Repos, NEW m \in queue[r],
           Deliver(w, r, m) \/ GiveUp(w, r, m)
    PROVE  NothingLost'
<1>1. TypeInv /\ NothingLost /\ IInv /\ w \in Procs
  BY DEF QInv, VInv, IInv, Procs
<1>2. /\ \A p \in Procs \ {w} : pc'[p] = pc[p] /\ task'[p] = task[p]
      /\ Idle(w) /\ stage = "serving" /\ r \in Serves[w]
      /\ \A s \in Repos \ {r} : queue'[s] = queue[s]
      /\ missed \subseteq missed'
      /\ UNCHANGED <<master, stage, todo, configs>>
  BY <1>1 DEF Deliver, GiveUp, TypeInv, TypeOK, server
<1>3. \/ r \in missed' /\ pc'[w] = "idle"
      \/ pc'[w] = "read" /\ task'[w].repo = r /\ task'[w].held = Persistent
  BY <1>1 DEF Deliver, GiveUp, TypeInv, TypeOK, Idle, NoTask
<1>4. \A p \in Procs : ~Idle(p) => task[p].repo # r /\ task[p].repo \in Repos
  BY <1>1, <1>2, FreeServer DEF TypeInv, TaskOK
<1>5. Loads'
  BY <1>1, <1>2 DEF NothingLost, Loads
<1>6. Requeued'
  <2> SUFFICES ASSUME NEW v \in Workers, ~Idle(v)', Persistent, ~task'[v].held
               PROVE  task'[v].msg \in queue'[task'[v].repo]
    BY DEF Requeued
  <2>1. v # w /\ v \in Procs
    BY <1>3 DEF Idle, Procs
  <2>2. ~Idle(v) /\ task'[v] = task[v]
    BY <1>2, <2>1 DEF Idle
  <2> QED
    BY <1>1, <1>2, <1>4, <2>1, <2>2 DEF NothingLost, Requeued
<1>7. Fetched'
  <2> SUFFICES ASSUME NEW q \in Procs, pc'[q] \in Holding
               PROVE  \/ task'[q].got = master'[task'[q].repo]
                      \/ queue'[task'[q].repo] # {}
                      \/ task'[q].repo \in missed'
    BY DEF Fetched
  <2>1. q # w
    BY <1>3 DEF Holding
  <2>2. ~Idle(q) /\ pc[q] \in Holding /\ task'[q] = task[q]
    BY <1>2, <2>1 DEF Idle, Holding
  <2> QED
    BY <1>1, <1>2, <1>4, <2>2 DEF NothingLost, Fetched
<1>8. Covered'
  <2> SUFFICES ASSUME NEW s \in Repos
               PROVE  (s \in todo \/ s \in missed \/ UpToDate(s) \/ queue[s] # {} \/ Busy(s))'
    BY DEF Covered
  <2>1. CASE s = r
    BY <1>1, <1>3, <2>1 DEF Busy, Idle
  <2>2. CASE s # r
    <3>1. Busy(s) => Busy(s)'
      BY <1>2 DEF Busy, Idle
    <3>2. UpToDate(s) => UpToDate(s)'
      BY <1>2 DEF UpToDate
    <3> QED
      BY <1>1, <1>2, <2>2, <3>1, <3>2 DEF NothingLost, Covered
  <2> QED
    BY <2>1, <2>2
<1> QED
  BY <1>5, <1>6, <1>7, <1>8 DEF NothingLost

(***************************************************************************)
(* A refresh that is skipped leaves its repository up to date or missed.   *)
(***************************************************************************)
LEMMA LostSkipped ==
    ASSUME Exclusive, QInv, NEW p \in Procs, ~Idle(p), Return(p),
           missed' = Skipped(task[p].repo),
           UNCHANGED <<master, queue, stage, configs>>
    PROVE  NothingLost'
<1>1. TypeInv
  BY DEF QInv, VInv, IInv
<1>2. PICK r \in Repos : r = task[p].repo
  BY <1>1 DEF TypeInv, TaskOK
<1>3. r \in missed' \/ UpToDate(r)'
  <2>1. CASE UpToDate(r)
    BY <2>1 DEF UpToDate
  <2>2. CASE ~UpToDate(r)
    BY <1>2, <2>2 DEF Skipped
  <2> QED
    BY <2>1, <2>2
<1>4. missed \ {r} \subseteq missed'
  BY <1>2 DEF Skipped
<1> QED
  BY <1>2, <1>3, <1>4, LostReturn

\* An answer without content, whatever is on master, is a skipped refresh.
LEMMA LostMissing ==
    ASSUME Exclusive, QInv, NEW p \in Procs, FetchMissing(p)
    PROVE  NothingLost'
BY LostSkipped DEF FetchMissing, Idle, server

\* So is a pull request whose first page of files has no poule.yml.
LEMMA LostList ==
    ASSUME Exclusive, QInv, NEW w \in Workers, ListFiles(w)
    PROVE  NothingLost'
<1>0. TypeInv /\ NothingLost /\ w \in Procs
  BY DEF QInv, VInv, IInv, Procs
<1>1. CASE ~task[w].msg.listed
  BY <1>0, <1>1, LostSkipped DEF ListFiles, Idle, server
<1>2. CASE task[w].msg.listed
  <2>1. \A q \in Procs :
            /\ Idle(q) = Idle(q)'
            /\ pc'[q] \in Holding => pc[q] \in Holding
    BY <1>0, <1>2 DEF ListFiles, TypeInv, TypeOK, Holding, Idle
  <2> QED
    BY <1>0, <1>2, <2>1, LostKept DEF ListFiles, server
<1> QED
  BY <1>1, <1>2

\* Every step keeps what was merged.
LEMMA LostNext ==
    ASSUME Exclusive, QInv, [Next]_vars
    PROVE  NothingLost'
<1>0. TypeInv /\ NothingLost
  BY DEF QInv, VInv, IInv
<1>1. ASSUME NEW p \in Procs, Lookup(p) \/ StopCron(p) \/ StartCron(p) PROVE NothingLost'
  <2>1. \A q \in Procs :
            /\ Idle(q) = Idle(q)' /\ task'[q].repo = task[q].repo
            /\ task'[q].msg = task[q].msg /\ task'[q].held = task[q].held
            /\ pc'[q] \in Holding => pc[q] \in Holding /\ task'[q].got = task[q].got
    BY <1>0, <1>1 DEF Lookup, StopCron, StartCron, TypeInv, TypeOK, Task, Holding, Idle
  <2> QED
    BY <1>0, <1>1, <2>1, LostKept DEF Lookup, StopCron, StartCron, remote, server
<1>2. ASSUME NEW p \in Procs, Refresh(p) PROVE NothingLost'
  BY <1>1, <1>2, LostFetch, LostMissing, LostError, LostStore DEF Refresh
<1>3. ASSUME NEW w \in Workers, Gather(w) PROVE NothingLost'
  <2>1. \A q \in Procs :
            /\ Idle(q) = Idle(q)'
            /\ pc'[q] \in Holding => pc[q] \in Holding
    BY <1>0, <1>3 DEF Gather, TypeInv, TypeOK, Holding, Idle, Procs
  <2> QED
    BY <1>0, <1>3, <2>1, LostKept DEF Gather, remote, server
<1>4. ASSUME NEW w \in Workers, MsgTimeout(w) PROVE NothingLost'
  <2> DEFINE r == task[w].repo
  <2>1. w \in Procs /\ ~Idle(w) /\ r \in Repos
    BY <1>0, <1>4 DEF MsgTimeout, TypeInv, TaskOK, NoTask, Procs
  <2>2. /\ \A s \in Repos : queue[s] \subseteq queue'[s]
        /\ task[w].msg \in queue'[r]
        /\ \A q \in Procs : q # w => task'[q] = task[q]
        /\ task'[w].repo = r /\ task'[w].msg = task[w].msg /\ task'[w].got = task[w].got
        /\ UNCHANGED <<master, missed, stage, todo, configs, pc>>
    BY <1>0, <1>4, <2>1 DEF MsgTimeout, TypeInv, TypeOK, Task, server
  <2>3. \A q \in Procs : ~Idle(q) => task[q].repo \in Repos
    BY <1>0 DEF TypeInv, TaskOK
  <2>4. Loads'
    BY <1>0, <2>2 DEF NothingLost, Loads
  <2>5. Requeued'
    BY <1>0, <2>1, <2>2, <2>3 DEF NothingLost, Requeued, Idle, Procs
  <2>6. Fetched'
    <3>1. \A q \in Procs : task'[q].repo = task[q].repo /\ task'[q].got = task[q].got
      BY <2>2
    <3> QED
      BY <1>0, <2>2, <2>3, <3>1 DEF NothingLost, Fetched, Holding, Idle
  <2>7. Covered'
    <3>1. \A s \in Repos : Busy(s) => Busy(s)'
      BY <2>2 DEF Busy, Idle
    <3>2. \A s \in Repos : UpToDate(s) => UpToDate(s)'
      BY <2>2 DEF UpToDate
    <3> QED
      BY <1>0, <2>2, <3>1, <3>2 DEF NothingLost, Covered
  <2> QED
    BY <2>4, <2>5, <2>6, <2>7 DEF NothingLost
<1>5. ASSUME \/ \E c \in running : \E e \in c.entries : Fire(c, e)
             \/ \E j \in jobs : JobEnds(j)
             \/ UNCHANGED vars
      PROVE  NothingLost'
  <2>1. UNCHANGED <<master, queue, missed, stage, todo, configs, pc, task>>
    BY <1>5 DEF Fire, JobEnds, remote, vars
  <2> QED
    BY <1>0, <2>1, LostKept DEF Idle
<1>6. ASSUME Serve \/ Restart PROVE NothingLost'
  <2>1. UNCHANGED <<master, queue, missed, todo, configs, pc, task>>
    BY <1>6 DEF Serve, Restart, remote, server
  <2>2. Loads'
    BY <1>0, <1>6, <2>1 DEF Serve, Restart, NothingLost, Loads
  <2>3. Requeued' /\ Fetched'
    BY <1>0, <2>1 DEF NothingLost, Requeued, Fetched, Idle
  <2>4. Covered'
    BY <1>0, <2>1 DEF NothingLost, Covered, UpToDate, Busy, Idle
  <2> QED
    BY <2>2, <2>3, <2>4 DEF NothingLost
<1>7. ASSUME Die PROVE NothingLost'
  BY <1>7 DEF Die, NothingLost, Loads, Requeued, Fetched, Covered, Holding, Idle, Procs
<1> QED
  BY <1>2, <1>3, <1>4, <1>5, <1>6, <1>7, LostMerge, LostBoot, LostTake, LostList
  DEF Next, Handle, Load, Crash, RaceCrash, Procs

(***************************************************************************)
(* In NSQ mode what was merged last is in force as soon as nothing is      *)
(* queued or handled, whatever crashed, timed out or failed before.        *)
(***************************************************************************)
THEOREM NoMergeLost == Exclusive => (Spec => []QuietIsFresh)
<1> SUFFICES ASSUME Exclusive PROVE Spec => []QuietIsFresh
  OBVIOUS
<1>1. Init => NothingLost
  BY DEF Init, NothingLost, Loads, Requeued, Fetched, Covered, Holding, Idle, Procs
<1>2. VInv /\ NothingLost /\ [Next]_vars => NothingLost'
  BY LostNext DEF QInv
<1>3. NothingLost => QuietIsFresh
  BY DEF NothingLost, Loads, Covered, QuietIsFresh
<1>4. Spec => Init /\ [][Next]_vars
  BY DEF Spec
<1> QED
  BY <1>1, <1>2, <1>3, <1>4, VersionsInv, PTL

=============================================================================
