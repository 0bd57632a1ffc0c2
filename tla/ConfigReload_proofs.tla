------------------------ MODULE ConfigReload_proofs -------------------------
(***************************************************************************)
(* Theorems about ConfigReload, for every set of repositories and workers  *)
(* and every content of poule.yml.  TypeCorrect holds in both modes; the   *)
(* others assume Exclusive, which NSQ mode provides.                       *)
(***************************************************************************)
EXTENDS ConfigReload, TLAPS

(***************************************************************************)
(* What the local variables of a refresh hold at each of its steps.        *)
(***************************************************************************)
TaskOK ==
    \A p \in Procs :
        /\ Idle(p) => task[p] = NoTask
        /\ ~Idle(p) => task[p].repo \in Repos
        /\ pc[p] \in {"lookup", "stop", "start", "store"} => task[p].got \in Content
        /\ pc[p] \in {"stop", "store"} => task[p].cron \in Cron

TypeInv == TypeOK /\ TaskOK

(***************************************************************************)
(* The entries of a scheduler are typed whatever the list of actions is.   *)
(***************************************************************************)
LEMMA EntriesType ==
    ASSUME NEW actions \in Actions
    PROVE  Entries(actions) \subseteq [at : Nat, runs : Nat]
BY DEF Entries, Actions

\* A scheduler made from typed actions is typed.
LEMMA NewCronType ==
    ASSUME TypeOK, NEW p \in Procs, task[p].repo \in Repos, task[p].got \in Content
    PROVE  NewCron(p) \in Cron
<1>1. task[p].got.file.actions \in Actions
  BY FilesAssumption DEF Content, File
<1>2. nextId \in Nat
  BY DEF TypeOK
<1> QED
  BY <1>1, <1>2, EntriesType DEF NewCron, Cron, Content

\* The local variables of an idle goroutine are typed.
LEMMA NoTaskType == NoTask \in Task
BY DEF NoTask, NoMsg, Task, Message

\* The initial states are typed.
LEMMA TypeInit == Init => TypeInv
<1> SUFFICES ASSUME Init PROVE TypeInv
  OBVIOUS
<1>1. TypeOK
  BY NoTaskType, ReloadAssumption DEF Init, TypeOK, Content, Labels
<1>2. TaskOK
  BY DEF Init, TaskOK, Idle
<1> QED
  BY <1>1, <1>2 DEF TypeInv

(***************************************************************************)
(* The end of a refresh, successful or not, leaves pc and task typed.      *)
(***************************************************************************)
LEMMA ReturnType ==
    ASSUME TypeInv, NEW p \in Procs, ~Idle(p), Return(p)
    PROVE  /\ pc' \in [Procs -> Labels]
           /\ task' \in [Procs -> Task]
           /\ todo' \subseteq Repos
           /\ TaskOK'
BY NoTaskType DEF TypeInv, TypeOK, TaskOK, Return, Idle, Labels

\* Every step keeps the types.
LEMMA TypeNext ==
    ASSUME TypeInv, [Next]_vars
    PROVE  TypeInv'
<1> USE DEF TypeInv
<1>1. ASSUME NEW r \in Repos, Merge(r) PROVE TypeInv'
  <2>1. TaskOK'
    BY <1>1 DEF Merge, TaskOK, Idle
  <2>2. master' \in [Repos -> Content]
    BY <1>1 DEF Merge, TypeOK, Content
  <2>3. queue' \in [Repos -> SUBSET Message]
    <3>1. CASE Persistent \/ stage = "serving"
      <4>1. PICK l \in Listings :
              queue' = [queue EXCEPT ![r] = @ \cup
                          {[ver |-> master[r].ver + 1, attempts |-> 0, listed |-> l]}]
        BY <1>1, <3>1 DEF Merge
      <4>2. [ver |-> master[r].ver + 1, attempts |-> 0, listed |-> l] \in Message
        BY ReloadAssumption DEF TypeOK, Content, Message
      <4> QED BY <4>1, <4>2 DEF TypeOK
    <3>2. CASE ~(Persistent \/ stage = "serving")
      BY <1>1, <3>2 DEF Merge, TypeOK
    <3> QED BY <3>1, <3>2
  <2>4. TypeOK'
    BY <1>1, <2>2, <2>3 DEF Merge, TypeOK, server
  <2> QED BY <2>1, <2>4
<1>2. ASSUME NEW r \in Repos, BootNext(r) PROVE TypeInv'
  <2>1. /\ pc' \in [Procs -> Labels]
        /\ task' \in [Procs -> Task]
    BY <1>2, NoTaskType DEF BootNext, TypeOK, Procs, Labels, Task
  <2>2. TypeOK'
    BY <1>2, <2>1 DEF BootNext, TypeOK, remote, server
  <2>3. TaskOK'
    BY <1>2 DEF BootNext, TypeOK, TaskOK, Idle, Procs, NoTask
  <2> QED BY <2>2, <2>3
<1>3. ASSUME Serve PROVE TypeInv'
  BY <1>3 DEF Serve, TypeOK, TaskOK, Idle, remote, server
<1>4. ASSUME NEW w \in Workers, NEW r \in Repos, NEW m \in queue[r], Deliver(w, r, m)
      PROVE  TypeInv'
  <2>1. m \in Message
    BY DEF TypeOK
  <2> DEFINE t == [NoTask EXCEPT !.repo = r, !.held = Persistent,
                                 !.msg = [m EXCEPT !.attempts = @ + 1]]
  <2>a. t \in Task
    <3>1. [m EXCEPT !.attempts = @ + 1] \in Message
      BY <2>1 DEF Message
    <3> QED BY <3>1, ReloadAssumption DEF NoTask, NoMsg, Task
  <2>2. /\ pc' \in [Procs -> Labels]
        /\ task' \in [Procs -> Task]
    BY <1>4, <2>a DEF Deliver, TypeOK, Procs, Labels
  <2>3. TypeOK'
    BY <1>4, <2>2 DEF Deliver, TypeOK, server
  <2>4. TaskOK'
    BY <1>4 DEF Deliver, TypeOK, TaskOK, Idle, Procs, NoTask
  <2> QED BY <2>3, <2>4
<1>5. ASSUME NEW w \in Workers, NEW r \in Repos, NEW m \in queue[r], GiveUp(w, r, m)
      PROVE  TypeInv'
  BY <1>5 DEF GiveUp, TypeOK, TaskOK, Idle, server
<1>6. ASSUME NEW w \in Workers, Gather(w) PROVE TypeInv'
  <2>1. TypeOK'
    BY <1>6 DEF Gather, TypeOK, Labels, remote, server
  <2>2. TaskOK'
    BY <1>6 DEF Gather, TypeOK, TaskOK, Idle, Procs
  <2> QED BY <2>1, <2>2
<1>23. ASSUME NEW w \in Workers, ListFiles(w) PROVE TypeInv'
  <2>1. w \in Procs /\ ~Idle(w) /\ task[w].repo \in Repos
    BY <1>23 DEF ListFiles, TaskOK, Idle, Procs
  <2>2. CASE task[w].msg.listed
    <3>1. TypeOK'
      BY <1>23, <2>1, <2>2 DEF ListFiles, TypeOK, Labels, server
    <3>2. TaskOK'
      BY <1>23, <2>1, <2>2 DEF ListFiles, TypeOK, TaskOK, Idle
    <3> QED BY <3>1, <3>2
  <2>3. CASE ~task[w].msg.listed
    <3>1. Return(w) /\ missed' = Skipped(task[w].repo)
      BY <1>23, <2>3 DEF ListFiles
    <3>2. missed' \subseteq Repos
      BY <2>1, <3>1 DEF Skipped, TypeOK
    <3>3. TypeOK'
      BY <1>23, <2>1, <3>1, <3>2, ReturnType DEF ListFiles, TypeOK, server
    <3> QED BY <2>1, <3>1, <3>3, ReturnType
  <2> QED BY <2>2, <2>3
<1>7. ASSUME NEW p \in Procs, FetchList(p) PROVE TypeInv'
  <2>1. task[p].repo \in Repos
    BY <1>7 DEF FetchList, TaskOK, Idle
  <2>2. master[task[p].repo] \in Content
    BY <2>1 DEF TypeOK
  <2>3. TypeOK'
    BY <1>7, <2>1, <2>2 DEF FetchList, TypeOK, Labels, Task, server
  <2>4. TaskOK'
    BY <1>7, <2>1, <2>2 DEF FetchList, TypeOK, TaskOK, Idle, Task
  <2> QED BY <2>3, <2>4
<1>8. ASSUME NEW p \in Procs, FetchMissing(p) PROVE TypeInv'
  <2>1. ~Idle(p)
    BY <1>8 DEF FetchMissing, Idle
  <2>3. missed' \subseteq Repos
    BY <1>8, <2>1 DEF FetchMissing, Skipped, TypeOK, TaskOK
  <2>2. TypeOK'
    BY <1>8, <2>1, <2>3, ReturnType DEF FetchMissing, TypeOK, server
  <2> QED BY <1>8, <2>1, <2>2, ReturnType DEF FetchMissing
<1>9. ASSUME NEW p \in Procs, FetchError(p) PROVE TypeInv'
  <2>1. ~Idle(p) /\ Return(p)
    BY <1>9 DEF FetchError, ReturnError, Idle
  <2>2. task[p].repo \in Repos /\ task[p].msg \in Message
    BY <2>1 DEF TypeOK, TaskOK, Task
  <2>3. queue' \in [Repos -> SUBSET Message] /\ missed' \subseteq Repos
    BY <1>9, <2>2 DEF FetchError, ReturnError, TypeOK
  <2>4. TypeOK'
    BY <1>9, <2>1, <2>3, ReturnType DEF FetchError, TypeOK, server
  <2> QED BY <2>1, <2>4, ReturnType
<1>10. ASSUME NEW p \in Procs, Lookup(p) PROVE TypeInv'
  <2> DEFINE c == configs[task[p].repo]
  <2>1. c \in Config \cup {None}
    BY <1>10 DEF Lookup, TypeOK, TaskOK, Idle
  <2>2. c # None => c.cron \in Cron
    BY <2>1 DEF Config
  <2>3. TypeOK'
    BY <1>10, <2>2 DEF Lookup, TypeOK, Labels, Task, remote, server
  <2>4. TaskOK'
    BY <1>10, <2>2 DEF Lookup, TypeOK, TaskOK, Idle, Task
  <2> QED BY <2>3, <2>4
<1>11. ASSUME NEW p \in Procs, StopCron(p) PROVE TypeInv'
  <2>1. TypeOK'
    BY <1>11 DEF StopCron, TypeOK, Labels, Task, remote
  <2>2. TaskOK'
    BY <1>11 DEF StopCron, TypeOK, TaskOK, Idle, Task
  <2> QED BY <2>1, <2>2
<1>12. ASSUME NEW p \in Procs, StartCron(p) PROVE TypeInv'
  <2>1. NewCron(p) \in Cron
    BY <1>12, NewCronType DEF StartCron, TaskOK, Idle
  <2>2. TypeOK'
    BY <1>12, <2>1 DEF StartCron, TypeOK, Labels, Task, remote
  <2>3. TaskOK'
    BY <1>12, <2>1 DEF StartCron, TypeOK, TaskOK, Idle, Task
  <2> QED BY <2>2, <2>3
<1>13. ASSUME NEW p \in Procs, Store(p) PROVE TypeInv'
  <2>1. /\ ~Idle(p)
        /\ task[p].repo \in Repos
        /\ task[p].got \in Content
        /\ task[p].cron \in Cron
    BY <1>13 DEF Store, TaskOK, Idle
  <2>2. task[p].got.file.actions \in Actions
    BY <2>1, FilesAssumption DEF Content, File
  <2>3. configs' \in [Repos -> Config \cup {None}]
    BY <1>13, <2>1, <2>2 DEF Store, TypeOK, Config
  <2>4. TypeOK'
    BY <1>13, <2>1, <2>3, ReturnType DEF Store, TypeOK, remote
  <2> QED BY <1>13, <2>1, <2>4, ReturnType DEF Store
<1>14. ASSUME NEW w \in Workers, MsgTimeout(w) PROVE TypeInv'
  <2>1. ~Idle(w) /\ task[w].repo \in Repos /\ task[w].msg \in Message
    BY <1>14 DEF MsgTimeout, TypeOK, TaskOK, Task, NoTask, Procs
  <2>2. TypeOK'
    BY <1>14, <2>1 DEF MsgTimeout, TypeOK, Task, Procs, server
  <2>3. TaskOK'
    BY <1>14, <2>1 DEF MsgTimeout, TypeOK, TaskOK, Idle, Task, Procs
  <2> QED BY <2>2, <2>3
<1>15. ASSUME NEW c \in running, NEW e \in c.entries, Fire(c, e) PROVE TypeInv'
  BY <1>15 DEF Fire, TypeOK, TaskOK, Idle, Cron, remote
<1>16. ASSUME NEW j \in jobs, JobEnds(j) PROVE TypeInv'
  BY <1>16 DEF JobEnds, TypeOK, TaskOK, Idle, remote
<1>17. ASSUME Die, crashes' \in 0..MaxCrashes PROVE TypeInv'
  <2>1. \A r \in Repos : InFlight(r) \subseteq Message
    BY DEF InFlight, TypeOK, Task, Procs
  <2>2. queue' \in [Repos -> SUBSET Message] /\ missed' \subseteq Repos
    BY <1>17, <2>1 DEF Die, TypeOK
  <2>3. TypeOK'
    BY <1>17, <2>2, NoTaskType DEF Die, TypeOK, Labels
  <2>4. TaskOK'
    BY <1>17 DEF Die, TaskOK, Idle
  <2> QED BY <2>3, <2>4
<1>18. ASSUME Crash PROVE TypeInv'
  BY <1>18, <1>17, ReloadAssumption DEF Crash, TypeOK
<1>19. ASSUME RaceCrash PROVE TypeInv'
  BY <1>19, <1>17 DEF RaceCrash, TypeOK
<1>20. ASSUME Restart PROVE TypeInv'
  BY <1>20 DEF Restart, TypeOK, TaskOK, Idle, remote, server
<1>21. ASSUME UNCHANGED vars PROVE TypeInv'
  BY <1>21 DEF vars, TypeOK, TaskOK, Idle
<1>22. ASSUME NEW p \in Procs, Refresh(p) PROVE TypeInv'
  BY <1>22, <1>7, <1>8, <1>9, <1>10, <1>11, <1>12, <1>13 DEF Refresh
<1> QED
  BY <1>1, <1>2, <1>3, <1>4, <1>5, <1>6, <1>14, <1>15, <1>16, <1>18, <1>19,
     <1>20, <1>21, <1>22, <1>23
  DEF Next, Handle, Load, Procs

(***************************************************************************)
(* The state is always well typed, in NSQ mode and in HTTP mode.           *)
(***************************************************************************)
THEOREM TypeCorrect == Spec => []TypeOK
<1>1. TypeInv /\ [Next]_vars => TypeInv'
  BY TypeNext
<1>2. TypeInv => TypeOK
  BY DEF TypeInv
<1> QED BY <1>1, <1>2, TypeInit, PTL DEF Spec
-----------------------------------------------------------------------------
(***************************************************************************)
(* The inductive invariant behind the safety of the registry.              *)
(*                                                                         *)
(* Events are handled only once the startup loads are over, so a refresh   *)
(* at startup never meets one for an event; a worker refreshes only the    *)
(* repositories it serves.  In NSQ mode this leaves one refresh at a time  *)
(* for each repository (OneWriter), which is why the map needs no lock to  *)
(* keep a repository's schedulers in order.                                *)
(***************************************************************************)
Stages ==
    /\ stage # "boot" => Idle(Boot)
    /\ stage # "serving" => \A w \in Workers : Idle(w)
    /\ stage = "down" => running = {} /\ \A r \in Repos : configs[r] = None

Assigned ==
    \A w \in Workers : ~Idle(w) => task[w].repo \in Serves[w]

(***************************************************************************)
(* The scheduler in hand: about to be stopped, it is the one in force;     *)
(* once it is stopped none runs; once a new one has started, only that one *)
(* does.                                                                   *)
(***************************************************************************)
InHand ==
    \A p \in Procs :
        /\ pc[p] = "stop" =>
              /\ configs[task[p].repo] # None
              /\ task[p].cron = configs[task[p].repo].cron
              /\ task[p].cron \in running
        /\ pc[p] = "start" => \A c \in running : c.repo # task[p].repo
        /\ pc[p] = "store" =>
              /\ task[p].cron \in running
              /\ task[p].cron.repo = task[p].repo
              /\ \A c \in running : c.repo = task[p].repo => c = task[p].cron

\* The scheduler in force runs, unless it is being replaced.
InForce ==
    \A r \in Repos :
        configs[r] # None =>
            /\ configs[r].cron.repo = r
            /\ \/ configs[r].cron \in running
               \/ \E p \in Procs : pc[p] \in {"start", "store"} /\ task[p].repo = r

IInv ==
    /\ TypeInv
    /\ Stages
    /\ Assigned
    /\ InHand
    /\ InForce
    /\ NoOrphan
    /\ OneScheduler

\* In NSQ mode only one goroutine refreshes a given repository.
LEMMA OneWriter ==
    ASSUME Exclusive, TypeInv, Stages, Assigned,
           NEW p \in Procs, NEW q \in Procs,
           ~Idle(p), ~Idle(q), task[p].repo = task[q].repo
    PROVE  p = q
<1>1. CASE p = Boot
  BY <1>1 DEF Stages, Procs
<1>2. CASE q = Boot
  BY <1>2 DEF Stages, Procs
<1>3. CASE p \in Workers /\ q \in Workers
  BY <1>3, ReloadAssumption DEF Assigned, Exclusive
<1> QED BY <1>1, <1>2, <1>3 DEF Procs

\* The inductive invariant holds initially.
LEMMA SafeInit == Init => IInv
<1> SUFFICES ASSUME Init PROVE IInv
  OBVIOUS
<1>1. Stages /\ Assigned /\ InHand /\ InForce /\ NoOrphan /\ OneScheduler
  BY DEF Init, Stages, Assigned, InHand, InForce, NoOrphan, OneScheduler, Idle, Procs
<1> QED BY <1>1, TypeInit DEF IInv

(***************************************************************************)
(* A step that leaves the schedulers, the map and the refreshes with a     *)
(* scheduler in hand alone preserves what is said of schedulers.           *)
(***************************************************************************)
Armed == {"stop", "start", "store"}

SameHand ==
    /\ UNCHANGED <<running, configs>>
    /\ \A p \in Procs :
          pc[p] \in Armed \/ pc'[p] \in Armed =>
              /\ pc'[p] = pc[p]
              /\ task'[p].repo = task[p].repo
              /\ task'[p].cron = task[p].cron

Schedulers == InHand /\ InForce /\ NoOrphan /\ OneScheduler

\* A step that leaves schedulers, map and refreshes alone is safe.
LEMMA SameHandSafe ==
    ASSUME Schedulers, SameHand
    PROVE  Schedulers'
BY DEF Schedulers, SameHand, Armed, InHand, InForce, NoOrphan, OneScheduler

\* The end of a refresh with no scheduler in hand.
LEMMA ReturnSame ==
    ASSUME TypeInv, NEW p \in Procs, pc[p] \notin Armed, Return(p),
           UNCHANGED <<running, configs>>
    PROVE  SameHand
BY DEF Return, SameHand, Armed, TypeInv, TypeOK

\* Every step keeps the order of the stages of startup and refresh.
LEMMA StagesNext ==
    ASSUME IInv, [Next]_vars
    PROVE  Stages' /\ Assigned'
<1> USE DEF IInv
<1> USE ReloadAssumption
<1>1. ASSUME NEW r \in Repos, Merge(r) PROVE Stages' /\ Assigned'
  BY <1>1 DEF Merge, Stages, Assigned, Idle, server
<1>2. ASSUME NEW r \in Repos, BootNext(r) PROVE Stages' /\ Assigned'
  BY <1>2 DEF BootNext, Stages, Assigned, Idle, server, TypeInv, TypeOK, Procs
<1>3. ASSUME Serve PROVE Stages' /\ Assigned'
  BY <1>3 DEF Serve, Stages, Assigned, Idle, server
<1>4. ASSUME NEW w \in Workers, NEW r \in Repos, NEW m \in queue[r],
             Deliver(w, r, m) \/ GiveUp(w, r, m)
      PROVE  Stages' /\ Assigned'
  <2>1. CASE Deliver(w, r, m)
    BY <2>1 DEF Deliver, Stages, Assigned, Idle, server, TypeInv, TypeOK, Procs, NoTask
  <2>2. CASE GiveUp(w, r, m)
    BY <2>2 DEF GiveUp, Stages, Assigned, Idle, server
  <2> QED BY <1>4, <2>1, <2>2
<1>5. ASSUME NEW w \in Workers, Gather(w) PROVE Stages' /\ Assigned'
  BY <1>5 DEF Gather, Stages, Assigned, Idle, server, TypeInv, TypeOK, Procs
<1>6. ASSUME NEW p \in Procs, ~Idle(p), Return(p), stage' = stage
      PROVE  Stages' /\ Assigned'
  <2>1. stage # "down"
    BY <1>6 DEF Stages, Procs
  <2> QED BY <1>6, <2>1 DEF Return, Stages, Assigned, Idle, TypeInv, TypeOK, Procs
<1>7. ASSUME NEW w \in Workers, ListFiles(w) PROVE Stages' /\ Assigned'
  <2>1. CASE ~task[w].msg.listed
    BY <1>7, <2>1, <1>6 DEF ListFiles, Idle, Procs
  <2>2. CASE task[w].msg.listed
    BY <1>7, <2>2 DEF ListFiles, Stages, Assigned, Idle, server, TypeInv, TypeOK, Procs
  <2> QED BY <2>1, <2>2
<1>8. ASSUME NEW p \in Procs, Refresh(p) PROVE Stages' /\ Assigned'
  <2>1. CASE FetchMissing(p) \/ FetchError(p) \/ Store(p)
    BY <2>1, <1>6 DEF FetchMissing, FetchError, ReturnError, Store, Idle
  <2>2. CASE FetchList(p) \/ Lookup(p) \/ StopCron(p) \/ StartCron(p)
    <3>1. stage' = stage /\ ~Idle(p) /\ ~(stage = "down")
      BY <2>2 DEF FetchList, Lookup, StopCron, StartCron, Idle, Stages, Procs
    <3>2. \A q \in Procs : q # p => pc'[q] = pc[q] /\ task'[q] = task[q]
      BY <2>2 DEF FetchList, Lookup, StopCron, StartCron, TypeInv, TypeOK
    <3>3. task'[p].repo = task[p].repo
      BY <2>2 DEF FetchList, Lookup, StopCron, StartCron, TypeInv, TypeOK, Task
    <3> QED BY <3>1, <3>2, <3>3 DEF Stages, Assigned, Idle, Procs
  <2> QED BY <1>8, <2>1, <2>2 DEF Refresh
<1>9. ASSUME NEW w \in Workers, MsgTimeout(w) PROVE Stages' /\ Assigned'
  BY <1>9 DEF MsgTimeout, Stages, Assigned, Idle, server, TypeInv, TypeOK, Procs, Task
<1>10. ASSUME NEW c \in running, NEW e \in c.entries, Fire(c, e) PROVE Stages' /\ Assigned'
  BY <1>10 DEF Fire, Stages, Assigned, Idle
<1>11. ASSUME NEW j \in jobs, JobEnds(j) PROVE Stages' /\ Assigned'
  BY <1>11 DEF JobEnds, Stages, Assigned, Idle
<1>12. ASSUME Die PROVE Stages' /\ Assigned'
  BY <1>12 DEF Die, Stages, Assigned, Idle, Procs
<1>13. ASSUME Restart PROVE Stages' /\ Assigned'
  BY <1>13 DEF Restart, Stages, Assigned, Idle, server
<1>14. ASSUME UNCHANGED vars PROVE Stages' /\ Assigned'
  BY <1>14 DEF vars, Stages, Assigned, Idle
<1> QED
  BY <1>1, <1>2, <1>3, <1>4, <1>5, <1>7, <1>8, <1>9, <1>10, <1>11, <1>12, <1>13, <1>14
  DEF Next, Handle, Load, Crash, RaceCrash, Procs

(***************************************************************************)
(* Nothing runs for a repository whose entry in the map is empty, except   *)
(* the scheduler a goroutine is about to store.                            *)
(***************************************************************************)
LEMMA NoEntryNoScheduler ==
    ASSUME Exclusive, IInv, NEW p \in Procs, pc[p] = "lookup",
           configs[task[p].repo] = None
    PROVE  \A c \in running : c.repo # task[p].repo
<1> SUFFICES ASSUME NEW c \in running, c.repo = task[p].repo PROVE FALSE
  OBVIOUS
<1>1. PICK q \in Procs : pc[q] = "store" /\ task[q].cron = c
  BY DEF IInv, NoOrphan
<1>2. task[q].repo = task[p].repo
  BY <1>1 DEF IInv, InHand
<1>3. p = q
  BY <1>1, <1>2, OneWriter DEF IInv, Idle
<1> QED BY <1>1, <1>3

\* The read of the map takes the only live scheduler in hand.
LEMMA LookupSafe ==
    ASSUME Exclusive, IInv, NEW p \in Procs, Lookup(p)
    PROVE  Schedulers'
<1> DEFINE r == task[p].repo
<1>1. r \in Repos
  BY DEF Lookup, IInv, TypeInv, TaskOK, Idle
<1>2. configs[r] # None => configs[r].cron \in running
  <2> SUFFICES ASSUME configs[r] # None, configs[r].cron \notin running PROVE FALSE
    OBVIOUS
  <2>1. PICK q \in Procs : pc[q] \in {"start", "store"} /\ task[q].repo = r
    BY <1>1 DEF IInv, InForce
  <2>2. p = q
    BY <2>1, OneWriter DEF IInv, Idle, Lookup
  <2> QED BY <2>1, <2>2 DEF Lookup
<1>3. InHand'
  BY <1>1, <1>2, NoEntryNoScheduler DEF Lookup, IInv, InHand, TypeInv, TypeOK, Task, server
<1>4. InForce'
  BY DEF Lookup, IInv, InForce, TypeInv, TypeOK, Task, server
<1>5. NoOrphan' /\ OneScheduler'
  BY DEF Lookup, IInv, NoOrphan, OneScheduler, TypeInv, TypeOK, Task, server
<1> QED BY <1>3, <1>4, <1>5 DEF Schedulers

\* After Stop the repository has no live scheduler.
LEMMA StopCronSafe ==
    ASSUME Exclusive, IInv, NEW p \in Procs, StopCron(p)
    PROVE  Schedulers'
<1> DEFINE r == task[p].repo
           c == task[p].cron
<1>1. /\ r \in Repos /\ c \in running /\ c.repo = r
      /\ configs[r] # None /\ c = configs[r].cron
  BY DEF StopCron, IInv, TypeInv, TaskOK, Idle, InHand, InForce
<1>2. \A d \in running' : d.repo # r
  BY <1>1 DEF StopCron, IInv, OneScheduler
<1>3. \A q \in Procs : q # p /\ ~Idle(q) => task[q].repo # r
  BY OneWriter DEF IInv, Idle, StopCron
<1>4. InHand'
  <2> SUFFICES ASSUME NEW q \in Procs PROVE InHand!(q)'
    BY DEF InHand
  <2>1. CASE q = p
    BY <2>1, <1>2 DEF StopCron, IInv, TypeInv, TypeOK, Task
  <2>2. CASE q # p
    <3>1. pc'[q] = pc[q] /\ task'[q] = task[q] /\ configs' = configs
      BY <2>2 DEF StopCron, IInv, TypeInv, TypeOK
    <3>2. InHand!(q)
      BY DEF IInv, InHand
    <3>3. pc[q] \in {"stop", "store"} => task[q].cron # c
      <4>1. pc[q] = "store" => task[q].cron # c
        BY <1>1, <1>3, <2>2, <3>2 DEF Idle
      <4>2. pc[q] = "stop" => task[q].cron # c
        <5> SUFFICES ASSUME pc[q] = "stop", task[q].cron = c PROVE FALSE
          OBVIOUS
        <5>1. task[q].repo \in Repos
          BY DEF IInv, TypeInv, TaskOK, Idle
        <5>2. configs[task[q].repo].cron.repo = task[q].repo
          BY <3>2, <5>1 DEF IInv, InForce
        <5> QED BY <1>1, <1>3, <2>2, <3>2, <5>2 DEF Idle
      <4> QED BY <4>1, <4>2
    <3> QED BY <3>1, <3>2, <3>3 DEF StopCron
  <2> QED BY <2>1, <2>2
<1>5. InForce'
  <2> SUFFICES ASSUME NEW s \in Repos, configs[s] # None
               PROVE  /\ configs[s].cron.repo = s
                      /\ \/ configs[s].cron \in running'
                         \/ \E q \in Procs : pc'[q] \in {"start", "store"} /\ task'[q].repo = s
    BY DEF InForce, StopCron
  <2>1. CASE s = r
    BY <2>1, <1>1 DEF StopCron, IInv, TypeInv, TypeOK, Task
  <2>2. CASE s # r
    BY <2>2, <1>1 DEF StopCron, IInv, InForce, TypeInv, TypeOK
  <2> QED BY <2>1, <2>2
<1>6. NoOrphan' /\ OneScheduler'
  BY DEF StopCron, IInv, NoOrphan, OneScheduler, TypeInv, TypeOK
<1> QED BY <1>4, <1>5, <1>6 DEF Schedulers

\* The new scheduler is the only one of its repository.
LEMMA StartCronSafe ==
    ASSUME Exclusive, IInv, NEW p \in Procs, StartCron(p)
    PROVE  Schedulers'
<1> DEFINE r == task[p].repo
           n == NewCron(p)
<1>1. n.repo = r /\ r \in Repos
  BY DEF NewCron, StartCron, IInv, TypeInv, TaskOK, Idle
<1>2. \A d \in running : d.repo # r
  BY DEF StartCron, IInv, InHand
<1>3. \A q \in Procs : q # p /\ ~Idle(q) => task[q].repo # r
  BY OneWriter DEF IInv, Idle, StartCron
<1>4. task'[p].cron = n /\ task'[p].repo = r /\ pc'[p] = "store" /\ n \in running'
  BY DEF StartCron, IInv, TypeInv, TypeOK, Task
<1>5. \A q \in Procs : q # p => pc'[q] = pc[q] /\ task'[q] = task[q]
  BY DEF StartCron, IInv, TypeInv, TypeOK
<1>6. running' = running \cup {n} /\ configs' = configs
  BY DEF StartCron
<1>7. InHand'
  BY <1>1, <1>2, <1>3, <1>4, <1>5, <1>6 DEF IInv, InHand, Idle
<1>8. InForce'
  BY <1>1, <1>4, <1>5, <1>6 DEF StartCron, IInv, InForce
<1>9. NoOrphan' /\ OneScheduler'
  BY <1>1, <1>2, <1>4, <1>5, <1>6 DEF StartCron, IInv, NoOrphan, OneScheduler
<1> QED BY <1>7, <1>8, <1>9 DEF Schedulers

\* The store hands the new scheduler over to the map.
LEMMA StoreSafe ==
    ASSUME Exclusive, IInv, NEW p \in Procs, Store(p)
    PROVE  Schedulers'
<1> DEFINE r == task[p].repo
           c == task[p].cron
<1>1. r \in Repos /\ c \in running /\ c.repo = r
  BY DEF Store, IInv, InHand, TypeInv, TaskOK, Idle
<1>2. \A d \in running : d.repo = r => d = c
  BY DEF Store, IInv, InHand
<1>3. \A q \in Procs : q # p /\ ~Idle(q) => task[q].repo # r
  BY OneWriter DEF IInv, Idle, Store
<1>4. /\ pc' = [pc EXCEPT ![p] = "idle"]
      /\ \A q \in Procs : q # p => pc'[q] = pc[q] /\ task'[q] = task[q]
      /\ running' = running
  BY DEF Store, Return, IInv, TypeInv, TypeOK
<1>5. /\ configs'[r] # None
      /\ configs'[r].cron = c
      /\ \A s \in Repos : s # r => configs'[s] = configs[s]
  <2> DEFINE e == [actions |-> task[p].got.file.actions, cron |-> c]
  <2>1. task[p].got.file.actions \in Actions /\ c \in Cron
    BY FilesAssumption DEF Store, IInv, TypeInv, TaskOK, Content, File
  <2>2. e \in Config
    BY <2>1 DEF Config
  <2>3. e # None
    BY <2>2, NoneAssumption
  <2> QED BY <1>1, <2>3 DEF Store, IInv, TypeInv, TypeOK
<1>6. pc'[p] = "idle"
  BY <1>4 DEF IInv, TypeInv, TypeOK
<1>7. InHand'
  BY <1>1, <1>3, <1>4, <1>5, <1>6 DEF IInv, InHand, Idle, TypeInv, TaskOK
<1>8. InForce'
  BY <1>1, <1>4, <1>5, <1>6 DEF IInv, InForce, Idle
<1>9. NoOrphan'
  BY <1>1, <1>2, <1>4, <1>5, <1>6 DEF IInv, NoOrphan, TypeInv, TypeOK, Cron
<1>10. OneScheduler'
  BY <1>4 DEF IInv, OneScheduler
<1> QED BY <1>7, <1>8, <1>9, <1>10 DEF Schedulers

\* Every step keeps the inductive invariant in NSQ mode.
LEMMA SafeNext ==
    ASSUME Exclusive, IInv, [Next]_vars
    PROVE  IInv'
<1> USE DEF IInv
<1>1. TypeInv'
  BY TypeNext
<1>2. Stages' /\ Assigned'
  BY StagesNext
<1>3. Schedulers
  BY DEF Schedulers
<1>4. ASSUME NEW r \in Repos, Merge(r) \/ BootNext(r) PROVE Schedulers'
  <2>1. SameHand
    BY <1>4 DEF Merge, BootNext, SameHand, Armed, server, Idle, TypeInv, TypeOK, Procs
  <2> QED BY <2>1, <1>3, SameHandSafe
<1>5. ASSUME NEW w \in Workers, NEW r \in Repos, NEW m \in queue[r],
             Deliver(w, r, m) \/ GiveUp(w, r, m)
      PROVE  Schedulers'
  <2>1. SameHand
    BY <1>5 DEF Deliver, GiveUp, SameHand, Armed, server, Idle, TypeInv, TypeOK, Procs
  <2> QED BY <2>1, <1>3, SameHandSafe
<1>6. ASSUME NEW w \in Workers, Gather(w) \/ MsgTimeout(w) PROVE Schedulers'
  <2>1. SameHand
    BY <1>6 DEF Gather, MsgTimeout, SameHand, Armed, server, TypeInv, TypeOK, Procs, Task
  <2> QED BY <2>1, <1>3, SameHandSafe
<1>11. ASSUME NEW w \in Workers, ListFiles(w) PROVE Schedulers'
  <2>1. SameHand
    <3>1. CASE ~task[w].msg.listed
      BY <1>11, <3>1, ReturnSame DEF ListFiles, Armed, server, Procs
    <3>2. CASE task[w].msg.listed
      BY <1>11, <3>2 DEF ListFiles, SameHand, Armed, server, TypeInv, TypeOK, Procs
    <3> QED BY <3>1, <3>2
  <2> QED BY <2>1, <1>3, SameHandSafe
<1>7. ASSUME NEW p \in Procs, Refresh(p) PROVE Schedulers'
  <2>1. CASE FetchList(p)
    <3>1. SameHand
      BY <2>1 DEF FetchList, SameHand, Armed, server, TypeInv, TypeOK, Task
    <3> QED BY <3>1, <1>3, SameHandSafe
  <2>2. CASE FetchMissing(p) \/ FetchError(p)
    <3>1. SameHand
      BY <2>2, ReturnSame DEF FetchMissing, FetchError, ReturnError, Armed, server
    <3> QED BY <3>1, <1>3, SameHandSafe
  <2> QED
    BY <1>7, <2>1, <2>2, LookupSafe, StopCronSafe, StartCronSafe, StoreSafe DEF Refresh
<1>8. ASSUME \/ Serve
             \/ Restart
             \/ \E c \in running : \E e \in c.entries : Fire(c, e)
             \/ \E j \in jobs : JobEnds(j)
             \/ UNCHANGED vars
      PROVE  Schedulers'
  <2>1. SameHand
    BY <1>8 DEF Serve, Restart, Fire, JobEnds, SameHand, server, vars
  <2> QED BY <2>1, <1>3, SameHandSafe
<1>9. ASSUME Die PROVE Schedulers'
  BY <1>9 DEF Die, Schedulers, InHand, InForce, NoOrphan, OneScheduler
<1>10. Schedulers'
  BY <1>4, <1>5, <1>6, <1>7, <1>8, <1>9, <1>11
  DEF Next, Handle, Load, Crash, RaceCrash, Procs
<1> QED BY <1>1, <1>2, <1>10 DEF Schedulers

(***************************************************************************)
(* In NSQ mode no repository ever has two schedulers running.              *)
(***************************************************************************)
THEOREM AtMostOneScheduler == Exclusive => (Spec => []OneScheduler)
<1> SUFFICES ASSUME Exclusive PROVE Spec => []OneScheduler
  OBVIOUS
<1>1. IInv /\ [Next]_vars => IInv'
  BY SafeNext
<1>2. IInv => OneScheduler
  BY DEF IInv
<1> QED BY <1>1, <1>2, SafeInit, PTL DEF Spec

(***************************************************************************)
(* In NSQ mode a goroutine that stops a scheduler finds it alive: the      *)
(* unbuffered send of Cron.Stop has a receiver.                            *)
(***************************************************************************)
THEOREM StopAlwaysMeetsRun == Exclusive => (Spec => []StopMeetsRun)
<1> SUFFICES ASSUME Exclusive PROVE Spec => []StopMeetsRun
  OBVIOUS
<1>1. IInv /\ [Next]_vars => IInv'
  BY SafeNext
<1>2. IInv => StopMeetsRun
  BY DEF IInv, InHand, StopMeetsRun
<1> QED BY <1>1, <1>2, SafeInit, PTL DEF Spec

(***************************************************************************)
(* In NSQ mode no scheduler outlives the configuration it was made for.    *)
(***************************************************************************)
THEOREM NoOrphanScheduler == Exclusive => (Spec => []NoOrphan)
<1> SUFFICES ASSUME Exclusive PROVE Spec => []NoOrphan
  OBVIOUS
<1>1. IInv /\ [Next]_vars => IInv'
  BY SafeNext
<1>2. IInv => NoOrphan
  BY DEF IInv
<1> QED BY <1>1, <1>2, SafeInit, PTL DEF Spec

=============================================================================
