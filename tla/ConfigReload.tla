---------------------------- MODULE ConfigReload ----------------------------
(***************************************************************************)
(* The configuration registry of the poule server (server/server.go,       *)
(* server/config_helpers.go): every repository has a poule.yml on its      *)
(* master branch; the server loads it at startup and again whenever the    *)
(* poule-updater operation handles the event of a merged pull request that *)
(* touches it.  Loading replaces the repository's cron scheduler: stop the *)
(* old one, start a new one, store both in the map repositoriesConfig.     *)
(*                                                                         *)
(* The map has no lock and a load is several steps, so what the registry   *)
(* guarantees depends on who runs concurrently.  Serves says which         *)
(* handlers handle the events of which repository: one consumer goroutine  *)
(* per repository in NSQ mode, one goroutine per request in HTTP mode.     *)
(***************************************************************************)
EXTENDS Naturals, Sequences, FiniteSets

CONSTANTS
    Repos,         \* the configured repositories
    Workers,       \* the goroutines that handle events
    Boot,          \* the main goroutine, which loads every repository at startup
    Serves,        \* the repositories whose events a worker handles
    Persistent,    \* TRUE: NSQ (events are queued and redelivered); FALSE: HTTP
    MaxAttempts,   \* deliveries of a message that reach the handler (go-nsq: 5)
    Files,         \* what poule.yml on master may contain
    Listings,      \* may poule.yml be on the first page of the files of its pull request
    None,          \* the absent value (nil, missing map key)
    MaxMerges,     \* bound: merges of a poule.yml, over all repositories
    MaxCrashes,    \* bound: crashes of the process from outside
    MaxJobs        \* bound: scheduled jobs running at the same time

Procs == Workers \cup {Boot}

(***************************************************************************)
(* A configuration is a list of actions; an action may carry a schedule.   *)
(***************************************************************************)
Schedules == {"none", "valid", "unparsable"}
Actions == Seq([name : STRING, schedule : Schedules])

(***************************************************************************)
(* The answer to GET poule.yml: "missing" stands for a 404 and for an      *)
(* empty file, "garbage" for a body that does not unmarshal into a list of *)
(* actions (the error pages of other status codes included).               *)
(***************************************************************************)
File == [kind : {"missing", "garbage", "list"}, actions : Actions]

ASSUME ReloadAssumption ==
    /\ Boot \notin Workers
    /\ Serves \in [Workers -> SUBSET Repos]
    /\ Persistent \in BOOLEAN
    /\ MaxAttempts \in Nat \ {0}
    /\ Listings # {} /\ Listings \subseteq BOOLEAN
    /\ MaxMerges \in Nat
    /\ MaxCrashes \in Nat
    /\ MaxJobs \in Nat

ASSUME FilesAssumption == Files # {} /\ Files \subseteq File

(***************************************************************************)
(* NSQ mode: no two workers handle the events of the same repository.      *)
(***************************************************************************)
Exclusive ==
    \A v, w \in Workers : Serves[v] \cap Serves[w] # {} => v = w

VARIABLES
    master,        \* poule.yml on the master branch: its version and content
    queue,         \* the events not yet handled, by repository
    missed,        \* repositories whose last refresh was given up on or skipped
    stage,         \* "down", "boot" (FetchRepositoriesConfigs), "serving" (Run)
    todo,          \* repositories FetchRepositoriesConfigs has yet to visit
    configs,       \* Server.repositoriesConfig
    running,       \* the cron schedulers whose run() loop is alive
    nextId,        \* identity of the next cron.New()
    jobs,          \* the scheduled jobs being run
    pc,            \* where each goroutine stands in the refresh
    task,          \* the local variables of that refresh
    crashes        \* crashes from outside so far

remote == <<master, queue, missed>>
server == <<configs, running, nextId, jobs>>
vars == <<master, queue, missed, stage, todo, configs, running, nextId, jobs,
          pc, task, crashes>>

(***************************************************************************)
(* An event carries the version of master its pull request merged, the     *)
(* deliveries so far, and whether the first page of the files that the     *)
(* pull request changes, the only one listed, has poule.yml.  A task holds *)
(* the repository, the message it answers (held: nsqd still counts it as   *)
(* in flight here), the content fetched and the scheduler about to be      *)
(* stopped or just started.                                                *)
(***************************************************************************)
NoMsg == [ver |-> 0, attempts |-> 0, listed |-> TRUE]
NoTask == [repo |-> None, msg |-> NoMsg, held |-> FALSE, got |-> None,
           cron |-> None]
Idle(p) == pc[p] = "idle"

Message == [ver : Nat, attempts : Nat, listed : BOOLEAN]
Content == [ver : Nat, file : Files]
Cron == [id : Nat, repo : Repos, ver : Nat, entries : SUBSET [at : Nat, runs : Nat]]
Config == [actions : Actions, cron : Cron]
Task == [repo : Repos \cup {None}, msg : Message, held : BOOLEAN,
         got : Content \cup {None}, cron : Cron \cup {None}]
Labels == {"idle", "read", "files", "fetch", "lookup", "stop", "start", "store"}

ASSUME NoneAssumption ==
    None \notin Repos /\ None \notin Content /\ None \notin Cron /\ None \notin Config

\* The repositories some refresh is working on.
Busy(r) == \E p \in Procs : ~Idle(p) /\ task[p].repo = r

(***************************************************************************)
(* AddFunc registers one entry per action whose schedule parses (its error *)
(* is ignored otherwise).  The closure captures the loop variable, so once *)
(* the loop is over every entry runs the last action of the list.          *)
(***************************************************************************)
Entries(actions) ==
    { [at |-> i, runs |-> Len(actions)] :
        i \in { k \in 1..Len(actions) : actions[k].schedule = "valid" } }

NewCron(p) ==
    [id |-> nextId, repo |-> task[p].repo, ver |-> task[p].got.ver,
     entries |-> Entries(task[p].got.file.actions)]

-----------------------------------------------------------------------------
Init ==
    /\ master \in [Repos -> [ver : {0}, file : Files]]
    /\ queue = [r \in Repos |-> {}]
    /\ missed = {}
    /\ stage = "boot"
    /\ todo = Repos
    /\ configs = [r \in Repos |-> None]
    /\ running = {}
    /\ nextId = 1
    /\ jobs = {}
    /\ pc = [p \in Procs |-> "idle"]
    /\ task = [p \in Procs |-> NoTask]
    /\ crashes = 0

(***************************************************************************)
(* Outside: a pull request that changes poule.yml is merged.  Its event is *)
(* published to NSQ, or posted to the HTTP listener if that is listening.  *)
(***************************************************************************)
Merge(r) ==
    /\ master[r].ver < MaxMerges
    /\ \E f \in Files : master' = [master EXCEPT ![r] = [ver |-> @.ver + 1, file |-> f]]
    /\ IF Persistent \/ stage = "serving"
       THEN /\ \E l \in Listings :
                  queue' = [queue EXCEPT ![r] = @ \cup
                              {[ver |-> master[r].ver + 1, attempts |-> 0, listed |-> l]}]
            /\ UNCHANGED missed
       ELSE /\ missed' = missed \cup {r}
            /\ UNCHANGED queue
    /\ UNCHANGED <<stage, todo, server, pc, task, crashes>>

(***************************************************************************)
(* The refresh of task[p].repo returns nil: the message is finished and    *)
(* the goroutine is free.  A message nsqd already timed out stays queued.  *)
(***************************************************************************)
Return(p) ==
    /\ pc' = [pc EXCEPT ![p] = "idle"]
    /\ task' = [task EXCEPT ![p] = NoTask]
    /\ todo' = IF p = Boot THEN todo \ {task[p].repo} ELSE todo

\* Mutant of ReturnError: the message is finished although handling it failed.
ReturnErrorFinishes(p) ==
    /\ Return(p)
    /\ UNCHANGED <<queue, missed>>

(***************************************************************************)
(* It returns an error: at startup a warning is logged and the next        *)
(* repository is tried; in NSQ mode the message is requeued; in HTTP mode  *)
(* the answer is a 500 and the event is gone.                              *)
(***************************************************************************)
ReturnError(p) ==
    LET r == task[p].repo IN
    /\ Return(p)
    /\ queue' = IF Persistent /\ task[p].held
                THEN [queue EXCEPT ![r] = @ \cup {task[p].msg}] ELSE queue
    /\ missed' = IF p = Boot \/ ~Persistent THEN missed \cup {r} ELSE missed

\* FetchRepositoriesConfigs: the next repository, in map iteration order.
BootNext(r) ==
    /\ stage = "boot"
    /\ Idle(Boot)
    /\ r \in todo
    /\ pc' = [pc EXCEPT ![Boot] = "fetch"]
    /\ task' = [task EXCEPT ![Boot] = [NoTask EXCEPT !.repo = r]]
    /\ UNCHANGED <<remote, stage, todo, server, crashes>>

\* Mutant of Serve: the listener starts while the configurations are loading.
ServeEarly ==
    /\ stage = "boot"
    /\ stage' = "serving"
    /\ UNCHANGED <<remote, todo, server, pc, task, crashes>>

\* Every repository was visited: Run starts the listener.
Serve ==
    /\ stage = "boot"
    /\ Idle(Boot)
    /\ todo = {}
    /\ stage' = "serving"
    /\ UNCHANGED <<remote, todo, server, pc, task, crashes>>

\* A worker takes an event; go-nsq counts the delivery.
Deliver(w, r, m) ==
    /\ stage = "serving"
    /\ Idle(w)
    /\ r \in Serves[w]
    /\ m \in queue[r]
    /\ m.attempts < MaxAttempts
    /\ queue' = [queue EXCEPT ![r] = @ \ {m}]
    /\ pc' = [pc EXCEPT ![w] = "read"]
    /\ task' = [task EXCEPT ![w] =
                  [NoTask EXCEPT !.repo = r, !.held = Persistent,
                                 !.msg = [m EXCEPT !.attempts = @ + 1]]]
    /\ UNCHANGED <<master, missed, stage, todo, server, crashes>>

\* go-nsq finishes a message delivered more than MaxAttempts times unhandled.
GiveUp(w, r, m) ==
    /\ stage = "serving"
    /\ Idle(w)
    /\ r \in Serves[w]
    /\ m \in queue[r]
    /\ m.attempts >= MaxAttempts
    /\ queue' = [queue EXCEPT ![r] = @ \ {m}]
    /\ missed' = missed \cup {r}
    /\ UNCHANGED <<master, stage, todo, server, pc, task, crashes>>

(***************************************************************************)
(* handleMessageForItem gathers the actions for the event, which reads the *)
(* map; the poule-updater is among the common actions.                     *)
(***************************************************************************)
Gather(w) ==
    /\ pc[w] = "read"
    /\ pc' = [pc EXCEPT ![w] = "files"]
    /\ UNCHANGED <<remote, stage, todo, server, task, crashes>>

\* The configuration in force is the one on master, if that can be loaded.
UpToDate(r) ==
    master[r].file.kind = "list" =>
        /\ configs[r] # None
        /\ configs[r].actions = master[r].file.actions
        /\ configs[r].cron.ver = master[r].ver

\* A refresh of r that changes nothing and is not repeated is a missed one, or was not needed.
Skipped(r) == IF UpToDate(r) THEN missed \ {r} ELSE missed \cup {r}

(***************************************************************************)
(* Filter of the poule-updater: poule.yml is looked for on the first page  *)
(* of ListFiles.  Apply then calls refreshRepositoryConfiguration; a pull  *)
(* request that does not list it is rejected, and its event is over.       *)
(***************************************************************************)
ListFiles(w) ==
    /\ pc[w] = "files"
    /\ IF task[w].msg.listed
       THEN /\ pc' = [pc EXCEPT ![w] = "fetch"]
            /\ UNCHANGED <<missed, todo, task>>
       ELSE /\ missed' = Skipped(task[w].repo)
            /\ Return(w)
    /\ UNCHANGED <<master, queue, stage, server, crashes>>

\* Mutant of FetchList: a repository that has a configuration keeps it.
FetchListOnce(p) ==
    LET r == task[p].repo IN
    /\ pc[p] = "fetch"
    /\ master[r].file.kind = "list"
    /\ IF configs[r] = None
       THEN /\ task' = [task EXCEPT ![p].got = master[r]]
            /\ pc' = [pc EXCEPT ![p] = "lookup"]
            /\ UNCHANGED todo
       ELSE Return(p)
    /\ missed' = missed \ {r}
    /\ UNCHANGED <<master, queue, stage, server, crashes>>

\* pouleConfigurationFromGitHub returns a list of actions.
FetchList(p) ==
    LET r == task[p].repo IN
    /\ pc[p] = "fetch"
    /\ master[r].file.kind = "list"
    /\ task' = [task EXCEPT ![p].got = master[r]]
    /\ pc' = [pc EXCEPT ![p] = "lookup"]
    /\ missed' = missed \ {r}
    /\ UNCHANGED <<master, queue, stage, todo, server, crashes>>

\* Mutant of FetchMissing: the configuration of a deleted file is dropped.
FetchMissingDrops(p) ==
    /\ pc[p] = "fetch"
    /\ missed' = Skipped(task[p].repo)
    /\ configs' = [configs EXCEPT ![task[p].repo] = None]
    /\ Return(p)
    /\ UNCHANGED <<master, queue, stage, running, nextId, jobs, crashes>>

(***************************************************************************)
(* It returns no content, for a 404 or for an empty body of whatever       *)
(* status: the configuration in force is kept, and that is no error.       *)
(***************************************************************************)
FetchMissing(p) ==
    /\ pc[p] = "fetch"
    /\ missed' = Skipped(task[p].repo)
    /\ Return(p)
    /\ UNCHANGED <<master, queue, stage, server, crashes>>

\* A request fails, or the content does not unmarshal.
FetchError(p) ==
    /\ pc[p] \in {"files", "fetch"}
    /\ ReturnError(p)
    /\ UNCHANGED <<master, stage, server, crashes>>

\* Mutant of Lookup: the scheduler in force is never stopped.
LookupIgnored(p) ==
    /\ pc[p] = "lookup"
    /\ pc' = [pc EXCEPT ![p] = "start"]
    /\ UNCHANGED <<remote, stage, todo, server, task, crashes>>

\* Is there a scheduler to stop?
Lookup(p) ==
    LET c == configs[task[p].repo] IN
    /\ pc[p] = "lookup"
    /\ pc' = [pc EXCEPT ![p] = IF c = None THEN "start" ELSE "stop"]
    /\ task' = [task EXCEPT ![p].cron = IF c = None THEN None ELSE c.cron]
    /\ UNCHANGED <<remote, stage, todo, server, crashes>>

\* Mutant of StopCron: Stop does not wait for run() to receive.
StopCronAsync(p) ==
    /\ pc[p] = "stop"
    /\ task' = [task EXCEPT ![p].cron = None]
    /\ pc' = [pc EXCEPT ![p] = "start"]
    /\ UNCHANGED <<remote, stage, todo, server, crashes>>

(***************************************************************************)
(* Cron.Stop sends on an unbuffered channel that only run() receives from: *)
(* it waits for a live run(), and ends it.                                 *)
(***************************************************************************)
StopCron(p) ==
    /\ pc[p] = "stop"
    /\ task[p].cron \in running
    /\ running' = running \ {task[p].cron}
    /\ task' = [task EXCEPT ![p].cron = None]
    /\ pc' = [pc EXCEPT ![p] = "start"]
    /\ UNCHANGED <<remote, stage, todo, configs, nextId, jobs, crashes>>

\* cron.New, AddFunc for every scheduled action, Start.
StartCron(p) ==
    /\ pc[p] = "start"
    /\ running' = running \cup {NewCron(p)}
    /\ nextId' = nextId + 1
    /\ task' = [task EXCEPT ![p].cron = NewCron(p)]
    /\ pc' = [pc EXCEPT ![p] = "store"]
    /\ UNCHANGED <<remote, stage, todo, configs, jobs, crashes>>

\* Mutant of Store: the new scheduler is not stored.
StoreWithoutCron(p) ==
    /\ pc[p] = "store"
    /\ configs' = [configs EXCEPT ![task[p].repo] =
                     [actions |-> task[p].got.file.actions, cron |-> None]]
    /\ Return(p)
    /\ UNCHANGED <<remote, stage, running, nextId, jobs, crashes>>

\* Mutant of Store: the scheduler of the first load stays in the map.
StoreFirstCron(p) ==
    LET c == configs[task[p].repo] IN
    /\ pc[p] = "store"
    /\ configs' = [configs EXCEPT ![task[p].repo] =
                     [actions |-> task[p].got.file.actions,
                      cron |-> IF c = None THEN task[p].cron ELSE c.cron]]
    /\ Return(p)
    /\ UNCHANGED <<remote, stage, running, nextId, jobs, crashes>>

\* s.repositoriesConfig[repository] = ...
Store(p) ==
    /\ pc[p] = "store"
    /\ configs' = [configs EXCEPT ![task[p].repo] =
                     [actions |-> task[p].got.file.actions, cron |-> task[p].cron]]
    /\ Return(p)
    /\ UNCHANGED <<remote, stage, running, nextId, jobs, crashes>>

\* nsqd times out a message in flight and queues it again; the handler goes on.
MsgTimeout(w) ==
    LET r == task[w].repo IN
    /\ task[w].held
    /\ queue' = [queue EXCEPT ![r] = @ \cup {task[w].msg}]
    /\ task' = [task EXCEPT ![w].held = FALSE]
    /\ UNCHANGED <<master, missed, stage, todo, server, pc, crashes>>

\* A scheduler fires an entry, in a goroutine that no Stop waits for.
Fire(c, e) ==
    /\ c \in running
    /\ e \in c.entries
    /\ Cardinality(jobs) < MaxJobs
    /\ jobs' = jobs \cup {[cron |-> c, entry |-> e]}
    /\ UNCHANGED <<remote, stage, todo, configs, running, nextId, pc, task, crashes>>

JobEnds(j) ==
    /\ j \in jobs
    /\ jobs' = jobs \ {j}
    /\ UNCHANGED <<remote, stage, todo, configs, running, nextId, pc, task, crashes>>

-----------------------------------------------------------------------------
(***************************************************************************)
(* The process dies: everything in memory is lost.  nsqd requeues what was *)
(* in flight; in HTTP mode the events being handled are gone.              *)
(***************************************************************************)
InFlight(r) == { task[w].msg : w \in { v \in Workers : task[v].held /\ task[v].repo = r } }

Die ==
    /\ stage' = "down"
    /\ todo' = Repos
    /\ configs' = [r \in Repos |-> None]
    /\ running' = {}
    /\ jobs' = {}
    /\ pc' = [p \in Procs |-> "idle"]
    /\ task' = [p \in Procs |-> NoTask]
    /\ IF Persistent
       THEN /\ queue' = [r \in Repos |-> queue[r] \cup InFlight(r)]
            /\ UNCHANGED missed
       ELSE /\ queue' = [r \in Repos |-> {}]
            /\ missed' = missed \cup { r \in Repos : queue[r] # {} \/ Busy(r) }
    /\ UNCHANGED <<master, nextId>>

Crash ==
    /\ stage # "down"
    /\ crashes < MaxCrashes
    /\ Die
    /\ crashes' = crashes + 1

(***************************************************************************)
(* The map has no lock: a write concurrent with a read or another write is *)
(* a data race, which the Go runtime may detect and answer by killing the  *)
(* process.  (The other outcome it can have is to go unnoticed.)           *)
(***************************************************************************)
MapRace ==
    \E p, q \in Procs : /\ p # q
                        /\ pc[p] = "store"
                        /\ pc[q] \in {"read", "lookup", "store"}

RaceCrash ==
    /\ MapRace
    /\ Die
    /\ UNCHANGED crashes

\* Mutant of Restart: the configurations are not loaded again.
RestartWithoutLoad ==
    /\ stage = "down"
    /\ stage' = "serving"
    /\ UNCHANGED <<remote, todo, server, pc, task, crashes>>

Restart ==
    /\ stage = "down"
    /\ stage' = "boot"
    /\ UNCHANGED <<remote, todo, server, pc, task, crashes>>

-----------------------------------------------------------------------------
\* The steps of one refresh.
Refresh(p) ==
    \/ FetchList(p)
    \/ FetchMissing(p)
    \/ FetchError(p)
    \/ Lookup(p)
    \/ StopCron(p)
    \/ StartCron(p)
    \/ Store(p)

Handle(w) ==
    \/ \E r \in Repos : \E m \in queue[r] : Deliver(w, r, m) \/ GiveUp(w, r, m)
    \/ Gather(w)
    \/ ListFiles(w)
    \/ Refresh(w)

Load ==
    \/ \E r \in Repos : BootNext(r)
    \/ Serve
    \/ Refresh(Boot)

Next ==
    \/ \E r \in Repos : Merge(r)
    \/ \E w \in Workers : Handle(w)
    \/ \E w \in Workers : MsgTimeout(w)
    \/ Load
    \/ \E c \in running : \E e \in c.entries : Fire(c, e)
    \/ \E j \in jobs : JobEnds(j)
    \/ Crash
    \/ RaceCrash
    \/ Restart

(***************************************************************************)
(* Go schedules every runnable goroutine, nsqd delivers what is queued to  *)
(* a free consumer, and the process is restarted when it died.             *)
(***************************************************************************)
Fairness ==
    /\ WF_vars(Load)
    /\ \A w \in Workers : WF_vars(Handle(w))
    /\ WF_vars(Restart)

Spec == Init /\ [][Next]_vars /\ Fairness

-----------------------------------------------------------------------------
\* The type invariant.
TypeOK ==
    /\ master \in [Repos -> Content]
    /\ queue \in [Repos -> SUBSET Message]
    /\ missed \subseteq Repos
    /\ stage \in {"down", "boot", "serving"}
    /\ todo \subseteq Repos
    /\ configs \in [Repos -> Config \cup {None}]
    /\ running \subseteq Cron
    /\ nextId \in Nat
    /\ jobs \subseteq [cron : Cron, entry : [at : Nat, runs : Nat]]
    /\ pc \in [Procs -> Labels]
    /\ task \in [Procs -> Task]
    /\ crashes \in 0..MaxCrashes

(***************************************************************************)
(* config_helpers.go:49, "Stop any existing cron job for the repository":  *)
(* no two schedulers ever run for one repository, through reloads, failed  *)
(* fetches, redelivered events and restarts.                               *)
(***************************************************************************)
OneScheduler ==
    \A c, d \in running : c.repo = d.repo => c = d

(***************************************************************************)
(* config_helpers.go:51: the scheduler about to be stopped is alive, so    *)
(* Stop, which waits without a timeout, never waits for ever.              *)
(***************************************************************************)
StopMeetsRun ==
    \A p \in Procs : pc[p] = "stop" => task[p].cron \in running

(***************************************************************************)
(* A running scheduler belongs to the configuration in force, or to the    *)
(* one a goroutine has in hand between cron.Start and the store.           *)
(***************************************************************************)
NoOrphan ==
    \A c \in running :
        \/ configs[c.repo] # None /\ configs[c.repo].cron = c
        \/ \E p \in Procs : pc[p] = "store" /\ task[p].cron = c

(***************************************************************************)
(* When nothing is queued or being handled for a repository whose refresh  *)
(* was not given up on or skipped, the configuration in force is the one   *)
(* on master: no merge was lost to a crash, a timeout or the order of the  *)
(* refreshes.                                                              *)
(***************************************************************************)
QuietIsFresh ==
    \A r \in Repos :
        stage = "serving" /\ queue[r] = {} /\ ~Busy(r) /\ r \notin missed
            => UpToDate(r)

(***************************************************************************)
(* An older configuration never replaces a newer one, and a configuration  *)
(* in force is dropped only by a crash.                                    *)
(***************************************************************************)
ForwardOnly ==
    [][\A r \in Repos :
          configs[r] # None /\ stage' # "down" =>
              configs'[r] # None /\ configs'[r].cron.ver >= configs[r].cron.ver]_vars

(***************************************************************************)
(* A scheduled job starts under the most recent configuration the server   *)
(* has installed: once a reload has stopped a scheduler, none of its       *)
(* entries fires any more.                                                 *)
(***************************************************************************)
JobsStartCurrent ==
    [][\A j \in jobs' \ jobs :
          \A p \in Procs : pc[p] \in {"start", "store"} /\ task[p].repo = j.cron.repo
              => task[p].cron = j.cron]_vars

\* Every refresh that starts comes to an end: no goroutine hangs in Stop.
RefreshEnds ==
    \A p \in Procs : ~Idle(p) ~> Idle(p)

(***************************************************************************)
(* server.rst:79, "auto-refresh the configuration settings for the         *)
(* repository without having to restart the server": when merges stop, the *)
(* configuration on master ends up in force, unless its refresh was given  *)
(* up on or skipped.                                                       *)
(***************************************************************************)
Converges ==
    \A r \in Repos : <>[](r \in missed \/ UpToDate(r))

(***************************************************************************)
(* A scheduled entry runs the action its schedule was written for          *)
(* (config_helpers.go:59-65).                                              *)
(***************************************************************************)
RunsItsAction ==
    \A j \in jobs : j.entry.runs = j.entry.at

(***************************************************************************)
(* The abstract registry, implemented step by step.                        *)
(***************************************************************************)
Live == [r \in Repos |-> { c \in running : c.repo = r }]
Stored == [r \in Repos |-> IF configs[r] = None THEN None ELSE configs[r].cron]
Registry == INSTANCE ConfigRegistry WITH live <- Live, stored <- Stored

RegistrySpec == Registry!Spec

=============================================================================
