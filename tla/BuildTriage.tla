----------------------------- MODULE BuildTriage -----------------------------
(***************************************************************************)
(* The two operations that act on the builds of a pull request: rebuild    *)
(* (rebuild.go), run by the event "labeled", and ci-label-clean            *)
(* (ci-label-clean.go), run by a scheduled job.  Both read one page of the *)
(* statuses (gh/status.go) of the head that the event or the listing of    *)
(* the job carries, and act on what they read some requests later, while   *)
(* the CI publishes new statuses and people push and move the labels.      *)
(***************************************************************************)
EXTENDS Naturals, SequencesExt

CONSTANTS
    Contexts,      \* the configurations the CI reports on
    Reports,       \* what the CI reports: pairs of a context and a result
    Setups,        \* what does not change: the settings of rebuild, of which an
                   \* empty one takes its default, and whether the pull request
                   \* is one to the branch master
    StatusPage,    \* statuses that one ListStatuses returns (GitHub: 30)
    MaxAttempts,   \* deliveries of a message that reach the handler (go-nsq: 5)
    MaxStatuses,   \* bound: statuses published
    MaxPushes,     \* bound: pushes to the branch
    MaxEvents,     \* bound: what people do to the pull request
    MaxErrors      \* bound: failed requests

Results == {"pending", "success", "error", "failure"}
Heads == 0..MaxPushes

ASSUME TriageAssumption ==
    /\ Reports \subseteq Contexts \X Results
    /\ Setups \subseteq
          [configurations : SUBSET Contexts, statuses : SUBSET Results, master : BOOLEAN]
    /\ MaxPushes \in Nat
    /\ StatusPage \in Nat \ {0} /\ MaxAttempts \in Nat \ {0}
    /\ MaxStatuses \in Nat /\ MaxEvents \in Nat /\ MaxErrors \in Nat

VARIABLES
    open,       \* the pull request is open
    head,       \* its head, the last commit of its branch
    published,  \* for each head its statuses, in order of publication
    trigger,    \* it carries the label that rebuild looks for
    failing,    \* it carries the label that ci-label-clean takes off
    setup,      \* the settings and the branch
    queue,      \* the messages not yet handled
    handler,    \* the local variables of the consumer of the repository
    job,        \* the local variables of the scheduled job
    events, errors

github == <<open, head, published, trigger, failing>>
vars == <<github, setup, queue, handler, job, events, errors>>

\* The settings as rebuild uses them.
configurations == setup.configurations
RebuildStatuses ==
    IF setup.statuses = {} THEN {"error", "failure"} ELSE setup.statuses

-----------------------------------------------------------------------------
(***************************************************************************)
(* ListStatuses of a head without options: one page, latest first.         *)
(***************************************************************************)
ListStatuses(h) ==
    SubSeq(Reverse(published[h]), 1,
           IF Len(published[h]) < StatusPage THEN Len(published[h]) ELSE StatusPage)

\* Mutant: of two statuses of the same second, the one listed later is kept.
KeepOrEqual(latest, s) ==
    IF s.context \in DOMAIN latest /\ s.at < latest[s.context].at THEN latest
    ELSE [c \in DOMAIN latest \cup {s.context} |-> IF c = s.context THEN s ELSE latest[c]]

(***************************************************************************)
(* The latest status of each context that the list holds.  Times are       *)
(* compared in seconds, and an equal one does not replace what is there.   *)
(***************************************************************************)
Keep(latest, s) ==
    IF s.context \in DOMAIN latest /\ s.at <= latest[s.context].at THEN latest
    ELSE [c \in DOMAIN latest \cup {s.context} |-> IF c = s.context THEN s ELSE latest[c]]

GetLatestStatuses(list) ==
    LET latest[k \in 0..Len(list)] == IF k = 0 THEN <<>> ELSE Keep(latest[k - 1], list[k])
    IN  latest[Len(list)]

HasFailures(latest) ==
    \E c \in DOMAIN latest : latest[c].state \notin {"success", "pending"}

\* Mutant: the default of the setting configurations is ignored.
RebuildKnown(latest) ==
    { c \in configurations \cap DOMAIN latest : latest[c].state \in RebuildStatuses }

\* The contexts that rebuild selects, the set that Filter hands to Apply.
RebuildContexts(latest) ==
    { c \in (IF configurations = {} THEN DOMAIN latest ELSE configurations) :
        c \notin DOMAIN latest \/ latest[c].state \in RebuildStatuses }

(***************************************************************************)
(* The same from the history of a head, not from a listing: the last       *)
(* status of a context, if it is recent enough for the first page.         *)
(***************************************************************************)
OnPage(h) == { k \in DOMAIN published[h] : k > Len(published[h]) - StatusPage }
Reported(h, c) == \E k \in OnPage(h) : published[h][k].context = c
EndsIn(h, c, states) ==
    \E k \in OnPage(h) :
        /\ published[h][k].context = c /\ published[h][k].state \in states
        /\ \A l \in OnPage(h) : l > k => published[h][l].context # c
Green(h) == \A c \in Contexts : ~EndsIn(h, c, {"error", "failure"})
Eligible(h) ==
    { c \in Contexts :
        \/ EndsIn(h, c, RebuildStatuses) /\ (configurations = {} \/ c \in configurations)
        \/ c \in configurations /\ ~Reported(h, c) }

-----------------------------------------------------------------------------
(***************************************************************************)
(* owed: the contexts that the head of the message showed as eligible at   *)
(* every moment from the start of its handling to its listing, less those  *)
(* the CI has been asked to build.  green: at some moment since the job    *)
(* saw the label and until it listed the statuses, its head showed no      *)
(* failing context.                                                        *)
(***************************************************************************)
NoMessage == [id |-> 0, attempts |-> 0, open |-> FALSE, head |-> 0]
Idle == [pc |-> "idle", msg |-> NoMessage, todo |-> {}, owed |-> {}]
Off == [pc |-> "off", head |-> 0, green |-> FALSE]

Init ==
    /\ open = TRUE
    /\ head = 0
    /\ published = [h \in Heads |-> <<>>]
    /\ trigger = FALSE
    /\ failing = FALSE
    /\ setup \in Setups
    /\ queue = {}
    /\ handler = Idle
    /\ job = Off
    /\ events = 0
    /\ errors = 0

-----------------------------------------------------------------------------
(***************************************************************************)
(* Outside: the CI publishes a status of the last head or of an older one, *)
(* in the second of the last status or later; people push, set and take    *)
(* off the labels, and close the pull request.  The event "labeled", sent  *)
(* for every label, carries the pull request as it is when it is sent.     *)
(***************************************************************************)
Publish(h, c, r) ==
    /\ MapThenSumSet(LAMBDA g : Len(published[g]), Heads) < MaxStatuses
    /\ h <= head
    /\ \E later \in {0, 1} :
          published' = [published EXCEPT ![h] = Append(@,
              [context |-> c, state |-> r, at |-> IF @ = <<>> THEN 0 ELSE Last(@).at + later])]
    /\ UNCHANGED <<open, head, trigger, failing, setup, queue, events, errors>>
    /\ handler' = IF handler.pc \in {"issue", "statuses"} /\ handler.msg.head = h
                  THEN [handler EXCEPT !.owed = @ \cap Eligible(h)'] ELSE handler
    /\ job' = IF job.pc = "statuses" /\ job.head = h
              THEN [job EXCEPT !.green = @ \/ Green(h)'] ELSE job

Person ==
    /\ events < MaxEvents
    /\ events' = events + 1
    /\ UNCHANGED <<published, setup, handler, job, errors>>

Push ==
    /\ Person
    /\ open
    /\ head < MaxPushes
    /\ head' = head + 1
    /\ UNCHANGED <<open, trigger, failing, queue>>

Labeled == queue \cup {[id |-> events', attempts |-> 0, open |-> open, head |-> head]}

SetTrigger ==
    /\ Person
    /\ ~trigger
    /\ trigger' = TRUE
    /\ queue' = Labeled
    /\ UNCHANGED <<open, head, failing>>

TakeTrigger ==
    /\ Person
    /\ trigger
    /\ trigger' = FALSE
    /\ UNCHANGED <<open, head, failing, queue>>

MoveFailing ==
    /\ Person
    /\ failing' = ~failing
    /\ queue' = IF failing' THEN Labeled ELSE queue
    /\ UNCHANGED <<open, head, trigger>>

Close ==
    /\ Person
    /\ open
    /\ open' = FALSE
    /\ UNCHANGED <<head, trigger, failing, queue>>

-----------------------------------------------------------------------------
\* Mutant of Deliver: one delivery too many.
DeliverOnceMore(m) ==
    /\ handler.pc = "idle"
    /\ m \in queue
    /\ m.attempts <= MaxAttempts
    /\ queue' = queue \ {m}
    /\ handler' = IF m.open THEN [Idle EXCEPT !.pc = "issue", !.owed = Eligible(m.head),
                                              !.msg = [m EXCEPT !.attempts = @ + 1]]
                  ELSE Idle
    /\ UNCHANGED <<github, setup, job, events, errors>>

(***************************************************************************)
(* rebuild.Filter rejects a pull request that was closed when the event    *)
(* was sent, and goes on with its first request otherwise.                 *)
(***************************************************************************)
Deliver(m) ==
    /\ handler.pc = "idle"
    /\ m \in queue
    /\ m.attempts < MaxAttempts
    /\ queue' = queue \ {m}
    /\ handler' = IF m.open THEN [Idle EXCEPT !.pc = "issue", !.owed = Eligible(m.head),
                                              !.msg = [m EXCEPT !.attempts = @ + 1]]
                  ELSE Idle
    /\ UNCHANGED <<github, setup, job, events, errors>>

GiveUp(m) ==
    /\ handler.pc = "idle"
    /\ m \in queue
    /\ m.attempts >= MaxAttempts
    /\ queue' = queue \ {m}
    /\ UNCHANGED <<github, setup, handler, job, events, errors>>

\* GetRelatedIssue: the labels as they are now.
GetIssue ==
    /\ handler.pc = "issue"
    /\ handler' = IF trigger THEN [handler EXCEPT !.pc = "statuses"] ELSE Idle
    /\ UNCHANGED <<github, setup, queue, job, events, errors>>

GetStatuses ==
    /\ handler.pc = "statuses"
    /\ handler' = [handler EXCEPT !.pc = "build",
                                  !.todo = RebuildContexts(GetLatestStatuses(ListStatuses(handler.msg.head)))]
    /\ UNCHANGED <<github, setup, queue, job, events, errors>>

\* Apply: the CI accepts one build after the other, in any order (a map).
Build(c) ==
    /\ handler.pc = "build"
    /\ c \in handler.todo
    /\ handler' = [handler EXCEPT !.todo = @ \ {c}, !.owed = @ \ {c}]
    /\ UNCHANGED <<github, setup, queue, job, events, errors>>

\* Mutant of ReturnError: the message is finished as if it had been handled.
ReturnErrorFinishes ==
    /\ handler' = Idle
    /\ UNCHANGED queue

\* The message is requeued, with one attempt more.
ReturnError ==
    /\ handler' = Idle
    /\ queue' = queue \cup {handler.msg}

\* Mutant: the label is taken off before the builds.
RemoveTriggerFirst ==
    /\ handler.pc = "build"
    /\ trigger' = FALSE
    /\ handler' = Idle
    /\ UNCHANGED <<open, head, published, failing, setup, queue, job, events, errors>>

\* The end of Apply.  GitHub refuses to take off a label that is not there.
RemoveTrigger ==
    /\ handler.pc = "build"
    /\ handler.todo = {}
    /\ trigger' = FALSE
    /\ IF trigger THEN handler' = Idle /\ UNCHANGED queue ELSE ReturnError
    /\ UNCHANGED <<open, head, published, failing, setup, job, events, errors>>

\* A request fails, with its effect (the answer is lost) or without it.
Fail ==
    /\ handler.pc # "idle"
    /\ errors < MaxErrors
    /\ errors' = errors + 1
    /\ ReturnError
    /\ \/ UNCHANGED trigger
       \/ handler.pc = "build" /\ handler.todo = {} /\ trigger' = FALSE
    /\ UNCHANGED <<open, head, published, failing, setup, job, events>>

Handle ==
    \/ \E m \in queue : Deliver(m) \/ GiveUp(m)
    \/ GetIssue \/ GetStatuses \/ RemoveTrigger \/ Fail
    \/ \E c \in Contexts : Build(c)

-----------------------------------------------------------------------------
(***************************************************************************)
(* The scheduled job of ci-label-clean.  Its listing holds the open pull   *)
(* requests to master only, with their heads.  An error, or a label that   *)
(* is gone, ends the job.                                                  *)
(***************************************************************************)
Fire ==
    /\ job.pc = "off"
    /\ open /\ setup.master
    /\ job' = [Off EXCEPT !.pc = "issue", !.head = head]
    /\ UNCHANGED <<github, setup, queue, handler, events, errors>>

GetJobIssue ==
    /\ job.pc = "issue"
    /\ job' = IF failing THEN [job EXCEPT !.pc = "statuses", !.green = Green(job.head)] ELSE Off
    /\ UNCHANGED <<github, setup, queue, handler, events, errors>>

\* Mutant: pull requests with failures are accepted, the others rejected.
GetJobStatusesInverted ==
    /\ job.pc = "statuses"
    /\ job' = IF HasFailures(GetLatestStatuses(ListStatuses(job.head)))
              THEN [job EXCEPT !.pc = "clean"] ELSE Off
    /\ UNCHANGED <<github, setup, queue, handler, events, errors>>

GetJobStatuses ==
    /\ job.pc = "statuses"
    /\ job' = IF HasFailures(GetLatestStatuses(ListStatuses(job.head))) THEN Off
              ELSE [job EXCEPT !.pc = "clean"]
    /\ UNCHANGED <<github, setup, queue, handler, events, errors>>

RemoveFailing ==
    /\ job.pc = "clean"
    /\ failing' = FALSE
    /\ job' = Off
    /\ UNCHANGED <<open, head, published, trigger, setup, queue, handler, events, errors>>

FailJob ==
    /\ job.pc # "off"
    /\ errors < MaxErrors
    /\ errors' = errors + 1
    /\ job' = Off
    /\ \/ UNCHANGED failing
       \/ job.pc = "clean" /\ failing' = FALSE
    /\ UNCHANGED <<open, head, published, trigger, setup, queue, handler, events>>

RunJob == Fire \/ GetJobIssue \/ GetJobStatuses \/ RemoveFailing \/ FailJob

-----------------------------------------------------------------------------
Next ==
    \/ \E h \in Heads, report \in Reports : Publish(h, report[1], report[2])
    \/ Push \/ SetTrigger \/ TakeTrigger \/ MoveFailing \/ Close
    \/ Handle
    \/ RunJob

\* The consumer goes on with its messages, and the cron entry keeps firing.
Fairness == WF_vars(Handle) /\ WF_vars(RunJob)

Spec == Init /\ [][Next]_vars /\ Fairness

-----------------------------------------------------------------------------
TypeOK ==
    /\ open \in BOOLEAN /\ trigger \in BOOLEAN /\ failing \in BOOLEAN /\ head \in Heads
    /\ published \in [Heads -> Seq([context : Contexts, state : Results, at : Nat])]
    /\ \A h \in Heads : \A k, l \in DOMAIN published[h] :
          k < l => published[h][k].at <= published[h][l].at
    /\ setup \in Setups
    /\ queue \cup {handler.msg} \subseteq
          [id : 0..events, attempts : 0..MaxAttempts, open : BOOLEAN, head : 0..head]
    /\ handler.pc \in {"idle", "issue", "statuses", "build"}
    /\ handler.todo \cup handler.owed \subseteq Contexts
    /\ job.pc \in {"off", "issue", "statuses", "clean"} /\ job.head \in 0..head

(***************************************************************************)
(* rebuild.go:88: the label is taken off only after the CI has accepted,   *)
(* in this handling of the message, every context that was to be rebuilt   *)
(* from its beginning until the statuses were listed, by the first page of *)
(* the statuses of the head the event was sent for (rebuild.go:131), also  *)
(* when the handling is the retry of one that failed halfway.              *)
(***************************************************************************)
RebuildIsWhole ==
    [][trigger /\ ~trigger' /\ events' = events => handler.owed = {}]_vars

(***************************************************************************)
(* ci-label-clean.go:73: the label is taken off only if at some moment     *)
(* between the request of the labels and that of the statuses no context   *)
(* was failing on the first page of the head the job had listed            *)
(* (ci-label-clean.go:66).                                                 *)
(***************************************************************************)
CleanIsJustified ==
    [][failing /\ ~failing' /\ events' = events => job.green]_vars

(***************************************************************************)
(* README of the catalog, "looks for the label, triggers a rebuild, and    *)
(* removes it": the label does not stay on an open pull request, through   *)
(* failed requests, retries, pushes and people who move it themselves.     *)
(***************************************************************************)
TriggerServed == trigger /\ open ~> ~(trigger /\ open)

(***************************************************************************)
(* ci-label-clean, "Clean CI failure labels": the label does not stay on   *)
(* an open pull request to master (ci-label-clean.go:87) whose head shows  *)
(* no failing context.                                                     *)
(***************************************************************************)
Stale == failing /\ open /\ setup.master /\ Green(head)
StaleIsCleaned == Stale ~> ~Stale

=============================================================================
