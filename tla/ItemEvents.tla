----------------------------- MODULE ItemEvents -----------------------------
(***************************************************************************)
(* The server on one GitHub item: the consumer of the repository's topic   *)
(* handles the events of the item (nsq.go, handler.go, action.go) while a  *)
(* scheduled job may work on it too (runner.go, HandleStock), with the     *)
(* operations label, random-assign, version-label and version-milestone.   *)
(*                                                                         *)
(* An event carries the item as it was when it was sent, and is handled    *)
(* again after an error or the death of the process.  Nothing recovers a   *)
(* panic of a handler or of a job: it ends the process, which is started   *)
(* again.  A signal stops the consumer; go-nsq then gives its handler      *)
(* thirty seconds.                                                         *)
(***************************************************************************)
EXTENDS Filters, FiniteSets

CONSTANTS
    StartingPoints,   \* item, common and repository's actions, version, milestones
    Words,            \* what people say in comments
    MaxAttempts,      \* deliveries of a message that reach the handler (go-nsq: 5)
    MaxEvents, MaxErrors, MaxStops, MaxJobs, MaxVersion   \* bounds

ASSUME BoundsAssumption ==
    /\ {MaxAttempts, MaxEvents} \subseteq Nat \ {0}
    /\ {MaxErrors, MaxStops, MaxJobs, MaxVersion} \subseteq Nat

Workers == {"consumer", "job"}
Payloads == {"issue", "pr"}

(***************************************************************************)
(* An item.  Its payload is what it really is, and links with it; a view   *)
(* of it has the payload it is shown with, and is brief if it is one of a  *)
(* pull request without the fields Merged and Comments.  A body is nil     *)
(* ({}) or says a word and perhaps the version of a server.  Milestones    *)
(* are versions, 0 is none.                                                *)
(***************************************************************************)
Server == [minor : STRING, suffix : STRING]
Label == (STRING \cup {"version"}) \X (STRING \cup {"master", "unsupported"})
Item ==
    [payload : Payloads, links : BOOLEAN, brief : BOOLEAN, author : STRING, title : STRING,
     body : SUBSET [word : STRING, server : SUBSET Server], master : BOOLEAN,
     labels : SUBSET Label, assignees : SUBSET STRING, milestone : Nat,
     merged : BOOLEAN, said : SUBSET STRING, comments : Nat, age : Nat]

(***************************************************************************)
(* What the configuration decoders have made of poule.yml.                 *)
(***************************************************************************)
Decoded(A) ==
    /\ DOMAIN A \subseteq Nat /\ IsFiniteSet(DOMAIN A)
    /\ \A a \in DOMAIN A :
        /\ DOMAIN A[a].operations \subseteq Nat /\ IsFiniteSet(DOMAIN A[a].operations)
        /\ \A k \in DOMAIN A[a].operations :
            /\ A[a].operations[k].users \subseteq STRING
            /\ DOMAIN A[a].operations[k].patterns \subseteq Label

ASSUME StartingPointsAssumption ==
    /\ Words \subseteq STRING
    /\ \A p \in StartingPoints :
        /\ p.item \in Item /\ ~p.item.merged /\ ~p.item.brief
        /\ Decoded(p.common \o p.repository)
        /\ p.version \in Nat /\ p.milestones \subseteq Nat \ {0}

VARIABLES
    item,          \* the item on GitHub
    version,       \* of the file VERSION on master: the upcoming one
    milestones,    \* the open ones, by the version they are named after
    actions,       \* the common ones, then those of the repository
    sent,          \* the events of the item: their type, action and view of it
    attempts,      \* how often each was delivered
    queue,         \* the events that nsqd has to deliver
    process,       \* "up", "stopping" or "down"
    work,          \* the local variables of the consumer's handler and of the job
    faults,        \* the errors, stops and jobs there were
    mergedAt,      \* history: the upcoming version when the item was merged
    given,         \* history: the last milestone given by the server, and whether
                   \* it was given for a brief view of the item
    assigned,      \* history: assignments by the event that was handled, 0 for jobs
    swallowed      \* history: an answer was wrong and no error was returned

github == <<item, version, milestones>>
nsqd == <<sent, attempts, queue>>
history == <<mergedAt, given, assigned, swallowed>>
vars == <<github, actions, nsqd, process, work, faults, history>>

\* What a listing shows; of a pull request that is a brief view.
View(payload) == [item EXCEPT !.payload = payload, !.brief = payload = "pr"]

(***************************************************************************)
(* makeGitHubItems: an issue comment on a pull request shows an issue.     *)
(* The events of reviews have the brief form of a pull request.            *)
(***************************************************************************)
ShowsIssue(event) == event \in {"issues", "issue_comment"}
ShowsPullRequest(event) ==
    event \in {"pull_request", "pull_request_review", "pull_request_review_comment"}
ShowsItem(event) == ShowsIssue(event) \/ ShowsPullRequest(event)
Event(event, action, it) ==
    [event |-> event, action |-> action,
     x |-> [it EXCEPT !.payload = IF ShowsIssue(event) THEN "issue" ELSE it.payload,
                      !.brief = event \in {"pull_request_review", "pull_request_review_comment"}]]

(***************************************************************************)
(* What remains to be done: operations by action and place, each for the   *)
(* issues and then for the pull requests.                                  *)
(***************************************************************************)
Precedes(s, t) ==
    \/ s[1] < t[1]
    \/ s[1] = t[1] /\ s[2] < t[2]
    \/ s[1] = t[1] /\ s[2] = t[2] /\ s[3] = "issue"
Here(w) == CHOOSE s \in work[w].todo : \A t \in work[w].todo \ {s} : Precedes(s, t)
Op(w) == actions[Here(w)[1]].operations[Here(w)[2]]
Places(A, P) ==
    UNION {{a} \X (DOMAIN actions[a].operations) \X P : a \in A}

Triggered(m) ==
    IF ShowsItem(m.event)
    THEN Places({a \in DOMAIN actions : TriggersContain(actions[a].triggers, m.event, m.action)},
                {m.x.payload})
    ELSE {}

(***************************************************************************)
(* A worker is between two operations (next), in an operation's Filter     *)
(* (filter, pick, version, milestone) or at the request of its Apply.      *)
(***************************************************************************)
Reads == {"version", "milestone"}
Writes == {"assign", "label", "set"}
Message ==
    [event : GitHubEvents, action : {"opened", "created", "closed", "none"}, x : Item]
Work ==
    [pc : {"idle", "next", "filter", "pick"} \cup Reads \cup Writes, id : Nat,
     todo : SUBSET Places(DOMAIN actions, Payloads), x : Item, users : SUBSET STRING,
     labels : SUBSET Label, version : Nat]
Task(pc, id, todo, x) ==
    [pc |-> pc, id |-> id, todo |-> todo, x |-> x, users |-> {}, labels |-> {}, version |-> 0]
Given == [milestone : Nat, brief : BOOLEAN]
Free == Task("idle", 0, {}, sent[1].x)

Pending(id) ==
    id \in queue \/ (work["consumer"].pc # "idle" /\ work["consumer"].id = id)

Init ==
    /\ \E p \in StartingPoints :
        /\ ValidActions(p.common)
        /\ item = p.item
        /\ actions = p.common \o p.repository
        /\ version = p.version
        /\ milestones = p.milestones
    /\ sent = <<Event(IF item.payload = "pr" THEN "pull_request" ELSE "issues", "opened", item)>>
    /\ attempts = <<0>>
    /\ queue = {1}
    /\ process = "up"
    /\ work = [w \in Workers |-> Free]
    /\ faults = [errors |-> 0, stops |-> 0, jobs |-> 0]
    /\ mergedAt = 0 /\ given = [milestone |-> 0, brief |-> FALSE] /\ swallowed = FALSE
    /\ assigned = [id \in 0 .. MaxEvents |-> 0]

-----------------------------------------------------------------------------
(***************************************************************************)
(* Outside: what people do, and the events that GitHub sends of it.        *)
(***************************************************************************)
Send(event, action, it) ==
    /\ Len(sent) < MaxEvents
    /\ sent' = Append(sent, Event(event, action, it))
    /\ attempts' = Append(attempts, 0)
    /\ queue' = queue \cup {Len(sent) + 1}

Comment(event, word) ==
    /\ event = "issue_comment" \/ (event = "pull_request_review_comment" /\ item.payload = "pr")
    /\ item' = [item EXCEPT !.said = @ \cup {word}, !.comments = @ + 1]
    /\ Send(event, "created", item')
    /\ UNCHANGED <<version, milestones, actions, process, work, faults, history>>

Push ==
    /\ Send("push", "none", item)
    /\ UNCHANGED <<github, actions, process, work, faults, history>>

Merge ==
    /\ item.payload = "pr" /\ ~item.merged
    /\ item' = [item EXCEPT !.merged = TRUE]
    /\ mergedAt' = version
    /\ Send("pull_request", "closed", item')
    /\ UNCHANGED <<version, milestones, actions, process, work, faults, given, assigned, swallowed>>

SetMilestone ==
    /\ item.milestone = 0
    /\ \E m \in milestones : item' = [item EXCEPT !.milestone = m]
    /\ UNCHANGED <<version, milestones, actions, nsqd, process, work, faults, history>>

\* The milestone of the next version may be missing, or the old one stay open.
Release ==
    /\ version < MaxVersion
    /\ version' = version + 1
    /\ milestones' \in {milestones, milestones \cup {version + 1}, {version + 1}}
    /\ UNCHANGED <<item, actions, nsqd, process, work, faults, history>>

-----------------------------------------------------------------------------
(***************************************************************************)
(* Messages and jobs start, end and fail.                                  *)
(***************************************************************************)
\* Mutant of Deliver: one delivery too many.
DeliverOnceMore(id) ==
    /\ process = "up" /\ work["consumer"].pc = "idle"
    /\ id \in queue /\ attempts[id] <= MaxAttempts
    /\ queue' = queue \ {id}
    /\ attempts' = [attempts EXCEPT ![id] = @ + 1]
    /\ work' = [work EXCEPT !["consumer"] = Task("next", id, Triggered(sent[id]), sent[id].x)]
    /\ UNCHANGED <<github, actions, sent, process, faults, history>>

Deliver(id) ==
    /\ process = "up" /\ work["consumer"].pc = "idle"
    /\ id \in queue /\ attempts[id] < MaxAttempts
    /\ queue' = queue \ {id}
    /\ attempts' = [attempts EXCEPT ![id] = @ + 1]
    /\ work' = [work EXCEPT !["consumer"] = Task("next", id, Triggered(sent[id]), sent[id].x)]
    /\ UNCHANGED <<github, actions, sent, process, faults, history>>

GiveUp(id) ==
    /\ process = "up" /\ work["consumer"].pc = "idle"
    /\ id \in queue /\ attempts[id] >= MaxAttempts
    /\ queue' = queue \ {id}
    /\ UNCHANGED <<github, actions, sent, attempts, process, work, faults, history>>

StartJob(a) ==
    /\ process # "down" /\ work["job"].pc = "idle"
    /\ faults.jobs < MaxJobs
    /\ actions[a].schedule = "hourly"
    /\ faults' = [faults EXCEPT !.jobs = @ + 1]
    /\ work' = [work EXCEPT !["job"] = Task("next", 0, Places({a}, Payloads), item)]
    /\ UNCHANGED <<github, actions, nsqd, process, history>>

Idle(w) == [work EXCEPT ![w] = Free]

Finish(w) ==
    /\ work[w].pc = "next" /\ work[w].todo = {}
    /\ work' = Idle(w)
    /\ UNCHANGED <<github, actions, nsqd, process, faults, history>>

\* Mutant of ReturnError: the handler returns nil.
ReturnNil(w) ==
    /\ work' = Idle(w)
    /\ UNCHANGED queue

\* go-nsq requeues the message; the error of a job is logged.
ReturnError(w) ==
    /\ work' = Idle(w)
    /\ queue' = queue \cup (IF w = "consumer" THEN {work[w].id} ELSE {})

\* The next operation, with the same view of the item.
Advance(w) ==
    work' = [work EXCEPT ![w] = Task("next", @.id, @.todo \ {Here(w)}, @.x)]

(***************************************************************************)
(* The process ends; nsqd delivers again what the handler had in hand.     *)
(***************************************************************************)
Die ==
    /\ process' = "down"
    /\ work' = [w \in Workers |-> Free]
    /\ queue' = queue \cup (IF work["consumer"].pc = "idle" THEN {} ELSE {work["consumer"].id})
    /\ UNCHANGED <<github, actions, sent, attempts, faults, history>>

Signal ==
    /\ process = "up" /\ faults.stops < MaxStops
    /\ process' = "stopping"
    /\ faults' = [faults EXCEPT !.stops = @ + 1]
    /\ UNCHANGED <<github, actions, nsqd, work, history>>

Stopped == process = "stopping" /\ work["consumer"].pc = "idle" /\ Die

\* Mutant of Exit: the process waits for the handler.
ExitWhenIdle == Stopped

\* Thirty seconds have passed.
Exit == process = "stopping" /\ work["consumer"].pc # "idle" /\ Die

Restart ==
    /\ process = "down"
    /\ process' = "up"
    /\ UNCHANGED <<github, actions, nsqd, work, faults, history>>

-----------------------------------------------------------------------------
(***************************************************************************)
(* What the operations say of a view of the item.                          *)
(***************************************************************************)
Texts(x) == {x.title} \cup {b.word : b \in x.body}
LabelsMatched(op, x) == {l \in DOMAIN op.patterns : op.patterns[l] \cap Texts(x) # {}}

LabelFromVersion(server) ==
    <<"version", CASE server.suffix = "dev" -> "master"
                   [] server.suffix \in {"", "cs", "rc", "ce", "ee"} -> server.minor
                   [] OTHER -> "unsupported">>
VersionLabels(x) == {LabelFromVersion(s) : s \in UNION {b.server : b \in x.body}}

\* Mutant of AssignAccepts: assigned items are not left alone.
AssignAlways(x) == TRUE
AssignAccepts(x) == x.assignees = {}

\* Mutant of MilestoneAccepts: any pull request without a milestone.
MilestoneUnmerged(x) == x.milestone = 0 /\ x.master

\* Whether it is merged is not known of a brief pull request, and not asked.
MilestoneAccepts(x) == (x.merged \/ x.brief) /\ x.milestone = 0 /\ x.master

OperationAccepts(op, x) ==
    CASE op.type = "label" -> LabelsMatched(op, x) # {}
      [] op.type = "version-label" -> VersionLabels(x) # {}
      [] op.type = "random-assign" -> AssignAccepts(x)
      [] op.type = "version-milestone" -> MilestoneAccepts(x)

(***************************************************************************)
(* What cannot be evaluated: the field of gh.Item that is nil, the body of *)
(* an item that has none, a random number below 0.                         *)
(***************************************************************************)
Panics(op, x) ==
    CASE op.type = "label" -> (\E l \in DOMAIN op.patterns : op.patterns[l] # {}) /\ x.body = {}
      [] op.type = "version-label" -> x.payload = "pr"
      [] op.type = "random-assign" -> AssignAccepts(x) /\ op.users = {}
      [] op.type = "version-milestone" -> x.payload = "issue"

-----------------------------------------------------------------------------
(***************************************************************************)
(* The steps of a worker on an operation.                                  *)
(***************************************************************************)
AtOperation(w) == work[w].pc = "next" /\ work[w].todo # {}

\* HandleStock: the listing is made.  Closed items are in none, issues in one.
Includes(op, payload) ==
    /\ payload \in Accepts(op.type)
    /\ IF payload = "issue" THEN FilterIncludesIssues(op.filters)
       ELSE FilterIncludesPullRequests(op.filters)
InListing(payload) == ~item.merged /\ (payload = "pr" => item.payload = "pr")
Lists(w) ==
    /\ w = "job" /\ AtOperation(w) /\ MakesRunner(Op(w))
    /\ Includes(Op(w), Here(w)[3]) /\ HasListing(Op(w).type)

Misconfigured(w) ==
    /\ AtOperation(w)
    /\ \/ ~MakesRunner(Op(w))
       \/ w = "job" /\ Includes(Op(w), Here(w)[3]) /\ ~HasListing(Op(w).type)
    /\ ReturnError(w)
    /\ UNCHANGED <<github, actions, sent, attempts, process, faults, history>>

Runs(w) ==
    /\ AtOperation(w) /\ MakesRunner(Op(w))
    /\ w = "job" => Lists(w) /\ InListing(Here(w)[3])

Skip(w) ==
    /\ w = "job" /\ AtOperation(w) /\ MakesRunner(Op(w))
    /\ ~Includes(Op(w), Here(w)[3]) \/ (Lists(w) /\ ~InListing(Here(w)[3]))
    /\ Advance(w)
    /\ UNCHANGED <<github, actions, nsqd, process, faults, history>>

InHand(w) == IF w = "job" THEN View(Here(w)[3]) ELSE work[w].x

GlobalFilters(w) ==
    /\ Runs(w)
    /\ \/ /\ FiltersApply(Op(w).filters, InHand(w), item.said)
          /\ ~FiltersPanic(Op(w).filters, InHand(w))
          /\ work' = [work EXCEPT ![w] = Task("filter", @.id, @.todo, InHand(w))]
       \/ /\ ~FiltersApply(Op(w).filters, InHand(w), item.said)
          /\ Advance(w)
    /\ UNCHANGED <<github, actions, nsqd, process, faults, history>>

\* The comments cannot be listed: the error is logged, the item rejected.
ContainsFails(w) ==
    /\ Runs(w) /\ "contains" \in DOMAIN Op(w).filters
    /\ faults.errors < MaxErrors
    /\ faults' = [faults EXCEPT !.errors = @ + 1]
    /\ swallowed' = TRUE
    /\ Advance(w)
    /\ UNCHANGED <<github, actions, nsqd, process, mergedAt, given, assigned>>

Panic(w) ==
    /\ \/ work[w].pc = "filter" /\ Panics(Op(w), work[w].x)
       \/ Runs(w) /\ FiltersPanic(Op(w).filters, InHand(w))
    /\ Die

Filter(w) ==
    /\ work[w].pc = "filter" /\ ~Panics(Op(w), work[w].x)
    /\ LET op == Op(w)  x == work[w].x  next == [work[w] EXCEPT !.pc =
               CASE op.type = "random-assign" -> "pick"
                 [] op.type = "version-milestone" -> "version"
                 [] OTHER -> "label"]
       IN IF ~OperationAccepts(op, x) THEN Advance(w)
          ELSE work' = [work EXCEPT ![w] = [next EXCEPT !.labels =
               CASE op.type = "label" -> LabelsMatched(op, x)
                 [] op.type = "version-label" -> VersionLabels(x)
                 [] OTHER -> {}]]
    /\ UNCHANGED <<github, actions, nsqd, process, faults, history>>

\* Mutant of Candidates: the user is always the first.
FirstUser(w) == {CHOOSE u \in Op(w).users : TRUE} \ {work[w].x.author}
Candidates(w) == Op(w).users \ {work[w].x.author}

\* The choice of the author is made again and again.
Pick(w) ==
    /\ work[w].pc = "pick"
    /\ \E u \in Candidates(w) : work' = [work EXCEPT ![w].pc = "assign", ![w].users = {u}]
    /\ UNCHANGED <<github, actions, nsqd, process, faults, history>>
RetriesForever(w) == work[w].pc = "pick" /\ Op(w).users = {work[w].x.author}

GetVersion(w) ==
    /\ work[w].pc = "version"
    /\ work' = [work EXCEPT ![w].pc = "milestone", ![w].version = version]
    /\ UNCHANGED <<github, actions, nsqd, process, faults, history>>

\* The status of the answer is not looked at: the page of an error is the version.
GetErrorPage(w) ==
    /\ work[w].pc = "version"
    /\ faults.errors < MaxErrors
    /\ faults' = [faults EXCEPT !.errors = @ + 1]
    /\ swallowed' = TRUE
    /\ work' = [work EXCEPT ![w].pc = "milestone", ![w].version = 0]
    /\ UNCHANGED <<github, actions, nsqd, process, mergedAt, given, assigned>>

ListMilestones(w) ==
    /\ work[w].pc = "milestone"
    /\ IF work[w].version \in milestones
       THEN work' = [work EXCEPT ![w].pc = "set"] ELSE Advance(w)
    /\ UNCHANGED <<github, actions, nsqd, process, faults, history>>

\* The effect of the request of an Apply.
Effect(w) ==
    /\ item' = CASE work[w].pc = "assign" -> [item EXCEPT !.assignees = @ \cup work[w].users]
                 [] work[w].pc = "label" -> [item EXCEPT !.labels = @ \cup work[w].labels]
                 [] work[w].pc = "set" -> [item EXCEPT !.milestone = work[w].version]
    /\ given' = IF work[w].pc = "set"
                THEN [milestone |-> work[w].version, brief |-> work[w].x.brief] ELSE given
    /\ assigned' = IF work[w].pc = "assign" THEN [assigned EXCEPT ![work[w].id] = @ + 1]
                   ELSE assigned

Apply(w) ==
    /\ work[w].pc \in Writes
    /\ Effect(w)
    /\ Advance(w)
    /\ UNCHANGED <<version, milestones, actions, nsqd, process, faults, mergedAt, swallowed>>

\* A request fails, a write with or without its effect.
Fail(w) ==
    /\ faults.errors < MaxErrors
    /\ faults' = [faults EXCEPT !.errors = @ + 1]
    /\ \/ work[w].pc \in Writes /\ Effect(w)
       \/ (work[w].pc \in Reads \cup Writes \/ Lists(w)) /\ UNCHANGED <<item, given, assigned>>
    /\ ReturnError(w)
    /\ UNCHANGED <<version, milestones, actions, sent, attempts, process, mergedAt, swallowed>>

-----------------------------------------------------------------------------
People ==
    \/ \E word \in Words, event \in {"issue_comment", "pull_request_review_comment"} :
          Comment(event, word)
    \/ Push \/ Merge \/ SetMilestone \/ Release

Advances(w) ==
    \/ Finish(w) \/ Misconfigured(w) \/ Skip(w) \/ GlobalFilters(w) \/ Panic(w) \/ Filter(w)
    \/ Pick(w) \/ GetVersion(w) \/ ListMilestones(w) \/ Apply(w)
Faults(w) == ContainsFails(w) \/ GetErrorPage(w) \/ Fail(w)

Takes == \E id \in DOMAIN sent : Deliver(id) \/ GiveUp(id)

Next ==
    \/ People
    \/ Takes
    \/ \E a \in DOMAIN actions : StartJob(a)
    \/ \E w \in Workers : Advances(w) \/ Faults(w)
    \/ Signal \/ Stopped \/ Exit \/ Restart

(***************************************************************************)
(* A worker goes on, nsqd delivers, the timer of Stop fires, and whoever   *)
(* runs the server starts it again.  Nobody has to do anything else.       *)
(***************************************************************************)
Fairness ==
    /\ WF_vars(Takes) /\ \A w \in Workers : WF_vars(Advances(w))
    /\ WF_vars(Stopped) /\ WF_vars(Exit) /\ WF_vars(Restart)

Spec == Init /\ [][Next]_vars
FairSpec == Spec /\ Fairness

-----------------------------------------------------------------------------

(***************************************************************************)
(* The state has its types; no message reaches the handler more often than *)
(* go-nsq is configured for.                                               *)
(***************************************************************************)
TypeOK ==
    /\ item \in Item
    /\ version \in Nat /\ milestones \subseteq Nat
    /\ sent \in Seq(Message) /\ sent # <<>> /\ Len(sent) <= MaxEvents
    /\ attempts \in Seq(0 .. MaxAttempts) /\ Len(attempts) = Len(sent)
    /\ queue \subseteq DOMAIN sent
    /\ process \in {"up", "stopping", "down"}
    /\ Decoded(actions)
    /\ work \in [Workers -> Work]
    /\ work["consumer"].pc # "idle" => work["consumer"].id \in DOMAIN sent
    /\ faults \in [errors : Nat, stops : Nat, jobs : Nat]
    /\ mergedAt \in Nat /\ given \in Given /\ swallowed \in BOOLEAN
    /\ assigned \in [0 .. MaxEvents -> Nat]

(***************************************************************************)
(* No milestone that was over when the item was merged is given to it, and *)
(* none to an item that is not merged, whatever the delay of the event,    *)
(* releases in between and redeliveries (version-milestone.go:58-103),     *)
(* except for an event of a review: its pull request does not say whether  *)
(* it is merged, and line 63 rejects only one that says it is not.         *)
(***************************************************************************)
NotBackdated ==
    given.milestone # 0 => given.brief \/ (item.merged /\ given.milestone >= mergedAt)

(***************************************************************************)
(* HandleStock leaves a listing out (runner.go:67-73) only if the filters  *)
(* reject everything that it could show: the two readings of a filter,     *)
(* before the listing and on each item, agree.                             *)
(***************************************************************************)
SkipIsSound ==
    \A a \in DOMAIN actions : \A k \in DOMAIN actions[a].operations, payload \in Payloads :
        LET op == actions[a].operations[k] IN
        MakesRunner(op) /\ payload \in Accepts(op.type) /\ ~Includes(op, payload)
            => ~FiltersApply(op.filters, View(payload), item.said)

(***************************************************************************)
(* Every assignment is explained by a delivery of an event that showed the *)
(* item unassigned, or by a job: when several users end up assigned, the   *)
(* item was assigned after the event, or the event handled again           *)
(* (random-assign.go:73).  An event sent after the assignment adds none.   *)
(***************************************************************************)
AssignsIn(P) ==
    Cardinality({s \in P : actions[s[1]].operations[s[2]].type = "random-assign"})
Stale(id) == id \in DOMAIN sent /\ sent[id].x.assignees = {}
Explained(id) ==
    IF id = 0 THEN faults.jobs * AssignsIn(Places(DOMAIN actions, Payloads))
    ELSE IF Stale(id) THEN attempts[id] * AssignsIn(Triggered(sent[id]))
    ELSE 0
AssignmentsExplained == \A id \in 0 .. MaxEvents : assigned[id] <= Explained(id)

(***************************************************************************)
(* Every event leaves the server, handled or given up, whatever panics or  *)
(* fails: only an operation whose one user is the author keeps its handler *)
(* for good (random-assign.go:78-83).                                      *)
(***************************************************************************)
EventsEnd ==
    \A id \in 1 .. MaxEvents : Pending(id) ~> (~Pending(id) \/ RetriesForever("consumer"))

(***************************************************************************)
(* A signal ends the process, also when the handler is in such a loop      *)
(* (nsq.go:47-52, Stop and exit of go-nsq).                                *)
(***************************************************************************)
StopEnds == process = "stopping" ~> process = "down"

(***************************************************************************)
(* An event whose operations are sound has in the end had its effect: the  *)
(* errors, stops and panics of jobs that MaxAttempts makes up for lose     *)
(* nothing.  What is lost is lost to an answer that was not checked        *)
(* (filtering.go:137, version-milestone.go:120), to a release since, or to *)
(* another event's loop.                                                   *)
(***************************************************************************)
Sound(op, x) ==
    /\ MakesRunner(op) /\ ~FiltersPanic(op.filters, x)
    /\ FiltersApply(op.filters, x, x.said) => ~Panics(op, x)
    /\ op.type = "random-assign" => ~op.users \subseteq {x.author}
Done(op, x) ==
    CASE op.type = "label" -> LabelsMatched(op, x) \subseteq item.labels
      [] op.type = "version-label" -> VersionLabels(x) \subseteq item.labels
      [] op.type = "random-assign" -> item.assignees \cap op.users # {}
      [] op.type = "version-milestone" ->
            item.milestone # 0 \/ version > mergedAt \/ version \notin milestones
SoundEvent(id) ==
    /\ id \in DOMAIN sent
    /\ \A s \in Triggered(sent[id]) : Sound(actions[s[1]].operations[s[2]], sent[id].x)
Served(id) ==
    /\ id \in DOMAIN sent
    /\ \A s \in Triggered(sent[id]) :
        LET op == actions[s[1]].operations[s[2]]  x == sent[id].x IN
        MakesRunner(op) /\ FiltersApply(op.filters, x, x.said) /\ OperationAccepts(op, x)
            => Done(op, x)
SoundEventsServed ==
    \A id \in 1 .. MaxEvents :
        SoundEvent(id) ~> (Served(id) \/ swallowed \/ RetriesForever("consumer"))

(***************************************************************************)
(* Through errors, panics, signals and restarts, with a job on the same    *)
(* item, the events are delivered as Delivery promises: what a worker of   *)
(* the job does, or the end of the process under it, loses no event and    *)
(* skips no operation of one, and none is handled that is over.            *)
(***************************************************************************)
Tries(id) == [id |-> id, tries |-> attempts[id]]
Due == [id \in DOMAIN sent |-> Triggered(sent[id])]
Waiting == {Tries(id) : id \in queue}
Hand == IF work["consumer"].pc = "idle" THEN {} ELSE {Tries(work["consumer"].id)}
Left == IF work["consumer"].pc = "idle" THEN {} ELSE work["consumer"].todo
Topic == INSTANCE Delivery WITH due <- Due, waiting <- Waiting, hand <- Hand, left <- Left
DeliverySpec == Topic!Spec

(***************************************************************************)
(* operations.go:60-61: Accepts returns the types of items that the        *)
(* operation can be applied to.  Its Filter is called on no other.         *)
(***************************************************************************)
OnlyAccepted ==
    \A w \in Workers : work[w].pc = "filter" => work[w].x.payload \in Accepts(Op(w).type)
=============================================================================
