------------------------- MODULE PullRequestChecks -------------------------
(***************************************************************************)
(* The two operations that judge a pull request (dco-check.go and the      *)
(* validation half of poule-updater.go), as the server runs them on the    *)
(* events "opened" and "synchronize" of one open pull request in NSQ mode: *)
(* one goroutine handles the messages of a repository, one at a time.      *)
(*                                                                         *)
(* Each operation is a sequence of requests to GitHub, any of which can    *)
(* fail, with or without having had its effect.  An error ends the         *)
(* handling of the message, which is requeued and handled from the start.  *)
(* The event carries the head it was sent for; what the requests read is   *)
(* the pull request as it is by then.                                      *)
(***************************************************************************)
EXTENDS Naturals, Sequences, FiniteSets

CONSTANTS
    Checks,        \* the operations triggered, in order: "dco", "validation"
    MaxAttempts,   \* deliveries of a message that reach the handler (go-nsq: 5)
    MaxPushes      \* bound: heads of the pull request

Names == {"dco", "validation"}

ASSUME ChecksAssumption ==
    /\ Checks \in Seq(Names) /\ Checks # <<>>
    /\ MaxAttempts \in Nat \ {0}
    /\ MaxPushes \in Nat \ {0}

VARIABLES
    pushes,        \* what each head of the pull request holds, the last one last
    label,         \* the pull request carries the label dco/no
    comments,      \* the automated comments on it
    nextId,        \* identity of the next comment
    status,        \* the commit statuses of each head, by context
    queue,         \* the messages not yet handled
    missed,        \* the last message to be given up on is not made up for
    work           \* the local variables of the handler

github == <<pushes, label, comments, nextId, status>>
vars == <<github, queue, missed, work>>

(***************************************************************************)
(* A head: all its commits are signed; what poule.yml is in it.            *)
(***************************************************************************)
Pushed == [signed : BOOLEAN, file : {"untouched", "valid", "invalid"}]
States == {"none", "failure", "success"}
Message == [head : Nat, attempts : Nat]

(***************************************************************************)
(* The handler is at a request (pc) of the k-th operation for the message  *)
(* msg, which nsqd still counts as in flight if held.  at is the head that *)
(* the listing of the operation has shown, pass its verdict, todo the      *)
(* comments that remain to be deleted.                                     *)
(***************************************************************************)
Labels == {"idle", "list", "raw", "label", "find", "delete", "comment", "status"}
Work == [pc : Labels, k : Nat, msg : Message, held : BOOLEAN, at : Nat,
         pass : BOOLEAN, todo : SUBSET Nat]
Free == [pc |-> "idle", k |-> 0, msg |-> [head |-> 0, attempts |-> 0],
         held |-> FALSE, at |-> 0, pass |-> FALSE, todo |-> {}]
Start(k, msg, held) == [pc |-> "list", k |-> k, msg |-> msg, held |-> held,
                        at |-> 0, pass |-> FALSE, todo |-> {}]
Check == Checks[work.k]
head == Len(pushes)

Init ==
    /\ \E h \in Pushed : pushes = <<h>>
    /\ label = FALSE
    /\ comments = {}
    /\ nextId = 1
    /\ status = << [n \in Names |-> "none"] >>
    /\ queue = {[head |-> 1, attempts |-> 0]}
    /\ missed = FALSE
    /\ work = Free

-----------------------------------------------------------------------------
\* Outside: the author pushes; GitHub sends the event "synchronize".
Push ==
    /\ head < MaxPushes
    /\ \E h \in Pushed : pushes' = Append(pushes, h)
    /\ status' = Append(status, [n \in Names |-> "none"])
    /\ queue' = queue \cup {[head |-> head + 1, attempts |-> 0]}
    /\ missed' = FALSE
    /\ UNCHANGED <<label, comments, nextId, work>>

\* Mutant of Deliver: one delivery too many.
DeliverOnceMore(m) ==
    /\ work.pc = "idle"
    /\ m \in queue
    /\ m.attempts <= MaxAttempts
    /\ queue' = queue \ {m}
    /\ work' = Start(1, [m EXCEPT !.attempts = @ + 1], TRUE)
    /\ UNCHANGED <<github, missed>>

(***************************************************************************)
(* nsqd delivers any message it has; go-nsq counts the deliveries, and     *)
(* finishes unhandled what was delivered too often.                        *)
(***************************************************************************)
Deliver(m) ==
    /\ work.pc = "idle"
    /\ m \in queue
    /\ m.attempts < MaxAttempts
    /\ queue' = queue \ {m}
    /\ work' = Start(1, [m EXCEPT !.attempts = @ + 1], TRUE)
    /\ UNCHANGED <<github, missed>>

GiveUp(m) ==
    /\ work.pc = "idle"
    /\ m \in queue
    /\ m.attempts >= MaxAttempts
    /\ queue' = queue \ {m}
    /\ missed' = TRUE
    /\ UNCHANGED <<github, work>>

\* The next operation, or the end of the message.
Done == IF work.k = Len(Checks) THEN Free
        ELSE Start(work.k + 1, work.msg, work.held)

\* Mutant: the message is requeued as a new one.
ReturnErrorAnew ==
    /\ work' = Free
    /\ queue' = IF work.held THEN queue \cup {[work.msg EXCEPT !.attempts = 0]} ELSE queue

\* An error: the message is requeued unless nsqd has timed it out before.
ReturnError ==
    /\ work' = Free
    /\ queue' = IF work.held THEN queue \cup {work.msg} ELSE queue

(***************************************************************************)
(* The end of a request that may change GitHub: the handler goes on as w,  *)
(* or the answer is lost and it returns an error.                          *)
(***************************************************************************)
Answer(w) ==
    \/ work' = w /\ UNCHANGED queue
    \/ ReturnError

\* dcoCheckOperation.Filter: the commits of the pull request as it is now.
ListCommits ==
    /\ work.pc = "list"
    /\ Check = "dco"
    /\ work' = [work EXCEPT !.pc = "label", !.at = head, !.pass = pushes[head].signed]
    /\ UNCHANGED <<github, queue, missed>>

\* Mutant: a label that is there is never removed.
ToggleLabelOn ==
    /\ work.pc = "label"
    /\ label' = (label \/ ~work.pass)
    /\ Answer([work EXCEPT !.pc = "find"])
    /\ UNCHANGED <<pushes, comments, nextId, status, missed>>

\* toggleDCOLabel; removing a label that is not there is not an error.
ToggleLabel ==
    /\ work.pc = "label"
    /\ label' = ~work.pass
    /\ Answer([work EXCEPT !.pc = "find"])
    /\ UNCHANGED <<pushes, comments, nextId, status, missed>>

\* pouleUpdaterOperation.Filter: is poule.yml among the files changed now?
ListFiles ==
    /\ work.pc = "list"
    /\ Check = "validation"
    /\ work' = IF pushes[head].file = "untouched" THEN Done
               ELSE [work EXCEPT !.pc = "raw", !.at = head]
    /\ UNCHANGED <<github, queue, missed>>

\* validatePouleConfiguration: the raw URL names the head it was listed for.
GetRaw ==
    /\ work.pc = "raw"
    /\ work' = [work EXCEPT !.pc = "find", !.pass = pushes[work.at].file = "valid"]
    /\ UNCHANGED <<github, queue, missed>>

\* The token looked for, and the comments that hold it.
Token == IF work.pass THEN "validation" ELSE Check
Found == { c.id : c \in { x \in comments : x.token = Token } }

\* Mutant: a comment is created without looking for one.
FindNone ==
    /\ work.pc = "find"
    /\ work' = IF work.pass
               THEN [work EXCEPT !.pc = IF Found = {} THEN "status" ELSE "delete",
                                 !.todo = Found]
               ELSE [work EXCEPT !.pc = "comment"]
    /\ UNCHANGED <<github, queue, missed>>

(***************************************************************************)
(* findAutomatedComments: to be deleted when the check passes, in which    *)
(* case dco-check looks for the token of the validation as well; to find   *)
(* out whether there is one already when it does not.                      *)
(***************************************************************************)
FindComments ==
    /\ work.pc = "find"
    /\ work' = IF work.pass
               THEN [work EXCEPT !.pc = IF Found = {} THEN "status" ELSE "delete",
                                 !.todo = Found]
               ELSE IF Found = {} THEN [work EXCEPT !.pc = "comment"]
               ELSE Done
    /\ UNCHANGED <<github, queue, missed>>

\* Mutant: the comment stays.
KeepComment(id) ==
    /\ work.pc = "delete"
    /\ id \in work.todo
    /\ Answer([work EXCEPT !.pc = "status", !.todo = {}])
    /\ UNCHANGED <<pushes, label, comments, nextId, status, missed>>

\* deleteAutomatedComments, one request per comment.
DeleteComment(id) ==
    /\ work.pc = "delete"
    /\ id \in work.todo
    /\ comments' = { c \in comments : c.id # id }
    /\ Answer([work EXCEPT !.pc = IF work.todo = {id} THEN "status" ELSE "delete",
                           !.todo = @ \ {id}])
    /\ UNCHANGED <<pushes, label, nextId, status, missed>>

CreateComment ==
    /\ work.pc = "comment"
    /\ comments' = comments \cup {[id |-> nextId, token |-> Check]}
    /\ nextId' = nextId + 1
    /\ Answer([work EXCEPT !.pc = "status"])
    /\ UNCHANGED <<pushes, label, status, missed>>

\* Mutant: the status goes to the head of the moment.
CreateStatusNow ==
    /\ work.pc = "status"
    /\ status' = [status EXCEPT ![head][Check] =
                    IF work.pass THEN "success" ELSE "failure"]
    /\ Answer(Done)
    /\ UNCHANGED <<pushes, label, comments, nextId, missed>>

\* CreateStatus, on the head that the event was sent for.
CreateStatus ==
    /\ work.pc = "status"
    /\ status' = [status EXCEPT ![work.msg.head][Check] =
                    IF work.pass THEN "success" ELSE "failure"]
    /\ Answer(Done)
    /\ UNCHANGED <<pushes, label, comments, nextId, missed>>

\* A request fails without effect, or the process dies and is started again.
Fail ==
    /\ work.pc # "idle"
    /\ ReturnError
    /\ UNCHANGED <<github, missed>>

\* nsqd times out the message and queues it again; the handler goes on.
MsgTimeout ==
    /\ work.held
    /\ queue' = queue \cup {work.msg}
    /\ work' = [work EXCEPT !.held = FALSE]
    /\ UNCHANGED <<github, missed>>

-----------------------------------------------------------------------------
Handle ==
    \/ \E m \in queue : Deliver(m) \/ GiveUp(m)
    \/ ListCommits
    \/ ToggleLabel
    \/ ListFiles
    \/ GetRaw
    \/ FindComments
    \/ \E id \in work.todo : DeleteComment(id)
    \/ CreateComment
    \/ CreateStatus

Next == Push \/ Handle \/ Fail \/ MsgTimeout

\* nsqd delivers what is queued to a free consumer, and the handler runs on.
Spec == Init /\ [][Next]_vars /\ WF_vars(Handle)

-----------------------------------------------------------------------------
\* The type invariant.
TypeOK ==
    /\ pushes \in Seq(Pushed) /\ pushes # <<>>
    /\ status \in Seq([Names -> States]) /\ Len(status) = head
    /\ label \in BOOLEAN
    /\ comments \subseteq [id : Nat, token : Names]
    /\ \A c \in comments : c.id < nextId
    /\ nextId \in Nat
    /\ queue \subseteq Message
    /\ \A m \in queue : m.head \in 1..head /\ m.attempts <= MaxAttempts
    /\ missed \in BOOLEAN
    /\ work \in Work
    /\ work.pc # "idle" => work.k \in 1..Len(Checks) /\ work.msg.head \in 1..head

Runs(n) == \E k \in 1..Len(Checks) : Checks[k] = n

(***************************************************************************)
(* dco-check.go:93, 122, poule-updater.go:160, 175: whatever the order in  *)
(* which events are handled and repeated, a status of the current head     *)
(* tells the truth about that head, although it was computed from the      *)
(* commits or the file that were current when the handler looked.          *)
(***************************************************************************)
HeadStatusIsTrue ==
    /\ status[head].dco = "success" => pushes[head].signed
    /\ status[head].dco = "failure" => ~pushes[head].signed
    /\ status[head].validation = "success" => pushes[head].file = "valid"
    /\ status[head].validation = "failure" => pushes[head].file = "invalid"

(***************************************************************************)
(* dco-check.go:107, poule-updater.go:145, "unless there is already one":  *)
(* no redelivery or lost answer makes a second automated comment.          *)
(***************************************************************************)
OneComment ==
    \A c, d \in comments : c.token = d.token => c = d

(***************************************************************************)
(* operations/catalog/README.md, dco-check, "label and post a comment if   *)
(* missing": once every event is handled the label and the comment are     *)
(* those of the current head, and a signed head has its success status.    *)
(***************************************************************************)
Quiet == queue = {} /\ work.pc = "idle" /\ ~missed

QuietDco ==
    Quiet /\ Runs("dco") =>
        /\ label = ~pushes[head].signed
        /\ pushes[head].signed => status[head].dco = "success"
        /\ ~pushes[head].signed => \E c \in comments : c.token = "dco"

(***************************************************************************)
(* A signed pull request has its validation comments deleted by dco-check  *)
(* (dco-check.go:88): it takes a validation after it to write one again.   *)
(***************************************************************************)
Rewritten ==
    \A k \in 1..Len(Checks) : Checks[k] = "dco" =>
        \E j \in (k + 1)..Len(Checks) : Checks[j] = "validation"

(***************************************************************************)
(* poule-updater.go:135: once every event is handled, a validation comment *)
(* explains an invalid poule.yml, unless a dco-check that comes last has   *)
(* deleted it from a signed pull request, and no comment accuses a valid   *)
(* one.                                                                    *)
(***************************************************************************)
QuietValidation ==
    Quiet /\ Runs("validation") =>
        LET explained == \E c \in comments : c.token = "validation" IN
        /\ pushes[head].file = "invalid" /\ (Rewritten \/ ~pushes[head].signed) => explained
        /\ pushes[head].file = "valid" =>
               ~explained /\ status[head].validation = "success"

\* Every event is handled or given up on at last, however its handling fails.
EventsEnd == <>[](queue = {} /\ work.pc = "idle")

(***************************************************************************)
(* dco-check.go:147, "Those which signed get the dco/no label removed, as  *)
(* well as the comment which explains how to proceed".                     *)
(***************************************************************************)
SignedDropsComment ==
    Quiet /\ Runs("dco") /\ pushes[head].signed =>
        \A c \in comments : c.token # "dco"

(***************************************************************************)
(* Through errors, lost answers and timeouts the events of the pull        *)
(* request are delivered as Delivery promises: no error of an operation    *)
(* but the last ends an event early, none gives it a fresh start, and      *)
(* every delivery begins with the first operation.                         *)
(***************************************************************************)
Tries(m) == [id |-> m.head, tries |-> m.attempts]
Due == [h \in 1..head |-> 1..Len(Checks)]
Waiting == {Tries(m) : m \in queue}
Hand == IF work.pc = "idle" THEN {} ELSE {Tries(work.msg)}
Left == IF work.pc = "idle" THEN {} ELSE work.k..Len(Checks)
Queue == INSTANCE Delivery WITH due <- Due, waiting <- Waiting, hand <- Hand, left <- Left
DeliverySpec == Queue!Spec

=============================================================================
