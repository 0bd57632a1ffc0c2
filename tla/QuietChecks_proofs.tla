------------------------- MODULE QuietChecks_proofs -------------------------
(***************************************************************************)
(* What holds of a pull request once all its events are handled            *)
(* (QuietDco, QuietValidation of PullRequestChecks), for any list of checks*)
(* and any number of heads, deliveries, failures and timeouts.             *)
(*                                                                         *)
(* The invariant says that whatever is not yet as it should be is owed: an *)
(* event was given up on, or one is queued, or the handler has the step    *)
(* before it that will put it right.  What the handler has listed is the   *)
(* current head, or the event of a later one is queued.                    *)
(***************************************************************************)
EXTENDS PullRequestChecks_proofs

(***************************************************************************)
(* The verdict the n-th check should reach on the current head, whether it *)
(* asks for a comment, and whether there is one.                           *)
(***************************************************************************)
Verdict(n) == IF n = "dco" THEN pushes[head].signed ELSE pushes[head].file = "valid"
Blamed(n) == IF n = "dco" THEN ~pushes[head].signed ELSE pushes[head].file = "invalid"
Explained(n) == \E c \in comments : c.token = n

(***************************************************************************)
(* The handler will run the check n in this delivery, from one of the      *)
(* steps on if it is at work on it.                                        *)
(***************************************************************************)
Coming(n, steps) ==
    /\ work.pc # "idle"
    /\ \E k \in work.k..Len(Checks) : Checks[k] = n /\ (k = work.k => work.pc \in steps)

Owed(n, steps) == missed \/ queue # {} \/ Coming(n, steps)

(***************************************************************************)
(* A status of the current head is owed by its own event only.             *)
(***************************************************************************)
OwedHead(n) ==
    \/ missed
    \/ \E m \in queue : m.head = head
    \/ work.msg.head = head /\ Coming(n, Looked \cup {"list"})

Fresh == work.pc \in Looked => queue # {} \/ work.at = head

\* What is being deleted: all the comments of the validation, and no other.
Deleting ==
    work.pc = "delete" =>
        work.pass /\ \A c \in comments : c.token = "validation" <=> c.id \in work.todo

LabelKept == label = ~pushes[head].signed \/ Owed("dco", {"list", "label"})

StatusKept(n) == Verdict(n) => status[head][n] = "success" \/ OwedHead(n)

(***************************************************************************)
(* Nothing but its own check deletes the comments of n from the head, or   *)
(* they are written again.                                                 *)
(***************************************************************************)
Spared(n) == n = "validation" => Rewritten \/ ~pushes[head].signed

CommentKept(n) ==
    Blamed(n) /\ Spared(n) => Explained(n) \/ Owed(n, {"list", "raw", "label", "find", "comment"})

CommentGone ==
    pushes[head].file = "valid" =>
        ~Explained("validation") \/ Owed("validation", {"list", "raw", "find", "delete"})

UniqueIds == \A c, d \in comments : c.id = d.id => c = d

Settling ==
    /\ Requeued /\ Fresh /\ UniqueIds /\ Deleting
    /\ \A n \in Names : Runs(n) => StatusKept(n)
    /\ Runs("dco") => LabelKept /\ CommentKept("dco")
    /\ Runs("validation") => CommentGone /\ CommentKept("validation")

QInv == IInv /\ Settling

-----------------------------------------------------------------------------
(***************************************************************************)
(* A step of the handler that neither fails nor starts another event.      *)
(***************************************************************************)
Onward ==
    /\ UNCHANGED <<pushes, queue, missed>>
    /\ \/ ListCommits \/ ListFiles \/ GetRaw \/ FindComments
       \/ ToggleLabel /\ work' = [work EXCEPT !.pc = "find"]
       \/ \E id \in work.todo :
             /\ DeleteComment(id)
             /\ work' = [work EXCEPT !.pc = IF work.todo = {id} THEN "status" ELSE "delete",
                                     !.todo = @ \ {id}]
       \/ CreateComment /\ work' = [work EXCEPT !.pc = "status"]
       \/ CreateStatus /\ work' = Done

\* What can happen: GitHub changes in the hands of the author and the handler only.
LEMMA Kinds ==
    ASSUME [Next]_vars
    PROVE  \/ Push
           \/ /\ UNCHANGED pushes
              /\ \/ UNCHANGED vars
                 \/ MsgTimeout
                 \/ \E m \in queue : Deliver(m) \/ GiveUp(m)
                 \/ work.pc # "idle" /\ ReturnError /\ UNCHANGED missed
                 \/ Onward
<1>1. ASSUME Fail \/ MsgTimeout \/ \E m \in queue : Deliver(m) \/ GiveUp(m) PROVE UNCHANGED pushes
  BY <1>1 DEF Fail, MsgTimeout, Deliver, GiveUp, github
<1>2. CASE Fail
  BY <1>1, <1>2 DEF Fail
<1>3. CASE ListCommits \/ ListFiles \/ GetRaw \/ FindComments
  BY <1>3 DEF ListCommits, ListFiles, GetRaw, FindComments, github, Onward
<1>4. CASE ToggleLabel
  BY <1>4 DEF ToggleLabel, Answer, Onward
<1>5. ASSUME NEW id \in work.todo, DeleteComment(id)
      PROVE  /\ UNCHANGED pushes
             /\ (work.pc # "idle" /\ ReturnError /\ UNCHANGED missed) \/ Onward
  BY <1>5 DEF DeleteComment, Answer, Onward
<1>6. CASE CreateComment
  BY <1>6 DEF CreateComment, Answer, Onward
<1>7. CASE CreateStatus
  BY <1>7 DEF CreateStatus, Answer, Onward
<1>8. CASE UNCHANGED vars
  BY <1>8 DEF vars, github
<1> QED
  BY <1>1, <1>2, <1>3, <1>4, <1>5, <1>6, <1>7, <1>8 DEF Next, Handle

\* A message that is not handled to its end is in the queue afterwards.
LEMMA ErrorQueues ==
    ASSUME IInv, Requeued, work.pc # "idle", ReturnError
    PROVE  work.msg \in queue' /\ queue \subseteq queue'
BY DEF ReturnError, Requeued

(***************************************************************************)
(* Where the handler stands after an onward step: further in the same      *)
(* check, at the start of the next one, or done.                           *)
(***************************************************************************)
LEMMA OnwardWork ==
    ASSUME IInv, Onward
    PROVE  /\ work.pc # "idle" /\ work.k \in 1..Len(Checks)
           /\ \/ work' = Done
              \/ work'.pc \in Looked /\ work'.k = work.k /\ work'.msg = work.msg
<1>1. work \in Work
  BY DEF IInv, TypeOK
<1>2. work.pc # "idle"
  BY DEF Onward, ListCommits, ListFiles, GetRaw, FindComments, ToggleLabel, DeleteComment,
         CreateComment, CreateStatus
<1>3. work.k \in 1..Len(Checks)
  BY <1>2 DEF IInv, TypeOK
<1>4. CASE ListCommits \/ ListFiles \/ GetRaw
  BY <1>1, <1>2, <1>3, <1>4 DEF ListCommits, ListFiles, GetRaw, Work, Looked
<1>5. CASE FindComments
  BY <1>1, <1>2, <1>3, <1>5 DEF FindComments, Work, Looked
<1>6. ASSUME NEW id \in work.todo,
             work' = [work EXCEPT !.pc = IF work.todo = {id} THEN "status" ELSE "delete",
                                  !.todo = @ \ {id}]
      PROVE  work'.pc \in Looked /\ work'.k = work.k /\ work'.msg = work.msg
  BY <1>1, <1>6 DEF Work, Looked
<1>7. ASSUME work' = [work EXCEPT !.pc = "find"] \/ work' = [work EXCEPT !.pc = "status"]
      PROVE  work'.pc \in Looked /\ work'.k = work.k /\ work'.msg = work.msg
  BY <1>1, <1>7 DEF Work, Looked
<1> QED
  BY <1>2, <1>3, <1>4, <1>5, <1>6, <1>7 DEF Onward

\* A check that is to come still is after a step which does not complete it.
LEMMA ComingNext ==
    ASSUME IInv, Onward, NEW n \in Names, NEW S, "list" \in S, Coming(n, S),
           Checks[work.k] = n /\ work.pc \in S => work'.k = work.k /\ work'.pc \in S \ {"idle"}
    PROVE  Coming(n, S)'
<1>1. PICK k \in work.k..Len(Checks) : Checks[k] = n /\ (k = work.k => work.pc \in S)
  BY DEF Coming
<1>2. work.k \in 1..Len(Checks) /\ Len(Checks) \in Nat
  BY OnwardWork, ChecksAssumption
<1>3. CASE k = work.k
  BY <1>1, <1>2, <1>3 DEF Coming
<1>4. CASE k # work.k
  <2>1. k \in (work.k + 1)..Len(Checks) /\ work.k # Len(Checks)
    BY <1>1, <1>2, <1>4
  <2>2. CASE work' = Done
    <3>1. work'.pc = "list" /\ work'.k = work.k + 1
      BY <2>1, <2>2 DEF Done, Start
    <3> QED
      BY <1>1, <2>1, <3>1 DEF Coming
  <2>3. CASE work'.pc \in Looked /\ work'.k = work.k
    BY <1>1, <1>4, <2>3 DEF Coming, Looked
  <2> QED
    BY <2>2, <2>3, OnwardWork
<1> QED
  BY <1>3, <1>4

\* A delivery is about to run every check.
LEMMA DeliverComing ==
    ASSUME IInv, NEW m \in queue, Deliver(m), NEW n \in Names, Runs(n), NEW S, "list" \in S
    PROVE  Coming(n, S)' /\ work'.msg.head = m.head
<1>1. work' = Start(1, [m EXCEPT !.attempts = @ + 1], TRUE)
  BY DEF Deliver
<1>2. work'.pc = "list" /\ work'.k = 1
  BY <1>1 DEF Start
<1>3. work'.msg = [m EXCEPT !.attempts = @ + 1]
  BY <1>1 DEF Start
<1>a. m \in Message
  BY DEF IInv, TypeOK
<1>4. PICK k \in 1..Len(Checks) : Checks[k] = n
  BY DEF Runs
<1>5. Coming(n, S)'
  BY <1>2, <1>4 DEF Coming
<1> QED
  BY <1>3, <1>a, <1>5 DEF Message

\* Every step but an onward one leaves something owed.
LEMMA OwedNext ==
    ASSUME IInv, Requeued, [Next]_vars, NEW n \in Names, Runs(n), NEW S, "list" \in S
    PROVE  Owed(n, S)' \/ UNCHANGED vars \/ (Onward /\ queue = {} /\ ~missed)
<1>1. CASE Push \/ MsgTimeout
  BY <1>1 DEF Push, MsgTimeout, Owed
<1>2. ASSUME NEW m \in queue, Deliver(m) PROVE Owed(n, S)'
  BY <1>2, DeliverComing DEF Owed
<1>3. ASSUME NEW m \in queue, GiveUp(m) PROVE Owed(n, S)'
  BY <1>3 DEF GiveUp, Owed
<1>4. CASE work.pc # "idle" /\ ReturnError
  BY <1>4, ErrorQueues DEF Owed
<1>5. CASE Onward
  BY <1>5 DEF Onward, Owed
<1> QED
  BY <1>1, <1>2, <1>3, <1>4, <1>5, Kinds

-----------------------------------------------------------------------------
\* The verdict on the current head is the right one.
LEMMA Judgement ==
    ASSUME IInv, work.at = head, work.pc \in Looked
    PROVE  /\ work.pc \in Judged => (work.pass <=> Verdict(Checks[work.k]))
           /\ work.pc \in Judged => (work.pass <=> ~Blamed(Checks[work.k]))
<1>1. Checks[work.k] \in Names
  BY ChecksType DEF IInv, Local, Looked
<1>2. pushes[head].file \in {"untouched", "valid", "invalid"}
  <2>1. pushes \in Seq(Pushed) /\ head = Len(pushes) /\ head \in 1..head
    BY DEF IInv, TypeOK, head
  <2>2. pushes[head] \in Pushed
    BY <2>1
  <2> QED
    BY <2>2 DEF Pushed
<1>3. CASE Checks[work.k] = "dco"
  BY <1>3 DEF IInv, Local, Looked, Judged, Verdict, Blamed
<1>4. CASE Checks[work.k] = "validation"
  BY <1>2, <1>4 DEF IInv, Local, Looked, Judged, Verdict, Blamed
<1> QED
  BY <1>1, <1>3, <1>4 DEF Names

\* Every listing shows the current head; a push after it queues an event.
LEMMA FreshNext ==
    ASSUME IInv, Requeued, Fresh, [Next]_vars
    PROVE  Fresh'
<1>1. work \in Work
  BY DEF IInv, TypeOK
<1>2. CASE Push \/ MsgTimeout
  BY <1>2 DEF Push, MsgTimeout, Fresh
<1>3. ASSUME NEW m \in queue, Deliver(m) \/ GiveUp(m) PROVE Fresh'
  BY <1>3 DEF Deliver, GiveUp, Start, Fresh, Looked
<1>4. CASE UNCHANGED vars
  BY <1>4 DEF vars, github, Fresh, head
<1>5. CASE ReturnError
  BY <1>5 DEF ReturnError, Free, Fresh, Looked
<1>6. CASE Onward
  <2>1. UNCHANGED <<head, queue>>
    BY <1>6 DEF Onward, head
  <2>2. CASE work' = Done
    BY <2>2 DEF Done, Start, Free, Fresh, Looked
  <2>3. CASE work'.at = head
    BY <2>1, <2>3 DEF Fresh
  <2>4. CASE work'.at = work.at /\ work.pc \in Looked
    BY <2>1, <2>4 DEF Fresh
  <2>5. work' = Done \/ work'.at = head \/ (work'.at = work.at /\ work.pc \in Looked)
    <3>1. CASE ListCommits \/ ListFiles \/ GetRaw
      BY <1>1, <3>1 DEF ListCommits, ListFiles, GetRaw, Work, Looked
    <3>2. CASE FindComments
      BY <1>1, <3>2 DEF FindComments, Work, Looked
    <3>3. CASE ToggleLabel /\ work' = [work EXCEPT !.pc = "find"]
      BY <1>1, <3>3 DEF ToggleLabel, Work, Looked
    <3>4. CASE CreateComment /\ work' = [work EXCEPT !.pc = "status"]
      BY <1>1, <3>4 DEF CreateComment, Work, Looked
    <3>5. ASSUME NEW id \in work.todo, DeleteComment(id),
                 work' = [work EXCEPT !.pc = IF work.todo = {id} THEN "status" ELSE "delete",
                                      !.todo = @ \ {id}]
          PROVE  work'.at = work.at /\ work.pc \in Looked
      BY <1>1, <3>5 DEF DeleteComment, Work, Looked
    <3> QED
      BY <1>6, <3>1, <3>2, <3>3, <3>4, <3>5 DEF Onward
  <2> QED
    BY <2>2, <2>3, <2>4, <2>5
<1> QED
  BY <1>2, <1>3, <1>4, <1>5, <1>6, Kinds

(***************************************************************************)
(* What a step does to the comments: one more with a new identity, all     *)
(* those with an identity less, or nothing.                                *)
(***************************************************************************)
LEMMA CommentSteps ==
    ASSUME [Next]_vars
    PROVE  \/ UNCHANGED comments
           \/ CreateComment
           \/ \E id \in work.todo : DeleteComment(id)
BY DEF Next, Handle, Push, Fail, MsgTimeout, Deliver, GiveUp, ListCommits, ListFiles, GetRaw,
       FindComments, ToggleLabel, CreateStatus, github, vars

\* Comments are told apart by their identity.
LEMMA UniqueIdsNext ==
    ASSUME IInv, UniqueIds, [Next]_vars
    PROVE  UniqueIds'
<1>1. CASE UNCHANGED comments
  BY <1>1 DEF UniqueIds
<1>2. CASE CreateComment
  <2> DEFINE new == [id |-> nextId, token |-> Check]
  <2>1. comments' = comments \cup {new} /\ new.id = nextId
    BY <1>2 DEF CreateComment
  <2>2. \A c \in comments : c.id # nextId
    BY DEF IInv, TypeOK
  <2> HIDE DEF new
  <2> QED
    BY <2>1, <2>2 DEF UniqueIds
<1>3. ASSUME NEW id \in work.todo, DeleteComment(id) PROVE UniqueIds'
  BY <1>3 DEF DeleteComment, UniqueIds
<1> QED
  BY <1>1, <1>2, <1>3, CommentSteps

\* What is being deleted stays what findAutomatedComments has found.
LEMMA DeletingNext ==
    ASSUME IInv, UniqueIds, Deleting, [Next]_vars
    PROVE  Deleting'
<1>1. work \in Work
  BY DEF IInv, TypeOK
<1>2. CASE Push \/ UNCHANGED vars
  BY <1>2 DEF Push, vars, github, Deleting
<1>3. CASE MsgTimeout
  BY <1>1, <1>3 DEF MsgTimeout, github, Deleting, Work
<1>4. ASSUME NEW m \in queue, Deliver(m) \/ GiveUp(m) PROVE Deleting'
  BY <1>4 DEF Deliver, GiveUp, Start, Deleting
<1>5. CASE ReturnError
  BY <1>5 DEF ReturnError, Free, Deleting
<1>6. CASE work' = Done
  BY <1>6 DEF Done, Start, Free, Deleting
<1>7. CASE ListCommits \/ ListFiles \/ GetRaw
  BY <1>1, <1>6, <1>7 DEF ListCommits, ListFiles, GetRaw, Work, Deleting
<1>8. CASE FindComments
  <2>1. CASE work.pass
    <3>1. /\ work'.pc = "delete" => work'.todo = Found
          /\ work'.pass /\ UNCHANGED comments
      BY <1>1, <1>8, <2>1 DEF FindComments, Work, github
    <3>2. \A c \in comments : c.token = "validation" <=> c.id \in Found
      BY <2>1 DEF Found, Token, UniqueIds
    <3> QED
      BY <3>1, <3>2 DEF Deleting
  <2>2. CASE ~work.pass
    BY <1>1, <1>6, <1>8, <2>2 DEF FindComments, Work, Deleting
  <2> QED
    BY <2>1, <2>2
<1>9. CASE \/ ToggleLabel /\ work' = [work EXCEPT !.pc = "find"]
           \/ CreateComment /\ work' = [work EXCEPT !.pc = "status"]
  BY <1>1, <1>9 DEF Work, Deleting
<1>10. ASSUME NEW id \in work.todo, DeleteComment(id),
              work' = [work EXCEPT !.pc = IF work.todo = {id} THEN "status" ELSE "delete",
                                   !.todo = @ \ {id}]
       PROVE  Deleting'
  <2>1. work.pc = "delete" /\ comments' = { c \in comments : c.id # id }
    BY <1>10 DEF DeleteComment
  <2>2. work'.pass = work.pass /\ work'.todo = work.todo \ {id}
    BY <1>1, <1>10 DEF Work
  <2> QED
    BY <2>1, <2>2 DEF Deleting
<1> QED
  BY <1>2, <1>3, <1>4, <1>5, <1>6, <1>7, <1>8, <1>9, <1>10, Kinds DEF Onward

-----------------------------------------------------------------------------
\* A push adds a head, which makes it the current one.
LEMMA PushMoves ==
    ASSUME IInv, Push
    PROVE  head' = head + 1 /\ head \in Nat /\ pushes' # pushes
<1>1. PICK h \in Pushed : pushes' = Append(pushes, h)
  BY DEF Push
<1>2. pushes \in Seq(Pushed)
  BY DEF IInv, TypeOK
<1>3. Len(pushes') = Len(pushes) + 1 /\ Len(pushes) \in Nat
  BY <1>1, <1>2
<1> QED
  BY <1>3 DEF head

(***************************************************************************)
(* A status of the current head is only replaced by one that tells the     *)
(* truth, and the end of its check on the event of the head writes one.    *)
(***************************************************************************)
LEMMA StatusSteps ==
    ASSUME IInv, [Next]_vars, UNCHANGED pushes, NEW n \in Names
    PROVE  \/ status'[head][n] = status[head][n]
           \/ status'[head][n] \in {"success", "failure"}
<1>1. CASE UNCHANGED status
  BY <1>1
<1>2. CASE CreateStatus
  <2> DEFINE h == work.msg.head
             state == IF work.pass THEN "success" ELSE "failure"
  <2>1. status' = [status EXCEPT ![h][Check] = state]
    BY <1>2 DEF CreateStatus
  <2>2. status \in Seq([Names -> States]) /\ Len(status) = head /\ head \in 1..head
    BY DEF IInv, TypeOK, head
  <2>3. status[head] \in [Names -> States] /\ head \in DOMAIN status
    BY <2>2
  <2>4. CASE h # head
    BY <2>1, <2>3, <2>4
  <2>5. CASE h = head
    <3>1. status'[head] = [status[head] EXCEPT ![Check] = state]
      BY <2>1, <2>3, <2>5
    <3> QED
      BY <2>3, <3>1
  <2> QED
    BY <2>4, <2>5
<1>3. ASSUME ~Push PROVE UNCHANGED status \/ CreateStatus
  BY <1>3
  DEF Next, Handle, Fail, MsgTimeout, Deliver, GiveUp, ListCommits, ListFiles, GetRaw,
      FindComments, ToggleLabel, DeleteComment, CreateComment, github, vars
<1> QED
  BY <1>1, <1>2, <1>3, PushMoves

\* An onward step that completes the check of the head's event has its status.
LEMMA StatusWritten ==
    ASSUME IInv, Onward, work' = Done, work.msg.head = head, Verdict(Check)
    PROVE  status'[head][Check] \in {"success", "failure"}
<1>1. work \in Work
  BY DEF IInv, TypeOK
<1>2. work.pc \in Looked => work.at = head
  BY DEF IInv, Local, Work, TypeOK, head
<1>a. work'.pc \in {"list", "idle"}
  BY DEF Done, Start, Free
<1>3. CASE ListFiles
  <2>1. Check = "validation" /\ pushes[head].file = "valid" /\ work.pc = "list"
    BY <1>3 DEF ListFiles, Verdict
  <2>2. work' = [work EXCEPT !.pc = "raw", !.at = head]
    BY <1>3, <2>1 DEF ListFiles
  <2> QED
    BY <1>1, <1>a, <2>2 DEF Work
<1>4. CASE FindComments
  <2>1. work.pass
    BY <1>2, <1>4, Judgement DEF FindComments, Looked, Judged, Check
  <2>2. work'.pc \in {"status", "delete"}
    BY <1>1, <1>4, <2>1 DEF FindComments, Work
  <2> QED
    BY <1>a, <2>2
<1>5. CASE CreateStatus
  <2> DEFINE state == IF work.pass THEN "success" ELSE "failure"
  <2>1. status' = [status EXCEPT ![head][Check] = state]
    BY <1>5 DEF CreateStatus
  <2>2. status \in Seq([Names -> States]) /\ Len(status) = head /\ head \in 1..head
    BY DEF IInv, TypeOK, head
  <2>3. status[head] \in [Names -> States] /\ head \in DOMAIN status
    BY <2>2
  <2>4. Check \in Names
    BY <1>5, ChecksType DEF CreateStatus, IInv, TypeOK, Check
  <2>5. status'[head] = [status[head] EXCEPT ![Check] = state]
    BY <2>1, <2>3
  <2> QED
    BY <2>3, <2>4, <2>5
<1>6. CASE ListCommits \/ GetRaw
  BY <1>1, <1>a, <1>6 DEF ListCommits, GetRaw, Work
<1>7. CASE \/ work' = [work EXCEPT !.pc = "find"]
           \/ CreateComment /\ work' = [work EXCEPT !.pc = "status"]
           \/ \E id \in work.todo :
                 work' = [work EXCEPT !.pc = IF work.todo = {id} THEN "status" ELSE "delete",
                                      !.todo = @ \ {id}]
  BY <1>1, <1>a, <1>7 DEF Work
<1> QED
  BY <1>3, <1>4, <1>5, <1>6, <1>7 DEF Onward

\* A head that passes a check has its success, or its event is to be handled.
LEMMA StatusNext ==
    ASSUME IInv, Requeued, [Next]_vars, NEW n \in Names, Runs(n), StatusKept(n)
    PROVE  StatusKept(n)'
<1>0. IInv' /\ work \in Work
  BY StepOK DEF IInv, TypeOK
<1>1. CASE Push
  <2> DEFINE new == [head |-> head + 1, attempts |-> 0]
  <2>1. new \in queue' /\ new.head = head + 1
    BY <1>1 DEF Push
  <2>2. \E m \in queue' : m.head = head'
    <3> HIDE DEF new
    <3> QED
      BY <1>1, <2>1, PushMoves
  <2> QED
    BY <2>2 DEF StatusKept, OwedHead
<1>2. ASSUME UNCHANGED pushes PROVE StatusKept(n)'
  <2> SUFFICES ASSUME Verdict(n) PROVE status'[head][n] = "success" \/ OwedHead(n)'
    BY <1>2 DEF StatusKept, Verdict, head
  <2>1. head' = head
    BY <1>2 DEF head
  <2>2. status'[head][n] # "failure"
    BY <1>0, <1>2, <2>1 DEF IInv, HeadStatusIsTrue, Verdict, Names
  <2>3. CASE status[head][n] = "success"
    BY <1>2, <2>2, <2>3, StatusSteps
  <2>4. CASE OwedHead(n)
    <3>1. CASE UNCHANGED vars
      BY <2>1, <2>4, <3>1 DEF vars, OwedHead, Coming
    <3>2. CASE MsgTimeout
      BY <1>0, <2>1, <2>4, <3>2 DEF MsgTimeout, OwedHead, Coming, Work
    <3>3. ASSUME NEW m \in queue, Deliver(m) PROVE OwedHead(n)'
      <4>1. queue' = queue \ {m} /\ missed' = missed /\ work.pc = "idle"
        BY <3>3 DEF Deliver
      <4>2. Coming(n, Looked \cup {"list"})' /\ work'.msg.head = m.head
        BY <3>3, DeliverComing
      <4> QED
        BY <2>1, <2>4, <4>1, <4>2 DEF OwedHead, Coming
    <3>4. ASSUME NEW m \in queue, GiveUp(m) PROVE OwedHead(n)'
      BY <3>4 DEF GiveUp, OwedHead
    <3>5. CASE work.pc # "idle" /\ ReturnError /\ UNCHANGED missed
      <4>1. work.msg \in queue' /\ queue \subseteq queue'
        BY <3>5, ErrorQueues
      <4> QED
        BY <2>1, <2>4, <3>5, <4>1 DEF OwedHead
    <3>6. CASE Onward
      <4>1. missed' = missed /\ queue' = queue
        BY <3>6 DEF Onward
      <4>2. ASSUME work.msg.head = head, Coming(n, Looked \cup {"list"})
            PROVE  status'[head][n] = "success" \/ OwedHead(n)'
        <5>1. CASE work' = Done /\ Check = n
          BY <2>2, <3>6, <4>2, <5>1, StatusWritten
        <5>2. CASE ~(work' = Done /\ Check = n)
          <6>1. Coming(n, Looked \cup {"list"})'
            BY <3>6, <4>2, <5>2, ComingNext, OnwardWork DEF Check, Looked
          <6>2. work'.msg = work.msg
            BY <3>6, <6>1, OnwardWork DEF Done, Start, Free, Coming
          <6> QED
            BY <2>1, <4>2, <6>1, <6>2 DEF OwedHead
        <5> QED
          BY <5>1, <5>2
      <4> QED
        BY <2>1, <2>4, <4>1, <4>2 DEF OwedHead
    <3> QED
      BY <1>2, <3>1, <3>2, <3>3, <3>4, <3>5, <3>6, Kinds, PushMoves
  <2> QED
    BY <2>3, <2>4 DEF StatusKept
<1> QED
  BY <1>1, <1>2, Kinds

-----------------------------------------------------------------------------
\* What an onward step makes of pc, by the step the handler is at.
LEMMA OnwardSteps ==
    ASSUME IInv, Onward
    PROVE  /\ work.pc = "list" /\ Check = "dco" => work'.pc = "label" /\ work'.k = work.k
           /\ work.pc = "list" /\ Check = "validation" /\ pushes[head].file # "untouched" =>
                 work'.pc = "raw" /\ work'.k = work.k
           /\ work.pc = "raw" => work'.pc = "find" /\ work'.k = work.k
           /\ work.pc = "label" => work'.pc = "find" /\ work'.k = work.k
           /\ work.pc = "find" /\ work.pass /\ Found # {} =>
                 work'.pc = "delete" /\ work'.k = work.k
           /\ work.pc = "find" /\ ~work.pass /\ Found = {} =>
                 work'.pc = "comment" /\ work'.k = work.k
           /\ work.pc = "delete" => \E id \in work.todo :
                 /\ comments' = { c \in comments : c.id # id }
                 /\ work.todo # {id} => work'.pc = "delete" /\ work'.k = work.k
           /\ work.pc = "comment" =>
                 /\ \E c \in comments' : c.token = Check
                 /\ comments \subseteq comments'
                 /\ \A c \in comments' \ comments : c.token = Check
           /\ work.pc \notin {"delete", "comment"} => UNCHANGED comments
           /\ work.pc # "label" => UNCHANGED label
           /\ work.pc = "label" => label' = ~work.pass
<1>1. work \in Work
  BY DEF IInv, TypeOK
<1>2. CASE ListCommits
  BY <1>1, <1>2 DEF ListCommits, Work, github
<1>3. CASE ListFiles
  BY <1>1, <1>3 DEF ListFiles, Work, github
<1>4. CASE GetRaw
  BY <1>1, <1>4 DEF GetRaw, Work, github
<1>5. CASE FindComments
  BY <1>1, <1>5 DEF FindComments, Work, github
<1>6. CASE ToggleLabel /\ work' = [work EXCEPT !.pc = "find"]
  BY <1>1, <1>6 DEF ToggleLabel, Work
<1>7. ASSUME NEW id \in work.todo, DeleteComment(id),
             work' = [work EXCEPT !.pc = IF work.todo = {id} THEN "status" ELSE "delete",
                                  !.todo = @ \ {id}]
      PROVE  /\ work.pc = "delete" /\ comments' = { c \in comments : c.id # id }
             /\ work.todo # {id} => work'.pc = "delete" /\ work'.k = work.k
             /\ UNCHANGED label
  BY <1>1, <1>7 DEF DeleteComment, Work
<1>8. CASE CreateComment
  <2> DEFINE new == [id |-> nextId, token |-> Check]
  <2>1. /\ work.pc = "comment" /\ comments' = comments \cup {new} /\ UNCHANGED label
        /\ new.token = Check
    BY <1>8 DEF CreateComment
  <2> HIDE DEF new
  <2> QED
    BY <2>1
<1>9. CASE CreateStatus
  BY <1>9 DEF CreateStatus
<1> QED
  BY <1>2, <1>3, <1>4, <1>5, <1>6, <1>7, <1>8, <1>9 DEF Onward

\* What the handler knows when nothing else is to be handled is about the head.
LEMMA HeadJudged ==
    ASSUME IInv, Fresh, queue = {}, work.pc \in Judged
    PROVE  /\ work.pass <=> Verdict(Check)
           /\ work.pass <=> ~Blamed(Check)
BY Judgement DEF Fresh, Looked, Judged, Check

\* The label is that of the current head, or owed.
LEMMA LabelNext ==
    ASSUME IInv, Requeued, Fresh, [Next]_vars, Runs("dco"), LabelKept
    PROVE  LabelKept'
<1> DEFINE S == {"list", "label"}
<1>1. CASE UNCHANGED vars
  BY <1>1 DEF vars, github, LabelKept, Owed, Coming, head
<1>2. CASE Onward /\ queue = {} /\ ~missed
  <2>1. UNCHANGED <<head, pushes, queue, missed>> /\ work.pc # "idle"
    BY <1>2, OnwardWork DEF Onward, head
  <2>2. CASE work.pc = "label"
    <3>1. Check = "dco"
      BY <2>2 DEF IInv, Local, Check
    <3>2. label' = ~pushes[head].signed
      BY <1>2, <2>2, <3>1, HeadJudged, OnwardSteps DEF Judged, Verdict
    <3> QED
      BY <2>1, <3>2 DEF LabelKept
  <2>3. CASE work.pc # "label"
    <3>1. UNCHANGED label
      BY <1>2, <2>3, OnwardSteps
    <3>2. CASE label = ~pushes[head].signed
      BY <2>1, <3>1, <3>2 DEF LabelKept
    <3>3. CASE Coming("dco", S)
      <4>1. Check = "dco" /\ work.pc \in S => work'.k = work.k /\ work'.pc \in S \ {"idle"}
        BY <1>2, <2>3, OnwardSteps
      <4>2. Coming("dco", S)'
        BY <1>2, <3>3, <4>1, ComingNext DEF Check, Names
      <4> QED
        BY <4>2 DEF LabelKept, Owed
    <3> QED
      BY <1>2, <3>2, <3>3 DEF LabelKept, Owed
  <2> QED
    BY <2>2, <2>3
<1>3. CASE Owed("dco", S)'
  BY <1>3 DEF LabelKept
<1>4. "dco" \in Names /\ "list" \in S
  BY DEF Names
<1> QED
  BY <1>1, <1>2, <1>3, <1>4, OwedNext

(***************************************************************************)
(* A head to blame has its comment, or one is owed, if nothing but its own *)
(* check deletes the comment or it is written again.                       *)
(***************************************************************************)
LEMMA CommentNext ==
    ASSUME IInv, Requeued, Fresh, Deleting, [Next]_vars, NEW n \in Names, Runs(n),
           CommentKept(n)
    PROVE  CommentKept(n)'
<1> DEFINE S == {"list", "raw", "label", "find", "comment"}
<1>1. CASE UNCHANGED vars
  BY <1>1 DEF vars, github, CommentKept, Blamed, Spared, Rewritten, Explained, Owed, Coming, head
<1>2. CASE Onward /\ queue = {} /\ ~missed
  <2>1. UNCHANGED <<head, pushes, queue, missed>> /\ work.pc # "idle"
    BY <1>2, OnwardWork DEF Onward, head
  <2> SUFFICES ASSUME Blamed(n), Spared(n) PROVE Explained(n)' \/ Coming(n, S)'
    BY <2>1 DEF CommentKept, Owed, Blamed, Spared, Rewritten
  <2>2. work.pc \in Judged /\ Check = n => ~work.pass
    BY <1>2, HeadJudged
  <2>3. CASE Explained(n)
    <3>1. CASE work.pc # "delete"
      BY <1>2, <2>3, <3>1, OnwardSteps DEF Explained
    <3>2. CASE work.pc = "delete" /\ n = "dco"
      <4>1. PICK c \in comments : c.token = "dco"
        BY <2>3, <3>2 DEF Explained
      <4>2. c.id \notin work.todo
        BY <3>2, <4>1 DEF Deleting
      <4> QED
        BY <1>2, <3>2, <4>1, <4>2, OnwardSteps DEF Explained
    <3>3. CASE work.pc = "delete" /\ n = "validation"
      <4>1. Check # n
        BY <2>2, <3>3 DEF Deleting, Judged
      <4>2. Check = "dco" /\ work.k \in 1..Len(Checks)
        BY <1>2, <3>3, <4>1, ChecksType, OnwardWork DEF Names, Check
      <4>0. work.pass /\ pushes[head].signed
        BY <1>2, <3>3, <4>2, HeadJudged DEF Deleting, Judged, Verdict
      <4>3. PICK j \in (work.k + 1)..Len(Checks) : Checks[j] = "validation"
        BY <3>3, <4>0, <4>2 DEF Spared, Rewritten, Check
      <4>4. Coming(n, S)
        BY <2>1, <3>3, <4>2, <4>3, ChecksAssumption DEF Coming
      <4> QED
        BY <1>2, <4>1, <4>4, ComingNext DEF Check
    <3> QED
      BY <3>1, <3>2, <3>3 DEF Names
  <2>4. CASE Coming(n, S) /\ ~Explained(n)
    <3>1. CASE Check = n /\ work.pc = "comment"
      BY <1>2, <3>1, OnwardSteps DEF Explained
    <3>2. CASE ~(Check = n /\ work.pc = "comment")
      <4>1. ASSUME Check = n, work.pc \in S
            PROVE  work'.k = work.k /\ work'.pc \in S \ {"idle"}
        <5>1. CASE work.pc = "list" /\ n = "dco"
          BY <1>2, <4>1, <5>1, OnwardSteps
        <5>2. CASE work.pc = "list" /\ n = "validation"
          <6>1. pushes[head].file # "untouched"
            BY <5>2 DEF Blamed
          <6> QED
            BY <1>2, <4>1, <5>2, <6>1, OnwardSteps
        <5>3. CASE work.pc \in {"raw", "label"}
          BY <1>2, <5>3, OnwardSteps
        <5>4. CASE work.pc = "find"
          <6>1. ~work.pass
            BY <2>2, <4>1, <5>4 DEF Judged
          <6>2. Found = {}
            BY <2>4, <4>1, <6>1 DEF Found, Token, Explained
          <6> QED
            BY <1>2, <5>4, <6>1, <6>2, OnwardSteps
        <5> QED
          BY <3>2, <4>1, <5>1, <5>2, <5>3, <5>4 DEF Names
      <4> QED
        BY <1>2, <2>4, <4>1, ComingNext DEF Check
    <3> QED
      BY <3>1, <3>2
  <2> QED
    BY <1>2, <2>3, <2>4 DEF CommentKept, Owed
<1>3. CASE Owed(n, S)'
  BY <1>3 DEF CommentKept
<1>4. "list" \in S
  OBVIOUS
<1> QED
  BY <1>1, <1>2, <1>3, <1>4, OwedNext

\* A valid poule.yml has no comment of the validation, or its deletion is owed.
LEMMA GoneNext ==
    ASSUME IInv, Requeued, Fresh, Deleting, [Next]_vars, Runs("validation"), CommentGone
    PROVE  CommentGone'
<1> DEFINE S == {"list", "raw", "find", "delete"}
           n == "validation"
<1>1. CASE UNCHANGED vars
  BY <1>1 DEF vars, github, CommentGone, Explained, Owed, Coming, head
<1>2. CASE Onward /\ queue = {} /\ ~missed
  <2>1. UNCHANGED <<head, pushes, queue, missed>> /\ work.pc # "idle"
    BY <1>2, OnwardWork DEF Onward, head
  <2> SUFFICES ASSUME pushes[head].file = "valid" PROVE ~Explained(n)' \/ Coming(n, S)'
    BY <2>1 DEF CommentGone, Owed
  <2>2. work.pc \in Judged /\ Check = n => work.pass
    BY <1>2, HeadJudged DEF Verdict
  <2>3. CASE ~Explained(n)
    <3>1. CASE work.pc = "comment"
      <4>1. Check # n
        BY <2>2, <3>1 DEF IInv, Local, Judged
      <4> QED
        BY <1>2, <2>3, <3>1, <4>1, OnwardSteps DEF Explained
    <3>2. CASE work.pc # "comment"
      <4>1. comments' \subseteq comments
        BY <1>2, <3>2, OnwardSteps
      <4> QED
        BY <2>3, <4>1 DEF Explained
    <3> QED
      BY <3>1, <3>2
  <2>4. CASE Coming(n, S) /\ Explained(n)
    <3>1. CASE Check = n /\ work.pc = "delete" /\ \E id \in work.todo : work.todo = {id}
      <4>1. PICK id \in work.todo : comments' = { c \in comments : c.id # id }
        BY <1>2, <3>1, OnwardSteps
      <4>2. work.todo = {id}
        BY <3>1
      <4>3. \A c \in comments' : c.token # "validation"
        BY <3>1, <4>1, <4>2 DEF Deleting
      <4> QED
        BY <4>3 DEF Explained
    <3>2. CASE ~(Check = n /\ work.pc = "delete" /\ \E id \in work.todo : work.todo = {id})
      <4>1. ASSUME Check = n, work.pc \in S
            PROVE  work'.k = work.k /\ work'.pc \in S \ {"idle"}
        <5>1. CASE work.pc \in {"list", "raw"}
          BY <1>2, <4>1, <5>1, OnwardSteps
        <5>2. CASE work.pc = "find"
          <6>1. work.pass
            BY <2>2, <4>1, <5>2 DEF Judged
          <6>2. Found # {}
            BY <2>4, <6>1 DEF Found, Token, Explained
          <6> QED
            BY <1>2, <5>2, <6>1, <6>2, OnwardSteps
        <5>3. CASE work.pc = "delete"
          BY <1>2, <3>2, <4>1, <5>3, OnwardSteps
        <5> QED
          BY <4>1, <5>1, <5>2, <5>3
      <4> QED
        BY <1>2, <2>4, <4>1, ComingNext DEF Check, Names
    <3> QED
      BY <3>1, <3>2
  <2> QED
    BY <1>2, <2>3, <2>4 DEF CommentGone, Owed
<1>3. CASE Owed(n, S)'
  BY <1>3 DEF CommentGone
<1>4. "list" \in S /\ n \in Names
  BY DEF Names
<1> QED
  BY <1>1, <1>2, <1>3, <1>4, OwedNext

-----------------------------------------------------------------------------
\* Nothing is owed, and nothing done, before the first event is handled.
LEMMA SettlingInit == Init => Settling
<1> SUFFICES ASSUME Init PROVE Settling
  OBVIOUS
<1>1. work.pc = "idle" /\ queue # {} /\ comments = {}
  BY DEF Init, Free
<1>2. \E m \in queue : m.head = head
  BY DEF Init, head
<1> QED
  BY <1>1, <1>2 DEF Settling, Requeued, Fresh, Looked, UniqueIds, Deleting, StatusKept, OwedHead,
                    LabelKept, CommentKept, CommentGone, Owed

\* Every step keeps its word.
LEMMA SettlingNext ==
    ASSUME QInv, [Next]_vars
    PROVE  QInv'
<1>1. IInv /\ Settling
  BY DEF QInv
<1>2. Requeued' /\ Fresh' /\ UniqueIds' /\ Deleting'
  BY <1>1, RequeuedOK, FreshNext, UniqueIdsNext, DeletingNext DEF Settling
<1>3. \A n \in Names : Runs(n) => StatusKept(n)'
  BY <1>1, StatusNext DEF Settling
<1>4. Runs("dco") => LabelKept' /\ CommentKept("dco")'
  BY <1>1, LabelNext, CommentNext DEF Settling, Names
<1>5. Runs("validation") => CommentGone'
  BY <1>1, GoneNext DEF Settling
<1>6. Runs("validation") => CommentKept("validation")'
  BY <1>1, CommentNext DEF Settling, Names
<1>7. \A n \in Names : Runs(n)' = Runs(n)
  BY DEF Runs
<1> QED
  BY <1>1, <1>2, <1>3, <1>4, <1>5, <1>6, StepOK DEF QInv, Settling, Runs

\* The promises are kept in every state.
LEMMA SettlingInv == Spec => []QInv
<1>1. Init => QInv
  BY InitOK, SettlingInit DEF QInv
<1> QED
  BY <1>1, SettlingNext, PTL DEF Spec

(***************************************************************************)
(* Once every event is handled, the label dco/no, the comment and the      *)
(* status are those of the current head, for any list of checks.           *)
(***************************************************************************)
THEOREM DcoSettles == Spec => []QuietDco
<1>1. QInv => QuietDco
  <2> SUFFICES ASSUME QInv, Quiet, Runs("dco")
               PROVE  /\ label = ~pushes[head].signed
                      /\ pushes[head].signed => status[head].dco = "success"
                      /\ ~pushes[head].signed => \E c \in comments : c.token = "dco"
    BY DEF QuietDco
  <2>1. LabelKept /\ StatusKept("dco") /\ CommentKept("dco")
    BY DEF QInv, Settling, Names
  <2> QED
    BY <2>1 DEF Quiet, LabelKept, StatusKept, CommentKept, Spared, Verdict, Blamed, Explained,
                Owed, OwedHead, Coming
<1> QED
  BY <1>1, SettlingInv, PTL

(***************************************************************************)
(* Once every event is handled, an invalid poule.yml is explained, unless  *)
(* a dco-check that comes last has deleted the comment from a signed pull  *)
(* request, and a valid one is not accused: for any list of checks.        *)
(***************************************************************************)
THEOREM ValidationSettles == Spec => []QuietValidation
<1>1. QInv => QuietValidation
  <2> SUFFICES ASSUME QInv, Quiet, Runs("validation")
               PROVE  /\ pushes[head].file = "invalid" /\ (Rewritten \/ ~pushes[head].signed)
                            => Explained("validation")
                      /\ pushes[head].file = "valid" =>
                            ~Explained("validation") /\ status[head].validation = "success"
    BY DEF QuietValidation, Explained
  <2>1. CommentGone /\ StatusKept("validation") /\ CommentKept("validation")
    BY DEF QInv, Settling, Names
  <2> QED
    BY <2>1 DEF Quiet, CommentGone, StatusKept, CommentKept, Spared, Verdict, Blamed, Owed,
                OwedHead, Coming
<1> QED
  BY <1>1, SettlingInv, PTL

=============================================================================
