---------------------- MODULE PullRequestChecks_proofs ----------------------
(***************************************************************************)
(* Proofs about PullRequestChecks, for any list of checks and any number   *)
(* of heads, deliveries, failures and timeouts: the type invariant, the    *)
(* truth of the statuses of the current head, and the uniqueness of the    *)
(* automated comments.                                                     *)
(*                                                                         *)
(* The last two are not inductive by themselves.  What makes them so is    *)
(* Local, a statement about the variables of the handler: what it has      *)
(* found out so far is true of a head between the one of its message and   *)
(* the current one, so that it is true of the current one if the message   *)
(* is for that; and nobody else creates comments.                          *)
(***************************************************************************)
EXTENDS PullRequestChecks, TLAPS

Looked == {"raw", "label", "find", "delete", "comment", "status"}
Judged == {"label", "find", "delete", "comment", "status"}

\* What holds of the local variables w of the handler.
Local(w) ==
    /\ w \in Work
    /\ w.msg.attempts <= MaxAttempts
    /\ w.pc = "idle" => ~w.held
    /\ w.pc # "idle" => w.k \in 1..Len(Checks) /\ w.msg.head \in 1..head
    /\ w.pc \in Looked => w.msg.head <= w.at /\ w.at <= head
    /\ w.pc = "label" => Checks[w.k] = "dco"
    /\ w.pc = "raw" => Checks[w.k] = "validation"
    /\ w.pc \in Looked /\ Checks[w.k] = "validation" => pushes[w.at].file # "untouched"
    /\ w.pc \in Judged /\ Checks[w.k] = "dco" => (w.pass <=> pushes[w.at].signed)
    /\ w.pc \in Judged /\ Checks[w.k] = "validation" =>
          (w.pass <=> pushes[w.at].file = "valid")
    /\ w.pc = "comment" => ~w.pass /\ \A c \in comments : c.token # Checks[w.k]

IInv ==
    /\ TypeOK
    /\ Local(work)
    /\ HeadStatusIsTrue
    /\ OneComment

-----------------------------------------------------------------------------
\* The checks are known operations.
LEMMA ChecksType == \A k \in 1..Len(Checks) : Checks[k] \in Names
BY ChecksAssumption

\* The local variables of an idle handler.
LEMMA FreeLocal == Local(Free)
BY ChecksAssumption DEF Local, Free, Work, Labels, Message, Looked, Judged

\* At the start of an operation nothing is known of it yet.
LEMMA StartLocal ==
    ASSUME NEW k \in 1..Len(Checks), NEW msg \in Message, NEW held \in BOOLEAN,
           msg.head \in 1..head, msg.attempts <= MaxAttempts
    PROVE  Local(Start(k, msg, held))
<1> DEFINE w == Start(k, msg, held)
<1>1. w \in Work
  BY ChecksAssumption DEF Start, Work, Labels
<1>2. w.pc = "list" /\ w.k = k /\ w.msg = msg
  BY DEF Start
<1> QED
  <2> HIDE DEF w
  <2>1. Local(w)
    BY <1>1, <1>2 DEF Local, Looked, Judged
  <2> QED
    BY <2>1 DEF w

\* After an operation comes the next one, or the message is done.
LEMMA DoneLocal ==
    ASSUME TypeOK, Local(work), work.pc # "idle"
    PROVE  Local(Done)
<1>1. CASE work.k = Len(Checks)
  BY <1>1, FreeLocal DEF Done
<1>2. CASE work.k # Len(Checks)
  <2>1. /\ work.msg \in Message /\ work.held \in BOOLEAN
        /\ work.msg.attempts <= MaxAttempts /\ work.msg.head \in 1..head
        /\ work.k \in 1..Len(Checks)
    BY DEF Local, Work
  <2>2. work.k + 1 \in 1..Len(Checks)
    BY <1>2, <2>1, ChecksAssumption
  <2> QED
    BY <1>2, <2>1, <2>2, StartLocal DEF Done
<1> QED
  BY <1>1, <1>2

-----------------------------------------------------------------------------
\* The type invariant and Local hold initially.
LEMMA InitOK == Init => IInv
<1> SUFFICES ASSUME Init PROVE IInv
  OBVIOUS
<1>1. PICK h \in Pushed : pushes = <<h>>
  BY DEF Init
<1>2. head = 1 /\ pushes[1] = h /\ pushes \in Seq(Pushed) /\ pushes # <<>>
  BY <1>1 DEF head
<1>3. /\ status \in Seq([Names -> States])
      /\ Len(status) = 1
      /\ status[1] = [n \in Names |-> "none"]
  <2>1. [n \in Names |-> "none"] \in [Names -> States]
    BY DEF States
  <2> QED
    BY <2>1 DEF Init
<1>4. Local(work)
  BY FreeLocal DEF Init
<1>5. TypeOK
  <2>1. work \in Work /\ work.pc = "idle"
    BY <1>4 DEF Init, Local, Free
  <2>2. queue \subseteq Message /\ \A m \in queue : m.head \in 1..head /\ m.attempts <= MaxAttempts
    BY <1>2, ChecksAssumption DEF Init, Message
  <2> QED
    BY <1>2, <1>3, <2>1, <2>2 DEF Init, TypeOK
<1>6. HeadStatusIsTrue
  BY <1>2, <1>3 DEF HeadStatusIsTrue, Names
<1>7. OneComment
  BY DEF Init, OneComment
<1> QED
  BY <1>4, <1>5, <1>6, <1>7 DEF IInv

\* An error keeps the messages of queue and handler in order.
LEMMA ReturnErrorOK ==
    ASSUME TypeOK, Local(work), work.pc # "idle", ReturnError
    PROVE  /\ Local(work')
           /\ queue' \subseteq Message
           /\ \A m \in queue' : m.head \in 1..head /\ m.attempts <= MaxAttempts
BY FreeLocal DEF ReturnError, TypeOK, Local, Work

\* So does the answer to a request that is followed by w.
LEMMA AnswerOK ==
    ASSUME TypeOK, Local(work), work.pc # "idle",
           NEW w, Local(w), Answer(w)
    PROVE  /\ Local(work')
           /\ queue' \subseteq Message
           /\ \A m \in queue' : m.head \in 1..head /\ m.attempts <= MaxAttempts
BY ReturnErrorOK DEF Answer, TypeOK

\* Local carries over to the next state when no head and no comment is added.
LEMMA LocalKept ==
    ASSUME UNCHANGED pushes, comments' \subseteq comments, Local(work')
    PROVE  Local(work)'
BY DEF Local, head

\* What TypeOK says of everything but GitHub.
TypeRest ==
    /\ queue \subseteq Message
    /\ \A m \in queue : m.head \in 1..head /\ m.attempts <= MaxAttempts
    /\ missed \in BOOLEAN

\* TypeOK follows from its parts.
LEMMA TypeKept ==
    ASSUME TypeOK, UNCHANGED <<pushes, status, label, comments, nextId>>,
           TypeRest', Local(work)'
    PROVE  TypeOK'
BY DEF TypeOK, TypeRest, Local, head

\* A push adds a head without statuses, which no message is for but its own.
LEMMA PushOK ==
    ASSUME IInv, Push
    PROVE  IInv'
<1>1. PICK h \in Pushed : pushes' = Append(pushes, h)
  BY DEF Push
<1> DEFINE none == [n \in Names |-> "none"]
<1>2. /\ pushes' \in Seq(Pushed) /\ pushes' # <<>>
      /\ head' = head + 1 /\ head \in Nat
      /\ \A i \in 1..head : pushes'[i] = pushes[i]
  BY <1>1 DEF IInv, TypeOK, head
<1>3. /\ status' \in Seq([Names -> States]) /\ Len(status') = head'
      /\ status'[head'] = none
  <2>1. none \in [Names -> States]
    BY DEF States
  <2>2. status' = Append(status, none) /\ status \in Seq([Names -> States]) /\ Len(status) = head
    BY DEF Push, IInv, TypeOK
  <2> QED
    BY <1>2, <2>1, <2>2
<1>4. Local(work)'
  <2>1. Local(work) /\ work' = work /\ comments' = comments
    BY DEF IInv, Push
  <2>2. work.at \in Nat
    BY <2>1 DEF Local, Work
  <2>3. work.pc \in Looked => work.at \in 1..head
    BY <1>2, <2>1, <2>2 DEF Local, Looked, Work, Message
  <2> QED
    BY <1>2, <2>1, <2>3 DEF Local, Looked, Judged, Work, Message
<1>5. TypeOK'
  <2>1. /\ queue' = queue \cup {[head |-> head + 1, attempts |-> 0]}
        /\ missed' = FALSE /\ UNCHANGED <<label, comments, nextId, work>>
    BY DEF Push
  <2>2. \A m \in queue' : m \in Message /\ m.head \in 1..head' /\ m.attempts <= MaxAttempts
    <3>1. SUFFICES ASSUME NEW m \in queue'
                   PROVE  m \in Message /\ m.head \in 1..head' /\ m.attempts <= MaxAttempts
      OBVIOUS
    <3>2. CASE m \in queue
      <4>1. m \in Message /\ m.head \in 1..head /\ m.attempts <= MaxAttempts
        BY <3>2 DEF IInv, TypeOK
      <4> QED
        BY <1>2, <4>1
    <3>3. CASE m = [head |-> head + 1, attempts |-> 0]
      <4>1. m \in Message /\ m.head = head + 1 /\ m.attempts = 0
        BY <1>2, <3>3 DEF Message
      <4> QED
        BY <1>2, <4>1, ChecksAssumption
    <3> QED
      BY <2>1, <3>2, <3>3
  <2> QED
    BY <1>2, <1>3, <1>4, <2>1, <2>2 DEF IInv, TypeOK, Local
<1>6. HeadStatusIsTrue'
  BY <1>3 DEF HeadStatusIsTrue, Names
<1>7. OneComment'
  BY DEF Push, IInv, OneComment
<1> QED
  BY <1>4, <1>5, <1>6, <1>7 DEF IInv

-----------------------------------------------------------------------------
\* The handler's requests that only read.
LEMMA ReadsOK ==
    ASSUME IInv,
           \/ \E m \in queue : Deliver(m) \/ GiveUp(m)
           \/ ListCommits \/ ListFiles \/ GetRaw \/ FindComments
           \/ Fail \/ MsgTimeout
    PROVE  IInv'
<1> USE DEF IInv
<1>1. UNCHANGED <<pushes, label, comments, nextId, status>>
  BY DEF Deliver, GiveUp, ListCommits, ListFiles, GetRaw, FindComments, Fail,
         MsgTimeout, github
<1>2. Local(work') /\ TypeRest'
  <2>1. ASSUME NEW m \in queue, Deliver(m) PROVE Local(work') /\ TypeRest'
    <3>1. /\ [m EXCEPT !.attempts = @ + 1] \in Message
          /\ [m EXCEPT !.attempts = @ + 1].head \in 1..head
          /\ [m EXCEPT !.attempts = @ + 1].attempts <= MaxAttempts
      BY <2>1, ChecksAssumption DEF Deliver, TypeOK, Message
    <3>2. 1 \in 1..Len(Checks)
      BY ChecksAssumption
    <3>3. Local(work')
      BY <2>1, <3>1, <3>2, StartLocal DEF Deliver
    <3> QED
      BY <1>1, <2>1, <3>3 DEF Deliver, TypeOK, TypeRest, head
  <2>2. ASSUME NEW m \in queue, GiveUp(m) PROVE Local(work') /\ TypeRest'
    BY <1>1, <2>2 DEF GiveUp, TypeOK, TypeRest, head
  <2>3. CASE ListCommits
    <3>1. /\ work.pc = "list" /\ Checks[work.k] = "dco"
          /\ work' = [work EXCEPT !.pc = "label", !.at = head, !.pass = pushes[head].signed]
      BY <2>3 DEF ListCommits, Check
    <3>2. /\ head \in 1..head /\ head \in Nat /\ pushes[head] \in Pushed
          /\ work \in Work /\ work.msg.head <= head /\ work.msg.head \in 1..head
      BY <3>1 DEF TypeOK, Local, head
    <3>3. Local(work')
      <4>1. /\ work'.pc = "label" /\ work'.at = head /\ work'.pass = pushes[head].signed
            /\ work'.k = work.k /\ work'.msg = work.msg /\ work' \in Work
        BY <3>1, <3>2 DEF Work, Labels, Pushed
      <4> QED
        BY <3>1, <3>2, <4>1 DEF Local, Looked, Judged
    <3> QED
      BY <1>1, <2>3, <3>3 DEF ListCommits, TypeOK, TypeRest, head
  <2>4. CASE ListFiles
    <3>1. /\ work.pc = "list" /\ Checks[work.k] = "validation"
          /\ work' = IF pushes[head].file = "untouched" THEN Done
                      ELSE [work EXCEPT !.pc = "raw", !.at = head]
      BY <2>4 DEF ListFiles, Check
    <3>2. /\ head \in 1..head /\ head \in Nat /\ pushes[head] \in Pushed
          /\ work \in Work /\ work.msg.head <= head /\ work.msg.head \in 1..head
      BY <3>1 DEF TypeOK, Local, head
    <3>3. CASE pushes[head].file = "untouched"
      BY <1>1, <2>4, <3>1, <3>3, DoneLocal DEF ListFiles, TypeOK, TypeRest, head
    <3>4. CASE pushes[head].file # "untouched"
      <4>1. Local(work')
        <5>1. /\ work'.pc = "raw" /\ work'.at = head
              /\ work'.k = work.k /\ work'.msg = work.msg /\ work' \in Work
          BY <3>1, <3>2, <3>4 DEF Work, Labels
        <5> QED
          BY <3>1, <3>2, <3>4, <5>1 DEF Local, Looked, Judged
      <4> QED
        BY <1>1, <2>4, <4>1 DEF ListFiles, TypeOK, TypeRest, head
    <3> QED
      BY <3>3, <3>4
  <2>5. CASE GetRaw
    <3>1. /\ work.pc = "raw"
          /\ work' = [work EXCEPT !.pc = "find", !.pass = pushes[work.at].file = "valid"]
      BY <2>5 DEF GetRaw
    <3>2. Local(work')
      BY <3>1 DEF Local, Work, Labels, Looked, Judged
    <3> QED
      BY <1>1, <2>5, <3>2 DEF GetRaw, TypeOK, TypeRest, head
  <2>6. CASE FindComments
    <3>1. work.pc = "find" /\ Found \subseteq Nat
      BY <2>6 DEF FindComments, Found, TypeOK
    <3>2. CASE work.pass
      <4>1. work' = [work EXCEPT !.pc = IF Found = {} THEN "status" ELSE "delete",
                                 !.todo = Found]
        BY <2>6, <3>2 DEF FindComments
      <4>2. Local(work')
        BY <3>1, <4>1 DEF Local, Work, Labels, Looked, Judged
      <4> QED
        BY <1>1, <2>6, <4>2 DEF FindComments, TypeOK, TypeRest, head
    <3>3. CASE ~work.pass /\ Found = {}
      <4>1. work' = [work EXCEPT !.pc = "comment"]
        BY <2>6, <3>3 DEF FindComments
      <4>2. \A c \in comments : c.token # Checks[work.k]
        BY <3>3 DEF Found, Token, Check
      <4>3. Local(work')
        BY <3>1, <3>3, <4>1, <4>2 DEF Local, Work, Labels, Looked, Judged
      <4> QED
        BY <1>1, <2>6, <4>3 DEF FindComments, TypeOK, TypeRest, head
    <3>4. CASE ~work.pass /\ Found # {}
      BY <1>1, <2>6, <3>1, <3>4, DoneLocal DEF FindComments, TypeOK, TypeRest, head
    <3> QED
      BY <3>2, <3>3, <3>4
  <2>7. CASE Fail
    BY <1>1, <2>7, ReturnErrorOK DEF Fail, TypeOK, TypeRest, head
  <2>8. CASE MsgTimeout
    <3>1. work' = [work EXCEPT !.held = FALSE] /\ queue' = queue \cup {work.msg}
      BY <2>8 DEF MsgTimeout
    <3>2. Local(work')
      BY <3>1 DEF Local, Work, Looked, Judged
    <3>3. work.pc # "idle"
      BY <2>8 DEF MsgTimeout, TypeOK, Local
    <3> QED
      BY <1>1, <2>8, <3>1, <3>2, <3>3 DEF MsgTimeout, Local, Work, TypeOK, TypeRest, head
  <2> QED
    BY <2>1, <2>2, <2>3, <2>4, <2>5, <2>6, <2>7, <2>8
<1>3. Local(work)'
  BY <1>1, <1>2, LocalKept
<1>4. TypeOK'
  BY <1>1, <1>2, <1>3, TypeKept
<1>5. HeadStatusIsTrue' /\ OneComment'
  BY <1>1 DEF HeadStatusIsTrue, OneComment, head
<1> QED
  BY <1>3, <1>4, <1>5

-----------------------------------------------------------------------------
\* The requests that change GitHub.
LEMMA ToggleLabelOK ==
    ASSUME IInv, ToggleLabel
    PROVE  IInv'
<1> USE DEF IInv
<1> DEFINE w == [work EXCEPT !.pc = "find"]
<1>1. /\ work.pc = "label" /\ label' = ~work.pass /\ Answer(w)
      /\ UNCHANGED <<pushes, comments, nextId, status, missed>>
  BY DEF ToggleLabel
<1>2. Local(w)
  BY <1>1 DEF Local, Work, Labels, Looked, Judged
<1>3. Local(work') /\ TypeRest'
  BY <1>1, <1>2, AnswerOK DEF TypeRest, TypeOK, head
<1>4. Local(work)'
  BY <1>1, <1>3, LocalKept
<1>5. TypeOK'
  <2>1. label' \in BOOLEAN
    BY <1>1
  <2> QED
    BY <1>1, <1>3, <1>4, <2>1 DEF TypeOK, TypeRest, Local, head
<1>6. HeadStatusIsTrue' /\ OneComment'
  BY <1>1 DEF HeadStatusIsTrue, OneComment, head
<1> QED
  BY <1>4, <1>5, <1>6

\* A comment less keeps the others unique.
LEMMA DeleteCommentOK ==
    ASSUME IInv, NEW id \in work.todo, DeleteComment(id)
    PROVE  IInv'
<1> USE DEF IInv
<1> DEFINE w == [work EXCEPT !.pc = IF work.todo = {id} THEN "status" ELSE "delete",
                             !.todo = @ \ {id}]
<1>1. /\ work.pc = "delete" /\ comments' \subseteq comments /\ Answer(w)
      /\ UNCHANGED <<pushes, label, nextId, status, missed>>
  BY DEF DeleteComment
<1>2. Local(w)
  BY <1>1 DEF Local, Work, Labels, Looked, Judged
<1>3. Local(work') /\ TypeRest'
  BY <1>1, <1>2, AnswerOK DEF TypeRest, TypeOK, head
<1>4. Local(work)'
  BY <1>1, <1>3, LocalKept
<1>5. TypeOK'
  BY <1>1, <1>3, <1>4 DEF TypeOK, TypeRest, Local, head
<1>6. HeadStatusIsTrue' /\ OneComment'
  BY <1>1 DEF HeadStatusIsTrue, OneComment, head
<1> QED
  BY <1>4, <1>5, <1>6

\* No comment holds the token of the one that is created.
LEMMA CreateCommentOK ==
    ASSUME IInv, CreateComment
    PROVE  IInv'
<1> USE DEF IInv
<1> DEFINE w == [work EXCEPT !.pc = "status"]
           new == [id |-> nextId, token |-> Checks[work.k]]
<1>1. /\ work.pc = "comment" /\ comments' = comments \cup {new}
      /\ nextId' = nextId + 1 /\ Answer(w)
      /\ UNCHANGED <<pushes, label, status, missed>>
  BY DEF CreateComment, Check
<1>2. Local(w) /\ w.pc # "comment"
  BY <1>1 DEF Local, Work, Labels, Looked, Judged
<1>3. Local(work') /\ TypeRest'
  BY <1>1, <1>2, AnswerOK DEF TypeRest, TypeOK, head
<1>4. Local(work)'
  <2>1. work'.pc # "comment"
    BY <1>1 DEF Answer, ReturnError, Free, TypeOK, Work
  <2> QED
    BY <1>1, <1>3, <2>1 DEF Local, head
<1>5. /\ new \in [id : Nat, token : Names] /\ new.id = nextId /\ new.token = Checks[work.k]
      /\ \A c \in comments : c.token # Checks[work.k]
  BY <1>1, ChecksType DEF TypeOK, Local
<1>6. TypeOK'
  BY <1>1, <1>3, <1>4, <1>5 DEF TypeOK, TypeRest, Local, head
<1>7. OneComment'
  BY <1>1, <1>5 DEF OneComment
<1>8. HeadStatusIsTrue'
  BY <1>1 DEF HeadStatusIsTrue, head
<1> QED
  BY <1>4, <1>6, <1>7, <1>8

\* The status is that of the current head only if the verdict is about it.
LEMMA CreateStatusOK ==
    ASSUME IInv, CreateStatus
    PROVE  IInv'
<1> USE DEF IInv
<1> DEFINE n == Checks[work.k]
           h == work.msg.head
           state == IF work.pass THEN "success" ELSE "failure"
<1>1. /\ work.pc = "status" /\ status' = [status EXCEPT ![h][n] = state] /\ Answer(Done)
      /\ UNCHANGED <<pushes, label, comments, nextId, missed>>
  BY DEF CreateStatus, Check
<1>2. /\ n \in Names /\ h \in 1..head /\ head \in Nat /\ state \in States
      /\ Len(status) = head /\ status \in Seq([Names -> States])
  BY <1>1, ChecksType DEF TypeOK, Local, head, States
<1>3. Local(work') /\ TypeRest'
  BY <1>1, DoneLocal, AnswerOK DEF TypeRest, TypeOK, head
<1>4. Local(work)'
  BY <1>1, <1>3, LocalKept
<1>5. status' \in Seq([Names -> States]) /\ Len(status') = head
  <2>1. [status[h] EXCEPT ![n] = state] \in [Names -> States]
    BY <1>2
  <2>2. status' = [status EXCEPT ![h] = [status[h] EXCEPT ![n] = state]]
    BY <1>1
  <2> QED
    BY <1>2, <2>1, <2>2
<1>6. TypeOK'
  BY <1>1, <1>3, <1>4, <1>5 DEF TypeOK, TypeRest, Local, head
<1>7. HeadStatusIsTrue'
  <2>1. CASE h # head
    <3>1. status'[head] = status[head]
      BY <1>1, <1>2, <2>1
    <3> QED
      BY <1>1, <3>1 DEF HeadStatusIsTrue, head
  <2>2. CASE h = head
    <3>1. work.at = head
      BY <1>1, <1>2, <2>2 DEF Local, Looked, Work
    <3>2. status'[head] = [status[head] EXCEPT ![n] = state]
      BY <1>1, <1>2, <2>2
    <3>3. status[head] \in [Names -> States] /\ head' = head /\ pushes' = pushes
      BY <1>1, <1>2, <2>2 DEF head
    <3>4. CASE n = "dco"
      <4>1. work.pass <=> pushes[head].signed
        BY <1>1, <3>1, <3>4 DEF Local, Judged
      <4>2. /\ status'[head].validation = status[head].validation
            /\ status'[head].dco = state
        BY <3>2, <3>3, <3>4 DEF Names
      <4> QED
        BY <3>3, <4>1, <4>2 DEF HeadStatusIsTrue
    <3>5. CASE n = "validation"
      <4>1. /\ work.pass <=> pushes[head].file = "valid"
            /\ pushes[head].file # "untouched"
        BY <1>1, <3>1, <3>5 DEF Local, Judged, Looked
      <4>2. pushes[head].file \in {"untouched", "valid", "invalid"}
        <5>1. pushes \in Seq(Pushed) /\ head = Len(pushes) /\ head \in 1..head
          BY <1>2, <2>2 DEF TypeOK, head
        <5>2. pushes[head] \in Pushed
          BY <5>1
        <5> QED
          BY <5>2 DEF Pushed
      <4>3. /\ status'[head].dco = status[head].dco
            /\ status'[head].validation = state
        BY <3>2, <3>3, <3>5 DEF Names
      <4> QED
        BY <3>3, <4>1, <4>2, <4>3 DEF HeadStatusIsTrue
    <3> QED
      BY <1>2, <3>4, <3>5 DEF Names
  <2> QED
    BY <2>1, <2>2
<1>8. OneComment'
  BY <1>1 DEF OneComment
<1> QED
  BY <1>4, <1>6, <1>7, <1>8

-----------------------------------------------------------------------------
\* Every step keeps the inductive invariant.
LEMMA StepOK == IInv /\ [Next]_vars => IInv'
<1> SUFFICES ASSUME IInv, [Next]_vars PROVE IInv'
  OBVIOUS
<1>1. CASE Push
  BY <1>1, PushOK
<1>2. CASE Fail \/ MsgTimeout
  BY <1>2, ReadsOK
<1>3. CASE Handle
  BY <1>3, ReadsOK, ToggleLabelOK, DeleteCommentOK, CreateCommentOK, CreateStatusOK DEF Handle
<1>4. CASE UNCHANGED vars
  BY <1>4 DEF vars, github, IInv, TypeOK, Local, HeadStatusIsTrue, OneComment, head
<1> QED
  BY <1>1, <1>2, <1>3, <1>4 DEF Next

\* The inductive invariant holds in every state.
THEOREM Invariance == Spec => []IInv
BY InitOK, StepOK, PTL DEF Spec

\* Every variable keeps its type, and no message is delivered too often.
THEOREM ChecksTypeCorrect == Spec => []TypeOK
<1>1. IInv => TypeOK
  BY DEF IInv
<1> QED
  BY <1>1, Invariance, PTL

\* A commit status of the current head tells the truth about it.
THEOREM StatusesAreTrue == Spec => []HeadStatusIsTrue
<1>1. IInv => HeadStatusIsTrue
  BY DEF IInv
<1> QED
  BY <1>1, Invariance, PTL

\* There is never more than one automated comment of a kind.
THEOREM CommentsAreUnique == Spec => []OneComment
<1>1. IInv => OneComment
  BY DEF IInv
<1> QED
  BY <1>1, Invariance, PTL

-----------------------------------------------------------------------------
(***************************************************************************)
(* That the checks implement Delivery.  A message that was timed out under *)
(* its handler is in the queue already, so that the handler has nothing to *)
(* put back.                                                               *)
(***************************************************************************)
Requeued == work.pc # "idle" /\ ~work.held => work.msg \in queue
Mapped == <<Due, Waiting, Hand, Left>>

\* The handler stays at the same operation of the same message.
LEMMA SameOperation ==
    ASSUME UNCHANGED <<pushes, queue>>, work.pc # "idle", work'.pc # "idle",
           work'.k = work.k, work'.msg = work.msg
    PROVE  UNCHANGED Mapped
<1>1. head' = head
  BY DEF head
<1> QED
  BY <1>1 DEF Mapped, Due, Waiting, Hand, Left, Tries

\* An operation is done with; the last one ends the message.
LEMMA DoneDelivers ==
    ASSUME IInv, UNCHANGED <<pushes, queue>>, work.pc # "idle", work' = Done
    PROVE  Queue!Next
<1> DEFINE L == Len(Checks)
<1>1. head' = head /\ work.k \in 1..L /\ L \in Nat
  BY ChecksAssumption DEF head, IInv, Local
<1>2. Due' = Due /\ Waiting' = Waiting
  BY <1>1 DEF Due, Waiting, Tries
<1>3. Hand # {} /\ Left = work.k..L
  BY DEF Hand, Left
<1>4. CASE work.k = L
  <2>1. work'.pc = "idle"
    BY <1>4 DEF Done, Free
  <2>2. \A o, p \in Left : o = p
    BY <1>1, <1>3, <1>4
  <2> QED
    BY <1>2, <1>3, <2>1, <2>2 DEF Hand, Left, Queue!Next, Queue!Finish
<1>5. CASE work.k # L
  <2>1. work'.pc = "list" /\ work'.k = work.k + 1 /\ work'.msg = work.msg
    BY <1>5 DEF Done, Start
  <2>2. Hand' = Hand /\ Left' = (work.k + 1)..L
    BY <2>1 DEF Hand, Left, Tries
  <2>3. work.k \in Left /\ (work.k + 1)..L = Left \ {work.k}
    BY <1>1, <1>3
  <2> QED
    BY <1>2, <2>2, <2>3 DEF Queue!Next, Queue!Perform
<1> QED
  BY <1>4, <1>5

\* An error puts the message back.
LEMMA ErrorPutsBack ==
    ASSUME Requeued, ReturnError, work.pc # "idle", UNCHANGED pushes
    PROVE  Queue!Next
<1>1. head' = head /\ work'.pc = "idle"
  BY DEF head, ReturnError, Free
<1>2. Waiting' = Waiting \cup Hand
  BY DEF Waiting, Hand, Tries, ReturnError, Requeued
<1>3. Due' = Due /\ Hand # {} /\ Hand' = {} /\ Left' = {}
  BY <1>1 DEF Due, Hand, Left
<1> QED
  BY <1>2, <1>3 DEF Queue!Next, Queue!PutBack

\* Each step is one of Delivery, or none.
LEMMA StepDelivers == ASSUME IInv, Requeued, [Next]_vars PROVE [Queue!Next]_Mapped
<1> SUFFICES ASSUME Next PROVE Queue!Next \/ UNCHANGED Mapped
  <2>1. CASE UNCHANGED vars
    BY <2>1 DEF vars, github, Mapped, Due, Waiting, Hand, Left, Tries, head
  <2> QED
    BY <2>1
<1>a. work \in Work /\ pushes \in Seq(Pushed) /\ queue \subseteq Message /\ head \in Nat
  BY DEF IInv, TypeOK, head
<1>1. CASE Push
  <2>1. head' = head + 1 /\ work' = work /\ queue' = queue \cup {[head |-> head + 1, attempts |-> 0]}
    BY <1>1, <1>a DEF Push, head
  <2>2. /\ DOMAIN Due' = DOMAIN Due \cup {head + 1} /\ head + 1 \notin DOMAIN Due
        /\ \A h \in DOMAIN Due : Due'[h] = Due[h]
    BY <1>a, <2>1 DEF Due
  <2>3. Waiting' = Waiting \cup {Queue!New(head + 1)}
    <3> DEFINE new == [head |-> head + 1, attempts |-> 0]
    <3>1. Tries(new) = Queue!New(head + 1)
      BY DEF Tries, Queue!New
    <3>2. Waiting' = Waiting \cup {Tries(new)}
      <4> HIDE DEF new
      <4> QED
        BY <2>1 DEF Waiting, new
    <3> QED
      BY <3>1, <3>2
  <2>4. Hand' = Hand /\ Left' = Left
    BY <2>1 DEF Hand, Left, Tries
  <2> QED
    BY <2>2, <2>3, <2>4 DEF Queue!Next, Queue!Post
<1>2. CASE Fail
  BY <1>2, ErrorPutsBack DEF Fail, github
<1>3. CASE MsgTimeout
  <2>1. /\ head' = head /\ work'.pc = work.pc /\ work'.k = work.k /\ work'.msg = work.msg
        /\ queue' = queue \cup {work.msg} /\ work.pc # "idle"
    BY <1>3, <1>a DEF MsgTimeout, github, head, IInv, Local, Work
  <2>2. Waiting' = Waiting \cup Hand /\ Due' = Due /\ Hand' = Hand /\ Left' = Left
    BY <2>1 DEF Waiting, Hand, Left, Due, Tries
  <2> QED
    BY <2>2 DEF Queue!Next, Queue!Timeout
<1>4. ASSUME NEW m \in queue, Deliver(m)
      PROVE  Queue!Next
  <2>1. /\ m \in Message /\ head' = head /\ work.pc = "idle" /\ m.attempts < MaxAttempts
        /\ queue' = queue \ {m} /\ m.head \in 1..head
    BY <1>4, <1>a DEF Deliver, github, head, IInv, TypeOK
  <2>2. work'.pc = "list" /\ work'.k = 1 /\ work'.msg = [m EXCEPT !.attempts = @ + 1]
    BY <1>4 DEF Deliver, Start
  <2>3. Tries(m) \in Waiting /\ Hand = {} /\ Tries(m).tries < MaxAttempts
    BY <2>1 DEF Waiting, Hand, Tries
  <2>4. Waiting' = Waiting \ {Tries(m)}
    BY <1>a, <2>1 DEF Waiting, Tries, Message
  <2>5. Hand' = {[Tries(m) EXCEPT !.tries = @ + 1]}
    <3>1. Tries(work.msg)' = [id |-> m.head, tries |-> m.attempts + 1]
      BY <2>1, <2>2 DEF Tries, Message
    <3>2. [Tries(m) EXCEPT !.tries = @ + 1] = [id |-> m.head, tries |-> m.attempts + 1]
      BY DEF Tries
    <3> QED
      BY <2>2, <3>1, <3>2 DEF Hand
  <2>6. Left' = Due[Tries(m).id] /\ Due' = Due
    BY <2>1, <2>2 DEF Left, Due, Tries
  <2> QED
    BY <2>3, <2>4, <2>5, <2>6 DEF Queue!Next, Queue!Take
<1>5. ASSUME NEW m \in queue, GiveUp(m)
      PROVE  Queue!Next
  <2>1. /\ m \in Message /\ head' = head /\ work.pc = "idle" /\ m.attempts >= MaxAttempts
        /\ queue' = queue \ {m} /\ work' = work
    BY <1>5, <1>a DEF GiveUp, github, head
  <2>2. Tries(m) \in Waiting /\ Hand = {} /\ Tries(m).tries >= MaxAttempts
    BY <2>1 DEF Waiting, Hand, Tries
  <2>3. Waiting' = Waiting \ {Tries(m)}
    BY <1>a, <2>1 DEF Waiting, Tries, Message
  <2>4. Due' = Due /\ Hand' = Hand /\ Left' = Left
    BY <2>1 DEF Due, Hand, Left, Tries
  <2> QED
    BY <2>2, <2>3, <2>4 DEF Queue!Next, Queue!GiveUp
<1>6. ASSUME UNCHANGED pushes, work.pc # "idle",
             NEW w, w.pc # "idle", w.k = work.k, w.msg = work.msg, Answer(w)
      PROVE  Queue!Next \/ UNCHANGED Mapped
  BY <1>6, SameOperation, ErrorPutsBack DEF Answer
<1>7. CASE ListCommits
  BY <1>7, <1>a, SameOperation DEF ListCommits, github, Work
<1>8. CASE GetRaw
  BY <1>8, <1>a, SameOperation DEF GetRaw, github, Work
<1>9. CASE ListFiles
  BY <1>9, <1>a, SameOperation, DoneDelivers DEF ListFiles, github, Work
<1>10. CASE FindComments
  BY <1>10, <1>a, SameOperation, DoneDelivers DEF FindComments, github, Work
<1>11. CASE ToggleLabel
  BY <1>11, <1>a, <1>6 DEF ToggleLabel, Work
<1>12. ASSUME NEW id \in work.todo, DeleteComment(id)
       PROVE  Queue!Next \/ UNCHANGED Mapped
  BY <1>12, <1>a, <1>6 DEF DeleteComment, Work
<1>13. CASE CreateComment
  BY <1>13, <1>a, <1>6 DEF CreateComment, Work
<1>14. CASE CreateStatus
  BY <1>14, DoneDelivers, ErrorPutsBack DEF CreateStatus, Answer
<1> QED
  BY <1>1, <1>2, <1>3, <1>4, <1>5, <1>7, <1>8, <1>9, <1>10, <1>11, <1>12, <1>13, <1>14
     DEF Next, Handle

\* The queue holds a timed-out message until the handler is done with it.
LEMMA RequeuedOK == ASSUME IInv, Requeued, [Next]_vars PROVE Requeued'
<1>a. work \in Work
  BY DEF IInv, TypeOK
<1>1. CASE Push \/ UNCHANGED vars
  BY <1>1 DEF Push, vars, Requeued
<1>2. CASE MsgTimeout
  BY <1>2, <1>a DEF MsgTimeout, Requeued, Work
<1>3. ASSUME NEW m \in queue, Deliver(m) \/ GiveUp(m)
      PROVE  Requeued'
  BY <1>3 DEF Deliver, GiveUp, Start, Requeued
<1>4. ASSUME work.pc # "idle", work' = Done, UNCHANGED queue
      PROVE  Requeued'
  BY <1>4 DEF Done, Start, Free, Requeued
<1>5. ASSUME ReturnError
      PROVE  Requeued'
  BY <1>5 DEF ReturnError, Free, Requeued
<1>6. ASSUME NEW w, work.pc # "idle", w.held = work.held, w.msg = work.msg,
             work' = w, UNCHANGED queue
      PROVE  Requeued'
  BY <1>6 DEF Requeued
<1>7. CASE ListCommits \/ GetRaw \/ ListFiles \/ FindComments
  BY <1>7, <1>a, <1>4, <1>6 DEF ListCommits, GetRaw, ListFiles, FindComments, Work
<1>8. CASE ToggleLabel \/ CreateComment \/ CreateStatus
  BY <1>8, <1>a, <1>4, <1>5, <1>6 DEF ToggleLabel, CreateComment, CreateStatus, Answer, Work
<1>9. ASSUME NEW id \in work.todo, DeleteComment(id)
      PROVE  Requeued'
  BY <1>9, <1>a, <1>5, <1>6 DEF DeleteComment, Answer, Work
<1>10. CASE Fail
  BY <1>5, <1>10 DEF Fail
<1> QED
  BY <1>1, <1>2, <1>3, <1>7, <1>8, <1>9, <1>10 DEF Next, Handle

(***************************************************************************)
(* Whatever fails or is timed out, the events of a pull request are        *)
(* delivered as Delivery promises (nsq.go:24-34 and go-nsq's handlerLoop): *)
(* at most MaxAttempts times, from the first check on, and only the end of *)
(* the last check or the last attempt disposes of one.                     *)
(***************************************************************************)
THEOREM ChecksDeliver == Spec => DeliverySpec
<1>1. Init => Requeued /\ Queue!Init
  <2> SUFFICES ASSUME Init PROVE Requeued /\ Queue!Init
    OBVIOUS
  <2>1. work.pc = "idle" /\ head = 1 /\ queue = {[head |-> 1, attempts |-> 0]}
    BY DEF Init, Free, head
  <2>2. Waiting = {Queue!New(id) : id \in DOMAIN Due}
    BY <2>1 DEF Waiting, Tries, Due, Queue!New
  <2> QED
    BY <2>1, <2>2 DEF Requeued, Hand, Left, Queue!Init
<1>2. IInv /\ Requeued /\ [Next]_vars => Requeued'
  BY RequeuedOK
<1>3. IInv /\ Requeued /\ [Next]_vars => [Queue!Next]_Queue!vars
  BY StepDelivers DEF Mapped, Queue!vars
<1> QED
  BY <1>1, <1>2, <1>3, Invariance, PTL DEF Spec, DeliverySpec, Queue!Spec

=============================================================================
