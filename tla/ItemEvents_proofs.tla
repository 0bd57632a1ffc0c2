------------------------- MODULE ItemEvents_proofs -------------------------
(***************************************************************************)
(* Proofs about ItemEvents, for any starting points and any bounds: the    *)
(* type invariant, that a listing is left out only when the filters reject *)
(* all of it, and that no milestone is backdated.                          *)
(*                                                                         *)
(* The last is not inductive by itself.  What makes it so is Timely: who   *)
(* has a view of a merged item knows that the item is merged, the version  *)
(* a worker has read was read after the merge, and versions only grow.     *)
(***************************************************************************)
EXTENDS ItemEvents, WellFoundedInduction, SequenceTheorems, TLAPS

Pcs == {"idle", "next", "filter", "pick"} \cup Reads \cup Writes
AllPlaces == Places(DOMAIN actions, Payloads)

\* The parts of TypeOK.
GitHubOK == item \in Item /\ version \in Nat /\ milestones \subseteq Nat
NsqdOK ==
    /\ sent \in Seq(Message) /\ sent # <<>> /\ Len(sent) <= MaxEvents
    /\ attempts \in Seq(0 .. MaxAttempts) /\ Len(attempts) = Len(sent)
    /\ queue \subseteq DOMAIN sent
WorkOK ==
    /\ Decoded(actions)
    /\ work \in [Workers -> Work]
    /\ work["consumer"].pc # "idle" => work["consumer"].id \in DOMAIN sent
RestOK ==
    /\ process \in {"up", "stopping", "down"}
    /\ faults \in [errors : Nat, stops : Nat, jobs : Nat]
    /\ mergedAt \in Nat /\ given \in Given /\ swallowed \in BOOLEAN
    /\ assigned \in [0 .. MaxEvents -> Nat]

\* A worker at an operation has it still to do.
Busy == \A w \in Workers : work[w].pc \notin {"idle", "next"} => work[w].todo # {}

\* TypeOK is the conjunction of its parts.
LEMMA Parts == TypeOK <=> GitHubOK /\ NsqdOK /\ WorkOK /\ RestOK
BY DEF TypeOK, GitHubOK, NsqdOK, WorkOK, RestOK

-----------------------------------------------------------------------------
\* A set of natural numbers has a least element.
LEMMA Least ==
    ASSUME NEW T, T \subseteq Nat, T # {}
    PROVE  \E n \in T : \A m \in T : n <= m
<1>1. PICK n \in T : \A m \in T : ~(<<m, n>> \in OpToRel(<, Nat))
  BY NatLessThanWellFounded, WFMin
<1>2. \A m \in T : ~(m < n)
  BY <1>1 DEF OpToRel
<1> QED
  BY <1>2

\* The interval of one more.
LEMMA OneMore ==
    ASSUME NEW n \in Nat, NEW Q, Q \subseteq 1 .. n
    PROVE  Q \cup {n + 1} \subseteq 1 .. n + 1 /\ 1 .. n \subseteq 1 .. n + 1
OBVIOUS

\* What a place is.
LEMMA PlaceShape ==
    ASSUME Decoded(actions), NEW s \in AllPlaces
    PROVE  /\ s = <<s[1], s[2], s[3]>>
           /\ s[1] \in DOMAIN actions /\ s[1] \in Nat
           /\ s[2] \in DOMAIN actions[s[1]].operations /\ s[2] \in Nat
           /\ s[3] \in Payloads
BY DEF AllPlaces, Places, Decoded

\* The operation a worker is at is one of those it has to do.
LEMMA HereOK ==
    ASSUME Decoded(actions), NEW w \in Workers, work[w].todo \subseteq AllPlaces,
           work[w].todo # {}
    PROVE  Here(w) \in work[w].todo
<1> DEFINE T == work[w].todo
           First == {s[1] : s \in T}
<1>1. \A s \in T : s = <<s[1], s[2], s[3]>> /\ s[1] \in Nat /\ s[2] \in Nat /\ s[3] \in Payloads
  BY PlaceShape
<1>2. PICK a \in First : \A m \in First : a <= m
  <2>1. First \subseteq Nat /\ First # {}
    BY <1>1
  <2> HIDE DEF First
  <2> QED
    BY <2>1, Least
<1> DEFINE Second == {s[2] : s \in {t \in T : t[1] = a}}
<1>3. PICK k \in Second : \A m \in Second : k <= m
  <2>1. Second \subseteq Nat /\ Second # {}
    BY <1>1, <1>2
  <2> HIDE DEF Second
  <2> QED
    BY <2>1, Least
<1>4. PICK s \in T : /\ s[1] = a /\ s[2] = k
                     /\ s[3] = "issue" \/ <<a, k, "issue">> \notin T
  <2>1. PICK t \in T : t[1] = a /\ t[2] = k
    BY <1>3
  <2>2. CASE <<a, k, "issue">> \in T
    BY <2>2
  <2>3. CASE <<a, k, "issue">> \notin T
    BY <2>1, <2>3
  <2> QED
    BY <2>2, <2>3
<1>5. \A t \in T \ {s} : Precedes(s, t)
  <2> SUFFICES ASSUME NEW t \in T \ {s} PROVE Precedes(s, t)
    OBVIOUS
  <2>1. /\ a <= t[1] /\ a \in Nat /\ k \in Nat /\ t[1] \in Nat /\ t[2] \in Nat
        /\ t[1] = a => k <= t[2]
    BY <1>1, <1>2, <1>3
  <2>2. t[1] = a /\ t[2] = k => s[3] = "issue"
    BY <1>1, <1>4 DEF Payloads
  <2> QED
    BY <1>4, <2>1, <2>2 DEF Precedes
<1> QED
  BY <1>5 DEF Here

\* So its operation is one of the configuration.
LEMMA OpOK ==
    ASSUME WorkOK, NEW w \in Workers, work[w].todo # {}
    PROVE  /\ Here(w) \in AllPlaces /\ Here(w)[3] \in Payloads
           /\ Op(w).users \subseteq STRING
           /\ DOMAIN Op(w).patterns \subseteq Label
<1>1. work[w].todo \subseteq AllPlaces
  BY DEF WorkOK, Work, AllPlaces
<1>2. Here(w) \in AllPlaces
  BY <1>1, HereOK DEF WorkOK
<1>3. /\ Here(w)[1] \in DOMAIN actions /\ Here(w)[3] \in Payloads
      /\ Here(w)[2] \in DOMAIN actions[Here(w)[1]].operations
  BY <1>2, PlaceShape DEF WorkOK
<1> QED
  BY <1>2, <1>3 DEF WorkOK, Decoded, Op

-----------------------------------------------------------------------------
\* The local variables at the start of a task.
LEMMA TaskOK ==
    ASSUME NEW pc \in Pcs, NEW id \in Nat, NEW todo, todo \subseteq AllPlaces, NEW x \in Item
    PROVE  /\ Task(pc, id, todo, x) \in Work
           /\ Task(pc, id, todo, x).pc = pc /\ Task(pc, id, todo, x).id = id
           /\ Task(pc, id, todo, x).x = x
<1> DEFINE L == SUBSET Label
           U == SUBSET STRING
<1>1. Work = [pc : Pcs, id : Nat, todo : SUBSET AllPlaces, x : Item, users : U,
              labels : L, version : Nat]
  BY DEF Work, Pcs, AllPlaces
<1>2. {} \in L
  OBVIOUS
<1>3. {} \in U
  OBVIOUS
<1>4. todo \in SUBSET AllPlaces
  OBVIOUS
<1> HIDE DEF L, U
<1> QED
  BY <1>1, <1>2, <1>3, <1>4 DEF Task

\* Free is the first event's view, with nothing to do.
LEMMA FreeOK == ASSUME NsqdOK PROVE Free \in Work /\ Free.pc = "idle" /\ Free.x = sent[1].x
<1>1. sent[1] \in Message
  <2>1. sent \in Seq(Message) /\ sent # <<>>
    BY DEF NsqdOK
  <2> QED
    BY <2>1
<1>2. sent[1].x \in Item
  BY <1>1 DEF Message
<1> QED
  BY <1>2, TaskOK DEF Free, Pcs

\* A view differs from the item in its payload and in what it leaves out only.
LEMMA ViewOK ==
    ASSUME NEW it \in Item, NEW p \in Payloads, NEW b \in BOOLEAN
    PROVE  LET x == [it EXCEPT !.payload = p, !.brief = b]
           IN  x \in Item /\ x.payload = p /\ x.merged = it.merged
BY DEF Item

\* A view of the item as a listing shows it.
LEMMA ListedOK ==
    ASSUME item \in Item, NEW p \in Payloads
    PROVE  View(p) \in Item /\ View(p).payload = p /\ View(p).merged = item.merged
<1> DEFINE b == p = "pr"
           x == [item EXCEPT !.payload = p, !.brief = b]
<1>1. b \in BOOLEAN /\ View(p) = x
  BY DEF View
<1> HIDE DEF b
<1>2. x \in Item /\ x.payload = p /\ x.merged = item.merged
  BY <1>1, ViewOK
<1> HIDE DEF x
<1> QED
  BY <1>1, <1>2

\* An event is well-formed, and shows the item as merged or not.
LEMMA EventOK ==
    ASSUME NEW event \in GitHubEvents, NEW action \in {"opened", "created", "closed", "none"},
           NEW it \in Item
    PROVE  /\ Event(event, action, it) \in Message
           /\ Event(event, action, it).x.merged = it.merged
<1> DEFINE p == IF ShowsIssue(event) THEN "issue" ELSE it.payload
           b == event \in {"pull_request_review", "pull_request_review_comment"}
           x == [it EXCEPT !.payload = p, !.brief = b]
<1>1. p \in Payloads /\ b \in BOOLEAN
  BY DEF Item, Payloads
<1>2. Event(event, action, it) = [event |-> event, action |-> action, x |-> x]
  BY DEF Event
<1> HIDE DEF p, b
<1>3. x \in Item /\ x.merged = it.merged
  BY <1>1, ViewOK
<1> HIDE DEF x
<1> QED
  BY <1>2, <1>3 DEF Message

\* What an event triggers is in the configuration.
LEMMA TriggeredOK ==
    ASSUME NEW m \in Message
    PROVE  Triggered(m) \subseteq AllPlaces
<1>1. m.x.payload \in Payloads
  BY DEF Message, Item
<1> QED
  BY <1>1 DEF Triggered, Places, AllPlaces

\* Setting the local variables of one worker.
LEMMA SetOK ==
    ASSUME WorkOK, NEW w \in Workers, NEW r \in Work,
           w = "consumer" /\ r.pc # "idle" => r.id \in DOMAIN sent,
           work' = [work EXCEPT ![w] = r], UNCHANGED <<actions, sent>>
    PROVE  WorkOK'
BY DEF WorkOK, Workers, Work, Places, Decoded

\* A worker that becomes idle.
LEMMA IdleOK ==
    ASSUME NsqdOK, WorkOK, NEW w \in Workers, work' = Idle(w), UNCHANGED <<actions, sent>>
    PROVE  WorkOK'
BY FreeOK, SetOK DEF Idle

\* A worker that goes on to its next operation.
LEMMA AdvanceOK ==
    ASSUME NsqdOK, WorkOK, NEW w \in Workers, work[w].pc # "idle",
           Advance(w), UNCHANGED <<actions, sent>>
    PROVE  WorkOK'
<1> DEFINE r == Task("next", work[w].id, work[w].todo \ {Here(w)}, work[w].x)
<1>1. /\ work[w] \in Work /\ work[w].id \in Nat /\ work[w].x \in Item
      /\ work[w].todo \ {Here(w)} \subseteq AllPlaces
  BY DEF WorkOK, Work, AllPlaces
<1>2. r \in Work /\ r.id = work[w].id
  BY <1>1, TaskOK DEF Pcs
<1>3. work' = [work EXCEPT ![w] = r]
  BY DEF Advance
<1>4. w = "consumer" => r.id \in DOMAIN sent
  BY <1>2 DEF WorkOK
<1> HIDE DEF r
<1> QED
  BY <1>2, <1>3, <1>4, SetOK

\* An error: the message goes back to the queue it came from.
LEMMA ErrorOK ==
    ASSUME NsqdOK, WorkOK, NEW w \in Workers, work[w].pc # "idle",
           ReturnError(w), UNCHANGED <<actions, sent, attempts>>
    PROVE  WorkOK' /\ NsqdOK'
BY IdleOK DEF ReturnError, NsqdOK, WorkOK, Workers

\* The death of the process.
LEMMA DieOK == ASSUME TypeOK, Die PROVE TypeOK'
<1> USE Parts
<1>1. work' = [w \in Workers |-> Free] /\ Free \in Work /\ Free.pc = "idle"
  BY FreeOK DEF Die
<1>2. WorkOK'
  BY <1>1 DEF Die, WorkOK, Workers, Work, Places, Decoded, github, nsqd
<1>3. NsqdOK'
  BY DEF Die, NsqdOK, WorkOK
<1>4. GitHubOK' /\ RestOK'
  BY DEF Die, GitHubOK, RestOK, github, history
<1> QED
  BY <1>2, <1>3, <1>4 DEF TypeOK, GitHubOK, NsqdOK, WorkOK, RestOK

\* What the environment sends keeps nsqd and the worker in order.
LEMMA SendOK ==
    ASSUME TypeOK, NEW event \in GitHubEvents,
           NEW action \in {"opened", "created", "closed", "none"}, NEW it \in Item,
           Send(event, action, it), UNCHANGED <<actions, work>>
    PROVE  NsqdOK' /\ WorkOK'
<1> USE Parts
<1> DEFINE e == Event(event, action, it)
<1>1. e \in Message
  BY EventOK
<1> HIDE DEF e
<1>2. NsqdOK' /\ DOMAIN sent \subseteq DOMAIN sent'
  <2>1. /\ sent \in Seq(Message) /\ attempts \in Seq(0 .. MaxAttempts)
        /\ Len(attempts) = Len(sent) /\ queue \subseteq 1 .. Len(sent)
    BY DEF NsqdOK
  <2>2. /\ sent' = Append(sent, e) /\ attempts' = Append(attempts, 0)
        /\ queue' = queue \cup {Len(sent) + 1}
    BY DEF Send, e
  <2>3. sent' \in Seq(Message) /\ sent' # <<>> /\ Len(sent') = Len(sent) + 1
    BY <1>1, <2>1, <2>2, AppendProperties
  <2>4. attempts' \in Seq(0 .. MaxAttempts) /\ Len(attempts') = Len(sent) + 1
    <3> DEFINE S == 0 .. MaxAttempts
    <3>1. 0 \in S /\ attempts \in Seq(S)
      BY <2>1, BoundsAssumption
    <3> HIDE DEF S
    <3>2. Append(attempts, 0) \in Seq(S) /\ Len(Append(attempts, 0)) = Len(attempts) + 1
      BY <3>1, AppendProperties
    <3> QED
      BY <2>1, <2>2, <3>2 DEF S
  <2>5. DOMAIN sent' = 1 .. Len(sent) + 1 /\ DOMAIN sent = 1 .. Len(sent) /\ Len(sent) \in Nat
    BY <2>1, <2>3
  <2>6. queue' \subseteq DOMAIN sent' /\ DOMAIN sent \subseteq DOMAIN sent'
    BY <2>1, <2>2, <2>5, OneMore
  <2>7. Len(sent) < MaxEvents /\ Len(sent) \in Nat /\ MaxEvents \in Nat
    BY <2>5, BoundsAssumption DEF Send
  <2> QED
    BY <2>3, <2>4, <2>6, <2>7 DEF NsqdOK
<1>3. WorkOK'
  BY <1>2 DEF WorkOK, Work, Places, Decoded
<1> QED
  BY <1>2, <1>3

-----------------------------------------------------------------------------
\* The state the program starts in.
LEMMA InitOK == Init => TypeOK
<1> SUFFICES ASSUME Init PROVE TypeOK
  OBVIOUS
<1> USE Parts
<1>1. PICK p \in StartingPoints :
        /\ item = p.item /\ actions = p.common \o p.repository
        /\ version = p.version /\ milestones = p.milestones
  BY DEF Init
<1>2. GitHubOK /\ Decoded(actions)
  BY <1>1, StartingPointsAssumption DEF GitHubOK
<1>3. NsqdOK
  <2> DEFINE type == IF item.payload = "pr" THEN "pull_request" ELSE "issues"
             e == Event(type, "opened", item)
  <2>1. type \in GitHubEvents
    BY DEF GitHubEvents
  <2>2. e \in Message
    BY <1>2, <2>1, EventOK DEF GitHubOK
  <2>3. sent = <<e>> /\ attempts = <<0>> /\ queue = {1}
    BY DEF Init
  <2> HIDE DEF e
  <2>4. sent \in Seq(Message) /\ Len(sent) = 1 /\ sent # <<>>
    BY <2>2, <2>3
  <2>5. attempts \in Seq(0 .. MaxAttempts) /\ Len(attempts) = 1
    BY <2>3, BoundsAssumption
  <2> QED
    BY <2>3, <2>4, <2>5, BoundsAssumption DEF NsqdOK
<1>4. WorkOK
  <2>1. work = [w \in Workers |-> Free] /\ Free \in Work /\ Free.pc = "idle"
    BY <1>3, FreeOK DEF Init
  <2> QED
    BY <1>2, <2>1 DEF WorkOK, Workers
<1>5. RestOK
  BY DEF Init, RestOK, Given
<1> QED
  BY <1>2, <1>3, <1>4, <1>5

\* What people do.
LEMMA PeopleOK == ASSUME TypeOK, People PROVE TypeOK'
<1> USE Parts
<1>1. ASSUME NEW word \in Words, NEW event \in {"issue_comment", "pull_request_review_comment"},
             Comment(event, word)
      PROVE  TypeOK'
  <2>1. item' \in Item /\ GitHubOK'
    <3>1. /\ item \in Item /\ word \in STRING
          /\ item' = [item EXCEPT !.said = @ \cup {word}, !.comments = @ + 1]
      BY <1>1, StartingPointsAssumption DEF Comment, GitHubOK
    <3> DEFINE said == item.said \cup {word}
               comments == item.comments + 1
    <3>2. /\ said \in SUBSET STRING /\ comments \in Nat
          /\ item' = [item EXCEPT !.said = said, !.comments = comments]
      BY <3>1 DEF Item
    <3> HIDE DEF said, comments
    <3>3. item' \in Item
      BY <3>1, <3>2 DEF Item
    <3> QED
      BY <1>1, <3>3 DEF Comment, GitHubOK
  <2>2. NsqdOK' /\ WorkOK'
    BY <1>1, <2>1, SendOK DEF Comment, GitHubEvents
  <2>3. RestOK'
    BY <1>1 DEF Comment, RestOK, history
  <2> QED
    BY <2>1, <2>2, <2>3 DEF TypeOK, GitHubOK, NsqdOK, WorkOK, RestOK
<1>2. CASE Push
  <2>1. GitHubOK' /\ RestOK'
    BY <1>2 DEF Push, GitHubOK, RestOK, github, history
  <2>2. NsqdOK' /\ WorkOK'
    BY <1>2, SendOK DEF Push, GitHubEvents, GitHubOK
  <2> QED
    BY <2>1, <2>2 DEF TypeOK, GitHubOK, NsqdOK, WorkOK, RestOK
<1>3. CASE Merge
  <2>1. item' \in Item /\ GitHubOK' /\ RestOK'
    BY <1>3 DEF Merge, GitHubOK, RestOK, Item
  <2>2. NsqdOK' /\ WorkOK'
    BY <1>3, <2>1, SendOK DEF Merge, GitHubEvents
  <2> QED
    BY <2>1, <2>2 DEF TypeOK, GitHubOK, NsqdOK, WorkOK, RestOK
<1>4. CASE SetMilestone
  <2>1. GitHubOK'
    BY <1>4 DEF SetMilestone, GitHubOK, Item
  <2> QED
    BY <1>4, <2>1 DEF SetMilestone, nsqd, history, TypeOK, GitHubOK, Decoded, Work, Places
<1>5. CASE Release
  <2>1. GitHubOK'
    BY <1>5 DEF Release, GitHubOK
  <2> QED
    BY <1>5, <2>1 DEF Release, nsqd, history, TypeOK, GitHubOK, Decoded, Work, Places
<1> QED
  BY <1>1, <1>2, <1>3, <1>4, <1>5 DEF People

\* A message starts or is given up, a job starts.
LEMMA StartOK ==
    ASSUME TypeOK, Takes \/ (\E a \in DOMAIN actions : StartJob(a))
    PROVE  TypeOK'
<1> USE Parts
<1>1. ASSUME NEW id \in DOMAIN sent, Deliver(id)
      PROVE  TypeOK'
  <2>1. sent[id] \in Message /\ id \in Nat
    BY DEF NsqdOK
  <2> DEFINE r == Task("next", id, Triggered(sent[id]), sent[id].x)
  <2>2. r \in Work /\ r.id = id
    BY <2>1, TriggeredOK, TaskOK DEF Message, Pcs
  <2>3. work' = [work EXCEPT !["consumer"] = r]
    BY <1>1 DEF Deliver
  <2> HIDE DEF r
  <2>4. WorkOK'
    BY <1>1, <2>2, <2>3, SetOK DEF Deliver, Workers
  <2>5. NsqdOK'
    <3>1. attempts' \in Seq(0 .. MaxAttempts) /\ Len(attempts') = Len(attempts)
      <4>1. attempts[id] + 1 \in 0 .. MaxAttempts
        BY <1>1, BoundsAssumption DEF Deliver, NsqdOK
      <4>2. attempts' = [attempts EXCEPT ![id] = attempts[id] + 1] /\ id \in 1 .. Len(attempts)
        BY <1>1 DEF Deliver, NsqdOK
      <4> DEFINE S == 0 .. MaxAttempts
                 n == attempts[id] + 1
      <4>3. attempts \in Seq(S) /\ n \in S /\ attempts' = [attempts EXCEPT ![id] = n]
        BY <4>1, <4>2 DEF NsqdOK
      <4> HIDE DEF S, n
      <4>4. attempts' \in Seq(S) /\ Len(attempts') = Len(attempts)
        BY <4>2, <4>3, ExceptSeq
      <4> QED
        BY <4>4 DEF S
    <3> QED
      BY <1>1, <3>1 DEF Deliver, NsqdOK
  <2> QED
    BY <1>1, <2>4, <2>5 DEF Deliver, github, history, TypeOK, GitHubOK, NsqdOK, WorkOK, RestOK
<1>2. ASSUME NEW id \in DOMAIN sent, GiveUp(id)
      PROVE  TypeOK'
  <2>1. UNCHANGED <<github, actions, sent, attempts, process, work, faults, history>>
    BY <1>2 DEF GiveUp
  <2>2. NsqdOK'
    BY <1>2, <2>1 DEF GiveUp, NsqdOK
  <2>3. WorkOK'
    BY <2>1 DEF WorkOK, Work, Places, Decoded
  <2>4. GitHubOK' /\ RestOK'
    BY <2>1 DEF github, history, GitHubOK, RestOK
  <2> QED
    BY <2>2, <2>3, <2>4 DEF TypeOK, GitHubOK, NsqdOK, WorkOK, RestOK
<1>3. ASSUME NEW a \in DOMAIN actions, StartJob(a)
      PROVE  TypeOK'
  <2> DEFINE r == Task("next", 0, Places({a}, Payloads), item)
  <2>1. Places({a}, Payloads) \subseteq AllPlaces
    BY DEF AllPlaces, Places
  <2>2. r \in Work
    BY <2>1, TaskOK DEF GitHubOK, Pcs
  <2>3. work' = [work EXCEPT !["job"] = r]
    BY <1>3 DEF StartJob
  <2> HIDE DEF r
  <2>4. WorkOK'
    BY <1>3, <2>2, <2>3, SetOK DEF StartJob, nsqd, Workers
  <2>5. UNCHANGED <<github, nsqd, history, process>>
    BY <1>3 DEF StartJob
  <2>6. GitHubOK' /\ NsqdOK'
    BY <2>5 DEF github, nsqd, GitHubOK, NsqdOK
  <2>7. RestOK'
    BY <1>3, <2>5 DEF StartJob, history, RestOK
  <2> QED
    BY <2>4, <2>6, <2>7 DEF TypeOK, GitHubOK, NsqdOK, WorkOK, RestOK
<1> QED
  BY <1>1, <1>2, <1>3 DEF Takes

\* The labels an operation finds are labels.
LEMMA LabelsOK ==
    ASSUME TypeOK, NEW w \in Workers, work[w].todo # {}, NEW x \in Item
    PROVE  LabelsMatched(Op(w), x) \subseteq Label /\ VersionLabels(x) \subseteq Label
<1>1. LabelsMatched(Op(w), x) \subseteq Label
  BY Parts, OpOK DEF LabelsMatched
<1>2. ASSUME NEW s \in Server
      PROVE  LabelFromVersion(s) \in Label
  BY DEF LabelFromVersion, Label, Server
<1>3. UNION {b.server : b \in x.body} \subseteq Server
  BY DEF Item
<1> QED
  BY <1>1, <1>2, <1>3 DEF VersionLabels

\* What the server decides: no step of it changes GitHub or nsqd.
LEMMA DecideOK ==
    ASSUME TypeOK, Busy, NEW w \in Workers,
           Finish(w) \/ Skip(w) \/ GlobalFilters(w) \/ Filter(w) \/ Pick(w)
           \/ GetVersion(w) \/ ListMilestones(w)
    PROVE  TypeOK'
<1>a. GitHubOK /\ NsqdOK /\ WorkOK /\ RestOK
  BY Parts
<1>1. SUFFICES WorkOK'
  BY <1>a DEF Finish, Skip, GlobalFilters, Filter, Pick, GetVersion, ListMilestones, github, nsqd,
     history, TypeOK, GitHubOK, NsqdOK, WorkOK, RestOK
<1>2. UNCHANGED <<actions, sent>>
  BY DEF Finish, Skip, GlobalFilters, Filter, Pick, GetVersion, ListMilestones, nsqd
<1>3. CASE Finish(w)
  BY <1>a, <1>2, <1>3, IdleOK DEF Finish
<1>4. ASSUME Advance(w), work[w].pc # "idle"
      PROVE  WorkOK'
  BY <1>a, <1>2, <1>4, AdvanceOK
<1>5. ASSUME NEW r \in Work, r.id = work[w].id, work[w].pc # "idle",
             work' = [work EXCEPT ![w] = r]
      PROVE  WorkOK'
  BY <1>a, <1>2, <1>5, SetOK DEF WorkOK
<1>6. CASE Skip(w)
  BY <1>4, <1>6 DEF Skip, AtOperation
<1>7. CASE GlobalFilters(w)
  <2>1. work[w].pc = "next" /\ work[w].todo # {} /\ work[w] \in Work
    BY <1>a, <1>7 DEF GlobalFilters, Runs, AtOperation, WorkOK
  <2> DEFINE r == Task("filter", work[w].id, work[w].todo, InHand(w))
  <2>2. InHand(w) \in Item
    <3>1. Here(w)[3] \in Payloads /\ item \in Item /\ work[w].x \in Item
      BY <1>a, <2>1, OpOK DEF GitHubOK, Work
    <3>2. View(Here(w)[3]) \in Item
      BY <3>1, ListedOK
    <3> QED
      BY <3>1, <3>2 DEF InHand
  <2>3. r \in Work /\ r.id = work[w].id
    <3>1. work[w].id \in Nat /\ work[w].todo \subseteq AllPlaces
      BY <2>1 DEF Work, AllPlaces
    <3> QED
      BY <2>2, <3>1, TaskOK DEF Pcs
  <2>4. Advance(w) \/ work' = [work EXCEPT ![w] = r]
    BY <1>7 DEF GlobalFilters
  <2> HIDE DEF r
  <2>5. work[w].pc # "idle"
    BY <2>1
  <2> QED
    BY <2>3, <2>4, <2>5, <1>4, <1>5
<1>8. CASE Filter(w)
  <2>1. work[w].pc = "filter" /\ work[w] \in Work /\ work[w].pc # "idle" /\ work[w].todo # {}
    BY <1>a, <1>8 DEF Filter, WorkOK, Busy
  <2> DEFINE pc == CASE Op(w).type = "random-assign" -> "pick"
                     [] Op(w).type = "version-milestone" -> "version"
                     [] OTHER -> "label"
             labels == CASE Op(w).type = "label" -> LabelsMatched(Op(w), work[w].x)
                         [] Op(w).type = "version-label" -> VersionLabels(work[w].x)
                         [] OTHER -> {}
             r == [work[w] EXCEPT !.pc = pc, !.labels = labels]
  <2>2. pc \in Pcs
    BY DEF Pcs, Reads, Writes
  <2>3. labels \in SUBSET Label
    BY <2>1, LabelsOK DEF Work
  <2>4. Advance(w) \/ work' = [work EXCEPT ![w] = r]
    BY <1>8 DEF Filter
  <2> HIDE DEF pc, labels
  <2>5. r \in Work /\ r.id = work[w].id
    BY <2>1, <2>2, <2>3 DEF Work, Pcs
  <2> HIDE DEF r
  <2> QED
    BY <2>1, <2>4, <2>5, <1>4, <1>5
<1>9. CASE Pick(w)
  <2>1. work[w].pc = "pick" /\ work[w] \in Work /\ work[w].pc # "idle" /\ work[w].todo # {}
    BY <1>a, <1>9 DEF Pick, WorkOK, Busy
  <2>2. PICK u \in Candidates(w) : work' = [work EXCEPT ![w].pc = "assign", ![w].users = {u}]
    BY <1>9 DEF Pick
  <2> DEFINE one == {u}
             r == [work[w] EXCEPT !.pc = "assign", !.users = one]
  <2>3. one \in SUBSET STRING
    BY <1>a, <2>1, OpOK DEF Candidates
  <2>4. work' = [work EXCEPT ![w] = r]
    BY <2>2
  <2> HIDE DEF one
  <2>5. r \in Work /\ r.id = work[w].id
    BY <2>1, <2>3 DEF Work, Writes
  <2> HIDE DEF r
  <2> QED
    BY <2>1, <2>4, <2>5, <1>5
<1>10. CASE GetVersion(w)
  <2> DEFINE r == [work[w] EXCEPT !.pc = "milestone", !.version = version]
  <2>1. work[w].pc = "version" /\ work[w] \in Work /\ work[w].pc # "idle"
        /\ work' = [work EXCEPT ![w] = r]
    BY <1>a, <1>10 DEF GetVersion, WorkOK
  <2>2. r \in Work /\ r.id = work[w].id
    BY <1>a, <2>1 DEF Work, Reads, GitHubOK
  <2> HIDE DEF r
  <2> QED
    BY <2>1, <2>2, <1>5
<1>11. CASE ListMilestones(w)
  <2> DEFINE r == [work[w] EXCEPT !.pc = "set"]
  <2>1. /\ work[w].pc = "milestone" /\ work[w] \in Work /\ work[w].pc # "idle"
        /\ Advance(w) \/ work' = [work EXCEPT ![w] = r]
    BY <1>a, <1>11 DEF ListMilestones, WorkOK
  <2>2. r \in Work /\ r.id = work[w].id
    BY <2>1 DEF Work, Writes
  <2> HIDE DEF r
  <2> QED
    BY <2>1, <2>2, <1>4, <1>5
<1> QED
  BY <1>3, <1>6, <1>7, <1>8, <1>9, <1>10, <1>11

\* What a request does to the item.
LEMMA EffectOK ==
    ASSUME TypeOK, Busy, NEW w \in Workers, work[w].pc \in Writes, Effect(w)
    PROVE  item' \in Item /\ given' \in Given /\ assigned' \in [0 .. MaxEvents -> Nat]
<1>1. /\ item \in Item /\ work[w] \in Work /\ given \in Given /\ assigned \in [0 .. MaxEvents -> Nat]
      /\ work[w].users \subseteq STRING /\ work[w].labels \subseteq Label
      /\ work[w].version \in Nat
  BY DEF TypeOK, Work
<1>2. CASE work[w].pc = "assign"
  <2> DEFINE assignees == item.assignees \cup work[w].users
  <2>1. assignees \in SUBSET STRING /\ item' = [item EXCEPT !.assignees = assignees]
    BY <1>1, <1>2 DEF Effect, Item
  <2> HIDE DEF assignees
  <2>2. item' \in Item /\ given' \in Given
    <3>1. item' \in Item
      BY <1>1, <2>1 DEF Item
    <3>2. given' = given
      BY <1>2 DEF Effect
    <3> QED
      BY <1>1, <3>1, <3>2
  <2>3. assigned' = [assigned EXCEPT ![work[w].id] = assigned[work[w].id] + 1]
    BY <1>2 DEF Effect
  <2>4. assigned' \in [0 .. MaxEvents -> Nat]
    <3> DEFINE S == 0 .. MaxEvents
               i == work[w].id
               n == assigned[i] + 1
    <3>1. assigned \in [S -> Nat] /\ assigned' = [assigned EXCEPT ![i] = n] /\ (i \in S => n \in Nat)
      BY <1>1, <2>3
    <3> HIDE DEF S, i, n
    <3>2. assigned' \in [S -> Nat]
      BY <3>1
    <3> QED
      BY <3>2 DEF S
  <2> QED
    BY <2>2, <2>4
<1>3. CASE work[w].pc = "label"
  <2> DEFINE labels == item.labels \cup work[w].labels
  <2>1. labels \in SUBSET Label /\ item' = [item EXCEPT !.labels = labels]
    BY <1>1, <1>3 DEF Effect, Item
  <2> HIDE DEF labels
  <2> QED
    BY <1>1, <1>3, <2>1 DEF Effect, Item
<1>4. CASE work[w].pc = "set"
  <2>1. /\ item' = [item EXCEPT !.milestone = work[w].version]
        /\ given' = [milestone |-> work[w].version, brief |-> work[w].x.brief]
        /\ assigned' = assigned
    BY <1>4 DEF Effect
  <2>2. item' \in Item
    BY <1>1, <2>1 DEF Item
  <2>3. given' \in Given
    BY <1>1, <2>1 DEF Given, Work, Item
  <2> QED
    BY <1>1, <2>1, <2>2, <2>3
<1> QED
  BY <1>2, <1>3, <1>4 DEF Writes

\* A request succeeds, or an operation fails.
LEMMA RequestOK ==
    ASSUME TypeOK, Busy, NEW w \in Workers,
           Apply(w) \/ Misconfigured(w) \/ Panic(w) \/ Faults(w)
    PROVE  TypeOK'
<1>a. GitHubOK /\ NsqdOK /\ WorkOK /\ RestOK
  BY Parts
<1>1. CASE Apply(w)
  <2>1. work[w].pc # "idle" /\ UNCHANGED <<actions, sent, attempts, queue>>
    BY <1>1 DEF Apply, Writes, nsqd
  <2>2. WorkOK'
    BY <1>a, <1>1, <2>1, AdvanceOK DEF Apply
  <2>3. item' \in Item /\ given' \in Given /\ assigned' \in [0 .. MaxEvents -> Nat]
    BY <1>1, EffectOK DEF Apply
  <2>4. GitHubOK' /\ RestOK' /\ NsqdOK'
    BY <1>a, <1>1, <2>1, <2>3 DEF Apply, GitHubOK, RestOK, NsqdOK
  <2> QED
    BY <2>2, <2>4 DEF TypeOK, GitHubOK, NsqdOK, WorkOK, RestOK
<1>2. CASE Misconfigured(w)
  <2>1. work[w].pc # "idle" /\ UNCHANGED <<actions, sent, attempts>>
    BY <1>2 DEF Misconfigured, AtOperation
  <2>2. WorkOK' /\ NsqdOK'
    BY <1>a, <1>2, <2>1, ErrorOK DEF Misconfigured
  <2>3. GitHubOK' /\ RestOK'
    BY <1>a, <1>2 DEF Misconfigured, GitHubOK, RestOK, github, history
  <2> QED
    BY <2>2, <2>3 DEF TypeOK, GitHubOK, NsqdOK, WorkOK, RestOK
<1>3. CASE Panic(w)
  BY <1>3, DieOK DEF Panic
<1>4. CASE ContainsFails(w)
  <2>1. work[w].pc # "idle" /\ UNCHANGED <<actions, sent>>
    BY <1>4 DEF ContainsFails, Runs, AtOperation, nsqd
  <2>2. WorkOK'
    BY <1>a, <1>4, <2>1, AdvanceOK DEF ContainsFails
  <2>3. GitHubOK' /\ NsqdOK' /\ RestOK'
    BY <1>a, <1>4 DEF ContainsFails, GitHubOK, NsqdOK, RestOK, github, nsqd
  <2> QED
    BY <2>2, <2>3 DEF TypeOK, GitHubOK, NsqdOK, WorkOK, RestOK
<1>5. CASE GetErrorPage(w)
  <2> DEFINE r == [work[w] EXCEPT !.pc = "milestone", !.version = 0]
  <2>1. work[w].pc = "version" /\ work[w] \in Work /\ work' = [work EXCEPT ![w] = r]
        /\ UNCHANGED <<actions, sent>>
    BY <1>a, <1>5 DEF GetErrorPage, WorkOK, nsqd
  <2>2. r \in Work /\ r.id = work[w].id
    BY <2>1 DEF Work, Reads
  <2>3. w = "consumer" => work[w].id \in DOMAIN sent
    BY <1>a, <2>1 DEF WorkOK
  <2> HIDE DEF r
  <2>4. WorkOK'
    BY <1>a, <2>1, <2>2, <2>3, SetOK
  <2>5. GitHubOK' /\ NsqdOK' /\ RestOK'
    BY <1>a, <1>5 DEF GetErrorPage, GitHubOK, NsqdOK, RestOK, github, nsqd
  <2> QED
    BY <2>4, <2>5 DEF TypeOK, GitHubOK, NsqdOK, WorkOK, RestOK
<1>6. CASE Fail(w)
  <2>1. work[w].pc # "idle" /\ UNCHANGED <<actions, sent, attempts>>
    BY <1>6 DEF Fail, Writes, Reads, Lists, AtOperation
  <2>2. WorkOK' /\ NsqdOK'
    BY <1>a, <1>6, <2>1, ErrorOK DEF Fail
  <2>3. item' \in Item /\ given' \in Given /\ assigned' \in [0 .. MaxEvents -> Nat]
    BY <1>a, <1>6, EffectOK DEF Fail, GitHubOK, RestOK
  <2>4. GitHubOK' /\ RestOK'
    BY <1>a, <1>6, <2>3 DEF Fail, GitHubOK, RestOK
  <2> QED
    BY <2>2, <2>4 DEF TypeOK, GitHubOK, NsqdOK, WorkOK, RestOK
<1> QED
  BY <1>1, <1>2, <1>3, <1>4, <1>5, <1>6 DEF Faults

\* The process stops, ends and starts.
LEMMA ProcessOK == ASSUME TypeOK, Signal \/ Stopped \/ Exit \/ Restart PROVE TypeOK'
<1>1. CASE Stopped \/ Exit
  BY <1>1, DieOK DEF Stopped, Exit
<1>2. CASE Signal \/ Restart
  <2>1. UNCHANGED <<github, actions, nsqd, work, history>>
    BY <1>2 DEF Signal, Restart
  <2>2. WorkOK' /\ GitHubOK' /\ NsqdOK'
    BY <2>1, Parts DEF WorkOK, Work, Places, Decoded, GitHubOK, NsqdOK, github, nsqd
  <2>3. RestOK'
    BY <1>2, <2>1, Parts DEF Signal, Restart, RestOK, history
  <2> QED
    BY <2>2, <2>3 DEF TypeOK, GitHubOK, NsqdOK, WorkOK, RestOK
<1> QED
  BY <1>1, <1>2

\* Busy is preserved: what a worker has to do only changes between operations.
LEMMA BusyOK == ASSUME TypeOK, Busy, Next PROVE Busy'
<1>1. work \in [Workers -> Work]
  BY DEF TypeOK
<1>2. UNCHANGED work => Busy'
  BY DEF Busy
<1>3. ASSUME NEW w \in Workers, NEW pc \in {"idle", "next"}, NEW id, NEW todo, NEW x,
             work' = [work EXCEPT ![w] = Task(pc, id, todo, x)]
      PROVE  Busy'
  BY <1>1, <1>3 DEF Busy, Task
<1>4. ASSUME NEW w \in Workers, Advance(w) \/ work' = Idle(w)
      PROVE  Busy'
  BY <1>3, <1>4 DEF Advance, Idle, Free
<1>5. ASSUME Die
      PROVE  Busy'
  BY <1>5 DEF Die, Busy, Free, Task
<1>6. ASSUME NEW w \in Workers, work[w].todo # {}, NEW r, r.todo = work[w].todo,
             work' = [work EXCEPT ![w] = r]
      PROVE  Busy'
  BY <1>1, <1>6 DEF Busy
<1>7. CASE People \/ Signal \/ Restart
  BY <1>2, <1>7 DEF People, Comment, Push, Merge, SetMilestone, Release, Signal, Restart
<1>8. CASE Takes
  BY <1>2, <1>3, <1>8 DEF Takes, Deliver, GiveUp, Workers
<1>9. CASE \E a \in DOMAIN actions : StartJob(a)
  <2>1. PICK a \in DOMAIN actions : StartJob(a)
    BY <1>9
  <2>2. work' = [work EXCEPT !["job"] = Task("next", 0, Places({a}, Payloads), item)]
    BY <2>1 DEF StartJob
  <2> QED
    BY <1>3, <2>2 DEF Workers
<1>10. CASE Stopped \/ Exit
  BY <1>5, <1>10 DEF Stopped, Exit
<1>11. ASSUME NEW w \in Workers, Advances(w) \/ Faults(w)
       PROVE  Busy'
  <2>1. CASE Finish(w) \/ Misconfigured(w) \/ Skip(w) \/ Apply(w) \/ ContainsFails(w) \/ Fail(w)
    BY <1>4, <2>1 DEF Finish, Misconfigured, Skip, Apply, ContainsFails, Fail, ReturnError
  <2>2. CASE Panic(w)
    BY <1>5, <2>2 DEF Panic
  <2>3. CASE GlobalFilters(w)
    <3>1. work[w].todo # {}
      BY <2>3 DEF GlobalFilters, Runs, AtOperation
    <3> DEFINE r == Task("filter", work[w].id, work[w].todo, InHand(w))
    <3>2. Advance(w) \/ work' = [work EXCEPT ![w] = r]
      BY <2>3 DEF GlobalFilters
    <3>3. r.todo = work[w].todo
      BY DEF Task
    <3> HIDE DEF r
    <3> QED
      BY <1>4, <1>6, <3>1, <3>2, <3>3
  <2>4. CASE Filter(w)
    <3>1. work[w] \in Work /\ work[w].todo # {}
      BY <1>1, <2>4 DEF Filter, Busy
    <3> DEFINE next(pc, labels) == [work[w] EXCEPT !.pc = pc, !.labels = labels]
    <3>2. Advance(w) \/ \E pc, labels : work' = [work EXCEPT ![w] = next(pc, labels)]
      BY <2>4 DEF Filter
    <3>3. \A pc, labels : next(pc, labels).todo = work[w].todo
      BY <3>1 DEF Work
    <3> HIDE DEF next
    <3> QED
      BY <1>4, <1>6, <3>1, <3>2, <3>3
  <2>5. CASE Pick(w) \/ GetVersion(w) \/ GetErrorPage(w) \/ ListMilestones(w)
    <3>1. work[w] \in Work /\ work[w].todo # {}
      BY <1>1, <2>5 DEF Pick, GetVersion, GetErrorPage, ListMilestones, Busy
    <3> DEFINE picked(u) == [work[w] EXCEPT !.pc = "assign", !.users = {u}]
               read(n) == [work[w] EXCEPT !.pc = "milestone", !.version = n]
               found == [work[w] EXCEPT !.pc = "set"]
    <3>2. \/ Advance(w)
          \/ \E u : work' = [work EXCEPT ![w] = picked(u)]
          \/ \E n : work' = [work EXCEPT ![w] = read(n)]
          \/ work' = [work EXCEPT ![w] = found]
      BY <2>5 DEF Pick, GetVersion, GetErrorPage, ListMilestones
    <3>3. /\ \A u : picked(u).todo = work[w].todo
          /\ \A n : read(n).todo = work[w].todo
          /\ found.todo = work[w].todo
      BY <3>1 DEF Work
    <3> HIDE DEF picked, read, found
    <3> QED
      BY <1>4, <1>6, <3>1, <3>2, <3>3
  <2> QED
    BY <1>11, <2>1, <2>2, <2>3, <2>4, <2>5 DEF Advances, Faults
<1> QED
  BY <1>7, <1>8, <1>9, <1>10, <1>11 DEF Next

\* Every step keeps the types.
LEMMA NextOK == ASSUME TypeOK, Busy, [Next]_vars PROVE TypeOK' /\ Busy'
<1>1. CASE Next
  <2>1. TypeOK'
    BY <1>1, PeopleOK, StartOK, DecideOK, RequestOK, ProcessOK DEF Next, Advances
  <2> QED
    BY <1>1, <2>1, BusyOK
<1>2. CASE UNCHANGED vars
  <2>1. UNCHANGED <<github, actions, nsqd, process, work, faults, history>>
    BY <1>2 DEF vars
  <2>2. GitHubOK' /\ NsqdOK' /\ RestOK'
    BY <2>1, Parts DEF GitHubOK, NsqdOK, RestOK, github, nsqd, history
  <2>3. WorkOK' /\ Busy'
    BY <2>1, Parts DEF WorkOK, Work, Places, Decoded, Busy, nsqd
  <2> QED
    BY <2>2, <2>3 DEF TypeOK, GitHubOK, NsqdOK, WorkOK, RestOK
<1> QED
  BY <1>1, <1>2

(***************************************************************************)
(* The state has its types whatever the items and the configurations are:  *)
(* no event reaches a handler more than MaxAttempts times (nsq.go:33), the *)
(* consumer has a real event in hand, and every operation that a worker    *)
(* comes to is one of the configuration (action.go:15-68).                 *)
(***************************************************************************)
THEOREM TypeCorrect == Spec => []TypeOK
<1>1. Init => TypeOK /\ Busy
  <2>1. Free.pc = "idle"
    BY DEF Free, Task
  <2>2. Init => work = [w \in Workers |-> Free]
    BY DEF Init
  <2> QED
    BY <2>1, <2>2, InitOK DEF Busy
<1>2. TypeOK /\ Busy /\ [Next]_vars => (TypeOK /\ Busy)'
  BY NextOK
<1> QED
  BY <1>1, <1>2, PTL DEF Spec

-----------------------------------------------------------------------------
\* What leaves a listing out is "is", and "is" rejects what it would show.
LEMMA SkipSound == ASSUME item \in Item PROVE SkipIsSound
<1> SUFFICES ASSUME NEW a \in DOMAIN actions, NEW k \in DOMAIN actions[a].operations,
                    NEW payload \in Payloads,
                    payload \in Accepts(actions[a].operations[k].type),
                    ~Includes(actions[a].operations[k], payload)
             PROVE  ~FiltersApply(actions[a].operations[k].filters, View(payload), item.said)
  BY DEF SkipIsSound
<1> DEFINE filters == actions[a].operations[k].filters
<1>1. View(payload).payload = payload
  BY ListedOK
<1>2. CASE payload = "issue"
  <2>1. "is" \in DOMAIN filters /\ filters["is"] = "pr"
    BY <1>2 DEF Includes, FilterIncludesIssues
  <2>2. ~ApplyIssue("is", filters["is"], View(payload), item.said)
    BY <2>1 DEF ApplyIssue, IssuePasses
  <2> QED
    BY <1>1, <1>2, <2>1, <2>2 DEF FiltersApply, Evaluable
<1>3. CASE payload = "pr"
  <2>1. "is" \in DOMAIN filters /\ filters["is"] = "issue"
    BY <1>3 DEF Includes, FilterIncludesPullRequests
  <2>2. ~ApplyPullRequest("is", filters["is"], View(payload), item.said)
    BY <2>1 DEF ApplyPullRequest, PullRequestPasses
  <2> QED
    BY <1>1, <1>3, <2>1, <2>2 DEF FiltersApply, Evaluable
<1> QED
  BY <1>2, <1>3 DEF Payloads

(***************************************************************************)
(* For every configuration and every filter, a listing is only left out    *)
(* (runner.go:67-73) when the filters would reject each item it can show:  *)
(* FilterIncludesIssues and FilterIncludesPullRequests of filtering.go     *)
(* agree with ApplyIssue and ApplyPullRequest.                             *)
(***************************************************************************)
THEOREM SkipCorrect == Spec => []SkipIsSound
<1>1. TypeOK => SkipIsSound
  BY SkipSound DEF TypeOK
<1> QED
  BY <1>1, TypeCorrect, PTL

-----------------------------------------------------------------------------
(***************************************************************************)
(* Who knows of the merge: what is known about the past, and what a worker *)
(* with local variables r knows of a past with these values.               *)
(***************************************************************************)
Past ==
    /\ 0 \notin milestones
    /\ given.milestone # 0 => given.brief \/ (item.merged /\ given.milestone >= mergedAt)
    /\ item.merged => mergedAt <= version
    /\ \A id \in DOMAIN sent : sent[id].x.merged => item.merged
Knows(r, merged, at) ==
    /\ r.x.merged => merged
    /\ r.pc \in {"version", "milestone", "set"} => r.x.brief \/ merged
    /\ r.pc = "milestone" => r.x.brief \/ r.version = 0 \/ r.version >= at
    /\ r.pc = "set" => r.x.brief \/ r.version >= at
Timely == Past /\ \A w \in Workers : Knows(work[w], item.merged, mergedAt)

\* A worker between operations knows what its view of the item tells.
LEMMA KnowsTask ==
    ASSUME NEW pc \in {"idle", "next", "filter"}, NEW id, NEW todo, NEW x, NEW merged, NEW at,
           x.merged => merged
    PROVE  Knows(Task(pc, id, todo, x), merged, at)
BY DEF Knows, Task

\* Past is about the item, the versions and the events.
LEMMA PastSame ==
    ASSUME Past, UNCHANGED <<version, milestones, sent, mergedAt, given>>,
           item'.merged = item.merged
    PROVE  Past'
BY DEF Past

\* One worker moves on, knowing enough.
LEMMA KnowsSet ==
    ASSUME TypeOK, Timely, Past', item'.merged = item.merged, mergedAt' = mergedAt,
           NEW w \in Workers, NEW r, Knows(r, item.merged, mergedAt),
           work' = [work EXCEPT ![w] = r]
    PROVE  Timely'
<1>1. \A v \in Workers : work'[v] = r \/ work'[v] = work[v]
  BY DEF TypeOK
<1> QED
  BY <1>1 DEF Timely

\* Nothing but the view survives the end of an operation or of a task.
LEMMA KnowsEnd ==
    ASSUME TypeOK, Timely, Past', item'.merged = item.merged, mergedAt' = mergedAt,
           NEW w \in Workers, Advance(w) \/ work' = Idle(w)
    PROVE  Timely'
<1>1. work[w].x.merged => item.merged
  BY DEF Timely, Knows
<1>2. sent[1].x.merged => item.merged
  <2>1. 1 \in DOMAIN sent
    BY DEF TypeOK
  <2> QED
    BY <2>1 DEF Timely, Past
<1>3. CASE Advance(w)
  <2> DEFINE r == Task("next", work[w].id, work[w].todo \ {Here(w)}, work[w].x)
  <2>1. work' = [work EXCEPT ![w] = r]
    BY <1>3 DEF Advance
  <2>2. Knows(r, item.merged, mergedAt)
    BY <1>1, KnowsTask
  <2> HIDE DEF r
  <2> QED
    BY <2>1, <2>2, KnowsSet
<1>4. CASE work' = Idle(w)
  <2>1. Knows(Free, item.merged, mergedAt)
    BY <1>2, KnowsTask DEF Free
  <2> QED
    BY <1>4, <2>1, KnowsSet DEF Idle
<1> QED
  BY <1>3, <1>4

\* When the process ends, the workers know nothing but the first event.
LEMMA KnowsDie == ASSUME TypeOK, Timely, Die PROVE Timely'
<1>1. UNCHANGED <<item, version, milestones, sent, mergedAt, given>>
  BY DEF Die, github, history
<1>2. Past'
  BY <1>1, PastSame DEF Timely
<1>3. Knows(Free, item.merged, mergedAt)
  <2>1. 1 \in DOMAIN sent
    BY DEF TypeOK
  <2>2. sent[1].x.merged => item.merged
    BY <2>1 DEF Timely, Past
  <2> QED
    BY <2>2, KnowsTask DEF Free
<1>4. \A v \in Workers : work'[v] = Free
  BY DEF Die
<1> QED
  BY <1>1, <1>2, <1>3, <1>4 DEF Timely

\* An event shows no merge that has not happened.
LEMMA SendTimely ==
    ASSUME TypeOK, Timely, NEW event \in GitHubEvents,
           NEW action \in {"opened", "created", "closed", "none"}, item' \in Item,
           Send(event, action, item'), item.merged => item'.merged
    PROVE  \A id \in DOMAIN sent' : sent'[id].x.merged => item'.merged
<1> DEFINE e == Event(event, action, item')
<1>1. e \in Message /\ e.x.merged = item'.merged
  BY EventOK
<1>2. sent \in Seq(Message) /\ sent' = Append(sent, e)
  BY DEF TypeOK, Send
<1> HIDE DEF e
<1>3. /\ DOMAIN sent' = 1 .. Len(sent) + 1
      /\ \A id \in 1 .. Len(sent) : sent'[id] = sent[id]
      /\ sent'[Len(sent) + 1] = e
      /\ DOMAIN sent = 1 .. Len(sent) /\ Len(sent) \in Nat
  BY <1>1, <1>2, AppendProperties
<1>4. \A id \in 1 .. Len(sent) : sent[id].x.merged => item.merged
  BY <1>3 DEF Timely, Past
<1> SUFFICES ASSUME NEW id \in 1 .. Len(sent) + 1 PROVE sent'[id].x.merged => item'.merged
  BY <1>3
<1>5. id \in 1 .. Len(sent) \/ id = Len(sent) + 1
  BY <1>3
<1> QED
  BY <1>1, <1>3, <1>4, <1>5

\* What people do: only a merge changes what there is to know.
LEMMA PeopleTimely == ASSUME TypeOK, Timely, People PROVE Timely'
<1>a. item \in Item /\ version \in Nat /\ mergedAt \in Nat /\ given \in Given /\ milestones \subseteq Nat
  BY DEF TypeOK
<1>b. Past /\ \A w \in Workers : Knows(work[w], item.merged, mergedAt)
  BY DEF Timely
<1>1. ASSUME NEW word \in Words, NEW event \in {"issue_comment", "pull_request_review_comment"},
             Comment(event, word)
      PROVE  Timely'
  <2>1. /\ item'.merged = item.merged
        /\ UNCHANGED <<version, milestones, work, mergedAt, given>>
    BY <1>a, <1>1 DEF Comment, Item, history
  <2>2. item' \in Item
    BY PeopleOK DEF TypeOK
  <2>3. \A id \in DOMAIN sent' : sent'[id].x.merged => item'.merged
    BY <1>1, <2>1, <2>2, SendTimely DEF Comment, GitHubEvents
  <2> QED
    BY <1>b, <2>1, <2>3 DEF Timely, Past
<1>2. CASE Push
  <2>1. UNCHANGED <<item, version, milestones, work, mergedAt, given>>
    BY <1>2 DEF Push, github, history
  <2>2. \A id \in DOMAIN sent' : sent'[id].x.merged => item'.merged
    BY <1>a, <1>2, <2>1, SendTimely DEF Push, GitHubEvents
  <2> QED
    BY <1>b, <2>1, <2>2 DEF Timely, Past
<1>3. CASE Merge
  <2>1. /\ item' = [item EXCEPT !.merged = TRUE] /\ mergedAt' = version /\ ~item.merged
        /\ UNCHANGED <<version, milestones, work, given>>
    BY <1>3 DEF Merge
  <2>2. item'.merged /\ item' \in Item
    BY <1>a, <2>1 DEF Item
  <2>3. Past'
    BY <1>a, <1>b, <2>1, <2>2 DEF Past
  <2>4. \A w \in Workers : Knows(work[w], item'.merged, mergedAt')
    BY <1>b, <2>1, <2>2 DEF Knows
  <2> QED
    BY <2>1, <2>3, <2>4 DEF Timely
<1>4. CASE SetMilestone
  <2>1. /\ item'.merged = item.merged
        /\ UNCHANGED <<version, milestones, sent, work, mergedAt, given>>
    BY <1>a, <1>4 DEF SetMilestone, Item, nsqd, history
  <2> QED
    BY <1>b, <2>1, PastSame DEF Timely
<1>5. CASE Release
  <2>1. /\ version' = version + 1 /\ 0 \notin milestones'
        /\ UNCHANGED <<item, sent, work, mergedAt, given>>
    BY <1>a, <1>b, <1>5 DEF Release, nsqd, history, Past
  <2>2. Past'
    BY <1>a, <1>b, <2>1 DEF Past
  <2> QED
    BY <1>b, <2>1, <2>2 DEF Timely
<1> QED
  BY <1>1, <1>2, <1>3, <1>4, <1>5 DEF People

\* A worker that starts sees what the event or GitHub shows.
LEMMA StartTimely ==
    ASSUME TypeOK, Timely, Takes \/ (\E a \in DOMAIN actions : StartJob(a))
    PROVE  Timely'
<1>1. ASSUME NEW id \in DOMAIN sent, Deliver(id)
      PROVE  Timely'
  <2> DEFINE r == Task("next", id, Triggered(sent[id]), sent[id].x)
  <2>1. UNCHANGED <<item, version, milestones, sent, mergedAt, given>>
        /\ work' = [work EXCEPT !["consumer"] = r]
    BY <1>1 DEF Deliver, github, history
  <2>2. Knows(r, item.merged, mergedAt)
    BY KnowsTask DEF Timely, Past
  <2>3. Past'
    BY <2>1, PastSame DEF Timely
  <2> HIDE DEF r
  <2> QED
    BY <2>1, <2>2, <2>3, KnowsSet DEF Workers
<1>2. ASSUME NEW id \in DOMAIN sent, GiveUp(id)
      PROVE  Timely'
  <2>1. UNCHANGED <<item, version, milestones, sent, work, mergedAt, given>>
    BY <1>2 DEF GiveUp, github, history
  <2> QED
    BY <2>1, PastSame DEF Timely
<1>3. ASSUME NEW a \in DOMAIN actions, StartJob(a)
      PROVE  Timely'
  <2> DEFINE r == Task("next", 0, Places({a}, Payloads), item)
  <2>1. UNCHANGED <<item, version, milestones, sent, mergedAt, given>>
        /\ work' = [work EXCEPT !["job"] = r]
    BY <1>3 DEF StartJob, github, nsqd, history
  <2>2. Knows(r, item.merged, mergedAt)
    BY KnowsTask
  <2>3. Past'
    BY <2>1, PastSame DEF Timely
  <2> HIDE DEF r
  <2> QED
    BY <2>1, <2>2, <2>3, KnowsSet DEF Workers
<1> QED
  BY <1>1, <1>2, <1>3 DEF Takes

\* A worker that decides: it learns of the merge from its view of the item.
LEMMA DecideTimely ==
    ASSUME TypeOK, Busy, Timely, NEW w \in Workers,
           GlobalFilters(w) \/ Filter(w) \/ Pick(w)
    PROVE  Timely'
<1>1. UNCHANGED <<item, version, milestones, sent, mergedAt, given>>
  BY DEF GlobalFilters, Filter, Pick, github, nsqd, history
<1>2. Past' /\ work[w] \in Work /\ item \in Item /\ Knows(work[w], item.merged, mergedAt)
  BY <1>1, PastSame DEF Timely, TypeOK
<1>3. Advance(w) => Timely'
  BY <1>1, <1>2, KnowsEnd
<1>4. ASSUME NEW r, Knows(r, item.merged, mergedAt), work' = [work EXCEPT ![w] = r]
      PROVE  Timely'
  BY <1>1, <1>2, <1>4, KnowsSet
<1>5. CASE GlobalFilters(w)
  <2> DEFINE r == Task("filter", work[w].id, work[w].todo, InHand(w))
  <2>1. Advance(w) \/ work' = [work EXCEPT ![w] = r]
    BY <1>5 DEF GlobalFilters
  <2>2. InHand(w).merged => item.merged
    <3>1. work[w].todo # {} /\ WorkOK
      BY <1>5, Parts DEF GlobalFilters, Runs, AtOperation
    <3>2. View(Here(w)[3]).merged = item.merged
      BY <1>2, <3>1, OpOK, ListedOK
    <3> QED
      BY <1>2, <3>2 DEF InHand, Knows
  <2>3. Knows(r, item.merged, mergedAt)
    BY <2>2, KnowsTask
  <2> HIDE DEF r
  <2> QED
    BY <1>3, <1>4, <2>1, <2>3
<1>6. CASE Filter(w)
  <2> DEFINE pc == CASE Op(w).type = "random-assign" -> "pick"
                     [] Op(w).type = "version-milestone" -> "version"
                     [] OTHER -> "label"
             r(labels) == [work[w] EXCEPT !.pc = pc, !.labels = labels]
  <2>1. Advance(w) \/ (OperationAccepts(Op(w), work[w].x)
                       /\ \E labels : work' = [work EXCEPT ![w] = r(labels)])
    BY <1>6 DEF Filter
  <2>2. ASSUME OperationAccepts(Op(w), work[w].x), NEW labels
        PROVE  Knows(r(labels), item.merged, mergedAt)
    <3>1. r(labels).x = work[w].x /\ r(labels).pc = pc
      BY <1>2 DEF Work
    <3>2. pc = "version" => work[w].x.merged \/ work[w].x.brief
      BY <2>2 DEF OperationAccepts, MilestoneAccepts
    <3>3. pc \notin {"milestone", "set"}
      OBVIOUS
    <3> HIDE DEF pc, r
    <3> QED
      BY <1>2, <3>1, <3>2, <3>3 DEF Knows
  <2> HIDE DEF r
  <2> QED
    BY <1>3, <1>4, <2>1, <2>2
<1>7. CASE Pick(w)
  <2> DEFINE r(u) == [work[w] EXCEPT !.pc = "assign", !.users = {u}]
  <2>1. \E u : work' = [work EXCEPT ![w] = r(u)]
    BY <1>7 DEF Pick
  <2>2. \A u : Knows(r(u), item.merged, mergedAt)
    BY <1>2 DEF Knows, Work
  <2> HIDE DEF r
  <2> QED
    BY <1>4, <2>1, <2>2
<1> QED
  BY <1>5, <1>6, <1>7

\* A worker that reads: the version is that of now, and 0 is no milestone.
LEMMA ReadTimely ==
    ASSUME TypeOK, Timely, NEW w \in Workers,
           GetVersion(w) \/ GetErrorPage(w) \/ ListMilestones(w)
    PROVE  Timely'
<1>1. UNCHANGED <<item, version, milestones, sent, mergedAt, given>>
  BY DEF GetVersion, GetErrorPage, ListMilestones, github, nsqd, history
<1>2. /\ Past' /\ Past /\ work[w] \in Work /\ Knows(work[w], item.merged, mergedAt)
      /\ version \in Nat /\ mergedAt \in Nat
  BY <1>1, PastSame DEF Timely, TypeOK
<1>3. ASSUME NEW r, Knows(r, item.merged, mergedAt), work' = [work EXCEPT ![w] = r]
      PROVE  Timely'
  BY <1>1, <1>2, <1>3, KnowsSet
<1>4. CASE GetVersion(w) \/ GetErrorPage(w)
  <2> DEFINE r(n) == [work[w] EXCEPT !.pc = "milestone", !.version = n]
  <2>1. work[w].pc = "version" /\ \E n \in {0, version} : work' = [work EXCEPT ![w] = r(n)]
    BY <1>4 DEF GetVersion, GetErrorPage
  <2>2. work[w].x.brief \/ (item.merged /\ version >= mergedAt)
    BY <1>2, <2>1 DEF Knows, Past
  <2>3. \A n \in {0, version} : Knows(r(n), item.merged, mergedAt)
    BY <1>2, <2>2 DEF Knows, Work
  <2> HIDE DEF r
  <2> QED
    BY <1>3, <2>1, <2>3
<1>5. CASE ListMilestones(w)
  <2> DEFINE r == [work[w] EXCEPT !.pc = "set"]
  <2>1. /\ work[w].pc = "milestone"
        /\ Advance(w) \/ (work[w].version \in milestones /\ work' = [work EXCEPT ![w] = r])
    BY <1>5 DEF ListMilestones
  <2>2. work[w].version \in milestones => Knows(r, item.merged, mergedAt)
    BY <1>2, <2>1 DEF Knows, Work, Past
  <2> HIDE DEF r
  <2> QED
    BY <1>1, <1>2, <1>3, <2>1, <2>2, KnowsEnd
<1> QED
  BY <1>4, <1>5

\* A request: the milestone that is set is one of after the merge.
LEMMA RequestTimely ==
    ASSUME TypeOK, Timely, NEW w \in Workers,
           Finish(w) \/ Misconfigured(w) \/ Skip(w) \/ Panic(w) \/ Apply(w)
           \/ ContainsFails(w) \/ Fail(w)
    PROVE  Timely'
<1>1. CASE Panic(w)
  BY <1>1, KnowsDie DEF Panic
<1>2. CASE ~Panic(w)
  <2>1. UNCHANGED <<version, milestones, sent, mergedAt>> /\ (Advance(w) \/ work' = Idle(w))
    BY <1>2 DEF Finish, Misconfigured, Skip, Apply, ContainsFails, Fail, ReturnError,
       github, nsqd, history
  <2>2. UNCHANGED <<item, given>> \/ (work[w].pc \in Writes /\ Effect(w))
    BY <1>2 DEF Finish, Misconfigured, Skip, Apply, ContainsFails, Fail, github, history
  <2>3. item'.merged = item.merged
    BY <2>2 DEF Effect, Writes, TypeOK, Item
  <2>4. Past'
    <3>1. CASE UNCHANGED given
      BY <2>1, <2>3, <3>1, PastSame DEF Timely
    <3>2. CASE /\ work[w].pc = "set"
                /\ given' = [milestone |-> work[w].version, brief |-> work[w].x.brief]
      BY <2>1, <2>3, <3>2 DEF Timely, Past, Knows
    <3> QED
      BY <2>2, <3>1, <3>2 DEF Effect
  <2> QED
    BY <2>1, <2>3, <2>4, KnowsEnd
<1> QED
  BY <1>1, <1>2

\* Every step keeps what is known of the merge.
LEMMA NextTimely == ASSUME TypeOK, Busy, Timely, [Next]_vars PROVE Timely'
<1>1. CASE UNCHANGED vars \/ Signal \/ Restart
  <2>1. UNCHANGED <<item, version, milestones, sent, work, mergedAt, given>>
    BY <1>1 DEF vars, Signal, Restart, github, nsqd, history
  <2> QED
    BY <2>1, PastSame DEF Timely
<1>2. CASE Stopped \/ Exit
  BY <1>2, KnowsDie DEF Stopped, Exit
<1>3. ASSUME NEW w \in Workers, Advances(w) \/ Faults(w)
      PROVE  Timely'
  BY <1>3, DecideTimely, ReadTimely, RequestTimely DEF Advances, Faults
<1> QED
  BY <1>1, <1>2, <1>3, PeopleTimely, StartTimely DEF Next

(***************************************************************************)
(* For any number of events, redeliveries, releases and jobs: except for   *)
(* events of reviews, which do not say if the item is merged, the server   *)
(* gives no milestone to an item that is not merged, and none that was     *)
(* over when it was merged (version-milestone.go:58-103).                  *)
(***************************************************************************)
THEOREM NeverBackdated == Spec => []NotBackdated
<1>1. Init => TypeOK /\ Busy /\ Timely
  <2> SUFFICES ASSUME Init PROVE TypeOK /\ Busy /\ Timely
    OBVIOUS
  <2>1. Free.pc = "idle" /\ Free.x = sent[1].x /\ work = [w \in Workers |-> Free]
    BY DEF Free, Task, Init
  <2>2. TypeOK /\ Busy
    BY <2>1, InitOK DEF Busy
  <2>3. 0 \notin milestones /\ ~item.merged /\ given.milestone = 0 /\ item \in Item
    BY StartingPointsAssumption DEF Init
  <2>4. ~sent[1].x.merged /\ DOMAIN sent = {1}
    <3> DEFINE e == Event(IF item.payload = "pr" THEN "pull_request" ELSE "issues", "opened", item)
    <3>1. ~e.x.merged
      BY <2>3, EventOK DEF GitHubEvents
    <3>2. sent = <<e>>
      BY DEF Init
    <3> HIDE DEF e
    <3> QED
      BY <3>1, <3>2
  <2>5. Past
    BY <2>3, <2>4 DEF Past
  <2>6. Knows(Free, item.merged, mergedAt)
    BY <2>1, <2>4 DEF Knows
  <2> QED
    BY <2>1, <2>2, <2>5, <2>6 DEF Timely
<1>2. TypeOK /\ Busy /\ Timely /\ [Next]_vars => (TypeOK /\ Busy /\ Timely)'
  BY NextOK, NextTimely
<1>3. Timely => NotBackdated
  BY DEF Timely, Past, NotBackdated
<1> QED
  BY <1>1, <1>2, <1>3, PTL DEF Spec

-----------------------------------------------------------------------------
Mapped == <<Due, Waiting, Hand, Left>>

\* What is due depends on the events and the configuration only.
LEMMA DueSame == ASSUME UNCHANGED <<actions, sent>> PROVE Due' = Due
<1>1. \A id \in DOMAIN sent : Triggered(sent[id])' = Triggered(sent[id])
  BY DEF Triggered, Places
<1> QED
  BY <1>1 DEF Due

\* A step that leaves nsqd alone and the consumer at the same place stutters.
LEMMA SamePlace ==
    ASSUME UNCHANGED <<actions, nsqd>>, work'["consumer"].pc = "idle" <=> work["consumer"].pc = "idle",
           work["consumer"].pc # "idle" =>
              /\ work'["consumer"].id = work["consumer"].id
              /\ work'["consumer"].todo = work["consumer"].todo
    PROVE  UNCHANGED Mapped
<1>1. Due' = Due
  BY DueSame DEF nsqd
<1>2. Waiting' = Waiting
  BY DEF Waiting, Tries, nsqd
<1>3. Hand' = Hand /\ Left' = Left
  BY DEF Hand, Left, Tries, nsqd
<1> QED
  BY <1>1, <1>2, <1>3 DEF Mapped

\* What a job does is nothing to the topic.
LEMMA JobStutters ==
    ASSUME TypeOK, UNCHANGED <<actions, nsqd>>,
           \E r : work' = [work EXCEPT !["job"] = r]
    PROVE  UNCHANGED Mapped
<1>1. work'["consumer"] = work["consumer"]
  BY DEF TypeOK, Workers
<1> QED
  BY <1>1, SamePlace

\* The consumer is done with an operation.
LEMMA AdvancePerforms ==
    ASSUME TypeOK, Advance("consumer"), UNCHANGED <<actions, nsqd>>,
           work["consumer"].pc # "idle", work["consumer"].todo # {}
    PROVE  Topic!Perform
<1>1. Here("consumer") \in work["consumer"].todo
  BY HereOK DEF TypeOK, Work, AllPlaces, Workers
<1>2. /\ work'["consumer"].pc = "next" /\ work'["consumer"].id = work["consumer"].id
      /\ work'["consumer"].todo = work["consumer"].todo \ {Here("consumer")}
  BY DEF Advance, Task, TypeOK, Workers
<1>3. Left' = Left \ {Here("consumer")} /\ Here("consumer") \in Left
  BY <1>1, <1>2 DEF Left
<1>4. Waiting' = Waiting /\ Hand' = Hand /\ Due' = Due
  BY <1>2, DueSame DEF Waiting, Hand, Tries, nsqd
<1> QED
  BY <1>3, <1>4 DEF Topic!Perform

\* The consumer becomes idle, and what it had in hand is queued again.
LEMMA BackInQueue ==
    ASSUME TypeOK, UNCHANGED <<actions, sent, attempts>>, work["consumer"].pc # "idle",
           work'["consumer"].pc = "idle", queue' = queue \cup {work["consumer"].id}
    PROVE  Topic!PutBack
<1>1. Waiting' = Waiting \cup Hand /\ Hand # {} /\ Hand' = {} /\ Left' = {} /\ Due' = Due
  BY DueSame DEF Waiting, Hand, Left, Tries
<1> QED
  BY <1>1 DEF Topic!PutBack

\* The end of the process.
LEMMA DieDelivers == ASSUME TypeOK, Die PROVE Topic!PutBack \/ UNCHANGED Mapped
<1>1. work'["consumer"].pc = "idle"
  BY DEF Die, Free, Task, Workers
<1>2. CASE work["consumer"].pc = "idle"
  <2>1. UNCHANGED <<actions, nsqd>>
    BY <1>2 DEF Die, nsqd
  <2> QED
    BY <1>1, <1>2, <2>1, SamePlace
<1>3. CASE work["consumer"].pc # "idle"
  BY <1>1, <1>3, BackInQueue DEF Die
<1> QED
  BY <1>2, <1>3

\* An operation of a worker returns an error.
LEMMA ErrorDelivers ==
    ASSUME TypeOK, NEW w \in Workers, ReturnError(w), work[w].pc # "idle",
           UNCHANGED <<actions, sent, attempts>>
    PROVE  Topic!PutBack \/ UNCHANGED Mapped
<1>1. CASE w = "consumer"
  <2>1. work'["consumer"].pc = "idle"
    BY <1>1 DEF ReturnError, Idle, Free, Task, TypeOK, Workers
  <2> QED
    BY <1>1, <2>1, BackInQueue DEF ReturnError
<1>2. CASE w = "job"
  BY <1>2, JobStutters DEF ReturnError, Idle, nsqd
<1> QED
  BY <1>1, <1>2 DEF Workers

\* An event is sent.
LEMMA SendPosts ==
    ASSUME TypeOK, NEW event \in GitHubEvents,
           NEW action \in {"opened", "created", "closed", "none"}, NEW it \in Item,
           Send(event, action, it), UNCHANGED <<actions, work>>
    PROVE  \E id \in DOMAIN Due' : Topic!Post(id)
<1> DEFINE e == Event(event, action, it)
           n == Len(sent) + 1
<1>1. /\ sent \in Seq(Message) /\ attempts \in Seq(0 .. MaxAttempts)
      /\ Len(attempts) = Len(sent) /\ Len(sent) \in Nat /\ DOMAIN sent = 1 .. Len(sent)
      /\ queue \subseteq 1 .. Len(sent)
  BY DEF TypeOK
<1>2. /\ sent' = Append(sent, e) /\ attempts' = Append(attempts, 0)
      /\ queue' = queue \cup {n} /\ e \in Message
  BY EventOK DEF Send
<1> HIDE DEF e
<1>3. /\ DOMAIN sent' = DOMAIN sent \cup {n} /\ n \notin DOMAIN sent
      /\ \A i \in DOMAIN sent : sent'[i] = sent[i] /\ attempts'[i] = attempts[i]
      /\ attempts'[n] = 0
  <2> DEFINE S == 0 .. MaxAttempts
  <2>1. attempts \in Seq(S) /\ 0 \in S
    BY <1>1, BoundsAssumption
  <2> HIDE DEF S
  <2>2. /\ Append(attempts, 0)[n] = 0
        /\ \A i \in 1 .. Len(sent) : Append(attempts, 0)[i] = attempts[i]
    BY <1>1, <2>1, AppendProperties
  <2>3. /\ DOMAIN sent' = 1 .. n /\ n \in Nat
        /\ \A i \in 1 .. Len(sent) : sent'[i] = sent[i]
    BY <1>1, <1>2, AppendProperties
  <2>4. 1 .. n = DOMAIN sent \cup {n} /\ n \notin DOMAIN sent
    BY <1>1
  <2>5. /\ \A i \in DOMAIN sent : sent'[i] = sent[i]
        /\ \A i \in DOMAIN sent : attempts'[i] = attempts[i]
        /\ attempts'[n] = 0
    BY <1>1, <1>2, <2>2, <2>3
  <2>6. DOMAIN sent' = DOMAIN sent \cup {n}
    BY <2>3, <2>4
  <2> HIDE DEF n
  <2> QED
    BY <2>4, <2>5, <2>6
<1>4. ASSUME NEW i \in DOMAIN sent
      PROVE  Triggered(sent[i])' = Triggered(sent[i])
  <2>1. sent'[i] = sent[i] /\ actions' = actions
    BY <1>3
  <2> QED
    BY <2>1 DEF Triggered, Places
<1>5. /\ DOMAIN Due' = DOMAIN Due \cup {n} /\ n \notin DOMAIN Due
      /\ \A i \in DOMAIN Due : Due'[i] = Due[i]
  BY <1>3, <1>4 DEF Due
<1>6. Waiting' = Waiting \cup {Topic!New(n)}
  BY <1>1, <1>2, <1>3 DEF Waiting, Tries, Topic!New
<1>7. Hand' = Hand /\ Left' = Left
  BY <1>1, <1>3 DEF Hand, Left, Tries, TypeOK
<1> QED
  BY <1>5, <1>6, <1>7 DEF Topic!Post

\* Each step is one of Delivery, or none.
LEMMA StepDelivers == ASSUME TypeOK, Busy, [Next]_vars PROVE [Topic!Next]_Mapped
<1> SUFFICES ASSUME Next PROVE Topic!Next \/ UNCHANGED Mapped
  <2>1. CASE UNCHANGED vars
    BY <2>1, SamePlace DEF vars
  <2> QED
    BY <2>1
<1>1. CASE People
  <2>1. CASE SetMilestone \/ Release
    BY <2>1, SamePlace DEF SetMilestone, Release
  <2>2. ASSUME NEW word \in Words,
               NEW event \in {"issue_comment", "pull_request_review_comment"},
               Comment(event, word)
        PROVE  Topic!Next
    <3>1. item' \in Item
      BY <1>1, PeopleOK DEF TypeOK
    <3> QED
      BY <2>2, <3>1, SendPosts DEF Comment, GitHubEvents, Topic!Next
  <2>3. CASE Push
    BY <2>3, SendPosts DEF Push, GitHubEvents, TypeOK, Topic!Next
  <2>4. CASE Merge
    <3>1. item' \in Item
      BY <1>1, PeopleOK DEF TypeOK
    <3> QED
      BY <2>4, <3>1, SendPosts DEF Merge, GitHubEvents, Topic!Next
  <2> QED
    BY <1>1, <2>1, <2>2, <2>3, <2>4 DEF People
<1>2. ASSUME NEW id \in DOMAIN sent, Deliver(id)
      PROVE  Topic!Next
  <2> DEFINE m == Tries(id)
  <2>1. m \in Waiting /\ m.id = id /\ m.tries = attempts[id]
    BY <1>2 DEF Deliver, Waiting, Tries
  <2>2. /\ work'["consumer"].pc = "next" /\ work'["consumer"].id = id
        /\ work'["consumer"].todo = Triggered(sent[id])
    BY <1>2 DEF Deliver, Task, TypeOK, Workers
  <2>3. Hand = {} /\ m.tries < MaxAttempts
    BY <1>2, <2>1 DEF Deliver, Hand
  <2>4. /\ attempts'[id] = attempts[id] + 1
        /\ \A i \in queue \ {id} : attempts'[i] = attempts[i]
    BY <1>2 DEF Deliver, TypeOK
  <2>5. Waiting' = Waiting \ {m}
    BY <1>2, <2>4 DEF Deliver, Waiting, Tries
  <2>6. Hand' = {[m EXCEPT !.tries = @ + 1]}
    BY <2>2, <2>4 DEF Hand, Tries
  <2>7. Left' = Due[m.id] /\ Due' = Due
    BY <1>2, <2>1, <2>2, DueSame DEF Left, Due, Deliver
  <2> QED
    BY <2>1, <2>3, <2>5, <2>6, <2>7 DEF Topic!Next, Topic!Take
<1>3. ASSUME NEW id \in DOMAIN sent, GiveUp(id)
      PROVE  Topic!Next
  <2> DEFINE m == Tries(id)
  <2>1. m \in Waiting /\ m.tries >= MaxAttempts /\ Hand = {}
    BY <1>3 DEF GiveUp, Waiting, Tries, Hand
  <2>2. Waiting' = Waiting \ {m} /\ Hand' = Hand /\ Left' = Left /\ Due' = Due
    BY <1>3, DueSame DEF GiveUp, Waiting, Tries, Hand, Left
  <2> QED
    BY <2>1, <2>2 DEF Topic!Next, Topic!GiveUp
<1>4. ASSUME NEW a \in DOMAIN actions, StartJob(a)
      PROVE  UNCHANGED Mapped
  BY <1>4, JobStutters DEF StartJob
<1>5. CASE Signal \/ Restart
  BY <1>5, SamePlace DEF Signal, Restart
<1>6. CASE Stopped \/ Exit
  BY <1>6, DieDelivers DEF Stopped, Exit, Topic!Next
<1>7. ASSUME NEW w \in Workers, Panic(w) \/ Misconfigured(w) \/ Fail(w)
      PROVE  Topic!Next \/ UNCHANGED Mapped
  <2>1. CASE Panic(w)
    BY <2>1, DieDelivers DEF Panic, Topic!Next
  <2>2. CASE Misconfigured(w)
    BY <2>2, ErrorDelivers DEF Misconfigured, AtOperation, Topic!Next
  <2>3. CASE Fail(w)
    <3>1. work[w].pc # "idle"
      BY <2>3 DEF Fail, Writes, Reads, Lists, AtOperation
    <3> QED
      BY <2>3, <3>1, ErrorDelivers DEF Fail, Topic!Next
  <2> QED
    BY <1>7, <2>1, <2>2, <2>3
<1>8. ASSUME NEW w \in Workers,
             Finish(w) \/ Skip(w) \/ GlobalFilters(w) \/ Filter(w) \/ Pick(w) \/ GetVersion(w)
             \/ ListMilestones(w) \/ Apply(w) \/ ContainsFails(w) \/ GetErrorPage(w)
      PROVE  Topic!Next \/ UNCHANGED Mapped
  <2>1. UNCHANGED <<actions, nsqd>>
    BY <1>8 DEF Finish, Skip, GlobalFilters, Filter, Pick, GetVersion, ListMilestones, Apply,
       ContainsFails, GetErrorPage
  <2>2. CASE w = "job"
    <3>1. \E r : work' = [work EXCEPT !["job"] = r]
      BY <1>8, <2>2 DEF Finish, Skip, GlobalFilters, Filter, Pick, GetVersion, ListMilestones,
         Apply, ContainsFails, GetErrorPage, Advance, Idle
    <3> QED
      BY <2>1, <3>1, JobStutters
  <2>3. CASE w = "consumer" /\ Finish(w)
    <3>1. /\ work["consumer"].pc = "next" /\ work["consumer"].todo = {}
          /\ work'["consumer"].pc = "idle"
      BY <2>3 DEF Finish, Idle, Free, Task, TypeOK, Workers
    <3>2. /\ Hand # {} /\ Left = {} /\ Hand' = {} /\ Left' = {}
          /\ Waiting' = Waiting /\ Due' = Due
      BY <2>1, <3>1, DueSame DEF Hand, Left, Waiting, Tries, nsqd
    <3> QED
      BY <3>2 DEF Topic!Next, Topic!Finish
  <2>4. CASE w = "consumer" /\ ~Finish(w)
    <3>1. /\ work[w].pc # "idle" /\ work[w].todo # {} /\ work[w] \in Work
      BY <1>8, <2>4 DEF Skip, GlobalFilters, Filter, Pick, GetVersion, ListMilestones, Apply,
         ContainsFails, GetErrorPage, Runs, AtOperation, Busy, TypeOK, Writes
    <3>2. ASSUME Advance(w)
          PROVE  Topic!Next
      BY <2>1, <2>4, <3>1, <3>2, AdvancePerforms DEF Topic!Next
    <3>3. ASSUME NEW r, r.id = work[w].id, r.todo = work[w].todo, r.pc # "idle",
                 work' = [work EXCEPT ![w] = r]
          PROVE  UNCHANGED Mapped
      <4>1. work'["consumer"] = r
        BY <2>4, <3>3 DEF TypeOK, Workers
      <4> QED
        BY <2>1, <2>4, <3>1, <3>3, <4>1, SamePlace
    <3>4. CASE GlobalFilters(w)
      <4> DEFINE r == Task("filter", work[w].id, work[w].todo, InHand(w))
      <4>1. Advance(w) \/ work' = [work EXCEPT ![w] = r]
        BY <3>4 DEF GlobalFilters
      <4>2. r.id = work[w].id /\ r.todo = work[w].todo /\ r.pc # "idle"
        BY DEF Task
      <4> HIDE DEF r
      <4> QED
        BY <3>2, <3>3, <4>1, <4>2
    <3>5. CASE Filter(w)
      <4> DEFINE pc == CASE Op(w).type = "random-assign" -> "pick"
                         [] Op(w).type = "version-milestone" -> "version"
                         [] OTHER -> "label"
                 r(labels) == [work[w] EXCEPT !.pc = pc, !.labels = labels]
      <4>1. Advance(w) \/ \E labels : work' = [work EXCEPT ![w] = r(labels)]
        BY <3>5 DEF Filter
      <4>2. pc # "idle"
        OBVIOUS
      <4> HIDE DEF pc
      <4>3. \A labels : /\ r(labels).id = work[w].id /\ r(labels).todo = work[w].todo
                        /\ r(labels).pc # "idle"
        BY <3>1, <4>2 DEF Work
      <4> HIDE DEF r
      <4> QED
        BY <3>2, <3>3, <4>1, <4>3
    <3>6. CASE Pick(w) \/ GetVersion(w) \/ GetErrorPage(w) \/ ListMilestones(w)
      <4> DEFINE picked(u) == [work[w] EXCEPT !.pc = "assign", !.users = {u}]
                 read(n) == [work[w] EXCEPT !.pc = "milestone", !.version = n]
                 found == [work[w] EXCEPT !.pc = "set"]
      <4>1. \/ Advance(w)
            \/ \E u : work' = [work EXCEPT ![w] = picked(u)]
            \/ \E n : work' = [work EXCEPT ![w] = read(n)]
            \/ work' = [work EXCEPT ![w] = found]
        BY <3>6 DEF Pick, GetVersion, GetErrorPage, ListMilestones
      <4>2. /\ \A u : /\ picked(u).id = work[w].id /\ picked(u).todo = work[w].todo
                      /\ picked(u).pc # "idle"
            /\ \A n : /\ read(n).id = work[w].id /\ read(n).todo = work[w].todo
                      /\ read(n).pc # "idle"
            /\ found.id = work[w].id /\ found.todo = work[w].todo /\ found.pc # "idle"
        BY <3>1 DEF Work
      <4> HIDE DEF picked, read, found
      <4> QED
        BY <3>2, <3>3, <4>1, <4>2
    <3>7. CASE Skip(w) \/ Apply(w) \/ ContainsFails(w)
      BY <3>2, <3>7 DEF Skip, Apply, ContainsFails
    <3> QED
      BY <1>8, <2>4, <3>4, <3>5, <3>6, <3>7
  <2> QED
    BY <1>8, <2>2, <2>3, <2>4 DEF Workers
<1> QED
  BY <1>1, <1>2, <1>3, <1>4, <1>5, <1>6, <1>7, <1>8 DEF Next, Takes, Advances, Faults

(***************************************************************************)
(* For any configuration, item and bounds the consumer keeps the promise   *)
(* of Delivery (nsq.go, go-nsq's handlerLoop and shouldFailMessage,        *)
(* handler.go, action.go): at least one delivery and at most MaxAttempts,  *)
(* each from the first operation on, whatever fails, panics or is stopped. *)
(***************************************************************************)
THEOREM EventsAreDelivered == Spec => DeliverySpec
<1>1. Init => TypeOK /\ Busy /\ Topic!Init
  <2> SUFFICES ASSUME Init PROVE TypeOK /\ Busy /\ Topic!Init
    OBVIOUS
  <2>1. Free.pc = "idle" /\ work = [w \in Workers |-> Free] /\ "consumer" \in Workers
    BY DEF Free, Task, Init, Workers
  <2>2. TypeOK /\ Busy
    BY <2>1, InitOK DEF Busy
  <2>3. Hand = {} /\ Left = {}
    BY <2>1 DEF Hand, Left
  <2>4. queue = {1} /\ attempts = <<0>> /\ DOMAIN sent = {1}
    <3> DEFINE e == Event(IF item.payload = "pr" THEN "pull_request" ELSE "issues", "opened", item)
    <3>1. sent = <<e>> /\ queue = {1} /\ attempts = <<0>>
      BY DEF Init
    <3> HIDE DEF e
    <3> QED
      BY <3>1
  <2>5. Waiting = {Topic!New(id) : id \in DOMAIN Due}
    BY <2>4 DEF Waiting, Tries, Due, Topic!New
  <2> QED
    BY <2>2, <2>3, <2>5 DEF Topic!Init
<1>2. TypeOK /\ Busy /\ [Next]_vars => (TypeOK /\ Busy)'
  BY NextOK
<1>3. TypeOK /\ Busy /\ [Next]_vars => [Topic!Next]_Topic!vars
  BY StepDelivers DEF Mapped, Topic!vars
<1> QED
  BY <1>1, <1>2, <1>3, PTL DEF Spec, DeliverySpec, Topic!Spec

=============================================================================
