------------------------- MODULE Assignments_proofs -------------------------
(***************************************************************************)
(* Proof that every assignment of ItemEvents is explained: what a worker   *)
(* has assigned and what it may still assign are within what deliveries of *)
(* events that showed the item unassigned, and jobs, account for.          *)
(*                                                                         *)
(* A worker owes an assignment for each random-assign it has still to do,  *)
(* unless its event shows the item assigned.  A delivery or a job adds to  *)
(* both sides; an assignment moves one from what is owed to what is done;  *)
(* an error or the end of the process only writes off what was owed.       *)
(***************************************************************************)
EXTENDS ItemEvents_proofs, FiniteSetTheorems

Assigning(s) == actions[s[1]].operations[s[2]].type = "random-assign"

Owing(w) ==
    IF work[w].pc = "idle" \/ (w = "consumer" /\ ~Stale(work[w].id)) THEN 0
    ELSE AssignsIn(work[w].todo)

\* The worker that handles an event or a job.
By(id) == IF id = 0 THEN "job" ELSE "consumer"
Accounted ==
    \A id \in 0 .. MaxEvents :
        assigned[id] + (IF work[By(id)].id = id THEN Owing(By(id)) ELSE 0) <= Explained(id)

\* The consumer works on the event as it was sent, and who chooses a user
\* has a view of the item without one.
Honest ==
    /\ work["job"].pc # "idle" => work["job"].id = 0
    /\ work["consumer"].pc # "idle" =>
          /\ work["consumer"].x.assignees = sent[work["consumer"].id].x.assignees
          /\ work["consumer"].todo \subseteq Triggered(sent[work["consumer"].id])
    /\ \A w \in Workers : work[w].pc \in {"pick", "assign"} =>
          Op(w).type = "random-assign" /\ work[w].x.assignees = {}

AInv == TypeOK /\ Busy /\ Honest /\ Accounted

-----------------------------------------------------------------------------
\* A configuration has finitely many operations.
LEMMA PlacesFinite == ASSUME Decoded(actions) PROVE IsFiniteSet(AllPlaces)
<1> DEFINE A == DOMAIN actions
           Ks == {DOMAIN actions[a].operations : a \in A}
           K == UNION Ks
           ks == [a \in A |-> DOMAIN actions[a].operations]
<1>1. IsFiniteSet(A) /\ \A a \in A : IsFiniteSet(DOMAIN actions[a].operations)
  BY DEF Decoded
<1>2. IsFiniteSet(Ks)
  <2>1. ks \in Surjection(A, Ks)
    BY DEF Surjection
  <2> QED
    BY ONLY <1>1, <2>1, FS_Surjection
<1>3. IsFiniteSet(K)
  BY <1>1, <1>2, FS_UNION
<1>4. IsFiniteSet(Payloads)
  <2>1. IsFiniteSet({"issue"} \cup {"pr"})
    BY FS_Singleton, FS_AddElement
  <2>2. Payloads = {"issue"} \cup {"pr"}
    BY DEF Payloads
  <2> QED
    BY <2>1, <2>2
<1> DEFINE T == (A \X K) \X Payloads
           f == [s \in AllPlaces |-> <<<<s[1], s[2]>>, s[3]>>]
<1>5. IsFiniteSet(T)
  <2>1. IsFiniteSet(A \X K)
    BY ONLY <1>1, <1>3, FS_Product
  <2> QED
    BY ONLY <1>4, <2>1, FS_Product
<1>6. f \in Injection(AllPlaces, T)
  <2>1. ASSUME NEW s \in AllPlaces
        PROVE  /\ s[1] \in A /\ s[2] \in K /\ s[3] \in Payloads
               /\ s = <<s[1], s[2], s[3]>>
    BY PlaceShape
  <2>2. f \in [AllPlaces -> T]
    BY <2>1
  <2>3. ASSUME NEW s \in AllPlaces, NEW t \in AllPlaces, f[s] = f[t]
        PROVE  s = t
    BY <2>1, <2>3
  <2> HIDE DEF f, T
  <2> QED
    BY <2>2, <2>3 DEF Injection, IsInjective
<1> QED
  BY ONLY <1>5, <1>6, FS_Injection

\* Fewer places have no more assignments among them.
LEMMA AssignsSubset ==
    ASSUME Decoded(actions), NEW P \in SUBSET AllPlaces, NEW Q \in SUBSET P
    PROVE  AssignsIn(P) \in Nat /\ AssignsIn(Q) \in Nat /\ AssignsIn(Q) <= AssignsIn(P)
<1> DEFINE SP == {s \in P : Assigning(s)}
           SQ == {s \in Q : Assigning(s)}
<1>1. SP \in SUBSET AllPlaces /\ SQ \in SUBSET SP
  OBVIOUS
<1>2. AssignsIn(P) = Cardinality(SP) /\ AssignsIn(Q) = Cardinality(SQ)
  BY DEF AssignsIn, Assigning
<1> HIDE DEF SP, SQ
<1>3. IsFiniteSet(SP) /\ IsFiniteSet(SQ)
  BY <1>1, PlacesFinite, FS_Subset
<1> QED
  BY <1>1, <1>2, <1>3, FS_Subset, FS_CardinalityType

\* Without one of the assignments there is one less.
LEMMA AssignsRemove ==
    ASSUME Decoded(actions), NEW P \in SUBSET AllPlaces, NEW s \in P, Assigning(s)
    PROVE  AssignsIn(P \ {s}) + 1 = AssignsIn(P)
<1> DEFINE SP == {t \in P : Assigning(t)}
<1>1. SP \in SUBSET AllPlaces /\ s \in SP /\ SP \ {s} = {t \in P \ {s} : Assigning(t)}
  OBVIOUS
<1>2. AssignsIn(P) = Cardinality(SP) /\ AssignsIn(P \ {s}) = Cardinality(SP \ {s})
  BY <1>1 DEF AssignsIn, Assigning
<1> HIDE DEF SP
<1>3. IsFiniteSet(SP)
  BY <1>1, PlacesFinite, FS_Subset
<1>4. Cardinality(SP \ {s}) = Cardinality(SP) - 1 /\ Cardinality(SP) \in Nat
  BY <1>1, <1>3, FS_RemoveElement, FS_CardinalityType
<1> QED
  BY <1>2, <1>4

\* The types of what the accounts are made of.
LEMMA AccountTypes ==
    ASSUME TypeOK
    PROVE  /\ \A w \in Workers : Owing(w) \in Nat /\ AssignsIn(work[w].todo) \in Nat
           /\ \A id \in 0 .. MaxEvents : Explained(id) \in Nat /\ assigned[id] \in Nat
<1>1. Decoded(actions)
  BY DEF TypeOK
<1>2. ASSUME NEW P \in SUBSET AllPlaces
      PROVE  AssignsIn(P) \in Nat
  BY <1>1, AssignsSubset
<1>3. ASSUME NEW w \in Workers
      PROVE  Owing(w) \in Nat /\ AssignsIn(work[w].todo) \in Nat
  <2>1. work[w].todo \in SUBSET AllPlaces
    BY DEF TypeOK, Work, AllPlaces
  <2> QED
    BY <1>2, <2>1 DEF Owing
<1>4. ASSUME NEW id \in 0 .. MaxEvents
      PROVE  Explained(id) \in Nat
  <2>1. AssignsIn(AllPlaces) \in Nat /\ faults.jobs \in Nat
    BY <1>2 DEF TypeOK
  <2>2. ASSUME Stale(id)
        PROVE  AssignsIn(Triggered(sent[id])) \in Nat /\ attempts[id] \in Nat
    <3>1. sent[id] \in Message
      BY <2>2 DEF Stale, TypeOK
    <3>2. attempts[id] \in 0 .. MaxAttempts
      <4> DEFINE S == 0 .. MaxAttempts
      <4>1. attempts \in Seq(S) /\ id \in 1 .. Len(attempts)
        BY <2>2 DEF Stale, TypeOK
      <4> HIDE DEF S
      <4>2. attempts[id] \in S
        BY <4>1, ElementOfSeq
      <4> QED
        BY <4>2 DEF S
    <3> QED
      BY <1>2, <3>1, <3>2, TriggeredOK
  <2>3. \A n, k \in Nat : n * k \in Nat
    OBVIOUS
  <2>4. CASE id = 0
    BY <2>1, <2>3, <2>4 DEF Explained, AllPlaces
  <2>5. CASE id # 0 /\ Stale(id)
    BY <2>2, <2>3, <2>5 DEF Explained
  <2>6. CASE id # 0 /\ ~Stale(id)
    BY <2>6 DEF Explained
  <2> QED
    BY <2>4, <2>5, <2>6
<1>5. ASSUME NEW id \in 0 .. MaxEvents
      PROVE  assigned[id] \in Nat
  BY DEF TypeOK
<1> QED
  BY <1>3, <1>4, <1>5

-----------------------------------------------------------------------------
\* What one step of a worker is: it ends its task, stays at its operation or
\* leaves it behind, and assigns at most one user, if that is its operation.
Step(w, r) ==
    /\ work[w].pc # "idle" /\ work' = [work EXCEPT ![w] = r]
    /\ UNCHANGED <<actions, sent, attempts>> /\ faults'.jobs = faults.jobs
    /\ \/ r.pc = "idle"
       \/ /\ r.pc # "idle" /\ r.id = work[w].id /\ r.todo \subseteq work[w].todo
          /\ w = "consumer" => r.x = work[w].x
          /\ r.pc \in {"pick", "assign"} =>
                r.todo = work[w].todo /\ Op(w).type = "random-assign" /\ r.x.assignees = {}
    /\ \/ assigned' = assigned
       \/ /\ work[w].pc = "assign"
          /\ assigned' = [assigned EXCEPT ![work[w].id] = assigned[work[w].id] + 1]
          /\ r.pc = "idle" \/ r.todo = work[w].todo \ {Here(w)}

\* Every step of a worker that is not a panic is such a step.
LEMMA WorkerSteps ==
    ASSUME TypeOK, Busy, Honest, NEW w \in Workers, Advances(w) \/ Faults(w), ~Panic(w)
    PROVE  \E r : Step(w, r)
<1>a. /\ work \in [Workers -> Work] /\ work[w] \in Work /\ faults \in [errors : Nat, stops : Nat, jobs : Nat]
      /\ Free.pc = "idle"
  BY DEF TypeOK, Free, Task
<1> DEFINE Rest == UNCHANGED <<actions, sent, attempts>> /\ faults'.jobs = faults.jobs
           Next1 == Task("next", work[w].id, work[w].todo \ {Here(w)}, work[w].x)
<1>1. ASSUME Advance(w), work[w].pc # "idle", Rest, assigned' = assigned
      PROVE  Step(w, Next1)
  BY <1>1 DEF Advance, Step, Task
<1>2. ASSUME work' = Idle(w), work[w].pc # "idle", Rest, assigned' = assigned
      PROVE  Step(w, Free)
  BY <1>2, <1>a DEF Idle, Step
<1>3. CASE Finish(w) \/ Misconfigured(w)
  <2>1. work' = Idle(w) /\ work[w].pc # "idle" /\ Rest /\ assigned' = assigned
    BY <1>3 DEF Finish, Misconfigured, AtOperation, ReturnError, nsqd, history
  <2> QED
    BY <1>2, <2>1
<1>4. CASE Skip(w) \/ ContainsFails(w)
  <2>1. Advance(w) /\ work[w].pc # "idle" /\ Rest /\ assigned' = assigned
    BY <1>4, <1>a DEF Skip, ContainsFails, Runs, AtOperation, nsqd, history
  <2> QED
    BY <1>1, <2>1
<1>5. CASE GlobalFilters(w)
  <2> DEFINE r == Task("filter", work[w].id, work[w].todo, InHand(w))
  <2>1. /\ Advance(w) \/ work' = [work EXCEPT ![w] = r]
        /\ work[w].pc # "idle" /\ Rest /\ assigned' = assigned
    BY <1>5 DEF GlobalFilters, Runs, AtOperation, nsqd, history
  <2>2. /\ r.pc = "filter" /\ r.id = work[w].id /\ r.todo = work[w].todo
        /\ w = "consumer" => r.x = work[w].x
    BY DEF Task, InHand
  <2> HIDE DEF r
  <2>3. work' = [work EXCEPT ![w] = r] => Step(w, r)
    BY <2>1, <2>2 DEF Step
  <2> QED
    BY <1>1, <2>1, <2>3
<1>6. CASE Filter(w)
  <2> DEFINE pc == CASE Op(w).type = "random-assign" -> "pick"
                     [] Op(w).type = "version-milestone" -> "version"
                     [] OTHER -> "label"
             r(labels) == [work[w] EXCEPT !.pc = pc, !.labels = labels]
  <2>1. /\ \/ Advance(w)
           \/ /\ OperationAccepts(Op(w), work[w].x)
              /\ \E labels : work' = [work EXCEPT ![w] = r(labels)]
        /\ work[w].pc # "idle" /\ Rest /\ assigned' = assigned
    BY <1>6 DEF Filter, nsqd, history
  <2>2. ASSUME OperationAccepts(Op(w), work[w].x), pc = "pick"
        PROVE  Op(w).type = "random-assign" /\ work[w].x.assignees = {}
    <3>1. Op(w).type = "random-assign"
      BY <2>2
    <3> QED
      BY <2>2, <3>1 DEF OperationAccepts, AssignAccepts
  <2>3. pc \in {"pick", "version", "label"}
    OBVIOUS
  <2> HIDE DEF pc
  <2>4. \A labels : /\ r(labels).pc = pc /\ r(labels).id = work[w].id
                    /\ r(labels).todo = work[w].todo /\ r(labels).x = work[w].x
    BY <1>a DEF Work
  <2> HIDE DEF r
  <2>5. ASSUME OperationAccepts(Op(w), work[w].x), NEW labels,
               work' = [work EXCEPT ![w] = r(labels)]
        PROVE  Step(w, r(labels))
    BY <2>1, <2>2, <2>3, <2>4, <2>5 DEF Step
  <2> QED
    BY <1>1, <2>1, <2>5
<1>7. CASE Pick(w)
  <2> DEFINE r(u) == [work[w] EXCEPT !.pc = "assign", !.users = {u}]
  <2>1. PICK u : work' = [work EXCEPT ![w] = r(u)]
    BY <1>7 DEF Pick
  <2>2. work[w].pc = "pick" /\ Rest /\ assigned' = assigned
    BY <1>7 DEF Pick, nsqd, history
  <2>3. /\ r(u).pc = "assign" /\ r(u).id = work[w].id
        /\ r(u).todo = work[w].todo /\ r(u).x = work[w].x
    BY <1>a DEF Work
  <2> HIDE DEF r
  <2> QED
    BY <2>1, <2>2, <2>3 DEF Step, Honest
<1>8. CASE GetVersion(w) \/ GetErrorPage(w)
  <2> DEFINE r(n) == [work[w] EXCEPT !.pc = "milestone", !.version = n]
  <2>1. PICK n : work' = [work EXCEPT ![w] = r(n)]
    BY <1>8 DEF GetVersion, GetErrorPage
  <2>2. work[w].pc = "version" /\ Rest /\ assigned' = assigned
    BY <1>8, <1>a DEF GetVersion, GetErrorPage, nsqd, history
  <2>3. /\ r(n).pc = "milestone" /\ r(n).id = work[w].id
        /\ r(n).todo = work[w].todo /\ r(n).x = work[w].x
    BY <1>a DEF Work
  <2> HIDE DEF r
  <2> QED
    BY <2>1, <2>2, <2>3 DEF Step
<1>9. CASE ListMilestones(w)
  <2> DEFINE r == [work[w] EXCEPT !.pc = "set"]
  <2>1. /\ Advance(w) \/ work' = [work EXCEPT ![w] = r]
        /\ work[w].pc = "milestone" /\ Rest /\ assigned' = assigned
    BY <1>9 DEF ListMilestones, nsqd, history
  <2>2. r.pc = "set" /\ r.id = work[w].id /\ r.todo = work[w].todo /\ r.x = work[w].x
    BY <1>a DEF Work
  <2> HIDE DEF r
  <2>3. work' = [work EXCEPT ![w] = r] => Step(w, r)
    BY <2>1, <2>2 DEF Step
  <2> QED
    BY <1>1, <2>1, <2>3
<1>10. ASSUME work[w].pc \in Writes, Effect(w)
       PROVE  \/ assigned' = assigned
              \/ /\ work[w].pc = "assign"
                 /\ assigned' = [assigned EXCEPT ![work[w].id] = assigned[work[w].id] + 1]
  BY <1>10 DEF Effect
<1>11. CASE Apply(w)
  <2>1. /\ work' = [work EXCEPT ![w] = Next1] /\ work[w].pc \in Writes /\ Rest /\ Effect(w)
    BY <1>11 DEF Apply, Advance, nsqd
  <2>2. Next1.pc = "next" /\ Next1.id = work[w].id /\ Next1.todo = work[w].todo \ {Here(w)}
        /\ Next1.x = work[w].x
    BY DEF Task
  <2> HIDE DEF Next1
  <2>3. work[w].pc # "idle"
    BY <2>1 DEF Writes
  <2> QED
    BY <1>10, <2>1, <2>2, <2>3 DEF Step
<1>12. CASE Fail(w)
  <2>1. /\ work' = [work EXCEPT ![w] = Free] /\ work[w].pc # "idle" /\ Rest
    BY <1>12, <1>a DEF Fail, ReturnError, Idle, Writes, Reads, Lists, AtOperation
  <2>2. (work[w].pc \in Writes /\ Effect(w)) \/ assigned' = assigned
    BY <1>12 DEF Fail
  <2> QED
    BY <1>a, <1>10, <2>1, <2>2 DEF Step
<1> QED
  BY <1>3, <1>4, <1>5, <1>6, <1>7, <1>8, <1>9, <1>11, <1>12 DEF Advances, Faults

-----------------------------------------------------------------------------
\* With the same work to do a worker is at the same operation.
LEMMA SameOp ==
    ASSUME NEW w, work'[w].todo = work[w].todo, actions' = actions
    PROVE  Op(w)' = Op(w)
BY DEF Op, Here

\* What is explained only depends on the events, their deliveries and the jobs.
LEMMA ExplainedKept ==
    ASSUME UNCHANGED <<actions, sent, attempts>>, faults'.jobs = faults.jobs
    PROVE  /\ \A id : Explained(id)' = Explained(id) /\ Stale(id)' = Stale(id)
           /\ \A P : AssignsIn(P)' = AssignsIn(P)
<1>1. \A m : Triggered(m)' = Triggered(m)
  BY DEF Triggered, Places
<1>2. \A P : AssignsIn(P)' = AssignsIn(P)
  BY DEF AssignsIn
<1>3. \A id : Stale(id)' = Stale(id)
  BY DEF Stale
<1>4. ASSUME NEW id
      PROVE  Explained(id)' = Explained(id)
  <2>1. Triggered(sent[id])' = Triggered(sent[id])
    BY <1>1
  <2>2. AssignsIn(Triggered(sent[id]))' = AssignsIn(Triggered(sent[id]))
    BY <1>2, <2>1
  <2>3. AssignsIn(Places(DOMAIN actions, Payloads))' = AssignsIn(Places(DOMAIN actions, Payloads))
    BY DEF AssignsIn, Places
  <2> QED
    BY <1>3, <2>2, <2>3 DEF Explained
<1> QED
  BY <1>2, <1>3, <1>4

\* It keeps the worker honest.
LEMMA HonestStep ==
    ASSUME TypeOK, Busy, Honest, NEW w \in Workers, NEW r, Step(w, r)
    PROVE  Honest'
<1>1. /\ work \in [Workers -> Work] /\ work'[w] = r
      /\ \A v \in Workers : v # w => work'[v] = work[v]
  BY DEF TypeOK, Step
<1>2. /\ UNCHANGED <<actions, sent>> /\ work[w].pc # "idle"
      /\ r.pc # "idle" =>
            /\ r.id = work[w].id /\ r.todo \subseteq work[w].todo
            /\ w = "consumer" => r.x = work[w].x
      /\ r.pc \in {"pick", "assign"} =>
            r.todo = work[w].todo /\ Op(w).type = "random-assign" /\ r.x.assignees = {}
  BY DEF Step
<1>3. \A m : Triggered(m)' = Triggered(m)
  BY <1>2 DEF Triggered, Places
<1>4. (work["job"].pc # "idle" => work["job"].id = 0)'
  BY <1>1, <1>2 DEF Honest, Workers
<1>5. ASSUME work'["consumer"].pc # "idle"
      PROVE  /\ work'["consumer"].x.assignees = sent'[work'["consumer"].id].x.assignees
             /\ work'["consumer"].todo \subseteq Triggered(sent[work["consumer"].id])'
  <2>1. /\ work["consumer"].pc # "idle" /\ work'["consumer"].id = work["consumer"].id
        /\ work'["consumer"].x = work["consumer"].x
        /\ work'["consumer"].todo \subseteq work["consumer"].todo
    BY <1>1, <1>2, <1>5 DEF Workers
  <2>2. Triggered(sent[work["consumer"].id])' = Triggered(sent[work["consumer"].id])
    BY <1>2, <1>3, <2>1
  <2> QED
    BY <1>2, <2>1, <2>2 DEF Honest
<1>6. ASSUME NEW v \in Workers, work'[v].pc \in {"pick", "assign"}
      PROVE  Op(v)'.type = "random-assign" /\ work'[v].x.assignees = {}
  <2>1. work'[v].todo = work[v].todo
    BY <1>1, <1>2, <1>6
  <2>2. Op(v)' = Op(v)
    BY <1>2, <2>1, SameOp
  <2> QED
    BY <1>1, <1>2, <1>6, <2>2 DEF Honest
<1> QED
  BY <1>4, <1>5, <1>6 DEF Honest

\* What it assigns it has owed, and it never owes more than before.
LEMMA AccountedStep ==
    ASSUME TypeOK, Busy, Honest, Accounted, NEW w \in Workers, NEW r, Step(w, r), TypeOK'
    PROVE  Accounted'
<1>0. PICK j : j = work[w].id
  OBVIOUS
<1>1. /\ work \in [Workers -> Work] /\ work'[w] = r
      /\ \A v \in Workers : v # w => work'[v] = work[v]
      /\ UNCHANGED <<actions, sent, attempts>> /\ faults'.jobs = faults.jobs
      /\ work[w].pc # "idle"
  BY DEF TypeOK, Step
<1>2. /\ \A id : Explained(id)' = Explained(id) /\ Stale(id)' = Stale(id)
      /\ \A P : AssignsIn(P)' = AssignsIn(P)
  BY <1>1, ExplainedKept
<1>3. j \in 0 .. MaxEvents /\ By(j) = w
  <2>1. CASE w = "job"
    BY <1>0, <1>1, <2>1, BoundsAssumption DEF Honest, By
  <2>2. CASE w = "consumer"
    <3>1. j \in 1 .. Len(sent) /\ Len(sent) \in Nat /\ Len(sent) <= MaxEvents
      BY <1>0, <1>1, <2>2 DEF TypeOK
    <3>2. MaxEvents \in Nat
      BY BoundsAssumption
    <3> QED
      BY <2>2, <3>1, <3>2 DEF By
  <2> QED
    BY <2>1, <2>2 DEF Workers
<1>4. /\ work[w].todo \in SUBSET AllPlaces /\ Decoded(actions)
      /\ \A v \in Workers : Owing(v) \in Nat
      /\ AssignsIn(work[w].todo) \in Nat
      /\ \A id \in 0 .. MaxEvents : Explained(id) \in Nat /\ assigned[id] \in Nat
      /\ assigned \in [0 .. MaxEvents -> Nat]
  <2>1. work[w].todo \in SUBSET AllPlaces
    BY <1>1 DEF Work, AllPlaces
  <2>2. Decoded(actions) /\ assigned \in [0 .. MaxEvents -> Nat]
    BY DEF TypeOK
  <2> QED
    BY <2>1, <2>2, AccountTypes
<1>5. r.pc = "idle" => Owing(w)' = 0
  BY <1>1 DEF Owing
<1>6. Owing(w)' <= Owing(w) /\ Owing(w)' \in Nat
  <2>1. CASE r.pc = "idle"
    BY <1>4, <1>5, <2>1
  <2>2. CASE r.pc # "idle"
    <3>1. r.id = j /\ r.todo \in SUBSET work[w].todo
      BY <1>0, <2>2 DEF Step
    <3>2. AssignsIn(r.todo) <= AssignsIn(work[w].todo) /\ AssignsIn(r.todo) \in Nat
      BY <1>4, <3>1, AssignsSubset
    <3>3. Owing(w)' = IF w = "consumer" /\ ~Stale(j) THEN 0 ELSE AssignsIn(r.todo)
      <4>1. Owing(w)' = IF w = "consumer" /\ ~Stale(j)' THEN 0 ELSE AssignsIn(r.todo)'
        BY <1>1, <2>2, <3>1 DEF Owing
      <4> QED
        BY <1>2, <4>1
    <3>4. Owing(w) = IF w = "consumer" /\ ~Stale(j) THEN 0 ELSE AssignsIn(work[w].todo)
      BY <1>0, <1>1 DEF Owing
    <3> QED
      BY <1>4, <3>2, <3>3, <3>4
  <2> QED
    BY <2>1, <2>2
<1>7. ASSUME assigned' # assigned
      PROVE  /\ assigned' = [assigned EXCEPT ![j] = assigned[j] + 1]
             /\ Owing(w)' + 1 <= Owing(w)
  <2>1. /\ work[w].pc = "assign" /\ assigned' = [assigned EXCEPT ![j] = assigned[j] + 1]
        /\ r.pc = "idle" \/ (r.pc # "idle" /\ r.id = j /\ r.todo = work[w].todo \ {Here(w)})
    BY <1>0, <1>7 DEF Step
  <2>2. Op(w).type = "random-assign" /\ work[w].x.assignees = {}
    BY <2>1 DEF Honest
  <2>3. Here(w) \in work[w].todo
    BY <1>4, <2>1, HereOK DEF Busy
  <2>4. AssignsIn(work[w].todo \ {Here(w)}) + 1 = AssignsIn(work[w].todo)
    BY <1>4, <2>2, <2>3, AssignsRemove DEF Assigning, Op
  <2>5. w = "consumer" => Stale(j)
    BY <1>0, <1>1, <2>2 DEF Honest, Stale, TypeOK
  <2>6. Owing(w) = AssignsIn(work[w].todo)
    BY <1>0, <1>1, <2>5 DEF Owing
  <2>7. AssignsIn(work[w].todo \ {Here(w)}) \in Nat
    BY <1>4, AssignsSubset
  <2>8. CASE r.pc = "idle"
    BY <1>4, <1>5, <2>1, <2>4, <2>6, <2>7, <2>8
  <2>9. CASE r.pc # "idle"
    <3>1. Owing(w)' = AssignsIn(work[w].todo \ {Here(w)})
      <4>1. (w = "consumer" => Stale(j)') /\ AssignsIn(r.todo)' = AssignsIn(r.todo)
        BY <1>2, <2>5
      <4>2. Owing(w)' = AssignsIn(r.todo)'
        BY <1>1, <2>1, <2>9, <4>1 DEF Owing
      <4> QED
        BY <2>1, <2>9, <4>1, <4>2
    <3> QED
      BY <1>4, <2>1, <2>4, <2>6, <2>7, <3>1
  <2> QED
    BY <2>8, <2>9
<1>8. ASSUME NEW id \in 0 .. MaxEvents, assigned' # assigned
      PROVE  assigned'[id] = IF id = j THEN assigned[id] + 1 ELSE assigned[id]
  <2> DEFINE S == 0 .. MaxEvents
             n == assigned[j] + 1
  <2>1. assigned \in [S -> Nat] /\ id \in S /\ assigned' = [assigned EXCEPT ![j] = n]
    BY <1>4, <1>7, <1>8
  <2> HIDE DEF S, n
  <2>2. assigned'[id] = IF id = j THEN n ELSE assigned[id]
    BY <2>1
  <2> QED
    BY <2>2 DEF n
<1>9. ASSUME NEW id \in 0 .. MaxEvents
      PROVE  assigned'[id] + (IF work'[By(id)].id = id THEN Owing(By(id))' ELSE 0) <= Explained(id)
  <2>1. assigned[id] + (IF work[By(id)].id = id THEN Owing(By(id)) ELSE 0) <= Explained(id)
    BY DEF Accounted
  <2>2. By(id) \in Workers
    BY DEF By, Workers
  <2>3. CASE id = j
    <3>1. By(id) = w /\ assigned[id] + Owing(w) <= Explained(id)
      BY <1>0, <1>3, <2>1, <2>3
    <3>2. assigned'[id] + Owing(w)' <= assigned[id] + Owing(w)
      <4>1. CASE assigned' = assigned
        BY <1>4, <1>6, <4>1
      <4>2. CASE assigned' # assigned
        <5>1. assigned'[id] = assigned[id] + 1
          BY <1>8, <2>3, <4>2
        <5> QED
          BY <1>4, <1>6, <1>7, <4>2, <5>1
      <4> QED
        BY <4>1, <4>2
    <3>3. assigned'[id] \in Nat /\ assigned'[id] <= assigned'[id] + Owing(w)'
      <4>1. assigned'[id] \in Nat
        BY DEF TypeOK
      <4> QED
        BY <1>6, <4>1
    <3>4. /\ assigned[id] \in Nat /\ Owing(w) \in Nat /\ Owing(w)' \in Nat
          /\ Explained(id) \in Nat
      BY <1>4, <1>6
    <3>5. assigned'[id] + Owing(w)' <= Explained(id) /\ assigned'[id] <= Explained(id)
      BY <3>1, <3>2, <3>3, <3>4
    <3>6. Owing(By(id))' = Owing(w)'
      BY <3>1 DEF Owing
    <3> QED
      BY <3>3, <3>5, <3>6
  <2>4. CASE id # j
    <3>1. assigned'[id] = assigned[id]
      BY <1>8, <2>4
    <3>2. CASE By(id) = w
      <4>1. work'[w].id = id => Owing(w)' = 0
        BY <1>0, <1>1, <1>5, <2>4 DEF Step
      <4> QED
        BY <1>4, <2>1, <3>1, <3>2, <4>1
    <3>3. CASE By(id) # w
      <4>1. work'[By(id)] = work[By(id)]
        BY <1>1, <2>2, <3>3
      <4>2. Owing(By(id))' = Owing(By(id))
        <5> DEFINE v == By(id)
        <5>1. work'[v] = work[v]
          BY <4>1
        <5>2. Stale(work[v].id)' = Stale(work[v].id) /\ AssignsIn(work[v].todo)' = AssignsIn(work[v].todo)
          BY <1>1, <5>1 DEF Stale, AssignsIn
        <5> QED
          BY <5>1, <5>2 DEF Owing, By
      <4> QED
        BY <2>1, <3>1, <4>1, <4>2
    <3> QED
      BY <3>2, <3>3
  <2> QED
    BY <2>3, <2>4
<1> QED
  BY <1>2, <1>9 DEF Accounted, By

-----------------------------------------------------------------------------
\* Steps that are not about the work or the events.
LEMMA AccountsKept ==
    ASSUME Honest, Accounted, UNCHANGED <<actions, sent, attempts, work, assigned>>,
           faults'.jobs = faults.jobs
    PROVE  Honest' /\ Accounted'
<1>1. \A m : Triggered(m)' = Triggered(m)
  BY DEF Triggered, Places
<1>2. \A w : Op(w)' = Op(w)
  BY DEF Op, Here
<1>3. Honest'
  <2>1. Triggered(sent[work["consumer"].id])' = Triggered(sent[work["consumer"].id])
    BY <1>1
  <2> QED
    BY <1>2, <2>1 DEF Honest
<1>4. \A w : Owing(w)' = Owing(w)
  BY DEF Owing, Stale, AssignsIn
<1>5. \A id : Explained(id)' = Explained(id)
  BY ExplainedKept
<1>6. Accounted'
  <2> SUFFICES ASSUME NEW id \in 0 .. MaxEvents
               PROVE  assigned[id] + (IF work[By(id)].id = id THEN Owing(By(id)) ELSE 0) <= Explained(id)
    BY <1>4, <1>5 DEF Accounted, By
  <2> QED
    BY DEF Accounted
<1> QED
  BY <1>3, <1>6

\* The end of the process writes off what was owed.
LEMMA AccountsDie == ASSUME TypeOK, Honest, Accounted, Die PROVE Honest' /\ Accounted'
<1>1. /\ work' = [w \in Workers |-> Free] /\ Free.pc = "idle"
      /\ UNCHANGED <<actions, sent, attempts, assigned, faults>>
  BY DEF Die, Free, Task, history
<1>2. \A w \in Workers : work'[w].pc = "idle"
  BY <1>1
<1>3. Honest'
  BY <1>2 DEF Honest, Workers
<1>4. \A w \in Workers : Owing(w)' = 0
  BY <1>2 DEF Owing
<1>5. \A id : Explained(id)' = Explained(id)
  BY <1>1, ExplainedKept
<1>6. ASSUME NEW id \in 0 .. MaxEvents
      PROVE  assigned'[id] + (IF work'[By(id)].id = id THEN Owing(By(id))' ELSE 0) <= Explained(id)
  <2>1. By(id) \in Workers
    BY DEF By, Workers
  <2>2. /\ assigned[id] \in Nat /\ Explained(id) \in Nat /\ Owing(By(id)) \in Nat
        /\ assigned[id] + (IF work[By(id)].id = id THEN Owing(By(id)) ELSE 0) <= Explained(id)
    BY <2>1, AccountTypes DEF Accounted
  <2>3. Owing(By(id))' = 0
    BY <1>4, <2>1 DEF By
  <2> QED
    BY <1>1, <2>2, <2>3
<1> QED
  BY <1>3, <1>5, <1>6 DEF Accounted, By

\* An event is sent: it is not delivered yet.
LEMMA AccountsSend ==
    ASSUME TypeOK, Honest, Accounted, NEW event \in GitHubEvents,
           NEW action \in {"opened", "created", "closed", "none"}, NEW it \in Item,
           Send(event, action, it), UNCHANGED <<actions, work, assigned, faults>>
    PROVE  Honest' /\ Accounted'
<1> DEFINE e == Event(event, action, it)
           n == Len(sent) + 1
<1>1. /\ sent \in Seq(Message) /\ attempts \in Seq(0 .. MaxAttempts)
      /\ Len(attempts) = Len(sent) /\ Len(sent) \in Nat /\ DOMAIN sent = 1 .. Len(sent)
  BY DEF TypeOK
<1>2. sent' = Append(sent, e) /\ attempts' = Append(attempts, 0) /\ e \in Message
  BY EventOK DEF Send
<1> HIDE DEF e
<1>3. /\ DOMAIN sent' = DOMAIN sent \cup {n} /\ n \notin DOMAIN sent /\ n # 0
      /\ \A i \in DOMAIN sent : sent'[i] = sent[i] /\ attempts'[i] = attempts[i]
      /\ attempts'[n] = 0 /\ sent'[n] = e
  <2> DEFINE S == 0 .. MaxAttempts
  <2>1. attempts \in Seq(S) /\ 0 \in S
    BY <1>1, BoundsAssumption
  <2> HIDE DEF S
  <2>2. /\ Append(attempts, 0)[n] = 0
        /\ \A i \in 1 .. Len(sent) : Append(attempts, 0)[i] = attempts[i]
    BY <1>1, <2>1, AppendProperties
  <2>3. /\ DOMAIN sent' = 1 .. n /\ n \in Nat /\ sent'[n] = e
        /\ \A i \in 1 .. Len(sent) : sent'[i] = sent[i]
    BY <1>1, <1>2, AppendProperties
  <2>4. 1 .. n = DOMAIN sent \cup {n} /\ n \notin DOMAIN sent /\ n # 0
    BY <1>1
  <2>5. /\ \A i \in DOMAIN sent : sent'[i] = sent[i]
        /\ \A i \in DOMAIN sent : attempts'[i] = attempts[i]
        /\ attempts'[n] = 0
    BY <1>1, <1>2, <2>2, <2>3
  <2>6. DOMAIN sent' = DOMAIN sent \cup {n}
    BY <2>3, <2>4
  <2> HIDE DEF n
  <2> QED
    BY <2>3, <2>4, <2>5, <2>6
<1> HIDE DEF n
<1>4. \A m : Triggered(m)' = Triggered(m)
  BY DEF Triggered, Places
<1>5. \A P : AssignsIn(P)' = AssignsIn(P)
  BY DEF AssignsIn
<1>6. work["consumer"].pc # "idle" => work["consumer"].id \in DOMAIN sent
  BY DEF TypeOK
<1>7. Honest'
  <2>1. ASSUME work["consumer"].pc # "idle"
        PROVE  /\ sent'[work["consumer"].id] = sent[work["consumer"].id]
               /\ Triggered(sent[work["consumer"].id])' = Triggered(sent[work["consumer"].id])
    BY <1>3, <1>4, <1>6, <2>1
  <2>2. \A w : Op(w)' = Op(w)
    BY SameOp
  <2> QED
    BY <2>1, <2>2 DEF Honest
<1>8. ASSUME NEW w \in Workers
      PROVE  Owing(w)' = Owing(w)
  <2>1. Stale(work["consumer"].id)' = Stale(work["consumer"].id) \/ work["consumer"].pc = "idle"
    BY <1>3, <1>6 DEF Stale
  <2>2. AssignsIn(work[w].todo)' = AssignsIn(work[w].todo)
    BY DEF AssignsIn
  <2> QED
    BY <2>1, <2>2 DEF Owing, Workers
<1>9. ASSUME NEW id \in 0 .. MaxEvents
      PROVE  Explained(id)' = Explained(id)
  <2>1. CASE id = 0
    BY <2>1 DEF Explained, AssignsIn, Places
  <2>2. CASE id # 0 /\ id \in DOMAIN sent
    <3>1. sent'[id] = sent[id] /\ attempts'[id] = attempts[id] /\ Stale(id)' = Stale(id)
      BY <1>3, <2>2 DEF Stale
    <3>2. AssignsIn(Triggered(sent[id]))' = AssignsIn(Triggered(sent[id]))
      BY <1>4, <1>5, <3>1
    <3> QED
      BY <2>2, <3>1, <3>2 DEF Explained
  <2>3. CASE id # 0 /\ id \notin DOMAIN sent
    <3>1. Explained(id) = 0
      BY <2>3 DEF Explained, Stale
    <3>2. CASE id = n
      <4>1. AssignsIn(Triggered(sent[id]))' \in Nat
        <5>1. Triggered(e) \in SUBSET AllPlaces /\ Decoded(actions)
          BY <1>2, TriggeredOK DEF TypeOK
        <5>2. AssignsIn(Triggered(e)) \in Nat
          BY <5>1, AssignsSubset
        <5>3. Triggered(sent[id])' = Triggered(e)
          BY <1>3, <3>2 DEF Triggered, Places
        <5> QED
          BY <5>2, <5>3 DEF AssignsIn
      <4>2. attempts'[id] = 0
        BY <1>3, <3>2
      <4>3. \A k \in Nat : 0 * k = 0
        OBVIOUS
      <4> QED
        BY <2>3, <3>1, <4>1, <4>2, <4>3 DEF Explained
    <3>3. CASE id # n
      BY <1>3, <2>3, <3>1, <3>3 DEF Explained, Stale
    <3> QED
      BY <3>2, <3>3
  <2> QED
    BY <2>1, <2>2, <2>3
<1>10. ASSUME NEW id \in 0 .. MaxEvents
       PROVE  assigned'[id] + (IF work'[By(id)].id = id THEN Owing(By(id))' ELSE 0) <= Explained(id)'
  <2>1. Owing(By(id))' = Owing(By(id))
    BY <1>8 DEF By, Workers
  <2> QED
    BY <1>9, <2>1 DEF Accounted
<1> QED
  BY <1>7, <1>10 DEF Accounted, By

\* A delivery accounts for all that its event makes the consumer owe.
LEMMA AccountsDeliver ==
    ASSUME TypeOK, Honest, Accounted, NEW m \in DOMAIN sent, Deliver(m)
    PROVE  Honest' /\ Accounted'
<1>1. /\ work["consumer"].pc = "idle" /\ work'["job"] = work["job"]
      /\ work'["consumer"].pc = "next" /\ work'["consumer"].id = m
      /\ work'["consumer"].todo = Triggered(sent[m]) /\ work'["consumer"].x = sent[m].x
      /\ UNCHANGED <<actions, sent, assigned, faults>>
  BY DEF Deliver, Task, TypeOK, Workers, history
<1>2. /\ attempts'[m] = attempts[m] + 1
      /\ \A i \in DOMAIN sent \ {m} : attempts'[i] = attempts[i]
  BY DEF Deliver, TypeOK
<1>3. \A q : Triggered(q)' = Triggered(q)
  BY <1>1 DEF Triggered, Places
<1>4. \A P : AssignsIn(P)' = AssignsIn(P)
  BY <1>1 DEF AssignsIn
<1>5. \A i : Stale(i)' = Stale(i)
  BY <1>1 DEF Stale
<1>6. Honest'
  <2>1. Triggered(sent[m])' = Triggered(sent[m])
    BY <1>1, <1>3
  <2>2. Op("job")' = Op("job")
    BY <1>1, SameOp
  <2> QED
    BY <1>1, <2>1, <2>2 DEF Honest, Workers
<1>7. Owing("job")' = Owing("job")
  <2>1. AssignsIn(work["job"].todo)' = AssignsIn(work["job"].todo)
    BY <1>1, <1>4
  <2> QED
    BY <1>1, <2>1 DEF Owing
<1>8. Owing("consumer") = 0 /\ Owing("consumer")' = IF Stale(m) THEN AssignsIn(Triggered(sent[m])) ELSE 0
  <2>1. AssignsIn(work["consumer"].todo)' = AssignsIn(Triggered(sent[m]))
    BY <1>1 DEF AssignsIn
  <2>2. Stale(work["consumer"].id)' = Stale(m)
    BY <1>1 DEF Stale
  <2> QED
    BY <1>1, <2>1, <2>2 DEF Owing
<1>9. ASSUME NEW id \in 0 .. MaxEvents
      PROVE  Explained(id)' = Explained(id) + (IF id = m THEN Owing("consumer")' ELSE 0)
  <2>0. m # 0 /\ Explained(id) \in Nat
    BY AccountTypes DEF TypeOK
  <2>1. CASE id = 0
    <3>1. Explained(id)' = Explained(id)
      BY <1>1, <2>1 DEF Explained, AssignsIn, Places
    <3> QED
      BY <2>0, <2>1, <3>1
  <2>2. CASE id # 0 /\ ~Stale(id)
    BY <1>5, <1>8, <2>2 DEF Explained
  <2>3. CASE id # 0 /\ Stale(id)
    <3>1. AssignsIn(Triggered(sent[id]))' = AssignsIn(Triggered(sent[id]))
      <4>1. Triggered(sent[id])' = Triggered(sent[id])
        BY <1>1, <1>3
      <4> QED
        BY <1>4, <4>1
    <3>2. /\ Explained(id) = attempts[id] * AssignsIn(Triggered(sent[id]))
          /\ Explained(id)' = attempts'[id] * AssignsIn(Triggered(sent[id]))
      BY <1>5, <2>3, <3>1 DEF Explained
    <3>3. CASE id = m
      <4>1. attempts[id] \in Nat /\ AssignsIn(Triggered(sent[id])) \in Nat
        <5>1. sent[id] \in Message /\ Decoded(actions)
          BY <3>3 DEF TypeOK
        <5>2. AssignsIn(Triggered(sent[id])) \in Nat
          BY <5>1, TriggeredOK, AssignsSubset
        <5>3. attempts[id] \in Nat
          <6> DEFINE S == 0 .. MaxAttempts
          <6>1. attempts \in Seq(S) /\ id \in 1 .. Len(attempts)
            BY <3>3 DEF TypeOK
          <6> HIDE DEF S
          <6>2. attempts[id] \in S
            BY <6>1, ElementOfSeq
          <6> QED
            BY <6>2 DEF S
        <5> QED
          BY <5>2, <5>3
      <4>2. \A a, k \in Nat : (a + 1) * k = a * k + k
        OBVIOUS
      <4> QED
        BY <1>2, <1>8, <2>3, <3>2, <3>3, <4>1, <4>2
    <3>4. CASE id # m
      <4>1. attempts'[id] = attempts[id]
        BY <1>2, <2>3, <3>4 DEF Stale
      <4> QED
        BY <2>0, <3>2, <3>4, <4>1
    <3> QED
      BY <3>3, <3>4
  <2> QED
    BY <2>1, <2>2, <2>3
<1>10. ASSUME NEW id \in 0 .. MaxEvents
       PROVE  assigned'[id] + (IF work'[By(id)].id = id THEN Owing(By(id))' ELSE 0) <= Explained(id)'
  <2>1. assigned[id] + (IF work[By(id)].id = id THEN Owing(By(id)) ELSE 0) <= Explained(id)
    BY DEF Accounted
  <2>2. m # 0 /\ assigned[id] \in Nat /\ Explained(id) \in Nat
    BY AccountTypes DEF TypeOK
  <2>3. CASE id = 0
    <3>1. By(id) = "job" /\ Explained(id)' = Explained(id)
      BY <1>9, <2>2, <2>3 DEF By
    <3> QED
      BY <1>1, <1>7, <2>1, <3>1
  <2>4. CASE id # 0
    <3>1. By(id) = "consumer" /\ assigned[id] <= Explained(id)
      BY <1>8, <2>1, <2>2, <2>4 DEF By
    <3>2. Owing("consumer")' \in Nat
      BY <1>8, TriggeredOK, AssignsSubset DEF TypeOK
    <3> QED
      BY <1>1, <1>9, <2>2, <3>1, <3>2
  <2> QED
    BY <2>3, <2>4
<1> QED
  BY <1>6, <1>10 DEF Accounted, By

\* So does a job.
LEMMA AccountsJob ==
    ASSUME TypeOK, Honest, Accounted, NEW a \in DOMAIN actions, StartJob(a)
    PROVE  Honest' /\ Accounted'
<1>1. /\ work["job"].pc = "idle" /\ work'["consumer"] = work["consumer"]
      /\ work'["job"].pc = "next" /\ work'["job"].id = 0
      /\ work'["job"].todo = Places({a}, Payloads)
      /\ faults'.jobs = faults.jobs + 1 /\ faults.jobs \in Nat
      /\ UNCHANGED <<actions, sent, attempts, assigned>>
  BY DEF StartJob, Task, TypeOK, Workers, history, nsqd
<1>2. \A q : Triggered(q)' = Triggered(q)
  BY <1>1 DEF Triggered, Places
<1>3. Honest'
  <2>1. Triggered(sent[work["consumer"].id])' = Triggered(sent[work["consumer"].id])
    BY <1>1, <1>2
  <2>2. Op("consumer")' = Op("consumer")
    BY <1>1, SameOp
  <2> QED
    BY <1>1, <2>1, <2>2 DEF Honest, Workers
<1>4. Owing("consumer")' = Owing("consumer")
  <2>1. /\ AssignsIn(work["consumer"].todo)' = AssignsIn(work["consumer"].todo)
        /\ Stale(work["consumer"].id)' = Stale(work["consumer"].id)
    BY <1>1 DEF AssignsIn, Stale
  <2> QED
    BY <1>1, <2>1 DEF Owing
<1>5. /\ Owing("job") = 0 /\ Owing("job")' \in Nat /\ AssignsIn(AllPlaces) \in Nat
      /\ Owing("job")' <= AssignsIn(AllPlaces)
  <2>1. Places({a}, Payloads) \in SUBSET AllPlaces /\ Decoded(actions)
    BY DEF AllPlaces, Places, TypeOK
  <2>2. Owing("job")' = AssignsIn(Places({a}, Payloads))
    <3>1. AssignsIn(work["job"].todo)' = AssignsIn(Places({a}, Payloads))
      BY <1>1 DEF AssignsIn
    <3> QED
      BY <1>1, <3>1 DEF Owing
  <2> QED
    BY <1>1, <2>1, <2>2, AssignsSubset DEF Owing
<1>6. Explained(0)' = Explained(0) + AssignsIn(AllPlaces)
  <2>1. /\ Explained(0) = faults.jobs * AssignsIn(AllPlaces)
        /\ Explained(0)' = (faults.jobs + 1) * AssignsIn(AllPlaces)
    BY <1>1 DEF Explained, AssignsIn, Places, AllPlaces
  <2>2. \A j, k \in Nat : (j + 1) * k = j * k + k
    OBVIOUS
  <2> QED
    BY <1>1, <1>5, <2>1, <2>2
<1>7. ASSUME NEW id \in 0 .. MaxEvents, id # 0
      PROVE  Explained(id)' = Explained(id)
  <2>1. /\ Stale(id)' = Stale(id)
        /\ AssignsIn(Triggered(sent[id]))' = AssignsIn(Triggered(sent[id]))
    BY <1>1 DEF Stale, AssignsIn, Triggered, Places
  <2> QED
    BY <1>1, <1>7, <2>1 DEF Explained
<1>8. ASSUME NEW id \in 0 .. MaxEvents
      PROVE  assigned'[id] + (IF work'[By(id)].id = id THEN Owing(By(id))' ELSE 0) <= Explained(id)'
  <2>1. assigned[id] + (IF work[By(id)].id = id THEN Owing(By(id)) ELSE 0) <= Explained(id)
    BY DEF Accounted
  <2>2. assigned[id] \in Nat /\ Explained(id) \in Nat
    BY AccountTypes
  <2>3. CASE id = 0
    <3>1. By(id) = "job" /\ assigned[id] <= Explained(id)
      BY <1>5, <2>1, <2>2, <2>3 DEF By
    <3> QED
      BY <1>1, <1>5, <1>6, <2>2, <2>3, <3>1
  <2>4. CASE id # 0
    <3>1. By(id) = "consumer" /\ Explained(id)' = Explained(id)
      BY <1>7, <2>4 DEF By
    <3> QED
      BY <1>1, <1>4, <2>1, <3>1
  <2> QED
    BY <2>3, <2>4
<1> QED
  BY <1>3, <1>8 DEF Accounted, By

-----------------------------------------------------------------------------
\* At first nothing is assigned and nothing owed.
LEMMA AccountsInit == Init => AInv
<1> SUFFICES ASSUME Init PROVE AInv
  OBVIOUS
<1>1. Free.pc = "idle" /\ work = [w \in Workers |-> Free]
  BY DEF Free, Task, Init
<1>2. TypeOK /\ Busy
  BY <1>1, InitOK DEF Busy
<1>3. Honest
  BY <1>1 DEF Honest, Workers
<1>4. Accounted
  <2> SUFFICES ASSUME NEW id \in 0 .. MaxEvents
               PROVE  assigned[id] + (IF work[By(id)].id = id THEN Owing(By(id)) ELSE 0) <= Explained(id)
    BY DEF Accounted
  <2>1. assigned[id] = 0
    BY DEF Init
  <2>2. Owing(By(id)) = 0
    BY <1>1 DEF Owing, By, Workers
  <2>3. Explained(id) \in Nat
    BY <1>2, AccountTypes
  <2> QED
    BY <2>1, <2>2, <2>3
<1> QED
  BY <1>2, <1>3, <1>4 DEF AInv

\* The invariant is inductive.
LEMMA AccountsNext == AInv /\ [Next]_vars => AInv'
<1> SUFFICES ASSUME TypeOK, Busy, Honest, Accounted, [Next]_vars PROVE AInv'
  BY DEF AInv
<1>1. TypeOK' /\ Busy'
  BY NextOK
<1>2. SUFFICES Honest' /\ Accounted'
  BY <1>1 DEF AInv
<1>3. CASE UNCHANGED vars
  BY <1>3, AccountsKept DEF vars, nsqd, history
<1>4. CASE SetMilestone \/ Release \/ Signal \/ Restart
  <2>1. UNCHANGED <<actions, sent, attempts, work, assigned>> /\ faults'.jobs = faults.jobs
    BY <1>4 DEF SetMilestone, Release, Signal, Restart, nsqd, history, TypeOK
  <2> QED
    BY <2>1, AccountsKept
<1>5. ASSUME NEW word \in Words, NEW event \in {"issue_comment", "pull_request_review_comment"},
             Comment(event, word)
      PROVE  Honest' /\ Accounted'
  BY <1>1, <1>5, AccountsSend DEF Comment, GitHubEvents, TypeOK, history
<1>6. CASE Push
  BY <1>6, AccountsSend DEF Push, GitHubEvents, TypeOK, history
<1>7. CASE Merge
  BY <1>1, <1>7, AccountsSend DEF Merge, GitHubEvents, TypeOK
<1>8. ASSUME NEW id \in DOMAIN sent, Deliver(id)
      PROVE  Honest' /\ Accounted'
  BY <1>8, AccountsDeliver
<1>9. ASSUME NEW id \in DOMAIN sent, GiveUp(id)
      PROVE  Honest' /\ Accounted'
  BY <1>9, AccountsKept DEF GiveUp, history
<1>10. ASSUME NEW a \in DOMAIN actions, StartJob(a)
       PROVE  Honest' /\ Accounted'
  BY <1>10, AccountsJob
<1>11. CASE Stopped \/ Exit
  BY <1>11, AccountsDie DEF Stopped, Exit
<1>12. ASSUME NEW w \in Workers, Advances(w) \/ Faults(w)
       PROVE  Honest' /\ Accounted'
  <2>1. CASE Panic(w)
    BY <2>1, AccountsDie DEF Panic
  <2>2. CASE ~Panic(w)
    <3>1. PICK r : Step(w, r)
      BY <1>12, <2>2, WorkerSteps
    <3> QED
      BY <1>1, <3>1, HonestStep, AccountedStep
  <2> QED
    BY <2>1, <2>2
<1> QED
  BY <1>3, <1>4, <1>5, <1>6, <1>7, <1>8, <1>9, <1>10, <1>11, <1>12 DEF Next, People, Takes

(***************************************************************************)
(* random-assign.go:73: for any configuration, delays, failures, panics    *)
(* and restarts, an event that shows the item assigned makes the server    *)
(* assign nobody, and one that does not, or a job, at most one user per    *)
(* delivery and operation random-assign that it comes to.                  *)
(***************************************************************************)
THEOREM AssignmentsAreExplained == Spec => []AssignmentsExplained
<1>1. AInv => AssignmentsExplained
  <2> SUFFICES ASSUME TypeOK, Accounted, NEW id \in 0 .. MaxEvents
               PROVE  assigned[id] <= Explained(id)
    BY DEF AInv, AssignmentsExplained
  <2>1. By(id) \in Workers
    BY DEF By, Workers
  <2>2. /\ assigned[id] \in Nat /\ Owing(By(id)) \in Nat /\ Explained(id) \in Nat
        /\ assigned[id] + (IF work[By(id)].id = id THEN Owing(By(id)) ELSE 0) <= Explained(id)
    BY <2>1, AccountTypes DEF Accounted
  <2> QED
    BY <2>2
<1> QED
  BY <1>1, AccountsInit, AccountsNext, PTL DEF Spec

=============================================================================
