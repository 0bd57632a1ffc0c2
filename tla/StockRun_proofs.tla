--------------------------- MODULE StockRun_proofs ---------------------------
(***************************************************************************)
(* Proofs about StockRun, for any items, filters, jobs, passes and size of *)
(* a page: a dry run leaves the items alone, a recent comment saves one of *)
(* them if it is not crowded, and a pass over a listing that stands still  *)
(* is complete.                                                            *)
(***************************************************************************)
EXTENDS StockRun, FunctionTheorems, FiniteSetTheorems, SequenceTheorems, TLAPS

Listings == [item : Items, fresh : BOOLEAN]
Job == [pc : {"off", "list", "item", "apply"}, pass : 0..Len(Passes), page : Nat,
        left : Seq(Listings), next : Nat, seen : SUBSET Items, from : SUBSET Items,
        calm : BOOLEAN, late : BOOLEAN]

\* What holds of the local variables w of a job.
Local(w) ==
    /\ w \in Job
    /\ w.pc # "off" => w.pass \in 1..Len(Passes) /\ w.page >= 1
    /\ w.pc = "apply" =>
          /\ ~dry /\ w.left # <<>>
          /\ Head(w.left).item \in Matched \cap w.seen

TypeInv ==
    /\ TypeOK
    /\ dry \in BOOLEAN
    /\ job \in [Jobs -> Job]
    /\ \A j \in Jobs : Local(job[j])

-----------------------------------------------------------------------------
\* The local variables of a job that is not running, or begins a pass.
LEMMA OffLocal == Local(Off)
<1>1. <<>> \in Seq(Listings)
  BY EmptySeq
<1> QED
  BY <1>1, StockAssumption DEF Local, Off, Job

\* The local variables of a job that begins one of its passes.
LEMMA BeginLocal ==
    ASSUME TypeOK, NEW k \in 1..Len(Passes)
    PROVE  Local(Begin(k))
<1>1. <<>> \in Seq(Listings)
  BY EmptySeq
<1>2. Open \subseteq Items
  BY DEF TypeOK, Open
<1> QED
  BY <1>1, <1>2, StockAssumption DEF Local, Begin, Job

\* An open item is in the listing once.
Once == order \in Seq(Items) /\ \A a, b \in DOMAIN order : order[a] = order[b] => a = b

\* Without leaves the item out, and nothing becomes a duplicate.
LEMMA WithoutType ==
    ASSUME Once, NEW i \in Items
    PROVE  /\ Without(i) \in Seq(Items)
           /\ \A a, b \in DOMAIN Without(i) : Without(i)[a] = Without(i)[b] => a = b
           /\ \A a \in DOMAIN Without(i) : Without(i)[a] # i
<1>1. CASE i \notin Open
  BY <1>1 DEF Without, Once, Open
<1>2. CASE i \in Open
  <2> DEFINE k == CHOOSE k \in DOMAIN order : order[k] = i
             s == SubSeq(order, 1, k - 1)
             t == SubSeq(order, k + 1, Len(order))
  <2>1. k \in 1..Len(order) /\ order[k] = i /\ Len(order) \in Nat
    BY <1>2 DEF Open, Once
  <2> HIDE DEF k
  <2>2. /\ s \in Seq(Items) /\ Len(s) = k - 1
        /\ \A a \in 1..(k - 1) : s[a] = order[a]
    BY <2>1, SubSeqProperties DEF Once
  <2>3. /\ t \in Seq(Items) /\ Len(t) = Len(order) - k
        /\ \A a \in 1..(Len(order) - k) : t[a] = order[k + a]
    BY <2>1, SubSeqProperties DEF Once
  <2>4. Without(i) = s \o t
    BY <1>2 DEF Without, k
  <2> HIDE DEF s, t
  <2>5. /\ s \o t \in Seq(Items) /\ Len(s \o t) = Len(order) - 1
        /\ \A a \in 1..(Len(order) - 1) :
              (s \o t)[a] = IF a <= k - 1 THEN order[a] ELSE order[a + 1]
    <3>1. /\ s \o t \in Seq(Items) /\ Len(s \o t) = Len(s) + Len(t)
          /\ \A a \in 1..(Len(s) + Len(t)) :
                (s \o t)[a] = IF a <= Len(s) THEN s[a] ELSE t[a - Len(s)]
      BY <2>2, <2>3, ConcatProperties
    <3> DEFINE u == s \o t
    <3>2. /\ u \in Seq(Items) /\ Len(u) = Len(s) + Len(t)
          /\ \A a \in 1..(Len(s) + Len(t)) :
                u[a] = IF a <= Len(s) THEN s[a] ELSE t[a - Len(s)]
      BY <3>1
    <3> HIDE DEF u
    <3>3. Len(s) + Len(t) = Len(order) - 1
      BY <2>1, <2>2, <2>3
    <3>4. ASSUME NEW a \in 1..(Len(order) - 1)
          PROVE  u[a] = IF a <= k - 1 THEN order[a] ELSE order[a + 1]
      <4>1. CASE a <= k - 1
        BY <2>1, <2>2, <3>2, <3>3, <3>4, <4>1
      <4>2. CASE ~(a <= k - 1)
        <5>1. a - (k - 1) \in 1..(Len(order) - k)
          BY <2>1, <3>4, <4>2
        <5>2. t[a - (k - 1)] = order[k + (a - (k - 1))] /\ k + (a - (k - 1)) = a + 1
          BY <2>1, <2>3, <3>4, <5>1
        <5> QED
          BY <2>2, <3>2, <3>3, <3>4, <4>2, <5>2
      <4> QED
        BY <4>1, <4>2
    <3> QED
      BY <3>2, <3>3, <3>4 DEF u
  <2> DEFINE u == s \o t
  <2> HIDE DEF u
  <2>6. /\ u \in Seq(Items) /\ Len(u) = Len(order) - 1 /\ DOMAIN u = 1..(Len(order) - 1)
        /\ \A a \in 1..(Len(order) - 1) : u[a] = IF a <= k - 1 THEN order[a] ELSE order[a + 1]
    BY <2>5 DEF u
  <2>7. \A a, b \in DOMAIN u : u[a] = u[b] => a = b
    <3> DEFINE at(a) == IF a <= k - 1 THEN a ELSE a + 1
    <3>1. \A a \in DOMAIN u : u[a] = order[at(a)] /\ at(a) \in DOMAIN order /\ a \in Nat
      BY <2>1, <2>6 DEF Once
    <3>2. \A a, b \in Nat : at(a) = at(b) => a = b
      BY <2>1
    <3> HIDE DEF at
    <3> QED
      BY <3>1, <3>2 DEF Once
  <2>8. \A a \in DOMAIN u : u[a] # i
    BY <2>1, <2>6 DEF Once
  <2> QED
    BY <2>4, <2>6, <2>7, <2>8 DEF u
<1> QED
  BY <1>1, <1>2

\* An update puts the item back, once.
LEMMA TouchType ==
    ASSUME Once, fresh \in [Items -> BOOLEAN], NEW i \in Items, Touch(i)
    PROVE  Once' /\ fresh' \in [Items -> BOOLEAN]
<1> DEFINE s == Without(i)
<1>1. /\ s \in Seq(Items)
      /\ \A a, b \in DOMAIN s : s[a] = s[b] => a = b
      /\ \A a \in DOMAIN s : s[a] # i
  BY WithoutType
<1>2. order' = Append(s, i) /\ fresh' \in [Items -> BOOLEAN]
  BY DEF Touch
<1> HIDE DEF s
<1>3. /\ order' \in Seq(Items) /\ Len(order') = Len(s) + 1 /\ Len(s) \in Nat
      /\ \A a \in 1..Len(s) : order'[a] = s[a]
      /\ order'[Len(s) + 1] = i
  BY <1>1, <1>2
<1>4. DOMAIN s = 1..Len(s) /\ DOMAIN order' = 1..(Len(s) + 1)
  BY <1>1, <1>3
<1> QED
  BY <1>1, <1>2, <1>3, <1>4 DEF Once

-----------------------------------------------------------------------------
(***************************************************************************)
(* What a step of somebody else leaves of a job, Same, and what the Apply  *)
(* of the job itself does to it.                                           *)
(***************************************************************************)
Carried(k) ==
    /\ job'[k] \in Job
    /\ job'[k].pass = job[k].pass /\ job'[k].page = job[k].page
    /\ job'[k].next = job[k].next /\ job'[k].seen = job[k].seen
    /\ job'[k].from = job[k].from
    /\ job'[k].calm => job[k].calm /\ order' = order

Same(k) ==
    /\ Carried(k)
    /\ job'[k].pc = job[k].pc /\ job'[k].left = job[k].left
    /\ job[k].late => job'[k].late
    /\ \A i \in Items :
          human'[i] = "recent" /\ human[i] # "recent" /\ AtItem(k, i) => job'[k].late

Applied(k) ==
    /\ Carried(k)
    /\ job[k].pc = "apply" /\ job'[k].pc = "item" /\ job'[k].left = Tail(job[k].left)

\* The end of an Apply, of a job that goes on or is aborted.
LEMMA AppliedSame ==
    ASSUME job \in [Jobs -> Job], NEW j \in Jobs, NEW w,
           job' = [(IF order' = order THEN job ELSE Disturbed) EXCEPT ![j] = w],
           UNCHANGED human
    PROVE  \A k \in Jobs : k # j => Same(k)
<1> SUFFICES ASSUME NEW k \in Jobs, k # j PROVE Same(k)
  OBVIOUS
<1>1. job[k] \in Job /\ [job[k] EXCEPT !.calm = FALSE] \in Job
  BY DEF Job
<1>2. CASE order' = order
  <2>1. job'[k] = job[k]
    BY <1>2
  <2> QED
    BY <1>1, <1>2, <2>1 DEF Same, Carried
<1>3. CASE order' # order
  <2>1. job'[k] = [job[k] EXCEPT !.calm = FALSE]
    BY <1>3 DEF Disturbed
  <2> QED
    BY <1>1, <2>1 DEF Same, Carried, Job
<1> QED
  BY <1>2, <1>3

\* Every step, as a job sees it.
LEMMA JobSteps ==
    ASSUME TypeInv, [Next]_vars, NEW k \in Jobs
    PROVE  \/ Same(k)
           \/ job'[k] = Off
           \/ UNCHANGED items /\ job[k].pc = "off" /\ job'[k] = Begin(1)
           \/ List(k) \/ Filter(k) \/ NextPage(k) \/ Applied(k)
<1>1. job \in [Jobs -> Job] /\ job[k] \in Job
  BY DEF TypeInv
<1>2. ASSUME NEW i \in Items, Comment(i) PROVE Same(k)
  <2> DEFINE late == job[k].late \/ AtItem(k, i)
  <2>1. job'[k] = [[job[k] EXCEPT !.calm = FALSE] EXCEPT !.late = late]
    BY <1>1, <1>2 DEF Comment, Disturbed, Job
  <2>2. late \in BOOLEAN
    BY DEF AtItem
  <2> HIDE DEF late
  <2>3. /\ job'[k] \in Job /\ job'[k].late = late /\ ~job'[k].calm
        /\ job'[k].pc = job[k].pc /\ job'[k].left = job[k].left
        /\ job'[k].pass = job[k].pass /\ job'[k].page = job[k].page
        /\ job'[k].next = job[k].next /\ job'[k].seen = job[k].seen
        /\ job'[k].from = job[k].from
    BY <1>1, <2>1, <2>2 DEF Job
  <2>4. \A x \in Items : human'[x] = "recent" /\ human[x] # "recent" => x = i
    BY <1>2 DEF Comment, TypeInv, TypeOK
  <2> QED
    BY <2>3, <2>4 DEF Same, Carried, late
<1>3. ASSUME NEW i \in Items, Close(i) PROVE Same(k)
  <2>1. job'[k] = [job[k] EXCEPT !.calm = FALSE] /\ UNCHANGED human
    BY <1>3 DEF Close, Disturbed
  <2> QED
    BY <1>1, <2>1 DEF Same, Carried, Job
<1>4. ASSUME NEW i \in Items, Age(i) PROVE Same(k)
  <2>1. job' = job /\ order' = order
    BY <1>4 DEF Age
  <2>2. \A x \in Items : human'[x] = "recent" => human[x] = "recent"
    BY <1>4 DEF Age, TypeInv, TypeOK
  <2> QED
    BY <1>1, <2>1, <2>2 DEF Same, Carried
<1>5. CASE UNCHANGED vars
  BY <1>1, <1>5 DEF vars, items, Same, Carried
<1>6. ASSUME NEW j \in Jobs, j # k, UNCHANGED items,
             \E w : job' = [job EXCEPT ![j] = w]
      PROVE  Same(k)
  BY <1>1, <1>6 DEF items, Same, Carried
<1>7. ASSUME NEW j \in Jobs, Fire(j)
      PROVE  Same(k) \/ (UNCHANGED items /\ job[k].pc = "off" /\ job'[k] = Begin(1))
  BY <1>1, <1>6, <1>7 DEF Fire
<1>8. ASSUME NEW j \in Jobs, j # k, List(j) \/ Filter(j) \/ NextPage(j) PROVE Same(k)
  <2>1. UNCHANGED items /\ job'[k] = job[k]
    BY <1>1, <1>8 DEF List, Filter, NextPage
  <2> QED
    BY <1>1, <2>1 DEF items, Same, Carried
<1>9. ASSUME NEW j \in Jobs, Apply(j) PROVE Same(k) \/ Applied(k)
  <2> DEFINE old == IF order' = order THEN job ELSE Disturbed
             w == [old[j] EXCEPT !.pc = "item", !.left = Tail(@)]
  <2>1. old \in [Jobs -> Job]
    BY <1>1 DEF Disturbed, Job
  <2>2. job' = [old EXCEPT ![j] = w] /\ UNCHANGED human /\ job[j].pc = "apply"
    BY <1>9, <2>1 DEF Apply
  <2>3. CASE j # k
    BY <1>1, <2>2, <2>3, AppliedSame
  <2>4. CASE j = k
    <3>1. job'[k] = w
      BY <2>1, <2>2, <2>4
    <3>2. Tail(job[k].left) \in Seq(Listings)
      BY <1>1, <2>2, <2>4, HeadTailProperties DEF Job, TypeInv, Local
    <3>3. CASE order' = order
      BY <1>1, <2>2, <2>4, <3>1, <3>2, <3>3 DEF Applied, Carried, Job
    <3>4. CASE order' # order
      <4>1. old[j] = [job[k] EXCEPT !.calm = FALSE]
        BY <2>4, <3>4 DEF Disturbed
      <4>2. old[j] \in Job /\ ~old[j].calm /\ old[j].left = job[k].left
        BY <1>1, <4>1 DEF Job
      <4>3. job'[k] \in Job /\ ~job'[k].calm /\ job'[k].pc = "item"
            /\ job'[k].left = Tail(job[k].left)
        <5> DEFINE v == old[j]
        <5>1. v \in Job /\ ~v.calm /\ v.left = job[k].left
          BY <4>2
        <5> DEFINE rest == Tail(job[k].left)
        <5>2. job'[k] = [v EXCEPT !.pc = "item", !.left = rest]
          BY <3>1, <4>2
        <5>3. rest \in Seq(Listings)
          BY <3>2
        <5> HIDE DEF v, rest, old, w
        <5>4. job'[k] \in Job
          BY <5>1, <5>2, <5>3 DEF Job
        <5>5. ~job'[k].calm /\ job'[k].pc = "item" /\ job'[k].left = rest
          BY <5>1, <5>2 DEF Job
        <5> QED
          BY <5>4, <5>5 DEF rest
      <4>4. /\ job'[k].pass = job[k].pass /\ job'[k].page = job[k].page
            /\ job'[k].next = job[k].next /\ job'[k].seen = job[k].seen
            /\ job'[k].from = job[k].from
        BY <1>1, <3>1, <4>1 DEF Job
      <4> QED
        BY <2>2, <2>4, <4>3, <4>4 DEF Applied, Carried
    <3> QED
      BY <3>3, <3>4
  <2> QED
    BY <2>3, <2>4
<1>10. ASSUME NEW j \in Jobs, Abort(j) PROVE Same(k) \/ job'[k] = Off
  <2>1. CASE job' = [job EXCEPT ![j] = Off] /\ UNCHANGED items
    BY <1>1, <1>6, <2>1
  <2>2. CASE job' = [(IF order' = order THEN job ELSE Disturbed) EXCEPT ![j] = Off] /\ UNCHANGED human
    <3>1. (IF order' = order THEN job ELSE Disturbed) \in [Jobs -> Job]
      BY <1>1 DEF Disturbed, Job
    <3> QED
      BY <1>1, <2>2, <3>1, AppliedSame
  <2> QED
    BY <1>10, <2>1, <2>2 DEF Abort
<1> QED
  BY <1>2, <1>3, <1>4, <1>5, <1>7, <1>8, <1>9, <1>10 DEF Next, Run

-----------------------------------------------------------------------------
(***************************************************************************)
(* Items are numbered differently, so there is one listing by creation:    *)
(* the rank of an item, how many are not older, is a bijection, and its    *)
(* inverse is such a listing.  It lists every item of S.                   *)
(***************************************************************************)
LEMMA ByCreationIs ==
    ASSUME NEW S \in SUBSET Items
    PROVE  /\ Cardinality(S) \in Nat
           /\ ByCreation(S) \in [1..Cardinality(S) -> S]
           /\ \A x \in S : \E a \in 1..Cardinality(S) : ByCreation(S)[a] = x
<1> DEFINE n == Cardinality(S)
           Later(x) == { y \in S : Number[y] >= Number[x] }
           r == [x \in S |-> Cardinality(Later(x))]
           Decreasing(s) == \A a, b \in DOMAIN s : a < b => Number[s[a]] > Number[s[b]]
<1>1. IsFiniteSet(S) /\ n \in Nat
  BY FS_Subset, FS_CardinalityType, StockAssumption
<1>2. /\ \A x \in S : Number[x] \in Nat
      /\ \A x, y \in S : Number[x] = Number[y] => x = y
  BY StockAssumption
<1>3. ASSUME NEW x \in S
      PROVE  IsFiniteSet(Later(x)) /\ Cardinality(Later(x)) \in 1..n
  <2>1. Later(x) \in SUBSET S
    OBVIOUS
  <2>2. IsFiniteSet(Later(x)) /\ Cardinality(Later(x)) <= n
    BY ONLY <1>1, <2>1, FS_Subset
  <2>3. x \in Later(x)
    BY <1>2
  <2>4. Cardinality(Later(x)) \in Nat /\ Cardinality(Later(x)) # 0
    BY <2>2, <2>3, FS_CardinalityType, FS_EmptySet
  <2> QED
    BY <1>1, <2>2, <2>4
<1>4. ASSUME NEW x \in S, NEW y \in S, Number[x] > Number[y] PROVE r[x] < r[y]
  <2>1. Later(x) \in SUBSET Later(y) /\ y \in Later(y) /\ y \notin Later(x)
    BY <1>2, <1>4
  <2>2. Cardinality(Later(x)) <= Cardinality(Later(y)) /\ Cardinality(Later(x)) # Cardinality(Later(y))
    BY <1>3, <2>1, FS_Subset
  <2>3. Cardinality(Later(x)) \in 1..n /\ Cardinality(Later(y)) \in 1..n
    BY <1>3
  <2>4. r[x] = Cardinality(Later(x)) /\ r[y] = Cardinality(Later(y))
    OBVIOUS
  <2> HIDE DEF Later, r
  <2> QED
    BY <1>1, <2>2, <2>3, <2>4
<1>5. r \in [S -> 1..n]
  BY <1>3
<1> HIDE DEF r, Later
<1>6. IsFiniteSet(1..n) /\ Cardinality(1..n) = n
  BY <1>1, FS_Interval
<1>7. r \in Bijection(S, 1..n)
  <2>1. \A x, y \in S : r[x] = r[y] => x = y
    BY <1>1, <1>2, <1>4, <1>5
  <2>2. r \in Injection(S, 1..n)
    BY <1>5, <2>1, Fun_IsInj
  <2>3. r \in Surjection(S, 1..n)
    BY <1>6, <2>2, FS_Injection
  <2> QED
    BY <2>2, <2>3, Fun_IsBij
<1> DEFINE s == [a \in 1..n |-> CHOOSE x \in S : r[x] = a]
<1>8. \A a \in 1..n : s[a] \in S /\ r[s[a]] = a
  BY <1>7 DEF Bijection, Surjection
<1> HIDE DEF s
<1>9. s \in [1..n -> S] /\ Decreasing(s)
  <2>1. s \in [1..n -> S]
    BY <1>8 DEF s
  <2> SUFFICES ASSUME NEW a \in 1..n, NEW b \in 1..n, a < b
               PROVE  Number[s[a]] > Number[s[b]]
    BY <2>1
  <2>2. s[a] # s[b] /\ s[a] \in S /\ s[b] \in S
    BY <1>1, <1>8
  <2>3. ~(r[s[b]] < r[s[a]])
    BY <1>1, <1>8
  <2> QED
    BY <1>2, <1>4, <2>2, <2>3
<1>10. ByCreation(S) \in [1..n -> S] /\ Decreasing(ByCreation(S))
  <2> DEFINE P(u) == \A a, b \in DOMAIN u : a < b => Number[u[a]] > Number[u[b]]
  <2>1. \E u \in [1..n -> S] : P(u)
    BY <1>9
  <2> QED
    BY <2>1 DEF ByCreation
<1> DEFINE t == ByCreation(S)
<1>11. t \in [1..n -> S] /\ Decreasing(t)
  BY <1>10
<1> HIDE DEF t
<1>12. t \in Injection(1..n, S)
  <2>1. \A a, b \in 1..n : t[a] = t[b] => a = b
    <3> SUFFICES ASSUME NEW a \in 1..n, NEW b \in 1..n, t[a] = t[b], a < b PROVE FALSE
      BY <1>1
    <3>1. Number[t[a]] > Number[t[b]] /\ Number[t[a]] \in Nat
      BY <1>2, <1>11
    <3> QED
      BY <3>1
  <2> QED
    BY <1>11, <2>1, Fun_IsInj
<1>13. t \in Surjection(1..n, S)
  BY <1>1, <1>6, <1>12, FS_Injection
<1>14. \A x \in S : \E a \in 1..n : t[a] = x
  BY <1>13 DEF Surjection
<1> QED
  BY <1>1, <1>11, <1>14 DEF t

\* A listing by creation is a sequence of the items of S, all of them.
LEMMA ByCreationSeq ==
    ASSUME NEW S \in SUBSET Items
    PROVE  /\ ByCreation(S) \in Seq(Items)
           /\ { ByCreation(S)[a] : a \in 1..Len(ByCreation(S)) } = S
<1> DEFINE n == Cardinality(S)
           s == ByCreation(S)
<1>1. n \in Nat /\ s \in [1..n -> S] /\ \A x \in S : \E a \in 1..n : s[a] = x
  BY ByCreationIs
<1> HIDE DEF n, s
<1>2. s \in Seq(Items) /\ Len(s) = n
  BY <1>1
<1>3. { s[a] : a \in 1..Len(s) } = S
  BY <1>1, <1>2
<1> QED
  BY <1>2, <1>3 DEF s

\* Everything open is listed, or every pull request that is.
LEMMA ListingIs ==
    ASSUME order \in Seq(Items), NEW p
    PROVE  /\ Listing(p) \in Seq(Items)
           /\ { Listing(p)[a] : a \in 1..Len(Listing(p)) }
                = IF p.lister = "prs" THEN Open \cap PRs ELSE Open
<1>1. Open \in SUBSET Items /\ Open \cap PRs \in SUBSET Items
  BY DEF Open
<1>2. CASE p.lister = "prs"
  BY <1>1, <1>2, ByCreationSeq DEF Listing
<1>3. CASE p.lister # "prs" /\ p.op = "label"
  BY <1>1, <1>3, ByCreationSeq DEF Listing
<1>4. CASE p.lister # "prs" /\ p.op # "label"
  BY <1>4 DEF Listing, Open
<1> QED
  BY <1>2, <1>3, <1>4

\* A page of a listing, and where its items stand in the listing.
LEMMA PageIs ==
    ASSUME NEW s \in Seq(Items), NEW n \in Nat, n >= 1
    PROVE  LET first == (n - 1) * PerPage
               last == IF n * PerPage < Len(s) THEN n * PerPage ELSE Len(s)
           IN  /\ first \in Nat /\ first + PerPage = n * PerPage
               /\ Page(s, n) \in Seq(Items)
               /\ Len(Page(s, n)) = IF first < last THEN last - first ELSE 0
               /\ \A k \in 1..(last - first) : Page(s, n)[k] = s[first + k]
<1> DEFINE first == (n - 1) * PerPage
           last == IF n * PerPage < Len(s) THEN n * PerPage ELSE Len(s)
<1>1. PerPage \in Nat \ {0}
  BY StockAssumption
<1>2. first \in Nat /\ n * PerPage \in Nat
  <2>1. n - 1 \in Nat
    OBVIOUS
  <2> QED
    BY <1>1, <2>1
<1>3. first + PerPage = n * PerPage
  BY <1>1
<1>4. last \in Nat /\ last <= Len(s) /\ Len(s) \in Nat
  BY <1>2
<1>5. Page(s, n) = SubSeq(s, first + 1, last)
  BY DEF Page
<1> HIDE DEF first, last
<1>6. \A k \in (first + 1)..last : s[k] \in Items
  BY <1>2, <1>4
<1>7. /\ SubSeq(s, first + 1, last) \in Seq(Items)
      /\ Len(SubSeq(s, first + 1, last)) = IF first + 1 <= last THEN last - (first + 1) + 1 ELSE 0
      /\ \A k \in 1..(last - (first + 1) + 1) : SubSeq(s, first + 1, last)[k] = s[(first + 1) + k - 1]
  BY <1>2, <1>4, <1>6, SubSeqProperties
<1> DEFINE u == Page(s, n)
<1>8. u = SubSeq(s, first + 1, last)
  BY <1>5
<1> HIDE DEF u
<1>9. /\ u \in Seq(Items)
      /\ Len(u) = IF first < last THEN last - first ELSE 0
      /\ \A k \in 1..(last - first) : u[k] = s[first + k]
  BY <1>2, <1>4, <1>7, <1>8
<1> QED
  BY <1>2, <1>3, <1>9 DEF first, last, u

-----------------------------------------------------------------------------
\* Nothing is running at first, and nothing has been written.
LEMMA TypeInit == Init => TypeInv
<1> SUFFICES ASSUME Init PROVE TypeInv
  OBVIOUS
<1>1. Cardinality(Items) \in Nat
  BY FS_CardinalityType, StockAssumption
<1>2. order \in Seq(Items) /\ \A a, b \in DOMAIN order : order[a] = order[b] => a = b
  <2> DEFINE n == Cardinality(Items)
  <2>1. order \in [1..n -> Items] /\ n \in Nat
    BY <1>1 DEF Init
  <2> HIDE DEF n
  <2>2. order \in Seq(Items)
    BY <2>1
  <2> QED
    BY <2>2 DEF Init
<1>3. Local(Off) /\ Off \in Job
  BY OffLocal DEF Local
<1>4. job \in [Jobs -> Job] /\ \A j \in Jobs : job[j] = Off
  BY <1>3 DEF Init
<1>5. /\ human \in [Items -> Ages] /\ fresh \in [Items -> BOOLEAN]
      /\ pings \in [Items -> 0..MaxPings] /\ labelled = {}
      /\ \A i \in Items : pings[i] = 0
      /\ dry \in BOOLEAN
  BY StockAssumption DEF Init
<1>6. \A j \in Jobs : /\ job[j].pc \in {"off", "list", "item", "apply"}
                      /\ job[j].pass \in 0..Len(Passes)
                      /\ job[j].seen \cup job[j].from \subseteq Items
  BY <1>4 DEF Job
<1>7. TypeOK
  BY <1>2, <1>5, <1>6 DEF TypeOK
<1> QED
  BY <1>3, <1>4, <1>5, <1>7 DEF TypeInv

\* What List leaves in the local variables of the job.
LEMMA ListLocal ==
    ASSUME TypeInv, NEW k \in Jobs, List(k)
    PROVE  /\ LET s == Listing(Pass(k))
                  n == job[k].page
                  page == Page(s, n)
                  left == [x \in 1..Len(page) |-> [item |-> page[x], fresh |-> fresh[page[x]]]]
              IN  /\ left \in Seq(Listings)
                  /\ job'[k].left = left
                  /\ job'[k].next = IF n * PerPage < Len(s) THEN n + 1 ELSE 0
           /\ UNCHANGED <<items, dry>>
           /\ job'[k] \in Job
           /\ job[k].pc = "list" /\ job'[k].pc = "item"
           /\ job'[k].pass = job[k].pass /\ job'[k].page = job[k].page
           /\ job'[k].seen = job[k].seen /\ job'[k].from = job[k].from
           /\ job'[k].calm = job[k].calm
<1> DEFINE s == Listing(Pass(k))
           n == job[k].page
           page == Page(s, n)
           left == [x \in 1..Len(page) |-> [item |-> page[x], fresh |-> fresh[page[x]]]]
           next == IF n * PerPage < Len(s) THEN n + 1 ELSE 0
<1>1. job \in [Jobs -> Job] /\ job[k] \in Job /\ job[k].pc = "list"
  BY DEF TypeInv, List
<1>2. n \in Nat /\ n >= 1
  BY <1>1 DEF TypeInv, Local, Job
<1>3. s \in Seq(Items)
  BY ListingIs DEF TypeInv, TypeOK
<1>4. page \in Seq(Items)
  BY <1>2, <1>3, PageIs
<1>5. job' = [job EXCEPT ![k].pc = "item", ![k].left = left, ![k].next = next]
  BY DEF List
<1>6. next \in Nat
  BY <1>2
<1> HIDE DEF s, n, next, page
<1>7. left \in Seq(Listings)
  <2>1. fresh \in [Items -> BOOLEAN]
    BY DEF TypeInv, TypeOK
  <2>2. Len(page) \in Nat /\ \A x \in 1..Len(page) : page[x] \in Items
    BY <1>4
  <2>3. \A x \in 1..Len(page) : [item |-> page[x], fresh |-> fresh[page[x]]] \in Listings
    BY <2>1, <2>2 DEF Listings
  <2>4. left \in [1..Len(page) -> Listings]
    BY <2>3
  <2> HIDE DEF left
  <2> QED
    BY <2>2, <2>4
<1> HIDE DEF left
<1>8. job'[k] = [job[k] EXCEPT !.pc = "item", !.left = left, !.next = next]
  BY <1>1, <1>5
<1>9. job'[k] \in Job
  BY <1>1, <1>6, <1>7, <1>8 DEF Job
<1>10. /\ job'[k].pc = "item" /\ job'[k].left = left /\ job'[k].next = next
       /\ job'[k].pass = job[k].pass /\ job'[k].page = job[k].page
       /\ job'[k].seen = job[k].seen /\ job'[k].from = job[k].from
       /\ job'[k].calm = job[k].calm
  BY <1>1, <1>8 DEF Job
<1>11. UNCHANGED <<items, dry>>
  BY DEF List
<1> QED
  BY <1>1, <1>7, <1>9, <1>10, <1>11 DEF s, n, next, page, left

\* What Filter leaves in the local variables of the job.
LEMMA FilterLocal ==
    ASSUME TypeInv, NEW k \in Jobs, Filter(k)
    PROVE  /\ job'[k] \in Job
           /\ UNCHANGED <<items, dry>>
           /\ job[k].left # <<>> /\ Head(job[k].left) \in Listings
           /\ job'[k].seen = job[k].seen \cup {Head(job[k].left).item}
           /\ \/ /\ job'[k].pc = "apply" /\ job'[k].left = job[k].left
                 /\ ~dry /\ Head(job[k].left).item \in Matched
                 /\ \E last \in LastSeen(Head(job[k].left).item) :
                       Verdict(Pass(k).op, last, Head(job[k].left).fresh) = "accept"
              \/ job'[k].pc = "item" /\ job'[k].left = Tail(job[k].left)
           /\ job[k].pc = "item"
           /\ job'[k].pass = job[k].pass /\ job'[k].page = job[k].page
           /\ job'[k].next = job[k].next /\ job'[k].from = job[k].from
           /\ job'[k].calm = job[k].calm
<1> DEFINE w == job[k]
           x == Head(w.left)
<1>a. PICK last \in LastSeen(x.item) :
              LET v == IF x.item \notin Matched THEN "unmatched"
                       ELSE Verdict(Pass(k).op, last, x.fresh)
                  go == v = "accept" /\ ~dry
              IN  job' = [job EXCEPT ![k].pc = IF go THEN "apply" ELSE "item",
                                     ![k].left = IF go THEN @ ELSE Tail(@),
                                     ![k].seen = @ \cup {x.item},
                                     ![k].late = FALSE]
  BY DEF Filter
<1> DEFINE v == IF x.item \notin Matched THEN "unmatched" ELSE Verdict(Pass(k).op, last, x.fresh)
           go == v = "accept" /\ ~dry
           pc == IF go THEN "apply" ELSE "item"
           left == IF go THEN w.left ELSE Tail(w.left)
           seen == w.seen \cup {x.item}
<1>1. w \in Job /\ w.pc = "item" /\ w.left # <<>> /\ UNCHANGED <<items, dry>>
  BY DEF Filter, TypeInv
<1>2. x \in Listings /\ Tail(w.left) \in Seq(Listings)
  BY <1>1, HeadTailProperties DEF Job
<1>3. job'[k] = [w EXCEPT !.pc = pc, !.left = left, !.seen = seen, !.late = FALSE]
  BY <1>a DEF TypeInv
<1>4. left \in Seq(Listings) /\ seen \in SUBSET Items /\ pc \in {"item", "apply"}
  BY <1>1, <1>2 DEF Listings, Job
<1>5. \/ pc = "apply" /\ left = w.left /\ go
      \/ pc = "item" /\ left = Tail(w.left)
  OBVIOUS
<1>6. go => ~dry /\ x.item \in Matched
            /\ \E seenLast \in LastSeen(x.item) : Verdict(Pass(k).op, seenLast, x.fresh) = "accept"
  OBVIOUS
<1> HIDE DEF w, pc, left, seen, go
<1>7. job'[k] \in Job
  BY <1>1, <1>3, <1>4 DEF Job
<1>8. /\ job'[k].pc = pc /\ job'[k].left = left /\ job'[k].seen = seen
      /\ job'[k].pass = w.pass /\ job'[k].page = w.page /\ job'[k].next = w.next
      /\ job'[k].from = w.from /\ job'[k].calm = w.calm
  BY <1>1, <1>3 DEF Job
<1> QED
  BY <1>1, <1>2, <1>5, <1>6, <1>7, <1>8 DEF w, seen

\* What NextPage leaves in the local variables of the job.
LEMMA NextPageLocal ==
    ASSUME TypeInv, NEW k \in Jobs, NextPage(k)
    PROVE  /\ UNCHANGED <<items, dry>>
           /\ job[k].pc = "item" /\ job[k].left = <<>>
           /\ \/ /\ job[k].next # 0
                 /\ job'[k] = [job[k] EXCEPT !.pc = "list", !.page = job[k].next]
              \/ /\ job[k].pass + 1 \in 1..Len(Passes)
                 /\ job'[k] = Begin(job[k].pass + 1)
              \/ job'[k] = Off
<1>1. job \in [Jobs -> Job] /\ job[k] \in Job /\ job[k].pc = "item"
  BY DEF NextPage, TypeInv
<1>2. job[k].pass \in 1..Len(Passes) /\ Len(Passes) \in Nat
  BY <1>1, StockAssumption DEF TypeInv, Local
<1>3. job'[k] = IF job[k].next # 0 THEN [job[k] EXCEPT !.pc = "list", !.page = job[k].next]
                ELSE IF job[k].pass < Len(Passes) THEN Begin(job[k].pass + 1)
                ELSE Off
  BY <1>1 DEF NextPage
<1> QED
  BY <1>1, <1>2, <1>3 DEF NextPage

\* The local variables of every job stay what they should be.
LEMMA LocalNext ==
    ASSUME TypeInv, [Next]_vars, NEW k \in Jobs
    PROVE  Local(job[k])'
<1>1. job[k] \in Job /\ Local(job[k])
  BY DEF TypeInv
<1>2. dry' = dry
  BY DEF Next, Run, vars, Comment, Close, Age, Fire, List, Filter, Apply, NextPage, Abort
<1>3. CASE Same(k)
  BY <1>1, <1>2, <1>3 DEF Same, Carried, Local
<1>4. CASE job'[k] = Off
  BY <1>4, OffLocal DEF Local, Off
<1>5. ASSUME NEW p \in 1..Len(Passes), job'[k] = Begin(p) PROVE Local(job[k])'
  <2>1. Local(Begin(p))
    BY BeginLocal DEF TypeInv
  <2> QED
    BY <1>5, <2>1 DEF Local, Begin
<1>6. CASE job[k].pc = "off" /\ job'[k] = Begin(1)
  BY <1>5, <1>6, StockAssumption
<1>7. CASE List(k)
  <2>1. job'[k] \in Job /\ job'[k].pc = "item" /\ job[k].pc = "list"
        /\ job'[k].pass = job[k].pass /\ job'[k].page = job[k].page
    BY <1>7, ListLocal
  <2> QED
    BY <1>1, <2>1 DEF Local
<1>8. CASE Filter(k)
  BY <1>1, <1>8, FilterLocal DEF Local, Listings
<1>9. CASE NextPage(k)
  <2>1. CASE job[k].next # 0 /\ job'[k] = [job[k] EXCEPT !.pc = "list", !.page = job[k].next]
    <3>1. job'[k] \in Job
      BY <1>1, <2>1 DEF Job
    <3>2. job'[k].pc = "list" /\ job'[k].page = job[k].next /\ job'[k].pass = job[k].pass
      BY <1>1, <2>1 DEF Job
    <3>3. job[k].next >= 1
      BY <1>1, <2>1 DEF Job
    <3> QED
      BY <1>1, <1>9, <3>1, <3>2, <3>3, NextPageLocal DEF Local
  <2> QED
    BY <1>4, <1>5, <1>9, <2>1, NextPageLocal
<1>10. CASE Applied(k)
  BY <1>1, <1>10 DEF Applied, Carried, Local
<1> QED
  BY <1>3, <1>4, <1>6, <1>7, <1>8, <1>9, <1>10, JobSteps

\* Every step keeps the types: an Effect writes to a matched item only.
LEMMA EffectType ==
    ASSUME TypeInv, NEW i \in Matched, NEW op, Effect(op, i)
    PROVE  /\ Once' /\ fresh' \in [Items -> BOOLEAN]
           /\ pings' \in [Items -> 0..MaxPings]
           /\ labelled' \cup { x \in Items : pings'[x] > 0 } \subseteq Matched
<1>1. i \in Items /\ Once /\ fresh \in [Items -> BOOLEAN]
      /\ pings \in [Items -> 0..MaxPings] /\ MaxPings \in Nat
      /\ labelled \cup { x \in Items : pings[x] > 0 } \subseteq Matched
  BY StockAssumption DEF TypeInv, TypeOK, Once
<1>2. CASE Ping(i)
  <2>1. Once' /\ fresh' \in [Items -> BOOLEAN]
    BY <1>1, <1>2, TouchType DEF Ping, Once
  <2>2. pings' \in [Items -> 0..MaxPings] /\ labelled' = labelled
        /\ \A x \in Items : x # i => pings'[x] = pings[x]
    BY <1>1, <1>2 DEF Ping
  <2> QED
    BY <1>1, <2>1, <2>2
<1>3. CASE ForceClose(i)
  BY <1>1, <1>3, WithoutType DEF ForceClose, Once
<1>4. CASE Label(i)
  <2>1. Once' /\ fresh' \in [Items -> BOOLEAN]
    BY <1>1, <1>4, TouchType DEF Label, Once
  <2> QED
    BY <1>1, <1>4, <2>1 DEF Label
<1> QED
  BY <1>2, <1>3, <1>4 DEF Effect

LEMMA TypeNext == TypeInv /\ [Next]_vars => TypeInv'
<1> SUFFICES ASSUME TypeInv, [Next]_vars PROVE TypeInv'
  OBVIOUS
<1>1. /\ Once /\ human \in [Items -> Ages] /\ fresh \in [Items -> BOOLEAN]
      /\ pings \in [Items -> 0..MaxPings]
      /\ labelled \cup { x \in Items : pings[x] > 0 } \subseteq Matched
  BY DEF TypeInv, TypeOK, Once
<1>2. \A k \in Jobs : Local(job[k])'
  BY LocalNext
<1>3. job' \in [Jobs -> Job]
  <2>1. job' = [k \in Jobs |-> job'[k]]
    <3>1. job \in [Jobs -> Job]
      BY DEF TypeInv
    <3>2. ASSUME NEW j \in Jobs, Filter(j) PROVE job' = [k \in Jobs |-> job'[k]]
      <4>1. \E w : job' = [job EXCEPT ![j] = w]
        BY <3>2 DEF Filter
      <4> QED
        BY <3>1, <4>1
    <3> QED
      BY <3>1, <3>2 DEF Next, Run, vars, Comment, Close, Age, Fire, List, Apply, NextPage,
                  Abort, Disturbed
  <2>2. \A k \in Jobs : job'[k] \in Job
    BY <1>2 DEF Local
  <2> QED
    BY <2>1, <2>2
<1>4. dry' \in BOOLEAN
  BY DEF TypeInv, Next, Run, vars, Comment, Close, Age, Fire, List, Filter, Apply, NextPage, Abort
<1> DEFINE Goal ==
             /\ Once' /\ human' \in [Items -> Ages] /\ fresh' \in [Items -> BOOLEAN]
             /\ pings' \in [Items -> 0..MaxPings]
             /\ labelled' \cup { x \in Items : pings'[x] > 0 } \subseteq Matched
<1>5. ASSUME UNCHANGED items PROVE Goal
  BY <1>1, <1>5 DEF items, Once
<1>6. ASSUME NEW i \in Items, Comment(i) PROVE Goal
  <2>1. Once' /\ fresh' \in [Items -> BOOLEAN]
    BY <1>1, <1>6, TouchType DEF Comment
  <2>2. human' \in [Items -> Ages]
    BY <1>1, <1>6 DEF Comment, Ages
  <2>3. pings' \in [Items -> 0..MaxPings] /\ labelled' = labelled
        /\ \A x \in Items : pings'[x] > 0 => pings[x] > 0
    BY <1>1, <1>6, StockAssumption DEF Comment
  <2> QED
    BY <1>1, <2>1, <2>2, <2>3
<1>7. ASSUME NEW i \in Items, Close(i) PROVE Goal
  <2>1. Once'
    BY <1>1, <1>7, WithoutType DEF Close, Once
  <2> QED
    BY <1>1, <1>7, <2>1 DEF Close
<1>8. ASSUME NEW i \in Items, Age(i) PROVE Goal
  <2>1. human' \in [Items -> Ages] /\ fresh' \in [Items -> BOOLEAN]
    BY <1>1, <1>8 DEF Age, Ages
  <2>2. Once' /\ pings' = pings /\ labelled' = labelled
    BY <1>1, <1>8 DEF Age, Once
  <2> QED
    BY <1>1, <2>1, <2>2
<1>9. ASSUME NEW j \in Jobs, job[j].pc = "apply", human' = human,
             Effect(Pass(j).op, Head(job[j].left).item)
      PROVE  Goal
  <2>1. Head(job[j].left).item \in Matched
    BY <1>9 DEF TypeInv, Local
  <2> QED
    BY <1>1, <1>9, <2>1, EffectType
<1> HIDE DEF Goal
<1>10. Goal
  <2>1. CASE UNCHANGED vars
    BY <1>5, <2>1 DEF vars, items
  <2>2. ASSUME NEW j \in Jobs, Fire(j) \/ List(j) \/ Filter(j) \/ NextPage(j) PROVE Goal
    BY <1>5, <2>2 DEF Fire, List, Filter, NextPage
  <2>3. ASSUME NEW j \in Jobs, Apply(j) PROVE Goal
    BY <1>9, <2>3 DEF Apply
  <2>4. ASSUME NEW j \in Jobs, Abort(j) PROVE Goal
    BY <1>5, <1>9, <2>4 DEF Abort
  <2> QED
    BY <1>6, <1>7, <1>8, <2>1, <2>2, <2>3, <2>4 DEF Next, Run
<1>11. \A j \in Jobs : /\ job'[j].pc \in {"off", "list", "item", "apply"}
                       /\ job'[j].pass \in 0..Len(Passes)
                       /\ job'[j].seen \cup job'[j].from \subseteq Items
  BY <1>2 DEF Local, Job
<1>12. TypeOK'
  BY <1>10, <1>11 DEF TypeOK, Goal, Once
<1> QED
  BY <1>2, <1>3, <1>4, <1>12 DEF TypeInv

(***************************************************************************)
(* The types: an item is in the listing once, and only items that pass the *)
(* filters of the operation are ever written to.                           *)
(***************************************************************************)
THEOREM StockTypeCorrect == Spec => []TypeOK
<1>1. TypeInv => TypeOK
  BY DEF TypeInv
<1> QED
  BY <1>1, TypeInit, TypeNext, PTL DEF Spec

-----------------------------------------------------------------------------
\* A step of people or of time moves the count of events.
Counted == events \in Nat

(***************************************************************************)
(* configuration/configuration.go:14, runner.go:169: a dry run leaves the  *)
(* items alone: those that are open, their order and update times, their   *)
(* pings and labels.  A job that is about to apply an operation has seen   *)
(* that the setting is off, and the setting stays what it was; a request   *)
(* that fails in the middle of an Apply is no exception.                   *)
(***************************************************************************)
THEOREM DryRunWritesNothing == Spec => DryRunIsHarmless
<1>1. TypeInv /\ Counted /\ [Next]_vars => (dry /\ events' = events => UNCHANGED items)
  <2> SUFFICES ASSUME TypeInv, Counted, [Next]_vars, dry, events' = events
               PROVE  UNCHANGED items
    OBVIOUS
  <2>1. events + 1 # events
    BY DEF Counted
  <2>2. ASSUME NEW i \in Items, Comment(i) \/ Close(i) \/ Age(i) PROVE FALSE
    BY <2>1, <2>2 DEF Comment, Close, Age
  <2>3. ASSUME NEW j \in Jobs, job[j].pc = "apply" PROVE FALSE
    BY <2>3 DEF TypeInv, Local
  <2>4. ASSUME NEW j \in Jobs, Fire(j) \/ List(j) \/ Filter(j) \/ NextPage(j)
        PROVE  UNCHANGED items
    BY <2>4 DEF Fire, List, Filter, NextPage
  <2>5. ASSUME NEW j \in Jobs, Apply(j) \/ Abort(j) PROVE UNCHANGED items
    BY <2>3, <2>5 DEF Apply, Abort
  <2> QED
    BY <2>2, <2>4, <2>5 DEF Next, Run, vars
<1>2. Counted /\ [Next]_vars => Counted'
  <2> SUFFICES ASSUME Counted, [Next]_vars PROVE Counted'
    OBVIOUS
  <2>1. ASSUME NEW i \in Items, Comment(i) \/ Close(i) \/ Age(i) PROVE events' = events + 1
    BY <2>1 DEF Comment, Close, Age
  <2>2. ASSUME NEW j \in Jobs, Fire(j) \/ Run(j) PROVE events' = events
    BY <2>2 DEF Run, Fire, List, Filter, Apply, NextPage, Abort
  <2> QED
    BY <2>1, <2>2 DEF Counted, Next, vars
<1>3. Init => Counted
  BY DEF Init, Counted
<1> QED
  BY <1>1, <1>2, <1>3, TypeInit, TypeNext, PTL DEF Spec, DryRunIsHarmless

-----------------------------------------------------------------------------
(***************************************************************************)
(* runner.go:152-171: a ping or a close of an item somebody has just       *)
(* commented on means that the comment came after the Filter of the item,  *)
(* or is not on the page of comments that Filter reads (prune.go:137).     *)
(***************************************************************************)
THEOREM RecentCommentSaves == Spec => []CommentSavesIssue
<1>1. Init => CommentSavesIssue
  BY DEF Init, CommentSavesIssue, AtItem, Off
<1>2. TypeInv /\ CommentSavesIssue /\ [Next]_vars => CommentSavesIssue'
  <2> SUFFICES ASSUME TypeInv, CommentSavesIssue, [Next]_vars,
                      NEW k \in Jobs, NEW i \in Items \ Crowded,
                      AtItem(k, i)', Pass(k)'.op # "label", human'[i] = "recent"
               PROVE  job'[k].late
    BY DEF CommentSavesIssue
  <2>1. job'[k].pc = "apply" /\ Head(job'[k].left).item = i
    BY DEF AtItem
  <2>2. CASE Same(k)
    <3>1. AtItem(k, i) /\ Pass(k).op # "label"
      BY <2>1, <2>2 DEF Same, Carried, AtItem, Pass
    <3>2. CASE human[i] = "recent"
      BY <2>2, <3>1, <3>2 DEF CommentSavesIssue, Same
    <3>3. CASE human[i] # "recent"
      BY <2>2, <3>1, <3>3 DEF Same
    <3> QED
      BY <3>2, <3>3
  <2>3. CASE Filter(k)
    <3>1. /\ \E last \in LastSeen(i) : Verdict(Pass(k).op, last, Head(job[k].left).fresh) = "accept"
          /\ UNCHANGED human /\ Pass(k)' = Pass(k)
      BY <2>1, <2>3, FilterLocal DEF items, Pass
    <3> QED
      BY <3>1 DEF Verdict, Outdated, LastSeen
  <2>4. CASE NextPage(k)
    <3>1. job[k] \in Job
      BY DEF TypeInv
    <3>2. ASSUME job'[k] = [job[k] EXCEPT !.pc = "list", !.page = job[k].next]
          PROVE  job'[k].pc = "list"
      BY <3>1, <3>2 DEF Job
    <3>3. ASSUME job'[k] = Off \/ job'[k] = Begin(job[k].pass + 1)
          PROVE  job'[k].pc \in {"off", "list"}
      BY <3>3 DEF Begin, Off
    <3>4. job'[k].pc \in {"off", "list"}
      BY <2>4, <3>2, <3>3, NextPageLocal
    <3> QED
      BY <2>1, <3>4
  <2>5. CASE job'[k] = Off \/ job'[k] = Begin(1)
    BY <2>1, <2>5 DEF Off, Begin
  <2>6. CASE List(k)
    BY <2>1, <2>6, ListLocal
  <2>7. CASE Applied(k)
    BY <2>1, <2>7 DEF Applied
  <2> QED
    BY <2>2, <2>3, <2>4, <2>5, <2>6, <2>7, JobSteps
<1> QED
  BY <1>1, <1>2, TypeInit, TypeNext, PTL DEF Spec

-----------------------------------------------------------------------------
(***************************************************************************)
(* runner.go:182, a pass over a listing that stands still: at page n it    *)
(* has submitted the pages before it and what it has handled of page n,    *)
(* and it knows whether there is a page after it.                          *)
(***************************************************************************)
Upto(s, n) == { s[a] : a \in { b \in 1..Len(s) : b <= n * PerPage } }
Todo(w) == { w.left[x].item : x \in 1..Len(w.left) }

Whole(w, s, opened) ==
    w.pc # "off" /\ w.calm =>
        /\ w.from = opened
        /\ w.pc = "list" => w.seen = Upto(s, w.page - 1)
        /\ w.pc \in {"item", "apply"} =>
              /\ w.seen \cup Todo(w) = Upto(s, w.page)
              /\ w.next = IF w.page * PerPage < Len(s) THEN w.page + 1 ELSE 0

AllWhole == \A k \in Jobs : Whole(job[k], Listing(Pass(k)), Open)

\* The pages up to the first: none.
LEMMA UptoNone == ASSUME NEW s \in Seq(Items) PROVE Upto(s, 0) = {}
<1>1. 0 * PerPage = 0
  BY StockAssumption
<1> QED
  BY <1>1 DEF Upto

\* The pages up to the last: the whole listing.
LEMMA UptoLast ==
    ASSUME NEW s \in Seq(Items), NEW n \in Nat, ~(n * PerPage < Len(s))
    PROVE  Upto(s, n) = { s[a] : a \in 1..Len(s) }
<1>1. n * PerPage \in Nat
  BY StockAssumption
<1> QED
  BY <1>1 DEF Upto

\* One page more.
LEMMA UptoPage ==
    ASSUME NEW s \in Seq(Items), NEW n \in Nat, n >= 1
    PROVE  Upto(s, n) = Upto(s, n - 1) \cup { Page(s, n)[x] : x \in 1..Len(Page(s, n)) }
<1> DEFINE m == n * PerPage
           first == (n - 1) * PerPage
           last == IF m < Len(s) THEN m ELSE Len(s)
           page == Page(s, n)
<1>1. /\ first \in Nat /\ first + PerPage = m
      /\ Len(page) = IF first < last THEN last - first ELSE 0
      /\ \A x \in 1..(last - first) : page[x] = s[first + x]
  BY PageIs
<1>2. PerPage \in Nat \ {0} /\ Len(s) \in Nat
  BY StockAssumption
<1>3. /\ Upto(s, n) = { s[a] : a \in { b \in 1..Len(s) : b <= m } }
      /\ Upto(s, n - 1) = { s[a] : a \in { b \in 1..Len(s) : b <= first } }
  BY DEF Upto
<1> HIDE DEF m, first, page
<1>4. m \in Nat /\ first < m
  BY <1>1, <1>2
<1>5. ASSUME NEW b \in 1..Len(s), b <= m, ~(b <= first)
      PROVE  \E x \in 1..Len(page) : page[x] = s[b]
  <2>1. b <= last /\ first < last /\ last \in Nat
    BY <1>1, <1>2, <1>4, <1>5
  <2> HIDE DEF last
  <2>2. b - first \in 1..(last - first) /\ first + (b - first) = b /\ Len(page) = last - first
    BY <1>1, <1>5, <2>1
  <2> QED
    BY <1>1, <2>2
<1>6. ASSUME NEW x \in 1..Len(page)
      PROVE  \E b \in 1..Len(s) : b <= m /\ s[b] = page[x]
  <2>1. first < last
    BY <1>1, <1>2, <1>4
  <2>2. last \in Nat /\ last <= m /\ last <= Len(s)
    BY <1>2, <1>4
  <2> HIDE DEF last
  <2>3. x \in 1..(last - first)
    BY <1>1, <2>1, <2>2
  <2>4. first + x \in 1..Len(s) /\ first + x <= m
    BY <1>1, <1>2, <1>4, <2>2, <2>3
  <2> QED
    BY <1>1, <2>3, <2>4
<1>7. \A b \in 1..Len(s) : b <= first => b <= m
  BY <1>1, <1>4
<1> HIDE DEF last
<1> DEFINE before == { s[a] : a \in { b \in 1..Len(s) : b <= first } }
           upto == { s[a] : a \in { b \in 1..Len(s) : b <= m } }
           listed == { page[x] : x \in 1..Len(page) }
<1>8. upto \subseteq before \cup listed
  BY <1>5
<1>9. before \subseteq upto /\ listed \subseteq upto
  BY <1>6, <1>7
<1> QED
  BY <1>3, <1>8, <1>9 DEF page

\* What is left of a page is its first item and what is left after it.
LEMMA TodoTail ==
    ASSUME NEW w, NEW v, w.left \in Seq(Listings), w.left # <<>>, v.left = Tail(w.left)
    PROVE  Todo(w) = {Head(w.left).item} \cup Todo(v)
<1> DEFINE s == w.left
           t == v.left
<1>1. /\ s \in Seq(Listings) /\ s # <<>> /\ t \in Seq(Listings) /\ Len(t) = Len(s) - 1
      /\ \A x \in 1..Len(t) : t[x] = s[x + 1]
  BY HeadTailProperties
<1>2. Head(s) = s[1]
  OBVIOUS
<1> HIDE DEF s, t
<1>3. Len(s) \in Nat /\ Len(s) >= 1
  BY <1>1
<1>4. \A x \in 1..Len(s) : x = 1 \/ (x - 1 \in 1..Len(t) /\ t[x - 1] = s[x])
  <2> SUFFICES ASSUME NEW x \in 1..Len(s), x # 1 PROVE x - 1 \in 1..Len(t) /\ t[x - 1] = s[x]
    OBVIOUS
  <2>1. x - 1 \in 1..Len(t) /\ (x - 1) + 1 = x
    BY <1>1, <1>3
  <2> QED
    BY <1>1, <2>1
<1>5. \A x \in 1..Len(t) : x + 1 \in 1..Len(s) /\ t[x] = s[x + 1]
  BY <1>1, <1>3
<1>6. 1 \in 1..Len(s)
  BY <1>3
<1> DEFINE all == { s[x].item : x \in 1..Len(s) }
           rest == { t[x].item : x \in 1..Len(t) }
<1>7. all \subseteq {s[1].item} \cup rest
  BY <1>4
<1>8. {s[1].item} \cup rest \subseteq all
  BY <1>5, <1>6
<1>9. all = {Head(s).item} \cup rest
  BY <1>2, <1>7, <1>8
<1> QED
  BY <1>9 DEF Todo, s, t

\* A pass that begins has submitted nothing.
LEMMA WholeBegin ==
    ASSUME NEW s \in Seq(Items), NEW p
    PROVE  Whole(Begin(p), s, Open)
<1>1. 1 - 1 = 0
  OBVIOUS
<1> QED
  BY <1>1, UptoNone DEF Whole, Begin

\* A pass over a listing that stands still is whole after every step.
LEMMA WholeNext ==
    ASSUME TypeInv, AllWhole, [Next]_vars, NEW k \in Jobs
    PROVE  Whole(job[k], Listing(Pass(k)), Open)'
<1> DEFINE w == job[k]
           v == job'[k]
           s == Listing(Pass(k))
<1>1. Local(w) /\ w \in Job /\ Whole(w, s, Open)
  BY DEF TypeInv, AllWhole
<1>2. s \in Seq(Items)
  BY ListingIs DEF TypeInv, TypeOK
<1>3. ASSUME order' = order, v.pass = w.pass
      PROVE  Listing(Pass(k))' = s /\ Open' = Open
  <2>1. Pass(k)' = Pass(k) /\ Open' = Open
    BY <1>3 DEF Pass, Open
  <2> QED
    BY <1>3, <2>1 DEF Listing, ByCreation
<1> DEFINE goal == Whole(v, s, Open)
<1>4. ASSUME order' = order, v.pass = w.pass, goal
      PROVE  Whole(job[k], Listing(Pass(k)), Open)'
  BY <1>3, <1>4 DEF Whole, Upto, Todo
<1>5. CASE Same(k)
  <2>1. CASE ~v.calm
    BY <2>1 DEF Whole
  <2>2. CASE v.calm
    <3>1. /\ order' = order /\ w.calm /\ v.pc = w.pc /\ v.left = w.left /\ v.pass = w.pass
          /\ v.page = w.page /\ v.next = w.next /\ v.seen = w.seen /\ v.from = w.from
      BY <1>5, <2>2 DEF Same, Carried
    <3>2. goal
      BY <1>1, <3>1 DEF Whole, Todo
    <3> QED
      BY <1>4, <3>1, <3>2
  <2> QED
    BY <2>1, <2>2
<1>6. CASE v = Off
  BY <1>6 DEF Whole, Off
<1>7. ASSUME UNCHANGED items, NEW p, v = Begin(p)
      PROVE  Whole(job[k], Listing(Pass(k)), Open)'
  <2>1. Open' = Open /\ order' = order
    BY <1>7 DEF items, Open
  <2>2. Listing(Pass(k))' \in Seq(Items)
    <3> DEFINE q == Pass(k)'
    <3>1. Listing(q) \in Seq(Items)
      BY ListingIs DEF TypeInv, TypeOK
    <3>2. Listing(Pass(k))' = Listing(q)
      BY <2>1 DEF Listing, ByCreation
    <3> QED
      BY <3>1, <3>2
  <2> DEFINE t == Listing(Pass(k))'
  <2>3. Whole(Begin(p), t, Open)
    BY <2>2, WholeBegin
  <2>4. Whole(v, t, Open')
    BY <1>7, <2>1, <2>3
  <2> QED
    BY <2>4 DEF Whole, Upto, Todo
<1>8. CASE List(k)
  <2> DEFINE n == w.page
             page == Page(s, n)
             left == [x \in 1..Len(page) |-> [item |-> page[x], fresh |-> fresh[page[x]]]]
  <2>1. /\ v.left = left /\ v.next = IF n * PerPage < Len(s) THEN n + 1 ELSE 0
        /\ order' = order /\ w.pc = "list" /\ v.pc = "item"
        /\ v.pass = w.pass /\ v.page = n /\ v.seen = w.seen /\ v.from = w.from
        /\ v.calm = w.calm
    BY <1>8, ListLocal DEF items
  <2>2. n \in Nat /\ n >= 1
    BY <1>1, <2>1 DEF Local, Job
  <2>3. page \in Seq(Items)
    BY <1>2, <2>2, PageIs
  <2>4. Upto(s, n) = Upto(s, n - 1) \cup { page[x] : x \in 1..Len(page) }
    BY <1>2, <2>2, UptoPage
  <2>5. Todo(v) = { page[x] : x \in 1..Len(page) }
    <3> HIDE DEF page
    <3>1. Len(left) = Len(page) /\ \A x \in 1..Len(page) : left[x].item = page[x]
      BY <2>3
    <3> HIDE DEF left
    <3> QED
      BY <2>1, <3>1 DEF Todo
  <2> HIDE DEF s, page, left
  <2>6. goal
    BY <1>1, <2>1, <2>4, <2>5 DEF Whole
  <2> QED
    BY <1>4, <2>1, <2>6
<1>9. CASE Filter(k)
  <2> DEFINE x == Head(w.left)
  <2>1. /\ w.pc = "item" /\ v.pc \in {"item", "apply"} /\ order' = order
        /\ v.pass = w.pass /\ v.page = w.page /\ v.next = w.next /\ v.from = w.from
        /\ v.calm = w.calm /\ v.seen = w.seen \cup {x.item}
        /\ w.left # <<>> /\ (v.left = w.left \/ v.left = Tail(w.left))
    BY <1>9, FilterLocal DEF items
  <2>2. w.left \in Seq(Listings)
    BY <1>1 DEF Job
  <2>3. v.seen \cup Todo(v) = w.seen \cup Todo(w)
    <3>1. CASE v.left = w.left
      <4> DEFINE u == [left |-> Tail(w.left)]
      <4>1. Todo(w) = {x.item} \cup Todo(u)
        BY <2>1, <2>2, TodoTail
      <4>2. Todo(v) = Todo(w)
        BY <3>1 DEF Todo
      <4> QED
        BY <2>1, <4>1, <4>2
    <3>2. CASE v.left = Tail(w.left)
      <4>1. Todo(w) = {x.item} \cup Todo(v)
        BY <2>1, <2>2, <3>2, TodoTail
      <4> QED
        BY <2>1, <4>1
    <3> QED
      BY <2>1, <3>1, <3>2
  <2> HIDE DEF s, x
  <2>4. goal
    BY <1>1, <2>1, <2>3 DEF Whole
  <2> QED
    BY <1>4, <2>1, <2>4
<1>10. CASE NextPage(k)
  <2>1. UNCHANGED items /\ w.pc = "item" /\ w.left = <<>>
    BY <1>10, NextPageLocal
  <2>2. CASE w.next # 0 /\ v = [w EXCEPT !.pc = "list", !.page = w.next]
    <3>1. /\ v.pc = "list" /\ v.page = w.next /\ v.pass = w.pass /\ v.seen = w.seen
          /\ v.from = w.from /\ v.calm = w.calm
      BY <1>1, <2>2 DEF Job
    <3>2. order' = order
      BY <2>1 DEF items
    <3>3. Todo(w) = {}
      BY <2>1 DEF Todo
    <3>4. w.page \in Nat
      BY <1>1 DEF Job
    <3> HIDE DEF s
    <3>5. ASSUME v.calm PROVE v.from = Open /\ v.seen = Upto(s, v.page - 1)
      <4>1. w.seen = Upto(s, w.page) /\ w.next = w.page + 1 /\ w.from = Open
        BY <1>1, <2>1, <2>2, <3>1, <3>3, <3>5 DEF Whole
      <4>2. v.page - 1 = w.page
        BY <3>1, <3>4, <4>1
      <4> QED
        BY <3>1, <4>1, <4>2
    <3>6. goal
      BY <3>1, <3>5 DEF Whole
    <3> QED
      BY <1>4, <3>1, <3>2, <3>6
  <2> QED
    BY <1>6, <1>7, <1>10, <2>1, <2>2, NextPageLocal
<1>11. CASE Applied(k)
  <2>1. CASE ~v.calm
    BY <2>1 DEF Whole
  <2>2. CASE v.calm
    <3>1. /\ order' = order /\ w.calm /\ w.pc = "apply" /\ v.pc = "item"
          /\ v.left = Tail(w.left) /\ v.pass = w.pass
          /\ v.page = w.page /\ v.next = w.next /\ v.seen = w.seen /\ v.from = w.from
      BY <1>11, <2>2 DEF Applied, Carried
    <3>2. w.left \in Seq(Listings) /\ w.left # <<>> /\ Head(w.left).item \in w.seen
      BY <1>1, <3>1 DEF Local, Job
    <3>3. Todo(w) = {Head(w.left).item} \cup Todo(v)
      BY <3>1, <3>2, TodoTail
    <3> HIDE DEF s
    <3>4. goal
      BY <1>1, <3>1, <3>2, <3>3 DEF Whole
    <3> QED
      BY <1>4, <3>1, <3>4
  <2> QED
    BY <2>1, <2>2
<1> QED
  BY <1>5, <1>6, <1>7, <1>8, <1>9, <1>10, <1>11, JobSteps

(***************************************************************************)
(* runner.go:182: whatever the number of pages, a pass during which the    *)
(* listing stands still submits to Filter every item that it lists.        *)
(***************************************************************************)
THEOREM CalmPassesAreWhole == Spec => []CalmPassIsWhole
<1>1. Init => AllWhole
  BY DEF Init, AllWhole, Whole, Off
<1>2. TypeInv /\ AllWhole /\ [Next]_vars => AllWhole'
  <2> SUFFICES ASSUME TypeInv, AllWhole, [Next]_vars PROVE AllWhole'
    OBVIOUS
  <2> QED
    BY WholeNext DEF AllWhole
<1>3. TypeInv /\ AllWhole => CalmPassIsWhole
  <2> SUFFICES ASSUME TypeInv, AllWhole, NEW k \in Jobs,
                      job[k].pc = "item", job[k].left = <<>>, job[k].next = 0, job[k].calm
               PROVE  job[k].seen = Listed(k)
    BY DEF CalmPassIsWhole
  <2> DEFINE w == job[k]
             s == Listing(Pass(k))
  <2>1. /\ s \in Seq(Items)
        /\ { s[a] : a \in 1..Len(s) } = IF Pass(k).lister = "prs" THEN Open \cap PRs ELSE Open
    BY ListingIs DEF TypeInv, TypeOK
  <2>2. w.page \in Nat
    BY DEF TypeInv, Job
  <2> HIDE DEF s
  <2>3. Todo(w) = {}
    BY DEF Todo
  <2>4. /\ w.seen = Upto(s, w.page) /\ w.from = Open
        /\ w.next = IF w.page * PerPage < Len(s) THEN w.page + 1 ELSE 0
    BY <2>3 DEF AllWhole, Whole, s
  <2>5. ~(w.page * PerPage < Len(s))
    BY <2>2, <2>4
  <2>6. Upto(s, w.page) = { s[a] : a \in 1..Len(s) }
    BY <2>1, <2>2, <2>5, UptoLast
  <2> QED
    BY <2>1, <2>4, <2>6 DEF Listed
<1> QED
  BY <1>1, <1>2, <1>3, TypeInit, TypeNext, PTL DEF Spec

=============================================================================
