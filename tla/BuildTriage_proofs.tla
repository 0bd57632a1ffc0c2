------------------------- MODULE BuildTriage_proofs -------------------------
(***************************************************************************)
(* Proofs about BuildTriage, for any contexts, settings and bounds: what   *)
(* GetLatestStatuses selects from any listing, that rebuild takes its      *)
(* label off only when every build that its listing shows as due is        *)
(* requested, and ci-label-clean its label only for a reason.              *)
(***************************************************************************)
EXTENDS BuildTriage, SequenceTheorems, WellFoundedInduction, TLAPS

Statuses == [context : Contexts, state : Results, at : Nat]

-----------------------------------------------------------------------------
\* A set of natural numbers that is not empty has a least element.
LEMMA Least ==
    ASSUME NEW T \in SUBSET Nat, T # {}
    PROVE  \E m \in T : \A n \in T : m <= n
<1>1. PICK m \in T : \A n \in T : ~(<<n, m>> \in OpToRel(<, Nat))
  BY NatLessThanWellFounded, WFMin
<1>2. \A n \in T : ~(n < m)
  BY <1>1 DEF OpToRel
<1> QED
  BY <1>2

(***************************************************************************)
(* The loop of GetLatestStatuses, one entry of the list after the other:   *)
(* the recursive function exists, by extension of a shorter one.           *)
(***************************************************************************)
Loop(list, f, n) ==
    f = [k \in 0..n |-> IF k = 0 THEN <<>> ELSE Keep(f[k - 1], list[k])]

LEMMA LoopExists ==
    ASSUME NEW list, NEW n \in Nat
    PROVE  \E f : Loop(list, f, n)
<1> DEFINE Bad == { m \in Nat : ~ \E f : Loop(list, f, m) }
<1> SUFFICES ASSUME Bad # {} PROVE FALSE
  OBVIOUS
<1>1. PICK m \in Bad : \A k \in Bad : m <= k
  BY Least
<1>2. CASE m = 0
  <2>1. Loop(list, [k \in 0..0 |-> <<>>], 0)
    BY DEF Loop
  <2> QED
    BY <1>2, <2>1
<1>3. CASE m # 0
  <2>1. m \in Nat /\ m - 1 \in Nat /\ m - 1 \notin Bad
    BY <1>1, <1>3
  <2>2. PICK f : Loop(list, f, m - 1)
    BY <2>1
  <2> DEFINE g == [k \in 0..m |-> IF k = m THEN Keep(f[m - 1], list[m]) ELSE f[k]]
  <2>3. \A k \in 0..(m - 1) : f[k] = IF k = 0 THEN <<>> ELSE Keep(f[k - 1], list[k])
    BY <2>2 DEF Loop
  <2>4. ASSUME NEW k \in 0..m PROVE g[k] = IF k = 0 THEN <<>> ELSE Keep(g[k - 1], list[k])
    <3>1. CASE k = 0
      BY <1>3, <2>1, <2>3, <3>1
    <3>2. CASE k # 0 /\ k # m
      <4>1. k \in 0..(m - 1) /\ k - 1 \in 0..m /\ k - 1 # m
        BY <2>1, <2>4, <3>2
      <4> QED
        BY <2>3, <3>2, <4>1
    <3>3. CASE k = m
      <4>1. m - 1 \in 0..m /\ m - 1 # m
        BY <2>1
      <4> QED
        BY <1>3, <3>3, <4>1
    <3> QED
      BY <3>1, <3>2, <3>3
  <2> HIDE DEF g
  <2>5. g = [k \in 0..m |-> g[k]]
    BY DEF g
  <2>6. Loop(list, g, m)
    BY <2>4, <2>5 DEF Loop
  <2> QED
    BY <2>6
<1> QED
  BY <1>2, <1>3

(***************************************************************************)
(* gh/status.go:33: of the first k entries of a list, each context has the *)
(* entry with the greatest second, the first of those that share it.       *)
(***************************************************************************)
Selects(latest, list, k) ==
    /\ DOMAIN latest = { list[i].context : i \in 1..k }
    /\ \A c \in DOMAIN latest : \E i \in 1..k :
          /\ list[i].context = c /\ latest[c] = list[i]
          /\ \A l \in 1..k : list[l].context = c =>
                list[l].at <= list[i].at /\ (l < i => list[l].at < list[i].at)

\* One more entry.
LEMMA KeepSelects ==
    ASSUME NEW list \in Seq(Statuses), NEW k \in Nat, k + 1 <= Len(list),
           NEW latest, Selects(latest, list, k)
    PROVE  Selects(Keep(latest, list[k + 1]), list, k + 1)
<1> DEFINE s == list[k + 1]
           kept == [c \in DOMAIN latest \cup {s.context} |-> IF c = s.context THEN s ELSE latest[c]]
<1>1. \A i \in 1..(k + 1) : list[i].at \in Nat
  <2>1. \A i \in 1..(k + 1) : list[i] \in Statuses
    OBVIOUS
  <2> QED
    BY <2>1 DEF Statuses
<1>2. 1..(k + 1) = 1..k \cup {k + 1}
  OBVIOUS
<1>3. DOMAIN latest \cup {s.context} = { list[i].context : i \in 1..(k + 1) }
  BY <1>2 DEF Selects
<1>4. CASE s.context \in DOMAIN latest /\ s.at <= latest[s.context].at
  <2>1. Keep(latest, s) = latest
    BY <1>4 DEF Keep
  <2>2. DOMAIN latest = { list[i].context : i \in 1..(k + 1) }
    BY <1>3, <1>4
  <2>3. ASSUME NEW c \in DOMAIN latest
        PROVE  \E i \in 1..(k + 1) :
                 /\ list[i].context = c /\ latest[c] = list[i]
                 /\ \A l \in 1..(k + 1) : list[l].context = c =>
                       list[l].at <= list[i].at /\ (l < i => list[l].at < list[i].at)
    <3>1. PICK i \in 1..k :
             /\ list[i].context = c /\ latest[c] = list[i]
             /\ \A l \in 1..k : list[l].context = c =>
                   list[l].at <= list[i].at /\ (l < i => list[l].at < list[i].at)
      BY DEF Selects
    <3>2. list[k + 1].context = c => list[k + 1].at <= list[i].at
      BY <1>4, <3>1
    <3>3. i \in 1..(k + 1) /\ ~(k + 1 < i)
      OBVIOUS
    <3> QED
      BY <1>2, <3>1, <3>2, <3>3
  <2>4. Selects(latest, list, k + 1)
    BY <2>2, <2>3 DEF Selects
  <2> QED
    BY <2>1, <2>4
<1>5. CASE ~(s.context \in DOMAIN latest /\ s.at <= latest[s.context].at)
  <2>1. Keep(latest, s) = kept
    BY <1>5 DEF Keep
  <2>2. DOMAIN kept = { list[i].context : i \in 1..(k + 1) }
    BY <1>3
  <2>3. ASSUME NEW c \in DOMAIN kept
        PROVE  \E i \in 1..(k + 1) :
                 /\ list[i].context = c /\ kept[c] = list[i]
                 /\ \A l \in 1..(k + 1) : list[l].context = c =>
                       list[l].at <= list[i].at /\ (l < i => list[l].at < list[i].at)
    <3>1. CASE c # s.context
      <4>1. c \in DOMAIN latest /\ kept[c] = latest[c]
        BY <3>1
      <4>2. PICK i \in 1..k :
               /\ list[i].context = c /\ latest[c] = list[i]
               /\ \A l \in 1..k : list[l].context = c =>
                     list[l].at <= list[i].at /\ (l < i => list[l].at < list[i].at)
        BY <4>1 DEF Selects
      <4> QED
        BY <1>2, <3>1, <4>1, <4>2
    <3>2. CASE c = s.context
      <4>1. kept[c] = s /\ k + 1 \in 1..(k + 1)
        BY <3>2
      <4>2. ASSUME NEW l \in 1..k, list[l].context = c PROVE list[l].at < s.at
        <5>1. c \in DOMAIN latest
          BY <4>2 DEF Selects
        <5>2. PICK i \in 1..k : latest[c] = list[i] /\ list[l].at <= list[i].at
          BY <4>2, <5>1 DEF Selects
        <5>3. ~(s.at <= list[i].at)
          BY <1>5, <3>2, <5>1, <5>2
        <5>4. list[l].at \in Nat /\ list[i].at \in Nat /\ s.at \in Nat
          BY <1>1
        <5> QED
          BY <5>2, <5>3, <5>4
      <4>3. \A l \in 1..(k + 1) : list[l].context = c =>
               list[l].at <= list[k + 1].at /\ (l < k + 1 => list[l].at < list[k + 1].at)
        <5>1. s.at <= s.at /\ ~(k + 1 < k + 1)
          BY <1>1
        <5>2. \A l \in 1..k : list[l].context = c => list[l].at <= s.at
          BY <1>1, <4>2
        <5> QED
          BY <1>2, <4>2, <5>1, <5>2
      <4> QED
        BY <3>2, <4>1, <4>3
    <3> QED
      BY <3>1, <3>2
  <2> HIDE DEF kept
  <2> QED
    BY <2>1, <2>2, <2>3 DEF Selects
<1> QED
  BY <1>4, <1>5

\* The whole list.
LEMMA LatestSelects ==
    ASSUME NEW list \in Seq(Statuses)
    PROVE  Selects(GetLatestStatuses(list), list, Len(list))
<1> DEFINE n == Len(list)
           f == CHOOSE f : Loop(list, f, n)
<1>1. n \in Nat
  OBVIOUS
<1>2. Loop(list, f, n)
  BY <1>1, LoopExists
<1>3. GetLatestStatuses(list) = f[n]
  BY DEF GetLatestStatuses, Loop
<1> HIDE DEF f
<1>4. /\ f[0] = <<>>
      /\ \A k \in 0..n : k + 1 <= n => f[k + 1] = Keep(f[k], list[k + 1])
  BY <1>1, <1>2 DEF Loop
<1> DEFINE Bad == { m \in 0..n : ~Selects(f[m], list, m) }
<1>5. ASSUME Bad # {} PROVE FALSE
  <2>1. Bad \in SUBSET Nat
    BY <1>1
  <2>2. PICK m \in Bad : \A k \in Bad : m <= k
    BY <1>5, <2>1, Least
  <2>3. CASE m = 0
    <3>1. Selects(<<>>, list, 0)
      BY DEF Selects
    <3> QED
      BY <1>4, <2>3, <3>1
  <2>4. CASE m # 0
    <3>1. m \in 0..n /\ ~Selects(f[m], list, m)
      OBVIOUS
    <3> DEFINE k == m - 1
    <3>2. k \in 0..n /\ k \in Nat /\ k + 1 = m /\ k + 1 <= n /\ k \notin Bad
      BY <1>1, <2>2, <2>4, <3>1
    <3>3. Selects(f[k], list, k)
      BY <3>2
    <3> HIDE DEF k
    <3>4. Selects(Keep(f[k], list[k + 1]), list, k + 1)
      BY <3>2, <3>3, KeepSelects
    <3> QED
      BY <1>4, <3>1, <3>2, <3>4
  <2> QED
    BY <2>3, <2>4
<1>6. n \in 0..n
  BY <1>1
<1> QED
  BY <1>3, <1>5, <1>6

-----------------------------------------------------------------------------
Messages == [id : 0..events, attempts : 0..MaxAttempts, open : BOOLEAN, head : 0..head]
Handlers == [pc : {"idle", "issue", "statuses", "build"}, msg : Messages,
             todo : SUBSET Contexts, owed : SUBSET Contexts]
TriageJobs == [pc : {"off", "issue", "statuses", "clean"}, head : 0..head, green : BOOLEAN]

TypeInv ==
    /\ TypeOK
    /\ handler \in Handlers
    /\ job \in TriageJobs
    /\ events \in Nat

(***************************************************************************)
(* What the handler owes it has yet to select, or has selected: a context  *)
(* that is owed is still to be rebuilt by the page of the message's head.  *)
(***************************************************************************)
Owes ==
    /\ handler.pc \in {"issue", "statuses"} => handler.owed \subseteq Eligible(handler.msg.head)
    /\ handler.pc = "build" => handler.owed \subseteq handler.todo

\* The job remembers that its head showed no failing context, if it shows none.
Remembers ==
    /\ job.pc = "statuses" /\ Green(job.head) => job.green
    /\ job.pc = "clean" => job.green

\* A listing: the last statuses in the reverse of their order of publication.
LEMMA ListStatusesIs ==
    ASSUME TypeInv, NEW h \in Heads
    PROVE  LET n == Len(published[h])
               m == Len(ListStatuses(h))
           IN  /\ ListStatuses(h) \in Seq(Statuses)
               /\ m <= n /\ m = IF n < StatusPage THEN n ELSE StatusPage
               /\ \A i \in 1..m :
                     n - i + 1 \in 1..n /\ ListStatuses(h)[i] = published[h][n - i + 1]
<1> DEFINE p == published[h]
           n == Len(p)
           m == IF n < StatusPage THEN n ELSE StatusPage
           r == Reverse(p)
<1>1. p \in Seq(Statuses) /\ n \in Nat
  <2>1. published \in [Heads -> Seq(Statuses)]
    BY DEF TypeInv, TypeOK, Statuses
  <2> QED
    BY <2>1
<1>2. m \in Nat /\ m <= n
  BY <1>1, TriageAssumption
<1>3. \A i \in 1..n : n - i + 1 \in 1..n /\ r[i] = p[n - i + 1]
  BY <1>1 DEF Reverse
<1>4. ListStatuses(h) = SubSeq(r, 1, m)
  BY DEF ListStatuses
<1> HIDE DEF p, n, m, r
<1>5. \A i \in 1..m : r[i] \in Statuses
  <2>1. \A i \in 1..n : p[i] \in Statuses
    BY <1>1 DEF n
  <2> QED
    BY <1>1, <1>2, <1>3, <2>1
<1>6. /\ SubSeq(r, 1, m) \in Seq(Statuses)
      /\ Len(SubSeq(r, 1, m)) = IF 1 <= m THEN m - 1 + 1 ELSE 0
      /\ \A i \in 1..(m - 1 + 1) : SubSeq(r, 1, m)[i] = r[1 + i - 1]
  BY <1>2, <1>5, SubSeqProperties
<1> DEFINE s == ListStatuses(h)
<1>7. s = SubSeq(r, 1, m)
  BY <1>4
<1> HIDE DEF s
<1>8. s \in Seq(Statuses) /\ Len(s) = m /\ \A i \in 1..m : s[i] = r[i]
  BY <1>2, <1>6, <1>7
<1>9. \A i \in 1..m : n - i + 1 \in 1..n /\ s[i] = p[n - i + 1]
  BY <1>1, <1>2, <1>3, <1>8
<1> QED
  BY <1>2, <1>8, <1>9 DEF s, n, m, p

(***************************************************************************)
(* What the operations see of a head is the last status of each context,   *)
(* if the first page has it, although seconds are all that they compare.   *)
(***************************************************************************)
LEMMA LatestIsLast ==
    ASSUME TypeInv, NEW h \in Heads
    PROVE  LET latest == GetLatestStatuses(ListStatuses(h))
           IN  /\ \A c : c \in DOMAIN latest <=> Reported(h, c)
               /\ \A S : \A c \in DOMAIN latest : latest[c].state \in S <=> EndsIn(h, c, S)
<1> DEFINE s == ListStatuses(h)
           latest == GetLatestStatuses(s)
           p == published[h]
           n == Len(p)
           m == Len(s)
           page == OnPage(h)
<1>1. /\ s \in Seq(Statuses) /\ m <= n /\ m = IF n < StatusPage THEN n ELSE StatusPage
      /\ \A i \in 1..m : n - i + 1 \in 1..n /\ s[i] = p[n - i + 1]
  BY ListStatusesIs
<1>2. Selects(latest, s, m)
  BY <1>1, LatestSelects
<1>3. /\ n \in Nat /\ DOMAIN p = 1..n
      /\ \A k \in 1..n : p[k] \in Statuses
      /\ \A k, l \in 1..n : k < l => p[k].at <= p[l].at
  <2>1. p \in Seq(Statuses)
    BY DEF TypeInv, TypeOK, Statuses
  <2>2. n \in Nat /\ DOMAIN p = 1..n /\ \A k \in 1..n : p[k] \in Statuses
    BY <2>1
  <2> QED
    BY <2>2 DEF TypeInv, TypeOK
<1>4. m \in Nat
  BY <1>1
<1>5. page = { k \in 1..n : k > n - StatusPage }
  BY <1>3 DEF OnPage
<1>6. /\ \A c : Reported(h, c) <=> \E k \in page : p[k].context = c
      /\ \A S : \A c : EndsIn(h, c, S) <=>
            \E k \in page : /\ p[k].context = c /\ p[k].state \in S
                           /\ \A l \in page : l > k => p[l].context # c
  BY DEF Reported, EndsIn
<1> HIDE DEF s, latest, p, n, m, page
<1>7. \A i \in 1..m : n - i + 1 \in page /\ s[i] = p[n - i + 1]
  BY <1>1, <1>3, <1>4, <1>5, TriageAssumption
<1>8. \A k \in page : k \in 1..n /\ n - k + 1 \in 1..m /\ p[k] = s[n - k + 1]
  <2> SUFFICES ASSUME NEW k \in page PROVE k \in 1..n /\ n - k + 1 \in 1..m /\ p[k] = s[n - k + 1]
    OBVIOUS
  <2>1. k \in 1..n /\ n - k + 1 \in 1..m /\ n - (n - k + 1) + 1 = k
    BY <1>1, <1>3, <1>5, TriageAssumption
  <2> QED
    BY <1>7, <2>1
<1>9. ASSUME NEW c PROVE c \in DOMAIN latest <=> Reported(h, c)
  <2>1. c \in DOMAIN latest <=> \E i \in 1..m : s[i].context = c
    BY <1>2 DEF Selects
  <2> QED
    BY <1>6, <1>7, <1>8, <2>1
<1>10. ASSUME NEW c \in DOMAIN latest
       PROVE  \E k \in page :
                /\ p[k].context = c /\ latest[c] = p[k]
                /\ \A l \in page : l > k => p[l].context # c
  <2>1. PICK i \in 1..m :
           /\ s[i].context = c /\ latest[c] = s[i]
           /\ \A l \in 1..m : s[l].context = c =>
                 s[l].at <= s[i].at /\ (l < i => s[l].at < s[i].at)
    BY <1>2, <1>10 DEF Selects
  <2> DEFINE k == n - i + 1
  <2>2. k \in page /\ k \in 1..n /\ s[i] = p[k]
    BY <1>7, <1>8
  <2>3. ASSUME NEW l \in page, l > k, p[l].context = c PROVE FALSE
    <3> DEFINE j == n - l + 1
    <3>1. j \in 1..m /\ p[l] = s[j] /\ l \in 1..n
      BY <1>8
    <3>2. j < i
      BY <1>3, <2>3, <3>1
    <3> HIDE DEF j, k
    <3>3. p[l].at < p[k].at
      BY <2>1, <2>2, <2>3, <3>1, <3>2
    <3>4. p[k].at <= p[l].at
      BY <1>3, <2>2, <2>3, <3>1
    <3>5. p[k].at \in Nat /\ p[l].at \in Nat
      BY <1>3, <2>2, <3>1 DEF Statuses
    <3> QED
      BY <3>3, <3>4, <3>5
  <2> HIDE DEF k
  <2> QED
    BY <2>1, <2>2, <2>3
<1>11. ASSUME NEW S, NEW c \in DOMAIN latest PROVE latest[c].state \in S <=> EndsIn(h, c, S)
  <2>1. PICK k \in page :
           /\ p[k].context = c /\ latest[c] = p[k]
           /\ \A l \in page : l > k => p[l].context # c
    BY <1>10
  <2>2. ASSUME EndsIn(h, c, S) PROVE p[k].state \in S
    <3>1. PICK o \in page : /\ p[o].context = c /\ p[o].state \in S
                            /\ \A l \in page : l > o => p[l].context # c
      BY <1>6, <2>2
    <3>2. ~(k > o) /\ ~(o > k)
      BY <2>1, <3>1
    <3>3. k = o
      BY <1>3, <1>8, <3>2
    <3> QED
      BY <3>1, <3>3
  <2>3. ASSUME p[k].state \in S PROVE EndsIn(h, c, S)
    BY <1>6, <2>1, <2>3
  <2> QED
    BY <2>1, <2>2, <2>3
<1> QED
  BY <1>9, <1>11 DEF latest, s

\* Whatever the listing leaves out, contexts are selected.
LEMMA ContextsAreSelected ==
    ASSUME TypeInv, NEW h \in Heads
    PROVE  RebuildContexts(GetLatestStatuses(ListStatuses(h))) \subseteq Contexts
<1> DEFINE s == ListStatuses(h)
           latest == GetLatestStatuses(s)
<1>1. s \in Seq(Statuses) /\ Selects(latest, s, Len(s))
  BY ListStatusesIs, LatestSelects
<1> HIDE DEF s, latest
<1>2. \A i \in 1..Len(s) : s[i] \in Statuses
  BY <1>1
<1>3. \A i \in 1..Len(s) : s[i].context \in Contexts
  BY <1>2 DEF Statuses
<1>4. DOMAIN latest \subseteq Contexts
  BY <1>1, <1>3 DEF Selects
<1>5. configurations \subseteq Contexts
  BY TriageAssumption DEF TypeInv, TypeOK, configurations
<1> QED
  BY <1>4, <1>5 DEF RebuildContexts, latest, s

-----------------------------------------------------------------------------
\* Nothing is published, queued or running at first.
LEMMA TypeInit == Init => TypeInv
<1> SUFFICES ASSUME Init PROVE TypeInv
  OBVIOUS
<1>1. published \in [Heads -> Seq([context : Contexts, state : Results, at : Nat])]
      /\ \A h \in Heads : published[h] = <<>>
  BY DEF Init
<1>2. NoMessage \in Messages /\ events = 0 /\ head = 0 /\ head \in Heads
  BY TriageAssumption DEF NoMessage, Messages, Init, Heads
<1>3. handler \in Handlers /\ handler.msg = NoMessage
  BY <1>2 DEF Init, Idle, Handlers
<1>4. job \in TriageJobs
  BY <1>2 DEF Init, Off, TriageJobs
<1>5. TypeOK
  <2>1. \A h \in Heads : DOMAIN published[h] = {}
    BY <1>1
  <2>2. queue \cup {handler.msg} \subseteq Messages
    BY <1>2, <1>3 DEF Init
  <2>3. /\ handler.pc \in {"idle", "issue", "statuses", "build"}
        /\ handler.todo \cup handler.owed \subseteq Contexts
    BY <1>3 DEF Handlers
  <2>4. job.pc \in {"off", "issue", "statuses", "clean"} /\ job.head \in 0..head
    BY <1>4 DEF TriageJobs
  <2>5. open \in BOOLEAN /\ trigger \in BOOLEAN /\ failing \in BOOLEAN /\ setup \in Setups
    BY DEF Init
  <2> QED
    BY <1>1, <1>2, <2>1, <2>2, <2>3, <2>4, <2>5 DEF TypeOK, Messages
<1> QED
  BY <1>2, <1>3, <1>4, <1>5 DEF TypeInv

\* A new status of a head is not older than the others of the head.
LEMMA PublishType ==
    ASSUME TypeInv, NEW h \in Heads, NEW c \in Contexts, NEW r \in Results, Publish(h, c, r)
    PROVE  /\ published' \in [Heads -> Seq(Statuses)]
           /\ \A g \in Heads : g # h => published'[g] = published[g]
           /\ \A g \in Heads : \A k, l \in DOMAIN published'[g] :
                 k < l => published'[g][k].at <= published'[g][l].at
<1> DEFINE p == published[h]
           n == Len(p)
           last == IF p = <<>> THEN 0 ELSE Last(p).at
<1>1. p \in Seq(Statuses) /\ n \in Nat
      /\ \A k, l \in DOMAIN p : k < l => p[k].at <= p[l].at
  <2>1. published \in [Heads -> Seq(Statuses)]
    BY DEF TypeInv, TypeOK, Statuses
  <2>2. \A k, l \in DOMAIN p : k < l => p[k].at <= p[l].at
    BY DEF TypeInv, TypeOK
  <2> QED
    BY <2>1, <2>2
<1>2. \A k \in 1..n : p[k] \in Statuses /\ p[k].at \in Nat
  <2>1. \A k \in 1..n : p[k] \in Statuses
    BY <1>1
  <2> QED
    BY <2>1 DEF Statuses
<1>3. last \in Nat /\ \A k \in 1..n : p[k].at <= last
  <2>1. CASE p = <<>>
    BY <1>1, <2>1
  <2>2. CASE p # <<>>
    <3>1. n \in 1..n /\ last = p[n].at
      BY <1>1, <2>2 DEF Last
    <3>2. ASSUME NEW k \in 1..n PROVE p[k].at <= p[n].at
      <4>1. k = n \/ k < n
        BY <1>1
      <4> QED
        BY <1>1, <1>2, <3>1, <4>1
    <3> QED
      BY <1>2, <3>1, <3>2
  <2> QED
    BY <2>1, <2>2
<1>4. published \in [Heads -> Seq(Statuses)]
  BY DEF TypeInv, TypeOK, Statuses
<1>5. PICK later \in {0, 1} :
         published' = [published EXCEPT ![h] = Append(p,
            [context |-> c, state |-> r,
             at |-> IF p = <<>> THEN 0 ELSE Last(p).at + later])]
  BY <1>4 DEF Publish
<1> DEFINE at == IF p = <<>> THEN 0 ELSE Last(p).at + later
           s == [context |-> c, state |-> r, at |-> at]
<1>6. at >= last /\ at \in Nat
  BY <1>3
<1>7. published' = [published EXCEPT ![h] = Append(p, s)]
  BY <1>5
<1> HIDE DEF at, last
<1>8. s \in Statuses /\ s.at >= last /\ s.at \in Nat
  BY <1>6 DEF Statuses
<1> HIDE DEF s
<1> DEFINE q == Append(p, s)
<1>9. /\ q \in Seq(Statuses) /\ Len(q) = n + 1 /\ \A k \in 1..n : q[k] = p[k]
      /\ q[n + 1] = s
  BY <1>1, <1>8, AppendProperties
<1>10. DOMAIN p = 1..n /\ DOMAIN q = 1..(n + 1)
  BY <1>1, <1>9
<1> HIDE DEF q
<1>11. ASSUME NEW k \in 1..(n + 1), NEW l \in 1..(n + 1), k < l PROVE q[k].at <= q[l].at
  <2>1. k \in 1..n
    BY <1>1, <1>11
  <2>2. CASE l \in 1..n
    BY <1>1, <1>9, <1>10, <1>11, <2>1, <2>2
  <2>3. CASE l = n + 1
    <3>1. p[k].at <= last /\ p[k].at \in Nat /\ q[l] = s /\ q[k] = p[k]
      BY <1>2, <1>3, <1>9, <2>1, <2>3
    <3> QED
      BY <1>3, <1>8, <3>1
  <2> QED
    BY <1>1, <2>2, <2>3
<1>12. /\ published' \in [Heads -> Seq(Statuses)] /\ published'[h] = q
       /\ \A g \in Heads : g # h => published'[g] = published[g]
  BY <1>4, <1>7, <1>9 DEF q
<1> HIDE DEF p
<1>13. ASSUME NEW g \in Heads, g # h
       PROVE  \A k, l \in DOMAIN published'[g] : k < l => published'[g][k].at <= published'[g][l].at
  BY <1>12, <1>13 DEF TypeInv, TypeOK
<1>14. \A k, l \in DOMAIN published'[h] : k < l => published'[h][k].at <= published'[h][l].at
  BY <1>10, <1>11, <1>12
<1> QED
  BY <1>12, <1>13, <1>14

\* A message and a job carry a head that was pushed.
LEMMA MessageHead ==
    ASSUME TypeInv PROVE handler.msg.head \in Heads
BY TriageAssumption DEF TypeInv, TypeOK, Handlers, Messages, Heads

\* The same for the job.
LEMMA JobHead ==
    ASSUME TypeInv PROVE job.head \in Heads
BY TriageAssumption DEF TypeInv, TypeOK, TriageJobs, Heads

\* The types after a step that publishes nothing.
LEMMA TypeFrame ==
    ASSUME TypeInv, UNCHANGED <<published, setup>>, head' \in Heads,
           open' \in BOOLEAN, trigger' \in BOOLEAN, failing' \in BOOLEAN,
           events' \in Nat, events' >= events,
           queue' \subseteq Messages', handler' \in Handlers', job' \in TriageJobs'
    PROVE  TypeInv'
<1>1. handler'.msg \in Messages' /\ handler'.todo \cup handler'.owed \subseteq Contexts
      /\ handler'.pc \in {"idle", "issue", "statuses", "build"}
  BY DEF Handlers
<1>2. job'.pc \in {"off", "issue", "statuses", "clean"} /\ job'.head \in 0..head'
  BY DEF TriageJobs
<1>3. TypeOK'
  BY <1>1, <1>2 DEF TypeInv, TypeOK, Messages
<1> QED
  BY <1>3 DEF TypeInv

\* Every step keeps the types.
LEMMA TypeNext == TypeInv /\ [Next]_vars => TypeInv'
<1> SUFFICES ASSUME TypeInv, [Next]_vars PROVE TypeInv'
  OBVIOUS
<1>1. /\ open \in BOOLEAN /\ trigger \in BOOLEAN /\ failing \in BOOLEAN
      /\ events \in Nat /\ head \in Heads /\ head \in Nat /\ queue \subseteq Messages
      /\ handler \in Handlers /\ handler.msg \in Messages /\ job \in TriageJobs
  BY DEF TypeInv, TypeOK, Messages, Handlers, Heads
<1>2. Idle \in Handlers /\ Off \in TriageJobs
  BY <1>1, TriageAssumption DEF Idle, NoMessage, Handlers, Messages, Off, TriageJobs
<1>3. UNCHANGED <<events, head>> =>
         Messages' = Messages /\ Handlers' = Handlers /\ TriageJobs' = TriageJobs
  BY DEF Messages, Handlers, TriageJobs
<1>4. CASE UNCHANGED vars
  BY <1>4 DEF vars, github, TypeInv, TypeOK, Messages, Handlers, TriageJobs
<1>5. ASSUME NEW h \in Heads, NEW c \in Contexts, NEW r \in Results, Publish(h, c, r)
      PROVE  TypeInv'
  <2>1. /\ published' \in [Heads -> Seq(Statuses)]
        /\ \A g \in Heads : \A k, l \in DOMAIN published'[g] :
              k < l => published'[g][k].at <= published'[g][l].at
    BY <1>5, PublishType
  <2>2. UNCHANGED <<open, head, trigger, failing, setup, queue, events>>
    BY <1>5 DEF Publish
  <2>3. handler' \in Handlers /\ handler'.msg = handler.msg
    <3> DEFINE owed == handler.owed \cap Eligible(h)'
    <3>1. handler' = handler \/ handler' = [handler EXCEPT !.owed = owed]
      BY <1>5 DEF Publish
    <3>2. owed \in SUBSET Contexts
      BY <1>1 DEF Handlers
    <3> HIDE DEF owed
    <3> QED
      BY <1>1, <3>1, <3>2 DEF Handlers, Messages
  <2>4. job' \in TriageJobs
    <3> DEFINE green == job.green \/ Green(h)'
    <3>1. (job' = job \/ job' = [job EXCEPT !.green = green]) /\ green \in BOOLEAN
      BY <1>5 DEF Publish, Green
    <3> HIDE DEF green
    <3> QED
      BY <1>1, <3>1 DEF TriageJobs
  <2>5. /\ handler'.pc \in {"idle", "issue", "statuses", "build"}
        /\ handler'.todo \cup handler'.owed \subseteq Contexts
        /\ job'.pc \in {"off", "issue", "statuses", "clean"} /\ job'.head \in 0..head'
    BY <1>3, <2>2, <2>3, <2>4 DEF Handlers, TriageJobs
  <2>6. TypeOK'
    BY <1>1, <2>1, <2>2, <2>3, <2>5 DEF TypeInv, TypeOK, Statuses, Messages
  <2> QED
    BY <1>1, <1>3, <2>2, <2>3, <2>4, <2>6 DEF TypeInv
<1>6. ASSUME Person, open' \in BOOLEAN, trigger' \in BOOLEAN, failing' \in BOOLEAN,
             head' \in {head, head + 1} /\ head' \in Heads, queue' \subseteq Labeled
      PROVE  TypeInv'
  <2>1. events' = events + 1 /\ UNCHANGED <<published, setup, handler, job>>
    BY <1>6 DEF Person
  <2>2. \A m \in Messages : m \in Messages'
    BY <1>1, <1>6, <2>1 DEF Messages
  <2>3. handler' \in Handlers' /\ job' \in TriageJobs'
    BY <1>1, <1>6, <2>1, <2>2 DEF Handlers, TriageJobs
  <2>4. [id |-> events', attempts |-> 0, open |-> open, head |-> head] \in Messages'
    BY <1>1, <1>6, <2>1, TriageAssumption DEF Messages
  <2>5. queue' \subseteq Messages'
    BY <1>1, <1>6, <2>2, <2>4 DEF Labeled
  <2> QED
    BY <1>1, <1>6, <2>1, <2>3, <2>5, TypeFrame
<1>7. CASE Push \/ SetTrigger \/ TakeTrigger \/ MoveFailing \/ Close
  <2>1. CASE Push
    <3>1. head + 1 \in Heads
      BY <1>1, <2>1, TriageAssumption DEF Push, Heads
    <3> QED
      BY <1>1, <1>6, <2>1, <3>1 DEF Push, Labeled
  <2>2. CASE SetTrigger \/ TakeTrigger \/ MoveFailing \/ Close
    BY <1>1, <1>6, <2>2 DEF SetTrigger, TakeTrigger, MoveFailing, Close, Labeled
  <2> QED
    BY <1>7, <2>1, <2>2
<1>8. ASSUME UNCHANGED <<open, head, published, failing, setup, job, events>>,
             trigger' \in BOOLEAN, queue' \subseteq queue \cup {handler.msg}, handler' \in Handlers
      PROVE  TypeInv'
  BY <1>1, <1>3, <1>8, TypeFrame
<1>9. CASE Handle
  <2>1. ASSUME NEW m \in queue, Deliver(m) PROVE TypeInv'
    <3> DEFINE msg == [m EXCEPT !.attempts = @ + 1]
    <3>1. m \in Messages /\ m.attempts < MaxAttempts
      BY <1>1, <2>1 DEF Deliver
    <3>2. msg \in Messages
      BY <3>1, TriageAssumption DEF Messages
    <3>3. Eligible(m.head) \subseteq Contexts
      BY DEF Eligible
    <3> HIDE DEF msg
    <3>4. [Idle EXCEPT !.pc = "issue", !.owed = Eligible(m.head), !.msg = msg] \in Handlers
      BY <1>2, <3>2, <3>3 DEF Handlers
    <3>5. handler' \in Handlers
      BY <1>2, <2>1, <3>4 DEF Deliver, msg
    <3> QED
      BY <1>1, <1>8, <2>1, <3>5 DEF Deliver, github
  <2>2. ASSUME NEW m \in queue, GiveUp(m) PROVE TypeInv'
    BY <1>1, <1>8, <2>2 DEF GiveUp, github
  <2>3. CASE GetIssue
    <3>1. handler' \in Handlers
      BY <1>1, <1>2, <2>3 DEF GetIssue, Handlers
    <3> QED
      BY <1>1, <1>8, <2>3, <3>1 DEF GetIssue, github
  <2>4. CASE GetStatuses
    <3> DEFINE todo == RebuildContexts(GetLatestStatuses(ListStatuses(handler.msg.head)))
    <3>1. todo \in SUBSET Contexts
      BY <1>1, MessageHead, ContextsAreSelected
    <3>2. handler' = [handler EXCEPT !.pc = "build", !.todo = todo]
      BY <2>4 DEF GetStatuses
    <3> HIDE DEF todo
    <3>3. handler' \in Handlers
      BY <1>1, <3>1, <3>2 DEF Handlers
    <3> QED
      BY <1>1, <1>8, <2>4, <3>3 DEF GetStatuses, github
  <2>5. CASE RemoveTrigger
    BY <1>1, <1>2, <1>8, <2>5 DEF RemoveTrigger, ReturnError
  <2>6. CASE Fail
    BY <1>1, <1>2, <1>8, <2>6 DEF Fail, ReturnError
  <2>7. ASSUME NEW c \in Contexts, Build(c) PROVE TypeInv'
    <3>1. handler' \in Handlers
      BY <1>1, <2>7 DEF Build, Handlers
    <3> QED
      BY <1>1, <1>8, <2>7, <3>1 DEF Build, github
  <2> QED
    BY <1>9, <2>1, <2>2, <2>3, <2>4, <2>5, <2>6, <2>7 DEF Handle
<1>10. ASSUME UNCHANGED <<open, head, published, trigger, setup, queue, handler, events>>,
              failing' \in BOOLEAN, job' \in TriageJobs
       PROVE  TypeInv'
  BY <1>1, <1>3, <1>10, TypeFrame
<1>11. CASE RunJob
  <2>1. CASE Fire
    <3>1. job' = [pc |-> "issue", head |-> head, green |-> FALSE]
      BY <2>1 DEF Fire, Off
    <3>2. job' \in TriageJobs
      BY <1>1, <3>1 DEF TriageJobs
    <3> QED
      BY <1>1, <1>10, <2>1, <3>2 DEF Fire, github
  <2>2. CASE GetJobIssue
    <3> DEFINE green == Green(job.head)
    <3>1. (job' = [job EXCEPT !.pc = "statuses", !.green = green] \/ job' = Off) /\ green \in BOOLEAN
      BY <2>2 DEF GetJobIssue, Green
    <3> HIDE DEF green
    <3>2. job' \in TriageJobs
      BY <1>1, <1>2, <3>1 DEF TriageJobs
    <3> QED
      BY <1>1, <1>10, <2>2, <3>2 DEF GetJobIssue, github
  <2>3. CASE GetJobStatuses
    <3>1. job' \in TriageJobs
      BY <1>1, <1>2, <2>3 DEF GetJobStatuses, TriageJobs
    <3> QED
      BY <1>1, <1>10, <2>3, <3>1 DEF GetJobStatuses, github
  <2>4. CASE RemoveFailing
    BY <1>1, <1>2, <1>10, <2>4 DEF RemoveFailing
  <2>5. CASE FailJob
    BY <1>1, <1>2, <1>10, <2>5 DEF FailJob
  <2> QED
    BY <1>11, <2>1, <2>2, <2>3, <2>4, <2>5 DEF RunJob
<1>12. ASSUME NEW h \in Heads, NEW report \in Reports, Publish(h, report[1], report[2])
       PROVE  TypeInv'
  <2>1. report[1] \in Contexts /\ report[2] \in Results
    BY TriageAssumption
  <2> QED
    BY <1>5, <1>12, <2>1
<1> QED
  BY <1>4, <1>12, <1>7, <1>9, <1>11 DEF Next

(***************************************************************************)
(* The types: statuses are in order of time, a message is delivered        *)
(* MaxAttempts times at most, and only known contexts are built.           *)
(***************************************************************************)
THEOREM TriageTypeCorrect == Spec => []TypeOK
<1>1. TypeInv => TypeOK
  BY DEF TypeInv
<1> QED
  BY <1>1, TypeInit, TypeNext, PTL DEF Spec

-----------------------------------------------------------------------------
\* The handler owes only what it has yet to select or to have built.
LEMMA OwesNext == TypeInv /\ Owes /\ [Next]_vars => Owes'
<1> SUFFICES ASSUME TypeInv, Owes, [Next]_vars PROVE Owes'
  OBVIOUS
<1>1. handler \in Handlers
  BY DEF TypeInv
<1>2. ASSUME UNCHANGED <<published, setup>>
      PROVE  \A h : Eligible(h)' = Eligible(h)
  BY <1>2 DEF Eligible, EndsIn, Reported, OnPage, configurations, RebuildStatuses
<1>3. ASSUME UNCHANGED <<published, setup, handler>> PROVE Owes'
  BY <1>2, <1>3 DEF Owes
<1>4. ASSUME handler' = Idle PROVE Owes'
  BY <1>4 DEF Owes, Idle
<1>5. ASSUME NEW h \in Heads, NEW c \in Contexts, NEW r \in Results, Publish(h, c, r) PROVE Owes'
  <2>1. handler.msg.head \in Heads
    BY MessageHead
  <2>2. CASE handler.pc \in {"issue", "statuses"} /\ handler.msg.head = h
    <3> DEFINE owed == handler.owed \cap Eligible(h)'
    <3>1. handler' = [handler EXCEPT !.owed = owed]
      BY <1>5, <2>2 DEF Publish
    <3>2. owed \subseteq Eligible(h)'
      OBVIOUS
    <3> HIDE DEF owed
    <3>3. handler'.pc = handler.pc /\ handler'.msg = handler.msg /\ handler'.owed = owed
      BY <1>1, <3>1 DEF Handlers
    <3> QED
      BY <2>2, <3>2, <3>3 DEF Owes
  <2>3. CASE handler.pc \in {"issue", "statuses"} /\ handler.msg.head # h
    <3>1. handler' = handler /\ setup' = setup
      BY <1>5, <2>3 DEF Publish
    <3>2. published'[handler.msg.head] = published[handler.msg.head]
      BY <1>5, <2>1, <2>3, PublishType
    <3>3. Eligible(handler.msg.head)' = Eligible(handler.msg.head)
      BY <3>1, <3>2 DEF Eligible, EndsIn, Reported, OnPage, configurations, RebuildStatuses
    <3> QED
      BY <2>3, <3>1, <3>3 DEF Owes
  <2>4. CASE handler.pc \notin {"issue", "statuses"}
    BY <1>5, <2>4 DEF Publish, Owes
  <2> QED
    BY <2>2, <2>3, <2>4
<1>6. ASSUME NEW m \in queue, Deliver(m) PROVE Owes'
  <2>1. CASE m.open
    <3>1. /\ handler'.pc = "issue" /\ handler'.owed = Eligible(m.head)
          /\ handler'.msg.head = m.head
      <4>1. m \in Messages
        BY <1>6 DEF TypeInv, TypeOK, Messages
      <4> QED
        BY <1>6, <2>1, <4>1 DEF Deliver, Idle, Messages
    <3>2. Eligible(m.head)' = Eligible(m.head)
      BY <1>2, <1>6 DEF Deliver, github
    <3> QED
      BY <3>1, <3>2 DEF Owes
  <2>2. CASE ~m.open
    BY <1>4, <1>6, <2>2 DEF Deliver
  <2> QED
    BY <2>1, <2>2
<1>7. CASE GetIssue
  <2>1. CASE trigger
    <3>1. /\ handler.pc = "issue" /\ handler'.pc = "statuses" /\ handler'.owed = handler.owed
          /\ handler'.msg = handler.msg
      BY <1>1, <1>7, <2>1 DEF GetIssue, Handlers
    <3>2. Eligible(handler.msg.head)' = Eligible(handler.msg.head)
      BY <1>2, <1>7, <3>1 DEF GetIssue, github
    <3> QED
      BY <3>1, <3>2 DEF Owes
  <2>2. CASE ~trigger
    BY <1>4, <1>7, <2>2 DEF GetIssue
  <2> QED
    BY <2>1, <2>2
<1>8. CASE GetStatuses
  <2> DEFINE h == handler.msg.head
             latest == GetLatestStatuses(ListStatuses(h))
             todo == RebuildContexts(latest)
  <2>1. /\ \A c : c \in DOMAIN latest <=> Reported(h, c)
        /\ \A S : \A c \in DOMAIN latest : latest[c].state \in S <=> EndsIn(h, c, S)
    BY MessageHead, LatestIsLast
  <2>2. handler' = [handler EXCEPT !.pc = "build", !.todo = todo] /\ handler.pc = "statuses"
    BY <1>8 DEF GetStatuses
  <2> HIDE DEF latest
  <2>3. Eligible(h) \subseteq todo
    <3>1. \A c : EndsIn(h, c, RebuildStatuses) => Reported(h, c)
      BY DEF EndsIn, Reported
    <3> QED
      BY <2>1, <3>1 DEF Eligible, RebuildContexts
  <2> HIDE DEF todo
  <2>4. handler'.pc = "build" /\ handler'.todo = todo /\ handler'.owed = handler.owed
    BY <1>1, <2>2 DEF Handlers
  <2> QED
    BY <2>2, <2>3, <2>4 DEF Owes
<1>9. ASSUME NEW c \in Contexts, Build(c) PROVE Owes'
  <2>1. /\ handler.pc = "build" /\ handler'.pc = "build"
        /\ handler'.todo = handler.todo \ {c} /\ handler'.owed = handler.owed \ {c}
    BY <1>1, <1>9 DEF Build, Handlers
  <2> QED
    BY <2>1 DEF Owes
<1>10. CASE RemoveTrigger \/ Fail
  BY <1>4, <1>10 DEF RemoveTrigger, Fail, ReturnError
<1>11. CASE UNCHANGED vars
  BY <1>3, <1>11 DEF vars, github
<1>12. CASE Push \/ SetTrigger \/ TakeTrigger \/ MoveFailing \/ Close
  BY <1>3, <1>12 DEF Push, SetTrigger, TakeTrigger, MoveFailing, Close, Person
<1>13. ASSUME NEW m \in queue, GiveUp(m) PROVE Owes'
  BY <1>3, <1>13 DEF GiveUp, github
<1>14. CASE RunJob
  BY <1>3, <1>14 DEF RunJob, Fire, GetJobIssue, GetJobStatuses, RemoveFailing, FailJob, github
<1>15. ASSUME NEW h \in Heads, NEW report \in Reports, Publish(h, report[1], report[2])
       PROVE  Owes'
  <2>1. report[1] \in Contexts /\ report[2] \in Results
    BY TriageAssumption
  <2> QED
    BY <1>5, <1>15, <2>1
<1> QED
  BY <1>15, <1>6, <1>7, <1>8, <1>9, <1>10, <1>11, <1>12, <1>13, <1>14 DEF Next, Handle

(***************************************************************************)
(* rebuild.go:88: the trigger label is taken off only after the CI has     *)
(* accepted every context that was to be rebuilt by what one page of the   *)
(* statuses of the event's head showed, for any size of the page and any   *)
(* interleaving of new statuses, pushes, failed requests and deliveries.   *)
(***************************************************************************)
THEOREM EveryBuildIsRequested == Spec => RebuildIsWhole
<1>1. Init => Owes
  BY DEF Init, Idle, Owes
<1>2. TypeInv /\ Owes /\ [Next]_vars => Owes'
  BY OwesNext
<1>3. TypeInv /\ Owes /\ [Next]_vars
        => (trigger /\ ~trigger' /\ events' = events => handler.owed = {})
  <2> SUFFICES ASSUME TypeInv, Owes, [Next]_vars, trigger, ~trigger', events' = events
               PROVE  handler.owed = {}
    OBVIOUS
  <2>1. ~Person
    BY DEF Person, TypeInv
  <2>2. RemoveTrigger \/ Fail
    BY <2>1 DEF Next, vars, github, Publish, Push, SetTrigger, TakeTrigger, MoveFailing, Close,
                Handle, Deliver, GiveUp, GetIssue, GetStatuses, Build,
                RunJob, Fire, GetJobIssue, GetJobStatuses, RemoveFailing, FailJob
  <2>3. handler.pc = "build" /\ handler.todo = {}
    BY <2>2 DEF RemoveTrigger, Fail
  <2> QED
    BY <2>3 DEF Owes
<1> QED
  BY <1>1, <1>2, <1>3, TypeInit, TypeNext, PTL DEF Spec, RebuildIsWhole

-----------------------------------------------------------------------------
\* The job knows when no context was failing since it saw the label.
LEMMA RemembersNext == TypeInv /\ Remembers /\ [Next]_vars => Remembers'
<1> SUFFICES ASSUME TypeInv, Remembers, [Next]_vars PROVE Remembers'
  OBVIOUS
<1>1. job \in TriageJobs
  BY DEF TypeInv
<1>2. ASSUME published' = published PROVE \A h : Green(h)' = Green(h)
  BY <1>2 DEF Green, EndsIn, OnPage
<1>3. ASSUME UNCHANGED <<published, job>> PROVE Remembers'
  BY <1>2, <1>3 DEF Remembers
<1>4. ASSUME job'.pc \in {"off", "issue"} PROVE Remembers'
  BY <1>4 DEF Remembers
<1>5. ASSUME NEW h \in Heads, NEW c \in Contexts, NEW r \in Results, Publish(h, c, r)
      PROVE  Remembers'
  <2>1. CASE job.pc = "statuses" /\ job.head = h
    <3> DEFINE green == job.green \/ Green(h)'
    <3>1. job' = [job EXCEPT !.green = green]
      BY <1>5, <2>1 DEF Publish
    <3> HIDE DEF green
    <3>2. job'.pc = job.pc /\ job'.green = green /\ job'.head = h
      BY <1>1, <2>1, <3>1 DEF TriageJobs
    <3> QED
      BY <2>1, <3>2 DEF Remembers, green
  <2>2. CASE job.pc = "statuses" /\ job.head # h
    <3>1. job' = job
      BY <1>5, <2>2 DEF Publish
    <3>2. published'[job.head] = published[job.head]
      BY <1>5, <2>2, JobHead, PublishType
    <3>3. Green(job.head)' = Green(job.head)
      BY <3>1, <3>2 DEF Green, EndsIn, OnPage
    <3> QED
      BY <2>2, <3>1, <3>3 DEF Remembers
  <2>3. CASE job.pc # "statuses"
    BY <1>5, <2>3 DEF Publish, Remembers
  <2> QED
    BY <2>1, <2>2, <2>3
<1>6. CASE GetJobIssue
  <2>1. CASE failing
    <3>1. /\ job' = [job EXCEPT !.pc = "statuses", !.green = Green(job.head)]
          /\ Green(job.head)' = Green(job.head)
      BY <1>2, <1>6, <2>1 DEF GetJobIssue, github
    <3>2. job'.pc = "statuses" /\ job'.green = Green(job.head) /\ job'.head = job.head
      BY <1>1, <3>1 DEF TriageJobs
    <3> QED
      BY <3>1, <3>2 DEF Remembers
  <2>2. CASE ~failing
    BY <1>4, <1>6, <2>2 DEF GetJobIssue, Off
  <2> QED
    BY <2>1, <2>2
<1>7. CASE GetJobStatuses
  <2> DEFINE latest == GetLatestStatuses(ListStatuses(job.head))
  <2>1. /\ \A c : c \in DOMAIN latest <=> Reported(job.head, c)
        /\ \A S : \A c \in DOMAIN latest : latest[c].state \in S <=> EndsIn(job.head, c, S)
    BY JobHead, LatestIsLast
  <2>2. job.pc = "statuses" /\ job' = IF HasFailures(latest) THEN Off ELSE [job EXCEPT !.pc = "clean"]
    BY <1>7 DEF GetJobStatuses
  <2> HIDE DEF latest
  <2>3. CASE HasFailures(latest)
    BY <1>4, <2>2, <2>3 DEF Off
  <2>4. CASE ~HasFailures(latest)
    <3>1. Green(job.head)
      <4>1. \A S : \A c : EndsIn(job.head, c, S) => Reported(job.head, c)
        BY DEF EndsIn, Reported
      <4>2. ASSUME NEW c \in Contexts, EndsIn(job.head, c, {"error", "failure"}) PROVE FALSE
        <5>1. c \in DOMAIN latest /\ latest[c].state \in {"error", "failure"}
          BY <2>1, <4>1, <4>2
        <5> QED
          BY <2>4, <5>1 DEF HasFailures
      <4> QED
        BY <4>2 DEF Green
    <3>2. job'.pc = "clean" /\ job'.green = job.green
      BY <1>1, <2>2, <2>4 DEF TriageJobs
    <3> QED
      BY <2>2, <3>1, <3>2 DEF Remembers
  <2> QED
    BY <2>3, <2>4
<1>8. CASE Fire
  <2>1. job'.pc = "issue"
    BY <1>1, <1>8 DEF Fire, TriageJobs
  <2> QED
    BY <1>4, <2>1
<1>9. CASE RemoveFailing \/ FailJob
  BY <1>4, <1>9 DEF RemoveFailing, FailJob, Off
<1>10. CASE UNCHANGED vars
  BY <1>3, <1>10 DEF vars, github
<1>11. CASE Push \/ SetTrigger \/ TakeTrigger \/ MoveFailing \/ Close
  BY <1>3, <1>11 DEF Push, SetTrigger, TakeTrigger, MoveFailing, Close, Person
<1>12. CASE Handle
  BY <1>3, <1>12 DEF Handle, Deliver, GiveUp, GetIssue, GetStatuses, RemoveTrigger, Fail, Build, github
<1>13. ASSUME NEW h \in Heads, NEW report \in Reports, Publish(h, report[1], report[2])
       PROVE  Remembers'
  <2>1. report[1] \in Contexts /\ report[2] \in Results
    BY TriageAssumption
  <2> QED
    BY <1>5, <1>13, <2>1
<1> QED
  BY <1>13, <1>6, <1>7, <1>8, <1>9, <1>10, <1>11, <1>12 DEF Next, RunJob

(***************************************************************************)
(* ci-label-clean.go:73: the label of failures goes only if at some moment *)
(* since the job saw it no context was failing on the first page of the    *)
(* statuses of the head that the job listed, for any size of the page and  *)
(* whatever is published and pushed meanwhile.                             *)
(***************************************************************************)
THEOREM CleanHasAReason == Spec => CleanIsJustified
<1>1. Init => Remembers
  BY DEF Init, Off, Remembers
<1>2. TypeInv /\ Remembers /\ [Next]_vars => Remembers'
  BY RemembersNext
<1>3. TypeInv /\ Remembers /\ [Next]_vars
        => (failing /\ ~failing' /\ events' = events => job.green)
  <2> SUFFICES ASSUME TypeInv, Remembers, [Next]_vars, failing, ~failing', events' = events
               PROVE  job.green
    OBVIOUS
  <2>1. ~Person
    BY DEF Person, TypeInv
  <2>2. RemoveFailing \/ FailJob
    BY <2>1 DEF Next, vars, github, Publish, Push, SetTrigger, TakeTrigger, MoveFailing, Close,
                Handle, Deliver, GiveUp, GetIssue, GetStatuses, Build, RemoveTrigger, Fail,
                RunJob, Fire, GetJobIssue, GetJobStatuses
  <2>3. job.pc = "clean"
    BY <2>2 DEF RemoveFailing, FailJob
  <2> QED
    BY <2>3 DEF Remembers
<1> QED
  BY <1>1, <1>2, <1>3, TypeInit, TypeNext, PTL DEF Spec, CleanIsJustified

=============================================================================
