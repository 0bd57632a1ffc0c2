------------------------------ MODULE StockRun ------------------------------
(***************************************************************************)
(* Scheduled work on the stock of open items (runner/runner.go,            *)
(* server/action.go): a cron entry runs the operations of an action, each  *)
(* on every page of a listing of the open items, filtering and applying    *)
(* item by item.  GitHub goes on changing meanwhile, the operation itself  *)
(* moves the items it touches within the listing, and nothing stops a      *)
(* second job of the same entry from starting before the first is over.    *)
(*                                                                         *)
(* Two operations stand for the catalog: prune (ping or force-close),      *)
(* which lists by ascending update time and ends its selection with        *)
(* Terminal, and label, which lists by creation and may be given twice.    *)
(***************************************************************************)
EXTENDS Naturals, Sequences, FiniteSets

CONSTANTS
    Items,         \* issues and pull requests that are open at first
    PRs,           \* those that are pull requests
    Number,        \* the number of an item: they are numbered as they are created
    Matched,       \* the items that pass the filters of the operation
    Crowded,       \* those with more comments since the window began than a page holds
    Jobs,          \* goroutines started by the cron entry
    Passes,        \* the listings an action makes: a sequence of [op, lister]
    PerPage,       \* size of a page of a listing
    MaxEvents,     \* bound: what people and time do to the items
    MaxErrors,     \* bound: failed requests
    MaxPings       \* bound: pings of an item that are told apart

ASSUME StockAssumption ==
    /\ IsFiniteSet(Items) /\ PRs \subseteq Items /\ Matched \subseteq Items
    /\ Crowded \subseteq Items
    /\ Number \in [Items -> Nat] /\ \A a, b \in Items : Number[a] = Number[b] => a = b
    /\ Passes \in Seq([op : {"ping", "force-close", "label"}, lister : {"issues", "prs"}])
    /\ Passes # <<>>
    /\ PerPage \in Nat \ {0}
    /\ MaxEvents \in Nat /\ MaxErrors \in Nat /\ MaxPings \in Nat \ {0}

VARIABLES
    order,         \* the open items, the least recently updated first
    fresh,         \* UpdatedAt is within the outdated threshold
    human,         \* age of the last comment by a person
    pings,         \* comments by prune since the last activity of a person
    labelled,      \* the items that carry the label
    job,           \* the local variables of every job
    dry,           \* the dry-run setting
    events, errors

items == <<order, fresh, human, pings, labelled>>
vars == <<items, job, dry, events, errors>>

Open == { order[i] : i \in 1..Len(order) }

(***************************************************************************)
(* human: "recent", within the outdated threshold; "window", older, but    *)
(* within the grace period and the day that the Since option adds; "none", *)
(* older still or never: prune does not see such a comment.                *)
(***************************************************************************)
Ages == {"recent", "window", "none"}

(***************************************************************************)
(* A job stands at a step of one of its passes.  left are the items of the *)
(* page it has yet to handle, with the UpdatedAt they were listed with;    *)
(* seen, from and calm are the history of the pass: the items submitted to *)
(* Filter, the items open when it began, and whether the listing stood     *)
(* still; late tells of a comment between the Filter and the Apply of an   *)
(* item.                                                                   *)
(***************************************************************************)
Begin(k) == [pc |-> "list", pass |-> k, page |-> 1, left |-> <<>>, next |-> 0,
             seen |-> {}, from |-> Open, calm |-> TRUE, late |-> FALSE]
Off == [pc |-> "off", pass |-> 0, page |-> 0, left |-> <<>>, next |-> 0,
        seen |-> {}, from |-> {}, calm |-> TRUE, late |-> FALSE]
Pass(j) == Passes[job[j].pass]

Init ==
    /\ order \in { s \in [1..Cardinality(Items) -> Items] :
                     \A a, b \in DOMAIN s : s[a] = s[b] => a = b }
    /\ human \in [Items -> Ages]
    /\ fresh \in [Items -> BOOLEAN]
    /\ \A i \in Items : human[i] = "recent" => fresh[i]
    /\ \A a, b \in DOMAIN order : a < b /\ fresh[order[a]] => fresh[order[b]]
    /\ pings = [i \in Items |-> 0]
    /\ labelled = {}
    /\ job = [j \in Jobs |-> Off]
    /\ dry \in BOOLEAN
    /\ events = 0
    /\ errors = 0

-----------------------------------------------------------------------------
\* The listing moved under every pass in progress.
Disturbed == [j \in Jobs |-> [job[j] EXCEPT !.calm = FALSE]]

Without(i) ==
    IF i \notin Open THEN order
    ELSE LET k == CHOOSE k \in DOMAIN order : order[k] = i
         IN  SubSeq(order, 1, k - 1) \o SubSeq(order, k + 1, Len(order))

\* An update of i: it becomes the most recently updated item.
Touch(i) ==
    /\ order' = Append(Without(i), i)
    /\ fresh' = [fresh EXCEPT ![i] = TRUE]

\* Filter has accepted i, and Apply is next.
AtItem(j, i) == job[j].pc = "apply" /\ Head(job[j].left).item = i

\* Outside: a person comments on an open item, or closes it.
Comment(i) ==
    /\ i \in Open
    /\ events < MaxEvents
    /\ events' = events + 1
    /\ Touch(i)
    /\ human' = [human EXCEPT ![i] = "recent"]
    /\ pings' = [pings EXCEPT ![i] = 0]
    /\ job' = [j \in Jobs |-> [Disturbed[j] EXCEPT !.late = @ \/ AtItem(j, i)]]
    /\ UNCHANGED <<labelled, dry, errors>>

Close(i) ==
    /\ i \in Open
    /\ events < MaxEvents
    /\ events' = events + 1
    /\ order' = Without(i)
    /\ job' = Disturbed
    /\ UNCHANGED <<fresh, human, pings, labelled, dry, errors>>

(***************************************************************************)
(* Time passes: a comment leaves the threshold, then the Since window; an  *)
(* update leaves the threshold, older ones first.                          *)
(***************************************************************************)
Age(i) ==
    /\ \/ /\ human[i] # "none"
          /\ human' = [human EXCEPT ![i] = IF @ = "recent" THEN "window" ELSE "none"]
          /\ UNCHANGED fresh
       \/ /\ fresh[i] /\ human[i] # "recent" /\ i \in Open
          /\ \A a, b \in DOMAIN order : a < b /\ order[b] = i => ~fresh[order[a]]
          /\ fresh' = [fresh EXCEPT ![i] = FALSE]
          /\ UNCHANGED human
    /\ events < MaxEvents
    /\ events' = events + 1
    /\ UNCHANGED <<order, pings, labelled, job, dry, errors>>

-----------------------------------------------------------------------------
\* The cron entry fires: a goroutine of its own runs executeActionOnAllItems.
Fire(j) ==
    /\ job[j].pc = "off"
    /\ job' = [job EXCEPT ![j] = Begin(1)]
    /\ UNCHANGED <<items, dry, events, errors>>

\* The latest created first.
ByCreation(S) ==
    CHOOSE s \in [1..Cardinality(S) -> S] :
        \A a, b \in DOMAIN s : a < b => Number[s[a]] > Number[s[b]]

(***************************************************************************)
(* ListItems: the page as it is now.  The issues listing holds the pull    *)
(* requests as well, for GitHub counts them as issues.                     *)
(***************************************************************************)
Listing(p) ==
    IF p.lister = "prs" THEN ByCreation(Open \cap PRs)
    ELSE IF p.op = "label" THEN ByCreation(Open)
    ELSE order

Page(s, n) ==
    LET first == (n - 1) * PerPage + 1
        last == IF n * PerPage < Len(s) THEN n * PerPage ELSE Len(s)
    IN  SubSeq(s, first, last)

\* Mutant: the last page is taken for the one before it.
ListShort(j) ==
    LET s == Listing(Pass(j))
        n == job[j].page
        page == Page(s, n)
    IN
    /\ job[j].pc = "list"
    /\ job' = [job EXCEPT ![j].pc = "item",
                          ![j].left = [k \in 1..Len(page) |->
                                         [item |-> page[k], fresh |-> fresh[page[k]]]],
                          ![j].next = IF (n + 1) * PerPage < Len(s) THEN n + 1 ELSE 0]
    /\ UNCHANGED <<items, dry, events, errors>>

List(j) ==
    LET s == Listing(Pass(j))
        n == job[j].page
        page == Page(s, n)
    IN
    /\ job[j].pc = "list"
    /\ job' = [job EXCEPT ![j].pc = "item",
                          ![j].left = [k \in 1..Len(page) |->
                                         [item |-> page[k], fresh |-> fresh[page[k]]]],
                          ![j].next = IF n * PerPage < Len(s) THEN n + 1 ELSE 0]
    /\ UNCHANGED <<items, dry, events, errors>>

(***************************************************************************)
(* pruneOperation.Filter: the last comment by a person if Since finds one, *)
(* otherwise the UpdatedAt of the listing.  Filter reads one page of the   *)
(* comments, the oldest first: of a crowded item it sees an older comment  *)
(* than the last, or none but its own.                                     *)
(***************************************************************************)
LastSeen(i) ==
    IF i \notin Crowded THEN {human[i]}
    ELSE CASE human[i] = "recent" -> Ages
           [] human[i] = "window" -> {"window", "none"}
           [] human[i] = "none" -> {"none"}

\* Mutant: without a recent comment, the time of the update is not looked at.
OutdatedByCommentOnly(last, listedFresh) == last = "window"

\* Mutant: the comments are not looked at.
OutdatedByListing(last, listedFresh) == ~listedFresh

Outdated(last, listedFresh) ==
    \/ last = "window"
    \/ last = "none" /\ ~listedFresh

Verdict(op, last, listedFresh) ==
    IF op = "label" THEN "accept"
    ELSE IF Outdated(last, listedFresh) THEN "accept" ELSE "terminal"

\* Mutant: the dry-run setting is not looked at.
FilterWet(j) ==
    LET x == Head(job[j].left) IN
    /\ job[j].pc = "item"
    /\ job[j].left # <<>>
    /\ \E last \in LastSeen(x.item) :
          LET v == IF x.item \notin Matched THEN "unmatched"
                 ELSE Verdict(Pass(j).op, last, x.fresh)
              go == v = "accept"
          IN  job' = [job EXCEPT ![j].pc = IF go THEN "apply" ELSE "item",
                                 ![j].left = IF go THEN @ ELSE Tail(@),
                                 ![j].seen = @ \cup {x.item},
                                 ![j].late = FALSE]
    /\ UNCHANGED <<items, dry, events, errors>>

\* Mutant: the global filters are not applied.
FilterAll(j) ==
    LET x == Head(job[j].left) IN
    /\ job[j].pc = "item"
    /\ job[j].left # <<>>
    /\ \E last \in LastSeen(x.item) :
          LET v == Verdict(Pass(j).op, last, x.fresh)
              go == v = "accept" /\ ~dry
          IN  job' = [job EXCEPT ![j].pc = IF go THEN "apply" ELSE "item",
                                 ![j].left = IF go THEN @ ELSE Tail(@),
                                 ![j].seen = @ \cup {x.item},
                                 ![j].late = FALSE]
    /\ UNCHANGED <<items, dry, events, errors>>

\* runSingle up to the operation's own Filter; Terminal is treated as Reject.
Filter(j) ==
    LET x == Head(job[j].left) IN
    /\ job[j].pc = "item"
    /\ job[j].left # <<>>
    /\ \E last \in LastSeen(x.item) :
          LET v == IF x.item \notin Matched THEN "unmatched"
                 ELSE Verdict(Pass(j).op, last, x.fresh)
              go == v = "accept" /\ ~dry
          IN  job' = [job EXCEPT ![j].pc = IF go THEN "apply" ELSE "item",
                                 ![j].left = IF go THEN @ ELSE Tail(@),
                                 ![j].seen = @ \cup {x.item},
                                 ![j].late = FALSE]
    /\ UNCHANGED <<items, dry, events, errors>>

(***************************************************************************)
(* Operation.Apply.  A comment on an item that was closed meanwhile        *)
(* succeeds and does not put it back in the listing.                       *)
(***************************************************************************)
Ping(i) ==
    /\ pings' = [pings EXCEPT ![i] = IF @ < MaxPings THEN @ + 1 ELSE @]
    /\ IF i \in Open THEN Touch(i) ELSE UNCHANGED <<order, fresh>>
    /\ UNCHANGED labelled

ForceClose(i) ==
    /\ order' = Without(i)
    /\ UNCHANGED <<fresh, pings, labelled>>

Label(i) ==
    /\ labelled' = labelled \cup {i}
    /\ IF i \in Open /\ i \notin labelled THEN Touch(i) ELSE UNCHANGED <<order, fresh>>
    /\ UNCHANGED pings

Effect(op, i) ==
    \/ op = "ping" /\ Ping(i)
    \/ op = "force-close" /\ ForceClose(i)
    \/ op = "label" /\ Label(i)

Apply(j) ==
    LET i == Head(job[j].left).item IN
    /\ job[j].pc = "apply"
    /\ Effect(Pass(j).op, i)
    /\ job' = [(IF order' = order THEN job ELSE Disturbed) EXCEPT
                 ![j].pc = "item", ![j].left = Tail(@)]
    /\ UNCHANGED <<human, dry, events, errors>>

\* Mutant: the page number is not advanced.
NextPageSame(j) ==
    /\ job[j].pc = "item"
    /\ job[j].left = <<>>
    /\ job' = [job EXCEPT ![j] =
                 IF @.next # 0 THEN [job[j] EXCEPT !.pc = "list"]
                 ELSE IF @.pass < Len(Passes) THEN Begin(@.pass + 1)
                 ELSE Off]
    /\ UNCHANGED <<items, dry, events, errors>>

\* Mutant: the job ends with its first listing.
NextPageOnePass(j) ==
    /\ job[j].pc = "item"
    /\ job[j].left = <<>>
    /\ job' = [job EXCEPT ![j] =
                 IF @.next # 0 THEN [job[j] EXCEPT !.pc = "list", !.page = job[j].next]
                 ELSE Off]
    /\ UNCHANGED <<items, dry, events, errors>>

\* The page is done: the next one, the next pass, or the end of the job.
NextPage(j) ==
    /\ job[j].pc = "item"
    /\ job[j].left = <<>>
    /\ job' = [job EXCEPT ![j] =
                 IF @.next # 0 THEN [job[j] EXCEPT !.pc = "list", !.page = job[j].next]
                 ELSE IF @.pass < Len(Passes) THEN Begin(@.pass + 1)
                 ELSE Off]
    /\ UNCHANGED <<items, dry, events, errors>>

(***************************************************************************)
(* A request fails, while listing, filtering or applying (a failed Apply   *)
(* may have had its effect): the error ends the whole job, the remaining   *)
(* items and operations with it.                                           *)
(***************************************************************************)
Abort(j) ==
    /\ errors < MaxErrors
    /\ job[j].pc \in {"list", "item", "apply"}
    /\ job[j].pc = "item" => job[j].left # <<>>
    /\ errors' = errors + 1
    /\ \/ /\ job' = [job EXCEPT ![j] = Off]
          /\ UNCHANGED items
       \/ /\ job[j].pc = "apply"
          /\ Effect(Pass(j).op, Head(job[j].left).item)
          /\ job' = [(IF order' = order THEN job ELSE Disturbed) EXCEPT ![j] = Off]
          /\ UNCHANGED human
    /\ UNCHANGED <<dry, events>>

-----------------------------------------------------------------------------
Run(j) == List(j) \/ Filter(j) \/ Apply(j) \/ NextPage(j) \/ Abort(j)

Next ==
    \/ \E i \in Items : Comment(i) \/ Close(i) \/ Age(i)
    \/ \E j \in Jobs : Fire(j) \/ Run(j)

(***************************************************************************)
(* A started job goes on, and the cron entry keeps firing.                 *)
(***************************************************************************)
Fairness == \A j \in Jobs : WF_vars(Run(j)) /\ WF_vars(Fire(j))

Spec == Init /\ [][Next]_vars /\ Fairness

-----------------------------------------------------------------------------
TypeOK ==
    /\ order \in Seq(Items)
    /\ \A a, b \in DOMAIN order : order[a] = order[b] => a = b
    /\ human \in [Items -> Ages]
    /\ fresh \in [Items -> BOOLEAN]
    /\ pings \in [Items -> 0..MaxPings]
    /\ labelled \cup { i \in Items : pings[i] > 0 } \subseteq Matched
    /\ \A j \in Jobs :
          /\ job[j].pc \in {"off", "list", "item", "apply"}
          /\ job[j].pass \in 0..Len(Passes)
          /\ job[j].seen \cup job[j].from \subseteq Items

(***************************************************************************)
(* runner.go:182: a pass during which the listing stands still submits     *)
(* every item it lists; no page is skipped or left out.                    *)
(***************************************************************************)
Listed(j) == IF Pass(j).lister = "prs" THEN job[j].from \cap PRs ELSE job[j].from

CalmPassIsWhole ==
    \A j \in Jobs :
        job[j].pc = "item" /\ job[j].left = <<>> /\ job[j].next = 0 /\ job[j].calm
            => job[j].seen = Listed(j)

(***************************************************************************)
(* configuration/configuration.go:14, runner.go:169: no step of a job in a *)
(* dry run writes to GitHub: it leaves the open items, their order,        *)
(* their update times, their pings and their labels alone.  The steps of   *)
(* people and of time are those that count in events.                      *)
(***************************************************************************)
DryRunIsHarmless == [][dry /\ events' = events => UNCHANGED items]_vars

\* Every job comes to an end, however its own pings reorder the listing.
JobsEnd == \A j \in Jobs : job[j].pc # "off" ~> job[j].pc = "off"

(***************************************************************************)
(* prune.go: an item that has not been updated within the threshold is     *)
(* eventually pinged, updated or closed, although a ping moves its item to *)
(* the end of the listing and so makes the same job skip another: the next *)
(* job starts from the first page again.                                   *)
(***************************************************************************)
Pending(i) == i \in Open \cap Matched /\ ~dry /\ ~fresh[i] /\ pings[i] = 0

OutdatedIsHandled == \A i \in Items : Pending(i) ~> ~Pending(i)

(***************************************************************************)
(* server/action.go: the operations that follow in an action are reached   *)
(* too, whatever the earlier ones closed, failed at or were interrupted    *)
(* by: a matched pull request gets its label unless it is closed first.    *)
(***************************************************************************)
Unlabelled(i) == i \in Open \cap Matched \cap PRs /\ ~dry /\ i \notin labelled

LaterPassesRun == \A i \in Items : Unlabelled(i) ~> ~Unlabelled(i)

(***************************************************************************)
(* runner.go:152-171: an item somebody has commented on within the         *)
(* threshold is pinged or closed only if the comment came between the      *)
(* Filter of the item and its Apply; one that came after the page was      *)
(* listed, and all the pages before it were worked through, saves it.      *)
(* Unless the item is crowded: the last comment is then on a page that     *)
(* Filter does not read (prune.go:137).                                    *)
(***************************************************************************)
CommentSavesIssue ==
    \A j \in Jobs, i \in Items \ Crowded :
        AtItem(j, i) /\ Pass(j).op # "label" /\ human[i] = "recent" => job[j].late

(***************************************************************************)
(* operations.rst:10, "Operations are idempotent, which means that they    *)
(* can safely be applied multiple times": an issue nobody has touched      *)
(* since is not pinged again.                                              *)
(***************************************************************************)
PingedOnce == \A i \in Items : pings[i] <= 1

=============================================================================
