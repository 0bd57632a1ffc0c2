------------------------------ MODULE Filters ------------------------------
(***************************************************************************)
(* The filters of an operation (operations/settings/filtering.go) and the  *)
(* rules that a configuration is validated against (configuration/*.go,    *)
(* operations/catalog/configuration.go), as operators without state.       *)
(*                                                                         *)
(* Filters are a function from types to values, as in the YAML.  An item   *)
(* is the record x that the program has in hand: its payload is "issue" or *)
(* "pr" by the field of gh.Item that is set, links tells an issue that is  *)
(* really that of a pull request, and brief a pull request shown without   *)
(* its field Comments.  said are the comments read by a request.  Ages are *)
(* in days, texts are words, labels any values.                            *)
(***************************************************************************)
EXTENDS Naturals, Sequences

\* gh/tools.go
HasAnyLabels(wanted, labels) == wanted \cap labels # {}
HasAllLabels(wanted, labels) == wanted \subseteq labels

UnitDays == [d |-> 1, w |-> 7, m |-> 31, y |-> 365]
Duration(age) == age.quantity * UnitDays[age.unit]

-----------------------------------------------------------------------------
(***************************************************************************)
(* What each filter says of an item.                                       *)
(***************************************************************************)
Older(age, x) == x.age > Duration(age)

Assigned(value, x) == (value = "true") = (x.assignees # {})

Counts(comments, x) ==
    CASE comments.operator = "<" -> x.comments < comments.count
      [] comments.operator = "=" -> x.comments = comments.count
      [] comments.operator = ">" -> x.comments > comments.count

IssuePasses(is, x) == is = "issue" /\ ~x.links
PullRequestPasses(is) == is = "pr"

WithLabels(labels, x) == HasAllLabels(labels, x.labels)
WithoutLabels(labels, x) == ~HasAnyLabels(labels, x.labels)

Contains(regexp, said) == said \cap regexp.words # {}

-----------------------------------------------------------------------------
ApplyIssue(type, value, x, said) ==
    CASE type = "age" -> Older(value, x)
      [] type = "assigned" -> Assigned(value, x)
      [] type = "comments" -> Counts(value, x)
      [] type = "is" -> IssuePasses(value, x)
      [] type = "labels" -> WithLabels(value, x)
      [] type = "~labels" -> WithoutLabels(value, x)
      [] type = "contains" -> Contains(value, said)

(***************************************************************************)
(* Three filters do not implement pullRequestFilter: pull requests pass.   *)
(***************************************************************************)
ApplyPullRequest(type, value, x, said) ==
    CASE type = "age" -> Older(value, x)
      [] type = "comments" -> Counts(value, x)
      [] type = "is" -> PullRequestPasses(value)
      [] type = "contains" -> Contains(value, said)
      [] type \in {"assigned", "labels", "~labels"} -> TRUE

(***************************************************************************)
(* The filters that can be evaluated: the number of comments of a brief    *)
(* pull request is nil.  The filters are in the order of a map, any: one   *)
(* that rejects the item may come before the one that panics.              *)
(***************************************************************************)
Evaluable(filters, x) ==
    DOMAIN filters \ (IF x.payload = "pr" /\ x.brief THEN {"comments"} ELSE {})
FiltersPanic(filters, x) == Evaluable(filters, x) # DOMAIN filters

FiltersApply(filters, x, said) ==
    \A type \in Evaluable(filters, x) :
        IF x.payload = "issue" THEN ApplyIssue(type, filters[type], x, said)
        ELSE ApplyPullRequest(type, filters[type], x, said)

(***************************************************************************)
(* MakeFilter: the types there are, and the values each can read.          *)
(***************************************************************************)
MakesFilter(type, value) ==
    CASE type = "age" -> value.unit \in DOMAIN UnitDays
      [] type = "assigned" -> value \in {"true", "false"}
      [] type = "comments" -> value.operator \in {"<", "=", ">"}
      [] type = "is" -> value \in {"pr", "issue"}
      [] type \in {"labels", "~labels"} -> TRUE
      [] type = "contains" -> value.compiles
      [] OTHER -> FALSE

ParsesFilters(filters) == \A type \in DOMAIN filters : MakesFilter(type, filters[type])

\* Mutant: any filter on the type leaves the issues out.
IncludesUntyped(filters) == "is" \notin DOMAIN filters

(***************************************************************************)
(* Whether a listing is made at all: only "is" can leave one out.          *)
(***************************************************************************)
FilterIncludesIssues(filters) == "is" \in DOMAIN filters => filters["is"] # "pr"
FilterIncludesPullRequests(filters) == "is" \in DOMAIN filters => filters["is"] # "issue"

-----------------------------------------------------------------------------
(***************************************************************************)
(* Operations: their type, the settings read here, and their filters.      *)
(* "push" stands for the events that no item is made of.                   *)
(***************************************************************************)
GitHubEvents ==
    {"issues", "issue_comment", "pull_request", "pull_request_review_comment", "push"}

Catalog == {"label", "random-assign", "version-label", "version-milestone"}

OperationFromConfig(op) == op.type \in Catalog /\ (op.type = "label" => op.compiles)

\* NewOperationRunnerFromConfig: an error here fails the event or the job.
MakesRunner(op) == ParsesFilters(op.filters) /\ OperationFromConfig(op)

TriggersContain(triggers, event, action) ==
    event \in DOMAIN triggers /\ action \in triggers[event]

TriggersValid(triggers) == DOMAIN triggers \subseteq GitHubEvents

\* Action.Validate: the filters of the operations are not looked at.
ValidAction(a) ==
    /\ TriggersValid(a.triggers)
    /\ a.schedule \in {"", "hourly"}
    /\ \A k \in DOMAIN a.operations : OperationFromConfig(a.operations[k])

ValidActions(actions) == \A k \in DOMAIN actions : ValidAction(actions[k])

(***************************************************************************)
(* Operation.Accepts, and whether the operation has options for a listing. *)
(***************************************************************************)
Accepts(type) ==
    CASE type \in {"label", "random-assign"} -> {"issue", "pr"}
      [] type = "version-label" -> {"issue"}
      [] type = "version-milestone" -> {"pr"}

HasListing(type) == type # "version-milestone"

=============================================================================
