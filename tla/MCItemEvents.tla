---------------------------- MODULE MCItemEvents ----------------------------
(***************************************************************************)
(* Instances of ItemEvents: an item and a configuration per starting point.*)
(***************************************************************************)
EXTENDS ItemEvents, TLC

NoFilters == [t \in {} |-> {}]
Operation(type, filters) ==
    [type |-> type, filters |-> filters, users |-> {}, patterns |-> [t \in {} |-> {}],
     compiles |-> TRUE]
RandomAssign(users, filters) == [Operation("random-assign", filters) EXCEPT !.users = users]
LabelBy(filters) ==
    [Operation("label", filters) EXCEPT !.patterns = (<<"platform", "windows">> :> {"windows"})]
VersionLabel == Operation("version-label", NoFilters)
VersionMilestone == Operation("version-milestone", NoFilters)
Unknown == Operation("random-asign", NoFilters)

Action(triggers, schedule, operations) ==
    [triggers |-> triggers, schedule |-> schedule, operations |-> operations]
Opened == ("issues" :> {"opened"}) @@ ("pull_request" :> {"opened"})
Commented == Opened @@ ("issue_comment" :> {"created"})
            @@ ("pull_request_review_comment" :> {"created"}) @@ ("push" :> {"none"})
Closed == ("pull_request" :> {"closed"})
PullEvents == ("pull_request" :> {"opened", "closed"})
              @@ ("pull_request_review_comment" :> {"created"})

Text(word, server) == {[word |-> word, server |-> server]}
Ce == {[minor |-> "17.05", suffix |-> "ce"]}
AnItem(payload, body) ==
    [payload |-> payload, links |-> payload = "pr", brief |-> FALSE, author |-> "ann", title |-> "crash",
     body |-> body, master |-> TRUE, labels |-> {}, assignees |-> {}, milestone |-> 0,
     merged |-> FALSE, said |-> {}, comments |-> 0, age |-> 40]
Issue == AnItem("issue", Text("windows", Ce))
PullRequest == AnItem("pr", Text("windows", {}))

\* Releases and milestones only where an operation is about them.
From(it, common, repository, v, open) ==
    [item |-> it, common |-> common, repository |-> repository, version |-> v,
     milestones |-> open]
Start(it, common, repository) == From(it, common, repository, 2, {})

Says(word) == ("contains" :> [words |-> {word}, compiles |-> TRUE])
IssuesOnly == ("is" :> "issue") @@ ("age" :> [quantity |-> 1, unit |-> "m"])
PullsOnly == ("is" :> "pr") @@ ("labels" :> {<<"kind", "bug">>})
Unassigned == ("assigned" :> "false") @@ ("comments" :> [operator |-> "<", count |-> 2])
Quiet == ("comments" :> [operator |-> "=", count |-> 0]) @@ ("is" :> "pr")
Unlabeled == ("~labels" :> {<<"platform", "windows">>})

Starts ==
    {\* an issue: labels on its creation and on a comment
     Start(Issue, <<Action(Opened, "", <<VersionLabel, LabelBy(IssuesOnly)>>)>>,
                  <<Action(Commented, "", <<LabelBy(Says("windows") @@ Unlabeled)>>)>>),
     \* assignment at each event, also by a job; the author is in the list
     Start(Issue, <<Action(Commented, "hourly", <<RandomAssign({"ann", "bob"}, Unassigned)>>)>>,
                  <<>>),
     \* only the author
     Start(PullRequest, <<Action(Opened, "", <<RandomAssign({"ann"}, Unassigned)>>),
                          Action(Closed, "", <<LabelBy(PullsOnly)>>)>>, <<>>),
     \* a number of comments that some of the payloads and all listings leave out
     Start(PullRequest, <<Action(PullEvents, "hourly", <<LabelBy(Quiet)>>)>>, <<>>),
     \* in the repository, an operation that does not exist and a filter that does not parse
     Start(Issue, <<>>,
           <<Action(Commented, "", <<RandomAssign({"bob", "cid"}, NoFilters), Unknown>>),
             Action(Opened, "", <<LabelBy("is" :> "issues")>>)>>),
     \* a milestone
     From(PullRequest, <<Action(PullEvents, "", <<VersionMilestone>>)>>, <<>>, 1, {1}),
     \* nil fields and empty lists; the panic of a job
     Start(AnItem("issue", {}), <<Action(Closed, "hourly", <<LabelBy(PullsOnly), LabelBy(NoFilters)>>),
                                  Action(Commented, "", <<VersionMilestone>>)>>, <<>>),
     Start(PullRequest, <<Action(Commented, "", <<VersionLabel>>),
                          Action(Opened, "", <<RandomAssign({}, NoFilters)>>),
                          Action(Closed, "hourly", <<LabelBy(IssuesOnly), VersionMilestone>>)>>,
           <<>>)}

\* Valid configurations without filters.
StartsUnfiltered ==
    {Start(PullRequest, <<Action(Opened, "", <<VersionLabel>>)>>, <<>>),
     Start(Issue, <<Action(Opened, "", <<VersionLabel, VersionMilestone>>)>>, <<>>)}

=============================================================================
