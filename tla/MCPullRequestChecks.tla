------------------------ MODULE MCPullRequestChecks ------------------------
EXTENDS PullRequestChecks

DcoThenValidation == <<"dco", "validation">>

=============================================================================
