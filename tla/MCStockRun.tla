----------------------------- MODULE MCStockRun -----------------------------
EXTENDS StockRun

CONSTANTS i1, i2, i3

Numbers == [i \in Items |-> IF i = i1 THEN 3 ELSE IF i = i2 THEN 2 ELSE 1]
PingPass == <<[op |-> "ping", lister |-> "issues"]>>
PingThenLabel == <<[op |-> "ping", lister |-> "issues"],
                   [op |-> "label", lister |-> "issues"],
                   [op |-> "label", lister |-> "prs"]>>
CloseThenLabel == <<[op |-> "force-close", lister |-> "issues"],
                    [op |-> "label", lister |-> "prs"]>>

=============================================================================
