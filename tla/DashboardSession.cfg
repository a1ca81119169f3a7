\* Two tabs, two accounts.
SPECIFICATION FairSpec
CONSTANTS
    t1 = t1
    t2 = t2
    Tabs <- MCTabs
    Users = {"ann", "bob"}
    Nobody = "nobody"
    Unnamed = "unnamed"
    MaxTokens = 2
    MaxUnder = 2
    MaxFaults = 1
    MaxSends = 2
INVARIANTS IdentityExplained SignedOutExplained
PROPERTIES LiveSessionEnds TabsSettle
CHECK_DEADLOCK FALSE
