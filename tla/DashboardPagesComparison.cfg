\* The overview alone, and a comparison that is overtaken by an older one.
SPECIFICATION Spec
CONSTANTS
    o1 = o1
    o2 = o2
    Pages <- MCComparing
    Ranges = {"7d", "30d"}
    Owns <- MCOwns
    Matches <- MCMatches
    PageSize = 1
    MaxActs = 1
    MaxShrink = 0
    MaxLate = 1
INVARIANTS ComparisonFits
CHECK_DEADLOCK FALSE
