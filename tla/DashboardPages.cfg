\* Every page, two ranges, two choices with lists of two pages and of one.
SPECIFICATION FairSpec
CONSTANTS
    o1 = o1
    o2 = o2
    Pages <- MCPages
    Ranges = {"7d", "30d"}
    Owns <- MCOwns
    Matches <- MCMatches
    PageSize = 1
    MaxActs = 3
    MaxShrink = 1
    MaxLate = 1
INVARIANTS ErrorIsCurrent LabelExplained MarkedUnlessCrossed QuietWhenSettled EmptyPageExplained ComparisonExplained
PROPERTIES RangeKept
CHECK_DEADLOCK FALSE
