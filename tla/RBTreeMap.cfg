SPECIFICATION Spec
CONSTANTS
    Keys = {1, 2, 3, 4, 5}
    Values = {1, 2}
INVARIANT LookupFinds
PROPERTY ImplementsMap
