SPECIFICATION Spec
CONSTANTS
    Keys = {1, 2, 3, 4, 5, 6, 7, 8, 9, 10}
    Values = {1}
VIEW ShapeView
INVARIANTS
    verify_properties
    ParentsMirror
    AssertionsHold
PROPERTY CallsReturn
