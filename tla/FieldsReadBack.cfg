SPECIFICATION Spec
CONSTANTS
    Base = 4
    Groups = 3
    Pow <- Powers
    Yes = 3
    Numbers <- AllNumbers
    Strings <- SomeStrings
    Values <- SomeValues
    MaxFields = 2
INVARIANTS
    FieldsTypeOK
    WellEncoded
    ReadsBack
    StaysWithin
    NeverThrows
CHECK_DEADLOCK FALSE
