SPECIFICATION Spec
CONSTANTS
    LongBits = 8
    IntBits = 6
    ShortBits = 4
CONSTANTS
    Directives <- MCDirectives
    Strings <- MCStrings
    Longs <- MCLongs
INVARIANTS
    ReadsBack
    FieldFilled
    DirectivesIndependent
