SPECIFICATION Spec
CONSTANTS
    Kind = {"customer"}
    Caller = {"c1", "c2"}
    Slug = {"s1", "s2"}
    Type = {"t1", "t2"}
    TypeOf <- MCTypeOf
    FirstSlugs = {"s1"}
    FirstTypes = {"t1"}
INVARIANTS ResolvesAlone
