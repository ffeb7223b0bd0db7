SPECIFICATION Spec
CONSTANTS
    Kind = {"service", "customer"}
    Caller = {"c1"}
    Slug = {"s1", "s2", "s3"}
    Type = {"t1", "t2", "t3"}
    TypeOf <- MCTypeOf
    FirstSlugs = {"s1", "s2"}
    FirstTypes = {"t1"}
INVARIANTS RegistryCoversCatalog AbsenceIsAVerdict RefetchesAreBounded
