\* Three connections race for the first versions of one aggregate.
SPECIFICATION Spec
CONSTANTS
    w1 = w1
    w2 = w2
    w3 = w3
    t1 = t1
    t2 = t2
    a = a
    b = b
    Nothing = Nothing
    Writers <- MCWriters
    Tenants <- MCTenants
    Contents <- MCContents
    MaxVersion = 3
SYMMETRY MCSymmetry
INVARIANTS
    TypeOK
    OneRowPerVersion
    OwnerIsImmutable
PROPERTIES
    ImplementsRecord
