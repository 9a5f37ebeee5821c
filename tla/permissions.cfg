SPECIFICATION Spec
CONSTANTS
    alice = alice  bob = bob  carol = carol  c = c  s = s  t = t  none = none
    Anonymous = anon
    Assets = {c, s, t}
    Type <- MCType
    Owner <- MCOwner
    Users = {alice, bob, carol}
    None = none
    Places <- MCPlaces
    About <- MCAbout
    Granted <- MCGranted
    Filtered <- MCFiltered
    Lists <- MCLists
    Copied <- MCCopied
INVARIANTS
    TypeOK
    OwnerHasAll
    ImpliedHeld
    NoContradiction
    PartialHasFilters
    KcComplete
    InheritanceFollows
    BulkGivesWhatItLists
CHECK_DEADLOCK FALSE
