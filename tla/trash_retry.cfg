SPECIFICATION FairSpec
CONSTANTS
    u1 = u1  p1 = p1  w1 = w1  w2 = w2  c1 = c1
    Accounts = {u1}
    Projects = {p1}
    Owner <- OwnedByU1
    Clients = {c1}
    Workers = {w1, w2}
    FirstPk <- ApartPks
    MaxRows <- OneRow
    MaxRetries = 1
    MaxDoubled = 1
    EmptyManually = FALSE
    Unreliable = {"project"}
PROPERTY
    ProjectsAreEmptied
CHECK_DEADLOCK FALSE
