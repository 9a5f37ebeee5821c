SPECIFICATION Spec
CONSTANTS
    alice = alice  bob = bob
    form = form  draft = draft
    w1 = w1  w2 = w2  c1 = c1  c2 = c2
    Users = {alice, bob}
    Assets = {form}
    Deployed = {form}
    Invites = {1}
    Scope <- FormScope
    Sender <- FromAlice
    Recipient <- ToBob
    FirstOwner <- AliceOwns
    Workers = {w1, w2}
    Clients = {c1}
    MaxQueue = 1
    Faults = {"kill", "crash"}
    AutoAccept = TRUE
SYMMETRY WorkerSymmetry
INVARIANTS
    TypeOK
    SuccessMeansDone
    TasksFollowReassign
    SuccessMeansMoved
CHECK_DEADLOCK FALSE
