SPECIFICATION Spec
CONSTANTS
    alice = alice  bob = bob
    form = form  draft = draft
    w1 = w1  w2 = w2  c1 = c1  c2 = c2
    Users = {alice, bob}
    Assets = {draft, form}
    Deployed = {}
    Invites = {1}
    Scope <- PairScope
    Sender <- FromAlice
    Recipient <- ToBob
    FirstOwner <- AliceOwns
    Workers = {w1}
    Clients = {c1, c2}
    MaxQueue = 0
    Faults = {"webcrash"}
    AutoAccept = FALSE
SYMMETRY ClientSymmetry
INVARIANTS
    CompleteMeansDone
    ReassignIsRecorded
    CompleteMeansSuccess
CHECK_DEADLOCK FALSE
