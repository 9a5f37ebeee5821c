SPECIFICATION FairSpec
CONSTANTS
    alice = alice  bob = bob
    form = form  draft = draft
    w1 = w1  w2 = w2  c1 = c1  c2 = c2
    Users = {alice, bob}
    Assets = {form}
    Deployed = {form}
    Invites = {1}
    Scope <- FormScope
    Sender <- FromAlice
    Recipient <- ToBob
    FirstOwner <- AliceOwns
    Workers = {w1}
    Clients = {c1}
    MaxQueue = 1
    Faults = {"crash"}
    AutoAccept = TRUE
PROPERTY
    TransferResolves
CHECK_DEADLOCK FALSE
