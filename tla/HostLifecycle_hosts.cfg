SPECIFICATION Spec
CONSTANTS
    Creates = {c1}
    Deletes = {d1, d2}
    bob = bob
    bobby = bobby
    Users <- MCUsers
    Finds <- MCFinds
    RetryAttempts = 1
    MaxHosts = 3
SYMMETRY Symmetry
INVARIANTS TypeOK CreatedIsListed DeletesObeyed
CHECK_DEADLOCK FALSE

