SPECIFICATION Spec
CONSTANTS
    Requests = {r1, r2, r3}
    alice_a = alice_a
    alice_b = alice_b
    bob_a = bob_a
    alice = alice
    bob = bob
    Accounts <- MCAccounts
    Users <- MCUsers
    Username <- MCUsername
    Sessions = {s1, s2}
    Grants = {g1, g2}
    Services = {"InMemory", "Spanner"}
    Mishaps = {"db", "kms", "provider", "tokenExpiry", "sessionExpiry"}
SYMMETRY Symmetry
INVARIANTS TypeOK OwnTokens SessionsRedeemed AuthorizationKept RescindSticks
CHECK_DEADLOCK FALSE
