SPECIFICATION Spec
CONSTANTS
    Calls = {c1, c2}
    Asked <- Addresses
    Members = {member}
    MaxAttempts = 2
    Retries = 1
    Overlapping = {c1}
    c1 = c1
    c2 = c2
    new = new
    member = member
INVARIANTS
    MailedOnce
PROPERTY
    InvitationsSettle
CHECK_DEADLOCK FALSE
