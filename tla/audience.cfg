SPECIFICATION Spec
CONSTANTS
    ann = ann
    bob = bob
    alice = alice
    People = {ann, bob}
    r1 = r1
    Subjects <- TheFirst
    JoinPrefs <- AnnHides
    Rows = {r1, r2}
    Users = {u1, u2}
    Names <- OneName
    Ops <- AnnAndBob
    Moderations <- AllModerations
    Deployments <- Both
    Alone <- EditsAlone
    Undisturbed <- Atomic
    NoRow = NoRow
    NoUser = NoUser
    NoName = NoName
    Nobody = Nobody
SYMMETRY Symmetric
INVARIANTS TypeOK ModeratedIsOut 
PROPERTIES ActiveRowIsNotTaken ProtectedRowKeepsOwner FailedJoinLeavesNothing 
CHECK_DEADLOCK FALSE
