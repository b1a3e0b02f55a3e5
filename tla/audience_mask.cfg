SPECIFICATION Spec
CONSTANTS
    ann = ann
    bob = bob
    alice = alice
    People = {ann}
    r1 = r1
    Subjects <- TheFirst
    JoinPrefs <- AnnMayHide
    Rows = {r1}
    Users = {u1}
    Names <- OneName
    Ops <- OnlyAnn
    Moderations <- None
    Deployments <- Plain
    Alone <- AllAlone
    Undisturbed <- AllAlone
    NoRow = NoRow
    NoUser = NoUser
    NoName = NoName
    Nobody = Nobody
INVARIANT MaskRemembersName
CHECK_DEADLOCK FALSE
