SPECIFICATION Spec
CONSTANTS
    u1 = u1
    u2 = u2
    u3 = u3
    file1 = file1
    file2 = file2
    d1 = d1
    None = None
    Uploads = {u1, u2, u3}
    Files = {file1, file2}
    Downloads = {d1}
    Plans <- MCPlans
INVARIANTS OneFounder NoInternalError AnsweredIsThereOrComing
