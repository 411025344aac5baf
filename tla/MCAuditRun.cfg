SPECIFICATION Spec
CONSTANTS
    t1 = t1
    t2 = t2
    age = age
    count = count
    Tables <- MCTables
    Thresholds <- MCThresholds
    Policies <- MCPolicies
    Inputs <- MCInputs
INVARIANTS
    TypeOK
    ExitCodeIsHonest
    OwnPolicyOnly
CHECK_DEADLOCK FALSE
