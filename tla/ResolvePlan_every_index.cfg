\* Three packages, one name the index lacks, lists of up to two names.
SPECIFICATION FairSpec
CONSTANTS
    a = a
    b = b
    c = c
    lost = lost
    Packages = {a, b, c}
    Names = {a, b, c, lost}
    MaxDeps = 2
    MaxPackages = 3
INVARIANTS PlanInOrder
PROPERTIES ImplementsPromise Terminates
CHECK_DEADLOCK FALSE
