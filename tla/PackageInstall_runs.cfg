\* A library that is one binary and a system package that needs it, an
\* archive of either layout; packages are removed too, and /binaries may
\* not open.
SPECIFICATION FairSpec
CONSTANTS
    lib = lib
    app = app
    Packages = {lib, app}
    Depends <- MCDepends
    Archives = {app}
    System = {app}
    InBinaries = {lib, app}
    Legacy = {app}
    Extras = {app}
    BaseVersion = 1
    Commands = {"install", "update", "updateAll", "remove", "check"}
    ScanMayFail = TRUE
    MaxVersion = 2
    MaxRuns = 2
    MaxCrashes = 1
INVARIANTS OnlyPublished PartialOnlyByCrash DependenciesThere PlanInstalls
  
CHECK_DEADLOCK FALSE
