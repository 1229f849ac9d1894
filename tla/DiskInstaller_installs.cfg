\* Kernel at sector 4, file system from sector 8.
SPECIFICATION Spec
CONSTANTS
    DriveList <- MCDrives
    Packages <- MCPackages
    PlanOf <- MCPlanOf
    Fonts <- MCFonts
    VisibleRows = 3
    Media <- MCMedia
    KernelLba = 4
    CoreLimit = 8
    PartStart = 8
    TreeFiles = 2
    SizeOf <- MCSizeOf
    Word = 4096
INVARIANTS OnlyTheTarget DoneIsComplete HalfBootOnlyByFault BarIsTrue CursorShown
CHECK_DEADLOCK FALSE
