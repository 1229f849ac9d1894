------------------------- MODULE DiskInstallerProofs -------------------------
(* Proofs about DiskInstaller, for any drives, packages, media and layout.  *)
EXTENDS DiskInstaller, WellFoundedInduction, TLAPS

Early == {"WELCOME", "SELECT_DRIVE", "OPTIONS", "FORMAT"}
Running == {"COPY", "BOOTLOADER"}
Over == {"DONE", "ERROR", "closed"}

\* The steps before files are written, when another drive may be the logical
\* one.
Before == {"ram", "prepare", "logical"}

\* The page tells whether a run has begun, is under way or is over.
PagesAgree ==
    /\ page \in Early => at = "idle"
    /\ page \in Running => at \in Steps \cup {"off"}
    /\ page \in Over => at = "idle"
    /\ page \in Early \cup Running \cup Over

\* Drives that were not chosen are as they were, and before a run all are;
\* once files are written the logical drive is the chosen one.
DrivesAgree ==
    /\ \A d \in DriveNumbers : disk[d] # Old => d = drive
    /\ page \in Early => \A d \in DriveNumbers : disk[d] = Old
    /\ at \in Steps \ Before => logical = drive
    /\ DOMAIN disk = DriveNumbers

TargetInv == PagesAgree /\ DrivesAgree

----------------------------------------------------------------------------
LEMMA TargetInit == Init => TargetInv
  BY DEF Init, TargetInv, PagesAgree, DrivesAgree, Early, Running, Over, Steps

\* On the pages before a run nothing is written.
LEMMA UserKeeps == ASSUME TargetInv, User PROVE TargetInv'
  <1> USE DEF TargetInv, PagesAgree, DrivesAgree, Early, Running, Over
  <1>1. CASE \E k \in Keys : Welcome(k)
    BY <1>1 DEF Welcome, run, Steps
  <1>2. CASE \E k \in Keys : MoveDrive(k)
    BY <1>2 DEF MoveDrive, run, Steps
  <1>3. CASE \E k \in Keys : SelectDrive(k)
    BY <1>3 DEF SelectDrive, run, Steps
  <1>4. CASE \E k \in Keys : Options(k)
    <2>1. /\ page = "OPTIONS" /\ page' \in {"SELECT_DRIVE", "FORMAT", "OPTIONS"}
          /\ UNCHANGED <<drive, at, logical, disk>>
      BY <1>4 DEF Options, run
    <2> QED
      BY <2>1 DEF Steps
  <1>5. CASE \E k \in Keys : Format(k)
    BY <1>5 DEF Format, Steps, Before
  <1>6. CASE Quit
    BY <1>6 DEF Quit, run, Steps
  <1> QED
    BY <1>1, <1>2, <1>3, <1>4, <1>5, <1>6 DEF User

\* A step of the run that ends it leaves the drives alone, or erases the
\* chosen one.
LEMMA FailedKeeps ==
    ASSUME TargetInv, at \in Steps, NEW w, Failed(w), UNCHANGED <<drive, logical>>,
           DOMAIN disk' = DriveNumbers,
           \A d \in DriveNumbers : d # drive => disk'[d] = disk[d]
    PROVE  TargetInv'
  BY DEF Failed, TargetInv, PagesAgree, DrivesAgree, Early, Running, Over, Steps

\* A step that goes on within the run.
LEMMA GoesOnKeeps ==
    ASSUME TargetInv, at \in Steps, at' \in Steps, page' \in Running, drive' = drive,
           DOMAIN disk' = DriveNumbers,
           \A d \in DriveNumbers : d # drive => disk'[d] = disk[d],
           at' \in Steps \ Before => logical' = drive
    PROVE  TargetInv'
  BY DEF TargetInv, PagesAgree, DrivesAgree, Early, Running, Over, Steps

\* Writing a file or a sector of the chosen drive leaves the others alone.
LEMMA WritesTarget ==
    ASSUME TargetInv, NEW x, disk' = [disk EXCEPT ![drive] = x]
    PROVE  /\ DOMAIN disk' = DriveNumbers
           /\ \A d \in DriveNumbers : d # drive => disk'[d] = disk[d]
  BY DEF TargetInv, DrivesAgree

LEMMA FileOnTarget ==
    ASSUME TargetInv, at \in Steps \ Before, NEW x, WriteFile(x)
    PROVE  /\ DOMAIN disk' = DriveNumbers
           /\ \A d \in DriveNumbers : d # drive => disk'[d] = disk[d]
  BY DEF TargetInv, DrivesAgree, WriteFile

LEMMA SectorOnTarget ==
    ASSUME TargetInv, NEW l, NEW x, Sector(l, x)
    PROVE  /\ DOMAIN disk' = DriveNumbers
           /\ \A d \in DriveNumbers : d # drive => disk'[d] = disk[d]
  BY DEF TargetInv, DrivesAgree, Sector

\* In the run the page is one of two.
LEMMA RunningPage == ASSUME TargetInv, at \in Steps PROVE page \in Running
  BY DEF TargetInv, PagesAgree, Early, Running, Over, Steps

LEMMA RunKeeps == ASSUME TargetInv, RunStep PROVE TargetInv'
  <1>1. DOMAIN disk = DriveNumbers
    BY DEF TargetInv, DrivesAgree
  <1>2. \A s \in Steps \ Before : at = s => logical = drive
    BY DEF TargetInv, DrivesAgree
  <1> USE DEF Steps, Before
  <1>3. CASE RamPreflight
    BY <1>3, <1>1, GoesOnKeeps, RunningPage DEF RamPreflight, GoesOn, pages
  <1>4. CASE PrepareDrive
    <2>1. disk' = [disk EXCEPT ![drive] = Erased] /\ at = "prepare" /\ logical' = logical
      BY <1>4 DEF PrepareDrive
    <2>2. CASE GoesOn("logical")
      BY <2>1, <2>2, WritesTarget, GoesOnKeeps, RunningPage DEF GoesOn, pages
    <2>3. CASE Failed("io") /\ drive' = drive
      BY <2>1, <2>3, WritesTarget, FailedKeeps
    <2> QED
      BY <1>4, <2>2, <2>3 DEF PrepareDrive
  <1>5. CASE SetLogical
    BY <1>5, <1>1, GoesOnKeeps, RunningPage DEF SetLogical, GoesOn, pages
  <1>6. CASE ProbeTarget
    BY <1>6, <1>1, <1>2, GoesOnKeeps, RunningPage DEF ProbeTarget, GoesOn, pages
  <1>7. CASE CopyAbsent
    BY <1>7, <1>1, <1>2, GoesOnKeeps, RunningPage
       DEF CopyAbsent, Copying, NextEntry, pages
  <1>8. CASE CopyChunk
    BY <1>8, <1>1, <1>2, GoesOnKeeps, RunningPage DEF CopyChunk, Copying, pages
  <1>9. CASE CopyEnd
    <2>1. /\ at = "copy" /\ UNCHANGED <<page, drive, logical>> /\ at' \in {"copy", "index"}
          /\ disk' = disk \/ WriteFile(Entry)
      BY <1>9 DEF CopyEnd, Copying, NextEntry, pages
    <2> QED
      BY <2>1, <1>1, <1>2, FileOnTarget, GoesOnKeeps, RunningPage
  <1>10. CASE CopyRefused
    BY <1>10, <1>1, FailedKeeps DEF CopyRefused, Fails
  <1>11. CASE FetchIndex
    BY <1>11, <1>1, <1>2, GoesOnKeeps, RunningPage DEF FetchIndex, GoesOn, pages
  <1>12. CASE InstallPackage
    <2>1. /\ at = "package" /\ at' \in {"package", "grub.cfg"}
          /\ page' \in {page, "BOOTLOADER"}
          /\ \E x : WriteFile(x)
          /\ UNCHANGED <<drive, logical>>
      BY <1>12 DEF InstallPackage
    <2>2. page' \in Running
      BY <2>1, RunningPage DEF Running
    <2> QED
      BY <2>1, <2>2, <1>2, FileOnTarget, GoesOnKeeps
  <1>13. CASE WriteGrubCfg
    BY <1>13, <1>2, FileOnTarget, GoesOnKeeps, RunningPage DEF WriteGrubCfg, GoesOn, pages
  <1>14. CASE BootRefused
    BY <1>14, <1>1, FailedKeeps DEF BootRefused, Fails
  <1>15. CASE WriteMbr
    BY <1>15, <1>2, SectorOnTarget, GoesOnKeeps, RunningPage DEF WriteMbr, GoesOn, pages
  <1>16. CASE WriteCore
    BY <1>16, <1>2, SectorOnTarget, GoesOnKeeps, RunningPage DEF WriteCore, GoesOn, pages
  <1>17. CASE WriteKernel
    <2>1. /\ at = "kernel" /\ UNCHANGED <<drive, logical>>
          /\ Sector(KernelLba + sector, "kernel")
          /\ \/ at' = at /\ page' = page
             \/ at' = "idle" /\ page' = "DONE"
      BY <1>17 DEF WriteKernel
    <2>2. CASE at' = at /\ page' = page
      BY <2>1, <2>2, <1>2, SectorOnTarget, GoesOnKeeps, RunningPage
    <2>3. CASE at' = "idle" /\ page' = "DONE"
      BY <2>1, <2>3, SectorOnTarget
         DEF TargetInv, PagesAgree, DrivesAgree, Early, Running, Over
    <2> QED
      BY <2>1, <2>2, <2>3
  <1>18. CASE \E s \in Steps : Fails(s, "io")
    BY <1>18, <1>1, FailedKeeps DEF Fails
  <1> QED
    BY <1>3, <1>4, <1>5, <1>6, <1>7, <1>8, <1>9, <1>10, <1>11, <1>12, <1>13, <1>14,
       <1>15, <1>16, <1>17, <1>18 DEF RunStep

LEMMA TargetStep == TargetInv /\ [Next]_vars => TargetInv'
  <1> SUFFICES ASSUME TargetInv, [Next]_vars PROVE TargetInv'
    OBVIOUS
  <1>1. CASE User
    BY <1>1, UserKeeps
  <1>2. CASE RunStep
    BY <1>2, RunKeeps
  <1>3. CASE SwitchOff
    <2>1. /\ at \notin {"idle", "off"} /\ at' = "off"
          /\ UNCHANGED <<page, drive, logical, disk>>
      BY <1>3 DEF SwitchOff, pages
    <2> QED
      BY <2>1 DEF TargetInv, PagesAgree, DrivesAgree, Steps, Before, Early, Running, Over
  <1>4. CASE UNCHANGED vars
    BY <1>4 DEF vars, pages, run, TargetInv, PagesAgree, DrivesAgree
  <1> QED
    BY <1>1, <1>2, <1>3, <1>4 DEF Next

\* run_install writes to the drive its format page named and to no other,
\* whatever the logical drive was, whichever step fails and whenever the
\* power goes.
THEOREM TargetOnly == Spec => []OnlyTheTarget
  <1>1. TargetInv => OnlyTheTarget
    BY DEF TargetInv, PagesAgree, DrivesAgree, OnlyTheTarget, Early, Running, Over, Steps
  <1> QED
    BY TargetInit, TargetStep, <1>1, PTL DEF Spec

----------------------------------------------------------------------------
(* The boot sectors.                                                       *)

Area(d) == disk[d].area

\* A disk is a record with an area of sectors, and the drive of a run exists.
DisksOK ==
    /\ \A d \in DriveNumbers :
           /\ DOMAIN disk[d] = {"erased", "files", "area"}
           /\ DOMAIN Area(d) = 0..PartStart
    /\ idx \in Nat \ {0} /\ (DriveList # <<>> => idx <= Len(DriveList))
    /\ page \in {"OPTIONS", "FORMAT"} \/ at \in Steps => drive \in DriveNumbers
    /\ medium \in Media

\* The boot record is written in one step of the run, and not before it.
NoRecord ==
    page \in Early \/ at \in Steps \ {"core", "kernel"} =>
        \A d \in DriveNumbers : Area(d)[0] # "mbr"

\* Once the drive is formatted its file system stays.
FsStays ==
    at \in Steps \ {"ram", "prepare"} => Area(drive)[PartStart] = "fs"

\* How far core and kernel are written.
CoreSoFar ==
    at = "core" =>
        /\ BootFits /\ Area(drive)[0] = "mbr"
        /\ sector \in Nat /\ sector < medium.core
        /\ \A l \in 1..sector : Area(drive)[l] = "core"
KernelSoFar ==
    at = "kernel" =>
        /\ BootFits /\ Area(drive)[0] = "mbr"
        /\ sector \in Nat /\ sector < medium.kernel
        /\ medium.core < KernelLba =>
               \A l \in 1..medium.core : Area(drive)[l] = "core"
        /\ \A l \in KernelLba..(KernelLba + sector - 1) : Area(drive)[l] = "kernel"

BootInv ==
    TargetInv /\ DisksOK /\ NoRecord /\ FsStays /\ CoreSoFar /\ KernelSoFar
        /\ HalfBootOnlyByFault

LEMMA OldArea == /\ Old.area[0] = "old" /\ DOMAIN Old.area = 0..PartStart
                /\ DOMAIN Old = {"erased", "files", "area"}
  BY LayoutAssumption DEF Old

LEMMA ErasedArea == /\ Erased.area[0] = "blank" /\ Erased.area[PartStart] = "fs"
                   /\ DOMAIN Erased.area = 0..PartStart
                   /\ DOMAIN Erased = {"erased", "files", "area"}
  BY LayoutAssumption DEF Erased

LEMMA BootInit == Init => BootInv
  <1> SUFFICES ASSUME Init PROVE BootInv
    OBVIOUS
  <1>1. TargetInv
    BY TargetInit
  <1>2. DisksOK
    <2>1. DriveList # <<>> => 1 <= Len(DriveList)
      BY LayoutAssumption
    <2> QED
      BY <2>1, OldArea DEF Init, DisksOK, Area, Steps
  <1>3. NoRecord /\ HalfBootOnlyByFault
    BY OldArea DEF Init, NoRecord, HalfBootOnlyByFault, Area
  <1> QED
    BY <1>1, <1>2, <1>3 DEF BootInv, Init, FsStays, CoreSoFar, KernelSoFar, Steps

\* Steps that leave the areas of all drives alone and do not pass the point at
\* which the boot record is written.
LEMMA AreasUntouched ==
    ASSUME BootInv, TargetInv', DisksOK', UNCHANGED medium,
           \A d \in DriveNumbers : Area(d)' = Area(d),
           at' \in Steps \ {"core", "kernel"} => at \in Steps \ {"core", "kernel"},
           at' \in Steps \ {"ram", "prepare"} => at \in Steps \ {"ram", "prepare"},
           page' \notin Early, drive' = drive,
           at' \notin {"core", "kernel"},
           at' = "idle" => why' = "io" \/ at \in Steps \ {"core", "kernel"}
    PROVE  BootInv'
  <1>1. NoRecord'
    BY DEF BootInv, NoRecord
  <1>2. FsStays'
    BY DEF BootInv, DisksOK, FsStays
  <1>3. HalfBootOnlyByFault'
    BY DEF BootInv, NoRecord, HalfBootOnlyByFault, Area
  <1> QED
    BY <1>1, <1>2, <1>3 DEF BootInv, CoreSoFar, KernelSoFar

\* A file goes into the files of a drive, a sector into its area.
LEMMA FileKeepsAreas ==
    ASSUME DisksOK, NEW x, WriteFile(x), DOMAIN disk = DriveNumbers
    PROVE  /\ \A d \in DriveNumbers : Area(d)' = Area(d)
           /\ \A d \in DriveNumbers : DOMAIN disk'[d] = DOMAIN disk[d]
  BY DEF DisksOK, WriteFile, Area

LEMMA SectorInArea ==
    ASSUME DisksOK, DOMAIN disk = DriveNumbers, drive \in DriveNumbers,
           NEW n \in 0..PartStart, NEW x, Sector(n, x)
    PROVE  /\ \A d \in DriveNumbers \ {drive} : Area(d)' = Area(d)
           /\ disk'[drive].area = [Area(drive) EXCEPT ![n] = x]
           /\ \A d \in DriveNumbers : /\ DOMAIN disk'[d] = DOMAIN disk[d]
                                      /\ DOMAIN disk'[d].area = 0..PartStart
  BY DEF DisksOK, Sector, Area

\* The drive of a run stays the same, and so do the shapes of all disks.
LEMMA SameDrive ==
    ASSUME DisksOK, UNCHANGED <<idx, drive, medium>>,
           page' \in {"OPTIONS", "FORMAT"} \/ at' \in Steps =>
               page \in {"OPTIONS", "FORMAT"} \/ at \in Steps,
           \A d \in DriveNumbers : /\ DOMAIN disk'[d] = DOMAIN disk[d]
                                  /\ DOMAIN Area(d)' = 0..PartStart
    PROVE  DisksOK'
  BY DEF DisksOK

\* The user's keys.
LEMMA BootUser == ASSUME BootInv, User PROVE BootInv'
  <1>1. disk' = disk /\ medium' = medium
    BY DEF User, Welcome, MoveDrive, SelectDrive, Options, Format, Quit
  <1>2. TargetInv'
    BY UserKeeps DEF BootInv
  <1>3. at = "idle" /\ why' = why
    BY DEF BootInv, TargetInv, PagesAgree, Early, User, Welcome, MoveDrive, SelectDrive,
           Options, Format, Quit, run
  <1>4. at' = "idle" \/ (at' = "ram" /\ page = "FORMAT")
    BY <1>3 DEF User, Welcome, MoveDrive, SelectDrive, Options, Format, Quit, run
  <1>5. page \in Early \/ (page' = "closed" /\ at' = "idle")
    BY DEF User, Welcome, MoveDrive, SelectDrive, Options, Format, Quit, run, Early
  <1>6. DisksOK'
    <2>1. CASE \E k \in Keys : SelectDrive(k)
      <3>1. idx' = idx /\ drive' = DriveList[idx] /\ DriveList # <<>>
        BY <2>1 DEF SelectDrive
      <3>2. idx \in 1..Len(DriveList)
        BY <3>1, LayoutAssumption DEF BootInv, DisksOK
      <3>3. drive' \in DriveNumbers
        BY <3>1, <3>2, LayoutAssumption DEF DriveNumbers, ToSet
      <3> QED
        BY <1>1, <3>1, <3>3 DEF BootInv, DisksOK, Area
    <2>2. CASE \E k \in Keys : MoveDrive(k)
      <3>1. /\ page' = "SELECT_DRIVE" /\ at' = "idle"
            /\ \/ idx > 1 /\ idx' = idx - 1
               \/ idx < Len(DriveList) /\ idx' = idx + 1
        BY <2>2, <1>3 DEF MoveDrive, run
      <3>2. DriveList # <<>> => Len(DriveList) \in Nat
        BY LayoutAssumption
      <3>3. idx' \in Nat \ {0} /\ (DriveList # <<>> => idx' <= Len(DriveList))
        BY <3>1, <3>2 DEF BootInv, DisksOK
      <3> QED
        BY <1>1, <3>1, <3>3 DEF BootInv, DisksOK, Area, Steps
    <2>3. CASE (\E k \in Keys : Welcome(k) \/ Options(k) \/ Format(k)) \/ Quit
      <3>1. UNCHANGED <<idx, drive>>
        BY <2>3 DEF Welcome, Options, Format, Quit
      <3>2. page' \in {"OPTIONS", "FORMAT"} \/ at' \in Steps =>
                page \in {"OPTIONS", "FORMAT"}
        BY <2>3, <1>3, <1>4 DEF Welcome, Options, Format, Quit, Steps, run
      <3> QED
        BY <1>1, <3>1, <3>2 DEF BootInv, DisksOK, Area
    <2> QED
      BY <2>1, <2>2, <2>3 DEF User
  <1>7. NoRecord'
    <2>1. page \in Early => \A d \in DriveNumbers : Area(d)[0] # "mbr"
      BY DEF BootInv, NoRecord
    <2>2. page' = "closed" => page' \notin Early
      BY DEF Early
    <2> QED
      BY <1>1, <1>4, <1>5, <2>1, <2>2 DEF NoRecord, Area, Steps
  <1>8. HalfBootOnlyByFault'
    <2>1. page \in Early => \A d \in DriveNumbers : Area(d)[0] # "mbr"
      BY DEF BootInv, NoRecord
    <2> QED
      BY <1>1, <1>3, <2>1 DEF BootInv, HalfBootOnlyByFault, BootAreaWhole, Area
  <1>9. FsStays' /\ CoreSoFar' /\ KernelSoFar'
    BY <1>4 DEF FsStays, CoreSoFar, KernelSoFar, Steps
  <1> QED
    BY <1>2, <1>6, <1>7, <1>8, <1>9 DEF BootInv

\* Between the check of the medium and the boot record a step of the run
\* leaves the areas alone, but for the one that erases the drive.
LEMMA BootBefore ==
    ASSUME BootInv, TargetInv', UNCHANGED <<idx, drive, medium>>,
           at \in Steps \ {"core", "kernel"},
           \/ at' \in Steps \ {"core", "kernel"} /\ page' \in Running
           \/ at' = "idle" /\ page' = "ERROR",
           at' \in Steps \ {"ram", "prepare"} => at \in Steps \ {"ram", "prepare"},
           \A d \in DriveNumbers : /\ DOMAIN disk'[d] = DOMAIN disk[d]
                                  /\ Area(d)' = Area(d)
    PROVE  BootInv'
  <1>1. page' \notin Early /\ at' \notin {"core", "kernel"}
    BY DEF Early, Running, Steps
  <1>2. page' \notin {"OPTIONS", "FORMAT"}
    BY <1>1 DEF Early
  <1>3. DisksOK'
    BY <1>2, SameDrive DEF BootInv, DisksOK
  <1> QED
    BY <1>1, <1>3, AreasUntouched DEF Steps

\* A step that fails or is refused in the middle of the run.
LEMMA BootFails ==
    ASSUME BootInv, TargetInv', NEW s \in Steps, NEW w, Fails(s, w),
           w = "io" \/ s \in Steps \ {"core", "kernel"}
    PROVE  BootInv'
  <1>1. /\ at = s /\ at' = "idle" /\ page' = "ERROR" /\ why' = w
        /\ UNCHANGED <<idx, drive, medium, disk>>
    BY DEF Fails, Failed
  <1>2. DisksOK'
    BY <1>1 DEF BootInv, DisksOK, Area, Steps
  <1>3. NoRecord' /\ FsStays' /\ CoreSoFar' /\ KernelSoFar'
    BY <1>1 DEF NoRecord, FsStays, CoreSoFar, KernelSoFar, Early, Steps
  <1>4. HalfBootOnlyByFault'
    BY <1>1 DEF BootInv, NoRecord, HalfBootOnlyByFault, Area
  <1> QED
    BY <1>2, <1>3, <1>4 DEF BootInv

\* The drive is erased: no boot record, and a file system behind the area.
LEMMA BootPrepare == ASSUME BootInv, TargetInv', PrepareDrive PROVE BootInv'
  <1>1. /\ at = "prepare" /\ disk' = [disk EXCEPT ![drive] = Erased]
        /\ UNCHANGED <<idx, drive, medium>>
        /\ \/ at' = "logical" /\ page' = page
           \/ at' = "idle" /\ page' = "ERROR"
    BY DEF PrepareDrive, GoesOn, Failed, pages
  <1>2. drive \in DriveNumbers /\ DOMAIN disk = DriveNumbers
    BY <1>1 DEF BootInv, DisksOK, TargetInv, DrivesAgree, Steps
  <1>3. /\ disk'[drive] = Erased
        /\ \A d \in DriveNumbers \ {drive} : disk'[d] = disk[d]
    BY <1>1, <1>2
  <1>4. page \in Running
    BY <1>1, RunningPage DEF BootInv, Steps
  <1>5. DisksOK'
    BY <1>1, <1>2, <1>3, ErasedArea DEF BootInv, DisksOK, Area
  <1>6. \A d \in DriveNumbers : Area(d)'[0] # "mbr"
    BY <1>1, <1>3, ErasedArea DEF BootInv, NoRecord, Area, Steps
  <1>7. NoRecord' /\ HalfBootOnlyByFault'
    BY <1>6 DEF NoRecord, HalfBootOnlyByFault, Area
  <1>8. FsStays' /\ CoreSoFar' /\ KernelSoFar'
    BY <1>1, <1>3, ErasedArea DEF FsStays, CoreSoFar, KernelSoFar, Area, Steps
  <1> QED
    BY <1>5, <1>7, <1>8 DEF BootInv

\* What BootFits says of the layout.
LEMMA Layout ==
    ASSUME DisksOK, BootFits
    PROVE  /\ {KernelLba, PartStart, medium.core, medium.kernel} \subseteq Nat \ {0}
           /\ medium.core < PartStart /\ KernelLba + medium.kernel < PartStart
  BY LayoutAssumption DEF DisksOK, BootFits

\* While the boot sectors are written, other drives have no record.
LEMMA OthersOld ==
    ASSUME TargetInv, NEW d \in DriveNumbers, d # drive
    PROVE  Area(d)[0] # "mbr"
  BY OldArea DEF TargetInv, DrivesAgree, Area

LEMMA BootMbr == ASSUME BootInv, TargetInv', WriteMbr PROVE BootInv'
  <1>1. /\ at = "boot" /\ BootFits /\ at' = "core" /\ Sector(0, "mbr") /\ sector' = 0
        /\ UNCHANGED <<idx, drive, medium, page>>
    BY DEF WriteMbr, GoesOn, pages
  <1>2. /\ drive \in DriveNumbers /\ DOMAIN disk = DriveNumbers /\ page \in Running
        /\ DOMAIN Area(drive) = 0..PartStart /\ Area(drive)[PartStart] = "fs"
    BY <1>1, RunningPage
       DEF BootInv, DisksOK, TargetInv, DrivesAgree, FsStays, Steps
  <1>3. 0 \in 0..PartStart /\ 0 < medium.core /\ PartStart # 0 /\ PartStart \in Nat
    BY <1>1, Layout DEF BootInv
  <1>4. /\ \A d \in DriveNumbers \ {drive} : Area(d)' = Area(d)
        /\ disk'[drive].area = [Area(drive) EXCEPT ![0] = "mbr"]
        /\ \A d \in DriveNumbers : /\ DOMAIN disk'[d] = DOMAIN disk[d]
                                   /\ DOMAIN disk'[d].area = 0..PartStart
    BY <1>1, <1>2, <1>3, SectorInArea DEF BootInv
  <1>5. DisksOK'
    BY <1>1, <1>4, SameDrive DEF BootInv, Area, Steps
  <1>6. Area(drive)'[0] = "mbr" /\ Area(drive)'[PartStart] = "fs"
    BY <1>1, <1>2, <1>3, <1>4 DEF Area
  <1>7. NoRecord' /\ HalfBootOnlyByFault' /\ KernelSoFar'
    BY <1>1, <1>2 DEF NoRecord, HalfBootOnlyByFault, KernelSoFar, Early, Running
  <1>8. FsStays' /\ CoreSoFar'
    BY <1>1, <1>3, <1>6 DEF FsStays, CoreSoFar, BootFits, Area, Has
  <1> QED
    BY <1>5, <1>7, <1>8 DEF BootInv

\* A sector of core.img: it ends below the file system.
LEMMA BootCore == ASSUME BootInv, TargetInv', WriteCore PROVE BootInv'
  <1>1. /\ at = "core" /\ Sector(1 + sector, "core")
        /\ UNCHANGED <<idx, drive, medium, page>>
        /\ IF sector + 1 = medium.core THEN at' = "kernel" /\ sector' = 0
                                       ELSE at' = "core" /\ sector' = sector + 1
    BY DEF WriteCore, GoesOn, pages
  <1>2. /\ drive \in DriveNumbers /\ DOMAIN disk = DriveNumbers /\ page \in Running
        /\ DOMAIN Area(drive) = 0..PartStart /\ Area(drive)[PartStart] = "fs"
    BY <1>1, RunningPage
       DEF BootInv, DisksOK, TargetInv, DrivesAgree, FsStays, Steps
  <1>3. /\ BootFits /\ Area(drive)[0] = "mbr" /\ sector \in Nat /\ sector < medium.core
        /\ \A l \in 1..sector : Area(drive)[l] = "core"
    BY <1>1 DEF BootInv, CoreSoFar
  <1>4. /\ {KernelLba, PartStart, medium.core, medium.kernel} \subseteq Nat \ {0}
        /\ medium.core < PartStart
    BY <1>3, Layout DEF BootInv
  <1>5. 1 + sector \in 0..PartStart
    BY <1>3, <1>4
  <1>6. /\ \A d \in DriveNumbers \ {drive} : Area(d)' = Area(d)
        /\ disk'[drive].area = [Area(drive) EXCEPT ![1 + sector] = "core"]
        /\ \A d \in DriveNumbers : /\ DOMAIN disk'[d] = DOMAIN disk[d]
                                   /\ DOMAIN disk'[d].area = 0..PartStart
    BY <1>1, <1>2, <1>5, SectorInArea DEF BootInv
  <1>7. DisksOK'
    BY <1>1, <1>6, SameDrive DEF BootInv, Area, Steps
  <1>8. /\ Area(drive)'[0] = "mbr" /\ Area(drive)'[PartStart] = "fs"
        /\ \A l \in 1..(sector + 1) : Area(drive)'[l] = "core"
    <2>1. Area(drive)' = [Area(drive) EXCEPT ![1 + sector] = "core"]
      BY <1>1, <1>6 DEF Area
    <2>2. \A l \in 1..(sector + 1) : l \in 0..PartStart
      BY <1>3, <1>4
    <2>3. 1 + sector # 0 /\ 1 + sector # PartStart
      BY <1>3, <1>4
    <2> QED
      BY <1>2, <1>3, <1>5, <2>1, <2>2, <2>3
  <1>9. NoRecord' /\ HalfBootOnlyByFault'
    BY <1>1, <1>2 DEF NoRecord, HalfBootOnlyByFault, Early, Running
  <1>10. FsStays'
    BY <1>8 DEF FsStays
  <1>11. BootFits'
    BY <1>1, <1>3 DEF BootFits, Has
  <1>12. CoreSoFar'
    BY <1>1, <1>3, <1>4, <1>8, <1>11 DEF CoreSoFar
  <1>13. KernelSoFar'
    <2>1. CASE sector + 1 = medium.core
      <3>1. 0 < medium.kernel /\ sector' = 0 /\ medium' = medium
        BY <1>1, <1>4, <2>1
      <3>2. \A l \in KernelLba..(KernelLba + 0 - 1) : FALSE
        BY <1>4
      <3> QED
        BY <1>8, <1>11, <2>1, <3>1, <3>2 DEF KernelSoFar
    <2>2. CASE sector + 1 # medium.core
      BY <1>1, <2>2 DEF KernelSoFar
    <2> QED
      BY <2>1, <2>2
  <1> QED
    BY <1>7, <1>9, <1>10, <1>12, <1>13 DEF BootInv

\* A sector of the kernel: it ends below the file system, and begins above a
\* core that stays below KernelLba.
LEMMA BootKernel == ASSUME BootInv, TargetInv', WriteKernel PROVE BootInv'
  <1>1. /\ at = "kernel" /\ Sector(KernelLba + sector, "kernel")
        /\ sector' = sector + 1
        /\ UNCHANGED <<idx, drive, medium, why>>
        /\ IF sector + 1 < medium.kernel THEN at' = at /\ page' = page
                                         ELSE at' = "idle" /\ page' = "DONE"
    BY DEF WriteKernel
  <1>2. /\ drive \in DriveNumbers /\ DOMAIN disk = DriveNumbers /\ page \in Running
        /\ DOMAIN Area(drive) = 0..PartStart /\ Area(drive)[PartStart] = "fs"
    BY <1>1, RunningPage
       DEF BootInv, DisksOK, TargetInv, DrivesAgree, FsStays, Steps
  <1>3. /\ BootFits /\ Area(drive)[0] = "mbr" /\ sector \in Nat /\ sector < medium.kernel
        /\ medium.core < KernelLba => \A l \in 1..medium.core : Area(drive)[l] = "core"
        /\ \A l \in KernelLba..(KernelLba + sector - 1) : Area(drive)[l] = "kernel"
    BY <1>1 DEF BootInv, KernelSoFar
  <1>4. /\ {KernelLba, PartStart, medium.core, medium.kernel} \subseteq Nat \ {0}
        /\ KernelLba + medium.kernel < PartStart
    BY <1>3, Layout DEF BootInv
  <1>5. KernelLba + sector \in 1..(PartStart - 1) /\ KernelLba + sector \in 0..PartStart
    BY <1>3, <1>4
  <1>6. /\ \A d \in DriveNumbers \ {drive} : Area(d)' = Area(d)
        /\ disk'[drive].area = [Area(drive) EXCEPT ![KernelLba + sector] = "kernel"]
        /\ \A d \in DriveNumbers : /\ DOMAIN disk'[d] = DOMAIN disk[d]
                                   /\ DOMAIN disk'[d].area = 0..PartStart
    BY <1>1, <1>2, <1>4, <1>5, SectorInArea DEF BootInv
  <1>7. DisksOK'
    <2>1. page \notin {"OPTIONS", "FORMAT"} /\ page' \notin {"OPTIONS", "FORMAT"}
      BY <1>1, <1>2 DEF Running
    <2> QED
      BY <1>1, <1>6, <2>1, SameDrive DEF BootInv, Area, Steps
  <1>8. Area(drive)' = [Area(drive) EXCEPT ![KernelLba + sector] = "kernel"]
    BY <1>1, <1>6 DEF Area
  <1>9. /\ Area(drive)'[0] = "mbr" /\ Area(drive)'[PartStart] = "fs"
        /\ medium.core < KernelLba => \A l \in 1..medium.core : Area(drive)'[l] = "core"
        /\ \A l \in KernelLba..(KernelLba + sector) : Area(drive)'[l] = "kernel"
    <2>1. Area(drive)'[0] = "mbr" /\ Area(drive)'[PartStart] = "fs"
      BY <1>2, <1>3, <1>4, <1>5, <1>8
    <2>2. ASSUME medium.core < KernelLba, NEW l \in 1..medium.core
          PROVE  Area(drive)'[l] = "core"
      BY <1>2, <1>3, <1>4, <1>5, <1>8, <2>2
    <2>3. ASSUME NEW l \in KernelLba..(KernelLba + sector)
          PROVE  Area(drive)'[l] = "kernel"
      BY <1>2, <1>3, <1>4, <1>5, <1>8
    <2> QED
      BY <2>1, <2>2, <2>3
  <1>10. CASE sector + 1 < medium.kernel
    <2>1. at' = "kernel" /\ page' = page
      BY <1>1, <1>10
    <2>2. NoRecord' /\ HalfBootOnlyByFault' /\ CoreSoFar'
      BY <1>2, <2>1 DEF NoRecord, HalfBootOnlyByFault, CoreSoFar, Early, Running
    <2>3. FsStays'
      BY <1>9 DEF FsStays
    <2>4. BootFits'
      BY <1>1, <1>3 DEF BootFits, Has
    <2>5. KernelLba + sector' - 1 = KernelLba + sector
      BY <1>1, <1>3, <1>4
    <2>6. KernelSoFar'
      BY <1>1, <1>3, <1>9, <1>10, <2>4, <2>5 DEF KernelSoFar
    <2> QED
      BY <1>7, <2>2, <2>3, <2>6 DEF BootInv
  <1>11. CASE ~(sector + 1 < medium.kernel)
    <2>1. at' = "idle" /\ page' = "DONE" /\ sector + 1 = medium.kernel
      BY <1>1, <1>3, <1>4, <1>11
    <2>2. NoRecord' /\ FsStays' /\ CoreSoFar' /\ KernelSoFar'
      BY <2>1 DEF NoRecord, FsStays, CoreSoFar, KernelSoFar, Early, Steps
    <2>3. KernelLba + medium.kernel - 1 = KernelLba + sector
      BY <1>3, <1>4, <2>1
    <2>4. medium.core < KernelLba => BootAreaWhole(disk[drive])'
      BY <1>1, <1>9, <2>3 DEF BootAreaWhole, Area
    <2>5. \A d \in DriveNumbers \ {drive} : disk'[d].area[0] # "mbr"
      BY <1>6, OthersOld DEF BootInv, Area
    <2>6. HalfBootOnlyByFault'
      BY <1>1, <2>4, <2>5 DEF HalfBootOnlyByFault
    <2> QED
      BY <1>7, <2>2, <2>6 DEF BootInv
  <1> QED
    BY <1>10, <1>11

LEMMA BootRun == ASSUME BootInv, RunStep PROVE BootInv'
  <1>1. TargetInv'
    BY RunKeeps DEF BootInv
  <1>2. DOMAIN disk = DriveNumbers /\ DisksOK
    BY DEF BootInv, TargetInv, DrivesAgree
  <1> USE DEF Steps
  <1>3. CASE RamPreflight
    BY <1>3, <1>1, BootBefore, RunningPage DEF RamPreflight, GoesOn, pages, Area, BootInv
  <1>4. CASE PrepareDrive
    BY <1>4, <1>1, BootPrepare
  <1>5. CASE SetLogical
    BY <1>5, <1>1, BootBefore, RunningPage DEF SetLogical, GoesOn, pages, Area, BootInv
  <1>6. CASE ProbeTarget
    BY <1>6, <1>1, BootBefore, RunningPage DEF ProbeTarget, GoesOn, pages, Area, BootInv
  <1>7. CASE CopyAbsent
    BY <1>7, <1>1, BootBefore, RunningPage
       DEF CopyAbsent, Copying, NextEntry, pages, Area, BootInv
  <1>8. CASE CopyChunk
    BY <1>8, <1>1, BootBefore, RunningPage DEF CopyChunk, Copying, pages, Area, BootInv
  <1>9. CASE CopyEnd
    <2>1. /\ at = "copy" /\ at' \in {"copy", "index"}
          /\ UNCHANGED <<idx, drive, medium, page>>
          /\ disk' = disk \/ WriteFile(Entry)
      BY <1>9 DEF CopyEnd, Copying, NextEntry, pages
    <2>2. \A d \in DriveNumbers : DOMAIN disk'[d] = DOMAIN disk[d] /\ Area(d)' = Area(d)
      BY <2>1, <1>2, FileKeepsAreas DEF Area
    <2> QED
      BY <2>1, <2>2, <1>1, BootBefore, RunningPage DEF BootInv
  <1>10. CASE CopyRefused
    BY <1>10, <1>1, BootFails DEF CopyRefused
  <1>11. CASE FetchIndex
    BY <1>11, <1>1, BootBefore, RunningPage DEF FetchIndex, GoesOn, pages, Area, BootInv
  <1>12. CASE InstallPackage
    <2>1. /\ at = "package" /\ at' \in {"package", "grub.cfg"}
          /\ page' \in {page, "BOOTLOADER"} /\ UNCHANGED <<idx, drive, medium>>
          /\ \E x : WriteFile(x)
      BY <1>12 DEF InstallPackage
    <2>2. page' \in Running
      BY <2>1, RunningPage DEF Running, BootInv
    <2>3. \A d \in DriveNumbers : DOMAIN disk'[d] = DOMAIN disk[d] /\ Area(d)' = Area(d)
      BY <2>1, <1>2, FileKeepsAreas
    <2> QED
      BY <2>1, <2>2, <2>3, <1>1, BootBefore
  <1>13. CASE WriteGrubCfg
    <2>1. /\ at = "grub.cfg" /\ at' = "boot" /\ WriteFile("grub.cfg")
          /\ UNCHANGED <<idx, drive, medium, page>>
      BY <1>13 DEF WriteGrubCfg, GoesOn, pages
    <2>2. \A d \in DriveNumbers : DOMAIN disk'[d] = DOMAIN disk[d] /\ Area(d)' = Area(d)
      BY <2>1, <1>2, FileKeepsAreas
    <2> QED
      BY <2>1, <2>2, <1>1, BootBefore, RunningPage DEF BootInv
  <1>14. CASE BootRefused
    BY <1>14, <1>1, BootFails DEF BootRefused
  <1>15. CASE WriteMbr
    BY <1>15, <1>1, BootMbr
  <1>16. CASE WriteCore
    BY <1>16, <1>1, BootCore
  <1>17. CASE WriteKernel
    BY <1>17, <1>1, BootKernel
  <1>18. CASE \E s \in Steps : Fails(s, "io")
    BY <1>18, <1>1, BootFails
  <1> QED
    BY <1>3, <1>4, <1>5, <1>6, <1>7, <1>8, <1>9, <1>10, <1>11, <1>12, <1>13, <1>14,
       <1>15, <1>16, <1>17, <1>18 DEF RunStep

LEMMA BootStep == BootInv /\ [Next]_vars => BootInv'
  <1> SUFFICES ASSUME BootInv, [Next]_vars PROVE BootInv'
    OBVIOUS
  <1>1. TargetInv'
    BY TargetStep DEF BootInv
  <1>2. CASE User
    BY <1>2, BootUser
  <1>3. CASE RunStep
    BY <1>3, BootRun
  <1>4. CASE SwitchOff
    <2>1. /\ at \notin {"idle", "off"} /\ at' = "off"
          /\ UNCHANGED <<page, idx, drive, medium, disk>>
      BY <1>4 DEF SwitchOff, pages
    <2>2. page' \notin Early
      BY <2>1 DEF BootInv, TargetInv, PagesAgree
    <2> QED
      BY <1>1, <2>1, <2>2
         DEF BootInv, DisksOK, NoRecord, FsStays, CoreSoFar, KernelSoFar,
             HalfBootOnlyByFault, Area, Steps, Early
  <1>5. CASE UNCHANGED vars
    BY <1>1, <1>5
       DEF vars, pages, run, BootInv, DisksOK, NoRecord, FsStays, CoreSoFar, KernelSoFar,
           HalfBootOnlyByFault, BootAreaWhole, BootFits, Has, Area
  <1> QED
    BY <1>2, <1>3, <1>4, <1>5 DEF Next

\* A drive that carries a boot record without the whole of core and kernel
\* was left so by a failing write or read or by the power, never by a check
\* that came too late or by areas that overlap (install_mbr_boot_code).
THEOREM HalfBoot == Spec => []HalfBootOnlyByFault
  <1>1. BootInv => HalfBootOnlyByFault
    BY DEF BootInv
  <1> QED
    BY BootInit, BootStep, <1>1, PTL DEF Spec

----------------------------------------------------------------------------
(* The pages.                                                              *)

\* What the options page may have ticked.
OptsOK ==
    /\ opts \in [pkgs : SUBSET ToSet(Packages), icons : BOOLEAN, fonts : BOOLEAN,
                 which : SUBSET ToSet(FontList), chibicc : BOOLEAN]
    /\ opts.fonts => FontList # <<>>

\* The cursor is on a row and on the screen, and the screen is full if it can
\* be.
OnScreen(o, c, s) ==
    /\ c \in 0..(Rows(o) - 1)
    /\ s \in Nat /\ c \in s..(s + VisibleRows - 1)
    /\ s > 0 => s + VisibleRows <= Rows(o)

\* On the pages before the options there is nothing to show yet; from then on
\* the cursor stays where it can be seen, through other pages too.
PagesInv ==
    /\ OptsOK
    /\ page = "OPTIONS" => loaded
    /\ loaded => OnScreen(opts, cursor, scroll)

LEMMA FontListType == FontList \in Seq(STRING)
  <1>1. Fonts \in Seq(STRING) /\ <<>> \in Seq(STRING)
    BY NamesAssumption
  <1> QED
    BY <1>1 DEF FontList

LEMMA RowsType == \A o : Rows(o) \in Nat \ {0}
  <1>1. Len(Packages) \in Nat /\ Len(FontList) \in Nat
    BY NamesAssumption, FontListType
  <1> TAKE o
  <1>2. ChibiccRow(o) \in {Len(Packages) + 2, Len(Packages) + 2 + Len(FontList)}
    <2>1. Len(Packages) + 2 + 0 = Len(Packages) + 2
      BY <1>1
    <2> QED
      BY <2>1, Zenon DEF ChibiccRow, FirstFont
  <1> QED
    BY <1>1, <1>2 DEF Rows, ContinueRow

LEMMA MinOfTwo == ASSUME NEW a \in Int, NEW b \in Int
                 PROVE Min({a, b}) = IF a <= b THEN a ELSE b
  <1>1. \E x \in {a, b} : \A y \in {a, b} : x <= y
    OBVIOUS
  <1>2. Min({a, b}) \in {a, b} /\ \A y \in {a, b} : Min({a, b}) <= y
    BY <1>1 DEF Min
  <1> QED
    BY <1>2

LEMMA MaxOfTwo == ASSUME NEW a \in Int, NEW b \in Int
                 PROVE Max({a, b}) = IF a >= b THEN a ELSE b
  <1>1. \E x \in {a, b} : \A y \in {a, b} : x >= y
    OBVIOUS
  <1>2. Max({a, b}) \in {a, b} /\ \A y \in {a, b} : Max({a, b}) >= y
    BY <1>1 DEF Max
  <1> QED
    BY <1>2

\* options_ensure_cursor_visible does what its name says, whatever the number
\* of rows has become.
LEMMA VisibleShows ==
    ASSUME NEW o, NEW c \in Int, NEW s \in Nat
    PROVE  OnScreen(o, Visible(o, c, s)[1], Visible(o, c, s)[2])
  <1> DEFINE R == Rows(o)
             c1 == Min({Max({c, 0}), R - 1})
             s1 == Min({Max({s, 0}), c1})
             s2 == IF c1 >= s1 + VisibleRows THEN c1 - VisibleRows + 1 ELSE s1
             s3 == Min({s2, Max({R - VisibleRows, 0})})
  <1>1. R \in Nat \ {0} /\ VisibleRows \in Nat \ {0}
    BY RowsType, LayoutAssumption
  <1>2. Visible(o, c, s)[1] = c1 /\ Visible(o, c, s)[2] = s3
    BY DEF Visible
  <1> HIDE DEF R
  <1>3. c1 \in 0..(R - 1)
    <2>1. Max({c, 0}) \in Nat
      BY MaxOfTwo
    <2>2. R - 1 \in Nat
      BY <1>1
    <2>3. \A m \in Nat : Min({m, R - 1}) \in 0..(R - 1)
      BY <2>2, MinOfTwo
    <2> QED
      BY <2>1, <2>3
  <1> HIDE DEF c1
  <1>4. s1 \in 0..c1
    <2>1. Max({s, 0}) \in Nat
      BY MaxOfTwo
    <2>2. c1 \in Nat
      BY <1>1, <1>3
    <2>3. \A m \in Nat : Min({m, c1}) \in 0..c1
      BY <2>2, MinOfTwo
    <2> QED
      BY <2>1, <2>3
  <1> HIDE DEF s1
  <1>5. s2 \in 0..c1 /\ c1 < s2 + VisibleRows
    BY <1>1, <1>3, <1>4
  <1> HIDE DEF s2
  <1>6. s3 = IF s2 <= R - VisibleRows THEN s2
             ELSE IF R - VisibleRows >= 0 THEN R - VisibleRows ELSE 0
    <2>1. Max({R - VisibleRows, 0}) = IF R - VisibleRows >= 0 THEN R - VisibleRows ELSE 0
      BY <1>1, MaxOfTwo
    <2> QED
      BY <1>1, <1>5, <2>1, MinOfTwo
  <1> HIDE DEF s3
  <1>7. /\ s3 \in Nat /\ c1 \in s3..(s3 + VisibleRows - 1)
        /\ s3 > 0 => s3 + VisibleRows <= R
    BY <1>1, <1>3, <1>5, <1>6
  <1> QED
    BY <1>2, <1>3, <1>7 DEF OnScreen, R

\* The record of the options, one field changed at a time.
LEMMA TickedStaysOK ==
    ASSUME OptsOK, NEW r \in Nat
    PROVE  /\ Toggled(opts, r).pkgs \subseteq ToSet(Packages)
           /\ Toggled(opts, r).which \subseteq ToSet(FontList)
           /\ {Toggled(opts, r).icons, Toggled(opts, r).fonts,
               Toggled(opts, r).chibicc} \subseteq BOOLEAN
           /\ Toggled(opts, r).fonts => FontList # <<>>
           /\ Toggled(opts, r) = [pkgs |-> Toggled(opts, r).pkgs,
                                  icons |-> Toggled(opts, r).icons,
                                  fonts |-> Toggled(opts, r).fonts,
                                  which |-> Toggled(opts, r).which,
                                  chibicc |-> Toggled(opts, r).chibicc]
  <1> DEFINE t == Toggled(opts, r)
  <1>1. Packages \in Seq(STRING) /\ FontList \in Seq(STRING)
    BY NamesAssumption, FontListType
  <1>2. \A S \in SUBSET ToSet(Packages), i \in 1..Len(Packages) :
            Flip(S, Packages[i]) \subseteq ToSet(Packages)
    BY <1>1 DEF Flip, ToSet
  <1>3. \A S \in SUBSET ToSet(FontList), i \in 1..Len(FontList) :
            Flip(S, FontList[i]) \subseteq ToSet(FontList)
    BY <1>1 DEF Flip, ToSet
  <1>4. Len(Packages) \in Nat /\ Len(FontList) \in Nat
    BY <1>1
  <1>rows. /\ Len(Packages) = IconsRow /\ FontsRow = IconsRow + 1
         /\ FirstFont = IconsRow + 2 /\ {IconsRow, ChibiccRow(opts)} \subseteq Nat
         /\ ChibiccRow(opts) \in {FirstFont, FirstFont + Len(FontList)}
    <2>1. ChibiccRow(opts) \in {FirstFont + 0, FirstFont + Len(FontList)}
      BY Zenon DEF ChibiccRow
    <2>2. FirstFont = Len(Packages) + 2
      BY DEF FirstFont
    <2> QED
      BY <1>4, <2>1, <2>2 DEF IconsRow, FontsRow
  <1>5. CASE r < Len(Packages)
    <2>1. t = [opts EXCEPT !.pkgs = Flip(opts.pkgs, Packages[r + 1])]
      BY <1>5, <1>rows DEF Toggled
    <2>2. r + 1 \in 1..Len(Packages)
      BY <1>4, <1>5
    <2>3. Flip(opts.pkgs, Packages[r + 1]) \subseteq ToSet(Packages)
      BY <1>2, <2>2 DEF OptsOK
    <2> QED
      BY <2>1, <2>3 DEF OptsOK
  <1>6. CASE r = IconsRow /\ ~(r < Len(Packages))
    <2>1. t = [opts EXCEPT !.icons = ~opts.icons]
      BY <1>6, <1>rows DEF Toggled
    <2> QED
      BY <2>1 DEF OptsOK
  <1>7. CASE r = FontsRow /\ r # IconsRow /\ ~(r < Len(Packages))
    <2>1. t = [opts EXCEPT !.fonts = ~opts.fonts /\ FontList # <<>>]
      BY <1>7, <1>rows DEF Toggled
    <2> QED
      BY <2>1 DEF OptsOK
  <1>8. CASE /\ r >= FirstFont /\ r < ChibiccRow(opts)
             /\ r \notin {IconsRow, FontsRow} /\ ~(r < Len(Packages))
    <2>1. t = [opts EXCEPT !.which = Flip(opts.which, FontList[r - FirstFont + 1])]
      BY <1>8, <1>rows DEF Toggled
    <2>2. r - FirstFont + 1 \in 1..Len(FontList)
      BY <1>4, <1>8, <1>rows
    <2>3. Flip(opts.which, FontList[r - FirstFont + 1]) \subseteq ToSet(FontList)
      BY <1>3, <2>2 DEF OptsOK
    <2> QED
      BY <2>1, <2>3 DEF OptsOK
  <1>9. CASE /\ r = ChibiccRow(opts) /\ ~(r >= FirstFont /\ r < ChibiccRow(opts))
             /\ r \notin {IconsRow, FontsRow} /\ ~(r < Len(Packages))
    <2>1. t = [opts EXCEPT !.chibicc = ~opts.chibicc]
      BY <1>9, <1>rows DEF Toggled
    <2> QED
      BY <2>1 DEF OptsOK
  <1>10. CASE /\ r # ChibiccRow(opts) /\ ~(r >= FirstFont /\ r < ChibiccRow(opts))
              /\ r \notin {IconsRow, FontsRow} /\ ~(r < Len(Packages))
    <2>1. t = opts
      BY <1>10, <1>rows DEF Toggled
    <2> QED
      BY <2>1 DEF OptsOK
  <1> QED
    BY <1>5, <1>6, <1>7, <1>8, <1>9, <1>10

LEMMA PagesInit == Init => PagesInv
  BY DEF Init, PagesInv, OptsOK

\* The pages and the medium left alone, but for the page, which is none of the
\* options.
LEMMA PagesStay ==
    ASSUME PagesInv, UNCHANGED <<loaded, opts, cursor, scroll, medium>>,
           page' = "OPTIONS" => loaded
    PROVE  PagesInv'
  BY DEF PagesInv, OptsOK, OnScreen, Rows, ContinueRow, ChibiccRow, FirstFont, FontList, Has

\* A key on the options page.
LEMMA OptionsKeep == ASSUME PagesInv, NEW k \in Keys, Options(k) PROVE PagesInv'
  <1>1. page = "OPTIONS" /\ loaded /\ loaded' = loaded /\ medium' = medium
    BY DEF Options, PagesInv
  <1>2. OnScreen(opts, cursor, scroll)
    BY <1>1 DEF PagesInv
  <1>3. cursor \in Nat /\ scroll \in Nat
    BY <1>2, RowsType DEF OnScreen
  <1>4. /\ opts' \in {AllToggled(opts), Toggled(opts, cursor), opts}
        /\ \E c \in {cursor - 1, cursor + 1, cursor + 0} :
              cursor' = Visible(opts', c, scroll)[1]
              /\ scroll' = Visible(opts', c, scroll)[2]
    <2> DEFINE c == cursor + (IF k = "up" /\ cursor > 0 THEN -1
                          ELSE IF k = "down" /\ cursor + 1 < Rows(opts) THEN 1 ELSE 0)
    <2>1. c \in {cursor - 1, cursor + 1, cursor + 0}
      BY <1>3
    <2>2. /\ opts' = IF k = "a" THEN AllToggled(opts)
                     ELSE IF IsEnter(k) \/ k = "space" THEN Toggled(opts, cursor) ELSE opts
          /\ cursor' = Visible(opts', c, scroll)[1]
          /\ scroll' = Visible(opts', c, scroll)[2]
      BY DEF Options
    <2> QED
      BY <2>1, <2>2
  <1>5. OptsOK'
    <2>1. CASE opts' = AllToggled(opts)
      BY <1>1, <2>1 DEF PagesInv, OptsOK, AllToggled, FontList, Has
    <2>2. CASE opts' = Toggled(opts, cursor)
      <3>1. opts' \in [pkgs : SUBSET ToSet(Packages), icons : BOOLEAN, fonts : BOOLEAN,
                       which : SUBSET ToSet(FontList), chibicc : BOOLEAN]
            /\ (opts'.fonts => FontList # <<>>)
        <4> HIDE DEF Toggled
        <4> QED
          BY <1>3, <2>2, TickedStaysOK DEF PagesInv
      <3> QED
        BY <1>1, <3>1 DEF OptsOK, FontList, Has
    <2>3. CASE opts' = opts
      BY <1>1, <2>3 DEF PagesInv, OptsOK, FontList, Has
    <2> QED
      BY <1>4, <2>1, <2>2, <2>3
  <1>6. OnScreen(opts', cursor', scroll')
    <2>1. PICK c \in {cursor - 1, cursor + 1, cursor + 0} :
              cursor' = Visible(opts', c, scroll)[1]
              /\ scroll' = Visible(opts', c, scroll)[2]
      BY <1>4
    <2>2. c \in Int
      BY <1>3, <2>1
    <2> QED
      BY <1>3, <2>1, <2>2, VisibleShows
  <1>7. OnScreen(opts, cursor, scroll)'
    BY <1>1, <1>6
       DEF OnScreen, Rows, ContinueRow, ChibiccRow, FirstFont, FontList, Has
  <1> QED
    BY <1>1, <1>5, <1>7 DEF PagesInv

LEMMA PagesStep == PagesInv /\ [Next]_vars => PagesInv'
  <1> SUFFICES ASSUME PagesInv, [Next]_vars PROVE PagesInv'
    OBVIOUS
  <1>1. CASE \E k \in Keys : Options(k)
    BY <1>1, OptionsKeep
  <1>2. CASE \E k \in Keys : SelectDrive(k)
    <2>1. CASE UNCHANGED <<loaded, opts, cursor, scroll, medium>> /\ (page' = "OPTIONS" => loaded)
      BY <2>1, PagesStay
    <2>2. CASE /\ loaded' = TRUE /\ cursor' = 0 /\ scroll' = 0 /\ medium' = medium
               /\ opts' = [pkgs |-> ToSet(Packages), icons |-> TRUE, fonts |-> FALSE,
                           which |-> ToSet(FontList), chibicc |-> FALSE]
      <3>1. OptsOK'
        BY <2>2 DEF OptsOK, FontList, Has
      <3>2. OnScreen(opts, cursor, scroll)'
        <4>1. 0 \in 0..(Rows(opts) - 1)' /\ 0 \in 0..(0 + VisibleRows - 1)
          BY RowsType, LayoutAssumption, <2>2
             DEF Rows, ContinueRow, ChibiccRow, FirstFont, FontList, Has
        <4> QED
          BY <2>2, <4>1 DEF OnScreen
      <3> QED
        BY <2>2, <3>1, <3>2 DEF PagesInv
    <2> QED
      BY <1>2, <2>1, <2>2 DEF SelectDrive
  <1>3. CASE \/ \E k \in Keys : Welcome(k) \/ MoveDrive(k) \/ Format(k)
             \/ Quit \/ SwitchOff \/ UNCHANGED vars
    <2>1. UNCHANGED <<loaded, opts, cursor, scroll, medium>>
          /\ page' \in {page, "SELECT_DRIVE", "COPY", "closed"}
      BY <1>3 DEF Welcome, MoveDrive, Format, Quit, SwitchOff, vars, pages
    <2> QED
      BY <2>1, PagesStay DEF PagesInv
  <1>4. CASE RunStep
    <2>1. UNCHANGED <<loaded, opts, cursor, scroll, medium>>
          /\ page' \in {page, "ERROR", "BOOTLOADER", "DONE"}
      <3>1. CASE InstallPackage
        BY <3>1 DEF InstallPackage
      <3>2. CASE WriteKernel
        BY <3>2 DEF WriteKernel
      <3> QED
        BY <1>4, <3>1, <3>2
           DEF RunStep, RamPreflight, PrepareDrive, SetLogical, ProbeTarget, CopyAbsent,
               CopyChunk, CopyEnd, CopyRefused, FetchIndex, WriteGrubCfg, BootRefused,
               WriteMbr, WriteCore, Fails, Failed, GoesOn, pages
    <2> QED
      BY <2>1, PagesStay DEF PagesInv
  <1> QED
    BY <1>1, <1>2, <1>3, <1>4 DEF Next, User

\* The row that Enter acts on is on the screen, whatever is ticked and however
\* often fonts are turned on and off, and no row is left out below an empty
\* line (options_ensure_cursor_visible).
THEOREM CursorVisible == Spec => []CursorShown
  <1>1. PagesInv => CursorShown
    BY DEF PagesInv, OnScreen, CursorShown
  <1> QED
    BY PagesInit, PagesStep, <1>1, PTL DEF Spec

----------------------------------------------------------------------------
(* What Picked returns.  The library states induction for operators, which  *)
(* is of no use here; for sets it follows from what it says of well-founded *)
(* relations.                                                               *)

\* A set of numbers that is not empty has a least one.
LEMMA LeastNumber == ASSUME NEW T \in SUBSET Nat, T # {}
                     PROVE  \E x \in T : \A y \in T : x <= y
  <1> DEFINE R == {ss \in Nat \X Nat : ss[1] < ss[2]}
  <1>1. IsWellFoundedOn(R, Nat)
    BY NatLessThanWellFounded DEF OpToRel
  <1>2. \A x \in Nat, y \in Nat : <<x, y>> \in R <=> x < y
    OBVIOUS
  <1> HIDE DEF R
  <1>3. PICK x \in T : \A y \in T : ~ (<<y, x>> \in R)
    BY <1>1, WFMin
  <1>4. ASSUME NEW y \in T PROVE x <= y
    <2>1. ~(<<y, x>> \in R)
      BY <1>3
    <2>2. x \in Nat /\ y \in Nat
      OBVIOUS
    <2>3. ~(y < x)
      BY <1>2, <2>1, <2>2, Zenon
    <2> QED
      BY <2>2, <2>3
  <1> QED
    BY <1>4

\* Induction, on a set.
LEMMA InductionOnSet == ASSUME NEW P \in SUBSET Nat, 0 \in P, \A n \in P : n + 1 \in P
                        PROVE  P = Nat
  <1>1. SUFFICES ASSUME Nat \ P # {} PROVE FALSE
    OBVIOUS
  <1>2. PICK x \in Nat \ P : \A y \in Nat \ P : x <= y
    BY <1>1, LeastNumber
  <1>3. x # 0 /\ x - 1 \in Nat /\ ~(x <= x - 1)
    BY <1>2
  <1>4. x - 1 \in P /\ (x - 1) + 1 = x
    BY <1>2, <1>3
  <1> QED
    BY <1>2, <1>4

LEMMA AppendedSet == ASSUME NEW T, NEW q \in Seq(T), NEW x \in T
                     PROVE  /\ Append(q, x) \in Seq(T)
                            /\ ToSet(Append(q, x)) = ToSet(q) \cup {x}
  <1>1. Append(q, x) \in Seq(T) /\ Len(Append(q, x)) = Len(q) + 1
    OBVIOUS
  <1>2. \A y \in ToSet(q) \cup {x} : \E i \in 1..(Len(q) + 1) : Append(q, x)[i] = y
    BY <1>1 DEF ToSet
  <1>3. \A i \in 1..(Len(q) + 1) : Append(q, x)[i] \in ToSet(q) \cup {x}
    BY <1>1 DEF ToSet
  <1> QED
    BY <1>1, <1>2, <1>3 DEF ToSet

LEMMA PickedFrom ==
    ASSUME NEW T, NEW s \in Seq(T), NEW S
    PROVE  Picked(s, S) \in Seq(T) /\ ToSet(Picked(s, S)) = ToSet(s) \cap S
  <1> DEFINE N == Len(s)
             Next1(g, n) == IF n = 0 THEN <<>>
                            ELSE IF s[n] \in S THEN Append(g[n - 1], s[n]) ELSE g[n - 1]
             Is(g, n) == g \in [0..n -> Seq(T)] /\ \A i \in 0..n : g[i] = Next1(g, i)
             P == {n \in Nat : n <= N => \E g : Is(g, n)}
             F == CHOOSE f : f = [n \in 0..N |-> Next1(f, n)]
             Q == {n \in Nat : n <= N =>
                       F[n] \in Seq(T) /\ ToSet(F[n]) = {s[i] : i \in 1..n} \cap S}
  <1>1. N \in Nat /\ \A n \in 1..N : s[n] \in T
    OBVIOUS
  <1>2. Picked(s, S) = F[N]
    BY DEF Picked
  <1>3. P = Nat
    <2>1. 0 \in P
      <3>1. Is([i \in 0..0 |-> <<>>], 0)
        OBVIOUS
      <3> QED
        BY <3>1
    <2>2. ASSUME NEW n \in P PROVE n + 1 \in P
      <3>1. n \in Nat
        OBVIOUS
      <3>2. CASE n + 1 <= N
        <4>0. \E g : Is(g, n)
          <5> HIDE DEF N, Is, F, Q
          <5>1. n <= N
            BY <1>1, <3>1, <3>2
          <5> QED
            BY <5>1
        <4>1. PICK g : Is(g, n)
          BY <4>0
        <4> DEFINE e == IF s[n + 1] \in S THEN Append(g[n], s[n + 1]) ELSE g[n]
                   h == [i \in 0..(n + 1) |-> IF i = n + 1 THEN e ELSE g[i]]
        <4>2. g[n] \in Seq(T) /\ s[n + 1] \in T
          BY <1>1, <3>1, <3>2, <4>1
        <4>3. e \in Seq(T)
          BY <4>2
        <4>4. h \in [0..(n + 1) -> Seq(T)]
          <5> HIDE DEF e
          <5> QED
            BY <3>1, <4>1, <4>3
        <4>5. ASSUME NEW i \in 0..(n + 1) PROVE h[i] = Next1(h, i)
          <5>1. CASE i = n + 1
            <6>1. h[i] = e /\ h[i - 1] = g[n] /\ i # 0
              BY <3>1, <5>1
            <6> QED
              BY <5>1, <6>1
          <5>2. CASE i # n + 1
            <6>1. i \in 0..n /\ h[i] = g[i] /\ (i # 0 => h[i - 1] = g[i - 1])
              <7> HIDE DEF e
              <7> QED
                BY <3>1, <5>2
            <6>2. g[i] = Next1(g, i)
              BY <4>1, <6>1
            <6> QED
              BY <6>1, <6>2
          <5> QED
            BY <5>1, <5>2
        <4>6. Is(h, n + 1)
          <5> HIDE DEF h, Next1
          <5> QED
            BY <4>4, <4>5
        <4>7. \E f : Is(f, n + 1)
          <5> HIDE DEF h, Is
          <5> QED
            BY <4>6
        <4>8. n + 1 \in Nat
          BY <3>1
        <4> QED
          <5> HIDE DEF N, Is
          <5> QED
            BY <4>7, <4>8
      <3>3. CASE ~(n + 1 <= N)
        <4> HIDE DEF N, Is, F, Q
        <4> QED
          BY <3>1, <3>3
      <3> QED
        BY <3>2, <3>3
    <2> HIDE DEF P
    <2>3. P \in SUBSET Nat
      BY DEF P
    <2> QED
      BY <2>1, <2>2, <2>3, InductionOnSet
  <1>4. F = [n \in 0..N |-> Next1(F, n)]
    <2>1. PICK g : Is(g, N)
      BY <1>1, <1>3
    <2>2. g = [n \in 0..N |-> Next1(g, n)]
      <3> HIDE DEF Next1
      <3> QED
        BY <2>1
    <2> QED
      BY <2>2
  <1>5. \A n \in 0..N : F[n] = Next1(F, n)
    <2> HIDE DEF F, Next1
    <2> QED
      BY <1>4
  <1> HIDE DEF F
  <1>6. Q = Nat
    <2>1. 0 \in Q
      <3>1. F[0] = <<>>
        BY <1>1, <1>5
      <3>2. ToSet(<<>>) = {} /\ {s[i] : i \in 1..0} = {}
        BY DEF ToSet
      <3>3. F[0] \in Seq(T) /\ ToSet(F[0]) = {s[i] : i \in 1..0} \cap S
        <4> HIDE DEF N
        <4>1. <<>> \in Seq(T)
          OBVIOUS
        <4> QED
          BY <3>1, <3>2, <4>1, Zenon
      <3> QED
        BY <3>3
    <2>2. ASSUME NEW n \in Q PROVE n + 1 \in Q
      <3>1. n \in Nat
        OBVIOUS
      <3>2. CASE n + 1 <= N
        <4>1. F[n] \in Seq(T) /\ ToSet(F[n]) = {s[i] : i \in 1..n} \cap S
          BY <1>1, <3>1, <3>2
        <4>2. F[n + 1] = IF s[n + 1] \in S THEN Append(F[n], s[n + 1]) ELSE F[n]
          BY <1>1, <1>5, <3>1, <3>2
        <4>3. s[n + 1] \in T
          BY <1>1, <3>1, <3>2
        <4>4. {s[i] : i \in 1..(n + 1)} = {s[i] : i \in 1..n} \cup {s[n + 1]}
          BY <3>1
        <4>5. CASE s[n + 1] \in S
          <5>1. F[n + 1] \in Seq(T) /\ ToSet(F[n + 1]) = ToSet(F[n]) \cup {s[n + 1]}
            BY <4>1, <4>2, <4>3, <4>5, AppendedSet
          <5> QED
            BY <3>1, <4>1, <4>4, <4>5, <5>1
        <4>6. CASE s[n + 1] \notin S
          BY <3>1, <4>1, <4>2, <4>4, <4>6
        <4> QED
          BY <4>5, <4>6
      <3>3. CASE ~(n + 1 <= N)
        BY <3>1, <3>3
      <3> QED
        BY <3>2, <3>3
    <2> HIDE DEF Q
    <2>3. Q \in SUBSET Nat
      BY DEF Q
    <2> QED
      BY <2>1, <2>2, <2>3, InductionOnSet
  <1>7. F[N] \in Seq(T) /\ ToSet(F[N]) = {s[i] : i \in 1..N} \cap S
    <2>1. N \in Q
      BY <1>1, <1>6
    <2> QED
      BY <1>1, <2>1
  <1>8. {s[i] : i \in 1..N} = ToSet(s)
    BY DEF ToSet
  <1> QED
    BY <1>2, <1>7, <1>8

----------------------------------------------------------------------------
(* What is copied and installed.                                           *)

LEMMA ConcatSet ==
    ASSUME NEW T, NEW a \in Seq(T), NEW b \in Seq(T)
    PROVE  /\ a \o b \in Seq(T) /\ Len(a \o b) = Len(a) + Len(b)
           /\ ToSet(a \o b) = ToSet(a) \cup ToSet(b)
  <1>1. /\ a \o b \in Seq(T) /\ Len(a \o b) = Len(a) + Len(b)
        /\ \A i \in 1..Len(a) : (a \o b)[i] = a[i]
        /\ \A i \in 1..Len(b) : (a \o b)[Len(a) + i] = b[i]
    OBVIOUS
  <1>2. ASSUME NEW x \in ToSet(a \o b) PROVE x \in ToSet(a) \cup ToSet(b)
    <2>1. PICK i \in 1..(Len(a) + Len(b)) : x = (a \o b)[i]
      BY <1>1 DEF ToSet
    <2>2. CASE i <= Len(a)
      BY <1>1, <2>1, <2>2 DEF ToSet
    <2>3. CASE i > Len(a)
      <3>1. i - Len(a) \in 1..Len(b) /\ i = Len(a) + (i - Len(a))
        BY <2>1, <2>3
      <3> QED
        BY <1>1, <2>1, <3>1 DEF ToSet
    <2> QED
      BY <2>1, <2>2, <2>3
  <1>3. ASSUME NEW x \in ToSet(a) \cup ToSet(b) PROVE x \in ToSet(a \o b)
    <2>1. CASE x \in ToSet(a)
      <3>1. PICK i \in 1..Len(a) : x = a[i]
        BY <2>1 DEF ToSet
      <3>2. i \in 1..Len(a \o b) /\ x = (a \o b)[i]
        BY <1>1, <3>1
      <3> QED
        BY <1>1, <3>2 DEF ToSet
    <2>2. CASE x \in ToSet(b)
      <3>1. PICK i \in 1..Len(b) : x = b[i]
        BY <2>2 DEF ToSet
      <3>2. Len(a) + i \in 1..Len(a \o b) /\ x = (a \o b)[Len(a) + i]
        BY <1>1, <3>1
      <3>3. \A k \in 1..Len(a \o b) : (a \o b)[k] \in ToSet(a \o b)
        BY <1>1 DEF ToSet
      <3> QED
        BY <3>2, <3>3
    <2> QED
      BY <2>1, <2>2
  <1> QED
    BY <1>1, <1>2, <1>3

\* The parts of the list of entries.
IconPart == IF opts.icons THEN Icons ELSE <<>>
FontPart ==
    IF ~opts.fonts THEN <<>>
    ELSE IF Seeded(opts) = <<>> THEN <<NoFont>> ELSE Seeded(opts)
CompilerPart == IF opts.chibicc THEN <<"chibicc">> ELSE <<>>

Names == ToSet(Always) \cup ToSet(Icons) \cup ToSet(Fonts) \cup {"chibicc", NoFont}

LEMMA InNames == /\ Always \in Seq(Names) /\ Len(Always) = 10
                /\ Icons \in Seq(Names) /\ Len(Icons) = 2
                /\ Fonts \in Seq(Names)
                /\ {<<>>, <<"chibicc">>, <<NoFont>>} \subseteq Seq(Names)
  <1> DEFINE T == Names
  <1>1. /\ ToSet(Always) \subseteq T /\ ToSet(Icons) \subseteq T /\ ToSet(Fonts) \subseteq T
        /\ "chibicc" \in T /\ NoFont \in T
    BY DEF Names
  <1> HIDE DEF T
  <1>2. Always \in Seq(T) /\ Len(Always) = 10
    BY <1>1 DEF ToSet, Always
  <1>3. Icons \in Seq(T) /\ Len(Icons) = 2
    BY <1>1 DEF ToSet, Icons
  <1>4. Fonts \in Seq(T)
    BY <1>1, NamesAssumption DEF ToSet
  <1>5. {<<>>, <<"chibicc">>, <<NoFont>>} \subseteq Seq(T)
    BY <1>1
  <1> QED
    BY <1>2, <1>3, <1>4, <1>5 DEF T

LEMMA PartsOK ==
    ASSUME OptsOK
    PROVE  /\ Seeded(opts) \in Seq(Names) /\ ToSet(Seeded(opts)) \subseteq ToSet(Fonts)
           /\ Always \in Seq(Names) /\ Len(Always) = 10
           /\ Icons \in Seq(Names) /\ Len(Icons) = 2
           /\ {IconPart, FontPart, CompilerPart} \subseteq Seq(Names)
           /\ Len(IconPart) = IF opts.icons THEN 2 ELSE 0
           /\ Len(CompilerPart) = IF opts.chibicc THEN 1 ELSE 0
           /\ ~opts.fonts => FontPart = <<>>
           /\ opts.fonts =>
                \/ FontPart = <<NoFont>> /\ Len(Seeded(opts)) = 0
                \/ FontPart = Seeded(opts)
           /\ Entries = ((Always \o IconPart) \o FontPart) \o CompilerPart
  <1>1. Seeded(opts) \in Seq(Names) /\ ToSet(Seeded(opts)) \subseteq ToSet(Fonts)
    <2>1. ToSet(FontList) \subseteq ToSet(Fonts) /\ FontList \in Seq(Names)
      BY InNames DEF FontList, ToSet
    <2>2. /\ Picked(FontList, opts.which) \in Seq(Names)
          /\ ToSet(Picked(FontList, opts.which)) = ToSet(FontList) \cap opts.which
      BY <2>1, PickedFrom
    <2> QED
      BY <2>1, <2>2 DEF Seeded
  <1>2. Always \in Seq(Names) /\ Len(Always) = 10
    BY InNames
  <1>3. Icons \in Seq(Names) /\ Len(Icons) = 2
    BY InNames
  <1>4. IconPart \in Seq(Names) /\ Len(IconPart) = IF opts.icons THEN 2 ELSE 0
    BY InNames DEF IconPart
  <1>5. CompilerPart \in Seq(Names) /\ Len(CompilerPart) = IF opts.chibicc THEN 1 ELSE 0
    BY InNames DEF CompilerPart
  <1>6. /\ FontPart \in Seq(Names)
        /\ ~opts.fonts => FontPart = <<>>
        /\ opts.fonts => \/ FontPart = <<NoFont>> /\ Len(Seeded(opts)) = 0
                         \/ FontPart = Seeded(opts)
    BY <1>1, InNames DEF FontPart
  <1>7. Entries = Always \o IconPart \o FontPart \o CompilerPart
    BY DEF Entries, IconPart, FontPart, CompilerPart
  <1> QED
    BY <1>1, <1>2, <1>3, <1>4, <1>5, <1>6, <1>7

\* What is announced is what is copied, or there is an entry for fonts without
\* a font, and it comes no later than the first that was not announced.
LEMMA EntriesAnnounced ==
    ASSUME OptsOK
    PROVE  /\ Entries \in Seq(Names) /\ SeedTotal \in Nat \ {0}
           /\ Len(Entries) >= 10
           /\ \/ Len(Entries) = SeedTotal
              \/ \E k \in 1..Len(Entries) : Entries[k] = NoFont /\ k - 1 <= SeedTotal
           /\ \A e \in ToSet(Entries) : e # NoFont => SizeOf[e] \in Nat
  <1> DEFINE A == Always \o IconPart
             B == A \o FontPart
  <1>1. A \in Seq(Names) /\ Len(A) = 10 + Len(IconPart)
        /\ ToSet(A) = ToSet(Always) \cup ToSet(IconPart)
    <2>1. Always \in Seq(Names) /\ IconPart \in Seq(Names) /\ Len(Always) = 10
      BY PartsOK
    <2> QED
      BY <2>1, ConcatSet
  <1>2. B \in Seq(Names) /\ Len(B) = Len(A) + Len(FontPart)
        /\ ToSet(B) = ToSet(A) \cup ToSet(FontPart)
    <2>1. FontPart \in Seq(Names)
      BY PartsOK
    <2> HIDE DEF A
    <2> QED
      BY <1>1, <2>1, ConcatSet
  <1>3. /\ Entries \in Seq(Names) /\ Len(Entries) = Len(B) + Len(CompilerPart)
        /\ ToSet(Entries) = ToSet(B) \cup ToSet(CompilerPart)
    <2>1. Entries = B \o CompilerPart
      BY PartsOK
    <2> HIDE DEF B
    <2> QED
      BY <1>2, <2>1, PartsOK, ConcatSet
  <1>4. /\ Len(IconPart) \in Nat /\ Len(FontPart) \in Nat /\ Len(CompilerPart) \in Nat
        /\ Len(Seeded(opts)) \in Nat
    BY PartsOK
  <1>5. SeedTotal = 10 + Len(IconPart) + (IF opts.fonts THEN Len(Seeded(opts)) ELSE 0)
                       + Len(CompilerPart)
    BY PartsOK DEF SeedTotal
  <1>6. \/ Len(Entries) = SeedTotal
        \/ \E k \in 1..Len(Entries) : Entries[k] = NoFont /\ k - 1 <= SeedTotal
    <2>1. CASE ~opts.fonts
      <3>1. Len(FontPart) = 0
        BY <2>1, PartsOK
      <3> QED
        BY <1>1, <1>2, <1>3, <1>4, <1>5, <2>1, <3>1
    <2>2. CASE opts.fonts /\ FontPart = Seeded(opts)
      BY <1>1, <1>2, <1>3, <1>4, <1>5, <2>2
    <2>3. CASE opts.fonts /\ FontPart = <<NoFont>> /\ Len(Seeded(opts)) = 0
      <3> DEFINE k == Len(A) + 1
      <3>1. Len(FontPart) = 1 /\ FontPart[1] = NoFont
        BY <2>3
      <3>2. B[k] = NoFont /\ Len(B) = k
        <4> HIDE DEF A
        <4> QED
          BY <1>1, <1>2, <3>1, PartsOK
      <3>3. k \in 1..Len(Entries) /\ Entries[k] = B[k]
        <4>1. Entries = B \o CompilerPart
          BY PartsOK
        <4>2. Len(B) \in Nat \ {0} /\ k = Len(B)
          BY <1>1, <1>4, <3>2
        <4>3. CompilerPart \in Seq(Names)
          BY PartsOK
        <4> HIDE DEF A, B, k
        <4> QED
          BY <1>2, <1>3, <1>4, <4>1, <4>2, <4>3
      <3>4. k - 1 <= SeedTotal
        BY <1>1, <1>4, <1>5, <2>3
      <3> QED
        BY <3>2, <3>3, <3>4
    <2> QED
      BY <2>1, <2>2, <2>3, PartsOK
  <1>7. \A e \in ToSet(Entries) : e # NoFont => SizeOf[e] \in Nat
    <2>1. ToSet(IconPart) \subseteq ToSet(Icons)
      BY DEF IconPart, ToSet
    <2>2. ToSet(CompilerPart) \subseteq ToSet(<<"chibicc">>)
      BY DEF CompilerPart, ToSet
    <2>3. ToSet(FontPart) \subseteq ToSet(Fonts) \cup {NoFont}
      <3>1. ToSet(<<>>) = {} /\ ToSet(<<NoFont>>) = {NoFont}
        BY DEF ToSet
      <3> QED
        BY <3>1, PartsOK
    <2>4. ToSet(Always \o Icons \o Fonts \o <<"chibicc">>) =
              ToSet(Always) \cup ToSet(Icons) \cup ToSet(Fonts) \cup ToSet(<<"chibicc">>)
      <3>1. Always \in Seq(Names) /\ Icons \in Seq(Names) /\ Fonts \in Seq(Names)
            /\ <<"chibicc">> \in Seq(Names)
        BY InNames
      <3> DEFINE X == Always \o Icons
                 Y == X \o Fonts
                 c == <<"chibicc">>
      <3>2. X \in Seq(Names) /\ ToSet(X) = ToSet(Always) \cup ToSet(Icons)
        BY <3>1, ConcatSet
      <3> HIDE DEF X, c
      <3>3. Y \in Seq(Names) /\ ToSet(Y) = ToSet(X) \cup ToSet(Fonts)
        BY <3>1, <3>2, ConcatSet
      <3> HIDE DEF Y
      <3>4. ToSet(Y \o c) = ToSet(Y) \cup ToSet(c)
        <4>1. c \in Seq(Names)
          BY <3>1 DEF c
        <4> QED
          BY <3>3, <4>1, ConcatSet
      <3> QED
        BY <3>2, <3>3, <3>4, Zenon DEF X, Y, c
    <2>5. \A e \in ToSet(Always) \cup ToSet(Icons) \cup ToSet(Fonts)
                     \cup ToSet(<<"chibicc">>) : SizeOf[e] \in Nat
      BY <2>4, SizesAssumption
    <2> HIDE DEF A, B
    <2> QED
      BY <1>1, <1>2, <1>3, <2>1, <2>2, <2>3, <2>5, Zenon
  <1>8. SeedTotal \in Nat \ {0} /\ Len(Entries) >= 10
    <2>1. (IF opts.fonts THEN Len(Seeded(opts)) ELSE 0) \in Nat
      BY <1>4
    <2> HIDE DEF A, B
    <2>2. Len(A) \in Nat /\ Len(B) \in Nat /\ Len(A) >= 10
      BY <1>1, <1>2, <1>4
    <2>3. Len(B) >= Len(A) /\ Len(Entries) >= Len(B)
      BY <1>2, <1>3, <1>4, <2>2
    <2> DEFINE f == IF opts.fonts THEN Len(Seeded(opts)) ELSE 0
    <2>4. f \in Nat /\ SeedTotal = 10 + Len(IconPart) + f + Len(CompilerPart)
      BY <1>5, <2>1
    <2> HIDE DEF f
    <2> QED
      BY <1>4, <2>2, <2>3, <2>4
  <1> QED
    BY <1>3, <1>6, <1>7, <1>8

----------------------------------------------------------------------------
(* The progress bar.                                                       *)

\* Before a run, and in it, something is to be installed.
SelectionMade == page = "FORMAT" \/ at \in Steps => opts.pkgs # {}

\* The entries completed are the steps the bar has made, and the entry of
\* fonts without a font, which cannot be completed, was not among them.
CopySoFar ==
    at = "copy" =>
        /\ bar.total = SeedTotal /\ bar.done = item - 1
        /\ item \in 1..Len(Entries) /\ copied \in Nat
        /\ \A j \in 1..(item - 1) : Entries[j] # NoFont
        /\ Entry # NoFont => bar.permille < 1000
PackagesSoFar ==
    at = "package" =>
        /\ item \in 1..Len(Selected)
        /\ bar.total = Len(Selected) /\ bar.done = item - 1 /\ bar.permille < 1000
BootSoFar ==
    /\ at = "grub.cfg" => bar = Reset(3)
    /\ at \in {"boot", "core", "kernel"} =>
           bar.total = 3 /\ bar.done = 1 /\ bar.permille < 1000
FullBar == at = "index" \/ page = "DONE" => bar.permille = 1000

BarInv ==
    /\ TargetInv /\ PagesInv /\ SelectionMade
    /\ bar \in [total : Nat, done : Nat, permille : Nat]
    /\ CopySoFar /\ PackagesSoFar /\ BootSoFar /\ FullBar

\* The steps of the run at which the bar says something.
Shows == {"copy", "index", "package", "grub.cfg", "boot", "core", "kernel"}

LEMMA SameLists == UNCHANGED <<opts, medium>> =>
                       UNCHANGED <<Entries, SeedTotal, Selected>>
  BY DEF Entries, SeedTotal, Selected, Seeded, FontList, Has

LEMMA SelectedSome ==
    ASSUME OptsOK, opts.pkgs # {}
    PROVE  /\ Selected \in Seq(STRING) /\ Len(Selected) \in Nat \ {0}
           /\ ToSet(Selected) = opts.pkgs
  <1>1. Selected \in Seq(STRING) /\ ToSet(Selected) = ToSet(Packages) \cap opts.pkgs
    BY PickedFrom, NamesAssumption DEF Selected
  <1>2. ToSet(Selected) = opts.pkgs
    BY <1>1 DEF OptsOK
  <1>3. Len(Selected) # 0
    BY <1>1, <1>2 DEF ToSet
  <1> QED
    BY <1>1, <1>2, <1>3

\* A fraction that is not yet whole.
LEMMA Permille == ASSUME NEW a \in Nat, NEW t \in Nat \ {0}
                  PROVE  /\ a < 1000 * t => a \div t \in 0..999
                         /\ (t * 1000) \div t = 1000
  OBVIOUS

LEMMA SteppedBar ==
    ASSUME NEW b \in [total : Nat, done : Nat, permille : Nat], b.total # 0,
           b.done < b.total
    PROVE  /\ Stepped(b) \in [total : Nat, done : Nat, permille : Nat]
           /\ Stepped(b).total = b.total /\ Stepped(b).done = b.done + 1
           /\ b.done + 1 < b.total => Stepped(b).permille < 1000
           /\ b.done + 1 = b.total => Stepped(b).permille = 1000
  <1> DEFINE T == b.total
             d == Min({b.done + 1, b.total})
             q == (d * 1000) \div T
  <1>1. d = b.done + 1 /\ d \in Nat /\ T \in Nat \ {0}
    BY MinOfTwo
  <1>2. Stepped(b) = [b EXCEPT !.done = d, !.permille = Min({q, 1000})]
    BY DEF Stepped
  <1> HIDE DEF d, T
  <1>3. q \in Nat /\ (d < T => q < 1000) /\ (d = T => q = 1000)
    <2>1. d * 1000 \in Nat /\ (d < T => d * 1000 < 1000 * T)
      BY <1>1
    <2>2. q \in Nat
      BY <1>1, <2>1
    <2>3. d * 1000 < 1000 * T => q \in 0..999
      <3> DEFINE a == d * 1000
      <3>1. a \in Nat
        BY <2>1
      <3> HIDE DEF a
      <3>2. T \in Nat \ {0}
        BY <1>1
      <3>3. a < 1000 * T => a \div T \in 0..999
        BY <3>1, <3>2
      <3> QED
        BY <3>3 DEF a
    <2>4. (T * 1000) \div T = 1000
      BY <1>1, Permille
    <2> QED
      BY <2>1, <2>2, <2>3, <2>4
  <1> HIDE DEF q
  <1>4. Min({q, 1000}) = IF q <= 1000 THEN q ELSE 1000
    BY <1>3, MinOfTwo
  <1> DEFINE m == Min({q, 1000})
  <1>5. m \in Nat /\ (d < T => m < 1000) /\ (d = T => m = 1000)
    BY <1>3, <1>4
  <1>6. Stepped(b) = [b EXCEPT !.done = d, !.permille = m]
    BY <1>2
  <1> HIDE DEF m
  <1>7. Stepped(b).total = T /\ Stepped(b).done = d /\ Stepped(b).permille = m
    BY <1>6 DEF T
  <1>8. Stepped(b) \in [total : Nat, done : Nat, permille : Nat]
    <2>1. \A x \in Nat, y \in Nat :
              [b EXCEPT !.done = x, !.permille = y] \in [total : Nat, done : Nat, permille : Nat]
      OBVIOUS
    <2>2. d \in Nat /\ m \in Nat
      BY <1>1, <1>5
    <2> QED
      BY <1>6, <2>1, <2>2, Zenon
  <1> QED
    BY <1>1, <1>5, <1>7, <1>8 DEF T

\* The part of an entry that is copied does not fill the bar.
LEMMA WithinBar ==
    ASSUME NEW b \in [total : Nat, done : Nat, permille : Nat], b.done < b.total,
           NEW n \in Nat, NEW t \in Nat \ {0}
    PROVE  /\ Within(b, n, t) \in [total : Nat, done : Nat, permille : Nat]
           /\ Within(b, n, t).total = b.total /\ Within(b, n, t).done = b.done
           /\ b.permille < 1000 => Within(b, n, t).permille < 1000
  <1> DEFINE w == (n * 1000) % Word
             entry == Min({w \div t, 999})
             a == b.done * 1000 + entry
             T == b.total
             all == Min({a \div T, 1000})
  <1>1. Within(b, n, t) = [b EXCEPT !.permille = Max({b.permille, all})]
    BY DEF Within
  <1>2. w \in Nat
    BY LayoutAssumption
  <1> HIDE DEF w
  <1>3. entry \in 0..999
    <2> DEFINE x == w \div t
    <2>1. x \in Nat
      BY <1>2
    <2> HIDE DEF x
    <2>2. Min({x, 999}) = IF x <= 999 THEN x ELSE 999
      BY <2>1, MinOfTwo
    <2> QED
      BY <2>1, <2>2 DEF x
  <1> HIDE DEF entry
  <1>4. a \in Nat /\ a < 1000 * T /\ T \in Nat \ {0}
    BY <1>3
  <1> HIDE DEF a, T
  <1>5. all \in 0..999
    <2> DEFINE x == a \div T
    <2>1. x \in 0..999
      BY <1>4, Permille
    <2> HIDE DEF x
    <2>2. Min({x, 1000}) = IF x <= 1000 THEN x ELSE 1000
      BY <2>1, MinOfTwo
    <2> QED
      BY <2>1, <2>2 DEF x
  <1> HIDE DEF all
  <1>6. Max({b.permille, all}) = IF b.permille >= all THEN b.permille ELSE all
    BY <1>5, MaxOfTwo
  <1> QED
    BY <1>1, <1>5, <1>6

\* Where the bar says nothing, or nothing has changed.
LEMMA BarElsewhere ==
    ASSUME BarInv, TargetInv', PagesInv', SelectionMade', bar' = bar,
           at' \notin Shows, page' # "DONE" \/ page' = page
    PROVE  BarInv'
  BY DEF BarInv, CopySoFar, PackagesSoFar, BootSoFar, FullBar, Shows

\* An entry is completed: the bar makes a step, and is full after the last.
LEMMA EntryDone ==
    ASSUME BarInv, TargetInv', PagesInv', SelectionMade', Copying, Entry # NoFont,
           NextEntry, UNCHANGED <<opts, medium, page>>
    PROVE  BarInv'
  <1> DEFINE E == Len(Entries)
             S == SeedTotal
  <1>1. /\ OptsOK /\ at = "copy" /\ item \in 1..E /\ bar.total = S /\ bar.done = item - 1
        /\ \A j \in 1..(item - 1) : Entries[j] # NoFont
        /\ bar \in [total : Nat, done : Nat, permille : Nat]
    BY DEF BarInv, PagesInv, CopySoFar, Copying
  <1>2. /\ S \in Nat \ {0} /\ E \in Nat
        /\ E = S \/ \E k \in 1..E : Entries[k] = NoFont /\ k - 1 <= S
    BY <1>1, EntriesAnnounced
  <1>3. \A j \in 1..item : Entries[j] # NoFont
    BY <1>1, <1>2 DEF Entry
  <1>4. /\ item <= S /\ (item = E => item = S)
        /\ item < E /\ Entries[item + 1] # NoFont => item < S
    <2>1. CASE E = S
      BY <1>1, <1>2, <2>1
    <2>2. CASE \E k \in 1..E : Entries[k] = NoFont /\ k - 1 <= S
      <3>1. PICK k \in 1..E : Entries[k] = NoFont /\ k - 1 <= S
        BY <2>2
      <3>2. item < k
        BY <1>1, <1>2, <1>3, <3>1
      <3>3. Entries[item + 1] # NoFont => item + 1 # k
        BY <3>1
      <3> QED
        BY <1>1, <1>2, <3>1, <3>2, <3>3
    <2> QED
      BY <1>2, <2>1, <2>2
  <1>5. UNCHANGED <<Entries, S>>
    BY SameLists
  <1>6. /\ bar' \in [total : Nat, done : Nat, permille : Nat]
        /\ bar'.total = S /\ bar'.done = item
        /\ item < S => bar'.permille < 1000
        /\ item = S => bar'.permille = 1000
    <2>1. bar' = Stepped(bar) /\ bar.total # 0 /\ bar.done < bar.total
          /\ bar.done + 1 = item
      BY <1>1, <1>2, <1>4 DEF NextEntry
    <2> QED
      BY <1>1, <2>1, SteppedBar
  <1>7. item' = item + 1 /\ copied' = 0 /\ at' = IF item = E THEN "index" ELSE "copy"
    BY <1>1 DEF NextEntry
  <1>8. page' # "DONE"
    <2>1. page \in Running
      BY <1>1, RunningPage DEF BarInv, Steps
    <2> QED
      BY <2>1 DEF Running
  <1> HIDE DEF E, S
  <1>9. CopySoFar'
    <2>1. CASE item = E
      BY <1>7, <2>1 DEF CopySoFar
    <2>2. CASE item # E
      <3>1. item' \in 1..E /\ item' - 1 = item /\ item < E
        BY <1>1, <1>2, <1>7, <2>2
      <3>2. Entries'[item'] # NoFont => bar'.permille < 1000
        BY <1>4, <1>5, <1>6, <1>7, <3>1
      <3>3. Len(Entries)' = E /\ SeedTotal' = S
        BY <1>5 DEF E, S
      <3> QED
        BY <1>3, <1>5, <1>6, <1>7, <3>1, <3>2, <3>3 DEF CopySoFar, Entry
    <2> QED
      BY <2>1, <2>2
  <1>10. PackagesSoFar' /\ BootSoFar'
    BY <1>7 DEF PackagesSoFar, BootSoFar
  <1>11. FullBar'
    BY <1>4, <1>6, <1>7, <1>8 DEF FullBar
  <1> QED
    BY <1>6, <1>9, <1>10, <1>11 DEF BarInv

\* A chunk of an entry.
LEMMA ChunkDone ==
    ASSUME BarInv, TargetInv', PagesInv', SelectionMade', CopyChunk
    PROVE  BarInv'
  <1> DEFINE E == Len(Entries)
             S == SeedTotal
             size == SizeOf[Entry]
  <1>1. /\ OptsOK /\ at = "copy" /\ item \in 1..E /\ bar.total = S /\ bar.done = item - 1
        /\ \A j \in 1..(item - 1) : Entries[j] # NoFont
        /\ bar \in [total : Nat, done : Nat, permille : Nat] /\ copied \in Nat
        /\ Entry # NoFont => bar.permille < 1000
    BY DEF BarInv, PagesInv, CopySoFar, CopyChunk, Copying
  <1>2. /\ Entry # NoFont /\ copied < size /\ copied' = copied + 1
        /\ bar' = Within(bar, copied + 1, size)
        /\ UNCHANGED <<at, item, page, opts, medium>>
    BY DEF CopyChunk, Readable, pages
  <1>3. /\ S \in Nat \ {0} /\ E \in Nat
        /\ E = S \/ \E k \in 1..E : Entries[k] = NoFont /\ k - 1 <= S
    BY <1>1, EntriesAnnounced
  <1>4. item <= S
    <2>1. CASE E = S
      BY <1>1, <1>3, <2>1
    <2>2. CASE \E k \in 1..E : Entries[k] = NoFont /\ k - 1 <= S
      <3>1. PICK k \in 1..E : Entries[k] = NoFont /\ k - 1 <= S
        BY <2>2
      <3>2. k # item
        BY <1>2, <3>1 DEF Entry
      <3> QED
        BY <1>1, <1>3, <3>1, <3>2
    <2> QED
      BY <1>3, <2>1, <2>2
  <1>5. size \in Nat \ {0}
    <2>1. Entry \in ToSet(Entries)
      BY <1>1 DEF Entry, ToSet
    <2>2. size \in Nat
      BY <1>1, <1>2, <2>1, EntriesAnnounced
    <2> QED
      BY <1>1, <1>2, <2>2
  <1>6. /\ bar' \in [total : Nat, done : Nat, permille : Nat]
        /\ bar'.total = S /\ bar'.done = item - 1 /\ bar'.permille < 1000
    <2>1. bar.done < bar.total /\ copied + 1 \in Nat
      BY <1>1, <1>3, <1>4
    <2> DEFINE n == copied + 1
    <2> HIDE DEF size, n
    <2>2. n \in Nat
      BY <2>1 DEF n
    <2>3. /\ Within(bar, n, size) \in [total : Nat, done : Nat, permille : Nat]
          /\ Within(bar, n, size).total = bar.total /\ Within(bar, n, size).done = bar.done
          /\ bar.permille < 1000 => Within(bar, n, size).permille < 1000
      <3>1. bar \in [total : Nat, done : Nat, permille : Nat] /\ bar.done < bar.total
        BY <1>1, <2>1
      <3> QED
        BY <1>5, <2>2, <3>1, WithinBar
    <2>4. bar' = Within(bar, n, size)
      BY <1>2 DEF n
    <2> HIDE DEF S
    <2> QED
      BY <1>1, <1>2, <2>3, <2>4
  <1>7. UNCHANGED <<Entries, SeedTotal, Selected>>
    BY <1>2, SameLists
  <1>8. CopySoFar'
    BY <1>1, <1>2, <1>6, <1>7 DEF CopySoFar, Entry
  <1>9. PackagesSoFar' /\ BootSoFar'
    BY <1>1, <1>2 DEF PackagesSoFar, BootSoFar
  <1>10. FullBar'
    <2>1. page # "DONE"
      BY <1>1, RunningPage DEF BarInv, Steps, Running
    <2> QED
      BY <1>1, <1>2, <2>1 DEF FullBar
  <1> QED
    BY <1>6, <1>8, <1>9, <1>10 DEF BarInv

\* A package is installed; the last of a plan moves the bar, the last of all
\* starts it again for the boot sectors.
LEMMA PackageDone ==
    ASSUME BarInv, TargetInv', PagesInv', SelectionMade', InstallPackage
    PROVE  BarInv'
  <1> DEFINE last == file = Len(PlanOf[Selected[item]])
             L == Len(Selected)
  <1>1. /\ OptsOK /\ at = "package" /\ item \in 1..L
        /\ bar.total = L /\ bar.done = item - 1 /\ bar.permille < 1000
        /\ bar \in [total : Nat, done : Nat, permille : Nat] /\ opts.pkgs # {}
    BY DEF BarInv, PagesInv, PackagesSoFar, InstallPackage, SelectionMade, Steps
  <1>2. L \in Nat \ {0}
    BY <1>1, SelectedSome
  <1>3. /\ UNCHANGED <<opts, medium>> /\ item' = IF last THEN item + 1 ELSE item
        /\ IF last /\ item = L
           THEN at' = "grub.cfg" /\ page' = "BOOTLOADER" /\ bar' = Reset(3)
           ELSE /\ bar' = IF last THEN Stepped(bar) ELSE bar
                /\ at' = at /\ page' = page
    BY DEF InstallPackage
  <1>4. UNCHANGED <<Entries, SeedTotal, Selected>>
    BY <1>3, SameLists
  <1>5. page' # "DONE"
    <2>1. page # "DONE"
      BY <1>1, RunningPage DEF BarInv, Steps, Running
    <2> QED
      BY <1>3, <2>1
  <1> HIDE DEF last
  <1>6. CASE last /\ item = L
    <2>1. at' = "grub.cfg" /\ bar' = Reset(3)
      BY <1>3, <1>6
    <2>2. bar' \in [total : Nat, done : Nat, permille : Nat]
      BY <2>1 DEF Reset
    <2> QED
      BY <1>5, <2>1, <2>2
         DEF BarInv, CopySoFar, PackagesSoFar, BootSoFar, FullBar
  <1>7. CASE ~(last /\ item = L)
    <2>1. at' = "package" /\ page' = page /\ bar' = IF last THEN Stepped(bar) ELSE bar
      BY <1>1, <1>3, <1>7
    <2>2. /\ bar' \in [total : Nat, done : Nat, permille : Nat]
          /\ item' \in 1..L /\ bar'.total = L /\ bar'.done = item' - 1
          /\ bar'.permille < 1000
      <3>1. CASE last
        <4>1. item < L /\ item' = item + 1 /\ bar' = Stepped(bar)
          BY <1>1, <1>2, <1>3, <1>7, <2>1, <3>1
        <4>2. bar.total # 0 /\ bar.done < bar.total /\ bar.done + 1 < bar.total
          BY <1>1, <1>2, <4>1
        <4>3. /\ Stepped(bar) \in [total : Nat, done : Nat, permille : Nat]
              /\ Stepped(bar).total = L /\ Stepped(bar).done = bar.done + 1
              /\ Stepped(bar).permille < 1000
          <5>1. bar \in [total : Nat, done : Nat, permille : Nat] /\ bar.total = L
            BY <1>1
          <5> QED
            BY <4>2, <5>1, SteppedBar
        <4> QED
          BY <1>1, <1>2, <4>1, <4>3
      <3>2. CASE ~last
        BY <1>1, <1>3, <2>1, <3>2
      <3> QED
        BY <3>1, <3>2
    <2>3. PackagesSoFar'
      BY <1>4, <2>2 DEF PackagesSoFar
    <2> QED
      BY <1>5, <2>1, <2>2, <2>3 DEF BarInv, CopySoFar, BootSoFar, FullBar
  <1> QED
    BY <1>6, <1>7

LEMMA BarRun == ASSUME BarInv, RunStep, TargetInv', PagesInv' PROVE BarInv'
  <1>1. UNCHANGED <<opts, medium>> /\ at \in Steps /\ page' # "FORMAT"
    <2>1. at \in Steps /\ UNCHANGED <<opts, medium>>
      BY DEF RunStep, RamPreflight, PrepareDrive, SetLogical, ProbeTarget, CopyAbsent,
             CopyChunk, CopyEnd, CopyRefused, FetchIndex, InstallPackage, WriteGrubCfg,
             BootRefused, WriteMbr, WriteCore, WriteKernel, Copying, Fails, Failed,
             GoesOn, pages, Steps
    <2>2. page \in Running
      BY <2>1, RunningPage DEF BarInv
    <2>3. page' \in {page, "ERROR", "BOOTLOADER", "DONE"}
      <3>1. CASE InstallPackage
        BY <3>1 DEF InstallPackage
      <3>2. CASE WriteKernel
        BY <3>2 DEF WriteKernel
      <3> QED
        BY <3>1, <3>2
           DEF RunStep, RamPreflight, PrepareDrive, SetLogical, ProbeTarget, CopyAbsent,
               CopyChunk, CopyEnd, CopyRefused, FetchIndex, WriteGrubCfg, BootRefused,
               WriteMbr, WriteCore, Fails, Failed, GoesOn, pages
    <2> QED
      BY <2>1, <2>2, <2>3 DEF Running
  <1>2. SelectionMade'
    BY <1>1 DEF BarInv, SelectionMade
  <1>3. UNCHANGED <<Entries, SeedTotal, Selected>>
    BY <1>1, SameLists
  <1>4. page \in Running /\ page # "DONE"
    BY <1>1, RunningPage DEF BarInv, Running
  <1>5. OptsOK /\ opts.pkgs # {}
    BY <1>1 DEF BarInv, PagesInv, SelectionMade
  <1>6. CASE RamPreflight
    <2>1. bar' = [total |-> 100, done |-> 0, permille |-> 30] /\ at' = "prepare" /\ page' = page
      BY <1>6 DEF RamPreflight, GoesOn, pages
    <2>2. bar' \in [total : Nat, done : Nat, permille : Nat]
      BY <2>1
    <2> QED
      BY <1>2, <1>4, <2>1, <2>2 DEF BarInv, CopySoFar, PackagesSoFar, BootSoFar, FullBar
  <1>7. CASE PrepareDrive
    <2>1. CASE GoesOn("logical") /\ bar' = [bar EXCEPT !.permille = 80]
      <3>1. bar' \in [total : Nat, done : Nat, permille : Nat]
        BY <2>1 DEF BarInv
      <3>2. at' = "logical" /\ page' = page
        BY <2>1 DEF GoesOn, pages
      <3> QED
        BY <1>2, <1>4, <3>1, <3>2 DEF BarInv, CopySoFar, PackagesSoFar, BootSoFar, FullBar
    <2>2. CASE Failed("io")
      BY <1>2, <2>2, BarElsewhere DEF Failed, Shows
    <2> QED
      BY <1>7, <2>1, <2>2 DEF PrepareDrive
  <1>8. CASE SetLogical
    <2>1. at' = "probe" /\ page' = page /\ bar' = bar
      BY <1>8 DEF SetLogical, GoesOn, pages
    <2> QED
      BY <1>2, <2>1, BarElsewhere DEF Shows
  <1>9. CASE ProbeTarget
    <2>1. at' = "copy" /\ page' = page /\ bar' = Reset(SeedTotal) /\ item' = 1 /\ copied' = 0
      BY <1>9 DEF ProbeTarget, GoesOn, pages
    <2>2. /\ SeedTotal \in Nat /\ 1 \in 1..Len(Entries) /\ \A j \in 1..(1 - 1) : FALSE
      BY <1>5, EntriesAnnounced
    <2>3. /\ bar' \in [total : Nat, done : Nat, permille : Nat]
          /\ bar'.total = SeedTotal /\ bar'.done = 0 /\ bar'.permille = 0
      BY <2>1, <2>2 DEF Reset
    <2>4. CopySoFar'
      BY <1>3, <2>1, <2>2, <2>3 DEF CopySoFar
    <2> QED
      BY <1>2, <1>4, <2>1, <2>3, <2>4 DEF BarInv, PackagesSoFar, BootSoFar, FullBar
  <1>10. CASE CopyAbsent
    BY <1>1, <1>2, <1>10, EntryDone DEF CopyAbsent, Optional, NoFont, pages
  <1>11. CASE CopyChunk
    BY <1>2, <1>11, ChunkDone
  <1>12. CASE CopyEnd
    <2>1. Copying /\ Entry # NoFont /\ page' = page
      BY <1>12 DEF CopyEnd, Readable, pages
    <2>2. CASE NextEntry
      BY <1>1, <1>2, <2>1, <2>2, EntryDone
    <2>3. CASE UNCHANGED <<at, item, bar>> /\ copied' = 0
      BY <1>2, <1>3, <1>4, <2>1, <2>3
         DEF BarInv, CopySoFar, PackagesSoFar, BootSoFar, FullBar, Entry
    <2> QED
      BY <1>12, <2>2, <2>3 DEF CopyEnd
  <1>13. CASE CopyRefused
    BY <1>2, <1>13, BarElsewhere DEF CopyRefused, Fails, Failed, Shows
  <1>14. CASE FetchIndex
    <2>1. at' = "package" /\ page' = page /\ bar' = Reset(Len(Selected)) /\ item' = 1
      BY <1>14 DEF FetchIndex, GoesOn, pages
    <2>2. Len(Selected) \in Nat \ {0}
      BY <1>5, SelectedSome
    <2>3. /\ bar' \in [total : Nat, done : Nat, permille : Nat]
          /\ bar'.total = Len(Selected) /\ bar'.done = 0 /\ bar'.permille = 0
      BY <2>1, <2>2 DEF Reset
    <2>4. PackagesSoFar'
      BY <1>3, <2>1, <2>2, <2>3 DEF PackagesSoFar
    <2> QED
      BY <1>2, <1>4, <2>1, <2>3, <2>4 DEF BarInv, CopySoFar, BootSoFar, FullBar
  <1>15. CASE InstallPackage
    BY <1>2, <1>15, PackageDone
  <1>16. CASE WriteGrubCfg
    <2>1. at' = "boot" /\ page' = page /\ bar' = Stepped(bar) /\ bar = Reset(3)
      BY <1>16 DEF WriteGrubCfg, GoesOn, pages, BarInv, BootSoFar
    <2>2. /\ bar \in [total : Nat, done : Nat, permille : Nat]
          /\ bar.total # 0 /\ bar.done < bar.total /\ bar.done + 1 < bar.total
      BY <2>1 DEF Reset, BarInv
    <2>3. /\ bar' \in [total : Nat, done : Nat, permille : Nat]
          /\ bar'.total = 3 /\ bar'.done = 1 /\ bar'.permille < 1000
      <3>1. bar.total = 3 /\ bar.done = 0
        BY <2>1 DEF Reset
      <3> QED
        BY <2>1, <2>2, <3>1, SteppedBar
    <2> QED
      BY <1>2, <1>4, <2>1, <2>3 DEF BarInv, CopySoFar, PackagesSoFar, BootSoFar, FullBar
  <1>17. CASE BootRefused
    BY <1>2, <1>17, BarElsewhere DEF BootRefused, Fails, Failed, Shows
  <1>18. CASE WriteMbr \/ WriteCore
    <2>1. at \in {"boot", "core"} /\ at' \in {"core", "kernel"} /\ page' = page /\ bar' = bar
      BY <1>18 DEF WriteMbr, WriteCore, GoesOn, pages
    <2> QED
      BY <1>2, <1>4, <2>1 DEF BarInv, CopySoFar, PackagesSoFar, BootSoFar, FullBar
  <1>19. CASE WriteKernel
    <2>1. /\ at = "kernel"
          /\ \/ at' = at /\ page' = page /\ bar' = bar
             \/ at' = "idle" /\ bar' = [Stepped(Stepped(bar)) EXCEPT !.permille = 1000]
      BY <1>19 DEF WriteKernel
    <2>2. CASE at' = at /\ page' = page /\ bar' = bar
      BY <1>2, <1>4, <2>1, <2>2 DEF BarInv, CopySoFar, PackagesSoFar, BootSoFar, FullBar
    <2>3. CASE at' = "idle" /\ bar' = [Stepped(Stepped(bar)) EXCEPT !.permille = 1000]
      <3>1. bar' \in [total : Nat, done : Nat, permille : Nat] /\ bar'.permille = 1000
        <4> DEFINE b == Stepped(bar)
        <4>1. /\ bar \in [total : Nat, done : Nat, permille : Nat]
              /\ bar.total = 3 /\ bar.done = 1
          BY <2>1 DEF BarInv, BootSoFar
        <4>2. b \in [total : Nat, done : Nat, permille : Nat] /\ b.total = 3 /\ b.done = 2
          BY <4>1, SteppedBar
        <4> HIDE DEF b
        <4>3. Stepped(b) \in [total : Nat, done : Nat, permille : Nat]
          BY <4>2, SteppedBar
        <4>4. bar' = [Stepped(b) EXCEPT !.permille = 1000]
          BY <2>3 DEF b
        <4> QED
          BY <4>3, <4>4
      <3> QED
        BY <1>2, <2>3, <3>1 DEF BarInv, CopySoFar, PackagesSoFar, BootSoFar, FullBar
    <2> QED
      BY <2>1, <2>2, <2>3
  <1>20. CASE \E s \in Steps : Fails(s, "io")
    BY <1>2, <1>20, BarElsewhere DEF Fails, Failed, Shows
  <1> QED
    BY <1>6, <1>7, <1>8, <1>9, <1>10, <1>11, <1>12, <1>13, <1>14, <1>15, <1>16, <1>17,
       <1>18, <1>19, <1>20 DEF RunStep

LEMMA BarUser == ASSUME BarInv, User, TargetInv', PagesInv' PROVE BarInv'
  <1>1. at = "idle" /\ bar' = bar
    BY DEF BarInv, TargetInv, PagesAgree, Early, User, Welcome, MoveDrive, SelectDrive,
           Options, Format, Quit, run
  <1>2. /\ at' \in {"idle", "ram"} /\ page' # "DONE"
        /\ at' = "ram" => page = "FORMAT" /\ opts' = opts
    BY <1>1 DEF User, Welcome, MoveDrive, SelectDrive, Options, Format, Quit, run
  <1>3. SelectionMade'
    <2>1. CASE \E k \in Keys : Options(k)
      <3>1. at' = "idle" /\ (page' = "FORMAT" => opts'.pkgs # {})
        BY <1>1, <2>1 DEF Options, run
      <3> QED
        BY <3>1 DEF SelectionMade, Steps
    <2>2. CASE ~\E k \in Keys : Options(k)
      <3>1. page' # "FORMAT" \/ page' = page
        BY <2>2 DEF User, Welcome, MoveDrive, SelectDrive, Format, Quit
      <3>2. page # "FORMAT" \/ opts' = opts
        BY <2>2 DEF User, Welcome, MoveDrive, SelectDrive, Format, Quit
      <3> QED
        BY <1>2, <2>2, <3>1, <3>2
           DEF BarInv, SelectionMade, Steps, User, Welcome, MoveDrive, SelectDrive, Format,
               Quit
    <2> QED
      BY <2>1, <2>2
  <1> QED
    BY <1>1, <1>2, <1>3, BarElsewhere DEF Shows

LEMMA BarInit == Init => BarInv
  <1> SUFFICES ASSUME Init PROVE BarInv
    OBVIOUS
  <1>1. bar \in [total : Nat, done : Nat, permille : Nat]
    BY DEF Init
  <1> QED
    BY <1>1, TargetInit, PagesInit
       DEF Init, BarInv, SelectionMade, CopySoFar, PackagesSoFar, BootSoFar, FullBar, Steps

LEMMA BarStep == BarInv /\ [Next]_vars => BarInv'
  <1> SUFFICES ASSUME BarInv, [Next]_vars PROVE BarInv'
    OBVIOUS
  <1>1. TargetInv' /\ PagesInv'
    BY TargetStep, PagesStep DEF BarInv
  <1>2. CASE User
    BY <1>1, <1>2, BarUser
  <1>3. CASE RunStep
    BY <1>1, <1>3, BarRun
  <1>4. CASE SwitchOff
    <2>1. at' = "off" /\ page' = page /\ bar' = bar /\ opts' = opts /\ at \notin {"idle", "off"}
      BY <1>4 DEF SwitchOff, pages
    <2>2. SelectionMade'
      BY <2>1 DEF BarInv, SelectionMade, Steps
    <2> QED
      BY <1>1, <2>1, <2>2, BarElsewhere DEF Shows
  <1>5. CASE UNCHANGED vars
    <2>1. UNCHANGED <<at, page, bar, item, copied, opts, medium>>
      BY <1>5 DEF vars, pages, run
    <2>2. UNCHANGED <<Entries, SeedTotal, Selected>>
      BY <2>1, SameLists
    <2> QED
      BY <1>1, <2>1, <2>2
         DEF BarInv, SelectionMade, CopySoFar, PackagesSoFar, BootSoFar, FullBar, Entry
  <1> QED
    BY <1>2, <1>3, <1>4, <1>5 DEF Next

\* The bar is full exactly when the work it counts is done, whatever is ticked,
\* for files of any size, though the part of a file is computed in 32 bits
\* (progress_step, progress_set_fraction).
THEOREM BarTells == Spec => []BarIsTrue
  <1>1. BarInv => BarIsTrue
    BY DEF BarInv, CopySoFar, PackagesSoFar, BootSoFar, FullBar, BarIsTrue, Reset
  <1> QED
    BY BarInit, BarStep, <1>1, PTL DEF Spec

----------------------------------------------------------------------------
(* What is on the drive when the run is done.                              *)

OnDrive == disk[drive].files
Copied == {e \in ToSet(Entries) : Has(e)}
CopiedBefore(i) == {e \in {Entries[j] : j \in 1..(i - 1)} : Has(e)}
Plans == UNION {ToSet(PlanOf[p]) : p \in opts.pkgs}
PlansBefore(i) == UNION {ToSet(PlanOf[Selected[j]]) : j \in 1..(i - 1)}
Plan == PlanOf[Selected[item]]
PlanBefore(i) == {Plan[f] : f \in 1..(i - 1)}

\* The drive holds what the steps made so far have brought.
FilesSoFar ==
    /\ at \in {"logical", "probe"} => OnDrive = {}
    /\ at = "copy" => OnDrive = CopiedBefore(item)
    /\ at = "index" => OnDrive = Copied
    /\ at = "package" =>
           /\ file \in Nat \ {0} /\ (file = 1 \/ file <= Len(Plan))
           /\ OnDrive = Copied \cup PlansBefore(item) \cup PlanBefore(file)
    /\ at = "grub.cfg" => OnDrive = Copied \cup Plans
    /\ at \in {"boot", "core", "kernel"} \/ page = "DONE" => OnDrive = Wanted

DoneInv ==
    /\ BootInv /\ BarInv /\ FilesSoFar
    /\ page \notin {"ERROR", "closed"} => why = "none"
    /\ page = "DONE" => drive \in DriveNumbers /\ Area(drive)[0] = "mbr"

LEMMA SameWanted == UNCHANGED <<opts, medium>> =>
                        UNCHANGED <<Entries, Selected, Copied, Plans, Wanted>>
  BY SameLists DEF Copied, Plans, Wanted, Has

LEMMA WantedIs == Wanted = Copied \cup Plans \cup {"grub.cfg"}
  BY DEF Wanted, Copied, Plans

\* A step that leaves the files of the drive alone.
LEMMA FilesStay ==
    ASSUME DoneInv, BootInv', BarInv', UNCHANGED <<opts, medium, drive, OnDrive>>,
           page' \notin {"ERROR", "closed"} => why' = "none", page' # "DONE",
           \/ at' \notin Shows \cup {"logical", "probe"}
           \/ at = "logical" /\ at' = "probe"
           \/ at \in {"boot", "core", "kernel"} /\ at' \in {"boot", "core", "kernel"}
    PROVE  DoneInv'
  <1>1. UNCHANGED <<Entries, Selected, Copied, Plans, Wanted>>
    BY SameWanted
  <1> QED
    BY <1>1 DEF DoneInv, FilesSoFar, Shows

\* A file is written to the drive of the run.
LEMMA FileAdded ==
    ASSUME DoneInv, at \in Steps \ Before, NEW x, WriteFile(x), drive' = drive
    PROVE  OnDrive' = OnDrive \cup {x}
  <1>1. /\ logical = drive /\ drive \in DriveNumbers /\ DOMAIN disk = DriveNumbers
        /\ DOMAIN disk[drive] = {"erased", "files", "area"}
    BY DEF DoneInv, BootInv, TargetInv, DrivesAgree, DisksOK
  <1>2. disk' = [disk EXCEPT ![drive].files = @ \cup {x}]
    BY <1>1 DEF WriteFile
  <1> QED
    BY <1>1, <1>2 DEF OnDrive

\* A sector leaves the files alone.
LEMMA SectorAdded ==
    ASSUME DoneInv, at \in Steps, NEW l, NEW x, Sector(l, x), drive' = drive
    PROVE  OnDrive' = OnDrive
  <1>1. /\ drive \in DriveNumbers /\ DOMAIN disk = DriveNumbers
        /\ DOMAIN disk[drive] = {"erased", "files", "area"}
    BY DEF DoneInv, BootInv, TargetInv, DrivesAgree, DisksOK
  <1> QED
    BY <1>1 DEF OnDrive, Sector

LEMMA EntryCopied ==
    ASSUME DoneInv, BootInv', BarInv', Copying, NextEntry,
           UNCHANGED <<opts, medium, drive, page, why>>,
           OnDrive' = OnDrive \cup {e \in {Entry} : Has(e)}
    PROVE  DoneInv'
  <1>1. UNCHANGED <<Entries, Selected, Copied, Plans, Wanted>>
    BY SameWanted
  <1>2. /\ at = "copy" /\ item \in 1..Len(Entries) /\ OnDrive = CopiedBefore(item)
        /\ Len(Entries) \in Nat
    BY EntriesAnnounced
       DEF DoneInv, BarInv, PagesInv, CopySoFar, FilesSoFar, Copying
  <1>3. CopiedBefore(item) \cup {e \in {Entry} : Has(e)} = CopiedBefore(item + 1)
    <2>1. \A j \in 1..((item + 1) - 1) : j = item \/ j \in 1..(item - 1)
      BY <1>2
    <2>2. item \in 1..((item + 1) - 1) /\ 1..(item - 1) \subseteq 1..((item + 1) - 1)
      BY <1>2
    <2>3. {Entries[j] : j \in 1..((item + 1) - 1)}
              = {Entries[j] : j \in 1..(item - 1)} \cup {Entries[item]}
      BY <2>1, <2>2
    <2> QED
      BY <2>3 DEF CopiedBefore, Entry
  <1>4. page # "DONE" /\ why = "none"
    <2>1. page \in Running
      BY <1>2, RunningPage DEF DoneInv, BootInv, Steps
    <2> QED
      BY <2>1 DEF DoneInv, Running
  <1>5. item' = item + 1 /\ at' = IF item = Len(Entries) THEN "index" ELSE "copy"
    BY <1>2 DEF NextEntry
  <1>6. CASE item = Len(Entries)
    <2>1. CopiedBefore(item + 1) = Copied
      <3>1. (item + 1) - 1 = Len(Entries)
        BY <1>2, <1>6
      <3> QED
        BY <3>1, <1>2 DEF CopiedBefore, Copied, ToSet
    <2> QED
      BY <1>1, <1>2, <1>3, <1>4, <1>5, <1>6, <2>1 DEF DoneInv, FilesSoFar
  <1>7. CASE item # Len(Entries)
    <2>1. CopiedBefore(item)' = CopiedBefore(item + 1)
      BY <1>1, <1>5 DEF CopiedBefore, Has
    <2> QED
      BY <1>2, <1>3, <1>4, <1>5, <1>7, <2>1 DEF DoneInv, FilesSoFar
  <1> QED
    BY <1>6, <1>7

LEMMA PackageAdded ==
    ASSUME DoneInv, BootInv', BarInv', InstallPackage
    PROVE  DoneInv'
  <1> DEFINE L == Len(Selected)
             last == file = Len(Plan)
  <1>1. /\ at = "package" /\ item \in 1..L /\ OptsOK /\ opts.pkgs # {}
        /\ file \in Nat \ {0} /\ (file = 1 \/ file <= Len(Plan))
        /\ OnDrive = Copied \cup PlansBefore(item) \cup PlanBefore(file)
        /\ why = "none"
    <2>1. at = "package" /\ at \in Steps
      BY DEF InstallPackage, Steps
    <2>2. page \in Running
      BY <2>1, RunningPage DEF DoneInv, BootInv
    <2> QED
      BY <2>1, <2>2
         DEF DoneInv, BarInv, PagesInv, PackagesSoFar, FilesSoFar, SelectionMade, Running
  <1>2. /\ Plan # <<>> /\ WriteFile(Plan[file])
        /\ item' = (IF last THEN item + 1 ELSE item)
        /\ file' = (IF last THEN 1 ELSE file + 1)
        /\ IF last /\ item = L THEN at' = "grub.cfg" /\ page' = "BOOTLOADER"
                               ELSE at' = at /\ page' = page
        /\ UNCHANGED <<why, opts, medium, drive>>
    BY DEF InstallPackage, Plan
  <1>3. /\ Selected \in Seq(STRING) /\ L \in Nat \ {0} /\ ToSet(Selected) = opts.pkgs
    BY <1>1, SelectedSome
  <1>4. Plan \in Seq(STRING) /\ Len(Plan) \in Nat \ {0}
    <2>1. Selected[item] \in ToSet(Packages)
      <3>1. Selected[item] \in ToSet(Selected)
        BY <1>1, <1>3 DEF ToSet
      <3> QED
        BY <1>1, <1>3, <3>1 DEF OptsOK
    <2>2. Plan \in Seq(STRING)
      BY <2>1, NamesAssumption DEF Plan
    <2> QED
      BY <1>2, <2>2
  <1>5. UNCHANGED <<Entries, Selected, Copied, Plans, Wanted>>
    BY <1>2, SameWanted
  <1>6. OnDrive' = Copied \cup PlansBefore(item) \cup PlanBefore(file + 1)
    <2>1. OnDrive' = OnDrive \cup {Plan[file]}
      BY <1>1, <1>2, FileAdded DEF Steps, Before
    <2>2. PlanBefore(file + 1) = PlanBefore(file) \cup {Plan[file]}
      <3>1. \A j \in 1..((file + 1) - 1) : j = file \/ j \in 1..(file - 1)
        BY <1>1
      <3>2. file \in 1..((file + 1) - 1) /\ 1..(file - 1) \subseteq 1..((file + 1) - 1)
        BY <1>1
      <3> QED
        BY <3>1, <3>2 DEF PlanBefore
    <2> QED
      BY <1>1, <2>1, <2>2
  <1>7. page # "DONE" /\ page' # "DONE" /\ page' \notin {"ERROR", "closed"}
    <2>1. page \in Running
      BY <1>1, RunningPage DEF DoneInv, BootInv, Steps
    <2> QED
      BY <1>2, <2>1 DEF Running
  <1>8. CASE ~last
    <2>1. at' = "package" /\ item' = item /\ file' = file + 1 /\ file + 1 <= Len(Plan)
      BY <1>1, <1>2, <1>4, <1>8
    <2>2. /\ Plan' = Plan /\ PlansBefore(item)' = PlansBefore(item)
          /\ PlanBefore(file)' = PlanBefore(file + 1)
      BY <1>5, <2>1 DEF Plan, PlansBefore, PlanBefore
    <2>3. FilesSoFar'
      BY <1>1, <1>5, <1>6, <1>7, <2>1, <2>2 DEF FilesSoFar
    <2> QED
      BY <1>1, <1>2, <1>7, <2>3 DEF DoneInv
  <1>9. CASE last
    <2>1. PlanBefore(file + 1) = ToSet(Plan)
      <3>1. (file + 1) - 1 = Len(Plan)
        BY <1>1, <1>4, <1>9
      <3> QED
        BY <1>4, <3>1 DEF PlanBefore, ToSet
    <2>2. PlansBefore(item) \cup ToSet(Plan) = PlansBefore(item + 1)
      <3>1. \A j \in 1..((item + 1) - 1) : j = item \/ j \in 1..(item - 1)
        BY <1>1
      <3>2. item \in 1..((item + 1) - 1) /\ 1..(item - 1) \subseteq 1..((item + 1) - 1)
        BY <1>1
      <3>3. {ToSet(PlanOf[Selected[j]]) : j \in 1..((item + 1) - 1)} =
                {ToSet(PlanOf[Selected[j]]) : j \in 1..(item - 1)} \cup {ToSet(Plan)}
        BY <3>1, <3>2 DEF Plan
      <3> QED
        BY <3>3 DEF PlansBefore
    <2>3. OnDrive' = Copied \cup PlansBefore(item + 1)
      BY <1>6, <2>1, <2>2
    <2>4. CASE item = L
      <3>1. at' = "grub.cfg"
        BY <1>2, <1>9, <2>4
      <3>2. PlansBefore(item + 1) = Plans
        <4>1. (item + 1) - 1 = Len(Selected)
          BY <1>1, <1>3, <2>4
        <4>2. \A p \in opts.pkgs : \E j \in 1..Len(Selected) : p = Selected[j]
          BY <1>3 DEF ToSet
        <4>3. \A j \in 1..Len(Selected) : Selected[j] \in opts.pkgs
          BY <1>3 DEF ToSet
        <4>4. {ToSet(PlanOf[Selected[j]]) : j \in 1..Len(Selected)} =
                  {ToSet(PlanOf[p]) : p \in opts.pkgs}
          BY <4>2, <4>3
        <4> QED
          BY <4>1, <4>4 DEF PlansBefore, Plans
      <3>3. FilesSoFar'
        BY <1>5, <1>7, <2>3, <3>1, <3>2 DEF FilesSoFar
      <3> QED
        BY <1>1, <1>2, <1>7, <3>3 DEF DoneInv
    <2>5. CASE item # L
      <3>1. at' = "package" /\ item' = item + 1 /\ file' = 1
        BY <1>1, <1>2, <1>9, <2>5
      <3>2. PlansBefore(item)' = PlansBefore(item + 1) /\ PlanBefore(file)' = {}
        <4>1. \A f \in 1..(1 - 1) : FALSE
          OBVIOUS
        <4> QED
          BY <1>5, <3>1, <4>1 DEF PlansBefore, PlanBefore
      <3>3. FilesSoFar'
        BY <1>5, <1>7, <2>3, <3>1, <3>2 DEF FilesSoFar
      <3> QED
        BY <1>1, <1>2, <1>7, <3>3 DEF DoneInv
    <2> QED
      BY <2>4, <2>5
  <1> QED
    BY <1>8, <1>9

\* A step that fails.
LEMMA DoneFails ==
    ASSUME DoneInv, BootInv', BarInv', NEW w, Failed(w)
    PROVE  DoneInv'
  BY DEF DoneInv, FilesSoFar, Failed

LEMMA DoneRun == ASSUME DoneInv, RunStep, BootInv', BarInv' PROVE DoneInv'
  <1>1. UNCHANGED <<opts, medium, drive>> /\ at \in Steps
    BY DEF RunStep, RamPreflight, PrepareDrive, SetLogical, ProbeTarget, CopyAbsent,
           CopyChunk, CopyEnd, CopyRefused, FetchIndex, InstallPackage, WriteGrubCfg,
           BootRefused, WriteMbr, WriteCore, WriteKernel, Copying, Fails, Failed,
           GoesOn, pages, Steps
  <1>2. page \in Running /\ why = "none"
    <2>1. page \in Running
      BY <1>1, RunningPage DEF DoneInv, BootInv
    <2> QED
      BY <2>1 DEF DoneInv, Running
  <1>3. UNCHANGED <<Entries, Selected, Copied, Plans, Wanted>>
    BY <1>1, SameWanted
  <1>4. drive \in DriveNumbers /\ DOMAIN disk = DriveNumbers
    BY <1>1 DEF DoneInv, BootInv, DisksOK, TargetInv, DrivesAgree
  <1>5. CASE RamPreflight \/ SetLogical
    <2>1. /\ disk' = disk /\ page' = page /\ why' = why
          /\ at' = "prepare" \/ (at = "logical" /\ at' = "probe")
      BY <1>5 DEF RamPreflight, SetLogical, GoesOn, pages
    <2> QED
      BY <1>1, <1>2, <2>1, FilesStay DEF OnDrive, Running, Shows
  <1>6. CASE PrepareDrive
    <2>1. CASE GoesOn("logical")
      <3>1. /\ disk' = [disk EXCEPT ![drive] = Erased]
            /\ at' = "logical" /\ page' = page /\ why' = why
        BY <1>6, <2>1 DEF PrepareDrive, GoesOn, pages
      <3>2. OnDrive' = {}
        BY <1>1, <1>4, <3>1 DEF OnDrive, Erased
      <3> QED
        BY <1>2, <3>1, <3>2 DEF DoneInv, FilesSoFar, Running
    <2>2. CASE Failed("io")
      BY <2>2, DoneFails
    <2> QED
      BY <1>6, <2>1, <2>2 DEF PrepareDrive
  <1>7. CASE ProbeTarget
    <2>1. /\ disk' = disk /\ page' = page /\ why' = why
          /\ at = "probe" /\ at' = "copy" /\ item' = 1
      BY <1>7 DEF ProbeTarget, GoesOn, pages
    <2>2. OnDrive' = {}
      BY <1>1, <2>1 DEF DoneInv, FilesSoFar, OnDrive
    <2>3. CopiedBefore(item)' = {}
      <3>1. \A j \in 1..(1 - 1) : FALSE
        OBVIOUS
      <3> QED
        BY <2>1, <3>1 DEF CopiedBefore
    <2> QED
      BY <1>2, <2>1, <2>2, <2>3 DEF DoneInv, FilesSoFar, Running
  <1>8. CASE CopyAbsent
    <2>1. Copying /\ NextEntry /\ UNCHANGED <<page, why, disk>> /\ ~Has(Entry)
      BY <1>8 DEF CopyAbsent, pages
    <2>2. OnDrive' = OnDrive \cup {e \in {Entry} : Has(e)}
      BY <1>1, <2>1 DEF OnDrive
    <2> QED
      BY <1>1, <2>1, <2>2, EntryCopied
  <1>9. CASE CopyChunk
    <2>1. at = "copy" /\ UNCHANGED <<at, item, page, why, disk>>
      BY <1>9 DEF CopyChunk, Copying, pages
    <2>2. CopiedBefore(item)' = CopiedBefore(item) /\ OnDrive' = OnDrive
      BY <1>1, <1>3, <2>1 DEF CopiedBefore, Has, OnDrive
    <2> QED
      BY <1>2, <2>1, <2>2 DEF DoneInv, FilesSoFar, Running
  <1>10. CASE CopyEnd
    <2>1. at = "copy" /\ Copying /\ Has(Entry) /\ UNCHANGED <<page, why>>
      BY <1>10 DEF CopyEnd, Copying, Readable, pages
    <2>2. CASE NextEntry /\ WriteFile(Entry)
      <3>1. OnDrive' = OnDrive \cup {Entry}
        BY <1>1, <2>1, <2>2, FileAdded DEF Steps, Before
      <3>2. OnDrive' = OnDrive \cup {e \in {Entry} : Has(e)}
        BY <2>1, <3>1
      <3> QED
        BY <1>1, <2>1, <2>2, <3>2, EntryCopied
    <2>3. CASE UNCHANGED <<at, item, disk>>
      <3>1. CopiedBefore(item)' = CopiedBefore(item) /\ OnDrive' = OnDrive
        BY <1>1, <1>3, <2>3 DEF CopiedBefore, Has, OnDrive
      <3> QED
        BY <1>2, <2>1, <2>3, <3>1 DEF DoneInv, FilesSoFar, Running
    <2> QED
      BY <1>10, <2>2, <2>3 DEF CopyEnd
  <1>11. CASE CopyRefused \/ BootRefused \/ \E s \in Steps : Fails(s, "io")
    BY <1>11, DoneFails DEF CopyRefused, BootRefused, Fails
  <1>12. CASE FetchIndex
    <2>1. /\ disk' = disk /\ page' = page /\ why' = why
          /\ at = "index" /\ at' = "package" /\ item' = 1 /\ file' = 1
      BY <1>12 DEF FetchIndex, GoesOn, pages
    <2>2. OnDrive' = Copied
      BY <1>1, <2>1 DEF DoneInv, FilesSoFar, OnDrive
    <2>3. PlansBefore(item)' = {} /\ PlanBefore(file)' = {}
      <3>1. \A j \in 1..(1 - 1) : FALSE
        OBVIOUS
      <3> QED
        BY <2>1, <3>1 DEF PlansBefore, PlanBefore
    <2> QED
      BY <1>2, <1>3, <2>1, <2>2, <2>3 DEF DoneInv, FilesSoFar, Running
  <1>13. CASE InstallPackage
    BY <1>13, PackageAdded
  <1>14. CASE WriteGrubCfg
    <2>1. /\ WriteFile("grub.cfg") /\ page' = page /\ why' = why
          /\ at = "grub.cfg" /\ at' = "boot"
      BY <1>14 DEF WriteGrubCfg, GoesOn, pages
    <2>2. OnDrive' = OnDrive \cup {"grub.cfg"}
      BY <1>1, <2>1, FileAdded DEF Steps, Before
    <2>3. OnDrive' = Wanted
      BY <2>1, <2>2, WantedIs DEF DoneInv, FilesSoFar
    <2> QED
      BY <1>2, <1>3, <2>1, <2>3 DEF DoneInv, FilesSoFar, Running
  <1>15. CASE WriteMbr \/ WriteCore
    <2>1. /\ at \in {"boot", "core"} /\ at' \in {"core", "kernel"}
          /\ page' = page /\ why' = why /\ \E l, x : Sector(l, x)
      BY <1>15 DEF WriteMbr, WriteCore, GoesOn, pages
    <2>2. OnDrive' = OnDrive
      BY <1>1, <2>1, SectorAdded
    <2> QED
      BY <1>1, <1>2, <2>1, <2>2, FilesStay DEF Running
  <1>16. CASE WriteKernel
    <2>1. /\ at = "kernel" /\ why' = why /\ Sector(KernelLba + sector, "kernel")
          /\ \/ at' = at /\ page' = page
             \/ at' = "idle" /\ page' = "DONE"
      BY <1>16 DEF WriteKernel
    <2>2. OnDrive' = OnDrive
      BY <1>1, <2>1, SectorAdded
    <2>3. CASE at' = at /\ page' = page
      BY <1>1, <1>2, <2>1, <2>2, <2>3, FilesStay DEF Running
    <2>4. CASE at' = "idle" /\ page' = "DONE"
      <3>1. OnDrive' = Wanted
        BY <2>1, <2>2 DEF DoneInv, FilesSoFar
      <3>2. drive' \in DriveNumbers /\ Area(drive)'[0] = "mbr"
        <4>1. /\ Area(drive)[0] = "mbr" /\ DOMAIN Area(drive) = 0..PartStart
              /\ KernelLba + sector \in 0..PartStart /\ KernelLba + sector # 0
          <5>1. /\ BootFits /\ Area(drive)[0] = "mbr" /\ sector \in Nat
                /\ sector < medium.kernel /\ DisksOK
            BY <2>1 DEF DoneInv, BootInv, KernelSoFar
          <5>2. /\ {KernelLba, PartStart, medium.kernel} \subseteq Nat \ {0}
                /\ KernelLba + medium.kernel < PartStart
            BY <5>1, Layout
          <5> QED
            BY <1>4, <5>1, <5>2 DEF DisksOK
        <4>2. disk'[drive].area = [Area(drive) EXCEPT ![KernelLba + sector] = "kernel"]
          BY <1>4, <2>1, <4>1, SectorInArea DEF DoneInv, BootInv
        <4>3. Area(drive)' = [Area(drive) EXCEPT ![KernelLba + sector] = "kernel"]
          BY <1>1, <4>2 DEF Area
        <4>4. 0 \in 0..PartStart
          BY LayoutAssumption
        <4> QED
          BY <1>1, <1>4, <4>1, <4>3, <4>4
      <3> QED
        BY <1>2, <1>3, <2>1, <2>4, <3>1, <3>2 DEF DoneInv, FilesSoFar
    <2> QED
      BY <2>1, <2>3, <2>4
  <1> QED
    BY <1>5, <1>6, <1>7, <1>8, <1>9, <1>10, <1>11, <1>12, <1>13, <1>14, <1>15, <1>16
       DEF RunStep

LEMMA DoneUser == ASSUME DoneInv, User, BootInv', BarInv' PROVE DoneInv'
  <1>1. at = "idle" /\ why' = why
    BY DEF DoneInv, BootInv, TargetInv, PagesAgree, Early, User, Welcome, MoveDrive,
           SelectDrive, Options, Format, Quit, run
  <1>2. /\ at' \in {"idle", "ram"} /\ page' # "DONE"
        /\ page \in {"ERROR", "closed"} => page' = "closed"
    BY <1>1 DEF User, Welcome, MoveDrive, SelectDrive, Options, Format, Quit, run
  <1> QED
    BY <1>1, <1>2 DEF DoneInv, FilesSoFar

LEMMA DoneStep == DoneInv /\ [Next]_vars => DoneInv'
  <1> SUFFICES ASSUME DoneInv, [Next]_vars PROVE DoneInv'
    OBVIOUS
  <1>1. BootInv' /\ BarInv'
    BY BootStep, BarStep DEF DoneInv
  <1>2. CASE User
    BY <1>1, <1>2, DoneUser
  <1>3. CASE RunStep
    BY <1>1, <1>3, DoneRun
  <1>4. CASE SwitchOff
    <2>1. at' = "off" /\ at \notin {"idle", "off"} /\ UNCHANGED <<page, why>>
      BY <1>4 DEF SwitchOff, pages
    <2>2. page # "DONE"
      BY <2>1 DEF DoneInv, BootInv, TargetInv, PagesAgree, Over
    <2> QED
      BY <1>1, <2>1, <2>2 DEF DoneInv, FilesSoFar
  <1>5. CASE UNCHANGED vars
    <2>1. UNCHANGED <<at, page, item, file, why, disk, drive, opts, medium>>
      BY <1>5 DEF vars, pages, run
    <2>2. UNCHANGED <<Entries, Selected, Copied, Plans, Wanted>>
      BY <2>1, SameWanted
    <2>3. UNCHANGED <<OnDrive, CopiedBefore(item), PlansBefore(item), PlanBefore(file), Plan,
                      Area(drive)>>
      BY <2>1, <2>2 DEF OnDrive, CopiedBefore, PlansBefore, PlanBefore, Plan, Has, Area
    <2>4. FilesSoFar'
      BY <2>1, <2>2, <2>3 DEF DoneInv, FilesSoFar
    <2> QED
      BY <1>1, <2>1, <2>3, <2>4 DEF DoneInv
  <1> QED
    BY <1>2, <1>3, <1>4, <1>5 DEF Next

\* "Install finished successfully" is true, on any medium, with anything
\* ticked: the drive holds all that was asked for and nothing else, and its
\* boot sectors are whole.
THEOREM DoneComplete == Spec => []DoneIsComplete
  <1>1. Init => DoneInv
    BY BootInit, BarInit DEF Init, DoneInv, FilesSoFar
  <1>2. DoneInv => DoneIsComplete
    <2> SUFFICES ASSUME DoneInv, page = "DONE", medium.core < KernelLba
                 PROVE  disk[drive].files = Wanted /\ BootAreaWhole(disk[drive])
      BY DEF DoneIsComplete
    <2>1. at = "idle"
      BY DEF DoneInv, BootInv, TargetInv, PagesAgree, Over
    <2>2. drive \in DriveNumbers /\ disk[drive].area[0] = "mbr" /\ why # "io"
      BY DEF DoneInv, Area
    <2>3. BootAreaWhole(disk[drive])
      BY <2>1, <2>2 DEF DoneInv, BootInv, HalfBootOnlyByFault
    <2>4. disk[drive].files = Wanted
      BY DEF DoneInv, FilesSoFar, OnDrive
    <2> QED
      BY <2>3, <2>4
  <1> QED
    BY <1>1, DoneStep, <1>2, PTL DEF Spec
=============================================================================
