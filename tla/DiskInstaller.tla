---------------------------- MODULE DiskInstaller ----------------------------
(***************************************************************************)
(* packages/installer/installer_uelf.c: the pages of the installer, and    *)
(* run_install, which erases the drive the user has chosen, fills it from  *)
(* the boot medium, installs packages and writes the boot sectors.  Every  *)
(* step of it may fail, and the machine may be switched off between two.   *)
(* File calls go to the logical drive of the kernel; erasing a drive and   *)
(* writing sectors name their drive.                                       *)
(***************************************************************************)
EXTENDS Integers, Sequences, FiniteSetsExt, SequencesExt

CONSTANTS
    DriveList,      \* the numbers of the drives that are present, in order
    Packages,       \* the packages of base.manifest, in order
    PlanOf,         \* what resolve_install_plan returns for each: <<>> if it fails
    Fonts,          \* the font files of the medium, in order
    VisibleRows,    \* INSTALLER_OPTION_VISIBLE_ROWS
    Media,          \* boot media: what each lacks, and the sizes in sectors of
                    \* its core.img and kernel
    KernelLba,      \* KERNEL_RAW_LBA
    CoreLimit,      \* 2048: core.img must be shorter
    PartStart,      \* first sector of the first partition
    TreeFiles,      \* files in a directory that is copied
    SizeOf,         \* the size of a copied file, in chunks
    Word            \* 2^32, the modulus of a uint32_t

\* prepare_drive and the two limits of the code agree on where the first
\* partition starts.
ASSUME LayoutAssumption ==
    /\ {KernelLba, CoreLimit, PartStart, VisibleRows, TreeFiles, Word} \subseteq Nat \ {0}
    /\ KernelLba < PartStart /\ CoreLimit = PartStart
    /\ \A m \in Media : {m.core, m.kernel} \subseteq Nat \ {0}
    /\ DriveList \in Seq(Nat)

\* The names of packages and fonts.
ASSUME NamesAssumption ==
    /\ {Packages, Fonts} \subseteq Seq(STRING)
    /\ PlanOf \in [ToSet(Packages) -> Seq(STRING)]

VARIABLES
    page,       \* step
    idx,        \* selected_idx
    drive,      \* selected_drive
    loaded,     \* options_loaded
    opts,       \* what is ticked on the options page
    cursor, scroll,
    at,         \* where run_install is
    item, file, copied,   \* the entry being copied, which file of it, chunks of that
    sector,     \* sectors written of what is being written
    bar,        \* the progress bar
    why,        \* what ended the run
    medium,     \* the boot medium
    logical,    \* the logical drive
    disk

pages == <<page, idx, drive, loaded, opts, cursor, scroll>>
run == <<at, item, file, copied, sector, bar, why>>
vars == <<pages, run, medium, logical, disk>>

NoDrive == 99
Ram == 98
DriveNumbers == ToSet(DriveList)
Has(x) == x \notin medium.lacks
FontList == IF Has("fonts") THEN Fonts ELSE <<>>

\* Sectors 0 to PartStart of a drive; the last stands for the file system.
Old == [erased |-> FALSE, files |-> {}, area |-> [l \in 0..PartStart |-> "old"]]
Erased ==
    [erased |-> TRUE, files |-> {},
     area |-> [l \in 0..PartStart |-> IF l = PartStart THEN "fs" ELSE "blank"]]

Init ==
    /\ page = "WELCOME" /\ idx = 1 /\ drive = NoDrive /\ loaded = FALSE
    /\ opts = [pkgs |-> {}, icons |-> FALSE, fonts |-> FALSE, which |-> {},
               chibicc |-> FALSE]
    /\ cursor = 0 /\ scroll = 0
    /\ at = "idle" /\ item = 1 /\ file = 1 /\ copied = 0 /\ sector = 0
    /\ bar = [total |-> 0, done |-> 0, permille |-> 0] /\ why = "none"
    /\ medium \in Media
    /\ logical \in DriveNumbers \cup {Ram}
    /\ disk = [d \in DriveNumbers |-> Old]

----------------------------------------------------------------------------
(* The options page: a row for each package, for the icons, for the fonts, *)
(* for each font while fonts are on, for the compiler, and to go on.       *)

IconsRow == Len(Packages)
FontsRow == Len(Packages) + 1
FirstFont == Len(Packages) + 2
ChibiccRow(o) == FirstFont + (IF o.fonts THEN Len(FontList) ELSE 0)
ContinueRow(o) == ChibiccRow(o) + 1
Rows(o) == ContinueRow(o) + 1

\* Mutated form: the row below the last visible one counts as visible.
Visible_OffByOne(o, c, s) ==
    LET c1 == Min({Max({c, 0}), Rows(o) - 1})
        s1 == Min({Max({s, 0}), c1})
        s2 == IF c1 > s1 + VisibleRows THEN c1 - VisibleRows + 1 ELSE s1
    IN  <<c1, Min({s2, Max({Rows(o) - VisibleRows, 0})})>>

\* options_ensure_cursor_visible
Visible(o, c, s) ==
    LET c1 == Min({Max({c, 0}), Rows(o) - 1})
        s1 == Min({Max({s, 0}), c1})
        s2 == IF c1 >= s1 + VisibleRows THEN c1 - VisibleRows + 1 ELSE s1
    IN  <<c1, Min({s2, Max({Rows(o) - VisibleRows, 0})})>>

\* The elements of s that are in S, in order.
Picked(s, S) ==
    LET upTo[n \in 0..Len(s)] ==
            IF n = 0 THEN <<>>
            ELSE IF s[n] \in S THEN Append(upTo[n - 1], s[n]) ELSE upTo[n - 1]
    IN  upTo[Len(s)]

Flip(S, x) == IF x \in S THEN S \ {x} ELSE S \cup {x}

\* toggle_option_row
Toggled(o, row) ==
    CASE row < Len(Packages) -> [o EXCEPT !.pkgs = Flip(@, Packages[row + 1])]
      [] row = IconsRow -> [o EXCEPT !.icons = ~@]
      [] row = FontsRow -> [o EXCEPT !.fonts = ~@ /\ FontList # <<>>]
      [] row >= FirstFont /\ row < ChibiccRow(o) ->
             [o EXCEPT !.which = Flip(@, FontList[row - FirstFont + 1])]
      [] row = ChibiccRow(o) -> [o EXCEPT !.chibicc = ~@]
      [] OTHER -> o

\* toggle_all_packages
AllToggled(o) ==
    [o EXCEPT !.pkgs = IF @ = ToSet(Packages) THEN {} ELSE ToSet(Packages)]

----------------------------------------------------------------------------
(* Keys.  Letters and Enter are told by the low byte of a key code, so     *)
(* F10 and Ctrl+Y (0x..0A) and Ctrl+N (0x210D) are Enter as well.          *)

Keys == {"up", "down", "Enter", "Ctrl+Y", "space", "a", "b", "i"}
IsEnter(k) == k \in {"Enter", "Ctrl+Y"}

Welcome(k) ==
    /\ page = "WELCOME" /\ IsEnter(k)
    /\ page' = "SELECT_DRIVE"
    /\ UNCHANGED <<idx, drive, loaded, opts, cursor, scroll, run, medium, logical, disk>>

MoveDrive(k) ==
    /\ page = "SELECT_DRIVE"
    /\ \/ k = "up" /\ idx > 1 /\ idx' = idx - 1
       \/ k = "down" /\ idx < Len(DriveList) /\ idx' = idx + 1
    /\ UNCHANGED <<page, drive, loaded, opts, cursor, scroll, run, medium, logical, disk>>

\* The options are read from the medium the first time.
SelectDrive(k) ==
    /\ page = "SELECT_DRIVE" /\ IsEnter(k) /\ DriveList # <<>>
    /\ drive' = DriveList[idx]
    /\ \/ /\ loaded \/ Has("manifest")
          /\ page' = "OPTIONS" /\ loaded' = TRUE
          /\ IF loaded THEN UNCHANGED <<opts, cursor, scroll>>
             ELSE /\ opts' = [pkgs |-> ToSet(Packages), icons |-> TRUE,
                              fonts |-> FALSE, which |-> ToSet(FontList),
                              chibicc |-> FALSE]
                  /\ cursor' = 0 /\ scroll' = 0
       \/ ~loaded /\ page' = "ERROR" /\ UNCHANGED <<loaded, opts, cursor, scroll>>
    /\ UNCHANGED <<idx, run, medium, logical, disk>>

Options(k) ==
    /\ page = "OPTIONS"
    /\ LET c == cursor + (IF k = "up" /\ cursor > 0 THEN -1
                          ELSE IF k = "down" /\ cursor + 1 < Rows(opts) THEN 1 ELSE 0)
           pick == IsEnter(k) \/ k = "space"
           goOn == k = "i" \/ (pick /\ cursor = ContinueRow(opts))
           o == IF k = "a" THEN AllToggled(opts)
                ELSE IF pick THEN Toggled(opts, cursor) ELSE opts
       IN  /\ opts' = o
           /\ cursor' = Visible(o, c, scroll)[1]
           /\ scroll' = Visible(o, c, scroll)[2]
           /\ page' = IF k = "b" THEN "SELECT_DRIVE"
                      ELSE IF goOn /\ o.pkgs # {} THEN "FORMAT" ELSE page
    /\ UNCHANGED <<idx, drive, loaded, run, medium, logical, disk>>

Format(k) ==
    /\ page = "FORMAT" /\ IsEnter(k)
    /\ page' = "COPY" /\ at' = "ram"
    /\ UNCHANGED <<idx, drive, loaded, opts, cursor, scroll>>
    /\ UNCHANGED <<item, file, copied, sector, bar, why, medium, logical, disk>>

\* Q, or the window is closed.
Quit ==
    /\ at = "idle" /\ page # "closed" /\ page' = "closed"
    /\ UNCHANGED <<idx, drive, loaded, opts, cursor, scroll, run, medium, logical, disk>>

User ==
    \/ \E k \in Keys : Welcome(k) \/ MoveDrive(k) \/ SelectDrive(k) \/ Options(k)
                       \/ Format(k)
    \/ Quit

----------------------------------------------------------------------------
(* The progress bar.                                                       *)

Reset(total) == [total |-> total, done |-> 0, permille |-> 0]

\* progress_step
Stepped(b) ==
    LET d == Min({b.done + 1, b.total})
    IN  [b EXCEPT !.done = d, !.permille = Min({(d * 1000) \div b.total, 1000})]

\* progress_set_fraction, in 32 bits; the bar does not go back.
Within(b, n, total) ==
    LET entry == Min({((n * 1000) % Word) \div total, 999})
        all == Min({(b.done * 1000 + entry) \div b.total, 1000})
    IN  [b EXCEPT !.permille = Max({@, all})]

----------------------------------------------------------------------------
(* run_install: the drive.                                                 *)

Failed(w) ==
    /\ page' = "ERROR" /\ at' = "idle" /\ why' = w
    /\ UNCHANGED <<item, file, copied, sector, bar>>

Fails(step, w) ==
    /\ at = step /\ Failed(w)
    /\ UNCHANGED <<idx, drive, loaded, opts, cursor, scroll, medium, logical, disk>>

\* The run goes on to where, and nothing on the way shows on the pages.
GoesOn(where) == at' = where /\ UNCHANGED <<why, pages, medium>>

\* What is looked for before the drive is touched.
Checked == {"installer", "install", "extract", "manifest", "resolv", "config", "view"}

RamPreflight ==
    /\ at = "ram" /\ Checked \cap medium.lacks = {}
    /\ GoesOn("prepare")
    /\ bar' = [total |-> 100, done |-> 0, permille |-> 30]
    /\ UNCHANGED <<item, file, copied, sector, logical, disk>>

\* The kernel partitions and formats the drive; it may fail before or half way.
PrepareDrive ==
    /\ at = "prepare"
    /\ disk' = [disk EXCEPT ![drive] = Erased]
    /\ \/ GoesOn("logical") /\ bar' = [bar EXCEPT !.permille = 80]
          /\ UNCHANGED <<item, file, copied, sector>>
       \/ Failed("io") /\ UNCHANGED <<idx, drive, loaded, opts, cursor, scroll, medium>>
    /\ UNCHANGED logical

\* Mutated form: that the drive was not switched goes unnoticed.
SetLogical_Unchecked ==
    /\ at = "logical" /\ GoesOn("probe")
    /\ logical' \in {drive, logical}
    /\ UNCHANGED <<item, file, copied, sector, bar, disk>>

SetLogical ==
    /\ at = "logical" /\ GoesOn("probe")
    /\ logical' = drive
    /\ UNCHANGED <<item, file, copied, sector, bar, disk>>

Seeded(o) == Picked(FontList, o.which)

\* Mutated form: the icons count as one entry.
SeedTotal_OneForIcons ==
    10 + (IF opts.icons THEN 1 ELSE 0)
       + (IF opts.fonts THEN Len(Seeded(opts)) ELSE 0)
       + (IF opts.chibicc THEN 1 ELSE 0)

\* The entries announced: 7 and system_seed_steps.
SeedTotal ==
    10 + (IF opts.icons THEN 2 ELSE 0)
       + (IF opts.fonts THEN Len(Seeded(opts)) ELSE 0)
       + (IF opts.chibicc THEN 1 ELSE 0)

\* A file is written to the target and removed again, then the copying starts.
ProbeTarget ==
    /\ at = "probe" /\ GoesOn("copy")
    /\ bar' = Reset(SeedTotal) /\ item' = 1 /\ file' = 1 /\ copied' = 0
    /\ UNCHANGED <<sector, logical, disk>>

----------------------------------------------------------------------------
(* run_install: files and packages.                                        *)

NoFont == "no font"

Always ==
    <<"install", "extract", "installer", "kernel", "index", "base", "manifest",
      "resolv", "config", "view">>
Icons == <<"icons", "icons16">>

ASSUME SizesAssumption ==
    \A e \in ToSet(Always \o Icons \o Fonts \o <<"chibicc">>) : SizeOf[e] \in Nat

\* What is copied, in order.  Fonts without a font are an error there.
Entries ==
    Always
    \o (IF opts.icons THEN Icons ELSE <<>>)
    \o (IF ~opts.fonts THEN <<>>
        ELSE IF Seeded(opts) = <<>> THEN <<NoFont>> ELSE Seeded(opts))
    \o (IF opts.chibicc THEN <<"chibicc">> ELSE <<>>)

Optional == {"index", "base"}
Trees == {"config", "view", "icons", "icons16"}
Files(e) == IF e \in Trees THEN TreeFiles ELSE 1
Readable(e) == e # NoFont /\ Has(e)

Copying == at = "copy" /\ item <= Len(Entries)
Entry == Entries[item]
WriteFile(x) == disk' = [disk EXCEPT ![logical].files = @ \cup {x}]

NextEntry ==
    /\ item' = item + 1 /\ file' = 1 /\ copied' = 0 /\ bar' = Stepped(bar)
    /\ at' = IF item = Len(Entries) THEN "index" ELSE at

CopyAbsent ==
    /\ Copying /\ Entry \in Optional /\ ~Has(Entry)
    /\ NextEntry
    /\ UNCHANGED <<sector, why, pages, medium, logical, disk>>

CopyChunk ==
    /\ Copying /\ Readable(Entry) /\ copied < SizeOf[Entry]
    /\ copied' = copied + 1
    /\ bar' = Within(bar, copied + 1, SizeOf[Entry])
    /\ UNCHANGED <<at, item, file, sector, why, pages, medium, logical, disk>>

\* A file is closed; the last of an entry completes it.
CopyEnd ==
    /\ Copying /\ Readable(Entry) /\ copied = SizeOf[Entry]
    /\ IF file < Files(Entry)
       THEN file' = file + 1 /\ copied' = 0 /\ UNCHANGED <<at, item, bar, disk>>
       ELSE NextEntry /\ WriteFile(Entry)
    /\ UNCHANGED <<sector, why, pages, medium, logical>>

CopyRefused ==
    /\ Copying /\ ~Readable(Entry) /\ Entry \notin Optional
    /\ Fails("copy", "refused")

Selected == Picked(Packages, opts.pkgs)

\* From the network, or from the copy that was just made.
FetchIndex ==
    /\ at = "index" /\ GoesOn("package")
    /\ bar' = Reset(Len(Selected)) /\ item' = 1 /\ file' = 1
    /\ UNCHANGED <<copied, sector, logical, disk>>

\* The next package of the plan of the next one selected.
InstallPackage ==
    /\ at = "package"
    /\ LET plan == PlanOf[Selected[item]]
           last == file = Len(plan)
       IN  /\ plan # <<>>
           /\ WriteFile(plan[file])
           /\ item' = IF last THEN item + 1 ELSE item
           /\ file' = IF last THEN 1 ELSE file + 1
           /\ IF last /\ item = Len(Selected)
              THEN at' = "grub.cfg" /\ page' = "BOOTLOADER" /\ bar' = Reset(3)
              ELSE /\ bar' = IF last THEN Stepped(bar) ELSE bar
                   /\ UNCHANGED <<at, page>>
    /\ UNCHANGED <<copied, sector, why, medium, logical>>
    /\ UNCHANGED <<idx, drive, loaded, opts, cursor, scroll>>

WriteGrubCfg ==
    /\ at = "grub.cfg" /\ GoesOn("boot")
    /\ WriteFile("grub.cfg") /\ bar' = Stepped(bar)
    /\ UNCHANGED <<item, file, copied, sector, logical>>

----------------------------------------------------------------------------
(* install_mbr_boot_code.                                                  *)

Sector(l, x) == disk' = [disk EXCEPT ![drive].area[l] = x]

\* Mutated form: where the partition starts is not asked.
BootFits_AnyKernel == Has("grub") /\ medium.core < CoreLimit

BootFits ==
    /\ Has("grub") /\ medium.core < CoreLimit
    /\ KernelLba + medium.kernel < PartStart

BootRefused == ~BootFits /\ Fails("boot", "refused")

\* Mutated form: the first sector is written before the checks.
WriteMbr_First ==
    /\ at = "boot"
    /\ Sector(0, "mbr")
    /\ IF BootFits
       THEN GoesOn("core") /\ sector' = 0 /\ UNCHANGED <<item, file, copied, bar>>
       ELSE Failed("refused") /\ UNCHANGED <<idx, drive, loaded, opts, cursor, scroll, medium>>
    /\ UNCHANGED logical

WriteMbr ==
    /\ at = "boot" /\ BootFits /\ GoesOn("core")
    /\ Sector(0, "mbr") /\ sector' = 0
    /\ UNCHANGED <<item, file, copied, bar, logical>>

WriteCore ==
    /\ at = "core"
    /\ Sector(1 + sector, "core")
    /\ IF sector + 1 = medium.core THEN GoesOn("kernel") /\ sector' = 0
                                   ELSE GoesOn("core") /\ sector' = sector + 1
    /\ UNCHANGED <<item, file, copied, bar, logical>>

WriteKernel ==
    /\ at = "kernel"
    /\ Sector(KernelLba + sector, "kernel")
    /\ sector' = sector + 1
    /\ IF sector + 1 < medium.kernel
       THEN UNCHANGED <<at, page, bar>>
       ELSE /\ at' = "idle" /\ page' = "DONE"
            /\ bar' = [Stepped(Stepped(bar)) EXCEPT !.permille = 1000]
    /\ UNCHANGED <<item, file, copied, why, medium, logical>>
    /\ UNCHANGED <<idx, drive, loaded, opts, cursor, scroll>>

Steps == {"ram", "prepare", "logical", "probe", "copy", "index", "package", "grub.cfg",
          "boot", "core", "kernel"}

RunStep ==
    \/ RamPreflight \/ PrepareDrive \/ SetLogical \/ ProbeTarget
    \/ CopyAbsent \/ CopyChunk \/ CopyEnd \/ CopyRefused
    \/ FetchIndex \/ InstallPackage \/ WriteGrubCfg
    \/ BootRefused \/ WriteMbr \/ WriteCore \/ WriteKernel
    \/ \E s \in Steps : Fails(s, "io")

SwitchOff ==
    /\ at \notin {"idle", "off"} /\ at' = "off"
    /\ UNCHANGED <<pages, item, file, copied, sector, bar, why, medium, logical, disk>>

Next == User \/ RunStep \/ SwitchOff

Spec == Init /\ [][Next]_vars

----------------------------------------------------------------------------
(* Properties.                                                             *)

\* Nothing is written to a drive other than the one the format page named,
\* and to that one only after that page, though files go to whatever is the
\* logical drive (run_install, eyn_sys_drive_set_logical).
OnlyTheTarget ==
    \A d \in DriveNumbers : disk[d] # Old =>
        d = drive /\ (at # "idle" \/ page \in {"DONE", "ERROR", "closed"})

Wanted ==
    {e \in ToSet(Entries) : Has(e)}
    \cup (UNION {ToSet(PlanOf[p]) : p \in opts.pkgs}) \cup {"grub.cfg"}

BootAreaWhole(d) ==
    /\ d.area[0] = "mbr" /\ d.area[PartStart] = "fs"
    /\ \A l \in 1..medium.core : d.area[l] = "core"
    /\ \A l \in KernelLba..(KernelLba + medium.kernel - 1) : d.area[l] = "kernel"

\* "Install finished successfully" is true: all that was ticked is on the
\* drive and nothing else, and master boot record, core and kernel are whole
\* and clear of each other and of the file system.  A core that reaches the
\* kernel's sector (KERNEL_RAW_LBA, half of what the size check admits) is
\* left out: the kernel is written over its end.
DoneIsComplete ==
    page = "DONE" /\ medium.core < KernelLba =>
        disk[drive].files = Wanted /\ BootAreaWhole(disk[drive])

\* A drive that carries the boot record and not all that it loads was cut short
\* by a failing step or the power: nothing is refused, and nothing forgotten,
\* once that record is written (install_mbr_boot_code).
HalfBootOnlyByFault ==
    \A d \in DriveNumbers :
        disk[d].area[0] = "mbr" /\ at = "idle" /\ why # "io"
            /\ medium.core < KernelLba => BootAreaWhole(disk[d])

\* The bar is full exactly when the work it counts is done: the entries
\* announced are those that are copied, whatever is ticked, and no part of an
\* entry shows as the whole (progress_set_fraction).  Fonts without a font are
\* no entry: the run may end there with a full bar.
BarIsTrue ==
    /\ at \in {"package", "grub.cfg", "boot", "core", "kernel"}
       \/ (at = "copy" /\ Entry # NoFont) => bar.permille < 1000
    /\ at = "index" \/ page = "DONE" => bar.permille = 1000

\* The row that Enter acts on is on the screen, and no row is left out below
\* an empty line (options_ensure_cursor_visible).
CursorShown ==
    page = "OPTIONS" =>
        /\ cursor \in 0..(Rows(opts) - 1)
        /\ cursor \in scroll..(scroll + VisibleRows - 1)
        /\ scroll > 0 => scroll + VisibleRows <= Rows(opts)
=============================================================================
