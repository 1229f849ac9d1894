--------------------------- MODULE PackageInstall ---------------------------
(***************************************************************************)
(* The install program of packages/install: one run loads the package      *)
(* index (install_uelf.c, index.c), then installs the plan of each name it *)
(* is asked for, in order (install_apply_plan, install_package), writing   *)
(* files in place.  The program may crash between any two steps, the       *)
(* network, a write or an extraction may fail, and the server publishes    *)
(* new versions at any time.  The plan is any that PlanPromise allows.     *)
(***************************************************************************)
EXTENDS Integers, Sequences, FiniteSets

CONSTANTS
    Packages,     \* the packages of the index
    Depends,      \* the dependency list of each
    Archives,     \* those whose url is an archive; others are one binary
    System,       \* archives that may come from the cache /cache/pkg
    InBinaries,   \* those with install_dir /binaries
    Legacy,       \* archives that hold the binary under the package name,
                  \* not under the install_name of the index
    Extras,       \* archives that also hold a data file
    BaseVersion,  \* version in /cache/base.pkg, 0 when there is no such file
    Commands,     \* "install", "update", "updateAll", "remove", "check"
    ScanMayFail,  \* /binaries may not open
    MaxVersion, MaxRuns, MaxCrashes   \* bounds

ASSUME PackagesAssumption ==
    /\ IsFiniteSet(Packages)
    /\ Depends \in [Packages -> Seq(Packages)]
    /\ Archives \subseteq Packages /\ InBinaries \subseteq Packages
    /\ System \subseteq Archives /\ Legacy \subseteq Archives
    /\ Extras \subseteq Archives
ASSUME LimitsAssumption ==
    /\ MaxVersion \in Nat \ {0} /\ MaxRuns \in Nat /\ MaxCrashes \in Nat
    /\ BaseVersion \in 0..MaxVersion
    /\ ScanMayFail \in BOOLEAN

VARIABLES
    remote,    \* version of each package the server publishes
    indexFile, \* /cache/index.json: the index it holds, or none that parses
    disk,      \* the files of each package
    tmp,       \* /tmp/install-<name>.pkg: -1 none, 0 damaged, or a version
    cache,     \* /cache/pkg/<name>.pkg, likewise
    pc, cmd, roots, index, local, scanned, seeded, \* the running program
    plan, at, source, todo, writing,   \* its plan and the package it is at
    result,    \* of the last run
    published, \* history: every index the server has published
    installed, \* history: packages this plan has installed
    torn,      \* history: files a crash left half written
    leftover,  \* history: packages a crash left an archive of in /tmp
    runs, crashes

world == <<remote, published>>
files == <<indexFile, disk, tmp, cache>>
job == <<cmd, roots, index, seeded>>
step == <<plan, at, local, scanned, installed>>
copying == <<source, todo, writing>>
bounds == <<runs, crashes>>
history == <<torn, leftover>>
vars == <<world, files, job, step, copying, bounds, history, pc, result>>

Versions == 1..MaxVersion
Snapshots == [Packages -> Versions]

\* A file as pkgmeta reads it: the version its metadata names, 0 when it has
\* none; and whether all of it was written.
File == [ver : -1..MaxVersion, whole : BOOLEAN]
Absent == [ver |-> -1, whole |-> FALSE]
Whole(v) == [ver |-> v, whole |-> TRUE]
Partial(v) == {[ver |-> u, whole |-> FALSE] : u \in {0, v}}

\* "main" is install_dir/install_name, "legacy" install_dir/name.
Slots == {"main", "legacy", "data"}
Contents(p) == {IF p \in Legacy THEN "legacy" ELSE "main"}
               \cup (IF p \in Extras THEN {"data"} ELSE {})

Newest(a, b) == IF a > b THEN a ELSE b

\* The version local_packages_scan finds for a package: the newest of the
\* files in /binaries that name it; one without metadata goes by file name.
Found(p) ==
    LET main == disk[p]["main"].ver
    IN  IF p \notin InBinaries THEN -1
        ELSE IF p \in Legacy
        THEN Newest(disk[p]["legacy"].ver, IF main = 0 THEN -1 ELSE main)
        ELSE main

Scan == [p \in Packages |-> Found(p)]
Nothing == [p \in Packages |-> -1]

PCs == {"idle", "network", "cachedFirst", "networkLast", "storeIndex",
        "fillIndex", "resolve", "pkg", "cached", "hash", "archive", "fetch",
        "extract", "payload", "copy"}

Sound(p) == [s \in Slots |-> IF s \in {"main"} \cup (Contents(p) \ {"legacy"})
                             THEN Whole(1) ELSE Absent]

Init ==
    /\ remote = [p \in Packages |-> 1]
    /\ published = {remote}
    /\ indexFile \in {{}, {remote}}
    /\ disk \in {d \in [Packages -> [Slots -> {Absent, Whole(1)}]] :
                    \A p \in Packages :
                        d[p] \in {Sound(p), [s \in Slots |-> Absent]}}
    /\ tmp = Nothing /\ cache = Nothing
    /\ pc = "idle" /\ cmd = "install" /\ roots = {} /\ index = remote
    /\ local = Nothing /\ scanned = TRUE /\ seeded = FALSE
    /\ plan = <<>> /\ at = 1 /\ source = "tmp" /\ todo = {} /\ writing = {}
    /\ result = "none"
    /\ installed = {} /\ torn = {} /\ leftover = {}
    /\ runs = 0 /\ crashes = 0

----------------------------------------------------------------------------
(* The server, and a crash.                                                *)

Publish(p) ==
    /\ remote[p] < MaxVersion
    /\ remote' = [remote EXCEPT ![p] = @ + 1]
    /\ published' = published \cup {remote'}
    /\ UNCHANGED <<files, job, step, copying, bounds, history, pc, result>>

Now == plan[at]   \* the package the plan is at

Crash ==
    /\ pc # "idle" /\ crashes < MaxCrashes
    /\ crashes' = crashes + 1
    /\ pc' = "idle" /\ result' = "crashed"
    /\ torn' = torn \cup {<<Now, s>> : s \in writing}
    /\ leftover' = IF pc \in {"fetch", "extract", "payload", "copy"}
                   THEN leftover \cup {Now} ELSE leftover
    /\ writing' = {} /\ todo' = {}
    /\ cache' \in {cache} \cup
           (IF pc = "cached" /\ cache[Now] = -1 /\ ~seeded /\ BaseVersion > 0
            THEN {[cache EXCEPT ![p] = 0] : p \in System} ELSE {})
    /\ UNCHANGED <<world, indexFile, disk, tmp, job, step, source, runs>>

----------------------------------------------------------------------------
(* main, and the index.                                                    *)

Ends(how) ==
    /\ result' = how
    /\ pc' = "idle"

\* One command line, up to the first look at the index.
Begin ==
    /\ pc = "idle" /\ runs < MaxRuns
    /\ \/ /\ "install" \in Commands /\ cmd' = "install" /\ pc' = "network"
          /\ \E p \in Packages : roots' = {p}
       \/ /\ "update" \in Commands /\ cmd' = "update" /\ pc' = "cachedFirst"
          /\ \E p \in Packages : Found(p) # -1 /\ roots' = {p}
       \/ /\ "updateAll" \in Commands /\ cmd' = "updateAll"
          /\ roots' = {p \in Packages : Found(p) # -1}
          /\ roots' # {} /\ pc' = "cachedFirst"
       \/ /\ "check" \in Commands /\ cmd' = "check"
          /\ roots' = {} /\ pc' = "cachedFirst"
    /\ runs' = runs + 1
    /\ seeded' = FALSE
    /\ result' = "none"
    /\ plan' = <<>> /\ at' = 1 /\ installed' = {}
    /\ UNCHANGED <<world, files, index, local, scanned, copying, crashes,
                   history>>

\* --remove unlinks the file the scan chose for the name.
Remove(p) ==
    /\ pc = "idle" /\ runs < MaxRuns /\ "remove" \in Commands
    /\ Found(p) # -1
    /\ \E s \in {"main", "legacy"} :
           /\ disk[p][s].ver = Found(p)
           /\ disk' = [disk EXCEPT ![p][s] = Absent]
           /\ torn' = torn \ {<<p, s>>}
    /\ runs' = runs + 1
    /\ result' = "removed"
    /\ UNCHANGED <<world, indexFile, tmp, cache, job, step, copying, crashes,
                   leftover, pc>>

\* The network index; one that does not parse is no index.
Network ==
    /\ pc \in {"network", "networkLast"}
    /\ \/ index' = remote /\ pc' = "storeIndex" /\ UNCHANGED result
       \/ /\ UNCHANGED index
          /\ IF pc = "network" THEN pc' = "cachedFirst" /\ UNCHANGED result
                               ELSE Ends("failed")
    /\ UNCHANGED <<world, files, cmd, roots, seeded, step, copying, bounds,
                   history>>

AfterIndex == IF cmd = "check" THEN Ends("ok")
                               ELSE pc' = "resolve" /\ UNCHANGED result

\* index_fetch_and_parse: the cached index if it parses, however old.
CachedFirst ==
    /\ pc = "cachedFirst"
    /\ \/ index' \in indexFile /\ AfterIndex
       \/ indexFile = {} /\ pc' = "networkLast" /\ UNCHANGED <<index, result>>
    /\ UNCHANGED <<world, files, cmd, roots, seeded, step, copying, bounds,
                   history>>

\* idx_try_write_local_cache: truncated, then filled, or unlinked.
StoreIndex ==
    /\ pc = "storeIndex"
    /\ \/ indexFile' = {} /\ pc' = "fillIndex" /\ UNCHANGED result
       \/ UNCHANGED indexFile /\ AfterIndex    \* it does not open
    /\ UNCHANGED <<world, disk, tmp, cache, job, step, copying, bounds,
                   history>>

FillIndex ==
    /\ pc = "fillIndex"
    /\ indexFile' \in {{index}, {}}
    /\ AfterIndex
    /\ UNCHANGED <<world, disk, tmp, cache, job, step, copying, bounds,
                   history>>

----------------------------------------------------------------------------
(* install_apply_plan.                                                     *)

Promise == INSTANCE PlanPromise
    WITH Names <- Packages, deps <- Depends, root <- Now, result <- "none"
Plans(r) == {p \in Promise!Orders : Promise!IsPlan(Depends, r, p)}

\* install_scan_local: a scan that fails finds nothing.
Rescan(d) ==
    \/ scanned' = TRUE /\ local' = d
    \/ ScanMayFail /\ scanned' = FALSE /\ local' = Nothing

Resolve ==
    /\ pc = "resolve"
    /\ \E r \in roots :
           /\ roots' = roots \ {r}
           /\ plan' \in Plans(r)
    /\ Rescan(Scan)
    /\ at' = 1
    /\ installed' = {}
    /\ pc' = "pkg"
    /\ UNCHANGED <<world, files, cmd, index, seeded, copying, bounds, history,
                   result>>

InPlan == pc = "pkg" /\ at <= Len(plan)

PlanDone ==
    /\ pc = "pkg" /\ at > Len(plan)
    /\ IF roots = {} THEN Ends("ok") ELSE pc' = "resolve" /\ UNCHANGED result
    /\ UNCHANGED <<world, files, job, step, copying, bounds, history>>

\* Mutated form: any installed version is good enough.
UpToDate_Present(p) == local[p] # -1

\* Mutated form: a version that differs is installed, newer or not.
UpToDate_Same(p) == local[p] = index[p]

UpToDate(p) == local[p] # -1 /\ local[p] >= index[p]

\* Mutated form: the loop does not move on.
Skip_Stays ==
    /\ InPlan /\ UpToDate(Now)
    /\ UNCHANGED vars

Skip ==
    /\ InPlan /\ UpToDate(Now)
    /\ at' = at + 1
    /\ UNCHANGED <<world, files, job, plan, local, scanned, installed, copying,
                   bounds, history, pc, result>>

\* install_package up to its choice of a source; the user or the directory
\* may refuse.
Prepare ==
    /\ InPlan /\ ~UpToDate(Now)
    /\ \/ Ends("failed")
       \/ /\ pc' = IF Now \in System THEN "cached" ELSE "archive"
          /\ UNCHANGED result
    /\ UNCHANGED <<world, files, job, step, copying, bounds, history>>

\* install_package returns 0: count it and scan again.
Installed ==
    /\ installed' = installed \cup {Now}
    /\ at' = at + 1
    /\ pc' = "pkg"
    /\ UNCHANGED <<plan, result>>

----------------------------------------------------------------------------
(* install_package: where the archive or the binary comes from.            *)

\* Once per run, the base archive fills a cache that lacks this package.
SeedCache ==
    /\ pc = "cached"
    /\ \/ /\ cache[Now] = -1 /\ ~seeded
          /\ seeded' = TRUE
          /\ IF BaseVersion = 0 THEN UNCHANGED cache
             ELSE \E some \in SUBSET System :
                      cache' = [p \in Packages |->
                          IF p \in some THEN BaseVersion ELSE cache[p]]
       \/ (cache[Now] # -1 \/ seeded) /\ UNCHANGED <<cache, seeded>>
    /\ pc' = "hash"
    /\ UNCHANGED <<world, indexFile, disk, tmp, cmd, roots, index, step,
                   copying, bounds, history, result>>

Extracts(from) ==
    /\ pc' = "extract"
    /\ source' = from
    /\ todo' = Contents(Now)

\* A cached archive with the digest of the index is extracted, any other is
\* left for the network.
HashCached ==
    /\ pc = "hash"
    /\ \/ cache[Now] = index[Now] /\ Extracts("cache")
       \/ pc' = "archive" /\ UNCHANGED <<source, todo>>
    /\ UNCHANGED <<world, files, job, step, writing, bounds, history, result>>

\* eynfs_stream_begin truncates the file the download goes to: the archive
\* in /tmp, or the installed binary itself.
StartDownload ==
    /\ pc = "archive"
    /\ \/ /\ Ends("failed") /\ UNCHANGED <<disk, tmp, torn, leftover, writing>>
       \/ /\ pc' = "fetch" /\ UNCHANGED result
          /\ IF Now \in Archives
             THEN /\ tmp' = [tmp EXCEPT ![Now] = 0]
                  /\ leftover' = leftover \ {Now}
                  /\ UNCHANGED <<disk, torn, writing>>
             ELSE /\ \E f \in Partial(index[Now]) :
                         disk' = [disk EXCEPT ![Now]["main"] = f]
                  /\ writing' = {"main"}
                  /\ torn' = torn \ {<<Now, "main">>}
                  /\ UNCHANGED <<tmp, leftover>>
    /\ UNCHANGED <<world, indexFile, cache, job, step, source, todo, bounds>>

\* Mutated form: the digest of the download is not compared.
Verified_Any(p, v) == v \in Versions

\* The digest is that of the bytes the index describes.
Verified(p, v) == v = index[p]

\* Mutated form: a download that fails leaves what it wrote.
DownloadFails_Keeps ==
    /\ pc = "fetch"
    /\ Ends("failed")
    /\ writing' = {}
    /\ UNCHANGED <<world, files, job, step, source, todo, bounds, history>>

\* The transfer, the end of the stream or the digest fails: the target goes.
DownloadFails ==
    /\ pc = "fetch"
    /\ Ends("failed")
    /\ writing' = {}
    /\ IF Now \in Archives
       THEN tmp' = [tmp EXCEPT ![Now] = -1] /\ UNCHANGED disk
       ELSE disk' = [disk EXCEPT ![Now]["main"] = Absent] /\ UNCHANGED tmp
    /\ UNCHANGED <<world, indexFile, cache, job, step, source, todo, bounds,
                   history>>

\* The bytes came, of this version or of another, and the digest agrees.
DownloadDone ==
    /\ pc = "fetch"
    /\ \E v \in 0..MaxVersion :
           /\ Verified(Now, v)
           /\ IF Now \in Archives
              THEN /\ tmp' = [tmp EXCEPT ![Now] = v]
                   /\ Extracts("tmp")
                   /\ UNCHANGED <<disk, local, scanned, plan, at, installed,
                                  writing, result>>
              ELSE /\ disk' = [disk EXCEPT ![Now]["main"] = Whole(v)]
                   /\ writing' = {}
                   /\ Rescan(Scan')
                   /\ Installed
                   /\ UNCHANGED <<tmp, source, todo>>
    /\ UNCHANGED <<world, indexFile, cache, job, bounds, history>>

----------------------------------------------------------------------------
(* Extraction, in place and file by file, and what follows it.             *)

Unpacked == IF source = "cache" THEN cache[Now] ELSE tmp[Now]

ExtractFile ==
    /\ pc = "extract" /\ writing = {}
    /\ \E s \in todo :
           /\ \E f \in Partial(Unpacked) : disk' = [disk EXCEPT ![Now][s] = f]
           /\ writing' = {s}
           /\ todo' = todo \ {s}
           /\ torn' = torn \ {<<Now, s>>}
    /\ UNCHANGED <<world, indexFile, tmp, cache, job, step, source, bounds,
                   leftover, pc, result>>

ExtractFileDone ==
    /\ pc = "extract" /\ writing # {}
    /\ \E s \in writing :
           disk' = [disk EXCEPT ![Now][s] = Whole(Unpacked)]
    /\ writing' = {}
    /\ UNCHANGED <<world, indexFile, tmp, cache, job, step, source, todo,
                   bounds, history, pc, result>>

\* Mutated form: the extraction ends with the first file.
Extracted_OneFile ==
    /\ pc = "extract" /\ writing = {} /\ todo # Contents(Now)
    /\ pc' = "payload" /\ todo' = {}
    /\ UNCHANGED <<world, files, job, step, source, writing, bounds, history,
                   result>>

Extracted ==
    /\ pc = "extract" /\ writing = {} /\ todo = {}
    /\ pc' = "payload"
    /\ UNCHANGED <<world, files, job, step, copying, bounds, history, result>>

\* Unlinking the archive in /tmp; one that came from the cache stays.
Dropped == [tmp EXCEPT ![Now] = -1]

\* A file that fails is unlinked, those before it stay.  A cached archive is
\* then replaced by the network's, a downloaded one ends the run.
ExtractFails ==
    /\ pc = "extract"
    /\ disk' = [disk EXCEPT ![Now] =
           [s \in Slots |-> IF s \in writing THEN Absent ELSE @[s]]]
    /\ writing' = {} /\ todo' = {}
    /\ IF source = "cache"
       THEN pc' = "archive" /\ UNCHANGED <<tmp, result>>
       ELSE Ends("failed") /\ tmp' = Dropped
    /\ UNCHANGED <<world, indexFile, cache, job, step, source, bounds,
                   history>>

Exists(s) == disk[Now][s] # Absent

\* The binary exists at install_dir/install_name and can be measured.
PayloadFound ==
    /\ pc = "payload" /\ Exists("main")
    /\ \/ /\ tmp' = IF source = "tmp" THEN Dropped ELSE tmp
          /\ Rescan(Scan)
          /\ Installed
       \/ /\ source = "cache" /\ pc' = "archive"
          /\ UNCHANGED <<tmp, step, result>>
       \/ /\ source = "tmp" /\ Ends("failed") /\ tmp' = Dropped
          /\ UNCHANGED step
    /\ UNCHANGED <<world, indexFile, disk, cache, job, copying, bounds,
                   history>>

\* It does not: an archive of an older layout has it under another name.
PayloadElsewhere ==
    /\ pc = "payload" /\ ~Exists("main")
    /\ \/ /\ source = "cache" /\ pc' = "archive"
          /\ UNCHANGED <<disk, torn, writing>>
       \/ /\ source = "tmp" /\ Exists("legacy") /\ pc' = "copy"
          /\ \E f \in Partial(disk[Now]["legacy"].ver) :
                 disk' = [disk EXCEPT ![Now]["main"] = f]
          /\ writing' = {"main"}
          /\ torn' = torn \ {<<Now, "main">>}
    /\ UNCHANGED <<world, indexFile, tmp, cache, job, step, source, todo,
                   bounds, leftover, result>>

\* The copy replaces the file it came from, or is unlinked and there is no
\* payload.
CopyDone ==
    /\ pc = "copy"
    /\ writing' = {}
    /\ \/ /\ disk' = [disk EXCEPT ![Now]["main"] = disk[Now]["legacy"],
                                  ![Now]["legacy"] = Absent]
          /\ pc' = "payload" /\ UNCHANGED <<tmp, result>>
       \/ /\ disk' = [disk EXCEPT ![Now]["main"] = Absent]
          /\ Ends("failed") /\ tmp' = Dropped
    /\ UNCHANGED <<world, indexFile, cache, job, step, source, todo, bounds,
                   history>>

----------------------------------------------------------------------------
Installer ==
    \/ Network \/ CachedFirst \/ StoreIndex \/ FillIndex
    \/ Resolve \/ PlanDone \/ Skip \/ Prepare
    \/ SeedCache \/ HashCached \/ StartDownload \/ DownloadFails
    \/ DownloadDone
    \/ ExtractFile \/ ExtractFileDone \/ Extracted \/ ExtractFails
    \/ PayloadFound \/ PayloadElsewhere \/ CopyDone

Next ==
    \/ Begin
    \/ Installer
    \/ Crash
    \/ \E p \in Packages : Publish(p) \/ Remove(p)

Spec == Init /\ [][Next]_vars

\* A program that runs is scheduled; nothing is assumed of the user, who may
\* never type another command.
FairSpec == Spec /\ WF_vars(Installer)

----------------------------------------------------------------------------
TypeOK ==
    /\ remote \in Snapshots /\ published \subseteq Snapshots
    /\ indexFile \subseteq Snapshots /\ Cardinality(indexFile) <= 1
    /\ disk \in [Packages -> [Slots -> File]]
    /\ tmp \in [Packages -> -1..MaxVersion]
    /\ cache \in [Packages -> -1..MaxVersion]
    /\ pc \in PCs
    /\ cmd \in Commands \cup {"install"} /\ roots \subseteq Packages
    /\ index \in Snapshots /\ local \in [Packages -> -1..MaxVersion]
    /\ scanned \in BOOLEAN /\ seeded \in BOOLEAN
    /\ plan \in Seq(Packages) /\ at \in 1..(Len(plan) + 1)
    /\ source \in {"tmp", "cache"}
    /\ todo \subseteq Slots /\ writing \subseteq Slots
    /\ result \in {"none", "ok", "failed", "crashed", "removed"}
    /\ installed \subseteq Packages /\ leftover \subseteq Packages
    /\ torn \subseteq Packages \X Slots
    /\ runs \in 0..MaxRuns /\ crashes \in 0..MaxCrashes
    /\ pc \in {"cached", "hash", "archive", "fetch", "extract", "payload",
               "copy"} => at <= Len(plan)

\* A run works with an index the server published, whole, however old, and
\* unpacks only bytes with the digest in it: never a cache that a crash or a
\* failed write cut short, nor what an earlier run or a base archive of another
\* version left in /tmp or in the cache.
OnlyPublished ==
    /\ pc \in {"resolve", "pkg"} => index \in published
    /\ pc = "extract" => Unpacked = index[Now]

\* A half-written file, and an archive in /tmp, outlives the run that wrote it
\* only through a crash: every path on which a download, an extraction or a
\* copy fails removes it.
PartialOnlyByCrash ==
    \A p \in Packages :
        /\ \A s \in Slots :
               disk[p][s] # Absent /\ ~disk[p][s].whole =>
                   \/ <<p, s>> \in torn
                   \/ pc # "idle" /\ Now = p /\ s \in writing
        /\ tmp[p] # -1 =>
               \/ p \in leftover
               \/ pc \in {"fetch", "extract", "payload", "copy"} /\ Now = p

\* When a plan has installed a package, all it depends on is there, at least
\* as new as the index asks for.
DependenciesThere ==
    \A p \in installed : \A i \in 1..Len(Depends[p]) :
        pc # "idle" => \E s \in {"main", "legacy"} :
            disk[Depends[p][i]][s].ver >= index[Depends[p][i]]

\* A plan that is done has left every package at least as new as the index,
\* and whole where it installed it, data file included.
PlanInstalls ==
    pc = "pkg" /\ at > Len(plan) => \A i \in 1..Len(plan) :
        /\ \E s \in {"main", "legacy"} :
               /\ disk[plan[i]][s].ver >= index[plan[i]]
               /\ plan[i] \in installed =>
                      disk[plan[i]][s] = Whole(index[plan[i]])
        /\ plan[i] \in installed \cap Extras =>
               disk[plan[i]]["data"] = Whole(index[plan[i]])

\* A run never replaces a program in /binaries by an older one, even when it
\* works from a cached index that the server has long replaced.
NoDowngrade ==
    [][\A p \in InBinaries, s \in {"main", "legacy"} :
           disk[p][s].whole /\ ~disk'[p][s].whole /\ pc # "idle" /\ scanned
               /\ disk'[p][s] # Absent
           => index[p] >= disk[p][s].ver]_vars

\* Every run ends, whatever fails on the way.
RunEnds == pc # "idle" ~> pc = "idle"
=============================================================================
