------------------------- MODULE PackageInstallProofs -------------------------
(* Proofs about PackageInstall, for any packages, dependencies and layouts, *)
(* and any number of versions, runs and crashes.                            *)
EXTENDS PackageInstall, TLAPS

\* Before there is a plan, and while a package of it is being installed.
Choosing == {"network", "cachedFirst", "networkLast", "storeIndex", "fillIndex"}
Working == {"cached", "hash", "archive", "fetch", "extract", "payload", "copy"}

\* What the steps rely on of the variables' types.
Typed ==
    /\ remote \in Snapshots /\ published \subseteq Snapshots
    /\ indexFile \subseteq Snapshots /\ index \in Snapshots
    /\ disk \in [Packages -> [Slots -> File]]
    /\ tmp \in [Packages -> -1..MaxVersion]
    /\ cache \in [Packages -> -1..MaxVersion]
    /\ scanned \in BOOLEAN
    /\ pc \in PCs
    /\ roots \subseteq Packages
    /\ source \in {"tmp", "cache"}
    /\ todo \subseteq Slots /\ writing \subseteq Slots
    /\ installed \subseteq Packages

\* A plan as PlanPromise allows it: each package once, after all it needs.
InOrder ==
    /\ \A i, j \in 1..Len(plan) : plan[i] = plan[j] => i = j
    /\ \A i \in 1..Len(plan) : \A k \in 1..Len(Depends[plan[i]]) :
           \E j \in 1..(i - 1) : plan[j] = Depends[plan[i]][k]

\* The program is within its plan.
PlanInv ==
    /\ plan \in Seq(Packages) /\ at \in 1..(Len(plan) + 1)
    /\ pc \in Working => at <= Len(plan)
    /\ pc \in Choosing => plan = <<>>
    /\ InOrder

\* Every index was published, and what is unpacked is what the index names.
SourceInv ==
    /\ remote \in published /\ indexFile \subseteq published
    /\ pc \in {"storeIndex", "fillIndex", "resolve", "pkg"} \cup Working =>
           index \in published
    /\ pc = "extract" => Unpacked = index[Now]

\* All files of p are whole and of the index' version; the binary may be
\* under either name.
Complete(p) ==
    /\ \E s \in {"main", "legacy"} : disk[p][s] = Whole(index[p])
    /\ p \in Extras => disk[p]["data"] = Whole(index[p])

\* One file at a time is written; those that are neither under way nor still
\* to come are whole.
CopyInv ==
    /\ pc \notin {"fetch", "extract", "copy"} => writing = {}
    /\ pc = "fetch" => writing = IF Now \in Archives THEN {} ELSE {"main"}
    /\ pc = "extract" =>
           /\ writing \subseteq Contents(Now) /\ todo \subseteq Contents(Now)
           /\ \A a, b \in writing : a = b
           /\ \A s \in Contents(Now) \ (todo \cup writing) :
                  disk[Now][s] = Whole(index[Now])
    /\ pc = "payload" => Complete(Now)
    /\ pc = "copy" =>
           /\ writing = {"main"} /\ source = "tmp"
           /\ disk[Now]["legacy"] = Whole(index[Now])
           /\ Now \in Extras => disk[Now]["data"] = Whole(index[Now])

\* A half-written file is being written, or a crash left it.
HalfInv ==
    \A p \in Packages : \A s \in Slots :
        disk[p][s] # Absent /\ ~disk[p][s].whole =>
            \/ <<p, s>> \in torn
            \/ pc # "idle" /\ Now = p /\ s \in writing

\* An archive in /tmp is the one being unpacked, or a crash left it.
TmpInv ==
    \A p \in Packages :
        tmp[p] # -1 =>
            \/ p \in leftover
            \/ /\ pc \in {"fetch", "extract", "payload", "copy"} /\ Now = p
               /\ pc = "fetch" => p \in Archives
               /\ pc # "fetch" => source = "tmp"

\* The scan is current when the next package is looked at, and no whole file
\* the package at work would overwrite is newer than the index.
ScanInv ==
    /\ pc = "pkg" => local = IF scanned THEN Scan ELSE Nothing
    /\ pc \in Working /\ scanned /\ Now \in InBinaries =>
           \A s \in Contents(Now) \ {"data"} :
               disk[Now][s].whole => disk[Now][s].ver <= index[Now]

\* p is as new as the index, and whole if this plan installed it.
Reached(p) ==
    /\ \E s \in {"main", "legacy"} :
           /\ disk[p][s].ver >= index[p]
           /\ p \in installed => disk[p][s] = Whole(index[p])
    /\ p \in installed \cap Extras => disk[p]["data"] = Whole(index[p])

\* The packages before the one the plan is at are done.
DoneInv ==
    pc # "idle" =>
        /\ \A i \in 1..(at - 1) : Reached(plan[i])
        /\ \A p \in installed : \E i \in 1..(at - 1) : plan[i] = p

IInv ==
    /\ Typed /\ PlanInv /\ SourceInv /\ CopyInv
    /\ HalfInv /\ TmpInv /\ ScanInv /\ DoneInv

----------------------------------------------------------------------------
(* Facts about files, and about where the plan is.                         *)

\* Whole and partial files are told apart.
LEMMA FileFacts ==
    /\ \A v \in -1..MaxVersion :
           /\ Whole(v) \in File /\ Whole(v).ver = v /\ Whole(v).whole
           /\ Whole(v) # Absent
           /\ \A f \in Partial(v) : ~f.whole
           /\ 0 <= v => Partial(v) \subseteq File
    /\ Absent \in File /\ Absent.ver = -1 /\ ~Absent.whole
    /\ 1 \in Versions
  <1>1. MaxVersion \in Nat \ {0} /\ 1 \in Versions /\ -1 \in -1..MaxVersion
    BY LimitsAssumption DEF Versions
  <1>2. ASSUME NEW v \in -1..MaxVersion
        PROVE  /\ Whole(v) \in File /\ Whole(v).ver = v /\ Whole(v).whole
               /\ Whole(v) # Absent
    BY DEF Whole, File, Absent
  <1>3. ASSUME NEW v \in -1..MaxVersion, NEW f \in Partial(v)
        PROVE  ~f.whole /\ (0 <= v => f \in File)
    <2>1. PICK u \in {0, v} : f = [ver |-> u, whole |-> FALSE]
      BY DEF Partial
    <2>2. 0 <= v => u \in -1..MaxVersion
      BY <1>1, <2>1
    <2> QED
      BY <2>1, <2>2 DEF File
  <1>4. Absent \in File /\ Absent.ver = -1 /\ ~Absent.whole
    BY <1>1 DEF Absent, File
  <1> QED
    BY <1>1, <1>2, <1>3, <1>4

\* The installer at work is at a package of the plan.
LEMMA Here ==
    ASSUME PlanInv, pc \in Working
    PROVE  /\ at \in 1..Len(plan) /\ Now \in Packages
           /\ \A i \in 1..(at - 1) : plan[i] # Now
  BY DEF PlanInv, InOrder, Now

LEMMA VersionsOf ==
    ASSUME Typed, NEW p \in Packages
    PROVE  /\ index[p] \in 1..MaxVersion
           /\ index[p] \in -1..MaxVersion
  BY LimitsAssumption DEF Typed, Snapshots, Versions

LEMMA ScanTyped == ASSUME Typed PROVE Scan \in [Packages -> -1..MaxVersion]
  <1>1. ASSUME NEW p \in Packages
        PROVE  Found(p) \in -1..MaxVersion
    <2>1. disk[p] \in [Slots -> File] /\ "main" \in Slots /\ "legacy" \in Slots
      BY DEF Typed, Slots
    <2>2. /\ disk[p]["main"].ver \in -1..MaxVersion
          /\ disk[p]["legacy"].ver \in -1..MaxVersion
      BY <2>1 DEF File
    <2>3. -1 \in -1..MaxVersion
      BY LimitsAssumption
    <2> QED
      BY <2>2, <2>3 DEF Found, Newest
  <1> QED
    BY <1>1 DEF Scan

\* The scan finds at least what is whole under the name the package has, and
\* finds a version only where a file has it.
LEMMA ScanFacts ==
    ASSUME Typed, NEW p \in Packages
    PROVE  /\ p \in InBinaries => \A s \in Contents(p) \ {"data"} :
                                     disk[p][s].ver <= Found(p)
           /\ Found(p) > 0 => \E s \in {"main", "legacy"} :
                                  disk[p][s].ver >= Found(p)
  <1>1. disk[p] \in [Slots -> File] /\ "main" \in Slots /\ "legacy" \in Slots
    BY DEF Typed, Slots
  <1>2. /\ disk[p]["main"].ver \in -1..MaxVersion
        /\ disk[p]["legacy"].ver \in -1..MaxVersion
    BY <1>1 DEF File
  <1>3. Contents(p) \ {"data"} = {IF p \in Legacy THEN "legacy" ELSE "main"}
    BY DEF Contents
  <1> QED
    BY <1>2, <1>3 DEF Found, Newest

----------------------------------------------------------------------------
(* What steps keep that leave most of the state alone.                     *)

Holding == {"fetch", "extract", "payload", "copy"}

\* Away from a download and an extraction, with the files left alone.
LEMMA QuietKeeps ==
    ASSUME IInv, pc \notin Holding, pc' \notin Holding,
           UNCHANGED <<disk, tmp, torn, leftover, writing>>
    PROVE  CopyInv' /\ HalfInv' /\ TmpInv'
  <1>1. writing = {}
    BY DEF IInv, CopyInv, Holding
  <1>2. CopyInv'
    BY <1>1 DEF CopyInv, Holding
  <1>3. HalfInv'
    BY <1>1 DEF IInv, HalfInv
  <1>4. TmpInv'
    BY DEF IInv, TmpInv, Holding
  <1> QED
    BY <1>2, <1>3, <1>4

\* Nothing the packages before this one depend on changes.
LEMMA DoneStays ==
    ASSUME IInv, pc # "idle", UNCHANGED <<disk, index, installed, plan, at>>
    PROVE  DoneInv'
  BY DEF IInv, DoneInv, Reached

\* Files of the package at work change, of no other.
LEMMA DoneKeeps ==
    ASSUME IInv, pc \in Working, UNCHANGED <<index, installed, plan, at>>,
           \A p \in Packages : p # Now => disk'[p] = disk[p]
    PROVE  DoneInv'
  <1>1. pc # "idle"
    BY DEF Working
  <1>2. ASSUME NEW i \in 1..(at - 1) PROVE Reached(plan[i])'
    <2>1. plan[i] \in Packages /\ plan[i] # Now /\ Reached(plan[i])
      BY <1>1, Here DEF IInv, PlanInv, DoneInv
    <2>2. disk'[plan[i]] = disk[plan[i]]
      BY <2>1
    <2> QED
      BY <2>1, <2>2 DEF Reached
  <1> QED
    BY <1>1, <1>2 DEF IInv, DoneInv

\* A run that ends leaves nothing but what the files themselves say.
LEMMA EndsKeeps ==
    ASSUME IInv, pc' = "idle", Typed', HalfInv', TmpInv', writing' = {},
           UNCHANGED <<world, indexFile, plan, at>>
    PROVE  IInv'
  <1>1. PlanInv'
    BY DEF IInv, PlanInv, InOrder, Working, Choosing
  <1>2. SourceInv'
    BY DEF IInv, SourceInv, Working, world
  <1>3. CopyInv' /\ ScanInv' /\ DoneInv'
    BY DEF CopyInv, ScanInv, DoneInv, Working
  <1> QED
    BY <1>1, <1>2, <1>3 DEF IInv

\* The plan and the place in it stay.
LEMMA PlanStays ==
    ASSUME IInv, UNCHANGED <<plan, at>>,
           pc' \in Working => at <= Len(plan),
           pc' \in Choosing => plan = <<>>
    PROVE  PlanInv'
  BY DEF IInv, PlanInv, InOrder

\* The same, away from a download, in a run that has no plan yet or goes on
\* with the one it has.
LEMMA QuietStep ==
    ASSUME IInv, pc \notin Holding \cup {"idle"}, pc' \notin Holding, Typed',
           pc' \in Working => at <= Len(plan),
           pc' \in Choosing => plan = <<>>,
           SourceInv', ScanInv',
           UNCHANGED <<disk, tmp, torn, leftover, writing, plan, at, installed>>,
           plan = <<>> \/ index' = index
    PROVE  IInv'
  <1>1. PlanInv'
    BY PlanStays
  <1>2. DoneInv'
    <2>1. CASE index' = index
      BY <2>1, DoneStays
    <2>2. CASE plan = <<>>
      <3>1. at = 1 /\ 1..(at - 1) = {}
        BY <2>2 DEF IInv, PlanInv
      <3> QED
        BY <3>1 DEF IInv, DoneInv
    <2> QED
      BY <2>1, <2>2
  <1> QED
    BY <1>1, <1>2, QuietKeeps DEF IInv

----------------------------------------------------------------------------
(* Every step keeps the invariant.                                         *)

LEMMA InitHolds == Init => IInv
  <1> SUFFICES ASSUME Init PROVE IInv
    OBVIOUS
  <1>1. 1 \in Versions /\ -1 \in -1..MaxVersion
    BY FileFacts, LimitsAssumption
  <1>2. Whole(1) \in File /\ Absent \in File
    BY FileFacts, <1>1 DEF Versions
  <1>3. remote \in Snapshots
    BY <1>1 DEF Init, Snapshots
  <1>4. disk \in [Packages -> [Slots -> {Absent, Whole(1)}]]
    BY DEF Init
  <1>5. Typed
    BY <1>1, <1>2, <1>3, <1>4 DEF Init, Typed, Nothing, PCs, Slots
  <1>6. PlanInv /\ SourceInv
    BY DEF Init, PlanInv, InOrder, SourceInv, Working, Choosing
  <1>7. CopyInv /\ ScanInv
    BY DEF Init, CopyInv, ScanInv, Working
  <1>8. HalfInv
    <2>1. \A p \in Packages, s \in Slots : disk[p][s] = Absent \/ disk[p][s] = Whole(1)
      BY <1>4
    <2>2. Whole(1).whole
      BY DEF Whole
    <2> QED
      BY <2>1, <2>2 DEF HalfInv
  <1>9. TmpInv
    BY DEF Init, TmpInv, Nothing
  <1>10. DoneInv
    BY DEF Init, DoneInv
  <1> QED
    BY <1>5, <1>6, <1>7, <1>8, <1>9, <1>10 DEF IInv

\* The server does not touch the machine; an index it replaces was published.
LEMMA PublishKeeps ==
    ASSUME IInv, NEW p \in Packages, Publish(p)
    PROVE  IInv'
  <1> USE DEF Publish, files, job, step, copying, bounds, history
  <1>1. remote' \in Snapshots
    BY LimitsAssumption DEF IInv, Typed, Snapshots, Versions
  <1>2. Typed'
    BY <1>1 DEF IInv, Typed
  <1>3. PlanInv'
    BY PlanStays DEF IInv, PlanInv
  <1>4. SourceInv'
    BY DEF IInv, SourceInv, Unpacked, Now
  <1>5. CopyInv'
    BY DEF IInv, CopyInv, Complete, Now
  <1>6. HalfInv' /\ TmpInv'
    BY DEF IInv, HalfInv, TmpInv, Now
  <1>7. ScanInv'
    BY DEF IInv, ScanInv, Scan, Found, Now
  <1>8. DoneInv'
    BY DEF IInv, DoneInv, Reached
  <1> QED
    BY <1>2, <1>3, <1>4, <1>5, <1>6, <1>7, <1>8 DEF IInv

\* Removing a file leaves the others as they were.
LEMMA RemoveKeeps ==
    ASSUME IInv, NEW p \in Packages, Remove(p)
    PROVE  IInv'
  <1> USE DEF world, job, step, copying
  <1>1. PICK s \in {"main", "legacy"} :
            /\ disk' = [disk EXCEPT ![p][s] = Absent]
            /\ torn' = torn \ {<<p, s>>}
    BY DEF Remove
  <1>2. /\ pc = "idle" /\ pc' = "idle"
        /\ UNCHANGED <<world, indexFile, tmp, cache, job, step, copying, leftover>>
    BY DEF Remove
  <1>3. Absent \in File
    BY FileFacts
  <1>4. Typed'
    BY <1>1, <1>2, <1>3 DEF IInv, Typed
  <1>5. writing' = {}
    BY <1>2 DEF IInv, CopyInv
  <1>6. HalfInv'
    <2>1. \A q \in Packages, t \in Slots :
              disk'[q][t] = IF q = p /\ t = s THEN Absent ELSE disk[q][t]
      BY <1>1 DEF IInv, Typed
    <2>2. \A q \in Packages, t \in Slots :
              <<q, t>> \in torn => <<q, t>> \in torn' \/ (q = p /\ t = s)
      <3>1. ASSUME NEW q \in Packages, NEW t \in Slots, <<q, t>> = <<p, s>>
            PROVE  q = p /\ t = s
        BY <3>1
      <3>2. ASSUME NEW q \in Packages, NEW t \in Slots, <<q, t>> \in torn
            PROVE  <<q, t>> \in torn' \/ <<q, t>> = <<p, s>>
        BY <1>1, <3>2
      <3> QED
        BY <3>1, <3>2
    <2> QED
      BY <1>2, <2>1, <2>2 DEF IInv, HalfInv
  <1>7. TmpInv'
    BY <1>2 DEF IInv, TmpInv
  <1> QED
    BY <1>2, <1>4, <1>5, <1>6, <1>7, EndsKeeps

\* A run begins without a plan.
LEMMA BeginKeeps == ASSUME IInv, Begin PROVE IInv'
  <1>1. /\ pc = "idle" /\ pc' \in {"network", "cachedFirst"}
        /\ roots' \subseteq Packages
        /\ plan' = <<>> /\ at' = 1 /\ installed' = {}
        /\ UNCHANGED <<world, files, index, local, scanned, copying, history>>
    BY DEF Begin
  <1> USE DEF world, files, copying, history
  <1>2. Typed'
    BY <1>1 DEF IInv, Typed, PCs
  <1>3. PlanInv'
    BY <1>1 DEF PlanInv, InOrder, Working, Choosing
  <1>4. SourceInv'
    BY <1>1 DEF IInv, SourceInv, Working
  <1>5. CopyInv' /\ HalfInv' /\ TmpInv'
    BY <1>1, QuietKeeps DEF Holding
  <1>6. ScanInv'
    BY <1>1 DEF ScanInv, Working
  <1>7. DoneInv'
    <2>1. 1..(at' - 1) = {}
      BY <1>1
    <2> QED
      BY <1>1, <2>1 DEF DoneInv
  <1> QED
    BY <1>2, <1>3, <1>4, <1>5, <1>6, <1>7 DEF IInv

\* A quiet step that ends the run.
LEMMA QuietEnd ==
    ASSUME IInv, pc \notin Holding, NEW how, Ends(how), Typed',
           UNCHANGED <<world, indexFile, disk, tmp, torn, leftover, writing, plan, at>>
    PROVE  IInv'
  <1>1. pc' = "idle" /\ writing' = {} /\ HalfInv' /\ TmpInv'
    BY QuietKeeps DEF Ends, Holding, IInv, CopyInv
  <1> QED
    BY <1>1, EndsKeeps

LEMMA NetworkKeeps == ASSUME IInv, Network PROVE IInv'
  <1> USE DEF world, files, step, copying, history
  <1>1. /\ pc \in {"network", "networkLast"}
        /\ UNCHANGED <<world, files, roots, step, copying, history>>
    BY DEF Network
  <1>2. plan = <<>>
    BY <1>1 DEF IInv, PlanInv, Choosing
  <1>3. CASE index' = remote /\ pc' = "storeIndex"
    <2>1. Typed'
      BY <1>1, <1>3 DEF IInv, Typed, PCs
    <2>2. SourceInv'
      BY <1>1, <1>3 DEF IInv, SourceInv
    <2>3. ScanInv'
      BY <1>3 DEF ScanInv, Working
    <2> QED
      BY <1>1, <1>2, <1>3, <2>1, <2>2, <2>3, QuietStep DEF Holding, Working
  <1>4. CASE UNCHANGED index /\ pc' = "cachedFirst"
    <2>1. Typed'
      BY <1>1, <1>4 DEF IInv, Typed, PCs
    <2>2. SourceInv'
      BY <1>1, <1>4 DEF IInv, SourceInv, Working
    <2>3. ScanInv'
      BY <1>4 DEF ScanInv, Working
    <2> QED
      BY <1>1, <1>2, <1>4, <2>1, <2>2, <2>3, QuietStep DEF Holding, Working
  <1>5. CASE UNCHANGED index /\ Ends("failed")
    <2>1. Typed'
      BY <1>1, <1>5 DEF IInv, Typed, PCs, Ends
    <2> QED
      BY <1>1, <1>5, <2>1, QuietEnd DEF Holding
  <1> QED
    BY <1>3, <1>4, <1>5 DEF Network

\* The index is decided: a published one.
LEMMA AfterIndexKeeps ==
    ASSUME IInv, pc \in Choosing, AfterIndex, index' \in published,
           indexFile' \subseteq published,
           UNCHANGED <<world, disk, tmp, cache, roots, step, copying, history>>
    PROVE  IInv'
  <1> USE DEF world, step, copying, history
  <1>1. plan = <<>> /\ published \subseteq Snapshots
    BY DEF IInv, PlanInv, Typed
  <1>2. pc' \in {"resolve", "idle"}
    BY DEF AfterIndex, Ends
  <1>3. Typed'
    BY <1>1, <1>2 DEF IInv, Typed, PCs
  <1>4. SourceInv'
    BY <1>2 DEF IInv, SourceInv, Working
  <1>5. PlanInv'
    BY <1>2, PlanStays DEF Working, Choosing
  <1>6. CopyInv' /\ HalfInv' /\ TmpInv'
    BY <1>2, QuietKeeps DEF Holding, Choosing
  <1>7. ScanInv'
    BY <1>2 DEF ScanInv, Working
  <1>8. DoneInv'
    <2>1. at = 1 /\ 1..(at - 1) = {}
      BY <1>1 DEF IInv, PlanInv
    <2>2. installed = {}
      BY <2>1 DEF IInv, DoneInv, Choosing
    <2> QED
      BY <2>1, <2>2 DEF DoneInv
  <1> QED
    BY <1>3, <1>4, <1>5, <1>6, <1>7, <1>8 DEF IInv

LEMMA CachedFirstKeeps == ASSUME IInv, CachedFirst PROVE IInv'
  <1> USE DEF world, files, step, copying, history
  <1>1. /\ pc = "cachedFirst"
        /\ UNCHANGED <<world, files, roots, step, copying, history>>
    BY DEF CachedFirst
  <1>2. CASE index' \in indexFile /\ AfterIndex
    BY <1>1, <1>2, AfterIndexKeeps DEF IInv, SourceInv, Choosing
  <1>3. CASE pc' = "networkLast" /\ UNCHANGED index
    <2>1. Typed'
      BY <1>1, <1>3 DEF IInv, Typed, PCs
    <2>2. SourceInv'
      BY <1>1, <1>3 DEF IInv, SourceInv, Working
    <2>3. ScanInv'
      BY <1>3 DEF ScanInv, Working
    <2>4. plan = <<>>
      BY <1>1 DEF IInv, PlanInv, Choosing
    <2> QED
      BY <1>1, <1>3, <2>1, <2>2, <2>3, <2>4, QuietStep DEF Holding, Working
  <1> QED
    BY <1>2, <1>3 DEF CachedFirst

LEMMA StoreIndexKeeps == ASSUME IInv, StoreIndex PROVE IInv'
  <1> USE DEF world, files, job, step, copying, history
  <1>1. /\ pc = "storeIndex" /\ index \in published
        /\ UNCHANGED <<world, disk, tmp, cache, job, step, copying, history>>
    BY DEF StoreIndex, IInv, SourceInv
  <1>2. CASE UNCHANGED indexFile /\ AfterIndex
    BY <1>1, <1>2, AfterIndexKeeps DEF IInv, SourceInv, Choosing
  <1>3. CASE indexFile' = {} /\ pc' = "fillIndex"
    <2>1. Typed'
      BY <1>1, <1>3 DEF IInv, Typed, PCs
    <2>2. SourceInv'
      BY <1>1, <1>3 DEF IInv, SourceInv, Working
    <2>3. ScanInv'
      BY <1>3 DEF ScanInv, Working
    <2>4. plan = <<>>
      BY <1>1 DEF IInv, PlanInv, Choosing
    <2> QED
      BY <1>1, <1>3, <2>1, <2>2, <2>3, <2>4, QuietStep DEF Holding, Working
  <1> QED
    BY <1>2, <1>3 DEF StoreIndex

LEMMA FillIndexKeeps == ASSUME IInv, FillIndex PROVE IInv'
  <1>1. /\ pc = "fillIndex" /\ index \in published /\ AfterIndex
        /\ indexFile' \in {{index}, {}}
        /\ UNCHANGED <<world, disk, tmp, cache, job, step, copying, history>>
    BY DEF FillIndex, IInv, SourceInv
  <1> QED
    BY <1>1, AfterIndexKeeps DEF Choosing, job

----------------------------------------------------------------------------
(* The plan.                                                               *)

\* What PlanPromise allows is in order.
LEMMA PlansInOrder ==
    ASSUME NEW r \in Packages, plan' \in Plans(r)
    PROVE  plan' \in Seq(Packages) /\ InOrder'
  <1>1. Promise!IsPlan(Depends, r, plan')
    BY DEF Plans
  <1>2. /\ plan' \in Seq(Packages)
        /\ \A i, j \in 1..Len(plan') : plan'[i] = plan'[j] => i = j
        /\ \A i \in 1..Len(plan') : \A d \in Promise!DependsOn(Depends, plan'[i]) :
               \E j \in 1..(i - 1) : plan'[j] = d
    BY <1>1 DEF Promise!IsPlan
  <1>3. ASSUME NEW i \in 1..Len(plan'), NEW k \in 1..Len(Depends[plan'[i]])
        PROVE  Depends[plan'[i]][k] \in Promise!DependsOn(Depends, plan'[i])
    <2>1. Depends[plan'[i]] \in Seq(Packages)
      BY <1>2, PackagesAssumption
    <2> QED
      BY <2>1 DEF Promise!DependsOn
  <1> QED
    BY <1>2, <1>3 DEF InOrder

\* A scan finds what is there, or nothing.
LEMMA RescanFacts ==
    ASSUME NEW d, Rescan(d)
    PROVE  scanned' \in BOOLEAN /\ local' = IF scanned' THEN d ELSE Nothing
  <1>1. CASE scanned' = TRUE /\ local' = d
    BY <1>1
  <1>2. CASE scanned' = FALSE /\ local' = Nothing
    BY <1>2
  <1> QED
    BY <1>1, <1>2 DEF Rescan

\* The scan looks at the disk only.
LEMMA SameScan == ASSUME disk' = disk PROVE Scan' = Scan
  BY DEF Scan, Found

LEMMA ResolveKeeps == ASSUME IInv, Resolve PROVE IInv'
  <1>1. PICK r \in roots : roots' = roots \ {r} /\ plan' \in Plans(r)
    BY DEF Resolve
  <1>2. /\ pc = "resolve" /\ pc' = "pkg" /\ at' = 1 /\ installed' = {}
        /\ Rescan(Scan)
        /\ UNCHANGED <<world, files, index, copying, history>>
    BY DEF Resolve
  <1> USE DEF world, files, copying, history
  <1>3. plan' \in Seq(Packages) /\ InOrder'
    BY <1>1, PlansInOrder DEF IInv, Typed
  <1>4. scanned' \in BOOLEAN /\ local' = IF scanned' THEN Scan ELSE Nothing
    BY <1>2, RescanFacts
  <1>5. Typed'
    BY <1>1, <1>2, <1>4 DEF IInv, Typed, PCs
  <1>6. PlanInv'
    BY <1>2, <1>3 DEF PlanInv, Working, Choosing
  <1>7. SourceInv'
    BY <1>2 DEF IInv, SourceInv
  <1>8. CopyInv' /\ HalfInv' /\ TmpInv'
    BY <1>2, QuietKeeps DEF Holding
  <1>9. ScanInv'
    BY <1>2, <1>4, SameScan DEF ScanInv, Working, Nothing
  <1>10. DoneInv'
    <2>1. 1..(at' - 1) = {}
      BY <1>2
    <2> QED
      BY <1>2, <2>1 DEF DoneInv
  <1> QED
    BY <1>5, <1>6, <1>7, <1>8, <1>9, <1>10 DEF IInv

LEMMA PlanDoneKeeps == ASSUME IInv, PlanDone PROVE IInv'
  <1>1. pc = "pkg" /\ UNCHANGED <<world, files, job, step, copying, history>>
    BY DEF PlanDone
  <1> USE DEF world, files, job, step, copying, history
  <1>2. CASE Ends("ok")
    <2>1. Typed'
      BY <1>1, <1>2 DEF IInv, Typed, PCs, Ends
    <2> QED
      BY <1>1, <1>2, <2>1, QuietEnd DEF Holding
  <1>3. CASE pc' = "resolve"
    <2>1. Typed'
      BY <1>1, <1>3 DEF IInv, Typed, PCs
    <2>2. SourceInv'
      BY <1>1, <1>3 DEF IInv, SourceInv
    <2>3. ScanInv'
      BY <1>3 DEF ScanInv, Working
    <2> QED
      BY <1>1, <1>3, <2>1, <2>2, <2>3, QuietStep DEF Holding, Working, Choosing
  <1> QED
    BY <1>2, <1>3 DEF PlanDone

\* What the scan found at least as new as the index is there.
LEMMA SkippedIsThere ==
    ASSUME IInv, InPlan, UpToDate(Now)
    PROVE  \E s \in {"main", "legacy"} : disk[Now][s].ver >= index[Now]
  <1>1. Now \in Packages
    BY DEF IInv, PlanInv, InPlan, Now
  <1>2. local[Now] >= index[Now] /\ index[Now] \in 1..MaxVersion
    BY <1>1, VersionsOf DEF IInv, UpToDate
  <1>3. scanned /\ local = Scan
    BY <1>1, <1>2, LimitsAssumption DEF IInv, ScanInv, InPlan, Nothing
  <1>4. Found(Now) >= index[Now]
    BY <1>1, <1>2, <1>3 DEF Scan
  <1>5. Scan[Now] \in -1..MaxVersion /\ Scan[Now] = Found(Now)
    BY <1>1, ScanTyped DEF IInv, Scan
  <1>6. \A s \in {"main", "legacy"} : disk[Now][s].ver \in -1..MaxVersion
    BY <1>1 DEF IInv, Typed, Slots, File
  <1> QED
    BY <1>1, <1>2, <1>4, <1>5, <1>6, ScanFacts, LimitsAssumption DEF IInv

\* The package is done: the plan goes on to the next.
LEMMA DoneNext ==
    ASSUME IInv, at <= Len(plan), NEW q, q = Now, at' = at + 1, UNCHANGED <<plan, index>>,
           pc # "idle",
           \A p \in Packages : p # Now => disk'[p] = disk[p],
           installed' \subseteq installed \cup {Now},
           installed \subseteq installed',
           Reached(q)'
    PROVE  DoneInv'
  <1>1. at \in 1..Len(plan) /\ plan \in Seq(Packages) /\ InOrder
    BY DEF IInv, PlanInv
  <1>2. ASSUME NEW i \in 1..(at - 1) PROVE Reached(plan[i])'
    <2>1. plan[i] \in Packages /\ plan[i] # Now /\ Reached(plan[i])
      BY <1>1 DEF IInv, DoneInv, InOrder, Now
    <2>2. disk'[plan[i]] = disk[plan[i]] /\ (plan[i] \in installed' => plan[i] \in installed)
      BY <2>1
    <2> QED
      BY <2>1, <2>2 DEF Reached
  <1>3. 1..(at' - 1) = 1..(at - 1) \cup {at}
    BY <1>1
  <1>4. \A p \in installed' : \E i \in 1..(at' - 1) : plan'[i] = p
    BY <1>3 DEF IInv, DoneInv, Now
  <1>5. ASSUME NEW i \in 1..(at' - 1) PROVE Reached(plan[i])'
    <2>1. CASE i \in 1..(at - 1)
      BY <1>2, <2>1
    <2>2. CASE i = at
      <3>1. plan'[i] = q
        BY <2>2 DEF Now
      <3> QED
        BY <3>1 DEF Reached
    <2> QED
      BY <1>3, <2>1, <2>2
  <1> QED
    BY <1>4, <1>5 DEF DoneInv

LEMMA SkipKeeps == ASSUME IInv, Skip PROVE IInv'
  <1>1. /\ pc = "pkg" /\ at \in 1..Len(plan) /\ at' = at + 1 /\ pc' = pc
        /\ UNCHANGED <<world, files, job, plan, local, scanned, installed,
                       copying, history>>
    BY DEF Skip, InPlan, IInv, PlanInv
  <1> USE DEF world, files, job, copying, history
  <1>2. Typed'
    BY <1>1 DEF IInv, Typed
  <1>3. PlanInv'
    BY <1>1 DEF IInv, PlanInv, InOrder, Working, Choosing
  <1>4. SourceInv'
    BY <1>1 DEF IInv, SourceInv
  <1>5. CopyInv' /\ HalfInv' /\ TmpInv'
    BY <1>1, QuietKeeps DEF Holding
  <1>6. ScanInv'
    BY <1>1, SameScan DEF IInv, ScanInv, Working, Nothing
  <1>7. DoneInv'
    <2>1. \E s \in {"main", "legacy"} : disk[Now][s].ver >= index[Now]
      BY SkippedIsThere DEF Skip
    <2>2. Now \notin installed /\ \A i \in 1..(at - 1) : plan[i] # Now
      BY <1>1 DEF IInv, DoneInv, PlanInv, InOrder, Now
    <2>3. PICK q : q = Now
      OBVIOUS
    <2>4. Reached(q)'
      BY <1>1, <2>1, <2>2, <2>3 DEF Reached
    <2> QED
      BY <1>1, <2>3, <2>4, DoneNext
  <1> QED
    BY <1>2, <1>3, <1>4, <1>5, <1>6, <1>7 DEF IInv

\* A package that is not up to date has no newer file the run would replace.
LEMMA PrepareKeeps == ASSUME IInv, Prepare PROVE IInv'
  <1>1. /\ pc = "pkg" /\ at \in 1..Len(plan) /\ ~UpToDate(Now)
        /\ UNCHANGED <<world, files, job, step, copying, history>>
    BY DEF Prepare, InPlan, IInv, PlanInv
  <1> USE DEF world, files, job, step, copying, history
  <1>2. CASE Ends("failed")
    <2>1. Typed'
      BY <1>1, <1>2 DEF IInv, Typed, PCs, Ends
    <2> QED
      BY <1>1, <1>2, <2>1, QuietEnd DEF Holding
  <1>3. CASE pc' \in {"cached", "archive"}
    <2>1. Typed'
      BY <1>1, <1>3 DEF IInv, Typed, PCs
    <2>2. SourceInv'
      BY <1>1, <1>3 DEF IInv, SourceInv
    <2>3. Now \in Packages
      BY <1>1 DEF IInv, PlanInv, Now
    <2>4. ASSUME scanned, Now \in InBinaries, NEW s \in Contents(Now) \ {"data"}
          PROVE  disk[Now][s].ver <= index[Now]
      <3>1. local[Now] = Found(Now) /\ disk[Now][s].ver <= Found(Now)
        BY <1>1, <2>3, <2>4, ScanFacts DEF IInv, ScanInv, Scan
      <3>2. index[Now] \in 1..MaxVersion /\ local[Now] \in -1..MaxVersion
        BY <1>1, <2>3, <2>4, VersionsOf, ScanTyped DEF IInv, ScanInv
      <3>3. local[Now] <= index[Now]
        BY <1>1, <3>2 DEF UpToDate
      <3>4. disk[Now][s].ver \in -1..MaxVersion
        BY <2>3 DEF IInv, Typed, File, Slots, Contents
      <3> QED
        BY <3>1, <3>2, <3>3, <3>4, LimitsAssumption
    <2>5. ScanInv'
      BY <1>1, <1>3, <2>4 DEF ScanInv, Now
    <2> QED
      BY <1>1, <1>3, <2>1, <2>2, <2>5, QuietStep DEF Holding, Choosing
  <1> QED
    BY <1>2, <1>3 DEF Prepare

----------------------------------------------------------------------------
(* Where the files come from.                                              *)

\* The package at work and the bound on what it would replace, when only the
\* source of its files changes.
LEMMA WorkScan ==
    ASSUME IInv, pc \in Working, pc' \in Working,
           UNCHANGED <<disk, index, plan, at, scanned>>
    PROVE  ScanInv'
  <1>1. pc' # "pkg" /\ Now' = Now
    BY DEF Working, Now
  <1> QED
    BY <1>1 DEF IInv, ScanInv

LEMMA SeedCacheKeeps == ASSUME IInv, SeedCache PROVE IInv'
  <1>1. /\ pc = "cached" /\ pc' = "hash"
        /\ UNCHANGED <<world, indexFile, disk, tmp, roots, index, step,
                       copying, history>>
    BY DEF SeedCache
  <1> USE DEF world, step, copying, history
  <1>2. cache' \in [Packages -> -1..MaxVersion]
    <2>1. CASE UNCHANGED cache
      BY <2>1 DEF IInv, Typed
    <2>2. CASE \E some \in SUBSET System :
                   cache' = [p \in Packages |->
                       IF p \in some THEN BaseVersion ELSE cache[p]]
      BY <2>2, LimitsAssumption DEF IInv, Typed
    <2> QED
      BY <2>1, <2>2 DEF SeedCache
  <1>3. Typed'
    BY <1>1, <1>2 DEF IInv, Typed, PCs
  <1>4. SourceInv'
    BY <1>1 DEF IInv, SourceInv, Working
  <1>5. at <= Len(plan) /\ ScanInv'
    BY <1>1, WorkScan DEF IInv, PlanInv, Working
  <1> QED
    BY <1>1, <1>3, <1>4, <1>5, QuietStep DEF Holding, Choosing

LEMMA HashCachedKeeps == ASSUME IInv, HashCached PROVE IInv'
  <1>1. /\ pc = "hash"
        /\ UNCHANGED <<world, files, job, step, writing, history>>
    BY DEF HashCached
  <1> USE DEF world, files, job, step, history
  <1>2. at <= Len(plan) /\ at \in 1..Len(plan) /\ Now \in Packages
    BY <1>1, Here DEF IInv, PlanInv, Working
  <1>3. CASE pc' = "archive" /\ UNCHANGED <<source, todo>>
    <2>1. Typed'
      BY <1>1, <1>3 DEF IInv, Typed, PCs
    <2>2. SourceInv'
      BY <1>1, <1>3 DEF IInv, SourceInv, Working
    <2>3. ScanInv'
      BY <1>1, <1>3, WorkScan DEF Working
    <2> QED
      BY <1>1, <1>2, <1>3, <2>1, <2>2, <2>3, QuietStep DEF Holding, Choosing
  <1>4. CASE cache[Now] = index[Now] /\ Extracts("cache")
    <2>1. pc' = "extract" /\ source' = "cache" /\ todo' = Contents(Now) /\ Now' = Now
      BY <1>1, <1>4 DEF Extracts, Now
    <2>2. Typed'
      BY <1>1, <2>1 DEF IInv, Typed, PCs, Contents, Slots
    <2>3. PlanInv'
      BY <1>1, <1>2, <2>1, PlanStays DEF Choosing
    <2>4. SourceInv'
      BY <1>1, <1>4, <2>1 DEF IInv, SourceInv, Working, Unpacked
    <2>5. writing = {}
      BY <1>1 DEF IInv, CopyInv
    <2>6. CopyInv'
      BY <1>1, <2>1, <2>5 DEF CopyInv
    <2>7. HalfInv'
      BY <1>1, <2>1, <2>5 DEF IInv, HalfInv
    <2>8. TmpInv'
      BY <1>1, <2>1 DEF IInv, TmpInv
    <2>9. ScanInv'
      BY <1>1, <2>1, WorkScan DEF Working
    <2>10. DoneInv'
      BY <1>1, DoneStays
    <2> QED
      BY <2>2, <2>3, <2>4, <2>6, <2>7, <2>8, <2>9, <2>10 DEF IInv
  <1> QED
    BY <1>3, <1>4 DEF HashCached

\* One entry of torn goes, the others stay.
LEMMA TornLess ==
    ASSUME NEW q, NEW s, torn' = torn \ {<<q, s>>}
    PROVE  \A p, t : <<p, t>> \in torn /\ (p # q \/ t # s) => <<p, t>> \in torn'
  <1>1. \A p, t : <<p, t>> = <<q, s>> => p = q /\ t = s
    OBVIOUS
  <1>2. \A p, t : <<p, t>> \in torn => <<p, t>> \in torn' \/ <<p, t>> = <<q, s>>
    OBVIOUS
  <1> QED
    BY <1>1, <1>2

\* Files of the package at work change; what is half-written of it is
\* accounted for.
LEMMA HalfKeeps ==
    ASSUME IInv, pc \in Working,
           \A p \in Packages : p # Now => disk'[p] = disk[p],
           \A p \in Packages, s \in Slots :
               <<p, s>> \in torn /\ p # Now => <<p, s>> \in torn',
           \A s \in Slots :
               disk'[Now][s] # Absent /\ ~disk'[Now][s].whole =>
                   \/ <<Now, s>> \in torn'
                   \/ pc' # "idle" /\ Now' = Now /\ s \in writing'
    PROVE  HalfInv'
  <1>1. Now \in Packages
    BY Here DEF IInv
  <1>2. ASSUME NEW p \in Packages, NEW s \in Slots, p # Now,
               disk'[p][s] # Absent /\ ~disk'[p][s].whole
        PROVE  <<p, s>> \in torn'
    <2>1. <<p, s>> \in torn
      BY <1>2 DEF IInv, HalfInv
    <2> QED
      BY <1>2, <2>1
  <1> QED
    BY <1>1, <1>2 DEF HalfInv

\* The archive of the package at work changes.
LEMMA TmpKeeps ==
    ASSUME IInv,
           \A p \in Packages : p # Now => tmp'[p] = tmp[p],
           \A p \in Packages : p \in leftover /\ p # Now => p \in leftover',
           tmp'[Now] # -1 =>
               \/ Now \in leftover'
               \/ /\ pc' \in {"fetch", "extract", "payload", "copy"} /\ Now' = Now
                  /\ pc' = "fetch" => Now \in Archives
                  /\ pc' # "fetch" => source' = "tmp"
    PROVE  TmpInv'
  <1>1. \A p \in Packages : p # Now /\ tmp[p] # -1 => p \in leftover
    BY DEF IInv, TmpInv
  <1> QED
    BY <1>1 DEF TmpInv

LEMMA StartDownloadKeeps == ASSUME IInv, StartDownload PROVE IInv'
  <1>1. /\ pc = "archive" /\ writing = {}
        /\ UNCHANGED <<world, indexFile, cache, job, step, source, todo>>
    BY DEF StartDownload, IInv, CopyInv
  <1>2. at \in 1..Len(plan) /\ Now \in Packages /\ Now' = Now
    BY <1>1, Here DEF IInv, Working, step, Now
  <1> USE DEF world, job, step
  <1>3. CASE Ends("failed") /\ UNCHANGED <<disk, tmp, torn, leftover, writing>>
    <2>1. Typed'
      BY <1>1, <1>3 DEF IInv, Typed, PCs, Ends
    <2> QED
      BY <1>1, <1>3, <2>1, QuietEnd DEF Holding
  <1>4. ASSUME pc' = "fetch" PROVE PlanInv' /\ SourceInv'
    <2>1. PlanInv'
      BY <1>1, <1>2, <1>4, PlanStays DEF Choosing
    <2>2. SourceInv'
      BY <1>1, <1>4 DEF IInv, SourceInv, Working
    <2> QED
      BY <2>1, <2>2
  <1>5. CASE /\ pc' = "fetch" /\ Now \in Archives
             /\ tmp' = [tmp EXCEPT ![Now] = 0]
             /\ leftover' = leftover \ {Now}
             /\ UNCHANGED <<disk, torn, writing>>
    <2>1. Typed'
      <3>1. tmp' \in [Packages -> -1..MaxVersion]
        BY <1>2, <1>5, LimitsAssumption DEF IInv, Typed
      <3> QED
        BY <1>1, <1>5, <3>1 DEF IInv, Typed, PCs
    <2>2. CopyInv' /\ HalfInv'
      BY <1>1, <1>2, <1>5 DEF IInv, CopyInv, HalfInv
    <2>3. TmpInv'
      BY <1>1, <1>2, <1>5, TmpKeeps DEF IInv, Typed
    <2>4. ScanInv' /\ DoneInv'
      BY <1>1, <1>5, WorkScan, DoneStays DEF Working
    <2> QED
      BY <1>4, <1>5, <2>1, <2>2, <2>3, <2>4 DEF IInv
  <1>6. ASSUME pc' = "fetch", Now \notin Archives,
               NEW f \in Partial(index[Now]),
               disk' = [disk EXCEPT ![Now]["main"] = f],
               writing' = {"main"}, torn' = torn \ {<<Now, "main">>},
               UNCHANGED <<tmp, leftover>>
        PROVE  IInv'
    <2>1. f \in File /\ ~f.whole
      BY <1>2, VersionsOf, FileFacts DEF IInv
    <2>2. /\ \A p \in Packages : p # Now => disk'[p] = disk[p]
          /\ \A s \in Slots : disk'[Now][s] = IF s = "main" THEN f ELSE disk[Now][s]
      BY <1>2, <1>6 DEF IInv, Typed, Slots
    <2>3. Typed'
      BY <1>1, <1>2, <1>6, <2>1 DEF IInv, Typed, PCs, Slots
    <2>4. CopyInv'
      BY <1>2, <1>6 DEF CopyInv
    <2>5. HalfInv'
      <3>1. \A s \in Slots : disk'[Now][s] # Absent /\ ~disk'[Now][s].whole =>
                s \in writing' \/ <<Now, s>> \in torn'
        BY <1>1, <1>2, <1>6, <2>2, TornLess DEF IInv, HalfInv
      <3> QED
        BY <1>1, <1>2, <1>6, <2>2, <3>1, TornLess, HalfKeeps DEF Working
    <2>6. TmpInv'
      BY <1>1, <1>6 DEF IInv, TmpInv
    <2>7. ScanInv'
      BY <1>1, <1>2, <1>6, <2>1, <2>2
         DEF IInv, ScanInv, Working, Contents, Slots
    <2>8. DoneInv'
      BY <1>1, <2>2, DoneKeeps DEF Working
    <2> QED
      BY <1>4, <1>6, <2>3, <2>4, <2>5, <2>6, <2>7, <2>8 DEF IInv
  <1> QED
    BY <1>3, <1>5, <1>6 DEF StartDownload

LEMMA DownloadFailsKeeps == ASSUME IInv, DownloadFails PROVE IInv'
  <1>1. /\ pc = "fetch" /\ pc' = "idle" /\ writing' = {}
        /\ UNCHANGED <<world, indexFile, cache, job, step, source, todo, history>>
    BY DEF DownloadFails, Ends
  <1>2. Now \in Packages
    BY <1>1, Here DEF IInv, Working
  <1> USE DEF world, job, step, history
  <1>3. CASE Now \in Archives /\ tmp' = [tmp EXCEPT ![Now] = -1] /\ UNCHANGED disk
    <2>1. Typed'
      <3>1. tmp' \in [Packages -> -1..MaxVersion]
        BY <1>2, <1>3, LimitsAssumption DEF IInv, Typed
      <3> QED
        BY <1>1, <1>3, <3>1 DEF IInv, Typed, PCs
    <2>2. HalfInv'
      BY <1>1, <1>3 DEF IInv, HalfInv, CopyInv
    <2>3. TmpInv'
      BY <1>1, <1>2, <1>3, TmpKeeps DEF IInv, Typed
    <2> QED
      BY <1>1, <2>1, <2>2, <2>3, EndsKeeps
  <1>4. CASE /\ Now \notin Archives
             /\ disk' = [disk EXCEPT ![Now]["main"] = Absent] /\ UNCHANGED tmp
    <2>1. Typed'
      BY <1>1, <1>2, <1>4, FileFacts DEF IInv, Typed, PCs, Slots
    <2>2. /\ \A p \in Packages : p # Now => disk'[p] = disk[p]
          /\ \A s \in Slots : disk'[Now][s] = IF s = "main" THEN Absent ELSE disk[Now][s]
      BY <1>2, <1>4 DEF IInv, Typed, Slots
    <2>3. writing = {"main"}
      BY <1>1, <1>4 DEF IInv, CopyInv
    <2>4. HalfInv'
      BY <1>1, <1>2, <2>2, <2>3, HalfKeeps DEF IInv, HalfInv, Working
    <2>5. TmpInv'
      BY <1>1, <1>4 DEF IInv, TmpInv
    <2> QED
      BY <1>1, <2>1, <2>3, <2>4, <2>5, EndsKeeps
  <1> QED
    BY <1>3, <1>4 DEF DownloadFails

LEMMA DownloadDoneKeeps == ASSUME IInv, DownloadDone PROVE IInv'
  <1>1. /\ pc = "fetch"
        /\ UNCHANGED <<world, indexFile, cache, job, history>>
    BY DEF DownloadDone
  <1>2. /\ at \in 1..Len(plan) /\ Now \in Packages
        /\ index[Now] \in 1..MaxVersion /\ index[Now] \in -1..MaxVersion
    BY <1>1, Here, VersionsOf DEF IInv, Working
  <1> USE DEF world, job, history
  <1>3. CASE /\ Now \in Archives
             /\ tmp' = [tmp EXCEPT ![Now] = index[Now]]
             /\ Extracts("tmp")
             /\ UNCHANGED <<disk, local, scanned, plan, at, installed, writing>>
    <2>1. /\ pc' = "extract" /\ source' = "tmp" /\ todo' = Contents(Now)
          /\ Now' = Now /\ writing' = {}
      BY <1>1, <1>3 DEF Extracts, Now, IInv, CopyInv
    <2>2. Typed'
      <3>1. tmp' \in [Packages -> -1..MaxVersion]
        BY <1>2, <1>3 DEF IInv, Typed
      <3> QED
        BY <1>1, <1>3, <2>1, <3>1 DEF IInv, Typed, PCs, Contents, Slots
    <2>3. PlanInv'
      BY <1>2, <1>3, <2>1, PlanStays DEF Choosing
    <2>4. tmp'[Now] = index[Now]
      BY <1>2, <1>3 DEF IInv, Typed
    <2>5. SourceInv'
      BY <1>1, <2>1, <2>4 DEF IInv, SourceInv, Working, Unpacked
    <2>6. CopyInv'
      BY <2>1 DEF CopyInv
    <2>7. HalfInv'
      BY <1>1, <1>3, <2>1 DEF IInv, HalfInv, CopyInv
    <2>8. TmpInv'
      BY <1>1, <1>2, <1>3, <2>1, TmpKeeps DEF IInv, Typed
    <2>9. ScanInv' /\ DoneInv'
      BY <1>1, <1>3, <2>1, WorkScan, DoneStays DEF Working
    <2> QED
      BY <2>2, <2>3, <2>5, <2>6, <2>7, <2>8, <2>9 DEF IInv
  <1>4. CASE /\ Now \notin Archives
             /\ disk' = [disk EXCEPT ![Now]["main"] = Whole(index[Now])]
             /\ writing' = {}
             /\ Rescan(Scan')
             /\ Installed
             /\ UNCHANGED <<tmp, source, todo>>
    <2>1. /\ at' = at + 1 /\ pc' = "pkg" /\ installed' = installed \cup {Now}
          /\ plan' = plan
      BY <1>4 DEF Installed
    <2>2. scanned' \in BOOLEAN /\ local' = IF scanned' THEN Scan' ELSE Nothing
      BY <1>4, RescanFacts
    <2>3. /\ \A p \in Packages : p # Now => disk'[p] = disk[p]
          /\ \A s \in Slots : disk'[Now][s] =
                 IF s = "main" THEN Whole(index[Now]) ELSE disk[Now][s]
      BY <1>2, <1>4 DEF IInv, Typed, Slots
    <2>4. Whole(index[Now]) \in File /\ Whole(index[Now]).whole
             /\ Whole(index[Now]).ver = index[Now]
      BY <1>2, FileFacts
    <2>5. Typed'
      <3>1. disk' \in [Packages -> [Slots -> File]]
        BY <1>2, <1>4, <2>4 DEF IInv, Typed, Slots
      <3> QED
        BY <1>1, <1>2, <1>4, <2>1, <2>2, <3>1 DEF IInv, Typed, PCs
    <2>6. PlanInv'
      BY <1>2, <2>1 DEF IInv, PlanInv, InOrder, Working, Choosing
    <2>7. SourceInv'
      BY <1>1, <2>1 DEF IInv, SourceInv, Working
    <2>8. writing = {"main"}
      BY <1>1, <1>4 DEF IInv, CopyInv
    <2>9. CopyInv'
      BY <1>4, <2>1 DEF CopyInv
    <2>10. HalfInv'
      BY <1>1, <1>2, <2>3, <2>4, <2>8, HalfKeeps DEF IInv, HalfInv, Working
    <2>11. TmpInv'
      BY <1>1, <1>4 DEF IInv, TmpInv
    <2>12. ScanInv'
      BY <2>1, <2>2 DEF ScanInv, Working, Nothing
    <2>13. DoneInv'
      <3>1. PICK q : q = Now
        OBVIOUS
      <3>2. q \notin Extras
        BY <1>4, <3>1, PackagesAssumption
      <3>3. disk'[q]["main"] = Whole(index'[q]) /\ Whole(index'[q]).ver >= index'[q]
        BY <1>1, <1>2, <2>3, <2>4, <3>1 DEF Slots
      <3>4. Reached(q)'
        BY <3>2, <3>3 DEF Reached
      <3> QED
        BY <1>1, <1>2, <2>1, <2>3, <3>1, <3>4, DoneNext
    <2> QED
      BY <2>5, <2>6, <2>7, <2>9, <2>10, <2>11, <2>12, <2>13 DEF IInv
  <1> QED
    BY <1>3, <1>4 DEF DownloadDone, Verified

----------------------------------------------------------------------------
(* Extraction.                                                             *)

\* In an extraction: the package, the version, and the file under way.
LEMMA Extracting ==
    ASSUME IInv, pc = "extract"
    PROVE  /\ at \in 1..Len(plan) /\ Now \in Packages
           /\ Unpacked = index[Now]
           /\ index[Now] \in 1..MaxVersion /\ index[Now] \in -1..MaxVersion
           /\ writing \subseteq Contents(Now) /\ todo \subseteq Contents(Now)
           /\ Contents(Now) \subseteq Slots
  BY Here, VersionsOf DEF IInv, Working, SourceInv, CopyInv, Contents, Slots

\* What an extraction leaves alone.
LEMMA ExtractFrame ==
    ASSUME IInv, pc = "extract", pc' \in {"extract", "payload"},
           UNCHANGED <<world, indexFile, tmp, cache, index, plan, at, source,
                       leftover>>
    PROVE  PlanInv' /\ SourceInv' /\ TmpInv' /\ Now' = Now
  <1> USE DEF world
  <1>1. Now' = Now
    BY DEF Now
  <1>2. PlanInv'
    BY Extracting, PlanStays DEF Choosing
  <1>3. SourceInv'
    BY <1>1 DEF IInv, SourceInv, Working, Unpacked
  <1>4. TmpInv'
    BY <1>1 DEF IInv, TmpInv
  <1> QED
    BY <1>1, <1>2, <1>3, <1>4

LEMMA ExtractFileKeeps == ASSUME IInv, ExtractFile PROVE IInv'
  <1>1. /\ pc = "extract" /\ pc' = "extract" /\ writing = {}
        /\ UNCHANGED <<world, indexFile, tmp, cache, job, step, source, leftover>>
    BY DEF ExtractFile
  <1>2. PICK s \in todo, f \in Partial(Unpacked) :
            /\ disk' = [disk EXCEPT ![Now][s] = f]
            /\ writing' = {s}
            /\ todo' = todo \ {s}
            /\ torn' = torn \ {<<Now, s>>}
    BY DEF ExtractFile
  <1> USE DEF world, job, step
  <1>3. /\ Now \in Packages /\ s \in Slots /\ s \in Contents(Now)
        /\ f \in File /\ ~f.whole
    BY <1>1, <1>2, Extracting, FileFacts
  <1>4. /\ \A p \in Packages : p # Now => disk'[p] = disk[p]
        /\ \A t \in Slots : disk'[Now][t] = IF t = s THEN f ELSE disk[Now][t]
    BY <1>2, <1>3 DEF IInv, Typed
  <1>5. Typed'
    BY <1>1, <1>2, <1>3 DEF IInv, Typed
  <1>6. PlanInv' /\ SourceInv' /\ TmpInv' /\ Now' = Now
    BY <1>1, ExtractFrame
  <1>7. CopyInv'
    <2>1. \A t \in Contents(Now) \ (todo' \cup writing') :
              disk'[Now][t] = Whole(index[Now])
      BY <1>1, <1>2, <1>4, Extracting DEF IInv, CopyInv
    <2> QED
      BY <1>1, <1>2, <1>3, <1>6, <2>1, Extracting DEF CopyInv
  <1>8. HalfInv'
    <2>1. \A t \in Slots : disk'[Now][t] # Absent /\ ~disk'[Now][t].whole =>
              t \in writing' \/ <<Now, t>> \in torn'
      BY <1>1, <1>2, <1>3, <1>4, TornLess DEF IInv, HalfInv
    <2> QED
      BY <1>1, <1>2, <1>4, <1>6, <2>1, TornLess, HalfKeeps DEF Working
  <1>9. ScanInv'
    <2>1. Contents(Now) \subseteq Slots
      BY <1>1, Extracting
    <2> QED
      BY <1>1, <1>3, <1>4, <1>6, <2>1 DEF IInv, ScanInv, Working
  <1>10. DoneInv'
    BY <1>1, <1>4, DoneKeeps DEF Working
  <1> QED
    BY <1>5, <1>6, <1>7, <1>8, <1>9, <1>10 DEF IInv

LEMMA ExtractFileDoneKeeps == ASSUME IInv, ExtractFileDone PROVE IInv'
  <1>1. /\ pc = "extract" /\ pc' = "extract" /\ writing' = {}
        /\ UNCHANGED <<world, indexFile, tmp, cache, job, step, source, todo,
                       history>>
    BY DEF ExtractFileDone
  <1>2. PICK s \in writing : disk' = [disk EXCEPT ![Now][s] = Whole(Unpacked)]
    BY DEF ExtractFileDone
  <1> USE DEF world, job, step, history
  <1>3. /\ Now \in Packages /\ s \in Slots /\ writing = {s}
        /\ Unpacked = index[Now] /\ index[Now] \in -1..MaxVersion
        /\ Whole(index[Now]) \in File /\ Whole(index[Now]).whole
        /\ Whole(index[Now]).ver = index[Now]
    <2>1. writing = {s}
      BY <1>1, <1>2 DEF IInv, CopyInv
    <2> QED
      BY <1>1, <1>2, <2>1, Extracting, FileFacts
  <1>4. /\ \A p \in Packages : p # Now => disk'[p] = disk[p]
        /\ \A t \in Slots : disk'[Now][t] =
               IF t = s THEN Whole(index[Now]) ELSE disk[Now][t]
    BY <1>2, <1>3 DEF IInv, Typed
  <1>5. Typed'
    BY <1>1, <1>2, <1>3 DEF IInv, Typed
  <1>6. PlanInv' /\ SourceInv' /\ TmpInv' /\ Now' = Now
    BY <1>1, ExtractFrame
  <1>7. CopyInv'
    <2>1. \A t \in Contents(Now) \ todo : disk'[Now][t] = Whole(index[Now])
      BY <1>1, <1>3, <1>4, Extracting DEF IInv, CopyInv
    <2> QED
      BY <1>1, <1>6, <2>1, Extracting DEF CopyInv
  <1>8. HalfInv'
    BY <1>1, <1>3, <1>4, <1>6, HalfKeeps DEF IInv, HalfInv, Working
  <1>9. ScanInv'
    <2>1. Contents(Now) \subseteq Slots /\ index[Now] \in 1..MaxVersion
      BY <1>1, Extracting
    <2> QED
      BY <1>1, <1>3, <1>4, <1>6, <2>1 DEF IInv, ScanInv, Working
  <1>10. DoneInv'
    BY <1>1, <1>4, DoneKeeps DEF Working
  <1> QED
    BY <1>5, <1>6, <1>7, <1>8, <1>9, <1>10 DEF IInv

LEMMA ExtractedKeeps == ASSUME IInv, Extracted PROVE IInv'
  <1>1. /\ pc = "extract" /\ pc' = "payload" /\ writing = {} /\ todo = {}
        /\ UNCHANGED <<world, files, job, step, copying, history>>
    BY DEF Extracted
  <1> USE DEF world, files, job, step, copying, history
  <1>2. Typed'
    BY <1>1 DEF IInv, Typed, PCs
  <1>3. PlanInv' /\ SourceInv' /\ TmpInv' /\ Now' = Now
    BY <1>1, ExtractFrame
  <1>4. Complete(Now)
    BY <1>1 DEF IInv, CopyInv, Complete, Contents
  <1>5. CopyInv'
    BY <1>1, <1>3, <1>4 DEF CopyInv, Complete
  <1>6. HalfInv'
    BY <1>1 DEF IInv, HalfInv
  <1>7. ScanInv' /\ DoneInv'
    BY <1>1, WorkScan, DoneStays DEF Working
  <1> QED
    BY <1>2, <1>3, <1>5, <1>6, <1>7 DEF IInv

\* The archive of the package at work is unlinked.
LEMMA DroppedFacts ==
    ASSUME IInv, Now \in Packages, tmp' = Dropped
    PROVE  /\ tmp' \in [Packages -> -1..MaxVersion]
           /\ \A p \in Packages : p # Now => tmp'[p] = tmp[p]
           /\ tmp'[Now] = -1
  BY LimitsAssumption DEF IInv, Typed, Dropped

LEMMA ExtractFailsKeeps == ASSUME IInv, ExtractFails PROVE IInv'
  <1>1. /\ pc = "extract" /\ writing' = {} /\ todo' = {}
        /\ disk' = [disk EXCEPT ![Now] =
               [s \in Slots |-> IF s \in writing THEN Absent ELSE disk[Now][s]]]
        /\ UNCHANGED <<world, indexFile, cache, job, step, source, history>>
    BY DEF ExtractFails
  <1> USE DEF world, job, step, history
  <1>2. Now \in Packages /\ at \in 1..Len(plan) /\ Contents(Now) \subseteq Slots
    BY <1>1, Extracting
  <1>3. /\ \A p \in Packages : p # Now => disk'[p] = disk[p]
        /\ \A s \in Slots : disk'[Now][s] =
               IF s \in writing THEN Absent ELSE disk[Now][s]
    BY <1>1, <1>2 DEF IInv, Typed
  <1>4. disk' \in [Packages -> [Slots -> File]]
    <2>1. [s \in Slots |-> IF s \in writing THEN Absent ELSE disk[Now][s]]
              \in [Slots -> File]
      BY <1>2, FileFacts DEF IInv, Typed
    <2> QED
      BY <1>1, <1>2, <2>1 DEF IInv, Typed
  <1>5. HalfInv'
    BY <1>1, <1>2, <1>3, HalfKeeps DEF IInv, HalfInv, Working
  <1>6. CASE source = "cache" /\ pc' = "archive" /\ UNCHANGED tmp
    <2>1. Typed'
      BY <1>1, <1>4, <1>6 DEF IInv, Typed, PCs
    <2>2. PlanInv' /\ Now' = Now
      BY <1>1, <1>2, <1>6, PlanStays DEF Choosing, Now
    <2>3. SourceInv'
      BY <1>1, <1>6 DEF IInv, SourceInv, Working
    <2>4. CopyInv'
      BY <1>1, <1>6 DEF CopyInv
    <2>5. TmpInv'
      BY <1>1, <1>6 DEF IInv, TmpInv
    <2>6. ScanInv'
      BY <1>1, <1>2, <1>3, <1>6, <2>2, FileFacts DEF IInv, ScanInv, Working
    <2>7. DoneInv'
      BY <1>1, <1>3, DoneKeeps DEF Working
    <2> QED
      BY <1>5, <2>1, <2>2, <2>3, <2>4, <2>5, <2>6, <2>7 DEF IInv
  <1>7. CASE Ends("failed") /\ tmp' = Dropped
    <2>1. /\ tmp' \in [Packages -> -1..MaxVersion]
          /\ \A p \in Packages : p # Now => tmp'[p] = tmp[p]
          /\ tmp'[Now] = -1
      BY <1>2, <1>7, DroppedFacts
    <2>2. Typed'
      BY <1>1, <1>4, <1>7, <2>1 DEF IInv, Typed, PCs, Ends
    <2>3. TmpInv'
      BY <1>1, <2>1, TmpKeeps
    <2> QED
      BY <1>1, <1>5, <1>7, <2>2, <2>3, EndsKeeps DEF Ends
  <1> QED
    BY <1>1, <1>6, <1>7 DEF ExtractFails

----------------------------------------------------------------------------
(* The payload.                                                            *)

\* A run that fails with an archive in /tmp and all it wrote whole.
LEMMA DroppedEnds ==
    ASSUME IInv, pc \in Working, Ends("failed"), tmp' = Dropped, writing' = {},
           disk' \in [Packages -> [Slots -> File]], HalfInv',
           UNCHANGED <<world, indexFile, cache, job, step, source, todo, history>>
    PROVE  IInv'
  <1> USE DEF world, job, step, history
  <1>1. Now \in Packages
    BY Here DEF IInv
  <1>2. /\ tmp' \in [Packages -> -1..MaxVersion]
        /\ \A p \in Packages : p # Now => tmp'[p] = tmp[p]
        /\ tmp'[Now] = -1
    BY <1>1, DroppedFacts
  <1>3. Typed'
    BY <1>2 DEF IInv, Typed, PCs, Ends
  <1>4. TmpInv'
    BY <1>2, TmpKeeps
  <1> QED
    BY <1>3, <1>4, EndsKeeps DEF Ends

LEMMA PayloadFoundKeeps == ASSUME IInv, PayloadFound PROVE IInv'
  <1>1. /\ pc = "payload" /\ writing = {} /\ Complete(Now)
        /\ UNCHANGED <<world, indexFile, disk, cache, job, copying, history>>
    BY DEF PayloadFound, IInv, CopyInv, copying
  <1> USE DEF world, job, copying, history
  <1>2. /\ at \in 1..Len(plan) /\ Now \in Packages
        /\ index[Now] \in 1..MaxVersion /\ index[Now] \in -1..MaxVersion
    BY <1>1, Here, VersionsOf DEF IInv, Working
  <1>3. CASE /\ tmp' = IF source = "tmp" THEN Dropped ELSE tmp
             /\ Rescan(Scan)
             /\ Installed
    <2>1. /\ at' = at + 1 /\ pc' = "pkg" /\ installed' = installed \cup {Now}
          /\ plan' = plan
      BY <1>3 DEF Installed
    <2>2. scanned' \in BOOLEAN /\ local' = IF scanned' THEN Scan ELSE Nothing
      BY <1>3, RescanFacts
    <2>3. /\ tmp' \in [Packages -> -1..MaxVersion]
          /\ TmpInv'
      <3>1. CASE source = "tmp"
        <4>1. /\ tmp' \in [Packages -> -1..MaxVersion]
              /\ \A p \in Packages : p # Now => tmp'[p] = tmp[p]
              /\ tmp'[Now] = -1
          BY <1>2, <1>3, <3>1, DroppedFacts
        <4> QED
          BY <1>1, <4>1, TmpKeeps
      <3>2. CASE source # "tmp"
        BY <1>1, <1>3, <3>2 DEF IInv, Typed, TmpInv
      <3> QED
        BY <3>1, <3>2
    <2>4. Typed'
      BY <1>1, <1>2, <2>1, <2>2, <2>3 DEF IInv, Typed, PCs
    <2>5. PlanInv'
      BY <1>2, <2>1 DEF IInv, PlanInv, InOrder, Working, Choosing
    <2>6. SourceInv'
      BY <1>1, <2>1 DEF IInv, SourceInv, Working
    <2>7. CopyInv' /\ HalfInv'
      BY <1>1, <2>1 DEF IInv, CopyInv, HalfInv
    <2>8. ScanInv'
      BY <1>1, <2>1, <2>2, SameScan DEF ScanInv, Working, Nothing
    <2>9. DoneInv'
      <3>1. PICK q : q = Now
        OBVIOUS
      <3>2. Whole(index[q]).ver >= index[q]
        BY <1>2, <3>1, FileFacts
      <3>3. Reached(q)'
        BY <1>1, <3>1, <3>2 DEF Reached, Complete
      <3> QED
        BY <1>1, <1>2, <2>1, <3>1, <3>3, DoneNext
    <2> QED
      BY <2>3, <2>4, <2>5, <2>6, <2>7, <2>8, <2>9 DEF IInv
  <1>4. CASE source = "cache" /\ pc' = "archive" /\ UNCHANGED <<tmp, step>>
    <2> USE DEF step
    <2>1. Typed'
      BY <1>1, <1>4 DEF IInv, Typed, PCs
    <2>2. PlanInv' /\ ScanInv' /\ DoneInv'
      BY <1>1, <1>2, <1>4, PlanStays, WorkScan, DoneStays DEF Working, Choosing
    <2>3. SourceInv'
      BY <1>1, <1>4 DEF IInv, SourceInv, Working
    <2>4. CopyInv' /\ HalfInv' /\ TmpInv'
      BY <1>1, <1>4 DEF IInv, CopyInv, HalfInv, TmpInv
    <2> QED
      BY <2>1, <2>2, <2>3, <2>4 DEF IInv
  <1>5. CASE Ends("failed") /\ tmp' = Dropped /\ UNCHANGED step
    <2>1. HalfInv'
      BY <1>1 DEF IInv, HalfInv
    <2> QED
      BY <1>1, <1>5, <2>1, DroppedEnds DEF IInv, Typed, Working
  <1> QED
    BY <1>3, <1>4, <1>5 DEF PayloadFound

LEMMA PayloadElsewhereKeeps == ASSUME IInv, PayloadElsewhere PROVE IInv'
  <1>1. /\ pc = "payload" /\ writing = {} /\ Complete(Now)
        /\ disk[Now]["main"] = Absent
        /\ UNCHANGED <<world, indexFile, tmp, cache, job, step, source, todo,
                       leftover>>
    BY DEF PayloadElsewhere, Exists, IInv, CopyInv
  <1> USE DEF world, job, step
  <1>2. /\ at \in 1..Len(plan) /\ Now \in Packages /\ Now' = Now
        /\ index[Now] \in 1..MaxVersion /\ index[Now] \in -1..MaxVersion
    BY <1>1, Here, VersionsOf DEF IInv, Working, Now
  <1>3. ASSUME pc' \in {"archive", "copy"} PROVE PlanInv' /\ SourceInv'
    <2>1. PlanInv'
      BY <1>1, <1>2, <1>3, PlanStays DEF Choosing
    <2>2. SourceInv'
      BY <1>1, <1>3 DEF IInv, SourceInv, Working
    <2> QED
      BY <2>1, <2>2
  <1>4. CASE source = "cache" /\ pc' = "archive" /\ UNCHANGED <<disk, torn, writing>>
    <2>1. Typed'
      BY <1>1, <1>4 DEF IInv, Typed, PCs
    <2>2. ScanInv' /\ DoneInv'
      BY <1>1, <1>4, WorkScan, DoneStays DEF Working
    <2>3. CopyInv' /\ HalfInv' /\ TmpInv'
      BY <1>1, <1>4 DEF IInv, CopyInv, HalfInv, TmpInv
    <2> QED
      BY <1>3, <1>4, <2>1, <2>2, <2>3 DEF IInv
  <1>5. ASSUME source = "tmp", pc' = "copy",
               NEW f \in Partial(disk[Now]["legacy"].ver),
               disk' = [disk EXCEPT ![Now]["main"] = f],
               writing' = {"main"}, torn' = torn \ {<<Now, "main">>}
        PROVE  IInv'
    <2>1. Whole(index[Now]) # Absent /\ Whole(index[Now]).ver = index[Now]
      BY <1>2, FileFacts
    <2>2. disk[Now]["legacy"] = Whole(index[Now])
      BY <1>1, <2>1 DEF Complete
    <2>3. f \in File /\ ~f.whole
      BY <1>2, <2>1, <2>2, FileFacts
    <2>4. /\ \A p \in Packages : p # Now => disk'[p] = disk[p]
          /\ \A s \in Slots : disk'[Now][s] = IF s = "main" THEN f ELSE disk[Now][s]
      BY <1>2, <1>5 DEF IInv, Typed, Slots
    <2>5. Typed'
      BY <1>1, <1>2, <1>5, <2>3 DEF IInv, Typed, PCs, Slots
    <2>6. CopyInv'
      BY <1>1, <1>2, <1>5, <2>2, <2>4 DEF CopyInv, Complete, Slots
    <2>7. HalfInv'
      <3>1. \A s \in Slots : disk'[Now][s] # Absent /\ ~disk'[Now][s].whole =>
                s \in writing' \/ <<Now, s>> \in torn'
        BY <1>1, <1>2, <1>5, <2>4, TornLess DEF IInv, HalfInv
      <3> QED
        BY <1>1, <1>2, <1>5, <2>4, <3>1, TornLess, HalfKeeps DEF Working
    <2>8. TmpInv'
      BY <1>1, <1>2, <1>5 DEF IInv, TmpInv
    <2>9. ScanInv'
      BY <1>1, <1>2, <1>5, <2>3, <2>4 DEF IInv, ScanInv, Working, Contents, Slots
    <2>10. DoneInv'
      BY <1>1, <2>4, DoneKeeps DEF Working
    <2> QED
      BY <1>3, <1>5, <2>5, <2>6, <2>7, <2>8, <2>9, <2>10 DEF IInv
  <1> QED
    BY <1>4, <1>5 DEF PayloadElsewhere

LEMMA CopyDoneKeeps == ASSUME IInv, CopyDone PROVE IInv'
  <1>1. /\ pc = "copy" /\ writing = {"main"} /\ writing' = {} /\ source = "tmp"
        /\ disk[Now]["legacy"] = Whole(index[Now])
        /\ Now \in Extras => disk[Now]["data"] = Whole(index[Now])
        /\ UNCHANGED <<world, indexFile, cache, job, step, source, todo, history>>
    BY DEF CopyDone, IInv, CopyInv
  <1> USE DEF world, job, step, history
  <1>2. /\ at \in 1..Len(plan) /\ Now \in Packages /\ Now' = Now
        /\ index[Now] \in 1..MaxVersion /\ index[Now] \in -1..MaxVersion
    BY <1>1, Here, VersionsOf DEF IInv, Working, Now
  <1>3. /\ Whole(index[Now]) \in File /\ Whole(index[Now]).whole
        /\ Whole(index[Now]).ver = index[Now]
        /\ Absent \in File /\ ~Absent.whole
    BY <1>2, FileFacts
  <1>4. CASE /\ disk' = [disk EXCEPT ![Now]["main"] = disk[Now]["legacy"],
                                     ![Now]["legacy"] = Absent]
             /\ pc' = "payload" /\ UNCHANGED tmp
    <2>1. /\ \A p \in Packages : p # Now => disk'[p] = disk[p]
          /\ \A s \in Slots : disk'[Now][s] =
                 IF s = "main" THEN Whole(index[Now])
                 ELSE IF s = "legacy" THEN Absent ELSE disk[Now][s]
      BY <1>1, <1>2, <1>4 DEF IInv, Typed, Slots
    <2>2. Typed'
      <3>1. disk' \in [Packages -> [Slots -> File]]
        BY <1>1, <1>2, <1>3, <1>4 DEF IInv, Typed, Slots
      <3> QED
        BY <1>1, <1>4, <3>1 DEF IInv, Typed, PCs
    <2>3. PlanInv'
      BY <1>1, <1>2, <1>4, PlanStays DEF Choosing
    <2>4. SourceInv'
      BY <1>1, <1>4 DEF IInv, SourceInv, Working
    <2>5. CopyInv'
      BY <1>1, <1>2, <1>4, <2>1 DEF CopyInv, Complete, Slots
    <2>6. HalfInv'
      BY <1>1, <1>2, <1>3, <2>1, HalfKeeps DEF IInv, HalfInv, Working
    <2>7. TmpInv'
      BY <1>1, <1>2, <1>4 DEF IInv, TmpInv
    <2>8. ScanInv'
      BY <1>1, <1>2, <1>3, <1>4, <2>1 DEF IInv, ScanInv, Working, Contents, Slots
    <2>9. DoneInv'
      BY <1>1, <2>1, DoneKeeps DEF Working
    <2> QED
      BY <2>2, <2>3, <2>4, <2>5, <2>6, <2>7, <2>8, <2>9 DEF IInv
  <1>5. CASE /\ disk' = [disk EXCEPT ![Now]["main"] = Absent]
             /\ Ends("failed") /\ tmp' = Dropped
    <2>1. /\ \A p \in Packages : p # Now => disk'[p] = disk[p]
          /\ \A s \in Slots : disk'[Now][s] = IF s = "main" THEN Absent ELSE disk[Now][s]
      BY <1>2, <1>5 DEF IInv, Typed, Slots
    <2>2. disk' \in [Packages -> [Slots -> File]]
      BY <1>2, <1>3, <1>5 DEF IInv, Typed, Slots
    <2>3. HalfInv'
      BY <1>1, <1>2, <2>1, HalfKeeps DEF IInv, HalfInv, Working
    <2> QED
      BY <1>1, <1>5, <2>2, <2>3, DroppedEnds DEF Working
  <1> QED
    BY <1>4, <1>5 DEF CopyDone

\* A crash leaves what was being written and unpacked, and says so.
LEMMA CrashKeeps == ASSUME IInv, Crash PROVE IInv'
  <1>1. /\ pc' = "idle" /\ writing' = {} /\ todo' = {}
        /\ torn' = torn \cup {<<Now, s>> : s \in writing}
        /\ leftover' = IF pc \in {"fetch", "extract", "payload", "copy"}
                       THEN leftover \cup {Now} ELSE leftover
        /\ UNCHANGED <<world, indexFile, disk, tmp, job, step, source>>
    BY DEF Crash
  <1> USE DEF world, job, step
  <1>2. cache' \in [Packages -> -1..MaxVersion]
    <2>1. CASE cache' = cache
      BY <2>1 DEF IInv, Typed
    <2>2. CASE \E p \in System : cache' = [cache EXCEPT ![p] = 0]
      <3>1. 0 \in -1..MaxVersion
        BY LimitsAssumption
      <3> QED
        BY <2>2, <3>1 DEF IInv, Typed
    <2> QED
      BY <2>1, <2>2 DEF Crash
  <1>3. Typed'
    BY <1>1, <1>2 DEF IInv, Typed, PCs
  <1>4. HalfInv'
    BY <1>1 DEF IInv, HalfInv
  <1>5. TmpInv'
    BY <1>1 DEF IInv, TmpInv
  <1> QED
    BY <1>1, <1>3, <1>4, <1>5, EndsKeeps

LEMMA NextKeeps == ASSUME IInv, [Next]_vars PROVE IInv'
  <1>1. CASE UNCHANGED vars
    <2> USE <1>1 DEF vars, world, files, job, step, copying, bounds, history
    <2>1. Typed' /\ PlanInv' /\ SourceInv'
      BY DEF IInv, Typed, PlanInv, InOrder, SourceInv, Unpacked, Now
    <2>2. CopyInv' /\ HalfInv' /\ TmpInv'
      BY DEF IInv, CopyInv, Complete, HalfInv, TmpInv, Now
    <2>3. ScanInv' /\ DoneInv'
      BY SameScan DEF IInv, ScanInv, DoneInv, Reached, Now
    <2> QED
      BY <2>1, <2>2, <2>3 DEF IInv
  <1>2. CASE Installer
    BY <1>2, NetworkKeeps, CachedFirstKeeps, StoreIndexKeeps, FillIndexKeeps,
       ResolveKeeps, PlanDoneKeeps, SkipKeeps, PrepareKeeps, SeedCacheKeeps,
       HashCachedKeeps, StartDownloadKeeps, DownloadFailsKeeps,
       DownloadDoneKeeps, ExtractFileKeeps, ExtractFileDoneKeeps,
       ExtractedKeeps, ExtractFailsKeeps, PayloadFoundKeeps,
       PayloadElsewhereKeeps, CopyDoneKeeps DEF Installer
  <1> QED
    BY <1>1, <1>2, BeginKeeps, CrashKeeps, PublishKeeps, RemoveKeeps DEF Next

\* The invariant of install: what is on the disk and in /tmp, how far the plan
\* is, what the scan knows, and where the files come from.
THEOREM RunInvariant == Spec => []IInv
  <1>1. Init => IInv
    BY InitHolds
  <1>2. IInv /\ [Next]_vars => IInv'
    BY NextKeeps
  <1> QED
    BY <1>1, <1>2, PTL DEF Spec

----------------------------------------------------------------------------
(* What follows.                                                           *)

\* Runs use published indexes and unpack only what the index describes.
THEOREM PublishedOnly == Spec => []OnlyPublished
  <1>1. IInv => OnlyPublished
    BY DEF IInv, SourceInv, OnlyPublished, Working
  <1> QED
    BY <1>1, RunInvariant, PTL

\* Half-written files and archives in /tmp come from crashes only.
THEOREM HalfByCrash == Spec => []PartialOnlyByCrash
  <1>1. IInv => PartialOnlyByCrash
    BY DEF IInv, HalfInv, TmpInv, PartialOnlyByCrash
  <1> QED
    BY <1>1, RunInvariant, PTL

\* What an installed package depends on is there and new enough.
THEOREM DependenciesFirst == Spec => []DependenciesThere
  <1>1. IInv => DependenciesThere
    <2> SUFFICES ASSUME IInv, NEW p \in installed, pc # "idle",
                        NEW i \in 1..Len(Depends[p])
                 PROVE  \E s \in {"main", "legacy"} :
                            disk[Depends[p][i]][s].ver >= index[Depends[p][i]]
      BY DEF DependenciesThere
    <2>1. PICK j \in 1..(at - 1) : plan[j] = p
      BY DEF IInv, DoneInv
    <2>2. j \in 1..Len(plan) /\ InOrder
      BY DEF IInv, PlanInv
    <2>3. PICK k \in 1..(j - 1) : plan[k] = Depends[p][i]
      BY <2>1, <2>2 DEF InOrder
    <2>4. k \in 1..(at - 1)
      BY DEF IInv, PlanInv
    <2>5. Reached(plan[k])
      BY <2>4 DEF IInv, DoneInv
    <2> QED
      BY <2>3, <2>5 DEF Reached
  <1> QED
    BY <1>1, RunInvariant, PTL

\* A plan that is done has left all of it as new as the index.
THEOREM PlansInstall == Spec => []PlanInstalls
  <1>1. IInv => PlanInstalls
    <2> SUFFICES ASSUME IInv, pc = "pkg", at > Len(plan), NEW i \in 1..Len(plan)
                 PROVE  Reached(plan[i])
      BY DEF PlanInstalls, Reached
    <2>1. i \in 1..(at - 1)
      BY DEF IInv, PlanInv
    <2> QED
      BY <2>1 DEF IInv, DoneInv
  <1> QED
    BY <1>1, RunInvariant, PTL

\* A step that leaves a whole file half written is the first of a download, of
\* a file of an archive or of a copy, for the package at work.
LEMMA Overwrites ==
    ASSUME IInv, Next, NEW p \in InBinaries, NEW s \in {"main", "legacy"},
           disk[p][s].whole, ~disk'[p][s].whole, disk'[p][s] # Absent,
           pc # "idle", scanned
    PROVE  index[p] >= disk[p][s].ver
  <1> USE DEF world, files, job, step, copying, bounds, history
  <1>1. p \in Packages /\ s \in Slots
    BY PackagesAssumption DEF Slots
  <1>2. disk' # disk
    OBVIOUS
  <1>3. /\ \A v : Whole(v).whole
        /\ ~Absent.whole
    BY DEF Whole, Absent
  <1>4. ASSUME pc \in Working
        PROVE  /\ Now \in Packages
               /\ p = Now /\ s \in Contents(Now) => index[p] >= disk[p][s].ver
    <2>1. Now \in Packages /\ index[Now] \in 1..MaxVersion
      BY <1>4, Here, VersionsOf DEF IInv
    <2>2. disk[p][s].ver \in -1..MaxVersion
      BY <1>1 DEF IInv, Typed, File
    <2>3. p = Now /\ s \in Contents(Now) => disk[p][s].ver <= index[p]
      BY <1>4 DEF IInv, ScanInv
    <2> QED
      BY <2>1, <2>2, <2>3, LimitsAssumption
  <1>5. CASE StartDownload
    <2>1. p = Now /\ s = "main" /\ Now \notin Archives /\ pc \in Working
      BY <1>1, <1>2, <1>5 DEF StartDownload, IInv, Typed, Working, Slots
    <2>2. s \in Contents(Now)
      BY <2>1, PackagesAssumption DEF Contents
    <2> QED
      BY <1>4, <2>1, <2>2
  <1>6. CASE ExtractFile
    <2>1. PICK t \in todo, f \in Partial(Unpacked) :
              disk' = [disk EXCEPT ![Now][t] = f]
      BY <1>6 DEF ExtractFile
    <2>2. pc = "extract" /\ t \in Contents(Now) /\ t \in Slots /\ Now \in Packages
      BY <1>6, Extracting DEF ExtractFile
    <2>3. p = Now /\ s = t
      BY <1>1, <2>1, <2>2 DEF IInv, Typed
    <2> QED
      BY <1>4, <2>2, <2>3 DEF Working
  <1>7. CASE PayloadElsewhere
    <2>1. pc = "payload" /\ disk[Now]["main"] = Absent /\ Now \in Packages
      BY <1>4, <1>7 DEF PayloadElsewhere, Exists, Working
    <2>2. p # Now \/ s # "main"
      BY <1>3, <2>1
    <2>3. disk'[p][s] = disk[p][s]
      BY <1>1, <1>7, <2>1, <2>2 DEF PayloadElsewhere, IInv, Typed, Slots
    <2> QED
      BY <2>3
  <1>8. CASE DownloadFails \/ DownloadDone
    <2>1. pc \in Working /\ Now \in Packages
      BY <1>4, <1>8 DEF DownloadFails, DownloadDone, Working
    <2>2. \/ disk' = [disk EXCEPT ![Now]["main"] = Absent]
          \/ \E v : disk' = [disk EXCEPT ![Now]["main"] = Whole(v)]
      BY <1>2, <1>8 DEF DownloadFails, DownloadDone
    <2> QED
      BY <1>1, <1>3, <2>1, <2>2 DEF IInv, Typed, Slots
  <1>9. CASE ExtractFileDone
    <2>1. Now \in Packages
      BY <1>9, Extracting DEF ExtractFileDone
    <2> QED
      BY <1>1, <1>3, <1>9, <2>1 DEF ExtractFileDone, IInv, Typed
  <1>10. CASE ExtractFails
    <2>1. /\ Now \in Packages
          /\ disk' = [disk EXCEPT ![Now] =
                 [t \in Slots |-> IF t \in writing THEN Absent ELSE disk[Now][t]]]
      BY <1>10, Extracting DEF ExtractFails
    <2> QED
      BY <1>1, <1>3, <2>1 DEF IInv, Typed
  <1>11. CASE CopyDone
    <2>1. /\ Now \in Packages
          /\ disk[Now]["legacy"] = Whole(index[Now])
      BY <1>4, <1>11 DEF CopyDone, Working, IInv, CopyInv
    <2>2. \/ disk' = [disk EXCEPT ![Now]["main"] = disk[Now]["legacy"],
                                  ![Now]["legacy"] = Absent]
          \/ disk' = [disk EXCEPT ![Now]["main"] = Absent]
      BY <1>11 DEF CopyDone
    <2> QED
      BY <1>1, <1>3, <2>1, <2>2 DEF IInv, Typed, Slots
  <1>12. CASE \/ Network \/ CachedFirst \/ StoreIndex \/ FillIndex
              \/ Resolve \/ PlanDone \/ Skip \/ Prepare \/ SeedCache
              \/ HashCached \/ Extracted \/ PayloadFound
    BY <1>2, <1>12 DEF Network, CachedFirst, StoreIndex, FillIndex, Resolve,
       PlanDone, Skip, Prepare, SeedCache, HashCached, Extracted, PayloadFound
  <1>13. CASE Begin \/ Crash \/ \E q \in Packages : Publish(q) \/ Remove(q)
    BY <1>2, <1>13 DEF Begin, Crash, Publish, Remove
  <1> QED
    BY <1>5, <1>6, <1>7, <1>8, <1>9, <1>10, <1>11, <1>12, <1>13
       DEF Next, Installer

\* A run never replaces a program in /binaries by an older one.
THEOREM NeverOlder == Spec => NoDowngrade
  <1>1. IInv /\ [Next]_vars =>
            [\A p \in InBinaries, s \in {"main", "legacy"} :
                 disk[p][s].whole /\ ~disk'[p][s].whole /\ pc # "idle" /\ scanned
                     /\ disk'[p][s] # Absent
                 => index[p] >= disk[p][s].ver]_vars
    BY Overwrites
  <1> QED
    BY <1>1, RunInvariant, PTL DEF Spec, NoDowngrade
=============================================================================
