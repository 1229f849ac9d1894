---------------------------- MODULE ExtractArchive ----------------------------
(***************************************************************************)
(* packages/extract/extract_uelf.c, which install and installer carry as   *)
(* extract_embedded.c: a tar archive, plain or gzipped, is unpacked into a *)
(* directory while it is read.  The loop over its entries asks a reader    *)
(* for so many bytes; the reader takes them from the file, in whatever     *)
(* portions it comes, or from an inflater that stops between any two bytes *)
(* and goes on at the next request.  A byte is a unit here and a tar block *)
(* BlockSize of them.                                                      *)
(***************************************************************************)
EXTENDS Integers, Sequences, FiniteSetsExt, SequencesExt

CONSTANTS
    Archives,    \* archives: their members, and how many zero blocks end them
    BlockSize,   \* TAR_BLOCK_SIZE
    IoChunk,     \* TAR_IO_CHUNK
    PaxMax,      \* PAX_HEADER_MAX
    PathMax,     \* EXTRACT_PATH_MAX, in components of a path
    Dest,        \* components of the destination
    Window,      \* GZIP_WINDOW_SIZE
    MaxStored,   \* the longest stored block
    MaxCopy      \* the longest match

ASSUME ExtractAssumption ==
    /\ {BlockSize, IoChunk, PathMax, Window, MaxStored, MaxCopy} \subseteq Nat \ {0}
    /\ {PaxMax, Dest} \subseteq Nat /\ Dest < PathMax

Entries == {"file", "dir", "other"}
NoName == <<"?">>

(* Archives as tar writes them.  An entry has a name, and only what goes   *)
(* before one spells a path.  Two zero blocks in a row, or one behind the  *)
(* last member, are the end and counted by the marker.  Contents are       *)
(* numbers but 0, which damage makes of them.                              *)
ASSUME ArchivesAssumption ==
    \A a \in Archives :
        /\ a.marker \in Nat
        /\ a.members \in Seq([type : Entries \cup {"long", "pax", "global", "zero", "broken"},
                              name : Seq(STRING), data : Seq(Nat \ {0}), path : Seq(STRING)])
        /\ \A i \in DOMAIN a.members :
              LET m == a.members[i]
              IN  /\ m.type \in Entries => m.name # NoName
                  /\ m.path # NoName => m.type \in {"long", "pax"}
                  /\ m.type = "long" => m.path # NoName
                  /\ m.type = "zero" => i < Len(a.members) /\ a.members[i + 1].type # "zero"

VARIABLES
    archive,     \* what was written into the file
    kind,        \* ARCHIVE_RAW or ARCHIVE_GZIP
    cut,         \* the file ends too early
    damaged,     \* a unit of some file's contents arrived as another
    src,         \* units the reader has delivered
    gz,          \* the inflater
    pc,          \* what the loop reads
    want, buf,   \* units of it that are missing, and those that are there
    entry,       \* the member it is about, and the path that one gets
    rest,        \* units of a file that are not written yet
    longName,    \* pending_long_name
    files, dirs, \* below the destination
    status       \* what the program returns, and for what kind of reason

reader == <<archive, kind, cut, damaged, src, gz>>
request == <<pc, want, buf>>
disk == <<files, dirs>>
tar == <<entry, rest, longName, disk, status>>
vars == <<reader, request, tar>>

----------------------------------------------------------------------------
(* Archives as they are written.  A member has a type, a name, which is a  *)
(* sequence of components, data, and the path its data spells if it is a   *)
(* long name or an extended header.                                        *)

Zero == <<"zero", 0>>
Junk == <<"data", 0>>
Zeros(n) == [i \in 1..n |-> Zero]
DataOf(m) == [i \in DOMAIN m.data |-> <<"data", m.data[i]>>]

Recorded(m, i) ==
    IF m.type = "zero" THEN Zeros(BlockSize)
    ELSE <<<<"header", i>>>> \o [j \in 1..(BlockSize - 1) |-> <<"more", i>>] \o DataOf(m)
         \o Zeros((BlockSize - (Len(m.data) % BlockSize)) % BlockSize)

Tape ==
    [a \in Archives |->
        FlattenSeq([i \in DOMAIN a.members |-> Recorded(a.members[i], i)])
            \o Zeros(a.marker * BlockSize)]

Length == Len(Tape[archive])
Unit(n) == Tape[archive][n]

----------------------------------------------------------------------------
(* Paths.                                                                  *)

\* sanitize_relative_path: what it refuses, and what it makes of the rest.
Unsafe(name) == \E i \in DOMAIN name : name[i] \in {"..", "c:"}
Clean(name) == SelectSeq(name, LAMBDA c : c \notin {"", "."})

\* Paths that are too long for a buffer: alone, or behind the destination.
TooLong(name) == Len(name) >= PathMax
TooDeep(path) == Dest + Len(path) >= PathMax

\* A path and the directories above it.
Above(path) == {SubSeq(path, 1, n) : n \in 1..(Len(path) - 1)}

Names == UNION {UNION {{m.name, m.path} : m \in ToSet(a.members)} : a \in Archives}
Paths == {Clean(n) : n \in {x \in Names : ~Unsafe(x) /\ x # NoName}} \ {<<>>}
Old == <<<<"old", 0>>>>
Absent == <<<<"absent", 0>>>>

Init ==
    /\ archive \in Archives /\ kind \in {"raw", "gzip"}
    /\ cut = FALSE /\ damaged = FALSE /\ src = 0
    /\ gz = [active |-> FALSE, stored |-> FALSE, final |-> FALSE, left |-> 0,
             copyLen |-> 0, copyDist |-> 0, done |-> FALSE,
             window |-> [i \in 0..(Window - 1) |-> Zero], winPos |-> 0,
             good |-> TRUE]
    /\ pc = "open" /\ want = 0 /\ buf = <<>>
    /\ entry = [at |-> 0, path |-> <<>>] /\ rest = 0 /\ longName = NoName
    /\ files = [p \in Paths |-> Old] /\ dirs = {}
    /\ status = "none"

----------------------------------------------------------------------------
(* The reader.                                                             *)

Asked == status = "none" /\ want > 0

Delivers(units) ==
    /\ buf' = buf \o units /\ want' = want - Len(units)
    /\ src' = src + Len(units)
    /\ UNCHANGED <<archive, kind, cut, pc, tar>>

\* Mutated form: the file that was begun stays.
Stops_KeepsFile(s) ==
    /\ status' = s
    /\ UNCHANGED <<archive, kind, damaged, src, gz, request, entry, rest, longName>>
    /\ UNCHANGED disk

\* A request cannot be met.  A file that was begun is removed.
Stops(s) ==
    /\ status' = s
    /\ files' = IF pc = "data" THEN [files EXCEPT ![entry.path] = Absent] ELSE files
    /\ UNCHANGED <<archive, kind, damaged, src, gz, request, entry, rest, longName>>
    /\ UNCHANGED dirs

\* The data ends.  Where a header may begin that is the end of the archive.
Ends(s) ==
    Stops(IF pc \in {"header", "second"} /\ buf = <<>> THEN "ok" ELSE s)

RawRead ==
    /\ Asked /\ kind = "raw"
    /\ \E n \in 1..Min({want, Length - src}) :
           Delivers(SubSeq(Tape[archive], src + 1, src + n))
    /\ UNCHANGED <<gz, damaged>>

RawEnd ==
    /\ Asked /\ kind = "raw"
    /\ cut' = (src < Length)
    /\ Ends(IF cut' THEN "fault" ELSE "refused")

----------------------------------------------------------------------------
(* The inflater, gzip_inflate_next_byte: what is pending comes first.  The *)
(* compressor is free in how it divides the archive into blocks, literals  *)
(* and matches.                                                            *)

Inflating == Asked /\ kind = "gzip" /\ gz.copyLen = 0
Closed(g) == [g EXCEPT !.active = FALSE, !.done = g.final]

\* gzip_emit_byte, and gzip_read that hands the byte on.  The checksum of
\* what was written and the checksum of what is emitted part for good.
Emitted(g, u) ==
    [g EXCEPT !.window[g.winPos] = u, !.winPos = (g.winPos + 1) % Window,
              !.good = g.good /\ u = Unit(src + 1)]

StartStored ==
    /\ Inflating /\ ~gz.active /\ ~gz.done
    /\ \E n \in 0..Min({MaxStored, Length - src}), final \in BOOLEAN :
           /\ final => src + n = Length
           /\ LET g == [gz EXCEPT !.active = TRUE, !.stored = TRUE, !.final = final,
                                  !.left = n]
              IN  gz' = IF n = 0 THEN Closed(g) ELSE g
    /\ UNCHANGED <<archive, kind, cut, damaged, src, request, tar>>

StartHuffman ==
    /\ Inflating /\ ~gz.active /\ ~gz.done
    /\ \E final \in BOOLEAN :
           gz' = [gz EXCEPT !.active = TRUE, !.stored = FALSE, !.final = final]
    /\ UNCHANGED <<archive, kind, cut, damaged, src, request, tar>>

\* A unit of the stream, or another in its place.
Arrives(u) ==
    \/ u = Unit(src + 1) /\ UNCHANGED damaged
    \/ Unit(src + 1)[1] = "data" /\ ~damaged /\ u = Junk /\ damaged' = TRUE

StoredByte ==
    /\ Inflating /\ gz.active /\ gz.stored
    /\ \E u \in {Unit(src + 1), Junk} :
           /\ Arrives(u) /\ Delivers(<<u>>)
           /\ LET g == [Emitted(gz, u) EXCEPT !.left = @ - 1]
              IN  gz' = IF g.left = 0 THEN Closed(g) ELSE g

Literal ==
    /\ Inflating /\ gz.active /\ ~gz.stored /\ src < Length
    /\ \E u \in {Unit(src + 1), Junk} :
           Arrives(u) /\ Delivers(<<u>>) /\ gz' = Emitted(gz, u)

StartCopy ==
    /\ Inflating /\ gz.active /\ ~gz.stored
    /\ \E n \in 2..Min({MaxCopy, Length - src}), dist \in 1..Min({Window, src}) :
           /\ \A i \in 1..n : Unit(src + i) = Unit(src + i - dist)
           /\ gz' = [gz EXCEPT !.copyLen = n, !.copyDist = dist]
    /\ UNCHANGED <<archive, kind, cut, damaged, src, request, tar>>

CopySource(g) == (g.winPos + Window - g.copyDist) % Window

\* A symbol that no compressor writes, in place of a unit.  The request fails
\* if it has nothing yet; if it has, gzip_read returns that much, and the next
\* call goes on with the symbol after it.  What then comes where a header
\* should be is taken for one without a size.
BadSymbol ==
    /\ Inflating /\ gz.active /\ ~gz.stored /\ src < Length
    /\ Unit(src + 1)[1] = "data" /\ ~damaged
    /\ buf # <<>>
    /\ damaged' = TRUE /\ src' = src + 1 /\ gz' = [gz EXCEPT !.good = FALSE]
    /\ UNCHANGED <<archive, kind, cut, request, tar>>

\* A match that a request does not use up goes on with the next one.
CopyByte ==
    /\ Asked /\ gz.copyLen > 0
    /\ LET u == gz.window[CopySource(gz)]
       IN  /\ Delivers(<<u>>)
           /\ gz' = [Emitted(gz, u) EXCEPT !.copyLen = @ - 1]
    /\ UNCHANGED damaged

EndOfBlock ==
    /\ Inflating /\ gz.active /\ ~gz.stored
    /\ gz.final => src = Length
    /\ gz' = Closed(gz)
    /\ UNCHANGED <<archive, kind, cut, damaged, src, request, tar>>

\* gzip_finish_trailer: only a loop that reads to the end gets here.
Trailer ==
    /\ Inflating /\ gz.done
    /\ IF gz.good THEN Ends("refused") ELSE Stops("refused")
    /\ UNCHANGED cut

\* The file cannot be read, or a compressed one ends or has a bad symbol
\* before anything of the request is there.
ReadFails == Asked /\ Stops("fault") /\ UNCHANGED cut

----------------------------------------------------------------------------
(* The loop over the entries.                                              *)

Has(p) == status = "none" /\ want = 0 /\ pc = p
Reads(p, n) == pc' = p /\ want' = n /\ buf' = <<>>

\* skip_tar_padding
Pad(n) == (BlockSize - (n % BlockSize)) % BlockSize

ThenHeader(n) == IF n = 0 THEN Reads("header", BlockSize) ELSE Reads("skip", n)
Quits(s) == status' = s /\ UNCHANGED <<request, entry, rest, longName>>

Open ==
    /\ Has("open")
    /\ \/ ThenHeader(0) /\ UNCHANGED <<status, entry, rest, longName>>
       \/ Quits("fault")
    /\ UNCHANGED <<reader, disk>>

IsZeroBlock == buf = Zeros(BlockSize)

\* One zero block is passed over, two are the end.
FirstZero ==
    /\ Has("header") /\ IsZeroBlock
    /\ Reads("second", BlockSize)
    /\ UNCHANGED <<reader, tar>>

SecondZero ==
    /\ Has("second") /\ IsZeroBlock
    /\ Quits("ok") /\ UNCHANGED <<reader, disk>>

AtHeader == (Has("header") \/ Has("second")) /\ ~IsZeroBlock
Broken == [type |-> "broken", name |-> NoName, data |-> <<>>, path |-> NoName]
Header == IF buf[1][1] = "header" THEN archive.members[buf[1][2]] ELSE Broken
Size == Len(Header.data)
Whole(n) == n + Pad(n)

\* A size that is no octal number, an extended header that is too large.
RefusesHeader ==
    /\ AtHeader
    /\ Header.type = "broken" \/ (Header.type = "pax" /\ Size > PaxMax)
    /\ Quits("refused") /\ UNCHANGED <<reader, disk>>

GlobalHeader ==
    /\ AtHeader /\ Header.type = "global"
    /\ ThenHeader(Whole(Size))
    /\ UNCHANGED <<reader, tar>>

NameHeader ==
    /\ AtHeader
    /\ Header.type = "long" \/ (Header.type = "pax" /\ Size <= PaxMax)
    /\ Reads("name", Size)
    /\ entry' = [at |-> buf[1][2], path |-> <<>>]
    /\ UNCHANGED <<reader, rest, longName, disk, status>>

Current == archive.members[entry.at]

\* A long name that does not fit is forgotten.  An extended header with one, or
\* with records that are ill-formed, ends the run; the former stands for both.
NameRead ==
    /\ Has("name")
    /\ UNCHANGED <<reader, entry, rest, disk>>
    /\ \/ /\ Current.type = "long" \/ ~TooLong(Current.path)
          /\ longName' = IF Current.type = "pax" /\ Current.path = NoName THEN longName
                         ELSE IF TooLong(Current.path) THEN NoName
                         ELSE Current.path
          /\ ThenHeader(Pad(Len(Current.data)))
          /\ UNCHANGED status
       \/ /\ Current.type = "pax" /\ TooLong(Current.path)
          /\ status' = "refused" /\ UNCHANGED <<request, longName>>

\* Mutated form: a pending name is used for everything that follows.
Named_Sticks(t) ==
    /\ AtHeader /\ Header.type \in t
    /\ UNCHANGED longName

\* A pending name is used once.
Named(t) ==
    /\ AtHeader /\ Header.type \in t
    /\ longName' = NoName

Name == IF longName = NoName THEN Header.name ELSE longName
Path == Clean(Name)
Skipped == Unsafe(Name) \/ Path = <<>>
SkipEntry ==
    /\ \/ Named(Entries) /\ Skipped
       \/ Named({"other"}) /\ ~Skipped /\ ~TooDeep(Path)
    /\ ThenHeader(Whole(Size))
    /\ UNCHANGED <<reader, entry, rest, disk, status>>

RefusesPath ==
    /\ Named(Entries) /\ ~Skipped /\ TooDeep(Path)
    /\ status' = "refused"
    /\ UNCHANGED <<reader, request, entry, rest, disk>>

Placed(t) == Named(t) /\ ~Skipped /\ ~TooDeep(Path)

MakeDirectory ==
    /\ Placed({"dir"})
    /\ \/ dirs' = dirs \cup Above(Path) \cup {Path} /\ ThenHeader(Whole(Size))
          /\ UNCHANGED status
       \/ status' = "fault" /\ UNCHANGED <<dirs, request>>
    /\ UNCHANGED <<reader, entry, rest, files>>

BeginFile ==
    /\ Placed({"file"})
    /\ \/ /\ dirs' = dirs \cup Above(Path)
          /\ files' = [files EXCEPT ![Path] = <<>>]
          /\ entry' = [at |-> buf[1][2], path |-> Path]
          /\ rest' = Size /\ Reads("data", Min({Size, IoChunk}))
          /\ UNCHANGED status
       \/ status' = "fault" /\ UNCHANGED <<disk, entry, rest, request>>
    /\ UNCHANGED reader

Removed ==
    /\ files' = [files EXCEPT ![entry.path] = Absent]
    /\ status' = "fault" /\ UNCHANGED <<request, rest>>

WritePart ==
    /\ Has("data") /\ rest > 0
    /\ \/ /\ files' = [files EXCEPT ![entry.path] = @ \o buf]
          /\ rest' = rest - Len(buf)
          /\ Reads("data", Min({rest', IoChunk}))
          /\ UNCHANGED status
       \/ Removed
    /\ UNCHANGED <<reader, entry, longName, dirs>>

EndFile ==
    /\ Has("data") /\ rest = 0
    /\ \/ ThenHeader(Pad(Len(Current.data))) /\ UNCHANGED <<files, rest, status>>
       \/ Removed
    /\ UNCHANGED <<reader, entry, longName, dirs>>

SkipDone ==
    /\ Has("skip")
    /\ ThenHeader(0)
    /\ UNCHANGED <<reader, tar>>

Read ==
    \/ RawRead \/ RawEnd \/ ReadFails
    \/ StartStored \/ StartHuffman \/ StoredByte \/ Literal \/ StartCopy \/ CopyByte
    \/ BadSymbol \/ EndOfBlock \/ Trailer

Loop ==
    \/ Open \/ FirstZero \/ SecondZero
    \/ RefusesHeader \/ GlobalHeader \/ NameHeader \/ NameRead
    \/ SkipEntry \/ RefusesPath \/ MakeDirectory
    \/ BeginFile \/ WritePart \/ EndFile \/ SkipDone

Next == Read \/ Loop

Spec == Init /\ [][Next]_vars

----------------------------------------------------------------------------
(* Properties.                                                             *)

\* What tar says of member i: it has the name spelled last since the entry
\* before it, or else its own.
NameOf(i) ==
    LET spelled == {j \in 1..(i - 1) :
                       /\ archive.members[j].path # NoName
                       /\ \A k \in j..(i - 1) :
                              archive.members[k].type \notin Entries}
    IN  IF spelled = {} THEN archive.members[i].name
                        ELSE archive.members[Max(spelled)].path

Of(type) ==
    {i \in DOMAIN archive.members : archive.members[i].type = type
        /\ ~Unsafe(NameOf(i)) /\ Clean(NameOf(i)) # <<>>}

\* The files of that path, and what is there after the last of them.
FilesAt(p) == {i \in Of("file") : Clean(NameOf(i)) = p}
Expected ==
    [p \in Paths |-> IF FilesAt(p) = {} THEN Old
                     ELSE DataOf(archive.members[Max(FilesAt(p))])]

NameForgotten ==
    \E i \in DOMAIN archive.members :
        archive.members[i].type = "long" /\ TooLong(archive.members[i].path)

Unusable ==
    \/ \E i \in DOMAIN archive.members :
           LET m == archive.members[i]
           IN  \/ m.type = "broken"
               \/ m.type = "pax" /\ (Len(m.data) > PaxMax \/ TooLong(m.path))
    \/ \E i \in UNION {Of(t) : t \in Entries} : TooDeep(Clean(NameOf(i)))
    \/ NameForgotten /\ \E i \in DOMAIN archive.members :
           archive.members[i].type \in Entries /\ TooDeep(Clean(archive.members[i].name))

\* The result is true.  "Files, directories, skipped" and status 0 mean that
\* every entry of the archive is there, whole and under its name, however the
\* file was read in portions or divided by its compressor.  There are three
\* exceptions.  A plain archive that ends between two entries counts as whole
\* (archive_read_block); two zero blocks end the run before the checksum of a
\* gzip stream is read, so that damage goes unnoticed; and a long name over
\* the limit leaves its entry with the short one.  An archive is not refused
\* without a reason of its own.
ResultIsTrue ==
    /\ status = "ok" /\ ~cut /\ ~NameForgotten /\ ~(damaged /\ archive.marker >= 2) =>
           /\ files = Expected
           /\ {Clean(NameOf(i)) : i \in Of("dir")} \subseteq dirs
    /\ status = "refused" => damaged \/ Unusable

\* Whatever fails, on the way in or on the way out, a file is the old one,
\* gone, or as long as the archive has it: a part of one is never left behind
\* (extract_regular_file).
NoPartFile ==
    status # "none" => \A p \in Paths :
        \/ files[p] \in {Old, Absent}
        \/ \E m \in ToSet(archive.members) :
               m.type = "file" /\ Len(files[p]) = Len(m.data)
                   /\ (damaged \/ files[p] = DataOf(m))
=============================================================================
