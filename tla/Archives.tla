------------------------------- MODULE Archives -------------------------------
(***************************************************************************)
(* ZIP archives as libnetq/Zip.c parses them and libnetq/asset/BinaryAsset.c  *)
(* serves them: the end record is looked for from the end, the central        *)
(* directory gives the files, each file's local header the place of its data. *)
(* Inflating the data is zlib's.                                             *)
(***************************************************************************)
EXTENDS Integers, Sequences, SequencesExt, FiniteSetsExt

(* Numbers are stored with the low byte first. *)
Le(n, width) == [i \in 1 .. width |-> (n \div 256 ^ (i - 1)) % 256]
Zeros(n) == [i \in 1 .. n |-> 0]
Number(bytes) == FoldRight(LAMBDA b, acc : b + 256 * acc, bytes, 0)

ZipLocalFileHeader ==
  << <<"signature", 4>>, <<"version", 2>>, <<"flags", 2>>, <<"compression", 2>>, <<"lastTime", 2>>, <<"lastDate", 2>>,
     <<"crc32", 4>>, <<"compressedSize", 4>>, <<"uncompressedSize", 4>>, <<"nameSize", 2>>, <<"extraFieldSize", 2>> >>
ZipDataDescriptor ==
  << <<"signature", 4>>, <<"crc32", 4>>, <<"compressedSize", 4>>, <<"uncompressedSize", 4>> >>
ZipCentralDirHeader ==
  << <<"signature", 4>>, <<"targetVersion", 2>>, <<"minVersion", 2>>, <<"flags", 2>>, <<"compression", 2>>,
     <<"lastTime", 2>>, <<"lastDate", 2>>, <<"crc32", 4>>, <<"compressedSize", 4>>, <<"uncompressedSize", 4>>,
     <<"nameSize", 2>>, <<"extraFieldSize", 2>>, <<"commentSize", 2>>, <<"diskNumberStart", 2>>,
     <<"internalAttributes", 2>>, <<"externalAttributes", 4>>, <<"offset", 4>> >>
ZipEndCentralDir ==
  << <<"signature", 4>>, <<"totalCurDisk", 2>>, <<"totalDisks", 2>>, <<"totalCurEntries", 2>>, <<"totalEntries", 2>>,
     <<"centralDirSize", 4>>, <<"centralDirOffset", 4>>, <<"commentLength", 2>> >>
Local == <<80, 75, 3, 4>>
Descriptor == <<80, 75, 7, 8>>
Central == <<80, 75, 1, 2>>
EndSignature == <<80, 75, 5, 6>>

SizeOf(layout) == FoldLeft(LAMBDA acc, f : acc + f[2], 0, layout)
Widths(layout) == [ name \in { f[1] : f \in ToSet(layout) } |-> (CHOOSE f \in ToSet(layout) : f[1] = name)[2] ]

(* The header that begins behind the first at bytes of data, of which there are end. *)
Header(layout, data, at) ==
  LET Start(k) == at + SizeOf(SubSeq(layout, 1, k - 1))
      Index(name) == CHOOSE k \in DOMAIN layout : layout[k][1] = name
  IN [ name \in DOMAIN Widths(layout) |->
         Number(SubSeq(data, Start(Index(name)) + 1, Start(Index(name)) + Widths(layout)[name])) ]
Parses(layout, signature, data, at, end) ==
  at + SizeOf(layout) <= end /\ SubSeq(data, at + 1, at + 4) = signature

ZipLocalFileHeader_parse(data, at) == Parses(ZipLocalFileHeader, Local, data, at, Len(data))
ZipDataDescriptor_parse(data, at) == Parses(ZipDataDescriptor, Descriptor, data, at, Len(data))
ZipCentralDirHeader_parse(data, at, end) == Parses(ZipCentralDirHeader, Central, data, at, end)

(* The last signature in the file whose comment reaches exactly to its end; the first
   one from the end that is too far away ends the search. *)
ZipEndCentralDir_find(data) ==
  LET Far(p) == Len(data) - p > 22 + 65535
      Found(p) == Header(ZipEndCentralDir, data, p).commentLength = Len(data) - p - 22
      Marks == { p \in 0 .. Len(data) - 22 : SubSeq(data, p + 1, p + 4) = EndSignature }
      Ends == { p \in Marks : Far(p) \/ Found(p) }
  IN IF Ends = {} \/ Far(Max(Ends)) THEN {} ELSE {Max(Ends)}

(* The fields behind a name: the last one that is whole and has the expected size. *)
NoExtra == [flags |-> 0, modification |-> << >>, access |-> << >>, creation |-> << >>, uid |-> << >>, gid |-> << >>]
Timestamp(extra, bytes) ==
  LET flags == bytes[1]
      Taken(bit, at, old) == IF (flags \div bit) % 2 = 1 THEN SubSeq(bytes, at, at + 3) ELSE old
  IN [extra EXCEPT !.flags = flags, !.modification = Taken(1, 2, @), !.access = Taken(2, 6, @), !.creation = Taken(4, 10, @)]
UnixStat(extra, bytes) ==
  IF bytes[1] = 1 /\ bytes[2] = 4 /\ bytes[7] = 4
  THEN [extra EXCEPT !.uid = SubSeq(bytes, 3, 6), !.gid = SubSeq(bytes, 8, 11)] ELSE extra
ZipExtraFields_process(data) ==
  LET Size(at) == Number(SubSeq(data, at + 3, at + 4))
      Whole(at) == at + 4 <= Len(data) /\ at + 4 + Size(at) <= Len(data)
      from[at \in 0 .. Len(data)] == IF Whole(at) THEN <<at>> \o from[at + 4 + Size(at)] ELSE << >>
      Take(extra, at) ==
        LET field == SubSeq(data, at + 1, at + 2)
            bytes == SubSeq(data, at + 5, at + 4 + Size(at))
        IN IF field = <<85, 84>> /\ Len(bytes) = 13 THEN Timestamp(extra, bytes)
           ELSE IF field = <<117, 120>> /\ Len(bytes) = 11 THEN UnixStat(extra, bytes)
           ELSE extra
  IN FoldLeft(Take, NoExtra, from[0])

(* BinaryAsset.c. *)
ZipEntry_parse(data, at) ==
  LET h == Header(ZipCentralDirHeader, data, at)
  IN [name |-> SubSeq(data, at + 47, at + 46 + h.nameSize), dataOffset |-> h.offset, dataSize |-> h.compressedSize,
      size |-> h.uncompressedSize, next |-> at + 46 + h.nameSize + h.extraFieldSize + h.commentSize]

(* The files of the archive, {} when it is none. *)
NQBinaryAssetCreate(data) ==
  IF Len(data) < 2 \/ SubSeq(data, 1, 2) # <<80, 75>> THEN {}
  ELSE { LET dir == Header(ZipEndCentralDir, data, at)
             first == dir.centralDirOffset
             end == first + Min({dir.centralDirSize, at - first})
             Add(files, i) ==
               LET next == IF files = << >> THEN first ELSE Last(files).next
               IN IF Len(files) + 1 = i /\ ZipCentralDirHeader_parse(data, next, end)
                  THEN Append(files, ZipEntry_parse(data, next)) ELSE files
         IN IF first < at THEN FoldLeft(Add, << >>, [i \in 1 .. dir.totalEntries |-> i]) ELSE << >>
       : at \in ZipEndCentralDir_find(data) }

NQAssetFileBinary_findEntry(files, name) ==
  LET named == { i \in DOMAIN files : files[i].name = name } IN IF named = {} THEN {} ELSE {files[Min(named)]}

(* The place of an entry's data, {} when the archive contradicts itself. *)
ZipEntry_getData(data, entry) ==
  LET header == Header(ZipLocalFileHeader, data, entry.dataOffset)
      start == entry.dataOffset + 30 + header.nameSize + header.extraFieldSize
  IN IF /\ entry.dataOffset + entry.dataSize <= Len(data)
        /\ ZipLocalFileHeader_parse(data, entry.dataOffset)
        /\ start + entry.dataSize <= Len(data)
        /\ (header.flags \div 8) % 2 = 1 => ZipDataDescriptor_parse(data, start + entry.dataSize)
     THEN {start} ELSE {}

(* assetOpenFile: the compressed bytes that are given to zlib. *)
assetOpenFile(data, files, name) ==
  { { SubSeq(data, start + 1, start + entry.dataSize) : start \in ZipEntry_getData(data, entry) }
    : entry \in NQAssetFileBinary_findEntry(files, name) }

(* The names that reading a directory gives, without its own. *)
Slash == 47
dirReadFileName(files, dirname) ==
  LET Inside(name) ==
        /\ Len(name) > Len(dirname) /\ SubSeq(name, 1, Len(dirname)) = dirname
        /\ name[Len(dirname) + 1] = Slash
        /\ Slash \notin ToSet(SubSeq(name, Len(dirname) + 2, Len(name)))
      names == [i \in DOMAIN files |-> files[i].name]
  IN IF dirname = << >> THEN names
     ELSE LET inside == SelectSeq(names, Inside)
          IN [i \in DOMAIN inside |-> SubSeq(inside[i], Len(dirname) + 2, Len(inside[i]))]

-----------------------------------------------------------------------------
(* An archive as the format has it. *)

LocalPart(file) ==
  Local \o Le(20, 2) \o Le(IF file.descriptor THEN 8 ELSE 0, 2) \o Le(8, 2) \o Zeros(8)
  \o Le(Len(file.data), 4) \o Le(file.size, 4) \o Le(Len(file.name), 2) \o Le(Len(file.extra), 2)
  \o file.name \o file.extra \o file.data
  \o (IF file.descriptor THEN Descriptor \o Le(0, 4) \o Le(Len(file.data), 4) \o Le(file.size, 4) ELSE << >>)
CentralPart(file, offset) ==
  Central \o Le(20, 2) \o Le(20, 2) \o Le(0, 2) \o Le(8, 2) \o Zeros(8) \o Le(Len(file.data), 4) \o Le(file.size, 4)
  \o Le(Len(file.name), 2) \o Le(Len(file.extra), 2) \o Le(Len(file.comment), 2) \o Zeros(8) \o Le(offset, 4)
  \o file.name \o file.extra \o file.comment
Archive(files, comment) ==
  LET locals == [i \in DOMAIN files |-> LocalPart(files[i])]
      Offset(i) == Len(FlattenSeq(SubSeq(locals, 1, i - 1)))
      directory == FlattenSeq([i \in DOMAIN files |-> CentralPart(files[i], Offset(i))])
  IN FlattenSeq(locals) \o directory \o EndSignature \o Le(0, 4) \o Le(Len(files), 2) \o Le(Len(files), 2)
     \o Le(Len(directory), 4) \o Le(Offset(Len(files) + 1), 4) \o Le(Len(comment), 2) \o comment

(* An archive gives back every file it was made of, the first of a name, and the names in
   each directory, also when its comment looks like an end record of another length.
   (BinaryAsset.c and ZipEndCentralDir_find.) *)
ArchiveIsRead(files, comment) ==
  LET data == Archive(files, comment)
      names == [i \in DOMAIN files |-> files[i].name]
      Of(dir, name) == dir = << >> \/ (Len(name) > Len(dir) /\ IsPrefix(dir \o <<Slash>>, name)
                         /\ Slash \notin ToSet(SubSeq(name, Len(dir) + 2, Len(name))))
      FirstOf(i) == \A j \in 1 .. i - 1 : names[j] # names[i]
  IN \E read \in NQBinaryAssetCreate(data) :
       /\ Len(read) = Len(files)
       /\ \A i \in DOMAIN files :
            /\ read[i].name = names[i] /\ read[i].size = files[i].size
            /\ FirstOf(i) => assetOpenFile(data, read, names[i]) = {{files[i].data}}
       /\ \A dir \in {<< >>, <<100>>} : dir \notin ToSet(names) =>
            Len(dirReadFileName(read, dir)) = Cardinality({ i \in DOMAIN files : Of(dir, names[i]) })

(* Of an archive cut short nothing is read. (NQBinaryAssetCreate.) *)
CutArchive(files, cut) ==
  LET data == SubSeq(Archive(files, << >>), 1, cut) IN NQBinaryAssetCreate(data) = {}

(* The extra fields give the last time stamp and the last owner among the whole ones. *)
ExtraIsRead(fields, cut) ==
  LET bytes == FlattenSeq([i \in DOMAIN fields |-> fields[i].id \o Le(Len(fields[i].data), 2) \o fields[i].data])
      sizes == [i \in DOMAIN fields |-> Len(fields[i].data) + 4]
      WholeOnes == SelectSeq([i \in DOMAIN fields |-> i], LAMBDA i : FoldLeft(+, 0, SubSeq(sizes, 1, i)) <= Len(bytes) - cut)
      read == ZipExtraFields_process(SubSeq(bytes, 1, Len(bytes) - cut))
      Valid(i, id, size) == fields[i].id = id /\ Len(fields[i].data) = size
      Of(id, size) == { i \in ToSet(WholeOnes) : Valid(i, id, size) }
      Owners == { i \in Of(<<117, 120>>, 11) : fields[i].data[1] = 1 /\ fields[i].data[2] = 4 /\ fields[i].data[7] = 4 }
      Stamps(bit) == { i \in Of(<<85, 84>>, 13) : (fields[i].data[1] \div bit) % 2 = 1 }
      Is(value, set, from) == value = IF set = {} THEN << >> ELSE SubSeq(fields[Max(set)].data, from, from + 3)
  IN /\ Is(read.uid, Owners, 3) /\ Is(read.gid, Owners, 8)
     /\ Is(read.modification, Stamps(1), 2) /\ Is(read.access, Stamps(2), 6) /\ Is(read.creation, Stamps(4), 10)

-----------------------------------------------------------------------------
(***************************************************************************)
(* libnetq/Tarball.c: a tar archive written block by block through a callback *)
(* that may refuse. Characters are numbers of a signed char's byte.          *)
(***************************************************************************)

Block == 512
Space == 32

(* The callback refuses the write numbered broken. *)
NQTarball_init(broken) == [out |-> << >>, writes |-> 0, broken |-> broken, ok |-> TRUE]
NQTarball_write(tar, bytes) ==
  IF ~tar.ok THEN tar
  ELSE IF tar.writes + 1 = tar.broken THEN [tar EXCEPT !.writes = @ + 1, !.ok = FALSE]
  ELSE [tar EXCEPT !.writes = @ + 1, !.out = @ \o bytes]

(* The low octal digits that fit and a NUL. *)
writeUint64(value, size) ==
  [i \in 1 .. size |-> IF i = size THEN 0 ELSE 48 + ((value \div 8 ^ (size - 1 - i)) % 8)]

Text(text, size) == [i \in 1 .. size |-> IF i <= Len(text) THEN text[i] ELSE 0]
SignedChar(b) == IF b < 128 THEN b ELSE b - 256

HeaderWith(info, size, chksum) ==
  Text(info.filename, 100) \o writeUint64(info.mode, 8) \o writeUint64(info.uid, 8) \o writeUint64(info.gid, 8)
  \o writeUint64(size, 12) \o writeUint64(info.mtime, 12) \o chksum \o <<48>> \o Zeros(100)
  \o <<117, 115, 116, 97, 114, 32>> \o <<32, 0>> \o Text(info.username, 32) \o Text(info.groupname, 32)
  \o Zeros(8) \o Zeros(8) \o Zeros(155) \o Zeros(12)
Sum(bytes) == MapThenSumSet(LAMBDA v : v * Len(SelectSeq(bytes, LAMBDA b : b = v)), ToSet(bytes))
Chksum(block) == Sum([i \in DOMAIN block |-> SignedChar(block[i])])
TarHeader(info, size) ==
  LET spaces == [i \in 1 .. 8 |-> Space]
      sum == Chksum(HeaderWith(info, size, spaces)) % 8 ^ 6
  IN HeaderWith(info, size, writeUint64(sum, 7) \o <<Space>>)

(* Data of whole blocks is padded with one more. *)
Padding(size) == ((size + Block) \div Block) * Block - size
NQTarball_append(tar, info, data) ==
  NQTarball_write(NQTarball_write(NQTarball_write(tar, TarHeader(info, Len(data))), data), Zeros(Padding(Len(data))))
NQTarball_finish(tar) == NQTarball_write(NQTarball_write(tar, Zeros(Block)), Zeros(Block))

-----------------------------------------------------------------------------
(* A reader that goes on behind a single zero block, as the usual ones do. *)

Octal(bytes) == FoldLeft(LAMBDA acc, b : 8 * acc + b - 48, 0, SelectSeq(bytes, LAMBDA b : b \in 48 .. 55))
UpToNul(bytes) == LET nuls == { i \in DOMAIN bytes : bytes[i] = 0 }
                  IN IF nuls = {} THEN bytes ELSE SubSeq(bytes, 1, (CHOOSE i \in nuls : \A j \in nuls : i <= j) - 1)
ChecksumHolds(header) ==
  LET blanked == [i \in DOMAIN header |-> IF i \in 149 .. 156 THEN Space ELSE header[i]]
      stored == Octal(SubSeq(header, 149, 156))
  IN stored \in {Sum(blanked), Chksum(blanked)}
ReadTar(bytes) ==
  LET BlockAt(k) == SubSeq(bytes, k * Block + 1, (k + 1) * Block)
      count == Len(bytes) \div Block
      SizeAt(k) == Octal(SubSeq(BlockAt(k), 125, 136))
      Next(k) == k + 1 + (SizeAt(k) + Block - 1) \div Block
      Member(k) == [name |-> UpToNul(SubSeq(BlockAt(k), 1, 100)), data |-> SubSeq(bytes, (k + 1) * Block + 1, (k + 1) * Block + SizeAt(k)),
                    sum |-> ChecksumHolds(BlockAt(k))]
      read[k \in 0 .. count] ==
        IF k >= count THEN << >>
        ELSE IF BlockAt(k) = Zeros(Block)
             THEN IF k + 1 >= count \/ BlockAt(k + 1) = Zeros(Block) THEN << >> ELSE read[k + 1]
             ELSE <<Member(k)>> \o (IF Next(k) <= count THEN read[Next(k)] ELSE << >>)
  IN read[0]

Write(files, broken) ==
  NQTarball_finish(FoldLeft(LAMBDA tar, f : NQTarball_append(tar, f.info, f.data), NQTarball_init(broken), files))

(* Every file of an archive is read back under its name, as far as the name fits, with a
   checksum that holds, and the archive has whole blocks; a refused write is the last one
   and leaves the beginning of the archive. (NQTarball_append, NQTarball_finish.) *)
TarIsRead(files, broken) ==
  LET whole == Write(files, 0)
      cut == Write(files, broken)
      read == ReadTar(whole.out)
      NameOf(i) == files[i].info.filename
  IN /\ Len(whole.out) % Block = 0
     /\ Len(read) = Len(files)
     /\ \A i \in DOMAIN read :
          /\ read[i].name = SubSeq(NameOf(i), 1, IF Len(NameOf(i)) < 100 THEN Len(NameOf(i)) ELSE 100)
          /\ read[i].data = files[i].data
          /\ read[i].sum
     /\ IsPrefix(cut.out, whole.out)
     /\ cut.ok <=> broken \notin 1 .. whole.writes
=============================================================================
