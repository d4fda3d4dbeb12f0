-------------------------------- MODULE Disk --------------------------------
(***************************************************************************)
(* Disks as files: the ATA driver (ata.rs), MBR partitions (partitions.rs) *)
(* and the device file system that lists them (devfs.rs, the boot code of  *)
(* main.rs), with the read-back check of the ext2 driver's writes.  One    *)
(* step is one sector: a drive may answer any of them with an error.  The  *)
(* ports and the waiting for the busy flag are not modelled.               *)
(***************************************************************************)
EXTENDS Integers, Sequences, FiniteSets, FiniteSetsExt

CONSTANTS
  Drives,       \* MASTER and SLAVE of the buses
  SectorSize,   \* SECTOR_SIZE_IN_BYTES (512), a multiple of the two bytes of a word
  NSectors,     \* sectors of a drive
  Partitions,   \* the partition tables: [Drives -> [1..4 -> first sector and number of sectors]]
  Byte, Nibble, \* values of a byte (256) and of half a byte (16)
  MaxLen,       \* bound on the length of a request
  MaxWrites     \* bound on the number of writes

ASSUME DiskAssumption ==
  /\ SectorSize \in Nat \ {0} /\ SectorSize % 2 = 0 /\ NSectors \in Nat \ {0}
  /\ Partitions \in [Drives -> [1..4 -> [first : Nat, count : Nat]]]
  /\ Nibble \in Nat \ {0} /\ Byte = Nibble * Nibble
  /\ MaxLen \in Nat /\ MaxWrites \in Nat

Sector == 0..(NSectors - 1)
NBytes == NSectors * SectorSize
Value == 0..(MaxWrites + 1)  \* what a byte holds: 0, 1 from the start, or the number of a write

VARIABLES
  platter,  \* the bytes of the drives, by sector
  files,    \* DevFS.disk_devices: pairs of a drive and 0 or a partition number
  counts,   \* master_sector_count and slave_sector_count, 0 for None
  req,      \* the request under way
  result,   \* what the last request returned
  panicked, \* "no", or what ended the kernel
  writes

vars == <<platter, files, counts, req, result, panicked, writes>>

Idle == [op |-> "idle"]
None == [kind |-> "none"]

-----------------------------------------------------------------------------
(* Addresses.  LBA28 keeps three bytes of the sector number; the upper half *)
(* of the third goes to the drive select register as well.                  *)

LBA28(s) == [low |-> s % Byte, mid |-> (s \div Byte) % Byte, hi |-> (s \div (Byte * Byte)) % Byte]

\* The sector a drive makes of the registers.
addressed(s) ==
  LET a == LBA28(s)
  IN a.low + Byte * a.mid + Byte * Byte * a.hi + Byte * Byte * Byte * (a.hi \div Nibble)

\* Whether the drive has the sector; if it has, it may still fail.
Present(s) == addressed(s) \in Sector

\* The sectors a request is thought to touch, from its length alone.
sector_count(len) == len \div SectorSize + (IF len % SectorSize # 0 THEN 1 ELSE 0)

-----------------------------------------------------------------------------
(* MBRPartitionFile: a range of the drive; a file of part 0 is the drive.    *)

\* Mutant of partition_offset: the sectors of the partition are not scaled.
partition_offset_sectors(f) == IF f[2] = 0 THEN 0 ELSE Partitions[f[1]][f[2]].first
partition_offset(f) == IF f[2] = 0 THEN 0 ELSE Partitions[f[1]][f[2]].first * SectorSize
partition_size(f) == Partitions[f[1]][f[2]].count * SectorSize

in_range(f, offset, len) == f[2] # 0 => offset + len <= partition_size(f)

Init ==
  /\ platter = [d \in Drives |-> [s \in Sector |-> [i \in 0..(SectorSize - 1) |-> 1]]]
  /\ files = {} /\ counts = [d \in Drives |-> 0]
  /\ req = Idle /\ result = None /\ panicked = "no" /\ writes = 0

\* The kernel makes one request at a time; the caller takes the result of one
\* before it makes the next.
Ready == req = Idle /\ result = None /\ panicked = "no"

Return ==
  /\ req = Idle /\ result # None
  /\ result' = None
  /\ UNCHANGED <<platter, files, counts, req, panicked, writes>>

\* Boot: a drive that identifies itself is listed with the partitions in use
\* whose entry could be read.
Boot(d) ==
  /\ Ready /\ <<d, 0>> \notin files
  /\ \E read \in SUBSET {p \in 1..4 : Partitions[d][p].count # 0} :
       files' = files \cup {<<d, 0>>} \cup {<<d, p>> : p \in read}
  /\ UNCHANGED <<platter, counts, req, result, panicked, writes>>

\* get_size: a partition's from the table, a drive's asked for once and kept.
GetSize(f) ==
  /\ Ready /\ f \in files
  /\ \/ /\ f[2] # 0
        /\ result' = [kind |-> "size", size |-> partition_size(f)]
        /\ UNCHANGED <<counts, panicked>>
     \/ /\ f[2] = 0
        /\ counts' = [counts EXCEPT ![f[1]] = NSectors]
        /\ result' = [kind |-> "size", size |-> NSectors * SectorSize]
        /\ UNCHANGED panicked
     \/ /\ f[2] = 0 /\ counts[f[1]] = 0     \* identify fails: expect
        /\ panicked' = "device"
        /\ UNCHANGED <<counts, result>>
  /\ UNCHANGED <<platter, files, req, writes>>

-----------------------------------------------------------------------------
(* Requests of at least a byte; one that is out of a partition's range is    *)
(* refused and changes nothing.  `expect' is the value Ext2FS::write reads   *)
(* back, -1 for a read of its own; `check' marks a write of Ext2FS.          *)

ReadOf(f, at, len, expect) ==
  [op |-> "read", file |-> f, at |-> at, len |-> len, k |-> 0, got |-> <<>>, expect |-> expect]

Read(f, offset, len) ==
  /\ Ready /\ f \in files
  /\ in_range(f, offset, len)
  /\ req' = ReadOf(f, partition_offset(f) + offset, len, -1)
  /\ UNCHANGED <<platter, files, counts, result, panicked, writes>>

Write(f, offset, len, check) ==
  /\ Ready /\ f \in files /\ writes < MaxWrites
  /\ in_range(f, offset, len)
  /\ writes' = writes + 1
  /\ req' = [op |-> "write", file |-> f, at |-> partition_offset(f) + offset, len |-> len, k |-> 0,
             pos |-> 0, written |-> 0, value |-> writes + 2, check |-> check]
  /\ UNCHANGED <<platter, files, counts, result, panicked>>

\* A sector of a read: the first from the offset in it, the others whole.
sector_read(r) ==
  LET s == platter[r.file[1]][addressed(r.at \div SectorSize + r.k)]
      from == IF r.k = 0 THEN r.at % SectorSize ELSE 0
  IN r.got \o [i \in 1..(SectorSize - from) |-> s[from + i - 1]]

ReadSector ==
  /\ req.op = "read" /\ panicked = "no" /\ Present(req.at \div SectorSize + req.k)
  /\ LET got == sector_read(req)
         more == req.k + 1 < sector_count(req.len) /\ Len(got) < req.len
         data == SubSeq(got, 1, Min({Len(got), req.len}))
         same == \A i \in DOMAIN data : data[i] = req.expect
     IN \/ /\ more
           /\ req' = [req EXCEPT !.k = @ + 1, !.got = got]
           /\ UNCHANGED <<result, panicked>>
        \/ /\ ~more /\ Len(data) # req.len     \* the assertion
           /\ panicked' = "assert"
           /\ UNCHANGED <<req, result>>
        \/ /\ ~more /\ Len(data) = req.len
           /\ req' = Idle
           /\ result' = IF req.expect = -1
                        THEN [kind |-> "data", drive |-> req.file[1], offset |-> req.at, len |-> req.len, data |-> data]
                        ELSE [kind |-> IF same THEN "written" ELSE "none", file |-> req.file, at |-> req.at,
                              len |-> req.len, value |-> req.expect]
           /\ UNCHANGED panicked
  /\ UNCHANGED <<platter, files, counts, writes>>

\* read_sector returns None: the error, or a sector the drive does not have.
ReadFails ==
  /\ req.op = "read" /\ panicked = "no"
  /\ req' = Idle /\ result' = None
  /\ UNCHANGED <<platter, files, counts, panicked, writes>>

\* Bytes of the data that go to the sector, and the place of the first.
sector_from(r) == IF r.k = 0 THEN r.at % SectorSize ELSE 0
sector_take(r) == Min({SectorSize - sector_from(r), r.len - r.pos})

\* Whether the sector is read before it is overwritten.
reads_first(r) ==
  \/ r.k = sector_count(r.len) - 1 /\ r.len % SectorSize # 0
  \/ r.k = 0 /\ r.at % SectorSize # 0

\* Mutant of new_sector: a sector is never read first.
new_sector_blank(r, old) ==
  [i \in 0..(SectorSize - 1) |-> IF i \in sector_from(r)..(sector_from(r) + sector_take(r) - 1) THEN r.value ELSE 0]
new_sector(r, old) ==
  [i \in 0..(SectorSize - 1) |->
     IF i \in sector_from(r)..(sector_from(r) + sector_take(r) - 1) THEN r.value
     ELSE IF reads_first(r) THEN old[i] ELSE 0]

\* bytes_written counts two for each word the data reach into.
words(from, n) == (from + n - 1) \div 2 - from \div 2 + 1

\* Mutant of after_write: a write is not read back.
after_write_unchecked(r, written) ==
  /\ req' = Idle
  /\ result' = [kind |-> "written", file |-> r.file, at |-> r.at, len |-> r.len, value |-> r.value, count |-> written]
\* The end of the loop: Ext2FS::write reads the data back, other writers return.
after_write(r, written) ==
  /\ req' = IF r.check THEN ReadOf(r.file, r.at, r.len, r.value) ELSE Idle
  /\ result' = IF r.check THEN None
               ELSE [kind |-> "count", file |-> r.file, at |-> r.at, len |-> r.len, value |-> r.value, count |-> written]

WriteSector ==
  /\ req.op = "write" /\ panicked = "no" /\ Present(req.at \div SectorSize + req.k)
  /\ LET s == addressed(req.at \div SectorSize + req.k)
         n == sector_take(req)
         written == req.written + 2 * words(sector_from(req), n)
     IN /\ platter' = [platter EXCEPT ![req.file[1]][s] = new_sector(req, @)]
        /\ IF req.k + 1 < sector_count(req.len)
           THEN req' = [req EXCEPT !.k = @ + 1, !.pos = @ + n, !.written = written] /\ UNCHANGED result
           ELSE after_write(req, written)
  /\ UNCHANGED <<files, counts, panicked, writes>>

\* write_sector returns None; Ext2FS::write reads back all the same.
WriteFails ==
  /\ req.op = "write" /\ panicked = "no"
  /\ req' = IF req.check THEN ReadOf(req.file, req.at, req.len, req.value) ELSE Idle
  /\ result' = None
  /\ UNCHANGED <<platter, files, counts, panicked, writes>>

\* The sector that is to be changed cannot be read: expect.
WritePanics ==
  /\ req.op = "write" /\ reads_first(req) /\ panicked = "no"
  /\ panicked' = "device"
  /\ UNCHANGED <<platter, files, counts, req, result, writes>>

Next ==
  \/ \E d \in Drives : Boot(d)
  \/ \E f \in files : GetSize(f)
  \/ Return
  \/ \E f \in files, offset \in 0..NBytes, len \in 1..MaxLen : Read(f, offset, len)
  \/ \E f \in files, offset \in 0..NBytes, len \in 1..MaxLen, check \in BOOLEAN : Write(f, offset, len, check)
  \/ ReadSector \/ ReadFails \/ WriteSector \/ WriteFails \/ WritePanics

Spec == Init /\ [][Next]_vars

-----------------------------------------------------------------------------
(* Properties *)

\* Sectors keep their size, a drive lists itself with all of its sectors or not at
\* all, and a write under way has something left to write.
TypeOK ==
  /\ platter \in [Drives -> [Sector -> [0..(SectorSize - 1) -> Value]]]
  /\ files \subseteq Drives \X (0..4)
  /\ counts \in [Drives -> {0, NSectors}]
  /\ panicked \in {"no", "assert", "device"}
  /\ req.op \in {"idle", "read", "write"}
  /\ req.op = "write" => req.pos \in 0..(req.len - 1) /\ req.value \in Value

Flat(p) == [d \in Drives |-> [i \in 0..(NBytes - 1) |-> p[d][i \div SectorSize][i % SectorSize]]]

Device == INSTANCE ByteDevice WITH
  bytes <- Flat(platter),
  putting <- IF req.op = "write"
             THEN [drive |-> req.file[1], at |-> req.at + req.pos, end |-> req.at + req.len, value |-> req.value]
             ELSE [drive |-> "none"],
  answer <- IF result.kind = "data"
            THEN [drive |-> result.drive, offset |-> result.offset, len |-> result.len, data |-> result.data]
            ELSE [drive |-> "none"]

\* Sector by sector, with errors of the drive at any point, the disks behave as
\* devices of bytes: no byte outside a write's range changes, none within it is
\* written out of order, no read answers with another place's bytes or too few.
ImplementsByteDevice == Device!Spec

\* A write of Ext2FS that reports success is on the disk, every byte of it: a
\* write that was cut short at a sector boundary, or failed half way, is noticed.
CheckedWriteIsThere ==
  result.kind = "written" =>
    \A i \in result.at..(result.at + result.len - 1) : Flat(platter)[result.file[1]][i] = result.value

\* A write at an even offset that reports as many bytes as it was given has
\* written them all.  (At an odd offset the first word counts double.)
CountIsHonest ==
  result.kind = "count" /\ result.at % 2 = 0 /\ result.count >= result.len =>
    \A i \in result.at..(result.at + result.len - 1) : Flat(platter)[result.file[1]][i] = result.value

\* A caller that looks at the answer of a write knows what is on the disk: by
\* reading back, as Ext2FS does, or by the count.
WritesAreHonest == TypeOK /\ CheckedWriteIsThere /\ CountIsHonest

\* A write through a partition's file changes nothing outside the partition, so
\* not the table it is described in.
PartitionsConfined ==
  [][\A d \in Drives, s \in Sector :
       platter'[d][s] # platter[d][s] =>
         /\ d = req.file[1]
         /\ req.file[2] # 0 => LET p == Partitions[d][req.file[2]]
                               IN s \in p.first..(p.first + p.count - 1)]_vars
=============================================================================
