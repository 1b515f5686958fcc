------------------------------ MODULE SdFiles ------------------------------
(***************************************************************************)
(* Loading a table: load_table_from_sd of network_tasks.c and, below it,   *)
(* sd_read_file of sd_driver.c, which finds the file in the root directory *)
(* or in /tables of a FAT16 or FAT32 volume and follows its clusters.      *)
(*                                                                         *)
(* One step is one sd_read_sector with what the code does to the sector.   *)
(* Any of them may fail, MaxFaults times in a behaviour.  The buffer       *)
(* sd_file_buffer is static: it keeps the cells of earlier loads.          *)
(***************************************************************************)
EXTENDS FatVolume

CONSTANTS Volumes,         \* the media of a run
          Tables,          \* the table names the requests give
          HEADER_CELLS, ROW_CELLS, BUFFER_CELLS,   \* 28, 4 and 262144 bytes on the board
          CLUSTER_MOD,     \* 2^16: the width of the cluster field that is read
          MaxFaults,       \* bound: sectors that cannot be read
          MaxLoads,        \* bound: loads of a behaviour
          None

ASSUME SizesAssumption ==
    /\ HEADER_CELLS \in Nat \ {0} /\ ROW_CELLS \in Nat \ {0}
    /\ BUFFER_CELLS \in Nat /\ HEADER_CELLS <= BUFFER_CELLS
    /\ CLUSTER_MOD \in Nat \ {0} /\ EOC \in Nat \ {0}
    /\ FAT_ENTRIES \in Nat \ {0} /\ SECTOR_CELLS \in Nat \ {0}
    /\ \A v \in Volumes : v.image = Image(v.volume) /\ Fits(v.volume)

VARIABLES
    medium,                  \* the volume in the slot, with its image
    pc,
    name, suffix,            \* the table, and whether ".tbl" is appended
    bpb,                     \* FatBPB
    phase, cluster, place,   \* the scan of a directory, or the copy: what, where
    file_size, bytes_read, done,
    buffer,                  \* sd_file_buffer
    table,                   \* the rows that are given to the query, or None
    faults, loads            \* counters of the bounds

scanVars == <<phase, cluster, place>>
copyVars == <<file_size, bytes_read, done, buffer>>
vars == <<medium, pc, name, suffix, bpb, scanVars, copyVars, table, faults, loads>>

Init ==
    /\ medium \in Volumes
    /\ pc = "idle"
    /\ name = None /\ suffix = TRUE
    /\ bpb = None
    /\ phase = "root_file" /\ cluster = 0 /\ place = 0
    /\ file_size = 0 /\ bytes_read = 0 /\ done = FALSE
    /\ buffer = [i \in 1 .. BUFFER_CELLS |-> Slack]
    /\ table = None
    /\ faults = 0 /\ loads = 0

-----------------------------------------------------------------------------
(* sd_read_sector *)

Reads(n) == n + 1 \in DOMAIN medium.image /\ UNCHANGED faults

Fails(n) ==
    IF n + 1 \in DOMAIN medium.image
    THEN faults < MaxFaults /\ faults' = faults + 1
    ELSE UNCHANGED faults

Sector(n) == medium.image[n + 1]

-----------------------------------------------------------------------------
(* Names *)

\* to83 and to83_alias_guess: eight letters of the name, or six and "~1"; three
\* letters of the extension.
to83(t, ext) == Short(t.stem, t.two, ext)
to83_alias_guess(t, ext) == Short(t.stem, "~1", ext)

Extension == IF suffix THEN "tbl" ELSE ""

-----------------------------------------------------------------------------
(* FatBPB and the arithmetic on it *)

fat_parse_bpb(b, vbr) ==
    LET fat == vbr + b.reserved_sectors
        root == fat + b.num_fats * b.sectors_per_fat
        dir == (b.root_entry_count + DIR_ENTRIES - 1) \div DIR_ENTRIES
    IN  [sectors_per_cluster |-> b.sectors_per_cluster, root_cluster |-> b.root_cluster,
         is_fat32 |-> b.root_entry_count = 0, fat_start |-> fat,
         root_dir_sector |-> root, root_dir_sectors |-> dir, data_start |-> root + dir]

fat_valid(s) ==
    /\ s.signature
    /\ s.bpb.bytes_per_sector = 512
    /\ s.bpb.sectors_per_cluster # 0
    /\ s.bpb.num_fats # 0

fat_clus2sec(c) == bpb.data_start + (c - 2) * bpb.sectors_per_cluster

\* fat16_next and fat32_next: where the entry of cluster c is.
EntriesPerSector == IF bpb.is_fat32 THEN FAT_ENTRIES ELSE 2 * FAT_ENTRIES
fat_sector(c) == bpb.fat_start + c \div EntriesPerSector
fat_entry(c) == Sector(fat_sector(c)).fat[c % EntriesPerSector]

fat_clus_valid(c) == c >= 2 /\ c < EOC

-----------------------------------------------------------------------------
(* load_table_from_sd.  parse_request has put the name of the table through         *)
(* sanitize_identifier already and the file name has room for its suffix, so the    *)
(* returns for a name that is refused or too long are not taken.                    *)

Load(t) ==
    /\ pc = "idle" /\ loads < MaxLoads
    /\ name' = t /\ suffix' = TRUE
    /\ table' = None
    /\ loads' = loads + 1
    /\ pc' = "sector0"
    /\ UNCHANGED <<medium, bpb, scanVars, copyVars, faults>>

\* sd_read_file returns -1: the bare name is tried, whatever the error was.
ReturnsError ==
    /\ pc' = IF suffix THEN "sector0" ELSE "idle"
    /\ suffix' = FALSE
    /\ UNCHANGED <<name, table>>

\* The header of the file whose cells fill the head of the buffer.
Header(b) ==
    IF \A i \in 1 .. HEADER_CELLS : b[i].pos = i /\ b[i].file = b[1].file
    THEN LET fs == medium.volume.files
         IN  fs[CHOOSE i \in DOMAIN fs : fs[i].id = b[1].file].header
    ELSE [ok |-> FALSE, row_count |-> 0]

\* Mutant: the row count of the header is believed.
RowsUnclipped(b, n) ==
    IF n < HEADER_CELLS \/ ~ Header(b).ok \/ (n - HEADER_CELLS) \div ROW_CELLS = 0
    THEN None
    ELSE [i \in 1 .. Header(b).row_count * ROW_CELLS |->
            IF HEADER_CELLS + i <= BUFFER_CELLS THEN b[HEADER_CELLS + i] ELSE Slack]

\* load_table_schema_from_buf, the rows that were read, and the row count clipped
\* to them.
Rows(b, n) ==
    LET available == (n - HEADER_CELLS) \div ROW_CELLS
    IN  IF n < HEADER_CELLS \/ ~ Header(b).ok \/ available = 0
        THEN None
        ELSE SubSeq(b, HEADER_CELLS + 1,
                    HEADER_CELLS + LeastOf(available, Header(b).row_count) * ROW_CELLS)

\* sd_read_file returns n.
Returns(b, n) ==
    /\ table' = Rows(b, n)
    /\ pc' = "idle"
    /\ UNCHANGED <<name, suffix>>

-----------------------------------------------------------------------------
(* sd_read_file *)

\* The scan of the root directory, and of a directory that starts at cluster c.
ScanRoot(ph, b) ==
    /\ pc' = "scan" /\ phase' = ph
    /\ cluster' = IF b.is_fat32 THEN b.root_cluster ELSE 0
    /\ place' = 0

ScanFrom(ph, c) == pc' = "scan" /\ phase' = ph /\ cluster' = c /\ place' = 0

\* The boot record in sector n is usable, and the search begins; or it is not.
ParseBoot(n) ==
    \/ /\ fat_valid(Sector(n))
       /\ bpb' = fat_parse_bpb(Sector(n).bpb, n)
       /\ ScanRoot("root_file", bpb')
       /\ UNCHANGED <<name, suffix, table>>
    \/ /\ ~ fat_valid(Sector(n))
       /\ ReturnsError
       /\ UNCHANGED <<bpb, scanVars>>

\* Sector 0 is a boot record, or a partition table that says where one is.
fat_find_vbr ==
    IF ~ Sector(0).jump /\ Sector(0).signature THEN Sector(0).partition ELSE 0

ReadSector0 ==
    /\ pc = "sector0"
    /\ \/ Fails(0) /\ ReturnsError /\ UNCHANGED <<bpb, scanVars>>
       \/ /\ Reads(0) /\ fat_find_vbr # 0
          /\ pc' = "vbr"
          /\ UNCHANGED <<name, suffix, table, bpb, scanVars>>
       \/ Reads(0) /\ fat_find_vbr = 0 /\ ParseBoot(0)
    /\ UNCHANGED <<medium, copyVars, loads>>

ReadVbr ==
    /\ pc = "vbr"
    /\ \/ Fails(fat_find_vbr) /\ ReturnsError /\ UNCHANGED <<bpb, scanVars>>
       \/ Reads(fat_find_vbr) /\ ParseBoot(fat_find_vbr)
    /\ UNCHANGED <<medium, copyVars, loads>>

\* fat_scan_dir returns 0: nothing found, or the directory could not be read.
NotFound ==
    \/ phase = "root_file" /\ ScanRoot("root_tables", bpb) /\ UNCHANGED <<name, suffix, table>>
    \/ phase # "root_file" /\ ReturnsError /\ UNCHANGED scanVars

\* fat_scan_dir returns the low half of the entry's first cluster.  0 is taken for
\* nothing found; the data area begins with cluster 2.
Found(e) ==
    LET c == e.cluster % CLUSTER_MOD
    IN  \/ /\ c = 0 \/ (c = 1 /\ phase = "root_tables")
           /\ NotFound
           /\ UNCHANGED copyVars
        \/ /\ c >= 2 /\ phase = "root_tables"
           /\ ScanFrom("tables_file", c)
           /\ UNCHANGED <<name, suffix, table, copyVars>>
        \/ /\ c # 0 /\ phase # "root_tables" /\ (e.size = 0 \/ c = 1)
           /\ Returns(buffer, 0)
           /\ UNCHANGED <<scanVars, copyVars>>
        \/ /\ c >= 2 /\ phase # "root_tables" /\ e.size # 0
           /\ pc' = "data"
           /\ cluster' = c /\ place' = 0
           /\ file_size' = e.size /\ bytes_read' = 0 /\ done' = FALSE
           /\ UNCHANGED <<name, suffix, table, phase, buffer>>

Matches(e) ==
    IF phase = "root_tables"
    THEN e.kind = "dir" /\ e.name = Short("tables", "", "")
    ELSE e.kind = "file" /\ e.name \in {to83(name, Extension), to83_alias_guess(name, Extension)}

\* Mutant: deleted entries end the scan too.
StopsAtDeleted(e) == e.kind \in {"end", "deleted"} \/ Matches(e)

\* The scan stops at the end mark and at the entry it looks for, and skips deleted
\* entries, long names, labels, the dot entries and entries of the other type.
Stops(e) == e.kind = "end" \/ Matches(e)

Chained == cluster >= 2

ScanSector == IF Chained THEN fat_clus2sec(cluster) + place ELSE bpb.root_dir_sector + place

\* The sectors of the cluster, or of the root directory of FAT16; a FAT32 volume
\* whose root cluster is below 2 has none.
ScanSectors == IF Chained THEN bpb.sectors_per_cluster ELSE bpb.root_dir_sectors

LastPlace == place + 1 = ScanSectors

ScanStep ==
    /\ pc = "scan"
    /\ \/ /\ ScanSectors = 0
          /\ NotFound
          /\ UNCHANGED <<copyVars, faults>>
       \/ /\ ScanSectors # 0 /\ Fails(ScanSector)
          /\ NotFound
          /\ UNCHANGED copyVars
       \/ /\ ScanSectors # 0 /\ Reads(ScanSector)
          /\ LET dir == Sector(ScanSector).dir
                 at == SelectInSeq(dir, Stops)
             IN  \/ at # 0 /\ dir[at].kind = "end" /\ NotFound /\ UNCHANGED copyVars
                 \/ at # 0 /\ dir[at].kind # "end" /\ Found(dir[at])
                 \/ /\ at = 0 /\ ~ LastPlace
                    /\ place' = place + 1
                    /\ UNCHANGED <<pc, phase, cluster, name, suffix, table, copyVars>>
                 \/ /\ at = 0 /\ LastPlace /\ Chained
                    /\ pc' = "scan_next"
                    /\ UNCHANGED <<scanVars, name, suffix, table, copyVars>>
                 \/ at = 0 /\ LastPlace /\ ~ Chained /\ NotFound /\ UNCHANGED copyVars
    /\ UNCHANGED <<medium, bpb, loads>>

\* fat_next_cluster of a directory: an error is an end of chain.
ScanNext ==
    /\ pc = "scan_next"
    /\ \/ Fails(fat_sector(cluster)) /\ NotFound
       \/ /\ Reads(fat_sector(cluster)) /\ fat_clus_valid(fat_entry(cluster))
          /\ ScanFrom(phase, fat_entry(cluster))
          /\ UNCHANGED <<name, suffix, table>>
       \/ Reads(fat_sector(cluster)) /\ ~ fat_clus_valid(fat_entry(cluster)) /\ NotFound
    /\ UNCHANGED <<medium, bpb, copyVars, loads>>

\* Mutant: the buffer's size is not looked at.
RoomUnchecked == file_size

\* Cells still to be copied are those before the end of the file and of the buffer.
Room == LeastOf(file_size, BUFFER_CELLS)

\* A data sector.  An error here is reported.  The loop sees that it is done only
\* when it tries the cell after the last one, which may be in the next sector.
CopySector ==
    /\ pc = "data"
    /\ LET n == fat_clus2sec(cluster) + place
           copied == LeastOf(SECTOR_CELLS, Room - bytes_read)
       IN  \/ /\ Fails(n)
              /\ ReturnsError
              /\ UNCHANGED <<scanVars, copyVars>>
           \/ /\ Reads(n)
              /\ buffer' = [i \in DOMAIN buffer |->
                    IF i \in (bytes_read + 1) .. (bytes_read + copied)
                    THEN Sector(n).data[i - bytes_read] ELSE buffer[i]]
              /\ bytes_read' = bytes_read + copied
              /\ done' = (copied < SECTOR_CELLS)
              /\ \/ /\ ~ done' /\ place + 1 < bpb.sectors_per_cluster
                    /\ place' = place + 1
                    /\ UNCHANGED pc
                 \/ /\ done' \/ place + 1 = bpb.sectors_per_cluster
                    /\ pc' = "data_next"
                    /\ UNCHANGED place
              /\ UNCHANGED <<phase, cluster, file_size, name, suffix, table>>
    /\ UNCHANGED <<medium, bpb, loads>>

\* Mutant: the copy goes on to the end of the chain.
CopyEndsAtEoc == ~ fat_clus_valid(fat_entry(cluster))

CopyEnds == done \/ ~ fat_clus_valid(fat_entry(cluster))

\* fat_next_cluster of the file: an error is an end of chain, and the copy ends
\* with the cells read so far.
CopyNext ==
    /\ pc = "data_next"
    /\ \/ Fails(fat_sector(cluster)) /\ Returns(buffer, bytes_read) /\ UNCHANGED scanVars
       \/ /\ Reads(fat_sector(cluster))
          /\ \/ /\ CopyEnds
                /\ Returns(buffer, bytes_read)
                /\ UNCHANGED scanVars
             \/ /\ ~ CopyEnds
                /\ pc' = "data" /\ cluster' = fat_entry(cluster) /\ place' = 0
                /\ UNCHANGED <<phase, name, suffix, table>>
    /\ UNCHANGED <<medium, bpb, copyVars, loads>>
-----------------------------------------------------------------------------
Step == ReadSector0 \/ ReadVbr \/ ScanStep \/ ScanNext \/ CopySector \/ CopyNext

Next == Step \/ \E t \in Tables : Load(t)

Spec == Init /\ [][Next]_vars

\* The reader never blocks: tx_task polls the card.
FairSpec == Spec /\ WF_vars(Step)

-----------------------------------------------------------------------------
(* What the volume says, apart from how the driver reads it. *)

Files == ToSet(medium.volume.files)

\* The rows a file offers: as many as its header says, as are in it and as fit.
FileRows(f) ==
    LET cells == LeastOf(f.size, BUFFER_CELLS)
        rows == IF cells < HEADER_CELLS THEN 0
                ELSE LeastOf((cells - HEADER_CELLS) \div ROW_CELLS, f.header.row_count)
    IN  [i \in 1 .. rows * ROW_CELLS |-> [file |-> f.id, pos |-> HEADER_CELLS + i]]

\* Files whose long name is the table's, with one of these extensions.
Named(t, exts, dir) ==
    {f \in Files : f.dir = dir /\ f.size > 0 /\ \E x \in exts : f.long = [t EXCEPT !.ext = x]}

\* The search order that sd_driver.h and load_table_from_sd document: the name with
\* its suffix before the bare name, the root directory before /tables.
Designated(t) ==
    LET suffixed == {"tbl", "tbl8"}
        order == <<Named(t, suffixed, "root"), Named(t, suffixed, "tables"),
                   Named(t, {""}, "root"), Named(t, {""}, "tables")>>
        found == SelectInSeq(order, LAMBDA fs : fs # {})
    IN  IF found = 0 \/ ~ medium.volume.formatted THEN {} ELSE order[found]

\* A cell belongs to a file or to free space.
Cells(m) == {Slack} \cup [file : {f.id : f \in ToSet(m.volume.files)}, pos : Nat]

\* What a sector of a medium can be read as.
ReadableSector(m, s) ==
    /\ s.bpb.sectors_per_cluster \in Nat /\ s.bpb.root_cluster \in 0 .. EOC - 1
    /\ s.fat \in [0 .. (2 * FAT_ENTRIES - 1) -> Nat]
    /\ \A j \in DOMAIN s.dir : /\ s.dir[j].cluster \in Nat /\ s.dir[j].size \in Nat
                              /\ s.dir[j].cluster % CLUSTER_MOD < EOC
    /\ s.dir \in Seq(ToSet(s.dir))
    /\ s.data \in [1 .. SECTOR_CELLS -> Cells(m)]

ASSUME MediaAssumption ==
    \A m \in Volumes :
       /\ \A n \in DOMAIN m.image : ReadableSector(m, m.image[n])
       /\ \A f \in ToSet(m.volume.files) : f.header.row_count \in Nat

\* Where the driver finds the boot record, and what it makes of it.
Vbr(m) == IF ~ m.image[1].jump /\ m.image[1].signature THEN m.image[1].partition ELSE 0
Bpb(m) == fat_parse_bpb(m.image[Vbr(m) + 1].bpb, Vbr(m))

\* The FAT links cluster c to the next.
LinkOf(m, b, c) ==
    LET per == IF b.is_fat32 THEN FAT_ENTRIES ELSE 2 * FAT_ENTRIES
    IN  m.image[b.fat_start + c \div per + 1].fat[c % per]

\* The sectors of a file's clusters hold its cells in order, its links lead from one cluster to
\* the next, and it has the clusters that its size needs.
FileLaidOut(m, b, f) ==
    LET spc == b.sectors_per_cluster
    IN  /\ f.chain \in Seq(Nat) /\ f.chain[1] \in 2 .. CLUSTER_MOD - 1
        /\ f.size <= Len(f.chain) * spc * SECTOR_CELLS
        /\ \A j \in 1 .. Len(f.chain) - 1 : LinkOf(m, b, f.chain[j]) = f.chain[j + 1]
        /\ \A j \in 1 .. Len(f.chain), k \in 0 .. spc - 1, i \in 1 .. SECTOR_CELLS :
              LET p == ((j - 1) * spc + k) * SECTOR_CELLS + i
              IN  p <= f.size =>
                    m.image[b.data_start + (f.chain[j] - 2) * spc + k + 1].data[i]
                       = [file |-> f.id, pos |-> p]

\* A medium whose files are laid out so, and whose directories name them.
LaidOut(m) ==
    /\ \A f, g \in ToSet(m.volume.files) : f.id = g.id => f = g
    /\ \A f \in ToSet(m.volume.files) : f.size > 0 => FileLaidOut(m, Bpb(m), f)
    /\ \A n \in DOMAIN m.image : \A j \in DOMAIN m.image[n].dir :
          LET e == m.image[n].dir[j]
          IN  e.kind = "file" => \E f \in ToSet(m.volume.files) :
                 e.name = f.short /\ e.cluster = f.chain[1] /\ e.size = f.size

\* The clusters of a directory: the root of FAT16 has its own sectors, and is 0 to the driver.
DirChain(m, b, dir) ==
    IF dir = "tables" THEN m.volume.tables ELSE IF b.is_fat32 THEN m.volume.root ELSE <<0>>

SectorOf(b, c, k) ==
    IF c >= 2 THEN b.data_start + (c - 2) * b.sectors_per_cluster + k ELSE b.root_dir_sector + k

Width(b, c) == IF c >= 2 THEN b.sectors_per_cluster ELSE b.root_dir_sectors

\* The sectors of a chain and their entries in the FAT are on the medium, and the FAT leads along
\* the chain; the link of the last cluster ends it or leads back into it.
ChainReadable(m, b, ch) ==
    LET per == IF b.is_fat32 THEN FAT_ENTRIES ELSE 2 * FAT_ENTRIES
    IN  /\ ch \in Seq(Nat) /\ ch # <<>>
        /\ \A j \in 1 .. Len(ch) :
              /\ Width(b, ch[j]) \in Nat \ {0}
              /\ \A k \in 0 .. Width(b, ch[j]) - 1 : SectorOf(b, ch[j], k) + 1 \in DOMAIN m.image
              /\ b.fat_start + ch[j] \div per + 1 \in DOMAIN m.image
              /\ j < Len(ch) => fat_clus_valid(ch[j + 1]) /\ LinkOf(m, b, ch[j]) = ch[j + 1]
        /\ LinkOf(m, b, ch[Len(ch)]) \in ToSet(ch) \/ ~ fat_clus_valid(LinkOf(m, b, ch[Len(ch)]))

\* What a directory has to list.
Contents(vol, dir) ==
    {EntryOf(f) : f \in {g \in ToSet(vol.files) : g.dir = dir}}
    \cup (IF dir # "root" \/ vol.tables = <<>> THEN {}
          ELSE {Entry("dir", Short("tables", "", ""), vol.tables[1], 0)})

\* A directory lists its files and /tables, before the end mark, and no others.
DirListed(m, b, dir) ==
    LET ch == DirChain(m, b, dir)
        At(j, k) == m.image[SectorOf(b, ch[j], k) + 1].dir
        InDir(e) == e.kind = "file" \/ (e.kind = "dir" /\ e.name = Short("tables", "", "") /\ dir = "root")
    IN  /\ ChainReadable(m, b, ch)
        /\ \A j \in 1 .. Len(ch) : \A k \in 0 .. Width(b, ch[j]) - 1 : \A x \in DOMAIN At(j, k) :
              InDir(At(j, k)[x]) => At(j, k)[x] \in Contents(m.volume, dir)
        /\ \A e \in Contents(m.volume, dir) :
              \E j \in 1 .. Len(ch) : \E k \in 0 .. Width(b, ch[j]) - 1 : \E x \in DOMAIN At(j, k) :
                 /\ At(j, k)[x] = e
                 /\ \A i \in 1 .. j : \A l \in 0 .. Width(b, ch[i]) - 1 : \A y \in DOMAIN At(i, l) :
                       At(i, l)[y].kind = "end" => i = j /\ (l > k \/ (l = k /\ y > x))

\* The names that the driver looks for are the short names of the files that have the table's
\* name, and of no others.
NamesTell(m, t) ==
    \A ext \in {"tbl", ""} :
       LET fs == {f \in ToSet(m.volume.files) : f.short \in {to83(t, ext), to83_alias_guess(t, ext)}}
           exts == IF ext = "tbl" THEN {"tbl", "tbl8"} ELSE {""}
       IN  /\ fs = {f \in ToSet(m.volume.files) : \E x \in exts : f.long = [t EXCEPT !.ext = x]}
           /\ \A f, g \in fs : f.dir = g.dir => f = g

\* A medium that can be searched: a boot record where the driver looks for it if it is formatted,
\* directories that list their files, and files whose clusters are on the medium.
Searchable(m) ==
    LET vol == m.volume
        b == Bpb(m)
    IN  /\ 1 \in DOMAIN m.image /\ Vbr(m) + 1 \in DOMAIN m.image
        /\ vol.formatted <=> fat_valid(m.image[Vbr(m) + 1])
        /\ \A t \in Tables : NamesTell(m, t)
        /\ vol.formatted =>
             /\ DirListed(m, b, "root")
             /\ b.is_fat32 => b.root_cluster = vol.root[1] /\ b.root_cluster >= 2
             /\ IF vol.tables = <<>> THEN \A f \in ToSet(vol.files) : f.dir # "tables"
                ELSE vol.tables[1] \in 2 .. CLUSTER_MOD - 1 /\ DirListed(m, b, "tables")
             /\ \A f \in ToSet(vol.files) :
                  IF f.size = 0 THEN f.chain[1] = 0 ELSE ChainReadable(m, b, f.chain)

Candidates(t) ==
    {f \in Files : \E ext \in {"tbl", ""} : f.short \in {to83(t, ext), to83_alias_guess(t, ext)}}

Loaded == pc = "idle" /\ table # None

TypeOK ==
    /\ pc \in {"idle", "sector0", "vbr", "scan", "scan_next", "data", "data_next"}
    /\ name \in Tables \cup {None}
    /\ suffix \in BOOLEAN /\ done \in BOOLEAN
    /\ phase \in {"root_file", "root_tables", "tables_file"}
    /\ cluster \in 0 .. EOC - 1
    /\ place \in Nat
    /\ bytes_read \in 0 .. BUFFER_CELLS
    /\ DOMAIN buffer = 1 .. BUFFER_CELLS
    /\ table = None \/ Len(table) <= BUFFER_CELLS - HEADER_CELLS

\* Without read errors, the table that is loaded is the one that was asked for, to the
\* last row that fits: through partition table, boot record, directories and
\* clusters, whatever an earlier load left in the buffer.
RightTable ==
    (pc = "idle" /\ name # None /\ faults = 0) =>
        LET fs == Designated(name)
        IN  IF \E f \in fs : f.header.ok /\ Len(FileRows(f)) > 0
            THEN \E f \in fs : table = FileRows(f)
            ELSE table \in {None, <<>>}

\* Whatever sectors fail, rows that are loaded are the first rows of one file with
\* the table's name, never cells of another load, of another file or of free space.
OwnRows == Loaded => \E f \in Candidates(name) : IsPrefix(table, FileRows(f))

\* "-1 em caso de erro" (sd_driver.h): a table that is loaded is complete, whatever
\* sectors failed.
ErrorsReported == Loaded => \E f \in Candidates(name) : table = FileRows(f)

\* "Se nao encontrou, tenta sem sufixo" (load_table_from_sd): another file is taken
\* only when the first one does not exist.
OnlyWhenNotFound ==
    Loaded => \E f \in Designated(name) : IsPrefix(table, FileRows(f))

\* A directory whose chain does not end.
DirectoryLoops ==
    LET vol == medium.volume
    IN  DOMAIN vol.loops \cap (ToSet(vol.root) \cup ToSet(vol.tables)) # {}

\* A load ends, also on a file whose chain has a loop and whatever sectors fail;
\* only a loop in a directory's chain, which nothing bounds, keeps the scan going.
EveryLoadEnds == (pc # "idle") ~> (pc = "idle" \/ DirectoryLoops)
=============================================================================
