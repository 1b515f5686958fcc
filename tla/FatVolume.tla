----------------------------- MODULE FatVolume -----------------------------
(***************************************************************************)
(* A FAT volume as a PC writes it, sector after sector: the medium that    *)
(* sd_driver.c reads.  A volume is described by its geometry and its files; *)
(* Image lays it out.  Nothing here is code of the repository.             *)
(*                                                                         *)
(* A cell of data is known by the file it belongs to and its place in it.  *)
(* A long name is its first six letters, the next two, the rest of them    *)
(* and its extension; a directory has short names, of eight letters.       *)
(***************************************************************************)
EXTENDS Naturals, Sequences, SequencesExt

CONSTANTS DIR_ENTRIES,     \* directory entries of a sector (16)
          FAT_ENTRIES,     \* entries of a FAT32 sector (128); a FAT16 sector has twice as many
          SECTOR_CELLS,    \* data cells of a sector
          EOC              \* entries from here on end a chain

Slack == [file |-> 0, pos |-> 0]

Entry(kind, name, cluster, size) ==
    [kind |-> kind, name |-> name, cluster |-> cluster, size |-> size]

Short(stem, two, ext) == [stem |-> stem, two |-> two, ext |-> ext]

EndOfDirectory == Entry("end", Short("", "", ""), 0, 0)

\* A sector can be read as any of the things a sector may hold.
Blank == [jump |-> FALSE, signature |-> FALSE, partition |-> 0,
          bpb |-> [bytes_per_sector |-> 0, sectors_per_cluster |-> 0, reserved_sectors |-> 0,
                   num_fats |-> 0, root_entry_count |-> 0, sectors_per_fat |-> 0, root_cluster |-> 0],
          fat |-> [i \in 0 .. (2 * FAT_ENTRIES - 1) |-> 0],
          dir |-> [i \in 1 .. DIR_ENTRIES |-> EndOfDirectory],
          data |-> [i \in 1 .. SECTOR_CELLS |-> Slack]]

LeastOf(a, b) == IF a < b THEN a ELSE b

Pieces(s, n) ==
    [k \in 1 .. (Len(s) + n - 1) \div n |-> SubSeq(s, (k - 1) * n + 1, LeastOf(k * n, Len(s)))]

Padded(s, n, x) == [i \in 1 .. n |-> IF i <= Len(s) THEN s[i] ELSE x]

SectorsOf(s, n, field, x) ==
    [k \in 1 .. Len(Pieces(s, n)) |-> [Blank EXCEPT ![field] = Padded(Pieces(s, n)[k], n, x)]]

DirSectors(entries) == SectorsOf(entries, DIR_ENTRIES, "dir", EndOfDirectory)

FileSectors(f) ==
    SectorsOf([i \in 1 .. f.size |-> [file |-> f.id, pos |-> i]], SECTOR_CELLS, "data", Slack)

EntryOf(f) == Entry("file", f.short, f.chain[1], f.size)

EntriesOf(vol, dir) ==
    vol.junk \o [i \in 1 .. Len(SelectSeq(vol.files, LAMBDA f : f.dir = dir)) |->
                    EntryOf(SelectSeq(vol.files, LAMBDA f : f.dir = dir)[i])]

RootEntries(vol) ==
    EntriesOf(vol, "root")
    \o (IF vol.tables = <<>> THEN <<>>
        ELSE <<Entry("dir", Short("tables", "", ""), vol.tables[1], 0)>>)

\* The objects that occupy clusters, with their sectors and their chains.
Objects(vol) ==
    {[chain |-> vol.files[i].chain, sectors |-> FileSectors(vol.files[i])] : i \in DOMAIN vol.files}
    \cup {[chain |-> vol.tables, sectors |-> DirSectors(EntriesOf(vol, "tables"))]}
    \cup {[chain |-> vol.root, sectors |-> DirSectors(RootEntries(vol))]}

\* Every object has the clusters its sectors need.
Fits(vol) == \A o \in Objects(vol) : Len(o.sectors) <= Len(o.chain) * vol.spc \/ o.chain = <<>>

\* The sector at place k of cluster c.
ClusterSector(vol, c, k) ==
    LET Holds(o) == \E i \in DOMAIN o.chain : o.chain[i] = c
        At(o) == (CHOOSE i \in DOMAIN o.chain : o.chain[i] = c)
    IN  IF \E o \in Objects(vol) : Holds(o) /\ (At(o) - 1) * vol.spc + k <= Len(o.sectors)
        THEN LET o == CHOOSE o \in Objects(vol) : Holds(o) /\ (At(o) - 1) * vol.spc + k <= Len(o.sectors)
             IN  o.sectors[(At(o) - 1) * vol.spc + k]
        ELSE Blank

\* The link after cluster c; vol.loops overrides it in a damaged volume.
Link(vol, c) ==
    IF c \in DOMAIN vol.loops THEN vol.loops[c]
    ELSE LET chains == {o.chain : o \in Objects(vol)}
             Next(ch) == {ch[i + 1] : i \in {j \in 1 .. (Len(ch) - 1) : ch[j] = c}}
             next == UNION {Next(ch) : ch \in chains}
         IN  IF next = {} THEN EOC ELSE CHOOSE n \in next : TRUE

PerFatSector(vol) == IF vol.fat32 THEN FAT_ENTRIES ELSE 2 * FAT_ENTRIES

FatSector(vol, k) ==
    [Blank EXCEPT !.fat = [i \in 0 .. (2 * FAT_ENTRIES - 1) |->
        IF i < PerFatSector(vol) THEN Link(vol, k * PerFatSector(vol) + i) ELSE 0]]

FatSectors(vol) == (vol.clusters + PerFatSector(vol) + 1) \div PerFatSector(vol)

\* The boot record: the fields of the BPB the driver reads.
BootSector(vol) ==
    [Blank EXCEPT !.jump = TRUE, !.signature = vol.formatted,
        !.bpb = [bytes_per_sector |-> 512, sectors_per_cluster |-> vol.spc,
                 reserved_sectors |-> vol.reserved, num_fats |-> vol.fats,
                 root_entry_count |-> IF vol.fat32 THEN 0 ELSE Len(RootEntries(vol)) + 1,
                 sectors_per_fat |-> FatSectors(vol),
                 root_cluster |-> IF vol.fat32 THEN vol.root[1] ELSE 0]]

\* The medium, from sector 0: partition table, boot record, FATs, the root directory
\* of a FAT16 volume, clusters.
Image(vol) ==
    LET mbr == IF vol.partition = 0 THEN <<>>
               ELSE [i \in 1 .. vol.partition |->
                        [Blank EXCEPT !.signature = (i = 1), !.partition = vol.partition]]
        boot == <<BootSector(vol)>> \o [i \in 1 .. (vol.reserved - 1) |-> Blank]
        fats == [i \in 1 .. (vol.fats * FatSectors(vol)) |-> FatSector(vol, (i - 1) % FatSectors(vol))]
        root == IF vol.fat32 THEN <<>>
                ELSE DirSectors(RootEntries(vol) \o <<EndOfDirectory>>)
        clusters == [i \in 1 .. (vol.clusters * vol.spc) |->
                        ClusterSector(vol, 2 + (i - 1) \div vol.spc, 1 + ((i - 1) % vol.spc))]
    IN  mbr \o boot \o fats \o root \o clusters
=============================================================================
