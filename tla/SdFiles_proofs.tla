--------------------------- MODULE SdFiles_proofs ---------------------------
(***************************************************************************)
(* Proofs about SdFiles, for every medium, sector, cluster and buffer size *)
(* and whatever sectors cannot be read.                                    *)
(***************************************************************************)
EXTENDS SdFiles, SequenceTheorems, WellFoundedInduction, TLAPS

Parsed == pc \in {"scan", "scan_next", "data", "data_next"}
Copying == pc \in {"data", "data_next"}

\* The parameters of the volume are those of its boot record, the buffer holds cells of the
\* medium, and the copy stays within the file and the buffer.
Types ==
    /\ TypeOK
    /\ medium \in Volumes
    /\ Parsed => /\ bpb = Bpb(medium)
                 /\ bpb.sectors_per_cluster \in Nat \ {0} /\ bpb.root_cluster \in 0 .. EOC - 1
    /\ file_size \in Nat
    /\ Copying => bytes_read <= Room
    /\ buffer \in [1 .. BUFFER_CELLS -> Cells(medium)]
    /\ pc # "idle" => table = None

-----------------------------------------------------------------------------
(* Numbers *)

\* A set of numbers has a least one.
LEMMA LeastNat ==
  ASSUME NEW S \in SUBSET Nat, S # {}
  PROVE  \E n \in S : \A m \in S : n <= m
<1> DEFINE R == {ss \in Nat \X Nat : ss[1] < ss[2]}
<1>1. IsWellFoundedOn(R, Nat)
  BY NatLessThanWellFounded, Zenon DEF OpToRel
<1>2. PICK n \in S : \A m \in S : <<m, n>> \notin R
  <2> HIDE DEF R
  <2> QED BY <1>1, WFMin
<1>3. \A m \in S : ~ (m < n)
  <2>1. \A m, k \in Nat : m < k => <<m, k>> \in R
    OBVIOUS
  <2> HIDE DEF R
  <2> QED BY <1>2, <2>1
<1> QED BY <1>3

\* Whole rows of r cells fit in the cells they are taken from.
LEMMA WholeRows ==
  ASSUME NEW a \in Nat, NEW r \in Nat \ {0}
  PROVE  a \div r \in Nat /\ (a \div r) * r <= a
OBVIOUS

\* More cells hold more rows.
LEMMA DivMonotonic ==
  ASSUME NEW a \in Nat, NEW c \in Nat, a <= c, NEW r \in Nat \ {0}
  PROVE  a \div r <= c \div r
OBVIOUS

\* More rows have more cells.
LEMMA TimesMonotonic ==
  ASSUME NEW m \in Nat, NEW n \in Nat, m <= n, NEW r \in Nat
  PROVE  m * r \in Nat /\ n * r \in Nat /\ m * r <= n * r
OBVIOUS

-----------------------------------------------------------------------------
(* What is read *)

\* The scan of a sector stops at an entry of it that it looks for.
LEMMA StopsAt ==
  ASSUME NEW S, NEW dir \in Seq(S), SelectInSeq(dir, Stops) # 0
  PROVE  SelectInSeq(dir, Stops) \in DOMAIN dir /\ Stops(dir[SelectInSeq(dir, Stops)])
<1> DEFINE I == {j \in 1 .. Len(dir) : Stops(dir[j])}
<1>1. I # {} /\ SelectInSeq(dir, Stops) = Min(I)
  BY DEF SelectInSeq
<1>2. I \subseteq Nat
  OBVIOUS
<1>3. \E n \in I : \A m \in I : n <= m
  <2> HIDE DEF I
  <2> QED BY <1>1, <1>2, LeastNat
<1>4. Min(I) \in I
  <2> HIDE DEF I
  <2> QED BY <1>3 DEF Min
<1> QED BY <1>1, <1>4

\* Sizes are positive numbers, and a header fits in the buffer.
LEMMA Sizes ==
  /\ HEADER_CELLS \in Nat \ {0} /\ ROW_CELLS \in Nat \ {0}
  /\ BUFFER_CELLS \in Nat /\ HEADER_CELLS <= BUFFER_CELLS
  /\ CLUSTER_MOD \in Nat \ {0} /\ EOC \in Nat \ {0}
  /\ FAT_ENTRIES \in Nat \ {0} /\ SECTOR_CELLS \in Nat \ {0}
BY SizesAssumption DEF SizesAssumption

\* A header that is accepted is the header of a file.
LEMMA HeaderOfFile ==
  ASSUME medium \in Volumes, buffer \in [1 .. BUFFER_CELLS -> Cells(medium)], Header(buffer).ok
  PROVE  /\ \A i \in 1 .. HEADER_CELLS : buffer[i].pos = i
         /\ \E f \in Files : f.id = buffer[1].file /\ Header(buffer) = f.header
<1> DEFINE fs == medium.volume.files
<1>1. \A i \in 1 .. HEADER_CELLS : buffer[i].pos = i /\ buffer[i].file = buffer[1].file
  BY DEF Header
<1>2. Header(buffer) = fs[CHOOSE i \in DOMAIN fs : fs[i].id = buffer[1].file].header
  BY <1>1 DEF Header
<1>3. buffer[1].pos = 1 /\ buffer[1] \in Cells(medium)
  BY <1>1, Sizes
<1>4. buffer[1].file \in {f.id : f \in ToSet(fs)}
  BY <1>3 DEF Cells, Slack
<1>5. \E i \in DOMAIN fs : fs[i].id = buffer[1].file
  BY <1>4 DEF ToSet
<1> DEFINE i == CHOOSE i \in DOMAIN fs : fs[i].id = buffer[1].file
<1>6. i \in DOMAIN fs /\ fs[i].id = buffer[1].file
  BY <1>5
<1>7. fs[i] \in Files
  BY <1>6 DEF Files, ToSet
<1> QED BY <1>1, <1>2, <1>6, <1>7

\* The rows of n cells are within the n cells.
LEMMA RowsTaken ==
  ASSUME medium \in Volumes, buffer \in [1 .. BUFFER_CELLS -> Cells(medium)],
         NEW n \in 0 .. BUFFER_CELLS,
         n >= HEADER_CELLS, Header(buffer).ok, (n - HEADER_CELLS) \div ROW_CELLS # 0
  PROVE  /\ Header(buffer).row_count \in Nat
         /\ LET len == LeastOf((n - HEADER_CELLS) \div ROW_CELLS, Header(buffer).row_count) * ROW_CELLS
            IN  /\ len \in Nat /\ HEADER_CELLS + len <= n
                /\ Rows(buffer, n) = SubSeq(buffer, HEADER_CELLS + 1, HEADER_CELLS + len)
                /\ Len(Rows(buffer, n)) = len
                /\ Rows(buffer, n) \in Seq(Cells(medium))
                /\ \A k \in 1 .. len : Rows(buffer, n)[k] = buffer[HEADER_CELLS + k]
<1> DEFINE count == Header(buffer).row_count
           available == (n - HEADER_CELLS) \div ROW_CELLS
           len == LeastOf(available, count) * ROW_CELLS
<1>1. /\ n >= HEADER_CELLS /\ Header(buffer).ok
      /\ Rows(buffer, n) = SubSeq(buffer, HEADER_CELLS + 1, HEADER_CELLS + len)
  <2>1. ~ (n < HEADER_CELLS)
    BY Sizes
  <2> QED BY <2>1, Zenon DEF Rows
<1>2. count \in Nat
  BY <1>1, HeaderOfFile, MediaAssumption DEF MediaAssumption, Files
<1>3. available \in Nat /\ available * ROW_CELLS <= n - HEADER_CELLS
  <2>1. n - HEADER_CELLS \in Nat
    BY <1>1, Sizes
  <2> QED BY <2>1, WholeRows, Sizes
<1>4. LeastOf(available, count) \in Nat /\ LeastOf(available, count) <= available
  <2> HIDE DEF available, count
  <2> QED BY <1>2, <1>3 DEF LeastOf
<1>5. len \in Nat /\ HEADER_CELLS + len <= n
  <2> DEFINE m == LeastOf(available, count)
  <2>1. m \in Nat /\ available \in Nat /\ m <= available
    BY <1>3, <1>4
  <2> HIDE DEF m, available
  <2>2. m * ROW_CELLS \in Nat /\ m * ROW_CELLS <= available * ROW_CELLS /\ available * ROW_CELLS \in Nat
    BY <2>1, TimesMonotonic, Sizes
  <2> QED BY <2>2, <1>3, Sizes DEF m
<1> HIDE DEF len
<1>6. \A i \in HEADER_CELLS + 1 .. HEADER_CELLS + len : buffer[i] \in Cells(medium)
  BY <1>5, Sizes
<1>7. /\ Rows(buffer, n) \in Seq(Cells(medium))
      /\ Len(Rows(buffer, n)) = len
      /\ \A k \in 1 .. len : Rows(buffer, n)[k] = buffer[HEADER_CELLS + k]
  <2>1. HEADER_CELLS + 1 \in Int /\ HEADER_CELLS + len \in Int
    BY <1>5, Sizes
  <2>2. /\ SubSeq(buffer, HEADER_CELLS + 1, HEADER_CELLS + len) \in Seq(Cells(medium))
        /\ Len(SubSeq(buffer, HEADER_CELLS + 1, HEADER_CELLS + len)) =
              IF HEADER_CELLS + 1 <= HEADER_CELLS + len
              THEN (HEADER_CELLS + len) - (HEADER_CELLS + 1) + 1 ELSE 0
        /\ \A k \in 1 .. ((HEADER_CELLS + len) - (HEADER_CELLS + 1) + 1) :
              SubSeq(buffer, HEADER_CELLS + 1, HEADER_CELLS + len)[k] = buffer[HEADER_CELLS + 1 + k - 1]
    BY <2>1, <1>6, SubSeqProperties
  <2>3. (HEADER_CELLS + len) - (HEADER_CELLS + 1) + 1 = len
    BY <1>5, Sizes
  <2>4. \A k \in 1 .. len : HEADER_CELLS + 1 + k - 1 = HEADER_CELLS + k
    BY <1>5, Sizes
  <2>5. (HEADER_CELLS + 1 <= HEADER_CELLS + len) <=> len # 0
    BY <1>5, Sizes
  <2> QED BY <1>1, <2>2, <2>3, <2>4, <2>5
<1> QED BY <1>1, <1>2, <1>5, <1>7 DEF len

\* A table is made of these.
LEMMA RowsWithin ==
  ASSUME medium \in Volumes, buffer \in [1 .. BUFFER_CELLS -> Cells(medium)],
         NEW n \in 0 .. BUFFER_CELLS, Rows(buffer, n) # None
  PROVE  /\ n >= HEADER_CELLS /\ Header(buffer).ok /\ Header(buffer).row_count \in Nat
         /\ LET len == LeastOf((n - HEADER_CELLS) \div ROW_CELLS, Header(buffer).row_count) * ROW_CELLS
            IN  /\ len \in Nat /\ HEADER_CELLS + len <= n
                /\ Rows(buffer, n) = SubSeq(buffer, HEADER_CELLS + 1, HEADER_CELLS + len)
                /\ Len(Rows(buffer, n)) = len
                /\ Rows(buffer, n) \in Seq(Cells(medium))
                /\ \A k \in 1 .. len : Rows(buffer, n)[k] = buffer[HEADER_CELLS + k]
<1>1. ~ (n < HEADER_CELLS) /\ Header(buffer).ok /\ (n - HEADER_CELLS) \div ROW_CELLS # 0
  BY Zenon DEF Rows
<1>2. n >= HEADER_CELLS
  BY <1>1, Sizes
<1> QED BY <1>1, <1>2, RowsTaken

\* So the table fits in what the buffer has beyond a header.
LEMMA RowsFit ==
  ASSUME medium \in Volumes, buffer \in [1 .. BUFFER_CELLS -> Cells(medium)],
         NEW n \in 0 .. BUFFER_CELLS
  PROVE  Rows(buffer, n) = None \/ Len(Rows(buffer, n)) <= BUFFER_CELLS - HEADER_CELLS
<1> SUFFICES ASSUME Rows(buffer, n) # None
             PROVE  Len(Rows(buffer, n)) <= BUFFER_CELLS - HEADER_CELLS
  OBVIOUS
<1>1. Len(Rows(buffer, n)) \in Nat /\ HEADER_CELLS + Len(Rows(buffer, n)) <= n
  BY RowsWithin
<1> QED BY <1>1, Sizes

-----------------------------------------------------------------------------
(* Types *)

\* sd_read_file returns an error.
LEMMA TypesError ==
  ASSUME Types, pc # "idle", ReturnsError, UNCHANGED <<medium, scanVars, copyVars>>
  PROVE  Types'
BY DEF Types, TypeOK, ReturnsError, Parsed, Copying, Room, scanVars, copyVars, Cells

\* fat_scan_dir finds nothing.
LEMMA TypesNotFound ==
  ASSUME Types, Parsed, NotFound, UNCHANGED <<medium, bpb, copyVars>>
  PROVE  Types'
<1>1. CASE phase # "root_file" /\ ReturnsError /\ UNCHANGED scanVars
  BY <1>1, TypesError DEF Parsed
<1>2. CASE phase = "root_file" /\ ScanRoot("root_tables", bpb) /\ UNCHANGED <<name, suffix, table>>
  BY <1>2, Sizes DEF Types, TypeOK, ScanRoot, Parsed, Copying, Room, copyVars, Cells
<1> QED BY <1>1, <1>2 DEF NotFound

\* sd_read_file returns the number of cells that it has read.
LEMMA TypesReturns ==
  ASSUME Types, NEW n \in 0 .. BUFFER_CELLS, Returns(buffer, n), UNCHANGED <<medium, scanVars, copyVars>>
  PROVE  Types'
<1>1. Rows(buffer, n) = None \/ Len(Rows(buffer, n)) <= BUFFER_CELLS - HEADER_CELLS
  BY RowsFit DEF Types
<1> QED BY <1>1 DEF Types, TypeOK, Returns, Parsed, Copying, scanVars, copyVars, Cells

\* The scan of a directory goes on with cluster c.
LEMMA TypesScanFrom ==
  ASSUME Types, Parsed, NEW c \in 0 .. EOC - 1, NEW ph, ph \in {"root_file", "root_tables", "tables_file"},
         ScanFrom(ph, c), UNCHANGED <<medium, bpb, copyVars, name, suffix, table>>
  PROVE  Types'
BY DEF Types, TypeOK, ScanFrom, Parsed, Copying, copyVars, Cells

\* A boot record is parsed.
LEMMA TypesParseBoot ==
  ASSUME Types, pc # "idle", Reads(fat_find_vbr), ParseBoot(fat_find_vbr), UNCHANGED <<medium, copyVars>>
  PROVE  Types'
<1> DEFINE n == fat_find_vbr
<1>1. CASE ~ fat_valid(Sector(n)) /\ ReturnsError /\ UNCHANGED <<bpb, scanVars>>
  BY <1>1, TypesError
<1>2. CASE /\ fat_valid(Sector(n))
           /\ bpb' = fat_parse_bpb(Sector(n).bpb, n)
           /\ ScanRoot("root_file", bpb')
           /\ UNCHANGED <<name, suffix, table>>
  <2>1. n = Vbr(medium) /\ Sector(n) = medium.image[Vbr(medium) + 1] /\ Vbr(medium) + 1 \in DOMAIN medium.image
    BY DEF fat_find_vbr, Vbr, Sector, Reads
  <2>2. bpb' = Bpb(medium)
    BY <1>2, <2>1 DEF Bpb
  <2>3. ReadableSector(medium, Sector(n))
    BY <2>1, MediaAssumption DEF MediaAssumption, Types
  <2>4. bpb'.sectors_per_cluster \in Nat \ {0} /\ bpb'.root_cluster \in 0 .. EOC - 1
    BY <1>2, <2>3 DEF fat_parse_bpb, fat_valid, ReadableSector
  <2>5. /\ pc' = "scan" /\ phase' = "root_file" /\ cluster' \in 0 .. EOC - 1 /\ place' = 0
        /\ name' = name /\ suffix' = suffix /\ table' = table
    BY <1>2, <2>4, Sizes DEF ScanRoot
  <2>6. Bpb(medium)' = Bpb(medium)
    BY DEF Bpb, Vbr
  <2> QED BY <2>2, <2>4, <2>5, <2>6 DEF Types, TypeOK, Parsed, Copying, copyVars, Cells
<1> QED BY <1>1, <1>2 DEF ParseBoot

\* A valid entry of the FAT is a cluster.
LEMMA FatEntryType ==
  ASSUME Types, Parsed, Reads(fat_sector(cluster)), fat_clus_valid(fat_entry(cluster))
  PROVE  fat_entry(cluster) \in 2 .. EOC - 1
<1> DEFINE s == Sector(fat_sector(cluster))
<1>1. s.fat \in [0 .. (2 * FAT_ENTRIES - 1) -> Nat]
  BY MediaAssumption DEF MediaAssumption, ReadableSector, Types, Reads, Sector
<1>2. EntriesPerSector \in Nat \ {0} /\ EntriesPerSector <= 2 * FAT_ENTRIES
  BY Sizes DEF EntriesPerSector
<1>3. cluster % EntriesPerSector \in 0 .. (2 * FAT_ENTRIES - 1)
  <2>1. cluster \in Nat
    BY Sizes DEF Types, TypeOK
  <2> QED BY <1>2, <2>1, Sizes
<1>4. fat_entry(cluster) \in Nat
  BY <1>1, <1>3 DEF fat_entry
<1> QED BY <1>4, Sizes DEF fat_clus_valid

\* Each step of the driver keeps the types.
LEMMA TypesLoad == \A t \in Tables : Types /\ Load(t) => Types'
BY DEF Types, TypeOK, Load, Parsed, Copying, Room, scanVars, copyVars, Cells

\* Sector 0 is a boot record or leads to one.
LEMMA TypesReadSector0 == Types /\ ReadSector0 => Types'
<1> SUFFICES ASSUME Types, ReadSector0 PROVE Types'
  OBVIOUS
<1>1. pc = "sector0" /\ UNCHANGED <<medium, copyVars>>
  BY DEF ReadSector0
<1>2. CASE ReturnsError /\ UNCHANGED <<bpb, scanVars>>
  BY <1>1, <1>2, TypesError
<1>3. CASE pc' = "vbr" /\ UNCHANGED <<name, suffix, table, bpb, scanVars>>
  BY <1>1, <1>3 DEF Types, TypeOK, Parsed, Copying, scanVars, copyVars, Cells
<1>4. CASE Reads(0) /\ fat_find_vbr = 0 /\ ParseBoot(0)
  BY <1>1, <1>4, TypesParseBoot
<1> QED BY <1>2, <1>3, <1>4 DEF ReadSector0

\* The boot record of a partition.
LEMMA TypesReadVbr == Types /\ ReadVbr => Types'
<1> SUFFICES ASSUME Types, ReadVbr PROVE Types'
  OBVIOUS
<1>1. pc = "vbr" /\ UNCHANGED <<medium, copyVars>>
  BY DEF ReadVbr
<1>2. CASE ReturnsError /\ UNCHANGED <<bpb, scanVars>>
  BY <1>1, <1>2, TypesError
<1>3. CASE Reads(fat_find_vbr) /\ ParseBoot(fat_find_vbr)
  BY <1>1, <1>3, TypesParseBoot
<1> QED BY <1>2, <1>3 DEF ReadVbr

\* What can be read in an entry.
LEMMA EntryType ==
  ASSUME Types, NEW n, Reads(n), NEW at \in DOMAIN Sector(n).dir
  PROVE  LET e == Sector(n).dir[at]
         IN  e.size \in Nat /\ e.cluster \in Nat /\ e.cluster % CLUSTER_MOD \in 0 .. EOC - 1
<1>1. ReadableSector(medium, Sector(n))
  BY MediaAssumption DEF MediaAssumption, Types, Reads, Sector
<1> DEFINE e == Sector(n).dir[at]
<1>2. e.size \in Nat /\ e.cluster \in Nat /\ e.cluster % CLUSTER_MOD < EOC
  BY <1>1 DEF ReadableSector
<1>3. e.cluster % CLUSTER_MOD \in Nat
  <2> HIDE DEF e
  <2> QED BY <1>2, Sizes
<1> HIDE DEF e
<1> QED BY <1>2, <1>3, Sizes DEF e

\* What is done with the entry that was found: a cluster of the medium, or nothing.
LEMMA TypesFound ==
  ASSUME Types, pc = "scan", NEW e, Found(e), UNCHANGED <<medium, bpb>>,
         e.size \in Nat, e.cluster % CLUSTER_MOD \in 0 .. EOC - 1
  PROVE  Types'
<1> DEFINE c == e.cluster % CLUSTER_MOD
<1>1. CASE NotFound /\ UNCHANGED copyVars
  BY <1>1, TypesNotFound DEF Parsed
<1>2. CASE ScanFrom("tables_file", c) /\ UNCHANGED <<name, suffix, table, copyVars>>
  <2> HIDE DEF c
  <2> QED BY <1>2, TypesScanFrom DEF Parsed, c
<1>3. CASE Returns(buffer, 0) /\ UNCHANGED <<scanVars, copyVars>>
  BY <1>3, TypesReturns, Sizes
<1>4. CASE /\ pc' = "data"
           /\ cluster' = c /\ place' = 0
           /\ file_size' = e.size /\ bytes_read' = 0 /\ done' = FALSE
           /\ UNCHANGED <<name, suffix, table, phase, buffer>>
  <2>1. (bytes_read <= Room)'
    BY <1>4, Sizes DEF Room, LeastOf
  <2>2. cluster' \in 0 .. EOC - 1 /\ file_size' \in Nat /\ done' \in BOOLEAN
    BY <1>4
  <2>3. bytes_read' \in 0 .. BUFFER_CELLS
    BY <1>4, Sizes
  <2> HIDE DEF c
  <2> QED BY <1>4, <2>1, <2>2, <2>3 DEF Types, TypeOK, Parsed, Copying, Cells
<1> QED BY <1>1, <1>2, <1>3, <1>4 DEF Found

\* A directory sector.
LEMMA TypesScanStep == Types /\ ScanStep => Types'
<1> SUFFICES ASSUME Types, ScanStep PROVE Types'
  OBVIOUS
<1> DEFINE n == ScanSector
           dir == Sector(n).dir
           at == SelectInSeq(dir, Stops)
<1>1. pc = "scan" /\ UNCHANGED <<medium, bpb>>
  BY DEF ScanStep
<1>2. CASE NotFound /\ UNCHANGED copyVars
  BY <1>1, <1>2, TypesNotFound DEF Parsed
<1>3. CASE Reads(n) /\ at # 0 /\ Found(dir[at])
  <2>1. dir \in Seq(ToSet(dir))
    BY <1>3, MediaAssumption DEF MediaAssumption, ReadableSector, Types, Reads, Sector
  <2>2. at \in DOMAIN dir
    <3> HIDE DEF dir
    <3> QED BY <1>3, <2>1, StopsAt
  <2>3. dir[at].size \in Nat /\ dir[at].cluster % CLUSTER_MOD \in 0 .. EOC - 1
    <3> HIDE DEF at, n
    <3> QED BY <1>3, <2>2, EntryType
  <2> QED BY <1>1, <1>3, <2>3, TypesFound
<1>4. CASE place' = place + 1 /\ UNCHANGED <<pc, phase, cluster, name, suffix, table, copyVars>>
  BY <1>1, <1>4 DEF Types, TypeOK, Parsed, Copying, copyVars, Cells
<1>5. CASE pc' = "scan_next" /\ UNCHANGED <<scanVars, name, suffix, table, copyVars>>
  BY <1>1, <1>5 DEF Types, TypeOK, Parsed, Copying, scanVars, copyVars, Cells
<1> QED BY <1>2, <1>3, <1>4, <1>5 DEF ScanStep

\* The next cluster of a directory.
LEMMA TypesScanNext == Types /\ ScanNext => Types'
<1> SUFFICES ASSUME Types, ScanNext PROVE Types'
  OBVIOUS
<1>1. pc = "scan_next" /\ UNCHANGED <<medium, bpb, copyVars>>
  BY DEF ScanNext
<1>2. CASE NotFound
  BY <1>1, <1>2, TypesNotFound DEF Parsed
<1>3. CASE /\ fat_clus_valid(fat_entry(cluster)) /\ Reads(fat_sector(cluster))
           /\ ScanFrom(phase, fat_entry(cluster)) /\ UNCHANGED <<name, suffix, table>>
  <2>1. fat_entry(cluster) \in 0 .. EOC - 1
    BY <1>1, <1>3, FatEntryType, Sizes DEF Parsed
  <2> QED BY <1>1, <1>3, <2>1, TypesScanFrom DEF Parsed, Types, TypeOK
<1> QED BY <1>2, <1>3 DEF ScanNext

\* A data sector: the cells that are copied stay within the file and within the buffer.
LEMMA TypesCopySector == Types /\ CopySector => Types'
<1> SUFFICES ASSUME Types, CopySector PROVE Types'
  OBVIOUS
<1> DEFINE n == fat_clus2sec(cluster) + place
           copied == LeastOf(SECTOR_CELLS, Room - bytes_read)
<1>1. pc = "data" /\ UNCHANGED <<medium, bpb>>
  BY DEF CopySector
<1>2. CASE ReturnsError /\ UNCHANGED <<scanVars, copyVars>>
  BY <1>1, <1>2, TypesError
<1>3. CASE /\ Reads(n)
           /\ buffer' = [i \in DOMAIN buffer |->
                 IF i \in (bytes_read + 1) .. (bytes_read + copied)
                 THEN Sector(n).data[i - bytes_read] ELSE buffer[i]]
           /\ bytes_read' = bytes_read + copied
           /\ done' = (copied < SECTOR_CELLS)
           /\ \/ place' = place + 1 /\ UNCHANGED pc
              \/ pc' = "data_next" /\ UNCHANGED place
           /\ UNCHANGED <<phase, cluster, file_size, name, suffix, table>>
  <2>1. Room \in 0 .. BUFFER_CELLS /\ bytes_read \in 0 .. Room
    BY <1>1, Sizes DEF Types, TypeOK, Copying, Room, LeastOf
  <2>2. copied \in 0 .. SECTOR_CELLS /\ bytes_read + copied \in 0 .. Room
    BY <2>1, Sizes DEF LeastOf
  <2>3. Sector(n).data \in [1 .. SECTOR_CELLS -> Cells(medium)]
    BY <1>3, MediaAssumption DEF MediaAssumption, ReadableSector, Types, Reads, Sector
  <2>4. buffer' \in [1 .. BUFFER_CELLS -> Cells(medium)]
    <3> SUFFICES ASSUME NEW i \in 1 .. BUFFER_CELLS PROVE buffer'[i] \in Cells(medium)
      BY <1>3 DEF Types
    <3> HIDE DEF copied, n
    <3>1. i \in (bytes_read + 1) .. (bytes_read + copied) => i - bytes_read \in 1 .. SECTOR_CELLS
      BY <2>1, <2>2, Sizes
    <3> QED BY <1>3, <2>3, <3>1 DEF Types
  <2>5. Room' = Room /\ bytes_read' \in 0 .. Room
    BY <1>3, <2>2 DEF Room
  <2>6. done' \in BOOLEAN
    BY <1>3
  <2>7. /\ place' \in Nat /\ pc' \in {"data", "data_next"} /\ phase' = phase /\ cluster' = cluster
        /\ file_size' = file_size /\ name' = name /\ suffix' = suffix /\ table' = table
    BY <1>1, <1>3 DEF Types, TypeOK
  <2> HIDE DEF copied, n
  <2> QED BY <1>1, <2>1, <2>4, <2>5, <2>6, <2>7, Sizes DEF Types, TypeOK, Parsed, Copying, Cells
<1> QED BY <1>2, <1>3 DEF CopySector

\* The next cluster of the file, or the end of the copy.
LEMMA TypesCopyNext == Types /\ CopyNext => Types'
<1> SUFFICES ASSUME Types, CopyNext PROVE Types'
  OBVIOUS
<1>1. pc = "data_next" /\ UNCHANGED <<medium, bpb, copyVars>>
  BY DEF CopyNext
<1>2. CASE Returns(buffer, bytes_read) /\ UNCHANGED scanVars
  BY <1>1, <1>2, TypesReturns DEF Types, TypeOK
<1>3. CASE /\ Reads(fat_sector(cluster)) /\ ~ CopyEnds
           /\ pc' = "data" /\ cluster' = fat_entry(cluster) /\ place' = 0
           /\ UNCHANGED <<phase, name, suffix, table>>
  <2>1. fat_entry(cluster) \in 0 .. EOC - 1
    BY <1>1, <1>3, FatEntryType, Sizes DEF CopyEnds, Parsed
  <2> QED BY <1>1, <1>3, <2>1 DEF Types, TypeOK, Parsed, Copying, Room, copyVars, Cells
<1> QED BY <1>2, <1>3 DEF CopyNext

\* Initially the buffer holds no cell of a file.
LEMMA TypesInit == Init => Types
<1> SUFFICES ASSUME Init PROVE Types
  OBVIOUS
<1>1. /\ pc = "idle" /\ name \in Tables \cup {None} /\ suffix \in BOOLEAN /\ done \in BOOLEAN
      /\ phase = "root_file" /\ place \in Nat /\ table = None /\ medium \in Volumes
  BY DEF Init
<1>2. cluster \in 0 .. EOC - 1 /\ file_size \in Nat /\ bytes_read \in 0 .. BUFFER_CELLS
  BY Sizes DEF Init
<1>3. buffer \in [1 .. BUFFER_CELLS -> Cells(medium)]
  BY DEF Init, Cells
<1> QED BY <1>1, <1>2, <1>3 DEF Types, TypeOK, Parsed, Copying

\* So every step keeps the types.
LEMMA TypesStep == Types /\ [Next]_vars => Types'
<1>1. Types /\ UNCHANGED vars => Types'
  BY DEF Types, TypeOK, Parsed, Copying, Room, vars, scanVars, copyVars, Cells
<1> QED BY <1>1, TypesLoad, TypesReadSector0, TypesReadVbr, TypesScanStep, TypesScanNext,
           TypesCopySector, TypesCopyNext DEF Next, Step

\* Whatever the medium says and whichever sectors fail, the copy stays within sd_file_buffer, and
\* the rows that are handed on are within what was read into it.
THEOREM TypesHold == Spec => []TypeOK
<1>1. Types => TypeOK
  BY DEF Types
<1> QED BY <1>1, TypesInit, TypesStep, PTL DEF Spec

-----------------------------------------------------------------------------
(* The rows of one file.  On a medium whose files are laid out in order the copy is always a    *)
(* number of first cells of one file: the cluster at hand is the j-th of its chain, unless all  *)
(* of the file that fits has been copied.  What an earlier load left in the buffer is beyond.   *)

CellsBefore(j, k) == ((j - 1) * bpb.sectors_per_cluster + k) * SECTOR_CELLS

CopyOf(f) ==
    /\ file_size = f.size /\ f.size > 0
    /\ \A i \in 1 .. bytes_read : buffer[i] = [file |-> f.id, pos |-> i]
    /\ \/ bytes_read = Room
       \/ \E j \in 1 .. Len(f.chain) :
            /\ cluster = f.chain[j]
            /\ pc = "data" => /\ place \in 0 .. bpb.sectors_per_cluster - 1
                              /\ bytes_read = LeastOf(CellsBefore(j, place), Room)
            /\ pc = "data_next" => bytes_read = LeastOf(CellsBefore(j, bpb.sectors_per_cluster), Room)

Copies == Copying => \E f \in Candidates(name) : CopyOf(f)

\* The first n cells of a file give first rows of it.
LEMMA RowsOfFile ==
  ASSUME Types, LaidOut(medium), NEW f \in Files, f.size \in Nat,
         NEW n \in 0 .. BUFFER_CELLS, n <= f.size,
         \A i \in 1 .. n : buffer[i] = [file |-> f.id, pos |-> i],
         Rows(buffer, n) # None
  PROVE  IsPrefix(Rows(buffer, n), FileRows(f))
<1> DEFINE count == Header(buffer).row_count
           available == (n - HEADER_CELLS) \div ROW_CELLS
           len == LeastOf(available, count) * ROW_CELLS
           cells == LeastOf(f.size, BUFFER_CELLS)
           offered == (cells - HEADER_CELLS) \div ROW_CELLS
           all == LeastOf(offered, count) * ROW_CELLS
           t == Rows(buffer, n)
<1>1. /\ n >= HEADER_CELLS /\ Header(buffer).ok /\ count \in Nat
      /\ len \in Nat /\ HEADER_CELLS + len <= n
      /\ Len(t) = len /\ t \in Seq(Cells(medium))
      /\ \A k \in 1 .. len : t[k] = buffer[HEADER_CELLS + k]
  BY RowsWithin DEF Types
<1>2. Header(buffer) = f.header
  <2>1. PICK g \in Files : g.id = buffer[1].file /\ Header(buffer) = g.header
    BY <1>1, HeaderOfFile DEF Types
  <2>2. buffer[1].file = f.id
    <3>1. 1 \in 1 .. n
      BY <1>1, Sizes
    <3>2. buffer[1] = [file |-> f.id, pos |-> 1]
      BY <3>1
    <3> QED BY <3>2
  <2> QED BY <2>1, <2>2 DEF LaidOut, Files
<1>3. cells \in Nat /\ n <= cells /\ HEADER_CELLS <= cells
  BY <1>1, Sizes DEF LeastOf
<1>4. /\ available \in Nat /\ offered \in Nat /\ available <= offered
  <2>1. n - HEADER_CELLS \in Nat /\ cells - HEADER_CELLS \in Nat /\ n - HEADER_CELLS <= cells - HEADER_CELLS
    <3>1. n \in Nat /\ HEADER_CELLS \in Nat /\ n >= HEADER_CELLS
      BY <1>1, Sizes
    <3> HIDE DEF cells
    <3> QED BY <1>3, <3>1
  <2> HIDE DEF cells
  <2> QED BY <2>1, WholeRows, DivMonotonic, Sizes
<1>5. len <= all /\ all \in Nat
  <2>1. /\ LeastOf(available, count) \in Nat /\ LeastOf(offered, count) \in Nat
        /\ LeastOf(available, count) <= LeastOf(offered, count)
    <3> HIDE DEF available, offered, count
    <3> QED BY <1>1, <1>4 DEF LeastOf
  <2> QED BY <2>1, TimesMonotonic, Sizes
<1>6. FileRows(f) = [i \in 1 .. all |-> [file |-> f.id, pos |-> HEADER_CELLS + i]]
  <2>1. ~ (cells < HEADER_CELLS)
    BY <1>3, Sizes
  <2> QED BY <1>2, <2>1 DEF FileRows
<1> HIDE DEF len, all, t
<1>7. Len(FileRows(f)) = all /\ \A k \in 1 .. all : FileRows(f)[k] = [file |-> f.id, pos |-> HEADER_CELLS + k]
  BY <1>5, <1>6
<1>8. \A k \in 1 .. len : t[k] = [file |-> f.id, pos |-> HEADER_CELLS + k]
  <2> SUFFICES ASSUME NEW k \in 1 .. len PROVE t[k] = [file |-> f.id, pos |-> HEADER_CELLS + k]
    OBVIOUS
  <2>1. HEADER_CELLS + k \in 1 .. n
    BY <1>1, Sizes
  <2> QED BY <1>1, <2>1
<1>9. SubSeq(t, 1, len) = SubSeq(FileRows(f), 1, len)
  <2> DEFINE S == [file : {f.id}, pos : Nat]
             u == SubSeq(t, 1, len)
             v == SubSeq(FileRows(f), 1, len)
  <2>1. \A k \in 1 .. len : t[k] = FileRows(f)[k] /\ t[k] \in S /\ FileRows(f)[k] \in S
    <3> SUFFICES ASSUME NEW k \in 1 .. len
                 PROVE  t[k] = FileRows(f)[k] /\ t[k] \in S /\ FileRows(f)[k] \in S
      OBVIOUS
    <3>1. k \in 1 .. all /\ HEADER_CELLS + k \in Nat
      BY <1>1, <1>5, Sizes
    <3>2. t[k] = [file |-> f.id, pos |-> HEADER_CELLS + k] /\ FileRows(f)[k] = t[k]
      BY <1>7, <1>8, <3>1
    <3>3. [file |-> f.id, pos |-> HEADER_CELLS + k] \in S
      BY <3>1
    <3> HIDE DEF S
    <3> QED BY <3>2, <3>3
  <2> HIDE DEF S
  <2>2. /\ u \in Seq(S) /\ v \in Seq(S) /\ Len(u) = len /\ Len(v) = len
        /\ \A k \in 1 .. len : u[k] = t[k] /\ v[k] = FileRows(f)[k]
    <3>1. /\ u \in Seq(S)
          /\ Len(u) = IF 1 <= len THEN len - 1 + 1 ELSE 0
          /\ \A k \in 1 .. len - 1 + 1 : u[k] = t[1 + k - 1]
      BY <1>1, <2>1, SubSeqProperties
    <3>2. /\ v \in Seq(S)
          /\ Len(v) = IF 1 <= len THEN len - 1 + 1 ELSE 0
          /\ \A k \in 1 .. len - 1 + 1 : v[k] = FileRows(f)[1 + k - 1]
      BY <1>1, <2>1, SubSeqProperties
    <3>3. len - 1 + 1 = len /\ (\A k \in 1 .. len : 1 + k - 1 = k) /\ (1 <= len <=> len # 0)
      BY <1>1
    <3> HIDE DEF u, v
    <3> QED BY <1>1, <3>1, <3>2, <3>3
  <2> HIDE DEF u, v
  <2>3. u = v
    BY <1>1, <2>1, <2>2
  <2> QED BY <2>3 DEF u, v
<1> QED BY <1>1, <1>5, <1>7, <1>9 DEF IsPrefix, t

\* The facts about the layout that the copy uses.
LEMMA LayoutOfFile ==
  ASSUME Types, Parsed, LaidOut(medium), NEW f \in Files, f.size > 0
  PROVE  LET spc == bpb.sectors_per_cluster
         IN  /\ f.chain \in Seq(Nat) /\ f.chain[1] \in 2 .. CLUSTER_MOD - 1
             /\ f.size <= Len(f.chain) * spc * SECTOR_CELLS
             /\ \A j \in 1 .. Len(f.chain) - 1 : fat_entry(f.chain[j]) = f.chain[j + 1]
             /\ \A j \in 1 .. Len(f.chain), k \in 0 .. spc - 1, i \in 1 .. SECTOR_CELLS :
                   CellsBefore(j, k) + i <= f.size =>
                      Sector(fat_clus2sec(f.chain[j]) + k).data[i]
                         = [file |-> f.id, pos |-> CellsBefore(j, k) + i]
<1>1. FileLaidOut(medium, bpb, f)
  BY DEF LaidOut, Types, Files
<1> QED BY <1>1 DEF FileLaidOut, LinkOf, CellsBefore, Sector, fat_entry, fat_sector, EntriesPerSector, fat_clus2sec

\* The copy begins with the first cluster of the file that the entry names.
LEMMA CopyOfFound ==
  ASSUME Types, LaidOut(medium), pc = "scan", NEW e, Found(e), UNCHANGED <<medium, bpb>>, Copying',
         e.size \in Nat, NEW f \in Files, e.cluster = f.chain[1], e.size = f.size
  PROVE  CopyOf(f)' /\ cluster' = f.chain[1] /\ 1 \in 1 .. Len(f.chain) /\ place' = 0 /\ pc' = "data"
<1> DEFINE c == e.cluster % CLUSTER_MOD
<1>1. /\ phase # "root_tables" /\ e.size # 0 /\ c >= 2
      /\ pc' = "data" /\ cluster' = c /\ place' = 0
      /\ file_size' = e.size /\ bytes_read' = 0 /\ name' = name /\ buffer' = buffer
  BY DEF Found, NotFound, ScanRoot, ReturnsError, ScanFrom, Returns, Copying
<1>7. f.size \in Nat /\ f.size > 0
  BY <1>1
<1>8. /\ f.chain \in Seq(Nat) /\ f.chain[1] \in 2 .. CLUSTER_MOD - 1
      /\ f.size <= Len(f.chain) * bpb.sectors_per_cluster * SECTOR_CELLS
  BY <1>7, LayoutOfFile DEF Parsed
<1>9. cluster' = f.chain[1]
  <2>1. \A x \in Nat : x < CLUSTER_MOD => x % CLUSTER_MOD = x
    BY Sizes
  <2> QED BY <1>1, <1>8, <2>1, Sizes
<1>10. 1 \in 1 .. Len(f.chain)
  <2>1. Len(f.chain) \in Nat /\ bpb.sectors_per_cluster \in Nat \ {0}
    BY <1>8 DEF Types, Parsed
  <2>2. Len(f.chain) # 0
    <3> SUFFICES ASSUME Len(f.chain) = 0 PROVE FALSE
      OBVIOUS
    <3>1. \A x, y \in Nat : 0 * x * y = 0
      OBVIOUS
    <3>2. Len(f.chain) * bpb.sectors_per_cluster * SECTOR_CELLS = 0
      BY <2>1, <3>1, Sizes
    <3> QED BY <1>7, <1>8, <3>2
  <2> QED BY <2>1, <2>2
<1>11. /\ place' \in 0 .. bpb'.sectors_per_cluster - 1
       /\ bytes_read' = LeastOf(CellsBefore(1, place)', Room')
  <2>1. bpb'.sectors_per_cluster \in Nat \ {0}
    BY DEF Types, Parsed
  <2>2. CellsBefore(1, place)' = 0
    BY <1>1, <2>1, Sizes DEF CellsBefore
  <2>3. Room' \in Nat
    BY <1>1, Sizes DEF Room, LeastOf
  <2> QED BY <1>1, <2>1, <2>2, <2>3 DEF LeastOf
<1>12. CopyOf(f)'
  <2>1. pc' # "data_next" /\ file_size' = f.size /\ f.size > 0 /\ 1 .. bytes_read' = {}
    BY <1>1, <1>7
  <2> QED BY <1>9, <1>10, <1>11, <2>1 DEF CopyOf
<1> QED BY <1>1, <1>9, <1>10, <1>12

\* So it begins with a file that has the name.
LEMMA CopiesFound ==
  ASSUME Types, LaidOut(medium), pc = "scan", NEW n, Reads(n),
         NEW at \in DOMAIN Sector(n).dir, Matches(Sector(n).dir[at]), Found(Sector(n).dir[at]),
         UNCHANGED <<medium, bpb>>
  PROVE  Copies'
<1> DEFINE e == Sector(n).dir[at]
<1> SUFFICES ASSUME Copying' PROVE \E f \in Candidates(name)' : CopyOf(f)'
  BY DEF Copies
<1>1. phase # "root_tables" /\ name' = name
  BY DEF Found, NotFound, ScanRoot, ReturnsError, ScanFrom, Returns, Copying
<1>2. e.kind = "file" /\ e.name \in {to83(name, Extension), to83_alias_guess(name, Extension)}
  BY <1>1 DEF Matches
<1>3. e.size \in Nat
  BY EntryType
<1>4. PICK f \in Files : e.name = f.short /\ e.cluster = f.chain[1] /\ e.size = f.size
  BY <1>2 DEF LaidOut, Files, Reads, Sector
<1>5. f \in Candidates(name)
  BY <1>2, <1>4 DEF Candidates, Extension
<1>6. Candidates(name)' = Candidates(name)
  BY <1>1 DEF Candidates, Files
<1>7. CopyOf(f)'
  <2> HIDE DEF e
  <2> QED BY <1>3, <1>4, CopyOfFound DEF e
<1> QED BY <1>5, <1>6, <1>7

\* A sector adds the next cells of the file.
LEMMA CopyOfSector ==
  ASSUME Types, LaidOut(medium), NEW f \in Files, CopyOf(f), CopySector, Copying'
  PROVE  CopyOf(f)'
<1> DEFINE n == fat_clus2sec(cluster) + place
           copied == LeastOf(SECTOR_CELLS, Room - bytes_read)
           spc == bpb.sectors_per_cluster
<1>1. /\ pc = "data" /\ medium' = medium /\ bpb' = bpb
      /\ buffer' = [i \in DOMAIN buffer |->
                 IF i \in (bytes_read + 1) .. (bytes_read + copied)
                 THEN Sector(n).data[i - bytes_read] ELSE buffer[i]]
      /\ bytes_read' = bytes_read + copied
      /\ done' = (copied < SECTOR_CELLS)
      /\ \/ pc' = "data" /\ ~ done' /\ place + 1 < spc /\ place' = place + 1
         \/ pc' = "data_next" /\ (done' \/ place + 1 = spc)
      /\ cluster' = cluster /\ file_size' = file_size /\ name' = name
  BY DEF CopySector, Copying, ReturnsError
<1>3. f.size \in Nat /\ f.size > 0 /\ file_size = f.size
  BY DEF CopyOf, Types
<1>5. Room \in Nat /\ Room <= f.size /\ Room <= BUFFER_CELLS /\ Room' = Room /\ bytes_read \in 0 .. Room
  BY <1>1, <1>3, Sizes DEF Types, TypeOK, Copying, Room, LeastOf
<1>6. copied \in 0 .. SECTOR_CELLS /\ copied <= Room - bytes_read
      /\ (copied = SECTOR_CELLS \/ copied = Room - bytes_read)
  BY <1>5, Sizes DEF LeastOf
<1>7. spc \in Nat \ {0} /\ DOMAIN buffer = 1 .. BUFFER_CELLS
  BY <1>1 DEF Types, TypeOK, Parsed
<1>8. \A i \in 1 .. bytes_read : buffer'[i] = [file |-> f.id, pos |-> i]
  <2> SUFFICES ASSUME NEW i \in 1 .. bytes_read PROVE buffer'[i] = [file |-> f.id, pos |-> i]
    OBVIOUS
  <2>1. i \in DOMAIN buffer /\ i \notin (bytes_read + 1) .. (bytes_read + copied)
    BY <1>5, <1>6, <1>7, Sizes
  <2>2. buffer'[i] = buffer[i]
    <3> HIDE DEF copied, n
    <3> QED BY <1>1, <2>1
  <2> QED BY <2>2 DEF CopyOf
<1>9. CASE bytes_read = Room
  <2>1. bytes_read' = bytes_read
    BY <1>1, <1>5, <1>6, <1>9, Sizes
  <2>2. CopyOf(f)'
    <3> HIDE DEF copied, n
    <3> QED BY <1>1, <1>3, <1>5, <1>8, <1>9, <2>1 DEF CopyOf
  <2> QED BY <2>2
<1>10. CASE bytes_read # Room
  <2>1. PICK j \in 1 .. Len(f.chain) :
           /\ cluster = f.chain[j] /\ place \in 0 .. spc - 1
           /\ bytes_read = LeastOf(CellsBefore(j, place), Room)
    BY <1>1, <1>10 DEF CopyOf
  <2>2. f.chain \in Seq(Nat) /\ Len(f.chain) \in Nat
    BY <1>1, <1>3, LayoutOfFile DEF Parsed
  <2>3. j \in Nat \ {0} /\ place \in Nat /\ spc \in Nat
    BY <1>7, <2>1, <2>2
  <2>4. /\ CellsBefore(j, place) \in Nat
        /\ CellsBefore(j, place + 1) = CellsBefore(j, place) + SECTOR_CELLS
    BY <2>3, Sizes DEF CellsBefore
  <2>5. bytes_read = CellsBefore(j, place)
    BY <1>5, <1>10, <2>1, <2>4 DEF LeastOf
  <2>6. \A i \in (bytes_read + 1) .. (bytes_read + copied) : buffer'[i] = [file |-> f.id, pos |-> i]
    <3> SUFFICES ASSUME NEW i \in (bytes_read + 1) .. (bytes_read + copied)
                 PROVE  buffer'[i] = [file |-> f.id, pos |-> i]
      OBVIOUS
    <3>1. /\ i \in 1 .. BUFFER_CELLS /\ i - bytes_read \in 1 .. SECTOR_CELLS
          /\ bytes_read + (i - bytes_read) = i /\ i <= f.size
      BY <1>3, <1>5, <1>6, Sizes
    <3>2. Sector(n).data[i - bytes_read] = [file |-> f.id, pos |-> i]
      <4>1. CellsBefore(j, place) + (i - bytes_read) = i
        BY <2>5, <3>1
      <4>2. n = fat_clus2sec(f.chain[j]) + place
        BY <2>1
      <4>3. \A k \in 0 .. spc - 1, l \in 1 .. SECTOR_CELLS :
                 CellsBefore(j, k) + l <= f.size =>
                    Sector(fat_clus2sec(f.chain[j]) + k).data[l]
                         = [file |-> f.id, pos |-> CellsBefore(j, k) + l]
        BY <1>1, <1>3, LayoutOfFile DEF Parsed
      <4> HIDE DEF n
      <4> QED BY <2>1, <3>1, <4>1, <4>2, <4>3
    <3> HIDE DEF copied, n
    <3> QED BY <1>1, <1>7, <3>1, <3>2
  <2>7. \A i \in 1 .. bytes_read' : buffer'[i] = [file |-> f.id, pos |-> i]
    <3> SUFFICES ASSUME NEW i \in 1 .. bytes_read' PROVE buffer'[i] = [file |-> f.id, pos |-> i]
      OBVIOUS
    <3>1. i \in 1 .. bytes_read \/ i \in (bytes_read + 1) .. (bytes_read + copied)
      BY <1>1, <1>5, <1>6, Sizes
    <3> QED BY <1>8, <2>6, <3>1
  <2>8. bytes_read' = LeastOf(CellsBefore(j, place + 1), Room)
    <3> HIDE DEF copied
    <3> QED BY <1>1, <1>5, <1>6, <2>4, <2>5, Sizes DEF LeastOf
  <2>9. CASE bytes_read' = Room
    BY <1>1, <1>3, <1>5, <2>7, <2>9 DEF CopyOf
  <2>10. CASE bytes_read' # Room
    <3>1. ~ done'
      <4>1. copied = SECTOR_CELLS
        BY <1>1, <1>5, <1>6, <2>10
      <4> HIDE DEF copied
      <4>2. ~ (copied < SECTOR_CELLS)
        BY <4>1, Sizes
      <4> QED BY <1>1, <4>2, Zenon
    <3>2. CASE pc' = "data" /\ place + 1 < spc /\ place' = place + 1
      <4>1. CellsBefore(j, place)' = CellsBefore(j, place + 1)
        BY <1>1, <3>2 DEF CellsBefore
      <4>2. place' \in 0 .. bpb'.sectors_per_cluster - 1
        BY <1>1, <1>7, <2>3, <3>2
      <4>3. pc' # "data_next" /\ cluster' = f.chain[j] /\ file_size' = f.size /\ f.size > 0
        BY <1>1, <1>3, <2>1, <3>2
      <4>4. CopyOf(f)'
        <5> HIDE DEF copied, n
        <5> QED BY <1>5, <2>1, <2>7, <2>8, <4>1, <4>2, <4>3 DEF CopyOf
      <4> QED BY <4>4
    <3>3. CASE pc' = "data_next" /\ place + 1 = spc
      <4>1. CellsBefore(j, bpb.sectors_per_cluster)' = CellsBefore(j, place + 1)
        BY <1>1, <3>3 DEF CellsBefore
      <4>2. pc' # "data" /\ cluster' = f.chain[j] /\ file_size' = f.size /\ f.size > 0
        BY <1>1, <1>3, <2>1, <3>3
      <4>3. CopyOf(f)'
        <5> HIDE DEF copied, n
        <5> QED BY <1>5, <2>1, <2>7, <2>8, <4>1, <4>2 DEF CopyOf
      <4> QED BY <4>3
    <3> QED BY <1>1, <3>1, <3>2, <3>3
  <2> QED BY <2>9, <2>10
<1> QED BY <1>9, <1>10

\* A sector adds the next cells of a file that has the name.
LEMMA CopiesSector ==
  ASSUME Types, LaidOut(medium), Copies, CopySector
  PROVE  Copies'
<1> SUFFICES ASSUME Copying' PROVE \E f \in Candidates(name)' : CopyOf(f)'
  BY DEF Copies
<1>1. pc = "data" /\ medium' = medium /\ name' = name
  BY DEF CopySector, ReturnsError
<1>2. PICK f \in Candidates(name) : CopyOf(f)
  BY <1>1 DEF Copies, Copying
<1>3. f \in Files /\ Candidates(name)' = Candidates(name)
  BY <1>1, <1>2 DEF Candidates, Files
<1> QED BY <1>2, <1>3, CopyOfSector

\* The FAT leads from one cluster of the file to the next; at the last one all of it was copied.
LEMMA CopyOfNext ==
  ASSUME Types, LaidOut(medium), NEW f \in Files, CopyOf(f), CopyNext, Copying'
  PROVE  CopyOf(f)'
<1> DEFINE spc == bpb.sectors_per_cluster
<1>1. /\ pc = "data_next" /\ pc' = "data" /\ cluster' = fat_entry(cluster) /\ place' = 0
      /\ medium' = medium /\ bpb' = bpb /\ name' = name
      /\ file_size' = file_size /\ bytes_read' = bytes_read /\ buffer' = buffer
  BY DEF CopyNext, Returns, Copying, copyVars
<1>3. f.size \in Nat /\ f.size > 0 /\ file_size = f.size
  BY DEF CopyOf, Types
<1>5. Room \in Nat /\ Room <= f.size /\ Room' = Room /\ spc \in Nat \ {0}
  BY <1>1, <1>3, Sizes DEF Types, Parsed, Room, LeastOf
<1>6. CASE bytes_read = Room
  <2>1. CopyOf(f)'
    BY <1>1, <1>5, <1>6 DEF CopyOf
  <2> QED BY <2>1
<1>7. CASE bytes_read # Room
  <2>1. PICK j \in 1 .. Len(f.chain) :
           cluster = f.chain[j] /\ bytes_read = LeastOf(CellsBefore(j, spc), Room)
    BY <1>1, <1>7 DEF CopyOf
  <2>2. /\ f.chain \in Seq(Nat) /\ Len(f.chain) \in Nat
        /\ f.size <= Len(f.chain) * spc * SECTOR_CELLS
        /\ \A i \in 1 .. Len(f.chain) - 1 : fat_entry(f.chain[i]) = f.chain[i + 1]
    <3>1. Parsed
      BY <1>1 DEF Parsed
    <3>2. /\ f.chain \in Seq(Nat) /\ f.size <= Len(f.chain) * spc * SECTOR_CELLS
          /\ \A i \in 1 .. Len(f.chain) - 1 : fat_entry(f.chain[i]) = f.chain[i + 1]
      BY <1>3, <3>1, LayoutOfFile, Zenon
    <3> QED BY <3>2
  <2>3. CellsBefore(j, spc) = j * spc * SECTOR_CELLS /\ CellsBefore(j, spc) \in Nat
    BY <1>5, <2>1, <2>2, Sizes DEF CellsBefore
  <2>4. j # Len(f.chain)
    <3> SUFFICES ASSUME j = Len(f.chain) PROVE FALSE
      OBVIOUS
    <3>1. f.size <= CellsBefore(j, spc)
      BY <2>2, <2>3
    <3> QED BY <1>3, <1>5, <1>7, <2>1, <2>3, <3>1 DEF LeastOf
  <2>5. j \in 1 .. Len(f.chain) - 1 /\ j + 1 \in 1 .. Len(f.chain)
    BY <2>1, <2>2, <2>4
  <2>6. cluster' = f.chain[j + 1]
    BY <1>1, <2>1, <2>2, <2>5
  <2>7. CellsBefore(j + 1, place)' = CellsBefore(j, spc)
    <3>1. ((j + 1) - 1) * spc + 0 = (j - 1) * spc + spc
      BY <1>5, <2>5
    <3> QED BY <1>1, <3>1 DEF CellsBefore
  <2>8. /\ place' \in 0 .. bpb'.sectors_per_cluster - 1
        /\ bytes_read' = LeastOf(CellsBefore(j + 1, place)', Room')
    <3>1. place' \in 0 .. bpb'.sectors_per_cluster - 1
      BY <1>1, <1>5
    <3> QED BY <1>1, <1>5, <2>1, <2>7, <3>1
  <2>9. /\ pc' # "data_next" /\ file_size' = f.size /\ f.size > 0
        /\ \A i \in 1 .. bytes_read' : buffer'[i] = [file |-> f.id, pos |-> i]
    BY <1>1, <1>3 DEF CopyOf
  <2>10. CopyOf(f)'
    BY <2>5, <2>6, <2>8, <2>9 DEF CopyOf
  <2> QED BY <2>10
<1> QED BY <1>6, <1>7

\* The next cluster of a file that has the name.
LEMMA CopiesNext ==
  ASSUME Types, LaidOut(medium), Copies, CopyNext
  PROVE  Copies'
<1> SUFFICES ASSUME Copying' PROVE \E f \in Candidates(name)' : CopyOf(f)'
  BY DEF Copies
<1>1. pc = "data_next" /\ medium' = medium /\ name' = name
  BY DEF CopyNext, Returns
<1>2. PICK f \in Candidates(name) : CopyOf(f)
  BY <1>1 DEF Copies, Copying
<1>3. f \in Files /\ Candidates(name)' = Candidates(name)
  BY <1>1, <1>2 DEF Candidates, Files
<1> QED BY <1>2, <1>3, CopyOfNext

\* Copies is kept by every step: only the steps above begin a copy or go on with one.
LEMMA CopiesStep ==
  ASSUME Types, LaidOut(medium), Copies, [Next]_vars
  PROVE  Copies'
<1>1. CASE UNCHANGED vars
  BY <1>1 DEF Copies, Copying, CopyOf, Candidates, Files, CellsBefore, Room, vars, scanVars, copyVars
<1>2. CASE pc' \notin {"data", "data_next"}
  BY <1>2 DEF Copies, Copying
<1>3. ASSUME ScanStep PROVE Copies'
  <2> DEFINE n == ScanSector
             dir == Sector(n).dir
             at == SelectInSeq(dir, Stops)
  <2> SUFFICES ASSUME pc' \in {"data", "data_next"} PROVE Copies'
    BY <1>2
  <2>1. pc = "scan" /\ UNCHANGED <<medium, bpb>>
    BY <1>3 DEF ScanStep
  <2>2. Reads(n) /\ at # 0 /\ dir[at].kind # "end" /\ Found(dir[at])
    BY <1>3, <2>1 DEF ScanStep, NotFound, ScanRoot, ReturnsError
  <2>3. dir \in Seq(ToSet(dir))
    BY <2>2, MediaAssumption DEF MediaAssumption, ReadableSector, Types, Reads, Sector
  <2>4. at \in DOMAIN dir /\ Stops(dir[at])
    <3> HIDE DEF dir
    <3> QED BY <2>2, <2>3, StopsAt
  <2>5. Matches(dir[at])
    BY <2>2, <2>4 DEF Stops
  <2> HIDE DEF at, n
  <2> QED BY <2>1, <2>2, <2>4, <2>5, CopiesFound
<1>4. CASE ReadSector0 \/ ReadVbr
  BY <1>2, <1>4 DEF ReadSector0, ReadVbr, ParseBoot, ScanRoot, ReturnsError
<1>5. CASE ScanNext
  BY <1>2, <1>5 DEF ScanNext, NotFound, ScanRoot, ScanFrom, ReturnsError
<1>6. ASSUME NEW t \in Tables, Load(t) PROVE Copies'
  BY <1>2, <1>6 DEF Load
<1> QED BY <1>1, <1>3, <1>4, <1>5, <1>6, CopiesSector, CopiesNext DEF Next, Step

\* A table that sd_read_file delivers has rows of the file that was copied.
LEMMA OwnRowsReturned ==
  ASSUME Types, LaidOut(medium), Copies, CopyNext, Returns(buffer, bytes_read)
  PROVE  OwnRows'
<1> SUFFICES ASSUME table' # None
             PROVE  \E f \in Candidates(name)' : IsPrefix(table', FileRows(f)')
  BY DEF OwnRows, Loaded
<1>1. pc = "data_next" /\ UNCHANGED <<medium, name>> /\ table' = Rows(buffer, bytes_read)
  BY DEF CopyNext, Returns
<1>2. PICK f \in Candidates(name) : CopyOf(f)
  BY <1>1 DEF Copies, Copying
<1>3. f \in Files /\ f.size \in Nat /\ file_size = f.size
  BY <1>2 DEF Candidates, CopyOf, Types
<1>4. bytes_read \in 0 .. BUFFER_CELLS /\ bytes_read <= f.size
  BY <1>1, <1>3, Sizes DEF Types, TypeOK, Copying, Room, LeastOf
<1>5. IsPrefix(table', FileRows(f))
  BY <1>1, <1>2, <1>3, <1>4, RowsOfFile DEF CopyOf
<1>6. Candidates(name)' = Candidates(name) /\ FileRows(f)' = FileRows(f)
  BY <1>1 DEF Candidates, Files, FileRows
<1> QED BY <1>2, <1>5, <1>6

\* A step that hands no table on.
LEMMA OwnRowsNoTable ==
  ASSUME pc' # "idle" \/ table' = None
  PROVE  OwnRows'
BY DEF OwnRows, Loaded

\* An error of sd_read_file leaves no table, and neither does a file without cells.
LEMMA NoTable ==
  ASSUME Types, pc # "idle", ReturnsError \/ NotFound \/ Returns(buffer, 0)
  PROVE  pc' # "idle" \/ table' = None
<1>1. table = None
  BY DEF Types
<1>2. Rows(buffer, 0) = None
  <2>1. 0 < HEADER_CELLS
    BY Sizes
  <2> QED BY <2>1, Zenon DEF Rows
<1> QED BY <1>1, <1>2 DEF ReturnsError, NotFound, ScanRoot, Returns

\* OwnRows is kept by every step: only the end of a copy hands a table on.
LEMMA OwnRowsStep ==
  ASSUME Types, LaidOut(medium), Copies, OwnRows, [Next]_vars
  PROVE  OwnRows'
<1>1. CASE UNCHANGED vars
  BY <1>1 DEF OwnRows, Loaded, Candidates, Files, FileRows, vars
<1>2. CASE ReadSector0 \/ ReadVbr
  <2>1. pc # "idle"
    BY <1>2 DEF ReadSector0, ReadVbr
  <2>2. ReturnsError \/ pc' \in {"vbr", "scan"}
    BY <1>2 DEF ReadSector0, ReadVbr, ParseBoot, ScanRoot
  <2> QED BY <2>1, <2>2, NoTable, OwnRowsNoTable
<1>3. CASE ScanStep
  <2>1. pc # "idle"
    BY <1>3 DEF ScanStep
  <2>2. NotFound \/ Returns(buffer, 0) \/ pc' \in {"scan", "scan_next", "data"}
    BY <1>3 DEF ScanStep, Found, ScanFrom
  <2> QED BY <2>1, <2>2, NoTable, OwnRowsNoTable
<1>4. CASE ScanNext
  <2>1. pc # "idle"
    BY <1>4 DEF ScanNext
  <2>2. NotFound \/ pc' = "scan"
    BY <1>4 DEF ScanNext, ScanFrom
  <2> QED BY <2>1, <2>2, NoTable, OwnRowsNoTable
<1>5. CASE CopySector
  <2>1. pc = "data"
    BY <1>5 DEF CopySector
  <2>2. ReturnsError \/ pc' \in {"data", "data_next"}
    BY <1>5, <2>1 DEF CopySector
  <2> QED BY <2>1, <2>2, NoTable, OwnRowsNoTable
<1>6. CASE CopyNext
  <2>1. Returns(buffer, bytes_read) \/ pc' = "data"
    BY <1>6 DEF CopyNext
  <2> QED BY <1>6, <2>1, OwnRowsReturned, OwnRowsNoTable
<1>7. ASSUME NEW t \in Tables, Load(t) PROVE OwnRows'
  BY <1>7, OwnRowsNoTable DEF Load
<1> QED BY <1>1, <1>2, <1>3, <1>4, <1>5, <1>6, <1>7 DEF Next, Step

\* On a medium whose files are laid out in order, and whichever sectors cannot be read, the rows
\* that load_table_from_sd hands to the query are first rows of one file with the table's name:
\* never what an earlier load left in sd_file_buffer, and never another file's or free space.
THEOREM OwnRowsHold ==
  ASSUME \A m \in Volumes : LaidOut(m)
  PROVE  Spec => []OwnRows
<1> DEFINE Own == Types /\ Copies /\ OwnRows
<1>1. Init => Own
  <2>1. Init => pc = "idle" /\ table = None
    BY DEF Init
  <2> QED BY <2>1, TypesInit DEF Copies, Copying, OwnRows, Loaded
<1>2. Own /\ [Next]_vars => Own'
  <2> SUFFICES ASSUME Own, [Next]_vars PROVE Own'
    OBVIOUS
  <2>1. LaidOut(medium)
    BY DEF Types
  <2> QED BY <2>1, TypesStep, CopiesStep, OwnRowsStep
<1>3. Own => OwnRows
  OBVIOUS
<1> HIDE DEF Own
<1> QED BY <1>1, <1>2, <1>3, PTL DEF Spec

-----------------------------------------------------------------------------
(* The right table.  As long as no sector failed, the search has seen that nothing that comes   *)
(* before the place where it is exists, and what it copies is the file that is sought.          *)

\* All the cells of a file that fit in the buffer give all the rows that it offers.
LEMMA RowsOfWhole ==
  ASSUME Types, LaidOut(medium), NEW f \in Files, f.size \in Nat,
         NEW n, n = LeastOf(f.size, BUFFER_CELLS),
         \A i \in 1 .. n : buffer[i] = [file |-> f.id, pos |-> i]
  PROVE  IF f.header.ok /\ Len(FileRows(f)) > 0
         THEN Rows(buffer, n) = FileRows(f) ELSE Rows(buffer, n) \in {None, <<>>}
<1> DEFINE count == f.header.row_count
           available == (n - HEADER_CELLS) \div ROW_CELLS
           rows == IF n < HEADER_CELLS THEN 0 ELSE LeastOf(available, count)
           len == rows * ROW_CELLS
           all == [i \in 1 .. len |-> [file |-> f.id, pos |-> HEADER_CELLS + i]]
<1>1. n \in 0 .. BUFFER_CELLS /\ n \in Nat
  BY Sizes DEF LeastOf
<1>2. count \in Nat
  BY MediaAssumption DEF MediaAssumption, Files, Types
<1>3. FileRows(f) = all
  BY DEF FileRows
<1>4. rows \in Nat /\ (n < HEADER_CELLS \/ available = 0 => rows = 0)
  <2>1. CASE n < HEADER_CELLS
    BY <2>1
  <2>2. CASE ~ (n < HEADER_CELLS)
    <3>1. n - HEADER_CELLS \in Nat
      BY <1>1, <2>2, Sizes
    <3>2. available \in Nat
      BY <3>1, WholeRows, Sizes
    <3> HIDE DEF available, count
    <3> QED BY <1>2, <2>2, <3>2 DEF LeastOf
  <2> QED BY <2>1, <2>2
<1>5. len \in Nat /\ (rows = 0 => len = 0)
  <2> HIDE DEF rows
  <2> QED BY <1>4, Sizes
<1>6. Len(all) = len /\ \A k \in 1 .. len : all[k] = [file |-> f.id, pos |-> HEADER_CELLS + k]
  <2> HIDE DEF len
  <2> QED BY <1>5
<1>7. CASE n < HEADER_CELLS \/ available = 0
  <2>1. Rows(buffer, n) = None
    <3> HIDE DEF available
    <3> QED BY <1>7, Zenon DEF Rows, available
  <2>2. ~ (Len(FileRows(f)) > 0)
    <3> HIDE DEF all, len, rows
    <3> QED BY <1>3, <1>4, <1>5, <1>6, <1>7
  <2> QED BY <2>1, <2>2, Zenon
<1>8. CASE ~ (n < HEADER_CELLS) /\ available # 0
  <2>1. n >= HEADER_CELLS /\ 1 \in 1 .. n /\ 1 \in 1 .. HEADER_CELLS
    BY <1>1, <1>8, Sizes
  <2>2. \A i \in 1 .. HEADER_CELLS : buffer[i].pos = i /\ buffer[i].file = f.id
    <3> SUFFICES ASSUME NEW i \in 1 .. HEADER_CELLS PROVE buffer[i].pos = i /\ buffer[i].file = f.id
      OBVIOUS
    <3>1. i \in 1 .. n
      BY <1>1, <2>1, Sizes
    <3>2. buffer[i] = [file |-> f.id, pos |-> i]
      BY <3>1
    <3> QED BY <3>2
  <2>3. buffer[1].file = f.id
    BY <2>1, <2>2
  <2>4. Header(buffer) = f.header
    <3> DEFINE fs == medium.volume.files
               i == CHOOSE i \in DOMAIN fs : fs[i].id = buffer[1].file
    <3>1. \E j \in DOMAIN fs : fs[j] = f
      BY DEF Files, ToSet
    <3>2. i \in DOMAIN fs /\ fs[i].id = f.id
      BY <2>3, <3>1
    <3>3. fs[i] \in Files
      BY <3>2 DEF Files, ToSet
    <3>4. fs[i] = f
      BY <3>2, <3>3 DEF LaidOut, Files
    <3>5. Header(buffer) = fs[i].header
      BY <2>2, <2>3 DEF Header
    <3> QED BY <3>4, <3>5, Zenon
  <2>5. CASE ~ f.header.ok
    <3>1. Rows(buffer, n) = None
      BY <2>4, <2>5, Zenon DEF Rows
    <3> QED BY <2>5, <3>1, Zenon
  <2>6. CASE f.header.ok
    <3>1. /\ Len(Rows(buffer, n)) = LeastOf(available, Header(buffer).row_count) * ROW_CELLS
          /\ HEADER_CELLS + LeastOf(available, Header(buffer).row_count) * ROW_CELLS <= n
          /\ Rows(buffer, n) \in Seq(Cells(medium))
          /\ \A k \in 1 .. LeastOf(available, Header(buffer).row_count) * ROW_CELLS :
                Rows(buffer, n)[k] = buffer[HEADER_CELLS + k]
      BY <1>1, <1>8, <2>1, <2>4, <2>6, RowsTaken DEF Types
    <3>2. LeastOf(available, Header(buffer).row_count) * ROW_CELLS = len
      BY <1>8, <2>4
    <3> HIDE DEF len, available
    <3>3. /\ Len(Rows(buffer, n)) = len /\ HEADER_CELLS + len <= n
          /\ Rows(buffer, n) \in Seq(Cells(medium))
          /\ \A k \in 1 .. len : Rows(buffer, n)[k] = buffer[HEADER_CELLS + k]
      BY <3>1, <3>2
    <3>4. \A k \in 1 .. len : Rows(buffer, n)[k] = all[k]
      <4> SUFFICES ASSUME NEW k \in 1 .. len PROVE Rows(buffer, n)[k] = all[k]
        OBVIOUS
      <4>1. HEADER_CELLS + k \in 1 .. n
        BY <1>1, <1>5, <3>3, Sizes
      <4> QED BY <1>6, <3>3, <4>1
    <3>5. Rows(buffer, n) = all
      <4>1. Rows(buffer, n) \in [1 .. len -> Cells(medium)]
        BY <3>3
      <4>2. DOMAIN all = 1 .. len
        OBVIOUS
      <4> HIDE DEF all
      <4>3. all = [k \in 1 .. len |-> all[k]]
        BY DEF all
      <4> QED BY <3>4, <4>1, <4>3
    <3>6. len = 0 => Rows(buffer, n) = <<>>
      BY <3>3
    <3>7. Len(FileRows(f)) > 0 \/ len = 0
      <4> HIDE DEF all
      <4> QED BY <1>3, <1>5, <1>6
    <3> HIDE DEF all
    <3> QED BY <1>3, <2>6, <3>5, <3>6, <3>7
  <2> QED BY <2>5, <2>6
<1> QED BY <1>7, <1>8

\* The extensions of the long names that are looked for.
Suffixed == {"tbl", "tbl8"}
Sought == IF suffix THEN Suffixed ELSE {""}

\* The directory that is scanned, its clusters, and its sectors.
ScanDir == IF phase = "tables_file" THEN "tables" ELSE "root"
Chain == DirChain(medium, bpb, ScanDir)
DirAt(j, k) == Sector(SectorOf(bpb, Chain[j], k)).dir

\* No entry before sector k of the j-th cluster stops the scan.
Clear(j, k) ==
    \A i \in 1 .. Len(Chain) : \A l \in 0 .. Width(bpb, Chain[i]) - 1 :
       i < j \/ (i = j /\ l < k) => \A y \in DOMAIN DirAt(i, l) : ~ Stops(DirAt(i, l)[y])

ScanAt ==
    \E j \in 1 .. Len(Chain) :
       /\ cluster = Chain[j]
       /\ pc = "scan" => place \in 0 .. Width(bpb, cluster) - 1 /\ Clear(j, place)
       /\ pc = "scan_next" => Clear(j + 1, 0) /\ cluster >= 2

\* The copy stays on the clusters of the file, and is over only when all that fits is copied.
Follows(f) ==
    /\ \E j \in 1 .. Len(f.chain) : cluster = f.chain[j]
    /\ place \in 0 .. bpb.sectors_per_cluster - 1
    /\ pc = "data_next" /\ done => bytes_read = Room

\* Where a search is that has met no fault: what comes earlier in the order of the search does not
\* exist, and what is copied is what is sought.
Search ==
    /\ pc # "idle" => name \in Tables
    /\ pc # "idle" /\ ~ suffix /\ medium.volume.formatted =>
          Named(name, Suffixed, "root") = {} /\ Named(name, Suffixed, "tables") = {}
    /\ Parsed => medium.volume.formatted
    /\ Parsed /\ phase # "root_file" => Named(name, Sought, "root") = {}
    /\ pc \in {"scan", "scan_next"} => ScanAt
    /\ Copying => \E f \in Named(name, Sought, ScanDir) : CopyOf(f) /\ Follows(f)

\* The scan of a sector stops at the first entry that it looks for, if there is one.
LEMMA StopsFirst ==
  ASSUME NEW S, NEW dir \in Seq(S)
  PROVE  LET at == SelectInSeq(dir, Stops)
         IN  /\ at = 0 => \A y \in DOMAIN dir : ~ Stops(dir[y])
             /\ at # 0 => \A y \in DOMAIN dir : y < at => ~ Stops(dir[y])
<1> DEFINE I == {j \in 1 .. Len(dir) : Stops(dir[j])}
           at == SelectInSeq(dir, Stops)
<1>1. at = IF I # {} THEN Min(I) ELSE 0
  BY DEF SelectInSeq
<1>2. I \subseteq Nat \ {0} /\ DOMAIN dir = 1 .. Len(dir) /\ Len(dir) \in Nat
  OBVIOUS
<1>3. CASE I = {}
  <2>1. \A y \in DOMAIN dir : ~ Stops(dir[y])
    BY <1>2, <1>3
  <2> QED BY <2>1
<1>4. CASE I # {}
  <2>1. \E n \in I : \A m \in I : n <= m
    <3> HIDE DEF I
    <3> QED BY <1>2, <1>4, LeastNat
  <2>2. Min(I) \in I /\ \A m \in I : Min(I) <= m
    <3> HIDE DEF I
    <3> QED BY <2>1 DEF Min
  <2>3. at \in I /\ \A m \in I : at <= m
    BY <1>1, <1>4, <2>2
  <2> HIDE DEF at
  <2>4. at \in Nat \ {0} /\ \A y \in DOMAIN dir : y < at => ~ Stops(dir[y])
    BY <1>2, <2>3
  <2> QED BY <2>4 DEF at
<1> QED BY <1>3, <1>4

\* The first set of a sequence of four that is not empty.
LEMMA FirstOfFour ==
  ASSUME NEW a, NEW b, NEW c, NEW d
  PROVE  LET found == SelectInSeq(<<a, b, c, d>>, LAMBDA fs : fs # {})
         IN  /\ a # {} => found = 1
             /\ a = {} /\ b # {} => found = 2
             /\ a = {} /\ b = {} /\ c # {} => found = 3
             /\ a = {} /\ b = {} /\ c = {} /\ d # {} => found = 4
             /\ a = {} /\ b = {} /\ c = {} /\ d = {} => found = 0
<1> DEFINE order == <<a, b, c, d>>
           I == {j \in 1 .. Len(order) : order[j] # {}}
<1>1. SelectInSeq(order, LAMBDA fs : fs # {}) = IF I # {} THEN Min(I) ELSE 0
  BY DEF SelectInSeq
<1>2. Len(order) = 4 /\ order[1] = a /\ order[2] = b /\ order[3] = c /\ order[4] = d
  OBVIOUS
<1> HIDE DEF order
<1>3. /\ I \subseteq 1 .. 4
      /\ 1 \in I <=> a # {}
      /\ 2 \in I <=> b # {}
      /\ 3 \in I <=> c # {}
      /\ 4 \in I <=> d # {}
  BY <1>2
<1> HIDE DEF I
<1>4. \A j \in I : j = 1 \/ j = 2 \/ j = 3 \/ j = 4
  BY <1>3
<1>5. ASSUME NEW m \in I, \A j \in I : m <= j PROVE Min(I) = m
  <2>1. Min(I) \in I /\ \A j \in I : Min(I) <= j
    BY <1>5 DEF Min
  <2>2. Min(I) <= m /\ m <= Min(I) /\ m \in 1 .. 4 /\ Min(I) \in 1 .. 4
    BY <1>3, <1>5, <2>1
  <2> QED BY <2>2
<1>6. a # {} => Min(I) = 1 /\ I # {}
  BY <1>3, <1>4, <1>5
<1>7. a = {} /\ b # {} => Min(I) = 2 /\ I # {}
  BY <1>3, <1>4, <1>5
<1>8. a = {} /\ b = {} /\ c # {} => Min(I) = 3 /\ I # {}
  BY <1>3, <1>4, <1>5
<1>9. a = {} /\ b = {} /\ c = {} /\ d # {} => Min(I) = 4 /\ I # {}
  BY <1>3, <1>4, <1>5
<1>10. a = {} /\ b = {} /\ c = {} /\ d = {} => I = {}
  BY <1>3, <1>4
<1> QED BY <1>1, <1>6, <1>7, <1>8, <1>9, <1>10 DEF order

\* The table is in the first of the four places that has it, or in none.
LEMMA DesignatedFirst ==
  ASSUME NEW t
  PROVE  LET a == Named(t, Suffixed, "root")
             b == Named(t, Suffixed, "tables")
             c == Named(t, {""}, "root")
             d == Named(t, {""}, "tables")
         IN  /\ medium.volume.formatted /\ a # {} => Designated(t) = a
             /\ medium.volume.formatted /\ a = {} /\ b # {} => Designated(t) = b
             /\ medium.volume.formatted /\ a = {} /\ b = {} /\ c # {} => Designated(t) = c
             /\ medium.volume.formatted /\ a = {} /\ b = {} /\ c = {} /\ d # {} => Designated(t) = d
             /\ a = {} /\ b = {} /\ c = {} /\ d = {} => Designated(t) = {}
             /\ ~ medium.volume.formatted => Designated(t) = {}
<1> DEFINE a == Named(t, Suffixed, "root")
           b == Named(t, Suffixed, "tables")
           c == Named(t, {""}, "root")
           d == Named(t, {""}, "tables")
           found == SelectInSeq(<<a, b, c, d>>, LAMBDA fs : fs # {})
<1>1. Designated(t) = IF found = 0 \/ ~ medium.volume.formatted THEN {} ELSE <<a, b, c, d>>[found]
  BY DEF Designated, Suffixed
<1>2. /\ a # {} => found = 1
      /\ a = {} /\ b # {} => found = 2
      /\ a = {} /\ b = {} /\ c # {} => found = 3
      /\ a = {} /\ b = {} /\ c = {} /\ d # {} => found = 4
      /\ a = {} /\ b = {} /\ c = {} /\ d = {} => found = 0
  <2> HIDE DEF a, b, c, d
  <2> QED BY FirstOfFour
<1> HIDE DEF found, a, b, c, d
<1>3. <<a, b, c, d>>[1] = a /\ <<a, b, c, d>>[2] = b /\ <<a, b, c, d>>[3] = c /\ <<a, b, c, d>>[4] = d
  OBVIOUS
<1>4. 1 # 0 /\ 2 # 0 /\ 3 # 0 /\ 4 # 0
  OBVIOUS
<1> QED BY <1>1, <1>2, <1>3, <1>4, Zenon DEF a, b, c, d

\* Where the search is, the table that is sought is the one that the search designates.
LEMMA DesignatedHere ==
  ASSUME Types, Search, Parsed, Named(name, Sought, ScanDir) # {}
  PROVE  Designated(name) = Named(name, Sought, ScanDir)
<1> DEFINE a == Named(name, Suffixed, "root")
           b == Named(name, Suffixed, "tables")
           c == Named(name, {""}, "root")
           d == Named(name, {""}, "tables")
<1>1. medium.volume.formatted
  BY DEF Search
<1>2. ~ suffix => Named(name, Suffixed, "root") = {} /\ Named(name, Suffixed, "tables") = {}
  BY <1>1 DEF Search, Parsed
<1>3. phase # "root_file" => Named(name, Sought, "root") = {}
  BY DEF Search
<1>4. phase \in {"root_file", "tables_file"} /\ suffix \in BOOLEAN
  BY <1>3 DEF ScanDir, Types, TypeOK
<1>5. /\ a # {} => Designated(name) = a
      /\ a = {} /\ b # {} => Designated(name) = b
      /\ a = {} /\ b = {} /\ c # {} => Designated(name) = c
      /\ a = {} /\ b = {} /\ c = {} /\ d # {} => Designated(name) = d
  BY <1>1, DesignatedFirst, Zenon
<1>10. CASE suffix /\ phase = "root_file"
  BY <1>5, <1>10 DEF Sought, ScanDir
<1>11. CASE suffix /\ phase = "tables_file"
  BY <1>3, <1>5, <1>11 DEF Sought, ScanDir
<1>12. CASE ~ suffix /\ phase = "root_file"
  BY <1>2, <1>5, <1>12 DEF Sought, ScanDir
<1>13. CASE ~ suffix /\ phase = "tables_file"
  BY <1>2, <1>3, <1>5, <1>13 DEF Sought, ScanDir
<1> QED BY <1>4, <1>10, <1>11, <1>12, <1>13

\* What is designated depends on the medium and the name only.
LEMMA DesignatedSame ==
  ASSUME UNCHANGED <<medium, name>>
  PROVE  Designated(name)' = Designated(name)
<1>1. /\ Named(name, {"tbl", "tbl8"}, "root")' = Named(name, {"tbl", "tbl8"}, "root")
      /\ Named(name, {"tbl", "tbl8"}, "tables")' = Named(name, {"tbl", "tbl8"}, "tables")
      /\ Named(name, {""}, "root")' = Named(name, {""}, "root")
      /\ Named(name, {""}, "tables")' = Named(name, {""}, "tables")
  BY DEF Named, Files
<1> QED BY <1>1, Zenon DEF Designated, SelectInSeq

\* sd_read_file ends without the file: the bare name is next, or there is no table.
LEMMA SearchError ==
  ASSUME Types, Search, pc # "idle", ReturnsError, UNCHANGED medium,
         medium.volume.formatted => Named(name, Sought, "root") = {} /\ Named(name, Sought, "tables") = {}
  PROVE  Search' /\ RightTable'
<1>1. name' = name /\ suffix' = FALSE /\ table' = None /\ suffix \in BOOLEAN
  BY DEF ReturnsError, Types, TypeOK
<1>2. CASE suffix
  <2>1. pc' = "sector0"
    BY <1>2 DEF ReturnsError
  <2>2. Named(name, Suffixed, "root")' = Named(name, Sought, "root")
        /\ Named(name, Suffixed, "tables")' = Named(name, Sought, "tables")
    BY <1>1, <1>2 DEF Named, Files, Sought, Suffixed
  <2>3. name' \in Tables
    BY <1>1 DEF Search
  <2>4. Search'
    BY <2>1, <2>2, <2>3 DEF Search, Parsed, Copying
  <2> QED BY <2>1, <2>4 DEF RightTable
<1>3. CASE ~ suffix
  <2>1. pc' = "idle"
    BY <1>3 DEF ReturnsError
  <2>2. Search'
    BY <2>1 DEF Search, Parsed, Copying
  <2>3. Designated(name) = {}
    <3>1. medium.volume.formatted =>
            /\ Named(name, Suffixed, "root") = {} /\ Named(name, Suffixed, "tables") = {}
            /\ Named(name, {""}, "root") = {} /\ Named(name, {""}, "tables") = {}
      BY <1>3 DEF Search, Sought
    <3> QED BY <3>1, DesignatedFirst, Zenon
  <2>4. Designated(name)' = Designated(name)
    BY <1>1, DesignatedSame
  <2> QED BY <1>1, <2>2, <2>3, <2>4 DEF RightTable
<1> QED BY <1>1, <1>2, <1>3

\* The directories of a medium that can be searched.
LEMMA SearchableDirs ==
  ASSUME NEW m, Searchable(m), m.volume.formatted
  PROVE  /\ DirListed(m, Bpb(m), "root") /\ ChainReadable(m, Bpb(m), DirChain(m, Bpb(m), "root"))
         /\ m.volume.tables # <<>> => /\ DirListed(m, Bpb(m), "tables")
                                     /\ ChainReadable(m, Bpb(m), DirChain(m, Bpb(m), "tables"))
                                     /\ m.volume.tables[1] \in 2 .. CLUSTER_MOD - 1
         /\ m.volume.tables = <<>> => \A f \in ToSet(m.volume.files) : f.dir # "tables"
         /\ DirChain(m, Bpb(m), "root")[1] = IF Bpb(m).is_fat32 THEN Bpb(m).root_cluster ELSE 0
         /\ ~ Bpb(m).is_fat32 => Len(DirChain(m, Bpb(m), "root")) = 1
         /\ Bpb(m).is_fat32 => Bpb(m).root_cluster >= 2
<1>1. /\ DirListed(m, Bpb(m), "root")
      /\ Bpb(m).is_fat32 => Bpb(m).root_cluster = m.volume.root[1] /\ Bpb(m).root_cluster >= 2
      /\ IF m.volume.tables = <<>> THEN \A f \in ToSet(m.volume.files) : f.dir # "tables"
         ELSE m.volume.tables[1] \in 2 .. CLUSTER_MOD - 1 /\ DirListed(m, Bpb(m), "tables")
  BY DEF Searchable
<1>2. \A dir : DirListed(m, Bpb(m), dir) => ChainReadable(m, Bpb(m), DirChain(m, Bpb(m), dir))
  BY DEF DirListed
<1>3. DirChain(m, Bpb(m), "root") = IF Bpb(m).is_fat32 THEN m.volume.root ELSE <<0>>
  BY DEF DirChain
<1> QED BY <1>1, <1>2, <1>3

\* A scan begins with the first sector of the directory.
LEMMA ScanBegins ==
  ASSUME NEW ch, ch = Chain', pc' = "scan", cluster' = ch[1], place' = 0,
         ChainReadable(medium', bpb', ch)
  PROVE  ScanAt'
<1>1. ch \in Seq(Nat) /\ ch # <<>>
  BY DEF ChainReadable
<1>2. 1 \in 1 .. Len(ch)
  BY <1>1
<1>3. Width(bpb', ch[1]) \in Nat \ {0}
  BY <1>2 DEF ChainReadable
<1>4. place' \in 0 .. Width(bpb, cluster)' - 1
  <2>1. Width(bpb, cluster)' = Width(bpb', ch[1])
    BY DEF Width
  <2> QED BY <1>3, <2>1
<1>5. Clear(1, place)'
  <2> SUFFICES ASSUME NEW i \in 1 .. Len(ch), NEW l \in 0 .. Width(bpb', ch[i]) - 1,
                      i < 1 \/ (i = 1 /\ l < place')
               PROVE  FALSE
    BY DEF Clear, Width
  <2> QED BY <1>1
<1> QED BY <1>2, <1>4, <1>5 DEF ScanAt

\* The scan finds nothing.
LEMMA SearchNotFound ==
  ASSUME Types, Searchable(medium), Search, Parsed, NotFound, UNCHANGED <<medium, bpb>>,
         Named(name, Sought, IF phase = "root_file" THEN "root" ELSE "tables") = {}
  PROVE  Search' /\ RightTable'
<1>1. medium.volume.formatted /\ bpb = Bpb(medium) /\ pc # "idle" /\ name \in Tables
      /\ (phase # "root_file" => Named(name, Sought, "root") = {})
      /\ (~ suffix => Named(name, Suffixed, "root") = {} /\ Named(name, Suffixed, "tables") = {})
  BY DEF Search, Parsed, Types
<1>2. CASE phase # "root_file" /\ ReturnsError /\ UNCHANGED scanVars
  BY <1>1, <1>2, SearchError
<1>3. CASE phase = "root_file" /\ ScanRoot("root_tables", bpb) /\ UNCHANGED <<name, suffix, table>>
  <2>1. pc' = "scan" /\ phase' = "root_tables" /\ place' = 0
        /\ cluster' = IF bpb.is_fat32 THEN bpb.root_cluster ELSE 0
    BY <1>3 DEF ScanRoot
  <2>2. Chain' = DirChain(medium, bpb, "root")
    BY <2>1 DEF Chain, ScanDir, DirChain
  <2>3. ChainReadable(medium', bpb', Chain') /\ cluster' = Chain'[1]
    BY <1>1, <2>1, <2>2, SearchableDirs
  <2>4. ScanAt'
    BY <2>1, <2>3, ScanBegins
  <2>5. /\ Named(name, Sought, "root")' = {}
        /\ ~ suffix' => Named(name, Suffixed, "root")' = {} /\ Named(name, Suffixed, "tables")' = {}
    <3>1. Named(name, Sought, "root") = {}
      BY <1>3
    <3>2. /\ Named(name, Sought, "root")' = Named(name, Sought, "root")
          /\ Named(name, Suffixed, "root")' = Named(name, Suffixed, "root")
          /\ Named(name, Suffixed, "tables")' = Named(name, Suffixed, "tables")
      BY <1>3 DEF Named, Files, Sought, Suffixed
    <3> QED BY <1>1, <1>3, <3>1, <3>2
  <2>6. Search'
    BY <1>1, <1>3, <2>1, <2>4, <2>5 DEF Search, Parsed, Copying
  <2> QED BY <2>1, <2>6 DEF RightTable
<1> QED BY <1>2, <1>3 DEF NotFound

\* A boot record leads to the root directory if the medium is formatted, and to an error if not.
LEMMA SearchParseBoot ==
  ASSUME Types, Searchable(medium), Search, pc \in {"sector0", "vbr"},
         ParseBoot(fat_find_vbr), UNCHANGED medium
  PROVE  Search' /\ RightTable'
<1>1. fat_find_vbr = Vbr(medium) /\ Sector(fat_find_vbr) = medium.image[Vbr(medium) + 1]
  BY DEF fat_find_vbr, Vbr, Sector
<1>2. medium.volume.formatted <=> fat_valid(Sector(fat_find_vbr))
  BY <1>1 DEF Searchable
<1>3. /\ name \in Tables
      /\ ~ suffix /\ medium.volume.formatted =>
            Named(name, Suffixed, "root") = {} /\ Named(name, Suffixed, "tables") = {}
  BY DEF Search
<1>4. CASE ~ fat_valid(Sector(fat_find_vbr)) /\ ReturnsError
  BY <1>2, <1>4, SearchError
<1>5. CASE /\ fat_valid(Sector(fat_find_vbr))
           /\ bpb' = fat_parse_bpb(Sector(fat_find_vbr).bpb, fat_find_vbr)
           /\ ScanRoot("root_file", bpb')
           /\ UNCHANGED <<name, suffix, table>>
  <2>1. bpb' = Bpb(medium) /\ medium.volume.formatted
    BY <1>1, <1>2, <1>5 DEF Bpb
  <2>2. /\ pc' = "scan" /\ phase' = "root_file" /\ place' = 0
        /\ cluster' = IF bpb'.is_fat32 THEN bpb'.root_cluster ELSE 0
    BY <1>5 DEF ScanRoot
  <2>3. Chain' = DirChain(medium, bpb', "root")
    BY <2>2 DEF Chain, ScanDir, DirChain
  <2>4. ChainReadable(medium', bpb', Chain') /\ cluster' = Chain'[1]
    BY <2>1, <2>2, <2>3, SearchableDirs
  <2>5. ScanAt'
    BY <2>2, <2>4, ScanBegins
  <2>6. /\ Named(name, Suffixed, "root")' = Named(name, Suffixed, "root")
        /\ Named(name, Suffixed, "tables")' = Named(name, Suffixed, "tables")
    BY <1>5 DEF Named, Files, Suffixed
  <2>7. Search'
    BY <1>3, <1>5, <2>1, <2>2, <2>5, <2>6 DEF Search, Parsed, Copying
  <2> QED BY <2>2, <2>7 DEF RightTable
<1> QED BY <1>4, <1>5 DEF ParseBoot

\* A sector of the medium cannot be read only by a fault.
LEMMA NoFault ==
  ASSUME NEW n, n + 1 \in DOMAIN medium.image, faults = 0, faults' = 0
  PROVE  ~ Fails(n)
BY DEF Fails

\* Sector 0.
LEMMA SearchSector0 ==
  ASSUME Types, Searchable(medium), Search, faults = 0, faults' = 0, ReadSector0
  PROVE  Search' /\ RightTable'
<1>1. pc = "sector0" /\ medium' = medium
  BY DEF ReadSector0
<1>2. ~ Fails(0)
  BY NoFault DEF Searchable
<1>3. CASE pc' = "vbr" /\ UNCHANGED <<name, suffix, table, bpb, scanVars>>
  <2>1. /\ Named(name, Suffixed, "root")' = Named(name, Suffixed, "root")
        /\ Named(name, Suffixed, "tables")' = Named(name, Suffixed, "tables")
    BY <1>1, <1>3 DEF Named, Files, Suffixed
  <2>2. Search'
    BY <1>1, <1>3, <2>1 DEF Search, Parsed, Copying
  <2> QED BY <1>3, <2>2 DEF RightTable
<1>4. CASE fat_find_vbr = 0 /\ ParseBoot(0)
  BY <1>1, <1>4, SearchParseBoot
<1> QED BY <1>2, <1>3, <1>4 DEF ReadSector0

\* The boot record of a partition.
LEMMA SearchVbr ==
  ASSUME Types, Searchable(medium), Search, faults = 0, faults' = 0, ReadVbr
  PROVE  Search' /\ RightTable'
<1>1. pc = "vbr" /\ medium' = medium
  BY DEF ReadVbr
<1>2. ~ Fails(fat_find_vbr)
  <2>1. fat_find_vbr = Vbr(medium) /\ Vbr(medium) + 1 \in DOMAIN medium.image
    BY DEF fat_find_vbr, Vbr, Sector, Searchable
  <2> QED BY <2>1, NoFault
<1> QED BY <1>1, <1>2, SearchParseBoot DEF ReadVbr

-----------------------------------------------------------------------------
(* What the scan of a directory has seen. *)

\* The directory at hand is one that lists its files.
LEMMA ScanFacts ==
  ASSUME Types, Searchable(medium), Search, pc \in {"scan", "scan_next"}
  PROVE  /\ bpb = Bpb(medium) /\ medium.volume.formatted /\ name \in Tables
         /\ DirListed(medium, bpb, ScanDir) /\ ChainReadable(medium, bpb, Chain)
         /\ Chain \in Seq(Nat) /\ ScanAt
         /\ Chain[1] >= 2 \/ Len(Chain) = 1
<1>1. bpb = Bpb(medium) /\ medium.volume.formatted /\ name \in Tables /\ ScanAt
  BY DEF Search, Parsed, Types
<1>2. CASE phase = "tables_file"
  <2>1. Chain = medium.volume.tables /\ Chain = DirChain(medium, bpb, "tables") /\ ScanDir = "tables"
    BY <1>2 DEF Chain, ScanDir, DirChain
  <2>2. Chain # <<>>
    <3>1. \E j \in 1 .. Len(Chain) : TRUE
      BY <1>1 DEF ScanAt
    <3> SUFFICES ASSUME Chain = <<>> PROVE FALSE
      OBVIOUS
    <3>2. Len(Chain) = 0
      OBVIOUS
    <3> QED BY <3>1, <3>2
  <2>3. /\ DirListed(medium, bpb, ScanDir) /\ ChainReadable(medium, bpb, Chain)
        /\ Chain[1] \in 2 .. CLUSTER_MOD - 1
    BY <1>1, <2>1, <2>2, SearchableDirs
  <2> QED BY <1>1, <2>3, Sizes DEF ChainReadable
<1>3. CASE phase # "tables_file"
  <2>1. Chain = DirChain(medium, bpb, "root") /\ ScanDir = "root"
    BY <1>3 DEF Chain, ScanDir
  <2> QED BY <1>1, <2>1, SearchableDirs DEF ChainReadable
<1> QED BY <1>2, <1>3

\* A sector of the directory can be read, and its entries are numbered.
LEMMA DirSector ==
  ASSUME medium \in Volumes, ChainReadable(medium, bpb, Chain),
         NEW j \in 1 .. Len(Chain), NEW k \in 0 .. Width(bpb, Chain[j]) - 1
  PROVE  /\ SectorOf(bpb, Chain[j], k) + 1 \in DOMAIN medium.image
         /\ DirAt(j, k) \in Seq(ToSet(DirAt(j, k)))
         /\ DOMAIN DirAt(j, k) \subseteq Nat
<1>1. SectorOf(bpb, Chain[j], k) + 1 \in DOMAIN medium.image
  BY DEF ChainReadable
<1>2. DirAt(j, k) \in Seq(ToSet(DirAt(j, k)))
  BY <1>1, MediaAssumption DEF MediaAssumption, ReadableSector, DirAt, Sector
<1>3. DOMAIN DirAt(j, k) = 1 .. Len(DirAt(j, k))
  <2> DEFINE d == DirAt(j, k)
  <2> HIDE DEF d
  <2>1. d \in Seq(ToSet(d))
    BY <1>2 DEF d
  <2>2. DOMAIN d = 1 .. Len(d)
    BY <2>1
  <2> QED BY <2>2 DEF d
<1> QED BY <1>1, <1>2, <1>3

\* What a directory has to list is somewhere in it, with no end mark before it.
LEMMA ListedAt ==
  ASSUME DirListed(medium, bpb, ScanDir), NEW e \in Contents(medium.volume, ScanDir)
  PROVE  \E j \in 1 .. Len(Chain) : \E k \in 0 .. Width(bpb, Chain[j]) - 1 : \E x \in DOMAIN DirAt(j, k) :
            /\ DirAt(j, k)[x] = e
            /\ \A i \in 1 .. j : \A l \in 0 .. Width(bpb, Chain[i]) - 1 : \A y \in DOMAIN DirAt(i, l) :
                  DirAt(i, l)[y].kind = "end" => i = j /\ (l > k \/ (l = k /\ y > x))
BY DEF DirListed, Chain, DirAt, Sector

\* An end mark before which nothing stops the scan: what is looked for is not in the directory.
LEMMA EndMissed ==
  ASSUME medium \in Volumes, DirListed(medium, bpb, ScanDir), ChainReadable(medium, bpb, Chain),
         NEW j \in 1 .. Len(Chain), NEW k \in 0 .. Width(bpb, Chain[j]) - 1, Clear(j, k),
         NEW at \in DOMAIN DirAt(j, k), DirAt(j, k)[at].kind = "end",
         \A y \in DOMAIN DirAt(j, k) : y < at => ~ Stops(DirAt(j, k)[y]),
         NEW e \in Contents(medium.volume, ScanDir), Matches(e)
  PROVE  FALSE
<1>1. PICK i \in 1 .. Len(Chain) : \E l \in 0 .. Width(bpb, Chain[i]) - 1 : \E x \in DOMAIN DirAt(i, l) :
         /\ DirAt(i, l)[x] = e
         /\ \A i2 \in 1 .. i : \A l2 \in 0 .. Width(bpb, Chain[i2]) - 1 : \A y \in DOMAIN DirAt(i2, l2) :
               DirAt(i2, l2)[y].kind = "end" => i2 = i /\ (l2 > l \/ (l2 = l /\ y > x))
  BY ListedAt
<1>2. PICK l \in 0 .. Width(bpb, Chain[i]) - 1 : \E x \in DOMAIN DirAt(i, l) :
         /\ DirAt(i, l)[x] = e
         /\ \A i2 \in 1 .. i : \A l2 \in 0 .. Width(bpb, Chain[i2]) - 1 : \A y \in DOMAIN DirAt(i2, l2) :
               DirAt(i2, l2)[y].kind = "end" => i2 = i /\ (l2 > l \/ (l2 = l /\ y > x))
  BY <1>1
<1>3. PICK x \in DOMAIN DirAt(i, l) :
         /\ DirAt(i, l)[x] = e
         /\ \A i2 \in 1 .. i : \A l2 \in 0 .. Width(bpb, Chain[i2]) - 1 : \A y \in DOMAIN DirAt(i2, l2) :
               DirAt(i2, l2)[y].kind = "end" => i2 = i /\ (l2 > l \/ (l2 = l /\ y > x))
  BY <1>2
<1>4. Stops(e) /\ e.kind # "end"
  BY DEF Stops, Matches
<1>5. ~ (i < j \/ (i = j /\ l < k))
  BY <1>3, <1>4 DEF Clear
<1>6. j <= i /\ j \in 1 .. i /\ i \in Nat /\ j \in Nat
  BY <1>5
<1>7. j = i /\ (k > l \/ (k = l /\ at > x))
  BY <1>3, <1>6
<1>8. k = l /\ at > x
  BY <1>5, <1>7
<1>9. x \in Nat /\ at \in Nat
  BY <1>3, DirSector
<1> QED BY <1>3, <1>4, <1>7, <1>8, <1>9

\* Nothing in the whole directory stops the scan: what is looked for is not in it.
LEMMA AllMissed ==
  ASSUME DirListed(medium, bpb, ScanDir), Clear(Len(Chain) + 1, 0), Chain \in Seq(Nat),
         NEW e \in Contents(medium.volume, ScanDir), Matches(e)
  PROVE  FALSE
<1>1. \E j \in 1 .. Len(Chain) : \E k \in 0 .. Width(bpb, Chain[j]) - 1 : \E x \in DOMAIN DirAt(j, k) :
         DirAt(j, k)[x] = e
  BY ListedAt
<1>2. Stops(e)
  BY DEF Stops
<1>3. \A j \in 1 .. Len(Chain) : j < Len(Chain) + 1
  OBVIOUS
<1> QED BY <1>1, <1>2, <1>3 DEF Clear

\* A directory lists files and, the root, /tables.
LEMMA ContentsAre ==
  ASSUME NEW vol, NEW dir, NEW e \in Contents(vol, dir)
  PROVE  \/ \E f \in ToSet(vol.files) : f.dir = dir /\ e = EntryOf(f) /\ e.kind = "file"
         \/ /\ dir = "root" /\ vol.tables # <<>> /\ e.kind = "dir"
            /\ e = Entry("dir", Short("tables", "", ""), vol.tables[1], 0)
<1>1. CASE e \in {EntryOf(f) : f \in {g \in ToSet(vol.files) : g.dir = dir}}
  <2>1. PICK f \in {g \in ToSet(vol.files) : g.dir = dir} : e = EntryOf(f)
    BY <1>1
  <2>2. f \in ToSet(vol.files) /\ f.dir = dir /\ e.kind = "file"
    BY <2>1 DEF EntryOf, Entry
  <2> QED BY <2>1, <2>2
<1>2. CASE e \notin {EntryOf(f) : f \in {g \in ToSet(vol.files) : g.dir = dir}}
  <2> DEFINE t == Entry("dir", Short("tables", "", ""), vol.tables[1], 0)
  <2>1. e \in IF dir # "root" \/ vol.tables = <<>> THEN {} ELSE {t}
    BY <1>2 DEF Contents
  <2>2. t.kind = "dir"
    BY DEF Entry
  <2> HIDE DEF t
  <2> QED BY <2>1, <2>2 DEF t
<1> QED BY <1>1, <1>2

\* The short names that are looked for are those of the files with the long names that are sought.
LEMMA NamesSought ==
  ASSUME Searchable(medium), name \in Tables, suffix \in BOOLEAN, phase # "root_tables", NEW f \in Files
  PROVE  /\ Matches(EntryOf(f)) <=> \E x \in Sought : f.long = [name EXCEPT !.ext = x]
         /\ \A g \in Files : Matches(EntryOf(f)) /\ Matches(EntryOf(g)) /\ f.dir = g.dir => f = g
<1> DEFINE names == {to83(name, Extension), to83_alias_guess(name, Extension)}
           fs == {g \in Files : g.short \in names}
<1>1. NamesTell(medium, name)
  BY DEF Searchable
<1>2. Extension \in {"tbl", ""} /\ Sought = IF Extension = "tbl" THEN {"tbl", "tbl8"} ELSE {""}
  BY DEF Extension, Sought, Suffixed
<1>3. /\ fs = {g \in Files : \E x \in Sought : g.long = [name EXCEPT !.ext = x]}
      /\ \A g, h \in fs : g.dir = h.dir => g = h
  BY <1>1, <1>2 DEF NamesTell, Files
<1>4. \A g : Matches(EntryOf(g)) <=> g.short \in names
  BY DEF Matches, EntryOf, Entry
<1> HIDE DEF names
<1> QED BY <1>3, <1>4

\* What is looked for is not in the directory: no table of this name is there, or no /tables.
LEMMA Missing ==
  ASSUME Types, Searchable(medium), Search, pc \in {"scan", "scan_next"},
         \A e \in Contents(medium.volume, ScanDir) : ~ Matches(e)
  PROVE  Named(name, Sought, IF phase = "root_file" THEN "root" ELSE "tables") = {}
<1>1. medium.volume.formatted /\ name \in Tables /\ bpb = Bpb(medium)
  BY ScanFacts
<1>2. suffix \in BOOLEAN /\ phase \in {"root_file", "root_tables", "tables_file"}
  BY DEF Types, TypeOK
<1>3. CASE phase = "root_tables"
  <2>1. medium.volume.tables = <<>>
    <3> SUFFICES ASSUME medium.volume.tables # <<>> PROVE FALSE
      OBVIOUS
    <3> DEFINE e == Entry("dir", Short("tables", "", ""), medium.volume.tables[1], 0)
    <3>1. e \in Contents(medium.volume, ScanDir)
      BY <1>3 DEF Contents, ScanDir
    <3>2. Matches(e)
      BY <1>3 DEF Matches, Entry
    <3> QED BY <3>1, <3>2
  <2>2. \A f \in Files : f.dir # "tables"
    BY <1>1, <2>1, SearchableDirs DEF Files
  <2> QED BY <1>3, <2>2 DEF Named
<1>4. CASE phase # "root_tables"
  <2> SUFFICES ASSUME NEW f \in Named(name, Sought, ScanDir) PROVE FALSE
    BY <1>2, <1>4 DEF ScanDir
  <2>1. f \in Files /\ f.dir = ScanDir /\ \E x \in Sought : f.long = [name EXCEPT !.ext = x]
    BY DEF Named
  <2>2. EntryOf(f) \in Contents(medium.volume, ScanDir)
    BY <2>1 DEF Contents, Files
  <2>3. Matches(EntryOf(f))
    BY <1>1, <1>2, <1>4, <2>1, NamesSought
  <2> QED BY <2>2, <2>3
<1> QED BY <1>3, <1>4

\* The entry that is found is that of the only file that is sought here.
LEMMA FoundNamed ==
  ASSUME Types, Searchable(medium), Search, pc = "scan", phase # "root_tables",
         NEW e \in Contents(medium.volume, ScanDir), Matches(e), e.size \in Nat
  PROVE  \E f \in Files :
            /\ e = EntryOf(f) /\ f.size \in Nat
            /\ f.size = 0 => Named(name, Sought, ScanDir) = {}
            /\ f.size # 0 => f \in Named(name, Sought, ScanDir)
<1>1. name \in Tables /\ suffix \in BOOLEAN
  BY ScanFacts DEF Types, TypeOK
<1>2. e.kind = "file"
  BY DEF Matches
<1>3. PICK f \in Files : f.dir = ScanDir /\ e = EntryOf(f)
  BY <1>2, ContentsAre DEF Files
<1>4. f.size = e.size
  BY <1>3 DEF EntryOf, Entry
<1>5. \E x \in Sought : f.long = [name EXCEPT !.ext = x]
  BY <1>1, <1>3, NamesSought
<1>6. ASSUME f.size = 0, NEW g \in Named(name, Sought, ScanDir) PROVE FALSE
  <2>1. g \in Files /\ g.dir = ScanDir /\ g.size > 0 /\ \E x \in Sought : g.long = [name EXCEPT !.ext = x]
    BY DEF Named
  <2>2. Matches(EntryOf(g)) /\ Matches(EntryOf(f))
    BY <1>1, <1>3, <2>1, NamesSought
  <2>3. f = g
    BY <1>1, <1>3, <2>1, <2>2, NamesSought
  <2> QED BY <1>6, <2>1, <2>3
<1>7. f.size # 0 => f \in Named(name, Sought, ScanDir)
  BY <1>3, <1>4, <1>5 DEF Named
<1> QED BY <1>3, <1>4, <1>6, <1>7

\* /tables is found, and its scan begins.
LEMMA SearchTables ==
  ASSUME Types, Searchable(medium), Search, pc = "scan", phase = "root_tables",
         NEW e \in Contents(medium.volume, ScanDir), Matches(e), Found(e), UNCHANGED <<medium, bpb>>
  PROVE  Search' /\ RightTable'
<1> DEFINE c == e.cluster % CLUSTER_MOD
<1>1. /\ bpb = Bpb(medium) /\ medium.volume.formatted /\ name \in Tables
      /\ ~ suffix => Named(name, Suffixed, "root") = {} /\ Named(name, Suffixed, "tables") = {}
      /\ Named(name, Sought, "root") = {}
  BY ScanFacts DEF Search, Parsed
<1>2. e.kind = "dir" /\ ScanDir = "root"
  BY DEF Matches, ScanDir
<1>3. medium.volume.tables # <<>> /\ e = Entry("dir", Short("tables", "", ""), medium.volume.tables[1], 0)
  BY <1>2, ContentsAre
<1>4. e.cluster = medium.volume.tables[1] /\ e.cluster \in 2 .. CLUSTER_MOD - 1
  <2>1. e.cluster = medium.volume.tables[1]
    BY <1>3 DEF Entry
  <2> QED BY <1>1, <1>3, <2>1, SearchableDirs
<1>5. c = e.cluster /\ c >= 2
  <2>1. \A x \in Nat : x < CLUSTER_MOD => x % CLUSTER_MOD = x
    BY Sizes
  <2> QED BY <1>4, <2>1, Sizes
<1>6. ScanFrom("tables_file", c) /\ UNCHANGED <<name, suffix, table, copyVars>>
  <2>1. ~ (c = 0 \/ c = 1)
    BY <1>5
  <2> HIDE DEF c
  <2> QED BY <2>1 DEF Found, c
<1>7. pc' = "scan" /\ phase' = "tables_file" /\ cluster' = medium.volume.tables[1] /\ place' = 0
  BY <1>4, <1>5, <1>6 DEF ScanFrom
<1>8. Chain' = DirChain(medium, bpb, "tables") /\ Chain' = medium.volume.tables
  BY <1>7 DEF Chain, ScanDir, DirChain
<1>9. ScanAt'
  <2>1. ChainReadable(medium', bpb', Chain')
    BY <1>1, <1>3, <1>8, SearchableDirs
  <2> QED BY <1>7, <1>8, <2>1, ScanBegins
<1>10. /\ Named(name, Sought, "root")' = Named(name, Sought, "root")
       /\ Named(name, Suffixed, "root")' = Named(name, Suffixed, "root")
       /\ Named(name, Suffixed, "tables")' = Named(name, Suffixed, "tables")
  BY <1>6 DEF Named, Files, Sought, Suffixed
<1>11. Search'
  BY <1>1, <1>6, <1>7, <1>9, <1>10 DEF Search, Parsed, Copying
<1> QED BY <1>7, <1>11 DEF RightTable

\* A file is found: its copy begins, or it is empty and passed over.
LEMMA SearchFile ==
  ASSUME Types, LaidOut(medium), Searchable(medium), Search, pc = "scan", phase # "root_tables",
         NEW e \in Contents(medium.volume, ScanDir), Matches(e), e.size \in Nat,
         Found(e), UNCHANGED <<medium, bpb>>
  PROVE  Search' /\ RightTable'
<1> DEFINE c == e.cluster % CLUSTER_MOD
<1>1. /\ bpb = Bpb(medium) /\ medium.volume.formatted /\ name \in Tables
      /\ ~ suffix => Named(name, Suffixed, "root") = {} /\ Named(name, Suffixed, "tables") = {}
      /\ phase # "root_file" => Named(name, Sought, "root") = {}
  BY ScanFacts DEF Search, Parsed
<1>2. PICK f \in Files :
         /\ e = EntryOf(f) /\ f.size \in Nat
         /\ f.size = 0 => Named(name, Sought, ScanDir) = {}
         /\ f.size # 0 => f \in Named(name, Sought, ScanDir)
  BY FoundNamed
<1>3. e.cluster = f.chain[1] /\ e.size = f.size
  BY <1>2 DEF EntryOf, Entry
<1>4. CASE f.size = 0
  <2>1. f.chain[1] = 0
    BY <1>1, <1>4 DEF Searchable, Files
  <2>2. c = 0
    BY <1>3, <2>1, Sizes
  <2>3. NotFound
    <3>1. ~ (c # 0) /\ ~ (c >= 2)
      BY <2>2
    <3> HIDE DEF c
    <3> QED BY <3>1 DEF Found, c
  <2>4. Named(name, Sought, IF phase = "root_file" THEN "root" ELSE "tables") = {}
    BY <1>2, <1>4 DEF ScanDir, Types, TypeOK
  <2>5. Parsed
    BY DEF Parsed
  <2> QED BY <2>3, <2>4, <2>5, SearchNotFound
<1>5. CASE f.size # 0
  <2>1. f.chain[1] \in 2 .. CLUSTER_MOD - 1
    <3>1. f.size > 0
      BY <1>2, <1>5
    <3> QED BY <3>1, LayoutOfFile DEF Parsed
  <2>2. c >= 2
    <3>1. \A x \in Nat : x < CLUSTER_MOD => x % CLUSTER_MOD = x
      BY Sizes
    <3> QED BY <1>3, <2>1, <3>1, Sizes
  <2>3. pc' = "data" /\ place' = 0 /\ UNCHANGED <<name, suffix, table, phase>>
    <3>1. ~ (c = 0 \/ c = 1) /\ e.size # 0
      BY <1>3, <1>5, <2>2
    <3> HIDE DEF c
    <3> QED BY <3>1 DEF Found, c
  <2>4. CopyOf(f)' /\ cluster' = f.chain[1] /\ 1 \in 1 .. Len(f.chain)
    <3>1. Copying'
      BY <2>3 DEF Copying
    <3> QED BY <1>3, <3>1, CopyOfFound
  <2>5. Follows(f)'
    <3>1. place' \in 0 .. bpb'.sectors_per_cluster - 1
      BY <2>3 DEF Types, Parsed
    <3> QED BY <2>3, <2>4, <3>1 DEF Follows
  <2>6. f \in Named(name, Sought, ScanDir)'
    <3>1. Named(name, Sought, ScanDir)' = Named(name, Sought, ScanDir)
      BY <2>3 DEF Named, Files, Sought, Suffixed, ScanDir
    <3> QED BY <1>2, <1>5, <3>1
  <2>7. /\ Named(name, Sought, "root")' = Named(name, Sought, "root")
        /\ Named(name, Suffixed, "root")' = Named(name, Suffixed, "root")
        /\ Named(name, Suffixed, "tables")' = Named(name, Suffixed, "tables")
    BY <2>3 DEF Named, Files, Sought, Suffixed
  <2>8. Search'
    BY <1>1, <2>3, <2>4, <2>5, <2>6, <2>7 DEF Search, Parsed, Copying
  <2> QED BY <2>3, <2>8 DEF RightTable
<1> QED BY <1>4, <1>5

\* What was seen stays seen while the same directory is scanned for the same name.
LEMMA ClearSame ==
  ASSUME NEW j, NEW k, Clear(j, k), UNCHANGED <<medium, bpb, phase, name, suffix>>
  PROVE  Clear(j, k)' /\ Chain' = Chain
<1>1. Chain' = Chain
  BY DEF Chain, ScanDir, DirChain
<1>2. \A i, l : DirAt(i, l)' = DirAt(i, l)
  BY <1>1 DEF DirAt, Sector, SectorOf
<1>3. \A e : Stops(e)' <=> Stops(e)
  BY DEF Stops, Matches, Extension, to83, to83_alias_guess, Short
<1>4. \A i : Width(bpb, Chain[i])' = Width(bpb, Chain[i])
  BY <1>1 DEF Width
<1> QED BY <1>1, <1>2, <1>3, <1>4 DEF Clear

\* One more sector in which nothing stops the scan.
LEMMA ClearMore ==
  ASSUME NEW j \in Nat, NEW k \in Nat, Clear(j, k), \A y \in DOMAIN DirAt(j, k) : ~ Stops(DirAt(j, k)[y])
  PROVE  Clear(j, k + 1)
<1> SUFFICES ASSUME NEW i \in 1 .. Len(Chain), NEW l \in 0 .. Width(bpb, Chain[i]) - 1,
                    i < j \/ (i = j /\ l < k + 1), NEW y \in DOMAIN DirAt(i, l)
             PROVE  ~ Stops(DirAt(i, l)[y])
  BY DEF Clear
<1>1. (i < j \/ (i = j /\ l < k)) \/ (i = j /\ l = k)
  OBVIOUS
<1> QED BY <1>1 DEF Clear

\* All sectors of a cluster.
LEMMA ClearCluster ==
  ASSUME NEW j \in Nat, Width(bpb, Chain[j]) \in Nat, Clear(j, Width(bpb, Chain[j]))
  PROVE  Clear(j + 1, 0)
<1> SUFFICES ASSUME NEW i \in 1 .. Len(Chain), NEW l \in 0 .. Width(bpb, Chain[i]) - 1,
                    i < j + 1 \/ (i = j + 1 /\ l < 0), NEW y \in DOMAIN DirAt(i, l)
             PROVE  ~ Stops(DirAt(i, l)[y])
  BY DEF Clear
<1>1. i < j \/ i = j
  OBVIOUS
<1>2. i < j \/ (i = j /\ l < Width(bpb, Chain[j]))
  <2>1. CASE i = j
    <3>1. l \in 0 .. Width(bpb, Chain[j]) - 1
      BY <2>1
    <3> QED BY <2>1, <3>1
  <2> QED BY <1>1, <2>1
<1> QED BY <1>2 DEF Clear

\* All clusters but the first are of the data area; the root of FAT16 is no cluster.
LEMMA ChainLater ==
  ASSUME NEW m, NEW b, NEW ch, ChainReadable(m, b, ch), NEW j \in 1 .. Len(ch), j # 1
  PROVE  fat_clus_valid(ch[j])
<1>1. ch \in Seq(Nat) /\ Len(ch) \in Nat
  BY DEF ChainReadable
<1>2. j - 1 \in 1 .. Len(ch) /\ j - 1 < Len(ch) /\ (j - 1) + 1 = j
  BY <1>1
<1>3. fat_clus_valid(ch[(j - 1) + 1])
  BY <1>2 DEF ChainReadable
<1> QED BY <1>2, <1>3

\* Nothing else is listed.
LEMMA ListedOnly ==
  ASSUME DirListed(medium, bpb, ScanDir), NEW j \in 1 .. Len(Chain), NEW k \in 0 .. Width(bpb, Chain[j]) - 1,
         NEW x \in DOMAIN DirAt(j, k), NEW e, e = DirAt(j, k)[x],
         e.kind = "file" \/ (e.kind = "dir" /\ e.name = Short("tables", "", "") /\ ScanDir = "root")
  PROVE  e \in Contents(medium.volume, ScanDir)
BY DEF DirListed, Chain, DirAt, Sector

\* A directory sector.
LEMMA SearchScanStep ==
  ASSUME Types, LaidOut(medium), Searchable(medium), Search, faults = 0, faults' = 0, ScanStep
  PROVE  Search' /\ RightTable'
<1> DEFINE n == ScanSector
           dir == Sector(n).dir
           at == SelectInSeq(dir, Stops)
           W == Width(bpb, cluster)
<1>1. pc = "scan" /\ UNCHANGED <<medium, bpb>> /\ medium \in Volumes /\ Parsed
  BY DEF ScanStep, Types, Parsed
<1>2. /\ bpb = Bpb(medium) /\ medium.volume.formatted /\ name \in Tables
      /\ DirListed(medium, bpb, ScanDir) /\ ChainReadable(medium, bpb, Chain)
      /\ Chain \in Seq(Nat) /\ ScanAt
      /\ Chain[1] >= 2 \/ Len(Chain) = 1
  BY <1>1, ScanFacts
<1>3. PICK j \in 1 .. Len(Chain) : cluster = Chain[j] /\ place \in 0 .. W - 1 /\ Clear(j, place)
  BY <1>1, <1>2 DEF ScanAt
<1>4. n = SectorOf(bpb, Chain[j], place) /\ dir = DirAt(j, place)
  BY <1>3 DEF ScanSector, Chained, fat_clus2sec, SectorOf, DirAt
<1>5. /\ n + 1 \in DOMAIN medium.image /\ DirAt(j, place) \in Seq(ToSet(DirAt(j, place)))
      /\ DOMAIN DirAt(j, place) \subseteq Nat
  BY <1>1, <1>2, <1>3, <1>4, DirSector
<1>6. Reads(n) /\ ~ Fails(n)
  <2>1. ~ Fails(n)
    BY <1>5, NoFault
  <2>2. ScanSectors # 0
    BY <1>3 DEF Width, Chained, ScanSectors
  <2> QED BY <1>5, <2>1, <2>2 DEF ScanStep
<1>7. /\ at = 0 => \A y \in DOMAIN dir : ~ Stops(dir[y])
      /\ at # 0 => \A y \in DOMAIN dir : y < at => ~ Stops(dir[y])
      /\ at # 0 => at \in DOMAIN dir /\ Stops(dir[at])
  <2> HIDE DEF dir
  <2>1. dir \in Seq(ToSet(dir))
    BY <1>4, <1>5
  <2> QED BY <2>1, StopsFirst, StopsAt
<1>8. j \in Nat /\ place \in Nat /\ Len(Chain) \in Nat
  BY <1>2, <1>3 DEF Types, TypeOK
<1>9. W = ScanSectors
  BY DEF Width, Chained, ScanSectors
<1> HIDE DEF n, at, W
<1>10. CASE at # 0 /\ dir[at].kind = "end" /\ NotFound
  <2>1. \A e \in Contents(medium.volume, ScanDir) : ~ Matches(e)
    <3> HIDE DEF dir
    <3>1. /\ at \in DOMAIN DirAt(j, place) /\ DirAt(j, place)[at].kind = "end"
          /\ \A y \in DOMAIN DirAt(j, place) : y < at => ~ Stops(DirAt(j, place)[y])
      BY <1>4, <1>7, <1>10
    <3>2. place \in 0 .. Width(bpb, Chain[j]) - 1
      BY <1>3 DEF W
    <3> QED BY <1>1, <1>2, <1>3, <3>1, <3>2, EndMissed
  <2> QED BY <1>1, <1>10, <2>1, Missing, SearchNotFound
<1>11. CASE at # 0 /\ dir[at].kind # "end" /\ Found(dir[at])
  <2> DEFINE e == dir[at]
  <2>1. at \in DOMAIN dir /\ Matches(e)
    BY <1>7, <1>11 DEF Stops
  <2>2. e.size \in Nat
    BY <1>6, <2>1, EntryType
  <2>3. e.kind = "file" \/ (e.kind = "dir" /\ e.name = Short("tables", "", "") /\ ScanDir = "root")
    BY <2>1 DEF Matches, ScanDir
  <2>4. e \in Contents(medium.volume, ScanDir)
    <3>1. place \in 0 .. Width(bpb, Chain[j]) - 1
      BY <1>3 DEF W
    <3> HIDE DEF dir
    <3>2. at \in DOMAIN DirAt(j, place) /\ DirAt(j, place)[at] = e
      BY <1>4, <2>1
    <3> HIDE DEF e
    <3>3. DirAt(j, place)[at] \in Contents(medium.volume, ScanDir)
      BY <1>2, <2>3, <3>1, <3>2, ListedOnly
    <3> QED BY <3>2, <3>3
  <2> HIDE DEF e
  <2>5. Found(e)
    BY <1>11 DEF e
  <2>6. CASE phase = "root_tables"
    BY <1>1, <2>1, <2>4, <2>5, <2>6, SearchTables
  <2>7. CASE phase # "root_tables"
    BY <1>1, <2>1, <2>2, <2>4, <2>5, <2>7, SearchFile
  <2> QED BY <2>6, <2>7
<1>12. ASSUME at = 0 PROVE Clear(j, place + 1)
  <2> HIDE DEF dir
  <2>1. \A y \in DOMAIN DirAt(j, place) : ~ Stops(DirAt(j, place)[y])
    BY <1>4, <1>7, <1>12
  <2> QED BY <1>3, <1>8, <2>1, ClearMore
<1>13. ASSUME at = 0, LastPlace PROVE Clear(j + 1, 0)
  <2>1. place + 1 = Width(bpb, Chain[j])
    BY <1>3, <1>9, <1>13 DEF LastPlace, W
  <2>2. Clear(j, Width(bpb, Chain[j])) /\ Width(bpb, Chain[j]) \in Nat
    BY <1>8, <1>12, <1>13, <2>1
  <2> QED BY <1>8, <2>2, ClearCluster
<1>14. /\ ~ suffix => Named(name, Suffixed, "root") = {} /\ Named(name, Suffixed, "tables") = {}
       /\ phase # "root_file" => Named(name, Sought, "root") = {}
  BY <1>1, <1>2 DEF Search
<1>15. ASSUME UNCHANGED <<name, suffix>>
       PROVE  /\ Named(name, Sought, "root")' = Named(name, Sought, "root")
              /\ Named(name, Suffixed, "root")' = Named(name, Suffixed, "root")
              /\ Named(name, Suffixed, "tables")' = Named(name, Suffixed, "tables")
  BY <1>1, <1>15 DEF Named, Files, Sought, Suffixed
<1>16. CASE /\ at = 0 /\ ~ LastPlace
            /\ place' = place + 1
            /\ UNCHANGED <<pc, phase, cluster, name, suffix, table, copyVars>>
  <2>1. place' \in 0 .. Width(bpb, cluster)' - 1
    <3>1. place + 1 # W
      BY <1>9, <1>16 DEF LastPlace
    <3>2. Width(bpb, cluster)' = W
      BY <1>1, <1>16 DEF Width, W
    <3>3. W \in Nat \ {0}
      BY <1>2, <1>3 DEF ChainReadable, W
    <3> QED BY <1>3, <1>16, <3>1, <3>2, <3>3
  <2>2. Clear(j, place)' /\ Chain' = Chain
    <3>1. PICK k : k = place + 1
      OBVIOUS
    <3>2. Clear(j, k)
      BY <1>12, <1>16, <3>1
    <3>3. Clear(j, k)' /\ Chain' = Chain
      BY <1>1, <1>16, <3>2, ClearSame
    <3>4. place' = k
      BY <1>16, <3>1
    <3> QED BY <3>3, <3>4 DEF Clear
  <2>3. ScanAt'
    BY <1>1, <1>3, <1>16, <2>1, <2>2 DEF ScanAt
  <2>4. Search'
    BY <1>1, <1>2, <1>14, <1>15, <1>16, <2>3 DEF Search, Parsed, Copying
  <2> QED BY <1>1, <1>16, <2>4 DEF RightTable
<1>17. CASE at = 0 /\ LastPlace /\ Chained /\ pc' = "scan_next"
            /\ UNCHANGED <<scanVars, name, suffix, table, copyVars>>
  <2>1. Clear(j + 1, 0)' /\ Chain' = Chain
    <3> DEFINE i == j + 1
    <3>1. Clear(i, 0)
      BY <1>13, <1>17
    <3> HIDE DEF i
    <3>2. Clear(i, 0)' /\ Chain' = Chain
      BY <1>1, <1>17, <3>1, ClearSame DEF scanVars
    <3> QED BY <3>2 DEF i
  <2>2. ScanAt'
    BY <1>1, <1>3, <1>17, <2>1 DEF ScanAt, Chained, scanVars
  <2>3. Search'
    BY <1>1, <1>2, <1>14, <1>15, <1>17, <2>2 DEF Search, Parsed, Copying, scanVars
  <2> QED BY <1>17, <2>3 DEF RightTable
<1>18. CASE at = 0 /\ LastPlace /\ ~ Chained /\ NotFound
  <2>1. j = 1 /\ Len(Chain) = 1
    <3>1. ~ (Chain[j] >= 2)
      BY <1>3, <1>18 DEF Chained
    <3>2. j = 1
      BY <1>2, <1>3, <3>1, ChainLater DEF fat_clus_valid
    <3> QED BY <1>2, <3>1, <3>2
  <2>2. Clear(Len(Chain) + 1, 0)
    BY <1>13, <1>18, <2>1
  <2>3. \A e \in Contents(medium.volume, ScanDir) : ~ Matches(e)
    BY <1>2, <2>2, AllMissed
  <2> QED BY <1>1, <1>18, <2>3, Missing, SearchNotFound
<1>19. ScanSectors # 0
  BY <1>3, <1>9
<1> QED BY <1>6, <1>10, <1>11, <1>16, <1>17, <1>18, <1>19 DEF ScanStep, n, at

\* Where the FAT leads from a cluster of a chain.
LEMMA LinkIn ==
  ASSUME NEW ch, ChainReadable(medium, bpb, ch), NEW j \in 1 .. Len(ch)
  PROVE  /\ fat_sector(ch[j]) + 1 \in DOMAIN medium.image
         /\ j < Len(ch) => fat_entry(ch[j]) = ch[j + 1] /\ fat_clus_valid(fat_entry(ch[j]))
         /\ fat_clus_valid(fat_entry(ch[j])) => \E i \in 1 .. Len(ch) : fat_entry(ch[j]) = ch[i]
<1>1. ch \in Seq(Nat) /\ Len(ch) \in Nat /\ DOMAIN ch = 1 .. Len(ch)
  BY DEF ChainReadable
<1>2. \A c : LinkOf(medium, bpb, c) = fat_entry(c)
  BY DEF LinkOf, fat_entry, fat_sector, EntriesPerSector, Sector
<1>3. fat_sector(ch[j]) + 1 \in DOMAIN medium.image
  BY DEF ChainReadable, fat_sector, EntriesPerSector
<1>4. j < Len(ch) => fat_entry(ch[j]) = ch[j + 1] /\ fat_clus_valid(ch[j + 1])
  BY <1>2 DEF ChainReadable
<1>5. CASE j < Len(ch)
  <2>1. j + 1 \in 1 .. Len(ch)
    BY <1>1, <1>5
  <2> QED BY <1>3, <1>4, <1>5, <2>1
<1>6. CASE j = Len(ch)
  <2>1. fat_entry(ch[j]) \in ToSet(ch) \/ ~ fat_clus_valid(fat_entry(ch[j]))
    BY <1>2, <1>6 DEF ChainReadable
  <2>2. fat_entry(ch[j]) \in ToSet(ch) => \E i \in 1 .. Len(ch) : fat_entry(ch[j]) = ch[i]
    BY <1>1 DEF ToSet
  <2>3. ~ (j < Len(ch))
    BY <1>1, <1>6
  <2> QED BY <1>3, <2>1, <2>2, <2>3
<1>7. j < Len(ch) \/ j = Len(ch)
  <2> DEFINE n == Len(ch)
  <2>1. n \in Nat /\ j \in 1 .. n
    BY <1>1
  <2> HIDE DEF n
  <2>2. j < n \/ j = n
    BY <2>1
  <2> QED BY <2>2 DEF n
<1> QED BY <1>5, <1>6, <1>7, Zenon

\* The next cluster of a directory.
LEMMA SearchScanNext ==
  ASSUME Types, Searchable(medium), Search, faults = 0, faults' = 0, ScanNext
  PROVE  Search' /\ RightTable'
<1>1. pc = "scan_next" /\ UNCHANGED <<medium, bpb>> /\ Parsed
  BY DEF ScanNext, Parsed
<1>2. /\ bpb = Bpb(medium) /\ medium.volume.formatted /\ name \in Tables
      /\ DirListed(medium, bpb, ScanDir) /\ ChainReadable(medium, bpb, Chain)
      /\ Chain \in Seq(Nat) /\ ScanAt
  BY <1>1, ScanFacts
<1>3. PICK j \in 1 .. Len(Chain) : cluster = Chain[j] /\ Clear(j + 1, 0)
  BY <1>1, <1>2 DEF ScanAt
<1>4. /\ fat_sector(cluster) + 1 \in DOMAIN medium.image
      /\ j < Len(Chain) => fat_entry(cluster) = Chain[j + 1] /\ fat_clus_valid(fat_entry(cluster))
      /\ fat_clus_valid(fat_entry(cluster)) => \E i \in 1 .. Len(Chain) : fat_entry(cluster) = Chain[i]
  <2> DEFINE ch == Chain
  <2>1. ChainReadable(medium, bpb, ch) /\ cluster = ch[j] /\ j \in 1 .. Len(ch)
    BY <1>2, <1>3
  <2> HIDE DEF ch
  <2>2. /\ fat_sector(ch[j]) + 1 \in DOMAIN medium.image
        /\ j < Len(ch) => fat_entry(ch[j]) = ch[j + 1] /\ fat_clus_valid(fat_entry(ch[j]))
        /\ fat_clus_valid(fat_entry(ch[j])) => \E i \in 1 .. Len(ch) : fat_entry(ch[j]) = ch[i]
    BY <2>1, LinkIn
  <2>3. /\ fat_sector(cluster) + 1 \in DOMAIN medium.image
        /\ j < Len(ch) => fat_entry(cluster) = ch[j + 1] /\ fat_clus_valid(fat_entry(cluster))
        /\ fat_clus_valid(fat_entry(cluster)) => \E i \in 1 .. Len(ch) : fat_entry(cluster) = ch[i]
    BY <2>1, <2>2
  <2> QED BY <2>3 DEF ch
<1>5. ~ Fails(fat_sector(cluster))
  BY <1>4, NoFault
<1>6. j \in Nat /\ Len(Chain) \in Nat
  BY <1>2, <1>3
<1>7. CASE ~ fat_clus_valid(fat_entry(cluster)) /\ NotFound
  <2>1. j = Len(Chain)
    BY <1>3, <1>4, <1>6, <1>7
  <2>2. \A e \in Contents(medium.volume, ScanDir) : ~ Matches(e)
    BY <1>2, <1>3, <2>1, AllMissed
  <2> QED BY <1>1, <1>7, <2>2, Missing, SearchNotFound
<1>8. CASE /\ fat_clus_valid(fat_entry(cluster))
           /\ ScanFrom(phase, fat_entry(cluster))
           /\ UNCHANGED <<name, suffix, table>>
  <2>1. pc' = "scan" /\ phase' = phase /\ cluster' = fat_entry(cluster) /\ place' = 0
    BY <1>8 DEF ScanFrom
  <2>2. PICK i \in 1 .. Len(Chain) : cluster' = Chain[i] /\ Clear(i, 0)
    <3>1. CASE j < Len(Chain)
      <4>1. j + 1 \in 1 .. Len(Chain)
        BY <1>6, <3>1
      <4> QED BY <1>3, <1>4, <2>1, <3>1, <4>1
    <3>2. CASE j = Len(Chain)
      <4>1. PICK i \in 1 .. Len(Chain) : cluster' = Chain[i]
        BY <1>4, <1>8, <2>1
      <4>2. Clear(i, 0)
        <5> SUFFICES ASSUME NEW i2 \in 1 .. Len(Chain), NEW l \in 0 .. Width(bpb, Chain[i2]) - 1,
                            i2 < i \/ (i2 = i /\ l < 0), NEW y \in DOMAIN DirAt(i2, l)
                     PROVE  ~ Stops(DirAt(i2, l)[y])
          BY DEF Clear
        <5>1. i2 < j + 1
          BY <1>6, <3>2
        <5> QED BY <1>3, <5>1 DEF Clear
      <4> QED BY <4>1, <4>2
    <3> QED BY <1>3, <1>6, <3>1, <3>2
  <2>3. Clear(i, 0)' /\ Chain' = Chain
    BY <1>1, <1>8, <2>1, <2>2, ClearSame
  <2>4. place' \in 0 .. Width(bpb, cluster)' - 1
    <3>1. Width(bpb, Chain[i]) \in Nat \ {0}
      BY <1>2, <2>2 DEF ChainReadable
    <3>2. Width(bpb, cluster)' = Width(bpb, Chain[i])
      BY <1>1, <2>2 DEF Width
    <3> QED BY <2>1, <3>1, <3>2
  <2>5. Clear(i, place)'
    BY <2>1, <2>3 DEF Clear
  <2>6. ScanAt'
    BY <2>1, <2>2, <2>3, <2>4, <2>5 DEF ScanAt
  <2>7. /\ Named(name, Sought, "root")' = Named(name, Sought, "root")
        /\ Named(name, Suffixed, "root")' = Named(name, Suffixed, "root")
        /\ Named(name, Suffixed, "tables")' = Named(name, Suffixed, "tables")
    BY <1>1, <1>8 DEF Named, Files, Sought, Suffixed
  <2>8. Search'
    BY <1>1, <1>2, <1>8, <2>1, <2>6, <2>7 DEF Search, Parsed, Copying
  <2> QED BY <2>1, <2>8 DEF RightTable
<1> QED BY <1>5, <1>7, <1>8 DEF ScanNext

-----------------------------------------------------------------------------
(* The copy of the file that is sought. *)

\* The file that is being copied, and its clusters.
LEMMA CopyFacts ==
  ASSUME Types, LaidOut(medium), Searchable(medium), Search, Copying
  PROVE  /\ bpb = Bpb(medium) /\ medium.volume.formatted /\ name \in Tables
         /\ \E f \in Named(name, Sought, ScanDir) :
              /\ CopyOf(f) /\ Follows(f) /\ f \in Files /\ f.size \in Nat /\ f.size > 0 /\ file_size = f.size
              /\ ChainReadable(medium, bpb, f.chain)
              /\ \A j \in 1 .. Len(f.chain) : f.chain[j] >= 2
<1>1. bpb = Bpb(medium) /\ medium.volume.formatted /\ name \in Tables /\ Parsed
  BY DEF Search, Parsed, Copying, Types
<1>2. PICK f \in Named(name, Sought, ScanDir) : CopyOf(f) /\ Follows(f)
  BY DEF Search
<1>3. f \in Files /\ f.size \in Nat /\ f.size > 0 /\ file_size = f.size
  BY <1>2 DEF Named, CopyOf, Types
<1>4. ChainReadable(medium, bpb, f.chain)
  BY <1>1, <1>3 DEF Searchable, Files
<1>5. f.chain[1] >= 2
  <2>1. f.chain[1] \in 2 .. CLUSTER_MOD - 1
    BY <1>1, <1>3, LayoutOfFile
  <2> QED BY <2>1
<1>6. \A j \in 1 .. Len(f.chain) : f.chain[j] >= 2
  BY <1>4, <1>5, ChainLater DEF fat_clus_valid
<1> QED BY <1>1, <1>2, <1>3, <1>4, <1>6

\* A data sector.
LEMMA SearchCopySector ==
  ASSUME Types, LaidOut(medium), Searchable(medium), Search, faults = 0, faults' = 0, CopySector
  PROVE  Search' /\ RightTable'
<1> DEFINE n == fat_clus2sec(cluster) + place
           copied == LeastOf(SECTOR_CELLS, Room - bytes_read)
           spc == bpb.sectors_per_cluster
<1>1. pc = "data" /\ UNCHANGED <<medium, bpb>> /\ Copying /\ Parsed
  BY DEF CopySector, Copying, Parsed
<1>2. PICK f \in Named(name, Sought, ScanDir) :
         /\ CopyOf(f) /\ Follows(f) /\ f \in Files /\ f.size \in Nat /\ f.size > 0 /\ file_size = f.size
         /\ ChainReadable(medium, bpb, f.chain)
         /\ \A j \in 1 .. Len(f.chain) : f.chain[j] >= 2
  BY <1>1, CopyFacts
<1>3. PICK j \in 1 .. Len(f.chain) : cluster = f.chain[j]
  BY <1>2 DEF Follows
<1>4. cluster >= 2 /\ place \in 0 .. spc - 1 /\ spc \in Nat \ {0}
  BY <1>1, <1>2, <1>3 DEF Follows, Types
<1>5. n + 1 \in DOMAIN medium.image
  <2>1. n = SectorOf(bpb, f.chain[j], place) /\ place \in 0 .. Width(bpb, f.chain[j]) - 1
    BY <1>3, <1>4 DEF SectorOf, fat_clus2sec, Width
  <2> HIDE DEF n
  <2> QED BY <1>2, <1>3, <2>1 DEF ChainReadable
<1>6. ~ Fails(n)
  BY <1>5, NoFault
<1>7. /\ bytes_read' = bytes_read + copied
      /\ done' = (copied < SECTOR_CELLS)
      /\ \/ pc' = "data" /\ place + 1 < spc /\ place' = place + 1
         \/ pc' = "data_next" /\ place' = place
      /\ UNCHANGED <<phase, cluster, file_size, name, suffix, table>>
  BY <1>1, <1>6 DEF CopySector
<1>8. Copying' /\ Parsed'
  BY <1>7 DEF Copying, Parsed
<1>9. CopyOf(f)'
  BY <1>2, <1>8, CopyOfSector
<1>10. Follows(f)'
  <2>1. Room' = Room /\ Room \in Nat /\ bytes_read \in 0 .. Room
    BY <1>1, <1>2, <1>7, Sizes DEF Types, TypeOK, Copying, Room, LeastOf
  <2>2. done' => bytes_read' = Room'
    <3> SUFFICES ASSUME done' PROVE bytes_read' = Room'
      OBVIOUS
    <3>1. copied < SECTOR_CELLS
      BY <1>7
    <3>2. copied = Room - bytes_read
      BY <2>1, <3>1, Sizes DEF LeastOf
    <3> HIDE DEF copied
    <3> QED BY <1>7, <2>1, <3>2
  <2>3. place' \in 0 .. bpb'.sectors_per_cluster - 1
    <3> HIDE DEF copied
    <3> QED BY <1>1, <1>4, <1>7
  <2>4. cluster' = f.chain[j]
    BY <1>3, <1>7
  <2> QED BY <2>2, <2>3, <2>4 DEF Follows
<1>11. /\ Named(name, Sought, ScanDir)' = Named(name, Sought, ScanDir)
       /\ Named(name, Sought, "root")' = Named(name, Sought, "root")
       /\ Named(name, Suffixed, "root")' = Named(name, Suffixed, "root")
       /\ Named(name, Suffixed, "tables")' = Named(name, Suffixed, "tables")
  BY <1>1, <1>7 DEF Named, Files, Sought, Suffixed, ScanDir
<1>12. Search'
  <2>1. \E g \in Named(name, Sought, ScanDir)' : CopyOf(g)' /\ Follows(g)'
    BY <1>2, <1>9, <1>10, <1>11
  <2>2. pc' \in {"data", "data_next"}
    BY <1>7
  <2> HIDE DEF copied
  <2> QED BY <1>1, <1>7, <1>8, <1>11, <2>1, <2>2 DEF Search
<1> QED BY <1>7, <1>12 DEF RightTable

\* What is left to copy is in a cluster that the FAT leads to.
LEMMA MoreClusters ==
  ASSUME Types, LaidOut(medium), pc = "data_next", NEW f \in Files, CopyOf(f),
         ChainReadable(medium, bpb, f.chain), bytes_read # Room
  PROVE  fat_clus_valid(fat_entry(cluster))
<1> DEFINE spc == bpb.sectors_per_cluster
<1>1. f.size \in Nat /\ f.size > 0 /\ file_size = f.size
  BY DEF CopyOf, Types
<1>2. Room \in Nat /\ Room <= f.size /\ spc \in Nat \ {0}
  BY <1>1, Sizes DEF Types, Parsed, Room, LeastOf
<1>3. PICK j \in 1 .. Len(f.chain) :
         cluster = f.chain[j] /\ bytes_read = LeastOf(CellsBefore(j, spc), Room)
  BY DEF CopyOf
<1>4. f.chain \in Seq(Nat) /\ Len(f.chain) \in Nat /\ f.size <= Len(f.chain) * spc * SECTOR_CELLS
  <2>1. Parsed
    BY DEF Parsed
  <2>2. f.chain \in Seq(Nat) /\ f.size <= Len(f.chain) * spc * SECTOR_CELLS
    BY <1>1, <2>1, LayoutOfFile, Zenon
  <2> QED BY <2>2
<1>5. CellsBefore(j, spc) = j * spc * SECTOR_CELLS /\ CellsBefore(j, spc) \in Nat
  BY <1>2, <1>3, <1>4, Sizes DEF CellsBefore
<1>6. j # Len(f.chain)
  <2> SUFFICES ASSUME j = Len(f.chain) PROVE FALSE
    OBVIOUS
  <2>1. f.size <= CellsBefore(j, spc)
    BY <1>4, <1>5
  <2> QED BY <1>1, <1>2, <1>3, <1>5, <2>1 DEF LeastOf
<1>7. j < Len(f.chain)
  BY <1>3, <1>4, <1>6
<1> QED BY <1>3, <1>7, LinkIn

\* The copy of the file that is sought is complete: it is the table.
LEMMA SearchReturns ==
  ASSUME Types, LaidOut(medium), Searchable(medium), Search, Parsed, UNCHANGED medium,
         Returns(buffer, bytes_read), bytes_read = Room,
         NEW f \in Named(name, Sought, ScanDir), CopyOf(f), f.size \in Nat
  PROVE  Search' /\ RightTable'
<1>1. pc' = "idle" /\ name' = name /\ table' = Rows(buffer, bytes_read)
  BY DEF Returns
<1>2. Search'
  BY <1>1 DEF Search, Parsed, Copying
<1>3. f \in Files /\ f.dir = ScanDir /\ \E x \in Sought : f.long = [name EXCEPT !.ext = x]
  BY DEF Named
<1>4. /\ bytes_read = LeastOf(f.size, BUFFER_CELLS)
      /\ \A i \in 1 .. bytes_read : buffer[i] = [file |-> f.id, pos |-> i]
  BY DEF CopyOf, Room
<1>5. IF f.header.ok /\ Len(FileRows(f)) > 0 THEN table' = FileRows(f) ELSE table' \in {None, <<>>}
  BY <1>1, <1>3, <1>4, RowsOfWhole
<1>6. name \in Tables /\ suffix \in BOOLEAN
  BY DEF Search, Parsed, Types, TypeOK
<1>7. Designated(name)' = Named(name, Sought, ScanDir)
  <2>1. Designated(name) = Named(name, Sought, ScanDir)
    BY DesignatedHere
  <2> QED BY <1>1, <2>1, DesignatedSame
<1>8. phase # "root_tables"
  BY DEF Search, ScanDir
<1>9. ASSUME NEW g \in Designated(name)' PROVE g = f
  <2>1. g \in Files /\ g.dir = ScanDir /\ \E x \in Sought : g.long = [name EXCEPT !.ext = x]
    BY <1>7, <1>9 DEF Named
  <2>2. Matches(EntryOf(g)) /\ Matches(EntryOf(f))
    BY <1>3, <1>6, <1>8, <2>1, NamesSought
  <2> QED BY <1>3, <1>6, <1>8, <2>1, <2>2, NamesSought
<1>10. f \in Designated(name)' /\ FileRows(f)' = FileRows(f)
  BY <1>7 DEF FileRows
<1>11. RightTable'
  <2>1. CASE f.header.ok /\ Len(FileRows(f)) > 0
    BY <1>5, <1>10, <2>1 DEF RightTable
  <2>2. CASE ~ (f.header.ok /\ Len(FileRows(f)) > 0)
    <3>1. ~ \E g \in Designated(name)' : g.header.ok /\ Len(FileRows(g)') > 0
      BY <1>9, <1>10, <2>2
    <3>2. table' \in {None, <<>>}
      BY <1>5, <2>2
    <3> QED BY <3>1, <3>2 DEF RightTable
  <2> QED BY <2>1, <2>2
<1> QED BY <1>2, <1>11

\* The next cluster of the file, or the end of it.
LEMMA SearchCopyNext ==
  ASSUME Types, LaidOut(medium), Searchable(medium), Search, faults = 0, faults' = 0, CopyNext
  PROVE  Search' /\ RightTable'
<1>1. pc = "data_next" /\ UNCHANGED <<medium, bpb, copyVars>> /\ Copying /\ Parsed
  BY DEF CopyNext, Copying, Parsed
<1>2. PICK f \in Named(name, Sought, ScanDir) :
         /\ CopyOf(f) /\ Follows(f) /\ f \in Files /\ f.size \in Nat /\ f.size > 0 /\ file_size = f.size
         /\ ChainReadable(medium, bpb, f.chain)
         /\ \A j \in 1 .. Len(f.chain) : f.chain[j] >= 2
  BY <1>1, CopyFacts
<1>3. PICK j \in 1 .. Len(f.chain) : cluster = f.chain[j]
  BY <1>2 DEF Follows
<1>4. /\ fat_sector(cluster) + 1 \in DOMAIN medium.image
      /\ fat_clus_valid(fat_entry(cluster)) => \E i \in 1 .. Len(f.chain) : fat_entry(cluster) = f.chain[i]
  BY <1>2, <1>3, LinkIn
<1>5. ~ Fails(fat_sector(cluster))
  BY <1>4, NoFault
<1>6. CASE CopyEnds /\ Returns(buffer, bytes_read)
  <2>1. bytes_read = Room
    <3> SUFFICES ASSUME bytes_read # Room PROVE FALSE
      OBVIOUS
    <3>1. ~ done
      BY <1>1, <1>2 DEF Follows
    <3>2. fat_clus_valid(fat_entry(cluster))
      BY <1>1, <1>2, MoreClusters
    <3> QED BY <1>6, <3>1, <3>2 DEF CopyEnds
  <2> QED BY <1>1, <1>2, <1>6, <2>1, SearchReturns
<1>7. CASE /\ ~ CopyEnds
           /\ pc' = "data" /\ cluster' = fat_entry(cluster) /\ place' = 0
           /\ UNCHANGED <<phase, name, suffix, table>>
  <2>1. Copying' /\ Parsed'
    BY <1>7 DEF Copying, Parsed
  <2>2. CopyOf(f)'
    BY <1>2, <2>1, CopyOfNext
  <2>3. Follows(f)'
    <3>1. place' \in 0 .. bpb'.sectors_per_cluster - 1
      BY <1>1, <1>7 DEF Types
    <3>2. \E i \in 1 .. Len(f.chain) : cluster' = f.chain[i]
      BY <1>4, <1>7 DEF CopyEnds
    <3> QED BY <1>7, <3>1, <3>2 DEF Follows
  <2>4. /\ Named(name, Sought, ScanDir)' = Named(name, Sought, ScanDir)
        /\ Named(name, Sought, "root")' = Named(name, Sought, "root")
        /\ Named(name, Suffixed, "root")' = Named(name, Suffixed, "root")
        /\ Named(name, Suffixed, "tables")' = Named(name, Suffixed, "tables")
    BY <1>1, <1>7 DEF Named, Files, Sought, Suffixed, ScanDir
  <2>5. \E g \in Named(name, Sought, ScanDir)' : CopyOf(g)' /\ Follows(g)'
    BY <1>2, <2>2, <2>3, <2>4
  <2>6. Search'
    BY <1>1, <1>7, <2>1, <2>4, <2>5 DEF Search
  <2> QED BY <1>7, <2>6 DEF RightTable
<1> QED BY <1>5, <1>6, <1>7 DEF CopyNext

\* The next load begins with the suffix.
LEMMA SearchLoad ==
  ASSUME NEW t \in Tables, Load(t)
  PROVE  Search' /\ RightTable'
<1>1. pc' = "sector0" /\ name' = t /\ suffix' = TRUE
  BY DEF Load
<1>2. Search'
  BY <1>1 DEF Search, Parsed, Copying
<1> QED BY <1>1, <1>2 DEF RightTable

\* No step of the driver.
LEMMA SearchStutter ==
  ASSUME Search, RightTable, UNCHANGED vars
  PROVE  Search' /\ RightTable'
<1>1. /\ UNCHANGED <<medium, pc, name, suffix, bpb, table, faults>>
      /\ UNCHANGED <<phase, cluster, place>> /\ UNCHANGED <<file_size, bytes_read, done, buffer>>
  BY DEF vars, scanVars, copyVars
<1>2. \A exts, dir : Named(name, exts, dir)' = Named(name, exts, dir)
  BY <1>1 DEF Named, Files
<1>3. Designated(name)' = Designated(name)
  BY <1>1, DesignatedSame
<1>4. Sought' = Sought /\ ScanDir' = ScanDir
  BY <1>1 DEF Sought, ScanDir, Suffixed
<1>5. \A f : (CopyOf(f)' <=> CopyOf(f)) /\ (Follows(f)' <=> Follows(f))
  BY <1>1 DEF CopyOf, Follows, CellsBefore, Room
<1>6. ScanAt => ScanAt'
  <2> SUFFICES ASSUME ScanAt PROVE ScanAt'
    OBVIOUS
  <2>1. PICK j \in 1 .. Len(Chain) :
           /\ cluster = Chain[j]
           /\ pc = "scan" => place \in 0 .. Width(bpb, cluster) - 1 /\ Clear(j, place)
           /\ pc = "scan_next" => Clear(j + 1, 0) /\ cluster >= 2
    BY DEF ScanAt
  <2>2. PICK k : k = place
    OBVIOUS
  <2>3. PICK i : i = j + 1
    OBVIOUS
  <2>4. /\ pc = "scan" => Clear(j, k)'
        /\ pc = "scan_next" => Clear(i, 0)'
    BY <1>1, <2>1, <2>2, <2>3, ClearSame
  <2>5. Chain' = Chain /\ Width(bpb, cluster)' = Width(bpb, cluster)
    BY <1>1 DEF Chain, ScanDir, DirChain, Width
  <2>6. Clear(j, k)' => Clear(j, place)'
    BY <1>1, <2>2 DEF Clear
  <2>7. Clear(i, 0)' => Clear(j + 1, 0)'
    BY <2>3
  <2> QED BY <1>1, <2>1, <2>4, <2>5, <2>6, <2>7 DEF ScanAt
<1>7. Search'
  BY <1>1, <1>2, <1>4, <1>5, <1>6 DEF Search, Parsed, Copying
<1>8. \A f : FileRows(f)' = FileRows(f)
  BY DEF FileRows
<1> QED BY <1>1, <1>3, <1>7, <1>8 DEF RightTable

\* Faults are counted and not forgotten.
LEMMA FaultsCount ==
  ASSUME faults \in Nat, [Next]_vars
  PROVE  faults' \in Nat /\ (faults' = 0 => faults = 0)
<1>1. faults' = faults \/ faults' = faults + 1
  BY DEF Next, Step, ReadSector0, ReadVbr, ScanStep, ScanNext, CopySector, CopyNext, Load,
         Reads, Fails, vars
<1> QED BY <1>1

\* On a medium that can be searched and whose files are laid out in order, and as long as no sector
\* failed, load_table_from_sd hands on the table that sd_driver.h and the order of the search
\* designate, to the last row that fits, or none when there is none: through partition table, boot
\* record, directories and chains of any length, and whatever an earlier load left in the buffer.
THEOREM RightTableHolds ==
  ASSUME \A m \in Volumes : LaidOut(m) /\ Searchable(m)
  PROVE  Spec => []RightTable
<1> DEFINE Right == Types /\ faults \in Nat /\ (faults = 0 => Search /\ RightTable)
<1>1. Init => Right
  <2> SUFFICES ASSUME Init PROVE Right
    OBVIOUS
  <2>1. pc = "idle" /\ name = None /\ faults = 0
    BY DEF Init
  <2>2. Search
    BY <2>1 DEF Search, Parsed, Copying
  <2> QED BY <2>1, <2>2, TypesInit DEF RightTable
<1>2. Right /\ [Next]_vars => Right'
  <2> SUFFICES ASSUME Right, [Next]_vars PROVE Right'
    OBVIOUS
  <2>1. LaidOut(medium) /\ Searchable(medium)
    BY DEF Types
  <2>2. Types' /\ faults' \in Nat /\ (faults' = 0 => faults = 0)
    BY TypesStep, FaultsCount
  <2>3. ASSUME faults' = 0 PROVE Search' /\ RightTable'
    <3>1. faults = 0 /\ Types /\ Search /\ RightTable
      BY <2>2, <2>3
    <3> QED BY <2>1, <2>3, <3>1, SearchSector0, SearchVbr, SearchScanStep, SearchScanNext,
               SearchCopySector, SearchCopyNext, SearchLoad, SearchStutter DEF Next, Step
  <2> QED BY <2>2, <2>3
<1>3. Right => RightTable
  BY DEF RightTable
<1> HIDE DEF Right
<1> QED BY <1>1, <1>2, <1>3, PTL DEF Spec
=============================================================================
