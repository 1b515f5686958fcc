----------------------------- MODULE MCSdFiles -----------------------------
(* SdFiles on a few small volumes. *)
EXTENDS SdFiles

\* Long names: the first six letters, two more, the rest.
Name(stem, two, rest) == [stem |-> stem, two |-> two, rest |-> rest, ext |-> ""]
Alunos == Name("alunos", "", "")
Vendas == Name("vendas", "", "")
Historico1 == Name("histor", "ic", "o1")
Historico2 == Name("histor", "ic", "o2")
Notas == Name("notas", "", "")

TableHeader(rows) == [ok |-> TRUE, row_count |-> rows]
NotATable == [ok |-> FALSE, row_count |-> 9]

\* A file whose name fits a directory entry; chain <<0>> is an empty file.
File(id, dir, long, ext, chain, size, header) ==
    [id |-> id, dir |-> dir, long |-> [long EXCEPT !.ext = ext],
     short |-> Short(long.stem, long.two, ext), chain |-> chain, size |-> size, header |-> header]

\* A file of type .tbl8, which has the alias a PC gives to long names.
LongFile(id, dir, long, stem, two, chain, size, header) ==
    [File(id, dir, long, "tbl8", chain, size, header) EXCEPT !.short = Short(stem, two, "tbl")]

Junk == <<Entry("label", Short("alunos", "", "tbl"), 0, 0),
          Entry("deleted", Short("alunos", "", "tbl"), 9, 3),
          Entry("lfn", Short("", "", ""), 0, 0)>>

\* Eight clusters; the chains of the root of FAT32 and of /tables where a volume has them.
Volume(fat32, spc, partition, root, tables, files) ==
    [fat32 |-> fat32, spc |-> spc, partition |-> partition, formatted |-> TRUE,
     reserved |-> 2, fats |-> 2, clusters |-> 8,
     root |-> root, tables |-> tables, files |-> files, junk |-> Junk, loops |-> <<>>]

\* FAT16: two copies of a table, a table in /tables only, fragmented files.
Plain == Volume(FALSE, 1, 0, <<>>, <<3, 6>>,
    <<File(1, "root", Alunos, "tbl", <<2, 5, 4>>, 5, TableHeader(2)),
      File(2, "tables", Alunos, "tbl", <<7>>, 2, TableHeader(1)),
      LongFile(3, "tables", Vendas, "vendas", "~1", <<9, 8>>, 4, TableHeader(3))>>)
\* FAT32 behind a partition table: an empty file and a table larger than the buffer.
Partitioned == Volume(TRUE, 2, 1, <<2>>, <<3>>,
    <<File(1, "root", Vendas, "", <<5>>, 4, TableHeader(1)),
      File(2, "tables", Vendas, "tbl", <<0>>, 0, NotATable),
      File(3, "tables", Alunos, "tbl", <<9, 7>>, 8, TableHeader(9))>>)
\* FAT32: a file that is no table, and one with more rows in its header than in it.
Other == Volume(TRUE, 1, 0, <<3, 2>>, <<>>,
    <<File(1, "root", Alunos, "tbl", <<4>>, 2, NotATable),
      File(2, "root", Alunos, "", <<6, 7>>, 4, TableHeader(1)),
      File(3, "root", Vendas, "tbl", <<8, 9>>, 3, TableHeader(9))>>)
Unformatted == [Plain EXCEPT !.formatted = FALSE]
FileLoop == [Plain EXCEPT !.loops = (4 :> 2)]
\* A boot record without a root directory.
Rootless == [Other EXCEPT !.files = <<>>, !.root = <<0>>]
DirLoop == [Partitioned EXCEPT !.files = <<>>, !.junk = Junk \o Junk, !.tables = <<>>, !.loops = (2 :> 2)]

Media(vols) == {[volume |-> v, image |-> Image(v)] : v \in vols}

MCTables == {Alunos, Vendas}
MCVolumes == Media({Plain, Partitioned, Other, Unformatted, FileLoop, DirLoop, Rootless})

\* The files of these media are laid out and, but where there is no root directory, can be
\* searched as the proofs assume; a chain may lead back instead of ending.
ASSUME FilesLaidOut ==
    Volumes = MCVolumes => \A m \in Volumes : LaidOut(m) /\ (m.volume = Rootless \/ Searchable(m))

\* Two long names that share their first six letters.
Similar == Volume(TRUE, 1, 0, <<2, 3>>, <<>>,
    <<LongFile(1, "root", Historico1, "histor", "~1", <<4, 6>>, 3, TableHeader(1)),
      LongFile(2, "root", Historico2, "histor", "~2", <<5, 7>>, 3, TableHeader(1))>>)
SimilarTables == {Historico1, Historico2}
SimilarVolumes == Media({Similar})

\* A name of five letters: the alias of notas.tbl8 is NOTAS~1.TBL.
Brief == Volume(TRUE, 1, 0, <<2, 3>>, <<>>,
    <<LongFile(1, "root", Notas, "notas~1", "", <<4, 6>>, 3, TableHeader(1))>>)
BriefTables == {Notas}
BriefVolumes == Media({Brief})

\* A file beyond the clusters that the low half of the field can name.
Large == [Volume(TRUE, 1, 0, <<2, 6>>, <<>>,
    <<File(1, "root", Vendas, "tbl", <<4, 5>>, 3, TableHeader(1)),
      File(2, "root", Alunos, "tbl", <<12, 13>>, 3, TableHeader(1))>>) EXCEPT !.clusters = 12]
LargeVolumes == Media({Large})

\* The table exists, and so does an older file without suffix.
Older == Volume(FALSE, 1, 0, <<>>, <<>>,
    <<File(1, "root", Alunos, "tbl", <<2, 3, 6>>, 5, TableHeader(2)),
      File(2, "root", Alunos, "", <<4, 5, 7>>, 5, TableHeader(2))>>)
OlderVolumes == Media({Older})
=============================================================================
