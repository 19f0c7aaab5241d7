----------------------------- MODULE EventPages -----------------------------
(***************************************************************************)
(* Bulk documents (event_model/page.rs, and the page composers of          *)
(* event_model/compose.rs): a page is column-major, a column per key, and  *)
(* is packed from rows, unpacked to rows, merged and rechunked.  A row is  *)
(* [id, seq, data]; `timestamps`, `filled` and a datum's kwargs have       *)
(* columns of the same kind and are treated by the code in the same way.   *)
(***************************************************************************)
EXTENDS Integers, Sequences, FiniteSets, SequencesExt, FiniteSetsExt, Functions

CONSTANTS
  PgRuns,    \* the sequences of rows to pack, each of one descriptor
  PgCuts,    \* how they are cut into pages: sequences of page lengths
  PgChunks   \* chunk sizes

VARIABLES
  pgRows, pgCut, pgChunk   \* the case looked at

pageVars == <<pgRows, pgCut, pgChunk>>

Keys(rows) == UNION {DOMAIN rows[i].data : i \in DOMAIN rows}

\* A column takes a value from each row that has the key: it is shorter than
\* the page when a row lacks it.
Column(rows, k) ==
  LET has == SelectSeq(rows, LAMBDA r : k \in DOMAIN r.data)
  IN [i \in DOMAIN has |-> has[i].data[k]]

\* pack_event_page; an empty slice has no descriptor to take.
CanPack(rows) == rows # <<>>
PackPage(rows) ==
  [ids  |-> [i \in DOMAIN rows |-> rows[i].id],
   seqs |-> [i \in DOMAIN rows |-> rows[i].seq],
   data |-> [k \in Keys(rows) |-> Column(rows, k)]]

\* unpack_event_page: col.get(i), so a key is absent where its column ends.
UnpackPage(page) ==
  [i \in DOMAIN page.ids |->
     [id |-> page.ids[i], seq |-> page.seqs[i],
      data |-> [k \in {x \in DOMAIN page.data : i <= Len(page.data[x])} |-> page.data[k][i]]]]

\* pack_datum_page and unpack_datum_page: a datum has no seq_num.
PackDatums(rows) == [ids |-> PackPage(rows).ids, data |-> PackPage(rows).data]
UnpackDatums(page) ==
  [i \in DOMAIN page.ids |->
     [id |-> page.ids[i],
      data |-> [k \in {x \in DOMAIN page.data : i <= Len(page.data[x])} |-> page.data[k][i]]]]

\* merge_event_pages: columns are laid end to end, key by key.
Joined(columns) == FlattenSeq(columns)
ColumnOrNone(page, k) == IF k \in DOMAIN page.data THEN page.data[k] ELSE <<>>
MergePages(pages) ==
  [ids  |-> Joined([i \in DOMAIN pages |-> pages[i].ids]),
   seqs |-> Joined([i \in DOMAIN pages |-> pages[i].seqs]),
   data |-> [k \in UNION {DOMAIN pages[i].data : i \in DOMAIN pages} |->
               Joined([i \in DOMAIN pages |-> ColumnOrNone(pages[i], k)])]]

\* slice_cols: bounds are cut to the column's length.
SliceCols(cols, start, stop) ==
  [k \in DOMAIN cols |-> SubSeq(cols[k], Min({start, Len(cols[k])}) + 1, Min({stop, Len(cols[k])}))]

\* Mutant: the last, short chunk is left out.
RechunkWhole(pages, size) ==
  LET merged == MergePages(pages)
      n == Len(merged.ids)
      Chunk(c) == [ids  |-> SubSeq(merged.ids, (c - 1) * size + 1, c * size),
                   seqs |-> SubSeq(merged.seqs, (c - 1) * size + 1, c * size),
                   data |-> SliceCols(merged.data, (c - 1) * size, c * size)]
  IN IF size = 0 THEN <<>> ELSE [c \in 1 .. n \div size |-> Chunk(c)]

\* rechunk_event_pages; a chunk size of 0 gives no page at all.
Rechunk(pages, size) ==
  LET merged == MergePages(pages)
      n == Len(merged.ids)
      Chunk(c) == LET stop == Min({c * size, n})
                  IN [ids  |-> SubSeq(merged.ids, (c - 1) * size + 1, stop),
                      seqs |-> SubSeq(merged.seqs, (c - 1) * size + 1, stop),
                      data |-> SliceCols(merged.data, (c - 1) * size, stop)]
  IN IF size = 0 THEN <<>> ELSE [c \in 1 .. (n + size - 1) \div size |-> Chunk(c)]

\* rechunk_datum_pages does the same without seq_nums.
RechunkDatums(pages, size) ==
  LET chunks == Rechunk([i \in DOMAIN pages |-> [ids |-> pages[i].ids, seqs |-> pages[i].ids, data |-> pages[i].data]], size)
  IN [c \in DOMAIN chunks |-> [ids |-> chunks[c].ids, data |-> chunks[c].data]]

\* RunBundle::event_page and ResourceComposer::datum_page: a page takes n
\* consecutive numbers from the counter single documents use.
PageSeqs(counter, n) == [j \in 1 .. n |-> counter + j]
DatumIds(counter, n) == [j \in 1 .. n |-> counter + j - 1]

-----------------------------------------------------------------------------
Cut(rows, cut) ==
  LET From(i) == FoldLeft(LAMBDA a, b : a + b, 0, SubSeq(cut, 1, i - 1))
  IN [i \in DOMAIN cut |-> PackPage(SubSeq(rows, From(i) + 1, From(i) + cut[i]))]

PageInit ==
  /\ pgRows \in PgRuns /\ pgChunk \in PgChunks
  /\ pgCut \in {c \in PgCuts : FoldLeft(LAMBDA a, b : a + b, 0, c) = Len(pgRows)}

Uniform(rows) == \A i, j \in DOMAIN rows : DOMAIN rows[i].data = DOMAIN rows[j].data
Rows(pages) == Joined([i \in DOMAIN pages |-> UnpackPage(pages[i])])
DatumRows(pages) == Joined([i \in DOMAIN pages |-> UnpackDatums(pages[i])])

\* However rows that have the same keys are cut into pages and rechunked,
\* unpacking gives the rows back in order, none lost, split or repeated, and
\* no chunk is longer than asked for; a page and single documents draw
\* disjoint numbers from one counter.
PagesSound ==
  LET pages  == Cut(pgRows, pgCut)
      chunks == Rechunk(pages, pgChunk)
      datums == [i \in DOMAIN pages |-> [ids |-> pages[i].ids, data |-> pages[i].data]]
  IN Uniform(pgRows) /\ CanPack(pgRows) =>
       /\ Rows(pages) = pgRows
       /\ pgChunk > 0 => /\ Rows(chunks) = pgRows
                         /\ \A c \in DOMAIN chunks : Len(chunks[c].ids) \in 1 .. pgChunk
                         /\ DatumRows(RechunkDatums(datums, pgChunk)) = DatumRows(datums)
       /\ LET n == Len(pgRows)
          IN /\ ToSet(PageSeqs(pgChunk, n)) \cap ToSet(PageSeqs(pgChunk + n, 1)) = {}
             /\ ToSet(DatumIds(pgChunk, n)) \cap ToSet(DatumIds(pgChunk + n, 1)) = {}
=============================================================================
