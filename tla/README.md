# TLA+ models of the materialized-view table and percentile_disc

This project models `src/rust/stream/src/executor/mview/table.rs`, which is the materialized-view
row table with its cell-based scan iterator, and `src/src/expr/src/agg/percentile_disc.rs`.
It follows `spec.md`.

## The system

| Component | State | Operations | Interacts with |
|---|---|---|---|
| Keyspace / state store (consumed) | ordered map key → bytes | point `get`, ordered `iter`, atomic batch write | everything |
| Key encoder (not in repo) | none | `serialize_pk`, `serialize_cell_idx` | table, writer |
| Cell codec (not in repo) | none | `deserialize_datum_from`, `RowDeserializer` | table |
| `ManagedMViewState` (not in repo) | buffer pk → Put(row) / Delete | `put`, `delete`, `flush(epoch)` | writes the keyspace |
| `MViewTable` | keyspace handle, schema, pk columns | `new`, `schema`, `get(pk, cell_idx)`, `iter` | reads the keyspace |
| `MViewTableIter` | inner store iterator, prefix, schema | `next()`: groups `schema.len()` consecutive cells sharing a pk into a row | reads the keyspace |
| `PercentileDisc` | `fractions`, `data: Vec<ScalarImpl>` | `build`, `update`, `update_range`, `get_output`, `output`, `reset` | fed chunks by an executor |

A row with primary key `pk` is stored as one cell per column, under the key
`prefix ++ serialize_pk(pk) ++ big_endian_u32(column)`. The writer and the readers share only the
keyspace. There is a single writer per keyspace (spec 5). Readers run concurrently with the
writer. `next()` awaits `inner.next()` once per cell, so a flush can commit between two cells of
the same row. This is the hardest behaviour in the code.

What makes each component correct:
- **Scan iterator.** Every yielded row is a row that existed, and it is never stitched from two
  pks or two writes. A partial row or a malformed key always gives an error and is never skipped.
  A scan that ends cleanly has yielded every row of its snapshot in pk order. Atomic flushes never
  cause a corruption error.
- **get + writer.** Together they behave as a table of whole rows with last-write-wins buffering
  and atomic commits. An out-of-range column index is rejected.
- **percentile_disc.** The output is the first value whose position k of n satisfies k/n ≥ f.
  NULL datums and invisible rows are ignored. `output` resets the state.

Hard behaviours: interleaving of writer flushes with a reader's per-cell awaits, the snapshot or
live semantics of the store iterator, corrupted keyspaces, a failed batch commit (applied or not),
a caller that keeps calling `next()` after an error, debug versus release builds, and zero or
boundary fractions. `PROJECT.json` lists the hazards line by line.

## Modules

- `MViewStore.tla` models the keyspace (`kv`) and `ManagedMViewState` (`buffer`, `epoch`): `put`,
  `delete`, `flush`, `flushFailed` (the batch applied all or nothing, and the buffer is kept), and
  `rawWrite` (a single cell written outside the writer, enabled by `Corruption`). With
  `StrayCells`, such a cell may also sit under the suffix `schema.len()`, past the last column,
  as a cell left by a wider schema would. The writer's
  code is not in this repository, so these actions follow spec 4.5 (`spec_modelled`). The key
  order is `Rank`: a short key sorts first, then pk by pk, then column by column, with a stray
  cell after its pk's last column. `NextKey` is
  the store iterator.
- `MViewTable.tla` (extends `MViewStore`) models `iter` and `MViewTableIter::next`. `next(r)`
  resets the call's locals `pk_buf`, `restored` and `row_bytes`. Each branch of the loop body is
  its own action: `PullEnd` (`None if restored == 0`), `PullEndIncomplete`, `PullCorruptedKey`
  (`key.len() < prefix.len() + 4`), `PullPkChanged` (`pk_buf != cur_pk_buf`), `PullCell`
  (continue), and `PullRowDone` (`restored == schema.len()`, which breaks and returns the row).
  A cell joins the row on its pk bytes alone (`CellFits`): like the code, the model never looks
  at its suffix.
  The constant `SnapshotIter` says whether `keyspace.iter()` reads a snapshot or the live
  keyspace. The ghosts `out`, `startRow`, `scanErr` and `ended` record what each scan returned.
- `MViewTableGet.tla` (extends `MViewStore`) models `MViewTable::get`. The `debug_assert!` is
  taken per build through `DebugAssertions`. It is kept apart from the scan because the result of
  `get` multiplies the state space and does not interact with the scan.
- `MViewRowTable.tla` is the abstract specification: a table of whole rows with a
  last-write-wins buffer, `Commit`, `CommitFailed` and `Get`. `MViewTableGet` maps to it. A
  pk's row is present exactly when all its cells are, and a panic counts as a rejection.
  `RowTableSpec` is that refinement.
- `MViewScan.tla` is the abstract specification of a scan (spec 4.3, 4.4). A table is a
  function from pk to a whole row. `Commit` replaces any rows at once. `Open` fixes a reader's
  table, `Call` starts a `next()`, and `Yield` returns the row of the next greater pk. `End`
  returns end-of-sequence when no such pk is left. A table may also be corrupt, meaning its
  keyspace holds a partial row or a malformed key. A scan of a corrupt table may `Fail`, skip rows
  or `End` early, but it still returns only rows the table holds, in increasing pk order. A scan
  of a clean table never fails. `MViewTable` maps to it through `Scan`:
  - a table is the complete rows of a keyspace (`TableOf`), corrupt when the keyspace is not
    `WellFormed`;
  - the position is the pk of the last yielded row (`LastPk`);
  - a yielded row is its `row_bytes`.
  `PullCell` and the writer's `put` and `delete` are stutters. `ScanRefinement` is that
  refinement.
- `MViewShared.tla` models several tables on one store, as `test_multi_mview_table_iter` builds
  them. Each table has its keyspace prefix (`Prefix[t]`, standing for
  `Keyspace::executor_root(state_store, id)`), its own writer (`put`, `delete`, `flush` per table,
  spec-modelled), and a scan. Here keys are byte strings: `Prefix[t] \o <<p, c>>`, where the pk
  encodes to one byte and the 4-byte column suffix is one symbol (`SuffixLen`). The store yields
  them in byte order (`Before`), filtered by byte prefix. `next()` and its loop act on those bytes
  as the code does: the length check, the `cur_pk` slice (`CurPk`), the pk check, `Restore`, and
  the break (`RowComplete`). Pks are tuples of i32, and their bytes come from `PkEncoding` under the
  declared `Orderings`, so whether the scan yields rows in pk order depends on the encoder and the
  store's byte order, as it does in the code. Only the tables in `Scanned` run a scan, so one scan can be checked
  against every writer of the store without multiplying independent readers. Its writers write only
  well-formed keys, so the length check's error branch cannot fire here; `MViewTable` covers it.
- `PkEncoding.tla` holds the key encoder as pure operators. The encoder is not in this
  repository, so it is modelled from spec 3 and 4.1 with the memcomparable scheme (`spec_modelled`):
  - a non-nullable Int32 datum is a `Some` tag byte followed by the i32 in big-endian order with
    its sign bit flipped (`SerializeI32`);
  - a Descending column has every byte inverted (`Reversed`);
  - `serialize_cell_idx` is a big-endian u32.

  `Before` is the store's byte order. `DeclaredBefore` is the reference order of spec 3.
- `CellKeyOrder.tla` takes the inputs of two `serialize_pk ++ serialize_cell_idx` calls as its
  state, and checks the byte order of the two keys against the declared order.
- `PercentileDisc.tla` models the aggregator. Fractions are exact rationals. `RowsIn` is
  `rows()` / `rows_in(range)`: the visible rows in the range. `PercentileAt(f, d)` is the body of
  `get_output`. `PercentileDiscRef` is the RECURSIVE reference definition. `SltExamples` holds the
  slt queries of the doc comment with their expected results, checked by an `ASSUME`.
- `MC_*.tla` supply model values and symmetry. They are checked with the `.cfg` files below.

## Runs

| Run | Checks | Result |
|---|---|---|
| `mview_drain` | `ScanEnds` | pass. Snapshot iterators, flushes, raw partial writes and malformed keys, with one datum and 3 writes (54,828 states). A reader that keeps calling `next()`, also after errors, gets `Ok(None)` in the end and for good, unless it reopens the table forever. |
| `mview_refine` | `TypeOK`, `CleanEndMeansComplete`, `ScanRefinement` | pass. Snapshot iterators, flushes, raw partial writes and malformed keys. On a clean snapshot the iterator behaves exactly as `MViewScan` says, and a reopened iterator starts from the first pk. Errors and early ends happen only on a corrupt snapshot. A caller that keeps calling `next()` after an error still gets only whole rows of its snapshot, in increasing pk order. An iterator that returns `Ok(None)` without an error has yielded exactly the complete rows of a well-formed snapshot, in pk order (621,907 states, about 3 minutes). |
| `mview_stray` | `CleanEndMeansComplete` | violation. pk 1 holds column 0 and a stray cell under suffix 2, but no column 1: `next()` returns it as a whole row `<<v1, v1>>`, then `Ok(None)`. |
| `mview_live_error` | `NoSpuriousCorruption` | violation. A live iterator plus a delete flushed mid-row gives "incomplete item". |
| `mview_live_torn` | `ScanRowsConsistent` | violation. A live iterator plus a rewrite flushed mid-row gives a silently torn row. |
| `get_debug` | `TypeOK`, `RowTableSpec` | pass. Cells, flushes and get refine the row table. |
| `get_release` | `GetRejectsInvalidIndex` | violation. A release build returns `Ok(None)` for `cell_idx >= schema.len()`. |
| `percentile` | `TypeOK`, `OutputIsPercentileDisc` | pass. The result equals the SQL definition for the slt fractions. Before any state, the module's `ASSUME SltExamplesHold` checks that `PercentileAt` and the reference give the results the doc comment's slt queries expect. |
| `percentile_negative` | `OutputIsPercentileDisc` | violation. A fraction of -1/2 makes `get_output` panic (`0usize - 1`). |
| `shared_isolation` | `TypeOK`, `ScanReadsOwnRows`, `ScanYieldsOwnTable` | pass. Prefixes `<<1>>` and `<<2, 1>>`, pks `<<1, -1>>` and `<<1, 1>>` under (Ascending, Descending). The scan of t1 sees only t1's rows while both writers flush, and a scan that ends has yielded each complete row once. Row order is the `pk_order` run's question. |
| `pk_order` | `KeysInDeclaredOrder` | pass. For every pair of two-column pks over {i32 min, -1, 0, 1, i32 max}, under each of the 4 pairs of order types, and for cell indices {0, 1, 255, 256}, key byte order is the declared pk order, then column order (40,000 states). |
| `shared_nested` | `ScanReadsOwnRows` | violation. Prefixes `<<1>>` and `<<1, 2>>`: the scan of t1 yields t2's row as a row of its own, whose pk bytes are the 11 bytes after `<<1>>` (2, then t2's encoded pk). |

Findings:
1. A scan is only as safe as the store iterator's snapshot. Spec 5 says batch atomicity is
   enough to never see a partial row. The two live runs show that it is not enough: with a
   live-reading iterator, a single atomic flush landing between two `inner.next()` awaits either
   forges a corruption error or returns a row mixing two writes.
2. `get`'s bounds check is debug-only, which contradicts spec 7.
3. Distinct keyspace prefixes are not enough for isolation, although spec 8.7 says they are.
   The prefix scan of a table whose prefix is a proper prefix of another's returns the other
   table's cells. `next()` slices them into rows of its own. The prefixes must be prefix-free,
   as fixed-width executor ids are. `next()` never checks that a key belongs to its table.
4. `percentile_disc` does not check its fraction. For a negative literal, the doc comment's
   definition gives the first value, but `get_output` computes `ceil(f * n) as usize - 1 = 0 - 1`
   and panics. A fraction above 1 indexes past `data`. Whether the binder, which is outside this
   repository, rejects such literals is not known.
5. `next()` never checks a cell's column suffix; it counts cells up to `schema.len()`. A pk
   missing a column but holding a cell under a suffix past the last column is returned as a
   whole row, with the stray value in the missing column's place, and the scan ends cleanly.
   Spec 3 calls a pk without all its cells corruption, and spec 7 says corruption is never
   turned into a result. Spec 4.4 describes the same count-only grouping, so the spec is at
   odds with itself. Such a cell comes from outside the writer, for example a wider schema
   that once used the keyspace.

Every property of a passing run has a mutant in `PROJECT.json`: a plausible bug in the mapped
definition that TLC catches. Examples are a corrupted key left in front of the cursor (errors forever), `None => Ok(None)` regardless of `restored`, the key appended in place of the value, `get`
returning the key, a put missing its last column, NULLs pushed into `data`, no zero-fraction branch,
`output` resetting before it reads, a Descending column written unreversed, a reopened iterator
reading the previous iterator's snapshot, the pk slice starting one byte early, and the row
completed one cell late.

## Bounds

- **Scan and get models:** 2 pks × 2 columns × 2 datums, one reader, and 2 writes to the keyspace
  (3 for get). Two writes are enough for a row to be written, read part-way, and then rewritten or
  deleted. They also allow a flush before `iter` and another during it, or a raw partial write
  and a malformed key. Two datums make a torn row distinguishable. Two pks make a pk change
  inside a group possible. Readers are independent of one another, so one reader covers every
  per-reader property. Datums are a symmetry set, used only where no temporal property is
  checked. The refinement and drain runs drop the symmetry; the drain run uses a single datum and 3 writes.
- **percentile:** datums {1, 2}; chunks of up to 2 rows with any visibility and NULLs; at most
  4 visible rows between resets; the fractions of the doc examples (0, 0.33, 0.34, 0.67, 1),
  plus 1/2 and NULL. With n ≤ 4, every ceiling case happens: an exact product, a product just
  below an integer, and one just above.
- **shared:** two tables, 2 pks × 2 columns × 2 datums each, one flush per writer (as in the
  test), and the scan of t1. The writer buffers nothing after its last flush. This keeps
  post-flush churn out of the state space (42,821 states). Scanning both tables multiplies
  independent components: that run had not finished after 10 minutes. The prefixes
  `<<1>>` / `<<2, 1>>` differ in length, so the passing run shows that prefix-free prefixes
  suffice, not only equal-length ones. In the nested run t2's keys `<<1, 2, 1, ...>>` sort inside
  t1's range, after all of t1's keys `<<1, 1, ...>>` (the first pk column is Ascending, so its tag
  byte is 1). The two pks `<<1, -1>>` and `<<1, 1>>` differ only in the Descending column, and one
  of them is negative. So a missing sign flip or a missing inversion reverses their order.
- **pk_order:** the values around zero catch the sign flip. The ends of the i32 range catch
  overflow in the byte arithmetic. Indices 255 and 256 catch a little-endian or truncated cell
  suffix. Every pair of order types is checked.

## Fairness and liveness

`ScanEnds` (the `mview_drain` run) says that a caller that keeps calling `next()` eventually
gets `Ok(None)`, even when the keyspace is corrupted and the caller keeps calling `next()` after
an error. `FairSpec` of `MViewTable` assumes weak fairness of `next(r)` and `Pull(r)`:
- the caller drains the iterator, as the tests do;
- once `next()` is running, its loop is polled to a return, because `inner.next()` answers.

The writer gets no fairness, since it may stop at any time. The code has no timeouts or
retries. `iter` may
reopen the table at any time, as the code allows, so the property excuses a reader that reopens
infinitely often. The property holds because every error path leaves the key that exposed it
behind the cursor:
- a short key is returned by `inner.next()` before the length check;
- the key of the next pk is consumed before the pk check;
- at the end nothing is left to consume.

It is checked with one datum, because datums play no part in termination. That keeps the
liveness check to seconds. With two datums it took over 7 minutes.

`MViewShared` has no liveness property: without corruption its scan cannot fail, and it ends
because the snapshot is finite, which `ScanEnds` already covers in a harder setting.
`ScanRowsConsistent` is checked only in the live-iterator run: with a snapshot iterator it
follows from `ScanRefinement`, whose abstract scan yields only rows of the snapshot.

## Not modelled

- The cell codec (`deserialize_datum_from`, `RowDeserializer`). It is not in this repository,
  and spec 4.2 says only that encode and decode are inverses. Datums are model values, and
  `row_bytes` is the sequence of cell datums, so a round trip holds by construction. Self-delimiting
  decoding of the concatenated `row_bytes` could only be modelled by inventing a byte format.
- The key encoder for Varchar and nullable pk columns, and NULL pk datums. The byte format of
  memcomparable strings is in neither the repository nor the spec. `MViewStore` and `MViewTable`
  use `Rank`, the order that `CellKeyOrder` shows the Int32 encoding induces. `MViewShared` uses
  the bytes themselves.
- How `OrderedRowsSerializer` indexes the pk row. `MViewTable::new` hands it the schema indices
  in `pk_columns`, while `get` passes a row of pk datums only. The two agree only when
  `pk_columns` is `0..k-1`, as in every test. The serializer is not in this repository, so
  `PROJECT.json` lists this as a hazard without a property.
- `get_data_by_columns`, which is `unimplemented!()`.
- `get_state` and `set_state`, which are `unimplemented!()`.
- `EstimateSize`.
- The f64 rounding of `fractions * len`. An f64 product has a 53-bit mantissa, and TLC's integers
  are 32-bit, so the product cannot be computed exactly. The model uses exact rationals, which
  equal the f64 result wherever the rounding does not cross an integer.
- Chunk ops: `update` ignores them, and percentile_disc is used as a batch aggregate. Neither the
  spec nor the code says what a retraction should do, so no property could be stated.
- The order of `data`. It is arrival order; the WITHIN GROUP sort happens in the caller, outside
  this repository, and the model takes arrival order as the ordered set.

## Plan

1. *(done)* `MViewStore`, `MViewTable`: the scan iterator against the single writer, with
   snapshot and live iterators and corruption.
2. *(done)* `MViewTableGet` + `MViewRowTable`: point reads and the refinement to a row table.
3. *(done)* `PercentileDisc` against its reference definition.
4. *(done)* `PkEncoding` and `CellKeyOrder`: the Int32 memcomparable encoding with ascending and
   descending columns, checked against the declared order, and composed into `MViewShared`.
5. *(done)* A scan refinement: in snapshot mode, with and without corruption, `MViewTable`
   refines `MViewScan`, checked without symmetry. Liveness is checked in `MViewTable` (`ScanEnds`).
6. *(done)* Multi-table isolation (`MViewShared`): byte-level keys, prefix-free and nested
   prefixes.
8. *(done)* Stray cells under a suffix past the last column (`mview_stray`).
7. *(done)* The percentile run with a negative fraction (violation), and the slt examples of the
   doc comment checked by an `ASSUME`.
