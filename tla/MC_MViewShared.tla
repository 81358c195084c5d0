--------------------------- MODULE MC_MViewShared ---------------------------
(* Two tables on one store, as in test_multi_mview_table_iter. *)
EXTENDS MViewShared

CONSTANTS t1, t2, v1, v2

MCTables == {t1, t2}
MCVals   == {v1, v2}
MCScanned == {t1}

\* Two pks of test_multi_mview_table_iter's shape, (Int32 Ascending,
\* Int32 Descending), that differ in the descending column only, one of
\* them negative: the declared order puts <<1, 1>> first.
MCPks       == {<<1, -1>>, <<1, 1>>}
MCOrderings == <<Asc, Desc>>

\* Prefix-free keyspace prefixes of different lengths.
MCPrefixFree == [t \in MCTables |-> IF t = t1 THEN <<1>> ELSE <<2, 1>>]

\* Distinct prefixes where t1's is a proper prefix of t2's.
MCPrefixNested == [t \in MCTables |-> IF t = t1 THEN <<1>> ELSE <<1, 2>>]
=============================================================================
