--------------------------- MODULE MCPostgresLoad ---------------------------
(* The seed tables and one a migration may add, under the name of another    *)
(* schema's.                                                               *)
EXTENDS PostgresLoad

App == <<"app">>
Ops == <<"ops">>
PipelineRuns == <<"pipeline", "runs">>

TablesDef  == {<<App, <<"raw", "landing">>>>, <<Ops, PipelineRuns>>, <<App, PipelineRuns>>}
SeedDef    == {<<App, <<"raw", "landing">>>>, <<Ops, PipelineRuns>>}
SchemasDef == <<App, Ops>>
=============================================================================
