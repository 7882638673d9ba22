-------------------------- MODULE MCSnapshotBuild --------------------------
(* A corner of the dbt project: two of the staging models, a dimension over
   one of them and a mart that joins both sides.  The relationship test reads
   both staging models, so it gates the mart but not the dimension; the mart's
   own test gates nothing; and the snapshot test, which also reads the ledger
   model, gates nothing either.                                              *)
EXTENDS SnapshotBuild

MCStaging == {"teams", "fixtures"}
MCGold    == {"dim_team", "mart_team_fixture_run"}
MCReads   == [g \in MCGold |-> IF g = "dim_team" THEN {"teams"} ELSE {"dim_team", "fixtures"}]

MCUpstream == [n \in MCStaging \cup MCGold \cup {"loads"} |->
    CASE n = "dim_team" -> {"teams"}
      [] n = "mart_team_fixture_run" -> {"dim_team", "fixtures", "teams"}
      [] OTHER -> {}]

MCChecks == {"one_snapshot", "fixture_teams", "grid_is_complete"}

MCCovers == [c \in MCChecks |->
    CASE c = "one_snapshot" -> MCStaging \cup {"loads"}
      [] c = "fixture_teams" -> MCStaging
      [] c = "grid_is_complete" -> {"mart_team_fixture_run"}]
=============================================================================
