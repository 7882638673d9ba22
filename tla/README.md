# Formal model of pitch-control

TLA+ specifications of pitch-control's data platform, the TLC configurations
that model-check them, and TLAPS proofs about them. Paths below are relative to
`src/`, the repository.

## 1. Inventory: the system and its parts

pitch-control is a medallion lake on S3 fed by scheduled GitHub Actions jobs.
There is no server: every component is a short-lived job or a pure
transformation, and they share three mutable things: the lake, the RDS
security group, and GitHub's own view of its runs.

| Component | State it keeps | Operations | Talks to |
|---|---|---|---|
| **Ephemeral database ingress**: `.github/scripts/sg-ephemeral.sh`, the postgres job of `ingest-bronze.yml`, `sg-janitor.yml` | rules in the security group, stamped with a run id; the rule id on the runner's disk | `open`, `close`, `sweep` | AWS EC2, `gh run view` |
| **Run ledger**: `.github/scripts/ops_ledger.py`, `ingest/run_metrics.py` | append-only objects under `ops/`, the metrics file on the runner | `start`, `finish`, `report` | every job; S3 |
| **FPL load**: `ingest/fpl/source.py`, `ingest/run_fpl.py` | Bronze files per table and load, dlt's `_dlt_loads` | one load per run | FPL API, dlt, S3 |
| **Gameweek selection**: `ingest/fpl/gameweeks.py` | none; reads FPL's flags | `select_live_gameweeks`, `parse_backfill` | the FPL load |
| **Postgres load**: `ingest/postgres/source.py`, `ingest/run_postgres.py` | Bronze files | one load per run | RDS through the ingress, dlt |
| **dbt build**: `transform-build.yml`, `transform/` | one Parquet file per model, overwritten in place | models and checks in DAG order | Bronze, Silver, Gold |
| **Silver and Gold SQL**: `transform/models/` | none; pure | one query per model | each other through `ref()` |
| Infrastructure, seed schema, pull-request checks | Terraform state, DDL | declarative | AWS |

Interactions. The postgres job calls `sweep`, `open`, its load and `close`; the
janitor calls `sweep` on its own clock, and both act on the same group. All
three jobs write ledger records with the identity GitHub gives them. A load
becomes visible to builds when dlt writes its ledger row; a build asks for the
latest such row once per staging model. Nothing but the concurrency groups
(`ingest-bronze`, `transform-build`, `sg-janitor`) orders the jobs.

What is hard: runners that vanish between two steps; calls to AWS that take
effect although the caller sees an error; snapshots of the group, of FPL's flags
or of the load ledger that are stale when used; two jobs and all re-runs under
one run id; loads that commit in the middle of a build; checks that run after
the file they judge is published. PROJECT.json lists each hazard at its line.

What makes each component correct:

- ingress: a load keeps its rule; rules are not accumulated; orphans are
  closed in the end;
- ledger: records are never overwritten and say what happened; an unpaired
  start means a lost runner;
- loads and builds: nothing partial is ever selected; a green build is one
  snapshot; failed, killed and overtaken builds heal;
- gameweeks: whatever can still move is fetched again until it cannot;
- Postgres load: every snapshot is full, tables are not mixed in Bronze, and
  the exit code and the row count tell what happened;
- Gold SQL: a number means what its column says in every phase of a season, and
  the singular tests find the mistakes they are written for.

## 2. Plan

| Order | Module | Status |
|---|---|---|
| 1 | `SgIngress`, with the abstract `IngressLease` | written, checked, proved |
| 2 | `RunLedger` | written, checked, safety proved |
| 3 | `SnapshotBuild` (loads and dbt builds composed over the lake), with the abstract `AtomicLake` | written, checked, safety proved |
| 4 | `GameweekPoll` | written, checked, safety proved |
| 5 | `PostgresLoad`: reflection, reads and append of tables, the early return, the metrics | written, checked, safety proved |
| 6 | `FplSeason` and `GoldMarts`: the four Gold models that compute something and their tests, in every state of a season | written, checked, proved |
| 7 | `LedgerRecord`: `load_metrics`, `sanitise`, run identity off a runner, and how Silver would pair the records | later |

Abstract specifications: `IngressLease`, implemented by `SgIngress`, and
`AtomicLake`, implemented by `SnapshotBuild` for readers who wait for green
builds. A ledger as a set of finished runs would add nothing to
`RecordsAreNeverRewritten` and `FinishTellsTheOutcome`, which say that a name is
written once and what is written under it.

Section 6 lists the theorems. Every safety and action property of the passing
runs is proved; what is left is `LedgerRecord`.

## 3. Modules and their correspondence to the code

PROJECT.json's `map` names the lines of every definition. Definitions marked
`(mutant)` are deliberate mistakes: each property is shown to be able to fail by
replacing one definition by such a mistake.

**`SgIngress`.** Processes are the attempts of ingest runs, `<<run, attempt>>`,
and the janitor; `pc` is the step each is at. A job attempt authorizes at most
one rule, so a rule is named by the attempt that created it; the run id it is
stamped with is the first component. `ingress` is the security group, `ruleFile`
the id on the runner's disk, `todo`, `target` and `failed` the variables of
`cmd_sweep`'s loop, `status` and `attempt` GitHub's bookkeeping. `List` is the
one describe call, `Examine` one row with its `gh run view`, `RevokeOrphan` the
revoke, which may succeed, fail, or take effect and report an error; `EndSweep`
is the final `[ "$failed" -eq 0 ] || die`. `OpenUnrecorded` is an authorize
whose response never reaches the rule file. `Abort` covers failing, cancelled
and timed-out steps, after which the `always()` steps run; `Kill` is a runner
that vanishes, after which they do not. `Trigger`, `PickUp` and `CompleteRun`
are GitHub, and `Admit` is the concurrency group with its one waiting slot.

**`IngressLease`** is the promise without sweeps or API calls: a lease in use is
not taken away, at most one is in use, what is left behind is reclaimed.
`SgIngress` maps a job before its open to `free`, a job that loads or still has
its id to close to `held`, and any other to `ended`.

**`RunLedger`.** Jobs are records `[run, attempt, kind]`. `ledger` maps a record
key and event to the record there. `Put` is `write_record`: credentials and the
bucket variable must be there, the CLI may fail, or report an error for a write
that took place. `StepFails` goes on at the first `always()` step of the job's
kind; `Revoke` and `Summarise` may change `job.status` before `RecordFinish`
reads it. `Load` is an exit code of 0, which dbt also gives to a run that skipped
every model (`Exits`): that nothing landed then has to be noticed by `Summarise`,
which asserts the artifact `Reports` left. Whether a dbt that skips everything
leaves that artifact is dbt's business and a constant, `SkipLeavesResults`. Of a record only status, attempt and the presence of metrics are kept.

**`SnapshotBuild`.** The lake and both of its writers. `files[l]` are the tables
a load has written, `payload[l]` those the API had rows for, `loadState` its
`_dlt_loads` row. `rows[m]` are the loads whose rows the published file of model
m holds, `resolved[s]` the load a staging model selected. A staging model is two
steps, for its query lists twice: `ListFiles`, the table's files in the FROM, and
`RunStaging`, which asks dlt's ledger for `LatestCompletedLoad` in the subquery of
the WHERE and overwrites the model's file with what it listed of that load; loads
write and commit in between. A Gold
model joins the published files of its parents. `Gates(m)` is dbt's rule for
test edges: a check holds back a model only if all the models it reads are
upstream of it. So the snapshot test, which reads all of Silver, holds back no
Gold model. The snapshot test's verdict is computed by its SQL; the verdict of
any other check depends on data the model leaves out and may be either.

**`AtomicLake`** is what a reader may rely on who only reads between builds, and
only while the last one was green: loads commit in order, and an update either
shows one committed load, no older than any that was committed when it began, or
is not to be read. `SnapshotBuild` maps `done` to the committed loads, `sound` to
"idle after a green build", `view` to the loads of all published rows then. It
promises nothing to a reader who does not wait (findings 3 and 4).

**`GameweekPoll`.** FPL's flags and points, external and as `gameweeks.py`
describes them, and the run: `ResolveGameweeks` reads the flags and selects,
`FetchLive` reads one gameweek as it is by then, `CommitRun` is dlt's commit.
`ResolveBlind` is `--backfill`, and also the selection of a run whose
bootstrap answer has no events.

**`PostgresLoad`.** The database and the run that copies it. A table is
`<<schema, name>>`, both as the sequences of words between their underscores, so
that `bronze_table_name` is concatenation and the collisions of a flat name space
are possible (`app` and `x_y` against `app_x` and `y`). `Insert`, `Delete`,
`CreateTable` and `DropTable` are the application and its migrations, at any
moment of a run; rows are numbered along the column a cursor would watch, and
may appear in any order. `Reflect` takes one schema's tables, `Extract` reads
one table in one statement, `Commit` is dlt's load, `Report` is
`run_metrics.report`, which swallows an unwritable file; `NothingToLoad` is the
early return, whose own write of the metrics is not guarded. `BreakOff` is a
failure that Python sees, `Die` one it does not, the commit included or not.
`standing` and `outlived` are history: rows there since the run began, and those
that stood through a load that committed.

**`FplSeason`** is FPL, external: the calendar, matches, postponements, prices and
departures, as the comments of the models describe them. A state is what one
snapshot of the lake can hold.

**`GoldMarts`** defines the models as operators on such a state, under the
columns' names: `fct_team_fixture` (both branches of the union, `Slipped` with
one column of one branch copied from the other), `mart_team_fixture_run`
(`Grid`, `Matches`, `Frame` by counting rows, `Outlook`), `mart_player_value`
(`planning_gameweek`, `points_are_prior_season`) and `mart_position_scarcity`
(`CheapestFill`, `MartPositions` for the inner join, the rows with their budget
columns), with `assert_fixture_sides_balance` and
`assert_minimum_squad_fits_budget`. Prices and budget are integers, in tenths of a
million; the code adds and compares them as DOUBLEs. Two sums that differ do so by
0.005 or more, which no rounding hides, but where they are equal a rounded one may
be on either side: `Exceeds` takes that side as a parameter, and what is claimed of
the test is claimed for both. NULL is a
value of its own; SQL's rules for it are written out where they matter (sums
skip it, a join on it finds nothing, a minimum of nothing is NULL). The
references they are checked against read the season directly: `Ahead`,
`LegalSquads`.

How they compose. `SnapshotBuild` decides which load each model reads and when it
is published; `GoldMarts` says what a model computes from one snapshot;
`SgIngress` and `RunLedger` hold the steps around `PostgresLoad`'s run, which they
see as one step that may fail.

## 4. Runs

`tlc -config X.cfg M` for each; all finish in under a minute but `sg_live`, which
takes about two.

| Run | Module, config | Expect | Shows |
|---|---|---|---|
| `sg_safe` | MCSgIngress, SgIngressSafety | pass | 2 runs x 2 attempts, 2 addresses, preempted janitor, gh answering: no live job loses its rule; two rules only after a re-run; the lease is implemented |
| `sg_live` | MCSgIngress, SgIngressLiveness | pass | every orphan is revoked, though gh may fail, AWS errs and a janitor is cancelled in its loop |
| `sg_rerun` | MCSgIngress, SgIngressRerun | violation | finding 1 |
| `ledger` | MCRunLedger, RunLedger | pass | both jobs of a run, a re-run, a transform build that may skip every model |
| `ledger_revoke` | MCRunLedger, RunLedgerRevoke | violation | finding 2 |
| `build` | MCSnapshotBuild, SnapshotBuild | pass | builds against two loads, two faults, a missing collection; the atomic lake is implemented |
| `build_race` | MCSnapshotBuild, SnapshotBuildRace | violation | finding 3 |
| `build_rejected` | MCSnapshotBuild, SnapshotBuildRejected | violation | finding 4 |
| `gameweeks` | GameweekPoll, GameweekPoll | pass | three gameweeks, one lost or blind run |
| `gameweeks_straggler` | GameweekPoll, GameweekPollStraggler | violation | finding 5 |
| `postgres` | MCPostgresLoad, PostgresLoad | pass | the seed tables and one a migration may add under another table's name, two rows, three writes, one fault |
| `gold` | MCGoldMarts, GoldMarts | pass | every snapshot of a three-club season with up to two postponements, price changes or departures |

### Bounds

- Ingress: two runs are needed for one to sweep while the other's rule is
  open, two attempts for a re-run, two addresses for two rules (AWS refuses a
  second rule for one address), one preemption for a janitor that dies in its
  loop. Addresses are symmetric and runs are interchangeable. The liveness
  run keeps one address (recycled) and no symmetry.
- Ledger: `OneWorkflow` keeps the two workflows from interleaving: they share
  only the bucket variable, and no property relates records of both.
  `SkipLeavesResults` is FALSE, what `transform-build.yml:130` counts on.
- Builds: two loads give a commit between two models and a dead load before or
  after a committed one; two faults give a killed build after a failed one. The
  corner of the DAG has a check that gates a mart (relationships), one that gates
  nothing because it reads the mart itself, and one that gates nothing because
  it reads too much (the snapshot test).
- Gameweeks: three gameweeks give one that is neither current nor previous; one
  change of the points per gameweek is enough to be stale by.
- Postgres: `MaxWrites` = 3 is enough to insert a row with the higher number and
  the lower one later, to drop both seed tables (the early return), and to add
  the namesake table and write to it. Two rows give an order; one fault a run
  that dies with its commit done. `TraceMayMove` is FALSE, as with the pinned dlt.
- Gold: three clubs and gameweeks with a blank for each club; a postponement and
  a new date make a double gameweek, two of them a triple. The horizon of two
  runs off the end of the season. Two results are enough to be asymmetric or
  drawn. Three forwards for two places and one player per club: the cheapest fill
  is not legal at first, one departure puts the floor exactly on the 85% line,
  where the rounding decides, price changes put it on either side, and two
  departures empty a position or leave it one player short. `CHECK_DEADLOCK` is FALSE because a season ends.

TLC does not explore: more than one rule per attempt (the script opens once),
builds of a maintainer's machine beside the workflow, loads outside the
concurrency group.

### Fairness

- `SgIngress!Fairness`: jobs and runs end (`timeout-minutes`), the waiting run is
  admitted, the janitor's cron recurs. Strong fairness on the janitor's `List`
  and on its successful revokes says that AWS errors are transient: a call
  repeated for ever succeeds some time. A sweep may still die any number of
  times, and each run may choose any answer from gh.
- `SnapshotBuild!Fairness`: the build's cron recurs, and a build that runs
  gets somewhere or ends. Nothing is assumed of loads, and faults are
  finitely many.
- `PostgresLoad!FairSpec`: the cron recurs and a run that is not broken off gets
  on. The application does nothing it must; writes and faults are finitely many.
- `GameweekPoll!FairSpec`: the ingest's cron recurs and a run gets on; lost runs
  are finitely many. Nothing is assumed of FPL.

## 5. Findings

Each is a run that expects a violation and quotes the sentence it contradicts.

1. A re-run takes the orphan of its earlier attempt for its own rule and opens
   a second one (ADR-0021 promises one). What does hold is proved:
   `OneIngressButForReruns`.
2. A failed revoke does not fail the step, so the ledger says success
   (`ingest-bronze.yml:310-313` says the opposite).
3. A load that commits during a build puts two snapshots into one Gold table.
   The snapshot test turns the build red afterwards and holds nothing back. What
   does hold: a green build is one snapshot.
4. A mart's own tests run after it is published.
5. A straggler that is corrected and settled between two runs is never fetched
   again: the reasoning the code gives for `is_previous` applies to stragglers
   as well.

Also seen, each a contradiction between the code and what the repository says of it,
without a run of its own. No property is stated so as to pass over one of them
silently; where what does hold is a property or a theorem, it is named.

- Two listings. A load that writes a table and commits between the two listings of
  one staging query is selected while its file is not among those read: the model
  is published empty, where `bronze.sql:20` promises every row of one load and
  `transform-build.yml:26` that correctness does not depend on winning the race.
  The snapshot test compares the rows there are, so the build may end green. What
  does hold, `SilverIsNeverPartial`: nothing of another load is published, and a
  load that had committed before the build began is read in full; and a later build
  without such a race repairs the gap (`SelfCorrects`).
- With `GhMayFail` set the janitor can revoke the rule of a live job. The script's
  comment (`sg-ephemeral.sh:122-124`) accepts that; `docs/runbooks/orphaned-sg-rule.md:59-60`
  says it "cannot revoke a rule a live run is using". With a gh that answers it
  cannot, which is proved.
- `assert_fixture_sides_balance.sql:3-8` names "`home_score` left in place" among
  the slips only it would catch. In the second branch that slip is in `goals_for`
  of the away side, which the test never reads (line 64 compares the other direction
  only); nor does it read `goals_against` of the home side. TLAPS proves that these
  two are the only slips that pass (`OnlyUnreadGoalsPass`), and that the table as it
  is written agrees in both directions (`DugoutsAgree`).
- `mart_player_value.sql:56-58` calls minutes without a finished gameweek "proof the
  totals predate the season", and `transform/README.md` says this cannot happen
  inside one season. From the first match to the end of the first gameweek it does,
  and the flag then says prior season of this season's points. What does hold: last
  season's totals are never shown without the label, and zeroed ones never with it
  (`PriorTotalsAreFlagged`). The exception is proved to be the only one
  (`FlagsAreRightButForTheFirstGameweek`).
- `mart_player_value.sql:44-45` has the planning gameweek "true in every phase of
  the season, including the last gameweek, where it is GW38 and stays there". Once
  the last gameweek is finished the minimum over unfinished ones is NULL, and the
  not_null test of the column fails every build from then on.
- `assert_minimum_squad_fits_budget.sql:48` says "a legal squad is buyable". The test
  notices a position in which nobody can be bought (`EmptiedPositionsAreNoticed`)
  but not one with fewer players than a squad needs: the fill is then the sum of
  those there are, which is cheaper, and the slots still add up.
- The snapshot test passes over a model without rows, so a green build may have
  read one table that is empty from another load.
- `Summarise the run` tests that `run_results.json` is there, and only warns of
  nodes that were not built. Should a dbt that skips every model leave the file, the
  job is green with nothing landed (`SkipLeavesResults`).
- A staging model lists its table a third time while it is compiled, for its
  columns (`bronze_columns`). Columns are not modelled.
- While a gameweek is being played the planning gameweek is that one, whose
  deadline has passed. `OutlookIsAhead` is therefore claimed between gameweeks.
- `mart_position_scarcity.sql:152-154` calls the minimum squad "the cheapest legal
  squad in the game"; lines 34-38 of the same file say why it is only a bound.
- `run_postgres.py:130` writes the metrics of an empty load outside `report`'s
  guard: an unwritable file makes red a run that lines 123-125 want green.
- With a dlt whose trace has moved, `table_row_counts` gives no tables, and the
  ledger reads `rows_processed` 0 rather than null for a load that wrote rows.
- `postgres_source` returns resources that keep their reflected names, so two
  schemas with a table of one name meet in one dlt source; what 1.29.1 does with
  them is left open in the model (an error, or both kept).

## 6. Proofs

Checked by TLAPS, for every value of the constants that the named assumptions
(`BoundsAssumption`, `JobsAssumption`, `NoRecordAssumption`, `SkipAssumption`, `NodesAssumption`,
`ChecksAssumption`, `TablesAssumption`, `RowsAssumption`, `FlagAssumption`,
`NoneAssumption`, `CardAssumption`, `MarketAssumption`, `NullAssumption`,
`RulesAssumption`) allow. TLC evaluates these assumptions in every passing run.
Where a sum is taken they include that there are finitely many fixtures, players
and positions, and that player ids are numbers, which `row_number()` breaks ties
by.

`SgIngress_proofs`:

- `TypeCorrect`, `RunsStayInOrder`, `RulesAlwaysHaveOpeners`, `SweepsCover`: the
  layers of the inductive invariant, each using the ones before it.
- `OneIngress`: `Spec => []OneIngressButForReruns`. The property is not
  inductive: that a job may open needs `SweepCovers` (past a sweep that did not
  fail, every rule left belongs to a superseded attempt), which needs that a
  sweep's remaining rows and target cover every other open rule, which needs
  `RunsInOrder` (no other job opens meanwhile).
- `LoadsKeepTheirIngress`: assuming gh answers, `[]LoadKeepsItsIngress`, through
  `VerdictsLast`: a job judged orphaned has stopped and never resumes.
- `IngressImplementsLease`: under the same assumption, `Spec => ImplementsLease`.

`IngressLease_proofs`: `LeaseIsSafe`, what an implementation of the lease gets
from it.

`RunLedger_proofs`: the inductive invariant adds to the types that nothing is
recorded before its step (`NotYetRecorded`), that the status written is the
final one (`FinishIsFinal`), that no job has left a report before its load
(`NoEarlyReport`), that between the load and the summary a job has landed its data
or lacks the artifact (`LandedOrCaught`), that past the summary only a job that
landed its data is successful (`SuccessHasLanded`) and that a job which is done has
tried to write its finish (`DoneHasTried`). All five properties of the run `ledger`
follow, `RecordsAreNeverRewritten` with `RunKeyIsUnique`: two job attempts never
share a run key. `FinishIsTruthful` and `GreenHasLanded` assume
`~SkipLeavesResults`, what the workflow's own comment counts on; without it the
exit code is all there is, and they are false.

`SnapshotBuild_proofs`: the five safety properties hold only together.
`GreenIsOneSnapshot` needs that a verdict of the snapshot test stays true until
the build ends (`SnapshotVerdict`: a model it compares runs once, before it) and
that the rows of every Gold model of the build are rows of staging models of the
same build (`GoldFromSilver`, which in turn needs that no parent is left over
from an earlier build). `SilverIsNeverPartial` needs that a committed load has
written every table it had rows for (`CommittedIsWhole`), and that what a model
listed is still there, with everything that was committed when the build started
among it (`ListingsStand`). `RunIInv` is the step
common to staging and Gold models; it holds for any DAG described by `Upstream`.
`BuildImplementsAtomicLake` maps every step: a commit is `Commit`, which needs
that loads never run beside each other (`LoadsAreSerial`), the end of a green
build is `Publish`, which needs `GreenIsOneSnapshot` in the state after it and
`FreshAsOfStart` in the state before, and everything a build does in between is
hidden. `ReadersAreSafe` is what follows from the abstract specification.

`GameweekPoll_proofs`: the selection stands on the flags as they were
(`SelectionStands`), deadlines pass in order (`EarlierAreFinished`), and what is
committed is not newer than what is being fetched, nor that than FPL
(`ObservationsAreOrdered`).

`PostgresLoad_proofs`: `BronzeNamesAreDistinct` needs that no schema name begins
another (`TablesAssumption`; the default schemas `app` and `ops` do not); that
tables stay apart follows. Full snapshots need that every standing row is either
read already or in a table that is still to be reflected or read
(`NothingIsOverlooked`), which needs that a standing row is really in its table
(`StandingRows`). `ReportsAreTrue` counts rows, so it needs that the copy is
finite, and it assumes a readable trace.

`SumTheorems` holds the laws of sums over finite sets that the marts need. A sum
is a fold, a recursive function on the subsets of its set, so even that a sum of
integers is an integer takes an induction. It is carried out without an
induction theorem over operators: the sets for which a claim fails are collected
into a set, a least one is picked (`MinimalFiniteSet`, from the well-foundedness
of strict inclusion on finite sets), and taking an element out of it gives the
contradiction. The recursion is shown to have one solution (`SolutionExists`,
`SolutionsAgree`), then that the order of its elements does not matter
(`SumTakesOut`); the other laws follow by `SubsetInduction`.

`GoldMarts_proofs`: `SeasonsRunInOrder` is the inductive invariant about FPL that
the marts rely on; the label of the player mart and the agreement of the two
rows of a fixture follow from it. `OnlyUnreadGoalsPass` is proved column by column:
one fixture passes a slip exactly if the slip makes no difference to it or falls
on goals the test does not read.

- The outlook. `FramesAreGameweeks` counts the rows of the grid (`GridRows`), for
  every horizon and length of season. The gameweeks of a frame cut a team's
  matches into disjoint parts, so the sums over its rows are the counts and the
  difficulty of all of them (`FixturesOfFrame`, `HomeFixturesOfFrame`,
  `DifficultyOfFrame`, where NULLs of blank gameweeks are skipped and a frame
  without a match is NULL): `HorizonsAreTheNextGameweeks`. That these are matches
  still to be played (`OutlooksAreAhead`) needs two more invariants of the
  season, that nothing to be played is dated in a gameweek that is over
  (`NothingLeftBehind`) and that what has kicked off is dated in one whose
  deadline has passed (`PlayedIsPast`).
- The price floor. Row numbers grow along the order of price and id and none is
  given twice (`RanksGrow`), so the first k rows are k players
  (`FirstAreAsMany`), and no k players of a position are cheaper: whoever is in
  one set only can be exchanged (`FirstAreCheapest`). A squad costs what its
  positions cost (`CostByPosition`), hence `FloorsAreRight`. Every row of the mart
  carries the sum over all rows, so the test comes down to the 85% and the slots
  (`WhatTheTestAsks`), hence `AffordableSquadsAreAccepted`, for either rounding. `EmptiedPositionsFailTheTest` needs that a sum
  of positive numbers misses what is left out of it (`SumOfProperPart`).

Only model-checked: liveness (`OrphansAreRevoked`, `SelfCorrects`,
`SettledPointsArrive`, `StableRowsArrive`), since fairness and ENABLED are out of
the prover's reach. The properties of the runs that expect a violation do not
hold.

## 7. Not modelled

Terraform and IAM, the column constraints of the seed schema and the pull-request
checks have no behaviour these tools add to. Of the Gold SQL the averages, ranks,
distributions and display strings are left out, as are the staging models' renames
and casts; `assert_squad_rules_agree` and `assert_optional_columns_are_typed`
compare constants and types. Of the loads, paging, retries inside dlt and boto,
column types and formats are left out, and the text of a `--backfill` spec: the
poll model starts from the gameweeks it names. Secrets and logging are left out.
