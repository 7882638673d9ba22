---------------------------- MODULE MCRunLedger ----------------------------
(* An instance of RunLedger for TLC: the two jobs of one ingest run, the     *)
(* re-run of one of them under the same run id, and a transform build.       *)
EXTENDS RunLedger

IngestRun == "ingest"
BuildRun == "build"

LedgerJobs ==
  {[run |-> IngestRun, attempt |-> 1, kind |-> "fpl"],
   [run |-> IngestRun, attempt |-> 1, kind |-> "postgres"],
   [run |-> IngestRun, attempt |-> 2, kind |-> "postgres"]}

BuildJobs == {[run |-> BuildRun, attempt |-> 1, kind |-> "transform"]}

AllJobs == LedgerJobs \cup BuildJobs

\* The two workflows share nothing but the repository variable, so their
\* interleavings are not explored: one of them runs.
OneWorkflow == \E r \in {IngestRun, BuildRun} :
                 \A j \in AllJobs : j.run = r => pc[j] = "waiting"
=============================================================================
