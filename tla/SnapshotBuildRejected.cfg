SPECIFICATION Spec
CONSTANTS
    Staging <- MCStaging
    Gold <- MCGold
    LedgerModel = "loads"
    Reads <- MCReads
    Upstream <- MCUpstream
    Checks <- MCChecks
    Covers <- MCCovers
    SnapshotCheck = "one_snapshot"
    MayOmit = {"fixtures"}
    MaxLoad = 2
    MaxFaults = 2
INVARIANTS RejectedMartIsNotPublished
