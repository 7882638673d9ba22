SPECIFICATION FairSpec
CONSTANTS
  Tables <- TablesDef
  Seed <- SeedDef
  Schemas <- SchemasDef
  Rows = {1, 2}
  MaxWrites = 3
  MaxFaults = 1
  TraceMayMove = FALSE
  None = None
INVARIANTS TypeOK RowsThatOutliveALoadAreKept BronzeTablesAreNotMixed 
PROPERTY StableRowsArrive
