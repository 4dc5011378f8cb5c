SPECIFICATION FairSpec
CONSTANTS
    Migrators = {"m1", "m2", "m3", "m4"}
INVARIANTS
    SchemaWhole
    ReferencesExist
PROPERTIES
    MigrationsEnd
\* Every call has been made and is over.
CHECK_DEADLOCK FALSE
