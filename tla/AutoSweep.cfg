CONSTANTS
    Catalog <- MC_Catalog
    CreateId <- MC_CreateId
    MaxWallets <- MC_MaxWallets
SPECIFICATION Spec
INVARIANTS TypeOK EachActivityOnce
PROPERTIES SweepFinishes
\* run_auto_mode returns once every wallet is swept.
CHECK_DEADLOCK FALSE
