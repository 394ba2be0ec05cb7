CONSTANTS
    EthLevels <- MC_EthLevels
    PathLevels <- MC_PathLevels
    PeerLevels <- MC_PeerLevels
    MaxCreated <- MC_MaxCreated
SPECIFICATION Spec
PROPERTIES RecoveryFirst
