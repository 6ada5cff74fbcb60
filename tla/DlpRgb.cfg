SPECIFICATION FairSpec
CONSTANTS
    U8 = 5
    Lamps = 2
    XtrigBoot = 5
    ToutBoot = 7
    SyncDlp <- MCSyncDlp
    SyncRgb <- MCSyncRgb
    MaxXtrig = 6
    MaxTout = 1
INVARIANTS
    LitLampIsTimed NoLampBeforeEnable LinkageListens
PROPERTIES LampsInSequence LampGoesOut WakeUpServed
