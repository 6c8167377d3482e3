SPECIFICATION Spec
CONSTANTS
    None = None
    Broken = Broken
    t1 = t1
    t2 = t2
    Task = {t1, t2}
    WaveOf <- MCWaveOf
    ReportFile <- MCReportFile
INVARIANTS AllowedEditsAreNotRefused RecoverAgreesWithLint PendingExactlyWhenAcceptable WaitingIsFlagged
PROPERTIES FinishedWavesStay
