SPECIFICATION FairSpec
CONSTANTS
    s1 = s1
    f1 = f1
    f2 = f2
    f3 = f3
    Snapshots = {s1}
    Names = {f1, f2, f3}
    NoFile = NoFile
    MaxFaults = 2
INVARIANTS
    TypeOK
    RecordedFileDeleted
    FilesNeedFinalizer
PROPERTIES
    RecordedFileKept
    EventuallyRecorded
    SnapshotDeletionCompletes
CHECK_DEADLOCK FALSE
