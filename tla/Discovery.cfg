SPECIFICATION FairSpec
CONSTANTS
    Guid = {srv, n1, n2}
    m_guid = srv
    Thread = {t1, t2}
    NoThread = NoThread
INVARIANTS
    TypeOK
    AnnouncedAtMostOnce
    KnownIsRecorded
    Serialized
    RecordedIsAnnounced
PROPERTIES
    ImplementsRegistry
    LockReleased
