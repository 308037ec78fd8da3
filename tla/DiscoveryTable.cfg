SPECIFICATION Spec
CONSTANTS
    Guid = {srv, n1}
    m_guid = srv
    Thread = {t1}
    NoThread = NoThread
INVARIANTS
    OpenHasTable
