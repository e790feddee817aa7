CONSTANTS
    t1 = t1
    t2 = t2
    t3 = t3
    Traces = {t1, t2, t3}
    NoTrace = NoTrace
SPECIFICATION Spec
INVARIANTS
    TypeOK
    PersistedIsDurable
    SerialWrites
PROPERTIES
    SavesEnd
    ImplementsStore
