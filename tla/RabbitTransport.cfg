\* Three losses of a connection or a channel at any time.
CONSTANT MaxDrops = 3
SPECIFICATION Spec
INVARIANTS
    TypeOK
    OneConnection
    ChannelKept
    NothingLeftOpen
PROPERTIES
    PublicationEnds
    ConsumerResumes
CHECK_DEADLOCK FALSE
