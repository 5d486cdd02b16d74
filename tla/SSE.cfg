CONSTANT
    MaxLines = 6
SPECIFICATION FairSpec
INVARIANTS
    TypeOK
    WholeEvents
    NamesAreLatest
PROPERTIES
    KeepsFramePipe
