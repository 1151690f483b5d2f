\* The answers to one subframe come at its end or that of the next one, so a
\* block is answered two or three subframes after it was planned.  It is sent
\* twice, and the second answer may come before its timer ends it or after;
\* three symbols let the mask split an allocation in three, of which the last
\* two slots may be void.
CONSTANTS
    LookAhead = 1
    AnswerDelay = 1
    HarqTimeout = 4
    MaxRv = 1
    DataSymbols = 3
    MaxTbs = 3
SPECIFICATION Spec
INVARIANTS TypeOK NoAssertionFails StopAndWait TransmissionsAreCounted
PROPERTIES AckedIsNotSentAgain ProcessesComeFree
