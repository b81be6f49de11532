\* Every route, every pair of credentials of two merchants, every outcome of
\* the handler, at every run.
SPECIFICATION FairSpec
CONSTANTS
    Merchants = {m1, m2}
    None = None
INVARIANTS
    TypeOK
    LogMatchesReply
    ServedToCredential
PROPERTIES
    AnsweredOnce
    Answered
