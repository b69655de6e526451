\* Every backend, two calls, one lost answer.
SPECIFICATION Spec
CONSTANTS
    Mails <- MCMails
    Events <- MCEvents
    Backends = {"ses", "azure_acs", "smtp", "sns", "azure_eventgrid"}
    snsBatchLimit = 2
    MaxCalls = 2
    MaxLost = 1
    NoMail = NoMail
INVARIANTS
    TypeOK
    NilMeansSent
    OncePerCall
    StopsAtFailure
    AllRecipientsOrNone
    RawErrorMeansSent
    MailBodyWhole
    MailHeadersOnce
CHECK_DEADLOCK FALSE
