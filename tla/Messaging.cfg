\* Concurrent retries, reused keys, late reads and archiving over two conversations.
SPECIFICATION Spec
CONSTANTS
    Actor = {ann, bob}
    Reader = {ann}
    Key = {k1}
    Text = {t1, t2}
    Handler = {h1, h2}
    NoHandler = NoHandler
    Conversations = 2
    MaxMessages = 2
SYMMETRY Symmetry
INVARIANTS
    TypeOK WriteMeetsNoOther AcceptedIsStored SomebodyRuns
PROPERTIES LogKept
