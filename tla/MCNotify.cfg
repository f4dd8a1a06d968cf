CONSTANTS
    Handlers = {h1, h2}
    CriticalCap = 2
    NotifyCap = 2
    ReceiptCap = 1
    MaxDrops = 3

SPECIFICATION NotifyFairSpec

INVARIANTS
    OvertakenOnce
    ReceiptsAccounted

PROPERTY HandlersReturn
