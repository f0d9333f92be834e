\* Pool of four, at most three messages outstanding, one interrupt level.
CONSTANTS
    OPETCBNO = OPETCBNO
    CANTCBNO = CANTCBNO
    timeout = timeout
    ftpRecv = ftpRecv
    NoBox = NoBox
    POOL = POOL
    Boxes = {OPETCBNO, CANTCBNO}
    Served = {OPETCBNO, CANTCBNO}
    EventDriven = {CANTCBNO}
    REMOTEDLTCBNO = OPETCBNO
    Msgs = {timeout, ftpRecv}
    FTPMSG = {ftpRecv}
    MSGBUF_CNT = 4
    UCHAR_MOD = 3
    MAX_NEST = 1
    MAX_HOLD = 1
    Load = 3
SPECIFICATION Spec
INVARIANTS TypeOK ListsSound EventTellsMail OneOwner
PROPERTY ImplementsMailbox
CHECK_DEADLOCK TRUE
