\* More messages than buffers: the pool runs dry and is corrupted.
CONSTANTS
    OPETCBNO = OPETCBNO
    CANTCBNO = CANTCBNO
    timeout = timeout
    ftpRecv = ftpRecv
    NoBox = NoBox
    POOL = POOL
    Boxes = {OPETCBNO}
    Served = {OPETCBNO}
    EventDriven = {}
    REMOTEDLTCBNO = OPETCBNO
    Msgs = {timeout}
    FTPMSG = {}
    MSGBUF_CNT = 2
    UCHAR_MOD = 2
    MAX_NEST = 1
    MAX_HOLD = 1
    Load = 3
SPECIFICATION Spec
PROPERTY FullLeadsToReset
CHECK_DEADLOCK TRUE
