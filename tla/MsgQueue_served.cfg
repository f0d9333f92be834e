\* Two interrupt levels over a task that keeps up to two messages; every mailbox has a running task.
CONSTANTS
    OPETCBNO = OPETCBNO
    CANTCBNO = CANTCBNO
    timeout = timeout
    ftpRecv = ftpRecv
    NoBox = NoBox
    POOL = POOL
    Boxes = {OPETCBNO, CANTCBNO}
    Served = {OPETCBNO, CANTCBNO}
    EventDriven = {CANTCBNO}
    REMOTEDLTCBNO = OPETCBNO
    Msgs = {timeout, ftpRecv}
    FTPMSG = {ftpRecv}
    MSGBUF_CNT = 3
    UCHAR_MOD = 3
    MAX_NEST = 2
    MAX_HOLD = 2
    Load = 2
SPECIFICATION Spec
PROPERTY ServedIsReceived
CHECK_DEADLOCK TRUE
