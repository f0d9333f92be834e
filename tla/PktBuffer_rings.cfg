\* Texts and notices of the dialogue, notices and configuration requests of the packet task.
CONSTANTS
    OPE = OPE
    PKT = PKT
    text = text
    notice = notice
    restore = restore
    config = config
    text_command = text_command
    SendCmdDt = SendCmdDt
    NoCmd = NoCmd
    Cmds = {text, notice, restore, config}
    Length <- Lengths
    CmdsOf <- BothTasks
    WorkOf <- WorkAreas
    PKT_BUFF_SIZ = 10
    PKT_RSND_BUFF_SIZ = 8
    RETRY = 2
SPECIFICATION Spec
INVARIANTS TypeOK RingsHold
PROPERTIES PacketCanBeResent CallsReturn SetsOwnOrShared
CHECK_DEADLOCK TRUE
