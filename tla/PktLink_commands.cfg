\* Two commands; packets are refused or lost, but less often than they are repeated.
CONSTANTS
  PAY = PAY
  RECEIPT = RECEIPT
  QR = QR
  LANE = LANE
  NONE = NONE
  CONFIG = CONFIG
  RST_REQ = RST_REQ
  r1 = r1
  r2 = r2
  c1 = c1
  c2 = c2
  id1 = id1
  id2 = id2
  Kinds <- NoKinds
  Recs = {}
  KindOf <- NoRecords
  IdOf <- NoRecords
  Cmds = {c1, c2}
  snd_rtry_cnt = 2
  rcv_rtry_cnt = 0
  rsnd_rtry_ov = TRUE
  kpalv_snd_intvl = 0
  kpalv_rtry_cnt = 0
  SENT_MAX = 2
  Late = {}
  Faults = {"nak", "silent"}
  MAX_FAULTS = 2
SPECIFICATION Spec
INVARIANTS InOrder CommandKept
PROPERTIES CommandsDelivered
