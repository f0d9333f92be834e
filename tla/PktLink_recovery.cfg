\* One log record and every failure, a failing send and a late ACK included: the link comes back.
CONSTANTS
  PAY = PAY
  RECEIPT = RECEIPT
  QR = QR
  LANE = LANE
  NONE = NONE
  CONFIG = CONFIG
  RST_REQ = RST_REQ
  r1 = r1
  r2 = r2
  c1 = c1
  c2 = c2
  id1 = id1
  id2 = id2
  Kinds <- OnlyPay
  Recs = {r1}
  KindOf <- OnePay
  IdOf <- OneId
  Cmds = {}
  snd_rtry_cnt = 0
  rcv_rtry_cnt = 0
  rsnd_rtry_ov = FALSE
  kpalv_snd_intvl = 1
  kpalv_rtry_cnt = 0
  SENT_MAX = 2
  Late <- ResponseTimer
  Faults = {"break", "refuse", "nosocket", "shortsend", "nak", "forced", "silent", "ng", "garble", "reset"}
  MAX_FAULTS = 1
SPECIFICATION Spec
PROPERTIES Recovers LogsDelivered
