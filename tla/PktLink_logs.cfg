\* Two log records, one after the other, and the failures of the network and the LCD
\* but a failing send, a late timer and the wish to reset the LCD.
CONSTANTS
  PAY = PAY
  RECEIPT = RECEIPT
  QR = QR
  LANE = LANE
  NONE = NONE
  CONFIG = CONFIG
  RST_REQ = RST_REQ
  r1 = r1
  r2 = r2
  c1 = c1
  c2 = c2
  id1 = id1
  id2 = id2
  Kinds <- PayThenQr
  Recs = {r1, r2}
  KindOf <- PayAndQr
  IdOf <- OwnIds
  Cmds = {}
  snd_rtry_cnt = 1
  rcv_rtry_cnt = 0
  rsnd_rtry_ov = FALSE
  kpalv_snd_intvl = 1
  kpalv_rtry_cnt = 0
  SENT_MAX = 2
  Late = {}
  Faults = {"break", "refuse", "nosocket", "nak", "forced", "silent", "ng", "garble"}
  MAX_FAULTS = 2
SPECIFICATION Spec
INVARIANTS TypeOK NeverStalls AnswerSettlesIt AckIsItsOwn LogKept
