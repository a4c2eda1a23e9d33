SPECIFICATION MailSpec
CONSTANTS
  MaxPid = 3
  MAX_PACKET_NUM = 2
  PACKET_BUFFER_SIZE = 2
  Byte = {1, 2}
  Messages <- MCMessages
  ReadLens = {0, 1}
INVARIANTS SizeMatches AnswersTruthful
PROPERTY MailFifo
