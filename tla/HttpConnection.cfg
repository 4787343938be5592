SPECIFICATION FairSpec
CONSTANTS
  Dialogues <- MCDialogues
  buffer_size = 36
  max_body_size = 2
  UrlOffsets = 6
  ULLONG_MAX = 99
  HTTP_MAX_HEADER_SIZE = 80
CHECK_DEADLOCK FALSE
INVARIANTS
  HandlerSeesWhatWasSent
  NeverKeptAgainstTheClient
  SurplusAnswerIsTheLast
PROPERTIES
  RequestsAreAnswered
