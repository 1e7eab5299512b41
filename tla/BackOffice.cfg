CONSTANTS
  Client = {a1, a2}
  OTP_CODE_TTL = 1
  OTP_RESEND_COOLDOWN = 1
  OTP_MAX_ATTEMPTS = 2
  MAX_RESENDS = 1
  LOCKOUT = 1
  RESET_WINDOW = 1
  MaxClock = 2
  MaxCodes = 2
  MaxTokens = 1
  Called = {"pay_init", "qr_generate", "invoice_status", "card_token_request", "card_token_payment"}
SPECIFICATION BackOfficeSpec
INVARIANTS
  GuessesCount OneResetPerCode OnlyRacedTokensSurvive
  AnswerTellsEffect
PROPERTIES
  ProbesTellTheTruth
SYMMETRY SameClients
CHECK_DEADLOCK FALSE
