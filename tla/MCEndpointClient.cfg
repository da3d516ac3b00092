SPECIFICATION FairSpec
CONSTANTS
  op1 = op1
  op2 = op2
  op3 = op3
  Op = {op1, op2, op3}
  Kind <- MCKind
  DPoP = TRUE
  NonceRequired = {"par", "code", "revoke", "userinfo"}
  MaxNonce = 3
INVARIANTS
  TypeOK
  AnswerIsTrue
  ChallengeIsAnswered
PROPERTIES
  KeepsExchange
  EveryOperationEnds
CHECK_DEADLOCK FALSE
