SPECIFICATION Spec
CONSTANTS
  Task = {t1}
  Command = {"ON", "OFF"}
  MaxToSu = 1
  MaxToCu = 2
INVARIANTS
  AnswerInv
  OnlyLossTimesOut
  RunningIsBelieved
