CONSTANTS
  None = None
  Processing = Processing
  f1 = f1
  refer_to_siu = refer_to_siu
  drafted = drafted
  edited = edited
  Finding = {f1}
  Decision = {refer_to_siu}
  Siu = refer_to_siu
  Text = {drafted, edited}
  Drafted = drafted
  MaxFaults = 1
  MaxLetters = 2
  MaxVisits = 1
SPECIFICATION Spec
INVARIANTS
  JourneyInOrder
  ConfirmedIsRecorded
  SentOnce
CHECK_DEADLOCK FALSE
