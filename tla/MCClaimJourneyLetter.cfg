CONSTANTS
  None = None
  Processing = Processing
  approve = approve
  refer_to_siu = refer_to_siu
  drafted = drafted
  edited = edited
  Finding = {}
  Decision = {approve, refer_to_siu}
  Siu = refer_to_siu
  Text = {drafted, edited}
  Drafted = drafted
  MaxFaults = 0
  MaxLetters = 2
  MaxVisits = 1
SPECIFICATION Spec
INVARIANTS
  LetterMatchesDecision
CHECK_DEADLOCK FALSE
