SPECIFICATION SceneSpec
CONSTANTS
  Tasks = {t1, t2}
  NumAccounts = 2
  Slots = 2
  Quotas = {0, 2}
  Sizes = {1, 3}
  Charges = {0, 3}
  MaxDays = 2
  MaxUsed = 2
  MaxChanges = 1
  MaxRestarts = 1
INVARIANTS BudgetSound
PROPERTIES WakesForQuota
CHECK_DEADLOCK FALSE
