SPECIFICATION SlotsSpec
CONSTANTS
  Tasks = {t1, t2, t3, t4}
  MaxLimit = 3
  Writers = {r1, r2}
  Closers = {c1, c2}
  SegmentCount = 2
  MaxLeases = 2
INVARIANTS
  SlotAccounting QueueExact WorkConserving
  LeaseSound
PROPERTIES
  NoOvertaking WaiterServed PromiseSpec
  ClosedSlotReturns
CHECK_DEADLOCK FALSE
