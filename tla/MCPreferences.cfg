CONSTANTS
  app = app  on = on  off = off  slot = slot  g1 = g1  g2 = g2
  u1 = u1  u2 = u2
  None = None  Unknown = Unknown  Failed = Failed
  Bundles = {app}
  Compatible = {app}
  Users = {u1, u2}
  Properties = {"enabled"}
  SlotTypes = {slot}
  Groups = {g1}
  Values = {on, off}
  On = on
  Off = off
  DefaultOf <- MCDefaultOf
  MaxGroups = 1
  Faults = {"write"}

SPECIFICATION MCSpec
CHECK_DEADLOCK FALSE
INVARIANTS MemoryIsStore UserSettingsStored
