\* Two calls, of every kind, on each of the five chips.
CONSTANTS
  MaxCalls = 2
  FirstSizes = {4, 16}
  OtherSizes = {0, 1, 2}
SPECIFICATION Spec
INVARIANTS
  RegistersKept
  
  SettingsReadBack
