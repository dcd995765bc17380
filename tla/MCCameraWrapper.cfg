\* two openings: one that fails or is closed, and the next
CONSTANTS
    Vendors <- MCVendors
    MaxOpens = 2
SPECIFICATION Spec
INVARIANTS HandleIsBacked SettingsSurvive SpecialValuesAreListed NeverNull
