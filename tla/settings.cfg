SPECIFICATION SettingsSpec
CONSTANTS
    Networks = {n2}
    Half = 1
    Rates = {"44100", "48000"}
    FirstRate = "48000"
    Shapes <- MCShapes
    Cutoffs <- MCCutoffs
    Mix = 1
INVARIANTS SettingsTypeOK SettingsFollow FilterFollows FilteredOnce
