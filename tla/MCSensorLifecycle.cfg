CONSTANTS
    Callers = {c1, c2, c3}
    MaxModules = 3
    MaxFans = 2
SPECIFICATION RegistrySpec
INVARIANTS RegistryTypeOK AliveInFanOut BootModulesTold RegistrationOrder
SYMMETRY Symmetry
CHECK_DEADLOCK FALSE
