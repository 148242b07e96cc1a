SPECIFICATION Spec
CONSTANTS
    MaxSockets = 3
    MaxDrills = 1
INVARIANTS
    LoginGuarded
