CONSTANTS
    Envs = {e1, e2}
    Callbacks = {"f", "g"}
    Apps <- LiveApps
    AppToken = "system_app"
    MaxOns = 2
SPECIFICATION FairSpec
CHECK_DEADLOCK FALSE
PROPERTY EventsArrive
