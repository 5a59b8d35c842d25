SPECIFICATION Spec
CONSTANTS Versions = {1, 2}
          Locks = {3}
          Hosts = {h1, h2}
          Apns = {apn}
          QCA1530 = TRUE
          MaxOps = 2
          MaxRestarts = 1
INVARIANTS SettingsArrive NothingStale CapabilitiesTold
SYMMETRY Interchangeable
CHECK_DEADLOCK FALSE
