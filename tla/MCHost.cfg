SPECIFICATION Spec
INVARIANTS SettingsSafe SupervisedSafe VpnSafe
PROPERTY HostSteps
