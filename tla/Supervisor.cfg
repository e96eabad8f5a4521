CONSTANTS
    Services = {"nginx", "admin", "vscode"}
SPECIFICATION FairSpec
INVARIANTS SupervisorTypeOK
PROPERTIES NoneStartedTwice ServicesComeBack ServicesSettle
