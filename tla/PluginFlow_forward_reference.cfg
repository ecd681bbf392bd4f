CONSTANTS
  Configs <- MCConfigs
  Entry = "main"
  Data = {d1, d2}
  None = None
SPECIFICATION Spec
INVARIANT ForwardReferences
