CONSTANTS
  Hosts = {h1, h2}
  Formats = {"jsonl", "json"}
  MaxRuns = 3
SPECIFICATION Spec
SYMMETRY Symmetric
INVARIANT TypeOK
INVARIANT RerunIsExact
INVARIANT FinishedIsOnDisk
INVARIANT ExitCodesTell
