CONSTANTS
  Handlers = {h1, h2}
  Commands = {c1, c2}
  MaxAttempts = 2
  MaxSubmissions = 2
  MaxRepeats = 1
  MaxKeys = 2
SPECIFICATION Spec
SYMMETRY Symmetry
CONSTRAINT Focus
CHECK_DEADLOCK FALSE
INVARIANTS TypeOK VerdictKept CertificateOfRequest
