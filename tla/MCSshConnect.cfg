\* Two processes sharing the file, every policy.
SPECIFICATION Spec
CONSTANTS
  p1 = p1
  p2 = p2
  Procs <- Two
  ed = ed
  rsa = rsa
  NoKey = NoKey
  Keys <- MCKeys
  TypeOf <- MCTypeOf
  Modes <- MCModes
  Login <- MCLogin
  UserLines <- MCUserLines
  MaxLines = 2
  MaxJobs = 1
  MaxEdits = 1
SYMMETRY Alike
INVARIANTS
  PasswordOnlyToTrusted
  AcceptedIsRecorded
  RecordedHostNotRefused
PROPERTIES
  LinesSurvive
