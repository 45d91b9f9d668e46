\* Three spans over a leaf of three characters: chains of overlaps in which a
\* span evicts another before it loses itself, ties, and spans of the model
\* against spans of the patterns.
SPECIFICATION Spec
CONSTANTS
  Length = 4
  Chars <- MCChars
  RegexEntities = {email, phone}
  NerEntities = {person}
  Scores = {1, 3}
  MaxScore = 4
  Floor = 2
  Boost = 1
  NerThreshold = 3
  Placeholder = 3
  Digest = 6
  Operators = {"replace", "mask", "redact"}
  MaxHits = 3
SYMMETRY EntitySymmetry
INVARIANTS
  SurvivorsApart
  EverySpanApplied
  OffsetsTrackText
