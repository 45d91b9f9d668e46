\* Mixed texts in three payloads, two windows in one forward pass; samples and
\* variants of every built-in entity in payloads of one column.
SPECIFICATION Spec
CONSTANTS
  Size = 6
  Payloads <- MCPayloads
  Texts <- MCTexts
  Words <- MCWords
  Selections <- MCSelections
  Batch = 2
INVARIANTS
  ContextIsKeyPath
  EveryLeafJudged
  KeywordsSuffice
  MisprintsRejected
