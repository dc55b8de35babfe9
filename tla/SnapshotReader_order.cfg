SPECIFICATION ListSpec
CONSTANTS
  c1 = c1  c2 = c2  tagA = tagA  tagB = tagB  None = None
  Ids = {1, 2, 3, 4, 5, 6, 7}
  Kind <- MCKind
  Language <- MCLanguage
  Name <- MCName
  Qualified <- MCQualified
  Artifact <- MCArtifact
  Bundles <- MCBundles
INVARIANT NewestFirst
CHECK_DEADLOCK FALSE
