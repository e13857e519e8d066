\* Loads, decisions and rewrites of the file in any order.
SPECIFICATION Spec
CONSTANTS
  Contents <- MCContents
  Missing = Missing
  Broken = Broken
  Envs <- MCEnvs
  Attributes <- MCAttributes
  Params <- MCParams
  LowerCase <- MCLowerCase
  MaxStamp = 2
INVARIANTS
  LoadIsCurrent
  EnvWins
