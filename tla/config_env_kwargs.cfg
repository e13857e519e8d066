\* The same for the arguments of the decision function.
SPECIFICATION Spec
CONSTANTS
  Contents <- MCContents
  Missing = Missing
  Broken = Broken
  Envs <- MCEnvs
  Attributes <- MCAttributes
  Params <- MCParams
  LowerCase <- MCLowerCase
  MaxStamp = 2
INVARIANTS
  EnvWinsKwargs
