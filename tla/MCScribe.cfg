SPECIFICATION Spec
CONSTANTS
  m1 = m1  m2 = m2  m2b = m2b  lib = lib  amulet = amulet  prim = prim  broken = broken
  T = T  U = U  V = V
  Packages <- MCPackages
  Dir <- MCDir
  Family <- MCFamily
  Version <- MCVersion
  Prefix <- MCPrefix
  Hash <- MCHash
  NoHash = "none"
  Declares <- MCDeclares
  Modules <- MCModules
  Configs <- MCConfigs
  Inputs <- MCInputs
  MaxRuns = 2
INVARIANTS OutputIsOfOneRun LookupIsOfThePackage
