SPECIFICATION Spec
CONSTANTS
  Libs <- TheLibs
  None = None
  Configs <- TheConfigs
  Version <- TheVersion
  Listed <- TheListed
  Pluggable <- PluggableWakeUp
  Posted <- ThePosted
  Bosch = {"bosch"}
  t1 = t1
  t2 = t2
  Callers <- TheCallers
  Fronts = {"V2_0", "aidl"}
  Handles <- TheHandles
  Injected <- TheInjected
  MaxSessions = 2
SYMMETRY Symmetry
INVARIANT
  CompliantPostAccepted
