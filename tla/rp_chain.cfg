SPECIFICATION Spec
CONSTANTS
  Plugins = {logging, logging2, governance, cache}
  logging = logging
  logging2 = logging2
  governance = governance
  cache = cache
  NameOf <- MCNameOf
  InitPlugins <- MCInit
  Admins = {a1, a2}
  Removals = {"logging"}
  Reloads = {logging2}
  Orders <- MCOrder
  MaxChanges = 2
  MaxFallbacks = 2
  Modes = {"unary"}
  ShortCircuits = {"response", "error", "stray"}
  HookErrs = {"plain", "veto"}
  ProviderErrs = {"plain", "filtered", "cancelled"}
  EarlyEnds = TRUE
  CanRecover = TRUE
  NoChange = NoChange
CONSTRAINT FewChanges
INVARIANTS
  AnswerNotEmpty
  RegistryConsistent
  NoInstanceLost
PROPERTIES
  ChainSpec
