SPECIFICATION Spec
CONSTANTS
  Plugins = {logging, logging2, governance, cache}
  logging = logging
  logging2 = logging2
  governance = governance
  cache = cache
  NameOf <- MCNameOf
  InitPlugins <- MCInit
  Admins = {a1}
  Removals = {}
  Reloads = {logging2, cache}
  Orders <- MCOrders
  MaxChanges = 2
  MaxFallbacks = 2
  Modes = {"unary", "stream"}
  ShortCircuits = {"response", "error", "stream"}
  HookErrs = {"plain", "bare"}
  ProviderErrs = {"plain", "filtered"}
  EarlyEnds = TRUE
  CanRecover = TRUE
  NoChange = NoChange
CONSTRAINT FewChanges
INVARIANTS
  Symmetric
  PrimaryNamed
