SPECIFICATION EnrollSpec
CONSTANTS
  t1 = t1
  integrations = integrations
  Tabs = {t1}
  Pages = {t1, integrations}
  Buns = {1}
  Targets <- Both
  MaxCodes = 2
  MaxDeletes = 1
  MaxTokens = 2
  MaxInstalls = 2
  MaxUninstalls = 1
  MaxMishaps = 1
CHECK_DEADLOCK FALSE
INVARIANTS OneCard Reverts Recognised
PROPERTY WizardFollows
