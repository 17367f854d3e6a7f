SPECIFICATION Spec
CONSTANTS
  h1 = h1
  h2 = h2
  bad = bad
  Threads = {t1, t2}
  Hosts <- MCHosts
  Malformed <- MCMalformed
  Configured <- MCConfigured
  Nothing = Nothing
SYMMETRY ThreadSymmetry
INVARIANT SettingNotLost
INVARIANT CallsGoWhereSet
