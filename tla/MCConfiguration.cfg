SPECIFICATION ConfigurationSpec
CONSTANTS
  home = home
  cdn = cdn
  lo = lo
  plain = plain
  Origin = {home, cdn, lo, plain}
  Scheme <- Schemes
  Allowlist <- Allowed
  Authority = cdn
  ConfigSet <- Configs
  Published <- Documents
  AllowInsecureLoopback = FALSE
  URI = {"https", "none"}
  Client = {1, 2}
  MaxToken = 3
  MaxVersion = 3
  None = None
INVARIANTS
  ConfigurationTypeOK
  DestinationsAreVouched
  AdmittedWorks
  CredentialFits
  CallerIsRight
CHECK_DEADLOCK FALSE
