CONSTANTS
  plain = plain
  tls = tls
  quit = quit
  NoURI = NoURI
  URIs <- MCURIs
  ExitURI = quit
  Secure <- MCSecure
  Configured <- MCConfigured
  Settings <- MCSettings
  TopMode = 1
SPECIFICATION FairSpec
INVARIANTS SessionIsActive SessionMines NoStaleMining HashrateReported
PROPERTIES ReconnectsOrEnds StopInSessionEnds
