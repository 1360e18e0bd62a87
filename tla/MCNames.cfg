CONSTANTS
  SEP = SEP
  NUL = NUL
  BLANK = BLANK
  HASH = HASH
  None = None
  Symbols <- MCSymbols
  Upper <- MCUpper
  Ascii <- MCAscii
  Number <- MCNumber
  Infinite <- MCInfinite
  ConfigFiles <- MCConfigFiles
  PeerLines <- MCPeerLines
  Addresses = {"ip"}
  MaxPeers = 2
  Apelido = {1, 2, 3, 4, 5, 6, 7, 8}
  Me = 4
SPECIFICATION MCSpec
INVARIANTS
  ClosedFormsAgree
  OneCycle
  OwnEchoIgnored
  PeersHeard
PROPERTY OneRedirected
\* The peers file ends after MaxPeers lines.
CHECK_DEADLOCK FALSE
