\* Lengths on both sides of one byte's range; the shortest and the longest name.
SPECIFICATION FairSpec
CONSTANTS
  CredLens = {0, 1, 255, 256}
  NameLens = {0, 255}
  IPs <- Addresses
  Ports = {0, 443, 65535}
  Payloads <- Data
  handshakeTimeout = 2
  MaxTime = 4
INVARIANTS HandshakeBounded SessionUsable DatagramRoundTrip
PROPERTIES HonestProxyServed KeepsDialPromise
CHECK_DEADLOCK FALSE
