\* Clients of the proxy and of both backends of the hub, two exchanges at a time; a
\* post and an event that are not JSON-RPC, a reply that redaction cannot decode; two
\* requests with one id.
CONSTANTS
  p = p
  h = h
  q = q
  w = w
  n = n
  g = g
  s = s
  Posts <- ThePosts
  Gets <- TheGets
  Gateway <- Served
  ServerNotes <- FromServer
  Notes <- TheNotes
  Garbage <- Undecodable
  Redactable <- Decodable
  Attributes <- Described
  MaxExchanges = 2
  Ids <- UsedIds
  NoId = 0
  Nameless = ""
  Hidden <- Boilerplate
  Whitelist <- NoWhitelist
  DenyOnly = FALSE
SPECIFICATION FairSpec
INVARIANTS LoggedFirst ResponsesNamed
PROPERTIES IsEnforcement EveryExchangeEnds
CHECK_DEADLOCK FALSE
