\* One client after another, pipelined requests of every form, and a cache of two
\* certificates for three names, two of them spellings of one host.
SPECIFICATION Spec
CONSTANTS
  None = None
  api = api
  API = API
  chat = chat
  other = other
  Connections = {c1}
  Names = {api, API, chat, other}
  Allowed = {api, API, chat}
  CacheSize = 2
  MaxRequests = 3
INVARIANTS
  TypeOK
  AnsweredInOrder
  RecentHostsCached
PROPERTIES
  QuietConnectionsEnd
