CONSTANTS
  v = v  w = w  None = None
  Clients = {v, w}
  Producers = {v}
  Letters <- Post
  Limit = 2
  MaxExtras = 2
SPECIFICATION Spec
INVARIANTS OnceOnly
PROPERTIES Served ImplementsMailbox
CHECK_DEADLOCK FALSE
