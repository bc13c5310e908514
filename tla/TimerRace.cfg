SPECIFICATION Spec
CONSTANTS
  Instances = {h1, h2, h3}
  NoId = NoId
  Callouts = {1, 2, 3}
  Concurrent = TRUE
INVARIANT SingleCallback
