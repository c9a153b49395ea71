SPECIFICATION Spec
CONSTANTS
  Versions = {1, 2, 4, 5}
INVARIANT OneChain Bundled
PROPERTY NothingLost
