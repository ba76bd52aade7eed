CONSTANTS
  Readers = {r1}
  Editors = {e1}
SPECIFICATION DiscoverySpec
INVARIANTS TagsNotPreWrite
