CONSTANTS
  MaxMessages = 4
  Headless = headless
  Garbled = garbled
  Doubled = doubled
SPECIFICATION BackendSpec
INVARIANT BackendKeepsDeferred
PROPERTIES LossOnlyByMisread MessageCacheSpec
