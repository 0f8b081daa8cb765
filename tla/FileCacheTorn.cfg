CONSTANTS
  MaxMessages = 4
  Headless = headless
  Garbled = garbled
  Doubled = doubled
SPECIFICATION Spec
INVARIANT DeferredIsCached
