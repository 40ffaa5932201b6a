\* No flash operation fails.
CONSTANTS Settings = {"a", "b"}
          MaxFaults = 0
SPECIFICATION Spec
INVARIANT DefaultsSavedWhenNoneRecovered
