\* Two settings; up to two failed flash operations per write call, any number
\* of resets.
CONSTANTS Settings = {"a", "b"}
          MaxFaults = 2
SPECIFICATION FairSpec
INVARIANTS PairedUnlessWriteFailed OtherCopyHolds
PROPERTIES StoreSpec ProgramRuns
