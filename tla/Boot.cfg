SPECIFICATION FairSpec
CONSTANTS
  Address <- MCAddress
  TssAddress <- MCTssAddress
  StackTops <- MCStackTops
  BiosMasks <- MCBiosMasks
INVARIANT TablesReady
PROPERTY KeyHeard
