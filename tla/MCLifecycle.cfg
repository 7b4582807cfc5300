SPECIFICATION LifeSpec
CONSTANTS
  Workers = {w1, w2}
  NumaModes <- MCBoth
  StimModes <- MCBoth
INVARIANT LifeInv
INVARIANT FlusherOnLiveObjects
INVARIANT PollsOnlyWhenUp
INVARIANT KnownDeaths
PROPERTY SigintEnds
