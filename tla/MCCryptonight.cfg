SPECIFICATION Spec
CONSTANTS
  Lost = 2
  Spare = 2
  Blocks = 16
  BlockBytes = 2
  Rounds = 3
  N = 2
  Sub <- MCSub
  Rot <- MCRot
  Scramble <- MCScramble
  keccakf <- MCkeccakf
  Memories <- MCMemories
  HashStates <- MCHashStates
INVARIANTS MixesAsDefined HashesAsDefined RootIsExact DivisionFits
CHECK_DEADLOCK FALSE
