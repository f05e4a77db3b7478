CONSTANTS
    CountWidth <- MCCountWidth
    ValueWidth <- MCValueWidth
    Samples <- PositiveSamples
SPECIFICATION StatsSpec
INVARIANT TypeOK
INVARIANT DataSetMatches
INVARIANT TimevalDiffCorrect
