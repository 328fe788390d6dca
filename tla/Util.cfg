\* Every text of up to five bytes, every query of up to two parameters.
SPECIFICATION UtilSpec
CONSTANT Alphabet <- MCAlphabet
CONSTANT Words <- MCWords
CONSTANTS MaxText = 5
          MaxParams = 2
INVARIANTS EncodingIsSound SplitsInRuns ValidIsInside QueryComesBack
CHECK_DEADLOCK FALSE
