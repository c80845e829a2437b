CONSTANTS
  Argument = {"--help", "--version", "--a", "--b", "x", "y"}
  Option = {"--help", "--version", "--a", "--b"}
  Help = "--help"
  Version = "--version"
  HelpText = "display help"
  VersionText = "display version"
  Comma = ","
  Blank = " "
  Character = {"a", ",", " "}
  MaxArguments = 5
  MaxSource = 6
  MaxToken = 2
SPECIFICATION MCSpec
INVARIANTS
  CutsAtTokens
  ParsedArguments
  ListsAreSplits
CHECK_DEADLOCK FALSE
