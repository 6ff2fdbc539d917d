CONSTANTS
  Settings <- MCSettings
  LevelLines <- MCLevelLines
  FormatLines <- MCFormatLines
  RuleLines <- MCRuleLines
  AlwaysStrict = FALSE
  MaxLines = 3
  Names <- MCNames
  Levels = {40, 200}
  Switches = {40}
  Seconds = {1, 2}
  Pids = {1, 2}
SPECIFICATION Spec
INVARIANTS TypeOK RulesSettled StrictMeansAll CachesApart FilterExact Selected OneMoment PidCurrent
