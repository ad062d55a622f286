CONSTANTS
  Runner = {r1, r2}
  Tools <- EveryTool
SPECIFICATION Spec
INVARIANT TypeOK
INVARIANT RecordedIsThere
INVARIANT ThereIsRecorded
PROPERTY ScriptMakesTables
