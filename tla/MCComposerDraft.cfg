\* The way a mutating tool is reached.
SPECIFICATION ComposerSpec
CONSTANTS
  Token = {"", "b", "cheese", "get_current_datetime", "calculator", "bash", "read_file",
           "write_file", "edit_file", "subagent"}
  Begins <- Starts
  Within <- HasInside
  NoTool = NoTool
  NoMessage = NoMessage
INVARIANTS
  MutatingOnlyFromArgEntry
