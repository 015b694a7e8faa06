\* Every draft, pick and submission, and redeployments in between.
SPECIFICATION ComposerSpec
CONSTANTS
  Token = {"", "b", "cheese", "get_current_datetime", "calculator", "bash", "read_file",
           "write_file", "edit_file", "subagent"}
  Begins <- Starts
  Within <- HasInside
  NoTool = NoTool
  NoMessage = NoMessage
PROPERTIES
  RunsWhatWasEntered
  FreehandReadsOnly
