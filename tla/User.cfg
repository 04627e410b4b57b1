CONSTANTS
  Parts = {"screen", "cursor", "modes", "stdio", "parse", "input", "pipe", "token", "var", "edit", "redir", "args", "print", "link"}
  Input = {"ESC", "CSI", "CAN", "LF", "x", "[", "?", ";", "d2", "d5", "d8", "m", "h"}
  EscLimit = 7
  CountLimit = 2
  ValueLimit = 100
  MaxChars = 7
  MaxParts = 4
  Amount = 2
  Output = 1
  CanFail = TRUE
  Chars = {"a", "1", " ", "D", "Q", "$", "E", "*", "[", "]", ">", "&", "=", "n"}
  MaxText = 4
  WordRoom = 4
  VarNames = {"A", "B", "COLUMNS"}
  VarValues = {"x", "y"}
  VarRooms = {2, 3}
  MaxCommands = 6
  LineRoom = 4
  LineColumns = 3
  EscapeRoom = 4
  Remembered = 3
  MaxBytes = 6
  RedirRoom = 3
  MaxRedirs = 3
  MaxWords = 3
  PrintLibs = {"kernel", "libc32", "libc64"}
  PrintSizes = {0, 1, 4, 20}
  PrintValues = {0, 12}
  PrintWidths = {1, 5}
  PrintPrecs = {0, 3}
  Formats = {"default", "obj", "init", "lib"}
SPECIFICATION Spec
INVARIANTS TerminalRight ProgramsRight
PROPERTY StepsRight
CHECK_DEADLOCK FALSE
