\* Rows of four columns, two of them taken by the prompt, so that a line of four
\* characters crosses into the next row; three rows, so that the second line is
\* typed on the last one; keys for two or three lines and memory for two words.
\* A word keeps two characters, and the line may hold one of three or four.
\* Numbers of eight bits for printf.
CONSTANTS
  Bits = 8
  VGA_WIDTH = 4
  VGA_HEIGHT = 3
  ColMod = 16
  Blank = Blank
  NewLine = NewLine
  Backspace = Backspace
  Tasks = {Shell, Other}
  Shell = Shell
  Other = Other
  Zero = Nul
  Nul = Nul
  CommandNumber = CommandNumber
  Letters = {a}
  Enter = Enter
  Mark = Mark
  Failed = Failed
  NoPointer = NoPointer
  BufSize = 5
  ArgumentSize = 3
  MaxAllocs = 2
  MaxKeys = 5
  MaxPrints = 1
SPECIFICATION Spec
INVARIANTS TypeOK EchoMatchesLine PrintfShowsItsArguments
PROPERTIES StaysOnScreen ImplementsCommandLine
