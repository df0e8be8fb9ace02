SPECIFICATION ShellSpec

CONSTANTS
  Size = 5
  Char <- MCChar
  CR = 3
  Hello <- MCHello
  Exit <- MCExit
  MaxTyped = 8

INVARIANT BufferSafe

PROPERTY RunsWhatWasTyped
