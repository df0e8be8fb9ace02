---------------------------------- MODULE Shell ---------------------------------
(***************************************************************************)
(* The shell of c/shell.c: reading a line into a buffer of fixed size, and *)
(* choosing a command with strcmp of c/common.c.  The console may deliver  *)
(* any character, also the one that terminates a C string.                 *)
(***************************************************************************)
EXTENDS Integers, Sequences

CONSTANTS
  Size,         \* sizeof(cmdline); 128 in the shell
  Char,         \* what the console delivers, 0 and CR among them
  CR,           \* '\r'
  Hello, Exit,  \* the two commands
  MaxTyped      \* bound: characters before a CR

ASSUME ShellAssumption ==
  /\ Size \in Nat \ {0} /\ Char \subseteq Nat /\ {0, CR} \subseteq Char /\ CR # 0
  /\ \A c \in {Hello, Exit} : c \in Seq(Char \ {0, CR})

Junk == -1   \* a byte of the buffer that was not written for this line

VARIABLES
  cmdline,  \* the buffer: indices 0 to Size - 1
  index,    \* i of the read loop
  mode,     \* "read", "run" or "exited"
  typed,    \* the characters since the last CR that getchar returned
  ran       \* what the last line made the shell do

shell_vars == <<cmdline, index, mode, typed, ran>>

(* The buffer is local to the body of the loop: indeterminate on each entry. *)
NewBuffer == [k \in 0..(Size - 1) |-> Junk]

ShellInit ==
  /\ cmdline = NewBuffer
  /\ index = 0
  /\ mode = "read"
  /\ typed = <<>>
  /\ ran = "nothing"

-----------------------------------------------------------------------------

AtLimit_Past == index = Size

(* i == sizeof(cmdline) - 1, tested whatever the character is. *)
AtLimit == index = Size - 1

(* The line is given up; what follows up to the CR is a line of its own. *)
TooLong(ch) ==
  /\ mode = "read" /\ AtLimit
  /\ index' = 0
  /\ typed' = IF ch = CR THEN <<>> ELSE Append(typed, ch)
  /\ ran' = "too long"
  /\ cmdline' = NewBuffer
  /\ UNCHANGED mode

Terminator == [cmdline EXCEPT ![index] = 0]

EndOfLine ==
  /\ mode = "read" /\ ~AtLimit
  /\ cmdline' = Terminator
  /\ mode' = "run"
  /\ UNCHANGED <<index, typed, ran>>

Store(ch) ==
  /\ mode = "read" /\ ~AtLimit
  /\ cmdline' = [cmdline EXCEPT ![index] = ch]
  /\ index' = index + 1
  /\ typed' = Append(typed, ch)
  /\ UNCHANGED <<mode, ran>>

(* getchar and what the loop does with its result. *)
GetChar ==
  \E ch \in Char :
    /\ Len(typed) < MaxTyped \/ ch = CR
    /\ TooLong(ch) \/ (ch = CR /\ EndOfLine) \/ (ch # CR /\ Store(ch))

(* The bytes of a string literal, with its terminator. *)
CString(s) == [k \in 0..Len(s) |-> IF k < Len(s) THEN s[k + 1] ELSE 0]

(* Where the loop of strcmp stops: at a terminator or at a difference. *)
Stop(s, t) ==
  CHOOSE k \in DOMAIN t :
    /\ s[k] = 0 \/ t[k] = 0 \/ s[k] # t[k]
    /\ \A j \in 0..(k - 1) : s[j] # 0 /\ t[j] # 0 /\ s[j] = t[j]

strcmp_Prefix(s, t) ==
  LET k == Stop(s, t) IN IF s[k] = 0 THEN 0 ELSE s[k] - t[k]

strcmp(s, t) ==
  LET k == Stop(s, t) IN s[k] - t[k]

RunCommand ==
  /\ mode = "run"
  /\ \/ /\ strcmp(cmdline, CString(Hello)) = 0
        /\ ran' = "hello" /\ mode' = "read"
     \/ /\ strcmp(cmdline, CString(Hello)) # 0
        /\ strcmp(cmdline, CString(Exit)) = 0
        /\ ran' = "exit" /\ mode' = "exited"
     \/ /\ strcmp(cmdline, CString(Hello)) # 0
        /\ strcmp(cmdline, CString(Exit)) # 0
        /\ ran' = "unknown" /\ mode' = "read"
  /\ index' = 0
  /\ typed' = <<>>
  /\ cmdline' = NewBuffer

(* The kernel runs an exited process no more. *)
Exited == mode = "exited" /\ UNCHANGED shell_vars

ShellNext == GetChar \/ RunCommand \/ Exited

ShellSpec == ShellInit /\ [][ShellNext]_shell_vars

-----------------------------------------------------------------------------
(* Properties *)

(* The buffer at its limit: every store is to a byte of the buffer, and when a
   line is compared and printed it has a terminator and the bytes up to it
   were stored for this line, none left from an earlier one or never written. *)
BufferSafe ==
  /\ index \in DOMAIN cmdline
  /\ mode = "run" =>
       \E k \in 0..index : cmdline[k] = 0 /\ \A j \in 0..(k - 1) : cmdline[j] \notin {0, Junk}

(* What the shell does follows from what was typed since the last CR: a
   command runs if its characters are the line, of which each full buffer has
   been dropped, up to the first 0 in it. *)
Line ==
  LET rest == SubSeq(typed, Size * (Len(typed) \div Size) + 1, Len(typed))
      ends == {k \in 1..Len(rest) : rest[k] = 0}
  IN  IF ends = {} THEN rest
      ELSE SubSeq(rest, 1, (CHOOSE k \in ends : \A j \in ends : k <= j) - 1)

RunsWhatWasTyped ==
  [][mode = "run" =>
       ran' = IF Line = Hello THEN "hello"
              ELSE IF Line = Exit THEN "exit" ELSE "unknown"]_shell_vars

=============================================================================
