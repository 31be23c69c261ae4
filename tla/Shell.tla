---------------------------------- MODULE Shell ----------------------------------
(***************************************************************************)
(* The shell: kernel_shell_loop of src/kernel.cpp, which edits a line in a *)
(* buffer and on the screen, and shell_handle_input of                     *)
(* src/modules/shell/shell.cpp, which takes it apart in place and runs the *)
(* command.  A message stands for its text by a word and, where the text   *)
(* ends one, by a newline; the values a command prints between are numbers *)
(* of the rest of the kernel, left out with their text.                    *)
(***************************************************************************)
EXTENDS Calculator, Screen

CONSTANTS
  LINE_MAX,    \* 1023, the last position of the buffer
  Keys,        \* characters a key can give, and can be printed
  Names        \* the names of each command

ASSUME ShellAssumption ==
  /\ LINE_MAX \in Nat \ {0}
  /\ LINE_MAX + 2 < VGA_WIDTH * VGA_HEIGHT
  /\ Keys \subseteq Chars /\ NUL \notin Keys
  /\ {"m", ">", "-"} \cup Range(Digits) \subseteq Chars
  /\ DOMAIN Names = {"help", "clear", "about", "version", "ticks", "systicks",
                     "syswrite", "mem", "panic", "echo", "calc"}
  /\ \A a, b \in DOMAIN Names : a # b => Names[a] \cap Names[b] = {}

VARIABLES
  screen,
  input, length,    \* locals of kernel_shell_loop
  ran,              \* the last command and its arguments
  halted

vars == <<screen, input, length, ran, halted>>

-----------------------------------------------------------------------------

(* Output. *)

Write(s, text) == FoldLeft(putchar, s, text)

Word == <<"m">>
Message == <<"m", "newline">>
Prompt == <<">", " ">>

SYS_WRITE == 1

\* The system call of syswrite returns its own number and writes nothing: see
\* SyscallServed in module Syscalls.
syswrite(args) ==
  Word \o print_uint32(Len(args)) \o Word \o args \o Word
       \o Word \o print_uint32(SYS_WRITE) \o <<"newline">>

Calculated(args) ==
  LET outcome == calc_init(args)
  IN  CASE outcome.kind = "result"                -> Word \o outcome.text \o <<"newline">>
        [] outcome.kind \in {"usage", "help"}     -> Message \o Message
        [] outcome.kind = "error"                 -> Message
        [] outcome.kind = "trap"                  -> << >>

Output(name, command, args) ==
  CASE name = "help"                              -> Message \o Message \o Message
    [] name \in {"version", "mem"}                -> Message \o Message
    [] name \in {"about", "ticks", "systicks", "panic"} -> Message
    [] name = "syswrite" /\ args = Null           -> Message
    [] name = "syswrite" /\ args # Null           -> syswrite(args)
    [] name = "echo" /\ args = Null               -> <<"newline">>
    [] name = "echo" /\ args # Null               -> args \o <<"newline">>
    [] name = "calc"                              -> Calculated(args)
    [] name = "unknown"                           -> Word \o command \o <<"newline">>

-----------------------------------------------------------------------------

(* The line. *)

\* Wrong variant: the command is taken up to the space, the rest from there.
Split_AtSpace(buffer) ==
  LET space == find_space(buffer, 0)
      cut   == [i \in DOMAIN buffer |-> IF i \in space THEN NUL ELSE buffer[i]]
  IN  [buffer |-> cut, command |-> StringAt(cut, 0),
       args |-> IF space = {} THEN Null ELSE StringAt(buffer, Least(space))]

\* The space is replaced in the buffer.
Split(buffer) ==
  LET space == find_space(buffer, 0)
      cut   == [i \in DOMAIN buffer |-> IF i \in space THEN NUL ELSE buffer[i]]
  IN  [buffer |-> cut, command |-> StringAt(cut, 0),
       args |-> IF space = {} THEN Null ELSE StringAt(cut, Least(space) + 1)]

NameOf(command) ==
  LET known == {name \in DOMAIN Names : \E n \in Names[name] : SameString(command, n)}
  IN  IF known = {} THEN "unknown" ELSE CHOOSE name \in known : TRUE

\* The screen after a command.
shell_handle_input(s, line) ==
  LET name == NameOf(line.command)
  IN  IF name = "clear" THEN clear ELSE Write(s, Output(name, line.command, line.args))

\* A division by zero, or one whose quotient does not fit, halts the kernel.
Halts(line) ==
  \/ NameOf(line.command) = "panic"
  \/ NameOf(line.command) = "calc" /\ calc_init(line.args).kind = "trap"

\* Wrong variant: always at the end of the buffer.
Terminate_AtEnd(buffer, n) == [buffer EXCEPT ![LINE_MAX] = NUL]

Terminate(buffer, n) == [buffer EXCEPT ![n] = NUL]

Enter ==
  LET line == Split(Terminate(input, length))
      done == shell_handle_input(putchar(screen, "newline"), line)
  IN  /\ ~halted
      /\ input' = line.buffer
      /\ ran' = [command |-> line.command, args |-> line.args]
      /\ halted' = Halts(line)
      /\ IF Halts(line)
         THEN screen' = done /\ UNCHANGED length
         ELSE screen' = Write(done, <<"newline">> \o Prompt) /\ length' = 0

\* Wrong variant: the cursor stays behind the blank.
Rubout_Once == <<"backspace", " ">>

Rubout == <<"backspace", " ", "backspace">>

Erase ==
  /\ ~halted /\ length > 0
  /\ length' = length - 1
  /\ screen' = Write(screen, Rubout)
  /\ UNCHANGED <<input, ran, halted>>

\* Wrong variant: the place of the terminator is used too.
Fits_OneMore(n) == n <= LINE_MAX

Fits(n) == n < LINE_MAX

Type(c) ==
  /\ ~halted /\ Fits(length)
  /\ input' = [input EXCEPT ![length] = c]
  /\ length' = length + 1
  /\ screen' = putchar(screen, c)
  /\ UNCHANGED <<ran, halted>>

\* After shell_init_message.  What the buffer holds is not known.
Init ==
  /\ screen = Write(clear, Message \o Message \o Prompt)
  /\ \E junk \in Keys \cup {NUL} : input = [i \in 0 .. LINE_MAX |-> junk]
  /\ length = 0
  /\ ran = [command |-> << >>, args |-> Null]
  /\ halted = FALSE

Next == Enter \/ Erase \/ \E c \in Keys : Type(c)

Spec == Init /\ [][Next]_vars

-----------------------------------------------------------------------------

Line == [i \in 1 .. length |-> input[i - 1]]

TypeOK ==
  /\ screen \in Screens
  /\ input \in [0 .. LINE_MAX -> Keys \cup {NUL}]
  /\ length \in 0 .. LINE_MAX
  /\ halted \in BOOLEAN

\* The screen shows the prompt at the start of a line, behind it what is in the
\* buffer, and nothing behind that, however lines are typed, erased over the
\* edge of the screen, and scrolled, and whatever the commands have printed
\* (kernel.cpp:94-122).
LineShown ==
  LET shown == Prompt \o Line
      start == Position(screen) - Len(shown)
  IN  ~halted =>
        /\ start >= 0 /\ start % VGA_WIDTH = 0
        /\ \A i \in DOMAIN shown : screen.buffer[start + i - 1] = shown[i]
        /\ \A i \in Cells : i >= Position(screen) => screen.buffer[i] = " "

\* The line a command and its arguments were taken from.
Joined == IF ran.args = Null THEN ran.command ELSE ran.command \o <<" ">> \o ran.args

Editor == INSTANCE LineEditor WITH
  Letters <- Keys, Capacity <- LINE_MAX,
  line <- IF halted THEN << >> ELSE Line, submitted <- Joined

\* What runs is the line as it was edited, from its first character to its
\* last: nothing of a longer line before it, and nothing lost where it was cut
\* (kernel.cpp:96-120, shell.cpp:38-47).
ImplementsLineEditor == Editor!EditorSpec
=============================================================================
