------------------------------- MODULE Driver -------------------------------
(***************************************************************************)
(* kiwicc's main(): the options, the temporary file, and the assembler     *)
(* that is run in a child process.                                         *)
(*                                                                         *)
(* The parent and the child interleave; the file both use is tmp.  The     *)
(* translation of the program in between is one step that succeeds or      *)
(* calls error().                                                          *)
(***************************************************************************)
EXTENDS Naturals

CONSTANTS
  MaxArgs,    \* bound: command line arguments
  MayKill,    \* may a signal end the assembler?
  Inherited   \* does the process have another child from before its exec?

ASSUME DriverAssumption ==
  MaxArgs \in Nat /\ MayKill \in BOOLEAN /\ Inherited \in BOOLEAN

VARIABLES
  nargs,   \* arguments read so far
  opt,     \* opt_S, opt_E, opt_MD, output_path, and is there an input_path?
  pc,      \* what main() does next, or how it ended
  code,    \* its exit status
  tmp,     \* the temporary file: "absent", or how much of the assembly it holds
  stream,  \* tmp_file: "none" (a null pointer), "open", "pending" text in its buffer
  path,    \* is tmp_file_path set and cleanup() registered?
  child,   \* the process fork() made
  other,   \* the inherited child
  status,  \* the word waitpid() stores into
  read,    \* what the assembler read of tmp
  out      \* what is at output_path, or on stdout

vars == <<nargs, opt, pc, code, tmp, stream, path, child, other, status, read, out>>
files == <<tmp, stream, path>>
processes == <<child, other, status, read>>

\* A path as the driver tells them apart: "-", with and without a `.`.
Paths == {"-", "dotted", "plain"}
Contents == {"absent", "empty", "part", "full"}
Ends == {"exited", "crashed"}
Finished == {"exited", "killed"}

TypeOK ==
  /\ nargs \in 0 .. MaxArgs
  /\ opt \in [S : BOOLEAN, E : BOOLEAN, MD : BOOLEAN, output_path : Paths, input : BOOLEAN]
  /\ pc \in {"parse_args", "mkstemp", "preprocess", "deps", "print", "parse", "codegen",
             "copy", "fclose", "fork", "wait"} \cup Ends
  /\ code \in {0, 1}
  /\ tmp \in Contents
  /\ stream \in {"none", "open", "pending"}
  /\ path \in BOOLEAN
  /\ child \in {"none", "forked", "as", "loaded", "reaped"} \cup Finished
  /\ other \in {"none", "running", "reaped"} \cup Finished
  /\ status \in Finished
  /\ read \in Contents \cup {"nothing"}
  /\ out \in {"absent", "tokens", "part", "asm", "object"}

Init ==
  /\ nargs = 0
  /\ opt = [S |-> FALSE, E |-> FALSE, MD |-> FALSE, output_path |-> "-", input |-> FALSE]
  /\ pc = "parse_args" /\ code = 0
  /\ tmp = "absent" /\ stream = "none" /\ path = FALSE
  /\ child = "none" /\ other = (IF Inherited THEN "running" ELSE "none")
  /\ status \in Finished  \* not initialized
  /\ read = "nothing" /\ out = "absent"
-----------------------------------------------------------------------------
\* Mutant: the process leaves without the functions atexit() registered.
_exit(c) ==
  /\ pc' = "exited" /\ code' = c
  /\ UNCHANGED <<nargs, opt, files, processes>>

\* exit(): cleanup() unlinks the temporary file, if it was registered.
exit(c) ==
  /\ pc' = "exited" /\ code' = c
  /\ tmp' = IF path THEN "absent" ELSE tmp
  /\ UNCHANGED <<nargs, opt, stream, path, processes>>

error == exit(1) /\ out' = out

\* A null pointer is used: no function of atexit() runs.
Crash ==
  /\ pc' = "crashed"
  /\ UNCHANGED <<nargs, opt, code, files, processes, out>>

Goto(l) ==
  /\ pc' = l
  /\ UNCHANGED <<nargs, opt, code, processes, out>>
-----------------------------------------------------------------------------
\* Mutant: -o does not ask whether another argument follows.
SetOptionUnchecked(o, n) ==
  /\ nargs < MaxArgs
  /\ opt' = o
  /\ nargs' = nargs + n
  /\ UNCHANGED <<pc, code, files, processes, out>>

\* An option that takes n arguments.
SetOption(o, n) ==
  /\ nargs + n <= MaxArgs
  /\ opt' = o
  /\ nargs' = nargs + n
  /\ UNCHANGED <<pc, code, files, processes, out>>

\* -fpic, -O, -Wall and the like change nothing that is modelled here.
parse_args ==
  /\ pc = "parse_args"
  /\ \/ nargs < MaxArgs /\ exit(0) /\ out' = out  \* --help
     \/ nargs < MaxArgs /\ error                  \* an unknown option, or -o at the end
     \/ \E p \in Paths, n \in {1, 2} : SetOption([opt EXCEPT !.output_path = p], n)
     \/ \E o \in {"S", "E", "MD", "input"} : SetOption([opt EXCEPT ![o] = TRUE], 1)
     \/ ~opt.input /\ error
     \/ opt.input /\ Goto("mkstemp") /\ UNCHANGED files

\* The file descriptor of a failure is -1, which `!fd` takes for a success;
\* fdopen() then returns a null pointer.
mkstemp ==
  /\ pc = "mkstemp"
  /\ path' = TRUE
  /\ \/ tmp' = "empty" /\ stream' = "open"
     \/ UNCHANGED <<tmp, stream>>
  /\ Goto("preprocess")

preprocess ==
  /\ pc = "preprocess"
  /\ \/ error
     \/ Goto(IF opt.MD THEN "deps" ELSE IF opt.E THEN "print" ELSE "parse") /\ UNCHANGED files

\* strrchr() finds no `.` in an output_path that has none.
output_dependencies ==
  /\ pc = "deps"
  /\ IF opt.output_path = "dotted"
     THEN error \/ (Goto(IF opt.E THEN "print" ELSE "parse") /\ UNCHANGED files)
     ELSE Crash

print_tokens ==
  /\ pc = "print"
  /\ exit(0) /\ out' = "tokens"

parse ==
  /\ pc = "parse"
  /\ error \/ (Goto("codegen") /\ UNCHANGED files)

\* println() fills the stream's buffer, which is written out when it is full.
codegen ==
  /\ pc = "codegen"
  /\ IF stream = "none"
     THEN Crash
     ELSE \/ error
          \/ /\ stream' = "pending" /\ tmp' \in {"empty", "part"} /\ path' = path
             /\ Goto(IF opt.S THEN "copy" ELSE "fclose")

\* What the file holds once the stream is flushed.
Flushed == IF stream = "pending" THEN "full" ELSE tmp

\* fseek() flushes; copy_file() reads the file through the same stream.
copy_file ==
  /\ pc = "copy"
  /\ \/ opt.output_path # "-" /\ error
     \/ /\ exit(0)
        /\ out' = IF Flushed = "full" THEN "asm" ELSE "part"

\* Mutant: the stream is not closed before the fork.
fclose_late ==
  /\ pc = "fclose"
  /\ UNCHANGED files
  /\ Goto("fork")

fclose ==
  /\ pc = "fclose"
  /\ tmp' = Flushed /\ stream' = "open" /\ path' = path
  /\ Goto("fork")

\* pid is 0 in the parent, whether fork() made a child or failed.
fork ==
  /\ pc = "fork"
  /\ pc' = "wait"
  /\ child' \in {"forked", "none"}
  /\ UNCHANGED <<nargs, opt, code, files, other, status, read, out>>

Children == {child, other}

\* main() returns if the status word says that a child exited.
CheckStatus(s) ==
  IF s = "exited"
  THEN /\ pc' = "exited" /\ code' = 0
       /\ tmp' = IF path THEN "absent" ELSE tmp
  ELSE UNCHANGED <<pc, code, tmp>>

\* Mutant: waitpid() is told not to block.
waitpid_nohang ==
  /\ pc = "wait"
  /\ \/ child \in Finished /\ child' = "reaped" /\ status' = child
     \/ child \notin Finished /\ UNCHANGED <<child, status>>
  /\ CheckStatus(status')
  /\ UNCHANGED <<nargs, opt, stream, path, other, read, out>>

\* Mutant: a status other than 0 is waited for to change.
waitpid_zero ==
  /\ pc = "wait"
  /\ child \in Finished
  /\ child' = "reaped" /\ status' = IF read = "full" THEN child ELSE "killed"
  /\ CheckStatus(status')
  /\ UNCHANGED <<nargs, opt, stream, path, other, read, out>>

\* waitpid(0) takes any child of the process group that has finished, blocks
\* while there are only running ones, and fails at once if there is none: it
\* then returns -1 and leaves the status word alone.
waitpid ==
  /\ pc = "wait"
  /\ \/ child \in Finished /\ child' = "reaped" /\ other' = other /\ status' = child
     \/ other \in Finished /\ other' = "reaped" /\ child' = child /\ status' = other
     \/ Children \subseteq {"none", "reaped"} /\ UNCHANGED <<child, other, status>>
  /\ CheckStatus(status')
  /\ UNCHANGED <<nargs, opt, stream, path, read, out>>
-----------------------------------------------------------------------------
\* The child runs the assembler, or leaves by _exit(), which keeps the file.
exec ==
  /\ child = "forked"
  /\ child' \in {"as", "exited"}
  /\ UNCHANGED <<nargs, opt, pc, code, files, other, status, read, out>>

as_read ==
  /\ child = "as"
  /\ child' = "loaded" /\ read' = tmp
  /\ UNCHANGED <<nargs, opt, pc, code, files, other, status, out>>

\* The assembler reports an error in what it read, or writes the object file.
as_write ==
  /\ child = "loaded"
  /\ child' = "exited"
  /\ out' \in {out} \cup (IF read = "full" THEN {"object"} ELSE {})
  /\ UNCHANGED <<nargs, opt, pc, code, files, other, status, read>>

kill ==
  /\ MayKill /\ child \in {"forked", "as", "loaded"}
  /\ child' = "killed"
  /\ UNCHANGED <<nargs, opt, pc, code, files, other, status, read, out>>

OtherFinishes ==
  /\ other = "running" /\ other' \in Finished
  /\ UNCHANGED <<nargs, opt, pc, code, files, child, status, read, out>>

Main ==
  \/ parse_args \/ mkstemp \/ preprocess \/ output_dependencies \/ print_tokens
  \/ parse \/ codegen \/ copy_file \/ fclose \/ fork \/ waitpid

Assembler == exec \/ as_read \/ as_write

Next == Main \/ Assembler \/ kill \/ OtherFinishes

\* The scheduler runs both processes; the assembler ends.
Spec == Init /\ [][Next]_vars /\ WF_vars(Main) /\ WF_vars(Assembler)
-----------------------------------------------------------------------------
(***************************************************************************)
(* However main() ends, unless it crashes, the temporary file is gone.     *)
(***************************************************************************)
NoTempLeft == pc = "exited" => tmp = "absent"

\* waitpid(0) answers for the inherited child as it does for the assembler.
Displaced == other = "reaped"

(***************************************************************************)
(* The assembler reads the whole assembly: it was written out before the   *)
(* fork, and nobody removes the file under the assembler.                  *)
(***************************************************************************)
AssemblerReadsAll == Displaced \/ read \in {"nothing", "full"}

(***************************************************************************)
(* The driver does not end before the assembler it started.                *)
(***************************************************************************)
WaitsForAssembler ==
  pc = "exited" => Displaced \/ child \notin {"forked", "as", "loaded"}

(***************************************************************************)
(* Once the assembler has exited, whatever its status, the driver ends.    *)
(***************************************************************************)
ExitEndsWait == child = "exited" ~> pc = "exited"

(***************************************************************************)
(* "Wait for the child process to finish": a child that has finished, of   *)
(* its own or by a signal, ends the wait.                                  *)
(***************************************************************************)
FinishEndsWait == child \in Finished ~> pc = "exited"
=============================================================================
