---------------------------- MODULE DriverProofs ----------------------------
(***************************************************************************)
(* Proofs about Driver: for any number of arguments, with or without       *)
(* signals and an inherited child.                                         *)
(***************************************************************************)
EXTENDS Driver, TLAPS

Active == {"forked", "as", "loaded"}

\* The file appears after cleanup() is registered and is gone after exit().
FileRegistered ==
  /\ ~path => tmp = "absent" /\ stream = "none"
  /\ pc \in {"parse_args", "mkstemp", "exited"} => tmp = "absent"

\* The file is written out before there is a child.
WrittenBeforeFork ==
  /\ pc = "fclose" => stream = "pending"
  /\ pc \in {"fork", "wait"} => tmp = "full"
  /\ child # "none" => pc \in {"wait", "exited"}

\* main() waits as long as the child runs.
Waiting == ~Displaced /\ child \in Active => pc = "wait"

IInv == TypeOK /\ FileRegistered /\ WrittenBeforeFork /\ Waiting /\ AssemblerReadsAll

LEMMA TypeStep ==
  ASSUME TypeOK, [Next]_vars
  PROVE  TypeOK'
<1> USE DriverAssumption DEF TypeOK, Paths, Contents, Ends, Finished, files, processes
<1>1. CASE UNCHANGED vars
  BY <1>1 DEF vars
<1>2. CASE parse_args
  <2>1. ASSUME NEW o \in [S : BOOLEAN, E : BOOLEAN, MD : BOOLEAN,
                         output_path : Paths, input : BOOLEAN],
               NEW n \in {1, 2}, SetOption(o, n)
        PROVE  TypeOK'
    <3>1. nargs' \in 0 .. MaxArgs
      BY <2>1 DEF SetOption
    <3> QED
      BY <2>1, <3>1 DEF SetOption
  <2>2. \A p \in Paths : [opt EXCEPT !.output_path = p] \in
          [S : BOOLEAN, E : BOOLEAN, MD : BOOLEAN, output_path : Paths, input : BOOLEAN]
    OBVIOUS
  <2>3. \A o \in {"S", "E", "MD", "input"} : [opt EXCEPT ![o] = TRUE] \in
          [S : BOOLEAN, E : BOOLEAN, MD : BOOLEAN, output_path : Paths, input : BOOLEAN]
    OBVIOUS
  <2>4. CASE \E p \in Paths, n \in {1, 2} : SetOption([opt EXCEPT !.output_path = p], n)
    BY <2>1, <2>2, <2>4
  <2>5. CASE \E o \in {"S", "E", "MD", "input"} : SetOption([opt EXCEPT ![o] = TRUE], 1)
    BY <2>1, <2>3, <2>5
  <2>6. CASE \E c \in {0, 1} : exit(c) /\ out' = out
    BY <2>6 DEF exit
  <2>7. CASE Goto("mkstemp") /\ UNCHANGED files
    BY <2>7 DEF Goto
  <2> HIDE DEF TypeOK
  <2> QED
    BY <1>2, <2>4, <2>5, <2>6, <2>7 DEF parse_args, error
<1>3. CASE mkstemp
  BY <1>3 DEF mkstemp, Goto
<1>4. CASE preprocess
  BY <1>4 DEF preprocess, error, exit, Goto
<1>5. CASE output_dependencies
  BY <1>5 DEF output_dependencies, error, exit, Goto, Crash
<1>6. CASE print_tokens
  BY <1>6 DEF print_tokens, exit
<1>7. CASE parse
  BY <1>7 DEF parse, error, exit, Goto
<1>8. CASE codegen
  BY <1>8 DEF codegen, error, exit, Goto, Crash
<1>9. CASE copy_file
  BY <1>9 DEF copy_file, error, exit
<1>10. CASE fclose
  BY <1>10 DEF fclose, Goto, Flushed
<1>11. CASE fork
  BY <1>11 DEF fork
<1>12. CASE waitpid
  BY <1>12 DEF waitpid, CheckStatus
<1>13. CASE Assembler \/ kill \/ OtherFinishes
  BY <1>13 DEF Assembler, exec, as_read, as_write, kill, OtherFinishes
<1> QED
  BY <1>1, <1>2, <1>3, <1>4, <1>5, <1>6, <1>7, <1>8, <1>9, <1>10, <1>11, <1>12, <1>13
     DEF Next, Main

LEMMA InvInit == Init => IInv
<1> SUFFICES ASSUME Init PROVE IInv
  OBVIOUS
<1>1. opt \in [S : BOOLEAN, E : BOOLEAN, MD : BOOLEAN, output_path : Paths, input : BOOLEAN]
  BY DEF Init, Paths
<1>2. nargs \in 0 .. MaxArgs
  BY DriverAssumption DEF Init
<1>3. TypeOK
  BY <1>1, <1>2 DEF Init, TypeOK, Paths, Contents, Ends, Finished
<1> QED
  BY <1>3 DEF Init, IInv, FileRegistered, WrittenBeforeFork, Waiting, AssemblerReadsAll,
              Displaced, Active

LEMMA InvStep ==
  ASSUME IInv, [Next]_vars
  PROVE  IInv'
<1>0. TypeOK'
  BY TypeStep DEF IInv
<1> SUFFICES FileRegistered' /\ WrittenBeforeFork' /\ Waiting' /\ AssemblerReadsAll'
  BY <1>0 DEF IInv
<1> USE DEF IInv, FileRegistered, WrittenBeforeFork, Waiting, AssemblerReadsAll, Displaced,
            Active, Finished, files, processes
<1>1. CASE UNCHANGED vars
  BY <1>1 DEF vars
<1>2. CASE parse_args
  BY <1>2 DEF parse_args, error, exit, Goto, SetOption
<1>3. CASE mkstemp
  BY <1>3 DEF mkstemp, Goto
<1>4. CASE preprocess
  BY <1>4 DEF preprocess, error, exit, Goto
<1>5. CASE output_dependencies
  BY <1>5 DEF output_dependencies, error, exit, Goto, Crash
<1>6. CASE print_tokens \/ copy_file
  BY <1>6 DEF print_tokens, copy_file, error, exit
<1>7. CASE parse
  BY <1>7 DEF parse, error, exit, Goto
<1>8. CASE codegen
  BY <1>8 DEF codegen, error, exit, Goto, Crash
<1>9. CASE fclose
  BY <1>9 DEF fclose, Goto, Flushed
<1>10. CASE fork
  BY <1>10 DEF fork
<1>11. CASE waitpid
  BY <1>11 DEF waitpid, CheckStatus, Children
<1>12. CASE Assembler \/ kill \/ OtherFinishes
  BY <1>12 DEF Assembler, exec, as_read, as_write, kill, OtherFinishes
<1> QED
  BY <1>1, <1>2, <1>3, <1>4, <1>5, <1>6, <1>7, <1>8, <1>9, <1>10, <1>11, <1>12
     DEF Next, Main

LEMMA InvariantHolds == Spec => []IInv
<1>1. IInv /\ [Next]_vars => IInv'
  BY InvStep
<1> QED
  BY InvInit, <1>1, PTL DEF Spec

(***************************************************************************)
(* The variables of main() and of its children keep their types: main() is *)
(* always at a known place, and no command line is read past its end.      *)
(***************************************************************************)
THEOREM DriverTyped == Spec => []TypeOK
<1>1. IInv => TypeOK
  BY DEF IInv
<1> QED
  BY InvariantHolds, <1>1, PTL

(***************************************************************************)
(* However main() ends, by --help, an error in any phase, -S, -E or after  *)
(* the assembler, no temporary file outlives it.                           *)
(***************************************************************************)
THEOREM NoFileOutlivesExit == Spec => []NoTempLeft
<1>1. IInv => NoTempLeft
  BY DEF IInv, FileRegistered, NoTempLeft
<1> QED
  BY InvariantHolds, <1>1, PTL

(***************************************************************************)
(* The assembler reads the whole assembly, unless another child's end was  *)
(* taken for its own.                                                      *)
(***************************************************************************)
THEOREM WholeAssemblyRead == Spec => []AssemblerReadsAll
<1>1. IInv => AssemblerReadsAll
  BY DEF IInv
<1> QED
  BY InvariantHolds, <1>1, PTL

(***************************************************************************)
(* Unless another child's end was taken for the assembler's, the driver    *)
(* outlives the assembler.                                                 *)
(***************************************************************************)
THEOREM OutlivesAssembler == Spec => []WaitsForAssembler
<1>1. IInv => WaitsForAssembler
  BY DEF IInv, Waiting, Active, WaitsForAssembler
<1> QED
  BY InvariantHolds, <1>1, PTL
=============================================================================
