---------------------------------- MODULE Build ----------------------------------
(***************************************************************************)
(* calcasm and calcld composed as the README builds a program from several *)
(* files: each file is assembled to an object of its own, then the objects *)
(* on the command line of calcld are linked.  A tool that fails ends the   *)
(* build.                                                                  *)
(***************************************************************************)
EXTENDS Assembler, Linker

CONSTANTS
  MaxFiles,  \* bound on the number of files
  MaxTotal   \* bound on the number of lines of all files

ASSUME BuildAssumption == MaxFiles \in Nat /\ MaxTotal \in Nat

VARIABLES
  command,  \* the objects that calcld has still to read
  size      \* number of lines of the files assembled before

vars == <<avars, lvars, command, size>>

Init == AsmInit /\ LinkInit /\ command = <<>> /\ size = 0

Linking == inputs # <<>>

(* One run of calcasm, and the start of the next.                          *)
Assemble ==
  /\ ~ Linking
  /\ Len(command) < MaxFiles
  /\ AsmNext
  /\ size + Len(text') <= MaxTotal
  /\ UNCHANGED <<lvars, command, size>>

NextFile ==
  /\ asm = "written"
  /\ command' = Append(command, obj)
  /\ size' = size + Len(text)
  /\ text' = <<>> /\ obj' = EmptyObject /\ asm' = "reading"
  /\ UNCHANGED lvars

(* The run of calcld, when no file is left half assembled.                 *)
Link ==
  /\ asm = "reading" /\ text = <<>>
  /\ command # <<>>
  /\ LinkObject(Head(command))
  /\ command' = Tail(command)
  /\ UNCHANGED <<avars, size>>

Finish ==
  /\ command = <<>>
  /\ Resolve
  /\ UNCHANGED <<avars, command, size>>

Next == Assemble \/ NextFile \/ Link \/ Finish

Spec == Init /\ [][Next]_vars
--------------------------------------------------------------------------------
(* Types of both tools, and the limits of their tables.                    *)
TypeOK ==
  /\ AsmTypeOK /\ LinkTypeOK
  /\ command \in Seq(Objects) /\ Len(command) <= MaxFiles /\ size <= MaxTotal
================================================================================
