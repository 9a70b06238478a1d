------------------------------ MODULE MCBytecode -------------------------------
(***************************************************************************)
(* The executables that Bytecode runs.  BytecodePrograms comes first: TLC  *)
(* then compiles the programs before it asks for the value of Images.      *)
(***************************************************************************)
EXTENDS BytecodePrograms, Bytecode

AllImages == LET images == Compiled IN images     \* Compiled is computed once

CalledImages == LET images == CalledCompiled IN images
===============================================================================
