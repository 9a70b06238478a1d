-------------------------------- MODULE MCNative -------------------------------
(***************************************************************************)
(* The executables that Native runs.  NativePrograms comes first: TLC then *)
(* compiles the programs before it asks for the value of Images.           *)
(***************************************************************************)
EXTENDS NativePrograms, Native

NativeImages == LET images == NativeCompiled IN images     \* NativeCompiled is computed once
================================================================================
