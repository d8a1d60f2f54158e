------------------------------ MODULE MCFileUtils ------------------------------
(* Instance of FileUtils for the model checker. *)
EXTENDS FileUtils

================================================================================
