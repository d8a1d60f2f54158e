------------------------------ MODULE MCIpcServer ------------------------------
(* Instance of IpcServer for the model checker. *)
EXTENDS IpcServer

================================================================================
