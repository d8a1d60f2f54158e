------------------------------ MODULE MCIpcClient ------------------------------
(* Instance of IpcClient for the model checker. *)
EXTENDS IpcClient

================================================================================
