------------------------------- MODULE MCSysHelo -------------------------------
(* Small instances of SysHelo: see MCSysHelo_*.cfg.                         *)
EXTENDS SysHelo

CONSTANTS tick

(* Values 0..15, default 2; clients ask for 1, the editor writes 4.  With   *)
(* two nanoseconds in a millisecond the first two fit below the sign bit, 8, *)
(* and 4 becomes -8.                                                        *)
MCDefaultValue == [k \in Keys |-> 2]
MCRequests == {[k \in Keys |-> 1]}
MCFiles == {NoFile, [k \in Keys |-> 4]}

(* Time stamps are only compared with each other (and with 0): the first    *)
(* one may be fixed.                                                        *)
MCInit == Init /\ stamp = 1
MCSpec == MCInit /\ [][Next]_vars

(* There is no file before someone creates or saves it. *)
MCFairInit == MCInit /\ disk = NoFile
MCFairSpec == MCFairInit /\ [][Next]_vars /\ WF_vars(MainStep) /\ SF_vars(IpcStep)

(* Where the values do not matter: a single valid one and an empty section, *)
(* or no file yet.                                                          *)
MCOneDefault == [k \in Keys |-> 1]
MCOneRequest == {MCOneDefault}
MCOneFile == {NoFile, [k \in {} |-> 0]}
================================================================================
