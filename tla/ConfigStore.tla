----------------------------- MODULE ConfigStore -----------------------------
(***************************************************************************)
(* What the configuration object of the sysmodule promises the threads     *)
(* that use it: a store that holds one list of values.  Values are         *)
(* published whole and readers only ever see a list that was published;    *)
(* once a first load was announced it is never taken back while the        *)
(* process lives.                                                          *)
(***************************************************************************)
CONSTANTS
    Lists,     \* the value lists that may be published: every value valid
    Default    \* the list a new process starts with

VARIABLES
    committed, \* the list last published
    ready,     \* a load has been announced since the process started
    view,      \* the list most recently handed to a reader
    told       \* the answer most recently given to "has it been loaded?"

vars == <<committed, ready, view, told>>

Init ==
    /\ committed = Default
    /\ ready = FALSE
    /\ view = Default
    /\ told = FALSE

(* A load or an accepted save replaces the whole list. *)
Publish ==
    /\ committed' \in Lists
    /\ ready' \in {ready, TRUE}
    /\ UNCHANGED <<view, told>>

ReadValues ==
    /\ view' = committed
    /\ UNCHANGED <<committed, ready, told>>

ReadReady ==
    /\ told' = ready
    /\ UNCHANGED <<committed, ready, view>>

(* The process ended; the next one starts from the defaults. *)
Reset ==
    /\ committed' = Default
    /\ ready' = FALSE
    /\ view' = Default
    /\ told' = FALSE

Next == Publish \/ ReadValues \/ ReadReady \/ Reset

Spec == Init /\ [][Next]_vars
==============================================================================
