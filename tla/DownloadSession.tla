------------------------- MODULE DownloadSession -------------------------
(***************************************************************************)
(* What a private stream of the gateway promises to its clients about one  *)
(* connection: it becomes READY only when every snapshot it must download  *)
(* was asked for and answered on that connection, and what it obtained is  *)
(* void once the connection is lost.  No request, no queue and no stage of *)
(* the download appears here.  AccountDownload implements this             *)
(* specification.                                                          *)
(***************************************************************************)

CONSTANT Required    \* the snapshots a session must obtain

VARIABLES
    status,          \* the ConnectionStatus last published
    got              \* the snapshots obtained by the present session

vars == <<status, got>>

Statuses == {"DISCONNECTED", "LOGIN_SENT", "DOWNLOADING", "READY"}

Init ==
    /\ status = "DISCONNECTED"
    /\ got = {}

Connect ==
    /\ status = "DISCONNECTED"
    /\ status' = "LOGIN_SENT"
    /\ UNCHANGED got

Begin ==
    /\ status = "LOGIN_SENT"
    /\ status' = "DOWNLOADING"
    /\ UNCHANGED got

Obtain(snapshot) ==
    /\ status = "DOWNLOADING"
    /\ got' = got \union {snapshot}
    /\ UNCHANGED status

Finish ==
    /\ status = "DOWNLOADING"
    /\ got = Required
    /\ status' = "READY"
    /\ UNCHANGED got

Drop ==
    /\ status' = "DISCONNECTED"
    /\ got' = {}

Next ==
    \/ Connect
    \/ Begin
    \/ \E snapshot \in Required : Obtain(snapshot)
    \/ Finish
    \/ Drop

Spec == Init /\ [][Next]_vars

=============================================================================
