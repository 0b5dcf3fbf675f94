----------------------- MODULE InstrumentsDownload -----------------------
(***************************************************************************)
(* How the gateway downloads the instruments of the exchange.  When the    *)
(* exchange has acknowledged the subscriptions of StaticData, the shared   *)
(* request (Request2) is made; Rest then asks for the instruments of each  *)
(* type over HTTP, remembers in download_instruments_ which answers it     *)
(* waits for, and commits the request when it waits for none.  Either      *)
(* connection may be lost at any moment, and an HTTP request may fail.     *)
(*                                                                         *)
(* What the instruments contain is the matter of MarketSubscriptions.      *)
(***************************************************************************)
EXTENDS Integers, Sequences

CONSTANTS
    Login,           \* a master account is configured: StaticData logs in
    MaxDisconnects   \* bound: connections lost, over both

ASSUME LoginAssumption == Login \in BOOLEAN
ASSUME DisconnectsAssumption == MaxDisconnects \in Nat

Types == {"SPOT", "SWAP", "FUTURES"}

VARIABLES
    status,        \* StaticData::connection_status_
    queue,         \* StaticData::subscribe_queue_: what remains to be subscribed
    awaiting,      \* subscriptions sent and not acknowledged
    rest,          \* Rest::ready()
    pending,       \* Request2::instruments was requested and not sent
    inflight,      \* Request2::instruments was sent and not committed
    downloading,   \* Rest::download_instruments_: the flags that are set
    unanswered,    \* HTTP requests sent on the present connection, not answered
    lost,          \* HTTP requests sent on a lost connection, not answered
    outcome,       \* history: what became of each part of the last request sent
    disconnects    \* connections lost so far

vars == <<status, queue, awaiting, rest, pending, inflight, downloading,
          unanswered, lost, outcome, disconnects>>

staticVars == <<status, queue, awaiting>>
restVars == <<rest, inflight, downloading, unanswered, lost, outcome>>

Init ==
    /\ status = "DISCONNECTED"
    /\ queue = <<>>
    /\ awaiting = {}
    /\ rest = FALSE
    /\ pending = FALSE
    /\ inflight = FALSE
    /\ downloading = {}
    /\ unanswered = {}
    /\ lost = [type \in Types |-> 0]
    /\ outcome = [type \in Types |-> "none"]
    /\ disconnects = 0

-----------------------------------------------------------------------------
(* StaticData. *)

StaticWithOptions == <<"status", "SPOT", "SWAP", "FUTURES", "OPTION">>

Static == <<"status", "SPOT", "SWAP", "FUTURES">>

\* State::DONE of the download: READY, then subscribe_static.
Done ==
    /\ status' = "READY"
    /\ queue' = queue \o Static

\* The websocket is Ready: download_.begin().
Ready ==
    /\ status = "DISCONNECTED"
    /\ IF Login
       THEN status' = "LOGIN_SENT" /\ UNCHANGED queue
       ELSE Done
    /\ UNCHANGED <<awaiting, pending, restVars, disconnects>>

\* The exchange accepted the login: download_.check_relaxed(LOGIN).
LoginAck ==
    /\ status = "LOGIN_SENT"
    /\ Done
    /\ UNCHANGED <<awaiting, pending, restVars, disconnects>>

\* A Timer with a token of the rate limiter: the next subscription is sent.
StaticTimer ==
    /\ status = "READY"
    /\ queue # <<>>
    /\ awaiting' = awaiting \union {Head(queue)}
    /\ queue' = Tail(queue)
    /\ UNCHANGED <<status, pending, restVars, disconnects>>

\* The exchange acknowledged a subscription; that of FUTURES, the last one, requests
\* the instruments.
SubscribeAck(channel) ==
    /\ channel \in awaiting
    /\ awaiting' = awaiting \ {channel}
    /\ pending' = (pending \/ channel = "FUTURES")
    /\ UNCHANGED <<status, queue, restVars, disconnects>>

\* The websocket is lost, or closed when the exchange announces maintenance.
StaticDisconnected ==
    /\ status # "DISCONNECTED"
    /\ disconnects < MaxDisconnects
    /\ status' = "DISCONNECTED"
    /\ queue' = <<>>
    /\ awaiting' = {}
    /\ disconnects' = disconnects + 1
    /\ UNCHANGED <<pending, restVars>>

-----------------------------------------------------------------------------
(* Rest. *)

RestConnected ==
    /\ ~rest
    /\ rest' = TRUE
    /\ UNCHANGED <<staticVars, pending, inflight, downloading, unanswered, lost,
                   outcome, disconnects>>

\* History: what the loss of the connection leaves of the last request sent.
Severed ==
    [type \in Types |->
        CASE outcome[type] = "waiting" -> "lost"
          [] outcome[type] = "failed"  -> "cleared"
          [] OTHER -> outcome[type]]

RestDisconnectedKeepsFlags ==
    /\ rest
    /\ disconnects < MaxDisconnects
    /\ rest' = FALSE
    /\ lost' = [type \in Types |-> lost[type] + IF type \in unanswered THEN 1 ELSE 0]
    /\ unanswered' = {}
    /\ outcome' = Severed
    /\ disconnects' = disconnects + 1
    /\ UNCHANGED <<staticVars, pending, inflight, downloading>>

\* The HTTP connection is lost: no answer is waited for any more.  The requests it
\* leaves behind are still called back, with a network error.
RestDisconnected ==
    /\ rest
    /\ disconnects < MaxDisconnects
    /\ rest' = FALSE
    /\ downloading' = {}
    /\ lost' = [type \in Types |-> lost[type] + IF type \in unanswered THEN 1 ELSE 0]
    /\ unanswered' = {}
    /\ outcome' = Severed
    /\ disconnects' = disconnects + 1
    /\ UNCHANGED <<staticVars, pending, inflight>>

RestTimerForgetsFutures ==
    /\ rest
    /\ pending
    /\ ~inflight
    /\ pending' = FALSE
    /\ inflight' = TRUE
    /\ unanswered' = Types
    /\ downloading' = Types \ {"FUTURES"}
    /\ outcome' = [type \in Types |-> "waiting"]
    /\ UNCHANGED <<staticVars, rest, lost, disconnects>>

\* A Timer with a token of the rate limiter: the request is sent if none is in flight.
RestTimer ==
    /\ rest
    /\ pending
    /\ ~inflight
    /\ pending' = FALSE
    /\ inflight' = TRUE
    /\ unanswered' = Types
    /\ downloading' = Types
    /\ outcome' = [type \in Types |-> "waiting"]
    /\ UNCHANGED <<staticVars, rest, lost, disconnects>>

CommitAlways ==
    inflight' = FALSE

\* The end of get_instruments_ack, whatever the answer.
CommitUnlessDownloading ==
    inflight' = (inflight /\ downloading' # {})

\* The exchange answered, be it with an error code: the flag is cleared.
Answer(type) ==
    /\ type \in unanswered
    /\ unanswered' = unanswered \ {type}
    /\ downloading' = downloading \ {type}
    /\ outcome' = [outcome EXCEPT ![type] = "answered"]
    /\ CommitUnlessDownloading
    /\ UNCHANGED <<staticVars, rest, pending, lost, disconnects>>

\* The HTTP request failed or timed out on a connection that is not lost.  A redirection,
\* which ends the process (process_response), is in AccountDownload only.
Failure(type) ==
    /\ type \in unanswered
    /\ unanswered' = unanswered \ {type}
    /\ outcome' = [outcome EXCEPT ![type] = "failed"]
    /\ UNCHANGED downloading
    /\ CommitUnlessDownloading
    /\ UNCHANGED <<staticVars, rest, pending, lost, disconnects>>

\* The callback of a request of a lost connection.
LostAnswer(type) ==
    /\ lost[type] > 0
    /\ lost' = [lost EXCEPT ![type] = @ - 1]
    /\ UNCHANGED downloading
    /\ CommitUnlessDownloading
    /\ UNCHANGED <<staticVars, rest, pending, unanswered, outcome, disconnects>>

-----------------------------------------------------------------------------

Next ==
    \/ Ready
    \/ LoginAck
    \/ StaticTimer
    \/ \E channel \in {"status"} \union Types : SubscribeAck(channel)
    \/ StaticDisconnected
    \/ RestConnected
    \/ RestDisconnected
    \/ RestTimer
    \/ \E type \in Types : Answer(type)
    \/ \E type \in Types : Failure(type)
    \/ \E type \in Types : LostAnswer(type)

Spec == Init /\ [][Next]_vars

(***************************************************************************)
(* The libraries reconnect, the exchange answers logins and subscriptions, *)
(* every HTTP request is called back, the event loop keeps calling Timer   *)
(* and the rate limiter refills.                                           *)
(***************************************************************************)
Fairness ==
    /\ WF_vars(Ready)
    /\ WF_vars(LoginAck)
    /\ WF_vars(StaticTimer)
    /\ \A channel \in {"status"} \union Types : WF_vars(SubscribeAck(channel))
    /\ WF_vars(RestConnected)
    /\ WF_vars(RestTimer)
    /\ \A type \in Types : WF_vars(Answer(type) \/ Failure(type))
    /\ \A type \in Types : WF_vars(LostAnswer(type))

FairSpec == Spec /\ Fairness

-----------------------------------------------------------------------------
(* Properties. *)

\* Type invariant of StaticData, Request2 and Rest.
TypeOK ==
    /\ status \in {"DISCONNECTED", "LOGIN_SENT", "READY"}
    /\ queue \in Seq({"status"} \union Types)
    /\ awaiting \subseteq {"status"} \union Types
    /\ rest \in BOOLEAN
    /\ pending \in BOOLEAN
    /\ inflight \in BOOLEAN
    /\ downloading \subseteq Types
    /\ unanswered \subseteq Types
    /\ lost \in [Types -> Nat]
    /\ outcome \in [Types -> {"none", "waiting", "answered", "failed", "lost", "cleared"}]
    /\ disconnects \in Nat

\* Rest waits for a type exactly when its answer is outstanding on the present
\* connection or its HTTP request failed there, and only while the request is in
\* flight: a late callback of a lost connection never touches a later download.
FlagsMatchRequests ==
    /\ unanswered \subseteq downloading
    /\ \A type \in downloading : type \in unanswered \/ outcome[type] = "failed"
    /\ downloading # {} => inflight

\* The request is committed only when nothing of it is outstanding any more, and if
\* its connection was not lost, only when every type was answered.
CommittedWhenComplete ==
    [][inflight /\ ~inflight' =>
        /\ \A type \in Types : outcome'[type] # "waiting"
        /\ \/ \A type \in Types : outcome'[type] = "answered"
           \/ \E type \in Types : outcome'[type] \in {"lost", "cleared"}]_vars

\* A request for the instruments is sent and committed in the end, over any lost
\* connections, unless an HTTP request fails (then it may stay in flight for ever).
EventuallyCommitted ==
    pending \/ inflight ~>
        \/ ~pending /\ ~inflight
        \/ \E type \in Types : outcome[type] \in {"failed", "cleared"}

=============================================================================
