------------------------- MODULE InstrumentsProofs -------------------------
(***************************************************************************)
(* What the download of instruments promises, for any number of lost       *)
(* connections, and what clients are told of an instrument, for any number *)
(* of changes.                                                             *)
(***************************************************************************)
EXTENDS InstrumentUpdates, TLAPS, SequenceTheorems

-----------------------------------------------------------------------------
(* The download.  The argument: the flags of Rest, what is unanswered on   *)
(* the present connection and what became of each part go together.        *)

\* A part is waited for exactly while it is unanswered; a part that failed keeps its flag;
\* every part of a request in flight was sent.
OutcomeInv ==
    /\ \A type \in Types : outcome[type] = "waiting" <=> type \in unanswered
    /\ \A type \in Types : outcome[type] = "failed" => type \in downloading
    /\ inflight => \A type \in Types : outcome[type] # "none"

DownloadInv ==
    /\ TypeOK
    /\ FlagsMatchRequests
    /\ OutcomeInv

\* What is subscribed is a sequence of channels.
LEMMA StaticType == Static \in Seq({"status"} \union Types)
  BY DEF Static, Types

LEMMA InitTypeOK == Init => TypeOK
<1> SUFFICES ASSUME Init PROVE TypeOK
  OBVIOUS
<1>1. rest \in BOOLEAN /\ pending \in BOOLEAN /\ inflight \in BOOLEAN
  BY Zenon DEF Init
<1>2. queue \in Seq({"status"} \union Types)
  BY EmptySeq DEF Init
<1>3. /\ lost \in [Types -> Nat]
      /\ outcome \in [Types -> {"none", "waiting", "answered", "failed", "lost", "cleared"}]
      /\ disconnects \in Nat
      /\ status \in {"DISCONNECTED", "LOGIN_SENT", "READY"}
  BY DEF Init
<1>4. awaiting = {} /\ downloading = {} /\ unanswered = {}
  BY DEF Init
<1> QED
  BY <1>1, <1>2, <1>3, <1>4 DEF TypeOK

LEMMA NextTypeOK == TypeOK /\ [Next]_vars => TypeOK'
<1> SUFFICES ASSUME TypeOK, [Next]_vars PROVE TypeOK'
  OBVIOUS
<1> USE DEF TypeOK
<1>0. ASSUME Done, UNCHANGED <<awaiting, pending, restVars, disconnects>> PROVE TypeOK'
  <2>1. queue' \in Seq({"status"} \union Types)
    BY <1>0, StaticType, ConcatProperties DEF Done
  <2>2. status' \in {"DISCONNECTED", "LOGIN_SENT", "READY"}
    BY <1>0 DEF Done
  <2> QED
    BY <1>0, <2>1, <2>2 DEF restVars
<1>1. CASE Ready
  <2>1. CASE Login
    BY <1>1, <2>1 DEF Ready, restVars
  <2>2. CASE ~Login
    BY <1>1, <2>2, <1>0 DEF Ready
  <2> QED
    BY <2>1, <2>2
<1>2. CASE LoginAck
  BY <1>2, <1>0 DEF LoginAck
<1>3. CASE StaticTimer
  <2>1. Head(queue) \in {"status"} \union Types /\ Tail(queue) \in Seq({"status"} \union Types)
    BY <1>3, HeadTailProperties DEF StaticTimer
  <2> QED
    BY <1>3, <2>1 DEF StaticTimer, restVars
<1>4. ASSUME NEW channel \in {"status"} \union Types, SubscribeAck(channel) PROVE TypeOK'
  <2>1. pending' \in BOOLEAN
    BY <1>4, Zenon DEF SubscribeAck
  <2> QED
    BY <1>4, <2>1 DEF SubscribeAck, restVars
<1>5. CASE StaticDisconnected
  <2>1. queue' \in Seq({"status"} \union Types)
    BY <1>5, EmptySeq DEF StaticDisconnected
  <2> QED
    BY <1>5, <2>1 DEF StaticDisconnected, restVars
<1>6. CASE RestConnected
  <2>1. rest' \in BOOLEAN
    BY <1>6, Zenon DEF RestConnected
  <2> QED
    BY <1>6, <2>1 DEF RestConnected, staticVars
<1>7. CASE RestDisconnected
  <2>1. rest' \in BOOLEAN
    BY <1>7, Zenon DEF RestDisconnected
  <2>2. lost' \in [Types -> Nat]
    BY <1>7 DEF RestDisconnected
  <2>3. outcome' \in [Types -> {"none", "waiting", "answered", "failed", "lost", "cleared"}]
    BY <1>7 DEF RestDisconnected, Severed
  <2> QED
    BY <1>7, <2>1, <2>2, <2>3 DEF RestDisconnected, staticVars
<1>8. CASE RestTimer
  <2>1. pending' \in BOOLEAN /\ inflight' \in BOOLEAN
    BY <1>8, Zenon DEF RestTimer
  <2>2. outcome' \in [Types -> {"none", "waiting", "answered", "failed", "lost", "cleared"}]
    BY <1>8 DEF RestTimer
  <2> QED
    BY <1>8, <2>1, <2>2 DEF RestTimer, staticVars
<1>9. ASSUME NEW type \in Types, Answer(type) PROVE TypeOK'
  <2>1. inflight' \in BOOLEAN
    BY <1>9, Zenon DEF Answer, CommitUnlessDownloading
  <2>2. outcome' \in [Types -> {"none", "waiting", "answered", "failed", "lost", "cleared"}]
    BY <1>9 DEF Answer
  <2> QED
    BY <1>9, <2>1, <2>2 DEF Answer, staticVars
<1>10. ASSUME NEW type \in Types, Failure(type) PROVE TypeOK'
  <2>1. inflight' \in BOOLEAN
    BY <1>10, Zenon DEF Failure, CommitUnlessDownloading
  <2>2. outcome' \in [Types -> {"none", "waiting", "answered", "failed", "lost", "cleared"}]
    BY <1>10 DEF Failure
  <2> QED
    BY <1>10, <2>1, <2>2 DEF Failure, staticVars
<1>11. ASSUME NEW type \in Types, LostAnswer(type) PROVE TypeOK'
  <2>1. inflight' \in BOOLEAN
    BY <1>11, Zenon DEF LostAnswer, CommitUnlessDownloading
  <2>2. lost' \in [Types -> Nat]
    BY <1>11 DEF LostAnswer
  <2> QED
    BY <1>11, <2>1, <2>2 DEF LostAnswer, staticVars
<1>12. CASE UNCHANGED vars
  BY <1>12 DEF vars
<1> QED
  BY <1>1, <1>2, <1>3, <1>4, <1>5, <1>6, <1>7, <1>8, <1>9, <1>10, <1>11, <1>12 DEF Next

-----------------------------------------------------------------------------

LEMMA InitDownloadInv == Init => DownloadInv
<1> SUFFICES ASSUME Init PROVE DownloadInv
  OBVIOUS
<1>1. FlagsMatchRequests /\ OutcomeInv
  BY DEF Init, FlagsMatchRequests, OutcomeInv
<1> QED
  BY <1>1, InitTypeOK DEF DownloadInv

LEMMA NextDownloadInv == DownloadInv /\ [Next]_vars => DownloadInv'
<1> SUFFICES ASSUME DownloadInv, [Next]_vars PROVE (FlagsMatchRequests /\ OutcomeInv)'
  BY NextTypeOK DEF DownloadInv
<1>0. TypeOK /\ TypeOK'
  BY NextTypeOK DEF DownloadInv
<1>1. ASSUME UNCHANGED restVars PROVE (FlagsMatchRequests /\ OutcomeInv)'
  BY <1>1 DEF restVars, DownloadInv, FlagsMatchRequests, OutcomeInv
<1>2. CASE RestConnected
  BY <1>2 DEF RestConnected, DownloadInv, FlagsMatchRequests, OutcomeInv
<1> USE <1>0 DEF TypeOK, DownloadInv, FlagsMatchRequests, OutcomeInv
<1>3. CASE RestDisconnected
  <2>1. \A type \in Types : outcome'[type] =
            CASE outcome[type] = "waiting" -> "lost"
              [] outcome[type] = "failed"  -> "cleared"
              [] OTHER -> outcome[type]
    BY <1>3 DEF RestDisconnected, Severed
  <2>2. \A type \in Types : outcome'[type] \notin {"waiting", "failed"}
    BY <2>1
  <2>3. inflight' => \A type \in Types : outcome'[type] # "none"
    BY <1>3, <2>1 DEF RestDisconnected
  <2> QED
    BY <1>3, <2>2, <2>3 DEF RestDisconnected
<1>4. CASE RestTimer
  BY <1>4 DEF RestTimer
<1>5. ASSUME NEW type \in Types, Answer(type) PROVE (FlagsMatchRequests /\ OutcomeInv)'
  BY <1>5 DEF Answer, CommitUnlessDownloading
<1>6. ASSUME NEW type \in Types, Failure(type) PROVE (FlagsMatchRequests /\ OutcomeInv)'
  BY <1>6 DEF Failure, CommitUnlessDownloading
<1>7. ASSUME NEW type \in Types, LostAnswer(type) PROVE (FlagsMatchRequests /\ OutcomeInv)'
  BY <1>7 DEF LostAnswer, CommitUnlessDownloading
<1>8. CASE Ready \/ LoginAck \/ StaticTimer \/ StaticDisconnected
  <2>1. UNCHANGED restVars
    BY <1>8 DEF Ready, LoginAck, StaticTimer, StaticDisconnected
  <2> QED
    BY <2>1, <1>1
<1>9. ASSUME NEW channel \in {"status"} \union Types, SubscribeAck(channel)
      PROVE (FlagsMatchRequests /\ OutcomeInv)'
  <2>1. UNCHANGED restVars
    BY <1>9 DEF SubscribeAck
  <2> QED
    BY <2>1, <1>1
<1>10. CASE UNCHANGED vars
  BY <1>10 DEF vars
<1> QED
  BY <1>2, <1>3, <1>4, <1>5, <1>6, <1>7, <1>8, <1>9, <1>10 DEF Next

\* Rest waits for exactly what is outstanding or has failed, over any number of lost
\* connections: no late callback touches a later download.
THEOREM FlagsMatch == Spec => []FlagsMatchRequests
<1>1. DownloadInv => FlagsMatchRequests
  BY DEF DownloadInv
<1> QED
  BY InitDownloadInv, NextDownloadInv, <1>1, PTL DEF Spec

\* The request is committed only when nothing of it is outstanding any more.
THEOREM Committed == Spec => CommittedWhenComplete
<1> DEFINE Complete ==
        inflight /\ ~inflight' =>
            /\ \A type \in Types : outcome'[type] # "waiting"
            /\ \/ \A type \in Types : outcome'[type] = "answered"
               \/ \E type \in Types : outcome'[type] \in {"lost", "cleared"}
<1>1. ASSUME DownloadInv, Next, inflight, ~inflight' PROVE Complete
  <2>1. DownloadInv'
    BY <1>1, NextDownloadInv
  <2>2. downloading' = {} /\ unanswered' = {}
    BY <1>1, <2>1 DEF Next, Ready, LoginAck, StaticTimer, SubscribeAck, StaticDisconnected,
        RestConnected, RestDisconnected, RestTimer, Answer, Failure, LostAnswer,
        CommitUnlessDownloading, restVars, DownloadInv, FlagsMatchRequests
  <2>3. \A type \in Types : outcome'[type] \notin {"waiting", "failed"}
    BY <2>1, <2>2 DEF DownloadInv, OutcomeInv
  <2>4. \A type \in Types : outcome[type] # "none"
    BY <1>1 DEF DownloadInv, OutcomeInv
  <2>5. \A type \in Types : outcome'[type] # "none"
    BY <1>1, <2>4 DEF Next, Ready, LoginAck, StaticTimer, SubscribeAck, StaticDisconnected,
        RestConnected, RestDisconnected, RestTimer, Answer, Failure, LostAnswer,
        restVars, DownloadInv, TypeOK
  <2>6. \A type \in Types : outcome'[type] \in {"answered", "lost", "cleared"}
    BY <2>1, <2>3, <2>5 DEF DownloadInv, TypeOK
  <2> QED
    BY <2>3, <2>6
<1>2. DownloadInv /\ [Next]_vars => [Complete]_vars
  BY <1>1
<1> QED
  BY InitDownloadInv, NextDownloadInv, <1>2, PTL DEF Spec, CommittedWhenComplete

\* A request in flight waits for an answer, or for the callback of one of its parts that
\* went with its connection; and a session that is READY has requested the instruments
\* when nothing of its subscriptions is left.
FlowInv ==
    /\ inflight =>
        \/ downloading # {}
        \/ \E type \in Types : lost[type] > 0 \/ outcome[type] = "cleared"
    /\ status = "READY" =>
        \/ \E n \in DOMAIN queue : queue[n] = "FUTURES"
        \/ "FUTURES" \in awaiting
        \/ pending
        \/ \A type \in Types : outcome[type] # "none"

LEMMA InitFlowInv == Init => FlowInv
  BY DEF Init, FlowInv

LEMMA NextFlowInv == DownloadInv /\ FlowInv /\ [Next]_vars => FlowInv'
<1> SUFFICES ASSUME DownloadInv, FlowInv, [Next]_vars PROVE FlowInv'
  OBVIOUS
<1>0. TypeOK
  BY DEF DownloadInv
<1>1. ASSUME Done, UNCHANGED <<awaiting, pending, restVars, disconnects>> PROVE FlowInv'
  <2>1. \E n \in DOMAIN queue' : queue'[n] = "FUTURES"
    <3>1. queue \in Seq({"status"} \union Types) /\ queue' = queue \o Static
      BY <1>0, <1>1 DEF Done, TypeOK
    <3>2. Len(queue) \in Nat /\ Len(Static) = 4 /\ Static[4] = "FUTURES"
      BY <3>1, LenProperties DEF Static
    <3>3. /\ Len(queue') = Len(queue) + 4
          /\ queue' \in Seq({"status"} \union Types)
          /\ queue'[Len(queue) + 4] = "FUTURES"
      <4>1. /\ Len(queue \o Static) = Len(queue) + Len(Static)
            /\ queue \o Static \in Seq({"status"} \union Types)
            /\ \A n \in 1 .. Len(queue) + Len(Static) : (queue \o Static)[n] =
                    IF n <= Len(queue) THEN queue[n] ELSE Static[n - Len(queue)]
        BY <3>1, StaticType, ConcatProperties
      <4>2. /\ Len(queue) + 4 \in 1 .. Len(queue) + 4 /\ ~(Len(queue) + 4 <= Len(queue))
            /\ (Len(queue) + 4) - Len(queue) = 4
        BY <3>2
      <4> QED
        BY <3>1, <3>2, <4>1, <4>2
    <3>4. Len(queue) + 4 \in DOMAIN queue'
      BY <3>2, <3>3, LenProperties
    <3> QED
      BY <3>3, <3>4
  <2> QED
    BY <1>1, <2>1 DEF restVars, FlowInv
<1>2. CASE Ready
  <2>1. CASE Login
    BY <1>2, <2>1 DEF Ready, restVars, FlowInv
  <2>2. CASE ~Login
    BY <1>1, <1>2, <2>2 DEF Ready
  <2> QED
    BY <2>1, <2>2
<1>3. CASE LoginAck
  BY <1>1, <1>3 DEF LoginAck
<1>4. CASE StaticTimer
  <2>1. ASSUME NEW n \in DOMAIN queue, queue[n] = "FUTURES"
        PROVE  "FUTURES" \in awaiting' \/ \E m \in DOMAIN queue' : queue'[m] = "FUTURES"
    <3>1. /\ queue \in Seq({"status"} \union Types) /\ queue # <<>>
          /\ queue' = Tail(queue) /\ awaiting' = awaiting \union {Head(queue)}
      BY <1>0, <1>4 DEF StaticTimer, TypeOK
    <3>2. /\ Len(queue) \in Nat /\ DOMAIN queue = 1 .. Len(queue)
          /\ Len(queue') = Len(queue) - 1 /\ DOMAIN queue' = 1 .. Len(queue) - 1
          /\ \A m \in 1 .. Len(queue) - 1 : queue'[m] = queue[m + 1]
          /\ Head(queue) = queue[1]
      BY <3>1, HeadTailProperties, LenProperties
    <3>3. CASE n = 1
      BY <2>1, <3>1, <3>2, <3>3
    <3>4. CASE n # 1
      <4>1. n - 1 \in 1 .. Len(queue) - 1 /\ (n - 1) + 1 = n
        BY <3>2, <3>4
      <4> QED
        BY <2>1, <3>2, <4>1
    <3> QED
      BY <3>3, <3>4
  <2>2. awaiting \subseteq awaiting' /\ UNCHANGED <<status, pending, restVars>>
    BY <1>4 DEF StaticTimer
  <2> QED
    BY <2>1, <2>2 DEF restVars, FlowInv
<1>5. ASSUME NEW channel \in {"status"} \union Types, SubscribeAck(channel) PROVE FlowInv'
  BY <1>5 DEF SubscribeAck, restVars, FlowInv
<1>6. CASE StaticDisconnected
  BY <1>6 DEF StaticDisconnected, restVars, FlowInv
<1>7. CASE RestConnected
  BY <1>7 DEF RestConnected, staticVars, FlowInv
<1>8. CASE RestDisconnected
  <2>1. \A type \in Types :
            /\ outcome'[type] = CASE outcome[type] = "waiting" -> "lost"
                                  [] outcome[type] = "failed"  -> "cleared"
                                  [] OTHER -> outcome[type]
            /\ lost'[type] = lost[type] + IF type \in unanswered THEN 1 ELSE 0
            /\ lost[type] \in Nat
    BY <1>0, <1>8 DEF RestDisconnected, Severed, TypeOK
  <2>2. \A type \in Types :
            /\ outcome[type] # "none" => outcome'[type] # "none"
            /\ outcome[type] \in {"failed", "cleared"} => outcome'[type] = "cleared"
    BY <2>1
  <2>3. \A type \in Types : lost[type] > 0 \/ type \in unanswered => lost'[type] > 0
    BY <2>1
  <2>4. inflight => \E type \in Types : lost'[type] > 0 \/ outcome'[type] = "cleared"
    <3> SUFFICES ASSUME inflight
                 PROVE  \E type \in Types : lost'[type] > 0 \/ outcome'[type] = "cleared"
      OBVIOUS
    <3>1. CASE downloading # {}
      <4>1. PICK type \in Types : type \in unanswered \/ outcome[type] = "failed"
        BY <1>0, <3>1 DEF TypeOK, DownloadInv, FlagsMatchRequests
      <4> QED
        BY <2>2, <2>3, <4>1
    <3>2. CASE downloading = {}
      BY <2>2, <2>3, <3>2 DEF FlowInv
    <3> QED
      BY <3>1, <3>2
  <2>5. UNCHANGED <<staticVars, pending, inflight>>
    BY <1>8 DEF RestDisconnected
  <2> QED
    BY <2>2, <2>4, <2>5 DEF staticVars, FlowInv
<1>9. CASE RestTimer
  <2>1. /\ downloading' # {} /\ \A type \in Types : outcome'[type] # "none"
    BY <1>9 DEF RestTimer, Types
  <2> QED
    BY <2>1 DEF FlowInv
<1>10. ASSUME inflight' = (inflight /\ downloading' # {}),
              \A type \in Types : outcome[type] # "none" => outcome'[type] # "none",
              UNCHANGED <<staticVars, pending>>
       PROVE  FlowInv'
  BY <1>10 DEF staticVars, FlowInv
<1>11. ASSUME NEW type \in Types, Answer(type) \/ Failure(type) \/ LostAnswer(type)
       PROVE  FlowInv'
  <2>1. \A t \in Types : outcome[t] # "none" => outcome'[t] # "none"
    BY <1>0, <1>11 DEF Answer, Failure, LostAnswer, TypeOK
  <2> QED
    BY <1>10, <1>11, <2>1 DEF Answer, Failure, LostAnswer, CommitUnlessDownloading
<1>12. CASE UNCHANGED vars
  BY <1>12 DEF vars, FlowInv
<1> QED
  BY <1>2, <1>3, <1>4, <1>5, <1>6, <1>7, <1>8, <1>9, <1>11, <1>12 DEF Next

\* None of the steps that Fairness is about is possible: both connections are up and
\* nothing is left to send, to acknowledge, to answer or to call back.
AtRest ==
    /\ status = "READY" /\ queue = <<>> /\ awaiting = {}
    /\ rest
    /\ ~inflight => ~pending
    /\ unanswered = {}
    /\ \A type \in Types : lost[type] = 0

\* The instruments were asked for and the request is committed, or an HTTP request failed.
Settled ==
    \/ ~pending /\ ~inflight /\ \A type \in Types : outcome[type] # "none"
    \/ \E type \in Types : outcome[type] \in {"failed", "cleared"}

LEMMA SettledAtRest == DownloadInv /\ FlowInv /\ AtRest => Settled
<1> SUFFICES ASSUME DownloadInv, FlowInv, AtRest,
                    \A type \in Types : outcome[type] \notin {"failed", "cleared"}
             PROVE  ~pending /\ ~inflight /\ \A type \in Types : outcome[type] # "none"
  BY DEF Settled
<1>1. downloading = {}
  BY DEF DownloadInv, TypeOK, FlagsMatchRequests, AtRest
<1>2. ~inflight
  BY <1>1 DEF FlowInv, AtRest
<1>3. ~pending
  BY <1>2 DEF AtRest
<1>4. \A type \in Types : outcome[type] # "none"
  BY <1>3 DEF FlowInv, AtRest
<1> QED
  BY <1>2, <1>3, <1>4

\* StaticData and Rest only come to rest when the instruments were asked for and the
\* request is committed, over any number of lost connections, unless an HTTP request
\* failed: the safe half of EventuallyCommitted.
THEOREM InstrumentsNeverStuck == Spec => [](AtRest => Settled)
  BY InitDownloadInv, NextDownloadInv, InitFlowInv, NextFlowInv, SettledAtRest, PTL DEF Spec


-----------------------------------------------------------------------------
(* What clients are told of an instrument.  The argument: while the        *)
(* exchange pushes, the messages on their way are exactly the versions     *)
(* that clients have not been told of, from the request on.                *)

\* The instrument is pushed from its subscription to the loss of the session, and a
\* download is relied on only where it was asked for under that subscription.
PushedInv ==
    /\ queued # 0 => Pushes
    /\ covered => Pushes
    /\ basis # "none" => covered

\* What was pushed since the request has reached clients, but for what is on its way.
CaughtUpInv ==
    covered /\ InstrumentType \in unanswered /\ version - queued > askedAt
        => published = version - queued

UpdatesInv ==
    /\ UpdatesTypeOK
    /\ PushedInv
    /\ CaughtUpInv
    /\ StatusCurrent

\* Every step of the composition is a step, or a stutter, of the download.
LEMMA NextUpdatesIsNext == [NextUpdates]_allVars => [Next]_vars
<1>1. CASE Elsewhere
  BY <1>1 DEF Elsewhere, Next
<1>2. CASE Lost \/ GetInstruments
  BY <1>2 DEF Lost, GetInstruments, Next
<1>3. ASSUME Answer(InstrumentType) PROVE Next
  BY <1>3, InstrumentTypeAssumption DEF Next
<1>4. (\E asOf \in 0 .. version : InstrumentsAck(asOf)) \/ InstrumentsRefused
          => Answer(InstrumentType)
  BY DEF InstrumentsAck, InstrumentsRefused
<1>5. Instruments \/ Change \/ UNCHANGED allVars => UNCHANGED vars
  BY DEF Instruments, Change, allVars
<1> QED
  BY <1>1, <1>2, <1>3, <1>4, <1>5 DEF NextUpdates

\* Whatever the exchange pushes, it goes on pushing until the session is lost.
LEMMA PushesLast ==
    ASSUME TypeOK, Next, ~StaticDisconnected, Pushes
    PROVE  Pushes'
<1> USE DEF Pushes, TypeOK
<1>1. CASE Ready \/ LoginAck
  BY <1>1 DEF Ready, LoginAck
<1>2. CASE StaticTimer
  <2>1. /\ Head(queue) = queue[1]
        /\ Len(queue) \in Nat \ {0}
        /\ DOMAIN queue = 1 .. Len(queue)
        /\ Tail(queue) \in Seq({"status"} \union Types)
        /\ Len(Tail(queue)) = Len(queue) - 1
        /\ \A i \in 1 .. Len(Tail(queue)) : Tail(queue)[i] = queue[i + 1]
    BY <1>2, HeadTailProperties DEF StaticTimer
  <2>2. InstrumentType \notin awaiting'
    BY <1>2, <2>1 DEF StaticTimer
  <2>3. \A i \in DOMAIN Tail(queue) : i \in 1 .. Len(Tail(queue)) /\ i + 1 \in DOMAIN queue
    BY <2>1
  <2>4. \A i \in DOMAIN queue' : queue'[i] # InstrumentType
    BY <1>2, <2>1, <2>3 DEF StaticTimer
  <2> QED
    BY <1>2, <2>2, <2>4 DEF StaticTimer
<1>3. ASSUME NEW channel \in {"status"} \union Types, SubscribeAck(channel) PROVE Pushes'
  BY <1>3 DEF SubscribeAck
<1>4. CASE UNCHANGED staticVars
  BY <1>4 DEF staticVars
<1>5. CASE \/ RestConnected
           \/ RestDisconnected
           \/ RestTimer
           \/ \E type \in Types : Answer(type) \/ Failure(type) \/ LostAnswer(type)
  <2>1. UNCHANGED staticVars
    BY <1>5 DEF RestConnected, RestDisconnected, RestTimer, Answer, Failure, LostAnswer
  <2> QED
    BY <2>1, <1>4
<1> QED
  BY <1>1, <1>2, <1>3, <1>5 DEF Next

LEMMA InitUpdatesInv == InitUpdates => UpdatesInv
<1> SUFFICES ASSUME InitUpdates PROVE UpdatesInv
  OBVIOUS
<1>1. TypeOK
  BY InitTypeOK DEF InitUpdates
<1>2. covered \in BOOLEAN
  BY Zenon DEF InitUpdates
<1> QED
  BY <1>1, <1>2, VersionsAssumption
  DEF InitUpdates, UpdatesInv, UpdatesTypeOK, PushedInv, CaughtUpInv, StatusCurrent

LEMMA NextUpdatesInv == UpdatesInv /\ [NextUpdates]_allVars => UpdatesInv'
<1> SUFFICES ASSUME UpdatesInv, [NextUpdates]_allVars PROVE UpdatesInv'
  OBVIOUS
<1>1. TypeOK /\ TypeOK'
  BY NextUpdatesIsNext, NextTypeOK DEF UpdatesInv, UpdatesTypeOK
<1>2. /\ MaxVersions \in Nat
      /\ InstrumentType \in Types
      /\ version \in Nat /\ version <= MaxVersions
      /\ queued \in Nat /\ queued <= version
      /\ askedAt \in Nat /\ askedAt <= version
      /\ published \in Nat /\ published <= version
      /\ announced = IF published > 0 THEN 1 ELSE 0
      /\ basis \in {"none", "snapshot", "overtaken"}
  BY VersionsAssumption, InstrumentTypeAssumption DEF UpdatesInv, UpdatesTypeOK
<1>3. covered \in BOOLEAN
  BY DEF UpdatesInv, UpdatesTypeOK
<1>4. PushedInv /\ CaughtUpInv /\ StatusCurrent
  BY DEF UpdatesInv
<1> USE DEF PushedInv, CaughtUpInv, StatusCurrent
<1>5. CASE Elsewhere
  <2>1. UNCHANGED updateVars /\ Next
    BY <1>5 DEF Elsewhere, Next
  <2>2. ASSUME Pushes PROVE Pushes'
    <3>1. CASE ~StaticDisconnected
      BY <2>2, <3>1, <2>1, <1>1, PushesLast
    <3>2. CASE \/ Ready
               \/ LoginAck
               \/ StaticTimer
               \/ \E channel \in {"status"} \union Types : SubscribeAck(channel)
      <4>1. status' # "DISCONNECTED"
        BY <2>2, <3>2 DEF Ready, Done, LoginAck, StaticTimer, SubscribeAck, Pushes
      <4>2. ~StaticDisconnected
        BY <4>1 DEF StaticDisconnected
      <4> QED
        BY <4>2, <3>1
    <3>3. CASE \/ RestConnected
               \/ RestDisconnected
               \/ \E type \in Types : Answer(type) \/ Failure(type) \/ LostAnswer(type)
      BY <2>2, <3>3 DEF RestConnected, RestDisconnected, Answer, Failure, LostAnswer, staticVars,
                  Pushes
    <3> QED
      BY <1>5, <3>2, <3>3 DEF Elsewhere
  <2>3. unanswered' \subseteq unanswered
    BY <1>5 DEF Elsewhere, Ready, LoginAck, StaticTimer, SubscribeAck, RestConnected,
                RestDisconnected, Answer, Failure, LostAnswer, restVars
  <2>4. PushedInv' /\ CaughtUpInv' /\ StatusCurrent'
    BY <2>1, <2>2, <2>3, <1>4 DEF updateVars
  <2>5. UpdatesTypeOK'
    BY <2>1, <1>1 DEF updateVars, UpdatesInv, UpdatesTypeOK
  <2> QED
    BY <2>4, <2>5 DEF UpdatesInv
<1>6. CASE Lost
  <2>1. covered' \in BOOLEAN
    BY <1>6, Zenon DEF Lost
  <2>2. UpdatesTypeOK'
    BY <1>6, <2>1, <1>1, <1>2 DEF Lost, UpdatesTypeOK
  <2>3. PushedInv' /\ CaughtUpInv' /\ StatusCurrent'
    BY <1>6 DEF Lost
  <2> QED
    BY <2>2, <2>3 DEF UpdatesInv
<1>7. CASE GetInstruments
  <2>1. covered' \in BOOLEAN
    BY <1>7, Zenon DEF GetInstruments, Pushes
  <2>2. UpdatesTypeOK'
    BY <1>7, <2>1, <1>1, <1>2 DEF GetInstruments, UpdatesTypeOK
  <2>3. Pushes' = Pushes
    BY <1>7 DEF GetInstruments, RestTimer, staticVars, Pushes
  <2>4. PushedInv'
    BY <1>7, <2>3, <1>4 DEF GetInstruments
  <2>5. CaughtUpInv' /\ StatusCurrent'
    BY <1>7, <1>2, <1>4 DEF GetInstruments
  <2> QED
    BY <2>2, <2>4, <2>5 DEF UpdatesInv
<1>8. ASSUME NEW asOf \in 0 .. version, InstrumentsAck(asOf) PROVE UpdatesInv'
  <2>1. /\ asOf \in Nat /\ askedAt <= asOf /\ asOf <= version
        /\ InstrumentType \in unanswered
        /\ InstrumentType \notin unanswered'
        /\ UNCHANGED <<version, queued, askedAt, covered>>
        /\ Pushes' = Pushes
    BY <1>8, <1>1, <1>2 DEF InstrumentsAck, Answer, staticVars, Pushes, TypeOK
  <2>2. /\ published' = IF asOf > 0 THEN asOf ELSE published
        /\ announced' = announced + IF asOf > 0 /\ published = 0 THEN 1 ELSE 0
    BY <1>8, <1>2, <2>1 DEF InstrumentsAck, Publish
  <2>3. basis' = CASE ~covered -> basis
                   [] covered /\ asOf < published -> "overtaken"
                   [] OTHER -> "snapshot"
    BY <1>8 DEF InstrumentsAck
  <2>4. basis' \in {"none", "snapshot", "overtaken"}
    BY <2>3, <1>2
  <2>5. UpdatesTypeOK'
    BY <2>1, <2>2, <2>4, <1>1, <1>2, <1>3 DEF UpdatesTypeOK
  <2>6. PushedInv' /\ CaughtUpInv'
    BY <2>1, <2>3, <1>4
  <2>7. StatusCurrent'
    <3> SUFFICES ASSUME basis' = "snapshot", queued' = 0 PROVE published' = version'
      OBVIOUS
    <3>1. covered /\ ~(asOf < published)
      BY <2>3, <1>4
    <3>2. CASE version > askedAt
      BY <3>1, <3>2, <2>1, <2>2, <1>2, <1>4
    <3>3. CASE version = askedAt
      BY <3>1, <3>3, <2>1, <2>2, <1>2
    <3> QED
      BY <3>2, <3>3, <1>2
  <2> QED
    BY <2>5, <2>6, <2>7 DEF UpdatesInv
<1>9. CASE InstrumentsRefused
  <2>1. /\ UNCHANGED updateVars
        /\ Pushes' = Pushes
        /\ unanswered' \subseteq unanswered
    BY <1>9 DEF InstrumentsRefused, Answer, staticVars, Pushes
  <2>2. PushedInv' /\ CaughtUpInv' /\ StatusCurrent'
    BY <2>1, <1>4 DEF updateVars
  <2>3. UpdatesTypeOK'
    BY <2>1, <1>1 DEF updateVars, UpdatesInv, UpdatesTypeOK
  <2> QED
    BY <2>2, <2>3 DEF UpdatesInv
<1>10. CASE Instruments
  <2>1. /\ queued > 0
        /\ queued' = queued - 1
        /\ published' = version - queued + 1
        /\ announced' = announced + IF published = 0 THEN 1 ELSE 0
        /\ UNCHANGED <<version, askedAt, covered, unanswered>>
        /\ Pushes' = Pushes
    BY <1>10 DEF Instruments, Publish, vars, Pushes
  <2>2. basis' = IF basis = "overtaken" THEN "snapshot" ELSE basis
    BY <1>10 DEF Instruments
  <2>3. UpdatesTypeOK'
    BY <2>1, <2>2, <1>1, <1>2, <1>3 DEF UpdatesTypeOK
  <2>4. PushedInv'
    BY <2>1, <2>2, <1>2, <1>4
  <2>5. CaughtUpInv' /\ StatusCurrent'
    BY <2>1, <1>2
  <2> QED
    BY <2>3, <2>4, <2>5 DEF UpdatesInv
<1>11. CASE Change
  <2>1. /\ version < MaxVersions
        /\ version' = version + 1
        /\ queued' = queued + IF Pushes THEN 1 ELSE 0
        /\ UNCHANGED <<askedAt, covered, published, announced, basis, unanswered>>
        /\ Pushes' = Pushes
    BY <1>11 DEF Change, vars, Pushes
  <2>2. UpdatesTypeOK'
    BY <2>1, <1>1, <1>2, <1>3 DEF UpdatesTypeOK
  <2>3. PushedInv'
    BY <2>1, <1>2, <1>4
  <2>4. covered => queued' = queued + 1
    BY <2>1, <1>4
  <2>5. CaughtUpInv' /\ StatusCurrent'
    BY <2>1, <2>4, <1>2, <1>4
  <2> QED
    BY <2>2, <2>3, <2>5 DEF UpdatesInv
<1>12. CASE UNCHANGED allVars
  <2>1. UNCHANGED <<vars, updateVars>>
    BY <1>12 DEF allVars
  <2>2. Pushes' = Pushes /\ unanswered' = unanswered
    BY <2>1 DEF vars, Pushes
  <2>3. PushedInv' /\ CaughtUpInv' /\ StatusCurrent'
    BY <2>1, <2>2, <1>4 DEF updateVars
  <2>4. UpdatesTypeOK'
    BY <2>1, <1>1 DEF updateVars, UpdatesInv, UpdatesTypeOK
  <2> QED
    BY <2>3, <2>4 DEF UpdatesInv
<1> QED
  BY <1>5, <1>6, <1>7, <1>8, <1>9, <1>10, <1>11, <1>12 DEF NextUpdates

\* For any number of changes and lost connections, types hold and the symbol is announced
\* once, whichever of StaticData and Rest meets it first.
THEOREM UpdatesTypeCorrect == SpecUpdates => []UpdatesTypeOK
<1>1. UpdatesInv => UpdatesTypeOK
  BY DEF UpdatesInv
<1> QED
  BY InitUpdatesInv, NextUpdatesInv, <1>1, PTL DEF SpecUpdates

\* Clients hold the status of the exchange once a download asked for under the
\* subscription is in and what was pushed is handled.
THEOREM StatusIsCurrent == SpecUpdates => []StatusCurrent
<1>1. UpdatesInv => StatusCurrent
  BY DEF UpdatesInv
<1> QED
  BY InitUpdatesInv, NextUpdatesInv, <1>1, PTL DEF SpecUpdates

=============================================================================
