------------------------ MODULE InstrumentUpdates ------------------------
(***************************************************************************)
(* What clients are told of an instrument.  StaticData subscribes the      *)
(* instruments of each type over its websocket, and once that is done has  *)
(* Rest download them over HTTP.  Both publish the ReferenceData and the   *)
(* MarketStatus of each instrument, with no time and no sequence number,   *)
(* and both announce its symbol to the Controller (SymbolsUpdate) unless   *)
(* all_symbols holds it.  Answers and pushed messages overtake each other. *)
(*                                                                         *)
(* Every step of InstrumentsDownload is a step here, with what it does to  *)
(* one instrument: that which is listed at version 1 and changed (say,     *)
(* suspended) at each later one.                                           *)
(***************************************************************************)
EXTENDS InstrumentsDownload

CONSTANTS
    InstrumentType,  \* the type of the instrument
    MaxVersions      \* bound: how often it is listed or changed

ASSUME InstrumentTypeAssumption == InstrumentType \in Types
ASSUME VersionsAssumption == MaxVersions \in Nat

VARIABLES
    version,     \* the instrument at the exchange; 0 before it is listed
    queued,      \* messages on their way, one for each of the last versions
    askedAt,     \* the version when the request in flight was sent
    covered,     \* history: this session had subscribed when that request was sent
    published,   \* the version whose MarketStatus clients hold
    announced,   \* SymbolsUpdates sent with the symbol
    basis        \* history: what this session's download obtained: none, a snapshot,
                 \* or one overtaken by a message pushed before it

updateVars == <<version, queued, askedAt, covered, published, announced, basis>>
allVars == <<vars, updateVars>>

InitUpdates ==
    /\ Init
    /\ version = 0
    /\ queued = 0
    /\ askedAt = 0
    /\ covered = FALSE
    /\ published = 0
    /\ announced = 0
    /\ basis = "none"

-----------------------------------------------------------------------------
(* The exchange pushes the instruments of a type that it has acknowledged. *)

Pushes ==
    /\ status = "READY"
    /\ InstrumentType \notin awaiting
    /\ \A i \in DOMAIN queue : queue[i] # InstrumentType

Change ==
    /\ version < MaxVersions
    /\ version' = version + 1
    /\ queued' = queued + IF Pushes THEN 1 ELSE 0
    /\ UNCHANGED <<vars, askedAt, covered, published, announced, basis>>

-----------------------------------------------------------------------------
(* What both handlers do with an instrument: MarketStatus, and its symbol *)
(* if it is new.                                                          *)

PublishAndAnnounce(v) ==
    /\ published' = v
    /\ announced' = announced + 1

Publish(v) ==
    /\ published' = v
    /\ announced' = announced + IF published = 0 THEN 1 ELSE 0

InstrumentsOfNewSymbol ==
    /\ queued > 0
    /\ queued' = queued - 1
    /\ IF published = 0
       THEN Publish(version - queued + 1)
       ELSE UNCHANGED <<published, announced>>
    /\ basis' = IF basis = "overtaken" THEN "snapshot" ELSE basis
    /\ UNCHANGED <<vars, version, askedAt, covered>>

\* StaticData receives the next message of the channel.
Instruments ==
    /\ queued > 0
    /\ queued' = queued - 1
    /\ Publish(version - queued + 1)
    /\ basis' = IF basis = "overtaken" THEN "snapshot" ELSE basis
    /\ UNCHANGED <<vars, version, askedAt, covered>>

\* A lost websocket takes with it what was on its way.
Lost ==
    /\ StaticDisconnected
    /\ queued' = 0
    /\ covered' = FALSE
    /\ basis' = "none"
    /\ UNCHANGED <<version, askedAt, published, announced>>

\* Rest asks for the instruments.
GetInstruments ==
    /\ RestTimer
    /\ askedAt' = version
    /\ covered' = Pushes
    /\ UNCHANGED <<version, queued, published, announced, basis>>

\* The answer has the instrument of a moment between the request and now.
InstrumentsAck(asOf) ==
    /\ Answer(InstrumentType)
    /\ asOf \in askedAt .. version
    /\ IF asOf > 0 THEN Publish(asOf) ELSE UNCHANGED <<published, announced>>
    /\ basis' = CASE ~covered -> basis
                  [] covered /\ asOf < published -> "overtaken"
                  [] OTHER -> "snapshot"
    /\ UNCHANGED <<version, queued, askedAt, covered>>

\* The exchange answered with an error code.
InstrumentsRefused ==
    /\ Answer(InstrumentType)
    /\ UNCHANGED updateVars

-----------------------------------------------------------------------------

\* Steps of InstrumentsDownload that leave the instrument alone.
Elsewhere ==
    /\ \/ Ready
       \/ LoginAck
       \/ StaticTimer
       \/ \E channel \in {"status"} \union Types : SubscribeAck(channel)
       \/ RestConnected
       \/ RestDisconnected
       \/ \E type \in Types \ {InstrumentType} : Answer(type)
       \/ \E type \in Types : Failure(type)
       \/ \E type \in Types : LostAnswer(type)
    /\ UNCHANGED updateVars

NextUpdates ==
    \/ Elsewhere
    \/ Lost
    \/ GetInstruments
    \/ \E asOf \in 0 .. version : InstrumentsAck(asOf)
    \/ InstrumentsRefused
    \/ Instruments
    \/ Change

SpecUpdates == InitUpdates /\ [][NextUpdates]_allVars

\* The fairness of InstrumentsDownload is all that its liveness needs.
FairSpecUpdates == SpecUpdates /\ Fairness

-----------------------------------------------------------------------------
(* Properties. *)

\* Type invariant, of the download and of the instrument.  Its symbol is announced once,
\* whichever of the two handlers meets it first and however often it comes again.
UpdatesTypeOK ==
    /\ TypeOK
    /\ version \in 0 .. MaxVersions
    /\ queued \in 0 .. version
    /\ askedAt \in 0 .. version
    /\ covered \in BOOLEAN
    /\ published \in 0 .. version
    /\ announced = IF published > 0 THEN 1 ELSE 0
    /\ basis \in {"none", "snapshot", "overtaken"}

\* Once a session that subscribed the instrument's type before it asked for the
\* instruments has its answer and has handled what was pushed, clients hold the status
\* of the exchange: only a message received while the answer was on its way can be
\* undone by it.
StatusCurrent ==
    basis = "snapshot" /\ queued = 0 => published = version

=============================================================================
