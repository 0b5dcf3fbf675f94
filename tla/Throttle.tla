----------------------------- MODULE Throttle -----------------------------
(***************************************************************************)
(* The throttle that all connections share.  A response of the exchange    *)
(* reaches it in events, its headers before its status, and those of two   *)
(* connections interleave.  Retry-After, a time in milliseconds, and the   *)
(* statuses 403 and 429 move suspend_until_, before which the libraries    *)
(* send nothing.                                                           *)
(*                                                                         *)
(* The system clock and the realtime clock advance together here.          *)
(***************************************************************************)
EXTENDS Integers

CONSTANTS
    Connections,
    RetryAfters,       \* what a Retry-After header may say
    DEFAULT_BACKOFF,
    BLOCKED_BACKOFF,
    MaxTime            \* bound: how long the clock runs

ASSUME RetryAftersAssumption == RetryAfters \subseteq Nat
ASSUME BackoffAssumption == {DEFAULT_BACKOFF, BLOCKED_BACKOFF} \subseteq Nat \ {0}
ASSUME MaxTimeAssumption == MaxTime \in Nat

VARIABLES
    enabled,         \* Throttle::enabled_
    retry_after,     \* Throttle::params_.retry_after
    suspend_until,   \* Throttle::suspend_until_
    receiving,       \* connections that are in the middle of a response
    now,             \* the clock
    told,            \* history: times to come that a Retry-After has named
    blocked          \* history: when the last 403 has been waited for

throttleVars == <<enabled, retry_after, suspend_until, receiving, now, told, blocked>>

Later(s, t) == IF s < t THEN t ELSE s

ThrottleInit ==
    /\ enabled \in BOOLEAN
    /\ retry_after = 0
    /\ suspend_until = 0
    /\ receiving = {}
    /\ now = 0
    /\ told = {}
    /\ blocked = 0

MessageBegin(connection) ==
    /\ connection \notin receiving
    /\ receiving' = receiving \union {connection}
    /\ UNCHANGED <<enabled, retry_after, suspend_until, now, told, blocked>>

SuspendLast(value) ==
    suspend_until' = IF now < value THEN value ELSE now + DEFAULT_BACKOFF

\* A time in the future is waited for, any other value is the default back-off.
Suspend(value) ==
    suspend_until' = Later(suspend_until, IF now < value THEN value ELSE now + DEFAULT_BACKOFF)

\* A Retry-After header; the value it already had changes nothing.
MessageHeader(connection, value) ==
    /\ connection \in receiving
    /\ retry_after' = value
    /\ IF enabled /\ value # retry_after THEN Suspend(value) ELSE UNCHANGED suspend_until
    /\ told' = told \union IF now < value THEN {value} ELSE {}
    /\ UNCHANGED <<enabled, receiving, now, blocked>>

\* The end of a response of any other status.
MessageEnd(connection) ==
    /\ connection \in receiving
    /\ receiving' = receiving \ {connection}
    /\ UNCHANGED <<enabled, retry_after, suspend_until, now, told, blocked>>

\* 429: the default back-off, if there was no suspension ever before.
TooManyRequestsAlways(connection) ==
    /\ connection \in receiving
    /\ receiving' = receiving \ {connection}
    /\ suspend_until' = IF enabled THEN now + DEFAULT_BACKOFF ELSE suspend_until
    /\ UNCHANGED <<enabled, retry_after, now, told, blocked>>

TooManyRequests(connection) ==
    /\ connection \in receiving
    /\ receiving' = receiving \ {connection}
    /\ suspend_until' = IF enabled /\ suspend_until = 0 THEN now + DEFAULT_BACKOFF ELSE suspend_until
    /\ UNCHANGED <<enabled, retry_after, now, told, blocked>>

ForbiddenAlways(connection) ==
    /\ connection \in receiving
    /\ receiving' = receiving \ {connection}
    /\ suspend_until' = Later(suspend_until, now + BLOCKED_BACKOFF)
    /\ blocked' = now + BLOCKED_BACKOFF
    /\ UNCHANGED <<enabled, retry_after, now, told>>

\* 403.
Forbidden(connection) ==
    /\ connection \in receiving
    /\ receiving' = receiving \ {connection}
    /\ suspend_until' = IF enabled THEN Later(suspend_until, now + BLOCKED_BACKOFF) ELSE suspend_until
    /\ blocked' = now + BLOCKED_BACKOFF
    /\ UNCHANGED <<enabled, retry_after, now, told>>

Clock ==
    /\ now < MaxTime
    /\ now' = now + 1
    /\ UNCHANGED <<enabled, retry_after, suspend_until, receiving, told, blocked>>

ThrottleNext ==
    \/ \E connection \in Connections :
        \/ MessageBegin(connection)
        \/ \E value \in RetryAfters : MessageHeader(connection, value)
        \/ MessageEnd(connection)
        \/ TooManyRequests(connection)
        \/ Forbidden(connection)
    \/ Clock

ThrottleSpec == ThrottleInit /\ [][ThrottleNext]_throttleVars

-----------------------------------------------------------------------------
(* Properties. *)

\* Type invariant of the throttle; switched off, it never suspends anything.
ThrottleTypeOK ==
    /\ enabled \in BOOLEAN
    /\ retry_after \in Nat
    /\ suspend_until \in Nat
    /\ receiving \subseteq Connections
    /\ now \in Nat
    /\ told \subseteq Nat
    /\ blocked \in Nat
    /\ ~enabled => suspend_until = 0

\* Every time to come that a Retry-After has named is waited for, also the one that is
\* not looked at again because its value is that of the header before, and after a 403
\* nothing is sent for BLOCKED_BACKOFF ("very serious"): no later header or status, of any
\* connection, ends either earlier.
SuspensionsHonoured ==
    enabled =>
        /\ \A time \in told : time <= suspend_until
        /\ blocked <= suspend_until

=============================================================================
