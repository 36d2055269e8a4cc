---------------------------- MODULE EventEmitter ----------------------------
(***************************************************************************)
(* The event source of the log poller's integration test                   *)
(* (integration-tests/smoke/logpoller/helper/event_emitter.go): a loop     *)
(* that has a counter contract emit TARGET events, and its Stop.           *)
(*                                                                         *)
(* Sections under the mutex that do not block inside are single steps.     *)
(* Stop blocks inside its section; locked says that it holds the mutex.    *)
(* The context of the loop is the test's, which ends after Stop.           *)
(***************************************************************************)
EXTENDS Naturals

CONSTANTS
    TARGET,        \* targetCounter
    MAX_FAILS      \* bound: sends that report an error

VARIABLES
    loop,          \* where eventLoop is: "select", "sending", or "done" is closed
    accepted,      \* the wallet has executed the message being sent
    inflight,      \* messages from the wallet to the counter contract
    sentCounter,
    fails,         \* sends that failed, and how many of them were executed
    unnoticed,
    stop           \* Stop: "none", "waiting" for done with the mutex, "returned"

emitterVars == <<loop, accepted, inflight, sentCounter, fails, unnoticed, stop>>

locked == stop = "waiting"

EmitterInit ==
    /\ loop = "select" /\ accepted = FALSE /\ inflight = 0 /\ sentCounter = 0
    /\ fails = 0 /\ unnoticed = 0 /\ stop = "none"

\* The tick of a loop that has sent enough: done is closed.
TargetReached ==
    /\ loop = "select" /\ ~locked
    /\ sentCounter >= TARGET
    /\ loop' = "done"
    /\ UNCHANGED <<accepted, inflight, sentCounter, fails, unnoticed, stop>>

\* The tick of one that has not: SendWaitTransaction is called.
Tick ==
    /\ loop = "select" /\ ~locked
    /\ sentCounter < TARGET
    /\ loop' = "sending" /\ accepted' = FALSE
    /\ UNCHANGED <<inflight, sentCounter, fails, unnoticed, stop>>

\* The wallet executes the external message and sends on to the counter.
WalletExecutes ==
    /\ loop = "sending" /\ ~accepted
    /\ accepted' = TRUE
    /\ inflight' = inflight + 1
    /\ UNCHANGED <<loop, sentCounter, fails, unnoticed, stop>>

\* It returns when the transaction of the wallet is found.
SendSucceeds ==
    /\ loop = "sending" /\ accepted /\ ~locked
    /\ sentCounter' = sentCounter + 1
    /\ loop' = "select"
    /\ UNCHANGED <<accepted, inflight, fails, unnoticed, stop>>

\* Or with an error, whether or not the wallet has executed the message.
SendFails ==
    /\ loop = "sending" /\ fails < MAX_FAILS
    /\ loop' = "select"
    /\ fails' = fails + 1
    /\ unnoticed' = unnoticed + (IF accepted THEN 1 ELSE 0)
    /\ UNCHANGED <<accepted, inflight, sentCounter, stop>>

\* Stop takes the mutex and waits for done.
Stop ==
    /\ stop = "none"
    /\ stop' = "waiting"
    /\ UNCHANGED <<loop, accepted, inflight, sentCounter, fails, unnoticed>>

StopReturns ==
    /\ stop = "waiting" /\ loop = "done"
    /\ stop' = "returned"
    /\ UNCHANGED <<loop, accepted, inflight, sentCounter, fails, unnoticed>>

eventLoop == TargetReached \/ Tick \/ SendSucceeds \/ SendFails

=============================================================================
