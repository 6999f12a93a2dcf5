--------------------------- MODULE WatchConnection ---------------------------
(***************************************************************************)
(* The watch stream and the online state.  RemoteStore opens the watch     *)
(* stream while some target is listened to, lets it go idle when none is,  *)
(* restarts it after an error, and stops it when the network is disabled.  *)
(* OnlineStateTracker turns what happens to the stream into the state the  *)
(* views are told: Unknown while a connection is attempted, Online once    *)
(* the backend has spoken, Offline after MaxWatchStreamFailures failures   *)
(* or when the attempt takes longer than the online state timer.           *)
(*                                                                         *)
(* Handlers run one at a time on the worker queue; the user, the timers,   *)
(* the network and the backend interleave.                                 *)
(***************************************************************************)
EXTENDS Naturals

CONSTANTS
    Targets,                  \* the targets that can be listened to
    MaxWatchStreamFailures,   \* kMaxWatchStreamFailures, 1 in the code
    MaxFaults                 \* bound on stream errors and calls about the network

ASSUME WatchAssumption ==
    /\ MaxWatchStreamFailures \in Nat \ {0}
    /\ MaxFaults \in Nat

VARIABLES
    listenTargets,      \* listen_targets_
    isNetworkEnabled,   \* is_network_enabled_
    streamState,        \* state_ of the watch stream
    idleTimer,          \* idleness_timer_ is running
    tracker,            \* the OnlineStateTracker
    ok,                 \* no assertion of RemoteStore has failed
    faults              \* how many errors and network calls there have been

vars == <<listenTargets, isNetworkEnabled, streamState, idleTimer, tracker, ok, faults>>

StreamStates == {"Initial", "Starting", "Open", "Error", "Backoff"}

\* Open stands for the code's Open and Healthy.
IsStarted(s) == s \in {"Starting", "Backoff", "Open"}

-----------------------------------------------------------------------------
(* OnlineStateTracker; ok is FALSE once one of its assertions has failed.  The *)
(* counter goes on past the maximum; MaxFaults bounds it.                      *)

Trackers == [state    : {"Unknown", "Online", "Offline"},
             failures : Nat,
             timer    : BOOLEAN,
             ok       : BOOLEAN]

HandleWatchStreamStart(k) ==
    IF k.failures # 0
    THEN k
    ELSE [state |-> "Unknown", failures |-> 0, timer |-> TRUE, ok |-> k.ok /\ ~ k.timer]

\* Mutant: giving up leaves the timer running.
MutHandleWatchStreamFailure(k) ==
    IF k.state = "Online"
    THEN [k EXCEPT !.state = "Unknown"]
    ELSE [k EXCEPT !.failures = @ + 1, !.state = "Offline"]

HandleWatchStreamFailure(k) ==
    IF k.state = "Online"
    THEN [state |-> "Unknown", failures |-> k.failures, timer |-> k.timer,
          ok |-> k.ok /\ k.failures = 0 /\ ~ k.timer]
    ELSE IF k.failures + 1 >= MaxWatchStreamFailures
    THEN [state |-> "Offline", failures |-> k.failures + 1, timer |-> FALSE, ok |-> k.ok]
    ELSE [k EXCEPT !.failures = @ + 1]

UpdateState(k, new) == [state |-> new, failures |-> 0, timer |-> FALSE, ok |-> k.ok]

-----------------------------------------------------------------------------
(* RemoteStore. *)

\* RemoteStore::Start has run.
Init ==
    /\ listenTargets = {}
    /\ isNetworkEnabled = TRUE
    /\ streamState = "Initial"
    /\ idleTimer = FALSE
    /\ tracker = [state |-> "Unknown", failures |-> 0, timer |-> FALSE, ok |-> TRUE]
    /\ ok = TRUE
    /\ faults = 0

ShouldStartWatchStream(enabled, s, targets) ==
    enabled /\ ~ IsStarted(s) /\ targets # {}

\* Stream::Start: after an error the stream backs off first.
Start(s) == IF s = "Error" THEN "Backoff" ELSE "Starting"

\* RemoteStore::StartWatchStream, from a stream in state s and a tracker k.
StartWatchStream(s, k) ==
    /\ streamState' = Start(s)
    /\ tracker' = HandleWatchStreamStart(k)

\* RemoteStore::Listen for a target that is not listened to yet; on an open stream
\* the request ends the idle check.
Listen(t) ==
    /\ t \notin listenTargets
    /\ listenTargets' = listenTargets \cup {t}
    /\ IF ShouldStartWatchStream(isNetworkEnabled, streamState, listenTargets')
       THEN StartWatchStream(streamState, tracker)
       ELSE UNCHANGED <<streamState, tracker>>
    /\ idleTimer' = (idleTimer /\ streamState # "Open")
    /\ UNCHANGED <<isNetworkEnabled, ok, faults>>

\* RemoteStore::StopListening.
StopListening(t) ==
    /\ t \in listenTargets
    /\ listenTargets' = listenTargets \ {t}
    /\ idleTimer' = IF streamState = "Open" THEN listenTargets' = {} ELSE idleTimer
    /\ tracker' = IF listenTargets' = {} /\ streamState # "Open" /\ isNetworkEnabled
                  THEN UpdateState(tracker, "Unknown")
                  ELSE tracker
    /\ UNCHANGED <<isNetworkEnabled, streamState, ok, faults>>

\* Stream::OnStreamStart and RemoteStore::OnWatchStreamOpen, which sends a request
\* for every target.
OnStreamStart ==
    /\ streamState = "Starting"
    /\ streamState' = "Open"
    /\ idleTimer' = (idleTimer /\ listenTargets = {})
    /\ UNCHANGED <<listenTargets, isNetworkEnabled, tracker, ok, faults>>

\* The backoff timer: Stream::BackoffAndTryRestarting's operation.
BackoffElapsed ==
    /\ streamState = "Backoff"
    /\ streamState' = "Starting"
    /\ UNCHANGED <<listenTargets, isNetworkEnabled, idleTimer, tracker, ok, faults>>

\* Mutant: the stream is not restarted after an error.
MutOnWatchStreamClose ==
    /\ idleTimer' = FALSE
    /\ streamState' = "Error"
    /\ tracker' = UpdateState(tracker, "Unknown")

\* Stream::Close with an error, then RemoteStore::OnWatchStreamClose.
OnWatchStreamClose ==
    /\ idleTimer' = FALSE
    /\ IF ShouldStartWatchStream(isNetworkEnabled, "Error", listenTargets)
       THEN StartWatchStream("Error", HandleWatchStreamFailure(tracker))
       ELSE /\ streamState' = "Error"
            /\ tracker' = UpdateState(tracker, "Unknown")

\* The stream fails while it is opened or open: no credentials, no connection, a
\* status from the backend, an unreadable message.
OnStreamFinish ==
    /\ streamState \in {"Starting", "Open"}
    /\ faults < MaxFaults
    /\ faults' = faults + 1
    /\ OnWatchStreamClose
    /\ UNCHANGED <<listenTargets, isNetworkEnabled, ok>>

\* A message of the backend.  It may report errors on targets, which are dropped
\* (RemoteStore::ProcessTargetError) without a look at whether any is left.
OnWatchStreamChange ==
    /\ streamState = "Open"
    /\ tracker' = UpdateState(tracker, "Online")
    /\ \E rejected \in SUBSET listenTargets : listenTargets' = listenTargets \ rejected
    /\ UNCHANGED <<isNetworkEnabled, streamState, idleTimer, ok, faults>>

\* The idle timer stops the stream; OnWatchStreamClose asserts that nobody needs it.
IdleTimeout ==
    /\ idleTimer
    /\ idleTimer' = FALSE
    /\ streamState' = "Initial"
    /\ ok' = (ok /\ ~ ShouldStartWatchStream(isNetworkEnabled, "Initial", listenTargets))
    /\ tracker' = UpdateState(tracker, "Unknown")
    /\ UNCHANGED <<listenTargets, isNetworkEnabled, faults>>

\* The online state timer, which asserts that nothing has been decided meanwhile.
OnlineStateTimeout ==
    /\ tracker.timer
    /\ tracker' = [state |-> "Offline", failures |-> tracker.failures, timer |-> FALSE,
                   ok |-> tracker.ok /\ tracker.state = "Unknown"]
    /\ UNCHANGED <<listenTargets, isNetworkEnabled, streamState, idleTimer, ok, faults>>

\* RemoteStore::EnableNetwork.  FirestoreClient calls it whether or not the network
\* is disabled.
EnableNetwork ==
    /\ faults < MaxFaults
    /\ faults' = faults + 1
    /\ isNetworkEnabled' = TRUE
    /\ IF ShouldStartWatchStream(TRUE, streamState, listenTargets)
       THEN StartWatchStream(streamState, tracker)
       ELSE tracker' = UpdateState(tracker, "Unknown") /\ UNCHANGED streamState
    /\ UNCHANGED <<listenTargets, idleTimer, ok>>

\* Stream::Stop with the network disabled: a stream that is not started stays as it is.
Stopped(s) == IF IsStarted(s) THEN "Initial" ELSE s

\* Mutant: the online state is left to the streams.
MutDisableNetwork ==
    /\ faults < MaxFaults
    /\ faults' = faults + 1
    /\ isNetworkEnabled' = FALSE
    /\ streamState' = Stopped(streamState)
    /\ idleTimer' = (idleTimer /\ ~ IsStarted(streamState))
    /\ tracker' = IF IsStarted(streamState) THEN UpdateState(tracker, "Unknown")
                                            ELSE tracker
    /\ UNCHANGED <<listenTargets, ok>>

\* RemoteStore::DisableNetwork and DisableNetworkInternal.
DisableNetwork ==
    /\ faults < MaxFaults
    /\ faults' = faults + 1
    /\ isNetworkEnabled' = FALSE
    /\ streamState' = Stopped(streamState)
    /\ idleTimer' = (idleTimer /\ ~ IsStarted(streamState))
    /\ tracker' = UpdateState(tracker, "Offline")
    /\ UNCHANGED <<listenTargets, ok>>

\* Mutant: the online state survives the restart.
MutRestartNetwork ==
    /\ isNetworkEnabled
    /\ faults < MaxFaults
    /\ faults' = faults + 1
    /\ idleTimer' = (idleTimer /\ ~ IsStarted(streamState))
    /\ streamState' = IF listenTargets # {} THEN "Starting" ELSE "Initial"
    /\ UNCHANGED <<listenTargets, isNetworkEnabled, tracker, ok>>

\* RemoteStore::RestartNetwork, called with the network enabled when connectivity or
\* the credentials change: stop, forget the backoff, start again if needed.
RestartNetwork ==
    /\ isNetworkEnabled
    /\ faults < MaxFaults
    /\ faults' = faults + 1
    /\ idleTimer' = (idleTimer /\ ~ IsStarted(streamState))
    /\ LET k == UpdateState(tracker, "Unknown")
       IN  IF listenTargets # {}
           THEN StartWatchStream("Initial", k)
           ELSE streamState' = "Initial" /\ tracker' = k
    /\ UNCHANGED <<listenTargets, isNetworkEnabled, ok>>

Next ==
    \/ \E t \in Targets : Listen(t) \/ StopListening(t)
    \/ OnStreamStart \/ BackoffElapsed \/ OnStreamFinish \/ OnWatchStreamChange
    \/ IdleTimeout \/ OnlineStateTimeout
    \/ EnableNetwork \/ DisableNetwork \/ RestartNetwork

Spec == Init /\ [][Next]_vars

\* The timers of the worker queue fire, connections that are not refused come up, and
\* the backend speaks on them.
FairSpec ==
    /\ Spec
    /\ WF_vars(BackoffElapsed) /\ WF_vars(IdleTimeout) /\ WF_vars(OnlineStateTimeout)
    /\ WF_vars(OnStreamStart) /\ WF_vars(OnWatchStreamChange)

-----------------------------------------------------------------------------
(* Properties. *)

\* The types of the stream's and the tracker's state.
TypeOK ==
    /\ listenTargets \in SUBSET Targets
    /\ isNetworkEnabled \in BOOLEAN
    /\ streamState \in StreamStates
    /\ idleTimer \in BOOLEAN
    /\ tracker \in Trackers
    /\ ok \in BOOLEAN
    /\ faults \in 0..MaxFaults

\* No assertion fails: no timer is started twice or fires after the state it was for
\* is gone, an online connection has no failures behind it, and no stream is stopped
\* for idleness while it is needed.
AssertionsHold == ok /\ tracker.ok

\* The client calls itself online only while the watch stream is open.
OnlineMeansConnected == tracker.state = "Online" => streamState = "Open"

\* With the network disabled no stream and no timer of the tracker runs and the
\* client stays offline, whatever is listened to meanwhile.
DisabledMeansOffline ==
    ~ isNetworkEnabled =>
        tracker.state = "Offline" /\ ~ tracker.timer /\ ~ IsStarted(streamState)

Needed == isNetworkEnabled /\ listenTargets # {}

\* While a target is listened to and the network enabled, the stream is open or being
\* opened (Listen, OnWatchStreamClose, EnableNetwork, RestartNetwork).
NeededMeansStarted == Needed => IsStarted(streamState)

\* The idle timer runs only on an open stream that no target needs.
IdleMeansUnused == idleTimer => streamState = "Open" /\ listenTargets = {}

\* The tracker's timer and its counter: the timer runs only while the state is
\* Unknown and a stream is started, a client that is online has no failures counted,
\* and one that has counted up to the maximum is offline.
TrackerInv ==
    /\ tracker.timer => tracker.state = "Unknown" /\ IsStarted(streamState)
    /\ tracker.state = "Online" => tracker.failures = 0
    /\ tracker.failures >= MaxWatchStreamFailures => tracker.state = "Offline"

\* The conjunction that is inductive.
Inv ==
    /\ TypeOK
    /\ AssertionsHold
    /\ OnlineMeansConnected
    /\ DisabledMeansOffline
    /\ NeededMeansStarted
    /\ IdleMeansUnused
    /\ TrackerInv

\* Once errors stop, a client that needs the backend gets online.
ComesOnline == Needed ~> (tracker.state = "Online" \/ ~ Needed)

=============================================================================
