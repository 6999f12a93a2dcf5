------------------------ MODULE WatchConnectionProofs ------------------------
(***************************************************************************)
(* Proofs about the watch stream and the online state, for any set of      *)
(* targets, any maximum of failures and any number of faults.  The         *)
(* properties of WatchConnection support each other: that the idle timer   *)
(* runs only on an unused stream keeps it from stopping a needed one, and  *)
(* that the tracker's timer runs only in Unknown keeps its assertions.     *)
(***************************************************************************)
EXTENDS WatchConnection, TLAPS

USE WatchAssumption

-----------------------------------------------------------------------------
(* The tracker. *)

\* What Inv says about a tracker k beside a watch stream in state s.
TrackerFits(k, s) ==
    /\ k \in Trackers
    /\ k.ok
    /\ k.state = "Online" => s = "Open" /\ k.failures = 0
    /\ k.timer => k.state = "Unknown" /\ IsStarted(s)
    /\ k.failures >= MaxWatchStreamFailures => k.state = "Offline"

\* Inv holds after a step when the tracker fits the stream and the rest holds.
LEMMA InvFromParts ==
  ASSUME listenTargets' \in SUBSET Targets, isNetworkEnabled' \in BOOLEAN,
         streamState' \in StreamStates, idleTimer' \in BOOLEAN, ok' = TRUE,
         faults' \in 0..MaxFaults, TrackerFits(tracker', streamState'),
         DisabledMeansOffline', NeededMeansStarted', IdleMeansUnused'
  PROVE  Inv'
BY DEF TrackerFits, Inv, TypeOK, AssertionsHold, OnlineMeansConnected, TrackerInv

\* Inv gives these parts.
LEMMA PartsFromInv ==
  ASSUME Inv
  PROVE  /\ listenTargets \in SUBSET Targets /\ isNetworkEnabled \in BOOLEAN
         /\ streamState \in StreamStates /\ idleTimer \in BOOLEAN /\ ok = TRUE
         /\ faults \in 0..MaxFaults /\ TrackerFits(tracker, streamState)
         /\ DisabledMeansOffline /\ NeededMeansStarted /\ IdleMeansUnused
BY DEF TrackerFits, Inv, TypeOK, AssertionsHold, OnlineMeansConnected, TrackerInv

\* UpdateState forgets timer and failures, so what it gives fits any stream, and
\* Online an open one.
LEMMA UpdateFits ==
  ASSUME NEW k, NEW s0, TrackerFits(k, s0), NEW s,
         NEW new \in {"Unknown", "Online", "Offline"}, new = "Online" => s = "Open"
  PROVE  /\ TrackerFits(UpdateState(k, new), s)
         /\ UpdateState(k, new).state = new
         /\ ~ UpdateState(k, new).timer
         /\ UpdateState(k, new).failures = 0
BY DEF TrackerFits, UpdateState, Trackers

\* Starting the stream gives a tracker that fits: where the timer already runs,
\* failures are counted and no second one is started.
LEMMA StartFits ==
  ASSUME NEW k, NEW s0, TrackerFits(k, s0), k.timer => k.failures # 0,
         k.state # "Online", NEW s, IsStarted(s)
  PROVE  TrackerFits(HandleWatchStreamStart(k), s)
BY DEF TrackerFits, HandleWatchStreamStart, Trackers

\* A failure of the stream ends a connection that was online, and otherwise keeps the
\* timer only while the maximum is not reached.
LEMMA FailureFits ==
  ASSUME NEW k, NEW s0, TrackerFits(k, s0), NEW s, IsStarted(s)
  PROVE  LET f == HandleWatchStreamFailure(k)
         IN  /\ TrackerFits(f, s)
             /\ f.state # "Online"
             /\ f.timer => f.failures # 0
BY DEF TrackerFits, HandleWatchStreamFailure, Trackers

-----------------------------------------------------------------------------
(* The steps. *)

\* Starting the stream from a state in which it is not started.
LEMMA StartStep ==
  ASSUME Inv, ~ IsStarted(streamState), StartWatchStream(streamState, tracker)
  PROVE  /\ TrackerFits(tracker', streamState')
         /\ streamState' \in {"Starting", "Backoff"}
<1>1. TrackerFits(tracker, streamState)
  BY PartsFromInv
<1>2. ~ tracker.timer /\ tracker.state # "Online"
  BY <1>1 DEF TrackerFits, IsStarted
<1>3. streamState' \in {"Starting", "Backoff"} /\ tracker' = HandleWatchStreamStart(tracker)
  BY DEF StartWatchStream, Start
<1>4. IsStarted(streamState')
  BY <1>3 DEF IsStarted
<1> QED
  BY <1>1, <1>2, <1>3, <1>4, StartFits

\* Listening to a target preserves Inv.
LEMMA ListenInv == ASSUME Inv, NEW t \in Targets, Listen(t) PROVE Inv'
<1> USE PartsFromInv
<1>1. /\ listenTargets' \in SUBSET Targets /\ listenTargets' # {}
      /\ UNCHANGED <<isNetworkEnabled, ok, faults>>
      /\ idleTimer' = (idleTimer /\ streamState # "Open")
  BY DEF Listen
<1>2. idleTimer' = FALSE
  BY <1>1 DEF IdleMeansUnused
<1>3. CASE isNetworkEnabled /\ ~ IsStarted(streamState)
  <2>1. StartWatchStream(streamState, tracker)
    BY <1>1, <1>3 DEF Listen, ShouldStartWatchStream
  <2>2. TrackerFits(tracker', streamState') /\ streamState' \in {"Starting", "Backoff"}
    BY <1>3, <2>1, StartStep
  <2> QED
    BY <1>1, <1>2, <1>3, <2>2, InvFromParts
    DEF StreamStates, DisabledMeansOffline, NeededMeansStarted, IdleMeansUnused, IsStarted
<1>4. CASE ~ (isNetworkEnabled /\ ~ IsStarted(streamState))
  <2>1. UNCHANGED <<streamState, tracker>>
    BY <1>4 DEF Listen, ShouldStartWatchStream
  <2> QED
    BY <1>1, <1>2, <1>4, <2>1, InvFromParts
    DEF DisabledMeansOffline, NeededMeansStarted, IdleMeansUnused, Needed
<1> QED
  BY <1>3, <1>4

\* Dropping a target preserves Inv: the idle check starts with the last one.
LEMMA StopListeningInv == ASSUME Inv, NEW t \in Targets, StopListening(t) PROVE Inv'
<1> USE PartsFromInv
<1>1. /\ listenTargets' = listenTargets \ {t} /\ t \in listenTargets
      /\ UNCHANGED <<isNetworkEnabled, streamState, ok, faults>>
      /\ idleTimer' = IF streamState = "Open" THEN listenTargets' = {} ELSE idleTimer
  BY DEF StopListening
<1>2. idleTimer' \in BOOLEAN /\ IdleMeansUnused'
  BY <1>1 DEF IdleMeansUnused
<1>3. NeededMeansStarted'
  BY <1>1 DEF NeededMeansStarted, Needed
<1>4. /\ TrackerFits(tracker', streamState)
      /\ ~ isNetworkEnabled => tracker' = tracker
  <2>1. CASE tracker' = tracker
    BY <2>1
  <2>2. CASE tracker' = UpdateState(tracker, "Unknown") /\ isNetworkEnabled
    BY <2>2, UpdateFits
  <2> QED
    BY <2>1, <2>2 DEF StopListening
<1>5. DisabledMeansOffline'
  BY <1>1, <1>4 DEF DisabledMeansOffline
<1> QED
  BY <1>1, <1>2, <1>3, <1>4, <1>5, InvFromParts

\* The stream opens.
LEMMA OnStreamStartInv == ASSUME Inv, OnStreamStart PROVE Inv'
<1> USE PartsFromInv
<1>1. /\ streamState = "Starting" /\ streamState' = "Open"
      /\ UNCHANGED <<listenTargets, isNetworkEnabled, tracker, ok, faults>>
      /\ idleTimer' = FALSE
  BY DEF OnStreamStart, IdleMeansUnused
<1>2. TrackerFits(tracker', streamState')
  BY <1>1 DEF TrackerFits, IsStarted
<1> QED
  BY <1>1, <1>2, InvFromParts
  DEF StreamStates, DisabledMeansOffline, NeededMeansStarted, IdleMeansUnused, IsStarted

\* The backoff ends.
LEMMA BackoffElapsedInv == ASSUME Inv, BackoffElapsed PROVE Inv'
<1> USE PartsFromInv
<1>1. /\ streamState = "Backoff" /\ streamState' = "Starting"
      /\ UNCHANGED <<listenTargets, isNetworkEnabled, idleTimer, tracker, ok, faults>>
  BY DEF BackoffElapsed
<1>2. TrackerFits(tracker', streamState')
  BY <1>1 DEF TrackerFits, IsStarted
<1> QED
  BY <1>1, <1>2, InvFromParts
  DEF StreamStates, DisabledMeansOffline, NeededMeansStarted, IdleMeansUnused, IsStarted

\* The stream fails, and is started again if it is needed.
LEMMA OnStreamFinishInv == ASSUME Inv, OnStreamFinish PROVE Inv'
<1> USE PartsFromInv
<1>1. /\ IsStarted(streamState) /\ isNetworkEnabled
      /\ faults' \in 0..MaxFaults
      /\ UNCHANGED <<listenTargets, isNetworkEnabled, ok>>
      /\ idleTimer' = FALSE
  BY DEF OnStreamFinish, OnWatchStreamClose, IsStarted, DisabledMeansOffline
<1>2. CASE listenTargets # {}
  <2>1. StartWatchStream("Error", HandleWatchStreamFailure(tracker))
    BY <1>1, <1>2 DEF OnStreamFinish, OnWatchStreamClose, ShouldStartWatchStream, IsStarted
  <2> DEFINE f == HandleWatchStreamFailure(tracker)
  <2>2. streamState' = "Backoff" /\ tracker' = HandleWatchStreamStart(f)
    BY <2>1 DEF StartWatchStream, Start
  <2>3. IsStarted(streamState')
    BY <2>2 DEF IsStarted
  <2>4. TrackerFits(f, streamState') /\ f.state # "Online" /\ (f.timer => f.failures # 0)
    BY <2>3, FailureFits
  <2> HIDE DEF f
  <2>5. TrackerFits(tracker', streamState')
    BY <2>2, <2>3, <2>4, StartFits
  <2> QED
    BY <1>1, <2>2, <2>3, <2>5, InvFromParts
    DEF StreamStates, DisabledMeansOffline, NeededMeansStarted, IdleMeansUnused
<1>3. CASE listenTargets = {}
  <2>1. streamState' = "Error" /\ tracker' = UpdateState(tracker, "Unknown")
    BY <1>3 DEF OnStreamFinish, OnWatchStreamClose, ShouldStartWatchStream
  <2>2. TrackerFits(tracker', streamState')
    BY <2>1, UpdateFits
  <2> QED
    BY <1>1, <1>3, <2>1, <2>2, InvFromParts
    DEF StreamStates, DisabledMeansOffline, NeededMeansStarted, IdleMeansUnused, Needed
<1> QED
  BY <1>2, <1>3

\* A message arrives.
LEMMA OnWatchStreamChangeInv == ASSUME Inv, OnWatchStreamChange PROVE Inv'
<1> USE PartsFromInv
<1>1. /\ streamState = "Open" /\ listenTargets' \subseteq listenTargets
      /\ UNCHANGED <<isNetworkEnabled, streamState, idleTimer, ok, faults>>
      /\ tracker' = UpdateState(tracker, "Online")
  BY DEF OnWatchStreamChange
<1>2. TrackerFits(tracker', streamState')
  BY <1>1, UpdateFits
<1>3. isNetworkEnabled
  BY <1>1 DEF DisabledMeansOffline, IsStarted
<1> QED
  BY <1>1, <1>2, <1>3, InvFromParts
  DEF DisabledMeansOffline, NeededMeansStarted, IdleMeansUnused, IsStarted

\* The idle timer fires: the stream is not needed, so the assertion holds.
LEMMA IdleTimeoutInv == ASSUME Inv, IdleTimeout PROVE Inv'
<1> USE PartsFromInv
<1>1. /\ idleTimer' = FALSE /\ streamState' = "Initial" /\ listenTargets = {}
      /\ UNCHANGED <<listenTargets, isNetworkEnabled, faults>>
      /\ tracker' = UpdateState(tracker, "Unknown")
      /\ isNetworkEnabled
  BY DEF IdleTimeout, IdleMeansUnused, DisabledMeansOffline, IsStarted
<1>2. ok' = TRUE
  BY <1>1 DEF IdleTimeout, ShouldStartWatchStream
<1>3. TrackerFits(tracker', streamState')
  BY <1>1, UpdateFits
<1> QED
  BY <1>1, <1>2, <1>3, InvFromParts
  DEF StreamStates, DisabledMeansOffline, NeededMeansStarted, IdleMeansUnused, Needed

\* The online state timer fires: the state is still Unknown, so the assertion holds.
LEMMA OnlineStateTimeoutInv == ASSUME Inv, OnlineStateTimeout PROVE Inv'
<1> USE PartsFromInv
<1>1. /\ UNCHANGED <<listenTargets, isNetworkEnabled, streamState, idleTimer, ok, faults>>
      /\ tracker.timer
      /\ tracker' = [state |-> "Offline", failures |-> tracker.failures, timer |-> FALSE,
                     ok |-> tracker.ok /\ tracker.state = "Unknown"]
  BY DEF OnlineStateTimeout
<1>2. TrackerFits(tracker', streamState') /\ tracker'.state = "Offline" /\ ~ tracker'.timer
  BY <1>1 DEF TrackerFits, Trackers
<1> QED
  BY <1>1, <1>2, InvFromParts DEF DisabledMeansOffline, NeededMeansStarted, IdleMeansUnused, Needed

\* The network is enabled, or enabled again.
LEMMA EnableNetworkInv == ASSUME Inv, EnableNetwork PROVE Inv'
<1> USE PartsFromInv
<1>1. /\ isNetworkEnabled' = TRUE
      /\ faults' \in 0..MaxFaults
      /\ UNCHANGED <<listenTargets, idleTimer, ok>>
  BY DEF EnableNetwork
<1>2. CASE ~ IsStarted(streamState) /\ listenTargets # {}
  <2>1. StartWatchStream(streamState, tracker)
    BY <1>2 DEF EnableNetwork, ShouldStartWatchStream
  <2>2. TrackerFits(tracker', streamState') /\ streamState' \in {"Starting", "Backoff"}
    BY <1>2, <2>1, StartStep
  <2> QED
    BY <1>1, <1>2, <2>2, InvFromParts
    DEF StreamStates, DisabledMeansOffline, NeededMeansStarted, IdleMeansUnused, IsStarted
<1>3. CASE ~ (~ IsStarted(streamState) /\ listenTargets # {})
  <2>1. tracker' = UpdateState(tracker, "Unknown") /\ UNCHANGED streamState
    BY <1>3 DEF EnableNetwork, ShouldStartWatchStream
  <2>2. TrackerFits(tracker', streamState')
    BY <2>1, UpdateFits
  <2> QED
    BY <1>1, <1>3, <2>1, <2>2, InvFromParts
    DEF DisabledMeansOffline, NeededMeansStarted, IdleMeansUnused, Needed
<1> QED
  BY <1>2, <1>3

\* The network is disabled.
LEMMA DisableNetworkInv == ASSUME Inv, DisableNetwork PROVE Inv'
<1> USE PartsFromInv
<1>1. /\ isNetworkEnabled' = FALSE
      /\ faults' \in 0..MaxFaults
      /\ UNCHANGED <<listenTargets, ok>>
      /\ idleTimer' = (idleTimer /\ ~ IsStarted(streamState))
      /\ tracker' = UpdateState(tracker, "Offline")
  BY DEF DisableNetwork
<1>2. idleTimer' = FALSE
  BY <1>1 DEF IdleMeansUnused, IsStarted
<1>3. streamState' \in StreamStates /\ ~ IsStarted(streamState')
  BY DEF DisableNetwork, Stopped, IsStarted, StreamStates
<1>4. /\ TrackerFits(tracker', streamState')
      /\ tracker'.state = "Offline" /\ ~ tracker'.timer
  BY <1>1, UpdateFits
<1> QED
  BY <1>1, <1>2, <1>3, <1>4, InvFromParts
  DEF DisabledMeansOffline, NeededMeansStarted, IdleMeansUnused, Needed

\* The streams are torn down and started again.
LEMMA RestartNetworkInv == ASSUME Inv, RestartNetwork PROVE Inv'
<1> USE PartsFromInv
<1> DEFINE k == UpdateState(tracker, "Unknown")
<1>1. /\ isNetworkEnabled
      /\ faults' \in 0..MaxFaults
      /\ UNCHANGED <<listenTargets, isNetworkEnabled, ok>>
      /\ idleTimer' = (idleTimer /\ ~ IsStarted(streamState))
  BY DEF RestartNetwork
<1>2. idleTimer' = FALSE
  BY <1>1 DEF IdleMeansUnused, IsStarted
<1>3. TrackerFits(k, "Initial") /\ k.state = "Unknown" /\ ~ k.timer
  BY UpdateFits
<1>4. \/ /\ listenTargets # {} /\ streamState' = "Starting"
         /\ tracker' = HandleWatchStreamStart(k)
      \/ /\ listenTargets = {} /\ streamState' = "Initial"
         /\ tracker' = k
  BY DEF RestartNetwork, StartWatchStream, Start
<1> HIDE DEF k
<1>5. TrackerFits(tracker', streamState')
  <2>1. IsStarted("Starting")
    BY DEF IsStarted
  <2>2. TrackerFits(HandleWatchStreamStart(k), "Starting")
    BY <1>3, <2>1, StartFits
  <2> QED
    BY <1>3, <1>4, <2>2
<1> QED
  BY <1>1, <1>2, <1>4, <1>5, InvFromParts
  DEF StreamStates, DisabledMeansOffline, NeededMeansStarted, IdleMeansUnused, IsStarted, Needed

\* Init establishes Inv.
LEMMA InitInv == Init => Inv
<1> SUFFICES ASSUME Init PROVE Inv
  OBVIOUS
<1>1. TypeOK
  <2>1. 0 \in 0..MaxFaults /\ 0 \in 0..MaxWatchStreamFailures
    OBVIOUS
  <2>2. [state |-> "Unknown", failures |-> 0, timer |-> FALSE, ok |-> TRUE] \in Trackers
    BY <2>1 DEF Trackers
  <2> QED
    BY <2>1, <2>2, Zenon DEF Init, TypeOK, StreamStates
<1> QED
  BY <1>1 DEF Init, Inv, AssertionsHold, OnlineMeansConnected, DisabledMeansOffline,
     NeededMeansStarted, Needed, IdleMeansUnused, TrackerInv

\* Every step preserves Inv.
LEMMA NextInv == Inv /\ [Next]_vars => Inv'
<1> SUFFICES ASSUME Inv, [Next]_vars PROVE Inv'
  OBVIOUS
<1>1. CASE UNCHANGED vars
  BY <1>1 DEF vars, Inv, TypeOK, AssertionsHold, OnlineMeansConnected,
     DisabledMeansOffline, NeededMeansStarted, Needed, IdleMeansUnused, TrackerInv
<1> QED
  BY <1>1, ListenInv, StopListeningInv, OnStreamStartInv, BackoffElapsedInv,
     OnStreamFinishInv, OnWatchStreamChangeInv, IdleTimeoutInv, OnlineStateTimeoutInv,
     EnableNetworkInv, DisableNetworkInv, RestartNetworkInv
  DEF Next

-----------------------------------------------------------------------------
(* The theorems. *)

\* The types of the watch connection hold in every reachable state.
THEOREM WatchTypes == Spec => []TypeOK
<1>1. Inv => TypeOK
  BY DEF Inv
<1> QED
  BY <1>1, InitInv, NextInv, PTL DEF Spec

\* No assertion of the tracker or of the closing of an idle stream ever fails.
THEOREM WatchAssertions == Spec => []AssertionsHold
<1>1. Inv => AssertionsHold
  BY DEF Inv
<1> QED
  BY <1>1, InitInv, NextInv, PTL DEF Spec

\* A client that calls itself online has an open watch stream.
THEOREM OnlineIsTrue == Spec => []OnlineMeansConnected
<1>1. Inv => OnlineMeansConnected
  BY DEF Inv
<1> QED
  BY <1>1, InitInv, NextInv, PTL DEF Spec

\* A disabled network means an offline client with no stream and no timer.
THEOREM DisabledIsOffline == Spec => []DisabledMeansOffline
<1>1. Inv => DisabledMeansOffline
  BY DEF Inv
<1> QED
  BY <1>1, InitInv, NextInv, PTL DEF Spec

\* A needed watch stream is open or being opened.
THEOREM WatchWhenNeeded == Spec => []NeededMeansStarted
<1>1. Inv => NeededMeansStarted
  BY DEF Inv
<1> QED
  BY <1>1, InitInv, NextInv, PTL DEF Spec

\* The idle timer never runs on a stream that a target needs.
THEOREM IdleOnlyWhenUnused == Spec => []IdleMeansUnused
<1>1. Inv => IdleMeansUnused
  BY DEF Inv
<1> QED
  BY <1>1, InitInv, NextInv, PTL DEF Spec

\* The tracker's timer and failure counter agree with the state it shows.
THEOREM TrackerConsistent == Spec => []TrackerInv
<1>1. Inv => TrackerInv
  BY DEF Inv
<1> QED
  BY <1>1, InitInv, NextInv, PTL DEF Spec

=============================================================================
