--------------------------------- MODULE PadLink ---------------------------------
(* The life of the pad's HID handle: pad_link.py's HidPadLink (open, close, the *)
(* read loop and its reconnection) under daemon.py's _reconcile_pad(), which   *)
(* opens the pad when a session is active and closes it when none is.          *)
(*                                                                             *)
(* Three kinds of threads run here: the asyncio loop (sessions come and go,    *)
(* reconcile tasks start), one worker that runs open() or close() for the task *)
(* holding _pad_lock, and the reader threads that open() starts.  They share   *)
(* _dev, attached and _stop without a lock.                                    *)
EXTENDS Integers

CONSTANTS
    Readers,       \* reader threads; a bound on how many are alive at once
    NoReader,      \* _thread is None
    MaxSessions,   \* bound on the number of active sessions
    MaxKicks,      \* bound on the reconcile tasks that wait for the lock
    PadVanishes,   \* may the pad leave the bus (sleep, unplugged)?
    SlowReader,    \* may a reader outlast close()'s join(timeout=1)?
    HoldsEvict     \* does the user hold keys to evict sessions?

ASSUME ReadersAssumption == Readers # {} /\ NoReader \notin Readers
ASSUME LinkBoundsAssumption == MaxSessions \in Nat \ {0} /\ MaxKicks \in Nat \ {0}
ASSUME LinkFlagsAssumption == {PadVanishes, SlowReader, HoldsEvict} \subseteq BOOLEAN

VARIABLES
    sessions,   \* len(session_to_slot)
    kicks,      \* reconcile tasks scheduled and not yet holding _pad_lock
    worker,     \* what the task holding _pad_lock is doing
    present,    \* external: the pad is on the bus and answers a ping
    holder,     \* external: who has the interface open, "none", "daemon" or "via"
    dev,        \* _dev: "none", "live", or "dead" once the OS handle died or was closed
    attached,   \* attached
    stop,       \* _stop
    thread,     \* _thread
    pc,         \* reader -> where its thread is
    stale       \* history: has the pad missed a state that is cached?

taskVars == <<sessions, kicks>>
handleVars == <<holder, dev, attached>>
threadVars == <<stop, thread, pc>>
vars == <<taskVars, worker, present, handleVars, threadVars, stale>>

Alive(r) == pc[r] \notin {"off", "exit"}

(* discover_hid_pad() finds the pad if its interface can be opened and pinged: *)
(* macOS gives the interface to one owner at a time.                           *)
Found == present /\ holder = "none"

(* serve() opens the pad once before anything else, seeds the sessions already *)
(* running and schedules a reconcile.                                          *)
Init ==
    /\ sessions \in 0 .. MaxSessions
    /\ kicks = 1
    /\ worker = "idle"
    /\ present \in BOOLEAN
    /\ present = FALSE => PadVanishes
    /\ attached = present
    /\ dev = IF present THEN "live" ELSE "none"
    /\ holder = IF present THEN "daemon" ELSE "none"
    /\ stop = FALSE
    /\ thread \in IF present THEN Readers ELSE {NoReader}
    /\ pc = [r \in Readers |-> IF r = thread THEN "read" ELSE "off"]
    /\ stale = (sessions > 0 /\ ~ present)

--------------------------------------------------------------------------------
(* The asyncio loop.  A state sent while no live handle is there is dropped;   *)
(* with the last session gone nothing is cached any more.                      *)

SessionStart ==
    /\ sessions < MaxSessions
    /\ kicks < MaxKicks
    /\ sessions' = sessions + 1
    /\ kicks' = kicks + 1
    /\ stale' = (stale \/ dev # "live")
    /\ UNCHANGED <<worker, present, handleVars, threadVars>>

(* Mutant: an end that schedules nothing.                                      *)
SessionEndUnreconciled ==
    /\ sessions > 0
    /\ sessions' = sessions - 1
    /\ stale' = (stale /\ sessions' > 0)
    /\ UNCHANGED <<kicks, worker, present, handleVars, threadVars>>

SessionEnd ==
    /\ sessions > 0
    /\ kicks < MaxKicks
    /\ sessions' = sessions - 1
    /\ kicks' = kicks + 1
    /\ stale' = (stale /\ sessions' > 0)
    /\ UNCHANGED <<worker, present, handleVars, threadVars>>

(* Some events schedule a reconcile and change no session: SessionStart of a   *)
(* known session, SessionEnd of an unknown one, any event the full pad refuses.*)
KickOnly ==
    /\ kicks < MaxKicks
    /\ kicks' = kicks + 1
    /\ UNCHANGED <<sessions, worker, present, handleVars, threadVars, stale>>

(* _reconcile_pad() once it holds the lock decides what to do from the         *)
(* sessions and the attached flag of this moment.                              *)
Reconcile ==
    /\ worker = "idle"
    /\ kicks > 0
    /\ kicks' = kicks - 1
    /\ worker' = IF sessions > 0 /\ ~ attached THEN "clear"
                 ELSE IF sessions = 0 /\ attached THEN "stop" ELSE "idle"
    /\ UNCHANGED <<sessions, present, handleVars, threadVars, stale>>

--------------------------------------------------------------------------------
(* open() on the worker.                                                       *)

(* Mutant: open() without undoing close()'s stop signal.                       *)
OpenWithoutClear ==
    /\ worker = "clear"
    /\ worker' = "discover"
    /\ UNCHANGED <<taskVars, present, handleVars, threadVars, stale>>

OpenClear ==
    /\ worker = "clear"
    /\ stop' = FALSE
    /\ worker' = "discover"
    /\ UNCHANGED <<taskVars, present, handleVars, thread, pc, stale>>

OpenDiscover ==
    /\ worker = "discover"
    /\ worker' = IF Found THEN "device" ELSE "idle"
    /\ UNCHANGED <<taskVars, present, handleVars, threadVars, stale>>

OpenDevice ==
    /\ worker = "device"
    /\ IF Found
       THEN worker' = "attach" /\ dev' = "live" /\ holder' = "daemon"
       ELSE worker' = "idle" /\ UNCHANGED <<dev, holder>>
    /\ UNCHANGED <<taskVars, present, attached, threadVars, stale>>

OpenAttach ==
    /\ worker = "attach"
    /\ attached' = TRUE
    /\ worker' = "start"
    /\ UNCHANGED <<taskVars, present, holder, dev, threadVars, stale>>

OpenStart ==
    /\ worker = "start"
    /\ \E r \in Readers :
          /\ ~ Alive(r)
          /\ thread' = r
          /\ pc' = [pc EXCEPT ![r] = "read"]
    /\ worker' = "resync"
    /\ UNCHANGED <<taskVars, present, handleVars, stop, stale>>

(* resync_pad() after a deliberate reopen, which open() does not do itself.    *)
OpenResync ==
    /\ worker = "resync"
    /\ stale' = (stale /\ ~ (attached /\ dev = "live"))
    /\ worker' = "idle"
    /\ UNCHANGED <<taskVars, present, handleVars, threadVars>>

--------------------------------------------------------------------------------
(* close() on the worker.                                                      *)

CloseStop ==
    /\ worker = "stop"
    /\ stop' = TRUE
    /\ worker' = "join"
    /\ UNCHANGED <<taskVars, present, handleVars, thread, pc, stale>>

(* join(timeout=1): a reader between two reads sees the stop flag in time, one *)
(* that dispatches a key or searches for the pad may not.                      *)
CloseJoin ==
    /\ worker = "join"
    /\ \/ thread = NoReader
       \/ thread # NoReader /\ ~ Alive(thread)
       \/ SlowReader /\ thread # NoReader /\ Alive(thread) /\ pc[thread] # "read"
    /\ worker' = "shut"
    /\ UNCHANGED <<taskVars, present, handleVars, threadVars, stale>>

(* Mutant: close() without closing the device.                                 *)
CloseWithoutShut ==
    /\ worker = "shut"
    /\ worker' = "detach"
    /\ UNCHANGED <<taskVars, present, handleVars, threadVars, stale>>

CloseShut ==
    /\ worker = "shut"
    /\ dev' = IF dev = "live" THEN "dead" ELSE dev
    /\ holder' = IF dev = "live" THEN "none" ELSE holder
    /\ worker' = "detach"
    /\ UNCHANGED <<taskVars, present, attached, threadVars, stale>>

(* Mutant: close() without resetting attached.                                 *)
CloseStaysAttached ==
    /\ worker = "detach"
    /\ worker' = "reset"
    /\ UNCHANGED <<taskVars, present, handleVars, threadVars, stale>>

CloseDetach ==
    /\ worker = "detach"
    /\ attached' = FALSE
    /\ worker' = "reset"
    /\ UNCHANGED <<taskVars, present, holder, dev, threadVars, stale>>

CloseReset ==
    /\ worker = "reset"
    /\ dev' = "none"
    /\ thread' = NoReader
    /\ worker' = "idle"
    /\ UNCHANGED <<taskVars, present, holder, attached, stop, pc, stale>>

--------------------------------------------------------------------------------
(* _read_loop() and _reconnect() on a reader thread.                           *)

Goto(r, where) == pc' = [pc EXCEPT ![r] = where]

(* Reading from None is an AttributeError that ends the thread.                *)
ReadExit(r) ==
    /\ pc[r] = "read"
    /\ stop \/ dev = "none"
    /\ Goto(r, "exit")
    /\ UNCHANGED <<taskVars, worker, present, handleVars, stop, thread, stale>>

ReadFails(r) ==
    /\ pc[r] = "read"
    /\ ~ stop
    /\ dev = "dead"
    /\ Goto(r, "lost")
    /\ UNCHANGED <<taskVars, worker, present, handleVars, stop, thread, stale>>

(* A report: the callback may block the thread, and a held key evicts a        *)
(* session without scheduling a reconcile.                                     *)
ReadReport(r) ==
    /\ pc[r] = "read"
    /\ ~ stop
    /\ dev = "live"
    /\ Goto(r, "busy")
    /\ sessions' \in {sessions} \cup {n \in {sessions - 1} : HoldsEvict /\ n >= 0}
    /\ stale' = (stale /\ sessions' > 0)
    /\ UNCHANGED <<kicks, worker, present, handleVars, stop, thread>>

ReportDone(r) ==
    /\ pc[r] = "busy"
    /\ Goto(r, "read")
    /\ UNCHANGED <<taskVars, worker, present, handleVars, stop, thread, stale>>

LoseAttached(r) ==
    /\ pc[r] = "lost"
    /\ attached' = FALSE
    /\ Goto(r, "close")
    /\ UNCHANGED <<taskVars, worker, present, holder, dev, stop, thread, stale>>

(* The handle _reconnect() closes is whatever _dev is by now.                  *)
ReconnectClose(r) ==
    /\ pc[r] = "close"
    /\ dev' = IF dev = "live" THEN "dead" ELSE dev
    /\ holder' = IF dev = "live" THEN "none" ELSE holder
    /\ Goto(r, "unset")
    /\ UNCHANGED <<taskVars, worker, present, attached, stop, thread, stale>>

ReconnectUnset(r) ==
    /\ pc[r] = "unset"
    /\ dev' = "none"
    /\ Goto(r, "search")
    /\ UNCHANGED <<taskVars, worker, present, holder, attached, stop, thread, stale>>

(* Polls until the pad is found or close() asked to stop.                      *)
ReconnectSearch(r) ==
    /\ pc[r] = "search"
    /\ stop \/ Found
    /\ Goto(r, IF stop THEN "read" ELSE "device")
    /\ UNCHANGED <<taskVars, worker, present, handleVars, stop, thread, stale>>

ReconnectDevice(r) ==
    /\ pc[r] = "device"
    /\ IF Found
       THEN Goto(r, "attach") /\ dev' = "live" /\ holder' = "daemon"
       ELSE Goto(r, "search") /\ UNCHANGED <<dev, holder>>
    /\ UNCHANGED <<taskVars, worker, present, attached, stop, thread, stale>>

ReconnectAttach(r) ==
    /\ pc[r] = "attach"
    /\ attached' = TRUE
    /\ Goto(r, "resync")
    /\ UNCHANGED <<taskVars, worker, present, holder, dev, stop, thread, stale>>

(* Mutant: a reconnection that replays nothing.                                *)
ReconnectWithoutResync(r) ==
    /\ pc[r] = "resync"
    /\ Goto(r, "read")
    /\ UNCHANGED <<taskVars, worker, present, handleVars, stop, thread, stale>>

ReconnectResync(r) ==
    /\ pc[r] = "resync"
    /\ stale' = (stale /\ dev # "live")
    /\ Goto(r, "read")
    /\ UNCHANGED <<taskVars, worker, present, handleVars, stop, thread>>

(* A key's clear or a replay whose write found a handle when it checked and    *)
(* None when it used it: the AttributeError ends the thread.                   *)
WriteRaises(r) ==
    /\ pc[r] \in {"busy", "resync"}
    /\ dev = "none"
    /\ Goto(r, "exit")
    /\ UNCHANGED <<taskVars, worker, present, handleVars, stop, thread, stale>>

--------------------------------------------------------------------------------
(* External: the pad leaves and joins the bus, the VIA app takes the interface *)
(* when nobody has it.  A pad that was away may have forgotten its display.    *)

PadLeaves ==
    /\ PadVanishes
    /\ present
    /\ present' = FALSE
    /\ holder' = "none"
    /\ dev' = IF dev = "live" THEN "dead" ELSE dev
    /\ stale' = (sessions > 0)
    /\ UNCHANGED <<taskVars, worker, attached, threadVars>>

PadReturns ==
    /\ ~ present
    /\ present' = TRUE
    /\ UNCHANGED <<taskVars, worker, handleVars, threadVars, stale>>

ViaTakes ==
    /\ Found
    /\ holder' = "via"
    /\ UNCHANGED <<taskVars, worker, present, dev, attached, threadVars, stale>>

ViaLeaves ==
    /\ holder = "via"
    /\ holder' = "none"
    /\ UNCHANGED <<taskVars, worker, present, dev, attached, threadVars, stale>>

--------------------------------------------------------------------------------
WorkerStep ==
    \/ OpenClear \/ OpenDiscover \/ OpenDevice \/ OpenAttach \/ OpenStart \/ OpenResync
    \/ CloseStop \/ CloseJoin \/ CloseShut \/ CloseDetach \/ CloseReset

ReaderStep(r) ==
    \/ ReadExit(r) \/ ReadFails(r) \/ ReadReport(r) \/ ReportDone(r)
    \/ LoseAttached(r) \/ ReconnectClose(r) \/ ReconnectUnset(r) \/ ReconnectSearch(r)
    \/ ReconnectDevice(r) \/ ReconnectAttach(r) \/ ReconnectResync(r) \/ WriteRaises(r)

Next ==
    \/ SessionStart
    \/ SessionEnd
    \/ KickOnly
    \/ Reconcile
    \/ WorkerStep
    \/ \E r \in Readers : ReaderStep(r)
    \/ PadLeaves
    \/ PadReturns
    \/ ViaTakes
    \/ ViaLeaves

(* A task whose delay is over gets the lock, a worker thread runs to its end,  *)
(* and a reader does whatever it can but need not be sent a report.            *)
ReaderProgress(r) ==
    \/ ReadExit(r) \/ ReadFails(r) \/ ReportDone(r)
    \/ LoseAttached(r) \/ ReconnectClose(r) \/ ReconnectUnset(r) \/ ReconnectSearch(r)
    \/ ReconnectDevice(r) \/ ReconnectAttach(r) \/ ReconnectResync(r) \/ WriteRaises(r)

Fairness ==
    /\ WF_vars(Reconcile)
    /\ WF_vars(WorkerStep)
    /\ \A r \in Readers : WF_vars(ReaderProgress(r))

Spec == Init /\ [][Next]_vars

FairSpec == Spec /\ Fairness

--------------------------------------------------------------------------------
(* Every variable holds what its declaration says, whatever the threads, the   *)
(* pad and VIA do: no step leaves a reader or the worker at an unknown place.  *)
LinkTypeOK ==
    /\ sessions \in 0 .. MaxSessions
    /\ kicks \in 0 .. MaxKicks
    /\ worker \in {"idle", "clear", "discover", "device", "attach", "start", "resync",
                   "stop", "join", "shut", "detach", "reset"}
    /\ present \in BOOLEAN
    /\ holder \in {"none", "daemon", "via"}
    /\ dev \in {"none", "live", "dead"}
    /\ attached \in BOOLEAN
    /\ stop \in BOOLEAN
    /\ thread \in Readers \cup {NoReader}
    /\ pc \in [Readers -> {"off", "read", "busy", "lost", "close", "unset", "search",
                           "device", "attach", "resync", "exit"}]
    /\ stale \in BOOLEAN

(* No open or close is under way and every reader is at the top of its loop.   *)
Settled == worker = "idle" /\ \A r \in Readers : pc[r] \in {"off", "read", "exit"}

(* The interface is never held through a handle that _dev has lost: a leaked   *)
(* handle would shut out VIA and the daemon's own next open() for good.        *)
NoHandleLeak == Settled /\ holder = "daemon" => dev = "live" /\ attached

(* An attached pad is read by the one thread close() will join: neither a pad  *)
(* "attached with nothing actually reading" nor a second reader that survives. *)
OneReader ==
    Settled /\ attached /\ dev = "live" =>
        thread # NoReader /\ \A r \in Readers : Alive(r) <=> r = thread

(* "attached" without any handle would be final: writes are dropped, no reader *)
(* notices, and no reconcile reopens a pad that counts as attached.            *)
AttachedHasHandle == Settled /\ attached => dev # "none"

(* A pad that can be written has been shown every cached state, the first one  *)
(* of the session that caused the reopen included.                             *)
PadCaughtUp == Settled /\ dev = "live" => ~ stale

(* "The HID handle is only held open while at least one agent session is       *)
(* active": a daemon without sessions lets go of the interface.                *)
HandleReleased == []<>(sessions > 0 \/ holder # "daemon")
==================================================================================
