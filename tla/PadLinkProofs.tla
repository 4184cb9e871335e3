------------------------------ MODULE PadLinkProofs ------------------------------
(* For any number of readers, sessions and waiting tasks: a settled link has   *)
(* missed nothing whatever the pad and the threads do, the handle of a pad     *)
(* that stays on the bus never leaks, and if its readers answer a join in time *)
(* there is never more than one of them.                                       *)
EXTENDS PadLink, TLAPS

(* Every variable keeps its type, whatever the pad and the readers do.         *)
LEMMA LinkInit == Init => LinkTypeOK
  <1> SUFFICES ASSUME Init PROVE LinkTypeOK
    OBVIOUS
  <1> USE ReadersAssumption, LinkBoundsAssumption DEF Init
  <1>1. stale \in BOOLEAN /\ attached \in BOOLEAN /\ stop \in BOOLEAN /\ present \in BOOLEAN
    OBVIOUS
  <1>2. sessions \in 0 .. MaxSessions /\ kicks \in 0 .. MaxKicks
    OBVIOUS
  <1>3. thread \in Readers \cup {NoReader}
    OBVIOUS
  <1>4. pc \in [Readers -> {"off", "read", "busy", "lost", "close", "unset", "search",
                           "device", "attach", "resync", "exit"}]
    OBVIOUS
  <1> QED
    BY <1>1, <1>2, <1>3, <1>4 DEF LinkTypeOK

(* No step of a task, the worker, a reader, the pad or VIA leaves the types.   *)
LEMMA LinkNext == LinkTypeOK /\ [Next]_vars => LinkTypeOK'
  <1> SUFFICES ASSUME LinkTypeOK, [Next]_vars PROVE LinkTypeOK'
    OBVIOUS
  <1> USE LinkBoundsAssumption
      DEF LinkTypeOK, taskVars, handleVars, threadVars
  <1>1. CASE UNCHANGED vars
    BY <1>1 DEF vars
  <1>2. CASE SessionStart
    BY <1>2 DEF SessionStart
  <1>3. CASE SessionEnd
    BY <1>3 DEF SessionEnd
  <1>4. CASE KickOnly
    BY <1>4 DEF KickOnly
  <1>5. CASE Reconcile
    BY <1>5 DEF Reconcile
  <1>6. CASE OpenClear
    BY <1>6 DEF OpenClear
  <1>7. CASE OpenDiscover
    BY <1>7 DEF OpenDiscover
  <1>8. CASE OpenDevice
    BY <1>8 DEF OpenDevice
  <1>9. CASE OpenAttach
    BY <1>9 DEF OpenAttach
  <1>10. CASE OpenStart
    BY <1>10 DEF OpenStart
  <1>11. CASE OpenResync
    BY <1>11 DEF OpenResync
  <1>12. CASE CloseStop
    BY <1>12 DEF CloseStop
  <1>13. CASE CloseJoin
    BY <1>13 DEF CloseJoin
  <1>14. CASE CloseShut
    BY <1>14 DEF CloseShut
  <1>15. CASE CloseDetach
    BY <1>15 DEF CloseDetach
  <1>16. CASE CloseReset
    BY <1>16 DEF CloseReset
  <1>17. CASE PadLeaves
    <2>1. stale' = (sessions > 0)
      BY <1>17 DEF PadLeaves
    <2>2. stale' \in BOOLEAN
      BY <2>1
    <2> HIDE DEF LinkTypeOK
    <2>3. /\ present' \in BOOLEAN
          /\ holder' \in {"none", "daemon", "via"}
          /\ dev' \in {"none", "live", "dead"}
          /\ UNCHANGED <<sessions, kicks, worker, attached, stop, thread, pc>>
      BY <1>17 DEF PadLeaves, LinkTypeOK
    <2> QED
      BY <2>2, <2>3 DEF LinkTypeOK
  <1>18. CASE PadReturns
    BY <1>18 DEF PadReturns
  <1>19. CASE ViaTakes
    BY <1>19 DEF ViaTakes
  <1>20. CASE ViaLeaves
    BY <1>20 DEF ViaLeaves
  <1>21. ASSUME NEW r \in Readers, ReaderStep(r) PROVE LinkTypeOK'
    <2>1. CASE ReadExit(r)
      BY <2>1 DEF ReadExit, Goto
    <2>2. CASE ReadFails(r)
      BY <2>2 DEF ReadFails, Goto
    <2>3. CASE ReadReport(r)
      BY <2>3 DEF ReadReport, Goto
    <2>4. CASE ReportDone(r)
      BY <2>4 DEF ReportDone, Goto
    <2>5. CASE LoseAttached(r)
      BY <2>5 DEF LoseAttached, Goto
    <2>6. CASE ReconnectClose(r)
      BY <2>6 DEF ReconnectClose, Goto
    <2>7. CASE ReconnectUnset(r)
      BY <2>7 DEF ReconnectUnset, Goto
    <2>8. CASE ReconnectSearch(r)
      BY <2>8 DEF ReconnectSearch, Goto
    <2>9. CASE ReconnectDevice(r)
      BY <2>9 DEF ReconnectDevice, Goto
    <2>10. CASE ReconnectAttach(r)
      BY <2>10 DEF ReconnectAttach, Goto
    <2>11. CASE ReconnectResync(r)
      BY <2>11 DEF ReconnectResync, Goto
    <2>12. CASE WriteRaises(r)
      BY <2>12 DEF WriteRaises, Goto
    <2> QED
      BY <1>21, <2>1, <2>2, <2>3, <2>4, <2>5, <2>6, <2>7, <2>8, <2>9, <2>10, <2>11, <2>12
      DEF ReaderStep
  <1> QED
    BY <1>1, <1>2, <1>3, <1>4, <1>5, <1>6, <1>7, <1>8, <1>9, <1>10, <1>11, <1>12, <1>13, <1>14, <1>15, <1>16, <1>17, <1>18, <1>19, <1>20, <1>21
    DEF Next, WorkerStep

(* So every reachable state of the link, under any faults, is well typed.      *)
THEOREM LinkTypeCorrect == Spec => []LinkTypeOK
  BY LinkInit, LinkNext, PTL DEF Spec

--------------------------------------------------------------------------------
(* What the handle, the flags and the readers are at each step of open() and   *)
(* close().  Settled states say nothing of the steps in between, so the        *)
(* invariants of a settled link are not inductive without this.                *)
Quiet == \A r \in Readers : ~ Alive(r)

Closed == dev = "none" /\ ~ attached /\ holder # "daemon" /\ thread = NoReader /\ Quiet

Opened == dev = "live" /\ holder = "daemon"

Read == thread \in Readers /\ \A r \in Readers : Alive(r) <=> r = thread

HandleFollowsWorker ==
    /\ worker \in {"idle", "resync"} =>
          \/ Closed
          \/ Opened /\ attached /\ Read /\ ~ stop
    /\ worker = "resync" => attached
    /\ worker = "clear" => Closed
    /\ worker \in {"discover", "device"} => Closed /\ ~ stop
    /\ worker = "attach" => Opened /\ ~ attached /\ Quiet /\ ~ stop
    /\ worker = "start" => Opened /\ attached /\ Quiet /\ ~ stop
    /\ worker = "stop" => Opened /\ attached /\ Read /\ ~ stop
    /\ worker = "join" =>
          Opened /\ attached /\ thread \in Readers /\ \A r \in Readers : Alive(r) => r = thread
    /\ worker = "shut" => Opened /\ attached /\ Quiet
    /\ worker \in {"detach", "reset"} => dev # "live" /\ holder # "daemon" /\ Quiet
    /\ worker = "reset" => ~ attached

(* A state is missed only while the link is not open, until the replay.        *)
MissedUntilReplay ==
    worker \in {"idle", "stop", "join"} /\ dev = "live" => ~ stale

CalmInv ==
    /\ LinkTypeOK
    /\ present
    /\ \A r \in Readers : pc[r] \in {"off", "read", "busy", "exit"}
    /\ HandleFollowsWorker
    /\ MissedUntilReplay

(* serve() opens a pad that is there with its one reader.                      *)
LEMMA CalmInit == ASSUME ~ PadVanishes, Init PROVE CalmInv
  <1>1. LinkTypeOK
    BY LinkInit
  <1>2. present /\ attached /\ dev = "live" /\ holder = "daemon" /\ ~ stop /\ ~ stale
    BY LinkFlagsAssumption DEF Init
  <1>3. Read
    BY <1>2, ReadersAssumption DEF Init, Read, Alive
  <1> QED
    BY <1>1, <1>2, <1>3 DEF Init, CalmInv, HandleFollowsWorker, MissedUntilReplay, Opened

(* One step of open(), close(), a reader or VIA keeps the shape of the link:   *)
(* without a vanishing pad no reader ever reaches _reconnect().                *)
LEMMA CalmNext ==
    ASSUME ~ PadVanishes, ~ SlowReader, CalmInv, [Next]_vars
    PROVE  CalmInv'
  <1>1. LinkTypeOK'
    BY LinkNext DEF CalmInv
  <1> USE ReadersAssumption
      DEF CalmInv, HandleFollowsWorker, MissedUntilReplay, Quiet, Closed, Opened, Read, Alive,
          LinkTypeOK, taskVars, handleVars, threadVars
  <1>2. CASE UNCHANGED vars
    BY <1>1, <1>2 DEF vars
  <1>3. CASE SessionStart \/ SessionEnd \/ KickOnly
    BY <1>1, <1>3 DEF SessionStart, SessionEnd, KickOnly
  <1>4. CASE Reconcile
    BY <1>1, <1>4 DEF Reconcile
  <1>5. CASE OpenClear \/ OpenDiscover \/ OpenDevice
    BY <1>1, <1>5 DEF OpenClear, OpenDiscover, OpenDevice, Found
  <1>6. CASE OpenAttach \/ OpenResync
    BY <1>1, <1>6 DEF OpenAttach, OpenResync
  <1>7. CASE OpenStart
    BY <1>1, <1>7 DEF OpenStart
  <1>8. CASE CloseStop \/ CloseJoin \/ CloseShut
    BY <1>1, <1>8 DEF CloseStop, CloseJoin, CloseShut
  <1>9. CASE CloseDetach \/ CloseReset
    BY <1>1, <1>9 DEF CloseDetach, CloseReset
  <1>10. ASSUME NEW r \in Readers, ReaderStep(r) PROVE CalmInv'
    <2>1. CASE ReadExit(r) \/ WriteRaises(r)
      BY <1>1, <2>1 DEF ReadExit, WriteRaises, Goto
    <2>2. CASE ReadReport(r) \/ ReportDone(r)
      BY <1>1, <2>2 DEF ReadReport, ReportDone, Goto
    <2>3. ~ ReadFails(r)
      BY DEF ReadFails
    <2> QED
      BY <1>10, <2>1, <2>2, <2>3
      DEF ReaderStep, LoseAttached, ReconnectClose, ReconnectUnset, ReconnectSearch,
          ReconnectDevice, ReconnectAttach, ReconnectResync
  <1>11. CASE PadLeaves \/ PadReturns \/ ViaTakes \/ ViaLeaves
    BY <1>1, <1>11 DEF PadLeaves, PadReturns, ViaTakes, ViaLeaves, Found
  <1> QED
    BY <1>2, <1>3, <1>4, <1>5, <1>6, <1>7, <1>8, <1>9, <1>10, <1>11 DEF Next, WorkerStep

(* With a pad that stays and readers that are joined in time, the inductive    *)
(* invariant of open() and close() holds.                                      *)
THEOREM CalmInvariant ==
    ASSUME ~ PadVanishes, ~ SlowReader
    PROVE  Spec => []CalmInv
  <1>1. Init => CalmInv
    BY CalmInit
  <1>2. CalmInv /\ [Next]_vars => CalmInv'
    BY CalmNext
  <1> QED
    BY <1>1, <1>2, PTL DEF Spec

(* Then exactly the thread that close() will join reads the pad.               *)
THEOREM CalmHasOneReader == ASSUME ~ PadVanishes, ~ SlowReader PROVE Spec => []OneReader
  <1>1. CalmInv => OneReader
    BY ReadersAssumption DEF CalmInv, HandleFollowsWorker, OneReader, Settled, Closed, Read
  <1> QED
    BY <1>1, CalmInvariant, PTL

--------------------------------------------------------------------------------
(* A reader that outlasts its join reads on beside the next one, so there may  *)
(* be any number of them; but as long as the pad stays on the bus none ever    *)
(* gets into _reconnect(): the handle is dead only between close()'s step that *)
(* closes it and the end of close(), and the stop signal is out until then.    *)
Shut == dev = "none" /\ ~ attached /\ holder # "daemon"

SteadyInv ==
    /\ LinkTypeOK
    /\ present
    /\ \A r \in Readers : pc[r] \in {"off", "read", "busy", "exit"}
    /\ worker \in {"idle", "resync"} => Shut \/ (Opened /\ attached)
    /\ worker = "resync" => attached
    /\ worker \in {"clear", "discover", "device"} => Shut
    /\ worker = "attach" => Opened /\ ~ attached
    /\ worker \in {"start", "stop", "join", "shut"} => Opened /\ attached
    /\ worker \in {"detach", "reset"} => dev = "dead" /\ holder # "daemon"
    /\ worker \in {"join", "shut", "detach", "reset"} => stop
    /\ worker = "reset" => ~ attached

(* serve() opens a pad that is there.                                          *)
LEMMA SteadyInit == ASSUME ~ PadVanishes, Init PROVE SteadyInv
  <1>1. LinkTypeOK
    BY LinkInit
  <1>2. present /\ attached /\ dev = "live" /\ holder = "daemon"
    BY LinkFlagsAssumption DEF Init
  <1> QED
    BY <1>1, <1>2 DEF Init, SteadyInv, Opened

(* One step of open(), close(), any reader or VIA keeps this.                  *)
LEMMA SteadyNext ==
    ASSUME ~ PadVanishes, SteadyInv, [Next]_vars
    PROVE  SteadyInv'
  <1>1. LinkTypeOK'
    BY LinkNext DEF SteadyInv
  <1>12. /\ pc \in [Readers -> {"off", "read", "busy", "exit"}]
         /\ worker \in {"idle", "clear", "discover", "device", "attach", "start", "resync",
                        "stop", "join", "shut", "detach", "reset"}
         /\ attached \in BOOLEAN /\ stop \in BOOLEAN /\ present \in BOOLEAN
    BY DEF SteadyInv, LinkTypeOK
  <1> USE <1>1, <1>12 DEF SteadyInv, Shut, Opened, Alive, taskVars, handleVars, threadVars
  <1>2. CASE UNCHANGED vars
    BY <1>2 DEF vars
  <1>3. CASE SessionStart \/ SessionEnd \/ KickOnly
    <2>1. UNCHANGED <<worker, present, handleVars, threadVars>>
      BY <1>3 DEF SessionStart, SessionEnd, KickOnly
    <2> QED
      BY <2>1
  <1>4. CASE Reconcile
    <2>1. UNCHANGED <<present, handleVars, threadVars>> /\ worker = "idle"
      BY <1>4 DEF Reconcile
    <2>2. CASE worker' = "clear" /\ ~ attached
      BY <2>1, <2>2
    <2>3. CASE worker' = "stop" /\ attached
      BY <2>1, <2>3
    <2>4. CASE worker' = "idle"
      BY <2>1, <2>4
    <2>5. \/ worker' = "clear" /\ ~ attached
          \/ worker' = "stop" /\ attached
          \/ worker' = "idle"
      BY <1>4 DEF Reconcile
    <2> QED
      BY <2>2, <2>3, <2>4, <2>5
  <1>5. CASE OpenClear \/ OpenDiscover \/ OpenDevice
    <2>1. CASE OpenClear
      BY <2>1 DEF OpenClear
    <2>2. CASE OpenDiscover
      BY <2>2 DEF OpenDiscover, Found
    <2>3. CASE OpenDevice
      BY <2>3 DEF OpenDevice, Found
    <2> QED
      BY <1>5, <2>1, <2>2, <2>3
  <1>6. CASE OpenAttach \/ OpenResync
    BY <1>6 DEF OpenAttach, OpenResync
  <1>7. CASE OpenStart
    BY <1>7 DEF OpenStart
  <1>8. CASE CloseStop \/ CloseJoin \/ CloseShut
    <2>1. CASE CloseStop
      BY <2>1 DEF CloseStop
    <2>2. CASE CloseJoin
      BY <2>2 DEF CloseJoin
    <2>3. CASE CloseShut
      BY <2>3 DEF CloseShut
    <2> QED
      BY <1>8, <2>1, <2>2, <2>3
  <1>9. CASE CloseDetach \/ CloseReset
    <2>1. CASE CloseDetach
      BY <2>1 DEF CloseDetach
    <2>2. CASE CloseReset
      BY <2>2 DEF CloseReset
    <2> QED
      BY <1>9, <2>1, <2>2
  <1>10. ASSUME NEW r \in Readers, ReaderStep(r) PROVE SteadyInv'
    <2>1. CASE ReadExit(r) \/ WriteRaises(r)
      <3>1. UNCHANGED <<worker, present, handleVars, stop>>
        BY <2>1 DEF ReadExit, WriteRaises
      <3>2. \A q \in Readers : pc'[q] \in {"off", "read", "busy", "exit"}
        BY <2>1 DEF ReadExit, WriteRaises, Goto
      <3> QED
        BY <3>1, <3>2
    <2>2. CASE ReadReport(r) \/ ReportDone(r)
      <3>1. UNCHANGED <<worker, present, handleVars, stop>>
        BY <2>2 DEF ReadReport, ReportDone
      <3>2. \A q \in Readers : pc'[q] \in {"off", "read", "busy", "exit"}
        BY <2>2 DEF ReadReport, ReportDone, Goto
      <3> QED
        BY <3>1, <3>2
    <2>3. ~ ReadFails(r)
      BY DEF ReadFails
    <2> QED
      BY <1>10, <2>1, <2>2, <2>3
      DEF ReaderStep, LoseAttached, ReconnectClose, ReconnectUnset, ReconnectSearch,
          ReconnectDevice, ReconnectAttach, ReconnectResync
  <1>11. CASE PadLeaves \/ PadReturns \/ ViaTakes \/ ViaLeaves
    <2>1. ~ PadLeaves /\ ~ PadReturns
      BY DEF PadLeaves, PadReturns
    <2>2. UNCHANGED <<worker, present, dev, attached, threadVars>> /\ holder # "daemon"
          /\ holder' # "daemon"
      BY <1>11, <2>1 DEF ViaTakes, ViaLeaves, Found
    <2> QED
      BY <2>2
  <1> QED
    BY <1>2, <1>3, <1>4, <1>5, <1>6, <1>7, <1>8, <1>9, <1>10, <1>11 DEF Next, WorkerStep

(* So with a pad that stays on the bus open() and close() keep the handle, the *)
(* flag and the interface in step, whatever the readers do.                    *)
THEOREM SteadyInvariant ==
    ASSUME ~ PadVanishes
    PROVE  Spec => []SteadyInv
  <1>1. Init => SteadyInv
    BY SteadyInit
  <1>2. SteadyInv /\ [Next]_vars => SteadyInv'
    BY SteadyNext
  <1> QED
    BY <1>1, <1>2, PTL DEF Spec

(* Then no handle leaks, however sessions come and go, whatever VIA takes and  *)
(* however long a reader outlasts the close.                                   *)
THEOREM SteadyHasNoLeak == ASSUME ~ PadVanishes PROVE Spec => []NoHandleLeak
  <1>1. SteadyInv => NoHandleLeak
    BY DEF SteadyInv, NoHandleLeak, Settled, Shut, Opened
  <1> QED
    BY <1>1, SteadyInvariant, PTL

(* Then an attached link has a handle.                                         *)
THEOREM SteadyHasHandle == ASSUME ~ PadVanishes PROVE Spec => []AttachedHasHandle
  <1>1. SteadyInv => AttachedHasHandle
    BY DEF SteadyInv, AttachedHasHandle, Settled, Shut, Opened
  <1> QED
    BY <1>1, SteadyInvariant, PTL

--------------------------------------------------------------------------------
(* The last session gone, a reconcile is still to run, close() is under way,   *)
(* or the link is shut: a handler schedules its reconcile after it changed the *)
(* sessions, and open() and close() only start from what the sessions then are.*)
ClosesAfterLast ==
    sessions = 0 /\ kicks = 0 =>
        \/ worker \in {"stop", "join", "shut", "detach", "reset"}
        \/ worker = "idle" /\ Shut

(* A key that evicts the last session schedules nothing; without one every     *)
(* step keeps this.                                                            *)
LEMMA ClosesNext ==
    ASSUME ~ HoldsEvict, SteadyInv, SteadyInv', ClosesAfterLast, [Next]_vars
    PROVE  ClosesAfterLast'
  <1>1. /\ sessions \in Nat /\ kicks \in Nat /\ attached \in BOOLEAN
        /\ sessions' \in Nat /\ kicks' \in Nat
    BY LinkBoundsAssumption DEF SteadyInv, LinkTypeOK
  <1> USE <1>1 DEF ClosesAfterLast, Shut, taskVars, handleVars, threadVars
  <1>2. CASE UNCHANGED <<sessions, kicks, worker, dev, attached, holder>>
    BY <1>2
  <1>3. CASE SessionStart \/ SessionEnd \/ KickOnly
    BY <1>3 DEF SessionStart, SessionEnd, KickOnly
  <1>4. CASE Reconcile
    <2>1. UNCHANGED <<sessions, dev, attached, holder>>
      BY <1>4 DEF Reconcile
    <2>2. sessions = 0 /\ attached => worker' = "stop"
      BY <1>4 DEF Reconcile
    <2>3. sessions = 0 /\ ~ attached => worker' = "idle" /\ Shut
      BY <1>4 DEF Reconcile, SteadyInv
    <2> QED
      BY <2>1, <2>2, <2>3
  <1>5. CASE OpenClear \/ OpenDiscover \/ OpenDevice \/ OpenAttach \/ OpenStart \/ OpenResync
    BY <1>5 DEF OpenClear, OpenDiscover, OpenDevice, OpenAttach, OpenStart, OpenResync
  <1>6. CASE CloseStop \/ CloseJoin \/ CloseShut \/ CloseDetach
    BY <1>6 DEF CloseStop, CloseJoin, CloseShut, CloseDetach
  <1>7. CASE CloseReset
    BY <1>7 DEF CloseReset, SteadyInv
  <1>8. ASSUME NEW r \in Readers, ReaderStep(r) PROVE ClosesAfterLast'
    <2>1. pc[r] \in {"off", "read", "busy", "exit"} /\ (pc[r] = "read" /\ ~ stop => dev # "dead")
      BY DEF SteadyInv, LinkTypeOK, Opened
    <2>2. ReadExit(r) \/ ReadReport(r) \/ ReportDone(r) \/ WriteRaises(r)
      BY <1>8, <2>1
      DEF ReaderStep, ReadFails, LoseAttached, ReconnectClose, ReconnectUnset, ReconnectSearch,
          ReconnectDevice, ReconnectAttach, ReconnectResync
    <2>3. sessions' = sessions
      BY <2>2 DEF ReadExit, ReadReport, ReportDone, WriteRaises
    <2> QED
      BY <1>2, <2>2, <2>3 DEF ReadExit, ReadReport, ReportDone, WriteRaises
  <1>9. CASE PadLeaves \/ PadReturns \/ ViaTakes \/ ViaLeaves
    <2>1. ~ PadLeaves /\ ~ PadReturns
      BY DEF PadLeaves, PadReturns, SteadyInv
    <2>2. UNCHANGED <<sessions, kicks, worker, dev, attached>> /\ holder' # "daemon"
      BY <1>9, <2>1 DEF ViaTakes, ViaLeaves
    <2> QED
      BY <2>2
  <1>10. CASE UNCHANGED vars
    BY <1>2, <1>10 DEF vars
  <1> QED
    BY <1>3, <1>4, <1>5, <1>6, <1>7, <1>8, <1>9, <1>10 DEF Next, WorkerStep

(* When the last session is gone and every reconcile has run, the daemon does  *)
(* not hold the interface: VIA can have it.  This is what HandleReleased comes *)
(* down to once the tasks have run; it needs a pad that stays on the bus and   *)
(* no session that is evicted by a held key.                                   *)
LetsGo == worker = "idle" /\ kicks = 0 /\ sessions = 0 => holder # "daemon"

(* It holds in every state: what closes the link is always still under way.    *)
THEOREM SteadyLetsGo == ASSUME ~ PadVanishes, ~ HoldsEvict PROVE Spec => []LetsGo
  <1>1. Init => ClosesAfterLast
    BY DEF Init, ClosesAfterLast
  <1>2. SteadyInv /\ SteadyInv' /\ ClosesAfterLast /\ [Next]_vars => ClosesAfterLast'
    BY ClosesNext
  <1>3. ClosesAfterLast => LetsGo
    BY DEF ClosesAfterLast, LetsGo, Shut
  <1> QED
    BY <1>1, <1>2, <1>3, SteadyInvariant, PTL DEF Spec

--------------------------------------------------------------------------------
(* A pad that can be written and has missed a state is on its way to a replay  *)
(* or to losing its handle: the worker has still to resync a link it attached, *)
(* or a reader that found the pad again has.  A reader at "close" or "unset"   *)
(* is about to take the handle away, whoever opened it.                        *)
MissedIsReplayed ==
    dev = "live" /\ stale =>
        \/ worker = "attach"
        \/ worker \in {"start", "resync"} /\ attached
        \/ \E r \in Readers : pc[r] \in {"close", "unset", "attach", "resync"}

CaughtUpInv == LinkTypeOK /\ MissedIsReplayed

(* serve() has either opened a pad that has missed nothing or has no pad.      *)
LEMMA CaughtUpInit == Init => CaughtUpInv
  <1> SUFFICES ASSUME Init PROVE CaughtUpInv
    OBVIOUS
  <1>1. LinkTypeOK
    BY LinkInit
  <1>2. dev = "live" => ~ stale
    BY DEF Init
  <1> QED
    BY <1>1, <1>2 DEF CaughtUpInv, MissedIsReplayed

(* Neither the worker nor a reader drops its replay while the handle lives,    *)
(* however the pad leaves, the readers overlap and the closes race.            *)
LEMMA CaughtUpNext == CaughtUpInv /\ [Next]_vars => CaughtUpInv'
  <1> SUFFICES ASSUME CaughtUpInv, [Next]_vars PROVE CaughtUpInv'
    OBVIOUS
  <1>1. LinkTypeOK'
    BY LinkNext DEF CaughtUpInv
  <1> USE <1>1 DEF CaughtUpInv, MissedIsReplayed, LinkTypeOK, taskVars, handleVars, threadVars
  <1>2. CASE UNCHANGED vars
    BY <1>2 DEF vars
  <1>3. CASE SessionStart \/ SessionEnd \/ KickOnly \/ Reconcile
    BY <1>3 DEF SessionStart, SessionEnd, KickOnly, Reconcile
  <1>4. CASE OpenClear \/ OpenDiscover \/ OpenDevice
    BY <1>4 DEF OpenClear, OpenDiscover, OpenDevice
  <1>5. CASE OpenAttach \/ OpenResync
    BY <1>5 DEF OpenAttach, OpenResync
  <1>6. CASE OpenStart
    <2>1. \A r \in Readers :
             pc[r] \in {"close", "unset", "attach", "resync"} => pc'[r] = pc[r]
      BY <1>6 DEF OpenStart, Alive
    <2> QED
      BY <1>6, <2>1 DEF OpenStart
  <1>7. CASE CloseStop \/ CloseJoin \/ CloseShut \/ CloseDetach \/ CloseReset
    BY <1>7 DEF CloseStop, CloseJoin, CloseShut, CloseDetach, CloseReset
  <1>8. ASSUME NEW r \in Readers, ReaderStep(r) PROVE CaughtUpInv'
    <2>1. CASE ReadExit(r) \/ ReadFails(r) \/ ReportDone(r) \/ WriteRaises(r)
      BY <2>1 DEF ReadExit, ReadFails, ReportDone, WriteRaises, Goto
    <2>2. CASE ReadReport(r)
      BY <2>2 DEF ReadReport, Goto
    <2>3. CASE LoseAttached(r) \/ ReconnectClose(r) \/ ReconnectUnset(r)
      BY <2>3 DEF LoseAttached, ReconnectClose, ReconnectUnset, Goto
    <2>4. CASE ReconnectSearch(r) \/ ReconnectDevice(r)
      BY <2>4 DEF ReconnectSearch, ReconnectDevice, Goto
    <2>5. CASE ReconnectAttach(r) \/ ReconnectResync(r)
      BY <2>5 DEF ReconnectAttach, ReconnectResync, Goto
    <2> QED
      BY <1>8, <2>1, <2>2, <2>3, <2>4, <2>5 DEF ReaderStep
  <1>9. CASE PadLeaves \/ PadReturns \/ ViaTakes \/ ViaLeaves
    BY <1>9 DEF PadLeaves, PadReturns, ViaTakes, ViaLeaves
  <1> QED
    BY <1>2, <1>3, <1>4, <1>5, <1>6, <1>7, <1>8, <1>9 DEF Next, WorkerStep

(* Once no open or close is under way, a pad with a live handle has missed no  *)
(* cached state, with the pad vanishing and slow readers included.             *)
THEOREM LinkCatchesUp == Spec => []PadCaughtUp
  <1>1. CaughtUpInv => PadCaughtUp
    BY DEF CaughtUpInv, MissedIsReplayed, PadCaughtUp, Settled
  <1> QED
    BY <1>1, CaughtUpInit, CaughtUpNext, PTL DEF Spec
================================================================================
