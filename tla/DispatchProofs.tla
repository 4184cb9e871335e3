----------------------------- MODULE DispatchProofs -----------------------------
(* What the daemon knows of a session and forgets of it, what a press raises   *)
(* and what it reaches, for any sessions, slots, places and windows and any    *)
(* number of warm-up threads.                                                  *)
EXTENDS Dispatch, SlotManagerProofs, FiniteSetTheorems, WellFoundedInduction

Entry == {"pane", "tty", "project", "method"}

(* The tables and the threads are the records they were made as.               *)
IsEntries(r) == r = [e \in Entry |-> r[e]]

IsWork(w) == w = [pc |-> w.pc, session |-> w.session, values |-> w.values, todo |-> w.todo]

ShapeKnown ==
    known = [s \in Session |-> known[s]] /\ \A s \in Session : IsEntries(known[s])

ShapeThread ==
    thread = [t \in Threads |-> thread[t]] /\ \A t \in Threads : IsWork(thread[t])

ShapeHeard ==
    /\ press = [raised |-> press.raised, faulty |-> press.faulty]
    /\ heard = [owed |-> heard.owed, spoke |-> heard.spoke, moved |-> heard.moved,
                late |-> heard.late]

Shape == ShapeKnown /\ IsWork(loop) /\ ShapeThread /\ ShapeHeard

(* What is left of the four entries while one after the other is popped.       *)
Rest ==
    {<<"pane", "tty", "project", "method">>, <<"tty", "project", "method">>,
     <<"project", "method">>, <<"method">>}

Left(todo) == {todo[k] : k \in 1 .. Len(todo)}

(* Popping takes the head and leaves the rest of the four.                     *)
LEMMA Popping ==
    ASSUME NEW todo \in Rest
    PROVE  /\ todo # <<>>
           /\ Head(todo) \in Entry
           /\ Len(todo) # 1 => Tail(todo) \in Rest /\ Left(todo) = {Head(todo)} \cup Left(Tail(todo))
           /\ Len(todo) = 1 => Left(todo) = {Head(todo)}
  <1>1. CASE todo = <<"pane", "tty", "project", "method">>
    <2>1. Tail(todo) = <<"tty", "project", "method">>
      BY <1>1
    <2> QED
      BY <1>1, <2>1 DEF Entry, Rest, Left
  <1>2. CASE todo = <<"tty", "project", "method">>
    <2>1. Tail(todo) = <<"project", "method">>
      BY <1>2
    <2> QED
      BY <1>2, <2>1 DEF Entry, Rest, Left
  <1>3. CASE todo = <<"project", "method">>
    <2>1. Tail(todo) = <<"method">>
      BY <1>3
    <2> QED
      BY <1>3, <2>1 DEF Entry, Rest, Left
  <1>4. CASE todo = <<"method">>
    BY <1>4 DEF Entry, Rest, Left
  <1> QED
    BY <1>1, <1>2, <1>3, <1>4 DEF Rest

(* What an end or an eviction pops is all four entries.                        *)
LEMMA EntriesAreAll == Entries \in Rest /\ Left(Entries) = Entry
  BY DEF Entries, Rest, Left, Entry

--------------------------------------------------------------------------------
(* The tables and threads start as such records.                               *)
LEMMA ShapeInit == Init => Shape
  <1> SUFFICES ASSUME Init PROVE Shape
    OBVIOUS
  <1>1. IsEntries(Nothing)
    BY DEF IsEntries, Entry, Nothing
  <1>2. IsWork(Idle)
    BY DEF IsWork, Idle, Work
  <1>3. ShapeKnown
    BY <1>1 DEF Init, ShapeKnown
  <1>4. ShapeThread
    BY <1>2 DEF Init, ShapeThread
  <1>5. ShapeHeard
    BY DEF Init, ShapeHeard, NoPress, NobodyHeard
  <1> QED
    BY <1>2, <1>3, <1>4, <1>5 DEF Init, Shape

(* A thread that becomes a record stays one, and no other thread changes.      *)
LEMMA Becoming ==
    ASSUME ShapeThread, NEW t \in Threads, NEW w, IsWork(w), Becomes(t, w)
    PROVE  /\ ShapeThread'
           /\ thread'[t] = w
           /\ \A u \in Threads \ {t} : thread'[u] = thread[u]
  <1>1. thread' = [u \in Threads |-> IF u = t THEN w ELSE thread[u]]
    BY DEF Becomes, ShapeThread
  <1> QED
    BY <1>1 DEF ShapeThread

(* A store changes one entry of one session.                                   *)
Stores(s, e, v) == known' = [known EXCEPT ![s][e] = v]

(* A store changes that entry of that session and keeps the rest.              *)
LEMMA Storing ==
    ShapeKnown =>
        \A s, e, v : Stores(s, e, v) =>
            /\ ShapeKnown'
            /\ \A t \in Session, f \in Entry :
                   known'[t][f] = IF t = s /\ f = e THEN v ELSE known[t][f]
  <1> SUFFICES ASSUME ShapeKnown, NEW s, NEW e, NEW v, Stores(s, e, v)
               PROVE  /\ ShapeKnown'
                      /\ \A t \in Session, f \in Entry :
                             known'[t][f] = IF t = s /\ f = e THEN v ELSE known[t][f]
    OBVIOUS
  <1> DEFINE r == [known[s] EXCEPT ![e] = v]
  <1>1. known' = [t \in Session |-> IF t = s THEN r ELSE known[t]]
    BY DEF ShapeKnown, Stores
  <1>2. s \in Session => r = [f \in Entry |-> IF f = e THEN v ELSE known[s][f]]
    BY DEF ShapeKnown, IsEntries
  <1>3. s \in Session => IsEntries(r) /\ \A f \in Entry : r[f] = IF f = e THEN v ELSE known[s][f]
    BY <1>2 DEF IsEntries
  <1> HIDE DEF r
  <1> QED
    BY <1>1, <1>3 DEF ShapeKnown

(* Every step that changes a thread's record turns it into another record.     *)
LEMMA ThreadShape == Shape /\ [Next]_vars => ShapeThread'
  <1> SUFFICES ASSUME Shape, [Next]_vars PROVE ShapeThread'
    OBVIOUS
  <1>1. CASE UNCHANGED thread
    BY <1>1 DEF Shape, ShapeThread
  <1>2. ASSUME NEW t \in Threads, NEW w, IsWork(w), Becomes(t, w) PROVE ShapeThread'
    BY <1>2, Becoming DEF Shape
  <1>3. \A t \in Threads : IsWork(thread[t])
    BY DEF Shape, ShapeThread
  <1>4. IsWork(Idle) /\ \A pc, s, values, todo : IsWork(Work(pc, s, values, todo))
    BY DEF IsWork, Idle, Work
  <1>5. \A w, x : IsWork(w) => IsWork([w EXCEPT !.todo = x])
    BY DEF IsWork
  <1>10. "reader" \in Threads /\ Warmer \subseteq Threads
    BY DEF Threads
  <1>11. CASE PressReads
    BY <1>2, <1>4, <1>10, <1>11 DEF PressReads
  <1>12. CASE TriedRaises
    BY <1>2, <1>4, <1>10, <1>12 DEF TriedRaises
  <1>13. CASE TriedMisses \/ TriedFails
    BY <1>2, <1>3, <1>5, <1>10, <1>13 DEF TriedMisses, TriedFails, reader
  <1>14. CASE PressGivesUp \/ PressLearns
    BY <1>2, <1>4, <1>10, <1>14 DEF PressGivesUp, PressLearns, Learns
  <1>15. CASE ReaderForgets
    BY <1>2, <1>3, <1>4, <1>5, <1>10, <1>15 DEF ReaderForgets, reader
  <1>16. ASSUME NEW t \in Warmer, WarmerStep(t) PROVE ShapeThread'
    <2>1. CASE ProbeFinds(t)
      BY <1>2, <1>4, <1>10, <2>1 DEF ProbeFinds
    <2>2. CASE ProbeGivesUp(t) \/ WarmLearns(t)
      BY <1>2, <1>4, <1>10, <2>2 DEF ProbeGivesUp, WarmLearns, Learns
    <2> QED
      BY <1>16, <2>1, <2>2 DEF WarmerStep
  <1>17. ASSUME NEW i \in Slots, KeyTap(i) \/ KeyHeld(i) PROVE ShapeThread'
    BY <1>2, <1>4, <1>10, <1>17 DEF KeyTap, KeyHeld
  <1>18. CASE LoopSpawn
    BY <1>2, <1>4, <1>10, <1>18 DEF LoopSpawn
  <1>19. ASSUME LoopStep, ~ LoopSpawn PROVE UNCHANGED thread
    BY <1>19 DEF LoopStep, Seed, HookSessionStart, HookSessionEnd, HookOther, LoopStore, LoopBackfill
  <1>20. ASSUME NEW w \in Window, DesktopChanges(w) PROVE UNCHANGED thread
    BY <1>20 DEF DesktopChanges, daemonVars
  <1> QED
    BY <1>1, <1>11, <1>12, <1>13, <1>14, <1>15, <1>16, <1>17, <1>18, <1>19, <1>20
    DEF Next, ReaderStep, vars, daemonVars

(* A handler's work is replaced whole or loses its head.                       *)
LEMMA LoopShape == Shape /\ [Next]_vars => IsWork(loop)'
  <1> SUFFICES ASSUME Shape, [Next]_vars PROVE IsWork(loop)'
    OBVIOUS
  <1>1. CASE UNCHANGED loop
    BY <1>1 DEF Shape, IsWork
  <1>2. IsWork(Idle) /\ \A pc, s, values, todo : IsWork(Work(pc, s, values, todo))
    BY DEF IsWork, Idle, Work
  <1>3. ASSUME \/ loop' = Idle
               \/ \E pc, s, values, todo : loop' = Work(pc, s, values, todo)
        PROVE  IsWork(loop)'
    BY <1>2, <1>3 DEF IsWork
  <1>4. ASSUME NEW s \in Session, Seed(s) PROVE IsWork(loop)'
    BY <1>1, <1>3, <1>4 DEF Seed, Handler
  <1>5. ASSUME NEW s \in Session, HookSessionStart(s) PROVE IsWork(loop)'
    BY <1>3, <1>5 DEF HookSessionStart, Handler
  <1>6. ASSUME NEW s \in Session, HookSessionEnd(s) PROVE IsWork(loop)'
    BY <1>3, <1>6 DEF HookSessionEnd
  <1>7. ASSUME NEW s \in Session, HookOther(s) PROVE IsWork(loop)'
    BY <1>3, <1>7 DEF HookOther, Handler
  <1>8. CASE LoopStore
    BY <1>2, <1>8 DEF LoopStore, Shape, IsWork
  <1>9. CASE LoopBackfill
    BY <1>3, <1>9 DEF LoopBackfill
  <1>10. CASE LoopSpawn
    BY <1>3, <1>10 DEF LoopSpawn
  <1>11. CASE ReaderStep
    BY <1>1, <1>11 DEF ReaderStep, PressReads, TriedRaises, TriedMisses, TriedFails, PressGivesUp,
                       PressLearns, ReaderForgets
  <1>12. ASSUME NEW t \in Warmer, WarmerStep(t) PROVE IsWork(loop)'
    BY <1>1, <1>12 DEF WarmerStep, ProbeFinds, ProbeGivesUp, WarmLearns
  <1>13. ASSUME NEW i \in Slots, KeyTap(i) \/ KeyHeld(i) PROVE IsWork(loop)'
    BY <1>1, <1>13 DEF KeyTap, KeyHeld
  <1>14. ASSUME NEW w \in Window, DesktopChanges(w) PROVE IsWork(loop)'
    BY <1>1, <1>14 DEF DesktopChanges, daemonVars
  <1> QED
    BY <1>1, <1>4, <1>5, <1>6, <1>7, <1>8, <1>9, <1>10, <1>11, <1>12, <1>13, <1>14
    DEF Next, LoopStep, vars, daemonVars

(* The tables change by one store at a time.                                   *)
LEMMA KnownShape == Shape /\ [Next]_vars => ShapeKnown'
  <1> SUFFICES ASSUME Shape, [Next]_vars PROVE ShapeKnown'
    OBVIOUS
  <1>1. CASE UNCHANGED known
    BY <1>1 DEF Shape, ShapeKnown, IsEntries
  <1>2. ASSUME NEW s, NEW e, NEW v, Stores(s, e, v) PROVE ShapeKnown'
    BY <1>2, Storing DEF Shape
  <1>3. CASE LoopStore
    BY <1>2, <1>3 DEF LoopStore, Stores
  <1>4. CASE ReaderForgets
    BY <1>2, <1>4 DEF ReaderForgets, Stores
  <1>5. ASSUME NEW t, NEW m, Learns(t, m) PROVE ShapeKnown'
    BY <1>2, <1>5 DEF Learns, Stores
  <1>6. CASE PressLearns
    BY <1>5, <1>6 DEF PressLearns
  <1>7. ASSUME NEW t \in Warmer, WarmLearns(t) PROVE ShapeKnown'
    BY <1>5, <1>7 DEF WarmLearns
  <1>8. ASSUME LoopStep, ~ LoopStore PROVE UNCHANGED known
    BY <1>8 DEF LoopStep, Seed, HookSessionStart, HookSessionEnd, HookOther, LoopBackfill, LoopSpawn
  <1>9. ASSUME ReaderStep, ~ ReaderForgets, ~ PressLearns PROVE UNCHANGED known
    BY <1>9 DEF ReaderStep, PressReads, TriedRaises, TriedMisses, TriedFails, PressGivesUp
  <1>10. ASSUME NEW t \in Warmer, WarmerStep(t), ~ WarmLearns(t) PROVE UNCHANGED known
    BY <1>10 DEF WarmerStep, ProbeFinds, ProbeGivesUp
  <1>11. ASSUME NEW i \in Slots, KeyTap(i) \/ KeyHeld(i) PROVE UNCHANGED known
    BY <1>11 DEF KeyTap, KeyHeld
  <1>12. ASSUME NEW w \in Window, DesktopChanges(w) PROVE UNCHANGED known
    BY <1>12 DEF DesktopChanges, daemonVars
  <1> QED
    BY <1>1, <1>3, <1>4, <1>6, <1>7, <1>8, <1>9, <1>10, <1>11, <1>12 DEF Next, vars, daemonVars

(* The histories stay records of their fields.                                 *)
LEMMA HeardShape == Shape /\ [Next]_vars => ShapeHeard'
  <1> SUFFICES ASSUME Shape, [Next]_vars PROVE ShapeHeard'
    OBVIOUS
  <1> USE DEF ShapeHeard
  <1>1. ShapeHeard
    BY DEF Shape
  <1>2. CASE UNCHANGED <<press, heard>>
    BY <1>1, <1>2
  <1>3. ASSUME NEW s \in Session, Seed(s) PROVE ShapeHeard'
    BY <1>1, <1>3 DEF Seed
  <1>4. ASSUME NEW s \in Session, HookSessionStart(s) PROVE ShapeHeard'
    BY <1>1, <1>4 DEF HookSessionStart
  <1>5. ASSUME NEW s \in Session, HookSessionEnd(s) PROVE ShapeHeard'
    BY <1>1, <1>5 DEF HookSessionEnd, Forgotten
  <1>6. ASSUME NEW s \in Session, HookOther(s) PROVE ShapeHeard'
    BY <1>1, <1>6 DEF HookOther
  <1>7. CASE LoopStore \/ LoopBackfill \/ LoopSpawn
    BY <1>2, <1>7 DEF LoopStore, LoopBackfill, LoopSpawn
  <1>9. CASE PressReads \/ TriedMisses \/ ReaderForgets
    BY <1>2, <1>9 DEF PressReads, TriedMisses, ReaderForgets
  <1>10. CASE TriedRaises \/ TriedFails \/ PressGivesUp
    BY <1>1, <1>10 DEF TriedRaises, TriedFails, PressGivesUp, NoPress
  <1>11. CASE PressLearns
    BY <1>1, <1>11 DEF PressLearns, Learns, NoPress
  <1>12. ASSUME NEW t \in Warmer, WarmerStep(t) PROVE ShapeHeard'
    BY <1>1, <1>12 DEF WarmerStep, ProbeFinds, ProbeGivesUp, WarmLearns, Learns
  <1>13. ASSUME NEW i \in Slots, KeyTap(i) \/ KeyHeld(i) PROVE ShapeHeard'
    BY <1>1, <1>13 DEF KeyTap, KeyHeld, Forgotten
  <1>14. ASSUME NEW w \in Window, DesktopChanges(w) PROVE ShapeHeard'
    BY <1>1, <1>14 DEF DesktopChanges
  <1> QED
    BY <1>2, <1>3, <1>4, <1>5, <1>6, <1>7, <1>9, <1>10, <1>11, <1>12, <1>13, <1>14
    DEF Next, LoopStep, ReaderStep, vars

(* So every step keeps all the records.                                        *)
LEMMA ShapeNext == Shape /\ [Next]_vars => Shape'
  BY ThreadShape, LoopShape, KnownShape, HeardShape DEF Shape

--------------------------------------------------------------------------------
(* Nothing is raised yet, or one window is and the press is about to store how.*)
(* OneWindowPerPress alone says nothing of a press between two methods.        *)
PressInv ==
    /\ Shape
    /\ press.raised # {} => reader.pc = "learn" /\ \E m : press.raised = {m}

(* Only a method that finds something raises, and it ends the press.           *)
LEMMA PressNext == PressInv /\ [Next]_vars => PressInv'
  <1> SUFFICES ASSUME PressInv, [Next]_vars PROVE PressInv'
    OBVIOUS
  <1>1. Shape' /\ Shape /\ ShapeThread
    BY ShapeNext DEF PressInv, Shape
  <1>2. CASE UNCHANGED <<press, reader>>
    BY <1>1, <1>2 DEF PressInv
  <1>3. ASSUME NEW w, IsWork(w), Becomes("reader", w) PROVE reader' = w
    BY <1>1, <1>3, Becoming DEF Threads, reader
  <1>4. ASSUME NEW t \in Warmer, NEW w, IsWork(w), Becomes(t, w) PROVE reader' = reader
    BY <1>1, <1>4, Becoming, WarmerAssumption DEF Threads, reader
  <1>5. IsWork(Idle) /\ Idle.pc = "idle"
    BY DEF IsWork, Idle, Work
  <1>6. ASSUME NEW pc, NEW s, NEW values, NEW todo
        PROVE  IsWork(Work(pc, s, values, todo)) /\ Work(pc, s, values, todo).pc = pc
    BY DEF IsWork, Work
  <1>7. reader.pc # "learn" => press.raised = {}
    BY DEF PressInv
  <1>8. CASE PressReads
    BY <1>1, <1>7, <1>8 DEF PressReads, PressInv
  <1>9. CASE TriedRaises
    <2>1. press.raised = {}
      BY <1>7, <1>9 DEF TriedRaises, Trying
    <2>2. press'.raised = {Tried}
      BY <1>9, <2>1 DEF TriedRaises
    <2>3. reader'.pc = "learn"
      BY <1>3, <1>6, <1>9 DEF TriedRaises
    <2> QED
      BY <1>1, <2>2, <2>3 DEF PressInv
  <1>10. CASE TriedMisses \/ TriedFails
    <2>1. press.raised = {}
      BY <1>7, <1>10 DEF TriedMisses, TriedFails, Trying
    <2>2. press'.raised = {}
      BY <1>1, <1>10, <2>1 DEF TriedMisses, TriedFails, Shape, ShapeHeard
    <2> QED
      BY <1>1, <2>2 DEF PressInv
  <1>11. CASE PressGivesUp \/ PressLearns
    BY <1>1, <1>11 DEF PressGivesUp, PressLearns, NoPress, PressInv
  <1>12. CASE ReaderForgets
    BY <1>1, <1>7, <1>12 DEF ReaderForgets, PressInv
  <1>13. ASSUME NEW t \in Warmer, WarmerStep(t) PROVE PressInv'
    <2>1. press' = press
      BY <1>13 DEF WarmerStep, ProbeFinds, ProbeGivesUp, WarmLearns
    <2>2. reader' = reader
      BY <1>4, <1>5, <1>6, <1>13 DEF WarmerStep, ProbeFinds, ProbeGivesUp, WarmLearns, Learns
    <2> QED
      BY <1>2, <2>1, <2>2
  <1>14. ASSUME NEW i \in Slots, KeyTap(i) \/ KeyHeld(i) PROVE PressInv'
    <2>1. press' = press /\ reader.pc = "idle"
      BY <1>14 DEF KeyTap, KeyHeld
    <2> QED
      BY <1>1, <1>7, <2>1 DEF PressInv
  <1>15. CASE LoopSpawn
    <2>1. reader' = reader
      BY <1>4, <1>6, <1>15 DEF LoopSpawn
    <2> QED
      BY <1>2, <1>15, <2>1 DEF LoopSpawn
  <1>16. ASSUME LoopStep, ~ LoopSpawn PROVE PressInv'
    BY <1>2, <1>16
    DEF LoopStep, Seed, HookSessionStart, HookSessionEnd, HookOther, LoopStore, LoopBackfill, reader
  <1>17. ASSUME NEW w \in Window, DesktopChanges(w) PROVE PressInv'
    BY <1>2, <1>17 DEF DesktopChanges, daemonVars, reader
  <1>18. CASE UNCHANGED vars
    BY <1>2, <1>18 DEF vars, daemonVars, reader
  <1> QED
    BY <1>8, <1>9, <1>10, <1>11, <1>12, <1>13, <1>14, <1>15, <1>16, <1>17, <1>18
    DEF Next, ReaderStep

(* A press raises at most one window whatever handlers, evictions, warm-ups    *)
(* and other presses do meanwhile, and a warm-up raises none.                  *)
THEOREM PressRaisesOne == Spec => []OneWindowPerPress
  <1>1. Init => PressInv
    BY ShapeInit DEF Init, PressInv, NoPress
  <1>2. PressInv => OneWindowPerPress
    <2> SUFFICES ASSUME PressInv PROVE OneWindowPerPress
      OBVIOUS
    <2>1. CASE press.raised = {}
      BY <2>1, FS_EmptySet DEF OneWindowPerPress
    <2>2. CASE press.raised # {}
      <3>1. PICK m : press.raised = {m}
        BY <2>2 DEF PressInv
      <3>2. Cardinality(press.raised) = 1
        BY <3>1, FS_Singleton
      <3> QED
        BY <2>2, <3>2 DEF PressInv, OneWindowPerPress
    <2> QED
      BY <2>1, <2>2
  <1> QED
    BY <1>1, <1>2, PressNext, PTL DEF Spec

--------------------------------------------------------------------------------
(* NothingLingers speaks of settled states.  In between, what is left of a     *)
(* session that is over is still to be popped by the handler of its end or by  *)
(* the eviction; and a handler at work for a session that is over is the       *)
(* handler of its end.                                                         *)
LoopClears(s, e) ==
    /\ loop.pc = "write"
    /\ loop.session = s
    /\ loop.values = Nothing
    /\ e \in Left(loop.todo)

ReaderClears(s, e) ==
    /\ reader.pc = "forget"
    /\ reader.session = s
    /\ e \in Left(reader.todo)

Excused(s, e) == e = "method" /\ s \in heard.late

LoopOwes ==
    /\ loop.pc = "idle" => loop.todo = <<>>
    /\ loop.pc # "idle" /\ loop.session \notin heard.owed =>
           loop.pc = "write" /\ loop.values = Nothing /\ loop.todo \in Rest

ReaderOwes == reader.pc = "forget" => reader.todo \in Rest

Cleared ==
    \A s \in Session \ heard.owed, e \in Entry :
        known[s][e] = None \/ Excused(s, e) \/ LoopClears(s, e) \/ ReaderClears(s, e)

ForgetInv == Shape /\ LoopOwes /\ ReaderOwes /\ Cleared

(* Nothing is known and nothing is owed at first.                              *)
LEMMA ForgetInit == Init => ForgetInv
  <1> SUFFICES ASSUME Init PROVE ForgetInv
    OBVIOUS
  <1>1. reader = Idle
    BY DEF Init, reader, Threads
  <1>2. LoopOwes /\ ReaderOwes
    BY <1>1 DEF Init, LoopOwes, ReaderOwes, Idle, Work
  <1>3. Cleared
    BY DEF Init, Cleared, Nothing, Entry
  <1> QED
    BY <1>2, <1>3, ShapeInit DEF ForgetInv

(* The handlers' first steps: they run for sessions that are owed something,   *)
(* except the one that pops everything.                                        *)
LEMMA HandlersForget ==
    ASSUME ForgetInv, Shape', NEW s \in Session,
           Seed(s) \/ HookSessionStart(s) \/ HookSessionEnd(s) \/ HookOther(s)
    PROVE  ForgetInv'
  <1>1. loop.pc = "idle" /\ UNCHANGED <<known, thread>>
    BY DEF Seed, HookSessionStart, HookSessionEnd, HookOther
  <1>2. reader' = reader /\ ReaderOwes'
    BY <1>1 DEF ForgetInv, ReaderOwes, reader
  <1>3. CASE HookSessionEnd(s)
    <2>1. loop' = [pc |-> "write", session |-> s, values |-> Nothing, todo |-> Entries]
      BY <1>3 DEF HookSessionEnd, Work
    <2>2. heard'.owed = heard.owed \ {s} /\ heard'.late = heard.late \ {s}
      BY <1>3 DEF HookSessionEnd, Forgotten
    <2>3. LoopOwes'
      BY <2>1, EntriesAreAll DEF LoopOwes
    <2>4. ASSUME NEW t \in Session \ heard'.owed, NEW e \in Entry
          PROVE  (known[t][e] = None \/ Excused(t, e) \/ LoopClears(t, e) \/ ReaderClears(t, e))'
      <3>1. CASE t = s
        BY <2>1, <3>1, EntriesAreAll DEF LoopClears
      <3>2. CASE t # s
        BY <1>1, <1>2, <2>2, <3>2 DEF ForgetInv, Cleared, Excused, LoopClears, ReaderClears
      <3> QED
        BY <3>1, <3>2
    <2> QED
      BY <1>2, <2>3, <2>4 DEF ForgetInv, Cleared
  <1>4. CASE Seed(s) \/ HookSessionStart(s) \/ HookOther(s)
    <2>1. \/ loop' = loop /\ heard' = heard
          \/ loop'.session = s /\ loop'.pc # "idle" /\ heard'.owed = heard.owed \cup {s}
             /\ heard'.late = heard.late
      <3>1. CASE Seed(s)
        BY <3>1 DEF Seed, Handler, Work, ForgetInv, Shape, ShapeHeard
      <3>2. CASE HookSessionStart(s)
        BY <3>2 DEF HookSessionStart, Handler, Work
      <3>3. CASE HookOther(s)
        BY <3>3 DEF HookOther, Handler, Work
      <3> QED
        BY <1>4, <3>1, <3>2, <3>3
    <2>2. LoopOwes'
      BY <1>1, <2>1 DEF ForgetInv, LoopOwes
    <2>3. Cleared'
      BY <1>1, <1>2, <2>1 DEF ForgetInv, Cleared, Excused, LoopClears, ReaderClears
    <2> QED
      BY <1>2, <2>2, <2>3 DEF ForgetInv
  <1> QED
    BY <1>3, <1>4

(* A handler stores for a session that is owed something, or pops.             *)
LEMMA StoreForgets == ASSUME ForgetInv, Shape', LoopStore PROVE ForgetInv'
  <1> DEFINE s == loop.session
             e == Head(loop.todo)
             last == loop.pc = "write" /\ Len(loop.todo) = 1
  <1>1. /\ UNCHANGED <<thread, heard>>
        /\ Stores(s, e, loop.values[e])
        /\ loop' = IF last THEN Idle ELSE [loop EXCEPT !.todo = Tail(@)]
        /\ loop.todo # <<>>
    BY DEF LoopStore, Stores
  <1>2. loop.pc # "idle"
    BY <1>1 DEF ForgetInv, LoopOwes
  <1>3. reader' = reader /\ ReaderOwes'
    BY <1>1 DEF ForgetInv, ReaderOwes, reader
  <1>4. \A t \in Session, f \in Entry :
            known'[t][f] = IF t = s /\ f = e THEN loop.values[e] ELSE known[t][f]
    BY <1>1, Storing DEF ForgetInv, Shape
  <1>5. \/ last /\ loop' = Idle
        \/ ~ last /\ loop' = [pc |-> loop.pc, session |-> s, values |-> loop.values,
                              todo |-> Tail(loop.todo)]
    BY <1>1 DEF ForgetInv, Shape, IsWork
  <1>6. CASE s \in heard.owed
    <2>1. LoopOwes'
      BY <1>1, <1>2, <1>5, <1>6 DEF LoopOwes, Idle, Work
    <2>2. Cleared'
      BY <1>1, <1>3, <1>4, <1>6 DEF ForgetInv, Cleared, Excused, LoopClears, ReaderClears
    <2> QED
      BY <1>3, <2>1, <2>2 DEF ForgetInv
  <1>7. CASE s \notin heard.owed
    <2>1. loop.pc = "write" /\ loop.values = Nothing /\ loop.todo \in Rest
      BY <1>2, <1>7 DEF ForgetInv, LoopOwes
    <2>2. LoopOwes'
      BY <1>1, <1>5, <2>1, Popping DEF LoopOwes, Idle, Work
    <2>3. e \in Entry /\ loop.values[e] = None
      BY <2>1, Popping DEF Nothing, Entry
    <2>4. ASSUME NEW t \in Session \ heard.owed, NEW f \in Entry
          PROVE  (known[t][f] = None \/ Excused(t, f) \/ LoopClears(t, f) \/ ReaderClears(t, f))'
      <3>1. known[t][f] = None \/ Excused(t, f) \/ LoopClears(t, f) \/ ReaderClears(t, f)
        BY DEF ForgetInv, Cleared
      <3>2. CASE known[t][f] = None \/ Excused(t, f) \/ ReaderClears(t, f)
        BY <1>1, <1>3, <1>4, <2>3, <3>2 DEF Excused, ReaderClears
      <3>3. CASE LoopClears(t, f) /\ f = e
        BY <1>4, <2>3, <3>3 DEF LoopClears
      <3>4. CASE LoopClears(t, f) /\ f # e
        <4>1. Len(loop.todo) # 1 /\ f \in Left(Tail(loop.todo))
          BY <2>1, <3>4, Popping DEF LoopClears
        <4>2. loop' = [pc |-> loop.pc, session |-> s, values |-> loop.values,
                       todo |-> Tail(loop.todo)]
          BY <1>5, <4>1
        <4>3. loop'.pc = "write" /\ loop'.session = t /\ loop'.values = Nothing
              /\ f \in Left(loop'.todo)
          BY <2>1, <3>4, <4>1, <4>2 DEF LoopClears
        <4> QED
          BY <4>3 DEF LoopClears
      <3> QED
        BY <3>1, <3>2, <3>3, <3>4
    <2> QED
      BY <1>1, <1>3, <2>2, <2>4 DEF ForgetInv, Cleared
  <1> QED
    BY <1>6, <1>7

(* An eviction in progress pops the entries one by one.                        *)
LEMMA EvictionForgets == ASSUME ForgetInv, Shape', ReaderForgets PROVE ForgetInv'
  <1> DEFINE s == reader.session
             e == Head(reader.todo)
  <1>1. /\ UNCHANGED <<loop, heard>>
        /\ Stores(s, e, None)
        /\ Becomes("reader", IF Len(reader.todo) = 1 THEN Idle
                             ELSE [reader EXCEPT !.todo = Tail(@)])
        /\ reader.pc = "forget"
    BY DEF ReaderForgets, Stores
  <1>2. reader.todo \in Rest
    BY <1>1 DEF ForgetInv, ReaderOwes
  <1>3. IsWork(reader) /\ IsWork(Idle)
    BY DEF ForgetInv, Shape, ShapeThread, Threads, reader, IsWork, Idle, Work
  <1>4. reader' = IF Len(reader.todo) = 1 THEN Idle ELSE [reader EXCEPT !.todo = Tail(@)]
    <2> DEFINE w == IF Len(reader.todo) = 1 THEN Idle ELSE [reader EXCEPT !.todo = Tail(@)]
    <2>1. \A r, x : IsWork(r) => IsWork([r EXCEPT !.todo = x])
      BY DEF IsWork
    <2>2. IsWork(w) /\ Becomes("reader", w)
      BY <1>1, <1>3, <2>1
    <2>3. "reader" \in Threads /\ ShapeThread
      BY DEF ForgetInv, Shape, Threads
    <2> HIDE DEF w
    <2>4. thread'["reader"] = w
      BY <2>2, <2>3, Becoming
    <2> QED
      BY <2>4 DEF w, reader
  <1>5. \/ Len(reader.todo) = 1 /\ reader' = Idle
        \/ Len(reader.todo) # 1 /\ reader' = [pc |-> "forget", session |-> s,
                                    values |-> reader.values, todo |-> Tail(reader.todo)]
    <2>1. \A r, x : IsWork(r) => [r EXCEPT !.todo = x] =
              [pc |-> r.pc, session |-> r.session, values |-> r.values, todo |-> x]
      BY DEF IsWork
    <2>2. CASE Len(reader.todo) = 1
      BY <1>4, <2>2
    <2>3. CASE Len(reader.todo) # 1
      <3>1. reader' = [reader EXCEPT !.todo = Tail(reader.todo)]
        BY <1>4, <2>3
      <3>2. reader' = [pc |-> reader.pc, session |-> s, values |-> reader.values,
                       todo |-> Tail(reader.todo)]
        BY <1>3, <2>1, <3>1
      <3> QED
        BY <1>1, <2>3, <3>2
    <2> QED
      BY <2>2, <2>3
  <1>6. ReaderOwes'
    <2>1. CASE Len(reader.todo) = 1
      BY <1>5, <2>1 DEF ReaderOwes, Idle, Work
    <2>2. CASE Len(reader.todo) # 1
      <3>1. reader' = [pc |-> "forget", session |-> s, values |-> reader.values,
                       todo |-> Tail(reader.todo)]
        BY <1>5, <2>2
      <3>2. Tail(reader.todo) \in Rest
        BY <1>2, <2>2, Popping
      <3> QED
        BY <3>1, <3>2 DEF ReaderOwes
    <2> QED
      BY <2>1, <2>2
  <1>7. \A t \in Session, f \in Entry :
            known'[t][f] = IF t = s /\ f = e THEN None ELSE known[t][f]
    BY <1>1, Storing DEF ForgetInv, Shape
  <1>8. ASSUME NEW t \in Session \ heard.owed, NEW f \in Entry
        PROVE  (known[t][f] = None \/ Excused(t, f) \/ LoopClears(t, f) \/ ReaderClears(t, f))'
    <2>1. known[t][f] = None \/ Excused(t, f) \/ LoopClears(t, f) \/ ReaderClears(t, f)
      BY DEF ForgetInv, Cleared
    <2>2. CASE known[t][f] = None \/ Excused(t, f) \/ LoopClears(t, f)
      BY <1>1, <1>7, <2>2 DEF Excused, LoopClears
    <2>3. CASE ReaderClears(t, f) /\ f = e
      BY <1>7, <2>3 DEF ReaderClears
    <2>4. CASE ReaderClears(t, f) /\ f # e
      <3>1. Len(reader.todo) # 1 /\ f \in Left(Tail(reader.todo))
        BY <1>2, <2>4, Popping DEF ReaderClears
      <3>2. reader' = [pc |-> "forget", session |-> s, values |-> reader.values,
                       todo |-> Tail(reader.todo)]
        BY <1>5, <3>1
      <3>3. reader'.pc = "forget" /\ reader'.session = t /\ f \in Left(reader'.todo)
        BY <2>4, <3>1, <3>2 DEF ReaderClears
      <3> QED
        BY <3>3 DEF ReaderClears
    <2> QED
      BY <2>1, <2>2, <2>3, <2>4
  <1>9. LoopOwes'
    BY <1>1 DEF ForgetInv, LoopOwes
  <1> QED
    BY <1>1, <1>6, <1>8, <1>9 DEF ForgetInv, Cleared

(* What a thread learns of a session that is over is excused by name.          *)
LEMMA LearningExcused ==
    ASSUME ForgetInv, Shape', NEW t \in Threads, NEW m, Learns(t, m),
           UNCHANGED loop, t = "reader" => reader.pc = "learn"
    PROVE  ForgetInv'
  <1> DEFINE s == thread[t].session
  <1>1. Stores(s, "method", m) /\ Becomes(t, Idle)
    BY DEF Learns, Stores
  <1>2. /\ heard'.owed = heard.owed
        /\ heard.late \subseteq heard'.late
        /\ s \notin heard.owed => s \in heard'.late
    BY DEF Learns, ForgetInv, Shape, ShapeHeard
  <1>3. reader' = IF t = "reader" THEN Idle ELSE reader
    <2>1. IsWork(Idle) /\ ShapeThread /\ "reader" \in Threads
      BY DEF IsWork, Idle, Work, ForgetInv, Shape, Threads
    <2> QED
      BY <1>1, <2>1, Becoming DEF reader
  <1>4. ReaderOwes' /\ LoopOwes'
    BY <1>2, <1>3 DEF ForgetInv, ReaderOwes, LoopOwes, Idle, Work
  <1>5. \A u \in Session, f \in Entry :
            known'[u][f] = IF u = s /\ f = "method" THEN m ELSE known[u][f]
    BY <1>1, Storing DEF ForgetInv, Shape
  <1>6. Cleared'
    BY <1>2, <1>3, <1>5 DEF ForgetInv, Cleared, Excused, LoopClears, ReaderClears
  <1> QED
    BY <1>4, <1>6 DEF ForgetInv

(* A key that is held: from now on the eviction owes all the entries, unless a *)
(* handler is at work for the session, which may then remember it again.       *)
LEMMA HoldForgets ==
    ASSUME ForgetInv, Shape', NEW i \in Slots, KeyHeld(i)
    PROVE  ForgetInv'
  <1>1. PICK s \in Session :
            /\ Becomes("reader", Work("forget", s, Nothing, Entries))
            /\ heard' = IF Working(s) THEN [heard EXCEPT !.spoke = @ \ {s}] ELSE Forgotten(s)
    BY DEF KeyHeld
  <1>2. UNCHANGED <<known, loop>> /\ reader.pc = "idle"
    BY DEF KeyHeld
  <1>3. reader' = [pc |-> "forget", session |-> s, values |-> Nothing, todo |-> Entries]
    <2>1. IsWork(Work("forget", s, Nothing, Entries)) /\ ShapeThread /\ "reader" \in Threads
      BY DEF IsWork, Work, ForgetInv, Shape, Threads
    <2>2. thread'["reader"] = Work("forget", s, Nothing, Entries)
      BY <1>1, <2>1, Becoming
    <2> QED
      BY <2>2 DEF reader, Work
  <1>4. ReaderOwes'
    BY <1>3, EntriesAreAll DEF ReaderOwes
  <1>5. \/ Working(s) /\ heard'.owed = heard.owed /\ heard'.late = heard.late
        \/ ~ Working(s) /\ heard'.owed = heard.owed \ {s} /\ heard'.late = heard.late \ {s}
    BY <1>1 DEF Forgotten, ForgetInv, Shape, ShapeHeard
  <1>6. LoopOwes'
    BY <1>2, <1>5 DEF ForgetInv, LoopOwes, Working
  <1>7. ASSUME NEW t \in Session \ heard'.owed, NEW e \in Entry
        PROVE  (known[t][e] = None \/ Excused(t, e) \/ LoopClears(t, e) \/ ReaderClears(t, e))'
    <2>1. CASE t = s
      BY <1>3, <2>1, EntriesAreAll DEF ReaderClears
    <2>2. CASE t # s
      BY <1>2, <1>5, <2>2 DEF ForgetInv, Cleared, Excused, LoopClears, ReaderClears
    <2> QED
      BY <2>1, <2>2
  <1> QED
    BY <1>4, <1>6, <1>7 DEF ForgetInv, Cleared

(* Every access to the tables, by whichever thread, keeps ForgetInv.           *)
LEMMA ForgetNext == ForgetInv /\ [Next]_vars => ForgetInv'
  <1> SUFFICES ASSUME ForgetInv, [Next]_vars PROVE ForgetInv'
    OBVIOUS
  <1>1. Shape' /\ ShapeThread
    BY ShapeNext DEF ForgetInv, Shape
  <1>2. ASSUME UNCHANGED <<known, loop, heard>>,
               \/ reader' = reader
               \/ reader.pc # "forget" /\ reader'.pc # "forget"
        PROVE  ForgetInv'
    BY <1>1, <1>2
    DEF ForgetInv, LoopOwes, ReaderOwes, Cleared, Excused, LoopClears, ReaderClears
  <1>3. ASSUME NEW t \in Threads, NEW w, IsWork(w), Becomes(t, w)
        PROVE  reader' = IF t = "reader" THEN w ELSE reader
    BY <1>1, <1>3, Becoming DEF Threads, reader
  <1>4. IsWork(Idle) /\ Idle.pc = "idle" /\ Idle.todo = <<>>
    BY DEF IsWork, Idle, Work
  <1>5. ASSUME NEW pc, NEW s, NEW values, NEW todo
        PROVE  IsWork(Work(pc, s, values, todo)) /\ Work(pc, s, values, todo).pc = pc
    BY DEF IsWork, Work
  <1>6. /\ "reader" \in Threads /\ Warmer \subseteq Threads
        /\ \A t \in Warmer : t # "reader"
    BY WarmerAssumption DEF Threads
  <1>7. IsWork(reader)
    BY <1>1 DEF ShapeThread, Threads, reader
  <1>8. CASE LoopStore
    BY <1>1, <1>8, StoreForgets
  <1>9. CASE LoopBackfill
    <2>1. UNCHANGED <<known, thread, heard>> /\ loop.pc \in {"lazy", "backfill"}
      BY <1>9 DEF LoopBackfill
    <2>2. loop.session \in heard.owed
      BY <2>1 DEF ForgetInv, LoopOwes
    <2>3. \/ loop' = Idle
          \/ loop'.pc # "idle" /\ loop'.session = loop.session
      BY <1>9 DEF LoopBackfill, Work
    <2>4. reader' = reader
      BY <2>1 DEF reader
    <2>5. LoopOwes' /\ ReaderOwes'
      BY <1>4, <2>1, <2>2, <2>3, <2>4 DEF ForgetInv, LoopOwes, ReaderOwes
    <2>6. Cleared'
      BY <2>1, <2>2, <2>4 DEF ForgetInv, Cleared, Excused, LoopClears, ReaderClears
    <2> QED
      BY <1>1, <2>5, <2>6 DEF ForgetInv
  <1>10. CASE LoopSpawn
    <2>1. UNCHANGED <<known, heard>> /\ loop.pc = "warm" /\ loop' = Idle
      BY <1>10 DEF LoopSpawn
    <2>2. reader' = reader
      BY <1>3, <1>5, <1>6, <1>10 DEF LoopSpawn
    <2>3. LoopOwes' /\ ReaderOwes'
      BY <1>4, <2>1, <2>2 DEF ForgetInv, LoopOwes, ReaderOwes
    <2>4. Cleared'
      BY <2>1, <2>2 DEF ForgetInv, Cleared, Excused, LoopClears, ReaderClears
    <2> QED
      BY <1>1, <2>3, <2>4 DEF ForgetInv
  <1>11. CASE PressReads
    <2>1. reader.pc = "read" /\ UNCHANGED <<known, loop, heard>>
      BY <1>11 DEF PressReads
    <2>2. reader'.pc = "try"
      BY <1>3, <1>5, <1>6, <1>11 DEF PressReads
    <2> QED
      BY <1>2, <2>1, <2>2
  <1>12. CASE TriedRaises
    <2>1. reader.pc = "try" /\ UNCHANGED <<known, loop, heard>>
      BY <1>12 DEF TriedRaises, Trying
    <2>2. reader'.pc = "learn"
      BY <1>3, <1>5, <1>6, <1>12 DEF TriedRaises
    <2> QED
      BY <1>2, <2>1, <2>2
  <1>13. CASE TriedMisses \/ TriedFails
    <2>1. reader.pc = "try" /\ UNCHANGED <<known, loop, heard>>
      BY <1>13 DEF TriedMisses, TriedFails, Trying
    <2>2. \A w, x : IsWork(w) =>
              IsWork([w EXCEPT !.todo = x]) /\ [w EXCEPT !.todo = x].pc = w.pc
      BY DEF IsWork
    <2>3. PICK w : Becomes("reader", w) /\ IsWork(w) /\ w.pc = reader.pc
      BY <1>7, <1>13, <2>2 DEF TriedMisses, TriedFails
    <2>4. reader'.pc = reader.pc
      BY <1>3, <1>6, <2>3
    <2> QED
      BY <1>2, <2>1, <2>4
  <1>14. CASE PressGivesUp
    <2>1. reader.pc = "try" /\ UNCHANGED <<known, loop, heard>>
      BY <1>14 DEF PressGivesUp
    <2>2. reader'.pc = "idle"
      BY <1>3, <1>4, <1>6, <1>14 DEF PressGivesUp
    <2> QED
      BY <1>2, <2>1, <2>2
  <1>15. CASE PressLearns
    BY <1>1, <1>6, <1>15, LearningExcused DEF PressLearns
  <1>16. CASE ReaderForgets
    BY <1>1, <1>16, EvictionForgets
  <1>17. ASSUME NEW t \in Warmer, WarmerStep(t) PROVE ForgetInv'
    <2>1. CASE ProbeFinds(t) \/ ProbeGivesUp(t)
      <3>1. PICK w : IsWork(w) /\ Becomes(t, w)
        BY <1>4, <1>5, <2>1 DEF ProbeFinds, ProbeGivesUp
      <3>2. reader' = reader
        BY <1>3, <1>6, <3>1
      <3> QED
        BY <1>2, <2>1, <3>2 DEF ProbeFinds, ProbeGivesUp
    <2>2. CASE WarmLearns(t)
      BY <1>1, <1>6, <2>2, LearningExcused DEF WarmLearns
    <2> QED
      BY <1>17, <2>1, <2>2 DEF WarmerStep
  <1>18. ASSUME NEW i \in Slots, KeyTap(i) PROVE ForgetInv'
    <2>1. reader.pc = "idle" /\ UNCHANGED <<known, loop, heard>>
      BY <1>18 DEF KeyTap
    <2>2. reader'.pc = "read"
      BY <1>3, <1>5, <1>6, <1>18 DEF KeyTap
    <2> QED
      BY <1>2, <2>1, <2>2
  <1>19. ASSUME NEW i \in Slots, KeyHeld(i) PROVE ForgetInv'
    BY <1>1, <1>19, HoldForgets
  <1>20. ASSUME NEW s \in Session,
                Seed(s) \/ HookSessionStart(s) \/ HookSessionEnd(s) \/ HookOther(s)
         PROVE  ForgetInv'
    BY <1>1, <1>20, HandlersForget
  <1>21. ASSUME NEW w \in Window, DesktopChanges(w) PROVE ForgetInv'
    BY <1>2, <1>21 DEF DesktopChanges, daemonVars, reader
  <1>22. CASE UNCHANGED vars
    BY <1>2, <1>22 DEF vars, daemonVars, reader
  <1> QED
    BY <1>8, <1>9, <1>10, <1>11, <1>12, <1>13, <1>14, <1>15, <1>16, <1>17, <1>18, <1>19,
       <1>20, <1>21, <1>22
    DEF Next, LoopStep, ReaderStep

(* While no handler and no eviction is under way the daemon remembers nothing  *)
(* of a session that is over but what a thread found out too late, whatever    *)
(* order the threads' accesses to the four tables come in.                     *)
THEOREM NothingIsLeftBehind == Spec => []NothingLingers
  <1>1. ForgetInv => NothingLingers
    <2> SUFFICES ASSUME ForgetInv, Settled, NEW s \in Session \ heard.owed
                 PROVE  known[s] = [Nothing EXCEPT !.method =
                                       IF s \in heard.late THEN known[s].method ELSE None]
      BY DEF NothingLingers
    <2>1. IsEntries(known[s])
      BY DEF ForgetInv, Shape, ShapeKnown
    <2>2. \A e \in Entry : known[s][e] = None \/ Excused(s, e)
      BY DEF ForgetInv, Cleared, Settled, LoopClears, ReaderClears
    <2>3. /\ known[s].pane = None /\ known[s].tty = None /\ known[s].project = None
          /\ s \notin heard.late => known[s].method = None
      BY <2>2 DEF Excused, Entry
    <2>4. known[s] = [pane |-> None, tty |-> None, project |-> None,
                      method |-> IF s \in heard.late THEN known[s].method ELSE None]
      BY <2>1, <2>3 DEF IsEntries, Entry
    <2> QED
      BY <2>4 DEF Nothing
  <1> QED
    BY <1>1, ForgetInit, ForgetNext, PTL DEF Spec

--------------------------------------------------------------------------------
(* A record keeps its fields when its work shrinks.                            *)
LEMMA WorkParts ==
    /\ Idle = Work("idle", NoSession, Nothing, <<>>)
    /\ \A pc, s, values, todo :
          LET w == Work(pc, s, values, todo)
          IN IsWork(w) /\ w.pc = pc /\ w.session = s /\ w.values = values /\ w.todo = todo
    /\ \A w, x : IsWork(w) => [w EXCEPT !.todo = x] = Work(w.pc, w.session, w.values, x)
  BY DEF Idle, Work, IsWork

(* The reader's work changes only when the reader becomes something.           *)
LEMMA ReaderBecomes ==
    ASSUME ShapeThread, NEW t \in Threads, NEW w, IsWork(w), Becomes(t, w)
    PROVE  reader' = IF t = "reader" THEN w ELSE reader
  BY Becoming DEF Threads, reader

(* Only its own steps and the keys move the reader.                            *)
LEMMA QuietReader ==
    ASSUME Shape,
           \/ LoopStep
           \/ \E t \in Warmer : WarmerStep(t)
           \/ \E w \in Window : DesktopChanges(w)
           \/ UNCHANGED vars
    PROVE  reader' = reader
  <1>1. ASSUME NEW t \in Warmer, NEW w, IsWork(w), Becomes(t, w) PROVE reader' = reader
    BY <1>1, ReaderBecomes, WarmerAssumption DEF Shape, Threads
  <1>2. CASE LoopSpawn
    <2>1. PICK t \in Warmer : Becomes(t, Work("probe", loop.session, Nothing, <<>>))
      BY <1>2 DEF LoopSpawn
    <2> QED
      BY <1>1, <2>1, WorkParts
  <1>3. ASSUME LoopStep, ~ LoopSpawn PROVE reader' = reader
    BY <1>3 DEF LoopStep, Seed, HookSessionStart, HookSessionEnd, HookOther, LoopStore, LoopBackfill,
                reader
  <1>4. ASSUME NEW t \in Warmer, WarmerStep(t) PROVE reader' = reader
    <2>1. PICK w : IsWork(w) /\ Becomes(t, w)
      BY <1>4, WorkParts DEF WarmerStep, ProbeFinds, ProbeGivesUp, WarmLearns, Learns
    <2> QED
      BY <1>1, <2>1
  <1> QED
    BY <1>2, <1>3, <1>4 DEF DesktopChanges, vars, daemonVars, reader

(* What each step of the reader makes of its work.                             *)
ReaderMakes(pc, session, values, todo) ==
    /\ reader'.pc = pc
    /\ reader'.session = session
    /\ reader'.values = values
    /\ reader'.todo = todo

(* Each step of the reader does to its work what the code says.                *)
LEMMA ReaderMoves ==
    ASSUME Shape
    PROVE  /\ PressReads =>
                  ReaderMakes("try", reader.session, [known[reader.session] EXCEPT !.method = None],
                              Candidates(known[reader.session]))
           /\ TriedRaises => ReaderMakes("learn", reader.session, Nothing, <<Tried>>)
           /\ TriedMisses \/ TriedFails =>
                  ReaderMakes("try", reader.session, reader.values, Tail(reader.todo))
           /\ PressGivesUp \/ PressLearns => reader' = Idle
           /\ ReaderForgets /\ Len(reader.todo) = 1 => reader' = Idle
           /\ ReaderForgets /\ Len(reader.todo) # 1 =>
                  ReaderMakes("forget", reader.session, reader.values, Tail(reader.todo))
  <1>1. ASSUME NEW w, IsWork(w), Becomes("reader", w) PROVE reader' = w
    BY <1>1, ReaderBecomes DEF Shape, Threads
  <1>2. ASSUME NEW pc, NEW s, NEW values, NEW todo, Becomes("reader", Work(pc, s, values, todo))
        PROVE  ReaderMakes(pc, s, values, todo)
    <2>1. reader' = Work(pc, s, values, todo)
      BY <1>1, <1>2, WorkParts
    <2> QED
      BY <2>1, WorkParts DEF ReaderMakes
  <1>3. ASSUME Becomes("reader", Idle) PROVE reader' = Idle
    BY <1>1, <1>3, WorkParts
  <1>4. IsWork(reader)
    BY DEF Shape, ShapeThread, Threads, reader
  <1>5. ASSUME Becomes("reader", [reader EXCEPT !.todo = Tail(@)])
        PROVE  ReaderMakes(reader.pc, reader.session, reader.values, Tail(reader.todo))
    <2>1. [reader EXCEPT !.todo = Tail(reader.todo)] =
              Work(reader.pc, reader.session, reader.values, Tail(reader.todo))
      BY <1>4, WorkParts
    <2> QED
      BY <1>2, <1>5, <2>1
  <1>6. PressReads =>
            ReaderMakes("try", reader.session, [known[reader.session] EXCEPT !.method = None],
                        Candidates(known[reader.session]))
    BY <1>2 DEF PressReads
  <1>7. TriedRaises => ReaderMakes("learn", reader.session, Nothing, <<Tried>>)
    BY <1>2 DEF TriedRaises
  <1>8. TriedMisses \/ TriedFails =>
            ReaderMakes("try", reader.session, reader.values, Tail(reader.todo))
    BY <1>5 DEF TriedMisses, TriedFails, Trying
  <1>9. PressGivesUp \/ PressLearns => reader' = Idle
    BY <1>3 DEF PressGivesUp, PressLearns, Learns
  <1>10. ReaderForgets /\ Len(reader.todo) = 1 => reader' = Idle
    BY <1>3 DEF ReaderForgets
  <1>11. ReaderForgets /\ Len(reader.todo) # 1 =>
            ReaderMakes("forget", reader.session, reader.values, Tail(reader.todo))
    BY <1>5 DEF ReaderForgets
  <1> QED
    BY <1>6, <1>7, <1>8, <1>9, <1>10, <1>11

(* What a key that is tapped or held makes the reader do.                      *)
LEMMA KeysMove ==
    ASSUME Shape, NEW i \in Slots
    PROVE  /\ KeyTap(i) => ReaderMakes("read", slot_to_session[i], Nothing, <<>>)
           /\ KeyHeld(i) => \E s \in Session :
                  /\ Evict(i, s)
                  /\ ReaderMakes("forget", s, Nothing, Entries)
                  /\ heard' = IF Working(s) THEN [heard EXCEPT !.spoke = @ \ {s}] ELSE Forgotten(s)
  <1>1. ASSUME NEW pc, NEW s, NEW values, NEW todo, Becomes("reader", Work(pc, s, values, todo))
        PROVE  ReaderMakes(pc, s, values, todo)
    <2>1. reader' = Work(pc, s, values, todo)
      BY <1>1, ReaderBecomes, WorkParts DEF Shape, Threads
    <2> QED
      BY <2>1, WorkParts DEF ReaderMakes
  <1> QED
    BY <1>1 DEF KeyTap, KeyHeld

--------------------------------------------------------------------------------
(* No step breaks SlotManager's two tables.                                    *)
LEMMA SlotsInv == SlotInv /\ [Next]_vars => SlotInv'
  <1> SUFFICES ASSUME SlotInv, [Next]_vars PROVE SlotInv'
    OBVIOUS
  <1>1. CASE UNCHANGED slotVars
    BY <1>1 DEF slotVars, SlotInv, SlotTypeOK, TablesAgree
  <1>2. ASSUME NEW s \in Session, Seed(s) \/ HookSessionStart(s) \/ HookSessionEnd(s) \/ HookOther(s)
        PROVE  SlotInv'
    BY <1>2, AllocatePreserves, FreePreserves DEF Seed, HookSessionStart, HookSessionEnd, HookOther
  <1>3. ASSUME NEW i \in Slots, KeyHeld(i) PROVE SlotInv'
    BY <1>3, EvictPreserves DEF KeyHeld
  <1>4. CASE LoopStore \/ LoopBackfill \/ LoopSpawn
    BY <1>1, <1>4 DEF LoopStore, LoopBackfill, LoopSpawn
  <1>5. CASE ReaderStep
    BY <1>1, <1>5 DEF ReaderStep, PressReads, TriedRaises, TriedMisses, TriedFails, PressGivesUp,
                      PressLearns, ReaderForgets
  <1>6. ASSUME NEW t \in Warmer, WarmerStep(t) PROVE SlotInv'
    BY <1>1, <1>6 DEF WarmerStep, ProbeFinds, ProbeGivesUp, WarmLearns
  <1>7. ASSUME NEW i \in Slots, KeyTap(i) PROVE SlotInv'
    BY <1>1, <1>7 DEF KeyTap
  <1>8. ASSUME NEW w \in Window, DesktopChanges(w) PROVE SlotInv'
    BY <1>1, <1>8 DEF DesktopChanges, daemonVars
  <1> QED
    BY <1>1, <1>2, <1>3, <1>4, <1>5, <1>6, <1>7, <1>8 DEF Next, LoopStep, vars, daemonVars

--------------------------------------------------------------------------------
(* What is left of a single one is that one.                                   *)
LEMMA LeftOfOne == \A x : Left(<<x>>) = {x}
  BY DEF Left

(* What is left of two joined sequences is left of one of them.                *)
LEMMA LeftOfBoth ==
    ASSUME NEW S, NEW p \in Seq(S), NEW q \in Seq(S)
    PROVE  p \o q \in Seq(S) /\ Left(p \o q) = Left(p) \cup Left(q)
  <1>1. /\ p \o q \in Seq(S)
        /\ Len(p \o q) = Len(p) + Len(q)
        /\ \A k \in 1 .. Len(p \o q) :
              (p \o q)[k] = IF k <= Len(p) THEN p[k] ELSE q[k - Len(p)]
    OBVIOUS
  <1>2. Len(p) \in Nat /\ Len(q) \in Nat
    OBVIOUS
  <1>3. ASSUME NEW k \in 1 .. Len(p) PROVE p[k] = (p \o q)[k] /\ k \in 1 .. Len(p \o q)
    BY <1>1, <1>2
  <1>4. ASSUME NEW k \in 1 .. Len(q)
        PROVE  q[k] = (p \o q)[k + Len(p)] /\ k + Len(p) \in 1 .. Len(p \o q)
    BY <1>1, <1>2
  <1>5. ASSUME NEW k \in 1 .. Len(p \o q)
        PROVE  (p \o q)[k] \in Left(p) \cup Left(q)
    <2>1. CASE k <= Len(p)
      BY <1>1, <1>2, <2>1 DEF Left
    <2>2. CASE ~ (k <= Len(p))
      <3>1. k - Len(p) \in 1 .. Len(q)
        BY <1>1, <1>2, <2>2
      <3> QED
        BY <1>1, <2>2, <3>1 DEF Left
    <2> QED
      BY <2>1, <2>2
  <1>6. Left(p) \subseteq Left(p \o q)
    BY <1>3 DEF Left
  <1>7. Left(q) \subseteq Left(p \o q)
    BY <1>4 DEF Left
  <1>8. Left(p \o q) \subseteq Left(p) \cup Left(q)
    <2>1. \A x \in Left(p \o q) : \E k \in 1 .. Len(p \o q) : x = (p \o q)[k]
      BY DEF Left
    <2> QED
      BY <1>5, <2>1
  <1> QED
    BY <1>1, <1>6, <1>7, <1>8

(* What is left of a sequence is its head and what is left of its tail.        *)
LEMMA LeftOfRest ==
    ASSUME NEW S, NEW q \in Seq(S), q # <<>>
    PROVE  /\ Head(q) \in S
           /\ Tail(q) \in Seq(S)
           /\ Left(q) = {Head(q)} \cup Left(Tail(q))
  <1>1. /\ Head(q) \in S /\ Head(q) = q[1] /\ Tail(q) \in Seq(S)
        /\ Len(q) \in Nat \ {0} /\ Len(Tail(q)) = Len(q) - 1
        /\ \A k \in 1 .. Len(Tail(q)) : Tail(q)[k] = q[k + 1]
    OBVIOUS
  <1>2. ASSUME NEW k \in 1 .. Len(q) PROVE q[k] \in {Head(q)} \cup Left(Tail(q))
    <2>1. CASE k = 1
      BY <1>1, <2>1
    <2>2. CASE k # 1
      <3>1. k - 1 \in 1 .. Len(Tail(q)) /\ (k - 1) + 1 = k
        BY <1>1, <2>2
      <3> QED
        BY <1>1, <3>1 DEF Left
    <2> QED
      BY <2>1, <2>2
  <1>3. ASSUME NEW k \in 1 .. Len(Tail(q)) PROVE Tail(q)[k] = q[k + 1] /\ k + 1 \in 1 .. Len(q)
    BY <1>1
  <1>4. Left(q) \subseteq {Head(q)} \cup Left(Tail(q))
    <2>1. \A x \in Left(q) : \E k \in 1 .. Len(q) : x = q[k]
      BY DEF Left
    <2> QED
      BY <1>2, <2>1
  <1>5. Left(Tail(q)) \subseteq Left(q)
    <2>1. \A x \in Left(Tail(q)) : \E k \in 1 .. Len(Tail(q)) : x = Tail(q)[k]
      BY DEF Left
    <2> QED
      BY <1>3, <2>1 DEF Left
  <1>6. Head(q) \in Left(q)
    <2>1. 1 \in 1 .. Len(q)
      BY <1>1
    <2> QED
      BY <1>1, <2>1 DEF Left
  <1> QED
    BY <1>1, <1>4, <1>5, <1>6

(* The chain has the six methods.                                              *)
LEMMA MethodsAre ==
    Method = {"tmux", "terminal", "iterm", "generic_gui", "vscode", "intellij"}
  <1>1. 1 .. Len(Chain) = 1 .. 6
    BY DEF Chain
  <1>2. Method = {Chain[1], Chain[2], Chain[3], Chain[4], Chain[5], Chain[6]}
    BY <1>1 DEF Method
  <1> QED
    BY <1>2 DEF Chain

(* The candidates are methods, and each method that has an argument is one.    *)
LEMMA CandidatesAreComplete ==
    ASSUME NEW entries
    PROVE  /\ Candidates(entries) \in Seq(Method)
           /\ \A m \in Method : entries[Argument[m]] # None => m \in Left(Candidates(entries))
  <1> DEFINE Takes(m) == entries[Argument[m]] # None
             first == IF entries.method \in Method /\ Takes(entries.method)
                      THEN <<entries.method>> ELSE <<>>
             Then(m) == IF m # entries.method /\ Takes(m) THEN <<m>> ELSE <<>>
             M == Method
             s1 == first \o Then("tmux")
             s2 == s1 \o Then("terminal")
             s3 == s2 \o Then("iterm")
             s4 == s3 \o Then("generic_gui")
             s5 == s4 \o Then("vscode")
             s6 == s5 \o Then("intellij")
  <1>1. Method = {"tmux", "terminal", "iterm", "generic_gui", "vscode", "intellij"}
    BY MethodsAre
  <1>2. Candidates(entries) = s6
    BY DEF Candidates
  <1>3. ASSUME NEW m \in Method
        PROVE  /\ Then(m) \in Seq(M)
               /\ m # entries.method /\ Takes(m) => m \in Left(Then(m))
    BY LeftOfOne
  <1>4. first \in Seq(M) /\ (entries.method \in M /\ Takes(entries.method) => entries.method \in Left(first))
    BY LeftOfOne
  <1> HIDE DEF first, Then, M, Takes
  <1>5. s1 \in Seq(M) /\ Left(s1) = Left(first) \cup Left(Then("tmux"))
    BY <1>1, <1>3, <1>4, LeftOfBoth DEF M
  <1>6. s2 \in Seq(M) /\ Left(s2) = Left(s1) \cup Left(Then("terminal"))
    <2> HIDE DEF s1
    <2> QED BY <1>1, <1>3, <1>5, LeftOfBoth DEF M
  <1>7. s3 \in Seq(M) /\ Left(s3) = Left(s2) \cup Left(Then("iterm"))
    <2> HIDE DEF s2
    <2> QED BY <1>1, <1>3, <1>6, LeftOfBoth DEF M
  <1>8. s4 \in Seq(M) /\ Left(s4) = Left(s3) \cup Left(Then("generic_gui"))
    <2> HIDE DEF s3
    <2> QED BY <1>1, <1>3, <1>7, LeftOfBoth DEF M
  <1>9. s5 \in Seq(M) /\ Left(s5) = Left(s4) \cup Left(Then("vscode"))
    <2> HIDE DEF s4
    <2> QED BY <1>1, <1>3, <1>8, LeftOfBoth DEF M
  <1>10. s6 \in Seq(M) /\ Left(s6) = Left(s5) \cup Left(Then("intellij"))
    <2> HIDE DEF s5
    <2> QED BY <1>1, <1>3, <1>9, LeftOfBoth DEF M
  <1> HIDE DEF s1, s2, s3, s4, s5, s6
  <1>11. ASSUME NEW m \in Method, Takes(m) PROVE m \in Left(s6)
    <2>1. CASE m = entries.method
      BY <1>4, <1>5, <1>6, <1>7, <1>8, <1>9, <1>10, <1>11, <2>1 DEF M
    <2>2. CASE m # entries.method
      <3>1. m \in Left(Then(m))
        BY <1>3, <1>11, <2>2
      <3> QED
        BY <1>1, <1>5, <1>6, <1>7, <1>8, <1>9, <1>10, <3>1
    <2> QED
      BY <2>1, <2>2
  <1> QED
    BY <1>2, <1>10, <1>11 DEF M, Takes

(* What is found among some windows is found among more.                       *)
LEMMA MoreIsFound ==
    ASSUME NEW few, NEW many, few \subseteq many, NEW m \in Method, NEW arg,
           FindsAmong(few, m, arg)
    PROVE  FindsAmong(many, m, arg)
  <1>1. m \in {"tmux", "terminal", "iterm", "generic_gui", "vscode", "intellij"}
    BY MethodsAre
  <1>2. \A app, what : Holds(few, app, what) => Holds(many, app, what)
    BY DEF Holds
  <1>3. dispatch_generic_gui(few, arg) => dispatch_generic_gui(many, arg)
    BY DEF dispatch_generic_gui
  <1> QED
    BY <1>1, <1>2, <1>3
    DEF FindsAmong, dispatch_tmux, dispatch_terminal, dispatch_iterm, dispatch_vscode,
        dispatch_intellij

--------------------------------------------------------------------------------
(* ReachableIsRaised speaks of the end of a press.  Before it, a method that   *)
(* would find a window that stays open is still to be tried, unless one failed.*)
StillReached ==
    reader.pc = "try" /\ ~ press.faulty =>
        \A m \in Method : FindsAmong(Staying, m, reader.values[Argument[m]]) => m \in Left(reader.todo)

ReachInv ==
    /\ Shape
    /\ SlotInv
    /\ Staying \subseteq windows
    /\ reader.pc = "read" => reader.session \in Session
    /\ reader.pc = "try" => reader.todo \in Seq(Method)
    /\ StillReached

(* Every window is open at first, those that stay among them.                  *)
LEMMA ReachInit == Init => ReachInv
  <1> SUFFICES ASSUME Init PROVE ReachInv
    OBVIOUS
  <1>1. reader = Idle
    BY DEF Init, reader, Threads
  <1>2. reader.pc = "idle"
    BY <1>1 DEF Idle, Work
  <1>3. Staying \subseteq windows
    BY StayingAssumption DEF Init
  <1> QED
    BY <1>2, <1>3, ShapeInit, SlotInitInv DEF ReachInv, StillReached, Init

(* No step passes over a method that would find a window that stays.           *)
LEMMA ReachNext == ReachInv /\ [Next]_vars => ReachInv'
  <1> SUFFICES ASSUME ReachInv, [Next]_vars PROVE ReachInv'
    OBVIOUS
  <1>1. Shape /\ Shape' /\ SlotInv'
    BY ShapeNext, SlotsInv DEF ReachInv
  <1>2. Staying \subseteq windows'
    <2>1. CASE windows' = windows
      BY <2>1 DEF ReachInv
    <2>2. CASE \E w \in Window \ Staying : DesktopChanges(w)
      BY <2>2 DEF DesktopChanges, ReachInv
    <2>3. CASE LoopStep
      BY <2>1, <2>3 DEF LoopStep, Seed, HookSessionStart, HookSessionEnd, HookOther, LoopStore,
                        LoopBackfill, LoopSpawn
    <2>4. CASE ReaderStep
      BY <2>1, <2>4 DEF ReaderStep, PressReads, TriedRaises, TriedMisses, TriedFails, PressGivesUp,
                        PressLearns, ReaderForgets
    <2>5. CASE \E t \in Warmer : WarmerStep(t)
      BY <2>1, <2>5 DEF WarmerStep, ProbeFinds, ProbeGivesUp, WarmLearns
    <2>6. CASE \E i \in Slots : KeyTap(i) \/ KeyHeld(i)
      BY <2>1, <2>6 DEF KeyTap, KeyHeld
    <2> QED
      BY <2>1, <2>2, <2>3, <2>4, <2>5, <2>6 DEF Next, vars
  <1>3. ASSUME reader'.pc \notin {"read", "try"} PROVE ReachInv'
    BY <1>1, <1>2, <1>3 DEF ReachInv, StillReached
  <1>4. ASSUME reader' = reader, press' = press PROVE ReachInv'
    BY <1>1, <1>2, <1>4 DEF ReachInv, StillReached
  <1>5. CASE LoopStep \/ (\E t \in Warmer : WarmerStep(t)) \/ (\E w \in Window : DesktopChanges(w))
             \/ UNCHANGED vars
    <2>1. reader' = reader
      BY <1>1, <1>5, QuietReader
    <2>2. press' = press
      BY <1>5 DEF LoopStep, Seed, HookSessionStart, HookSessionEnd, HookOther, LoopStore,
                  LoopBackfill, LoopSpawn, WarmerStep, ProbeFinds, ProbeGivesUp, WarmLearns,
                  DesktopChanges, vars
    <2> QED
      BY <1>4, <2>1, <2>2
  <1>6. CASE PressReads
    <2> DEFINE entries == known[reader.session]
    <2>1. ReaderMakes("try", reader.session, [entries EXCEPT !.method = None], Candidates(entries))
      BY <1>1, <1>6, ReaderMoves
    <2>2. IsEntries(entries)
      BY <1>6 DEF PressReads, ReachInv, Shape, ShapeKnown
    <2> HIDE DEF entries
    <2>3. ASSUME NEW m \in Method
          PROVE  reader'.values[Argument[m]] = entries[Argument[m]]
      <3>1. Argument[m] \in {"pane", "tty", "project"}
        BY MethodsAre DEF Argument
      <3> QED
        BY <2>1, <2>2, <3>1 DEF ReaderMakes, IsEntries, Entry
    <2>4. reader'.todo \in Seq(Method)
      BY <2>1, CandidatesAreComplete DEF ReaderMakes
    <2>5. ASSUME NEW m \in Method, FindsAmong(Staying, m, reader'.values[Argument[m]])
          PROVE  m \in Left(reader'.todo)
      BY <2>1, <2>3, <2>5, CandidatesAreComplete DEF ReaderMakes, FindsAmong
    <2>6. StillReached'
      BY <2>5 DEF StillReached
    <2>7. reader'.pc # "read"
      BY <2>1 DEF ReaderMakes
    <2> QED
      BY <1>1, <1>2, <2>4, <2>6, <2>7 DEF ReachInv
  <1>7. CASE TriedMisses \/ TriedFails
    <2>1. /\ reader.pc = "try" /\ reader.todo # <<>>
          /\ ReaderMakes("try", reader.session, reader.values, Tail(reader.todo))
      BY <1>1, <1>7, ReaderMoves DEF TriedMisses, TriedFails, Trying
    <2>2. /\ Tail(reader.todo) \in Seq(Method)
          /\ Head(reader.todo) \in Method
          /\ Left(reader.todo) = {Head(reader.todo)} \cup Left(Tail(reader.todo))
      BY <2>1, LeftOfRest DEF ReachInv
    <2>3. CASE TriedFails
      <3>1. press'.faulty
        BY <1>1, <2>3 DEF TriedFails, Shape, ShapeHeard
      <3> QED
        BY <1>1, <1>2, <2>1, <2>2, <3>1 DEF ReachInv, StillReached, ReaderMakes
    <2>4. CASE TriedMisses
      <3>1. press' = press /\ ~ FindsAmong(windows, Tried, reader.values[Argument[Tried]])
        BY <2>4 DEF TriedMisses, TriedFinds, Finds
      <3>2. ~ FindsAmong(Staying, Tried, reader.values[Argument[Tried]])
        BY <2>2, <3>1, MoreIsFound DEF ReachInv, Tried
      <3>3. StillReached'
        BY <2>1, <2>2, <3>1, <3>2 DEF ReachInv, StillReached, ReaderMakes, Tried
      <3> QED
        BY <1>1, <1>2, <2>1, <2>2, <3>3 DEF ReachInv, ReaderMakes
    <2> QED
      BY <1>7, <2>3, <2>4
  <1>8. ASSUME ReaderStep, ~ PressReads, ~ TriedMisses, ~ TriedFails PROVE ReachInv'
    <2>1. reader'.pc \in {"learn", "idle", "forget"}
      BY <1>1, <1>8, ReaderMoves DEF ReaderStep, ReaderMakes, Idle, Work
    <2> QED
      BY <1>3, <2>1
  <1>9. ASSUME NEW i \in Slots, KeyTap(i) PROVE ReachInv'
    <2>1. reader'.pc = "read" /\ reader'.session = slot_to_session[i]
      BY <1>1, <1>9, KeysMove DEF ReaderMakes
    <2>2. slot_to_session[i] \in Session
      BY <1>9 DEF KeyTap, ReachInv, SlotInv, SlotTypeOK
    <2> QED
      BY <1>1, <1>2, <2>1, <2>2 DEF ReachInv, StillReached
  <1>10. ASSUME NEW i \in Slots, KeyHeld(i) PROVE ReachInv'
    <2>1. reader'.pc = "forget"
      BY <1>1, <1>10, KeysMove DEF ReaderMakes
    <2> QED
      BY <1>3, <2>1
  <1> QED
    BY <1>5, <1>6, <1>7, <1>8, <1>9, <1>10 DEF Next

(* A press gives up only if a method failed or none would find a window that   *)
(* stays open, for any windows, places and threads.                            *)
THEOREM DispatchReaches == Spec => []ReachableIsRaised
  <1>1. ReachInv => ReachableIsRaised
    BY DEF ReachInv, StillReached, ReachableIsRaised, Left
  <1> QED
    BY <1>1, ReachInit, ReachNext, PTL DEF Spec

--------------------------------------------------------------------------------
Located == {"pane", "tty"}

(* KnownPlaceIsReal speaks of settled states.  In between, what is known of a  *)
(* session's old place is what an eviction is about to pop, and a handler only *)
(* carries the place the session reported.                                     *)
KnownReal ==
    \A s \in Session \cap heard.owed : s \notin heard.moved =>
        \A e \in Located : known[s][e] \in {None, place[s][e]} \/ ReaderClears(s, e)

LoopReal ==
    loop.pc # "idle" /\ loop.session \notin heard.moved =>
        \A e \in Located : loop.values[e] \in {None, place[loop.session][e]}

RealInv == ForgetInv /\ place \in [Session -> Place] /\ KnownReal /\ LoopReal

(* Nothing is known at first.                                                  *)
LEMMA RealInit == Init => RealInv
  <1> SUFFICES ASSUME Init PROVE RealInv
    OBVIOUS
  <1>1. KnownReal
    BY DEF Init, KnownReal, NobodyHeard
  <1>2. LoopReal
    BY DEF Init, LoopReal, Idle, Work
  <1> QED
    BY <1>1, <1>2, ForgetInit DEF RealInv, Init

(* A handler begins: the session's old place is forgotten, or is still its     *)
(* place, or the session counts as moved.                                      *)
LEMMA HandlersAreReal ==
    ASSUME RealInv, ForgetInv', NEW s \in Session,
           Seed(s) \/ HookSessionStart(s) \/ HookSessionEnd(s) \/ HookOther(s)
    PROVE  RealInv'
  <1>1. loop.pc = "idle" /\ UNCHANGED <<known, reader>>
    BY DEF Seed, HookSessionStart, HookSessionEnd, HookOther, reader
  <1>2. Shape /\ place \in [Session -> Place] /\ ShapeHeard
    BY DEF RealInv, ForgetInv, Shape
  <1>3. ASSUME NEW t \in Session, t \notin heard.owed, NEW e \in Located
        PROVE  known[t][e] = None \/ ReaderClears(t, e)
    BY <1>1, <1>3 DEF RealInv, ForgetInv, Cleared, Excused, LoopClears, Located, Entry
  <1>4. \A t, e : ReaderClears(t, e) => ReaderClears(t, e)'
    BY <1>1 DEF ReaderClears
  <1>5. CASE HookSessionEnd(s)
    <2>1. heard'.owed = heard.owed \ {s} /\ heard'.moved = heard.moved \ {s} /\ place' = place
      BY <1>5 DEF HookSessionEnd, Forgotten
    <2>2. loop'.values = Nothing
      BY <1>5 DEF HookSessionEnd, Work
    <2>3. LoopReal'
      BY <2>2 DEF LoopReal, Nothing, Located
    <2>4. KnownReal'
      BY <1>1, <1>4, <2>1 DEF RealInv, KnownReal
    <2> QED
      BY <1>2, <2>1, <2>3, <2>4 DEF RealInv
  <1>6. CASE HookSessionStart(s)
    <2>1. PICK p \in Place :
             /\ loop'.values = Stored(p) /\ loop'.session = s
             /\ place' = [place EXCEPT ![s] = p]
             /\ heard'.owed = heard.owed \cup {s}
             /\ heard'.moved = IF s \in heard.owed /\ p # place[s]
                               THEN heard.moved \cup {s} ELSE heard.moved
      <3>1. PICK i \in Slots \cup {NoSlot}, p \in Place :
               /\ Handler(s, IF i = NoSlot THEN "write" ELSE "warm", p,
                          Given(p, "pane") \o Given(p, "tty") \o Given(p, "project"))
               /\ place' = [place EXCEPT ![s] = p]
               /\ heard' = [owed |-> heard.owed \cup {s}, spoke |-> heard.spoke,
                            late |-> heard.late,
                            moved |-> IF s \in heard.owed /\ p # place[s]
                                      THEN heard.moved \cup {s} ELSE heard.moved]
        BY <1>6 DEF HookSessionStart
      <3>2. loop'.values = Stored(p) /\ loop'.session = s
        BY <3>1 DEF Handler, Work
      <3> QED
        BY <3>1, <3>2
    <2>2. /\ place' \in [Session -> Place] /\ place'[s] = p
          /\ \A t \in Session \ {s} : place'[t] = place[t]
      BY <1>2, <2>1
    <2>3. LoopReal'
      BY <2>1, <2>2 DEF LoopReal, Stored, Located
    <2>4. ASSUME NEW t \in Session \cap heard'.owed, t \notin heard'.moved, NEW e \in Located
          PROVE  known'[t][e] \in {None, place'[t][e]} \/ ReaderClears(t, e)'
      <3>1. CASE t \notin heard.owed
        BY <1>1, <1>3, <1>4, <3>1
      <3>2. CASE t \in heard.owed
        <4>1. place'[t] = place[t] /\ t \notin heard.moved
          BY <2>1, <2>2, <2>4, <3>2
        <4> QED
          BY <1>1, <1>4, <3>2, <4>1 DEF RealInv, KnownReal
      <3> QED
        BY <3>1, <3>2
    <2> QED
      BY <2>2, <2>3, <2>4 DEF RealInv, KnownReal
  <1>7. CASE Seed(s) \/ HookOther(s)
    <2>1. place' = place
      BY <1>7 DEF Seed, HookOther
    <2>2. heard'.moved = heard.moved
      BY <1>2, <1>7 DEF Seed, HookOther, ShapeHeard
    <2>3. heard'.owed \subseteq heard.owed \cup {s}
      BY <1>2, <1>7 DEF Seed, HookOther, ShapeHeard
    <2>4. \/ loop' = loop
          \/ /\ loop'.session = s
             /\ loop'.values.pane \in {None, place[s].pane}
             /\ loop'.values.tty \in {None, place[s].tty}
      <3>1. CASE Seed(s)
        BY <3>1 DEF Seed, Handler, Work, Stored
      <3>2. CASE HookOther(s)
        BY <3>2 DEF HookOther, Handler, Work, Stored
      <3> QED
        BY <1>7, <3>1, <3>2
    <2>5. LoopReal'
      BY <1>1, <2>1, <2>4 DEF LoopReal, Located
    <2>6. KnownReal'
      BY <1>1, <1>3, <1>4, <2>1, <2>2, <2>3 DEF RealInv, KnownReal
    <2> QED
      BY <1>2, <2>1, <2>5, <2>6 DEF RealInv
  <1> QED
    BY <1>5, <1>6, <1>7

(* A handler stores the place its session is at.                               *)
LEMMA StoreIsReal == ASSUME RealInv, ForgetInv', LoopStore PROVE RealInv'
  <1> DEFINE s == loop.session
             d == Head(loop.todo)
  <1>1. /\ UNCHANGED <<thread, heard, place>>
        /\ Stores(s, d, loop.values[d])
        /\ loop.todo # <<>>
    BY DEF LoopStore, Stores
  <1>2. loop.pc # "idle"
    BY <1>1 DEF RealInv, ForgetInv, LoopOwes
  <1>3. reader' = reader
    BY <1>1 DEF reader
  <1>4. \A t \in Session, f \in Entry :
            known'[t][f] = IF t = s /\ f = d THEN loop.values[d] ELSE known[t][f]
    BY <1>1, Storing DEF RealInv, ForgetInv, Shape
  <1>5. loop'.pc = "idle" \/ (loop'.session = s /\ loop'.values = loop.values)
    BY DEF LoopStore, RealInv, ForgetInv, Shape, IsWork, Idle, Work
  <1>6. LoopReal'
    BY <1>1, <1>2, <1>5 DEF RealInv, LoopReal
  <1>7. Located \subseteq Entry
    BY DEF Located, Entry
  <1> HIDE DEF s, d
  <1>8. ASSUME NEW t \in Session \cap heard.owed, t \notin heard.moved, NEW e \in Located
        PROVE  known'[t][e] \in {None, place[t][e]} \/ ReaderClears(t, e)
    <2>1. CASE t = s /\ e = d
      BY <1>2, <1>4, <1>7, <1>8, <2>1 DEF RealInv, LoopReal, s
    <2>2. CASE ~ (t = s /\ e = d)
      BY <1>4, <1>7, <1>8, <2>2 DEF RealInv, KnownReal
    <2> QED
      BY <2>1, <2>2
  <1>9. KnownReal'
    BY <1>1, <1>3, <1>8 DEF KnownReal, ReaderClears
  <1> QED
    BY <1>1, <1>6, <1>9 DEF RealInv

(* An eviction only empties entries.                                           *)
LEMMA EvictionIsReal == ASSUME RealInv, ForgetInv', ReaderForgets PROVE RealInv'
  <1> DEFINE s == reader.session
             d == Head(reader.todo)
  <1>1. /\ UNCHANGED <<loop, heard, place>>
        /\ Stores(s, d, None)
        /\ reader.pc = "forget"
    BY DEF ReaderForgets, Stores
  <1>2. reader.todo \in Rest
    BY <1>1 DEF RealInv, ForgetInv, ReaderOwes
  <1>3. \A t \in Session, f \in Entry :
            known'[t][f] = IF t = s /\ f = d THEN None ELSE known[t][f]
    BY <1>1, Storing DEF RealInv, ForgetInv, Shape
  <1>4. LoopReal'
    BY <1>1 DEF RealInv, LoopReal
  <1>5. ASSUME NEW t \in Session \cap heard.owed, t \notin heard.moved, NEW e \in Located
        PROVE  known'[t][e] \in {None, place[t][e]} \/ ReaderClears(t, e)'
    <2>1. known[t][e] \in {None, place[t][e]} \/ ReaderClears(t, e)
      BY <1>5 DEF RealInv, KnownReal
    <2>2. e \in Entry
      BY DEF Located, Entry
    <2>3. CASE known[t][e] \in {None, place[t][e]} \/ e = d
      BY <1>3, <2>1, <2>2, <2>3 DEF ReaderClears
    <2>4. CASE ReaderClears(t, e) /\ e # d
      <3>1. Len(reader.todo) # 1 /\ e \in Left(Tail(reader.todo))
        BY <1>2, <2>4, Popping DEF ReaderClears
      <3>2. ReaderMakes("forget", s, reader.values, Tail(reader.todo))
        BY <3>1, ReaderMoves DEF RealInv, ForgetInv
      <3> QED
        BY <2>4, <3>1, <3>2 DEF ReaderClears, ReaderMakes
    <2> QED
      BY <2>1, <2>3, <2>4
  <1> QED
    BY <1>1, <1>4, <1>5 DEF RealInv, KnownReal

(* From a hold on, the old place is for the eviction to pop.                   *)
LEMMA HoldIsReal ==
    ASSUME RealInv, ForgetInv', NEW i \in Slots, KeyHeld(i)
    PROVE  RealInv'
  <1>1. Shape /\ reader.pc = "idle" /\ UNCHANGED <<known, loop, place>>
    BY DEF RealInv, ForgetInv, KeyHeld
  <1>2. PICK s \in Session :
           heard' = IF Working(s) THEN [heard EXCEPT !.spoke = @ \ {s}] ELSE Forgotten(s)
    BY <1>1, KeysMove
  <1>3. \/ Working(s) /\ heard'.owed = heard.owed /\ heard'.moved = heard.moved
        \/ ~ Working(s) /\ heard'.owed = heard.owed \ {s} /\ heard'.moved = heard.moved \ {s}
    BY <1>1, <1>2 DEF Forgotten, Shape, ShapeHeard
  <1>4. LoopReal'
    BY <1>1, <1>3 DEF RealInv, LoopReal, Working
  <1>5. KnownReal'
    BY <1>1, <1>3 DEF RealInv, KnownReal, ReaderClears
  <1> QED
    BY <1>1, <1>4, <1>5 DEF RealInv

(* What a thread learns is a method, never a place.                            *)
LEMMA LearningIsReal ==
    ASSUME RealInv, ForgetInv', NEW t \in Threads, NEW m, Learns(t, m),
           UNCHANGED <<loop, place>>,
           reader' = reader \/ reader.pc # "forget"
    PROVE  RealInv'
  <1>1. heard'.owed = heard.owed /\ heard'.moved = heard.moved
    BY DEF Learns, RealInv, ForgetInv, Shape, ShapeHeard
  <1>2. Stores(thread[t].session, "method", m)
    BY DEF Learns, Stores
  <1>3. \A u \in Session, f \in Located : known'[u][f] = known[u][f]
    BY <1>2, Storing DEF RealInv, ForgetInv, Shape, Located, Entry
  <1>4. KnownReal'
    BY <1>1, <1>3 DEF RealInv, KnownReal, ReaderClears
  <1>5. LoopReal'
    BY <1>1 DEF RealInv, LoopReal
  <1> QED
    BY <1>4, <1>5 DEF RealInv

(* Every access to the tables, by whichever thread, keeps RealInv.             *)
LEMMA RealNext == RealInv /\ [Next]_vars => RealInv'
  <1> SUFFICES ASSUME RealInv, [Next]_vars PROVE RealInv'
    OBVIOUS
  <1>1. ForgetInv' /\ Shape
    BY ForgetNext DEF RealInv, ForgetInv
  <1>2. ASSUME UNCHANGED <<known, loop, heard, place>>, reader' = reader \/ reader.pc # "forget"
        PROVE  RealInv'
    BY <1>1, <1>2 DEF RealInv, KnownReal, LoopReal, ReaderClears
  <1>3. ASSUME NEW s \in Session, Seed(s) \/ HookSessionStart(s) \/ HookSessionEnd(s) \/ HookOther(s)
        PROVE  RealInv'
    BY <1>1, <1>3, HandlersAreReal
  <1>4. CASE LoopStore
    BY <1>1, <1>4, StoreIsReal
  <1>5. CASE LoopBackfill
    <2>1. UNCHANGED <<known, heard, place, reader>> /\ loop.pc # "idle"
      BY <1>5 DEF LoopBackfill, reader
    <2>2. loop' = Idle \/ (loop'.session = loop.session /\ loop'.values = loop.values)
      BY <1>5 DEF LoopBackfill, Work
    <2>3. LoopReal'
      BY <2>1, <2>2 DEF RealInv, LoopReal, Idle, Work
    <2>4. KnownReal'
      BY <2>1 DEF RealInv, KnownReal, ReaderClears
    <2> QED
      BY <1>1, <2>1, <2>3, <2>4 DEF RealInv
  <1>6. CASE LoopSpawn
    <2>1. reader' = reader
      BY <1>1, <1>6, QuietReader DEF LoopStep
    <2>2. UNCHANGED <<known, heard, place>> /\ loop'.pc = "idle"
      BY <1>6 DEF LoopSpawn, Idle, Work
    <2>3. LoopReal'
      BY <2>2 DEF LoopReal
    <2>4. KnownReal'
      BY <2>1, <2>2 DEF RealInv, KnownReal, ReaderClears
    <2> QED
      BY <1>1, <2>2, <2>3, <2>4 DEF RealInv
  <1>7. CASE ReaderForgets
    BY <1>1, <1>7, EvictionIsReal
  <1>8. CASE PressLearns
    BY <1>1, <1>8, LearningIsReal DEF PressLearns, Threads
  <1>9. CASE PressReads \/ TriedRaises \/ TriedMisses \/ TriedFails \/ PressGivesUp
    BY <1>2, <1>9 DEF PressReads, TriedRaises, TriedMisses, TriedFails, PressGivesUp, Trying
  <1>10. ASSUME NEW t \in Warmer, WarmerStep(t) PROVE RealInv'
    <2>1. reader' = reader
      BY <1>1, <1>10, QuietReader
    <2>2. CASE WarmLearns(t)
      BY <1>1, <2>1, <2>2, LearningIsReal DEF WarmLearns, Threads
    <2>3. CASE ProbeFinds(t) \/ ProbeGivesUp(t)
      BY <1>2, <2>1, <2>3 DEF ProbeFinds, ProbeGivesUp
    <2> QED
      BY <1>10, <2>2, <2>3 DEF WarmerStep
  <1>11. ASSUME NEW i \in Slots, KeyTap(i) PROVE RealInv'
    BY <1>2, <1>11 DEF KeyTap
  <1>12. ASSUME NEW i \in Slots, KeyHeld(i) PROVE RealInv'
    BY <1>1, <1>12, HoldIsReal
  <1>13. ASSUME NEW w \in Window, DesktopChanges(w) PROVE RealInv'
    BY <1>2, <1>13 DEF DesktopChanges, daemonVars, reader
  <1>14. CASE UNCHANGED vars
    BY <1>2, <1>14 DEF vars, daemonVars, reader
  <1> QED
    BY <1>3, <1>4, <1>5, <1>6, <1>7, <1>8, <1>9, <1>10, <1>11, <1>12, <1>13, <1>14
    DEF Next, LoopStep, ReaderStep

(* While no handler and no eviction is under way, the pane and the tty known   *)
(* of a session are empty or where it is, unless it moved without an end.      *)
THEOREM DispatchKnowsPlace == Spec => []KnownPlaceIsReal
  <1>1. RealInv => KnownPlaceIsReal
    <2> SUFFICES ASSUME RealInv, Settled, NEW s \in Session \ heard.moved, NEW e \in Located
                 PROVE  known[s][e] \in {None, place[s][e]}
      BY DEF KnownPlaceIsReal, Located
    <2>1. ~ ReaderClears(s, e) /\ ~ LoopClears(s, e) /\ ~ Excused(s, e) /\ e \in Entry
      BY DEF Settled, ReaderClears, LoopClears, Excused, Located, Entry
    <2>2. CASE s \in heard.owed
      BY <2>1, <2>2 DEF RealInv, KnownReal
    <2>3. CASE s \notin heard.owed
      BY <2>1, <2>3 DEF RealInv, ForgetInv, Cleared
    <2> QED
      BY <2>2, <2>3
  <1> QED
    BY <1>1, RealInit, RealNext, PTL DEF Spec

--------------------------------------------------------------------------------
(* PaneIsLearned speaks of settled states.  In between, the handler at work    *)
(* has the pane that is missing and has still to store it, or to find out that *)
(* it is missing.                                                              *)
PaneComes(s) ==
    /\ loop.pc # "idle"
    /\ loop.session = s
    /\ loop.values.pane # None
    /\ loop.pc \in {"lazy", "backfill"} \/ "pane" \in Left(loop.todo)

PaneKnown ==
    \A s \in heard.spoke : place[s].pane # None => known[s].pane # None \/ PaneComes(s)

(* A handler of a session that spoke stores a pane only where it has one, and  *)
(* an eviction silences its session.                                           *)
StoresPane ==
    loop.pc # "idle" /\ loop.session \in heard.spoke =>
        ("pane" \in Left(loop.todo) => loop.values.pane # None)

EvictedIsSilent == reader.pc = "forget" => reader.session \notin heard.spoke

SpokeHasSlot == \A s \in heard.spoke : s \in Session /\ Mapped(s)

SpokenInv ==
    /\ Shape
    /\ SlotInv
    /\ place \in [Session -> Place]
    /\ loop.pc = "idle" => loop.todo = <<>>
    /\ loop.todo \in Seq(Entry)
    /\ SpokeHasSlot
    /\ EvictedIsSilent
    /\ StoresPane
    /\ PaneKnown

(* Nobody has spoken at first.                                                 *)
LEMMA SpokenInit == Init => SpokenInv
  <1> SUFFICES ASSUME Init PROVE SpokenInv
    OBVIOUS
  <1>1. reader.pc = "idle" /\ loop.pc = "idle" /\ loop.todo = <<>> /\ heard.spoke = {}
    BY DEF Init, reader, Threads, Idle, Work, NobodyHeard
  <1> QED
    BY <1>1, ShapeInit, SlotInitInv
    DEF Init, SpokenInv, SpokeHasSlot, EvictedIsSilent, StoresPane, PaneKnown

(* What was given is stored, and nothing else.                                 *)
LEMMA GivenOnes ==
    ASSUME NEW p, NEW e \in Entry
    PROVE  /\ Given(p, e) \in Seq(Entry)
           /\ Left(Given(p, e)) = IF p[e] = None THEN {} ELSE {e}
  <1>1. Left(<<>>) = {}
    BY DEF Left
  <1>2. CASE p[e] = None
    BY <1>1, <1>2 DEF Given
  <1>3. CASE p[e] # None
    BY <1>3, LeftOfOne DEF Given
  <1> QED
    BY <1>2, <1>3

(* The same at the end of a sequence.                                          *)
LEMMA ThenGiven ==
    ASSUME NEW q \in Seq(Entry), NEW p, NEW e \in Entry
    PROVE  /\ q \o Given(p, e) \in Seq(Entry)
           /\ Left(q \o Given(p, e)) = Left(q) \cup (IF p[e] = None THEN {} ELSE {e})
  <1> DEFINE g == Given(p, e)
  <1>1. g \in Seq(Entry) /\ Left(g) = IF p[e] = None THEN {} ELSE {e}
    BY GivenOnes
  <1> HIDE DEF g
  <1>2. q \o g \in Seq(Entry) /\ Left(q \o g) = Left(q) \cup Left(g)
    BY <1>1, LeftOfBoth
  <1> QED
    BY <1>1, <1>2 DEF g

(* The entries that a handler is to store.                                     *)
LEMMA StartStores ==
    ASSUME NEW p
    PROVE  /\ Given(p, "pane") \o Given(p, "tty") \o Given(p, "project") \in Seq(Entry)
           /\ "pane" \in Left(Given(p, "pane") \o Given(p, "tty") \o Given(p, "project"))
                  <=> p.pane # None
  <1> DEFINE t0 == Given(p, "pane")
             t1 == t0 \o Given(p, "tty")
             t2 == t1 \o Given(p, "project")
  <1>1. "pane" \in Entry /\ "tty" \in Entry /\ "project" \in Entry
    BY DEF Entry
  <1>2. t0 \in Seq(Entry) /\ Left(t0) = IF p.pane = None THEN {} ELSE {"pane"}
    BY <1>1, GivenOnes
  <1> HIDE DEF t0
  <1>3. t1 \in Seq(Entry) /\ Left(t1) = Left(t0) \cup (IF p.tty = None THEN {} ELSE {"tty"})
    BY <1>1, <1>2, ThenGiven
  <1> HIDE DEF t1
  <1>4. t2 \in Seq(Entry) /\ Left(t2) = Left(t1) \cup (IF p.project = None THEN {} ELSE {"project"})
    BY <1>1, <1>3, ThenGiven
  <1> HIDE DEF t2
  <1>5. "pane" \in Left(t2) <=> p.pane # None
    BY <1>2, <1>3, <1>4
  <1> QED
    BY <1>4, <1>5 DEF t2, t1, t0

(* Seeding stores a pane only if tmux told one.                                *)
LEMMA SeedStores ==
    ASSUME NEW tty, NEW pane
    PROVE  /\ <<"project">> \o Given([tty |-> tty], "tty") \o Given([pane |-> pane], "pane")
                  \in Seq(Entry)
           /\ "pane" \in Left(<<"project">> \o Given([tty |-> tty], "tty")
                                            \o Given([pane |-> pane], "pane")) => pane # None
  <1> DEFINE t0 == <<"project">>
             t1 == t0 \o Given([tty |-> tty], "tty")
             t2 == t1 \o Given([pane |-> pane], "pane")
  <1>1. "pane" \in Entry /\ "tty" \in Entry /\ t0 \in Seq(Entry)
    BY DEF Entry
  <1>2. Left(t0) = {"project"}
    BY LeftOfOne
  <1> HIDE DEF t0
  <1>3. t1 \in Seq(Entry) /\ Left(t1) = Left(t0) \cup (IF [tty |-> tty].tty = None THEN {} ELSE {"tty"})
    BY <1>1, ThenGiven
  <1> HIDE DEF t1
  <1>4. t2 \in Seq(Entry)
        /\ Left(t2) = Left(t1) \cup (IF [pane |-> pane].pane = None THEN {} ELSE {"pane"})
    BY <1>1, <1>3, ThenGiven
  <1> HIDE DEF t2
  <1>5. "pane" \in Left(t2) => pane # None
    BY <1>2, <1>3, <1>4
  <1> QED
    BY <1>4, <1>5 DEF t2, t1, t0

--------------------------------------------------------------------------------
(* allocate() takes no slot away, and gives one unless the pad is full.        *)
LEMMA AllocateKeeps ==
    ASSUME SlotInv, NEW s \in Session, NEW i \in Slots \cup {NoSlot}, Allocate(s, i)
    PROVE  /\ \A t \in Session : Mapped(t) => Mapped(t)'
           /\ i \in Slots => Mapped(s)'
           /\ i = NoSlot => ~ Mapped(s)
  BY SlotIsNotNoSlot
  DEF Allocate, AllocateExisting, AllocateFirstFit, AllocateFull, slotVars, Mapped, SlotInv,
      SlotTypeOK, FreeSlots

(* A start of a session stores the pane it reports.                            *)
LEMMA StartIsSpoken ==
    ASSUME SpokenInv, Shape', SlotInv', NEW s \in Session, HookSessionStart(s)
    PROVE  SpokenInv'
  <1>1. loop.pc = "idle" /\ UNCHANGED <<known, reader>> /\ \A t : ~ PaneComes(t)
    BY DEF HookSessionStart, reader, PaneComes
  <1>2. PICK i \in Slots \cup {NoSlot}, p \in Place :
           /\ Allocate(s, i)
           /\ Handler(s, IF i = NoSlot THEN "write" ELSE "warm", p,
                      Given(p, "pane") \o Given(p, "tty") \o Given(p, "project"))
           /\ place' = [place EXCEPT ![s] = p]
           /\ heard' = [owed |-> heard.owed \cup {s}, spoke |-> heard.spoke, late |-> heard.late,
                        moved |-> IF s \in heard.owed /\ p # place[s]
                                  THEN heard.moved \cup {s} ELSE heard.moved]
    BY DEF HookSessionStart
  <1>3. /\ heard'.spoke = heard.spoke
        /\ loop'.pc \in {"write", "warm"} /\ loop'.session = s /\ loop'.values = Stored(p)
        /\ loop'.todo = Given(p, "pane") \o Given(p, "tty") \o Given(p, "project")
    BY <1>2 DEF Handler, Work
  <1>4. loop'.values.pane = p.pane
    BY <1>3 DEF Stored
  <1>5. loop'.todo \in Seq(Entry) /\ ("pane" \in Left(loop'.todo) <=> p.pane # None)
    BY <1>3, StartStores
  <1>6. /\ place' \in [Session -> Place] /\ place'[s] = p
        /\ \A t \in Session \ {s} : place'[t] = place[t]
    BY <1>2 DEF SpokenInv
  <1>7. SpokeHasSlot'
    BY <1>2, <1>3, AllocateKeeps DEF SpokenInv, SpokeHasSlot
  <1>8. EvictedIsSilent' /\ StoresPane'
    BY <1>1, <1>3, <1>4, <1>5 DEF SpokenInv, EvictedIsSilent, StoresPane
  <1>9. ASSUME NEW t \in heard'.spoke, place'[t].pane # None
        PROVE  known'[t].pane # None \/ PaneComes(t)'
    <2>1. CASE t = s
      BY <1>3, <1>4, <1>5, <1>6, <1>9, <2>1 DEF PaneComes
    <2>2. CASE t # s
      <3>1. t \in Session /\ t \in heard.spoke
        BY <1>3, <1>9 DEF SpokenInv, SpokeHasSlot
      <3> QED
        BY <1>1, <1>6, <1>9, <2>2, <3>1 DEF SpokenInv, PaneKnown
    <2> QED
      BY <2>1, <2>2
  <1>10. PaneKnown'
    BY <1>9 DEF PaneKnown
  <1> QED
    BY <1>3, <1>5, <1>6, <1>7, <1>8, <1>10 DEF SpokenInv

(* An end silences its session.                                                *)
LEMMA EndIsSpoken ==
    ASSUME SpokenInv, Shape', SlotInv', NEW s \in Session, HookSessionEnd(s)
    PROVE  SpokenInv'
  <1>1. loop.pc = "idle" /\ UNCHANGED <<known, reader, place>> /\ \A t : ~ PaneComes(t)
    BY DEF HookSessionEnd, reader, PaneComes
  <1>2. heard'.spoke = heard.spoke \ {s}
    BY DEF HookSessionEnd, Forgotten
  <1>3. loop'.pc = "write" /\ loop'.session = s /\ loop'.todo = Entries
    BY DEF HookSessionEnd, Work
  <1>4. loop'.todo \in Seq(Entry)
    BY <1>3 DEF Entries, Entry
  <1>5. \A t \in Session \ {s} : Mapped(t) => Mapped(t)'
    BY DEF HookSessionEnd, Free, Mapped, SpokenInv, SlotInv, SlotTypeOK
  <1>6. SpokeHasSlot'
    BY <1>2, <1>5 DEF SpokenInv, SpokeHasSlot
  <1>7. EvictedIsSilent' /\ StoresPane'
    BY <1>1, <1>2, <1>3 DEF SpokenInv, EvictedIsSilent, StoresPane
  <1>8. PaneKnown'
    BY <1>1, <1>2 DEF SpokenInv, PaneKnown
  <1> QED
    BY <1>1, <1>3, <1>4, <1>6, <1>7, <1>8 DEF SpokenInv

(* Seeding moves nobody and erases nothing.                                    *)
LEMMA SeedIsSpoken ==
    ASSUME SpokenInv, Shape', SlotInv', NEW s \in Session, Seed(s)
    PROVE  SpokenInv'
  <1>1. loop.pc = "idle" /\ UNCHANGED <<known, reader, place>> /\ \A t : ~ PaneComes(t)
    BY DEF Seed, reader, PaneComes
  <1>2. PICK i \in Slots \cup {NoSlot}, tty \in {None, place[s].tty}, pane \in {None, place[s].pane} :
           /\ Allocate(s, i)
           /\ \/ UNCHANGED <<loop, heard>>
              \/ /\ Handler(s, "warm", [pane |-> pane, tty |-> tty, project |-> place[s].project],
                            <<"project">> \o Given([tty |-> tty], "tty")
                                          \o Given([pane |-> pane], "pane"))
                 /\ heard' = [heard EXCEPT !.owed = @ \cup {s}]
    BY DEF Seed
  <1>3. heard'.spoke = heard.spoke
    BY <1>2 DEF SpokenInv, Shape, ShapeHeard
  <1>4. SpokeHasSlot'
    BY <1>2, <1>3, AllocateKeeps DEF SpokenInv, SpokeHasSlot
  <1>5. EvictedIsSilent' /\ PaneKnown'
    BY <1>1, <1>3 DEF SpokenInv, EvictedIsSilent, PaneKnown
  <1>6. CASE loop' = loop
    BY <1>1, <1>3, <1>4, <1>5, <1>6 DEF SpokenInv, StoresPane
  <1>7. CASE Handler(s, "warm", [pane |-> pane, tty |-> tty, project |-> place[s].project],
                     <<"project">> \o Given([tty |-> tty], "tty") \o Given([pane |-> pane], "pane"))
    <2>1. /\ loop'.pc = "warm" /\ loop'.values.pane = pane
          /\ loop'.todo = <<"project">> \o Given([tty |-> tty], "tty") \o Given([pane |-> pane], "pane")
      BY <1>7 DEF Handler, Work, Stored
    <2>2. loop'.todo \in Seq(Entry) /\ ("pane" \in Left(loop'.todo) => pane # None)
      BY <2>1, SeedStores
    <2> QED
      BY <1>1, <1>4, <1>5, <2>1, <2>2 DEF SpokenInv, StoresPane
  <1> QED
    BY <1>2, <1>6, <1>7

(* Any other event carries the pane and has it backfilled.                     *)
LEMMA OtherIsSpoken ==
    ASSUME SpokenInv, Shape', SlotInv', NEW s \in Session, HookOther(s)
    PROVE  SpokenInv'
  <1>1. loop.pc = "idle" /\ UNCHANGED <<known, reader, place>> /\ \A t : ~ PaneComes(t)
    BY DEF HookOther, reader, PaneComes
  <1>2. PICK i \in Slots :
           /\ Allocate(s, i)
           /\ Handler(s, IF Mapped(s) THEN "backfill" ELSE "lazy", place[s],
                      IF Mapped(s) THEN <<>> ELSE <<"project">>)
    BY DEF HookOther
  <1>3. heard'.spoke = IF reader.session = s /\ reader.pc = "forget"
                       THEN heard.spoke ELSE heard.spoke \cup {s}
    BY DEF HookOther
  <1>4. /\ loop'.pc \in {"lazy", "backfill"} /\ loop'.session = s
        /\ loop'.values.pane = place[s].pane
        /\ loop'.todo \in {<<>>, <<"project">>}
    BY <1>2 DEF Handler, Work, Stored
  <1>5. loop'.todo \in Seq(Entry) /\ "pane" \notin Left(loop'.todo)
    <2>1. Left(<<"project">>) = {"project"}
      BY LeftOfOne
    <2>2. Left(<<>>) = {}
      BY DEF Left
    <2>3. <<>> \in Seq(Entry) /\ <<"project">> \in Seq(Entry)
      BY DEF Entry
    <2>4. "pane" # "project"
      OBVIOUS
    <2> QED
      BY <1>4, <2>1, <2>2, <2>3, <2>4
  <1>6. SpokeHasSlot'
    BY <1>2, <1>3, AllocateKeeps DEF SpokenInv, SpokeHasSlot
  <1>7. EvictedIsSilent' /\ StoresPane'
    BY <1>1, <1>3, <1>5 DEF SpokenInv, EvictedIsSilent, StoresPane
  <1>8. PaneKnown'
    BY <1>1, <1>3, <1>4 DEF SpokenInv, PaneKnown, PaneComes
  <1> QED
    BY <1>1, <1>4, <1>5, <1>6, <1>7, <1>8 DEF SpokenInv

(* A handler that stores goes on to the pane, or has stored it.                *)
LEMMA StoreIsSpoken == ASSUME SpokenInv, Shape', SlotInv', LoopStore PROVE SpokenInv'
  <1> DEFINE s == loop.session
             d == Head(loop.todo)
  <1>1. /\ UNCHANGED <<slotVars, thread, heard, place>>
        /\ Stores(s, d, loop.values[d])
        /\ loop.todo # <<>>
    BY DEF LoopStore, Stores
  <1>2. loop.pc # "idle" /\ reader' = reader
    BY <1>1 DEF SpokenInv, reader
  <1>3. d \in Entry /\ Tail(loop.todo) \in Seq(Entry) /\ Left(loop.todo) = {d} \cup Left(Tail(loop.todo))
    BY <1>1, LeftOfRest DEF SpokenInv
  <1>4. \A t \in Session, f \in Entry :
            known'[t][f] = IF t = s /\ f = d THEN loop.values[d] ELSE known[t][f]
    BY <1>1, Storing DEF SpokenInv, Shape
  <1>5. \/ Len(loop.todo) = 1 /\ loop.pc = "write" /\ loop' = Idle
        \/ /\ loop'.pc = loop.pc /\ loop'.session = s /\ loop'.values = loop.values
           /\ loop'.todo = Tail(loop.todo)
    BY DEF LoopStore, SpokenInv, Shape, IsWork
  <1>6. Idle.pc = "idle" /\ Idle.todo = <<>> /\ <<>> \in Seq(Entry)
    BY WorkParts DEF Idle, Work
  <1> HIDE DEF s, d
  <1>7. SpokeHasSlot' /\ EvictedIsSilent'
    BY <1>1, <1>2 DEF SpokenInv, SpokeHasSlot, EvictedIsSilent, slotVars, Mapped
  <1>8. StoresPane'
    BY <1>1, <1>2, <1>3, <1>5, <1>6 DEF SpokenInv, StoresPane, s
  <1>9. ASSUME NEW t \in heard.spoke, place[t].pane # None
        PROVE  known'[t].pane # None \/ PaneComes(t)'
    <2>1. t \in Session /\ "pane" \in Entry
      BY DEF SpokenInv, SpokeHasSlot, Entry
    <2>2. CASE t = s /\ d = "pane"
      <3>1. loop.values.pane # None
        BY <1>2, <1>3, <2>2 DEF SpokenInv, StoresPane, s
      <3> QED
        BY <1>4, <2>1, <2>2, <3>1
    <2>3. CASE ~ (t = s /\ d = "pane") /\ known[t].pane # None
      BY <1>4, <2>1, <2>3
    <2>4. CASE ~ (t = s /\ d = "pane") /\ PaneComes(t)
      <3>1. t = s /\ loop.values.pane # None /\ d # "pane"
        BY <2>4 DEF PaneComes, s
      <3>2. CASE loop.pc \in {"lazy", "backfill"}
        BY <1>2, <1>5, <3>1, <3>2 DEF PaneComes
      <3>3. CASE "pane" \in Left(loop.todo)
        <4>1. "pane" \in Left(Tail(loop.todo))
          BY <1>3, <3>1, <3>3
        <4>2. Len(loop.todo) # 1
          <5>1. ASSUME Len(loop.todo) = 1 PROVE FALSE
            <6>1. Left(loop.todo) = {d}
              <7>1. d = loop.todo[1]
                BY <1>1 DEF d, SpokenInv
              <7> QED
                BY <5>1, <7>1 DEF Left
            <6> QED
              BY <3>1, <3>3, <6>1
          <5> QED
            BY <5>1
        <4> QED
          BY <1>2, <1>5, <3>1, <4>1, <4>2 DEF PaneComes
      <3> QED
        BY <2>4, <3>2, <3>3 DEF PaneComes
    <2> QED
      BY <1>9, <2>2, <2>3, <2>4 DEF SpokenInv, PaneKnown
  <1>10. PaneKnown'
    BY <1>1, <1>9 DEF PaneKnown
  <1>11. loop'.todo \in Seq(Entry) /\ (loop'.pc = "idle" => loop'.todo = <<>>)
    BY <1>2, <1>3, <1>5, <1>6
  <1> QED
    BY <1>1, <1>7, <1>8, <1>10, <1>11 DEF SpokenInv

(* A pane that is missing is found to be missing.                              *)
LEMMA BackfillIsSpoken == ASSUME SpokenInv, Shape', SlotInv', LoopBackfill PROVE SpokenInv'
  <1>1. /\ UNCHANGED <<slotVars, known, heard, place, reader>>
        /\ loop.pc \in {"lazy", "backfill"}
        /\ loop.todo = <<>>
    BY DEF LoopBackfill, reader
  <1>2. /\ MissingPane \in Seq(Entry)
        /\ "pane" \in Left(MissingPane) <=>
               known[loop.session].pane = None /\ loop.values.pane # None
    <2>1. "pane" \in Entry /\ Left(<<>>) = {} /\ <<>> \in Seq(Entry)
      BY DEF Entry, Left
    <2>2. /\ Given(loop.values, "pane") \in Seq(Entry)
          /\ Left(Given(loop.values, "pane")) = IF loop.values.pane = None THEN {} ELSE {"pane"}
      BY <2>1, GivenOnes
    <2> QED
      BY <2>1, <2>2 DEF MissingPane
  <1>3. \/ loop' = Idle /\ (loop.pc = "backfill" /\ MissingPane = <<>>)
        \/ /\ loop'.pc \in {"warm", "write"}
           /\ loop'.session = loop.session /\ loop'.values = loop.values
           /\ loop'.todo = MissingPane
    BY <1>1 DEF LoopBackfill, Work
  <1>4. Idle.pc = "idle" /\ Idle.todo = <<>> /\ <<>> \in Seq(Entry) /\ Left(<<>>) = {}
    BY DEF Idle, Work, Left
  <1>5. SpokeHasSlot' /\ EvictedIsSilent'
    BY <1>1 DEF SpokenInv, SpokeHasSlot, EvictedIsSilent, slotVars, Mapped
  <1>6. StoresPane'
    BY <1>1, <1>2, <1>3, <1>4 DEF StoresPane
  <1>7. ASSUME NEW t \in heard.spoke, place[t].pane # None, known[t].pane = None
        PROVE  PaneComes(t)'
    <2>1. PaneComes(t)
      BY <1>7 DEF SpokenInv, PaneKnown
    <2>2. loop.session = t /\ loop.values.pane # None
      BY <2>1 DEF PaneComes
    <2>3. "pane" \in Left(MissingPane)
      BY <1>2, <1>7, <2>2
    <2>4. MissingPane # <<>>
      BY <1>4, <2>3
    <2> QED
      BY <1>3, <2>2, <2>3, <2>4 DEF PaneComes
  <1>8. PaneKnown'
    BY <1>1, <1>7 DEF PaneKnown
  <1>9. loop'.todo \in Seq(Entry) /\ (loop'.pc = "idle" => loop'.todo = <<>>)
    BY <1>2, <1>3, <1>4
  <1> QED
    BY <1>1, <1>5, <1>6, <1>8, <1>9 DEF SpokenInv

(* An eviction silences its session before it pops anything.                   *)
LEMMA HoldIsSpoken ==
    ASSUME SpokenInv, Shape', SlotInv', NEW i \in Slots, KeyHeld(i)
    PROVE  SpokenInv'
  <1>1. Shape /\ SlotInv /\ UNCHANGED <<known, loop, place>>
    BY DEF SpokenInv, KeyHeld
  <1>2. PICK s \in Session :
           /\ Evict(i, s)
           /\ ReaderMakes("forget", s, Nothing, Entries)
           /\ heard' = IF Working(s) THEN [heard EXCEPT !.spoke = @ \ {s}] ELSE Forgotten(s)
    BY <1>1, KeysMove
  <1>3. heard'.spoke = heard.spoke \ {s}
    BY <1>1, <1>2 DEF Forgotten, Shape, ShapeHeard
  <1>4. \A t \in Session \ {s} : Mapped(t) => Mapped(t)'
    BY <1>1, <1>2 DEF Evict, Mapped, SlotInv, SlotTypeOK
  <1>5. SpokeHasSlot' /\ EvictedIsSilent'
    BY <1>2, <1>3, <1>4 DEF SpokenInv, SpokeHasSlot, EvictedIsSilent, ReaderMakes
  <1>6. StoresPane'
    BY <1>1, <1>3 DEF SpokenInv, StoresPane
  <1>7. PaneKnown'
    BY <1>1, <1>3 DEF SpokenInv, PaneKnown, PaneComes
  <1> QED
    BY <1>1, <1>5, <1>6, <1>7 DEF SpokenInv

(* What it pops is of a session that has not spoken since.                     *)
LEMMA EvictionIsSpoken == ASSUME SpokenInv, Shape', SlotInv', ReaderForgets PROVE SpokenInv'
  <1>1. Shape /\ UNCHANGED <<slotVars, loop, heard, place>> /\ reader.pc = "forget"
    BY DEF SpokenInv, ReaderForgets
  <1>2. Stores(reader.session, Head(reader.todo), None)
    BY DEF ReaderForgets, Stores
  <1>3. reader'.pc # "forget" \/ reader'.session = reader.session
    BY <1>1, ReaderMoves DEF ReaderMakes, Idle, Work, ReaderForgets
  <1>4. SpokeHasSlot' /\ EvictedIsSilent'
    BY <1>1, <1>3 DEF SpokenInv, SpokeHasSlot, EvictedIsSilent, slotVars, Mapped
  <1>5. StoresPane'
    BY <1>1 DEF SpokenInv, StoresPane
  <1>6. ASSUME NEW t \in heard.spoke PROVE known'[t].pane = known[t].pane
    <2>1. t \in Session /\ t # reader.session /\ "pane" \in Entry
      BY <1>1, <1>6 DEF SpokenInv, SpokeHasSlot, EvictedIsSilent, Entry
    <2> QED
      BY <1>1, <1>2, <2>1, Storing DEF Shape
  <1>7. PaneKnown'
    BY <1>1, <1>6 DEF SpokenInv, PaneKnown, PaneComes
  <1> QED
    BY <1>1, <1>4, <1>5, <1>7 DEF SpokenInv

(* What a thread learns is a method, never a pane.                             *)
LEMMA LearningIsSpoken ==
    ASSUME SpokenInv, Shape', SlotInv', NEW t \in Threads, NEW m, Learns(t, m),
           UNCHANGED <<slotVars, loop, place>>,
           reader' = reader \/ reader'.pc # "forget"
    PROVE  SpokenInv'
  <1>1. heard'.spoke = heard.spoke /\ Stores(thread[t].session, "method", m)
    BY DEF Learns, Stores, SpokenInv, Shape, ShapeHeard
  <1>2. ASSUME NEW s \in heard.spoke PROVE known'[s].pane = known[s].pane
    <2>1. s \in Session /\ "pane" \in Entry /\ "pane" # "method"
      BY DEF SpokenInv, SpokeHasSlot, Entry
    <2> QED
      BY <1>1, <2>1, Storing DEF SpokenInv, Shape
  <1>3. SpokeHasSlot' /\ EvictedIsSilent'
    BY <1>1 DEF SpokenInv, SpokeHasSlot, EvictedIsSilent, slotVars, Mapped
  <1>4. StoresPane' /\ PaneKnown'
    BY <1>1, <1>2 DEF SpokenInv, StoresPane, PaneKnown, PaneComes
  <1> QED
    BY <1>3, <1>4 DEF SpokenInv

(* Every access to the tables, by whichever thread, keeps SpokenInv.           *)
LEMMA SpokenNext == SpokenInv /\ [Next]_vars => SpokenInv'
  <1> SUFFICES ASSUME SpokenInv, [Next]_vars PROVE SpokenInv'
    OBVIOUS
  <1>1. Shape /\ Shape' /\ SlotInv'
    BY ShapeNext, SlotsInv DEF SpokenInv
  <1>2. ASSUME UNCHANGED <<slotVars, known, loop, heard, place>>,
               reader' = reader \/ reader'.pc # "forget"
        PROVE  SpokenInv'
    BY <1>1, <1>2
    DEF SpokenInv, SpokeHasSlot, EvictedIsSilent, StoresPane, PaneKnown, PaneComes, slotVars, Mapped
  <1>3. ASSUME NEW s \in Session, Seed(s) \/ HookSessionStart(s) \/ HookSessionEnd(s) \/ HookOther(s)
        PROVE  SpokenInv'
    BY <1>1, <1>3, SeedIsSpoken, StartIsSpoken, EndIsSpoken, OtherIsSpoken
  <1>4. CASE LoopStore
    BY <1>1, <1>4, StoreIsSpoken
  <1>5. CASE LoopBackfill
    BY <1>1, <1>5, BackfillIsSpoken
  <1>6. CASE LoopSpawn
    <2>1. reader' = reader
      BY <1>1, <1>6, QuietReader DEF LoopStep
    <2>2. /\ UNCHANGED <<slotVars, known, heard, place>>
          /\ loop.todo = <<>> /\ loop.pc = "warm"
          /\ loop'.pc = "idle" /\ loop'.todo = <<>>
      BY <1>6 DEF LoopSpawn, Idle, Work
    <2>3. Left(<<>>) = {} /\ <<>> \in Seq(Entry)
      BY DEF Left
    <2>4. SpokeHasSlot' /\ EvictedIsSilent' /\ StoresPane'
      BY <2>1, <2>2 DEF SpokenInv, SpokeHasSlot, EvictedIsSilent, StoresPane, slotVars, Mapped
    <2>5. PaneKnown'
      BY <2>2, <2>3 DEF SpokenInv, PaneKnown, PaneComes
    <2> QED
      BY <1>1, <2>2, <2>3, <2>4, <2>5 DEF SpokenInv
  <1>7. CASE ReaderForgets
    BY <1>1, <1>7, EvictionIsSpoken
  <1>8. CASE PressLearns
    <2>1. reader'.pc # "forget"
      BY <1>1, <1>8, ReaderMoves DEF Idle, Work
    <2> QED
      BY <1>1, <1>8, <2>1, LearningIsSpoken DEF PressLearns, Threads
  <1>9. CASE PressReads \/ TriedRaises \/ TriedMisses \/ TriedFails \/ PressGivesUp
    <2>1. reader'.pc # "forget"
      BY <1>1, <1>9, ReaderMoves DEF ReaderMakes, Idle, Work
    <2> QED
      BY <1>2, <1>9, <2>1 DEF PressReads, TriedRaises, TriedMisses, TriedFails, PressGivesUp
  <1>10. ASSUME NEW t \in Warmer, WarmerStep(t) PROVE SpokenInv'
    <2>1. reader' = reader
      BY <1>1, <1>10, QuietReader
    <2>2. CASE WarmLearns(t)
      BY <1>1, <2>1, <2>2, LearningIsSpoken DEF WarmLearns, Threads
    <2>3. CASE ProbeFinds(t) \/ ProbeGivesUp(t)
      BY <1>2, <2>1, <2>3 DEF ProbeFinds, ProbeGivesUp
    <2> QED
      BY <1>10, <2>2, <2>3 DEF WarmerStep
  <1>11. ASSUME NEW i \in Slots, KeyTap(i) PROVE SpokenInv'
    <2>1. reader'.pc # "forget"
      BY <1>1, <1>11, KeysMove DEF ReaderMakes
    <2> QED
      BY <1>2, <1>11, <2>1 DEF KeyTap
  <1>12. ASSUME NEW i \in Slots, KeyHeld(i) PROVE SpokenInv'
    BY <1>1, <1>12, HoldIsSpoken
  <1>13. ASSUME NEW w \in Window, DesktopChanges(w) PROVE SpokenInv'
    BY <1>2, <1>13 DEF DesktopChanges, daemonVars, reader
  <1>14. CASE UNCHANGED vars
    BY <1>2, <1>14 DEF vars, daemonVars, reader
  <1> QED
    BY <1>3, <1>4, <1>5, <1>6, <1>7, <1>8, <1>9, <1>10, <1>11, <1>12, <1>13, <1>14
    DEF Next, LoopStep, ReaderStep

(* A session that has a slot and has spoken is known by its pane once its      *)
(* handler is done, whatever evictions and threads do meanwhile.               *)
THEOREM DispatchLearnsPane == Spec => []PaneIsLearned
  <1>1. SpokenInv => PaneIsLearned
    BY DEF SpokenInv, PaneKnown, PaneComes, PaneIsLearned, Settled
  <1> QED
    BY <1>1, SpokenInit, SpokenNext, PTL DEF Spec

--------------------------------------------------------------------------------
(* Every nonempty set of numbers has a least one.                              *)
LEMMA SmallestExists ==
    ASSUME NEW T, T \subseteq Nat, T # {}
    PROVE  \E x \in T : \A y \in T : x <= y
  <1> DEFINE R == {ss \in Nat \X Nat : ss[1] < ss[2]}
  <1>1. IsWellFoundedOn(R, Nat)
    BY NatLessThanWellFounded DEF OpToRel
  <1>2. \A x, y \in Nat : <<y, x>> \in R <=> y < x
    OBVIOUS
  <1> HIDE DEF R
  <1>3. PICK x \in T : \A y \in T : ~ (<<y, x>> \in R)
    BY <1>1, WFMin
  <1>4. ASSUME NEW y \in T PROVE x <= y
    <2>1. x \in Nat /\ y \in Nat
      OBVIOUS
    <2>2. ~ (y < x)
      BY <1>2, <1>3, <2>1
    <2> QED
      BY <2>1, <2>2
  <1> QED
    BY <1>4

(* A set of numbers that holds 0 and the successor of each of its members, up  *)
(* to a bound, holds all up to the bound.                                      *)
LEMMA UpTo ==
    ASSUME NEW n \in Nat, NEW S, 0 \in S, \A k \in 0 .. (n - 1) : k \in S => k + 1 \in S
    PROVE  0 .. n \subseteq S
  <1> SUFFICES ASSUME ~ (0 .. n \subseteq S) PROVE FALSE
    OBVIOUS
  <1> DEFINE T == {k \in 0 .. n : k \notin S}
  <1>1. T \subseteq Nat /\ T # {}
    OBVIOUS
  <1>2. PICK x \in T : \A y \in T : x <= y
    <2> HIDE DEF T
    <2> QED
      BY <1>1, SmallestExists
  <1>3. x \in 0 .. n /\ x # 0 /\ x \notin S
    BY <1>2
  <1>4. x - 1 \in 0 .. (n - 1) /\ x - 1 \notin T
    BY <1>2, <1>3
  <1>5. x - 1 \in S
    BY <1>4
  <1>6. x - 1 + 1 = x
    BY <1>3
  <1> QED
    BY <1>3, <1>4, <1>5, <1>6

(* One step of the walk upwards.                                               *)
UpFrom(table, q) == IF q \in DOMAIN table.parent THEN table.parent[q] ELSE NoPid

(* A chain of n steps from a process.                                          *)
IsChain(table, pid, n, f) ==
    f = [k \in 0 .. n |-> IF k = 0 THEN pid ELSE UpFrom(table, f[k - 1])]

(* There is a chain of every length.                                           *)
LEMMA ChainExists == \A table, pid : \E f : IsChain(table, pid, MaxDepth, f)
  <1> SUFFICES ASSUME NEW table, NEW pid PROVE \E f : IsChain(table, pid, MaxDepth, f)
    OBVIOUS
  <1> DEFINE S == {n \in Nat : \E f : IsChain(table, pid, n, f)}
  <1>1. 0 \in S
    <2> DEFINE f == [k \in 0 .. 0 |-> pid]
    <2>1. f = [k \in 0 .. 0 |-> IF k = 0 THEN pid ELSE UpFrom(table, f[k - 1])]
      OBVIOUS
    <2>2. IsChain(table, pid, 0, f)
      BY <2>1 DEF IsChain
    <2> QED
      BY <2>2
  <1>2. ASSUME NEW n \in Nat, n \in S PROVE n + 1 \in S
    <2>1. PICK f : IsChain(table, pid, n, f)
      BY <1>2
    <2> DEFINE g == [k \in 0 .. (n + 1) |-> IF k = n + 1 THEN UpFrom(table, f[n]) ELSE f[k]]
    <2>2. \A k \in 0 .. n : f[k] = IF k = 0 THEN pid ELSE UpFrom(table, f[k - 1])
      BY <2>1 DEF IsChain
    <2>3. ASSUME NEW k \in 0 .. (n + 1)
          PROVE  g[k] = IF k = 0 THEN pid ELSE UpFrom(table, g[k - 1])
      <3>1. CASE k = n + 1
        BY <3>1
      <3>2. CASE k # n + 1
        <4>1. k \in 0 .. n /\ g[k] = f[k]
          BY <3>2
        <4>2. k # 0 => g[k - 1] = f[k - 1]
          BY <3>2
        <4> HIDE DEF g
        <4> QED
          BY <2>2, <4>1, <4>2
      <3> QED
        BY <3>1, <3>2
    <2>4. g = [k \in 0 .. (n + 1) |-> g[k]]
      OBVIOUS
    <2> HIDE DEF g
    <2>5. IsChain(table, pid, n + 1, g)
      BY <2>3, <2>4 DEF IsChain
    <2> QED
      BY <2>5
  <1>3. 0 .. MaxDepth \subseteq S
    <2> HIDE DEF S
    <2> QED
      BY <1>1, <1>2, UpTo, MaxDepthAssumption
  <1>4. MaxDepth \in S
    BY <1>3, MaxDepthAssumption
  <1> QED
    BY <1>4

(* The chain of the walk starts at the process and goes up one parent a step.  *)
LEMMA ChainSteps ==
    ASSUME NEW table, NEW pid
    PROVE  /\ PpidChain(table, pid)[0] = pid
           /\ \A k \in 0 .. (MaxDepth - 1) :
                  PpidChain(table, pid)[k + 1] = UpFrom(table, PpidChain(table, pid)[k])
  <1> DEFINE chain == PpidChain(table, pid)
  <1>1. IsChain(table, pid, MaxDepth, chain)
    <2>1. chain = CHOOSE f : IsChain(table, pid, MaxDepth, f)
      BY DEF PpidChain, IsChain, UpFrom
    <2> HIDE DEF chain
    <2> QED
      BY <2>1, ChainExists
  <1> HIDE DEF chain
  <1>2. \A k \in 0 .. MaxDepth : chain[k] = IF k = 0 THEN pid ELSE UpFrom(table, chain[k - 1])
    BY <1>1 DEF IsChain
  <1>3. chain[0] = pid
    BY <1>2, MaxDepthAssumption
  <1>4. ASSUME NEW k \in 0 .. (MaxDepth - 1) PROVE chain[k + 1] = UpFrom(table, chain[k])
    <2>1. k + 1 \in 0 .. MaxDepth /\ k + 1 # 0 /\ k + 1 - 1 = k
      BY MaxDepthAssumption
    <2> QED
      BY <1>2, <2>1
  <1> QED
    BY <1>3, <1>4 DEF chain

--------------------------------------------------------------------------------
(* The walk starts at a live process of a process table and every number of    *)
(* steps is of the chain.                                                      *)
LEMMA AboveOf ==
    ASSUME NEW table, NEW p \in DOMAIN table.parent
    PROVE  /\ Above(table, p) \subseteq DOMAIN table.parent
           /\ p \in Above(table, p)
           /\ \A q \in Above(table, p) :
                  table.parent[q] \in DOMAIN table.parent => table.parent[q] \in Above(table, p)
  BY DEF Above

(* Above a process are, but for itself, those that are above its parent.       *)
LEMMA AboveParent ==
    ASSUME NEW table, NEW p \in DOMAIN table.parent, NEW a \in Above(table, p), a # p
    PROVE  table.parent[p] \in DOMAIN table.parent /\ a \in Above(table, table.parent[p])
  <1>1. a \in DOMAIN table.parent
    BY DEF Above
  <1>2. ASSUME NEW S \in SUBSET DOMAIN table.parent, p \in S,
               \A r \in S : table.parent[r] \in DOMAIN table.parent => table.parent[r] \in S
        PROVE  a \in S
    BY <1>2 DEF Above
  <1>3. table.parent[p] \in DOMAIN table.parent
    <2>1. CASE table.parent[p] \notin DOMAIN table.parent
      <3>1. a \in {p}
        BY <1>2, <2>1
      <3> QED
        BY <3>1
    <2> QED
      BY <2>1
  <1> DEFINE q == table.parent[p]
             up == Above(table, q)
  <1>4. up \subseteq DOMAIN table.parent /\ q \in up
        /\ \A r \in up : table.parent[r] \in DOMAIN table.parent => table.parent[r] \in up
    BY <1>3, AboveOf
  <1>5. a \in up \cup {p}
    <2>1. \A r \in up \cup {p} :
              table.parent[r] \in DOMAIN table.parent => table.parent[r] \in up \cup {p}
      BY <1>4
    <2> HIDE DEF up
    <2> QED
      BY <1>2, <1>4, <2>1
  <1> QED
    BY <1>3, <1>5

(* As long as the walk met no application it is at a live process, everything  *)
(* it has yet to meet is above that process, and the process is above where    *)
(* the walk was before.                                                        *)
Climbs(table, pid, chain, a, j) ==
    /\ chain[j] \in Above(table, pid)
    /\ a \in Above(table, chain[j])
    /\ \A i \in 0 .. (j - 1) :
           /\ table.parent[chain[i]] > 1
           /\ chain[i + 1] = table.parent[chain[i]]
           /\ chain[j] \in Above(table, chain[i + 1])

(* So it climbs on at every step that it gets past.                            *)
LEMMA Climbing ==
    ASSUME NEW table, ProcessTable(table), NEW pid \in DOMAIN table.parent,
           NEW a \in Above(table, pid), NEW n \in 0 .. MaxDepth,
           \A j \in 0 .. (n - 1) : PpidChain(table, pid)[j] # a
    PROVE  \A j \in 0 .. n : Climbs(table, pid, PpidChain(table, pid), a, j)
  <1> DEFINE chain == PpidChain(table, pid)
             S == {j \in 0 .. n : Climbs(table, pid, chain, a, j)}
  <1>1. chain[0] = pid /\ \A k \in 0 .. (MaxDepth - 1) : chain[k + 1] = UpFrom(table, chain[k])
    BY ChainSteps
  <1> HIDE DEF chain
  <1>2. n \in Nat /\ n <= MaxDepth /\ MaxDepth \in Nat
    BY MaxDepthAssumption
  <1>3. 0 \in S
    BY <1>1, <1>2, AboveOf DEF Climbs
  <1>4. ASSUME NEW j \in 0 .. (n - 1), j \in S PROVE j + 1 \in S
    <2>1. j \in 0 .. (MaxDepth - 1) /\ j + 1 \in 0 .. n /\ j \in Nat
      BY <1>2
    <2> DEFINE q == chain[j]
    <2>2. q \in DOMAIN table.parent /\ q \in Above(table, pid)
      BY <1>4, AboveOf DEF Climbs
    <2>3. a \in Above(table, q) /\ a # q
      BY <1>4 DEF Climbs, chain
    <2>4. table.parent[q] \in DOMAIN table.parent /\ a \in Above(table, table.parent[q])
      BY <2>2, <2>3, AboveParent
    <2>5. chain[j + 1] = table.parent[q]
      BY <1>1, <2>1, <2>2 DEF UpFrom
    <2>6. table.parent[q] > 1
      BY <2>4 DEF ProcessTable
    <2>7. chain[j + 1] \in Above(table, pid)
      BY <2>2, <2>4, <2>5, AboveOf
    <2>8. ASSUME NEW i \in 0 .. j
          PROVE  /\ table.parent[chain[i]] > 1
                 /\ chain[i + 1] = table.parent[chain[i]]
                 /\ chain[j + 1] \in Above(table, chain[i + 1])
      <3>1. CASE i = j
        BY <2>4, <2>5, <2>6, <3>1, AboveOf
      <3>2. CASE i # j
        <4>1. i \in 0 .. (j - 1)
          BY <2>1, <3>2
        <4>2. table.parent[chain[i]] > 1 /\ chain[i + 1] = table.parent[chain[i]]
              /\ q \in Above(table, chain[i + 1])
          BY <1>4, <4>1 DEF Climbs
        <4>3. CASE chain[i + 1] \in DOMAIN table.parent
          BY <2>4, <2>5, <4>2, <4>3, AboveOf
        <4>4. CASE chain[i + 1] \notin DOMAIN table.parent
          BY <2>4, <2>5, <4>2, <4>4 DEF Above
        <4> QED
          BY <4>2, <4>3, <4>4
      <3> QED
        BY <3>1, <3>2
    <2>9. 0 .. (j + 1 - 1) = 0 .. j
      BY <2>1
    <2> HIDE DEF q
    <2> QED
      BY <2>1, <2>4, <2>5, <2>7, <2>8, <2>9 DEF Climbs
  <1>5. 0 .. n \subseteq S
    <2> HIDE DEF S
    <2> QED
      BY <1>2, <1>3, <1>4, UpTo
  <1> QED
    BY <1>5 DEF chain

(* A live process that the walk comes to is above the one it started from.     *)
LEMMA ComesAbove ==
    ASSUME NEW table, ProcessTable(table), NEW pid \in DOMAIN table.parent,
           NEW k \in 0 .. MaxDepth, PpidChain(table, pid)[k] \in DOMAIN table.parent
    PROVE  PpidChain(table, pid)[k] \in Above(table, pid)
  <1> DEFINE chain == PpidChain(table, pid)
             S == {j \in 0 .. MaxDepth :
                       chain[j] \in DOMAIN table.parent => chain[j] \in Above(table, pid)}
  <1>1. chain[0] = pid /\ \A j \in 0 .. (MaxDepth - 1) : chain[j + 1] = UpFrom(table, chain[j])
    BY ChainSteps
  <1>2. chain[k] \in DOMAIN table.parent
    OBVIOUS
  <1> HIDE DEF chain
  <1>3. 0 \in S
    BY <1>1, AboveOf, MaxDepthAssumption
  <1>4. ASSUME NEW j \in 0 .. (MaxDepth - 1), j \in S PROVE j + 1 \in S
    <2>1. j + 1 \in 0 .. MaxDepth
      BY MaxDepthAssumption
    <2>2. ASSUME chain[j + 1] \in DOMAIN table.parent PROVE chain[j + 1] \in Above(table, pid)
      <3>1. chain[j + 1] # NoPid
        BY <2>2 DEF ProcessTable, NoPid
      <3>2. chain[j] \in DOMAIN table.parent /\ chain[j + 1] = table.parent[chain[j]]
        BY <1>1, <3>1 DEF UpFrom
      <3> QED
        BY <1>4, <2>2, <3>2, AboveOf
    <2> QED
      BY <2>1, <2>2
  <1>5. 0 .. MaxDepth \subseteq S
    <2> HIDE DEF S
    <2> QED
      BY <1>3, <1>4, UpTo, MaxDepthAssumption
  <1>6. chain[k] \in Above(table, pid)
    BY <1>2, <1>5
  <1> QED
    BY <1>6 DEF chain

(* A walk that found no application for as long as it went has passed a        *)
(* different process below each of them at every step.                         *)
LEMMA PassedBelow ==
    ASSUME NEW table, ProcessTable(table), NEW pid \in DOMAIN table.parent,
           NEW a \in Above(table, pid),
           \A j \in 0 .. (MaxDepth - 1) : PpidChain(table, pid)[j] # a
    PROVE  Cardinality({q \in Above(table, pid) : a \in Above(table, q) /\ q # a}) >= MaxDepth
  <1> DEFINE chain == PpidChain(table, pid)
             steps == 0 .. (MaxDepth - 1)
             B == {q \in Above(table, pid) : a \in Above(table, q) /\ q # a}
             f == [k \in steps |-> chain[k]]
  <1>1. \A j \in 0 .. MaxDepth : Climbs(table, pid, chain, a, j)
    BY Climbing, MaxDepthAssumption
  <1>2. \A j \in steps : chain[j] # a
    OBVIOUS
  <1> HIDE DEF chain
  <1>3. \A j \in steps : chain[j] \in B
    BY <1>1, <1>2, MaxDepthAssumption DEF Climbs
  <1>4. ASSUME NEW j \in steps, NEW i \in 0 .. (j - 1) PROVE chain[i] # chain[j]
    <2>1. i \in 0 .. MaxDepth /\ j \in 0 .. MaxDepth
      BY MaxDepthAssumption
    <2>2. chain[i + 1] = table.parent[chain[i]] /\ chain[j] \in Above(table, chain[i + 1])
      BY <1>1, <2>1 DEF Climbs
    <2>3. chain[i] \in DOMAIN table.parent
      BY <1>1, <2>1, AboveOf DEF Climbs
    <2>4. chain[i + 1] \in DOMAIN table.parent
      <3>1. i + 1 \in 0 .. MaxDepth
        BY MaxDepthAssumption
      <3> QED
        BY <1>1, <3>1, AboveOf DEF Climbs
    <2> QED
      BY <2>2, <2>3, <2>4 DEF ProcessTable
  <1>5. f \in [steps -> B] /\ \A i, j \in steps : f[i] = f[j] => i = j
    <2>1. \A i, j \in steps : i < j => chain[i] # chain[j]
      BY <1>4
    <2>2. \A i, j \in steps : chain[i] = chain[j] => i = j
      BY <2>1
    <2> HIDE DEF B, steps
    <2> QED
      BY <1>3, <2>2
  <1>6. IsFiniteSet(B)
    <2>1. B \subseteq DOMAIN table.parent
      BY AboveOf
    <2> HIDE DEF B
    <2> QED
      BY <2>1, FS_Subset DEF ProcessTable
  <1>7. Cardinality(steps) = MaxDepth
    BY FS_Interval, MaxDepthAssumption
  <1>8. Cardinality(steps) <= Cardinality(B)
    <2> HIDE DEF steps, B, f
    <2>1. f \in Injection(steps, B)
      BY <1>5 DEF Injection, IsInjective
    <2> QED
      BY <1>6, <2>1, FS_Injection
  <1>9. Cardinality(B) \in Nat
    <2> HIDE DEF B
    <2> QED
      BY <1>6, FS_CardinalityType
  <1> QED
    BY <1>7, <1>8, <1>9, MaxDepthAssumption

(* What gui_app_ancestor_pid() returns is the nearest application above the    *)
(* process it is given, and when it returns nothing there is none within       *)
(* max_depth steps, for every process of every table.                          *)
THEOREM WalkFindsNearest ==
    ASSUME NEW table, ProcessTable(table), NEW pid \in DOMAIN table.parent
    PROVE  IsNearest(table, pid, gui_app_ancestor_pid(table, pid))
  <1> DEFINE chain == PpidChain(table, pid)
             Found(k) == /\ chain[k] \in table.app
                         /\ \A j \in 0 .. (k - 1) :
                                chain[j] \notin table.app /\ table.parent[chain[j]] > 1
             steps == {k \in 0 .. (MaxDepth - 1) : Found(k)}
             found == gui_app_ancestor_pid(table, pid)
             apps == Above(table, pid) \cap table.app
             Below(a) == {q \in Above(table, pid) : a \in Above(table, q) /\ q # a}
  <1>1. found = IF steps = {} THEN NoPid ELSE chain[CHOOSE k \in steps : TRUE]
    BY DEF gui_app_ancestor_pid
  <1>2. NoPid \notin table.app
    BY DEF ProcessTable, NoPid
  <1>3. \A n \in 0 .. MaxDepth, a \in Above(table, pid) :
            (\A j \in 0 .. (n - 1) : chain[j] # a) =>
                \A j \in 0 .. n : Climbs(table, pid, chain, a, j)
    BY Climbing
  <1>4. (\A a \in apps : Cardinality(Below(a)) >= MaxDepth) => IsNearest(table, pid, NoPid)
    BY DEF IsNearest
  <1>5. \A p : p # NoPid /\ p \in apps /\ apps \subseteq Above(table, p) => IsNearest(table, pid, p)
    BY DEF IsNearest
  <1>6. CASE steps = {}
    <2>1. ASSUME NEW a \in apps PROVE Cardinality(Below(a)) >= MaxDepth
      <3> DEFINE S == {n \in 0 .. MaxDepth : \A j \in 0 .. (n - 1) : chain[j] \notin table.app}
      <3>1. 0 \in S
        BY MaxDepthAssumption
      <3>2. ASSUME NEW n \in 0 .. (MaxDepth - 1), n \in S PROVE n + 1 \in S
        <4>1. \A j \in 0 .. (n - 1) : chain[j] \notin table.app
          BY <3>2
        <4>2. n \in 0 .. MaxDepth
          BY MaxDepthAssumption
        <4>3. Climbs(table, pid, chain, a, n)
          <5>1. \A j \in 0 .. (n - 1) : chain[j] # a
            BY <2>1, <4>1
          <5> HIDE DEF chain
          <5> QED
            BY <1>3, <2>1, <4>2, <5>1
        <4>4. ~ Found(n)
          BY <1>6
        <4>5. chain[n] \notin table.app
          BY <4>1, <4>3, <4>4 DEF Climbs
        <4> HIDE DEF chain
        <4> QED
          BY <4>1, <4>5, MaxDepthAssumption
      <3>3. 0 .. MaxDepth \subseteq S
        <4> HIDE DEF S
        <4> QED
          BY <3>1, <3>2, UpTo, MaxDepthAssumption
      <3>4. \A j \in 0 .. (MaxDepth - 1) : chain[j] # a
        <4>1. MaxDepth \in S
          BY <3>3, MaxDepthAssumption
        <4> QED
          BY <2>1, <4>1
      <3> QED
        BY <2>1, <3>4, PassedBelow
    <2>2. found = NoPid
      BY <1>1, <1>6
    <2> QED
      BY <1>4, <2>1, <2>2
  <1>7. CASE steps # {}
    <2>1. PICK k \in steps : found = chain[k]
      <3> HIDE DEF steps, found, chain
      <3> QED
        BY <1>1, <1>7
    <2>2. Found(k) /\ k \in 0 .. (MaxDepth - 1)
      BY <2>1
    <2>3. ASSUME NEW a \in table.app, a \in Above(table, pid) PROVE Climbs(table, pid, chain, a, k)
      <3>1. k \in 0 .. MaxDepth /\ k \in 0 .. k
        BY <2>2, MaxDepthAssumption
      <3>2. \A j \in 0 .. (k - 1) : chain[j] # a
        BY <2>2, <2>3
      <3> HIDE DEF chain
      <3> QED
        BY <1>3, <2>3, <3>1, <3>2
    <2>4. chain[k] \in Above(table, pid)
      <3>1. k \in 0 .. MaxDepth
        BY <2>2, MaxDepthAssumption
      <3>2. chain[k] \in DOMAIN table.parent
        BY <2>2 DEF ProcessTable
      <3> QED
        BY <3>1, <3>2, ComesAbove
    <2>5. found \in apps /\ apps \subseteq Above(table, found)
      <3> HIDE DEF found, chain
      <3> QED
        BY <2>1, <2>2, <2>3, <2>4 DEF Climbs
    <2>6. found # NoPid
      BY <1>2, <2>1, <2>2
    <2> QED
      BY <1>5, <2>5, <2>6
  <1> QED
    BY <1>6, <1>7

(* And so what a press takes for the application that owns a terminal is the   *)
(* nearest one above the process on it, whatever the table of processes is.    *)
THEOREM DispatchOwnerIsNearest == Spec => []AncestorIsNearest
  <1>1. \A tty \in DOMAIN OnTty : OwnerIsNearest[tty]
    <2> SUFFICES ASSUME NEW tty \in DOMAIN OnTty PROVE OwnerIsNearest[tty]
      OBVIOUS
    <2>1. IsNearest(Processes, OnTty[tty], gui_app_ancestor_pid(Processes, OnTty[tty]))
      BY ProcessesAssumption, WalkFindsNearest
    <2>2. OwnerOf[tty] = gui_app_ancestor_pid(Processes, OnTty[tty])
      BY DEF OwnerOf
    <2>3. OwnerIsNearest[tty] = IsNearest(Processes, OnTty[tty], OwnerOf[tty])
      BY DEF OwnerIsNearest
    <2> QED
      BY <2>1, <2>2, <2>3
  <1>2. WalkIsNearest
    <2> SUFFICES ASSUME NEW table \in Tables, NEW p \in TreePids
                 PROVE  IsNearest(table, p, gui_app_ancestor_pid(table, p))
      BY DEF WalkIsNearest
    <2>1. ProcessTable(table) /\ DOMAIN table.parent = TreePids
      BY DEF Tables
    <2> QED
      BY <2>1, WalkFindsNearest
  <1>3. Init => AncestorIsNearest
    BY <1>1, <1>2 DEF AncestorIsNearest
  <1>4. AncestorIsNearest /\ [Next]_vars => AncestorIsNearest'
    BY <1>1, <1>2 DEF AncestorIsNearest
  <1> QED
    BY <1>3, <1>4, PTL DEF Spec

--------------------------------------------------------------------------------
(* No two places of a sequence hold the same.                                  *)
Distinct(q) == \A j, k \in 1 .. Len(q) : q[j] = q[k] => j = k

(* Joined, two such sequences with nothing in common make another one.         *)
LEMMA DistinctBoth ==
    ASSUME NEW S, NEW p \in Seq(S), NEW q \in Seq(S), Distinct(p), Distinct(q),
           Left(p) \cap Left(q) = {}
    PROVE  Distinct(p \o q)
  <1>1. /\ Len(p \o q) = Len(p) + Len(q)
        /\ \A k \in 1 .. Len(p \o q) :
              (p \o q)[k] = IF k <= Len(p) THEN p[k] ELSE q[k - Len(p)]
    OBVIOUS
  <1>2. Len(p) \in Nat /\ Len(q) \in Nat
    OBVIOUS
  <1> SUFFICES ASSUME NEW j \in 1 .. Len(p \o q), NEW k \in 1 .. Len(p \o q),
                      (p \o q)[j] = (p \o q)[k]
               PROVE  j = k
    BY DEF Distinct
  <1>3. CASE j <= Len(p) /\ k <= Len(p)
    <2>1. j \in 1 .. Len(p) /\ k \in 1 .. Len(p) /\ p[j] = p[k]
      BY <1>1, <1>2, <1>3
    <2> QED
      BY <2>1 DEF Distinct
  <1>4. CASE ~ (j <= Len(p)) /\ ~ (k <= Len(p))
    <2>1. j - Len(p) \in 1 .. Len(q) /\ k - Len(p) \in 1 .. Len(q)
      BY <1>1, <1>2, <1>4
    <2>2. q[j - Len(p)] = q[k - Len(p)]
      BY <1>1, <1>4
    <2>3. j - Len(p) = k - Len(p)
      BY <2>1, <2>2 DEF Distinct
    <2> QED
      BY <1>1, <1>2, <2>3
  <1>5. ASSUME NEW a \in 1 .. Len(p \o q), NEW b \in 1 .. Len(p \o q),
               a <= Len(p), ~ (b <= Len(p)), (p \o q)[a] = (p \o q)[b]
        PROVE  FALSE
    <2>1. a \in 1 .. Len(p) /\ b - Len(p) \in 1 .. Len(q)
      BY <1>1, <1>2, <1>5
    <2>2. p[a] = q[b - Len(p)]
      BY <1>1, <1>5
    <2>3. p[a] \in Left(p) /\ q[b - Len(p)] \in Left(q)
      BY <2>1 DEF Left
    <2> QED
      BY <2>2, <2>3
  <1> QED
    BY <1>3, <1>4, <1>5

(* No method is a candidate twice: the cached one is left out of its place in  *)
(* the fallback order.                                                         *)
LEMMA CandidatesOnce ==
    ASSUME NEW entries
    PROVE  Distinct(Candidates(entries)) /\ Len(Candidates(entries)) <= 7
  <1> DEFINE Takes(m) == entries[Argument[m]] # None
             cached == entries.method
             first == IF cached \in Method /\ Takes(cached) THEN <<cached>> ELSE <<>>
             Then(m) == IF m # cached /\ Takes(m) THEN <<m>> ELSE <<>>
             M == Method
             s1 == first \o Then("tmux")
             s2 == s1 \o Then("terminal")
             s3 == s2 \o Then("iterm")
             s4 == s3 \o Then("generic_gui")
             s5 == s4 \o Then("vscode")
             s6 == s5 \o Then("intellij")
             Short(q, n, T) == q \in Seq(M) /\ Distinct(q) /\ Len(q) <= n /\ Left(q) \subseteq T
  <1>1. Method = {"tmux", "terminal", "iterm", "generic_gui", "vscode", "intellij"}
    BY MethodsAre
  <1>2. Candidates(entries) = s6
    BY DEF Candidates
  <1>3. \A x : Distinct(<<x>>) /\ Len(<<x>>) = 1 /\ Left(<<x>>) = {x}
    BY LeftOfOne DEF Distinct
  <1>4. Distinct(<<>>) /\ Len(<<>>) = 0 /\ Left(<<>>) = {}
    BY DEF Distinct, Left
  <1>5. ASSUME NEW m \in Method PROVE Short(Then(m), 1, {m} \ {cached})
    <2>1. CASE m # cached /\ Takes(m)
      <3>1. Then(m) = <<m>>
        BY <2>1
      <3> QED
        BY <1>3, <2>1, <3>1
    <2>2. CASE ~ (m # cached /\ Takes(m))
      <3>1. Then(m) = <<>>
        BY <2>2
      <3> QED
        BY <1>4, <3>1
    <2> QED
      BY <2>1, <2>2
  <1>6. Short(first, 1, {cached})
    BY <1>3, <1>4
  <1>7. ASSUME NEW q, NEW n \in Nat, NEW T, Short(q, n, {cached} \cup T), NEW m \in Method, m \notin T
        PROVE  Short(q \o Then(m), n + 1, {cached} \cup (T \cup {m}))
    <2> DEFINE r == Then(m)
    <2>1. Short(r, 1, {m} \ {cached})
      BY <1>5
    <2> HIDE DEF r, M
    <2>2. q \in Seq(M) /\ r \in Seq(M) /\ Distinct(q) /\ Distinct(r)
          /\ Left(q) \subseteq {cached} \cup T /\ Left(r) \subseteq {m} \ {cached}
      BY <1>7, <2>1
    <2>3. Left(q) \cap Left(r) = {}
      BY <1>7, <2>2
    <2>4. q \o r \in Seq(M) /\ Left(q \o r) = Left(q) \cup Left(r)
      BY <2>2, LeftOfBoth
    <2>5. Distinct(q \o r)
      BY <2>2, <2>3, DistinctBoth
    <2>6. Len(q \o r) <= n + 1
      BY <1>7, <2>1, <2>2
    <2>7. Left(q \o r) \subseteq {cached} \cup (T \cup {m})
      BY <2>2, <2>4
    <2> QED
      BY <2>4, <2>5, <2>6, <2>7 DEF r
  <1> HIDE DEF first, Then, M, Takes, Short
  <1>8. Short(s1, 1 + 1, {cached} \cup ({} \cup {"tmux"}))
    <2>1. Short(first, 1, {cached} \cup {})
      BY <1>6
    <2> QED
      BY <1>1, <1>7, <2>1
  <1> DEFINE T1 == {} \cup {"tmux"}
             T2 == T1 \cup {"terminal"}
             T3 == T2 \cup {"iterm"}
             T4 == T3 \cup {"generic_gui"}
             T5 == T4 \cup {"vscode"}
             T6 == T5 \cup {"intellij"}
  <1>9. /\ "terminal" \notin T1 /\ "iterm" \notin T2 /\ "generic_gui" \notin T3
        /\ "vscode" \notin T4 /\ "intellij" \notin T5
    OBVIOUS
  <1>10. Short(s1, 2, {cached} \cup T1)
    BY <1>8
  <1> HIDE DEF s1, T1
  <1>11. Short(s2, 2 + 1, {cached} \cup T2)
    BY <1>1, <1>7, <1>9, <1>10
  <1>12. Short(s2, 3, {cached} \cup T2)
    BY <1>11
  <1> HIDE DEF s2, T2
  <1>13. Short(s3, 3 + 1, {cached} \cup T3)
    BY <1>1, <1>7, <1>9, <1>12
  <1>14. Short(s3, 4, {cached} \cup T3)
    BY <1>13
  <1> HIDE DEF s3, T3
  <1>15. Short(s4, 4 + 1, {cached} \cup T4)
    BY <1>1, <1>7, <1>9, <1>14
  <1>16. Short(s4, 5, {cached} \cup T4)
    BY <1>15
  <1> HIDE DEF s4, T4
  <1>17. Short(s5, 5 + 1, {cached} \cup T5)
    BY <1>1, <1>7, <1>9, <1>16
  <1>18. Short(s5, 6, {cached} \cup T5)
    BY <1>17
  <1> HIDE DEF s5, T5
  <1>19. Short(s6, 6 + 1, {cached} \cup T6)
    BY <1>1, <1>7, <1>9, <1>18
  <1> HIDE DEF s6, T6
  <1>20. Distinct(s6) /\ Len(s6) <= 6 + 1
    BY <1>19 DEF Short
  <1> QED
    BY <1>2, <1>20

--------------------------------------------------------------------------------
(* What the reader is at, and what it has yet to do of it.                     *)
ReaderTodo ==
    /\ reader.pc \in {"idle", "read", "try", "learn", "forget"}
    /\ reader.pc = "try" =>
          reader.todo \in Seq(Method) /\ Distinct(reader.todo) /\ Len(reader.todo) <= 7
    /\ reader.pc = "forget" => reader.todo \in Rest

BusyInv == Shape /\ ReaderTodo

(* The steps that the reader has left before it is back at the pad.            *)
StepsLeft(w) ==
    [idle |-> 0, learn |-> 1, forget |-> Len(w.todo), try |-> Len(w.todo) + 2, read |-> 10][w.pc]

(* A tail has one place less and still holds nothing twice, nor its head.      *)
LEMMA TailOfDistinct ==
    ASSUME NEW S, NEW q \in Seq(S), q # <<>>, Distinct(q)
    PROVE  Tail(q) \in Seq(S) /\ Distinct(Tail(q)) /\ Len(Tail(q)) = Len(q) - 1
           /\ Head(q) \notin Left(Tail(q))
  <1>1. /\ Head(q) = q[1] /\ Tail(q) \in Seq(S)
        /\ Len(q) \in Nat \ {0} /\ Len(Tail(q)) = Len(q) - 1
        /\ \A k \in 1 .. Len(Tail(q)) : Tail(q)[k] = q[k + 1]
    OBVIOUS
  <1>2. ASSUME NEW j \in 1 .. Len(Tail(q)), NEW k \in 1 .. Len(Tail(q)), Tail(q)[j] = Tail(q)[k]
        PROVE  j = k
    <2>1. j + 1 \in 1 .. Len(q) /\ k + 1 \in 1 .. Len(q) /\ q[j + 1] = q[k + 1]
      BY <1>1, <1>2
    <2>2. j + 1 = k + 1
      BY <2>1 DEF Distinct
    <2> QED
      BY <1>1, <2>2
  <1>3. ASSUME NEW k \in 1 .. Len(Tail(q)) PROVE Tail(q)[k] # Head(q)
    <2>1. k + 1 \in 1 .. Len(q) /\ 1 \in 1 .. Len(q) /\ k + 1 # 1
      BY <1>1
    <2>2. q[k + 1] # q[1]
      BY <2>1 DEF Distinct
    <2> QED
      BY <1>1, <2>2
  <1>4. Head(q) \notin Left(Tail(q))
    <2>1. \A x \in Left(Tail(q)) : \E k \in 1 .. Len(Tail(q)) : x = Tail(q)[k]
      BY DEF Left
    <2> QED
      BY <1>3, <2>1
  <1> QED
    BY <1>1, <1>2, <1>4 DEF Distinct

(* What is left of the four entries gets shorter.                              *)
LEMMA RestShrinks ==
    ASSUME NEW todo \in Rest
    PROVE  /\ Len(todo) \in 1 .. 4
           /\ Len(todo) # 1 => Tail(todo) \in Rest /\ Len(Tail(todo)) = Len(todo) - 1
  <1>1. Len(todo) \in 1 .. 4
    BY DEF Rest
  <1>2. Len(todo) # 1 => Tail(todo) \in Rest
    BY Popping
  <1>3. todo \in Seq(Entry)
    <2>1. /\ <<"pane", "tty", "project", "method">> \in Seq(Entry)
          /\ <<"tty", "project", "method">> \in Seq(Entry)
          /\ <<"project", "method">> \in Seq(Entry)
          /\ <<"method">> \in Seq(Entry)
      BY DEF Entry
    <2> QED
      BY <2>1 DEF Rest
  <1>4. Len(Tail(todo)) = Len(todo) - 1
    <2>1. todo # <<>>
      BY Popping
    <2> QED
      BY <1>1, <1>3, <2>1
  <1> QED
    BY <1>1, <1>2, <1>4

(* A step of the reader is one of its work and leaves less of it.              *)
LEMMA ReaderStepLeaves ==
    ASSUME BusyInv, ReaderStep
    PROVE  ReaderTodo' /\ StepsLeft(reader)' < StepsLeft(reader)
  <1> USE DEF BusyInv
  <1>1. CASE PressReads
    <2>1. ReaderMakes("try", reader.session, [known[reader.session] EXCEPT !.method = None],
                      Candidates(known[reader.session]))
      BY <1>1, ReaderMoves
    <2> DEFINE todo == Candidates(known[reader.session])
    <2>2. todo \in Seq(Method) /\ Distinct(todo) /\ Len(todo) <= 7
      BY CandidatesOnce, CandidatesAreComplete
    <2>3. Len(todo) \in Nat
      BY <2>2
    <2>4. reader.pc = "read"
      BY <1>1 DEF PressReads
    <2> HIDE DEF todo
    <2>5. reader'.pc = "try" /\ reader'.todo = todo
      BY <2>1 DEF ReaderMakes, todo
    <2> QED
      BY <2>2, <2>3, <2>4, <2>5 DEF ReaderTodo, StepsLeft
  <1>2. CASE TriedRaises
    <2>1. reader'.pc = "learn"
      BY <1>2, ReaderMoves DEF ReaderMakes
    <2>2. reader.pc = "try" /\ Len(reader.todo) \in Nat
      BY <1>2 DEF TriedRaises, Trying, ReaderTodo
    <2> QED
      BY <2>1, <2>2 DEF ReaderTodo, StepsLeft
  <1>3. CASE TriedMisses \/ TriedFails
    <2>1. reader'.pc = "try" /\ reader'.todo = Tail(reader.todo)
      BY <1>3, ReaderMoves DEF ReaderMakes
    <2>2. reader.pc = "try" /\ reader.todo # <<>>
      BY <1>3 DEF TriedMisses, TriedFails, Trying
    <2>3. reader.todo \in Seq(Method) /\ Distinct(reader.todo) /\ Len(reader.todo) <= 7
      BY <2>2 DEF ReaderTodo
    <2>4. Tail(reader.todo) \in Seq(Method) /\ Distinct(Tail(reader.todo))
          /\ Len(Tail(reader.todo)) = Len(reader.todo) - 1
      BY <2>2, <2>3, TailOfDistinct
    <2>5. Len(reader.todo) \in Nat
      BY <2>3
    <2>6. ReaderTodo'
      BY <2>1, <2>3, <2>4, <2>5 DEF ReaderTodo
    <2> QED
      BY <2>1, <2>2, <2>4, <2>5, <2>6 DEF StepsLeft
  <1>4. CASE PressGivesUp
    <2>1. reader' = Idle /\ Idle.pc = "idle" /\ reader.pc = "try"
      BY <1>4, ReaderMoves, WorkParts DEF PressGivesUp
    <2>2. Len(reader.todo) \in Nat
      BY <2>1 DEF ReaderTodo
    <2> QED
      BY <2>1, <2>2 DEF ReaderTodo, StepsLeft
  <1>5. CASE PressLearns
    <2>1. reader' = Idle /\ Idle.pc = "idle" /\ reader.pc = "learn"
      BY <1>5, ReaderMoves, WorkParts DEF PressLearns
    <2> QED
      BY <2>1 DEF ReaderTodo, StepsLeft
  <1>6. CASE ReaderForgets
    <2>1. reader.pc = "forget" /\ reader.todo \in Rest
      BY <1>6 DEF ReaderForgets, ReaderTodo
    <2>2. Len(reader.todo) \in 1 .. 4
      BY <2>1, RestShrinks
    <2>3. CASE Len(reader.todo) = 1
      <3>1. reader' = Idle /\ Idle.pc = "idle"
        BY <1>6, <2>3, ReaderMoves, WorkParts
      <3> QED
        BY <2>1, <2>3, <3>1 DEF ReaderTodo, StepsLeft
    <2>4. CASE Len(reader.todo) # 1
      <3>1. reader'.pc = "forget" /\ reader'.todo = Tail(reader.todo)
        BY <1>6, <2>4, ReaderMoves DEF ReaderMakes
      <3>2. Tail(reader.todo) \in Rest /\ Len(Tail(reader.todo)) = Len(reader.todo) - 1
        BY <2>1, <2>4, RestShrinks
      <3> QED
        BY <2>1, <2>2, <3>1, <3>2 DEF ReaderTodo, StepsLeft
    <2> QED
      BY <2>3, <2>4
  <1> QED
    BY <1>1, <1>2, <1>3, <1>4, <1>5, <1>6 DEF ReaderStep

(* Other threads, the user's windows and the handlers leave the reader alone;  *)
(* a key only finds it idle.                                                   *)
LEMMA OthersLeaveReader ==
    ASSUME BusyInv, [Next]_vars, ~ ReaderStep
    PROVE  ReaderTodo' /\ (reader.pc # "idle" => reader' = reader)
  <1> USE DEF BusyInv
  <1>1. CASE reader' = reader
    BY <1>1 DEF ReaderTodo
  <1>2. ASSUME NEW i \in Slots, KeyTap(i) \/ KeyHeld(i)
        PROVE  reader.pc = "idle" /\ ReaderTodo'
    <2>1. reader.pc = "idle"
      BY <1>2 DEF KeyTap, KeyHeld
    <2>2. reader'.pc = "read" \/ (reader'.pc = "forget" /\ reader'.todo = Entries)
      BY <1>2, KeysMove DEF ReaderMakes
    <2> QED
      BY <2>1, <2>2, EntriesAreAll DEF ReaderTodo
  <1>3. \/ LoopStep
        \/ \E t \in Warmer : WarmerStep(t)
        \/ \E w \in Window : DesktopChanges(w)
        \/ UNCHANGED vars
        \/ \E i \in Slots : KeyTap(i) \/ KeyHeld(i)
    BY DEF Next
  <1> QED
    BY <1>1, <1>2, <1>3, QuietReader

(* The reader has work that fits what it is at, in every reachable state.      *)
LEMMA ReaderBusy == Spec => []BusyInv
  <1>1. Init => BusyInv
    <2> SUFFICES ASSUME Init PROVE BusyInv
      OBVIOUS
    <2>1. reader.pc = "idle"
      BY WorkParts DEF Init, reader, Threads
    <2> QED
      BY <2>1, ShapeInit DEF BusyInv, ReaderTodo
  <1>2. BusyInv /\ [Next]_vars => BusyInv'
    BY ReaderStepLeaves, OthersLeaveReader, ShapeNext DEF BusyInv
  <1> QED
    BY <1>1, <1>2, PTL DEF Spec

(* Whatever it is at, the reader is at most ten steps of its own from reading  *)
(* the pad again, and it is back when it has none left.                        *)
ReaderNearlyBack == StepsLeft(reader) \in 0 .. 10 /\ (StepsLeft(reader) = 0 <=> reader.pc = "idle")

(* Each of its steps brings it nearer and nothing else takes it further away:  *)
(* no handler, eviction, warm-up, key or window gives a busy reader more to do.*)
ReaderGetsNearer ==
    [][reader.pc # "idle" =>
          IF ReaderStep THEN StepsLeft(reader)' < StepsLeft(reader) ELSE reader' = reader]_vars

(* DispatchEnds is this and that a busy reader takes its steps.                *)
THEOREM ReaderComesBack == Spec => []ReaderNearlyBack /\ ReaderGetsNearer
  <1>1. BusyInv => ReaderNearlyBack
    <2> SUFFICES ASSUME BusyInv PROVE ReaderNearlyBack
      OBVIOUS
    <2>1. ASSUME reader.pc = "forget" PROVE ReaderNearlyBack
      <3>1. PICK n \in 1 .. 4 : n = Len(reader.todo)
        BY <2>1, RestShrinks DEF BusyInv, ReaderTodo
      <3>2. StepsLeft(reader) = n
        BY <2>1, <3>1 DEF StepsLeft
      <3> QED
        BY <2>1, <3>2 DEF ReaderNearlyBack
    <2>2. ASSUME reader.pc = "try" PROVE ReaderNearlyBack
      <3>1. reader.todo \in Seq(Method) /\ Len(reader.todo) <= 7
        BY <2>2 DEF BusyInv, ReaderTodo
      <3>2. PICK n \in Nat : n = Len(reader.todo)
        BY <3>1
      <3>3. StepsLeft(reader) = n + 2 /\ n <= 7
        BY <2>2, <3>1, <3>2 DEF StepsLeft
      <3> QED
        BY <2>2, <3>3 DEF ReaderNearlyBack
    <2>3. CASE reader.pc \in {"idle", "read", "learn"}
      BY <2>3 DEF ReaderNearlyBack, StepsLeft
    <2> QED
      BY <2>1, <2>2, <2>3 DEF BusyInv, ReaderTodo
  <1>2. BusyInv /\ [Next]_vars =>
            [reader.pc # "idle" =>
                IF ReaderStep THEN StepsLeft(reader)' < StepsLeft(reader) ELSE reader' = reader]_vars
    BY ReaderStepLeaves, OthersLeaveReader
  <1> QED
    BY <1>1, <1>2, ReaderBusy, PTL DEF Spec, ReaderGetsNearer

(* A press tries no method a second time, the cached one included: what missed *)
(* or failed is gone from what it has yet to try.                              *)
TriesOnce == [][TriedMisses \/ TriedFails => Tried \notin Left(reader'.todo)]_vars

(* The candidates are built without a repetition, and only get fewer.          *)
THEOREM PressTriesOnce == Spec => TriesOnce
  <1>1. BusyInv /\ [Next]_vars =>
            [TriedMisses \/ TriedFails => Tried \notin Left(reader'.todo)]_vars
    <2> SUFFICES ASSUME BusyInv, TriedMisses \/ TriedFails
                 PROVE  Tried \notin Left(reader'.todo)
      OBVIOUS
    <2>1. reader'.todo = Tail(reader.todo)
      BY ReaderMoves DEF BusyInv, ReaderMakes
    <2>2. reader.todo # <<>> /\ reader.todo \in Seq(Method) /\ Distinct(reader.todo)
      BY DEF TriedMisses, TriedFails, Trying, BusyInv, ReaderTodo
    <2> QED
      BY <2>1, <2>2, TailOfDistinct DEF Tried
  <1> QED
    BY <1>1, ReaderBusy, PTL DEF Spec, TriesOnce

--------------------------------------------------------------------------------
(* Every step of dispatching is an operation of the slot manager or leaves its *)
(* two tables alone.                                                           *)
LEMMA DispatchStepIsSlotStep == [Next]_vars => [SlotNext]_slotVars
  <1> SUFFICES ASSUME [Next]_vars PROVE [SlotNext]_slotVars
    OBVIOUS
  <1>1. ASSUME NEW s \in Session, Seed(s) \/ HookSessionStart(s) \/ HookSessionEnd(s) \/ HookOther(s)
        PROVE  SlotNext
    BY <1>1 DEF Seed, HookSessionStart, HookSessionEnd, HookOther, SlotNext
  <1>2. ASSUME NEW i \in Slots, KeyHeld(i) PROVE SlotNext
    BY <1>2 DEF KeyHeld, SlotNext
  <1>3. CASE LoopStore \/ LoopBackfill \/ LoopSpawn
    BY <1>3 DEF LoopStore, LoopBackfill, LoopSpawn
  <1>4. CASE ReaderStep
    BY <1>4 DEF ReaderStep, PressReads, TriedRaises, TriedMisses, TriedFails, PressGivesUp,
                PressLearns, ReaderForgets
  <1>5. ASSUME NEW t \in Warmer, WarmerStep(t) PROVE UNCHANGED slotVars
    BY <1>5 DEF WarmerStep, ProbeFinds, ProbeGivesUp, WarmLearns
  <1>6. ASSUME NEW i \in Slots, KeyTap(i) PROVE UNCHANGED slotVars
    BY <1>6 DEF KeyTap
  <1>7. ASSUME NEW w \in Window, DesktopChanges(w) PROVE UNCHANGED slotVars
    BY <1>7 DEF DesktopChanges, daemonVars
  <1> QED
    BY <1>1, <1>2, <1>3, <1>4, <1>5, <1>6, <1>7 DEF Next, LoopStep, vars, daemonVars

(* Dispatching, too, implements the slot manager, and so the directory: with   *)
(* seeding, presses and warm-ups in any order no session is moved and no slot  *)
(* is handed over.                                                             *)
THEOREM DispatchImplementsSlots == Spec => SlotSpec
  <1>1. Init => SlotInit
    BY DEF Init
  <1> QED
    BY <1>1, DispatchStepIsSlotStep, PTL DEF Spec, SlotSpec

(* ImplementsDirectory of dispatching.                                         *)
THEOREM DispatchImplementsDirectory == Spec => ImplementsDirectory
  BY DispatchImplementsSlots, SlotManagerImplementsDirectory
====
