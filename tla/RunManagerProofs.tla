--------------------------- MODULE RunManagerProofs ---------------------------
(***************************************************************************)
(* What holds of RunManager for any number of calls and any behaviour of   *)
(* the environment.  The safety invariants of RunManager are not inductive *)
(* by themselves: that Exit is published once rests on every child having  *)
(* one owner, the map, a cleanup task or a stop_run call.                  *)
(***************************************************************************)
EXTENDS RunManager, TLAPS

(* A child is stored once its start_run call has passed the insert. *)
Stored(c) == start[c] \in {"inserted", "returned"}

(* The map owns the child it holds. *)
MapOwns ==
  \A c \in Runs : processes = c =>
    /\ Stored(c)
    /\ exits[c] = 0
    /\ \A r \in Runs : cleanupChild[r] # c
    /\ \A s \in Stops : stopChild[s] # c

(* A cleanup task owns the child it took. *)
CleanupOwns ==
  \A r \in Runs :
    /\ cleanup[r] = "waiting" => cleanupChild[r] # None
    /\ cleanupChild[r] # None =>
         /\ cleanup[r] = "waiting"
         /\ Stored(cleanupChild[r])
         /\ exits[cleanupChild[r]] = 0
         /\ \A q \in Runs : cleanupChild[q] = cleanupChild[r] => q = r
         /\ \A s \in Stops : stopChild[s] # cleanupChild[r]

(* A stop_run call, and then its reaper, owns the child it took. *)
StopOwns ==
  \A s \in Stops :
    /\ stop[s] \in {"taken", "killing", "reaping"} => stopChild[s] # None
    /\ stopChild[s] # None =>
         /\ stop[s] \in {"taken", "killing", "reaping"}
         /\ Stored(stopChild[s])
         /\ exits[stopChild[s]] = 0
         /\ \A t \in Stops : stopChild[t] = stopChild[s] => t = s

(* The cleanup task of a run exists once its start_run call has returned. *)
CleanupSpawned ==
  \A r \in Runs : cleanup[r] # "none" => start[r] = "returned"

(* Exit is published once, for a child that was stored and has died. *)
ExitSettled ==
  \A c \in Runs : exits[c] > 0 => exits[c] = 1 /\ Stored(c) /\ proc[c] = "dead"

(* The lock is held by a send_stdin call that found an entry. *)
GuardHeld ==
  /\ \A w \in Writes : write[w] = "writing" <=> guard = w
  /\ guard # None => processes # None

IInv ==
  /\ TypeOK
  /\ MapOwns
  /\ CleanupOwns
  /\ StopOwns
  /\ CleanupSpawned
  /\ ExitSettled
  /\ GuardHeld
  /\ EntryIsWatched

-----------------------------------------------------------------------------
LEMMA InitIInv == Init => IInv
BY CallAssumption
DEF Init, IInv, TypeOK, MapOwns, CleanupOwns, StopOwns, ExitSettled, GuardHeld,
    CleanupSpawned, EntryIsWatched, Stored, StartStates, ProcStates, CleanupStates, StopStates,
    WriteStates

LEMMA StepTypeOK == IInv /\ [Next]_vars => TypeOK'
<1>. SUFFICES ASSUME TypeOK, CleanupOwns, StopOwns, GuardHeld, [Next]_vars
              PROVE  TypeOK'
  BY DEF IInv
<1>. USE CallAssumption DEF TypeOK, StartStates, ProcStates, CleanupStates,
     StopStates, WriteStates
<1>1. ASSUME NEW r \in Runs, StartCheck(r) PROVE TypeOK'
  BY <1>1 DEF StartCheck, ShardFree
<1>2. ASSUME NEW r \in Runs, StartSpawn(r) PROVE TypeOK'
  <2>1. /\ start' \in [Runs -> StartStates]
        /\ proc' \in [Runs -> ProcStates]
        /\ pipes' \in [Runs -> BOOLEAN]
    BY <1>2 DEF StartSpawn
  <2>. QED
    BY <1>2, <2>1 DEF StartSpawn
<1>3. ASSUME NEW r \in Runs, StartInsert(r) PROVE TypeOK'
  BY <1>3 DEF StartInsert, ShardFree
<1>4. ASSUME NEW r \in Runs, StartReturn(r) PROVE TypeOK'
  BY <1>4 DEF StartReturn
<1>5. ASSUME NEW r \in Runs, CleanupTake(r) PROVE TypeOK'
  BY <1>5 DEF CleanupTake, ChildLeft, RemovedEntry, ShardFree
<1>6. ASSUME NEW r \in Runs, CleanupExit(r) PROVE TypeOK'
  <2>1. cleanupChild[r] \in Runs
    BY <1>6 DEF CleanupExit, CleanupOwns
  <2>2. exits' \in [Runs -> Nat]
    BY <1>6, <2>1 DEF CleanupExit, Publish
  <2>. QED
    BY <1>6, <2>2 DEF CleanupExit
<1>7. ASSUME NEW s \in Stops, StopCall(s) PROVE TypeOK'
  BY <1>7 DEF StopCall
<1>8. ASSUME NEW s \in Stops, StopTake(s) PROVE TypeOK'
  BY <1>8 DEF StopTake, RemovedEntry, ShardFree
<1>9. ASSUME NEW s \in Stops, StopSignal(s) PROVE TypeOK'
  <2>1. killed' \in [Runs -> BOOLEAN]
    <3>1. \/ killed' = [killed EXCEPT ![stopChild[s]] = TRUE]
          \/ killed' = killed
      BY <1>9 DEF StopSignal
    <3>. QED
      BY <3>1
  <2>2. stop' \in [Stops -> StopStates]
    <3>1. \/ stop' = [stop EXCEPT ![s] = "killing"]
          \/ stop' = [stop EXCEPT ![s] = "reaping"]
      BY <1>9 DEF StopSignal
    <3>. QED
      BY <3>1
  <2>. QED
    BY <1>9, <2>1, <2>2 DEF StopSignal
<1>10. ASSUME NEW s \in Stops, StopKilled(s) PROVE TypeOK'
  BY <1>10 DEF StopKilled, ChildReaped
<1>11. ASSUME NEW s \in Stops, StopCancel(s) PROVE TypeOK'
  BY <1>11 DEF StopCancel
<1>12. ASSUME NEW s \in Stops, StopReap(s) PROVE TypeOK'
  <2>1. stopChild[s] \in Runs
    BY <1>12 DEF StopReap, StopOwns
  <2>2. exits' \in [Runs -> Nat]
    BY <1>12, <2>1 DEF StopReap, Publish
  <2>. QED
    BY <1>12, <2>2 DEF StopReap
<1>13. ASSUME NEW w \in Writes, WriteBegin(w) PROVE TypeOK'
  BY <1>13 DEF WriteBegin, ShardFree
<1>14. ASSUME NEW w \in Writes, WriteEnd(w) PROVE TypeOK'
  BY <1>14 DEF WriteEnd, PipeHasRoom, GuardHeld
<1>15. ASSUME NEW w \in Writes, WriteCancel(w) PROVE TypeOK'
  BY <1>15 DEF WriteCancel
<1>16. ASSUME NEW r \in Runs, ProcDies(r) PROVE TypeOK'
  BY <1>16 DEF ProcDies
<1>17. ASSUME NEW r \in Runs, PipesClose(r) PROVE TypeOK'
  BY <1>17 DEF PipesClose
<1>18. ASSUME NEW r \in Runs, ProcReads(r) PROVE TypeOK'
  BY <1>18 DEF ProcReads
<1>19. CASE UNCHANGED vars
  BY <1>19 DEF vars
<1>. QED
  BY <1>1, <1>2, <1>3, <1>4, <1>5, <1>6, <1>7, <1>8, <1>9, <1>10, <1>11, <1>12, <1>13, <1>14, <1>15, <1>16, <1>17, <1>18, <1>19
     DEF Next, StartStep, CleanupStep, StopStep, ProcStep

LEMMA StepGuardHeld == IInv /\ [Next]_vars => GuardHeld'
<1>. SUFFICES ASSUME IInv, [Next]_vars PROVE GuardHeld'
  OBVIOUS
<1>. USE CallAssumption DEF IInv, TypeOK, GuardHeld
<1>1. ASSUME NEW r \in Runs, StartCheck(r) PROVE GuardHeld'
  BY <1>1 DEF StartCheck, ShardFree
<1>2. ASSUME NEW r \in Runs, StartSpawn(r) PROVE GuardHeld'
  BY <1>2 DEF StartSpawn
<1>3. ASSUME NEW r \in Runs, StartInsert(r) PROVE GuardHeld'
  BY <1>3 DEF StartInsert, ShardFree
<1>4. ASSUME NEW r \in Runs, StartReturn(r) PROVE GuardHeld'
  BY <1>4 DEF StartReturn
<1>5. ASSUME NEW r \in Runs, CleanupTake(r) PROVE GuardHeld'
  BY <1>5 DEF CleanupTake, ChildLeft, RemovedEntry, ShardFree
<1>6. ASSUME NEW r \in Runs, CleanupExit(r) PROVE GuardHeld'
  BY <1>6 DEF CleanupExit, Publish, ChildReaped
<1>7. ASSUME NEW s \in Stops, StopCall(s) PROVE GuardHeld'
  BY <1>7 DEF StopCall
<1>8. ASSUME NEW s \in Stops, StopTake(s) PROVE GuardHeld'
  BY <1>8 DEF StopTake, RemovedEntry, ShardFree
<1>9. ASSUME NEW s \in Stops, StopSignal(s) PROVE GuardHeld'
  BY <1>9 DEF StopSignal
<1>10. ASSUME NEW s \in Stops, StopKilled(s) PROVE GuardHeld'
  BY <1>10 DEF StopKilled, ChildReaped
<1>11. ASSUME NEW s \in Stops, StopCancel(s) PROVE GuardHeld'
  BY <1>11 DEF StopCancel
<1>12. ASSUME NEW s \in Stops, StopReap(s) PROVE GuardHeld'
  BY <1>12 DEF StopReap, Publish, ChildReaped
<1>13. ASSUME NEW w \in Writes, WriteBegin(w) PROVE GuardHeld'
  BY <1>13 DEF WriteBegin, ShardFree
<1>14. ASSUME NEW w \in Writes, WriteEnd(w) PROVE GuardHeld'
  BY <1>14 DEF WriteEnd, PipeHasRoom
<1>15. ASSUME NEW w \in Writes, WriteCancel(w) PROVE GuardHeld'
  BY <1>15 DEF WriteCancel
<1>16. ASSUME NEW r \in Runs, ProcDies(r) PROVE GuardHeld'
  BY <1>16 DEF ProcDies
<1>17. ASSUME NEW r \in Runs, PipesClose(r) PROVE GuardHeld'
  BY <1>17 DEF PipesClose
<1>18. ASSUME NEW r \in Runs, ProcReads(r) PROVE GuardHeld'
  BY <1>18 DEF ProcReads
<1>19. CASE UNCHANGED vars
  BY <1>19 DEF vars
<1>. QED
  BY <1>1, <1>2, <1>3, <1>4, <1>5, <1>6, <1>7, <1>8, <1>9, <1>10, <1>11, <1>12, <1>13, <1>14, <1>15, <1>16, <1>17, <1>18, <1>19
     DEF Next, StartStep, CleanupStep, StopStep, ProcStep

LEMMA StepMapOwns == IInv /\ [Next]_vars => MapOwns'
<1>. SUFFICES ASSUME IInv, [Next]_vars PROVE MapOwns'
  OBVIOUS
<1>. USE CallAssumption DEF IInv, TypeOK, MapOwns, CleanupOwns, StopOwns, ExitSettled, Stored
<1>1. ASSUME NEW r \in Runs, StartCheck(r) PROVE MapOwns'
  BY <1>1 DEF StartCheck, ShardFree
<1>2. ASSUME NEW r \in Runs, StartSpawn(r) PROVE MapOwns'
  BY <1>2 DEF StartSpawn
<1>3. ASSUME NEW r \in Runs, StartInsert(r) PROVE MapOwns'
  BY <1>3 DEF StartInsert, ShardFree
<1>4. ASSUME NEW r \in Runs, StartReturn(r) PROVE MapOwns'
  BY <1>4 DEF StartReturn
<1>5. ASSUME NEW r \in Runs, CleanupTake(r) PROVE MapOwns'
  BY <1>5 DEF CleanupTake, ChildLeft, RemovedEntry, ShardFree
<1>6. ASSUME NEW r \in Runs, CleanupExit(r) PROVE MapOwns'
  BY <1>6 DEF CleanupExit, Publish, ChildReaped
<1>7. ASSUME NEW s \in Stops, StopCall(s) PROVE MapOwns'
  BY <1>7 DEF StopCall
<1>8. ASSUME NEW s \in Stops, StopTake(s) PROVE MapOwns'
  BY <1>8 DEF StopTake, RemovedEntry, ShardFree
<1>9. ASSUME NEW s \in Stops, StopSignal(s) PROVE MapOwns'
  BY <1>9 DEF StopSignal
<1>10. ASSUME NEW s \in Stops, StopKilled(s) PROVE MapOwns'
  BY <1>10 DEF StopKilled, ChildReaped
<1>11. ASSUME NEW s \in Stops, StopCancel(s) PROVE MapOwns'
  BY <1>11 DEF StopCancel
<1>12. ASSUME NEW s \in Stops, StopReap(s) PROVE MapOwns'
  BY <1>12 DEF StopReap, Publish, ChildReaped
<1>13. ASSUME NEW w \in Writes, WriteBegin(w) PROVE MapOwns'
  BY <1>13 DEF WriteBegin, ShardFree
<1>14. ASSUME NEW w \in Writes, WriteEnd(w) PROVE MapOwns'
  BY <1>14 DEF WriteEnd, PipeHasRoom
<1>15. ASSUME NEW w \in Writes, WriteCancel(w) PROVE MapOwns'
  BY <1>15 DEF WriteCancel
<1>16. ASSUME NEW r \in Runs, ProcDies(r) PROVE MapOwns'
  BY <1>16 DEF ProcDies
<1>17. ASSUME NEW r \in Runs, PipesClose(r) PROVE MapOwns'
  BY <1>17 DEF PipesClose
<1>18. ASSUME NEW r \in Runs, ProcReads(r) PROVE MapOwns'
  BY <1>18 DEF ProcReads
<1>19. CASE UNCHANGED vars
  BY <1>19 DEF vars
<1>. QED
  BY <1>1, <1>2, <1>3, <1>4, <1>5, <1>6, <1>7, <1>8, <1>9, <1>10, <1>11, <1>12, <1>13, <1>14, <1>15, <1>16, <1>17, <1>18, <1>19
     DEF Next, StartStep, CleanupStep, StopStep, ProcStep

LEMMA StepCleanupSpawned == IInv /\ [Next]_vars => CleanupSpawned'
<1>. SUFFICES ASSUME IInv, [Next]_vars PROVE CleanupSpawned'
  OBVIOUS
<1>. USE CallAssumption DEF IInv, TypeOK, CleanupSpawned
<1>1. ASSUME NEW r \in Runs, StartCheck(r) PROVE CleanupSpawned'
  BY <1>1 DEF StartCheck, ShardFree
<1>2. ASSUME NEW r \in Runs, StartSpawn(r) PROVE CleanupSpawned'
  BY <1>2 DEF StartSpawn
<1>3. ASSUME NEW r \in Runs, StartInsert(r) PROVE CleanupSpawned'
  BY <1>3 DEF StartInsert, ShardFree
<1>4. ASSUME NEW r \in Runs, StartReturn(r) PROVE CleanupSpawned'
  BY <1>4 DEF StartReturn
<1>5. ASSUME NEW r \in Runs, CleanupTake(r) PROVE CleanupSpawned'
  BY <1>5 DEF CleanupTake, ChildLeft, RemovedEntry, ShardFree
<1>6. ASSUME NEW r \in Runs, CleanupExit(r) PROVE CleanupSpawned'
  BY <1>6 DEF CleanupExit, Publish, ChildReaped
<1>7. ASSUME NEW s \in Stops, StopCall(s) PROVE CleanupSpawned'
  BY <1>7 DEF StopCall
<1>8. ASSUME NEW s \in Stops, StopTake(s) PROVE CleanupSpawned'
  BY <1>8 DEF StopTake, RemovedEntry, ShardFree
<1>9. ASSUME NEW s \in Stops, StopSignal(s) PROVE CleanupSpawned'
  BY <1>9 DEF StopSignal
<1>10. ASSUME NEW s \in Stops, StopKilled(s) PROVE CleanupSpawned'
  BY <1>10 DEF StopKilled, ChildReaped
<1>11. ASSUME NEW s \in Stops, StopCancel(s) PROVE CleanupSpawned'
  BY <1>11 DEF StopCancel
<1>12. ASSUME NEW s \in Stops, StopReap(s) PROVE CleanupSpawned'
  BY <1>12 DEF StopReap, Publish, ChildReaped
<1>13. ASSUME NEW w \in Writes, WriteBegin(w) PROVE CleanupSpawned'
  BY <1>13 DEF WriteBegin, ShardFree
<1>14. ASSUME NEW w \in Writes, WriteEnd(w) PROVE CleanupSpawned'
  BY <1>14 DEF WriteEnd, PipeHasRoom
<1>15. ASSUME NEW w \in Writes, WriteCancel(w) PROVE CleanupSpawned'
  BY <1>15 DEF WriteCancel
<1>16. ASSUME NEW r \in Runs, ProcDies(r) PROVE CleanupSpawned'
  BY <1>16 DEF ProcDies
<1>17. ASSUME NEW r \in Runs, PipesClose(r) PROVE CleanupSpawned'
  BY <1>17 DEF PipesClose
<1>18. ASSUME NEW r \in Runs, ProcReads(r) PROVE CleanupSpawned'
  BY <1>18 DEF ProcReads
<1>19. CASE UNCHANGED vars
  BY <1>19 DEF vars
<1>. QED
  BY <1>1, <1>2, <1>3, <1>4, <1>5, <1>6, <1>7, <1>8, <1>9, <1>10, <1>11, <1>12, <1>13, <1>14, <1>15, <1>16, <1>17, <1>18, <1>19
     DEF Next, StartStep, CleanupStep, StopStep, ProcStep

LEMMA StepCleanupOwns == IInv /\ [Next]_vars => CleanupOwns'
<1>. SUFFICES ASSUME IInv, [Next]_vars PROVE CleanupOwns'
  OBVIOUS
<1>. USE CallAssumption DEF IInv, TypeOK, MapOwns, CleanupOwns, StopOwns,
     CleanupSpawned, Stored
<1>1. ASSUME NEW r \in Runs, StartCheck(r) PROVE CleanupOwns'
  BY <1>1 DEF StartCheck, ShardFree
<1>2. ASSUME NEW r \in Runs, StartSpawn(r) PROVE CleanupOwns'
  BY <1>2 DEF StartSpawn
<1>3. ASSUME NEW r \in Runs, StartInsert(r) PROVE CleanupOwns'
  <2>1. \A q \in Runs : Stored(q) => Stored(q)'
    BY <1>3 DEF StartInsert
  <2>2. UNCHANGED <<cleanup, cleanupChild, stopChild, exits>>
    BY <1>3 DEF StartInsert
  <2>3. \A q \in Runs : cleanupChild[q] # None => cleanupChild[q] \in Runs
    OBVIOUS
  <2>. HIDE DEF Stored, TypeOK, MapOwns, StopOwns
  <2>. QED
    BY <2>1, <2>2, <2>3
<1>4. ASSUME NEW r \in Runs, StartReturn(r) PROVE CleanupOwns'
  BY <1>4 DEF StartReturn
<1>5. ASSUME NEW r \in Runs, CleanupTake(r) PROVE CleanupOwns'
  BY <1>5 DEF CleanupTake, ChildLeft, RemovedEntry, ShardFree
<1>6. ASSUME NEW r \in Runs, CleanupExit(r) PROVE CleanupOwns'
  BY <1>6 DEF CleanupExit, Publish, ChildReaped
<1>7. ASSUME NEW s \in Stops, StopCall(s) PROVE CleanupOwns'
  BY <1>7 DEF StopCall
<1>8. ASSUME NEW s \in Stops, StopTake(s) PROVE CleanupOwns'
  BY <1>8 DEF StopTake, RemovedEntry, ShardFree
<1>9. ASSUME NEW s \in Stops, StopSignal(s) PROVE CleanupOwns'
  BY <1>9 DEF StopSignal
<1>10. ASSUME NEW s \in Stops, StopKilled(s) PROVE CleanupOwns'
  BY <1>10 DEF StopKilled, ChildReaped
<1>11. ASSUME NEW s \in Stops, StopCancel(s) PROVE CleanupOwns'
  BY <1>11 DEF StopCancel
<1>12. ASSUME NEW s \in Stops, StopReap(s) PROVE CleanupOwns'
  BY <1>12 DEF StopReap, Publish, ChildReaped
<1>13. ASSUME NEW w \in Writes, WriteBegin(w) PROVE CleanupOwns'
  BY <1>13 DEF WriteBegin, ShardFree
<1>14. ASSUME NEW w \in Writes, WriteEnd(w) PROVE CleanupOwns'
  BY <1>14 DEF WriteEnd, PipeHasRoom
<1>15. ASSUME NEW w \in Writes, WriteCancel(w) PROVE CleanupOwns'
  BY <1>15 DEF WriteCancel
<1>16. ASSUME NEW r \in Runs, ProcDies(r) PROVE CleanupOwns'
  BY <1>16 DEF ProcDies
<1>17. ASSUME NEW r \in Runs, PipesClose(r) PROVE CleanupOwns'
  BY <1>17 DEF PipesClose
<1>18. ASSUME NEW r \in Runs, ProcReads(r) PROVE CleanupOwns'
  BY <1>18 DEF ProcReads
<1>19. CASE UNCHANGED vars
  BY <1>19 DEF vars
<1>. QED
  BY <1>1, <1>2, <1>3, <1>4, <1>5, <1>6, <1>7, <1>8, <1>9, <1>10, <1>11, <1>12, <1>13, <1>14, <1>15, <1>16, <1>17, <1>18, <1>19
     DEF Next, StartStep, CleanupStep, StopStep, ProcStep

LEMMA StepStopOwns == IInv /\ [Next]_vars => StopOwns'
<1>. SUFFICES ASSUME IInv, [Next]_vars PROVE StopOwns'
  OBVIOUS
<1>. USE CallAssumption DEF IInv, TypeOK, MapOwns, CleanupOwns, StopOwns, Stored
<1>1. ASSUME NEW r \in Runs, StartCheck(r) PROVE StopOwns'
  BY <1>1 DEF StartCheck, ShardFree
<1>2. ASSUME NEW r \in Runs, StartSpawn(r) PROVE StopOwns'
  BY <1>2 DEF StartSpawn
<1>3. ASSUME NEW r \in Runs, StartInsert(r) PROVE StopOwns'
  BY <1>3 DEF StartInsert, ShardFree
<1>4. ASSUME NEW r \in Runs, StartReturn(r) PROVE StopOwns'
  BY <1>4 DEF StartReturn
<1>5. ASSUME NEW r \in Runs, CleanupTake(r) PROVE StopOwns'
  BY <1>5 DEF CleanupTake, ChildLeft, RemovedEntry, ShardFree
<1>6. ASSUME NEW r \in Runs, CleanupExit(r) PROVE StopOwns'
  BY <1>6 DEF CleanupExit, Publish, ChildReaped
<1>7. ASSUME NEW s \in Stops, StopCall(s) PROVE StopOwns'
  BY <1>7 DEF StopCall
<1>8. ASSUME NEW s \in Stops, StopTake(s) PROVE StopOwns'
  BY <1>8 DEF StopTake, RemovedEntry, ShardFree
<1>9. ASSUME NEW s \in Stops, StopSignal(s) PROVE StopOwns'
  BY <1>9 DEF StopSignal
<1>10. ASSUME NEW s \in Stops, StopKilled(s) PROVE StopOwns'
  BY <1>10 DEF StopKilled, ChildReaped
<1>11. ASSUME NEW s \in Stops, StopCancel(s) PROVE StopOwns'
  BY <1>11 DEF StopCancel
<1>12. ASSUME NEW s \in Stops, StopReap(s) PROVE StopOwns'
  BY <1>12 DEF StopReap, Publish, ChildReaped
<1>13. ASSUME NEW w \in Writes, WriteBegin(w) PROVE StopOwns'
  BY <1>13 DEF WriteBegin, ShardFree
<1>14. ASSUME NEW w \in Writes, WriteEnd(w) PROVE StopOwns'
  BY <1>14 DEF WriteEnd, PipeHasRoom
<1>15. ASSUME NEW w \in Writes, WriteCancel(w) PROVE StopOwns'
  BY <1>15 DEF WriteCancel
<1>16. ASSUME NEW r \in Runs, ProcDies(r) PROVE StopOwns'
  BY <1>16 DEF ProcDies
<1>17. ASSUME NEW r \in Runs, PipesClose(r) PROVE StopOwns'
  BY <1>17 DEF PipesClose
<1>18. ASSUME NEW r \in Runs, ProcReads(r) PROVE StopOwns'
  BY <1>18 DEF ProcReads
<1>19. CASE UNCHANGED vars
  BY <1>19 DEF vars
<1>. QED
  BY <1>1, <1>2, <1>3, <1>4, <1>5, <1>6, <1>7, <1>8, <1>9, <1>10, <1>11, <1>12, <1>13, <1>14, <1>15, <1>16, <1>17, <1>18, <1>19
     DEF Next, StartStep, CleanupStep, StopStep, ProcStep

LEMMA StepExitSettled == IInv /\ [Next]_vars => ExitSettled'
<1>. SUFFICES ASSUME IInv, [Next]_vars PROVE ExitSettled'
  OBVIOUS
<1>. USE CallAssumption DEF IInv, TypeOK, CleanupOwns, StopOwns, ExitSettled, Stored
<1>1. ASSUME NEW r \in Runs, StartCheck(r) PROVE ExitSettled'
  BY <1>1 DEF StartCheck, ShardFree
<1>2. ASSUME NEW r \in Runs, StartSpawn(r) PROVE ExitSettled'
  BY <1>2 DEF StartSpawn
<1>3. ASSUME NEW r \in Runs, StartInsert(r) PROVE ExitSettled'
  BY <1>3 DEF StartInsert, ShardFree
<1>4. ASSUME NEW r \in Runs, StartReturn(r) PROVE ExitSettled'
  BY <1>4 DEF StartReturn
<1>5. ASSUME NEW r \in Runs, CleanupTake(r) PROVE ExitSettled'
  BY <1>5 DEF CleanupTake, ChildLeft, RemovedEntry, ShardFree
<1>6. ASSUME NEW r \in Runs, CleanupExit(r) PROVE ExitSettled'
  BY <1>6 DEF CleanupExit, Publish, ChildReaped
<1>7. ASSUME NEW s \in Stops, StopCall(s) PROVE ExitSettled'
  BY <1>7 DEF StopCall
<1>8. ASSUME NEW s \in Stops, StopTake(s) PROVE ExitSettled'
  BY <1>8 DEF StopTake, RemovedEntry, ShardFree
<1>9. ASSUME NEW s \in Stops, StopSignal(s) PROVE ExitSettled'
  BY <1>9 DEF StopSignal
<1>10. ASSUME NEW s \in Stops, StopKilled(s) PROVE ExitSettled'
  BY <1>10 DEF StopKilled, ChildReaped
<1>11. ASSUME NEW s \in Stops, StopCancel(s) PROVE ExitSettled'
  BY <1>11 DEF StopCancel
<1>12. ASSUME NEW s \in Stops, StopReap(s) PROVE ExitSettled'
  BY <1>12 DEF StopReap, Publish, ChildReaped
<1>13. ASSUME NEW w \in Writes, WriteBegin(w) PROVE ExitSettled'
  BY <1>13 DEF WriteBegin, ShardFree
<1>14. ASSUME NEW w \in Writes, WriteEnd(w) PROVE ExitSettled'
  BY <1>14 DEF WriteEnd, PipeHasRoom
<1>15. ASSUME NEW w \in Writes, WriteCancel(w) PROVE ExitSettled'
  BY <1>15 DEF WriteCancel
<1>16. ASSUME NEW r \in Runs, ProcDies(r) PROVE ExitSettled'
  BY <1>16 DEF ProcDies
<1>17. ASSUME NEW r \in Runs, PipesClose(r) PROVE ExitSettled'
  BY <1>17 DEF PipesClose
<1>18. ASSUME NEW r \in Runs, ProcReads(r) PROVE ExitSettled'
  BY <1>18 DEF ProcReads
<1>19. CASE UNCHANGED vars
  BY <1>19 DEF vars
<1>. QED
  BY <1>1, <1>2, <1>3, <1>4, <1>5, <1>6, <1>7, <1>8, <1>9, <1>10, <1>11, <1>12, <1>13, <1>14, <1>15, <1>16, <1>17, <1>18, <1>19
     DEF Next, StartStep, CleanupStep, StopStep, ProcStep

LEMMA StepEntryIsWatched == IInv /\ [Next]_vars => EntryIsWatched'
<1>. SUFFICES ASSUME IInv, [Next]_vars PROVE EntryIsWatched'
  OBVIOUS
<1>. USE CallAssumption DEF IInv, TypeOK, MapOwns, EntryIsWatched, Stored
<1>1. ASSUME NEW r \in Runs, StartCheck(r) PROVE EntryIsWatched'
  BY <1>1 DEF StartCheck, ShardFree
<1>2. ASSUME NEW r \in Runs, StartSpawn(r) PROVE EntryIsWatched'
  BY <1>2 DEF StartSpawn
<1>3. ASSUME NEW r \in Runs, StartInsert(r) PROVE EntryIsWatched'
  BY <1>3 DEF StartInsert, ShardFree
<1>4. ASSUME NEW r \in Runs, StartReturn(r) PROVE EntryIsWatched'
  BY <1>4 DEF StartReturn
<1>5. ASSUME NEW r \in Runs, CleanupTake(r) PROVE EntryIsWatched'
  BY <1>5 DEF CleanupTake, ChildLeft, RemovedEntry, ShardFree
<1>6. ASSUME NEW r \in Runs, CleanupExit(r) PROVE EntryIsWatched'
  BY <1>6 DEF CleanupExit, Publish, ChildReaped
<1>7. ASSUME NEW s \in Stops, StopCall(s) PROVE EntryIsWatched'
  BY <1>7 DEF StopCall
<1>8. ASSUME NEW s \in Stops, StopTake(s) PROVE EntryIsWatched'
  BY <1>8 DEF StopTake, RemovedEntry, ShardFree
<1>9. ASSUME NEW s \in Stops, StopSignal(s) PROVE EntryIsWatched'
  BY <1>9 DEF StopSignal
<1>10. ASSUME NEW s \in Stops, StopKilled(s) PROVE EntryIsWatched'
  BY <1>10 DEF StopKilled, ChildReaped
<1>11. ASSUME NEW s \in Stops, StopCancel(s) PROVE EntryIsWatched'
  BY <1>11 DEF StopCancel
<1>12. ASSUME NEW s \in Stops, StopReap(s) PROVE EntryIsWatched'
  BY <1>12 DEF StopReap, Publish, ChildReaped
<1>13. ASSUME NEW w \in Writes, WriteBegin(w) PROVE EntryIsWatched'
  BY <1>13 DEF WriteBegin, ShardFree
<1>14. ASSUME NEW w \in Writes, WriteEnd(w) PROVE EntryIsWatched'
  BY <1>14 DEF WriteEnd, PipeHasRoom
<1>15. ASSUME NEW w \in Writes, WriteCancel(w) PROVE EntryIsWatched'
  BY <1>15 DEF WriteCancel
<1>16. ASSUME NEW r \in Runs, ProcDies(r) PROVE EntryIsWatched'
  BY <1>16 DEF ProcDies
<1>17. ASSUME NEW r \in Runs, PipesClose(r) PROVE EntryIsWatched'
  BY <1>17 DEF PipesClose
<1>18. ASSUME NEW r \in Runs, ProcReads(r) PROVE EntryIsWatched'
  BY <1>18 DEF ProcReads
<1>19. CASE UNCHANGED vars
  BY <1>19 DEF vars
<1>. QED
  BY <1>1, <1>2, <1>3, <1>4, <1>5, <1>6, <1>7, <1>8, <1>9, <1>10, <1>11, <1>12, <1>13, <1>14, <1>15, <1>16, <1>17, <1>18, <1>19
     DEF Next, StartStep, CleanupStep, StopStep, ProcStep

(***************************************************************************)
(* The inductive invariant, and from it what the runs check: every call    *)
(* and task leaves the state well formed, a run's Exit is published once   *)
(* and only after a wait() on its dead process, and an entry of the map    *)
(* always has a cleanup task to come.                                      *)
(***************************************************************************)
THEOREM Invariance == Spec => []IInv
<1>1. IInv /\ [Next]_vars => IInv'
  BY StepTypeOK, StepGuardHeld, StepMapOwns, StepCleanupOwns, StepStopOwns,
     StepCleanupSpawned, StepExitSettled, StepEntryIsWatched DEF IInv
<1>. QED
  BY InitIInv, <1>1, PTL DEF Spec

(* Every variable keeps its type. *)
THEOREM TypeCorrect == Spec => []TypeOK
<1>1. IInv => TypeOK
  BY DEF IInv
<1>. QED
  BY Invariance, <1>1, PTL

(* No child's Exit event is published twice, whatever the cleanup tasks,   *)
(* stop_run calls and their reapers do, and in whatever order.             *)
THEOREM ExitPublishedOnce == Spec => []ExitAtMostOnce
<1>1. IInv => ExitAtMostOnce
  BY DEF IInv, TypeOK, ExitSettled, ExitAtMostOnce
<1>. QED
  BY Invariance, <1>1, PTL

(* No Exit event is published for a child that is still alive. *)
THEOREM ExitComesFromTheDead == Spec => []ExitMeansDead
<1>1. IInv => ExitMeansDead
  BY DEF IInv, ExitSettled, ExitMeansDead
<1>. QED
  BY Invariance, <1>1, PTL

(* No interleaving leaves an entry in the map with nobody to remove it. *)
THEOREM EntryAlwaysWatched == Spec => []EntryIsWatched
<1>1. IInv => EntryIsWatched
  BY DEF IInv
<1>. QED
  BY Invariance, <1>1, PTL

(* A child that a step lets go of has had its Exit event, or was           *)
(* overwritten in the map, or belonged to a stop whose client left.        *)
LEMMA StepKept ==
  ASSUME IInv, [Next]_vars, NEW c \in Runs, Held(c), ~Held(c)'
  PROVE  LetGoOf(c)
<1>. USE DEF IInv, TypeOK
<1>1. ASSUME UNCHANGED <<processes, cleanupChild, stopChild>> PROVE FALSE
  BY <1>1 DEF Held
<1>2. ASSUME NEW r \in Runs, StartInsert(r) PROVE LetGoOf(c)
  BY <1>2 DEF StartInsert, LetGoOf
<1>3. ASSUME NEW r \in Runs, CleanupTake(r) PROVE FALSE
  <2>1. cleanupChild[r] = None
    BY <1>3 DEF CleanupTake, CleanupOwns
  <2>2. CASE processes = c
    BY <1>3, <2>2, CallAssumption DEF CleanupTake, ChildLeft, Held
  <2>3. CASE \E q \in Runs : cleanupChild[q] = c
    BY <1>3, <2>1, <2>3, CallAssumption DEF CleanupTake, Held
  <2>4. CASE \E s \in Stops : stopChild[s] = c
    BY <1>3, <2>4 DEF CleanupTake, Held
  <2>. QED
    BY <2>2, <2>3, <2>4 DEF Held
<1>4. ASSUME NEW r \in Runs, CleanupExit(r) PROVE LetGoOf(c)
  <2>1. cleanupChild[r] = c
    BY <1>4 DEF CleanupExit, Held
  <2>2. exits[c] = 0
    BY <1>4, <2>1, CallAssumption DEF CleanupOwns
  <2>. QED
    BY <1>4, <2>1, <2>2 DEF CleanupExit, Publish, LetGoOf
<1>5. ASSUME NEW s \in Stops, StopTake(s) PROVE FALSE
  <2>1. stopChild[s] = None
    BY <1>5 DEF StopTake, StopOwns
  <2>2. CASE processes = c
    BY <1>5, <2>2 DEF StopTake, Held
  <2>3. CASE \E q \in Runs : cleanupChild[q] = c
    BY <1>5, <2>3 DEF StopTake, Held
  <2>4. CASE \E t \in Stops : stopChild[t] = c
    BY <1>5, <2>1, <2>4, CallAssumption DEF StopTake, Held
  <2>. QED
    BY <2>2, <2>3, <2>4 DEF Held
<1>6. ASSUME NEW s \in Stops, StopCancel(s) PROVE LetGoOf(c)
  <2>1. stopChild[s] = c
    BY <1>6 DEF StopCancel, Held
  <2>. QED
    BY <1>6, <2>1 DEF StopCancel, LetGoOf
<1>7. ASSUME NEW s \in Stops, StopReap(s) PROVE LetGoOf(c)
  <2>1. stopChild[s] = c
    BY <1>7 DEF StopReap, Held
  <2>2. exits[c] = 0
    BY <1>7, <2>1, CallAssumption DEF StopOwns
  <2>. QED
    BY <1>7, <2>1, <2>2 DEF StopReap, Publish, LetGoOf
<1>8. ASSUME NEW r \in Runs,
             StartCheck(r) \/ StartSpawn(r) \/ StartReturn(r) \/ ProcStep(r)
      PROVE  UNCHANGED <<processes, cleanupChild, stopChild>>
  BY <1>8 DEF StartCheck, StartSpawn, StartReturn, ProcStep, ProcDies,
              PipesClose, ProcReads
<1>9. ASSUME NEW s \in Stops, StopCall(s) \/ StopSignal(s) \/ StopKilled(s)
      PROVE  UNCHANGED <<processes, cleanupChild, stopChild>>
  BY <1>9 DEF StopCall, StopSignal, StopKilled
<1>10. ASSUME NEW w \in Writes, WriteBegin(w) \/ WriteEnd(w) \/ WriteCancel(w)
       PROVE  UNCHANGED <<processes, cleanupChild, stopChild>>
  BY <1>10 DEF WriteBegin, WriteEnd, WriteCancel
<1>11. ASSUME UNCHANGED vars
       PROVE  UNCHANGED <<processes, cleanupChild, stopChild>>
  BY <1>11 DEF vars
<1>. HIDE DEF IInv, TypeOK
<1>. QED
  BY <1>1, <1>2, <1>3, <1>4, <1>5, <1>6, <1>7, <1>8, <1>9, <1>10, <1>11
     DEF Next, StartStep, CleanupStep, StopStep

(* No step of any task lets go of a Child that nobody has waited for,      *)
(* other than the two ways the property names.                             *)
THEOREM ChildrenAreKept == Spec => ChildIsKept
<1>1. IInv /\ [Next]_vars => [\A c \in Runs : Held(c) /\ ~Held(c)' => LetGoOf(c)]_vars
  BY StepKept
<1>. QED
  BY Invariance, <1>1, PTL DEF Spec, ChildIsKept
==============================================================================
