------------------------ MODULE RrdcachedStartupProofs -------------------------
(***************************************************************************)
(* The pid file keeps daemons apart and names the one that runs, for any   *)
(* number of starts and stops.  The inductive invariant ties an owner of   *)
(* the pid file to the file: as long as no file changed hands unnoticed it *)
(* has the file open that has the name, the file is empty or names it, and *)
(* who was found dead by kill(pid, 0) stays dead.                          *)
(***************************************************************************)
EXTENDS RrdcachedStartup, TLAPS

\* Process ids come from processes that have been started; who was found dead is.
Ids ==
    /\ \A s \in Starts : content[s] # None => pc[content[s]] # "idle"
    /\ \A s \in Starts : pc[s] \in {"kill", "truncate"} => pc[pid[s]] # "idle"
    /\ \A s \in Starts : pc[s] = "truncate" => pc[pid[s]] = "gone"

\* What an owner can rely on.
Holds(s) ==
    /\ fd[s] = pidfile
    /\ content[pidfile] = IF pc[s] \in {"running", "flushing"} /\ s \notin unwritten
                          THEN s ELSE None
    /\ pc[s] \in {"fork", "write", "running"} => socket = s
Ownership == Undisturbed => \A s \in Owners : Holds(s)

\* A pid file without an owner was left by a crash, or by one that could not write.
Left ==
    /\ \A s \in crashed : pc[s] = "gone"
    /\ \A s \in unwritten : pc[s] \in {"running", "flushing", "gone"}
    /\ Undisturbed /\ pidfile # None /\ Owners = {} =>
          IF content[pidfile] = None THEN \E s \in crashed \union unwritten : fd[s] = pidfile
          ELSE content[pidfile] \in crashed

Inv == TypeOK /\ Ids /\ Ownership /\ OneDaemon /\ Left

LEMMA InitInv == Init => Inv
<1> SUFFICES ASSUME Init PROVE Inv
  OBVIOUS
<1>1. 0 \in 0 .. MaxStops
  BY StopsAssumption
<1>2. TypeOK
  <2>1. stops \in 0 .. MaxStops
    BY <1>1 DEF Init
  <2> QED BY <2>1, NoneAssumption DEF Init, TypeOK, Owning
<1>3. Owners = {} /\ pidfile = None /\ crashed = {} /\ unwritten = {}
  BY DEF Init, Owners, Owning
<1>4. Ids
  BY NoneAssumption DEF Init, Ids
<1>5. Ownership /\ OneDaemon /\ Left
  BY <1>3 DEF Ownership, OneDaemon, Left
<1> QED BY <1>2, <1>4, <1>5 DEF Inv

\* The steps keep the types.
LEMMA TypeStep == TypeOK /\ Next => TypeOK'
<1> SUFFICES ASSUME TypeOK, Next PROVE TypeOK'
  OBVIOUS
<1> USE NoneAssumption DEF TypeOK, Owning, Goto, files, stopping, history
<1>1. CASE Stop
  <2>1. stops' \in 0 .. MaxStops
    BY <1>1, StopsAssumption DEF Stop, KillProc, KillProcEnds, Remove
  <2>2. robbed' \in BOOLEAN /\ contested' \in BOOLEAN
    BY <1>1 DEF Stop, KillProc, KillProcEnds, Remove
  <2>3. CASE KillProc
    BY <2>1, <2>3 DEF KillProc
  <2>4. CASE KillProcEnds
    BY <2>1, <2>4 DEF KillProcEnds
  <2>5. CASE Remove
    BY <2>1, <2>2, <2>5 DEF Remove
  <2> QED BY <1>1, <2>3, <2>4, <2>5 DEF Stop
<1>2. ASSUME NEW s \in Starts, Create(s) PROVE TypeOK'
  BY <1>2 DEF Create
<1>3. ASSUME NEW s \in Starts, Open(s) PROVE TypeOK'
  BY <1>3 DEF Open
<1>4. ASSUME NEW s \in Starts, Read(s) PROVE TypeOK'
  BY <1>4 DEF Read
<1>5. ASSUME NEW s \in Starts, Kill0(s) PROVE TypeOK'
  BY <1>5 DEF Kill0
<1>6. ASSUME NEW s \in Starts, Truncate(s) PROVE TypeOK'
  BY <1>6 DEF Truncate
<1>7. ASSUME NEW s \in Starts, Unlink(s) PROVE TypeOK'
  BY <1>7 DEF Unlink
<1>8. ASSUME NEW s \in Starts, Bind(s) PROVE TypeOK'
  BY <1>8 DEF Bind, Fail
<1>9. ASSUME NEW s \in Starts, Fork(s) PROVE TypeOK'
  BY <1>9 DEF Fork, Fail
<1>10. ASSUME NEW s \in Starts, Write(s) PROVE TypeOK'
  BY <1>10 DEF Write
<1>11. ASSUME NEW s \in Starts, Close(s) PROVE TypeOK'
  BY <1>11 DEF Close
<1>12. ASSUME NEW s \in Starts, Cleanup(s) PROVE TypeOK'
  BY <1>12 DEF Cleanup
<1>13. ASSUME NEW s \in Starts, Killed(s) PROVE TypeOK'
  BY <1>13 DEF Killed
<1> QED BY <1>1, <1>2, <1>3, <1>4, <1>5, <1>6, <1>7, <1>8, <1>9, <1>10, <1>11,
           <1>12, <1>13 DEF Next, Daemonize

\* A process that has ended stays so, and none is "idle" again.
LEMMA Steps ==
    ASSUME TypeOK, Next
    PROVE  \A s \in Starts : /\ pc[s] = "gone" => pc'[s] = "gone"
                             /\ pc[s] # "idle" => pc'[s] # "idle"
BY DEF TypeOK, Next, Daemonize, Stop, KillProc, KillProcEnds, Remove, Create, Open, Read, Kill0, Truncate, Unlink, Bind,
       Fork, Write, Close, Cleanup, Killed, Fail, Goto, Alive, Owning

\* Process ids: only a process that is no longer "idle" writes its own.
LEMMA IdsStep == Inv /\ Next => Ids'
<1> SUFFICES ASSUME Inv, Next PROVE Ids'
  OBVIOUS
<1> USE NoneAssumption DEF Inv, TypeOK, Ids, Goto, files, stopping, history
<1>0. \A s \in Starts : /\ pc[s] = "gone" => pc'[s] = "gone"
                       /\ pc[s] # "idle" => pc'[s] # "idle"
  BY Steps
<1>1. CASE Stop
  BY <1>1 DEF Stop, KillProc, KillProcEnds, Remove
<1>2. ASSUME NEW s \in Starts, Create(s) PROVE Ids'
  BY <1>0, <1>2 DEF Create
<1>3. ASSUME NEW s \in Starts, Open(s) PROVE Ids'
  BY <1>0, <1>3 DEF Open
<1>4. ASSUME NEW s \in Starts, Read(s) PROVE Ids'
  BY <1>0, <1>4 DEF Read
<1>5. ASSUME NEW s \in Starts, Kill0(s) PROVE Ids'
  BY <1>0, <1>5 DEF Kill0, Alive
<1>6. ASSUME NEW s \in Starts, Truncate(s) PROVE Ids'
  BY <1>0, <1>6 DEF Truncate
<1>7. ASSUME NEW s \in Starts, Unlink(s) PROVE Ids'
  BY <1>0, <1>7 DEF Unlink
<1>8. ASSUME NEW s \in Starts, Bind(s) PROVE Ids'
  BY <1>0, <1>8 DEF Bind, Fail
<1>9. ASSUME NEW s \in Starts, Fork(s) PROVE Ids'
  BY <1>0, <1>9 DEF Fork, Fail
<1>10. ASSUME NEW s \in Starts, Write(s) PROVE Ids'
  BY <1>0, <1>10 DEF Write
<1>11. ASSUME NEW s \in Starts, Close(s) PROVE Ids'
  BY <1>0, <1>11 DEF Close
<1>12. ASSUME NEW s \in Starts, Cleanup(s) PROVE Ids'
  BY <1>0, <1>12 DEF Cleanup
<1>13. ASSUME NEW s \in Starts, Killed(s) PROVE Ids'
  BY <1>0, <1>13 DEF Killed
<1> QED BY <1>1, <1>2, <1>3, <1>4, <1>5, <1>6, <1>7, <1>8, <1>9, <1>10, <1>11,
           <1>12, <1>13 DEF Next, Daemonize

\* Before the file is contested, an owner stays the only one and keeps the files.
LEMMA OwnershipStep == Inv /\ Next => Ownership' /\ OneDaemon'
<1> SUFFICES ASSUME Inv, Next PROVE Ownership' /\ OneDaemon'
  OBVIOUS
<1> USE NoneAssumption DEF Inv, TypeOK, Undisturbed, Ownership, OneDaemon, Holds, Owners, Owning, Goto, files, stopping, history
<1>1. CASE Stop
  BY <1>1 DEF Stop, KillProc, KillProcEnds, Remove
<1>2. ASSUME NEW s \in Starts, Create(s) PROVE Ownership' /\ OneDaemon'
  BY <1>2 DEF Create
<1>3. ASSUME NEW s \in Starts, Open(s) PROVE Ownership' /\ OneDaemon'
  BY <1>3 DEF Open
<1>4. ASSUME NEW s \in Starts, Read(s) PROVE Ownership' /\ OneDaemon'
  BY <1>4 DEF Read
<1>5. ASSUME NEW s \in Starts, Kill0(s) PROVE Ownership' /\ OneDaemon'
  BY <1>5 DEF Kill0, Alive
<1>6. ASSUME NEW s \in Starts, Truncate(s) PROVE Ownership' /\ OneDaemon'
  <2> SUFFICES ASSUME Undisturbed' PROVE Ownership' /\ OneDaemon'
    OBVIOUS
  <2>1. Undisturbed /\ pidfile = fd[s] /\ content[fd[s]] = pid[s] /\ pid[s] # None
    BY <1>6 DEF Truncate
  <2>2. pc[pid[s]] = "gone"
    BY <1>6 DEF Truncate, Ids
  <2>3. Owners = {}
    <3> SUFFICES ASSUME NEW r \in Owners PROVE FALSE
      OBVIOUS
    <3>1. content[pidfile] = r \/ content[pidfile] = None
      BY <2>1
    <3>2. r = pid[s]
      BY <2>1, <3>1
    <3> QED BY <2>2, <3>2
  <2>4. Owners' = {s}
    BY <1>6, <2>3 DEF Truncate
  <2>5. Holds(s)'
    BY <1>6, <2>1 DEF Truncate
  <2> QED BY <2>4, <2>5
<1>7. ASSUME NEW s \in Starts, Unlink(s) PROVE Ownership' /\ OneDaemon'
  BY <1>7 DEF Unlink
<1>8. ASSUME NEW s \in Starts, Bind(s) PROVE Ownership' /\ OneDaemon'
  BY <1>8 DEF Bind, Fail
<1>9. ASSUME NEW s \in Starts, Fork(s) PROVE Ownership' /\ OneDaemon'
  BY <1>9 DEF Fork, Fail
<1>10. ASSUME NEW s \in Starts, Write(s) PROVE Ownership' /\ OneDaemon'
  <2> SUFFICES ASSUME Undisturbed' PROVE Ownership' /\ OneDaemon'
    OBVIOUS
  <2>1. Undisturbed /\ Owners = {s} /\ Holds(s) /\ UNCHANGED <<fd, pidfile, socket>>
    BY <1>10 DEF Write
  <2>2. \A r \in Starts : r # s => pc'[r] = pc[r]
    BY <1>10 DEF Write
  <2>3. Owners' \subseteq {s}
    BY <2>1, <2>2
  <2>4. CASE pc'[s] = "gone"
    BY <2>3, <2>4
  <2>5. CASE pc'[s] = "running"
    <3>1. s \notin unwritten /\ content[pidfile] = None
      BY <1>10, <2>1 DEF Write, Left
    <3>2. content'[pidfile] = IF s \in unwritten' THEN None ELSE s
      BY <1>10, <2>1, <2>5, <3>1 DEF Write
    <3>3. Holds(s)'
      <4>1. fd'[s] = pidfile' /\ socket' = s
        BY <1>10, <2>1 DEF Write
      <4>2. content'[pidfile'] = IF s \in unwritten' THEN None ELSE s
        BY <2>1, <3>2
      <4> QED BY <2>5, <4>1, <4>2
    <3> QED BY <2>3, <3>3
  <2> QED BY <1>10, <2>4, <2>5 DEF Write
<1>11. ASSUME NEW s \in Starts, Close(s) PROVE Ownership' /\ OneDaemon'
  BY <1>11 DEF Close
<1>12. ASSUME NEW s \in Starts, Cleanup(s) PROVE Ownership' /\ OneDaemon'
  BY <1>12 DEF Cleanup
<1>13. ASSUME NEW s \in Starts, Killed(s) PROVE Ownership' /\ OneDaemon'
  BY <1>13 DEF Killed
<1> QED BY <1>1, <1>2, <1>3, <1>4, <1>5, <1>6, <1>7, <1>8, <1>9, <1>10, <1>11,
           <1>12, <1>13 DEF Next, Daemonize

\* What is left without an owner was left by one that was killed.
LEMMA LeftStep == Inv /\ Next => Left'
<1> SUFFICES ASSUME Inv, Next PROVE Left'
  OBVIOUS
<1> USE NoneAssumption DEF Inv, TypeOK, Undisturbed, Left, Owners, Owning, Goto, files, stopping, history
<1>1. CASE Stop
  BY <1>1 DEF Stop, KillProc, KillProcEnds, Remove
<1>2. ASSUME NEW s \in Starts, Create(s) PROVE Left'
  BY <1>2 DEF Create
<1>3. ASSUME NEW s \in Starts, Open(s) PROVE Left'
  BY <1>3 DEF Open
<1>4. ASSUME NEW s \in Starts, Read(s) PROVE Left'
  BY <1>4 DEF Read
<1>5. ASSUME NEW s \in Starts, Kill0(s) PROVE Left'
  BY <1>5 DEF Kill0
<1>6. ASSUME NEW s \in Starts, Truncate(s) PROVE Left'
  BY <1>6 DEF Truncate
<1>7. ASSUME NEW s \in Starts, Unlink(s) PROVE Left'
  BY <1>7 DEF Unlink
<1>8. ASSUME NEW s \in Starts, Bind(s) PROVE Left'
  BY <1>8 DEF Bind, Fail
<1>9. ASSUME NEW s \in Starts, Fork(s) PROVE Left'
  BY <1>9 DEF Fork, Fail
<1>10. ASSUME NEW s \in Starts, Write(s) PROVE Left'
  <2>1. \A r \in crashed' : r # s /\ pc'[r] = "gone"
    BY <1>10 DEF Write
  <2>2. CASE pc'[s] = "running"
    BY <1>10, <2>1, <2>2 DEF Write
  <2>3. CASE pc'[s] = "gone"
    <3> SUFFICES ASSUME Undisturbed', pidfile' # None
                 PROVE  content'[pidfile'] = None /\ s \in unwritten' /\ fd'[s] = pidfile'
      <4>1. pc'[s] \in {"running", "flushing", "gone"}
            /\ \A r \in Starts : r # s => pc'[r] = pc[r]
        BY <1>10, <2>3 DEF Write
      <4>2. \A r \in unwritten' : pc'[r] \in {"running", "flushing", "gone"}
        BY <1>10, <4>1 DEF Write
      <4> QED BY <2>1, <4>2
    <3>1. Holds(s)
      BY <1>10 DEF Write, Ownership
    <3> QED BY <1>10, <2>3, <3>1 DEF Write, Holds
  <2> QED BY <1>10, <2>2, <2>3 DEF Write
<1>11. ASSUME NEW s \in Starts, Close(s) PROVE Left'
  BY <1>11 DEF Close
<1>12. ASSUME NEW s \in Starts, Cleanup(s) PROVE Left'
  BY <1>12 DEF Cleanup
<1>13. ASSUME NEW s \in Starts, Killed(s) PROVE Left'
  BY <1>13 DEF Killed, Ownership, Holds, OneDaemon, Alive
<1> QED BY <1>1, <1>2, <1>3, <1>4, <1>5, <1>6, <1>7, <1>8, <1>9, <1>10, <1>11,
           <1>12, <1>13 DEF Next, Daemonize

LEMMA NextInv == Inv /\ [Next]_vars => Inv'
<1>1. CASE Next
  BY <1>1, TypeStep, IdsStep, OwnershipStep, LeftStep DEF Inv
<1>2. CASE UNCHANGED vars
  BY <1>2 DEF vars, files, stopping, history, Inv, Undisturbed, TypeOK, Ids, Ownership, Holds, OneDaemon, Left, Owners
<1> QED BY <1>1, <1>2

-----------------------------------------------------------------------------
(* The variables keep their types for any number of starts (daemonize).    *)
THEOREM StartupTypeCorrect == Spec => []TypeOK
BY InitInv, NextInv, PTL DEF Spec, Inv

(* At most one process owns the pid file, however many are started, are    *)
(* stopped or crash, unless a file changed hands between two steps of      *)
(* check_pidfile or of the init script.                                    *)
THEOREM AtMostOneDaemon == Spec => []OneDaemon
BY InitInv, NextInv, PTL DEF Spec, Inv

(* The pid file and the socket are those of the daemon that runs, and the  *)
(* file names it if its id could be written (write_pidfile,                *)
(* remove_pidfile, close_listen_sockets).                                  *)
THEOREM FilesAreTheDaemons == Spec => []FilesNameTheDaemon
<1>1. Inv => FilesNameTheDaemon
  BY NoneAssumption DEF Inv, TypeOK, Undisturbed, FilesNameTheDaemon, Ownership, Holds, Owners, Owning
<1> QED BY <1>1, InitInv, NextInv, PTL DEF Spec

(* Only a process that was killed, or that could not write its id, leaves  *)
(* its pid file behind (write_pidfile, cleanup, and the label error of     *)
(* daemonize).                                                             *)
THEOREM LeftFilesAreExplained == Spec => []LeftoversAreExplained
<1>1. Inv => LeftoversAreExplained
  BY DEF Inv, Undisturbed, LeftoversAreExplained, Left, Owners, Owning, Alive
<1> QED BY <1>1, InitInv, NextInv, PTL DEF Spec
=============================================================================
