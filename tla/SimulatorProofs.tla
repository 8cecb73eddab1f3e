--------------------------- MODULE SimulatorProofs ---------------------------
(***************************************************************************)
(* Proofs about Simulator, for every value of the constants that satisfies *)
(* ConstAssumption.                                                        *)
(*                                                                         *)
(* Neither TypeOK nor SessionContractRegistered is inductive alone: a      *)
(* call dispatched by the session names registry[active], which is an      *)
(* instance only because the session's contract is registered; the copy   *)
(* step reads registry[widx], an instance only because the poll step saw  *)
(* one; and a call's end applies sCall, a call record only while the       *)
(* session is calling.  IInv adds these facts.                             *)
(***************************************************************************)
EXTENDS Simulator, TLAPS

\* The session's call record is set exactly while it is calling.
SessionCallSet == (spc = "calling") <=> (sCall # NoCall)

\* The watcher copies storage only from an installed instance.
CopyFromInstance == wpc = "copy" => registry[widx] # NoInstance

\* An artifact's timestamp never runs ahead of its build count: every
\* write advances the clock by at most one tick.
MtimeNotAhead == \A i \in Addr : mtime[i] <= build[i]

\* The session has not switched before it received the ready message.
NoSwitchBeforeReady == spc = "await_ready" => depth = 0

\* The storage the watcher is about to install holds no more writes than
\* were answered for its address: it is empty or copied from that address.
SnapNoPhantom == wpc = "install" => snap <= writes[widx]

IInv ==
    /\ TypeOK
    /\ SessionCallSet
    /\ CopyFromInstance
    /\ NoSwitchBeforeReady
    /\ MtimeNotAhead
    /\ SessionContractRegistered
    /\ SnapNoPhantom
    /\ StorageNoPhantom

USE ConstAssumption

-----------------------------------------------------------------------------
LEMMA InitIInv == Init => IInv
  BY DEF Init, IInv, TypeOK, SessionCallSet, CopyFromInstance,
         NoSwitchBeforeReady, MtimeNotAhead, SessionContractRegistered,
         SnapNoPhantom, StorageNoPhantom, Registered, Addr,
         StartTime

\* No step takes an entry out of ENGINES.
LEMMA KeepEntries ==
  ASSUME IInv, [Next]_vars, NEW a \in Addr, registry[a] # NoInstance
  PROVE  registry'[a] # NoInstance
  <1> USE DEF IInv, TypeOK
  <1>1. CASE Apply(sCall) \/ Apply(hCall)
    BY <1>1 DEF Apply, Landed, Instance
  <1>2. CASE WatchInstallOk
    BY <1>2 DEF WatchInstallOk, Instance
  <1>3. QED
    BY <1>1, <1>2 DEF Next, vars, Watcher, Session, WatchPollMissing,
       WatchPollUnchanged, WatchPollChanged, WatchCopy, WatchInstallFail,
       SessRecv, SessRecvFail, SessStart, SessStartFail, SessCallBegin,
       SessCallEnd, SessSwitch, HttpBegin, HttpEnd, Rebuild, Vanish,
       Terminated

LEMMA AdvanceType ==
  ASSUME TypeOK, Advance
  PROVE  widx' \in Addr /\ queued' \in 0..ChanBound
  BY DEF TypeOK, Advance, Addr

\* A call's end keeps ENGINES and the write counts typed.
LEMMA ApplyType ==
  ASSUME TypeOK, NEW c \in Call, Apply(c)
  PROVE  /\ registry' \in [Addr -> Instance \cup {NoInstance}]
         /\ writes' \in [Addr -> Nat]
  BY DEF TypeOK, Apply, Landed, Call, Instance

\* A call's end only adds to the write counts, keeps which addresses have an
\* instance and their versions, and adds a storage write only together with
\* the answered write it stands for.
LEMMA ApplyStorage ==
  ASSUME TypeOK, StorageNoPhantom, NEW c \in Call, Apply(c)
  PROVE  /\ \A a \in Addr : writes'[a] >= writes[a]
         /\ \A a \in Addr : (registry'[a] = NoInstance) = (registry[a] = NoInstance)
         /\ \A a \in Registered : registry'[a].ver = registry[a].ver
         /\ StorageNoPhantom'
  <1> USE DEF TypeOK, Apply, Call, Instance, Registered
  <1>1. CASE Landed(c)
    <2>1. c.kind = "handle" /\ registry[c.addr] # NoInstance
      BY <1>1 DEF Landed
    <2>2. QED
      BY <1>1, <2>1 DEF StorageNoPhantom
  <1>2. CASE ~Landed(c)
    BY <1>2 DEF StorageNoPhantom
  <1>3. QED
    BY <1>1, <1>2

\* Each step keeps IInv.
LEMMA NextIInv == IInv /\ [Next]_vars => IInv'
  <1> SUFFICES ASSUME IInv, [Next]_vars PROVE IInv'
    OBVIOUS
  <1> USE DEF IInv, TypeOK, SessionCallSet, CopyFromInstance,
              NoSwitchBeforeReady, MtimeNotAhead, SessionContractRegistered,
              SnapNoPhantom, StorageNoPhantom, Registered
  <1>0. SessionContractRegistered'
    <2>1. CASE spc' \in {"loop", "calling"} \/ (spc' = "start" /\ depth' > 0)
      <3>1. CASE SessRecv
        BY <2>1, <3>1 DEF SessRecv
      <3>2. CASE \E t \in Addr : SessSwitch(t)
        BY <3>2, KeepEntries DEF SessSwitch
      <3>3. CASE ~SessRecv /\ ~\E t \in Addr : SessSwitch(t)
        <4>1. active' = active /\ registry[active] # NoInstance
          BY <2>1, <3>3 DEF Next, vars, Watcher, Session, WatchPollMissing,
             WatchPollUnchanged, WatchPollChanged, WatchCopy, WatchInstallOk,
             WatchInstallFail, SessRecvFail, SessStart, SessStartFail,
             SessCallBegin, SessCallEnd, HttpBegin, HttpEnd, Rebuild, Vanish,
             Terminated, sessionVars
        <4>2. QED
          BY <4>1, KeepEntries
      <3>4. QED
        BY <3>1, <3>2, <3>3
    <2>2. QED
      BY <2>1
  <1>1. CASE WatchPollMissing
    BY <1>1 DEF WatchPollMissing, artifactVars, sessionVars
  <1>2. CASE WatchPollUnchanged
    BY <1>2, AdvanceType DEF WatchPollUnchanged, artifactVars, sessionVars
  <1>3. CASE WatchPollChanged
    BY <1>3 DEF WatchPollChanged, artifactVars, sessionVars
  <1>4. CASE WatchCopy
    BY <1>4 DEF WatchCopy, artifactVars, sessionVars, Instance
  <1>5. CASE WatchInstallOk
    BY <1>5, AdvanceType DEF WatchInstallOk, artifactVars, sessionVars,
       Instance
  <1>6. CASE WatchInstallFail
    BY <1>6, AdvanceType DEF WatchInstallFail, artifactVars, sessionVars
  <1>7. CASE SessRecv
    <2>1. /\ spc = "await_ready" /\ queued > 0 /\ queued' = queued - 1
          /\ active' = 1 /\ spc' = "start"
          /\ UNCHANGED <<build, mtime, valid, present, registry, epoch, gen,
                         wpc, widx, seen, snap, heldEpoch, depth, sCall,
                         hCall, writes, calls>>
      BY <1>7 DEF SessRecv, artifactVars, watcherVars
    <2>2. active' \in Addr /\ queued' \in 0..ChanBound
      BY <2>1 DEF Addr
    <2>3. TypeOK'
      BY <2>1, <2>2
    <2>4. SessionCallSet' /\ CopyFromInstance' /\ NoSwitchBeforeReady'
          /\ MtimeNotAhead' /\ SnapNoPhantom' /\ StorageNoPhantom'
      BY <2>1
    <2>5. QED
      BY <1>0, <2>3, <2>4
  <1>8. CASE SessRecvFail
    BY <1>8 DEF SessRecvFail, artifactVars, watcherVars
  <1>9. CASE SessStart
    BY <1>9 DEF SessStart, artifactVars, watcherVars
  <1>10. CASE SessStartFail
    BY <1>10 DEF SessStartFail, artifactVars, watcherVars
  <1>11. CASE \E k \in Kinds : SessCallBegin(k)
    BY <1>11 DEF SessCallBegin, artifactVars, watcherVars, Call, Instance
  <1>12. CASE SessCallEnd
    <2>1. sCall \in Call
      BY <1>12 DEF SessCallEnd
    <2>2. QED
      BY <1>12, <2>1, ApplyType, ApplyStorage, KeepEntries
         DEF SessCallEnd, artifactVars, watcherVars
  <1>13. CASE \E t \in Addr : SessSwitch(t)
    BY <1>13 DEF SessSwitch, artifactVars, watcherVars
  <1>14. CASE \E a \in Addr, k \in Kinds : HttpBegin(a, k)
    BY <1>14 DEF HttpBegin, artifactVars, watcherVars, sessionVars, Call,
       Instance
  <1>15. CASE HttpEnd
    <2>1. hCall \in Call
      BY <1>15 DEF HttpEnd
    <2>2. QED
      BY <1>15, <2>1, ApplyType, ApplyStorage, KeepEntries
         DEF HttpEnd, artifactVars, watcherVars, sessionVars
  <1>16. CASE \E i \in Addr : Rebuild(i)
    BY <1>16 DEF Rebuild, watcherVars, sessionVars
  <1>17. CASE \E i \in Addr : Vanish(i)
    BY <1>17 DEF Vanish, watcherVars, sessionVars
  <1>18. CASE Terminated \/ UNCHANGED vars
    BY <1>18 DEF Terminated, vars, artifactVars, watcherVars, sessionVars
  <1>19. QED
    BY <1>0, <1>1, <1>2, <1>3, <1>4, <1>5, <1>6, <1>7, <1>8, <1>9, <1>10,
       <1>11, <1>12, <1>13, <1>14, <1>15, <1>16, <1>17, <1>18
       DEF Next, Watcher, Session

-----------------------------------------------------------------------------
\* IInv holds in every reachable state.
THEOREM IInvHolds == Spec => []IInv
  BY InitIInv, NextIInv, PTL DEF Spec

\* Type correctness: every variable always has its type.
THEOREM TypeCorrect == Spec => []TypeOK
  BY IInvHolds, PTL DEF IInv

\* After a switch, the contract the session starts on, and every contract it
\* dispatches a call to, is in ENGINES: get_call_type refuses unregistered
\* targets and no step of the watcher or of a call takes an entry out.
THEOREM SessionContractRegisteredHolds == Spec => []SessionContractRegistered
  BY IInvHolds, PTL DEF IInv

\* StorageNoPhantom: every installed instance holds at most the handle
\* writes answered for its address; with_storage copies the old instance's
\* storage, never another's, and no init or query writes it.
THEOREM StorageNoPhantomHolds == Spec => []StorageNoPhantom
  BY IInvHolds, PTL DEF IInv

-----------------------------------------------------------------------------
(* Refinement of Registry.  The served version of an address is read off  *)
(* the instance in its slot; a call's end changes only the storage of an  *)
(* instance, so it keeps the served versions.                             *)

\* A call's end keeps the version every address serves.
LEMMA ApplyServed ==
  ASSUME TypeOK, NEW c \in Call, Apply(c)
  PROVE  Served' = Served
  <1>1. \A a \in Addr : (registry'[a] = NoInstance) = (registry[a] = NoInstance)
                       /\ (registry[a] # NoInstance => registry'[a].ver = registry[a].ver)
    BY DEF TypeOK, Apply, Landed, Call, Instance
  <1>2. QED
    BY <1>1 DEF Served

\* A step that keeps the files, ENGINES and whether main returned is an
\* abstract stutter.
LEMMA StutterRefines ==
  ASSUME UNCHANGED <<build, valid, present>>, Served' = Served,
         Running' = Running
  PROVE  UNCHANGED Reg!avars
  BY DEF Reg!avars

LEMMA InitRefines == Init => Reg!Init
  BY DEF Init, Reg!Init, Served, Running, Addr, Reg!Addr

\* Each step maps to a step of Registry or to a stutter.
LEMMA NextRefines == IInv /\ [Next]_vars => [Reg!Next]_Reg!avars
  <1> SUFFICES ASSUME IInv, [Next]_vars PROVE [Reg!Next]_Reg!avars
    OBVIOUS
  <1> USE DEF IInv, TypeOK
  \* Steps that change neither the files, ENGINES nor spc's exit.
  <1>1. CASE UNCHANGED <<build, valid, present, registry>> /\ Running' = Running
    <2>1. Served' = Served
      BY <1>1 DEF Served
    <2>2. QED
      BY <1>1, <2>1, StutterRefines
  <1>2. CASE WatchInstallOk
    <2>1. registry' = [registry EXCEPT ![widx] =
                          [gen |-> gen + 1, ver |-> build[widx], store |-> snap]]
      BY <1>2 DEF WatchInstallOk
    <2>2. Served' = [Served EXCEPT ![widx] = build[widx]]
      <3>1. [gen |-> gen + 1, ver |-> build[widx], store |-> snap] \in Instance
        BY DEF Instance
      <3>2. QED
        BY <2>1, <3>1 DEF Served
    <2>3. Reg!Serve(widx)
      BY <1>2, <2>2 DEF WatchInstallOk, Reg!Serve, Running, artifactVars,
         sessionVars
    <2>4. QED
      BY <2>3 DEF Reg!Next, Addr, Reg!Addr
  <1>3. CASE SessCallEnd
    <2>1. sCall \in Call
      BY <1>3 DEF SessCallEnd, SessionCallSet
    <2>2. Served' = Served
      BY <1>3, <2>1, ApplyServed DEF SessCallEnd
    <2>3. QED
      BY <1>3, <2>2, StutterRefines DEF SessCallEnd, artifactVars, Running
  <1>4. CASE HttpEnd
    <2>1. hCall \in Call
      BY <1>4 DEF HttpEnd
    <2>2. Served' = Served
      BY <1>4, <2>1, ApplyServed DEF HttpEnd
    <2>3. QED
      BY <1>4, <2>2, StutterRefines DEF HttpEnd, artifactVars, sessionVars,
         Running
  <1>5. CASE SessRecvFail \/ SessStartFail
    <2>1. Reg!Stop
      BY <1>5 DEF SessRecvFail, SessStartFail, Reg!Stop, Served, Running,
         artifactVars
    <2>2. QED
      BY <2>1 DEF Reg!Next
  <1>6. CASE \E i \in Addr : Rebuild(i)
    <2>1. PICK i \in Addr : Rebuild(i)
      BY <1>6
    <2>2. Reg!Build(i)
      BY <2>1 DEF Rebuild, Reg!Build, Served, Running, sessionVars
    <2>3. QED
      BY <2>2 DEF Reg!Next, Addr, Reg!Addr
  <1>7. CASE \E i \in Addr : Vanish(i)
    <2>1. PICK i \in Addr : Vanish(i)
      BY <1>7
    <2>2. Reg!Remove(i)
      BY <2>1 DEF Vanish, Reg!Remove, Served, Running, sessionVars
    <2>3. QED
      BY <2>2 DEF Reg!Next, Addr, Reg!Addr
  <1>8. QED
    <2>1. CASE WatchPollMissing \/ WatchPollUnchanged \/ WatchPollChanged
                \/ WatchCopy \/ WatchInstallFail \/ SessRecv \/ SessStart
                \/ (\E k \in Kinds : SessCallBegin(k))
                \/ (\E t \in Addr : SessSwitch(t))
                \/ (\E a \in Addr, k \in Kinds : HttpBegin(a, k))
                \/ Terminated \/ UNCHANGED vars
      <3>1. UNCHANGED <<build, valid, present, registry>> /\ Running' = Running
        BY <2>1 DEF WatchPollMissing, WatchPollUnchanged, WatchPollChanged,
           WatchCopy, WatchInstallFail, SessRecv, SessStart, SessCallBegin,
           SessSwitch, HttpBegin, Terminated, vars, artifactVars, sessionVars,
           Running
      <3>2. QED
        BY <3>1, <1>1
    <2>2. QED
      BY <2>1, <1>2, <1>3, <1>4, <1>5, <1>6, <1>7 DEF Next, Watcher, Session

\* The detailed specification implements the abstract registry: ENGINES
\* only ever serves the build insert_engine read from the file at the
\* install, and no failed build, call or switch empties or rolls back an
\* address (spec 8: a failed replacement keeps the usable instance).
THEOREM Refinement == Spec => RegistrySpec
  <1>1. Spec => []IInv
    BY IInvHolds
  <1>2. QED
    BY <1>1, InitRefines, NextRefines, PTL DEF Spec, RegistrySpec, Reg!Spec


\* Through the refinement, what the abstract registry guarantees holds of
\* the threads of main.rs: the build an address of ENGINES serves never goes
\* back, whatever the watcher, the session and the REST worker interleave.
THEOREM ServedNeverRollsBack == Spec => Reg!ServedMonotone
  BY Refinement, Reg!ServedMonotoneHolds DEF RegistrySpec

=============================================================================
