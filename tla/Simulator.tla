------------------------------ MODULE Simulator ------------------------------
(***************************************************************************)
(* The contract registry ENGINES of cosmwasm-simulate (src/src/main.rs) and *)
(* the three threads that use it with no lock between them:                 *)
(*   - the watcher thread (watch_and_update) polls the artifact files and   *)
(*     (re)installs an instance per address, copying the old storage;       *)
(*   - the session thread (main: recv, start_simulate_forever, the          *)
(*     simulate_by_* loops) holds a &mut into ENGINES for as long as it     *)
(*     works on one contract, dispatches calls and switches contract;       *)
(*   - the REST worker (call_engine, one rocket worker) looks an address up *)
(*     on each request and calls it.                                        *)
(* The build tool that rewrites the artifacts is the environment.           *)
(*                                                                          *)
(* Data is abstracted: an instance is the artifact version it was built     *)
(* from, a generation number naming it, and its storage as the number of    *)
(* handle writes it holds.  ENGINES.insert of an existing key replaces the  *)
(* value in its slot; of a new key it may grow and move the table, which    *)
(* the counter epoch records: a reference taken before a move dangles.      *)
(***************************************************************************)
EXTENDS Naturals, FiniteSets

CONSTANTS
    N,            \* number of entries of wasm_files; entry i has address i
    Schema,       \* addresses whose module exports message schemas
    InitValid,    \* artifacts that hold a loadable module at startup
    MaxMtime,     \* bound on rebuilds: builds are numbered 1..MaxMtime
    MaxCalls,     \* bound on calls dispatched, by the session and REST together
    MaxSwitches,  \* bound on the contract switches the operator makes
    ChanBound,    \* saturation bound of the count of queued ready messages
    HttpEnabled,  \* the REST server was started (a port argument was given)
    MayVanish,    \* the build tool may remove an artifact before rewriting it
    CoarseClock,  \* two writes of an artifact may fall in one timestamp tick
    NoInstance,   \* ENGINES has no entry for the address
    NoCall        \* no call in flight

Addr == 1..N

Kinds == {"init", "handle", "query"}

\* An installed ContractInstance: which install made it, from which artifact
\* version, and the storage it holds.
Instance == [gen : Nat, ver : Nat, store : Nat]

\* A call in flight: the address, the instance it was dispatched to and the
\* table epoch of the reference it runs through.
Call == [addr : Addr, gen : Nat, epoch : Nat, kind : Kinds]

ASSUME ConstAssumption ==
    /\ N \in Nat \ {0}
    /\ Schema \subseteq Addr
    /\ InitValid \subseteq Addr
    /\ MaxMtime \in Nat \ {0}
    /\ MaxCalls \in Nat
    /\ MaxSwitches \in Nat
    /\ ChanBound \in Nat \ {0}
    /\ HttpEnabled \in BOOLEAN
    /\ MayVanish \in BOOLEAN
    /\ CoarseClock \in BOOLEAN
    /\ NoInstance \notin Instance
    /\ NoCall \notin Call

\* SystemTime::now() when the watcher starts (main.rs:632): no existing
\* artifact has this modification time.
StartTime == 0

VARIABLES
    build,                  \* the artifact files, written by the build tool:
    mtime, valid, present,  \*   build number, modification time, loadable, exists
    registry,               \* ENGINES: address -> instance or NoInstance
    epoch,                  \* number of times the ENGINES table may have moved
    gen,                    \* number of instances installed so far
    wpc, widx, seen, snap,  \* watcher: step, index, modified_files, storage copy
    queued,                 \* ready messages sent and not yet received
    spc, active, heldEpoch, \* session: step, contract, epoch of its &mut
    depth, sCall,           \*   start_simulate_forever recursion, call in flight
    hCall,                  \* REST worker: call in flight
    writes,                 \* handle calls answered, per address
    calls                   \* calls dispatched so far

artifactVars == <<build, mtime, valid, present>>
watcherVars == <<wpc, widx, seen, snap>>
sessionVars == <<spc, active, heldEpoch, depth, sCall>>
vars == <<artifactVars, registry, epoch, gen, watcherVars, queued,
          sessionVars, hCall, writes, calls>>

Registered == {a \in Addr : registry[a] # NoInstance}

\* The process runs until main returns.
Running == spc # "exited"

-----------------------------------------------------------------------------
TypeOK ==
    /\ build \in [Addr -> 1..MaxMtime]
    /\ mtime \in [Addr -> 1..MaxMtime]
    /\ valid \in [Addr -> BOOLEAN]
    /\ present \in [Addr -> BOOLEAN]
    /\ registry \in [Addr -> Instance \cup {NoInstance}]
    /\ epoch \in Nat
    /\ gen \in Nat
    /\ wpc \in {"poll", "copy", "install", "dead"}
    /\ widx \in Addr
    /\ seen \in [Addr -> 0..MaxMtime]
    /\ snap \in Nat
    /\ queued \in 0..ChanBound
    /\ spc \in {"await_ready", "start", "loop", "calling", "exited"}
    /\ active \in Addr
    /\ heldEpoch \in Nat
    /\ depth \in 0..MaxSwitches
    /\ sCall \in Call \cup {NoCall}
    /\ hCall \in Call \cup {NoCall}
    /\ writes \in [Addr -> Nat]
    /\ calls \in 0..MaxCalls

Init ==
    /\ build = [i \in Addr |-> 1]
    /\ mtime = [i \in Addr |-> 1]
    /\ valid = [i \in Addr |-> i \in InitValid]
    /\ present = [i \in Addr |-> TRUE]
    /\ registry = [a \in Addr |-> NoInstance]
    /\ epoch = 0
    /\ gen = 0
    /\ wpc = "poll"
    /\ widx = 1
    /\ seen = [i \in Addr |-> StartTime]
    /\ snap = 0
    /\ queued = 0
    /\ spc = "await_ready"
    /\ active = 1
    /\ heldEpoch = 0
    /\ depth = 0
    /\ sCall = NoCall
    /\ hCall = NoCall
    /\ writes = [a \in Addr |-> 0]
    /\ calls = 0

-----------------------------------------------------------------------------
(* Watcher thread: one iteration of the for loop of watch_and_update per   *)
(* artifact, and after the last one the ready message and the 1 s sleep.  *)

\* Mutant of Advance: the loop bound is off by one (0..=len) and the index
\* runs past the last artifact.
AdvanceNoWrap ==
    /\ widx' = widx + 1
    /\ UNCHANGED queued

\* End of one iteration: next artifact, or after the last one send the
\* first contract's address on the channel and start the next pass.
Advance ==
    IF widx = N
    THEN /\ widx' = 1
         /\ queued' = IF queued < ChanBound THEN queued + 1 ELSE queued
    ELSE /\ widx' = widx + 1
         /\ UNCHANGED queued

\* fs::metadata(wasm_file)? fails: the ? returns the error out of the loop,
\* the thread ends and the channel's sender is dropped.
WatchPollMissing ==
    /\ Running
    /\ wpc = "poll"
    /\ ~present[widx]
    /\ wpc' = "dead"
    /\ UNCHANGED <<artifactVars, registry, epoch, gen, widx, seen, snap,
                   queued, sessionVars, hCall, writes, calls>>

\* The modification time equals modified_files[index]: continue.
WatchPollUnchanged ==
    /\ Running
    /\ wpc = "poll"
    /\ present[widx]
    /\ mtime[widx] = seen[widx]
    /\ Advance
    /\ UNCHANGED <<artifactVars, registry, epoch, gen, wpc, seen, snap,
                   sessionVars, hCall, writes, calls>>

\* Mutant of WatchPollChanged: only the None branch installs; a changed
\* artifact of an installed contract is recorded and never reloaded.
WatchPollChangedNoReload ==
    /\ Running
    /\ wpc = "poll"
    /\ present[widx]
    /\ mtime[widx] # seen[widx]
    /\ seen' = [seen EXCEPT ![widx] = mtime[widx]]
    /\ IF registry[widx] # NoInstance
       THEN wpc' = "poll" /\ UNCHANGED snap /\ Advance
       ELSE wpc' = "install" /\ snap' = 0 /\ UNCHANGED <<widx, queued>>
    /\ UNCHANGED <<artifactVars, registry, epoch, gen, sessionVars, hCall,
                   writes, calls>>

\* Mutant of WatchPollChanged: the None branch does not reset the storage
\* to MockStorage::default() and installs on whatever storage the watcher
\* copied last, which may be another contract's.
WatchPollChangedKeepSnap ==
    /\ Running
    /\ wpc = "poll"
    /\ present[widx]
    /\ mtime[widx] # seen[widx]
    /\ seen' = [seen EXCEPT ![widx] = mtime[widx]]
    /\ wpc' = IF registry[widx] # NoInstance THEN "copy" ELSE "install"
    /\ UNCHANGED <<artifactVars, registry, epoch, gen, widx, snap, queued,
                   sessionVars, hCall, writes, calls>>

\* A new modification time: record it; an address with an instance goes on
\* to copy its storage, one without is installed on MockStorage::default().
WatchPollChanged ==
    /\ Running
    /\ wpc = "poll"
    /\ present[widx]
    /\ mtime[widx] # seen[widx]
    /\ seen' = [seen EXCEPT ![widx] = mtime[widx]]
    /\ IF registry[widx] # NoInstance
       THEN wpc' = "copy" /\ UNCHANGED snap
       ELSE wpc' = "install" /\ snap' = 0
    /\ UNCHANGED <<artifactVars, registry, epoch, gen, widx, queued,
                   sessionVars, hCall, writes, calls>>

\* After the 100 ms sleep, eng.instance.with_storage hands the current
\* storage of the installed instance to insert_engine, which copies it.
WatchCopy ==
    /\ Running
    /\ wpc = "copy"
    /\ snap' = registry[widx].store
    /\ wpc' = "install"
    /\ UNCHANGED <<artifactVars, registry, epoch, gen, widx, seen, queued,
                   sessionVars, hCall, writes, calls>>

\* Mutant of WatchInstallOk: the Err of new_instance is not checked and a
\* build that does not load replaces the serving instance.
WatchInstallOkUnchecked ==
    /\ Running
    /\ wpc = "install"
    /\ present[widx]
    /\ registry' = [registry EXCEPT ![widx] =
                        [gen |-> gen + 1, ver |-> build[widx], store |-> snap]]
    /\ gen' = gen + 1
    /\ IF registry[widx] = NoInstance
       THEN epoch' \in {epoch, epoch + 1}
       ELSE UNCHANGED epoch
    /\ wpc' = "poll"
    /\ Advance
    /\ UNCHANGED <<artifactVars, seen, snap, sessionVars, hCall, writes, calls>>

\* insert_engine: ContractInstance::new_instance reads the artifact as it is
\* now and succeeds; ENGINES.insert replaces the slot of a known address, and
\* for a new address may grow and move the table.
WatchInstallOk ==
    /\ Running
    /\ wpc = "install"
    /\ present[widx] /\ valid[widx]
    /\ registry' = [registry EXCEPT ![widx] =
                        [gen |-> gen + 1, ver |-> build[widx], store |-> snap]]
    /\ gen' = gen + 1
    /\ IF registry[widx] = NoInstance
       THEN epoch' \in {epoch, epoch + 1}
       ELSE UNCHANGED epoch
    /\ wpc' = "poll"
    /\ Advance
    /\ UNCHANGED <<artifactVars, seen, snap, sessionVars, hCall, writes, calls>>

\* Mutant of WatchInstallFail: the old entry is removed before the new
\* instance is built, so a failed build leaves the address empty.
WatchInstallFailDrops ==
    /\ Running
    /\ wpc = "install"
    /\ ~(present[widx] /\ valid[widx])
    /\ registry' = [registry EXCEPT ![widx] = NoInstance]
    /\ wpc' = "poll"
    /\ Advance
    /\ UNCHANGED <<artifactVars, epoch, gen, seen, snap,
                   sessionVars, hCall, writes, calls>>

\* insert_engine: new_instance fails; the error is printed and ENGINES is
\* left as it was.
WatchInstallFail ==
    /\ Running
    /\ wpc = "install"
    /\ ~(present[widx] /\ valid[widx])
    /\ wpc' = "poll"
    /\ Advance
    /\ UNCHANGED <<artifactVars, registry, epoch, gen, seen, snap,
                   sessionVars, hCall, writes, calls>>

Watcher ==
    \/ WatchPollMissing \/ WatchPollUnchanged \/ WatchPollChanged
    \/ WatchCopy \/ WatchInstallOk \/ WatchInstallFail

-----------------------------------------------------------------------------
(* A call returning.  The engine ran it on the instance it was dispatched   *)
(* to; a handle call wrote that instance's storage.  If the slot now holds  *)
(* another instance, or the table moved under the reference, the write went *)
(* to a dropped instance.  writes counts the handle calls the caller saw    *)
(* answered.                                                                *)
Landed(c) ==
    /\ c.kind = "handle"
    /\ registry[c.addr] # NoInstance
    /\ registry[c.addr].gen = c.gen
    /\ c.epoch = epoch

Apply(c) ==
    /\ registry' = IF Landed(c)
                   THEN [registry EXCEPT ![c.addr].store = @ + 1]
                   ELSE registry
    /\ writes' = IF c.kind = "handle"
                 THEN [writes EXCEPT ![c.addr] = @ + 1]
                 ELSE writes

-----------------------------------------------------------------------------
(* Session thread.                                                         *)

\* receiver.recv() returns the first contract's address.
SessRecv ==
    /\ Running
    /\ spc = "await_ready"
    /\ queued > 0
    /\ queued' = queued - 1
    /\ active' = 1
    /\ spc' = "start"
    /\ UNCHANGED <<artifactVars, registry, epoch, gen, watcherVars,
                   heldEpoch, depth, sCall, hCall, writes, calls>>

\* receiver.recv() fails: the watcher ended before sending; main returns.
SessRecvFail ==
    /\ Running
    /\ spc = "await_ready"
    /\ queued = 0
    /\ wpc = "dead"
    /\ spc' = "exited"
    /\ UNCHANGED <<artifactVars, registry, epoch, gen, watcherVars, queued,
                   active, heldEpoch, depth, sCall, hCall, writes, calls>>

\* start_simulate: ENGINES.get_mut finds the contract; the session keeps the
\* &mut for its whole loop.
SessStart ==
    /\ Running
    /\ spc = "start"
    /\ registry[active] # NoInstance
    /\ spc' = "loop"
    /\ heldEpoch' = epoch
    /\ UNCHANGED <<artifactVars, registry, epoch, gen, watcherVars, queued,
                   active, depth, sCall, hCall, writes, calls>>

\* start_simulate returns Err "No engine found"; start_simulate_forever
\* returns false and so does main: the process ends.
SessStartFail ==
    /\ Running
    /\ spc = "start"
    /\ registry[active] = NoInstance
    /\ spc' = "exited"
    /\ UNCHANGED <<artifactVars, registry, epoch, gen, watcherVars, queued,
                   active, heldEpoch, depth, sCall, hCall, writes, calls>>

\* The operator picks init, handle or query; engine.call runs through the
\* held reference on whatever the slot holds.
SessCallBegin(k) ==
    /\ Running
    /\ spc = "loop"
    /\ calls < MaxCalls
    /\ sCall' = [addr |-> active, gen |-> registry[active].gen,
                 epoch |-> heldEpoch, kind |-> k]
    /\ calls' = calls + 1
    /\ spc' = "calling"
    /\ UNCHANGED <<artifactVars, registry, epoch, gen, watcherVars, queued,
                   active, heldEpoch, depth, hCall, writes>>

SessCallEnd ==
    /\ Running
    /\ spc = "calling"
    /\ Apply(sCall)
    /\ sCall' = NoCall
    /\ spc' = "loop"
    /\ UNCHANGED <<artifactVars, epoch, gen, watcherVars, queued,
                   active, heldEpoch, depth, hCall, calls>>

\* get_call_type offers "switch" when ENGINES holds more than one contract
\* and rejects an unregistered target.  simulate_by_json returns to
\* start_simulate_forever when the target is another contract; the auto
\* loop compares the address with the empty call_param and always returns.
SessSwitch(t) ==
    /\ Running
    /\ spc = "loop"
    /\ Cardinality(Registered) > 1
    /\ depth < MaxSwitches
    /\ registry[t] # NoInstance
    /\ active \notin Schema => t # active
    /\ active' = t
    /\ depth' = depth + 1
    /\ spc' = "start"
    /\ UNCHANGED <<artifactVars, registry, epoch, gen, watcherVars, queued,
                   heldEpoch, sCall, hCall, writes, calls>>

-----------------------------------------------------------------------------
(* REST worker (one rocket worker): call_engine looks the address up and    *)
(* calls it; an unknown address answers an error and changes nothing.      *)

HttpBegin(a, k) ==
    /\ Running
    /\ HttpEnabled
    /\ hCall = NoCall
    /\ registry[a] # NoInstance
    /\ calls < MaxCalls
    /\ hCall' = [addr |-> a, gen |-> registry[a].gen, epoch |-> epoch, kind |-> k]
    /\ calls' = calls + 1
    /\ UNCHANGED <<artifactVars, registry, epoch, gen, watcherVars, queued,
                   sessionVars, writes>>

HttpEnd ==
    /\ Running
    /\ hCall # NoCall
    /\ Apply(hCall)
    /\ hCall' = NoCall
    /\ UNCHANGED <<artifactVars, epoch, gen, watcherVars, queued,
                   sessionVars, calls>>

-----------------------------------------------------------------------------
(* Environment: the build tool writes a new artifact, loadable or not, or  *)
(* removes one before writing it again.                                    *)

Rebuild(i) ==
    /\ Running
    /\ build[i] < MaxMtime
    /\ build' = [build EXCEPT ![i] = @ + 1]
    /\ \E t \in IF CoarseClock THEN {mtime[i], mtime[i] + 1} ELSE {mtime[i] + 1} :
          mtime' = [mtime EXCEPT ![i] = t]
    /\ \E b \in BOOLEAN : valid' = [valid EXCEPT ![i] = b]
    /\ present' = [present EXCEPT ![i] = TRUE]
    /\ UNCHANGED <<registry, epoch, gen, watcherVars, queued, sessionVars,
                   hCall, writes, calls>>

Vanish(i) ==
    /\ Running
    /\ MayVanish
    /\ present[i]
    /\ present' = [present EXCEPT ![i] = FALSE]
    /\ UNCHANGED <<build, mtime, valid, registry, epoch, gen, watcherVars, queued,
                   sessionVars, hCall, writes, calls>>

\* After main returns nothing happens any more.
Terminated ==
    /\ spc = "exited"
    /\ UNCHANGED vars

-----------------------------------------------------------------------------
Session ==
    \/ SessRecv \/ SessRecvFail \/ SessStart \/ SessStartFail \/ SessCallEnd
    \/ \E k \in Kinds : SessCallBegin(k)
    \/ \E t \in Addr : SessSwitch(t)

Next ==
    \/ Watcher
    \/ Session
    \/ \E a \in Addr, k \in Kinds : HttpBegin(a, k)
    \/ HttpEnd
    \/ \E i \in Addr : Rebuild(i) \/ Vanish(i)
    \/ Terminated

Spec == Init /\ [][Next]_vars

\* The watcher and the session are threads that run whenever they can; a
\* call runs to completion.  The operator's choices (calls, switches) and the
\* build tool are not assumed to happen.
FairSpec ==
    /\ Spec
    /\ WF_vars(Watcher)
    /\ WF_vars(SessRecv \/ SessRecvFail \/ SessStart \/ SessStartFail \/ SessCallEnd)
    /\ WF_vars(HttpEnd)

-----------------------------------------------------------------------------
(* Properties.                                                             *)

\* After the session has switched, the contract it starts on and every
\* contract it dispatches calls to is in ENGINES.  Rests on get_call_type
\* refusing an unregistered target, start_simulate checking the first one,
\* and the watcher never taking an entry out (a failed reinstall leaves the
\* old instance serving).
SessionContractRegistered ==
    (spc \in {"loop", "calling"} \/ (spc = "start" /\ depth > 0))
        => registry[active] # NoInstance

\* Spec 8: a value written by a handle call before a hot reload is still
\* there after it: the storage of each installed instance holds every
\* handle write a caller saw answered for that address.
StorageNotLost == \A a \in Registered : registry[a].store = writes[a]

\* The other half of spec 8: a hot reload never duplicates or replays a
\* write.  The storage insert_engine copies into the new instance
\* (with_storage, main.rs) is the one of the instance it replaces, so every
\* installed instance holds at most the handle writes callers saw answered
\* for its address; writes may be lost (StorageNotLost), never invented.
StorageNoPhantom == \A a \in Registered : registry[a].store <= writes[a]

\* Spec 5: calls on one contract are serialized: the session and the REST
\* worker never run a call on the same contract at the same time.
CallsSerialized ==
    ~(spc = "calling" /\ hCall # NoCall /\ hCall.addr = active)

\* The &mut the session keeps into ENGINES for its loop (start_simulate) is
\* valid: the table has not moved since the session took it.
SessionRefValid == spc \in {"loop", "calling"} => heldEpoch = epoch

\* Spec 4.6: choosing the active contract as switch target repeats the loop;
\* only another contract returns to start_simulate_forever.
SwitchLeavesContract ==
    [][spc = "loop" /\ spc' = "start" => active' # active]_vars

\* Spec 7: an artifact that fails to load at startup is left out and the
\* others proceed: the session does not end while a contract is installed
\* and the watcher runs.
SessionOutlivesFailedLoad ==
    spc = "exited" => wpc = "dead" \/ Registered = {}

-----------------------------------------------------------------------------
(* Refinement: the threads of main.rs implement the abstract registry.    *)
(* An address serves the version of its installed instance; the process  *)
(* is up until main returns.                                              *)

Served == [a \in Addr |-> IF registry[a] = NoInstance THEN 0 ELSE registry[a].ver]

Reg == INSTANCE Registry WITH served <- Served, up <- Running

\* Every step of the watcher, the session, the REST worker and the build
\* tool is a step of the abstract registry or leaves it unchanged: an entry
\* of ENGINES only ever changes to the build insert_engine just read from
\* the file, and a failed build or a call never empties or rolls it back.
RegistrySpec == Reg!Spec

\* With the fairness of the threads, the abstract hot reload is met: the
\* watcher's poll loop eventually installs a loadable build that stays in
\* place, whatever the session and the REST worker do meanwhile.
RegistryFair == Reg!FairSpec

=============================================================================
