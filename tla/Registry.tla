------------------------------ MODULE Registry ------------------------------
(***************************************************************************)
(* What the contract registry of cosmwasm-simulate promises (spec 4.4,     *)
(* 4.5), with no threads: for each address it serves a build that the     *)
(* artifact file held and that loaded, or nothing yet.  Serving a build is *)
(* one atomic step that reads the file as it is now; an address once      *)
(* served is never emptied, and while the process is up every loadable    *)
(* build the file holds is eventually served.                             *)
(***************************************************************************)
EXTENDS Naturals, TLAPS

CONSTANTS N, InitValid, MaxMtime, MayVanish

Addr == 1..N

VARIABLES
    build, valid, present,  \* the artifact files: build number, loadable, exists
    served,                 \* the version served per address, 0 for none
    up                      \* the process has not ended

avars == <<build, valid, present, served, up>>

Init ==
    /\ build = [i \in Addr |-> 1]
    /\ valid = [i \in Addr |-> i \in InitValid]
    /\ present = [i \in Addr |-> TRUE]
    /\ served = [i \in Addr |-> 0]
    /\ up = TRUE

\* The registry installs the file's current build, if it loads.
Serve(i) ==
    /\ up
    /\ present[i] /\ valid[i]
    /\ served' = [served EXCEPT ![i] = build[i]]
    /\ UNCHANGED <<build, valid, present, up>>

\* The build tool writes a new build, loadable or not.
Build(i) ==
    /\ up
    /\ build[i] < MaxMtime
    /\ build' = [build EXCEPT ![i] = @ + 1]
    /\ \E b \in BOOLEAN : valid' = [valid EXCEPT ![i] = b]
    /\ present' = [present EXCEPT ![i] = TRUE]
    /\ UNCHANGED <<served, up>>

\* The build tool removes a file before writing it again.
Remove(i) ==
    /\ up
    /\ MayVanish
    /\ present[i]
    /\ present' = [present EXCEPT ![i] = FALSE]
    /\ UNCHANGED <<build, valid, served, up>>

\* The process ends.
Stop ==
    /\ up
    /\ up' = FALSE
    /\ UNCHANGED <<build, valid, present, served>>

Next == Stop \/ \E i \in Addr : Serve(i) \/ Build(i) \/ Remove(i)

Spec == Init /\ [][Next]_avars

\* Hot reload: a loadable build that stays in place is eventually served.
FairSpec == Spec /\ \A i \in Addr : WF_avars(Serve(i))

-----------------------------------------------------------------------------
(* What the abstract registry guarantees.                                  *)

\* No address serves a build the file has not reached.
ServedNotAhead ==
    /\ build \in [Addr -> Nat] /\ served \in [Addr -> Nat]
    /\ \A i \in Addr : served[i] <= build[i]

\* Hot reload only moves forward: the build an address serves never goes
\* back to an older one, and a served address is never emptied.
ServedMonotone == [][\A i \in Addr : served'[i] >= served[i]]_avars

LEMMA ServedNotAheadStep == ServedNotAhead /\ [Next]_avars => ServedNotAhead'
  <1> SUFFICES ASSUME ServedNotAhead, [Next]_avars PROVE ServedNotAhead'
    OBVIOUS
  <1>1. CASE Stop
    BY <1>1 DEF Stop, ServedNotAhead
  <1>2. ASSUME NEW i \in Addr, Serve(i) \/ Build(i) \/ Remove(i)
        PROVE  ServedNotAhead'
    BY <1>2 DEF Serve, Build, Remove, ServedNotAhead
  <1>3. CASE UNCHANGED avars
    BY <1>3 DEF avars, ServedNotAhead
  <1>4. QED
    BY <1>1, <1>2, <1>3 DEF Next

\* Every reachable state of the abstract registry serves no future build.
THEOREM ServedNotAheadHolds == Spec => []ServedNotAhead
  <1>1. Init => ServedNotAhead
    BY DEF Init, ServedNotAhead
  <1>2. QED
    BY <1>1, ServedNotAheadStep, PTL DEF Spec

\* A serve installs the file's build, which is at least the one served.
LEMMA ServedMonotoneStep ==
  ServedNotAhead /\ [Next]_avars => [\A i \in Addr : served'[i] >= served[i]]_avars
  <1> SUFFICES ASSUME ServedNotAhead, [Next]_avars
               PROVE  \A i \in Addr : served'[i] >= served[i]
    OBVIOUS
  <1>1. ASSUME NEW j \in Addr, Serve(j) PROVE \A i \in Addr : served'[i] >= served[i]
    BY <1>1 DEF Serve, ServedNotAhead
  <1>2. CASE served' = served
    BY <1>2 DEF ServedNotAhead
  <1>3. QED
    BY <1>1, <1>2 DEF Next, Build, Remove, Stop, avars

\* The abstract registry never rolls an address back.
THEOREM ServedMonotoneHolds == Spec => ServedMonotone
  BY ServedNotAheadHolds, ServedMonotoneStep, PTL DEF Spec, ServedMonotone

=============================================================================
