-------------------------- MODULE FaultTestsProofs --------------------------
(***************************************************************************)
(* What fault tests leave behind, for every list of faults, any number of  *)
(* sessions, and commands that fail anywhere.  Stage says what a test has  *)
(* reached; the four parts after it follow the settings it breaks, the     *)
(* leaks, the path it found sound, and the results written so far.         *)
(***************************************************************************)
EXTENDS FaultTests, TLAPS

Stages == {"healthy", "inject", "probe", "restore", "recovery", "record"}

Stage ==
    /\ pc \in Stages => current \in DOMAIN Faults
    /\ pc \in Stages \ {"record"} => result # None /\ ~result.recovered
    /\ pc \in {"healthy", "inject", "probe", "recovery"} => passing
    /\ killed = 0 => results # None

(* Only the setting of the fault itself is broken, only while it is in.    *)
Restored ==
    ~erred /\ killed = 0 =>
        /\ pc \in {"probe", "restore"} =>
               broken \subseteq TakenVlans \cup Changes(fault) /\ restore \subseteq TakenVlans
        /\ pc \notin {"probe", "restore"} => broken \subseteq TakenVlans

Noticed == broken \ (TakenVlans \cup Spared \cup {<<"mtu", m>> : m \in Members})

Reported(s) ==
    \E i \in DOMAIN results :
        ~results[i].recovered /\ s \in Changes(Faults[results[i].fault])

(* A leak is reported, or is the current test's, which has yet to look.    *)
Pending(s) ==
    /\ pc \in {"probe", "restore", "recovery", "record"}
    /\ s \in Changes(fault)
    /\ pc = "record" => ~result.recovered

Leaks ==
    killed = 0 =>
        /\ pc \in {"probe", "restore"} => restore \subseteq Changes(fault)
        /\ \A s \in Noticed : Reported(s) \/ Pending(s)

Sound ==
    /\ pc = "healthy" => before = broken
    /\ pc \in {"inject", "probe", "restore", "recovery"} => Answered(fault, before)

(* The results are those of whole sessions and of the tests of this one.   *)
Kept ==
    killed = 0 =>
        /\ session = 0 => pc = "over" /\ results = <<>>
        /\ session > 0 /\ pc = "over" => current = Len(Faults) + 1
        /\ session > 0 => Len(results) = (session - 1) * Len(Faults) + (current - 1)
        /\ \A i \in DOMAIN results : results[i].fault = ((i - 1) % Len(Faults)) + 1

-----------------------------------------------------------------------------
LEMMA FaultChanges ==
    ASSUME current \in DOMAIN Faults
    PROVE  /\ Changes(fault) \subseteq Settings /\ Own(fault) \subseteq Changes(fault)
           /\ Changes(fault) \subseteq Own(fault) \cup TakenVlans
BY DEF fault, Settings, Changes, TakenVlans

LEMMA LenFaults == Len(Faults) \in Nat /\ DOMAIN Faults = 1..Len(Faults)
BY FaultsAssumption

(* The types and the stage of a test, preserved by every step.             *)
LEMMA StageInit == Init => TypeOK /\ Stage
<1> SUFFICES ASSUME Init PROVE TypeOK /\ Stage
  OBVIOUS
<1> USE FaultsAssumption, NoneAssumption, LenFaults DEF Init
<1>1. broken \subseteq Settings /\ converging \subseteq DOMAIN Faults /\ before \subseteq Settings
  OBVIOUS
<1>2. results \in Seq(Results)
  OBVIOUS
<1>3. current \in 1..Len(Faults) + 1
  OBVIOUS
<1>4. session \in 0..Sessions /\ killed \in 0..Kills
  OBVIOUS
<1>5. QED
  BY <1>1, <1>2, <1>3, <1>4 DEF TypeOK, Stage, Stages, Between

LEMMA StageStep == TypeOK /\ Stage /\ [Next]_vars => TypeOK' /\ Stage'
<1> SUFFICES ASSUME TypeOK, Stage, [Next]_vars PROVE TypeOK' /\ Stage'
  OBVIOUS
<1> USE FaultsAssumption, NoneAssumption, LenFaults DEF TypeOK, Stage, Stages, Between, network, bounds
<1>1. CASE StartSession
  BY <1>1 DEF StartSession
<1>2. CASE StartTest
  <2>1. result' \in Results /\ result'.fault = current' /\ ~result'.recovered
    BY <1>2 DEF StartTest, Results
  <2>2. UNCHANGED <<network, results, current, bounds, erred>> /\ pc' = "healthy"
        /\ restore' = None /\ passing' = TRUE /\ before' = broken /\ current \in DOMAIN Faults
    BY <1>2 DEF StartTest
  <2>3. QED BY <2>1, <2>2
<1>3. CASE EndSession
  BY <1>3 DEF EndSession
<1>4. CASE Reachable
  BY <1>4 DEF Reachable, Results
<1>5. CASE Unreachable
  BY <1>5 DEF Unreachable
<1>6. CASE Inject
  BY <1>6, FaultChanges DEF Inject, Rerouted
<1>7. CASE InjectFails
  BY <1>7, FaultChanges DEF InjectFails, Rerouted
<1>8. CASE ProbePath
  BY <1>8 DEF ProbePath
<1>9. CASE Restore
  BY <1>9 DEF Restore, Rerouted, AfterRestore
<1>10. CASE RestoreFails
  BY <1>10 DEF RestoreFails, Rerouted, AfterRestore
<1>11. CASE Record
  <2> DEFINE file == IF results = None THEN <<>> ELSE results
  <2>1. file \in Seq(Results) /\ result \in Results
    BY <1>11 DEF Record
  <2>2. Append(file, result) \in Seq(Results)
    BY <2>1
  <2>3. results' \in Seq(Results)
    BY <1>11, <2>2 DEF Record
  <2>4. current' \in 1..Len(Faults) + 1
    BY <1>11 DEF Record
  <2>5. QED BY <1>11, <2>3, <2>4 DEF Record, Ended
<1>12. CASE Kill
  <2>1. current' \in 1..Len(Faults) + 1 /\ killed' \in 1..Kills
        /\ results' \in Seq(Results) \cup {None}
    BY <1>12 DEF Kill
  <2>2. QED BY <1>12, <2>1 DEF Kill, Ended
<1>13. CASE Converge
  BY <1>13 DEF Converge
<1>14. CASE UNCHANGED vars
  BY <1>14 DEF vars
<1>15. QED
  BY <1>1, <1>2, <1>3, <1>4, <1>5, <1>6, <1>7, <1>8, <1>9, <1>10, <1>11, <1>12,
     <1>13, <1>14 DEF Next, TestStep

(* The settings and variables have their types, and a test is recorded as  *)
(* recovered exactly if nothing in it failed.                              *)
THEOREM TypesHold == Spec => []TypeOK
<1>1. Spec => [](TypeOK /\ Stage)
  BY StageInit, StageStep, PTL DEF Spec
<1>2. QED BY <1>1, PTL
-----------------------------------------------------------------------------
(* A test without failing commands restores what it broke.                 *)
LEMMA RestoredStep ==
    TypeOK /\ Stage /\ Restored /\ [Next]_vars => Restored'
<1> SUFFICES ASSUME TypeOK, Stage, Restored, [Next]_vars, ~erred', killed' = 0
             PROVE  /\ pc' \in {"probe", "restore"} =>
                          /\ broken' \subseteq TakenVlans \cup Changes(fault')
                          /\ restore' \subseteq TakenVlans
                    /\ pc' \notin {"probe", "restore"} => broken' \subseteq TakenVlans
  BY DEF Restored, fault
<1>1. killed \in Nat /\ killed + 1 # 0
  BY FaultsAssumption DEF TypeOK
<1>2. killed = 0 /\ ~erred /\ ~Kill /\ ~InjectFails /\ ~RestoreFails
  <2>1. ~Kill /\ ~InjectFails /\ ~RestoreFails
    <3>1. ~Kill
      BY <1>1 DEF Kill
    <3>2. ~InjectFails
      BY Zenon DEF InjectFails
    <3>3. ~RestoreFails
      BY Zenon DEF RestoreFails
    <3>4. QED BY <3>1, <3>2, <3>3
  <2>2. CASE StartSession \/ StartTest \/ EndSession \/ Reachable \/ Unreachable
    BY <2>1, <2>2 DEF bounds, StartSession, StartTest, EndSession, Reachable, Unreachable
  <2>3. CASE Inject \/ ProbePath \/ Restore
    BY <2>1, <2>3 DEF bounds, Inject, ProbePath, Restore
  <2>4. CASE Record \/ Converge \/ UNCHANGED vars
    BY <2>1, <2>4 DEF bounds, Record, Converge, vars
  <2>5. QED BY <2>1, <2>2, <2>3, <2>4 DEF Next, TestStep
<1> USE <1>2 DEF Restored, fault, network, bounds
<1>3. CASE StartSession
  BY <1>3 DEF StartSession
<1>4. CASE StartTest \/ EndSession
  BY <1>4 DEF StartTest, EndSession
<1>5. CASE Reachable \/ Unreachable
  BY <1>5 DEF Reachable, Unreachable
<1>6. CASE Inject
  <2>1. broken' \subseteq TakenVlans \cup Changes(fault)
    BY <1>6 DEF Inject
  <2>2. restore' \subseteq TakenVlans
    BY <1>6 DEF Inject
  <2>3. QED BY <1>6, <2>1, <2>2 DEF Inject
<1>7. CASE ProbePath
  BY <1>7 DEF ProbePath
<1>8. CASE Restore
  <2>1. current \in DOMAIN Faults
    BY <1>8 DEF Restore, Stage, Stages
  <2>2. broken' \subseteq TakenVlans
    BY <1>8, <2>1, FaultChanges DEF Restore
  <2>3. pc' \notin {"probe", "restore"}
    BY <1>8 DEF Restore, AfterRestore
  <2>4. QED BY <2>2, <2>3
<1>9. CASE Record
  BY <1>9 DEF Record
<1>10. CASE Converge
  BY <1>10 DEF Converge
<1>11. CASE UNCHANGED vars
  BY <1>11 DEF vars
<1>12. QED
  BY <1>2, <1>3, <1>4, <1>5, <1>6, <1>7, <1>8, <1>9, <1>10, <1>11 DEF Next, TestStep

(* When no command failed and no session was killed, a finished test left  *)
(* the network as configured but for the VLANs it took from other members. *)
THEOREM TestsAreUndone == Spec => []TestsRestore
<1>1. Init => Restored
  BY DEF Init, Restored
<1>2. Stage /\ Restored => TestsRestore
  BY DEF Restored, TestsRestore, Between
<1>3. Spec => [](TypeOK /\ Stage /\ Restored)
  BY <1>1, StageInit, StageStep, RestoredStep, PTL DEF Spec
<1>4. QED BY <1>2, <1>3, PTL
-----------------------------------------------------------------------------
(* The path that a test found sound before its injection was sound when the*)
(* test began.                                                             *)
LEMMA SoundStep == TypeOK /\ Stage /\ Sound /\ [Next]_vars => Sound'
<1> SUFFICES ASSUME TypeOK, Stage, Sound, [Next]_vars PROVE Sound'
  OBVIOUS
<1> USE DEF Sound, Answered, fault, network, bounds
<1>1. CASE Reachable
  <2>1. pc' = "inject" => Answered(fault, broken)
    BY <1>1 DEF Reachable, Codes
  <2>2. QED BY <1>1, <2>1 DEF Reachable
<1>2. CASE StartSession \/ StartTest \/ EndSession \/ Unreachable \/ Inject \/ InjectFails \/ ProbePath
  BY <1>2 DEF StartSession, StartTest, EndSession, Unreachable, Inject, InjectFails, ProbePath
<1>3. CASE Restore \/ RestoreFails
  BY <1>3 DEF Restore, RestoreFails, AfterRestore
<1>4. CASE Record \/ Kill \/ Converge \/ UNCHANGED vars
  BY <1>4 DEF Record, Kill, Converge, Ended, vars
<1>5. QED BY <1>1, <1>2, <1>3, <1>4 DEF Next, TestStep

(* An outage that a test accepts as its own was not there when it began.   *)
THEOREM OutagesAreOwn == Spec => []OutageOfThisFault
<1>1. Init => Sound
  BY DEF Init, Sound
<1>2. Sound => OutageOfThisFault
  BY DEF Sound, OutageOfThisFault
<1>3. Spec => [](TypeOK /\ Stage /\ Sound)
  BY <1>1, StageInit, StageStep, SoundStep, PTL DEF Spec
<1>4. QED BY <1>2, <1>3, PTL
-----------------------------------------------------------------------------
(* A setting that is in the way of a small ping, if any is.                *)
LEMMA NoticedOnPath ==
    ASSUME AcrossVteps, current \in DOMAIN Faults,
           NEW s \in Changes(fault), s \in Noticed
    PROVE  ~Answered(fault, broken)
<1> USE DEF Noticed
<1>1. s \in Own(fault)
  BY FaultChanges
<1>2. fault.type \in Types /\ fault.source \in Members /\ fault.destination \in Members
  <2> DEFINE F == [type : Types, segment : STRING, source : Members, destination : Members,
                   impact : {"outage", "no_outage"}, taken : Members \cup {None}]
  <2>1. Faults \in Seq(F)
    BY FaultsAssumption
  <2> HIDE DEF F
  <2>2. Faults[current] \in F
    BY <2>1
  <2>3. fault \in F
    BY <2>2 DEF fault
  <2>4. QED BY <2>3 DEF F
<1>3. Vtep[fault.source] # Vtep[fault.destination]
  BY DEF AcrossVteps, fault
<1>4. CASE fault.type = "remove_fdb_peer"
  <2>1. s = <<"fdb", <<Vtep[fault.source], fault.segment>>>>
    BY <1>1, <1>4 DEF Own
  <2>2. QED BY <1>3, <2>1 DEF Path, Answered
<1>5. CASE fault.type = "mtu_mismatch"
  BY <1>1, <1>2, <1>5 DEF Own
<1>6. CASE fault.type = "vlan_mismatch"
  BY <1>1, <1>6 DEF Own, Path, Answered
<1>7. CASE fault.type = "bounce_vtep_underlay"
  <2>1. s = <<"underlay", Vtep[fault.source]>>
    BY <1>1, <1>7 DEF Own
  <2>2. QED BY <1>3, <2>1 DEF Path, Answered
<1>8. CASE fault.type = "bgp_peer_shutdown"
  <2>1. s = <<"peer", <<Vtep[fault.source], Vtep[fault.destination]>>>>
    BY <1>1, <1>8 DEF Own
  <2>2. <<Vtep[fault.source], Vtep[fault.destination]>> \in DOMAIN Ways
    BY <1>2, <1>3, FaultsAssumption
  <2>3. ASSUME NEW way \in Ways[<<Vtep[fault.source], Vtep[fault.destination]>>]
        PROVE  <<Vtep[fault.source], Vtep[fault.destination]>> \in way
    BY <2>1, <2>2 DEF Spared
  <2>4. ASSUME NEW way \in Ways[<<Vtep[fault.source], Vtep[fault.destination]>>]
        PROVE  s \in Uses(way)
    BY <2>1, <2>3, <2>4 DEF Uses
  <2>5. QED BY <1>3, <2>4 DEF Answered
<1>9. CASE fault.type = "frr_restart"
  BY <1>1, <1>9 DEF Own
<1>10. QED
  BY <1>2, <1>4, <1>5, <1>6, <1>7, <1>8, <1>9 DEF Types

LEMMA LeaksStep ==
    ASSUME AcrossVteps, TypeOK, Stage, Leaks, [Next]_vars
    PROVE  Leaks'
<1> SUFFICES ASSUME killed' = 0
             PROVE  /\ pc' \in {"probe", "restore"} => restore' \subseteq Changes(fault')
                    /\ \A s \in Noticed' : Reported(s)' \/ Pending(s)'
  BY DEF Leaks
<1>1. killed = 0 /\ ~Kill
  <2>1. killed \in Nat /\ killed + 1 # 0
    BY FaultsAssumption DEF TypeOK
  <2>2. ~Kill
    BY <2>1 DEF Kill
  <2>3. UNCHANGED killed
    BY <2>2 DEF Next, TestStep, bounds, vars, StartSession, StartTest, EndSession, Reachable,
       Unreachable, Inject, InjectFails, ProbePath, Restore, RestoreFails, Record, Converge
  <2>4. QED BY <2>2, <2>3
<1>2. \A s \in Noticed : Reported(s) \/ Pending(s)
  BY <1>1 DEF Leaks
<1>3. pc \in {"probe", "restore"} => restore \subseteq Changes(fault)
  BY <1>1 DEF Leaks
<1>4. CASE StartSession \/ StartTest \/ EndSession \/ ProbePath \/ Converge \/ UNCHANGED vars
  BY <1>2, <1>3, <1>4 DEF StartSession, StartTest, EndSession, ProbePath, Converge, vars,
     Noticed, Reported, Pending, fault, network
<1>5. CASE Reachable
  <2>1. UNCHANGED <<broken, results, current>> /\ pc' \in {"inject", "record"}
    BY <1>5 DEF Reachable
  <2>2. ASSUME NEW s \in Noticed PROVE Reported(s)
    <3>1. current \in DOMAIN Faults /\ pc \in {"healthy", "recovery"}
      BY <1>5 DEF Reachable, Stage, Stages
    <3>2. Answered(fault, broken)
      BY <1>5 DEF Reachable, Codes
    <3>3. ~Pending(s)
      BY <3>1, <3>2, NoticedOnPath DEF Noticed, Pending
    <3>4. QED BY <1>2, <3>3
  <2>3. QED BY <2>1, <2>2 DEF Noticed, Reported
<1>6. CASE Unreachable
  <2>1. ~result.recovered
    BY <1>6 DEF Unreachable, Stage, Stages
  <2>2. QED
    BY <1>2, <1>6, <2>1 DEF Unreachable, Noticed, Reported, Pending, fault, network
<1>7. CASE Inject \/ InjectFails
  <2>1. UNCHANGED <<results, current, result>> /\ pc' \in {"probe", "record"} /\ pc = "inject"
    BY <1>7 DEF Inject, InjectFails
  <2>2. broken' \subseteq broken \cup Changes(fault)
    BY <1>7 DEF Inject, InjectFails
  <2>3. ~result.recovered /\ current \in DOMAIN Faults
    BY <2>1 DEF Stage, Stages
  <2>4. pc' = "probe" => restore' \subseteq Changes(fault)
    BY <1>7, <2>3, FaultChanges DEF Inject, InjectFails
  <2>5. ASSUME NEW s \in Noticed' PROVE Reported(s)' \/ Pending(s)'
    <3>1. CASE s \in Changes(fault)
      BY <2>1, <2>3, <3>1 DEF Pending, fault
    <3>2. CASE s \notin Changes(fault)
      BY <1>2, <2>1, <2>2, <3>2 DEF Noticed, Reported, Pending
    <3>3. QED BY <3>1, <3>2
  <2>6. QED BY <2>1, <2>4, <2>5 DEF fault
<1>8. CASE Restore \/ RestoreFails
  <2>1. UNCHANGED <<results, current, result>> /\ pc' \in {"recovery", "record"} /\ pc = "restore"
    BY <1>8 DEF Restore, RestoreFails, AfterRestore
  <2>2. broken' \subseteq broken \cup Changes(fault)
    BY <1>3, <1>8 DEF Restore, RestoreFails
  <2>3. ~result.recovered
    BY <2>1 DEF Stage, Stages
  <2>4. ASSUME NEW s \in Noticed' PROVE Reported(s)' \/ Pending(s)'
    <3>1. CASE s \in Changes(fault)
      BY <2>1, <2>3, <3>1 DEF Pending, fault
    <3>2. CASE s \notin Changes(fault)
      BY <1>2, <2>1, <2>2, <3>2 DEF Noticed, Reported, Pending
    <3>3. QED BY <3>1, <3>2
  <2>5. QED BY <2>1, <2>4
<1>9. CASE Record
  <2>1. results \in Seq(Results) /\ result \in Results /\ results' = Append(results, result)
    BY <1>1, <1>9 DEF Record, TypeOK, Stage, Between
  <2>2. /\ \A i \in DOMAIN results : i \in DOMAIN results' /\ results'[i] = results[i]
        /\ Len(results) + 1 \in DOMAIN results' /\ results'[Len(results) + 1] = result
    BY <2>1
  <2>3. UNCHANGED broken /\ pc' = "next" /\ pc = "record" /\ result.fault = current
    BY <1>9 DEF Record, network, TypeOK, Between
  <2>4. ASSUME NEW s \in Noticed' PROVE Reported(s)'
    <3>1. CASE Reported(s)
      BY <2>2, <3>1 DEF Reported
    <3>2. CASE Pending(s)
      BY <2>2, <2>3, <3>2 DEF Pending, Reported, fault
    <3>3. QED BY <1>2, <2>3, <3>1, <3>2 DEF Noticed
  <2>5. QED BY <2>3, <2>4
<1>10. QED
  BY <1>1, <1>4, <1>5, <1>6, <1>7, <1>8, <1>9 DEF Next, TestStep

(* With the members of every fault on two VTEPs, whatever is left broken,  *)
(* other than an MTU, a session that another way makes up for or the VLAN  *)
(* of another member, is behind a result that says not recovered, also     *)
(* when commands fail anywhere; however many reflectors there are.         *)
THEOREM LeaksAreRecorded ==
    ASSUME AcrossVteps
    PROVE  Spec => []LeaksRecorded
<1>1. Init => Leaks
  BY DEF Init, Leaks, Noticed
<1>2. Leaks => LeaksRecorded
  BY DEF Leaks, Pending, Reported, Noticed, LeaksRecorded, Recorded, Between
<1>3. TypeOK /\ Stage /\ Leaks /\ [Next]_vars => Leaks'
  BY LeaksStep
<1>4. Spec => [](TypeOK /\ Stage /\ Leaks)
  BY <1>1, <1>3, StageInit, StageStep, PTL DEF Spec
<1>5. QED BY <1>2, <1>4, PTL
-----------------------------------------------------------------------------
(* Position k of the s-th list of length l.                                *)
LEMMA Position ==
    ASSUME NEW s \in Nat, NEW l \in Nat, NEW k \in Nat, k < l
    PROVE  (s * l + k) % l = k
OBVIOUS

LEMMA KeptStep == TypeOK /\ Stage /\ Kept /\ [Next]_vars => Kept'
<1> DEFINE L == Len(Faults)
<1> SUFFICES ASSUME TypeOK, Stage, Kept, [Next]_vars, killed' = 0
             PROVE  /\ session' = 0 => pc' = "over" /\ results' = <<>>
                    /\ session' > 0 /\ pc' = "over" => current' = L + 1
                    /\ session' > 0 => Len(results') = (session' - 1) * L + (current' - 1)
                    /\ \A i \in DOMAIN results' : results'[i].fault = ((i - 1) % L) + 1
  BY DEF Kept
<1>1. /\ session \in Nat /\ L \in Nat /\ DOMAIN Faults = 1..L
      /\ current \in 1..L + 1
  BY LenFaults, FaultsAssumption DEF TypeOK
<1>2. killed = 0 /\ ~Kill
  <2>1. killed \in Nat /\ killed + 1 # 0
    BY FaultsAssumption DEF TypeOK
  <2>2. ~Kill
    BY <2>1 DEF Kill
  <2>3. UNCHANGED killed
    BY <2>2 DEF Next, TestStep, bounds, vars, StartSession, StartTest, EndSession, Reachable,
       Unreachable, Inject, InjectFails, ProbePath, Restore, RestoreFails, Record, Converge
  <2>4. QED BY <2>2, <2>3
<1>3. /\ session = 0 => pc = "over" /\ results = <<>>
      /\ session > 0 /\ pc = "over" => current = L + 1
      /\ session > 0 => Len(results) = (session - 1) * L + (current - 1)
      /\ \A i \in DOMAIN results : results[i].fault = ((i - 1) % L) + 1
  BY <1>2 DEF Kept
<1> HIDE DEF L
<1>4. CASE StartSession
  <2>1. pc = "over" /\ UNCHANGED results /\ pc' = "next" /\ current' = 1
        /\ session' = session + 1
    BY <1>4 DEF StartSession
  <2>2. Len(results) = session * L
    <3>1. CASE session = 0
      BY <1>1, <1>3, <3>1
    <3>2. CASE session > 0
      BY <1>1, <1>3, <2>1, <3>2
    <3>3. QED BY <1>1, <3>1, <3>2
  <2>3. QED BY <1>1, <1>3, <2>1, <2>2
<1>5. CASE EndSession
  <2>1. pc = "next" /\ pc' = "over" /\ UNCHANGED <<results, current, session>>
        /\ current \notin DOMAIN Faults
    BY <1>5 DEF EndSession, bounds
  <2>2. QED BY <1>1, <1>3, <2>1
<1>6. CASE Record
  <2>1. /\ results \in Seq(Results) /\ result.fault = current
        /\ results' = Append(results, result)
        /\ pc = "record" /\ pc' = "next" /\ current' = current + 1 /\ UNCHANGED session
    BY <1>2, <1>6 DEF Record, TypeOK, Stage, Between, bounds
  <2>2. current \in 1..L /\ session > 0
    BY <1>1, <1>3, <2>1 DEF Stage, Stages
  <2>3. Len(results) = (session - 1) * L + (current - 1)
    BY <1>3, <2>2
  <2>4. Len(results) % L = current - 1
    <3>1. session - 1 \in Nat /\ current - 1 \in Nat /\ current - 1 < L
      BY <1>1, <2>2
    <3>2. ((session - 1) * L + (current - 1)) % L = current - 1
      BY <1>1, <3>1, Position
    <3>3. QED BY <2>3, <3>2
  <2>5. Len(results') = Len(results) + 1
    BY <2>1
  <2>6. Len(results') = (session' - 1) * L + (current' - 1)
    <3> DEFINE earlier == (session - 1) * L
    <3>1. earlier \in Nat
      <4>1. session - 1 \in Nat
        BY <1>1, <2>2
      <4>2. QED BY <1>1, <4>1
    <3> HIDE DEF earlier
    <3>2. Len(results) + 1 = earlier + current
      BY <1>1, <2>3, <3>1 DEF earlier
    <3>3. Len(results') = earlier + (current' - 1)
      BY <1>1, <2>1, <2>5, <3>1, <3>2
    <3>4. QED BY <2>1, <3>3 DEF earlier
  <2>7. ASSUME NEW i \in DOMAIN results' PROVE results'[i].fault = ((i - 1) % L) + 1
    <3>1. CASE i \in DOMAIN results
      BY <1>3, <2>1, <3>1
    <3>2. CASE i \notin DOMAIN results
      <4>1. i = Len(results) + 1 /\ results'[i] = result
        BY <2>1, <3>2
      <4>2. i - 1 = Len(results)
        BY <2>1, <4>1
      <4>3. QED BY <1>1, <2>1, <2>4, <4>1, <4>2
    <3>3. QED BY <3>1, <3>2
  <2>8. QED BY <1>1, <2>1, <2>2, <2>6, <2>7
<1>7. CASE StartTest \/ Reachable \/ Unreachable \/ Inject \/ InjectFails \/ ProbePath
           \/ Restore \/ RestoreFails \/ Converge \/ UNCHANGED vars
  <2>1. UNCHANGED <<results, current, session>>
    BY <1>7 DEF StartTest, Reachable, Unreachable, Inject, InjectFails, ProbePath, Restore,
       RestoreFails, Converge, vars, bounds
  <2>2. pc' = "over" <=> pc = "over"
    BY <1>7 DEF StartTest, Reachable, Unreachable, Inject, InjectFails, ProbePath, Restore,
       RestoreFails, AfterRestore, Converge, vars
  <2>3. QED BY <1>3, <2>1, <2>2
<1>8. QED
  BY <1>2, <1>4, <1>5, <1>6, <1>7 DEF Next, TestStep

(* As long as no session is killed, every session adds one result per test *)
(* and in order, whichever tests and commands fail, to those of the        *)
(* sessions before it; for any number of faults and sessions.              *)
THEOREM TestsAreRecorded == Spec => []EveryTestRecorded
<1>1. Init => Kept
  BY DEF Init, Kept
<1>2. TypeOK /\ Stage /\ Kept => EveryTestRecorded
  <2> DEFINE L == Len(Faults)
  <2>0. SUFFICES ASSUME TypeOK, Stage, Kept, Between, killed = 0, session > 0
                 PROVE  LET done == (session - 1) * L + IF pc = "over" THEN L ELSE current - 1
                        IN  /\ Len(results) = done
                            /\ \A i \in 1..done : results[i].fault = ((i - 1) % L) + 1
    BY DEF EveryTestRecorded
  <2>1. L \in Nat /\ current \in Nat /\ results \in Seq(Results)
    BY <2>0, LenFaults DEF TypeOK, Stage
  <2>2. /\ pc = "over" => current = L + 1
        /\ Len(results) = (session - 1) * L + (current - 1)
        /\ \A i \in DOMAIN results : results[i].fault = ((i - 1) % L) + 1
    BY <2>0 DEF Kept
  <2> HIDE DEF L
  <2>3. (IF pc = "over" THEN L ELSE current - 1) = current - 1
    BY <2>1, <2>2
  <2>4. Len(results) = (session - 1) * L + IF pc = "over" THEN L ELSE current - 1
    BY <2>2, <2>3
  <2>5. DOMAIN results = 1..Len(results)
    BY <2>1
  <2>6. QED BY <2>2, <2>4, <2>5
<1>3. Spec => [](TypeOK /\ Stage /\ Kept)
  BY <1>1, StageInit, StageStep, KeptStep, PTL DEF Spec
<1>4. QED BY <1>2, <1>3, PTL
=============================================================================
