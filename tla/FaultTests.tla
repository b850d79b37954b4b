----------------------------- MODULE FaultTests -----------------------------
(***************************************************************************)
(* tests/test_fault_injection.py: one test per declared fault, in the order*)
(* of the file, on a testbed the tests share with each other and with every*)
(* later session.  A command over SSH may fail before or after it had its  *)
(* effect, or hang until subprocess.run gives up; the session may be killed*)
(* between any two steps and started again.                                *)
(*                                                                         *)
(* The network is the set of settings that are not as the roles configured *)
(* them.  A path that can do without those answers a ping, but perhaps not *)
(* at once after a routing change; routes of a peer that was shut down are *)
(* gone when the settle time of the fault is over.                         *)
(***************************************************************************)
EXTENDS Naturals, Sequences, FiniteSets

CONSTANTS
    Faults,     \* the faults of topology.json, a sequence of records
    Vtep,       \* segment member -> the VTEP it is attached to
    Ways,       \* <<s, d>> -> the sets of BGP sessions that can bring these
                \* VTEPs each other's routes: their own session, those over a
                \* reflector; the empty set where the peers are static
    Dataplane,  \* "linux-vxlan" or "pulsaros-dpdk"
    SshErrors,  \* whether commands on the hosts may fail
    Sessions,   \* how often the tests are started
    Kills,      \* how many sessions may be killed
    None

Types == {"remove_fdb_peer", "mtu_mismatch", "vlan_mismatch",
          "bounce_vtep_underlay", "bgp_peer_shutdown", "frr_restart"}

Members == DOMAIN Vtep

(* taken: the member whose subinterface on the same NIC has the fault VLAN,*)
(* which nothing rules out.                                                *)
ASSUME FaultsAssumption ==
    /\ Faults \in Seq([type : Types, segment : STRING, source : Members,
                       destination : Members, impact : {"outage", "no_outage"},
                       taken : Members \cup {None}])
    /\ \A i \in DOMAIN Faults : Faults[i].taken # Faults[i].source
    /\ \A m, n \in Members : Vtep[m] # Vtep[n] => <<Vtep[m], Vtep[n]>> \in DOMAIN Ways
    /\ None \notin Members
    /\ SshErrors \in BOOLEAN /\ Sessions \in Nat /\ Kills \in Nat

VARIABLES
    broken,      \* the settings that are not as configured
    converging,  \* the faults whose path may not answer yet
    results,     \* fault-results.json, None when it is torn
    pc,          \* where the session is
    current,     \* the test it is at, an index of Faults
    restore,     \* what restore() leaves broken, None while there is none
    passing,     \* no exception so far in this test
    result,      \* the result of this test
    session,     \* how many sessions were started
    killed,      \* how many of them were killed
    before,      \* history: the settings broken when this test began
    erred        \* history: a command failed in some session

network == <<broken, converging>>
bounds  == <<session, killed>>
vars    == <<network, results, pc, current, restore, passing, result, bounds, before, erred>>

fault == Faults[current]
-----------------------------------------------------------------------------
(* The network: what a fault changes and what a path needs                 *)

(* The settings an injection changes for good, its own and the one of the  *)
(* member whose VLAN it takes.                                             *)
Own(f) ==
    CASE f.type = "remove_fdb_peer"      -> {<<"fdb", <<Vtep[f.source], f.segment>>>>}
      [] f.type = "mtu_mismatch"         -> {<<"mtu", f.source>>}
      [] f.type = "vlan_mismatch"        -> {<<"vlan", f.source>>}
      [] f.type = "bounce_vtep_underlay" -> {<<"underlay", Vtep[f.source]>>}
      [] f.type = "bgp_peer_shutdown"    -> {<<"peer", <<Vtep[f.source], Vtep[f.destination]>>>>}
      [] f.type = "frr_restart"          -> {}

Taken(f) == IF f.type = "vlan_mismatch" /\ f.taken # None THEN {<<"vlan", f.taken>>} ELSE {}

Changes(f) == Own(f) \cup Taken(f)

(* What a small ping between the members of f needs whatever the routes.   *)
Path(f) ==
    LET s == Vtep[f.source]  d == Vtep[f.destination] IN
    {<<"vlan", f.source>>, <<"vlan", f.destination>>}
    \cup IF s = d THEN {}
         ELSE {<<"underlay", s>>, <<"underlay", d>>,
               <<"fdb", <<s, f.segment>>>>, <<"fdb", <<d, f.segment>>>>}

(* What the sessions of a way need, each of them in both directions.       *)
Uses(way) == UNION {{<<"peer", hop>>, <<"underlay", hop[1]>>} : hop \in way}

(* Whether such a ping is answered when the given settings are broken.     *)
Answered(f, settings) ==
    LET s == Vtep[f.source]  d == Vtep[f.destination] IN
    /\ Path(f) \cap settings = {}
    /\ s # d => \E way \in Ways[<<s, d>>] : Uses(way) \cap settings = {}

(* The probe of an MTU fault does not fit a reduced MTU.                   *)
ProbeAnswered(f) ==
    Answered(f, broken) /\ (f.type = "mtu_mismatch" => Own(f) \cap broken = {})

(* The return codes of a ping on a path that is up or not.                 *)
Codes(up) ==
    (IF SshErrors THEN {255} ELSE {})
    \cup IF up THEN {0} \cup IF current \in converging THEN {1} ELSE {} ELSE {1}

(* Faults after which routes have to be learnt again, when injected or     *)
(* when restored.                                                          *)
Reroutes(f) == f.type \in {"bounce_vtep_underlay", "bgp_peer_shutdown", "frr_restart"}

Rerouted == IF Reroutes(fault) THEN DOMAIN Faults ELSE converging

Converge == converging # {} /\ converging' = {}
            /\ UNCHANGED <<broken, results, pc, current, restore, passing, result, bounds,
                           before, erred>>
-----------------------------------------------------------------------------
Init ==
    /\ broken = {} /\ converging = {}
    /\ results = <<>>
    /\ pc = "over" /\ current = 1
    /\ restore = None /\ passing = TRUE /\ result = None
    /\ session = 0 /\ killed = 0
    /\ before = {} /\ erred = FALSE

StartSession ==
    /\ pc = "over" /\ session < Sessions
    /\ session' = session + 1
    /\ pc' = "next" /\ current' = 1
    /\ UNCHANGED <<network, results, restore, passing, result, killed, before, erred>>

(* Mutant of StartTest: the path is not probed before the injection.       *)
StartTestUnchecked ==
    /\ pc = "next" /\ current \in DOMAIN Faults
    /\ pc' = "inject"
    /\ restore' = None /\ passing' = TRUE
    /\ result' = [fault |-> current, recovered |-> FALSE]
    /\ before' = broken
    /\ UNCHANGED <<network, results, current, bounds, erred>>

StartTest ==
    /\ pc = "next" /\ current \in DOMAIN Faults
    /\ pc' = "healthy"
    /\ restore' = None /\ passing' = TRUE
    /\ result' = [fault |-> current, recovered |-> FALSE]
    /\ before' = broken
    /\ UNCHANGED <<network, results, current, bounds, erred>>

EndSession ==
    /\ pc = "next" /\ current \notin DOMAIN Faults
    /\ pc' = "over"
    /\ UNCHANGED <<network, results, current, restore, passing, result, bounds, before, erred>>
-----------------------------------------------------------------------------
(* _wait_reachable, before the injection and after restore(): small pings  *)
(* until one is answered or the deadline passes.                           *)

Reachable ==
    /\ pc \in {"healthy", "recovery"}
    /\ 0 \in Codes(Answered(fault, broken))
    /\ converging' = converging \ {current}
    /\ IF pc = "healthy"
       THEN pc' = "inject" /\ UNCHANGED result
       ELSE pc' = "record" /\ result' = [result EXCEPT !.recovered = TRUE]
    /\ UNCHANGED <<broken, results, current, restore, passing, bounds, before, erred>>

(* Mutant of Unreachable: the deadline moves with every ping.              *)
UnreachableForever ==
    /\ pc \in {"healthy", "recovery"}
    /\ Codes(Answered(fault, broken)) # {0}
    /\ UNCHANGED vars

(* Mutant of Unreachable: the last ping is returned, whatever it says.     *)
UnreachableRecovers ==
    /\ pc \in {"healthy", "recovery"}
    /\ Codes(Answered(fault, broken)) # {0}
    /\ passing' = FALSE /\ pc' = "record"
    /\ result' = [result EXCEPT !.recovered = (pc = "recovery")]
    /\ UNCHANGED <<network, results, current, restore, bounds, before, erred>>

Unreachable ==
    /\ pc \in {"healthy", "recovery"}
    /\ Codes(Answered(fault, broken)) # {0}
    /\ passing' = FALSE /\ pc' = "record"
    /\ UNCHANGED <<network, results, current, restore, result, bounds, before, erred>>

(* Injections that restore what they read first, not what is configured.   *)
Remembers(f) ==
    \/ f.type = "mtu_mismatch"
    \/ f.type = "bounce_vtep_underlay" /\ Dataplane = "pulsaros-dpdk"

Inject ==
    /\ pc = "inject"
    /\ broken' = broken \cup Changes(fault)
    /\ converging' = Rerouted
    /\ restore' = IF Remembers(fault) THEN Own(fault) \cap broken ELSE {}
    /\ pc' = "probe"
    /\ UNCHANGED <<results, current, passing, result, bounds, before, erred>>

(* The command fails, whatever it did until then; restore stays None.      *)
InjectFails ==
    /\ pc = "inject" /\ SshErrors
    /\ \E done \in SUBSET Changes(fault) : broken' = broken \cup done
    /\ converging' \in {converging, Rerouted}
    /\ passing' = FALSE /\ pc' = "record" /\ erred' = TRUE
    /\ UNCHANGED <<results, current, restore, result, bounds, before>>

(* The ping during the fault and _assert_fault_impact.                     *)
ProbePath ==
    /\ pc = "probe"
    /\ \E code \in Codes(ProbeAnswered(fault)) :
           passing' = IF fault.impact = "outage" THEN code \notin {0, 255} ELSE code = 0
    /\ pc' = "restore"
    /\ UNCHANGED <<network, results, current, restore, result, bounds, before, erred>>

AfterRestore == IF passing' THEN "recovery" ELSE "record"

(* Mutant of Restore: not in a finally block.                              *)
RestoreWhenPassing ==
    /\ pc = "restore"
    /\ IF passing
       THEN /\ broken' = (broken \ Own(fault)) \cup restore
            /\ converging' = Rerouted
       ELSE UNCHANGED network
    /\ UNCHANGED passing /\ pc' = AfterRestore
    /\ UNCHANGED <<results, current, restore, result, bounds, before, erred>>

Restore ==
    /\ pc = "restore"
    /\ broken' = (broken \ Own(fault)) \cup restore
    /\ converging' = Rerouted
    /\ UNCHANGED passing /\ pc' = AfterRestore
    /\ UNCHANGED <<results, current, restore, result, bounds, before, erred>>

(* Its exit status is not looked at; only a command that hangs raises.     *)
RestoreFails ==
    /\ pc = "restore" /\ SshErrors
    /\ \E done \in SUBSET Own(fault) :
           broken' = (broken \ done) \cup (restore \cap done)
    /\ converging' \in {converging, Rerouted}
    /\ passing' \in {passing, FALSE}
    /\ pc' = AfterRestore /\ erred' = TRUE
    /\ UNCHANGED <<results, current, restore, result, bounds, before>>

Ended == restore' = None /\ passing' = TRUE /\ result' = None /\ before' = {}

(* Mutant of Record: not in a finally block.                               *)
RecordWhenPassing ==
    /\ pc = "record"
    /\ results' = IF passing THEN Append(IF results = None THEN <<>> ELSE results, result)
                  ELSE results
    /\ pc' = "next" /\ current' = current + 1
    /\ Ended /\ UNCHANGED <<network, bounds, erred>>

(* _append_fault_result, which starts over when the file is torn.          *)
Record ==
    /\ pc = "record"
    /\ results' = Append(IF results = None THEN <<>> ELSE results, result)
    /\ pc' = "next" /\ current' = current + 1
    /\ Ended /\ UNCHANGED <<network, bounds, erred>>

(* The session is killed, perhaps while it writes the results.             *)
Kill ==
    /\ pc # "over" /\ killed < Kills
    /\ killed' = killed + 1
    /\ results' \in {results} \cup (IF pc = "record" THEN {None} ELSE {})
    /\ pc' = "over" /\ current' = 1
    /\ Ended /\ UNCHANGED <<network, session, erred>>

TestStep ==
    \/ StartTest \/ EndSession
    \/ Reachable \/ Unreachable
    \/ Inject \/ InjectFails \/ ProbePath \/ Restore \/ RestoreFails
    \/ Record

Next == StartSession \/ TestStep \/ Kill \/ Converge

Spec == Init /\ [][Next]_vars

(* The qm commands that bounce a DPDK VTEP have no timeout.                *)
CanHang ==
    /\ pc \in {"inject", "restore"}
    /\ fault.type = "bounce_vtep_underlay" /\ Dataplane = "pulsaros-dpdk"

(* pytest does not stop by itself: the commands over SSH all have a timeout*)
(* and every wait has a deadline.                                          *)
FairSpec == Spec /\ WF_vars(TestStep /\ ~CanHang)
-----------------------------------------------------------------------------
Settings == UNION {Changes(Faults[i]) : i \in DOMAIN Faults}
Results  == [fault : DOMAIN Faults, recovered : BOOLEAN]
Between  == pc \in {"next", "over"}

(* None is none of the values it stands in for.                            *)
ASSUME NoneAssumption ==
    /\ None \notin Results /\ None \notin Seq(Results)
    /\ \A settings \in SUBSET Settings : settings # None

(* The types, and: restore is set exactly between an injection and the end *)
(* of its test, recovered only on a test that did not fail.                *)
TypeOK ==
    /\ broken \subseteq Settings /\ converging \subseteq DOMAIN Faults
    /\ results \in Seq(Results) \cup {None}
    /\ pc \in {"over", "next", "healthy", "inject", "probe", "restore", "recovery", "record"}
    /\ current \in 1..Len(Faults) + 1
    /\ restore \in (SUBSET Settings) \cup {None}
    /\ passing \in BOOLEAN /\ result \in Results \cup {None}
    /\ session \in 0..Sessions /\ killed \in 0..Kills
    /\ before \subseteq Settings /\ erred \in BOOLEAN
    /\ ~Between => result # None /\ result.fault = current
    /\ pc \in {"probe", "restore", "recovery"} => restore # None
    /\ pc = "record" => (passing <=> result.recovered)

(* The VLANs some vlan_mismatch takes from another member of its NIC:      *)
(* injecting flushes that subinterface, restore() deletes it.              *)
TakenVlans == UNION {Taken(Faults[i]) : i \in DOMAIN Faults}

(* The finally blocks: when no command failed and no session was killed,   *)
(* a finished test leaves the network as configured, however its probe went*)
(* and whether or not it passed - but for the VLANs it took from others.   *)
TestsRestore == Between /\ ~erred /\ killed = 0 => broken \subseteq TakenVlans

(* A setting that a test left broken is behind a result that says the test *)
(* did not recover.                                                        *)
Recorded(settings) ==
    Between /\ killed = 0 =>
        \A s \in settings :
            \E i \in DOMAIN results :
                ~results[i].recovered /\ s \in Changes(Faults[results[i].fault])

(* Nothing makes the members of a fault be attached to two VTEPs; a path   *)
(* with one does not cross the network.                                    *)
AcrossVteps ==
    \A i \in DOMAIN Faults : Vtep[Faults[i].source] # Vtep[Faults[i].destination]

(* Peers shut on a session that another way makes up for: the declared     *)
(* impact is no_outage, and nothing tells whether restore() worked.        *)
Spared ==
    {<<"peer", p>> : p \in {q \in DOMAIN Ways : \E way \in Ways[q] : q \notin way}}

(* Failing commands included, no leak goes unnoticed that a small ping on  *)
(* the path of the fault notices: whatever is left broken, other than an   *)
(* MTU, a session with a stand-in or the VLAN of another member, is        *)
(* recorded as not recovered.                                              *)
LeaksRecorded ==
    Recorded(broken \ (TakenVlans \cup Spared \cup {<<"mtu", m>> : m \in Members}))

(* README.md:267: "A fault test fails if the declared impact does not      *)
(* happen or if recovery does not happen."  Not so for an MTU: restore()'s *)
(* exit status is ignored and the small ping fits a reduced MTU.           *)
RecoveryRecorded == Recorded(broken \ TakenVlans)

(* A test that saw its outage did not see one left behind by a test, of    *)
(* this session or an earlier one: the path was sound when it began.       *)
OutageOfThisFault ==
    pc \in {"restore", "recovery"} /\ passing /\ fault.impact = "outage" =>
        Answered(fault, before)

(* Every session adds its results to those of the sessions before it, one  *)
(* per test and in order, failed tests included.                           *)
EveryTestRecorded ==
    Between /\ killed = 0 /\ session > 0 =>
        LET done == (session - 1) * Len(Faults)
                    + IF pc = "over" THEN Len(Faults) ELSE current - 1 IN
        /\ Len(results) = done
        /\ \A i \in 1..done : results[i].fault = ((i - 1) % Len(Faults)) + 1

(* Every session comes to its end.                                         *)
SessionEnds == pc = "next" ~> pc = "over"
=============================================================================
