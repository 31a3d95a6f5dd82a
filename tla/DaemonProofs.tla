---------------------------- MODULE DaemonProofs ----------------------------
(***************************************************************************)
(* Proofs about Daemon: the ports of the role, and what a reload starts.   *)
(***************************************************************************)
EXTENDS Daemon, TLAPS

-----------------------------------------------------------------------------
(* The inductive invariant. *)

(* A process whose role has not begun has opened nothing, and shut nothing. *)
NotBegun ==
  /\ pc \in {"boot", "caught", "ended"} => stage = "none"
  /\ stage = "none" => opened = 0 /\ shut = {}

(* A role opens its ports in order, and the ones that broke are among them. *)
PortsInOrder ==
  /\ opened \in Nat /\ shut \subseteq 1..opened /\ held \subseteq 1..opened
  /\ stage = "left" => held \subseteq OwnListener
  /\ stage \in {"opening", "serving"} => held = (1..opened) \ shut

(* The file is as reload checked it until somebody edits it. *)
CheckedUntilEdited ==
  /\ ~unseen => Load(file) # Refused
  /\ pc \in {"boot", "caught"} => ~vetted
  /\ Running /\ vetted => cfg # Refused

PortInv == NotBegun /\ PortsInOrder /\ AllThereOrNotAtAll

-----------------------------------------------------------------------------
(* The ports. *)

(* A process that is replaced, or ends, leaves no port behind. *)
LEMMA FreshPorts ==
  ASSUME Fresh
  PROVE  PortInv'
BY DEF Fresh, PortInv, NotBegun, PortsInOrder, AllThereOrNotAtAll

(* The steps that leave the role alone. *)
LEMMA PortsKept ==
  ASSUME PortInv, UNCHANGED roleVars,
         pc' \in {"boot", "caught", "ended"} => pc \in {"boot", "caught", "ended"}
  PROVE  PortInv'
BY DEF PortInv, NotBegun, PortsInOrder, AllThereOrNotAtAll, OwnListener, roleVars

(* The steps of the role. *)
LEMMA RolePorts ==
  ASSUME PortInv, Role
  PROVE  PortInv'
<1> USE DEF PortInv
<1>1. Running /\ pc \notin {"boot", "caught", "ended"} /\ pc' = pc
  BY DEF Role, Listen, ListenFails, Serve, SelfHello, SelfEnds, AcceptFails, RoleStops,
         EndpointCloses, RunReturns, ConsumePortCloses, Running, mainVars
<1>2. CASE Listen
  <2>1. /\ stage = "opening" /\ opened' = opened + 1 /\ held' = held \cup {opened + 1}
        /\ UNCHANGED <<cfg, stage, shut>>
        /\ \A i \in held : Addresses(cfg)[i] # Addresses(cfg)[opened + 1]
    BY <1>2 DEF Listen, Free
  <2>2. NotBegun'
    BY <1>1, <2>1 DEF NotBegun
  <2>3. PortsInOrder'
    BY <2>1 DEF PortsInOrder
  <2>4. AllThereOrNotAtAll'
    BY <2>1 DEF AllThereOrNotAtAll
  <2> QED  BY <2>2, <2>3, <2>4
<1>3. CASE ListenFails
  <2>1. /\ stage' = "left" /\ held' = OwnListener /\ OwnListener \subseteq held
        /\ UNCHANGED <<cfg, opened, shut>>
    BY <1>3 DEF ListenFails, ClosedOnFailure, ConsumePorts, OwnListener
  <2> QED  BY <1>1, <2>1 DEF NotBegun, PortsInOrder, AllThereOrNotAtAll, OwnListener
<1>4. CASE Serve
  BY <1>1, <1>4 DEF Serve, NotBegun, PortsInOrder, AllThereOrNotAtAll
<1>5. CASE SelfHello \/ SelfEnds
  BY <1>1, <1>5 DEF SelfHello, SelfEnds, NotBegun, PortsInOrder, AllThereOrNotAtAll, OwnListener
<1>6. ASSUME NEW i \in held, ConsumePortCloses(i) PROVE PortInv'
  <2>1. /\ stage \in {"opening", "serving", "leaving"}
        /\ held' = held \ {i} /\ shut' = shut \cup {i}
        /\ UNCHANGED <<cfg, stage, opened>>
    BY <1>6 DEF ConsumePortCloses
  <2>2. i \in 1..opened
    BY <1>6 DEF PortsInOrder
  <2> QED  BY <1>1, <2>1, <2>2 DEF NotBegun, PortsInOrder, AllThereOrNotAtAll
<1>7. CASE AcceptFails \/ RoleStops
  BY <1>1, <1>7 DEF AcceptFails, RoleStops, NotBegun, PortsInOrder, AllThereOrNotAtAll
<1>8. CASE EndpointCloses
  <2>1. /\ stage' = "left" /\ held' = OwnListener /\ OwnListener \subseteq held
        /\ UNCHANGED <<cfg, opened, shut>>
    BY <1>8 DEF EndpointCloses, ConsumePorts, OwnListener
  <2> QED  BY <1>1, <2>1 DEF NotBegun, PortsInOrder, AllThereOrNotAtAll, OwnListener
<1>9. CASE RunReturns
  <2>1. stage' = "over" /\ held' = {} /\ UNCHANGED <<cfg, opened, shut>>
    BY <1>9 DEF RunReturns, PortsInOrder
  <2> QED  BY <1>1, <2>1 DEF NotBegun, PortsInOrder, AllThereOrNotAtAll
<1> QED
  BY <1>2, <1>3, <1>4, <1>5, <1>6, <1>7, <1>8, <1>9 DEF Role

(* Every step keeps the ports. *)
LEMMA PortStep == PortInv /\ [Next]_vars => PortInv'
<1> SUFFICES ASSUME PortInv, [Next]_vars PROVE PortInv'
  OBVIOUS
<1>1. CASE Notify \/ Reload \/ ExecFails \/ LogState \/ Stop
  BY <1>1, PortsKept DEF Notify, Reload, ExecFails, LogState, Stop, Take
<1>2. CASE Start
  <2>1. pc = "caught" /\ pc' = "loop" /\ stage' \in {"opening", "none"}
        /\ UNCHANGED <<opened, held, shut>>
    BY <1>2 DEF Start
  <2>2. stage = "none" /\ opened = 0 /\ held = {} /\ shut = {}
    BY <2>1 DEF PortInv, NotBegun, AllThereOrNotAtAll
  <2> QED  BY <2>1, <2>2 DEF PortInv, NotBegun, PortsInOrder, AllThereOrNotAtAll
<1>3. CASE Exec \/ Exit
  BY <1>3, FreshPorts DEF Exec, Exit
<1>4. CASE Role
  BY <1>4, RolePorts
<1>5. ASSUME NEW s, Signal(s) PROVE PortInv'
  BY <1>5, FreshPorts, PortsKept DEF Signal
<1>6. ASSUME NEW x, EditFile(x) \/ OtherListens(x) \/ OtherCloses(x) PROVE PortInv'
  BY <1>6, PortsKept DEF EditFile, OtherListens, OtherCloses, mainVars
<1>7. CASE UNCHANGED vars
  BY <1>7, PortsKept DEF vars, mainVars
<1> QED
  BY <1>1, <1>2, <1>3, <1>4, <1>5, <1>6, <1>7 DEF Next, Main, Around

(***************************************************************************)
(* Whatever the Conf, whoever takes and gives up ports and whenever the    *)
(* role fails or is stopped: a role that serves listens on all of its      *)
(* addresses, but for consume ports that broke, one that does not run      *)
(* listens on none, and no address is listened on twice (Endpoint.Start    *)
(* and Close, the deferred closes of Server.Run).                          *)
(***************************************************************************)
THEOREM PortsAllOrNone == Spec => []AllThereOrNotAtAll
<1>1. Init => PortInv
  BY DEF Init, PortInv, NotBegun, PortsInOrder, AllThereOrNotAtAll
<1>2. PortInv => AllThereOrNotAtAll
  BY DEF PortInv
<1> QED  BY <1>1, <1>2, PortStep, PTL DEF Spec

-----------------------------------------------------------------------------
(* The reload. *)

(* Every step keeps what is known of the file. *)
LEMMA ReloadStep == CheckedUntilEdited /\ [Next]_vars => CheckedUntilEdited'
<1> SUFFICES ASSUME CheckedUntilEdited, [Next]_vars PROVE CheckedUntilEdited'
  OBVIOUS
<1> USE DEF CheckedUntilEdited, Running
<1>1. CASE Notify \/ ExecFails \/ LogState \/ Stop
  BY <1>1 DEF Notify, ExecFails, LogState, Stop, Take, roleVars, envVars
<1>2. CASE Start
  BY <1>2 DEF Start, envVars
<1>3. CASE Reload
  BY <1>3 DEF Reload, Take, Checks, roleVars
<1>4. CASE Exec \/ Exit
  BY <1>4 DEF Exec, Exit, envVars
<1>5. CASE Role
  <2>1. UNCHANGED <<cfg, pc, vetted, file, unseen>>
    BY <1>5 DEF Role, Listen, ListenFails, Serve, SelfHello, SelfEnds, AcceptFails, RoleStops,
                EndpointCloses, RunReturns, ConsumePortCloses, mainVars, envVars
  <2> QED  BY <2>1
<1>6. ASSUME NEW s, Signal(s) PROVE CheckedUntilEdited'
  BY <1>6 DEF Signal, roleVars
<1>7. ASSUME NEW x, EditFile(x) \/ OtherListens(x) \/ OtherCloses(x) PROVE CheckedUntilEdited'
  BY <1>7 DEF EditFile, OtherListens, OtherCloses, roleVars, mainVars
<1>8. CASE UNCHANGED vars
  BY <1>8 DEF vars, roleVars, mainVars, envVars
<1> QED
  BY <1>1, <1>2, <1>3, <1>4, <1>5, <1>6, <1>7, <1>8 DEF Next, Main, Around

(***************************************************************************)
(* A process that reload started idles on a refused file only when the     *)
(* file was edited between reload's check and the new process's Load,      *)
(* whatever files there are and however signals and edits interleave       *)
(* (reload and start in main.go).                                          *)
(***************************************************************************)
THEOREM ReloadNeverCostsTheConf == Spec => []ReloadKeepsAConf
<1>1. Init => CheckedUntilEdited
  BY DEF Init, CheckedUntilEdited
<1>2. CheckedUntilEdited => ReloadKeepsAConf
  BY DEF CheckedUntilEdited, Running, ReloadKeepsAConf
<1> QED  BY <1>1, <1>2, ReloadStep, PTL DEF Spec
=============================================================================
