------------------------------- MODULE Daemon -------------------------------
(***************************************************************************)
(* The daemon (src/cmd/httppooler/main.go) and the life of the role it     *)
(* runs: Server.Run and Client.Run up to their accept and session loops,   *)
(* Endpoint.Start and Endpoint.Close (src/internal/peer).                  *)
(*                                                                         *)
(* The main goroutine catches signals, starts a role and handles one       *)
(* signal at a time; the role is a goroutine of its own that opens its     *)
(* ports one by one.  Around them somebody edits the file and sends        *)
(* signals, and other programs open and close ports.  A reload checks the  *)
(* file and replaces the process by a fresh one, which starts from nothing *)
(* but the file.                                                           *)
(***************************************************************************)
EXTENDS Conf

CONSTANTS
  Files,          \* the contents the file may have, by name; the file is missing
                  \* when its name is not one of these
  FileNames,      \* the names, of contents and of no file
  Written,        \* the ones an edit may leave behind
  Contended,      \* the addresses other programs may listen on
  SignalBuffer,   \* how many signals wait for the main goroutine, 4 in the code
  MaxSignals, MaxEdits   \* bounds: how many of each happen

ASSUME DaemonAssumption ==
  DOMAIN Files \cup Written \subseteq FileNames /\ SignalBuffer \in Nat /\ SignalBuffer > 0

VARIABLES
  file,        \* the name of what the file holds
  others,      \* the addresses other programs listen on
  pc,          \* main goroutine: "boot" before signal.Notify, "caught" before start,
               \* "loop" waiting for a signal, "checked" between reload's Load and
               \* Exec, "stopping" once ctx is cancelled, "ended"
  signals,     \* the channel
  cfg,         \* what start loaded, Refused before it did
  stage,       \* the role: "none", "opening" its ports, "serving", "leaving" before
               \* Endpoint.Close, "left" before Run closes its listener, "over"
  opened,      \* how many of its addresses it has listened on
  held,        \* the ones of them it still listens on, by index
  shut,        \* the consume ports whose http server stopped, by index
  self,        \* session of the server's own sections: "none", "up", "attached", "ended"
  unseen,      \* history: the file was edited since reload checked it
  vetted,      \* history: start read the file as reload had checked it
  failed,      \* history: a restart failed
  sent, edits

roleVars == <<cfg, stage, opened, held, shut, self>>
mainVars == <<pc, signals, vetted, failed>>
envVars == <<file, others, unseen, sent, edits>>
vars == <<roleVars, mainVars, envVars>>

-----------------------------------------------------------------------------

(* What conf.Load gives for each file. *)
Loaded == [f \in FileNames |-> IF f \in DOMAIN Files THEN ParseConf(Files[f]) ELSE Refused]

(* conf.Load. *)
Load(f) == Loaded[f]

(* start has nothing to start on a Conf that is refused or has no role. *)
HasRole(c) == c.role \in {"server", "client"}

(* The addresses the role listens on, in the order it opens them. *)
Addresses(c) ==
  (IF c.role = "server" THEN <<c.listen>> ELSE <<>>)
    \o [i \in 1..Len(c.consume) |-> c.consume[i].listen]

(* Nobody listens on the address, this process included. *)
Free(a) == a \notin others /\ \A i \in held : Addresses(cfg)[i] # a

(* The server has sections of its own to serve. *)
HasSections(c) == c.role = "server" /\ (c.provide # <<>> \/ c.consume # <<>>)

(* A process that has done nothing yet, and holds nothing. *)
Fresh ==
  /\ cfg' = Refused /\ stage' = "none" /\ opened' = 0 /\ held' = {} /\ shut' = {}
  /\ self' = "none"

-----------------------------------------------------------------------------
(* The main goroutine. *)

(* signal.Notify: from here on a signal does not kill the process. *)
Notify ==
  /\ pc = "boot"
  /\ pc' = "caught"
  /\ UNCHANGED <<roleVars, envVars, signals, vetted, failed>>

(* start: load the file, and put its role to work. *)
Start ==
  /\ pc = "caught"
  /\ pc' = "loop"
  /\ cfg' = Load(file)
  /\ stage' = IF HasRole(cfg') THEN "opening" ELSE "none"
  /\ vetted' = ~unseen
  /\ UNCHANGED <<envVars, signals, failed, opened, held, shut, self>>

(* The next signal is s. *)
Take(s) == pc = "loop" /\ signals # <<>> /\ Head(signals) = s /\ signals' = Tail(signals)

(* Mutant of Checks: the file is not looked at before the restart. *)
ChecksNothing(f) == TRUE

(* reload goes on to the restart. *)
Checks(f) == Load(f) # Refused

(* Mutant of Reload: like SIGUSR1, it is ignored while the daemon idles. *)
ReloadWhenRunning ==
  LET go == stage # "none" /\ Checks(file) IN
  /\ Take("HUP")
  /\ pc' = IF go THEN "checked" ELSE "loop"
  /\ unseen' = IF go THEN FALSE ELSE unseen
  /\ UNCHANGED <<roleVars, file, others, sent, edits, vetted, failed>>

(* SIGHUP, reload: a file that is refused changes nothing. *)
Reload ==
  /\ Take("HUP")
  /\ pc' = IF Checks(file) THEN "checked" ELSE "loop"
  /\ unseen' = IF Checks(file) THEN FALSE ELSE unseen
  /\ UNCHANGED <<roleVars, file, others, sent, edits, vetted, failed>>

(* syscall.Exec: the ports close, the signals that wait are gone, and a fresh
   process begins. *)
Exec ==
  /\ pc = "checked"
  /\ pc' = "boot"
  /\ signals' = <<>>
  /\ vetted' = FALSE
  /\ Fresh
  /\ UNCHANGED <<file, others, unseen, sent, edits, failed>>

(* os.Executable or syscall.Exec fails: this process goes on as it was. *)
ExecFails ==
  /\ pc = "checked"
  /\ pc' = "loop" /\ failed' = TRUE
  /\ UNCHANGED <<roleVars, envVars, signals, vetted>>

(* SIGUSR1: only the log. *)
LogState ==
  /\ Take("USR1")
  /\ UNCHANGED <<roleVars, envVars, pc, vetted, failed>>

(* SIGINT and SIGTERM: ctx is cancelled, and run returns. *)
Stop ==
  /\ Take("TERM")
  /\ pc' = "stopping"
  /\ UNCHANGED <<roleVars, envVars, vetted, failed>>

(* main returns, and the process with all of its goroutines ends. *)
Exit ==
  /\ pc = "stopping"
  /\ pc' = "ended"
  /\ Fresh
  /\ UNCHANGED <<envVars, signals, vetted, failed>>

-----------------------------------------------------------------------------
(* The role's goroutines. *)

Running == pc \in {"loop", "checked", "stopping"}

(* Options.listen succeeds on the next address, in Run or in Endpoint.Start. *)
Listen ==
  /\ Running /\ stage = "opening"
  /\ opened < Len(Addresses(cfg))
  /\ Free(Addresses(cfg)[opened + 1])
  /\ opened' = opened + 1 /\ held' = held \cup {opened + 1}
  /\ UNCHANGED <<mainVars, envVars, cfg, stage, shut, self>>

(* The listener of Server.Run, and the ports of Endpoint.Start, as far as they are open. *)
OwnListener == {i \in held : cfg.role = "server" /\ i = 1}
ConsumePorts == held \ OwnListener

(* Mutant of ClosedOnFailure: a failed Start leaves open what it had opened. *)
ClosedLater == {}

(* Start calls Close when it cannot open a port. *)
ClosedOnFailure == ConsumePorts

(* Options.listen fails, because the address is taken or for any other reason: the role
   gives up, and the daemon does not. *)
ListenFails ==
  /\ Running /\ stage = "opening"
  /\ opened < Len(Addresses(cfg))
  /\ stage' = "left" /\ held' = held \ ClosedOnFailure
  /\ UNCHANGED <<mainVars, envVars, cfg, opened, shut, self>>

(* All ports are open: serveSelf makes its pipe, once, and the loop begins. *)
Serve ==
  /\ Running /\ stage = "opening"
  /\ opened = Len(Addresses(cfg))
  /\ stage' = "serving"
  /\ self' = IF HasSections(cfg) THEN "up" ELSE "none"
  /\ UNCHANGED <<mainVars, envVars, cfg, opened, held, shut>>

(* Endpoint.Serve on the pipe: a HELLO that cannot be encoded ends the session. *)
SelfHello ==
  /\ Running /\ self = "up"
  /\ self' = IF Encodable(hello(cfg)) THEN "attached" ELSE "ended"
  /\ UNCHANGED <<mainVars, envVars, cfg, stage, opened, held, shut>>

(* The session on the pipe ends, in an error or with ctx.  Nothing makes another. *)
SelfEnds ==
  /\ Running /\ self = "attached"
  /\ self' = "ended"
  /\ UNCHANGED <<mainVars, envVars, cfg, stage, opened, held, shut>>

(* The http server of a consume port ends in an error: the port is closed, and the
   role goes on without it. *)
ConsumePortCloses(i) ==
  /\ Running /\ stage \in {"opening", "serving", "leaving"}
  /\ i \in ConsumePorts
  /\ held' = held \ {i} /\ shut' = shut \cup {i}
  /\ UNCHANGED <<mainVars, envVars, cfg, stage, opened, self>>

(* Accept fails: Server.Run returns, while the sessions it has, its own among them,
   run on. *)
AcceptFails ==
  /\ Running /\ stage = "serving" /\ cfg.role = "server"
  /\ stage' = "leaving"
  /\ UNCHANGED <<mainVars, envVars, cfg, opened, held, shut, self>>

(* ctx ended before the process has: a goroutine closes the listener, and Accept fails;
   Client.Run leaves its loop. *)
RoleStops ==
  /\ pc = "stopping" /\ stage = "serving"
  /\ stage' = "leaving" /\ held' = held \ OwnListener
  /\ UNCHANGED <<mainVars, envVars, cfg, opened, shut, self>>

(* The deferred calls of Run: Endpoint.Close, then the listener's. *)
EndpointCloses ==
  /\ Running /\ stage = "leaving"
  /\ stage' = "left" /\ held' = held \ ConsumePorts
  /\ UNCHANGED <<mainVars, envVars, cfg, opened, shut, self>>

RunReturns ==
  /\ Running /\ stage = "left"
  /\ stage' = "over" /\ held' = held \ OwnListener
  /\ UNCHANGED <<mainVars, envVars, cfg, opened, shut, self>>

-----------------------------------------------------------------------------
(* Around the process. *)

(* A signal is sent: before Notify it kills the process, but for a SIGUSR1 that Go's
   runtime is already there to ignore; after it it waits in the channel, and when the
   channel is full it is dropped. *)
Signal(s) ==
  /\ pc # "ended" /\ sent < MaxSignals
  /\ sent' = sent + 1
  /\ \/ /\ pc = "boot"
        /\ pc' = "ended" /\ Fresh
        /\ UNCHANGED signals
     \/ /\ pc = "boot" /\ s = "USR1"
        /\ UNCHANGED <<roleVars, pc, signals>>
     \/ /\ pc # "boot"
        /\ signals' = IF Len(signals) < SignalBuffer THEN Append(signals, s) ELSE signals
        /\ UNCHANGED <<roleVars, pc>>
  /\ UNCHANGED <<file, others, unseen, edits, vetted, failed>>

(* The file is written, removed or put there. *)
EditFile(f) ==
  /\ edits < MaxEdits /\ f # file /\ pc # "ended"
  /\ file' = f /\ edits' = edits + 1 /\ unseen' = TRUE
  /\ UNCHANGED <<roleVars, mainVars, others, sent>>

(* Another program opens or closes a port. *)
OtherListens(a) ==
  /\ Free(a)
  /\ others' = others \cup {a}
  /\ UNCHANGED <<roleVars, mainVars, file, unseen, sent, edits>>

OtherCloses(a) ==
  /\ a \in others
  /\ others' = others \ {a}
  /\ UNCHANGED <<roleVars, mainVars, file, unseen, sent, edits>>

-----------------------------------------------------------------------------

Init ==
  /\ file \in FileNames /\ others = {}
  /\ pc = "boot" /\ signals = <<>>
  /\ cfg = Refused /\ stage = "none" /\ opened = 0 /\ held = {} /\ shut = {} /\ self = "none"
  /\ unseen = TRUE /\ vetted = FALSE /\ failed = FALSE
  /\ sent = 0 /\ edits = 0

Main == Notify \/ Start \/ Reload \/ Exec \/ ExecFails \/ LogState \/ Stop \/ Exit

Role ==
  \/ Listen \/ ListenFails \/ Serve \/ SelfHello \/ SelfEnds \/ AcceptFails \/ RoleStops
  \/ EndpointCloses \/ RunReturns
  \/ \E i \in held : ConsumePortCloses(i)

Around ==
  \/ \E s \in {"HUP", "USR1", "TERM"} : Signal(s)
  \/ \E f \in Written : EditFile(f)
  \/ \E a \in Contended : OtherListens(a) \/ OtherCloses(a)

Next == Main \/ Role \/ Around

(* The main goroutine is always given its turn. *)
Spec == Init /\ [][Next]_vars /\ WF_vars(Main)

-----------------------------------------------------------------------------

(***************************************************************************)
(* PROPERTIES                                                              *)
(***************************************************************************)

(* A role is all there or not there at all: one that serves listens on every address
   of its Conf, save for consume ports that broke, and one that has given up, for
   whatever reason and after however many ports, listens on none (Endpoint.Start and
   Close, the deferred closes of Server.Run). *)
AllThereOrNotAtAll ==
  /\ stage = "serving" => held = (1..Len(Addresses(cfg))) \ shut
  /\ stage \in {"none", "over"} => held = {}
  /\ \A i, k \in held : Addresses(cfg)[i] = Addresses(cfg)[k] => i = k

(* What conf accepts, wire can say: the HELLO of every Conf a role runs on can be
   encoded, as long as its providers can be counted in a u8, and every provider in it
   is one that the endpoint finds again by its name (the limits of conf/build.go, of
   wire/encode.go and the map of NewEndpoint). *)
AcceptedCanAnnounce ==
  HasRole(cfg) =>
    /\ Len(cfg.provide) < Limit(1) => Encodable(hello(cfg))
    /\ \A i \in 1..Len(cfg.provide) : byName(cfg)[cfg.provide[i].service] = cfg.provide[i]

(* A reload never costs the daemon its Conf: a process that reload started idles on a
   refused file only when somebody edited the file after reload had checked it. *)
ReloadKeepsAConf == pc = "loop" /\ vetted => cfg # Refused

(* A reload is obeyed.  When the last signals and edits have come, a SIGHUP is waiting
   and no stop, and the file can be accepted, then the daemon comes to run on that file,
   or a restart failed; also when the SIGHUP itself is thrown away by the restart that an
   earlier one began (reload and run's loop in main.go).  It says nothing of a stop,
   which a restart throws away in the same way, nor of a signal that comes later: one
   before Notify kills the process. *)
ReloadIsObeyed ==
  ( /\ "HUP" \in ToSet(signals) /\ "TERM" \notin ToSet(signals)
    /\ pc \notin {"stopping", "ended"}
    /\ sent = MaxSignals /\ edits = MaxEdits /\ Load(file) # Refused )
  ~> (pc = "loop" /\ cfg = Load(file)) \/ failed
=============================================================================
