------------------------------- MODULE Relay --------------------------------
(***************************************************************************)
(* A job's way through the server: relay and dispatch (peer/server.go),    *)
(* the job tables of the connections (peer/conn.go) and the provider side  *)
(* (peer/provide.go, peer/endpoint.go), on top of the pool.                *)
(*                                                                         *)
(* A provider p of the pool is one upstream of one connection: it has a    *)
(* link, two first-in-first-out streams, whose ends notice its loss each   *)
(* in its own time.  A lost link never comes back; a peer that reconnects  *)
(* is another provider p of the same endpoint.  Every job has a submitter  *)
(* connection of its own, which may be lost too.                           *)
(*                                                                         *)
(* A request travels as one message that stands for REQUEST, BODY* and END *)
(* (one goroutine sends them one after the other); what the write deadline *)
(* cut short is a REQUEST without its END.  An answer has at most one      *)
(* BODY.  Time stands still: with Timeout = 0 the timer of every waiting   *)
(* job may fire at any moment.                                             *)
(***************************************************************************)
EXTENDS Pool

CONSTANTS
  Endpoints,    \* the peers' Endpoint objects, which outlive their connections
  Endpoint,     \* the endpoint that each provider is a session of
  MayLeave,     \* bound: the jobs whose application or submitter may leave
  MayBreak,     \* bound: the providers whose link may break, or stall, by itself
  Unsayable     \* the jobs whose upstream error is too long for a FAIL (str16)

ASSUME EndpointAssumption == Endpoint \in [Providers -> Endpoints]
ASSUME LeaveAssumption == MayLeave \subseteq Jobs /\ MayBreak \subseteq Providers
ASSUME UnsayableAssumption == Unsayable \subseteq Jobs
ASSUME ClockAssumption == Timeout = 0

VARIABLES
  stage,      \* where relay is: see Stages
  got,        \* what has arrived from the submitter after the REQUEST
  subUp,      \* the submitter's connection still carries messages
  outcome,    \* what dispatch returned
  started,    \* dispatch's started: a RESPONSE was relayed
  answer,     \* the kinds of message sent to the submitter
  inbox,      \* the jobQueue of the current attempt, on the server
  srvUp,      \* Conn.err = nil at the server's end of a provider's link
  cliUp,      \* the same at the provider's end
  toClient,   \* messages on their way to a provider
  toServer,   \* messages on their way to the server
  half,       \* the jobs whose request to a provider the write deadline cut short
  run,        \* where provide is, for each job at each provider: see Runs
  stopped,    \* the context of that provide is cancelled
  running     \* Endpoint.running

relayVars == <<stage, got, subUp, outcome, started, answer, inbox>>
linkVars == <<srvUp, cliUp, toClient, toServer, half>>
runVars == <<run, stopped, running>>
rvars == <<vars, relayVars, linkVars, runVars>>

(***************************************************************************)
(* "idle"    not submitted           "collect" reads the request body      *)
(* "acquire" in pool.Acquire         "newJob"  has a lease, calls dispatch *)
(* "relay"   in dispatch's loop      "leave"   dispatch returned           *)
(* "ended"   relay returned                                                *)
(***************************************************************************)
Stages == {"idle", "collect", "acquire", "newJob", "relay", "leave", "ended"}

(***************************************************************************)
(* "none"   no REQUEST came          "start"  provide has not called take  *)
(* "asked"  the upstream has it      "head"   RESPONSE sent                *)
(* "body"   a BODY sent              "giving" END or FAIL sent, slot kept  *)
(* "over"   provide returned                                               *)
(***************************************************************************)
Runs == {"none", "start", "asked", "head", "body", "giving", "over"}
Outcomes == {"none", "done", "gone", "cancelled", "failed"}
Kinds == {"REQUEST", "CANCEL", "RESPONSE", "BODY", "END", "FAIL"}
Message == [job : Jobs, kind : Kinds]
Msg(j, k) == [job |-> j, kind |-> k]
Terminal == {"END", "FAIL"}

RelayTypeOK ==
  /\ TypeOK
  /\ stage \in [Jobs -> Stages]
  /\ got \in [Jobs -> {"none", "end", "cancel"}]
  /\ subUp \in [Jobs -> BOOLEAN]
  /\ outcome \in [Jobs -> Outcomes]
  /\ started \in [Jobs -> BOOLEAN]
  /\ answer \in [Jobs -> Seq(Kinds)]
  /\ inbox \in [Jobs -> Seq(Kinds)]
  /\ srvUp \in [Providers -> BOOLEAN]
  /\ cliUp \in [Providers -> BOOLEAN]
  /\ toClient \in [Providers -> Seq(Message)]
  /\ toServer \in [Providers -> Seq(Message)]
  /\ half \in [Providers -> SUBSET Jobs]
  /\ run \in [Jobs \X Providers -> Runs]
  /\ stopped \in [Jobs \X Providers -> BOOLEAN]
  /\ running \in [Endpoints -> Nat]

RelayInit ==
  /\ Init
  /\ stage = [j \in Jobs |-> "idle"]
  /\ got = [j \in Jobs |-> "none"]
  /\ subUp = [j \in Jobs |-> TRUE]
  /\ outcome = [j \in Jobs |-> "none"]
  /\ started = [j \in Jobs |-> FALSE]
  /\ answer = [j \in Jobs |-> <<>>]
  /\ inbox = [j \in Jobs |-> <<>>]
  /\ srvUp = [p \in Providers |-> FALSE]
  /\ cliUp = [p \in Providers |-> FALSE]
  /\ toClient = [p \in Providers |-> <<>>]
  /\ toServer = [p \in Providers |-> <<>>]
  /\ half = [p \in Providers |-> {}]
  /\ run = [x \in Jobs \X Providers |-> "none"]
  /\ stopped = [x \in Jobs \X Providers |-> FALSE]
  /\ running = [e \in Endpoints |-> 0]

-----------------------------------------------------------------------------
(* A request to p ran into its write deadline.  The connection is not failed for
   that, but a record went out in part and its counter is used up: nothing that is
   written after it can be opened at the other end. *)
Broken(p) == half[p] # {}

(* Conn.send from the server to a provider: what the peer has closed is lost.  A PING
   or a CANCEL that is cut short, and all that is written after it, is what stays
   unread until ClientLoses. *)
SendToClient(p, m) ==
  toClient' = IF srvUp[p] /\ cliUp[p] /\ ~Broken(p)
              THEN [toClient EXCEPT ![p] = Append(@, m)] ELSE toClient

(* Conn.send from a provider to the server.  Here, too, what a write deadline cuts
   short, and all after it, is what stays unread until ServerLoses. *)
SendToServer(p, m) ==
  toServer' = IF srvUp[p] /\ cliUp[p]
              THEN [toServer EXCEPT ![p] = Append(@, m)] ELSE toServer

(* Messages sent to the submitter, who hears them while its connection is up. *)
Said(j, kinds) ==
  answer' = IF subUp[j] THEN [answer EXCEPT ![j] = @ \o kinds] ELSE answer

(* Server.answer, the three messages of synthMessages. *)
Synthetic == <<"RESPONSE", "BODY", "END">>

-----------------------------------------------------------------------------
(* The submitter, as far as the server's end of its connection sees it: what it
   does after relay has returned is about a job nobody knows any more. *)

(* Its REQUEST is read: openJob, and relay starts. *)
Submit(j) ==
  /\ stage[j] = "idle"
  /\ Arrive(j)
  /\ stage' = [stage EXCEPT ![j] = "collect"]
  /\ UNCHANGED <<got, subUp, outcome, started, answer, inbox, linkVars, runVars>>

(* Its END arrives, and, if the application leaves, its CANCEL, which consume
   never sends before the END. *)
SubmitterSends(j) ==
  /\ stage[j] \notin {"idle", "ended"}
  /\ subUp[j]
  /\ \/ got[j] = "none" /\ got' = [got EXCEPT ![j] = "end"]
     \/ got[j] = "end" /\ j \in MayLeave /\ got' = [got EXCEPT ![j] = "cancel"]
  /\ UNCHANGED <<vars, stage, subUp, outcome, started, answer, inbox, linkVars, runVars>>

(* Its connection fails: the job's queue is closed. *)
SubmitterLost(j) ==
  /\ stage[j] \notin {"idle", "ended"}
  /\ j \in MayLeave
  /\ subUp[j]
  /\ subUp' = [subUp EXCEPT ![j] = FALSE]
  /\ UNCHANGED <<vars, stage, got, outcome, started, answer, inbox, linkVars, runVars>>

-----------------------------------------------------------------------------
(* relay. *)

(* collect: the body is whole, or the connection ended before it was. *)
Collect(j) ==
  /\ stage[j] = "collect"
  /\ \/ got[j] # "none" /\ stage' = [stage EXCEPT ![j] = "acquire"]
     \/ got[j] = "none" /\ ~subUp[j] /\ stage' = [stage EXCEPT ![j] = "ended"]
  /\ UNCHANGED <<vars, got, subUp, outcome, started, answer, inbox, linkVars, runVars>>

(* watchCancel: a CANCEL, or the end of the queue, cancels the context. *)
WatchCancel(j) ==
  /\ stage[j] \in {"acquire", "newJob", "relay", "leave"}
  /\ got[j] = "cancel" \/ ~subUp[j]
  /\ Cancel(j)
  /\ UNCHANGED <<relayVars, linkVars, runVars>>

(* Acquire, step by step: the pool's own actions. *)
Acquiring(j) ==
  /\ stage[j] = "acquire"
  /\ \/ AcquireFree(j)
     \/ AcquireWait(j)
     \/ Receive(j)
     \/ GiveUp(j)
     \/ AbandonQueued(j)
     \/ AbandonLate(j)
     \/ Drain(j)
  /\ stage' = [stage EXCEPT ![j] = IF phase'[j] = "held" THEN "newJob" ELSE @]
  /\ UNCHANGED <<got, subUp, outcome, started, answer, inbox, linkVars, runVars>>

(* Acquire returned an error: silence when the context is done, else 503. *)
AcquireFailed(j) ==
  /\ stage[j] = "acquire"
  /\ phase[j] = "failed"
  /\ IF cancelled[j] THEN answer' = answer ELSE Said(j, Synthetic)
  /\ stage' = [stage EXCEPT ![j] = "ended"]
  /\ UNCHANGED <<vars, got, subUp, outcome, started, inbox, linkVars, runVars>>

(* dispatch returns o; its deferred endJob forgets the attempt. *)
Return(j, o) ==
  /\ stage' = [stage EXCEPT ![j] = "leave"]
  /\ outcome' = [outcome EXCEPT ![j] = o]

(* dispatch's beginning: newJob on the target, then the request goes out.  newJob
   fails on a failed connection, send may fail on one the peer has closed or on a
   broken stream.  On a live one send fails by its write deadline, with nothing of
   the request or its first messages written, and the provider is not told. *)
NewJob(j) ==
  LET p == lease[j] IN
  /\ stage[j] = "newJob"
  /\ \/ /\ srvUp[p]
        /\ stage' = [stage EXCEPT ![j] = "relay"]
        /\ SendToClient(p, Msg(j, "REQUEST"))
        /\ UNCHANGED outcome
        /\ UNCHANGED half
     \/ /\ ~srvUp[p] \/ ~cliUp[p] \/ Broken(p)
        /\ Return(j, "gone")
        /\ UNCHANGED <<toClient, half>>
     \/ /\ p \in MayBreak /\ srvUp[p] /\ cliUp[p] /\ ~Broken(p)
        /\ half' = [half EXCEPT ![p] = {j}]
        /\ SendToClient(p, Msg(j, "REQUEST")) \/ UNCHANGED toClient
        /\ Return(j, "gone")
  /\ UNCHANGED <<vars, got, subUp, started, answer, inbox, srvUp, cliUp, toServer, runVars>>

(* dispatch's loop takes a message from the provider: one of the four that provide
   sends, so that the default branch, for any other kind, is not reached.  A send to
   the submitter fails when its connection is lost, and one that ran into its write
   deadline has lost it: SubmitterLost, then the second case. *)
Forward(j) ==
  LET p == lease[j]
      k == Head(inbox[j])
  IN
  /\ stage[j] = "relay"
  /\ inbox[j] # <<>>
  /\ started' = [started EXCEPT ![j] = @ \/ k = "RESPONSE"]
  /\ \/ /\ k = "FAIL" /\ ~started[j]
        /\ Return(j, "failed")
        /\ UNCHANGED <<answer, toClient>>
     \/ /\ k # "FAIL" \/ started[j]
        /\ ~subUp[j]
        /\ SendToClient(p, Msg(j, "CANCEL"))
        /\ Return(j, "cancelled")
        /\ UNCHANGED answer
     \/ /\ k # "FAIL" \/ started[j]
        /\ subUp[j]
        /\ Said(j, <<k>>)
        /\ IF k \in Terminal THEN Return(j, "done") ELSE UNCHANGED <<stage, outcome>>
        /\ UNCHANGED toClient
  /\ inbox' = [inbox EXCEPT ![j] = IF stage'[j] = "relay" THEN Tail(@) ELSE <<>>]
  /\ UNCHANGED <<vars, got, subUp, srvUp, cliUp, toServer, half, runVars>>

(* Mutants of NoMore: a closed queue does not wake the loop; the context is not
   looked at; the provider is not told to stop. *)
NoMoreIgnoresLoss(j) ==
  /\ stage[j] = "relay" /\ inbox[j] = <<>> /\ cancelled[j]
  /\ SendToClient(lease[j], Msg(j, "CANCEL"))
  /\ Return(j, "cancelled")
  /\ UNCHANGED <<vars, got, subUp, started, answer, inbox, srvUp, cliUp, toServer, half, runVars>>

NoMoreIgnoresContext(j) ==
  /\ stage[j] = "relay" /\ inbox[j] = <<>> /\ ~srvUp[lease[j]]
  /\ Return(j, "gone")
  /\ UNCHANGED <<vars, got, subUp, started, answer, inbox, linkVars, runVars>>

NoMoreWithoutCancel(j) ==
  /\ stage[j] = "relay" /\ inbox[j] = <<>>
  /\ cancelled[j] \/ ~srvUp[lease[j]]
  /\ Return(j, IF cancelled[j] THEN "cancelled" ELSE "gone")
  /\ UNCHANGED <<vars, got, subUp, started, answer, inbox, linkVars, runVars>>

(* next returns an error: the context is done, which its select may prefer to a
   message that has just come, or the queue was closed and is empty. *)
NoMore(j) ==
  LET p == lease[j] IN
  /\ stage[j] = "relay"
  /\ \/ /\ cancelled[j]
        /\ SendToClient(p, Msg(j, "CANCEL"))
        /\ Return(j, "cancelled")
     \/ /\ ~cancelled[j] /\ ~srvUp[p] /\ inbox[j] = <<>>
        /\ Return(j, "gone")
        /\ UNCHANGED toClient
  /\ inbox' = [inbox EXCEPT ![j] = <<>>]
  /\ UNCHANGED <<vars, got, subUp, started, answer, srvUp, cliUp, toServer, half, runVars>>

(* Mutants of Leave: a job is retried after its RESPONSE; a job cut off after its
   RESPONSE is not told; the answer to a FAIL forgets the lease. *)
LeaveRetryAlways(j) ==
  /\ stage[j] = "leave"
  /\ Release(j)
  /\ stage' = [stage EXCEPT ![j] = IF outcome[j] = "gone" THEN "acquire" ELSE "ended"]
  /\ IF outcome[j] = "failed" THEN Said(j, Synthetic) ELSE UNCHANGED answer
  /\ started' = [started EXCEPT ![j] = FALSE]
  /\ UNCHANGED <<got, subUp, outcome, inbox, linkVars, runVars>>

LeaveSilently(j) ==
  /\ stage[j] = "leave"
  /\ Release(j)
  /\ stage' = [stage EXCEPT ![j] = IF outcome[j] = "gone" /\ ~started[j]
                                   THEN "acquire" ELSE "ended"]
  /\ IF outcome[j] = "failed" THEN Said(j, Synthetic) ELSE UNCHANGED answer
  /\ started' = [started EXCEPT ![j] = FALSE]
  /\ UNCHANGED <<got, subUp, outcome, inbox, linkVars, runVars>>

LeaveKeepsLease(j) ==
  /\ stage[j] = "leave"
  /\ outcome[j] = "failed"
  /\ stage' = [stage EXCEPT ![j] = "ended"]
  /\ Said(j, Synthetic)
  /\ UNCHANGED <<vars, got, subUp, outcome, started, inbox, linkVars, runVars>>

(* The lease goes back, then relay acts on what dispatch returned. *)
Leave(j) ==
  /\ stage[j] = "leave"
  /\ Release(j)
  /\ \/ /\ outcome[j] = "done" \/ outcome[j] = "cancelled"
        /\ stage' = [stage EXCEPT ![j] = "ended"]
        /\ UNCHANGED answer
     \/ /\ outcome[j] = "gone" /\ started[j]
        /\ stage' = [stage EXCEPT ![j] = "ended"]
        /\ Said(j, <<"FAIL">>)
     \/ /\ outcome[j] = "gone" /\ ~started[j]
        /\ stage' = [stage EXCEPT ![j] = "acquire"]
        /\ UNCHANGED answer
     \/ /\ outcome[j] = "failed"
        /\ stage' = [stage EXCEPT ![j] = "ended"]
        /\ Said(j, Synthetic)
  /\ outcome' = [outcome EXCEPT ![j] = "none"]
  /\ started' = [started EXCEPT ![j] = FALSE]
  /\ UNCHANGED <<got, subUp, inbox, linkVars, runVars>>

-----------------------------------------------------------------------------
(* The links. *)

(* A session begins: the client dials when its last session is over. *)
Connect(p) ==
  /\ \A q \in Providers : Endpoint[q] = Endpoint[p] => ~cliUp[q]
  /\ AddProvider(p)
  /\ srvUp' = [srvUp EXCEPT ![p] = TRUE]
  /\ cliUp' = [cliUp EXCEPT ![p] = TRUE]
  /\ UNCHANGED <<relayVars, toClient, toServer, half, runVars>>

(* The server's read loop: a message for a job it does not know is ignored. *)
ServerReads(p) ==
  LET m == Head(toServer[p])
      j == m.job
  IN
  /\ srvUp[p]
  /\ toServer[p] # <<>>
  /\ toServer' = [toServer EXCEPT ![p] = Tail(@)]
  /\ inbox' = IF stage[j] = "relay" /\ lease[j] = p
              THEN [inbox EXCEPT ![j] = Append(@, m.kind)] ELSE inbox
  /\ UNCHANGED <<vars, stage, got, subUp, outcome, started, answer, srvUp, cliUp,
                 toClient, half, runVars>>

(* Conn.fail at the server: the link broke, or the peer closed it and all
   that it had sent is read. *)
ServerLoses(p) ==
  /\ srvUp[p]
  /\ p \in MayBreak \/ (~cliUp[p] /\ toServer[p] = <<>>)
  /\ srvUp' = [srvUp EXCEPT ![p] = FALSE]
  /\ toServer' = [toServer EXCEPT ![p] = <<>>]
  /\ UNCHANGED <<vars, relayVars, cliUp, toClient, half, runVars>>

(* handle's deferred pool.Remove, once run has returned. *)
Unregister(p) ==
  /\ ~srvUp[p]
  /\ RemoveProvider(p)
  /\ UNCHANGED <<relayVars, linkVars, runVars>>

(* Conn.fail at the client: every job of the connection is cancelled. *)
ClientCloses(p) ==
  /\ cliUp' = [cliUp EXCEPT ![p] = FALSE]
  /\ toClient' = [toClient EXCEPT ![p] = <<>>]
  /\ stopped' = [x \in Jobs \X Providers |->
                   stopped[x] \/ (x[2] = p /\ run[x] \notin {"none", "over"})]

ClientLoses(p) ==
  /\ cliUp[p]
  /\ p \in MayBreak \/ (~srvUp[p] /\ toClient[p] = <<>>)
  /\ ClientCloses(p)
  /\ UNCHANGED <<vars, relayVars, srvUp, toServer, half, run, running>>

(* The client's read loop: a REQUEST starts provide, a CANCEL reaches its
   watchCancel unless the job is over. *)
ClientReads(p) ==
  LET m == Head(toClient[p])
      x == <<m.job, p>>
  IN
  /\ cliUp[p]
  /\ toClient[p] # <<>>
  /\ toClient' = [toClient EXCEPT ![p] = Tail(@)]
  /\ \/ /\ m.kind = "REQUEST"
        /\ run' = [run EXCEPT ![x] = "start"]
        /\ UNCHANGED stopped
     \/ /\ m.kind = "CANCEL"
        /\ stopped' = [stopped EXCEPT ![x] = @ \/ run[x] # "over"]
        /\ UNCHANGED run
  /\ UNCHANGED <<vars, relayVars, srvUp, cliUp, toServer, half, running>>

-----------------------------------------------------------------------------
(* provide, for job j at provider p. *)

(* take finds a free slot. *)
Take(j, p) ==
  /\ run[<<j, p>>] = "start"
  /\ running[Endpoint[p]] < Slots[p]
  /\ running' = [running EXCEPT ![Endpoint[p]] = @ + 1]
  /\ run' = [run EXCEPT ![<<j, p>>] = "asked"]
  /\ UNCHANGED <<vars, relayVars, linkVars, stopped>>

(* take finds none: the whole connection is failed. *)
Refuse(j, p) ==
  /\ run[<<j, p>>] = "start"
  /\ running[Endpoint[p]] >= Slots[p]
  /\ run' = [run EXCEPT ![<<j, p>>] = "over"]
  /\ ClientCloses(p)
  /\ UNCHANGED <<vars, relayVars, srvUp, toServer, half, running>>

(* runUpstream sends the head of the answer, a piece of it, or its end.  It is not
   called for half a request: collect still waits for the END. *)
Upstream(j, p) ==
  /\ j \notin half[p]
  /\ \/ /\ run[<<j, p>>] = "asked"
        /\ run' = [run EXCEPT ![<<j, p>>] = "head"]
        /\ SendToServer(p, Msg(j, "RESPONSE"))
     \/ /\ run[<<j, p>>] = "head"
        /\ run' = [run EXCEPT ![<<j, p>>] = "body"]
        /\ SendToServer(p, Msg(j, "BODY"))
     \/ /\ run[<<j, p>>] \in {"head", "body"}
        /\ run' = [run EXCEPT ![<<j, p>>] = "giving"]
        /\ SendToServer(p, Msg(j, "END"))
  /\ UNCHANGED <<vars, relayVars, srvUp, cliUp, toClient, half, stopped, running>>

(* runUpstream fails, by itself or because its context is cancelled, and so does
   collect when the connection ends under half a request.  The error of
   sending the FAIL is not looked at, not even when it could not be encoded; the
   reason of a cancelled job is one word and always can. *)
UpstreamFails(j, p) ==
  /\ run[<<j, p>>] \in {"asked", "head", "body"}
  /\ j \in half[p] => stopped[<<j, p>>]
  /\ run' = [run EXCEPT ![<<j, p>>] = "giving"]
  /\ IF j \in Unsayable /\ ~stopped[<<j, p>>]
     THEN UNCHANGED toServer ELSE SendToServer(p, Msg(j, "FAIL"))
  /\ UNCHANGED <<vars, relayVars, srvUp, cliUp, toClient, half, stopped, running>>

(* provide returns, and its deferred give frees the slot. *)
Give(j, p) ==
  /\ run[<<j, p>>] = "giving"
  /\ run' = [run EXCEPT ![<<j, p>>] = "over"]
  /\ stopped' = [stopped EXCEPT ![<<j, p>>] = FALSE]
  /\ running' = [running EXCEPT ![Endpoint[p]] = @ - 1]
  /\ UNCHANGED <<vars, relayVars, linkVars>>

-----------------------------------------------------------------------------
RelayRest ==
  /\ \A j \in Jobs : stage[j] \in {"idle", "ended"}
  /\ UNCHANGED rvars

RelayNext ==
  \/ \E j \in Jobs :
       \/ Submit(j) \/ SubmitterSends(j) \/ SubmitterLost(j)
       \/ Collect(j) \/ WatchCancel(j) \/ Acquiring(j) \/ AcquireFailed(j)
       \/ NewJob(j) \/ Forward(j) \/ NoMore(j) \/ Leave(j)
  \/ \E p \in Providers :
       \/ Connect(p) \/ ServerReads(p) \/ ServerLoses(p) \/ Unregister(p)
       \/ ClientLoses(p) \/ ClientReads(p)
  \/ \E j \in Jobs, p \in Providers :
       \/ Take(j, p) \/ Refuse(j, p) \/ Upstream(j, p) \/ UpstreamFails(j, p)
       \/ Give(j, p)
  \/ RelayRest

RelaySpec == RelayInit /\ [][RelayNext]_rvars

(***************************************************************************)
(* Fairness of the program: goroutines that can go on do; what is on a     *)
(* live connection is read; a side whose peer has closed notices (end of   *)
(* file, or idleTimeout without a message), and so does a provider whose   *)
(* stream is broken (a record it cannot open, or idleTimeout: no PING      *)
(* comes through either); a cancelled context ends the upstream request.   *)
(***************************************************************************)
RelayGoroutine(j) ==
  \/ Collect(j) \/ Acquiring(j) \/ AcquireFailed(j) \/ NewJob(j)
  \/ Forward(j) \/ NoMore(j) \/ Leave(j)

ProgramFairness ==
  /\ \A j \in Jobs : WF_rvars(RelayGoroutine(j)) /\ WF_rvars(WatchCancel(j))
  /\ \A p \in Providers :
       /\ WF_rvars(ServerReads(p)) /\ WF_rvars(ClientReads(p))
       /\ WF_rvars(~cliUp[p] /\ ServerLoses(p))
       /\ WF_rvars((~srvUp[p] \/ Broken(p)) /\ ClientLoses(p))
       /\ WF_rvars(Unregister(p))
  /\ \A j \in Jobs, p \in Providers :
       /\ WF_rvars(Take(j, p) \/ Refuse(j, p) \/ Give(j, p))
       /\ WF_rvars(stopped[<<j, p>>] /\ UpstreamFails(j, p))

(* Nothing is assumed of upstreams: the program waits for them for ever. *)
RelayFairSpec == RelaySpec /\ ProgramFairness

-----------------------------------------------------------------------------
(* Properties. *)

(***************************************************************************)
(* The submitter hears one legal answer: a RESPONSE, then the rest, then   *)
(* at most one END or FAIL and nothing after it, whatever providers were   *)
(* tried and lost on the way (server.go:197-265, PROTOCOL.md "A job's      *)
(* message sequence").  Answers of two providers are never mixed.          *)
(***************************************************************************)
AnswerWellFormed ==
  \A j \in Jobs : \A i \in 1..Len(answer[j]) :
    /\ i = 1 <=> answer[j][i] = "RESPONSE"
    /\ answer[j][i] \in Terminal => i = Len(answer[j])

(* The answer of job j is complete. *)
Answered(j) == answer[j] # <<>> /\ Last(answer[j]) \in Terminal

(***************************************************************************)
(* relay does not return on a submitter who is still there and has not     *)
(* cancelled without having ended its answer (server.go:219, :241-261).    *)
(***************************************************************************)
EndedMeansAnswered ==
  \A j \in Jobs : stage[j] = "ended" /\ subUp[j] /\ got[j] # "cancel" => Answered(j)

(***************************************************************************)
(* A relay that returned has left nothing in the pool: no lease, no place  *)
(* in a queue, on any of its error paths (server.go:209-261).              *)
(***************************************************************************)
EndedHoldsNothing ==
  \A j \in Jobs : stage[j] = "ended" =>
    lease[j] = None /\ j \notin ToSet(waiters[Service[j]])

(* The jobs that provider p was sent and has not ended with END or FAIL. *)
Outstanding(p) ==
  {j \in Jobs : \/ Contains(toClient[p], Msg(j, "REQUEST"))
                \/ run[<<j, p>>] \in {"start", "asked", "head", "body"}}

(***************************************************************************)
(* PROTOCOL.md:201, "A provider slot is busy from REQUEST until the job's  *)
(* terminating END or FAIL": on a link that both ends hold to be up, no    *)
(* more jobs are outstanding than the provider has slots.  dispatch        *)
(* returns as soon as it has sent a CANCEL and relay then frees the slot   *)
(* (server.go:290-291, :235), so that this holds while nobody leaves.      *)
(***************************************************************************)
SlotBusyUntilTerminated ==
  \A p \in Providers : srvUp[p] /\ cliUp[p] => Cardinality(Outstanding(p)) <= Slots[p]

(***************************************************************************)
(* provide.go:31, "A provider that is sent more concurrent jobs than the   *)
(* slots it announced has a peer that is not keeping count": the server    *)
(* keeps count, so no provider of it ever fails the connection for that.   *)
(***************************************************************************)
NeverRefused ==
  \A j \in Jobs, p \in Providers :
    run[<<j, p>>] = "start" /\ cliUp[p] => running[Endpoint[p]] < Slots[p]

(* The provider that job j was handed to waits for its upstream. *)
AtUpstream(j) ==
  \E p \in Providers :
    lease[j] = p /\ j \notin half[p] /\ run[<<j, p>>] \in {"asked", "head", "body"}

(***************************************************************************)
(* Every submitted job is answered in the end, through losses, requeues    *)
(* and timeouts, unless its submitter leaves or an upstream keeps it       *)
(* (server.go:215-264; PROTOCOL.md:179-184, a job's answer ends with END   *)
(* or with FAIL).                                                          *)
(***************************************************************************)
EveryJobAnswered ==
  \A j \in Jobs :
    got[j] = "end" /\ ~AtUpstream(j)
      ~> Answered(j) \/ ~subUp[j] \/ got[j] = "cancel" \/ AtUpstream(j)

(***************************************************************************)
(* A cancelled job ends, and gives its slot back, even when the upstream   *)
(* never answers (server.go:287-295, job.go:42).                           *)
(***************************************************************************)
CancelledEnds == \A j \in Jobs : cancelled[j] ~> stage[j] = "ended"

(***************************************************************************)
(* A provider does not go on for ever with a job that the server no longer *)
(* relays: it is cancelled, or its connection ends (server.go:291, :319,   *)
(* conn.go:203, provide.go:49).                                            *)
(***************************************************************************)
OrphansStop ==
  \A j \in Jobs, p \in Providers :
    (run[<<j, p>>] \notin {"none", "over"} /\ ~(stage[j] = "relay" /\ lease[j] = p))
      ~> run[<<j, p>>] = "over"
=============================================================================
