------------------------------- MODULE Client -------------------------------
(***************************************************************************)
(* A peer that dials: the reconnect loop (src/internal/peer/client.go), the*)
(* connection it lends to its consumers (endpoint.go, conn.go) and the     *)
(* handlers that turn an application's request into a job and the job's    *)
(* messages into an answer (consume.go).                                   *)
(*                                                                         *)
(* A handler asks for the connection, opens a job on it and sends the      *)
(* request in three steps of its own, and the connection may fail between  *)
(* any two of them.  Sessions are numbered; a failed one never comes back. *)
(* The server is an environment that answers as relay does: a RESPONSE,    *)
(* at most one BODY here, then END or FAIL.                                *)
(***************************************************************************)
EXTENDS Integers, Sequences, FiniteSets, SequencesExt

CONSTANTS
  Requests,       \* the requests of applications, one handler each
  Unsendable,     \* those whose trailers END cannot encode (a name over 255 bytes)
  MayLeave,       \* bound: the requests whose application may leave
  MaxSessions,    \* bound: how many sessions are made
  MaxNaps,        \* bound: how many dials fail in a row
  BackoffFirst, BackoffLongest

ASSUME RequestsAssumption == Unsendable \subseteq Requests /\ MayLeave \subseteq Requests
ASSUME SessionAssumption == MaxSessions \in Nat /\ MaxNaps \in Nat
ASSUME BackoffAssumption ==
  BackoffFirst \in Nat \ {0} /\ BackoffLongest \in Nat /\ BackoffFirst <= BackoffLongest

VARIABLES
  loop,       \* where Client.Run is: see Loops
  session,    \* the number of sessions made; the last one is the current one
  backoff,    \* Run's backoff
  nap,        \* how long the current sleep is
  naps,       \* history: sleeps since the last session, or since the start
  attached,   \* Endpoint.conn, 0 when there is none
  failed,     \* Conn.err # nil, for each session
  srvUp,      \* the server's end of each session is open
  cut,        \* a send of each session ran into its write deadline
  toServer, toClient,   \* the streams of each session
  at,         \* where each handler is: see Places
  on,         \* the session that the handler got from connection()
  jobs,       \* Conn.jobs of each session, a job being its request
  inbox,      \* the job's queue
  out,        \* what the application was given
  appGone,    \* the request's context is done
  srv,        \* the job at the server: see Served
  said        \* history: the kinds of message the server sent for the job

loopVars == <<loop, session, backoff, nap, naps, attached>>
linkVars == <<failed, srvUp, cut, toServer, toClient>>
handlerVars == <<at, on, jobs, inbox, out>>
vars == <<loopVars, linkVars, handlerVars, appGone, srv, said>>

(***************************************************************************)
(* Run: "dial" about to dial, "hello" connected, "serve" in Conn.run,      *)
(* "sleep" between two dials.                                              *)
(* A handler: "idle" no request, "look" has the body, "open" has a         *)
(* connection, "send" has a job, "body" sent REQUEST, "wait" in            *)
(* relayAnswer, "over" returned.                                           *)
(* A job at the server: "collect" waits for the body, "asked" runs,        *)
(* "head" and "body" answers, "done" answered, "dropped" cancelled.        *)
(***************************************************************************)
Loops == {"dial", "hello", "serve", "sleep"}
Places == {"idle", "look", "open", "send", "body", "wait", "over"}
Served == {"none", "collect", "asked", "head", "body", "done", "dropped"}
Kinds == {"REQUEST", "END", "CANCEL", "RESPONSE", "BODY", "FAIL"}
Message == [job : Requests, kind : Kinds]
Msg(h, k) == [job |-> h, kind |-> k]
Shown == {"head", "body", "end", "abort", "501", "502", "503"}
Sessions == 1..MaxSessions

TypeOK ==
  /\ loop \in Loops
  /\ session \in 0..MaxSessions
  /\ backoff \in BackoffFirst..BackoffLongest
  /\ nap \in 0..BackoffLongest
  /\ naps \in Nat
  /\ attached \in 0..session
  /\ failed \in [Sessions -> BOOLEAN] /\ srvUp \in [Sessions -> BOOLEAN]
  /\ cut \in [Sessions -> BOOLEAN]
  /\ toServer \in [Sessions -> Seq(Message)] /\ toClient \in [Sessions -> Seq(Message)]
  /\ at \in [Requests -> Places]
  /\ on \in [Requests -> 0..session]
  /\ jobs \in [Sessions -> SUBSET Requests]
  /\ inbox \in [Requests -> Seq(Kinds)]
  /\ out \in [Requests -> Seq(Shown)]
  /\ appGone \in [Requests -> BOOLEAN]
  /\ srv \in [Requests -> Served]
  /\ said \in [Requests -> Seq(Kinds)]

Init ==
  /\ loop = "dial" /\ session = 0 /\ backoff = BackoffFirst /\ nap = 0 /\ naps = 0
  /\ attached = 0
  /\ failed = [n \in Sessions |-> FALSE] /\ srvUp = [n \in Sessions |-> FALSE]
  /\ cut = [n \in Sessions |-> FALSE]
  /\ toServer = [n \in Sessions |-> <<>>] /\ toClient = [n \in Sessions |-> <<>>]
  /\ at = [h \in Requests |-> "idle"]
  /\ on = [h \in Requests |-> 0]
  /\ jobs = [n \in Sessions |-> {}]
  /\ inbox = [h \in Requests |-> <<>>]
  /\ out = [h \in Requests |-> <<>>]
  /\ appGone = [h \in Requests |-> FALSE]
  /\ srv = [h \in Requests |-> "none"]
  /\ said = [h \in Requests |-> <<>>]

-----------------------------------------------------------------------------
(* Client.Run, session and Endpoint.Serve. *)

(* jitter: between half of d and d. *)
jitter(d) == (d \div 2)..d

(* Run sleeps with the backoff b, and doubles it for the next time. *)
Sleep(b) ==
  /\ loop' = "sleep"
  /\ nap' \in jitter(b)
  /\ backoff' = IF 2 * b < BackoffLongest THEN 2 * b ELSE BackoffLongest

(* session returns false: the dial or the handshake failed. *)
DialFails ==
  /\ loop = "dial"
  /\ naps < MaxNaps
  /\ Sleep(backoff)
  /\ naps' = naps + 1
  /\ UNCHANGED <<session, attached, linkVars, handlerVars, appGone, srv, said>>

(* dial and Handshake succeed, and the Conn is made. *)
Dial ==
  /\ loop = "dial"
  /\ session < MaxSessions
  /\ session' = session + 1
  /\ srvUp' = [srvUp EXCEPT ![session + 1] = TRUE]
  /\ loop' = "hello"
  /\ UNCHANGED <<backoff, nap, naps, attached, failed, cut, toServer, toClient,
                 handlerVars, appGone, srv, said>>

(* Serve sends HELLO and lends the connection to the consumers. *)
Serve ==
  /\ loop = "hello"
  /\ loop' = "serve"
  /\ attached' = session
  /\ UNCHANGED <<session, backoff, nap, naps, linkVars, handlerVars, appGone, srv, said>>

(* Mutant of SessionEnds: a session that was made does not reset the backoff. *)
SessionEndsKeepsBackoff ==
  /\ loop = "serve" /\ failed[session]
  /\ attached' = 0
  /\ Sleep(backoff)
  /\ naps' = 1
  /\ UNCHANGED <<session, linkVars, handlerVars, appGone, srv, said>>

(* session returned true: Serve could not send HELLO, or run returned and the
   connection was taken away again.  The backoff starts over. *)
SessionEnds ==
  /\ \/ loop = "hello"
     \/ loop = "serve" /\ failed[session]
  /\ attached' = 0
  /\ failed' = [failed EXCEPT ![session] = TRUE]
  /\ Sleep(BackoffFirst)
  /\ naps' = 1
  /\ UNCHANGED <<session, srvUp, cut, toServer, toClient, handlerVars, appGone, srv, said>>

(* sleep is over. *)
Wake ==
  /\ loop = "sleep"
  /\ loop' = "dial"
  /\ UNCHANGED <<session, backoff, nap, naps, attached, linkVars, handlerVars,
                 appGone, srv, said>>

-----------------------------------------------------------------------------
(* The session's two ends. *)

(* Conn.fail at the client, while run serves it: the table is emptied and every
   queue in it closed, so a handler's job is open exactly while it is listed. *)
ConnFails ==
  /\ loop = "serve"
  /\ ~failed[session]
  /\ failed' = [failed EXCEPT ![session] = TRUE]
  /\ jobs' = [jobs EXCEPT ![session] = {}]
  /\ toClient' = [toClient EXCEPT ![session] = <<>>]
  /\ UNCHANGED <<loopVars, srvUp, cut, toServer, at, on, inbox, out, appGone, srv, said>>

(* The server's end of session n fails: its jobs are cancelled there. *)
ServerCloses(n) ==
  /\ srvUp[n]
  /\ srvUp' = [srvUp EXCEPT ![n] = FALSE]
  /\ toServer' = [toServer EXCEPT ![n] = <<>>]
  /\ srv' = [h \in Requests |-> IF on[h] = n /\ srv[h] \notin {"none", "done"}
                                THEN "dropped" ELSE srv[h]]
  /\ UNCHANGED <<loopVars, failed, cut, toClient, handlerVars, appGone, said>>

(* Conn.send on session n: what the server no longer reads is lost, and so is all that
   follows a record that went out in part.  The error of sending a CANCEL is not looked
   at: one that is cut short is one that stays unread until ServerCloses. *)
Send(n, m) ==
  toServer' = IF srvUp[n] /\ ~failed[n] /\ ~cut[n]
              THEN [toServer EXCEPT ![n] = Append(@, m)] ELSE toServer

(* The server reads a message of session n. *)
ServerReads(n) ==
  LET m == Head(toServer[n]) IN
  /\ toServer[n] # <<>>
  /\ toServer' = [toServer EXCEPT ![n] = Tail(@)]
  /\ srv' = [srv EXCEPT ![m.job] =
               CASE m.kind = "REQUEST" -> "collect"
                 [] m.kind = "END" -> "asked"
                 [] m.kind = "CANCEL" -> IF @ = "done" THEN @ ELSE "dropped"]
  /\ UNCHANGED <<loopVars, failed, srvUp, cut, toClient, handlerVars, appGone, said>>

(* relay's answer to job h, as far as it is written. *)
ServerSays(h) ==
  LET n == on[h] IN
  \E k \in {"RESPONSE", "BODY", "END", "FAIL"} :
    /\ \/ srv[h] = "asked" /\ k = "RESPONSE" /\ srv' = [srv EXCEPT ![h] = "head"]
       \/ srv[h] = "head" /\ k = "BODY" /\ srv' = [srv EXCEPT ![h] = "body"]
       \/ srv[h] \in {"head", "body"} /\ k \in {"END", "FAIL"}
            /\ srv' = [srv EXCEPT ![h] = "done"]
    /\ said' = [said EXCEPT ![h] = Append(@, k)]
    /\ toClient' = IF failed[n] THEN toClient
                   ELSE [toClient EXCEPT ![n] = Append(@, Msg(h, k))]
    /\ UNCHANGED <<loopVars, failed, srvUp, cut, toServer, handlerVars, appGone>>

(* The client's read loop: a message for a job that ended is ignored. *)
ClientReads ==
  LET m == Head(toClient[session]) IN
  /\ loop = "serve" /\ ~failed[session]
  /\ toClient[session] # <<>>
  /\ toClient' = [toClient EXCEPT ![session] = Tail(@)]
  /\ inbox' = IF m.job \in jobs[session]
              THEN [inbox EXCEPT ![m.job] = Append(@, m.kind)] ELSE inbox
  /\ UNCHANGED <<loopVars, failed, srvUp, cut, toServer, at, on, jobs, out, appGone, srv, said>>
-----------------------------------------------------------------------------
(* consume, for request h. *)

(* The handler returns: its deferred endJob forgets the job. *)
Returns(h) ==
  /\ at' = [at EXCEPT ![h] = "over"]
  /\ jobs' = [n \in Sessions |-> jobs[n] \ {h}]
  /\ inbox' = [inbox EXCEPT ![h] = <<>>]

(* What consume gives the application, shown after what it has. *)
Show(h, x) == out' = [out EXCEPT ![h] = Append(@, x)]

(* synth and return. *)
Answers(h, status) ==
  /\ Returns(h)
  /\ Show(h, status)
  /\ UNCHANGED <<on, toServer>>

(* A request comes: an upgrade is refused, a body that cannot be read is too. *)
Arrive(h) ==
  /\ at[h] = "idle"
  /\ \/ /\ at' = [at EXCEPT ![h] = "look"]
        /\ UNCHANGED <<on, jobs, inbox, out, toServer>>
     \/ Answers(h, "501")
     \/ Answers(h, "502")
  /\ UNCHANGED <<loopVars, failed, srvUp, cut, toClient, appGone, srv, said>>

(* connection(): the session that is attached at this moment. *)
Look(h) ==
  /\ at[h] = "look"
  /\ \/ /\ attached # 0
        /\ on' = [on EXCEPT ![h] = attached]
        /\ at' = [at EXCEPT ![h] = "open"]
        /\ UNCHANGED <<jobs, inbox, out, toServer>>
     \/ attached = 0 /\ Answers(h, "503")
  /\ UNCHANGED <<loopVars, failed, srvUp, cut, toClient, appGone, srv, said>>

(* Mutant of Open: newJob does not look at the connection's error. *)
OpenUnchecked(h) ==
  /\ at[h] = "open"
  /\ jobs' = [jobs EXCEPT ![on[h]] = @ \cup {h}]
  /\ at' = [at EXCEPT ![h] = "send"]
  /\ UNCHANGED <<on, inbox, out, loopVars, linkVars, appGone, srv, said>>

(* newJob: the session may have failed since. *)
Open(h) ==
  /\ at[h] = "open"
  /\ \/ /\ ~failed[on[h]]
        /\ jobs' = [jobs EXCEPT ![on[h]] = @ \cup {h}]
        /\ at' = [at EXCEPT ![h] = "send"]
        /\ UNCHANGED <<on, inbox, out, toServer>>
     \/ failed[on[h]] /\ Answers(h, "503")
  /\ UNCHANGED <<loopVars, failed, srvUp, cut, toClient, appGone, srv, said>>

(* A send fails on a connection that failed or that the server has closed, and on a
   live one by its write deadline.  That does not fail the connection, but nothing that
   is written after it can be opened; nobody tells the server of the job. *)
SendFails(h) ==
  /\ Answers(h, "503")
  /\ cut' = [cut EXCEPT ![on[h]] = @ \/ (srvUp[on[h]] /\ ~failed[on[h]])]

SendRequest(h) ==
  /\ at[h] = "send"
  /\ \/ /\ at' = [at EXCEPT ![h] = "body"]
        /\ Send(on[h], Msg(h, "REQUEST"))
        /\ UNCHANGED <<cut, on, jobs, inbox, out>>
     \/ SendFails(h)
  /\ UNCHANGED <<loopVars, failed, srvUp, toClient, appGone, srv, said>>

(* sendBodyEnd.  An END that cannot be encoded is not written at all: the connection
   is as good as before, and the server waits on it for the rest of the job. *)
SendBodyEnd(h) ==
  /\ at[h] = "body"
  /\ \/ /\ h \notin Unsendable
        /\ at' = [at EXCEPT ![h] = "wait"]
        /\ Send(on[h], Msg(h, "END"))
        /\ UNCHANGED <<cut, on, jobs, inbox, out>>
     \/ h \in Unsendable /\ Answers(h, "503") /\ UNCHANGED cut
     \/ SendFails(h)
  /\ UNCHANGED <<loopVars, failed, srvUp, toClient, appGone, srv, said>>

(* answerFailure: 502 while there is a status line to write, else no end at all. *)
Failure(h) == IF out[h] = <<>> THEN "502" ELSE "abort"

(* relayAnswer passes a message on.  A body that cannot be written is the
   application's leaving. *)
Relay(h) ==
  LET k == Head(inbox[h]) IN
  /\ at[h] = "wait"
  /\ inbox[h] # <<>>
  /\ \/ /\ k \in {"RESPONSE", "BODY"}
        /\ Show(h, IF k = "RESPONSE" THEN "head" ELSE "body")
        /\ inbox' = [inbox EXCEPT ![h] = Tail(@)]
        /\ UNCHANGED <<at, jobs, on, toServer>>
     \/ /\ k = "BODY" /\ appGone[h]
        /\ Returns(h)
        /\ Send(on[h], Msg(h, "CANCEL"))
        /\ UNCHANGED <<on, out>>
     \/ k = "END" /\ Answers(h, "end")
     \/ k = "FAIL" /\ Answers(h, Failure(h))
  /\ UNCHANGED <<loopVars, failed, srvUp, cut, toClient, appGone, srv, said>>

(* Mutants of RelayEnds: a lost connection ends an answer like END does, or is
   not told, or is not noticed; an application that left is not reported. *)
RelayEndsQuietly(h) ==
  /\ at[h] = "wait" /\ inbox[h] = <<>> /\ h \notin jobs[on[h]]
  /\ Answers(h, "end")
  /\ UNCHANGED <<loopVars, failed, srvUp, cut, toClient, appGone, srv, said>>

RelayEndsMute(h) ==
  /\ at[h] = "wait" /\ inbox[h] = <<>> /\ h \notin jobs[on[h]]
  /\ Returns(h)
  /\ UNCHANGED <<loopVars, linkVars, on, out, appGone, srv, said>>

RelayEndsOnlyLeft(h) ==
  /\ at[h] = "wait" /\ appGone[h]
  /\ Returns(h)
  /\ Send(on[h], Msg(h, "CANCEL"))
  /\ UNCHANGED <<loopVars, failed, srvUp, cut, toClient, on, out, appGone, srv, said>>

RelayEndsUntold(h) ==
  /\ at[h] = "wait"
  /\ appGone[h] \/ (inbox[h] = <<>> /\ h \notin jobs[on[h]])
  /\ Answers(h, Failure(h))
  /\ UNCHANGED <<loopVars, failed, srvUp, cut, toClient, appGone, srv, said>>

(* next returns an error: the application left, or the connection ended. *)
RelayEnds(h) ==
  /\ at[h] = "wait"
  /\ \/ /\ appGone[h]
        /\ Returns(h)
        /\ Send(on[h], Msg(h, "CANCEL"))
        /\ UNCHANGED <<on, out>>
     \/ /\ ~appGone[h] /\ inbox[h] = <<>> /\ h \notin jobs[on[h]]
        /\ Answers(h, Failure(h))
  /\ UNCHANGED <<loopVars, failed, srvUp, cut, toClient, appGone, srv, said>>

(* The application goes away. *)
AppLeaves(h) ==
  /\ h \in MayLeave
  /\ at[h] \notin {"idle", "over"}
  /\ ~appGone[h]
  /\ appGone' = [appGone EXCEPT ![h] = TRUE]
  /\ UNCHANGED <<loopVars, linkVars, handlerVars, srv, said>>

-----------------------------------------------------------------------------
Rest ==
  /\ \A h \in Requests : at[h] \in {"idle", "over"}
  /\ UNCHANGED vars

Handler(h) ==
  \/ Look(h) \/ Open(h) \/ SendRequest(h) \/ SendBodyEnd(h)
  \/ Relay(h) \/ RelayEnds(h)

Next ==
  \/ DialFails \/ Dial \/ Serve \/ SessionEnds \/ Wake \/ ConnFails \/ ClientReads
  \/ \E n \in Sessions : ServerCloses(n) \/ ServerReads(n)
  \/ \E h \in Requests : Arrive(h) \/ Handler(h) \/ ServerSays(h) \/ AppLeaves(h)
  \/ Rest

Spec == Init /\ [][Next]_vars

(***************************************************************************)
(* Fairness: handlers and read loops that can go on do, and an end whose   *)
(* other end has closed notices (end of file, or idleTimeout), as does the *)
(* server when the stream to it is cut (a record it cannot open, or        *)
(* idleTimeout: no PONG comes through either).                             *)
(***************************************************************************)
ProgramFairness ==
  /\ \A h \in Requests : WF_vars(Handler(h))
  /\ WF_vars(Serve \/ SessionEnds) /\ WF_vars(ClientReads)
  /\ \A n \in Sessions :
       /\ WF_vars(ServerReads(n))
       /\ WF_vars((failed[n] \/ cut[n]) /\ ServerCloses(n))
       /\ WF_vars(session = n /\ ~srvUp[n] /\ toClient[n] = <<>> /\ ConnFails)

(* Nothing is assumed of the server's answers. *)
FairSpec == Spec /\ ProgramFairness

-----------------------------------------------------------------------------
(* Properties. *)

(* What the application is given for each message of the server. *)
Rendered == [k \in Kinds |-> CASE k = "RESPONSE" -> "head" [] k = "BODY" -> "body"
                               [] k = "END" -> "end" [] OTHER -> "abort"]

(***************************************************************************)
(* The application never mistakes a broken answer for a whole one.  Either *)
(* it is given one status that this peer made up, and nothing else; or it  *)
(* is given the server's messages in order, none left out, and the end of  *)
(* the answer only when the server sent END (consume.go:67-115).           *)
(***************************************************************************)
AnswerIsHonest ==
  \A h \in Requests :
    \/ out[h] \in {<<"501">>, <<"502">>, <<"503">>}
    \/ \A i \in 1..Len(out[h]) :
         \/ out[h][i] = "abort" /\ i = Len(out[h]) /\ i > 1
         \/ i <= Len(said[h]) /\ out[h][i] = Rendered[said[h][i]]

(***************************************************************************)
(* A handler returns to an application that is still there only with an    *)
(* answer that has an end: END, an abort, or a status of its own.          *)
(***************************************************************************)
ReturnsWithAnswer ==
  \A h \in Requests : at[h] = "over" /\ ~appGone[h] =>
    out[h] # <<>> /\ Last(out[h]) \notin {"head", "body"}

(***************************************************************************)
(* The job tables: a failed connection has no jobs, so that no handler     *)
(* waits on one whose read loop has ended, however newJob and fail race    *)
(* (conn.go:149, :203); and a handler that returned left none behind.      *)
(***************************************************************************)
NoOrphanJobs ==
  \A n \in Sessions : \A h \in jobs[n] :
    ~failed[n] /\ on[h] = n /\ at[h] \in {"send", "body", "wait"}

(* The backoff doubled n times. *)
Doubled[n \in Nat] == IF n = 0 THEN BackoffFirst ELSE 2 * Doubled[n - 1]

(***************************************************************************)
(* The waits between dials: 1, 2, 4, ... and then always the longest, each *)
(* shortened by at most half, and back to the first after a session        *)
(* (client.go:46-63, PROTOCOL.md "exponential backoff, 1 s doubling to 60  *)
(* s, with jitter").                                                       *)
(***************************************************************************)
BackoffDoubles ==
  LET doubled == Doubled[naps - 1]
      full == IF doubled < BackoffLongest THEN doubled ELSE BackoffLongest
  IN loop = "sleep" => nap \in (full \div 2)..full

(* The server has the whole job h and has not ended its answer. *)
AtServer(h) == srv[h] \in {"asked", "head", "body"}

(***************************************************************************)
(* Every request comes to its end, whatever happens to the connection and  *)
(* whenever it happens, unless the server keeps the job (consume.go:33-61, *)
(* :71-79, conn.go:203).                                                   *)
(***************************************************************************)
EveryRequestEnds ==
  \A h \in Requests :
    at[h] # "idle" /\ ~AtServer(h) ~> at[h] = "over" \/ AtServer(h)

(***************************************************************************)
(* PROTOCOL.md:179, "consumer->provider REQUEST, BODY*, END", and :197,    *)
(* CANCEL when the application went away: a job whose handler has returned *)
(* does not stay at the server, which itself would wait for ever; it was   *)
(* answered, or it is dropped there.  consume.go:56-59 answers 503 and     *)
(* leaves the job open when its END could not be encoded.                  *)
(***************************************************************************)
NoJobLeft(h) ==
  at[h] = "over" /\ srv[h] \notin {"none", "done"} ~> srv[h] \in {"done", "dropped"}

NoJobLeftAtServer == \A h \in Requests : NoJobLeft(h)

(***************************************************************************)
(* The same of the jobs that can be encoded, wherever a write deadline     *)
(* cuts the request short, with no CANCEL after it (conn.go:121-124,       *)
(* consume.go:52-59), and whichever of the application's leaving, its      *)
(* CANCEL and the loss of the session comes first (consume.go:74-90).      *)
(***************************************************************************)
NoSentJobLeft == \A h \in Requests \ Unsendable : NoJobLeft(h)
=============================================================================
