---------------------------- MODULE ClientProofs ----------------------------
(***************************************************************************)
(* Proofs about Client: the job tables, and what applications are given.   *)
(***************************************************************************)
EXTENDS Client, NaturalsInduction, WellFoundedInduction, TLAPS

-----------------------------------------------------------------------------
(* The inductive invariant. *)

(* A handler that has not sent its whole request. *)
Unsent == {"idle", "look", "open", "send", "body"}

(* Run and the connection it lends: nobody has got the one that it greets on. *)
Lending ==
  /\ loop \in {"hello", "serve"} => session \in Sessions
  /\ attached # 0 => loop = "serve" /\ attached = session
  /\ loop = "hello" => \A h \in Requests : on[h] # session

(* A handler that looked has a session, and so has a job that the server knows. *)
OnSession ==
  \A h \in Requests :
    /\ at[h] \in {"open", "send", "body", "wait"} => on[h] \in Sessions
    /\ srv[h] # "none" => on[h] \in Sessions

(* How far a job can be at the server, by where its handler is. *)
Reached ==
  \A h \in Requests :
    /\ at[h] \in {"idle", "look", "open", "send"} => srv[h] = "none"
    /\ at[h] = "body" =>
         srv[h] \in {"none", "collect"} \/ (srv[h] = "dropped" /\ ~srvUp[on[h]])
    /\ at[h] \in Unsent => said[h] = <<>> /\ out[h] = <<>>

(* What is on its way to the server is a request that it has not got, in order. *)
OnItsWay(m, n) ==
  /\ on[m.job] = n
  /\ \/ m.kind = "REQUEST" /\ srv[m.job] = "none" /\ at[m.job] \in {"body", "wait", "over"}
     \/ m.kind = "END" /\ srv[m.job] \in {"none", "collect"} /\ at[m.job] \in {"wait", "over"}
     \/ m.kind = "CANCEL" /\ at[m.job] = "over"

InTurn(s, i) ==
  \A k \in 1..(i - 1) : s[k].job = s[i].job =>
    \/ s[k].kind = "REQUEST" /\ s[i].kind \in {"END", "CANCEL"}
    \/ s[k].kind = "END" /\ s[i].kind = "CANCEL"

Asking ==
  \A n \in Sessions : \A i \in 1..Len(toServer[n]) :
    OnItsWay(toServer[n][i], n) /\ InTurn(toServer[n], i)

(* The first n messages of an answer that is not at its end. *)
Begun(s, n) == Len(s) = n /\ (n >= 1 => s[1] = "RESPONSE") /\ (n >= 2 => s[2] = "BODY")

(* A whole answer. *)
Whole(s) ==
  /\ Len(s) \in {2, 3} /\ s[1] = "RESPONSE" /\ (Len(s) = 3 => s[2] = "BODY")
  /\ s[Len(s)] \in {"END", "FAIL"}

(* What the server has said, by how far the job is. *)
Spoken ==
  \A h \in Requests :
    /\ srv[h] \in {"none", "collect", "asked"} => said[h] = <<>>
    /\ srv[h] = "head" => Begun(said[h], 1)
    /\ srv[h] = "body" => Begun(said[h], 2)
    /\ srv[h] = "dropped" => Begun(said[h], Len(said[h])) /\ Len(said[h]) \in 0..2
    /\ srv[h] = "done" => Whole(said[h])

(* How many of the server's messages the handler of h has been given. *)
Given(h) == Len(out[h]) + Len(inbox[h])

(* What the handler has shown, and what waits in its queue, is what was said. *)
AlignedWith(w, o, q) ==
  /\ Len(o) + Len(q) <= Len(w)
  /\ \A i \in 1..Len(o) : o[i] = Rendered[w[i]]
  /\ \A i \in 1..Len(q) : q[i] = w[Len(o) + i]

AlignedTo(h) == AlignedWith(said[h], out[h], inbox[h])

Aligned == \A h \in Requests : at[h] # "over" => AlignedTo(h)

(* Where a message of this kind is in the answer w. *)
Pos(w, k) == IF k = "RESPONSE" THEN 1 ELSE IF k = "BODY" THEN 2 ELSE Len(w)

(* Message i of stream s is one of the answer w to h, past the first g, and none is
   missing between those and it. *)
ComesAt(w, h, s, g, i) ==
  /\ s[i].kind \in {"RESPONSE", "BODY", "END", "FAIL"}
  /\ Pos(w, s[i].kind) \in (g + 1)..Len(w)
  /\ w[Pos(w, s[i].kind)] = s[i].kind
  /\ \/ Pos(w, s[i].kind) = g + 1
     \/ \E k \in 1..(i - 1) : s[k].job = h /\ Pos(w, s[k].kind) = Pos(w, s[i].kind) - 1
  /\ \A k \in 1..(i - 1) : s[k].job = h => Pos(w, s[k].kind) < Pos(w, s[i].kind)

(* The stream s holds the answer w to h from message g + 1 on. *)
Follows(w, h, s, g) ==
  /\ \A i \in 1..Len(s) : s[i].job = h => ComesAt(w, h, s, g, i)
  /\ g = Len(w) \/ \E i \in 1..Len(s) : s[i].job = h /\ Pos(w, s[i].kind) = Len(w)

(* What is on its way to an open job is the rest of its answer. *)
Following(h) == Follows(said[h], h, toClient[on[h]], Given(h))

StreamOK == \A n \in Sessions : \A h \in jobs[n] : Following(h)

(* Nothing is on its way to a handler whose request is not whole. *)
Silent ==
  \A n \in Sessions : \A i \in 1..Len(toClient[n]) : at[toClient[n][i].job] \notin Unsent

IInv ==
  /\ TypeOK /\ Lending /\ OnSession /\ NoOrphanJobs
  /\ Reached /\ Asking /\ Spoken
  /\ Aligned /\ StreamOK /\ Silent /\ AnswerIsHonest /\ ReturnsWithAnswer

-----------------------------------------------------------------------------
(* Sequences. *)

(* A sequence with one more element. *)
LEMMA Appended ==
  ASSUME NEW S, NEW s \in Seq(S), NEW e \in S
  PROVE  /\ Append(s, e) \in Seq(S)
         /\ Len(Append(s, e)) = Len(s) + 1
         /\ \A i \in 1..Len(s) : Append(s, e)[i] = s[i]
         /\ Append(s, e)[Len(s) + 1] = e
         /\ Append(s, e) # <<>> /\ Last(Append(s, e)) = e
BY DEF Last

(* A sequence without its first element. *)
LEMMA Tailed ==
  ASSUME NEW S, NEW s \in Seq(S), s # <<>>
  PROVE  /\ Tail(s) \in Seq(S)
         /\ Len(s) \in Nat \ {0} /\ Len(Tail(s)) = Len(s) - 1
         /\ \A i \in 1..Len(Tail(s)) : Tail(s)[i] = s[i + 1]
         /\ Head(s) = s[1] /\ Head(s) \in S
OBVIOUS

-----------------------------------------------------------------------------
(* Types. *)

(* What a handler does when it returns, and what it sends, has its type. *)
LEMMA ReturnsType ==
  ASSUME TypeOK, NEW h \in Requests, Returns(h)
  PROVE  /\ at' \in [Requests -> Places]
         /\ jobs' \in [Sessions -> SUBSET Requests]
         /\ inbox' \in [Requests -> Seq(Kinds)]
BY DEF TypeOK, Returns, Places

(* What an application is given has its type. *)
LEMMA ShowType ==
  ASSUME TypeOK, NEW h \in Requests, NEW x \in Shown, Show(h, x)
  PROVE  out' \in [Requests -> Seq(Shown)]
BY DEF TypeOK, Show

(* So have the streams to the server. *)
LEMMA SendType ==
  ASSUME TypeOK, NEW n \in Sessions, NEW h \in Requests, NEW k \in Kinds, Send(n, Msg(h, k))
  PROVE  toServer' \in [Sessions -> Seq(Message)]
<1>1. Msg(h, k) \in Message
  BY DEF Msg, Message
<1> QED  BY <1>1 DEF TypeOK, Send

(* The waits are never longer than the longest. *)
LEMMA SleepType ==
  ASSUME TypeOK, NEW b \in BackoffFirst..BackoffLongest, Sleep(b)
  PROVE  loop' \in Loops /\ nap' \in 0..BackoffLongest /\ backoff' \in BackoffFirst..BackoffLongest
<1>1. b \in Nat /\ b \div 2 \in Nat
  BY BackoffAssumption
<1> QED  BY <1>1, BackoffAssumption DEF Sleep, jitter, Loops

(* Every step keeps the types. *)
LEMMA TypeStep == IInv /\ [Next]_vars => TypeOK'
<1> SUFFICES ASSUME IInv, [Next]_vars PROVE TypeOK'
  OBVIOUS
<1>t. TypeOK /\ OnSession /\ Lending
  BY DEF IInv
<1> USE SessionAssumption DEF Sessions
<1>1. CASE DialFails
  <2>1. loop' \in Loops /\ nap' \in 0..BackoffLongest /\ backoff' \in BackoffFirst..BackoffLongest
    BY <1>1, <1>t, SleepType DEF DialFails, TypeOK
  <2> QED  BY <1>1, <1>t, <2>1 DEF DialFails, TypeOK, linkVars, handlerVars
<1>2. CASE Dial
  BY <1>2, <1>t DEF Dial, TypeOK, Loops, handlerVars
<1>3. CASE Serve \/ Wake
  BY <1>3, <1>t DEF Serve, Wake, TypeOK, Loops, linkVars, handlerVars
<1>4. CASE SessionEnds
  <2>1. loop' \in Loops /\ nap' \in 0..BackoffLongest /\ backoff' \in BackoffFirst..BackoffLongest
    BY <1>4, <1>t, SleepType, BackoffAssumption DEF SessionEnds, TypeOK
  <2>2. session \in Sessions /\ attached' = 0 /\ session' = session /\ naps' = 1
    BY <1>4, <1>t DEF SessionEnds, Lending
  <2> QED  BY <1>4, <1>t, <2>1, <2>2 DEF SessionEnds, TypeOK, handlerVars
<1>5. CASE ConnFails
  <2>1. session \in Sessions
    BY <1>5, <1>t DEF ConnFails, Lending
  <2>2. toClient' \in [Sessions -> Seq(Message)] /\ jobs' \in [Sessions -> SUBSET Requests]
    BY <1>5, <1>t, <2>1 DEF ConnFails, TypeOK
  <2> QED  BY <1>5, <1>t, <2>1, <2>2 DEF ConnFails, TypeOK, loopVars
<1>6. CASE ClientReads
  <2>1. session \in Sessions /\ toClient[session] \in Seq(Message)
    BY <1>6, <1>t DEF ClientReads, Lending, TypeOK
  <2>2. Head(toClient[session]) \in Message
    BY <1>6, <2>1 DEF ClientReads
  <2>4. toClient' \in [Sessions -> Seq(Message)]
    BY <1>6, <1>t, <2>1 DEF ClientReads, TypeOK
  <2>5. Head(toClient[session]).kind \in Kinds /\ Head(toClient[session]).job \in Requests
    BY <2>2 DEF Message
  <2>3. inbox' \in [Requests -> Seq(Kinds)]
    BY <1>6, <1>t, <2>5 DEF ClientReads, TypeOK
  <2> QED  BY <1>6, <1>t, <2>3, <2>4 DEF ClientReads, TypeOK, loopVars
<1>7. ASSUME NEW n \in Sessions, ServerCloses(n) PROVE TypeOK'
  BY <1>7, <1>t DEF ServerCloses, TypeOK, loopVars, handlerVars, Served
<1>8. ASSUME NEW n \in Sessions, ServerReads(n) PROVE TypeOK'
  <2>1. Head(toServer[n]) = toServer[n][1] /\ toServer[n][1] \in Message /\ 1 \in 1..Len(toServer[n])
    BY <1>8, <1>t DEF ServerReads, TypeOK
  <2>2. Head(toServer[n]).kind \in {"REQUEST", "END", "CANCEL"} /\ Head(toServer[n]).job \in Requests
    BY <2>1 DEF IInv, Asking, OnItsWay, Message
  <2>3. srv' \in [Requests -> Served]
    BY <1>8, <1>t, <2>2 DEF ServerReads, TypeOK, Served
  <2>4. toServer' \in [Sessions -> Seq(Message)]
    BY <1>8, <1>t DEF ServerReads, TypeOK
  <2> QED  BY <1>8, <1>t, <2>3, <2>4 DEF ServerReads, TypeOK, loopVars, handlerVars
<1>9. ASSUME NEW h \in Requests, Arrive(h) PROVE TypeOK'
  <2>1. CASE at' = [at EXCEPT ![h] = "look"] /\ UNCHANGED <<on, jobs, inbox, out, toServer>>
    BY <1>9, <1>t, <2>1 DEF Arrive, TypeOK, loopVars, Places
  <2>2. CASE Answers(h, "501") \/ Answers(h, "502")
    BY <1>9, <1>t, <2>2, ReturnsType, ShowType DEF Arrive, Answers, Shown, TypeOK, loopVars
  <2> QED  BY <1>9, <2>1, <2>2 DEF Arrive
<1>10. ASSUME NEW h \in Requests, Look(h) PROVE TypeOK'
  <2>1. CASE attached = 0
    BY <1>10, <1>t, <2>1, ReturnsType, ShowType DEF Look, Answers, Shown, TypeOK, loopVars
  <2> QED  BY <1>10, <1>t, <2>1 DEF Look, TypeOK, loopVars, Places
<1>11. ASSUME NEW h \in Requests, Open(h) PROVE TypeOK'
  <2>1. CASE failed[on[h]]
    BY <1>11, <1>t, <2>1, ReturnsType, ShowType DEF Open, Answers, Shown, TypeOK, loopVars
  <2>2. on[h] \in Sessions
    BY <1>11, <1>t DEF Open, OnSession
  <2>3. CASE ~failed[on[h]]
    <3>2. jobs' = [jobs EXCEPT ![on[h]] = @ \cup {h}] /\ at' = [at EXCEPT ![h] = "send"]
      BY <1>11, <2>3, Zenon DEF Open
    <3>1. jobs' \in [Sessions -> SUBSET Requests] /\ at' \in [Requests -> Places]
      BY <1>t, <2>2, <3>2 DEF TypeOK, Places
    <3> QED  BY <1>11, <1>t, <2>3, <3>1 DEF Open, TypeOK, loopVars
  <2> QED  BY <2>1, <2>3
<1>12. ASSUME NEW h \in Requests, SendRequest(h) \/ SendBodyEnd(h) PROVE TypeOK'
  <2>2. on[h] \in Sessions
    BY <1>12, <1>t DEF SendRequest, SendBodyEnd, OnSession
  <2>4. cut' \in [Sessions -> BOOLEAN]
    BY <1>12, <1>t, <2>2 DEF SendRequest, SendBodyEnd, SendFails, TypeOK
  <2>5. UNCHANGED <<loopVars, failed, srvUp, toClient, appGone, srv, said>>
    BY <1>12 DEF SendRequest, SendBodyEnd
  <2>1. CASE Answers(h, "503")
    BY <1>t, <2>1, <2>4, <2>5, ReturnsType, ShowType DEF Answers, Shown, TypeOK, loopVars
  <2>3. CASE Send(on[h], Msg(h, "REQUEST")) \/ Send(on[h], Msg(h, "END"))
    <3>1. toServer' \in [Sessions -> Seq(Message)]
      BY <1>t, <2>2, <2>3, SendType DEF Kinds
    <3>2. \/ Answers(h, "503")
          \/ /\ \E a \in {"body", "wait"} : at' = [at EXCEPT ![h] = a]
             /\ UNCHANGED <<on, jobs, inbox, out>>
      BY <1>12 DEF SendRequest, SendBodyEnd, SendFails
    <3> QED  BY <1>t, <2>1, <2>4, <2>5, <3>1, <3>2 DEF TypeOK, loopVars, Places
  <2> QED  BY <1>12, <2>1, <2>3 DEF SendRequest, SendBodyEnd, SendFails
<1>13. ASSUME NEW h \in Requests, Relay(h) \/ RelayEnds(h) PROVE TypeOK'
  <2>1. ASSUME NEW x \in Shown, Answers(h, x) PROVE TypeOK'
    BY <1>13, <1>t, <2>1, ReturnsType, ShowType
       DEF Relay, RelayEnds, Answers, TypeOK, loopVars
  <2>2. Failure(h) \in Shown /\ "end" \in Shown
    BY DEF Failure, Shown
  <2>3. on[h] \in Sessions
    BY <1>13, <1>t DEF Relay, RelayEnds, OnSession
  <2>4. CASE Returns(h) /\ Send(on[h], Msg(h, "CANCEL")) /\ UNCHANGED <<on, out>>
    BY <1>13, <1>t, <2>3, <2>4, ReturnsType, SendType DEF Kinds, Relay, RelayEnds, TypeOK, loopVars
  <2>5. ASSUME NEW x \in {"head", "body"}, Show(h, x), inbox[h] # <<>>,
               inbox' = [inbox EXCEPT ![h] = Tail(@)], UNCHANGED <<at, jobs, on, toServer>>
        PROVE  TypeOK'
    <3>1. out' \in [Requests -> Seq(Shown)]
      BY <1>t, <2>5, ShowType DEF Shown
    <3>2. inbox' \in [Requests -> Seq(Kinds)]
      BY <1>t, <2>5 DEF TypeOK
    <3> QED  BY <1>13, <1>t, <2>5, <3>1, <3>2 DEF Relay, RelayEnds, TypeOK, loopVars
  <2> QED  BY <1>13, <2>1, <2>2, <2>4, <2>5 DEF Relay, RelayEnds
<1>14. ASSUME NEW h \in Requests, ServerSays(h) PROVE TypeOK'
  <2>1. PICK k \in {"RESPONSE", "BODY", "END", "FAIL"} :
          /\ srv[h] # "none"
          /\ \E st \in Served : srv' = [srv EXCEPT ![h] = st]
          /\ said' = [said EXCEPT ![h] = Append(@, k)]
          /\ toClient' = IF failed[on[h]] THEN toClient
                         ELSE [toClient EXCEPT ![on[h]] = Append(@, Msg(h, k))]
          /\ UNCHANGED <<loopVars, failed, srvUp, cut, toServer, handlerVars, appGone>>
    BY <1>14 DEF ServerSays, Served
  <2>2. on[h] \in Sessions /\ Msg(h, k) \in Message
    BY <1>t, <2>1 DEF OnSession, Msg, Message, Kinds
  <2>3. toClient' \in [Sessions -> Seq(Message)]
    BY <1>t, <2>1, <2>2 DEF TypeOK
  <2>4. said' \in [Requests -> Seq(Kinds)]
    BY <1>t, <2>1 DEF TypeOK, Kinds
  <2>5. srv' \in [Requests -> Served]
    BY <1>t, <2>1 DEF TypeOK
  <2>6. UNCHANGED <<loopVars, failed, srvUp, cut, toServer, handlerVars, appGone>>
    BY <2>1
  <2> QED  BY <1>t, <2>3, <2>4, <2>5, <2>6 DEF TypeOK, loopVars, handlerVars
<1>15. ASSUME NEW h \in Requests, AppLeaves(h) PROVE TypeOK'
  BY <1>15, <1>t DEF AppLeaves, TypeOK, loopVars, linkVars, handlerVars
<1>16. CASE Rest \/ UNCHANGED vars
  BY <1>16, <1>t DEF Rest, TypeOK, vars, loopVars, linkVars, handlerVars
<1> QED
  BY <1>1, <1>2, <1>3, <1>4, <1>5, <1>6, <1>7, <1>8, <1>9, <1>10, <1>11, <1>12, <1>13,
     <1>14, <1>15, <1>16 DEF Next, Handler

-----------------------------------------------------------------------------
(* The job tables. *)

(* A handler that returns takes its job out of the tables and nobody else's. *)
LEMMA ReturnsTable ==
  ASSUME TypeOK, OnSession, NoOrphanJobs, NEW h \in Requests, Returns(h),
         UNCHANGED <<on, failed, srv, session>>
  PROVE  OnSession' /\ NoOrphanJobs'
<1>1. OnSession'
  BY DEF TypeOK, OnSession, Returns, Sessions
<1>2. ASSUME NEW n \in Sessions, NEW g \in jobs'[n]
      PROVE  ~failed[n] /\ on[g] = n /\ at'[g] \in {"send", "body", "wait"}
  <2>1. g \in jobs[n] /\ g # h /\ g \in Requests
    BY <1>2 DEF Returns, TypeOK
  <2> QED  BY <2>1 DEF NoOrphanJobs, Returns, TypeOK
<1> QED  BY <1>1, <1>2 DEF NoOrphanJobs, Sessions

(* The steps that leave the tables and what they are about alone. *)
LEMMA TableKept ==
  ASSUME Lending, OnSession, NoOrphanJobs,
         UNCHANGED <<loop, session, attached, failed, at, on, jobs, srv>>
  PROVE  Lending' /\ OnSession' /\ NoOrphanJobs'
BY DEF Lending, OnSession, NoOrphanJobs, Sessions

(* Every step keeps the job tables: a job is listed on the one session that its
   handler got, while that session has not failed. *)
LEMMA TableStep == IInv /\ [Next]_vars => Lending' /\ OnSession' /\ NoOrphanJobs'
<1> SUFFICES ASSUME IInv, [Next]_vars PROVE Lending' /\ OnSession' /\ NoOrphanJobs'
  OBVIOUS
<1>t. TypeOK /\ OnSession /\ Lending /\ NoOrphanJobs
  BY DEF IInv
<1> USE SessionAssumption DEF Sessions
<1>1. CASE DialFails \/ Wake
  BY <1>1, <1>t DEF DialFails, Wake, Sleep, TypeOK, linkVars, handlerVars, Lending, OnSession,
                    NoOrphanJobs
<1>2. CASE Dial
  BY <1>2, <1>t DEF Dial, TypeOK, handlerVars, Lending, OnSession, NoOrphanJobs
<1>3. CASE Serve
  BY <1>3, <1>t DEF Serve, TypeOK, linkVars, handlerVars, Lending, OnSession, NoOrphanJobs
<1>4. CASE SessionEnds
  <2>1. Lending' /\ OnSession'
    BY <1>4, <1>t DEF SessionEnds, Sleep, TypeOK, handlerVars, Lending, OnSession
  <2>2. jobs[session] = {}
    <3>1. CASE loop = "hello"
      BY <1>t, <3>1 DEF Lending, NoOrphanJobs, TypeOK
    <3>2. CASE loop = "serve" /\ failed[session]
      BY <1>t, <3>2 DEF Lending, NoOrphanJobs
    <3> QED  BY <1>4, <3>1, <3>2 DEF SessionEnds
  <2>3. NoOrphanJobs'
    BY <1>4, <1>t, <2>2 DEF SessionEnds, TypeOK, handlerVars, NoOrphanJobs
  <2> QED  BY <2>1, <2>3
<1>5. CASE ConnFails
  BY <1>5, <1>t DEF ConnFails, TypeOK, loopVars, Lending, OnSession, NoOrphanJobs
<1>6. CASE ClientReads
  BY <1>6, <1>t, TableKept DEF ClientReads, loopVars
<1>7. ASSUME NEW n \in Sessions, ServerCloses(n) PROVE Lending' /\ OnSession' /\ NoOrphanJobs'
  BY <1>7, <1>t DEF ServerCloses, TypeOK, loopVars, handlerVars, Lending, OnSession, NoOrphanJobs
<1>8. ASSUME NEW n \in Sessions, ServerReads(n) PROVE Lending' /\ OnSession' /\ NoOrphanJobs'
  <2>1. Head(toServer[n]) = toServer[n][1] /\ toServer[n][1] \in Message /\ 1 \in 1..Len(toServer[n])
    BY <1>8, <1>t DEF ServerReads, TypeOK
  <2>2. on[Head(toServer[n]).job] = n /\ Head(toServer[n]).job \in Requests
    BY <2>1 DEF IInv, Asking, OnItsWay, Message
  <2>3. \A h \in Requests : h # Head(toServer[n]).job => srv'[h] = srv[h]
    BY <1>8, <1>t DEF ServerReads, TypeOK
  <2> QED  BY <1>8, <1>t, <2>2, <2>3
              DEF ServerReads, loopVars, handlerVars, Lending, OnSession, NoOrphanJobs
<1>9. ASSUME NEW h \in Requests, NEW x, Answers(h, x),
             UNCHANGED <<loopVars, failed, srvUp, toClient, appGone, srv, said>>
      PROVE Lending' /\ OnSession' /\ NoOrphanJobs'
  BY <1>9, <1>t, ReturnsTable DEF Answers, loopVars, Lending
<1>10. ASSUME NEW h \in Requests, Arrive(h) PROVE Lending' /\ OnSession' /\ NoOrphanJobs'
  <2>1. CASE at' = [at EXCEPT ![h] = "look"] /\ UNCHANGED <<on, jobs, inbox, out, toServer>>
    <3>1. UNCHANGED <<loopVars, failed, srv>> /\ at[h] = "idle"
      BY <1>10 DEF Arrive
    <3>2. \A g \in Requests : at'[g] = (IF g = h THEN "look" ELSE at[g])
      BY <1>t, <2>1 DEF TypeOK
    <3>3. Lending' /\ OnSession'
      BY <1>t, <2>1, <3>1, <3>2 DEF loopVars, Lending, OnSession
    <3>4. NoOrphanJobs'
      BY <1>t, <2>1, <3>1, <3>2 DEF TypeOK, NoOrphanJobs
    <3> QED  BY <3>3, <3>4
  <2> QED  BY <1>9, <1>10, <2>1 DEF Arrive
<1>11. ASSUME NEW h \in Requests, Look(h) PROVE Lending' /\ OnSession' /\ NoOrphanJobs'
  <2>1. CASE attached # 0
    <3>1. /\ on' = [on EXCEPT ![h] = session] /\ at' = [at EXCEPT ![h] = "open"]
          /\ at[h] = "look" /\ session \in Sessions /\ loop = "serve"
          /\ UNCHANGED <<loop, session, attached, failed, srv, jobs>>
      BY <1>11, <1>t, <2>1 DEF Look, Lending, loopVars
    <3>2. Lending' /\ OnSession'
      BY <1>t, <3>1 DEF TypeOK, Lending, OnSession
    <3>3. NoOrphanJobs'
      BY <1>t, <3>1 DEF TypeOK, NoOrphanJobs
    <3> QED  BY <3>2, <3>3
  <2> QED  BY <1>9, <1>11, <2>1 DEF Look
<1>12. ASSUME NEW h \in Requests, Open(h) PROVE Lending' /\ OnSession' /\ NoOrphanJobs'
  <2>1. CASE ~failed[on[h]]
    <3>1. on[h] \in Sessions
      BY <1>12, <1>t DEF Open, OnSession
    <3>4. jobs' = [jobs EXCEPT ![on[h]] = @ \cup {h}] /\ at' = [at EXCEPT ![h] = "send"]
      BY <1>12, <2>1, Zenon DEF Open
    <3>2. Lending' /\ OnSession'
      BY <1>12, <1>t, <2>1, <3>1 DEF Open, TypeOK, loopVars, Lending, OnSession
    <3>3. ASSUME NEW n \in Sessions, NEW g \in jobs'[n]
          PROVE  ~failed[n] /\ on[g] = n /\ at'[g] \in {"send", "body", "wait"}
      <4>1. CASE g = h
        <5>1. n = on[h]
          BY <1>12, <1>t, <3>1, <3>3, <3>4, <4>1 DEF Open, TypeOK, NoOrphanJobs
        <5> QED  BY <1>t, <2>1, <3>4, <4>1, <5>1 DEF TypeOK
      <4>2. CASE g # h
        <5>1. g \in jobs[n] /\ g \in Requests
          BY <1>t, <3>1, <3>3, <3>4, <4>2 DEF TypeOK
        <5> QED  BY <1>t, <3>4, <4>2, <5>1 DEF TypeOK, NoOrphanJobs
      <4> QED  BY <4>1, <4>2
    <3> QED  BY <1>12, <2>1, <3>2, <3>3 DEF Open, NoOrphanJobs
  <2> QED  BY <1>9, <1>12, <2>1 DEF Open
<1>13. ASSUME NEW h \in Requests, SendRequest(h) \/ SendBodyEnd(h)
       PROVE  Lending' /\ OnSession' /\ NoOrphanJobs'
  <2>1. CASE /\ at[h] \in {"send", "body"} /\ \E a \in {"body", "wait"} : at' = [at EXCEPT ![h] = a]
             /\ UNCHANGED <<on, jobs, inbox, out>>
    <3>1. UNCHANGED <<loopVars, failed, srvUp, toClient, appGone, srv, said>>
      BY <1>13 DEF SendRequest, SendBodyEnd
    <3>2. \A g \in Requests : at'[g] = at[g] \/ (at[g] \in {"send", "body"} /\ at'[g] \in {"body", "wait"})
      BY <1>t, <2>1 DEF TypeOK
    <3>3. Lending' /\ OnSession'
      BY <1>t, <2>1, <3>1, <3>2 DEF loopVars, Lending, OnSession
    <3>4. NoOrphanJobs'
      BY <1>t, <2>1, <3>1, <3>2 DEF TypeOK, NoOrphanJobs
    <3> QED  BY <3>3, <3>4
  <2> QED  BY <1>9, <1>13, <2>1 DEF SendRequest, SendBodyEnd, SendFails
<1>14. ASSUME NEW h \in Requests, Relay(h) \/ RelayEnds(h)
       PROVE  Lending' /\ OnSession' /\ NoOrphanJobs'
  <2>1. UNCHANGED <<loopVars, failed, srvUp, toClient, appGone, srv, said>>
    BY <1>14 DEF Relay, RelayEnds
  <2>2. CASE UNCHANGED <<at, jobs, on, toServer>>
    BY <1>t, <2>1, <2>2, TableKept DEF loopVars
  <2>3. CASE Returns(h) /\ UNCHANGED <<on, out>>
    BY <1>t, <2>1, <2>3, ReturnsTable DEF loopVars, Lending
  <2> QED  BY <1>9, <1>14, <2>1, <2>2, <2>3 DEF Relay, RelayEnds
<1>15. ASSUME NEW h \in Requests, ServerSays(h) PROVE Lending' /\ OnSession' /\ NoOrphanJobs'
  <2>1. /\ srv[h] # "none"
        /\ \E st \in Served : srv' = [srv EXCEPT ![h] = st]
        /\ UNCHANGED <<loopVars, failed, srvUp, cut, toServer, handlerVars, appGone>>
    BY <1>15 DEF ServerSays, Served
  <2> QED  BY <1>t, <2>1 DEF TypeOK, loopVars, handlerVars, Lending, OnSession, NoOrphanJobs
<1>16. ASSUME NEW h \in Requests, AppLeaves(h) PROVE Lending' /\ OnSession' /\ NoOrphanJobs'
  BY <1>16, <1>t, TableKept DEF AppLeaves, loopVars, linkVars, handlerVars
<1>17. CASE Rest \/ UNCHANGED vars
  BY <1>17, <1>t, TableKept DEF Rest, vars, loopVars, linkVars, handlerVars
<1> QED
  BY <1>1, <1>2, <1>3, <1>4, <1>5, <1>6, <1>7, <1>8, <1>10, <1>11, <1>12, <1>13,
     <1>14, <1>15, <1>16, <1>17 DEF Next, Handler

-----------------------------------------------------------------------------
(* The requests on their way to the server. *)

(* A request that is not begun is not on its way. *)
LEMMA NoneAsked ==
  ASSUME TypeOK, Asking, NEW h \in Requests, at[h] \in {"idle", "look", "open", "send"},
         NEW n \in Sessions, NEW i \in 1..Len(toServer[n])
  PROVE  toServer[n][i].job # h
BY DEF Asking, OnItsWay

(* The steps that send nothing, and touch no request that is on its way but to give
   it up, or to wait for its answer. *)
LEMMA AskingKept ==
  ASSUME TypeOK, Asking, toServer' = toServer,
         \A n \in Sessions : \A i \in 1..Len(toServer[n]) :
           LET h == toServer[n][i].job IN
           on'[h] = on[h] /\ srv'[h] = srv[h] /\ at'[h] \in {at[h], "over"}
  PROVE  Asking'
<1> SUFFICES ASSUME NEW n \in Sessions, NEW i \in 1..Len(toServer[n])
             PROVE  OnItsWay(toServer[n][i], n)' /\ InTurn(toServer[n], i)'
  BY DEF Asking, Sessions
<1>1. /\ on'[toServer[n][i].job] = on[toServer[n][i].job]
      /\ srv'[toServer[n][i].job] = srv[toServer[n][i].job]
      /\ at'[toServer[n][i].job] \in {at[toServer[n][i].job], "over"}
  OBVIOUS
<1> QED  BY <1>1 DEF Asking, OnItsWay, InTurn

(* A handler's next message follows the ones it has sent. *)
LEMMA AskingSends ==
  ASSUME TypeOK, Asking, NEW h \in Requests, on[h] \in Sessions, NEW k, NEW a,
         \/ k = "REQUEST" /\ a = "body" /\ at[h] = "send" /\ srv[h] = "none"
         \/ k = "END" /\ a = "wait" /\ at[h] = "body"
            /\ (srvUp[on[h]] => srv[h] \in {"none", "collect"})
         \/ k = "CANCEL" /\ a = "over" /\ at[h] = "wait",
         Send(on[h], Msg(h, k)), at' = [at EXCEPT ![h] = a], UNCHANGED <<on, srv>>
  PROVE  Asking'
<1>1. ASSUME NEW n \in Sessions, NEW i \in 1..Len(toServer[n]), toServer[n][i].job = h
      PROVE  \/ toServer[n][i].kind = "REQUEST" /\ k \in {"END", "CANCEL"}
             \/ toServer[n][i].kind = "END" /\ k = "CANCEL"
  BY <1>1 DEF Asking, OnItsWay
<1>2. ASSUME NEW n \in Sessions, NEW i \in 1..Len(toServer[n]), toServer'[n][i] = toServer[n][i]
      PROVE  OnItsWay(toServer[n][i], n)'
  <2>1. toServer[n][i].job \in Requests
    <3>1. toServer[n] \in Seq(Message)
      BY DEF TypeOK
    <3>2. toServer[n][i] \in Message
      BY <3>1
    <3> QED  BY <3>2 DEF Message
  <2>o. OnItsWay(toServer[n][i], n)
    BY DEF Asking
  <2>a. /\ at'[h] = a
        /\ toServer[n][i].job # h => at'[toServer[n][i].job] = at[toServer[n][i].job]
    BY <2>1 DEF TypeOK
  <2>2. CASE toServer[n][i].job = h
    <3>1. \/ toServer[n][i].kind = "REQUEST" /\ k \in {"END", "CANCEL"}
          \/ toServer[n][i].kind = "END" /\ k = "CANCEL"
      BY <1>1, <2>2
    <3>2. a \in {"wait", "over"}
      BY <3>1
    <3> QED  BY ONLY <1>2, <2>o, <2>a, <2>2, <3>1, <3>2, UNCHANGED <<on, srv>> DEF OnItsWay
  <2>3. CASE toServer[n][i].job # h
    BY ONLY <1>2, <2>o, <2>a, <2>3, UNCHANGED <<on, srv>> DEF OnItsWay
  <2> QED  BY <2>2, <2>3
<1>3. CASE toServer' = toServer
  BY <1>2, <1>3 DEF Asking, Sessions, InTurn
<1>4. CASE toServer' = [toServer EXCEPT ![on[h]] = Append(@, Msg(h, k))] /\ srvUp[on[h]]
  <2> DEFINE s == toServer[on[h]]
  <2>1. /\ Msg(h, k) \in Message /\ s \in Seq(Message)
        /\ Msg(h, k).job = h /\ Msg(h, k).kind = k
    BY DEF Msg, Message, Kinds, TypeOK
  <2> HIDE DEF s
  <2>2. /\ Len(Append(s, Msg(h, k))) = Len(s) + 1 /\ Len(s) \in Nat
        /\ \A i \in 1..Len(s) : Append(s, Msg(h, k))[i] = s[i]
        /\ Append(s, Msg(h, k))[Len(s) + 1] = Msg(h, k)
    BY <2>1, Appended
  <2>3. /\ toServer'[on[h]] = Append(s, Msg(h, k))
        /\ \A n \in Sessions : n # on[h] => toServer'[n] = toServer[n]
    BY <1>4 DEF TypeOK, s
  <2>4. ASSUME NEW n \in Sessions, NEW i \in 1..Len(toServer'[n])
        PROVE  OnItsWay(toServer[n][i], n)' /\ InTurn(toServer[n], i)'
    <3>1. CASE n # on[h]
      BY <1>2, <2>3, <2>4, <3>1 DEF Asking, InTurn
    <3>2. CASE n = on[h] /\ i \in 1..Len(s)
      <4>1. toServer'[n][i] = s[i] /\ \A l \in 1..(i - 1) : toServer'[n][l] = s[l]
        BY <2>2, <2>3, <3>2
      <4>2. OnItsWay(toServer[n][i], n)'
        BY <1>2, <3>2, <4>1 DEF s
      <4>3. InTurn(s, i)
        BY <3>2 DEF Asking, s
      <4> QED  BY <4>1, <4>2, <4>3 DEF InTurn
    <3>3. CASE n = on[h] /\ i = Len(s) + 1
      <4>1. /\ toServer'[n][i] = Msg(h, k)
            /\ \A l \in 1..(i - 1) : l \in 1..Len(toServer[n]) /\ toServer'[n][l] = toServer[n][l]
        BY <2>2, <2>3, <3>3 DEF s
      <4>2. at'[h] = a
        BY DEF TypeOK
      <4>3. InTurn(toServer[n], i)'
        BY <1>1, <2>1, <3>3, <4>1 DEF InTurn
      <4>4. OnItsWay(toServer[n][i], n)'
        BY <1>4, <2>1, <3>3, <4>1, <4>2 DEF OnItsWay
      <4> QED  BY <4>3, <4>4
    <3> QED  BY <2>2, <2>3, <2>4, <3>1, <3>2, <3>3
  <2> QED  BY <2>4 DEF Asking, Sessions
<1> QED  BY <1>3, <1>4 DEF Send

(* The message that the server reads, and the ones behind it. *)
LEMMA FirstAsked ==
  ASSUME TypeOK, Asking, NEW n \in Sessions, toServer[n] # <<>>,
         toServer' = [toServer EXCEPT ![n] = Tail(@)]
  PROVE  LET m == Head(toServer[n]) IN
         /\ m.job \in Requests /\ OnItsWay(m, n)
         /\ Len(toServer'[n]) = Len(toServer[n]) - 1 /\ Len(toServer[n]) \in Nat
         /\ \A i \in 1..Len(toServer'[n]) :
              /\ toServer'[n][i] = toServer[n][i + 1]
              /\ toServer[n][i + 1].job = m.job =>
                   \/ m.kind = "REQUEST" /\ toServer[n][i + 1].kind \in {"END", "CANCEL"}
                   \/ m.kind = "END" /\ toServer[n][i + 1].kind = "CANCEL"
         /\ \A k \in Sessions : k # n => toServer'[k] = toServer[k]
<1>1. toServer[n] \in Seq(Message) /\ toServer'[n] = Tail(toServer[n])
  BY DEF TypeOK
<1>2. /\ Len(toServer[n]) \in Nat \ {0} /\ Len(toServer'[n]) = Len(toServer[n]) - 1
      /\ \A i \in 1..Len(toServer'[n]) : toServer'[n][i] = toServer[n][i + 1]
      /\ Head(toServer[n]) = toServer[n][1] /\ Head(toServer[n]) \in Message
  <2> DEFINE s == toServer[n]
             t == toServer'[n]
  <2>1. s \in Seq(Message) /\ t = Tail(s) /\ s # <<>>
    BY <1>1
  <2> HIDE DEF s, t
  <2>2. /\ Len(s) \in Nat \ {0} /\ Len(t) = Len(s) - 1
        /\ \A i \in 1..Len(t) : t[i] = s[i + 1]
        /\ Head(s) = s[1] /\ Head(s) \in Message
    BY <2>1, Tailed
  <2> QED  BY <2>2 DEF s, t
<1>3. Head(toServer[n]).job \in Requests
  BY <1>2 DEF Message
<1>4. ASSUME NEW i \in 1..Len(toServer'[n]), toServer[n][i + 1].job = toServer[n][1].job
      PROVE  \/ toServer[n][1].kind = "REQUEST" /\ toServer[n][i + 1].kind \in {"END", "CANCEL"}
             \/ toServer[n][1].kind = "END" /\ toServer[n][i + 1].kind = "CANCEL"
  <2>1. i + 1 \in 1..Len(toServer[n]) /\ 1 \in 1..((i + 1) - 1)
    BY <1>2
  <2> QED  BY <1>4, <2>1 DEF Asking, InTurn
<1>5. \A k \in Sessions : k # n => toServer'[k] = toServer[k]
  BY DEF TypeOK
<1>6. 1 \in 1..Len(toServer[n])
  BY <1>2
<1> QED  BY <1>2, <1>3, <1>4, <1>5, <1>6 DEF Asking

(* Every step keeps the requests on their way in order. *)
LEMMA AskStep == IInv /\ [Next]_vars => Asking'
<1> SUFFICES ASSUME IInv, [Next]_vars PROVE Asking'
  OBVIOUS
<1>t. TypeOK /\ OnSession /\ Lending /\ Asking /\ Reached
  BY DEF IInv
<1>h. ASSUME NEW n \in Sessions, NEW i \in 1..Len(toServer[n])
      PROVE  /\ toServer[n][i].job \in Requests
             /\ at[toServer[n][i].job] \in {"body", "wait", "over"}
             /\ srv[toServer[n][i].job] \in {"none", "collect"} \/ at[toServer[n][i].job] = "over"
  <2>1. toServer[n] \in Seq(Message)
    BY <1>t DEF TypeOK
  <2>2. toServer[n][i] \in Message
    BY <2>1
  <2> QED  BY <1>t, <2>2 DEF Message, Asking, OnItsWay
<1>1. CASE UNCHANGED <<toServer, on, srv, at>>
  BY <1>1, <1>t, AskingKept
<1>2. ASSUME NEW n \in Sessions, ServerCloses(n) PROVE Asking'
  <2>1. /\ toServer'[n] = <<>> /\ Len(toServer'[n]) = 0
        /\ \A k \in Sessions : k # n => toServer'[k] = toServer[k]
        /\ \A h \in Requests : on[h] # n => srv'[h] = srv[h]
        /\ UNCHANGED <<on, at>>
    BY <1>2, <1>t DEF ServerCloses, TypeOK, handlerVars
  <2>2. ASSUME NEW k \in Sessions, k # n, NEW i \in 1..Len(toServer[k])
        PROVE  srv'[toServer[k][i].job] = srv[toServer[k][i].job]
    BY <1>t, <1>h, <2>1, <2>2 DEF Asking, OnItsWay
  <2>3. ASSUME NEW k \in Sessions, NEW i \in 1..Len(toServer'[k])
        PROVE  k # n /\ i \in 1..Len(toServer[k]) /\ toServer'[k] = toServer[k]
               /\ srv'[toServer[k][i].job] = srv[toServer[k][i].job]
    BY <2>1, <2>2, <2>3
  <2>4. ASSUME NEW k \in Sessions, NEW i \in 1..Len(toServer'[k])
        PROVE  OnItsWay(toServer[k][i], k)' /\ InTurn(toServer[k], i)'
    BY <1>t, <2>1, <2>3, <2>4 DEF Asking, OnItsWay, InTurn
  <2> QED  BY <2>4 DEF Asking, Sessions
<1>3. ASSUME NEW n \in Sessions, ServerReads(n) PROVE Asking'
  <2> DEFINE m == Head(toServer[n])
  <2>1. /\ m.job \in Requests /\ OnItsWay(m, n)
        /\ Len(toServer'[n]) = Len(toServer[n]) - 1 /\ Len(toServer[n]) \in Nat
        /\ \A i \in 1..Len(toServer'[n]) :
             /\ toServer'[n][i] = toServer[n][i + 1]
             /\ toServer[n][i + 1].job = m.job =>
                  \/ m.kind = "REQUEST" /\ toServer[n][i + 1].kind \in {"END", "CANCEL"}
                  \/ m.kind = "END" /\ toServer[n][i + 1].kind = "CANCEL"
        /\ \A k \in Sessions : k # n => toServer'[k] = toServer[k]
    BY <1>3, <1>t, FirstAsked DEF ServerReads
  <2>2. /\ UNCHANGED <<on, at>>
        /\ \A h \in Requests : h # m.job => srv'[h] = srv[h]
        /\ m.kind = "REQUEST" => srv'[m.job] = "collect"
    BY <1>3, <1>t, <2>1 DEF ServerReads, TypeOK, handlerVars
  <2> HIDE DEF m
  <2>3. ASSUME NEW k \in Sessions, k # n, NEW i \in 1..Len(toServer[k])
        PROVE  srv'[toServer[k][i].job] = srv[toServer[k][i].job]
    <3>1. toServer[k][i].job \in Requests /\ on[toServer[k][i].job] = k
      BY <1>t, <1>h DEF Asking, OnItsWay
    <3> QED  BY <2>1, <2>2, <2>3, <3>1 DEF OnItsWay
  <2>4. ASSUME NEW k \in Sessions, k # n, NEW i \in 1..Len(toServer'[k])
        PROVE  OnItsWay(toServer[k][i], k)' /\ InTurn(toServer[k], i)'
    <3>1. toServer'[k] = toServer[k]
      BY <2>1, <2>4
    <3> QED  BY <1>t, <2>2, <2>3, <2>4, <3>1 DEF Asking, OnItsWay, InTurn
  <2>5. ASSUME NEW i \in 1..Len(toServer'[n])
        PROVE  OnItsWay(toServer[n][i], n)' /\ InTurn(toServer[n], i)'
    <3>1. /\ i + 1 \in 1..Len(toServer[n]) /\ toServer'[n][i] = toServer[n][i + 1]
          /\ \A l \in 1..(i - 1) : l + 1 \in 1..((i + 1) - 1) /\ toServer'[n][l] = toServer[n][l + 1]
      BY <2>1
    <3>2. toServer[n][i + 1].job \in Requests
      BY <1>h, <3>1
    <3>5. InTurn(toServer[n], i + 1) /\ OnItsWay(toServer[n][i + 1], n)
      BY <1>t, <3>1 DEF Asking
    <3>6. InTurn(toServer[n], i)'
      BY <3>1, <3>5 DEF InTurn
    <3>3. CASE toServer[n][i + 1].job # m.job
      BY <2>2, <3>1, <3>2, <3>3, <3>5, <3>6 DEF OnItsWay
    <3>4. CASE toServer[n][i + 1].job = m.job
      <4>1. \/ m.kind = "REQUEST" /\ toServer[n][i + 1].kind \in {"END", "CANCEL"}
            \/ m.kind = "END" /\ toServer[n][i + 1].kind = "CANCEL"
        BY <2>1, <3>4
      <4> QED  BY <2>1, <2>2, <3>1, <3>4, <3>5, <3>6, <4>1 DEF OnItsWay
    <3> QED  BY <3>3, <3>4
  <2> QED  BY <2>4, <2>5 DEF Asking, Sessions
<1>4. ASSUME NEW h \in Requests, at[h] \in {"idle", "look", "open", "send"},
             UNCHANGED <<toServer, srv>>, NEW a, at' = [at EXCEPT ![h] = a],
             on' = on \/ \E n \in Sessions : on' = [on EXCEPT ![h] = n]
      PROVE  Asking'
  <2>1. ASSUME NEW n \in Sessions, NEW i \in 1..Len(toServer[n])
        PROVE  on'[toServer[n][i].job] = on[toServer[n][i].job]
               /\ at'[toServer[n][i].job] = at[toServer[n][i].job]
    <3>1. toServer[n][i].job # h /\ toServer[n][i].job \in Requests
      BY <1>4, <1>t, <1>h, NoneAsked
    <3> QED  BY <1>4, <1>t, <3>1 DEF TypeOK
  <2> QED  BY <1>4, <1>t, <2>1, AskingKept
<1>5. ASSUME NEW h \in Requests, UNCHANGED <<toServer, srv, on>>,
             at' = [at EXCEPT ![h] = "over"]
      PROVE  Asking'
  <2>1. \A g \in Requests : at'[g] \in {at[g], "over"}
    BY <1>5, <1>t DEF TypeOK
  <2> QED  BY <1>5, <1>t, <1>h, <2>1, AskingKept
<1>6. ASSUME NEW h \in Requests, Arrive(h) \/ Look(h) \/ Open(h) PROVE Asking'
  <2>1. /\ at[h] \in {"idle", "look", "open"} /\ UNCHANGED <<toServer, srv>>
        /\ \E a \in Places : at' = [at EXCEPT ![h] = a]
        /\ on' = on \/ \E n \in Sessions : on' = [on EXCEPT ![h] = n]
    <3>1. attached # 0 => attached \in Sessions
      BY <1>t DEF Lending
    <3> QED  BY <1>6, <3>1 DEF Arrive, Look, Open, Answers, Returns, Places
  <2> QED  BY <1>4, <2>1
<1>7. ASSUME NEW h \in Requests, SendRequest(h) PROVE Asking'
  <2>1. CASE Answers(h, "503")
    BY <1>5, <1>7, <2>1 DEF SendRequest, Answers, Returns
  <2>2. on[h] \in Sessions /\ srv[h] = "none"
    BY <1>7, <1>t DEF SendRequest, OnSession, Reached
  <2> QED  BY <1>7, <1>t, <2>1, <2>2, AskingSends DEF SendRequest, SendFails
<1>8. ASSUME NEW h \in Requests, SendBodyEnd(h) PROVE Asking'
  <2>1. CASE Answers(h, "503")
    BY <1>5, <1>8, <2>1 DEF SendBodyEnd, Answers, Returns
  <2>2. on[h] \in Sessions /\ (srvUp[on[h]] => srv[h] \in {"none", "collect"})
    BY <1>8, <1>t DEF SendBodyEnd, OnSession, Reached
  <2> QED  BY <1>8, <1>t, <2>1, <2>2, AskingSends DEF SendBodyEnd, SendFails
<1>9. ASSUME NEW h \in Requests, Relay(h) \/ RelayEnds(h) PROVE Asking'
  <2>1. at[h] = "wait" /\ srv' = srv
    BY <1>9 DEF Relay, RelayEnds
  <2>2. ASSUME NEW x, Answers(h, x) PROVE Asking'
    BY <1>5, <2>1, <2>2 DEF Answers, Returns
  <2>3. CASE Returns(h) /\ Send(on[h], Msg(h, "CANCEL")) /\ UNCHANGED <<on, out>>
    <3>1. on[h] \in Sessions
      BY <1>t, <2>1 DEF OnSession
    <3> QED  BY <1>t, <2>1, <2>3, <3>1, AskingSends DEF Returns
  <2> QED  BY <1>1, <1>9, <2>1, <2>2, <2>3 DEF Relay, RelayEnds
<1>10. ASSUME NEW h \in Requests, ServerSays(h) PROVE Asking'
  <2>1. /\ srv[h] \in {"asked", "head", "body"}
        /\ \E st \in Served : srv' = [srv EXCEPT ![h] = st]
        /\ UNCHANGED <<toServer, on, at>>
    BY <1>10 DEF ServerSays, Served, handlerVars
  <2>2. ASSUME NEW n \in Sessions, NEW i \in 1..Len(toServer[n])
        PROVE  OnItsWay(toServer[n][i], n)' /\ InTurn(toServer[n], i)'
    <3>1. CASE toServer[n][i].job = h
      BY <1>t, <2>1, <3>1 DEF Asking, OnItsWay, InTurn, TypeOK
    <3>2. CASE toServer[n][i].job # h
      <4>1. srv'[toServer[n][i].job] = srv[toServer[n][i].job]
        BY <1>t, <1>h, <2>1, <3>2 DEF TypeOK
      <4> QED  BY <1>t, <2>1, <4>1 DEF Asking, OnItsWay, InTurn
    <3> QED  BY <3>1, <3>2
  <2> QED  BY <2>1, <2>2 DEF Asking, Sessions
<1>11. CASE \/ DialFails \/ Dial \/ Serve \/ SessionEnds \/ Wake \/ ConnFails \/ ClientReads
            \/ \E h \in Requests : AppLeaves(h)
            \/ Rest \/ UNCHANGED vars
  BY <1>1, <1>11 DEF DialFails, Dial, Serve, SessionEnds, Wake, ConnFails, ClientReads,
       AppLeaves, Rest, vars, linkVars, handlerVars
<1> QED
  BY <1>2, <1>3, <1>6, <1>7, <1>8, <1>9, <1>10, <1>11 DEF Next, Handler

(* What the server does to a job whose message it reads. *)
LEMMA ServerReadsJob ==
  ASSUME IInv, NEW n \in Sessions, ServerReads(n)
  PROVE  \E g \in Requests :
           /\ \A h \in Requests : h # g => srv'[h] = srv[h]
           /\ \/ srv[g] = "none" /\ srv'[g] = "collect" /\ at[g] \in {"body", "wait", "over"}
              \/ srv[g] \in {"none", "collect"} /\ srv'[g] = "asked" /\ at[g] \in {"wait", "over"}
              \/ srv'[g] = (IF srv[g] = "done" THEN "done" ELSE "dropped") /\ at[g] = "over"
           /\ UNCHANGED <<loopVars, failed, srvUp, toClient, handlerVars, appGone, said>>
<1>t. TypeOK /\ Asking
  BY DEF IInv
<1> DEFINE m == Head(toServer[n])
<1>1. m.job \in Requests /\ OnItsWay(m, n)
  BY <1>t, FirstAsked DEF ServerReads
<1>2. srv' = [srv EXCEPT ![m.job] = CASE m.kind = "REQUEST" -> "collect"
                                      [] m.kind = "END" -> "asked"
                                      [] m.kind = "CANCEL" -> IF @ = "done" THEN @ ELSE "dropped"]
  BY DEF ServerReads
<1>3. UNCHANGED <<loopVars, failed, srvUp, toClient, handlerVars, appGone, said>>
  BY DEF ServerReads
<1> HIDE DEF m
<1>4. \A h \in Requests : h # m.job => srv'[h] = srv[h]
  BY <1>t, <1>2 DEF TypeOK
<1>5. /\ m.kind = "REQUEST" => srv'[m.job] = "collect"
      /\ m.kind = "END" => srv'[m.job] = "asked"
      /\ m.kind = "CANCEL" => srv'[m.job] = IF srv[m.job] = "done" THEN "done" ELSE "dropped"
  BY <1>t, <1>1, <1>2 DEF TypeOK
<1>6. \/ srv[m.job] = "none" /\ srv'[m.job] = "collect" /\ at[m.job] \in {"body", "wait", "over"}
      \/ srv[m.job] \in {"none", "collect"} /\ srv'[m.job] = "asked" /\ at[m.job] \in {"wait", "over"}
      \/ srv'[m.job] = (IF srv[m.job] = "done" THEN "done" ELSE "dropped") /\ at[m.job] = "over"
  BY <1>1, <1>5 DEF OnItsWay
<1> QED  BY <1>1, <1>3, <1>4, <1>6

(* What a handler's step does to where it is and to what it has shown. *)
LEMMA HandlerMoves ==
  ASSUME TypeOK, Lending, NEW h \in Requests, Arrive(h) \/ Handler(h)
  PROVE  /\ UNCHANGED <<loopVars, failed, srvUp, toClient, appGone, srv, said>>
         /\ \A g \in Requests : g # h => at'[g] = at[g] /\ on'[g] = on[g]
                                           /\ out'[g] = out[g] /\ inbox'[g] = inbox[g]
         /\ \/ at[h] = "idle" /\ at'[h] = "look" /\ UNCHANGED <<on, out, inbox>>
            \/ at[h] = "look" /\ at'[h] = "open" /\ UNCHANGED <<out, inbox>>
               /\ on'[h] \in Sessions
            \/ at[h] = "open" /\ at'[h] = "send" /\ UNCHANGED <<on, out, inbox>>
            \/ at[h] = "send" /\ at'[h] = "body" /\ UNCHANGED <<on, out, inbox>>
            \/ at[h] = "body" /\ at'[h] = "wait" /\ UNCHANGED <<on, out, inbox>>
            \/ at[h] = "wait" /\ at'[h] = "wait" /\ on' = on
            \/ at[h] # "over" /\ at'[h] = "over" /\ on' = on
<1>1. ASSUME NEW x, Answers(h, x)
      PROVE  /\ \A g \in Requests : g # h => at'[g] = at[g] /\ on'[g] = on[g]
                                              /\ out'[g] = out[g] /\ inbox'[g] = inbox[g]
             /\ at'[h] = "over" /\ on' = on
  BY <1>1 DEF Answers, Returns, Show, TypeOK
<1>2. CASE Arrive(h)
  BY <1>1, <1>2 DEF Arrive, TypeOK
<1>3. CASE Look(h)
  BY <1>1, <1>3 DEF Look, TypeOK, Lending
<1>4. CASE Open(h)
  BY <1>1, <1>4 DEF Open, TypeOK
<1>5. CASE SendRequest(h) \/ SendBodyEnd(h)
  BY <1>1, <1>5 DEF SendRequest, SendBodyEnd, SendFails, TypeOK
<1>6. CASE Relay(h) \/ RelayEnds(h)
  <2>1. UNCHANGED <<loopVars, failed, srvUp, toClient, appGone, srv, said>> /\ at[h] = "wait"
    BY <1>6 DEF Relay, RelayEnds
  <2>2. CASE Returns(h) /\ UNCHANGED <<on, out>>
    BY <2>1, <2>2 DEF Returns, TypeOK
  <2>3. ASSUME NEW x, Show(h, x), inbox' = [inbox EXCEPT ![h] = Tail(@)], UNCHANGED <<at, on>>
        PROVE  /\ \A g \in Requests : g # h => at'[g] = at[g] /\ on'[g] = on[g]
                                              /\ out'[g] = out[g] /\ inbox'[g] = inbox[g]
               /\ at'[h] = "wait"
    BY <2>1, <2>3 DEF Show, TypeOK
  <2> QED  BY <1>1, <1>6, <2>1, <2>2, <2>3 DEF Relay, RelayEnds
<1> QED  BY <1>2, <1>3, <1>4, <1>5, <1>6 DEF Handler

(* Every step keeps what the server has of a job, and what it has said. *)
LEMMA ReachedStep == IInv /\ [Next]_vars => Reached' /\ Spoken'
<1> SUFFICES ASSUME IInv, [Next]_vars PROVE Reached' /\ Spoken'
  OBVIOUS
<1>t. TypeOK /\ OnSession /\ Lending /\ Asking /\ Reached /\ Spoken
  BY DEF IInv
<1>b. ASSUME NEW h \in Requests, srv[h] # "done"
      PROVE  Begun(said[h], Len(said[h])) /\ Len(said[h]) \in 0..2
  <2>1. srv[h] \in Served
    BY <1>t DEF TypeOK
  <2>2. CASE srv[h] \in {"none", "collect", "asked"}
    <3>1. Len(said[h]) = 0
      BY <1>t, <2>2 DEF Spoken
    <3> QED  BY <3>1 DEF Begun
  <2>3. CASE srv[h] = "head" \/ srv[h] = "body" \/ srv[h] = "dropped"
    <3>1. \/ Begun(said[h], 1) /\ Len(said[h]) = 1
          \/ Begun(said[h], 2) /\ Len(said[h]) = 2
          \/ Begun(said[h], Len(said[h])) /\ Len(said[h]) \in 0..2
      BY <1>t, <2>3, Zenon DEF Spoken, Begun
    <3>2. Begun(said[h], Len(said[h]))
      BY <3>1, Zenon
    <3>3. Len(said[h]) \in 0..2
      BY <3>1
    <3> QED  BY <3>2, <3>3
  <2> QED  BY <1>b, <2>1, <2>2, <2>3 DEF Served
<1>1. CASE UNCHANGED <<srvUp, on, srv, at, said, out>>
  BY <1>1, <1>t DEF Reached, Spoken
<1>2. CASE Dial
  <2>1. UNCHANGED <<on, srv, at, said, out>> /\ srvUp' = [srvUp EXCEPT ![session + 1] = TRUE]
    BY <1>2 DEF Dial, handlerVars
  <2>2. \A h \in Requests : on[h] # session + 1
    BY <1>t DEF TypeOK
  <2>3. ASSUME NEW h \in Requests, srv[h] = "dropped" PROVE srvUp'[on[h]] = srvUp[on[h]]
    BY <1>t, <2>1, <2>2, <2>3 DEF TypeOK, OnSession
  <2> QED  BY <1>t, <2>1, <2>3 DEF Reached, Spoken
<1>3. ASSUME NEW n \in Sessions, ServerCloses(n) PROVE Reached' /\ Spoken'
  <2>1. /\ \A h \in Requests :
             \/ srv'[h] = srv[h]
             \/ on[h] = n /\ srv[h] \notin {"none", "done"} /\ srv'[h] = "dropped"
        /\ ~srvUp'[n] /\ \A k \in Sessions : ~srvUp[k] => ~srvUp'[k]
        /\ UNCHANGED <<on, at, said, out>>
    BY <1>3, <1>t DEF ServerCloses, TypeOK, handlerVars
  <2>2. Reached'
    BY <1>t, <2>1 DEF Reached, OnSession
  <2>3. Spoken'
    BY <1>b, <1>t, <2>1 DEF Spoken
  <2> QED  BY <2>2, <2>3
<1>4. ASSUME NEW n \in Sessions, ServerReads(n) PROVE Reached' /\ Spoken'
  <2>1. PICK g \in Requests :
           /\ \A h \in Requests : h # g => srv'[h] = srv[h]
           /\ \/ srv[g] = "none" /\ srv'[g] = "collect" /\ at[g] \in {"body", "wait", "over"}
              \/ srv[g] \in {"none", "collect"} /\ srv'[g] = "asked" /\ at[g] \in {"wait", "over"}
              \/ srv'[g] = (IF srv[g] = "done" THEN "done" ELSE "dropped") /\ at[g] = "over"
           /\ UNCHANGED <<loopVars, failed, srvUp, toClient, handlerVars, appGone, said>>
    BY <1>4, ServerReadsJob
  <2>2. UNCHANGED <<srvUp, on, at, said, out>>
    BY <2>1 DEF handlerVars
  <2>3. Reached'
    BY <1>t, <2>1, <2>2 DEF Reached, Unsent
  <2>4. Spoken'
    BY <1>b, <1>t, <2>1, <2>2 DEF Spoken
  <2> QED  BY <2>3, <2>4
<1>5. ASSUME NEW h \in Requests, Arrive(h) \/ Handler(h) PROVE Reached' /\ Spoken'
  <2>1. /\ UNCHANGED <<srvUp, srv, said>>
        /\ \A g \in Requests : g # h => at'[g] = at[g] /\ on'[g] = on[g] /\ out'[g] = out[g]
        /\ \/ at[h] \in {"idle", "look", "open", "send"}
                /\ at'[h] \in {"look", "open", "send", "body"} /\ out' = out
           \/ at'[h] \in {"wait", "over"}
    BY <1>5, <1>t, HandlerMoves
  <2> QED  BY <1>t, <2>1 DEF Reached, Spoken, Unsent
<1>6. ASSUME NEW h \in Requests, ServerSays(h) PROVE Reached' /\ Spoken'
  <2>1. PICK k \in {"RESPONSE", "BODY", "END", "FAIL"} :
          /\ \/ srv[h] = "asked" /\ k = "RESPONSE" /\ srv' = [srv EXCEPT ![h] = "head"]
             \/ srv[h] = "head" /\ k = "BODY" /\ srv' = [srv EXCEPT ![h] = "body"]
             \/ srv[h] \in {"head", "body"} /\ k \in {"END", "FAIL"}
                  /\ srv' = [srv EXCEPT ![h] = "done"]
          /\ said' = [said EXCEPT ![h] = Append(@, k)]
          /\ UNCHANGED <<srvUp, on, at, out>>
    BY <1>6 DEF ServerSays, handlerVars
  <2>2. at[h] \notin Unsent
    BY <1>t, <2>1 DEF Reached, Unsent
  <2>3. /\ \A g \in Requests : g # h => srv'[g] = srv[g] /\ said'[g] = said[g]
        /\ said'[h] = Append(said[h], k)
    BY <1>t, <2>1 DEF TypeOK
  <2>4. Reached'
    BY <1>t, <2>1, <2>2, <2>3 DEF Reached, Unsent
  <2>5. /\ Len(said'[h]) = Len(said[h]) + 1 /\ Len(said[h]) \in Nat
        /\ \A i \in 1..Len(said[h]) : said'[h][i] = said[h][i]
        /\ said'[h][Len(said[h]) + 1] = k
    BY <1>t, <2>3, Appended DEF TypeOK, Kinds
  <2>6. \/ srv'[h] = "head" /\ Begun(said'[h], 1)
        \/ srv'[h] = "body" /\ Begun(said'[h], 2)
        \/ srv'[h] = "done" /\ Whole(said'[h])
    <3>1. CASE srv[h] = "asked" /\ k = "RESPONSE" /\ srv' = [srv EXCEPT ![h] = "head"]
      <4>1. Len(said[h]) = 0
        BY <1>t, <3>1 DEF Spoken
      <4> QED  BY <1>t, <2>5, <3>1, <4>1 DEF Begun, TypeOK
    <3>2. CASE srv[h] = "head" /\ k = "BODY" /\ srv' = [srv EXCEPT ![h] = "body"]
      <4>1. Begun(said[h], 1) /\ srv'[h] = "body"
        BY <1>t, <3>2 DEF Spoken, TypeOK
      <4> QED  BY <2>5, <3>2, <4>1 DEF Begun
    <3>3. CASE srv[h] \in {"head", "body"} /\ k \in {"END", "FAIL"}
                 /\ srv' = [srv EXCEPT ![h] = "done"]
      <4>1. (Begun(said[h], 1) \/ Begun(said[h], 2)) /\ srv'[h] = "done"
        BY <1>t, <3>3 DEF Spoken, TypeOK
      <4> QED  BY <2>5, <3>3, <4>1 DEF Begun, Whole
    <3> QED  BY <2>1, <3>1, <3>2, <3>3
  <2>7. Spoken'
    BY <1>t, <2>3, <2>6 DEF Spoken
  <2> QED  BY <2>4, <2>7
<1>7. CASE \/ DialFails \/ Serve \/ SessionEnds \/ Wake \/ ConnFails \/ ClientReads
           \/ \E h \in Requests : AppLeaves(h)
           \/ Rest \/ UNCHANGED vars
  BY <1>1, <1>7 DEF DialFails, Serve, SessionEnds, Wake, ConnFails, ClientReads,
       AppLeaves, Rest, vars, linkVars, handlerVars
<1> QED
  BY <1>2, <1>3, <1>4, <1>5, <1>6, <1>7 DEF Next

-----------------------------------------------------------------------------
(* The answers on their way to the client. *)

(* Reading another job's message changes nothing. *)
LEMMA FollowsPast ==
  ASSUME NEW w \in Seq(Kinds), NEW h \in Requests, NEW s \in Seq(Message), s # <<>>,
         NEW g \in Nat, Follows(w, h, s, g), s[1].job # h
  PROVE  Follows(w, h, Tail(s), g)
<1>1. /\ Tail(s) \in Seq(Message) /\ Len(s) \in Nat \ {0} /\ Len(Tail(s)) = Len(s) - 1
      /\ \A i \in 1..Len(Tail(s)) : Tail(s)[i] = s[i + 1]
  BY Tailed
<1>2. ASSUME NEW i \in 1..Len(Tail(s)), Tail(s)[i].job = h
      PROVE  ComesAt(w, h, Tail(s), g, i)
  <2>1. i + 1 \in 1..Len(s) /\ Tail(s)[i] = s[i + 1] /\ ComesAt(w, h, s, g, i + 1)
    BY <1>1, <1>2 DEF Follows
  <2>2. ASSUME NEW k \in 1..((i + 1) - 1), s[k].job = h
        PROVE  k - 1 \in 1..(i - 1) /\ Tail(s)[k - 1] = s[k]
    BY <1>1, <2>2
  <2>3. \A k \in 1..(i - 1) : k + 1 \in 1..((i + 1) - 1) /\ Tail(s)[k] = s[k + 1]
    BY <1>1
  <2> DEFINE P(k) == Pos(w, s[k].kind)
  <2>4. \/ P(i + 1) = g + 1
        \/ \E k \in 1..(i - 1) : Tail(s)[k].job = h /\ Pos(w, Tail(s)[k].kind) = P(i + 1) - 1
    <3>1. CASE P(i + 1) # g + 1
      <4>1. PICK k \in 1..((i + 1) - 1) : s[k].job = h /\ P(k) = P(i + 1) - 1
        BY <2>1, <3>1 DEF ComesAt
      <4> QED  BY <2>2, <4>1
    <3> QED  BY <3>1
  <2>5. ASSUME NEW k \in 1..(i - 1), Tail(s)[k].job = h PROVE Pos(w, Tail(s)[k].kind) < P(i + 1)
    BY <2>1, <2>3, <2>5 DEF ComesAt
  <2> QED  BY <2>1, <2>4, <2>5 DEF ComesAt
<1>3. ASSUME NEW i \in 1..Len(s), s[i].job = h PROVE i - 1 \in 1..Len(Tail(s)) /\ Tail(s)[i - 1] = s[i]
  BY <1>1, <1>3
<1> QED  BY <1>2, <1>3 DEF Follows

(* Reading the job's own message: it is the next one. *)
LEMMA FollowsNext ==
  ASSUME NEW w \in Seq(Kinds), NEW h \in Requests, NEW s \in Seq(Message), s # <<>>,
         NEW g \in Nat, Follows(w, h, s, g), s[1].job = h
  PROVE  g + 1 <= Len(w) /\ w[g + 1] = s[1].kind /\ Follows(w, h, Tail(s), g + 1)
<1>1. /\ Tail(s) \in Seq(Message) /\ Len(s) \in Nat \ {0} /\ Len(Tail(s)) = Len(s) - 1
      /\ \A i \in 1..Len(Tail(s)) : Tail(s)[i] = s[i + 1]
  BY Tailed
<1>2. 1 \in 1..Len(s) /\ ComesAt(w, h, s, g, 1)
  BY <1>1 DEF Follows
<1>3. Pos(w, s[1].kind) = g + 1 /\ g + 1 <= Len(w) /\ w[g + 1] = s[1].kind
  BY <1>2 DEF ComesAt
<1>4. ASSUME NEW i \in 1..Len(Tail(s)), Tail(s)[i].job = h
      PROVE  ComesAt(w, h, Tail(s), g + 1, i)
  <2>1. i + 1 \in 1..Len(s) /\ Tail(s)[i] = s[i + 1] /\ ComesAt(w, h, s, g, i + 1)
    BY <1>1, <1>4 DEF Follows
  <2>2. ASSUME NEW k \in 1..((i + 1) - 1), k # 1
        PROVE  k - 1 \in 1..(i - 1) /\ Tail(s)[k - 1] = s[k]
    BY <1>1, <2>2
  <2>3. \A k \in 1..(i - 1) : k + 1 \in 1..((i + 1) - 1) /\ Tail(s)[k] = s[k + 1]
    BY <1>1
  <2> DEFINE P(k) == Pos(w, s[k].kind)
  <2>4. P(i + 1) \in Int /\ 1 \in 1..((i + 1) - 1)
    BY <2>1 DEF ComesAt
  <2>5. P(i + 1) > g + 1
    BY <1>3, <2>1, <2>4 DEF ComesAt
  <2>6. \/ P(i + 1) = (g + 1) + 1
        \/ \E k \in 1..(i - 1) : Tail(s)[k].job = h /\ Pos(w, Tail(s)[k].kind) = P(i + 1) - 1
    <3>1. PICK k \in 1..((i + 1) - 1) : s[k].job = h /\ P(k) = P(i + 1) - 1
      BY <2>1, <2>4, <2>5 DEF ComesAt
    <3>2. CASE k = 1
      BY <1>3, <2>4, <3>1, <3>2
    <3>3. CASE k # 1
      BY <2>2, <3>1, <3>3
    <3> QED  BY <3>2, <3>3
  <2>7. P(i + 1) \in ((g + 1) + 1)..Len(w)
    BY <2>1, <2>4, <2>5 DEF ComesAt
  <2>8. ASSUME NEW k \in 1..(i - 1), Tail(s)[k].job = h PROVE Pos(w, Tail(s)[k].kind) < P(i + 1)
    BY <2>1, <2>3, <2>8 DEF ComesAt
  <2> QED  BY <2>1, <2>6, <2>7, <2>8 DEF ComesAt
<1>5. g + 1 = Len(w) \/ \E i \in 1..Len(Tail(s)) : Tail(s)[i].job = h /\ Pos(w, Tail(s)[i].kind) = Len(w)
  <2>1. PICK i \in 1..Len(s) : s[i].job = h /\ Pos(w, s[i].kind) = Len(w)
    BY <1>3 DEF Follows
  <2>2. CASE i = 1
    BY <1>3, <2>1, <2>2
  <2>3. CASE i # 1
    <3>1. i - 1 \in 1..Len(Tail(s)) /\ Tail(s)[i - 1] = s[i]
      BY <1>1, <2>3
    <3> QED  BY <2>1, <3>1
  <2> QED  BY <2>2, <2>3
<1> QED  BY <1>3, <1>4, <1>5 DEF Follows

(* Another job's message behind it changes nothing. *)
LEMMA FollowsBeside ==
  ASSUME NEW w \in Seq(Kinds), NEW h \in Requests, NEW s \in Seq(Message), NEW m \in Message,
         NEW g \in Nat, Follows(w, h, s, g), m.job # h
  PROVE  Follows(w, h, Append(s, m), g)
<1>1. /\ Append(s, m) \in Seq(Message) /\ Len(s) \in Nat /\ Len(Append(s, m)) = Len(s) + 1
      /\ \A i \in 1..Len(s) : Append(s, m)[i] = s[i]
      /\ Append(s, m)[Len(s) + 1] = m
  BY Appended
<1>2. ASSUME NEW i \in 1..Len(Append(s, m)), Append(s, m)[i].job = h
      PROVE  ComesAt(w, h, Append(s, m), g, i)
  <2>1. i \in 1..Len(s) /\ \A k \in 1..i : Append(s, m)[k] = s[k]
    BY <1>1, <1>2
  <2>2. ComesAt(w, h, s, g, i) /\ Append(s, m)[i] = s[i] /\ \A k \in 1..(i - 1) : Append(s, m)[k] = s[k]
    BY <1>2, <2>1 DEF Follows
  <2> QED  BY <2>2 DEF ComesAt
<1>3. \A i \in 1..Len(s) : i \in 1..Len(Append(s, m)) /\ Append(s, m)[i] = s[i]
  BY <1>1
<1> QED  BY <1>2, <1>3 DEF Follows

(* The next message of the answer, behind the others. *)
LEMMA FollowsSaid ==
  ASSUME NEW w \in Seq(Kinds), NEW h \in Requests, NEW s \in Seq(Message), NEW m \in Message,
         NEW g \in Nat, Follows(w, h, s, g), m.job = h, g <= Len(w),
         Begun(w, Len(w)),
         \/ m.kind = "RESPONSE" /\ Len(w) = 0
         \/ m.kind = "BODY" /\ Len(w) = 1
         \/ m.kind \in {"END", "FAIL"} /\ Len(w) \in {1, 2}
  PROVE  Follows(Append(w, m.kind), h, Append(s, m), g)
<1> DEFINE v == Append(w, m.kind)
           t == Append(s, m)
<1>1. /\ t \in Seq(Message) /\ Len(s) \in Nat /\ Len(t) = Len(s) + 1
      /\ \A i \in 1..Len(s) : t[i] = s[i]
      /\ t[Len(s) + 1] = m
  BY Appended
<1>2. /\ v \in Seq(Kinds) /\ Len(w) \in 0..2 /\ Len(v) = Len(w) + 1
      /\ \A i \in 1..Len(w) : v[i] = w[i]
      /\ v[Len(w) + 1] = m.kind
  <2>1. m.kind \in Kinds
    BY DEF Message
  <2> QED  BY <2>1, Appended
<1> HIDE DEF v, t
<1>3. ASSUME NEW i \in 1..Len(s), s[i].job = h
      PROVE  /\ Pos(v, s[i].kind) = Pos(w, s[i].kind)
             /\ Pos(w, s[i].kind) \in (g + 1)..Len(w) /\ Pos(w, s[i].kind) \in Int
             /\ v[Pos(w, s[i].kind)] = s[i].kind
  <2>1. ComesAt(w, h, s, g, i)
    BY <1>3 DEF Follows
  <2>2. Pos(w, s[i].kind) \in (g + 1)..Len(w) /\ w[Pos(w, s[i].kind)] = s[i].kind
    BY <2>1 DEF ComesAt
  <2>3. s[i].kind \in {"RESPONSE", "BODY"}
    <3>1. Pos(w, s[i].kind) \in {1, 2}
      BY <1>2, <2>2
    <3> QED  BY <1>2, <2>2, <3>1 DEF Begun
  <2> QED  BY <1>2, <2>2, <2>3 DEF Pos
<1>4. Pos(v, m.kind) = Len(v)
  BY <1>2 DEF Pos
<1>5. ASSUME NEW i \in 1..Len(s), s[i].job = h PROVE ComesAt(v, h, t, g, i)
  <2>1. ComesAt(w, h, s, g, i) /\ t[i] = s[i] /\ \A k \in 1..(i - 1) : t[k] = s[k] /\ k \in 1..Len(s)
    BY <1>1, <1>5 DEF Follows
  <2>2. \A k \in 1..(i - 1) : s[k].job = h => Pos(v, s[k].kind) = Pos(w, s[k].kind)
    BY <1>3, <2>1
  <2>3. Pos(v, s[i].kind) \in (g + 1)..Len(v)
    BY <1>2, <1>3, <1>5
  <2> QED  BY <1>3, <1>5, <2>1, <2>2, <2>3 DEF ComesAt
<1>6. ComesAt(v, h, t, g, Len(s) + 1)
  <2>1. /\ t[Len(s) + 1] = m /\ m.kind \in {"RESPONSE", "BODY", "END", "FAIL"}
        /\ \A k \in 1..((Len(s) + 1) - 1) : t[k] = s[k] /\ k \in 1..Len(s)
    BY <1>1
  <2>2. Pos(v, m.kind) \in (g + 1)..Len(v) /\ v[Pos(v, m.kind)] = m.kind
    BY <1>2, <1>4
  <2>3. \/ Pos(v, m.kind) = g + 1
        \/ \E k \in 1..((Len(s) + 1) - 1) : t[k].job = h /\ Pos(v, t[k].kind) = Pos(v, m.kind) - 1
    <3>1. CASE g = Len(w)
      BY <1>2, <1>4, <3>1
    <3>2. CASE \E i \in 1..Len(s) : s[i].job = h /\ Pos(w, s[i].kind) = Len(w)
      <4>1. PICK i \in 1..Len(s) : s[i].job = h /\ Pos(w, s[i].kind) = Len(w)
        BY <3>2
      <4>2. i \in 1..((Len(s) + 1) - 1) /\ t[i] = s[i] /\ Pos(v, s[i].kind) = Len(w)
        BY <1>1, <1>3, <4>1
      <4> QED  BY <1>2, <1>4, <4>1, <4>2
    <3> QED  BY <3>1, <3>2 DEF Follows
  <2>4. ASSUME NEW k \in 1..((Len(s) + 1) - 1), t[k].job = h PROVE Pos(v, t[k].kind) < Pos(v, m.kind)
    BY <1>2, <1>3, <1>4, <2>1, <2>4
  <2> QED  BY <2>1, <2>2, <2>3, <2>4 DEF ComesAt
<1>7. \A i \in 1..Len(t) : i \in 1..Len(s) \/ i = Len(s) + 1
  BY <1>1
<1>8. Len(s) + 1 \in 1..Len(t)
  BY <1>1
<1>9. Follows(v, h, t, g)
  BY <1>1, <1>4, <1>5, <1>6, <1>7, <1>8 DEF Follows
<1> QED  BY <1>9 DEF v, t

(* The sequences that belong to a request. *)
LEMMA RequestType ==
  ASSUME TypeOK, NEW h \in Requests
  PROVE  /\ out[h] \in Seq(Shown) /\ inbox[h] \in Seq(Kinds) /\ said[h] \in Seq(Kinds)
         /\ Len(out[h]) \in Nat /\ Len(inbox[h]) \in Nat /\ Len(said[h]) \in Nat
         /\ Given(h) \in Nat
<1>1. out[h] \in Seq(Shown) /\ inbox[h] \in Seq(Kinds) /\ said[h] \in Seq(Kinds)
  BY DEF TypeOK
<1>2. Len(out[h]) \in Nat /\ Len(inbox[h]) \in Nat /\ Len(said[h]) \in Nat
  BY <1>1
<1>3. Given(h) \in Nat
  BY DEF Given, TypeOK
<1> QED  BY <1>1, <1>2, <1>3

(* How messages are shown. *)
LEMMA RenderedAs ==
  /\ Rendered["RESPONSE"] = "head" /\ Rendered["BODY"] = "body" /\ Rendered["END"] = "end"
BY DEF Rendered, Kinds

(* What a handler's step does to the job tables. *)
LEMMA HandlerJobs ==
  ASSUME TypeOK, OnSession, NEW h \in Requests, Arrive(h) \/ Handler(h),
         NEW n \in Sessions, NEW g \in jobs'[n]
  PROVE  g \in jobs[n] \/ (g = h /\ at[h] = "open" /\ at'[h] = "send")
<1>1. ASSUME Returns(h) PROVE g \in jobs[n]
  BY <1>1 DEF Returns
<1>2. ASSUME NEW x, Answers(h, x) PROVE g \in jobs[n]
  BY <1>1, <1>2 DEF Answers
<1>3. CASE jobs' = jobs
  BY <1>3
<1>4. CASE Open(h)
  <2>1. CASE jobs' = [jobs EXCEPT ![on[h]] = @ \cup {h}] /\ at' = [at EXCEPT ![h] = "send"]
    BY <1>4, <2>1 DEF Open, TypeOK, OnSession
  <2> QED  BY <1>2, <1>4, <2>1 DEF Open
<1> QED  BY <1>1, <1>2, <1>3, <1>4
            DEF Arrive, Handler, Look, SendRequest, SendBodyEnd, SendFails, Relay, RelayEnds

(* A handler that goes on waiting has shown the first message of its queue. *)
LEMMA HandlerShows ==
  ASSUME TypeOK, NEW h \in Requests, Arrive(h) \/ Handler(h),
         at[h] = "wait", at'[h] = "wait"
  PROVE  /\ inbox[h] # <<>> /\ inbox'[h] = Tail(inbox[h])
         /\ out'[h] = Append(out[h], Rendered[Head(inbox[h])])
         /\ Rendered[Head(inbox[h])] \in Shown
<1>1. ASSUME Returns(h) PROVE FALSE
  BY <1>1 DEF Returns, TypeOK
<1>2. ASSUME NEW x, Answers(h, x) PROVE FALSE
  BY <1>1, <1>2 DEF Answers
<1>3. Relay(h)
  BY <1>1, <1>2 DEF Arrive, Handler, Look, Open, SendRequest, SendBodyEnd, RelayEnds
<1>4. /\ inbox[h] # <<>> /\ Head(inbox[h]) \in {"RESPONSE", "BODY"}
      /\ Show(h, IF Head(inbox[h]) = "RESPONSE" THEN "head" ELSE "body")
      /\ inbox' = [inbox EXCEPT ![h] = Tail(@)]
  BY <1>1, <1>2, <1>3 DEF Relay
<1>5. Rendered[Head(inbox[h])] = IF Head(inbox[h]) = "RESPONSE" THEN "head" ELSE "body"
  BY <1>4, RenderedAs
<1> QED  BY <1>4, <1>5 DEF Show, TypeOK, Shown

(* Showing the first message of the queue. *)
LEMMA ShownInTurn ==
  ASSUME NEW w \in Seq(Kinds), NEW o \in Seq(Shown), NEW q \in Seq(Kinds), q # <<>>,
         AlignedWith(w, o, q), Rendered[Head(q)] \in Shown
  PROVE  LET p == Append(o, Rendered[Head(q)]) IN
         AlignedWith(w, p, Tail(q)) /\ Len(p) + Len(Tail(q)) = Len(o) + Len(q)
<1> DEFINE p == Append(o, Rendered[Head(q)])
           t == Tail(q)
<1>1. /\ t \in Seq(Kinds) /\ Len(q) \in Nat \ {0} /\ Len(t) = Len(q) - 1
      /\ \A i \in 1..Len(t) : t[i] = q[i + 1]
      /\ Head(q) = q[1]
  BY Tailed
<1>2. /\ p \in Seq(Shown) /\ Len(o) \in Nat /\ Len(p) = Len(o) + 1
      /\ \A i \in 1..Len(o) : p[i] = o[i]
      /\ p[Len(o) + 1] = Rendered[Head(q)]
  BY Appended
<1> HIDE DEF p, t
<1>3. Len(p) + Len(t) = Len(o) + Len(q)
  BY <1>1, <1>2
<1>4. q[1] = w[Len(o) + 1]
  BY <1>1 DEF AlignedWith
<1>5. ASSUME NEW i \in 1..Len(p) PROVE p[i] = Rendered[w[i]]
  <2>1. CASE i \in 1..Len(o)
    BY <1>2, <2>1 DEF AlignedWith
  <2>2. CASE i = Len(o) + 1
    BY <1>1, <1>2, <1>4, <2>2
  <2> QED  BY <1>2, <2>1, <2>2
<1>6. ASSUME NEW i \in 1..Len(t) PROVE t[i] = w[Len(p) + i]
  <2>1. i + 1 \in 1..Len(q) /\ Len(p) + i = Len(o) + (i + 1)
    BY <1>1, <1>2
  <2> QED  BY <1>1, <2>1 DEF AlignedWith
<1>7. AlignedWith(w, p, t)
  BY <1>3, <1>5, <1>6 DEF AlignedWith
<1> QED  BY <1>3, <1>7 DEF p, t

(* The next message joins the queue. *)
LEMMA QueuedInTurn ==
  ASSUME NEW w \in Seq(Kinds), NEW o \in Seq(Shown), NEW q \in Seq(Kinds), NEW k \in Kinds,
         AlignedWith(w, o, q), (Len(o) + Len(q)) + 1 <= Len(w),
         w[(Len(o) + Len(q)) + 1] = k
  PROVE  AlignedWith(w, o, Append(q, k)) /\ Len(o) + Len(Append(q, k)) = (Len(o) + Len(q)) + 1
<1> DEFINE t == Append(q, k)
<1>1. /\ t \in Seq(Kinds) /\ Len(q) \in Nat /\ Len(t) = Len(q) + 1
      /\ \A i \in 1..Len(q) : t[i] = q[i]
      /\ t[Len(q) + 1] = k
  BY Appended
<1> HIDE DEF t
<1>2. Len(o) + Len(t) = (Len(o) + Len(q)) + 1
  BY <1>1
<1>3. ASSUME NEW i \in 1..Len(t) PROVE t[i] = w[Len(o) + i]
  <2>1. CASE i \in 1..Len(q)
    BY <1>1, <2>1 DEF AlignedWith
  <2>2. CASE i = Len(q) + 1
    <3>1. Len(o) + i = (Len(o) + Len(q)) + 1
      BY <1>1, <2>2
    <3> QED  BY <1>1, <2>2, <3>1
  <2> QED  BY <1>1, <2>1, <2>2
<1> QED  BY <1>2, <1>3 DEF AlignedWith, t

(* The server says more. *)
LEMMA SaidMore ==
  ASSUME NEW w \in Seq(Kinds), NEW o \in Seq(Shown), NEW q \in Seq(Kinds), NEW k \in Kinds,
         AlignedWith(w, o, q)
  PROVE  AlignedWith(Append(w, k), o, q)
<1> DEFINE v == Append(w, k)
<1>1. /\ v \in Seq(Kinds) /\ Len(w) \in Nat /\ Len(v) = Len(w) + 1
      /\ \A i \in 1..Len(w) : v[i] = w[i]
  BY Appended
<1> HIDE DEF v
<1>2. Len(o) \in Nat /\ Len(q) \in Nat /\ Len(o) + Len(q) <= Len(w)
  BY DEF AlignedWith
<1>3. \A i \in 1..Len(o) : i \in 1..Len(w)
  BY <1>1, <1>2
<1>4. \A i \in 1..Len(q) : Len(o) + i \in 1..Len(w)
  BY <1>1, <1>2
<1> QED  BY <1>1, <1>2, <1>3, <1>4 DEF AlignedWith, v

(* AnswerIsHonest, of one answer. *)
HonestWith(w, o) ==
  \/ o \in {<<"501">>, <<"502">>, <<"503">>}
  \/ \A i \in 1..Len(o) :
       \/ o[i] = "abort" /\ i = Len(o) /\ i > 1
       \/ i <= Len(w) /\ o[i] = Rendered[w[i]]

(* An answer in line with the server's is honest. *)
LEMMA AlignedIsHonest ==
  ASSUME NEW w \in Seq(Kinds), NEW o \in Seq(Shown), NEW q \in Seq(Kinds), AlignedWith(w, o, q)
  PROVE  HonestWith(w, o)
<1>1. Len(o) \in Nat /\ Len(q) \in Nat /\ Len(w) \in Nat /\ Len(o) + Len(q) <= Len(w)
  BY DEF AlignedWith
<1>2. \A i \in 1..Len(o) : i <= Len(w)
  BY <1>1
<1> QED  BY <1>2 DEF AlignedWith, HonestWith

(* And so is what a handler may put behind it when it returns. *)
LEMMA EndIsHonest ==
  ASSUME NEW w \in Seq(Kinds), NEW o \in Seq(Shown), NEW q \in Seq(Kinds), AlignedWith(w, o, q),
         NEW x \in Shown,
         \/ o = <<>> /\ x \in {"501", "502", "503"}
         \/ o # <<>> /\ x = "abort"
         \/ q # <<>> /\ x = "end" /\ Head(q) = "END"
  PROVE  HonestWith(w, Append(o, x))
<1> DEFINE p == Append(o, x)
<1>1. /\ p \in Seq(Shown) /\ Len(o) \in Nat /\ Len(p) = Len(o) + 1
      /\ \A i \in 1..Len(o) : p[i] = o[i]
      /\ p[Len(o) + 1] = x
  BY Appended
<1>2. CASE o = <<>> /\ x \in {"501", "502", "503"}
  <2>1. p = <<x>>
    BY <1>2
  <2> QED  BY <1>2, <2>1 DEF HonestWith
<1> HIDE DEF p
<1>3. CASE o # <<>> /\ x = "abort"
  <2>1. Len(o) # 0 /\ Len(p) > 1
    BY <1>1, <1>3
  <2>2. Len(q) \in Nat /\ Len(w) \in Nat /\ Len(o) + Len(q) <= Len(w)
    BY DEF AlignedWith
  <2>3. \A i \in 1..Len(o) : i <= Len(w) /\ p[i] = Rendered[w[i]]
    BY <1>1, <2>2 DEF AlignedWith
  <2>4. \A i \in 1..Len(p) : i \in 1..Len(o) \/ i = Len(o) + 1
    BY <1>1
  <2> QED  BY <1>1, <1>3, <2>1, <2>3, <2>4 DEF HonestWith, p
<1>4. CASE q # <<>> /\ x = "end" /\ Head(q) = "END"
  <2>1. Rendered[Head(q)] = x
    BY <1>4, RenderedAs
  <2>2. AlignedWith(w, Append(o, x), Tail(q)) /\ Tail(q) \in Seq(Kinds) /\ Append(o, x) \in Seq(Shown)
    BY <1>4, <2>1, ShownInTurn, Tailed, Appended
  <2> QED  BY <2>2, AlignedIsHonest
<1> QED  BY <1>2, <1>3, <1>4

-----------------------------------------------------------------------------
(* The queues and the streams are kept. *)

(* A handler's step: it shows the first of its queue, or opens an empty one. *)
LEMMA HandlerAnswers ==
  ASSUME IInv, NEW h \in Requests, Arrive(h) \/ Handler(h), NoOrphanJobs'
  PROVE  Aligned' /\ StreamOK' /\ Silent'
<1>t. TypeOK /\ Lending /\ OnSession /\ NoOrphanJobs /\ Reached /\ Aligned /\ StreamOK /\ Silent
  BY DEF IInv
<1>1. /\ said' = said /\ toClient' = toClient
      /\ \A g \in Requests : g # h => at'[g] = at[g] /\ on'[g] = on[g]
                                        /\ out'[g] = out[g] /\ inbox'[g] = inbox[g]
      /\ at'[h] \in Unsent => at[h] \in Unsent
      /\ at'[h] \in {"look", "open", "send", "body", "wait"} /\ at[h] # "wait" =>
           out'[h] = out[h] /\ inbox'[h] = inbox[h] /\ at[h] # "over"
      /\ at'[h] \in {"send", "body", "wait"} => on'[h] = on[h]
      /\ at'[h] \in {"look", "open", "send", "body", "wait", "over"}
      /\ at'[h] # "over" /\ at[h] = "wait" => at'[h] = "wait"
  BY <1>t, HandlerMoves DEF Unsent
<1>2. Silent'
  <2>1. \A n \in Sessions : \A i \in 1..Len(toClient[n]) : toClient[n][i].job \in Requests
    <3>1. ASSUME NEW n \in Sessions, NEW i \in 1..Len(toClient[n]) PROVE toClient[n][i].job \in Requests
      <4>1. toClient[n] \in Seq(Message)
        BY <1>t DEF TypeOK
      <4>2. toClient[n][i] \in Message
        BY <3>1, <4>1
      <4> QED  BY <4>2 DEF Message
    <3> QED  BY <3>1
  <2>2. \A g \in Requests : at'[g] \in Unsent => at[g] \in Unsent
    BY <1>1
  <2> QED  BY <1>t, <1>1, <2>1, <2>2 DEF Silent
<1>3. at'[h] # "over" => AlignedTo(h)' /\ Given(h)' = Given(h)
  <2>1. CASE at'[h] = "wait" /\ at[h] = "wait"
    <3>1. /\ inbox[h] # <<>> /\ inbox'[h] = Tail(inbox[h])
          /\ out'[h] = Append(out[h], Rendered[Head(inbox[h])])
          /\ Rendered[Head(inbox[h])] \in Shown
      BY <1>t, <2>1, HandlerShows
    <3>2. AlignedWith(said[h], out[h], inbox[h])
      BY <1>t, <2>1 DEF Aligned, AlignedTo
    <3>3. /\ AlignedWith(said[h], Append(out[h], Rendered[Head(inbox[h])]), Tail(inbox[h]))
          /\ Len(Append(out[h], Rendered[Head(inbox[h])])) + Len(Tail(inbox[h]))
               = Len(out[h]) + Len(inbox[h])
      BY <1>t, <3>1, <3>2, ShownInTurn, RequestType
    <3> QED  BY <1>1, <3>1, <3>3 DEF AlignedTo, Given
  <2>2. CASE at'[h] # "over" /\ at[h] # "wait"
    BY <1>1, <1>t, <2>2 DEF Aligned, AlignedTo, Given
  <2> QED  BY <1>1, <2>1, <2>2
<1>4. Aligned'
  BY <1>1, <1>3, <1>t DEF Aligned, AlignedTo
<1>5. ASSUME NEW n \in Sessions, NEW g \in jobs'[n] PROVE Following(g)'
  <2>1. g \in Requests /\ on'[g] = n /\ at'[g] \in {"send", "body", "wait"}
    <3>1. g \in jobs[n] \/ g = h
      BY <1>t, <1>5, HandlerJobs
    <3> QED  BY <1>t, <1>5, <3>1 DEF NoOrphanJobs, TypeOK
  <2>2. on'[g] = on[g] /\ Given(g)' = Given(g)
    BY <1>1, <1>3, <2>1 DEF Given
  <2>3. CASE g \in jobs[n]
    BY <1>1, <1>t, <2>2, <2>3 DEF StreamOK, Following
  <2>4. CASE g = h /\ at[h] = "open"
    <3>1. said[g] = <<>> /\ AlignedWith(said[g], out[g], inbox[g])
      BY <1>t, <2>4 DEF Reached, Unsent, Aligned, AlignedTo
    <3>2. Len(said[g]) = 0 /\ Given(g) <= Len(said[g])
      BY <3>1 DEF AlignedWith, Given
    <3>3. Given(g) = Len(said[g])
      BY <1>t, <2>1, <3>2, RequestType
    <3>4. \A i \in 1..Len(toClient[n]) : toClient[n][i].job # g
      BY <1>t, <2>4 DEF Silent, Unsent
    <3>5. Follows(said[g], g, toClient[n], Given(g))
      BY <3>3, <3>4 DEF Follows
    <3> QED  BY <1>1, <2>1, <2>2, <3>5 DEF Following
  <2> QED  BY <1>t, <1>5, <2>3, <2>4, HandlerJobs
<1> QED  BY <1>2, <1>4, <1>5 DEF StreamOK, Sessions

(* The read loop hands the next message of an open job to its handler. *)
LEMMA ReadAnswers ==
  ASSUME IInv, ClientReads
  PROVE  Aligned' /\ StreamOK' /\ Silent'
<1>t. TypeOK /\ Lending /\ NoOrphanJobs /\ Aligned /\ StreamOK /\ Silent
  BY DEF IInv
<1> DEFINE s == toClient[session]
<1>1. session \in Sessions /\ s \in Seq(Message) /\ s # <<>>
  BY <1>t DEF ClientReads, Lending, TypeOK
<1>2. /\ toClient' = [toClient EXCEPT ![session] = Tail(s)]
      /\ inbox' = IF Head(s).job \in jobs[session]
                  THEN [inbox EXCEPT ![Head(s).job] = Append(@, Head(s).kind)] ELSE inbox
      /\ UNCHANGED <<at, on, jobs, out, said>>
  BY DEF ClientReads
<1>3. /\ toClient'[session] = Tail(s)
      /\ \A n \in Sessions : n # session => toClient'[n] = toClient[n]
  BY <1>1, <1>2, <1>t DEF TypeOK
<1>4. /\ Tail(s) \in Seq(Message) /\ Len(s) \in Nat \ {0} /\ Len(Tail(s)) = Len(s) - 1
      /\ \A i \in 1..Len(Tail(s)) : Tail(s)[i] = s[i + 1]
      /\ Head(s) = s[1] /\ s[1] \in Message
  BY <1>1, Tailed
<1>5. s[1].job \in Requests /\ s[1].kind \in Kinds
  BY <1>4 DEF Message
<1>6. Silent'
  <2>1. \A i \in 1..Len(Tail(s)) : at[Tail(s)[i].job] \notin Unsent
    BY <1>1, <1>4, <1>t DEF Silent
  <2> QED  BY <1>2, <1>3, <1>t, <2>1 DEF Silent, Sessions
<1>7. \A g \in Requests : inbox'[g] = inbox[g] \/ (g = s[1].job /\ g \in jobs[session])
  BY <1>2, <1>4, <1>t DEF TypeOK
<1>8. ASSUME NEW g \in Requests, g = s[1].job, g \in jobs[session]
      PROVE  AlignedTo(g)' /\ Following(g)' /\ on[g] = session
  <2>1. on[g] = session /\ at[g] = at'[g] /\ at[g] # "over"
    BY <1>1, <1>2, <1>8, <1>t DEF NoOrphanJobs
  <2>2. inbox'[g] = Append(inbox[g], s[1].kind)
    BY <1>2, <1>4, <1>5, <1>8, <1>t DEF TypeOK
  <2>3. /\ out[g] \in Seq(Shown) /\ inbox[g] \in Seq(Kinds) /\ said[g] \in Seq(Kinds)
        /\ Given(g) \in Nat
    BY <1>t, <2>1, RequestType
  <2>4. Follows(said[g], g, s, Given(g))
    BY <1>1, <1>8, <1>t, <2>1 DEF StreamOK, Following
  <2>5. /\ Given(g) + 1 <= Len(said[g]) /\ said[g][Given(g) + 1] = s[1].kind
        /\ Follows(said[g], g, Tail(s), Given(g) + 1)
    <3> HIDE DEF s
    <3> QED  BY <1>1, <1>8, <2>3, <2>4, FollowsNext
  <2>6. AlignedWith(said[g], out[g], inbox[g])
    BY <1>t, <2>1 DEF Aligned, AlignedTo
  <2>7. /\ AlignedWith(said[g], out[g], Append(inbox[g], s[1].kind))
        /\ Len(out[g]) + Len(Append(inbox[g], s[1].kind)) = Given(g) + 1
    <3> HIDE DEF s
    <3> QED  BY <1>5, <2>3, <2>5, <2>6, QueuedInTurn DEF Given
  <2>8. Given(g)' = Given(g) + 1
    BY <1>2, <2>2, <2>7 DEF Given
  <2>9. AlignedTo(g)'
    BY <1>2, <2>2, <2>7 DEF AlignedTo
  <2>10. Following(g)'
    BY <1>2, <1>3, <2>1, <2>5, <2>8 DEF Following
  <2> QED  BY <2>1, <2>9, <2>10
<1>9. Aligned'
  <2>1. ASSUME NEW g \in Requests, at[g] # "over" PROVE AlignedTo(g)'
    <3>1. CASE inbox'[g] = inbox[g]
      BY <1>2, <1>t, <2>1, <3>1 DEF Aligned, AlignedTo
    <3> QED  BY <1>7, <1>8, <2>1, <3>1
  <2> QED  BY <1>2, <2>1 DEF Aligned
<1>10. ASSUME NEW n \in Sessions, NEW g \in jobs[n] PROVE Following(g)'
  <2>1. g \in Requests /\ on[g] = n /\ Follows(said[g], g, toClient[n], Given(g))
    BY <1>10, <1>t DEF NoOrphanJobs, StreamOK, Following, TypeOK
  <2>2. CASE g = s[1].job /\ n = session
    BY <1>8, <1>10, <2>1, <2>2
  <2>3. CASE ~(g = s[1].job /\ n = session)
    <3>1. Given(g)' = Given(g)
      <4>1. inbox'[g] = inbox[g]
        BY <1>1, <1>7, <1>8, <2>1, <2>3
      <4> QED  BY <1>2, <4>1 DEF Given
    <3>2. CASE n # session
      BY <1>2, <1>3, <2>1, <3>1, <3>2 DEF Following
    <3>3. CASE n = session
      <4>1. said[g] \in Seq(Kinds) /\ Given(g) \in Nat /\ g # s[1].job
        BY <1>t, <2>1, <2>3, <3>3, RequestType
      <4>2. Follows(said[g], g, Tail(s), Given(g))
        <5>1. Follows(said[g], g, s, Given(g))
          BY <2>1, <3>3
        <5> HIDE DEF s
        <5> QED  BY <1>1, <2>1, <4>1, <5>1, FollowsPast
      <4> QED  BY <1>2, <1>3, <2>1, <3>1, <3>3, <4>2 DEF Following
    <3> QED  BY <3>2, <3>3
  <2> QED  BY <2>2, <2>3
<1> QED  BY <1>2, <1>6, <1>9, <1>10 DEF StreamOK, Sessions

(* The server goes on with an answer: it goes to the end of the stream, unless the
   connection has failed, and then no job is open on it. *)
LEMMA SaysAnswers ==
  ASSUME IInv, NEW h \in Requests, ServerSays(h)
  PROVE  Aligned' /\ StreamOK' /\ Silent'
<1>t. /\ TypeOK /\ OnSession /\ NoOrphanJobs /\ Reached /\ Spoken
      /\ Aligned /\ StreamOK /\ Silent
  BY DEF IInv
<1>1. PICK k \in {"RESPONSE", "BODY", "END", "FAIL"} :
        /\ \/ srv[h] = "asked" /\ k = "RESPONSE"
           \/ srv[h] = "head" /\ k = "BODY"
           \/ srv[h] \in {"head", "body"} /\ k \in {"END", "FAIL"}
        /\ said' = [said EXCEPT ![h] = Append(@, k)]
        /\ toClient' = IF failed[on[h]] THEN toClient
                       ELSE [toClient EXCEPT ![on[h]] = Append(@, Msg(h, k))]
        /\ UNCHANGED <<at, on, jobs, inbox, out>>
  BY DEF ServerSays, handlerVars
<1>2. /\ at[h] \notin Unsent /\ on[h] \in Sessions /\ k \in Kinds /\ Msg(h, k) \in Message
      /\ Msg(h, k).job = h /\ Msg(h, k).kind = k
  BY <1>t, <1>1 DEF Reached, Unsent, OnSession, Kinds, Msg, Message
<1>3. /\ \A g \in Requests : g # h => said'[g] = said[g]
      /\ said'[h] = Append(said[h], k)
  BY <1>t, <1>1 DEF TypeOK
<1>4. /\ \A n \in Sessions : n # on[h] \/ failed[n] => toClient'[n] = toClient[n]
      /\ ~failed[on[h]] => toClient'[on[h]] = Append(toClient[on[h]], Msg(h, k))
  BY <1>t, <1>1, <1>2 DEF TypeOK
<1>5. Silent'
  <2>1. ASSUME NEW n \in Sessions, NEW i \in 1..Len(toClient'[n])
        PROVE  at[toClient'[n][i].job] \notin Unsent
    <3>1. CASE toClient'[n] = toClient[n]
      BY <1>t, <2>1, <3>1 DEF Silent
    <3>2. CASE toClient'[n] = Append(toClient[n], Msg(h, k))
      <4>1. toClient[n] \in Seq(Message)
        BY <1>t DEF TypeOK
      <4>2. /\ Len(toClient'[n]) = Len(toClient[n]) + 1 /\ Len(toClient[n]) \in Nat
            /\ \A j \in 1..Len(toClient[n]) : toClient'[n][j] = toClient[n][j]
            /\ toClient'[n][Len(toClient[n]) + 1] = Msg(h, k)
        BY <1>2, <3>2, <4>1, Appended
      <4>3. i \in 1..Len(toClient[n]) \/ i = Len(toClient[n]) + 1
        BY <2>1, <4>2
      <4> QED  BY <1>2, <1>t, <4>2, <4>3 DEF Silent
    <3> QED  BY <1>4, <3>1, <3>2
  <2> QED  BY <1>1, <2>1 DEF Silent, Sessions
<1>6. Aligned'
  <2>1. ASSUME NEW g \in Requests, at[g] # "over" PROVE AlignedTo(g)'
    <3>1. AlignedWith(said[g], out[g], inbox[g])
      BY <1>t, <2>1 DEF Aligned, AlignedTo
    <3>2. AlignedWith(said'[g], out[g], inbox[g])
      BY <1>2, <1>3, <1>t, <3>1, SaidMore, RequestType
    <3> QED  BY <1>1, <3>2 DEF AlignedTo
  <2> QED  BY <1>1, <2>1 DEF Aligned
<1>7. ASSUME NEW n \in Sessions, NEW g \in jobs[n] PROVE Following(g)'
  <2>1. /\ g \in Requests /\ on[g] = n /\ at[g] # "over" /\ ~failed[n]
        /\ Follows(said[g], g, toClient[n], Given(g))
    BY <1>7, <1>t DEF NoOrphanJobs, StreamOK, Following, TypeOK
  <2>2. Given(g)' = Given(g) /\ Given(g) \in Nat /\ said[g] \in Seq(Kinds) /\ toClient[n] \in Seq(Message)
    BY <1>1, <1>t, <2>1, RequestType DEF Given, TypeOK
  <2>3. CASE n # on[h]
    <3>1. toClient'[n] = toClient[n] /\ said'[g] = said[g]
      BY <1>3, <1>4, <2>1, <2>3
    <3> QED  BY <1>1, <2>1, <2>2, <3>1 DEF Following
  <2>4. CASE n = on[h] /\ g # h
    <3>1. toClient'[n] = Append(toClient[n], Msg(h, k)) /\ said'[g] = said[g]
      BY <1>3, <1>4, <2>1, <2>4
    <3>2. Follows(said[g], g, Append(toClient[n], Msg(h, k)), Given(g))
      BY <1>2, <2>1, <2>2, <2>4, FollowsBeside
    <3> QED  BY <1>1, <2>1, <2>2, <3>1, <3>2 DEF Following
  <2>5. CASE g = h
    <3>1. toClient'[n] = Append(toClient[n], Msg(h, k)) /\ said'[g] = Append(said[g], k)
      BY <1>3, <1>4, <2>1, <2>5
    <3>2. Given(g) <= Len(said[g])
      BY <1>t, <2>1 DEF Aligned, AlignedTo, AlignedWith, Given
    <3>3. /\ Begun(said[g], Len(said[g]))
          /\ \/ k = "RESPONSE" /\ Len(said[g]) = 0
             \/ k = "BODY" /\ Len(said[g]) = 1
             \/ k \in {"END", "FAIL"} /\ Len(said[g]) \in {1, 2}
      <4>1. CASE srv[h] = "asked" /\ k = "RESPONSE"
        <5>1. Len(said[g]) = 0
          BY <1>t, <2>5, <4>1 DEF Spoken
        <5> QED  BY <4>1, <5>1 DEF Begun
      <4>2. CASE srv[h] = "head" /\ k \in {"BODY", "END", "FAIL"}
        <5>1. Begun(said[g], 1)
          BY <1>t, <2>5, <4>2 DEF Spoken
        <5> QED  BY <4>2, <5>1 DEF Begun
      <4>3. CASE srv[h] = "body" /\ k \in {"END", "FAIL"}
        <5>1. Begun(said[g], 2)
          BY <1>t, <2>5, <4>3 DEF Spoken
        <5> QED  BY <4>3, <5>1 DEF Begun
      <4> QED  BY <1>1, <4>1, <4>2, <4>3
    <3>4. Follows(Append(said[g], k), g, Append(toClient[n], Msg(h, k)), Given(g))
      <4> DEFINE m == Msg(h, k)
      <4>1. m \in Message /\ m.job = g /\ m.kind = k
        BY <1>2, <2>5
      <4> HIDE DEF m
      <4>2. Follows(Append(said[g], m.kind), g, Append(toClient[n], m), Given(g))
        BY <2>1, <2>2, <3>2, <3>3, <4>1, FollowsSaid
      <4> QED  BY <4>1, <4>2 DEF m
    <3> QED  BY <1>1, <2>1, <2>2, <3>1, <3>4 DEF Following
  <2> QED  BY <2>3, <2>4, <2>5
<1> QED  BY <1>1, <1>5, <1>6, <1>7 DEF StreamOK, Sessions

(* Every step keeps the queues and the streams in line with what the server said. *)
LEMMA AnswerStep == IInv /\ [Next]_vars => Aligned' /\ StreamOK' /\ Silent'
<1> SUFFICES ASSUME IInv, [Next]_vars PROVE Aligned' /\ StreamOK' /\ Silent'
  OBVIOUS
<1>t. TypeOK /\ Lending /\ NoOrphanJobs /\ Aligned /\ StreamOK /\ Silent
  BY DEF IInv
<1>1. CASE UNCHANGED <<toClient, at, on, jobs, inbox, out, said>>
  BY <1>1, <1>t DEF Aligned, AlignedTo, StreamOK, Following, Given, Silent, Sessions
<1>2. CASE ConnFails
  <2>1. /\ session \in Sessions /\ UNCHANGED <<at, on, inbox, out, said>>
        /\ jobs' = [jobs EXCEPT ![session] = {}]
        /\ toClient' = [toClient EXCEPT ![session] = <<>>]
    BY <1>2, <1>t DEF ConnFails, Lending
  <2>2. /\ toClient'[session] = <<>> /\ jobs'[session] = {}
        /\ \A n \in Sessions : n # session => toClient'[n] = toClient[n] /\ jobs'[n] = jobs[n]
    BY <1>t, <2>1 DEF TypeOK
  <2>3. Aligned' /\ Silent'
    BY <1>t, <2>1, <2>2 DEF Aligned, AlignedTo, Silent, Sessions
  <2>4. ASSUME NEW n \in Sessions, NEW g \in jobs'[n] PROVE Following(g)'
    <3>1. n # session /\ g \in jobs[n] /\ on[g] = n /\ toClient'[n] = toClient[n]
      BY <1>t, <2>2, <2>4 DEF NoOrphanJobs
    <3> QED  BY <1>t, <2>1, <3>1 DEF StreamOK, Following, Given
  <2> QED  BY <2>3, <2>4 DEF StreamOK, Sessions
<1>3. CASE ClientReads
  BY <1>3, ReadAnswers
<1>4. ASSUME NEW h \in Requests, Arrive(h) \/ Handler(h) PROVE Aligned' /\ StreamOK' /\ Silent'
  BY <1>4, HandlerAnswers, TableStep
<1>5. ASSUME NEW h \in Requests, ServerSays(h) PROVE Aligned' /\ StreamOK' /\ Silent'
  BY <1>5, SaysAnswers
<1>6. CASE \/ DialFails \/ Dial \/ Serve \/ SessionEnds \/ Wake
           \/ \E n \in Sessions : ServerCloses(n) \/ ServerReads(n)
           \/ \E h \in Requests : AppLeaves(h)
           \/ Rest \/ UNCHANGED vars
  BY <1>1, <1>6 DEF DialFails, Dial, Serve, SessionEnds, Wake, ServerCloses, ServerReads,
       AppLeaves, Rest, vars, linkVars, handlerVars
<1> QED
  BY <1>2, <1>3, <1>4, <1>5, <1>6 DEF Next

-----------------------------------------------------------------------------
(* What the applications are given. *)

(* A longer answer of the server does not make a lie of what was shown. *)
LEMMA StaysHonest ==
  ASSUME NEW w \in Seq(Kinds), NEW o \in Seq(Shown), NEW k \in Kinds, HonestWith(w, o)
  PROVE  HonestWith(Append(w, k), o)
<1> DEFINE v == Append(w, k)
<1>1. /\ Len(w) \in Nat /\ Len(o) \in Nat /\ Len(v) = Len(w) + 1
      /\ \A i \in 1..Len(w) : v[i] = w[i]
  BY Appended
<1> HIDE DEF v
<1>2. ASSUME NEW i \in 1..Len(o), i <= Len(w) PROVE i <= Len(v) /\ v[i] = w[i]
  BY <1>1, <1>2
<1>3. HonestWith(v, o)
  BY <1>2 DEF HonestWith
<1> QED  BY <1>3 DEF v

(* How a handler returns: without a word only when the application is gone. *)
LEMMA HandlerReturns ==
  ASSUME TypeOK, Reached, NEW h \in Requests, Arrive(h) \/ Handler(h), at'[h] = "over"
  PROVE  /\ at[h] # "over"
         /\ \/ out' = out /\ appGone[h]
            \/ \E x \in Shown :
                 /\ out'[h] = Append(out[h], x) /\ x \notin {"head", "body"}
                 /\ \/ out[h] = <<>> /\ x \in {"501", "502", "503"}
                    \/ out[h] # <<>> /\ x = "abort"
                    \/ inbox[h] # <<>> /\ x = "end" /\ Head(inbox[h]) = "END"
<1>1. ASSUME NEW x, Answers(h, x) PROVE out'[h] = Append(out[h], x)
  BY <1>1 DEF Answers, Show, TypeOK
<1>2. at[h] \in Unsent => out[h] = <<>>
  BY DEF Reached
<1>3. CASE Arrive(h)
  BY <1>1, <1>2, <1>3 DEF Arrive, Unsent, Shown, TypeOK
<1>4. CASE Look(h)
  BY <1>1, <1>2, <1>4 DEF Look, Unsent, Shown, TypeOK
<1>5. CASE Open(h)
  BY <1>1, <1>2, <1>5 DEF Open, Unsent, Shown, TypeOK
<1>6. CASE SendRequest(h) \/ SendBodyEnd(h)
  BY <1>1, <1>2, <1>6 DEF SendRequest, SendBodyEnd, SendFails, Unsent, Shown, TypeOK
<1>7. CASE Relay(h)
  <2>1. at[h] = "wait" /\ inbox[h] # <<>>
    BY <1>7 DEF Relay
  <2>2. CASE Head(inbox[h]) = "END" /\ Answers(h, "end")
    BY <1>1, <2>1, <2>2 DEF Shown
  <2>3. CASE Answers(h, Failure(h))
    BY <1>1, <2>1, <2>3 DEF Failure, Shown
  <2>4. CASE appGone[h] /\ out' = out
    BY <2>1, <2>4
  <2>5. CASE at' = at
    BY <2>1, <2>5
  <2> QED  BY <1>7, <2>2, <2>3, <2>4, <2>5 DEF Relay
<1>8. CASE RelayEnds(h)
  BY <1>1, <1>8 DEF RelayEnds, Failure, Shown
<1> QED  BY <1>3, <1>4, <1>5, <1>6, <1>7, <1>8 DEF Handler

(* What every step does to the things that the answers are made of. *)
LEMMA StepShape ==
  ASSUME IInv, [Next]_vars
  PROVE  /\ \A g \in Requests : appGone[g] => appGone'[g]
         /\ \/ UNCHANGED <<at, out>>
            \/ /\ UNCHANGED <<said, appGone>>
               /\ \E h \in Requests : Arrive(h) \/ Handler(h)
         /\ \A g \in Requests :
              said'[g] = said[g] \/ \E k \in Kinds : said'[g] = Append(said[g], k)
<1>t. TypeOK /\ Lending
  BY DEF IInv
<1>1. CASE UNCHANGED <<at, out, said, appGone>>
  BY <1>1
<1>2. ASSUME NEW h \in Requests, Arrive(h) \/ Handler(h)
      PROVE  UNCHANGED <<said, appGone>>
  BY <1>2, <1>t, HandlerMoves
<1>3. ASSUME NEW h \in Requests, ServerSays(h)
      PROVE  /\ UNCHANGED <<at, out, appGone>>
             /\ \A g \in Requests :
                  said'[g] = said[g] \/ \E k \in Kinds : said'[g] = Append(said[g], k)
  BY <1>3, <1>t DEF ServerSays, handlerVars, TypeOK, Kinds
<1>4. ASSUME NEW h \in Requests, AppLeaves(h)
      PROVE  UNCHANGED <<at, out, said>> /\ \A g \in Requests : appGone[g] => appGone'[g]
  BY <1>4, <1>t DEF AppLeaves, handlerVars, TypeOK
<1>5. CASE \/ DialFails \/ Dial \/ Serve \/ SessionEnds \/ Wake \/ ConnFails \/ ClientReads
           \/ \E n \in Sessions : ServerCloses(n) \/ ServerReads(n)
           \/ Rest \/ UNCHANGED vars
  BY <1>1, <1>5 DEF DialFails, Dial, Serve, SessionEnds, Wake, ConnFails, ClientReads,
       ServerCloses, ServerReads, Rest, vars, linkVars, handlerVars
<1>6. CASE \E h \in Requests : Arrive(h) \/ Handler(h)
  BY <1>2, <1>6
<1>7. CASE \E h \in Requests : ServerSays(h)
  BY <1>3, <1>7
<1>8. CASE \E h \in Requests : AppLeaves(h)
  BY <1>4, <1>8
<1> QED
  BY <1>5, <1>6, <1>7, <1>8 DEF Next

(* Every step leaves the applications with an honest answer, and a whole one. *)
LEMMA HonestStep == IInv /\ [Next]_vars => AnswerIsHonest' /\ ReturnsWithAnswer'
<1> SUFFICES ASSUME IInv, [Next]_vars PROVE AnswerIsHonest' /\ ReturnsWithAnswer'
  OBVIOUS
<1>t. TypeOK /\ Lending /\ Reached /\ Aligned /\ AnswerIsHonest /\ ReturnsWithAnswer
  BY DEF IInv
<1>n. TypeOK' /\ Aligned'
  BY TypeStep, AnswerStep
<1>1. /\ \A g \in Requests : appGone[g] => appGone'[g]
      /\ \/ UNCHANGED <<at, out>>
         \/ /\ UNCHANGED <<said, appGone>>
            /\ \E h \in Requests : Arrive(h) \/ Handler(h)
      /\ \A g \in Requests :
           said'[g] = said[g] \/ \E k \in Kinds : said'[g] = Append(said[g], k)
  BY StepShape
<1>2. ASSUME NEW g \in Requests
      PROVE  /\ HonestWith(said'[g], out'[g])
             /\ at'[g] = "over" /\ ~appGone'[g] =>
                  out'[g] # <<>> /\ Last(out'[g]) \notin {"head", "body"}
  <2>1. out[g] \in Seq(Shown) /\ said[g] \in Seq(Kinds) /\ inbox[g] \in Seq(Kinds)
    BY <1>t, RequestType
  <2>2. out'[g] \in Seq(Shown) /\ said'[g] \in Seq(Kinds) /\ inbox'[g] \in Seq(Kinds)
    BY <1>n DEF TypeOK
  <2>3. CASE at'[g] # "over"
    <3>1. AlignedWith(said'[g], out'[g], inbox'[g])
      BY <1>n, <2>3 DEF Aligned, AlignedTo
    <3> QED  BY <2>2, <2>3, <3>1, AlignedIsHonest
  <2>4. CASE at[g] = "over" /\ at'[g] = "over"
    <3>1. out'[g] = out[g]
      <4>1. ASSUME NEW h \in Requests, Arrive(h) \/ Handler(h) PROVE out'[g] = out[g]
        <5>1. h # g
          BY <1>t, <2>4, <4>1, HandlerReturns
        <5> QED  BY <1>t, <4>1, <5>1, HandlerMoves
      <4> QED  BY <1>1, <4>1
    <3>2. HonestWith(said[g], out[g])
      BY <1>t DEF AnswerIsHonest, HonestWith
    <3>3. HonestWith(said'[g], out[g])
      BY <1>1, <2>1, <3>2, StaysHonest
    <3>4. ~appGone'[g] => out[g] # <<>> /\ Last(out[g]) \notin {"head", "body"}
      BY <1>1, <1>t, <2>4 DEF ReturnsWithAnswer
    <3> QED  BY <3>1, <3>3, <3>4
  <2>5. CASE at[g] # "over" /\ at'[g] = "over"
    <3>1. PICK h \in Requests : Arrive(h) \/ Handler(h)
      BY <1>1, <2>5
    <3>2. h = g
      BY <1>t, <2>5, <3>1, HandlerMoves
    <3>3. UNCHANGED <<said, appGone>> /\ (Arrive(g) \/ Handler(g))
      BY <1>t, <3>1, <3>2, HandlerMoves
    <3>4. AlignedWith(said[g], out[g], inbox[g])
      BY <1>t, <2>5 DEF Aligned, AlignedTo
    <3>5. CASE out' = out /\ appGone[g]
      BY <2>1, <3>3, <3>4, <3>5, AlignedIsHonest
    <3>6. ASSUME NEW x \in Shown,
                 /\ out'[g] = Append(out[g], x) /\ x \notin {"head", "body"}
                 /\ \/ out[g] = <<>> /\ x \in {"501", "502", "503"}
                    \/ out[g] # <<>> /\ x = "abort"
                    \/ inbox[g] # <<>> /\ x = "end" /\ Head(inbox[g]) = "END"
          PROVE  /\ HonestWith(said'[g], out'[g])
                 /\ out'[g] # <<>> /\ Last(out'[g]) \notin {"head", "body"}
      <4>1. HonestWith(said[g], Append(out[g], x))
        BY <2>1, <3>4, <3>6, EndIsHonest
      <4>2. Append(out[g], x) # <<>> /\ Last(Append(out[g], x)) = x
        BY <2>1, Appended
      <4> QED  BY <3>3, <3>6, <4>1, <4>2
    <3> QED  BY <1>t, <2>5, <3>3, <3>5, <3>6, HandlerReturns
  <2> QED  BY <2>3, <2>4, <2>5
<1> QED  BY <1>2 DEF AnswerIsHonest, HonestWith, ReturnsWithAnswer

-----------------------------------------------------------------------------
(* The theorems. *)

(* Before anything has happened nothing has been said. *)
LEMMA InitIInv == Init => IInv
<1> SUFFICES ASSUME Init PROVE IInv
  OBVIOUS
<1> USE SessionAssumption, BackoffAssumption DEF Sessions
<1>1. TypeOK
  BY DEF Init, TypeOK, Loops, Places, Served
<1>2. Lending /\ OnSession /\ NoOrphanJobs /\ Reached
  BY DEF Init, Lending, OnSession, NoOrphanJobs, Reached, Unsent
<1>3. Asking /\ Spoken /\ StreamOK /\ Silent
  BY DEF Init, Asking, Spoken, StreamOK, Silent
<1>4. ASSUME NEW h \in Requests PROVE AlignedTo(h)
  <2>1. Len(said[h]) = 0 /\ Len(out[h]) = 0 /\ Len(inbox[h]) = 0
    BY DEF Init
  <2> QED  BY <2>1 DEF AlignedTo, AlignedWith
<1>5. AnswerIsHonest /\ ReturnsWithAnswer
  BY DEF Init, AnswerIsHonest, ReturnsWithAnswer
<1> QED  BY <1>1, <1>2, <1>3, <1>4, <1>5 DEF IInv, Aligned

(* The invariant is one. *)
LEMMA ClientInv == Spec => []IInv
<1>1. IInv /\ [Next]_vars => IInv'
  BY TypeStep, TableStep, AskStep, ReachedStep, AnswerStep, HonestStep DEF IInv
<1> QED  BY <1>1, InitIInv, PTL DEF Spec

(***************************************************************************)
(* However many sessions there are and however newJob, endJob and fail     *)
(* interleave, a failed connection holds no job, and every listed job has  *)
(* a handler that is still there to receive from it (conn.go:149, :203).   *)
(***************************************************************************)
THEOREM TablesAreKept == Spec => []NoOrphanJobs
<1>1. IInv => NoOrphanJobs
  BY DEF IInv
<1> QED  BY <1>1, ClientInv, PTL

(***************************************************************************)
(* No application takes a broken answer for a whole one, whenever the      *)
(* connection breaks (consume.go:67-115).                                  *)
(***************************************************************************)
THEOREM AnswersAreHonest == Spec => []AnswerIsHonest
<1>1. IInv => AnswerIsHonest
  BY DEF IInv
<1> QED  BY <1>1, ClientInv, PTL

(***************************************************************************)
(* A handler never leaves an application that is still there without an    *)
(* end to its answer (consume.go:33-115).                                  *)
(***************************************************************************)
THEOREM HandlersAnswer == Spec => []ReturnsWithAnswer
<1>1. IInv => ReturnsWithAnswer
  BY DEF IInv
<1> QED  BY <1>1, ClientInv, PTL

-----------------------------------------------------------------------------
(* The backoff. *)

(* Every set of natural numbers that is not empty has a least element. *)
LEMMA Least ==
  ASSUME NEW T \in SUBSET Nat, T # {}
  PROVE  \E x \in T : \A y \in T : x <= y
<1> DEFINE R == OpToRel(<, Nat)
<1>1. IsWellFoundedOn(R, Nat)
  BY NatLessThanWellFounded
<1>2. \A x, y \in Nat : y < x => <<y, x>> \in R
  BY DEF OpToRel
<1> HIDE DEF R
<1>3. PICK x \in T : \A y \in T : ~ (<<y, x>> \in R)
  BY <1>1, WFMin
<1>4. ASSUME NEW y \in T PROVE x <= y
  <2>1. ~ (y < x)
    BY <1>2, <1>3
  <2> QED  BY <2>1
<1> QED  BY <1>4

(* What Doubled's equation says of its value at n, h being its values before n. *)
Twice(h, n) == IF n = 0 THEN BackoffFirst ELSE 2 * h[n - 1]

(* The values of Doubled up to n. *)
DoubledTo(h, n) == h = [i \in 0..n |-> Twice(h, i)]

(* The equation has a solution up to any number. *)
LEMMA DoubledToExists ==
  ASSUME NEW n \in Nat
  PROVE  \E h : DoubledTo(h, n)
<1> DEFINE Good(m) == \E h : DoubledTo(h, m)
           Bad == {m \in Nat : ~Good(m)}
<1> SUFFICES ASSUME n \in Bad PROVE FALSE
  OBVIOUS
<1>1. PICK m \in Bad : \A k \in Bad : m <= k
  <2> HIDE DEF Bad
  <2>1. Bad \in SUBSET Nat
    BY DEF Bad
  <2> QED  BY <2>1, Least
<1>2. CASE m = 0
  <2> DEFINE h == [i \in 0..0 |-> BackoffFirst]
  <2>1. DoubledTo(h, 0)
    BY DEF Twice, DoubledTo
  <2> QED  BY <1>1, <1>2, <2>1
<1>3. CASE m # 0
  <2>1. m \in Nat /\ m - 1 \in Nat /\ ~(m <= m - 1)
    BY <1>1, <1>3
  <2>2. Good(m - 1)
    BY <1>1, <2>1
  <2>3. PICK g : DoubledTo(g, m - 1)
    BY <2>2
  <2>4. \A i \in 0..(m - 1) : g[i] = Twice(g, i)
    BY <2>3 DEF DoubledTo
  <2> DEFINE h == [i \in 0..m |-> IF i < m THEN g[i] ELSE Twice(g, m)]
  <2>5. ASSUME NEW i \in 0..m PROVE h[i] = Twice(h, i)
    <3>1. h[i] = Twice(g, i)
      <4>1. CASE i < m
        <5>1. i \in 0..(m - 1)
          BY <2>1, <4>1
        <5> QED  BY <2>4, <4>1, <5>1
      <4>2. CASE i = m
        BY <2>1, <4>2
      <4> QED  BY <2>1, <4>1, <4>2
    <3>2. Twice(h, i) = Twice(g, i)
      <4>1. CASE i = 0
        BY <4>1 DEF Twice
      <4>2. CASE i # 0
        <5>1. i - 1 \in 0..m /\ i - 1 < m
          BY <2>1, <4>2
        <5>2. h[i - 1] = g[i - 1]
          BY <5>1
        <5> QED  BY <4>2, <5>2 DEF Twice
      <4> QED  BY <4>1, <4>2
    <3> QED  BY <3>1, <3>2
  <2>6. h = [i \in 0..m |-> h[i]]
    OBVIOUS
  <2> HIDE DEF h
  <2>7. DoubledTo(h, m)
    BY <2>5, <2>6 DEF DoubledTo
  <2> QED  BY <1>1, <2>7
<1> QED  BY <1>2, <1>3

(* Two solutions agree as far as both go. *)
LEMMA DoubledToUnique ==
  ASSUME NEW n \in Nat, NEW m \in 0..n, NEW f, DoubledTo(f, m), NEW g, DoubledTo(g, n)
  PROVE  \A i \in 0..m : f[i] = g[i]
<1> DEFINE Bad == {i \in 0..m : f[i] # g[i]}
<1> SUFFICES ASSUME Bad # {} PROVE FALSE
  OBVIOUS
<1>1. PICK i \in Bad : \A k \in Bad : i <= k
  <2> HIDE DEF Bad
  <2>1. Bad \in SUBSET Nat
    BY DEF Bad
  <2> QED  BY <2>1, Least
<1>2. i \in 0..m /\ i \in 0..n /\ f[i] # g[i]
  BY <1>1
<1>3. f[i] = Twice(f, i) /\ g[i] = Twice(g, i)
  BY <1>2 DEF DoubledTo
<1>4. i # 0
  BY <1>2, <1>3 DEF Twice
<1>5. i - 1 \in 0..m /\ ~(i <= i - 1)
  BY <1>2, <1>4
<1>6. f[i - 1] = g[i - 1]
  BY <1>1, <1>5
<1> QED  BY <1>2, <1>3, <1>4, <1>6 DEF Twice

(* Doubled obeys its equation. *)
LEMMA DoubledUnfolds ==
  /\ Doubled[0] = BackoffFirst
  /\ \A n \in Nat : Doubled[n + 1] = 2 * Doubled[n]
<1> DEFINE G(n) == CHOOSE h : DoubledTo(h, n)
           H == [n \in Nat |-> G(n)[n]]
<1>1. ASSUME NEW n \in Nat PROVE DoubledTo(G(n), n)
  <2>1. \E h : DoubledTo(h, n)
    BY DoubledToExists
  <2> QED  BY <2>1, Zenon
<1>2. \A n \in Nat : DoubledTo(G(n), n)
  BY <1>1
<1> HIDE DEF G
<1>3. ASSUME NEW n \in Nat PROVE H[n] = Twice(H, n)
  <2>1. G(n)[n] = Twice(G(n), n)
    <3>1. DoubledTo(G(n), n) /\ n \in 0..n
      BY <1>2
    <3> DEFINE g == G(n)
    <3> HIDE DEF g
    <3>2. g = [i \in 0..n |-> Twice(g, i)]
      BY <3>1 DEF DoubledTo, g
    <3>3. g[n] = Twice(g, n)
      BY <3>1, <3>2
    <3> QED  BY <3>3 DEF g
  <2>2. CASE n = 0
    BY <2>1, <2>2 DEF Twice
  <2>3. CASE n # 0
    <3>1. n - 1 \in Nat /\ n - 1 \in 0..n /\ n - 1 \in 0..(n - 1)
      BY <2>3
    <3>2. DoubledTo(G(n - 1), n - 1) /\ DoubledTo(G(n), n)
      BY <1>2, <3>1
    <3>3. G(n - 1)[n - 1] = G(n)[n - 1]
      <4> DEFINE f == G(n - 1)
                 g == G(n)
      <4>1. DoubledTo(f, n - 1) /\ DoubledTo(g, n)
        BY <3>2
      <4> HIDE DEF f, g
      <4>2. f[n - 1] = g[n - 1]
        BY <3>1, <4>1, DoubledToUnique
      <4> QED  BY <4>2 DEF f, g
    <3>4. H[n - 1] = G(n)[n - 1]
      BY <3>1, <3>3
    <3> QED  BY <2>1, <2>3, <3>4 DEF Twice
  <2> QED  BY <2>2, <2>3
<1>4. H = [n \in Nat |-> H[n]]
  OBVIOUS
<1> HIDE DEF H
<1>5. H = [n \in Nat |-> Twice(H, n)]
  BY <1>3, <1>4
<1>6. \E h : h = [n \in Nat |-> Twice(h, n)]
  BY <1>5
<1>7. Doubled = CHOOSE h : h = [n \in Nat |-> Twice(h, n)]
  BY Zenon DEF Doubled, Twice
<1>8. Doubled = [n \in Nat |-> Twice(Doubled, n)]
  BY <1>6, <1>7, Zenon
<1>9. \A n \in Nat : Doubled[n] = Twice(Doubled, n)
  BY <1>8
<1>10. Doubled[0] = BackoffFirst
  BY <1>9 DEF Twice
<1>11. ASSUME NEW n \in Nat PROVE Doubled[n + 1] = 2 * Doubled[n]
  <2>1. n + 1 \in Nat /\ n + 1 # 0 /\ (n + 1) - 1 = n
    OBVIOUS
  <2> QED  BY <1>9, <2>1 DEF Twice
<1> QED  BY <1>10, <1>11

(* The doubled backoff is a duration. *)
LEMMA DoubledType == \A n \in Nat : Doubled[n] \in Nat \ {0}
<1> DEFINE Bad == {n \in Nat : Doubled[n] \notin Nat \ {0}}
<1> SUFFICES ASSUME Bad # {} PROVE FALSE
  OBVIOUS
<1>1. PICK n \in Bad : \A k \in Bad : n <= k
  <2> HIDE DEF Bad
  <2>1. Bad \in SUBSET Nat
    BY DEF Bad
  <2> QED  BY <2>1, Least
<1>2. n \in Nat /\ Doubled[n] \notin Nat \ {0}
  BY <1>1
<1>3. n # 0
  BY <1>2, DoubledUnfolds, BackoffAssumption
<1>4. n - 1 \in Nat /\ ~(n <= n - 1) /\ (n - 1) + 1 = n
  BY <1>2, <1>3
<1>5. Doubled[n - 1] \in Nat \ {0}
  BY <1>1, <1>4
<1>6. Doubled[n] = 2 * Doubled[n - 1]
  BY <1>4, DoubledUnfolds
<1> QED  BY <1>2, <1>5, <1>6

(* The n-th wait, before it is shortened: the backoff doubled n times, or the longest. *)
Capped(n) == IF Doubled[n] < BackoffLongest THEN Doubled[n] ELSE BackoffLongest

(* It is a duration, and the next one is it doubled, or the longest. *)
LEMMA CappedType ==
  /\ Capped(0) = BackoffFirst
  /\ \A n \in Nat : /\ Capped(n) \in Nat
                    /\ Capped(n + 1) = IF 2 * Capped(n) < BackoffLongest
                                       THEN 2 * Capped(n) ELSE BackoffLongest
<1>1. Capped(0) = BackoffFirst
  BY DoubledUnfolds, BackoffAssumption DEF Capped
<1>2. ASSUME NEW n \in Nat
      PROVE  /\ Capped(n) \in Nat
             /\ Capped(n + 1) = IF 2 * Capped(n) < BackoffLongest
                                THEN 2 * Capped(n) ELSE BackoffLongest
  <2>1. Doubled[n] \in Nat \ {0} /\ Doubled[n + 1] = 2 * Doubled[n]
    BY DoubledType, DoubledUnfolds
  <2> QED  BY <2>1, BackoffAssumption DEF Capped
<1> QED  BY <1>1, <1>2

(* Run's backoff is the next wait; the one it sleeps is the wait before that. *)
Backs ==
  /\ naps \in Nat /\ backoff = Capped(naps)
  /\ loop = "sleep" => naps # 0 /\ nap \in jitter(Capped(naps - 1))

(* Run's own variables change in the four steps of Run that sleep, dial, serve or wake. *)
LEMMA BacksStep == Backs /\ [Next]_vars => Backs'
<1> SUFFICES ASSUME Backs, [Next]_vars PROVE Backs'
  OBVIOUS
<1>1. CASE DialFails
  <2>1. naps \in Nat /\ naps' = naps + 1 /\ naps' # 0 /\ naps' - 1 = naps
    BY <1>1 DEF DialFails, Backs
  <2>2. nap' \in jitter(Capped(naps)) /\ backoff' = Capped(naps + 1)
    BY <1>1, CappedType DEF DialFails, Sleep, Backs
  <2>3. Capped(naps)' = Capped(naps') /\ Capped(naps - 1)' = Capped(naps' - 1)
    BY DEF Capped
  <2>4. backoff' = Capped(naps)' /\ nap' \in jitter(Capped(naps - 1))'
    BY <2>1, <2>2, <2>3 DEF jitter
  <2> QED  BY <2>1, <2>4 DEF Backs
<1>2. CASE SessionEnds
  <2>1. naps' = 1
    BY <1>2 DEF SessionEnds
  <2>2. nap' \in jitter(Capped(0)) /\ backoff' = Capped(1)
    <3>1. Capped(1) = IF 2 * Capped(0) < BackoffLongest THEN 2 * Capped(0) ELSE BackoffLongest
      <4>1. 0 \in Nat /\ 0 + 1 = 1
        OBVIOUS
      <4> QED  BY <4>1, CappedType
    <3> QED  BY <1>2, <3>1, CappedType DEF SessionEnds, Sleep
  <2>3. Capped(naps)' = Capped(naps') /\ Capped(naps - 1)' = Capped(naps' - 1)
    BY DEF Capped
  <2>4. naps' \in Nat /\ naps' # 0 /\ naps' - 1 = 0
    BY <2>1
  <2>5. backoff' = Capped(naps)' /\ nap' \in jitter(Capped(naps - 1))'
    BY <2>1, <2>2, <2>3, <2>4 DEF jitter
  <2> QED  BY <2>4, <2>5 DEF Backs
<1>3. CASE UNCHANGED <<backoff, nap, naps>> /\ (loop' = "sleep" => loop = "sleep")
  BY <1>3 DEF Backs, Capped, jitter
<1>4. ASSUME ~DialFails, ~SessionEnds
      PROVE  UNCHANGED <<backoff, nap, naps>> /\ (loop' = "sleep" => loop = "sleep")
  <2>1. CASE Dial \/ Serve \/ Wake
    BY <2>1 DEF Dial, Serve, Wake
  <2>2. ASSUME ConnFails \/ ClientReads \/ Rest \/ UNCHANGED vars
        PROVE  UNCHANGED loopVars
    BY <2>2 DEF ConnFails, ClientReads, Rest, vars
  <2>3. ASSUME NEW n \in Sessions, ServerCloses(n) \/ ServerReads(n)
        PROVE  UNCHANGED loopVars
    BY <2>3 DEF ServerCloses, ServerReads
  <2>4. ASSUME NEW h \in Requests, Arrive(h) \/ Handler(h) \/ ServerSays(h) \/ AppLeaves(h)
        PROVE  UNCHANGED loopVars
    <3>1. CASE Arrive(h) \/ ServerSays(h) \/ AppLeaves(h)
      BY <3>1 DEF Arrive, ServerSays, AppLeaves
    <3>2. CASE Handler(h)
      BY <3>2 DEF Handler, Look, Open, SendRequest, SendBodyEnd, Relay, RelayEnds
    <3> QED  BY <2>4, <3>1, <3>2
  <2>5. Dial \/ Serve \/ Wake \/ UNCHANGED loopVars
    BY <1>4, <2>2, <2>3, <2>4 DEF Next
  <2> QED  BY <2>1, <2>5 DEF loopVars
<1> QED  BY <1>1, <1>2, <1>3, <1>4

(***************************************************************************)
(* Theorem: the waits between dials double from the first to the longest,  *)
(* shortened by at most half, and start over after a session, for every    *)
(* first and longest wait and any number of failed dials.                  *)
(***************************************************************************)
THEOREM WaitsDouble == Spec => []BackoffDoubles
<1>1. Init => Backs
  BY CappedType DEF Init, Backs
<1>2. Backs => BackoffDoubles
  BY DEF Backs, BackoffDoubles, Capped, jitter
<1> QED  BY <1>1, <1>2, BacksStep, PTL DEF Spec
=============================================================================
