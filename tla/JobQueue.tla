------------------------------ MODULE JobQueue ------------------------------
(***************************************************************************)
(* A job's inbox (src/internal/peer/queue.go): an unbounded queue between  *)
(* a connection's read loop, which must never block, and the goroutine     *)
(* that runs the job.                                                      *)
(*                                                                         *)
(* The ready channels are numbered.  wake closes the current one and makes *)
(* the next, so channel c is closed exactly when c < ready.  next looks at *)
(* the queue under the lock but waits outside it, on the channel it read   *)
(* while it still had the lock: those are two actions here.                *)
(***************************************************************************)
EXTENDS Integers, Sequences, SequencesExt

CONSTANTS
  Readers,    \* the goroutines that call next
  MaxPush     \* bound: how many messages the read loop pushes

ASSUME PushAssumption == MaxPush \in Nat

VARIABLES
  items,      \* jobQueue.items; a message is the number of its push
  closed,     \* jobQueue.err # nil
  ready,      \* the number of the channel in jobQueue.ready
  at,         \* where each reader is: see Places
  waitOn,     \* the channel that next read before it unlocked
  gaveUp,     \* the reader's context is done
  pushed,     \* history: how many messages were pushed
  accepted,   \* history: the messages that push put in the queue
  received    \* history: the messages that next returned, in order

vars == <<items, closed, ready, at, waitOn, gaveUp, pushed, accepted, received>>

(***************************************************************************)
(* "lock"   about to lock and look        "wait"  in the select            *)
(* "closed" next returned the close error "ctx"   next returned ctx.Err()  *)
(***************************************************************************)
Places == {"lock", "wait", "closed", "ctx"}

TypeOK ==
  /\ items \in Seq(Nat)
  /\ closed \in BOOLEAN
  /\ ready \in 0..(MaxPush + 1)
  /\ at \in [Readers -> Places]
  /\ waitOn \in [Readers -> Nat]
  /\ gaveUp \in [Readers -> BOOLEAN]
  /\ pushed \in 0..MaxPush
  /\ accepted \in Seq(Nat)
  /\ received \in Seq(Nat)

Init ==
  /\ items = <<>>
  /\ closed = FALSE
  /\ ready = 0
  /\ at = [r \in Readers |-> "lock"]
  /\ waitOn = [r \in Readers |-> 0]
  /\ gaveUp = [r \in Readers |-> FALSE]
  /\ pushed = 0
  /\ accepted = <<>>
  /\ received = <<>>

(* Mutant of wake: nobody is woken. *)
wakeNobody == ready' = ready

(* wake: everyone waiting on the current channel is released. *)
wake == ready' = ready + 1

(* Mutant of push: a message is taken in after the close. *)
pushAlways ==
  /\ pushed < MaxPush
  /\ pushed' = pushed + 1
  /\ items' = Append(items, pushed + 1)
  /\ accepted' = IF closed THEN accepted ELSE Append(accepted, pushed + 1)
  /\ wake
  /\ UNCHANGED <<closed, at, waitOn, gaveUp, received>>

(* push: nothing after the close, else into the queue. *)
push ==
  /\ pushed < MaxPush
  /\ pushed' = pushed + 1
  /\ IF closed
     THEN UNCHANGED <<items, accepted, ready>>
     ELSE /\ items' = Append(items, pushed + 1)
          /\ accepted' = Append(accepted, pushed + 1)
          /\ wake
  /\ UNCHANGED <<closed, at, waitOn, gaveUp, received>>

(* Mutant of close: nobody is woken. *)
closeSilently ==
  /\ ~closed
  /\ closed' = TRUE
  /\ UNCHANGED <<items, ready, at, waitOn, gaveUp, pushed, accepted, received>>

(* close: the first one counts, and it wakes the readers too. *)
close ==
  /\ ~closed
  /\ closed' = TRUE
  /\ wake
  /\ UNCHANGED <<items, at, waitOn, gaveUp, pushed, accepted, received>>

(* Mutant of nextLook: a closed queue is reported before its messages. *)
nextLookErrorFirst(r) ==
  /\ at[r] = "lock"
  /\ \/ /\ closed
        /\ at' = [at EXCEPT ![r] = "closed"]
        /\ UNCHANGED <<items, received, waitOn>>
     \/ /\ ~closed /\ items # <<>>
        /\ items' = Tail(items)
        /\ received' = Append(received, Head(items))
        /\ UNCHANGED <<at, waitOn>>
     \/ /\ ~closed /\ items = <<>>
        /\ waitOn' = [waitOn EXCEPT ![r] = ready]
        /\ at' = [at EXCEPT ![r] = "wait"]
        /\ UNCHANGED <<items, received>>
  /\ UNCHANGED <<closed, ready, gaveUp, pushed, accepted>>

(* next, under the lock: a message, else the close error, else note the channel
   and wait.  A reader that got a message calls next again. *)
nextLook(r) ==
  /\ at[r] = "lock"
  /\ \/ /\ items # <<>>
        /\ items' = Tail(items)
        /\ received' = Append(received, Head(items))
        /\ UNCHANGED <<at, waitOn>>
     \/ /\ items = <<>> /\ closed
        /\ at' = [at EXCEPT ![r] = "closed"]
        /\ UNCHANGED <<items, received, waitOn>>
     \/ /\ items = <<>> /\ ~closed
        /\ waitOn' = [waitOn EXCEPT ![r] = ready]
        /\ at' = [at EXCEPT ![r] = "wait"]
        /\ UNCHANGED <<items, received>>
  /\ UNCHANGED <<closed, ready, gaveUp, pushed, accepted>>

(* next's select: the channel it waits on was closed. *)
nextWoken(r) ==
  /\ at[r] = "wait"
  /\ waitOn[r] < ready
  /\ at' = [at EXCEPT ![r] = "lock"]
  /\ UNCHANGED <<items, closed, ready, waitOn, gaveUp, pushed, accepted, received>>

(* next's select: the caller gives up. *)
nextGivesUp(r) ==
  /\ at[r] = "wait"
  /\ gaveUp[r]
  /\ at' = [at EXCEPT ![r] = "ctx"]
  /\ UNCHANGED <<items, closed, ready, waitOn, gaveUp, pushed, accepted, received>>

(* The context of a reader is done. *)
GiveUp(r) ==
  /\ ~gaveUp[r]
  /\ gaveUp' = [gaveUp EXCEPT ![r] = TRUE]
  /\ UNCHANGED <<items, closed, ready, at, waitOn, pushed, accepted, received>>

Rest ==
  /\ closed
  /\ \A r \in Readers : at[r] \in {"closed", "ctx"}
  /\ UNCHANGED vars

Read(r) == nextLook(r) \/ nextWoken(r) \/ nextGivesUp(r)

Next ==
  \/ push \/ close
  \/ \E r \in Readers : Read(r) \/ GiveUp(r)
  \/ Rest

Spec == Init /\ [][Next]_vars

(* A reader that can go on does; nothing says that messages come or when. *)
FairSpec == Spec /\ \A r \in Readers : WF_vars(Read(r))

-----------------------------------------------------------------------------
(***************************************************************************)
(* Nothing is lost, doubled or reordered: what the readers got, followed   *)
(* by what is in the queue, is what push accepted, in its order, also      *)
(* after the close (queue.go:41, "Messages already in it are still handed  *)
(* out").                                                                  *)
(***************************************************************************)
NothingLost == received \o items = accepted

(***************************************************************************)
(* The close error is only reported when every accepted message was handed *)
(* out (queue.go:54).                                                      *)
(***************************************************************************)
DrainedBeforeError ==
  \A r \in Readers : at[r] = "closed" => received = accepted

(***************************************************************************)
(* No lost wake-up: a reader that waits on the channel nobody has closed   *)
(* yet has nothing to read and nothing to be told.  It cannot sleep        *)
(* through a push or a close that came between its unlock and its select   *)
(* (queue.go:70-74).                                                       *)
(***************************************************************************)
NoLostWakeup ==
  \A r \in Readers : at[r] = "wait" /\ waitOn[r] >= ready => items = <<>> /\ ~closed

(***************************************************************************)
(* Every reader of a closed queue comes to its end, and every accepted     *)
(* message is read while somebody reads (queue.go:56).                     *)
(***************************************************************************)
ClosedReleasesAll ==
  /\ \A r \in Readers : closed ~> at[r] \in {"closed", "ctx"}
  /\ items # <<>> ~> items = <<>> \/ \A r \in Readers : gaveUp[r]
=============================================================================
