----------------------------- MODULE PairServer -----------------------------
(***************************************************************************)
(* The connections of the pairing server (pairing/network.go): the slots   *)
(* that limit them, their deadlines, the one lock for control writes, and  *)
(* the room service's lock, which every callback takes and which is held   *)
(* while RemoveMember writes to a client.  Clients may stop sending and    *)
(* reading at any point.  What pairing does to leases is in Room.          *)
(***************************************************************************)
EXTENDS Naturals, FiniteSets

CONSTANTS
    Conns,          \* connections; each is of a member of its own
    MaxConcurrent,  \* slots (16)
    Nobody, Remover \* holders of a lock that are not connections

VARIABLES
    conn,      \* per connection: where its goroutine is
    slots,     \* taken from limit
    deadline,  \* "odd" and "even" deadlines alternate; or it has "passed"
    cut,       \* it was closed by Close
    registered,  \* Server.connections
    owners,    \* connections that own a device entry
    known,     \* members that have an enabled lease
    roomLock, writeMu,
    target,    \* the connection RemoveMember is about
    running, listening, closing  \* room service, listener, and where Stop is

locks == <<roomLock, writeMu, target>>
server == <<running, listening, closing>>
vars == <<conn, slots, deadline, cut, registered, owners, known, locks, server>>

Init ==
    /\ conn = [c \in Conns |-> "away"] /\ slots = 0
    /\ deadline = [c \in Conns |-> "odd"] /\ cut = [c \in Conns |-> FALSE]
    /\ registered = {} /\ owners = {} /\ known = Conns
    /\ roomLock = Nobody /\ writeMu = Nobody /\ target = Nobody
    /\ running = TRUE /\ listening = TRUE /\ closing = "no"

Goto(c, place) == conn' = [conn EXCEPT ![c] = place]
SetDeadline(c) == deadline' = [deadline EXCEPT ![c] = IF @ = "odd" THEN "even" ELSE "odd"]

(* Where a deadline set before can pass.                                   *)
Armed(c) == conn[c] \in {"pair", "configure", "control", "known", "store", "report", "write", "refuse"}

DeadlinePasses(c, d) ==
    /\ Armed(c) /\ deadline[c] = d /\ deadline' = [deadline EXCEPT ![c] = "passed"]
    /\ UNCHANGED <<conn, slots, cut, registered, owners, known, locks, server>>

Failing(c) == deadline[c] = "passed" \/ cut[c]

-----------------------------------------------------------------------------
(* serve: refused by the rate limiter, without a slot, or handled.         *)
Accept(c) ==
    /\ listening /\ conn[c] = "away"
    /\ \/ Goto(c, "gone") /\ UNCHANGED slots
       \/ slots < MaxConcurrent /\ slots' = slots + 1 /\ Goto(c, "handle")
    /\ UNCHANGED <<deadline, cut, registered, owners, known, locks, server>>

Register(c) ==
    /\ conn[c] = "handle" /\ registered' = registered \cup {c}
    /\ Goto(c, "pair") /\ SetDeadline(c)
    /\ UNCHANGED <<slots, cut, owners, known, locks, server>>

(* Mutant: a slot is only returned by a client that paired. *)
PairFailsKeepsSlot(c) ==
    /\ conn[c] \in {"pair", "configure"} /\ roomLock = Nobody
    /\ Goto(c, "end")
    /\ UNCHANGED <<slots, deadline, cut, registered, owners, known, locks, server>>

(* pair ends without success: a read or write fails, or the client is      *)
(* refused.  PairingFailed takes the room's lock.                          *)
PairFails(c) ==
    /\ conn[c] \in {"pair", "configure"} /\ (conn[c] = "configure" => roomLock = Nobody)
    /\ Goto(c, "end") /\ slots' = slots - 1
    /\ UNCHANGED <<deadline, cut, registered, owners, known, locks, server>>

(* The request is there and Assign has given an address.                   *)
Assigned(c) ==
    /\ conn[c] = "pair" /\ ~Failing(c) /\ roomLock = Nobody /\ running /\ c \in known
    /\ Goto(c, "configure") /\ SetDeadline(c)
    /\ UNCHANGED <<slots, cut, registered, owners, known, locks, server>>

(* The acknowledgement is there; the slot is returned before control.      *)
Acknowledged(c) ==
    /\ conn[c] = "configure" /\ ~Failing(c) /\ roomLock = Nobody
    /\ Goto(c, "control") /\ SetDeadline(c) /\ slots' = slots - 1
    /\ UNCHANGED <<cut, registered, owners, known, locks, server>>

-----------------------------------------------------------------------------
(* control: a report is read,                                              *)
Report(c) ==
    /\ conn[c] = "control" /\ ~Failing(c) /\ Goto(c, "known")
    /\ UNCHANGED <<slots, deadline, cut, registered, owners, known, locks, server>>

ControlFails(c) ==
    /\ conn[c] = "control" /\ Failing(c) /\ Goto(c, "end")
    /\ UNCHANGED <<slots, deadline, cut, registered, owners, known, locks, server>>

(* the member is looked up; one that is not known any more is told so,     *)
KnownMember(c) ==
    /\ conn[c] = "known" /\ roomLock = Nobody
    /\ Goto(c, IF running /\ c \in known THEN "store" ELSE "refuse")
    /\ UNCHANGED <<slots, deadline, cut, registered, owners, known, locks, server>>

(* the device entry is stored with the connection as its owner,            *)
Store(c) ==
    /\ conn[c] = "store" /\ Goto(c, "report") /\ owners' = owners \cup {c}
    /\ UNCHANGED <<slots, deadline, cut, registered, known, locks, server>>

(* ReportStats takes the room's lock,                                      *)
ReportStats(c) ==
    /\ conn[c] = "report" /\ roomLock = Nobody /\ Goto(c, "write")
    /\ UNCHANGED <<slots, deadline, cut, registered, owners, known, locks, server>>

(* and the answer is written under writeMu; that may block until the       *)
(* deadline if the client does not read.                                   *)
TakeWriteMu(c) ==
    /\ conn[c] \in {"write", "refuse"} /\ writeMu = Nobody /\ writeMu' = c
    /\ UNCHANGED <<conn, slots, deadline, cut, registered, owners, known, roomLock, target, server>>

WriteSucceeds(c) ==
    /\ writeMu = c /\ ~Failing(c) /\ writeMu' = Nobody
    /\ Goto(c, IF conn[c] = "write" THEN "control" ELSE "end") /\ SetDeadline(c)
    /\ UNCHANGED <<slots, cut, registered, owners, known, roomLock, target, server>>

WriteFails(c) ==
    /\ writeMu = c /\ Failing(c) /\ writeMu' = Nobody /\ Goto(c, "end")
    /\ UNCHANGED <<slots, deadline, cut, registered, owners, known, roomLock, target, server>>

(* The deferred functions of control and handle.                           *)
End(c) ==
    /\ conn[c] = "end" /\ Goto(c, "gone")
    /\ owners' = owners \ {c} /\ registered' = registered \ {c}
    /\ UNCHANGED <<slots, deadline, cut, known, locks, server>>

-----------------------------------------------------------------------------
(* The room service removes a member with its lock held; RemoveMember      *)
(* writes to the connection that owns the entry.                           *)
Remove(c) ==
    /\ running /\ roomLock = Nobody /\ c \in known /\ known' = known \ {c}
    /\ IF c \in owners THEN roomLock' = Remover /\ target' = c /\ owners' = owners \ {c}
                       ELSE UNCHANGED <<roomLock, target, owners>>
    /\ UNCHANGED <<conn, slots, deadline, cut, registered, writeMu, server>>

RemoverTakesWriteMu ==
    /\ roomLock = Remover /\ writeMu = Nobody /\ writeMu' = Remover
    /\ UNCHANGED <<conn, slots, deadline, cut, registered, owners, known, roomLock, target, server>>

(* The write succeeds, or fails on a connection that is closed or late.    *)
RemoverWrites ==
    /\ writeMu = Remover /\ roomLock' = Nobody /\ writeMu' = Nobody /\ target' = Nobody
    /\ UNCHANGED <<conn, slots, deadline, cut, registered, owners, known, server>>

RemoverUnblocked == RemoverWrites /\ (Failing(target) \/ conn[target] = "gone")

-----------------------------------------------------------------------------
(* Stop resets running under the lock; Close closes the listener and the   *)
(* connections that are registered, and waits for all goroutines.          *)
Stop ==
    /\ running /\ roomLock = Nobody /\ running' = FALSE /\ closing' = "listener"
    /\ UNCHANGED <<conn, slots, deadline, cut, registered, owners, known, locks, listening>>

CloseListener ==
    /\ closing = "listener" /\ listening' = FALSE /\ closing' = "connections"
    /\ UNCHANGED <<conn, slots, deadline, cut, registered, owners, known, locks, running>>

CloseConnections ==
    /\ closing = "connections" /\ closing' = "wait"
    /\ cut' = [c \in Conns |-> cut[c] \/ c \in registered]
    /\ UNCHANGED <<conn, slots, deadline, registered, owners, known, locks, running, listening>>

CloseReturns ==
    /\ closing = "wait" /\ \A c \in Conns : conn[c] \in {"away", "gone"} /\ closing' = "returned"
    /\ UNCHANGED <<conn, slots, deadline, cut, registered, owners, known, locks, running, listening>>

Close == CloseListener \/ CloseConnections \/ CloseReturns

(* What a goroutine does by itself; the rest is up to its client.          *)
Handler(c) == \/ Register(c) \/ ControlFails(c) \/ KnownMember(c) \/ Store(c) \/ ReportStats(c)
              \/ TakeWriteMu(c) \/ WriteFails(c) \/ End(c) \/ (Failing(c) /\ PairFails(c))

Next ==
    \/ \E c \in Conns : \/ Accept(c) \/ PairFails(c) \/ Assigned(c) \/ Acknowledged(c) \/ Report(c)
                        \/ Handler(c) \/ WriteSucceeds(c) \/ Remove(c)
                        \/ \E d \in {"odd", "even"} : DeadlinePasses(c, d)
    \/ RemoverTakesWriteMu \/ RemoverWrites \/ Stop \/ Close

(* Goroutines are scheduled, a lock goes to everyone who keeps asking for  *)
(* it (a Go mutex hands itself to who has waited for 1 ms), and a deadline *)
(* that is not set anew passes; clients need not do anything.              *)
Spec == /\ Init /\ [][Next]_vars /\ WF_vars(Close) /\ SF_vars(RemoverTakesWriteMu \/ RemoverUnblocked)
        /\ \A c \in Conns : /\ WF_vars(DeadlinePasses(c, "odd")) /\ WF_vars(DeadlinePasses(c, "even"))
                            /\ SF_vars(Handler(c))

-----------------------------------------------------------------------------
(* A slot is held by exactly the connections that are pairing, and there   *)
(* are never more than MaxConcurrent; a device entry is owned by a         *)
(* connection that is still in control; the lock for writes is held only   *)
(* by who is writing, and by RemoveMember only under the room's lock, so   *)
(* that nobody who holds it waits for the room's lock; and when Close has  *)
(* returned no goroutine, slot, entry or lock is left.                     *)
SlotsAndLocks ==
    /\ slots = Cardinality({c \in Conns : conn[c] \in {"handle", "pair", "configure"}})
    /\ slots <= MaxConcurrent
    /\ \A c \in owners : conn[c] \in {"report", "write", "control", "known", "store", "refuse", "end"}
    /\ writeMu \in Conns => conn[writeMu] \in {"write", "refuse"}
    /\ writeMu = Remover => roomLock = Remover
    /\ closing = "returned" =>
          /\ slots = 0 /\ owners = {} /\ registered = {} /\ roomLock = Nobody /\ writeMu = Nobody
          /\ \A c \in Conns : conn[c] \in {"away", "gone"}

(* Removing a member returns and gives the room's lock back, whatever the  *)
(* clients do, although it waits for a lock that is held during writes.    *)
RemoveEnds == (roomLock = Remover) ~> (roomLock = Nobody)

(* Close returns, also when a connection was accepted before the listener  *)
(* was closed and was not registered when the connections were.            *)
CloseEnds == (closing = "listener") ~> (closing = "returned")

(* A slot becomes free: clients that stop half way do not keep them.       *)
SlotsReturn == (slots = MaxConcurrent) ~> (slots < MaxConcurrent)

(* The control connection of a member that was removed ends.               *)
RemovedEnd == \A c \in Conns : (c \notin known /\ conn[c] = "control") ~> (conn[c] = "gone")

(* No client that stops half way holds the server up.                      *)
ServerProgresses == RemoveEnds /\ CloseEnds /\ SlotsReturn /\ RemovedEnd
=============================================================================
