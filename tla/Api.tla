-------------------------------- MODULE Api --------------------------------
(***************************************************************************)
(* The request protocol over one client connection: stdin and stdout       *)
(* (RunWithServices) or a WebSocket (websocket, HandleMessage).  Stdio     *)
(* dispatches a request before it reads the next, joins excepted; a        *)
(* WebSocket dispatches each in a goroutine of its own.  A ticker reports  *)
(* changed states.  core.shutdown, the end of stdin or a failed write of a *)
(* response ends stdio; a WebSocket only ends the process after it has     *)
(* written the response to core.shutdown.                                  *)
(***************************************************************************)
EXTENDS Naturals, Sequences, Functions

CONSTANTS
    Requests,
    Kinds,      \* kinds of request the client uses
    Transport,  \* "stdio" or "ws"
    MaxState,   \* bound on the version of the state that clients see
    MayBreak,   \* the client may stop reading what is written
    None

VARIABLES
    kind,      \* what each request is
    input,     \* requests sent and not read
    sent,      \* requests in the order they were sent
    closed,    \* the client closed its end
    phase,     \* per request: "unsent", "sent", "run", "done", "failed" or "answered"
    reader,    \* "read", the request it dispatches, "return" or "returned"
    out,       \* requests in the order of their responses
    broken,    \* writes to the client fail
    state, reported,  \* version of the state, and the last one the ticker saw
    ticking,
    services,  \* "up" or "stopped"
    stop       \* Server.stop was closed, or RunWithServices returned

client == <<kind, sent, closed, broken>>
vars == <<client, input, phase, reader, out, state, reported, ticking, services, stop>>

Init ==
    /\ kind \in [Requests -> Kinds]
    /\ input = << >> /\ sent = << >> /\ closed = FALSE /\ broken = FALSE
    /\ phase = [r \in Requests |-> "unsent"] /\ reader = "read" /\ out = << >>
    /\ state = 0 /\ reported = IF Transport = "stdio" THEN 0 ELSE None
    /\ ticking = TRUE /\ services = "up" /\ stop = FALSE

-----------------------------------------------------------------------------
Send(r) ==
    /\ phase[r] = "unsent" /\ ~closed /\ ~broken
    /\ phase' = [phase EXCEPT ![r] = "sent"]
    /\ input' = Append(input, r) /\ sent' = Append(sent, r)
    /\ UNCHANGED <<kind, closed, broken, reader, out, state, reported, ticking, services, stop>>

(* The end of stdin; a WebSocket closes both ways.                         *)
CloseInput ==
    /\ MayBreak \/ Transport = "stdio"
    /\ ~closed /\ closed' = TRUE /\ broken' = (broken \/ Transport = "ws")
    /\ UNCHANGED <<kind, input, sent, phase, reader, out, state, reported, ticking, services, stop>>

Break ==
    /\ MayBreak /\ ~broken /\ broken' = TRUE
    /\ UNCHANGED <<kind, input, sent, closed, phase, reader, out, state, reported, ticking, services, stop>>

-----------------------------------------------------------------------------
Write(r) == out' = IF broken THEN out ELSE Append(out, r)

(* Mutant: commands are dispatched in goroutines, as joins are. *)
OwnGoroutineAlways(r) == kind[r] # "invalid"

(* Requests that are dispatched in a goroutine of their own.               *)
OwnGoroutine(r) == Transport = "ws" \/ kind[r] = "join"

(* Mutant: an invalid request is skipped. *)
ReadSkipsInvalid ==
    /\ reader = "read" /\ input # << >> /\ input' = Tail(input)
    /\ LET r == Head(input) IN
          /\ phase' = [phase EXCEPT ![r] = IF kind[r] = "invalid" THEN "skipped" ELSE "run"]
          /\ reader' = IF OwnGoroutine(r) \/ kind[r] = "invalid" THEN "read" ELSE r
    /\ UNCHANGED <<client, out, state, reported, ticking, services, stop>>

(* One turn of the reading loop.                                           *)
Read ==
    /\ reader = "read" /\ input # << >> /\ input' = Tail(input)
    /\ LET r == Head(input) IN
          /\ phase' = [phase EXCEPT ![r] = IF kind[r] = "invalid" THEN "failed" ELSE "run"]
          /\ reader' = IF OwnGoroutine(r) THEN "read" ELSE r
    /\ UNCHANGED <<client, out, state, reported, ticking, services, stop>>

(* dispatch: a command takes effect or fails; core.shutdown stops all the  *)
(* services, and fails when one of them does.                              *)
Dispatch(r) ==
    /\ phase[r] = "run"
    /\ \/ /\ phase' = [phase EXCEPT ![r] = "done"]
          /\ services' = IF kind[r] = "shutdown" THEN "stopped" ELSE services
          /\ state' = IF kind[r] = "query" THEN state ELSE state + 1
          /\ state' <= MaxState
       \/ phase' = [phase EXCEPT ![r] = "failed"] /\ UNCHANGED <<services, state>>
    /\ UNCHANGED <<client, input, reader, out, reported, ticking, stop>>

(* Whether the response to r ends the connection: one that cannot be       *)
(* written does, but a join's is not looked at; so does core.shutdown.     *)
Ends(r) == broken \/ (kind[r] = "shutdown" /\ phase[r] = "done")

(* The response of a request that the reading loop dispatched.             *)
Respond(r) ==
    /\ reader = r /\ phase[r] \in {"done", "failed"} /\ Write(r)
    /\ phase' = [phase EXCEPT ![r] = "answered"]
    /\ reader' = IF Ends(r) THEN "return" ELSE "read"
    /\ UNCHANGED <<client, input, state, reported, ticking, services, stop>>

(* The response of a request that has its own goroutine.                   *)
RespondAlone(r) ==
    /\ reader # r /\ phase[r] \in {"done", "failed"} /\ Write(r)
    /\ phase' = [phase EXCEPT ![r] = "answered"]
    /\ stop' = (stop \/ (Transport = "ws" /\ ~broken /\ Ends(r)))
    /\ UNCHANGED <<client, input, reader, state, reported, ticking, services>>

(* The loop ends at the end of stdin and stops the services; a WebSocket's *)
(* handler just returns.                                                   *)
EndOfInput ==
    /\ reader = "read" /\ closed /\ input = << >>
    /\ reader' = "return"
    /\ services' = IF Transport = "stdio" THEN "stopped" ELSE services
    /\ UNCHANGED <<client, input, phase, out, state, reported, ticking, stop>>

(* The deferred calls: stdio waits for the joins, then for the ticker; the *)
(* handler of a WebSocket closes the connection.                           *)
Return ==
    /\ reader = "return"
    /\ Transport = "stdio" => \A r \in Requests : phase[r] \notin {"run", "done", "failed"}
    /\ reader' = "returned" /\ ticking' = FALSE
    /\ stop' = (stop \/ Transport = "stdio")
    /\ UNCHANGED <<client, input, phase, out, state, reported, services>>

(* The ticker sees a state it has not reported.                            *)
Tick ==
    /\ ticking /\ reported # state /\ reported' = state
    /\ ticking' = ~(Transport = "ws" /\ broken)
    /\ UNCHANGED <<client, input, phase, reader, out, state, services, stop>>

Loop == Read \/ EndOfInput \/ Return \/ \E r \in Requests : Respond(r)

(* Once stop is closed the process exits.                                  *)
Next ==
    /\ ~stop
    /\ \/ Loop \/ Tick \/ CloseInput \/ Break
       \/ \E r \in Requests : Send(r) \/ Dispatch(r) \/ RespondAlone(r)

(* Goroutines are scheduled and every command returns, joins too; clients  *)
(* need not do anything.                                                   *)
Spec == /\ Init /\ [][Next]_vars /\ WF_vars(~stop /\ Loop) /\ WF_vars(~stop /\ Tick)
        /\ \A r \in Requests : WF_vars(~stop /\ Dispatch(r)) /\ WF_vars(~stop /\ RespondAlone(r))

-----------------------------------------------------------------------------
(* Responses go to requests that were sent, none twice; before a command,  *)
(* every command that was sent earlier is answered.                        *)
CommandsInOrder ==
    /\ Range(out) \subseteq Range(sent) /\ IsInjective(out)
    /\ \A i \in DOMAIN out, m, n \in DOMAIN sent :
          m < n /\ sent[n] = out[i] /\ kind[sent[m]] # "join" /\ kind[sent[n]] # "join"
             => \E h \in DOMAIN out : h < i /\ out[h] = sent[m]

(* What is sent is answered, unless the client or the process goes away.   *)
EventuallyAnswered ==
    \A r \in Requests : (phase[r] = "sent") ~> (phase[r] = "answered" \/ broken \/ stop \/ reader = "returned")

(* A changed state is reported as long as the connection lasts.            *)
ChangesReported == (reported # state) ~> (reported = state \/ broken \/ stop \/ reader = "returned")

(* A client that stays is told what it asked for and what changes.         *)
ClientServed == EventuallyAnswered /\ ChangesReported
=============================================================================
