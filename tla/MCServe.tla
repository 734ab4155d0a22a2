------------------------------ MODULE MCServe -------------------------------
(***************************************************************************)
(* The two servers of the process, for TLC: the pairing server of a room   *)
(* (PairServer) and the command interface (Api, on standard input and on a *)
(* web socket).  They share no state: the initial state chooses one and    *)
(* only that one moves.                                                    *)
(***************************************************************************)
CONSTANTS
    Conns, MaxConcurrent, Nobody, Remover,
    Requests, Kinds, MaxState, MayBreak, None

VARIABLES
    part,
    conn, slots, deadline, cut, registered, owners, known, roomLock, writeMu, target,
    running, listening, closing,
    kind, input, sent, closed, phase, reader, out, broken, state, reported, ticking,
    services, stop

pairVars == <<conn, slots, deadline, cut, registered, owners, known, roomLock, writeMu,
              target, running, listening, closing>>
apiVars == <<kind, input, sent, closed, phase, reader, out, broken, state, reported,
             ticking, services, stop>>

Pair == INSTANCE PairServer
Stdio == INSTANCE Api WITH Transport <- "stdio"
Web == INSTANCE Api WITH Transport <- "ws"

Init ==
    /\ part \in {"pair", "stdio", "web"}
    /\ Pair!Init
    /\ IF part = "web" THEN Web!Init ELSE Stdio!Init
    /\ part = "pair" => kind = [r \in Requests |-> CHOOSE k \in Kinds : TRUE]

Next ==
    \/ part = "pair" /\ Pair!Next /\ UNCHANGED <<part, apiVars>>
    \/ part = "stdio" /\ Stdio!Next /\ UNCHANGED <<part, pairVars>>
    \/ part = "web" /\ Web!Next /\ UNCHANGED <<part, pairVars>>

(* Goroutines are scheduled, a lock goes to everyone who keeps asking for  *)
(* it (a Go mutex hands itself to who has waited for 1 ms), and a deadline *)
(* that is not set anew passes; clients need not do anything.              *)
PairFairness ==
    /\ WF_pairVars(part = "pair" /\ Pair!Close)
    /\ SF_pairVars(part = "pair" /\ (Pair!RemoverTakesWriteMu \/ Pair!RemoverUnblocked))
    /\ \A c \in Conns : /\ WF_pairVars(part = "pair" /\ Pair!DeadlinePasses(c, "odd"))
                        /\ WF_pairVars(part = "pair" /\ Pair!DeadlinePasses(c, "even"))
                        /\ SF_pairVars(part = "pair" /\ Pair!Handler(c))

(* Goroutines are scheduled and every command returns, joins too; clients  *)
(* need not do anything.                                                   *)
ApiFairness ==
    /\ WF_apiVars(part = "stdio" /\ ~stop /\ Stdio!Loop)
    /\ WF_apiVars(part = "web" /\ ~stop /\ Web!Loop)
    /\ WF_apiVars(part = "stdio" /\ ~stop /\ Stdio!Tick)
    /\ WF_apiVars(part = "web" /\ ~stop /\ Web!Tick)
    /\ \A r \in Requests : /\ WF_apiVars(part = "stdio" /\ ~stop /\ Stdio!Dispatch(r))
                           /\ WF_apiVars(part = "web" /\ ~stop /\ Web!Dispatch(r))
                           /\ WF_apiVars(part = "stdio" /\ ~stop /\ Stdio!RespondAlone(r))
                           /\ WF_apiVars(part = "web" /\ ~stop /\ Web!RespondAlone(r))

Spec ==
    /\ Init /\ [][Next]_<<part, pairVars, apiVars>>
    /\ PairFairness /\ ApiFairness

(* No client that stops half way holds the pairing server up: removing a   *)
(* member returns and gives the room's lock back although it writes to the *)
(* client, Close returns, also when a connection was accepted before the   *)
(* listener was closed, a slot becomes free, and the control connection of *)
(* a removed member ends.                                                  *)
ServerProgresses == part = "pair" => Pair!ServerProgresses

(* What a client sent is answered, and a changed state is reported, unless *)
(* the client or the process goes away.                                    *)
ClientServed ==
    /\ part = "stdio" => Stdio!ClientServed
    /\ part = "web" => Web!ClientServed
=============================================================================
