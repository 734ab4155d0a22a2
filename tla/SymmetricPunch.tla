--------------------------- MODULE SymmetricPunch ---------------------------
(***************************************************************************)
(* TCP punching between a cone and a symmetric NAT                         *)
(* (connectUnderlayTCPSymmetric): both sides dial many ports at once and   *)
(* several connections may come up.  The cone side takes the first one     *)
(* that it gets, closes the others and says so on the one it took; the     *)
(* symmetric side answers on it and takes it too.  Each dial is a          *)
(* goroutine; the caller waits for a result or for HandshakeTimeout.       *)
(***************************************************************************)
EXTENDS Naturals, FiniteSets

CONSTANTS
    Conns,     \* the connections dialled
    NoConn,    \* not returned yet
    MaxBreaks  \* number of connections that break

VARIABLES
    conn,      \* a connection is "dialled", "up" or "down"
    cone,      \* where the cone side's goroutine of a connection is
    sym,       \* where the symmetric side's is
    ack,       \* messages on their way: <<receiving side, connection>>
    success,   \* the flag of each side
    gotCh,     \* the connections each side has put into its channel
    result,    \* what each side returned: a connection or an error
    breaks

vars == <<conn, cone, sym, ack, success, gotCh, result, breaks>>

Sides == {"cone", "sym"}
Error == "error"

Init ==
    /\ conn = [i \in Conns |-> "dialled"]
    /\ cone = [i \in Conns |-> "dialling"] /\ sym = [i \in Conns |-> "dialling"]
    /\ ack = {} /\ success = [s \in Sides |-> FALSE]
    /\ gotCh = [s \in Sides |-> {}] /\ result = [s \in Sides |-> NoConn] /\ breaks = 0

-----------------------------------------------------------------------------
Connects(i) ==
    /\ conn[i] = "dialled" /\ conn' = [conn EXCEPT ![i] = "up"]
    /\ cone' = [cone EXCEPT ![i] = "dialled"] /\ sym' = [sym EXCEPT ![i] = "reading"]
    /\ UNCHANGED <<ack, success, gotCh, result, breaks>>

DialFails(i) ==
    /\ conn[i] = "dialled" /\ conn' = [conn EXCEPT ![i] = "down"]
    /\ cone' = [cone EXCEPT ![i] = "ended"] /\ sym' = [sym EXCEPT ![i] = "ended"]
    /\ UNCHANGED <<ack, success, gotCh, result, breaks>>

(* The cone side's first connection: CompareAndSwap, and the message.      *)
(* When it cannot be sent, no other connection is taken any more.          *)
ConeTakes(i) ==
    /\ cone[i] = "dialled" /\ ~success["cone"]
    /\ success' = [success EXCEPT !["cone"] = TRUE]
    /\ IF conn[i] = "up"
       THEN cone' = [cone EXCEPT ![i] = "reading"] /\ ack' = ack \cup {<<"sym", i>>}
       ELSE cone' = [cone EXCEPT ![i] = "ended"] /\ UNCHANGED ack
    /\ UNCHANGED <<conn, sym, gotCh, result, breaks>>

ConeCloses(i) ==
    /\ cone[i] = "dialled" /\ success["cone"]
    /\ conn' = [conn EXCEPT ![i] = "down"] /\ cone' = [cone EXCEPT ![i] = "ended"]
    /\ UNCHANGED <<sym, ack, success, gotCh, result, breaks>>

ConeReads(i) ==
    /\ cone[i] = "reading" /\ <<"cone", i>> \in ack /\ ack' = ack \ {<<"cone", i>>}
    /\ cone' = [cone EXCEPT ![i] = "ended"]
    /\ gotCh' = [gotCh EXCEPT !["cone"] = @ \cup {i}]
    /\ UNCHANGED <<conn, sym, success, result, breaks>>

ReadFails(i) ==
    /\ conn[i] = "down"
    /\ \/ /\ cone[i] = "reading" /\ <<"cone", i>> \notin ack
          /\ cone' = [cone EXCEPT ![i] = "ended"] /\ UNCHANGED sym
       \/ /\ sym[i] = "reading" /\ <<"sym", i>> \notin ack
          /\ sym' = [sym EXCEPT ![i] = "ended"] /\ UNCHANGED cone
    /\ UNCHANGED <<conn, ack, success, gotCh, result, breaks>>

(* The symmetric side reads the message and answers,                       *)
SymAnswers(i) ==
    /\ sym[i] = "reading" /\ <<"sym", i>> \in ack
    /\ IF conn[i] = "up"
       THEN /\ ack' = (ack \ {<<"sym", i>>}) \cup {<<"cone", i>>}
            /\ sym' = [sym EXCEPT ![i] = "answered"]
       ELSE ack' = ack \ {<<"sym", i>>} /\ sym' = [sym EXCEPT ![i] = "ended"]
    /\ UNCHANGED <<conn, cone, success, gotCh, result, breaks>>

(* and takes the connection.                                               *)
SymTakes(i) ==
    /\ sym[i] = "answered" /\ sym' = [sym EXCEPT ![i] = "ended"]
    /\ success' = [success EXCEPT !["sym"] = TRUE]
    /\ gotCh' = IF success["sym"] THEN gotCh ELSE [gotCh EXCEPT !["sym"] = @ \cup {i}]
    /\ UNCHANGED <<conn, cone, ack, result, breaks>>

-----------------------------------------------------------------------------
Returns(s) ==
    /\ result[s] = NoConn
    /\ \E i \in gotCh[s] : result' = [result EXCEPT ![s] = i]
    /\ UNCHANGED <<conn, cone, sym, ack, success, gotCh, breaks>>

(* HandshakeTimeout, at any moment.                                        *)
TimesOut(s) ==
    /\ result[s] = NoConn /\ result' = [result EXCEPT ![s] = Error]
    /\ UNCHANGED <<conn, cone, sym, ack, success, gotCh, breaks>>

Breaks(i) ==
    /\ conn[i] = "up" /\ breaks < MaxBreaks /\ breaks' = breaks + 1
    /\ conn' = [conn EXCEPT ![i] = "down"]
    /\ UNCHANGED <<cone, sym, ack, success, gotCh, result>>

Step(i) ==
    \/ ConeTakes(i) \/ ConeCloses(i) \/ ConeReads(i) \/ ReadFails(i) \/ SymAnswers(i) \/ SymTakes(i)

Next ==
    \/ \E i \in Conns : Connects(i) \/ DialFails(i) \/ Step(i) \/ Breaks(i)
    \/ \E s \in Sides : Returns(s) \/ TimesOut(s)

Spec == Init /\ [][Next]_vars

-----------------------------------------------------------------------------
(* The two sides never go on with different connections, however many come *)
(* up, break or time out.                                                  *)
SameConn == \A i, j \in Conns : result["cone"] = i /\ result["sym"] = j => i = j
=============================================================================
