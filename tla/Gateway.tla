------------------------------- MODULE Gateway -------------------------------
(***************************************************************************)
(* The engine's connection to the OpenP2P gateway (p2pnetwork.go): run()   *)
(* owns reconnecting, and one websocket at a time serves a read loop, an   *)
(* autorunApp loop and a report goroutine.  Whoever notices a failure      *)
(* calls close(), which leaves at most one token in restartCh; run() takes *)
(* the token, waits for the goroutines of the old websocket (wgReconnect)  *)
(* and calls init().                                                       *)
(*                                                                         *)
(* A websocket is a member of Conns, reused once all its goroutines ended. *)
(* Faults of the environment are counted, so that a behaviour of Spec is   *)
(* eventually free of them.                                                *)
(***************************************************************************)
EXTENDS Naturals, Sequences

CONSTANTS
    Conns,      \* identities of websockets
    None,       \* no websocket yet
    Closers,    \* who calls close() besides the read loop: "writer", "report"
    MaxFaults,  \* how often the environment may misbehave
    MayStop     \* whether Stop may be called

VARIABLES
    shutdownCh, \* the channel is closed: Stop has been called
    running, online,
    conn,       \* pn.conn
    link,       \* state of every websocket
    restartCh,  \* buffered channel of length 1; the value is isRestartDelay
    run,        \* where run() is
    delay,      \* the isRestartDelay value run() took
    reader, auto, report, \* the goroutines started by init(), per websocket
    stop,       \* where shutdown() is
    uncounted,  \* history: run() went on before a spawned read loop was counted
    twice,      \* history: a failure was reported again after run() took the report
    faults

vars == <<shutdownCh, running, online, conn, link, restartCh, run, delay,
          reader, auto, report, stop, uncounted, twice, faults>>

history == <<uncounted, twice>>

(* The goroutines wgReconnect counts: each adds itself when it begins to   *)
(* run, not when it is spawned.                                            *)
Pending == {c \in Conns : reader[c] = "reading" \/ auto[c] = "running"}

WgZero == Pending = {} /\ run # "init"

Fault == faults < MaxFaults /\ faults' = faults + 1

(* The network is constructed running and its first init() is about to run. *)
Init ==
    /\ shutdownCh = FALSE /\ running = TRUE /\ online = FALSE
    /\ conn = None /\ link = [c \in Conns |-> "closed"]
    /\ restartCh = <<>> /\ run = "init" /\ delay = FALSE
    /\ reader = [c \in Conns |-> "none"]
    /\ auto = [c \in Conns |-> "none"]
    /\ report = [c \in Conns |-> "none"]
    /\ stop = "idle" /\ uncounted = FALSE /\ twice = FALSE /\ faults = 0

(* close(isRestartDelay): nothing once shut down; otherwise the websocket  *)
(* is closed if the network runs, and a token is left unless one is there. *)
Close(isRestartDelay) ==
    IF shutdownCh THEN UNCHANGED <<running, link, restartCh>>
    ELSE /\ running' = FALSE
         /\ link' = IF running /\ conn # None
                    THEN [link EXCEPT ![conn] = "closed"] ELSE link
         /\ restartCh' = IF restartCh = <<>> THEN <<isRestartDelay>> ELSE restartCh

-----------------------------------------------------------------------------
(* run(): the select statement and the restart branch.                     *)

RunTakeRestart ==
    /\ run = "select" /\ ~shutdownCh /\ restartCh # <<>>
    /\ delay' = Head(restartCh) /\ restartCh' = <<>>
    /\ online' = FALSE /\ run' = "wait"
    /\ UNCHANGED <<shutdownCh, running, conn, link, reader, auto, report, stop, faults, history>>

(* wgReconnect dropped to zero, which a read loop that was spawned and has *)
(* not begun does not prevent.                                             *)
RunWaitDone ==
    /\ run = "wait" /\ WgZero
    /\ run' = IF delay THEN "delay" ELSE "check"
    /\ uncounted' = (uncounted \/ \E c \in Conns : reader[c] = "spawned")
    /\ UNCHANGED <<shutdownCh, running, online, conn, link, restartCh, delay,
                   reader, auto, report, stop, twice, faults>>

(* Mutant: after the thirty seconds run() goes on all the same. *)
RunWaitTimeoutGoesOn ==
    /\ run = "wait" /\ ~WgZero
    /\ run' = IF shutdownCh THEN "exited" ELSE IF delay THEN "delay" ELSE "check"
    /\ UNCHANGED <<shutdownCh, running, online, conn, link, restartCh, delay,
                   reader, auto, report, stop, faults, history>>

(* Thirty seconds passed and some goroutine still has not ended.           *)
RunWaitTimeout ==
    /\ run = "wait" /\ ~WgZero
    /\ \/ shutdownCh /\ run' = "exited" /\ UNCHANGED restartCh
       \/ /\ ~shutdownCh /\ run' = "select"
          /\ restartCh' = IF restartCh = <<>> THEN <<delay>> ELSE restartCh
    /\ UNCHANGED <<shutdownCh, running, online, conn, link, delay,
                   reader, auto, report, stop, faults, history>>

RunDelayOver ==
    /\ run = "delay"
    /\ run' = "check"
    /\ UNCHANGED <<shutdownCh, running, online, conn, link, restartCh, delay,
                   reader, auto, report, stop, faults, history>>

(* The last look at shutdownCh before init(). *)
RunCheck ==
    /\ run = "check"
    /\ run' = IF shutdownCh THEN "exited" ELSE "init"
    /\ UNCHANGED <<shutdownCh, running, online, conn, link, restartCh, delay,
                   reader, auto, report, stop, faults, history>>

(* The select statement, and the delay, see shutdownCh closed.             *)
RunExit ==
    /\ shutdownCh /\ run \in {"select", "delay"}
    /\ run' = "exited"
    /\ UNCHANGED <<shutdownCh, running, online, conn, link, restartCh, delay,
                   reader, auto, report, stop, faults, history>>

(* DNS, NAT detection or the dial failed: init() closes with a delay.  So  *)
(* it does when the local address cannot be read, which is not told from a *)
(* dial that failed.                                                       *)
InitFails ==
    /\ run = "init" /\ Fault
    /\ Close(TRUE)
    /\ run' = "select"
    /\ UNCHANGED <<shutdownCh, online, conn, delay, reader, auto, report, stop, history>>

(* The dial succeeded: the network is running and online with a new        *)
(* websocket, whose three goroutines are spawned.  Nothing here looks at   *)
(* shutdownCh or at restartCh.                                             *)
InitSucceeds ==
    /\ run = "init" /\ run' = "select"
    /\ \E c \in Conns :
          /\ reader[c] = "none" /\ auto[c] = "none" /\ report[c] = "none"
          /\ running' = TRUE /\ online' = TRUE /\ conn' = c
          /\ link' = [link EXCEPT ![c] = "open"]
          /\ reader' = [reader EXCEPT ![c] = "spawned"]
          /\ auto' = [auto EXCEPT ![c] = "spawned"]
          /\ report' = [report EXCEPT ![c] = "waiting"]
    /\ twice' = (twice \/ restartCh # <<>>)
    /\ UNCHANGED <<shutdownCh, restartCh, delay, stop, uncounted, faults>>

-----------------------------------------------------------------------------
(* The goroutines of a websocket.                                          *)

(* readLoop and autorunApp begin: wgReconnect.Add(1).                      *)
ReaderStarts(c) ==
    /\ reader[c] = "spawned"
    /\ reader' = [reader EXCEPT ![c] = "reading"]
    /\ UNCHANGED <<shutdownCh, running, online, conn, link, restartCh, run, delay,
                   auto, report, stop, faults, history>>

AutorunStarts(c) ==
    /\ auto[c] = "spawned"
    /\ auto' = [auto EXCEPT ![c] = "running"]
    /\ UNCHANGED <<shutdownCh, running, online, conn, link, restartCh, run, delay,
                   reader, report, stop, faults, history>>

AutorunEnds(c) ==
    /\ auto[c] = "running" /\ ~(running /\ online)
    /\ auto' = [auto EXCEPT ![c] = "none"]
    /\ UNCHANGED <<shutdownCh, running, online, conn, link, restartCh, run, delay,
                   reader, report, stop, faults, history>>

(* ReadMessage failed, or nothing was read for the read timeout: without   *)
(* heartbeats, which write() refuses to send when offline, the gateway     *)
(* sends nothing.                                                          *)
ReadFails(c) ==
    /\ reader[c] = "reading" /\ (link[c] # "open" \/ ~online)
    /\ Close(FALSE)
    /\ reader' = [reader EXCEPT ![c] = "none"]
    /\ UNCHANGED <<shutdownCh, online, conn, run, delay, auto, report, stop, faults, history>>

(* A message was handled and the loop's condition is false.                *)
ReaderEnds(c) ==
    /\ reader[c] = "reading" /\ ~running
    /\ reader' = [reader EXCEPT ![c] = "none"]
    /\ UNCHANGED <<shutdownCh, running, online, conn, link, restartCh, run, delay,
                   auto, report, stop, faults, history>>

(* handleMessage, MsgLogin with an error: the network stops running, which *)
(* ends the read loop, and nobody is told.                                 *)
LoginRefused(c) ==
    /\ reader[c] = "reading" /\ link[c] = "open" /\ running /\ Fault
    /\ running' = FALSE
    /\ reader' = [reader EXCEPT ![c] = "none"]
    /\ UNCHANGED <<shutdownCh, online, conn, link, restartCh, run, delay,
                   auto, report, stop, history>>

(* handlePush, MsgPushRestart and MsgPushEditNode: the read loop itself    *)
(* closes, and then ends.                                                  *)
PushRestart(c) ==
    /\ reader[c] = "reading" /\ link[c] = "open" /\ running /\ Fault
    /\ Close(FALSE)
    /\ reader' = [reader EXCEPT ![c] = "none"]
    /\ UNCHANGED <<shutdownCh, online, conn, run, delay, auto, report, stop, history>>

(* The report goroutine got its answer, or gave up after two timeouts and  *)
(* closed whatever websocket is there by now.                              *)
ReportEnds(c) ==
    /\ report[c] = "waiting"
    /\ report' = [report EXCEPT ![c] = "none"]
    /\ \/ UNCHANGED <<running, link, restartCh, faults>>
       \/ "report" \in Closers /\ Fault /\ Close(TRUE)
    /\ UNCHANGED <<shutdownCh, online, conn, run, delay, reader, auto, stop, history>>

(* write() and push(), called by any goroutine: the write failed.          *)
WriteFails ==
    /\ "writer" \in Closers
    /\ online /\ conn # None /\ link[conn] # "open"
    /\ Close(FALSE)
    /\ UNCHANGED <<shutdownCh, online, conn, run, delay, reader, auto, report, stop, faults, history>>

(* The websocket breaks.                                                   *)
LinkBreaks ==
    /\ conn # None /\ link[conn] = "open" /\ Fault
    /\ link' = [link EXCEPT ![conn] = "broken"]
    /\ UNCHANGED <<shutdownCh, running, online, conn, restartCh, run, delay, reader,
                   auto, report, stop, history>>

(* Mutant: keepAlive only logs. *)
KeepAliveLogs ==
    /\ ~shutdownCh /\ run = "select" /\ restartCh = <<>> /\ conn # None
    /\ \A c \in Conns : reader[c] = "none"
    /\ UNCHANGED vars

(* keepAlive: no heartbeat for three heartbeat times, and the last init()  *)
(* is as old.  That long after, a read loop has noticed any failure and    *)
(* run() has taken any token, so what is left is a network without a       *)
(* reader that nobody restarts.                                            *)
KeepAlive ==
    /\ ~shutdownCh /\ run = "select" /\ restartCh = <<>> /\ conn # None
    /\ \A c \in Conns : reader[c] = "none"
    /\ Close(FALSE)
    /\ UNCHANGED <<shutdownCh, online, conn, run, delay, reader, auto, report, stop, faults, history>>

(* shutdown(): everything is told to end, then wgReconnect is waited for.  *)
ShutdownBegins ==
    /\ MayStop /\ stop = "idle" /\ conn # None
    /\ shutdownCh' = TRUE /\ running' = FALSE /\ online' = FALSE
    /\ link' = [link EXCEPT ![conn] = "closed"]
    /\ stop' = "waiting"
    /\ UNCHANGED <<conn, restartCh, run, delay, reader, auto, report, faults, history>>

ShutdownReturns ==
    /\ stop = "waiting" /\ WgZero
    /\ stop' = "done"
    /\ UNCHANGED <<shutdownCh, running, online, conn, link, restartCh, run, delay,
                   reader, auto, report, faults, history>>

-----------------------------------------------------------------------------
RunStep == RunTakeRestart \/ RunWaitDone \/ RunWaitTimeout \/ RunDelayOver
           \/ RunCheck \/ RunExit

ReaderStep(c) == ReaderStarts(c) \/ ReadFails(c) \/ ReaderEnds(c)

AutorunStep(c) == AutorunStarts(c) \/ AutorunEnds(c)

Next ==
    \/ RunStep \/ InitFails \/ InitSucceeds
    \/ \E c \in Conns : \/ ReaderStep(c) \/ AutorunStep(c) \/ ReportEnds(c)
                        \/ LoginRefused(c) \/ PushRestart(c)
    \/ WriteFails \/ LinkBreaks \/ KeepAlive
    \/ ShutdownBegins \/ ShutdownReturns

(* Every goroutine is scheduled.  A dial that is not refused by a fault    *)
(* succeeds, and a report goroutine ends within its two timeouts.  Nothing *)
(* is assumed of writers, of faults or of Stop.                            *)
Fairness ==
    /\ WF_vars(RunStep) /\ WF_vars(InitSucceeds) /\ WF_vars(KeepAlive)
    /\ WF_vars(ShutdownReturns)
    /\ \A c \in Conns : /\ WF_vars(ReaderStep(c)) /\ WF_vars(AutorunStep(c))
                        /\ WF_vars(ReportEnds(c))

Spec == Init /\ [][Next]_vars /\ Fairness

-----------------------------------------------------------------------------
(* The websocket in use has at most one read loop on it and no read loop   *)
(* of an earlier websocket survives a reconnect: gorilla's ReadMessage may *)
(* only be called by one goroutine, and readLoop reads pn.conn.  Whoever   *)
(* closes the websocket, and whenever; but for the read loop that had not  *)
(* counted itself when run() looked.                                       *)
OneReader ==
    \A c, d \in Conns : reader[c] # "none" /\ reader[d] # "none" /\ c # d => uncounted

(* Once the environment stops misbehaving the network comes back online    *)
(* and stays so: after a broken websocket, a failed init(), a failed       *)
(* report, a restart pushed by the gateway, and a refused login, which     *)
(* only keepAlive sees.  Two cases are out: a failure that was reported    *)
(* again after run() took the first report, whose second token restarts    *)
(* the new connection as well, and two read loops on one websocket.        *)
Reconnects == <>[](shutdownCh \/ twice \/ uncounted \/ (online /\ running))

(* After Stop the reconnect loop of run() ends whatever it was doing.      *)
RunEnds == shutdownCh ~> run = "exited"
=============================================================================
