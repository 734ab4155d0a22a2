------------------------------- MODULE MCNode -------------------------------
(***************************************************************************)
(* What a node lets through, for TLC: the relay of broadcasts (Discovery;  *)
(* "relay": two members, "window": a replay window that overflows, "rate": *)
(* the token buckets), the address of the management page (Management),    *)
(* the responses on standard output (Api) and the connections of the       *)
(* pairing server (PairServer).  They share no state: the initial state    *)
(* chooses one and only that one moves.                                    *)
(***************************************************************************)
EXTENDS Naturals, FiniteSets

CONSTANTS
    Members, Host, MaxClock,
    WindowSize, TTL,                         \* of "relay" and "window"
    MaxFrames, MaxReads,                     \* of "relay"
    WindowFrames, WindowReads,               \* of "window"
    RateFrames, RateReads,                   \* of "rate"
    Second, PacketRate, ByteRate, RoomRate,  \* of "rate"
    Callers, Addresses, Loopback, MaxCalls, MaxRestarts,
    Requests, Kinds, MaxState, MayBreak,
    Conns, MaxConcurrent, Nobody, Remover

(* There is a member, and the host is none; sizes, times and rates are     *)
(* numbers; the device has a loopback address; a request is not one of the *)
(* states of the loop that reads it; a lock is held by a connection, by    *)
(* RemoveMember or by nobody, and there are finitely many connections.     *)
ASSUME RelayAssumption == Members # {} /\ Host \notin Members /\ WindowSize \in Nat /\ TTL \in Nat
ASSUME RateAssumption == Second \in Nat /\ PacketRate \in Nat /\ ByteRate \in Nat
ASSUME AddressAssumption == Loopback \in Addresses
ASSUME RequestAssumption == Requests \cap {"read", "return", "returned"} = {}
ASSUME LockAssumption ==
    IsFiniteSet(Conns) /\ MaxConcurrent \in Nat /\ {Nobody, Remover} \cap Conns = {} /\ Nobody # Remover

VARIABLES
    part,
    clock, online, epoch, sequence, net, frames, inbox, remote, local, replay,
    memberLim, roomLimit, reads, accepts, passed, got,
    settings, allowed, currentAddress, main, address, waiting, rebind, command, calls, restarts, alone, doubt,
    kind, input, sent, closed, phase, reader, out, broken, state, reported, ticking, services, stop,
    conn, slots, deadline, cut, registered, owners, known, roomLock, writeMu, target,
    running, listening, closing

relayVars == <<clock, online, epoch, sequence, net, frames, inbox, remote, local, replay,
               memberLim, roomLimit, reads, accepts, passed, got>>
pageVars == <<settings, allowed, currentAddress, main, address, waiting, rebind, command,
              calls, restarts, alone, doubt>>
apiVars == <<kind, input, sent, closed, phase, reader, out, broken, state, reported,
             ticking, services, stop>>
pairVars == <<conn, slots, deadline, cut, registered, owners, known, roomLock, writeMu,
              target, running, listening, closing>>

Member == CHOOSE m \in Members : TRUE

Relay == INSTANCE Discovery
           WITH Sizes <- {1}, Second <- 2, PacketRate <- 9, ByteRate <- 9, RoomRate <- 20,
                QueueSize <- 1, MayRejoin <- TRUE
Window == INSTANCE Discovery
            WITH Members <- {Member}, Sizes <- {1}, Second <- 2, PacketRate <- 9,
                 ByteRate <- 9, RoomRate <- 20, QueueSize <- 1,
                 MaxFrames <- WindowFrames, MaxReads <- WindowReads, MayRejoin <- FALSE
Rate == INSTANCE Discovery
          WITH Members <- {Member}, Sizes <- {1, 2}, WindowSize <- 9, TTL <- 1, QueueSize <- 1,
               MaxFrames <- RateFrames, MaxReads <- RateReads, MayRejoin <- FALSE
Page == INSTANCE Management
          WITH file <- settings, call <- command
Stdio == INSTANCE Api
           WITH Transport <- "stdio", None <- "none"
Pair == INSTANCE PairServer

Init ==
    /\ part \in {"relay", "window", "rate", "page", "stdio", "pair"}
    /\ IF part = "window" THEN Window!Init
       ELSE IF part = "rate" THEN Rate!Init ELSE Relay!Init
    /\ Page!Init
    /\ Stdio!Init /\ Pair!Init
    /\ part # "stdio" => kind = [r \in Requests |-> CHOOSE k \in Kinds : TRUE]

Next ==
    \/ part = "relay" /\ Relay!Next /\ UNCHANGED <<part, pageVars, apiVars, pairVars>>
    \/ part = "window" /\ Window!Next /\ UNCHANGED <<part, pageVars, apiVars, pairVars>>
    \/ part = "rate" /\ Rate!Next /\ UNCHANGED <<part, pageVars, apiVars, pairVars>>
    \/ part = "page" /\ Page!Next /\ UNCHANGED <<part, relayVars, apiVars, pairVars>>
    \/ part = "stdio" /\ Stdio!Next /\ UNCHANGED <<part, relayVars, pageVars, pairVars>>
    \/ part = "pair" /\ Pair!Next /\ UNCHANGED <<part, relayVars, pageVars, apiVars>>

Spec == Init /\ [][Next]_<<part, relayVars, pageVars, apiVars, pairVars>>

(* A frame is taken twice only when more than TTL has passed, or when as   *)
(* many frames as the window holds came with it or after it; no member     *)
(* gets its own.                                                           *)
NoReplay ==
    /\ part = "relay" => Relay!NoReplay
    /\ part = "window" => Window!NoReplay

(* What the limits let through of one sender stays within its two buckets, *)
(* however its packets are spread over time.                               *)
MemberRate == part = "rate" => Rate!MemberRate

(* When nothing is under way, a browser on this device is let in at the    *)
(* address the page is served at, which is the saved or the loopback one,  *)
(* unless, since the last command that set it right, a command began       *)
(* before its predecessor was done, or one failed half way.                *)
NoLockout == Page!NoLockout

(* The responses to what the loop of stdio dispatches come in the order of *)
(* the requests, whatever joins and events come between, none twice.       *)
CommandsInOrder == part = "stdio" => Stdio!CommandsInOrder

(* Slots, device entries and the two locks of the pairing server are held  *)
(* only by who still needs them, and Close leaves nothing behind.          *)
SlotsAndLocks == part = "pair" => Pair!SlotsAndLocks
=============================================================================
