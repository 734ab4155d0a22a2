----------------------------- MODULE NodeProofs -----------------------------
(***************************************************************************)
(* The safety invariants of MCNode, for every set of members, window, rate *)
(* and set of addresses: a frame is not taken twice, what the limits let   *)
(* through of a sender fits its buckets, the page does not lock its own    *)
(* device out, commands are answered in order, and the pairing server's    *)
(* slots and locks are returned.  The parts of MCNode share no state, so   *)
(* the inductive invariant has one conjunct per part.                      *)
(***************************************************************************)
EXTENDS MCNode, Integers, FiniteSets, Sequences, FiniteSetTheorems, TLAPS

-----------------------------------------------------------------------------
(* Management: commands that come alone leave the page where it can be     *)
(* reached; of the others nothing is said but that loopback is let in.     *)
Doubts == {"list", "address"}

(* The page can be served at a, and be reached there, as far as no doubt   *)
(* is left.                                                                *)
Listed(a) == "list" \notin doubt => a \in allowed
Saved(a) == "address" \notin doubt => a \in {settings.address, Loopback}

NobodyWaits == rebind = << >> /\ \A a \in Addresses : waiting[a] = 0
NobodyCalls == \A c \in Callers : command[c].step = "idle"

(* The variables are functions and records of their types, and Loopback is *)
(* let in, now and by whatever list is about to be published.              *)
PageTypes ==
    /\ settings = [address |-> settings.address, allowed |-> settings.allowed]
    /\ command = [c \in Callers |-> command[c]]
    /\ \A c \in Callers :
          /\ command[c] = [step |-> command[c].step, address |-> command[c].address, values |-> command[c].values]
          /\ command[c].step \in {"publish", "allow"} => Loopback \in command[c].values
    /\ waiting \in [Addresses -> Nat] /\ Loopback \in allowed /\ alone \in BOOLEAN
    /\ doubt \subseteq Doubts

(* The only command is under way, nothing else moves, and what it is about *)
(* to publish lets in the address the page will be at.                     *)
Commanding(c) ==
    /\ Page!Quiet /\ \A d \in Callers : d # c => command[d].step = "idle"
    /\ command[c].step \in {"access", "publish"} =>
          command[c].address = settings.address /\ command[c].address \in Addresses
    /\ command[c].step = "access" => Listed(currentAddress)
    /\ command[c].step = "publish" => {settings.address, Loopback} \subseteq command[c].values
    /\ command[c].step = "allow" => {currentAddress, Loopback} \subseteq command[c].values /\ Saved(currentAddress)
    /\ command[c].step \in {"access", "publish", "allow"}

(* An address is on its way to the loop: it is the saved one.              *)
Moving ==
    /\ NobodyCalls /\ main = "serve" /\ settings.address \in allowed
    /\ \/ rebind = << >> /\ \E a \in Addresses :
              /\ a = settings.address /\ waiting[a] = 1
              /\ \A b \in Addresses : b # a => waiting[b] = 0
       \/ rebind = <<settings.address>> /\ \A a \in Addresses : waiting[a] = 0

(* Where the page and its only command are.                                *)
Resting == NobodyCalls /\ Page!Quiet /\ Listed(currentAddress) /\ Saved(currentAddress)
Listening == NobodyCalls /\ NobodyWaits /\ main = "listen" /\ Listed(address) /\ Saved(address)
Course == Resting \/ (\E c \in Callers : Commanding(c)) \/ Moving \/ Listening

(* The inductive invariant of "page".                                      *)
PageInv ==
    /\ PageTypes
    /\ ~alone => doubt = Doubts
    /\ alone => Course

(* A command that begins at rest is the only one.                          *)
LEMMA BeginKeeps ==
    ASSUME PageInv, NEW c \in Callers, Page!SetManagement(c) \/ Page!SetAllowedIPs(c)
    PROVE  PageInv'
<1>1. CASE ~Page!AtRest
  <2>1. alone' = FALSE /\ doubt' = Doubts
    BY <1>1 DEF Page!SetManagement, Page!SetAllowedIPs, Page!Begin, Doubts
  <2>2. PICK step, a, values :
           /\ step \in {"access", "allow"}
           /\ command' = [command EXCEPT ![c] = [step |-> step, address |-> a, values |-> values]]
           /\ step = "allow" => Loopback \in values
    BY DEF Page!SetManagement, Page!SetAllowedIPs, Page!Begin, Page!normalizeAllowed
  <2>3. /\ command'[c] = [step |-> step, address |-> a, values |-> values]
        /\ \A d \in Callers : d # c => command'[d] = command[d]
        /\ command' = [d \in Callers |-> command'[d]]
    BY <2>2 DEF PageInv, PageTypes
  <2>4. UNCHANGED <<waiting, allowed>> /\ settings' = [address |-> settings'.address, allowed |-> settings'.allowed]
    BY DEF Page!SetManagement, Page!SetAllowedIPs, PageInv, PageTypes
  <2> QED
    BY <2>1, <2>2, <2>3, <2>4 DEF PageInv, PageTypes
<1>2. CASE Page!AtRest
  <2>0. Page!Quiet /\ NobodyCalls /\ alone' = TRUE /\ doubt' = doubt
    BY <1>2 DEF Page!AtRest, NobodyCalls, Page!SetManagement, Page!SetAllowedIPs, Page!Begin
  <2>1. Listed(currentAddress) /\ Saved(currentAddress)
    <3>1. CASE ~alone
      BY <3>1 DEF PageInv, Doubts, Listed, Saved
    <3>2. CASE alone
      BY <2>0, <3>2 DEF PageInv, Course, Resting, Commanding, Moving, Listening, NobodyCalls, Page!Quiet
    <3> QED
      BY <3>1, <3>2
  <2>2. CASE Page!SetManagement(c)
    <3>1. PICK b \in Addresses : Page!Begin(c, "access", b, {}) /\ settings' = [settings EXCEPT !.address = b]
      BY <2>2 DEF Page!SetManagement
    <3>2. command' = [command EXCEPT ![c] = [step |-> "access", address |-> b, values |-> {}]]
      BY <3>1 DEF Page!Begin
    <3>3. command'[c] = [step |-> "access", address |-> b, values |-> {}] /\ settings'.address = b
      BY <3>1, <3>2 DEF PageInv, PageTypes
    <3>4. \A d \in Callers : d # c => command'[d] = command[d]
      BY <3>2 DEF PageInv, PageTypes
    <3>5. PageTypes'
      BY <2>0, <2>2, <3>1, <3>2, <3>3, <3>4 DEF PageInv, PageTypes, Page!SetManagement
    <3>6. Commanding(c)'
      BY <2>0, <2>1, <2>2, <3>3, <3>4 DEF Commanding, Page!SetManagement, Page!Quiet, NobodyCalls, Listed
    <3> QED
      BY <2>0, <3>5, <3>6 DEF PageInv, Course
  <2>3. CASE Page!SetAllowedIPs(c)
    <3>1. PICK vs \in SUBSET Addresses :
              /\ Page!Begin(c, "allow", Loopback, Page!normalizeAllowed(vs, currentAddress))
              /\ settings' = [settings EXCEPT !.allowed = Page!normalizeAllowed(vs, currentAddress)]
      BY <2>3 DEF Page!SetAllowedIPs
    <3>2. command' = [command EXCEPT ![c] = [step |-> "allow", address |-> Loopback,
                                             values |-> Page!normalizeAllowed(vs, currentAddress)]]
      BY <3>1 DEF Page!Begin
    <3>3. /\ command'[c] = [step |-> "allow", address |-> Loopback,
                            values |-> Page!normalizeAllowed(vs, currentAddress)]
          /\ settings'.address = settings.address
      BY <3>1, <3>2 DEF PageInv, PageTypes
    <3>4. \A d \in Callers : d # c => command'[d] = command[d]
      BY <3>2 DEF PageInv, PageTypes
    <3>5. {currentAddress, Loopback} \subseteq Page!normalizeAllowed(vs, currentAddress)
      BY DEF Page!normalizeAllowed
    <3>6. PageTypes'
      BY <2>0, <2>3, <3>1, <3>2, <3>3, <3>4, <3>5 DEF PageInv, PageTypes, Page!SetAllowedIPs
    <3>7. Commanding(c)'
      BY <2>0, <2>1, <2>3, <3>3, <3>4, <3>5 DEF Commanding, Page!SetAllowedIPs, Page!Quiet, NobodyCalls, Saved
    <3> QED
      BY <2>0, <3>6, <3>7 DEF PageInv, Course
  <2> QED
    BY <2>2, <2>3
<1> QED
  BY <1>1, <1>2

(* A command that reads the access list goes on with it, or fails.         *)
LEMMA AccessKeeps ==
    ASSUME PageInv, NEW c \in Callers, Page!ReadAccess(c)
    PROVE  PageInv'
<1>0. /\ command[c].step = "access" /\ alone' = alone
      /\ UNCHANGED <<settings, allowed, currentAddress, main, address, waiting, rebind>>
  BY DEF Page!ReadAccess
<1>1. alone => Commanding(c)
  BY <1>0 DEF PageInv, Course, Resting, Commanding, Moving, Listening, NobodyCalls
<1> DEFINE ips == Page!AllowedIPs(command[c].address)
<1>2. {command[c].address, Loopback} \subseteq ips
  BY DEF Page!AllowedIPs, Page!normalizeAllowed
<1> HIDE DEF ips
<1>3. CASE command' = [command EXCEPT ![c].step = "publish", ![c].values = ips] /\ doubt' = doubt
  <2>0. /\ command = [d \in Callers |-> command[d]]
        /\ command[c] = [step |-> command[c].step, address |-> command[c].address, values |-> command[c].values]
    BY DEF PageInv, PageTypes
  <2>1. command'[c] = [command[c] EXCEPT !.step = "publish", !.values = ips]
    BY <1>3, <2>0
  <2>2. /\ command'[c] = [step |-> "publish", address |-> command[c].address, values |-> ips]
        /\ command' = [d \in Callers |-> command'[d]]
        /\ \A d \in Callers : d # c => command'[d] = command[d]
    BY <1>3, <2>0, <2>1
  <2>3. PageTypes'
    BY <1>0, <1>2, <1>3, <2>2 DEF PageInv, PageTypes
  <2>4. alone => Commanding(c)'
    BY <1>0, <1>1, <1>2, <2>2 DEF Commanding, Page!Quiet
  <2> QED
    BY <1>0, <1>3, <2>3, <2>4 DEF PageInv, Course
<1>4. CASE command' = [command EXCEPT ![c] = Page!Idle] /\ doubt' = doubt \cup {"address"}
  <2>1. /\ command'[c] = Page!Idle /\ command' = [d \in Callers |-> command'[d]]
        /\ \A d \in Callers : d # c => command'[d] = command[d]
    BY <1>4 DEF PageInv, PageTypes
  <2>2. PageTypes' /\ (~alone' => doubt' = Doubts)
    BY <1>0, <1>4, <2>1 DEF PageInv, PageTypes, Page!Idle, Doubts
  <2>3. alone => Resting'
    BY <1>0, <1>1, <1>4, <2>1 DEF Resting, Commanding, NobodyCalls, Page!Quiet, Page!Idle, Listed, Saved
  <2> QED
    BY <1>0, <2>2, <2>3 DEF PageInv, Course
<1> QED
  BY <1>3, <1>4 DEF Page!ReadAccess, ips

(* A command publishes its list: it lets in the address the page is at, or *)
(* the one it will be at.                                                  *)
LEMMA PublishKeeps ==
    ASSUME PageInv, NEW c \in Callers, Page!Publish(c) \/ Page!PublishAllowed(c)
    PROVE  PageInv'
<1>0. /\ command[c].step \in {"publish", "allow"} /\ alone' = alone /\ allowed' = command[c].values
      /\ command' = [command EXCEPT ![c] = Page!Idle]
      /\ UNCHANGED <<settings, currentAddress, main, address, rebind>>
  BY DEF Page!Publish, Page!PublishAllowed
<1>1. alone => Commanding(c)
  BY <1>0 DEF PageInv, Course, Resting, Commanding, Moving, Listening, NobodyCalls
<1>2. /\ command'[c] = Page!Idle /\ command' = [d \in Callers |-> command'[d]]
      /\ \A d \in Callers : d # c => command'[d] = command[d]
  BY <1>0 DEF PageInv, PageTypes
<1>3. alone => NobodyCalls'
  BY <1>1, <1>2 DEF NobodyCalls, Commanding, Page!Idle
<1>4. ASSUME waiting' \in [Addresses -> Nat], doubt' \subseteq Doubts
      PROVE  PageTypes'
  BY <1>0, <1>2, <1>4 DEF PageInv, PageTypes, Page!Idle
<1>5. CASE Page!Publish(c) /\ UNCHANGED waiting /\ doubt' = {"list", "address"}
  <2>1. PageTypes'
    BY <1>4, <1>5 DEF PageInv, PageTypes, Doubts
  <2>2. alone => Resting'
    BY <1>0, <1>1, <1>3, <1>5 DEF Resting, Commanding, Page!Quiet, Listed, Saved
  <2> QED
    BY <1>0, <1>5, <2>1, <2>2 DEF PageInv, Course, Doubts
<1>6. CASE /\ Page!Publish(c) /\ waiting' = [waiting EXCEPT ![command[c].address] = @ + 1]
           /\ doubt' = IF alone THEN {} ELSE doubt
  <2>0. command[c].step = "publish"
    BY <1>6 DEF Page!Publish
  <2>1. waiting' \in [Addresses -> Nat]
    <3> DEFINE x == command[c].address
    <3>1. waiting \in [Addresses -> Nat] /\ waiting' = [waiting EXCEPT ![x] = @ + 1]
      BY <1>6 DEF PageInv, PageTypes
    <3> HIDE DEF x
    <3>2. CASE x \in Addresses
      BY <3>1, <3>2
    <3>3. CASE x \notin Addresses
      BY <3>1, <3>3
    <3> QED
      BY <3>2, <3>3
  <2>2. PageTypes'
    BY <1>4, <1>6, <2>1 DEF PageInv, PageTypes
  <2>3. ASSUME alone PROVE Moving'
    <3>1. /\ settings.address \in Addresses /\ settings.address \in allowed' /\ command[c].address = settings.address
          /\ main = "serve" /\ rebind = << >> /\ \A a \in Addresses : waiting[a] = 0
      BY <1>0, <1>1, <2>0, <2>3 DEF Commanding, Page!Quiet
    <3>2. waiting'[settings.address] = 1 /\ \A b \in Addresses : b # settings.address => waiting'[b] = 0
      BY <1>6, <3>1 DEF PageInv, PageTypes
    <3> QED
      BY <1>0, <1>3, <2>3, <3>1, <3>2 DEF Moving
  <2> QED
    BY <1>0, <1>6, <2>2, <2>3 DEF PageInv, Course
<1>7. CASE Page!PublishAllowed(c)
  <2>0. /\ command[c].step = "allow" /\ UNCHANGED waiting
        /\ doubt' = IF alone THEN doubt \ {"list"} ELSE doubt
    BY <1>7 DEF Page!PublishAllowed
  <2>1. PageTypes'
    BY <1>4, <2>0 DEF PageInv, PageTypes
  <2>2. alone => Resting'
    BY <1>0, <1>1, <1>3, <2>0 DEF Resting, Commanding, Page!Quiet, Listed, Saved
  <2> QED
    BY <1>0, <2>0, <2>1, <2>2 DEF PageInv, Course
<1> QED
  BY <1>5, <1>6, <1>7 DEF Page!Publish

(* An address is sent to the loop, which takes it and listens.             *)
LEMMA ServerKeeps ==
    ASSUME PageInv, Page!Server \/ Page!ListenFails
    PROVE  PageInv'
<1>0. UNCHANGED <<allowed, command, alone, doubt>>
  BY DEF Page!Server, Page!Listen, Page!Rebind, Page!Send, Page!ListenFails, Page!history
<1>1. ASSUME NEW a \in Addresses, Page!Send(a)
      PROVE  PageInv'
  <2>1. waiting[a] > 0 /\ UNCHANGED <<settings, main>> /\ waiting' = [waiting EXCEPT ![a] = @ - 1]
    BY <1>1 DEF Page!Send
  <2>2. waiting' \in [Addresses -> Nat]
    BY <2>1 DEF PageInv, PageTypes
  <2>3. PageTypes'
    BY <1>0, <2>1, <2>2 DEF PageInv, PageTypes
  <2>4. ASSUME alone PROVE Moving'
    <3>1. Moving /\ rebind = << >> /\ a = settings.address /\ waiting[a] = 1
      BY <2>1, <2>4 DEF PageInv, Course, Resting, Commanding, Page!Quiet, Moving, Listening, NobodyWaits
    <3>2. rebind' = <<a>> /\ \A b \in Addresses : waiting'[b] = 0
      BY <1>1, <2>1, <3>1 DEF Page!Send, Moving, PageInv, PageTypes
    <3> QED
      BY <1>0, <2>1, <3>1, <3>2 DEF Moving, NobodyCalls
  <2> QED
    BY <1>0, <2>3, <2>4 DEF PageInv, Course
<1>2. ASSUME Page!Rebind
      PROVE  PageInv'
  <2>1. /\ rebind # << >> /\ address' = Head(rebind) /\ rebind' = Tail(rebind) /\ main' = "listen"
        /\ UNCHANGED <<settings, waiting>>
    BY <1>2 DEF Page!Rebind
  <2>2. PageTypes'
    BY <1>0, <2>1 DEF PageInv, PageTypes
  <2>3. ASSUME alone PROVE Listening'
    <3>1. Moving /\ rebind = <<settings.address>> /\ \A a \in Addresses : waiting[a] = 0
      BY <2>1, <2>3 DEF PageInv, Course, Resting, Commanding, Page!Quiet, Moving, Listening, NobodyWaits
    <3>2. address' = settings.address /\ rebind' = << >>
      BY <2>1, <3>1
    <3> QED
      BY <1>0, <2>1, <3>1, <3>2 DEF Listening, Moving, NobodyCalls, NobodyWaits, Listed, Saved
  <2> QED
    BY <1>0, <2>2, <2>3 DEF PageInv, Course
<1>3. ASSUME Page!Listen
      PROVE  PageInv'
  <2>1. UNCHANGED <<settings, waiting, rebind>> /\ main = "listen" /\ main' = "serve" /\ currentAddress' = address
    BY <1>3 DEF Page!Listen
  <2>2. PageTypes'
    BY <1>0, <2>1 DEF PageInv, PageTypes
  <2>3. alone => Resting'
    BY <1>0, <2>1 DEF PageInv, Course, Resting, Commanding, Page!Quiet, Moving, Listening, NobodyWaits, NobodyCalls,
                      Listed, Saved
  <2> QED
    BY <1>0, <2>2, <2>3 DEF PageInv, Course
<1>4. ASSUME Page!ListenFails
      PROVE  PageInv'
  <2>1. /\ UNCHANGED <<waiting, rebind, main>> /\ main = "listen" /\ address' = Loopback
        /\ settings' = [settings EXCEPT !.address = Loopback] \/ UNCHANGED settings
    BY <1>4 DEF Page!ListenFails
  <2>2. PageTypes'
    BY <1>0, <2>1 DEF PageInv, PageTypes
  <2>3. alone => Listening'
    BY <1>0, <2>1 DEF PageInv, PageTypes, Course, Resting, Commanding, Page!Quiet, Moving, Listening, NobodyWaits,
                      NobodyCalls, Listed, Saved
  <2> QED
    BY <1>0, <2>2, <2>3 DEF PageInv, Course
<1> QED
  BY <1>1, <1>2, <1>3, <1>4 DEF Page!Server

(* The process starts again with an address that its access list lets in.  *)
LEMMA RestartKeeps ==
    ASSUME PageInv, Page!Restart
    PROVE  PageInv'
<1>1. PICK a \in {settings.address, Loopback} : address' = a /\ allowed' = Page!AllowedIPs(a)
  BY DEF Page!Restart
<1>2. {a, Loopback} \subseteq Page!AllowedIPs(a)
  BY DEF Page!AllowedIPs, Page!normalizeAllowed
<1>3. /\ alone' = TRUE /\ doubt' = {} /\ main' = "listen" /\ rebind' = << >> /\ settings' = settings
      /\ waiting' = [x \in Addresses |-> 0] /\ command' = [c \in Callers |-> Page!Idle]
  BY DEF Page!Restart
<1>4. Listening'
  BY <1>1, <1>2, <1>3 DEF Listening, NobodyCalls, NobodyWaits, Listed, Saved, Page!Idle
<1>5. PageTypes'
  BY <1>1, <1>2, <1>3 DEF PageInv, PageTypes, Page!Idle
<1> QED
  BY <1>3, <1>4, <1>5 DEF PageInv, Course

(* At the start the page is about to listen on the loopback address.       *)
LEMMA PageInit == Page!Init => PageInv
<1> SUFFICES ASSUME Page!Init PROVE PageInv
  OBVIOUS
<1>1. \A c \in Callers : command[c] = Page!Idle
  BY DEF Page!Init
<1>2. waiting \in [Addresses -> Nat] /\ settings = [address |-> Loopback, allowed |-> {}]
  BY DEF Page!Init
<1>3. PageTypes
  BY <1>1, <1>2, AddressAssumption DEF Page!Init, Page!Idle, PageTypes
<1>4. Listening
  BY <1>1, <1>2, AddressAssumption DEF Page!Init, Page!Idle, Listening, NobodyCalls, NobodyWaits, Listed, Saved
<1> QED
  BY <1>3, <1>4 DEF Page!Init, PageInv, Course

(* Every step of "page" keeps the invariant,                               *)
LEMMA PageNext ==
    ASSUME PageInv, Page!Next
    PROVE  PageInv'
BY BeginKeeps, AccessKeeps, PublishKeeps, ServerKeeps, RestartKeeps DEF Page!Next, Page!Command

(* which says that the page can be reached.                                *)
LEMMA PageHolds == PageInv => Page!NoLockout
<1> SUFFICES ASSUME PageInv, Page!AtRest
             PROVE  Listed(currentAddress) /\ Saved(currentAddress)
  BY DEF Page!NoLockout, Listed, Saved
<1>1. CASE ~alone
  BY <1>1 DEF PageInv, Doubts, Listed, Saved
<1>2. CASE alone
  BY <1>2 DEF PageInv, Course, Resting, Commanding, Moving, Listening, NobodyCalls, Page!AtRest, Page!Quiet
<1> QED
  BY <1>1, <1>2

-----------------------------------------------------------------------------
(* Discovery: the replay window.  What a receiver took is a sequence T of  *)
(* frames with their times, its window a set W of entries.                 *)

(* The entry of a frame that was taken.                                    *)
Entry(f, now) == [sender |-> f.sender, seq |-> f.seq, seen |-> now]
EntryOf(T) == [k \in 1 .. Len(T) |-> Entry(T[k].frame, T[k].now)]

(* What was taken up to the n-th frame, with the i-th one or after it.     *)
Since(T, n, i) == {k \in 1 .. n : k # i /\ T[k].now >= T[i].now}

(* The window has lost the i-th frame for a reason: its time has passed,   *)
(* or as many others came as the window holds.                             *)
Forgotten(T, n, i) == T[n].now - T[i].now > TTL \/ Cardinality(Since(T, n, i)) >= WindowSize

(* What the window does with a frame: entries expire, one of the oldest    *)
(* goes when it is full, the frame's is added.                             *)
LiveIn(W, now) == {e \in W : e.seen >= now - TTL}
Unseen(W, f, now) == \A e \in LiveIn(W, now) : ~(e.sender = f.sender /\ e.seq = f.seq)
Survives(W, now, w) ==
    \/ w = LiveIn(W, now)
    \/ /\ ~(Cardinality(LiveIn(W, now)) < WindowSize)
       /\ \E o \in LiveIn(W, now) : (\A x \in LiveIn(W, now) : o.seen <= x.seen) /\ w = LiveIn(W, now) \ {o}
TakenInto(W, f, now, V) == \E w : Survives(W, now, w) /\ V = w \cup {Entry(f, now)}

(* The inductive invariant of one receiver.  Times do not go back; every   *)
(* entry is of a frame that was taken; every frame that was taken has its  *)
(* entry or was forgotten for a reason, so it is not taken again before.   *)
Ordered(T) ==
    /\ \E S : T \in Seq(S)
    /\ \A i \in 1 .. Len(T) : T[i].now \in Nat
    /\ \A i, j \in 1 .. Len(T) : i <= j => T[i].now <= T[j].now
Recorded(T, W) == \A e \in W : \E k \in 1 .. Len(T) : e = EntryOf(T)[k]
Remembered(T, W) == \A i \in 1 .. Len(T) : EntryOf(T)[i] \in W \/ Forgotten(T, Len(T), i)
OnceOnly(T) ==
    \A i, j \in 1 .. Len(T) : (i < j /\ T[i].frame = T[j].frame) =>
        \/ T[j].now - T[i].now > TTL
        \/ Cardinality(Since(T, j - 1, i)) >= WindowSize
Kept(T, W) == Ordered(T) /\ Recorded(T, W) /\ Remembered(T, W) /\ OnceOnly(T)

(* A set of values of a function on a finite set is not larger than it.    *)
LEMMA ValuesBounded ==
    ASSUME NEW K, IsFiniteSet(K), NEW g, NEW X, \A x \in X : \E k \in K : x = g[k]
    PROVE  IsFiniteSet(X) /\ Cardinality(X) <= Cardinality(K)
<1> DEFINE L == {k \in K : g[k] \in X}
<1> DEFINE f == [k \in L |-> g[k]]
<1>1. f \in [L -> X] /\ \A x \in X : \E k \in L : f[k] = x
  OBVIOUS
<1>2. f \in Surjection(L, X)
  BY <1>1 DEF Surjection
<1>3. IsFiniteSet(L) /\ Cardinality(L) <= Cardinality(K)
  BY FS_Subset
<1> HIDE DEF L, f
<1>4. IsFiniteSet(X) /\ Cardinality(X) <= Cardinality(L)
  BY <1>2, <1>3, FS_Surjection
<1>5. Cardinality(X) \in Nat /\ Cardinality(L) \in Nat /\ Cardinality(K) \in Nat
  BY <1>3, <1>4, FS_CardinalityType
<1> QED
  BY <1>3, <1>4, <1>5

(* The frames since the i-th one are finitely many, and grow with n.       *)
LEMMA SinceGrows ==
    ASSUME NEW T, NEW U, NEW n \in Nat, NEW m \in Nat, n <= m, NEW i \in 1 .. n,
           \A k \in 1 .. n : U[k] = T[k]
    PROVE  /\ IsFiniteSet(Since(T, n, i)) /\ Cardinality(Since(T, n, i)) \in Nat
           /\ Since(T, n, i) \subseteq Since(U, m, i)
           /\ Cardinality(Since(T, n, i)) <= Cardinality(Since(U, m, i))
           /\ Cardinality(Since(U, m, i)) \in Nat
<1>1. IsFiniteSet(1 .. n) /\ IsFiniteSet(1 .. m)
  BY FS_Interval
<1>2. Since(T, n, i) \subseteq 1 .. n /\ Since(U, m, i) \subseteq 1 .. m
  BY DEF Since
<1>3. Since(T, n, i) \subseteq Since(U, m, i)
  BY DEF Since
<1>4. IsFiniteSet(Since(T, n, i)) /\ IsFiniteSet(Since(U, m, i))
  BY <1>1, <1>2, FS_Subset
<1>5. Cardinality(Since(T, n, i)) <= Cardinality(Since(U, m, i))
  BY <1>3, <1>4, FS_Subset
<1> QED
  BY <1>3, <1>4, <1>5, FS_CardinalityType

(* An entry that is pushed out of a full window: the others in the window, *)
(* and the new frame, are as many frames as the window holds.              *)
LEMMA PushedOut ==
    ASSUME NEW T, NEW W, Ordered(T), Recorded(T, W), NEW now \in Nat,
           NEW U, Len(U) = Len(T) + 1, \A k \in 1 .. Len(T) : U[k] = T[k],
           U[Len(U)].now = now, \A i \in 1 .. Len(T) : T[i].now <= now,
           NEW i \in 1 .. Len(T), EntryOf(T)[i] \in LiveIn(W, now),
           \A x \in LiveIn(W, now) : EntryOf(T)[i].seen <= x.seen,
           ~(Cardinality(LiveIn(W, now)) < WindowSize)
    PROVE  Cardinality(Since(U, Len(U), i)) >= WindowSize
<1> DEFINE n == Len(T)
<1> DEFINE L == LiveIn(W, now)
<1> DEFINE o == EntryOf(T)[i]
<1> DEFINE before == Since(T, n, i)
<1> DEFINE after == Since(U, n + 1, i)
<1>0. n \in Nat /\ Len(U) = n + 1
  BY DEF Ordered
<1>1. IsFiniteSet(before) /\ Cardinality(before) \in Nat
  BY <1>0, SinceGrows
<1>2. after = before \cup {n + 1} /\ n + 1 \notin before
  BY <1>0 DEF Since, Ordered
<1>3. Cardinality(after) = Cardinality(before) + 1
  BY <1>1, <1>2, FS_AddElement
<1>4. \A x \in L \ {o} : \E k \in before : x = EntryOf(T)[k]
  <2> SUFFICES ASSUME NEW x \in L, x # o
               PROVE  \E k \in before : x = EntryOf(T)[k]
    OBVIOUS
  <2>1. PICK k \in 1 .. n : x = EntryOf(T)[k]
    BY DEF LiveIn, Recorded
  <2>2. x.seen = T[k].now /\ o.seen = T[i].now
    BY <2>1 DEF EntryOf, Entry
  <2> QED
    BY <2>1, <2>2 DEF Since, Ordered
<1>5. IsFiniteSet(L \ {o}) /\ Cardinality(L \ {o}) <= Cardinality(before)
  <2> HIDE DEF L, o, before
  <2> QED
    BY <1>1, <1>4, ValuesBounded
<1>6. L = (L \ {o}) \cup {o}
  OBVIOUS
<1>7. Cardinality(L) = Cardinality(L \ {o}) + 1 /\ Cardinality(L \ {o}) \in Nat
  <2> HIDE DEF L, o
  <2> QED
    BY <1>5, <1>6, FS_AddElement, FS_CardinalityType
<1> HIDE DEF L, o, before, after
<1>8. Cardinality(after) >= WindowSize
  BY <1>1, <1>3, <1>5, <1>7, RelayAssumption DEF L
<1> QED
  BY <1>0, <1>8 DEF after

(* A frame that is not in the window is taken: the invariant is kept.      *)
LEMMA TakeKeeps ==
    ASSUME NEW T, NEW W, Kept(T, W), NEW f, NEW now \in Nat, NEW V,
           T # << >> => T[Len(T)].now <= now, Unseen(W, f, now), TakenInto(W, f, now, V)
    PROVE  Kept(Append(T, [frame |-> f, now |-> now]), V)
<1> DEFINE e == [frame |-> f, now |-> now]
<1> DEFINE U == Append(T, e)
<1> DEFINE n == Len(T)
<1>1. PICK S : T \in Seq(S)
  BY DEF Kept, Ordered
<1>2. T \in Seq(S \cup {e}) /\ U \in Seq(S \cup {e}) /\ n \in Nat
  BY <1>1
<1>3. Len(U) = n + 1 /\ U[n + 1] = e /\ \A k \in 1 .. n : U[k] = T[k]
  BY <1>2
<1>4. \A i \in 1 .. n : T[i].now \in Nat /\ T[i].now <= now
  <2> SUFFICES ASSUME NEW i \in 1 .. n PROVE T[i].now \in Nat /\ T[i].now <= now
    OBVIOUS
  <2>1. n \in 1 .. n /\ T # << >>
    BY <1>2
  <2>2. T[i].now \in Nat /\ T[n].now \in Nat /\ T[i].now <= T[n].now
    BY <1>2, <2>1 DEF Kept, Ordered
  <2> QED
    BY <2>1, <2>2
<1>5. e.now = now /\ e.frame = f
  OBVIOUS
<1> HIDE DEF U, e
<1>6. Ordered(U)
  <2>1. \A i \in 1 .. n + 1 : i \in 1 .. n \/ i = n + 1
    BY <1>2
  <2>2. \A i \in 1 .. n + 1 : U[i].now \in Nat
    BY <1>3, <1>4, <1>5, <2>1
  <2>3. ASSUME NEW i \in 1 .. n + 1, NEW j \in 1 .. n + 1, i <= j PROVE U[i].now <= U[j].now
    <3>1. CASE j = n + 1
      BY <1>3, <1>4, <1>5, <2>1, <3>1
    <3>2. CASE j \in 1 .. n
      <4>1. i \in 1 .. n
        BY <1>2, <2>3, <3>2
      <4>2. T[i].now <= T[j].now
        BY <2>3, <3>2, <4>1 DEF Kept, Ordered
      <4> QED
        BY <1>3, <3>2, <4>1, <4>2
    <3> QED
      BY <2>1, <3>1, <3>2
  <2> QED
    BY <1>2, <1>3, <2>2, <2>3 DEF Ordered
<1>7. /\ EntryOf(U)[n + 1] = Entry(f, now)
      /\ \A k \in 1 .. n : EntryOf(U)[k] = EntryOf(T)[k]
  BY <1>2, <1>3, <1>5 DEF EntryOf
<1>8. PICK w : Survives(W, now, w) /\ V = w \cup {Entry(f, now)}
  BY DEF TakenInto
<1>9. w \subseteq LiveIn(W, now) /\ LiveIn(W, now) \subseteq W
  BY <1>8 DEF Survives, LiveIn
<1>10. Recorded(U, V)
  BY <1>2, <1>3, <1>7, <1>8, <1>9 DEF Kept, Recorded
<1>11. \A i \in 1 .. n : Forgotten(T, n, i) => Forgotten(U, n + 1, i)
  <2> SUFFICES ASSUME NEW i \in 1 .. n, Forgotten(T, n, i) PROVE Forgotten(U, n + 1, i)
    OBVIOUS
  <2>1. n \in 1 .. n
    BY <1>2
  <2>2. Cardinality(Since(T, n, i)) <= Cardinality(Since(U, n + 1, i))
        /\ Cardinality(Since(T, n, i)) \in Nat /\ Cardinality(Since(U, n + 1, i)) \in Nat
    <3>1. n \in Nat /\ n + 1 \in Nat /\ n <= n + 1 /\ \A k \in 1 .. n : U[k] = T[k]
      BY <1>2, <1>3
    <3> HIDE DEF n
    <3> QED
      BY <3>1, SinceGrows
  <2>3. U[n + 1].now = now /\ U[i] = T[i] /\ T[n].now <= now /\ T[n].now \in Nat /\ T[i].now \in Nat
    BY <1>3, <1>4, <1>5, <2>1
  <2> DEFINE older == Cardinality(Since(T, n, i))
             newer == Cardinality(Since(U, n + 1, i))
  <2>4. T[n].now - T[i].now <= U[n + 1].now - U[i].now
    BY <2>3
  <2>5. older \in Nat /\ newer \in Nat /\ older <= newer
    BY <2>2
  <2> HIDE DEF older, newer
  <2> QED
    BY <2>3, <2>4, <2>5, RelayAssumption DEF Forgotten, older, newer
<1>12. Remembered(U, V)
  <2> SUFFICES ASSUME NEW i \in 1 .. n + 1
               PROVE  EntryOf(U)[i] \in V \/ Forgotten(U, n + 1, i)
    BY <1>3 DEF Remembered
  <2>1. CASE i = n + 1
    BY <2>1, <1>7, <1>8
  <2>2. CASE i \in 1 .. n /\ Forgotten(T, n, i)
    BY <2>2, <1>11
  <2>3. CASE i \in 1 .. n /\ EntryOf(T)[i] \in W /\ EntryOf(T)[i] \notin LiveIn(W, now)
    <3>1. EntryOf(T)[i].seen = T[i].now
      BY <2>3 DEF EntryOf, Entry
    <3>2. T[i].now \in Nat /\ ~(T[i].now >= now - TTL)
      BY <1>4, <2>3, <3>1 DEF LiveIn
    <3>3. now - T[i].now > TTL
      BY <3>2, RelayAssumption
    <3> QED
      BY <1>3, <1>5, <2>3, <3>3 DEF Forgotten
  <2>4. CASE i \in 1 .. n /\ EntryOf(T)[i] \in LiveIn(W, now) /\ EntryOf(T)[i] \in w
    BY <1>7, <1>8, <2>4
  <2>5. CASE i \in 1 .. n /\ EntryOf(T)[i] \in LiveIn(W, now) /\ EntryOf(T)[i] \notin w
    <3>1. /\ ~(Cardinality(LiveIn(W, now)) < WindowSize)
          /\ \A x \in LiveIn(W, now) : EntryOf(T)[i].seen <= x.seen
      BY <1>8, <2>5 DEF Survives
    <3>2. U[Len(U)].now = now
      BY <1>3, <1>5
    <3>3. Cardinality(Since(U, Len(U), i)) >= WindowSize
      BY <1>3, <1>4, <2>5, <3>1, <3>2, PushedOut DEF Kept
    <3> QED
      BY <1>3, <3>3 DEF Forgotten
  <2> QED
    BY <1>2, <2>1, <2>2, <2>3, <2>4, <2>5 DEF Kept, Remembered
<1>13. OnceOnly(U)
  <2> SUFFICES ASSUME NEW i \in 1 .. n + 1, NEW j \in 1 .. n + 1, i < j, U[i].frame = U[j].frame
               PROVE  \/ U[j].now - U[i].now > TTL
                      \/ Cardinality(Since(U, j - 1, i)) >= WindowSize
    BY <1>3 DEF OnceOnly
  <2>0. i \in 1 .. n /\ U[i] = T[i] /\ j - 1 \in Nat
    BY <1>2, <1>3
  <2>1. CASE j \in 1 .. n
    <3>1. U[j] = T[j]
      BY <1>3, <2>1
    <3>2. Since(U, j - 1, i) = Since(T, j - 1, i)
      BY <1>2, <1>3, <2>0, <2>1 DEF Since
    <3> QED
      BY <2>0, <2>1, <3>1, <3>2 DEF Kept, OnceOnly
  <2>2. CASE j = n + 1
    <3>1. T[i].frame = f /\ U[j].now = now /\ j - 1 = n
      BY <1>2, <1>3, <1>5, <2>0, <2>2
    <3>2. Since(U, n, i) = Since(T, n, i)
      BY <1>2, <1>3, <2>0 DEF Since
    <3>3. CASE EntryOf(T)[i] \in W
      <4>1. /\ EntryOf(T)[i].seen = T[i].now /\ EntryOf(T)[i].sender = f.sender
            /\ EntryOf(T)[i].seq = f.seq
        BY <2>0, <3>1 DEF EntryOf, Entry
      <4>2. T[i].now \in Nat /\ ~(T[i].now >= now - TTL)
        BY <1>4, <2>0, <3>3, <4>1 DEF Unseen, LiveIn
      <4> QED
        BY <2>0, <3>1, <4>2, RelayAssumption
    <3>4. CASE Forgotten(T, n, i)
      <4>1. n \in 1 .. n
        BY <1>2, <2>0
      <4>2. T[n].now \in Nat /\ T[i].now \in Nat /\ T[n].now <= now
        BY <1>4, <2>0, <4>1
      <4> QED
        BY <2>0, <3>1, <3>2, <3>4, <4>2, RelayAssumption DEF Forgotten
    <3> QED
      BY <2>0, <3>3, <3>4 DEF Kept, Remembered
  <2> QED
    BY <1>2, <2>1, <2>2
<1> QED
  BY <1>6, <1>10, <1>12, <1>13 DEF Kept, U, e

-----------------------------------------------------------------------------
(* The host and a set M of members, each with what it took and its window. *)

NoFrame == [frame |-> "none"]
Latest(T, t) == T # << >> => T[Len(T)].now <= t

(* The worker that handles a frame has read its time after every frame it  *)
(* handled before.                                                         *)
HostSide ==
    /\ clock \in Nat /\ Kept(accepts, replay[Host]) /\ Latest(accepts, clock)
    /\ remote # NoFrame => remote.now \in Nat /\ remote.now <= clock /\ Latest(accepts, remote.now)

MemberSide(m) ==
    /\ Kept(got[m], replay[m]) /\ Latest(got[m], clock)
    /\ \A f \in inbox[m] : f.sender # m
    /\ \A i \in 1 .. Len(got[m]) : got[m][i].frame.sender # m

(* The inductive invariant of "relay" and "window".                        *)
RelayInv(M) ==
    /\ replay = [s \in M \cup {Host} |-> replay[s]]
    /\ got = [m \in M |-> got[m]] /\ inbox = [m \in M |-> inbox[m]]
    /\ HostSide /\ \A m \in M : MemberSide(m)

(* Times go on.                                                            *)
LEMMA LatestLater ==
    ASSUME NEW T, Ordered(T), NEW t \in Nat, NEW u \in Nat, Latest(T, t), t <= u
    PROVE  Latest(T, u)
<1> SUFFICES ASSUME T # << >> PROVE T[Len(T)].now <= u
  BY DEF Latest
<1>1. PICK S : T \in Seq(S)
  BY DEF Ordered
<1>2. Len(T) \in 1 .. Len(T)
  BY <1>1
<1>3. T[Len(T)].now \in Nat
  BY <1>2 DEF Ordered
<1> QED
  BY <1>3 DEF Latest

(* What is taken last has the latest time.                                 *)
LEMMA LatestIsLast ==
    ASSUME NEW T, Ordered(T), NEW e
    PROVE  /\ Append(T, e) # << >> /\ Len(Append(T, e)) = Len(T) + 1 /\ Len(T) \in Nat
           /\ Append(T, e)[Len(T) + 1] = e /\ \A k \in 1 .. Len(T) : Append(T, e)[k] = T[k]
<1>1. PICK S : T \in Seq(S)
  BY DEF Ordered
<1>2. T \in Seq(S \cup {e})
  BY <1>1
<1> QED
  BY <1>2

(* No window changes: a frame is read, sent or lost, time passes.          *)
LEMMA RelayMoves ==
    ASSUME NEW M, RelayInv(M), UNCHANGED <<replay, got, accepts>>, clock' \in Nat, clock <= clock',
           inbox' = [m \in M |-> inbox'[m]],
           \A m \in M : \A f \in inbox'[m] : f \in inbox[m] \/ f.sender # m,
           remote' = remote \/ remote' = NoFrame \/ remote'.now = clock
    PROVE  RelayInv(M)'
<1>1. clock \in Nat /\ Kept(accepts, replay[Host]) /\ Latest(accepts, clock)
  BY DEF RelayInv, HostSide
<1>2. Latest(accepts, clock')
  BY <1>1, LatestLater DEF Kept
<1>3. remote' # NoFrame => remote'.now \in Nat /\ remote'.now <= clock' /\ Latest(accepts, remote'.now)
  BY <1>1 DEF RelayInv, HostSide
<1>4. HostSide'
  BY <1>1, <1>2, <1>3 DEF HostSide, Latest
<1>5. ASSUME NEW m \in M
      PROVE  MemberSide(m)'
  <2>1. MemberSide(m)
    BY DEF RelayInv
  <2>2. Latest(got[m], clock')
    BY <1>1, <2>1, LatestLater DEF MemberSide, Kept
  <2> QED
    BY <2>1, <2>2 DEF MemberSide, Latest
<1> QED
  BY <1>4, <1>5 DEF RelayInv

(* The host's worker takes a frame that its window does not have.          *)
LEMMA HostTakes ==
    ASSUME NEW M, Host \notin M, RelayInv(M), remote # NoFrame, remote' = NoFrame,
           UNCHANGED <<clock, got>>, inbox' = [m \in M |-> inbox'[m]],
           \A m \in M : \A f \in inbox'[m] : f \in inbox[m] \/ f.sender # m,
           Unseen(replay[Host], remote.frame, remote.now), NEW V,
           TakenInto(replay[Host], remote.frame, remote.now, V), replay' = [replay EXCEPT ![Host] = V],
           accepts' = Append(accepts, [frame |-> remote.frame, now |-> remote.now])
    PROVE  RelayInv(M)'
<1>1. /\ clock \in Nat /\ Kept(accepts, replay[Host]) /\ remote.now \in Nat /\ remote.now <= clock
      /\ Latest(accepts, remote.now)
  BY DEF RelayInv, HostSide
<1>2. replay'[Host] = V /\ (\A m \in M : replay'[m] = replay[m])
      /\ replay' = [s \in M \cup {Host} |-> replay'[s]]
  BY DEF RelayInv
<1>3. Kept(accepts', V)
  BY <1>1, TakeKeeps DEF Latest
<1>4. Latest(accepts', clock)
  BY <1>1, LatestIsLast DEF Latest, Kept
<1>5. HostSide'
  BY <1>1, <1>2, <1>3, <1>4 DEF HostSide, Latest
<1>6. ASSUME NEW m \in M
      PROVE  MemberSide(m)'
  BY <1>2 DEF RelayInv, MemberSide, Latest
<1> QED
  BY <1>2, <1>5, <1>6 DEF RelayInv

(* The TUN of a member takes a frame that its window does not have.        *)
LEMMA MemberTakes ==
    ASSUME NEW M, Host \notin M, RelayInv(M), NEW m \in M, NEW f \in inbox[m],
           UNCHANGED <<clock, accepts, remote, inbox>>,
           Unseen(replay[m], f, clock), NEW V,
           TakenInto(replay[m], f, clock, V), replay' = [replay EXCEPT ![m] = V],
           got' = [got EXCEPT ![m] = Append(@, [frame |-> f, now |-> clock])]
    PROVE  RelayInv(M)'
<1>1. clock \in Nat /\ MemberSide(m) /\ HostSide
  BY DEF RelayInv, HostSide
<1>2. /\ replay'[m] = V /\ replay'[Host] = replay[Host] /\ \A l \in M : l # m => replay'[l] = replay[l]
      /\ replay' = [s \in M \cup {Host} |-> replay'[s]]
  BY DEF RelayInv
<1>3. /\ got'[m] = Append(got[m], [frame |-> f, now |-> clock]) /\ \A l \in M : l # m => got'[l] = got[l]
      /\ got' = [l \in M |-> got'[l]]
  BY DEF RelayInv
<1>4. Kept(got'[m], V)
  BY <1>1, <1>3, TakeKeeps DEF MemberSide, Latest
<1>5. Ordered(got[m])
  BY <1>1 DEF MemberSide, Kept
<1>6. Latest(got'[m], clock)
  BY <1>1, <1>3, <1>5, LatestIsLast DEF Latest
<1>7. \A i \in 1 .. Len(got'[m]) : got'[m][i].frame.sender # m
  BY <1>1, <1>3, <1>5, LatestIsLast DEF MemberSide
<1>8. MemberSide(m)'
  BY <1>1, <1>2, <1>4, <1>6, <1>7 DEF MemberSide, Latest
<1>9. \A l \in M : MemberSide(l)'
  BY <1>2, <1>3, <1>8 DEF RelayInv, MemberSide, Latest
<1>10. HostSide'
  BY <1>1, <1>2 DEF HostSide, Latest
<1> QED
  BY <1>2, <1>3, <1>9, <1>10 DEF RelayInv

(* A receiver that took nothing has an empty window.                       *)
LEMMA NothingTaken == Kept(<< >>, {}) /\ \A t : Latest(<< >>, t)
<1>1. << >> \in Seq({}) /\ Len(<< >>) = 0
  OBVIOUS
<1>2. Ordered(<< >>)
  BY <1>1 DEF Ordered
<1> QED
  BY <1>1, <1>2 DEF Kept, Recorded, Remembered, OnceOnly, Latest

(* A member joins again, with a new TUN.                                   *)
LEMMA MemberReturns ==
    ASSUME NEW M, Host \notin M, RelayInv(M), NEW m \in M, UNCHANGED <<clock, accepts, remote>>,
           replay' = [replay EXCEPT ![m] = {}], inbox' = [inbox EXCEPT ![m] = {}],
           got' = [got EXCEPT ![m] = << >>]
    PROVE  RelayInv(M)'
<1>1. /\ replay'[m] = {} /\ replay'[Host] = replay[Host] /\ \A l \in M : l # m => replay'[l] = replay[l]
      /\ replay' = [s \in M \cup {Host} |-> replay'[s]]
  BY DEF RelayInv
<1>2. /\ got'[m] = << >> /\ \A l \in M : l # m => got'[l] = got[l]
      /\ got' = [l \in M |-> got'[l]]
  BY DEF RelayInv
<1>3. /\ inbox'[m] = {} /\ \A l \in M : l # m => inbox'[l] = inbox[l]
      /\ inbox' = [l \in M |-> inbox'[l]]
  BY DEF RelayInv
<1>4. HostSide'
  BY <1>1 DEF RelayInv, HostSide, Latest
<1>5. MemberSide(m)'
  <2>1. Kept(got'[m], replay'[m]) /\ Latest(got'[m], clock')
    BY <1>1, <1>2, NothingTaken
  <2>2. Len(got'[m]) = 0
    BY <1>2
  <2> QED
    BY <1>3, <2>1, <2>2 DEF MemberSide, Latest
<1>6. \A l \in M : MemberSide(l)'
  BY <1>1, <1>2, <1>3, <1>5 DEF RelayInv, MemberSide, Latest
<1> QED
  BY <1>1, <1>2, <1>3, <1>4, <1>6 DEF RelayInv

(* At the start nothing was taken.                                         *)
LEMMA NothingYet ==
    ASSUME NEW M, clock = 0, remote = NoFrame, accepts = << >>, replay = [s \in M \cup {Host} |-> {}],
           got = [m \in M |-> << >>], inbox = [m \in M |-> {}]
    PROVE  RelayInv(M)
BY NothingTaken DEF RelayInv, HostSide, MemberSide

(* The invariant says that no frame is taken twice in time, and that no    *)
(* member gets its own.                                                    *)
LEMMA RelayTakesOnce ==
    ASSUME NEW M, RelayInv(M)
    PROVE  /\ OnceOnly(accepts) /\ DOMAIN accepts = 1 .. Len(accepts)
           /\ \A m \in M : /\ OnceOnly(got[m]) /\ DOMAIN got[m] = 1 .. Len(got[m])
                           /\ \A i \in DOMAIN got[m] : got[m][i].frame.sender # m
<1>1. \A T : Ordered(T) => DOMAIN T = 1 .. Len(T)
  BY DEF Ordered
<1> QED
  BY <1>1 DEF RelayInv, HostSide, MemberSide, Kept

(* The operators of the window in "relay" are the ones above.              *)
LEMMA RelayWindow ==
    /\ \A W, f, now, V : V \in Relay!Accept(W, f, now) => TakenInto(W, f, now, V)
    /\ \A W, f, now : ~Relay!IsDuplicate(Relay!Live(W, now), f) => Unseen(W, f, now)
    /\ \A T : DOMAIN T = 1 .. Len(T) /\ OnceOnly(T) => Relay!Once(T)
<1>1. \A S : Relay!Cardinality(S) = Cardinality(S)
  BY DEF Relay!Cardinality, Cardinality
<1>2. \A W, now : Relay!Live(W, now) = LiveIn(W, now)
  BY DEF Relay!Live, LiveIn
<1>3. \A W, now, w : w \in Relay!Evictions(Relay!Live(W, now)) => Survives(W, now, w)
  BY <1>1, <1>2 DEF Relay!Evictions, Survives
<1>4. \A W, f, now, V : V \in Relay!Accept(W, f, now) => TakenInto(W, f, now, V)
  BY <1>3 DEF Relay!Accept, TakenInto, Entry
<1>5. \A W, f, now : ~Relay!IsDuplicate(Relay!Live(W, now), f) => Unseen(W, f, now)
  BY <1>2 DEF Relay!IsDuplicate, Unseen
<1>6. \A T : DOMAIN T = 1 .. Len(T) /\ OnceOnly(T) => Relay!Once(T)
  BY <1>1 DEF OnceOnly, Relay!Once, Since
<1> QED
  BY <1>4, <1>5, <1>6

(* Every step of "relay" keeps the invariant.                              *)
LEMMA RelayNext ==
    ASSUME RelayInv(Members), Relay!Next
    PROVE  RelayInv(Members)'
<1> USE DEF Relay!traffic, Relay!history
<1>0. Host \notin Members /\ clock \in Nat /\ inbox = [m \in Members |-> inbox[m]]
  BY RelayAssumption DEF RelayInv, HostSide
<1>1. ASSUME NEW s \in Relay!Senders, NEW size \in {1}, Relay!Capture(s, size)
      PROVE  RelayInv(Members)'
  BY <1>0, <1>1, RelayMoves DEF Relay!Capture
<1>2. ASSUME NEW f \in net, Relay!ReadRemote(f)
      PROVE  RelayInv(Members)'
  BY <1>0, <1>2, RelayMoves DEF Relay!ReadRemote
<1>3. ASSUME Relay!ReadLocal
      PROVE  RelayInv(Members)'
  BY <1>0, <1>3, RelayMoves DEF Relay!ReadLocal
<1>4. ASSUME Relay!Tick
      PROVE  RelayInv(Members)'
  BY <1>0, <1>4, RelayMoves DEF Relay!Tick
<1>5. ASSUME NEW f, Relay!fanout(f) \/ UNCHANGED inbox
      PROVE  inbox' = [m \in Members |-> inbox'[m]] /\ \A m \in Members : \A g \in inbox'[m] : g \in inbox[m] \/ g.sender # m
  BY <1>0, <1>5 DEF Relay!fanout
<1>6. ASSUME Relay!HandleMember
      PROVE  RelayInv(Members)'
  <2>0. remote # NoFrame /\ remote' = NoFrame /\ UNCHANGED <<clock, got>>
    BY <1>6 DEF Relay!HandleMember, Relay!None, NoFrame
  <2>1. CASE remote.frame.sender \notin online \/ Relay!IsDuplicate(Relay!Live(replay[Host], remote.now), remote.frame)
    <3>1. UNCHANGED <<inbox, replay, accepts>>
      BY <1>6, <2>1 DEF Relay!HandleMember
    <3> QED
      BY <1>0, <2>0, <3>1, RelayMoves
  <2>2. CASE ~(remote.frame.sender \notin online \/ Relay!IsDuplicate(Relay!Live(replay[Host], remote.now), remote.frame))
    <3>1. PICK V \in Relay!Accept(replay[Host], remote.frame, remote.now) : replay' = [replay EXCEPT ![Host] = V]
      BY <1>6, <2>2 DEF Relay!HandleMember
    <3>2. /\ accepts' = Append(accepts, [frame |-> remote.frame, now |-> remote.now])
          /\ Relay!fanout(remote.frame) \/ UNCHANGED inbox
      BY <1>6, <2>2 DEF Relay!HandleMember
    <3>3. /\ TakenInto(replay[Host], remote.frame, remote.now, V)
          /\ Unseen(replay[Host], remote.frame, remote.now)
      BY <2>2, <3>1, RelayWindow
    <3> QED
      BY <1>0, <1>5, <2>0, <3>1, <3>2, <3>3, HostTakes
  <2> QED
    BY <2>1, <2>2
<1>7. ASSUME Relay!HandleHost
      PROVE  RelayInv(Members)'
  <2>1. (Relay!fanout(local.frame) \/ UNCHANGED inbox) /\ UNCHANGED <<clock, remote, replay, accepts, got>>
    BY <1>7 DEF Relay!HandleHost
  <2> QED
    BY <1>0, <1>5, <2>1, RelayMoves
<1>8. ASSUME NEW m \in Members, NEW f \in inbox[m], Relay!Deliver(m, f)
      PROVE  RelayInv(Members)'
  <2>1. PICK V \in Relay!Accept(replay[m], f, clock) : replay' = [replay EXCEPT ![m] = V]
    BY <1>8 DEF Relay!Deliver
  <2>2. TakenInto(replay[m], f, clock, V) /\ Unseen(replay[m], f, clock)
    BY <1>8, <2>1, RelayWindow DEF Relay!Deliver
  <2>3. UNCHANGED <<clock, accepts, remote, inbox>> /\ got' = [got EXCEPT ![m] = Append(@, [frame |-> f, now |-> clock])]
    BY <1>8 DEF Relay!Deliver
  <2> QED
    BY <1>0, <2>1, <2>2, <2>3, MemberTakes
<1>9. ASSUME NEW m \in Members, Relay!Leave(m)
      PROVE  RelayInv(Members)'
  BY <1>0, <1>9, RelayMoves DEF Relay!Leave
<1>10. ASSUME NEW m \in Members, Relay!Rejoin(m)
       PROVE  RelayInv(Members)'
  BY <1>0, <1>10, MemberReturns DEF Relay!Rejoin
<1> QED
  BY <1>1, <1>2, <1>3, <1>4, <1>6, <1>7, <1>8, <1>9, <1>10 DEF Relay!Next

(* It holds at the start of "relay", and says that no frame is replayed.   *)
LEMMA RelayHolds == (Relay!Init => RelayInv(Members)) /\ (RelayInv(Members) => Relay!NoReplay)
<1>1. Relay!Init => RelayInv(Members)
  BY NothingYet DEF Relay!Init, Relay!Senders, Relay!None, NoFrame
<1>2. RelayInv(Members) => Relay!NoReplay
  BY RelayTakesOnce, RelayWindow DEF Relay!NoReplay
<1> QED
  BY <1>1, <1>2

(* The operators of the window in "window" are the ones above.             *)
LEMMA WindowWindow ==
    /\ \A W, f, now, V : V \in Window!Accept(W, f, now) => TakenInto(W, f, now, V)
    /\ \A W, f, now : ~Window!IsDuplicate(Window!Live(W, now), f) => Unseen(W, f, now)
    /\ \A T : DOMAIN T = 1 .. Len(T) /\ OnceOnly(T) => Window!Once(T)
<1>1. \A S : Window!Cardinality(S) = Cardinality(S)
  BY DEF Window!Cardinality, Cardinality
<1>2. \A W, now : Window!Live(W, now) = LiveIn(W, now)
  BY DEF Window!Live, LiveIn
<1>3. \A W, now, w : w \in Window!Evictions(Window!Live(W, now)) => Survives(W, now, w)
  BY <1>1, <1>2 DEF Window!Evictions, Survives
<1>4. \A W, f, now, V : V \in Window!Accept(W, f, now) => TakenInto(W, f, now, V)
  BY <1>3 DEF Window!Accept, TakenInto, Entry
<1>5. \A W, f, now : ~Window!IsDuplicate(Window!Live(W, now), f) => Unseen(W, f, now)
  BY <1>2 DEF Window!IsDuplicate, Unseen
<1>6. \A T : DOMAIN T = 1 .. Len(T) /\ OnceOnly(T) => Window!Once(T)
  BY <1>1 DEF OnceOnly, Window!Once, Since
<1> QED
  BY <1>4, <1>5, <1>6

(* Every step of "window" keeps the invariant.                             *)
LEMMA WindowNext ==
    ASSUME RelayInv({Member}), Window!Next
    PROVE  RelayInv({Member})'
<1> USE DEF Window!traffic, Window!history
<1>0. Host \notin {Member} /\ clock \in Nat /\ inbox = [m \in {Member} |-> inbox[m]]
  BY RelayAssumption DEF RelayInv, HostSide, Member
<1>1. ASSUME NEW s \in Window!Senders, NEW size \in {1}, Window!Capture(s, size)
      PROVE  RelayInv({Member})'
  BY <1>0, <1>1, RelayMoves DEF Window!Capture
<1>2. ASSUME NEW f \in net, Window!ReadRemote(f)
      PROVE  RelayInv({Member})'
  BY <1>0, <1>2, RelayMoves DEF Window!ReadRemote
<1>3. ASSUME Window!ReadLocal
      PROVE  RelayInv({Member})'
  BY <1>0, <1>3, RelayMoves DEF Window!ReadLocal
<1>4. ASSUME Window!Tick
      PROVE  RelayInv({Member})'
  BY <1>0, <1>4, RelayMoves DEF Window!Tick
<1>5. ASSUME NEW f, Window!fanout(f) \/ UNCHANGED inbox
      PROVE  inbox' = [m \in {Member} |-> inbox'[m]] /\ \A m \in {Member} : \A g \in inbox'[m] : g \in inbox[m] \/ g.sender # m
  BY <1>0, <1>5 DEF Window!fanout
<1>6. ASSUME Window!HandleMember
      PROVE  RelayInv({Member})'
  <2>0. remote # NoFrame /\ remote' = NoFrame /\ UNCHANGED <<clock, got>>
    BY <1>6 DEF Window!HandleMember, Window!None, NoFrame
  <2>1. CASE remote.frame.sender \notin online \/ Window!IsDuplicate(Window!Live(replay[Host], remote.now), remote.frame)
    <3>1. UNCHANGED <<inbox, replay, accepts>>
      BY <1>6, <2>1 DEF Window!HandleMember
    <3> QED
      BY <1>0, <2>0, <3>1, RelayMoves
  <2>2. CASE ~(remote.frame.sender \notin online \/ Window!IsDuplicate(Window!Live(replay[Host], remote.now), remote.frame))
    <3>1. PICK V \in Window!Accept(replay[Host], remote.frame, remote.now) : replay' = [replay EXCEPT ![Host] = V]
      BY <1>6, <2>2 DEF Window!HandleMember
    <3>2. /\ accepts' = Append(accepts, [frame |-> remote.frame, now |-> remote.now])
          /\ Window!fanout(remote.frame) \/ UNCHANGED inbox
      BY <1>6, <2>2 DEF Window!HandleMember
    <3>3. /\ TakenInto(replay[Host], remote.frame, remote.now, V)
          /\ Unseen(replay[Host], remote.frame, remote.now)
      BY <2>2, <3>1, WindowWindow
    <3> QED
      BY <1>0, <1>5, <2>0, <3>1, <3>2, <3>3, HostTakes
  <2> QED
    BY <2>1, <2>2
<1>7. ASSUME Window!HandleHost
      PROVE  RelayInv({Member})'
  <2>1. (Window!fanout(local.frame) \/ UNCHANGED inbox) /\ UNCHANGED <<clock, remote, replay, accepts, got>>
    BY <1>7 DEF Window!HandleHost
  <2> QED
    BY <1>0, <1>5, <2>1, RelayMoves
<1>8. ASSUME NEW m \in {Member}, NEW f \in inbox[m], Window!Deliver(m, f)
      PROVE  RelayInv({Member})'
  <2>1. PICK V \in Window!Accept(replay[m], f, clock) : replay' = [replay EXCEPT ![m] = V]
    BY <1>8 DEF Window!Deliver
  <2>2. TakenInto(replay[m], f, clock, V) /\ Unseen(replay[m], f, clock)
    BY <1>8, <2>1, WindowWindow DEF Window!Deliver
  <2>3. UNCHANGED <<clock, accepts, remote, inbox>> /\ got' = [got EXCEPT ![m] = Append(@, [frame |-> f, now |-> clock])]
    BY <1>8 DEF Window!Deliver
  <2> QED
    BY <1>0, <2>1, <2>2, <2>3, MemberTakes
<1>9. ASSUME NEW m \in {Member}, Window!Leave(m)
      PROVE  RelayInv({Member})'
  BY <1>0, <1>9, RelayMoves DEF Window!Leave
<1>10. ASSUME NEW m \in {Member}, Window!Rejoin(m)
       PROVE  RelayInv({Member})'
  BY <1>0, <1>10, MemberReturns DEF Window!Rejoin
<1> QED
  BY <1>1, <1>2, <1>3, <1>4, <1>6, <1>7, <1>8, <1>9, <1>10 DEF Window!Next

(* It holds at the start of "window", and says that no frame is replayed.  *)
LEMMA WindowHolds == (Window!Init => RelayInv({Member})) /\ (RelayInv({Member}) => Window!NoReplay)
<1>1. Window!Init => RelayInv({Member})
  BY NothingYet DEF Window!Init, Window!Senders, Window!None, NoFrame
<1>2. RelayInv({Member}) => Window!NoReplay
  BY RelayTakesOnce, WindowWindow DEF Window!NoReplay
<1> QED
  BY <1>1, <1>2

-----------------------------------------------------------------------------
(* Discovery: the token buckets.  P is what was let through of a sender, b *)
(* the sender's bucket.                                                    *)

(* From the i-th packet to the n-th, in packets and in bytes.              *)
Packets(n, i) == n - i + 1
Bytes(P, n, i) == P[n].total - P[i].total + P[i].size

(* The rate that MemberRate asks of one sender.                            *)
Rated(P) ==
    \A i, j \in 1 .. Len(P) : i <= j =>
        /\ Packets(j, i) * Second <= PacketRate * (Second + P[j].now - P[i].now)
        /\ Bytes(P, j, i) * Second <= ByteRate * (Second + P[j].now - P[i].now)

Counted(P) ==
    /\ \E S : P \in Seq(S)
    /\ \A i \in 1 .. Len(P) : P[i].now \in Nat /\ P[i].size \in Nat /\ P[i].total \in Nat

(* A bucket holds no more than it can.                                     *)
Filled(b) ==
    /\ b.packets \in Nat /\ b.bytes \in Nat /\ b.last \in Nat
    /\ b.packets <= PacketRate * Second /\ b.bytes <= ByteRate * Second

(* The i-th packet and what came after it, together with what is left in   *)
(* the bucket, are at most a full bucket and what was refilled since.      *)
Covers(P, b, i) ==
    /\ P[i].now <= b.last
    /\ Packets(Len(P), i) * Second + b.packets <= PacketRate * (Second + b.last - P[i].now)
    /\ Bytes(P, Len(P), i) * Second + b.bytes <= ByteRate * (Second + b.last - P[i].now)

(* The inductive invariant of one sender.                                  *)
Metered(P, b) == Counted(P) /\ Rated(P) /\ Filled(b) /\ \A i \in 1 .. Len(P) : Covers(P, b, i)

(* The numbers that are compared are integers.                             *)
LEMMA CountedAt ==
    ASSUME NEW P, Counted(P), NEW i \in 1 .. Len(P), NEW j \in 1 .. Len(P)
    PROVE  /\ P[i].now \in Nat /\ Len(P) \in Nat /\ Len(P) \in 1 .. Len(P)
           /\ Packets(j, i) \in Int /\ Bytes(P, j, i) \in Int
           /\ Packets(j, i) * Second \in Int /\ Bytes(P, j, i) * Second \in Int
<1>1. PICK S : P \in Seq(S)
  BY DEF Counted
<1>2. Len(P) \in Nat /\ Len(P) \in 1 .. Len(P)
  BY <1>1
<1>3. P[i].now \in Nat /\ P[i].size \in Nat /\ P[i].total \in Nat /\ P[j].total \in Nat
  BY DEF Counted
<1>4. Packets(j, i) \in Int
  BY <1>2 DEF Packets
<1>5. Bytes(P, j, i) \in Int
  BY <1>3 DEF Bytes
<1> QED
  BY <1>2, <1>3, <1>4, <1>5, RateAssumption

(* A bound on a count is an integer.                                       *)
LEMMA BoundIsInt ==
    ASSUME NEW last \in Nat, NEW first \in Nat
    PROVE  PacketRate * (Second + last - first) \in Int /\ ByteRate * (Second + last - first) \in Int
BY RateAssumption

(* What a bucket has, and what time adds to it up to its size.             *)
LEMMA Refilled ==
    ASSUME NEW rate \in Nat, NEW second \in Nat, NEW count \in Int, NEW tokens \in Nat, NEW last \in Nat,
           NEW first \in Nat, NEW now \in Nat, last <= now, NEW more \in Int,
           count + tokens <= rate * (second + last - first), more <= tokens + (now - last) * rate
    PROVE  count + more <= rate * (second + now - first)
<1>1. rate * (second + now - first) = rate * (second + last - first) + (now - last) * rate
  OBVIOUS
<1>2. rate * (second + last - first) \in Int /\ (now - last) * rate \in Int /\ rate * (second + now - first) \in Int
  OBVIOUS
<1> QED
  BY <1>1, <1>2

(* Tokens that are paid leave a bucket, for a packet that may be counted.  *)
LEMMA Paid ==
    \A count, tokens, cost, bound :
        /\ count \in Int /\ tokens \in Nat /\ cost \in Nat /\ bound \in Int
        /\ count + tokens <= bound
        => /\ count <= bound
           /\ count + (tokens - cost) <= bound
           /\ (count + cost) + (tokens - cost) <= bound
OBVIOUS

(* Refilling a bucket up to now.                                           *)
LEMMA RefillKeeps ==
    ASSUME NEW P, NEW b, Metered(P, b), NEW now \in Nat, b.last <= now
    PROVE  Metered(P, Rate!Refill(b, PacketRate, ByteRate, now)) /\ Rate!Refill(b, PacketRate, ByteRate, now).last = now
<1> DEFINE c == Rate!Refill(b, PacketRate, ByteRate, now)
<1> USE RateAssumption
<1>0. /\ b.packets \in Nat /\ b.bytes \in Nat /\ b.last \in Nat
      /\ b.packets <= PacketRate * Second /\ b.bytes <= ByteRate * Second
  BY DEF Metered, Filled
<1>1. /\ c.packets = Rate!Smaller(PacketRate * Second, b.packets + (now - b.last) * PacketRate)
      /\ c.bytes = Rate!Smaller(ByteRate * Second, b.bytes + (now - b.last) * ByteRate) /\ c.last = now
  BY <1>0 DEF Rate!Refill
<1> HIDE DEF c
<1>2. /\ PacketRate * Second \in Nat /\ ByteRate * Second \in Nat
      /\ (now - b.last) * PacketRate \in Nat /\ (now - b.last) * ByteRate \in Nat
  BY <1>0
<1>3. /\ c.packets \in Nat /\ c.packets <= PacketRate * Second
      /\ c.packets <= b.packets + (now - b.last) * PacketRate
  BY <1>0, <1>1, <1>2 DEF Rate!Smaller
<1>4. /\ c.bytes \in Nat /\ c.bytes <= ByteRate * Second
      /\ c.bytes <= b.bytes + (now - b.last) * ByteRate
  BY <1>0, <1>1, <1>2 DEF Rate!Smaller
<1>6. \A i \in 1 .. Len(P) : Len(P) \in 1 .. Len(P)
  BY DEF Metered, Counted
<1>5. ASSUME NEW i \in 1 .. Len(P)
      PROVE  Covers(P, c, i)
  <2> DEFINE first == P[i].now
  <2> DEFINE packets == Packets(Len(P), i) * Second
  <2> DEFINE bytes == Bytes(P, Len(P), i) * Second
  <2>1. Len(P) \in 1 .. Len(P)
    BY <1>6
  <2>2. first \in Nat /\ packets \in Int /\ bytes \in Int
    BY <2>1, CountedAt DEF Metered
  <2>3. /\ first <= b.last /\ packets + b.packets <= PacketRate * (Second + b.last - first)
        /\ bytes + b.bytes <= ByteRate * (Second + b.last - first)
    BY DEF Metered, Covers
  <2> HIDE DEF first, packets, bytes
  <2>7. \A rate, tokens, last, count, more :
            /\ rate \in Nat /\ tokens \in Nat /\ last \in Nat /\ count \in Int /\ more \in Nat
            /\ last <= now /\ count + tokens <= rate * (Second + last - first)
            /\ more <= tokens + (now - last) * rate
            => count + more <= rate * (Second + now - first)
    BY <2>2, Refilled
  <2>4. packets + c.packets <= PacketRate * (Second + now - first)
    BY <1>0, <1>3, <2>2, <2>3, <2>7, Zenon
  <2>5. bytes + c.bytes <= ByteRate * (Second + now - first)
    BY <1>0, <1>4, <2>2, <2>3, <2>7, Zenon
  <2>6. first <= now
    BY <1>0, <2>2, <2>3
  <2> QED
    BY <1>1, <2>4, <2>5, <2>6 DEF Covers, first, packets, bytes
<1> QED
  BY <1>1, <1>3, <1>4, <1>5 DEF Metered, Filled, c

(* A bucket that is paid from has less.                                    *)
LEMMA SpendLeaves ==
    ASSUME NEW b, Filled(b), b = [packets |-> b.packets, bytes |-> b.bytes, last |-> b.last],
           NEW size \in Nat, Rate!Enough(b, size)
    PROVE  /\ Rate!Spend(b, size).packets = b.packets - Second
           /\ Rate!Spend(b, size).bytes = b.bytes - size * Second
           /\ Rate!Spend(b, size).last = b.last
           /\ Filled(Rate!Spend(b, size)) /\ size * Second \in Nat
<1>1. /\ Rate!Spend(b, size).packets = b.packets - Second
      /\ Rate!Spend(b, size).bytes = b.bytes - size * Second
      /\ Rate!Spend(b, size).last = b.last
  BY DEF Rate!Spend
<1>2. PacketRate * Second \in Nat /\ ByteRate * Second \in Nat /\ size * Second \in Nat
  BY RateAssumption
<1> QED
  BY <1>1, <1>2, RateAssumption DEF Filled, Rate!Enough

(* A packet pays and is refused by the room.                               *)
LEMMA SpendKeeps ==
    ASSUME NEW P, NEW b, Metered(P, b), b = [packets |-> b.packets, bytes |-> b.bytes, last |-> b.last],
           NEW size \in Nat, Rate!Enough(b, size)
    PROVE  Metered(P, Rate!Spend(b, size))
<1> DEFINE c == Rate!Spend(b, size)
<1> USE RateAssumption
<1>1. /\ c.packets = b.packets - Second /\ c.bytes = b.bytes - size * Second /\ c.last = b.last
      /\ Filled(c) /\ size * Second \in Nat
  BY SpendLeaves DEF Metered
<1> HIDE DEF c
<1>2. ASSUME NEW i \in 1 .. Len(P)
      PROVE  Covers(P, c, i)
  <2> DEFINE first == P[i].now
  <2> DEFINE packets == Packets(Len(P), i) * Second
  <2> DEFINE bytes == Bytes(P, Len(P), i) * Second
  <2>1. Len(P) \in 1 .. Len(P)
    BY DEF Metered, Counted
  <2>2. first \in Nat /\ packets \in Int /\ bytes \in Int
    BY <2>1, CountedAt DEF Metered
  <2>3. b.packets \in Nat /\ b.bytes \in Nat /\ b.last \in Nat
    BY DEF Metered, Filled
  <2>4. /\ first <= b.last /\ packets + b.packets <= PacketRate * (Second + b.last - first)
        /\ bytes + b.bytes <= ByteRate * (Second + b.last - first)
    BY DEF Metered, Covers
  <2> HIDE DEF first, packets, bytes
  <2>5. PacketRate * (Second + b.last - first) \in Int /\ ByteRate * (Second + b.last - first) \in Int
    BY <2>2, <2>3, BoundIsInt
  <2>6. /\ packets + c.packets <= PacketRate * (Second + b.last - first)
        /\ bytes + c.bytes <= ByteRate * (Second + b.last - first)
    BY <1>1, <2>2, <2>3, <2>4, <2>5, Paid, Zenon
  <2>7. /\ first <= c.last /\ packets + c.packets <= PacketRate * (Second + c.last - first)
        /\ bytes + c.bytes <= ByteRate * (Second + c.last - first)
    BY <1>1, <2>4, <2>6, Zenon
  <2> QED
    BY <2>7, Zenon DEF Covers, first, packets, bytes
<1> QED
  BY <1>1, <1>2 DEF Metered, c

(* A packet pays and is let through.                                       *)
LEMMA PassKeeps ==
    ASSUME NEW P, NEW b, Metered(P, b), b = [packets |-> b.packets, bytes |-> b.bytes, last |-> b.last],
           NEW size \in Nat, Rate!Enough(b, size), NEW e, e.now = b.last, e.size = size,
           e.total = (IF P = << >> THEN 0 ELSE P[Len(P)].total) + size
    PROVE  Metered(Append(P, e), Rate!Spend(b, size))
<1> DEFINE c == Rate!Spend(b, size)
<1> DEFINE Q == Append(P, e)
<1> DEFINE n == Len(P)
<1> USE RateAssumption
<1>1. /\ c.packets = b.packets - Second /\ c.bytes = b.bytes - size * Second /\ c.last = b.last
      /\ Filled(c) /\ size * Second \in Nat
  BY SpendLeaves DEF Metered
<1>2. PICK S : P \in Seq(S)
  BY DEF Metered, Counted
<1>3. Q \in Seq(S \cup {e}) /\ n \in Nat /\ P \in Seq(S \cup {e})
  BY <1>2
<1>4. Len(Q) = n + 1 /\ Q[n + 1] = e /\ \A k \in 1 .. n : Q[k] = P[k]
  BY <1>3
<1>5. b.packets \in Nat /\ b.bytes \in Nat /\ b.last \in Nat /\ c.packets \in Nat /\ c.bytes \in Nat
      /\ b.packets <= PacketRate * Second /\ b.bytes <= ByteRate * Second
  BY <1>1 DEF Metered, Filled
<1> HIDE DEF c, Q
<1>6. \A i \in 1 .. n : P[i].now \in Nat /\ P[i].size \in Nat /\ P[i].total \in Nat
  BY DEF Metered, Counted
<1>7. e.total \in Nat /\ (n # 0 => e.total = P[n].total + size) /\ (n = 0 => P = << >>)
  <2>1. n = 0 <=> P = << >>
    BY <1>2
  <2>2. CASE n = 0
    BY <2>1, <2>2
  <2>3. CASE n # 0
    <3>1. n \in 1 .. n
      BY <1>3, <2>3
    <3>2. P[n].total \in Nat /\ e.total = P[n].total + size
      BY <1>6, <2>1, <2>3, <3>1
    <3> QED
      BY <2>3, <3>2
  <2> QED
    BY <2>2, <2>3
<1>8. Counted(Q)
  <2>1. \A i \in 1 .. n + 1 : i \in 1 .. n \/ i = n + 1
    BY <1>3
  <2>2. \A i \in 1 .. n + 1 : Q[i].now \in Nat /\ Q[i].size \in Nat /\ Q[i].total \in Nat
    BY <1>4, <1>5, <1>6, <1>7, <2>1, Zenon
  <2> QED
    BY <1>3, <1>4, <2>2 DEF Counted
<1>9. ASSUME NEW i \in 1 .. n + 1
      PROVE  Covers(Q, c, i)
  <2>1. CASE i = n + 1
    <3>1. Packets(n + 1, i) = 1 /\ Bytes(Q, n + 1, i) = size /\ Q[i].now = b.last
      BY <1>3, <1>4, <1>7, <2>1 DEF Packets, Bytes
    <3>2. 1 * Second = Second /\ Second + b.last - b.last = Second /\ b.last <= b.last
      BY <1>5
    <3> DEFINE cost == size * Second
    <3>3. Second + c.packets = b.packets /\ cost + c.bytes = b.bytes
      <4>1. cost \in Nat /\ c.bytes = b.bytes - cost
        BY <1>1
      <4>2. Second \in Nat /\ c.packets = b.packets - Second
        BY <1>1
      <4> HIDE DEF cost
      <4> DEFINE had == b.packets
                 left == c.packets
      <4>3. had \in Nat /\ left = had - Second
        BY <1>5, <4>2
      <4> HIDE DEF had, left
      <4>4. Second + left = had
        BY <4>2, <4>3
      <4>5. cost + c.bytes = b.bytes
        BY <1>5, <4>1
      <4> QED
        BY <4>4, <4>5 DEF had, left
    <3> QED
      BY <1>1, <1>4, <1>5, <3>1, <3>2, <3>3, Zenon DEF Covers
  <2>2. CASE i \in 1 .. n
    <3> DEFINE first == P[i].now
    <3> DEFINE packets == Packets(n, i)
    <3> DEFINE bytes == Bytes(P, n, i)
    <3>0. n \in 1 .. n /\ n # 0
      BY <1>3, <2>2
    <3>1. /\ first \in Nat /\ packets \in Int /\ bytes \in Int
          /\ packets * Second \in Int /\ bytes * Second \in Int
      BY <2>2, <3>0, CountedAt DEF Metered
    <3>2. /\ first <= b.last /\ packets * Second + b.packets <= PacketRate * (Second + b.last - first)
          /\ bytes * Second + b.bytes <= ByteRate * (Second + b.last - first)
      BY <2>2 DEF Metered, Covers
    <3>3. Q[i].now = first /\ Packets(n + 1, i) = packets + 1
      BY <1>3, <1>4, <2>2 DEF Packets
    <3>4. Bytes(Q, n + 1, i) = bytes + size
      <4>1. P[n].total \in Nat /\ P[i].total \in Nat /\ P[i].size \in Nat
        BY <1>6, <2>2, <3>0
      <4>2. Q[n + 1].total = P[n].total + size /\ Q[i].total = P[i].total /\ Q[i].size = P[i].size
        BY <1>4, <1>7, <2>2, <3>0, Zenon
      <4>4. (P[n].total + size) - P[i].total + P[i].size = (P[n].total - P[i].total + P[i].size) + size
        <5> DEFINE x == P[n].total
        <5> DEFINE y == P[i].total
        <5> DEFINE z == P[i].size
        <5> SUFFICES (x + size) - y + z = (x - y + z) + size
          OBVIOUS
        <5>1. x \in Nat /\ y \in Nat /\ z \in Nat
          BY <4>1
        <5> HIDE DEF x, y, z
        <5> QED
          BY <5>1
      <4>5. Bytes(Q, n + 1, i) = (P[n].total + size) - P[i].total + P[i].size
        BY <4>2, Zenon DEF Bytes
      <4> QED
        BY <4>4, <4>5, Zenon DEF Bytes
    <3> HIDE DEF first, packets, bytes
    <3>5. (packets + 1) * Second = packets * Second + Second /\ (bytes + size) * Second = bytes * Second + size * Second
      BY <3>1
    <3>6. PacketRate * (Second + b.last - first) \in Int /\ ByteRate * (Second + b.last - first) \in Int
      BY <1>5, <3>1, BoundIsInt
    <3>7. /\ (packets * Second + Second) + c.packets <= PacketRate * (Second + b.last - first)
          /\ (bytes * Second + size * Second) + c.bytes <= ByteRate * (Second + b.last - first)
      BY <1>1, <1>5, <3>1, <3>2, <3>6, Paid, Zenon
    <3>8. /\ first <= c.last
          /\ Packets(n + 1, i) * Second + c.packets <= PacketRate * (Second + c.last - first)
          /\ Bytes(Q, n + 1, i) * Second + c.bytes <= ByteRate * (Second + c.last - first)
      BY <1>1, <3>2, <3>3, <3>4, <3>5, <3>7, Zenon
    <3> QED
      BY <1>4, <3>3, <3>8, Zenon DEF Covers
  <2> QED
    BY <1>3, <2>1, <2>2
<1>10. ASSUME NEW i \in 1 .. n + 1, NEW j \in 1 .. n + 1, i <= j
       PROVE  /\ Packets(j, i) * Second <= PacketRate * (Second + Q[j].now - Q[i].now)
              /\ Bytes(Q, j, i) * Second <= ByteRate * (Second + Q[j].now - Q[i].now)
  <2>1. CASE j = n + 1
    <3> DEFINE first == Q[i].now
    <3> DEFINE packets == Packets(j, i) * Second
    <3> DEFINE bytes == Bytes(Q, j, i) * Second
    <3>1. first \in Nat /\ packets \in Int /\ bytes \in Int
      BY <1>4, <1>8, CountedAt
    <3>2. Len(Q) = j /\ Q[j].now = c.last /\ c.last \in Nat
      BY <1>1, <1>4, <1>5, <2>1, Zenon
    <3>3. /\ packets + c.packets <= PacketRate * (Second + c.last - first)
          /\ bytes + c.bytes <= ByteRate * (Second + c.last - first)
      BY <1>9, <3>2, Zenon DEF Covers
    <3> HIDE DEF first, packets, bytes
    <3>4. PacketRate * (Second + c.last - first) \in Int /\ ByteRate * (Second + c.last - first) \in Int
      BY <3>1, <3>2, BoundIsInt
    <3>5. /\ packets <= PacketRate * (Second + c.last - first)
          /\ bytes <= ByteRate * (Second + c.last - first)
      BY <1>5, <3>1, <3>3, <3>4, Paid, Zenon
    <3> QED
      BY <3>2, <3>5, Zenon DEF first, packets, bytes
  <2>2. CASE j \in 1 .. n /\ i \in 1 .. n
    BY <1>4, <1>10, <2>2 DEF Metered, Rated, Bytes
  <2> QED
    BY <1>3, <1>10, <2>1, <2>2
<1>11. Rated(Q)
  BY <1>4, <1>10 DEF Rated
<1> QED
  BY <1>1, <1>4, <1>8, <1>9, <1>11 DEF Metered, Q, c

(* A sender's first packet finds a full bucket.                            *)
LEMMA FullKeeps ==
    ASSUME NEW now \in Nat
    PROVE  Metered(<< >>, Rate!FullBucket(PacketRate, ByteRate, now))
           /\ Rate!FullBucket(PacketRate, ByteRate, now).last = now
<1>1. << >> \in Seq({}) /\ Len(<< >>) = 0
  OBVIOUS
<1>2. Counted(<< >>) /\ Rated(<< >>)
  BY <1>1 DEF Counted, Rated
<1>3. PacketRate * Second \in Nat /\ ByteRate * Second \in Nat
  BY RateAssumption
<1> QED
  BY <1>1, <1>2, <1>3 DEF Metered, Filled, Rate!FullBucket

-----------------------------------------------------------------------------
(* The senders of "rate" and their buckets.                                *)

(* The bucket of a sender was last touched before t.                       *)
Before(s, t) == s \in DOMAIN memberLim => memberLim[s].last <= t

(* A sender without a bucket has sent nothing.                             *)
SenderSide(s) ==
    IF s \in DOMAIN memberLim
    THEN LET b == memberLim[s] IN
         /\ Metered(passed[s], b) /\ b.last <= clock
         /\ b = [packets |-> b.packets, bytes |-> b.bytes, last |-> b.last]
    ELSE passed[s] = << >>

(* A worker holds a frame with a time that is not before the one of the    *)
(* last frame of the same sender: each sender has one worker.              *)
Held(frame, now, s) == now \in Nat /\ now <= clock /\ frame.size \in Nat /\ Before(s, now)

HostsOnly(queue) == \E S : queue \in Seq(S) /\ \A f \in S : f.sender = Host /\ f.size \in Nat

(* The inductive invariant of "rate".                                      *)
RateInv ==
    /\ clock \in Nat /\ online \subseteq {Member}
    /\ \A f \in net : f.size \in Nat
    /\ HostsOnly(frames)
    /\ remote # NoFrame => Held(remote.frame, remote.now, Member)
    /\ local # NoFrame => Held(local.frame, local.now, Host) /\ local.frame.sender = Host
    /\ passed = [s \in {Member, Host} |-> passed[s]]
    /\ \A s \in {Member, Host} : SenderSide(s)

(* The member is not the host.                                             *)
LEMMA MemberIsNotHost == Member \in Members /\ Member # Host
BY RelayAssumption DEF Member

(* allow: the sender's bucket is refilled and paid, and what it lets       *)
(* through is counted; the other sender is left alone.                     *)
LEMMA AllowKeeps ==
    ASSUME NEW f, NEW now \in Nat, f.size \in Nat, f.sender \in {Member, Host}, now <= clock, clock \in Nat,
           Before(f.sender, now), SenderSide(f.sender), passed = [s \in {Member, Host} |-> passed[s]],
           Rate!Allow(f, now), clock' = clock
    PROVE  /\ SenderSide(f.sender)' /\ passed' = [s \in {Member, Host} |-> passed'[s]]
           /\ \A s \in {Member, Host} : s # f.sender =>
                 /\ passed'[s] = passed[s] /\ (s \in DOMAIN memberLim' <=> s \in DOMAIN memberLim)
                 /\ s \in DOMAIN memberLim => memberLim'[s] = memberLim[s]
<1> DEFINE s == f.sender
<1> DEFINE b == Rate!MemberBucket(s, now)
<1> DEFINE bucket == IF Rate!Enough(b, f.size) THEN Rate!Spend(b, f.size) ELSE b
<1>1. Metered(passed[s], b) /\ b.last = now
  <2>1. CASE s \in DOMAIN memberLim
    <3>1. Metered(passed[s], memberLim[s]) /\ memberLim[s].last <= now
      BY <2>1 DEF SenderSide, Before
    <3> QED
      BY <2>1, <3>1, RefillKeeps DEF Rate!MemberBucket
  <2>2. CASE s \notin DOMAIN memberLim
    <3>1. /\ Metered(<< >>, Rate!FullBucket(PacketRate, ByteRate, now))
          /\ Rate!FullBucket(PacketRate, ByteRate, now).last = now
      BY FullKeeps
    <3>2. passed[s] = << >>
      BY <2>2 DEF SenderSide
    <3>3. now <= now
      OBVIOUS
    <3> QED
      BY <2>2, <3>1, <3>2, <3>3, RefillKeeps DEF Rate!MemberBucket
  <2> QED
    BY <2>1, <2>2
<1>2. b = [packets |-> b.packets, bytes |-> b.bytes, last |-> b.last]
  BY DEF Rate!MemberBucket, Rate!Refill
<1>3. /\ memberLim' = [r \in DOMAIN memberLim \cup {s} |-> IF r = s THEN bucket ELSE memberLim[r]]
      /\ passed' = IF Rate!Allowed(f, now) THEN [passed EXCEPT ![s] = Append(@, Rate!Passing(f, now))] ELSE passed
  BY DEF Rate!Allow, Rate!SetMember
<1>4. Rate!Allowed(f, now) => Rate!Enough(b, f.size)
  BY DEF Rate!Allowed
<1> HIDE DEF b
<1>5. /\ bucket.last = now /\ bucket = [packets |-> bucket.packets, bytes |-> bucket.bytes, last |-> bucket.last]
  BY <1>1, <1>2 DEF Rate!Spend
<1>6. Metered(passed'[s], bucket)
  <2>1. CASE Rate!Allowed(f, now)
    <3>1. passed'[s] = Append(passed[s], Rate!Passing(f, now))
      BY <1>3, <2>1
    <3>2. /\ Rate!Passing(f, now).now = b.last /\ Rate!Passing(f, now).size = f.size
          /\ Rate!Passing(f, now).total = (IF passed[s] = << >> THEN 0 ELSE passed[s][Len(passed[s])].total) + f.size
      BY <1>1 DEF Rate!Passing, Rate!Total
    <3>3. Rate!Enough(b, f.size) /\ bucket = Rate!Spend(b, f.size)
      BY <1>4, <2>1
    <3> QED
      BY <1>1, <1>2, <3>1, <3>2, <3>3, PassKeeps
  <2>2. CASE ~Rate!Allowed(f, now)
    <3>1. passed'[s] = passed[s]
      BY <1>3, <2>2
    <3>2. CASE Rate!Enough(b, f.size)
      BY <1>1, <1>2, <3>1, <3>2, SpendKeeps
    <3>3. CASE ~Rate!Enough(b, f.size)
      BY <1>1, <3>1, <3>3
    <3> QED
      BY <3>2, <3>3
  <2> QED
    BY <2>1, <2>2
<1> HIDE DEF bucket
<1>7. s \in DOMAIN memberLim' /\ memberLim'[s] = bucket
  BY <1>3
<1>8. SenderSide(s)'
  BY <1>5, <1>6, <1>7 DEF SenderSide
<1>9. passed' = [r \in {Member, Host} |-> passed'[r]] /\ \A r \in {Member, Host} : r # s => passed'[r] = passed[r]
  BY <1>3
<1> QED
  BY <1>3, <1>8, <1>9

(* A step that touches neither bucket nor count leaves the senders alone.  *)
LEMMA SendersStay ==
    ASSUME RateInv, UNCHANGED <<memberLim, passed>>, clock' \in Nat, clock <= clock'
    PROVE  /\ \A s \in {Member, Host} : SenderSide(s)'
           /\ \A s \in {Member, Host} : Before(s, clock)
           /\ passed' = [s \in {Member, Host} |-> passed'[s]]
<1>1. ASSUME NEW s \in {Member, Host}
      PROVE  SenderSide(s)' /\ Before(s, clock)
  <2>1. SenderSide(s)
    BY DEF RateInv
  <2>2. CASE s \in DOMAIN memberLim
    <3>1. memberLim[s].last \in Nat /\ memberLim[s].last <= clock
      BY <2>1, <2>2 DEF SenderSide, Metered, Filled
    <3>2. memberLim[s].last <= clock'
      BY <3>1 DEF RateInv
    <3> QED
      BY <2>1, <2>2, <3>1, <3>2 DEF SenderSide, Before
  <2>3. CASE s \notin DOMAIN memberLim
    BY <2>1, <2>3 DEF SenderSide, Before
  <2> QED
    BY <2>2, <2>3
<1> QED
  BY <1>1 DEF RateInv

(* Every step of "rate" keeps the invariant.                               *)
LEMMA RateNext ==
    ASSUME RateInv, Rate!Next
    PROVE  RateInv'
<1> USE MemberIsNotHost DEF Rate!traffic, Rate!history
<1>0. clock \in Nat
  BY DEF RateInv
<1>1. ASSUME NEW s \in Rate!Senders, NEW size \in {1, 2}, Rate!Capture(s, size)
      PROVE  RateInv'
  <2>1. UNCHANGED <<clock, online, remote, local, memberLim, passed>>
    BY <1>1 DEF Rate!Capture
  <2>2. (\A f \in net' : f \in net \/ f.size = size) /\ size \in Nat
    BY <1>1 DEF Rate!Capture, Rate!Frame
  <2>3. HostsOnly(frames)'
    <3>1. PICK S : frames \in Seq(S) /\ \A f \in S : f.sender = Host /\ f.size \in Nat
      BY DEF RateInv, HostsOnly
    <3>2. CASE frames' = frames
      BY <3>1, <3>2 DEF HostsOnly
    <3>3. CASE s = Host /\ frames' = Append(frames, Rate!Frame(s, size))
      <4> DEFINE g == Rate!Frame(s, size)
      <4>1. g.sender = Host /\ g.size \in Nat
        BY <2>2, <3>3 DEF Rate!Frame
      <4> HIDE DEF g
      <4>2. frames' \in Seq(S \cup {g}) /\ \A f \in S \cup {g} : f.sender = Host /\ f.size \in Nat
        BY <3>1, <3>3, <4>1 DEF g
      <4> QED
        BY <4>2 DEF HostsOnly
    <3> QED
      BY <1>1, <3>2, <3>3 DEF Rate!Capture
  <2> QED
    BY <1>0, <2>1, <2>2, <2>3, SendersStay DEF RateInv, Held, Before
<1>2. ASSUME NEW f \in net, Rate!ReadRemote(f)
      PROVE  RateInv'
  <2>1. remote' = [frame |-> f, now |-> clock] /\ UNCHANGED <<clock, online, net, frames, local, memberLim, passed>>
    BY <1>2 DEF Rate!ReadRemote
  <2>2. remote'.frame = f /\ remote'.now = clock /\ f.size \in Nat /\ Before(Member, clock)
    BY <1>0, <2>1, SendersStay DEF RateInv
  <2> QED
    BY <1>0, <2>1, <2>2, SendersStay DEF RateInv, Held, Before, HostsOnly
<1>3. ASSUME Rate!ReadLocal
      PROVE  RateInv'
  <2>1. /\ local' = [frame |-> Head(frames), now |-> clock] /\ frames' = Tail(frames) /\ frames # << >>
        /\ UNCHANGED <<clock, online, net, remote, memberLim, passed>>
    BY <1>3 DEF Rate!ReadLocal
  <2>2. PICK S : frames \in Seq(S) /\ \A f \in S : f.sender = Host /\ f.size \in Nat
    BY DEF RateInv, HostsOnly
  <2>3. Head(frames) \in S /\ Tail(frames) \in Seq(S)
    BY <2>1, <2>2
  <2>4. HostsOnly(frames)'
    BY <2>1, <2>2, <2>3 DEF HostsOnly
  <2>5. local'.frame.sender = Host /\ local'.frame.size \in Nat /\ local'.now = clock /\ Before(Host, clock)
    BY <1>0, <2>1, <2>2, <2>3, SendersStay
  <2> QED
    BY <1>0, <2>1, <2>4, <2>5, SendersStay DEF RateInv, Held, Before
<1>4. ASSUME Rate!HandleMember
      PROVE  RateInv'
  <2>0. remote # NoFrame /\ remote' = NoFrame /\ UNCHANGED <<clock, online, net, frames, local>>
    BY <1>4 DEF Rate!HandleMember, Rate!None, NoFrame
  <2>1. CASE UNCHANGED <<memberLim, passed>>
    BY <1>0, <2>0, <2>1, SendersStay DEF RateInv, Held, Before, HostsOnly
  <2>2. CASE remote.frame.sender \in online /\ Rate!Allow(remote.frame, remote.now)
    <3>1. remote.frame.sender = Member /\ Held(remote.frame, remote.now, Member) /\ SenderSide(Member)
      BY <2>0, <2>2 DEF RateInv
    <3>2. passed = [s \in {Member, Host} |-> passed[s]]
      BY DEF RateInv
    <3>3. /\ SenderSide(Member)' /\ passed' = [s \in {Member, Host} |-> passed'[s]]
          /\ passed'[Host] = passed[Host] /\ (Host \in DOMAIN memberLim' <=> Host \in DOMAIN memberLim)
          /\ Host \in DOMAIN memberLim => memberLim'[Host] = memberLim[Host]
      BY <1>0, <2>0, <2>2, <3>1, <3>2, AllowKeeps DEF Held
    <3>4. SenderSide(Host)' /\ (\A t : Before(Host, t) => Before(Host, t)')
      BY <2>0, <3>3 DEF RateInv, SenderSide, Before
    <3> QED
      BY <2>0, <3>3, <3>4 DEF RateInv, Held, Before, HostsOnly
  <2> QED
    BY <1>4, <2>1, <2>2 DEF Rate!HandleMember
<1>5. ASSUME Rate!HandleHost
      PROVE  RateInv'
  <2>0. /\ local # NoFrame /\ local' = NoFrame /\ UNCHANGED <<clock, online, net, frames, remote>>
        /\ Rate!Allow(local.frame, local.now)
    BY <1>5 DEF Rate!HandleHost, Rate!None, NoFrame
  <2>1. local.frame.sender = Host /\ Held(local.frame, local.now, Host) /\ SenderSide(Host)
    BY <2>0 DEF RateInv
  <2>2. passed = [s \in {Member, Host} |-> passed[s]]
    BY DEF RateInv
  <2>3. /\ SenderSide(Host)' /\ passed' = [s \in {Member, Host} |-> passed'[s]]
        /\ passed'[Member] = passed[Member] /\ (Member \in DOMAIN memberLim' <=> Member \in DOMAIN memberLim)
        /\ Member \in DOMAIN memberLim => memberLim'[Member] = memberLim[Member]
    BY <1>0, <2>0, <2>1, <2>2, AllowKeeps DEF Held
  <2>4. SenderSide(Member)' /\ (\A t : Before(Member, t) => Before(Member, t)')
    BY <2>0, <2>3 DEF RateInv, SenderSide, Before
  <2> QED
    BY <2>0, <2>3, <2>4 DEF RateInv, Held, Before, HostsOnly
<1>6. ASSUME Rate!Tick
      PROVE  RateInv'
  <2>1. clock' = clock + 1 /\ UNCHANGED <<online, net, frames, remote, local, memberLim, passed>>
    BY <1>6 DEF Rate!Tick
  <2>2. clock' \in Nat /\ clock <= clock' /\ \A t \in Nat : t <= clock => t <= clock'
    BY <1>0, <2>1
  <2>3. (\A s \in {Member, Host} : SenderSide(s)') /\ passed' = [s \in {Member, Host} |-> passed'[s]]
    BY <2>1, <2>2, SendersStay
  <2> QED
    BY <2>1, <2>2, <2>3 DEF RateInv, Held, Before, HostsOnly
<1>7. ASSUME NEW m \in {Member},
             (\E f \in inbox[m] : Rate!Deliver(m, f)) \/ Rate!Leave(m) \/ Rate!Rejoin(m)
      PROVE  RateInv'
  <2>1. online' \subseteq {Member} /\ UNCHANGED <<clock, net, frames, remote, local, memberLim, passed>>
    BY <1>7 DEF Rate!Deliver, Rate!Leave, Rate!Rejoin, RateInv
  <2> QED
    BY <1>0, <2>1, SendersStay DEF RateInv, Held, Before, HostsOnly
<1> QED
  BY <1>1, <1>2, <1>3, <1>4, <1>5, <1>6, <1>7 DEF Rate!Next

(* It holds at the start of "rate", where nobody has sent anything, and    *)
(* says that every sender keeps within its rates.                          *)
LEMMA RateHolds == (Rate!Init => RateInv) /\ (RateInv => Rate!MemberRate)
<1>1. Rate!Init => RateInv
  <2> SUFFICES ASSUME Rate!Init PROVE RateInv
    OBVIOUS
  <2>1. frames \in Seq({}) /\ HostsOnly(frames)
    BY DEF Rate!Init, HostsOnly
  <2>2. DOMAIN memberLim = {} /\ passed = [s \in {Member, Host} |-> << >>]
    BY DEF Rate!Init, Rate!Senders
  <2> QED
    BY <2>1, <2>2 DEF Rate!Init, Rate!None, NoFrame, RateInv, SenderSide
<1>2. ASSUME RateInv
      PROVE  Rate!MemberRate
  <2> SUFFICES ASSUME NEW s \in {Member, Host}, NEW i \in DOMAIN passed[s], NEW j \in DOMAIN passed[s], i <= j
               PROVE  /\ (j - i + 1) * Second <= PacketRate * (Second + passed[s][j].now - passed[s][i].now)
                      /\ (passed[s][j].total - passed[s][i].total + passed[s][i].size) * Second
                            <= ByteRate * (Second + passed[s][j].now - passed[s][i].now)
    BY DEF Rate!MemberRate, Rate!Senders
  <2>1. SenderSide(s)
    BY <1>2 DEF RateInv
  <2>2. Counted(passed[s]) /\ Rated(passed[s])
    <3>1. CASE s \in DOMAIN memberLim
      BY <2>1, <3>1 DEF SenderSide, Metered
    <3>2. CASE s \notin DOMAIN memberLim
      BY <2>1, <3>2, FullKeeps DEF SenderSide, Metered
    <3> QED
      BY <3>1, <3>2
  <2>3. DOMAIN passed[s] = 1 .. Len(passed[s])
    BY <2>2 DEF Counted
  <2> QED
    BY <2>2, <2>3 DEF Rated, Packets, Bytes
<1> QED
  BY <1>1, <1>2

-----------------------------------------------------------------------------
(* Api on standard input: the loop answers a command before it reads on.   *)

(* The requests that the loop has read are the first ones that were sent.  *)
Began == {"run", "done", "failed", "answered"}
ReadSoFar == Len(sent) - Len(input)

ApiTypes ==
    /\ input \in Seq(Requests) /\ sent \in Seq(Requests) /\ out \in Seq(Requests)
    /\ phase \in [Requests -> Began \cup {"unsent", "sent"}]
    /\ reader \in Requests \cup {"read", "return", "returned"}

(* What waits to be read are the last requests that were sent, and every   *)
(* request was sent once.                                                  *)
Queued ==
    /\ Len(input) <= Len(sent)
    /\ \A i \in 1 .. Len(input) : input[i] = sent[ReadSoFar + i]
    /\ \A m, n \in 1 .. Len(sent) : sent[m] = sent[n] => m = n
    /\ \A n \in 1 .. Len(sent) : phase[sent[n]] \in (IF n <= ReadSoFar THEN Began ELSE {"sent"})
    /\ \A r \in Requests : phase[r] # "unsent" => \E n \in 1 .. Len(sent) : sent[n] = r

(* The command that the loop dispatches is the last it read, and every     *)
(* command it read before is answered, in its turn, unless the loop ended. *)
Answered(r) == \E i \in 1 .. Len(out) : out[i] = r
InTurn ==
    /\ reader \in Requests =>
          kind[reader] # "join" /\ ReadSoFar > 0 /\ sent[ReadSoFar] = reader /\ phase[reader] # "answered"
    /\ \A n \in 1 .. ReadSoFar : kind[sent[n]] # "join" /\ sent[n] # reader => phase[sent[n]] = "answered"
    /\ \A i \in 1 .. Len(out) : phase[out[i]] = "answered"
    /\ reader \notin {"return", "returned"} =>
          \A r \in Requests : kind[r] # "join" /\ phase[r] = "answered" => Answered(r)

(* What Stdio!CommandsInOrder says, position by position.                  *)
Preceded(i, r) == \E h \in 1 .. Len(out) : h < i /\ out[h] = r

AnswersInOrder ==
    /\ \A i \in 1 .. Len(out) : \E n \in 1 .. Len(sent) : sent[n] = out[i]
    /\ \A i, j \in 1 .. Len(out) : out[i] = out[j] => i = j
    /\ \A i \in 1 .. Len(out), m, n \in 1 .. Len(sent) :
          m < n /\ sent[n] = out[i] /\ kind[sent[m]] # "join" /\ kind[sent[n]] # "join"
             => Preceded(i, sent[m])

(* The inductive invariant of "stdio".                                     *)
ApiInv == ApiTypes /\ Queued /\ InTurn /\ AnswersInOrder

(* It holds at the start, where nothing was sent.                          *)
LEMMA ApiInit == Stdio!Init => ApiInv
BY RequestAssumption DEF Stdio!Init, ApiInv, ApiTypes, Queued, InTurn, AnswersInOrder, ReadSoFar, Began

(* It has the responses in order.                                          *)
LEMMA ApiHolds == ApiInv => Stdio!CommandsInOrder
<1> SUFFICES ASSUME ApiInv PROVE Stdio!CommandsInOrder
  OBVIOUS
<1>1. DOMAIN out = 1 .. Len(out) /\ DOMAIN sent = 1 .. Len(sent)
  BY DEF ApiInv, ApiTypes
<1>2. ASSUME NEW r \in Stdio!Range(out)
      PROVE  r \in Stdio!Range(sent)
  <2>1. PICK i \in 1 .. Len(out) : out[i] = r
    BY <1>1 DEF Stdio!Range
  <2>2. PICK n \in 1 .. Len(sent) : sent[n] = r
    BY <2>1 DEF ApiInv, AnswersInOrder
  <2> QED
    BY <1>1, <2>2 DEF Stdio!Range
<1>3. Stdio!IsInjective(out)
  BY <1>1 DEF ApiInv, AnswersInOrder, Stdio!IsInjective
<1>4. \A i \in DOMAIN out, m, n \in DOMAIN sent :
          m < n /\ sent[n] = out[i] /\ kind[sent[m]] # "join" /\ kind[sent[n]] # "join"
             => \E h \in DOMAIN out : h < i /\ out[h] = sent[m]
  <2> SUFFICES ASSUME NEW i \in DOMAIN out, NEW m \in DOMAIN sent, NEW n \in DOMAIN sent,
                      m < n, sent[n] = out[i], kind[sent[m]] # "join", kind[sent[n]] # "join"
               PROVE  \E h \in DOMAIN out : h < i /\ out[h] = sent[m]
    OBVIOUS
  <2>1. Preceded(i, sent[m])
    <3>1. i \in 1 .. Len(out) /\ m \in 1 .. Len(sent) /\ n \in 1 .. Len(sent)
      BY <1>1
    <3> QED
      BY <3>1, Zenon DEF ApiInv, AnswersInOrder
  <2> QED
    BY <1>1, <2>1 DEF Preceded
<1> QED
  BY <1>2, <1>3, <1>4 DEF Stdio!CommandsInOrder

(* A sequence of requests that one is appended to.                         *)
LEMMA Appended ==
    ASSUME NEW s \in Seq(Requests), NEW r \in Requests
    PROVE  /\ Append(s, r) \in Seq(Requests) /\ Len(Append(s, r)) = Len(s) + 1 /\ Len(s) \in Nat
           /\ \A i \in 1 .. Len(s) : Append(s, r)[i] = s[i]
           /\ Append(s, r)[Len(s) + 1] = r
OBVIOUS

(* The client sends a request it has not sent.                             *)
LEMMA SendKeeps ==
    ASSUME ApiInv, NEW r \in Requests, Stdio!Send(r)
    PROVE  ApiInv'
<1>1. /\ phase[r] = "unsent" /\ phase' = [phase EXCEPT ![r] = "sent"]
      /\ input' = Append(input, r) /\ sent' = Append(sent, r) /\ UNCHANGED <<kind, reader, out>>
  BY DEF Stdio!Send
<1>2. /\ input' \in Seq(Requests) /\ Len(input') = Len(input) + 1 /\ Len(input) \in Nat
      /\ \A i \in 1 .. Len(input) : input'[i] = input[i]
      /\ input'[Len(input) + 1] = r
  BY <1>1, Appended DEF ApiInv, ApiTypes
<1>3. /\ sent' \in Seq(Requests) /\ Len(sent') = Len(sent) + 1 /\ Len(sent) \in Nat
      /\ \A i \in 1 .. Len(sent) : sent'[i] = sent[i]
      /\ sent'[Len(sent) + 1] = r
  BY <1>1, Appended DEF ApiInv, ApiTypes
<1>4. ReadSoFar' = ReadSoFar /\ ReadSoFar \in 0 .. Len(sent) /\ ReadSoFar = Len(sent) - Len(input)
  BY <1>2, <1>3 DEF ReadSoFar, ApiInv, Queued
<1>5. ASSUME NEW n \in 1 .. Len(sent)
      PROVE  sent[n] \in Requests /\ sent[n] # r
  <2>1. phase[sent[n]] # "unsent"
    BY DEF ApiInv, Queued, Began
  <2> QED
    BY <1>1, <2>1 DEF ApiInv, ApiTypes
<1>6. \A s \in Requests : s # r => phase'[s] = phase[s]
  BY <1>1 DEF ApiInv, ApiTypes
<1>7. phase'[r] = "sent"
  BY <1>1 DEF ApiInv, ApiTypes
<1>8. ApiTypes'
  BY <1>1, <1>2, <1>3 DEF ApiInv, ApiTypes
<1>9. Queued'
  <2>1. \A i \in 1 .. Len(input') : input'[i] = sent'[ReadSoFar + i]
    <3> SUFFICES ASSUME NEW i \in 1 .. Len(input') PROVE input'[i] = sent'[ReadSoFar + i]
      OBVIOUS
    <3>1. CASE i = Len(input) + 1
      BY <3>1, <1>2, <1>3, <1>4
    <3>2. CASE i \in 1 .. Len(input)
      <4>1. ReadSoFar + i \in 1 .. Len(sent)
        BY <3>2, <1>2, <1>3, <1>4
      <4>2. input[i] = sent[ReadSoFar + i]
        BY <3>2 DEF ApiInv, Queued
      <4> QED
        BY <3>2, <4>1, <4>2, <1>2, <1>3
    <3> QED
      BY <3>1, <3>2, <1>2
  <2>2. \A m, n \in 1 .. Len(sent') : sent'[m] = sent'[n] => m = n
    BY <1>3, <1>5 DEF ApiInv, Queued
  <2>3. \A n \in 1 .. Len(sent') : phase'[sent'[n]] \in (IF n <= ReadSoFar THEN Began ELSE {"sent"})
    BY <1>3, <1>4, <1>5, <1>6, <1>7 DEF ApiInv, Queued
  <2>4. \A s \in Requests : phase'[s] # "unsent" => \E n \in 1 .. Len(sent') : sent'[n] = s
    BY <1>3, <1>6 DEF ApiInv, Queued
  <2> QED
    BY <1>2, <1>3, <1>4, <2>1, <2>2, <2>3, <2>4 DEF Queued, ApiInv
<1>10. InTurn'
  <2>1. \A i \in 1 .. Len(out) : out[i] # r /\ out[i] \in Requests
    BY <1>1 DEF ApiInv, ApiTypes, InTurn
  <2>2. reader \in Requests => reader # r
    BY <1>4, <1>5 DEF ApiInv, InTurn
  <2> QED
    BY <1>1, <1>3, <1>4, <1>5, <1>6, <1>7, <2>1, <2>2 DEF ApiInv, InTurn, Answered
<1>11. AnswersInOrder'
  <2>1. \A i \in 1 .. Len(out) : out[i] # r
    BY <1>1 DEF ApiInv, InTurn
  <2>2. \A i \in 1 .. Len(out) : \E n \in 1 .. Len(sent') : sent'[n] = out[i]
    BY <1>3 DEF ApiInv, AnswersInOrder
  <2>3. ASSUME NEW i \in 1 .. Len(out), NEW m \in 1 .. Len(sent'), NEW n \in 1 .. Len(sent'),
               m < n, sent'[n] = out[i], kind[sent'[m]] # "join", kind[sent'[n]] # "join"
        PROVE  Preceded(i, sent[m])'
    <3>1. n # Len(sent) + 1
      BY <2>1, <2>3, <1>3
    <3>2. m \in 1 .. Len(sent) /\ n \in 1 .. Len(sent)
      BY <2>3, <3>1, <1>3
    <3>3. sent'[m] = sent[m] /\ sent'[n] = sent[n]
      BY <3>2, <1>3
    <3>4. Preceded(i, sent[m])
      BY <2>3, <3>2, <3>3 DEF ApiInv, AnswersInOrder
    <3> QED
      BY <3>3, <3>4, <1>1 DEF Preceded
  <2>4. \A i, j \in 1 .. Len(out) : out[i] = out[j] => i = j
    BY DEF ApiInv, AnswersInOrder
  <2> QED
    BY <1>1, <2>2, <2>3, <2>4, Zenon DEF AnswersInOrder
<1> QED
  BY <1>8, <1>9, <1>10, <1>11 DEF ApiInv

(* The loop reads a request: every command it read before is answered.     *)
LEMMA ReadKeeps ==
    ASSUME ApiInv, Stdio!Read
    PROVE  ApiInv'
<1> DEFINE r == Head(input)
<1>1. /\ reader = "read" /\ input # << >> /\ input' = Tail(input) /\ UNCHANGED <<kind, sent, out>>
      /\ phase' = [phase EXCEPT ![r] = IF kind[r] = "invalid" THEN "failed" ELSE "run"]
      /\ reader' = IF kind[r] = "join" THEN "read" ELSE r
  BY DEF Stdio!Read, Stdio!OwnGoroutine, Stdio!client
<1>2. /\ r \in Requests /\ r = input[1] /\ input' \in Seq(Requests) /\ Len(input) > 0 /\ Len(input) \in Nat
      /\ Len(input') = Len(input) - 1 /\ \A i \in 1 .. Len(input') : input'[i] = input[i + 1]
  BY <1>1 DEF ApiInv, ApiTypes
<1>3. Len(sent) \in Nat
  BY DEF ApiInv, ApiTypes
<1> HIDE DEF r
<1>4. ReadSoFar' = ReadSoFar + 1 /\ ReadSoFar \in Nat /\ ReadSoFar < Len(sent) /\ ReadSoFar = Len(sent) - Len(input)
  BY <1>1, <1>2, <1>3 DEF ReadSoFar, ApiInv, Queued
<1>5. sent[ReadSoFar + 1] = r
  BY <1>2, <1>4 DEF ApiInv, Queued
<1>6. phase[r] = "sent"
  BY <1>4, <1>5, <1>3 DEF ApiInv, Queued
<1>7. phase'[r] \in {"run", "failed"} /\ \A s \in Requests : s # r => phase'[s] = phase[s]
  BY <1>1, <1>2 DEF ApiInv, ApiTypes
<1>8. ASSUME NEW n \in 1 .. Len(sent)
      PROVE  sent[n] \in Requests /\ (sent[n] = r => n = ReadSoFar + 1)
  <2>1. ReadSoFar + 1 \in 1 .. Len(sent)
    BY <1>3, <1>4
  <2>2. sent[n] = r => n = ReadSoFar + 1
    BY <2>1, <1>5 DEF ApiInv, Queued
  <2> QED
    BY <2>2 DEF ApiInv, ApiTypes
<1>9. ApiTypes'
  BY <1>1, <1>2 DEF ApiInv, ApiTypes, Began
<1>10. Queued'
  <2>1. ASSUME NEW i \in 1 .. Len(input')
        PROVE  input'[i] = sent[ReadSoFar + 1 + i]
    <3>1. i + 1 \in 1 .. Len(input)
      BY <1>2
    <3>2. input[i + 1] = sent[ReadSoFar + (i + 1)]
      BY <3>1 DEF ApiInv, Queued
    <3>3. ReadSoFar + (i + 1) = ReadSoFar + 1 + i
      BY <1>4
    <3> QED
      BY <3>2, <3>3, <1>2
  <2>2. \A n \in 1 .. Len(sent) : phase'[sent[n]] \in (IF n <= ReadSoFar + 1 THEN Began ELSE {"sent"})
    <3> SUFFICES ASSUME NEW n \in 1 .. Len(sent)
                 PROVE  phase'[sent[n]] \in (IF n <= ReadSoFar + 1 THEN Began ELSE {"sent"})
      OBVIOUS
    <3>1. CASE n = ReadSoFar + 1
      BY <3>1, <1>5, <1>7, <1>4 DEF Began
    <3>2. CASE n # ReadSoFar + 1
      <4>1. phase'[sent[n]] = phase[sent[n]]
        BY <3>2, <1>7, <1>8
      <4>2. n <= ReadSoFar + 1 <=> n <= ReadSoFar
        BY <3>2, <1>4
      <4> QED
        BY <4>1, <4>2 DEF ApiInv, Queued
    <3> QED
      BY <3>1, <3>2
  <2>3. \A s \in Requests : phase'[s] # "unsent" => \E n \in 1 .. Len(sent) : sent[n] = s
    BY <1>6, <1>7 DEF ApiInv, Queued
  <2>4. Len(input') <= Len(sent) /\ \A m, n \in 1 .. Len(sent) : sent[m] = sent[n] => m = n
    BY <1>2, <1>3 DEF ApiInv, Queued
  <2>5. sent' = sent /\ ReadSoFar' = ReadSoFar + 1
    BY <1>1, <1>4
  <2> QED
    BY <2>1, <2>2, <2>3, <2>4, <2>5 DEF Queued
<1>11. InTurn'
  <2>1. \A i \in 1 .. Len(out) : out[i] # r /\ out[i] \in Requests
    BY <1>6 DEF ApiInv, ApiTypes, InTurn
  <2>2. reader \notin Requests
    BY <1>1, RequestAssumption
  <2>3. \A n \in 1 .. ReadSoFar : kind[sent[n]] # "join" => phase'[sent[n]] = "answered"
    <3> SUFFICES ASSUME NEW n \in 1 .. ReadSoFar, kind[sent[n]] # "join" PROVE phase'[sent[n]] = "answered"
      OBVIOUS
    <3>1. n \in 1 .. Len(sent) /\ n # ReadSoFar + 1
      BY <1>3, <1>4
    <3>2. sent[n] \in Requests /\ sent[n] # r
      BY <3>1, <1>8
    <3>3. phase[sent[n]] = "answered"
      BY <2>2, <3>2 DEF ApiInv, InTurn
    <3> QED
      BY <3>2, <3>3, <1>7
  <2>4. reader' \in Requests =>
          kind[reader'] # "join" /\ ReadSoFar' > 0 /\ sent'[ReadSoFar'] = reader' /\ phase'[reader'] # "answered"
    BY <1>1, <1>4, <1>5, <1>7, RequestAssumption
  <2>5. \A n \in 1 .. ReadSoFar' : kind'[sent'[n]] # "join" /\ sent'[n] # reader' => phase'[sent'[n]] = "answered"
    BY <1>1, <1>4, <1>5, <2>3
  <2>6. \A i \in 1 .. Len(out') : phase'[out'[i]] = "answered"
    BY <1>1, <1>7, <2>1 DEF ApiInv, InTurn
  <2>7. \A s \in Requests : kind'[s] # "join" /\ phase'[s] = "answered" => Answered(s)'
    BY <1>1, <1>7 DEF ApiInv, InTurn, Answered
  <2> QED
    BY <1>1, <2>4, <2>5, <2>6, <2>7 DEF InTurn
<1>12. AnswersInOrder'
  BY <1>1 DEF ApiInv, AnswersInOrder, Preceded
<1> QED
  BY <1>9, <1>10, <1>11, <1>12 DEF ApiInv

(* A command takes effect or fails.                                        *)
LEMMA DispatchKeeps ==
    ASSUME ApiInv, NEW r \in Requests, Stdio!Dispatch(r)
    PROVE  ApiInv'
<1>1. /\ phase[r] = "run" /\ UNCHANGED <<kind, input, sent, reader, out>>
      /\ \E p \in {"done", "failed"} : phase' = [phase EXCEPT ![r] = p]
  BY DEF Stdio!Dispatch, Stdio!client
<1>2. phase'[r] \in {"done", "failed"} /\ \A s \in Requests : s # r => phase'[s] = phase[s]
  BY <1>1 DEF ApiInv, ApiTypes
<1>3. /\ \A n \in 1 .. Len(sent) : sent[n] \in Requests
      /\ \A i \in 1 .. Len(out) : out[i] \in Requests
  BY DEF ApiInv, ApiTypes
<1>4. ReadSoFar' = ReadSoFar
  BY <1>1 DEF ReadSoFar
<1>5. ApiTypes'
  BY <1>1 DEF ApiInv, ApiTypes, Began
<1>6. Queued'
  <2>1. \A n \in 1 .. Len(sent) : phase'[sent[n]] \in (IF n <= ReadSoFar THEN Began ELSE {"sent"})
    BY <1>1, <1>2, <1>3 DEF ApiInv, Queued, Began
  <2>2. \A s \in Requests : phase'[s] # "unsent" => \E n \in 1 .. Len(sent) : sent[n] = s
    BY <1>1, <1>2 DEF ApiInv, Queued
  <2> QED
    BY <1>1, <1>4, <2>1, <2>2 DEF ApiInv, Queued
<1>7. InTurn'
  <2>1. \A n \in 1 .. ReadSoFar : sent[n] \in Requests
    BY DEF ApiInv, ApiTypes, Queued, ReadSoFar
  <2> QED
    BY <1>1, <1>2, <1>3, <1>4, <2>1 DEF ApiInv, InTurn, Answered
<1>8. AnswersInOrder'
  BY <1>1 DEF ApiInv, AnswersInOrder, Preceded
<1> QED
  BY <1>5, <1>6, <1>7, <1>8 DEF ApiInv

(* A response is written, or is not because the client has gone.  A        *)
(* command that the loop dispatches is the last one that it read.          *)
LEMMA ResponseKeeps ==
    ASSUME ApiInv, NEW r \in Requests, phase[r] \in {"done", "failed"}, Stdio!Write(r),
           phase' = [phase EXCEPT ![r] = "answered"], UNCHANGED <<kind, input, sent, broken>>,
           kind[r] # "join" => reader = r,
           \/ reader # r /\ reader' = reader
           \/ reader = r /\ reader' \in {"read", "return"} /\ (broken => reader' = "return")
    PROVE  ApiInv'
<1>1. phase'[r] = "answered" /\ \A s \in Requests : s # r => phase'[s] = phase[s]
  BY DEF ApiInv, ApiTypes
<1>2. /\ \A n \in 1 .. Len(sent) : sent[n] \in Requests
      /\ \A i \in 1 .. Len(out) : out[i] \in Requests /\ out[i] # r
      /\ Len(sent) \in Nat /\ Len(out) \in Nat
  BY DEF ApiInv, ApiTypes, InTurn
<1>3. ReadSoFar' = ReadSoFar /\ ReadSoFar \in Nat /\ ReadSoFar <= Len(sent)
  BY DEF ReadSoFar, ApiInv, ApiTypes, Queued
<1>4. /\ out' \in Seq(Requests) /\ \A i \in 1 .. Len(out) : i \in 1 .. Len(out') /\ out'[i] = out[i]
      /\ \A i \in 1 .. Len(out') : i \in 1 .. Len(out) \/ (i = Len(out) + 1 /\ out'[i] = r)
      /\ ~broken => Len(out') = Len(out) + 1 /\ out'[Len(out) + 1] = r
  <2>1. CASE broken
    BY <2>1 DEF Stdio!Write, ApiInv, ApiTypes
  <2>2. CASE ~broken
    <3>1. out' = Append(out, r)
      BY <2>2 DEF Stdio!Write
    <3> QED
      BY <3>1, Appended DEF ApiInv, ApiTypes
  <2> QED
    BY <2>1, <2>2
<1>5. ApiTypes'
  BY <1>4 DEF ApiInv, ApiTypes, Began
<1>6. Queued'
  <2>1. \A n \in 1 .. Len(sent) : phase'[sent[n]] \in (IF n <= ReadSoFar THEN Began ELSE {"sent"})
    BY <1>1, <1>2 DEF ApiInv, Queued, Began
  <2>2. \A s \in Requests : phase'[s] # "unsent" => \E n \in 1 .. Len(sent) : sent[n] = s
    BY <1>1 DEF ApiInv, Queued
  <2> QED
    BY <1>3, <2>1, <2>2 DEF ApiInv, Queued
<1>7. InTurn'
  <2>1. \A n \in 1 .. ReadSoFar : sent[n] \in Requests
    BY <1>2, <1>3
  <2>2. reader' \in Requests =>
          kind[reader'] # "join" /\ ReadSoFar > 0 /\ sent[ReadSoFar] = reader' /\ phase'[reader'] # "answered"
    BY <1>1, RequestAssumption DEF ApiInv, InTurn
  <2>3. \A n \in 1 .. ReadSoFar : kind[sent[n]] # "join" /\ sent[n] # reader' => phase'[sent[n]] = "answered"
    BY <1>1, <2>1 DEF ApiInv, InTurn
  <2>4. \A i \in 1 .. Len(out') : phase'[out'[i]] = "answered"
    BY <1>1, <1>2, <1>4 DEF ApiInv, InTurn
  <2>5. ASSUME reader' \notin {"return", "returned"}, NEW s \in Requests, kind[s] # "join", phase'[s] = "answered"
        PROVE  Answered(s)'
    <3>1. CASE s = r
      <4>1. ~broken
        BY <2>5, <3>1
      <4> QED
        BY <3>1, <4>1, <1>2, <1>4 DEF Answered
    <3>2. CASE s # r
      <4>1. reader \notin {"return", "returned"}
        BY <2>5, RequestAssumption
      <4>2. Answered(s)
        BY <2>5, <3>2, <4>1, <1>1 DEF ApiInv, InTurn
      <4> QED
        BY <4>2, <1>4 DEF Answered
    <3> QED
      BY <3>1, <3>2
  <2> QED
    BY <1>3, <2>2, <2>3, <2>4, <2>5 DEF InTurn
<1>8. AnswersInOrder'
  <2>1. \E n \in 1 .. Len(sent) : sent[n] = r
    BY DEF ApiInv, Queued
  <2>2. ASSUME NEW i \in 1 .. Len(out'), NEW j \in 1 .. Len(out'), out'[i] = out'[j]
        PROVE  i = j
    <3>1. CASE i \in 1 .. Len(out) /\ j \in 1 .. Len(out)
      BY <1>4, <2>2, <3>1 DEF ApiInv, AnswersInOrder
    <3>2. CASE i \notin 1 .. Len(out) /\ j \notin 1 .. Len(out)
      BY <1>4, <3>2, Zenon
    <3>3. CASE i \in 1 .. Len(out) /\ j \notin 1 .. Len(out)
      BY <1>2, <1>4, <2>2, <3>3, Zenon
    <3>4. CASE i \notin 1 .. Len(out) /\ j \in 1 .. Len(out)
      BY <1>2, <1>4, <2>2, <3>4, Zenon
    <3> QED
      BY <3>1, <3>2, <3>3, <3>4
  <2>3. ASSUME NEW i \in 1 .. Len(out'), NEW m \in 1 .. Len(sent), NEW n \in 1 .. Len(sent),
               m < n, sent[n] = out'[i], kind[sent[m]] # "join", kind[sent[n]] # "join"
        PROVE  Preceded(i, sent[m])'
    <3>1. CASE i \in 1 .. Len(out)
      <4>1. PICK h \in 1 .. Len(out) : h < i /\ out[h] = sent[m]
        BY <2>3, <3>1, <1>4 DEF ApiInv, AnswersInOrder, Preceded
      <4> QED
        BY <4>1, <1>4 DEF Preceded
    <3>2. CASE i = Len(out) + 1 /\ out'[i] = r
      <4>1. reader = r
        BY <2>3, <3>2
      <4>2. sent[ReadSoFar] = r /\ ReadSoFar > 0
        BY <4>1 DEF ApiInv, InTurn
      <4>3. n = ReadSoFar
        BY <2>3, <3>2, <4>2, <1>3 DEF ApiInv, Queued
      <4>4. sent[m] # r /\ m \in 1 .. ReadSoFar
        BY <2>3, <4>2, <4>3, <1>3 DEF ApiInv, Queued
      <4>5. phase[sent[m]] = "answered"
        BY <2>3, <4>1, <4>4 DEF ApiInv, InTurn
      <4>6. Answered(sent[m])
        BY <2>3, <4>1, <4>5, <1>2, RequestAssumption DEF ApiInv, InTurn
      <4> QED
        BY <3>2, <4>6, <1>4, <1>2 DEF Answered, Preceded
    <3> QED
      BY <3>1, <3>2, <1>4
  <2> QED
    BY <1>4, <2>1, <2>2, <2>3 DEF ApiInv, AnswersInOrder
<1> QED
  BY <1>5, <1>6, <1>7, <1>8 DEF ApiInv

(* The loop ends.                                                          *)
LEMMA EndKeeps ==
    ASSUME ApiInv, reader \notin Requests, reader' \in {"return", "returned"},
           UNCHANGED <<kind, input, sent, phase, out>>
    PROVE  ApiInv'
<1>1. ReadSoFar' = ReadSoFar /\ reader' \notin Requests
  BY RequestAssumption DEF ReadSoFar
<1>2. \A n \in 1 .. ReadSoFar : sent[n] \in Requests
  BY DEF ApiInv, ApiTypes, Queued, ReadSoFar
<1>3. InTurn'
  BY <1>1, <1>2 DEF ApiInv, InTurn
<1> QED
  BY <1>1, <1>3 DEF ApiInv, ApiTypes, Queued, AnswersInOrder, Preceded

(* A step that the invariant does not see.                                 *)
LEMMA ApiStays ==
    ASSUME ApiInv, UNCHANGED <<kind, input, sent, phase, out, reader>>
    PROVE  ApiInv'
BY DEF ApiInv, ApiTypes, Queued, InTurn, AnswersInOrder, ReadSoFar, Answered, Preceded

(* Every step of the client, the loop, a join and the ticker keeps it.     *)
LEMMA ApiNext ==
    ASSUME ApiInv, Stdio!Next
    PROVE  ApiInv'
<1>1. CASE Stdio!Read
  BY <1>1, ReadKeeps
<1>2. CASE Stdio!EndOfInput
  BY <1>2, EndKeeps, RequestAssumption DEF Stdio!EndOfInput, Stdio!client
<1>3. CASE Stdio!Return
  BY <1>3, EndKeeps, RequestAssumption DEF Stdio!Return, Stdio!client
<1>4. ASSUME NEW r \in Requests, Stdio!Respond(r)
      PROVE  ApiInv'
  <2>1. reader' \in {"read", "return"} /\ (broken => reader' = "return")
    BY <1>4 DEF Stdio!Respond, Stdio!Ends
  <2> QED
    BY <1>4, <2>1, ResponseKeeps DEF Stdio!Respond, Stdio!client
<1>5. ASSUME NEW r \in Requests, Stdio!RespondAlone(r)
      PROVE  ApiInv'
  <2>1. kind[r] = "join"
    <3>1. PICK n \in 1 .. Len(sent) : sent[n] = r
      BY <1>5 DEF Stdio!RespondAlone, ApiInv, Queued
    <3>2. n <= ReadSoFar
      BY <1>5, <3>1 DEF Stdio!RespondAlone, ApiInv, Queued
    <3>3. n \in 1 .. ReadSoFar
      BY <3>2 DEF ReadSoFar, ApiInv, ApiTypes
    <3> QED
      BY <1>5, <3>1, <3>3 DEF Stdio!RespondAlone, ApiInv, InTurn
  <2> QED
    BY <1>5, <2>1, ResponseKeeps DEF Stdio!RespondAlone, Stdio!client
<1>6. CASE Stdio!Tick \/ Stdio!CloseInput \/ Stdio!Break
  BY <1>6, ApiStays DEF Stdio!Tick, Stdio!CloseInput, Stdio!Break, Stdio!client
<1> QED
  BY <1>1, <1>2, <1>3, <1>4, <1>5, <1>6, SendKeeps, DispatchKeeps DEF Stdio!Next, Stdio!Loop

-----------------------------------------------------------------------------
(* PairServer: the slots, the locks and what Close waits for.              *)
Pairing == {"handle", "pair", "configure"}
Controlled == {"report", "write", "control", "known", "store", "refuse", "end"}
InPair == {c \in Conns : conn[c] \in Pairing}

ServerTypes ==
    /\ conn \in [Conns -> {"away", "gone"} \cup Pairing \cup Controlled]
    /\ slots \in Nat /\ owners \subseteq Conns /\ registered \subseteq Conns
    /\ running \in BOOLEAN /\ listening \in BOOLEAN
    /\ roomLock \in {Nobody, Remover} /\ writeMu \in Conns \cup {Nobody, Remover}

(* Slots are counted, and entries, registrations and the lock for writes   *)
(* belong to connections that are far enough.                              *)
Slots == slots = Cardinality(InPair) /\ slots <= MaxConcurrent
Holders ==
    /\ \A c \in owners : conn[c] \in Controlled
    /\ \A c \in registered : conn[c] \in {"pair", "configure"} \cup Controlled
    /\ writeMu \in Conns => conn[writeMu] \in {"write", "refuse"}
    /\ writeMu = Remover => roomLock = Remover

(* Stop waits for RemoveMember, and Close for everyone else.               *)
Closes ==
    /\ closing # "no" => running = FALSE /\ roomLock = Nobody
    /\ closing \in {"connections", "wait", "returned"} => listening = FALSE
    /\ closing = "returned" => \A c \in Conns : conn[c] \in {"away", "gone"}

(* The inductive invariant of "pair".                                      *)
ServerInv == ServerTypes /\ Slots /\ Holders /\ Closes

(* Nobody is connected at the start.                                       *)
LEMMA ServerInit == Pair!Init => ServerInv
<1> SUFFICES ASSUME Pair!Init PROVE ServerInv
  OBVIOUS
<1>1. InPair = {} /\ Cardinality({}) = 0
  BY FS_EmptySet DEF Pair!Init, InPair, Pairing
<1>2. Slots
  BY <1>1, LockAssumption DEF Pair!Init, Slots
<1>3. ServerTypes /\ Holders /\ Closes
  BY LockAssumption DEF Pair!Init, ServerTypes, Holders, Closes
<1> QED
  BY <1>2, <1>3 DEF ServerInv

(* A connection moves: the others stay, and the ones that pair are the     *)
(* same but for it.                                                        *)
LEMMA ConnMoves ==
    ASSUME ServerTypes, NEW c \in Conns, NEW place \in {"away", "gone"} \cup Pairing \cup Controlled,
           Pair!Goto(c, place)
    PROVE  /\ conn' \in [Conns -> {"away", "gone"} \cup Pairing \cup Controlled]
           /\ conn'[c] = place /\ \A d \in Conns \ {c} : conn'[d] = conn[d]
           /\ InPair' = IF place \in Pairing THEN InPair \cup {c} ELSE InPair \ {c}
<1>1. /\ conn' \in [Conns -> {"away", "gone"} \cup Pairing \cup Controlled]
      /\ conn'[c] = place /\ \A d \in Conns \ {c} : conn'[d] = conn[d]
  BY DEF ServerTypes, Pair!Goto
<1> QED
  BY <1>1 DEF InPair

(* What the connections that pair amount to when one of them moves.        *)
LEMMA SlotsCount ==
    ASSUME ServerTypes, Slots, NEW c \in Conns
    PROVE  /\ Cardinality(InPair \cup {c}) = IF conn[c] \in Pairing THEN slots ELSE slots + 1
           /\ Cardinality(InPair \ {c}) = IF conn[c] \in Pairing THEN slots - 1 ELSE slots
<1>1. IsFiniteSet(InPair) /\ (c \in InPair <=> conn[c] \in Pairing)
  BY LockAssumption, FS_Subset DEF InPair
<1>2. Cardinality(InPair) = slots
  BY DEF Slots
<1> QED
  BY <1>1, <1>2, FS_AddElement, FS_RemoveElement

(* A connection moves within pairing or outside it, without a slot.        *)
LEMMA SlotsKept ==
    ASSUME ServerInv, NEW c \in Conns, NEW place \in {"away", "gone"} \cup Pairing \cup Controlled,
           Pair!Goto(c, place), slots' = slots, place \in Pairing <=> conn[c] \in Pairing
    PROVE  Slots'
<1>1. InPair' = IF place \in Pairing THEN InPair \cup {c} ELSE InPair \ {c}
  BY ConnMoves DEF ServerInv
<1>2. Cardinality(InPair') = slots
  BY <1>1, SlotsCount DEF ServerInv
<1> QED
  BY <1>2 DEF ServerInv, Slots

(* serve refuses a client or hands it a slot.                              *)
LEMMA AcceptKeeps ==
    ASSUME ServerInv, NEW c \in Conns, Pair!Accept(c)
    PROVE  ServerInv'
<1>1. /\ conn[c] = "away" /\ listening
      /\ UNCHANGED <<registered, owners, roomLock, writeMu, running, listening, closing>>
  BY DEF Pair!Accept, Pair!locks, Pair!server
<1>2. PICK place \in {"gone", "handle"} :
          Pair!Goto(c, place) /\ (place = "gone" => slots' = slots)
          /\ (place = "handle" => slots < MaxConcurrent /\ slots' = slots + 1)
  BY DEF Pair!Accept
<1>3. /\ conn' \in [Conns -> {"away", "gone"} \cup Pairing \cup Controlled]
      /\ conn'[c] = place /\ \A d \in Conns \ {c} : conn'[d] = conn[d]
      /\ InPair' = IF place \in Pairing THEN InPair \cup {c} ELSE InPair \ {c}
  <2>1. place \in {"away", "gone"} \cup Pairing \cup Controlled
    BY DEF Pairing
  <2> QED
    BY <1>2, <2>1, ConnMoves DEF ServerInv
<1>4. Slots'
  <2>1. Cardinality(InPair \cup {c}) = slots + 1 /\ Cardinality(InPair \ {c}) = slots
    BY <1>1, SlotsCount DEF ServerInv, Pairing
  <2>2. slots' = Cardinality(InPair')
    BY <1>2, <1>3, <2>1 DEF Pairing
  <2>3. slots' <= MaxConcurrent
    BY <1>2, LockAssumption DEF ServerInv, ServerTypes, Slots
  <2> QED
    BY <2>2, <2>3 DEF Slots
<1>5. ServerTypes'
  BY <1>1, <1>2, <1>3 DEF ServerInv, ServerTypes
<1>6. c \notin owners /\ c \notin registered /\ c # writeMu
  BY <1>1 DEF ServerInv, Holders, Controlled
<1>7. Holders'
  BY <1>1, <1>3, <1>6 DEF ServerInv, ServerTypes, Holders
<1>8. Closes'
  BY <1>1 DEF ServerInv, Closes
<1> QED
  BY <1>4, <1>5, <1>7, <1>8 DEF ServerInv

(* pair ends, one way or the other: its slot is returned.                  *)
LEMMA SlotReturned ==
    ASSUME ServerInv, NEW c \in Conns, conn[c] \in {"pair", "configure"},
           NEW place \in {"control", "end"}, Pair!Goto(c, place), slots' = slots - 1,
           UNCHANGED <<registered, owners, roomLock, writeMu, running, listening, closing>>
    PROVE  ServerInv'
<1>1. place \in {"away", "gone"} \cup Pairing \cup Controlled /\ place \in Controlled /\ place \notin Pairing
  BY DEF Pairing, Controlled
<1>2. /\ conn' \in [Conns -> {"away", "gone"} \cup Pairing \cup Controlled]
      /\ conn'[c] = place /\ \A d \in Conns \ {c} : conn'[d] = conn[d]
      /\ InPair' = InPair \ {c}
  BY <1>1, ConnMoves DEF ServerInv
<1>3. Slots' /\ slots' \in Nat
  <2>1. Cardinality(InPair') = slots'
    BY <1>2, SlotsCount DEF ServerInv, Pairing
  <2>2. IsFiniteSet(InPair') /\ Cardinality(InPair') \in Nat
    BY LockAssumption, FS_Subset, FS_CardinalityType DEF InPair
  <2> QED
    BY <2>1, <2>2, LockAssumption DEF ServerInv, ServerTypes, Slots
<1>4. ServerTypes'
  BY <1>2, <1>3 DEF ServerInv, ServerTypes
<1>5. c # writeMu
  BY DEF ServerInv, Holders
<1>6. Holders'
  BY <1>1, <1>2, <1>5 DEF ServerInv, ServerTypes, Holders
<1>7. Closes'
  BY DEF ServerInv, Closes
<1> QED
  BY <1>3, <1>4, <1>6, <1>7 DEF ServerInv

(* A goroutine goes on without a slot to take or to give back.             *)
LEMMA GoesOn ==
    ASSUME ServerInv, NEW c \in Conns, NEW place \in {"gone", "pair", "configure"} \cup Controlled,
           Pair!Goto(c, place), slots' = slots, conn[c] \notin {"away", "gone"},
           place \in Pairing <=> conn[c] \in Pairing,
           owners' \subseteq owners \cup {c}, c \in owners' => place \in Controlled,
           registered' \subseteq registered \cup {c}, c \in registered' => place # "gone",
           writeMu' \in {writeMu, Nobody}, writeMu' # c,
           UNCHANGED <<roomLock, running, listening, closing>>
    PROVE  ServerInv'
<1>1. place \in {"away", "gone"} \cup Pairing \cup Controlled
  BY DEF Pairing
<1>2. /\ conn' \in [Conns -> {"away", "gone"} \cup Pairing \cup Controlled]
      /\ conn'[c] = place /\ \A d \in Conns \ {c} : conn'[d] = conn[d]
  BY <1>1, ConnMoves DEF ServerInv
<1>3. Slots'
  BY <1>1, SlotsKept
<1>4. ServerTypes'
  BY <1>2 DEF ServerInv, ServerTypes
<1>5. Holders'
  <2>1. \A d \in owners' : conn'[d] \in Controlled
    BY <1>2 DEF ServerInv, ServerTypes, Holders
  <2>2. \A d \in registered' : conn'[d] \in {"pair", "configure"} \cup Controlled
    BY <1>2 DEF ServerInv, ServerTypes, Holders
  <2>3. writeMu' \in Conns => conn'[writeMu'] \in {"write", "refuse"}
    BY <1>2, LockAssumption DEF ServerInv, Holders
  <2>4. writeMu' = Remover => roomLock' = Remover
    BY LockAssumption DEF ServerInv, Holders
  <2> QED
    BY <2>1, <2>2, <2>3, <2>4 DEF Holders
<1>6. Closes'
  BY DEF ServerInv, Closes
<1> QED
  BY <1>3, <1>4, <1>5, <1>6 DEF ServerInv

(* Every step of a goroutine in handle, pair and control.                  *)
LEMMA HandlerKeeps ==
    ASSUME ServerInv, NEW c \in Conns,
           \/ Pair!Register(c) \/ Pair!Assigned(c) \/ Pair!Report(c) \/ Pair!ControlFails(c)
           \/ Pair!KnownMember(c) \/ Pair!Store(c) \/ Pair!ReportStats(c)
           \/ Pair!WriteSucceeds(c) \/ Pair!WriteFails(c) \/ Pair!End(c)
    PROVE  ServerInv'
<1>0. /\ c \in owners => conn[c] \in Controlled
      /\ c \in registered => conn[c] \in {"pair", "configure"} \cup Controlled
      /\ c = writeMu => conn[c] \in {"write", "refuse"}
      /\ Nobody # c
  BY LockAssumption DEF ServerInv, Holders
<1> USE DEF Pair!locks, Pair!server, Pairing, Controlled
<1>1. CASE Pair!Register(c)
  BY <1>0, <1>1, GoesOn DEF Pair!Register
<1>2. CASE Pair!Assigned(c)
  BY <1>0, <1>2, GoesOn DEF Pair!Assigned
<1>3. CASE Pair!Report(c)
  BY <1>0, <1>3, GoesOn DEF Pair!Report
<1>4. CASE Pair!ControlFails(c)
  BY <1>0, <1>4, GoesOn DEF Pair!ControlFails
<1>5. CASE Pair!KnownMember(c)
  <2>1. PICK place \in {"store", "refuse"} : Pair!Goto(c, place)
    BY <1>5 DEF Pair!KnownMember
  <2> QED
    BY <1>0, <1>5, <2>1, GoesOn DEF Pair!KnownMember
<1>6. CASE Pair!Store(c)
  BY <1>0, <1>6, GoesOn DEF Pair!Store
<1>7. CASE Pair!ReportStats(c)
  BY <1>0, <1>7, GoesOn DEF Pair!ReportStats
<1>8. CASE Pair!WriteSucceeds(c)
  <2>1. PICK place \in {"control", "end"} : Pair!Goto(c, place)
    BY <1>8 DEF Pair!WriteSucceeds
  <2> QED
    BY <1>0, <1>8, <2>1, GoesOn DEF Pair!WriteSucceeds
<1>9. CASE Pair!WriteFails(c)
  BY <1>0, <1>9, GoesOn DEF Pair!WriteFails
<1>10. CASE Pair!End(c)
  BY <1>0, <1>10, GoesOn DEF Pair!End
<1> QED
  BY <1>1, <1>2, <1>3, <1>4, <1>5, <1>6, <1>7, <1>8, <1>9, <1>10

(* The locks are taken, the room removes a member, Stop and Close go on.   *)
LEMMA LocksKeep ==
    ASSUME ServerInv,
           \/ \E c \in Conns : \/ Pair!TakeWriteMu(c) \/ Pair!Remove(c)
                               \/ \E d \in {"odd", "even"} : Pair!DeadlinePasses(c, d)
           \/ Pair!RemoverTakesWriteMu \/ Pair!RemoverWrites \/ Pair!Stop \/ Pair!Close
    PROVE  ServerInv'
<1> USE LockAssumption DEF Pair!locks, Pair!server, Pair!Close, Pair!CloseListener, Pair!CloseConnections,
        Pair!CloseReturns, Pair!Stop, Pair!RemoverTakesWriteMu, Pair!RemoverWrites, Pair!TakeWriteMu,
        Pair!Remove, Pair!DeadlinePasses
<1>1. UNCHANGED <<conn, slots, registered>> /\ owners' \subseteq owners
  OBVIOUS
<1>2. /\ roomLock' \in {Nobody, Remover} /\ writeMu' \in Conns \cup {Nobody, Remover}
      /\ running' \in BOOLEAN /\ listening' \in BOOLEAN
  BY DEF ServerInv, ServerTypes
<1>3. ServerTypes'
  BY <1>1, <1>2 DEF ServerInv, ServerTypes
<1>4. Slots'
  BY <1>1 DEF ServerInv, Slots, InPair
<1>5. Holders'
  <2>1. writeMu' \in Conns => conn[writeMu'] \in {"write", "refuse"}
    BY DEF ServerInv, Holders
  <2>2. writeMu' = Remover => roomLock' = Remover
    BY DEF ServerInv, ServerTypes, Holders
  <2> QED
    BY <1>1, <2>1, <2>2 DEF ServerInv, Holders
<1>6. Closes'
  BY <1>1 DEF ServerInv, Closes
<1> QED
  BY <1>3, <1>4, <1>5, <1>6 DEF ServerInv

(* Every step of the pairing server keeps its invariant.                   *)
LEMMA ServerNext == ASSUME ServerInv, Pair!Next PROVE ServerInv'
<1>1. ASSUME NEW c \in Conns, Pair!PairFails(c) \/ Pair!Acknowledged(c) PROVE ServerInv'
  BY <1>1, SlotReturned DEF Pair!PairFails, Pair!Acknowledged, Pair!locks, Pair!server
<1>2. ASSUME NEW c \in Conns, Pair!Handler(c) PROVE ServerInv'
  BY <1>1, <1>2, HandlerKeeps, LocksKeep DEF Pair!Handler
<1> QED
  BY <1>1, <1>2, AcceptKeeps, HandlerKeeps, LocksKeep DEF Pair!Next

(* The invariant says what SlotsAndLocks asks.                             *)
LEMMA ServerHolds == ServerInv => Pair!SlotsAndLocks
<1> SUFFICES ASSUME ServerInv PROVE Pair!SlotsAndLocks
  OBVIOUS
<1>1. /\ slots = Cardinality({c \in Conns : conn[c] \in {"handle", "pair", "configure"}})
      /\ slots <= MaxConcurrent
  BY DEF ServerInv, Slots, InPair, Pairing
<1>2. ASSUME closing = "returned"
      PROVE  /\ slots = 0 /\ owners = {} /\ registered = {} /\ roomLock = Nobody /\ writeMu = Nobody
             /\ \A c \in Conns : conn[c] \in {"away", "gone"}
  <2>1. \A c \in Conns : conn[c] \in {"away", "gone"}
    BY <1>2 DEF ServerInv, Closes
  <2>2. InPair = {} /\ slots = 0
    BY <2>1, FS_EmptySet DEF ServerInv, Slots, InPair, Pairing
  <2>3. owners = {} /\ registered = {}
    BY <2>1 DEF ServerInv, ServerTypes, Holders, Controlled
  <2>4. roomLock = Nobody /\ writeMu = Nobody
    BY <1>2, <2>1, LockAssumption DEF ServerInv, ServerTypes, Holders, Closes
  <2> QED
    BY <2>1, <2>2, <2>3, <2>4
<1>3. /\ \A c \in owners : conn[c] \in {"report", "write", "control", "known", "store", "refuse", "end"}
      /\ writeMu \in Conns => conn[writeMu] \in {"write", "refuse"}
      /\ writeMu = Remover => roomLock = Remover
  BY DEF ServerInv, Holders, Controlled
<1>4. \A S : Pair!Cardinality(S) = Cardinality(S)
  BY DEF Pair!Cardinality, Cardinality
<1> QED
  BY <1>1, <1>2, <1>3, <1>4, Zenon DEF Pair!SlotsAndLocks

-----------------------------------------------------------------------------
(* The inductive invariant of MCNode.                                      *)
NodeInv ==
    /\ part \in {"relay", "window", "rate", "page", "stdio", "pair"}
    /\ part = "relay" => RelayInv(Members)
    /\ part = "window" => RelayInv({Member})
    /\ part = "rate" => RateInv
    /\ PageInv /\ ApiInv /\ ServerInv

(* It holds at the start.                                                  *)
LEMMA NodeInit == Init => NodeInv
BY PageInit, RelayHolds, WindowHolds, RateHolds, ApiInit, ServerInit DEF Init, NodeInv

(* What the invariants of the relay, the limits, the page, the responses   *)
(* and the pairing server do not mention may change.                       *)
LEMMA PartsStay ==
    /\ UNCHANGED relayVars /\ RelayInv(Members) => RelayInv(Members)'
    /\ UNCHANGED relayVars /\ RelayInv({Member}) => RelayInv({Member})'
    /\ UNCHANGED relayVars /\ RateInv => RateInv'
    /\ UNCHANGED pageVars /\ PageInv => PageInv'
    /\ UNCHANGED apiVars /\ ApiInv => ApiInv'
    /\ UNCHANGED pairVars /\ ServerInv => ServerInv'
<1>1. ASSUME NEW M, UNCHANGED relayVars, RelayInv(M)
      PROVE  RelayInv(M)'
  BY <1>1 DEF relayVars, RelayInv, HostSide, MemberSide, Latest
<1>2. UNCHANGED relayVars /\ RateInv => RateInv'
  BY DEF relayVars, RateInv, Held, Before, SenderSide, HostsOnly
<1>3. UNCHANGED pageVars /\ PageInv => PageInv'
  BY DEF pageVars, PageInv, PageTypes, Course, Resting, Listening, NobodyCalls, NobodyWaits, Moving, Commanding,
         Listed, Saved, Page!Quiet
<1>4. /\ UNCHANGED relayVars /\ RelayInv(Members) => RelayInv(Members)'
      /\ UNCHANGED relayVars /\ RelayInv({Member}) => RelayInv({Member})'
  BY <1>1
<1>5. UNCHANGED apiVars /\ ApiInv => ApiInv'
  BY ApiStays DEF apiVars
<1>6. UNCHANGED pairVars /\ ServerInv => ServerInv'
  BY DEF pairVars, ServerInv, ServerTypes, Slots, InPair, Holders, Closes
<1> QED
  BY <1>2, <1>3, <1>4, <1>5, <1>6

(* Every step keeps it.                                                    *)
LEMMA NodeNext == NodeInv /\ [Next]_<<part, relayVars, pageVars, apiVars, pairVars>> => NodeInv'
<1> SUFFICES ASSUME NodeInv, [Next]_<<part, relayVars, pageVars, apiVars, pairVars>> PROVE NodeInv'
  OBVIOUS
<1>1. CASE UNCHANGED <<part, relayVars, pageVars, apiVars, pairVars>>
  BY <1>1, PartsStay DEF NodeInv
<1>2. CASE part = "relay" /\ Relay!Next /\ UNCHANGED <<part, pageVars, apiVars, pairVars>>
  BY <1>2, PartsStay, RelayNext DEF NodeInv
<1>3. CASE part = "window" /\ Window!Next /\ UNCHANGED <<part, pageVars, apiVars, pairVars>>
  BY <1>3, PartsStay, WindowNext DEF NodeInv
<1>4. CASE part = "rate" /\ Rate!Next /\ UNCHANGED <<part, pageVars, apiVars, pairVars>>
  BY <1>4, PartsStay, RateNext DEF NodeInv
<1>5. CASE part = "page" /\ Page!Next /\ UNCHANGED <<part, relayVars, apiVars, pairVars>>
  BY <1>5, PartsStay, PageNext DEF NodeInv
<1>6. CASE part = "stdio" /\ Stdio!Next /\ UNCHANGED <<part, relayVars, pageVars, pairVars>>
  BY <1>6, PartsStay, ApiNext DEF NodeInv
<1>7. CASE part = "pair" /\ Pair!Next /\ UNCHANGED <<part, relayVars, pageVars, apiVars>>
  BY <1>7, PartsStay, ServerNext DEF NodeInv
<1> QED
  BY <1>1, <1>2, <1>3, <1>4, <1>5, <1>6, <1>7 DEF Next

(* The invariant of every part holds, for every set of members, window,    *)
(* rate, set of addresses, set of connections and number of slots.         *)
THEOREM NodeInvariant == Spec => []NodeInv
BY NodeInit, NodeNext, PTL DEF Spec

(* The host and the TUN of every member take a frame twice only after TTL, *)
(* or when as many frames as ReplayWindow.Accept keeps came with it or     *)
(* after it; no member gets its own back.                                  *)
THEOREM NothingIsReplayed == Spec => []NoReplay
<1>1. NodeInv => NoReplay
  BY RelayHolds, WindowHolds DEF NodeInv, NoReplay
<1> QED
  BY <1>1, NodeInvariant, PTL

(* What allow lets through of a sender, from any packet to any later one,  *)
(* fits a full bucket and what the time between them refills, in packets   *)
(* and in bytes.                                                           *)
THEOREM RateIsKept == Spec => []MemberRate
<1>1. NodeInv => MemberRate
  BY RateHolds DEF NodeInv, MemberRate
<1> QED
  BY <1>1, NodeInvariant, PTL

(* When nothing is under way, a browser on this device is let in at the    *)
(* address the page is served at, whatever SetManagement, SetAllowedIPs,   *)
(* failing listeners and restarts did, and however many commands there     *)
(* were; unless, since the last command that set it right, one began       *)
(* before its predecessor was done, or one failed half way.                *)
THEOREM OwnDeviceIsLetIn == Spec => []NoLockout
<1>1. NodeInv => NoLockout
  BY PageHolds DEF NodeInv, NoLockout
<1> QED
  BY <1>1, NodeInvariant, PTL

(* RunWithServices answers commands in the order they were sent, each      *)
(* before the next is read, and no request twice, whatever joins, events   *)
(* and failed writes come between.                                         *)
THEOREM AnswersComeInOrder == Spec => []CommandsInOrder
<1>1. NodeInv => CommandsInOrder
  BY ApiHolds DEF NodeInv, CommandsInOrder
<1> QED
  BY <1>1, NodeInvariant, PTL

(* serve never has more than MaxConcurrent clients pairing, and counts     *)
(* them right; the entries and locks of Server belong to who still needs   *)
(* them, RemoveMember holds writeMu only under the room's lock; and Close  *)
(* returns when nothing is left.                                           *)
THEOREM NothingIsLeftBehind == Spec => []SlotsAndLocks
<1>1. NodeInv => SlotsAndLocks
  BY ServerHolds DEF NodeInv, SlotsAndLocks
<1> QED
  BY <1>1, NodeInvariant, PTL
=============================================================================
