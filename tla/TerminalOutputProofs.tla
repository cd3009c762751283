------------------------ MODULE TerminalOutputProofs ------------------------
(***************************************************************************)
(* Theorems about TerminalOutput for any number of clients, any capacity   *)
(* of their channels, any length of the scroll buffer and of the output.   *)
(* The inductive invariant is the conjunction of TypeOK with the parts     *)
(* below, each of which says what one group of steps relies on.            *)
(***************************************************************************)
EXTENDS TerminalOutput, TLAPS

(* What the pump has read lies behind what it has fanned out, and only a pump *)
(* that is sending has channels to serve.                                     *)
PumpInv ==
    /\ written <= emitted
    /\ pump = "broadcast" => written < emitted
    /\ pump = "send" => written > 0
    /\ pump # "send" => targets = {}

(* t.subs holds the open channels and no others, which is why a channel that  *)
(* is closed is taken out under the same lock.                                *)
ChannelInv ==
    /\ \A c \in Clients : (c \in subs) <=> (chan[c] = "open")
    /\ \A c \in targets : chan[c] # "none"
    /\ \A c \in Clients :
          chan[c] = "none" => sent[c] = <<>> /\ rcvd[c] = 0 /\ ~eof[c] /\ ~left[c]
    /\ panic # "closeOfClosed"

(* The messages of a channel are intervals of what was written, each one      *)
(* after those before it; the chunk that is being sent comes after them all   *)
(* on every channel that has yet to be served.                                *)
OrderOf(c) ==
    /\ \A i \in 1..Len(sent[c]) : /\ sent[c][i].lo <= sent[c][i].hi
                                  /\ sent[c][i].hi <= written
                                  /\ c \in targets => sent[c][i].hi < written
    /\ \A i, j \in 1..Len(sent[c]) : i < j => sent[c][i].hi < sent[c][j].lo

OrderInv == \A c \in Clients : OrderOf(c)

(* What the exit of the shell left behind.                                    *)
OnRecord == status = "exited" /\ (exitCode = "code" \/ waitFailed)

(* reap records the exit before it closes the channels, and nobody else       *)
(* closes the channel of a client that has not left.                          *)
EndInv ==
    /\ reap \in {"wait", "status"} => status = "running"
    /\ reap \in {"close", "done", "end"} => OnRecord
    /\ \A c \in Clients : chan[c] = "closed" /\ ~left[c] => OnRecord
    /\ \A c \in Clients : eof[c] => OnRecord

Inv == TypeOK /\ PumpInv /\ ChannelInv /\ OrderInv /\ EndInv

-----------------------------------------------------------------------------
(* Types. *)

(* The initial state is well typed. *)
LEMMA TypeInit == Init => TypeOK
<1> SUFFICES ASSUME Init
             PROVE  TypeOK
  OBVIOUS
<1>1. \A c \in Clients : rcvd[c] = 0 /\ Len(sent[c]) = 0
  BY DEF Init
<1>2. sent \in [Clients -> Seq(Interval)]
  BY DEF Init
<1>3. \A c \in Clients : /\ rcvd[c] <= Len(sent[c])
                         /\ Len(sent[c]) - rcvd[c] <= Buffer
  BY <1>1, BufferAssumption
<1>4. /\ rcvd \in [Clients -> Nat]
      /\ base \in [Clients -> 0..MaxOutput]
      /\ dropped \in [Clients -> SUBSET (1..MaxOutput)]
  BY MaxOutputAssumption DEF Init
<1>5. /\ chan \in [Clients -> {"none", "open", "closed"}]
      /\ eof \in [Clients -> BOOLEAN]
      /\ left \in [Clients -> BOOLEAN]
  BY DEF Init
<1>6. emitted \in 0..MaxOutput /\ written \in 0..MaxOutput
  BY MaxOutputAssumption DEF Init
<1> QED
  BY <1>2, <1>3, <1>4, <1>5, <1>6 DEF Init, TypeOK

(* Every step keeps it well typed: the pump fans out no more than was written, *)
(* a send finds room in the channel, and a replay comes on an empty one.       *)
LEMMA TypeNext ==
  ASSUME TypeOK, PumpInv, ChannelInv, [Next]_vars
  PROVE  TypeOK'
<1> USE BufferAssumption, ScrollbackAssumption, MaxOutputAssumption
<1>1. CASE Emit
  BY <1>1 DEF TypeOK, Emit, pumpVars, reapVars, clientVars
<1>2. CASE ShellExit \/ HangUp \/ CloseMaster \/ Kill
  BY <1>2 DEF TypeOK, ShellExit, HangUp, CloseMaster, Kill, pumpVars, reapVars,
              clientVars
<1>3. CASE Read \/ ReadError \/ SendDone
  BY <1>3 DEF TypeOK, Read, ReadError, SendDone, ptyVars, reapVars, clientVars
<1>4. CASE Broadcast
  BY <1>4 DEF TypeOK, PumpInv, Broadcast, ptyVars, reapVars, clientVars
<1>5. ASSUME NEW c \in Clients, SendTo(c)
      PROVE  TypeOK'
  <2> USE <1>5 DEF SendTo, ptyVars, reapVars, clientVars
  <2>1. CASE chan[c] = "open" /\ HasRoom(c) /\ UNCHANGED <<panic, dropped>>
             /\ sent' = [sent EXCEPT ![c] =
                            Append(@, [lo |-> written, hi |-> written])]
    <3> DEFINE m == [lo |-> written, hi |-> written]
    <3>1. m \in Interval
      BY DEF TypeOK, PumpInv, Interval
    <3>2. /\ Append(sent[c], m) \in Seq(Interval)
          /\ Len(Append(sent[c], m)) = Len(sent[c]) + 1
      BY <3>1 DEF TypeOK
    <3>3. sent' \in [Clients -> Seq(Interval)]
      BY <2>1, <3>2 DEF TypeOK
    <3>4. \A d \in Clients : /\ rcvd[d] <= Len(sent'[d])
                             /\ Len(sent'[d]) - rcvd[d] <= Buffer
      BY <2>1, <3>2 DEF TypeOK, HasRoom
    <3> QED
      BY <2>1, <3>3, <3>4 DEF TypeOK
  <2>2. CASE Skip(c)
    BY <2>2 DEF TypeOK, PumpInv, Skip
  <2>3. CASE panic' = "sendOnClosed" /\ UNCHANGED <<sent, dropped>>
    BY <2>3 DEF TypeOK
  <2> QED
    BY <2>1, <2>2, <2>3
<1>6. CASE Reap
  <2>1. CASE CloseSubs
    BY <1>6, <2>1 DEF TypeOK, CloseSubs, CloseChannels, ptyVars, pumpVars,
                      clientVars
  <2>2. CASE Wait \/ SetStatus \/ CloseDone
    BY <1>6, <2>2 DEF TypeOK, Wait, SetStatus, CloseDone, ptyVars, pumpVars,
                      clientVars
  <2> QED
    BY <1>6, <2>1, <2>2 DEF Reap
<1>7. ASSUME NEW c \in Clients, NEW replay \in BOOLEAN, Subscribe(c, replay)
      PROVE  TypeOK'
  <2> USE <1>7 DEF Subscribe, ptyVars, pumpVars, reapVars
  <2>1. Oldest \in 0..MaxOutput /\ Oldest <= written
    BY DEF TypeOK, Oldest
  <2>2. written > 0 => Replay \in Interval
    BY <2>1 DEF TypeOK, Replay, Interval, Oldest
  <2>3. /\ sent'[c] \in Seq(Interval)
        /\ Len(sent'[c]) \in {0, 1}
        /\ \A d \in Clients \ {c} : sent'[d] = sent[d]
    BY <2>2 DEF TypeOK
  <2>4. sent' \in [Clients -> Seq(Interval)]
    BY <2>3 DEF TypeOK
  <2>5. \A d \in Clients : /\ rcvd[d] <= Len(sent'[d])
                           /\ Len(sent'[d]) - rcvd[d] <= Buffer
    BY <2>3 DEF TypeOK, ChannelInv
  <2> QED
    BY <2>1, <2>4, <2>5 DEF TypeOK
<1>8. ASSUME NEW c \in Clients, Receive(c)
      PROVE  TypeOK'
  <2>1. /\ rcvd \in [Clients -> Nat] /\ rcvd[c] \in Nat
        /\ \A d \in Clients : Len(sent[d]) \in Nat
        /\ \A d \in Clients : /\ rcvd[d] <= Len(sent[d])
                              /\ Len(sent[d]) - rcvd[d] <= Buffer
    BY DEF TypeOK
  <2>2. /\ rcvd[c] < Len(sent[c])
        /\ rcvd' = [rcvd EXCEPT ![c] = rcvd[c] + 1]
        /\ UNCHANGED <<panic, ptyVars, pumpVars, reapVars, subs, chan, sent,
                       eof, left, base, dropped>>
    BY <1>8 DEF Receive
  <2>3. \A d \in Clients : /\ rcvd'[d] \in Nat
                           /\ rcvd'[d] <= Len(sent[d])
                           /\ Len(sent[d]) - rcvd'[d] <= Buffer
    BY <2>1, <2>2
  <2>4. rcvd' \in [Clients -> Nat]
    BY <2>1, <2>2
  <2> QED
    BY <2>2, <2>3, <2>4 DEF TypeOK, ptyVars, pumpVars, reapVars
<1>9. ASSUME NEW c \in Clients, ReceiveClosed(c)
      PROVE  TypeOK'
  BY <1>9 DEF TypeOK, ReceiveClosed, ptyVars, pumpVars, reapVars
<1>10. ASSUME NEW c \in Clients, Cancel(c)
       PROVE  TypeOK'
  BY <1>10 DEF TypeOK, Cancel, CloseChannels, ptyVars, pumpVars, reapVars
<1>11. CASE UNCHANGED vars
  <2> USE <1>11 DEF vars, ptyVars, pumpVars, reapVars, clientVars
  <2>1. \A c \in Clients : sent'[c] = sent[c] /\ rcvd'[c] = rcvd[c]
    OBVIOUS
  <2> QED
    BY <2>1 DEF TypeOK
<1> QED
  BY <1>1, <1>2, <1>3, <1>4, <1>5, <1>6, <1>7, <1>8, <1>9, <1>10, <1>11
     DEF Next, Environment, Pump, Client

-----------------------------------------------------------------------------
(* The pump. *)

(* The pump starts with nothing to read and nobody to serve. *)
LEMMA PumpInit == Init => PumpInv
  BY DEF Init, PumpInv

(* No step lets the fan-out run ahead of the reading. *)
LEMMA PumpNext ==
  ASSUME TypeOK, PumpInv, [Next]_vars
  PROVE  PumpInv'
<1> USE DEF PumpInv, TypeOK
<1>1. CASE Emit
  BY <1>1 DEF Emit, pumpVars
<1>2. CASE ShellExit \/ HangUp \/ CloseMaster \/ Kill
  BY <1>2 DEF ShellExit, HangUp, CloseMaster, Kill, pumpVars
<1>3. CASE Read \/ ReadError \/ SendDone \/ Broadcast
  BY <1>3 DEF Read, ReadError, SendDone, Broadcast, ptyVars
<1>4. ASSUME NEW c \in Clients, SendTo(c)
      PROVE  PumpInv'
  BY <1>4 DEF SendTo, ptyVars
<1>5. CASE Reap
  BY <1>5 DEF Reap, Wait, SetStatus, CloseSubs, CloseDone, ptyVars, pumpVars
<1>6. ASSUME NEW c \in Clients, Client(c)
      PROVE  PumpInv'
  BY <1>6 DEF Client, Subscribe, Receive, ReceiveClosed, Cancel, ptyVars,
              pumpVars
<1>7. CASE UNCHANGED vars
  BY <1>7 DEF vars, ptyVars, pumpVars
<1> QED
  BY <1>1, <1>2, <1>3, <1>4, <1>5, <1>6, <1>7 DEF Next, Environment, Pump

-----------------------------------------------------------------------------
(* The channels. *)

(* At first there is no channel. *)
LEMMA ChannelInit == Init => ChannelInv
  BY DEF Init, ChannelInv

(* t.subs and the open channels change together. *)
LEMMA ChannelNext ==
  ASSUME TypeOK, PumpInv, ChannelInv, [Next]_vars
  PROVE  ChannelInv'
<1> USE DEF ChannelInv, TypeOK
<1>1. CASE Environment
  BY <1>1 DEF Environment, Emit, ShellExit, HangUp, CloseMaster, Kill, pumpVars,
              clientVars
<1>2. CASE Read \/ ReadError \/ SendDone
  BY <1>2 DEF Read, ReadError, SendDone, clientVars
<1>3. CASE Broadcast
  BY <1>3 DEF Broadcast, clientVars
<1>4. ASSUME NEW c \in Clients, SendTo(c)
      PROVE  ChannelInv'
  BY <1>4 DEF SendTo, Skip, clientVars
<1>5. CASE Wait \/ SetStatus \/ CloseDone
  BY <1>5 DEF Wait, SetStatus, CloseDone, pumpVars, clientVars
<1>6. CASE CloseSubs
  <2>1. \A c \in subs : chan[c] = "open"
    OBVIOUS
  <2>2. /\ chan' = [c \in Clients |-> IF c \in subs THEN "closed" ELSE chan[c]]
        /\ UNCHANGED panic
    BY <1>6, <2>1 DEF CloseSubs, CloseChannels
  <2> QED
    BY <1>6, <2>1, <2>2 DEF CloseSubs, pumpVars, clientVars
<1>7. ASSUME NEW c \in Clients, NEW replay \in BOOLEAN, Subscribe(c, replay)
      PROVE  ChannelInv'
  BY <1>7 DEF Subscribe, pumpVars
<1>8. ASSUME NEW c \in Clients, Receive(c) \/ ReceiveClosed(c)
      PROVE  ChannelInv'
  BY <1>8 DEF Receive, ReceiveClosed, pumpVars
<1>9. ASSUME NEW c \in Clients, Cancel(c)
      PROVE  ChannelInv'
  <2>1. \A d \in StillSubscribed(c) : chan[d] = "open"
    BY <1>9 DEF StillSubscribed
  <2>2. /\ chan' = [d \in Clients |-> IF d \in StillSubscribed(c) THEN "closed"
                                      ELSE chan[d]]
        /\ UNCHANGED panic
    BY <1>9, <2>1 DEF Cancel, CloseChannels
  <2> QED
    BY <1>9, <2>1, <2>2 DEF Cancel, StillSubscribed, pumpVars
<1>10. CASE UNCHANGED vars
  BY <1>10 DEF vars, pumpVars, clientVars
<1> QED
  BY <1>1, <1>2, <1>3, <1>4, <1>5, <1>6, <1>7, <1>8, <1>9, <1>10
     DEF Next, Pump, Reap, Client

-----------------------------------------------------------------------------
(* The order of the messages. *)

(* At first nothing was sent. *)
LEMMA OrderInit == Init => OrderInv
<1> SUFFICES ASSUME Init
             PROVE  OrderInv
  OBVIOUS
<1>1. \A c \in Clients : Len(sent[c]) = 0
  BY DEF Init
<1> QED
  BY <1>1 DEF OrderInv, OrderOf

(* A replay ends with what was written before the client was subscribed, and   *)
(* a chunk is sent to those that were subscribed when it was written.          *)
LEMMA OrderNext ==
  ASSUME TypeOK, PumpInv, ChannelInv, OrderInv, [Next]_vars
  PROVE  OrderInv'
<1>1. CASE UNCHANGED <<written, targets, sent>>
  BY <1>1 DEF OrderInv, OrderOf
<1>2. CASE Broadcast
  <2>1. \A c \in Clients : \A i \in 1..Len(sent[c]) : sent[c][i] \in Interval
    BY DEF TypeOK
  <2>2. written' = written + 1 /\ written \in Nat /\ sent' = sent
    BY <1>2 DEF Broadcast, TypeOK
  <2>3. \A c \in Clients : \A i \in 1..Len(sent[c]) : sent[c][i].hi < written'
    BY <2>1, <2>2 DEF OrderInv, OrderOf, Interval
  <2> QED
    BY <2>1, <2>2, <2>3 DEF OrderInv, OrderOf, Interval
<1>3. ASSUME NEW c \in Clients, SendTo(c)
      PROVE  OrderInv'
  <2> USE <1>3 DEF SendTo
  <2>1. CASE UNCHANGED sent
    BY <2>1 DEF OrderInv, OrderOf, pumpVars
  <2>2. CASE sent' = [sent EXCEPT ![c] =
                         Append(@, [lo |-> written, hi |-> written])]
    <3> DEFINE m == [lo |-> written, hi |-> written]
    <3>1. /\ Len(sent'[c]) = Len(sent[c]) + 1
          /\ \A i \in 1..Len(sent[c]) : sent'[c][i] = sent[c][i]
          /\ sent'[c][Len(sent[c]) + 1] = m
          /\ \A d \in Clients \ {c} : sent'[d] = sent[d]
      BY <2>2 DEF TypeOK
    <3>2. /\ \A i \in 1..Len(sent[c]) : sent[c][i].hi < written
          /\ \A d \in Clients : d \in targets' => d \in targets /\ d # c
          /\ written' = written /\ written \in Nat
          /\ Len(sent[c]) \in Nat
      BY DEF OrderInv, OrderOf, TypeOK
    <3> HIDE <1>3 DEF SendTo
    <3>3. ASSUME NEW d \in Clients \ {c}
          PROVE  OrderOf(d)'
      BY <3>1, <3>2, <3>3 DEF OrderInv, OrderOf
    <3>4. \A i \in 1..Len(sent'[c]) : /\ sent'[c][i].lo <= sent'[c][i].hi
                                      /\ sent'[c][i].hi <= written
      BY <3>1, <3>2 DEF OrderInv, OrderOf
    <3>5. \A i, j \in 1..Len(sent'[c]) : i < j => sent'[c][i].hi < sent'[c][j].lo
      BY <3>1, <3>2 DEF OrderInv, OrderOf
    <3> QED
      BY <3>2, <3>3, <3>4, <3>5 DEF OrderInv, OrderOf
  <2> QED
    BY <2>1, <2>2 DEF Skip
<1>4. ASSUME NEW c \in Clients, NEW replay \in BOOLEAN, Subscribe(c, replay)
      PROVE  OrderInv'
  <2> USE <1>4 DEF Subscribe, pumpVars
  <2>1. c \notin targets /\ UNCHANGED <<written, targets>>
    BY DEF ChannelInv
  <2>2. /\ sent'[c] = (IF replay /\ written > 0 THEN <<Replay>> ELSE <<>>)
        /\ \A d \in Clients \ {c} : sent'[d] = sent[d]
    BY DEF TypeOK
  <2>3. written > 0 => Replay.lo <= Replay.hi /\ Replay.hi <= written
    BY ScrollbackAssumption DEF Replay, Oldest, TypeOK
  <2>4. /\ \A i \in 1..Len(sent'[c]) : /\ sent'[c][i].lo <= sent'[c][i].hi
                                       /\ sent'[c][i].hi <= written
        /\ \A i, j \in 1..Len(sent'[c]) : ~(i < j)
    BY <2>2, <2>3
  <2> QED
    BY <2>1, <2>2, <2>4 DEF OrderInv, OrderOf
<1>5. CASE SendDone
  BY <1>5, <1>1 DEF SendDone
<1> QED
  BY <1>1, <1>2, <1>3, <1>4, <1>5
     DEF Next, Environment, Emit, ShellExit, HangUp, CloseMaster, Kill, Pump,
         Read, ReadError, Reap, Wait, SetStatus, CloseSubs, CloseDone, Client,
         Receive, ReceiveClosed, Cancel, vars, pumpVars

-----------------------------------------------------------------------------
(* The end of the streams. *)

(* At first no stream has ended. *)
LEMMA EndInit == Init => EndInv
  BY DEF Init, EndInv

(* Once the exit is on record it stays there, and only then do channels close. *)
LEMMA EndNext ==
  ASSUME TypeOK, ChannelInv, EndInv, [Next]_vars
  PROVE  EndInv'
<1> USE DEF EndInv, OnRecord, TypeOK
<1>1. CASE UNCHANGED <<reapVars, chan, eof, left>>
  BY <1>1 DEF reapVars
<1>2. CASE Wait
  BY <1>2 DEF Wait, clientVars
<1>3. CASE SetStatus \/ CloseDone
  BY <1>3 DEF SetStatus, CloseDone, clientVars
<1>4. CASE CloseSubs
  <2>1. \A c \in Clients : chan'[c] = "closed" => chan[c] = "closed" \/ OnRecord
    BY <1>4 DEF CloseSubs, CloseChannels
  <2> QED
    BY <1>4, <2>1 DEF CloseSubs, clientVars
<1>5. ASSUME NEW c \in Clients, NEW replay \in BOOLEAN, Subscribe(c, replay)
      PROVE  EndInv'
  BY <1>5 DEF Subscribe, reapVars
<1>6. ASSUME NEW c \in Clients, ReceiveClosed(c)
      PROVE  EndInv'
  BY <1>6 DEF ReceiveClosed, reapVars
<1>7. ASSUME NEW c \in Clients, Cancel(c)
      PROVE  EndInv'
  <2>1. \A d \in Clients : chan'[d] = "closed" => chan[d] = "closed" \/ d = c
    BY <1>7 DEF Cancel, CloseChannels, StillSubscribed
  <2> QED
    BY <1>7, <2>1 DEF Cancel, reapVars
<1> HIDE DEF EndInv, OnRecord, TypeOK
<1>8. CASE Environment
  BY <1>1, <1>8 DEF Environment, Emit, ShellExit, HangUp, CloseMaster, Kill,
                    clientVars
<1>9. CASE Pump
  BY <1>1, <1>9 DEF Pump, Read, ReadError, Broadcast, SendTo, SendDone,
                    clientVars
<1>10. ASSUME NEW c \in Clients, Receive(c)
       PROVE  EndInv'
  BY <1>1, <1>10 DEF Receive
<1>11. CASE UNCHANGED vars
  BY <1>1, <1>11 DEF vars, clientVars
<1> QED
  BY <1>2, <1>3, <1>4, <1>5, <1>6, <1>7, <1>8, <1>9, <1>10, <1>11
     DEF Next, Reap, Client

-----------------------------------------------------------------------------
(* Theorems. *)

(* The invariant is one. *)
THEOREM Invariance == Spec => []Inv
<1>1. Init => Inv
  BY TypeInit, PumpInit, ChannelInit, OrderInit, EndInit DEF Inv
<1>2. Inv /\ [Next]_vars => Inv'
  BY TypeNext, PumpNext, ChannelNext, OrderNext, EndNext DEF Inv
<1> QED
  BY <1>1, <1>2, PTL DEF Spec

(* The state of the fan-out is well typed; in particular a channel never holds *)
(* more than its buffer (terminal.go subscriberBuffer).                        *)
THEOREM TypeCorrect == Spec => []TypeOK
<1>1. Inv => TypeOK
  BY DEF Inv
<1> QED
  BY <1>1, Invariance, PTL

(* Whatever the capacity of the channels and wherever a replay falls among the *)
(* broadcasts, no screen is given a chunk twice or out of order (terminal.go   *)
(* broadcast, Subscribe).                                                      *)
THEOREM Ordered == Spec => []InOrder
<1>1. Inv => InOrder
  BY DEF Inv, OrderInv, OrderOf, InOrder
<1> QED
  BY <1>1, Invariance, PTL

(* cancel and closeSubs never both close a channel (terminal.go:226, 238).     *)
THEOREM ClosedOnce == Spec => []NoDoubleClose
<1>1. Inv => NoDoubleClose
  BY DEF Inv, ChannelInv, NoDoubleClose
<1> QED
  BY <1>1, Invariance, PTL

(* A stream that ends under a screen that stayed ends after the exit status is *)
(* on record (terminal.go reap).                                               *)
THEOREM EndsAfterExit == Spec => []EndMeansExited
<1>1. Inv => EndMeansExited
  BY DEF Inv, EndInv, OnRecord, EndMeansExited
<1> QED
  BY <1>1, Invariance, PTL

-----------------------------------------------------------------------------
(***************************************************************************)
(* NothingLost: the channel of a client that is watching, the send it is   *)
(* waiting for and what was thrown away for it make up all of the output   *)
(* since it joined.                                                        *)
(***************************************************************************)

(* The client's account balances, and the chunk that is being sent is not on  *)
(* it yet.                                                                    *)
AccountOf(c) ==
    /\ base[c] <= written
    /\ chan[c] = "none" => dropped[c] = {}
    /\ c \in targets => written \notin dropped[c]
    /\ c \in subs => Carried(c) \union Pending(c) \union dropped[c]
                         = (base[c] + 1) .. written
    /\ c \in subs => Carried(c) \intersect dropped[c] = {}

AccountInv == \A c \in Clients : AccountOf(c)

(* At first there are no accounts. *)
LEMMA AccountInit == Init => AccountInv
  BY DEF Init, AccountInv, AccountOf

(* What a message adds to what its channel carries. *)
LEMMA CarriedAppend ==
  ASSUME TypeOK, NEW c \in Clients, NEW n \in Nat,
         sent' = [sent EXCEPT ![c] = Append(@, [lo |-> n, hi |-> n])]
  PROVE  Carried(c)' = Carried(c) \union {n}
<1>1. /\ Len(sent'[c]) = Len(sent[c]) + 1 /\ Len(sent[c]) \in Nat
      /\ \A i \in 1..Len(sent[c]) : sent'[c][i] = sent[c][i]
      /\ sent'[c][Len(sent[c]) + 1] = [lo |-> n, hi |-> n]
  BY DEF TypeOK
<1>2. n..n = {n}
  OBVIOUS
<1>3. 1..Len(sent'[c]) = 1..Len(sent[c]) \union {Len(sent[c]) + 1}
  BY <1>1
<1> QED
  BY <1>1, <1>2, <1>3 DEF Carried

(* Every step keeps the accounts balanced. *)
LEMMA AccountNext ==
  ASSUME TypeOK, PumpInv, ChannelInv, OrderInv, AccountInv, [Next]_vars
  PROVE  AccountInv'
<1>1. ASSUME UNCHANGED <<written, targets, sent, base, dropped>>,
             UNCHANGED pump \/ targets = {},
             \A c \in Clients : chan'[c] = "none" => chan[c] = "none",
             subs' \subseteq subs
      PROVE  AccountInv'
  <2>1. \A c \in Clients : Carried(c)' = Carried(c) /\ Pending(c)' = Pending(c)
    BY <1>1 DEF Carried, Pending
  <2> QED
    BY <1>1, <2>1 DEF AccountInv, AccountOf
<1>2. CASE Broadcast
  <2>1. /\ pump = "broadcast" /\ pump' = "send"
        /\ written' = written + 1 /\ targets' = subs /\ written \in Nat
        /\ UNCHANGED <<subs, chan, sent, base, dropped>>
    BY <1>2 DEF Broadcast, clientVars, TypeOK
  <2> SUFFICES ASSUME NEW c \in Clients
               PROVE  AccountOf(c)'
    BY DEF AccountInv
  <2>2. Carried(c)' = Carried(c) /\ Pending(c) = {}
    BY <2>1 DEF Carried, Pending
  <2>3. base[c] \in Nat /\ base[c] <= written
    BY DEF AccountInv, AccountOf, TypeOK
  <2>4. c \in subs => /\ Carried(c) \union dropped[c] = (base[c] + 1) .. written
                      /\ Carried(c) \intersect dropped[c] = {}
    BY <2>2 DEF AccountInv, AccountOf
  <2>5. (base[c] + 1) .. (written + 1)
           = ((base[c] + 1) .. written) \union {written + 1}
    BY <2>1, <2>3
  <2>6. c \in subs => Pending(c)' = {written + 1}
    BY <2>1 DEF Pending
  <2>7. c \in subs => written + 1 \notin dropped[c]
    BY <2>1, <2>4
  <2> QED
    BY <2>1, <2>2, <2>3, <2>4, <2>5, <2>6, <2>7 DEF AccountInv, AccountOf
<1>3. ASSUME NEW c \in Clients, SendTo(c)
      PROVE  AccountInv'
  <2>1. /\ pump = "send" /\ c \in targets /\ targets' = targets \ {c}
        /\ UNCHANGED <<pump, written, subs, chan, base>> /\ written \in Nat
    BY <1>3 DEF SendTo, clientVars, TypeOK
  <2>2. Pending(c) = {written} /\ Pending(c)' = {}
    BY <2>1 DEF Pending
  <2>3. ASSUME NEW d \in Clients \ {c}
        PROVE  AccountOf(d)'
    <3>1. sent'[d] = sent[d] /\ dropped'[d] = dropped[d]
      BY <1>3, <2>3 DEF SendTo, Skip, TypeOK
    <3>2. Carried(d)' = Carried(d) /\ Pending(d)' = Pending(d)
      BY <2>1, <2>3, <3>1 DEF Carried, Pending
    <3> QED
      BY <2>1, <2>3, <3>1, <3>2 DEF AccountInv, AccountOf
  <2>4. AccountOf(c)
    BY DEF AccountInv
  <2>5. CASE /\ chan[c] = "open"
             /\ sent' = [sent EXCEPT ![c] =
                            Append(@, [lo |-> written, hi |-> written])]
             /\ UNCHANGED dropped
    <3>1. Carried(c)' = Carried(c) \union {written}
      BY <2>1, <2>5, CarriedAppend
    <3>2. AccountOf(c)'
      BY <2>1, <2>2, <2>4, <2>5, <3>1 DEF AccountOf
    <3> QED
      BY <2>3, <3>2 DEF AccountInv
  <2>6. CASE Skip(c)
    <3>1. /\ Carried(c)' = Carried(c) /\ chan[c] = "open"
          /\ dropped'[c] = dropped[c] \union {written}
      BY <2>6 DEF Skip, Carried, TypeOK
    <3>2. written \notin Carried(c)
      <4>1. \A i \in 1..Len(sent[c]) : sent[c][i].hi < written
        BY <2>1 DEF OrderInv, OrderOf
      <4>2. \A i \in 1..Len(sent[c]) : sent[c][i] \in Interval
        BY DEF TypeOK
      <4> QED
        BY <2>1, <4>1, <4>2 DEF Carried, Interval
    <3>3. AccountOf(c)'
      BY <2>1, <2>2, <2>4, <3>1, <3>2 DEF AccountOf
    <3> QED
      BY <2>3, <3>3 DEF AccountInv
  <2>7. CASE chan[c] = "closed" /\ UNCHANGED <<sent, dropped>>
    <3>1. c \notin subs
      BY <2>7 DEF ChannelInv
    <3>2. AccountOf(c)'
      BY <2>1, <2>4, <2>7, <3>1 DEF AccountOf
    <3> QED
      BY <2>3, <3>2 DEF AccountInv
  <2> QED
    BY <1>3, <2>5, <2>6, <2>7 DEF SendTo
<1>4. ASSUME NEW c \in Clients, NEW replay \in BOOLEAN, Subscribe(c, replay)
      PROVE  AccountInv'
  <2>1. /\ UNCHANGED <<pump, written, targets, dropped>>
        /\ chan[c] = "none" /\ c \notin targets /\ dropped[c] = {}
        /\ subs' = subs \union {c}
        /\ \A d \in Clients \ {c} : /\ chan'[d] = chan[d]
                                    /\ sent'[d] = sent[d]
                                    /\ base'[d] = base[d]
    BY <1>4 DEF Subscribe, pumpVars, ChannelInv, AccountInv, AccountOf, TypeOK
  <2>2. /\ base'[c] = (IF replay THEN Oldest ELSE written)
        /\ sent'[c] = (IF replay /\ written > 0 THEN <<Replay>> ELSE <<>>)
        /\ chan'[c] = "open"
    BY <1>4 DEF Subscribe, TypeOK
  <2>3. Oldest \in Nat /\ Oldest <= written /\ written \in Nat
    BY ScrollbackAssumption, MaxOutputAssumption DEF Oldest, TypeOK
  <2>4. Carried(c)' = (base'[c] + 1) .. written
    <3>1. CASE replay /\ written > 0
      <4>1. Len(sent'[c]) = 1 /\ sent'[c][1] = Replay
        BY <2>2, <3>1
      <4>2. 1..Len(sent'[c]) = {1}
        BY <4>1
      <4>3. Carried(c)' = UNION {sent'[c][1].lo .. sent'[c][1].hi}
        BY <4>2 DEF Carried
      <4>4. Replay.lo = Oldest + 1 /\ Replay.hi = written
        BY DEF Replay
      <4>5. Carried(c)' = Replay.lo .. Replay.hi
        BY <4>1, <4>3
      <4> QED
        BY <2>2, <3>1, <4>4, <4>5
    <3>2. CASE ~(replay /\ written > 0)
      <4>1. Carried(c)' = {}
        BY <2>2, <3>2 DEF Carried
      <4>2. base'[c] = written
        BY <2>2, <2>3, <3>2
      <4> QED
        BY <2>3, <4>1, <4>2
    <3> QED
      BY <3>1, <3>2
  <2>5. Pending(c)' = {}
    BY <2>1 DEF Pending
  <2>6. AccountOf(c)'
    BY <2>1, <2>2, <2>3, <2>4, <2>5 DEF AccountOf
  <2>7. ASSUME NEW d \in Clients \ {c}
        PROVE  AccountOf(d)'
    <3>1. Carried(d)' = Carried(d) /\ Pending(d)' = Pending(d)
      BY <2>1, <2>7 DEF Carried, Pending
    <3> QED
      BY <2>1, <2>7, <3>1 DEF AccountInv, AccountOf
  <2> QED
    BY <2>6, <2>7 DEF AccountInv
<1>5. CASE Environment
  BY <1>1, <1>5 DEF Environment, Emit, ShellExit, HangUp, CloseMaster, Kill,
                    pumpVars, clientVars
<1>6. CASE Read \/ ReadError \/ SendDone
  BY <1>1, <1>6 DEF Read, ReadError, SendDone, clientVars, PumpInv
<1>7. CASE Wait \/ SetStatus \/ CloseDone
  BY <1>1, <1>7 DEF Wait, SetStatus, CloseDone, pumpVars, clientVars
<1>8. CASE CloseSubs
  <2>1. \A c \in Clients : chan'[c] = "none" => chan[c] = "none"
    BY <1>8 DEF CloseSubs, CloseChannels, TypeOK
  <2> QED
    BY <1>1, <1>8, <2>1 DEF CloseSubs, pumpVars, clientVars
<1>9. ASSUME NEW c \in Clients, Receive(c) \/ ReceiveClosed(c)
      PROVE  AccountInv'
  BY <1>1, <1>9 DEF Receive, ReceiveClosed, pumpVars
<1>10. ASSUME NEW c \in Clients, Cancel(c)
       PROVE  AccountInv'
  <2>1. \A d \in Clients : chan'[d] = "none" => chan[d] = "none"
    BY <1>10 DEF Cancel, CloseChannels, TypeOK
  <2> QED
    BY <1>1, <1>10, <2>1 DEF Cancel, pumpVars, clientVars
<1>11. CASE UNCHANGED vars
  BY <1>1, <1>11 DEF vars, pumpVars, clientVars
<1> QED
  BY <1>2, <1>3, <1>4, <1>5, <1>6, <1>7, <1>8, <1>9, <1>10, <1>11
     DEF Next, Pump, Reap, Client

(* No gap opens between the replay and the broadcasts, whatever the capacity   *)
(* of the channels and the length of the scroll buffer (terminal.go broadcast, *)
(* Subscribe).                                                                 *)
THEOREM Gapless == Spec => []NothingLost
<1>1. Init => AccountInv
  BY AccountInit
<1>2. Inv /\ AccountInv /\ [Next]_vars => AccountInv'
  BY AccountNext DEF Inv
<1>3. Inv /\ AccountInv => NothingLost
  BY DEF Inv, TypeOK, AccountInv, AccountOf, NothingLost
<1> QED
  BY <1>1, <1>2, <1>3, Invariance, PTL DEF Spec

(***************************************************************************)
(* TerminalOutput implements OutputStream: every step of the goroutines is *)
(* a step of the output stream or none.                                    *)
(***************************************************************************)
(* A client is sent nothing from before the point its stream starts at, and   *)
(* nothing is left to take when it sees the end.                              *)
StreamOf(c) ==
    /\ base[c] <= written
    /\ c \in targets => base[c] < written
    /\ \A i \in 1..Len(sent[c]) : base[c] < sent[c][i].lo
    /\ eof[c] => chan[c] = "closed" /\ rcvd[c] = Len(sent[c])

StreamInv == \A c \in Clients : StreamOf(c)

(* At first there is no stream. *)
LEMMA StreamInit == Init => StreamInv
  BY DEF Init, StreamInv, StreamOf

(* What is sent comes after the point where the client joined. *)
LEMMA StreamNext ==
  ASSUME TypeOK, PumpInv, ChannelInv, StreamInv, [Next]_vars
  PROVE  StreamInv'
<1>1. CASE UNCHANGED <<written, targets, chan, sent, rcvd, eof, base>>
  BY <1>1 DEF StreamInv, StreamOf
<1>2. CASE Broadcast
  BY <1>2 DEF Broadcast, StreamInv, StreamOf, TypeOK, reapVars, clientVars
<1>3. ASSUME NEW c \in Clients, SendTo(c)
      PROVE  StreamInv'
  <2>1. /\ targets' = targets \ {c} /\ c \in targets
        /\ UNCHANGED <<written, chan, rcvd, eof, base>>
    BY <1>3 DEF SendTo, clientVars
  <2>2. CASE UNCHANGED sent
    BY <2>1, <2>2 DEF StreamInv, StreamOf
  <2>3. CASE /\ chan[c] = "open"
             /\ sent' = [sent EXCEPT ![c] =
                            Append(@, [lo |-> written, hi |-> written])]
    <3>1. /\ Len(sent'[c]) = Len(sent[c]) + 1
          /\ Len(sent[c]) \in Nat
          /\ \A i \in 1..Len(sent[c]) : sent'[c][i] = sent[c][i]
          /\ sent'[c][Len(sent[c]) + 1].lo = written
          /\ \A d \in Clients \ {c} : sent'[d] = sent[d]
      BY <2>3 DEF TypeOK
    <3>2. \A i \in 1..Len(sent'[c]) : base[c] < sent'[c][i].lo
      BY <2>1, <3>1 DEF StreamInv, StreamOf
    <3>3. StreamOf(c)'
      BY <2>1, <2>3, <3>2 DEF StreamInv, StreamOf
    <3>4. \A d \in Clients \ {c} : StreamOf(d)'
      BY <2>1, <3>1 DEF StreamInv, StreamOf
    <3> QED
      BY <3>3, <3>4 DEF StreamInv
  <2> QED
    BY <1>3, <2>2, <2>3 DEF SendTo, Skip
<1>4. CASE CloseSubs
  <2>1. \A c \in Clients : chan[c] = "closed" => chan'[c] = "closed"
    BY <1>4 DEF CloseSubs, CloseChannels
  <2> QED
    BY <1>4, <2>1 DEF CloseSubs, pumpVars, clientVars, StreamInv, StreamOf
<1>5. ASSUME NEW c \in Clients, NEW replay \in BOOLEAN, Subscribe(c, replay)
      PROVE  StreamInv'
  <2>1. /\ UNCHANGED <<written, targets, rcvd, eof>>
        /\ c \notin targets /\ ~eof[c]
        /\ \A d \in Clients \ {c} : /\ chan'[d] = chan[d]
                                    /\ sent'[d] = sent[d]
                                    /\ base'[d] = base[d]
    BY <1>5 DEF Subscribe, pumpVars, ChannelInv, TypeOK
  <2>2. /\ base'[c] <= written
        /\ \A i \in 1..Len(sent'[c]) : base'[c] < sent'[c][i].lo
    <3>1. base'[c] = (IF replay THEN Oldest ELSE written)
      BY <1>5 DEF Subscribe, TypeOK
    <3>2. sent'[c] = IF replay /\ written > 0 THEN <<Replay>> ELSE <<>>
      BY <1>5 DEF Subscribe, TypeOK
    <3>3. Oldest \in Nat /\ Oldest <= written /\ written \in Nat
      BY ScrollbackAssumption, MaxOutputAssumption DEF Oldest, TypeOK
    <3> QED
      BY <3>1, <3>2, <3>3 DEF Replay
  <2>3. StreamOf(c)'
    BY <2>1, <2>2 DEF StreamOf
  <2>4. \A d \in Clients \ {c} : StreamOf(d)'
    BY <2>1 DEF StreamInv, StreamOf
  <2> QED
    BY <2>3, <2>4 DEF StreamInv
<1>6. ASSUME NEW c \in Clients, Receive(c)
      PROVE  StreamInv'
  <2>1. ~eof[c]
    BY <1>6 DEF Receive, StreamInv, StreamOf, TypeOK
  <2> QED
    BY <1>6, <2>1 DEF Receive, pumpVars, StreamInv, StreamOf, TypeOK
<1>7. ASSUME NEW c \in Clients, ReceiveClosed(c)
      PROVE  StreamInv'
  BY <1>7 DEF ReceiveClosed, pumpVars, StreamInv, StreamOf, TypeOK
<1>8. ASSUME NEW c \in Clients, Cancel(c)
      PROVE  StreamInv'
  <2>1. \A d \in Clients : chan[d] = "closed" => chan'[d] = "closed"
    BY <1>8 DEF Cancel, CloseChannels
  <2> QED
    BY <1>8, <2>1 DEF Cancel, pumpVars, StreamInv, StreamOf
<1>9. CASE Environment
  BY <1>1, <1>9 DEF Environment, Emit, ShellExit, HangUp, CloseMaster, Kill,
                    pumpVars, clientVars
<1>10. CASE Read \/ ReadError \/ SendDone \/ Wait \/ SetStatus \/ CloseDone
  BY <1>1, <1>10 DEF Read, ReadError, SendDone, Wait, SetStatus, CloseDone,
                     pumpVars, clientVars
<1>11. CASE UNCHANGED vars
  BY <1>1, <1>11 DEF vars, pumpVars, clientVars
<1> QED
  BY <1>2, <1>3, <1>4, <1>5, <1>6, <1>7, <1>8, <1>9, <1>10, <1>11
     DEF Next, Pump, Reap, Client

(* The invariant the refinement rests on. *)
THEOREM StreamInvariance == Spec => [](Inv /\ StreamInv)
<1>1. Init => StreamInv
  BY StreamInit
<1>2. Inv /\ StreamInv /\ [Next]_vars => StreamInv'
  BY StreamNext DEF Inv
<1> QED
  BY <1>1, <1>2, Invariance, PTL DEF Spec

-----------------------------------------------------------------------------
(* The mapping, step by step. *)

phases == [c \in Clients |-> Phase(c)]
sights == [c \in Clients |-> Seen(c)]

(* Steps that change nothing a screen can see. *)
LEMMA Unseen ==
  ASSUME Inv, UNCHANGED <<written, status, base, rcvd, eof, left>>,
         \A c \in Clients : (chan'[c] = "none") <=> (chan[c] = "none"),
         \A c \in Clients : \A i \in 1..rcvd[c] : sent'[c][i] = sent[c][i]
  PROVE  UNCHANGED Promise!vars
<1>1. \A c \in Clients : Phase(c)' = Phase(c)
  BY DEF Phase
<1>2. \A c \in Clients : Seen(c)' = Seen(c)
  BY DEF Seen
<1> QED
  BY <1>1, <1>2 DEF Promise!vars

(* The initial states are initial states of the output stream. *)
LEMMA PromiseInit == Init => Promise!Init
<1> SUFFICES ASSUME Init
             PROVE  Promise!Init
  OBVIOUS
<1>1. \A c \in Clients : Phase(c) = "away"
  BY DEF Init, Phase
<1>2. \A c \in Clients : Seen(c) = {}
  BY DEF Init, Seen
<1> QED
  BY <1>1, <1>2 DEF Init, Promise!Init

(* Taking a message is being shown the stretch of output it carries. *)
LEMMA ReceiveShows ==
  ASSUME Inv, StreamInv, NEW c \in Clients, Receive(c)
  PROVE  Promise!Show(c)
<1> DEFINE m == sent[c][rcvd[c] + 1]
<1>1. /\ rcvd[c] \in Nat /\ Len(sent[c]) \in Nat /\ rcvd[c] < Len(sent[c])
      /\ rcvd[c] + 1 \in 1..Len(sent[c])
      /\ rcvd' = [rcvd EXCEPT ![c] = rcvd[c] + 1]
      /\ rcvd \in [Clients -> Nat]
      /\ UNCHANGED <<written, status, base, chan, sent, eof, left>>
      /\ chan[c] # "none" /\ ~left[c] /\ ~eof[c]
  BY DEF Receive, Inv, TypeOK, StreamInv, StreamOf, pumpVars, reapVars
<1>2. m \in Interval /\ written \in Nat /\ base[c] \in Nat
  BY <1>1 DEF Inv, TypeOK
<1>3. base[c] < m.lo /\ m.lo <= m.hi /\ m.hi <= written
  BY <1>1 DEF Inv, OrderInv, OrderOf, StreamInv, StreamOf
<1>4. m.lo \in (base[c] + 1) .. written /\ m.hi \in (base[c] + 1) .. written
  BY <1>2, <1>3 DEF Interval
<1>5. \A n \in Seen(c) : n < m.lo
  <2> SUFFICES ASSUME NEW i \in 1..rcvd[c], NEW n \in sent[c][i].lo .. sent[c][i].hi
               PROVE  n < m.lo
    BY DEF Seen
  <2>1. i \in 1..Len(sent[c]) /\ i < rcvd[c] + 1
    BY <1>1
  <2>2. sent[c][i].hi < m.lo
    BY <1>1, <2>1 DEF Inv, OrderInv, OrderOf
  <2>3. sent[c][i] \in Interval
    BY <2>1 DEF Inv, TypeOK
  <2> QED
    BY <1>2, <2>2, <2>3 DEF Interval
<1>6. Seen(c)' = Seen(c) \union (m.lo .. m.hi)
  <2>1. 1..(rcvd[c] + 1) = 1..rcvd[c] \union {rcvd[c] + 1}
    BY <1>1
  <2>2. Seen(c)' = UNION {sent[c][i].lo .. sent[c][i].hi : i \in 1..(rcvd[c] + 1)}
    BY <1>1 DEF Seen
  <2> QED
    BY <2>1, <2>2 DEF Seen
<1>7. \A d \in Clients \ {c} : Seen(d)' = Seen(d)
  BY <1>1 DEF Seen
<1>8. sights' = [sights EXCEPT ![c] = Seen(c) \union (m.lo .. m.hi)]
  BY <1>6, <1>7 DEF sights
<1>9. \A d \in Clients : Phase(d)' = Phase(d)
  BY <1>1 DEF Phase
<1>10. phases' = phases /\ phases[c] = "watching" /\ sights[c] = Seen(c)
  BY <1>1, <1>9 DEF phases, sights, Phase
<1> HIDE DEF m
<1> QED
  BY <1>1, <1>4, <1>5, <1>3, <1>8, <1>10 DEF Promise!Show, phases, sights

(* A subscription joins the output stream at its end or a window before it. *)
LEMMA SubscribeJoins ==
  ASSUME Inv, NEW c \in Clients, NEW replay \in BOOLEAN, Subscribe(c, replay)
  PROVE  Promise!Join(c)
<1>1. /\ UNCHANGED <<written, status, rcvd, eof, left>>
      /\ chan[c] = "none" /\ ~eof[c] /\ ~left[c] /\ rcvd[c] = 0
      /\ chan' = [chan EXCEPT ![c] = "open"]
      /\ \A d \in Clients \ {c} : chan'[d] = chan[d] /\ sent'[d] = sent[d]
      /\ base' = [base EXCEPT ![c] = IF replay THEN Oldest ELSE written]
      /\ chan'[c] = "open"
  BY DEF Subscribe, reapVars, pumpVars, Inv, ChannelInv, TypeOK
<1>2. \A d \in Clients : Seen(d)' = Seen(d)
  BY <1>1 DEF Seen
<1>3. \A d \in Clients \ {c} : Phase(d)' = Phase(d)
  BY <1>1 DEF Phase
<1>4. Phase(c) = "away" /\ Phase(c)' = "watching"
  BY <1>1 DEF Phase
<1> QED
  BY <1>1, <1>2, <1>3, <1>4 DEF Promise!Join, Oldest

(* Finding the channel drained and closed is being told that the stream is     *)
(* over, which the exit on record allows.                                      *)
LEMMA ReceiveClosedEnds ==
  ASSUME Inv, NEW c \in Clients, ReceiveClosed(c)
  PROVE  Promise!End(c)
<1>1. /\ UNCHANGED <<written, status, base, chan, sent, rcvd, left>>
      /\ chan[c] = "closed" /\ ~left[c] /\ ~eof[c]
      /\ eof' = [eof EXCEPT ![c] = TRUE] /\ eof'[c]
      /\ \A d \in Clients \ {c} : eof'[d] = eof[d]
      /\ status = "exited"
  BY DEF ReceiveClosed, reapVars, pumpVars, Inv, EndInv, OnRecord, TypeOK
<1>2. \A d \in Clients : Seen(d)' = Seen(d)
  BY <1>1 DEF Seen
<1>3. \A d \in Clients \ {c} : Phase(d)' = Phase(d)
  BY <1>1 DEF Phase
<1>4. Phase(c) = "watching" /\ Phase(c)' = "ended"
  BY <1>1 DEF Phase
<1> QED
  BY <1>1, <1>2, <1>3, <1>4 DEF Promise!End

(* cancel is leaving. *)
LEMMA CancelLeaves ==
  ASSUME Inv, NEW c \in Clients, Cancel(c)
  PROVE  Promise!Leave(c)
<1>1. /\ UNCHANGED <<written, status, base, sent, rcvd, eof>>
      /\ chan[c] # "none" /\ ~left[c]
      /\ left' = [left EXCEPT ![c] = TRUE] /\ left'[c]
      /\ \A d \in Clients \ {c} : left'[d] = left[d]
  BY DEF Cancel, reapVars, pumpVars, Inv, TypeOK
<1>2. \A d \in Clients : (chan'[d] = "none") <=> (chan[d] = "none")
  BY DEF Cancel, CloseChannels, StillSubscribed, Inv, ChannelInv, TypeOK
<1>3. \A d \in Clients : Seen(d)' = Seen(d)
  BY <1>1 DEF Seen
<1>4. \A d \in Clients \ {c} : Phase(d)' = Phase(d)
  BY <1>1, <1>2 DEF Phase
<1>5. Phase(c) \in {"watching", "ended"} /\ Phase(c)' = "left"
  BY <1>1, <1>2 DEF Phase
<1> QED
  BY <1>1, <1>3, <1>4, <1>5 DEF Promise!Leave

(* Every step of the goroutines is a step of the output stream or none. *)
LEMMA PromiseNext ==
  ASSUME Inv, StreamInv, [Next]_vars
  PROVE  [Promise!Next]_(Promise!vars)
<1>1. CASE UNCHANGED <<written, status, base, rcvd, eof, left, chan, sent>>
  BY <1>1, Unseen
<1>2. CASE Broadcast
  <2>1. \A c \in Clients : Phase(c)' = Phase(c) /\ Seen(c)' = Seen(c)
    BY <1>2 DEF Broadcast, reapVars, clientVars, Phase, Seen
  <2> QED
    BY <1>2, <2>1 DEF Broadcast, reapVars, clientVars, Promise!Write,
                      Promise!Next
<1>3. CASE SetStatus
  <2>1. \A c \in Clients : Phase(c)' = Phase(c) /\ Seen(c)' = Seen(c)
    BY <1>3 DEF SetStatus, pumpVars, clientVars, Phase, Seen
  <2> QED
    BY <1>3, <2>1 DEF SetStatus, pumpVars, clientVars, Promise!Exit,
                      Promise!Next
<1>4. ASSUME NEW c \in Clients, SendTo(c)
      PROVE  UNCHANGED Promise!vars
  <2>1. UNCHANGED <<written, status, base, rcvd, eof, left, chan>>
    BY <1>4 DEF SendTo, reapVars, clientVars
  <2>2. \A d \in Clients : \A i \in 1..Len(sent[d]) : sent'[d][i] = sent[d][i]
    <3>1. CASE UNCHANGED sent
      BY <3>1
    <3>2. CASE sent' = [sent EXCEPT ![c] =
                           Append(@, [lo |-> written, hi |-> written])]
      BY <3>2 DEF Inv, TypeOK
    <3> QED
      BY <1>4, <3>1, <3>2 DEF SendTo, Skip
  <2>3. \A d \in Clients : \A i \in 1..rcvd[d] : i \in 1..Len(sent[d])
    BY DEF Inv, TypeOK
  <2> QED
    BY <2>1, <2>2, <2>3, Unseen
<1>5. CASE CloseSubs
  <2>1. UNCHANGED <<written, status, base, rcvd, eof, left, sent>>
    BY <1>5 DEF CloseSubs, pumpVars, clientVars
  <2>2. \A c \in Clients : (chan'[c] = "none") <=> (chan[c] = "none")
    BY <1>5 DEF CloseSubs, CloseChannels, Inv, ChannelInv, TypeOK
  <2> QED
    BY <2>1, <2>2, Unseen
<1>6. ASSUME NEW c \in Clients, Client(c)
      PROVE  Promise!Next
  BY <1>6, SubscribeJoins, ReceiveShows, ReceiveClosedEnds, CancelLeaves
     DEF Client, Promise!Next
<1>7. CASE Environment
  BY <1>1, <1>7 DEF Environment, Emit, ShellExit, HangUp, CloseMaster, Kill,
                    pumpVars, reapVars, clientVars
<1>8. CASE Read \/ ReadError \/ SendDone \/ Wait \/ CloseDone
  BY <1>1, <1>8 DEF Read, ReadError, SendDone, Wait, CloseDone, pumpVars,
                    reapVars, clientVars
<1>9. CASE UNCHANGED vars
  BY <1>1, <1>9 DEF vars, pumpVars, reapVars, clientVars
<1> QED
  BY <1>2, <1>3, <1>4, <1>5, <1>6, <1>7, <1>8, <1>9 DEF Next, Pump, Reap

(* What a screen sees of the fan-out is the output stream of OutputStream:     *)
(* nothing repeated, reordered or made up, and an end only after the exit      *)
(* (terminal.go pump, broadcast, reap, Subscribe).                             *)
THEOREM Implementation == Spec => ImplementsStream
<1>1. Inv /\ StreamInv /\ [Next]_vars => [Promise!Next]_(Promise!vars)
  BY PromiseNext
<1> QED
  BY <1>1, PromiseInit, StreamInvariance, PTL
     DEF Spec, ImplementsStream, Promise!Spec
=============================================================================
