----------------------- MODULE InboundGateway_proofs -----------------------
(***************************************************************************)
(* Proofs about InboundGateway: its type invariant, that a passive task is *)
(* quiet, and that the gateway implements StoreAndForward.                 *)
(***************************************************************************)
EXTENDS InboundGateway, TLAPS

(* A thread past its save has its message in the safe store. *)
HandledOK ==
  \A g \in Task, q \in Queue :
     /\ receipt[g][q].pc # "idle" => Msg(g, q) \in Message
     /\ receipt[g][q].pc \in {"ack", "push"} => Msg(g, q) \in raw

(* What left the broker or went on to Kinesis is in the safe store. *)
KeptFirst ==
  /\ pushed \subseteq raw
  /\ \A m \in Message : place[m] = "acked" => m \in raw

IInv == TypeOK /\ HandledOK /\ KeptFirst /\ PassiveIsQuiet

(* The initial state satisfies the invariant. *)
LEMMA InitInv == Init => IInv
<1> SUFFICES ASSUME Init PROVE IInv
  OBVIOUS
<1>1. TypeOK
  BY DEF Init, TypeOK, Idle, Receipt, Place, Mode
<1>2. HandledOK
  BY DEF Init, HandledOK, Idle
<1>3. KeptFirst
  BY DEF Init, KeptFirst
<1>4. PassiveIsQuiet
  <2>1. \A g \in Task : "none" # g
    BY GatewayAssumption DEF Place
  <2> QED
    BY <2>1 DEF Init, PassiveIsQuiet, Busy, Idle
<1> QED
  BY <1>1, <1>2, <1>3, <1>4 DEF IInv

(* What a thread in the middle of a message works with. *)
LEMMA HandledFacts ==
  ASSUME IInv, NEW g \in Task, NEW q \in Queue, NEW pc \in {"save", "ack", "push"},
         At(g, q, pc)
  PROVE  /\ mode[g] \notin {"down", "passive"}
         /\ receipt[g][q] \in Receipt
         /\ Msg(g, q) \in Message
         /\ pc # "save" => Msg(g, q) \in raw
  <1>1. receipt[g][q] \in Receipt /\ receipt[g][q].pc = pc /\ mode[g] # "down"
    BY DEF IInv, TypeOK, At
  <1>2. Msg(g, q) \in Message /\ (pc # "save" => Msg(g, q) \in raw)
    BY <1>1 DEF IInv, HandledOK
  <1>3. receipt[g][q] # Idle
    BY <1>1 DEF Idle
  <1>4. mode[g] # "passive"
    BY <1>3 DEF IInv, PassiveIsQuiet, Busy
  <1> QED
    BY <1>1, <1>2, <1>4

(* The two updates of a thread's own state keep its type and HandledOK,    *)
(* whatever is added to the store.                                         *)
LEMMA FinishKeeps ==
  ASSUME IInv, NEW g \in Task, NEW q \in Queue, Finish(g, q), raw \subseteq raw'
  PROVE  receipt' \in [Task -> [Queue -> Receipt]] /\ HandledOK'
  <1>1. Idle \in Receipt
    BY DEF Idle, Receipt
  <1>2. receipt' \in [Task -> [Queue -> Receipt]]
    BY <1>1 DEF IInv, TypeOK, Finish
  <1>3. ASSUME NEW h \in Task, NEW r \in Queue
        PROVE  receipt'[h][r] = IF h = g /\ r = q THEN Idle ELSE receipt[h][r]
    BY DEF IInv, TypeOK, Finish
  <1>4. HandledOK'
    BY <1>3 DEF IInv, HandledOK, Msg, Idle
  <1> QED
    BY <1>2, <1>4

(* The same for the next statement of the message at hand. *)
LEMMA GotoKeeps ==
  ASSUME IInv, NEW g \in Task, NEW q \in Queue, NEW pc \in {"ack", "push"},
         Goto(g, q, pc), raw \subseteq raw',
         Msg(g, q) \in Message, Msg(g, q) \in raw'
  PROVE  receipt' \in [Task -> [Queue -> Receipt]] /\ HandledOK'
  <1>1. receipt[g][q] \in Receipt
    BY DEF IInv, TypeOK
  <1>2. [receipt[g][q] EXCEPT !.pc = pc] = [pc |-> pc, msg |-> Msg(g, q)]
    BY <1>1 DEF Receipt, Msg
  <1>3. [pc |-> pc, msg |-> Msg(g, q)] \in Receipt
    BY DEF Receipt
  <1>4. receipt' = [receipt EXCEPT ![g][q] = [pc |-> pc, msg |-> Msg(g, q)]]
    BY <1>2 DEF Goto, IInv, TypeOK
  <1>5. receipt' \in [Task -> [Queue -> Receipt]]
    BY <1>3, <1>4 DEF IInv, TypeOK
  <1>6. ASSUME NEW h \in Task, NEW r \in Queue
        PROVE  receipt'[h][r] = IF h = g /\ r = q THEN [pc |-> pc, msg |-> Msg(g, q)]
                                                  ELSE receipt[h][r]
    BY <1>4 DEF IInv, TypeOK
  <1>7. HandledOK'
    BY <1>6 DEF IInv, HandledOK, Msg
  <1> QED
    BY <1>5, <1>7

(* A step of one task that does not end passive leaves the others quiet. *)
LEMMA OthersStayQuiet ==
  ASSUME IInv, NEW g \in Task, mode'[g] \notin {"down", "passive"},
         \A h \in Task \ {g} : /\ mode'[h] = mode[h]
                               /\ receipt'[h] = receipt[h]
                               /\ \A m \in Message : place'[m] = h => place[m] = h
  PROVE  PassiveIsQuiet'
  <1> SUFFICES ASSUME NEW h \in Task, mode'[h] \in {"down", "passive"}
               PROVE  Busy(h)' = FALSE
    BY DEF PassiveIsQuiet
  <1>1. h # g /\ ~Busy(h)
    BY DEF IInv, PassiveIsQuiet
  <1> QED
    BY <1>1 DEF Busy

(* Every step of a receiver preserves the invariant. *)
LEMMA ReceiverInv ==
  ASSUME IInv, NEW g \in Task, NEW q \in Queue, ReceiveMessage(g, q)
  PROVE  IInv'
  <1>1. CASE Receive(g, q)
    <2>1. PICK m \in Message :
            /\ QueueOf[m] = q /\ place[m] = "queued"
            /\ place' = [place EXCEPT ![m] = g]
            /\ IF m \in Unreadable
                 THEN UNCHANGED receipt
                 ELSE receipt' = [receipt EXCEPT ![g][q] = [pc |-> "save", msg |-> m]]
      BY <1>1 DEF Receive
    <2>2. UNCHANGED <<raw, pushed, fails, mode, control, crashes, switches>>
      BY <1>1 DEF Receive, StayListening
    <2>3. [pc |-> "save", msg |-> m] \in Receipt
      BY DEF Receipt
    <2>4. TypeOK'
      <3>1. place' \in [Message -> Place \cup Task]
        BY <2>1 DEF IInv, TypeOK
      <3>2. receipt' \in [Task -> [Queue -> Receipt]]
        <4>1. receipt \in [Task -> [Queue -> Receipt]]
          BY DEF IInv, TypeOK
        <4>2. CASE m \in Unreadable
          BY <2>1, <4>1, <4>2
        <4>3. CASE m \notin Unreadable
          BY <2>1, <2>3, <4>1, <4>3
        <4> QED
          BY <4>2, <4>3
      <3> QED
        BY <2>2, <3>1, <3>2 DEF IInv, TypeOK
    <2>5. HandledOK'
      <3>1. CASE m \in Unreadable
        BY <2>1, <2>2, <3>1 DEF IInv, HandledOK, Msg
      <3>2. CASE m \notin Unreadable
        <4>1. ASSUME NEW h \in Task, NEW r \in Queue
              PROVE  receipt'[h][r] = IF h = g /\ r = q THEN [pc |-> "save", msg |-> m]
                                                        ELSE receipt[h][r]
          BY <2>1, <3>2 DEF IInv, TypeOK
        <4> QED
          BY <2>2, <4>1 DEF IInv, HandledOK, Msg
      <3> QED
        BY <3>1, <3>2
    <2>6. KeptFirst'
      BY <2>1, <2>2, GatewayAssumption DEF IInv, TypeOK, KeptFirst, Place
    <2>7. PassiveIsQuiet'
      <3>1. mode'[g] = "listening"
        BY <1>1, <2>2 DEF Receive
      <3>2. \A h \in Task \ {g} : receipt'[h] = receipt[h]
        BY <2>1 DEF IInv, TypeOK
      <3>3. \A h \in Task \ {g}, x \in Message : place'[x] = h => place[x] = h
        BY <2>1 DEF IInv, TypeOK
      <3> QED
        BY <2>2, <3>1, <3>2, <3>3, OthersStayQuiet
    <2> QED
      BY <2>4, <2>5, <2>6, <2>7 DEF IInv
  <1>2. CASE Save(g, q)
    <2>1. At(g, q, "save") /\ Goto(g, q, "ack") /\ raw' = raw \cup {Msg(g, q)}
      BY <1>2 DEF Save
    <2>2. UNCHANGED <<place, pushed, fails, mode, control, crashes, switches>>
      BY <1>2 DEF Save, StayListening
    <2>3. Msg(g, q) \in Message /\ mode[g] \notin {"down", "passive"}
      BY <2>1, HandledFacts
    <2>4. receipt' \in [Task -> [Queue -> Receipt]] /\ HandledOK'
      BY <2>1, <2>3, GotoKeeps
    <2>5. TypeOK'
      BY <2>1, <2>2, <2>3, <2>4 DEF IInv, TypeOK
    <2>6. KeptFirst'
      BY <2>1, <2>2 DEF IInv, KeptFirst
    <2>7. PassiveIsQuiet'
      <3>1. \A h \in Task \ {g} : receipt'[h] = receipt[h]
        BY <2>1 DEF Goto, IInv, TypeOK
      <3> QED
        BY <2>2, <2>3, <3>1, OthersStayQuiet
    <2> QED
      BY <2>4, <2>5, <2>6, <2>7 DEF IInv
  <1>3. CASE FailSave(g, q)
    <2>1. /\ At(g, q, "save") /\ Finish(g, q) /\ Fail
          /\ raw' \in {raw, raw \cup {Msg(g, q)}}
          /\ UNCHANGED <<place, pushed, control, crashes, switches>>
          /\ mode' = IF q \in Guarded /\ mode[g] = "listening"
                       THEN [mode EXCEPT ![g] = "stopped"] ELSE mode
      BY <1>3 DEF FailSave
    <2>2. Msg(g, q) \in Message /\ mode[g] \notin {"down", "passive"}
      BY <2>1, HandledFacts
    <2>3. receipt' \in [Task -> [Queue -> Receipt]] /\ HandledOK'
      BY <2>1, FinishKeeps
    <2>4. TypeOK'
      <3>1. mode' \in [Task -> Mode] /\ fails' \in Nat
        BY <2>1 DEF IInv, TypeOK, Mode, Fail
      <3> QED
        BY <2>1, <2>2, <2>3, <3>1 DEF IInv, TypeOK
    <2>5. KeptFirst'
      BY <2>1 DEF IInv, KeptFirst
    <2>6. PassiveIsQuiet'
      <3>1. mode'[g] \notin {"down", "passive"}
        BY <2>1, <2>2 DEF IInv, TypeOK
      <3>2. \A h \in Task \ {g} : receipt'[h] = receipt[h] /\ mode'[h] = mode[h]
        BY <2>1 DEF Finish, IInv, TypeOK
      <3> QED
        BY <2>1, <3>1, <3>2, OthersStayQuiet
    <2> QED
      BY <2>3, <2>4, <2>5, <2>6 DEF IInv
  <1>4. CASE Ack(g, q)
    <2>1. /\ At(g, q, "ack") /\ Goto(g, q, "push")
          /\ place' = [place EXCEPT ![Msg(g, q)] = "acked"]
          /\ UNCHANGED <<raw, pushed, fails, mode, control, crashes, switches>>
      BY <1>4 DEF Ack, StayListening
    <2>2. Msg(g, q) \in Message /\ Msg(g, q) \in raw /\ mode[g] \notin {"down", "passive"}
      BY <2>1, HandledFacts
    <2>3. receipt' \in [Task -> [Queue -> Receipt]] /\ HandledOK'
      BY <2>1, <2>2, GotoKeeps
    <2>4. TypeOK'
      BY <2>1, <2>2, <2>3 DEF IInv, TypeOK, Place
    <2>5. KeptFirst'
      BY <2>1, <2>2 DEF IInv, TypeOK, KeptFirst
    <2>6. PassiveIsQuiet'
      <3>1. \A h \in Task \ {g} : receipt'[h] = receipt[h]
        BY <2>1 DEF Goto, IInv, TypeOK
      <3>2. "acked" \notin Task
        BY GatewayAssumption DEF Place
      <3>3. \A h \in Task \ {g}, x \in Message : place'[x] = h => place[x] = h
        BY <2>1, <2>2, <3>2 DEF IInv, TypeOK
      <3> QED
        BY <2>1, <2>2, <3>1, <3>3, OthersStayQuiet
    <2> QED
      BY <2>3, <2>4, <2>5, <2>6 DEF IInv
  <1>5. CASE FailAck(g, q)
    <2>1. /\ At(g, q, "ack") /\ Fail
          /\ Finish(g, q) \/ Goto(g, q, "push")
          /\ UNCHANGED <<place, raw, pushed, mode, control, crashes, switches>>
      BY <1>5 DEF FailAck, StayListening
    <2>2. Msg(g, q) \in Message /\ Msg(g, q) \in raw /\ mode[g] \notin {"down", "passive"}
      BY <2>1, HandledFacts
    <2>3. receipt' \in [Task -> [Queue -> Receipt]] /\ HandledOK'
      <3>1. CASE Finish(g, q)
        BY <2>1, <3>1, FinishKeeps
      <3>2. CASE Goto(g, q, "push")
        BY <2>1, <2>2, <3>2, GotoKeeps
      <3> QED
        BY <2>1, <3>1, <3>2
    <2>4. TypeOK'
      BY <2>1, <2>3 DEF IInv, TypeOK, Fail
    <2>5. KeptFirst'
      BY <2>1 DEF IInv, KeptFirst
    <2>6. PassiveIsQuiet'
      <3>1. \A h \in Task \ {g} : receipt'[h] = receipt[h]
        BY <2>1 DEF Goto, Finish, IInv, TypeOK
      <3> QED
        BY <2>1, <2>2, <3>1, OthersStayQuiet
    <2> QED
      BY <2>3, <2>4, <2>5, <2>6 DEF IInv
  <1>6. CASE Push(g, q) \/ FailPush(g, q)
    <2>1. /\ At(g, q, "push") /\ Finish(g, q)
          /\ fails' = fails \/ Fail
          /\ pushed' \in {pushed, pushed \cup {Msg(g, q)}}
          /\ UNCHANGED <<place, raw, mode, control, crashes, switches>>
      BY <1>6 DEF Push, FailPush, StayListening
    <2>2. Msg(g, q) \in Message /\ Msg(g, q) \in raw /\ mode[g] \notin {"down", "passive"}
      BY <2>1, HandledFacts
    <2>3. receipt' \in [Task -> [Queue -> Receipt]] /\ HandledOK'
      BY <2>1, FinishKeeps
    <2>4. TypeOK'
      BY <2>1, <2>2, <2>3 DEF IInv, TypeOK, Fail
    <2>5. KeptFirst'
      BY <2>1, <2>2 DEF IInv, KeptFirst
    <2>6. PassiveIsQuiet'
      <3>1. \A h \in Task \ {g} : receipt'[h] = receipt[h]
        BY <2>1 DEF Finish, IInv, TypeOK
      <3> QED
        BY <2>1, <2>2, <3>1, OthersStayQuiet
    <2> QED
      BY <2>3, <2>4, <2>5, <2>6 DEF IInv
  <1> QED
    BY <1>1, <1>2, <1>3, <1>4, <1>5, <1>6 DEF ReceiveMessage

(* Every step of the region state manager, and a restart, preserve the     *)
(* invariant.                                                              *)
LEMMA ModeInv ==
  ASSUME IInv, NEW g \in Task, CheckRegionState(g) \/ Restart(g)
  PROVE  IInv'
  <1>1. CASE PollOn(g) \/ PollOff(g)
    <2>1. /\ UNCHANGED receiptVars /\ UNCHANGED <<control, crashes, switches>>
          /\ fails' = fails \/ Fail
          /\ \E k \in {"listening", "closing"} : mode' = [mode EXCEPT ![g] = k]
      BY <1>1 DEF PollOn, PollOff, counters
    <2>2. TypeOK' /\ HandledOK' /\ KeptFirst'
      BY <2>1 DEF IInv, TypeOK, HandledOK, KeptFirst, Msg, Mode, Fail, receiptVars
    <2>3. PassiveIsQuiet'
      <3>1. /\ mode'[g] \notin {"down", "passive"}
            /\ \A h \in Task \ {g} : mode'[h] = mode[h]
        BY <2>1 DEF IInv, TypeOK
      <3> QED
        BY <2>1, <3>1, OthersStayQuiet DEF receiptVars
    <2> QED
      BY <2>2, <2>3 DEF IInv
  <1>2. CASE \E q \in Queue : CloseSession(g, q)
    <2>1. PICK q \in Queue : CloseSession(g, q)
      BY <1>2
    <2>2. /\ mode[g] = "closing"
          /\ UNCHANGED <<raw, pushed, receipt, mode, control, counters>>
          /\ Return(g, {m \in Message : QueueOf[m] = q})
      BY <2>1 DEF CloseSession
    <2>3. /\ place' \in [Message -> Place \cup Task]
          /\ \A m \in Message : place'[m] = place[m] \/ place'[m] = "queued"
      BY <2>2 DEF Return, IInv, TypeOK, Place
    <2>4. TypeOK' /\ HandledOK' /\ KeptFirst'
      BY <2>2, <2>3 DEF IInv, TypeOK, HandledOK, KeptFirst, Msg, counters
    <2>5. PassiveIsQuiet'
      <3>1. "queued" \notin Task
        BY GatewayAssumption DEF Place
      <3> QED
        BY <2>2, <2>3, <3>1, OthersStayQuiet
    <2> QED
      BY <2>4, <2>5 DEF IInv
  <1>3. CASE Closed(g)
    <2>1. /\ UNCHANGED <<receiptVars, control, counters>>
          /\ mode' = [mode EXCEPT ![g] = "passive"]
          /\ receipt[g] = [q \in Queue |-> Idle]
          /\ \A m \in Message : place[m] # g
      BY <1>3 DEF Closed
    <2>2. TypeOK' /\ HandledOK' /\ KeptFirst'
      BY <2>1 DEF IInv, TypeOK, HandledOK, KeptFirst, Msg, Mode, receiptVars, counters
    <2>3. PassiveIsQuiet'
      BY <2>1 DEF IInv, TypeOK, PassiveIsQuiet, Busy, receiptVars
    <2> QED
      BY <2>2, <2>3 DEF IInv
  <1>4. CASE Restart(g)
    <2>1. /\ UNCHANGED <<receiptVars, control, counters>>
          /\ mode[g] = "down" /\ mode' = [mode EXCEPT ![g] = "passive"]
      BY <1>4 DEF Restart
    <2>2. TypeOK' /\ HandledOK' /\ KeptFirst'
      BY <2>1 DEF IInv, TypeOK, HandledOK, KeptFirst, Msg, Mode, receiptVars, counters
    <2>3. PassiveIsQuiet'
      BY <2>1 DEF IInv, TypeOK, PassiveIsQuiet, Busy, receiptVars
    <2> QED
      BY <2>2, <2>3 DEF IInv
  <1> QED
    BY <1>1, <1>2, <1>3, <1>4 DEF CheckRegionState

(* A crash gives back what the task holds, and preserves the invariant. *)
LEMMA CrashInv ==
  ASSUME IInv, NEW g \in Task, Crash(g)
  PROVE  IInv'
  <1>1. /\ UNCHANGED <<raw, pushed, control, fails, switches>>
        /\ crashes' = crashes + 1
        /\ mode' = [mode EXCEPT ![g] = "down"]
        /\ receipt' = [receipt EXCEPT ![g] = [q \in Queue |-> Idle]]
        /\ place' = [m \in Message |-> IF place[m] = g THEN "queued" ELSE place[m]]
    BY DEF Crash, Return
  <1>2. Idle \in Receipt
    BY DEF Idle, Receipt
  <1>3. TypeOK'
    BY <1>1, <1>2 DEF IInv, TypeOK, Mode, Place
  <1>4. \A h \in Task, q \in Queue :
           receipt'[h][q] = IF h = g THEN Idle ELSE receipt[h][q]
    BY <1>1 DEF IInv, TypeOK
  <1>5. HandledOK'
    BY <1>1, <1>4 DEF IInv, HandledOK, Msg, Idle
  <1>6. KeptFirst'
    BY <1>1 DEF IInv, KeptFirst
  <1>7. PassiveIsQuiet'
    <2>1. "queued" \notin Task
      BY GatewayAssumption DEF Place
    <2>2. ASSUME NEW h \in Task, mode'[h] \in {"down", "passive"}
          PROVE  Busy(h)' = FALSE
      <3>1. CASE h = g
        <4>1. \A m \in Message : place'[m] # g
          BY <1>1, <2>1
        <4> QED
          BY <1>1, <1>4, <3>1, <4>1 DEF IInv, TypeOK, Busy
      <3>2. CASE h # g
        <4>1. mode'[h] = mode[h] /\ ~Busy(h)
          BY <1>1, <2>2, <3>2 DEF IInv, TypeOK, PassiveIsQuiet
        <4>2. \A m \in Message : place'[m] # h
          BY <1>1, <2>1, <4>1 DEF Busy
        <4> QED
          BY <1>4, <2>2, <3>2, <4>1, <4>2 DEF Busy
      <3> QED
        BY <3>1, <3>2
    <2> QED
      BY <2>2 DEF PassiveIsQuiet
  <1> QED
    BY <1>3, <1>5, <1>6, <1>7 DEF IInv

(* The broker and the routing control preserve the invariant. *)
LEMMA OutsideInv ==
  ASSUME IInv, Switch \/ \E m \in Message : Arrive(m)
  PROVE  IInv'
  <1>1. CASE Switch
    BY <1>1 DEF Switch, IInv, TypeOK, HandledOK, KeptFirst, PassiveIsQuiet, Busy, Msg,
                receiptVars
  <1>2. ASSUME NEW m \in Message, Arrive(m)
        PROVE  IInv'
    <2>1. /\ UNCHANGED <<raw, pushed, receipt, mode, control, counters>>
          /\ place' = [place EXCEPT ![m] = "queued"]
      BY <1>2 DEF Arrive
    <2>2. TypeOK' /\ HandledOK' /\ KeptFirst'
      BY <2>1 DEF IInv, TypeOK, HandledOK, KeptFirst, Msg, Place, counters
    <2>3. PassiveIsQuiet'
      <3>1. "queued" \notin Task
        BY GatewayAssumption DEF Place
      <3>2. \A h \in Task, x \in Message : place'[x] = h => place[x] = h
        BY <2>1, <3>1 DEF IInv, TypeOK
      <3> QED
        BY <2>1, <3>2 DEF IInv, PassiveIsQuiet, Busy
    <2> QED
      BY <2>2, <2>3 DEF IInv
  <1> QED
    BY <1>1, <1>2

(* A step that changes nothing preserves the invariant. *)
LEMMA StutterInv == IInv /\ UNCHANGED vars => IInv'
  BY DEF IInv, TypeOK, HandledOK, KeptFirst, PassiveIsQuiet, Busy, Msg, vars, receiptVars,
         counters

(* Every step preserves the invariant. *)
LEMMA NextInv == IInv /\ [Next]_vars => IInv'
  BY ReceiverInv, ModeInv, CrashInv, OutsideInv, StutterInv DEF Next

(* The invariant of the gateway holds in every reachable state. *)
THEOREM Invariance == Spec => []IInv
  BY InitInv, NextInv, PTL DEF Spec

(* The type invariant holds in every reachable state. *)
THEOREM GatewayTypeCorrect == Spec => []TypeOK
  <1>1. IInv => TypeOK
    BY DEF IInv
  <1> QED
    BY <1>1, Invariance, PTL

(* A task that is passive, or not running, has no thread inside a receiver *)
(* and holds no message back.                                              *)
THEOREM GatewayQuiet == Spec => []PassiveIsQuiet
  <1>1. IInv => PassiveIsQuiet
    BY DEF IInv
  <1> QED
    BY <1>1, Invariance, PTL

(* What the broker no longer holds. *)
acked == {m \in Message : place[m] = "acked"}

(* A write to the store is a Keep. *)
LEMMA StepKept ==
  ASSUME IInv, NEW m \in Message, raw' = raw \cup {m}, UNCHANGED <<place, pushed>>
  PROVE  Stage!Next
  BY DEF Stage!Next, Stage!Keep

(* An acknowledgement of a message in the store is a Take. *)
LEMMA StepTaken ==
  ASSUME NEW m \in Message, m \in raw, acked' = acked \cup {m}, UNCHANGED <<raw, pushed>>
  PROVE  Stage!Next
  <1>1. {m} \in SUBSET Message /\ {m} \subseteq raw
    OBVIOUS
  <1> QED
    BY <1>1 DEF Stage!Next, Stage!Take, acked

(* A step that leaves all three sets alone is a stutter. *)
LEMMA StepSilent ==
  ASSUME UNCHANGED <<raw, pushed>>,
         \A m \in Message : place'[m] = "acked" <=> place[m] = "acked"
  PROVE  UNCHANGED Stage!vars
  BY DEF Stage!vars

(* Every step of the gateway is a step of StoreAndForward or a stutter. *)
LEMMA StepMaps ==
  ASSUME IInv, [Next]_vars
  PROVE  [Stage!Next]_Stage!vars
  <1>0. \A g \in Task : g # "acked"
    BY GatewayAssumption DEF Place
  <1>1. ASSUME NEW g \in Task, NEW q \in Queue, ReceiveMessage(g, q)
        PROVE  [Stage!Next]_Stage!vars
    <2>1. CASE Receive(g, q)
      <3>1. \A m \in Message : place'[m] = "acked" <=> place[m] = "acked"
        BY <1>0, <2>1 DEF Receive, IInv, TypeOK
      <3> QED
        BY <2>1, <3>1, StepSilent DEF Receive
    <2>2. CASE Save(g, q) \/ FailSave(g, q)
      <3>1. /\ At(g, q, "save") /\ UNCHANGED <<place, pushed>>
            /\ raw' = raw \/ raw' = raw \cup {Msg(g, q)}
        BY <2>2 DEF Save, FailSave, StayListening
      <3>2. Msg(g, q) \in Message
        BY <3>1, HandledFacts
      <3> QED
        BY <3>1, <3>2, StepKept, StepSilent
    <2>3. CASE Ack(g, q)
      <3>1. Msg(g, q) \in Message /\ Msg(g, q) \in raw
        BY <2>3, HandledFacts DEF Ack
      <3>2. acked' = acked \cup {Msg(g, q)}
        BY <2>3, <3>1 DEF Ack, acked, IInv, TypeOK
      <3>3. UNCHANGED <<raw, pushed>>
        BY <2>3 DEF Ack
      <3> QED
        BY <3>1, <3>2, <3>3, StepTaken
    <2>4. CASE FailAck(g, q)
      BY <2>4, StepSilent DEF FailAck
    <2>5. CASE Push(g, q) \/ FailPush(g, q)
      <3>1. /\ At(g, q, "push") /\ UNCHANGED <<place, raw>>
            /\ pushed' = pushed \/ pushed' = pushed \cup {Msg(g, q)}
        BY <2>5 DEF Push, FailPush
      <3>2. Msg(g, q) \in Message /\ Msg(g, q) \in raw
        BY <3>1, HandledFacts
      <3>3. CASE pushed' = pushed
        BY <3>1, <3>3, StepSilent
      <3>4. CASE pushed' = pushed \cup {Msg(g, q)}
        <4>1. Stage!Send({Msg(g, q)})
          BY <3>1, <3>2, <3>4 DEF Stage!Send
        <4> QED
          BY <3>2, <4>1 DEF Stage!Next
      <3> QED
        BY <3>1, <3>3, <3>4
    <2> QED
      BY <1>1, <2>1, <2>2, <2>3, <2>4, <2>5 DEF ReceiveMessage
  <1>2. ASSUME NEW g \in Task, CheckRegionState(g) \/ Crash(g) \/ Restart(g)
        PROVE  [Stage!Next]_Stage!vars
    <2>1. CASE PollOn(g) \/ PollOff(g) \/ Closed(g) \/ Restart(g)
      BY <2>1, StepSilent DEF PollOn, PollOff, Closed, Restart, receiptVars
    <2>2. CASE Crash(g) \/ \E q \in Queue : CloseSession(g, q)
      <3>1. UNCHANGED <<raw, pushed>> /\ \E S \in SUBSET Message : Return(g, S)
        BY <2>2 DEF Crash, CloseSession
      <3>2. \A m \in Message : place'[m] = "acked" <=> place[m] = "acked"
        BY <1>0, <3>1 DEF Return
      <3> QED
        BY <3>1, <3>2, StepSilent
    <2> QED
      BY <1>2, <2>1, <2>2 DEF CheckRegionState
  <1>3. CASE Switch
    BY <1>3, StepSilent DEF Switch, receiptVars
  <1>4. ASSUME NEW m \in Message, Arrive(m)
        PROVE  [Stage!Next]_Stage!vars
    <2>1. \A x \in Message : place'[x] = "acked" <=> place[x] = "acked"
      BY <1>4 DEF Arrive, IInv, TypeOK
    <2> QED
      BY <1>4, <2>1, StepSilent DEF Arrive
  <1>5. CASE UNCHANGED vars
    BY <1>5, StepSilent DEF vars, receiptVars
  <1> QED
    BY <1>1, <1>2, <1>3, <1>4, <1>5 DEF Next

(* What the gateway acknowledges, and what it pushes, is in the safe store *)
(* by then, whatever fails or crashes.                                     *)
THEOREM GatewayImplementsStage == Spec => ImplementsStage
  <1>1. Init => Stage!Init
    BY DEF Init, Stage!Init
  <1>2. IInv /\ [Next]_vars => [Stage!Next]_Stage!vars
    BY StepMaps
  <1> QED
    BY <1>1, <1>2, Invariance, PTL DEF Spec, ImplementsStage, Stage!Spec
=============================================================================
