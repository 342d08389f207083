---------------------------- MODULE Launch_proofs ----------------------------
(***************************************************************************)
(* The live phase submits what LaunchPlan allows and nothing twice, and    *)
(* sells only what the chain has bought: for any number of wallets, stream *)
(* errors and strangers, whenever the shutdown comes.                      *)
(***************************************************************************)
EXTENDS Launch, SequenceTheorems, TLAPS

(* What is proved of the submitter holds of the one the tasks share. *)
Submitting == INSTANCE Node1_proofs WITH Txs <- Plan!Orders, Clients <- Clients

Elems(s) == Node1!Elems(s)
TheLaunch == Order("launch", Dev)

(* main joins the curve task after node1 is closed. *)
Joined == main \in {"joinCurve", "done"} => handle = "closed"

(* How far the plan has come, told from the latches of the tasks. *)
Sequenced ==
    /\ ~fired => submitted = <<>>
    /\ fired /\ ~first_signal_fired => submitted = <<TheLaunch>>
    /\ first_signal_fired => fired
    /\ ~first_signal_fired => next_buy = 1 /\ deadline \in {"none", "gone"}
    /\ stream = "firing" <=> first_signal_fired /\ deadline = "none"
    /\ deadline = "gone" => stream = "gone"
    /\ stream = "firing" =>
         /\ Len(submitted) = next_buy
         /\ Plan!Last = IF next_buy = 1 THEN TheLaunch ELSE Order("buy", next_buy - 1)
    /\ deadline = "sleeping" => Len(submitted) = NumWallets + 1
    /\ deadline = "selling" =>
         submitted # <<>> /\ Plan!Last.kind = "sell" /\ Plan!Last.wallet < next_sell

(* The cursors are ahead of everything that was submitted. *)
Ahead ==
    \A o \in Elems(submitted) :
        /\ o.kind = "buy" => o.wallet < next_buy
        /\ o.kind = "sell" => o.wallet < next_sell /\ deadline \in {"selling", "done", "gone"}

(* What the stream may carry: nothing before the launch has landed, and a  *)
(* balance only when the buy has.                                          *)
Notes == {Curve} \cup {Ata(w, n) : w \in Wallets, n \in 0 .. 1}
TrueNotes ==
    {u \in Notes : /\ TheLaunch \in landed
                   /\ \A w \in Wallets : u = Ata(w, 1) => Order("buy", w) \in landed}

Backed ==
    /\ landed \subseteq arrived /\ expired \subseteq arrived
    /\ landed # {} => TheLaunch \in landed
    /\ first_signal_fired => TheLaunch \in landed
    /\ updates \in Seq(TrueNotes)
    /\ \A w \in Wallets : balances[w] = 1 => Order("buy", w) \in landed
    /\ SellsAreBacked

Node1Inv == Node1!TypeOK /\ Node1!SentOnce /\ Node1!InOrder

IInv == TypeOK /\ Node1Inv /\ Joined /\ Sequenced /\ Ahead /\ Backed

-----------------------------------------------------------------------------
(* The submitter. *)

LEMMA HandleApart == Submitting!HandleAssumption
  BY DEF Submitting!HandleAssumption, Submitting!Handle, Clients

LEMMA SameInv ==
    /\ Submitting!IInv <=> Node1Inv
    /\ Submitting!IInv' <=> Node1Inv'
    /\ \A s : Elems(s) = Submitting!Elems(s)
  BY DEF Submitting!IInv, Node1Inv, Submitting!TypeOK, Node1!TypeOK, Submitting!Handle,
         Node1!Handle, Submitting!SentOnce, Node1!SentOnce, Submitting!NoRepeats,
         Node1!NoRepeats, Submitting!Elems, Node1!Elems, Elems, Submitting!InOrder,
         Node1!InOrder

LEMMA SameSubmit ==
    ASSUME NEW c, NEW o
    PROVE  /\ Node1!Submit(c, o) => Submitting!Submit(c, o)
           /\ Node1!Release(c) => Submitting!Release(c)
  <1>1. Node1!Submit(c, o) => Submitting!Submit(c, o)
    BY DEF Submitting!Submit, Node1!Submit, Submitting!transport, Node1!transport
  <1>2. Node1!Release(c) => Submitting!Release(c)
    BY DEF Submitting!Release, Node1!Release, Submitting!Handle, Node1!Handle,
           Submitting!transport, Node1!transport, Submitting!history, Node1!history
  <1> QED
    BY <1>1, <1>2

LEMMA SameWorker == Node1!RunWorker => Submitting!RunWorker
  <1> USE DEF Submitting!transport, Node1!transport, Submitting!history, Node1!history
  <1>1. Node1!StopWorker => Submitting!StopWorker
    BY DEF Submitting!StopWorker, Node1!StopWorker, Submitting!Elems, Node1!Elems
  <1>2. Node1!CheckExit => Submitting!CheckExit
    BY <1>1 DEF Submitting!CheckExit, Node1!CheckExit
  <1>3. Node1!Recv => Submitting!Recv
    BY DEF Submitting!Recv, Node1!Recv
  <1>4. Node1!ChannelClosed => Submitting!ChannelClosed
    BY <1>1 DEF Submitting!ChannelClosed, Node1!ChannelClosed
  <1>5. Node1!ConnectionClosed => Submitting!ConnectionClosed
    BY <1>1 DEF Submitting!ConnectionClosed, Node1!ConnectionClosed
  <1> QED
    BY <1>2, <1>3, <1>4, <1>5 DEF Submitting!RunWorker, Node1!RunWorker

LEMMA SameOthers ==
    /\ \A o : Node1!SendArrives(o) => Submitting!SendArrives(o)
    /\ \A o : Node1!SendFails(o) => Submitting!SendFails(o)
    /\ Node1!BeginShutdown \/ Node1!WorkerJoined => Submitting!Shutdown
    /\ Node1!ConnectionLost => Submitting!ConnectionLost
    /\ Node1!SetExit => Submitting!SetExit
    /\ UNCHANGED node1 => UNCHANGED Submitting!node1Vars
  <1> USE DEF Submitting!transport, Node1!transport, Submitting!history, Node1!history,
              Submitting!channel, Node1!channel
  <1>1. \A o : Node1!SendArrives(o) => Submitting!SendArrives(o)
    BY DEF Submitting!SendArrives, Node1!SendArrives
  <1>2. \A o : Node1!SendFails(o) => Submitting!SendFails(o)
    BY DEF Submitting!SendFails, Node1!SendFails
  <1>3. Node1!BeginShutdown => Submitting!BeginShutdown
    BY DEF Submitting!BeginShutdown, Node1!BeginShutdown, Submitting!Handle, Node1!Handle
  <1>4. Node1!WorkerJoined => Submitting!WorkerJoined
    BY DEF Submitting!WorkerJoined, Node1!WorkerJoined
  <1>5. Node1!ConnectionLost => Submitting!ConnectionLost
    BY DEF Submitting!ConnectionLost, Node1!ConnectionLost
  <1>6. Node1!SetExit => Submitting!SetExit
    BY DEF Submitting!SetExit, Node1!SetExit
  <1>7. UNCHANGED node1 => UNCHANGED Submitting!node1Vars
    BY DEF node1, Submitting!node1Vars
  <1> QED
    BY <1>1, <1>2, <1>3, <1>4, <1>5, <1>6, <1>7 DEF Submitting!Shutdown

(* A submit of something new by a client is one of node1's own steps, *)
LEMMA SubmitOK ==
    ASSUME Node1Inv, NEW c \in Clients, NEW o \in Plan!Orders, o \notin Elems(submitted),
           Node1!Submit(c, o)
    PROVE  Node1Inv'
  <1>1. Submitting!IInv /\ Submitting!Submit(c, o) /\ o \notin Submitting!Elems(submitted)
    BY SameInv, SameSubmit
  <1>2. Submitting!IInv'
    BY <1>1, Submitting!SubmitOK, HandleApart
  <1> QED
    BY <1>2, SameInv

(* as is everything else, *)
LEMMA OtherStepOK ==
    ASSUME Node1Inv,
           \/ \E c \in Clients : Node1!Release(c)
           \/ Node1!RunWorker
           \/ \E o \in Plan!Orders : Node1!SendArrives(o) \/ Node1!SendFails(o)
           \/ Node1!BeginShutdown \/ Node1!WorkerJoined \/ Node1!ConnectionLost
           \/ Node1!SetExit \/ UNCHANGED node1
    PROVE  Node1Inv'
  <1>1. Submitting!IInv
    BY SameInv
  <1>2. \/ \E c \in Clients : Submitting!Release(c)
        \/ Submitting!RunWorker
        \/ \E o \in Plan!Orders : Submitting!SendArrives(o) \/ Submitting!SendFails(o)
        \/ Submitting!Shutdown \/ Submitting!ConnectionLost
        \/ Submitting!SetExit \/ UNCHANGED Submitting!node1Vars
    BY SameSubmit, SameWorker, SameOthers
  <1>3. [Submitting!Next]_(Submitting!node1Vars)
    BY <1>2 DEF Submitting!Next, Submitting!ClientStep, Submitting!SendTasks
  <1>4. Submitting!IInv'
    BY <1>1, <1>3, Submitting!NextOK, HandleApart
  <1> QED
    BY <1>4, SameInv

(* but for main's return, which drops the sends in flight when the worker  *)
(* is gone already.                                                        *)
LEMMA DropOK ==
    ASSUME Node1Inv, handle = "closed",
           holders' = {}, sending' = {}, failed' = failed \cup sending,
           UNCHANGED <<queue, worker, conn, handle, exit, submitted, arrived, lost>>
    PROVE  Node1Inv'
  <1> USE DEF Node1Inv
  <1>1. worker = "stopped"
    BY DEF Node1!TypeOK
  <1>2. Node1!TypeOK'
    BY <1>1 DEF Node1!TypeOK
  <1>3. Node1!SentOnce'
    BY DEF Node1!SentOnce
  <1>4. Node1!InOrder'
    BY <1>1 DEF Node1!InOrder
  <1> QED
    BY <1>2, <1>3, <1>4

-----------------------------------------------------------------------------
(* Sequences of orders and of notes. *)

LEMMA Appended ==
    ASSUME NEW S, NEW s \in Seq(S), NEW e \in S
    PROVE  /\ Append(s, e) \in Seq(S) /\ Append(s, e) # <<>>
           /\ Len(Append(s, e)) = Len(s) + 1
           /\ Append(s, e)[Len(Append(s, e))] = e
           /\ Elems(Append(s, e)) = Elems(s) \cup {e}
  <1>1. /\ Append(s, e) \in Seq(S) /\ Len(s) \in Nat
        /\ Len(Append(s, e)) = Len(s) + 1 /\ Append(s, e)[Len(s) + 1] = e
    BY AppendProperties, LenProperties
  <1>2. Elems(Append(s, e)) = Elems(s) \cup {e}
    BY Submitting!Appended, HandleApart, SameInv
  <1> QED
    BY <1>1, <1>2, EmptySeq

LEMMA Larger == ASSUME NEW S, NEW T, S \subseteq T PROVE Seq(S) \subseteq Seq(T)
  <1> SUFFICES ASSUME NEW s \in Seq(S) PROVE s \in Seq(T)
    OBVIOUS
  <1>1. Len(s) \in Nat /\ s \in [1 .. Len(s) -> S]
    BY LenProperties, ElementOfSeq
  <1> QED
    BY <1>1, IsASeq

(* Orders of different kinds differ. *)
LEMMA OrderFields ==
    /\ \A k, w : Order(k, w).kind = k /\ Order(k, w).wallet = w
    /\ \A k, w, j, v : Order(k, w) = Order(j, v) <=> k = j /\ w = v
    /\ TheLaunch \in Plan!Orders /\ Order("sell", Dev) \in Plan!Orders
    /\ \A w \in Wallets : Order("buy", w) \in Plan!Orders /\ Order("sell", w) \in Plan!Orders
    /\ Dev = 0 /\ Dev \notin Wallets /\ Wallets \subseteq Nat
    /\ TheLaunch.kind = "launch"
  <1>1. \A k, w : Order(k, w) = [kind |-> k, wallet |-> w]
    BY DEF Order, Plan!Order
  <1>2. Dev = 0 /\ Dev \notin Wallets /\ Wallets \subseteq Nat
    BY DEF Dev, Plan!Dev, Wallets
  <1>3. /\ TheLaunch \in Plan!Orders /\ Order("sell", Dev) \in Plan!Orders
        /\ \A w \in Wallets : Order("buy", w) \in Plan!Orders /\ Order("sell", w) \in Plan!Orders
    BY DEF TheLaunch, Order, Dev, Plan!Orders, Wallets
  <1>4. \A k, w : Order(k, w).kind = k /\ Order(k, w).wallet = w
    BY <1>1
  <1> HIDE DEF Order
  <1>5. \A k, w, j, v : Order(k, w) = Order(j, v) <=> k = j /\ w = v
    BY <1>4
  <1> QED
    BY <1>2, <1>3, <1>4, <1>5 DEF TheLaunch

LEMMA OrderKinds ==
    ASSUME NEW o \in Plan!Orders
    PROVE  \/ o = TheLaunch \/ o = Order("sell", Dev)
           \/ \E w \in Wallets : o = Order("buy", w) \/ o = Order("sell", w)
  BY DEF TheLaunch, Order, Dev, Plan!Orders, Wallets

LEMMA NoteFields ==
    /\ Curve \in Notes /\ Curve.kind = "curve"
    /\ \A w \in Wallets, n \in 0 .. 1 :
         Ata(w, n) \in Notes /\ Ata(w, n).kind = "ata"
           /\ Ata(w, n).wallet = w /\ Ata(w, n).amount = n
    /\ \A w, n : Curve # Ata(w, n)
    /\ \A v \in Wallets, w \in Wallets, m \in 0 .. 1, n \in 0 .. 1 :
         Ata(v, m) = Ata(w, n) => v = w /\ m = n
  <1>1. Curve \in Notes /\ Curve.kind = "curve"
    BY DEF Curve, Notes
  <1>2. \A w, n : Ata(w, n).kind = "ata" /\ Ata(w, n).wallet = w /\ Ata(w, n).amount = n
    BY DEF Ata
  <1>3. \A w \in Wallets, n \in 0 .. 1 : Ata(w, n) \in Notes
    BY DEF Notes
  <1> QED
    BY <1>1, <1>2, <1>3

-----------------------------------------------------------------------------
(* The steps of the worker, the sends and main's shutdown. *)

LEMMA Constants == NumWallets \in Nat /\ MaxBreaks \in Nat /\ MaxTrades \in Nat
  BY NumbersAssumption

LEMMA InitOK == Init => IInv
  <1> SUFFICES ASSUME Init PROVE IInv
    OBVIOUS
  <1>1. Node1Inv
    <2>1. Submitting!Init
      BY DEF Init, Node1!Init, Submitting!Init, Submitting!Handle, Node1!Handle
    <2> QED
      BY <2>1, Submitting!InitOK, HandleApart, SameInv
  <1>2. /\ submitted = <<>> /\ landed = {} /\ expired = {} /\ updates = <<>>
        /\ next_buy = 1 /\ next_sell = 1 /\ stream = "connecting" /\ deadline = "none"
        /\ main = "running" /\ balances = [w \in Wallets |-> 0]
    BY DEF Init, Node1!Init
  <1>3. fired = FALSE /\ first_signal_fired = FALSE
    BY DEF Init
  <1>4. TypeOK
    <2>1. next_buy \in 1 .. NumWallets + 1 /\ next_sell \in 1 .. NumWallets + 1
      BY <1>2, Constants
    <2>2. balances \in [Wallets -> 0 .. 1]
      BY <1>2
    <2>3. DOMAIN updates = {}
      BY <1>2
    <2>4. fired \in BOOLEAN /\ first_signal_fired \in BOOLEAN
      BY <1>3
    <2> QED
      BY <1>1, <1>2, <2>1, <2>2, <2>3, <2>4 DEF TypeOK, Node1Inv
  <1>5. Elems(submitted) = {}
    BY <1>2 DEF Elems, Node1!Elems
  <1>6. Joined /\ Sequenced /\ Ahead
    BY <1>2, <1>3, <1>5 DEF Joined, Sequenced, Ahead
  <1>7. Backed
    BY <1>2, <1>3, <1>5, EmptySeq DEF Backed, SellsAreBacked, Elems
  <1> QED
    BY <1>1, <1>4, <1>6, <1>7 DEF IInv

(* What reached the server stays there. *)
LEMMA SubmitHistory ==
    ASSUME NEW c, NEW o, Node1!Submit(c, o)
    PROVE  submitted' = Append(submitted, o) /\ UNCHANGED <<arrived, handle>>
  BY DEF Node1!Submit, Node1!transport

LEMMA QuietHistory ==
    ASSUME Submitter \/ SendFails \/ ConnectionLost \/ Main \/ UNCHANGED vars
             \/ \E c \in Clients : Node1!Release(c)
    PROVE  submitted' = submitted /\ arrived \subseteq arrived'
  <1> USE DEF Node1!transport, Node1!history, Node1!channel
  <1>1. CASE Submitter
    BY <1>1 DEF Submitter, Node1!RunWorker, Node1!CheckExit, Node1!StopWorker, Node1!Recv,
                Node1!ChannelClosed, Node1!ConnectionClosed, Node1!SendArrives
  <1>2. CASE SendFails \/ ConnectionLost
    BY <1>2 DEF SendFails, Node1!SendFails, ConnectionLost, Node1!ConnectionLost
  <1>3. CASE Main
    BY <1>3 DEF Main, CtrlC, Node1!SetExit, ReceiverJoined, Node1!BeginShutdown, Node1Joined,
                Node1!WorkerJoined, CurveJoined
  <1>4. CASE UNCHANGED vars \/ \E c \in Clients : Node1!Release(c)
    BY <1>4 DEF vars, node1, Node1!Release
  <1> QED
    BY <1>1, <1>2, <1>3, <1>4

(* node1 closes for good. *)
LEMMA ClosedStays ==
    ASSUME Node1Inv, handle = "closed",
           Submitter \/ SendFails \/ ConnectionLost \/ Main \/ UNCHANGED node1
             \/ \E c \in Clients : Node1!Release(c)
    PROVE  handle' = "closed"
  <1> USE DEF Node1!transport, Node1!history, Node1!channel
  <1>1. CASE Submitter
    BY <1>1 DEF Submitter, Node1!RunWorker, Node1!CheckExit, Node1!StopWorker, Node1!Recv,
                Node1!ChannelClosed, Node1!ConnectionClosed, Node1!SendArrives
  <1>2. CASE SendFails \/ ConnectionLost
    BY <1>2 DEF SendFails, Node1!SendFails, ConnectionLost, Node1!ConnectionLost
  <1>3. CASE Main
    BY <1>3 DEF Main, CtrlC, Node1!SetExit, ReceiverJoined, Node1!BeginShutdown, Node1Joined,
                Node1!WorkerJoined, CurveJoined
  <1>4. CASE UNCHANGED node1 \/ \E c \in Clients : Node1!Release(c)
    BY <1>4 DEF node1, Node1!Release
  <1> QED
    BY <1>1, <1>2, <1>3, <1>4

(* A step that leaves the tasks and the chain alone. *)
LEMMA QuietOK ==
    ASSUME IInv, Node1Inv', submitted' = submitted, arrived \subseteq arrived', Joined',
           main' \in {"running", "joinReceiver", "shutdown", "joinCurve", "done"},
           UNCHANGED <<fired, curveSub, deadlineTask, chain>>
    PROVE  IInv'
  <1> USE DEF IInv, curveSub, deadlineTask, chain
  <1>1. TypeOK'
    BY DEF TypeOK, Node1Inv
  <1>2. Sequenced'
    BY DEF Sequenced, Plan!Last
  <1>3. Ahead'
    BY DEF Ahead, Elems, Node1!Elems
  <1>4. Backed'
    BY DEF Backed, SellsAreBacked, Node1!Elems, TrueNotes
  <1> QED
    BY <1>1, <1>2, <1>3, <1>4

LEMMA QuietStep ==
    ASSUME IInv, Submitter \/ SendFails \/ ConnectionLost \/ ReceiverExit \/ CtrlC
                   \/ ReceiverJoined \/ Node1Joined \/ UNCHANGED vars
    PROVE  IInv'
  <1>1. Node1Inv'
    <2>1. \/ \E c \in Clients : Node1!Release(c)
          \/ Node1!RunWorker
          \/ \E o \in Plan!Orders : Node1!SendArrives(o) \/ Node1!SendFails(o)
          \/ Node1!BeginShutdown \/ Node1!WorkerJoined \/ Node1!ConnectionLost
          \/ Node1!SetExit \/ UNCHANGED node1
      BY DEF Submitter, SendFails, ConnectionLost, ReceiverExit, CtrlC, ReceiverJoined,
             Node1Joined, Clients, vars
    <2> QED
      BY <2>1, OtherStepOK DEF IInv
  <1>2. submitted' = submitted /\ arrived \subseteq arrived'
    BY QuietHistory DEF ReceiverExit, Clients, Main
  <1>3. UNCHANGED <<fired, curveSub, deadlineTask, chain>>
    BY DEF Submitter, SendFails, ConnectionLost, ReceiverExit, CtrlC, ReceiverJoined,
           Node1Joined, vars
  <1>4. Joined' /\ main' \in {"running", "joinReceiver", "shutdown", "joinCurve", "done"}
    <2>1. handle = "closed" => handle' = "closed"
      BY ClosedStays DEF IInv, ReceiverExit, Clients, Main, vars
    <2>2. CASE UNCHANGED main
      BY <2>1, <2>2 DEF IInv, Joined, TypeOK
    <2>3. CASE CtrlC \/ ReceiverJoined
      BY <2>3 DEF CtrlC, ReceiverJoined, Joined
    <2>4. CASE Node1Joined
      BY <2>4 DEF Node1Joined, Node1!WorkerJoined, Joined
    <2> QED
      BY <2>2, <2>3, <2>4 DEF Submitter, SendFails, ConnectionLost, ReceiverExit, vars
  <1> QED
    BY <1>1, <1>2, <1>3, <1>4, QuietOK

-----------------------------------------------------------------------------
(* The steps of the curve task. *)

(* What a stream has not delivered is gone with it. *)
LEMMA StreamOK == ASSUME IInv, Connect \/ Break \/ CurveExit PROVE IInv'
  <1> USE DEF IInv, deadlineTask, chain
  <1>1. /\ stream \in {"connecting", "up"} /\ stream' \in {"connecting", "up", "gone"}
        /\ updates' = <<>>
        /\ UNCHANGED <<fired, first_signal_fired, next_buy, balances, deadline, next_sell, main,
                      landed, expired>>
    BY DEF Connect, Break, CurveExit
  <1>2. UNCHANGED node1 \/ \E c \in Clients : Node1!Release(c)
    BY DEF Connect, Break, CurveExit, Clients
  <1>3. submitted' = submitted /\ arrived' = arrived /\ handle' = handle
    BY <1>2 DEF node1, Node1!Release, Node1!transport, Node1!history
  <1>4. Node1Inv'
    BY <1>2, OtherStepOK
  <1>5. DOMAIN updates' = {} /\ updates' \in Seq(TrueNotes')
    BY <1>1, EmptySeq
  <1>6. TypeOK'
    BY <1>1, <1>4, <1>5 DEF TypeOK, Node1Inv
  <1>7. Joined'
    BY <1>1, <1>3 DEF Joined
  <1>8. Sequenced'
    BY <1>1, <1>3 DEF Sequenced, Plan!Last
  <1>9. Ahead'
    BY <1>1, <1>3 DEF Ahead, Elems, Node1!Elems
  <1>10. Backed'
    BY <1>1, <1>3, <1>5 DEF Backed, SellsAreBacked, Node1!Elems
  <1> QED
    BY <1>4, <1>6, <1>7, <1>8, <1>9, <1>10

(* The head of a stream that carries true notes is one, and so is the rest. *)
LEMMA HeadIsTrue ==
    ASSUME IInv, updates # <<>>
    PROVE  /\ Head(updates) \in TrueNotes /\ Tail(updates) \in Seq(TrueNotes)
           /\ TheLaunch \in landed
  <1>1. updates \in Seq(TrueNotes)
    BY DEF IInv, Backed
  <1>2. Head(updates) \in TrueNotes /\ Tail(updates) \in Seq(TrueNotes)
    BY <1>1, HeadTailProperties
  <1> QED
    BY <1>2 DEF TrueNotes

(* A stream of true notes is of the right type. *)
LEMMA NotesTyped ==
    ASSUME NEW s, s \in Seq(TrueNotes) \/ s \in Seq(TrueNotes')
    PROVE  \A i \in DOMAIN s :
             s[i] = Curve \/ \E w \in Wallets, n \in 0 .. 1 : s[i] = Ata(w, n)
  <1> SUFFICES ASSUME NEW i \in DOMAIN s PROVE s[i] \in Notes
    BY DEF Notes
  <1>1. TrueNotes \subseteq Notes /\ TrueNotes' \subseteq Notes
    BY DEF TrueNotes
  <1>2. s[i] \in TrueNotes \/ s[i] \in TrueNotes'
    BY LenProperties, ElementOfSeq
  <1> QED
    BY <1>1, <1>2

LEMMA AtaOK == ASSUME IInv, AtaUpdate PROVE IInv'
  <1> USE DEF IInv, deadlineTask, chain
  <1>1. /\ updates # <<>> /\ Head(updates).kind = "ata" /\ updates' = Tail(updates)
        /\ balances' = [balances EXCEPT ![Head(updates).wallet] = Head(updates).amount]
        /\ UNCHANGED <<fired, stream, first_signal_fired, next_buy, deadline, next_sell, main,
                      landed, expired, node1>>
    BY DEF AtaUpdate
  <1>2. submitted' = submitted /\ arrived' = arrived /\ handle' = handle /\ Node1Inv'
    BY <1>1, OtherStepOK DEF node1
  <1>3. Head(updates) \in TrueNotes /\ updates' \in Seq(TrueNotes)
    BY <1>1, HeadIsTrue
  <1>4. PICK w \in Wallets, n \in 0 .. 1 : Head(updates) = Ata(w, n)
    BY <1>1, <1>3, NoteFields DEF TrueNotes, Notes
  <1>5. balances' = [balances EXCEPT ![w] = n] /\ (n = 1 => Order("buy", w) \in landed)
    <2>1. Head(updates).wallet = w /\ Head(updates).amount = n
      BY <1>4, NoteFields
    <2>2. n = 1 => Order("buy", w) \in landed
      BY <1>3, <1>4 DEF TrueNotes
    <2> QED
      BY <1>1, <2>1, <2>2
  <1>6. /\ balances' \in [Wallets -> 0 .. 1]
        /\ \A v \in Wallets : balances'[v] = 1 => Order("buy", v) \in landed
    BY <1>5 DEF TypeOK, Backed
  <1>7. updates' \in Seq(TrueNotes')
    BY <1>1, <1>3 DEF TrueNotes
  <1>8. TypeOK'
    BY <1>1, <1>2, <1>6, <1>7, NotesTyped DEF TypeOK, Node1Inv
  <1>9. Joined' /\ Sequenced' /\ Ahead'
    BY <1>1, <1>2 DEF Joined, Sequenced, Plan!Last, Ahead, Elems, Node1!Elems
  <1>10. Backed'
    BY <1>1, <1>2, <1>6, <1>7 DEF Backed, SellsAreBacked, Node1!Elems
  <1> QED
    BY <1>2, <1>8, <1>9, <1>10

(* The first curve update sets the latch; the launch has landed by then,   *)
(* and so it was fired.                                                    *)
LEMMA CurveUpdateOK == ASSUME IInv, CurveUpdate PROVE IInv'
  <1> USE DEF IInv, deadlineTask, chain, bounds
  <1>1. /\ stream = "up" /\ updates # <<>> /\ updates' = Tail(updates)
        /\ UNCHANGED <<fired, next_buy, balances, deadline, next_sell, main, landed, expired, node1>>
    BY DEF CurveUpdate
  <1>2. first_signal_fired' /\ (first_signal_fired => stream' = stream)
          /\ (~first_signal_fired => stream' = "firing")
    BY DEF CurveUpdate
  <1>3. submitted' = submitted /\ arrived' = arrived /\ handle' = handle /\ Node1Inv'
    BY <1>1, OtherStepOK DEF node1
  <1>4. updates' \in Seq(TrueNotes') /\ TheLaunch \in landed
    BY <1>1, HeadIsTrue DEF TrueNotes
  <1>5. TheLaunch \in Elems(submitted)
    BY <1>4 DEF Backed, Node1Inv, Node1!SentOnce, Elems
  <1>6. fired
    BY <1>5 DEF Sequenced, Elems, Node1!Elems
  <1>7. TypeOK'
    <2>1. first_signal_fired' \in BOOLEAN
      BY DEF CurveUpdate
    <2>2. stream' \in {"up", "firing"}
      BY <1>1, <1>2 DEF TypeOK
    <2> QED
      BY <1>1, <1>3, <1>4, <2>1, <2>2, NotesTyped DEF TypeOK, Node1Inv
  <1>8. Joined' /\ Ahead'
    BY <1>1, <1>3 DEF Joined, Ahead, Elems, Node1!Elems
  <1>9. Sequenced'
    <2>1. CASE first_signal_fired
      BY <1>1, <1>2, <1>3, <2>1 DEF Sequenced, Plan!Last
    <2>2. CASE ~first_signal_fired
      <3>1. submitted = <<TheLaunch>> /\ next_buy = 1 /\ deadline = "none"
        BY <1>1, <1>6, <2>2 DEF Sequenced
      <3>2. Len(submitted) = 1 /\ Plan!Last = TheLaunch
        BY <3>1 DEF Plan!Last
      <3> QED
        BY <1>1, <1>2, <1>3, <1>6, <2>2, <3>1, <3>2 DEF Sequenced, Plan!Last
    <2> QED
      BY <2>1, <2>2
  <1>10. Backed'
    BY <1>1, <1>3, <1>4 DEF Backed, SellsAreBacked, Node1!Elems
  <1> QED
    BY <1>3, <1>7, <1>8, <1>9, <1>10

(* The deadline is armed when every buy is submitted. *)
LEMMA ArmOK == ASSUME IInv, ArmDeadline PROVE IInv'
  <1> USE DEF IInv, chain, bounds
  <1>1. /\ stream = "firing" /\ next_buy > NumWallets /\ stream' = "up" /\ deadline' = "sleeping"
        /\ UNCHANGED <<fired, first_signal_fired, next_buy, updates, balances, next_sell, main,
                      landed, expired, node1>>
    BY DEF ArmDeadline
  <1>2. submitted' = submitted /\ arrived' = arrived /\ handle' = handle /\ Node1Inv'
    BY <1>1, OtherStepOK DEF node1
  <1>3. next_buy = NumWallets + 1
    BY <1>1, Constants DEF TypeOK
  <1>4. TypeOK'
    BY <1>1, <1>2 DEF TypeOK, Node1Inv
  <1>5. Joined'
    BY <1>1, <1>2 DEF Joined
  <1>6. Sequenced'
    BY <1>1, <1>2, <1>3 DEF Sequenced, Plan!Last
  <1>7. Ahead'
    BY <1>1, <1>2 DEF Ahead, Elems, Node1!Elems, Sequenced
  <1>8. Backed'
    BY <1>1, <1>2 DEF Backed, SellsAreBacked, Node1!Elems, TrueNotes
  <1> QED
    BY <1>2, <1>4, <1>5, <1>6, <1>7, <1>8

(* The deadline task ends, or the runtime drops it. *)
LEMMA EndOK == ASSUME IInv, SellsDone \/ CurveJoined PROVE IInv'
  <1> USE DEF IInv, chain, bounds, curveSub
  <1>1. \/ deadline = "selling" /\ deadline' = "done" /\ main' = main
        \/ deadline' = "gone" /\ stream = "gone" /\ main' = "done" /\ main = "joinCurve"
    BY DEF SellsDone, CurveJoined
  <1>2. UNCHANGED <<fired, stream, first_signal_fired, next_buy, updates, balances, next_sell,
                    landed, expired>>
    BY DEF SellsDone, CurveJoined
  <1>3. Node1Inv' /\ submitted' = submitted /\ arrived' = arrived /\ handle' = handle
    <2>1. CASE SellsDone
      <3>1. Node1!Release("deadline") /\ "deadline" \in Clients
        BY <2>1 DEF SellsDone, Clients
      <3> QED
        BY <3>1, OtherStepOK DEF Node1!Release, Node1!transport, Node1!history
    <2>2. CASE CurveJoined
      BY <2>2, DropOK DEF CurveJoined, Joined
    <2> QED
      BY <2>1, <2>2
  <1>4. TypeOK'
    BY <1>1, <1>2, <1>3 DEF TypeOK, Node1Inv
  <1>5. Joined'
    BY <1>1, <1>3 DEF Joined
  <1>6. Sequenced'
    BY <1>1, <1>2, <1>3 DEF Sequenced, Plan!Last
  <1>7. Ahead'
    BY <1>1, <1>2, <1>3 DEF Ahead, Elems, Node1!Elems
  <1>8. Backed'
    BY <1>1, <1>2, <1>3 DEF Backed, SellsAreBacked, Node1!Elems, TrueNotes
  <1> QED
    BY <1>3, <1>4, <1>5, <1>6, <1>7, <1>8

-----------------------------------------------------------------------------
(* The steps that submit.  Each is also one the plan allows. *)

LEMMA Submitted ==
    ASSUME IInv, NEW c \in Clients, NEW o \in Plan!Orders, o \notin Elems(submitted),
           Node1!Submit(c, o)
    PROVE  /\ Node1Inv' /\ submitted' = Append(submitted, o) /\ submitted' # <<>>
           /\ Len(submitted) \in Nat /\ Len(submitted') = Len(submitted) + 1
           /\ Elems(submitted') = Elems(submitted) \cup {o}
           /\ submitted'[Len(submitted')] = o
           /\ UNCHANGED <<arrived, handle>>
  <1>1. submitted \in Seq(Plan!Orders)
    BY DEF IInv, Node1Inv, Node1!TypeOK
  <1>2. submitted' = Append(submitted, o) /\ UNCHANGED <<arrived, handle>>
    BY SubmitHistory
  <1>3. Node1Inv'
    BY SubmitOK DEF IInv
  <1> QED
    BY <1>1, <1>2, <1>3, Appended, LenProperties

LEMMA ElementOrders ==
    ASSUME IInv, NEW p \in Elems(submitted)
    PROVE  p \in Plan!Orders /\ p.wallet \in Nat
  <1>1. submitted \in Seq(Plan!Orders)
    BY DEF IInv, Node1Inv, Node1!TypeOK
  <1>2. p \in Plan!Orders
    BY <1>1, ElementOfSeq, LenProperties DEF Elems, Node1!Elems
  <1> QED
    BY <1>2, OrderKinds, OrderFields DEF TheLaunch

LEMMA FireLaunchOK == ASSUME IInv, FireLaunch PROVE IInv' /\ Plan!Next
  <1> USE DEF IInv, curveSub, deadlineTask, chain
  <1>1. /\ Node1!Submit("receiver", TheLaunch)
        /\ UNCHANGED <<stream, first_signal_fired, next_buy, updates, balances, deadline,
                      next_sell, main, landed, expired>>
    BY DEF FireLaunch, TheLaunch
  <1>2. fired' /\ fired' \in BOOLEAN /\ ~fired
    BY DEF FireLaunch
  <1>3. submitted = <<>> /\ ~first_signal_fired
    BY <1>2 DEF Sequenced
  <1>4. Elems(submitted) = {} /\ "receiver" \in Clients /\ TheLaunch \in Plan!Orders
    BY <1>3, OrderFields DEF Elems, Node1!Elems, Clients
  <1>5. /\ Node1Inv' /\ submitted' = <<TheLaunch>> /\ Elems(submitted') = {TheLaunch}
        /\ UNCHANGED <<arrived, handle>>
    <2>1. Append(<<>>, TheLaunch) = <<TheLaunch>>
      OBVIOUS
    <2> QED
      BY <1>1, <1>3, <1>4, <2>1, Submitted
  <1>6. TypeOK'
    BY <1>1, <1>2, <1>5 DEF TypeOK, Node1Inv
  <1>7. Joined'
    BY <1>1, <1>5 DEF Joined
  <1>8. Sequenced'
    <2>1. stream # "firing" /\ deadline \in {"none", "gone"}
      BY <1>3 DEF Sequenced
    <2> QED
      BY <1>1, <1>2, <1>3, <1>5, <2>1 DEF Sequenced
  <1>9. Ahead'
    BY <1>5, OrderFields DEF Ahead
  <1>10. Backed'
    <2>1. \A w \in Wallets : Order("sell", w) \notin Elems(submitted')
      BY <1>5, OrderFields DEF TheLaunch
    <2> QED
      BY <1>1, <1>5, <2>1 DEF Backed, SellsAreBacked, Elems, TrueNotes
  <1>11. Plan!Next
    BY <1>3, <1>4, <1>5 DEF Plan!Next, Plan!Follows, TheLaunch, Order, Dev
  <1> QED
    BY <1>5, <1>6, <1>7, <1>8, <1>9, <1>10, <1>11

LEMMA FireBuyOK == ASSUME IInv, FireBuy PROVE IInv' /\ Plan!Next
  <1> USE DEF IInv, deadlineTask, chain
  <1> DEFINE o == Order("buy", next_buy)
  <1>1. /\ stream = "firing" /\ next_buy <= NumWallets /\ next_buy' = next_buy + 1
        /\ Node1!Submit("curve", o)
        /\ UNCHANGED <<fired, stream, first_signal_fired, updates, balances, deadline, next_sell,
                      main, landed, expired>>
    BY DEF FireBuy
  <1>2. next_buy \in Nat /\ next_buy >= 1 /\ next_buy \in Wallets
    BY <1>1, Constants DEF TypeOK, Wallets
  <1>3. o \in Plan!Orders /\ o.kind = "buy" /\ o.wallet = next_buy /\ "curve" \in Clients
    BY <1>2, OrderFields DEF Clients
  <1>4. o \notin Elems(submitted)
    BY <1>2, <1>3 DEF Ahead
  <1>s. /\ deadline = "none" /\ Len(submitted) = next_buy /\ first_signal_fired
        /\ Plan!Last = IF next_buy = 1 THEN TheLaunch ELSE Order("buy", next_buy - 1)
    BY <1>1 DEF Sequenced
  <1>5. /\ Node1Inv' /\ submitted' = Append(submitted, o) /\ submitted' # <<>>
        /\ Len(submitted') = next_buy' /\ Elems(submitted') = Elems(submitted) \cup {o}
        /\ submitted'[Len(submitted')] = o
        /\ UNCHANGED <<arrived, handle>>
    BY <1>1, <1>3, <1>4, <1>s, Submitted
  <1>6. TypeOK'
    <2>1. next_buy' \in 1 .. NumWallets + 1
      BY <1>1, <1>2, Constants
    <2> QED
      BY <1>1, <1>5, <2>1 DEF TypeOK, Node1Inv
  <1>7. Joined'
    BY <1>1, <1>5 DEF Joined
  <1>8. Sequenced'
    <2>1. next_buy' # 1 /\ next_buy' - 1 = next_buy
      BY <1>1, <1>2
    <2>2. Plan!Last' = Order("buy", next_buy' - 1)
      BY <1>5, <2>1 DEF Plan!Last
    <2> QED
      BY <1>1, <1>5, <1>s, <2>1, <2>2 DEF Sequenced
  <1> HIDE DEF o
  <1>9. Ahead'
    <2> SUFFICES ASSUME NEW p \in Elems(submitted')
                 PROVE  /\ p.kind = "buy" => p.wallet < next_buy'
                        /\ p.kind = "sell" => p.wallet < next_sell'
                                               /\ deadline' \in {"selling", "done", "gone"}
      BY DEF Ahead
    <2>1. CASE p = o
      BY <1>1, <1>2, <1>3, <2>1
    <2>2. CASE p \in Elems(submitted) /\ p.kind = "buy"
      <3>1. p.wallet < next_buy /\ p.wallet \in Nat
        BY <2>2, ElementOrders, OrderKinds, OrderFields DEF Ahead
      <3> QED
        BY <1>1, <1>2, <2>2, <3>1
    <2>3. CASE p \in Elems(submitted) /\ p.kind # "buy"
      BY <1>1, <2>3 DEF Ahead
    <2> QED
      BY <1>5, <2>1, <2>2, <2>3
  <1>10. Backed'
    <2>1. \A w \in Wallets : Order("sell", w) \in Elems(submitted')
                               => Order("sell", w) \in Elems(submitted)
      BY <1>3, <1>5, OrderFields
    <2> QED
      BY <1>1, <1>5, <2>1 DEF Backed, SellsAreBacked, Elems, TrueNotes
  <1>11. Plan!Next
    <2>1. Plan!Follows(o)
      <3>1. submitted # <<>>
        BY <1>2, <1>s, EmptySeq, LenProperties
      <3>2. CASE next_buy = 1
        BY <1>3, <1>s, <3>1, <3>2, OrderFields DEF Plan!Follows
      <3>3. CASE next_buy # 1
        <4>1. Plan!Last.kind = "buy" /\ Plan!Last.wallet = next_buy - 1
          BY <1>s, <3>3, OrderFields
        <4> QED
          BY <1>2, <1>3, <3>1, <4>1 DEF Plan!Follows
      <3> QED
        BY <3>2, <3>3
    <2> QED
      BY <1>3, <1>5, <2>1 DEF Plan!Next
  <1> QED
    BY <1>5, <1>6, <1>7, <1>8, <1>9, <1>10, <1>11

LEMMA FireDevSellOK == ASSUME IInv, FireDevSell PROVE IInv' /\ Plan!Next
  <1> USE DEF IInv, curveSub, chain
  <1> DEFINE o == Order("sell", Dev)
  <1>1. /\ deadline = "sleeping" /\ deadline' = "selling" /\ Node1!Submit("deadline", o)
        /\ UNCHANGED <<fired, stream, first_signal_fired, next_buy, updates, balances, next_sell,
                      main, landed, expired>>
    BY DEF FireDevSell
  <1>2. o \in Plan!Orders /\ o.kind = "sell" /\ o.wallet = 0 /\ "deadline" \in Clients
    BY OrderFields DEF Clients
  <1>3. o \notin Elems(submitted)
    BY <1>1, <1>2 DEF Ahead
  <1>4. /\ Len(submitted) = NumWallets + 1 /\ stream # "firing" /\ first_signal_fired /\ fired
    BY <1>1 DEF Sequenced
  <1>5. /\ Node1Inv' /\ submitted' = Append(submitted, o) /\ submitted' # <<>>
        /\ Elems(submitted') = Elems(submitted) \cup {o}
        /\ submitted'[Len(submitted')] = o
        /\ UNCHANGED <<arrived, handle>>
    BY <1>1, <1>2, <1>3, Submitted
  <1>6. next_sell \in Nat /\ 0 < next_sell
    BY DEF TypeOK
  <1>7. TypeOK' /\ Joined'
    BY <1>1, <1>5 DEF TypeOK, Node1Inv, Joined
  <1>8. Sequenced'
    <2>1. Plan!Last' = o
      BY <1>5 DEF Plan!Last
    <2> QED
      BY <1>1, <1>2, <1>4, <1>5, <1>6, <2>1 DEF Sequenced
  <1>9. Ahead'
    BY <1>1, <1>2, <1>5, <1>6 DEF Ahead
  <1>10. Backed'
    <2>1. \A w \in Wallets : Order("sell", w) \in Elems(submitted')
                               => Order("sell", w) \in Elems(submitted)
      BY <1>5, OrderFields
    <2> QED
      BY <1>1, <1>5, <2>1 DEF Backed, SellsAreBacked, Elems, TrueNotes
  <1>11. Plan!Next
    <2>1. submitted # <<>>
      BY <1>4, Constants, EmptySeq
    <2>2. Plan!Follows(o)
      BY <1>4, <2>1 DEF Plan!Follows, Order, Dev
    <2> QED
      BY <1>2, <1>5, <2>2 DEF Plan!Next
  <1> QED
    BY <1>5, <1>7, <1>8, <1>9, <1>10, <1>11

(* A wallet whose balance shows nothing is passed over, and *)
LEMMA SkipOK == ASSUME IInv, SellWallet, UNCHANGED node1 PROVE IInv'
  <1> USE DEF IInv, curveSub, chain
  <1>1. /\ deadline = "selling" /\ next_sell <= NumWallets /\ next_sell' = next_sell + 1
        /\ UNCHANGED <<fired, stream, first_signal_fired, next_buy, updates, balances, deadline,
                      main, landed, expired, submitted, arrived, handle>>
    BY DEF SellWallet, node1
  <1>2. Node1Inv'
    BY OtherStepOK
  <1>3. next_sell \in Nat /\ next_sell' \in 1 .. NumWallets + 1
    BY <1>1, Constants DEF TypeOK
  <1>4. TypeOK' /\ Joined'
    BY <1>1, <1>2, <1>3 DEF TypeOK, Node1Inv, Joined
  <1>5. \A n \in Nat : n < next_sell => n < next_sell'
    BY <1>1, <1>3
  <1>6. Sequenced'
    <2>1. submitted # <<>> /\ Plan!Last.kind = "sell" /\ Plan!Last.wallet < next_sell
      BY <1>1 DEF Sequenced
    <2>2. Plan!Last \in Elems(submitted)
      <3>1. Len(submitted) \in DOMAIN submitted
        BY <2>1, EmptySeq, LenProperties DEF Node1Inv, Node1!TypeOK
      <3> QED
        BY <3>1 DEF Plan!Last, Elems, Node1!Elems
    <2>3. Plan!Last.wallet < next_sell'
      BY <1>5, <2>1, <2>2, ElementOrders
    <2> QED
      BY <1>1, <2>1, <2>3 DEF Sequenced, Plan!Last
  <1>7. Ahead'
    BY <1>1, <1>5, ElementOrders DEF Ahead, Elems, Node1!Elems
  <1>8. Backed'
    BY <1>1 DEF Backed, SellsAreBacked, Node1!Elems, TrueNotes
  <1> QED
    BY <1>2, <1>4, <1>6, <1>7, <1>8

(* one whose balance was seen has bought. *)
LEMMA SellOK ==
    ASSUME IInv, SellWallet, balances[next_sell] # 0,
           Node1!Submit("deadline", Order("sell", next_sell))
    PROVE  IInv' /\ Plan!Next
  <1> USE DEF IInv, curveSub, chain
  <1> DEFINE o == Order("sell", next_sell)
  <1>1. /\ deadline = "selling" /\ next_sell <= NumWallets /\ next_sell' = next_sell + 1
        /\ UNCHANGED <<fired, stream, first_signal_fired, next_buy, updates, balances, deadline,
                      main, landed, expired>>
    BY DEF SellWallet
  <1>2. next_sell \in Nat /\ next_sell \in Wallets /\ next_sell' \in 1 .. NumWallets + 1
    BY <1>1, Constants DEF TypeOK, Wallets
  <1>3. o \in Plan!Orders /\ o.kind = "sell" /\ o.wallet = next_sell /\ "deadline" \in Clients
    BY <1>2, OrderFields DEF Clients
  <1>4. o \notin Elems(submitted)
    BY <1>2, <1>3 DEF Ahead
  <1>5. /\ Node1Inv' /\ submitted' = Append(submitted, o) /\ submitted' # <<>>
        /\ Elems(submitted') = Elems(submitted) \cup {o}
        /\ submitted'[Len(submitted')] = o
        /\ UNCHANGED <<arrived, handle>>
    BY <1>3, <1>4, Submitted
  <1>6. TypeOK' /\ Joined'
    BY <1>1, <1>2, <1>5 DEF TypeOK, Node1Inv, Joined
  <1>7. \A n \in Nat : n < next_sell => n < next_sell'
    BY <1>1, <1>2
  <1>8. Plan!Last.kind = "sell" /\ Plan!Last.wallet < next_sell /\ submitted # <<>>
    BY <1>1 DEF Sequenced
  <1>9. Sequenced'
    <2>1. Plan!Last' = o /\ next_sell < next_sell'
      BY <1>1, <1>2, <1>5 DEF Plan!Last
    <2> QED
      BY <1>1, <1>3, <1>5, <2>1 DEF Sequenced
  <1> HIDE DEF o
  <1>10. Ahead'
    <2> SUFFICES ASSUME NEW p \in Elems(submitted')
                 PROVE  /\ p.kind = "buy" => p.wallet < next_buy'
                        /\ p.kind = "sell" => p.wallet < next_sell'
                                               /\ deadline' \in {"selling", "done", "gone"}
      BY DEF Ahead
    <2>1. CASE p = o
      BY <1>1, <1>2, <1>3, <2>1
    <2>2. CASE p \in Elems(submitted)
      BY <1>1, <1>7, <2>2, ElementOrders DEF Ahead
    <2> QED
      BY <1>5, <2>1, <2>2
  <1>11. Backed'
    <2>1. balances[next_sell] = 1
      BY <1>2 DEF TypeOK
    <2>2. Order("buy", next_sell) \in landed
      BY <1>2, <2>1 DEF Backed
    <2>3. \A w \in Wallets : Order("sell", w) \in Elems(submitted')
                               => Order("sell", w) \in Elems(submitted) \/ w = next_sell
      BY <1>3, <1>5, OrderFields
    <2> QED
      BY <1>1, <1>5, <2>2, <2>3 DEF Backed, SellsAreBacked, Elems, TrueNotes
  <1>12. Plan!Next
    BY <1>3, <1>5, <1>8 DEF Plan!Next, Plan!Follows
  <1> QED
    BY <1>5, <1>6, <1>9, <1>10, <1>11, <1>12

-----------------------------------------------------------------------------
(* The chain and the provider. *)

(* What is told of a step that leaves the launch landed is true. *)
LEMMA NotifyOK ==
    ASSUME IInv, landed \subseteq landed', TheLaunch \in landed',
           NEW notes \in Seq(TrueNotes'), Notify(notes)
    PROVE  updates' \in Seq(TrueNotes')
  <1>1. TrueNotes \subseteq TrueNotes'
    BY DEF TrueNotes
  <1>2. updates \in Seq(TrueNotes')
    BY <1>1, Larger DEF IInv, Backed
  <1> QED
    BY <1>2, ConcatProperties DEF Notify

LEMMA LandOK == ASSUME IInv, NEW o \in Plan!Orders, Land(o) PROVE IInv'
  <1> USE DEF IInv, deadlineTask, bounds
  <1> DEFINE notes == IF o.wallet = Dev THEN <<Curve>>
                      ELSE <<Ata(o.wallet, IF o.kind = "buy" THEN 1 ELSE 0), Curve>>
  <1>1. /\ o \in arrived /\ Executes(o) /\ landed' = landed \cup {o} /\ Notify(notes)
        /\ UNCHANGED <<fired, stream, first_signal_fired, next_buy, balances, deadline, next_sell,
                      main, expired, node1>>
    BY DEF Land, Unsettled
  <1>2. submitted' = submitted /\ arrived' = arrived /\ handle' = handle /\ Node1Inv'
    BY <1>1, OtherStepOK DEF node1
  <1>3. TheLaunch \in landed'
    <2>1. CASE o = TheLaunch
      BY <1>1, <2>1
    <2>2. CASE o # TheLaunch
      <3>1. o.kind # "launch"
        BY <2>2, OrderKinds, OrderFields
      <3>2. landed # {}
        BY <1>1, <3>1 DEF Executes
      <3> QED
        BY <1>1, <3>2 DEF Backed
    <2> QED
      BY <2>1, <2>2
  <1>4. notes \in Seq(TrueNotes')
    <2>1. Curve \in TrueNotes'
      BY <1>3, NoteFields DEF TrueNotes
    <2>2. CASE o.wallet = Dev
      BY <2>1, <2>2
    <2>3. CASE o.wallet # Dev
      <3>1. PICK w \in Wallets : o = Order("buy", w) \/ o = Order("sell", w)
        BY <2>3, OrderKinds, OrderFields DEF TheLaunch
      <3> DEFINE n == IF o.kind = "buy" THEN 1 ELSE 0
      <3>2. o.wallet = w /\ n \in 0 .. 1 /\ (n = 1 => o = Order("buy", w))
        BY <3>1, OrderFields
      <3> HIDE DEF n
      <3>3. Ata(w, n) \in TrueNotes'
        BY <1>1, <1>3, <3>2, NoteFields DEF TrueNotes
      <3> QED
        BY <2>1, <2>3, <3>2, <3>3 DEF n
    <2> QED
      BY <2>2, <2>3
  <1> HIDE DEF notes
  <1>5. updates' \in Seq(TrueNotes')
    BY <1>1, <1>3, <1>4, NotifyOK
  <1>6. TypeOK'
    BY <1>1, <1>2, <1>5, NotesTyped DEF TypeOK, Node1Inv
  <1>7. Joined' /\ Sequenced' /\ Ahead'
    BY <1>1, <1>2 DEF Joined, Sequenced, Plan!Last, Ahead, Elems, Node1!Elems
  <1>8. Backed'
    BY <1>1, <1>2, <1>3, <1>5 DEF Backed, SellsAreBacked, Node1!Elems
  <1> QED
    BY <1>2, <1>6, <1>7, <1>8

LEMMA ExpireOK == ASSUME IInv, NEW o \in Plan!Orders, Expire(o) PROVE IInv'
  <1> USE DEF IInv, deadlineTask, curveSub
  <1>1. /\ o \in arrived /\ expired' = expired \cup {o}
        /\ UNCHANGED <<fired, stream, first_signal_fired, next_buy, updates, balances, deadline,
                      next_sell, main, landed, node1>>
    BY DEF Expire, Unsettled
  <1>2. submitted' = submitted /\ arrived' = arrived /\ handle' = handle /\ Node1Inv'
    BY <1>1, OtherStepOK DEF node1
  <1>3. TypeOK' /\ Joined' /\ Sequenced' /\ Ahead'
    BY <1>1, <1>2 DEF TypeOK, Node1Inv, Joined, Sequenced, Plan!Last, Ahead, Elems, Node1!Elems
  <1>4. Backed'
    BY <1>1, <1>2 DEF Backed, SellsAreBacked, Node1!Elems, TrueNotes
  <1> QED
    BY <1>2, <1>3, <1>4

LEMMA StrangerOK == ASSUME IInv, StrangerTrades PROVE IInv'
  <1> USE DEF IInv, deadlineTask, chain
  <1>1. /\ TheLaunch \in landed /\ Notify(<<Curve>>)
        /\ UNCHANGED <<fired, stream, first_signal_fired, next_buy, balances, deadline, next_sell,
                      main, landed, expired, node1>>
    BY DEF StrangerTrades, TheLaunch
  <1>2. submitted' = submitted /\ arrived' = arrived /\ handle' = handle /\ Node1Inv'
    BY <1>1, OtherStepOK DEF node1
  <1>3. <<Curve>> \in Seq(TrueNotes')
    <2>1. Curve \in TrueNotes'
      BY <1>1, NoteFields DEF TrueNotes
    <2> QED
      BY <2>1
  <1>4. updates' \in Seq(TrueNotes')
    BY <1>1, <1>3, NotifyOK
  <1>5. TypeOK'
    BY <1>1, <1>2, <1>4, NotesTyped DEF TypeOK, Node1Inv
  <1>6. Joined' /\ Sequenced' /\ Ahead'
    BY <1>1, <1>2 DEF Joined, Sequenced, Plan!Last, Ahead, Elems, Node1!Elems
  <1>7. Backed'
    BY <1>1, <1>2, <1>4 DEF Backed, SellsAreBacked, Node1!Elems
  <1> QED
    BY <1>2, <1>5, <1>6, <1>7

-----------------------------------------------------------------------------
(* Every step. *)

(* A step either submits what the plan allows, or submits nothing. *)
LEMMA StepOK ==
    ASSUME IInv, [Next]_vars
    PROVE  IInv' /\ [Plan!Next]_submitted
  <1>1. CASE Receiver
    <2>1. CASE FireLaunch
      BY <2>1, FireLaunchOK
    <2>2. CASE ReceiverExit
      <3>1. submitted' = submitted
        BY <2>2, QuietHistory DEF ReceiverExit, Clients
      <3> QED
        BY <2>2, <3>1, QuietStep
    <2> QED
      BY <1>1, <2>1, <2>2 DEF Receiver
  <1>2. CASE CurveTask
    <2>1. CASE Connect \/ Break \/ CurveExit
      <3>1. UNCHANGED node1 \/ \E c \in Clients : Node1!Release(c)
        BY <2>1 DEF Connect, Break, CurveExit, Clients
      <3>2. submitted' = submitted
        BY <3>1, QuietHistory DEF node1
      <3> QED
        BY <2>1, <3>2, StreamOK
    <2>2. CASE AtaUpdate
      BY <2>2, AtaOK DEF AtaUpdate, node1
    <2>3. CASE CurveUpdate
      BY <2>3, CurveUpdateOK DEF CurveUpdate, node1
    <2>4. CASE FireBuy
      BY <2>4, FireBuyOK
    <2>5. CASE ArmDeadline
      BY <2>5, ArmOK DEF ArmDeadline, node1
    <2> QED
      BY <1>2, <2>1, <2>2, <2>3, <2>4, <2>5 DEF CurveTask
  <1>3. CASE DeadlineTask
    <2>1. CASE FireDevSell
      BY <2>1, FireDevSellOK
    <2>2. CASE SellWallet
      <3>1. CASE UNCHANGED node1
        BY <2>2, <3>1, SkipOK DEF node1
      <3>2. CASE balances[next_sell] # 0 /\ Node1!Submit("deadline", Order("sell", next_sell))
        BY <2>2, <3>2, SellOK
      <3> QED
        BY <2>2, <3>1, <3>2 DEF SellWallet
    <2>3. CASE SellsDone
      <3>1. submitted' = submitted
        BY <2>3, QuietHistory DEF SellsDone, Clients
      <3> QED
        BY <2>3, <3>1, EndOK
    <2> QED
      BY <1>3, <2>1, <2>2, <2>3 DEF DeadlineTask
  <1>4. CASE Submitter \/ SendFails \/ ConnectionLost
    BY <1>4, QuietHistory, QuietStep
  <1>5. CASE Main
    <2>1. submitted' = submitted
      BY <1>5, QuietHistory
    <2>2. CASE CurveJoined
      BY <2>1, <2>2, EndOK
    <2>3. CASE CtrlC \/ ReceiverJoined \/ Node1Joined
      BY <2>1, <2>3, QuietStep
    <2> QED
      BY <1>5, <2>2, <2>3 DEF Main
  <1>6. CASE Settle
    <2>1. PICK o \in Plan!Orders : Land(o) \/ Expire(o)
      BY <1>6 DEF Settle
    <2>2. submitted' = submitted
      BY <2>1 DEF Land, Expire, node1
    <2> QED
      BY <2>1, <2>2, LandOK, ExpireOK
  <1>7. CASE StrangerTrades
    BY <1>7, StrangerOK DEF StrangerTrades, node1
  <1>8. CASE UNCHANGED vars
    BY <1>8, QuietHistory, QuietStep
  <1> QED
    BY <1>1, <1>2, <1>3, <1>4, <1>5, <1>6, <1>7, <1>8 DEF Next

-----------------------------------------------------------------------------
THEOREM InvariantOK == Spec => []IInv
  BY InitOK, StepOK, PTL DEF Spec

(* The state stays in its type, node1's part of it included. *)
THEOREM TypeCorrect == Spec => []TypeOK
  <1>1. IInv => TypeOK
    BY DEF IInv
  <1> QED
    BY <1>1, InvariantOK, PTL

(* The deadline task sells a wallet only after the chain has executed its  *)
(* buy, on whichever stream the balance was seen (curve_sub/run.rs).       *)
THEOREM SellsBacked == Spec => []SellsAreBacked
  <1>1. IInv => SellsAreBacked
    BY DEF IInv, Backed
  <1> QED
    BY <1>1, InvariantOK, PTL

(* node1 never gets a transaction twice, and never one it was not handed:  *)
(* what the latches of the tasks let through is new each time.             *)
THEOREM NothingSentTwice == Spec => []SentOnce
  <1>1. IInv => SentOnce
    BY DEF IInv, Node1Inv, SentOnce
  <1> QED
    BY <1>1, InvariantOK, PTL

(* The launch, the buys, the dev sell and the sells are submitted in the   *)
(* order LaunchPlan allows, through every reconnect and shutdown: each     *)
(* step is one of the plan's or submits nothing.                           *)
THEOREM FollowsPlan == Spec => ImplementsPlan
  <1>1. Init => Plan!Init
    BY DEF Init, Node1!Init, Plan!Init
  <1> QED
    BY <1>1, InvariantOK, StepOK, PTL DEF Spec, ImplementsPlan, Plan!Spec
=============================================================================
