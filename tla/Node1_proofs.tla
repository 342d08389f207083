----------------------------- MODULE Node1_proofs -----------------------------
(***************************************************************************)
(* Every transaction submitted to node1 is in one place at a time and is   *)
(* sent at most once, and the worker takes them in order: for any number   *)
(* of clients and transactions, through a lost connection and a shutdown.  *)
(***************************************************************************)
EXTENDS Node1, SequenceTheorems, TLAPS

(* Each conjunct needs the others: SentOnce that the queue is a sequence,  *)
(* TypeOK that what arrives was submitted.                                 *)
IInv == TypeOK /\ SentOnce /\ InOrder

-----------------------------------------------------------------------------
(* Sequences. *)

(* What a longer sequence holds, and that it repeats nothing when the new  *)
(* element is new.                                                         *)
LEMMA Appended ==
    ASSUME NEW S, NEW s \in Seq(S), NEW e \in S
    PROVE  /\ Append(s, e) \in Seq(S)
           /\ Elems(Append(s, e)) = Elems(s) \cup {e}
           /\ NoRepeats(s) /\ e \notin Elems(s) => NoRepeats(Append(s, e))
  <1> DEFINE t == Append(s, e)
  <1>1. /\ t \in Seq(S) /\ Len(t) = Len(s) + 1 /\ Len(s) \in Nat
        /\ DOMAIN t = 1 .. Len(s) + 1 /\ DOMAIN s = 1 .. Len(s)
        /\ \A i \in 1 .. Len(s) : t[i] = s[i]
        /\ t[Len(s) + 1] = e
    BY AppendProperties, LenProperties
  <1> HIDE DEF t
  <1>2. Elems(t) = Elems(s) \cup {e}
    <2>1. \A i \in DOMAIN t : i \in DOMAIN s \/ i = Len(s) + 1
      BY <1>1
    <2>2. \A i \in DOMAIN s : i \in DOMAIN t /\ t[i] = s[i]
      BY <1>1
    <2>3. Len(s) + 1 \in DOMAIN t
      BY <1>1
    <2> QED
      BY <1>1, <2>1, <2>2, <2>3 DEF Elems
  <1>3. ASSUME NoRepeats(s), e \notin Elems(s) PROVE NoRepeats(t)
    <2> SUFFICES ASSUME NEW i \in DOMAIN t, NEW j \in DOMAIN t, t[i] = t[j]
                 PROVE  i = j
      BY DEF NoRepeats
    <2>1. \A k \in DOMAIN t : k \in DOMAIN s \/ k = Len(s) + 1
      BY <1>1
    <2>2. \A k \in DOMAIN s : t[k] = s[k] /\ s[k] # e
      BY <1>1, <1>3 DEF Elems
    <2> QED
      BY <1>1, <1>3, <2>1, <2>2 DEF NoRepeats
  <1> QED
    BY <1>1, <1>2, <1>3 DEF t

(* What taking the head leaves. *)
LEMMA Taken ==
    ASSUME NEW S, NEW s \in Seq(S), s # <<>>
    PROVE  /\ Head(s) \in S /\ Tail(s) \in Seq(S)
           /\ Len(s) >= 1 /\ Len(Tail(s)) = Len(s) - 1
           /\ \A i \in DOMAIN Tail(s) : i + 1 \in DOMAIN s /\ Tail(s)[i] = s[i + 1]
           /\ Elems(s) = Elems(Tail(s)) \cup {Head(s)}
           /\ NoRepeats(s) => NoRepeats(Tail(s)) /\ Head(s) \notin Elems(Tail(s))
  <1> DEFINE h == Head(s)  t == Tail(s)
  <1>1. /\ h \in S /\ t \in Seq(S) /\ Len(s) \in Nat \ {0} /\ Len(t) = Len(s) - 1
        /\ h = s[1]
        /\ DOMAIN s = 1 .. Len(s) /\ DOMAIN t = 1 .. Len(s) - 1
        /\ \A i \in 1 .. Len(s) - 1 : t[i] = s[i + 1]
    BY HeadTailProperties, EmptySeq, LenProperties
  <1> HIDE DEF h, t
  <1>2. \A i \in DOMAIN t : i \in Nat /\ i + 1 \in DOMAIN s /\ i + 1 # 1 /\ t[i] = s[i + 1]
    BY <1>1
  <1>3. 1 \in DOMAIN s
    BY <1>1
  <1>4. \A j \in DOMAIN s : j = 1 \/ (j - 1 \in DOMAIN t /\ t[j - 1] = s[j])
    BY <1>1
  <1>5. Elems(s) = Elems(t) \cup {h}
    BY <1>1, <1>2, <1>3, <1>4 DEF Elems
  <1>6. ASSUME NoRepeats(s) PROVE NoRepeats(t) /\ h \notin Elems(t)
    <2>1. h \notin Elems(t)
      BY <1>1, <1>2, <1>3, <1>6 DEF Elems, NoRepeats
    <2>2. ASSUME NEW i \in DOMAIN t, NEW j \in DOMAIN t, t[i] = t[j] PROVE i = j
      <3>1. i + 1 = j + 1
        BY <1>2, <1>6, <2>2 DEF NoRepeats
      <3> QED
        BY <1>2, <3>1
    <2> QED
      BY <2>1, <2>2 DEF NoRepeats
  <1> QED
    BY <1>1, <1>2, <1>5, <1>6 DEF h, t

LEMMA Empty == Elems(<<>>) = {} /\ NoRepeats(<<>>) /\ \A S : <<>> \in Seq(S)
  BY DEF Elems, NoRepeats

-----------------------------------------------------------------------------
(* The steps. *)

LEMMA InitOK == Init => IInv
  <1> SUFFICES ASSUME Init PROVE IInv
    OBVIOUS
  <1>1. TypeOK
    BY Empty DEF Init, TypeOK
  <1>2. SentOnce
    BY Empty DEF Init, SentOnce
  <1>3. InOrder
    BY DEF Init, InOrder
  <1> QED
    BY <1>1, <1>2, <1>3 DEF IInv

(* A new transaction joins the end of the queue, or is lost when the       *)
(* worker is gone.                                                         *)
LEMMA SubmitOK ==
    ASSUME IInv, NEW c \in Clients, NEW tx \in Txs \ Elems(submitted), Submit(c, tx)
    PROVE  IInv'
  <1> USE DEF IInv
  <1>1. /\ queue \in Seq(Txs) /\ submitted \in Seq(Txs)
    BY DEF TypeOK
  <1>2. /\ submitted' = Append(submitted, tx)
        /\ submitted' \in Seq(Txs) /\ Elems(submitted') = Elems(submitted) \cup {tx}
    BY <1>1, Appended DEF Submit
  <1>3. tx \notin Elems(queue) \cup sending \cup arrived \cup failed \cup lost
    BY DEF SentOnce
  <1>4. CASE worker = "stopped"
    <2>1. /\ lost' = lost \cup {tx} /\ queue' = queue
          /\ UNCHANGED <<holders, worker, conn, sending, handle, exit, arrived, failed>>
      BY <1>4 DEF Submit, transport
    <2>2. TypeOK'
      BY <1>2, <2>1 DEF TypeOK
    <2>3. SentOnce'
      BY <1>2, <1>3, <2>1 DEF SentOnce
    <2>4. InOrder'
      BY <1>4, <2>1 DEF InOrder
    <2> QED
      BY <2>2, <2>3, <2>4
  <1>5. CASE worker # "stopped"
    <2>1. /\ queue' = Append(queue, tx) /\ lost' = lost
          /\ UNCHANGED <<holders, worker, conn, sending, handle, exit, arrived, failed>>
      BY <1>5 DEF Submit, transport
    <2>2. /\ queue' \in Seq(Txs) /\ Elems(queue') = Elems(queue) \cup {tx}
          /\ NoRepeats(queue')
      BY <1>1, <1>3, <2>1, Appended DEF SentOnce
    <2>3. TypeOK'
      BY <1>2, <1>5, <2>1, <2>2 DEF TypeOK
    <2>4. SentOnce'
      BY <1>2, <1>3, <2>1, <2>2 DEF SentOnce
    <2>5. InOrder'
      <3> DEFINE n == Len(queue)  m == Len(submitted)
      <3>1. /\ n \in Nat /\ m \in Nat /\ n <= m
            /\ \A i \in 1 .. n : queue[i] = submitted[m - n + i]
        BY <1>1, <1>5, LenProperties DEF InOrder
      <3>2. /\ Len(queue') = n + 1 /\ DOMAIN queue' = 1 .. n + 1
            /\ \A i \in 1 .. n : queue'[i] = queue[i]
            /\ queue'[n + 1] = tx
        BY <1>1, <2>1, AppendProperties, LenProperties
      <3>3. /\ Len(submitted') = m + 1
            /\ \A i \in 1 .. m : submitted'[i] = submitted[i]
            /\ submitted'[m + 1] = tx
        BY <1>1, <1>2, AppendProperties, LenProperties
      <3> HIDE DEF n, m
      <3>4. ASSUME NEW i \in 1 .. n + 1
            PROVE  queue'[i] = submitted'[(m + 1) - (n + 1) + i]
        <4>1. CASE i = n + 1
          <5>1. (m + 1) - (n + 1) + i = m + 1
            BY <3>1, <4>1
          <5> QED
            BY <3>2, <3>3, <4>1, <5>1
        <4>2. CASE i \in 1 .. n
          <5>1. (m + 1) - (n + 1) + i = m - n + i /\ m - n + i \in 1 .. m
            BY <3>1, <4>2
          <5> QED
            BY <3>1, <3>2, <3>3, <4>2, <5>1
        <4> QED
          BY <3>1, <4>1, <4>2
      <3>5. Len(queue') <= Len(submitted')
        BY <3>1, <3>2, <3>3
      <3> QED
        BY <3>2, <3>3, <3>4, <3>5 DEF InOrder
    <2> QED
      BY <2>3, <2>4, <2>5
  <1> QED
    BY <1>4, <1>5

(* A worker that stops loses what is queued. *)
LEMMA StopWorkerOK == ASSUME IInv, StopWorker PROVE IInv'
  <1> USE DEF IInv
  <1>1. /\ worker' = "stopped" /\ queue' = <<>> /\ lost' = lost \cup Elems(queue)
        /\ UNCHANGED <<holders, conn, sending, handle, exit, submitted, arrived, failed>>
    BY DEF StopWorker, transport
  <1>2. Elems(queue) \subseteq Txs
    BY LenProperties, ElementOfSeq DEF TypeOK, Elems
  <1>3. TypeOK'
    BY <1>1, <1>2, Empty DEF TypeOK
  <1>4. SentOnce'
    BY <1>1, Empty DEF SentOnce
  <1>5. InOrder'
    BY <1>1 DEF InOrder
  <1> QED
    BY <1>3, <1>4, <1>5

(* The oldest message is handed to its task. *)
LEMMA RecvOK == ASSUME IInv, Recv PROVE IInv'
  <1> USE DEF IInv
  <1>1. /\ worker = "select" /\ worker' = "top" /\ queue # <<>>
        /\ sending' = sending \cup {Head(queue)} /\ queue' = Tail(queue)
        /\ UNCHANGED <<holders, conn, handle, exit, submitted, arrived, failed, lost>>
    BY DEF Recv, history
  <1>2. queue \in Seq(Txs) /\ submitted \in Seq(Txs) /\ NoRepeats(queue)
    BY DEF TypeOK, SentOnce
  <1>3. /\ Head(queue) \in Txs /\ queue' \in Seq(Txs)
        /\ Len(queue) >= 1 /\ Len(queue') = Len(queue) - 1
        /\ \A i \in DOMAIN queue' : i + 1 \in DOMAIN queue /\ queue'[i] = queue[i + 1]
        /\ Elems(queue) = Elems(queue') \cup {Head(queue)}
        /\ NoRepeats(queue') /\ Head(queue) \notin Elems(queue')
    BY <1>1, <1>2, Taken
  <1>4. TypeOK'
    BY <1>1, <1>3 DEF TypeOK
  <1>5. SentOnce'
    BY <1>1, <1>3 DEF SentOnce
  <1>6. InOrder'
    <2> DEFINE n == Len(queue)  m == Len(submitted)
    <2>1. /\ n \in Nat /\ m \in Nat /\ n <= m
          /\ \A i \in DOMAIN queue : queue[i] = submitted[m - n + i]
      BY <1>1, <1>2, LenProperties DEF InOrder
    <2>2. DOMAIN queue' \subseteq Nat
      BY <1>3, LenProperties
    <2>3. Len(queue') = n - 1
      BY <1>3
    <2> HIDE DEF n, m
    <2>4. \A i \in DOMAIN queue' : queue'[i] = submitted[m - (n - 1) + i]
      <3> SUFFICES ASSUME NEW i \in DOMAIN queue'
                   PROVE  queue'[i] = submitted[m - (n - 1) + i]
        OBVIOUS
      <3>1. queue'[i] = submitted[m - n + (i + 1)]
        BY <1>3, <2>1
      <3>2. m - n + (i + 1) = m - (n - 1) + i
        BY <2>1, <2>2
      <3> QED
        BY <3>1, <3>2
    <2> QED
      BY <1>1, <2>1, <2>3, <2>4 DEF InOrder, m
  <1> QED
    BY <1>4, <1>5, <1>6

(* The steps that leave the channel alone, or only its worker's place. *)
LEMMA OthersOK ==
    ASSUME IInv,
           \/ CheckExit /\ worker' = "select"
           \/ \E tx \in Txs : SendArrives(tx) \/ SendFails(tx)
           \/ \E c \in Clients : Release(c)
           \/ Shutdown \/ ConnectionLost \/ SetExit \/ UNCHANGED node1Vars
    PROVE  IInv'
  <1> USE DEF IInv, node1Vars, channel, transport, history
  <1>1. queue' = queue /\ submitted' = submitted
    BY DEF CheckExit, StopWorker, SendArrives, SendFails, Release, Shutdown, BeginShutdown,
           WorkerJoined, ConnectionLost, SetExit
  <1>2. worker' # "stopped" => worker # "stopped"
    BY DEF CheckExit, StopWorker, SendArrives, SendFails, Release, Shutdown, BeginShutdown,
           WorkerJoined, ConnectionLost, SetExit
  <1>3. InOrder'
    BY <1>1, <1>2 DEF InOrder
  <1>4. TypeOK'
    <2>1. CASE CheckExit /\ worker' = "select"
      BY <2>1 DEF TypeOK, CheckExit, StopWorker
    <2>2. CASE \E tx \in Txs : SendArrives(tx) \/ SendFails(tx)
      BY <2>2 DEF TypeOK, SendArrives, SendFails
    <2>3. CASE \E c \in Clients : Release(c)
      BY <2>3 DEF TypeOK, Release
    <2>4. CASE Shutdown
      BY <2>4 DEF TypeOK, Shutdown, BeginShutdown, WorkerJoined
    <2>5. CASE ConnectionLost \/ SetExit \/ UNCHANGED node1Vars
      BY <2>5 DEF TypeOK, ConnectionLost, SetExit
    <2> QED
      BY <2>1, <2>2, <2>3, <2>4, <2>5
  <1>5. SentOnce'
    <2>1. CASE \E tx \in Txs : SendArrives(tx) \/ SendFails(tx)
      BY <2>1 DEF SentOnce, SendArrives, SendFails
    <2>2. CASE UNCHANGED <<queue, sending, submitted, arrived, failed, lost>>
      BY <2>2 DEF SentOnce
    <2>3. (\E tx \in Txs : SendArrives(tx) \/ SendFails(tx))
            \/ UNCHANGED <<queue, sending, submitted, arrived, failed, lost>>
      BY DEF CheckExit, StopWorker, Release, Shutdown, BeginShutdown, WorkerJoined,
             ConnectionLost, SetExit
    <2> QED
      BY <2>1, <2>2, <2>3
  <1> QED
    BY <1>3, <1>4, <1>5

LEMMA NextOK == IInv /\ [Next]_node1Vars => IInv'
  <1> SUFFICES ASSUME IInv, [Next]_node1Vars PROVE IInv'
    OBVIOUS
  <1>1. CASE ClientStep
    BY <1>1, SubmitOK, OthersOK DEF ClientStep
  <1>2. CASE RunWorker
    <2>1. CASE CheckExit
      BY <2>1, StopWorkerOK, OthersOK DEF CheckExit
    <2>2. CASE Recv
      BY <2>2, RecvOK
    <2>3. CASE ChannelClosed \/ ConnectionClosed
      BY <2>3, StopWorkerOK DEF ChannelClosed, ConnectionClosed
    <2> QED
      BY <1>2, <2>1, <2>2, <2>3 DEF RunWorker
  <1>3. CASE SendTasks \/ Shutdown \/ ConnectionLost \/ SetExit \/ UNCHANGED node1Vars
    BY <1>3, OthersOK DEF SendTasks
  <1> QED
    BY <1>1, <1>2, <1>3 DEF Next

-----------------------------------------------------------------------------
THEOREM InvariantOK == Spec => []IInv
  BY InitOK, NextOK, PTL DEF Spec

(* Types, and the order in which shutdown lets go of sender, worker and    *)
(* connection.                                                             *)
THEOREM TypeCorrect == Spec => []TypeOK
  <1>1. IInv => TypeOK
    BY DEF IInv
  <1> QED
    BY <1>1, InvariantOK, PTL

(* No transaction reaches the server twice or after it was given up, and   *)
(* none is forgotten.                                                      *)
THEOREM NothingIsSentTwice == Spec => []SentOnce
  <1>1. IInv => SentOnce
    BY DEF IInv
  <1> QED
    BY <1>1, InvariantOK, PTL

(* What is queued is the end of what was submitted. *)
THEOREM TakenInOrder == Spec => []InOrder
  <1>1. IInv => InOrder
    BY DEF IInv
  <1> QED
    BY <1>1, InvariantOK, PTL
=============================================================================
