-------------------------------- MODULE Node1 --------------------------------
(***************************************************************************)
(* senders::node1, the QUIC submitter: an unbounded channel that any       *)
(* thread pushes transactions into, one worker that hands each to a task   *)
(* of its own, the connection, and the shutdown of all three.              *)
(***************************************************************************)
EXTENDS Naturals, Sequences, FiniteSets

CONSTANTS
    Txs,        \* the transactions that may be submitted
    Clients     \* who holds a clone of the submitter, besides the handle

Handle == "handle"
ASSUME HandleAssumption == Handle \notin Clients

VARIABLES
    queue,      \* the mpsc channel
    holders,    \* who still holds a sender: the channel closes when nobody does
    worker,     \* "top" of the loop, parked in "select", or "stopped"
    conn,       \* the QUIC connection
    sending,    \* send_one tasks in flight
    handle,     \* Node1Handle: "held", "await" in shutdown, "closed"
    exit,       \* the flag main shares with every task
    submitted,  \* history: every submit, in order
    arrived,    \* history: what the server received
    failed,     \* history: send_one gave up
    lost        \* history: submitted and never handed to the connection

channel == <<queue, holders, worker>>
transport == <<conn, sending, handle>>
history == <<submitted, arrived, failed, lost>>
node1Vars == <<channel, transport, exit, history>>

Elems(s) == {s[i] : i \in DOMAIN s}

Init ==
    /\ queue = <<>> /\ holders = Clients \cup {Handle} /\ worker = "top"
    /\ conn = "open" /\ sending = {} /\ handle = "held" /\ exit = FALSE
    /\ submitted = <<>> /\ arrived = {} /\ failed = {} /\ lost = {}

\* Node1Submitter::submit: once the worker is gone the send fails and is logged.
Submit(c, tx) ==
    /\ c \in holders
    /\ submitted' = Append(submitted, tx)
    /\ IF worker = "stopped"
         THEN lost' = lost \cup {tx} /\ UNCHANGED queue
         ELSE queue' = Append(queue, tx) /\ UNCHANGED lost
    /\ UNCHANGED <<holders, worker, transport, exit, arrived, failed>>

\* A task that held a clone of the submitter ends.
Release(c) ==
    /\ c \in holders \ {Handle}
    /\ holders' = holders \ {c}
    /\ UNCHANGED <<queue, worker, transport, exit, history>>
-----------------------------------------------------------------------------
(* run_worker and send_one.                                                *)

\* The worker ends and drops the receiving half with whatever is still in it.
StopWorker ==
    /\ worker' = "stopped" /\ queue' = <<>> /\ lost' = lost \cup Elems(queue)
    /\ UNCHANGED <<holders, transport, exit, submitted, arrived, failed>>

CheckExit ==
    /\ worker = "top"
    /\ \/ exit /\ StopWorker
       \/ ~exit /\ worker' = "select" /\ UNCHANGED <<queue, holders, transport, exit, history>>

\* Mutant: the newest message is taken first.
Recv_Newest ==
    /\ worker = "select" /\ queue # <<>>
    /\ sending' = sending \cup {queue[Len(queue)]}
    /\ queue' = SubSeq(queue, 1, Len(queue) - 1)
    /\ worker' = "top"
    /\ UNCHANGED <<holders, conn, handle, exit, history>>

\* Mutant: the message is handed over and left in the channel.
Recv_Peek ==
    /\ worker = "select" /\ queue # <<>>
    /\ sending' = sending \cup {Head(queue)}
    /\ worker' = "top"
    /\ UNCHANGED <<queue, holders, conn, handle, exit, history>>

\* biased select: a waiting message comes before anything else.
Recv ==
    /\ worker = "select" /\ queue # <<>>
    /\ sending' = sending \cup {Head(queue)}
    /\ queue' = Tail(queue)
    /\ worker' = "top"
    /\ UNCHANGED <<holders, conn, handle, exit, history>>

ChannelClosed == worker = "select" /\ queue = <<>> /\ holders = {} /\ StopWorker

\* Mutant: the closed connection is not watched.
ConnectionClosed_Ignored == FALSE /\ StopWorker

ConnectionClosed == worker = "select" /\ queue = <<>> /\ conn = "closed" /\ StopWorker

\* open_bi, write_all and finish succeed: the server has the bytes, whatever it replies.
SendArrives(tx) ==
    /\ tx \in sending /\ conn = "open"
    /\ sending' = sending \ {tx} /\ arrived' = arrived \cup {tx}
    /\ UNCHANGED <<channel, conn, handle, exit, submitted, failed, lost>>

\* An error, or the 5 s SEND_TIMEOUT; nothing is retried.
SendFails(tx) ==
    /\ tx \in sending
    /\ sending' = sending \ {tx} /\ failed' = failed \cup {tx}
    /\ UNCHANGED <<channel, conn, handle, exit, submitted, arrived, lost>>

\* The server or the network closes the connection; nobody reconnects.
ConnectionLost ==
    /\ conn = "open" /\ conn' = "closed"
    /\ UNCHANGED <<channel, sending, handle, exit, history>>
-----------------------------------------------------------------------------
(* Node1Handle::shutdown.                                                  *)

\* Mutant: shutdown waits for the worker with its own submitter still in hand.
BeginShutdown_KeepsSender ==
    /\ handle = "held" /\ exit
    /\ handle' = "await"
    /\ UNCHANGED <<channel, conn, sending, exit, history>>

\* drop(self.submitter), then wait for the worker.
BeginShutdown ==
    /\ handle = "held" /\ exit
    /\ handle' = "await" /\ holders' = holders \ {Handle}
    /\ UNCHANGED <<queue, worker, conn, sending, exit, history>>

\* endpoint.close and wait_idle.
WorkerJoined ==
    /\ handle = "await" /\ worker = "stopped"
    /\ handle' = "closed" /\ conn' = "closed"
    /\ UNCHANGED <<channel, sending, exit, history>>

\* Ctrl-C.
SetExit ==
    /\ ~exit /\ exit' = TRUE
    /\ UNCHANGED <<channel, transport, history>>
-----------------------------------------------------------------------------
RunWorker == CheckExit \/ Recv \/ ChannelClosed \/ ConnectionClosed
SendTasks == \E tx \in Txs : SendArrives(tx) \/ SendFails(tx)
Shutdown == BeginShutdown \/ WorkerJoined

\* Each transaction is signed once, so no two submits carry the same bytes.
ClientStep ==
    \E c \in Clients :
        \/ \E tx \in Txs \ Elems(submitted) : Submit(c, tx)
        \/ Release(c)

Next == ClientStep \/ RunWorker \/ SendTasks \/ Shutdown \/ ConnectionLost \/ SetExit

Spec == Init /\ [][Next]_node1Vars

\* Runtime scheduling: tasks that can run do, and a send ends within its timeout.
FairSpec ==
    /\ Spec /\ WF_node1Vars(RunWorker) /\ WF_node1Vars(Shutdown)
    /\ WF_node1Vars(SendTasks)
-----------------------------------------------------------------------------
\* Types, and the shape shutdown relies on: the handle gives its sender up before it
\* waits, a stopped worker leaves no message behind, and closing comes last.
TypeOK ==
    /\ queue \in Seq(Txs) /\ submitted \in Seq(Txs)
    /\ holders \subseteq Clients \cup {Handle}
    /\ worker \in {"top", "select", "stopped"} /\ conn \in {"open", "closed"}
    /\ sending \subseteq Txs /\ arrived \subseteq Txs /\ failed \subseteq Txs /\ lost \subseteq Txs
    /\ handle \in {"held", "await", "closed"} /\ exit \in BOOLEAN
    /\ handle = "held" <=> Handle \in holders
    /\ worker = "stopped" => queue = <<>>
    /\ handle = "closed" => worker = "stopped" /\ conn = "closed"

NoRepeats(s) == \A i, j \in DOMAIN s : s[i] = s[j] => i = j

\* No transaction reaches the server twice, or after it was given up: each is in one
\* place at a time, and every one that was submitted is somewhere.
SentOnce ==
    /\ NoRepeats(queue)
    /\ \A tx \in Elems(queue) : tx \notin sending \cup arrived \cup failed \cup lost
    /\ \A tx \in sending : tx \notin arrived \cup failed \cup lost
    /\ \A tx \in arrived : tx \notin failed \cup lost
    /\ \A tx \in failed : tx \notin lost
    /\ Elems(submitted) = Elems(queue) \cup sending \cup arrived \cup failed \cup lost

\* While the worker lives it takes transactions in the order they were submitted:
\* what is queued is the end of what was submitted.
InOrder ==
    worker # "stopped" =>
        /\ Len(queue) <= Len(submitted)
        /\ \A i \in DOMAIN queue : queue[i] = submitted[Len(submitted) - Len(queue) + i]

\* A queued transaction does not stay queued, and a worker that loses its connection
\* (the case that lets a pending shutdown return) ends.
Served ==
    /\ \A tx \in Txs : tx \in Elems(queue) ~> tx \notin Elems(queue)
    /\ conn = "closed" ~> worker = "stopped"
    /\ (handle = "await" /\ conn = "closed") ~> handle = "closed"
=============================================================================
