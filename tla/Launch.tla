-------------------------------- MODULE Launch --------------------------------
(***************************************************************************)
(* The live phase of a run: the shred receiver fires the launch, the curve *)
(* subscription fires the buys on the first curve update and arms the      *)
(* deadline task, which sells one second later; all of them submit through *)
(* node1, and Ctrl-C takes them down in main's order.  The chain lands     *)
(* what reaches node1, or not, in any order.                               *)
(***************************************************************************)
EXTENDS Naturals, Sequences, FiniteSets

CONSTANTS
    NumWallets,    \* cfg.accounts: the wallets that buy and sell
    MaxBreaks,     \* bound: stream errors
    MaxTrades      \* bound: trades of strangers on the curve

ASSUME NumbersAssumption == NumWallets \in Nat /\ MaxBreaks \in Nat /\ MaxTrades \in Nat

Wallets == 1 .. NumWallets

\* Who holds a clone of the submitter: main (and the sell context it keeps), the
\* receiver thread, the curve task and the deadline task.
Clients == {"main", "receiver", "curve", "deadline"}

VARIABLES
    queue, holders, worker, conn, sending, handle, exit, submitted, arrived, failed, lost,
    fired,                \* stream.rs: the launch has been fired
    stream,               \* curve_sub::run: "connecting", "up", "firing" the buys, "gone"
    first_signal_fired, next_buy,
    updates,              \* account updates the provider has sent on this stream
    balances,             \* wallet_balances: 1 once the ATA shows tokens
    deadline, next_sell,  \* the deadline task and its loop
    main,
    landed, expired,      \* the chain: what took effect, and what did not
    breaks, trades

Plan == INSTANCE LaunchPlan
Order(kind, wallet) == Plan!Order(kind, wallet)
Dev == Plan!Dev

Node1 == INSTANCE Node1 WITH Txs <- Plan!Orders, Clients <- Clients

node1 == <<queue, holders, worker, conn, sending, handle, exit, submitted, arrived, failed, lost>>
curveSub == <<stream, first_signal_fired, next_buy, updates, balances>>
deadlineTask == <<deadline, next_sell>>
chain == <<landed, expired>>
bounds == <<breaks, trades>>
vars == <<node1, fired, curveSub, deadlineTask, main, chain, bounds>>

\* With an API key configured there is a submitter: spawn_node1 does not look at cfg.debug.
Init ==
    /\ Node1!Init
    /\ fired = FALSE
    /\ stream = "connecting" /\ first_signal_fired = FALSE /\ next_buy = 1
    /\ updates = <<>> /\ balances = [w \in Wallets |-> 0]
    /\ deadline = "none" /\ next_sell = 1
    /\ main = "running"
    /\ landed = {} /\ expired = {} /\ breaks = 0 /\ trades = 0
-----------------------------------------------------------------------------
(* The receiver thread: shreds/stream.rs.                                  *)

\* Mutant: the launch is fired for every slot that qualifies.
FireLaunch_EverySlot ==
    /\ "receiver" \in holders /\ Len(submitted) < 4
    /\ fired' = TRUE
    /\ Node1!Submit("receiver", Order("launch", Dev))
    /\ UNCHANGED <<curveSub, deadlineTask, main, chain, bounds>>

\* A focus slot reached its shred count (ShredTrigger says when).
FireLaunch ==
    /\ "receiver" \in holders /\ ~fired
    /\ fired' = TRUE
    /\ Node1!Submit("receiver", Order("launch", Dev))
    /\ UNCHANGED <<curveSub, deadlineTask, main, chain, bounds>>

\* The receive loop sees the flag between two batches and drops its context.
ReceiverExit ==
    /\ exit /\ Node1!Release("receiver")
    /\ UNCHANGED <<fired, curveSub, deadlineTask, main, chain, bounds>>
-----------------------------------------------------------------------------
(* The curve subscription: curve_sub/run.rs.                               *)

\* Connect, subscribe and send the filter; a failure is retried after 1 s.
Connect ==
    /\ stream = "connecting"
    /\ stream' = "up" /\ updates' = <<>>
    /\ UNCHANGED <<node1, fired, first_signal_fired, next_buy, balances, deadlineTask,
                   main, chain, bounds>>

\* Mutant: the latch is reset with the baseline on every reconnect.
Break_ResetsLatch ==
    /\ stream = "up" /\ breaks < MaxBreaks
    /\ breaks' = breaks + 1
    /\ stream' = "connecting" /\ updates' = <<>> /\ first_signal_fired' = FALSE /\ next_buy' = 1
    /\ UNCHANGED <<node1, fired, balances, deadlineTask, main, chain, trades>>

\* The stream ends or errors: what it had not delivered is gone.
Break ==
    /\ stream = "up" /\ breaks < MaxBreaks
    /\ breaks' = breaks + 1
    /\ stream' = "connecting" /\ updates' = <<>>
    /\ UNCHANGED <<node1, fired, first_signal_fired, next_buy, balances, deadlineTask,
                   main, chain, trades>>

\* Unauthenticated, or the exit flag seen on a 250 ms tick: the task returns.
CurveExit ==
    /\ \/ exit /\ stream \in {"connecting", "up"} /\ UNCHANGED breaks
       \/ stream = "connecting" /\ breaks < MaxBreaks /\ breaks' = breaks + 1
    /\ stream' = "gone" /\ updates' = <<>>
    /\ Node1!Release("curve")
    /\ UNCHANGED <<fired, first_signal_fired, next_buy, balances, deadlineTask, main,
                   chain, trades>>

\* An ATA update: the latest write wins.
AtaUpdate ==
    /\ stream = "up" /\ updates # <<>> /\ Head(updates).kind = "ata"
    /\ balances' = [balances EXCEPT ![Head(updates).wallet] = Head(updates).amount]
    /\ updates' = Tail(updates)
    /\ UNCHANGED <<node1, fired, stream, first_signal_fired, next_buy, deadlineTask,
                   main, chain, bounds>>

\* handle_curve: only the first curve update ever seen fires anything.
CurveUpdate ==
    /\ stream = "up" /\ updates # <<>> /\ Head(updates).kind = "curve"
    /\ updates' = Tail(updates)
    /\ first_signal_fired' = TRUE
    /\ stream' = IF first_signal_fired THEN stream ELSE "firing"
    /\ UNCHANGED <<node1, fired, next_buy, balances, deadlineTask, main, chain, bounds>>

\* Mutant: an inclusive bound buys for one wallet too many.
FireBuy_OneMore ==
    /\ stream = "firing" /\ next_buy <= NumWallets + 1
    /\ Node1!Submit("curve", Order("buy", next_buy))
    /\ next_buy' = next_buy + 1
    /\ UNCHANGED <<fired, stream, first_signal_fired, updates, balances, deadlineTask,
                   main, chain, bounds>>

FireBuy ==
    /\ stream = "firing" /\ next_buy <= NumWallets
    /\ Node1!Submit("curve", Order("buy", next_buy))
    /\ next_buy' = next_buy + 1
    /\ UNCHANGED <<fired, stream, first_signal_fired, updates, balances, deadlineTask,
                   main, chain, bounds>>

\* The deadline task is spawned once the buys are queued.
ArmDeadline ==
    /\ stream = "firing" /\ next_buy > NumWallets
    /\ deadline' = "sleeping"
    /\ stream' = "up"
    /\ UNCHANGED <<node1, fired, first_signal_fired, next_buy, updates, balances,
                   next_sell, main, chain, bounds>>
-----------------------------------------------------------------------------
(* The deadline task.                                                      *)

\* One second later, the dev sells what it was quoted.
FireDevSell ==
    /\ deadline = "sleeping"
    /\ Node1!Submit("deadline", Order("sell", Dev))
    /\ deadline' = "selling"
    /\ UNCHANGED <<fired, curveSub, next_sell, main, chain, bounds>>

\* Mutant: a wallet that never showed a balance is sold as well.
SellWallet_Unseen ==
    /\ deadline = "selling" /\ next_sell <= NumWallets
    /\ Node1!Submit("deadline", Order("sell", next_sell))
    /\ next_sell' = next_sell + 1
    /\ UNCHANGED <<fired, curveSub, deadline, main, chain, bounds>>

\* Mutant: the loop stops one wallet short.
SellWallet_OneShort ==
    /\ deadline = "selling" /\ next_sell < NumWallets
    /\ \/ balances[next_sell] # 0 /\ Node1!Submit("deadline", Order("sell", next_sell))
       \/ balances[next_sell] = 0 /\ UNCHANGED node1
    /\ next_sell' = next_sell + 1
    /\ UNCHANGED <<fired, curveSub, deadline, main, chain, bounds>>

\* Each wallet's balance is read when its turn comes; 0 is skipped.
SellWallet ==
    /\ deadline = "selling" /\ next_sell <= NumWallets
    /\ \/ balances[next_sell] # 0 /\ Node1!Submit("deadline", Order("sell", next_sell))
       \/ balances[next_sell] = 0 /\ UNCHANGED node1
    /\ next_sell' = next_sell + 1
    /\ UNCHANGED <<fired, curveSub, deadline, main, chain, bounds>>

SellsDone ==
    /\ deadline = "selling" /\ next_sell > NumWallets
    /\ Node1!Release("deadline")
    /\ deadline' = "done"
    /\ UNCHANGED <<fired, curveSub, next_sell, main, chain, bounds>>
-----------------------------------------------------------------------------
(* node1 and main's shutdown.                                              *)

Submitter ==
    /\ Node1!RunWorker \/ \E o \in Plan!Orders : Node1!SendArrives(o)
    /\ UNCHANGED <<fired, curveSub, deadlineTask, main, chain, bounds>>

SendFails ==
    /\ \E o \in Plan!Orders : Node1!SendFails(o)
    /\ \/ conn = "closed" /\ UNCHANGED breaks
       \/ conn = "open" /\ breaks < MaxBreaks /\ breaks' = breaks + 1
    /\ UNCHANGED <<fired, curveSub, deadlineTask, main, chain, trades>>

ConnectionLost ==
    /\ breaks < MaxBreaks /\ breaks' = breaks + 1
    /\ Node1!ConnectionLost
    /\ UNCHANGED <<fired, curveSub, deadlineTask, main, chain, trades>>

CtrlC ==
    /\ main = "running" /\ main' = "joinReceiver"
    /\ Node1!SetExit
    /\ UNCHANGED <<fired, curveSub, deadlineTask, chain, bounds>>

ReceiverJoined ==
    /\ main = "joinReceiver" /\ "receiver" \notin holders
    /\ main' = "shutdown"
    /\ Node1!BeginShutdown
    /\ UNCHANGED <<fired, curveSub, deadlineTask, chain, bounds>>

Node1Joined ==
    /\ main = "shutdown" /\ main' = "joinCurve"
    /\ Node1!WorkerJoined
    /\ UNCHANGED <<fired, curveSub, deadlineTask, chain, bounds>>

\* main returns: the runtime drops the deadline task and the sends in flight.
CurveJoined ==
    /\ main = "joinCurve" /\ stream = "gone"
    /\ main' = "done"
    /\ deadline' = "gone"
    /\ holders' = {} /\ sending' = {} /\ failed' = failed \cup sending
    /\ UNCHANGED <<queue, worker, conn, handle, exit, submitted, arrived, lost, fired,
                   curveSub, next_sell, chain, bounds>>
-----------------------------------------------------------------------------
(* The chain and the gRPC provider.                                        *)

Notify(notes) == updates' = IF stream \in {"up", "firing"} THEN updates \o notes ELSE updates
Curve == [kind |-> "curve"]
Ata(w, amount) == [kind |-> "ata", wallet |-> w, amount |-> amount]

Unsettled == (arrived \ landed) \ expired

\* Would o succeed now?  Nothing trades before the curve exists, and a wallet sells
\* what it bought.
Executes(o) ==
    \/ o.kind = "launch"
    \/ Order("launch", Dev) \in landed /\ (o.kind = "buy" \/ o.wallet = Dev)
    \/ o.kind = "sell" /\ Order("buy", o.wallet) \in landed

Land(o) ==
    /\ o \in Unsettled /\ Executes(o)
    /\ landed' = landed \cup {o}
    /\ Notify(IF o.wallet = Dev THEN <<Curve>>
              ELSE <<Ata(o.wallet, IF o.kind = "buy" THEN 1 ELSE 0), Curve>>)
    /\ UNCHANGED <<node1, fired, stream, first_signal_fired, next_buy, balances,
                   deadlineTask, main, expired, bounds>>

\* It fails on chain, or its blockhash expires first.
Expire(o) ==
    /\ o \in Unsettled
    /\ \/ ~Executes(o) /\ UNCHANGED breaks
       \/ Executes(o) /\ breaks < MaxBreaks /\ breaks' = breaks + 1
    /\ expired' = expired \cup {o}
    /\ UNCHANGED <<node1, fired, curveSub, deadlineTask, main, landed, trades>>

\* Somebody else trades on the new curve.
StrangerTrades ==
    /\ Order("launch", Dev) \in landed /\ trades < MaxTrades
    /\ trades' = trades + 1
    /\ Notify(<<Curve>>)
    /\ UNCHANGED <<node1, fired, stream, first_signal_fired, next_buy, balances,
                   deadlineTask, main, chain, breaks>>
-----------------------------------------------------------------------------
Receiver == FireLaunch \/ ReceiverExit
CurveTask == Connect \/ Break \/ CurveExit \/ AtaUpdate \/ CurveUpdate \/ FireBuy \/ ArmDeadline
DeadlineTask == FireDevSell \/ SellWallet \/ SellsDone
Main == CtrlC \/ ReceiverJoined \/ Node1Joined \/ CurveJoined
Settle == \E o \in Plan!Orders : Land(o) \/ Expire(o)

Next ==
    \/ Receiver \/ CurveTask \/ DeadlineTask \/ Submitter \/ SendFails \/ Main
    \/ ConnectionLost \/ Settle \/ StrangerTrades

Spec == Init /\ [][Next]_vars

\* Every thread and task that can take a step does, messages are delivered before
\* the stream idles, and the network settles what it accepted.  Nothing makes the
\* operator press Ctrl-C, the launch fire or a stranger trade.
Progress ==
    \/ ReceiverExit \/ Connect \/ AtaUpdate \/ CurveUpdate \/ FireBuy \/ ArmDeadline
    \/ DeadlineTask \/ Submitter \/ SendFails \/ Settle
    \/ exit /\ CurveExit
    \/ ReceiverJoined \/ Node1Joined \/ CurveJoined

\* Every step happens finitely often, so fairness to all of them together leaves none
\* of them enabled for ever.
FairSpec == Spec /\ WF_vars(Progress)
-----------------------------------------------------------------------------
TypeOK ==
    /\ Node1!TypeOK
    /\ fired \in BOOLEAN /\ first_signal_fired \in BOOLEAN
    /\ stream \in {"connecting", "up", "firing", "gone"} /\ next_buy \in 1 .. NumWallets + 1
    /\ \A i \in DOMAIN updates :
         updates[i] = Curve \/ \E w \in Wallets, n \in 0 .. 1 : updates[i] = Ata(w, n)
    /\ balances \in [Wallets -> 0 .. 1]
    /\ deadline \in {"none", "sleeping", "selling", "done", "gone"}
    /\ next_sell \in 1 .. NumWallets + 1
    /\ main \in {"running", "joinReceiver", "shutdown", "joinCurve", "done"}
    /\ landed \subseteq Plan!Orders /\ expired \subseteq Plan!Orders

\* Nothing is submitted twice or out of turn, whatever the stream does in between: the
\* latch and the flag survive reconnects (run.rs:84), buys precede sells.
ImplementsPlan == Plan!Spec

\* A wallet is only sold after the chain has executed its buy: a sell never rests on a
\* balance that was not there, however late or on which stream it was observed.
SellsAreBacked ==
    \A w \in Wallets : Order("sell", w) \in Node1!Elems(submitted) => Order("buy", w) \in landed

\* node1 gets no transaction twice, through every reconnect and through the shutdown.
SentOnce == Node1!SentOnce

\* A wallet whose tokens were observed before the deadline is sold, unless the run is
\* being stopped, something failed on the way, or the node1 connection is gone.
Unwound ==
    \A w \in Wallets :
        (balances[w] = 1 /\ deadline = "sleeping")
            ~> (Order("sell", w) \in landed \/ exit \/ breaks > 0 \/ failed # {})

\* Shutdown drops the channel, which ends the worker, and returns (node1.rs:89).
ShutdownReturns == (main = "shutdown") ~> (main # "shutdown")
=============================================================================
