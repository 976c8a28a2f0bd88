-------------------------- MODULE WebSocketClient ---------------------------
(***************************************************************************)
(* WebSocketClient: a blocking interface over ixwebsocket's callbacks.     *)
(*                                                                         *)
(* Three threads take steps.  The owner calls connect(), send_text(),      *)
(* receive() and close() in any order.  The run thread, one per            *)
(* connection, is inside ws.run() and calls the message callback.  A       *)
(* closer may call close() while the owner is inside receive(), as the     *)
(* header allows.  They share the queue `incoming`, its mutex and its      *)
(* condition variable; one action is one critical section, or one call     *)
(* into the library.                                                       *)
(***************************************************************************)
EXTENDS Integers, Sequences

CONSTANTS
  MaxConnects,   \* bound: connect() calls
  MaxFrames      \* bound: frames that arrive on one connection

ASSUME BoundsAssumption == MaxConnects \in Nat /\ MaxFrames \in Nat

VARIABLES
  proxy,      \* options.proxy.has_value()
  incoming,   \* the queue: frames and at most one terminal error per connection
  owner,      \* where the owner is
  closer,     \* where the closer is
  run,        \* run_thread: "none" when it is not joinable
  item,       \* what the callback is about to push
  stopping,   \* ws.stop() was called on this connection
  remote,     \* what the service did with the connection
  returned,   \* result of the owner's last call
  conn,       \* history: number of the connection
  arrived,    \* history: items pushed for this connection
  taken       \* history: items receive() returned since connect()

vars == <<proxy, incoming, owner, closer, run, item, stopping, remote, returned,
          conn, arrived, taken>>

Frame(c, n) == [kind |-> "frame", conn |-> c, n |-> n]
Lost(c) == [kind |-> "error", conn |-> c, n |-> 0]
Items == [kind : {"frame", "error"}, conn : 0..MaxConnects, n : 0..MaxFrames]

NoItem == Lost(0)

Return(op, code) == owner' = "idle" /\ returned' = [op |-> op, code |-> code]

-----------------------------------------------------------------------------
(* The run thread: ws.run() and the message callback.                      *)

\* A frame; also one the library had buffered when stop() was called.  Only
\* frames have arrived on a connection that is still polled.
OnMessage ==
  /\ run = "polling" /\ Len(arrived) < MaxFrames
  /\ item' = Frame(conn, Len(arrived) + 1)
  /\ run' = "pushing"
  /\ UNCHANGED remote

\* The connection breaks, or the service closes it with another code than 1000
\* or with a reason: a terminal error.
OnFailure ==
  /\ run = "polling" /\ ~stopping
  /\ remote' = "failed"
  /\ item' = Lost(conn)
  /\ run' = "pushing"

\* The service closes with code 1000 and no reason: nothing is pushed.
OnNormalClose ==
  /\ run = "polling" /\ ~stopping
  /\ remote' = "closed"
  /\ run' = "finished"
  /\ UNCHANGED item

\* Our own stop(): the close the library then reports may carry a reason.
OnStop ==
  /\ run = "polling" /\ stopping
  /\ \/ run' = "finished" /\ UNCHANGED item
     \/ run' = "pushing" /\ item' = Lost(conn)
  /\ UNCHANGED remote

Callback ==
  /\ OnMessage \/ OnFailure \/ OnNormalClose \/ OnStop
  /\ UNCHANGED <<proxy, incoming, owner, closer, stopping, returned, conn, arrived, taken>>

\* Under the lock.
Push ==
  /\ run = "pushing"
  /\ incoming' = Append(incoming, item)
  /\ arrived' = Append(arrived, item)
  /\ run' = "notifying"
  /\ UNCHANGED <<proxy, owner, closer, item, stopping, remote, returned, conn, taken>>

\* Mutant: notify_one() is missing.
Notify_Missing ==
  /\ run = "notifying"
  /\ run' = IF item.kind = "frame" THEN "polling" ELSE "finished"
  /\ UNCHANGED <<proxy, incoming, owner, closer, item, stopping, remote, returned, conn,
                 arrived, taken>>

\* After the unlock: a blocked receive() runs again.
Notify ==
  /\ run = "notifying"
  /\ owner' = IF owner = "blocked" THEN "receive" ELSE owner
  /\ run' = IF item.kind = "frame" THEN "polling" ELSE "finished"
  /\ UNCHANGED <<proxy, incoming, closer, item, stopping, remote, returned, conn,
                 arrived, taken>>

-----------------------------------------------------------------------------
(* connect().                                                              *)

\* Mutant: the thread is joined without being told to stop.
Stop_Missing == UNCHANGED stopping

Stop == stopping' = TRUE

\* Mutant: the old thread is left running.
Join_Missing == UNCHANGED run

\* run_thread.join(), at once if the thread is not joinable.
Join ==
  /\ run \in {"none", "finished"}
  /\ run' = "none"

ConnectUnsupported ==
  /\ owner = "idle" /\ proxy
  /\ Return("connect", "unsupported")
  /\ UNCHANGED <<proxy, incoming, closer, run, item, stopping, remote, conn, arrived, taken>>

\* The header does not allow two threads inside connect() or close().
ConnectStop ==
  /\ owner = "idle" /\ ~proxy /\ closer # "joining" /\ conn < MaxConnects
  /\ Stop
  /\ owner' = "connect_join"
  /\ UNCHANGED <<proxy, incoming, closer, run, item, remote, returned, conn, arrived, taken>>

ConnectJoin ==
  /\ owner = "connect_join"
  /\ Join
  /\ owner' = "connect_clear"
  /\ UNCHANGED <<proxy, incoming, closer, item, stopping, remote, returned, conn,
                 arrived, taken>>

ConnectClear ==
  /\ owner = "connect_clear"
  /\ incoming' = <<>>
  /\ owner' = "connect_open"
  /\ UNCHANGED <<proxy, closer, run, item, stopping, remote, returned, conn, arrived, taken>>

\* ws.connect(), and on success the run thread is started.
ConnectOpen ==
  /\ owner = "connect_open"
  /\ conn' = conn + 1
  /\ arrived' = <<>> /\ taken' = <<>>
  /\ \/ /\ Return("connect", "none")
        /\ run' = "polling" /\ stopping' = FALSE /\ remote' = "open"
     \/ /\ \E code \in {"drm_error", "network_error"} : Return("connect", code)
        /\ remote' = "failed"
        /\ UNCHANGED <<run, stopping>>
  /\ UNCHANGED <<proxy, incoming, closer, item>>

-----------------------------------------------------------------------------
(* send_text(), receive() and close().                                     *)

\* The library may also fail to send on a connection that still looks open.
SendText ==
  /\ owner = "idle"
  /\ \/ remote = "open" /\ ~stopping /\ Return("send_text", "none")
     \/ Return("send_text", "network_error")
  /\ UNCHANGED <<proxy, incoming, closer, run, item, stopping, remote, conn, arrived, taken>>

Receive ==
  /\ owner = "idle"
  /\ owner' = "receive"
  /\ UNCHANGED <<proxy, incoming, closer, run, item, stopping, remote, returned, conn,
                 arrived, taken>>

\* The predicate is false: the lock is given up and the thread sleeps.
Wait ==
  /\ owner = "receive" /\ incoming = <<>>
  /\ owner' = "blocked"
  /\ UNCHANGED <<proxy, incoming, closer, run, item, stopping, remote, returned, conn,
                 arrived, taken>>

Take ==
  /\ owner = "receive" /\ incoming # <<>>
  /\ incoming' = Tail(incoming)
  /\ taken' = Append(taken, Head(incoming))
  /\ Return("receive", IF Head(incoming).kind = "frame" THEN "none" ELSE "network_error")
  /\ UNCHANGED <<proxy, closer, run, item, stopping, remote, conn, arrived>>

\* Mutant: the deadline is taken for an empty queue.
Deadline_NoSecondLook ==
  /\ owner = "blocked"
  /\ Return("receive", "timeout")
  /\ UNCHANGED <<proxy, incoming, closer, run, item, stopping, remote, conn, arrived, taken>>

\* At the deadline wait_for looks at the predicate once more.
Deadline ==
  /\ owner = "blocked"
  /\ IF incoming = <<>>
     THEN Return("receive", "timeout")
     ELSE owner' = "receive" /\ UNCHANGED returned
  /\ UNCHANGED <<proxy, incoming, closer, run, item, stopping, remote, conn, arrived, taken>>

CloseStop ==
  /\ owner = "idle" /\ closer # "joining"
  /\ Stop
  /\ owner' = "close_join"
  /\ UNCHANGED <<proxy, incoming, closer, run, item, remote, returned, conn, arrived, taken>>

CloseJoin ==
  /\ owner = "close_join"
  /\ Join
  /\ Return("close", "none")
  /\ UNCHANGED <<proxy, incoming, closer, item, stopping, remote, conn, arrived, taken>>

\* close() from another thread, begun while the owner is inside receive().
CloserStop ==
  /\ closer = "idle" /\ owner \in {"receive", "blocked"}
  /\ Stop
  /\ closer' = "joining"
  /\ UNCHANGED <<proxy, incoming, owner, run, item, remote, returned, conn, arrived, taken>>

CloserJoin ==
  /\ closer = "joining"
  /\ Join
  /\ closer' = "idle"
  /\ UNCHANGED <<proxy, incoming, owner, item, stopping, remote, returned, conn,
                 arrived, taken>>

-----------------------------------------------------------------------------
Init ==
  /\ proxy \in BOOLEAN
  /\ incoming = <<>> /\ arrived = <<>> /\ taken = <<>>
  /\ owner = "idle" /\ closer = "idle" /\ run = "none"
  /\ item = NoItem /\ stopping = FALSE /\ remote = "unused" /\ conn = 0
  /\ returned = [op |-> "none", code |-> "none"]

RunThread == Callback \/ Push \/ Notify

\* The steps of a call the owner has begun.
OwnerCall ==
  ConnectJoin \/ ConnectClear \/ ConnectOpen \/ Wait \/ Take \/ CloseJoin

OwnerBegins == ConnectUnsupported \/ ConnectStop \/ SendText \/ Receive \/ CloseStop

Next ==
  RunThread \/ OwnerBegins \/ OwnerCall \/ Deadline \/ CloserStop \/ CloserJoin

\* Threads are scheduled, and the library, told to stop, hands over what it has
\* buffered and ends.
Fairness ==
  /\ WF_vars(Push \/ Notify \/ (stopping /\ Callback))
  /\ WF_vars(OwnerCall)
  /\ WF_vars(CloserJoin)

Spec == Init /\ [][Next]_vars /\ Fairness

-----------------------------------------------------------------------------
(* Properties.                                                             *)

Connecting == owner \in {"connect_join", "connect_clear", "connect_open"}

\* The type invariant of the client and its threads (WebSocketClient.cpp:33-59).
TypeOK ==
  /\ proxy \in BOOLEAN
  /\ incoming \in Seq(Items) /\ arrived \in Seq(Items) /\ taken \in Seq(Items)
  /\ owner \in {"idle", "connect_join", "connect_clear", "connect_open", "receive",
                "blocked", "close_join"}
  /\ closer \in {"idle", "joining"}
  /\ run \in {"none", "polling", "pushing", "notifying", "finished"}
  /\ item \in Items
  /\ stopping \in BOOLEAN
  /\ remote \in {"unused", "open", "failed", "closed"}
  /\ returned \in [op : {"none", "connect", "send_text", "receive", "close"},
                   code : {"none", "unsupported", "drm_error", "network_error", "timeout"}]
  /\ conn \in 0..MaxConnects

\* A client that is used again never hands out a frame or an error of an
\* earlier connection: connect() joins the old run thread before it clears the
\* queue (WebSocketClient.cpp:105-111, 186-187).
NoStaleItem ==
  ~Connecting =>
    /\ \A i \in DOMAIN incoming : incoming[i].conn = conn
    /\ \A i \in DOMAIN taken : taken[i].conn = conn

\* run_thread is never assigned while the old thread is joinable, which would
\* terminate the program, and no thread outlives a close() that returned
\* (WebSocketClient.cpp:54-58, 216-218, 259-263).
OneRunThread ==
  /\ owner = "connect_open" => run = "none"
  /\ owner = "idle" /\ returned.op = "close" => run = "none"

\* A frame or error in the queue wakes a blocked receive() without the help of
\* its deadline (WebSocketClient.cpp:181-187, 237-243).
ItemWakesReceiver == (owner = "blocked" /\ incoming # <<>>) ~> (owner # "blocked")

\* close() and connect() get through the join whatever the run thread is doing
\* (WebSocketClient.cpp:54-58).
JoinReturns ==
  /\ (owner \in {"connect_join", "close_join"}) ~> (run = "none")
  /\ (closer = "joining") ~> (closer = "idle")

\* WebSocketClient.cpp:168-169 and WebSocketClient.hpp:63: a close that is not
\* our own stop() reaches receive() as an error, not as a deadline.
TimeoutMeansSilence ==
  returned = [op |-> "receive", code |-> "timeout"] /\ ~stopping => remote # "closed"
=============================================================================
