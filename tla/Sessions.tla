------------------------------ MODULE Sessions ------------------------------
(***************************************************************************)
(* The processes of one server (src/server.c) and its clients              *)
(* (src/client.c): a client connects, asks, waits and closes, once per     *)
(* turn of its loop; the server's parent accepts and forks, one child      *)
(* answers one request, and a signal handler reaps the children.           *)
(*                                                                         *)
(* Messages carry nothing here: what a client decodes of an answer, or of  *)
(* a buffer into which nothing was received, may be any code.  The         *)
(* kernel's part (sockets, descriptors, signals, wait) is as the calls are *)
(* documented; it is what makes their order matter.                        *)
(***************************************************************************)
EXTENDS Integers, Sequences, FiniteSets

CONSTANTS
    Clients,     \* client processes
    Backlog,     \* BACKLOG, connections that wait to be accepted
    MaxConns     \* bound: connections 1 .. MaxConns are made

ASSUME BacklogAssumption  == Backlog \in Nat \ {0}
ASSUME MaxConnsAssumption == MaxConns \in Nat

VARIABLES
    client,    \* where each client is in main and execute
    sockfd,    \* the connection a client holds, 0 for none
    made,      \* connections made so far
    asked,     \* connections on which a request was sent
    answered,  \* connections on which an answer was sent
    queue,     \* connections not accepted yet, in order
    parent,    \* where the parent is in its loop
    newFd,     \* the connection the parent accepted last, 0 after it closed it
    child,     \* where the child of each connection is
    pending,   \* SIGCHLD is pending for the parent
    handler    \* the parent is in sigchld_handler

clientVars == <<client, sockfd, made, asked>>
parentVars == <<queue, parent, newFd>>
childVars  == <<child, answered>>
signalVars == <<pending, handler>>
vars == <<clientVars, parentVars, childVars, signalVars>>

Conns == 1..MaxConns

Running == {"recv", "work", "send", "close"}
Zombies == {k \in Conns : child[k] = "zombie"}

Init == /\ client = [c \in Clients |-> "connect"]
        /\ sockfd = [c \in Clients |-> 0]
        /\ made = 0
        /\ asked = {}
        /\ answered = {}
        /\ queue = <<>>
        /\ parent = "accept"
        /\ newFd = 0
        /\ child = [k \in Conns |-> "none"]
        /\ pending = FALSE
        /\ handler = FALSE

-----------------------------------------------------------------------------
(***************************************************************************)
(* A client.                                                               *)
(***************************************************************************)
\* A slip: the parent listens for more than it is to.
Connect_OneMore(c) ==
    /\ client[c] = "connect"
    /\ made < MaxConns
    /\ Len(queue) <= Backlog
    /\ made' = made + 1
    /\ sockfd' = [sockfd EXCEPT ![c] = made']
    /\ queue' = Append(queue, made')
    /\ client' = [client EXCEPT ![c] = "ask"]
    /\ UNCHANGED <<asked, parent, newFd, childVars, signalVars>>

Connect(c) ==
    /\ client[c] = "connect"
    /\ made < MaxConns
    /\ Len(queue) < Backlog
    /\ made' = made + 1
    /\ sockfd' = [sockfd EXCEPT ![c] = made']
    /\ queue' = Append(queue, made')
    /\ client' = [client EXCEPT ![c] = "ask"]
    /\ UNCHANGED <<asked, parent, newFd, childVars, signalVars>>

\* do_connection returns 1 or 2, and execute goes on with that as a socket:
\* its send and recv fail.  That it closes its own standard stream is left out.
ConnectFails(c) ==
    /\ client[c] = "connect"
    /\ client' = [client EXCEPT ![c] = "ask"]
    /\ UNCHANGED <<sockfd, made, asked, parentVars, childVars, signalVars>>

\* parse, which waits for the user, and send.
Ask(c) ==
    /\ client[c] = "ask"
    /\ client' = [client EXCEPT ![c] = "wait"]
    /\ asked' = asked \cup ({sockfd[c]} \cap Conns)
    /\ UNCHANGED <<sockfd, made, parentVars, childVars, signalVars>>

\* No process of the server has the connection open any more.
Hung(k) == /\ k \notin {queue[i] : i \in 1..Len(queue)}
           /\ newFd # k
           /\ child[k] \notin Running

\* recv returns with the answer, with nothing when the server closed, or fails.
Receive(c) ==
    /\ client[c] = "wait"
    /\ sockfd[c] \in Conns => sockfd[c] \in answered \/ Hung(sockfd[c])
    /\ client' = [client EXCEPT ![c] = "got"]
    /\ UNCHANGED <<sockfd, made, asked, parentVars, childVars, signalVars>>

\* The code decides whether main goes round again; it closes, or exit does.
Finish(c) ==
    /\ client[c] = "got"
    /\ sockfd' = [sockfd EXCEPT ![c] = 0]
    /\ \E next \in {"connect", "ended"} : client' = [client EXCEPT ![c] = next]
    /\ UNCHANGED <<made, asked, parentVars, childVars, signalVars>>

\* The user, or a fault in parse or in the conversion, ends the client.
Quit(c) ==
    /\ client[c] # "ended"
    /\ client' = [client EXCEPT ![c] = "ended"]
    /\ sockfd' = [sockfd EXCEPT ![c] = 0]
    /\ UNCHANGED <<made, asked, parentVars, childVars, signalVars>>

ClientGone(k) == \A c \in Clients : sockfd[c] # k

-----------------------------------------------------------------------------
(***************************************************************************)
(* The parent's loop in main.  It stands still while the handler runs.     *)
(***************************************************************************)
Accept ==
    /\ ~handler
    /\ parent = "accept"
    /\ queue # <<>>
    /\ newFd' = Head(queue)
    /\ queue' = Tail(queue)
    /\ parent' = "fork"
    /\ UNCHANGED <<clientVars, childVars, signalVars>>

\* When fork fails its result is not 0 either, and there is no child.
Fork ==
    /\ ~handler
    /\ parent = "fork"
    /\ \E pc \in {"recv", "none"} : child' = [child EXCEPT ![newFd] = pc]
    /\ parent' = "close"
    /\ UNCHANGED <<clientVars, queue, newFd, answered, signalVars>>

\* A slip: the parent keeps the connection open until the next one.
CloseNew_Kept ==
    /\ ~handler
    /\ parent = "close"
    /\ parent' = "accept"
    /\ UNCHANGED <<clientVars, queue, newFd, childVars, signalVars>>

CloseNew ==
    /\ ~handler
    /\ parent = "close"
    /\ newFd' = 0
    /\ parent' = "accept"
    /\ UNCHANGED <<clientVars, queue, childVars, signalVars>>

(***************************************************************************)
(* sigchld_handler.  Children that end while SIGCHLD is pending make no    *)
(* second signal; one that ends while the handler runs makes it run again. *)
(***************************************************************************)
Deliver ==
    /\ pending
    /\ ~handler
    /\ pending' = FALSE
    /\ handler' = TRUE
    /\ UNCHANGED <<clientVars, parentVars, childVars>>

\* A slip: waitpid is called once.
Reap_Once ==
    /\ handler
    /\ \E k \in Zombies : child' = [child EXCEPT ![k] = "reaped"]
    /\ handler' = FALSE
    /\ UNCHANGED <<clientVars, parentVars, answered, pending>>

Reap ==
    /\ handler
    /\ \E k \in Zombies : child' = [child EXCEPT ![k] = "reaped"]
    /\ UNCHANGED <<clientVars, parentVars, answered, signalVars>>

HandlerReturns ==
    /\ handler
    /\ Zombies = {}
    /\ handler' = FALSE
    /\ UNCHANGED <<clientVars, parentVars, childVars, pending>>

-----------------------------------------------------------------------------
(***************************************************************************)
(* do_connection in the child of connection k.  A failed or empty recv is  *)
(* reported and ignored.                                                   *)
(***************************************************************************)
ChildRecv(k) ==
    /\ child[k] = "recv"
    /\ k \in asked \/ ClientGone(k)
    /\ child' = [child EXCEPT ![k] = "work"]
    /\ UNCHANGED <<clientVars, parentVars, answered, signalVars>>

\* parse_request, get_collection and the encoding.
ChildWork(k) ==
    /\ child[k] = "work"
    /\ child' = [child EXCEPT ![k] = "send"]
    /\ UNCHANGED <<clientVars, parentVars, answered, signalVars>>

ChildSend(k) ==
    /\ child[k] = "send"
    /\ child' = [child EXCEPT ![k] = "close"]
    /\ answered' = answered \cup {k}
    /\ UNCHANGED <<clientVars, parentVars, signalVars>>

Ends(k) ==
    /\ child' = [child EXCEPT ![k] = "zombie"]
    /\ pending' = TRUE
    /\ UNCHANGED <<clientVars, parentVars, answered, handler>>

\* close and exit.
ChildExit(k) == child[k] = "close" /\ Ends(k)

\* A fault in parse_request, or SIGPIPE when the client is gone.
ChildDies(k) == /\ \/ child[k] = "work"
                   \/ child[k] = "send" /\ ClientGone(k)
                /\ Ends(k)

-----------------------------------------------------------------------------
ParentStep  == Accept \/ Fork \/ CloseNew
HandlerStep == Deliver \/ Reap \/ HandlerReturns
ChildStep(k) == ChildRecv(k) \/ ChildWork(k) \/ ChildSend(k) \/ ChildExit(k) \/ ChildDies(k)

Next == \/ \E c \in Clients : \/ Connect(c) \/ ConnectFails(c) \/ Ask(c)
                              \/ Receive(c) \/ Finish(c) \/ Quit(c)
        \/ ParentStep
        \/ HandlerStep
        \/ \E k \in Conns : ChildStep(k)

Spec == Init /\ [][Next]_vars

(***************************************************************************)
(* The kernel lets every process of the server run that can, and a call    *)
(* of the storage code ends (Workloads!CallsEnd).  Nothing obliges a user  *)
(* to type: there is no fairness for Ask, and a child may wait for ever.   *)
(***************************************************************************)
FairSpec == /\ Spec
            /\ WF_vars(ParentStep)
            /\ WF_vars(HandlerStep)
            /\ \A k \in Conns : WF_vars(ChildStep(k))
            /\ \A c \in Clients : WF_vars(Receive(c))

-----------------------------------------------------------------------------
(***************************************************************************)
(* The type of the state, and where each connection may be.                *)
(***************************************************************************)
TypeOK ==
    /\ client \in [Clients -> {"connect", "ask", "wait", "got", "ended"}]
    /\ sockfd \in [Clients -> 0..MaxConns]
    /\ made \in 0..MaxConns
    /\ asked \subseteq Conns /\ answered \subseteq Conns
    /\ queue \in Seq(Conns) /\ Len(queue) <= Backlog
    /\ parent \in {"accept", "fork", "close"}
    /\ newFd \in 0..MaxConns
    /\ child \in [Conns -> Running \cup {"none", "zombie", "reaped"}]
    /\ pending \in BOOLEAN /\ handler \in BOOLEAN

(***************************************************************************)
(* No child that has ended goes unnoticed: as long as there is a zombie    *)
(* the handler is running or is going to (sigchld_handler's loop, against  *)
(* signals that merge).                                                    *)
(***************************************************************************)
ZombiesNoticed == Zombies # {} => pending \/ handler

(***************************************************************************)
(* A client that has sent its request does not wait for ever: not behind   *)
(* a client whose user types nothing, not when fork fails, and not when    *)
(* the child that serves it dies.                                          *)
(***************************************************************************)
ClientsServed ==
    \A c \in Clients : (client[c] = "wait") ~> (client[c] # "wait")

\* Every child that ends is reaped.
ChildrenReaped ==
    \A k \in Conns : (child[k] = "zombie") ~> (child[k] = "reaped")
=============================================================================
