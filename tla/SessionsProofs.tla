--------------------------- MODULE SessionsProofs ---------------------------
(* No ended child is forgotten, for any number of clients and connections. *)
EXTENDS Sessions, TLAPS

(***************************************************************************)
(* As long as a child that ended has not been reaped, sigchld_handler is   *)
(* running or SIGCHLD is pending: merged signals lose no child.            *)
(***************************************************************************)
THEOREM NoZombieForgotten == Spec => []ZombiesNoticed
<1>1. Init => ZombiesNoticed
  BY DEF Init, ZombiesNoticed, Zombies
<1>2. ASSUME ZombiesNoticed, [Next]_vars PROVE ZombiesNoticed'
  <2> SUFFICES ASSUME Zombies' # {} PROVE pending' \/ handler'
    BY DEF ZombiesNoticed
  <2>1. CASE \E c \in Clients : \/ Connect(c) \/ ConnectFails(c) \/ Ask(c)
                                \/ Receive(c) \/ Finish(c) \/ Quit(c)
    <3>1. UNCHANGED <<child, pending, handler>>
      BY <2>1 DEF Connect, ConnectFails, Ask, Receive, Finish, Quit, childVars, signalVars
    <3> QED BY <1>2, <3>1 DEF ZombiesNoticed, Zombies
  <2>2. CASE Accept \/ CloseNew
    <3>1. UNCHANGED <<child, pending, handler>>
      BY <2>2 DEF Accept, CloseNew, childVars, signalVars
    <3> QED BY <1>2, <3>1 DEF ZombiesNoticed, Zombies
  <2>3. CASE Fork
    <3>1. \A k \in Conns : child'[k] = "zombie" => child[k] = "zombie"
      BY <2>3 DEF Fork
    <3>2. UNCHANGED <<pending, handler>>
      BY <2>3 DEF Fork, signalVars
    <3> QED BY <1>2, <3>1, <3>2 DEF ZombiesNoticed, Zombies
  <2>4. CASE Deliver
    BY <2>4 DEF Deliver
  <2>5. CASE Reap
    BY <2>5 DEF Reap, signalVars
  <2>6. CASE HandlerReturns
    BY <2>6 DEF HandlerReturns, childVars, Zombies
  <2>7. ASSUME NEW k \in Conns, ChildRecv(k) \/ ChildWork(k) \/ ChildSend(k)
        PROVE  pending' \/ handler'
    <3>1. \E pc \in {"work", "send", "close"} : child' = [child EXCEPT ![k] = pc]
      BY <2>7 DEF ChildRecv, ChildWork, ChildSend
    <3>2. \A j \in Conns : child'[j] = "zombie" => child[j] = "zombie"
      BY <3>1
    <3>3. UNCHANGED <<pending, handler>>
      BY <2>7 DEF ChildRecv, ChildWork, ChildSend, signalVars
    <3> QED BY <1>2, <3>2, <3>3 DEF ZombiesNoticed, Zombies
  <2>8. ASSUME NEW k \in Conns, ChildExit(k) \/ ChildDies(k) PROVE pending'
    BY <2>8 DEF ChildExit, ChildDies, Ends
  <2>9. CASE UNCHANGED vars
    BY <1>2, <2>9 DEF vars, childVars, signalVars, ZombiesNoticed, Zombies
  <2> QED BY <1>2, <2>1, <2>2, <2>3, <2>4, <2>5, <2>6, <2>7, <2>8, <2>9
          DEF Next, ParentStep, HandlerStep, ChildStep
<1> QED BY <1>1, <1>2, PTL DEF Spec

-----------------------------------------------------------------------------
(***************************************************************************)
(* Every process stays in its own loop, and no more connections wait than  *)
(* listen was asked for, for any number of clients and connections and any *)
(* backlog.                                                                *)
(***************************************************************************)
THEOREM TypeCorrect == Spec => []TypeOK
<1> USE BacklogAssumption, MaxConnsAssumption
<1>1. Init => TypeOK
  <2>1. <<>> \in Seq(Conns) /\ Len(<<>>) <= Backlog
    OBVIOUS
  <2>2. ASSUME Init
        PROVE  /\ client \in [Clients -> {"connect", "ask", "wait", "got", "ended"}]
               /\ sockfd \in [Clients -> 0..MaxConns]
               /\ made \in 0..MaxConns /\ newFd \in 0..MaxConns
               /\ child \in [Conns -> Running \cup {"none", "zombie", "reaped"}]
    BY <2>2 DEF Init
  <2> QED BY <2>1, <2>2 DEF Init, TypeOK
<1>2. ASSUME TypeOK, [Next]_vars PROVE TypeOK'
  <2>1. ASSUME NEW c \in Clients, Connect(c) PROVE TypeOK'
    <3>1. made' \in Conns /\ made' \in 0..MaxConns
      BY <1>2, <2>1 DEF TypeOK, Connect, Conns
    <3>2. queue' \in Seq(Conns) /\ Len(queue') <= Backlog
      <4>1. queue \in Seq(Conns) /\ Len(queue) < Backlog /\ queue' = Append(queue, made')
        BY <1>2, <2>1 DEF TypeOK, Connect
      <4> HIDE DEF Conns
      <4>2. queue' \in Seq(Conns) /\ Len(queue') = Len(queue) + 1
        BY <3>1, <4>1
      <4>3. Len(queue) \in Nat
        BY <4>1
      <4> QED BY <4>1, <4>2, <4>3
    <3> QED BY <1>2, <2>1, <3>1, <3>2 DEF TypeOK, Connect, childVars, signalVars
  <2>2. ASSUME NEW c \in Clients, Ask(c) PROVE TypeOK'
    BY <1>2, <2>2 DEF TypeOK, Ask, parentVars, childVars, signalVars
  <2>3. ASSUME NEW c \in Clients, ConnectFails(c) \/ Receive(c) \/ Finish(c) \/ Quit(c)
        PROVE  TypeOK'
    <3>1. /\ client' \in [Clients -> {"connect", "ask", "wait", "got", "ended"}]
          /\ sockfd' \in [Clients -> 0..MaxConns]
      <4>1. PICK pc \in {"connect", "ask", "got", "ended"} :
              client' = [client EXCEPT ![c] = pc]
        BY <2>3 DEF ConnectFails, Receive, Finish, Quit
      <4>2. sockfd' = sockfd \/ sockfd' = [sockfd EXCEPT ![c] = 0]
        BY <2>3 DEF ConnectFails, Receive, Finish, Quit
      <4>3. 0 \in 0..MaxConns
        OBVIOUS
      <4> QED BY <1>2, <4>1, <4>2, <4>3 DEF TypeOK
    <3>2. /\ UNCHANGED <<made, asked>> /\ UNCHANGED parentVars
          /\ UNCHANGED childVars /\ UNCHANGED signalVars
      <4>1. CASE ConnectFails(c)
        BY <4>1 DEF ConnectFails
      <4>2. CASE Receive(c)
        BY <4>2 DEF Receive
      <4>3. CASE Finish(c)
        BY <4>3 DEF Finish
      <4>4. CASE Quit(c)
        BY <4>4 DEF Quit
      <4> QED BY <2>3, <4>1, <4>2, <4>3, <4>4
    <3> QED BY <1>2, <3>1, <3>2 DEF TypeOK, parentVars, childVars, signalVars
  <2>4. CASE Accept
    <3>1. Head(queue) \in Conns /\ Tail(queue) \in Seq(Conns) /\ Len(Tail(queue)) <= Backlog
      <4>1. queue \in Seq(Conns) /\ Len(queue) <= Backlog /\ queue # <<>>
        BY <1>2, <2>4 DEF TypeOK, Accept
      <4>2. Len(queue) \in Nat /\ Len(queue) # 0
        BY <4>1
      <4>3. Len(Tail(queue)) = Len(queue) - 1 /\ Tail(queue) \in Seq(Conns)
        BY <4>1
      <4>4. Head(queue) \in Conns
        BY <4>1
      <4> QED BY <4>1, <4>2, <4>3, <4>4
    <3> QED BY <1>2, <2>4, <3>1 DEF TypeOK, Accept, Conns, clientVars, childVars, signalVars
  <2>5. CASE Fork
    BY <1>2, <2>5 DEF TypeOK, Fork, Running, clientVars, signalVars
  <2>6. CASE CloseNew
    BY <1>2, <2>6 DEF TypeOK, CloseNew, clientVars, childVars, signalVars
  <2>7. CASE Deliver
    BY <1>2, <2>7 DEF TypeOK, Deliver, clientVars, parentVars, childVars
  <2>8. CASE Reap
    BY <1>2, <2>8 DEF TypeOK, Reap, clientVars, parentVars, signalVars
  <2>9. CASE HandlerReturns
    BY <1>2, <2>9 DEF TypeOK, HandlerReturns, clientVars, parentVars, childVars
  <2>10. ASSUME NEW k \in Conns, ChildStep(k) PROVE TypeOK'
    <3>1. /\ child' \in [Conns -> Running \cup {"none", "zombie", "reaped"}]
          /\ answered' \subseteq Conns
          /\ pending' \in BOOLEAN
      BY <1>2, <2>10 DEF TypeOK, ChildStep, ChildRecv, ChildWork, ChildSend, ChildExit,
                         ChildDies, Ends, Running, signalVars
    <3>2. UNCHANGED <<clientVars, parentVars, handler>>
      BY <2>10 DEF ChildStep, ChildRecv, ChildWork, ChildSend, ChildExit, ChildDies, Ends,
                   signalVars
    <3> QED BY <1>2, <3>1, <3>2 DEF TypeOK, clientVars, parentVars
  <2>11. CASE UNCHANGED vars
    BY <1>2, <2>11 DEF TypeOK, vars, clientVars, parentVars, childVars, signalVars
  <2> QED BY <1>2, <2>1, <2>2, <2>3, <2>4, <2>5, <2>6, <2>7, <2>8, <2>9, <2>10, <2>11
          DEF Next, ParentStep, HandlerStep
<1> QED BY <1>1, <1>2, PTL DEF Spec
=============================================================================
