--------------------------- MODULE ModemdClients ----------------------------
(***************************************************************************)
(* The socket clients of modemd (apps/modemd): the accept thread enters    *)
(* connections into client_fd, and the detector threads of the modems      *)
(* inform every client in it (loop_info_sockclients), close the            *)
(* connections that fail and free their slots.  Nothing protects the       *)
(* table.  The kernel gives a new connection the smallest free descriptor. *)
(***************************************************************************)
EXTENDS Integers, FiniteSets

CONSTANTS Threads,          \* the detector threads
          MAX_CLIENT_NUM,
          Clients,          \* the clients, each of which connects once
          MaxFd             \* bound on the descriptors

Slots == 0..(MAX_CLIENT_NUM - 1)
Fds == 0..MaxFd
NoClient == "none"

VARIABLES client_fd,
          conn,             \* the client at the other end of each descriptor
          peer,             \* the clients: new, connected, or gone
          n, i,             \* the accept thread's locals; n = -1: in accept()
          pc, slot,         \* the detector threads, and their loop variable
          due, informed     \* history: whom a thread must inform, and has
vars == <<client_fd, conn, peer, n, i, pc, slot, due, informed>>
accepting == <<n, i>>
informing == <<pc, slot, due, informed>>

Init ==
    /\ client_fd = [s \in Slots |-> -1] /\ conn = [f \in Fds |-> NoClient]
    /\ peer = [c \in Clients |-> "new"] /\ n = -1 /\ i = 0
    /\ pc = [t \in Threads |-> "idle"] /\ slot = [t \in Threads |-> 0]
    /\ due = [t \in Threads |-> {}] /\ informed = [t \in Threads |-> {}]

-----------------------------------------------------------------------------
(* modemd_listenaccept_thread *)

FreeFds == {f \in Fds : conn[f] = NoClient}

Accept(c) ==
    /\ n = -1 /\ peer[c] = "new" /\ FreeFds # {}
    /\ n' = CHOOSE f \in FreeFds : \A g \in FreeFds : f <= g
    /\ conn' = [conn EXCEPT ![n'] = c] /\ peer' = [peer EXCEPT ![c] = "connected"]
    /\ i' = 0 /\ UNCHANGED <<client_fd, informing>>

\* One turn of the loop; the last slot takes the connection in any case.
Enter ==
    /\ n # -1
    /\ IF client_fd[i] = -1 \/ i = MAX_CLIENT_NUM - 1
         THEN client_fd' = [client_fd EXCEPT ![i] = n] /\ n' = -1 /\ i' = 0
         ELSE i' = i + 1 /\ UNCHANGED <<client_fd, n>>
    /\ UNCHANGED <<conn, peer, informing>>

-----------------------------------------------------------------------------
(* loop_info_sockclients *)

\* The clients that are connected, as they see it; all are entered when the
\* accept thread waits.
Connected == {c \in Clients : peer[c] = "connected"}
Entered == IF n = -1 THEN Connected ELSE {}

Goto(t, l) == pc' = [pc EXCEPT ![t] = l]

\* On to the next slot; after the last the thread returns.
NextSlot(t) ==
    IF slot[t] = MAX_CLIENT_NUM - 1
      THEN Goto(t, "done") /\ slot' = [slot EXCEPT ![t] = 0]
      ELSE Goto(t, "test") /\ slot' = [slot EXCEPT ![t] = @ + 1]

Begin(t) ==
    /\ pc[t] = "idle" /\ Goto(t, "test")
    /\ due' = [due EXCEPT ![t] = Entered] /\ informed' = [informed EXCEPT ![t] = {}]
    /\ UNCHANGED <<client_fd, conn, peer, accepting, slot>>

Test(t) ==
    /\ pc[t] = "test"
    /\ IF client_fd[slot[t]] >= 0 THEN Goto(t, "write") /\ UNCHANGED slot ELSE NextSlot(t)
    /\ UNCHANGED <<client_fd, conn, peer, accepting, due, informed>>

\* The client that a write to the slot's descriptor reaches, if any.
Reached(t) ==
    LET f == client_fd[slot[t]]
    IN  IF f = -1 \/ conn[f] = NoClient THEN {} ELSE {c \in {conn[f]} : peer[c] = "connected"}

WriteOnce(t) ==
    /\ pc[t] = "write" /\ informed' = [informed EXCEPT ![t] = @ \cup Reached(t)]
    /\ Goto(t, IF Reached(t) # {} THEN "done" ELSE "close")
    /\ slot' = IF Reached(t) # {} THEN [slot EXCEPT ![t] = 0] ELSE slot
    /\ UNCHANGED <<client_fd, conn, peer, accepting, due>>

Write(t) ==
    /\ pc[t] = "write" /\ informed' = [informed EXCEPT ![t] = @ \cup Reached(t)]
    /\ IF Reached(t) # {} THEN NextSlot(t) ELSE Goto(t, "close") /\ UNCHANGED slot
    /\ UNCHANGED <<client_fd, conn, peer, accepting, due>>

Close(t) ==
    /\ pc[t] = "close" /\ Goto(t, "reset")
    /\ conn' = IF client_fd[slot[t]] = -1 THEN conn
               ELSE [conn EXCEPT ![client_fd[slot[t]]] = NoClient]
    /\ UNCHANGED <<client_fd, peer, accepting, slot, due, informed>>

Reset(t) ==
    /\ pc[t] = "reset" /\ client_fd' = [client_fd EXCEPT ![slot[t]] = -1] /\ NextSlot(t)
    /\ UNCHANGED <<conn, peer, accepting, due, informed>>

Return(t) ==
    /\ pc[t] = "done" /\ Goto(t, "idle")
    /\ due' = [due EXCEPT ![t] = {}] /\ informed' = [informed EXCEPT ![t] = {}]
    /\ UNCHANGED <<client_fd, conn, peer, accepting, slot>>

Inform(t) == Begin(t) \/ Test(t) \/ Write(t) \/ Close(t) \/ Reset(t) \/ Return(t)

-----------------------------------------------------------------------------

HangUp(c) ==
    /\ peer[c] = "connected" /\ peer' = [peer EXCEPT ![c] = "gone"]
    /\ UNCHANGED <<client_fd, conn, accepting, informing>>

Next ==
    \/ \E c \in Clients : Accept(c) \/ HangUp(c)
    \/ Enter
    \/ \E t \in Threads : Inform(t)

Spec == Init /\ [][Next]_vars

-----------------------------------------------------------------------------
(* Properties *)

\* Clients that are connected stay in the table, unless more are than it holds,
\* although descriptors are reused and slots freed while others are entered.
Registered == {c \in Clients : \E s \in Slots : client_fd[s] # -1 /\ conn[client_fd[s]] = c}
Kept == Entered \subseteq Registered

\* A call informs every client that had been entered when it began and is still
\* connected: "info socket clients that modem is assert/hangup/blocked".
AllInformed == \A t \in Threads : pc[t] = "done" => due[t] \cap Connected \subseteq informed[t]
=============================================================================
