------------------------------- MODULE TcpLink -------------------------------
(***************************************************************************)
(* The connections of tcpclient.c and tcpserver.c: two handles to control  *)
(* blocks (pcbs) that lwIP keeps in a pool, moves through the states of    *)
(* TCP and frees by itself.  The callbacks run inside Network_Handle, with *)
(* the scheduler locked; tcpclient_period runs in the system task, which   *)
(* the network task cannot interrupt.  So every action is one event.       *)
(*                                                                         *)
(* FIN_WAIT stands for FIN_WAIT_1 and FIN_WAIT_2.  A freed pcb keeps its   *)
(* content until it is allocated again.  Which connection is the oldest,   *)
(* that tcp_alloc kills for room, is left open.  The data, and the windows *)
(* and counters of a pcb, are left out.                                    *)
(***************************************************************************)
EXTENDS Integers, Sequences, SequencesExt

CONSTANTS N,        \* MEMP_NUM_TCP_PCB
          Passes,   \* calls of tcp_slowtmr within the 3 s of tcpclient_period
          MaxFails  \* bound: calls of tcp_connect and tcp_close that find no memory

ASSUME TcpLinkAssumption ==
    /\ {N, Passes} \subseteq Nat \ {0}
    /\ MaxFails \in Nat

Pcbs == 1..N   \* the pool MEMP_TCP_PCB
NULL == 0

VARIABLES
    lw,      \* lwIP: the lists of pcbs and what each pcb holds
    todo,    \* active pcbs that tcp_slowtmr has still to look at
    s_tcpclient_pcb, g_tcpaccept_pcb,
    s_iNeedReconnectTcp,
    age,     \* calls of tcp_slowtmr since s_dwTcpClientReinitTmr was set
    \* history and bound
    dangling,  \* the handles whose pcb was freed since they were set
    bogus,     \* tcp_close was called through a handle of a freed pcb
    misled,    \* an older connection asked for the reconnection that is due
    forgotten, \* the request was taken back while there was no connection
    fails

handles == <<s_tcpclient_pcb, g_tcpaccept_pcb>>
request == <<s_iNeedReconnectTcp, misled, forgotten>>
vars == <<lw, todo, handles, request, age, dangling, bogus, fails>>

States == {"CLOSED", "SYN_SENT", "SYN_RCVD", "ESTABLISHED", "FIN_WAIT",
           "CLOSE_WAIT", "CLOSING", "LAST_ACK", "TIME_WAIT"}

TypeOK ==
    /\ lw \in [free : Seq(Pcbs), active : Seq(Pcbs), tw : SUBSET Pcbs, bound : SUBSET Pcbs,
               state : [Pcbs -> States], owner : [Pcbs -> {"none", "client", "server"}]]
    /\ todo \in Seq(Pcbs)
    /\ {s_tcpclient_pcb, g_tcpaccept_pcb} \subseteq Pcbs \cup {NULL}
    /\ {s_iNeedReconnectTcp, misled, forgotten, bogus} \subseteq BOOLEAN
    /\ age \in 0..Passes /\ dangling \subseteq {"client", "server"}
    /\ fails \in 0..MaxFails

\* tcpclient_init has sent its SYN and tcpserver_init listens.
Init ==
    /\ lw = [free |-> [i \in 1..(N - 1) |-> i + 1], active |-> <<1>>, tw |-> {}, bound |-> {},
             state |-> [p \in Pcbs |-> IF p = 1 THEN "SYN_SENT" ELSE "CLOSED"],
             owner |-> [p \in Pcbs |-> IF p = 1 THEN "client" ELSE "none"]]
    /\ s_tcpclient_pcb = 1 /\ g_tcpaccept_pcb = NULL
    /\ todo = <<>> /\ s_iNeedReconnectTcp = FALSE /\ age = Passes
    /\ dangling = {} /\ bogus = FALSE /\ misled = FALSE /\ forgotten = FALSE
    /\ fails = 0

-----------------------------------------------------------------------------
(* lwIP: each operator gives the lists and pcbs after a call.              *)

\* TCP_RMV takes the first pcb of a list that is p out of it.
Without(s, p) ==
    IF p \in ToSet(s) THEN RemoveAt(s, CHOOSE i \in DOMAIN s : s[i] = p) ELSE s

Moved(m, p, s) == [m EXCEPT !.state[p] = s]

\* memp_free: the pool is a stack.  What a freed pcb holds is read again only
\* through a handle that still points to it.
Freed(m, p) ==
    [m EXCEPT !.free = <<p>> \o @, !.active = Without(@, p), !.tw = @ \ {p}, !.bound = @ \ {p},
              !.state[p] = IF p = g_tcpaccept_pcb THEN @ ELSE "CLOSED",
              !.owner[p] = "none"]

\* tcp_pcb_remove and memp_free.
Removed(m, p) == Freed(Moved(m, p, "CLOSED"), p)

TimeWait(m, p) ==
    [Moved(m, p, "TIME_WAIT") EXCEPT !.active = Without(@, p), !.tw = @ \cup {p}]

Closed(m, p) ==
    CASE m.state[p] = "CLOSED" -> Freed(m, p)
      [] m.state[p] = "SYN_SENT" -> Removed(m, p)
      [] m.state[p] \in {"SYN_RCVD", "ESTABLISHED"} -> Moved(m, p, "FIN_WAIT")
      [] m.state[p] = "CLOSE_WAIT" -> Moved(m, p, "LAST_ACK")
      [] OTHER -> m

\* tcp_close can find no memory for the FIN, and then changes nothing.
tcp_close(m, p, n) ==
    \/ n = Closed(m, p) /\ UNCHANGED fails
    \/ /\ fails < MaxFails /\ fails' = fails + 1
       /\ m.state[p] \in {"SYN_RCVD", "ESTABLISHED", "CLOSE_WAIT"} /\ n = m

\* The pcbs tcp_alloc can return: the first of the pool or, if that is empty, one
\* that it kills, if possible in TIME_WAIT.
Candidates ==
    IF lw.free # <<>> THEN {Head(lw.free)}
    ELSE IF lw.tw # {} THEN lw.tw ELSE ToSet(lw.active)

Killed(p) == lw.free = <<>>

\* tcp_alloc clears the pcb.
Allocated(p, s, o) ==
    [lw EXCEPT !.free = Without(@, p), !.active = Without(@, p), !.tw = @ \ {p},
               !.state[p] = s, !.owner[p] = o]

-----------------------------------------------------------------------------
(* The callbacks                                                           *)

Alive(m, p) == p \in ToSet(m.active) /\ m.state[p] \in {"SYN_SENT", "ESTABLISHED"}
Link == "client" \notin dangling /\ s_tcpclient_pcb # NULL /\ Alive(lw, s_tcpclient_pcb)

\* The handles that point to one of the pcbs ps.
Handles(ps) ==
    {h \in {"client", "server"} :
        (IF h = "client" THEN s_tcpclient_pcb ELSE g_tcpaccept_pcb) \in ps}

Frees(ps) == dangling' = dangling \cup Handles(ps)

Undisturbed == UNCHANGED request

\* s_iNeedReconnectTcp = 1, in a callback for p.
Asks(p) ==
    /\ s_iNeedReconnectTcp' = TRUE
    /\ misled' = (misled \/ (p # s_tcpclient_pcb /\ Link))
    /\ UNCHANGED forgotten

\* s_iNeedReconnectTcp = 0
Withdraws ==
    /\ s_iNeedReconnectTcp' = FALSE /\ misled' = FALSE
    /\ forgotten' = (forgotten \/ (s_iNeedReconnectTcp /\ ~Link))

\* Mutant: the error of a connection does not ask for another one.
conn_err_NoRequest(p) == Undisturbed

\* tcpclient_conn_err; tcpserver_conn_err changes nothing.
conn_err(p) == IF lw.owner[p] = "client" THEN Asks(p) ELSE Undisturbed

\* tcpclient_recv and tcpserver_recv with no data.  The abort in TIME_WAIT calls
\* no error callback.
recv_null(m, p) ==
    /\ CASE m.state[p] = "CLOSE_WAIT" -> tcp_close(m, p, lw') /\ UNCHANGED dangling
         [] m.state[p] = "TIME_WAIT" -> lw' = Freed(m, p) /\ Frees({p}) /\ UNCHANGED fails
         [] OTHER -> lw' = m /\ UNCHANGED <<dangling, fails>>
    /\ IF m.owner[p] = "client" THEN Asks(p) ELSE Undisturbed

\* tcpclient_poll and tcpserver_poll.  That of the client drops the request for
\* a connection, whichever pcb is polled.
poll(p) ==
    /\ IF lw.state[p] = "CLOSE_WAIT" THEN tcp_close(lw, p, lw') ELSE lw' = lw /\ UNCHANGED fails
    /\ IF lw.owner[p] = "client"
       THEN Withdraws ELSE Undisturbed

-----------------------------------------------------------------------------
(* tcp_input, with the callbacks it makes.  What comes after a tcp_close of *)
(* a freed pcb, which may loop the pool, is not followed.                  *)

Input == ~bogus /\ todo = <<>>

Syn ==
    /\ Input
    /\ \E p \in Candidates :
          /\ lw' = [Allocated(p, "SYN_RCVD", "none") EXCEPT !.active = <<p>> \o @]
          /\ IF Killed(p) /\ lw.state[p] # "TIME_WAIT" THEN conn_err(p) ELSE Undisturbed
          /\ IF Killed(p) THEN Frees({p}) ELSE UNCHANGED dangling
    /\ UNCHANGED <<todo, handles, age, bogus, fails>>

\* tcp_client_connect
Connected(p) ==
    /\ Input /\ lw.state[p] = "SYN_SENT"
    /\ lw' = Moved(lw, p, "ESTABLISHED")
    /\ Withdraws
    /\ UNCHANGED <<todo, handles, age, dangling, bogus, fails>>

\* Mutant: the connection that is replaced is not closed.
AcceptedBeside(p) ==
    /\ Input /\ lw.state[p] = "SYN_RCVD"
    /\ lw' = [Moved(lw, p, "ESTABLISHED") EXCEPT !.owner[p] = "server"]
    /\ g_tcpaccept_pcb' = p /\ dangling' = dangling \ {"server"}
    /\ UNCHANGED <<todo, s_tcpclient_pcb, request, age, bogus, fails>>

\* tcpserver_accept: the handle's pcb is closed whatever has become of it, and
\* can be the very pcb of the new connection.
Accepted(p) ==
    /\ Input /\ lw.state[p] = "SYN_RCVD"
    /\ LET g == g_tcpaccept_pcb
           m == [Moved(lw, p, "ESTABLISHED") EXCEPT !.owner[p] = "server"]
       IN IF g = NULL
          THEN lw' = m /\ dangling' = dangling /\ UNCHANGED <<bogus, fails>>
          ELSE /\ tcp_close(m, g, lw')
               /\ bogus' = (bogus \/ "server" \in dangling)
               /\ dangling' = (dangling \cup
                     Handles(ToSet(lw'.free) \ ToSet(lw.free))) \ {"server"}
    /\ g_tcpaccept_pcb' = p
    /\ UNCHANGED <<todo, s_tcpclient_pcb, request, age>>

\* Data for a connection that is no longer the handle's has it aborted, by the
\* callback or, if it was closed here, by lwIP.
Data(p) ==
    /\ Input
    /\ \/ lw.state[p] = "ESTABLISHED" /\ p \notin {s_tcpclient_pcb, g_tcpaccept_pcb}
       \/ lw.state[p] = "FIN_WAIT"
    /\ lw' = Removed(lw, p) /\ Frees({p}) /\ conn_err(p)
    /\ UNCHANGED <<todo, handles, age, bogus, fails>>

Fin(p) ==
    /\ Input
    /\ \/ lw.state[p] = "ESTABLISHED" /\ recv_null(Moved(lw, p, "CLOSE_WAIT"), p)
       \/ lw.state[p] = "FIN_WAIT" /\ recv_null(Moved(lw, p, "CLOSING"), p)
       \/ lw.state[p] = "FIN_WAIT" /\ recv_null(TimeWait(lw, p), p)
    /\ UNCHANGED <<todo, handles, age, bogus>>

\* The last acknowledgement frees the pcb, and no callback tells of it.
FinAcked(p) ==
    /\ Input
    /\ \/ lw.state[p] = "CLOSING" /\ lw' = TimeWait(lw, p) /\ UNCHANGED dangling
       \/ lw.state[p] = "LAST_ACK" /\ lw' = Removed(lw, p) /\ Frees({p})
    /\ UNCHANGED <<todo, handles, request, age, bogus, fails>>

\* Mutant: the error callback closes the pcb, which lwIP frees after it.
RstClosed(p) ==
    /\ Input
    /\ lw' = Freed(Removed(lw, p), p) /\ Frees({p}) /\ conn_err(p)
    /\ UNCHANGED <<todo, handles, age, bogus, fails>>

Rst(p) ==
    /\ Input
    /\ lw' = Removed(lw, p) /\ Frees({p}) /\ conn_err(p)
    /\ UNCHANGED <<todo, handles, age, bogus, fails>>

tcp_input ==
    \/ Syn
    \/ \E p \in ToSet(lw.active) :
          Connected(p) \/ Accepted(p) \/ Data(p) \/ Fin(p) \/ FinAcked(p) \/ Rst(p)

-----------------------------------------------------------------------------
(* tcp_slowtmr: one step for each active pcb                               *)

SlowTimer ==
    /\ Input
    /\ todo' = lw.active
    /\ age' = IF age < Passes THEN age + 1 ELSE age
    /\ UNCHANGED <<lw, handles, request, dangling, bogus, fails>>

\* Every active state ends by some timeout; the pcb keeps its state.
Timeout(p) ==
    /\ lw' = Freed(lw, p) /\ Frees({p}) /\ conn_err(p)
    /\ UNCHANGED fails

Poll(p) == lw.owner[p] # "none" /\ poll(p) /\ UNCHANGED dangling

Skip(p) == lw.owner[p] = "none" /\ UNCHANGED <<lw, dangling, fails, request>>

SlowPcb ==
    /\ todo # <<>> /\ todo' = Tail(todo)
    /\ Timeout(Head(todo)) \/ Poll(Head(todo)) \/ Skip(Head(todo))
    /\ UNCHANGED <<handles, age, bogus>>

TimeWaitOver ==
    /\ Input
    /\ \E p \in lw.tw : lw' = Freed(lw, p) /\ Frees({p})
    /\ UNCHANGED <<todo, handles, request, age, bogus, fails>>

-----------------------------------------------------------------------------
(* tcpclient_period and tcpclient_reinit                                   *)

Connects(p) ==
    /\ lw' = [Allocated(p, "SYN_SENT", "client") EXCEPT !.active = <<p>> \o @]
    /\ UNCHANGED fails

\* tcp_connect finds no memory for the SYN: the pcb stays bound.
ConnectFails(p) ==
    /\ fails < MaxFails /\ fails' = fails + 1
    /\ lw' = [Allocated(p, "CLOSED", "client") EXCEPT !.bound = @ \cup {p}]

\* Mutant: the request is taken back before the connection is tried.
tcpclient_period_Once ==
    /\ Input /\ s_iNeedReconnectTcp /\ age = Passes
    /\ \E p \in Candidates :
          /\ Connects(p) \/ ConnectFails(p)
          /\ s_tcpclient_pcb' = p
          /\ dangling' = (dangling \cup
                (IF Killed(p) THEN Handles({p}) ELSE {})) \ {"client"}
    /\ age' = 0 /\ s_iNeedReconnectTcp' = FALSE /\ misled' = FALSE /\ forgotten' = FALSE
    /\ UNCHANGED <<todo, g_tcpaccept_pcb, bogus>>

\* Mutant: a connection is tried without looking whether it is due.
tcpclient_period_Always ==
    /\ Input /\ age = Passes
    /\ \E p \in Candidates :
          /\ Connects(p) \/ ConnectFails(p)
          /\ s_tcpclient_pcb' = p
          /\ dangling' = (dangling \cup
                (IF Killed(p) THEN Handles({p}) ELSE {})) \ {"client"}
    /\ age' = 0 /\ forgotten' = FALSE
    /\ UNCHANGED <<todo, g_tcpaccept_pcb, s_iNeedReconnectTcp, misled, bogus>>

\* The request stays until the connection stands or a poll takes it back.  The
\* result of tcp_new is not looked at: the model ends where it is NULL.
tcpclient_period ==
    /\ Input /\ s_iNeedReconnectTcp /\ age = Passes
    /\ \E p \in Candidates :
          /\ Connects(p) \/ ConnectFails(p)
          /\ s_tcpclient_pcb' = p
          /\ dangling' = (dangling \cup
                (IF Killed(p) THEN Handles({p}) ELSE {})) \ {"client"}
    /\ age' = 0 /\ forgotten' = FALSE
    /\ UNCHANGED <<todo, g_tcpaccept_pcb, s_iNeedReconnectTcp, misled, bogus>>

-----------------------------------------------------------------------------
Next == tcp_input \/ SlowTimer \/ SlowPcb \/ TimeWaitOver \/ tcpclient_period

\* tcp_slowtmr runs every 500 ms and to its end, and tcpclient_period in every
\* turn of the system task.
Spec ==
    /\ Init /\ [][Next]_vars
    /\ WF_vars(SlowTimer) /\ WF_vars(SlowPcb) /\ SF_vars(tcpclient_period)

-----------------------------------------------------------------------------
(* Properties                                                              *)

\* Until tcp_close was called through a handle of a freed pcb, every pcb is in
\* one list of lwIP, in a state that belongs there.
Lists == <<ToSet(lw.free), ToSet(lw.active), lw.tw, lw.bound>>

InOnePlace(p) == \E i \in 1..4 : \A j \in 1..4 : p \in Lists[j] <=> i = j

PoolIntact ==
    /\ TypeOK
    /\ ~bogus =>
          /\ IsInjective(lw.free) /\ IsInjective(lw.active) /\ \A p \in Pcbs : InOnePlace(p)
          /\ \A p \in ToSet(lw.active) : lw.state[p] \notin {"CLOSED", "TIME_WAIT"}
          /\ \A p \in lw.tw : lw.state[p] = "TIME_WAIT"

\* The server serves one connection: another one that was accepted before has
\* been closed or is gone, unless the close found no memory (tcpserver_accept).
ServesOne ==
    ~bogus /\ fails = 0 =>
        \A p \in ToSet(lw.active) :
            lw.owner[p] = "server" /\ lw.state[p] \in {"ESTABLISHED", "CLOSE_WAIT"} =>
                p = g_tcpaccept_pcb /\ "server" \notin dangling

\* While no reconnection is asked for, the client's handle is a connection of
\* its own that stands or is being made, so that tcpclient_send_data, which looks
\* at nothing but the state in the pcb, writes to it: every way to lose the
\* connection asks for another one, but for a poll that takes the request back.
LinkKnown ==
    ~s_iNeedReconnectTcp /\ ~forgotten /\ ~bogus =>
        Link /\ lw.owner[s_tcpclient_pcb] = "client"

\* A connection that stands or is being made is not given up for another, unless
\* the end of an older one was taken for its own.
LiveLinkKept ==
    [][s_tcpclient_pcb' # s_tcpclient_pcb /\ Link => misled]_vars

\* A lost connection is tried again, unless a poll took the request back.
LostLinkRetried == ~Link ~> Link \/ forgotten \/ bogus

\* The comment at tcp.c:197: tcp_close is never called for a pcb that has been
\* freed.
NoBogusHandle == ~bogus

=============================================================================
