------------------------------ MODULE DSocket -------------------------------
(***************************************************************************)
(* The driver sockets of hel/syscall.cpp and hel/dsocket.cpp on several    *)
(* CPUs.  A system call runs with interrupts off; CPUs interleave between  *)
(* its accesses to what they share: the list of sockets, the backlog of a  *)
(* listening socket, and the two buffers of a pair.  Handles are those of  *)
(* the CPU's idle thread, which get_current_thread returns on it, so that  *)
(* only the two ends of a pair are used from two CPUs.                     *)
(*                                                                         *)
(* Much of a socket is malloc'ed and not initialised.  A pointer read from *)
(* such a field is Stray or happens to be NULL; a CPU that follows a stray *)
(* pointer, or writes behind an array, leaves the behaviour open (`wild'). *)
(* Calls that return an error without changing anything are not actions.   *)
(***************************************************************************)
EXTENDS Integers, Sequences, FiniteSets, SequencesExt, FiniteSetsExt

CONSTANTS
    CPU,
    MaxSockets,     \* bound on the sockets ever made, the list head included
    MaxConn,        \* DSOCKET_CONN_MAX
    BufSize,        \* DSOCK_BUFF_SIZE
    MaxFds,         \* DEFAULT_FD_NUM
    Limits,         \* the lengths given to send and recv
    MaxBytes        \* bound on the bytes sent over a pair

ASSUME BoundsAssumption ==
    /\ MaxConn \in Nat \ {0} /\ BufSize \in Nat \ {0} /\ MaxFds \in Nat
    /\ MaxBytes \in Nat /\ Limits \subseteq 1 .. MaxBytes

NULL == 0
Stray == -1
HEAD == 1               \* driver_sockets

VARIABLES
    sock,   \* the sockets in the order they were made
    pair,   \* the pairs in the order they were made
    fds,    \* fds[c]: the handles, each a socket and the table of operations
    pc,     \* pc[c]: where CPU c stands
    loc,    \* loc[c]: the locals of its call
    wild,   \* some CPU has followed a stray pointer
    crossed,    \* two CPUs have appended to the list at the same time
    raced,  \* the buffers used by a send and a recv at the same time
    got     \* got[p][e]: what the reader of buffer e of pair p received

vars == <<sock, pair, fds, pc, loc, wild, crossed, raced, got>>

Ends == {"server", "client"}    \* server_buffer and client_buffer

Fresh(next) ==
    [next |-> next, state |-> "disconnected", curr |-> Stray,
     max |-> Stray, backlog |-> [i \in 0 .. MaxConn - 1 |-> Stray], pair |-> NULL]

NoCall == [s |-> NULL, d |-> NULL, p |-> NULL, i |-> 0, op |-> "unset", e |-> "server", n |-> 0]

At(c, place) == ~wild /\ pc[c] = place
Go(c, place) == pc' = [pc EXCEPT ![c] = place]
GoWild(c) ==
    /\ wild' = TRUE
    /\ UNCHANGED <<sock, pair, fds, pc, loc, crossed, raced, got>>

-----------------------------------------------------------------------------
(* The list                                                                *)

(* Where a loop over the list stands after k rounds; it ends at NULL or    *)
(* follows a stray link.                                                   *)
Nth[k \in 0 .. Len(sock)] ==
    IF k = 0 THEN HEAD
    ELSE LET d == Nth[k - 1] IN IF d \in {NULL, Stray} THEN d ELSE sock[d].next

List == {Nth[k] : k \in 0 .. Len(sock)} \ {NULL}

(* Slip: the new socket is put behind the head.                            *)
FindHead(c) ==
    /\ At(c, "append")
    /\ loc' = [loc EXCEPT ![c].d = HEAD]
    /\ Go(c, "link")
    /\ UNCHANGED <<sock, pair, fds, wild, crossed, raced, got>>

FindTail(c) ==
    /\ At(c, "append")
    /\ IF Stray \in List THEN GoWild(c)
       ELSE \E d \in List :
               /\ sock[d].next = NULL
               /\ loc' = [loc EXCEPT ![c].d = d]
               /\ Go(c, "link")
               /\ UNCHANGED <<sock, pair, fds, wild, crossed, raced, got>>

(* d->next is written, then add_fd_info looks for a free handle; without   *)
(* one the socket stays without a handle.                                  *)
Link(c) ==
    LET l == loc[c]
    IN  /\ At(c, "link")
        /\ sock' = [sock EXCEPT ![l.d].next = l.s]
        /\ crossed' = (crossed \/ \E x \in CPU \ {c} : pc[x] = "link")
        /\ fds' = IF Len(fds[c]) = MaxFds THEN fds
                  ELSE [fds EXCEPT ![c] = Append(@, [s |-> l.s, op |-> l.op])]
        /\ loc' = [loc EXCEPT ![c] = NoCall]
        /\ Go(c, "user")
        /\ UNCHANGED <<pair, wild, raced, got>>

(* next and bind_addr keep what the heap left there: k_driver_bind, which  *)
(* would set bind_addr, is not among the system calls of syscall_handler.  *)
k_driver_cskt(c) ==
    /\ At(c, "user") /\ Len(sock) < MaxSockets
    /\ \E next \in {NULL, Stray} : sock' = Append(sock, Fresh(next))
    /\ loc' = [loc EXCEPT ![c].s = Len(sock) + 1]
    /\ Go(c, "append")
    /\ UNCHANGED <<pair, fds, wild, crossed, raced, got>>

-----------------------------------------------------------------------------
(* Listening and connecting                                                *)

k_driver_listen(c) ==
    \E h \in ToSet(fds[c]) :
        /\ At(c, "user")
        /\ sock' = [sock EXCEPT ![h.s].state = "listening"]
        /\ loc' = [loc EXCEPT ![c].s = h.s]
        /\ Go(c, "reset")
        /\ UNCHANGED <<pair, fds, wild, crossed, raced, got>>

(* conn_curr is 0 before the new backlog is there: a connect in between    *)
(* stores its pair into the old one, which is then forgotten.              *)
ResetCurr(c) ==
    /\ At(c, "reset")
    /\ sock' = [sock EXCEPT ![loc[c].s].curr = 0]
    /\ Go(c, "backlog")
    /\ UNCHANGED <<pair, fds, loc, wild, crossed, raced, got>>

NewBacklog(c) ==
    /\ At(c, "backlog")
    /\ sock' = [sock EXCEPT ![loc[c].s].max = MaxConn,
                            ![loc[c].s].backlog = [i \in 0 .. MaxConn - 1 |-> Stray]]
    /\ loc' = [loc EXCEPT ![c] = NoCall]
    /\ Go(c, "user")
    /\ UNCHANGED <<pair, fds, wild, crossed, raced, got>>

(* The loop passes the sockets whose bind_addr begins with the path and    *)
(* stops at the first other one.  Nothing sets the bytes of bind_addr, so  *)
(* that any element of the list may be that one.  The head's bind_addr is  *)
(* NULL: unless the address space has a page there, the first comparison   *)
(* faults and the CPU stops in the exception handler.                      *)
k_driver_connect(c) ==
    \E h \in ToSet(fds[c]) :
        /\ At(c, "user") /\ sock[h.s].pair = NULL
        /\ \/ Go(c, "halted") /\ UNCHANGED <<sock, pair, fds, loc, wild, crossed, raced, got>>
           \/ Stray \in List /\ GoWild(c)
           \/ \E d \in List \ {Stray} :
                 /\ sock[d].state = "listening"
                 /\ loc' = [loc EXCEPT ![c].s = h.s, ![c].d = d]
                 /\ Go(c, "push")
                 /\ UNCHANGED <<sock, pair, fds, wild, crossed, raced, got>>

NewPair ==
    [connected |-> FALSE, ready |-> FALSE,
     bytes |-> [e \in Ends |-> [i \in 0 .. BufSize - 1 |-> Stray]],
     pos |-> [e \in Ends |-> 0], sent |-> [e \in Ends |-> 0]]

(* d->backlog[d->conn_curr++] = pair in three accesses.                    *)
ReadCurr(c) ==
    /\ At(c, "push")
    /\ IF sock[loc[c].d].curr = Stray THEN GoWild(c)
       ELSE /\ pair' = Append(pair, NewPair)
            /\ got' = Append(got, [e \in Ends |-> <<>>])
            /\ loc' = [loc EXCEPT ![c].p = Len(pair) + 1, ![c].i = sock[loc[c].d].curr]
            /\ Go(c, "curr")
            /\ UNCHANGED <<sock, fds, wild, crossed, raced>>

WriteCurr(c) ==
    /\ At(c, "curr")
    /\ sock' = [sock EXCEPT ![loc[c].d].curr = loc[c].i + 1]
    /\ Go(c, "store")
    /\ UNCHANGED <<pair, fds, loc, wild, crossed, raced, got>>

(* The index is not compared with conn_max.  On the first listen there is  *)
(* no old backlog: the pointer is stray.                                   *)
StorePair(c) ==
    LET l == loc[c]
    IN  /\ At(c, "store")
        /\ IF l.i >= MaxConn \/ sock[l.d].max = Stray THEN GoWild(c)
           ELSE /\ sock' = [sock EXCEPT ![l.d].backlog[l.i] = l.p, ![l.s].pair = l.p]
                /\ Go(c, "wait")
                /\ UNCHANGED <<pair, fds, loc, wild, crossed, raced, got>>

(* The loop around arch::yield.                                            *)
Connected(c) ==
    LET l == loc[c]
    IN  /\ At(c, "wait") /\ pair[l.p].connected
        /\ sock' = [sock EXCEPT ![l.s].state = "connected"]
        /\ fds' = [fds EXCEPT ![c] =
                     [k \in DOMAIN @ |-> IF @[k].s = l.s THEN [@[k] EXCEPT !.op = "normal"] ELSE @[k]]]
        /\ loc' = [loc EXCEPT ![c] = NoCall]
        /\ Go(c, "user")
        /\ UNCHANGED <<pair, wild, crossed, raced, got>>

-----------------------------------------------------------------------------
(* Accepting                                                               *)

(* The call waits while conn_curr is 0.                                    *)
k_driver_accept(c) ==
    \E h \in ToSet(fds[c]) :
        LET d == sock[h.s]
            p == d.backlog[0]
        IN  /\ At(c, "user") /\ d.curr # 0
            /\ IF d.curr = Stray \/ p \in {NULL, Stray} THEN GoWild(c)
               ELSE /\ loc' = [loc EXCEPT ![c].s = h.s, ![c].p = p]
                    /\ Go(c, "buffers")
                    /\ UNCHANGED <<sock, pair, fds, wild, crossed, raced, got>>

(* Slip: connected is set before the buffers are there.                    *)
BuffersLate(c) ==
    /\ At(c, "buffers")
    /\ pair' = [pair EXCEPT ![loc[c].p].connected = TRUE]
    /\ Go(c, "mark")
    /\ UNCHANGED <<sock, fds, loc, wild, crossed, raced, got>>

NewBuffers(c) ==
    /\ At(c, "buffers")
    /\ pair' = [pair EXCEPT ![loc[c].p].ready = TRUE, ![loc[c].p].pos = [e \in Ends |-> 0]]
    /\ Go(c, "mark")
    /\ UNCHANGED <<sock, fds, loc, wild, crossed, raced, got>>

MarkConnected(c) ==
    /\ At(c, "mark")
    /\ pair' = [pair EXCEPT ![loc[c].p].connected = TRUE]
    /\ Go(c, "shift")
    /\ UNCHANGED <<sock, fds, loc, wild, crossed, raced, got>>

(* backlog[0] = NULL, then memmove of max - 1 entries to the front.        *)
Shifted(backlog, max) ==
    [i \in DOMAIN backlog |-> IF i < max - 1 THEN backlog[i + 1]
                              ELSE IF i = 0 THEN NULL ELSE backlog[i]]

(* conn_max is decremented where conn_curr was meant.  When it is 0, which *)
(* takes more than MaxConn connects that read conn_curr before one of them *)
(* writes it, the length of the memmove wraps.  The new socket gets the    *)
(* pair.  The move is one step: a StorePair in the middle of it is the     *)
(* same as one before or after it, or loses its pair.                      *)
TakeFirst(c) ==
    LET l == loc[c]
        d == sock[l.s]
    IN  /\ At(c, "shift") /\ Len(sock) < MaxSockets
        /\ IF d.max < 1 THEN GoWild(c)
           ELSE /\ \E next \in {NULL, Stray} :
                      sock' = Append([sock EXCEPT ![l.s].backlog = Shifted(d.backlog, d.max),
                                                  ![l.s].max = d.max - 1,
                                                  ![l.s].state = "disconnected"],
                                     [Fresh(next) EXCEPT !.pair = l.p, !.state = "connected"])
                /\ loc' = [loc EXCEPT ![c] = [NoCall EXCEPT !.s = Len(sock) + 1, !.op = "accept"]]
                /\ Go(c, "append")
                /\ UNCHANGED <<pair, fds, wild, crossed, raced, got>>

-----------------------------------------------------------------------------
(* Sending and receiving                                                   *)

(* normal_ops send to the server's buffer and receive from the client's,   *)
(* accept_ops the other way round.                                         *)
SendsTo(h) == IF h.op = "normal" THEN "server" ELSE "client"
RecvsFrom(h) == IF h.op = "normal" THEN "client" ELSE "server"

(* Another CPU is inside a send or a recv on this buffer.                  *)
Busy(c, p, e) == \E x \in CPU \ {c} : pc[x] \in {"sent", "copied"}
                                        /\ loc[x].p = p /\ loc[x].e = e
Note(c, p, e) == raced' = IF Busy(c, p, e) THEN raced \cup {<<p, e>>} ELSE raced

(* The bytes are numbered in the order they are sent.                      *)
k_driver_send(c, n) ==
    \E h \in ToSet(fds[c]) :
        LET p   == sock[h.s].pair
            e   == SendsTo(h)
            pos == pair[p].pos[e]
            k   == pair[p].sent[e]
        IN  /\ At(c, "user")
            /\ IF h.op = "unset" THEN GoWild(c)
               ELSE /\ pair[p].sent["server"] + pair[p].sent["client"] + n <= MaxBytes
                    /\ IF pos + n > BufSize THEN GoWild(c)
                       ELSE /\ pair' = [pair EXCEPT ![p].sent[e] = k + n,
                                  ![p].bytes[e] = [i \in 0 .. BufSize - 1 |->
                                     IF i \in pos .. pos + n - 1 THEN k + 1 + i - pos ELSE @[i]]]
                            /\ loc' = [loc EXCEPT ![c] = [NoCall EXCEPT !.p = p, !.e = e, !.n = n]]
                            /\ Go(c, "sent")
                            /\ Note(c, p, e)
                            /\ UNCHANGED <<sock, fds, wild, crossed, got>>

(* The position is read once more.                                         *)
SendDone(c) ==
    LET l == loc[c]
    IN  /\ At(c, "sent")
        /\ pair' = [pair EXCEPT ![l.p].pos[l.e] = @ + l.n]
        /\ loc' = [loc EXCEPT ![c] = NoCall]
        /\ Go(c, "user")
        /\ Note(c, l.p, l.e)
        /\ UNCHANGED <<sock, fds, wild, crossed, got>>

k_driver_recv(c, limit) ==
    \E h \in ToSet(fds[c]) :
        LET p == sock[h.s].pair
            e == RecvsFrom(h)
            n == Min({limit, pair[p].pos[e]})
        IN  /\ At(c, "user")
            /\ IF h.op = "unset" THEN GoWild(c)
               ELSE /\ got' = [got EXCEPT ![p][e] = @ \o [i \in 1 .. n |-> pair[p].bytes[e][i - 1]]]
                    /\ loc' = [loc EXCEPT ![c] = [NoCall EXCEPT !.p = p, !.e = e, !.n = n]]
                    /\ Go(c, "copied")
                    /\ Note(c, p, e)
                    /\ UNCHANGED <<sock, pair, fds, wild, crossed>>

(* Byte after byte at the given offsets: what memmove does, forwards for a *)
(* source behind its destination.                                          *)
CopyBytes(bytes, from, offsets) ==
    LET Copied[k \in 0 .. Len(offsets)] ==
            IF k = 0 THEN bytes
            ELSE LET cur == Copied[k - 1]
                     i   == offsets[k]
                 IN  [cur EXCEPT ![i] = cur[i + from]]
    IN  Copied[Len(offsets)]

(* Slip: the overlapping bytes are moved backwards.                        *)
MoveBackwards(bytes, from, count) == CopyBytes(bytes, from, [i \in 1 .. count |-> count - i])

memmove(bytes, from, count) == CopyBytes(bytes, from, [i \in 1 .. count |-> i - 1])

(* The rest moves to the front and the position is reduced.  Of buffers on *)
(* which calls overlap nothing is claimed, so these are not told apart.    *)
RecvDone(c) ==
    LET l == loc[c]
    IN  /\ At(c, "copied")
        /\ pair' = [pair EXCEPT ![l.p].bytes[l.e] = memmove(@, l.n, pair[l.p].pos[l.e] - l.n),
                                ![l.p].pos[l.e] = @ - l.n]
        /\ loc' = [loc EXCEPT ![c] = NoCall]
        /\ Go(c, "user")
        /\ Note(c, l.p, l.e)
        /\ UNCHANGED <<sock, fds, wild, crossed, got>>

-----------------------------------------------------------------------------
Init ==
    /\ sock = <<Fresh(NULL)>>
    /\ pair = <<>>
    /\ fds = [c \in CPU |-> <<>>]
    /\ pc = [c \in CPU |-> "user"]
    /\ loc = [c \in CPU |-> NoCall]
    /\ wild = FALSE
    /\ crossed = FALSE
    /\ raced = {}
    /\ got = <<>>

Next ==
    \E c \in CPU :
        \/ k_driver_cskt(c) \/ FindTail(c) \/ Link(c)
        \/ k_driver_listen(c) \/ ResetCurr(c) \/ NewBacklog(c)
        \/ k_driver_connect(c) \/ ReadCurr(c) \/ WriteCurr(c) \/ StorePair(c) \/ Connected(c)
        \/ k_driver_accept(c) \/ NewBuffers(c) \/ MarkConnected(c) \/ TakeFirst(c)
        \/ \E n \in Limits : k_driver_send(c, n) \/ k_driver_recv(c, n)
        \/ SendDone(c) \/ RecvDone(c)

Spec == Init /\ [][Next]_vars

-----------------------------------------------------------------------------
(* Properties.  They are claimed as long as no stray pointer was followed. *)

Handles == CPU \X (1 .. MaxFds)
Open == {x \in Handles : x[2] \in DOMAIN fds[x[1]] /\ fds[x[1]][x[2]].op # "unset"}
PairOf(x) == sock[fds[x[1]][x[2]].s].pair
OpOf(x) == fds[x[1]][x[2]].op

(* A handle on which send and recv work leads to a pair that was accepted, *)
(* whose buffers exist, and that no other handle has for the same end: the *)
(* connecting CPU does not leave its loop too early, and a queued pair is  *)
(* accepted once.                                                          *)
ConnectionsReady ==
    ~wild => \A x \in Open :
        /\ PairOf(x) # NULL /\ pair[PairOf(x)].connected /\ pair[PairOf(x)].ready
        /\ \A y \in Open \ {x} : PairOf(y) = PairOf(x) => OpOf(y) # OpOf(x)

(* What was received, followed by what is still in the buffer, is what was *)
(* sent, in order, as long as a send and a recv on the buffer never        *)
(* overlapped; a call in progress has yet to advance the position.         *)
StreamsOrdered ==
    ~wild => \A p \in DOMAIN pair, e \in Ends :
        LET idle == \A c \in CPU : loc[c].p = p /\ loc[c].e = e =>
                        pc[c] \notin {"sent", "copied"}
            q    == pair[p]
        IN  (<<p, e>> \notin raced /\ idle) =>
                got[p][e] \o [i \in 1 .. q.pos[e] |-> q.bytes[e][i - 1]]
                    = [i \in 1 .. q.sent[e] |-> i]

(* A socket that has a handle can be found from driver_sockets, unless two *)
(* CPUs appended at the same time; a loop over the list ends, at the last  *)
(* socket or at a link that was never set.                                 *)
SocketsListed ==
    (~wild /\ ~crossed) =>
        /\ \A c \in CPU : \A h \in ToSet(fds[c]) : h.s \in List
        /\ Nth[Len(sock)] \in {NULL, Stray}
=============================================================================
