--------------------------- MODULE DSocketProofs ----------------------------
(***************************************************************************)
(* Driver sockets on any number of CPUs: a handle on which send and recv   *)
(* work has an accepted pair with buffers, alone at its end; the list has  *)
(* every socket with a handle and ends; a stream arrives in order.         *)
(***************************************************************************)
EXTENDS DSocket, Recursion, FiniteSetTheorems, TLAPS

(* The invariant needs no property of the list: wherever a walk ends, what *)
(* is written there is the link of an existing socket, or nothing.         *)

Ops == {"unset", "normal", "accept"}

(* The fields of a socket that matter are there.                           *)
IsSocket(x) ==
    /\ {"pair", "max", "backlog"} \subseteq DOMAIN x
    /\ DOMAIN x.backlog = 0 .. MaxConn - 1
    /\ x.max \in Int /\ x.max <= MaxConn

IsPair(q) ==
    /\ {"connected", "ready"} \subseteq DOMAIN q
    /\ q.connected \in BOOLEAN /\ q.ready \in BOOLEAN

IsCall(l) == {"s", "p", "op"} \subseteq DOMAIN l /\ l.op \in Ops

(* s is a sequence.                                                        *)
Listed(s) == Len(s) \in Nat /\ s = [i \in 1 .. Len(s) |-> s[i]]

Shapes ==
    /\ Listed(sock) /\ \A s \in 1 .. Len(sock) : IsSocket(sock[s])
    /\ Listed(pair) /\ \A p \in 1 .. Len(pair) : IsPair(pair[p])
    /\ fds \in [CPU -> Seq([s : Int, op : Ops])]
    /\ pc = [c \in CPU |-> pc[c]]
    /\ loc = [c \in CPU |-> loc[c]] /\ \A c \in CPU : IsCall(loc[c])

Pairs == 1 .. Len(pair)
Socks == 1 .. Len(sock)

(* Where CPU c may stand in the calls.                                     *)
Appending(c) == pc[c] \in {"append", "link"}
Connecting(c) == pc[c] \in {"push", "curr", "store"}
Bringing(c) == pc[c] \in {"curr", "store"}      \* has a pair nobody knows of
Taking(c) == pc[c] \in {"buffers", "mark", "shift"}

Usable(p) == p \in Pairs /\ pair[p].connected /\ pair[p].ready

(* Numbers of pairs are numbers of pairs.                                  *)
Known ==
    /\ \A s \in Socks : sock[s].pair \in Pairs \cup {NULL}
    /\ \A s \in Socks : \A i \in 0 .. MaxConn - 1 : sock[s].backlog[i] \in Pairs \cup {NULL, Stray}

(* Every socket is used by one CPU, through one handle.                    *)
Owned ==
    /\ \A c \in CPU : \A k \in DOMAIN fds[c] : fds[c][k].s \in Socks
    /\ \A c, d \in CPU : \A k \in DOMAIN fds[c], j \in DOMAIN fds[d] :
          fds[c][k].s = fds[d][j].s => c = d /\ k = j
    /\ \A c \in CPU : Appending(c) =>
          /\ loc[c].s \in Socks
          /\ \A d \in CPU : \A j \in DOMAIN fds[d] : fds[d][j].s # loc[c].s
          /\ \A d \in CPU : d # c /\ Appending(d) => loc[d].s # loc[c].s
    /\ \A c \in CPU : Connecting(c) \/ Taking(c) \/ pc[c] \in {"reset", "backlog", "wait"} =>
          \E k \in DOMAIN fds[c] : fds[c][k].s = loc[c].s

(* What the operations of a handle, and the place of the CPU, say of its   *)
(* sockets.                                                                *)
CpuOK(c) ==
    /\ \A k \in DOMAIN fds[c] :
          IF fds[c][k].op = "unset"
          THEN sock[fds[c][k].s].pair = NULL \/ (pc[c] = "wait" /\ loc[c].s = fds[c][k].s)
          ELSE Usable(sock[fds[c][k].s].pair)
    /\ Appending(c) =>
          IF loc[c].op = "accept" THEN Usable(sock[loc[c].s].pair)
          ELSE loc[c].op = "unset" /\ sock[loc[c].s].pair = NULL
    /\ pc[c] = "user" => loc[c].op = "unset"
    /\ Connecting(c) => sock[loc[c].s].pair = NULL
    /\ pc[c] = "wait" =>
          /\ loc[c].p \in Pairs /\ sock[loc[c].s].pair = loc[c].p
          /\ \A k \in DOMAIN fds[c] : fds[c][k].s = loc[c].s => fds[c][k].op = "unset"

HandlesOK == \A c \in CPU : CpuOK(c)

(* connect has made a pair and not yet put it anywhere.                    *)
NewPairs ==
    \A c \in CPU : Bringing(c) =>
        /\ loc[c].p \in Pairs
        /\ \A s \in Socks : sock[s].pair # loc[c].p
        /\ \A s \in Socks : \A i \in 0 .. MaxConn - 1 : sock[s].backlog[i] # loc[c].p
        /\ \A d \in CPU : d # c /\ (Bringing(d) \/ Taking(d)) => loc[d].p # loc[c].p

(* accept has taken a pair from the front and is making it usable.         *)
TakenPairs ==
    \A c \in CPU : Taking(c) =>
        /\ loc[c].p \in Pairs
        /\ pc[c] \in {"mark", "shift"} => pair[loc[c].p].ready
        /\ pc[c] = "shift" => pair[loc[c].p].connected

ReadyFirst == \A p \in Pairs : pair[p].connected => pair[p].ready

(* The sockets at the accepting end.                                       *)
Accepted ==
    {s \in Socks : \/ \E c \in CPU : \E k \in DOMAIN fds[c] :
                          fds[c][k].op = "accept" /\ fds[c][k].s = s
                   \/ \E c \in CPU : Appending(c) /\ loc[c].op = "accept" /\ loc[c].s = s}

(* The places of a backlog that accept may still come to: what a shift     *)
(* leaves behind conn_max is never read again.                             *)
Live(s) == {i \in 0 .. MaxConn - 1 : i = 0 \/ i < sock[s].max}

(* The connecting end of a pair is one socket,                             *)
ConnectedOnce ==
    \A c, d \in CPU : \A k \in DOMAIN fds[c], j \in DOMAIN fds[d] :
        (/\ fds[c][k].op # "accept" /\ fds[d][j].op # "accept"
         /\ sock[fds[c][k].s].pair # NULL
         /\ sock[fds[c][k].s].pair = sock[fds[d][j].s].pair) => c = d /\ k = j

(* and so is the accepting one: a pair waits in one place, is taken by one *)
(* CPU, or has its socket.                                                 *)
AcceptedOnce ==
    /\ \A s, t \in Accepted : sock[s].pair = sock[t].pair => s = t
    /\ \A c \in CPU : Taking(c) =>
          /\ \A s \in Accepted : sock[s].pair # loc[c].p
          /\ \A d \in CPU : Taking(d) /\ loc[d].p = loc[c].p => d = c
    /\ \A s \in Socks : \A i \in Live(s) : sock[s].backlog[i] \in Pairs =>
          /\ \A t \in Accepted : sock[t].pair # sock[s].backlog[i]
          /\ \A t \in Socks : \A j \in Live(t) :
                sock[t].backlog[j] = sock[s].backlog[i] => t = s /\ j = i
          /\ \A c \in CPU : Taking(c) /\ loc[c].p = sock[s].backlog[i] => loc[c].s = s /\ i = 0

Good ==
    /\ Shapes /\ Known /\ Owned /\ HandlesOK /\ NewPairs /\ TakenPairs
    /\ ReadyFirst /\ ConnectedOnce /\ AcceptedOnce

SocketInv == wild \/ Good

-----------------------------------------------------------------------------
(* Sequences as functions                                                  *)

(* A function on 1 .. n is a sequence.                                     *)
LEMMA FunctionListed ==
    ASSUME NEW n \in Nat, NEW t, t = [i \in 1 .. n |-> t[i]]
    PROVE  Listed(t) /\ Len(t) = n
  <1> DEFINE T == {t[i] : i \in 1 .. n}
  <1>1. t \in [1 .. n -> T]
    OBVIOUS
  <1> HIDE DEF T
  <1>2. t \in Seq(T) /\ Len(t) = n
    BY <1>1
  <1> QED
    BY <1>2 DEF Listed

(* Append.                                                                 *)
LEMMA AppendListed ==
    ASSUME NEW s, Listed(s), NEW x
    PROVE  /\ Listed(Append(s, x)) /\ Len(Append(s, x)) = Len(s) + 1
           /\ Append(s, x)[Len(s) + 1] = x
           /\ \A i \in 1 .. Len(s) : Append(s, x)[i] = s[i]
  <1> DEFINE T == {s[i] : i \in 1 .. Len(s)} \cup {x}
  <1>1. s \in [1 .. Len(s) -> T] /\ x \in T /\ Len(s) \in Nat
    BY DEF Listed
  <1> HIDE DEF T
  <1>2. s \in Seq(T)
    <2>1. PICK n \in Nat : n = Len(s)
      BY <1>1
    <2>2. s \in [1 .. n -> T]
      BY <1>1, <2>1
    <2> QED
      BY <2>2
  <1>3. /\ Append(s, x) \in Seq(T) /\ Len(Append(s, x)) = Len(s) + 1
        /\ Append(s, x)[Len(s) + 1] = x
        /\ \A i \in 1 .. Len(s) : Append(s, x)[i] = s[i]
    BY <1>1, <1>2
  <1>4. PICK t : t = Append(s, x)
    OBVIOUS
  <1>5. Listed(t)
    <2>1. t \in Seq(T)
      BY <1>3, <1>4
    <2> QED
      BY <2>1 DEF Listed
  <1> QED
    BY <1>3, <1>4, <1>5

-----------------------------------------------------------------------------
(* Steps that leave the sockets, the handles and the backlogs alone        *)

SameSockets ==
    /\ Listed(sock)' /\ Len(sock)' = Len(sock)
    /\ \A s \in Socks :
          /\ IsSocket(sock[s])'
          /\ sock'[s].pair = sock[s].pair /\ sock'[s].max = sock[s].max
          /\ sock'[s].backlog = sock[s].backlog

(* Pairs become ready, then connected.                                     *)
PairsAdvance ==
    /\ Listed(pair)' /\ Len(pair)' = Len(pair)
    /\ \A p \in Pairs :
          /\ IsPair(pair[p])'
          /\ pair[p].connected => pair'[p].connected
          /\ pair[p].ready => pair'[p].ready
          /\ pair'[p].connected => pair'[p].ready

(* Only CPU c moves.                                                       *)
Alone(c) ==
    /\ pc' = [d \in CPU |-> pc'[d]] /\ loc' = [d \in CPU |-> loc'[d]]
    /\ IsCall(loc[c])'
    /\ \A d \in CPU \ {c} : pc'[d] = pc[d] /\ loc'[d] = loc[d]

(* It begins, goes on with or ends a call, without a change of its part.   *)
InPart(c) ==
    /\ pc'[c] = "user" => loc'[c].op = "unset"
    /\ Appending(c)' => Appending(c) /\ loc'[c].s = loc[c].s /\ loc'[c].op = loc[c].op
    /\ Appending(c) => Appending(c)'
    /\ Connecting(c)' => /\ \E k \in DOMAIN fds[c] : fds[c][k].s = loc'[c].s
                         /\ sock[loc'[c].s].pair = NULL
    /\ Bringing(c)' => Bringing(c) /\ loc'[c].p = loc[c].p
    /\ Taking(c)' => /\ Taking(c) /\ loc'[c].p = loc[c].p /\ loc'[c].s = loc[c].s
                     /\ pc'[c] \in {"mark", "shift"} => pair'[loc[c].p].ready
                     /\ pc'[c] = "shift" => pair'[loc[c].p].connected
    /\ pc'[c] \in {"reset", "backlog"} => \E k \in DOMAIN fds[c] : fds[c][k].s = loc'[c].s
    /\ pc'[c] # "wait" /\ pc[c] # "wait"

(* Such a step keeps the invariant.                                        *)
LEMMA Keeps ==
    ASSUME Good, NEW c \in CPU, SameSockets, PairsAdvance, Alone(c), InPart(c), fds' = fds
    PROVE  Good'
  <1> USE DEF Socks, Pairs
  <1>1. Shapes'
    BY DEF Good, Shapes, SameSockets, PairsAdvance, Alone
  <1>2. Known'
    BY DEF Good, Known, SameSockets, PairsAdvance
  <1>3. /\ \A d \in CPU : Appending(d)' => Appending(d) /\ loc'[d].s = loc[d].s /\ loc'[d].op = loc[d].op
        /\ \A d \in CPU : Appending(d) => Appending(d)'
        /\ \A d \in CPU : Bringing(d)' => Bringing(d) /\ loc'[d].p = loc[d].p
        /\ \A d \in CPU : Taking(d)' => Taking(d) /\ loc'[d].p = loc[d].p /\ loc'[d].s = loc[d].s
    BY DEF Alone, InPart, Appending, Bringing, Taking
  <1>4. Owned'
    <2>1. \A d \in CPU : (Connecting(d) \/ Taking(d) \/ pc[d] \in {"reset", "backlog", "wait"})' =>
              \E k \in DOMAIN fds[d] : fds[d][k].s = loc'[d].s
      BY DEF Good, Owned, Alone, InPart, Connecting, Taking
    <2> QED
      BY <1>3, <2>1 DEF Good, Owned, SameSockets
  <1>5. Good
    OBVIOUS
  <1>6. \A p : Usable(p) => Usable(p)'
    BY DEF Usable, PairsAdvance
  <1>7. \A s \in 1 .. Len(sock) : sock'[s].pair = sock[s].pair
    BY DEF SameSockets
  <1>8. HandlesOK'
    <2>1. ASSUME NEW d \in CPU, NEW k \in DOMAIN fds[d]
          PROVE  IF fds[d][k].op = "unset"
                 THEN sock'[fds[d][k].s].pair = NULL \/ (pc'[d] = "wait" /\ loc'[d].s = fds[d][k].s)
                 ELSE Usable(sock[fds[d][k].s].pair)'
      <3>1. fds[d][k].s \in 1 .. Len(sock)
        BY DEF Good, Owned
      <3>2. IF fds[d][k].op = "unset"
            THEN sock[fds[d][k].s].pair = NULL \/ (pc[d] = "wait" /\ loc[d].s = fds[d][k].s)
            ELSE Usable(sock[fds[d][k].s].pair)
        BY DEF Good, HandlesOK, CpuOK
      <3>3. pc[d] = "wait" => pc'[d] = pc[d] /\ loc'[d] = loc[d]
        BY DEF Alone, InPart
      <3> QED
        BY <1>6, <1>7, <3>1, <3>2, <3>3
    <2>2. ASSUME NEW d \in CPU, Appending(d)'
          PROVE  IF loc'[d].op = "accept" THEN Usable(sock[loc[d].s].pair)'
                 ELSE loc'[d].op = "unset" /\ sock'[loc'[d].s].pair = NULL
      <3>1. Appending(d) /\ loc'[d].s = loc[d].s /\ loc'[d].op = loc[d].op
        BY <1>3, <2>2
      <3>2. loc[d].s \in 1 .. Len(sock)
        BY <3>1 DEF Good, Owned
      <3>3. IF loc[d].op = "accept" THEN Usable(sock[loc[d].s].pair)
            ELSE loc[d].op = "unset" /\ sock[loc[d].s].pair = NULL
        BY <3>1 DEF Good, HandlesOK, CpuOK
      <3> QED
        BY <1>6, <1>7, <3>1, <3>2, <3>3
    <2>3. \A d \in CPU : pc'[d] = "user" => loc'[d].op = "unset"
      BY DEF Good, HandlesOK, CpuOK, Alone, InPart
    <2>4. ASSUME NEW d \in CPU, Connecting(d)' PROVE sock'[loc'[d].s].pair = NULL
      <3>1. sock[loc'[d].s].pair = NULL /\ \E k \in DOMAIN fds[d] : fds[d][k].s = loc'[d].s
        BY <2>4 DEF Good, Owned, HandlesOK, CpuOK, Alone, InPart, Connecting
      <3>2. loc'[d].s \in 1 .. Len(sock)
        BY <3>1 DEF Good, Owned
      <3> QED
        BY <1>7, <3>1, <3>2
    <2>5. ASSUME NEW d \in CPU, pc'[d] = "wait"
          PROVE  /\ loc'[d].p \in Pairs' /\ sock'[loc'[d].s].pair = loc'[d].p
                 /\ \A k \in DOMAIN fds[d] : fds[d][k].s = loc'[d].s => fds[d][k].op = "unset"
      <3>1. pc[d] = "wait" /\ loc'[d] = loc[d]
        BY <2>5 DEF Alone, InPart
      <3>2. /\ loc[d].p \in Pairs /\ sock[loc[d].s].pair = loc[d].p /\ loc[d].s \in 1 .. Len(sock)
            /\ \A k \in DOMAIN fds[d] : fds[d][k].s = loc[d].s => fds[d][k].op = "unset"
        BY <3>1 DEF Good, Owned, HandlesOK, CpuOK
      <3> QED
        BY <1>7, <3>1, <3>2 DEF PairsAdvance
    <2> QED
      BY <2>1, <2>2, <2>3, <2>4, <2>5 DEF HandlesOK, CpuOK
  <1>9. NewPairs'
    BY <1>3 DEF Good, NewPairs, SameSockets, PairsAdvance
  <1>10. TakenPairs'
    BY <1>3 DEF Good, TakenPairs, PairsAdvance, Alone, InPart
  <1>11. ReadyFirst'
    BY DEF ReadyFirst, PairsAdvance
  <1>12. ConnectedOnce'
    <2>1. \A d \in CPU : \A k \in DOMAIN fds[d] :
              sock'[fds[d][k].s].pair = sock[fds[d][k].s].pair
      BY <1>7 DEF Good, Owned
    <2>2. ConnectedOnce
      BY DEF Good
    <2> QED
      BY <2>1, <2>2 DEF ConnectedOnce
  <1>13. Accepted' = Accepted
    BY <1>3 DEF Accepted, SameSockets
  <1>14. \A s \in 1 .. Len(sock) : Live(s)' = Live(s)
    BY DEF Live, SameSockets
  <1>15. AcceptedOnce'
    <2>1. Accepted \subseteq 1 .. Len(sock)
      BY DEF Accepted
    <2>2. \A s, t \in Accepted' : sock'[s].pair = sock'[t].pair => s = t
      BY <1>7, <1>13, <2>1 DEF Good, AcceptedOnce
    <2>3. \A d \in CPU : Taking(d)' =>
              /\ \A s \in Accepted' : sock'[s].pair # loc'[d].p
              /\ \A e \in CPU : Taking(e)' /\ loc'[e].p = loc'[d].p => e = d
      BY <1>3, <1>7, <1>13, <2>1 DEF Good, AcceptedOnce
    <2>4. ASSUME NEW s \in Socks', NEW i \in Live(s)', sock'[s].backlog[i] \in Pairs'
          PROVE  /\ \A t \in Accepted' : sock'[t].pair # sock'[s].backlog[i]
                 /\ \A t \in Socks' : \A j \in Live(t)' :
                       sock'[t].backlog[j] = sock'[s].backlog[i] => t = s /\ j = i
                 /\ \A d \in CPU : Taking(d)' /\ loc'[d].p = sock'[s].backlog[i] =>
                       loc'[d].s = s /\ i = 0
      <3>1. s \in Socks /\ i \in Live(s) /\ sock'[s].backlog = sock[s].backlog
            /\ sock[s].backlog[i] \in Pairs
        BY <1>14, <2>4 DEF SameSockets, PairsAdvance
      <3>2. /\ \A t \in Accepted : sock[t].pair # sock[s].backlog[i]
            /\ \A t \in Socks : \A j \in Live(t) :
                  sock[t].backlog[j] = sock[s].backlog[i] => t = s /\ j = i
            /\ \A d \in CPU : Taking(d) /\ loc[d].p = sock[s].backlog[i] =>
                  loc[d].s = s /\ i = 0
        BY <3>1, Zenon DEF Good, AcceptedOnce
      <3>3. \A t \in Accepted' : sock'[t].pair # sock'[s].backlog[i]
        BY <1>7, <1>13, <2>1, <3>1, <3>2
      <3>4. \A t \in Socks' : \A j \in Live(t)' :
                sock'[t].backlog[j] = sock'[s].backlog[i] => t = s /\ j = i
        BY <1>14, <3>1, <3>2 DEF SameSockets
      <3>5. \A d \in CPU : Taking(d)' /\ loc'[d].p = sock'[s].backlog[i] =>
                loc'[d].s = s /\ i = 0
        BY <1>3, <3>1, <3>2
      <3> QED
        BY <3>3, <3>4, <3>5
    <2> QED
      BY <2>2, <2>3, <2>4 DEF AcceptedOnce
  <1> QED
    BY <1>1, <1>2, <1>4, <1>8, <1>9, <1>10, <1>11, <1>12, <1>15 DEF Good

(* Nothing happens to the sockets.                                         *)
LEMMA SocketsStay ==
    ASSUME Good, sock' = sock
    PROVE  SameSockets
  BY DEF Good, Shapes, SameSockets, Listed, IsSocket, Socks

(* Nothing happens to the pairs.                                           *)
LEMMA PairsStay ==
    ASSUME Good, pair' = pair
    PROVE  PairsAdvance
  BY DEF Good, Shapes, ReadyFirst, PairsAdvance, Listed, IsPair, Pairs

(* One socket changes in fields of which the invariant does not speak.     *)
LEMMA OneSocket ==
    ASSUME Good, NEW k, NEW y, sock' = [sock EXCEPT ![k] = y],
           k \in Socks => /\ IsSocket(y) /\ y.pair = sock[k].pair
                          /\ y.max = sock[k].max /\ y.backlog = sock[k].backlog
    PROVE  SameSockets
  <1>1. Len(sock) \in Nat /\ sock = [i \in 1 .. Len(sock) |-> sock[i]]
    BY DEF Good, Shapes, Listed
  <1>2. sock' = [i \in 1 .. Len(sock) |-> sock'[i]]
        /\ \A s \in 1 .. Len(sock) : sock'[s] = IF s = k THEN y ELSE sock[s]
    BY <1>1
  <1>3. Listed(sock') /\ Len(sock') = Len(sock)
    BY <1>1, <1>2, FunctionListed
  <1>4. \A s \in Socks : IsSocket(sock[s])
    BY DEF Good, Shapes, Socks
  <1> QED
    BY <1>2, <1>3, <1>4 DEF SameSockets, Socks, IsSocket

(* One pair changes.                                                       *)
LEMMA OnePair ==
    ASSUME Good, NEW k, NEW y, pair' = [pair EXCEPT ![k] = y],
           k \in Pairs => /\ IsPair(y)
                          /\ pair[k].connected => y.connected
                          /\ pair[k].ready => y.ready
                          /\ y.connected => y.ready
    PROVE  PairsAdvance /\ (k \in Pairs => pair'[k] = y)
  <1>1. Len(pair) \in Nat /\ pair = [i \in 1 .. Len(pair) |-> pair[i]]
    BY DEF Good, Shapes, Listed
  <1>2. pair' = [i \in 1 .. Len(pair) |-> pair'[i]]
        /\ \A p \in 1 .. Len(pair) : pair'[p] = IF p = k THEN y ELSE pair[p]
    BY <1>1
  <1>3. Listed(pair') /\ Len(pair') = Len(pair)
    BY <1>1, <1>2, FunctionListed
  <1>4. \A p \in Pairs : IsPair(pair[p]) /\ (pair[p].connected => pair[p].ready)
    BY DEF Good, Shapes, ReadyFirst, Pairs
  <1>5. ASSUME NEW p \in Pairs
        PROVE  /\ IsPair(pair'[p])
               /\ pair[p].connected => pair'[p].connected
               /\ pair[p].ready => pair'[p].ready
               /\ pair'[p].connected => pair'[p].ready
    <2>1. CASE p = k
      BY <1>2, <2>1 DEF Pairs
    <2>2. CASE p # k
      BY <1>2, <1>4, <2>2 DEF Pairs
    <2> QED
      BY <2>1, <2>2
  <1> QED
    BY <1>2, <1>3, <1>5 DEF PairsAdvance, Pairs, IsPair

(* CPU c goes to a place with locals l.                                    *)
LEMMA Moves ==
    ASSUME Good, NEW c \in CPU, NEW place, NEW l, IsCall(l), Go(c, place),
           loc' = [loc EXCEPT ![c] = l]
    PROVE  Alone(c) /\ pc'[c] = place /\ loc'[c] = l
  <1>1. pc = [d \in CPU |-> pc[d]] /\ loc = [d \in CPU |-> loc[d]]
    BY DEF Good, Shapes
  <1>2. /\ pc' = [d \in CPU |-> IF d = c THEN place ELSE pc[d]]
        /\ loc' = [d \in CPU |-> IF d = c THEN l ELSE loc[d]]
    BY <1>1 DEF Go
  <1> QED
    BY <1>2 DEF Alone, IsCall

(* The locals of a call stay locals of a call.                             *)
LEMMA CallFields ==
    ASSUME NEW l, IsCall(l), NEW x
    PROVE  /\ IsCall([l EXCEPT !.s = x]) /\ [l EXCEPT !.s = x].s = x
           /\ [l EXCEPT !.s = x].op = l.op /\ [l EXCEPT !.s = x].p = l.p
           /\ IsCall([l EXCEPT !.d = x]) /\ [l EXCEPT !.d = x].s = l.s
           /\ [l EXCEPT !.d = x].op = l.op /\ [l EXCEPT !.d = x].p = l.p
           /\ IsCall([l EXCEPT !.p = x]) /\ [l EXCEPT !.p = x].s = l.s
           /\ [l EXCEPT !.p = x].op = l.op /\ [l EXCEPT !.p = x].p = x
           /\ IsCall([l EXCEPT !.i = x]) /\ [l EXCEPT !.i = x].s = l.s
           /\ [l EXCEPT !.i = x].op = l.op /\ [l EXCEPT !.i = x].p = l.p
           /\ IsCall([l EXCEPT !.e = x]) /\ IsCall([l EXCEPT !.n = x])
           /\ IsCall([l EXCEPT !.op = "accept"]) /\ [l EXCEPT !.op = "accept"].s = l.s
           /\ [l EXCEPT !.op = "accept"].op = "accept"
  BY DEF IsCall, Ops

(* A CPU outside of the calls.                                             *)
LEMMA FirstCall == IsCall(NoCall) /\ NoCall.op = "unset"
  BY DEF IsCall, NoCall, Ops

-----------------------------------------------------------------------------
(* The calls, step by step                                                 *)

USE DEF Appending, Connecting, Bringing, Taking

(* The walk to the end of the list changes nothing but a local.            *)
LEMMA StepFindTail ==
    ASSUME Good, NEW c \in CPU, FindTail(c)
    PROVE  SocketInv'
  <1>1. CASE wild'
    BY <1>1 DEF SocketInv
  <1>2. CASE ~wild'
    <2>0. PICK tail : /\ At(c, "append") /\ Go(c, "link")
                      /\ loc' = [loc EXCEPT ![c].d = tail]
                      /\ UNCHANGED <<sock, pair, fds, wild, crossed, raced, got>>
      BY <1>2, Zenon DEF FindTail, GoWild
    <2> DEFINE l == [loc[c] EXCEPT !.d = tail]
    <2>1. /\ pc[c] = "append" /\ Go(c, "link") /\ sock' = sock /\ pair' = pair /\ fds' = fds
          /\ loc' = [loc EXCEPT ![c] = l]
      BY <2>0 DEF At
    <2>2. IsCall(loc[c]) /\ IsCall(l)
      BY CallFields, FirstCall DEF Good, Shapes
    <2>3. l.s = loc[c].s /\ l.op = loc[c].op
      BY <2>2 DEF IsCall
    <2> HIDE DEF l
    <2>4. Alone(c) /\ pc'[c] = "link" /\ loc'[c] = l
      BY <2>1, <2>2, Moves
    <2>5. InPart(c)
      BY <2>1, <2>3, <2>4 DEF InPart
    <2> QED
      BY <2>1, <2>4, <2>5, SocketsStay, PairsStay, Keeps DEF SocketInv
  <1> QED
    BY <1>1, <1>2

(* listen changes the state of a socket first.                             *)
LEMMA StepListen ==
    ASSUME Good, NEW c \in CPU, k_driver_listen(c)
    PROVE  SocketInv'
  <1>1. PICK h \in ToSet(fds[c]) :
            /\ pc[c] = "user"
            /\ sock' = [sock EXCEPT ![h.s] = [sock[h.s] EXCEPT !.state = "listening"]]
            /\ loc' = [loc EXCEPT ![c] = [loc[c] EXCEPT !.s = h.s]]
            /\ Go(c, "reset") /\ pair' = pair /\ fds' = fds
    BY DEF k_driver_listen, At
  <1>2. \E k \in DOMAIN fds[c] : fds[c][k].s = h.s
    BY DEF ToSet
  <1> DEFINE l == [loc[c] EXCEPT !.s = h.s]
             y == [sock[h.s] EXCEPT !.state = "listening"]
  <1>3. IsCall(l) /\ l.s = h.s
    BY CallFields, FirstCall DEF Good, Shapes, IsCall
  <1>4. h.s \in Socks => /\ IsSocket(y) /\ y.pair = sock[h.s].pair
                         /\ y.max = sock[h.s].max /\ y.backlog = sock[h.s].backlog
    BY DEF Good, Shapes, IsSocket, Socks
  <1> HIDE DEF l, y
  <1>5. SameSockets
    BY <1>1, <1>4, OneSocket DEF y
  <1>6. Alone(c) /\ pc'[c] = "reset" /\ loc'[c] = l
    BY <1>1, <1>3, Moves DEF l
  <1>7. InPart(c)
    BY <1>1, <1>2, <1>3, <1>6 DEF InPart
  <1> QED
    BY <1>1, <1>5, <1>6, <1>7, PairsStay, Keeps DEF SocketInv

(* connect finds a listening socket, or the CPU stops at the first one.    *)
LEMMA StepConnect ==
    ASSUME Good, NEW c \in CPU, k_driver_connect(c)
    PROVE  SocketInv'
  <1>1. CASE wild'
    BY <1>1 DEF SocketInv
  <1>2. CASE ~wild'
    <2> DEFINE Halts == Go(c, "halted") /\ loc' = loc /\ sock' = sock /\ pair' = pair /\ fds' = fds
               Finds(h) == /\ Go(c, "push") /\ sock' = sock /\ pair' = pair /\ fds' = fds
                           /\ \E d : loc' = [loc EXCEPT ![c] = [loc[c] EXCEPT !.s = h.s, !.d = d]]
    <2>0. PICK h \in ToSet(fds[c]) :
              /\ pc[c] = "user" /\ sock[h.s].pair = NULL
              /\ Halts \/ Finds(h)
      <3>1. PICK h \in ToSet(fds[c]) :
              /\ At(c, "user") /\ sock[h.s].pair = NULL
              /\ \/ Go(c, "halted") /\ UNCHANGED <<sock, pair, fds, loc, wild, crossed, raced, got>>
                 \/ GoWild(c)
                 \/ \E d \in List \ {Stray} :
                       /\ loc' = [loc EXCEPT ![c].s = h.s, ![c].d = d]
                       /\ Go(c, "push")
                       /\ UNCHANGED <<sock, pair, fds, wild, crossed, raced, got>>
        BY Zenon DEF k_driver_connect
      <3>2. CASE Go(c, "halted") /\ UNCHANGED <<sock, pair, fds, loc, wild, crossed, raced, got>>
        BY <3>1, <3>2 DEF At
      <3>3. CASE GoWild(c)
        BY <1>2, <3>3 DEF GoWild
      <3>4. ASSUME NEW d, loc' = [loc EXCEPT ![c].s = h.s, ![c].d = d], Go(c, "push"),
                   UNCHANGED <<sock, pair, fds, wild, crossed, raced, got>>
            PROVE  Finds(h)
        <4>1. loc' = [loc EXCEPT ![c] = [loc[c] EXCEPT !.s = h.s, !.d = d]]
          BY <3>4
        <4> QED
          BY <3>4, <4>1
      <3> QED
        BY <3>1, <3>2, <3>3, <3>4 DEF At
    <2>1. sock' = sock /\ pair' = pair /\ fds' = fds /\ pc[c] = "user" /\ sock[h.s].pair = NULL
      BY <2>0
    <2>2. \E k \in DOMAIN fds[c] : fds[c][k].s = h.s
      BY DEF ToSet
    <2>3. IsCall(loc[c])
      BY DEF Good, Shapes
    <2>4. CASE Go(c, "halted") /\ loc' = loc
      <3>1. loc' = [loc EXCEPT ![c] = loc[c]]
        BY <2>4 DEF Good, Shapes
      <3>2. Alone(c) /\ pc'[c] = "halted"
        BY <2>3, <2>4, <3>1, Moves
      <3>3. InPart(c)
        BY <2>1, <3>2 DEF InPart
      <3> QED
        BY <2>1, <3>2, <3>3, SocketsStay, PairsStay, Keeps DEF SocketInv
    <2>5. ASSUME NEW d, Go(c, "push"), loc' = [loc EXCEPT ![c] = [loc[c] EXCEPT !.s = h.s, !.d = d]]
          PROVE  SocketInv'
      <3> DEFINE l == [loc[c] EXCEPT !.s = h.s, !.d = d]
      <3>1. IsCall(l) /\ l.s = h.s
        BY <2>3, CallFields, FirstCall DEF IsCall
      <3> HIDE DEF l
      <3>2. Alone(c) /\ pc'[c] = "push" /\ loc'[c] = l
        BY <2>5, <3>1, Moves DEF l
      <3>3. InPart(c)
        BY <2>1, <2>2, <3>1, <3>2 DEF InPart
      <3> QED
        BY <2>1, <3>2, <3>3, SocketsStay, PairsStay, Keeps DEF SocketInv
    <2> QED
      BY <2>0, <2>4, <2>5
  <1> QED
    BY <1>1, <1>2

(* conn_curr is no part of the invariant: two connects may write the same. *)
LEMMA StepWriteCurr ==
    ASSUME Good, NEW c \in CPU, WriteCurr(c)
    PROVE  SocketInv'
  <1> DEFINE d == loc[c].d
             y == [sock[d] EXCEPT !.curr = loc[c].i + 1]
  <1>1. /\ pc[c] = "curr" /\ Go(c, "store") /\ loc' = loc /\ pair' = pair /\ fds' = fds
        /\ sock' = [sock EXCEPT ![d] = y]
    BY DEF WriteCurr, At
  <1>2. d \in Socks => /\ IsSocket(y) /\ y.pair = sock[d].pair
                       /\ y.max = sock[d].max /\ y.backlog = sock[d].backlog
    BY DEF Good, Shapes, IsSocket, Socks
  <1> HIDE DEF d, y
  <1>3. SameSockets
    BY <1>1, <1>2, OneSocket
  <1>4. IsCall(loc[c]) /\ loc' = [loc EXCEPT ![c] = loc[c]]
    BY <1>1 DEF Good, Shapes
  <1>5. Alone(c) /\ pc'[c] = "store" /\ loc'[c] = loc[c]
    BY <1>1, <1>4, Moves
  <1>6. sock[loc[c].s].pair = NULL /\ \E k \in DOMAIN fds[c] : fds[c][k].s = loc[c].s
    BY <1>1 DEF Good, HandlesOK, CpuOK, Owned
  <1>7. InPart(c)
    BY <1>1, <1>5, <1>6 DEF InPart
  <1> QED
    BY <1>1, <1>3, <1>5, <1>7, PairsStay, Keeps DEF SocketInv

(* The buffers are there before the pair is connected.                     *)
LEMMA StepNewBuffers ==
    ASSUME Good, NEW c \in CPU, NewBuffers(c)
    PROVE  SocketInv'
  <1> DEFINE p == loc[c].p
             y == [pair[p] EXCEPT !.ready = TRUE, !.pos = [e \in Ends |-> 0]]
  <1>1. /\ pc[c] = "buffers" /\ Go(c, "mark") /\ loc' = loc /\ sock' = sock /\ fds' = fds
        /\ pair' = [pair EXCEPT ![p] = y]
    BY DEF NewBuffers, At
  <1>2. p \in Pairs
    BY <1>1 DEF Good, TakenPairs
  <1>3. /\ IsPair(y) /\ y.ready /\ (pair[p].connected => y.connected)
    BY <1>2 DEF Good, Shapes, IsPair, Pairs
  <1> HIDE DEF p, y
  <1>4. PairsAdvance /\ pair'[p] = y
    BY <1>1, <1>2, <1>3, OnePair
  <1>5. IsCall(loc[c]) /\ loc' = [loc EXCEPT ![c] = loc[c]]
    BY <1>1 DEF Good, Shapes
  <1>6. Alone(c) /\ pc'[c] = "mark" /\ loc'[c] = loc[c]
    BY <1>1, <1>5, Moves
  <1>7. InPart(c)
    BY <1>1, <1>3, <1>4, <1>6 DEF InPart, p
  <1> QED
    BY <1>1, <1>4, <1>6, <1>7, SocketsStay, Keeps DEF SocketInv

(* The pair is connected, with its buffers.                                *)
LEMMA StepMarkConnected ==
    ASSUME Good, NEW c \in CPU, MarkConnected(c)
    PROVE  SocketInv'
  <1> DEFINE p == loc[c].p
             y == [pair[p] EXCEPT !.connected = TRUE]
  <1>1. /\ pc[c] = "mark" /\ Go(c, "shift") /\ loc' = loc /\ sock' = sock /\ fds' = fds
        /\ pair' = [pair EXCEPT ![p] = y]
    BY DEF MarkConnected, At
  <1>2. p \in Pairs /\ pair[p].ready
    BY <1>1 DEF Good, TakenPairs
  <1>3. IsPair(y) /\ y.connected /\ y.ready
    BY <1>2 DEF Good, Shapes, IsPair, Pairs
  <1> HIDE DEF p, y
  <1>4. PairsAdvance /\ pair'[p] = y
    BY <1>1, <1>2, <1>3, OnePair
  <1>5. IsCall(loc[c]) /\ loc' = [loc EXCEPT ![c] = loc[c]]
    BY <1>1 DEF Good, Shapes
  <1>6. Alone(c) /\ pc'[c] = "shift" /\ loc'[c] = loc[c]
    BY <1>1, <1>5, Moves
  <1>7. InPart(c)
    BY <1>1, <1>3, <1>4, <1>6 DEF InPart, p
  <1> QED
    BY <1>1, <1>4, <1>6, <1>7, SocketsStay, Keeps DEF SocketInv

(* send and recv leave the flags of a pair alone.                          *)
LEMMA StepSend ==
    ASSUME Good, NEW c \in CPU, NEW n \in Limits, k_driver_send(c, n)
    PROVE  SocketInv'
  <1>1. CASE wild'
    BY <1>1 DEF SocketInv
  <1>2. CASE ~wild'
    <2> DEFINE Sent(h, k, b) ==
                   /\ pc[c] = "user" /\ Go(c, "sent") /\ sock' = sock /\ fds' = fds
                   /\ pair' = [pair EXCEPT ![sock[h.s].pair].sent[SendsTo(h)] = k,
                                           ![sock[h.s].pair].bytes[SendsTo(h)] = b]
                   /\ loc' = [loc EXCEPT ![c] =
                                 [NoCall EXCEPT !.p = sock[h.s].pair, !.e = SendsTo(h), !.n = n]]
    <2>0. PICK h \in ToSet(fds[c]) : \E k, b : Sent(h, k, b)
      BY <1>2, ZenonT(60) DEF k_driver_send, GoWild, At
    <2>1. PICK k, b : Sent(h, k, b)
      BY <2>0
    <2> DEFINE p == sock[h.s].pair
               e == SendsTo(h)
               l == [NoCall EXCEPT !.p = p, !.e = e, !.n = n]
               y == [pair[p] EXCEPT !.sent[e] = k, !.bytes[e] = b]
    <2>2. pair' = [pair EXCEPT ![p] = y]
      BY <2>1
    <2>3. p \in Pairs => /\ IsPair(y) /\ y.connected = pair[p].connected
                         /\ y.ready = pair[p].ready
      BY DEF Good, Shapes, IsPair, Pairs
    <2>4. p \in Pairs => (pair[p].connected => pair[p].ready)
      BY DEF Good, ReadyFirst
    <2> HIDE DEF y
    <2>5. PairsAdvance
      BY <2>2, <2>3, <2>4, OnePair
    <2>6. IsCall(l)
      BY CallFields, FirstCall
    <2> HIDE DEF l
    <2>7. Alone(c) /\ pc'[c] = "sent"
      BY <2>1, <2>6, Moves DEF l
    <2>8. InPart(c)
      BY <2>1, <2>7 DEF InPart
    <2> QED
      BY <2>1, <2>5, <2>7, <2>8, SocketsStay, Keeps DEF SocketInv
  <1> QED
    BY <1>1, <1>2

(* recv copies out of a buffer.                                            *)
LEMMA StepRecv ==
    ASSUME Good, NEW c \in CPU, NEW n \in Limits, k_driver_recv(c, n)
    PROVE  SocketInv'
  <1>1. CASE wild'
    BY <1>1 DEF SocketInv
  <1>2. CASE ~wild'
    <2>0. PICK h \in ToSet(fds[c]) :
              /\ pc[c] = "user" /\ Go(c, "copied") /\ sock' = sock /\ fds' = fds /\ pair' = pair
              /\ loc' = [loc EXCEPT ![c] =
                            [NoCall EXCEPT !.p = sock[h.s].pair, !.e = RecvsFrom(h),
                                           !.n = Min({n, pair[sock[h.s].pair].pos[RecvsFrom(h)]})]]
      BY <1>2, Zenon DEF k_driver_recv, GoWild, At
    <2>1. PICK p, e, m :
              /\ pc[c] = "user" /\ Go(c, "copied") /\ sock' = sock /\ fds' = fds /\ pair' = pair
              /\ loc' = [loc EXCEPT ![c] = [NoCall EXCEPT !.p = p, !.e = e, !.n = m]]
      BY <2>0, Zenon
    <2> DEFINE l == [NoCall EXCEPT !.p = p, !.e = e, !.n = m]
    <2>2. IsCall(l)
      BY CallFields, FirstCall
    <2> HIDE DEF l
    <2>3. Alone(c) /\ pc'[c] = "copied"
      BY <2>1, <2>2, Moves DEF l
    <2>4. InPart(c)
      BY <2>1, <2>3 DEF InPart
    <2> QED
      BY <2>1, <2>3, <2>4, SocketsStay, PairsStay, Keeps DEF SocketInv
  <1> QED
    BY <1>1, <1>2

(* The position moves.                                                     *)
LEMMA StepSendDone ==
    ASSUME Good, NEW c \in CPU, SendDone(c)
    PROVE  SocketInv'
  <1> DEFINE p == loc[c].p
             y == [pair[p] EXCEPT !.pos[loc[c].e] = @ + loc[c].n]
  <1>1. /\ pc[c] = "sent" /\ Go(c, "user") /\ loc' = [loc EXCEPT ![c] = NoCall]
        /\ sock' = sock /\ fds' = fds /\ pair' = [pair EXCEPT ![p] = y]
    BY DEF SendDone, At
  <1>2. p \in Pairs => /\ IsPair(y) /\ y.connected = pair[p].connected
                       /\ y.ready = pair[p].ready
    BY DEF Good, Shapes, IsPair, Pairs
  <1>3. p \in Pairs => (pair[p].connected => pair[p].ready)
    BY DEF Good, ReadyFirst
  <1> HIDE DEF p, y
  <1>4. PairsAdvance
    BY <1>1, <1>2, <1>3, OnePair
  <1>5. Alone(c) /\ pc'[c] = "user" /\ loc'[c] = NoCall
    BY <1>1, FirstCall, Moves
  <1>6. InPart(c)
    BY <1>1, <1>5 DEF InPart, NoCall
  <1> QED
    BY <1>1, <1>4, <1>5, <1>6, SocketsStay, Keeps DEF SocketInv

(* The rest of the buffer moves to its front.                              *)
LEMMA StepRecvDone ==
    ASSUME Good, NEW c \in CPU, RecvDone(c)
    PROVE  SocketInv'
  <1>1. PICK b, n : /\ pc[c] = "copied" /\ Go(c, "user") /\ loc' = [loc EXCEPT ![c] = NoCall]
                    /\ sock' = sock /\ fds' = fds
                    /\ pair' = [pair EXCEPT ![loc[c].p].bytes[loc[c].e] = b,
                                            ![loc[c].p].pos[loc[c].e] = n]
    BY DEF RecvDone, At
  <1> DEFINE p == loc[c].p
             y == [pair[p] EXCEPT !.bytes[loc[c].e] = b, !.pos[loc[c].e] = n]
  <1>2. pair' = [pair EXCEPT ![p] = y]
    BY <1>1
  <1>3. p \in Pairs => /\ IsPair(y) /\ y.connected = pair[p].connected
                       /\ y.ready = pair[p].ready
    BY DEF Good, Shapes, IsPair, Pairs
  <1>4. p \in Pairs => (pair[p].connected => pair[p].ready)
    BY DEF Good, ReadyFirst
  <1> HIDE DEF p, y
  <1>5. PairsAdvance
    BY <1>2, <1>3, <1>4, OnePair
  <1>6. Alone(c) /\ pc'[c] = "user" /\ loc'[c] = NoCall
    BY <1>1, FirstCall, Moves
  <1>7. InPart(c)
    BY <1>1, <1>6 DEF InPart, NoCall
  <1> QED
    BY <1>1, <1>5, <1>6, <1>7, SocketsStay, Keeps DEF SocketInv

(* What was usable stays usable.                                           *)
PairsStayUsable == Pairs \subseteq Pairs' /\ \A q : Usable(q) => Usable(q)'

(* The sockets in the hands of CPU d keep their pairs.                     *)
SocketsKept(d) ==
    /\ \A k \in DOMAIN fds[d] : sock'[fds[d][k].s].pair = sock[fds[d][k].s].pair
    /\ Appending(d) => sock'[loc[d].s].pair = sock[loc[d].s].pair

(* A CPU that does not move, and whose sockets keep their pairs.           *)
LEMMA Bystander ==
    ASSUME Good, NEW d \in CPU, pc'[d] = pc[d], loc'[d] = loc[d], fds'[d] = fds[d],
           PairsStayUsable, SocketsKept(d)
    PROVE  CpuOK(d)'
  <1> USE DEF Good, HandlesOK, CpuOK, PairsStayUsable, SocketsKept
  <1>1. ASSUME NEW k \in DOMAIN fds[d]
        PROVE  IF fds[d][k].op = "unset"
               THEN sock'[fds[d][k].s].pair = NULL \/ (pc'[d] = "wait" /\ loc'[d].s = fds[d][k].s)
               ELSE Usable(sock[fds[d][k].s].pair)'
    <2>1. IF fds[d][k].op = "unset"
          THEN sock[fds[d][k].s].pair = NULL \/ (pc[d] = "wait" /\ loc[d].s = fds[d][k].s)
          ELSE Usable(sock[fds[d][k].s].pair)
      OBVIOUS
    <2>2. sock'[fds[d][k].s].pair = sock[fds[d][k].s].pair
      OBVIOUS
    <2> QED
      BY <2>1, <2>2
  <1>2. Appending(d) =>
            IF loc[d].op = "accept" THEN Usable(sock[loc[d].s].pair)'
            ELSE loc[d].op = "unset" /\ sock'[loc[d].s].pair = NULL
    <2>1. Appending(d) =>
            IF loc[d].op = "accept" THEN Usable(sock[loc[d].s].pair)
            ELSE loc[d].op = "unset" /\ sock[loc[d].s].pair = NULL
      OBVIOUS
    <2> QED
      BY <2>1
  <1>3. Connecting(d) \/ pc[d] = "wait" => sock'[loc[d].s].pair = sock[loc[d].s].pair
    BY DEF Owned
  <1> QED
    BY <1>1, <1>2, <1>3

(* accept takes the pair at the front of its own socket.                   *)
LEMMA StepAccept ==
    ASSUME Good, NEW c \in CPU, k_driver_accept(c)
    PROVE  SocketInv'
  <1>1. CASE wild'
    BY <1>1 DEF SocketInv
  <1>2. CASE ~wild'
    <2>1. PICK h \in ToSet(fds[c]) :
              /\ pc[c] = "user" /\ sock[h.s].backlog[0] \notin {NULL, Stray}
              /\ loc' = [loc EXCEPT ![c] = [loc[c] EXCEPT !.s = h.s, !.p = sock[h.s].backlog[0]]]
              /\ Go(c, "buffers") /\ sock' = sock /\ pair' = pair /\ fds' = fds
      BY <1>2, ZenonT(60) DEF k_driver_accept, GoWild, At
    <2> DEFINE p == sock[h.s].backlog[0]
               l == [loc[c] EXCEPT !.s = h.s, !.p = p]
    <2>2. IsCall(l) /\ l.s = h.s /\ l.p = p
      BY DEF IsCall, Good, Shapes
    <2>3. PICK k \in DOMAIN fds[c] : fds[c][k].s = h.s
      BY DEF ToSet
    <2>4. h.s \in Socks /\ 0 \in Live(h.s) /\ p \in Pairs
      BY <2>1, <2>3, BoundsAssumption DEF Good, Owned, Known, Live
    <2> HIDE DEF l, p
    <2>5. Alone(c) /\ pc'[c] = "buffers" /\ loc'[c] = l
      BY <2>1, <2>2, Moves DEF l, p
    <2>6. /\ sock[h.s].backlog[0] = p
          /\ \A t \in Accepted : sock[t].pair # p
          /\ \A t \in Socks : \A j \in Live(t) : sock[t].backlog[j] = p => t = h.s /\ j = 0
          /\ \A d \in CPU : Taking(d) => loc[d].p # p
      <3>0. sock[h.s].backlog[0] \in Pairs
        BY <2>4 DEF p
      <3>1. /\ \A t \in Accepted : sock[t].pair # sock[h.s].backlog[0]
            /\ \A t \in Socks : \A j \in Live(t) :
                  sock[t].backlog[j] = sock[h.s].backlog[0] => t = h.s /\ j = 0
            /\ \A d \in CPU : Taking(d) /\ loc[d].p = sock[h.s].backlog[0] =>
                  loc[d].s = h.s
        <4>1. PICK i : i = 0
          OBVIOUS
        <4>2. h.s \in Socks /\ i \in Live(h.s) /\ sock[h.s].backlog[i] \in Pairs
          BY <2>4, <3>0, <4>1
        <4>3. /\ \A t \in Accepted : sock[t].pair # sock[h.s].backlog[i]
              /\ \A t \in Socks : \A j \in Live(t) :
                    sock[t].backlog[j] = sock[h.s].backlog[i] => t = h.s /\ j = i
              /\ \A d \in CPU : Taking(d) /\ loc[d].p = sock[h.s].backlog[i] =>
                    loc[d].s = h.s /\ i = 0
          BY <4>2, Zenon DEF Good, AcceptedOnce
        <4> QED
          BY <4>1, <4>3
      <3>3. ASSUME NEW d \in CPU, Taking(d), loc[d].p = p PROVE FALSE
        <4>1. loc[d].s = h.s
          BY <3>1, <3>3 DEF p
        <4>2. \E j \in DOMAIN fds[d] : fds[d][j].s = h.s
          BY <3>3, <4>1 DEF Good, Owned
        <4> QED
          BY <2>1, <2>3, <3>3, <4>2 DEF Good, Owned
      <3> QED
        BY <3>1, <3>3 DEF p
    <2>7. \A d \in CPU \ {c} : pc'[d] = pc[d] /\ loc'[d] = loc[d]
      BY <2>5 DEF Alone
    <2>8. /\ sock' = sock /\ pair' = pair /\ fds' = fds /\ Socks' = Socks /\ Pairs' = Pairs
          /\ \A t : Live(t)' = Live(t)
      BY <2>1 DEF Socks, Pairs, Live
    <2>9. Shapes'
      BY <2>5, <2>8 DEF Good, Shapes, Alone, Listed, IsSocket, IsPair
    <2>10. Known'
      BY <2>8 DEF Good, Known
    <2>11. Owned'
      BY <2>2, <2>3, <2>5, <2>7, <2>8 DEF Good, Owned
    <2>12. HandlesOK'
      <3>1. \A q : Usable(q)' <=> Usable(q)
        BY <2>8 DEF Usable
      <3>2. \A d \in CPU \ {c} : CpuOK(d)'
        BY <2>7, <2>8, <3>1, Bystander DEF PairsStayUsable, SocketsKept
      <3>3. \A j \in DOMAIN fds[c] :
                IF fds[c][j].op = "unset" THEN sock[fds[c][j].s].pair = NULL
                ELSE Usable(sock[fds[c][j].s].pair)
        BY <2>1 DEF Good, HandlesOK, CpuOK
      <3>4. CpuOK(c)'
        BY <2>5, <2>8, <3>1, <3>3 DEF CpuOK
      <3> QED
        BY <3>2, <3>4 DEF HandlesOK
    <2>13. NewPairs'
      BY <2>2, <2>4, <2>5, <2>6, <2>7, <2>8, BoundsAssumption DEF Good, NewPairs
    <2>14. TakenPairs' /\ ReadyFirst' /\ ConnectedOnce'
      BY <2>2, <2>4, <2>5, <2>7, <2>8 DEF Good, TakenPairs, ReadyFirst, ConnectedOnce
    <2>15. Accepted' = Accepted
      BY <2>1, <2>5, <2>7, <2>8 DEF Accepted
    <2>16. AcceptedOnce'
      BY <2>2, <2>5, <2>6, <2>7, <2>8, <2>15 DEF Good, AcceptedOnce
    <2> QED
      BY <2>9, <2>10, <2>11, <2>12, <2>13, <2>14, <2>16 DEF Good, SocketInv
  <1> QED
    BY <1>1, <1>2

(* No step but those of accept and connect adds to what AcceptedOnce and   *)
(* ConnectedOnce speak of.                                                 *)
NothingAccepted ==
    /\ \A s \in Accepted' : s \in Accepted /\ sock'[s].pair = sock[s].pair
    /\ \A d \in CPU : Taking(d)' => Taking(d) /\ loc'[d].p = loc[d].p /\ loc'[d].s = loc[d].s
    /\ \A s \in Socks' : \A i \in Live(s)' : sock'[s].backlog[i] \in Pairs' =>
          /\ s \in Socks /\ i \in Live(s) /\ sock[s].backlog[i] \in Pairs
          /\ sock'[s].backlog[i] = sock[s].backlog[i]

(* Then the accepting ends stay apart,                                     *)
LEMMA AcceptedKept ==
    ASSUME Good, NothingAccepted
    PROVE  AcceptedOnce'
  <1>1. \A s, t \in Accepted' : sock'[s].pair = sock'[t].pair => s = t
    BY DEF Good, AcceptedOnce, NothingAccepted
  <1>2. \A d \in CPU : Taking(d)' =>
            /\ \A s \in Accepted' : sock'[s].pair # loc'[d].p
            /\ \A e \in CPU : Taking(e)' /\ loc'[e].p = loc'[d].p => e = d
    BY DEF Good, AcceptedOnce, NothingAccepted
  <1>3. ASSUME NEW s \in Socks', NEW i \in Live(s)', sock'[s].backlog[i] \in Pairs'
        PROVE  /\ \A t \in Accepted' : sock'[t].pair # sock'[s].backlog[i]
               /\ \A t \in Socks' : \A j \in Live(t)' :
                     sock'[t].backlog[j] = sock'[s].backlog[i] => t = s /\ j = i
               /\ \A d \in CPU : Taking(d)' /\ loc'[d].p = sock'[s].backlog[i] =>
                     loc'[d].s = s /\ i = 0
    <2>1. /\ s \in Socks /\ i \in Live(s) /\ sock[s].backlog[i] \in Pairs
          /\ sock'[s].backlog[i] = sock[s].backlog[i]
      BY <1>3 DEF NothingAccepted
    <2>2. /\ \A t \in Accepted : sock[t].pair # sock[s].backlog[i]
          /\ \A t \in Socks : \A j \in Live(t) :
                sock[t].backlog[j] = sock[s].backlog[i] => t = s /\ j = i
          /\ \A d \in CPU : Taking(d) /\ loc[d].p = sock[s].backlog[i] =>
                loc[d].s = s /\ i = 0
      BY <2>1, Zenon DEF Good, AcceptedOnce
    <2>3. \A t \in Socks' : \A j \in Live(t)' :
                     sock'[t].backlog[j] = sock'[s].backlog[i] => t = s /\ j = i
      BY <1>3, <2>1, <2>2 DEF NothingAccepted
    <2>4. /\ \A t \in Accepted' : sock'[t].pair # sock'[s].backlog[i]
          /\ \A d \in CPU : Taking(d)' /\ loc'[d].p = sock'[s].backlog[i] =>
                     loc'[d].s = s /\ i = 0
      BY <2>1, <2>2 DEF NothingAccepted
    <2> QED
      BY <2>3, <2>4
  <1> QED
    BY <1>1, <1>2, <1>3 DEF AcceptedOnce

NothingConnected ==
    \A d \in CPU : \A k \in DOMAIN fds'[d] :
        (fds'[d][k].op # "accept" /\ sock'[fds'[d][k].s].pair # NULL) =>
            /\ k \in DOMAIN fds[d] /\ fds[d][k].op # "accept"
            /\ sock[fds[d][k].s].pair = sock'[fds'[d][k].s].pair

(* and so do the connecting ones.                                          *)
LEMMA ConnectedKept ==
    ASSUME Good, NothingConnected
    PROVE  ConnectedOnce'
  BY DEF Good, ConnectedOnce, NothingConnected

(* listen empties the backlog in use before there is a new one.            *)
LEMMA StepResetCurr ==
    ASSUME Good, NEW c \in CPU, ResetCurr(c)
    PROVE  SocketInv'
  <1> DEFINE d == loc[c].s
             y == [sock[d] EXCEPT !.curr = 0]
  <1>1. /\ pc[c] = "reset" /\ Go(c, "backlog") /\ loc' = loc /\ pair' = pair /\ fds' = fds
        /\ sock' = [sock EXCEPT ![d] = y]
    BY DEF ResetCurr, At
  <1>2. d \in Socks => /\ IsSocket(y) /\ y.pair = sock[d].pair
                       /\ y.max = sock[d].max /\ y.backlog = sock[d].backlog
    BY DEF Good, Shapes, IsSocket, Socks
  <1> HIDE DEF d, y
  <1>3. SameSockets
    BY <1>1, <1>2, OneSocket
  <1>4. IsCall(loc[c]) /\ loc' = [loc EXCEPT ![c] = loc[c]]
    BY <1>1 DEF Good, Shapes
  <1>5. Alone(c) /\ pc'[c] = "backlog" /\ loc'[c] = loc[c]
    BY <1>1, <1>4, Moves
  <1>6. \E k \in DOMAIN fds[c] : fds[c][k].s = loc[c].s
    BY <1>1 DEF Good, Owned
  <1>7. InPart(c)
    BY <1>1, <1>5, <1>6 DEF InPart
  <1> QED
    BY <1>1, <1>3, <1>5, <1>7, PairsStay, Keeps DEF SocketInv

(* listen gives its own socket an empty backlog.                           *)
LEMMA StepNewBacklog ==
    ASSUME Good, NEW c \in CPU, NewBacklog(c)
    PROVE  SocketInv'
  <1> DEFINE s == loc[c].s
             y == [sock[s] EXCEPT !.max = MaxConn,
                                  !.backlog = [i \in 0 .. MaxConn - 1 |-> Stray]]
  <1>1. /\ pc[c] = "backlog" /\ Go(c, "user") /\ loc' = [loc EXCEPT ![c] = NoCall]
        /\ pair' = pair /\ fds' = fds /\ sock' = [sock EXCEPT ![s] = y]
    BY DEF NewBacklog, At
  <1>2. s \in Socks
    BY <1>1 DEF Good, Owned
  <1>3. /\ IsSocket(y) /\ y.pair = sock[s].pair
        /\ \A i \in 0 .. MaxConn - 1 : y.backlog[i] = Stray
    BY <1>2, BoundsAssumption DEF Good, Shapes, IsSocket, Socks
  <1> HIDE DEF s, y
  <1>4. /\ Listed(sock)' /\ Len(sock)' = Len(sock)
        /\ \A t \in Socks : sock'[t] = IF t = s THEN y ELSE sock[t]
    <2>1. Len(sock) \in Nat /\ sock = [i \in 1 .. Len(sock) |-> sock[i]]
      BY DEF Good, Shapes, Listed
    <2>2. sock' = [i \in 1 .. Len(sock) |-> sock'[i]]
          /\ \A t \in 1 .. Len(sock) : sock'[t] = IF t = s THEN y ELSE sock[t]
      BY <1>1, <2>1
    <2> QED
      BY <2>1, <2>2, FunctionListed DEF Socks
  <1>5. Alone(c) /\ pc'[c] = "user" /\ loc'[c] = NoCall
    BY <1>1, FirstCall, Moves
  <1>6. \A d \in CPU \ {c} : pc'[d] = pc[d] /\ loc'[d] = loc[d]
    BY <1>5 DEF Alone
  <1>7. /\ pair' = pair /\ fds' = fds /\ Socks' = Socks /\ Pairs' = Pairs
        /\ \A t \in Socks : sock'[t].pair = sock[t].pair
        /\ \A t \in Socks : \A i \in 0 .. MaxConn - 1 :
              sock'[t].backlog[i] \in {sock[t].backlog[i], Stray}
        /\ \A t \in Socks \ {s} : sock'[t] = sock[t]
        /\ \A i \in 0 .. MaxConn - 1 : sock'[s].backlog[i] = Stray
    BY <1>1, <1>2, <1>3, <1>4 DEF Socks, Pairs
  <1>8. Shapes'
    <2>1. \A t \in Socks' : IsSocket(sock[t])'
      BY <1>3, <1>4, <1>7 DEF Good, Shapes, IsSocket, Socks
    <2> QED
      BY <1>4, <1>5, <1>7, <2>1 DEF Good, Shapes, Alone, Listed, IsPair, Socks
  <1>9. Known'
    BY <1>7 DEF Good, Known
  <1>10. Owned'
    BY <1>5, <1>6, <1>7 DEF Good, Owned
  <1>11. HandlesOK'
    <2>1. PairsStayUsable
      BY <1>7 DEF PairsStayUsable, Usable
    <2>2. \A d \in CPU : SocketsKept(d)
      BY <1>7 DEF SocketsKept, Good, Owned
    <2>3. \A d \in CPU \ {c} : CpuOK(d)'
      BY <1>6, <1>7, <2>1, <2>2, Bystander
    <2>4. \A j \in DOMAIN fds[c] :
              IF fds[c][j].op = "unset" THEN sock'[fds[c][j].s].pair = NULL
              ELSE Usable(sock[fds[c][j].s].pair)'
      BY <1>1, <2>1, <2>2 DEF Good, HandlesOK, CpuOK, PairsStayUsable, SocketsKept
    <2>5. CpuOK(c)'
      BY <1>5, <1>7, <2>4, FirstCall DEF CpuOK
    <2> QED
      BY <2>3, <2>5 DEF HandlesOK
  <1>12. NewPairs'
    BY <1>5, <1>6, <1>7 DEF Good, NewPairs, Pairs, Stray
  <1>13. TakenPairs' /\ ReadyFirst'
    BY <1>5, <1>6, <1>7 DEF Good, TakenPairs, ReadyFirst
  <1>14. ConnectedOnce'
    <2>1. NothingConnected
      BY <1>7 DEF NothingConnected, Good, Owned
    <2> QED
      BY <2>1, ConnectedKept
  <1>15. AcceptedOnce'
    <2>1. Accepted' = Accepted /\ Accepted \subseteq Socks
      BY <1>1, <1>5, <1>6, <1>7 DEF Accepted
    <2>2. ASSUME NEW t \in Socks', NEW i \in Live(t)', sock'[t].backlog[i] \in Pairs'
          PROVE  /\ t \in Socks /\ i \in Live(t) /\ sock[t].backlog[i] \in Pairs
                 /\ sock'[t].backlog[i] = sock[t].backlog[i]
      <3>1. t # s
        BY <1>7, <2>2 DEF Pairs, Stray, Live
      <3> QED
        BY <1>7, <2>2, <3>1 DEF Live
    <2>3. NothingAccepted
      BY <1>5, <1>6, <1>7, <2>1, <2>2 DEF NothingAccepted
    <2> QED
      BY <2>3, AcceptedKept
  <1> QED
    BY <1>8, <1>9, <1>10, <1>11, <1>12, <1>13, <1>14, <1>15 DEF Good, SocketInv

(* A socket as malloc and its initialisation leave it.                     *)
LEMMA FreshSocket ==
    ASSUME NEW next
    PROVE  /\ IsSocket(Fresh(next)) /\ Fresh(next).pair = NULL
           /\ \A i \in 0 .. MaxConn - 1 : Fresh(next).backlog[i] = Stray
  BY BoundsAssumption DEF Fresh, IsSocket, Stray, NULL

(* The new socket has no pair and an empty backlog.                        *)
LEMMA StepNewSocket ==
    ASSUME Good, NEW c \in CPU, k_driver_cskt(c)
    PROVE  SocketInv'
  <1>1. PICK next : sock' = Append(sock, Fresh(next))
    BY DEF k_driver_cskt
  <1> DEFINE f == Fresh(next)
             n == Len(sock) + 1
             l == [loc[c] EXCEPT !.s = n]
  <1>2. IsSocket(f) /\ f.pair = NULL /\ \A i \in 0 .. MaxConn - 1 : f.backlog[i] = Stray
    BY FreshSocket
  <1>3. /\ pc[c] = "user" /\ Go(c, "append") /\ loc' = [loc EXCEPT ![c] = l]
        /\ pair' = pair /\ fds' = fds
    BY DEF k_driver_cskt, At
  <1>4. IsCall(l) /\ l.s = n /\ l.op = "unset"
    BY <1>3, CallFields DEF Good, Shapes, HandlesOK, CpuOK, IsCall
  <1>5. Listed(sock) /\ Len(sock) \in Nat
    BY DEF Good, Shapes, Listed
  <1> HIDE DEF f, l
  <1>6. /\ Listed(sock)' /\ Len(sock)' = n /\ sock'[n] = f
        /\ \A t \in Socks : sock'[t] = sock[t]
    BY <1>1, <1>5, AppendListed DEF Socks, f
  <1>7. Alone(c) /\ pc'[c] = "append" /\ loc'[c] = l
    BY <1>3, <1>4, Moves
  <1>8. PICK m : m = n
    OBVIOUS
  <1>9. /\ Socks' = Socks \cup {m} /\ m \notin Socks /\ Pairs' = Pairs
        /\ m \in Socks' /\ sock'[m].pair = NULL /\ IsSocket(sock[m])'
        /\ \A i \in 0 .. MaxConn - 1 : sock'[m].backlog[i] = Stray
        /\ \A t \in Socks : sock'[t] = sock[t]
        /\ l.s = m
    BY <1>2, <1>3, <1>4, <1>5, <1>6, <1>8 DEF Socks, Pairs, IsSocket
  <1> HIDE DEF n
  <1>10. \A d \in CPU \ {c} : pc'[d] = pc[d] /\ loc'[d] = loc[d]
    BY <1>7 DEF Alone
  <1>11. Shapes'
    <2>1. \A t \in Socks' : IsSocket(sock[t])'
      BY <1>9 DEF Good, Shapes, IsSocket, Socks
    <2> QED
      BY <1>3, <1>6, <1>7, <2>1 DEF Good, Shapes, Alone, Listed, IsPair, Socks
  <1>12. Known'
    BY <1>9 DEF Good, Known
  <1>13. Owned'
    BY <1>3, <1>7, <1>9, <1>10 DEF Good, Owned
  <1>14. HandlesOK'
    <2>1. PairsStayUsable
      BY <1>3, <1>9 DEF PairsStayUsable, Usable
    <2>2. \A d \in CPU : SocketsKept(d)
      BY <1>9 DEF SocketsKept, Good, Owned
    <2>3. \A d \in CPU \ {c} : CpuOK(d)'
      BY <1>3, <1>10, <2>1, <2>2, Bystander
    <2>4. \A j \in DOMAIN fds[c] :
              IF fds[c][j].op = "unset" THEN sock'[fds[c][j].s].pair = NULL
              ELSE Usable(sock[fds[c][j].s].pair)'
      BY <1>3, <2>1, <2>2 DEF Good, HandlesOK, CpuOK, PairsStayUsable, SocketsKept
    <2>5. CpuOK(c)'
      BY <1>3, <1>4, <1>7, <1>9, <2>4 DEF CpuOK
    <2> QED
      BY <2>3, <2>5 DEF HandlesOK
  <1>15. NewPairs'
    BY <1>7, <1>9, <1>10 DEF Good, NewPairs, Pairs, Stray, NULL
  <1>16. TakenPairs' /\ ReadyFirst'
    BY <1>3, <1>7, <1>9, <1>10 DEF Good, TakenPairs, ReadyFirst
  <1>17. ConnectedOnce'
    <2>1. NothingConnected
      BY <1>3, <1>9 DEF NothingConnected, Good, Owned
    <2> QED
      BY <2>1, ConnectedKept
  <1>18. AcceptedOnce'
    <2>1. Accepted' \subseteq Accepted /\ Accepted \subseteq Socks
      BY <1>3, <1>4, <1>7, <1>9, <1>10 DEF Accepted, Good, Owned
    <2>2. ASSUME NEW t \in Socks', NEW i \in Live(t)', sock'[t].backlog[i] \in Pairs'
          PROVE  /\ t \in Socks /\ i \in Live(t) /\ sock[t].backlog[i] \in Pairs
                 /\ sock'[t].backlog[i] = sock[t].backlog[i]
      <3>1. t # m
        BY <1>9, <2>2 DEF Pairs, Stray, Live
      <3> QED
        BY <1>9, <2>2, <3>1 DEF Live
    <2>3. NothingAccepted
      BY <1>7, <1>9, <1>10, <2>1, <2>2 DEF NothingAccepted
    <2> QED
      BY <2>3, AcceptedKept
  <1> QED
    BY <1>11, <1>12, <1>13, <1>14, <1>15, <1>16, <1>17, <1>18 DEF Good, SocketInv

(* The socket gets its handle, or none is left for it.                     *)
LEMMA StepLink ==
    ASSUME Good, NEW c \in CPU, Link(c)
    PROVE  SocketInv'
  <1> DEFINE d0 == loc[c].d
             s == loc[c].s
             y == [sock[d0] EXCEPT !.next = s]
             h == [s |-> s, op |-> loc[c].op]
  <1>1. /\ pc[c] = "link" /\ Go(c, "user") /\ loc' = [loc EXCEPT ![c] = NoCall]
        /\ pair' = pair /\ sock' = [sock EXCEPT ![d0] = y]
    BY DEF Link, At
  <1>2. fds' = fds \/ fds' = [fds EXCEPT ![c] = Append(fds[c], h)]
    BY DEF Link
  <1>3. d0 \in Socks => /\ IsSocket(y) /\ y.pair = sock[d0].pair
                        /\ y.max = sock[d0].max /\ y.backlog = sock[d0].backlog
    BY DEF Good, Shapes, IsSocket, Socks
  <1>4. /\ s \in Socks /\ loc[c].op \in Ops
        /\ \A d \in CPU : \A j \in DOMAIN fds[d] : fds[d][j].s # s
        /\ \A d \in CPU : d # c /\ Appending(d) => loc[d].s # s
    BY <1>1 DEF Good, Owned, Shapes, IsCall
  <1>5. h \in [s : Int, op : Ops] /\ h.s = s /\ h.op = loc[c].op
    BY <1>4 DEF Socks
  <1> HIDE DEF y, h
  <1>6. SameSockets
    BY <1>1, <1>3, OneSocket
  <1>7. Alone(c) /\ pc'[c] = "user" /\ loc'[c] = NoCall
    BY <1>1, FirstCall, Moves
  <1>8. \A d \in CPU \ {c} : pc'[d] = pc[d] /\ loc'[d] = loc[d]
    BY <1>7 DEF Alone
  <1>9. /\ fds' \in [CPU -> Seq([s : Int, op : Ops])]
        /\ \A d \in CPU \ {c} : fds'[d] = fds[d]
        /\ DOMAIN fds[c] \subseteq DOMAIN fds'[c]
        /\ \A j \in DOMAIN fds[c] : fds'[c][j] = fds[c][j]
        /\ \A j \in DOMAIN fds'[c] \ DOMAIN fds[c] : fds'[c][j] = h
        /\ \A j, k \in DOMAIN fds'[c] \ DOMAIN fds[c] : j = k
    <2>1. fds \in [CPU -> Seq([s : Int, op : Ops])]
      BY DEF Good, Shapes
    <2>2. CASE fds' = fds
      BY <2>1, <2>2
    <2>3. CASE fds' = [fds EXCEPT ![c] = Append(fds[c], h)]
      <3>1. PICK q \in Seq([s : Int, op : Ops]) : q = fds[c]
        BY <2>1
      <3>2. PICK r : r = Append(q, h)
        OBVIOUS
      <3>3. /\ r \in Seq([s : Int, op : Ops]) /\ Len(r) = Len(q) + 1 /\ Len(q) \in Nat
            /\ r[Len(q) + 1] = h /\ \A i \in 1 .. Len(q) : r[i] = q[i]
            /\ DOMAIN q = 1 .. Len(q) /\ DOMAIN r = 1 .. Len(r)
        BY <1>5, <3>1, <3>2
      <3>4. fds' = [fds EXCEPT ![c] = r]
        BY <2>3, <3>1, <3>2
      <3>5. /\ fds'[c] = r /\ \A d \in CPU \ {c} : fds'[d] = fds[d]
            /\ fds' \in [CPU -> Seq([s : Int, op : Ops])]
        BY <2>1, <3>3, <3>4
      <3>6. /\ DOMAIN q \subseteq DOMAIN r
            /\ \A j \in DOMAIN q : r[j] = q[j]
            /\ \A j \in DOMAIN r \ DOMAIN q : j = Len(q) + 1
        BY <3>3
      <3> QED
        BY <3>1, <3>3, <3>5, <3>6
    <2> QED
      BY <1>2, <2>2, <2>3
  <1> DEFINE Old(d, k) == k \in DOMAIN fds[d] /\ fds'[d][k] = fds[d][k]
             New(d, k) == /\ d = c /\ k \notin DOMAIN fds[c]
                          /\ fds'[d][k].s = s /\ fds'[d][k].op = loc[c].op
  <1>9a. ASSUME NEW d \in CPU, NEW k \in DOMAIN fds'[d] PROVE Old(d, k) \/ New(d, k)
    <2>1. CASE d = c /\ k \notin DOMAIN fds[c]
      BY <1>5, <1>9, <2>1
    <2>2. CASE d = c /\ k \in DOMAIN fds[c]
      BY <1>9, <2>2
    <2>3. CASE d # c
      BY <1>9, <2>3
    <2> QED
      BY <2>1, <2>2, <2>3
  <1>10. /\ Socks' = Socks /\ Pairs' = Pairs
         /\ \A t \in Socks : /\ sock'[t].pair = sock[t].pair /\ Live(t)' = Live(t)
                             /\ sock'[t].backlog = sock[t].backlog
    BY <1>1, <1>6 DEF Socks, Pairs, SameSockets, Live
  <1>11. Shapes'
    BY <1>1, <1>6, <1>7, <1>9, <1>10 DEF Good, Shapes, SameSockets, Alone, Listed, IsPair, Socks
  <1>12. Known'
    BY <1>10 DEF Good, Known
  <1>13. Owned'
    <2>1. \A d \in CPU : \A k \in DOMAIN fds'[d] : fds'[d][k].s \in Socks'
      BY <1>4, <1>9a, <1>10 DEF Good, Owned
    <2>2. ASSUME NEW a \in CPU, NEW b \in CPU, NEW k \in DOMAIN fds'[a], NEW j \in DOMAIN fds'[b],
                 fds'[a][k].s = fds'[b][j].s
          PROVE  a = b /\ k = j
      <3>1. (Old(a, k) \/ New(a, k)) /\ (Old(b, j) \/ New(b, j))
        BY <1>9a
      <3>2. CASE Old(a, k) /\ Old(b, j)
        BY <2>2, <3>2 DEF Good, Owned
      <3>3. CASE Old(a, k) /\ New(b, j)
        BY <1>4, <2>2, <3>3
      <3>4. CASE New(a, k) /\ Old(b, j)
        BY <1>4, <2>2, <3>4
      <3>5. CASE New(a, k) /\ New(b, j)
        BY <1>9, <3>5
      <3> QED
        BY <3>1, <3>2, <3>3, <3>4, <3>5
    <2>3. \A a \in CPU : Appending(a)' =>
            /\ loc'[a].s \in Socks'
            /\ \A d \in CPU : \A j \in DOMAIN fds'[d] : fds'[d][j].s # loc'[a].s
            /\ \A d \in CPU : d # a /\ Appending(d)' => loc'[d].s # loc'[a].s
      BY <1>4, <1>7, <1>8, <1>9a, <1>10 DEF Good, Owned
    <2>4. \A a \in CPU : (Connecting(a) \/ Taking(a) \/ pc[a] \in {"reset", "backlog", "wait"})' =>
            \E k \in DOMAIN fds'[a] : fds'[a][k].s = loc'[a].s
      <3>1. SUFFICES ASSUME NEW a \in CPU,
                            (Connecting(a) \/ Taking(a) \/ pc[a] \in {"reset", "backlog", "wait"})'
                     PROVE  \E k \in DOMAIN fds'[a] : fds'[a][k].s = loc'[a].s
        OBVIOUS
      <3>2. a # c /\ loc'[a] = loc[a] /\ pc'[a] = pc[a] /\ fds'[a] = fds[a]
        BY <1>7, <1>8, <1>9, <3>1
      <3>3. \E k \in DOMAIN fds[a] : fds[a][k].s = loc[a].s
        BY <3>1, <3>2 DEF Good, Owned
      <3> QED
        BY <3>2, <3>3
    <2> QED
      BY <2>1, <2>2, <2>3, <2>4 DEF Owned
  <1>14. PairsStayUsable /\ \A d \in CPU : SocketsKept(d)
    BY <1>1, <1>10 DEF PairsStayUsable, Usable, SocketsKept, Good, Owned
  <1>15. CpuOK(c)
    BY DEF Good, HandlesOK
  <1>16. HandlesOK'
    <2>1. \A d \in CPU \ {c} : CpuOK(d)'
      BY <1>8, <1>9, <1>14, Bystander
    <2>2. ASSUME NEW j \in DOMAIN fds'[c]
          PROVE  IF fds'[c][j].op = "unset" THEN sock'[fds'[c][j].s].pair = NULL
                 ELSE Usable(sock[fds[c][j].s].pair)'
      <3>1. CASE j \in DOMAIN fds[c]
        <4>1. IF fds[c][j].op = "unset" THEN sock[fds[c][j].s].pair = NULL
              ELSE Usable(sock[fds[c][j].s].pair)
          BY <1>1, <1>15, <3>1 DEF CpuOK
        <4>2. fds'[c][j] = fds[c][j] /\ sock'[fds[c][j].s].pair = sock[fds[c][j].s].pair
          BY <1>9, <1>14, <3>1 DEF SocketsKept
        <4> QED
          BY <1>14, <4>1, <4>2 DEF PairsStayUsable
      <3>2. CASE j \notin DOMAIN fds[c]
        <4>1. IF loc[c].op = "accept" THEN Usable(sock[s].pair)
              ELSE loc[c].op = "unset" /\ sock[s].pair = NULL
          BY <1>1, <1>15 DEF CpuOK
        <4>2. fds'[c][j].s = s /\ fds'[c][j].op = loc[c].op /\ sock'[s].pair = sock[s].pair
          BY <1>4, <1>5, <1>9, <1>10, <3>2
        <4> QED
          BY <1>14, <4>1, <4>2 DEF PairsStayUsable
      <3> QED
        BY <3>1, <3>2
    <2>3. CpuOK(c)'
      BY <1>7, <2>2, FirstCall DEF CpuOK
    <2> QED
      BY <2>1, <2>3 DEF HandlesOK
  <1>17. NewPairs'
    BY <1>7, <1>8, <1>10 DEF Good, NewPairs
  <1>18. TakenPairs' /\ ReadyFirst'
    BY <1>1, <1>7, <1>8, <1>10 DEF Good, TakenPairs, ReadyFirst
  <1>19. ConnectedOnce'
    <2>1. ASSUME NEW d \in CPU, NEW k \in DOMAIN fds'[d],
                 fds'[d][k].op # "accept", sock'[fds'[d][k].s].pair # NULL
          PROVE  /\ k \in DOMAIN fds[d] /\ fds[d][k].op # "accept"
                 /\ sock[fds[d][k].s].pair = sock'[fds'[d][k].s].pair
      <3>1. k \in DOMAIN fds[d]
        <4>1. SUFFICES ASSUME k \notin DOMAIN fds[d] PROVE FALSE
          OBVIOUS
        <4>2. d = c /\ fds'[d][k].s = s /\ fds'[d][k].op = loc[c].op
          BY <1>5, <1>9, <4>1
        <4>3. sock[s].pair = NULL
          BY <1>1, <1>15, <2>1, <4>2 DEF CpuOK
        <4> QED
          BY <1>4, <1>10, <2>1, <4>2, <4>3
      <3>2. fds'[d][k] = fds[d][k] /\ sock'[fds[d][k].s].pair = sock[fds[d][k].s].pair
        BY <1>9, <1>14, <3>1 DEF SocketsKept
      <3> QED
        BY <2>1, <3>1, <3>2
    <2>2. NothingConnected
      BY <2>1 DEF NothingConnected
    <2> QED
      BY <2>2, ConnectedKept
  <1>20. AcceptedOnce'
    <2>1. ASSUME NEW t \in Accepted' PROVE t \in Accepted /\ sock'[t].pair = sock[t].pair
      <3>1. t \in Socks /\ sock'[t].pair = sock[t].pair
        BY <1>10 DEF Accepted
      <3>2. CASE \E d \in CPU : \E k \in DOMAIN fds'[d] :
                    fds'[d][k].op = "accept" /\ fds'[d][k].s = t
        <4>0. PICK d \in CPU : \E k \in DOMAIN fds'[d] :
                  fds'[d][k].op = "accept" /\ fds'[d][k].s = t
          BY <3>2
        <4>1. PICK k \in DOMAIN fds'[d] : fds'[d][k].op = "accept" /\ fds'[d][k].s = t
          BY <4>0
        <4>2. CASE k \in DOMAIN fds[d]
          <5>1. fds[d][k].op = "accept" /\ fds[d][k].s = t
            BY <1>9a, <4>1, <4>2
          <5> QED
            BY <3>1, <4>2, <5>1 DEF Accepted
        <4>3. CASE k \notin DOMAIN fds[d]
          <5>1. d = c /\ s = t /\ loc[c].op = "accept"
            BY <1>5, <1>9, <4>1, <4>3
          <5> QED
            BY <1>1, <3>1, <5>1 DEF Accepted
        <4> QED
          BY <4>2, <4>3
      <3>3. CASE \E d \in CPU : Appending(d)' /\ loc'[d].op = "accept" /\ loc'[d].s = t
        BY <1>7, <1>8, <3>1, <3>3 DEF Accepted
      <3> QED
        BY <3>1, <3>2, <3>3 DEF Accepted
    <2>2. NothingAccepted
      BY <1>7, <1>8, <1>10, <2>1 DEF NothingAccepted
    <2> QED
      BY <2>2, AcceptedKept
  <1> QED
    BY <1>11, <1>12, <1>13, <1>16, <1>17, <1>18, <1>19, <1>20 DEF Good, SocketInv

(* connect leaves its loop: the handle gets the operations of a connected  *)
(* socket, and the pair has its buffers by then.                           *)
LEMMA StepConnected ==
    ASSUME Good, NEW c \in CPU, Connected(c)
    PROVE  SocketInv'
  <1> DEFINE s == loc[c].s
             y == [sock[s] EXCEPT !.state = "connected"]
  <1>1. /\ pc[c] = "wait" /\ Go(c, "user") /\ loc' = [loc EXCEPT ![c] = NoCall]
        /\ pair' = pair /\ sock' = [sock EXCEPT ![s] = y] /\ pair[loc[c].p].connected
        /\ fds' = [fds EXCEPT ![c] = [k \in DOMAIN fds[c] |->
                      IF fds[c][k].s = s THEN [fds[c][k] EXCEPT !.op = "normal"] ELSE fds[c][k]]]
    BY DEF Connected, At
  <1>2. s \in Socks => /\ IsSocket(y) /\ y.pair = sock[s].pair
                       /\ y.max = sock[s].max /\ y.backlog = sock[s].backlog
    BY DEF Good, Shapes, IsSocket, Socks
  <1>3. CpuOK(c)
    BY DEF Good, HandlesOK
  <1>4. /\ loc[c].p \in Pairs /\ sock[s].pair = loc[c].p
        /\ \A k \in DOMAIN fds[c] : fds[c][k].s = s => fds[c][k].op = "unset"
    BY <1>1, <1>3 DEF CpuOK
  <1>5. Usable(sock[s].pair)
    BY <1>1, <1>4 DEF Good, ReadyFirst, Usable
  <1> HIDE DEF y
  <1>6. SameSockets
    BY <1>1, <1>2, OneSocket
  <1>7. Alone(c) /\ pc'[c] = "user" /\ loc'[c] = NoCall
    BY <1>1, FirstCall, Moves
  <1>8. \A d \in CPU \ {c} : pc'[d] = pc[d] /\ loc'[d] = loc[d]
    BY <1>7 DEF Alone
  <1>9. /\ fds' \in [CPU -> Seq([s : Int, op : Ops])]
        /\ \A d \in CPU \ {c} : fds'[d] = fds[d]
        /\ \A d \in CPU : DOMAIN fds'[d] = DOMAIN fds[d]
        /\ \A d \in CPU : \A k \in DOMAIN fds[d] : fds'[d][k].s = fds[d][k].s
        /\ \A k \in DOMAIN fds[c] : fds'[c][k].op = IF fds[c][k].s = s THEN "normal" ELSE fds[c][k].op
    <2>1. fds \in [CPU -> Seq([s : Int, op : Ops])]
      BY DEF Good, Shapes
    <2>2. PICK q \in Seq([s : Int, op : Ops]) : q = fds[c]
      BY <2>1
    <2>3. PICK n \in Nat : n = Len(q)
      BY <2>2
    <2>4. DOMAIN q = 1 .. n /\ \A k \in 1 .. n : q[k] \in [s : Int, op : Ops]
      <3> DEFINE T == [s : Int, op : Ops]
      <3>1. q \in Seq(T)
        OBVIOUS
      <3> HIDE DEF T
      <3>2. DOMAIN q = 1 .. n /\ \A k \in 1 .. n : q[k] \in T
        BY <2>3, <3>1
      <3> QED
        BY <3>2 DEF T
    <2> DEFINE g == [k \in 1 .. n |-> IF q[k].s = s THEN [q[k] EXCEPT !.op = "normal"] ELSE q[k]]
    <2>5. fds' = [fds EXCEPT ![c] = g]
      BY <1>1, <2>2, <2>4
    <2>6. \A k \in 1 .. n : /\ g[k] \in [s : Int, op : Ops] /\ g[k].s = q[k].s
                            /\ g[k].op = IF q[k].s = s THEN "normal" ELSE q[k].op
      BY <2>4 DEF Ops
    <2>7. g \in [1 .. n -> [s : Int, op : Ops]] /\ DOMAIN g = 1 .. n
      BY <2>6
    <2> HIDE DEF g
    <2>8. g \in Seq([s : Int, op : Ops])
      <3> DEFINE T == [s : Int, op : Ops]
      <3>1. g \in [1 .. n -> T]
        BY <2>7
      <3> HIDE DEF T
      <3>2. g \in Seq(T)
        BY <3>1
      <3> QED
        BY <3>2 DEF T
    <2>9. fds'[c] = g /\ \A d \in CPU \ {c} : fds'[d] = fds[d]
      BY <2>1, <2>5
    <2>10. fds' \in [CPU -> Seq([s : Int, op : Ops])]
      BY <2>1, <2>5, <2>8
    <2> QED
      BY <2>2, <2>4, <2>6, <2>7, <2>9, <2>10
  <1>10. /\ Socks' = Socks /\ Pairs' = Pairs
         /\ \A t \in Socks : /\ sock'[t].pair = sock[t].pair /\ Live(t)' = Live(t)
                             /\ sock'[t].backlog = sock[t].backlog
    BY <1>1, <1>6 DEF Socks, Pairs, SameSockets, Live
  <1>11. Shapes'
    BY <1>1, <1>6, <1>7, <1>9, <1>10, ZenonT(60) DEF Good, Shapes, SameSockets, Alone, Listed, IsPair, Socks
  <1>12. Known'
    BY <1>10 DEF Good, Known
  <1>13. Owned'
    <2>1. \A d \in CPU : \A k \in DOMAIN fds'[d] : fds'[d][k].s \in Socks'
      <3>1. \A d \in CPU : \A k \in DOMAIN fds[d] : fds[d][k].s \in Socks
        BY DEF Good, Owned
      <3>2. ASSUME NEW d \in CPU, NEW k \in DOMAIN fds'[d] PROVE fds'[d][k].s \in Socks'
        <4>1. k \in DOMAIN fds[d] /\ fds'[d][k].s = fds[d][k].s
          BY <1>9, Zenon
        <4> QED
          BY <1>10, <3>1, <4>1
      <3> QED
        BY <3>2
    <2>2. ASSUME NEW a \in CPU, NEW b \in CPU, NEW k \in DOMAIN fds'[a], NEW j \in DOMAIN fds'[b],
                 fds'[a][k].s = fds'[b][j].s
          PROVE  a = b /\ k = j
      <3>1. \A d, e \in CPU : \A m \in DOMAIN fds[d], n \in DOMAIN fds[e] :
                fds[d][m].s = fds[e][n].s => d = e /\ m = n
        BY DEF Good, Owned
      <3>2. k \in DOMAIN fds[a] /\ fds'[a][k].s = fds[a][k].s
        BY <1>9, Zenon
      <3>3. j \in DOMAIN fds[b] /\ fds'[b][j].s = fds[b][j].s
        BY <1>9, Zenon
      <3>4. fds[a][k].s = fds[b][j].s
        BY <2>2, <3>2, <3>3
      <3> QED
        BY <3>1, <3>2, <3>3, <3>4
    <2>3. \A a \in CPU : Appending(a)' =>
            /\ loc'[a].s \in Socks'
            /\ \A d \in CPU : \A j \in DOMAIN fds'[d] : fds'[d][j].s # loc'[a].s
            /\ \A d \in CPU : d # a /\ Appending(d)' => loc'[d].s # loc'[a].s
      <3>1. \A a \in CPU : Appending(a)' => Appending(a) /\ loc'[a].s = loc[a].s
        BY <1>7, <1>8
      <3>2. \A d \in CPU : \A j \in DOMAIN fds'[d] :
                j \in DOMAIN fds[d] /\ fds'[d][j].s = fds[d][j].s
        BY <1>9
      <3>3. \A a \in CPU : Appending(a) =>
              /\ loc[a].s \in Socks
              /\ \A d \in CPU : \A j \in DOMAIN fds[d] : fds[d][j].s # loc[a].s
              /\ \A d \in CPU : d # a /\ Appending(d) => loc[d].s # loc[a].s
        BY DEF Good, Owned
      <3> HIDE DEF Appending
      <3> QED
        BY <1>10, <3>1, <3>2, <3>3
    <2>4. \A a \in CPU : (Connecting(a) \/ Taking(a) \/ pc[a] \in {"reset", "backlog", "wait"})' =>
            \E k \in DOMAIN fds'[a] : fds'[a][k].s = loc'[a].s
      <3>1. SUFFICES ASSUME NEW a \in CPU,
                            (Connecting(a) \/ Taking(a) \/ pc[a] \in {"reset", "backlog", "wait"})'
                     PROVE  \E k \in DOMAIN fds'[a] : fds'[a][k].s = loc'[a].s
        OBVIOUS
      <3>2. a # c /\ loc'[a] = loc[a] /\ pc'[a] = pc[a] /\ fds'[a] = fds[a]
        BY <1>7, <1>8, <1>9, <3>1
      <3>3. \E k \in DOMAIN fds[a] : fds[a][k].s = loc[a].s
        BY <3>1, <3>2 DEF Good, Owned
      <3> QED
        BY <3>2, <3>3
    <2> QED
      BY <2>1, <2>2, <2>3, <2>4 DEF Owned
  <1>14. PairsStayUsable /\ \A d \in CPU : SocketsKept(d)
    BY <1>1, <1>10 DEF PairsStayUsable, Usable, SocketsKept, Good, Owned
  <1>15. HandlesOK'
    <2>1. \A d \in CPU \ {c} : CpuOK(d)'
      BY <1>8, <1>9, <1>14, Bystander
    <2>2. ASSUME NEW j \in DOMAIN fds'[c]
          PROVE  IF fds'[c][j].op = "unset" THEN sock'[fds'[c][j].s].pair = NULL
                 ELSE Usable(sock[fds[c][j].s].pair)'
      <3>1. j \in DOMAIN fds[c] /\ fds'[c][j].s = fds[c][j].s
            /\ sock'[fds[c][j].s].pair = sock[fds[c][j].s].pair
        BY <1>9, <1>14 DEF SocketsKept
      <3>2. CASE fds[c][j].s = s
        BY <1>5, <1>9, <1>14, <3>1, <3>2 DEF PairsStayUsable
      <3>3. CASE fds[c][j].s # s
        <4>1. IF fds[c][j].op = "unset" THEN sock[fds[c][j].s].pair = NULL
              ELSE Usable(sock[fds[c][j].s].pair)
          BY <1>1, <1>3, <3>1, <3>3 DEF CpuOK
        <4>2. fds'[c][j].op = fds[c][j].op
          BY <1>9, <3>1, <3>3
        <4> QED
          BY <1>14, <3>1, <4>1, <4>2 DEF PairsStayUsable
      <3> QED
        BY <3>2, <3>3
    <2>3. CpuOK(c)'
      BY <1>7, <2>2, FirstCall DEF CpuOK
    <2> QED
      BY <2>1, <2>3 DEF HandlesOK
  <1>16. NewPairs'
    BY <1>7, <1>8, <1>10 DEF Good, NewPairs
  <1>17. TakenPairs' /\ ReadyFirst'
    BY <1>1, <1>7, <1>8, <1>10 DEF Good, TakenPairs, ReadyFirst
  <1>18. ConnectedOnce'
    <2>1. NothingConnected
      <3>1. ASSUME NEW d \in CPU, NEW k \in DOMAIN fds'[d],
                   fds'[d][k].op # "accept", sock'[fds'[d][k].s].pair # NULL
            PROVE  /\ k \in DOMAIN fds[d] /\ fds[d][k].op # "accept"
                   /\ sock[fds[d][k].s].pair = sock'[fds'[d][k].s].pair
        <4>1. /\ k \in DOMAIN fds[d] /\ fds'[d][k].s = fds[d][k].s
              /\ sock'[fds[d][k].s].pair = sock[fds[d][k].s].pair
          BY <1>9, <1>14 DEF SocketsKept
        <4>2. fds[d][k].op # "accept"
          BY <1>4, <1>9, <3>1, <4>1
        <4> QED
          BY <4>1, <4>2
      <3> QED
        BY <3>1 DEF NothingConnected
    <2> QED
      BY <2>1, ConnectedKept
  <1>19. AcceptedOnce'
    <2>1. ASSUME NEW t \in Accepted' PROVE t \in Accepted /\ sock'[t].pair = sock[t].pair
      <3>1. t \in Socks /\ sock'[t].pair = sock[t].pair
        BY <1>10 DEF Accepted
      <3>2. CASE \E d \in CPU : \E k \in DOMAIN fds'[d] :
                    fds'[d][k].op = "accept" /\ fds'[d][k].s = t
        <4>1. PICK d \in CPU : \E k \in DOMAIN fds'[d] :
                  fds'[d][k].op = "accept" /\ fds'[d][k].s = t
          BY <3>2
        <4>2. PICK k \in DOMAIN fds'[d] : fds'[d][k].op = "accept" /\ fds'[d][k].s = t
          BY <4>1
        <4>3. k \in DOMAIN fds[d] /\ fds[d][k].op = "accept" /\ fds[d][k].s = t
          BY <1>9, <4>2
        <4> QED
          BY <3>1, <4>3 DEF Accepted
      <3>3. CASE \E d \in CPU : Appending(d)' /\ loc'[d].op = "accept" /\ loc'[d].s = t
        BY <1>7, <1>8, <3>1, <3>3 DEF Accepted
      <3> QED
        BY <3>1, <3>2, <3>3 DEF Accepted
    <2>2. NothingAccepted
      BY <1>7, <1>8, <1>10, <2>1 DEF NothingAccepted
    <2> QED
      BY <2>2, AcceptedKept
  <1> QED
    BY <1>11, <1>12, <1>13, <1>15, <1>16, <1>17, <1>18, <1>19 DEF Good, SocketInv

(* connect makes a pair that is in no socket and in no backlog.            *)
LEMMA StepReadCurr ==
    ASSUME Good, NEW c \in CPU, ReadCurr(c)
    PROVE  SocketInv'
  <1>1. CASE wild'
    BY <1>1 DEF SocketInv
  <1>2. CASE ~wild'
    <2> DEFINE n == Len(pair) + 1
               l == [loc[c] EXCEPT !.p = n, !.i = sock[loc[c].d].curr]
    <2>1. /\ pc[c] = "push" /\ Go(c, "curr") /\ loc' = [loc EXCEPT ![c] = l]
          /\ pair' = Append(pair, NewPair) /\ sock' = sock /\ fds' = fds
      BY <1>2 DEF ReadCurr, GoWild, At
    <2>2. IsCall(l) /\ l.s = loc[c].s /\ l.p = n
      BY DEF Good, Shapes, IsCall
    <2>3. Listed(pair) /\ Len(pair) \in Nat
      BY DEF Good, Shapes, Listed
    <2>4. IsPair(NewPair) /\ ~NewPair.connected
      BY DEF IsPair, NewPair
    <2> HIDE DEF l
    <2>5. /\ Listed(pair)' /\ Len(pair)' = n /\ pair'[n] = NewPair
          /\ \A q \in Pairs : pair'[q] = pair[q]
      BY <2>1, <2>3, AppendListed DEF Pairs
    <2>6. Alone(c) /\ pc'[c] = "curr" /\ loc'[c] = l
      BY <2>1, <2>2, Moves
    <2>7. \A d \in CPU \ {c} : pc'[d] = pc[d] /\ loc'[d] = loc[d]
      BY <2>6 DEF Alone
    <2>8. PICK m : m = n
      OBVIOUS
    <2>9. /\ Pairs' = Pairs \cup {m} /\ m \notin Pairs \cup {NULL, Stray} /\ Socks' = Socks
          /\ pair'[m] = NewPair /\ l.p = m
          /\ \A q \in Pairs : pair'[q] = pair[q]
          /\ \A t : Live(t)' = Live(t)
      BY <2>1, <2>2, <2>3, <2>5, <2>8 DEF Pairs, Socks, NULL, Stray, Live
    <2> HIDE DEF n
    <2>10. CpuOK(c)
      BY DEF Good, HandlesOK
    <2>11. \E k \in DOMAIN fds[c] : fds[c][k].s = loc[c].s
      BY <2>1 DEF Good, Owned
    <2>12. Shapes'
      <3>1. \A q \in Pairs' : IsPair(pair[q])'
        BY <2>4, <2>9 DEF Good, Shapes, IsPair, Pairs
      <3> QED
        BY <2>1, <2>5, <2>6, <3>1 DEF Good, Shapes, Alone, Listed, IsSocket, Pairs
    <2>13. Known'
      BY <2>1, <2>9 DEF Good, Known
    <2>14. Owned'
      BY <2>1, <2>2, <2>6, <2>7, <2>9, <2>11 DEF Good, Owned
    <2>15. HandlesOK'
      <3>1. PairsStayUsable
        BY <2>9 DEF PairsStayUsable, Usable
      <3>2. \A d \in CPU : SocketsKept(d)
        BY <2>1 DEF SocketsKept
      <3>3. \A d \in CPU \ {c} : CpuOK(d)'
        BY <2>1, <2>7, <3>1, <3>2, Bystander
      <3>4. \A j \in DOMAIN fds[c] :
                IF fds[c][j].op = "unset" THEN sock[fds[c][j].s].pair = NULL
                ELSE Usable(sock[fds[c][j].s].pair)
        BY <2>1, <2>10 DEF CpuOK
      <3>5. \A j \in DOMAIN fds[c] :
                IF fds[c][j].op = "unset" THEN sock'[fds[c][j].s].pair = NULL
                ELSE Usable(sock[fds[c][j].s].pair)'
        BY <2>1, <3>1, <3>4 DEF PairsStayUsable
      <3>6. sock[loc[c].s].pair = NULL
        BY <2>1, <2>10 DEF CpuOK
      <3>7. CpuOK(c)'
        BY <2>1, <2>2, <2>6, <3>5, <3>6 DEF CpuOK
      <3> QED
        BY <3>3, <3>7 DEF HandlesOK
    <2>16. NewPairs'
      <3>1. \A s \in Socks : sock[s].pair # m /\ \A i \in 0 .. MaxConn - 1 : sock[s].backlog[i] # m
        BY <2>9 DEF Good, Known
      <3>2. \A d \in CPU : Bringing(d) \/ Taking(d) => loc[d].p # m
        BY <2>9 DEF Good, NewPairs, TakenPairs
      <3> QED
        BY <2>1, <2>6, <2>7, <2>9, <3>1, <3>2 DEF Good, NewPairs
    <2>17. TakenPairs'
      BY <2>6, <2>7, <2>9 DEF Good, TakenPairs
    <2>18. ReadyFirst'
      BY <2>4, <2>9 DEF Good, ReadyFirst
    <2>19. ConnectedOnce'
      BY <2>1 DEF Good, ConnectedOnce
    <2>20. AcceptedOnce'
      <3>1. Accepted' = Accepted
        BY <2>1, <2>6, <2>7, <2>9 DEF Accepted
      <3>2. \A s \in Socks : \A i \in Live(s) : sock[s].backlog[i] # m
        BY <2>9 DEF Good, Known, Live
      <3>3. NothingAccepted
        BY <2>1, <2>6, <2>7, <2>9, <3>1, <3>2 DEF NothingAccepted
      <3> QED
        BY <3>3, AcceptedKept
    <2> QED
      BY <2>12, <2>13, <2>14, <2>15, <2>16, <2>17, <2>18, <2>19, <2>20 DEF Good, SocketInv
  <1> QED
    BY <1>1, <1>2

(* What AcceptedOnce says of a pair that waits in a backlog.               *)
LEMMA WaitsOnce ==
    ASSUME Good, NEW s \in Socks, NEW i \in Live(s), sock[s].backlog[i] \in Pairs
    PROVE  /\ \A t \in Accepted : sock[t].pair # sock[s].backlog[i]
           /\ \A t \in Socks : \A j \in Live(t) :
                 sock[t].backlog[j] = sock[s].backlog[i] => t = s /\ j = i
           /\ \A c \in CPU : Taking(c) /\ loc[c].p = sock[s].backlog[i] => loc[c].s = s /\ i = 0
  BY Zenon DEF Good, AcceptedOnce

(* connect puts the new pair into a backlog and into its own socket.       *)
LEMMA StepStorePair ==
    ASSUME Good, NEW c \in CPU, StorePair(c)
    PROVE  SocketInv'
  <1>1. CASE wild'
    BY <1>1 DEF SocketInv
  <1>2. CASE ~wild'
    <2> DEFINE s == loc[c].s
               d == loc[c].d
               i == loc[c].i
               p == loc[c].p
               A(t) == IF t = d THEN [sock[t] EXCEPT !.backlog[i] = p] ELSE sock[t]
               B(t) == IF t = s THEN [A(t) EXCEPT !.pair = p] ELSE A(t)
    <2>1. /\ pc[c] = "store" /\ Go(c, "wait") /\ loc' = loc /\ pair' = pair /\ fds' = fds
          /\ sock' = [sock EXCEPT ![d].backlog[i] = p, ![s].pair = p]
      BY <1>2 DEF StorePair, GoWild, At
    <2>2. /\ s \in Socks /\ p \in Pairs /\ sock[s].pair = NULL
          /\ \E k \in DOMAIN fds[c] : fds[c][k].s = s
          /\ \A t \in Socks : sock[t].pair # p
          /\ \A t \in Socks : \A j \in 0 .. MaxConn - 1 : sock[t].backlog[j] # p
          /\ \A e \in CPU : e # c /\ (Bringing(e) \/ Taking(e)) => loc[e].p # p
      BY <2>1 DEF Good, Owned, HandlesOK, CpuOK, NewPairs
    <2>3. Len(sock) \in Nat /\ sock = [t \in 1 .. Len(sock) |-> sock[t]]
      BY DEF Good, Shapes, Listed
    <2>4. sock' = [t \in 1 .. Len(sock) |-> B(t)]
      <3>1. PICK x : x = [sock EXCEPT ![d].backlog[i] = p]
        OBVIOUS
      <3>2. x = [t \in 1 .. Len(sock) |-> A(t)]
        BY <2>3, <3>1
      <3>3. sock' = [x EXCEPT ![s].pair = p]
        BY <2>1, <3>1
      <3> QED
        BY <3>2, <3>3
    <2>5. ASSUME NEW t \in 1 .. Len(sock)
          PROVE  /\ IsSocket(B(t)) /\ B(t).max = sock[t].max
                 /\ B(t).pair = IF t = s THEN p ELSE sock[t].pair
                 /\ \A j \in 0 .. MaxConn - 1 :
                       B(t).backlog[j] = IF t = d /\ j = i THEN p ELSE sock[t].backlog[j]
      <3>1. IsSocket(sock[t])
        BY DEF Good, Shapes
      <3>2. /\ IsSocket(A(t)) /\ A(t).max = sock[t].max /\ A(t).pair = sock[t].pair
            /\ \A j \in 0 .. MaxConn - 1 :
                  A(t).backlog[j] = IF t = d /\ j = i THEN p ELSE sock[t].backlog[j]
        BY <3>1 DEF IsSocket
      <3> HIDE DEF A
      <3> QED
        BY <3>2 DEF IsSocket
    <2> HIDE DEF A, B
    <2>6. Listed(sock)' /\ Len(sock)' = Len(sock) /\ \A t \in 1 .. Len(sock) : sock'[t] = B(t)
      BY <2>3, <2>4, FunctionListed
    <2>7. /\ Socks' = Socks /\ Pairs' = Pairs /\ fds' = fds
          /\ \A t \in Socks :
                /\ IsSocket(sock[t])' /\ Live(t)' = Live(t)
                /\ sock'[t].pair = IF t = s THEN p ELSE sock[t].pair
                /\ \A j \in 0 .. MaxConn - 1 :
                      sock'[t].backlog[j] = IF t = d /\ j = i THEN p ELSE sock[t].backlog[j]
      <3>1. Socks' = Socks /\ Pairs' = Pairs /\ fds' = fds
        BY <2>1, <2>6 DEF Socks, Pairs
      <3>2. ASSUME NEW t \in Socks
            PROVE  /\ IsSocket(sock[t])' /\ Live(t)' = Live(t)
                   /\ sock'[t].pair = IF t = s THEN p ELSE sock[t].pair
                   /\ \A j \in 0 .. MaxConn - 1 :
                      sock'[t].backlog[j] = IF t = d /\ j = i THEN p ELSE sock[t].backlog[j]
        <4>1. t \in 1 .. Len(sock) /\ sock'[t] = B(t)
          BY <2>6 DEF Socks
        <4>2. sock'[t].max = sock[t].max /\ IsSocket(sock'[t])
          BY <2>5, <4>1
        <4>3. Live(t)' = Live(t)
          BY <4>2 DEF Live
        <4>4. IsSocket(sock[t])'
          BY <4>2 DEF IsSocket
        <4> QED
          BY <2>5, <4>1, <4>3, <4>4
      <3> QED
        BY <3>1, <3>2
    <2>8. IsCall(loc[c]) /\ loc' = [loc EXCEPT ![c] = loc[c]]
      BY <2>1 DEF Good, Shapes
    <2>9. Alone(c) /\ pc'[c] = "wait"
      BY <2>1, <2>8, Moves
    <2>10. \A e \in CPU \ {c} : pc'[e] = pc[e] /\ loc'[e] = loc[e]
      BY <2>9 DEF Alone
    <2>11. loc' = loc
      BY <2>1
    <2>12. Shapes'
      BY <2>1, <2>6, <2>7, <2>9 DEF Good, Shapes, Alone, Listed, IsPair, Socks
    <2>13. Known'
      BY <2>2, <2>7 DEF Good, Known
    <2>14. Owned'
      <3>1. Socks' = Socks /\ fds' = fds /\ loc' = loc
        BY <2>7, <2>11
      <3>2. \A e \in CPU : Appending(e)' => Appending(e)
        BY <2>9, <2>10
      <3>3. \A e \in CPU : (Connecting(e) \/ Taking(e) \/ pc[e] \in {"reset", "backlog", "wait"})' =>
                \/ e = c
                \/ Connecting(e) \/ Taking(e) \/ pc[e] \in {"reset", "backlog", "wait"}
        BY <2>10
      <3>4. \E k \in DOMAIN fds[c] : fds[c][k].s = loc[c].s
        BY <2>2
      <3> HIDE DEF Appending, Connecting, Taking
      <3>5. \A e \in CPU : (Connecting(e) \/ Taking(e) \/ pc[e] \in {"reset", "backlog", "wait"})' =>
                \E k \in DOMAIN fds[e] : fds[e][k].s = loc[e].s
        BY <3>3, <3>4 DEF Good, Owned
      <3> QED
        BY <3>1, <3>2, <3>5, SMTT(30) DEF Good, Owned
    <2>15. CpuOK(c)
      BY DEF Good, HandlesOK
    <2>16. \A k \in DOMAIN fds[c] : fds[c][k].s = s => fds[c][k].op = "unset"
      BY <2>2, <2>15, SMTT(30) DEF CpuOK, Usable, Pairs, NULL
    <2>17. HandlesOK'
      <3>1. PairsStayUsable
        BY <2>1, <2>7 DEF PairsStayUsable, Usable
      <3>2. \A e \in CPU \ {c} : SocketsKept(e)
        BY <2>2, <2>7 DEF SocketsKept, Good, Owned
      <3>3. \A e \in CPU \ {c} : CpuOK(e)'
        BY <2>7, <2>10, <3>1, <3>2, Bystander
      <3>4. ASSUME NEW k \in DOMAIN fds[c]
            PROVE  IF fds[c][k].op = "unset"
                   THEN sock'[fds[c][k].s].pair = NULL \/ loc[c].s = fds[c][k].s
                   ELSE Usable(sock[fds[c][k].s].pair)'
        <4>1. CASE fds[c][k].s = s
          BY <2>16, <4>1
        <4>2. CASE fds[c][k].s # s
          <5>1. IF fds[c][k].op = "unset" THEN sock[fds[c][k].s].pair = NULL
                ELSE Usable(sock[fds[c][k].s].pair)
            BY <2>1, <2>15 DEF CpuOK
          <5>2. sock'[fds[c][k].s].pair = sock[fds[c][k].s].pair /\ fds' = fds
            BY <2>7, <4>2 DEF Good, Owned
          <5> QED
            BY <3>1, <5>1, <5>2 DEF PairsStayUsable
        <4> QED
          BY <4>1, <4>2
      <3>5. sock'[s].pair = p
        BY <2>2, <2>7
      <3>6. CpuOK(c)'
        BY <2>2, <2>7, <2>9, <2>11, <2>16, <3>4, <3>5 DEF CpuOK
      <3> QED
        BY <3>3, <3>6 DEF HandlesOK
    <2>18. NewPairs'
      <3>1. SUFFICES ASSUME NEW e \in CPU, Bringing(e)'
                     PROVE  /\ loc'[e].p \in Pairs'
                            /\ \A t \in Socks' : sock'[t].pair # loc'[e].p
                            /\ \A t \in Socks' : \A j \in 0 .. MaxConn - 1 :
                                  sock'[t].backlog[j] # loc'[e].p
                            /\ \A f \in CPU : f # e /\ (Bringing(f) \/ Taking(f))' =>
                                  loc'[f].p # loc'[e].p
        BY DEF NewPairs
      <3>2. e # c /\ Bringing(e) /\ loc' = loc /\ loc[e].p # p
            /\ \A f \in CPU : (Bringing(f) \/ Taking(f))' => Bringing(f) \/ Taking(f)
        BY <2>2, <2>9, <2>10, <2>11, <3>1
      <3>3. /\ loc[e].p \in Pairs
            /\ \A t \in Socks : sock[t].pair # loc[e].p
            /\ \A t \in Socks : \A j \in 0 .. MaxConn - 1 : sock[t].backlog[j] # loc[e].p
            /\ \A f \in CPU : f # e /\ (Bringing(f) \/ Taking(f)) => loc[f].p # loc[e].p
        BY <3>2 DEF Good, NewPairs
      <3>4. \A t \in Socks' : sock'[t].pair # loc'[e].p
        BY <2>7, <3>2, <3>3
      <3>5. \A t \in Socks' : \A j \in 0 .. MaxConn - 1 : sock'[t].backlog[j] # loc'[e].p
        BY <2>7, <3>2, <3>3
      <3> QED
        BY <2>7, <3>2, <3>3, <3>4, <3>5
    <2>19. TakenPairs' /\ ReadyFirst'
      BY <2>1, <2>7, <2>9, <2>10 DEF Good, TakenPairs, ReadyFirst
    <2>20. ConnectedOnce'
      BY <2>2, <2>7 DEF Good, ConnectedOnce, Owned
    <2>21. Accepted' = Accepted /\ \A t \in Accepted : t \in Socks \ {s}
      <3>1. Accepted' = Accepted /\ Accepted \subseteq Socks
        <4>1. Socks' = Socks /\ fds' = fds /\ loc' = loc
          BY <2>7, <2>11
        <4>2. \A e \in CPU : Appending(e)' <=> Appending(e)
          BY <2>1, <2>9, <2>10
        <4> HIDE DEF Appending
        <4> QED
          BY <4>1, <4>2, SMTT(30) DEF Accepted
      <3>2. s \notin Accepted
        BY <2>2, <2>16 DEF Accepted, Good, Owned
      <3> QED
        BY <3>1, <3>2
    <2>22. AcceptedOnce'
      <3>1. \A t \in Accepted : sock'[t].pair = sock[t].pair
        BY <2>7, <2>21
      <3>2. \A t, u \in Accepted' : sock'[t].pair = sock'[u].pair => t = u
        BY <2>21, <3>1 DEF Good, AcceptedOnce
      <3>3. \A e \in CPU : Taking(e)' => Taking(e) /\ loc'[e] = loc[e]
        BY <2>9, <2>10
      <3>4. \A e \in CPU : Taking(e)' =>
              /\ \A t \in Accepted' : sock'[t].pair # loc'[e].p
              /\ \A f \in CPU : Taking(f)' /\ loc'[f].p = loc'[e].p => f = e
        BY <2>21, <3>1, <3>3 DEF Good, AcceptedOnce
      <3>5. ASSUME NEW t \in Socks', NEW j \in Live(t)', sock'[t].backlog[j] \in Pairs'
            PROVE  /\ \A u \in Accepted' : sock'[u].pair # sock'[t].backlog[j]
                   /\ \A u \in Socks' : \A k \in Live(u)' :
                         sock'[u].backlog[k] = sock'[t].backlog[j] => u = t /\ k = j
                   /\ \A e \in CPU : Taking(e)' /\ loc'[e].p = sock'[t].backlog[j] =>
                         loc'[e].s = t /\ j = 0
        <4>1. /\ t \in Socks /\ j \in Live(t) /\ j \in 0 .. MaxConn - 1
              /\ \A u \in Socks : Live(u)' = Live(u) /\ Live(u) \subseteq 0 .. MaxConn - 1
          BY <2>7 DEF Live
        <4>2. \A u \in Socks : \A k \in Live(u) :
                  /\ sock[u].backlog[k] # p
                  /\ sock'[u].backlog[k] = IF u = d /\ k = i THEN p ELSE sock[u].backlog[k]
          BY <2>2, <2>7, <4>1
        <4>3. CASE t = d /\ j = i
          <5>1. sock'[t].backlog[j] = p
            BY <4>1, <4>2, <4>3
          <5>2. \A u \in Accepted' : sock'[u].pair # p
            BY <2>2, <2>21, <3>1
          <5>3. \A u \in Socks' : \A k \in Live(u)' : sock'[u].backlog[k] = p => u = t /\ k = j
            BY <2>7, <4>1, <4>2, <4>3
          <5>4. \A e \in CPU : Taking(e)' => loc'[e].p # p
            BY <2>2, <2>9, <2>10
          <5> QED
            BY <5>1, <5>2, <5>3, <5>4
        <4>4. CASE ~(t = d /\ j = i)
          <5>1. sock'[t].backlog[j] = sock[t].backlog[j] /\ sock[t].backlog[j] \in Pairs
            BY <2>7, <3>5, <4>1, <4>2, <4>4
          <5>2. /\ \A u \in Accepted : sock[u].pair # sock[t].backlog[j]
                /\ \A u \in Socks : \A k \in Live(u) :
                      sock[u].backlog[k] = sock[t].backlog[j] => u = t /\ k = j
                /\ \A e \in CPU : Taking(e) /\ loc[e].p = sock[t].backlog[j] =>
                      loc[e].s = t /\ j = 0
            BY <4>1, <5>1, WaitsOnce, Zenon
          <5>3. \A u \in Accepted' : sock'[u].pair # sock'[t].backlog[j]
            BY <2>21, <3>1, <5>1, <5>2
          <5>4. \A u \in Socks' : \A k \in Live(u)' :
                    sock'[u].backlog[k] = sock'[t].backlog[j] => u = t /\ k = j
            BY <2>7, <4>1, <4>2, <5>1, <5>2
          <5>5. \A e \in CPU : Taking(e)' /\ loc'[e].p = sock'[t].backlog[j] =>
                    loc'[e].s = t /\ j = 0
            BY <3>3, <5>1, <5>2
          <5> QED
            BY <5>3, <5>4, <5>5
        <4> QED
          BY <4>3, <4>4
      <3> QED
        BY <3>2, <3>4, <3>5 DEF AcceptedOnce
    <2> QED
      BY <2>12, <2>13, <2>14, <2>17, <2>18, <2>19, <2>20, <2>22 DEF Good, SocketInv
  <1> QED
    BY <1>1, <1>2

(* accept makes the socket of the other end, and moves the backlog up by   *)
(* one place.                                                              *)
LEMMA StepTakeFirst ==
    ASSUME Good, NEW c \in CPU, TakeFirst(c)
    PROVE  SocketInv'
  <1>1. CASE wild'
    BY <1>1 DEF SocketInv
  <1>2. CASE ~wild'
    <2> DEFINE s == loc[c].s
               p == loc[c].p
               max == sock[s].max
               y == [sock[s] EXCEPT !.backlog = Shifted(sock[s].backlog, max),
                                    !.max = max - 1, !.state = "disconnected"]
               l == [NoCall EXCEPT !.s = Len(sock) + 1, !.op = "accept"]
               x == [sock EXCEPT ![s] = y]
    <2>1. ~(max < 1)
      BY <1>2 DEF TakeFirst, GoWild
    <2>2. PICK next : sock' = Append(x, [Fresh(next) EXCEPT !.pair = p, !.state = "connected"])
      BY <2>1, ZenonT(60) DEF TakeFirst
    <2> DEFINE f == [Fresh(next) EXCEPT !.pair = p, !.state = "connected"]
    <2>3. /\ pc[c] = "shift" /\ Go(c, "append") /\ loc' = [loc EXCEPT ![c] = l]
          /\ pair' = pair /\ fds' = fds
      BY <2>1 DEF TakeFirst, At
    <2>4. /\ s \in Socks /\ p \in Pairs /\ Usable(p)
          /\ \E k \in DOMAIN fds[c] : fds[c][k].s = s
          /\ \A t \in Accepted : sock[t].pair # p
          /\ \A e \in CPU : Taking(e) /\ loc[e].p = p => e = c
      BY <2>3 DEF Good, Owned, TakenPairs, AcceptedOnce, Usable
    <2>5. IsSocket(sock[s]) /\ max \in Int /\ max >= 1 /\ max <= MaxConn /\ MaxConn \in Nat
      BY <2>1, <2>4, BoundsAssumption, SMTT(30) DEF Good, Shapes, IsSocket, Socks
    <2>6. /\ IsSocket(y) /\ y.pair = sock[s].pair /\ y.max = max - 1
          /\ \A j \in 0 .. MaxConn - 1 :
                y.backlog[j] = IF j < max - 1 THEN sock[s].backlog[j + 1]
                               ELSE IF j = 0 THEN NULL ELSE sock[s].backlog[j]
      <3>1. PICK b : b = Shifted(sock[s].backlog, max)
        OBVIOUS
      <3>2. /\ DOMAIN b = 0 .. MaxConn - 1
            /\ \A j \in 0 .. MaxConn - 1 :
                  b[j] = IF j < max - 1 THEN sock[s].backlog[j + 1]
                         ELSE IF j = 0 THEN NULL ELSE sock[s].backlog[j]
        BY <2>5, <3>1 DEF Shifted, IsSocket
      <3>3. y = [sock[s] EXCEPT !.backlog = b, !.max = max - 1, !.state = "disconnected"]
        BY <3>1
      <3>4. y.backlog = b /\ y.max = max - 1 /\ y.pair = sock[s].pair /\ DOMAIN y = DOMAIN sock[s]
        BY <2>5, <3>3 DEF IsSocket
      <3>5. max - 1 \in Int /\ max - 1 <= MaxConn
        BY <2>5
      <3> HIDE DEF y
      <3>6. IsSocket(y)
        BY <2>5, <3>2, <3>4, <3>5 DEF IsSocket
      <3> QED
        BY <3>2, <3>4, <3>6
    <2>7. IsSocket(f) /\ f.pair = p /\ \A i \in 0 .. MaxConn - 1 : f.backlog[i] = Stray
      <3>1. PICK g : g = Fresh(next)
        OBVIOUS
      <3>2. IsSocket(g) /\ \A i \in 0 .. MaxConn - 1 : g.backlog[i] = Stray
        BY <3>1, FreshSocket
      <3>3. f = [g EXCEPT !.pair = p, !.state = "connected"]
        BY <3>1
      <3> QED
        BY <3>2, <3>3 DEF IsSocket
    <2>8. IsCall(l) /\ l.s = Len(sock) + 1 /\ l.op = "accept"
      BY DEF NoCall, IsCall, Ops
    <2>9. Len(sock) \in Nat /\ sock = [t \in 1 .. Len(sock) |-> sock[t]]
      BY DEF Good, Shapes, Listed
    <2> HIDE DEF y, f, l
    <2>10. /\ x = [t \in 1 .. Len(sock) |-> x[t]]
           /\ \A t \in 1 .. Len(sock) : x[t] = IF t = s THEN y ELSE sock[t]
      BY <2>9
    <2> HIDE DEF x
    <2>11. Listed(x) /\ Len(x) = Len(sock)
      BY <2>9, <2>10, FunctionListed
    <2>12. /\ Listed(sock)' /\ Len(sock)' = Len(sock) + 1 /\ sock'[Len(sock) + 1] = f
           /\ \A t \in 1 .. Len(sock) : sock'[t] = x[t]
      BY <2>2, <2>11, AppendListed DEF f
    <2>13. PICK m : m = Len(sock) + 1
      OBVIOUS
    <2>14. /\ Socks' = Socks \cup {m} /\ m \notin Socks /\ m \in Socks' /\ Pairs' = Pairs
           /\ sock'[m] = f /\ sock'[s] = y /\ l.s = m
           /\ \A t \in Socks \ {s} : sock'[t] = sock[t]
      BY <2>3, <2>4, <2>8, <2>9, <2>10, <2>12, <2>13 DEF Socks, Pairs
    <2>15. /\ sock'[m].pair = p /\ \A t \in Socks : sock'[t].pair = sock[t].pair
           /\ \A i \in 0 .. MaxConn - 1 : sock'[m].backlog[i] = Stray
      BY <2>6, <2>7, <2>14
    <2>16. \A t \in Socks' : \A i \in 0 .. MaxConn - 1 :
              \/ sock'[t].backlog[i] \in {NULL, Stray}
              \/ t \in Socks /\ \E j \in 0 .. MaxConn - 1 : sock'[t].backlog[i] = sock[t].backlog[j]
      <3>1. \A i \in 0 .. MaxConn - 1 :
              \/ sock'[s].backlog[i] = NULL
              \/ \E j \in 0 .. MaxConn - 1 : sock'[s].backlog[i] = sock[s].backlog[j]
        BY <2>5, <2>6, <2>14
      <3> QED
        BY <2>4, <2>14, <2>15, <3>1
    <2>17. Alone(c) /\ pc'[c] = "append" /\ loc'[c] = l
      BY <2>3, <2>8, Moves
    <2>18. \A e \in CPU \ {c} : pc'[e] = pc[e] /\ loc'[e] = loc[e]
      BY <2>17 DEF Alone
    <2>19. Shapes'
      <3>1. \A t \in Socks' : IsSocket(sock[t])'
        BY <2>6, <2>7, <2>14, SMTT(30) DEF Good, Shapes, IsSocket, Socks
      <3> QED
        BY <2>3, <2>12, <2>17, <3>1 DEF Good, Shapes, Alone, Listed, IsPair, Socks
    <2>20. Known'
      <3>1. \A t \in Socks : /\ sock[t].pair \in Pairs \cup {NULL}
                             /\ \A i \in 0 .. MaxConn - 1 : sock[t].backlog[i] \in Pairs \cup {NULL, Stray}
        BY DEF Good, Known
      <3>2. \A t \in Socks' : sock'[t].pair \in Pairs' \cup {NULL}
        BY <2>4, <2>14, <2>15, <3>1
      <3>3. \A t \in Socks' : \A i \in 0 .. MaxConn - 1 : sock'[t].backlog[i] \in Pairs' \cup {NULL, Stray}
        BY <2>14, <2>16, <3>1
      <3> QED
        BY <3>2, <3>3 DEF Known
    <2>21. Owned'
      BY <2>3, <2>14, <2>17, <2>18 DEF Good, Owned
    <2>22. HandlesOK'
      <3>1. PairsStayUsable
        BY <2>3, <2>14 DEF PairsStayUsable, Usable
      <3>2. \A d \in CPU : SocketsKept(d)
        BY <2>15 DEF SocketsKept, Good, Owned
      <3>3. \A d \in CPU \ {c} : CpuOK(d)'
        BY <2>3, <2>18, <3>1, <3>2, Bystander
      <3>4. \A j \in DOMAIN fds[c] :
                IF fds[c][j].op = "unset" THEN sock'[fds[c][j].s].pair = NULL
                ELSE Usable(sock[fds[c][j].s].pair)'
        BY <2>3, <3>1, <3>2 DEF Good, HandlesOK, CpuOK, PairsStayUsable, SocketsKept
      <3>5. Usable(sock[loc[c].s].pair)' /\ loc'[c].op = "accept"
        BY <2>4, <2>8, <2>14, <2>15, <2>17, <3>1 DEF PairsStayUsable
      <3>6. CpuOK(c)'
        BY <2>3, <2>17, <3>4, <3>5 DEF CpuOK
      <3> QED
        BY <3>3, <3>6 DEF HandlesOK
    <2>23. NewPairs'
      <3>1. SUFFICES ASSUME NEW e \in CPU, Bringing(e)'
                     PROVE  /\ loc'[e].p \in Pairs'
                            /\ \A t \in Socks' : sock'[t].pair # loc'[e].p
                            /\ \A t \in Socks' : \A j \in 0 .. MaxConn - 1 :
                                  sock'[t].backlog[j] # loc'[e].p
                            /\ \A g \in CPU : g # e /\ (Bringing(g) \/ Taking(g))' =>
                                  loc'[g].p # loc'[e].p
        BY DEF NewPairs
      <3>2. /\ e # c /\ Bringing(e) /\ loc'[e] = loc[e]
            /\ \A g \in CPU : (Bringing(g) \/ Taking(g))' => (Bringing(g) \/ Taking(g)) /\ loc'[g] = loc[g]
        BY <2>17, <2>18, <3>1
      <3>3. /\ loc[e].p \in Pairs /\ loc[e].p # p
            /\ \A t \in Socks : sock[t].pair # loc[e].p
            /\ \A t \in Socks : \A j \in 0 .. MaxConn - 1 : sock[t].backlog[j] # loc[e].p
            /\ \A g \in CPU : g # e /\ (Bringing(g) \/ Taking(g)) => loc[g].p # loc[e].p
        BY <2>3, <3>2 DEF Good, NewPairs
      <3>4. \A t \in Socks' : sock'[t].pair # loc'[e].p
        BY <2>14, <2>15, <3>2, <3>3
      <3>5. loc[e].p \notin {NULL, Stray}
        BY <3>3 DEF Pairs, NULL, Stray
      <3>6. \A t \in Socks' : \A j \in 0 .. MaxConn - 1 : sock'[t].backlog[j] # loc'[e].p
        BY <2>16, <3>2, <3>3, <3>5
      <3> QED
        BY <2>14, <3>2, <3>3, <3>4, <3>6
    <2>24. TakenPairs' /\ ReadyFirst'
      BY <2>3, <2>14, <2>17, <2>18 DEF Good, TakenPairs, ReadyFirst
    <2>25. ConnectedOnce'
      <3>1. NothingConnected
        BY <2>3, <2>15 DEF NothingConnected, Good, Owned
      <3> QED
        BY <3>1, ConnectedKept
    <2>26. AcceptedOnce'
      <3>1. Accepted' \subseteq Accepted \cup {m} /\ Accepted \subseteq Socks
        BY <2>3, <2>14, <2>17, <2>18 DEF Accepted, Good, Owned
      <3>2. /\ \A t \in Accepted : sock'[t].pair = sock[t].pair
            /\ \A t \in Accepted' : t \in Accepted \/ t = m
        BY <2>15, <3>1
      <3>3. \A t, u \in Accepted' : sock'[t].pair = sock'[u].pair => t = u
        BY <2>4, <2>15, <3>2 DEF Good, AcceptedOnce
      <3>4. \A e \in CPU : Taking(e)' => e # c /\ Taking(e) /\ loc'[e] = loc[e] /\ loc[e].p # p
        BY <2>4, <2>17, <2>18
      <3>5. \A e \in CPU : Taking(e)' =>
              /\ \A t \in Accepted' : sock'[t].pair # loc'[e].p
              /\ \A g \in CPU : Taking(g)' /\ loc'[g].p = loc'[e].p => g = e
        BY <2>15, <3>2, <3>4 DEF Good, AcceptedOnce
      <3> DEFINE From(t, j) == IF t = s THEN j + 1 ELSE j
      <3>6. ASSUME NEW t \in Socks', NEW j \in Live(t)', sock'[t].backlog[j] \in Pairs
            PROVE  /\ t \in Socks /\ From(t, j) \in Live(t) /\ j \in Nat
                   /\ sock'[t].backlog[j] = sock[t].backlog[From(t, j)]
        <4>1. j \in 0 .. MaxConn - 1 /\ (j = 0 \/ j < sock'[t].max)
          BY DEF Live
        <4>2. NULL \notin Pairs /\ Stray \notin Pairs
          BY DEF Pairs, NULL, Stray
        <4>3. t \in Socks
          BY <2>14, <2>15, <3>6, <4>1, <4>2
        <4>4. CASE t = s
          <5>1. /\ sock'[s].max = max - 1
                /\ sock'[s].backlog[j] = IF j < max - 1 THEN sock[s].backlog[j + 1]
                                         ELSE IF j = 0 THEN NULL ELSE sock[s].backlog[j]
            BY <2>6, <2>14, <4>1
          <5>2. j < max - 1
            BY <2>5, <3>6, <4>1, <4>2, <4>4, <5>1
          <5>3. j + 1 \in Live(s)
            BY <2>5, <4>1, <5>2 DEF Live
          <5> QED
            BY <4>1, <4>3, <4>4, <5>1, <5>2, <5>3
        <4>5. CASE t # s
          BY <2>14, <4>1, <4>3, <4>5 DEF Live
        <4> QED
          BY <4>4, <4>5
      <3>7. ASSUME NEW t \in Socks', NEW j \in Live(t)', sock'[t].backlog[j] \in Pairs'
            PROVE  /\ \A u \in Accepted' : sock'[u].pair # sock'[t].backlog[j]
                   /\ \A u \in Socks' : \A k \in Live(u)' :
                         sock'[u].backlog[k] = sock'[t].backlog[j] => u = t /\ k = j
                   /\ \A e \in CPU : Taking(e)' /\ loc'[e].p = sock'[t].backlog[j] =>
                         loc'[e].s = t /\ j = 0
        <4>1. PICK i : i = From(t, j)
          OBVIOUS
        <4>2. /\ t \in Socks /\ i \in Live(t) /\ j \in Nat
              /\ sock'[t].backlog[j] = sock[t].backlog[i] /\ sock[t].backlog[i] \in Pairs
          BY <2>14, <3>6, <3>7, <4>1
        <4>3. /\ \A u \in Accepted : sock[u].pair # sock[t].backlog[i]
              /\ \A u \in Socks : \A k \in Live(u) :
                    sock[u].backlog[k] = sock[t].backlog[i] => u = t /\ k = i
              /\ \A e \in CPU : Taking(e) /\ loc[e].p = sock[t].backlog[i] =>
                    loc[e].s = t /\ i = 0
          BY <4>2, WaitsOnce, Zenon
        <4>4. sock[t].backlog[i] # p
          <5>1. SUFFICES ASSUME sock[t].backlog[i] = p PROVE FALSE
            OBVIOUS
          <5>2. s = t /\ i = 0
            BY <2>3, <4>3, <5>1
          <5> QED
            BY <4>1, <4>2, <5>2
        <4>5. \A u \in Accepted' : sock'[u].pair # sock'[t].backlog[j]
          BY <2>15, <3>2, <4>2, <4>3, <4>4
        <4>6. ASSUME NEW u \in Socks', NEW k \in Live(u)', sock'[u].backlog[k] = sock'[t].backlog[j]
              PROVE  u = t /\ k = j
          <5>1. /\ u \in Socks /\ From(u, k) \in Live(u) /\ k \in Nat
                /\ sock'[u].backlog[k] = sock[u].backlog[From(u, k)]
            BY <3>6, <4>2, <4>6
          <5>2. u = t /\ From(u, k) = i
            BY <4>2, <4>3, <4>6, <5>1
          <5> QED
            BY <4>1, <4>2, <5>1, <5>2
        <4>7. \A e \in CPU : Taking(e)' /\ loc'[e].p = sock'[t].backlog[j] =>
                  loc'[e].s = t /\ j = 0
          <5>1. SUFFICES ASSUME NEW e \in CPU, Taking(e)', loc'[e].p = sock'[t].backlog[j]
                         PROVE  loc'[e].s = t /\ j = 0
            OBVIOUS
          <5>2. loc[e].s = t /\ i = 0 /\ loc'[e] = loc[e]
            BY <3>4, <4>2, <4>3, <5>1
          <5> QED
            BY <4>1, <4>2, <5>2
        <4> QED
          BY <4>5, <4>6, <4>7
      <3> QED
        BY <3>3, <3>5, <3>7 DEF AcceptedOnce
    <2> QED
      BY <2>19, <2>20, <2>21, <2>22, <2>23, <2>24, <2>25, <2>26 DEF Good, SocketInv
  <1> QED
    BY <1>1, <1>2

-----------------------------------------------------------------------------
(* The theorem                                                             *)

(* Nothing has happened yet.                                               *)
LEMMA SocketsInit == Init => SocketInv
  <1> SUFFICES ASSUME Init PROVE Good
    BY DEF SocketInv
  <1>1. /\ Len(sock) = 1 /\ sock[1] = Fresh(NULL) /\ Listed(sock)
        /\ Len(pair) = 0 /\ Listed(pair)
    BY DEF Init, Listed
  <1>2. /\ fds = [c \in CPU |-> <<>>] /\ pc = [c \in CPU |-> "user"]
        /\ loc = [c \in CPU |-> NoCall]
    BY DEF Init
  <1>3. \A c \in CPU : DOMAIN fds[c] = {} /\ fds[c] \in Seq([s : Int, op : Ops])
    BY <1>2
  <1>4. /\ Socks = {1} /\ Pairs = {} /\ IsSocket(sock[1]) /\ sock[1].pair = NULL
        /\ \A i \in 0 .. MaxConn - 1 : sock[1].backlog[i] = Stray
    BY <1>1, FreshSocket DEF Socks, Pairs
  <1>5. Shapes
    BY <1>1, <1>2, <1>3, <1>4, FirstCall DEF Shapes, Socks, Pairs
  <1>6. Known /\ Owned /\ NewPairs /\ TakenPairs /\ ReadyFirst /\ ConnectedOnce
    BY <1>2, <1>3, <1>4 DEF Known, Owned, NewPairs, TakenPairs, ReadyFirst, ConnectedOnce
  <1>7. HandlesOK
    BY <1>2, <1>3, FirstCall DEF HandlesOK, CpuOK
  <1>8. AcceptedOnce
    BY <1>2, <1>3, <1>4 DEF AcceptedOnce, Accepted
  <1> QED
    BY <1>5, <1>6, <1>7, <1>8 DEF Good

(* Every step keeps the invariant; after a stray pointer was followed no   *)
(* step is described.                                                      *)
LEMMA SocketsStep == SocketInv /\ [Next]_vars => SocketInv'
  <1> SUFFICES ASSUME SocketInv, [Next]_vars PROVE SocketInv'
    OBVIOUS
  <1>1. CASE UNCHANGED vars
    <2>1. CASE wild
      BY <1>1, <2>1 DEF vars, SocketInv
    <2>2. CASE Good
      <3>1. /\ sock' = sock /\ pair' = pair /\ fds' = fds /\ pc' = pc /\ loc' = loc
        BY <1>1 DEF vars
      <3>2. Shapes'
        BY <2>2, <3>1 DEF Good, Shapes, Listed, IsSocket, IsPair, IsCall
      <3>3. /\ Socks' = Socks /\ Pairs' = Pairs /\ Accepted' = Accepted
            /\ (\A s : Live(s)' = Live(s)) /\ (\A p : Usable(p)' <=> Usable(p))
        BY <3>1 DEF Socks, Pairs, Accepted, Live, Usable
      <3>4. Known' /\ Owned' /\ NewPairs' /\ TakenPairs' /\ ReadyFirst' /\ ConnectedOnce'
        BY <2>2, <3>1, <3>3 DEF Good, Known, Owned, NewPairs, TakenPairs, ReadyFirst, ConnectedOnce
      <3>5. HandlesOK'
        BY <2>2, <3>1, <3>3, Bystander DEF HandlesOK, PairsStayUsable, SocketsKept
      <3>6. AcceptedOnce'
        BY <2>2, <3>1, <3>3, AcceptedKept DEF NothingAccepted
      <3> QED
        BY <3>2, <3>4, <3>5, <3>6 DEF Good, SocketInv
    <2> QED
      BY <2>1, <2>2 DEF SocketInv
  <1>2. CASE Next
    <2>1. PICK c \in CPU :
            \/ k_driver_cskt(c) \/ FindTail(c) \/ Link(c)
            \/ k_driver_listen(c) \/ ResetCurr(c) \/ NewBacklog(c)
            \/ k_driver_connect(c) \/ ReadCurr(c) \/ WriteCurr(c) \/ StorePair(c) \/ Connected(c)
            \/ k_driver_accept(c) \/ NewBuffers(c) \/ MarkConnected(c) \/ TakeFirst(c)
            \/ (\E n \in Limits : k_driver_send(c, n) \/ k_driver_recv(c, n))
            \/ SendDone(c) \/ RecvDone(c)
      BY <1>2 DEF Next
    <2>2. ~wild
      BY <2>1 DEF At, k_driver_cskt, FindTail, Link, k_driver_listen, ResetCurr, NewBacklog,
                  k_driver_connect, ReadCurr, WriteCurr, StorePair, Connected, k_driver_accept, NewBuffers,
                  MarkConnected, TakeFirst, k_driver_send, k_driver_recv, SendDone, RecvDone
    <2>3. Good
      BY <2>2 DEF SocketInv
    <2> QED
      BY <2>1, <2>3, StepNewSocket, StepFindTail, StepLink, StepListen, StepResetCurr, StepNewBacklog,
         StepConnect, StepReadCurr, StepWriteCurr, StepStorePair, StepConnected, StepAccept,
         StepNewBuffers, StepMarkConnected, StepTakeFirst, StepSend, StepRecv,
         StepSendDone, StepRecvDone
  <1> QED
    BY <1>1, <1>2

(* The invariant says what ConnectionsReady promises.                      *)
LEMMA SocketsReady == SocketInv => ConnectionsReady
  <1> SUFFICES ASSUME Good, NEW x \in Open
               PROVE  /\ PairOf(x) # NULL /\ pair[PairOf(x)].connected /\ pair[PairOf(x)].ready
                      /\ \A y \in Open \ {x} : PairOf(y) = PairOf(x) => OpOf(y) # OpOf(x)
    BY DEF SocketInv, ConnectionsReady
  <1>1. ASSUME NEW y \in Open
        PROVE  /\ y = <<y[1], y[2]>> /\ y[1] \in CPU /\ y[2] \in DOMAIN fds[y[1]]
               /\ fds[y[1]][y[2]].op \in {"normal", "accept"}
               /\ Usable(PairOf(y)) /\ fds[y[1]][y[2]].s \in Socks
    <2>1. /\ y = <<y[1], y[2]>> /\ y[1] \in CPU /\ y[2] \in DOMAIN fds[y[1]]
          /\ fds[y[1]][y[2]].op # "unset"
      BY DEF Open, Handles
    <2>2. PICK c \in CPU : c = y[1]
      BY <2>1
    <2>3. PICK k \in DOMAIN fds[c] : k = y[2]
      BY <2>1, <2>2
    <2>4. fds[c][k].op \in Ops
      <3> DEFINE T == [s : Int, op : Ops]
      <3>1. fds[c] \in Seq(T)
        BY DEF Good, Shapes
      <3> HIDE DEF T
      <3>2. fds[c][k] \in T
        BY <3>1
      <3> QED
        BY <3>2 DEF T
    <2>5. Usable(sock[fds[c][k].s].pair) /\ fds[c][k].s \in Socks
      BY <2>1, <2>2, <2>3 DEF Good, HandlesOK, CpuOK, Owned
    <2> QED
      BY <2>1, <2>2, <2>3, <2>4, <2>5 DEF PairOf, Ops
  <1>2. PairOf(x) # NULL /\ pair[PairOf(x)].connected /\ pair[PairOf(x)].ready
    BY <1>1 DEF Usable, Pairs, NULL
  <1>3. ASSUME NEW y \in Open, PairOf(y) = PairOf(x), OpOf(y) = OpOf(x)
        PROVE  y = x
    <2>1. PICK c \in CPU, d \in CPU : c = x[1] /\ d = y[1]
      BY <1>1
    <2>2. PICK k \in DOMAIN fds[c], j \in DOMAIN fds[d] : k = x[2] /\ j = y[2]
      BY <1>1, <2>1
    <2>3. /\ fds[c][k].op = fds[d][j].op /\ fds[c][k].op \in {"normal", "accept"}
          /\ sock[fds[c][k].s].pair = sock[fds[d][j].s].pair /\ sock[fds[c][k].s].pair # NULL
          /\ fds[c][k].s \in Socks /\ fds[d][j].s \in Socks
      BY <1>1, <1>2, <1>3, <2>1, <2>2 DEF PairOf, OpOf
    <2>4. c = d /\ k = j
      <3>1. CASE fds[c][k].op = "accept"
        <4>1. fds[c][k].s \in Accepted /\ fds[d][j].s \in Accepted
          BY <2>3, <3>1 DEF Accepted
        <4>2. fds[c][k].s = fds[d][j].s
          BY <2>3, <4>1 DEF Good, AcceptedOnce
        <4> QED
          BY <4>2 DEF Good, Owned
      <3>2. CASE fds[c][k].op = "normal"
        <4>1. ConnectedOnce
          BY DEF Good
        <4>2. /\ fds[c][k].op # "accept" /\ fds[d][j].op # "accept"
              /\ sock[fds[c][k].s].pair # NULL
              /\ sock[fds[c][k].s].pair = sock[fds[d][j].s].pair
          BY <2>3, <3>2
        <4> QED
          BY <4>1, <4>2, ZenonT(60) DEF ConnectedOnce
      <3> QED
        BY <2>3, <3>1, <3>2
    <2> QED
      BY <1>1, <2>1, <2>2, <2>4
  <1> QED
    BY <1>2, <1>3

(* ConnectionsReady holds on any number of CPUs, for any size of backlog   *)
(* and however connects and accepts interleave: a handle on which          *)
(* k_driver_send and k_driver_recv work has a pair that was accepted and   *)
(* has its buffers, and is the only one at its end, as long as no stray    *)
(* pointer was followed.                                                   *)
THEOREM SocketConnectionsReady == Spec => []ConnectionsReady
  <1>1. Spec => []SocketInv
    BY SocketsInit, SocketsStep, PTL DEF Spec
  <1> QED
    BY <1>1, SocketsReady, PTL

-----------------------------------------------------------------------------
(* The list of sockets                                                     *)

(* L is the list, from the head to the last socket.                        *)
Chain(L) ==
    /\ Listed(L) /\ Len(L) # 0 /\ L[1] = HEAD
    /\ \A i \in 1 .. Len(L) : L[i] \in Socks
    /\ \A i, j \in 1 .. Len(L) : L[i] = L[j] => i = j
    /\ \A i \in 1 .. Len(L) - 1 : sock[L[i]].next = L[i + 1]
    /\ sock[L[Len(L)]].next \in {NULL, Stray}

(* It has the sockets with a handle, and none that is yet to be appended;  *)
(* a CPU that has found the end still stands at the end.                   *)
Lists(L) ==
    /\ \A c \in CPU : \A k \in DOMAIN fds[c] : \E i \in 1 .. Len(L) : L[i] = fds[c][k].s
    /\ \A c \in CPU : Appending(c) =>
          /\ \A i \in 1 .. Len(L) : L[i] # loc[c].s
          /\ sock[loc[c].s].next \in {NULL, Stray}
    /\ \A c \in CPU : pc[c] = "link" =>
          loc[c].d = L[Len(L)] /\ sock[loc[c].d].next = NULL

LinkFields ==
    /\ \A s \in Socks : "next" \in DOMAIN sock[s]
    /\ \A c \in CPU : "d" \in DOMAIN loc[c]

Linked == LinkFields /\ \E L : Chain(L) /\ Lists(L)

ListInv == wild \/ crossed \/ Linked

-----------------------------------------------------------------------------
(* A list without repetition is no longer than the table.                  *)
LEMMA ChainShort ==
    ASSUME Good, NEW L, Chain(L)
    PROVE  Len(L) \in 1 .. Len(sock)
  <1>1. Len(L) \in Nat \ {0} /\ Len(sock) \in Nat
    BY DEF Chain, Listed, Good, Shapes
  <1>2. PICK m \in Nat : m = Len(L)
    BY <1>1
  <1>3. PICK n \in Nat : n = Len(sock)
    BY <1>1
  <1>4. L \in [1 .. m -> 1 .. n] /\ \A i, j \in 1 .. m : L[i] = L[j] => i = j
    BY <1>2, <1>3 DEF Chain, Listed, Socks
  <1>5. L \in Injection(1 .. m, 1 .. n)
    BY <1>4 DEF Injection, IsInjective
  <1>6. /\ IsFiniteSet(1 .. n) /\ Cardinality(1 .. n) = IF 1 > n THEN 0 ELSE n - 1 + 1
        /\ Cardinality(1 .. m) = IF 1 > m THEN 0 ELSE m - 1 + 1
    BY FS_Interval
  <1>7. Cardinality(1 .. m) <= Cardinality(1 .. n)
    BY <1>5, <1>6, FS_Injection
  <1> QED
    BY <1>1, <1>2, <1>3, <1>6, <1>7

(* Round k of the loop takes it from d to the socket after d.              *)
NextOf(V) == [d \in V |-> IF d \in {NULL, Stray} THEN d ELSE sock[d].next]

(* The loop over a list comes to its sockets one after the other, and to   *)
(* the end.                                                                *)
LEMMA ChainWalked ==
    ASSUME Good, NEW L, Chain(L)
    PROVE  /\ \A i \in 1 .. Len(L) : Nth[i - 1] = L[i]
           /\ \A k \in Len(L) .. Len(sock) : Nth[k] \in {NULL, Stray}
  <1>1. PICK N \in Nat : N = Len(sock)
    BY DEF Good, Shapes, Listed
  <1>2. PICK m \in 1 .. N : m = Len(L)
    BY <1>1, ChainShort
  <1>3. PICK z : z = sock[L[m]].next
    OBVIOUS
  <1> DEFINE f == [k \in 0 .. N |-> IF k < m THEN L[k + 1] ELSE z]
  <1>4. /\ L[1] = HEAD /\ z \in {NULL, Stray}
        /\ \A i \in 1 .. m : L[i] \in 1 .. N
        /\ \A i \in 1 .. m - 1 : sock[L[i]].next = L[i + 1]
    BY <1>1, <1>2, <1>3 DEF Chain, Socks
  <1>5. \A i \in 1 .. m : L[i] \notin {NULL, Stray}
    BY <1>4 DEF NULL, Stray
  <1> DEFINE Step(g, k) == IF g[k - 1] \in {NULL, Stray} THEN g[k - 1] ELSE sock[g[k - 1]].next
  <1>6. f = [k \in 0 .. N |-> IF k = 0 THEN HEAD ELSE Step(f, k)]
    <2>1. ASSUME NEW k \in 0 .. N PROVE f[k] = IF k = 0 THEN HEAD ELSE Step(f, k)
      <3>1. CASE k = 0
        BY <1>4, <3>1
      <3>2. CASE k \in 1 .. m - 1
        <4>1. f[k] = L[k + 1] /\ f[k - 1] = L[k] /\ k \in 1 .. m /\ k # 0
          BY <3>2
        <4> HIDE DEF f
        <4> QED
          BY <1>4, <1>5, <3>2, <4>1
      <3>3. CASE k = m
        <4>1. f[k] = z /\ f[k - 1] = L[m] /\ m \in 1 .. m /\ k # 0
          BY <3>3
        <4> HIDE DEF f
        <4> QED
          BY <1>3, <1>5, <4>1
      <3>4. CASE k > m
        <4>1. f[k] = z /\ f[k - 1] = z /\ k # 0
          BY <3>4
        <4> HIDE DEF f
        <4> QED
          BY <1>4, <4>1
      <3> QED
        BY <3>1, <3>2, <3>3, <3>4
    <2>2. f = [k \in 0 .. N |-> f[k]]
      OBVIOUS
    <2> HIDE DEF f
    <2> QED
      BY <2>1, <2>2
  <1> HIDE DEF f
  <1>7. Nth = [k \in 0 .. N |-> IF k = 0 THEN HEAD ELSE Step(Nth, k)]
    <2> DEFINE P(g) == g = [k \in 0 .. Len(sock) |-> IF k = 0 THEN HEAD ELSE Step(g, k)]
    <2>1. P(f)
      BY <1>1, <1>6
    <2>2. Nth = CHOOSE g : P(g)
      BY DEF Nth
    <2> HIDE DEF P
    <2>3. P(Nth)
      BY <2>1, <2>2
    <2> QED
      BY <1>1, <2>3 DEF P
  <1>8. \A k \in 0 .. N : Nth[k] = f[k]
    <2> DEFINE T == {k \in 0 .. N : Nth[k] = f[k]}
    <2>1. 0 \in T
      BY <1>6, <1>7
    <2>2. ASSUME NEW k \in 0 .. N - 1, k \in T PROVE k + 1 \in T
      <3>1. k + 1 \in 0 .. N /\ k + 1 # 0 /\ (k + 1) - 1 = k
        OBVIOUS
      <3>2. f[k + 1] = Step(f, k + 1) /\ Nth[k + 1] = Step(Nth, k + 1)
        BY <1>6, <1>7, <3>1
      <3>3. Nth[k] = f[k]
        BY <2>2
      <3> QED
        BY <3>1, <3>2, <3>3
    <2> HIDE DEF T
    <2>3. 0 .. N \subseteq T
      BY <2>1, <2>2, IntervalInduct
    <2> QED
      BY <2>3 DEF T
  <1>9. ASSUME NEW i \in 1 .. m PROVE Nth[i - 1] = L[i]
    <2>1. i - 1 \in 0 .. N /\ i - 1 < m
      OBVIOUS
    <2> QED
      BY <1>8, <2>1 DEF f
  <1>10. \A k \in m .. N : Nth[k] = z
    BY <1>8 DEF f
  <1> QED
    BY <1>1, <1>2, <1>4, <1>9, <1>10

(* The elements of the list are what a loop over it comes to.              *)
LEMMA ChainIsList ==
    ASSUME Good, NEW L, Chain(L)
    PROVE  /\ \A i \in 1 .. Len(L) : L[i] \in List
           /\ \A d \in List : d = Stray \/ \E i \in 1 .. Len(L) : L[i] = d
           /\ Nth[Len(sock)] \in {NULL, Stray}
  <1>1. PICK m \in 1 .. Len(sock) : m = Len(L)
    BY ChainShort
  <1>2. Len(sock) \in Nat
    BY DEF Good, Shapes, Listed
  <1>3. /\ \A i \in 1 .. m : Nth[i - 1] = L[i] /\ i - 1 \in 0 .. Len(sock) /\ L[i] \in Socks
        /\ \A k \in m .. Len(sock) : Nth[k] \in {NULL, Stray}
    <2>1. \A i \in 1 .. m : Nth[i - 1] = L[i] /\ L[i] \in Socks
      BY <1>1, ChainWalked DEF Chain
    <2>2. \A k \in m .. Len(sock) : Nth[k] \in {NULL, Stray}
      BY <1>1, ChainWalked
    <2> QED
      BY <1>2, <2>1, <2>2
  <1>4. \A i \in 1 .. m : L[i] \in List
    <2> TAKE i \in 1 .. m
    <2>1. L[i] # NULL
      BY <1>3 DEF NULL, Socks
    <2> QED
      BY <1>3, <2>1 DEF List
  <1>5. ASSUME NEW d \in List PROVE d = Stray \/ \E i \in 1 .. m : L[i] = d
    <2>1. PICK k \in 0 .. Len(sock) : d = Nth[k]
      BY DEF List
    <2>2. d # NULL
      BY DEF List
    <2>3. CASE k < m
      <3>1. k + 1 \in 1 .. m /\ (k + 1) - 1 = k
        BY <1>2, <2>3
      <3> QED
        BY <1>3, <2>1, <3>1
    <2>4. CASE k >= m
      <3>1. k \in m .. Len(sock)
        BY <1>2, <2>4
      <3> QED
        BY <1>3, <2>1, <2>2, <3>1
    <2> QED
      BY <1>2, <2>3, <2>4
  <1>6. Len(sock) \in m .. Len(sock)
    BY <1>2
  <1> QED
    BY <1>1, <1>3, <1>4, <1>5, <1>6

-----------------------------------------------------------------------------
(* Steps that append nothing to the list.                                  *)

LinksKept ==
    /\ Len(sock') \in Nat /\ Len(sock) <= Len(sock')
    /\ \A s \in Socks' : "next" \in DOMAIN sock'[s]
    /\ \A s \in Socks : sock'[s].next = sock[s].next

HandlesKept ==
    \A c \in CPU : \A k \in DOMAIN fds'[c] : \E j \in DOMAIN fds[c] : fds'[c][k].s = fds[c][j].s

(* CPU c goes on with its part, or has made a socket.                      *)
Standing(c) ==
    /\ "d" \in DOMAIN loc'[c]
    /\ Appending(c)' => \/ Appending(c) /\ loc'[c].s = loc[c].s
                        \/ loc'[c].s \notin Socks /\ sock'[loc'[c].s].next \in {NULL, Stray}
    /\ pc'[c] = "link" => pc[c] = "link" /\ loc'[c].d = loc[c].d

(* The list stays as it is.                                                *)
LEMMA LinkedKept ==
    ASSUME Good, Linked, LinksKept, HandlesKept, \A c \in CPU : Standing(c)
    PROVE  Linked'
  <1>1. PICK L : Chain(L) /\ Lists(L)
    BY DEF Linked
  <1>2. PICK m \in Nat \ {0} : m = Len(L)
    BY <1>1 DEF Chain, Listed
  <1>3. LinkFields'
    BY DEF LinkFields, LinksKept, Standing
  <1>4. \A s \in Socks : s \in Socks'
    BY DEF LinksKept, Socks, Good, Shapes, Listed
  <1>5. /\ \A i \in 1 .. m : L[i] \in Socks
        /\ m \in 1 .. m /\ \A i \in 1 .. m - 1 : i \in 1 .. m
    BY <1>1, <1>2 DEF Chain
  <1>6. Chain(L)'
    <2>1. \A i \in 1 .. m : L[i] \in Socks' /\ sock'[L[i]].next = sock[L[i]].next
      BY <1>4, <1>5 DEF LinksKept
    <2> QED
      BY <1>1, <1>2, <1>5, <2>1 DEF Chain, Listed
  <1>7. Lists(L)'
    <2>1. \A c \in CPU : \A k \in DOMAIN fds'[c] : \E i \in 1 .. Len(L) : L[i] = fds'[c][k].s
      BY <1>1 DEF HandlesKept, Lists
    <2>2. ASSUME NEW c \in CPU, Appending(c)'
          PROVE  /\ \A i \in 1 .. Len(L) : L[i] # loc'[c].s
                 /\ sock'[loc'[c].s].next \in {NULL, Stray}
      <3>1. CASE Appending(c) /\ loc'[c].s = loc[c].s
        <4>1. loc[c].s \in Socks
          BY <3>1 DEF Good, Owned
        <4> QED
          BY <1>1, <3>1, <4>1 DEF Lists, LinksKept
      <3>2. CASE loc'[c].s \notin Socks /\ sock'[loc'[c].s].next \in {NULL, Stray}
        BY <1>2, <1>5, <3>2
      <3> QED
        BY <2>2, <3>1, <3>2 DEF Standing
    <2>3. ASSUME NEW c \in CPU, pc'[c] = "link"
          PROVE  loc'[c].d = L[Len(L)] /\ sock'[loc'[c].d].next = NULL
      <3>1. pc[c] = "link" /\ loc'[c].d = loc[c].d
        BY <2>3 DEF Standing
      <3>2. loc[c].d = L[m] /\ sock[loc[c].d].next = NULL
        BY <1>1, <1>2, <3>1 DEF Lists
      <3> QED
        BY <1>2, <1>5, <3>1, <3>2 DEF LinksKept
    <2> QED
      BY <2>1, <2>2, <2>3 DEF Lists
  <1> QED
    BY <1>3, <1>6, <1>7 DEF Linked

(* Nothing happens to the sockets.                                         *)
LEMMA LinksStay ==
    ASSUME Good, Linked, sock' = sock
    PROVE  LinksKept
  BY DEF Good, Shapes, Listed, Linked, LinkFields, LinksKept, Socks

(* A socket changes, but not its link.                                     *)
LEMMA OneLink ==
    ASSUME Good, Linked, NEW k, NEW y, sock' = [sock EXCEPT ![k] = y],
           k \in Socks => "next" \in DOMAIN y /\ y.next = sock[k].next
    PROVE  LinksKept
  <1>1. Len(sock) \in Nat /\ sock = [i \in 1 .. Len(sock) |-> sock[i]]
    BY DEF Good, Shapes, Listed
  <1>2. sock' = [i \in 1 .. Len(sock) |-> sock'[i]]
        /\ \A s \in 1 .. Len(sock) : sock'[s] = IF s = k THEN y ELSE sock[s]
    BY <1>1
  <1>3. Len(sock') = Len(sock)
    BY <1>1, <1>2, FunctionListed
  <1> QED
    BY <1>1, <1>2, <1>3 DEF Linked, LinkFields, LinksKept, Socks

(* CPU c goes to a place outside of the appending.                         *)
LEMMA Elsewhere ==
    ASSUME Good, Linked, NEW c \in CPU, NEW place, NEW l, "d" \in DOMAIN l,
           place \notin {"append", "link"}, Go(c, place), loc' = [loc EXCEPT ![c] = l]
    PROVE  \A x \in CPU : Standing(x)
  <1>1. pc = [d \in CPU |-> pc[d]] /\ loc = [d \in CPU |-> loc[d]]
    BY DEF Good, Shapes
  <1>2. /\ pc' = [d \in CPU |-> IF d = c THEN place ELSE pc[d]]
        /\ loc' = [d \in CPU |-> IF d = c THEN l ELSE loc[d]]
    BY <1>1 DEF Go
  <1> QED
    BY <1>2 DEF Standing, Linked, LinkFields

(* The locals of a call.                                                   *)
LEMMA CallPlace ==
    ASSUME Linked, NEW c \in CPU, NEW x, NEW y
    PROVE  /\ "d" \in DOMAIN NoCall /\ "d" \in DOMAIN loc[c]
           /\ "d" \in DOMAIN [loc[c] EXCEPT !.s = x]
           /\ "d" \in DOMAIN [loc[c] EXCEPT !.d = x]
           /\ "d" \in DOMAIN [loc[c] EXCEPT !.s = x, !.d = y]
           /\ "d" \in DOMAIN [loc[c] EXCEPT !.p = x, !.i = y]
           /\ "d" \in DOMAIN [loc[c] EXCEPT !.s = x, !.p = y]
  BY DEF Linked, LinkFields, NoCall

(* Handles stay.                                                           *)
LEMMA HandlesStay ==
    ASSUME fds' = fds
    PROVE  HandlesKept
  BY DEF HandlesKept

(* Steps of which the list does not hear: they change pairs, buffers and   *)
(* locals.                                                                 *)
LEMMA ListUnheard ==
    ASSUME Good, Linked, NEW c \in CPU, NEW place, NEW l, "d" \in DOMAIN l,
           place \notin {"append", "link"}, Go(c, place), loc' = [loc EXCEPT ![c] = l],
           sock' = sock, fds' = fds
    PROVE  Linked'
  BY LinksStay, HandlesStay, Elsewhere, LinkedKept

-----------------------------------------------------------------------------
(* The end of the list is where the walk ends.                             *)
LEMMA ListFindTail ==
    ASSUME Good, Linked, NEW c \in CPU, FindTail(c), ~wild'
    PROVE  Linked'
  <1>1. PICK tail \in List : /\ sock[tail].next = NULL /\ Stray \notin List /\ pc[c] = "append"
                             /\ loc' = [loc EXCEPT ![c].d = tail] /\ Go(c, "link")
                             /\ sock' = sock /\ fds' = fds
    BY Zenon DEF FindTail, GoWild, At
  <1>2. PICK L : Chain(L) /\ Lists(L)
    BY DEF Linked
  <1>3. PICK m \in Nat \ {0} : m = Len(L)
    BY <1>2 DEF Chain, Listed
  <1>4. PICK i \in 1 .. m : L[i] = tail
    BY <1>1, <1>2, <1>3, ChainIsList
  <1>5. i = m
    <2>1. CASE i # m
      <3>1. i \in 1 .. m - 1 /\ i + 1 \in 1 .. m
        BY <2>1
      <3>2. sock[tail].next = L[i + 1] /\ L[i + 1] \in Socks
        BY <1>2, <1>3, <1>4, <3>1 DEF Chain
      <3> QED
        BY <1>1, <3>2 DEF Socks, NULL
    <2> QED
      BY <2>1
  <1> DEFINE l == [loc[c] EXCEPT !.d = tail]
  <1>6. "d" \in DOMAIN l /\ l.d = tail /\ l.s = loc[c].s
    BY DEF Linked, LinkFields, Good, Shapes, IsCall
  <1>7. /\ pc' = [d \in CPU |-> IF d = c THEN "link" ELSE pc[d]]
        /\ loc' = [d \in CPU |-> IF d = c THEN l ELSE loc[d]]
    BY <1>1 DEF Go, Good, Shapes
  <1> HIDE DEF l
  <1>8. LinkFields'
    BY <1>1, <1>6, <1>7 DEF Linked, LinkFields, Socks
  <1>9. Chain(L)'
    BY <1>1, <1>2 DEF Chain, Socks, Listed
  <1>10. Lists(L)'
    <2>1. \A d \in CPU : Appending(d)' => Appending(d) /\ loc'[d].s = loc[d].s
      BY <1>1, <1>6, <1>7
    <2>2. \A d \in CPU : pc'[d] = "link" =>
              loc'[d].d = L[Len(L)] /\ sock'[loc'[d].d].next = NULL
      BY <1>1, <1>2, <1>3, <1>4, <1>5, <1>6, <1>7 DEF Lists
    <2> QED
      BY <1>1, <1>2, <2>1, <2>2 DEF Lists
  <1> QED
    BY <1>8, <1>9, <1>10 DEF Linked

(* The socket becomes the last of the list, unless another CPU is about to *)
(* write the same link.                                                    *)
LEMMA ListLink ==
    ASSUME Good, Linked, NEW c \in CPU, Link(c), ~crossed'
    PROVE  Linked'
  <1> DEFINE s == loc[c].s
             t == loc[c].d
             y == [sock[t] EXCEPT !.next = s]
             h == [s |-> s, op |-> loc[c].op]
  <1>1. /\ pc[c] = "link" /\ Go(c, "user") /\ loc' = [loc EXCEPT ![c] = NoCall]
        /\ sock' = [sock EXCEPT ![t] = y]
        /\ fds' = fds \/ fds' = [fds EXCEPT ![c] = Append(fds[c], h)]
        /\ \A x \in CPU \ {c} : pc[x] # "link"
    BY DEF Link, At
  <1>2. PICK L : Chain(L) /\ Lists(L)
    BY DEF Linked
  <1>3. PICK m \in Nat \ {0} : m = Len(L)
    BY <1>2 DEF Chain, Listed
  <1>4. /\ s \in Socks /\ t = L[m] /\ t \in Socks /\ s # t
        /\ \A i \in 1 .. m : L[i] # s
        /\ sock[s].next \in {NULL, Stray}
        /\ \A d \in CPU : d # c /\ Appending(d) => loc[d].s # s /\ loc[d].s \in Socks
    BY <1>1, <1>2, <1>3 DEF Lists, Chain, Good, Owned
  <1>5. "next" \in DOMAIN y /\ y.next = s /\ h.s = s
    BY <1>4 DEF Linked, LinkFields
  <1> HIDE DEF y, h
  <1>6. Len(sock') = Len(sock) /\ \A u \in Socks : sock'[u] = IF u = t THEN y ELSE sock[u]
    <2>1. Len(sock) \in Nat /\ sock = [i \in 1 .. Len(sock) |-> sock[i]]
      BY DEF Good, Shapes, Listed
    <2>2. sock' = [i \in 1 .. Len(sock) |-> sock'[i]]
          /\ \A u \in 1 .. Len(sock) : sock'[u] = IF u = t THEN y ELSE sock[u]
      BY <1>1, <2>1
    <2> QED
      BY <2>1, <2>2, FunctionListed DEF Socks
  <1>7. /\ pc' = [d \in CPU |-> IF d = c THEN "user" ELSE pc[d]]
        /\ loc' = [d \in CPU |-> IF d = c THEN NoCall ELSE loc[d]]
    BY <1>1 DEF Go, Good, Shapes
  <1>8. LinkFields'
    BY <1>5, <1>6, <1>7 DEF Linked, LinkFields, Socks, NoCall
  <1>9. PICK M : M = Append(L, s)
    OBVIOUS
  <1>10. /\ Listed(M) /\ Len(M) = m + 1 /\ M[m + 1] = s
         /\ \A i \in 1 .. m : M[i] = L[i]
    BY <1>2, <1>3, <1>9, AppendListed DEF Chain
  <1>11. \A i \in 1 .. m : i \in 1 .. m + 1
    OBVIOUS
  <1>12. \A i \in 1 .. m + 1 : i = m + 1 \/ i \in 1 .. m
    OBVIOUS
  <1>13. Chain(M)'
    <2>1. \A i \in 1 .. m : L[i] \in Socks
      BY <1>2, <1>3 DEF Chain
    <2>2. \A i \in 1 .. m + 1 : M[i] \in Socks'
      BY <1>4, <1>6, <1>10, <1>12, <2>1 DEF Socks
    <2>3. ASSUME NEW i \in 1 .. m + 1, NEW j \in 1 .. m + 1, M[i] = M[j] PROVE i = j
      <3>1. \A a, b \in 1 .. m : L[a] = L[b] => a = b
        BY <1>2, <1>3 DEF Chain
      <3> QED
        BY <1>4, <1>10, <1>12, <2>3, <3>1
    <2>4. ASSUME NEW i \in 1 .. m PROVE sock'[M[i]].next = M[i + 1]
      <3>1. M[i] = L[i] /\ L[i] \in Socks
        BY <1>10, <2>1
      <3>2. CASE i = m
        BY <1>4, <1>5, <1>6, <1>10, <3>1, <3>2
      <3>3. CASE i # m
        <4>1. i \in 1 .. m - 1 /\ i + 1 \in 1 .. m /\ m \in 1 .. m
          BY <3>3
        <4>2. L[i] # t
          BY <1>2, <1>3, <1>4, <3>3, <4>1 DEF Chain
        <4>3. sock[L[i]].next = L[i + 1]
          BY <1>2, <1>3, <4>1 DEF Chain
        <4> QED
          BY <1>6, <1>10, <3>1, <4>1, <4>2, <4>3
      <3> QED
        BY <3>2, <3>3
    <2>5. sock'[M[m + 1]].next \in {NULL, Stray}
      BY <1>4, <1>6, <1>10
    <2>6. M[1] = HEAD /\ m + 1 # 0 /\ (m + 1) - 1 = m
      <3>1. 1 \in 1 .. m
        OBVIOUS
      <3> QED
        BY <1>2, <1>10, <3>1 DEF Chain
    <2> QED
      BY <1>10, <2>2, <2>3, <2>4, <2>5, <2>6 DEF Chain, Listed
  <1>14. Lists(M)'
    <2>1. ASSUME NEW d \in CPU, NEW k \in DOMAIN fds'[d]
          PROVE  \E i \in 1 .. m + 1 : M[i] = fds'[d][k].s
      <3>1. fds'[d][k].s = s \/ (k \in DOMAIN fds[d] /\ fds'[d][k] = fds[d][k])
        <4>1. CASE fds' = fds
          BY <4>1
        <4>2. CASE fds' = [fds EXCEPT ![c] = Append(fds[c], h)]
          <5> DEFINE T == [s : Int, op : Ops]
          <5>1. fds \in [CPU -> Seq(T)]
            BY DEF Good, Shapes
          <5>2. h \in T
            BY <1>1, <1>4 DEF h, T, Socks, Good, Shapes, IsCall, Listed
          <5> HIDE DEF T
          <5>3. CASE d = c
            <6>1. PICK q \in Seq(T) : q = fds[c]
              BY <5>1
            <6>2. fds'[d] = Append(q, h)
              BY <4>2, <5>1, <5>3, <6>1
            <6>3. k \in 1 .. Len(q) + 1
              BY <5>2, <6>1, <6>2
            <6>4. CASE k = Len(q) + 1
              BY <1>5, <5>2, <6>1, <6>2, <6>4
            <6>5. CASE k # Len(q) + 1
              <7>1. k \in 1 .. Len(q) /\ DOMAIN q = 1 .. Len(q)
                BY <6>1, <6>3, <6>5
              <7>2. Append(q, h)[k] = q[k]
                BY <5>2, <6>1, <7>1
              <7> QED
                BY <5>3, <6>1, <6>2, <7>1, <7>2
            <6> QED
              BY <6>4, <6>5
          <5>4. CASE d # c
            BY <4>2, <5>1, <5>4
          <5> QED
            BY <5>3, <5>4
        <4> QED
          BY <1>1, <4>1, <4>2
      <3>2. CASE fds'[d][k].s = s
        <4>1. m + 1 \in 1 .. m + 1
          OBVIOUS
        <4> QED
          BY <1>10, <3>2, <4>1
      <3>3. CASE k \in DOMAIN fds[d] /\ fds'[d][k] = fds[d][k]
        <4>1. PICK i \in 1 .. m : L[i] = fds[d][k].s
          BY <1>2, <1>3, <3>3 DEF Lists
        <4> QED
          BY <1>10, <1>11, <3>3, <4>1
      <3> QED
        BY <3>1, <3>2, <3>3
    <2>2. ASSUME NEW d \in CPU, Appending(d)'
          PROVE  /\ \A i \in 1 .. m + 1 : M[i] # loc'[d].s
                 /\ sock'[loc'[d].s].next \in {NULL, Stray}
      <3>1. d # c /\ Appending(d) /\ loc'[d] = loc[d]
        BY <1>7, <2>2
      <3>2. /\ \A i \in 1 .. m : L[i] # loc[d].s
            /\ sock[loc[d].s].next \in {NULL, Stray}
        BY <1>2, <1>3, <3>1 DEF Lists
      <3>3. m \in 1 .. m /\ loc[d].s # s /\ loc[d].s \in Socks
        BY <1>4, <3>1
      <3> QED
        BY <1>4, <1>6, <1>10, <1>12, <3>1, <3>2, <3>3
    <2>3. \A d \in CPU : pc'[d] # "link"
      BY <1>1, <1>7
    <2> QED
      BY <1>10, <2>1, <2>2, <2>3 DEF Lists
  <1> QED
    BY <1>8, <1>13, <1>14 DEF Linked

-----------------------------------------------------------------------------
(* A socket is made: nothing points to it yet.                             *)
LEMMA ListGrows ==
    ASSUME Good, Linked, NEW c \in CPU, NEW x, NEW f, NEW l,
           Listed(x), Len(x) = Len(sock), \A s \in Socks : "next" \in DOMAIN x[s] /\ x[s].next = sock[s].next,
           "next" \in DOMAIN f, f.next \in {NULL, Stray},
           sock' = Append(x, f), fds' = fds,
           "d" \in DOMAIN l, l.s = Len(sock) + 1, Go(c, "append"), loc' = [loc EXCEPT ![c] = l]
    PROVE  Linked'
  <1>1. PICK n \in Nat : n = Len(sock)
    BY DEF Good, Shapes, Listed
  <1>2. /\ Len(sock') = n + 1 /\ sock'[n + 1] = f
        /\ \A s \in 1 .. n : sock'[s] = x[s]
    BY <1>1, AppendListed
  <1>3. LinksKept
    <2>1. \A s \in 1 .. n + 1 : s = n + 1 \/ s \in 1 .. n
      OBVIOUS
    <2>2. \A s \in 1 .. n : "next" \in DOMAIN x[s] /\ x[s].next = sock[s].next
      BY <1>1 DEF Socks
    <2>3. n + 1 \in Nat /\ n <= n + 1
      OBVIOUS
    <2> QED
      BY <1>1, <1>2, <2>1, <2>2, <2>3 DEF LinksKept, Socks
  <1>4. /\ pc' = [d \in CPU |-> IF d = c THEN "append" ELSE pc[d]]
        /\ loc' = [d \in CPU |-> IF d = c THEN l ELSE loc[d]]
    BY DEF Go, Good, Shapes
  <1>5. n + 1 \notin Socks
    BY <1>1 DEF Socks
  <1>6. \A d \in CPU : Standing(d)
    BY <1>1, <1>2, <1>4, <1>5 DEF Standing, Linked, LinkFields
  <1> QED
    BY <1>3, <1>6, HandlesStay, LinkedKept

(* k_driver_cskt makes a socket that is not on the list yet.               *)
LEMMA ListNewSocket ==
    ASSUME Good, Linked, NEW c \in CPU, k_driver_cskt(c)
    PROVE  Linked'
  <1>1. PICK next \in {NULL, Stray} : sock' = Append(sock, Fresh(next))
    BY DEF k_driver_cskt
  <1> DEFINE l == [loc[c] EXCEPT !.s = Len(sock) + 1]
  <1>2. Go(c, "append") /\ loc' = [loc EXCEPT ![c] = l] /\ fds' = fds
    BY DEF k_driver_cskt
  <1>3. "d" \in DOMAIN l /\ l.s = Len(sock) + 1
    BY DEF Linked, LinkFields, Good, Shapes, IsCall
  <1>4. PICK f : f = Fresh(next)
    OBVIOUS
  <1>5. "next" \in DOMAIN f /\ f.next \in {NULL, Stray}
    BY <1>4 DEF Fresh
  <1>6. Listed(sock) /\ \A s \in Socks : "next" \in DOMAIN sock[s] /\ sock[s].next = sock[s].next
    BY DEF Good, Shapes, Linked, LinkFields
  <1> HIDE DEF l
  <1> QED
    BY <1>1, <1>2, <1>3, <1>4, <1>5, <1>6, ListGrows

(* accept takes a pair; the socket it makes is not on the list yet.        *)
LEMMA ListTakeFirst ==
    ASSUME Good, Linked, NEW c \in CPU, TakeFirst(c), ~wild'
    PROVE  Linked'
  <1> DEFINE s == loc[c].s
             max == sock[s].max
             y == [sock[s] EXCEPT !.backlog = Shifted(sock[s].backlog, max),
                                  !.max = max - 1, !.state = "disconnected"]
             l == [NoCall EXCEPT !.s = Len(sock) + 1, !.op = "accept"]
  <1>1. ~(max < 1)
    BY DEF TakeFirst, GoWild
  <1>2. PICK next \in {NULL, Stray} :
            sock' = Append([sock EXCEPT ![s] = y],
                           [Fresh(next) EXCEPT !.pair = loc[c].p, !.state = "connected"])
    BY <1>1, ZenonT(60) DEF TakeFirst
  <1>3. Go(c, "append") /\ loc' = [loc EXCEPT ![c] = l] /\ fds' = fds
    BY <1>1 DEF TakeFirst
  <1>4. "d" \in DOMAIN l /\ l.s = Len(sock) + 1
    BY DEF NoCall
  <1>5. PICK f : f = [Fresh(next) EXCEPT !.pair = loc[c].p, !.state = "connected"]
    OBVIOUS
  <1>6. "next" \in DOMAIN f /\ f.next \in {NULL, Stray}
    BY <1>5 DEF Fresh
  <1>7. s \in Socks => "next" \in DOMAIN y /\ y.next = sock[s].next
    BY DEF Linked, LinkFields
  <1> HIDE DEF y, l
  <1>8. PICK x : x = [sock EXCEPT ![s] = y]
    OBVIOUS
  <1>9. Len(sock) \in Nat /\ sock = [i \in 1 .. Len(sock) |-> sock[i]]
    BY DEF Good, Shapes, Listed
  <1>10. x = [i \in 1 .. Len(sock) |-> x[i]]
         /\ \A u \in 1 .. Len(sock) : x[u] = IF u = s THEN y ELSE sock[u]
    BY <1>8, <1>9
  <1>11. Listed(x) /\ Len(x) = Len(sock)
    BY <1>9, <1>10, FunctionListed
  <1>12. \A u \in Socks : "next" \in DOMAIN x[u] /\ x[u].next = sock[u].next
    BY <1>7, <1>10 DEF Socks, Linked, LinkFields
  <1> QED
    BY <1>2, <1>3, <1>4, <1>5, <1>6, <1>8, <1>11, <1>12, ListGrows

(* Fields of sockets other than the link.                                  *)
LEMMA ListListen ==
    ASSUME Good, Linked, NEW c \in CPU, k_driver_listen(c)
    PROVE  Linked'
  <1>1. PICK h \in ToSet(fds[c]) :
            /\ sock' = [sock EXCEPT ![h.s] = [sock[h.s] EXCEPT !.state = "listening"]]
            /\ loc' = [loc EXCEPT ![c] = [loc[c] EXCEPT !.s = h.s]]
            /\ Go(c, "reset") /\ fds' = fds
    BY DEF k_driver_listen
  <1> DEFINE y == [sock[h.s] EXCEPT !.state = "listening"]
  <1>2. h.s \in Socks => "next" \in DOMAIN y /\ y.next = sock[h.s].next
    BY DEF Linked, LinkFields
  <1> HIDE DEF y
  <1>3. LinksKept
    BY <1>1, <1>2, OneLink DEF y
  <1> QED
    BY <1>1, <1>3, CallPlace, Elsewhere, HandlesStay, LinkedKept

(* listen resets the count, and leaves the links.                          *)
LEMMA ListResetCurr ==
    ASSUME Good, Linked, NEW c \in CPU, ResetCurr(c)
    PROVE  Linked'
  <1> DEFINE s == loc[c].s
             y == [sock[s] EXCEPT !.curr = 0]
  <1>1. sock' = [sock EXCEPT ![s] = y] /\ loc' = loc /\ Go(c, "backlog") /\ fds' = fds
    BY DEF ResetCurr
  <1>2. s \in Socks => "next" \in DOMAIN y /\ y.next = sock[s].next
    BY DEF Linked, LinkFields
  <1> HIDE DEF y
  <1>3. LinksKept
    BY <1>1, <1>2, OneLink
  <1>4. loc' = [loc EXCEPT ![c] = loc[c]]
    BY <1>1 DEF Good, Shapes
  <1> QED
    BY <1>1, <1>3, <1>4, CallPlace, Elsewhere, HandlesStay, LinkedKept

(* listen gives the socket a backlog, and leaves its link.                 *)
LEMMA ListNewBacklog ==
    ASSUME Good, Linked, NEW c \in CPU, NewBacklog(c)
    PROVE  Linked'
  <1> DEFINE s == loc[c].s
             y == [sock[s] EXCEPT !.max = MaxConn,
                                  !.backlog = [i \in 0 .. MaxConn - 1 |-> Stray]]
  <1>1. /\ sock' = [sock EXCEPT ![s] = y] /\ loc' = [loc EXCEPT ![c] = NoCall]
        /\ Go(c, "user") /\ fds' = fds
    BY DEF NewBacklog
  <1>2. s \in Socks => "next" \in DOMAIN y /\ y.next = sock[s].next
    BY DEF Linked, LinkFields
  <1> HIDE DEF y
  <1>3. LinksKept
    BY <1>1, <1>2, OneLink
  <1> QED
    BY <1>1, <1>3, CallPlace, Elsewhere, HandlesStay, LinkedKept

(* connect counts the pair in the backlog, and leaves the links.           *)
LEMMA ListWriteCurr ==
    ASSUME Good, Linked, NEW c \in CPU, WriteCurr(c)
    PROVE  Linked'
  <1> DEFINE s == loc[c].d
             y == [sock[s] EXCEPT !.curr = loc[c].i + 1]
  <1>1. sock' = [sock EXCEPT ![s] = y] /\ loc' = loc /\ Go(c, "store") /\ fds' = fds
    BY DEF WriteCurr
  <1>2. s \in Socks => "next" \in DOMAIN y /\ y.next = sock[s].next
    BY DEF Linked, LinkFields
  <1> HIDE DEF y
  <1>3. LinksKept
    BY <1>1, <1>2, OneLink
  <1>4. loc' = [loc EXCEPT ![c] = loc[c]]
    BY <1>1 DEF Good, Shapes
  <1> QED
    BY <1>1, <1>3, <1>4, CallPlace, Elsewhere, HandlesStay, LinkedKept

(* connect stores the pair in the backlog, and leaves the links.           *)
LEMMA ListStorePair ==
    ASSUME Good, Linked, NEW c \in CPU, StorePair(c), ~wild'
    PROVE  Linked'
  <1> DEFINE s == loc[c].s
             d == loc[c].d
             i == loc[c].i
             p == loc[c].p
  <1>1. /\ Go(c, "wait") /\ loc' = loc /\ fds' = fds
        /\ sock' = [sock EXCEPT ![d].backlog[i] = p, ![s].pair = p]
    BY DEF StorePair, GoWild
  <1>2. Len(sock) \in Nat /\ sock = [t \in 1 .. Len(sock) |-> sock[t]]
    BY DEF Good, Shapes, Listed
  <1> HIDE DEF s, d, i, p
  <1>3. PICK x : x = [sock EXCEPT ![d].backlog[i] = p]
    OBVIOUS
  <1>4. x = [t \in 1 .. Len(sock) |-> IF t = d THEN [sock[t] EXCEPT !.backlog[i] = p] ELSE sock[t]]
    BY <1>2, <1>3
  <1>5. \A t \in 1 .. Len(sock) : "next" \in DOMAIN x[t] /\ x[t].next = sock[t].next
    BY <1>4 DEF Linked, LinkFields, Socks
  <1>6. sock' = [x EXCEPT ![s].pair = p]
    BY <1>1, <1>3
  <1>7. x = [t \in 1 .. Len(sock) |-> x[t]]
    BY <1>4
  <1>8. sock' = [t \in 1 .. Len(sock) |-> IF t = s THEN [x[t] EXCEPT !.pair = p] ELSE x[t]]
    BY <1>6, <1>7
  <1>9. \A t \in 1 .. Len(sock) : "next" \in DOMAIN sock'[t] /\ sock'[t].next = sock[t].next
    BY <1>5, <1>8
  <1>10. Len(sock') = Len(sock)
    <2>1. sock' = [t \in 1 .. Len(sock) |-> sock'[t]]
      BY <1>8
    <2> QED
      BY <1>2, <2>1, FunctionListed
  <1>11. LinksKept
    BY <1>2, <1>9, <1>10 DEF LinksKept, Socks
  <1>12. loc' = [loc EXCEPT ![c] = loc[c]]
    BY <1>1 DEF Good, Shapes
  <1> QED
    BY <1>1, <1>11, <1>12, CallPlace, Elsewhere, HandlesStay, LinkedKept

(* connect ends: the handles keep their sockets.                           *)
LEMMA ListConnected ==
    ASSUME Good, Linked, NEW c \in CPU, Connected(c)
    PROVE  Linked'
  <1> DEFINE s == loc[c].s
             y == [sock[s] EXCEPT !.state = "connected"]
  <1>1. /\ Go(c, "user") /\ loc' = [loc EXCEPT ![c] = NoCall] /\ sock' = [sock EXCEPT ![s] = y]
        /\ fds' = [fds EXCEPT ![c] = [k \in DOMAIN fds[c] |->
                      IF fds[c][k].s = s THEN [fds[c][k] EXCEPT !.op = "normal"] ELSE fds[c][k]]]
    BY DEF Connected
  <1>2. s \in Socks => "next" \in DOMAIN y /\ y.next = sock[s].next
    BY DEF Linked, LinkFields
  <1> HIDE DEF y
  <1>3. LinksKept
    BY <1>1, <1>2, OneLink
  <1>4. HandlesKept
    <2>1. \A d \in CPU : \A k \in DOMAIN fds[d] : "s" \in DOMAIN fds[d][k]
      <3> DEFINE T == [s : Int, op : Ops]
      <3>1. \A h \in T : "s" \in DOMAIN h
        OBVIOUS
      <3>2. fds \in [CPU -> Seq(T)]
        BY DEF Good, Shapes
      <3> HIDE DEF T
      <3> QED
        BY <3>1, <3>2
    <2>2. ASSUME NEW d \in CPU, NEW k \in DOMAIN fds'[d]
          PROVE  k \in DOMAIN fds[d] /\ fds'[d][k].s = fds[d][k].s
      <3>1. DOMAIN fds = CPU
        BY DEF Good, Shapes
      <3>2. CASE d = c
        <4>1. fds'[d] = [j \in DOMAIN fds[c] |->
                  IF fds[c][j].s = s THEN [fds[c][j] EXCEPT !.op = "normal"] ELSE fds[c][j]]
          BY <1>1, <3>1, <3>2
        <4>2. k \in DOMAIN fds[c]
          BY <4>1, <2>2
        <4> QED
          BY <2>1, <3>2, <4>1, <4>2
      <3>3. CASE d # c
        BY <1>1, <2>2, <3>1, <3>3
      <3> QED
        BY <3>2, <3>3
    <2> QED
      BY <2>2 DEF HandlesKept
  <1> QED
    BY <1>1, <1>3, <1>4, CallPlace, Elsewhere, LinkedKept

-----------------------------------------------------------------------------
(* Steps that change no socket and no handle.                              *)
LEMMA ListConnect ==
    ASSUME Good, Linked, NEW c \in CPU, k_driver_connect(c), ~wild'
    PROVE  Linked'
  <1>1. PICK h \in ToSet(fds[c]) :
            \/ Go(c, "halted") /\ UNCHANGED <<sock, pair, fds, loc, wild, crossed, raced, got>>
            \/ \E d : /\ loc' = [loc EXCEPT ![c].s = h.s, ![c].d = d] /\ Go(c, "push")
                      /\ UNCHANGED <<sock, pair, fds, wild, crossed, raced, got>>
    BY Zenon DEF k_driver_connect, GoWild
  <1>2. CASE Go(c, "halted") /\ UNCHANGED <<sock, pair, fds, loc, wild, crossed, raced, got>>
    <2>1. loc' = [loc EXCEPT ![c] = loc[c]] /\ sock' = sock /\ fds' = fds
      BY <1>2 DEF Good, Shapes
    <2> QED
      BY <1>2, <2>1, CallPlace, ListUnheard
  <1>3. ASSUME NEW d, loc' = [loc EXCEPT ![c].s = h.s, ![c].d = d], Go(c, "push"),
               UNCHANGED <<sock, pair, fds, wild, crossed, raced, got>>
        PROVE  Linked'
    <2>1. loc' = [loc EXCEPT ![c] = [loc[c] EXCEPT !.s = h.s, !.d = d]] /\ sock' = sock /\ fds' = fds
      BY <1>3
    <2>2. PICK l : l = [loc[c] EXCEPT !.s = h.s, !.d = d]
      OBVIOUS
    <2>3. "d" \in DOMAIN l
      BY <2>2, CallPlace
    <2> QED
      BY <1>3, <2>1, <2>2, <2>3, ListUnheard
  <1> QED
    BY <1>1, <1>2, <1>3

(* connect makes a pair.                                                   *)
LEMMA ListReadCurr ==
    ASSUME Good, Linked, NEW c \in CPU, ReadCurr(c), ~wild'
    PROVE  Linked'
  <1>1. /\ loc' = [loc EXCEPT ![c] = [loc[c] EXCEPT !.p = Len(pair) + 1, !.i = sock[loc[c].d].curr]]
        /\ Go(c, "curr") /\ sock' = sock /\ fds' = fds
    BY DEF ReadCurr, GoWild
  <1> QED
    BY <1>1, CallPlace, ListUnheard

(* accept waits, or finds a pair.                                          *)
LEMMA ListAccept ==
    ASSUME Good, Linked, NEW c \in CPU, k_driver_accept(c), ~wild'
    PROVE  Linked'
  <1>1. PICK s, p : /\ loc' = [loc EXCEPT ![c].s = s, ![c].p = p]
                    /\ Go(c, "buffers") /\ sock' = sock /\ fds' = fds
    BY Zenon DEF k_driver_accept, GoWild
  <1>2. loc' = [loc EXCEPT ![c] = [loc[c] EXCEPT !.s = s, !.p = p]]
    BY <1>1
  <1>3. PICK l : l = [loc[c] EXCEPT !.s = s, !.p = p]
    OBVIOUS
  <1>4. "d" \in DOMAIN l
    BY <1>3, CallPlace
  <1> QED
    BY <1>1, <1>2, <1>3, <1>4, ListUnheard

(* accept makes the buffers and marks the pair.                            *)
LEMMA ListNewBuffers ==
    ASSUME Good, Linked, NEW c \in CPU, NewBuffers(c) \/ MarkConnected(c)
    PROVE  Linked'
  <1>1. PICK place \in {"mark", "shift"} : Go(c, place) /\ loc' = loc /\ sock' = sock /\ fds' = fds
    BY DEF NewBuffers, MarkConnected
  <1>2. loc' = [loc EXCEPT ![c] = loc[c]]
    BY <1>1 DEF Good, Shapes
  <1> QED
    BY <1>1, <1>2, CallPlace, ListUnheard

(* A send or recv begins.                                                  *)
LEMMA ListSend ==
    ASSUME Good, Linked, NEW c \in CPU, NEW n \in Limits,
           k_driver_send(c, n) \/ k_driver_recv(c, n), ~wild'
    PROVE  Linked'
  <1> DEFINE Begins(place, l) == /\ Go(c, place) /\ sock' = sock /\ fds' = fds
                                 /\ loc' = [loc EXCEPT ![c] = l] /\ "d" \in DOMAIN l
  <1>0. \A p, e, m : "d" \in DOMAIN [NoCall EXCEPT !.p = p, !.e = e, !.n = m]
    BY DEF NoCall
  <1>1. CASE k_driver_send(c, n)
    <2>1. PICK h \in ToSet(fds[c]) :
              /\ Go(c, "sent") /\ sock' = sock /\ fds' = fds
              /\ loc' = [loc EXCEPT ![c] =
                            [NoCall EXCEPT !.p = sock[h.s].pair, !.e = SendsTo(h), !.n = n]]
      BY <1>1, ZenonT(60) DEF k_driver_send, GoWild
    <2>2. \E l : Begins("sent", l)
      BY <1>0, <2>1
    <2> QED
      BY <2>2, ListUnheard
  <1>2. CASE k_driver_recv(c, n)
    <2>1. PICK h \in ToSet(fds[c]) :
              /\ Go(c, "copied") /\ sock' = sock /\ fds' = fds
              /\ loc' = [loc EXCEPT ![c] =
                            [NoCall EXCEPT !.p = sock[h.s].pair, !.e = RecvsFrom(h),
                                           !.n = Min({n, pair[sock[h.s].pair].pos[RecvsFrom(h)]})]]
      BY <1>2, ZenonT(60) DEF k_driver_recv, GoWild
    <2>2. \E l : Begins("copied", l)
      BY <1>0, <2>1
    <2> QED
      BY <2>2, ListUnheard
  <1> QED
    BY <1>1, <1>2

(* A send or recv ends.                                                    *)
LEMMA ListDone ==
    ASSUME Good, Linked, NEW c \in CPU, SendDone(c) \/ RecvDone(c)
    PROVE  Linked'
  <1>1. Go(c, "user") /\ loc' = [loc EXCEPT ![c] = NoCall] /\ sock' = sock /\ fds' = fds
    BY DEF SendDone, RecvDone
  <1> QED
    BY <1>1, CallPlace, ListUnheard

(* The head alone.                                                         *)
LEMMA ListInit == Init => ListInv
  <1> SUFFICES ASSUME Init PROVE Linked
    BY DEF ListInv
  <1>1. PICK x : x = Fresh(NULL)
    OBVIOUS
  <1>2. "next" \in DOMAIN x /\ x.next = NULL
    BY <1>1 DEF Fresh
  <1>3. sock = <<x>> /\ Len(sock) = 1 /\ sock[1] = x /\ Socks = {1}
    BY <1>1 DEF Init, Socks
  <1>4. \A c \in CPU : pc[c] = "user" /\ loc[c] = NoCall /\ fds[c] = <<>>
    BY DEF Init
  <1>5. LinkFields
    BY <1>2, <1>3, <1>4 DEF LinkFields, NoCall
  <1>6. PICK L : L = <<HEAD>>
    OBVIOUS
  <1>7. Listed(L) /\ Len(L) = 1 /\ L[1] = HEAD
    BY <1>6 DEF Listed
  <1>8. Chain(L)
    BY <1>2, <1>3, <1>7 DEF Chain, HEAD
  <1>9. Lists(L)
    BY <1>4 DEF Lists
  <1> QED
    BY <1>5, <1>8, <1>9 DEF Linked

(* Every step keeps the list, or two CPUs append at once.                  *)
LEMMA ListStep == SocketInv /\ ListInv /\ [Next]_vars => ListInv'
  <1> SUFFICES ASSUME SocketInv, ListInv, [Next]_vars PROVE ListInv'
    OBVIOUS
  <1>1. CASE UNCHANGED vars
    <2>1. CASE Linked /\ Good
      <3>1. sock' = sock /\ fds' = fds /\ pc' = pc /\ loc' = loc
        BY <1>1 DEF vars
      <3>2. \A c \in CPU : Standing(c)
        BY <2>1, <3>1 DEF Standing, Linked, LinkFields
      <3> QED
        BY <2>1, <3>1, <3>2, LinksStay, HandlesStay, LinkedKept DEF ListInv
    <2> QED
      BY <1>1, <2>1 DEF vars, ListInv, SocketInv
  <1>2. CASE Next
    <2>1. PICK c \in CPU :
            \/ k_driver_cskt(c) \/ FindTail(c) \/ Link(c)
            \/ k_driver_listen(c) \/ ResetCurr(c) \/ NewBacklog(c)
            \/ k_driver_connect(c) \/ ReadCurr(c) \/ WriteCurr(c) \/ StorePair(c) \/ Connected(c)
            \/ k_driver_accept(c) \/ NewBuffers(c) \/ MarkConnected(c) \/ TakeFirst(c)
            \/ (\E n \in Limits : k_driver_send(c, n) \/ k_driver_recv(c, n))
            \/ SendDone(c) \/ RecvDone(c)
      BY <1>2 DEF Next
    <2>2. ~wild
      BY <2>1 DEF At, k_driver_cskt, FindTail, Link, k_driver_listen, ResetCurr, NewBacklog,
                  k_driver_connect, ReadCurr, WriteCurr, StorePair, Connected, k_driver_accept, NewBuffers,
                  MarkConnected, TakeFirst, k_driver_send, k_driver_recv, SendDone, RecvDone
    <2>3. CASE crossed
      <3>1. crossed'
        BY <2>1, <2>3, ZenonT(60) DEF GoWild, k_driver_cskt, FindTail, Link, k_driver_listen, ResetCurr,
                  NewBacklog, k_driver_connect, ReadCurr, WriteCurr, StorePair, Connected, k_driver_accept, NewBuffers,
                  MarkConnected, TakeFirst, k_driver_send, k_driver_recv, SendDone, RecvDone
      <3> QED
        BY <3>1 DEF ListInv
    <2>4. CASE ~crossed /\ ~wild' /\ ~crossed'
      <3>1. Good /\ Linked
        BY <2>2, <2>4 DEF SocketInv, ListInv
      <3>2. Linked'
        BY <2>1, <2>4, <3>1, ListNewSocket, ListFindTail, ListLink, ListListen, ListResetCurr, ListNewBacklog,
           ListConnect, ListReadCurr, ListWriteCurr, ListStorePair, ListConnected, ListAccept,
           ListNewBuffers, ListTakeFirst, ListSend, ListDone
      <3> QED
        BY <3>2 DEF ListInv
    <2> QED
      BY <2>3, <2>4 DEF ListInv
  <1> QED
    BY <1>1, <1>2

(* SocketsListed holds on any number of CPUs: a socket that has a handle   *)
(* is found by a walk from driver_sockets, and the walk ends, unless a     *)
(* stray pointer was followed or two CPUs appended at the same time.       *)
THEOREM SocketSocketsListed == Spec => []SocketsListed
  <1>1. Spec => []SocketInv
    BY SocketsInit, SocketsStep, PTL DEF Spec
  <1>2. Spec => []ListInv
    BY <1>1, ListInit, ListStep, PTL DEF Spec
  <1>3. SocketInv /\ ListInv => SocketsListed
    <2> SUFFICES ASSUME Good, Linked
                 PROVE  /\ \A c \in CPU : \A h \in ToSet(fds[c]) : h.s \in List
                        /\ Nth[Len(sock)] \in {NULL, Stray}
      BY DEF SocketInv, ListInv, SocketsListed
    <2>1. PICK L : Chain(L) /\ Lists(L)
      BY DEF Linked
    <2>2. ASSUME NEW c \in CPU, NEW h \in ToSet(fds[c]) PROVE h.s \in List
      <3>1. PICK k \in DOMAIN fds[c] : fds[c][k] = h
        BY DEF ToSet
      <3>2. PICK i \in 1 .. Len(L) : L[i] = h.s
        BY <2>1, <3>1 DEF Lists
      <3> QED
        BY <2>1, <3>2, ChainIsList
    <2> QED
      BY <2>1, <2>2, ChainIsList
  <1> QED
    BY <1>1, <1>2, <1>3, PTL

-----------------------------------------------------------------------------
(* The buffers                                                             *)

InCall(c, p, e) == pc[c] \in {"sent", "copied"} /\ loc[c].p = p /\ loc[c].e = e

IsBuffer(bytes) == bytes = [i \in 0 .. BufSize - 1 |-> bytes[i]]

(* The receiver has got the bytes in g and the buffer has the ones after   *)
(* them.  a bytes are behind the position, which a send has yet to         *)
(* advance, and b of those in g are also in the buffer, where a recv has   *)
(* yet to remove them.                                                     *)
Flow(g, pos, sent, bytes, a, b) ==
    /\ Listed(g) /\ \A i \in 1 .. Len(g) : g[i] = i
    /\ pos \in Nat /\ a \in Nat /\ b \in Nat
    /\ Len(g) - b + pos + a = sent
    /\ pos + a <= BufSize /\ b <= pos /\ b <= Len(g)
    /\ IsBuffer(bytes)
    /\ \A i \in 0 .. pos + a - 1 : bytes[i] = Len(g) - b + 1 + i

Content(p, e, a, b) ==
    Flow(got[p][e], pair[p].pos[e], pair[p].sent[e], pair[p].bytes[e], a, b)

Stream(p, e) ==
    /\ \A c, d \in CPU : InCall(c, p, e) /\ InCall(d, p, e) => c = d
    /\ \A c \in CPU : InCall(c, p, e) =>
          IF pc[c] = "sent" THEN Content(p, e, loc[c].n, 0) ELSE Content(p, e, 0, loc[c].n)
    /\ (\A c \in CPU : ~InCall(c, p, e)) => Content(p, e, 0, 0)

Streams == \A p \in Pairs : \A e \in Ends : <<p, e>> \notin raced => Stream(p, e)

(* A pair that nobody has accepted carries nothing.                        *)
Unused ==
    /\ \A p \in Pairs : ~pair[p].connected => \A e \in Ends :
          pair[p].pos[e] = 0 /\ pair[p].sent[e] = 0 /\ got[p][e] = <<>>
    /\ \A c \in CPU : pc[c] \in {"sent", "copied"} =>
          /\ loc[c].p \in Pairs /\ pair[loc[c].p].connected /\ loc[c].e \in Ends
          /\ loc[c].n \in Int

(* Nobody has accepted a pair that is on its way to an accept.             *)
Unaccepted ==
    /\ \A c \in CPU : Bringing(c) \/ pc[c] = "buffers" => ~pair[loc[c].p].connected
    /\ \A s \in Socks : \A i \in Live(s) :
          sock[s].backlog[i] \in Pairs /\ pair[sock[s].backlog[i]].connected =>
              \E c \in CPU : pc[c] = "shift" /\ loc[c].p = sock[s].backlog[i]

StreamFields ==
    /\ Len(got) = Len(pair) /\ Listed(got)
    /\ \A p \in Pairs :
          /\ got[p] = [e \in Ends |-> got[p][e]]
          /\ {"bytes", "pos", "sent"} \subseteq DOMAIN pair[p]
          /\ pair[p].bytes = [e \in Ends |-> pair[p].bytes[e]]
          /\ pair[p].pos \in [Ends -> Int] /\ pair[p].sent \in [Ends -> Nat]
    /\ \A c \in CPU : {"e", "n"} \subseteq DOMAIN loc[c]

Streaming == StreamFields /\ Unaccepted /\ Unused /\ Streams

StreamInv == wild \/ Streaming

-----------------------------------------------------------------------------
(* r has the count bytes that were from places further up.                 *)
Moved(r, bytes, from, count) ==
    IsBuffer(r) /\ \A i \in 0 .. count - 1 : r[i] = bytes[i + from]

(* memmove moves count bytes down by from places.                          *)
LEMMA MemmoveMoves ==
    ASSUME NEW bytes, IsBuffer(bytes),
           NEW from \in Nat, NEW count \in Nat, from + count <= BufSize
    PROVE  Moved(memmove(bytes, from, count), bytes, from, count)
  <1>0. PICK B \in Nat : B = BufSize
    BY BoundsAssumption
  <1>01. bytes = [i \in 0 .. B - 1 |-> bytes[i]] /\ from + count <= B
    BY <1>0 DEF IsBuffer
  <1> DEFINE F(k) == [i \in 0 .. B - 1 |-> IF i < k THEN bytes[i + from] ELSE bytes[i]]
             f == [k \in 0 .. count |-> F(k)]
             Step(g, k) == [g[k - 1] EXCEPT ![k - 1] = g[k - 1][k - 1 + from]]
             P(g) == g = [k \in 0 .. count |-> IF k = 0 THEN bytes ELSE Step(g, k)]
  <1>1. PICK o : o = [i \in 1 .. count |-> i - 1]
    OBVIOUS
  <1>2. Len(o) = count /\ \A k \in 1 .. count : o[k] = k - 1
    <2>1. o \in [1 .. count -> Int]
      BY <1>1
    <2>2. o \in Seq(Int)
      BY <2>1
    <2> QED
      BY <1>1, <2>1, <2>2
  <1>3. P(f)
    <2>1. ASSUME NEW k \in 0 .. count PROVE f[k] = IF k = 0 THEN bytes ELSE Step(f, k)
      <3>1. CASE k = 0
        <4>1. f[k] = F(0)
          BY <3>1
        <4>2. F(0) = [i \in 0 .. B - 1 |-> bytes[i]]
          OBVIOUS
        <4> QED
          BY <1>01, <3>1, <4>1, <4>2
      <3>2. CASE k # 0
        <4>1. f[k] = F(k) /\ f[k - 1] = F(k - 1)
          BY <3>2
        <4>2. k - 1 \in 0 .. B - 1 /\ k - 1 + from \in 0 .. B - 1
          BY <1>01, <3>2
        <4>3. F(k - 1)[k - 1 + from] = bytes[k - 1 + from]
          BY <4>2
        <4>4. ASSUME NEW i \in 0 .. B - 1
              PROVE  F(k)[i] = [F(k - 1) EXCEPT ![k - 1] = bytes[k - 1 + from]][i]
          <5>1. CASE i = k - 1
            BY <4>2, <5>1
          <5>2. CASE i # k - 1
            <6>1. i < k <=> i < k - 1
              BY <5>2
            <6> QED
              BY <5>2, <6>1
          <5> QED
            BY <5>1, <5>2
        <4>5. F(k) = [F(k - 1) EXCEPT ![k - 1] = bytes[k - 1 + from]]
          BY <4>4
        <4> HIDE DEF F
        <4> QED
          BY <3>2, <4>1, <4>3, <4>5
      <3> QED
        BY <3>1, <3>2
    <2>2. f = [k \in 0 .. count |-> f[k]]
      OBVIOUS
    <2> HIDE DEF f
    <2> QED
      BY <2>1, <2>2
  <1> HIDE DEF f
  <1>4. PICK g : g = CHOOSE x : P(x)
    OBVIOUS
  <1>5. P(g)
    <2> HIDE DEF P
    <2> QED
      BY <1>3, <1>4
  <1>6. memmove(bytes, from, count) = g[count]
    <2> DEFINE Q(x) == x = [k \in 0 .. Len(o) |->
                   IF k = 0 THEN bytes ELSE [x[k - 1] EXCEPT ![o[k]] = x[k - 1][o[k] + from]]]
    <2>1. memmove(bytes, from, count) = (CHOOSE x : Q(x))[Len(o)]
      BY <1>1 DEF memmove, CopyBytes
    <2>2. \A x : Q(x) <=> P(x)
      <3> TAKE x
      <3>1. \A k \in 0 .. count :
                (IF k = 0 THEN bytes ELSE [x[k - 1] EXCEPT ![o[k]] = x[k - 1][o[k] + from]])
                    = (IF k = 0 THEN bytes ELSE Step(x, k))
        BY <1>2
      <3> QED
        BY <1>2, <3>1
    <2> HIDE DEF P, Q
    <2>3. (CHOOSE x : Q(x)) = (CHOOSE x : P(x))
      BY <2>2
    <2> QED
      BY <1>2, <1>4, <2>1, <2>3
  <1>7. \A k \in 0 .. count : g[k] = f[k]
    <2> DEFINE T == {k \in 0 .. count : g[k] = f[k]}
    <2>1. 0 \in T
      BY <1>3, <1>5
    <2>2. ASSUME NEW k \in 0 .. count - 1, k \in T PROVE k + 1 \in T
      <3>1. k + 1 \in 0 .. count /\ k + 1 # 0 /\ (k + 1) - 1 = k
        OBVIOUS
      <3>2. f[k + 1] = Step(f, k + 1) /\ g[k + 1] = Step(g, k + 1)
        BY <1>3, <1>5, <3>1
      <3> QED
        BY <2>2, <3>1, <3>2
    <2> HIDE DEF T
    <2>3. 0 .. count \subseteq T
      BY <2>1, <2>2, IntervalInduct
    <2> QED
      BY <2>3 DEF T
  <1>8. PICK r : r = memmove(bytes, from, count)
    OBVIOUS
  <1>9. r = F(count)
    <2>1. f[count] = F(count)
      BY DEF f
    <2> HIDE DEF F
    <2>2. count \in 0 .. count
      OBVIOUS
    <2> QED
      BY <1>6, <1>7, <1>8, <2>1, <2>2
  <1>10. r = [i \in 0 .. B - 1 |-> r[i]] /\ \A i \in 0 .. count - 1 : r[i] = bytes[i + from]
    BY <1>01, <1>9
  <1> QED
    BY <1>0, <1>8, <1>10 DEF Moved, IsBuffer

-----------------------------------------------------------------------------
(* One byte stream through the four steps of a send and a recv             *)

(* What the stream of one buffer says, part by part.                       *)
LEMMA FlowFacts ==
    ASSUME NEW g, NEW pos, NEW sent, NEW bytes, NEW a, NEW b, Flow(g, pos, sent, bytes, a, b)
    PROVE  /\ Listed(g) /\ Len(g) \in Nat /\ \A i \in 1 .. Len(g) : g[i] = i
           /\ pos \in Nat /\ a \in Nat /\ b \in Nat /\ BufSize \in Nat
           /\ sent = Len(g) - b + pos + a
           /\ pos + a <= BufSize /\ b <= pos /\ b <= Len(g)
           /\ IsBuffer(bytes)
           /\ \A i \in 0 .. pos + a - 1 : bytes[i] = Len(g) - b + 1 + i
  <1>1. Listed(g) /\ Len(g) \in Nat
    BY DEF Flow, Listed
  <1>2. pos \in Nat /\ a \in Nat /\ b \in Nat /\ BufSize \in Nat
    BY BoundsAssumption DEF Flow
  <1>3. sent = Len(g) - b + pos + a /\ pos + a <= BufSize /\ b <= pos /\ b <= Len(g)
    BY <1>1, <1>2 DEF Flow
  <1>4. IsBuffer(bytes) /\ \A i \in 1 .. Len(g) : g[i] = i
    BY DEF Flow
  <1>5. \A i \in 0 .. pos + a - 1 : bytes[i] = Len(g) - b + 1 + i
    BY DEF Flow
  <1> QED
    BY <1>1, <1>2, <1>3, <1>4, <1>5

(* The buffer after a send of n bytes at pos.                              *)
Written(bytes, pos, sent, n) ==
    [i \in 0 .. BufSize - 1 |->
       IF i \in pos .. pos + n - 1 THEN sent + 1 + i - pos ELSE bytes[i]]

(* send has copied n bytes behind the position.                            *)
LEMMA FlowSend ==
    ASSUME NEW g, NEW pos, NEW sent, NEW bytes, NEW n \in Nat,
           Flow(g, pos, sent, bytes, 0, 0), pos + n <= BufSize
    PROVE  Flow(g, pos, sent + n, Written(bytes, pos, sent, n), n, 0)
  <1>1. PICK m \in Nat : m = Len(g)
    BY FlowFacts
  <1>2. /\ pos \in Nat /\ BufSize \in Nat /\ sent = m + pos /\ Listed(g)
        /\ \A i \in 1 .. m : g[i] = i
    <2>1. pos \in Nat /\ BufSize \in Nat /\ sent = m - 0 + pos + 0
      BY <1>1, FlowFacts
    <2>2. sent = m + pos
      BY <2>1
    <2> QED
      BY <1>1, <2>1, <2>2, FlowFacts
  <1>3. \A i \in 0 .. pos - 1 : bytes[i] = m + 1 + i
    <2>1. \A i \in 0 .. pos + 0 - 1 : bytes[i] = m - 0 + 1 + i
      BY <1>1, Zenon DEF Flow
    <2> QED
      BY <1>2, <2>1
  <1>4. PICK new : new = [i \in 0 .. BufSize - 1 |->
                            IF i \in pos .. pos + n - 1 THEN sent + 1 + i - pos ELSE bytes[i]]
    OBVIOUS
  <1>5. ASSUME NEW i \in 0 .. pos + n - 1 PROVE new[i] = m - 0 + 1 + i
    <2>1. i \in 0 .. BufSize - 1
      BY <1>2
    <2>2. CASE i < pos
      <3>1. i \notin pos .. pos + n - 1 /\ i \in 0 .. pos - 1
        BY <1>2, <2>2
      <3>2. new[i] = bytes[i]
        BY <1>4, <2>1, <3>1
      <3> QED
        BY <1>3, <3>1, <3>2
    <2>3. CASE i >= pos
      <3>1. i \in pos .. pos + n - 1
        BY <1>2, <2>3
      <3>2. new[i] = sent + 1 + i - pos
        BY <1>4, <2>1, <3>1
      <3> QED
        BY <1>2, <3>2
    <2> QED
      BY <1>2, <2>2, <2>3
  <1>6. IsBuffer(new)
    BY <1>4 DEF IsBuffer
  <1>7. 0 \in Nat /\ m - 0 + pos + n = sent + n /\ 0 <= pos /\ 0 <= m
    BY <1>2
  <1>8. Flow(g, pos, sent + n, new, n, 0)
    BY <1>1, <1>2, <1>5, <1>6, <1>7, Zenon DEF Flow
  <1> QED
    BY <1>4, <1>8 DEF Written

(* send advances the position over them.                                   *)
LEMMA FlowSent ==
    ASSUME NEW g, NEW pos, NEW sent, NEW bytes, NEW n, Flow(g, pos, sent, bytes, n, 0)
    PROVE  Flow(g, pos + n, sent, bytes, 0, 0)
  <1>1. PICK m \in Nat : m = Len(g)
    BY FlowFacts
  <1>2. pos \in Nat /\ n \in Nat /\ sent = m - 0 + pos + n /\ pos + n <= BufSize /\ BufSize \in Nat
    BY <1>1, FlowFacts
  <1>3. /\ 0 \in Nat /\ pos + n \in Nat /\ m - 0 + (pos + n) + 0 = sent
        /\ (pos + n) + 0 <= BufSize /\ 0 <= pos + n /\ 0 <= m
        /\ (pos + n) + 0 - 1 = pos + n - 1
    BY <1>2
  <1>4. \A i \in 0 .. (pos + n) + 0 - 1 : bytes[i] = m - 0 + 1 + i
    <2>1. \A i \in 0 .. pos + n - 1 : bytes[i] = m - 0 + 1 + i
      BY <1>1, Zenon DEF Flow
    <2> QED
      BY <1>3, <2>1, Zenon
  <1>5. /\ Listed(g) /\ \A i \in 1 .. m : g[i] = i
        /\ IsBuffer(bytes)
    BY <1>1, FlowFacts
  <1> QED
    BY <1>1, <1>3, <1>4, <1>5, Zenon DEF Flow

(* recv has given out the first n bytes.                                   *)
LEMMA FlowRecv ==
    ASSUME NEW g, NEW pos, NEW sent, NEW bytes, NEW n \in Nat,
           Flow(g, pos, sent, bytes, 0, 0), n <= pos
    PROVE  Flow(g \o [i \in 1 .. n |-> bytes[i - 1]], pos, sent, bytes, 0, n)
  <1>1. PICK m \in Nat : m = Len(g)
    BY FlowFacts
  <1>2. PICK t : t = [i \in 1 .. n |-> bytes[i - 1]]
    OBVIOUS
  <1>3. /\ pos \in Nat /\ BufSize \in Nat /\ sent = m + pos /\ pos <= BufSize
        /\ \A i \in 0 .. pos - 1 : bytes[i] = m + 1 + i
    <2>1. /\ pos \in Nat /\ BufSize \in Nat /\ sent = m - 0 + pos + 0 /\ pos + 0 <= BufSize
      BY <1>1, FlowFacts
    <2>2. \A i \in 0 .. pos + 0 - 1 : bytes[i] = m - 0 + 1 + i
      BY <1>1, Zenon DEF Flow
    <2> QED
      BY <2>1, <2>2
  <1>4. \A i \in 1 .. n : t[i] = m + i
    <2> TAKE i \in 1 .. n
    <2>1. i - 1 \in 0 .. pos - 1
      BY <1>3
    <2>2. bytes[i - 1] = m + 1 + (i - 1)
      BY <1>3, <2>1
    <2>3. t[i] = bytes[i - 1]
      BY <1>2
    <2> QED
      BY <2>2, <2>3
  <1>5. t \in [1 .. n -> Int]
    BY <1>2, <1>4
  <1>6. Listed(g) /\ \A i \in 1 .. m : g[i] = i
    BY <1>1, FlowFacts
  <1>7. g \in [1 .. m -> Int]
    BY <1>1, <1>6 DEF Listed
  <1>8. g \in Seq(Int) /\ t \in Seq(Int) /\ Len(t) = n
    BY <1>5, <1>7
  <1>9. PICK r : r = g \o t
    OBVIOUS
  <1>10. r \in Seq(Int) /\ Len(r) = m + n
    <2>1. PICK x \in Seq(Int), z \in Seq(Int) : x = g /\ z = t
      BY <1>8
    <2>2. x \o z \in Seq(Int) /\ Len(x \o z) = Len(x) + Len(z)
      OBVIOUS
    <2> QED
      BY <1>1, <1>8, <1>9, <2>1, <2>2
  <1>11. \A i \in 1 .. m + n : r[i] = i
    <2> TAKE i \in 1 .. m + n
    <2>1. CASE i <= m
      BY <1>1, <1>6, <1>8, <1>9, <2>1
    <2>2. CASE i > m
      <3>1. i - m \in 1 .. n
        BY <2>2
      <3>2. r[i] = t[i - m]
        BY <1>1, <1>8, <1>9, <2>2
      <3> QED
        BY <1>4, <3>1, <3>2
    <2> QED
      BY <2>1, <2>2
  <1>12. Listed(r)
    BY <1>10 DEF Listed
  <1>13. /\ 0 \in Nat /\ (m + n) - n + pos + 0 = sent
         /\ pos + 0 <= BufSize /\ n <= pos /\ n <= m + n
         /\ pos + 0 - 1 = pos - 1
    BY <1>3
  <1>14. \A i \in 0 .. pos + 0 - 1 : bytes[i] = (m + n) - n + 1 + i
    BY <1>3
  <1>15. IsBuffer(bytes)
    BY FlowFacts
  <1>16. Flow(r, pos, sent, bytes, 0, n)
    BY <1>3, <1>10, <1>11, <1>12, <1>13, <1>14, <1>15, Zenon DEF Flow
  <1> QED
    BY <1>2, <1>9, <1>16

(* recv removes them from the front of the buffer.                         *)
LEMMA FlowRecvd ==
    ASSUME NEW g, NEW pos, NEW sent, NEW bytes, NEW n, Flow(g, pos, sent, bytes, 0, n)
    PROVE  Flow(g, pos - n, sent, memmove(bytes, n, pos - n), 0, 0)
  <1>1. PICK m \in Nat : m = Len(g)
    BY FlowFacts
  <1>2. /\ pos \in Nat /\ n \in Nat /\ BufSize \in Nat /\ n <= pos /\ n <= m
        /\ sent = m - n + pos /\ pos <= BufSize
        /\ \A i \in 0 .. pos - 1 : bytes[i] = m - n + 1 + i
    <2>1. /\ pos \in Nat /\ n \in Nat /\ BufSize \in Nat /\ n <= pos /\ n <= m
          /\ sent = m - n + pos + 0 /\ pos + 0 <= BufSize
      BY <1>1, FlowFacts
    <2>2. \A i \in 0 .. pos + 0 - 1 : bytes[i] = m - n + 1 + i
      BY <1>1, Zenon DEF Flow
    <2> QED
      BY <2>1, <2>2
  <1>3. pos - n \in Nat /\ n + (pos - n) <= BufSize
    BY <1>2
  <1>4. IsBuffer(bytes) /\ Listed(g) /\ \A i \in 1 .. m : g[i] = i
    BY <1>1, FlowFacts
  <1>5. PICK r : r = memmove(bytes, n, pos - n)
    OBVIOUS
  <1>6. IsBuffer(r) /\ \A i \in 0 .. (pos - n) - 1 : r[i] = bytes[i + n]
    <2>1. PICK k \in Nat : k = pos - n
      BY <1>3
    <2>2. Moved(memmove(bytes, n, k), bytes, n, k)
      BY <1>2, <1>3, <1>4, <2>1, MemmoveMoves
    <2> QED
      BY <1>5, <2>1, <2>2 DEF Moved
  <1>7. \A i \in 0 .. (pos - n) + 0 - 1 : r[i] = m - 0 + 1 + i
    <2> TAKE i \in 0 .. (pos - n) + 0 - 1
    <2>1. i + n \in 0 .. pos - 1 /\ i \in 0 .. (pos - n) - 1
      BY <1>2
    <2>2. r[i] = m - n + 1 + (i + n)
      BY <1>2, <1>6, <2>1
    <2> QED
      BY <1>2, <2>2
  <1>8. /\ 0 \in Nat /\ m - 0 + (pos - n) + 0 = sent
        /\ (pos - n) + 0 <= BufSize /\ 0 <= pos - n /\ 0 <= m
    BY <1>2
  <1>9. Flow(g, pos - n, sent, r, 0, 0)
    BY <1>1, <1>3, <1>4, <1>6, <1>7, <1>8, Zenon DEF Flow
  <1> QED
    BY <1>5, <1>9

(* Received and buffered bytes are the sent ones.                          *)
InOrder(g, pos, sent, bytes) ==
    g \o [i \in 1 .. pos |-> bytes[i - 1]] = [i \in 1 .. sent |-> i]

(* So it is between the calls.                                             *)
LEMMA FlowShown ==
    ASSUME NEW g, NEW pos, NEW sent, NEW bytes, Flow(g, pos, sent, bytes, 0, 0)
    PROVE  InOrder(g, pos, sent, bytes)
  <1>1. pos \in Nat /\ pos <= pos
    BY DEF Flow
  <1>2. PICK r : r = g \o [i \in 1 .. pos |-> bytes[i - 1]]
    OBVIOUS
  <1>3. Flow(r, pos, sent, bytes, 0, pos)
    BY <1>1, <1>2, FlowRecv
  <1>4. /\ Listed(r) /\ Len(r) = sent /\ \A i \in 1 .. Len(r) : r[i] = i
    <2>1. /\ Listed(r) /\ Len(r) \in Nat /\ \A i \in 1 .. Len(r) : r[i] = i
          /\ sent = Len(r) - pos + pos + 0
      BY <1>3, FlowFacts
    <2> QED
      BY <1>1, <2>1
  <1> QED
    BY <1>2, <1>4 DEF Listed, InOrder

-----------------------------------------------------------------------------
(* Steps that leave the buffers alone                                      *)

BuffersSame ==
    /\ Len(pair') = Len(pair) /\ got' = got /\ raced' = raced
    /\ \A p \in Pairs :
          /\ {"bytes", "pos", "sent"} \subseteq DOMAIN pair'[p]
          /\ pair'[p].bytes = pair[p].bytes /\ pair'[p].pos = pair[p].pos
          /\ pair'[p].sent = pair[p].sent
          /\ pair[p].connected => pair'[p].connected

CallsSame ==
    \A c \in CPU :
        /\ {"e", "n"} \subseteq DOMAIN loc'[c]
        /\ pc'[c] \in {"sent", "copied"} \/ pc[c] \in {"sent", "copied"} =>
              pc'[c] = pc[c] /\ loc'[c] = loc[c]

(* Such a step keeps the streams.                                          *)
LEMMA StreamsQuiet ==
    ASSUME Streaming, BuffersSame, CallsSame
    PROVE  StreamFields' /\ Unused' /\ Streams'
  <1> USE DEF BuffersSame
  <1>1. Pairs' = Pairs
    BY DEF Pairs
  <1>2. StreamFields'
    BY <1>1 DEF Streaming, StreamFields, Listed, CallsSame
  <1>3. Unused'
    <2>1. \A p \in Pairs' : ~pair'[p].connected => \A e \in Ends :
              /\ pair'[p].pos[e] = 0 /\ pair'[p].sent[e] = 0 /\ got'[p][e] = <<>>
      BY <1>1 DEF Streaming, Unused
    <2>2. ASSUME NEW c \in CPU, pc'[c] \in {"sent", "copied"}
          PROVE  /\ loc'[c].p \in Pairs' /\ pair'[loc'[c].p].connected /\ loc'[c].e \in Ends
                 /\ loc'[c].n \in Int
      <3>1. pc'[c] = pc[c] /\ loc'[c] = loc[c]
        BY <2>2 DEF CallsSame
      <3> QED
        BY <1>1, <2>2, <3>1 DEF Streaming, Unused
    <2> QED
      BY <2>1, <2>2 DEF Unused
  <1>4. ASSUME NEW p \in Pairs, NEW e \in Ends, Stream(p, e) PROVE Stream(p, e)'
    <2>1. \A a, b : Content(p, e, a, b)' <=> Content(p, e, a, b)
      BY DEF Content, Flow, Listed, IsBuffer
    <2>2. \A c \in CPU : InCall(c, p, e)' <=> InCall(c, p, e)
      BY DEF InCall, CallsSame
    <2>3. \A c \in CPU : InCall(c, p, e) => pc'[c] = pc[c] /\ loc'[c] = loc[c]
      BY DEF InCall, CallsSame
    <2>4. /\ \A c, d \in CPU : InCall(c, p, e)' /\ InCall(d, p, e)' => c = d
          /\ (\A c \in CPU : ~InCall(c, p, e)') => Content(p, e, 0, 0)'
      BY <1>4, <2>1, <2>2 DEF Stream
    <2>5. ASSUME NEW c \in CPU, InCall(c, p, e)'
          PROVE  IF pc'[c] = "sent" THEN Content(p, e, loc[c].n, 0)' ELSE Content(p, e, 0, loc[c].n)'
      <3>1. InCall(c, p, e) /\ pc'[c] = pc[c] /\ loc'[c] = loc[c]
        BY <2>2, <2>3, <2>5
      <3>2. IF pc[c] = "sent" THEN Content(p, e, loc[c].n, 0) ELSE Content(p, e, 0, loc[c].n)
        BY <1>4, <3>1, Zenon DEF Stream
      <3>3. PICK n : n = loc[c].n /\ n = loc'[c].n
        BY <3>1
      <3>4. IF pc'[c] = "sent" THEN Content(p, e, n, 0)' ELSE Content(p, e, 0, n)'
        BY <2>1, <3>1, <3>2, <3>3
      <3> QED
        BY <3>3, <3>4 DEF Content
    <2> QED
      BY <2>4, <2>5 DEF Stream
  <1>5. Streams'
    BY <1>1, <1>4 DEF Streaming, Streams
  <1> QED
    BY <1>2, <1>3, <1>5

-----------------------------------------------------------------------------
(* Steps that leave the way of the pairs to accept alone                   *)

FlagsSame == Len(pair') = Len(pair) /\ \A p \in Pairs : pair'[p].connected = pair[p].connected

(* What is in a backlog was in one.                                        *)
EntriesKept ==
    \A s \in Socks' : \A i \in Live(s)' : sock'[s].backlog[i] \in Pairs =>
        \E t \in Socks : \E j \in Live(t) : sock[t].backlog[j] = sock'[s].backlog[i]

WaysKept ==
    \A c \in CPU :
        /\ (Bringing(c) \/ pc[c] = "buffers")' =>
              (Bringing(c) \/ pc[c] = "buffers") /\ loc'[c].p = loc[c].p
        /\ pc[c] = "shift" => pc'[c] = "shift" /\ loc'[c].p = loc[c].p

(* A step after which the same pairs are on their way, and as before.      *)
LEMMA UnacceptedKept ==
    ASSUME Good, Streaming, FlagsSame, EntriesKept, WaysKept
    PROVE  Unaccepted'
  <1>1. Pairs' = Pairs
    BY DEF Pairs, FlagsSame
  <1>2. ASSUME NEW c \in CPU, (Bringing(c) \/ pc[c] = "buffers")'
        PROVE  ~pair'[loc'[c].p].connected
    <2>1. (Bringing(c) \/ pc[c] = "buffers") /\ loc'[c].p = loc[c].p
      BY <1>2 DEF WaysKept
    <2>2. loc[c].p \in Pairs /\ ~pair[loc[c].p].connected
      BY <2>1 DEF Streaming, Unaccepted, Good, NewPairs, TakenPairs
    <2> QED
      BY <2>1, <2>2 DEF FlagsSame
  <1>3. ASSUME NEW s \in Socks', NEW i \in Live(s)',
               sock'[s].backlog[i] \in Pairs', pair'[sock'[s].backlog[i]].connected
        PROVE  \E c \in CPU : pc'[c] = "shift" /\ loc'[c].p = sock'[s].backlog[i]
    <2>1. PICK t \in Socks : \E j \in Live(t) : sock[t].backlog[j] = sock'[s].backlog[i]
      BY <1>1, <1>3 DEF EntriesKept
    <2>2. PICK j \in Live(t) : sock[t].backlog[j] = sock'[s].backlog[i]
      BY <2>1
    <2>3. sock[t].backlog[j] \in Pairs /\ pair[sock[t].backlog[j]].connected
      BY <1>1, <1>3, <2>2 DEF FlagsSame
    <2>4. PICK c \in CPU : pc[c] = "shift" /\ loc[c].p = sock[t].backlog[j]
      BY <2>3 DEF Streaming, Unaccepted
    <2> QED
      BY <2>2, <2>4 DEF WaysKept
  <1> QED
    BY <1>2, <1>3 DEF Unaccepted

(* The pairs stay.                                                         *)
LEMMA PairsSame ==
    ASSUME Streaming, pair' = pair, got' = got, raced' = raced
    PROVE  BuffersSame /\ FlagsSame
  BY DEF Streaming, StreamFields, BuffersSame, FlagsSame

(* The backlogs stay.                                                      *)
LEMMA EntriesSame ==
    ASSUME SameSockets
    PROVE  EntriesKept
  BY DEF SameSockets, EntriesKept, Socks, Live

(* CPU c moves.                                                            *)
LEMMA CallsElsewhere ==
    ASSUME Good, Streaming, NEW c \in CPU, NEW place, NEW l, {"e", "n"} \subseteq DOMAIN l,
           Go(c, place), loc' = [loc EXCEPT ![c] = l],
           {pc[c], place} \cap {"sent", "copied"} = {}
    PROVE  CallsSame
  <1>1. /\ pc' = [d \in CPU |-> IF d = c THEN place ELSE pc[d]]
        /\ loc' = [d \in CPU |-> IF d = c THEN l ELSE loc[d]]
    BY DEF Good, Shapes, Go
  <1> QED
    BY <1>1 DEF CallsSame, Streaming, StreamFields

(* CPU c moves, and brings no pair that it did not bring before.           *)
LEMMA WaysElsewhere ==
    ASSUME Good, NEW c \in CPU, NEW place, NEW l, Go(c, place), loc' = [loc EXCEPT ![c] = l],
           pc[c] # "shift",
           place \in {"curr", "store", "buffers"} =>
              pc[c] \in {"curr", "store", "buffers"} /\ l.p = loc[c].p
    PROVE  WaysKept
  <1>1. /\ pc' = [d \in CPU |-> IF d = c THEN place ELSE pc[d]]
        /\ loc' = [d \in CPU |-> IF d = c THEN l ELSE loc[d]]
    BY DEF Good, Shapes, Go
  <1> QED
    BY <1>1 DEF WaysKept

(* The locals of a call.                                                   *)
LEMMA CallBytes ==
    ASSUME Streaming, NEW c \in CPU, NEW x, NEW y
    PROVE  /\ {"e", "n"} \subseteq DOMAIN NoCall /\ {"e", "n"} \subseteq DOMAIN loc[c]
           /\ {"e", "n"} \subseteq DOMAIN [loc[c] EXCEPT !.s = x]
           /\ {"e", "n"} \subseteq DOMAIN [loc[c] EXCEPT !.d = x]
           /\ {"e", "n"} \subseteq DOMAIN [loc[c] EXCEPT !.s = x, !.d = y]
           /\ {"e", "n"} \subseteq DOMAIN [loc[c] EXCEPT !.p = x, !.i = y]
           /\ {"e", "n"} \subseteq DOMAIN [loc[c] EXCEPT !.s = x, !.p = y]
  BY DEF Streaming, StreamFields, NoCall

(* Steps of which the streams do not hear.                                 *)
LEMMA StreamsUnheard ==
    ASSUME Good, Streaming, NEW c \in CPU, NEW place, NEW l, {"e", "n"} \subseteq DOMAIN l,
           Go(c, place), loc' = [loc EXCEPT ![c] = l],
           {pc[c], place} \cap {"sent", "copied"} = {}, pc[c] # "shift",
           place \in {"curr", "store", "buffers"} =>
              pc[c] \in {"curr", "store", "buffers"} /\ l.p = loc[c].p,
           EntriesKept, pair' = pair, got' = got, raced' = raced
    PROVE  Streaming'
  <1>1. CallsSame
    BY CallsElsewhere
  <1>2. WaysKept
    BY WaysElsewhere
  <1> QED
    BY <1>1, <1>2, PairsSame, StreamsQuiet, UnacceptedKept DEF Streaming

-----------------------------------------------------------------------------
(* k_driver_cskt: the new socket has no backlog.                           *)
LEMMA StreamNewSocket ==
    ASSUME Good, Streaming, NEW c \in CPU, k_driver_cskt(c)
    PROVE  Streaming'
  <1>1. PICK next : sock' = Append(sock, Fresh(next))
    BY DEF k_driver_cskt
  <1>2. PICK l : l = [loc[c] EXCEPT !.s = Len(sock) + 1]
    OBVIOUS
  <1>3. /\ pc[c] = "user" /\ Go(c, "append") /\ loc' = [loc EXCEPT ![c] = l]
        /\ pair' = pair /\ got' = got /\ raced' = raced
    BY <1>2 DEF k_driver_cskt, At
  <1>4. {"e", "n"} \subseteq DOMAIN l
    BY <1>2, CallBytes
  <1>5. PICK f : f = Fresh(next)
    OBVIOUS
  <1>6. \A i \in 0 .. MaxConn - 1 : f.backlog[i] = Stray
    BY <1>5, FreshSocket
  <1>7. PICK n \in Nat : n = Len(sock)
    BY DEF Good, Shapes, Listed
  <1>8. Len(sock') = n + 1 /\ sock'[n + 1] = f /\ \A s \in 1 .. n : sock'[s] = sock[s]
    BY <1>1, <1>5, <1>7, AppendListed DEF Good, Shapes
  <1>9. EntriesKept
    <2> SUFFICES ASSUME NEW s \in Socks', NEW i \in Live(s)', sock'[s].backlog[i] \in Pairs
                 PROVE  \E t \in Socks : \E j \in Live(t) : sock[t].backlog[j] = sock'[s].backlog[i]
      BY DEF EntriesKept
    <2>1. s \in 1 .. n \/ s = n + 1
      BY <1>7, <1>8 DEF Socks
    <2>2. i \in 0 .. MaxConn - 1
      BY DEF Live
    <2>3. s # n + 1
      BY <1>6, <1>8, <2>2 DEF Pairs, Stray
    <2>4. s \in Socks /\ i \in Live(s) /\ sock'[s] = sock[s]
      BY <1>7, <1>8, <2>1, <2>3 DEF Socks, Live
    <2> QED
      BY <2>4
  <1> QED
    BY <1>3, <1>4, <1>9, StreamsUnheard

(* k_driver_cskt walks the list.                                           *)
LEMMA StreamFindTail ==
    ASSUME Good, Streaming, NEW c \in CPU, FindTail(c), ~wild'
    PROVE  Streaming'
  <1>1. PICK tail : /\ At(c, "append") /\ Go(c, "link")
                    /\ loc' = [loc EXCEPT ![c].d = tail]
                    /\ UNCHANGED <<sock, pair, fds, wild, crossed, raced, got>>
    BY Zenon DEF FindTail, GoWild
  <1>2. PICK l : l = [loc[c] EXCEPT !.d = tail]
    OBVIOUS
  <1>3. {"e", "n"} \subseteq DOMAIN l
    BY <1>2, CallBytes
  <1>4. /\ pc[c] = "append" /\ loc' = [loc EXCEPT ![c] = l] /\ sock' = sock
        /\ pair' = pair /\ got' = got /\ raced' = raced
    BY <1>1, <1>2 DEF At
  <1>5. EntriesKept
    BY <1>4, SocketsStay, EntriesSame
  <1> QED
    BY <1>1, <1>3, <1>4, <1>5, StreamsUnheard

(* k_driver_cskt appends its socket.                                       *)
LEMMA StreamLink ==
    ASSUME Good, Streaming, NEW c \in CPU, Link(c)
    PROVE  Streaming'
  <1> DEFINE k == loc[c].d
             y == [sock[k] EXCEPT !.next = loc[c].s]
  <1>1. /\ pc[c] = "link" /\ Go(c, "user") /\ loc' = [loc EXCEPT ![c] = NoCall]
        /\ sock' = [sock EXCEPT ![k] = y] /\ pair' = pair /\ got' = got /\ raced' = raced
    BY DEF Link, At
  <1>2. k \in Socks => /\ IsSocket(y) /\ y.pair = sock[k].pair
                       /\ y.max = sock[k].max /\ y.backlog = sock[k].backlog
    BY DEF Good, Shapes, IsSocket, Socks
  <1> HIDE DEF y
  <1>3. EntriesKept
    BY <1>1, <1>2, OneSocket, EntriesSame
  <1> QED
    BY <1>1, <1>3, CallBytes, StreamsUnheard

(* listen starts on the socket.                                            *)
LEMMA StreamListen ==
    ASSUME Good, Streaming, NEW c \in CPU, k_driver_listen(c)
    PROVE  Streaming'
  <1>1. PICK k, l : /\ sock' = [sock EXCEPT ![k] = [sock[k] EXCEPT !.state = "listening"]]
                    /\ loc' = [loc EXCEPT ![c] = l] /\ l = [loc[c] EXCEPT !.s = k]
                    /\ pc[c] = "user" /\ Go(c, "reset")
                    /\ pair' = pair /\ got' = got /\ raced' = raced
    BY DEF k_driver_listen, At
  <1> DEFINE y == [sock[k] EXCEPT !.state = "listening"]
  <1>2. k \in Socks => /\ IsSocket(y) /\ y.pair = sock[k].pair
                       /\ y.max = sock[k].max /\ y.backlog = sock[k].backlog
    BY DEF Good, Shapes, IsSocket, Socks
  <1> HIDE DEF y
  <1>3. EntriesKept
    BY <1>1, <1>2, OneSocket, EntriesSame DEF y
  <1>4. {"e", "n"} \subseteq DOMAIN l
    BY <1>1, CallBytes
  <1> QED
    BY <1>1, <1>3, <1>4, StreamsUnheard

(* listen resets the count.                                                *)
LEMMA StreamResetCurr ==
    ASSUME Good, Streaming, NEW c \in CPU, ResetCurr(c)
    PROVE  Streaming'
  <1> DEFINE k == loc[c].s
             y == [sock[k] EXCEPT !.curr = 0]
  <1>1. /\ pc[c] = "reset" /\ Go(c, "backlog") /\ loc' = loc
        /\ sock' = [sock EXCEPT ![k] = y] /\ pair' = pair /\ got' = got /\ raced' = raced
    BY DEF ResetCurr, At
  <1>2. k \in Socks => /\ IsSocket(y) /\ y.pair = sock[k].pair
                       /\ y.max = sock[k].max /\ y.backlog = sock[k].backlog
    BY DEF Good, Shapes, IsSocket, Socks
  <1> HIDE DEF y
  <1>3. EntriesKept
    BY <1>1, <1>2, OneSocket, EntriesSame
  <1>4. loc' = [loc EXCEPT ![c] = loc[c]]
    BY <1>1 DEF Good, Shapes
  <1> QED
    BY <1>1, <1>3, <1>4, CallBytes, StreamsUnheard

(* listen makes a backlog without a pair.                                  *)
LEMMA StreamNewBacklog ==
    ASSUME Good, Streaming, NEW c \in CPU, NewBacklog(c)
    PROVE  Streaming'
  <1> DEFINE k == loc[c].s
             y == [sock[k] EXCEPT !.max = MaxConn,
                                  !.backlog = [i \in 0 .. MaxConn - 1 |-> Stray]]
  <1>1. /\ pc[c] = "backlog" /\ Go(c, "user") /\ loc' = [loc EXCEPT ![c] = NoCall]
        /\ sock' = [sock EXCEPT ![k] = y] /\ pair' = pair /\ got' = got /\ raced' = raced
    BY DEF NewBacklog, At
  <1>2. k \in Socks => \A i \in 0 .. MaxConn - 1 : y.backlog[i] = Stray
    BY DEF Good, Shapes, IsSocket, Socks
  <1> HIDE DEF y
  <1>3. Len(sock) \in Nat /\ sock = [i \in 1 .. Len(sock) |-> sock[i]]
    BY DEF Good, Shapes, Listed
  <1>4. sock' = [i \in 1 .. Len(sock) |-> sock'[i]]
        /\ \A s \in 1 .. Len(sock) : sock'[s] = IF s = k THEN y ELSE sock[s]
    BY <1>1, <1>3
  <1>5. Len(sock') = Len(sock)
    BY <1>3, <1>4, FunctionListed
  <1>6. EntriesKept
    <2> SUFFICES ASSUME NEW s \in Socks', NEW i \in Live(s)', sock'[s].backlog[i] \in Pairs
                 PROVE  \E t \in Socks : \E j \in Live(t) : sock[t].backlog[j] = sock'[s].backlog[i]
      BY DEF EntriesKept
    <2>1. s \in Socks /\ i \in 0 .. MaxConn - 1
      BY <1>5 DEF Socks, Live
    <2>2. s # k
      BY <1>2, <1>4, <2>1 DEF Pairs, Stray, Socks
    <2>3. sock'[s] = sock[s] /\ i \in Live(s)
      BY <1>4, <2>1, <2>2 DEF Socks, Live
    <2> QED
      BY <2>1, <2>3
  <1> QED
    BY <1>1, <1>6, CallBytes, StreamsUnheard

(* connect looks for the listening socket.                                 *)
LEMMA StreamConnect ==
    ASSUME Good, Streaming, NEW c \in CPU, k_driver_connect(c), ~wild'
    PROVE  Streaming'
  <1>1. PICK h \in ToSet(fds[c]) :
            /\ At(c, "user")
            /\ \/ Go(c, "halted") /\ UNCHANGED <<sock, pair, fds, loc, wild, crossed, raced, got>>
               \/ \E d : /\ loc' = [loc EXCEPT ![c].s = h.s, ![c].d = d] /\ Go(c, "push")
                         /\ UNCHANGED <<sock, pair, fds, wild, crossed, raced, got>>
    BY Zenon DEF k_driver_connect, GoWild
  <1>2. /\ pc[c] = "user" /\ sock' = sock /\ pair' = pair /\ got' = got /\ raced' = raced
    BY <1>1 DEF At
  <1>3. EntriesKept
    BY <1>2, SocketsStay, EntriesSame
  <1>4. CASE Go(c, "halted") /\ loc' = loc
    <2>1. loc' = [loc EXCEPT ![c] = loc[c]]
      BY <1>4 DEF Good, Shapes
    <2> QED
      BY <1>2, <1>3, <1>4, <2>1, CallBytes, StreamsUnheard
  <1>5. ASSUME NEW d, loc' = [loc EXCEPT ![c].s = h.s, ![c].d = d], Go(c, "push")
        PROVE  Streaming'
    <2>1. PICK l : l = [loc[c] EXCEPT !.s = h.s, !.d = d]
      OBVIOUS
    <2>2. loc' = [loc EXCEPT ![c] = l]
      BY <1>5, <2>1
    <2>3. {"e", "n"} \subseteq DOMAIN l
      BY <2>1, CallBytes
    <2> QED
      BY <1>2, <1>3, <1>5, <2>2, <2>3, StreamsUnheard
  <1> QED
    BY <1>1, <1>4, <1>5

(* connect counts the pair.                                                *)
LEMMA StreamWriteCurr ==
    ASSUME Good, Streaming, NEW c \in CPU, WriteCurr(c)
    PROVE  Streaming'
  <1> DEFINE k == loc[c].d
             y == [sock[k] EXCEPT !.curr = loc[c].i + 1]
  <1>1. /\ pc[c] = "curr" /\ Go(c, "store") /\ loc' = loc
        /\ sock' = [sock EXCEPT ![k] = y] /\ pair' = pair /\ got' = got /\ raced' = raced
    BY DEF WriteCurr, At
  <1>2. k \in Socks => /\ IsSocket(y) /\ y.pair = sock[k].pair
                       /\ y.max = sock[k].max /\ y.backlog = sock[k].backlog
    BY DEF Good, Shapes, IsSocket, Socks
  <1> HIDE DEF y
  <1>3. EntriesKept
    BY <1>1, <1>2, OneSocket, EntriesSame
  <1>4. loc' = [loc EXCEPT ![c] = loc[c]]
    BY <1>1 DEF Good, Shapes
  <1> QED
    BY <1>1, <1>3, <1>4, CallBytes, StreamsUnheard

(* connect has seen that the pair was accepted.                            *)
LEMMA StreamConnected ==
    ASSUME Good, Streaming, NEW c \in CPU, Connected(c)
    PROVE  Streaming'
  <1> DEFINE k == loc[c].s
             y == [sock[k] EXCEPT !.state = "connected"]
  <1>1. /\ pc[c] = "wait" /\ Go(c, "user") /\ loc' = [loc EXCEPT ![c] = NoCall]
        /\ sock' = [sock EXCEPT ![k] = y] /\ pair' = pair /\ got' = got /\ raced' = raced
    BY DEF Connected, At
  <1>2. k \in Socks => /\ IsSocket(y) /\ y.pair = sock[k].pair
                       /\ y.max = sock[k].max /\ y.backlog = sock[k].backlog
    BY DEF Good, Shapes, IsSocket, Socks
  <1> HIDE DEF y
  <1>3. EntriesKept
    BY <1>1, <1>2, OneSocket, EntriesSame
  <1> QED
    BY <1>1, <1>3, CallBytes, StreamsUnheard

-----------------------------------------------------------------------------
(* The pair in front of a backlog was not accepted before: the CPU that    *)
(* accepts it is the one that owns the listening socket.                   *)
LEMMA StreamAccept ==
    ASSUME Good, Streaming, NEW c \in CPU, k_driver_accept(c), ~wild'
    PROVE  Streaming'
  <1>1. PICK h \in ToSet(fds[c]) :
            /\ At(c, "user") /\ sock[h.s].backlog[0] \notin {NULL, Stray}
            /\ loc' = [loc EXCEPT ![c].s = h.s, ![c].p = sock[h.s].backlog[0]] /\ Go(c, "buffers")
            /\ UNCHANGED <<sock, pair, fds, wild, crossed, raced, got>>
    BY Zenon DEF k_driver_accept, GoWild
  <1>2. PICK s, p : s = h.s /\ p = sock[s].backlog[0]
    OBVIOUS
  <1>3. PICK k \in DOMAIN fds[c] : fds[c][k].s = s
    BY <1>2 DEF ToSet
  <1>4. 0 \in 0 .. MaxConn - 1
    BY BoundsAssumption
  <1>5. s \in Socks /\ p \in Pairs /\ 0 \in Live(s)
    BY <1>1, <1>2, <1>3, <1>4 DEF Good, Owned, Known, Live
  <1>6. PICK l : l = [loc[c] EXCEPT !.s = s, !.p = p]
    OBVIOUS
  <1>7. {"e", "n"} \subseteq DOMAIN l /\ l.p = p
    BY <1>6, CallBytes DEF Good, Shapes, IsCall
  <1>8. /\ pc[c] = "user" /\ loc' = [loc EXCEPT ![c] = l] /\ sock' = sock
        /\ pair' = pair /\ got' = got /\ raced' = raced
    BY <1>1, <1>2, <1>6 DEF At
  <1>9. ~pair[p].connected
    <2> SUFFICES ASSUME pair[p].connected PROVE FALSE
      OBVIOUS
    <2>1. PICK x \in CPU : pc[x] = "shift" /\ loc[x].p = p
      BY <1>2, <1>5 DEF Streaming, Unaccepted
    <2>2. loc[x].s = s
      BY <1>2, <1>5, <2>1 DEF Good, AcceptedOnce
    <2>3. PICK j \in DOMAIN fds[x] : fds[x][j].s = s
      BY <2>1, <2>2 DEF Good, Owned
    <2>4. x = c
      BY <1>3, <2>3 DEF Good, Owned
    <2> QED
      BY <1>8, <2>1, <2>4
  <1>10. /\ pc' = [d \in CPU |-> IF d = c THEN "buffers" ELSE pc[d]]
         /\ loc' = [d \in CPU |-> IF d = c THEN l ELSE loc[d]]
    BY <1>1, <1>8 DEF Good, Shapes, Go
  <1>11. Unaccepted'
    <2>1. \A d \in CPU : (Bringing(d) \/ pc[d] = "buffers")' => ~pair'[loc'[d].p].connected
      BY <1>7, <1>8, <1>9, <1>10 DEF Streaming, Unaccepted
    <2>2. ASSUME NEW t \in Socks, NEW i \in Live(t), sock[t].backlog[i] \in Pairs,
                 pair[sock[t].backlog[i]].connected
          PROVE  \E d \in CPU : pc'[d] = "shift" /\ loc'[d].p = sock[t].backlog[i]
      <3>1. PICK d \in CPU : pc[d] = "shift" /\ loc[d].p = sock[t].backlog[i]
        BY <2>2 DEF Streaming, Unaccepted
      <3> QED
        BY <1>8, <1>10, <3>1
    <2> QED
      BY <1>8, <2>1, <2>2 DEF Unaccepted, Socks, Live, Pairs
  <1>12. CallsSame
    BY <1>1, <1>7, <1>8, CallsElsewhere
  <1> QED
    BY <1>8, <1>11, <1>12, PairsSame, StreamsQuiet DEF Streaming

(* accept sets the positions of buffers that nobody has used.              *)
LEMMA StreamNewBuffers ==
    ASSUME Good, Streaming, NEW c \in CPU, NewBuffers(c)
    PROVE  Streaming'
  <1> DEFINE p == loc[c].p
             y == [pair[p] EXCEPT !.ready = TRUE, !.pos = [e \in Ends |-> 0]]
  <1>1. /\ pc[c] = "buffers" /\ Go(c, "mark") /\ loc' = loc /\ sock' = sock /\ fds' = fds
        /\ pair' = [pair EXCEPT ![p] = y] /\ got' = got /\ raced' = raced
    BY DEF NewBuffers, At
  <1>2. p \in Pairs /\ ~pair[p].connected
    BY <1>1 DEF Good, TakenPairs, Streaming, Unaccepted
  <1>3. pair[p].pos = [e \in Ends |-> 0]
    BY <1>2 DEF Streaming, Unused, StreamFields
  <1>4. /\ {"bytes", "pos", "sent"} \subseteq DOMAIN y
        /\ y.bytes = pair[p].bytes /\ y.pos = pair[p].pos /\ y.sent = pair[p].sent
        /\ y.connected = pair[p].connected
    BY <1>2, <1>3 DEF Streaming, StreamFields, Good, Shapes, IsPair, Pairs
  <1> HIDE DEF y
  <1>5. Len(pair) \in Nat /\ pair = [i \in 1 .. Len(pair) |-> pair[i]]
    BY DEF Good, Shapes, Listed
  <1>6. pair' = [i \in 1 .. Len(pair) |-> pair'[i]]
        /\ \A q \in 1 .. Len(pair) : pair'[q] = IF q = p THEN y ELSE pair[q]
    BY <1>1, <1>5
  <1>7. Len(pair') = Len(pair)
    BY <1>5, <1>6, FunctionListed
  <1>8. BuffersSame /\ FlagsSame
    BY <1>1, <1>4, <1>6, <1>7 DEF BuffersSame, FlagsSame, Pairs, Streaming, StreamFields
  <1>9. loc' = [loc EXCEPT ![c] = loc[c]]
    BY <1>1 DEF Good, Shapes
  <1>10. CallsSame
    BY <1>1, <1>9, CallBytes, CallsElsewhere
  <1>11. WaysKept
    BY <1>1, <1>9, WaysElsewhere
  <1>12. EntriesKept
    BY <1>1, SocketsStay, EntriesSame
  <1> QED
    BY <1>8, <1>10, <1>11, <1>12, StreamsQuiet, UnacceptedKept DEF Streaming

(* accept marks the pair, which is empty until its first send.             *)
LEMMA StreamMarkConnected ==
    ASSUME Good, Streaming, NEW c \in CPU, MarkConnected(c)
    PROVE  Streaming'
  <1> DEFINE p == loc[c].p
             y == [pair[p] EXCEPT !.connected = TRUE]
  <1>1. /\ pc[c] = "mark" /\ Go(c, "shift") /\ loc' = loc /\ sock' = sock /\ fds' = fds
        /\ pair' = [pair EXCEPT ![p] = y] /\ got' = got /\ raced' = raced
    BY DEF MarkConnected, At
  <1>2. p \in Pairs
    BY <1>1 DEF Good, TakenPairs
  <1>3. /\ {"bytes", "pos", "sent"} \subseteq DOMAIN y
        /\ y.bytes = pair[p].bytes /\ y.pos = pair[p].pos /\ y.sent = pair[p].sent
        /\ y.connected
    BY <1>2 DEF Streaming, StreamFields, Good, Shapes, IsPair, Pairs
  <1> HIDE DEF y
  <1>4. Len(pair) \in Nat /\ pair = [i \in 1 .. Len(pair) |-> pair[i]]
    BY DEF Good, Shapes, Listed
  <1>5. pair' = [i \in 1 .. Len(pair) |-> pair'[i]]
        /\ \A q \in 1 .. Len(pair) : pair'[q] = IF q = p THEN y ELSE pair[q]
    BY <1>1, <1>4
  <1>6. Len(pair') = Len(pair)
    BY <1>4, <1>5, FunctionListed
  <1>7. BuffersSame
    BY <1>1, <1>3, <1>5, <1>6 DEF BuffersSame, Pairs, Streaming, StreamFields
  <1>8. loc' = [loc EXCEPT ![c] = loc[c]]
    BY <1>1 DEF Good, Shapes
  <1>9. CallsSame
    BY <1>1, <1>8, CallBytes, CallsElsewhere
  <1>10. pc' = [d \in CPU |-> IF d = c THEN "shift" ELSE pc[d]]
    BY <1>1 DEF Good, Shapes, Go
  <1>11. Unaccepted'
    <2>1. ASSUME NEW d \in CPU, (Bringing(d) \/ pc[d] = "buffers")'
          PROVE  ~pair'[loc'[d].p].connected
      <3>1. d # c /\ (Bringing(d) \/ pc[d] = "buffers") /\ loc'[d] = loc[d]
        BY <1>1, <1>10, <2>1
      <3>2. loc[d].p \in Pairs /\ ~pair[loc[d].p].connected
        BY <3>1 DEF Good, NewPairs, TakenPairs, Streaming, Unaccepted
      <3>3. loc[d].p # p
        BY <1>1, <3>1 DEF Good, NewPairs, AcceptedOnce
      <3> QED
        BY <1>5, <3>1, <3>2, <3>3 DEF Pairs
    <2>2. ASSUME NEW t \in Socks, NEW i \in Live(t), sock[t].backlog[i] \in Pairs,
                 pair'[sock[t].backlog[i]].connected
          PROVE  \E d \in CPU : pc'[d] = "shift" /\ loc'[d].p = sock[t].backlog[i]
      <3>1. CASE sock[t].backlog[i] = p
        BY <1>1, <1>10, <3>1
      <3>2. CASE sock[t].backlog[i] # p
        <4>1. pair[sock[t].backlog[i]].connected
          BY <1>5, <2>2, <3>2 DEF Pairs
        <4>2. PICK d \in CPU : pc[d] = "shift" /\ loc[d].p = sock[t].backlog[i]
          BY <2>2, <4>1 DEF Streaming, Unaccepted
        <4> QED
          BY <1>1, <1>10, <4>2
      <3> QED
        BY <3>1, <3>2
    <2> QED
      BY <1>1, <1>6, <2>1, <2>2 DEF Unaccepted, Socks, Live, Pairs
  <1> QED
    BY <1>7, <1>9, <1>11, StreamsQuiet DEF Streaming

-----------------------------------------------------------------------------
(* connect queues a pair that nobody has accepted.                         *)
LEMMA StreamStorePair ==
    ASSUME Good, Streaming, NEW c \in CPU, StorePair(c), ~wild'
    PROVE  Streaming'
  <1>0. PICK s, d, i, p : s = loc[c].s /\ d = loc[c].d /\ i = loc[c].i /\ p = loc[c].p
    OBVIOUS
  <1>1. /\ pc[c] = "store" /\ Go(c, "wait") /\ loc' = loc /\ fds' = fds
        /\ pair' = pair /\ got' = got /\ raced' = raced
        /\ sock' = [sock EXCEPT ![d].backlog[i] = p, ![s].pair = p]
    BY <1>0 DEF StorePair, GoWild, At
  <1>2. ~pair[p].connected
    BY <1>0, <1>1 DEF Streaming, Unaccepted
  <1>3. Len(sock) \in Nat /\ sock = [t \in 1 .. Len(sock) |-> sock[t]]
    BY DEF Good, Shapes, Listed
  <1>4. PICK x : x = [sock EXCEPT ![d].backlog[i] = p]
    OBVIOUS
  <1>5. x = [t \in 1 .. Len(sock) |-> IF t = d THEN [sock[t] EXCEPT !.backlog[i] = p] ELSE sock[t]]
    BY <1>3, <1>4
  <1>6. \A t \in 1 .. Len(sock) :
            /\ {"max", "backlog"} \subseteq DOMAIN x[t] /\ x[t].max = sock[t].max
            /\ \A j \in 0 .. MaxConn - 1 : x[t].backlog[j] \in {p, sock[t].backlog[j]}
    <2> TAKE t \in 1 .. Len(sock)
    <2>1. /\ {"max", "backlog"} \subseteq DOMAIN sock[t]
          /\ DOMAIN sock[t].backlog = 0 .. MaxConn - 1
      BY DEF Good, Shapes, IsSocket
    <2>2. CASE t # d
      BY <1>5, <2>1, <2>2
    <2>3. CASE t = d
      <3>1. x[t] = [sock[t] EXCEPT !.backlog[i] = p]
        BY <1>5, <2>3
      <3>2. /\ {"max", "backlog"} \subseteq DOMAIN x[t] /\ x[t].max = sock[t].max
            /\ x[t].backlog = [sock[t].backlog EXCEPT ![i] = p]
        BY <2>1, <3>1
      <3> QED
        BY <2>1, <3>2
    <2> QED
      BY <2>2, <2>3
  <1>7. sock' = [x EXCEPT ![s].pair = p]
    BY <1>1, <1>4
  <1>8. x = [t \in 1 .. Len(sock) |-> x[t]]
    BY <1>5
  <1>9. sock' = [t \in 1 .. Len(sock) |-> IF t = s THEN [x[t] EXCEPT !.pair = p] ELSE x[t]]
    BY <1>7, <1>8
  <1>10. \A t \in 1 .. Len(sock) :
            /\ sock'[t].max = sock[t].max
            /\ \A j \in 0 .. MaxConn - 1 : sock'[t].backlog[j] \in {p, sock[t].backlog[j]}
    BY <1>6, <1>9
  <1>11. Len(sock') = Len(sock)
    <2>1. sock' = [t \in 1 .. Len(sock) |-> sock'[t]]
      BY <1>9
    <2> QED
      BY <1>3, <2>1, FunctionListed
  <1>12. pc' = [e \in CPU |-> IF e = c THEN "wait" ELSE pc[e]]
    BY <1>1 DEF Good, Shapes, Go
  <1>13. Unaccepted'
    <2>1. \A e \in CPU : (Bringing(e) \/ pc[e] = "buffers")' => ~pair'[loc'[e].p].connected
      BY <1>1, <1>12 DEF Streaming, Unaccepted
    <2>2. ASSUME NEW t \in Socks, NEW j \in Live(t)', sock'[t].backlog[j] \in Pairs,
                 pair[sock'[t].backlog[j]].connected
          PROVE  \E e \in CPU : pc'[e] = "shift" /\ loc'[e].p = sock'[t].backlog[j]
      <3>1. j \in 0 .. MaxConn - 1 /\ j \in Live(t)
        BY <1>10 DEF Live, Socks
      <3>2. sock'[t].backlog[j] = sock[t].backlog[j]
        BY <1>2, <1>10, <2>2, <3>1 DEF Socks
      <3>3. PICK e \in CPU : pc[e] = "shift" /\ loc[e].p = sock[t].backlog[j]
        BY <2>2, <3>1, <3>2 DEF Streaming, Unaccepted
      <3> QED
        BY <1>1, <1>12, <3>2, <3>3
    <2>3. Socks' = Socks /\ Pairs' = Pairs
      BY <1>1, <1>11 DEF Socks, Pairs
    <2> QED
      BY <1>1, <2>1, <2>2, <2>3 DEF Unaccepted
  <1>14. loc' = [loc EXCEPT ![c] = loc[c]]
    BY <1>1 DEF Good, Shapes
  <1>15. CallsSame
    BY <1>1, <1>14, CallBytes, CallsElsewhere
  <1> QED
    BY <1>1, <1>13, <1>15, PairsSame, StreamsQuiet DEF Streaming

(* accept removes the pair it has connected from the backlog.              *)
LEMMA StreamTakeFirst ==
    ASSUME Good, Streaming, NEW c \in CPU, TakeFirst(c), ~wild'
    PROVE  Streaming'
  <1> DEFINE s == loc[c].s
             max == sock[s].max
             y == [sock[s] EXCEPT !.backlog = Shifted(sock[s].backlog, max),
                                  !.max = max - 1, !.state = "disconnected"]
             l == [NoCall EXCEPT !.s = Len(sock) + 1, !.op = "accept"]
  <1>1. ~(max < 1)
    BY DEF TakeFirst, GoWild
  <1>2. PICK next : sock' = Append([sock EXCEPT ![s] = y],
                                   [Fresh(next) EXCEPT !.pair = loc[c].p, !.state = "connected"])
    BY <1>1, ZenonT(60) DEF TakeFirst
  <1>3. /\ pc[c] = "shift" /\ Go(c, "append") /\ loc' = [loc EXCEPT ![c] = l]
        /\ pair' = pair /\ got' = got /\ raced' = raced
    BY <1>1 DEF TakeFirst, At
  <1>4. s \in Socks /\ \E k \in DOMAIN fds[c] : fds[c][k].s = s
    BY <1>3 DEF Good, Owned
  <1>5. IsSocket(sock[s]) /\ max \in Int /\ max >= 1 /\ max <= MaxConn /\ MaxConn \in Nat
    BY <1>1, <1>4, BoundsAssumption, SMTT(30) DEF Good, Shapes, IsSocket, Socks
  <1>6. /\ y.max = max - 1
        /\ \A j \in 0 .. MaxConn - 1 :
              y.backlog[j] = IF j < max - 1 THEN sock[s].backlog[j + 1]
                             ELSE IF j = 0 THEN NULL ELSE sock[s].backlog[j]
    <2>1. PICK b : b = Shifted(sock[s].backlog, max)
      OBVIOUS
    <2>2. \A j \in 0 .. MaxConn - 1 :
              b[j] = IF j < max - 1 THEN sock[s].backlog[j + 1]
                     ELSE IF j = 0 THEN NULL ELSE sock[s].backlog[j]
      BY <1>5, <2>1 DEF Shifted, IsSocket
    <2>3. y.max = max - 1 /\ y.backlog = b
      BY <1>5, <2>1 DEF IsSocket
    <2> QED
      BY <2>2, <2>3
  <1>7. PICK f : f = [Fresh(next) EXCEPT !.pair = loc[c].p, !.state = "connected"]
    OBVIOUS
  <1>8. \A i \in 0 .. MaxConn - 1 : f.backlog[i] = Stray
    BY <1>7 DEF Fresh
  <1>9. {"e", "n"} \subseteq DOMAIN l
    BY DEF NoCall
  <1>10. Len(sock) \in Nat /\ sock = [t \in 1 .. Len(sock) |-> sock[t]]
    BY DEF Good, Shapes, Listed
  <1> HIDE DEF y, l
  <1>11. PICK x : x = [sock EXCEPT ![s] = y]
    OBVIOUS
  <1>12. /\ x = [t \in 1 .. Len(sock) |-> x[t]]
         /\ \A t \in 1 .. Len(sock) : x[t] = IF t = s THEN y ELSE sock[t]
    BY <1>10, <1>11
  <1>13. Listed(x) /\ Len(x) = Len(sock)
    BY <1>10, <1>12, FunctionListed
  <1>14. /\ Len(sock') = Len(sock) + 1 /\ sock'[Len(sock) + 1] = f
         /\ \A t \in 1 .. Len(sock) : sock'[t] = x[t]
    BY <1>2, <1>7, <1>11, <1>13, AppendListed
  <1>15. PICK m : m = Len(sock) + 1
    OBVIOUS
  <1>16. /\ Socks' = Socks \cup {m} /\ sock'[m] = f /\ sock'[s] = y
         /\ \A t \in Socks \ {s} : sock'[t] = sock[t]
    BY <1>4, <1>10, <1>12, <1>14, <1>15 DEF Socks
  <1>17. /\ pc' = [e \in CPU |-> IF e = c THEN "append" ELSE pc[e]]
         /\ loc' = [e \in CPU |-> IF e = c THEN l ELSE loc[e]]
    BY <1>3 DEF Good, Shapes, Go
  <1>18. ASSUME NEW t \in Socks', NEW j \in Live(t)', sock'[t].backlog[j] \in Pairs
         PROVE  t \in Socks /\ \E i \in Live(t) : /\ sock'[t].backlog[j] = sock[t].backlog[i]
                                                  /\ t # s \/ i # 0
    <2>1. j \in 0 .. MaxConn - 1 /\ (j = 0 \/ j < sock'[t].max)
      BY DEF Live
    <2>2. t \in Socks
      BY <1>8, <1>16, <1>18, <2>1 DEF Pairs, Stray
    <2>3. CASE t # s
      <3>1. sock'[t] = sock[t]
        BY <1>16, <2>2, <2>3
      <3>2. j \in Live(t)
        BY <2>1, <3>1 DEF Live
      <3> QED
        BY <2>2, <2>3, <3>1, <3>2
    <2>4. CASE t = s
      <3>1. j < max - 1
        <4>1. CASE j = 0 /\ ~(j < max - 1)
          <5>1. sock'[t].backlog[j] = NULL
            BY <1>6, <1>16, <2>1, <2>4, <4>1
          <5> QED
            BY <1>18, <5>1 DEF Pairs, NULL
        <4> QED
          BY <1>6, <1>16, <2>1, <2>4, <4>1
      <3>2. sock'[t].backlog[j] = sock[t].backlog[j + 1]
        BY <1>6, <1>16, <2>1, <2>4, <3>1
      <3>3. j + 1 \in Live(t) /\ j + 1 # 0
        BY <1>5, <2>1, <2>4, <3>1 DEF Live
      <3> QED
        BY <2>2, <3>2, <3>3
    <2> QED
      BY <2>3, <2>4
  <1>19. Unaccepted'
    <2>1. \A e \in CPU : (Bringing(e) \/ pc[e] = "buffers")' => ~pair'[loc'[e].p].connected
      BY <1>3, <1>17 DEF Streaming, Unaccepted
    <2>2. ASSUME NEW t \in Socks', NEW j \in Live(t)', sock'[t].backlog[j] \in Pairs,
                 pair[sock'[t].backlog[j]].connected
          PROVE  \E e \in CPU : pc'[e] = "shift" /\ loc'[e].p = sock'[t].backlog[j]
      <3>1. t \in Socks /\ \E i \in Live(t) : /\ sock'[t].backlog[j] = sock[t].backlog[i]
                                              /\ t # s \/ i # 0
        BY <1>18, <2>2
      <3>2. PICK i \in Live(t) : sock'[t].backlog[j] = sock[t].backlog[i] /\ (t # s \/ i # 0)
        BY <3>1
      <3>3. PICK e \in CPU : pc[e] = "shift" /\ loc[e].p = sock[t].backlog[i]
        BY <2>2, <3>1, <3>2 DEF Streaming, Unaccepted
      <3>4. loc[e].s = t /\ i = 0
        BY <2>2, <3>1, <3>2, <3>3 DEF Good, AcceptedOnce
      <3> QED
        BY <1>17, <3>2, <3>3, <3>4
    <2>3. Pairs' = Pairs
      BY <1>3 DEF Pairs
    <2> QED
      BY <1>3, <2>1, <2>2, <2>3 DEF Unaccepted
  <1>20. CallsSame
    BY <1>3, <1>9, CallsElsewhere
  <1> QED
    BY <1>3, <1>19, <1>20, PairsSame, StreamsQuiet DEF Streaming

-----------------------------------------------------------------------------
(* A new pair is empty.                                                    *)
LEMMA StreamReadCurr ==
    ASSUME Good, Streaming, NEW c \in CPU, ReadCurr(c), ~wild'
    PROVE  Streaming'
  <1>1. PICK n \in Nat : n = Len(pair)
    BY DEF Good, Shapes, Listed
  <1>2. PICK m : m = n + 1
    OBVIOUS
  <1>3. PICK l : l = [loc[c] EXCEPT !.p = m, !.i = sock[loc[c].d].curr]
    OBVIOUS
  <1>4. /\ pc[c] = "push" /\ Go(c, "curr") /\ loc' = [loc EXCEPT ![c] = l] /\ sock' = sock
        /\ pair' = Append(pair, NewPair) /\ got' = Append(got, [e \in Ends |-> <<>>])
        /\ raced' = raced
    BY <1>1, <1>2, <1>3 DEF ReadCurr, GoWild, At
  <1>5. {"e", "n"} \subseteq DOMAIN l /\ l.p = m
    BY <1>3, CallBytes DEF Good, Shapes, IsCall
  <1>6. PICK q : q = NewPair
    OBVIOUS
  <1>7. /\ ~q.connected /\ {"bytes", "pos", "sent"} \subseteq DOMAIN q
        /\ q.pos = [e \in Ends |-> 0] /\ q.sent = [e \in Ends |-> 0]
        /\ q.bytes = [e \in Ends |-> [i \in 0 .. BufSize - 1 |-> Stray]]
    BY <1>6 DEF NewPair
  <1>8. PICK g : g = [e \in Ends |-> <<>>]
    OBVIOUS
  <1>9. Len(pair') = m /\ pair'[m] = q /\ \A p \in Pairs : pair'[p] = pair[p]
    BY <1>1, <1>2, <1>4, <1>6, AppendListed DEF Good, Shapes, Pairs
  <1>10. Listed(got') /\ Len(got') = m /\ got'[m] = g /\ \A p \in Pairs : got'[p] = got[p]
    BY <1>1, <1>2, <1>4, <1>8, AppendListed DEF Streaming, StreamFields, Pairs
  <1>11. Pairs' = Pairs \cup {m} /\ m \notin Pairs
    BY <1>1, <1>2, <1>9 DEF Pairs
  <1>12. /\ pc' = [d \in CPU |-> IF d = c THEN "curr" ELSE pc[d]]
         /\ loc' = [d \in CPU |-> IF d = c THEN l ELSE loc[d]]
    BY <1>4 DEF Good, Shapes, Go
  <1>13. StreamFields'
    <2>1. /\ g = [e \in Ends |-> g[e]] /\ q.bytes = [e \in Ends |-> q.bytes[e]]
          /\ q.pos \in [Ends -> Int] /\ q.sent \in [Ends -> Nat]
      BY <1>7, <1>8
    <2>2. \A p \in Pairs' :
            /\ got'[p] = [e \in Ends |-> got'[p][e]]
            /\ {"bytes", "pos", "sent"} \subseteq DOMAIN pair'[p]
            /\ pair'[p].bytes = [e \in Ends |-> pair'[p].bytes[e]]
            /\ pair'[p].pos \in [Ends -> Int] /\ pair'[p].sent \in [Ends -> Nat]
      <3> TAKE p \in Pairs'
      <3>1. CASE p = m
        BY <1>7, <1>9, <1>10, <2>1, <3>1
      <3>2. CASE p \in Pairs
        BY <1>9, <1>10, <3>2 DEF Streaming, StreamFields
      <3> QED
        BY <1>11, <3>1, <3>2
    <2>3. \A d \in CPU : {"e", "n"} \subseteq DOMAIN loc'[d]
      BY <1>5, <1>12 DEF Streaming, StreamFields
    <2> QED
      BY <1>9, <1>10, <2>2, <2>3 DEF StreamFields
  <1>14. Unused'
    <2>1. \A p \in Pairs' : ~pair'[p].connected => \A e \in Ends :
              pair'[p].pos[e] = 0 /\ pair'[p].sent[e] = 0 /\ got'[p][e] = <<>>
      BY <1>7, <1>8, <1>9, <1>10, <1>11 DEF Streaming, Unused
    <2>2. ASSUME NEW d \in CPU, pc'[d] \in {"sent", "copied"}
          PROVE  /\ loc'[d].p \in Pairs' /\ pair'[loc'[d].p].connected /\ loc'[d].e \in Ends
                 /\ loc'[d].n \in Int
      <3>1. pc'[d] = pc[d] /\ loc'[d] = loc[d]
        BY <1>12, <2>2
      <3>2. /\ loc[d].p \in Pairs /\ pair[loc[d].p].connected /\ loc[d].e \in Ends
            /\ loc[d].n \in Int
        BY <2>2, <3>1 DEF Streaming, Unused
      <3> QED
        BY <1>9, <1>11, <3>1, <3>2
    <2> QED
      BY <2>1, <2>2 DEF Unused
  <1>15. \A d \in CPU : pc'[d] \in {"sent", "copied"} \/ pc[d] \in {"sent", "copied"} =>
            pc'[d] = pc[d] /\ loc'[d] = loc[d] /\ loc[d].p \in Pairs
    BY <1>4, <1>12 DEF Streaming, Unused
  <1>16. Streams'
    <2>1. ASSUME NEW p \in Pairs, NEW e \in Ends, Stream(p, e) PROVE Stream(p, e)'
      <3>1. \A a, b : Content(p, e, a, b)' <=> Content(p, e, a, b)
        BY <1>9, <1>10 DEF Content, Flow, Listed, IsBuffer
      <3>2. \A d \in CPU : InCall(d, p, e)' <=> InCall(d, p, e)
        BY <1>15 DEF InCall
      <3>3. \A d \in CPU : InCall(d, p, e) => pc'[d] = pc[d] /\ loc'[d] = loc[d]
        BY <1>15 DEF InCall
      <3>4. /\ \A d, x \in CPU : InCall(d, p, e)' /\ InCall(x, p, e)' => d = x
            /\ (\A d \in CPU : ~InCall(d, p, e)') => Content(p, e, 0, 0)'
        BY <2>1, <3>1, <3>2 DEF Stream
      <3>5. ASSUME NEW d \in CPU, InCall(d, p, e)'
            PROVE  IF pc'[d] = "sent" THEN Content(p, e, loc[d].n, 0)' ELSE Content(p, e, 0, loc[d].n)'
        <4>1. InCall(d, p, e) /\ pc'[d] = pc[d] /\ loc'[d] = loc[d]
          BY <3>2, <3>3, <3>5
        <4>2. IF pc[d] = "sent" THEN Content(p, e, loc[d].n, 0) ELSE Content(p, e, 0, loc[d].n)
          BY <2>1, <4>1, Zenon DEF Stream
        <4>3. PICK k : k = loc[d].n /\ k = loc'[d].n
          BY <4>1
        <4>4. IF pc'[d] = "sent" THEN Content(p, e, k, 0)' ELSE Content(p, e, 0, k)'
          BY <3>1, <4>1, <4>2, <4>3
        <4> QED
          BY <4>3, <4>4 DEF Content
      <3> QED
        BY <3>4, <3>5 DEF Stream
    <2>2. ASSUME NEW e \in Ends PROVE Stream(m, e)'
      <3>1. \A d \in CPU : ~InCall(d, m, e)'
        BY <1>11, <1>15 DEF InCall
      <3>2. PICK b : b = q.bytes[e]
        OBVIOUS
      <3>3. IsBuffer(b)
        BY <1>7, <3>2 DEF IsBuffer
      <3>4. PICK t : t = <<>>
        OBVIOUS
      <3>5. Listed(t) /\ Len(t) = 0
        BY <3>4 DEF Listed
      <3>6. Flow(t, 0, 0, b, 0, 0)
        BY <3>3, <3>5, BoundsAssumption DEF Flow
      <3>7. Content(m, e, 0, 0)'
        BY <1>7, <1>8, <1>9, <1>10, <3>2, <3>4, <3>6 DEF Content
      <3> QED
        BY <3>1, <3>7 DEF Stream
    <2> QED
      BY <1>4, <1>11, <2>1, <2>2 DEF Streams, Streaming
  <1>17. Unaccepted'
    <2>1. ASSUME NEW d \in CPU, (Bringing(d) \/ pc[d] = "buffers")'
          PROVE  ~pair'[loc'[d].p].connected
      <3>1. CASE d = c
        BY <1>5, <1>7, <1>9, <1>12, <3>1
      <3>2. CASE d # c
        <4>1. (Bringing(d) \/ pc[d] = "buffers") /\ loc'[d] = loc[d]
          BY <1>12, <2>1, <3>2
        <4>2. loc[d].p \in Pairs /\ ~pair[loc[d].p].connected
          BY <4>1 DEF Good, NewPairs, TakenPairs, Streaming, Unaccepted
        <4> QED
          BY <1>9, <4>1, <4>2
      <3> QED
        BY <3>1, <3>2
    <2>2. ASSUME NEW t \in Socks', NEW i \in Live(t)', sock'[t].backlog[i] \in Pairs',
                 pair'[sock'[t].backlog[i]].connected
          PROVE  \E d \in CPU : pc'[d] = "shift" /\ loc'[d].p = sock'[t].backlog[i]
      <3>1. /\ t \in Socks /\ i \in Live(t) /\ sock'[t] = sock[t]
            /\ sock[t].backlog[i] \in Pairs /\ pair[sock[t].backlog[i]].connected
        BY <1>4, <1>7, <1>9, <1>11, <2>2 DEF Socks, Live
      <3>2. PICK d \in CPU : pc[d] = "shift" /\ loc[d].p = sock[t].backlog[i]
        BY <3>1 DEF Streaming, Unaccepted
      <3> QED
        BY <1>4, <1>12, <3>1, <3>2
    <2> QED
      BY <2>1, <2>2 DEF Unaccepted
  <1> QED
    BY <1>13, <1>14, <1>16, <1>17 DEF Streaming

-----------------------------------------------------------------------------
(* Steps of a call on one buffer                                           *)

(* Only buffer e of pair p changes.                                        *)
OneBuffer(p, e) ==
    /\ Len(pair') = Len(pair) /\ Len(got') = Len(got) /\ Listed(got')
    /\ \A q \in Pairs :
          /\ got'[q] = [x \in Ends |-> got'[q][x]]
          /\ {"bytes", "pos", "sent"} \subseteq DOMAIN pair'[q]
          /\ pair'[q].bytes = [x \in Ends |-> pair'[q].bytes[x]]
          /\ pair'[q].pos \in [Ends -> Int] /\ pair'[q].sent \in [Ends -> Nat]
    /\ \A q \in Pairs : \A x \in Ends : q # p \/ x # e =>
          /\ pair'[q].bytes[x] = pair[q].bytes[x] /\ pair'[q].pos[x] = pair[q].pos[x]
          /\ pair'[q].sent[x] = pair[q].sent[x] /\ got'[q][x] = got[q][x]

(* Only CPU c moves, and what it is in or enters is a call on this buffer. *)
OneCall(c, p, e) ==
    /\ \A d \in CPU : {"e", "n"} \subseteq DOMAIN loc'[d]
    /\ \A d \in CPU \ {c} : pc'[d] = pc[d] /\ loc'[d] = loc[d]
    /\ pc[c] \in {"sent", "copied"} => InCall(c, p, e)
    /\ pc'[c] \in {"sent", "copied"} => InCall(c, p, e)' /\ loc'[c].n \in Int

(* The other streams stay, and the pair is in use.                         *)
LEMMA StreamsOne ==
    ASSUME Streaming, NEW c \in CPU, NEW p \in Pairs, NEW e \in Ends,
           OneBuffer(p, e), FlagsSame, OneCall(c, p, e), pair[p].connected,
           raced \subseteq raced', <<p, e>> \notin raced' => Stream(p, e)'
    PROVE  StreamFields' /\ Unused' /\ Streams'
  <1>1. Pairs' = Pairs
    BY DEF Pairs, FlagsSame
  <1>2. StreamFields'
    BY <1>1 DEF Streaming, StreamFields, OneBuffer, OneCall
  <1>3. Unused'
    <2>1. ASSUME NEW q \in Pairs', ~pair'[q].connected, NEW x \in Ends
          PROVE  pair'[q].pos[x] = 0 /\ pair'[q].sent[x] = 0 /\ got'[q][x] = <<>>
      <3>1. ~pair[q].connected /\ q \in Pairs
        BY <1>1, <2>1 DEF FlagsSame
      <3>2. q # p
        BY <3>1
      <3> QED
        BY <3>1, <3>2 DEF Streaming, Unused, OneBuffer
    <2>2. ASSUME NEW d \in CPU, pc'[d] \in {"sent", "copied"}
          PROVE  /\ loc'[d].p \in Pairs' /\ pair'[loc'[d].p].connected /\ loc'[d].e \in Ends
                 /\ loc'[d].n \in Int
      <3>1. CASE d = c
        BY <1>1, <2>2, <3>1 DEF OneCall, InCall, FlagsSame
      <3>2. CASE d # c
        <4>1. pc'[d] = pc[d] /\ loc'[d] = loc[d]
          BY <3>2 DEF OneCall
        <4>2. /\ loc[d].p \in Pairs /\ pair[loc[d].p].connected /\ loc[d].e \in Ends
              /\ loc[d].n \in Int
          BY <2>2, <4>1 DEF Streaming, Unused
        <4> QED
          BY <1>1, <4>1, <4>2 DEF FlagsSame
      <3> QED
        BY <3>1, <3>2
    <2> QED
      BY <2>1, <2>2 DEF Unused
  <1>4. ASSUME NEW q \in Pairs, NEW x \in Ends, q # p \/ x # e, Stream(q, x) PROVE Stream(q, x)'
    <2>1. \A a, b : Content(q, x, a, b)' <=> Content(q, x, a, b)
      <3>1. /\ pair'[q].bytes[x] = pair[q].bytes[x] /\ pair'[q].pos[x] = pair[q].pos[x]
            /\ pair'[q].sent[x] = pair[q].sent[x] /\ got'[q][x] = got[q][x]
        BY <1>4 DEF OneBuffer
      <3> QED
        BY <3>1 DEF Content
    <2>2. \A d \in CPU : InCall(d, q, x)' <=> InCall(d, q, x)
      BY <1>4 DEF InCall, OneCall
    <2>3. \A d \in CPU : InCall(d, q, x) => pc'[d] = pc[d] /\ loc'[d] = loc[d]
      BY <1>4 DEF InCall, OneCall
    <2>4. /\ \A d, f \in CPU : InCall(d, q, x)' /\ InCall(f, q, x)' => d = f
          /\ (\A d \in CPU : ~InCall(d, q, x)') => Content(q, x, 0, 0)'
      BY <1>4, <2>1, <2>2 DEF Stream
    <2>5. ASSUME NEW d \in CPU, InCall(d, q, x)'
          PROVE  IF pc'[d] = "sent" THEN Content(q, x, loc[d].n, 0)' ELSE Content(q, x, 0, loc[d].n)'
      <3>1. InCall(d, q, x) /\ pc'[d] = pc[d] /\ loc'[d] = loc[d]
        BY <2>2, <2>3, <2>5
      <3>2. IF pc[d] = "sent" THEN Content(q, x, loc[d].n, 0) ELSE Content(q, x, 0, loc[d].n)
        BY <1>4, <3>1, Zenon DEF Stream
      <3>3. PICK n : n = loc[d].n /\ n = loc'[d].n
        BY <3>1
      <3>4. IF pc'[d] = "sent" THEN Content(q, x, n, 0)' ELSE Content(q, x, 0, n)'
        BY <2>1, <3>1, <3>2, <3>3
      <3> QED
        BY <3>3, <3>4 DEF Content
    <2> QED
      BY <2>4, <2>5 DEF Stream
  <1>5. Streams'
    <2> SUFFICES ASSUME NEW q \in Pairs, NEW x \in Ends, <<q, x>> \notin raced' PROVE Stream(q, x)'
      BY <1>1 DEF Streams
    <2>1. CASE q = p /\ x = e
      BY <2>1
    <2>2. CASE q # p \/ x # e
      <3>1. Stream(q, x)
        BY DEF Streaming, Streams
      <3> QED
        BY <1>4, <2>2, <3>1
    <2> QED
      BY <2>1, <2>2
  <1> QED
    BY <1>2, <1>3, <1>5

(* y is pair p where buffer e has bytes b, position k and m bytes sent.    *)
WithBuffer(y, p, e, b, k, m) ==
    /\ {"bytes", "pos", "sent"} \subseteq DOMAIN y
    /\ y.connected = pair[p].connected
    /\ y.bytes = [pair[p].bytes EXCEPT ![e] = b]
    /\ y.pos = [pair[p].pos EXCEPT ![e] = k]
    /\ y.sent = [pair[p].sent EXCEPT ![e] = m]

(* The step leaves buffer e of pair p so, and r received from it.          *)
BufferLeft(p, e, b, k, m, r) ==
    /\ OneBuffer(p, e) /\ FlagsSame
    /\ pair'[p].bytes[e] = b /\ pair'[p].pos[e] = k /\ pair'[p].sent[e] = m
    /\ got'[p][e] = r

Replaced(p, y) == pair' = [pair EXCEPT ![p] = y]

Received(p, e, r) == got' = [got EXCEPT ![p] = [got[p] EXCEPT ![e] = r]]

(* The buffer gets bytes b, position k, m bytes sent and r received.       *)
LEMMA BufferSet ==
    ASSUME Good, Streaming, NEW p \in Pairs, NEW e \in Ends, NEW y, NEW b, NEW k \in Int,
           NEW m \in Nat, NEW r,
           Replaced(p, y), WithBuffer(y, p, e, b, k, m), Received(p, e, r)
    PROVE  BufferLeft(p, e, b, k, m, r)
  <1>0. /\ pair' = [pair EXCEPT ![p] = y]
        /\ {"bytes", "pos", "sent"} \subseteq DOMAIN y
        /\ y.connected = pair[p].connected
        /\ y.bytes = [pair[p].bytes EXCEPT ![e] = b] /\ y.pos = [pair[p].pos EXCEPT ![e] = k]
        /\ y.sent = [pair[p].sent EXCEPT ![e] = m]
        /\ got' = [got EXCEPT ![p] = [got[p] EXCEPT ![e] = r]]
    BY DEF WithBuffer, Replaced, Received
  <1>1. Len(pair) \in Nat /\ pair = [i \in 1 .. Len(pair) |-> pair[i]]
    BY DEF Good, Shapes, Listed
  <1>2. pair' = [i \in 1 .. Len(pair) |-> pair'[i]]
        /\ \A q \in 1 .. Len(pair) : pair'[q] = IF q = p THEN y ELSE pair[q]
    BY <1>0, <1>1
  <1>3. Len(pair') = Len(pair)
    BY <1>1, <1>2, FunctionListed
  <1>4. PICK z : z = [got[p] EXCEPT ![e] = r]
    OBVIOUS
  <1>5. Len(got) = Len(pair) /\ got = [i \in 1 .. Len(pair) |-> got[i]]
    BY DEF Streaming, StreamFields, Listed
  <1>6. got' = [i \in 1 .. Len(pair) |-> got'[i]]
        /\ \A q \in 1 .. Len(pair) : got'[q] = IF q = p THEN z ELSE got[q]
    BY <1>0, <1>4, <1>5
  <1>7. Listed(got') /\ Len(got') = Len(pair)
    BY <1>1, <1>6, FunctionListed
  <1>8. /\ got[p] = [x \in Ends |-> got[p][x]]
        /\ pair[p].bytes = [x \in Ends |-> pair[p].bytes[x]]
        /\ pair[p].pos \in [Ends -> Int] /\ pair[p].sent \in [Ends -> Nat]
    BY DEF Streaming, StreamFields
  <1>9. /\ z = [x \in Ends |-> z[x]] /\ z[e] = r /\ \A x \in Ends \ {e} : z[x] = got[p][x]
    BY <1>4, <1>8
  <1>10. /\ y.bytes = [x \in Ends |-> y.bytes[x]] /\ y.bytes[e] = b
         /\ \A x \in Ends \ {e} : y.bytes[x] = pair[p].bytes[x]
    BY <1>0, <1>8
  <1>11. /\ y.pos \in [Ends -> Int] /\ y.pos[e] = k
         /\ \A x \in Ends \ {e} : y.pos[x] = pair[p].pos[x]
    BY <1>0, <1>8
  <1>12. /\ y.sent \in [Ends -> Nat] /\ y.sent[e] = m
         /\ \A x \in Ends \ {e} : y.sent[x] = pair[p].sent[x]
    BY <1>0, <1>8
  <1>13. pair'[p] = y /\ got'[p] = z /\ \A q \in Pairs \ {p} : pair'[q] = pair[q] /\ got'[q] = got[q]
    BY <1>2, <1>6 DEF Pairs
  <1>14. ASSUME NEW q \in Pairs
         PROVE  /\ got'[q] = [x \in Ends |-> got'[q][x]]
                /\ {"bytes", "pos", "sent"} \subseteq DOMAIN pair'[q]
                /\ pair'[q].bytes = [x \in Ends |-> pair'[q].bytes[x]]
                /\ pair'[q].pos \in [Ends -> Int] /\ pair'[q].sent \in [Ends -> Nat]
    <2>1. CASE q = p
      BY <1>0, <1>9, <1>10, <1>11, <1>12, <1>13, <2>1
    <2>2. CASE q # p
      BY <1>13, <2>2 DEF Streaming, StreamFields
    <2> QED
      BY <2>1, <2>2
  <1>15. ASSUME NEW q \in Pairs, NEW x \in Ends, q # p \/ x # e
         PROVE  /\ pair'[q].bytes[x] = pair[q].bytes[x] /\ pair'[q].pos[x] = pair[q].pos[x]
                /\ pair'[q].sent[x] = pair[q].sent[x] /\ got'[q][x] = got[q][x]
    <2>1. CASE q = p
      BY <1>9, <1>10, <1>11, <1>12, <1>13, <1>15, <2>1
    <2>2. CASE q # p
      BY <1>13, <2>2
    <2> QED
      BY <2>1, <2>2
  <1>16. OneBuffer(p, e)
    BY <1>3, <1>5, <1>7, <1>14, <1>15 DEF OneBuffer
  <1>17. FlagsSame
    BY <1>0, <1>3, <1>13 DEF FlagsSame
  <1> QED
    BY <1>9, <1>10, <1>11, <1>12, <1>13, <1>16, <1>17 DEF BufferLeft

-----------------------------------------------------------------------------
(* CPU c goes on at place with locals l.                                   *)
MovesTo(c, place, l) == Go(c, place) /\ loc' = [loc EXCEPT ![c] = l]

(* Locals l are those of a call on buffer e of pair p.                     *)
CallOn(l, p, e) == l.p = p /\ l.e = e /\ l.n \in Int

(* CPU c enters or leaves a call on buffer e of pair p.                    *)
LEMMA CallMoves ==
    ASSUME Good, Streaming, NEW c \in CPU, NEW p, NEW e, NEW place, NEW l,
           {"e", "n"} \subseteq DOMAIN l, MovesTo(c, place, l),
           pc[c] \in {"sent", "copied"} => InCall(c, p, e),
           place \in {"sent", "copied"} => CallOn(l, p, e)
    PROVE  OneCall(c, p, e) /\ pc'[c] = place /\ loc'[c] = l
  <1>1. /\ pc' = [d \in CPU |-> IF d = c THEN place ELSE pc[d]]
        /\ loc' = [d \in CPU |-> IF d = c THEN l ELSE loc[d]]
    BY DEF Good, Shapes, Go, MovesTo
  <1>2. pc'[c] = place /\ loc'[c] = l
    BY <1>1
  <1>3. \A d \in CPU \ {c} : pc'[d] = pc[d] /\ loc'[d] = loc[d]
    BY <1>1
  <1>4. \A d \in CPU : {"e", "n"} \subseteq DOMAIN loc'[d]
    BY <1>2, <1>3 DEF Streaming, StreamFields
  <1>5. place \in {"sent", "copied"} => InCall(c, p, e)' /\ loc'[c].n \in Int
    BY <1>2 DEF InCall, CallOn
  <1> QED
    BY <1>2, <1>3, <1>4, <1>5 DEF OneCall

(* No other CPU is in a call on the buffer.                                *)
Only(c, p, e) == \A x \in CPU \ {c} : ~InCall(x, p, e)

(* A call alone on its buffer has begun,                                   *)
LEMMA StreamBegun ==
    ASSUME NEW c \in CPU, NEW p, NEW e, OneCall(c, p, e), Only(c, p, e),
           pc'[c] \in {"sent", "copied"},
           IF pc'[c] = "sent" THEN Content(p, e, loc[c].n, 0)' ELSE Content(p, e, 0, loc[c].n)'
    PROVE  Stream(p, e)'
  <1>1. \A x \in CPU : InCall(x, p, e)' <=> x = c
    BY DEF OneCall, Only, InCall
  <1> QED
    BY <1>1 DEF Stream

(* and has ended.                                                          *)
LEMMA StreamEnded ==
    ASSUME NEW c \in CPU, NEW p, NEW e, OneCall(c, p, e), Only(c, p, e),
           pc'[c] = "user", Content(p, e, 0, 0)'
    PROVE  Stream(p, e)'
  <1>1. \A x \in CPU : ~InCall(x, p, e)'
    BY DEF OneCall, Only, InCall
  <1> QED
    BY <1>1 DEF Stream

(* A step of a call keeps all streams if it keeps its own, provided that   *)
(* no call has overlapped with it.                                         *)
LEMMA CallStep ==
    ASSUME Good, Streaming, NEW c \in CPU, NEW p \in Pairs, NEW e \in Ends,
           OneBuffer(p, e), FlagsSame, OneCall(c, p, e), WaysKept, pair[p].connected,
           sock' = sock, Note(c, p, e),
           Only(c, p, e) /\ Stream(p, e) => Stream(p, e)'
    PROVE  Streaming'
  <1>1. raced \subseteq raced'
    BY DEF Note
  <1>2. ASSUME <<p, e>> \notin raced' PROVE Stream(p, e)'
    <2>1. ~Busy(c, p, e) /\ <<p, e>> \notin raced
      BY <1>2 DEF Note
    <2>2. Only(c, p, e)
      BY <2>1 DEF Busy, Only, InCall
    <2>3. Stream(p, e)
      BY <2>1 DEF Streaming, Streams
    <2> QED
      BY <2>2, <2>3
  <1>3. StreamFields' /\ Unused' /\ Streams'
    BY <1>1, <1>2, StreamsOne
  <1>4. EntriesKept
    BY SocketsStay, EntriesSame
  <1> QED
    BY <1>3, <1>4, UnacceptedKept DEF Streaming

(* Nobody is in a call: what the stream says.                              *)
LEMMA StreamIdle ==
    ASSUME NEW c \in CPU, NEW p, NEW e, Stream(p, e), Only(c, p, e),
           pc[c] \notin {"sent", "copied"}
    PROVE  Content(p, e, 0, 0)
  <1>1. \A x \in CPU : ~InCall(x, p, e)
    BY DEF Only, InCall
  <1> QED
    BY <1>1, Zenon DEF Stream

(* The lesser of two.                                                      *)
LEMMA MinOfTwo ==
    ASSUME NEW a \in Int, NEW b \in Int
    PROVE  Min({a, b}) \in {a, b} /\ Min({a, b}) <= a /\ Min({a, b}) <= b
  <1>1. \E x \in {a, b} : \A y \in {a, b} : x <= y
    <2>1. CASE a <= b
      BY <2>1
    <2>2. CASE b <= a
      BY <2>2
    <2> QED
      BY <2>1, <2>2
  <1> QED
    BY <1>1 DEF Min

(* A handle with operations has a pair in use.                             *)
LEMMA HandleUsable ==
    ASSUME Good, NEW c \in CPU, NEW h \in ToSet(fds[c]), h.op # "unset"
    PROVE  sock[h.s].pair \in Pairs /\ pair[sock[h.s].pair].connected
  <1>1. PICK k \in DOMAIN fds[c] : fds[c][k] = h
    BY DEF ToSet
  <1> QED
    BY <1>1 DEF Good, HandlesOK, CpuOK, Usable

(* What the four steps of the calls leave in the pair.                     *)
LEMMA PairSet ==
    ASSUME Good, Streaming, NEW p \in Pairs, NEW e \in Ends, NEW b, NEW k, NEW m
    PROVE  /\ WithBuffer(pair[p], p, e, pair[p].bytes[e], pair[p].pos[e], pair[p].sent[e])
           /\ WithBuffer([pair[p] EXCEPT !.sent[e] = m, !.bytes[e] = b],
                         p, e, b, pair[p].pos[e], m)
           /\ WithBuffer([pair[p] EXCEPT !.pos[e] = k],
                         p, e, pair[p].bytes[e], k, pair[p].sent[e])
           /\ WithBuffer([pair[p] EXCEPT !.bytes[e] = b, !.pos[e] = k],
                         p, e, b, k, pair[p].sent[e])
  <1>1. PICK R : R = pair[p]
    OBVIOUS
  <1>2. {"connected", "bytes", "pos", "sent"} \subseteq DOMAIN R
    BY <1>1 DEF Good, Shapes, IsPair, Pairs, Streaming, StreamFields
  <1>3. /\ R.bytes = [R.bytes EXCEPT ![e] = R.bytes[e]]
        /\ R.pos = [R.pos EXCEPT ![e] = R.pos[e]]
        /\ R.sent = [R.sent EXCEPT ![e] = R.sent[e]]
    BY <1>1 DEF Streaming, StreamFields
  <1>4. PICK B, K, M : /\ B = [R.bytes EXCEPT ![e] = b] /\ K = [R.pos EXCEPT ![e] = k]
                       /\ M = [R.sent EXCEPT ![e] = m]
    OBVIOUS
  <1>5. WithBuffer(R, p, e, R.bytes[e], R.pos[e], R.sent[e])
    BY <1>1, <1>2, <1>3 DEF WithBuffer
  <1>6. WithBuffer([R EXCEPT !.sent = M, !.bytes = B], p, e, b, R.pos[e], m)
    BY <1>1, <1>2, <1>3, <1>4 DEF WithBuffer
  <1>7. WithBuffer([R EXCEPT !.pos = K], p, e, R.bytes[e], k, R.sent[e])
    BY <1>1, <1>2, <1>3, <1>4 DEF WithBuffer
  <1>8. WithBuffer([R EXCEPT !.bytes = B, !.pos = K], p, e, b, k, R.sent[e])
    BY <1>1, <1>2, <1>3, <1>4 DEF WithBuffer
  <1>9. /\ [R EXCEPT !.sent = M, !.bytes = B] = [R EXCEPT !.sent[e] = m, !.bytes[e] = b]
        /\ [R EXCEPT !.pos = K] = [R EXCEPT !.pos[e] = k]
        /\ [R EXCEPT !.bytes = B, !.pos = K] = [R EXCEPT !.bytes[e] = b, !.pos[e] = k]
    BY <1>2, <1>4
  <1> QED
    BY <1>1, <1>5, <1>6, <1>7, <1>8, <1>9

(* A step that receives nothing.                                           *)
LEMMA GotKept ==
    ASSUME Streaming, NEW p \in Pairs, NEW e \in Ends, got' = got
    PROVE  Received(p, e, got[p][e])
  <1>1. got[p] = [x \in Ends |-> got[p][x]] /\ got = [q \in Pairs |-> got[q]]
    BY DEF Streaming, StreamFields, Listed, Pairs
  <1> QED
    BY <1>1 DEF Received

(* CPU c, in no call before, enters one with n bytes.                      *)
LEMMA CallEntered ==
    ASSUME Good, Streaming, NEW c \in CPU, NEW p, NEW e, NEW n \in Int,
           NEW place \in {"sent", "copied"}, pc[c] = "user", Go(c, place),
           loc' = [loc EXCEPT ![c] = [NoCall EXCEPT !.p = p, !.e = e, !.n = n]]
    PROVE  OneCall(c, p, e) /\ pc'[c] = place /\ loc'[c].n = n
  <1>1. PICK l : l = [NoCall EXCEPT !.p = p, !.e = e, !.n = n]
    OBVIOUS
  <1>2. {"e", "n"} \subseteq DOMAIN l /\ l.p = p /\ l.e = e /\ l.n = n
    BY <1>1 DEF NoCall
  <1>3. MovesTo(c, place, l) /\ pc[c] \notin {"sent", "copied"}
    BY <1>1 DEF MovesTo
  <1>31. CallOn(l, p, e)
    BY <1>2 DEF CallOn
  <1>4. OneCall(c, p, e) /\ pc'[c] = place /\ loc'[c] = l
    BY <1>2, <1>3, <1>31, CallMoves
  <1> QED
    BY <1>2, <1>4

(* CPU c returns to the user from its call.                                *)
LEMMA CallLeft ==
    ASSUME Good, Streaming, NEW c \in CPU, NEW p, NEW e, InCall(c, p, e), Go(c, "user"),
           loc' = [loc EXCEPT ![c] = NoCall]
    PROVE  OneCall(c, p, e) /\ pc'[c] = "user"
  <1>1. {"e", "n"} \subseteq DOMAIN NoCall
    BY DEF NoCall
  <1>2. "user" \notin {"sent", "copied"}
    OBVIOUS
  <1>3. PICK place : place = "user"
    OBVIOUS
  <1>4. MovesTo(c, place, NoCall) /\ place \notin {"sent", "copied"}
    BY <1>3 DEF MovesTo
  <1>5. OneCall(c, p, e) /\ pc'[c] = place
    BY <1>1, <1>4, CallMoves
  <1> QED
    BY <1>3, <1>5

-----------------------------------------------------------------------------
(* send copies into the buffer.                                            *)
LEMMA StreamSend ==
    ASSUME Good, Streaming, NEW c \in CPU, NEW n \in Limits, k_driver_send(c, n), ~wild'
    PROVE  Streaming'
  <1> DEFINE P(h) == sock[h.s].pair
             E(h) == SendsTo(h)
             pos(h) == pair[P(h)].pos[E(h)]
             k(h) == pair[P(h)].sent[E(h)]
  <1>1. PICK h \in ToSet(fds[c]) :
            /\ At(c, "user") /\ h.op # "unset" /\ ~(pos(h) + n > BufSize)
            /\ pair' = [pair EXCEPT ![P(h)].sent[E(h)] = k(h) + n,
                          ![P(h)].bytes[E(h)] = [i \in 0 .. BufSize - 1 |->
                             IF i \in pos(h) .. pos(h) + n - 1 THEN k(h) + 1 + i - pos(h) ELSE @[i]]]
            /\ loc' = [loc EXCEPT ![c] = [NoCall EXCEPT !.p = P(h), !.e = E(h), !.n = n]]
            /\ Go(c, "sent") /\ Note(c, P(h), E(h))
            /\ sock' = sock /\ got' = got
    BY ZenonT(60) DEF k_driver_send, GoWild
  <1>2. PICK p \in Pairs : p = P(h) /\ pair[p].connected
    BY <1>1, HandleUsable
  <1>3. PICK e \in Ends : e = E(h)
    BY DEF SendsTo, Ends
  <1>4. n \in Nat /\ n \in Int
    BY BoundsAssumption
  <1>5. pair[p].pos \in [Ends -> Int] /\ pair[p].sent \in [Ends -> Nat]
    BY DEF Streaming, StreamFields
  <1>6. PICK o \in Int, m \in Nat : o = pair[p].pos[e] /\ m = pair[p].sent[e]
    BY <1>5
  <1>7. PICK g, a : g = got[p][e] /\ a = pair[p].bytes[e]
    OBVIOUS
  <1>8. PICK b : b = Written(a, o, m, n)
    OBVIOUS
  <1>81. PICK t \in Nat : t = m + n
    BY <1>4, <1>6
  <1>9. PICK y : y = [pair[p] EXCEPT !.sent[e] = t, !.bytes[e] = b]
    OBVIOUS
  <1>10. Replaced(p, y)
    BY <1>1, <1>2, <1>3, <1>6, <1>7, <1>8, <1>81, <1>9 DEF Written, Replaced
  <1>11. WithBuffer(y, p, e, b, o, t)
    BY <1>6, <1>9, PairSet
  <1>12. Received(p, e, g)
    BY <1>1, <1>7, GotKept
  <1>13. /\ pc[c] = "user" /\ Go(c, "sent") /\ Note(c, p, e)
         /\ loc' = [loc EXCEPT ![c] = [NoCall EXCEPT !.p = p, !.e = e, !.n = n]]
         /\ sock' = sock /\ ~(o + n > BufSize)
    BY <1>1, <1>2, <1>3, <1>6 DEF At
  <1>14. BufferLeft(p, e, b, o, t, g)
    BY <1>10, <1>11, <1>12, BufferSet
  <1>15. OneBuffer(p, e) /\ FlagsSame
    BY <1>14 DEF BufferLeft
  <1>16. OneCall(c, p, e) /\ pc'[c] = "sent" /\ loc'[c].n = n
    BY <1>4, <1>13, CallEntered
  <1>17. WaysKept
    BY <1>13, WaysElsewhere
  <1>18. ASSUME Only(c, p, e), Stream(p, e) PROVE Stream(p, e)'
    <2>1. Content(p, e, 0, 0)
      BY <1>13, <1>18, StreamIdle
    <2>2. Flow(g, o, m, a, 0, 0)
      BY <1>6, <1>7, <2>1 DEF Content
    <2>3. BufSize \in Nat
      BY BoundsAssumption
    <2>4. o + n <= BufSize
      BY <1>4, <1>13, <2>3
    <2>5. Flow(g, o, t, b, n, 0)
      BY <1>4, <1>8, <1>81, <2>2, <2>4, FlowSend
    <2>6. Content(p, e, loc[c].n, 0)'
      BY <1>14, <1>16, <2>5 DEF Content, BufferLeft
    <2> QED
      BY <1>16, <1>18, <2>6, StreamBegun
  <1> QED
    BY <1>2, <1>13, <1>15, <1>16, <1>17, <1>18, CallStep

(* send advances the position.                                             *)
LEMMA StreamSendDone ==
    ASSUME Good, Streaming, NEW c \in CPU, SendDone(c)
    PROVE  Streaming'
  <1>1. /\ pc[c] = "sent" /\ Go(c, "user") /\ loc' = [loc EXCEPT ![c] = NoCall]
        /\ sock' = sock /\ got' = got /\ Note(c, loc[c].p, loc[c].e)
        /\ pair' = [pair EXCEPT ![loc[c].p].pos[loc[c].e] = @ + loc[c].n]
    BY DEF SendDone, At
  <1>2. PICK p \in Pairs, e \in Ends, n \in Int : /\ p = loc[c].p /\ e = loc[c].e /\ n = loc[c].n
                                                  /\ pair[p].connected
    BY <1>1 DEF Streaming, Unused
  <1>3. pair[p].pos \in [Ends -> Int] /\ pair[p].sent \in [Ends -> Nat]
        /\ pair[p].bytes = [x \in Ends |-> pair[p].bytes[x]]
    BY DEF Streaming, StreamFields
  <1>4. PICK o \in Int, m \in Nat : o = pair[p].pos[e] /\ m = pair[p].sent[e]
    BY <1>3
  <1>5. PICK g, a : g = got[p][e] /\ a = pair[p].bytes[e]
    OBVIOUS
  <1>6. PICK k \in Int : k = o + n
    OBVIOUS
  <1>7. PICK y : y = [pair[p] EXCEPT !.pos[e] = k]
    OBVIOUS
  <1>8. Replaced(p, y)
    BY <1>1, <1>2, <1>4, <1>6, <1>7 DEF Replaced
  <1>9. WithBuffer(y, p, e, a, k, m) /\ Received(p, e, g)
    BY <1>1, <1>4, <1>5, <1>7, PairSet, GotKept
  <1>10. BufferLeft(p, e, a, k, m, g)
    BY <1>8, <1>9, BufferSet
  <1>101. OneBuffer(p, e) /\ FlagsSame
    BY <1>10 DEF BufferLeft
  <1>11. InCall(c, p, e)
    BY <1>1, <1>2 DEF InCall
  <1>12. OneCall(c, p, e) /\ pc'[c] = "user"
    BY <1>1, <1>11, CallLeft
  <1>13. WaysKept
    BY <1>1, WaysElsewhere
  <1>14. ASSUME Only(c, p, e), Stream(p, e) PROVE Stream(p, e)'
    <2>1. Content(p, e, n, 0)
      BY <1>1, <1>2, <1>11, <1>14 DEF Stream
    <2>2. Flow(g, o, m, a, n, 0)
      BY <1>4, <1>5, <2>1 DEF Content
    <2>3. Flow(g, k, m, a, 0, 0)
      BY <1>6, <2>2, FlowSent
    <2>4. Content(p, e, 0, 0)'
      BY <1>10, <2>3 DEF Content, BufferLeft
    <2> QED
      BY <1>12, <1>14, <2>4, StreamEnded
  <1> QED
    BY <1>1, <1>2, <1>101, <1>12, <1>13, <1>14, CallStep

(* recv copies out of the buffer.                                          *)
LEMMA StreamRecv ==
    ASSUME Good, Streaming, NEW c \in CPU, NEW limit \in Limits, k_driver_recv(c, limit), ~wild'
    PROVE  Streaming'
  <1> DEFINE P(h) == sock[h.s].pair
             E(h) == RecvsFrom(h)
             N(h) == Min({limit, pair[P(h)].pos[E(h)]})
  <1>1. PICK h \in ToSet(fds[c]) :
            /\ At(c, "user") /\ h.op # "unset"
            /\ got' = [got EXCEPT ![P(h)][E(h)] =
                          @ \o [i \in 1 .. N(h) |-> pair[P(h)].bytes[E(h)][i - 1]]]
            /\ loc' = [loc EXCEPT ![c] = [NoCall EXCEPT !.p = P(h), !.e = E(h), !.n = N(h)]]
            /\ Go(c, "copied") /\ Note(c, P(h), E(h))
            /\ sock' = sock /\ pair' = pair
    BY ZenonT(60) DEF k_driver_recv, GoWild
  <1>2. PICK p \in Pairs : p = P(h) /\ pair[p].connected
    BY <1>1, HandleUsable
  <1>3. PICK e \in Ends : e = E(h)
    BY DEF RecvsFrom, Ends
  <1>4. limit \in Nat /\ limit \in Int
    BY BoundsAssumption
  <1>5. pair[p].pos \in [Ends -> Int] /\ pair[p].sent \in [Ends -> Nat]
        /\ pair[p].bytes = [x \in Ends |-> pair[p].bytes[x]]
    BY DEF Streaming, StreamFields
  <1>6. PICK o \in Int, m \in Nat : o = pair[p].pos[e] /\ m = pair[p].sent[e]
    BY <1>5
  <1>7. PICK g, a : g = got[p][e] /\ a = pair[p].bytes[e]
    OBVIOUS
  <1>8. PICK n : n = Min({limit, o})
    OBVIOUS
  <1>9. n \in Int /\ n \in {limit, o} /\ n <= o
    BY <1>4, <1>8, MinOfTwo
  <1>10. PICK r : r = g \o [i \in 1 .. n |-> a[i - 1]]
    OBVIOUS
  <1>11. Received(p, e, r)
    BY <1>1, <1>2, <1>3, <1>6, <1>7, <1>8, <1>10 DEF Received
  <1>12. PICK y : y = pair[p]
    OBVIOUS
  <1>13. Replaced(p, y)
    BY <1>1, <1>12 DEF Good, Shapes, Listed, Pairs, Replaced
  <1>14. WithBuffer(y, p, e, a, o, m)
    BY <1>6, <1>7, <1>12, PairSet
  <1>15. /\ pc[c] = "user" /\ Go(c, "copied") /\ Note(c, p, e) /\ sock' = sock
         /\ loc' = [loc EXCEPT ![c] = [NoCall EXCEPT !.p = p, !.e = e, !.n = n]]
    BY <1>1, <1>2, <1>3, <1>6, <1>8 DEF At
  <1>16. BufferLeft(p, e, a, o, m, r)
    BY <1>11, <1>13, <1>14, BufferSet
  <1>161. OneBuffer(p, e) /\ FlagsSame
    BY <1>16 DEF BufferLeft
  <1>17. OneCall(c, p, e) /\ pc'[c] = "copied" /\ loc'[c].n = n
    BY <1>9, <1>15, CallEntered
  <1>18. WaysKept
    BY <1>15, WaysElsewhere
  <1>19. ASSUME Only(c, p, e), Stream(p, e) PROVE Stream(p, e)'
    <2>1. Content(p, e, 0, 0)
      BY <1>15, <1>19, StreamIdle
    <2>2. Flow(g, o, m, a, 0, 0)
      BY <1>6, <1>7, <2>1 DEF Content
    <2>3. o \in Nat
      BY <2>2, FlowFacts
    <2>4. n \in Nat
      BY <1>4, <1>9, <2>3
    <2>5. Flow(r, o, m, a, 0, n)
      BY <1>9, <1>10, <2>2, <2>4, FlowRecv
    <2>6. Content(p, e, 0, loc[c].n)'
      BY <1>16, <1>17, <2>5 DEF Content, BufferLeft
    <2> QED
      BY <1>17, <1>19, <2>6, StreamBegun
  <1> QED
    BY <1>2, <1>15, <1>161, <1>17, <1>18, <1>19, CallStep

(* recv moves the rest to the front.                                       *)
LEMMA StreamRecvDone ==
    ASSUME Good, Streaming, NEW c \in CPU, RecvDone(c)
    PROVE  Streaming'
  <1>1. /\ pc[c] = "copied" /\ Go(c, "user") /\ loc' = [loc EXCEPT ![c] = NoCall]
        /\ sock' = sock /\ got' = got /\ Note(c, loc[c].p, loc[c].e)
        /\ pair' = [pair EXCEPT ![loc[c].p].bytes[loc[c].e] =
                                    memmove(@, loc[c].n, pair[loc[c].p].pos[loc[c].e] - loc[c].n),
                                ![loc[c].p].pos[loc[c].e] = @ - loc[c].n]
    BY DEF RecvDone, At
  <1>2. PICK p \in Pairs, e \in Ends, n \in Int : /\ p = loc[c].p /\ e = loc[c].e /\ n = loc[c].n
                                                  /\ pair[p].connected
    BY <1>1 DEF Streaming, Unused
  <1>3. pair[p].pos \in [Ends -> Int] /\ pair[p].sent \in [Ends -> Nat]
        /\ pair[p].bytes = [x \in Ends |-> pair[p].bytes[x]]
    BY DEF Streaming, StreamFields
  <1>4. PICK o \in Int, m \in Nat : o = pair[p].pos[e] /\ m = pair[p].sent[e]
    BY <1>3
  <1>5. PICK g, a : g = got[p][e] /\ a = pair[p].bytes[e]
    OBVIOUS
  <1>6. PICK b : b = memmove(a, n, o - n)
    OBVIOUS
  <1>7. PICK k \in Int : k = o - n
    OBVIOUS
  <1>8. PICK y : y = [pair[p] EXCEPT !.bytes[e] = b, !.pos[e] = k]
    OBVIOUS
  <1>9. Replaced(p, y)
    BY <1>1, <1>2, <1>4, <1>5, <1>6, <1>7, <1>8 DEF Replaced
  <1>10. WithBuffer(y, p, e, b, k, m) /\ Received(p, e, g)
    BY <1>1, <1>4, <1>5, <1>8, PairSet, GotKept
  <1>11. BufferLeft(p, e, b, k, m, g)
    BY <1>9, <1>10, BufferSet
  <1>111. OneBuffer(p, e) /\ FlagsSame
    BY <1>11 DEF BufferLeft
  <1>12. InCall(c, p, e)
    BY <1>1, <1>2 DEF InCall
  <1>13. OneCall(c, p, e) /\ pc'[c] = "user"
    BY <1>1, <1>12, CallLeft
  <1>14. WaysKept
    BY <1>1, WaysElsewhere
  <1>15. ASSUME Only(c, p, e), Stream(p, e) PROVE Stream(p, e)'
    <2>1. Content(p, e, 0, n)
      BY <1>1, <1>2, <1>12, <1>15 DEF Stream
    <2>2. Flow(g, o, m, a, 0, n)
      BY <1>4, <1>5, <2>1 DEF Content
    <2>3. Flow(g, k, m, b, 0, 0)
      BY <1>6, <1>7, <2>2, FlowRecvd
    <2>4. Content(p, e, 0, 0)'
      BY <1>11, <2>3 DEF Content, BufferLeft
    <2> QED
      BY <1>13, <1>15, <2>4, StreamEnded
  <1> QED
    BY <1>1, <1>2, <1>111, <1>13, <1>14, <1>15, CallStep

-----------------------------------------------------------------------------
(* No pair, and an empty backlog.                                          *)
LEMMA StreamInit == Init => StreamInv
  <1> SUFFICES ASSUME Init PROVE Streaming
    BY DEF StreamInv
  <1>1. pair = <<>> /\ got = <<>> /\ Len(pair) = 0 /\ Len(got) = 0 /\ Pairs = {}
    BY DEF Init, Pairs
  <1>2. \A c \in CPU : pc[c] = "user" /\ loc[c] = NoCall
    BY DEF Init
  <1>3. Listed(got)
    BY <1>1 DEF Listed
  <1>4. StreamFields
    BY <1>1, <1>2, <1>3 DEF StreamFields, NoCall
  <1>5. Unaccepted
    BY <1>1, <1>2 DEF Unaccepted
  <1>6. Unused
    BY <1>1, <1>2 DEF Unused
  <1>7. Streams
    BY <1>1 DEF Streams
  <1> QED
    BY <1>4, <1>5, <1>6, <1>7 DEF Streaming

(* Every step keeps the streams.                                           *)
LEMMA StreamStep == SocketInv /\ StreamInv /\ [Next]_vars => StreamInv'
  <1> SUFFICES ASSUME SocketInv, StreamInv, [Next]_vars PROVE StreamInv'
    OBVIOUS
  <1>1. CASE UNCHANGED vars
    <2>1. CASE Streaming /\ Good
      <3>1. /\ sock' = sock /\ pc' = pc /\ loc' = loc
            /\ pair' = pair /\ got' = got /\ raced' = raced
        BY <1>1 DEF vars
      <3>2. BuffersSame /\ FlagsSame
        BY <2>1, <3>1, PairsSame
      <3>3. CallsSame
        BY <2>1, <3>1 DEF CallsSame, Streaming, StreamFields
      <3>4. EntriesKept
        BY <2>1, <3>1, SocketsStay, EntriesSame
      <3>5. WaysKept
        BY <3>1 DEF WaysKept
      <3>6. StreamFields' /\ Unused' /\ Streams'
        BY <2>1, <3>2, <3>3, StreamsQuiet
      <3>7. Unaccepted'
        BY <2>1, <3>2, <3>4, <3>5, UnacceptedKept
      <3> QED
        BY <3>6, <3>7 DEF StreamInv, Streaming
    <2> QED
      BY <1>1, <2>1 DEF vars, StreamInv, SocketInv
  <1>2. CASE Next
    <2>1. PICK c \in CPU :
            \/ k_driver_cskt(c) \/ FindTail(c) \/ Link(c)
            \/ k_driver_listen(c) \/ ResetCurr(c) \/ NewBacklog(c)
            \/ k_driver_connect(c) \/ ReadCurr(c) \/ WriteCurr(c) \/ StorePair(c) \/ Connected(c)
            \/ k_driver_accept(c) \/ NewBuffers(c) \/ MarkConnected(c) \/ TakeFirst(c)
            \/ (\E n \in Limits : k_driver_send(c, n) \/ k_driver_recv(c, n))
            \/ SendDone(c) \/ RecvDone(c)
      BY <1>2 DEF Next
    <2>2. ~wild
      BY <2>1 DEF At, k_driver_cskt, FindTail, Link, k_driver_listen, ResetCurr, NewBacklog,
                  k_driver_connect, ReadCurr, WriteCurr, StorePair, Connected, k_driver_accept, NewBuffers,
                  MarkConnected, TakeFirst, k_driver_send, k_driver_recv, SendDone, RecvDone
    <2>3. CASE ~wild'
      <3>1. Good /\ Streaming
        BY <2>2 DEF SocketInv, StreamInv
      <3>2. Streaming'
        BY <2>1, <2>3, <3>1, StreamNewSocket, StreamFindTail, StreamLink, StreamListen,
           StreamResetCurr, StreamNewBacklog, StreamConnect, StreamReadCurr, StreamWriteCurr, StreamStorePair,
           StreamConnected, StreamAccept, StreamNewBuffers, StreamMarkConnected, StreamTakeFirst,
           StreamSend, StreamRecv, StreamSendDone, StreamRecvDone
      <3> QED
        BY <3>2 DEF StreamInv
    <2> QED
      BY <2>3 DEF StreamInv
  <1> QED
    BY <1>1, <1>2

(* StreamsOrdered holds on any number of CPUs: until two calls overlap on  *)
(* a buffer, what recv has given out and what the buffer still has are the *)
(* bytes sent, in order, whatever the memmove of each recv has shifted.    *)
THEOREM SocketStreamsOrdered == Spec => []StreamsOrdered
  <1>1. Spec => []SocketInv
    BY SocketsInit, SocketsStep, PTL DEF Spec
  <1>2. Spec => []StreamInv
    BY <1>1, StreamInit, StreamStep, PTL DEF Spec
  <1>3. SocketInv /\ StreamInv => StreamsOrdered
    <2> DEFINE Idle(p, e) == \A c \in CPU : loc[c].p = p /\ loc[c].e = e =>
                                 pc[c] \notin {"sent", "copied"}
    <2> SUFFICES ASSUME Good, Streaming, NEW p \in DOMAIN pair, NEW e \in Ends,
                        <<p, e>> \notin raced, Idle(p, e)
                 PROVE  got[p][e] \o [i \in 1 .. pair[p].pos[e] |-> pair[p].bytes[e][i - 1]]
                            = [i \in 1 .. pair[p].sent[e] |-> i]
      BY DEF SocketInv, StreamInv, StreamsOrdered
    <2>1. p \in Pairs
      BY DEF Good, Shapes, Listed, Pairs
    <2>2. \A c \in CPU : ~InCall(c, p, e)
      BY DEF InCall
    <2>3. Stream(p, e)
      BY <2>1 DEF Streaming, Streams
    <2>4. Content(p, e, 0, 0)
      BY <2>2, <2>3, Zenon DEF Stream
    <2>5. InOrder(got[p][e], pair[p].pos[e], pair[p].sent[e], pair[p].bytes[e])
      BY <2>4, FlowShown DEF Content
    <2> QED
      BY <2>5 DEF InOrder
  <1> QED
    BY <1>1, <1>2, <1>3, PTL
=============================================================================
