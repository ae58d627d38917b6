------------------------------- MODULE Wayland -------------------------------
(***************************************************************************)
(* The compositor task (src/wayland.rs) serving Linux-ABI clients over     *)
(* AF_UNIX sockets and shared memory: Shm and Socket composed with the     *)
(* compositor's client_session, with the client program of the repository  *)
(* (user/src/bin/prog_linux_wayland_client.rs) and with the kernel's       *)
(* killing and reaping of client processes.                                *)
(*                                                                         *)
(* A step is one system call of a client (interrupts are off in it) or one *)
(* call of the compositor into socket.rs or shm.rs (one critical section   *)
(* of STATE or TABLE).  A message is its size and the client it is for or  *)
(* from.                                                                   *)
(***************************************************************************)
EXTENDS Socket

CONSTANTS
    Procs,      \* client processes
    Mortal,     \* those that may be killed or reaped in mid-handshake
    Rogue,      \* those that may issue calls outside the script
    StrayPoints,\* points of the script where those happen (bound)
    MaxPages,   \* largest ftruncate, in pages (bound)
    MaxStrays,  \* kills and calls outside the script in a behaviour (bound)
    MaxSpawns   \* programs started in a behaviour (bound)

ASSUME ClientsAssumption ==
    /\ Mortal \subseteq Procs /\ Rogue \subseteq Procs
    /\ ShmIds \subseteq Nat /\ Endpoints \subseteq Nat
    /\ {MaxPages, MaxStrays, MaxSpawns} \subseteq Nat
    /\ Blocks \subseteq Nat /\ None \notin Procs

VARIABLES
    shm,        \* shm.rs TABLE and the PMM's free blocks
    sock,       \* socket.rs STATE.endpoints
    at,         \* each client's position in Script; 0 absent, Zombie exited
    memfd,      \* each client's FdEntry::Shm (fd 3)
    sockfd,     \* each client's FdEntry::Socket (fd 4)
    mapped,     \* the block of each client's MAP_SHARED mapping
    got,        \* global events each client has read
    comp,       \* the compositor task: pc, session step, ConnReader, pool
    rendered,   \* clients whose frame was presented (FRAMES_RENDERED)
    spawns,     \* programs started so far
    strays      \* history: kills and calls outside the script so far

vars == <<shm, sock, at, memfd, sockfd, mapped, got, comp, rendered, spawns, strays>>
client == <<at, memfd, sockfd, mapped, got>>

(***************************************************************************)
(* The client program                                                      *)
(***************************************************************************)
Sys(op)  == [op |-> op, size |-> 0]
Send(sz) == [op |-> "send", size |-> sz]
Pool     == [op |-> "sendmsg", size |-> 16]

Script == << Sys("memfd"), Sys("ftruncate"), Sys("mmap"), Sys("socket"),
             Sys("connect"), Send(12), Sys("globals"), Send(16), Pool,
             Send(32), Send(16), Send(12), Send(20), Send(8),
             Sys("closesock"), Sys("closemem"), Sys("exit") >>

Zombie == Len(Script) + 1
Alive(p) == at[p] \in 1..Len(Script)
Does(p, op) == Alive(p) /\ Script[at[p]].op = op
Committed(p) == at[p] > 14
Advance(p) == at' = [at EXCEPT ![p] = @ + 1]

\* Mutant: the session expects commit before attach.
Expect_CommitFirst == <<12, 16, 16, 32, 16, 12, 8, 20>>

\* client_session: the size each step's header must carry.
Expect == <<12, 16, 16, 32, 16, 12, 20, 8>>

Idle == [pc |-> "create", step |-> 1, listener |-> None, conn |-> None,
         buf |-> <<>>, fds |-> <<>>, pool |-> None, block |-> None]

Init ==
    /\ shm = ShmEmpty /\ sock = SockEmpty
    /\ at = [p \in Procs |-> 0]
    /\ memfd = [p \in Procs |-> None] /\ sockfd = [p \in Procs |-> None]
    /\ mapped = [p \in Procs |-> None] /\ got = [p \in Procs |-> 0]
    /\ comp = Idle
    /\ rendered = {} /\ spawns = 0 /\ strays = 0

\* spawn_linux: the shell starts the program.
Spawn(p) ==
    /\ at[p] = 0 /\ spawns < MaxSpawns
    /\ spawns' = spawns + 1
    /\ at' = [at EXCEPT ![p] = 1]
    /\ rendered' = rendered \ {p}
    /\ UNCHANGED <<shm, sock, memfd, sockfd, mapped, got, comp, strays>>

\* sys_memfd_create
MemfdCreate(p) ==
    /\ Does(p, "memfd") /\ ShmFreeIds(shm) # {}
    /\ shm' = ShmCreate(shm)
    /\ memfd' = [memfd EXCEPT ![p] = ShmNext(shm)]
    /\ Advance(p)
    /\ UNCHANGED <<sock, sockfd, mapped, got, comp, rendered, spawns, strays>>

\* sys_ftruncate to n pages.  Growing fails (ENOMEM, which the client
\* survives) when there is no free block, or when everything else that takes
\* frames from the PMM has left none.
Truncate(p, n) ==
    \/ shm' = ShmTruncate(shm, memfd[p], n)
    \/ n > shm.tab[memfd[p]].pages /\ UNCHANGED shm

Ftruncate(p) ==
    /\ Does(p, "ftruncate")
    /\ Truncate(p, 1)
    /\ Advance(p)
    /\ UNCHANGED <<sock, memfd, sockfd, mapped, got, comp, rendered, spawns, strays>>

\* sys_mmap(MAP_SHARED), then painting the pool: with no block behind the
\* object mmap fails and the first store faults, which kills the process.
MmapShared(p) ==
    /\ Does(p, "mmap")
    /\ IF shm.tab[memfd[p]].pages = 0
       THEN at' = [at EXCEPT ![p] = Zombie] /\ UNCHANGED mapped
       ELSE Advance(p) /\ mapped' = [mapped EXCEPT ![p] = shm.tab[memfd[p]].block]
    /\ UNCHANGED <<shm, sock, memfd, sockfd, got, comp, rendered, spawns, strays>>

\* sys_socket
SocketCreate(p) ==
    /\ Does(p, "socket") /\ SockFreeIds(sock) # {}
    /\ sock' = SockCreate(sock, p)
    /\ sockfd' = [sockfd EXCEPT ![p] = SockNext(sock)]
    /\ Advance(p)
    /\ UNCHANGED <<shm, memfd, mapped, got, comp, rendered, spawns, strays>>

\* sys_connect: ECONNREFUSED, which the client ignores, before the
\* compositor listens.
Connect(p) ==
    /\ Does(p, "connect") /\ SockFreeIds(sock) # {}
    /\ sock' = IF Listeners(sock) = {} THEN sock ELSE SockConnect(sock, sockfd[p])
    /\ Advance(p)
    /\ UNCHANGED <<shm, memfd, sockfd, mapped, got, comp, rendered, spawns, strays>>

\* sys_write on a socket
Write(p) ==
    /\ Does(p, "send")
    /\ sock' = SockSend(sock, sockfd[p], [size |-> Script[at[p]].size, who |-> p], <<>>)
    /\ Advance(p)
    /\ UNCHANGED <<shm, memfd, sockfd, mapped, got, comp, rendered, spawns, strays>>

\* sys_sendmsg carrying the memfd; a closed memfd resolves to no fd.
PassedFds(p) == IF memfd[p] = None THEN <<>> ELSE <<memfd[p]>>

Sendmsg(p) ==
    /\ Does(p, "sendmsg")
    /\ sock' = SockSend(sock, sockfd[p], [size |-> Script[at[p]].size, who |-> p],
                        PassedFds(p))
    /\ shm' = SockSendShm(sock, shm, sockfd[p], PassedFds(p))
    /\ Advance(p)
    /\ UNCHANGED <<memfd, sockfd, mapped, got, comp, rendered, spawns, strays>>

\* recv_at_least: one polling read; both events make up the 59 bytes.
ReadGlobals(p) ==
    /\ Does(p, "globals")
    /\ sock[sockfd[p]].inbox # <<>>
    /\ LET n == got[p] + Len(sock[sockfd[p]].inbox)
       IN  /\ got' = [got EXCEPT ![p] = IF n >= 2 THEN 0 ELSE n]
           /\ IF n >= 2 THEN Advance(p) ELSE UNCHANGED at
    /\ sock' = SockRecv(sock, sockfd[p])
    /\ UNCHANGED <<shm, memfd, sockfd, mapped, comp, rendered, spawns, strays>>

\* sys_close: the FdEntry is dropped.
CloseSockfd(p) ==
    /\ shm' = SockCloseShm(sock, shm, sockfd[p])
    /\ sock' = SockClose(sock, sockfd[p])
    /\ sockfd' = [sockfd EXCEPT ![p] = None]

CloseMemfd(p) ==
    /\ shm' = ShmClose(shm, memfd[p])
    /\ memfd' = [memfd EXCEPT ![p] = None]

CloseSock(p) ==
    /\ Does(p, "closesock")
    /\ CloseSockfd(p)
    /\ Advance(p)
    /\ UNCHANGED <<memfd, mapped, got, comp, rendered, spawns, strays>>

CloseMem(p) ==
    /\ Does(p, "closemem")
    /\ IF memfd[p] = None THEN UNCHANGED <<shm, memfd>> ELSE CloseMemfd(p)
    /\ Advance(p)
    /\ UNCHANGED <<sock, sockfd, mapped, got, comp, rendered, spawns, strays>>

\* sys_exit
Exit(p) ==
    /\ Does(p, "exit")
    /\ Advance(p)
    /\ UNCHANGED <<shm, sock, memfd, sockfd, mapped, got, comp, rendered, spawns, strays>>

ClientStep(p) ==
    \/ MemfdCreate(p) \/ Ftruncate(p) \/ MmapShared(p) \/ SocketCreate(p)
    \/ Connect(p) \/ Write(p) \/ Sendmsg(p) \/ ReadGlobals(p)
    \/ CloseSock(p) \/ CloseMem(p) \/ Exit(p)

Stray(p) == /\ at[p] \in StrayPoints /\ strays < MaxStrays
            /\ strays' = strays + 1

\* Calls outside the script: ftruncate again; or a message no step expects, or
\* create_pool without its fd, after which the client hangs up.
Retruncate(p, n) ==
    /\ p \in Rogue /\ Alive(p) /\ memfd[p] # None
    /\ Truncate(p, n)
    /\ Stray(p)
    /\ UNCHANGED <<sock, client, comp, rendered, spawns>>

Misstep(p, size) ==
    /\ p \in Rogue /\ Alive(p) /\ sockfd[p] # None
    /\ sock' = SockSend(sock, sockfd[p], [size |-> size, who |-> p], <<>>)
    /\ at' = [at EXCEPT ![p] = 15]
    /\ Stray(p)
    /\ UNCHANGED <<shm, memfd, sockfd, mapped, got, comp, rendered, spawns>>

RogueStep(p) ==
    \/ \E n \in 0..MaxPages : Retruncate(p, n)
    \/ \E size \in {4, 16} : Misstep(p, size)

\* kill_current_exception, or the shell giving up on a timed-out process.
Kill(p) ==
    /\ p \in Mortal /\ Alive(p)
    /\ at' = [at EXCEPT ![p] = Zombie]
    /\ Stray(p)
    /\ UNCHANGED <<shm, sock, memfd, sockfd, mapped, got, comp, rendered, spawns>>

\* reap: the Process is dropped, its fds in table order, each under its own
\* lock; its page tables go with it.
Reap(p) ==
    /\ at[p] = Zombie
    /\ \/ /\ memfd[p] # None
          /\ CloseMemfd(p)
          /\ UNCHANGED <<sock, at, sockfd, mapped, got>>
       \/ /\ memfd[p] = None /\ sockfd[p] # None
          /\ CloseSockfd(p)
          /\ UNCHANGED <<at, memfd, mapped, got>>
       \/ /\ memfd[p] = None /\ sockfd[p] = None
          /\ at' = [at EXCEPT ![p] = 0]
          /\ mapped' = [mapped EXCEPT ![p] = None]
          /\ got' = [got EXCEPT ![p] = 0]
          /\ UNCHANGED <<shm, sock, memfd, sockfd>>
    /\ UNCHANGED <<comp, rendered, spawns, strays>>

(***************************************************************************)
(* The compositor task                                                     *)
(***************************************************************************)
At(pc) == comp.pc = pc

\* compositor_main: create, bind, listen
StartListening ==
    /\ \/ /\ At("create") /\ SockFreeIds(sock) # {}
          /\ sock' = SockCreate(sock, None)
          /\ comp' = [comp EXCEPT !.pc = "bind", !.listener = SockNext(sock)]
       \/ /\ At("bind")
          /\ sock' = SockBind(sock, comp.listener)
          /\ comp' = [comp EXCEPT !.pc = "listen"]
       \/ /\ At("listen")
          /\ sock' = SockListen(sock, comp.listener)
          /\ comp' = [comp EXCEPT !.pc = "accept"]
    /\ UNCHANGED <<shm, client, rendered, spawns, strays>>

\* accept_blocking finding a connection; a new ConnReader
Accept ==
    /\ At("accept")
    /\ sock[comp.listener].backlog # <<>>
    /\ sock' = [sock EXCEPT ![comp.listener].backlog = Tail(@)]
    /\ comp' = [Idle EXCEPT !.pc = "read", !.listener = comp.listener,
                            !.conn = Head(sock[comp.listener].backlog)]
    /\ UNCHANGED <<shm, client, rendered, spawns, strays>>

\* client_session from comp.step on, as far as the buffered messages go and no
\* further than its next call: k messages have the header size their step
\* wants (and create_pool its fd).  The message after them, if it is read at
\* all, makes the session return at once; nothing taken is given back.
ReadMessages(msgs, fds) ==
    LET step == comp.step
        limit == IF step = 1 THEN 1 ELSE 9 - step
        good(j) == /\ msgs[j].size = Expect[step + j - 1]
                   /\ step + j - 1 = 3 => fds # <<>>
        k == CHOOSE n \in 0..limit :
                /\ n <= Len(msgs) /\ \A j \in 1..n : good(j)
                /\ n = limit \/ n = Len(msgs) \/ ~good(n + 1)
        pool == step <= 3 /\ step + k > 3
    IN  [comp EXCEPT !.pc = CASE k = limit -> IF step = 1 THEN "global1" ELSE "render"
                              [] k < limit /\ k < Len(msgs) -> "close"
                              [] OTHER -> "read",
                     !.step = IF k = limit /\ step > 1 THEN 8 ELSE step + k,
                     !.buf = SubSeq(msgs, k + 1, Len(msgs)),
                     !.pool = IF pool THEN Head(fds) ELSE @,
                     !.fds = IF pool THEN Tail(fds) ELSE fds]

\* fill_to: one recv that returns bytes, and the session up to its next call.
\* With no bytes fill_to halts and retries.
Fill ==
    /\ At("read")
    /\ sock[comp.conn].inbox # <<>>
    /\ sock' = SockRecv(sock, comp.conn)
    /\ comp' = ReadMessages(sock[comp.conn].inbox, comp.fds \o sock[comp.conn].fds)
    /\ UNCHANGED <<shm, client, rendered, spawns, strays>>

\* send_global, twice; then the session goes on with what it has buffered.
SendGlobal ==
    /\ At("global1") \/ At("global2")
    /\ sock' = SockSend(sock, comp.conn,
                        [size |-> 0, who |-> sock[comp.conn].owner], <<>>)
    /\ comp' = IF At("global1")
               THEN [comp EXCEPT !.pc = "global2"]
               ELSE ReadMessages(comp.buf, comp.fds)
    /\ UNCHANGED <<shm, client, rendered, spawns, strays>>

\* Mutant: the session's reference is dropped before the pixels are copied.
RenderBegin_DropFirst ==
    /\ At("render")
    /\ comp' = [comp EXCEPT !.pc = "blit", !.block = shm.tab[comp.pool].block]
    /\ shm' = ShmClose(shm, comp.pool)
    /\ UNCHANGED <<sock, client, rendered, spawns, strays>>

\* render: the physical address is read under the lock ...
RenderBegin ==
    /\ At("render")
    /\ comp' = IF ShmLive(shm, comp.pool)
               THEN [comp EXCEPT !.pc = "blit", !.block = shm.tab[comp.pool].block]
               ELSE [comp EXCEPT !.pc = "drop"]
    /\ UNCHANGED <<shm, sock, client, rendered, spawns, strays>>

\* ... and the pixels are copied and presented without it.
RenderEnd ==
    /\ At("blit")
    /\ rendered' = rendered \cup {sock[comp.conn].owner}
    /\ comp' = [comp EXCEPT !.pc = "drop", !.block = None]
    /\ UNCHANGED <<shm, sock, client, spawns, strays>>

\* Mutant: a session that ran to its end keeps its reference.
DropPool_Leaks ==
    /\ At("drop")
    /\ comp' = [comp EXCEPT !.pc = "close", !.pool = None]
    /\ UNCHANGED <<shm, sock, client, rendered, spawns, strays>>

\* shm::close of the session's reference
DropPool ==
    /\ At("drop")
    /\ shm' = ShmClose(shm, comp.pool)
    /\ comp' = [comp EXCEPT !.pc = "close", !.pool = None]
    /\ UNCHANGED <<sock, client, rendered, spawns, strays>>

\* socket::close(conn), and back to accept
CloseConn ==
    /\ At("close")
    /\ shm' = SockCloseShm(sock, shm, comp.conn)
    /\ sock' = SockClose(sock, comp.conn)
    /\ comp' = [Idle EXCEPT !.pc = "accept", !.listener = comp.listener]
    /\ UNCHANGED <<client, rendered, spawns, strays>>

Compositor ==
    \/ StartListening \/ Accept \/ Fill \/ SendGlobal
    \/ RenderBegin \/ RenderEnd \/ DropPool \/ CloseConn

Next ==
    \/ Compositor
    \/ \E p \in Procs : \/ Spawn(p) \/ ClientStep(p) \/ RogueStep(p)
                        \/ Kill(p) \/ Reap(p)

\* The scheduler gives every task turns, and the shell reaps what exited.
Fairness ==
    /\ WF_vars(Compositor)
    /\ \A p \in Procs : WF_vars(ClientStep(p)) /\ WF_vars(Reap(p))

Spec == Init /\ [][Next]_vars
FairSpec == Spec /\ Fairness

(***************************************************************************)
(* Properties                                                              *)
(***************************************************************************)
\* The references to object i: open memfds, fds in flight in an inbox, fds
\* the compositor has received, and its pool.
Holders(i) ==
    LET occurrences(s) == Cardinality({k \in DOMAIN s : s[k] = i})
    IN  Cardinality({p \in Procs : memfd[p] = i})
        + occurrences(comp.fds) + (IF comp.pool = i THEN 1 ELSE 0)
        + MapThenSumSet(LAMBDA e : IF sock[e] = None THEN 0 ELSE occurrences(sock[e].fds),
                        Endpoints)

\* dup and close keep an object alive while any fd refers to it, in a table,
\* in flight or in the compositor, whatever clients do and however they die.
NoDanglingShm ==
    \A i \in ShmIds : Holders(i) > 0 => shm.tab[i] # None /\ shm.tab[i].refs >= Holders(i)

\* No physical block backs two objects, or backs one and is free: truncate
\* and close give back each block once, and only when no object has it.
BlocksDisjoint ==
    \A i, j \in ShmIds : shm.tab[i] # None /\ shm.tab[i].block # None =>
        /\ shm.tab[i].block \notin shm.free
        /\ i # j /\ shm.tab[j] # None => shm.tab[i].block # shm.tab[j].block

\* While every client follows the script, references are neither leaked nor
\* lost: an object is live exactly while it has holders, and counts them.
RefsExact ==
    strays = 0 => \A i \in ShmIds :
        IF shm.tab[i] = None THEN Holders(i) = 0 ELSE shm.tab[i].refs = Holders(i)

\* While every client follows the script, what waits in an endpoint's inbox
\* belongs to the connection of that endpoint, although close never tells
\* the peer and alloc_endpoint reuses the slot a peer still points to.
NoCrossTalk ==
    strays = 0 => \A i \in Endpoints : sock[i] # None =>
        \A k \in DOMAIN sock[i].inbox : sock[i].inbox[k].who = sock[i].owner

\* While every client follows the script, the pixels render copies without
\* the lock are those of the client's object: its block is neither freed nor
\* replaced, even when the client closes everything and exits meanwhile.
RenderReadsLive ==
    strays = 0 /\ At("blit") =>
        /\ ShmLive(shm, comp.pool) /\ shm.tab[comp.pool].block = comp.block
        /\ comp.block \notin shm.free

\* A client that sent commit sees its frame presented, however many other
\* clients queue, as long as all follow the script.
CommitRendered ==
    \A p \in Procs : (Committed(p) /\ at[p] # Zombie) ~> (p \in rendered \/ strays > 0)

\* "keeps a second call from corrupting a live mapping" (shm.rs:56-63): while
\* a client holds its memfd open, the frames it has mapped are the object's.
MappingSurvivesTruncate ==
    \A p \in Procs : Alive(p) /\ memfd[p] # None /\ mapped[p] # None =>
        mapped[p] = shm.tab[memfd[p]].block
==============================================================================
