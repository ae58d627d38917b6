------------------------------- MODULE Socket -------------------------------
(***************************************************************************)
(* AF_UNIX stream endpoints (src/socket.rs).  Every operation runs under   *)
(* STATE's lock and is a function of the table of endpoints                *)
(*     e = [Endpoints -> endpoint or None]                                 *)
(* and, where it moves SCM_RIGHTS references, of the Shm table.  There is  *)
(* one path in the system, so LISTENERS is the endpoint in role            *)
(* "listening".  "owner" is history: who created or connected an endpoint. *)
(***************************************************************************)
EXTENDS Shm

CONSTANT Endpoints      \* slots of STATE.endpoints, 0..n-1 (bound)

SockEmpty == [i \in Endpoints |-> None]

Endpoint(role, peer, owner) ==
    [role |-> role, peer |-> peer, inbox |-> <<>>, fds |-> <<>>,
     backlog |-> <<>>, owner |-> owner]

SockLive(e, id) == id \in Endpoints /\ e[id] # None

\* alloc_endpoint: the first free slot
SockFreeIds(e) == {i \in Endpoints : e[i] = None}
SockNext(e) == CHOOSE i \in SockFreeIds(e) : \A j \in SockFreeIds(e) : i <= j

\* create
SockCreate(e, owner) == [e EXCEPT ![SockNext(e)] = Endpoint("idle", None, owner)]

\* LISTENERS, for the one path there is
Listeners(e) == {i \in Endpoints : e[i] # None /\ e[i].role = "listening"}

\* bind (refused when the path is taken), listen
SockBind(e, id) ==
    [e EXCEPT ![id].role = IF @ = "idle" /\ Listeners(e) = {} THEN "bound" ELSE @]
SockListen(e, id) == [e EXCEPT ![id].role = IF @ = "bound" THEN "listening" ELSE @]

\* Mutant: the client is paired with the connection at the head of the backlog.
SockConnect_HeadOfBacklog(e, id) ==
    LET srv == SockNext(e)
        queue == e[CHOOSE i \in Listeners(e) : TRUE].backlog
    IN  [i \in Endpoints |->
            CASE i = srv -> Endpoint("connected", id, e[id].owner)
              [] i = id -> [e[i] EXCEPT !.role = "connected",
                                        !.peer = Head(Append(queue, srv))]
              [] i \in Listeners(e) -> [e[i] EXCEPT !.backlog = Append(@, srv)]
              [] OTHER  -> e[i]]

\* connect: a server-side endpoint is created, queued on the backlog and
\* paired with id, whatever id's role was.  No listener: refused.
SockConnect(e, id) ==
    LET srv == SockNext(e)
    IN  [i \in Endpoints |->
            CASE i = srv -> Endpoint("connected", id, e[id].owner)
              [] i = id -> [e[i] EXCEPT !.role = "connected", !.peer = srv]
              [] i \in Listeners(e) -> [e[i] EXCEPT !.backlog = Append(@, srv)]
              [] OTHER  -> e[i]]

\* peer_of
PeerOf(e, id) ==
    IF SockLive(e, id) /\ e[id].role = "connected" THEN e[id].peer ELSE None

\* send succeeds when the slot of the peer is occupied.
SockCanSend(e, id) == SockLive(e, PeerOf(e, id))

SockSend(e, id, msg, fds) ==
    IF SockCanSend(e, id)
    THEN [e EXCEPT ![PeerOf(e, id)].inbox = Append(@, msg),
                   ![PeerOf(e, id)].fds = @ \o fds]
    ELSE e

\* Mutant: SCM_RIGHTS passes the id without taking a reference.
SockSendShm_NoDup(e, t, id, fds) == t

\* The references send takes for the fds it passes (and drops again when the
\* peer is gone).
SockSendShm(e, t, id, fds) == IF SockCanSend(e, id) THEN ShmDupAll(t, fds) ELSE t

\* recv with a buffer that holds all pending bytes: drains bytes and fds.
SockRecv(e, id) ==
    IF SockLive(e, id) THEN [e EXCEPT ![id].inbox = <<>>, ![id].fds = <<>>] ELSE e

\* close: references still in flight to it are dropped, the slot is freed;
\* the peer is not told.
SockClose(e, id) == [e EXCEPT ![id] = None]
SockCloseShm(e, t, id) == IF SockLive(e, id) THEN ShmCloseAll(t, e[id].fds) ELSE t
==============================================================================
