--------------------------------- MODULE WsHub ---------------------------------
(***************************************************************************)
(* The WebSocket hub (crates/turbine-core/src/websocket.rs) as the /_/ws/  *)
(* handlers of admin.rs call it: publish, and the session task that pumps  *)
(* the frames of a tokio broadcast channel to one client.                  *)
(*                                                                         *)
(* Frames are numbered in the order of send; a broadcast channel keeps the *)
(* last channel_capacity of them and every receiver has a position.        *)
(***************************************************************************)
EXTENDS Integers, Sequences, FiniteSets

CONSTANTS
    Publishers,        \* handlers of POST /_/ws/publish
    Sessions,          \* upgrade requests and their session tasks
    WsChannels,        \* names of channels
    WsRoutes,          \* who names which channel: the cases considered
    ws_max_channels,
    channel_capacity   \* rounded up to a power of two by tokio

ASSUME WsAssumption ==
    /\ Publishers \intersect Sessions = {}
    /\ WsRoutes \subseteq [Publishers \union Sessions -> WsChannels]
    /\ ws_max_channels \in Nat /\ channel_capacity \in Nat \ {0}

WsTasks == Publishers \union Sessions

VARIABLES
    hub,    \* keys of the channel map
    tail,   \* per channel: frames sent so far
    room,   \* task: the channel it names
    wpc,    \* task: step
    pos,    \* session: number of the next frame it will look for
    since,  \* session: the channel's tail when it subscribed
    got     \* session: numbers of the frames handed to the client

wsVars == <<hub, tail, room, wpc, pos, since, got>>

WsInit ==
    /\ hub = {}
    /\ tail = [c \in WsChannels |-> 0]
    /\ room \in WsRoutes
    /\ wpc = [t \in WsTasks |-> "channel"]
    /\ pos = [s \in Sessions |-> 0]
    /\ since = [s \in Sessions |-> 0]
    /\ got = [s \in Sessions |-> <<>>]

Go(t, label) == wpc' = [wpc EXCEPT ![t] = label]

\* The session still owns its broadcast::Receiver.
Listening(s) == wpc[s] \in {"upgrade", "select", "sending", "closing"}

receiver_count(c) == Cardinality({s \in Sessions : room[s] = c /\ Listening(s)})

----------------------------------------------------------------------------
(***************************************************************************)
(* channel(name)                                                           *)
(***************************************************************************)
WsFound(t) ==
    /\ wpc[t] = "channel" /\ room[t] \in hub
    /\ Go(t, IF t \in Publishers THEN "send" ELSE "subscribe")
    /\ UNCHANGED <<hub, tail, room, pos, since, got>>

WsMissing(t) ==
    /\ wpc[t] = "channel" /\ room[t] \notin hub
    /\ Go(t, IF Cardinality(hub) >= ws_max_channels THEN "closed" ELSE "open")
    /\ UNCHANGED <<hub, tail, room, pos, since, got>>

\* entry(name).or_insert(tx)
WsOpen(t) ==
    /\ wpc[t] = "open"
    /\ hub' = hub \union {room[t]}
    /\ Go(t, IF t \in Publishers THEN "send" ELSE "subscribe")
    /\ UNCHANGED <<tail, room, pos, since, got>>

\* publish: without a receiver send fails and the frame is gone.
WsSend(p) ==
    /\ wpc[p] = "send"
    /\ tail' = IF receiver_count(room[p]) = 0 THEN tail
               ELSE [tail EXCEPT ![room[p]] = @ + 1]
    /\ Go(p, "closed")
    /\ UNCHANGED <<hub, room, pos, since, got>>

----------------------------------------------------------------------------
(***************************************************************************)
(* handle_ws_upgrade and run_ws_session                                    *)
(***************************************************************************)
\* The receiver exists before the 101 response is released.
WsSubscribe(s) ==
    /\ wpc[s] = "subscribe"
    /\ pos' = [pos EXCEPT ![s] = tail[room[s]]]
    /\ since' = [since EXCEPT ![s] = tail[room[s]]]
    /\ Go(s, "upgrade")
    /\ UNCHANGED <<hub, tail, room, got>>

\* hyper::upgrade::on
WsUpgraded(s) ==
    /\ wpc[s] = "upgrade"
    /\ Go(s, "select")
    /\ UNCHANGED <<hub, tail, room, pos, since, got>>

Behind(s) == tail[room[s]] - pos[s]

WsForward(s) ==
    /\ wpc[s] = "select"
    /\ Behind(s) \in 1 .. channel_capacity
    /\ got' = [got EXCEPT ![s] = Append(@, pos[s])]
    /\ pos' = [pos EXCEPT ![s] = @ + 1]
    /\ Go(s, "sending")
    /\ UNCHANGED <<hub, tail, room, since>>

\* Mutant: a lagging session goes on with the oldest frame that is left.
WsLaggedSkips(s) ==
    /\ wpc[s] = "select" /\ Behind(s) > channel_capacity
    /\ pos' = [pos EXCEPT ![s] = tail[room[s]] - channel_capacity]
    /\ UNCHANGED <<hub, tail, room, wpc, since, got>>

\* RecvError::Lagged: the client is told and, once that is sent, the session
\* ends.
WsLagged(s) ==
    /\ wpc[s] = "select" /\ Behind(s) > channel_capacity
    /\ Go(s, "closing")
    /\ UNCHANGED <<hub, tail, room, pos, since, got>>

\* A ping is answered; the pong is awaited like a frame.
WsPing(s) ==
    /\ wpc[s] = "select"
    /\ Go(s, "sending")
    /\ UNCHANGED <<hub, tail, room, pos, since, got>>

WsSent(s) ==
    /\ wpc[s] = "sending"
    /\ Go(s, "select")
    /\ UNCHANGED <<hub, tail, room, pos, since, got>>

\* A failed upgrade, a close frame, the idle timeout, an error of the
\* socket, the end of closing: the receiver is dropped.
WsClose(s) ==
    /\ Listening(s)
    /\ Go(s, "closed")
    /\ UNCHANGED <<hub, tail, room, pos, since, got>>

----------------------------------------------------------------------------
Channel(t) == WsFound(t) \/ WsMissing(t) \/ WsOpen(t)

Session(s) ==
    \/ WsSubscribe(s) \/ WsUpgraded(s)
    \/ WsForward(s) \/ WsLagged(s) \/ WsPing(s) \/ WsSent(s)

WsNext ==
    \/ \E t \in WsTasks : Channel(t)
    \/ \E p \in Publishers : WsSend(p)
    \/ \E s \in Sessions : Session(s) \/ WsClose(s)

WsSpec == WsInit /\ [][WsNext]_wsVars

----------------------------------------------------------------------------
WsTypeOK ==
    /\ hub \subseteq WsChannels
    /\ tail \in [WsChannels -> Nat]
    /\ room \in [WsTasks -> WsChannels]
    /\ wpc \in [WsTasks -> {"channel", "open", "send", "subscribe", "upgrade",
                            "select", "sending", "closing", "closed"}]
    /\ pos \in [Sessions -> Nat] /\ since \in [Sessions -> Nat]
    /\ got \in [Sessions -> Seq(Nat)]

\* Clients "receive every payload that is later published": what a session
\* has handed to its client is, without a gap and in order, everything sent
\* since it subscribed, however far the client falls behind; a session that
\* cannot keep this up ends.
NoSilentGap ==
    \A s \in Sessions :
        /\ Len(got[s]) = pos[s] - since[s]
        /\ \A k \in 1 .. Len(got[s]) : got[s][k] = since[s] + k - 1
        /\ pos[s] <= tail[room[s]]

============================================================================
