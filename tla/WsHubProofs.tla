----------------------------- MODULE WsHubProofs -----------------------------
(***************************************************************************)
(* What a WebSocket session hands to its client, for any number of         *)
(* sessions, publishers and channels and any capacity.                     *)
(***************************************************************************)
EXTENDS WsHub, TLAPS

\* Nothing is handed on before the session has subscribed.
NothingEarly ==
    \A s \in Sessions :
        wpc[s] \in {"channel", "open", "subscribe"} => got[s] = <<>>

\* Only a session takes a session's steps.
SessionsDoNotSend == \A s \in Sessions : wpc[s] # "send"

GapInv == WsTypeOK /\ NothingEarly /\ SessionsDoNotSend /\ NoSilentGap

\* The inductive invariant holds before the first request.
LEMMA WsInitInv == WsInit => GapInv
<1>. SUFFICES ASSUME WsInit PROVE GapInv
  OBVIOUS
<1>1. WsTypeOK
  BY WsAssumption DEF WsInit, WsTypeOK, WsTasks
<1>2. NothingEarly /\ SessionsDoNotSend /\ NoSilentGap
  BY <1>1, WsAssumption DEF WsInit, NothingEarly, SessionsDoNotSend,
     NoSilentGap, WsTypeOK, WsTasks
<1>. QED
  BY <1>1, <1>2 DEF GapInv

\* Every step of a publisher or a session keeps it.
LEMMA WsStepInv == GapInv /\ [WsNext]_wsVars => GapInv'
<1>. SUFFICES ASSUME GapInv, [WsNext]_wsVars PROVE GapInv'
  OBVIOUS
<1>. USE DEF GapInv, NothingEarly, SessionsDoNotSend, NoSilentGap, WsTypeOK,
             WsTasks, Go
\* Steps that leave the frames and every receiver where they are.
<1>1. ASSUME NEW t \in WsTasks, Channel(t) PROVE GapInv'
  <2>1. /\ UNCHANGED <<tail, room, pos, since, got>>
        /\ hub' \subseteq WsChannels
    BY <1>1 DEF Channel, WsFound, WsMissing, WsOpen
  <2>2. /\ wpc[t] \in {"channel", "open"}
        /\ \E label \in {"send", "subscribe", "open", "closed"} :
              /\ wpc' = [wpc EXCEPT ![t] = label]
              /\ t \in Sessions => label # "send"
    BY <1>1, WsAssumption DEF Channel, WsFound, WsMissing, WsOpen
  <2>. QED
    BY <2>1, <2>2
<1>2. ASSUME NEW p \in Publishers, WsSend(p) PROVE GapInv'
  BY <1>2, WsAssumption DEF WsSend
<1>3. ASSUME NEW s \in Sessions, WsSubscribe(s) PROVE GapInv'
  BY <1>3 DEF WsSubscribe
<1>4. ASSUME NEW s \in Sessions, WsForward(s) PROVE GapInv'
  <2>1. /\ got' = [got EXCEPT ![s] = Append(@, pos[s])]
        /\ pos' = [pos EXCEPT ![s] = @ + 1]
        /\ wpc' = [wpc EXCEPT ![s] = "sending"]
        /\ UNCHANGED <<hub, tail, room, since>>
        /\ pos[s] < tail[room[s]]
    BY <1>4 DEF WsForward, Behind
  <2>2. got[s] \in Seq(Nat) /\ pos[s] \in Nat /\ since[s] \in Nat
    OBVIOUS
  <2>3. /\ got'[s] = Append(got[s], pos[s]) /\ got'[s] \in Seq(Nat)
        /\ Len(got'[s]) = Len(got[s]) + 1
        /\ \A k \in 1 .. Len(got[s]) : got'[s][k] = got[s][k]
        /\ got'[s][Len(got[s]) + 1] = pos[s]
    BY <2>1, <2>2
  <2>4. /\ Len(got'[s]) = pos'[s] - since'[s]
        /\ \A k \in 1 .. Len(got'[s]) : got'[s][k] = since'[s] + k - 1
        /\ pos'[s] <= tail'[room'[s]]
    <3>1. /\ Len(got[s]) = pos[s] - since[s] /\ Len(got[s]) \in Nat
          /\ \A k \in 1 .. Len(got[s]) : got[s][k] = since[s] + k - 1
      BY <2>2
    <3>2. pos'[s] = pos[s] + 1 /\ since'[s] = since[s]
      BY <2>1
    <3>3. tail[room[s]] \in Nat /\ tail'[room'[s]] = tail[room[s]]
      BY <2>1
    <3>4. Len(got'[s]) = pos'[s] - since'[s] /\ pos'[s] <= tail'[room'[s]]
      BY <2>1, <2>2, <2>3, <3>1, <3>2, <3>3
    <3>5. ASSUME NEW k \in 1 .. Len(got'[s])
          PROVE  got'[s][k] = since'[s] + k - 1
      <4>1. k \in 1 .. Len(got[s]) \/ k = Len(got[s]) + 1
        BY <2>3, <3>1
      <4>. QED
        BY <2>2, <2>3, <3>1, <3>2, <4>1
    <3>. QED
      BY <3>4, <3>5
  <2>5. WsTypeOK'
    <3>1. pos' \in [Sessions -> Nat] /\ wpc' \in [WsTasks -> {"channel", "open",
              "send", "subscribe", "upgrade", "select", "sending", "closing", "closed"}]
      BY <2>1, <2>2
    <3>2. got' \in [Sessions -> Seq(Nat)]
      BY <2>1, <2>2, <2>3
    <3>. QED
      BY <2>1, <3>1, <3>2
  <2>6. \A u \in Sessions : u # s => /\ got'[u] = got[u] /\ pos'[u] = pos[u]
                                     /\ wpc'[u] = wpc[u]
    BY <2>1
  <2>7. NoSilentGap'
    BY <2>1, <2>4, <2>6
  <2>8. NothingEarly' /\ SessionsDoNotSend'
    BY <2>1, <2>6
  <2>. QED
    BY <2>5, <2>7, <2>8
<1>5. ASSUME NEW s \in Sessions,
             \/ WsUpgraded(s) \/ WsLagged(s) \/ WsPing(s) \/ WsSent(s)
             \/ WsClose(s)
      PROVE  GapInv'
  BY <1>5 DEF WsUpgraded, WsLagged, WsPing, WsSent, WsClose, Listening
<1>6. CASE UNCHANGED wsVars
  BY <1>6 DEF wsVars
<1>. QED
  BY <1>1, <1>2, <1>3, <1>4, <1>5, <1>6 DEF WsNext, Session

\* A session gives its client every frame sent since it subscribed, in order
\* and without a gap, for as long as it lives (run_ws_session).
THEOREM SessionsHaveNoGap == WsSpec => []NoSilentGap
<1>1. GapInv => NoSilentGap
  BY DEF GapInv
<1>. QED
  BY WsInitInv, WsStepInv, <1>1, PTL DEF WsSpec

============================================================================
