--------------------------- MODULE HubClientProofs ---------------------------
(***************************************************************************)
(* Proofs about HubClient, for any number of calls, requests, concurrent   *)
(* refreshes and usage events.                                             *)
(***************************************************************************)
EXTENDS HubClient, SequenceTheorems, TLAPS

Numbers == 1..MaxEvents

AuthOK ==
    /\ token \in {"none", "stale", "fresh"}
    /\ acquiring \in SUBSET Refreshes
    /\ shared \in acquiring \cup {None}
    /\ awaits \in [Procs -> acquiring \cup {None}]

TimerOK ==
    /\ connected \in BOOLEAN
    /\ loops \in SUBSET Connects
    /\ timer \in Connects \cup {None}

BufferOK ==
    /\ buffer \in Seq(Numbers) /\ batch \in Seq(Numbers)
    /\ tracked \in 0..MaxEvents
    /\ stored \in SUBSET Numbers
    /\ late \in SUBSET SUBSET Numbers

PcOK == pc \in [Procs -> Steps]

TypeInv == AuthOK /\ TimerOK /\ BufferOK /\ PcOK

LEMMA TypeParts == TypeOK <=> TypeInv
  BY DEF TypeInv, TypeOK, AuthOK, TimerOK, BufferOK, PcOK, Numbers

LEMMA NamesDiffer ==
    /\ Flush \in Procs /\ Flush \in Requests
    /\ \A c \in Connects : c \in Procs /\ c # Flush
    /\ \A q \in Pings : q \in Procs /\ q # Flush
    /\ \A d \in Disconnects : d \in Procs /\ d # Flush
    /\ \A q \in Requests : q \in Procs
  BY ProcsAssumption DEF Procs, Requests

-----------------------------------------------------------------------------
(* The helpers.                                                            *)

LEMMA JoinType ==
    ASSUME AuthOK, NEW w \in Procs, Join(w, shared) \/ Join(w, None),
           token' \in {"none", "stale", "fresh"}
    PROVE  AuthOK'
  <1>1. PICK r \in Refreshes : /\ shared' = r
                               /\ acquiring' = acquiring \cup {r}
                               /\ awaits' = [awaits EXCEPT ![w] = r]
    BY DEF Join
  <1> QED  BY <1>1 DEF AuthOK

LEMMA EnsureType ==
    ASSUME AuthOK, NEW w \in Procs, NEW next \in [Procs -> Steps], NEW wait \in [Procs -> Steps],
           EnsureFreshToken(w, next, wait), token' = token
    PROVE  AuthOK' /\ PcOK'
  <1>1. pc' \in {next, wait}
    BY DEF EnsureFreshToken
  <1>2. CASE token = "fresh"
    BY <1>1, <1>2 DEF EnsureFreshToken, AuthOK, PcOK
  <1>3. CASE token # "fresh"
    <2>1. Join(w, shared)
      BY <1>3 DEF EnsureFreshToken
    <2> QED  BY <1>1, <2>1, JoinType DEF AuthOK, PcOK
  <1> QED  BY <1>2, <1>3

LEMMA GotoType ==
    ASSUME PcOK, NEW w \in Procs, NEW step \in Steps
    PROVE  Goto(w, step) \in [Procs -> Steps]
  BY DEF PcOK, Goto

LEMMA SendType ==
    ASSUME AuthOK, PcOK, NEW w \in Procs, Send(w), token' = token
    PROVE  AuthOK' /\ PcOK'
  <1>1. Goto(w, "send") \in [Procs -> Steps] /\ Goto(w, "await") \in [Procs -> Steps]
    BY GotoType DEF Steps
  <1> QED  BY <1>1, EnsureType DEF Send

LEMMA EndType ==
    ASSUME PcOK, TimerOK, BufferOK, NEW q, NEW ok \in BOOLEAN, End(q, ok)
    PROVE  /\ PcOK'
           /\ buffer' \in Seq(Numbers) /\ batch' \in Seq(Numbers)
           /\ loops' \in SUBSET Connects /\ timer' \in Connects \cup {None}
  <1>1. batch \o buffer \in Seq(Numbers) /\ <<>> \in Seq(Numbers)
    BY ConcatProperties, EmptySeq DEF BufferOK
  <1>2. buffer' \in Seq(Numbers) /\ batch' \in Seq(Numbers)
    BY <1>1 DEF End, PutBack, BufferOK
  <1>3. PcOK'
    BY DEF PcOK, End, Steps
  <1>4. loops' \in SUBSET Connects /\ timer' \in Connects \cup {None}
    BY DEF TimerOK, End, StartFlushLoop
  <1> QED  BY <1>2, <1>3, <1>4

LEMMA SettleType ==
    ASSUME TypeInv, NEW r, NEW next \in [Steps -> Steps], Settle(r, next),
           token' \in {"none", "stale", "fresh"}, shared' = None
    PROVE  TypeInv'
  <1>1. AuthOK'
    BY DEF TypeInv, AuthOK, Settle
  <1>2. PcOK'
    BY DEF TypeInv, PcOK, Settle
  <1> QED  BY <1>1, <1>2 DEF TypeInv, Settle, TimerOK, BufferOK, timerVars, bufferVars

-----------------------------------------------------------------------------
(* Types.                                                                  *)

LEMMA InitType == Init => TypeInv
  <1> SUFFICES ASSUME Init PROVE TypeInv
    OBVIOUS
  <1>1. <<>> \in Seq(Numbers)
    BY EmptySeq
  <1>2. BufferOK
    <2>1. 0 \in 0..MaxEvents
      BY SizesAssumption
    <2> QED  BY <1>1, <2>1 DEF Init, BufferOK
  <1> QED  BY <1>2 DEF TypeInv, Init, AuthOK, TimerOK, PcOK, Steps

LEMMA TrackType ==
    ASSUME TypeInv, TrackUsage
    PROVE  TypeInv'
  <1>0. AuthOK /\ TimerOK /\ BufferOK /\ PcOK
    BY DEF TypeInv
  <1>1. tracked' = tracked + 1 /\ tracked' \in Numbers /\ tracked' \in 0..MaxEvents
    BY <1>0, SizesAssumption DEF TrackUsage, BufferOK, Numbers
  <1>2. Append(buffer, tracked') \in Seq(Numbers) /\ <<>> \in Seq(Numbers)
    BY <1>0, <1>1, AppendProperties, EmptySeq DEF BufferOK
  <1>3. BufferOK'
    BY <1>0, <1>1, <1>2 DEF TrackUsage, BeginFlush, TakeBatch, BufferOK
  <1>4. TimerOK'
    BY <1>0 DEF TrackUsage, TimerOK, timerVars
  <1>5. AuthOK' /\ PcOK'
    <2>1. CASE Send(Flush)
      BY <1>0, <2>1, SendType, NamesDiffer DEF TrackUsage
    <2>2. CASE UNCHANGED <<pc, shared, acquiring, awaits>>
      BY <1>0, <2>2 DEF TrackUsage, AuthOK, PcOK
    <2> QED  BY <2>1, <2>2 DEF TrackUsage, BeginFlush
  <1> QED  BY <1>3, <1>4, <1>5 DEF TypeInv

LEMMA CallType ==
    ASSUME TypeInv,
           \/ \E c \in Connects : Connect(c)
           \/ \E q \in Pings : Ping(q)
    PROVE  TypeInv'
  <1>0. AuthOK /\ TimerOK /\ BufferOK /\ PcOK
    BY DEF TypeInv
  <1>1. ASSUME NEW c \in Connects, Connect(c) PROVE TypeInv'
    <2>1. Goto(c, "enter") \in [Procs -> Steps] /\ Goto(c, "connect") \in [Procs -> Steps]
      BY <1>0, GotoType, NamesDiffer DEF Steps
    <2>2. AuthOK' /\ PcOK'
      BY <1>0, <1>1, <2>1, EnsureType, NamesDiffer DEF Connect
    <2> QED  BY <1>0, <1>1, <2>2 DEF TypeInv, Connect, TimerOK, BufferOK, timerVars, bufferVars
  <1>2. ASSUME NEW q \in Pings, Ping(q) PROVE TypeInv'
    <2>1. AuthOK' /\ PcOK'
      BY <1>0, <1>2, SendType, NamesDiffer DEF Ping
    <2> QED  BY <1>0, <1>2, <2>1 DEF TypeInv, Ping, TimerOK, BufferOK, timerVars, bufferVars
  <1> QED  BY <1>1, <1>2

LEMMA DisconnectType ==
    ASSUME TypeInv, NEW d \in Disconnects, Disconnect(d)
    PROVE  TypeInv'
  <1>0. AuthOK /\ TimerOK /\ BufferOK /\ PcOK
    BY DEF TypeInv
  <1>1. TimerOK'
    BY <1>0 DEF Disconnect, TimerOK
  <1>2. BufferOK'
    BY <1>0, EmptySeq DEF Disconnect, BufferOK, TakeBatch
  <1>3. d \in Procs /\ Flush \in Procs
    BY NamesDiffer
  <1>4. AuthOK' /\ PcOK'
    <2>1. CASE /\ pc' = Goto(d, "over") /\ ClearAuth
               /\ UNCHANGED <<acquiring, awaits, buffer, batch>>
      BY <1>0, <1>3, <2>1 DEF PcOK, Goto, Steps, AuthOK, ClearAuth
    <2>2. CASE pc' = Goto(d, "clear") /\ UNCHANGED <<authVars, buffer, batch>>
      BY <1>0, <1>3, <2>2 DEF PcOK, Goto, Steps, AuthOK, authVars
    <2>3. CASE /\ EnsureFreshToken(Flush, [Goto(d, "race") EXCEPT ![Flush] = "send"],
                                          [Goto(d, "race") EXCEPT ![Flush] = "await"])
               /\ UNCHANGED token
      <3>1. /\ [Goto(d, "race") EXCEPT ![Flush] = "send"] \in [Procs -> Steps]
            /\ [Goto(d, "race") EXCEPT ![Flush] = "await"] \in [Procs -> Steps]
        <4>1. Goto(d, "race") \in [Procs -> Steps]
          BY <1>0, <1>3, GotoType DEF Steps
        <4> QED  BY <4>1 DEF Steps
      <3> QED  BY <1>0, <1>3, <2>3, <3>1, EnsureType
    <2> QED  BY <2>1, <2>2, <2>3 DEF Disconnect
  <1> QED  BY <1>1, <1>2, <1>4 DEF TypeInv

LEMMA TickType ==
    ASSUME TypeInv, FlushTick
    PROVE  TypeInv'
  <1>0. AuthOK /\ TimerOK /\ BufferOK /\ PcOK
    BY DEF TypeInv
  <1>1. AuthOK' /\ PcOK'
    BY <1>0, SendType, NamesDiffer DEF FlushTick, BeginFlush
  <1>2. BufferOK'
    BY <1>0, EmptySeq DEF FlushTick, BeginFlush, TakeBatch, BufferOK
  <1> QED  BY <1>0, <1>1, <1>2 DEF TypeInv, FlushTick, TimerOK, timerVars

LEMMA TokenType ==
    ASSUME TypeInv, TokenAges \/ \E d \in Disconnects : DisconnectTimeout(d)
    PROVE  TypeInv'
  BY NamesDiffer DEF TypeInv, AuthOK, TimerOK, BufferOK, PcOK, TokenAges, DisconnectTimeout, Goto,
                     Steps, authVars, timerVars, bufferVars

LEMMA ResumeType ==
    ASSUME TypeInv, NEW w \in Procs, Resume(w)
    PROVE  TypeInv'
  <1>0. AuthOK /\ TimerOK /\ BufferOK /\ PcOK
    BY DEF TypeInv
  <1>1. CASE w \in Connects /\ Enter(w)
    <2>1. AuthOK' /\ PcOK'
      <3>1. CASE pc' = Goto(w, "over") /\ UNCHANGED <<shared, acquiring, awaits>>
        BY <1>0, <1>1, <3>1 DEF Enter, AuthOK, PcOK, Goto, Steps
      <3>2. CASE Send(w)
        BY <1>0, <1>1, <3>2, SendType DEF Enter
      <3> QED  BY <1>1, <3>1, <3>2 DEF Enter
    <2> QED  BY <1>0, <1>1, <2>1 DEF TypeInv, Enter, TimerOK, BufferOK, bufferVars
  <1>2. CASE SendNow(w)
    BY <1>0, <1>2 DEF TypeInv, SendNow, AuthOK, TimerOK, BufferOK, PcOK, Goto, Steps, authVars,
                      timerVars, bufferVars
  <1>3. CASE Fail(w)
    <2>1. PcOK' /\ BufferOK' /\ TimerOK'
      BY <1>0, <1>3, EndType DEF Fail, BufferOK, TimerOK
    <2> QED  BY <1>0, <1>3, <2>1 DEF TypeInv, Fail, AuthOK, authVars
  <1>4. CASE Clear(w)
    BY <1>0, <1>4 DEF TypeInv, Clear, ClearAuth, AuthOK, TimerOK, BufferOK, PcOK, Goto, Steps,
                      timerVars, bufferVars
  <1> QED  BY <1>1, <1>2, <1>3, <1>4 DEF Resume

LEMMA RefreshType ==
    ASSUME TypeInv, NEW r \in Refreshes, RefreshSucceeds(r) \/ RefreshFails(r)
    PROVE  TypeInv'
  <1>1. GoOn \in [Steps -> Steps] /\ GiveUp \in [Steps -> Steps]
    BY DEF GoOn, GiveUp, Steps
  <1>2. token \in {"none", "stale", "fresh"}
    BY DEF TypeInv, AuthOK
  <1> QED  BY <1>1, <1>2, SettleType DEF RefreshSucceeds, RefreshFails

LEMMA AnswerType ==
    ASSUME TypeInv, NEW q \in Requests, NEW ok \in BOOLEAN, Unauthorized(q) \/ RequestEnds(q, ok)
    PROVE  TypeInv'
  <1>0. AuthOK /\ TimerOK /\ BufferOK /\ PcOK /\ q \in Procs
    BY NamesDiffer DEF TypeInv
  <1>1. CASE Unauthorized(q)
    <2>1. AuthOK'
      BY <1>0, <1>1, JoinType DEF Unauthorized
    <2> QED  BY <1>0, <1>1, <2>1
                DEF TypeInv, Unauthorized, Goto, PcOK, Steps, TimerOK, BufferOK, timerVars, bufferVars
  <1>2. CASE RequestEnds(q, ok)
    <2>1. {batch[k] : k \in 1..Len(batch)} \subseteq Numbers
      BY <1>0, ElementOfSeq DEF BufferOK
    <2>2. stored' \in SUBSET Numbers /\ late' \in SUBSET SUBSET Numbers
      BY <1>0, <1>2, <2>1 DEF RequestEnds, BufferOK
    <2>3. PcOK' /\ BufferOK' /\ TimerOK'
      BY <1>0, <1>2, <2>2, EndType DEF RequestEnds, BufferOK, TimerOK
    <2> QED  BY <1>0, <1>2, <2>3 DEF TypeInv, RequestEnds, AuthOK, authVars
  <1> QED  BY <1>1, <1>2

LEMMA LateType ==
    ASSUME TypeInv, NEW events \in late, LateIngest(events)
    PROVE  TypeInv'
  BY DEF TypeInv, LateIngest, AuthOK, TimerOK, BufferOK, PcOK, authVars, timerVars

LEMMA NextType == TypeInv /\ [Next]_vars => TypeInv'
  <1> SUFFICES ASSUME TypeInv, [Next]_vars PROVE TypeInv'
    OBVIOUS
  <1>1. CASE UNCHANGED vars
    BY <1>1 DEF TypeInv, AuthOK, TimerOK, BufferOK, PcOK, vars
  <1> QED  BY <1>1, TrackType, CallType, DisconnectType, TickType, TokenType, ResumeType,
              RefreshType, AnswerType, LateType DEF Next, Call, Answer

\* TypeOK: promises that are shared or awaited are of acquisitions in flight, and the buffers
\* hold recorded events, whatever calls, answers and timeouts come in whatever order.
THEOREM ClientTypeCorrect == Spec => []TypeOK
  BY InitType, NextType, TypeParts, PTL DEF Spec

-----------------------------------------------------------------------------
(* The token.                                                              *)

Due(q) == pc[q] \in {"send", "resend"}

\* Whose turn has come without it, has found the token fresh.
LEMMA SendFresh ==
    ASSUME TypeInv, NEW w \in Procs, NEW q \in Requests, Send(w), token' = token,
           Due(q)', token' = "none"
    PROVE  pc[q] = pc'[q]
  <1>1. q \in Procs /\ pc \in [Procs -> Steps]
    BY NamesDiffer DEF TypeInv, PcOK
  <1> QED  BY <1>1 DEF Send, EnsureFreshToken, Goto, Due

\* TokenUntilForgotten: the turn of a request comes with a token, and only the end of a
\* disconnect() or a 401 takes it away, though refreshes are forgotten, shared and fail, for
\* any number of concurrent requests.
THEOREM TurnComesWithToken == Spec => TokenUntilForgotten
  <1> DEFINE Forgets == \/ \E d \in Disconnects : pc[d] # "over" /\ pc'[d] = "over"
                        \/ \E o \in Requests : pc[o] = "sent" /\ pc'[o] = "reawait"
             Keeps == \A q \in Requests : pc'[q] \in {"send", "resend"} /\ token' = "none"
                  => /\ pc[q] = pc'[q]
                     /\ \/ token = "none"
                        \/ \E d \in Disconnects : pc[d] # "over" /\ pc'[d] = "over"
                        \/ \E o \in Requests : pc[o] = "sent" /\ pc'[o] = "reawait"
  <1>1. ASSUME TypeInv, [Next]_vars
        PROVE  Keeps
    <2> SUFFICES ASSUME NEW q \in Requests, Due(q)', token' = "none"
                 PROVE  pc[q] = pc'[q] /\ (token = "none" \/ Forgets)
      BY DEF Due
    <2>0. pc \in [Procs -> Steps] /\ q \in Procs
      BY <1>1, NamesDiffer DEF TypeInv, PcOK
    <2>1. CASE TrackUsage
      BY <1>1, <2>1, SendFresh, NamesDiffer DEF TrackUsage, BeginFlush
    <2>2. ASSUME NEW c \in Connects, Connect(c) PROVE pc[q] = pc'[q] /\ token = "none"
      BY <2>0, <2>2, NamesDiffer DEF Connect, EnsureFreshToken, Goto, Due
    <2>3. ASSUME NEW p \in Pings, Ping(p) PROVE pc[q] = pc'[q] /\ token = "none"
      BY <1>1, <2>3, SendFresh, NamesDiffer DEF Ping
    <2>4. ASSUME NEW d \in Disconnects, Disconnect(d)
          PROVE  pc[q] = pc'[q] /\ (token = "none" \/ Forgets)
      <3>1. d # q /\ d \in Procs /\ Flush \in Procs /\ d # Flush
        BY <2>0, NamesDiffer, ProcsAssumption DEF Requests
      <3>2. CASE pc' = Goto(d, "over")
        BY <2>0, <2>4, <3>1, <3>2 DEF Disconnect, Goto
      <3>3. CASE pc' = Goto(d, "clear") /\ UNCHANGED authVars
        BY <2>0, <3>1, <3>3 DEF Goto, authVars
      <3>4. CASE /\ EnsureFreshToken(Flush, [Goto(d, "race") EXCEPT ![Flush] = "send"],
                                            [Goto(d, "race") EXCEPT ![Flush] = "await"])
                 /\ UNCHANGED token
        BY <2>0, <3>1, <3>4 DEF EnsureFreshToken, Goto, Due
      <3> QED  BY <2>4, <3>2, <3>3, <3>4 DEF Disconnect
    <2>5. ASSUME NEW w \in Procs, Resume(w) PROVE pc[q] = pc'[q] /\ (token = "none" \/ Forgets)
      <3>1. CASE w \in Connects /\ Enter(w)
        <4>1. token' = token
          BY <3>1 DEF Enter
        <4>2. CASE pc' = Goto(w, "over")
          BY <2>0, <2>5, <4>1, <4>2 DEF Goto, Due
        <4>3. CASE Send(w)
          BY <1>1, <2>5, <4>1, <4>3, SendFresh
        <4> QED  BY <3>1, <4>1, <4>2, <4>3 DEF Enter
      <3>2. CASE SendNow(w)
        BY <2>0, <2>5, <3>2 DEF SendNow, Goto, Due, authVars
      <3>3. CASE Fail(w)
        BY <2>0, <2>5, <3>3 DEF Fail, End, Due, authVars
      <3>4. CASE w \in Disconnects /\ Clear(w)
        BY <2>0, <2>5, <3>4 DEF Clear, Goto, Due
      <3> QED  BY <2>5, <3>1, <3>2, <3>3, <3>4 DEF Resume
    <2>6. ASSUME NEW r \in Refreshes, RefreshSucceeds(r) PROVE FALSE
      BY <2>6 DEF RefreshSucceeds
    <2>7. ASSUME NEW r \in Refreshes, RefreshFails(r) PROVE pc[q] = pc'[q] /\ token = "none"
      BY <2>0, <2>7 DEF RefreshFails, Settle, GiveUp, Due
    <2>8. ASSUME NEW p \in Requests, NEW ok \in BOOLEAN, RequestEnds(p, ok)
          PROVE  pc[q] = pc'[q] /\ token = "none"
      BY <2>0, <2>8 DEF RequestEnds, End, Due, authVars
    <2>9. ASSUME NEW p \in Requests, Unauthorized(p) PROVE pc[q] = pc'[q] /\ Forgets
      BY <2>0, <2>9, NamesDiffer DEF Unauthorized, Goto, Due
    <2>10. CASE FlushTick
      BY <1>1, <2>10, SendFresh, NamesDiffer DEF FlushTick, BeginFlush
    <2>11. CASE TokenAges
      BY <2>11 DEF TokenAges
    <2>12. ASSUME NEW d \in Disconnects, DisconnectTimeout(d)
           PROVE  pc[q] = pc'[q] /\ token = "none"
      BY <2>0, <2>12, NamesDiffer DEF DisconnectTimeout, Goto, Due, authVars
    <2>13. ASSUME NEW events \in late, LateIngest(events) PROVE pc[q] = pc'[q] /\ token = "none"
      BY <2>13 DEF LateIngest, authVars
    <2>14. CASE UNCHANGED vars
      BY <2>14 DEF vars
    <2> QED  BY <1>1, <2>1, <2>2, <2>3, <2>4, <2>5, <2>6, <2>7, <2>8, <2>9, <2>10, <2>11, <2>12,
                <2>13, <2>14 DEF Next, Call, Answer
  <1> HIDE DEF Keeps
  <1>2. Spec => [][Keeps]_vars
    BY <1>1, InitType, NextType, PTL DEF Spec
  <1> QED  BY <1>2 DEF TokenUntilForgotten, Keeps

-----------------------------------------------------------------------------
(* The buffer.                                                             *)

Kept == batch \o buffer

\* The events of s are numbered in the order of recording.
InOrder(s) == \A j, k \in 1..Len(s) : j < k => s[j] < s[k]
Elems(s) == {s[k] : k \in 1..Len(s)}

\* Only a flush that is under way holds a batch.
BatchIsOfFlush == ~Flushing => batch = <<>>

\* What the Hub may still be storing was recorded.
LateIsRecorded == \A events \in late : events \subseteq 1..tracked

BufferInv == TypeInv /\ BatchIsOfFlush /\ LateIsRecorded /\ NothingLostOrReordered

LEMMA KeptMeaning ==
    NothingLostOrReordered <=> InOrder(Kept) /\ 1..tracked = stored \cup Elems(Kept)
  BY DEF NothingLostOrReordered, Kept, InOrder, Elems

LEMMA ElemsConcat ==
    ASSUME NEW s \in Seq(Numbers), NEW t \in Seq(Numbers)
    PROVE  Elems(s \o t) = Elems(s) \cup Elems(t)
  <1>1. /\ Len(s) \in Nat /\ Len(t) \in Nat /\ Len(s \o t) = Len(s) + Len(t)
        /\ \A i \in 1..Len(s) + Len(t) :
              (s \o t)[i] = IF i <= Len(s) THEN s[i] ELSE t[i - Len(s)]
    BY ConcatProperties, LenProperties
  <1>2. ASSUME NEW i \in 1..Len(s) PROVE s[i] \in Elems(s \o t)
    <2>1. i \in 1..Len(s \o t) /\ (s \o t)[i] = s[i]
      BY <1>1
    <2> QED  BY <2>1 DEF Elems
  <1>3. ASSUME NEW i \in 1..Len(t) PROVE t[i] \in Elems(s \o t)
    <2>1. /\ i + Len(s) \in 1..Len(s \o t) /\ ~(i + Len(s) <= Len(s))
          /\ (i + Len(s)) - Len(s) = i
      BY <1>1
    <2>2. (s \o t)[i + Len(s)] = t[i]
      BY <1>1, <2>1
    <2> QED  BY <2>1, <2>2 DEF Elems
  <1>4. ASSUME NEW i \in 1..Len(s \o t) PROVE (s \o t)[i] \in Elems(s) \cup Elems(t)
    <2>1. CASE i <= Len(s)
      BY <1>1, <2>1 DEF Elems
    <2>2. CASE ~(i <= Len(s))
      <3>1. i - Len(s) \in 1..Len(t) /\ (s \o t)[i] = t[i - Len(s)]
        BY <1>1, <2>2
      <3> QED  BY <3>1 DEF Elems
    <2> QED  BY <2>1, <2>2
  <1> QED  BY <1>2, <1>3, <1>4 DEF Elems

\* A suffix of what is in order is in order.
LEMMA OrderOfSuffix ==
    ASSUME NEW s \in Seq(Numbers), NEW t \in Seq(Numbers), InOrder(s \o t)
    PROVE  InOrder(t)
  <1>1. /\ Len(s) \in Nat /\ Len(t) \in Nat /\ Len(s \o t) = Len(s) + Len(t)
        /\ \A i \in 1..Len(s) + Len(t) :
              (s \o t)[i] = IF i <= Len(s) THEN s[i] ELSE t[i - Len(s)]
    BY ConcatProperties, LenProperties
  <1>2. ASSUME NEW i \in 1..Len(t)
        PROVE  i + Len(s) \in 1..Len(s \o t) /\ (s \o t)[i + Len(s)] = t[i]
    <2>1. /\ i + Len(s) \in 1..Len(s) + Len(t) /\ ~(i + Len(s) <= Len(s))
          /\ (i + Len(s)) - Len(s) = i
      BY <1>1
    <2> QED  BY <1>1, <2>1
  <1> SUFFICES ASSUME NEW j \in 1..Len(t), NEW k \in 1..Len(t), j < k PROVE t[j] < t[k]
    BY DEF InOrder
  <1>3. j + Len(s) < k + Len(s)
    BY <1>1
  <1> QED  BY <1>2, <1>3 DEF InOrder

\* The next event comes last.
LEMMA RecordNext ==
    ASSUME NEW s \in Seq(Numbers), NEW n \in Nat, n + 1 \in Numbers, InOrder(s),
           Elems(s) \subseteq 1..n
    PROVE  InOrder(Append(s, n + 1)) /\ Elems(Append(s, n + 1)) = Elems(s) \cup {n + 1}
  <1> DEFINE t == Append(s, n + 1)
  <1>1. /\ Len(s) \in Nat /\ Len(t) = Len(s) + 1 /\ t[Len(s) + 1] = n + 1
        /\ \A i \in 1..Len(s) : t[i] = s[i] /\ s[i] \in 1..n
    BY AppendProperties, LenProperties DEF Elems
  <1> HIDE DEF t
  <1>2. InOrder(t)
    <2> SUFFICES ASSUME NEW j \in 1..Len(t), NEW k \in 1..Len(t), j < k PROVE t[j] < t[k]
      BY DEF InOrder
    <2>1. j \in 1..Len(s)
      BY <1>1
    <2>2. CASE k \in 1..Len(s)
      BY <1>1, <2>1, <2>2 DEF InOrder
    <2>3. CASE k = Len(s) + 1
      BY <1>1, <2>1, <2>3
    <2> QED  BY <1>1, <2>2, <2>3
  <1>3. Elems(t) = Elems(s) \cup {n + 1}
    <2>1. 1..Len(t) = 1..Len(s) \cup {Len(s) + 1}
      BY <1>1
    <2> QED  BY <1>1, <2>1 DEF Elems
  <1> QED  BY <1>2, <1>3 DEF t

LEMMA AppendKept ==
    ASSUME NEW s \in Seq(Numbers), NEW t \in Seq(Numbers), NEW n \in Numbers
    PROVE  s \o Append(t, n) = Append(s \o t, n)
  <1>1. s \o t \in Seq(Numbers) /\ Append(t, n) \in Seq(Numbers)
    BY ConcatProperties, AppendProperties
  <1>2. s \o Append(t, n) \in Seq(Numbers) /\ Append(s \o t, n) \in Seq(Numbers)
    BY <1>1, ConcatProperties, AppendProperties
  <1>3. /\ Len(s) \in Nat /\ Len(t) \in Nat
        /\ Len(s \o t) = Len(s) + Len(t) /\ Len(Append(t, n)) = Len(t) + 1
        /\ Len(s \o Append(t, n)) = Len(s) + Len(t) + 1
        /\ Len(Append(s \o t, n)) = Len(s) + Len(t) + 1
    BY <1>1, ConcatProperties, AppendProperties, LenProperties
  <1>4. ASSUME NEW i \in 1..Len(s) + Len(t) + 1
        PROVE  (s \o Append(t, n))[i] = Append(s \o t, n)[i]
    <2>1. (s \o Append(t, n))[i] = IF i <= Len(s) THEN s[i] ELSE Append(t, n)[i - Len(s)]
      BY <1>1, <1>3, ConcatProperties
    <2>2. CASE i <= Len(s)
      <3>1. i \in 1..Len(s \o t) /\ (s \o t)[i] = s[i]
        BY <1>3, <2>2, ConcatProperties
      <3> QED  BY <1>1, <2>1, <2>2, <3>1, AppendProperties
    <2>3. CASE ~(i <= Len(s)) /\ i # Len(s) + Len(t) + 1
      <3>1. i \in 1..Len(s \o t) /\ i - Len(s) \in 1..Len(t)
        BY <1>3, <2>3
      <3>2. (s \o t)[i] = t[i - Len(s)]
        BY <1>3, <2>3, <3>1, ConcatProperties
      <3>3. Append(t, n)[i - Len(s)] = t[i - Len(s)]
        BY <3>1, AppendProperties
      <3>4. Append(s \o t, n)[i] = (s \o t)[i]
        BY <1>1, <3>1, AppendProperties
      <3> QED  BY <2>1, <2>3, <3>2, <3>3, <3>4
    <2>4. CASE i = Len(s) + Len(t) + 1
      <3>1. i - Len(s) = Len(t) + 1 /\ ~(i <= Len(s)) /\ i = Len(s \o t) + 1
        BY <1>3, <2>4
      <3> QED  BY <1>1, <1>3, <2>1, <3>1, AppendProperties
    <2> QED  BY <2>2, <2>3, <2>4
  <1> QED  BY <1>2, <1>3, <1>4, SeqEqual

LEMMA InitBuffer == Init => BufferInv
  <1> SUFFICES ASSUME Init PROVE BufferInv
    OBVIOUS
  <1>1. TypeInv /\ batch = <<>> /\ buffer = <<>> /\ tracked = 0 /\ stored = {}
    BY InitType DEF Init
  <1>2. Kept = <<>>
    BY <1>1, ConcatEmptySeq DEF TypeInv, BufferOK, Kept
  <1>3. InOrder(Kept) /\ Elems(Kept) = {}
    BY <1>2 DEF InOrder, Elems
  <1> QED  BY <1>1, <1>3, KeptMeaning DEF BufferInv, BatchIsOfFlush, LateIsRecorded, Init

\* What a step does to the events that are kept: it records one, or lets go of the batch that
\* is stored, or leaves them as they are, perhaps while the Hub stores an earlier batch.
RecordStep == Kept' = Append(Kept, tracked + 1) /\ tracked' = tracked + 1 /\ stored' = stored
StoredStep == tracked' = tracked /\ stored' = stored \cup Elems(batch) /\ Kept' = buffer
LateStep == \E events \in late : UNCHANGED <<Kept, tracked>> /\ stored' = stored \cup events
KeepStep == UNCHANGED <<Kept, tracked, stored>>

LEMMA BufferStepKeeps ==
    ASSUME BufferInv, TypeInv', RecordStep \/ StoredStep \/ LateStep \/ KeepStep
    PROVE  NothingLostOrReordered'
  <1>0. /\ buffer \in Seq(Numbers) /\ batch \in Seq(Numbers) /\ tracked \in Nat
        /\ tracked \in 0..MaxEvents /\ tracked' \in 0..MaxEvents /\ MaxEvents \in Nat
    BY SizesAssumption DEF BufferInv, TypeInv, BufferOK
  <1>1. Kept \in Seq(Numbers) /\ InOrder(Kept) /\ 1..tracked = stored \cup Elems(Kept)
    BY <1>0, KeptMeaning, ConcatProperties DEF BufferInv, Kept
  <1>2. Elems(Kept) = Elems(batch) \cup Elems(buffer) /\ InOrder(buffer)
    BY <1>0, <1>1, ElemsConcat, OrderOfSuffix DEF Kept
  <1>3. InOrder(Kept') /\ 1..tracked' = stored' \cup Elems(Kept')
    <2>1. CASE RecordStep
      <3>1. tracked + 1 \in Numbers /\ Elems(Kept) \subseteq 1..tracked
        BY <1>0, <1>1, <2>1 DEF RecordStep, Numbers
      <3>2. InOrder(Kept') /\ Elems(Kept') = Elems(Kept) \cup {tracked + 1}
        BY <1>0, <1>1, <2>1, <3>1, RecordNext DEF RecordStep
      <3>3. 1..tracked' = 1..tracked \cup {tracked + 1}
        BY <1>0, <2>1 DEF RecordStep
      <3> QED  BY <1>1, <2>1, <3>2, <3>3 DEF RecordStep
    <2>2. CASE StoredStep
      BY <1>1, <1>2, <2>2 DEF StoredStep
    <2>3. CASE LateStep
      BY <1>1, <2>3 DEF LateStep, BufferInv, LateIsRecorded
    <2>4. CASE KeepStep
      BY <1>1, <2>4 DEF KeepStep
    <2> QED  BY <2>1, <2>2, <2>3, <2>4
  <1> QED  BY <1>3 DEF NothingLostOrReordered, Kept, InOrder, Elems

\* The batch is put back before what was recorded meanwhile, or it was acknowledged.
LEMMA PutBackKeeps ==
    ASSUME BufferInv, TypeInv', NEW q, NEW ok \in BOOLEAN, PutBack(q, ok)
    PROVE  /\ Kept' = IF q = Flush /\ ok THEN buffer ELSE Kept
           /\ batch' = IF q = Flush THEN <<>> ELSE batch
  <1>0. /\ buffer \in Seq(Numbers) /\ batch \in Seq(Numbers)
        /\ batch \o buffer \in Seq(Numbers)
    BY ConcatProperties DEF BufferInv, TypeInv, BufferOK
  <1>1. /\ batch' = IF q = Flush THEN <<>> ELSE batch
        /\ buffer' = IF q = Flush /\ ~ok THEN batch \o buffer ELSE buffer
    BY DEF PutBack
  <1>2. Kept' = batch' \o buffer' /\ Kept = batch \o buffer
    BY DEF Kept
  <1>3. <<>> \o buffer = buffer /\ <<>> \o (batch \o buffer) = batch \o buffer
    BY <1>0, ConcatEmptySeq
  <1> QED  BY <1>1, <1>2, <1>3

\* A flush that begins takes the whole buffer, and there is no other batch.
LEMMA TakeKeeps ==
    ASSUME BufferInv, NEW es \in Seq(Numbers), ~Flushing, batch' = es, buffer' = <<>>
    PROVE  Kept' = es
  <1>1. es \o <<>> = es
    BY ConcatEmptySeq
  <1> QED  BY <1>1 DEF Kept

LEMMA KeptWhenIdle ==
    ASSUME BufferInv, ~Flushing
    PROVE  Kept = buffer
  BY ConcatEmptySeq DEF BufferInv, BatchIsOfFlush, Kept, TypeInv, BufferOK

LEMMA TrackRecords ==
    ASSUME BufferInv, TrackUsage
    PROVE  RecordStep
  <1>0. /\ buffer \in Seq(Numbers) /\ batch \in Seq(Numbers)
        /\ tracked' = tracked + 1 /\ tracked' \in Numbers /\ stored' = stored
    BY SizesAssumption DEF BufferInv, TypeInv, BufferOK, TrackUsage, Numbers
  <1>1. Append(buffer, tracked') \in Seq(Numbers)
    BY <1>0, AppendProperties
  <1>2. CASE ~Flushing /\ BeginFlush(Append(buffer, tracked'))
    <2>1. batch' = Append(buffer, tracked') /\ buffer' = <<>>
      BY <1>2 DEF BeginFlush, TakeBatch
    <2>2. batch' \o <<>> = batch'
      BY <1>1, <2>1, ConcatEmptySeq
    <2>3. Kept' = Append(buffer, tracked') /\ Kept = buffer
      BY <1>2, <2>1, <2>2, KeptWhenIdle DEF Kept
    <2> QED  BY <1>0, <2>3 DEF RecordStep
  <1>3. CASE buffer' = Append(buffer, tracked') /\ batch' = batch
    <2>1. batch \o Append(buffer, tracked') = Append(batch \o buffer, tracked')
      BY <1>0, AppendKept
    <2> QED  BY <1>0, <1>3, <2>1 DEF RecordStep, Kept
  <1> QED  BY <1>2, <1>3 DEF TrackUsage

LEMMA NextKept ==
    ASSUME BufferInv, TypeInv', [Next]_vars
    PROVE  /\ RecordStep \/ StoredStep \/ LateStep \/ KeepStep
           /\ \A events \in late' : events \in late \/ (KeepStep /\ events = Elems(batch))
  <1>0. buffer \in Seq(Numbers)
    BY DEF BufferInv, TypeInv, BufferOK
  <1> DEFINE Lates == \A events \in late' : events \in late \/ (KeepStep /\ events = Elems(batch))
  <1>1. ASSUME UNCHANGED bufferVars PROVE KeepStep /\ Lates
    BY <1>1 DEF KeepStep, bufferVars, Kept
  <1>2. ASSUME ~Flushing, TakeBatch(buffer), UNCHANGED <<tracked, stored, late>>
        PROVE  KeepStep /\ Lates
    <2>1. buffer \o <<>> = buffer
      BY <1>0, ConcatEmptySeq
    <2> QED  BY <1>2, <2>1, KeptWhenIdle DEF KeepStep, Kept, TakeBatch
  <1>3. CASE TrackUsage
    BY <1>3, TrackRecords DEF TrackUsage
  <1>4. ASSUME \/ \E c \in Connects : Connect(c)
               \/ \E q \in Pings : Ping(q)
               \/ TokenAges \/ UNCHANGED vars
               \/ \E d \in Disconnects : DisconnectTimeout(d)
               \/ \E r \in Refreshes : RefreshSucceeds(r) \/ RefreshFails(r)
               \/ \E q \in Requests : Unauthorized(q)
               \/ \E w \in Procs : Enter(w) \/ SendNow(w) \/ Clear(w)
        PROVE  KeepStep /\ Lates
    BY <1>1, <1>4 DEF Connect, Ping, TokenAges, DisconnectTimeout, RefreshSucceeds, RefreshFails,
                      Settle, Unauthorized, Enter, SendNow, Clear, vars, bufferVars
  <1>5. ASSUME NEW d \in Disconnects, Disconnect(d) PROVE KeepStep /\ Lates
    BY <1>1, <1>2, <1>5 DEF Disconnect, bufferVars
  <1>6. CASE FlushTick
    BY <1>2, <1>6 DEF FlushTick, BeginFlush
  <1>7. ASSUME NEW q \in Requests, Fail(q) PROVE KeepStep /\ Lates
    <2>1. Kept' = Kept
      BY <1>7, PutBackKeeps DEF Fail, End
    <2> QED  BY <1>7, <2>1 DEF Fail, KeepStep
  <1>8. ASSUME NEW q \in Requests, NEW ok \in BOOLEAN, RequestEnds(q, ok)
        PROVE  (StoredStep \/ KeepStep) /\ Lates
    <2>1. Kept' = (IF q = Flush /\ ok THEN buffer ELSE Kept) /\ tracked' = tracked
      BY <1>8, PutBackKeeps DEF RequestEnds, End
    <2>2. CASE q = Flush /\ ok
      BY <1>8, <2>1, <2>2 DEF RequestEnds, StoredStep, Elems
    <2>3. CASE q = Flush /\ ~ok
      <3>1. KeepStep /\ late' = late \cup {Elems(batch)}
        BY <1>8, <2>1, <2>3 DEF RequestEnds, KeepStep, Elems
      <3> QED  BY <3>1
    <2>4. CASE q # Flush
      BY <1>8, <2>1, <2>4 DEF RequestEnds, KeepStep
    <2> QED  BY <2>2, <2>3, <2>4
  <1>9. ASSUME NEW events \in late, LateIngest(events) PROVE LateStep /\ Lates
    BY <1>9 DEF LateIngest, LateStep, Kept
  <1> QED  BY <1>1, <1>3, <1>4, <1>5, <1>6, <1>7, <1>8, <1>9 DEF Next, Call, Answer, Resume

LEMMA NextBatch ==
    ASSUME BufferInv, TypeInv', [Next]_vars
    PROVE  BatchIsOfFlush'
  <1>0. pc \in [Procs -> Steps] /\ Flush \in Procs /\ (pc[Flush] = "idle" => batch = <<>>)
    BY NamesDiffer DEF BufferInv, TypeInv, PcOK, BatchIsOfFlush, Flushing
  <1> SUFFICES ASSUME pc'[Flush] = "idle" PROVE batch' = <<>>
    BY DEF BatchIsOfFlush, Flushing
  <1>1. ASSUME Send(Flush) PROVE FALSE
    BY <1>0, <1>1 DEF Send, EnsureFreshToken, Goto
  <1>2. CASE TrackUsage
    BY <1>0, <1>1, <1>2 DEF TrackUsage, BeginFlush
  <1>3. ASSUME NEW w \in Procs \ {Flush},
               \/ Connect(w) \/ Ping(w) \/ DisconnectTimeout(w) \/ Enter(w) \/ Clear(w)
               \/ SendNow(w)
               \/ w \in Requests /\ Unauthorized(w)
        PROVE  batch' = <<>>
    BY <1>0, <1>3 DEF Connect, Ping, DisconnectTimeout, Unauthorized, Enter, Clear, SendNow, Send,
                      EnsureFreshToken, Goto, bufferVars
  <1>4. ASSUME NEW d \in Disconnects, Disconnect(d) PROVE batch' = <<>>
    <2>1. d \in Procs /\ d # Flush
      BY NamesDiffer
    <2>2. CASE pc' = Goto(d, "over") \/ pc' = Goto(d, "clear")
      <3>1. pc[Flush] = "idle"
        BY <1>0, <2>1, <2>2 DEF Goto
      <3>2. UNCHANGED batch
        BY <1>0, <1>4, <2>1, <2>2, <3>1 DEF Disconnect, EnsureFreshToken, Goto
      <3> QED  BY <1>0, <3>1, <3>2
    <2>3. CASE EnsureFreshToken(Flush, [Goto(d, "race") EXCEPT ![Flush] = "send"],
                                       [Goto(d, "race") EXCEPT ![Flush] = "await"])
      BY <1>0, <2>1, <2>3 DEF EnsureFreshToken, Goto
    <2> QED  BY <1>4, <2>2, <2>3 DEF Disconnect
  <1>5. CASE FlushTick
    BY <1>1, <1>5 DEF FlushTick, BeginFlush
  <1>6. CASE TokenAges \/ UNCHANGED vars
    BY <1>0, <1>6 DEF TokenAges, vars, bufferVars
  <1>7. ASSUME NEW r \in Refreshes, RefreshSucceeds(r) \/ RefreshFails(r) PROVE batch' = <<>>
    <2>1. pc[Flush] = "idle"
      BY <1>0, <1>7 DEF RefreshSucceeds, RefreshFails, Settle, GoOn, GiveUp
    <2> QED  BY <1>0, <1>7, <2>1 DEF RefreshSucceeds, RefreshFails, Settle, bufferVars
  <1>8. ASSUME NEW q, NEW ok \in BOOLEAN, End(q, ok)
        PROVE  batch' = <<>>
    <2>1. CASE q = Flush
      BY <1>8, <2>1, PutBackKeeps DEF End
    <2>2. CASE q # Flush
      <3>1. pc[Flush] = "idle"
        BY <1>0, <1>8, <2>2 DEF End
      <3> QED  BY <1>0, <1>8, <2>2, <3>1, PutBackKeeps DEF End
    <2> QED  BY <2>1, <2>2
  <1>9. ASSUME NEW q, Fail(q) PROVE batch' = <<>>
    BY <1>8, <1>9 DEF Fail
  <1>10. ASSUME NEW q \in Requests, NEW ok \in BOOLEAN, RequestEnds(q, ok) PROVE batch' = <<>>
    BY <1>8, <1>10 DEF RequestEnds
  <1>11. ASSUME Unauthorized(Flush) \/ SendNow(Flush) PROVE batch' = <<>>
    BY <1>0, <1>11 DEF Unauthorized, SendNow, Goto
  <1>12. ASSUME NEW events \in late, LateIngest(events) PROVE batch' = <<>>
    BY <1>0, <1>12 DEF LateIngest
  <1>13. ASSUME NEW w \in Procs, Resume(w) PROVE batch' = <<>>
    <2>1. ASSUME w = Flush PROVE batch' = <<>>
      BY <1>9, <1>11, <1>13, <2>1, NamesDiffer DEF Resume
    <2>2. ASSUME w # Flush PROVE batch' = <<>>
      <3>1. w \in Procs \ {Flush}
        BY <1>13, <2>2
      <3>2. CASE Enter(w) \/ SendNow(w) \/ Clear(w)
        BY <1>3, <3>1, <3>2
      <3>3. CASE Fail(w)
        BY <1>9, <3>3
      <3> QED  BY <1>13, <3>2, <3>3 DEF Resume
    <2> QED  BY <2>1, <2>2
  <1>14. ASSUME Call PROVE batch' = <<>>
    BY <1>2, <1>3, <1>4, <1>14, NamesDiffer DEF Call
  <1>15. ASSUME Answer PROVE batch' = <<>>
    BY <1>3, <1>7, <1>10, <1>11, <1>12, <1>15, NamesDiffer DEF Answer
  <1>16. ASSUME NEW d \in Disconnects, DisconnectTimeout(d) PROVE batch' = <<>>
    BY <1>3, <1>16, NamesDiffer
  <1> QED  BY <1>5, <1>6, <1>13, <1>14, <1>15, <1>16 DEF Next

LEMMA NextLate ==
    ASSUME BufferInv, TypeInv', [Next]_vars
    PROVE  LateIsRecorded'
  <1>0. tracked \in Nat /\ buffer \in Seq(Numbers) /\ batch \in Seq(Numbers)
    BY SizesAssumption DEF BufferInv, TypeInv, BufferOK
  <1>1. tracked' = tracked \/ tracked' = tracked + 1
    BY NextKept DEF RecordStep, StoredStep, LateStep, KeepStep
  <1>2. Elems(batch) \subseteq 1..tracked
    BY <1>0, KeptMeaning, ElemsConcat DEF BufferInv, Kept
  <1>3. \A events \in late' : events \subseteq 1..tracked
    BY <1>2, NextKept DEF BufferInv, LateIsRecorded
  <1> QED  BY <1>0, <1>1, <1>3 DEF LateIsRecorded

LEMMA NextBuffer == BufferInv /\ [Next]_vars => BufferInv'
  <1> SUFFICES ASSUME BufferInv, [Next]_vars PROVE BufferInv'
    OBVIOUS
  <1>1. TypeInv'
    BY NextType DEF BufferInv
  <1>2. NothingLostOrReordered'
    BY <1>1, NextKept, BufferStepKeeps
  <1> QED  BY <1>1, <1>2, NextBatch, NextLate DEF BufferInv

\* NothingLostOrReordered: each usage event recorded is with the Hub, in the batch or in the
\* buffer, and what is kept is in the order of recording, through failed flushes, 401 answers,
\* disconnects and any number of concurrent requests.
THEOREM UsageIsKept == Spec => []NothingLostOrReordered
  <1>1. BufferInv => NothingLostOrReordered
    BY DEF BufferInv
  <1> QED  BY <1>1, InitBuffer, NextBuffer, PTL DEF Spec

-----------------------------------------------------------------------------
(* The buffer is a channel without gaps.                                   *)

\* How many events the client has let go of.
LetGo == tracked - (Len(batch) + Len(buffer))

\* What waits are the last events recorded, each in its place.  Order alone (BufferInv) would
\* let the Hub have an event and miss one before it.
KeptIsSuffix ==
    /\ Len(Kept) <= tracked
    /\ \A k \in 1..Len(Kept) : Kept[k] = LetGo + k

\* A batch that the Hub may still be storing holds the oldest events that waited when it was
\* sent, and so the oldest that wait now, or none of them.
LateIsOldest ==
    \A events \in late : \E n \in 0..tracked : events \subseteq 1..n /\ (LetGo + 1)..n \subseteq events

ChannelInv == BufferInv /\ KeptIsSuffix /\ LateIsOldest

LEMMA InitChannel == Init => ChannelInv /\ Channel!Init
  <1> SUFFICES ASSUME Init PROVE ChannelInv /\ Channel!Init
    OBVIOUS
  <1>1. BufferInv /\ tracked = 0 /\ stored = {} /\ batch = <<>> /\ buffer = <<>>
    BY InitBuffer DEF Init
  <1>2. Len(<<>>) = 0 /\ <<>> \o <<>> = <<>>
    BY EmptySeq, ConcatEmptySeq
  <1>3. KeptIsSuffix
    BY <1>1, <1>2 DEF KeptIsSuffix, Kept
  <1>4. tracked - (Len(batch) + Len(buffer)) = 0
    <2>1. Len(batch) = 0 /\ Len(buffer) = 0
      BY <1>1, <1>2
    <2>2. tracked = 0
      BY <1>1
    <2> QED  BY <2>1, <2>2
  <1>5. LateIsOldest
    BY DEF LateIsOldest, Init
  <1> QED  BY <1>1, <1>3, <1>4, <1>5 DEF ChannelInv, Channel!Init

\* The batch is the oldest of what waits, and the buffer the rest.
LEMMA BatchIsOldest ==
    ASSUME ChannelInv
    PROVE  /\ tracked \in Nat /\ Len(batch) \in Nat /\ Len(buffer) \in Nat
           /\ Len(Kept) = Len(batch) + Len(buffer) /\ Kept \in Seq(Numbers)
           /\ LetGo \in Nat /\ LetGo + Len(batch) <= tracked
           /\ \A k \in 1..Len(batch) : batch[k] = LetGo + k
           /\ \A k \in 1..Len(buffer) : buffer[k] = LetGo + Len(batch) + k
           /\ Elems(batch) = (LetGo + 1)..(LetGo + Len(batch))
  <1>0. /\ batch \in Seq(Numbers) /\ buffer \in Seq(Numbers) /\ tracked \in Nat
        /\ Len(batch) \in Nat /\ Len(buffer) \in Nat
    BY SizesAssumption, LenProperties DEF ChannelInv, BufferInv, TypeInv, BufferOK
  <1>1. /\ Kept \in Seq(Numbers) /\ Len(Kept) = Len(batch) + Len(buffer)
        /\ \A i \in 1..Len(batch) + Len(buffer) :
              Kept[i] = IF i <= Len(batch) THEN batch[i] ELSE buffer[i - Len(batch)]
    BY <1>0, ConcatProperties DEF Kept
  <1>2. Len(Kept) <= tracked /\ \A k \in 1..Len(Kept) : Kept[k] = LetGo + k
    BY DEF ChannelInv, KeptIsSuffix
  <1>3. LetGo \in Nat /\ LetGo + Len(batch) <= tracked
    BY <1>0, <1>1, <1>2 DEF LetGo
  <1>4. ASSUME NEW k \in 1..Len(batch) PROVE batch[k] = LetGo + k
    <2>1. k \in 1..Len(batch) + Len(buffer) /\ k <= Len(batch)
      BY <1>0
    <2> QED  BY <1>1, <1>2, <2>1
  <1>5. ASSUME NEW k \in 1..Len(buffer) PROVE buffer[k] = LetGo + Len(batch) + k
    <2>1. /\ k + Len(batch) \in 1..Len(batch) + Len(buffer) /\ ~(k + Len(batch) <= Len(batch))
          /\ (k + Len(batch)) - Len(batch) = k
      BY <1>0
    <2>2. Kept[k + Len(batch)] = buffer[k] /\ Kept[k + Len(batch)] = LetGo + (k + Len(batch))
      BY <1>1, <1>2, <2>1
    <2> QED  BY <1>0, <1>3, <2>2
  <1>6. Elems(batch) = (LetGo + 1)..(LetGo + Len(batch))
    <2>1. ASSUME NEW e \in (LetGo + 1)..(LetGo + Len(batch)) PROVE e \in Elems(batch)
      <3>1. e - LetGo \in 1..Len(batch) /\ LetGo + (e - LetGo) = e
        BY <1>0, <1>3
      <3> QED  BY <1>4, <3>1 DEF Elems
    <2>2. ASSUME NEW k \in 1..Len(batch)
          PROVE  batch[k] \in (LetGo + 1)..(LetGo + Len(batch))
      BY <1>0, <1>3, <1>4
    <2> QED  BY <2>1, <2>2 DEF Elems
  <1> QED  BY <1>0, <1>1, <1>3, <1>4, <1>5, <1>6

\* Arithmetic of intervals.
LEMMA OldBatch ==
    ASSUME NEW n \in Nat, NEW l \in Nat, NEW old, NEW e, e \subseteq 1..n, (l + 1)..n \subseteq e,
           1..l \subseteq old
    PROVE  /\ n <= l => old \cup e = old
           /\ n > l => old \cup e = old \cup (l + 1)..n
  <1>1. 1..n \subseteq 1..l \cup (l + 1)..n
    OBVIOUS
  <1>2. n <= l => (l + 1)..n = {} /\ 1..n \subseteq 1..l
    OBVIOUS
  <1> QED  BY <1>1, <1>2

LEMMA LaterInterval ==
    ASSUME NEW l \in Nat, NEW m \in Nat, m >= l, NEW n \in Nat
    PROVE  (m + 1)..n \subseteq (l + 1)..n
  OBVIOUS

\* The Hub has what the client has let go of.
LEMMA FirstAreStored ==
    ASSUME ChannelInv
    PROVE  1..LetGo \subseteq stored
  <1>0. /\ tracked \in Nat /\ LetGo \in Nat /\ LetGo <= tracked
        /\ Len(Kept) \in Nat
    BY BatchIsOldest
  <1>1. 1..tracked = stored \cup Elems(Kept)
    BY KeptMeaning DEF ChannelInv, BufferInv
  <1>2. \A e \in Elems(Kept) : e > LetGo
    BY <1>0 DEF ChannelInv, KeptIsSuffix, Elems
  <1> QED  BY <1>0, <1>1, <1>2

\* What waits after the step, and how many events were let go of.
LEMMA StepIsDelivery ==
    ASSUME ChannelInv, BufferInv', RecordStep \/ StoredStep \/ LateStep \/ KeepStep
    PROVE  /\ KeptIsSuffix'
           /\ LetGo' \in Nat /\ LetGo' >= LetGo
           /\ Channel!Next \/ UNCHANGED <<tracked, stored, LetGo>>
  <1>0. /\ tracked \in Nat /\ Len(batch) \in Nat /\ Len(buffer) \in Nat
        /\ Len(Kept) = Len(batch) + Len(buffer) /\ Kept \in Seq(Numbers)
        /\ LetGo \in Nat /\ LetGo + Len(batch) <= tracked
    BY BatchIsOldest
  <1>1. Len(Kept) <= tracked /\ \A k \in 1..Len(Kept) : Kept[k] = LetGo + k
    BY DEF ChannelInv, KeptIsSuffix
  <1>2. Len(Kept') = Len(batch') + Len(buffer') /\ Len(Kept') \in Nat
    <2>1. batch' \in Seq(Numbers) /\ buffer' \in Seq(Numbers)
      BY DEF BufferInv, TypeInv, BufferOK
    <2> QED  BY <2>1, ConcatProperties, LenProperties DEF Kept
  <1>3. LetGo = tracked - Len(Kept) /\ LetGo' = tracked' - Len(Kept')
    BY <1>0, <1>2 DEF LetGo
  <1>4. CASE RecordStep
    <2>1. /\ Len(Kept') = Len(Kept) + 1 /\ Kept'[Len(Kept) + 1] = tracked + 1
          /\ \A k \in 1..Len(Kept) : Kept'[k] = Kept[k]
      <3>1. tracked + 1 \in Numbers
        BY <1>0, <1>4, SizesAssumption DEF RecordStep, BufferInv, TypeInv, BufferOK, Numbers
      <3> QED  BY <1>0, <1>4, <3>1, AppendProperties DEF RecordStep
    <2>2. LetGo' = LetGo /\ tracked' = tracked + 1 /\ stored' = stored
      BY <1>0, <1>3, <1>4, <2>1 DEF RecordStep
    <2>3. KeptIsSuffix'
      <3>1. ASSUME NEW k \in 1..Len(Kept') PROVE Kept'[k] = LetGo' + k
        <4>1. CASE k \in 1..Len(Kept)
          BY <1>1, <2>1, <2>2, <4>1
        <4>2. CASE k = Len(Kept) + 1
          BY <1>0, <1>3, <2>1, <2>2, <4>2
        <4> QED  BY <1>0, <2>1, <4>1, <4>2
      <3> QED  BY <1>0, <1>1, <2>1, <2>2, <3>1 DEF KeptIsSuffix
    <2>4. Channel!Record
      BY <2>2 DEF Channel!Record, LetGo
    <2> QED  BY <1>0, <2>2, <2>3, <2>4 DEF Channel!Next
  <1>5. CASE StoredStep
    <2>1. tracked' = tracked /\ stored' = stored \cup (LetGo + 1)..(LetGo + Len(batch))
      BY <1>5, BatchIsOldest DEF StoredStep
    <2>2. LetGo' = LetGo + Len(batch)
      BY <1>0, <1>3, <1>5, <2>1 DEF StoredStep
    <2>3. KeptIsSuffix'
      <3>1. \A k \in 1..Len(Kept') : Kept'[k] = LetGo' + k
        BY <1>5, <2>2, BatchIsOldest DEF StoredStep
      <3>2. Len(buffer) <= tracked
        BY <1>0, <1>1
      <3>3. Len(Kept') <= tracked'
        BY <1>5, <2>1, <3>2 DEF StoredStep
      <3> QED  BY <3>1, <3>3 DEF KeptIsSuffix
    <2>4. Channel!Deliver
      <3>1. LetGo + Len(batch) \in LetGo..tracked /\ LetGo' \in {LetGo, LetGo + Len(batch)}
        BY <1>0, <2>2
      <3> QED  BY <2>1, <3>1 DEF Channel!Deliver, LetGo
    <2> QED  BY <1>0, <2>2, <2>3, <2>4 DEF Channel!Next
  <1>6. CASE KeepStep
    <2>1. LetGo' = LetGo
      BY <1>3, <1>6 DEF KeepStep
    <2>2. KeptIsSuffix'
      BY <1>1, <1>6, <2>1 DEF KeptIsSuffix, KeepStep
    <2> QED  BY <1>0, <1>6, <2>1, <2>2 DEF KeepStep
  <1>7. CASE LateStep
    <2>1. PICK events \in late : UNCHANGED <<Kept, tracked>> /\ stored' = stored \cup events
      BY <1>7 DEF LateStep
    <2>2. LetGo' = LetGo
      BY <1>3, <2>1
    <2>3. KeptIsSuffix'
      BY <1>1, <2>1, <2>2 DEF KeptIsSuffix
    <2>4. PICK n \in 0..tracked : events \subseteq 1..n /\ (LetGo + 1)..n \subseteq events
      BY DEF ChannelInv, LateIsOldest
    <2>5. 1..LetGo \subseteq stored /\ n \in Nat /\ LetGo \in Nat
      BY <1>0, FirstAreStored
    <2>6. CASE n <= LetGo
      <3>1. stored' = stored
        <4>1. stored \cup events = stored
          BY <2>4, <2>5, <2>6, OldBatch
        <4> QED  BY <2>1, <4>1
      <3> QED  BY <1>0, <2>1, <2>2, <2>3, <3>1
    <2>7. CASE n > LetGo
      <3>1. stored' = stored \cup (LetGo + 1)..n
        <4>1. stored \cup events = stored \cup (LetGo + 1)..n
          BY <2>4, <2>5, <2>7, OldBatch
        <4> QED  BY <2>1, <4>1
      <3>2. Channel!Deliver
        BY <1>0, <2>1, <2>2, <2>7, <3>1 DEF Channel!Deliver, LetGo
      <3> QED  BY <1>0, <2>2, <2>3, <3>2 DEF Channel!Next
    <2> QED  BY <1>0, <2>6, <2>7
  <1> QED  BY <1>4, <1>5, <1>6, <1>7

LEMMA StillOldest ==
    ASSUME ChannelInv, BufferInv', [Next]_vars, LetGo' \in Nat, LetGo' >= LetGo
    PROVE  LateIsOldest'
  <1>0. /\ tracked \in Nat /\ LetGo \in Nat /\ Len(batch) \in Nat
        /\ LetGo + Len(batch) <= tracked /\ TypeInv' /\ BufferInv
    BY BatchIsOldest DEF ChannelInv, BufferInv
  <1>1. tracked' = tracked \/ tracked' = tracked + 1
    BY <1>0, NextKept DEF RecordStep, StoredStep, LateStep, KeepStep
  <1> SUFFICES ASSUME NEW events \in late'
               PROVE  \E n \in 0..tracked' : events \subseteq 1..n /\ (LetGo' + 1)..n \subseteq events
    BY DEF LateIsOldest
  <1>2. PICK n \in 0..tracked : events \subseteq 1..n /\ (LetGo + 1)..n \subseteq events
    <2>1. CASE events \in late
      BY <2>1 DEF ChannelInv, LateIsOldest
    <2>2. CASE events = Elems(batch)
      <3>1. LetGo + Len(batch) \in 0..tracked
        BY <1>0
      <3>2. events = (LetGo + 1)..(LetGo + Len(batch))
        BY <2>2, BatchIsOldest
      <3>3. events \subseteq 1..(LetGo + Len(batch))
        BY <1>0, <3>2
      <3> QED  BY <3>1, <3>2, <3>3
    <2> QED  BY <1>0, <2>1, <2>2, NextKept
  <1>3. n \in 0..tracked' /\ (LetGo' + 1)..n \subseteq (LetGo + 1)..n
    <2>1. n \in Nat /\ n <= tracked
      BY <1>0
    <2>2. (LetGo' + 1)..n \subseteq (LetGo + 1)..n
      BY <1>0, <2>1, LaterInterval
    <2>3. tracked' \in Nat /\ n <= tracked'
      BY <1>0, <1>1, <2>1
    <2>4. n \in 0..tracked'
      BY <2>1, <2>3
    <2> QED  BY <2>2, <2>4
  <1> QED  BY <1>2, <1>3

LEMMA NextChannel == ChannelInv /\ [Next]_vars => ChannelInv' /\ [Channel!Next]_(Channel!channelVars)
  <1> SUFFICES ASSUME ChannelInv, [Next]_vars
               PROVE  ChannelInv' /\ [Channel!Next]_(Channel!channelVars)
    OBVIOUS
  <1>1. BufferInv' /\ TypeInv'
    BY NextBuffer DEF ChannelInv, BufferInv
  <1>2. /\ KeptIsSuffix' /\ LetGo' \in Nat /\ LetGo' >= LetGo
        /\ Channel!Next \/ UNCHANGED <<tracked, stored, LetGo>>
    <2>1. RecordStep \/ StoredStep \/ LateStep \/ KeepStep
      BY <1>1, NextKept DEF ChannelInv
    <2> QED  BY <1>1, <2>1, StepIsDelivery
  <1>3. LateIsOldest'
    BY <1>1, <1>2, StillOldest
  <1> QED  BY <1>1, <1>2, <1>3 DEF ChannelInv, Channel!channelVars, LetGo

\* RefinesChannel: for any number of calls and concurrent requests, whatever fails and is repeated,
\* the client sends the oldest events that wait and lets go of none that the Hub does not have.
THEOREM BufferIsChannel == Spec => RefinesChannel
  <1> QED  BY InitChannel, NextChannel, PTL DEF Spec, RefinesChannel, Channel!Spec

\* A step of such a channel leaves no gap in what was received, and adds to its end.
LEMMA DeliveryLeavesNoGap ==
    ASSUME ChannelInv, ChannelInv', [Channel!Next]_(Channel!channelVars), Channel!ReceivedIsPrefix
    PROVE  /\ Channel!ReceivedIsPrefix'
           /\ \A new \in stored' \ stored, old \in stored : old < new
  <1>1. LetGo \in Nat /\ tracked \in Nat
    BY BatchIsOldest
  <1>2. PICK last \in LetGo..tracked : stored = 1..last
    BY DEF Channel!ReceivedIsPrefix, LetGo
  <1>3. ASSUME NEW n \in LetGo'..tracked', stored' = 1..n PROVE Channel!ReceivedIsPrefix'
    BY <1>3 DEF Channel!ReceivedIsPrefix, LetGo
  <1>4. CASE Channel!Record
    <2>1. last \in LetGo'..tracked' /\ stored' = 1..last
      BY <1>1, <1>2, <1>4 DEF Channel!Record, LetGo
    <2> QED  BY <1>2, <1>3, <2>1
  <1>5. CASE Channel!Deliver
    <2>1. PICK n \in LetGo..tracked : /\ stored' = stored \cup (LetGo + 1)..n
                                      /\ LetGo' \in {LetGo, n} /\ tracked' = tracked
      BY <1>5 DEF Channel!Deliver, LetGo
    <2>2. CASE n <= last
      <3>1. last \in LetGo'..tracked' /\ stored' = 1..last
        BY <1>1, <1>2, <2>1, <2>2
      <3> QED  BY <1>2, <1>3, <3>1
    <2>3. CASE n > last
      <3>1. n \in LetGo'..tracked' /\ stored' = 1..n
        BY <1>1, <1>2, <2>1, <2>3
      <3>2. \A new \in stored' \ stored, old \in stored : old < new
        BY <1>1, <1>2, <3>1
      <3> QED  BY <1>3, <3>1, <3>2
    <2> QED  BY <1>1, <1>2, <2>1, <2>2, <2>3
  <1>6. CASE UNCHANGED <<tracked, stored, LetGo>>
    BY <1>1, <1>2, <1>3, <1>6
  <1> QED  BY <1>4, <1>5, <1>6 DEF Channel!Next, Channel!channelVars, LetGo

LEMMA PrefixAtFirst == Init => Channel!ReceivedIsPrefix
  <1> SUFFICES ASSUME Init PROVE Channel!ReceivedIsPrefix
    OBVIOUS
  <1>1. LetGo = 0 /\ tracked = 0 /\ stored = {}
    BY InitChannel DEF Channel!Init, LetGo
  <1>2. 0 \in LetGo..tracked /\ stored = 1..0
    BY <1>1
  <1> QED  BY <1>2 DEF Channel!ReceivedIsPrefix, LetGo

\* ReceivedIsPrefix, which the client inherits from the channel: the Hub never has an event and
\* misses one recorded before it, so what a tenant is billed for is a beginning of what it used.
THEOREM HubHasPrefix == Spec => []Channel!ReceivedIsPrefix
  BY PrefixAtFirst, InitChannel, NextChannel, DeliveryLeavesNoGap, PTL DEF Spec

\* ArrivesInOrder, which the client inherits from the channel too: an event arrives for the first
\* time after all that were recorded before it, however often any of them is sent again.
THEOREM HubHearsInOrder == Spec => Channel!ArrivesInOrder
  <1>1. ASSUME \A new \in stored' \ stored, old \in stored : old < new
        PROVE  [\A new \in stored' \ stored, old \in stored : old < new]_(Channel!channelVars)
    BY <1>1
  <1> QED  BY <1>1, PrefixAtFirst, InitChannel, NextChannel, DeliveryLeavesNoGap, PTL
           DEF Spec, Channel!ArrivesInOrder
=============================================================================
