---------------------------- MODULE MailboxProofs ----------------------------
(***************************************************************************)
(* The mailbox, for any number of requests and notifications, packets per  *)
(* message, restarts of either side and lost packets.                      *)
(***************************************************************************)
EXTENDS Mailbox, QueueProofs, TLAPS

(* What the RX thread computes: the functions of the state st of one side's  *)
(* RX channel.                                                               *)

\* Such a state, with its types and bounds; nothing is received unless a message
\* is in progress.
RxOK(st) ==
    /\ st \in [side : Side, ch : RxChannel, reqs : Seq(Cached),
               done : [Req -> Outcome \cup {None}]]
    /\ Len(st.ch.got) <= NPkt /\ Len(st.reqs) <= MaxReq
    /\ st.ch.cur = None => st.ch.got = <<>>

\* A message that comes in is a request for the listener or a response to a caller.
LEMMA InboundIs ==
    /\ \A c \in Inbound : /\ c # None /\ c.k \in {"req", "resp"}
                          /\ c.k = "req" => c.m \in Message
                          /\ c.k = "resp" => c.s \in Req
    /\ \A m \in Message : [k |-> "req", s |-> None, m |-> m] \in Inbound
    /\ \A r \in Req, m \in Message \cup {None} : [k |-> "resp", s |-> r, m |-> m] \in Inbound
  BY NoneAssumption, Zenon DEF Inbound

\* What chan_msg_done() makes of the RX channel: the message in progress goes to
\* the listener, if there is room, or to its caller.
LEMMA RxDoneIs ==
    ASSUME NEW st, RxOK(st), st.ch.cur # None, NEW err \in Errors
    PROVE  LET c  == st.ch.cur
               to == RxDone(st, err)
           IN /\ to.side = st.side /\ to.ch.wait = st.ch.wait
              /\ to.ch.cur = None /\ to.ch.got = <<>>
              /\ \/ to.reqs = st.reqs
                 \/ /\ c.k = "req" /\ Len(st.reqs) < MaxReq
                    /\ to.reqs = Append(st.reqs, [m |-> c.m, err |-> err, data |-> st.ch.got])
              /\ \/ c.k = "req" /\ to.done = st.done
                 \/ /\ c.k = "resp" /\ c.s \in Req
                    /\ to.done = [st.done EXCEPT ![c.s] = [err |-> err, data |-> st.ch.got]]
              /\ RxOK(to)
<1> DEFINE c == st.ch.cur
           to == RxDone(st, err)
           x == [m |-> c.m, err |-> err, data |-> st.ch.got]
           y == [err |-> err, data |-> st.ch.got]
<1>1. /\ st.side \in Side /\ st.ch \in RxChannel /\ st.reqs \in Seq(Cached)
      /\ st.done \in [Req -> Outcome \cup {None}] /\ Len(st.ch.got) <= NPkt /\ Len(st.reqs) <= MaxReq
  BY Zenon DEF RxOK
<1>2. /\ c \in Inbound /\ st.ch.got \in Seq(Packet) /\ st.ch.wait \in Seq(Req)
  BY <1>1, Zenon DEF RxChannel
<1>3. c.k \in {"req", "resp"} /\ (c.k = "req" => c.m \in Message) /\ (c.k = "resp" => c.s \in Req)
  BY <1>2, InboundIs, Zenon
<1>4. /\ to.side = st.side /\ to.ch.wait = st.ch.wait /\ to.ch.cur = None /\ to.ch.got = <<>>
      /\ to.ch \in RxChannel
  <2> DEFINE t == RxTimer(st.side, st.ch.wait)
             ch == st.ch
  <2>1. to.side = st.side /\ to.ch = [ch EXCEPT !.cur = None, !.got = <<>>, !.timer = t]
    BY Zenon DEF RxDone
  <2>2. t \in BOOLEAN
    BY Zenon DEF RxTimer
  <2>3. ch \in RxChannel
    BY <1>1, Zenon
  <2>4. <<>> \in Seq(Packet)
    BY EmptyList, Zenon
  <2> HIDE DEF t, to, ch
  <2> QED BY <2>1, <2>2, <2>3, <2>4, Zenon DEF RxChannel, ch
<1>5. /\ to.reqs = IF c.k = "resp" \/ Len(st.reqs) >= MaxReq THEN st.reqs ELSE Append(st.reqs, x)
      /\ to.done = IF c.k = "req" THEN st.done ELSE [st.done EXCEPT ![c.s] = y]
  BY Zenon DEF RxDone
<1>6. y \in Outcome
  BY <1>2, Zenon DEF Outcome
<1>7. c.k = "req" => x \in Cached
  BY <1>2, <1>3, Zenon DEF Cached
<1>8. to = [side |-> to.side, ch |-> to.ch, reqs |-> to.reqs, done |-> to.done]
  BY Zenon DEF RxDone
<1> HIDE DEF x, y, to, c
<1>9. /\ to.reqs \in Seq(Cached) /\ Len(to.reqs) <= MaxReq
      /\ \/ to.reqs = st.reqs
         \/ c.k = "req" /\ Len(st.reqs) < MaxReq /\ to.reqs = Append(st.reqs, x)
  BY <1>1, <1>3, <1>5, <1>7, MailboxAssumption
<1>10. /\ to.done \in [Req -> Outcome \cup {None}]
       /\ \/ c.k = "req" /\ to.done = st.done
          \/ c.k = "resp" /\ c.s \in Req /\ to.done = [st.done EXCEPT ![c.s] = y]
  BY <1>1, <1>3, <1>5, <1>6, Zenon
<1>11. RxOK(to)
  <2>1. Len(to.ch.got) <= NPkt
    BY <1>4, MailboxAssumption
  <2> QED BY <1>1, <1>4, <1>8, <1>9, <1>10, <2>1, Zenon DEF RxOK
<1> QED BY <1>4, <1>9, <1>10, <1>11, Zenon DEF x, y, to, c

\* The RX channel has the response message of r.
Waits(st, r) ==
    \/ r \in SeqSet(st.ch.wait)
    \/ st.ch.cur # None /\ st.ch.cur.k = "resp" /\ st.ch.cur.s = r

\* No response message is lost between st and to: its caller is woken, or it is
\* still there.
RxKeeps(st, to) ==
    \A r \in Req : to.done[r] = None => st.done[r] = None /\ (Waits(st, r) => Waits(to, r))

\* All the packets of one message, in order.
Fine(d) == d = Whole(d[1].m)

\* What was received without an error is whole.
RxFine(st) ==
    /\ \A r \in Req : st.done[r] # None /\ st.done[r].err = "ok" => Fine(st.done[r].data)
    /\ \A x \in SeqSet(st.reqs) : x.err = "ok" => Fine(x.data)

\* A message that is done reaches its caller or the listener, as it was received.
LEMMA RxDoneKeeps ==
    ASSUME NEW st, RxOK(st), st.ch.cur # None, NEW err \in Errors
    PROVE  /\ RxOK(RxDone(st, err)) /\ RxKeeps(st, RxDone(st, err))
           /\ RxDone(st, err).ch.cur = None /\ RxDone(st, err).side = st.side
           /\ RxDone(st, err).ch.wait = st.ch.wait
           /\ RxFine(st) /\ (err = "ok" => Fine(st.ch.got)) => RxFine(RxDone(st, err))
<1> DEFINE c == st.ch.cur
           to == RxDone(st, err)
           x == [m |-> c.m, err |-> err, data |-> st.ch.got]
           y == [err |-> err, data |-> st.ch.got]
<1>1. /\ to.side = st.side /\ to.ch.wait = st.ch.wait /\ to.ch.cur = None /\ to.ch.got = <<>>
      /\ to.reqs = st.reqs \/ to.reqs = Append(st.reqs, x)
      /\ \/ c.k = "req" /\ to.done = st.done
         \/ c.k = "resp" /\ c.s \in Req /\ to.done = [st.done EXCEPT ![c.s] = y]
      /\ RxOK(to)
  BY RxDoneIs, Zenon
<1>2. /\ st.done \in [Req -> Outcome \cup {None}] /\ st.reqs \in Seq(Cached) /\ to.reqs \in Seq(Cached)
  BY <1>1, Zenon DEF RxOK
<1>3. y # None /\ y.err = err /\ y.data = st.ch.got
  <2>1. st.ch.got \in Seq(Packet)
    BY Zenon DEF RxOK, RxChannel
  <2> QED BY <2>1, NoneAssumption DEF Outcome
<1>4. x.err = err /\ x.data = st.ch.got
  BY Zenon
<1> HIDE DEF to, y, x
<1>5. RxKeeps(st, to)
  BY <1>1, <1>2, <1>3, Zenon DEF RxKeeps, Waits
<1>6. ASSUME RxFine(st), err = "ok" => Fine(st.ch.got) PROVE RxFine(to)
  <2>1. ASSUME NEW r \in Req, to.done[r] # None, to.done[r].err = "ok" PROVE Fine(to.done[r].data)
    <3>1. to.done[r] = st.done[r] \/ to.done[r] = y
      BY <1>1, <1>2, Zenon
    <3> QED BY <1>3, <1>6, <2>1, <3>1, Zenon DEF RxFine
  <2>2. ASSUME NEW z \in SeqSet(to.reqs), z.err = "ok" PROVE Fine(z.data)
    <3>1. z \in SeqSet(st.reqs) \/ z = x
      <4>1. CASE to.reqs = st.reqs
        BY <4>1, Zenon
      <4>2. CASE to.reqs = Append(st.reqs, x)
        BY <1>2, <4>2 DEF SeqSet
      <4> QED BY <1>1, <4>1, <4>2, Zenon
    <3> QED BY <1>4, <1>6, <2>2, <3>1, Zenon DEF RxFine
  <2> QED BY <2>1, <2>2, Zenon DEF RxFine
<1> QED BY <1>1, <1>5, <1>6, Zenon DEF to

\* What the callers and the listener have is not touched.
LEMMA RxFineSame ==
    ASSUME NEW st, NEW to, to.done = st.done, to.reqs = st.reqs
    PROVE  RxFine(st) => RxFine(to)
  BY Zenon DEF RxFine

\* One step of the RX thread after another.
LEMMA RxKeepsTrans ==
    ASSUME NEW a, NEW b, NEW c, RxKeeps(a, b), RxKeeps(b, c)
    PROVE  RxKeeps(a, c)
  BY Zenon DEF RxKeeps

\* Message c is in progress in to, and w waits; the rest is as in st.
RxHeld(st, to, c, w) ==
    /\ RxOK(to) /\ to.ch.cur = c /\ to.ch.wait = w /\ to.ch.got = <<>>
    /\ to.side = st.side /\ to.reqs = st.reqs /\ to.done = st.done

\* The message that a packet starts, or the slot holds, is put in progress.
LEMMA RxHold ==
    ASSUME NEW st, RxOK(st), st.ch.cur = None, NEW c \in Inbound, NEW w \in Seq(Req)
    PROVE  /\ RxHeld(st, [st EXCEPT !.ch.cur = c, !.ch.wait = w], c, w)
           /\ RxHeld(st, [st EXCEPT !.ch.cur = c], c, st.ch.wait)
<1>1. /\ st \in [side : Side, ch : RxChannel, reqs : Seq(Cached), done : [Req -> Outcome \cup {None}]]
      /\ st.ch.got = <<>> /\ Len(st.ch.got) <= NPkt /\ Len(st.reqs) <= MaxReq
  BY Zenon DEF RxOK
<1>2. c # None
  BY InboundIs, Zenon
<1>3. ASSUME NEW to, NEW v \in Seq(Req),
             \/ to = [st EXCEPT !.ch.cur = c, !.ch.wait = v]
             \/ to = [st EXCEPT !.ch.cur = c] /\ v = st.ch.wait
      PROVE  RxHeld(st, to, c, v)
  <2> DEFINE h == [st.ch EXCEPT !.cur = c, !.wait = v]
  <2>1. to.ch = h /\ to = [st EXCEPT !.ch = h]
    <3>1. st.ch = [wait |-> st.ch.wait, cur |-> st.ch.cur, got |-> st.ch.got, timer |-> st.ch.timer]
      BY <1>1, Zenon DEF RxChannel
    <3>2. CASE to = [st EXCEPT !.ch.cur = c, !.ch.wait = v]
      BY <1>1, <3>1, <3>2, Zenon
    <3>3. CASE to = [st EXCEPT !.ch.cur = c] /\ v = st.ch.wait
      BY <1>1, <3>1, <3>3, Zenon
    <3> QED BY <1>3, <3>2, <3>3, Zenon
  <2>2. h \in RxChannel /\ h.cur = c /\ h.wait = v /\ h.got = st.ch.got
    BY <1>1, Zenon DEF RxChannel
  <2> HIDE DEF h
  <2> QED BY <1>1, <1>2, <2>1, <2>2, Zenon DEF RxOK, RxHeld
<1>4. st.ch.wait \in Seq(Req)
  BY <1>1, Zenon DEF RxChannel
<1> QED BY <1>3, <1>4, Zenon

\* A set of positions that is not empty has a first.
LEMMA FirstOf ==
    ASSUME NEW S, S \subseteq Nat, S # {}
    PROVE  \E i \in S : \A j \in S : i <= j
<1> DEFINE R == {ss \in Nat \X Nat : ss[1] < ss[2]}
<1>1. IsWellFoundedOn(R, Nat)
  BY NatLessThanWellFounded, Zenon DEF OpToRel
<1>2. \A x, y \in Nat : x < y => <<x, y>> \in R
  BY Zenon
<1> HIDE DEF R
<1>3. PICK x \in S : \A y \in S : ~ (<<y, x>> \in R)
  BY <1>1, WFMin, Zenon
<1>4. ASSUME NEW y \in S PROVE x <= y
  <2>1. x \in Nat /\ y \in Nat
    BY Zenon
  <2>2. ~(y < x)
    BY <1>2, <1>3, <2>1, Zenon
  <2> QED BY <2>1, <2>2
<1> QED BY <1>4, Zenon

\* dequeue_rx_msg() finds a buffer for the message, or none; the caller that waits
\* for a response keeps its message, or is told that it does not fit.
LEMMA RxDequeueKeeps ==
    ASSUME NEW st, RxOK(st), st.ch.cur = None, NEW m \in Message
    PROVE  LET to == RxDequeue(st, m)
           IN /\ RxOK(to) /\ RxKeeps(st, to) /\ to.side = st.side /\ to.ch.got = <<>>
              /\ to.ch.cur = None \/ to.ch.cur.m = m
              /\ RxFine(st) => RxFine(to)
<1> DEFINE at == {i \in DOMAIN st.ch.wait : buf[st.ch.wait[i]] = m.id}
           i == CHOOSE i \in at : \A j \in at : i <= j
           s == st.ch.wait[i]
           w == Only(st.ch.wait, Req \ {s})
           c == [k |-> "resp", s |-> s, m |-> m]
           go == [st EXCEPT !.ch.cur = c, !.ch.wait = w]
           to == RxDequeue(st, m)
<1>0. /\ st.ch.wait \in Seq(Req) /\ st.ch.got = <<>> /\ st.done \in [Req -> Outcome \cup {None}]
  BY Zenon DEF RxOK, RxChannel
<1>1. CASE m.k # "resp"
  <2> DEFINE d == [k |-> "req", s |-> None, m |-> m]
  <2>1. to = [st EXCEPT !.ch.cur = d]
    BY <1>1, Zenon DEF RxDequeue
  <2>2. d \in Inbound /\ d.m = m
    BY InboundIs, Zenon
  <2> HIDE DEF d, to
  <2>3. /\ RxOK(to) /\ to.ch.cur = d /\ to.ch.wait = st.ch.wait /\ to.ch.got = <<>>
        /\ to.side = st.side /\ to.reqs = st.reqs /\ to.done = st.done
    <3>1. RxHeld(st, to, d, st.ch.wait)
      BY <1>0, <2>1, <2>2, RxHold, Zenon
    <3> QED BY <3>1, Zenon DEF RxHeld
  <2>4. RxKeeps(st, to)
    BY <2>3, Zenon DEF RxKeeps, Waits
  <2>5. RxFine(st) => RxFine(to)
    BY <2>3, RxFineSame, Zenon
  <2> QED BY <2>2, <2>3, <2>4, <2>5, Zenon DEF to
<1>2. CASE m.k = "resp" /\ at = {}
  <2>1. to = st
    BY <1>2, Zenon DEF RxDequeue
  <2> QED BY <1>0, <2>1, Zenon DEF RxKeeps
<1>3. CASE m.k = "resp" /\ at # {}
  <2>1. to = IF m.big THEN RxDone(go, "msgsize") ELSE go
    BY <1>3, Zenon DEF RxDequeue
  <2>2. s \in Req
    <3>1. at \subseteq Nat
      BY <1>0
    <3>2. i \in at
      <4> HIDE DEF at
      <4> QED BY <1>3, <3>1, FirstOf, Zenon
    <3> HIDE DEF i
    <3> QED BY <1>0, <3>2
  <2>3. c \in Inbound /\ c.m = m /\ c.k = "resp" /\ c.s = s /\ c # None
    <3> HIDE DEF s
    <3> QED BY <2>2, InboundIs, Zenon
  <2>4. w \in Seq(Req) /\ SeqSet(w) = SeqSet(st.ch.wait) \cap (Req \ {s})
    <3> HIDE DEF s
    <3> QED BY <1>0, OnlyType, Zenon
  <2> HIDE DEF w, c, s, to
  <2>5. /\ RxOK(go) /\ go.ch.cur = c /\ go.ch.wait = w /\ go.ch.got = <<>>
        /\ go.side = st.side /\ go.reqs = st.reqs /\ go.done = st.done
    <3>1. RxHeld(st, go, c, w)
      BY <2>3, <2>4, RxHold, Zenon
    <3> QED BY <3>1, Zenon DEF RxHeld
  <2> HIDE DEF go
  <2>6. RxKeeps(st, go)
    BY <2>3, <2>4, <2>5, Zenon DEF RxKeeps, Waits
  <2>7. RxFine(st) => RxFine(go)
    BY <2>5, RxFineSame, Zenon
  <2>8. CASE to = go
    BY <2>3, <2>5, <2>6, <2>7, <2>8, Zenon DEF to
  <2>9. CASE to = RxDone(go, "msgsize")
    <3>1. /\ RxOK(to) /\ RxKeeps(go, to) /\ to.ch.cur = None /\ to.side = go.side
          /\ RxFine(go) => RxFine(to)
      BY <2>3, <2>5, <2>9, RxDoneKeeps, Zenon DEF Errors
    <3>2. to.ch.got = <<>>
      BY <3>1, Zenon DEF RxOK
    <3> QED BY <2>5, <2>6, <2>7, <3>1, <3>2, RxKeepsTrans, Zenon DEF to
  <2> QED BY <2>1, <2>8, <2>9, Zenon
<1> QED BY <1>1, <1>2, <1>3, Zenon

\* What has been received of the message in progress is its first packets.
Started(st) ==
    st.ch.cur # None =>
        /\ Len(st.ch.got) \in 1 .. NPkt - 1
        /\ \A i \in 1 .. Len(st.ch.got) : st.ch.got[i] = Pkt(st.ch.cur.m, i)

\* A packet that a sender may put on the wire after what has been received in st.
Follows(st, pkt) ==
    st.ch.cur # None =>
        /\ Len(st.ch.got) \in 0 .. NPkt - 1
        /\ \A i \in 1 .. Len(st.ch.got) : st.ch.got[i] = Pkt(st.ch.cur.m, i)
        /\ pkt = Pkt(st.ch.cur.m, Len(st.ch.got) + 1)

\* All the packets of a message, and the list of them.
LEMMA WholeIs ==
    ASSUME NEW m
    PROVE  /\ Whole(m)[1].m = m /\ Fine(Whole(m))
           /\ m \in Message => Whole(m) \in Seq(Packet) /\ Len(Whole(m)) = NPkt
<1>1. 1 \in 1 .. NPkt /\ NPkt \in Nat
  BY MailboxAssumption
<1>2. Whole(m)[1].m = m
  BY <1>1, Zenon DEF Whole, Pkt
<1>3. ASSUME m \in Message PROVE Whole(m) \in Seq(Packet) /\ Len(Whole(m)) = NPkt
  <2>1. \A i \in 1 .. NPkt : Pkt(m, i) \in Packet
    BY <1>3, Zenon DEF Pkt, Packet
  <2> QED BY <1>1, <2>1 DEF Whole
<1> QED BY <1>2, <1>3, Zenon DEF Fine

\* chan_pkt2msg() and what follows it: a packet is added to the message in
\* progress, or dropped, or ends it.
LEMMA RxAcceptKeeps ==
    ASSUME NEW st, RxOK(st), NEW pkt \in Packet
    PROVE  LET to == RxAccept(st, pkt)
           IN /\ RxOK(to) /\ RxKeeps(st, to) /\ to.side = st.side
              /\ Follows(st, pkt) /\ RxFine(st) =>
                    /\ RxFine(to) /\ Started(to)
                    /\ to.ch.cur # None => pkt = Pkt(to.ch.cur.m, Len(to.ch.got))
<1> DEFINE to == RxAccept(st, pkt)
           n == Len(st.ch.got)
           g == Append(st.ch.got, pkt)
           more == [st EXCEPT !.ch.got = Append(@, pkt)]
<1>0. /\ st.ch \in RxChannel /\ st.ch.got \in Seq(Packet) /\ n \in Nat /\ n <= NPkt /\ NPkt \in Nat \ {0}
      /\ st \in [side : Side, ch : RxChannel, reqs : Seq(Cached), done : [Req -> Outcome \cup {None}]]
  BY MailboxAssumption DEF RxOK, RxChannel
<1>1. CASE st.ch.cur = None
  <2>1. to = st
    BY <1>1, Zenon DEF RxAccept
  <2> QED BY <1>1, <2>1, Zenon DEF RxKeeps, Started
<1>2. CASE st.ch.cur # None /\ n = NPkt
  <2>1. to = RxDone(st, "badmsg")
    BY <1>0, <1>2 DEF RxAccept
  <2>2. "badmsg" \in Errors /\ "badmsg" # "ok"
    BY Zenon DEF Errors
  <2> HIDE DEF to
  <2>3. RxOK(to) /\ RxKeeps(st, to) /\ to.ch.cur = None /\ to.side = st.side /\ (RxFine(st) => RxFine(to))
    BY <1>2, <2>1, <2>2, RxDoneKeeps, Zenon
  <2> QED BY <2>3, Zenon DEF Started, to
<1>3. CASE st.ch.cur # None /\ n < NPkt
  <2>1. to = IF pkt.i = NPkt THEN RxDone(more, "ok") ELSE more
    <3>1. n # NPkt
      BY <1>0, <1>3
    <3> QED BY <1>3, <3>1, Zenon DEF RxAccept
  <2>2. g \in Seq(Packet) /\ Len(g) = n + 1 /\ Len(g) <= NPkt /\ g[n + 1] = pkt
        /\ \A i \in 1 .. n : g[i] = st.ch.got[i]
    BY <1>0, <1>3
  <2>3. more.ch = [st.ch EXCEPT !.got = g] /\ more = [st EXCEPT !.ch = [st.ch EXCEPT !.got = g]]
    BY <1>0, Zenon DEF RxChannel
  <2>4. /\ more.ch.cur = st.ch.cur /\ more.ch.wait = st.ch.wait /\ more.ch.got = g
        /\ more.side = st.side /\ more.done = st.done /\ more.reqs = st.reqs
    <3> HIDE DEF g, more
    <3> QED BY <1>0, <2>3, Zenon DEF RxChannel
  <2>5. RxOK(more)
    <3>1. more.ch \in RxChannel
      <4> HIDE DEF g
      <4> QED BY <1>0, <2>2, <2>3, Zenon DEF RxChannel
    <3> HIDE DEF g, more
    <3> QED BY <1>0, <1>3, <2>2, <2>3, <2>4, <3>1, Zenon DEF RxOK
  <2> HIDE DEF g, more, to
  <2>6. RxKeeps(st, more) /\ (RxFine(st) => RxFine(more))
    <3>1. RxFine(st) => RxFine(more)
      BY <2>4, RxFineSame, Zenon
    <3> QED BY <2>4, <3>1, Zenon DEF RxKeeps, Waits
  <2>7. ASSUME Follows(st, pkt) PROVE \A i \in 1 .. n + 1 : g[i] = Pkt(st.ch.cur.m, i)
    BY <1>0, <1>3, <2>2, <2>7 DEF Follows
  <2>8. CASE pkt.i = NPkt
    <3>1. to = RxDone(more, "ok") /\ "ok" \in Errors
      BY <2>1, <2>8, Zenon DEF Errors
    <3>2. /\ RxOK(to) /\ RxKeeps(more, to) /\ to.ch.cur = None /\ to.side = more.side
          /\ RxFine(more) /\ Fine(g) => RxFine(to)
      BY <1>3, <2>4, <2>5, <3>1, RxDoneKeeps, Zenon
    <3>3. ASSUME Follows(st, pkt) PROVE Fine(g)
      <4>1. n + 1 = NPkt
        BY <1>3, <2>8, <3>3 DEF Follows, Pkt
      <4>2. g = Whole(st.ch.cur.m)
        <5>1. g = [i \in 1 .. Len(g) |-> g[i]]
          BY <2>2
        <5>2. Len(g) = NPkt /\ \A i \in 1 .. NPkt : g[i] = Pkt(st.ch.cur.m, i)
          BY <2>2, <2>7, <3>3, <4>1, Zenon
        <5>3. [i \in 1 .. Len(g) |-> g[i]] = [i \in 1 .. NPkt |-> Pkt(st.ch.cur.m, i)]
          BY <5>2, Zenon
        <5> QED BY <5>1, <5>3, Zenon DEF Whole
      <4> QED BY <4>2, WholeIs, Zenon
    <3> QED BY <2>4, <2>6, <3>2, <3>3, RxKeepsTrans, Zenon DEF Started, to
  <2>9. CASE pkt.i # NPkt
    <3>1. to = more
      BY <2>1, <2>9, Zenon
    <3>2. ASSUME Follows(st, pkt) PROVE Started(to) /\ pkt = Pkt(to.ch.cur.m, Len(to.ch.got))
      <4>1. n + 1 # NPkt /\ pkt = Pkt(st.ch.cur.m, n + 1)
        BY <1>3, <2>9, <3>2 DEF Follows, Pkt
      <4>2. n + 1 \in 1 .. NPkt - 1
        BY <1>0, <1>3, <4>1
      <4> QED BY <2>2, <2>4, <2>7, <3>1, <3>2, <4>1, <4>2, Zenon DEF Started
    <3> QED BY <2>4, <2>5, <2>6, <3>1, <3>2, Zenon DEF to
  <2> QED BY <2>8, <2>9, Zenon
<1> QED BY <1>0, <1>1, <1>2, <1>3

\* do_hw_rx(): a packet that starts a message ends the one in progress first.
LEMMA RxPktKeeps ==
    ASSUME NEW st, RxOK(st), NEW pkt \in Packet
    PROVE  LET to == RxPkt(st, pkt)
           IN /\ RxOK(to) /\ RxKeeps(st, to) /\ to.side = st.side
              /\ /\ Started(st) /\ RxFine(st)
                 /\ pkt.i > 1 /\ st.ch.cur # None => pkt = Pkt(st.ch.cur.m, Len(st.ch.got) + 1)
                 => /\ RxFine(to) /\ Started(to)
                    /\ to.ch.cur # None => pkt = Pkt(to.ch.cur.m, Len(to.ch.got))
<1> DEFINE to == RxPkt(st, pkt)
           cut == IF st.ch.cur = None THEN st ELSE RxDone(st, "badmsg")
           in == RxDequeue(cut, pkt.m)
<1>0. pkt.m \in Message /\ pkt.i \in 1 .. NPkt /\ NPkt \in Nat /\ pkt = [m |-> pkt.m, i |-> pkt.i]
  BY MailboxAssumption, Zenon DEF Packet
<1>1. CASE pkt.i > 1
  <2>1. to = RxAccept(st, pkt)
    BY <1>1, Zenon DEF RxPkt
  <2>2. ASSUME Started(st), pkt.i > 1 /\ st.ch.cur # None => pkt = Pkt(st.ch.cur.m, Len(st.ch.got) + 1)
        PROVE  Follows(st, pkt)
    <3>1. 1 .. NPkt - 1 \subseteq 0 .. NPkt - 1
      BY <1>0
    <3> QED BY <1>1, <2>2, <3>1, Zenon DEF Started, Follows
  <2> HIDE DEF to
  <2>3. /\ RxOK(to) /\ RxKeeps(st, to) /\ to.side = st.side
        /\ Follows(st, pkt) /\ RxFine(st) =>
              /\ RxFine(to) /\ Started(to)
              /\ to.ch.cur # None => pkt = Pkt(to.ch.cur.m, Len(to.ch.got))
    BY <2>1, RxAcceptKeeps, Zenon
  <2> QED BY <2>2, <2>3, Zenon DEF to
<1>2. CASE ~(pkt.i > 1)
  <2>1. to = RxAccept(in, pkt)
    BY <1>2, Zenon DEF RxPkt
  <2>2. RxOK(cut) /\ RxKeeps(st, cut) /\ cut.side = st.side /\ cut.ch.cur = None /\ (RxFine(st) => RxFine(cut))
    <3>1. CASE st.ch.cur = None
      BY <3>1, Zenon DEF RxKeeps
    <3>2. CASE st.ch.cur # None
      <4>1. "badmsg" \in Errors /\ "badmsg" # "ok"
        BY Zenon DEF Errors
      <4> QED BY <3>2, <4>1, RxDoneKeeps, Zenon
    <3> QED BY <3>1, <3>2, Zenon
  <2> HIDE DEF cut
  <2>3. /\ RxOK(in) /\ RxKeeps(cut, in) /\ in.side = cut.side /\ in.ch.got = <<>>
        /\ in.ch.cur = None \/ in.ch.cur.m = pkt.m
        /\ RxFine(cut) => RxFine(in)
    BY <1>0, <2>2, RxDequeueKeeps, Zenon
  <2> HIDE DEF in, to
  <2>4. Follows(in, pkt)
    <3>1. pkt.i = 1 /\ Len(in.ch.got) = 0 /\ 1 .. Len(in.ch.got) = {} /\ Len(in.ch.got) + 1 = 1 /\ 0 \in 0 .. NPkt - 1
      BY <1>0, <1>2, <2>3
    <3>2. pkt = Pkt(pkt.m, 1)
      BY <1>0, <3>1, Zenon DEF Pkt
    <3> QED BY <2>3, <3>1, <3>2, Zenon DEF Follows
  <2>5. /\ RxOK(to) /\ RxKeeps(in, to) /\ to.side = in.side
        /\ Follows(in, pkt) /\ RxFine(in) =>
              /\ RxFine(to) /\ Started(to)
              /\ to.ch.cur # None => pkt = Pkt(to.ch.cur.m, Len(to.ch.got))
    BY <2>1, <2>3, RxAcceptKeeps, Zenon
  <2>6. RxKeeps(st, to)
    BY <2>2, <2>3, <2>5, RxKeepsTrans, Zenon
  <2> QED BY <2>2, <2>3, <2>4, <2>5, <2>6, Zenon DEF to
<1> QED BY <1>1, <1>2, Zenon

\* do_sw_rx(): the message in the slot is received at once.
LEMMA RxMsgKeeps ==
    ASSUME NEW st, RxOK(st), st.ch.cur = None, NEW m \in Message
    PROVE  LET to == RxMsg(st, m)
           IN /\ RxOK(to) /\ RxKeeps(st, to) /\ to.side = st.side /\ to.ch.cur = None
              /\ RxFine(st) => RxFine(to)
<1> DEFINE to == RxMsg(st, m)
           in == RxDequeue(st, m)
           all == [in EXCEPT !.ch.got = Whole(m)]
<1>1. /\ RxOK(in) /\ RxKeeps(st, in) /\ in.side = st.side /\ (RxFine(st) => RxFine(in))
  BY RxDequeueKeeps, Zenon
<1>2. to = IF in.ch.cur = None THEN in ELSE RxDone(all, "ok")
  BY Zenon DEF RxMsg
<1> HIDE DEF in, to
<1>3. CASE in.ch.cur = None
  BY <1>1, <1>2, <1>3, Zenon DEF to
<1>4. CASE in.ch.cur # None
  <2>1. /\ in \in [side : Side, ch : RxChannel, reqs : Seq(Cached), done : [Req -> Outcome \cup {None}]]
        /\ Len(in.reqs) <= MaxReq
    BY <1>1, Zenon DEF RxOK
  <2> DEFINE g == Whole(m)
  <2>2. g \in Seq(Packet) /\ Len(g) = NPkt /\ Fine(g) /\ NPkt \in Nat
    BY WholeIs, MailboxAssumption, Zenon
  <2> HIDE DEF g
  <2>3. all = [in EXCEPT !.ch = [in.ch EXCEPT !.got = g]] /\ all.ch = [in.ch EXCEPT !.got = g]
    BY <2>1, Zenon DEF RxChannel, g
  <2> HIDE DEF all
  <2>4. /\ all.ch.cur = in.ch.cur /\ all.ch.wait = in.ch.wait /\ all.ch.got = g
        /\ all.side = in.side /\ all.done = in.done /\ all.reqs = in.reqs
    BY <2>1, <2>3, Zenon DEF RxChannel
  <2>5. RxOK(all)
    <3>1. all.ch \in RxChannel
      BY <2>1, <2>2, <2>3, Zenon DEF RxChannel
    <3>2. all \in [side : Side, ch : RxChannel, reqs : Seq(Cached), done : [Req -> Outcome \cup {None}]]
      BY <2>1, <2>3, <3>1, Zenon
    <3>3. Len(g) <= NPkt
      BY <2>2
    <3> QED BY <1>4, <2>1, <2>4, <3>2, <3>3, Zenon DEF RxOK
  <2>6. RxKeeps(in, all) /\ (RxFine(in) => RxFine(all))
    BY <2>4, RxFineSame, Zenon DEF RxKeeps, Waits
  <2>7. "ok" \in Errors
    BY Zenon DEF Errors
  <2>8. to = RxDone(all, "ok")
    BY <1>2, <1>4, Zenon DEF all
  <2>9. RxOK(to) /\ RxKeeps(all, to) /\ to.side = all.side /\ to.ch.cur = None /\ (RxFine(all) => RxFine(to))
    BY <1>4, <2>2, <2>4, <2>5, <2>7, <2>8, RxDoneKeeps, Zenon
  <2> QED BY <1>1, <2>4, <2>6, <2>9, RxKeepsTrans, Zenon DEF to
<1> QED BY <1>3, <1>4, Zenon

-----------------------------------------------------------------------------
(* The channels after a step. *)

\* TX channel p after a step that leaves the other side's alone.
TxIs(p, q, cur, sent) ==
    /\ tx' \in [Side -> TxChannel]
    /\ tx'[p].q = q /\ tx'[p].cur = cur /\ tx'[p].sent = sent
    /\ \A o \in Side \ {p} : tx'[o] = tx[o]

\* RX channel p after a step that leaves the other side's alone.
RxIs(p, wait, cur, got) ==
    /\ rx' \in [Side -> RxChannel]
    /\ rx'[p].wait = wait /\ rx'[p].cur = cur /\ rx'[p].got = got
    /\ \A o \in Side \ {p} : rx'[o] = rx[o]

\* The updates of a TX channel.
LEMMA TxForms ==
    ASSUME tx \in [Side -> TxChannel], NEW p \in Side, NEW t \in BOOLEAN
    PROVE  /\ \A m \in Message : tx' = [tx EXCEPT ![p].q = Append(@, m)] =>
                 TxIs(p, Append(tx[p].q, m), tx[p].cur, tx[p].sent)
           /\ tx' = [tx EXCEPT ![p].timer = t] => TxIs(p, tx[p].q, tx[p].cur, tx[p].sent)
           /\ tx' = [tx EXCEPT ![p].cur = None, ![p].sent = 0, ![p].timer = t] =>
                 TxIs(p, tx[p].q, None, 0)
           /\ tx[p].q # <<>> /\ tx' = [tx EXCEPT ![p].cur = Head(tx[p].q), ![p].q = Tail(tx[p].q)] =>
                 TxIs(p, Tail(tx[p].q), Head(tx[p].q), tx[p].sent)
           /\ \A n \in 0 .. NPkt : tx' = [tx EXCEPT ![p].sent = n] =>
                 TxIs(p, tx[p].q, tx[p].cur, n)
           /\ tx' = [tx EXCEPT ![p] = IdleTx] => TxIs(p, <<>>, None, 0)
<1>1. /\ tx[p] \in TxChannel /\ tx[p].q \in Seq(Message) /\ tx[p].cur \in Message \cup {None}
      /\ tx[p].sent \in 0 .. NPkt /\ 0 \in 0 .. NPkt
  BY MailboxAssumption DEF TxChannel
<1>2. ASSUME NEW ch \in TxChannel, tx' = [tx EXCEPT ![p] = ch]
      PROVE  TxIs(p, ch.q, ch.cur, ch.sent)
  BY <1>2, Zenon DEF TxIs
<1>3. ASSUME NEW m \in Message, tx' = [tx EXCEPT ![p].q = Append(@, m)]
      PROVE  TxIs(p, Append(tx[p].q, m), tx[p].cur, tx[p].sent)
  <2> DEFINE l == Append(tx[p].q, m)
             ch == [tx[p] EXCEPT !.q = l]
  <2>1. l \in Seq(Message)
    BY <1>1
  <2>2. tx' = [tx EXCEPT ![p] = ch]
    BY <1>3, Zenon
  <2> HIDE DEF l
  <2>3. ch \in TxChannel /\ ch.q = l /\ ch.cur = tx[p].cur /\ ch.sent = tx[p].sent
    BY <1>1, <2>1, Zenon DEF TxChannel
  <2> HIDE DEF ch
  <2>4. TxIs(p, l, tx[p].cur, tx[p].sent)
    BY <1>2, <2>2, <2>3, Zenon
  <2> QED BY <2>4, Zenon DEF l
<1>4. ASSUME tx' = [tx EXCEPT ![p].timer = t] PROVE TxIs(p, tx[p].q, tx[p].cur, tx[p].sent)
  <2> DEFINE ch == [tx[p] EXCEPT !.timer = t]
  <2>1. ch \in TxChannel /\ ch.q = tx[p].q /\ ch.cur = tx[p].cur /\ ch.sent = tx[p].sent
    BY <1>1, Zenon DEF TxChannel
  <2>2. tx' = [tx EXCEPT ![p] = ch]
    BY <1>4, Zenon
  <2> HIDE DEF ch
  <2> QED BY <1>2, <2>1, <2>2, Zenon
<1>5. ASSUME tx' = [tx EXCEPT ![p].cur = None, ![p].sent = 0, ![p].timer = t]
      PROVE  TxIs(p, tx[p].q, None, 0)
  <2> DEFINE ch == [tx[p] EXCEPT !.cur = None, !.sent = 0, !.timer = t]
  <2>1. ch \in TxChannel /\ ch.q = tx[p].q /\ ch.cur = None /\ ch.sent = 0
    BY <1>1, Zenon DEF TxChannel
  <2>2. tx' = [tx EXCEPT ![p] = ch]
    BY <1>5, Zenon
  <2> HIDE DEF ch
  <2> QED BY <1>2, <2>1, <2>2, Zenon
<1>6. ASSUME tx[p].q # <<>>, tx' = [tx EXCEPT ![p].cur = Head(tx[p].q), ![p].q = Tail(tx[p].q)]
      PROVE  TxIs(p, Tail(tx[p].q), Head(tx[p].q), tx[p].sent)
  <2> DEFINE h == Head(tx[p].q)
             l == Tail(tx[p].q)
             ch == [tx[p] EXCEPT !.cur = h, !.q = l]
  <2>1. h \in Message /\ l \in Seq(Message)
    BY <1>1, <1>6
  <2>2. tx' = [tx EXCEPT ![p] = ch]
    BY <1>6, Zenon
  <2> HIDE DEF h, l
  <2>3. ch \in TxChannel /\ ch.q = l /\ ch.cur = h /\ ch.sent = tx[p].sent
    BY <1>1, <2>1, Zenon DEF TxChannel
  <2> HIDE DEF ch
  <2>4. TxIs(p, l, h, tx[p].sent)
    BY <1>2, <2>2, <2>3, Zenon
  <2> QED BY <2>4, Zenon DEF h, l
<1>7. ASSUME NEW n \in 0 .. NPkt, tx' = [tx EXCEPT ![p].sent = n] PROVE TxIs(p, tx[p].q, tx[p].cur, n)
  <2> DEFINE ch == [tx[p] EXCEPT !.sent = n]
  <2>1. ch \in TxChannel /\ ch.q = tx[p].q /\ ch.cur = tx[p].cur /\ ch.sent = n
    BY <1>1, Zenon DEF TxChannel
  <2>2. tx' = [tx EXCEPT ![p] = ch]
    BY <1>7, Zenon
  <2> HIDE DEF ch
  <2> QED BY <1>2, <2>1, <2>2, Zenon
<1>8. ASSUME tx' = [tx EXCEPT ![p] = IdleTx] PROVE TxIs(p, <<>>, None, 0)
  <2>1. IdleTx \in TxChannel /\ IdleTx.q = <<>> /\ IdleTx.cur = None /\ IdleTx.sent = 0
    BY <1>1, EmptyList, Zenon DEF IdleTx, TxChannel
  <2> QED BY <1>2, <1>8, <2>1, Zenon
<1> QED BY <1>3, <1>4, <1>5, <1>6, <1>7, <1>8, Zenon

\* The updates of an RX channel.
LEMMA RxForms ==
    ASSUME rx \in [Side -> RxChannel], NEW p \in Side, NEW w \in Seq(Req)
    PROVE  /\ \A ch \in RxChannel :
                 rx' = [rx EXCEPT ![p] = ch] => RxIs(p, ch.wait, ch.cur, ch.got)
           /\ \A t \in BOOLEAN :
                 /\ rx' = [rx EXCEPT ![p].timer = t] =>
                       RxIs(p, rx[p].wait, rx[p].cur, rx[p].got)
                 /\ rx' = [rx EXCEPT ![p].wait = w, ![p].timer = t] =>
                       RxIs(p, w, rx[p].cur, rx[p].got)
           /\ rx' = [rx EXCEPT ![p].wait = w] => RxIs(p, w, rx[p].cur, rx[p].got)
           /\ \A c \in Inbound : rx' = [rx EXCEPT ![p].cur = c, ![p].wait = w] =>
                 RxIs(p, w, c, rx[p].got)
<1>1. /\ rx[p] \in RxChannel /\ rx[p].wait \in Seq(Req) /\ rx[p].cur \in Inbound \cup {None}
      /\ rx[p].got \in Seq(Packet)
  BY Zenon DEF RxChannel
<1>2. ASSUME NEW ch \in RxChannel, rx' = [rx EXCEPT ![p] = ch]
      PROVE  RxIs(p, ch.wait, ch.cur, ch.got)
  BY <1>2, Zenon DEF RxIs
<1>3. ASSUME NEW t \in BOOLEAN, rx' = [rx EXCEPT ![p].timer = t]
      PROVE  RxIs(p, rx[p].wait, rx[p].cur, rx[p].got)
  <2> DEFINE ch == [rx[p] EXCEPT !.timer = t]
  <2>1. ch \in RxChannel /\ ch.wait = rx[p].wait /\ ch.cur = rx[p].cur /\ ch.got = rx[p].got
    BY <1>1, Zenon DEF RxChannel
  <2>2. rx' = [rx EXCEPT ![p] = ch]
    BY <1>3, Zenon
  <2> HIDE DEF ch
  <2> QED BY <1>2, <2>1, <2>2, Zenon
<1>4. ASSUME NEW t \in BOOLEAN, rx' = [rx EXCEPT ![p].wait = w, ![p].timer = t]
      PROVE  RxIs(p, w, rx[p].cur, rx[p].got)
  <2> DEFINE ch == [rx[p] EXCEPT !.wait = w, !.timer = t]
  <2>1. ch \in RxChannel /\ ch.wait = w /\ ch.cur = rx[p].cur /\ ch.got = rx[p].got
    BY <1>1, Zenon DEF RxChannel
  <2>2. rx' = [rx EXCEPT ![p] = ch]
    BY <1>4, Zenon
  <2> HIDE DEF ch
  <2> QED BY <1>2, <2>1, <2>2, Zenon
<1>5. ASSUME rx' = [rx EXCEPT ![p].wait = w] PROVE RxIs(p, w, rx[p].cur, rx[p].got)
  <2> DEFINE ch == [rx[p] EXCEPT !.wait = w]
  <2>1. ch \in RxChannel /\ ch.wait = w /\ ch.cur = rx[p].cur /\ ch.got = rx[p].got
    BY <1>1, Zenon DEF RxChannel
  <2>2. rx' = [rx EXCEPT ![p] = ch]
    BY <1>5, Zenon
  <2> HIDE DEF ch
  <2> QED BY <1>2, <2>1, <2>2, Zenon
<1>6. ASSUME NEW c \in Inbound, rx' = [rx EXCEPT ![p].cur = c, ![p].wait = w]
      PROVE  RxIs(p, w, c, rx[p].got)
  <2> DEFINE ch == [rx[p] EXCEPT !.cur = c, !.wait = w]
  <2>1. ch \in RxChannel /\ ch.wait = w /\ ch.cur = c /\ ch.got = rx[p].got
    BY <1>1, Zenon DEF RxChannel
  <2>2. rx' = [rx EXCEPT ![p] = ch]
    BY <1>6, Zenon
  <2> HIDE DEF ch
  <2> QED BY <1>2, <2>1, <2>2, Zenon
<1> QED BY <1>2, <1>3, <1>4, <1>5, <1>6, Zenon

-----------------------------------------------------------------------------
(* Steps that leave the messages in progress alone. *)

\* The request message of r is on the TX channel, its response message on the RX
\* channel.
Sends(r) == \E m \in SeqSet(tx["user"].q) \cup ({tx["user"].cur} \ {None}) : m.k = "req" /\ m.s = r
Awaits(r) ==
    \/ r \in SeqSet(rx["user"].wait)
    \/ rx["user"].cur # None /\ rx["user"].cur.k = "resp" /\ rx["user"].cur.s = r

\* The caller of r is woken, or its messages stay on the channels.
Kept(r) ==
    /\ txdone'[r] = None => txdone[r] = None /\ (Sends(r) => Sends(r)')
    /\ rxdone'[r] = None => rxdone[r] = None /\ (Awaits(r) => Awaits(r)')

\* A caller that goes on, or not, while its messages are kept.
LEMMA HeldKept ==
    ASSUME NEW r \in Req, Held(r), Kept(r),
           pc'[r] \in {"txtimer", "sending"} => pc[r] \in {"txtimer", "sending"},
           pc'[r] \in {"send", "txtimer", "sending", "waiting"} =>
               pc[r] \in {"send", "txtimer", "sending", "waiting"}
    PROVE  Held(r)'
  BY Zenon DEF Held, Kept, Sends, Awaits

\* Messages may be added to a TX channel that is not stopped.
TxQuiet ==
    /\ tx' \in [Side -> TxChannel]
    /\ \A o \in Side : /\ tx'[o].cur = tx[o].cur /\ tx'[o].sent = tx[o].sent
                       /\ TxStopped(o) => tx'[o].q = tx[o].q
    /\ SeqSet(tx["user"].q) \subseteq SeqSet(tx'["user"].q)

\* Callers may come and go on an RX channel that is not stopped.
RxQuiet ==
    /\ rx' \in [Side -> RxChannel]
    /\ \A o \in Side : /\ rx'[o].cur = rx[o].cur /\ rx'[o].got = rx[o].got
                       /\ RxStopped(o) /\ rx[o].wait = <<>> => rx'[o].wait = <<>>

\* Such a step finds the channels that are stopped as they were.
LEMMA QuietEmptied ==
    ASSUME NEW p \in Side, Emptied(p), TxQuiet, RxQuiet, phase' = phase
    PROVE  Emptied(p)'
  BY Zenon DEF Emptied, TxQuiet, RxQuiet, RxStopped, TxStopped

\* Nor does it touch what is on the wire.
LEMMA QuietWire ==
    ASSUME NEW p \in Side, Wire(p), TxQuiet, RxQuiet, fifo' = fifo, drops' = drops,
           RxStopped(p) => RxStopped(p)'
    PROVE  Wire(p)'
<1>1. Peer(p) \in Side
  BY Zenon DEF Peer, Side
<1> QED BY <1>1, Zenon DEF Wire, TxQuiet, RxQuiet

\* Putting a message on the TX queue, and setting its timer, are such steps.
LEMMA QuietTx ==
    ASSUME tx \in [Side -> TxChannel], NEW p \in Side,
           \/ tx' = tx
           \/ ConfigTxTimer(p)
           \/ \E m \in Message : Enqueue(p, m)
    PROVE  TxQuiet
<1>1. CASE tx' = tx
  BY <1>1, Zenon DEF TxQuiet
<1>u. "user" \in Side /\ \A o \in Side : tx[o].q \in Seq(Message)
  BY Zenon DEF Side, TxChannel
<1>2. CASE ConfigTxTimer(p)
  <2>1. TxTimer(tx[p].q) \in BOOLEAN
    BY Zenon DEF TxTimer
  <2>2. TxIs(p, tx[p].q, tx[p].cur, tx[p].sent)
    BY <1>2, <2>1, TxForms, Zenon DEF ConfigTxTimer
  <2>3. \A o \in Side : tx'[o].q = tx[o].q /\ tx'[o].cur = tx[o].cur /\ tx'[o].sent = tx[o].sent
    BY <2>2, Zenon DEF TxIs
  <2> QED BY <1>u, <2>2, <2>3, Zenon DEF TxQuiet, TxIs
<1>3. ASSUME NEW m \in Message, Enqueue(p, m), ~TxStopped(p) PROVE TxQuiet
  <2>1. TxIs(p, Append(tx[p].q, m), tx[p].cur, tx[p].sent)
    BY <1>3, TxForms, Zenon DEF Enqueue
  <2>2. \A o \in Side : tx'[o].cur = tx[o].cur /\ tx'[o].sent = tx[o].sent
    BY <2>1, Zenon DEF TxIs
  <2>3. \A o \in Side : tx'[o].q = tx[o].q \/ (o = p /\ tx'[o].q = Append(tx[o].q, m))
    BY <2>1, Zenon DEF TxIs
  <2>4. SeqSet(Append(tx["user"].q, m)) = SeqSet(tx["user"].q) \cup {m}
    BY <1>u, SetOfQueue
  <2> QED BY <1>3, <1>u, <2>1, <2>2, <2>3, <2>4, Zenon DEF TxQuiet, TxIs
<1> QED BY <1>1, <1>2, <1>3, Zenon DEF Enqueue

\* The types of what the callers and the posters have, of the RX channels with
\* what they give, and of the rest.
TypeCall ==
    /\ pc \in [Req -> {"idle", "send", "cancel", "txtimer", "sending", "waiting", "done"}]
    /\ buf \in [Req -> 0 .. NBuf]
    /\ txdone \in [Req -> Errors \cup {None}]
    /\ res \in [Req -> Errors \cup {None}]
    /\ freed \subseteq Req
    /\ note \in [Note -> {"idle", "queued", "posted"}]
TypeRx ==
    /\ rx \in [Side -> RxChannel]
    /\ reqs \in [Side -> Seq(Cached)]
    /\ rxdone \in [Req -> Outcome \cup {None}]
    /\ \A p \in Side : Len(rx[p].got) <= NPkt /\ Len(reqs[p]) <= MaxReq
TypeWire ==
    /\ phase \in [Side -> {"up", "txfini", "rxfini", "down"}]
    /\ listen \in [Side -> Cached \cup {None}]
    /\ fifo \in [Side -> Packet \cup {None}]
    /\ {swtx, swrx, relay} \subseteq [Side -> Message \cup {None}]
    /\ asleep \subseteq Side /\ purged \subseteq Side
    /\ served \in [Req -> Nat] /\ stops \in Nat /\ drops \in Nat

\* They are TypeOK.
LEMMA TypeParts ==
    /\ TypeOK <=> TypeCall /\ TypeRx /\ TypeWire /\ tx \in [Side -> TxChannel]
    /\ TypeOK' <=> TypeCall' /\ TypeRx' /\ TypeWire' /\ tx' \in [Side -> TxChannel]
BY Zenon DEF TypeOK, TypeCall, TypeRx, TypeWire

\* What was received stays as it is.
LEMMA WholeSame ==
    ASSUME WholeMessage, rxdone' = rxdone, reqs' = reqs, listen' = listen, drops' = drops
    PROVE  WholeMessage'
BY Zenon DEF WholeMessage, Received

\* The messages of the system are messages.
LEMMA MsgType ==
    /\ \A r \in Req, b \in 0 .. NBuf, k \in {"req", "resp"} : Msg(k, r, b) \in Message
    /\ \A n \in Note : Msg("note", n, 0) \in Message
BY MailboxAssumption DEF Msg, Message

\* A step that leaves the messages in progress alone.
LEMMA QuietStep ==
    ASSUME MailboxIInv, TxQuiet, RxQuiet, TypeCall', TypeWire',
           UNCHANGED <<phase, fifo, drops, rxdone, reqs>>
    PROVE  /\ TypeOK'
           /\ \A p \in Side : Emptied(p)' /\ Wire(p)'
           /\ listen' = listen => WholeMessage'
<1>1. TypeRx' /\ tx' \in [Side -> TxChannel]
  BY TypeParts, Zenon DEF MailboxIInv, TypeRx, RxQuiet, TxQuiet
<1>2. \A p \in Side : Emptied(p)' /\ Wire(p)'
  <2>1. \A p \in Side : RxStopped(p) => RxStopped(p)'
    BY Zenon DEF RxStopped
  <2> QED BY <2>1, QuietEmptied, QuietWire, Zenon DEF MailboxIInv
<1>3. listen' = listen => WholeMessage'
  BY WholeSame, Zenon DEF MailboxIInv
<1> QED BY <1>1, <1>2, <1>3, TypeParts, Zenon

\* Its callers keep their messages.
LEMMA QuietKept ==
    ASSUME TxQuiet, RxQuiet, UNCHANGED <<txdone, rxdone>>, NEW r \in Req,
           r \in SeqSet(rx["user"].wait) => r \in SeqSet(rx'["user"].wait)
    PROVE  Kept(r)
<1>1. "user" \in Side
  BY Zenon DEF Side
<1>2. Sends(r) => Sends(r)'
  BY <1>1, Zenon DEF Sends, TxQuiet
<1>3. Awaits(r) => Awaits(r)'
  BY <1>1, Zenon DEF Awaits, RxQuiet
<1> QED BY <1>2, <1>3, Zenon DEF Kept

-----------------------------------------------------------------------------
(* The callers. *)

\* The facts that every step of a caller of r uses.
LEMMA UserSide ==
    ASSUME MailboxIInv
    PROVE  /\ "user" \in Side /\ "mgmt" \in Side
           /\ tx \in [Side -> TxChannel] /\ rx \in [Side -> RxChannel]
           /\ TypeCall /\ TypeRx /\ TypeWire
           /\ \A p \in Side : rx[p].wait \in Seq(Req) /\ tx[p].q \in Seq(Message)
           /\ \A r \in Req : Held(r)
<1>1. TypeCall /\ TypeRx /\ TypeWire /\ tx \in [Side -> TxChannel]
  BY TypeParts, Zenon DEF MailboxIInv
<1>2. rx \in [Side -> RxChannel]
  BY <1>1, Zenon DEF TypeRx
<1>3. \A p \in Side : rx[p].wait \in Seq(Req) /\ tx[p].q \in Seq(Message)
  BY <1>1, <1>2, Zenon DEF RxChannel, TxChannel
<1> QED BY <1>1, <1>2, <1>3, Zenon DEF Side, MailboxIInv

\* An RX channel that does not change, or whose waiting list only does while it
\* is not stopped or loses a caller.
LEMMA QuietRx ==
    ASSUME rx \in [Side -> RxChannel], NEW p \in Side, NEW w \in Seq(Req),
           \/ rx' = rx
           \/ /\ RxIs(p, w, rx[p].cur, rx[p].got)
              /\ RxStopped(p) /\ rx[p].wait = <<>> => w = <<>>
    PROVE  RxQuiet
BY Zenon DEF RxQuiet, RxIs

\* A request that is begun.
LEMMA RequestStep ==
    ASSUME MailboxIInv, NEW r \in Req, Request(r)
    PROVE  MailboxIInv'
<1> DEFINE w == Append(rx["user"].wait, r)
<1>1. /\ pc[r] = "idle" /\ tx' = tx /\ txdone' = txdone /\ rxdone' = rxdone
      /\ UNCHANGED <<phase, fifo, drops, rxdone, reqs, listen>>
      /\ \/ rx' = rx /\ pc' = [pc EXCEPT ![r] = "done"]
         \/ /\ ~RxStopped("user")
            /\ rx' = [rx EXCEPT !["user"].wait = w, !["user"].timer = TRUE]
            /\ pc' = [pc EXCEPT ![r] = "send"]
  BY Zenon DEF Request, Goto, Return, hist
<1>2. w \in Seq(Req) /\ SeqSet(w) = SeqSet(rx["user"].wait) \cup {r}
  BY UserSide, SetOfQueue
<1> HIDE DEF w
<1>3. \/ rx' = rx /\ pc' = [pc EXCEPT ![r] = "done"]
      \/ /\ RxIs("user", w, rx["user"].cur, rx["user"].got) /\ ~RxStopped("user")
         /\ pc' = [pc EXCEPT ![r] = "send"]
  BY <1>1, <1>2, UserSide, RxForms, Zenon
<1>4. TxQuiet
  BY <1>1, UserSide, QuietTx, Zenon
<1>5. RxQuiet
  BY <1>2, <1>3, UserSide, QuietRx, Zenon
<1>6. TypeCall'
  <2>1. TypeCall
    BY UserSide, Zenon
  <2>2. buf' \in [Req -> 0 .. NBuf]
    <3>1. PICK b \in Buf : buf' = [buf EXCEPT ![r] = b]
      BY Zenon DEF Request
    <3> QED BY <2>1, <3>1, MailboxAssumption DEF TypeCall, Buf
  <2>3. res' = res \/ res' = [res EXCEPT ![r] = "shutdown"]
    BY Zenon DEF Request, Return
  <2>4. /\ res' \in [Req -> Errors \cup {None}]
        /\ pc' \in [Req -> {"idle", "send", "cancel", "txtimer", "sending", "waiting", "done"}]
    BY <1>1, <2>1, <2>3, Zenon DEF TypeCall, Errors
  <2> QED BY <2>1, <2>2, <2>4, Zenon DEF TypeCall, Request
<1>7. TypeWire'
  BY UserSide, Zenon DEF TypeWire, Request, soft, hist
<1>8. \A s \in Req : Held(s)'
  <2>1. ASSUME NEW s \in Req, s # r PROVE Held(s)'
    <3>1. pc'[s] = pc[s]
      BY <1>1, <2>1, UserSide, Zenon DEF TypeCall
    <3>2. SeqSet(rx["user"].wait) \subseteq SeqSet(rx'["user"].wait)
      BY <1>2, <1>3, Zenon DEF RxIs
    <3>3. Kept(s)
      BY <1>1, <1>4, <1>5, <3>2, QuietKept, Zenon
    <3> QED BY <3>1, <3>3, UserSide, HeldKept, Zenon
  <2>2. pc'[r] = "done" \/ (pc'[r] = "send" /\ r \in SeqSet(rx'["user"].wait))
    BY <1>2, <1>3, UserSide, Zenon DEF RxIs, TypeCall
  <2>4. Held(r)'
    BY <2>2, Zenon DEF Held
  <2> QED BY <2>1, <2>4, Zenon
<1> QED BY <1>1, <1>4, <1>5, <1>6, <1>7, <1>8, QuietStep, Zenon DEF MailboxIInv

\* The caller of s goes on with its call, or returns.
PcMoves(s) ==
    /\ pc'[s] \in {"txtimer", "sending"} => pc[s] \in {"txtimer", "sending"}
    /\ pc'[s] \in {"send", "txtimer", "sending", "waiting"} =>
          pc[s] \in {"send", "txtimer", "sending", "waiting"}

\* A step of the caller of r to a later point of its call.
LEMMA PcGoes ==
    ASSUME TypeCall, NEW r \in Req, NEW l, pc' = [pc EXCEPT ![r] = l],
           \/ l \in {"done", "cancel"}
           \/ l = "sending" /\ pc[r] = "txtimer"
           \/ l = "waiting" /\ pc[r] = "sending"
    PROVE  /\ \A s \in Req : PcMoves(s)
           /\ pc'[r] = l /\ \A s \in Req \ {r} : pc'[s] = pc[s]
<1>1. pc'[r] = l /\ \A s \in Req \ {r} : pc'[s] = pc[s]
  BY Zenon DEF TypeCall
<1>2. \A s \in Req \ {r} : PcMoves(s)
  BY <1>1, Zenon DEF PcMoves
<1>3. PcMoves(r)
  BY <1>1, Zenon DEF PcMoves
<1> QED BY <1>1, <1>2, <1>3, Zenon

\* A step that leaves the messages in progress alone and strands no caller.
LEMMA QuietInv ==
    ASSUME MailboxIInv, TxQuiet, RxQuiet, TypeCall', TypeWire', WholeMessage',
           UNCHANGED <<phase, fifo, drops, rxdone, reqs, txdone>>,
           \A s \in Req :
               /\ PcMoves(s)
               /\ s \in SeqSet(rx["user"].wait) =>
                     s \in SeqSet(rx'["user"].wait) \/ pc'[s] = "done"
    PROVE  MailboxIInv'
<1>1. ASSUME NEW s \in Req PROVE Held(s)'
  <2>1. CASE pc'[s] = "done"
    BY <2>1, Zenon DEF Held
  <2>2. CASE pc'[s] # "done"
    <3>1. Kept(s)
      BY <2>2, QuietKept, Zenon
    <3> QED BY <3>1, UserSide, HeldKept, Zenon DEF PcMoves
  <2> QED BY <2>1, <2>2, Zenon
<1> QED BY <1>1, QuietStep, Zenon DEF MailboxIInv

\* The request message is queued, unless the channel is stopped.
LEMMA SendStep ==
    ASSUME MailboxIInv, NEW r \in Req, RequestSend(r)
    PROVE  MailboxIInv'
<1> DEFINE m == Msg("req", r, buf[r])
           l == IF TxStopped("user") THEN "cancel" ELSE "txtimer"
<1>1. /\ pc[r] = "send" /\ Enqueue("user", m) /\ pc' = [pc EXCEPT ![r] = l]
      /\ UNCHANGED <<phase, fifo, drops, rxdone, reqs, txdone, rx, listen>>
  BY Zenon DEF RequestSend, Goto, hist
<1>2. m \in Message /\ m.k = "req" /\ m.s = r
  BY UserSide, MsgType, Zenon DEF Msg, TypeCall
<1> HIDE DEF m
<1>3. TxQuiet /\ RxQuiet
  <2>1. TxQuiet
    BY <1>1, <1>2, UserSide, QuietTx, Zenon
  <2>2. RxQuiet
    BY <1>1, UserSide, QuietRx, Zenon
  <2> QED BY <2>1, <2>2, Zenon
<1>4. TypeCall'
  BY <1>1, UserSide, Zenon DEF RequestSend, TypeCall
<1>5. TypeWire' /\ WholeMessage'
  <2>1. TypeWire'
    BY UserSide, Zenon DEF TypeWire, RequestSend, soft, hist
  <2>2. WholeMessage'
    BY <1>1, WholeSame, Zenon DEF MailboxIInv
  <2> QED BY <2>1, <2>2, Zenon
<1>6. pc'[r] = l /\ \A s \in Req \ {r} : pc'[s] = pc[s]
  BY <1>1, UserSide, Zenon DEF TypeCall
<1>7. ASSUME NEW s \in Req PROVE Held(s)'
  <2>1. Kept(s)
    BY <1>1, <1>3, QuietKept, Zenon
  <2>2. CASE s # r
    BY <1>6, <2>1, <2>2, UserSide, HeldKept, Zenon
  <2>3. CASE s = r /\ TxStopped("user")
    BY <1>6, <2>3, Zenon DEF Held
  <2>4. CASE s = r /\ ~TxStopped("user")
    <3>1. TxIs("user", Append(tx["user"].q, m), tx["user"].cur, tx["user"].sent)
      BY <1>1, <1>2, <2>4, UserSide, TxForms, Zenon DEF Enqueue
    <3>2. m \in SeqSet(tx'["user"].q)
      BY <1>2, <3>1, UserSide, SetOfQueue DEF TxIs
    <3>3. Sends(r)'
      BY <1>2, <3>2, Zenon DEF Sends
    <3>4. Held(r) /\ pc[r] = "send"
      BY <1>1, UserSide, Zenon
    <3> QED BY <2>1, <2>4, <3>3, <3>4, Zenon DEF Held, Kept, Sends, Awaits
  <2> QED BY <2>2, <2>3, <2>4, Zenon
<1> QED BY <1>1, <1>3, <1>4, <1>5, <1>7, QuietStep, Zenon DEF MailboxIInv

\* The rest of a call.
LEMMA CallerStep ==
    ASSUME MailboxIInv, NEW r \in Req,
           RequestTxTimer(r) \/ RequestSent(r) \/ RequestFailed(r) \/ RequestAnswered(r)
    PROVE  MailboxIInv'
<1> DEFINE w == Only(rx["user"].wait, Req \ {r})
<1>1. /\ UNCHANGED <<phase, fifo, drops, rxdone, reqs, txdone, listen>>
      /\ tx' = tx \/ ConfigTxTimer("user")
      /\ rx' = rx \/ (rx' = [rx EXCEPT !["user"].wait = w] /\ pc' = [pc EXCEPT ![r] = "done"])
  BY Zenon DEF RequestTxTimer, RequestSent, RequestFailed, RequestAnswered, Goto, Return, hist
<1>2. w \in Seq(Req) /\ SeqSet(w) = SeqSet(rx["user"].wait) \cap (Req \ {r})
  BY UserSide, OnlyType, Zenon
<1>3. rx["user"].wait = <<>> => w = <<>>
  BY OnlyEmpty, Zenon
<1> HIDE DEF w
<1>4. \/ rx' = rx
      \/ RxIs("user", w, rx["user"].cur, rx["user"].got) /\ pc' = [pc EXCEPT ![r] = "done"]
  BY <1>1, <1>2, UserSide, RxForms, Zenon
<1>5. TxQuiet
  BY <1>1, UserSide, QuietTx, Zenon
<1>6. RxQuiet
  BY <1>2, <1>3, <1>4, UserSide, QuietRx, Zenon
<1>7. \E l \in {"done", "sending", "waiting"} :
         /\ pc' = [pc EXCEPT ![r] = l]
         /\ \/ l = "done" 
            \/ l = "sending" /\ pc[r] = "txtimer"
            \/ l = "waiting" /\ pc[r] = "sending"
  BY Zenon DEF RequestTxTimer, RequestSent, RequestFailed, RequestAnswered, Goto, Return
<1>8. \A s \in Req : PcMoves(s)
  BY <1>7, UserSide, PcGoes, Zenon
<1>9. TypeCall'
  <2>1. TypeCall /\ TypeRx
    BY UserSide, Zenon
  <2>2. pc' \in [Req -> {"idle", "send", "cancel", "txtimer", "sending", "waiting", "done"}]
    BY <1>7, <2>1, Zenon DEF TypeCall
  <2>3. /\ buf' = buf /\ txdone' = txdone /\ note' = note
        /\ freed' = freed \/ freed' = freed \cup {r}
    BY Zenon DEF RequestTxTimer, RequestSent, RequestFailed, RequestAnswered
  <2>4. \/ res' = res
        \/ res' = [res EXCEPT ![r] = "shutdown"]
        \/ res' = [res EXCEPT ![r] = txdone[r]]
        \/ rxdone[r] # None /\ res' = [res EXCEPT ![r] = rxdone[r].err]
    BY Zenon DEF RequestTxTimer, RequestSent, RequestFailed, RequestAnswered, Return
  <2>5. rxdone[r] # None => rxdone[r].err \in Errors
    BY <2>1, Zenon DEF TypeRx, Outcome
  <2>6. res' \in [Req -> Errors \cup {None}]
    BY <2>1, <2>4, <2>5, Zenon DEF TypeCall, Errors
  <2> QED BY <2>1, <2>2, <2>3, <2>6, Zenon DEF TypeCall
<1>10. TypeWire'
  BY UserSide, Zenon DEF TypeWire, RequestTxTimer, RequestSent, RequestFailed, RequestAnswered, soft, hist
<1>11. WholeMessage'
  BY <1>1, WholeSame, Zenon DEF MailboxIInv
<1>12. ASSUME NEW s \in Req, s \in SeqSet(rx["user"].wait)
       PROVE  s \in SeqSet(rx'["user"].wait) \/ pc'[s] = "done"
  <2>1. CASE rx' = rx
    BY <1>12, <2>1, Zenon
  <2>2. CASE RxIs("user", w, rx["user"].cur, rx["user"].got) /\ pc' = [pc EXCEPT ![r] = "done"]
    <3>1. s = r => pc'[s] = "done"
      BY <2>2, UserSide, Zenon DEF TypeCall
    <3> QED BY <1>2, <1>12, <2>2, <3>1, Zenon DEF RxIs
  <2> QED BY <1>4, <2>1, <2>2, Zenon
<1> QED BY <1>1, <1>5, <1>6, <1>8, <1>9, <1>10, <1>11, <1>12, QuietInv, Zenon

-----------------------------------------------------------------------------
(* The posters, the listener, the daemon and the callers' time limit. *)

\* What was received without an error, by callers, by the listener or for it.
AllFine ==
    /\ \A r \in Req : rxdone[r] # None /\ rxdone[r].err = "ok" => Fine(rxdone[r].data)
    /\ \A p \in Side :
          /\ \A x \in SeqSet(reqs[p]) : x.err = "ok" => Fine(x.data)
          /\ listen[p] # None /\ listen[p].err = "ok" => Fine(listen[p].data)

\* WholeMessage is about each of them.
LEMMA WholeMessageIs ==
    /\ WholeMessage <=> (drops = 0 => AllFine)
    /\ WholeMessage' <=> (drops' = 0 => AllFine')
<1>1. WholeMessage <=> (drops = 0 => AllFine)
  <2> DEFINE Done == {rxdone[r].data : r \in {q \in Req : rxdone[q] # None /\ rxdone[q].err = "ok"}}
             List(p) == {x.data : x \in {y \in SeqSet(reqs[p]) : y.err = "ok"}}
             Taken == {listen[p].data : p \in {q \in Side : listen[q] # None /\ listen[q].err = "ok"}}
  <2>1. Received = Done \cup (UNION {List(p) : p \in Side}) \cup Taken
    BY Zenon DEF Received
  <2>2. (\A d \in Done : Fine(d)) <=>
           \A r \in Req : rxdone[r] # None /\ rxdone[r].err = "ok" => Fine(rxdone[r].data)
    BY Zenon
  <2>3. \A p \in Side :
           (\A d \in List(p) : Fine(d)) <=> \A x \in SeqSet(reqs[p]) : x.err = "ok" => Fine(x.data)
    BY Zenon
  <2>4. (\A d \in Taken : Fine(d)) <=>
           \A p \in Side : listen[p] # None /\ listen[p].err = "ok" => Fine(listen[p].data)
    BY Zenon
  <2>5. WholeMessage <=> (drops = 0 => \A d \in Received : Fine(d))
    BY Zenon DEF WholeMessage, Fine, Whole
  <2> HIDE DEF Done, List, Taken
  <2>6. (\A d \in Received : Fine(d)) <=>
           /\ \A d \in Done : Fine(d)
           /\ \A p \in Side : \A d \in List(p) : Fine(d)
           /\ \A d \in Taken : Fine(d)
    <3> DEFINE Lists == UNION {List(p) : p \in Side}
    <3>1. \A d : d \in Lists <=> \E p \in Side : d \in List(p)
      BY Zenon
    <3>2. Received = Done \cup Lists \cup Taken
      BY <2>1, Zenon
    <3> HIDE DEF Lists
    <3> QED BY <3>1, <3>2, Zenon
  <2>7. AllFine <=>
           /\ \A d \in Done : Fine(d)
           /\ \A p \in Side : \A d \in List(p) : Fine(d)
           /\ \A d \in Taken : Fine(d)
    <3>1. AllFine <=>
             /\ \A r \in Req : rxdone[r] # None /\ rxdone[r].err = "ok" => Fine(rxdone[r].data)
             /\ \A p \in Side : \A x \in SeqSet(reqs[p]) : x.err = "ok" => Fine(x.data)
             /\ \A p \in Side : listen[p] # None /\ listen[p].err = "ok" => Fine(listen[p].data)
      BY Zenon DEF AllFine, Fine, Whole
    <3>2. (\A p \in Side : \A d \in List(p) : Fine(d)) <=>
             \A p \in Side : \A x \in SeqSet(reqs[p]) : x.err = "ok" => Fine(x.data)
      BY <2>3, Zenon
    <3> QED BY <2>2, <2>4, <3>1, <3>2, Zenon
  <2> QED BY <2>5, <2>6, <2>7, Zenon
<1>2. WholeMessage' <=> (drops' = 0 => AllFine')
  <2> DEFINE Done == {rxdone'[r].data : r \in {q \in Req : rxdone'[q] # None /\ rxdone'[q].err = "ok"}}
             List(p) == {x.data : x \in {y \in SeqSet(reqs'[p]) : y.err = "ok"}}
             Taken == {listen'[p].data : p \in {q \in Side : listen'[q] # None /\ listen'[q].err = "ok"}}
  <2>1. Received' = Done \cup (UNION {List(p) : p \in Side}) \cup Taken
    BY Zenon DEF Received
  <2>2. (\A d \in Done : Fine(d)) <=>
           \A r \in Req : rxdone'[r] # None /\ rxdone'[r].err = "ok" => Fine(rxdone'[r].data)
    BY Zenon
  <2>3. \A p \in Side :
           (\A d \in List(p) : Fine(d)) <=> \A x \in SeqSet(reqs'[p]) : x.err = "ok" => Fine(x.data)
    BY Zenon
  <2>4. (\A d \in Taken : Fine(d)) <=>
           \A p \in Side : listen'[p] # None /\ listen'[p].err = "ok" => Fine(listen'[p].data)
    BY Zenon
  <2>5. WholeMessage' <=> (drops' = 0 => \A d \in Received' : Fine(d))
    BY Zenon DEF WholeMessage, Fine, Whole
  <2> HIDE DEF Done, List, Taken
  <2>6. (\A d \in Received' : Fine(d)) <=>
           /\ \A d \in Done : Fine(d)
           /\ \A p \in Side : \A d \in List(p) : Fine(d)
           /\ \A d \in Taken : Fine(d)
    <3> DEFINE Lists == UNION {List(p) : p \in Side}
    <3>1. \A d : d \in Lists <=> \E p \in Side : d \in List(p)
      BY Zenon
    <3>2. Received' = Done \cup Lists \cup Taken
      BY <2>1, Zenon
    <3> HIDE DEF Lists
    <3> QED BY <3>1, <3>2, Zenon
  <2>7. AllFine' <=>
           /\ \A d \in Done : Fine(d)
           /\ \A p \in Side : \A d \in List(p) : Fine(d)
           /\ \A d \in Taken : Fine(d)
    <3>1. AllFine' <=>
             /\ \A r \in Req : rxdone'[r] # None /\ rxdone'[r].err = "ok" => Fine(rxdone'[r].data)
             /\ \A p \in Side : \A x \in SeqSet(reqs'[p]) : x.err = "ok" => Fine(x.data)
             /\ \A p \in Side : listen'[p] # None /\ listen'[p].err = "ok" => Fine(listen'[p].data)
      BY Zenon DEF AllFine, Fine, Whole
    <3>2. (\A p \in Side : \A d \in List(p) : Fine(d)) <=>
             \A p \in Side : \A x \in SeqSet(reqs'[p]) : x.err = "ok" => Fine(x.data)
      BY <2>3, Zenon
    <3> QED BY <2>2, <2>4, <3>1, <3>2, Zenon
  <2> QED BY <2>5, <2>6, <2>7, Zenon
<1> QED BY <1>1, <1>2, Zenon

\* A step that leaves the messages in progress alone and strands no caller, though
\* it may complete a response or take a request off the list.
LEMMA QuietRest ==
    ASSUME MailboxIInv, TxQuiet, RxQuiet, TypeCall', TypeRx', TypeWire', WholeMessage',
           UNCHANGED <<phase, fifo, drops>>,
           \A s \in Req : PcMoves(s) /\ Kept(s)
    PROVE  MailboxIInv'
<1>1. \A s \in Req : Held(s)'
  BY UserSide, HeldKept, Zenon DEF PcMoves
<1>2. \A p \in Side : Emptied(p)' /\ Wire(p)'
  <2>1. \A p \in Side : RxStopped(p) => RxStopped(p)'
    BY Zenon DEF RxStopped
  <2> QED BY <2>1, QuietEmptied, QuietWire, Zenon DEF MailboxIInv
<1>3. TypeOK'
  BY TypeParts, Zenon DEF TxQuiet
<1> QED BY <1>1, <1>2, <1>3, Zenon DEF MailboxIInv

\* Nobody moves.
LEMMA PcStays ==
    ASSUME pc' = pc
    PROVE  \A s \in Req : PcMoves(s)
BY Zenon DEF PcMoves

\* A notification is posted.
LEMMA NoteStep ==
    ASSUME MailboxIInv, NEW n \in Note, PostNotify(n) \/ PostTxTimer(n)
    PROVE  MailboxIInv'
<1>1. /\ UNCHANGED <<phase, fifo, drops, rxdone, reqs, txdone, rx, listen, pc>>
      /\ Enqueue("mgmt", Msg("note", n, 0)) \/ ConfigTxTimer("mgmt")
      /\ note' = [note EXCEPT ![n] = "queued"] \/ note' = [note EXCEPT ![n] = "posted"]
  BY Zenon DEF PostNotify, PostTxTimer, caller, hist
<1>2. TxQuiet
  BY <1>1, UserSide, MsgType, QuietTx, Zenon
<1>3. RxQuiet
  BY <1>1, UserSide, QuietRx, Zenon
<1>4. TypeCall'
  <2>1. TypeCall /\ UNCHANGED caller
    BY UserSide, Zenon DEF PostNotify, PostTxTimer
  <2>2. note' \in [Note -> {"idle", "queued", "posted"}]
    BY <1>1, <2>1, Zenon DEF TypeCall
  <2> QED BY <1>1, <2>1, <2>2, Zenon DEF TypeCall, caller
<1>5. TypeWire'
  BY UserSide, Zenon DEF TypeWire, PostNotify, PostTxTimer, soft, hist
<1>6. WholeMessage'
  BY <1>1, WholeSame, Zenon DEF MailboxIInv
<1>7. \A s \in Req : PcMoves(s)
  BY <1>1, PcStays, Zenon
<1> QED BY <1>1, <1>2, <1>3, <1>4, <1>5, <1>6, <1>7, QuietInv, Zenon

\* The daemon relays a message, or sleeps.
LEMMA DaemonStep ==
    ASSUME MailboxIInv, NEW p \in Side, Daemon(p) \/ DaemonSleep(p)
    PROVE  MailboxIInv'
<1>1. /\ UNCHANGED <<phase, fifo, drops, rxdone, reqs, txdone, tx, rx, listen, note, stops, caller, pc>>
      /\ served' = served /\ purged' = purged
  BY Zenon DEF Daemon, DaemonRead, DaemonWrite, DaemonSleep, caller, hist
<1>2. TxQuiet
  BY <1>1, UserSide, QuietTx, Zenon
<1>3. RxQuiet
  BY <1>1, UserSide, QuietRx, Zenon
<1>4. TypeCall'
  BY <1>1, UserSide, Zenon DEF TypeCall, caller
<1>5. TypeWire'
  <2>1. TypeWire /\ Peer(p) \in Side
    BY UserSide, Zenon DEF Peer
  <2>2. /\ asleep' = asleep \/ asleep' = asleep \cup {p}
        /\ swtx' = swtx \/ swtx' = [swtx EXCEPT ![p] = None]
        /\ swrx' = swrx \/ swrx' = [swrx EXCEPT ![Peer(p)] = relay[p]]
        /\ relay' = relay \/ relay' = [relay EXCEPT ![p] = swtx[p]] \/ relay' = [relay EXCEPT ![p] = None]
    BY Zenon DEF Daemon, DaemonRead, DaemonWrite, DaemonSleep
  <2>3. /\ swtx \in [Side -> Message \cup {None}] /\ swrx \in [Side -> Message \cup {None}]
        /\ relay \in [Side -> Message \cup {None}]
    BY <2>1, Zenon DEF TypeWire
  <2>4. /\ swtx' \in [Side -> Message \cup {None}] /\ swrx' \in [Side -> Message \cup {None}]
        /\ relay' \in [Side -> Message \cup {None}]
    BY <2>1, <2>2, <2>3, Zenon
  <2>5. {swtx', swrx', relay'} \subseteq [Side -> Message \cup {None}] /\ asleep' \subseteq Side
    BY <2>1, <2>2, <2>4, Zenon DEF TypeWire
  <2> QED BY <1>1, <2>1, <2>5, Zenon DEF TypeWire
<1>6. WholeMessage'
  BY <1>1, WholeSame, Zenon DEF MailboxIInv
<1>7. \A s \in Req : PcMoves(s)
  BY <1>1, PcStays, Zenon
<1> QED BY <1>1, <1>2, <1>3, <1>4, <1>5, <1>6, <1>7, QuietInv, Zenon

\* What the listener is on is one request more to serve, or one less.
LEMMA ListenerStep ==
    ASSUME MailboxIInv, NEW p \in Side, Listener(p)
    PROVE  MailboxIInv'
<1> DEFINE x == listen[p]
           q == reqs[p]
<1>1. /\ UNCHANGED <<phase, fifo, drops, rxdone, txdone, rx, caller, note, soft, pc, purged, stops>>
      /\ \/ /\ x = None /\ q # <<>> /\ tx' = tx /\ served' = served
            /\ listen' = [listen EXCEPT ![p] = Head(q)] /\ reqs' = [reqs EXCEPT ![p] = Tail(q)]
         \/ /\ reqs' = reqs /\ listen' = [listen EXCEPT ![p] = None] /\ served' = served
            /\ tx' = tx \/ ConfigTxTimer(p)
         \/ /\ reqs' = reqs /\ listen' = [listen EXCEPT ![p].err = "posted"]
            /\ x # None /\ x.m.k = "req"
            /\ served' = [served EXCEPT ![x.m.s] = @ + 1]
            /\ Enqueue(p, Msg("resp", x.m.s, x.m.id))
  BY Zenon DEF Listener, ListenTake, ListenIgnore, ListenServe, ListenTxTimer, caller, hist
<1>2. /\ TypeWire /\ TypeRx /\ q \in Seq(Cached) /\ Len(q) <= MaxReq
      /\ x \in Cached \cup {None} /\ listen \in [Side -> Cached \cup {None}]
      /\ reqs \in [Side -> Seq(Cached)] /\ served \in [Req -> Nat]
  BY UserSide, Zenon DEF TypeWire, TypeRx
<1>3. x # None => x.m \in Message /\ x.m.id \in 0 .. NBuf /\ (x.m.k = "req" => x.m.s \in Req)
  BY <1>2, Zenon DEF Cached, Message
<1>4. TxQuiet
  <2>1. x # None /\ x.m.k = "req" => Msg("resp", x.m.s, x.m.id) \in Message
    BY <1>3, MsgType, Zenon
  <2> QED BY <1>1, <2>1, UserSide, QuietTx, Zenon
<1>5. RxQuiet
  BY <1>1, UserSide, QuietRx, Zenon
<1>6. TypeCall'
  BY <1>1, UserSide, Zenon DEF TypeCall, caller
<1>7. \A s \in Req : PcMoves(s) /\ Kept(s)
  BY <1>1, <1>4, <1>5, PcStays, QuietKept, Zenon
<1>h. q # <<>> => /\ Head(q) \in Cached /\ Tail(q) \in Seq(Cached) /\ Len(Tail(q)) <= MaxReq
                  /\ Head(q) \in SeqSet(q) /\ SeqSet(Tail(q)) \subseteq SeqSet(q)
  <2>1. ASSUME q # <<>> PROVE Head(q) \in Cached /\ Tail(q) \in Seq(Cached) /\ Len(Tail(q)) <= MaxReq
    BY <1>2, <2>1, MailboxAssumption
  <2>2. ASSUME q # <<>> PROVE SeqSet(q) = {Head(q)} \cup SeqSet(Tail(q))
    BY <1>2, <2>2, SetOfQueue, Zenon
  <2> QED BY <2>1, <2>2, Zenon
<1>8. TypeRx'
  <2>1. reqs' = reqs \/ (q # <<>> /\ reqs' = [reqs EXCEPT ![p] = Tail(q)])
    BY <1>1, Zenon
  <2>2. CASE reqs' = reqs
    BY <1>1, <1>2, <2>2, Zenon DEF TypeRx
  <2>3. CASE q # <<>> /\ reqs' = [reqs EXCEPT ![p] = Tail(q)]
    <3>1. reqs' \in [Side -> Seq(Cached)] /\ \A o \in Side : Len(reqs'[o]) <= MaxReq
      BY <1>2, <1>h, <2>3, Zenon DEF TypeRx
    <3> QED BY <1>1, <1>2, <3>1, Zenon DEF TypeRx
  <2> QED BY <2>1, <2>2, <2>3, Zenon
<1>9. /\ listen' \in [Side -> Cached \cup {None}] /\ served' \in [Req -> Nat]
      /\ listen'[p] = None \/ listen'[p].err = "posted" \/ (q # <<>> /\ listen'[p] = Head(q))
      /\ \A o \in Side \ {p} : listen'[o] = listen[o]
  <2>1. CASE q # <<>> /\ served' = served /\ listen' = [listen EXCEPT ![p] = Head(q)]
    BY <1>2, <1>h, <2>1, Zenon
  <2>2. CASE listen' = [listen EXCEPT ![p] = None] /\ served' = served
    BY <1>2, <2>2, Zenon
  <2>3. CASE /\ x # None /\ x.m.k = "req" /\ listen' = [listen EXCEPT ![p].err = "posted"]
             /\ served' = [served EXCEPT ![x.m.s] = @ + 1]
    <3>1. [x EXCEPT !.err = "posted"] \in Cached /\ [x EXCEPT !.err = "posted"].err = "posted"
      BY <1>2, <2>3, Zenon DEF Cached
    <3>2. listen' = [listen EXCEPT ![p] = [x EXCEPT !.err = "posted"]]
      BY <2>3, Zenon
    <3>3. served' \in [Req -> Nat]
      BY <1>2, <1>3, <2>3
    <3> QED BY <1>2, <3>1, <3>2, <3>3, Zenon
  <2> QED BY <1>1, <2>1, <2>2, <2>3, Zenon
<1>10. TypeWire'
  BY <1>1, <1>2, <1>9, Zenon DEF TypeWire, soft
<1>11. WholeMessage'
  <2> SUFFICES ASSUME drops = 0, AllFine PROVE AllFine'
    BY <1>1, WholeMessageIs, Zenon DEF MailboxIInv
  <2>1. \A o \in Side : SeqSet(reqs'[o]) \subseteq SeqSet(reqs[o])
    <3>1. reqs' = reqs \/ (q # <<>> /\ reqs' = [reqs EXCEPT ![p] = Tail(q)])
      BY <1>1, Zenon
    <3>2. \A o \in Side : reqs'[o] = reqs[o] \/ (o = p /\ q # <<>> /\ reqs'[o] = Tail(q))
      BY <1>2, <3>1, Zenon
    <3> QED BY <1>h, <3>2, Zenon
  <2>2. \A o \in Side : listen'[o] # None /\ listen'[o].err = "ok" => Fine(listen'[o].data)
    <3>1. listen'[p] # None /\ listen'[p].err = "ok" => Fine(listen'[p].data)
      <4>1. listen'[p] # None /\ listen'[p].err = "ok" => q # <<>> /\ listen'[p] = Head(q)
        BY <1>9, Zenon
      <4> QED BY <1>h, <4>1, Zenon DEF AllFine
    <3> QED BY <1>9, <3>1, Zenon DEF AllFine
  <2>3. rxdone' = rxdone
    BY <1>1, Zenon
  <2>4. \A o \in Side : \A z \in SeqSet(reqs'[o]) : z.err = "ok" => Fine(z.data)
    BY <2>1, Zenon DEF AllFine
  <2>5. \A s \in Req : rxdone'[s] # None /\ rxdone'[s].err = "ok" => Fine(rxdone'[s].data)
    BY <2>3, Zenon DEF AllFine
  <2> QED BY <2>2, <2>4, <2>5, Zenon DEF AllFine, Fine, Whole
<1>12. UNCHANGED <<phase, fifo, drops>>
  BY <1>1, Zenon
<1> QED BY <1>4, <1>5, <1>6, <1>7, <1>8, <1>10, <1>11, <1>12, QuietRest, Zenon

\* A caller's time is up: its response message is taken back and it is woken.
LEMMA ExpireStep ==
    ASSUME MailboxIInv, NEW r \in Req, RxExpire(r)
    PROVE  MailboxIInv'
<1> DEFINE w == Only(rx["user"].wait, Req \ {r})
           y == [err |-> "time", data |-> <<>>]
<1>1. /\ UNCHANGED <<phase, fifo, drops, txdone, tx, reqs, listen, caller, note, soft, hist, pc>>
      /\ rx' = [rx EXCEPT !["user"].wait = w, !["user"].timer = RxTimer("user", w)]
      /\ rxdone' = [rxdone EXCEPT ![r] = y] /\ ~RxStopped("user")
  BY Zenon DEF RxExpire, caller, hist
<1>2. /\ w \in Seq(Req) /\ SeqSet(w) = SeqSet(rx["user"].wait) \cap (Req \ {r})
  BY UserSide, OnlyType, Zenon
<1>3. RxTimer("user", w) \in BOOLEAN
  BY Zenon DEF RxTimer
<1>y. y \in Outcome /\ y # None /\ y.err = "time"
  <2>1. <<>> \in Seq(Packet) /\ "time" \in Errors
    BY EmptyList, Zenon DEF Errors
  <2>2. y \in Outcome /\ y.err = "time"
    BY <2>1, Zenon DEF Outcome
  <2> QED BY <2>2, NoneAssumption, Zenon
<1> HIDE DEF w, y
<1>4. RxIs("user", w, rx["user"].cur, rx["user"].got)
  BY <1>1, <1>2, <1>3, UserSide, RxForms, Zenon
<1>5. TxQuiet
  BY <1>1, UserSide, QuietTx, Zenon
<1>6. RxQuiet
  BY <1>1, <1>2, <1>4, UserSide, QuietRx, Zenon
<1>7. TypeCall' /\ TypeWire'
  BY <1>1, UserSide, Zenon DEF TypeCall, TypeWire, caller, soft, hist
<1>8. /\ rxdone' \in [Req -> Outcome \cup {None}]
      /\ rxdone'[r] = y /\ \A s \in Req \ {r} : rxdone'[s] = rxdone[s]
  BY <1>1, <1>y, UserSide, Zenon DEF TypeRx
<1>9. TypeRx'
  BY <1>1, <1>6, <1>8, UserSide, Zenon DEF TypeRx, RxQuiet
<1>10. ASSUME NEW s \in Req PROVE PcMoves(s) /\ Kept(s)
  <2>1. PcMoves(s)
    BY <1>1, PcStays, Zenon
  <2>2. Sends(s) => Sends(s)'
    BY <1>1, Zenon DEF Sends
  <2>3. CASE s = r
    BY <1>1, <1>8, <1>y, <2>1, <2>2, <2>3, Zenon DEF Kept
  <2>4. CASE s # r
    <3>1. Awaits(s) => Awaits(s)'
      BY <1>2, <1>4, <2>4, Zenon DEF Awaits, RxIs
    <3> QED BY <1>1, <1>8, <2>1, <2>2, <2>4, <3>1, Zenon DEF Kept
  <2> QED BY <2>1, <2>3, <2>4, Zenon
<1>11. WholeMessage'
  <2> SUFFICES ASSUME drops = 0, AllFine PROVE AllFine'
    BY <1>1, WholeMessageIs, Zenon DEF MailboxIInv
  <2>1. \A s \in Req : rxdone'[s] # None /\ rxdone'[s].err = "ok" => Fine(rxdone'[s].data)
    <3>1. rxdone'[r].err # "ok"
      BY <1>8, <1>y, Zenon
    <3> QED BY <1>8, <3>1, Zenon DEF AllFine
  <2> QED BY <1>1, <2>1, Zenon DEF AllFine, Fine, Whole
<1> QED BY <1>1, <1>5, <1>6, <1>7, <1>9, <1>10, <1>11, QuietRest, Zenon

-----------------------------------------------------------------------------
(* The TX thread. *)

\* The two sides.
LEMMA PeerIs ==
    ASSUME NEW p \in Side
    PROVE  Peer(p) \in Side /\ Peer(Peer(p)) = p /\ Peer(p) # p
BY Zenon DEF Side, Peer

\* There are two sides.
LEMMA PeerOther ==
    ASSUME NEW p \in Side, NEW o \in Side, o # p
    PROVE  Peer(o) = p
BY DEF Side, Peer

\* What side o receives is not touched.
LEMMA WireSame ==
    ASSUME NEW o \in Side, Wire(o), rx'[o] = rx[o], tx'[Peer(o)] = tx[Peer(o)],
           fifo'[Peer(o)] = fifo[Peer(o)], drops' = drops, RxStopped(o) => RxStopped(o)'
    PROVE  Wire(o)'
BY Zenon DEF Wire

\* The sender of what side o receives has nothing in progress, or nothing of it
\* is sent.
LEMMA WireUnsent ==
    ASSUME NEW o \in Side, Wire(o), rx'[o] = rx[o], tx'[Peer(o)].sent = 0,
           fifo'[Peer(o)] = fifo[Peer(o)], drops' = drops, RxStopped(o) => RxStopped(o)'
    PROVE  Wire(o)'
<1>1. ~(0 > 0)
  OBVIOUS
<1> QED BY <1>1, Zenon DEF Wire

\* The sender of what side o receives sends the next packet of its message.
LEMMA WireNext ==
    ASSUME NEW o \in Side, Wire(o), rx'[o] = rx[o], drops' = drops,
           RxStopped(o) => RxStopped(o)',
           tx[Peer(o)].cur # None, ~tx[Peer(o)].cur.sw, fifo[Peer(o)] = None,
           tx[Peer(o)].sent \in Nat,
           tx'[Peer(o)].cur = tx[Peer(o)].cur, tx'[Peer(o)].sent = tx[Peer(o)].sent + 1,
           fifo'[Peer(o)] = Pkt(tx[Peer(o)].cur, tx[Peer(o)].sent + 1), fifo'[Peer(o)] # None
    PROVE  Wire(o)'
<1> DEFINE q == Peer(o)
           k == Pkt(tx[q].cur, tx[q].sent + 1)
<1>1. k.i = tx[q].sent + 1 /\ (k.i > 1 => tx[q].sent > 0) /\ tx'[q].sent > 0
  BY DEF Pkt
<1>2. ASSUME drops' = 0, rx'[o].cur # None, ~RxStopped(o)', k.i > 1
      PROVE  k = Pkt(rx'[o].cur.m, Len(rx'[o].got) + 1)
  <2>1. tx[q].cur = rx[o].cur.m /\ tx[q].sent = Len(rx[o].got)
    BY <1>1, <1>2, Zenon DEF Wire
  <2> QED BY <2>1, Zenon
<1>3. fifo'[q] = k /\ tx'[q].cur # None /\ k # None
  BY Zenon
<1> HIDE DEF k
<1>4. fifo'[q] = Pkt(tx'[q].cur, tx'[q].sent)
  BY Zenon DEF k
<1> QED BY <1>1, <1>2, <1>3, <1>4, Zenon DEF Wire

\* The sender of what side o receives puts its message in the software slot.
LEMMA WireSoft ==
    ASSUME NEW o \in Side, Wire(o), rx'[o] = rx[o], drops' = drops,
           RxStopped(o) => RxStopped(o)',
           tx[Peer(o)].cur # None, tx[Peer(o)].cur.sw, fifo[Peer(o)] = None,
           tx'[Peer(o)].cur = tx[Peer(o)].cur, fifo'[Peer(o)] = None
    PROVE  Wire(o)'
BY Zenon DEF Wire

\* A step that keeps each part of the invariant.
LEMMA PartsStep ==
    ASSUME MailboxIInv, TypeCall', TypeRx', TypeWire', tx' \in [Side -> TxChannel],
           \A s \in Req : PcMoves(s) /\ Kept(s),
           \A o \in Side : Emptied(o)' /\ Wire(o)', WholeMessage'
    PROVE  MailboxIInv'
<1>1. \A s \in Req : Held(s)'
  BY UserSide, HeldKept, Zenon DEF PcMoves
<1>2. TypeOK'
  BY TypeParts, Zenon
<1> QED BY <1>1, <1>2, Zenon DEF MailboxIInv

\* A channel that is not stopped may hold anything, and the other is as it was.
LEMMA TxEmptied ==
    ASSUME NEW p \in Side, NEW o \in Side, NEW q, NEW c, NEW n, TxIs(p, q, c, n), ~RxStopped(p),
           Emptied(o), phase' = phase, rx' = rx
    PROVE  Emptied(o)'
<1>1. RxStopped(o)' <=> RxStopped(o)
  BY Zenon DEF RxStopped
<1>2. CASE o = p
  <2>1. ~RxStopped(o)' /\ phase'[o] # "down"
    BY <1>1, <1>2, Zenon DEF RxStopped
  <2> QED BY <2>1, Zenon DEF Emptied
<1>3. CASE o # p
  BY <1>1, <1>3, Zenon DEF Emptied, TxIs
<1> QED BY <1>2, <1>3, Zenon

\* Where the TX channel of side p, on which no caller waits for its response, goes.
TxFrame(p) ==
    /\ UNCHANGED <<pc, caller, rxdone, note, phase, rx, reqs, listen, swrx, relay, asleep, hist, drops>>
    /\ ~RxStopped(p)

\* The parts that a step of the TX thread has no part in.
LEMMA TxFrameKeeps ==
    ASSUME MailboxIInv, NEW p \in Side, TxFrame(p)
    PROVE  /\ TypeRx' /\ WholeMessage' /\ \A s \in Req : PcMoves(s)
           /\ \A o \in Side : rx'[o] = rx[o] /\ (RxStopped(o) => RxStopped(o)')
           /\ drops' = drops
           /\ \A s \in Req : /\ txdone'[s] = None => txdone[s] = None /\ (Sends(s) => Sends(s)')
                             => Kept(s)
<1>1. TypeRx'
  BY UserSide, Zenon DEF TypeRx, TxFrame
<1>2. WholeMessage'
  BY WholeSame, Zenon DEF TxFrame, MailboxIInv
<1>3. \A s \in Req : PcMoves(s)
  BY PcStays, Zenon DEF TxFrame
<1>4. \A o \in Side : rx'[o] = rx[o] /\ (RxStopped(o) => RxStopped(o)')
  BY Zenon DEF TxFrame, RxStopped
<1>5. drops' = drops
  BY Zenon DEF TxFrame
<1>6. \A s \in Req : (txdone'[s] = None => txdone[s] = None /\ (Sends(s) => Sends(s)')) => Kept(s)
  BY Zenon DEF TxFrame, Kept, Awaits
<1> QED BY <1>1, <1>2, <1>3, <1>4, <1>5, <1>6, Zenon

\* The next message is taken off the queue.
LEMMA TakeStep ==
    ASSUME MailboxIInv, NEW p \in Side, TxTake(p)
    PROVE  MailboxIInv'
<1> DEFINE q == tx[p].q
<1>1. /\ TxFrame(p) /\ txdone' = txdone /\ UNCHANGED <<fifo, swtx>>
      /\ tx[p].cur = None /\ q # <<>>
      /\ tx' = [tx EXCEPT ![p].cur = Head(q), ![p].q = Tail(q)]
  BY Zenon DEF TxTake, TxFrame, RxStopped, caller, soft, hist
<1>2. q \in Seq(Message) /\ SeqSet(q) = {Head(q)} \cup SeqSet(Tail(q)) /\ Head(q) \in Message
  <2>1. q \in Seq(Message)
    BY UserSide, Zenon
  <2> QED BY <1>1, <2>1, SetOfQueue
<1>3. TxIs(p, Tail(q), Head(q), tx[p].sent)
  BY <1>1, UserSide, TxForms, Zenon
<1>4. tx[p].sent = 0
  BY <1>1, PeerIs DEF MailboxIInv, Wire
<1>5. Head(q) # None
  BY <1>2, NoneAssumption, Zenon
<1>6. TypeCall' /\ TypeWire' /\ tx' \in [Side -> TxChannel]
  BY <1>1, <1>3, UserSide, Zenon DEF TypeCall, TypeWire, TxFrame, TxIs, caller, hist
<1>7. ASSUME NEW s \in Req PROVE Kept(s)
  <2>1. Sends(s) => Sends(s)'
    <3>1. CASE p = "user"
      <4>1. SeqSet(tx["user"].q) \cup ({tx["user"].cur} \ {None})
               = SeqSet(tx'["user"].q) \cup ({tx'["user"].cur} \ {None})
        BY <1>1, <1>2, <1>3, <1>5, <3>1 DEF TxIs
      <4> QED BY <4>1, Zenon DEF Sends
    <3>2. CASE p # "user"
      BY <1>3, <3>2, UserSide, Zenon DEF Sends, TxIs
    <3> QED BY <3>1, <3>2, Zenon
  <2> QED BY <1>1, <2>1, TxFrameKeeps, Zenon
<1>8. ASSUME NEW o \in Side PROVE Emptied(o)' /\ Wire(o)'
  <2>1. Emptied(o)'
    BY <1>1, <1>3, TxEmptied, Zenon DEF TxFrame, MailboxIInv
  <2>2. CASE Peer(o) = p
    BY <1>1, <1>3, <1>4, <2>1, <2>2, TxFrameKeeps, WireUnsent, Zenon DEF TxIs, MailboxIInv
  <2>3. CASE Peer(o) # p
    BY <1>1, <1>3, <2>1, <2>3, PeerIs, TxFrameKeeps, WireSame, Zenon DEF TxIs, MailboxIInv
  <2> QED BY <2>2, <2>3, Zenon
<1> QED BY <1>1, <1>6, <1>7, <1>8, TxFrameKeeps, PartsStep, Zenon

\* A packet or a whole message is sent.
LEMMA SendingStep ==
    ASSUME MailboxIInv, NEW p \in Side, TxSendPkt(p) \/ TxSendSw(p)
    PROVE  MailboxIInv'
<1> DEFINE c == tx[p].cur
           n == tx[p].sent
           k == Pkt(c, n + 1)
<1>1. /\ TxFrame(p) /\ txdone' = txdone /\ c # None /\ fifo[p] = None /\ n < NPkt
      /\ \/ /\ ~c.sw /\ fifo' = [fifo EXCEPT ![p] = k] /\ tx' = [tx EXCEPT ![p].sent = n + 1] /\ swtx' = swtx
         \/ /\ c.sw /\ fifo' = fifo /\ tx' = [tx EXCEPT ![p].sent = NPkt] /\ swtx' = [swtx EXCEPT ![p] = c]
  BY Zenon DEF TxSendPkt, TxSendSw, TxSending, TxReady, TxFrame, RxStopped, caller, soft, hist
<1>2. /\ c \in Message /\ n \in 0 .. NPkt /\ n \in Nat /\ n + 1 \in 0 .. NPkt /\ NPkt \in 0 .. NPkt
      /\ n + 1 \in 1 .. NPkt
  BY <1>1, UserSide, MailboxAssumption DEF TxChannel
<1>3. k \in Packet /\ k # None
  BY <1>2, NoneAssumption DEF Pkt, Packet
<1>4. \/ TxIs(p, tx[p].q, c, n + 1) /\ ~c.sw /\ fifo' = [fifo EXCEPT ![p] = k] /\ swtx' = swtx
      \/ TxIs(p, tx[p].q, c, NPkt) /\ c.sw /\ fifo' = fifo /\ swtx' = [swtx EXCEPT ![p] = c]
  BY <1>1, <1>2, UserSide, TxForms, Zenon
<1> HIDE DEF k
<1>5. /\ tx' \in [Side -> TxChannel] /\ tx'[p].q = tx[p].q /\ tx'[p].cur = c
      /\ \A o \in Side \ {p} : tx'[o] = tx[o]
  BY <1>4, Zenon DEF TxIs
<1>6. TypeCall' /\ TypeWire'
  <2>1. /\ TypeCall /\ TypeWire /\ swtx \in [Side -> Message \cup {None}]
        /\ fifo \in [Side -> Packet \cup {None}]
    BY UserSide, Zenon DEF TypeWire
  <2>2. fifo' \in [Side -> Packet \cup {None}] /\ swtx' \in [Side -> Message \cup {None}]
    BY <1>2, <1>3, <1>4, <2>1, Zenon
  <2>3. {swtx', swrx', relay'} \subseteq [Side -> Message \cup {None}]
    BY <1>1, <2>1, <2>2 DEF TypeWire, TxFrame
  <2> QED BY <1>1, <2>1, <2>2, <2>3, Zenon DEF TypeCall, TypeWire, TxFrame, caller, hist
<1>7. ASSUME NEW s \in Req PROVE Kept(s)
  <2>1. tx'["user"].q = tx["user"].q /\ tx'["user"].cur = tx["user"].cur
    BY <1>5, UserSide, Zenon
  <2>2. Sends(s) => Sends(s)'
    BY <2>1, Zenon DEF Sends
  <2> QED BY <1>1, <2>2, TxFrameKeeps, Zenon
<1>8. ASSUME NEW o \in Side PROVE Emptied(o)' /\ Wire(o)'
  <2>1. Emptied(o)'
    BY <1>1, <1>4, TxEmptied, Zenon DEF TxFrame, MailboxIInv
  <2>f. fifo \in [Side -> Packet \cup {None}] /\ Wire(o)
    BY UserSide, Zenon DEF TypeWire, MailboxIInv
  <2>2. CASE Peer(o) = p /\ ~c.sw
    <3>1. fifo'[p] = k /\ tx'[p].sent = n + 1
      BY <1>4, <2>2, <2>f, Zenon DEF TxIs
    <3> QED BY <1>1, <1>2, <1>3, <1>5, <2>1, <2>2, <2>f, <3>1, TxFrameKeeps, WireNext, Zenon DEF k
  <2>3. CASE Peer(o) = p /\ c.sw
    BY <1>1, <1>4, <1>5, <2>1, <2>3, <2>f, TxFrameKeeps, WireSoft, Zenon
  <2>4. CASE Peer(o) # p
    <3>1. fifo'[Peer(o)] = fifo[Peer(o)]
      BY <1>4, <2>4, <2>f, PeerIs, Zenon
    <3> QED BY <1>1, <1>5, <2>1, <2>4, <2>f, <3>1, PeerIs, TxFrameKeeps, WireSame, Zenon
  <2> QED BY <2>2, <2>3, <2>4, Zenon
<1> QED BY <1>1, <1>5, <1>6, <1>7, <1>8, TxFrameKeeps, PartsStep, Zenon

\* A message is sent, too late or never sent: a request wakes its caller.
LEMMA SentStep ==
    ASSUME MailboxIInv, NEW p \in Side, TxFinish(p) \/ TxTimeout(p) \/ TxFini(p)
    PROVE  MailboxIInv'
<1> DEFINE c == tx[p].cur
           t == TxTimer(tx[p].q)
<1>1. /\ TxFrame(p) /\ c # None /\ fifo' = fifo
      /\ swtx' = swtx \/ swtx' = [swtx EXCEPT ![p] = None]
      /\ \E err \in {"ok", "time", "shutdown"} : TxDone(p, err)
  BY Zenon DEF TxFinish, TxTimeout, TxFini, TxFrame, RxStopped, caller, soft, hist
<1>2. PICK err \in {"ok", "time", "shutdown"} :
         /\ tx' = [tx EXCEPT ![p].cur = None, ![p].sent = 0, ![p].timer = t]
         /\ txdone' = IF c.k = "req" THEN [txdone EXCEPT ![c.s] = err] ELSE txdone
  BY <1>1, Zenon DEF TxDone
<1>3. err \in Errors /\ err # None /\ t \in BOOLEAN
  BY NoneAssumption, Zenon DEF Errors, TxTimer
<1> HIDE DEF t
<1>4. TxIs(p, tx[p].q, None, 0)
  BY <1>2, <1>3, UserSide, TxForms, Zenon
<1>5. c \in Message /\ (c.k = "req" => c.s \in Req)
  BY <1>1, UserSide, Zenon DEF TxChannel, Message
<1>6. /\ txdone \in [Req -> Errors \cup {None}] /\ txdone' \in [Req -> Errors \cup {None}]
      /\ \A s \in Req : txdone'[s] = None => txdone[s] = None /\ ~(c.k = "req" /\ c.s = s)
  <2>1. txdone \in [Req -> Errors \cup {None}]
    BY UserSide, Zenon DEF TypeCall
  <2> QED BY <1>2, <1>3, <1>5, <2>1, Zenon
<1>7. TypeCall' /\ TypeWire' /\ tx' \in [Side -> TxChannel]
  <2>1. TypeCall /\ TypeWire /\ swtx \in [Side -> Message \cup {None}]
    BY UserSide, Zenon DEF TypeWire
  <2>2. swtx' \in [Side -> Message \cup {None}]
    BY <1>1, <2>1, Zenon
  <2>3. {swtx', swrx', relay'} \subseteq [Side -> Message \cup {None}]
    BY <1>1, <2>1, <2>2, Zenon DEF TypeWire, TxFrame
  <2> QED BY <1>1, <1>4, <1>6, <2>1, <2>3, Zenon DEF TypeCall, TypeWire, TxFrame, TxIs, caller, hist
<1>8. ASSUME NEW s \in Req PROVE Kept(s)
  <2>1. ASSUME txdone'[s] = None, Sends(s) PROVE Sends(s)'
    <3>1. PICK m \in SeqSet(tx["user"].q) \cup ({tx["user"].cur} \ {None}) : m.k = "req" /\ m.s = s
      BY <2>1, Zenon DEF Sends
    <3>2. CASE p = "user"
      <4>1. m # c
        BY <1>6, <2>1, <3>1, Zenon
      <4>2. m \in SeqSet(tx'["user"].q)
        BY <1>4, <3>1, <3>2, <4>1, Zenon DEF TxIs
      <4> QED BY <3>1, <4>2, Zenon DEF Sends
    <3>3. CASE p # "user"
      BY <1>4, <3>1, <3>3, UserSide, Zenon DEF Sends, TxIs
    <3> QED BY <3>2, <3>3, Zenon
  <2> QED BY <1>1, <1>6, <2>1, TxFrameKeeps, Zenon
<1>9. ASSUME NEW o \in Side PROVE Emptied(o)' /\ Wire(o)'
  <2>1. Emptied(o)'
    BY <1>1, <1>4, TxEmptied, Zenon DEF TxFrame, MailboxIInv
  <2>2. CASE Peer(o) = p
    BY <1>1, <1>4, <2>1, <2>2, TxFrameKeeps, WireUnsent, Zenon DEF TxIs, MailboxIInv
  <2>3. CASE Peer(o) # p
    BY <1>1, <1>4, <2>1, <2>3, PeerIs, TxFrameKeeps, WireSame, Zenon DEF TxIs, MailboxIInv
  <2> QED BY <2>2, <2>3, Zenon
<1> QED BY <1>1, <1>7, <1>8, <1>9, TxFrameKeeps, PartsStep, Zenon

-----------------------------------------------------------------------------
(* The RX thread. *)

\* The state of an RX channel of the system.
LEMMA RxStateIs ==
    ASSUME MailboxIInv, NEW p \in Side
    PROVE  /\ RxOK(RxState(p))
           /\ RxState(p).ch = rx[p] /\ RxState(p).reqs = reqs[p] /\ RxState(p).done = rxdone
           /\ RxState(p).side = p
<1>1. TypeRx /\ (rx[p].cur = None => rx[p].got = <<>>)
  BY UserSide, Zenon DEF MailboxIInv, Wire
<1>2. /\ RxState(p).ch = rx[p] /\ RxState(p).reqs = reqs[p] /\ RxState(p).done = rxdone
      /\ RxState(p).side = p
  BY Zenon DEF RxState
<1>3. RxState(p) \in [side : Side, ch : RxChannel, reqs : Seq(Cached),
                      done : [Req -> Outcome \cup {None}]]
  BY <1>1, Zenon DEF RxState, TypeRx
<1>4. Len(rx[p].got) <= NPkt /\ Len(reqs[p]) <= MaxReq
  BY <1>1, Zenon DEF TypeRx
<1> QED BY <1>1, <1>2, <1>3, <1>4, Zenon DEF RxOK

\* The RX channel of p goes to the state to of the same side.
RxGoes(p, to) ==
    /\ RxIs(p, to.ch.wait, to.ch.cur, to.ch.got)
    /\ reqs' \in [Side -> Seq(Cached)] /\ reqs'[p] = to.reqs
    /\ \A o \in Side \ {p} : reqs'[o] = reqs[o]
    /\ rxdone' = to.done
    /\ TypeRx'

\* It is what SetRx does.
LEMMA SetRxIs ==
    ASSUME MailboxIInv, NEW p \in Side, NEW to, RxOK(to), SetRx(p, to)
    PROVE  RxGoes(p, to)
<1>1. /\ to.ch \in RxChannel /\ to.reqs \in Seq(Cached) /\ to.done \in [Req -> Outcome \cup {None}]
      /\ Len(to.ch.got) <= NPkt /\ Len(to.reqs) <= MaxReq
  BY Zenon DEF RxOK
<1>2. /\ rx' = [rx EXCEPT ![p] = to.ch] /\ reqs' = [reqs EXCEPT ![p] = to.reqs]
      /\ rxdone' = to.done
  BY Zenon DEF SetRx
<1>e. <<>> \in Seq(Req)
  BY EmptyList, Zenon
<1>3. RxIs(p, to.ch.wait, to.ch.cur, to.ch.got)
  BY <1>1, <1>2, <1>e, UserSide, RxForms, Zenon
<1>4. /\ reqs' \in [Side -> Seq(Cached)] /\ reqs'[p] = to.reqs
      /\ \A o \in Side \ {p} : reqs'[o] = reqs[o]
  <2>1. reqs \in [Side -> Seq(Cached)]
    BY UserSide, Zenon DEF TypeRx
  <2> QED BY <1>1, <1>2, <2>1, Zenon
<1>5. \A o \in Side : Len(rx'[o].got) <= NPkt /\ Len(reqs'[o]) <= MaxReq
  <2>1. \A o \in Side : Len(rx[o].got) <= NPkt /\ Len(reqs[o]) <= MaxReq
    BY UserSide, Zenon DEF TypeRx
  <2> QED BY <1>1, <1>3, <1>4, <2>1, Zenon DEF RxIs
<1> QED BY <1>1, <1>2, <1>3, <1>4, <1>5, Zenon DEF RxGoes, TypeRx, RxIs

\* A step of the RX thread, or of its timer, leaves the callers, the TX channels
\* and the listener alone.
RxFrame ==
    UNCHANGED <<pc, caller, txdone, note, phase, tx, listen, swtx, relay, served, stops>>

\* The callers whose response the RX thread has no room for or completes.
LEMMA RxKept ==
    ASSUME MailboxIInv, NEW p \in Side, NEW to, RxGoes(p, to), RxKeeps(RxState(p), to),
           RxFrame, NEW s \in Req
    PROVE  PcMoves(s) /\ Kept(s)
<1>1. PcMoves(s) /\ (Sends(s) => Sends(s)') /\ txdone' = txdone
  BY PcStays, Zenon DEF RxFrame, Sends
<1>2. rxdone' = to.done /\ RxState(p).done = rxdone /\ RxState(p).ch = rx[p]
  BY RxStateIs, Zenon DEF RxGoes
<1>3. rxdone'[s] = None => rxdone[s] = None /\ (Waits(RxState(p), s) => Waits(to, s))
  BY <1>2, Zenon DEF RxKeeps
<1>4. CASE p = "user"
  <2>1. Waits(RxState(p), s) <=> Awaits(s)
    BY <1>2, <1>4, Zenon DEF Waits, Awaits
  <2>2. Waits(to, s) <=> Awaits(s)'
    BY <1>4, Zenon DEF Waits, Awaits, RxGoes, RxIs
  <2> QED BY <1>1, <1>3, <2>1, <2>2, Zenon DEF Kept
<1>5. CASE p # "user"
  <2>1. rx'["user"] = rx["user"]
    BY <1>5, UserSide, Zenon DEF RxGoes, RxIs
  <2> QED BY <1>1, <1>3, <2>1, Zenon DEF Kept, Awaits
<1> QED BY <1>4, <1>5, Zenon

\* A channel that is not down may hold anything, and the other is as it was.
LEMMA RxEmptied ==
    ASSUME MailboxIInv, NEW p \in Side, NEW o \in Side, NEW w, NEW c, NEW g, RxIs(p, w, c, g),
           phase[p] # "down", RxFrame
    PROVE  Emptied(o)'
<1>1. Emptied(o) /\ phase' = phase /\ tx' = tx /\ (RxStopped(o)' <=> RxStopped(o))
  BY Zenon DEF RxFrame, RxStopped, MailboxIInv
<1>2. CASE o = p
  BY <1>1, <1>2, Zenon DEF Emptied
<1>3. CASE o # p
  BY <1>1, <1>3, Zenon DEF Emptied, RxIs
<1> QED BY <1>2, <1>3, Zenon

\* What comes in is whole if the RX thread has made it so.
LEMMA RxWhole ==
    ASSUME MailboxIInv, NEW p \in Side, NEW to, RxGoes(p, to), RxFrame, drops' = drops,
           drops = 0 /\ RxFine(RxState(p)) => RxFine(to)
    PROVE  WholeMessage'
<1> SUFFICES ASSUME drops = 0, AllFine PROVE AllFine'
  BY WholeMessageIs, Zenon DEF MailboxIInv
<1>1. RxFine(RxState(p))
  BY RxStateIs, Zenon DEF AllFine, RxFine
<1>2. RxFine(to)
  BY <1>1, Zenon
<1>3. \A r \in Req : rxdone'[r] # None /\ rxdone'[r].err = "ok" => Fine(rxdone'[r].data)
  BY <1>2, Zenon DEF RxFine, RxGoes
<1>4. \A o \in Side : \A x \in SeqSet(reqs'[o]) : x.err = "ok" => Fine(x.data)
  <2>1. \A x \in SeqSet(reqs'[p]) : x.err = "ok" => Fine(x.data)
    BY <1>2, Zenon DEF RxFine, RxGoes
  <2>2. \A o \in Side \ {p} : \A x \in SeqSet(reqs'[o]) : x.err = "ok" => Fine(x.data)
    BY Zenon DEF AllFine, RxGoes
  <2> QED BY <2>1, <2>2, Zenon
<1>5. \A o \in Side : listen'[o] # None /\ listen'[o].err = "ok" => Fine(listen'[o].data)
  BY Zenon DEF AllFine, RxFrame
<1> QED BY <1>3, <1>4, <1>5, Zenon DEF AllFine, Fine, Whole

\* What side o has in progress is done with.
LEMMA WireIdle ==
    ASSUME NEW o \in Side, Wire(o), rx'[o].cur = None, rx'[o].got = <<>>,
           tx' = tx, fifo'[Peer(o)] = fifo[Peer(o)]
    PROVE  Wire(o)'
BY Zenon DEF Wire

\* The wire to the other side than p.
LEMMA OtherWire ==
    ASSUME MailboxIInv, NEW p \in Side, NEW o \in Side, o # p, NEW w, NEW c, NEW g, RxIs(p, w, c, g),
           RxFrame, drops' = drops, fifo'[p] = fifo[p]
    PROVE  Wire(o)'
<1>1. Peer(o) = p /\ rx'[o] = rx[o]
  BY DEF Side, Peer, RxIs
<1>2. Wire(o) /\ tx' = tx /\ (RxStopped(o) => RxStopped(o)')
  BY Zenon DEF RxFrame, RxStopped, MailboxIInv
<1> QED BY <1>1, <1>2, WireSame, Zenon

\* The part of a step of the RX thread that depends on what it receives.
LEMMA RxParts ==
    ASSUME MailboxIInv, NEW p \in Side, NEW to, RxGoes(p, to), RxKeeps(RxState(p), to), RxFrame,
           drops' = drops, fifo'[p] = fifo[p], phase[p] # "down", TypeWire', Wire(p)',
           drops = 0 /\ RxFine(RxState(p)) => RxFine(to)
    PROVE  MailboxIInv'
<1>1. RxIs(p, to.ch.wait, to.ch.cur, to.ch.got) /\ TypeRx'
  BY Zenon DEF RxGoes
<1>2. TypeCall' /\ tx' \in [Side -> TxChannel]
  BY UserSide, Zenon DEF TypeCall, RxFrame, caller
<1>3. \A s \in Req : PcMoves(s) /\ Kept(s)
  BY RxKept, Zenon
<1>4. \A o \in Side : Emptied(o)' /\ Wire(o)'
  BY <1>1, RxEmptied, OtherWire, Zenon
<1>5. WholeMessage'
  BY RxWhole, Zenon
<1> QED BY <1>1, <1>2, <1>3, <1>4, <1>5, PartsStep, Zenon

\* A step of the RX thread changes nothing else of the types.
LEMMA RxTypeWire ==
    ASSUME MailboxIInv, RxFrame, drops' = drops, fifo' \in [Side -> Packet \cup {None}],
           swrx' \in [Side -> Message \cup {None}], asleep' \subseteq Side, purged' \subseteq Side
    PROVE  TypeWire'
<1>1. TypeWire /\ UNCHANGED <<phase, listen, swtx, relay, served, stops>>
  BY UserSide, Zenon DEF RxFrame
<1>2. /\ phase \in [Side -> {"up", "txfini", "rxfini", "down"}]
      /\ listen \in [Side -> Cached \cup {None}]
      /\ {swtx, swrx, relay} \subseteq [Side -> Message \cup {None}]
      /\ served \in [Req -> Nat] /\ stops \in Nat /\ drops \in Nat
  BY <1>1, Zenon DEF TypeWire
<1>3. {swtx', swrx', relay'} \subseteq [Side -> Message \cup {None}]
  BY <1>1, <1>2, Zenon
<1> QED BY <1>1, <1>2, <1>3, Zenon DEF TypeWire

\* do_hw_rx() takes the packet of the wire.
LEMMA HwStep ==
    ASSUME MailboxIInv, NEW p \in Side, RxHw(p)
    PROVE  MailboxIInv'
<1> DEFINE st  == RxState(p)
           pkt == fifo[Peer(p)]
           to  == RxPkt(st, pkt)
<1>1. /\ ~RxStopped(p) /\ pkt # None /\ SetRx(p, to)
      /\ fifo' = [fifo EXCEPT ![Peer(p)] = None]
      /\ RxFrame /\ UNCHANGED <<swrx, asleep, purged, drops>>
  BY Zenon DEF RxHw, RxFrame, caller, soft, hist
<1>2. TypeWire /\ TypeRx /\ fifo \in [Side -> Packet \cup {None}] /\ Wire(p) /\ Peer(p) \in Side
  BY UserSide, PeerIs, Zenon DEF TypeWire, MailboxIInv
<1>3. pkt \in Packet
  BY <1>1, <1>2, Zenon
<1>4. RxOK(st) /\ st.ch = rx[p] /\ st.reqs = reqs[p] /\ st.done = rxdone /\ st.side = p
  BY RxStateIs, Zenon
<1>5. /\ RxOK(to) /\ RxKeeps(st, to)
      /\ /\ Started(st) /\ RxFine(st)
         /\ pkt.i > 1 /\ st.ch.cur # None => pkt = Pkt(st.ch.cur.m, Len(st.ch.got) + 1)
         => /\ RxFine(to) /\ Started(to)
            /\ to.ch.cur # None => pkt = Pkt(to.ch.cur.m, Len(to.ch.got))
  BY <1>3, <1>4, RxPktKeeps, Zenon
<1> HIDE DEF st, to
<1>6. RxGoes(p, to)
  BY <1>1, <1>5, SetRxIs, Zenon
<1>7. drops = 0 => /\ Started(st)
                   /\ pkt.i > 1 /\ st.ch.cur # None => pkt = Pkt(st.ch.cur.m, Len(st.ch.got) + 1)
  BY <1>1, <1>2, <1>4, Zenon DEF Wire, Started
<1>8. drops = 0 => RxFine(st)
  <2>1. drops = 0 => AllFine
    BY WholeMessageIs, Zenon DEF MailboxIInv
  <2> QED BY <1>4, <2>1, Zenon DEF AllFine, RxFine
<1>9. /\ fifo' \in [Side -> Packet \cup {None}] /\ fifo'[Peer(p)] = None
      /\ fifo'[p] = fifo[p]
  BY <1>1, <1>2, PeerIs, Zenon
<1>10. TypeWire'
  BY <1>1, <1>2, <1>9, RxTypeWire, Zenon DEF TypeWire
<1>11. Wire(p)'
  <2>1. /\ rx'[p].cur = to.ch.cur /\ rx'[p].got = to.ch.got /\ tx' = tx /\ phase' = phase
        /\ to.ch.cur = None => to.ch.got = <<>>
    BY <1>1, <1>5, <1>6, Zenon DEF RxGoes, RxIs, RxFrame, RxOK
  <2>2. drops = 0 /\ to.ch.cur # None =>
           /\ Started(to) /\ pkt = Pkt(to.ch.cur.m, Len(to.ch.got))
    BY <1>5, <1>7, <1>8, Zenon
  <2>3. tx[Peer(p)].sent > 0 => pkt = Pkt(tx[Peer(p)].cur, tx[Peer(p)].sent)
    BY <1>1, <1>2, Zenon DEF Wire
  <2>4. drops = 0 /\ to.ch.cur # None /\ tx[Peer(p)].sent > 0 =>
           tx[Peer(p)].cur = to.ch.cur.m /\ tx[Peer(p)].sent = Len(to.ch.got)
    BY <2>2, <2>3 DEF Pkt
  <2>5. tx[Peer(p)].cur = None => tx[Peer(p)].sent = 0
    BY <1>2, Zenon DEF Wire
  <2> QED BY <1>1, <1>9, <2>1, <2>2, <2>4, <2>5, Zenon DEF Wire, Started
<1>12. phase[p] # "down"
  BY <1>1, Zenon DEF RxStopped
<1>13. drops = 0 /\ RxFine(RxState(p)) => RxFine(to)
  BY <1>5, <1>7, Zenon DEF st
<1> QED BY <1>1, <1>5, <1>6, <1>9, <1>10, <1>11, <1>12, <1>13, RxParts, Zenon DEF st

\* A step after which the RX channel has no message in progress.
LEMMA RxIdles ==
    ASSUME MailboxIInv, NEW p \in Side, NEW to, SetRx(p, to), RxOK(to), RxKeeps(RxState(p), to),
           to.ch.cur = None, RxFine(RxState(p)) => RxFine(to), RxFrame, UNCHANGED <<fifo, drops>>,
           phase[p] # "down",
           swrx' \in [Side -> Message \cup {None}], asleep' \subseteq Side, purged' \subseteq Side
    PROVE  MailboxIInv'
<1>1. RxGoes(p, to)
  BY SetRxIs, Zenon
<1>2. rx'[p].cur = None /\ rx'[p].got = <<>>
  BY <1>1, Zenon DEF RxGoes, RxIs, RxOK
<1>3. fifo \in [Side -> Packet \cup {None}] /\ Wire(p)
  BY UserSide, Zenon DEF TypeWire, MailboxIInv
<1>4. TypeWire'
  BY <1>3, RxTypeWire, Zenon
<1>5. Wire(p)'
  BY <1>2, <1>3, WireIdle, Zenon DEF RxFrame
<1> QED BY <1>1, <1>4, <1>5, RxParts, Zenon

\* do_sw_rx() takes the message of the software slot.
LEMMA SwStep ==
    ASSUME MailboxIInv, NEW p \in Side, RxSw(p)
    PROVE  MailboxIInv'
<1> DEFINE to == RxMsg(RxState(p), swrx[p])
<1>1. /\ ~RxStopped(p) /\ rx[p].cur = None /\ swrx[p] # None /\ SetRx(p, to)
      /\ swrx' = [swrx EXCEPT ![p] = None] /\ asleep' = asleep \ {Peer(p)}
      /\ RxFrame /\ UNCHANGED <<fifo, purged, drops>>
  BY Zenon DEF RxSw, RxFrame, caller, hist
<1>2. /\ swrx \in [Side -> Message \cup {None}] /\ asleep \subseteq Side /\ purged \subseteq Side
  <2>1. TypeWire
    BY UserSide, Zenon
  <2> QED BY <2>1, Zenon DEF TypeWire
<1>3. /\ swrx[p] \in Message /\ swrx' \in [Side -> Message \cup {None}]
      /\ asleep' \subseteq Side /\ purged' \subseteq Side
  BY <1>1, <1>2, Zenon
<1>4. RxOK(RxState(p)) /\ RxState(p).ch.cur = None
  BY <1>1, RxStateIs, Zenon
<1>5. /\ RxOK(to) /\ RxKeeps(RxState(p), to) /\ to.ch.cur = None
      /\ RxFine(RxState(p)) => RxFine(to)
  BY <1>3, <1>4, RxMsgKeeps, Zenon
<1>6. phase[p] # "down"
  BY <1>1, Zenon DEF RxStopped
<1> HIDE DEF to
<1> QED BY <1>1, <1>3, <1>5, <1>6, RxIdles, Zenon

\* timeout_msg() and chan_fini() complete the message in progress with an error.
LEMMA RxDoneStep ==
    ASSUME MailboxIInv, NEW p \in Side, RxTimeout(p) \/ RxFini(p)
    PROVE  MailboxIInv'
<1>1. PICK err \in {"time", "shutdown"} :
          /\ phase[p] # "down" /\ rx[p].cur # None /\ SetRx(p, RxDone(RxState(p), err))
          /\ swrx' = [swrx EXCEPT ![p] = None] \/ swrx' = swrx
          /\ purged' \in {purged, purged \cup {p}}
          /\ RxFrame /\ UNCHANGED <<fifo, asleep, drops>>
  <2>1. CASE RxTimeout(p)
    <3>1. /\ phase[p] # "down" /\ rx[p].cur # None /\ SetRx(p, RxDone(RxState(p), "time"))
          /\ swrx' = [swrx EXCEPT ![p] = None] /\ purged' \in {purged, purged \cup {p}}
          /\ RxFrame /\ UNCHANGED <<fifo, asleep, drops>>
      BY <2>1, Zenon DEF RxTimeout, RxFrame, caller, RxStopped
    <3> QED BY <3>1, Zenon
  <2>2. CASE RxFini(p)
    <3>1. /\ phase[p] # "down" /\ rx[p].cur # None /\ SetRx(p, RxDone(RxState(p), "shutdown"))
          /\ swrx' = swrx /\ purged' \in {purged, purged \cup {p}}
          /\ RxFrame /\ UNCHANGED <<fifo, asleep, drops>>
      BY <2>2, Zenon DEF RxFini, RxFrame, caller, soft, hist
    <3> QED BY <3>1, Zenon
  <2> QED BY <2>1, <2>2, Zenon
<1> DEFINE to == RxDone(RxState(p), err)
<1>2. swrx \in [Side -> Message \cup {None}] /\ asleep \subseteq Side /\ purged \subseteq Side
  <2>1. TypeWire
    BY UserSide, Zenon
  <2> QED BY <2>1, Zenon DEF TypeWire
<1>3. /\ swrx' \in [Side -> Message \cup {None}]
      /\ asleep' \subseteq Side /\ purged' \subseteq Side
  BY <1>1, <1>2, Zenon
<1>4. RxOK(RxState(p)) /\ RxState(p).ch.cur # None
  BY <1>1, RxStateIs, Zenon
<1>5. err \in Errors /\ err # "ok"
  BY <1>1, Zenon DEF Errors
<1>6. /\ RxOK(to) /\ RxKeeps(RxState(p), to) /\ to.ch.cur = None
      /\ RxFine(RxState(p)) => RxFine(to)
  BY <1>4, <1>5, RxDoneKeeps, Zenon
<1> HIDE DEF to
<1> QED BY <1>1, <1>3, <1>6, RxIdles, Zenon DEF to

\* chan_fini() takes a response that is waited for off the queue; the caller is
\* then held by the message in progress.
LEMMA FiniTakeStep ==
    ASSUME MailboxIInv, NEW p \in Side, RxFiniTake(p)
    PROVE  MailboxIInv'
<1> DEFINE w == rx[p].wait
           c == [k |-> "resp", s |-> Head(w), m |-> None]
<1>1. /\ phase[p] = "rxfini" /\ rx[p].cur = None /\ w # <<>>
      /\ rx' = [rx EXCEPT ![p].cur = c, ![p].wait = Tail(w)]
      /\ RxFrame /\ UNCHANGED <<rxdone, reqs, fifo, swrx, asleep, purged, drops>>
  BY Zenon DEF RxFiniTake, RxFrame, caller, soft, hist
<1>2. w \in Seq(Req)
  BY UserSide, Zenon
<1>3. SeqSet(w) = {Head(w)} \cup SeqSet(Tail(w)) /\ Head(w) \in Req /\ Tail(w) \in Seq(Req)
  BY <1>1, <1>2, SetOfQueue
<1>4. c \in Inbound /\ c # None /\ c.k = "resp" /\ c.s = Head(w)
  BY <1>3, InboundIs, Zenon
<1> HIDE DEF c, w
<1>5. RxIs(p, Tail(w), c, rx[p].got)
  BY <1>1, <1>3, <1>4, UserSide, RxForms, Zenon
<1>6. TypeCall' /\ TypeWire' /\ tx' \in [Side -> TxChannel]
  BY <1>1, UserSide, Zenon DEF TypeCall, TypeWire, RxFrame, caller
<1>7. TypeRx'
  <2>1. TypeRx
    BY UserSide, Zenon
  <2>2. \A o \in Side : rx'[o].got = rx[o].got
    BY <1>5, Zenon DEF RxIs
  <2> QED BY <1>1, <1>5, <2>1, <2>2, Zenon DEF TypeRx, RxIs
<1>8. ASSUME NEW s \in Req PROVE PcMoves(s) /\ Kept(s)
  <2>1. PcMoves(s) /\ (Sends(s) => Sends(s)') /\ txdone' = txdone /\ rxdone' = rxdone
    BY <1>1, PcStays, Zenon DEF RxFrame, Sends
  <2>2. Awaits(s) => Awaits(s)'
    <3>1. CASE p = "user"
      BY <1>1, <1>3, <1>4, <1>5, <3>1, Zenon DEF Awaits, RxIs, w
    <3>2. CASE p # "user"
      BY <1>5, <3>2, UserSide, Zenon DEF Awaits, RxIs
    <3> QED BY <3>1, <3>2, Zenon
  <2> QED BY <2>1, <2>2, Zenon DEF Kept
<1>9. ASSUME NEW o \in Side PROVE Emptied(o)' /\ Wire(o)'
  <2>1. Emptied(o)'
    BY <1>1, <1>5, RxEmptied, Zenon
  <2>2. CASE o = p
    <3>1. /\ rx'[p].cur # None /\ tx' = tx /\ fifo' = fifo /\ RxStopped(p)'
      BY <1>1, <1>4, <1>5, Zenon DEF RxIs, RxFrame, RxStopped
    <3>2. Wire(p)
      BY Zenon DEF MailboxIInv
    <3> QED BY <2>1, <2>2, <3>1, <3>2, Zenon DEF Wire
  <2>3. CASE o # p
    BY <1>1, <1>5, <2>1, <2>3, OtherWire, Zenon
  <2> QED BY <2>2, <2>3, Zenon
<1>10. WholeMessage'
  BY <1>1, WholeSame, Zenon DEF RxFrame, MailboxIInv
<1> QED BY <1>6, <1>7, <1>8, <1>9, <1>10, PartsStep, Zenon

\* A packet that is dropped ends what is said of the data.
LEMMA DropStep ==
    ASSUME MailboxIInv, NEW p \in Side, RxDrop(p)
    PROVE  MailboxIInv'
<1>1. /\ drops' = drops + 1 /\ fifo' = [fifo EXCEPT ![Peer(p)] = None]
      /\ UNCHANGED <<pc, caller, txdone, rxdone, note, phase, tx, rx, reqs, listen,
                     swtx, swrx, relay, asleep, served, purged, stops>>
  BY Zenon DEF RxDrop, caller, soft
<1>2. TypeWire /\ fifo \in [Side -> Packet \cup {None}] /\ drops \in Nat
  BY UserSide, Zenon DEF TypeWire
<1>3. drops' \in Nat /\ drops' # 0
  BY <1>1, <1>2
<1>4. /\ fifo' \in [Side -> Packet \cup {None}]
      /\ \A o \in Side : fifo'[o] = fifo[o] \/ fifo'[o] = None
  BY <1>1, <1>2, Zenon
<1>5. TypeWire'
  BY <1>1, <1>2, <1>3, <1>4, Zenon DEF TypeWire
<1>6. TypeCall' /\ TypeRx' /\ tx' \in [Side -> TxChannel]
  BY <1>1, UserSide, Zenon DEF TypeCall, TypeRx, caller
<1>7. ASSUME NEW s \in Req PROVE PcMoves(s) /\ Kept(s)
  BY <1>1, PcStays, Zenon DEF Kept, Sends, Awaits
<1>8. ASSUME NEW o \in Side PROVE Emptied(o)' /\ Wire(o)'
  <2>1. Emptied(o) /\ Wire(o) /\ Peer(o) \in Side
    BY PeerIs, Zenon DEF MailboxIInv
  <2>2. Emptied(o)'
    BY <1>1, <2>1, Zenon DEF Emptied, RxStopped
  <2>3. fifo'[Peer(o)] = fifo[Peer(o)] \/ fifo'[Peer(o)] = None
    BY <1>4, <2>1, Zenon
  <2> QED BY <1>1, <1>3, <2>1, <2>2, <2>3, Zenon DEF Wire
<1>9. WholeMessage'
  BY <1>3, WholeMessageIs, Zenon
<1> QED BY <1>5, <1>6, <1>7, <1>8, <1>9, PartsStep, Zenon

-----------------------------------------------------------------------------
(* Going down and up. *)

\* A side changes phase; the callers and the wire are left alone.
PhaseFrame ==
    UNCHANGED <<pc, caller, txdone, rxdone, note, listen, relay, asleep, served, drops>>

\* What a change of phase keeps of the types.
LEMMA PhaseTypes ==
    ASSUME MailboxIInv, PhaseFrame, NEW p \in Side, NEW l \in {"up", "txfini", "rxfini", "down"},
           phase' = [phase EXCEPT ![p] = l], fifo' \in [Side -> Packet \cup {None}],
           swtx' \in [Side -> Message \cup {None}], swrx' \in [Side -> Message \cup {None}],
           purged' \subseteq Side, stops' \in Nat
    PROVE  /\ TypeCall' /\ TypeWire' /\ \A s \in Req : PcMoves(s)
           /\ phase'[p] = l /\ \A o \in Side \ {p} : phase'[o] = phase[o]
<1>1. TypeCall /\ TypeWire
  BY UserSide, Zenon
<1>2. /\ phase \in [Side -> {"up", "txfini", "rxfini", "down"}]
      /\ listen \in [Side -> Cached \cup {None}]
      /\ relay \in [Side -> Message \cup {None}]
      /\ asleep \subseteq Side /\ served \in [Req -> Nat] /\ drops \in Nat
  BY <1>1, Zenon DEF TypeWire
<1>3. phase' \in [Side -> {"up", "txfini", "rxfini", "down"}]
  BY <1>2, Zenon
<1>4. {swtx', swrx', relay'} \subseteq [Side -> Message \cup {None}]
  BY <1>2, Zenon DEF PhaseFrame
<1>5. TypeWire'
  BY <1>2, <1>3, <1>4, Zenon DEF TypeWire, PhaseFrame
<1>6. TypeCall'
  BY <1>1, Zenon DEF TypeCall, PhaseFrame, caller
<1>7. \A s \in Req : PcMoves(s)
  BY PcStays, Zenon DEF PhaseFrame
<1> QED BY <1>2, <1>5, <1>6, <1>7, Zenon

\* mailbox_stop() raises the TX stop flag and winds the timers.
LEMMA StopStep ==
    ASSUME MailboxIInv, NEW p \in Side, Stop(p)
    PROVE  MailboxIInv'
<1> DEFINE t == TxTimer(tx[p].q)
           u == rx[p].wait # <<>>
<1>1. /\ phase[p] = "up" /\ stops' = stops + 1 /\ phase' = [phase EXCEPT ![p] = "txfini"]
      /\ rx' = [rx EXCEPT ![p].timer = u] /\ tx' = [tx EXCEPT ![p].timer = t]
      /\ PhaseFrame /\ UNCHANGED <<reqs, fifo, swtx, swrx, purged>>
  BY Zenon DEF Stop, PhaseFrame, caller, soft
<1>2. t \in BOOLEAN /\ u \in BOOLEAN
  BY Zenon DEF TxTimer
<1> HIDE DEF t, u
<1>3. TypeRx /\ rx[p].wait \in Seq(Req) /\ tx \in [Side -> TxChannel] /\ rx \in [Side -> RxChannel]
  BY UserSide, Zenon
<1>4. TxIs(p, tx[p].q, tx[p].cur, tx[p].sent)
  BY <1>1, <1>2, <1>3, TxForms, Zenon
<1>5. RxIs(p, rx[p].wait, rx[p].cur, rx[p].got)
  BY <1>1, <1>2, <1>3, RxForms, Zenon
<1>6. /\ fifo' \in [Side -> Packet \cup {None}] /\ swtx' \in [Side -> Message \cup {None}]
      /\ swrx' \in [Side -> Message \cup {None}] /\ purged' \subseteq Side /\ stops \in Nat
  BY <1>1, UserSide, Zenon DEF TypeWire
<1>7. stops' \in Nat
  BY <1>1, <1>6
<1>8. /\ TypeCall' /\ TypeWire' /\ \A s \in Req : PcMoves(s)
      /\ phase'[p] = "txfini" /\ \A o \in Side \ {p} : phase'[o] = phase[o]
  BY <1>1, <1>6, <1>7, PhaseTypes, Zenon
<1>9. \A o \in Side : /\ tx'[o].q = tx[o].q /\ tx'[o].cur = tx[o].cur /\ tx'[o].sent = tx[o].sent
                      /\ rx'[o].wait = rx[o].wait /\ rx'[o].cur = rx[o].cur
                      /\ rx'[o].got = rx[o].got
  BY <1>4, <1>5, Zenon DEF TxIs, RxIs
<1>10. TypeRx'
  BY <1>1, <1>3, <1>5, <1>9, Zenon DEF TypeRx, RxIs, PhaseFrame
<1>11. \A s \in Req : Kept(s)
  BY <1>1, <1>9, UserSide, Zenon DEF Kept, Sends, Awaits, PhaseFrame
<1>12. ASSUME NEW o \in Side PROVE Emptied(o)' /\ Wire(o)'
  <2>1. Emptied(o) /\ Wire(o) /\ Peer(o) \in Side
    BY PeerIs, Zenon DEF MailboxIInv
  <2>2. (RxStopped(o)' <=> RxStopped(o)) /\ (phase'[o] = "down" => phase[o] = "down")
    BY <1>1, <1>8, Zenon DEF RxStopped
  <2>3. Emptied(o)'
    BY <1>9, <2>1, <2>2, Zenon DEF Emptied
  <2>4. /\ rx'[o].cur = rx[o].cur /\ rx'[o].got = rx[o].got
        /\ tx'[Peer(o)].cur = tx[Peer(o)].cur /\ tx'[Peer(o)].sent = tx[Peer(o)].sent
        /\ fifo' = fifo /\ drops' = drops
    BY <1>1, <1>9, <2>1, Zenon DEF PhaseFrame
  <2> QED BY <2>1, <2>2, <2>3, <2>4, Zenon DEF Wire
<1>13. WholeMessage'
  BY <1>1, WholeSame, Zenon DEF PhaseFrame, MailboxIInv
<1> QED BY <1>4, <1>8, <1>10, <1>11, <1>12, <1>13, PartsStep, Zenon DEF TxIs

\* chan_fini() has emptied the TX channel: the RX channel is next.
LEMMA StopRxStep ==
    ASSUME MailboxIInv, NEW p \in Side, StopRx(p)
    PROVE  MailboxIInv'
<1>1. /\ phase[p] = "txfini" /\ tx[p].cur = None /\ tx[p].q = <<>>
      /\ phase' = [phase EXCEPT ![p] = "rxfini"]
      /\ PhaseFrame /\ UNCHANGED <<tx, rx, reqs, fifo, swtx, swrx, purged, stops>>
  BY Zenon DEF StopRx, PhaseFrame, caller, soft, hist
<1>2. /\ fifo' \in [Side -> Packet \cup {None}] /\ swtx' \in [Side -> Message \cup {None}]
      /\ swrx' \in [Side -> Message \cup {None}] /\ purged' \subseteq Side /\ stops' \in Nat
  BY <1>1, UserSide, Zenon DEF TypeWire
<1>3. /\ TypeCall' /\ TypeWire' /\ \A s \in Req : PcMoves(s)
      /\ phase'[p] = "rxfini" /\ \A o \in Side \ {p} : phase'[o] = phase[o]
  BY <1>1, <1>2, PhaseTypes, Zenon
<1>4. TypeRx' /\ tx' \in [Side -> TxChannel]
  BY <1>1, UserSide, Zenon DEF TypeRx, PhaseFrame
<1>5. \A s \in Req : Kept(s)
  BY <1>1, Zenon DEF Kept, Sends, Awaits, PhaseFrame
<1>6. ASSUME NEW o \in Side PROVE Emptied(o)' /\ Wire(o)'
  <2>1. Emptied(o) /\ Wire(o)
    BY Zenon DEF MailboxIInv
  <2>2. CASE o = p
    <3>1. RxStopped(p)' /\ phase'[p] # "down"
      BY <1>3, Zenon DEF RxStopped
    <3> QED BY <1>1, <2>1, <2>2, <3>1, WireSame, Zenon DEF Emptied, PhaseFrame
  <2>3. CASE o # p
    <3>1. phase'[o] = phase[o]
      BY <1>3, <2>3, Zenon
    <3> QED BY <1>1, <2>1, <3>1, WireSame, Zenon DEF Emptied, RxStopped, PhaseFrame
  <2> QED BY <2>2, <2>3, Zenon
<1>7. WholeMessage'
  BY <1>1, WholeSame, Zenon DEF PhaseFrame, MailboxIInv
<1> QED BY <1>3, <1>4, <1>5, <1>6, <1>7, PartsStep, Zenon

\* listen_wq_fini() frees what the listener has not taken.
LEMMA StopListenStep ==
    ASSUME MailboxIInv, NEW p \in Side, StopListen(p)
    PROVE  MailboxIInv'
<1>1. /\ phase[p] = "rxfini" /\ rx[p].cur = None /\ rx[p].wait = <<>>
      /\ reqs' = [reqs EXCEPT ![p] = <<>>] /\ phase' = [phase EXCEPT ![p] = "down"]
      /\ PhaseFrame /\ UNCHANGED <<tx, rx, fifo, swtx, swrx, purged, stops>>
  BY Zenon DEF StopListen, PhaseFrame, caller, soft, hist
<1>2. /\ fifo' \in [Side -> Packet \cup {None}] /\ swtx' \in [Side -> Message \cup {None}]
      /\ swrx' \in [Side -> Message \cup {None}] /\ purged' \subseteq Side /\ stops' \in Nat
  BY <1>1, UserSide, Zenon DEF TypeWire
<1>3. /\ TypeCall' /\ TypeWire' /\ \A s \in Req : PcMoves(s)
      /\ phase'[p] = "down" /\ \A o \in Side \ {p} : phase'[o] = phase[o]
  BY <1>1, <1>2, PhaseTypes, Zenon
<1>4. <<>> \in Seq(Cached) /\ Len(<<>>) <= MaxReq /\ SeqSet(<<>>) = {}
  <2>1. <<>> \in Seq(Cached) /\ Len(<<>>) = 0
    BY EmptyList, Zenon
  <2>2. SeqSet(<<>>) = {}
    BY <2>1, SetOfQueue, Zenon
  <2>3. MaxReq \in Nat
    BY MailboxAssumption, Zenon
  <2>4. 0 <= MaxReq
    BY <2>3
  <2> QED BY <2>1, <2>2, <2>4, Zenon
<1>5. TypeRx
  BY UserSide, Zenon
<1>6. /\ reqs' \in [Side -> Seq(Cached)]
      /\ \A o \in Side : reqs'[o] = reqs[o] \/ reqs'[o] = <<>>
  BY <1>1, <1>4, <1>5, Zenon DEF TypeRx
<1>7. TypeRx' /\ tx' \in [Side -> TxChannel]
  BY <1>1, <1>4, <1>5, <1>6, UserSide, Zenon DEF TypeRx, PhaseFrame
<1>8. \A s \in Req : Kept(s)
  BY <1>1, Zenon DEF Kept, Sends, Awaits, PhaseFrame
<1>9. ASSUME NEW o \in Side PROVE Emptied(o)' /\ Wire(o)'
  <2>1. Emptied(o) /\ Wire(o)
    BY Zenon DEF MailboxIInv
  <2>2. CASE o = p
    <3>1. RxStopped(p)' /\ RxStopped(p)
      BY <1>1, <1>3, Zenon DEF RxStopped
    <3> QED BY <1>1, <2>1, <2>2, <3>1, WireSame, Zenon DEF Emptied, PhaseFrame
  <2>3. CASE o # p
    <3>1. phase'[o] = phase[o]
      BY <1>3, <2>3, Zenon
    <3> QED BY <1>1, <2>1, <3>1, WireSame, Zenon DEF Emptied, RxStopped, PhaseFrame
  <2> QED BY <2>2, <2>3, Zenon
<1>10. WholeMessage'
  <2> SUFFICES ASSUME drops = 0, AllFine PROVE AllFine'
    BY <1>1, WholeMessageIs, Zenon DEF MailboxIInv, PhaseFrame
  <2>1. \A r \in Req : rxdone'[r] # None /\ rxdone'[r].err = "ok" => Fine(rxdone'[r].data)
    BY <1>1, Zenon DEF AllFine, PhaseFrame
  <2>2. \A o \in Side : \A x \in SeqSet(reqs'[o]) : x.err = "ok" => Fine(x.data)
    BY <1>4, <1>6, Zenon DEF AllFine
  <2>3. \A o \in Side : listen'[o] # None /\ listen'[o].err = "ok" => Fine(listen'[o].data)
    BY <1>1, Zenon DEF AllFine, PhaseFrame
  <2> QED BY <2>1, <2>2, <2>3, Zenon DEF AllFine, Fine, Whole
<1> QED BY <1>3, <1>7, <1>8, <1>9, <1>10, PartsStep, Zenon

\* The channels that chan_init() renews.
LEMMA IdleChannels ==
    /\ IdleTx \in TxChannel /\ IdleTx.q = <<>> /\ IdleTx.cur = None /\ IdleTx.sent = 0
    /\ IdleRx \in RxChannel /\ IdleRx.wait = <<>> /\ IdleRx.cur = None /\ IdleRx.got = <<>>
<1>1. <<>> \in Seq(Message) /\ <<>> \in Seq(Req) /\ <<>> \in Seq(Packet)
  BY EmptyList, Zenon
<1>2. Poll \in BOOLEAN /\ 0 \in 0 .. NPkt
  BY MailboxAssumption
<1> QED BY <1>1, <1>2, Zenon DEF IdleTx, IdleRx, TxChannel, RxChannel

\* mailbox_start() renews channels that are empty.
LEMMA StartStep ==
    ASSUME MailboxIInv, NEW p \in Side, Start(p)
    PROVE  MailboxIInv'
<1>1. /\ phase[p] = "down" /\ phase' = [phase EXCEPT ![p] = "up"]
      /\ tx' = [tx EXCEPT ![p] = IdleTx] /\ rx' = [rx EXCEPT ![p] = IdleRx]
      /\ fifo' = [q \in Side |-> None]
      /\ swtx' = [swtx EXCEPT ![p] = None] /\ swrx' = [swrx EXCEPT ![p] = None]
      /\ purged' \in {purged, purged \cup {p}}
      /\ PhaseFrame /\ UNCHANGED <<reqs, stops>>
  BY Zenon DEF Start, PhaseFrame, caller
<1>2. /\ fifo' \in [Side -> Packet \cup {None}] /\ \A o \in Side : fifo'[o] = None
      /\ swtx' \in [Side -> Message \cup {None}] /\ swrx' \in [Side -> Message \cup {None}]
      /\ purged' \subseteq Side /\ stops' \in Nat
  <2>1. /\ swtx \in [Side -> Message \cup {None}] /\ swrx \in [Side -> Message \cup {None}]
        /\ purged \subseteq Side /\ stops \in Nat
    BY UserSide, Zenon DEF TypeWire
  <2> QED BY <1>1, <2>1, Zenon
<1>3. /\ TypeCall' /\ TypeWire' /\ \A s \in Req : PcMoves(s)
      /\ phase'[p] = "up" /\ \A o \in Side \ {p} : phase'[o] = phase[o]
  BY <1>1, <1>2, PhaseTypes, Zenon
<1>4. TypeRx /\ tx \in [Side -> TxChannel] /\ rx \in [Side -> RxChannel]
  BY UserSide, Zenon
<1>5. TxIs(p, <<>>, None, 0)
  BY <1>1, <1>4, TxForms, Zenon
<1>6. RxIs(p, <<>>, None, <<>>)
  BY <1>1, <1>4, IdleChannels, EmptyList, RxForms, Zenon
<1>7. TypeRx'
  <2>1. Len(<<>>) <= NPkt
    BY MailboxAssumption
  <2>2. \A o \in Side : Len(rx'[o].got) <= NPkt /\ Len(reqs'[o]) <= MaxReq
    BY <1>1, <1>4, <1>6, <2>1, Zenon DEF TypeRx, RxIs
  <2> QED BY <1>1, <1>4, <1>6, <2>2, Zenon DEF TypeRx, RxIs, PhaseFrame
<1>8. ASSUME NEW s \in Req PROVE Kept(s)
  <2>1. CASE p = "user"
    <3>1. /\ tx["user"].q = <<>> /\ tx["user"].cur = None
          /\ rx["user"].wait = <<>> /\ rx["user"].cur = None
      BY <1>1, <2>1, Zenon DEF MailboxIInv, Emptied, RxStopped
    <3>2. SeqSet(<<>>) = {}
      BY EmptyList, SetOfQueue, Zenon
    <3>3. ~Sends(s) /\ ~Awaits(s)
      BY <3>1, <3>2, Zenon DEF Sends, Awaits
    <3> QED BY <1>1, <3>3, Zenon DEF Kept, PhaseFrame
  <2>2. CASE p # "user"
    BY <1>1, <1>5, <1>6, <2>2, UserSide, Zenon DEF Kept, Sends, Awaits, TxIs, RxIs, PhaseFrame
  <2> QED BY <2>1, <2>2, Zenon
<1>9. ASSUME NEW o \in Side PROVE Emptied(o)' /\ Wire(o)'
  <2>1. Emptied(o) /\ Wire(o) /\ Peer(o) \in Side /\ Peer(o) # o /\ Peer(Peer(o)) = o
    BY PeerIs, Zenon DEF MailboxIInv
  <2>2. CASE o = p
    <3>1. ~RxStopped(p)' /\ phase'[p] # "down"
      BY <1>3, Zenon DEF RxStopped
    <3>2. tx'[Peer(p)] = tx[Peer(p)] /\ fifo'[Peer(p)] = None
      BY <1>2, <1>5, <2>1, <2>2, Zenon DEF TxIs
    <3>3. rx'[p].cur = None /\ rx'[p].got = <<>>
      BY <1>6, Zenon DEF RxIs
    <3> QED BY <2>1, <2>2, <3>1, <3>2, <3>3, Zenon DEF Emptied, Wire
  <2>3. CASE o # p
    <3>1. phase'[o] = phase[o] /\ tx'[o] = tx[o] /\ rx'[o] = rx[o]
      BY <1>3, <1>5, <1>6, <2>3, Zenon DEF TxIs, RxIs
    <3>2. Peer(o) = p
      BY <2>3, PeerOther, Zenon
    <3>3. tx'[Peer(o)].cur = None /\ tx'[Peer(o)].sent = 0 /\ fifo'[Peer(o)] = None /\ ~(0 > 0)
      <4>1. ~(0 > 0)
        OBVIOUS
      <4> QED BY <1>2, <1>5, <2>1, <3>2, <4>1, Zenon DEF TxIs
    <3>4. drops' = drops /\ (RxStopped(o)' <=> RxStopped(o))
      BY <1>1, <3>1, Zenon DEF RxStopped, PhaseFrame
    <3>5. Emptied(o)'
      BY <2>1, <3>1, <3>4, Zenon DEF Emptied
    <3> QED BY <2>1, <3>1, <3>3, <3>4, <3>5, Zenon DEF Wire
  <2> QED BY <2>2, <2>3, Zenon
<1>10. WholeMessage'
  BY <1>1, WholeSame, Zenon DEF PhaseFrame, MailboxIInv
<1> QED BY <1>3, <1>5, <1>7, <1>8, <1>9, <1>10, PartsStep, Zenon DEF TxIs

-----------------------------------------------------------------------------
(* The invariant and the theorems. *)

\* Both sides start with empty channels and no caller.
LEMMA MailboxStart == Init => MailboxIInv
<1> SUFFICES ASSUME Init PROVE MailboxIInv
  BY Zenon
<1>1. TypeCall
  <2>1. 0 \in 0 .. NBuf
    BY MailboxAssumption
  <2> QED BY <2>1, Zenon DEF Init, TypeCall
<1>2. /\ tx \in [Side -> TxChannel] /\ rx \in [Side -> RxChannel]
      /\ \A p \in Side : /\ tx[p].q = <<>> /\ tx[p].cur = None /\ tx[p].sent = 0
                         /\ rx[p].wait = <<>> /\ rx[p].cur = None /\ rx[p].got = <<>>
  BY IdleChannels, Zenon DEF Init
<1>3. /\ <<>> \in Seq(Cached) /\ SeqSet(<<>>) = {} /\ Len(<<>>) <= NPkt /\ Len(<<>>) <= MaxReq
  <2>1. <<>> \in Seq(Cached) /\ Len(<<>>) = 0
    BY EmptyList, Zenon
  <2>2. SeqSet(<<>>) = {}
    BY <2>1, SetOfQueue, Zenon
  <2>3. 0 <= NPkt /\ 0 <= MaxReq
    BY MailboxAssumption
  <2> QED BY <2>1, <2>2, <2>3, Zenon
<1>4. TypeRx
  BY <1>2, <1>3, Zenon DEF Init, TypeRx
<1>5. TypeWire
  <2>1. 0 \in Nat
    BY Zenon
  <2> QED BY <2>1, Zenon DEF Init, TypeWire
<1>6. TypeOK
  BY <1>1, <1>2, <1>4, <1>5, TypeParts, Zenon
<1>7. \A r \in Req : Held(r)
  BY Zenon DEF Init, Held
<1>8. ASSUME NEW p \in Side PROVE Emptied(p) /\ Wire(p)
  <2>1. Peer(p) \in Side
    BY PeerIs, Zenon
  <2>2. ~RxStopped(p) /\ phase[p] # "down" /\ fifo[Peer(p)] = None
    BY <2>1, Zenon DEF Init, RxStopped
  <2> QED BY <1>2, <2>1, <2>2, Zenon DEF Emptied, Wire
<1>9. WholeMessage
  <2>1. AllFine
    BY <1>3, Zenon DEF Init, AllFine
  <2> QED BY <2>1, WholeMessageIs, Zenon
<1> QED BY <1>6, <1>7, <1>8, <1>9, Zenon DEF MailboxIInv

\* A step of nobody.
LEMMA MailboxStays ==
    ASSUME MailboxIInv, UNCHANGED vars
    PROVE  MailboxIInv'
<1>1. TxQuiet /\ RxQuiet
  BY UserSide, Zenon DEF TxQuiet, RxQuiet, vars
<1>2. TypeCall' /\ TypeRx' /\ TypeWire'
  BY UserSide, Zenon DEF vars, TypeCall, TypeRx, TypeWire
<1>3. WholeMessage'
  BY WholeSame, Zenon DEF MailboxIInv, vars
<1>4. \A s \in Req : PcMoves(s) /\ Kept(s)
  BY PcStays, Zenon DEF vars, Kept, Sends, Awaits
<1> QED BY <1>1, <1>2, <1>3, <1>4, QuietRest, Zenon DEF vars

\* The steps of the two sides, actor by actor.
LEMMA MailboxStep ==
    ASSUME MailboxIInv, [Next]_vars
    PROVE  MailboxIInv'
<1>1. ASSUME NEW r \in Req, Request(r) \/ Caller(r) \/ RxExpire(r) PROVE MailboxIInv'
  BY <1>1, RequestStep, SendStep, CallerStep, ExpireStep, Zenon DEF Caller
<1>2. ASSUME NEW n \in Note, PostNotify(n) \/ PostTxTimer(n) PROVE MailboxIInv'
  BY <1>2, NoteStep, Zenon
<1>3. ASSUME NEW p \in Side, TxThread(p) \/ TxTimeout(p) PROVE MailboxIInv'
  BY <1>3, TakeStep, SendingStep, SentStep, Zenon DEF TxThread
<1>4. ASSUME NEW p \in Side, RxThread(p) \/ RxDrop(p) \/ RxTimeout(p) PROVE MailboxIInv'
  BY <1>4, HwStep, SwStep, FiniTakeStep, RxDoneStep, DropStep, Zenon DEF RxThread
<1>5. ASSUME NEW p \in Side, Listener(p) \/ Daemon(p) \/ DaemonSleep(p) PROVE MailboxIInv'
  BY <1>5, ListenerStep, DaemonStep, Zenon
<1>6. ASSUME NEW p \in Side, Stop(p) \/ Restart(p) PROVE MailboxIInv'
  BY <1>6, StopStep, StopRxStep, StopListenStep, StartStep, Zenon DEF Restart
<1> QED BY <1>1, <1>2, <1>3, <1>4, <1>5, <1>6, MailboxStays, Zenon DEF Next

\* The inductive invariant of the mailbox: types, where each message that a caller
\* waits on is, what is left of a channel taken down, and how far a message that
\* comes in has got against the one its sender is on.
THEOREM MailboxInductive == Spec => []MailboxIInv
BY MailboxStart, MailboxStep, PTL DEF Spec

\* Once mailbox_stop() has brought the user side down, no caller is left behind:
\* every one that waits to be told has been.
THEOREM NoneStrandedHolds == Spec => []NoneStranded
<1>1. MailboxIInv => NoneStranded
  <2> SUFFICES ASSUME MailboxIInv, phase["user"] = "down", NEW r \in Req
               PROVE  /\ pc[r] = "sending" => txdone[r] # None
                      /\ pc[r] = "waiting" => rxdone[r] # None
    BY Zenon DEF NoneStranded
  <2>1. /\ tx["user"].q = <<>> /\ tx["user"].cur = None
        /\ rx["user"].wait = <<>> /\ rx["user"].cur = None
    BY UserSide, Zenon DEF MailboxIInv, Emptied, RxStopped
  <2>2. SeqSet(<<>>) = {}
    BY EmptyList, SetOfQueue, Zenon
  <2> QED BY <2>1, <2>2, Zenon DEF MailboxIInv, Held
<1> QED BY <1>1, MailboxInductive, PTL

\* Without dropped packets, what a caller or the listener receives without an error
\* is one whole message, its packets in order.
THEOREM WholeMessageHolds == Spec => []WholeMessage
<1>1. MailboxIInv => WholeMessage
  BY Zenon DEF MailboxIInv
<1> QED BY <1>1, MailboxInductive, PTL

\* What a step does to the software slots and to the daemon that sleeps on one.
Slots ==
    \/ UNCHANGED <<swrx, asleep, purged>>
    \/ \E p \in Side :
          \/ /\ swrx[Peer(p)] # None /\ asleep' = asleep \cup {p}
             /\ UNCHANGED <<swrx, purged>>
          \/ /\ relay[p] # None /\ swrx' = [swrx EXCEPT ![Peer(p)] = relay[p]]
             /\ UNCHANGED <<asleep, purged>>
          \/ /\ swrx' = [swrx EXCEPT ![p] = None] /\ asleep' = asleep \ {Peer(p)}
             /\ UNCHANGED purged
          \/ /\ swrx' = [swrx EXCEPT ![p] = None] /\ UNCHANGED asleep
             /\ purged' = IF swrx[p] = None THEN purged ELSE purged \cup {p}

\* Nothing else is done to them.
LEMMA SlotsOf == [Next]_vars => Slots
<1>1. ASSUME NEW r \in Req, Request(r) \/ Caller(r) \/ RxExpire(r)
      PROVE  UNCHANGED <<swrx, asleep, purged>>
  BY <1>1, Zenon DEF Request, Caller, RequestSend, RequestTxTimer, RequestSent, RequestFailed,
                     RequestAnswered, RxExpire, soft, hist
<1>2. ASSUME NEW n \in Note, PostNotify(n) \/ PostTxTimer(n)
      PROVE  UNCHANGED <<swrx, asleep, purged>>
  BY <1>2, Zenon DEF PostNotify, PostTxTimer, soft, hist
<1>3. ASSUME NEW p \in Side, TxThread(p) \/ TxTimeout(p)
      PROVE  UNCHANGED <<swrx, asleep, purged>>
  BY <1>3, Zenon DEF TxThread, TxTake, TxSendPkt, TxSendSw, TxFinish, TxFini, TxTimeout,
                     soft, hist
<1>4. ASSUME NEW p \in Side, RxHw(p) \/ RxFiniTake(p) \/ RxFini(p) \/ RxDrop(p)
      PROVE  UNCHANGED <<swrx, asleep, purged>>
  BY <1>4, Zenon DEF RxHw, RxFiniTake, RxFini, RxDrop, soft, hist
<1>5. ASSUME NEW p \in Side, Listener(p) \/ DaemonRead(p) \/ Stop(p) \/ StopRx(p) \/ StopListen(p)
      PROVE  UNCHANGED <<swrx, asleep, purged>>
  BY <1>5, Zenon DEF Listener, ListenTake, ListenIgnore, ListenServe, ListenTxTimer,
                     DaemonRead, Stop, StopRx, StopListen, soft, hist
<1>6. ASSUME NEW p \in Side, DaemonSleep(p) \/ DaemonWrite(p) \/ RxSw(p) \/ RxTimeout(p) \/ Start(p)
      PROVE  Slots
  BY <1>6, Zenon DEF DaemonSleep, DaemonWrite, RxSw, RxTimeout, Start, Slots, hist
<1>7. UNCHANGED vars => UNCHANGED <<swrx, asleep, purged>>
  BY Zenon DEF vars
<1> QED BY <1>1, <1>2, <1>3, <1>4, <1>5, <1>6, <1>7, Zenon
        DEF Next, RxThread, Daemon, Restart, Slots

\* The daemon sleeps in mailbox_write() only on a full slot, or on one that was
\* emptied without anybody reading it.
THEOREM SleepsOnFullHolds == Spec => []SleepsOnFull
<1>1. Init => SleepsOnFull
  BY Zenon DEF Init, SleepsOnFull
<1>2. ASSUME MailboxIInv, SleepsOnFull, [Next]_vars PROVE SleepsOnFull'
  <2>1. Slots /\ asleep \subseteq Side /\ swrx \in [Side -> Message \cup {None}]
    BY <1>2, UserSide, SlotsOf, Zenon DEF TypeWire
  <2>2. CASE UNCHANGED <<swrx, asleep, purged>>
    BY <1>2, <2>2, Zenon DEF SleepsOnFull
  <2>3. ASSUME NEW p \in Side, swrx[Peer(p)] # None, asleep' = asleep \cup {p},
               UNCHANGED <<swrx, purged>>
        PROVE  SleepsOnFull'
    BY <1>2, <2>3, Zenon DEF SleepsOnFull
  <2>4. ASSUME NEW p \in Side, relay[p] # None, swrx' = [swrx EXCEPT ![Peer(p)] = relay[p]],
               UNCHANGED <<asleep, purged>>
        PROVE  SleepsOnFull'
    BY <1>2, <2>1, <2>4, PeerIs, Zenon DEF SleepsOnFull
  <2>5. ASSUME NEW p \in Side, swrx' = [swrx EXCEPT ![p] = None], asleep' = asleep \ {Peer(p)},
               UNCHANGED purged
        PROVE  SleepsOnFull'
    BY <1>2, <2>1, <2>5, PeerIs, Zenon DEF SleepsOnFull
  <2>6. ASSUME NEW p \in Side, swrx' = [swrx EXCEPT ![p] = None], UNCHANGED asleep,
               purged' = IF swrx[p] = None THEN purged ELSE purged \cup {p}
        PROVE  SleepsOnFull'
    BY <1>2, <2>1, <2>6, PeerIs, Zenon DEF SleepsOnFull
  <2> QED BY <2>1, <2>2, <2>3, <2>4, <2>5, <2>6, Zenon DEF Slots
<1> QED BY <1>1, <1>2, MailboxInductive, PTL DEF Spec
=============================================================================
