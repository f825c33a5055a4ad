-------------------------- MODULE XgqClientLemmas --------------------------
(***************************************************************************)
(* The steps of XgqClient, for its proofs: what they do to lists, ids and  *)
(* entries, and that they keep the types, Ids, Entries and CountMatches.   *)
(***************************************************************************)
EXTENDS XgqClient, QueueProofs, TLAPS

-----------------------------------------------------------------------------
(* Command ids, and the commands of a list of entries. *)

\* A command id names the client it was made for, whatever the tag.
LEMMA CidNames ==
    ASSUME NEW tag \in Nat, NEW i \in Id
    PROVE  Cid(tag, i) \in Nat /\ ClientOf(Cid(tag, i)) = i
<1> DEFINE n == Cardinality(CU)
           a == tag * n + i
           q == a \div n
           r == a % n
<1>1. n \in Nat /\ i \in 0 .. n - 1
  BY XgqClientAssumption, FS_CardinalityType, Zenon DEF Id
<1> HIDE DEF n
<1>2. n > 0 /\ i \in Nat /\ i < n
  BY <1>1
<1>3. a \in Nat
  BY <1>1, <1>2
<1>4. q \in Int /\ r \in 0 .. n - 1 /\ a = n * q + r
  BY <1>1, <1>2, <1>3
<1> HIDE DEF q, r
<1>5. n * q - n * tag = i - r
  BY <1>1, <1>4
<1>6. n * (q - tag) = i - r
  BY <1>1, <1>4, <1>5
<1>7. ~(q - tag >= 1)
  <2> SUFFICES ASSUME q - tag >= 1 PROVE FALSE
    BY Zenon
  <2>1. n * (q - tag) >= n * 1
    BY <1>1, <1>2, <1>4
  <2> QED BY <1>1, <1>2, <1>4, <1>6, <2>1
<1>8. ~(q - tag <= -1)
  <2> SUFFICES ASSUME q - tag <= -1 PROVE FALSE
    BY Zenon
  <2>1. n * (q - tag) <= n * (-1)
    BY <1>1, <1>2, <1>4
  <2> QED BY <1>1, <1>2, <1>4, <1>6, <2>1
<1>9. q = tag
  BY <1>4, <1>7, <1>8
<1>10. r = i
  BY <1>1, <1>4, <1>5, <1>9
<1> QED BY <1>3, <1>10, Zenon DEF Cid, ClientOf, n, r

\* The commands of a list of entries, as the list grows at its end and shrinks at
\* its head.
LEMMA NamesMove ==
    ASSUME NEW s \in Seq(Entry)
    PROVE  /\ Names(s) \in Seq(Cmd) /\ Len(Names(s)) = Len(s)
           /\ Names(<<>>) = <<>>
           /\ \A e \in Entry : Names(Append(s, e)) = Append(Names(s), e.m)
           /\ s # <<>> => /\ Names(s) # <<>> /\ Head(Names(s)) = Head(s).m
                          /\ Tail(Names(s)) = Names(Tail(s))
<1>1. ASSUME NEW t \in Seq(Entry)
      PROVE  /\ Names(t) \in Seq(Cmd) /\ Len(Names(t)) = Len(t)
             /\ \A j \in 1 .. Len(t) : Names(t)[j] = t[j].m
  <2>1. Len(t) \in Nat /\ \A j \in 1 .. Len(t) : t[j] \in Entry
    OBVIOUS
  <2>2. \A j \in 1 .. Len(t) : t[j].m \in Cmd
    BY <2>1, Zenon DEF Entry
  <2> QED BY <2>1, <2>2 DEF Names
<1>2. Names(<<>>) = <<>>
  <2>1. Names(<<>>) \in Seq(Cmd) /\ Len(Names(<<>>)) = 0
    BY <1>1, EmptyList, Zenon
  <2> QED BY <2>1
<1>3. ASSUME NEW e \in Entry PROVE Names(Append(s, e)) = Append(Names(s), e.m)
  <2> DEFINE a == Append(s, e)
             b == Append(Names(s), e.m)
  <2>1. /\ a \in Seq(Entry) /\ Len(a) = Len(s) + 1 /\ Len(s) \in Nat
        /\ a[Len(s) + 1] = e /\ \A j \in 1 .. Len(s) : a[j] = s[j]
    OBVIOUS
  <2>2. e.m \in Cmd
    BY Zenon DEF Entry
  <2>3. /\ b \in Seq(Cmd) /\ Len(b) = Len(s) + 1
        /\ b[Len(s) + 1] = e.m /\ \A j \in 1 .. Len(s) : b[j] = Names(s)[j]
    BY <1>1, <2>2
  <2> HIDE DEF a, b
  <2>4. /\ Names(a) \in Seq(Cmd) /\ Len(Names(a)) = Len(s) + 1
        /\ \A j \in 1 .. Len(s) + 1 : Names(a)[j] = a[j].m
    BY <1>1, <2>1, Zenon
  <2>5. \A j \in 1 .. Len(s) + 1 : Names(a)[j] = b[j]
    <3> SUFFICES ASSUME NEW j \in 1 .. Len(s) + 1 PROVE Names(a)[j] = b[j]
      BY Zenon
    <3>1. CASE j = Len(s) + 1
      BY <2>1, <2>3, <2>4, <3>1, Zenon
    <3>2. CASE j \in 1 .. Len(s)
      BY <1>1, <2>1, <2>3, <2>4, <3>2
    <3> QED BY <2>1, <3>1, <3>2
  <2>6. Names(a) = b
    BY <2>3, <2>4, <2>5
  <2> QED BY <2>6, Zenon DEF a, b
<1>4. ASSUME s # <<>>
      PROVE  /\ Names(s) # <<>> /\ Head(Names(s)) = Head(s).m
             /\ Tail(Names(s)) = Names(Tail(s))
  <2>1. /\ Tail(s) \in Seq(Entry) /\ Len(Tail(s)) = Len(s) - 1 /\ Len(s) \in Nat \ {0}
        /\ \A j \in 1 .. Len(Tail(s)) : Tail(s)[j] = s[j + 1]
    BY <1>4
  <2>2. Names(s) # <<>>
    BY <1>1, <2>1, Zenon
  <2>3. Head(Names(s)) = Names(s)[1] /\ Head(s) = s[1]
    BY <1>1, <1>4, <2>2
  <2>4. /\ Tail(Names(s)) \in Seq(Cmd) /\ Len(Tail(Names(s))) = Len(s) - 1
        /\ \A j \in 1 .. Len(s) - 1 : Tail(Names(s))[j] = Names(s)[j + 1]
    BY <1>1, <2>2
  <2>5. /\ Names(Tail(s)) \in Seq(Cmd) /\ Len(Names(Tail(s))) = Len(s) - 1
        /\ \A j \in 1 .. Len(s) - 1 : Names(Tail(s))[j] = Tail(s)[j].m
    BY <1>1, <2>1, Zenon
  <2>6. \A j \in 1 .. Len(s) - 1 : Names(s)[j + 1] = s[j + 1].m
    BY <1>1, <2>1
  <2>7. \A j \in 1 .. Len(s) - 1 : Tail(Names(s))[j] = Names(Tail(s))[j]
    BY <2>1, <2>4, <2>5, <2>6, Zenon
  <2>8. Tail(Names(s)) = Names(Tail(s))
    <3> DEFINE x == Tail(Names(s))
               y == Names(Tail(s))
    <3>1. x \in Seq(Cmd) /\ y \in Seq(Cmd) /\ Len(x) = Len(y)
      BY <2>4, <2>5, Zenon
    <3>2. \A j \in 1 .. Len(x) : x[j] = y[j]
      BY <2>4, <2>7, Zenon
    <3> HIDE DEF x, y
    <3>3. \A u, v \in Seq(Cmd) : Len(u) = Len(v) /\ (\A j \in 1 .. Len(u) : u[j] = v[j]) => u = v
      OBVIOUS
    <3>4. x = y
      BY <3>1, <3>2, <3>3, Zenon
    <3> QED BY <3>4, Zenon DEF x, y
  <2> QED BY <1>1, <2>1, <2>2, <2>3, <2>8
<1> QED BY <1>1, <1>2, <1>3, <1>4, Zenon

-----------------------------------------------------------------------------
(* What the steps do, in the terms the invariants need. *)

\* The ids that can be given out.
LEMMA IdRange ==
    /\ Cardinality(CU) \in Nat
    /\ Id = 0 .. Cardinality(CU) - 1
BY XgqClientAssumption, FS_CardinalityType, Zenon DEF Id

\* Attached CUs are counted, and their ids are in range.
LEMMA Attached ==
    ASSUME TypeOK, Ids
    PROVE  /\ IsFiniteSet(att) /\ num \in Nat
           /\ \A c \in CU : id[c] \in Id
           /\ \A c \in CU \ att : num \in Id /\ num < Cardinality(CU)
<1>1. att \subseteq CU /\ id \in [CU -> Id] /\ num = Cardinality(att)
  BY Zenon DEF TypeOK, Ids
<1>2. IsFiniteSet(att) /\ num \in Nat
  BY <1>1, XgqClientAssumption, FS_Subset, FS_CardinalityType, Zenon
<1>3. ASSUME NEW c \in CU \ att PROVE num < Cardinality(CU)
  <2>1. Cardinality(att) <= Cardinality(CU) /\ (Cardinality(CU) = Cardinality(att) => CU = att)
    BY <1>1, XgqClientAssumption, FS_Subset, Zenon
  <2> QED BY <1>1, <1>2, <2>1, IdRange
<1>4. ASSUME NEW c \in CU \ att PROVE num \in Id
  BY <1>2, <1>3, IdRange
<1> QED BY <1>1, <1>2, <1>3, <1>4, Zenon

\* What a look at the completion queue does: the response at its head goes to the
\* client it is for, whoever looks and however many clients there are.
LEMMA CheckSays ==
    ASSUME TypeOK, Ids, Entries, NEW c \in CU, Check(c)
    PROVE  \E r \in Entry, d \in att :
             /\ cq # <<>> /\ r = Head(cq) /\ d = CuOf[r.m] /\ cq' = Tail(cq)
             /\ id[d] \in Id /\ verdict[r.m] # None /\ r \in SeqSet(cq)
             /\ \/ sub[id[d]] = <<>> /\ held' = held + 1 /\ UNCHANGED <<sub, comp, told>>
                \/ sub[id[d]] # <<>> /\ held' = 0 /\ HandleResp(id[d], r)
             /\ Target(c, r) = id[d]
<1> DEFINE r == Head(cq)
           d == CuOf[r.m]
<1>1. cq # <<>> /\ cq' = Tail(cq) /\ cq \in Seq(Entry)
  BY Zenon DEF Check, TypeOK
<1>2. r \in Entry /\ r \in SeqSet(cq)
  BY <1>1, SetOfQueue
<1>3. r \in InFlight
  BY <1>2, Zenon DEF InFlight
<1>4. /\ d \in att /\ ClientOf(r.cid) = id[d] /\ verdict[r.m] # None
  BY <1>2, <1>3, Zenon DEF Entries, Good
<1>5. id[d] \in Id /\ id[d] \in Nat /\ id[c] \in Nat /\ id[d] < num
  BY <1>4, Attached, IdRange DEF TypeOK, Ids
<1>6. id[c] < num \/ id[c] = 0
  BY Zenon DEF Ids
<1>7. Target(c, r) = id[d]
  <2>1. CASE num > 1
    BY <1>4, <2>1, Zenon DEF Target
  <2>2. CASE ~(num > 1)
    <3>1. id[d] = 0 /\ id[c] = 0
      BY <1>5, <1>6, <2>2, Attached
    <3> QED BY <2>2, <3>1, Zenon DEF Target
  <2> QED BY <2>1, <2>2, Zenon
<1>8. \/ sub[id[d]] = <<>> /\ held' = held + 1 /\ UNCHANGED <<sub, comp, told>>
      \/ sub[id[d]] # <<>> /\ held' = 0 /\ HandleResp(id[d], r)
  <2> HIDE DEF d
  <2> QED BY <1>7, Zenon DEF Check
<1> QED BY <1>1, <1>2, <1>4, <1>5, <1>7, <1>8, Zenon

\* What it leaves alone, and where the thread goes.
LEMMA CheckKeeps ==
    ASSUME TypeOK, NEW c \in CU, Check(c)
    PROVE  /\ UNCHANGED <<num, id, att, nsq, sq, shown, dev, verdict, done, aborts, spoilt>>
           /\ seen' \subseteq CU /\ crashed' \subseteq CU
           /\ \E l \in {"idle", "check", "get"} :
                 pc' = [pc EXCEPT ![c] = l] /\ (l = "get" => nsq[c] > 0)
<1>1. UNCHANGED <<num, id, att, nsq, sq, shown, dev, verdict, done, aborts, spoilt>>
  BY Zenon DEF Check
<1>2. \/ Goto(c, IF nsq[c] > 0 THEN "get" ELSE "idle") \/ Goto(c, "check")
  BY Zenon DEF Check, LoopEnds
<1>3. \E l \in {"idle", "check", "get"} : pc' = [pc EXCEPT ![c] = l] /\ (l = "get" => nsq[c] > 0)
  BY <1>2, Zenon DEF Goto
<1>4. seen' \subseteq CU /\ crashed' \subseteq CU
  <2>1. seen \subseteq CU /\ crashed \subseteq CU
    BY Zenon DEF TypeOK
  <2>2. seen' \in {seen \cup {c}, seen \ {c}} /\ crashed' \in {crashed \cup {c}, crashed}
    BY Zenon DEF Check, LoopEnds
  <2> QED BY <2>1, <2>2, Zenon
<1> QED BY <1>1, <1>3, <1>4, Zenon

\* What the first of a list becomes, xocl_xgq_handle_resp().
LEMMA HandleTypes ==
    ASSUME TypeOK, NEW i \in Id, NEW r, sub[i] # <<>>, HandleResp(i, r)
    PROVE  /\ Head(sub[i]) \in Cmd /\ Tail(sub[i]) \in Seq(Cmd)
           /\ sub' = [sub EXCEPT ![i] = Tail(sub[i])]
           /\ comp' = [comp EXCEPT ![i] = Append(comp[i], Head(sub[i]))]
           /\ told' = [told EXCEPT ![Head(sub[i])] = Status(i, r)]
           /\ sub' \in [Id -> Seq(Cmd)] /\ comp' \in [Id -> Seq(Cmd)]
<1>1. sub \in [Id -> Seq(Cmd)] /\ comp \in [Id -> Seq(Cmd)]
  BY Zenon DEF TypeOK
<1>2. Head(sub[i]) \in Cmd /\ Tail(sub[i]) \in Seq(Cmd)
  BY <1>1
<1>3. Append(comp[i], Head(sub[i])) \in Seq(Cmd)
  BY <1>1, <1>2
<1>4. /\ sub' = [sub EXCEPT ![i] = Tail(sub[i])]
      /\ comp' = [comp EXCEPT ![i] = Append(comp[i], Head(sub[i]))]
      /\ told' = [told EXCEPT ![Head(sub[i])] = Status(i, r)]
  BY <1>1, Zenon DEF HandleResp
<1> QED BY <1>1, <1>2, <1>3, <1>4, Zenon

\* The other clients' lists, and the other commands' statuses.
LEMMA HandleKeeps ==
    ASSUME TypeOK, NEW i \in Id, NEW r, HandleResp(i, r)
    PROVE  /\ \A j \in Id : j # i => sub'[j] = sub[j] /\ comp'[j] = comp[j]
           /\ \A m \in Cmd : m # Head(sub[i]) => told'[m] = told[m]
<1>1. /\ sub \in [Id -> Seq(Cmd)] /\ comp \in [Id -> Seq(Cmd)]
      /\ told \in [Cmd -> {"completed", "crashed", "error", "timeout", None}]
  BY Zenon DEF TypeOK
<1>2. \A j \in Id : j # i => sub'[j] = sub[j] /\ comp'[j] = comp[j]
  BY <1>1, Zenon DEF HandleResp
<1>3. \A m \in Cmd : m # Head(sub[i]) => told'[m] = told[m]
  BY <1>1, Zenon DEF HandleResp
<1> QED BY <1>2, <1>3, Zenon

\* The lists in the state after an abort.
LEMMA AbortTypes ==
    ASSUME TypeOK, NEW c \in CU, NEW S, Abort(c, S)
    PROVE  /\ id[c] \in Id /\ c \in att /\ S \subseteq SeqSet(sub[id[c]]) /\ S \subseteq Cmd
           /\ sub' = [sub EXCEPT ![id[c]] = Only(sub[id[c]], Cmd \ S)]
           /\ comp' = [comp EXCEPT ![id[c]] = comp[id[c]] \o Only(sub[id[c]], S)]
           /\ sub' \in [Id -> Seq(Cmd)] /\ comp' \in [Id -> Seq(Cmd)]
<1>1. sub \in [Id -> Seq(Cmd)] /\ comp \in [Id -> Seq(Cmd)] /\ id[c] \in Id
  BY Zenon DEF TypeOK
<1>2. Only(sub[id[c]], Cmd \ S) \in Seq(Cmd) /\ Only(sub[id[c]], S) \in Seq(Cmd)
  BY <1>1, OnlyType, Zenon
<1>3. comp[id[c]] \o Only(sub[id[c]], S) \in Seq(Cmd)
  BY <1>1, <1>2
<1>4. /\ sub' = [sub EXCEPT ![id[c]] = Only(sub[id[c]], Cmd \ S)]
      /\ comp' = [comp EXCEPT ![id[c]] = comp[id[c]] \o Only(sub[id[c]], S)]
      /\ c \in att /\ S \subseteq SeqSet(sub[id[c]])
  BY <1>1, Zenon DEF Abort
<1>5. SeqSet(sub[id[c]]) \subseteq Cmd
  BY <1>1, SetOfQueue, Zenon
<1> QED BY <1>1, <1>2, <1>3, <1>4, <1>5, Zenon

\* A submission writes an entry of its own.
LEMMA SubmitSays ==
    ASSUME TypeOK, NEW c \in CU, NEW m \in Cmd, Submit(c, m)
    PROVE  \E e \in Entry :
             /\ c \in att /\ CuOf[m] = c /\ m \notin Issued /\ id[c] \in Id
             /\ e.m = m /\ ClientOf(e.cid) = id[c] /\ sq' = Append(sq, e)
             /\ sub' = [sub EXCEPT ![id[c]] = Append(sub[id[c]], m)]
             /\ sub' \in [Id -> Seq(Cmd)]
             /\ nsq' = [nsq EXCEPT ![c] = nsq[c] + 1]
<1>1. id[c] \in Id /\ sub \in [Id -> Seq(Cmd)] /\ nsq \in [CU -> Nat]
  BY Zenon DEF TypeOK
<1>2. PICK tag \in Tags : sq' = Append(sq, [m |-> m, cid |-> Cid(tag, id[c])])
  BY Zenon DEF Submit
<1> DEFINE e == [m |-> m, cid |-> Cid(tag, id[c])]
<1>3. Cid(tag, id[c]) \in Nat /\ ClientOf(Cid(tag, id[c])) = id[c]
  BY <1>1, CidNames, XgqClientAssumption, Zenon
<1>4. e \in Entry /\ e.m = m /\ e.cid = Cid(tag, id[c])
  BY <1>3, Zenon DEF Entry
<1>5. /\ sub' = [sub EXCEPT ![id[c]] = Append(sub[id[c]], m)]
      /\ nsq' = [nsq EXCEPT ![c] = nsq[c] + 1]
      /\ c \in att /\ CuOf[m] = c /\ m \notin Issued
  BY <1>1, Zenon DEF Submit
<1>6. sub' \in [Id -> Seq(Cmd)]
  BY <1>1, <1>5
<1> QED BY <1>1, <1>2, <1>3, <1>4, <1>5, <1>6, Zenon

\* Entries change hands whole.
LEMMA FetchSays ==
    ASSUME TypeOK, Fetch
    PROVE  \E e \in Entry, c \in CU :
             /\ sq # <<>> /\ e = Head(sq) /\ c = CuOf[e.m] /\ sq' = Tail(sq) /\ sq' \in Seq(Entry)
             /\ dev' = [dev EXCEPT ![c] = Append(dev[c], e)] /\ dev' \in [CU -> Seq(Entry)]
<1>1. /\ sq \in Seq(Entry) /\ shown \in 0 .. Len(sq) /\ shown > 0
      /\ dev \in [CU -> Seq(Entry)]
  BY Zenon DEF TypeOK, Fetch
<1>2. sq # <<>>
  BY <1>1
<1>3. Head(sq) \in Entry /\ Tail(sq) \in Seq(Entry)
  BY <1>1, <1>2
<1>4. CuOf[Head(sq).m] \in CU
  BY <1>3, XgqClientAssumption, Zenon DEF Entry
<1>5. sq' = Tail(sq) /\ dev' = [dev EXCEPT ![CuOf[Head(sq).m]] = Append(dev[CuOf[Head(sq).m]], Head(sq))]
  BY <1>1, <1>4, Zenon DEF Fetch
<1> DEFINE e == Head(sq)
           c == CuOf[e.m]
<1> HIDE DEF e, c
<1>6. dev' = [dev EXCEPT ![c] = Append(dev[c], e)] /\ e \in Entry /\ c \in CU
  BY <1>3, <1>4, <1>5, Zenon DEF e, c
<1>7. dev' \in [CU -> Seq(Entry)]
  BY <1>1, <1>6
<1> QED BY <1>2, <1>3, <1>5, <1>6, <1>7, Zenon DEF e, c

\* The same, on the way back.
LEMMA RespondSays ==
    ASSUME TypeOK, NEW c \in CU, Respond(c)
    PROVE  \E e \in Entry, v \in Verdict :
             /\ dev[c] # <<>> /\ e = Head(dev[c])
             /\ dev' = [dev EXCEPT ![c] = Tail(dev[c])] /\ dev' \in [CU -> Seq(Entry)]
             /\ cq' = Append(cq, e) /\ verdict' = [verdict EXCEPT ![e.m] = v]
<1>1. dev \in [CU -> Seq(Entry)] /\ dev[c] # <<>>
  BY Zenon DEF TypeOK, Respond
<1>2. Head(dev[c]) \in Entry /\ Tail(dev[c]) \in Seq(Entry)
  BY <1>1
<1>3. /\ dev' = [dev EXCEPT ![c] = Tail(dev[c])] /\ cq' = Append(cq, Head(dev[c]))
  BY <1>1, Zenon DEF Respond
<1>4. \E v \in Verdict : verdict' = [verdict EXCEPT ![Head(dev[c]).m] = v]
  BY Zenon DEF Respond, Verdict
<1>5. dev' \in [CU -> Seq(Entry)]
  BY <1>1, <1>2, <1>3, Zenon
<1> QED BY <1>1, <1>2, <1>3, <1>4, <1>5, Zenon

\* A status is one of those a command can have.
LEMMA StatusType ==
    ASSUME TypeOK, NEW i, NEW r \in Entry, verdict[r.m] # None
    PROVE  Status(i, r) \in {"completed", "crashed", "error"}
<1>1. verdict[r.m] \in Verdict
  BY Zenon DEF TypeOK, Entry
<1> QED BY <1>1, Zenon DEF Status, Verdict

-----------------------------------------------------------------------------
(* The types, the ids and what was issued. *)

\* Every step keeps the types.
LEMMA TypeStep ==
    ASSUME TypeOK, Ids, Entries, CountMatches, [Next]_vars
    PROVE  TypeOK'
<1> USE XgqClientAssumption
<1>1. ASSUME NEW c \in CU, Attach(c) PROVE TypeOK'
  <2>1. /\ att' = att \cup {c} /\ id' = [id EXCEPT ![c] = num] /\ num' = num + 1 /\ c \notin att
        /\ UNCHANGED <<sub, comp, nsq, pc, sq, shown, dev, cq, held, verdict, told, done,
                       seen, crashed, aborts, spoilt>>
    BY <1>1, Zenon DEF Attach, lists, device, rest
  <2>2. num \in Id /\ num < Cardinality(CU) /\ num \in Nat /\ Cardinality(CU) \in Nat
    BY <2>1, Attached, IdRange, Zenon
  <2>3. num' \in 0 .. Cardinality(CU) /\ id' \in [CU -> Id] /\ att' \subseteq CU /\ spoilt' \subseteq att'
    BY <2>1, <2>2 DEF TypeOK
  <2> QED BY <2>1, <2>3, Zenon DEF TypeOK
<1>2. ASSUME NEW c \in CU, NEW m \in Cmd, Submit(c, m) PROVE TypeOK'
  <2>1. PICK e \in Entry : /\ sq' = Append(sq, e) /\ sub' \in [Id -> Seq(Cmd)]
                           /\ nsq' = [nsq EXCEPT ![c] = nsq[c] + 1]
    BY <1>2, SubmitSays, Zenon
  <2>2. /\ Len(sq) < SlotNum /\ pc' = [pc EXCEPT ![c] = "start"]
        /\ UNCHANGED <<num, id, att, comp, shown, dev, cq, held, verdict, told, done,
                       seen, crashed, aborts, spoilt>>
    BY <1>2, Zenon DEF Submit, Goto, rest
  <2>3. /\ sq' \in Seq(Entry) /\ Len(sq') = Len(sq) + 1 /\ Len(sq) \in Nat
    BY <2>1 DEF TypeOK
  <2>4. Len(sq') <= SlotNum /\ shown \in 0 .. Len(sq')
    <3>1. SlotNum \in Nat /\ shown \in 0 .. Len(sq)
      BY XgqClientAssumption, Zenon DEF TypeOK
    <3>2. Len(sq) < SlotNum
      BY <2>2, Zenon
    <3> QED BY <2>3, <3>1, <3>2
  <2>a. nsq \in [CU -> Nat] /\ pc \in [CU -> {"idle", "start", "check", "get"}]
    BY Zenon DEF TypeOK
  <2>5. nsq' \in [CU -> Nat] /\ pc' \in [CU -> {"idle", "start", "check", "get"}]
    BY <2>1, <2>2, <2>a
  <2> QED BY <2>1, <2>2, <2>3, <2>4, <2>5, Zenon DEF TypeOK
<1>3. ASSUME NEW c \in CU, Start(c) PROVE TypeOK'
  <2>1. /\ shown' = Len(sq) /\ pc' = [pc EXCEPT ![c] = "idle"]
        /\ UNCHANGED <<num, id, att, sub, comp, nsq, sq, dev, cq, held, verdict, told, done,
                       seen, crashed, aborts, spoilt>>
    BY <1>3, Zenon DEF Start, Goto, lists, rest
  <2>2. shown' \in 0 .. Len(sq) /\ pc' \in [CU -> {"idle", "start", "check", "get"}]
    BY <2>1 DEF TypeOK
  <2> QED BY <2>1, <2>2, Zenon DEF TypeOK
<1>4. CASE Fetch
  <2>1. /\ sq # <<>> /\ sq' = Tail(sq) /\ sq' \in Seq(Entry) /\ dev' \in [CU -> Seq(Entry)]
    BY <1>4, FetchSays, Zenon
  <2>2. /\ shown > 0 /\ shown' = shown - 1
        /\ UNCHANGED <<num, id, att, sub, comp, nsq, pc, cq, held, verdict, told, done,
                       seen, crashed, aborts, spoilt>>
    BY <1>4, Zenon DEF Fetch, lists, rest
  <2>3. Len(sq') = Len(sq) - 1 /\ Len(sq) \in Nat
    BY <2>1 DEF TypeOK
  <2>4. Len(sq') <= SlotNum /\ shown' \in 0 .. Len(sq')
    BY <2>2, <2>3 DEF TypeOK
  <2> QED BY <2>1, <2>2, <2>4, Zenon DEF TypeOK
<1>5. ASSUME NEW c \in CU, Respond(c) PROVE TypeOK'
  <2>1. PICK e \in Entry, v \in Verdict :
             dev' \in [CU -> Seq(Entry)] /\ cq' = Append(cq, e) /\ verdict' = [verdict EXCEPT ![e.m] = v]
    BY <1>5, RespondSays, Zenon
  <2>2. /\ Len(cq) + held < SlotNum
        /\ UNCHANGED <<num, id, att, sub, comp, nsq, pc, sq, shown, held, told, done,
                       seen, crashed, aborts, spoilt>>
    BY <1>5, Zenon DEF Respond, lists, rest
  <2>3. /\ cq' \in Seq(Entry) /\ Len(cq') = Len(cq) + 1 /\ Len(cq) \in Nat
    BY <2>1 DEF TypeOK
  <2>4. Len(cq') + held <= SlotNum
    BY <2>2, <2>3 DEF TypeOK
  <2>5. verdict' \in [Cmd -> Verdict \cup {None}]
    BY <2>1, Zenon DEF TypeOK, Entry
  <2> QED BY <2>1, <2>2, <2>3, <2>4, <2>5, Zenon DEF TypeOK
<1>6. ASSUME NEW c \in CU, Check(c) PROVE TypeOK'
  <2>1. PICK r \in Entry, d \in att :
             /\ cq # <<>> /\ cq' = Tail(cq) /\ id[d] \in Id /\ verdict[r.m] # None
             /\ \/ sub[id[d]] = <<>> /\ held' = held + 1 /\ UNCHANGED <<sub, comp, told>>
                \/ sub[id[d]] # <<>> /\ held' = 0 /\ HandleResp(id[d], r)
    BY <1>6, CheckSays, Zenon
  <2>2. /\ UNCHANGED <<num, id, att, nsq, sq, shown, dev, verdict, done, aborts, spoilt>>
        /\ seen' \subseteq CU /\ crashed' \subseteq CU
        /\ \E l \in {"idle", "check", "get"} : pc' = [pc EXCEPT ![c] = l]
    BY <1>6, CheckKeeps, Zenon
  <2>3. cq' \in Seq(Entry) /\ Len(cq') = Len(cq) - 1 /\ Len(cq) \in Nat
    BY <2>1 DEF TypeOK
  <2>a. held \in Nat /\ Len(cq) + held <= SlotNum
    BY Zenon DEF TypeOK
  <2>b. held' = held + 1 \/ held' = 0
    BY <2>1, Zenon
  <2>4. held' \in Nat /\ Len(cq') + held' <= SlotNum
    BY <2>3, <2>a, <2>b
  <2>5. pc' \in [CU -> {"idle", "start", "check", "get"}]
    BY <2>2, Zenon DEF TypeOK
  <2>6. /\ sub' \in [Id -> Seq(Cmd)] /\ comp' \in [Id -> Seq(Cmd)]
        /\ told' \in [Cmd -> {"completed", "crashed", "error", "timeout", None}]
    <3>1. CASE UNCHANGED <<sub, comp, told>>
      BY <3>1, Zenon DEF TypeOK
    <3>2. CASE sub[id[d]] # <<>> /\ HandleResp(id[d], r)
      <4>1. /\ sub' \in [Id -> Seq(Cmd)] /\ comp' \in [Id -> Seq(Cmd)] /\ Head(sub[id[d]]) \in Cmd
            /\ told' = [told EXCEPT ![Head(sub[id[d]])] = Status(id[d], r)]
        BY <2>1, <3>2, HandleTypes, Zenon
      <4>2. Status(id[d], r) \in {"completed", "crashed", "error"}
        BY <2>1, StatusType, Zenon
      <4> QED BY <4>1, <4>2, Zenon DEF TypeOK
    <3> QED BY <2>1, <3>1, <3>2, Zenon
  <2> QED BY <2>2, <2>3, <2>4, <2>5, <2>6, Zenon DEF TypeOK
<1>7. ASSUME NEW c \in CU, CheckEmpty(c) \/ GetNone(c) PROVE TypeOK'
  <2>1. /\ \E l \in {"idle", "get"} : pc' = [pc EXCEPT ![c] = l]
        /\ seen' \in {seen, seen \ {c}} /\ crashed' \in {crashed, crashed \cup {c}}
    BY <1>7, Zenon DEF CheckEmpty, GetNone, LoopEnds, Goto, rest
  <2>2. UNCHANGED <<num, id, att, sub, comp, nsq, sq, shown, dev, cq, held, verdict, told, done,
                    aborts, spoilt>>
    BY <1>7, Zenon DEF CheckEmpty, GetNone, lists, device, rest
  <2>3. /\ pc' \in [CU -> {"idle", "start", "check", "get"}]
        /\ seen' \subseteq CU /\ crashed' \subseteq CU
    BY <2>1 DEF TypeOK
  <2> QED BY <2>2, <2>3, Zenon DEF TypeOK
<1>8. ASSUME NEW c \in CU, Get(c) PROVE TypeOK'
  <2>1. c \in att /\ id[c] \in Id /\ comp \in [Id -> Seq(Cmd)] /\ nsq \in [CU -> Nat]
        /\ sub \in [Id -> Seq(Cmd)] /\ comp[id[c]] # <<>>
    BY <1>8, Zenon DEF Get, Ids, TypeOK
  <2>2. Head(comp[id[c]]) \in Cmd /\ Tail(comp[id[c]]) \in Seq(Cmd) /\ Len(comp[id[c]]) \in Nat \ {0}
        /\ Len(sub[id[c]]) \in Nat
    BY <2>1
  <2>a. nsq[c] = Len(sub[id[c]]) + Len(comp[id[c]])
    BY <2>1, Zenon DEF CountMatches
  <2>3. nsq[c] > 0
    <3> DEFINE a == Len(sub[id[c]])
               b == Len(comp[id[c]])
    <3>1. a \in Nat /\ b \in Nat /\ b # 0 /\ nsq[c] = a + b
      BY <2>2, <2>a, Zenon
    <3> HIDE DEF a, b
    <3> QED BY <3>1
  <2>4. /\ done' = done \cup {Head(comp[id[c]])} /\ nsq' = [nsq EXCEPT ![c] = nsq[c] - 1]
        /\ comp' = [comp EXCEPT ![id[c]] = Tail(comp[id[c]])]
        /\ UNCHANGED <<num, id, att, sub, pc, sq, shown, dev, cq, held, verdict, told,
                       seen, crashed, aborts, spoilt>>
    BY <1>8, <2>1, Zenon DEF Get, device, rest
  <2>b. done' \subseteq Cmd
    BY <2>2, <2>4, Zenon DEF TypeOK
  <2>c. nsq' \in [CU -> Nat]
    BY <2>1, <2>3, <2>4
  <2>5. done' \subseteq Cmd /\ nsq' \in [CU -> Nat] /\ comp' \in [Id -> Seq(Cmd)]
    BY <2>1, <2>2, <2>4, <2>b, <2>c, Zenon
  <2> QED BY <2>4, <2>5, Zenon DEF TypeOK
<1>9. ASSUME NEW c \in CU, NEW S, Abort(c, S) PROVE TypeOK'
  <2>1. /\ c \in att /\ S \subseteq SeqSet(sub[id[c]]) /\ S \subseteq Cmd
        /\ sub' \in [Id -> Seq(Cmd)] /\ comp' \in [Id -> Seq(Cmd)]
    BY <1>9, AbortTypes, Zenon
  <2>2. /\ told' = [m \in Cmd |-> IF m \in S THEN "timeout" ELSE told[m]]
        /\ aborts' = aborts + Cardinality(S) /\ aborts' <= MaxAbort
        /\ spoilt' = spoilt \cup {c} /\ pc' = [pc EXCEPT ![c] = "get"]
        /\ UNCHANGED <<num, id, att, nsq, sq, shown, dev, cq, held, verdict, done, seen, crashed>>
    BY <1>9, Zenon DEF Abort, Goto, device
  <2>3. Cardinality(S) \in Nat
    BY <2>1, QueueFinite, FS_Subset, FS_CardinalityType, Zenon DEF TypeOK
  <2>a. aborts' \in 0 .. MaxAbort
    <3>1. aborts \in 0 .. MaxAbort
      BY Zenon DEF TypeOK
    <3> QED BY <2>2, <2>3, <3>1
  <2>b. told' \in [Cmd -> {"completed", "crashed", "error", "timeout", None}]
    <3>1. told \in [Cmd -> {"completed", "crashed", "error", "timeout", None}]
      BY Zenon DEF TypeOK
    <3> QED BY <2>2, <3>1, Zenon
  <2>c. spoilt' \subseteq att /\ pc' \in [CU -> {"idle", "start", "check", "get"}]
    BY <2>1, <2>2, Zenon DEF TypeOK
  <2> QED BY <2>1, <2>2, <2>a, <2>b, <2>c, Zenon DEF TypeOK
<1>10. CASE UNCHANGED vars
  BY <1>10, Zenon DEF vars, TypeOK
<1> QED BY <1>1, <1>2, <1>3, <1>4, <1>5, <1>6, <1>7, <1>8, <1>9, <1>10, Zenon DEF Next, Thread

\* Steps that give out no id.
LEMMA IdsKept ==
    ASSUME Ids, UNCHANGED <<num, id, att>>,
           \A c \in CU \ att : nsq'[c] = nsq[c] /\ pc'[c] \in {"idle", "check"},
           \A i \in Id : i >= num => sub'[i] = sub[i] /\ comp'[i] = comp[i]
    PROVE  Ids'
BY Zenon DEF Ids

\* An id is given out once, and nobody writes to the lists of another.
LEMMA IdsStep ==
    ASSUME TypeOK, Ids, Entries, [Next]_vars
    PROVE  Ids'
<1>a. /\ sub \in [Id -> Seq(Cmd)] /\ comp \in [Id -> Seq(Cmd)] /\ id \in [CU -> Id]
      /\ nsq \in [CU -> Nat] /\ pc \in [CU -> {"idle", "start", "check", "get"}]
      /\ att \subseteq CU
  BY Zenon DEF TypeOK
<1>b. num \in Nat /\ Id \subseteq Nat
  BY Attached, IdRange
<1>c. /\ \A c \in att : id[c] \in Id /\ id[c] < num
      /\ \A c \in CU \ att : nsq[c] = 0 /\ pc[c] \in {"idle", "check"}
  BY <1>a, Zenon DEF Ids
<1>0. /\ sub \in [Id -> Seq(Cmd)] /\ comp \in [Id -> Seq(Cmd)] /\ id \in [CU -> Id]
      /\ nsq \in [CU -> Nat] /\ pc \in [CU -> {"idle", "start", "check", "get"}]
      /\ att \subseteq CU /\ num \in Nat /\ Id \subseteq Nat
      /\ \A c \in att : id[c] \in Id /\ id[c] < num
      /\ \A c \in CU \ att : nsq[c] = 0 /\ pc[c] \in {"idle", "check"}
  BY <1>a, <1>b, <1>c, Zenon
<1>1. ASSUME NEW c \in CU, Attach(c) PROVE Ids'
  <2>1. /\ att' = att \cup {c} /\ id' = [id EXCEPT ![c] = num] /\ num' = num + 1 /\ c \notin att
        /\ UNCHANGED <<sub, comp, nsq, pc>>
    BY <1>1, Zenon DEF Attach, lists
  <2>2. num' = Cardinality(att')
    BY <1>0, <2>1, Attached, FS_AddElement, Zenon DEF Ids
  <2>3. \A d \in att : id'[d] = id[d] /\ id[d] < num
    BY <1>0, <2>1, Zenon
  <2>4. id'[c] = num
    BY <1>0, <2>1, Zenon
  <2>5. \A d \in att' : id'[d] < num'
    <3> SUFFICES ASSUME NEW d \in att' PROVE id'[d] < num'
      BY Zenon
    <3>1. CASE d = c
      BY <1>b, <2>1, <2>4, <3>1
    <3>2. CASE d \in att
      <4>1. id'[d] \in Nat /\ id'[d] < num
        BY <1>b, <1>c, <2>3, <3>2, Zenon
      <4> QED BY <1>b, <2>1, <4>1
    <3> QED BY <2>1, <3>1, <3>2, Zenon
  <2>6. \A d, f \in att' : id'[d] = id'[f] => d = f
    BY <1>0, <2>1, <2>3, <2>4 DEF Ids
  <2>7. \A d \in CU \ att' : id'[d] = 0 /\ nsq'[d] = 0 /\ pc'[d] \in {"idle", "check"}
    BY <1>0, <2>1, Zenon DEF Ids
  <2>8. \A i \in Id : i >= num' => sub'[i] = <<>> /\ comp'[i] = <<>>
    <3> SUFFICES ASSUME NEW i \in Id, i >= num' PROVE sub'[i] = <<>> /\ comp'[i] = <<>>
      BY Zenon
    <3>1. i >= num
      BY <1>0, <2>1
    <3> QED BY <2>1, <3>1, Zenon DEF Ids
  <2> QED BY <2>2, <2>5, <2>6, <2>7, <2>8, Zenon DEF Ids
<1>2. ASSUME NEW c \in CU, NEW m \in Cmd, Submit(c, m) PROVE Ids'
  <2>1. /\ c \in att /\ sub' = [sub EXCEPT ![id[c]] = Append(sub[id[c]], m)]
        /\ nsq' = [nsq EXCEPT ![c] = nsq[c] + 1]
    BY <1>2, SubmitSays, Zenon
  <2>2. pc' = [pc EXCEPT ![c] = "start"] /\ UNCHANGED <<num, id, att, comp>>
    BY <1>2, Zenon DEF Submit, Goto
  <2> QED BY <1>0, <2>1, <2>2, IdsKept
<1>3. ASSUME NEW c \in CU, Start(c) \/ CheckEmpty(c) \/ GetNone(c) PROVE Ids'
  <2>1. UNCHANGED <<num, id, att, sub, comp, nsq>>
    BY <1>3, Zenon DEF Start, CheckEmpty, GetNone, lists
  <2>2. \E l \in {"idle", "get"} : pc' = [pc EXCEPT ![c] = l] /\ (l = "get" => nsq[c] > 0)
    BY <1>3, Zenon DEF Start, CheckEmpty, GetNone, LoopEnds, Goto
  <2>3. \A d \in CU \ att : pc'[d] \in {"idle", "check"}
    BY <1>0, <2>2
  <2> QED BY <2>1, <2>3, IdsKept, Zenon
<1>4. CASE Fetch \/ (\E c \in CU : Respond(c)) \/ UNCHANGED vars
  <2>1. UNCHANGED <<num, id, att, sub, comp, nsq, pc>>
    BY <1>4, Zenon DEF Fetch, Respond, lists, vars
  <2> QED BY <1>0, <2>1, IdsKept, Zenon
<1>5. ASSUME NEW c \in CU, Check(c) PROVE Ids'
  <2>1. PICK r \in Entry, d \in att :
             /\ id[d] \in Id
             /\ \/ sub[id[d]] = <<>> /\ UNCHANGED <<sub, comp, told>>
                \/ sub[id[d]] # <<>> /\ HandleResp(id[d], r)
    BY <1>5, CheckSays, Zenon
  <2>2. UNCHANGED <<num, id, att, nsq>>
    BY <1>5, CheckKeeps, Zenon
  <2>3. \E l \in {"idle", "check", "get"} : pc' = [pc EXCEPT ![c] = l] /\ (l = "get" => nsq[c] > 0)
    BY <1>5, CheckKeeps, Zenon
  <2>4. \A f \in CU \ att : pc'[f] \in {"idle", "check"}
    BY <1>0, <2>3
  <2>5. \A i \in Id : i # id[d] => sub'[i] = sub[i] /\ comp'[i] = comp[i]
    BY <2>1, HandleKeeps, Zenon
  <2>6. id[d] < num /\ id[d] \in Nat
    BY <1>0, Zenon
  <2>7. \A i \in Id : i >= num => sub'[i] = sub[i] /\ comp'[i] = comp[i]
    BY <1>0, <2>5, <2>6
  <2> QED BY <2>2, <2>4, <2>7, IdsKept, Zenon
<1>6. ASSUME NEW c \in CU, Get(c) PROVE Ids'
  <2>1. c \in att
    BY <1>0, <1>6, Zenon DEF Get
  <2>2. /\ comp' = [comp EXCEPT ![id[c]] = Tail(@)] /\ nsq' = [nsq EXCEPT ![c] = @ - 1]
        /\ UNCHANGED <<num, id, att, sub, pc>>
    BY <1>6, Zenon DEF Get
  <2> QED BY <1>0, <2>1, <2>2, IdsKept
<1>7. ASSUME NEW c \in CU, NEW S, Abort(c, S) PROVE Ids'
  <2>1. /\ c \in att /\ sub' = [sub EXCEPT ![id[c]] = Only(sub[id[c]], Cmd \ S)]
        /\ comp' = [comp EXCEPT ![id[c]] = comp[id[c]] \o Only(sub[id[c]], S)]
    BY <1>7, AbortTypes, Zenon
  <2>2. pc' = [pc EXCEPT ![c] = "get"] /\ UNCHANGED <<num, id, att, nsq>>
    BY <1>7, Zenon DEF Abort, Goto
  <2>3. id[c] < num /\ id[c] \in Nat
    BY <1>0, <2>1, Zenon
  <2>4. \A i \in Id : i >= num => i # id[c]
    BY <1>b, <2>3
  <2>5. \A i \in Id : i >= num => sub'[i] = sub[i] /\ comp'[i] = comp[i]
    BY <1>a, <2>1, <2>4, Zenon
  <2>6. \A d \in CU \ att : pc'[d] \in {"idle", "check"}
    BY <1>a, <1>c, <2>1, <2>2, Zenon
  <2> QED BY <2>2, <2>5, <2>6, IdsKept, Zenon
<1> QED BY <1>1, <1>2, <1>3, <1>4, <1>5, <1>6, <1>7, Zenon DEF Next, Thread

\* What is on a client's two lists, or handed back, was issued.
LEMMA IssuedMove ==
    ASSUME sub \in [Id -> Seq(Cmd)], comp \in [Id -> Seq(Cmd)], NEW i \in Id, NEW a, NEW b,
           sub' = [sub EXCEPT ![i] = a], comp' = [comp EXCEPT ![i] = b], done \subseteq done',
           SeqSet(sub[i]) \cup SeqSet(comp[i]) \subseteq SeqSet(a) \cup SeqSet(b) \cup done'
    PROVE  Issued \subseteq Issued'
<1> SUFFICES ASSUME NEW m \in Issued PROVE m \in Issued'
  BY Zenon
<1>1. CASE m \in done
  BY <1>1, Zenon DEF Issued
<1>2. CASE \E j \in Id : m \in SeqSet(sub[j]) \cup SeqSet(comp[j])
  <2>1. PICK j \in Id : m \in SeqSet(sub[j]) \cup SeqSet(comp[j])
    BY <1>2, Zenon
  <2>2. CASE j = i
    <3>1. sub'[i] = a /\ comp'[i] = b
      BY Zenon
    <3>2. m \in SeqSet(sub'[i]) \cup SeqSet(comp'[i]) \cup done'
      BY <2>1, <2>2, <3>1, Zenon
    <3> QED BY <3>2, Zenon DEF Issued
  <2>3. CASE j # i
    <3>1. sub'[j] = sub[j] /\ comp'[j] = comp[j]
      BY <2>3, Zenon
    <3>2. m \in SeqSet(sub'[j]) \cup SeqSet(comp'[j])
      BY <2>1, <3>1, Zenon
    <3> QED BY <3>2, Zenon DEF Issued
  <2> QED BY <2>2, <2>3, Zenon
<1> QED BY <1>1, <1>2, Zenon DEF Issued

\* A command that was issued stays so.
LEMMA IssuedStep ==
    ASSUME TypeOK, Ids, Entries, [Next]_vars
    PROVE  Issued \subseteq Issued'
<1>0. sub \in [Id -> Seq(Cmd)] /\ comp \in [Id -> Seq(Cmd)] /\ id \in [CU -> Id]
  BY Zenon DEF TypeOK
<1>1. CASE UNCHANGED <<sub, comp, done>>
  BY <1>1, Zenon DEF Issued
<1>2. ASSUME NEW c \in CU, NEW m \in Cmd, Submit(c, m) PROVE Issued \subseteq Issued'
  <2>1. sub' = [sub EXCEPT ![id[c]] = Append(sub[id[c]], m)] /\ id[c] \in Id
    BY <1>2, SubmitSays, Zenon
  <2>2. comp' = [comp EXCEPT ![id[c]] = comp[id[c]]] /\ done' = done
    BY <1>0, <1>2, Zenon DEF Submit
  <2>3. SeqSet(sub[id[c]]) \subseteq SeqSet(Append(sub[id[c]], m))
    BY <1>0, <2>1, SetOfQueue
  <2> QED BY <1>0, <2>1, <2>2, <2>3, IssuedMove, Zenon
<1>3. ASSUME NEW c \in CU, Check(c) PROVE Issued \subseteq Issued'
  <2>1. PICK r \in Entry, d \in att :
             /\ id[d] \in Id
             /\ \/ sub[id[d]] = <<>> /\ UNCHANGED <<sub, comp, told>>
                \/ sub[id[d]] # <<>> /\ HandleResp(id[d], r)
    BY <1>3, CheckSays, Zenon
  <2>2. done' = done
    BY <1>3, CheckKeeps, Zenon
  <2>3. CASE sub[id[d]] # <<>> /\ HandleResp(id[d], r)
    <3> DEFINE i == id[d]
    <3>1. /\ Head(sub[i]) \in Cmd /\ sub' = [sub EXCEPT ![i] = Tail(sub[i])]
          /\ comp' = [comp EXCEPT ![i] = Append(comp[i], Head(sub[i]))]
      BY <2>1, <2>3, HandleTypes, Zenon
    <3>2. i \in Id /\ sub[i] # <<>>
      BY <2>1, <2>3, Zenon
    <3> HIDE DEF i
    <3>3. /\ SeqSet(sub[i]) = {Head(sub[i])} \cup SeqSet(Tail(sub[i]))
          /\ SeqSet(Append(comp[i], Head(sub[i]))) = SeqSet(comp[i]) \cup {Head(sub[i])}
      BY <1>0, <3>1, <3>2, SetOfQueue
    <3> QED BY <1>0, <2>2, <3>1, <3>2, <3>3, IssuedMove, Zenon
  <2> QED BY <1>1, <2>1, <2>2, <2>3, Zenon
<1>4. ASSUME NEW c \in CU, Get(c) PROVE Issued \subseteq Issued'
  <2> DEFINE i == id[c]
  <2>1. i \in Id /\ comp[i] # <<>>
    BY <1>0, <1>4, Zenon DEF Get
  <2>2. /\ comp' = [comp EXCEPT ![i] = Tail(comp[i])] /\ sub' = [sub EXCEPT ![i] = sub[i]]
        /\ done' = done \cup {Head(comp[i])}
    BY <1>0, <1>4, Zenon DEF Get
  <2> HIDE DEF i
  <2>3. SeqSet(comp[i]) = {Head(comp[i])} \cup SeqSet(Tail(comp[i]))
    BY <1>0, <2>1, SetOfQueue, Zenon
  <2> QED BY <1>0, <2>1, <2>2, <2>3, IssuedMove, Zenon
<1>5. ASSUME NEW c \in CU, NEW S, Abort(c, S) PROVE Issued \subseteq Issued'
  <2> DEFINE i == id[c]
  <2>1. /\ i \in Id /\ sub' = [sub EXCEPT ![i] = Only(sub[i], Cmd \ S)]
        /\ comp' = [comp EXCEPT ![i] = comp[i] \o Only(sub[i], S)]
    BY <1>5, AbortTypes, Zenon
  <2>2. done' = done
    BY <1>5, Zenon DEF Abort
  <2> HIDE DEF i
  <2>3. /\ Only(sub[i], S) \in Seq(Cmd) /\ SeqSet(Only(sub[i], S)) = SeqSet(sub[i]) \cap S
        /\ SeqSet(Only(sub[i], Cmd \ S)) = SeqSet(sub[i]) \cap (Cmd \ S)
        /\ SeqSet(sub[i]) \subseteq Cmd
    BY <1>0, <2>1, OnlyType, SetOfQueue
  <2>4. SeqSet(comp[i] \o Only(sub[i], S)) = SeqSet(comp[i]) \cup SeqSet(Only(sub[i], S))
    BY <1>0, <2>1, <2>3, SetOfQueue
  <2> QED BY <1>0, <2>1, <2>2, <2>3, <2>4, IssuedMove, Zenon
<1>6. ASSUME NEW c \in CU, Attach(c) \/ Start(c) \/ CheckEmpty(c) \/ GetNone(c) \/ Respond(c)
      PROVE  UNCHANGED <<sub, comp, done>>
  BY <1>6, Zenon DEF Attach, Start, CheckEmpty, GetNone, Respond, lists
<1>7. CASE Fetch \/ UNCHANGED vars
  BY <1>1, <1>7, Zenon DEF Fetch, lists, vars
<1> QED BY <1>1, <1>2, <1>3, <1>4, <1>5, <1>6, <1>7, Zenon DEF Next, Thread

-----------------------------------------------------------------------------
(* The entries between the driver and the device. *)

\* Where an entry can be.
LEMMA Flying ==
    ASSUME NEW x
    PROVE  /\ x \in InFlight <=> \/ x \in SeqSet(sq) \/ x \in SeqSet(cq)
                                 \/ \E c \in CU : x \in SeqSet(dev[c])
           /\ x \in InFlight' <=> \/ x \in SeqSet(sq') \/ x \in SeqSet(cq')
                                  \/ \E c \in CU : x \in SeqSet(dev'[c])
BY Zenon DEF InFlight

\* A submission adds its entry; the device takes entries and gives them back.
LEMMA FlightSubmit ==
    ASSUME TypeOK, NEW e \in Entry, sq' = Append(sq, e), UNCHANGED <<cq, dev>>
    PROVE  InFlight' = InFlight \cup {e}
<1>1. SeqSet(sq') = SeqSet(sq) \cup {e}
  BY SetOfQueue DEF TypeOK
<1> QED BY <1>1, Flying, Zenon

\* The device takes an entry.
LEMMA FlightFetch ==
    ASSUME TypeOK, Fetch
    PROVE  /\ InFlight' = InFlight
           /\ \A c \in CU : \A e \in SeqSet(dev'[c]) : e \in SeqSet(dev[c]) \/ CuOf[e.m] = c
           /\ UNCHANGED <<cq, verdict>>
<1>0. sq \in Seq(Entry) /\ dev \in [CU -> Seq(Entry)]
  BY Zenon DEF TypeOK
<1>1. PICK e \in Entry, c \in CU :
           /\ sq # <<>> /\ e = Head(sq) /\ c = CuOf[e.m] /\ sq' = Tail(sq)
           /\ dev' = [dev EXCEPT ![c] = Append(dev[c], e)]
  BY FetchSays, Zenon
<1>2. SeqSet(sq) = {e} \cup SeqSet(sq')
  BY <1>0, <1>1, SetOfQueue, Zenon
<1>3. SeqSet(dev'[c]) = SeqSet(dev[c]) \cup {e} /\ \A d \in CU : d # c => dev'[d] = dev[d]
  BY <1>0, <1>1, SetOfQueue
<1>4. UNCHANGED <<cq, verdict>>
  BY Zenon DEF Fetch
<1>5. InFlight' = InFlight
  <2> SUFFICES ASSUME NEW x PROVE x \in InFlight' <=> x \in InFlight
    BY Zenon
  <2> QED BY <1>1, <1>2, <1>3, <1>4, Flying, Zenon
<1>6. \A d \in CU : \A f \in SeqSet(dev'[d]) : f \in SeqSet(dev[d]) \/ CuOf[f.m] = d
  BY <1>1, <1>3, Zenon
<1> QED BY <1>4, <1>5, <1>6, Zenon

\* The device answers one.
LEMMA FlightRespond ==
    ASSUME TypeOK, NEW c \in CU, Respond(c)
    PROVE  /\ InFlight' = InFlight
           /\ \A d \in CU : SeqSet(dev'[d]) \subseteq SeqSet(dev[d])
           /\ \E e \in Entry, v \in Verdict :
                 SeqSet(cq') = SeqSet(cq) \cup {e} /\ verdict' = [verdict EXCEPT ![e.m] = v]
<1>0. cq \in Seq(Entry) /\ dev \in [CU -> Seq(Entry)]
  BY Zenon DEF TypeOK
<1>1. PICK e \in Entry, v \in Verdict :
           /\ dev[c] # <<>> /\ e = Head(dev[c]) /\ dev' = [dev EXCEPT ![c] = Tail(dev[c])]
           /\ cq' = Append(cq, e) /\ verdict' = [verdict EXCEPT ![e.m] = v]
  BY RespondSays, Zenon
<1>2. SeqSet(cq') = SeqSet(cq) \cup {e}
  BY <1>0, <1>1, SetOfQueue
<1>3. SeqSet(dev[c]) = {e} \cup SeqSet(dev'[c]) /\ \A d \in CU : d # c => dev'[d] = dev[d]
  BY <1>0, <1>1, SetOfQueue, Zenon
<1>4. sq' = sq
  BY Zenon DEF Respond
<1>5. InFlight' = InFlight
  <2> SUFFICES ASSUME NEW x PROVE x \in InFlight' <=> x \in InFlight
    BY Zenon
  <2> QED BY <1>2, <1>3, <1>4, Flying, Zenon
<1>6. \A d \in CU : SeqSet(dev'[d]) \subseteq SeqSet(dev[d])
  BY <1>3, Zenon
<1> QED BY <1>1, <1>2, <1>5, <1>6, Zenon

\* A look at the completion queue takes one response, and no other entry.
LEMMA FlightCheck ==
    ASSUME TypeOK, NEW c \in CU, Check(c), cq # <<>>
    PROVE  /\ InFlight' \subseteq InFlight /\ InFlight \subseteq InFlight' \cup {Head(cq)}
           /\ SeqSet(cq') \subseteq SeqSet(cq)
<1>1. cq' = Tail(cq) /\ UNCHANGED <<sq, dev>> /\ cq \in Seq(Entry)
  BY Zenon DEF Check, TypeOK
<1>2. SeqSet(cq) = {Head(cq)} \cup SeqSet(cq')
  BY <1>1, SetOfQueue, Zenon
<1>3. ASSUME NEW x \in InFlight' PROVE x \in InFlight
  BY <1>1, <1>2, Flying, Zenon
<1>4. ASSUME NEW x \in InFlight PROVE x \in InFlight' \cup {Head(cq)}
  BY <1>1, <1>2, Flying, Zenon
<1> QED BY <1>2, <1>3, <1>4, Zenon

\* An id is kept.
LEMMA IdStays ==
    ASSUME TypeOK, [Next]_vars
    PROVE  att \subseteq att' /\ \A c \in att : id'[c] = id[c]
<1>1. ASSUME NEW c \in CU, Attach(c) PROVE att \subseteq att' /\ \A d \in att : id'[d] = id[d]
  <2>1. c \notin att /\ att' = att \cup {c} /\ id' = [id EXCEPT ![c] = num]
    BY <1>1, Zenon DEF Attach
  <2>2. att \subseteq CU /\ id \in [CU -> Id]
    BY Zenon DEF TypeOK
  <2> QED BY <2>1, <2>2, Zenon
<1>2. ASSUME NEW c \in CU, Thread(c) \/ Respond(c) PROVE UNCHANGED <<att, id>>
  BY <1>2, Zenon DEF Thread, Start, Check, CheckEmpty, Get, GetNone, Respond
<1>3. ASSUME NEW c \in CU, NEW m \in Cmd, Submit(c, m) PROVE UNCHANGED <<att, id>>
  BY <1>3, Zenon DEF Submit
<1>4. ASSUME NEW c \in CU, NEW S, Abort(c, S) PROVE UNCHANGED <<att, id>>
  BY <1>4, Zenon DEF Abort
<1>5. CASE Fetch \/ UNCHANGED vars
  BY <1>5, Zenon DEF Fetch, vars
<1> QED BY <1>1, <1>2, <1>3, <1>4, <1>5, Zenon DEF Next

\* An entry that is in order stays so.
LEMMA GoodStays ==
    ASSUME NEW e, Good(e), att \subseteq att', \A c \in att : id'[c] = id[c], Issued \subseteq Issued'
    PROVE  Good(e)'
BY Zenon DEF Good

\* Entries stay in order.
LEMMA EntriesStep ==
    ASSUME TypeOK, Ids, Entries, [Next]_vars
    PROVE  Entries'
<1>0. att \subseteq att' /\ (\A c \in att : id'[c] = id[c]) /\ Issued \subseteq Issued'
  BY IdStays, IssuedStep, Zenon
<1>1. ASSUME NEW e, e \in InFlight PROVE Good(e)'
  <2>1. Good(e)
    BY <1>1, Zenon DEF Entries
  <2> QED BY <1>0, <2>1, GoodStays, Zenon
<1>2. ASSUME InFlight' \subseteq InFlight, dev' = dev, verdict' = verdict, SeqSet(cq') \subseteq SeqSet(cq)
      PROVE  Entries'
  <2>1. \A e \in InFlight' : Good(e)'
    BY <1>1, <1>2, Zenon
  <2>2. IsFiniteSet(InFlight')
    BY <1>2, FS_Subset, Zenon DEF Entries
  <2>3. /\ \A c \in CU : \A e \in SeqSet(dev'[c]) : CuOf[e.m] = c
        /\ \A e \in SeqSet(cq') : verdict'[e.m] # None
    BY <1>2, Zenon DEF Entries
  <2> QED BY <2>1, <2>2, <2>3, Zenon DEF Entries
<1>3. CASE UNCHANGED <<sq, dev, cq, verdict>>
  <2>1. InFlight' = InFlight
    BY <1>3, Zenon DEF InFlight
  <2> QED BY <1>2, <1>3, <2>1, Zenon
<1>4. ASSUME NEW c \in CU, Attach(c) \/ Start(c) \/ CheckEmpty(c) \/ Get(c) \/ GetNone(c)
      PROVE  Entries'
  <2>1. UNCHANGED <<sq, dev, cq, verdict>>
    BY <1>4, Zenon DEF Attach, Start, CheckEmpty, Get, GetNone, device
  <2> QED BY <1>3, <2>1, Zenon
<1>5. ASSUME NEW c \in CU, Check(c) PROVE Entries'
  <2>1. dev' = dev /\ verdict' = verdict /\ cq # <<>>
    BY <1>5, Zenon DEF Check
  <2> QED BY <1>2, <1>5, <2>1, FlightCheck, Zenon
<1>6. ASSUME NEW c \in CU, NEW S, Abort(c, S) PROVE Entries'
  <2>1. UNCHANGED <<sq, dev, cq, verdict>>
    BY <1>6, Zenon DEF Abort, device
  <2> QED BY <1>3, <2>1, Zenon
<1>7. CASE UNCHANGED vars
  <2>1. UNCHANGED <<sq, dev, cq, verdict>>
    BY <1>7, Zenon DEF vars
  <2> QED BY <1>3, <2>1, Zenon
<1>8. ASSUME NEW c \in CU, NEW m \in Cmd, Submit(c, m) PROVE Entries'
  <2>1. PICK e \in Entry :
             /\ c \in att /\ CuOf[m] = c /\ id[c] \in Id
             /\ e.m = m /\ ClientOf(e.cid) = id[c] /\ sq' = Append(sq, e)
             /\ sub' = [sub EXCEPT ![id[c]] = Append(sub[id[c]], m)]
             /\ sub' \in [Id -> Seq(Cmd)]
    BY <1>8, SubmitSays
  <2>2. UNCHANGED <<cq, dev, verdict, att, id>>
    BY <1>8, Zenon DEF Submit
  <2>3. InFlight' = InFlight \cup {e}
    BY <2>1, <2>2, FlightSubmit, Zenon
  <2>4. m \in Issued'
    <3>1. sub[id[c]] \in Seq(Cmd) /\ sub'[id[c]] = Append(sub[id[c]], m)
      BY <2>1, Zenon DEF TypeOK
    <3>2. m \in SeqSet(sub'[id[c]])
      BY <3>1, SetOfQueue
    <3> QED BY <2>1, <3>2 DEF Issued
  <2>5. Good(e)'
    BY <2>1, <2>2, <2>4, Zenon DEF Good
  <2>6. \A f \in InFlight' : Good(f)'
    BY <1>1, <2>3, <2>5, Zenon
  <2>7. IsFiniteSet(InFlight')
    BY <2>3, FS_AddElement, Zenon DEF Entries
  <2>8. /\ \A d \in CU : \A f \in SeqSet(dev'[d]) : CuOf[f.m] = d
        /\ \A f \in SeqSet(cq') : verdict'[f.m] # None
    BY <2>2, Zenon DEF Entries
  <2> QED BY <2>6, <2>7, <2>8, Zenon DEF Entries
<1>9. CASE Fetch
  <2>1. /\ InFlight' = InFlight /\ UNCHANGED <<cq, verdict>>
        /\ \A c \in CU : \A e \in SeqSet(dev'[c]) : e \in SeqSet(dev[c]) \/ CuOf[e.m] = c
    BY <1>9, FlightFetch, Zenon
  <2>2. \A e \in InFlight' : Good(e)'
    BY <1>1, <2>1, Zenon
  <2>3. \A c \in CU : \A e \in SeqSet(dev'[c]) : CuOf[e.m] = c
    BY <2>1, Zenon DEF Entries
  <2>4. IsFiniteSet(InFlight') /\ \A e \in SeqSet(cq') : verdict'[e.m] # None
    BY <2>1, Zenon DEF Entries
  <2> QED BY <2>2, <2>3, <2>4, Zenon DEF Entries
<1>10. ASSUME NEW c \in CU, Respond(c) PROVE Entries'
  <2>1. InFlight' = InFlight /\ \A d \in CU : SeqSet(dev'[d]) \subseteq SeqSet(dev[d])
    BY <1>10, FlightRespond, Zenon
  <2>2. PICK e \in Entry, v \in Verdict :
             SeqSet(cq') = SeqSet(cq) \cup {e} /\ verdict' = [verdict EXCEPT ![e.m] = v]
    BY <1>10, FlightRespond, Zenon
  <2>3. \A f \in InFlight' : Good(f)'
    BY <1>1, <2>1, Zenon
  <2>4. \A d \in CU : \A f \in SeqSet(dev'[d]) : CuOf[f.m] = d
    BY <2>1, Zenon DEF Entries
  <2>5. \A f \in SeqSet(cq') : verdict'[f.m] # None
    <3>1. verdict \in [Cmd -> Verdict \cup {None}] /\ e.m \in Cmd /\ v # None
      BY XgqClientAssumption, Zenon DEF TypeOK, Entry, Verdict
    <3>2. \A f \in SeqSet(cq) : f \in Entry /\ verdict[f.m] # None
      BY SetOfQueue, Zenon DEF TypeOK, Entries
    <3> QED BY <2>2, <3>1, <3>2, Zenon DEF Entry
  <2>6. IsFiniteSet(InFlight')
    BY <2>1, Zenon DEF Entries
  <2> QED BY <2>3, <2>4, <2>5, <2>6, Zenon DEF Entries
<1> QED BY <1>4, <1>5, <1>6, <1>7, <1>8, <1>9, <1>10, Zenon DEF Next, Thread

-----------------------------------------------------------------------------
(* The count of a CU. *)

\* Steps that move commands on the lists of one client, with the count.
LEMMA CountKept ==
    ASSUME TypeOK, Ids, CountMatches, NEW c \in att, NEW a, NEW b, NEW n, UNCHANGED <<att, id>>,
           sub' = [sub EXCEPT ![id[c]] = a], comp' = [comp EXCEPT ![id[c]] = b],
           nsq' = [nsq EXCEPT ![c] = n], n = Len(a) + Len(b),
           \A m \in SeqSet(a) \cup SeqSet(b) : CuOf[m] = c
    PROVE  CountMatches'
<1>1. /\ sub \in [Id -> Seq(Cmd)] /\ comp \in [Id -> Seq(Cmd)] /\ id \in [CU -> Id]
      /\ nsq \in [CU -> Nat] /\ att \subseteq CU
  BY Zenon DEF TypeOK
<1>2. c \in CU /\ id[c] \in Id
  BY <1>1, Zenon
<1>3. sub'[id'[c]] = a /\ comp'[id'[c]] = b /\ nsq'[c] = n
  BY <1>1, <1>2, Zenon
<1>4. ASSUME NEW d \in att, d # c
      PROVE  sub'[id'[d]] = sub[id[d]] /\ comp'[id'[d]] = comp[id[d]] /\ nsq'[d] = nsq[d]
  <2>1. id[d] # id[c] /\ id[d] \in Id /\ d \in CU
    BY <1>1, <1>4, Zenon DEF Ids
  <2> QED BY <1>1, <1>2, <1>4, <2>1, Zenon
<1>5. ASSUME NEW d \in att'
      PROVE  /\ nsq'[d] = Len(sub'[id'[d]]) + Len(comp'[id'[d]])
             /\ \A m \in SeqSet(sub'[id'[d]]) \cup SeqSet(comp'[id'[d]]) : CuOf[m] = d
  <2>1. CASE d = c
    BY <1>3, <2>1, Zenon
  <2>2. CASE d # c
    <3>1. /\ nsq[d] = Len(sub[id[d]]) + Len(comp[id[d]])
          /\ \A m \in SeqSet(sub[id[d]]) \cup SeqSet(comp[id[d]]) : CuOf[m] = d
      BY Zenon DEF CountMatches
    <3> QED BY <1>4, <2>2, <3>1, Zenon
  <2> QED BY <2>1, <2>2, Zenon
<1> QED BY <1>5, Zenon DEF CountMatches

\* The count stays right.
LEMMA CountStep ==
    ASSUME TypeOK, Ids, Entries, CountMatches, [Next]_vars
    PROVE  CountMatches'
<1>a. /\ sub \in [Id -> Seq(Cmd)] /\ comp \in [Id -> Seq(Cmd)] /\ id \in [CU -> Id]
      /\ nsq \in [CU -> Nat] /\ att \subseteq CU
  BY Zenon DEF TypeOK
<1>b. ASSUME NEW c \in att
      PROVE  /\ c \in CU /\ id[c] \in Id /\ sub[id[c]] \in Seq(Cmd) /\ comp[id[c]] \in Seq(Cmd)
             /\ Len(sub[id[c]]) \in Nat /\ Len(comp[id[c]]) \in Nat
             /\ nsq[c] = Len(sub[id[c]]) + Len(comp[id[c]])
             /\ \A m \in SeqSet(sub[id[c]]) \cup SeqSet(comp[id[c]]) : CuOf[m] = c
  BY <1>a DEF CountMatches
<1>0. CASE UNCHANGED <<att, id, sub, comp, nsq>>
  BY <1>0, Zenon DEF CountMatches
<1>1. ASSUME NEW c \in CU, Attach(c) PROVE CountMatches'
  <2>1. /\ att' = att \cup {c} /\ id' = [id EXCEPT ![c] = num] /\ c \notin att
        /\ UNCHANGED <<sub, comp, nsq>>
    BY <1>1, Zenon DEF Attach, lists
  <2>2. num \in Id /\ num \in Nat
    BY <2>1, Attached, Zenon
  <2>3. id'[c] = num /\ sub[num] = <<>> /\ comp[num] = <<>> /\ nsq[c] = 0
    BY <1>a, <2>1, <2>2 DEF Ids
  <2>4. Len(<<>>) = 0 /\ SeqSet(<<>>) = {}
    BY DEF SeqSet
  <2>5. \A d \in att : id'[d] = id[d]
    BY <1>a, <2>1, Zenon
  <2>6. ASSUME NEW d \in att'
        PROVE  /\ nsq'[d] = Len(sub'[id'[d]]) + Len(comp'[id'[d]])
               /\ \A m \in SeqSet(sub'[id'[d]]) \cup SeqSet(comp'[id'[d]]) : CuOf[m] = d
    <3>1. CASE d = c
      <4>1. sub'[id'[d]] = <<>> /\ comp'[id'[d]] = <<>> /\ nsq'[d] = 0
        BY <2>1, <2>3, <3>1, Zenon
      <4>2. Len(sub'[id'[d]]) = 0 /\ Len(comp'[id'[d]]) = 0
        BY <2>4, <4>1, Zenon
      <4>3. nsq'[d] = Len(sub'[id'[d]]) + Len(comp'[id'[d]])
        BY <4>1, <4>2
      <4>4. SeqSet(sub'[id'[d]]) \cup SeqSet(comp'[id'[d]]) = {}
        BY <2>4, <4>1, Zenon
      <4> QED BY <4>3, <4>4, Zenon
    <3>2. CASE d \in att
      BY <1>b, <2>1, <2>5, <3>2, Zenon
    <3> QED BY <2>1, <3>1, <3>2, Zenon
  <2> QED BY <2>6, Zenon DEF CountMatches
<1>2. ASSUME NEW c \in CU, NEW m \in Cmd, Submit(c, m) PROVE CountMatches'
  <2>1. /\ c \in att /\ CuOf[m] = c
        /\ sub' = [sub EXCEPT ![id[c]] = Append(sub[id[c]], m)]
        /\ nsq' = [nsq EXCEPT ![c] = nsq[c] + 1]
    BY <1>2, SubmitSays, Zenon
  <2>2. UNCHANGED <<att, id, comp>>
    BY <1>2, Zenon DEF Submit
  <2>3. comp' = [comp EXCEPT ![id[c]] = comp[id[c]]]
    BY <1>a, <2>2, Zenon
  <2> DEFINE s == sub[id[c]]
             t == comp[id[c]]
             a == Append(s, m)
  <2>4. Len(a) = Len(s) + 1 /\ SeqSet(a) = SeqSet(s) \cup {m}
    <3>1. s \in Seq(Cmd)
      BY <1>b, <2>1, Zenon
    <3> HIDE DEF s
    <3> QED BY <3>1, SetOfQueue
  <2>5. nsq[c] + 1 = Len(a) + Len(t)
    <3>1. Len(s) \in Nat /\ Len(t) \in Nat /\ nsq[c] = Len(s) + Len(t)
      BY <1>b, <2>1, Zenon
    <3> HIDE DEF s, t, a
    <3> QED BY <2>4, <3>1
  <2>6. \A x \in SeqSet(a) \cup SeqSet(t) : CuOf[x] = c
    BY <1>b, <2>1, <2>4, Zenon
  <2> QED BY <2>1, <2>2, <2>3, <2>5, <2>6, CountKept, Zenon
<1>3. ASSUME NEW c \in CU, Start(c) \/ CheckEmpty(c) \/ GetNone(c) \/ Respond(c) PROVE CountMatches'
  <2>1. UNCHANGED <<att, id, sub, comp, nsq>>
    BY <1>3, Zenon DEF Start, CheckEmpty, GetNone, Respond, lists
  <2> QED BY <1>0, <2>1, Zenon
<1>4. CASE Fetch \/ UNCHANGED vars
  <2>1. UNCHANGED <<att, id, sub, comp, nsq>>
    BY <1>4, Zenon DEF Fetch, lists, vars
  <2> QED BY <1>0, <2>1, Zenon
<1>5. ASSUME NEW c \in CU, Check(c) PROVE CountMatches'
  <2>1. PICK r \in Entry, d \in att :
             \/ sub[id[d]] = <<>> /\ UNCHANGED <<sub, comp, told>>
             \/ sub[id[d]] # <<>> /\ HandleResp(id[d], r)
    BY <1>5, CheckSays, Zenon
  <2>2. UNCHANGED <<att, id, nsq>>
    BY <1>5, CheckKeeps, Zenon
  <2>3. CASE UNCHANGED <<sub, comp>>
    BY <1>0, <2>2, <2>3, Zenon
  <2>4. CASE sub[id[d]] # <<>> /\ HandleResp(id[d], r)
    <3> DEFINE s == sub[id[d]]
               t == comp[id[d]]
               a == Tail(s)
               b == Append(t, Head(s))
    <3>1. s \in Seq(Cmd) /\ t \in Seq(Cmd) /\ s # <<>> /\ id[d] \in Id
      BY <1>b, <2>4, Zenon
    <3>2. Head(s) \in Cmd /\ sub' = [sub EXCEPT ![id[d]] = a] /\ comp' = [comp EXCEPT ![id[d]] = b]
      BY <2>4, <3>1, HandleTypes, Zenon
    <3>3. /\ Len(a) = Len(s) - 1 /\ SeqSet(s) = {Head(s)} \cup SeqSet(a)
          /\ Len(b) = Len(t) + 1 /\ SeqSet(b) = SeqSet(t) \cup {Head(s)}
      <4>1. Len(a) = Len(s) - 1 /\ Len(b) = Len(t) + 1
        <5> HIDE DEF s, t
        <5>1. Len(a) = Len(s) - 1
          BY <3>1
        <5>2. Len(b) = Len(t) + 1
          BY <3>1, <3>2
        <5> QED BY <5>1, <5>2, Zenon
      <4>2. SeqSet(s) = {Head(s)} \cup SeqSet(a)
        BY <3>1, SetOfQueue, Zenon
      <4>3. SeqSet(b) = SeqSet(t) \cup {Head(s)}
        <5> HIDE DEF s, t
        <5> QED BY <3>1, <3>2, SetOfQueue
      <4> QED BY <4>1, <4>2, <4>3, Zenon
    <3>4. nsq[d] = Len(a) + Len(b)
      <4>1. Len(s) \in Nat /\ Len(t) \in Nat /\ nsq[d] = Len(s) + Len(t)
        BY <1>b, Zenon
      <4> HIDE DEF s, t, a, b
      <4> QED BY <3>3, <4>1
    <3>5. \A x \in SeqSet(a) \cup SeqSet(b) : CuOf[x] = d
      BY <1>b, <3>3, Zenon
    <3>6. nsq' = [nsq EXCEPT ![d] = nsq[d]]
      BY <1>a, <2>2, Zenon
    <3>7. UNCHANGED <<att, id>>
      BY <2>2, Zenon
    <3> HIDE DEF s, t, a, b
    <3> QED BY <3>2, <3>4, <3>5, <3>6, <3>7, CountKept, Zenon
  <2> QED BY <2>1, <2>3, <2>4, Zenon
<1>6. ASSUME NEW c \in CU, Get(c) PROVE CountMatches'
  <2>1. c \in att /\ comp[id[c]] # <<>>
    BY <1>6, Zenon DEF Get, Ids
  <2> DEFINE s == sub[id[c]]
             t == comp[id[c]]
             b == Tail(t)
  <2>2. /\ comp' = [comp EXCEPT ![id[c]] = b] /\ nsq' = [nsq EXCEPT ![c] = nsq[c] - 1]
        /\ sub' = [sub EXCEPT ![id[c]] = s] /\ UNCHANGED <<att, id>>
    BY <1>a, <1>6, <2>1, Zenon DEF Get
  <2>3. Len(b) = Len(t) - 1 /\ SeqSet(t) = {Head(t)} \cup SeqSet(b)
    <3>1. t \in Seq(Cmd) /\ t # <<>>
      BY <1>b, <2>1, Zenon
    <3> HIDE DEF t
    <3> QED BY <3>1, SetOfQueue
  <2>4. nsq[c] - 1 = Len(s) + Len(b)
    <3>1. Len(s) \in Nat /\ Len(t) \in Nat /\ nsq[c] = Len(s) + Len(t)
      BY <1>b, <2>1, Zenon
    <3> HIDE DEF s, t, b
    <3> QED BY <2>3, <3>1
  <2>5. \A x \in SeqSet(s) \cup SeqSet(b) : CuOf[x] = c
    BY <1>b, <2>1, <2>3, Zenon
  <2> HIDE DEF s, t, b
  <2> QED BY <2>1, <2>2, <2>4, <2>5, CountKept, Zenon
<1>7. ASSUME NEW c \in CU, NEW S, Abort(c, S) PROVE CountMatches'
  <2> DEFINE s == sub[id[c]]
             t == comp[id[c]]
             o == Only(s, S)
             a == Only(s, Cmd \ S)
             b == t \o o
  <2>1. /\ c \in att /\ sub' = [sub EXCEPT ![id[c]] = a] /\ comp' = [comp EXCEPT ![id[c]] = b]
    BY <1>7, AbortTypes, Zenon
  <2>2. UNCHANGED <<att, id>> /\ nsq' = [nsq EXCEPT ![c] = nsq[c]]
    BY <1>a, <1>7, Zenon DEF Abort
  <2>3. s \in Seq(Cmd) /\ t \in Seq(Cmd)
    BY <1>b, <2>1, Zenon
  <2>4. /\ o \in Seq(Cmd) /\ a \in Seq(Cmd) /\ SeqSet(o) \subseteq SeqSet(s)
        /\ SeqSet(a) \subseteq SeqSet(s)
    BY <2>3, OnlyType, Zenon
  <2>5. Len(o) + Len(a) = Len(s)
    BY <2>3, OnlySplit, Zenon
  <2>6. Len(b) = Len(t) + Len(o) /\ SeqSet(b) = SeqSet(t) \cup SeqSet(o)
    <3> HIDE DEF t, o
    <3>1. Len(b) = Len(t) + Len(o)
      BY <2>3, <2>4
    <3>2. SeqSet(b) = SeqSet(t) \cup SeqSet(o)
      BY <2>3, <2>4, SetOfQueue
    <3> QED BY <3>1, <3>2, Zenon
  <2>7. nsq[c] = Len(a) + Len(b)
    <3>1. /\ Len(s) \in Nat /\ Len(t) \in Nat /\ nsq[c] = Len(s) + Len(t)
      BY <1>b, <2>1, Zenon
    <3>2. Len(o) \in Nat /\ Len(a) \in Nat
      BY <2>4
    <3> HIDE DEF s, t, o, a, b
    <3> QED BY <2>5, <2>6, <3>1, <3>2
  <2>8. \A x \in SeqSet(a) \cup SeqSet(b) : CuOf[x] = c
    BY <1>b, <2>1, <2>4, <2>6, Zenon
  <2> HIDE DEF s, t, o, a, b
  <2> QED BY <2>1, <2>2, <2>7, <2>8, CountKept, Zenon
<1> QED BY <1>1, <1>2, <1>3, <1>4, <1>5, <1>6, <1>7, Zenon DEF Next, Thread
=============================================================================
