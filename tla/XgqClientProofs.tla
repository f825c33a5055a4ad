-------------------------- MODULE XgqClientProofs --------------------------
(***************************************************************************)
(* The clients of one XGQ: what is proved of them for any number of CUs,   *)
(* of commands, of slots and of aborts, and for every command id tag.      *)
(*                                                                         *)
(* ClientIInv is inductive.  Its parts, in the order in which they are     *)
(* shown to be kept: the types; Ids, an id belongs to one CU and the       *)
(* lists of ids not given out are empty; Entries, an entry anywhere        *)
(* between submission and response names its CU's client; CountMatches;    *)
(* NoneStarves; WaitsOnce, a command waits once and has no status while    *)
(* it waits; InOrder, the list of a CU without an abort is the line of its *)
(* entries, oldest response first; and ToldOwn, which needs all of them.   *)
(***************************************************************************)
EXTENDS XgqClientLemmas

-----------------------------------------------------------------------------
(* The responses a client can still expect. *)

\* The entries of a client, and their number.
LEMMA ToComeIs ==
    ASSUME NEW i
    PROVE  /\ IsFiniteSet(InFlight) => /\ IsFiniteSet({e \in InFlight : ClientOf(e.cid) = i})
                                       /\ ToCome(i) \in Nat
           /\ InFlight' = InFlight => ToCome(i)' = ToCome(i)
<1> DEFINE F == {e \in InFlight : ClientOf(e.cid) = i}
<1>1. IsFiniteSet(InFlight) => IsFiniteSet(F) /\ Cardinality(F) \in Nat
  <2>1. F \subseteq InFlight
    BY Zenon
  <2> HIDE DEF F
  <2> QED BY <2>1, FS_Subset, FS_CardinalityType, Zenon
<1>2. InFlight' = InFlight => ToCome(i)' = ToCome(i)
  BY Zenon DEF ToCome
<1> QED BY <1>1, <1>2, Zenon DEF ToCome

\* A client never waits in vain.
LEMMA StarveStep ==
    ASSUME TypeOK, Ids, Entries, NoneStarves, [Next]_vars
    PROVE  NoneStarves'
<1>a. sub \in [Id -> Seq(Cmd)] /\ comp \in [Id -> Seq(Cmd)] /\ id \in [CU -> Id] /\ att \subseteq CU
  BY Zenon DEF TypeOK
<1>b. ASSUME NEW i \in Id
      PROVE  Len(sub[i]) \in Nat /\ ToCome(i) \in Nat /\ Len(sub[i]) <= ToCome(i)
  <2>1. sub[i] \in Seq(Cmd)
    BY <1>a, Zenon
  <2>2. Len(sub[i]) \in Nat
    BY <2>1
  <2> QED BY <2>2, ToComeIs, Zenon DEF NoneStarves, Entries
<1>0. ASSUME InFlight' = InFlight, \A i \in Id : Len(sub'[i]) \in Nat /\ Len(sub'[i]) <= Len(sub[i])
      PROVE  NoneStarves'
  <2> SUFFICES ASSUME NEW i \in Id PROVE Len(sub'[i]) <= ToCome(i)'
    BY Zenon DEF NoneStarves
  <2>1. ToCome(i)' = ToCome(i)
    BY <1>0, ToComeIs, Zenon
  <2> HIDE DEF ToCome
  <2> QED BY <1>0, <1>b, <2>1
<1>1. ASSUME UNCHANGED <<sq, cq, dev, sub>> PROVE NoneStarves'
  <2>1. InFlight' = InFlight
    BY <1>1, Zenon DEF InFlight
  <2> QED BY <1>0, <1>1, <1>b, <2>1
<1>2. ASSUME NEW c \in CU, Attach(c) \/ Start(c) \/ CheckEmpty(c) \/ Get(c) \/ GetNone(c)
      PROVE  NoneStarves'
  <2>1. UNCHANGED <<sq, cq, dev, sub>>
    BY <1>2, Zenon DEF Attach, Start, CheckEmpty, Get, GetNone, lists, device
  <2> QED BY <1>1, <2>1, Zenon
<1>3. CASE Fetch
  <2>1. UNCHANGED sub
    BY <1>3, Zenon DEF Fetch, lists
  <2> QED BY <1>0, <1>3, <1>b, <2>1, FlightFetch
<1>4. ASSUME NEW c \in CU, Respond(c) PROVE NoneStarves'
  <2>1. UNCHANGED sub
    BY <1>4, Zenon DEF Respond, lists
  <2> QED BY <1>0, <1>4, <1>b, <2>1, FlightRespond
<1>5. CASE UNCHANGED vars
  <2>1. UNCHANGED <<sq, cq, dev, sub>>
    BY <1>5, Zenon DEF vars
  <2> QED BY <1>1, <2>1, Zenon
<1>6. ASSUME NEW c \in CU, NEW S, Abort(c, S) PROVE NoneStarves'
  <2>1. id[c] \in Id /\ sub' = [sub EXCEPT ![id[c]] = Only(sub[id[c]], Cmd \ S)]
    BY <1>6, AbortTypes, Zenon
  <2>2. UNCHANGED <<sq, cq, dev>>
    BY <1>6, Zenon DEF Abort, device
  <2>3. InFlight' = InFlight
    BY <2>2, Zenon DEF InFlight
  <2> DEFINE s == sub[id[c]]
             o == Only(s, S)
             a == Only(s, Cmd \ S)
  <2>4. Len(o) + Len(a) = Len(s) /\ Len(o) \in Nat /\ Len(a) \in Nat /\ Len(s) \in Nat
    <3>1. s \in Seq(Cmd)
      BY <1>a, <2>1, Zenon
    <3> HIDE DEF s
    <3>2. o \in Seq(Cmd) /\ a \in Seq(Cmd)
      BY <3>1, OnlyType, Zenon
    <3>3. Len(o) + Len(a) = Len(s)
      BY <3>1, OnlySplit
    <3> QED BY <3>1, <3>2, <3>3
  <2>5. Len(a) <= Len(s)
    <3> HIDE DEF s, o, a
    <3> QED BY <2>4
  <2>6. ASSUME NEW i \in Id PROVE Len(sub'[i]) \in Nat /\ Len(sub'[i]) <= Len(sub[i])
    <3>1. CASE i = id[c]
      BY <1>a, <2>1, <2>4, <2>5, <3>1, Zenon
    <3>2. CASE i # id[c]
      BY <1>a, <1>b, <2>1, <3>2
    <3> QED BY <3>1, <3>2, Zenon
  <2> QED BY <1>0, <2>3, <2>6, Zenon
<1>7. ASSUME NEW c \in CU, NEW m \in Cmd, Submit(c, m) PROVE NoneStarves'
  <2>1. PICK e \in Entry :
             /\ m \notin Issued /\ id[c] \in Id /\ e.m = m /\ ClientOf(e.cid) = id[c]
             /\ sq' = Append(sq, e) /\ sub' = [sub EXCEPT ![id[c]] = Append(sub[id[c]], m)]
    BY <1>7, SubmitSays
  <2>2. UNCHANGED <<cq, dev>>
    BY <1>7, Zenon DEF Submit
  <2>3. InFlight' = InFlight \cup {e}
    BY <2>1, <2>2, FlightSubmit, Zenon
  <2>4. e \notin InFlight
    BY <2>1, Zenon DEF Entries, Good
  <2> SUFFICES ASSUME NEW i \in Id PROVE Len(sub'[i]) <= ToCome(i)'
    BY Zenon DEF NoneStarves
  <2> DEFINE F == {f \in InFlight : ClientOf(f.cid) = i}
             G == {f \in InFlight' : ClientOf(f.cid) = i}
  <2>5. IsFiniteSet(F) /\ Cardinality(F) = ToCome(i) /\ ToCome(i)' = Cardinality(G)
    BY ToComeIs, Zenon DEF Entries, ToCome
  <2>6. CASE i = id[c]
    <3>1. G = F \cup {e} /\ e \notin F
      BY <2>1, <2>3, <2>4, <2>6, Zenon
    <3> HIDE DEF F, G
    <3>2. Cardinality(G) = Cardinality(F) + 1
      BY <2>5, <3>1, FS_AddElement, Zenon
    <3>3. Len(sub'[i]) = Len(sub[i]) + 1
      BY <1>a, <2>1, <2>6
    <3> HIDE DEF ToCome
    <3> QED BY <1>b, <2>5, <3>2, <3>3
  <2>7. CASE i # id[c]
    <3>1. G = F
      BY <2>1, <2>3, <2>7, Zenon
    <3>2. sub'[i] = sub[i]
      BY <1>a, <2>1, <2>7, Zenon
    <3> QED BY <1>b, <2>5, <3>1, <3>2, Zenon
  <2> QED BY <2>6, <2>7, Zenon
<1>8. ASSUME NEW c \in CU, Check(c) PROVE NoneStarves'
  <2>1. PICK r \in Entry, d \in att :
             /\ cq # <<>> /\ r = Head(cq) /\ d = CuOf[r.m] /\ id[d] \in Id /\ r \in SeqSet(cq)
             /\ \/ sub[id[d]] = <<>> /\ UNCHANGED <<sub, comp, told>>
                \/ sub[id[d]] # <<>> /\ HandleResp(id[d], r)
    BY <1>8, CheckSays, Zenon
  <2>2. InFlight' \subseteq InFlight /\ InFlight \subseteq InFlight' \cup {r}
    BY <1>8, <2>1, FlightCheck, Zenon
  <2>3. ClientOf(r.cid) = id[d]
    BY <2>1, Zenon DEF Entries, Good, InFlight
  <2> SUFFICES ASSUME NEW i \in Id PROVE Len(sub'[i]) <= ToCome(i)'
    BY Zenon DEF NoneStarves
  <2> DEFINE F == {f \in InFlight : ClientOf(f.cid) = i}
             G == {f \in InFlight' : ClientOf(f.cid) = i}
  <2>4. IsFiniteSet(F) /\ Cardinality(F) = ToCome(i) /\ ToCome(i)' = Cardinality(G)
    BY ToComeIs, Zenon DEF Entries, ToCome
  <2>5. G \subseteq F /\ F \subseteq G \cup {r} /\ (i # id[d] => G = F)
    BY <2>2, <2>3, Zenon
  <2>6. IsFiniteSet(G) /\ Cardinality(G) \in Nat /\ Cardinality(F) \in Nat
        /\ Cardinality(F) <= Cardinality(G) + 1
    <3> HIDE DEF F, G
    <3>1. IsFiniteSet(G) /\ Cardinality(G) \in Nat /\ Cardinality(F) \in Nat
      BY <2>4, <2>5, FS_Subset, FS_CardinalityType, Zenon
    <3>2. IsFiniteSet(G \cup {r}) /\ Cardinality(G \cup {r}) \in {Cardinality(G), Cardinality(G) + 1}
      BY <3>1, FS_AddElement, Zenon
    <3>3. Cardinality(F) <= Cardinality(G \cup {r})
      BY <2>5, <3>2, FS_Subset, Zenon
    <3> QED BY <3>1, <3>2, <3>3
  <2>7. CASE sub[id[d]] = <<>> /\ UNCHANGED <<sub, comp, told>>
    <3>1. CASE i = id[d]
      <4>1. Len(sub'[i]) = 0
        BY <2>7, <3>1, Zenon
      <4> HIDE DEF ToCome, F, G
      <4> QED BY <2>4, <2>6, <4>1
    <3>2. CASE i # id[d]
      BY <1>b, <2>4, <2>5, <2>7, <3>2, Zenon
    <3> QED BY <3>1, <3>2, Zenon
  <2>8. CASE sub[id[d]] # <<>> /\ HandleResp(id[d], r)
    <3>1. sub' = [sub EXCEPT ![id[d]] = Tail(sub[id[d]])]
      BY <2>1, <2>8, HandleTypes, Zenon
    <3>2. CASE i = id[d]
      <4>1. Len(sub'[i]) = Len(sub[i]) - 1
        BY <1>a, <2>8, <3>1, <3>2
      <4> HIDE DEF ToCome, F, G
      <4> QED BY <1>b, <2>4, <2>6, <4>1
    <3>3. CASE i # id[d]
      BY <1>a, <1>b, <2>4, <2>5, <3>1, <3>3, Zenon
    <3> QED BY <3>2, <3>3, Zenon
  <2> QED BY <2>1, <2>7, <2>8, Zenon
<1> QED BY <1>2, <1>3, <1>4, <1>5, <1>6, <1>7, <1>8, Zenon DEF Next, Thread

-----------------------------------------------------------------------------
(* A command waits once. *)

\* Steps that put no command on a list to wait.
LEMMA WaitsKept ==
    ASSUME TypeOK, WaitsOnce, [Next]_vars, Issued \subseteq Issued',
           att \subseteq att', \A c \in att : id'[c] = id[c],
           \A i \in Id : SeqSet(sub'[i]) \subseteq SeqSet(sub[i]),
           \A i \in Id : \A m \in Cmd : Times(sub'[i], m) <= 1,
           \A m \in Cmd : told'[m] = told[m] \/ (m \in Issued /\ \A i \in Id : m \notin SeqSet(sub'[i]))
    PROVE  WaitsOnce'
<1>1. \A i \in Id : \A m \in SeqSet(sub'[i]) : CuOf[m] \in att' /\ id'[CuOf[m]] = i
  BY Zenon DEF WaitsOnce
<1>2. \A m \in Cmd : told'[m] # None => m \in Issued' /\ \A i \in Id : m \notin SeqSet(sub'[i])
  BY Zenon DEF WaitsOnce
<1> QED BY <1>1, <1>2, Zenon DEF WaitsOnce

\* A command waits once, with its own client.
LEMMA WaitsStep ==
    ASSUME TypeOK, Ids, Entries, WaitsOnce, [Next]_vars, att \subseteq att', \A c \in att : id'[c] = id[c]
    PROVE  WaitsOnce'
<1>a. /\ sub \in [Id -> Seq(Cmd)] /\ comp \in [Id -> Seq(Cmd)] /\ id \in [CU -> Id]
      /\ att \subseteq CU /\ told \in [Cmd -> {"completed", "crashed", "error", "timeout", None}]
  BY Zenon DEF TypeOK
<1>b. ASSUME NEW i \in Id PROVE SeqSet(sub[i]) \subseteq Cmd /\ SeqSet(sub[i]) \subseteq Issued
  BY <1>a, SetOfQueue DEF Issued
<1>c. Issued \subseteq Issued'
  BY IssuedStep, Zenon
<1>d. \A i \in Id : \A m \in Cmd : Times(sub[i], m) <= 1
  BY Zenon DEF WaitsOnce
<1>0. ASSUME UNCHANGED <<sub, told>> PROVE WaitsOnce'
  <2>1. /\ \A i \in Id : SeqSet(sub'[i]) \subseteq SeqSet(sub[i])
        /\ \A i \in Id : \A m \in Cmd : Times(sub'[i], m) <= 1
        /\ \A m \in Cmd : told'[m] = told[m]
    BY <1>0, <1>d, Zenon
  <2> QED BY <1>c, <2>1, WaitsKept, Zenon
<1>1. ASSUME NEW c \in CU, Attach(c) \/ Start(c) \/ CheckEmpty(c) \/ Get(c) \/ GetNone(c) \/ Respond(c)
      PROVE  WaitsOnce'
  <2>1. UNCHANGED <<sub, told>>
    BY <1>1, Zenon DEF Attach, Start, CheckEmpty, Get, GetNone, Respond, lists
  <2> QED BY <1>0, <2>1, Zenon
<1>2. CASE Fetch \/ UNCHANGED vars
  <2>1. UNCHANGED <<sub, told>>
    BY <1>2, Zenon DEF Fetch, lists, vars
  <2> QED BY <1>0, <2>1, Zenon
<1>3. ASSUME NEW c \in CU, NEW m \in Cmd, Submit(c, m) PROVE WaitsOnce'
  <2>1. /\ c \in att /\ CuOf[m] = c /\ m \notin Issued /\ id[c] \in Id
        /\ sub' = [sub EXCEPT ![id[c]] = Append(sub[id[c]], m)]
    BY <1>3, SubmitSays, Zenon
  <2>2. UNCHANGED <<att, id, told>>
    BY <1>3, Zenon DEF Submit
  <2>i. id[c] \in Id /\ m \notin Issued
    BY <2>1, Zenon
  <2>3. m \notin SeqSet(sub[id[c]])
    BY <1>b, <2>i, Zenon
  <2>s. sub[id[c]] \in Seq(Cmd) /\ sub'[id[c]] = Append(sub[id[c]], m)
    BY <1>a, <2>1, Zenon
  <2>4. SeqSet(sub'[id[c]]) = SeqSet(sub[id[c]]) \cup {m}
    BY <2>s, SetOfQueue
  <2>5. \A i \in Id : i # id[c] => sub'[i] = sub[i]
    BY <1>a, <2>1, Zenon
  <2>6. \A i \in Id : \A x \in SeqSet(sub'[i]) : CuOf[x] \in att' /\ id'[CuOf[x]] = i
    <3> SUFFICES ASSUME NEW i \in Id, NEW x \in SeqSet(sub'[i])
                 PROVE  CuOf[x] \in att' /\ id'[CuOf[x]] = i
      BY Zenon
    <3>1. CASE x \in SeqSet(sub[i])
      BY <2>2, <3>1, Zenon DEF WaitsOnce
    <3>2. CASE i = id[c] /\ x = m
      BY <2>1, <2>2, <3>2, Zenon
    <3> QED BY <2>4, <2>5, <3>1, <3>2, Zenon
  <2>7. \A i \in Id : \A x \in Cmd : Times(sub'[i], x) <= 1
    <3>1. \A x \in Cmd : Times(sub'[id[c]], x) <= 1
      <4>1. \A x \in Cmd : Times(sub[id[c]], x) <= 1
        BY <1>d, <2>i, Zenon
      <4> QED BY <2>3, <2>s, <4>1, OnceMore, Zenon
    <3> QED BY <1>d, <2>5, <3>1, Zenon
  <2>8. \A x \in Cmd : told'[x] # None => x \in Issued' /\ \A i \in Id : x \notin SeqSet(sub'[i])
    <3> SUFFICES ASSUME NEW x \in Cmd, told'[x] # None
                 PROVE  x \in Issued' /\ \A i \in Id : x \notin SeqSet(sub'[i])
      BY Zenon
    <3>1. x \in Issued /\ \A i \in Id : x \notin SeqSet(sub[i])
      BY <2>2, Zenon DEF WaitsOnce
    <3> QED BY <1>c, <2>1, <2>4, <2>5, <3>1
  <2> QED BY <2>6, <2>7, <2>8, Zenon DEF WaitsOnce
<1>4. ASSUME NEW c \in CU, Check(c) PROVE WaitsOnce'
  <2>1. PICK r \in Entry, d \in att :
             /\ id[d] \in Id
             /\ \/ sub[id[d]] = <<>> /\ UNCHANGED <<sub, comp, told>>
                \/ sub[id[d]] # <<>> /\ HandleResp(id[d], r)
    BY <1>4, CheckSays, Zenon
  <2>2. CASE UNCHANGED <<sub, comp, told>>
    BY <1>0, <2>2, Zenon
  <2>3. CASE sub[id[d]] # <<>> /\ HandleResp(id[d], r)
    <3> DEFINE i == id[d]
               h == Head(sub[i])
    <3>1. i \in Id /\ sub[i] \in Seq(Cmd) /\ sub[i] # <<>>
      BY <1>a, <2>1, <2>3, Zenon
    <3>2. sub' = [sub EXCEPT ![i] = Tail(sub[i])] /\ told' = [told EXCEPT ![h] = Status(i, r)]
      BY <2>3, <3>1, HandleTypes, Zenon
    <3> HIDE DEF i
    <3>3. /\ h \in Cmd /\ h \notin SeqSet(Tail(sub[i])) /\ SeqSet(Tail(sub[i])) \subseteq SeqSet(sub[i])
          /\ \A x \in Cmd : Times(Tail(sub[i]), x) <= 1
      <4>1. \A x \in Cmd : Times(sub[i], x) <= 1
        BY <1>d, <3>1, Zenon
      <4> QED BY <3>1, <4>1, OnceTail, Zenon
    <3>4. h \in SeqSet(sub[i])
      BY <3>1, SetOfQueue
    <3> HIDE DEF h
    <3>5. sub'[i] = Tail(sub[i]) /\ \A j \in Id : j # i => sub'[j] = sub[j]
      BY <1>a, <3>1, <3>2, Zenon
    <3>6. \A j \in Id : j # i => h \notin SeqSet(sub[j])
      <4>1. id[CuOf[h]] = i /\ \A j \in Id : h \in SeqSet(sub[j]) => id[CuOf[h]] = j
        BY <3>1, <3>4, Zenon DEF WaitsOnce
      <4> QED BY <4>1, Zenon
    <3>7. h \in Issued /\ \A j \in Id : h \notin SeqSet(sub'[j])
      BY <1>b, <3>1, <3>3, <3>4, <3>5, <3>6, Zenon
    <3>8. \A x \in Cmd : x # h => told'[x] = told[x]
      BY <1>a, <3>2, Zenon
    <3>9. \A j \in Id : SeqSet(sub'[j]) \subseteq SeqSet(sub[j])
      BY <3>3, <3>5, Zenon
    <3>10. \A j \in Id : \A x \in Cmd : Times(sub'[j], x) <= 1
      BY <1>d, <3>3, <3>5, Zenon
    <3>11. \A x \in Cmd : told'[x] = told[x] \/ (x \in Issued /\ \A j \in Id : x \notin SeqSet(sub'[j]))
      BY <3>7, <3>8, Zenon
    <3> QED BY <1>c, <3>9, <3>10, <3>11, WaitsKept, Zenon
  <2> QED BY <2>1, <2>2, <2>3, Zenon
<1>5. ASSUME NEW c \in CU, NEW S, Abort(c, S) PROVE WaitsOnce'
  <2> DEFINE i == id[c]
             a == Only(sub[i], Cmd \ S)
  <2>1. i \in Id /\ S \subseteq SeqSet(sub[i]) /\ sub' = [sub EXCEPT ![i] = a]
    BY <1>5, AbortTypes, Zenon
  <2>2. told' = [m \in Cmd |-> IF m \in S THEN "timeout" ELSE told[m]]
    BY <1>5, Zenon DEF Abort
  <2> HIDE DEF i
  <2>3. SeqSet(a) = SeqSet(sub[i]) \cap (Cmd \ S) /\ \A x \in Cmd : Times(a, x) <= 1
    <3>1. sub[i] \in Seq(Cmd) /\ \A x \in Cmd : Times(sub[i], x) <= 1
      BY <1>a, <1>d, <2>1, Zenon
    <3>2. SeqSet(a) = SeqSet(sub[i]) \cap (Cmd \ S)
      BY <3>1, OnlyType, Zenon
    <3>3. \A x \in Cmd : Times(a, x) <= 1
      BY <3>1, OnceMore, Zenon
    <3> QED BY <3>2, <3>3, Zenon
  <2> HIDE DEF a
  <2>4. sub'[i] = a /\ \A j \in Id : j # i => sub'[j] = sub[j]
    BY <1>a, <2>1, Zenon
  <2>5. \A x \in S : \A j \in Id : j # i => x \notin SeqSet(sub[j])
    BY <2>1 DEF WaitsOnce
  <2>6. \A x \in S : x \in Issued /\ \A j \in Id : x \notin SeqSet(sub'[j])
    BY <1>b, <2>1, <2>3, <2>4, <2>5, Zenon
  <2>7. \A j \in Id : SeqSet(sub'[j]) \subseteq SeqSet(sub[j])
    BY <2>3, <2>4, Zenon
  <2>8. \A j \in Id : \A x \in Cmd : Times(sub'[j], x) <= 1
    BY <1>d, <2>3, <2>4, Zenon
  <2>9. \A x \in Cmd : told'[x] = told[x] \/ (x \in Issued /\ \A j \in Id : x \notin SeqSet(sub'[j]))
    <3> SUFFICES ASSUME NEW x \in Cmd
                 PROVE  told'[x] = told[x] \/ (x \in Issued /\ \A j \in Id : x \notin SeqSet(sub'[j]))
      BY Zenon
    <3>1. CASE x \in S
      BY <2>6, <3>1, Zenon
    <3>2. CASE x \notin S
      BY <2>2, <3>2, Zenon
    <3> QED BY <3>1, <3>2, Zenon
  <2> QED BY <1>c, <2>7, <2>8, <2>9, WaitsKept, Zenon
<1> QED BY <1>1, <1>2, <1>3, <1>4, <1>5, Zenon DEF Next, Thread

-----------------------------------------------------------------------------
(* The order of the responses. *)

\* The entries of a CU.
EntriesOf(c) == {e \in Entry : CuOf[e.m] = c}

\* The line of a CU, before and after a step.
LEMMA LineIs ==
    ASSUME TypeOK, NEW c \in CU
    PROVE  /\ Line(c) = Join(Only(cq, EntriesOf(c)), dev[c], Only(sq, EntriesOf(c)))
           /\ Line(c)' = Join(Only(cq', EntriesOf(c)), dev'[c], Only(sq', EntriesOf(c)))
           /\ Line(c) \in Seq(Entry) /\ SeqSet(dev[c]) \subseteq SeqSet(Line(c))
<1> DEFINE o == Only(cq, EntriesOf(c))
           v == dev[c]
           p == Only(sq, EntriesOf(c))
<1>1. Line(c) = Join(o, v, p)
  BY Zenon DEF Line, Join, EntriesOf
<1>2. Line(c)' = Join(Only(cq', EntriesOf(c)), dev'[c], Only(sq', EntriesOf(c)))
  BY Zenon DEF Line, Join, EntriesOf
<1>3. o \in Seq(Entry) /\ v \in Seq(Entry) /\ p \in Seq(Entry)
  BY OnlyType, Zenon DEF TypeOK
<1>4. Join(o, v, p) \in Seq(Entry) /\ SeqSet(v) \subseteq SeqSet(Join(o, v, p))
  <2> HIDE DEF o, v, p
  <2> QED BY <1>3, JoinType, Zenon
<1> QED BY <1>1, <1>2, <1>4, Zenon

\* A CU that has not attached has nothing in flight.
LEMMA LineEmpty ==
    ASSUME TypeOK, Entries, NEW c \in CU \ att
    PROVE  Line(c) = <<>>
<1> DEFINE S == EntriesOf(c)
<1>0. cq \in Seq(Entry) /\ dev[c] \in Seq(Entry) /\ sq \in Seq(Entry)
  BY Zenon DEF TypeOK
<1>1. \A e \in InFlight : CuOf[e.m] # c
  BY Zenon DEF Entries, Good
<1>2. SeqSet(cq) \cap S = {} /\ SeqSet(sq) \cap S = {}
  BY <1>1, Zenon DEF InFlight, EntriesOf
<1>3. SeqSet(dev[c]) = {}
  BY <1>1, Zenon DEF InFlight, Entries
<1> HIDE DEF S
<1>4. Only(cq, S) = <<>> /\ Only(sq, S) = <<>>
  <2>1. Only(cq, S) \in Seq(Entry) /\ SeqSet(Only(cq, S)) = {}
    BY <1>0, <1>2, OnlyType, Zenon
  <2>2. Only(sq, S) \in Seq(Entry) /\ SeqSet(Only(sq, S)) = {}
    BY <1>0, <1>2, OnlyType, Zenon
  <2> QED BY <2>1, <2>2, SetOfQueue
<1>5. dev[c] = <<>>
  BY <1>0, <1>3, SetOfQueue
<1>6. Join(Only(cq, S), dev[c], Only(sq, S)) = <<>>
  BY <1>4, <1>5 DEF Join
<1> QED BY <1>6, LineIs, Zenon DEF S

\* A response taken off the completion queue was the first of its line, and every
\* other line stays.
LEMMA LineCheck ==
    ASSUME TypeOK, NEW c \in CU, cq # <<>>, cq' = Tail(cq), UNCHANGED <<sq, dev>>
    PROVE  IF CuOf[Head(cq).m] = c
           THEN Line(c) # <<>> /\ Head(Line(c)) = Head(cq) /\ Line(c)' = Tail(Line(c))
           ELSE Line(c)' = Line(c)
<1> DEFINE S == EntriesOf(c)
           o == Only(cq, S)
           v == dev[c]
           p == Only(sq, S)
           h == Head(cq)
           t == Only(cq', S)
<1>0. /\ v \in Seq(Entry) /\ p \in Seq(Entry) /\ h \in Entry /\ t \in Seq(Entry)
  <2>1. cq \in Seq(Entry) /\ cq # <<>> /\ cq' = Tail(cq)
    BY Zenon DEF TypeOK
  <2>2. h \in Entry /\ cq' \in Seq(Entry)
    BY <2>1
  <2> QED BY <2>1, <2>2, OnlyType, Zenon DEF TypeOK
<1>1. Line(c) = Join(o, v, p) /\ Line(c)' = Join(t, v, p)
  BY LineIs, Zenon
<1>2. h \in S <=> CuOf[h.m] = c
  BY <1>0, Zenon DEF EntriesOf
<1>3. (h \in S => o = <<h>> \o t) /\ (h \notin S => o = t)
  BY OnlyHead, Zenon DEF TypeOK
<1> HIDE DEF S, o, v, p, h, t
<1>4. CASE CuOf[h.m] = c
  <2>3. o = Push(h, t)
    BY <1>2, <1>3, <1>4, Zenon DEF Push
  <2>1. Join(o, v, p) # <<>> /\ Head(Join(o, v, p)) = h /\ Tail(Join(o, v, p)) = Join(t, v, p)
    <3>1. h \in Entry /\ t \in Seq(Entry) /\ v \in Seq(Entry) /\ p \in Seq(Entry)
      BY <1>0, Zenon
    <3>2. Join(Push(h, t), v, p) # <<>>
      BY <3>1, JoinFront
    <3>3. Head(Join(Push(h, t), v, p)) = h
      BY <3>1, JoinFront
    <3>4. Tail(Join(Push(h, t), v, p)) = Join(t, v, p)
      BY <3>1, JoinFront
    <3> QED BY <2>3, <3>2, <3>3, <3>4, Zenon
  <2>2. Line(c) # <<>> /\ Head(Line(c)) = h /\ Line(c)' = Tail(Line(c))
    BY <1>1, <2>1, Zenon
  <2> QED BY <1>4, <2>2, Zenon DEF h
<1>5. CASE CuOf[h.m] # c
  <2>1. Line(c)' = Line(c)
    BY <1>1, <1>2, <1>3, <1>5, Zenon
  <2> QED BY <1>5, <2>1, Zenon DEF h
<1> QED BY <1>4, <1>5, Zenon

\* An entry submitted is the last of its line.
LEMMA LineSubmit ==
    ASSUME TypeOK, NEW c \in CU, NEW e \in Entry, sq' = Append(sq, e), UNCHANGED <<cq, dev>>
    PROVE  Line(c)' = IF CuOf[e.m] = c THEN Append(Line(c), e) ELSE Line(c)
<1> DEFINE S == EntriesOf(c)
           o == Only(cq, S)
           v == dev[c]
           p == Only(sq, S)
           t == Only(sq', S)
<1>0. o \in Seq(Entry) /\ v \in Seq(Entry) /\ p \in Seq(Entry)
  BY OnlyType, Zenon DEF TypeOK
<1>1. Line(c) = Join(o, v, p) /\ Line(c)' = Join(o, v, t)
  BY LineIs, Zenon
<1>2. e \in S <=> CuOf[e.m] = c
  BY Zenon DEF EntriesOf
<1>3. (e \in S => t = Append(p, e)) /\ (e \notin S => t = p)
  BY OnlyAppend DEF TypeOK
<1> HIDE DEF S, o, v, p, t
<1>4. Join(o, v, Append(p, e)) = Append(Join(o, v, p), e)
  BY <1>0, JoinAdd
<1> QED BY <1>1, <1>2, <1>3, <1>4, Zenon

\* The device keeps the lines as they are when it takes an entry.
LEMMA LineFetch ==
    ASSUME TypeOK, NEW c \in CU, Fetch
    PROVE  Line(c)' = Line(c)
<1>1. PICK e \in Entry, d \in CU :
           /\ sq # <<>> /\ e = Head(sq) /\ d = CuOf[e.m] /\ sq' = Tail(sq)
           /\ dev' = [dev EXCEPT ![d] = Append(dev[d], e)]
  BY FetchSays, Zenon
<1> DEFINE S == EntriesOf(c)
           o == Only(cq, S)
           v == dev[c]
           p == Only(sq, S)
           t == Only(sq', S)
<1>0. o \in Seq(Entry) /\ v \in Seq(Entry) /\ t \in Seq(Entry)
  <2>1. sq \in Seq(Entry) /\ sq # <<>> /\ sq' = Tail(sq)
    BY <1>1, Zenon DEF TypeOK
  <2>2. sq' \in Seq(Entry)
    BY <2>1
  <2> QED BY <2>2, OnlyType, Zenon DEF TypeOK
<1>2. cq' = cq
  BY Zenon DEF Fetch
<1>3. Line(c) = Join(o, v, p) /\ Line(c)' = Join(o, dev'[c], t)
  BY <1>2, LineIs, Zenon
<1>4. e \in S <=> d = c
  BY <1>1, Zenon DEF EntriesOf
<1>5. (e \in S => p = <<e>> \o t) /\ (e \notin S => p = t)
  BY <1>1, OnlyHead, Zenon DEF TypeOK
<1>6. dev'[c] = IF d = c THEN Append(v, e) ELSE v
  BY <1>1, Zenon DEF TypeOK
<1> HIDE DEF S, o, v, p, t
<1>7. Join(o, Append(v, e), t) = Join(o, v, <<e>> \o t)
  BY <1>0, JoinTake
<1> QED BY <1>3, <1>4, <1>5, <1>6, <1>7, Zenon

\* And when it answers one.
LEMMA LineRespond ==
    ASSUME TypeOK, Entries, NEW c \in CU, NEW d \in CU, Respond(d)
    PROVE  Line(c)' = Line(c)
<1>1. PICK e \in Entry :
           /\ dev[d] # <<>> /\ e = Head(dev[d]) /\ dev' = [dev EXCEPT ![d] = Tail(dev[d])]
           /\ cq' = Append(cq, e)
  BY RespondSays, Zenon
<1> DEFINE S == EntriesOf(c)
           o == Only(cq, S)
           v == dev[c]
           p == Only(sq, S)
           t == Only(cq', S)
<1>0. o \in Seq(Entry) /\ v \in Seq(Entry) /\ p \in Seq(Entry) /\ dev[d] \in Seq(Entry)
  BY OnlyType, Zenon DEF TypeOK
<1>2. sq' = sq
  BY Zenon DEF Respond
<1>3. Line(c) = Join(o, v, p) /\ Line(c)' = Join(t, dev'[c], p)
  BY <1>2, LineIs, Zenon
<1>4. e \in S <=> d = c
  <2>1. e \in SeqSet(dev[d])
    BY <1>0, <1>1, SetOfQueue
  <2>2. CuOf[e.m] = d
    BY <2>1, Zenon DEF Entries
  <2> QED BY <2>2, Zenon DEF EntriesOf
<1>5. (e \in S => t = Append(o, e)) /\ (e \notin S => t = o)
  <2>1. cq \in Seq(Entry)
    BY Zenon DEF TypeOK
  <2>2. /\ e \in S => Only(Append(cq, e), S) = Append(Only(cq, S), e)
        /\ e \notin S => Only(Append(cq, e), S) = Only(cq, S)
    BY <2>1, OnlyAppend, Zenon
  <2> QED BY <1>1, <2>2, Zenon
<1>6. dev'[c] = IF d = c THEN Tail(v) ELSE v
  BY <1>1, Zenon DEF TypeOK
<1> HIDE DEF S, o, p, t
<1>7. CASE d = c
  <2>1. Tail(v) \in Seq(Entry) /\ v = <<e>> \o Tail(v)
    BY <1>0, <1>1, <1>7, QueueOfHead
  <2> DEFINE u == Tail(v)
  <2>3. u \in Seq(Entry) /\ o \in Seq(Entry) /\ p \in Seq(Entry)
    BY <1>0, <2>1, Zenon
  <2> HIDE DEF u
  <2>2. Join(Append(o, e), u, p) = Join(o, <<e>> \o u, p)
    BY <2>3, JoinPass
  <2> QED BY <1>3, <1>4, <1>5, <1>6, <1>7, <2>1, <2>2, Zenon DEF u
<1>8. CASE d # c
  BY <1>3, <1>4, <1>5, <1>6, <1>8, Zenon
<1> QED BY <1>7, <1>8, Zenon

\* Lists stay in the order of the responses.
LEMMA OrderStep ==
    ASSUME TypeOK, Ids, Entries, InOrder, [Next]_vars
    PROVE  InOrder'
<1>a. /\ sub \in [Id -> Seq(Cmd)] /\ id \in [CU -> Id] /\ att \subseteq CU /\ spoilt \subseteq att
  BY Zenon DEF TypeOK
<1>b. ASSUME NEW c \in att \ spoilt PROVE c \in CU /\ id[c] \in Id /\ sub[id[c]] = Names(Line(c))
  BY <1>a, Zenon DEF InOrder
<1>c. ASSUME NEW c, Line(c)' = Line(c) PROVE Names(Line(c))' = Names(Line(c))
  BY <1>c, Zenon DEF Names
<1>d. ASSUME NEW c \in CU PROVE Names(Line(c))' = Names(Line(c)')
  BY Zenon DEF Names
<1>0. ASSUME UNCHANGED <<att, id, sub>>, spoilt \subseteq spoilt', \A c \in CU : Line(c)' = Line(c)
      PROVE  InOrder'
  <2> SUFFICES ASSUME NEW c \in att' \ spoilt' PROVE sub'[id'[c]] = Names(Line(c))'
    BY Zenon DEF InOrder
  <2>1. c \in att \ spoilt
    BY <1>0, Zenon
  <2> QED BY <1>0, <1>b, <1>c, <2>1, Zenon
<1>1. ASSUME UNCHANGED <<att, id, sub, spoilt, cq, dev, sq>> PROVE InOrder'
  <2>1. \A c \in CU : Line(c)' = Line(c)
    BY <1>1, Zenon DEF Line
  <2> QED BY <1>0, <1>1, <2>1, Zenon
<1>2. ASSUME NEW c \in CU, Start(c) \/ CheckEmpty(c) \/ Get(c) \/ GetNone(c) PROVE InOrder'
  <2>1. UNCHANGED <<att, id, sub, spoilt, cq, dev, sq>>
    BY <1>2, Zenon DEF Start, CheckEmpty, Get, GetNone, lists, device, rest
  <2> QED BY <1>1, <2>1, Zenon
<1>3. CASE UNCHANGED vars
  <2>1. UNCHANGED <<att, id, sub, spoilt, cq, dev, sq>>
    BY <1>3, Zenon DEF vars
  <2> QED BY <1>1, <2>1, Zenon
<1>4. CASE Fetch
  <2>1. UNCHANGED <<att, id, sub, spoilt>>
    BY <1>4, Zenon DEF Fetch, lists, rest
  <2> QED BY <1>0, <1>4, <2>1, LineFetch, Zenon
<1>5. ASSUME NEW c \in CU, Respond(c) PROVE InOrder'
  <2>1. UNCHANGED <<att, id, sub, spoilt>>
    BY <1>5, Zenon DEF Respond, lists, rest
  <2> QED BY <1>0, <1>5, <2>1, LineRespond, Zenon
<1>6. ASSUME NEW c \in CU, Attach(c) PROVE InOrder'
  <2>1. /\ att' = att \cup {c} /\ id' = [id EXCEPT ![c] = num] /\ c \notin att
        /\ UNCHANGED <<sub, spoilt, cq, dev, sq>>
    BY <1>6, Zenon DEF Attach, lists, device, rest
  <2>2. num \in Id /\ sub[num] = <<>>
    BY <2>1, Attached DEF Ids
  <2>3. Line(c) = <<>> /\ Names(<<>>) = <<>>
    <3>1. <<>> \in Seq(Entry)
      OBVIOUS
    <3>2. Names(<<>>) = <<>>
      BY <3>1, NamesMove, Zenon
    <3> QED BY <2>1, <3>2, LineEmpty, Zenon
  <2>4. \A d \in CU : Line(d)' = Line(d)
    BY <2>1, Zenon DEF Line
  <2> SUFFICES ASSUME NEW d \in att' \ spoilt' PROVE sub'[id'[d]] = Names(Line(d))'
    BY Zenon DEF InOrder
  <2>5. CASE d = c
    <3>1. sub'[id'[d]] = <<>>
      BY <1>a, <2>1, <2>2, <2>5, Zenon
    <3>2. Names(Line(d))' = <<>>
      BY <1>c, <2>3, <2>4, <2>5, Zenon
    <3> QED BY <3>1, <3>2, Zenon
  <2>6. CASE d \in att \ spoilt
    <3>1. sub'[id'[d]] = sub[id[d]]
      BY <1>a, <2>1, <2>6, Zenon
    <3> QED BY <1>b, <1>c, <2>4, <2>6, <3>1, Zenon
  <2> QED BY <2>1, <2>5, <2>6, Zenon
<1>7. ASSUME NEW c \in CU, NEW m \in Cmd, Submit(c, m) PROVE InOrder'
  <2>1. PICK e \in Entry :
             /\ c \in att /\ CuOf[m] = c /\ m \notin Issued /\ id[c] \in Id
             /\ e.m = m /\ ClientOf(e.cid) = id[c] /\ sq' = Append(sq, e)
             /\ sub' = [sub EXCEPT ![id[c]] = Append(sub[id[c]], m)]
             /\ sub' \in [Id -> Seq(Cmd)]
             /\ nsq' = [nsq EXCEPT ![c] = nsq[c] + 1]
    BY <1>7, SubmitSays, Zenon
  <2>2. UNCHANGED <<att, id, cq, dev, spoilt>>
    BY <1>7, Zenon DEF Submit, rest
  <2> SUFFICES ASSUME NEW d \in att' \ spoilt' PROVE sub'[id'[d]] = Names(Line(d))'
    BY Zenon DEF InOrder
  <2>3. d \in CU /\ d \in att \ spoilt /\ id[d] \in Id
    BY <1>a, <2>2, Zenon
  <2>4. Line(d)' = IF CuOf[e.m] = d THEN Append(Line(d), e) ELSE Line(d)
    BY <2>1, <2>2, <2>3, LineSubmit, Zenon
  <2>5. CASE d = c
    <3>1. Line(d) \in Seq(Entry) /\ Line(d)' = Append(Line(d), e)
      BY <2>1, <2>3, <2>4, <2>5, LineIs, Zenon
    <3>2. Names(Append(Line(d), e)) = Append(Names(Line(d)), m)
      BY <2>1, <3>1, NamesMove, Zenon
    <3>3. sub'[id'[d]] = Append(sub[id[d]], m)
      BY <1>a, <2>1, <2>2, <2>5, Zenon
    <3> QED BY <1>b, <1>d, <2>3, <3>1, <3>2, <3>3, Zenon
  <2>6. CASE d # c
    <3>1. sub'[id'[d]] = sub[id[d]]
      <4>1. id[d] # id[c]
        BY <2>1, <2>3, <2>6, Zenon DEF Ids
      <4> QED BY <1>a, <2>1, <2>2, <2>3, <4>1, Zenon
    <3>2. Line(d)' = Line(d)
      BY <2>1, <2>4, <2>6, Zenon
    <3> QED BY <1>b, <1>c, <2>3, <3>1, <3>2, Zenon
  <2> QED BY <2>5, <2>6, Zenon
<1>8. ASSUME NEW c \in CU, Check(c) PROVE InOrder'
  <2>1. PICK r \in Entry, f \in att :
             /\ cq # <<>> /\ r = Head(cq) /\ f = CuOf[r.m] /\ cq' = Tail(cq) /\ id[f] \in Id
             /\ \/ sub[id[f]] = <<>> /\ UNCHANGED <<sub, comp, told>>
                \/ sub[id[f]] # <<>> /\ HandleResp(id[f], r)
    BY <1>8, CheckSays, Zenon
  <2>2. UNCHANGED <<att, id, sq, dev, spoilt>>
    BY <1>8, CheckKeeps, Zenon
  <2> SUFFICES ASSUME NEW d \in att' \ spoilt' PROVE sub'[id'[d]] = Names(Line(d))'
    BY Zenon DEF InOrder
  <2>3. d \in CU /\ d \in att \ spoilt /\ id[d] \in Id /\ f \in CU
    BY <1>a, <2>2, Zenon
  <2>4. IF f = d
        THEN Line(d) # <<>> /\ Head(Line(d)) = r /\ Line(d)' = Tail(Line(d))
        ELSE Line(d)' = Line(d)
    BY <2>1, <2>2, <2>3, LineCheck, Zenon
  <2>5. CASE d = f
    <3>1. Line(d) \in Seq(Entry) /\ Line(d) # <<>> /\ Line(d)' = Tail(Line(d))
      BY <2>3, <2>4, <2>5, LineIs, Zenon
    <3>2. Names(Line(d)) # <<>> /\ Tail(Names(Line(d))) = Names(Tail(Line(d)))
      BY <3>1, NamesMove, Zenon
    <3>3. sub[id[d]] = Names(Line(d))
      BY <1>b, <2>3, Zenon
    <3>4. sub' = [sub EXCEPT ![id[d]] = Tail(sub[id[d]])]
      BY <2>1, <2>5, <3>2, <3>3, HandleTypes, Zenon
    <3>5. sub'[id'[d]] = Tail(sub[id[d]])
      BY <1>a, <2>2, <2>3, <3>4, Zenon
    <3> QED BY <1>d, <2>3, <3>1, <3>2, <3>3, <3>5, Zenon
  <2>6. CASE d # f
    <3>1. id[d] # id[f]
      BY <2>3, <2>6, Zenon DEF Ids
    <3>2. sub'[id[d]] = sub[id[d]]
      BY <2>1, <2>3, <3>1, HandleKeeps, Zenon
    <3>3. Line(d)' = Line(d)
      BY <2>4, <2>6, Zenon
    <3> QED BY <1>b, <1>c, <2>2, <2>3, <3>2, <3>3, Zenon
  <2> QED BY <2>5, <2>6, Zenon
<1>9. ASSUME NEW c \in CU, NEW S, Abort(c, S) PROVE InOrder'
  <2>1. c \in att /\ id[c] \in Id /\ sub' = [sub EXCEPT ![id[c]] = Only(sub[id[c]], Cmd \ S)]
    BY <1>9, AbortTypes, Zenon
  <2>2. UNCHANGED <<att, id, cq, dev, sq>> /\ spoilt' = spoilt \cup {c}
    BY <1>9, Zenon DEF Abort, device
  <2> SUFFICES ASSUME NEW d \in att' \ spoilt' PROVE sub'[id'[d]] = Names(Line(d))'
    BY Zenon DEF InOrder
  <2>3. d \in CU /\ d \in att \ spoilt /\ id[d] \in Id /\ d # c
    BY <1>a, <2>2, Zenon
  <2>4. id[d] # id[c]
    BY <2>1, <2>3, Zenon DEF Ids
  <2>5. sub'[id'[d]] = sub[id[d]]
    BY <1>a, <2>1, <2>2, <2>3, <2>4, Zenon
  <2>6. Line(d)' = Line(d)
    BY <2>2, Zenon DEF Line
  <2> QED BY <1>b, <1>c, <2>3, <2>5, <2>6, Zenon
<1> QED BY <1>2, <1>3, <1>4, <1>5, <1>6, <1>7, <1>8, <1>9, Zenon DEF Next, Thread

-----------------------------------------------------------------------------
(* The status of a command. *)

\* The command of an entry of a list is among the commands of the list.
LEMMA NamesHave ==
    ASSUME NEW s \in Seq(Entry), NEW e \in SeqSet(s)
    PROVE  e.m \in SeqSet(Names(s))
<1>1. PICK j \in 1 .. Len(s) : s[j] = e
  BY Zenon DEF SeqSet
<1>2. Len(Names(s)) = Len(s)
  BY NamesMove, Zenon
<1>3. Names(s)[j] = e.m
  BY <1>1, Zenon DEF Names
<1> QED BY <1>2, <1>3, Zenon DEF SeqSet

\* Steps that give no status, and answer no command that has one.
LEMMA ToldKept ==
    ASSUME ToldOwn, spoilt \subseteq spoilt',
           \A m \in Cmd : told'[m] # None /\ CuOf[m] \notin spoilt' =>
                             told'[m] = told[m] /\ verdict'[m] = verdict[m]
    PROVE  ToldOwn'
<1> SUFFICES ASSUME NEW m \in Cmd, told'[m] # None, CuOf[m] \notin spoilt'
             PROVE  /\ verdict'[m] # None
                    /\ told'[m] = IF CuOf[m] \notin NeedResp THEN "completed"
                                  ELSE IF verdict'[m] = "garbage" THEN "error" ELSE verdict'[m]
  BY Zenon DEF ToldOwn
<1>1. told'[m] = told[m] /\ verdict'[m] = verdict[m] /\ CuOf[m] \notin spoilt
  BY Zenon
<1> QED BY <1>1, Zenon DEF ToldOwn

\* A status is that of the command's own response.
LEMMA ToldStep ==
    ASSUME ClientIInv, [Next]_vars
    PROVE  ToldOwn'
<1> USE DEF ClientIInv
<1>a. /\ sub \in [Id -> Seq(Cmd)] /\ id \in [CU -> Id] /\ att \subseteq CU /\ spoilt \subseteq att
      /\ verdict \in [Cmd -> Verdict \cup {None}]
      /\ told \in [Cmd -> {"completed", "crashed", "error", "timeout", None}]
      /\ dev \in [CU -> Seq(Entry)]
  BY Zenon DEF TypeOK
<1>1. ASSUME UNCHANGED <<told, verdict, spoilt>> PROVE ToldOwn'
  BY <1>1, ToldKept, Zenon
<1>2. ASSUME NEW c \in CU, Attach(c) \/ Start(c) \/ CheckEmpty(c) \/ Get(c) \/ GetNone(c)
      PROVE  ToldOwn'
  <2>1. UNCHANGED <<told, verdict, spoilt>>
    BY <1>2, Zenon DEF Attach, Start, CheckEmpty, Get, GetNone, device, rest
  <2> QED BY <1>1, <2>1, Zenon
<1>3. CASE Fetch \/ UNCHANGED vars
  <2>1. UNCHANGED <<told, verdict, spoilt>>
    BY <1>3, Zenon DEF Fetch, vars, rest
  <2> QED BY <1>1, <2>1, Zenon
<1>4. ASSUME NEW c \in CU, NEW m \in Cmd, Submit(c, m) PROVE ToldOwn'
  <2>1. UNCHANGED <<told, verdict, spoilt>>
    BY <1>4, Zenon DEF Submit, rest
  <2> QED BY <1>1, <2>1, Zenon
<1>5. ASSUME NEW c \in CU, NEW S, Abort(c, S) PROVE ToldOwn'
  <2>1. c \in att /\ S \subseteq SeqSet(sub[id[c]])
    BY <1>5, AbortTypes, Zenon
  <2>2. /\ told' = [m \in Cmd |-> IF m \in S THEN "timeout" ELSE told[m]]
        /\ spoilt' = spoilt \cup {c} /\ verdict' = verdict
    BY <1>5, Zenon DEF Abort, device
  <2>3. \A m \in S : CuOf[m] = c
    BY <2>1, Zenon DEF CountMatches
  <2>4. \A m \in Cmd : CuOf[m] \notin spoilt' => told'[m] = told[m]
    BY <2>2, <2>3, Zenon
  <2> QED BY <2>2, <2>4, ToldKept, Zenon
<1>6. ASSUME NEW c \in CU, Respond(c) PROVE ToldOwn'
  <2>1. PICK e \in Entry, v \in Verdict :
             dev[c] # <<>> /\ e = Head(dev[c]) /\ verdict' = [verdict EXCEPT ![e.m] = v]
    BY <1>6, RespondSays, Zenon
  <2>2. UNCHANGED <<told, spoilt>>
    BY <1>6, Zenon DEF Respond, rest
  <2>3. e \in SeqSet(dev[c]) /\ e.m \in Cmd
    BY <1>a, <2>1, SetOfQueue DEF Entry
  <2>4. CuOf[e.m] = c /\ c \in att
    <3>1. e \in InFlight
      BY <2>3, Zenon DEF InFlight
    <3> QED BY <2>3, <3>1, Zenon DEF Entries, Good
  <2>5. c \notin spoilt => told[e.m] = None
    <3> SUFFICES ASSUME c \notin spoilt PROVE told[e.m] = None
      BY Zenon
    <3>1. Line(c) \in Seq(Entry) /\ e \in SeqSet(Line(c))
      BY <2>3, LineIs, Zenon
    <3>2. e.m \in SeqSet(Names(Line(c)))
      BY <3>1, NamesHave, Zenon
    <3>3. e.m \in SeqSet(sub[id[c]]) /\ id[c] \in Id
      BY <1>a, <2>4, <3>2, Zenon DEF InOrder
    <3> QED BY <2>3, <3>3, Zenon DEF WaitsOnce
  <2>6. \A m \in Cmd : told'[m] # None /\ CuOf[m] \notin spoilt' =>
                          told'[m] = told[m] /\ verdict'[m] = verdict[m]
    <3> SUFFICES ASSUME NEW m \in Cmd, told'[m] # None, CuOf[m] \notin spoilt'
                 PROVE  told'[m] = told[m] /\ verdict'[m] = verdict[m]
      BY Zenon
    <3>1. m # e.m
      BY <2>2, <2>4, <2>5, Zenon
    <3> QED BY <1>a, <2>1, <2>2, <3>1, Zenon
  <2> QED BY <2>2, <2>6, ToldKept, Zenon
<1>7. ASSUME NEW c \in CU, Check(c) PROVE ToldOwn'
  <2>1. PICK r \in Entry, d \in att :
             /\ cq # <<>> /\ r = Head(cq) /\ d = CuOf[r.m] /\ cq' = Tail(cq)
             /\ id[d] \in Id /\ verdict[r.m] # None
             /\ \/ sub[id[d]] = <<>> /\ UNCHANGED <<sub, comp, told>>
                \/ sub[id[d]] # <<>> /\ HandleResp(id[d], r)
    BY <1>7, CheckSays, Zenon
  <2>2. UNCHANGED <<verdict, spoilt, sq, dev, att, id>>
    BY <1>7, CheckKeeps, Zenon
  <2>3. CASE UNCHANGED <<sub, comp, told>>
    BY <1>1, <2>2, <2>3, Zenon
  <2>4. CASE sub[id[d]] # <<>> /\ HandleResp(id[d], r)
    <3> DEFINE i == id[d]
               h == Head(sub[i])
    <3>1. h \in Cmd /\ told' = [told EXCEPT ![h] = Status(i, r)]
      BY <2>1, <2>4, HandleTypes, Zenon
    <3>2. CuOf[h] = d
      <4>1. h \in SeqSet(sub[i])
        BY <1>a, <2>1, <2>4, HeadIsIn, Zenon
      <4> QED BY <4>1, Zenon DEF CountMatches
    <3>3. d \notin spoilt => h = r.m
      <4> SUFFICES ASSUME d \notin spoilt PROVE h = r.m
        BY Zenon
      <4>1. d \in CU /\ sub[i] = Names(Line(d))
        BY <1>a, Zenon DEF InOrder
      <4>2. Line(d) \in Seq(Entry) /\ Line(d) # <<>> /\ Head(Line(d)) = r
        BY <2>1, <2>2, <4>1, LineIs, LineCheck, Zenon
      <4> QED BY <4>1, <4>2, NamesMove, Zenon
    <3>4. Status(i, r) = IF d \notin NeedResp THEN "completed"
                         ELSE IF verdict[r.m] = "garbage" THEN "error" ELSE verdict[r.m]
      <4>1. (\E f \in att \cap NeedResp : id[f] = i) <=> d \in NeedResp
        BY Zenon DEF Ids
      <4> QED BY <4>1, Zenon DEF Status
    <3> HIDE DEF h, i
    <3>5. told'[h] = Status(i, r) /\ \A m \in Cmd : m # h => told'[m] = told[m]
      BY <1>a, <3>1, Zenon
    <3> SUFFICES ASSUME NEW m \in Cmd, told'[m] # None, CuOf[m] \notin spoilt'
                 PROVE  /\ verdict'[m] # None
                        /\ told'[m] = IF CuOf[m] \notin NeedResp THEN "completed"
                                      ELSE IF verdict'[m] = "garbage" THEN "error" ELSE verdict'[m]
      BY Zenon DEF ToldOwn
    <3>6. CASE m = h
      <4>1. m = r.m /\ CuOf[m] = d /\ told'[m] = Status(i, r)
        BY <2>2, <3>2, <3>3, <3>5, <3>6, Zenon
      <4> QED BY <2>1, <2>2, <3>4, <4>1, Zenon
    <3>7. CASE m # h
      <4>1. told[m] # None /\ told'[m] = told[m] /\ verdict'[m] = verdict[m] /\ CuOf[m] \notin spoilt
        BY <2>2, <3>5, <3>7, Zenon
      <4> QED BY <4>1, Zenon DEF ToldOwn
    <3> QED BY <3>6, <3>7, Zenon
  <2> QED BY <2>1, <2>3, <2>4, Zenon
<1> QED BY <1>2, <1>3, <1>4, <1>5, <1>6, <1>7, Zenon DEF Next, Thread

-----------------------------------------------------------------------------
(* The theorems. *)

\* The CUs start with nothing.
LEMMA ClientStart ==
    ASSUME Init
    PROVE  ClientIInv
<1> USE DEF Init
<1>e. /\ \A T : <<>> \in Seq(T)
      /\ Len(<<>>) = 0 /\ SeqSet(<<>>) = {}
  BY DEF SeqSet
<1>f. Cardinality({}) = 0 /\ IsFiniteSet({})
  BY FS_EmptySet, Zenon
<1>c. Cardinality(CU) \in Nat /\ Id = 0 .. Cardinality(CU) - 1
  BY IdRange, Zenon
<1>0. \A c \in CU : 0 \in Id
  <2> SUFFICES ASSUME NEW c \in CU PROVE 0 \in Id
    BY Zenon
  <2>1. Cardinality(CU) # 0
    BY XgqClientAssumption, FS_EmptySet, Zenon
  <2> QED BY <1>c, <2>1
<1>1. TypeOK
  <2>1. id \in [CU -> Id]
    BY <1>0, Zenon
  <2>2. sub \in [Id -> Seq(Cmd)] /\ comp \in [Id -> Seq(Cmd)] /\ dev \in [CU -> Seq(Entry)]
    BY <1>e, Zenon
  <2>3. /\ sq \in Seq(Entry) /\ Len(sq) <= SlotNum /\ shown \in 0 .. Len(sq)
        /\ cq \in Seq(Entry) /\ held \in Nat /\ Len(cq) + held <= SlotNum
        /\ num \in 0 .. Cardinality(CU) /\ aborts \in 0 .. MaxAbort
    BY <1>c, <1>e, XgqClientAssumption
  <2>4. nsq \in [CU -> Nat] /\ pc \in [CU -> {"idle", "start", "check", "get"}]
    BY Zenon
  <2>5. /\ verdict \in [Cmd -> Verdict \cup {None}]
        /\ told \in [Cmd -> {"completed", "crashed", "error", "timeout", None}]
    BY Zenon
  <2>6. att \subseteq CU /\ done \subseteq Cmd /\ seen \subseteq CU /\ crashed \subseteq CU /\ spoilt \subseteq att
    BY Zenon
  <2> QED BY <2>1, <2>2, <2>3, <2>4, <2>5, <2>6, Zenon DEF TypeOK
<1>2. Ids
  BY <1>f, Zenon DEF Ids
<1>3. InFlight = {}
  BY <1>e, Zenon DEF InFlight
<1>4. Entries
  <2>1. \A c \in CU : SeqSet(dev[c]) = {}
    BY <1>e, Zenon
  <2> QED BY <1>3, <1>e, <1>f, <2>1, Zenon DEF Entries
<1>5. CountMatches
  BY Zenon DEF CountMatches
<1>6. NoneStarves
  <2> SUFFICES ASSUME NEW i \in Id PROVE Len(sub[i]) <= ToCome(i)
    BY Zenon DEF NoneStarves
  <2>1. ToCome(i) = 0
    <3>1. {e \in InFlight : ClientOf(e.cid) = i} = {}
      BY <1>3, Zenon
    <3> QED BY <1>f, <3>1, Zenon DEF ToCome
  <2> QED BY <1>e, <2>1
<1>7. WaitsOnce
  <2>1. \A i \in Id : sub[i] = <<>>
    BY Zenon
  <2>2. \A i \in Id : SeqSet(sub[i]) = {} /\ \A m \in Cmd : Times(sub[i], m) <= 1
    BY <1>e, <2>1, TimesEmpty
  <2>3. \A m \in Cmd : told[m] = None
    BY Zenon
  <2> QED BY <2>2, <2>3, Zenon DEF WaitsOnce
<1>8. InOrder /\ ToldOwn
  BY Zenon DEF InOrder, ToldOwn
<1> QED BY <1>1, <1>2, <1>4, <1>5, <1>6, <1>7, <1>8, Zenon DEF ClientIInv

\* Every step keeps all of it.
LEMMA ClientStep == ClientIInv /\ [Next]_vars => ClientIInv'
<1> SUFFICES ASSUME ClientIInv, [Next]_vars PROVE ClientIInv'
  BY Zenon
<1>1. TypeOK /\ Ids /\ Entries /\ CountMatches /\ NoneStarves /\ WaitsOnce /\ InOrder
  BY Zenon DEF ClientIInv
<1>2. TypeOK' /\ Ids' /\ Entries' /\ CountMatches'
  BY <1>1, TypeStep, IdsStep, EntriesStep, CountStep, Zenon
<1>3. NoneStarves' /\ InOrder'
  BY <1>1, StarveStep, OrderStep, Zenon
<1>4. WaitsOnce'
  BY <1>1, WaitsStep, IdStays, Zenon
<1>5. ToldOwn'
  BY ToldStep, Zenon
<1> QED BY <1>2, <1>3, <1>4, <1>5, Zenon DEF ClientIInv

\* The inductive invariant: every state the clients and the device can reach, with
\* any interleaving of the CU threads, of aborts and of the device's answers.
THEOREM ClientInductive == Spec => []ClientIInv
<1>1. Init => ClientIInv
  BY ClientStart, Zenon
<1> QED BY <1>1, ClientStep, PTL DEF Spec

\* The lists, the queues and the counters keep their types: num never passes the
\* number of CUs, and neither queue ever holds more than SlotNum entries.
THEOREM ClientTypeCorrect == Spec => []TypeOK
<1>1. ClientIInv => TypeOK
  BY Zenon DEF ClientIInv
<1> QED BY <1>1, ClientInductive, PTL

\* num_sq of a CU's thread is the number of its commands on its client's two
\* lists, and a client's lists hold only its own CU's commands.
THEOREM CountMatchesHolds == Spec => []CountMatches
<1>1. ClientIInv => CountMatches
  BY Zenon DEF ClientIInv
<1> QED BY <1>1, ClientInductive, PTL

\* A client with commands on its submitted list has at least as many responses to
\* come: xocl_xgq_handle_resp() by whichever thread never leaves one waiting for
\* a response that another consumed.
THEOREM NoneStarvesHolds == Spec => []NoneStarves
<1>1. ClientIInv => NoneStarves
  BY Zenon DEF ClientIInv
<1> QED BY <1>1, ClientInductive, PTL

\* The status given to a command is that of its own response, as long as nothing of
\* its CU was aborted, although xocl_xgq_handle_resp() takes the first command of
\* the client and does not look for the one the response names.
THEOREM ToldOwnHolds == Spec => []ToldOwn
<1>1. ClientIInv => ToldOwn
  BY Zenon DEF ClientIInv
<1> QED BY <1>1, ClientInductive, PTL
=============================================================================
