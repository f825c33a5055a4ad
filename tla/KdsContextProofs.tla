-------------------------- MODULE KdsContextProofs --------------------------
(***************************************************************************)
(* Proofs for KdsContext, for any clients, hardware contexts, CUs and      *)
(* bounds, whether or not a CU context may be opened while it is open.     *)
(*                                                                         *)
(* The inductive invariant IInv relates each count to the contexts it      *)
(* stands for.  It is stated over Active, Settled and Excludes, in which   *)
(* an open or a close under way is taken back: only Reserve, Release and   *)
(* ExitDone change them, and the other actions are instances of SameView.  *)
(*                                                                         *)
(* On the CUs whose contexts are not opened while they are open the counts *)
(* are exact, and so nothing is left behind when the last of them is       *)
(* closed.  IInv bounds each count from below; Exact, kept by every step   *)
(* together with IInv, bounds it from above.                               *)
(***************************************************************************)
EXTENDS KdsContext, FiniteSetTheorems, TLAPS

\* The sets that are counted are finite.
LEMMA FiniteSets ==
    /\ \A c \in Client, u \in CU : /\ IsFiniteSet(ActiveCtx(c, u))
                                   /\ Cardinality(ActiveCtx(c, u)) \in Nat
    /\ \A u \in CU : /\ IsFiniteSet(Sharers(u))
                     /\ Cardinality(Sharers(u)) \in Nat
<1>1. \A c \in Client, u \in CU : ActiveCtx(c, u) \subseteq HwCtx
  BY Zenon DEF ActiveCtx
<1>2. \A u \in CU : Sharers(u) \subseteq Client
  BY Zenon DEF Sharers
<1>3. IsFiniteSet(Client) /\ IsFiniteSet(HwCtx)
  BY KdsAssumption, Zenon
<1> QED
  BY <1>1, <1>2, <1>3, FS_Subset, FS_CardinalityType, Zenon

\* Counting down from a set that shrinks or grows by one element.
LEMMA CardAdd ==
    ASSUME NEW S, IsFiniteSet(S), NEW x
    PROVE  /\ IsFiniteSet(S \cup {x})
           /\ Cardinality(S) \in Nat
           /\ x \in S => Cardinality(S \cup {x}) = Cardinality(S)
           /\ x \notin S => Cardinality(S \cup {x}) = Cardinality(S) + 1
  BY FS_AddElement, FS_CardinalityType, Zenon

LEMMA CardDel ==
    ASSUME NEW S, IsFiniteSet(S), NEW x
    PROVE  /\ IsFiniteSet(S \ {x})
           /\ Cardinality(S) \in Nat
           /\ x \notin S => Cardinality(S \ {x}) = Cardinality(S)
           /\ x \in S => Cardinality(S \ {x}) = Cardinality(S) - 1
  BY FS_RemoveElement, FS_CardinalityType, Zenon

\* A set with two members counts two.
LEMMA CardTwo ==
    ASSUME NEW S, IsFiniteSet(S), NEW x \in S, NEW y \in S, x # y
    PROVE  Cardinality(S) >= 2
<1>1. {x, y} \subseteq S
  BY Zenon
<1>2. Cardinality({x, y}) = 2
  <2>1. IsFiniteSet({x}) /\ Cardinality({x}) = 1
    BY FS_Singleton, ZenonT(60)
  <2>2. Cardinality({x} \cup {y}) = 2
    BY <2>1, CardAdd
  <2>3. {x, y} = {x} \cup {y}
    BY Zenon
  <2> QED
    BY <2>2, <2>3, Zenon
<1>3. Cardinality({x, y}) <= Cardinality(S)
  BY <1>1, FS_Subset, Zenon
<1>4. Cardinality(S) \in Nat
  BY FS_CardinalityType, Zenon
<1> QED
  BY <1>2, <1>3, <1>4, Zenon

\* A set with a member counts at least one.
LEMMA CardOne ==
    ASSUME NEW S, IsFiniteSet(S), NEW x \in S
    PROVE  Cardinality(S) >= 1 /\ Cardinality(S) \in Nat
<1>1. Cardinality(S) \in Nat
  BY FS_CardinalityType, Zenon
<1>2. Cardinality(S) # 0
  BY FS_EmptySet, Zenon
<1> QED
  BY <1>1, <1>2

-----------------------------------------------------------------------------
\* An ioctl under way names a CU context of its client.
LEMMA OpType ==
    ASSUME TypeOK, NEW c \in Client, op[c] # NoOp
    PROVE  /\ op[c] \in Ops
           /\ op[c].h \in HwCtx /\ op[c].u \in CU /\ op[c].prev \in Nat
           /\ op[c].at \in {"reserve", "undo", "release"}
<1>1. op[c] \in Ops
  BY Zenon DEF TypeOK
<1> QED
  BY <1>1, Zenon DEF Ops

\* No ioctl is under way exactly when none of the three phases is.
LEMMA OpIdle ==
    ASSUME TypeOK, NEW c \in Client
    PROVE  /\ op[c] = NoOp => op[c].at = "idle"
           /\ op[c].at \in {"reserve", "undo", "release"} => op[c] # NoOp
  BY DEF TypeOK, NoOp, Ops

\* Settled counts are numbers.
LEMMA SettledNat ==
    ASSUME TypeOK, OpsOK
    PROVE  \A c \in Client, u \in CU : Settled(c, u) \in Nat
<1> SUFFICES ASSUME NEW c \in Client, NEW u \in CU
             PROVE  Settled(c, u) \in Nat
  BY Zenon
<1>1. refs[c][u] \in Nat
  BY Zenon DEF TypeOK
<1>2. op[c].at \in {"reserve", "undo"} /\ op[c].u = u => refs[c][u] > 0
  BY OpIdle, Zenon DEF OpsOK, OpOK
<1> QED
  BY <1>1, <1>2 DEF Settled

\* An action that changes no settled count and no active context, nor cu_refs,
\* keeps the relation between them.
LEMMA SameView ==
    ASSUME CountsOK,
           \A c \in Client, u \in CU : Settled(c, u)' = Settled(c, u),
           \A c \in Client, h \in HwCtx, u \in CU :
              Active(c, h, u)' <=> Active(c, h, u),
           \A c \in Client, h \in HwCtx, u \in CU :
              Excludes(c, h, u)' <=> Excludes(c, h, u),
           share' = share, exclu' = exclu
    PROVE  CountsOK'
<1>1. \A c \in Client, u \in CU : ActiveCtx(c, u)' = ActiveCtx(c, u)
  BY Zenon DEF ActiveCtx
<1>2. \A u \in CU : Sharers(u)' = Sharers(u)
  BY Zenon DEF Sharers
<1> QED
  BY <1>1, <1>2 DEF CountsOK

\* The initial state.
LEMMA InitIInv == Init => IInv
<1> SUFFICES ASSUME Init PROVE IInv
  BY Zenon
<1>1. TypeOK
  BY Zenon DEF Init, TypeOK
<1>2. \A c \in Client, u \in CU : Settled(c, u) = 0
  BY Zenon DEF Init, Settled, NoOp
<1>3. \A c \in Client, h \in HwCtx, u \in CU : ~Active(c, h, u)
  BY DEF Init, Active, NoOp
<1>4. OpsOK
  BY DEF Init, OpsOK, OpOK
<1>5. \A c \in Client, u \in CU : ActiveCtx(c, u) = {}
  BY <1>3, Zenon DEF ActiveCtx
<1>6. \A u \in CU : Sharers(u) = {}
  BY <1>2 DEF Sharers
<1>7. Cardinality({}) = 0
  BY FS_EmptySet, Zenon
<1>8. \A u \in CU : share[u] = 0 /\ ~exclu[u]
  BY Zenon DEF Init
<1>9. \A c \in Client, u \in CU : Cardinality(ActiveCtx(c, u)) <= Settled(c, u)
  BY <1>2, <1>5, <1>7
<1>10. \A u \in CU : Cardinality(Sharers(u)) <= share[u]
  BY <1>6, <1>7, <1>8
<1>11. CountsOK
  BY <1>3, <1>8, <1>9, <1>10, Zenon DEF CountsOK, Excludes
<1> QED
  BY <1>1, <1>4, <1>11, Zenon DEF IInv

-----------------------------------------------------------------------------
\* What an action of client c leaves to the other clients.
RowsSame(d) ==
    /\ op'[d] = op[d] /\ refs'[d] = refs[d]
    /\ cnt'[d] = cnt[d] /\ mode'[d] = mode[d]

\* A client whose counts and contexts are untouched is seen as before.
LEMMA OtherClient ==
    ASSUME OpsOK, NEW d \in Client, RowsSame(d)
    PROVE  /\ OpOK(d)'
           /\ \A u \in CU : Settled(d, u)' = Settled(d, u)
           /\ \A h \in HwCtx, u \in CU :
                 /\ Active(d, h, u)' <=> Active(d, h, u)
                 /\ Excludes(d, h, u)' <=> Excludes(d, h, u)
                 /\ cnt'[d][h][u] > 0 => mode'[d][h][u] # "none"
  BY Zenon DEF RowsSame, OpsOK, OpOK, Settled, Active, Excludes

\* An action of client c that keeps what is seen of c, and cu_refs.
Quiet(c) ==
    /\ TypeOK' /\ OpOK(c)'
    /\ \A d \in Client \ {c} : RowsSame(d)
    /\ \A u \in CU : Settled(c, u)' = Settled(c, u)
    /\ \A h \in HwCtx, u \in CU : Active(c, h, u)' <=> Active(c, h, u)
    /\ \A h \in HwCtx, u \in CU : Excludes(c, h, u)' <=> Excludes(c, h, u)
    /\ \A h \in HwCtx, u \in CU : cnt'[c][h][u] > 0 => mode'[c][h][u] # "none"
    /\ share' = share /\ exclu' = exclu

\* A quiet action keeps what is seen of every client.
LEMMA QuietView ==
    ASSUME IInv, NEW c \in Client, Quiet(c)
    PROVE  \A d \in Client :
             /\ OpOK(d)'
             /\ \A u \in CU : Settled(d, u)' = Settled(d, u)
             /\ \A h \in HwCtx, u \in CU :
                 /\ Active(d, h, u)' <=> Active(d, h, u)
                 /\ Excludes(d, h, u)' <=> Excludes(d, h, u)
                 /\ cnt'[d][h][u] > 0 => mode'[d][h][u] # "none"
<1> SUFFICES ASSUME NEW d \in Client
    PROVE  /\ OpOK(d)'
           /\ \A u \in CU : Settled(d, u)' = Settled(d, u)
           /\ \A h \in HwCtx, u \in CU :
                 /\ Active(d, h, u)' <=> Active(d, h, u)
                 /\ Excludes(d, h, u)' <=> Excludes(d, h, u)
                 /\ cnt'[d][h][u] > 0 => mode'[d][h][u] # "none"
  BY Zenon
<1>1. CASE d = c
  BY <1>1, Zenon DEF Quiet
<1>2. CASE d # c
  <2>1. RowsSame(d)
    BY <1>2, Zenon DEF Quiet
  <2> QED
    BY <2>1, OtherClient, Zenon DEF IInv
<1> QED
  BY <1>1, <1>2, Zenon

\* A quiet action keeps the invariant.
LEMMA QuietStep ==
    ASSUME IInv, NEW c \in Client, Quiet(c)
    PROVE  IInv'
<1>1. TypeOK' /\ share' = share /\ exclu' = exclu
  BY Zenon DEF Quiet
<1>2. OpsOK'
  BY QuietView, Zenon DEF OpsOK
<1>3. CountsOK'
  BY <1>1, QuietView, SameView, Zenon DEF IInv
<1> QED
  BY <1>1, <1>2, <1>3, Zenon DEF IInv

-----------------------------------------------------------------------------
(* The actions that only begin, refuse, undo or leave an ioctl. *)

\* Open counts the client's open and remembers the count before it.
LEMMA OpenQuiet ==
    ASSUME IInv, NEW c \in Client, NEW h \in HwCtx, NEW u \in CU,
           NEW flags \in {"shared", "exclusive"}, Open(c, h, u, flags)
    PROVE  Quiet(c)
<1> USE DEF IInv
<1>0. op[c] = NoOp /\ op[c].at = "idle"
  BY OpIdle, Zenon DEF Open
<1>1. TypeOK'
  BY DEF Open, TypeOK, Ops
<1>2. \A d \in Client \ {c} : RowsSame(d)
  BY Zenon DEF Open, TypeOK, RowsSame
<1>3. /\ op'[c] = [at |-> "reserve", h |-> h, u |-> u, prev |-> refs[c][u]]
      /\ refs'[c][u] = refs[c][u] + 1
      /\ \A w \in CU \ {u} : refs'[c][w] = refs[c][w]
      /\ \A w \in CU : refs[c][w] \in Nat
  BY Zenon DEF Open, TypeOK
<1>4. \A w \in CU : Settled(c, w)' = Settled(c, w)
  BY <1>0, <1>3 DEF Settled
<1>5. cnt' = cnt /\ share' = share /\ exclu' = exclu
  BY Zenon DEF Open
<1>6. \A g \in HwCtx, w \in CU : Active(c, g, w)' <=> Active(c, g, w)
  BY <1>0, <1>3, <1>5 DEF Active
<1>7. /\ \A g \in HwCtx, w \in CU :
            mode[c][g][w] # "none" => mode'[c][g][w] = mode[c][g][w]
      /\ mode'[c][h][u] # "none"
  BY DEF Open, TypeOK
<1>8. \A g \in HwCtx, w \in CU : Active(c, g, w) => mode[c][g][w] # "none"
  BY <1>0, Zenon DEF Active, OpsOK
<1>9. \A g \in HwCtx, w \in CU : Excludes(c, g, w)' <=> Excludes(c, g, w)
  BY <1>6, <1>7, <1>8, Zenon DEF Excludes
<1>10. OpOK(c)'
  BY <1>3, <1>7 DEF OpOK, Settled
<1>11. \A g \in HwCtx, w \in CU : cnt'[c][g][w] > 0 => mode'[c][g][w] # "none"
  BY <1>5, <1>7 DEF OpsOK
<1> QED
  BY <1>1, <1>2, <1>4, <1>5, <1>6, <1>9, <1>10, <1>11, Zenon DEF Quiet

\* A refused reservation changes nothing but where the ioctl is.
LEMMA ReserveBusyQuiet ==
    ASSUME IInv, NEW c \in Client, ReserveBusy(c)
    PROVE  Quiet(c)
<1> USE DEF IInv
<1>0. op[c] # NoOp /\ op[c].at = "reserve" /\ op[c] \in Ops
  BY OpIdle, OpType, Zenon DEF ReserveBusy
<1>1. /\ op'[c] = [op[c] EXCEPT !.at = "undo"]
      /\ \A d \in Client \ {c} : op'[d] = op[d]
  BY Zenon DEF ReserveBusy, TypeOK
<1>2. /\ op'[c] \in Ops /\ op'[c] # NoOp
      /\ op'[c].at = "undo" /\ op'[c].h = op[c].h
      /\ op'[c].u = op[c].u /\ op'[c].prev = op[c].prev
  BY <1>0, <1>1, Zenon DEF Ops, NoOp
<1>3. /\ mode' = mode /\ cnt' = cnt /\ refs' = refs /\ share' = share
      /\ exclu' = exclu /\ exiting' = exiting
  BY Zenon DEF ReserveBusy
<1>4. op' \in [Client -> {NoOp} \cup Ops]
  BY <1>2, Zenon DEF ReserveBusy, TypeOK
<1>5. TypeOK'
  BY <1>3, <1>4, Zenon DEF TypeOK
<1>6. \A d \in Client \ {c} : RowsSame(d)
  BY <1>1, <1>3, Zenon DEF RowsSame
<1>7. \A w \in CU : Settled(c, w)' = Settled(c, w)
  BY <1>0, <1>2, <1>3, Zenon DEF Settled
<1>8. \A g \in HwCtx, w \in CU : Active(c, g, w)' <=> Active(c, g, w)
  BY <1>0, <1>2, <1>3, Zenon DEF Active
<1>9. \A g \in HwCtx, w \in CU : Excludes(c, g, w)' <=> Excludes(c, g, w)
  BY <1>3, <1>8, Zenon DEF Excludes
<1>10. op[c].u \in CU
  BY <1>0, OpType, Zenon
<1>11. OpOK(c)'
  <2>1. /\ op[c].prev = Settled(c, op[c].u) /\ refs[c][op[c].u] > 0
        /\ mode[c][op[c].h][op[c].u] # "none"
    BY <1>0, Zenon DEF OpOK, OpsOK
  <2>2. Settled(c, op[c].u)' = Settled(c, op[c].u)
    BY <1>2, <1>7, <1>10, Zenon
  <2> QED
    BY <1>2, <1>3, <2>1, <2>2, Zenon DEF OpOK
<1>12. \A g \in HwCtx, w \in CU : cnt'[c][g][w] > 0 => mode'[c][g][w] # "none"
  BY <1>3, Zenon DEF OpsOK
<1> QED
  BY <1>3, <1>5, <1>6, <1>7, <1>8, <1>9, <1>11, <1>12, Zenon DEF Quiet

\* Undo takes the count back; a CU context that it frees was not active.
LEMMA UndoQuiet ==
    ASSUME IInv, NEW c \in Client, Undo(c)
    PROVE  Quiet(c)
<1> USE DEF IInv
<1> DEFINE h == op[c].h
           u == op[c].u
<1>0. op[c] # NoOp /\ op[c].at = "undo" /\ h \in HwCtx /\ u \in CU
  <2>1. op[c].at = "undo"
    BY Zenon DEF Undo
  <2> QED
    BY <2>1, OpIdle, OpType, Zenon
<1>1. refs[c][u] > 0
  BY <1>0, Zenon DEF OpsOK, OpOK
<1>2. /\ refs'[c][u] = refs[c][u] - 1
      /\ \A w \in CU \ {u} : refs'[c][w] = refs[c][w]
      /\ \A w \in CU : refs[c][w] \in Nat
  BY <1>0, Zenon DEF Undo, TypeOK
<1>3. /\ op'[c] = NoOp /\ cnt' = cnt /\ share' = share /\ exclu' = exclu
      /\ exiting' = exiting
  BY Zenon DEF Undo, TypeOK
<1>4. \A d \in Client \ {c} : RowsSame(d)
  BY <1>0, Zenon DEF Undo, TypeOK, RowsSame
<1>5. TypeOK'
  <2>1. refs[c][u] - 1 \in Nat
    BY <1>0, <1>1, <1>2
  <2>2. refs' \in [Client -> [CU -> Nat]]
    BY <1>0, <2>1, Zenon DEF Undo, TypeOK
  <2>3. mode' \in [Client -> [HwCtx -> [CU -> {"none", "shared", "exclusive"}]]]
    <3>1. mode' = [mode EXCEPT ![c][h][u] = IF cnt[c][h][u] = 0 THEN "none" ELSE @]
      BY Zenon DEF Undo
    <3> QED
      BY <1>0, <3>1 DEF TypeOK
  <2>4. op' \in [Client -> {NoOp} \cup Ops]
    BY Zenon DEF Undo, TypeOK
  <2> QED
    BY <1>3, <2>2, <2>3, <2>4, Zenon DEF TypeOK
<1>6. op'[c].at = "idle"
  BY <1>3 DEF NoOp
<1>7. \A w \in CU : Settled(c, w)' = Settled(c, w)
  BY <1>0, <1>2, <1>6, Zenon DEF Settled
<1>8. \A g \in HwCtx, w \in CU : Active(c, g, w)' <=> Active(c, g, w)
  BY <1>0, <1>3, <1>6, Zenon DEF Active
<1>9. \A g \in HwCtx, w \in CU :
         cnt[c][g][w] > 0 => mode'[c][g][w] = mode[c][g][w]
  BY <1>0 DEF Undo, TypeOK
<1>10. \A g \in HwCtx, w \in CU : Active(c, g, w) => cnt[c][g][w] > 0
  BY <1>0, Zenon DEF Active
<1>11. \A g \in HwCtx, w \in CU : Excludes(c, g, w)' <=> Excludes(c, g, w)
  BY <1>8, <1>9, <1>10, Zenon DEF Excludes
<1>12. OpOK(c)'
  BY <1>3, Zenon DEF OpOK
<1>13. \A g \in HwCtx, w \in CU : cnt'[c][g][w] > 0 => mode'[c][g][w] # "none"
  BY <1>3, <1>9 DEF OpsOK
<1> QED
  BY <1>3, <1>4, <1>5, <1>7, <1>8, <1>11, <1>12, <1>13, Zenon DEF Quiet

\* A nested close leaves the context open.
LEMMA CloseNestedQuiet ==
    ASSUME IInv, NEW c \in Client, NEW h \in HwCtx, NEW u \in CU,
           CloseNested(c, h, u)
    PROVE  Quiet(c)
<1> USE DEF IInv
<1>1. /\ mode' = mode /\ op' = op /\ refs' = refs /\ share' = share
      /\ exclu' = exclu /\ exiting' = exiting /\ op[c] = NoOp
  BY Zenon DEF CloseNested
<1>2. /\ cnt[c][h][u] \in Nat /\ cnt[c][h][u] > 1
      /\ cnt' = [cnt EXCEPT ![c][h][u] = cnt[c][h][u] - 1]
  BY DEF CloseNested, TypeOK
<1>3. /\ cnt' \in [Client -> [HwCtx -> [CU -> Nat]]]
      /\ \A d \in Client \ {c} : cnt'[d] = cnt[d]
      /\ \A g \in HwCtx, w \in CU : cnt'[c][g][w] > 0 <=> cnt[c][g][w] > 0
  BY <1>2 DEF TypeOK
<1>4. TypeOK'
  BY <1>1, <1>3, Zenon DEF TypeOK
<1>5. \A d \in Client \ {c} : RowsSame(d)
  BY <1>1, <1>3, Zenon DEF RowsSame
<1>6. \A w \in CU : Settled(c, w)' = Settled(c, w)
  BY <1>1, Zenon DEF Settled
<1>7. \A g \in HwCtx, w \in CU : Active(c, g, w)' <=> Active(c, g, w)
  BY <1>1, <1>3, Zenon DEF Active
<1>8. \A g \in HwCtx, w \in CU : Excludes(c, g, w)' <=> Excludes(c, g, w)
  BY <1>1, <1>7, Zenon DEF Excludes
<1>9. OpOK(c)'
  BY <1>1, Zenon DEF OpOK
<1>10. \A g \in HwCtx, w \in CU : cnt'[c][g][w] > 0 => mode'[c][g][w] # "none"
  BY <1>1, <1>3, Zenon DEF OpsOK
<1> QED
  BY <1>1, <1>4, <1>5, <1>6, <1>7, <1>8, <1>9, <1>10, Zenon DEF Quiet

\* The last close moves the context from open to being released.
LEMMA CloseLastQuiet ==
    ASSUME IInv, NEW c \in Client, NEW h \in HwCtx, NEW u \in CU,
           CloseLast(c, h, u)
    PROVE  Quiet(c)
<1> USE DEF IInv
<1>0. op[c] = NoOp /\ op[c].at = "idle" /\ cnt[c][h][u] = 1 /\ refs[c][u] > 0
  BY OpIdle, Zenon DEF CloseLast
<1>1. mode' = mode /\ share' = share /\ exclu' = exclu /\ exiting' = exiting
  BY Zenon DEF CloseLast
<1>2. /\ op'[c] = [at |-> "release", h |-> h, u |-> u, prev |-> refs[c][u]]
      /\ refs'[c][u] = refs[c][u] - 1
      /\ \A w \in CU \ {u} : refs'[c][w] = refs[c][w]
      /\ \A w \in CU : refs[c][w] \in Nat
      /\ cnt'[c][h][u] = 0
      /\ \A g \in HwCtx, w \in CU : g # h \/ w # u => cnt'[c][g][w] = cnt[c][g][w]
  BY DEF CloseLast, TypeOK
<1>3. \A d \in Client \ {c} : RowsSame(d)
  BY Zenon DEF CloseLast, TypeOK, RowsSame
<1>4. TypeOK'
  <2>1. refs[c][u] \in Nat /\ refs[c][u] - 1 \in Nat
    BY <1>0, <1>2
  <2>2. refs' \in [Client -> [CU -> Nat]]
    BY <2>1, Zenon DEF CloseLast, TypeOK
  <2>3. cnt' \in [Client -> [HwCtx -> [CU -> Nat]]]
    BY Zenon DEF CloseLast, TypeOK
  <2>4. op' \in [Client -> {NoOp} \cup Ops]
    BY <2>1, Zenon DEF CloseLast, TypeOK, Ops
  <2> QED
    BY <1>1, <2>2, <2>3, <2>4, Zenon DEF TypeOK
<1>5. \A w \in CU : Settled(c, w)' = Settled(c, w)
  BY <1>0, <1>2 DEF Settled
<1>6. \A g \in HwCtx, w \in CU : Active(c, g, w)' <=> Active(c, g, w)
  BY <1>0, <1>2 DEF Active
<1>7. \A g \in HwCtx, w \in CU : Excludes(c, g, w)' <=> Excludes(c, g, w)
  BY <1>1, <1>6, Zenon DEF Excludes
<1>8. mode[c][h][u] # "none"
  BY <1>0 DEF OpsOK
<1>9. OpOK(c)'
  BY <1>1, <1>2, <1>8 DEF OpOK, Settled
<1>10. \A g \in HwCtx, w \in CU : cnt'[c][g][w] > 0 => mode'[c][g][w] # "none"
  BY <1>1, <1>2 DEF OpsOK
<1> QED
  BY <1>1, <1>3, <1>4, <1>5, <1>6, <1>7, <1>9, <1>10, Zenon DEF Quiet

\* The start of an exit is only noted.
LEMMA ExitQuiet ==
    ASSUME IInv, NEW c \in Client, Exit(c)
    PROVE  Quiet(c)
<1>1. /\ mode' = mode /\ cnt' = cnt /\ refs' = refs /\ share' = share
      /\ exclu' = exclu /\ op' = op
  BY Zenon DEF Exit
<1>2. TypeOK'
  <2>1. exiting' = [exiting EXCEPT ![c] = TRUE]
    BY Zenon DEF Exit
  <2>2. exiting' \in [Client -> BOOLEAN]
    BY <2>1, Zenon DEF IInv, TypeOK
  <2> QED
    BY <1>1, <2>2, Zenon DEF IInv, TypeOK
<1>3. \A d \in Client : RowsSame(d)
  BY <1>1, Zenon DEF RowsSame
<1>4. /\ OpOK(c)'
      /\ \A u \in CU : Settled(c, u)' = Settled(c, u)
      /\ \A h \in HwCtx, u \in CU :
            /\ Active(c, h, u)' <=> Active(c, h, u)
            /\ Excludes(c, h, u)' <=> Excludes(c, h, u)
            /\ cnt'[c][h][u] > 0 => mode'[c][h][u] # "none"
  BY <1>3, OtherClient, Zenon DEF IInv
<1> QED
  BY <1>1, <1>2, <1>3, <1>4, Zenon DEF Quiet

-----------------------------------------------------------------------------
(* The actions that change who uses a CU. *)

\* What the invariant says of exclusive contexts.
LEMMA ExclusiveFacts ==
    ASSUME IInv
    PROVE  /\ \A c \in Client, h \in HwCtx, u \in CU :
                 Excludes(c, h, u) => exclu[u] /\ Settled(c, u) = 1
           /\ \A c, d \in Client, h, g \in HwCtx, u \in CU :
                 Excludes(c, h, u) /\ Excludes(d, g, u) => c = d
  BY Zenon DEF IInv, CountsOK

\* A CU without the exclusive bit has no exclusive context, one with count zero
\* has no sharers.
LEMMA FreeCU ==
    ASSUME IInv, NEW u \in CU
    PROVE  /\ ~exclu[u] => \A d \in Client, g \in HwCtx : ~Excludes(d, g, u)
           /\ share[u] = 0 => Sharers(u) = {}
<1>1. share[u] = 0 => Cardinality(Sharers(u)) = 0
  BY FiniteSets DEF IInv, CountsOK, TypeOK
<1>2. IsFiniteSet(Sharers(u))
  BY FiniteSets, Zenon
<1>3. share[u] = 0 => Sharers(u) = {}
  BY <1>1, <1>2, FS_EmptySet, Zenon
<1> QED
  BY <1>3, Zenon DEF IInv, CountsOK

-----------------------------------------------------------------------------
(* Reserve: an open that succeeds counts the context and takes the CU, shared *)
(* or exclusively.                                                            *)

\* What Reserve does to the CU context (h, u) of client c.
Reserved(c, h, u) ==
    /\ op[c].at = "reserve"
    /\ ~exclu[u]
    /\ mode[c][h][u] = "exclusive" => share[u] = 0
    /\ exclu' = [exclu EXCEPT ![u] = (mode[c][h][u] = "exclusive")]
    /\ share' = [share EXCEPT ![u] =
                   IF mode[c][h][u] # "exclusive" /\ op[c].prev = 0
                   THEN @ + 1 ELSE @]
    /\ cnt' = [cnt EXCEPT ![c][h][u] = @ + 1]
    /\ op' = [op EXCEPT ![c] = NoOp]
    /\ mode' = mode /\ refs' = refs /\ exiting' = exiting

\* Reserve, read as a step on the CU context that the open is about.
LEMMA ReserveIs ==
    ASSUME NEW c \in Client, Reserve(c),
           NEW h \in HwCtx, NEW u \in CU, h = op[c].h, u = op[c].u
    PROVE  Reserved(c, h, u)
  BY ZenonT(60) DEF Reserve, Reserved, Taken

\* The CU context that a reservation is about.
LEMMA ReserveOp ==
    ASSUME IInv, NEW c \in Client, Reserve(c)
    PROVE  op[c] # NoOp /\ op[c].h \in HwCtx /\ op[c].u \in CU
<1>1. op[c].at = "reserve"
  BY Zenon DEF Reserve
<1>2. op[c] # NoOp
  BY <1>1 DEF NoOp
<1> QED
  BY <1>2, OpType, Zenon DEF IInv

\* What is seen of client c after it reserved u in h.
ReserveDone(c, h, u) ==
    /\ \A d \in Client \ {c} : RowsSame(d)
    /\ OpOK(c)'
    /\ Settled(c, u)' = Settled(c, u) + 1
    /\ op[c].prev = Settled(c, u)
    /\ \A w \in CU \ {u} : Settled(c, w)' = Settled(c, w)
    /\ \A g \in HwCtx, w \in CU :
          Active(c, g, w)' <=> Active(c, g, w) \/ (g = h /\ w = u)
    /\ mode' = mode /\ mode[c][h][u] # "none"
    /\ ~exclu[u]

\* A successful reservation makes the context active and settles its count.
LEMMA ReserveFacts ==
    ASSUME IInv, NEW c \in Client, Reserve(c),
           NEW h \in HwCtx, NEW u \in CU, h = op[c].h, u = op[c].u
    PROVE  ReserveDone(c, h, u)
<1> USE DEF IInv
<1>r. Reserved(c, h, u)
  BY ReserveIs, Zenon
<1>0. op[c] # NoOp /\ op[c].at = "reserve"
  BY <1>r, ReserveOp, Zenon DEF Reserved
<1>1. /\ mode' = mode /\ refs' = refs /\ exiting' = exiting
      /\ cnt' = [cnt EXCEPT ![c][h][u] = @ + 1]
      /\ op' = [op EXCEPT ![c] = NoOp]
      /\ ~exclu[u]
  BY <1>r, Zenon DEF Reserved
<1>2. /\ op'[c] = NoOp /\ op'[c].at = "idle"
      /\ \A d \in Client \ {c} : op'[d] = op[d] /\ cnt'[d] = cnt[d]
      /\ \A w \in CU : refs[c][w] \in Nat
      /\ \A g \in HwCtx, w \in CU : cnt[c][g][w] \in Nat
      /\ cnt'[c][h][u] = cnt[c][h][u] + 1
      /\ \A g \in HwCtx, w \in CU : g # h \/ w # u => cnt'[c][g][w] = cnt[c][g][w]
  BY <1>1 DEF TypeOK, NoOp
<1>3. \A d \in Client \ {c} : RowsSame(d)
  BY <1>1, <1>2, ZenonT(60) DEF RowsSame
<1>4. OpOK(c)'
  BY <1>2, Zenon DEF OpOK
<1>5. refs[c][u] > 0 /\ op[c].prev = Settled(c, u) /\ mode[c][h][u] # "none"
  BY <1>0, Zenon DEF OpsOK, OpOK
<1>6. /\ Settled(c, u)' = Settled(c, u) + 1
      /\ \A w \in CU \ {u} : Settled(c, w)' = Settled(c, w)
  <2>1. \A w \in CU : Settled(c, w)' = refs[c][w]
    BY <1>1, <1>2, ZenonT(60) DEF Settled
  <2>2. Settled(c, u) = refs[c][u] - 1
    BY <1>0, Zenon DEF Settled
  <2>3. \A w \in CU \ {u} : Settled(c, w) = refs[c][w]
    BY <1>0, Zenon DEF Settled
  <2>4. refs[c][u] - 1 + 1 = refs[c][u]
    BY <1>2
  <2> QED BY <2>1, <2>2, <2>3, <2>4, Zenon
<1>7. \A g \in HwCtx, w \in CU :
         Active(c, g, w)' <=> Active(c, g, w) \/ (g = h /\ w = u)
  BY <1>0, <1>2 DEF Active
<1> QED
  BY <1>1, <1>3, <1>4, <1>5, <1>6, <1>7, Zenon DEF ReserveDone

\* What is seen of the clients after a reservation.
LEMMA ReserveOps ==
    ASSUME IInv, NEW c \in Client, Reserve(c)
    PROVE  TypeOK' /\ OpsOK'
<1> USE DEF IInv
<1>0. PICK h \in HwCtx, u \in CU : h = op[c].h /\ u = op[c].u
  BY ReserveOp, Zenon
<1>r. Reserved(c, h, u)
  BY <1>0, ReserveIs, Zenon
<1>s. ReserveDone(c, h, u)
  BY <1>0, ReserveFacts, Zenon
<1>1. /\ \A d \in Client \ {c} : RowsSame(d)
      /\ OpOK(c)' /\ mode' = mode /\ mode[c][h][u] # "none"
  BY <1>s, Zenon DEF ReserveDone
<1>2. /\ cnt' \in [Client -> [HwCtx -> [CU -> Nat]]]
      /\ \A g \in HwCtx, w \in CU : g # h \/ w # u => cnt'[c][g][w] = cnt[c][g][w]
  BY <1>0, <1>r DEF Reserved, TypeOK
<1>3. share' \in [CU -> Nat] /\ exclu' \in [CU -> BOOLEAN]
  BY <1>0, <1>r DEF Reserved, TypeOK
<1>4. op' \in [Client -> {NoOp} \cup Ops] /\ refs' = refs /\ exiting' = exiting
  BY <1>r, Zenon DEF Reserved, TypeOK
<1>5. TypeOK'
  BY <1>1, <1>2, <1>3, <1>4, Zenon DEF TypeOK
<1>6. \A d \in Client : OpOK(d)'
  BY <1>1, OtherClient, Zenon
<1>7. \A g \in HwCtx, w \in CU : cnt'[c][g][w] > 0 => mode'[c][g][w] # "none"
  BY <1>1, <1>2, ZenonT(60) DEF OpsOK
<1>8. \A d \in Client, g \in HwCtx, w \in CU :
         cnt'[d][g][w] > 0 => mode'[d][g][w] # "none"
  BY <1>1, <1>7, OtherClient, Zenon
<1> QED
  BY <1>5, <1>6, <1>8, Zenon DEF OpsOK

\* Reserve adds one active context, and one sharer or the only exclusive user.
LEMMA ReserveStep ==
    ASSUME IInv, NEW c \in Client, Reserve(c)
    PROVE  IInv'
<1>0. PICK h \in HwCtx, u \in CU : h = op[c].h /\ u = op[c].u
  BY ReserveOp, Zenon
<1>r. Reserved(c, h, u)
  BY <1>0, ReserveIs, Zenon
<1>s. ReserveDone(c, h, u)
  BY <1>0, ReserveFacts, Zenon
<1>1. /\ \A d \in Client \ {c} : RowsSame(d)
      /\ Settled(c, u)' = Settled(c, u) + 1
      /\ op[c].prev = Settled(c, u)
      /\ \A w \in CU \ {u} : Settled(c, w)' = Settled(c, w)
      /\ \A g \in HwCtx, w \in CU :
            Active(c, g, w)' <=> Active(c, g, w) \/ (g = h /\ w = u)
      /\ mode' = mode /\ mode[c][h][u] # "none"
      /\ ~exclu[u]
  BY <1>s, Zenon DEF ReserveDone
<1>2. \A d \in Client, w \in CU :
         /\ Settled(d, w) \in Nat
         /\ d # c \/ w # u => Settled(d, w)' = Settled(d, w)
  BY <1>1, OtherClient, SettledNat, Zenon DEF IInv
<1>3. \A d \in Client, g \in HwCtx, w \in CU :
         Active(d, g, w)' <=> Active(d, g, w) \/ (d = c /\ g = h /\ w = u)
  BY <1>1, OtherClient, Zenon DEF IInv
<1>4. \A d \in Client, g \in HwCtx, w \in CU :
         Excludes(d, g, w)' <=> \/ Excludes(d, g, w)
                                \/ /\ d = c /\ g = h /\ w = u
                                   /\ mode[c][h][u] = "exclusive"
  BY <1>1, <1>3, Zenon DEF Excludes
<1>5. ASSUME NEW d \in Client, NEW w \in CU
      PROVE  Cardinality(ActiveCtx(d, w))' <= Settled(d, w)'
  <2>1. CASE d = c /\ w = u
    <3>1. ActiveCtx(d, w)' = ActiveCtx(d, w) \cup {h}
      BY <1>3, <2>1, Zenon DEF ActiveCtx
    <3>2. Cardinality(ActiveCtx(d, w)) <= Settled(d, w)
      BY Zenon DEF IInv, CountsOK
    <3>3. IsFiniteSet(ActiveCtx(d, w))
      BY FiniteSets, Zenon
    <3>4. /\ Cardinality(ActiveCtx(d, w)) \in Nat
          /\ \/ Cardinality(ActiveCtx(d, w) \cup {h}) = Cardinality(ActiveCtx(d, w))
             \/ Cardinality(ActiveCtx(d, w) \cup {h}) = Cardinality(ActiveCtx(d, w)) + 1
      BY <3>3, CardAdd, ZenonT(60)
    <3> QED
      BY <1>1, <1>2, <2>1, <3>1, <3>2, <3>4
  <2>2. CASE d # c \/ w # u
    <3>1. ActiveCtx(d, w)' = ActiveCtx(d, w)
      BY <1>3, <2>2, Zenon DEF ActiveCtx
    <3> QED
      BY <1>2, <2>2, <3>1, Zenon DEF IInv, CountsOK
  <2> QED
    BY <2>1, <2>2, Zenon
<1>6. \A w \in CU \ {u} : Sharers(w)' = Sharers(w)
  BY <1>2, <1>4, Zenon DEF Sharers
<1>7. \A w \in CU \ {u} : share'[w] = share[w] /\ exclu'[w] = exclu[w]
  BY <1>r, Zenon DEF Reserved, IInv, TypeOK
<1>8. \A d \in Client, g \in HwCtx : ~Excludes(d, g, u)
  BY <1>1, FreeCU, Zenon
<1>9. CASE mode[c][h][u] = "exclusive"
  <2>1. share[u] = 0 /\ share'[u] = 0 /\ exclu'[u]
    BY <1>r, <1>9, ZenonT(60) DEF Reserved, IInv, TypeOK
  <2>2. Sharers(u) = {}
    BY <2>1, FreeCU, Zenon
  <2>3. \A d \in Client : Settled(d, u) = 0
    BY <1>2, <1>8, <2>2 DEF Sharers
  <2>4. Settled(c, u)' = 1
    BY <1>1, <2>3
  <2>5. Sharers(u)' = {}
    BY <1>2, <1>4, <1>9, <2>3 DEF Sharers
  <2>6. Cardinality(Sharers(u))' <= share'[u]
    BY <2>1, <2>5, FS_EmptySet
  <2>7. \A w \in CU : Cardinality(Sharers(w))' <= share'[w]
    BY <1>6, <1>7, <2>6, Zenon DEF IInv, CountsOK
  <2>8. ASSUME NEW d \in Client, NEW g \in HwCtx, NEW w \in CU, Excludes(d, g, w)'
        PROVE  exclu'[w] /\ Settled(d, w)' = 1
    <3>1. CASE w = u
      <4>1. d = c
        BY <1>4, <1>8, <2>8, <3>1, Zenon
      <4> QED
        BY <2>1, <2>4, <3>1, <4>1, Zenon
    <3>2. CASE w # u
      <4>1. Excludes(d, g, w)
        BY <1>4, <2>8, <3>2, Zenon
      <4>2. Settled(d, w)' = Settled(d, w) /\ exclu'[w] = exclu[w]
        BY <1>2, <1>7, <3>2, Zenon
      <4> QED
        BY <4>1, <4>2, ExclusiveFacts, Zenon
    <3> QED
      BY <3>1, <3>2, Zenon
  <2>9. ASSUME NEW d \in Client, NEW e \in Client, NEW g \in HwCtx, NEW f \in HwCtx,
               NEW w \in CU, Excludes(d, g, w)', Excludes(e, f, w)'
        PROVE  d = e
    <3>1. CASE w = u
      BY <1>4, <1>8, <2>9, <3>1, Zenon
    <3>2. CASE w # u
      <4>1. Excludes(d, g, w) /\ Excludes(e, f, w)
        BY <1>4, <2>9, <3>2, Zenon
      <4> QED
        BY <4>1, ExclusiveFacts, Zenon
    <3> QED
      BY <3>1, <3>2, Zenon
  <2>10. \A w \in CU : exclu'[w] => share'[w] = 0
    BY <1>7, <2>1, Zenon DEF IInv, CountsOK
  <2> QED
    <3>1. CountsOK'
      BY <1>5, <2>7, <2>8, <2>9, <2>10, Zenon DEF CountsOK
    <3> QED
      BY <3>1, ReserveOps, Zenon DEF IInv
<1>10. CASE mode[c][h][u] # "exclusive"
  <2>1. /\ ~exclu'[u]
        /\ share'[u] = IF op[c].prev = 0 THEN share[u] + 1 ELSE share[u]
        /\ share[u] \in Nat
    BY <1>r, <1>10, ZenonT(60) DEF Reserved, IInv, TypeOK
  <2>2. Sharers(u)' = Sharers(u) \cup {c}
    BY <1>1, <1>2, <1>4, <1>8, <1>10 DEF Sharers
  <2>3. c \in Sharers(u) <=> op[c].prev # 0
    BY <1>1, <1>2, <1>8 DEF Sharers
  <2>4. IsFiniteSet(Sharers(u)) /\ Cardinality(Sharers(u)) <= share[u]
    BY FiniteSets, Zenon DEF IInv, CountsOK
  <2>5. Cardinality(Sharers(u) \cup {c}) <= share'[u]
    BY <2>1, <2>3, <2>4, CardAdd
  <2>6. \A w \in CU : Cardinality(Sharers(w))' <= share'[w]
    BY <1>6, <1>7, <2>2, <2>5, Zenon DEF IInv, CountsOK
  <2>7. ASSUME NEW d \in Client, NEW g \in HwCtx, NEW w \in CU, Excludes(d, g, w)'
        PROVE  exclu'[w] /\ Settled(d, w)' = 1
    <3>1. Excludes(d, g, w)
      BY <1>4, <1>10, <2>7, Zenon
    <3>2. w # u
      BY <1>8, <3>1, Zenon
    <3>3. Settled(d, w)' = Settled(d, w) /\ exclu'[w] = exclu[w]
      BY <1>2, <1>7, <3>2, Zenon
    <3> QED
      BY <3>1, <3>3, ExclusiveFacts, Zenon
  <2>8. ASSUME NEW d \in Client, NEW e \in Client, NEW g \in HwCtx, NEW f \in HwCtx,
               NEW w \in CU, Excludes(d, g, w)', Excludes(e, f, w)'
        PROVE  d = e
    <3>1. Excludes(d, g, w) /\ Excludes(e, f, w)
      BY <1>4, <1>10, <2>8, Zenon
    <3> QED
      BY <3>1, ExclusiveFacts, Zenon
  <2>9. \A w \in CU : exclu'[w] => share'[w] = 0
    BY <1>7, <2>1, Zenon DEF IInv, CountsOK
  <2> QED
    <3>1. CountsOK'
      BY <1>5, <2>6, <2>7, <2>8, <2>9, Zenon DEF CountsOK
    <3> QED
      BY <3>1, ReserveOps, Zenon DEF IInv
<1> QED
  BY <1>9, <1>10, Zenon

-----------------------------------------------------------------------------
(* Release: a close gives the CU back. *)

\* What is seen of all clients after c has released (h, u).
ReleaseSeen(c, h, u) ==
    /\ \A d \in Client \ {c} : RowsSame(d)
    /\ OpOK(c)'
    /\ Settled(c, u) >= 1 /\ Settled(c, u)' = Settled(c, u) - 1
    /\ op[c].prev = Settled(c, u)
    /\ \A w \in CU \ {u} : Settled(c, w)' = Settled(c, w)
    /\ Active(c, h, u)
    /\ \A g \in HwCtx, w \in CU :
          Active(c, g, w)' <=> Active(c, g, w) /\ ~(g = h /\ w = u)
    /\ \A g \in HwCtx, w \in CU :
          g # h \/ w # u => mode'[c][g][w] = mode[c][g][w]
    /\ cnt' = cnt /\ refs' = refs /\ exiting' = exiting

\* It is what Release leaves behind: it ends the activity of one context.
LEMMA ReleaseFacts ==
    ASSUME IInv, NEW c \in Client, Release(c),
           NEW h \in HwCtx, NEW u \in CU, h = op[c].h, u = op[c].u
    PROVE  ReleaseSeen(c, h, u)
<1> USE DEF IInv
<1>0. op[c] # NoOp /\ op[c].at = "release"
  BY OpIdle, Zenon DEF Release
<1>1. /\ cnt' = cnt /\ refs' = refs /\ exiting' = exiting
      /\ op'[c] = NoOp /\ op'[c].at = "idle"
      /\ \A w \in CU : refs[c][w] \in Nat
      /\ \A g \in HwCtx, w \in CU : cnt[c][g][w] \in Nat
  BY DEF Release, TypeOK, NoOp
<1>2. \A d \in Client \ {c} : RowsSame(d)
  BY <1>1, Zenon DEF Release, TypeOK, RowsSame
<1>3. OpOK(c)'
  BY <1>1, Zenon DEF OpOK
<1>4. cnt[c][h][u] = 0 /\ op[c].prev = Settled(c, u)
  BY <1>0, Zenon DEF OpsOK, OpOK
<1>5. /\ Settled(c, u) >= 1 /\ Settled(c, u)' = Settled(c, u) - 1
      /\ \A w \in CU \ {u} : Settled(c, w)' = Settled(c, w)
  BY <1>0, <1>1 DEF Settled
<1>6. /\ Active(c, h, u)
      /\ \A g \in HwCtx, w \in CU :
            Active(c, g, w)' <=> Active(c, g, w) /\ ~(g = h /\ w = u)
  BY <1>0, <1>1, <1>4 DEF Active
<1>7. \A g \in HwCtx, w \in CU :
         g # h \/ w # u => mode'[c][g][w] = mode[c][g][w]
  BY DEF Release, TypeOK
<1> QED
  BY <1>1, <1>2, <1>3, <1>4, <1>5, <1>6, <1>7, Zenon DEF ReleaseSeen

\* Release removes one active context, and its sharer or the exclusive bit.
LEMMA ReleaseStep ==
    ASSUME IInv, NEW c \in Client, Release(c)
    PROVE  IInv'
<1>0. PICK h \in HwCtx, u \in CU : h = op[c].h /\ u = op[c].u
  BY OpIdle, OpType, Zenon DEF Release, IInv
<1>s. ReleaseSeen(c, h, u)
  BY <1>0, ReleaseFacts, Zenon
<1>1. /\ \A d \in Client \ {c} : RowsSame(d)
      /\ OpOK(c)'
      /\ Settled(c, u) >= 1 /\ Settled(c, u)' = Settled(c, u) - 1
      /\ op[c].prev = Settled(c, u)
      /\ \A w \in CU \ {u} : Settled(c, w)' = Settled(c, w)
      /\ Active(c, h, u)
      /\ \A g \in HwCtx, w \in CU :
            Active(c, g, w)' <=> Active(c, g, w) /\ ~(g = h /\ w = u)
      /\ \A g \in HwCtx, w \in CU :
            g # h \/ w # u => mode'[c][g][w] = mode[c][g][w]
      /\ cnt' = cnt /\ refs' = refs /\ exiting' = exiting
  BY <1>s, Zenon DEF ReleaseSeen
<1>2. \A d \in Client, w \in CU :
         /\ Settled(d, w) \in Nat
         /\ d # c \/ w # u => Settled(d, w)' = Settled(d, w)
  BY <1>1, OtherClient, SettledNat, Zenon DEF IInv
<1>a. Settled(c, u) > 0
  <2>1. Settled(c, u) \in Nat
    BY <1>2, Zenon
  <2>2. Settled(c, u) >= 1
    BY <1>1, ZenonT(60)
  <2> QED
    BY <2>1, <2>2
<1>3. \A d \in Client, g \in HwCtx, w \in CU :
         /\ Active(d, g, w)' <=> Active(d, g, w) /\ ~(d = c /\ g = h /\ w = u)
         /\ Excludes(d, g, w)' <=> Excludes(d, g, w) /\ ~(d = c /\ g = h /\ w = u)
  <2>1. \A g \in HwCtx, w \in CU :
           Excludes(c, g, w)' <=> Excludes(c, g, w) /\ ~(g = h /\ w = u)
    BY <1>1, Zenon DEF Excludes
  <2>2. \A g \in HwCtx, w \in CU :
           Active(c, g, w)' <=> Active(c, g, w) /\ ~(g = h /\ w = u)
    BY <1>1, ZenonT(60)
  <2>3. \A d \in Client \ {c} : RowsSame(d)
    BY <1>1, ZenonT(60)
  <2>4. \A d \in Client \ {c}, g \in HwCtx, w \in CU :
           /\ Active(d, g, w)' <=> Active(d, g, w)
           /\ Excludes(d, g, w)' <=> Excludes(d, g, w)
    BY <2>3, OtherClient, ZenonT(60) DEF IInv
  <2> QED
    BY <2>1, <2>2, <2>4, Zenon
<1>4. ASSUME NEW d \in Client, NEW w \in CU
      PROVE  Cardinality(ActiveCtx(d, w))' <= Settled(d, w)'
  <2>1. CASE d = c /\ w = u
    <3>1. ActiveCtx(d, w)' = ActiveCtx(d, w) \ {h} /\ h \in ActiveCtx(d, w)
      BY <1>1, <1>3, <2>1, Zenon DEF ActiveCtx
    <3>2. Cardinality(ActiveCtx(d, w)) <= Settled(d, w)
      BY Zenon DEF IInv, CountsOK
    <3>3. IsFiniteSet(ActiveCtx(d, w))
      BY FiniteSets, Zenon
    <3>4. /\ Cardinality(ActiveCtx(d, w)) \in Nat
          /\ Cardinality(ActiveCtx(d, w) \ {h}) = Cardinality(ActiveCtx(d, w)) - 1
      BY <3>1, <3>3, CardDel, Zenon
    <3> QED
      BY <1>1, <1>2, <2>1, <3>1, <3>2, <3>4
  <2>2. CASE d # c \/ w # u
    <3>1. ActiveCtx(d, w)' = ActiveCtx(d, w)
      BY <1>3, <2>2, Zenon DEF ActiveCtx
    <3> QED
      BY <1>2, <2>2, <3>1, Zenon DEF IInv, CountsOK
  <2> QED
    BY <2>1, <2>2, Zenon
<1>5. \A w \in CU \ {u} : Sharers(w)' = Sharers(w)
  BY <1>2, <1>3, Zenon DEF Sharers
<1>6. /\ \A w \in CU \ {u} : share'[w] = share[w] /\ exclu'[w] = exclu[w]
      /\ ~exclu'[u]
      /\ share[u] \in Nat
      /\ share'[u] = IF exclu[u] THEN 0
                     ELSE IF op[c].prev = 1 THEN share[u] - 1 ELSE share[u]
  BY <1>0, ZenonT(60) DEF Release, IInv, TypeOK
<1>7. /\ \A d \in Client, g \in HwCtx : ~Excludes(d, g, u)'
      /\ share'[u] \in Nat
      /\ Cardinality(Sharers(u))' <= share'[u]
  <2>1. CASE exclu[u]
    <3>1. Sharers(u) = {}
      BY <2>1, FreeCU, Zenon DEF IInv, CountsOK
    <3>2. PICK g \in HwCtx : Excludes(c, g, u)
      BY <1>a, <3>1, Zenon DEF Sharers
    <3>3. Settled(c, u) = 1 /\ \A d \in Client, f \in HwCtx : Excludes(d, f, u) => d = c
      BY <3>2, Zenon DEF IInv, CountsOK
    <3>4. \A f \in HwCtx : Excludes(c, f, u) => f = h
      <4> SUFFICES ASSUME NEW f \in HwCtx, Excludes(c, f, u), f # h
                   PROVE  FALSE
        BY Zenon
      <4>1. f \in ActiveCtx(c, u) /\ h \in ActiveCtx(c, u)
        BY <1>1, Zenon DEF ActiveCtx, Excludes
      <4>2. Cardinality(ActiveCtx(c, u)) >= 2
        BY <4>1, FiniteSets, CardTwo, Zenon
      <4>3. Cardinality(ActiveCtx(c, u)) <= 1 /\ Cardinality(ActiveCtx(c, u)) \in Nat
        BY <3>3, FiniteSets, Zenon DEF IInv, CountsOK
      <4> QED
        BY <4>2, <4>3
    <3>5. \A d \in Client, f \in HwCtx : ~Excludes(d, f, u)'
      BY <1>3, <3>3, <3>4, Zenon
    <3>6. \A d \in Client : Settled(d, u)' = 0
      <4>1. Settled(c, u)' = 0
        BY <1>1, <3>3
      <4>2. \A d \in Client \ {c} : Settled(d, u) = 0
        BY <1>2, <3>1, <3>3 DEF Sharers
      <4> QED
        BY <1>2, <4>1, <4>2
    <3>7. Sharers(u)' = {}
      BY <3>6 DEF Sharers
    <3> QED
      BY <1>6, <2>1, <3>5, <3>7, FS_EmptySet
  <2>2. CASE ~exclu[u]
    <3>1. \A d \in Client, g \in HwCtx : ~Excludes(d, g, u) /\ ~Excludes(d, g, u)'
      BY <1>3, <2>2, FreeCU, Zenon
    <3>2. c \in Sharers(u)
      BY <1>a, <3>1, Zenon DEF Sharers
    <3>3. /\ IsFiniteSet(Sharers(u)) /\ Cardinality(Sharers(u)) <= share[u]
          /\ Cardinality(Sharers(u)) >= 1 /\ Cardinality(Sharers(u)) \in Nat
      BY <3>2, FiniteSets, CardOne, Zenon DEF IInv, CountsOK
    <3>4. CASE op[c].prev = 1
      <4>1. Settled(c, u)' = 0
        BY <1>1, <3>4
      <4>2. Sharers(u)' = Sharers(u) \ {c}
        BY <1>2, <3>1, <4>1 DEF Sharers
      <4>3. Cardinality(Sharers(u) \ {c}) = Cardinality(Sharers(u)) - 1
        BY <3>2, <3>3, CardDel, Zenon
      <4>4. share'[u] = share[u] - 1
        BY <1>6, <2>2, <3>4, Zenon
      <4>5. share'[u] \in Nat /\ Cardinality(Sharers(u) \ {c}) <= share'[u]
        BY <1>6, <3>3, <4>3, <4>4
      <4> QED
        BY <3>1, <4>2, <4>5, Zenon
    <3>5. CASE op[c].prev # 1
      <4>1. Settled(c, u)' > 0
        BY <1>1, <1>2, <3>5
      <4>2. ASSUME NEW d \in Client
            PROVE  Settled(d, u)' > 0 <=> Settled(d, u) > 0
        <5>1. CASE d = c
          BY <1>a, <4>1, <5>1, Zenon
        <5>2. CASE d # c
          <6>1. Settled(d, u)' = Settled(d, u)
            BY <1>2, <5>2, Zenon
          <6> QED
            BY <6>1, Zenon
        <5> QED
          BY <5>1, <5>2, Zenon
      <4>3. Sharers(u)' = Sharers(u)
        BY <3>1, <4>2, Zenon DEF Sharers
      <4> QED
        BY <1>6, <2>2, <3>1, <3>3, <3>5, <4>3, Zenon
    <3> QED
      BY <3>4, <3>5, Zenon
  <2> QED
    BY <2>1, <2>2, Zenon
<1>8. TypeOK'
  <2>1. share' \in [CU -> Nat]
    BY <1>6, <1>7, ZenonT(60) DEF Release, IInv, TypeOK
  <2>2. /\ mode' \in [Client -> [HwCtx -> [CU -> {"none", "shared", "exclusive"}]]]
        /\ exclu' \in [CU -> BOOLEAN]
        /\ op' \in [Client -> {NoOp} \cup Ops]
    BY <1>0, Zenon DEF Release, IInv, TypeOK
  <2> QED
    BY <1>1, <2>1, <2>2, Zenon DEF IInv, TypeOK
<1>9. OpsOK'
  <2>1. \A d \in Client : OpOK(d)'
    BY <1>1, OtherClient, Zenon DEF IInv
  <2>2. cnt[c][h][u] = 0
    BY <1>0, OpIdle, Zenon DEF Release, IInv, OpsOK, OpOK
  <2>3. \A g \in HwCtx, w \in CU : cnt'[c][g][w] > 0 => mode'[c][g][w] # "none"
    BY <1>1, <2>2 DEF IInv, OpsOK
  <2>4. ASSUME NEW d \in Client, NEW g \in HwCtx, NEW w \in CU
        PROVE  cnt'[d][g][w] > 0 => mode'[d][g][w] # "none"
    <3>1. CASE d = c
      BY <2>3, <3>1, Zenon
    <3>2. CASE d # c
      <4>1. RowsSame(d)
        BY <1>1, <3>2, ZenonT(60)
      <4> QED
        BY <4>1, OtherClient, ZenonT(60) DEF IInv
    <3> QED
      BY <3>1, <3>2, Zenon
  <2> QED
    BY <2>1, <2>4, Zenon DEF OpsOK
<1>10. CountsOK'
  <2>1. \A w \in CU : Cardinality(Sharers(w))' <= share'[w]
    <3>1. \A w \in CU : Cardinality(Sharers(w)) <= share[w]
      BY ZenonT(60) DEF IInv, CountsOK
    <3>2. \A w \in CU \ {u} : share'[w] = share[w]
      BY <1>6, ZenonT(60)
    <3>3. Cardinality(Sharers(u))' <= share'[u]
      BY <1>7, ZenonT(60)
    <3> QED
      BY <1>5, <3>1, <3>2, <3>3, Zenon
  <2>2. ASSUME NEW d \in Client, NEW g \in HwCtx, NEW w \in CU, Excludes(d, g, w)'
        PROVE  exclu'[w] /\ Settled(d, w)' = 1
    <3>1. w # u
      BY <1>7, <2>2, Zenon
    <3>2. Excludes(d, g, w) /\ Settled(d, w)' = Settled(d, w) /\ exclu'[w] = exclu[w]
      BY <1>2, <1>3, <1>6, <2>2, <3>1, ZenonT(60)
    <3> QED
      BY <3>2, ExclusiveFacts, Zenon
  <2>3. ASSUME NEW d \in Client, NEW e \in Client, NEW g \in HwCtx, NEW f \in HwCtx,
               NEW w \in CU, Excludes(d, g, w)', Excludes(e, f, w)'
        PROVE  d = e
    <3>1. Excludes(d, g, w) /\ Excludes(e, f, w)
      BY <1>3, <2>3, Zenon
    <3> QED
      BY <3>1, ExclusiveFacts, Zenon
  <2>4. \A w \in CU : exclu'[w] => share'[w] = 0
    BY <1>6, Zenon DEF IInv, CountsOK
  <2> QED
    BY <1>4, <2>1, <2>2, <2>3, <2>4, Zenon DEF CountsOK
<1> QED
  BY <1>8, <1>9, <1>10, Zenon DEF IInv

\* An exit forgets the counts of a client that has no context left.
LEMMA ExitDoneStep ==
    ASSUME IInv, NEW c \in Client, ExitDone(c)
    PROVE  IInv'
<1>0. op[c] = NoOp /\ op[c].at = "idle"
  BY OpIdle, Zenon DEF ExitDone, IInv
<1>1. /\ mode' = mode /\ cnt' = cnt /\ share' = share /\ exclu' = exclu
      /\ op' = op
      /\ \A u \in CU : refs'[c][u] = 0
      /\ \A d \in Client \ {c} : RowsSame(d)
  BY Zenon DEF ExitDone, IInv, TypeOK, RowsSame
<1>2. TypeOK'
  BY <1>1, Zenon DEF ExitDone, IInv, TypeOK
<1>3. \A h \in HwCtx, u \in CU : ~Active(c, h, u) /\ ~Active(c, h, u)'
  BY <1>0, <1>1, Zenon DEF ExitDone, IInv, OpsOK, Active
<1>4. \A d \in Client, u \in CU :
         /\ Settled(d, u) \in Nat
         /\ Settled(d, u)' = IF d = c THEN 0 ELSE Settled(d, u)
  <2>1. \A u \in CU : Settled(c, u)' = 0
    BY <1>0, <1>1, Zenon DEF Settled
  <2> QED
    BY <1>1, <2>1, OtherClient, SettledNat, Zenon DEF IInv
<1>5. \A d \in Client, h \in HwCtx, u \in CU :
         /\ Active(d, h, u)' <=> Active(d, h, u)
         /\ Excludes(d, h, u)' <=> Excludes(d, h, u)
         /\ Excludes(d, h, u) => d # c
  BY <1>1, <1>3, OtherClient, Zenon DEF IInv, Excludes
<1>6. OpsOK'
  <2>1. OpOK(c)'
    BY <1>0, <1>1, Zenon DEF OpOK
  <2>2. \A d \in Client : OpOK(d)'
    BY <1>1, <2>1, OtherClient, Zenon DEF IInv
  <2> QED
    BY <1>1, <2>2, Zenon DEF IInv, OpsOK
<1>7. ASSUME NEW d \in Client, NEW u \in CU
      PROVE  Cardinality(ActiveCtx(d, u))' <= Settled(d, u)'
  <2>1. ActiveCtx(d, u)' = ActiveCtx(d, u)
    BY <1>5, Zenon DEF ActiveCtx
  <2>2. CASE d = c
    <3>1. ActiveCtx(d, u) = {}
      BY <1>3, <2>2, Zenon DEF ActiveCtx
    <3> QED
      BY <1>4, <2>1, <2>2, <3>1, FS_EmptySet
  <2>3. CASE d # c
    BY <1>4, <2>1, <2>3, Zenon DEF IInv, CountsOK
  <2> QED
    BY <2>2, <2>3, Zenon
<1>8. ASSUME NEW u \in CU
      PROVE  Cardinality(Sharers(u))' <= share'[u]
  <2>1. Sharers(u)' = Sharers(u) \ {c}
    BY <1>4, <1>5 DEF Sharers
  <2>2. /\ Cardinality(Sharers(u) \ {c}) <= Cardinality(Sharers(u))
        /\ Cardinality(Sharers(u) \ {c}) \in Nat /\ Cardinality(Sharers(u)) \in Nat
    <3>1. IsFiniteSet(Sharers(u))
      BY FiniteSets, Zenon
    <3>2. IsFiniteSet(Sharers(u) \ {c}) /\ Sharers(u) \ {c} \subseteq Sharers(u)
      BY <3>1, CardDel, Zenon
    <3> QED
      BY <3>1, <3>2, FS_Subset, FS_CardinalityType, Zenon
  <2>3. Cardinality(Sharers(u)) <= share[u] /\ share[u] \in Nat
    BY Zenon DEF IInv, CountsOK, TypeOK
  <2> QED
    BY <1>1, <2>1, <2>2, <2>3
<1>9. CountsOK'
  <2>1. ASSUME NEW d \in Client, NEW h \in HwCtx, NEW u \in CU, Excludes(d, h, u)'
        PROVE  exclu'[u] /\ Settled(d, u)' = 1
    <3>1. Excludes(d, h, u) /\ Settled(d, u)' = Settled(d, u)
      BY <1>4, <1>5, <2>1, Zenon
    <3> QED
      BY <1>1, <3>1, ExclusiveFacts, Zenon
  <2>2. ASSUME NEW d \in Client, NEW e \in Client, NEW h \in HwCtx, NEW g \in HwCtx,
               NEW u \in CU, Excludes(d, h, u)', Excludes(e, g, u)'
        PROVE  d = e
    <3>1. Excludes(d, h, u) /\ Excludes(e, g, u)
      BY <1>5, <2>2, Zenon
    <3> QED
      BY <3>1, ExclusiveFacts, Zenon
  <2>3. \A u \in CU : exclu'[u] => share'[u] = 0
    BY <1>1, Zenon DEF IInv, CountsOK
  <2> QED
    BY <1>7, <1>8, <2>1, <2>2, <2>3, Zenon DEF CountsOK
<1> QED
  BY <1>2, <1>6, <1>9, Zenon DEF IInv

-----------------------------------------------------------------------------
(* The theorems. *)

\* A step that changes nothing keeps the invariant.
LEMMA StutterStep == ASSUME IInv, UNCHANGED vars PROVE IInv'
<1>1. /\ mode' = mode /\ cnt' = cnt /\ refs' = refs /\ share' = share
      /\ exclu' = exclu /\ op' = op /\ exiting' = exiting
  BY Zenon DEF vars
<1>2. TypeOK'
  BY <1>1, Zenon DEF IInv, TypeOK
<1>3. OpsOK'
  BY <1>1, ZenonT(60) DEF IInv, OpsOK, OpOK, Settled
<1>4. CountsOK'
  BY <1>1, SameView, Zenon DEF IInv, Settled, Active, Excludes
<1> QED
  BY <1>2, <1>3, <1>4, Zenon DEF IInv

\* Every step keeps the invariant.
LEMMA NextStep == IInv /\ [Next]_vars => IInv'
<1> SUFFICES ASSUME IInv, [Next]_vars PROVE IInv'
  BY Zenon
<1>1. ASSUME NEW c \in Client, NEW h \in HwCtx, NEW u \in CU,
             NEW flags \in {"shared", "exclusive"}, Open(c, h, u, flags)
      PROVE  IInv'
  BY <1>1, OpenQuiet, QuietStep, Zenon
<1>2. ASSUME NEW c \in Client, NEW h \in HwCtx, NEW u \in CU,
             CloseNested(c, h, u) \/ CloseLast(c, h, u)
      PROVE  IInv'
  BY <1>2, CloseNestedQuiet, CloseLastQuiet, QuietStep, Zenon
<1>3. ASSUME NEW c \in Client,
             Reserve(c) \/ ReserveBusy(c) \/ Undo(c) \/ Release(c)
      PROVE  IInv'
  BY <1>3, ReserveStep, ReleaseStep, ReserveBusyQuiet, UndoQuiet, QuietStep, Zenon
<1>4. ASSUME NEW c \in Client, Exit(c) \/ ExitDone(c)
      PROVE  IInv'
  BY <1>4, ExitQuiet, QuietStep, ExitDoneStep, Zenon
<1>5. CASE UNCHANGED vars
  BY <1>5, StutterStep, Zenon
<1> QED
  BY <1>1, <1>2, <1>3, <1>4, <1>5, Zenon DEF Next

\* The invariant holds throughout every behaviour.
THEOREM Inductive == Spec => []IInv
<1>1. Init => IInv
  BY InitIInv, Zenon
<1>2. IInv /\ [Next]_vars => IInv'
  BY NextStep, Zenon
<1> QED
  BY <1>1, <1>2, PTL DEF Spec

\* The state of contexts and counts keeps its type, whatever clients do: in
\* particular no close takes cu_mgmt->cu_refs or the client's count below zero.
THEOREM TypeCorrect == Spec => []TypeOK
<1>1. IInv => TypeOK
  BY Zenon DEF IInv
<1> QED
  BY <1>1, Inductive, PTL

\* Two active contexts on a CU, one of them exclusive, are the same context.
LEMMA OneOwner ==
    ASSUME IInv, NEW c \in Client, NEW d \in Client, NEW h \in HwCtx,
           NEW g \in HwCtx, NEW u \in CU, Excludes(c, h, u), Active(d, g, u)
    PROVE  c = d /\ h = g
<1>1. exclu[u] /\ Settled(c, u) = 1
  BY ZenonT(60) DEF IInv, CountsOK
<1>2. Sharers(u) = {}
  BY <1>1, FreeCU, Zenon DEF IInv, CountsOK
<1>3. \A e \in Client, f \in HwCtx : Excludes(e, f, u) => e = c
  BY Zenon DEF IInv, CountsOK
<1>4. c = d
  <2>1. g \in ActiveCtx(d, u)
    BY Zenon DEF ActiveCtx
  <2>2. Cardinality(ActiveCtx(d, u)) >= 1 /\ Cardinality(ActiveCtx(d, u)) \in Nat
    BY <2>1, FiniteSets, CardOne, Zenon
  <2>3. Cardinality(ActiveCtx(d, u)) <= Settled(d, u) /\ Settled(d, u) \in Nat
    BY SettledNat, Zenon DEF IInv, CountsOK
  <2>4. Settled(d, u) > 0
    BY <2>2, <2>3
  <2> QED
    BY <1>2, <1>3, <2>4, Zenon DEF Sharers
<1>5. h = g
  <2> SUFFICES ASSUME h # g PROVE FALSE
    BY Zenon
  <2>1. h \in ActiveCtx(c, u) /\ g \in ActiveCtx(c, u)
    BY <1>4, Zenon DEF ActiveCtx, Excludes
  <2>2. Cardinality(ActiveCtx(c, u)) >= 2
    BY <2>1, FiniteSets, CardTwo, Zenon
  <2>3. Cardinality(ActiveCtx(c, u)) <= 1 /\ Cardinality(ActiveCtx(c, u)) \in Nat
    BY <1>1, FiniteSets, Zenon DEF IInv, CountsOK
  <2> QED
    BY <2>2, <2>3
<1> QED
  BY <1>4, <1>5, Zenon

\* A CU held exclusively is open under no other context of any client, for any
\* number of clients, contexts and CUs and any interleaving of their ioctls.
THEOREM ExclusiveHolds == Spec => []Exclusive
<1>1. IInv => Exclusive
  BY OneOwner DEF Exclusive, Owns, Excludes, Active
<1> QED
  BY <1>1, Inductive, PTL

\* Every open CU context is counted by its client, so the last close always
\* finds a count to take.
THEOREM OpenIsCountedHolds == Spec => []OpenIsCounted
<1>1. ASSUME IInv, NEW c \in Client, NEW h \in HwCtx, NEW u \in CU,
             cnt[c][h][u] > 0
      PROVE  refs[c][u] > 0
  <2>1. h \in ActiveCtx(c, u)
    BY <1>1, Zenon DEF ActiveCtx, Active
  <2>2. Cardinality(ActiveCtx(c, u)) >= 1 /\ Cardinality(ActiveCtx(c, u)) \in Nat
    BY <2>1, FiniteSets, CardOne, Zenon
  <2>3. Cardinality(ActiveCtx(c, u)) <= Settled(c, u)
    BY <1>1, Zenon DEF IInv, CountsOK
  <2>4. Settled(c, u) \in Nat /\ refs[c][u] \in Nat
    BY <1>1, SettledNat, Zenon DEF IInv, TypeOK
  <2>5. CASE op[c].at = "release" /\ op[c].u = u
    <3>1. op[c] # NoOp
      BY <2>5 DEF NoOp
    <3>2. op[c].h # h /\ op[c].h \in HwCtx
      BY <1>1, <2>5, <3>1, OpType DEF IInv, OpsOK, OpOK
    <3>3. op[c].h \in ActiveCtx(c, u)
      BY <2>5, <3>2, Zenon DEF ActiveCtx, Active
    <3>4. Cardinality(ActiveCtx(c, u)) >= 2
      BY <2>1, <3>2, <3>3, FiniteSets, CardTwo, Zenon
    <3>5. Settled(c, u) = refs[c][u] + 1
      BY <2>5, Zenon DEF Settled
    <3> QED
      BY <2>2, <2>3, <2>4, <3>4, <3>5
  <2>6. CASE ~(op[c].at = "release" /\ op[c].u = u)
    <3>1. Settled(c, u) = refs[c][u] \/ Settled(c, u) = refs[c][u] - 1
      BY <2>6, Zenon DEF Settled
    <3> QED
      BY <2>2, <2>3, <2>4, <3>1
  <2> QED
    BY <2>5, <2>6, Zenon
<1>2. IInv => OpenIsCounted
  BY <1>1, Zenon DEF OpenIsCounted
<1> QED
  BY <1>2, Inductive, PTL

\* What kds_map_cu_addr() tests, that this client counts the CU and that some
\* client has it exclusively, implies that this client has it exclusively.
THEOREM MapOnlyByOwnerHolds == Spec => []MapOnlyByOwner
<1>1. ASSUME IInv, NEW c \in Client, NEW u \in CU, MayMap(c, u)
      PROVE  \E h \in HwCtx : Owns(c, h, u)
  <2>1. op[c].at = "idle" /\ refs[c][u] > 0 /\ exclu[u]
    BY <1>1 DEF MayMap, NoOp
  <2>2. Settled(c, u) > 0
    BY <2>1, Zenon DEF Settled
  <2>3. c \notin Sharers(u)
    BY <1>1, <2>1, FreeCU, Zenon DEF IInv, CountsOK
  <2>4. PICK h \in HwCtx : Excludes(c, h, u)
    BY <2>2, <2>3, Zenon DEF Sharers
  <2>5. Owns(c, h, u)
    BY <2>1, <2>4, Zenon DEF Excludes, Active, Owns
  <2> QED
    BY <2>5, Zenon
<1>2. IInv => MapOnlyByOwner
  BY <1>1, Zenon DEF MapOnlyByOwner
<1> QED
  BY <1>2, Inductive, PTL

-----------------------------------------------------------------------------
(* Exact counts. *)

\* An ioctl that reserves nothing has no first open under way.
LEMMA NoFirstOpen ==
    ASSUME NEW c, op[c].at \notin {"reserve", "undo"}
    PROVE  FirstOpen(c)
  BY Zenon DEF FirstOpen

\* The CUs that are not opened again are CUs.
LEMMA OnceIsCU == \A u \in Once : u \in CU /\ u \notin Reopen
  BY Zenon DEF Once

\* A client that does not move keeps its first open.
LEMMA OtherFirstOpen ==
    ASSUME NEW d \in Client, FirstOpen(d), RowsSame(d)
    PROVE  FirstOpen(d)'
  BY Zenon DEF FirstOpen, RowsSame

\* An action that changes no settled count, no active context and no count of
\* clients keeps the counts exact.
LEMMA SameExact ==
    ASSUME Exact,
           \A c \in Client : FirstOpen(c)',
           \A c \in Client, u \in CU : Settled(c, u)' = Settled(c, u),
           \A c \in Client, h \in HwCtx, u \in CU :
              Active(c, h, u)' <=> Active(c, h, u),
           \A c \in Client, h \in HwCtx, u \in CU :
              Excludes(c, h, u)' <=> Excludes(c, h, u),
           share' = share, exclu' = exclu
    PROVE  Exact'
<1>1. \A c \in Client, u \in CU : ActiveCtx(c, u)' = ActiveCtx(c, u)
  BY Zenon DEF ActiveCtx
<1>2. \A u \in CU : Sharers(u)' = Sharers(u)
  BY Zenon DEF Sharers
<1>3. \A c \in Client, u \in Once : Settled(c, u)' = Cardinality(ActiveCtx(c, u))'
  BY <1>1, OnceIsCU, Zenon DEF Exact
<1>4. \A u \in Once : share'[u] = Cardinality(Sharers(u))'
  BY <1>2, OnceIsCU, Zenon DEF Exact
<1>5. ASSUME NEW u \in Once, exclu'[u]
      PROVE  \E c \in Client, h \in HwCtx : Excludes(c, h, u)'
  <2>1. PICK c \in Client, h \in HwCtx : Excludes(c, h, u)
    BY <1>5, Zenon DEF Exact
  <2> QED
    BY <2>1, OnceIsCU, Zenon
<1> QED
  BY <1>3, <1>4, <1>5, Zenon DEF Exact

\* The actions that only begin, refuse, undo or leave an ioctl.
LEMMA QuietExact ==
    ASSUME ExactInv, NEW c \in Client, Quiet(c), FirstOpen(c)'
    PROVE  Exact'
<1>1. \A d \in Client : FirstOpen(d)'
  <2> SUFFICES ASSUME NEW d \in Client PROVE FirstOpen(d)'
    BY Zenon
  <2>1. CASE d = c
    BY <2>1, Zenon
  <2>2. CASE d # c
    BY <2>2, OtherFirstOpen, Zenon DEF Quiet, ExactInv, Exact
  <2> QED
    BY <2>1, <2>2, Zenon
<1>2. share' = share /\ exclu' = exclu
  BY Zenon DEF Quiet
<1> QED
  BY <1>1, <1>2, QuietView, SameExact, Zenon DEF ExactInv

\* An open of a context that is not open already finds its count at zero.
LEMMA OpenFirst ==
    ASSUME IInv, NEW c \in Client, NEW h \in HwCtx, NEW u \in CU,
           NEW flags \in {"shared", "exclusive"}, Open(c, h, u, flags)
    PROVE  FirstOpen(c)'
<1>1. /\ op'[c] = [at |-> "reserve", h |-> h, u |-> u, prev |-> refs[c][u]]
      /\ cnt' = cnt /\ cnt[c][h][u] \in Nat
  BY DEF Open, IInv, TypeOK
<1>2. u \in Once => mode[c][h][u] = "none"
  BY OnceIsCU, Zenon DEF Open
<1>3. u \in Once => cnt[c][h][u] = 0
  BY <1>1, <1>2 DEF IInv, OpsOK
<1> QED
  BY <1>1, <1>3 DEF FirstOpen

\* A refused reservation is still about the same open.
LEMMA ReserveBusyFirst ==
    ASSUME ExactInv, NEW c \in Client, ReserveBusy(c)
    PROVE  FirstOpen(c)'
<1>1. op[c] # NoOp /\ op[c].at = "reserve" /\ op[c] \in Ops
  BY OpIdle, OpType, Zenon DEF ReserveBusy, ExactInv, IInv
<1>2. op'[c] = [op[c] EXCEPT !.at = "undo"] /\ cnt' = cnt
  BY Zenon DEF ReserveBusy, ExactInv, IInv, TypeOK
<1>3. op'[c].h = op[c].h /\ op'[c].u = op[c].u
  BY <1>1, <1>2, Zenon DEF Ops
<1>4. FirstOpen(c)
  BY Zenon DEF ExactInv, Exact
<1> QED
  BY <1>1, <1>2, <1>3, <1>4, Zenon DEF FirstOpen

\* The actions that leave no open under way.
LEMMA IdleFirst ==
    ASSUME IInv, NEW c \in Client,
           \/ Undo(c) \/ Reserve(c) \/ Release(c) \/ Exit(c) \/ ExitDone(c)
           \/ \E h \in HwCtx, u \in CU : CloseNested(c, h, u) \/ CloseLast(c, h, u)
    PROVE  FirstOpen(c)'
<1>1. CASE Undo(c) \/ Reserve(c) \/ Release(c)
  <2>1. op' = [op EXCEPT ![c] = NoOp]
    BY <1>1, Zenon DEF Undo, Reserve, Release
  <2>2. op'[c].at = "idle"
    BY <2>1, Zenon DEF IInv, TypeOK, NoOp
  <2> QED
    BY <2>2, Zenon DEF FirstOpen
<1>2. CASE \/ Exit(c) \/ ExitDone(c)
           \/ \E h \in HwCtx, u \in CU : CloseNested(c, h, u)
  <2>1. op' = op /\ op[c] = NoOp
    BY <1>2, Zenon DEF Exit, ExitDone, CloseNested
  <2> QED
    BY <2>1 DEF FirstOpen, NoOp
<1>3. ASSUME NEW h \in HwCtx, NEW u \in CU, CloseLast(c, h, u)
      PROVE  FirstOpen(c)'
  <2>1. op'[c].at = "release"
    BY <1>3, Zenon DEF CloseLast, IInv, TypeOK
  <2> QED
    BY <2>1, Zenon DEF FirstOpen
<1> QED
  BY <1>1, <1>2, <1>3, Zenon

-----------------------------------------------------------------------------
(* Exact counts: the actions that change who uses a CU. *)

\* What is seen of all clients after a reservation of (h, u) by c.
ReserveSeen(c, h, u) ==
    /\ \A d \in Client : RowsSame(d) \/ d = c
    /\ Settled(c, u)' = Settled(c, u) + 1 /\ op[c].prev = Settled(c, u)
    /\ \A d \in Client, w \in CU :
          /\ Settled(d, w) \in Nat
          /\ d # c \/ w # u => Settled(d, w)' = Settled(d, w)
    /\ \A d \in Client, g \in HwCtx, w \in CU :
          /\ Active(d, g, w)' <=> Active(d, g, w) \/ (d = c /\ g = h /\ w = u)
          /\ Excludes(d, g, w)' <=> \/ Excludes(d, g, w)
                                    \/ /\ d = c /\ g = h /\ w = u
                                       /\ mode[c][h][u] = "exclusive"

\* It is what Reserve leaves behind.
LEMMA ReserveView ==
    ASSUME IInv, NEW c \in Client, Reserve(c),
           NEW h \in HwCtx, NEW u \in CU, h = op[c].h, u = op[c].u
    PROVE  ReserveSeen(c, h, u)
<1>s. ReserveDone(c, h, u)
  BY ReserveFacts, Zenon
<1>1. /\ \A d \in Client \ {c} : RowsSame(d)
      /\ Settled(c, u)' = Settled(c, u) + 1
      /\ op[c].prev = Settled(c, u)
      /\ \A w \in CU \ {u} : Settled(c, w)' = Settled(c, w)
      /\ \A g \in HwCtx, w \in CU :
            Active(c, g, w)' <=> Active(c, g, w) \/ (g = h /\ w = u)
      /\ mode' = mode
  BY <1>s, Zenon DEF ReserveDone
<1>2. \A d \in Client, w \in CU :
         /\ Settled(d, w) \in Nat
         /\ d # c \/ w # u => Settled(d, w)' = Settled(d, w)
  BY <1>1, OtherClient, SettledNat, Zenon DEF IInv
<1>3. \A d \in Client, g \in HwCtx, w \in CU :
         Active(d, g, w)' <=> Active(d, g, w) \/ (d = c /\ g = h /\ w = u)
  BY <1>1, OtherClient DEF IInv
<1>4. \A d \in Client, g \in HwCtx, w \in CU :
         Excludes(d, g, w)' <=> \/ Excludes(d, g, w)
                                \/ /\ d = c /\ g = h /\ w = u
                                   /\ mode[c][h][u] = "exclusive"
  BY <1>1, <1>3, Zenon DEF Excludes
<1> QED
  BY <1>1, <1>2, <1>3, <1>4, Zenon DEF ReserveSeen

\* A reservation adds one active context, and one sharer or an owner.
LEMMA ReserveExact ==
    ASSUME ExactInv, NEW c \in Client, Reserve(c)
    PROVE  Exact'
<1>i. IInv
  BY Zenon DEF ExactInv
<1>0. PICK h \in HwCtx, u \in CU : h = op[c].h /\ u = op[c].u
  BY <1>i, ReserveOp, Zenon
<1>r. Reserved(c, h, u)
  BY <1>0, ReserveIs, Zenon
<1>v. ReserveSeen(c, h, u)
  BY <1>i, <1>0, ReserveView, Zenon
<1>1. /\ \A d \in Client : RowsSame(d) \/ d = c
      /\ Settled(c, u)' = Settled(c, u) + 1 /\ op[c].prev = Settled(c, u)
      /\ \A d \in Client, w \in CU :
            /\ Settled(d, w) \in Nat
            /\ d # c \/ w # u => Settled(d, w)' = Settled(d, w)
  BY <1>v, Zenon DEF ReserveSeen
<1>2. \A d \in Client, g \in HwCtx, w \in CU :
         /\ Active(d, g, w)' <=> Active(d, g, w) \/ (d = c /\ g = h /\ w = u)
         /\ Excludes(d, g, w)' <=> \/ Excludes(d, g, w)
                                   \/ /\ d = c /\ g = h /\ w = u
                                      /\ mode[c][h][u] = "exclusive"
  BY <1>v, Zenon DEF ReserveSeen
<1>3. \A d \in Client : FirstOpen(d)'
  BY <1>i, <1>1, IdleFirst, OtherFirstOpen, Zenon DEF ExactInv, Exact
<1>4. ASSUME NEW d \in Client, NEW w \in Once
      PROVE  Settled(d, w)' = Cardinality(ActiveCtx(d, w))'
  <2>0. w \in CU /\ Settled(d, w) = Cardinality(ActiveCtx(d, w))
    BY OnceIsCU, Zenon DEF ExactInv, Exact
  <2>1. CASE d = c /\ w = u
    <3>1. ActiveCtx(c, u)' = ActiveCtx(c, u) \cup {h}
      BY <1>2, Zenon DEF ActiveCtx
    <3>2. h \notin ActiveCtx(c, u)
      <4>1. op[c].at = "reserve"
        BY <1>r, Zenon DEF Reserved
      <4>2. FirstOpen(c)
        BY Zenon DEF ExactInv, Exact
      <4>3. cnt[c][h][u] = 0
        BY <1>0, <2>1, <4>1, <4>2, Zenon DEF FirstOpen
      <4> QED
        BY <4>1, <4>3 DEF ActiveCtx, Active
    <3>3. IsFiniteSet(ActiveCtx(c, u))
      BY FiniteSets, Zenon
    <3>4. Cardinality(ActiveCtx(c, u) \cup {h}) = Cardinality(ActiveCtx(c, u)) + 1
      BY <3>2, <3>3, CardAdd, Zenon
    <3> QED
      BY <1>1, <2>0, <2>1, <3>1, <3>4, Zenon
  <2>2. CASE d # c \/ w # u
    <3>1. ActiveCtx(d, w)' = ActiveCtx(d, w)
      BY <1>2, <2>0, <2>2, Zenon DEF ActiveCtx
    <3> QED
      BY <1>1, <2>0, <2>2, <3>1, Zenon
  <2> QED
    BY <2>1, <2>2, Zenon
<1>5. ~exclu[u] /\ \A d \in Client, g \in HwCtx : ~Excludes(d, g, u)
  BY <1>i, <1>r, FreeCU, Zenon DEF Reserved
<1>6. \A w \in CU \ {u} : /\ share'[w] = share[w] /\ exclu'[w] = exclu[w]
                          /\ Sharers(w)' = Sharers(w)
  <2>1. \A w \in CU \ {u} : share'[w] = share[w] /\ exclu'[w] = exclu[w]
    BY <1>i, <1>r, Zenon DEF Reserved, IInv, TypeOK
  <2>2. \A w \in CU \ {u} : Sharers(w)' = Sharers(w)
    BY <1>1, <1>2, Zenon DEF Sharers
  <2> QED
    BY <2>1, <2>2, Zenon
<1>7. ASSUME u \in Once
      PROVE  /\ share'[u] = Cardinality(Sharers(u))'
             /\ exclu'[u] => \E d \in Client, g \in HwCtx : Excludes(d, g, u)'
  <2>0. share[u] = Cardinality(Sharers(u)) /\ IsFiniteSet(Sharers(u))
    BY <1>7, FiniteSets, Zenon DEF ExactInv, Exact
  <2>1. CASE mode[c][h][u] = "exclusive"
    <3>1. share[u] = 0 /\ share'[u] = 0 /\ Excludes(c, h, u)'
      <4>1. share[u] = 0 /\ share'[u] = 0
        BY <1>i, <1>r, <2>1, ZenonT(60) DEF Reserved, IInv, TypeOK
      <4> QED
        BY <1>2, <2>1, <4>1, Zenon
    <3>2. Sharers(u) = {}
      BY <1>i, <3>1, FreeCU, Zenon
    <3>3. \A d \in Client : Settled(d, u) = 0
      BY <1>1, <1>5, <3>2 DEF Sharers
    <3>4. Sharers(u)' = {}
      BY <1>1, <1>2, <2>1, <3>3 DEF Sharers
    <3> QED
      BY <3>1, <3>4, FS_EmptySet, Zenon
  <2>2. CASE mode[c][h][u] # "exclusive"
    <3>1. /\ ~exclu'[u]
          /\ share'[u] = IF op[c].prev = 0 THEN share[u] + 1 ELSE share[u]
      BY <1>i, <1>r, <2>2, ZenonT(60) DEF Reserved, IInv, TypeOK
    <3>2. Sharers(u)' = Sharers(u) \cup {c}
      <4>1. Settled(c, u) \in Nat /\ Settled(c, u)' = Settled(c, u) + 1
        BY <1>1, Zenon
      <4>2. Settled(c, u)' > 0
        BY <4>1
      <4>3. \A d \in Client : Settled(d, u)' > 0 <=> Settled(d, u) > 0 \/ d = c
        BY <1>1, <4>2, Zenon
      <4> QED BY <1>2, <1>5, <2>2, <4>3, Zenon DEF Sharers
    <3>3. c \in Sharers(u) <=> op[c].prev # 0
      BY <1>1, <1>5 DEF Sharers
    <3>4. Cardinality(Sharers(u) \cup {c}) = share'[u]
      BY <2>0, <3>1, <3>3, CardAdd, Zenon
    <3> QED
      BY <3>1, <3>2, <3>4, Zenon
  <2> QED
    BY <2>1, <2>2, Zenon
<1>8. ASSUME NEW w \in Once
      PROVE  /\ share'[w] = Cardinality(Sharers(w))'
             /\ exclu'[w] => \E d \in Client, g \in HwCtx : Excludes(d, g, w)'
  <2>0. /\ w \in CU /\ share[w] = Cardinality(Sharers(w))
        /\ exclu[w] => \E d \in Client, g \in HwCtx : Excludes(d, g, w)
    BY OnceIsCU, Zenon DEF ExactInv, Exact
  <2>1. CASE w = u
    BY <1>7, <2>1, Zenon
  <2>2. CASE w # u
    BY <1>2, <1>6, <2>0, <2>2, Zenon
  <2> QED
    BY <2>1, <2>2, Zenon
<1> QED
  BY <1>3, <1>4, <1>8, Zenon DEF Exact

\* A release ends one active context, and takes a sharer or the owner away.
LEMMA ReleaseExact ==
    ASSUME ExactInv, NEW c \in Client, Release(c)
    PROVE  Exact'
<1>i. IInv
  BY Zenon DEF ExactInv
<1>0. PICK h \in HwCtx, u \in CU : h = op[c].h /\ u = op[c].u
  BY <1>i, OpIdle, OpType, Zenon DEF Release, IInv
<1>s. ReleaseSeen(c, h, u)
  BY <1>i, <1>0, ReleaseFacts, Zenon
<1>1. /\ \A d \in Client \ {c} : RowsSame(d)
      /\ Settled(c, u) >= 1 /\ Settled(c, u)' = Settled(c, u) - 1
      /\ op[c].prev = Settled(c, u)
      /\ \A w \in CU \ {u} : Settled(c, w)' = Settled(c, w)
      /\ Active(c, h, u)
      /\ \A g \in HwCtx, w \in CU :
            Active(c, g, w)' <=> Active(c, g, w) /\ ~(g = h /\ w = u)
      /\ \A g \in HwCtx, w \in CU :
            g # h \/ w # u => mode'[c][g][w] = mode[c][g][w]
  BY <1>s, Zenon DEF ReleaseSeen
<1>2. \A d \in Client, w \in CU :
         /\ Settled(d, w) \in Nat
         /\ d # c \/ w # u => Settled(d, w)' = Settled(d, w)
  BY <1>i, <1>1, OtherClient, SettledNat, Zenon DEF IInv
<1>3. \A d \in Client, g \in HwCtx, w \in CU :
         /\ Active(d, g, w)' <=> Active(d, g, w) /\ ~(d = c /\ g = h /\ w = u)
         /\ Excludes(d, g, w)' <=> Excludes(d, g, w) /\ ~(d = c /\ g = h /\ w = u)
  <2>1. \A g \in HwCtx, w \in CU :
           Excludes(c, g, w)' <=> Excludes(c, g, w) /\ ~(g = h /\ w = u)
    BY <1>1, Zenon DEF Excludes
  <2>2. \A d \in Client \ {c} : \A g \in HwCtx, w \in CU :
           /\ Active(d, g, w)' <=> Active(d, g, w)
           /\ Excludes(d, g, w)' <=> Excludes(d, g, w)
    BY <1>i, <1>1, OtherClient, Zenon DEF IInv
  <2> QED
    BY <1>1, <2>1, <2>2, Zenon
<1>4. \A d \in Client : FirstOpen(d)'
  BY <1>i, <1>1, IdleFirst, OtherFirstOpen, Zenon DEF ExactInv, Exact
<1>5. ASSUME NEW d \in Client, NEW w \in Once
      PROVE  Settled(d, w)' = Cardinality(ActiveCtx(d, w))'
  <2>0. w \in CU /\ Settled(d, w) = Cardinality(ActiveCtx(d, w))
    BY OnceIsCU, Zenon DEF ExactInv, Exact
  <2>1. CASE d = c /\ w = u
    <3>1. ActiveCtx(c, u)' = ActiveCtx(c, u) \ {h} /\ h \in ActiveCtx(c, u)
      BY <1>1, <1>3, Zenon DEF ActiveCtx
    <3>2. Cardinality(ActiveCtx(c, u) \ {h}) = Cardinality(ActiveCtx(c, u)) - 1
      BY <3>1, FiniteSets, CardDel, Zenon
    <3> QED
      BY <1>1, <2>0, <2>1, <3>1, <3>2, Zenon
  <2>2. CASE d # c \/ w # u
    <3>1. ActiveCtx(d, w)' = ActiveCtx(d, w)
      BY <1>3, <2>0, <2>2, Zenon DEF ActiveCtx
    <3> QED
      BY <1>2, <2>0, <2>2, <3>1, Zenon
  <2> QED
    BY <2>1, <2>2, Zenon
<1>6. /\ \A w \in CU \ {u} : share'[w] = share[w] /\ exclu'[w] = exclu[w]
      /\ ~exclu'[u]
      /\ share'[u] = IF exclu[u] THEN 0
                     ELSE IF op[c].prev = 1 THEN share[u] - 1 ELSE share[u]
  BY <1>i, <1>0, ZenonT(60) DEF Release, IInv, TypeOK
<1>7. \A w \in CU \ {u} : Sharers(w)' = Sharers(w)
  BY <1>2, <1>3, Zenon DEF Sharers
<1>8. ASSUME u \in Once
      PROVE  share'[u] = Cardinality(Sharers(u))'
  <2>0. /\ share[u] = Cardinality(Sharers(u)) /\ IsFiniteSet(Sharers(u))
        /\ Cardinality(Sharers(u)) \in Nat
    BY <1>8, FiniteSets, Zenon DEF ExactInv, Exact
  <2>1. CASE exclu[u]
    <3>1. Sharers(u) = {}
      BY <1>i, <2>1, FreeCU, Zenon DEF IInv, CountsOK
    <3>2. \A d \in Client : Settled(d, u)' = 0
      <4>1. PICK e \in Client, g \in HwCtx : Excludes(e, g, u)
        BY <1>8, <2>1, Zenon DEF ExactInv, Exact
      <4>2. Settled(e, u) = 1 /\ \A d \in Client, f \in HwCtx : Excludes(d, f, u) => d = e
        BY <1>i, <4>1, ExclusiveFacts, Zenon
      <4>3. \A d \in Client : d # e => Settled(d, u) = 0
        BY <1>2, <3>1, <4>2 DEF Sharers
      <4>4. e = c
        BY <1>1, <4>3
      <4>5. Settled(c, u)' = 0
        <5>1. Settled(c, u) = 1 /\ Settled(c, u)' = Settled(c, u) - 1
          BY <1>1, <4>2, <4>4, Zenon
        <5> QED BY <5>1
      <4>6. \A d \in Client : d # c => Settled(d, u)' = 0
        BY <1>2, <4>3, <4>4, Zenon
      <4> QED
        BY <4>5, <4>6, Zenon
    <3>3. Sharers(u)' = {}
      BY <3>2 DEF Sharers
    <3> QED
      BY <1>6, <2>1, <3>3, FS_EmptySet, Zenon
  <2>2. CASE ~exclu[u]
    <3>1. \A d \in Client, g \in HwCtx : ~Excludes(d, g, u) /\ ~Excludes(d, g, u)'
      BY <1>i, <1>3, <2>2, FreeCU, Zenon
    <3>2. Settled(c, u) > 0
      BY <1>1, <1>2
    <3>3. c \in Sharers(u)
      BY <3>1, <3>2, Zenon DEF Sharers
    <3>4. CASE op[c].prev = 1
      <4>1. Sharers(u)' = Sharers(u) \ {c}
        <5>0. Settled(c, u)' = Settled(c, u) - 1 /\ op[c].prev = Settled(c, u)
          BY <1>1, Zenon
        <5>1. Settled(c, u)' = 0
          BY <3>4, <5>0
        <5>2. ~(Settled(c, u)' > 0)
          BY <5>1
        <5>3. \A d \in Client : Settled(d, u)' > 0 <=> Settled(d, u) > 0 /\ d # c
          BY <1>2, <5>2, Zenon
        <5> QED
          BY <3>1, <5>3, Zenon DEF Sharers
      <4>2. Cardinality(Sharers(u) \ {c}) = Cardinality(Sharers(u)) - 1
        BY <2>0, <3>3, CardDel, Zenon
      <4> QED
        BY <1>6, <2>0, <2>2, <3>4, <4>1, <4>2, Zenon
    <3>5. CASE op[c].prev # 1
      <4>1. Settled(c, u)' > 0
        <5>1. /\ Settled(c, u) \in Nat /\ Settled(c, u) # 1 /\ Settled(c, u) >= 1
              /\ Settled(c, u)' = Settled(c, u) - 1
          BY <1>1, <1>2, <3>5, Zenon
        <5> QED BY <5>1
      <4>2. \A d \in Client : Settled(d, u)' > 0 <=> Settled(d, u) > 0
        BY <1>2, <3>2, <4>1, Zenon
      <4>3. Sharers(u)' = Sharers(u)
        BY <3>1, <4>2, Zenon DEF Sharers
      <4> QED
        BY <1>6, <2>0, <2>2, <3>5, <4>3, Zenon
    <3> QED
      BY <3>4, <3>5, Zenon
  <2> QED
    BY <2>1, <2>2, Zenon
<1>9. ASSUME NEW w \in Once
      PROVE  /\ share'[w] = Cardinality(Sharers(w))'
             /\ exclu'[w] => \E d \in Client, g \in HwCtx : Excludes(d, g, w)'
  <2>0. /\ w \in CU /\ share[w] = Cardinality(Sharers(w))
        /\ exclu[w] => \E d \in Client, g \in HwCtx : Excludes(d, g, w)
    BY OnceIsCU, Zenon DEF ExactInv, Exact
  <2>1. CASE w = u
    BY <1>6, <1>8, <2>1, Zenon
  <2>2. CASE w # u
    BY <1>3, <1>6, <1>7, <2>0, <2>2, Zenon
  <2> QED
    BY <2>1, <2>2, Zenon
<1> QED
  BY <1>4, <1>5, <1>9, Zenon DEF Exact

\* An exit forgets counts that are zero already.
LEMMA ExitDoneExact ==
    ASSUME ExactInv, NEW c \in Client, ExitDone(c)
    PROVE  Exact'
<1>i. IInv
  BY Zenon DEF ExactInv
<1>0. op[c] = NoOp /\ op[c].at = "idle"
  BY <1>i, OpIdle, Zenon DEF ExitDone, IInv
<1>1. /\ mode' = mode /\ cnt' = cnt /\ share' = share /\ exclu' = exclu /\ op' = op
      /\ \A u \in CU : refs'[c][u] = 0
      /\ \A d \in Client \ {c} : RowsSame(d)
  BY <1>i, Zenon DEF ExitDone, IInv, TypeOK, RowsSame
<1>2. \A h \in HwCtx, u \in CU : ~Active(c, h, u) /\ ~Active(c, h, u)'
  BY <1>i, <1>0, <1>1, Zenon DEF ExitDone, IInv, OpsOK, Active
<1>3. \A d \in Client, h \in HwCtx, u \in CU :
         /\ Active(d, h, u)' <=> Active(d, h, u)
         /\ Excludes(d, h, u)' <=> Excludes(d, h, u)
  BY <1>i, <1>1, <1>2, OtherClient, Zenon DEF IInv, Excludes
<1>4. \A d \in Client, u \in Once : Settled(d, u)' = Settled(d, u)
  <2>1. ASSUME NEW u \in Once PROVE Settled(c, u)' = Settled(c, u)
    <3>1. ActiveCtx(c, u) = {}
      BY <1>2, OnceIsCU, Zenon DEF ActiveCtx
    <3>2. Settled(c, u) = 0
      BY <3>1, FS_EmptySet, Zenon DEF ExactInv, Exact
    <3> QED
      BY <1>0, <1>1, <3>2, OnceIsCU, Zenon DEF Settled
  <2> QED
    BY <1>i, <1>1, <2>1, OnceIsCU, OtherClient, Zenon DEF IInv
<1>x. /\ \A d \in Client : FirstOpen(d)
      /\ \A d \in Client, u \in Once : Settled(d, u) = Cardinality(ActiveCtx(d, u))
      /\ \A u \in Once : share[u] = Cardinality(Sharers(u))
      /\ \A u \in Once :
            exclu[u] => \E d \in Client, h \in HwCtx : Excludes(d, h, u)
  BY ZenonT(60) DEF ExactInv, Exact
<1>5. \A d \in Client : FirstOpen(d)'
  BY <1>i, <1>1, <1>x, IdleFirst, OtherFirstOpen, Zenon
<1>6. \A d \in Client, u \in Once : ActiveCtx(d, u)' = ActiveCtx(d, u)
  BY <1>3, OnceIsCU, Zenon DEF ActiveCtx
<1>7. \A u \in Once : Sharers(u)' = Sharers(u)
  BY <1>3, <1>4, OnceIsCU, Zenon DEF Sharers
<1>8. \A d \in Client, u \in Once : Settled(d, u)' = Cardinality(ActiveCtx(d, u))'
  BY <1>4, <1>6, <1>x, Zenon
<1>9. \A u \in Once : share'[u] = Cardinality(Sharers(u))'
  BY <1>1, <1>7, <1>x, Zenon
<1>10. ASSUME NEW u \in Once, exclu'[u]
       PROVE  \E d \in Client, h \in HwCtx : Excludes(d, h, u)'
  <2>1. u \in CU /\ exclu[u]
    BY <1>1, <1>10, OnceIsCU, Zenon
  <2>2. PICK d \in Client, h \in HwCtx : Excludes(d, h, u)
    BY <1>x, <2>1, ZenonT(60)
  <2> QED
    BY <1>3, <2>1, <2>2, ZenonT(60)
<1> QED
  BY <1>5, <1>8, <1>9, <1>10, ZenonT(60) DEF Exact

-----------------------------------------------------------------------------
(* Exact counts: the theorems. *)

\* No context is open at first.
LEMMA InitExact == Init => Exact
<1> SUFFICES ASSUME Init PROVE Exact
  BY Zenon
<1>1. \A c \in Client : FirstOpen(c)
  BY Zenon DEF Init, NoOp, FirstOpen
<1>2. \A c \in Client, u \in CU : Settled(c, u) = 0
  BY Zenon DEF Init, Settled, NoOp
<1>3. \A c \in Client, u \in CU : ActiveCtx(c, u) = {}
  BY DEF Init, Active, NoOp, ActiveCtx
<1>4. \A u \in CU : Sharers(u) = {} /\ share[u] = 0 /\ ~exclu[u]
  BY <1>2 DEF Init, Sharers
<1>5. \A c \in Client, u \in Once : Settled(c, u) = Cardinality(ActiveCtx(c, u))
  BY <1>2, <1>3, OnceIsCU, FS_EmptySet, Zenon
<1>6. \A u \in Once : share[u] = Cardinality(Sharers(u)) /\ ~exclu[u]
  BY <1>4, OnceIsCU, FS_EmptySet, Zenon
<1> QED
  BY <1>1, <1>5, <1>6, Zenon DEF Exact

\* A step that changes nothing keeps the counts exact.
LEMMA StutterExact == ASSUME ExactInv, UNCHANGED vars PROVE Exact'
<1>1. /\ mode' = mode /\ cnt' = cnt /\ refs' = refs /\ share' = share
      /\ exclu' = exclu /\ op' = op
  BY Zenon DEF vars
<1>2. \A c \in Client : RowsSame(c)
  BY <1>1, Zenon DEF RowsSame
<1>3. \A c \in Client : FirstOpen(c)'
  BY <1>2, OtherFirstOpen, Zenon DEF ExactInv, Exact
<1>4. \A c \in Client :
         /\ \A u \in CU : Settled(c, u)' = Settled(c, u)
         /\ \A h \in HwCtx, u \in CU :
               /\ Active(c, h, u)' <=> Active(c, h, u)
               /\ Excludes(c, h, u)' <=> Excludes(c, h, u)
  BY <1>2, OtherClient, Zenon DEF ExactInv, IInv
<1> QED
  BY <1>1, <1>3, <1>4, SameExact, Zenon DEF ExactInv

\* Every step keeps the counts exact.
LEMMA NextExact == ExactInv /\ [Next]_vars => Exact'
<1> SUFFICES ASSUME ExactInv, [Next]_vars PROVE Exact'
  BY Zenon
<1>i. IInv
  BY Zenon DEF ExactInv
<1>1. ASSUME NEW c \in Client, NEW h \in HwCtx, NEW u \in CU,
             NEW flags \in {"shared", "exclusive"}, Open(c, h, u, flags)
      PROVE  Exact'
  BY <1>i, <1>1, OpenQuiet, OpenFirst, QuietExact, Zenon
<1>2. ASSUME NEW c \in Client, NEW h \in HwCtx, NEW u \in CU,
             CloseNested(c, h, u) \/ CloseLast(c, h, u)
      PROVE  Exact'
  <2>1. FirstOpen(c)'
    BY <1>i, <1>2, IdleFirst, Zenon
  <2> QED
    BY <1>i, <1>2, <2>1, CloseNestedQuiet, CloseLastQuiet, QuietExact, Zenon
<1>3. ASSUME NEW c \in Client, Undo(c) \/ Exit(c)
      PROVE  Exact'
  <2>1. FirstOpen(c)'
    BY <1>i, <1>3, IdleFirst, Zenon
  <2> QED
    BY <1>i, <1>3, <2>1, UndoQuiet, ExitQuiet, QuietExact, Zenon
<1>4. ASSUME NEW c \in Client, ReserveBusy(c)
      PROVE  Exact'
  BY <1>i, <1>4, ReserveBusyQuiet, ReserveBusyFirst, QuietExact, Zenon
<1>5. ASSUME NEW c \in Client, Reserve(c) \/ Release(c) \/ ExitDone(c)
      PROVE  Exact'
  BY <1>5, ReserveExact, ReleaseExact, ExitDoneExact, Zenon
<1>6. CASE UNCHANGED vars
  BY <1>6, StutterExact, Zenon
<1> QED
  BY <1>1, <1>2, <1>3, <1>4, <1>5, <1>6, Zenon DEF Next

\* The counts of kds_core.c are exact throughout every behaviour, on the CUs whose
\* contexts are opened once.
THEOREM CountsAreExact == Spec => []ExactInv
<1>1. Init => ExactInv
  BY InitIInv, InitExact, Zenon DEF ExactInv
<1>2. ExactInv /\ [Next]_vars => ExactInv'
  <2>1. ExactInv /\ [Next]_vars => IInv'
    BY NextStep, Zenon DEF ExactInv
  <2> QED
    BY <2>1, NextExact, Zenon DEF ExactInv
<1> QED
  BY <1>1, <1>2, PTL DEF Spec

\* Once nobody has a CU open, or is about to open or close it, it is free, after any
\* history of opens, refused opens, closes and exits of any number of clients.
THEOREM NothingLeaksHolds == Spec => []NothingLeaks
<1>1. ASSUME ExactInv, NEW u \in Once, Unused(u)
      PROVE  Free(u)
  <2>0. /\ u \in CU
        /\ \A c \in Client : op[c] = NoOp \/ op[c].u # u
        /\ \A c \in Client, h \in HwCtx : mode[c][h][u] = "none"
    BY <1>1, OnceIsCU, Zenon DEF Unused
  <2>1. \A c \in Client : op[c].at = "idle" \/ op[c].u # u
    BY <2>0 DEF NoOp
  <2>2. \A c \in Client, h \in HwCtx : ~Active(c, h, u)
    BY <1>1, <2>0, <2>1, Zenon DEF ExactInv, IInv, OpsOK, Active
  <2>3. \A c \in Client : ActiveCtx(c, u) = {}
    BY <2>2, Zenon DEF ActiveCtx
  <2>4. \A c \in Client : Settled(c, u) = 0
    BY <1>1, <2>3, FS_EmptySet, Zenon DEF ExactInv, Exact
  <2>5. \A c \in Client : refs[c][u] = 0
    BY <2>1, <2>4, Zenon DEF Settled
  <2>6. Sharers(u) = {}
    BY <2>4 DEF Sharers
  <2>7. share[u] = 0
    BY <1>1, <2>6, FS_EmptySet, Zenon DEF ExactInv, Exact
  <2>8. ~exclu[u]
    BY <1>1, <2>2, Zenon DEF ExactInv, Exact, Excludes
  <2> QED
    BY <2>5, <2>7, <2>8, Zenon DEF Free
<1>2. ExactInv => NothingLeaks
  BY <1>1, Zenon DEF NothingLeaks, Once
<1> QED
  BY <1>2, CountsAreExact, PTL
=============================================================================
