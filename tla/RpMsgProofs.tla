---------------------------- MODULE RpMsgProofs ----------------------------
(***************************************************************************)
(* Proofs about RPMsg for any number of buffers, sending contexts,         *)
(* addresses and endpoint structures.                                      *)
(***************************************************************************)
EXTENDS RpMsg, TLAPS, SequenceTheorems, FiniteSetTheorems, WellFoundedInduction

-----------------------------------------------------------------------------
(* The sequences of the channel.                                           *)

Places(s) == 1 .. Len(s)
Distinct(s) == \A i, j \in Places(s) : s[i] = s[j] => i = j

\* Taking the head leaves the other elements, one place earlier.
LEMMA TakeHead ==
    ASSUME NEW S, NEW s \in Seq(S), s # <<>>
    PROVE  /\ Head(s) = s[1] /\ Head(s) \in S /\ 1 \in Places(s)
           /\ Tail(s) \in Seq(S)
           /\ \A i \in Places(Tail(s)) : i + 1 \in Places(s) /\ Tail(s)[i] = s[i + 1]
BY DEF Places

\* Appending adds one element at the end.
LEMMA AddLast ==
    ASSUME NEW S, NEW s \in Seq(S), NEW e \in S
    PROVE  /\ Append(s, e) \in Seq(S)
           /\ \A i \in Places(Append(s, e)) :
                \/ i \in Places(s) /\ Append(s, e)[i] = s[i]
                \/ i = Len(s) + 1 /\ Append(s, e)[i] = e
BY DEF Places

-----------------------------------------------------------------------------
(* The endpoint list.                                                      *)

\* A set of numbers has a least one: the induction over the links of the list.
LEMMA LeastNumber ==
    ASSUME NEW T, T \subseteq Nat, T # {}
    PROVE  \E x \in T : \A y \in T : x <= y
<1>1. PICK x \in T : \A y \in T : ~(<<y, x>> \in OpToRel(<, Nat))
  BY NatLessThanWellFounded, WFMin, Zenon
<1>2. \A y \in T : ~(y < x)
  BY <1>1, Zenon DEF OpToRel
<1> QED BY <1>2

\* The structures on the list in the order of their links: none occurs twice,
\* and the last one ends the list.
Chain(L) ==
    /\ Distinct(L)
    /\ head = IF Len(L) = 0 THEN Null ELSE L[1]
    /\ \A i \in Places(L) : ept[L[i]].next = IF i = Len(L) THEN Null ELSE L[i + 1]

\* An address is given to one endpoint.
AddrOnce(L) == \A i, j \in Places(L) : ept[L[i]].addr = ept[L[j]].addr => i = j

ListInv == \E L \in Seq(Ctx) : Chain(L) /\ AddrOnce(L)

\* There are no more structures on the list than the application provides.
LEMMA ChainShort ==
    ASSUME NEW L \in Seq(Ctx), Distinct(L)
    PROVE  Len(L) \in Nat /\ Cardinality(Ctx) \in Nat /\ Len(L) <= Cardinality(Ctx)
<1>1. Len(L) \in Nat /\ L \in [Places(L) -> Ctx]
  BY DEF Places
<1>2. Cardinality(Ctx) \in Nat
  BY CtxAssumption, FS_CardinalityType
<1>3. IsFiniteSet(Places(L)) /\ Cardinality(Places(L)) = Len(L)
  BY <1>1, FS_Interval DEF Places
<1>4. ~(Cardinality(Ctx) < Cardinality(Places(L)))
  <2> SUFFICES ASSUME Cardinality(Ctx) < Cardinality(Places(L)) PROVE FALSE
    OBVIOUS
  <2>1. \E i, j \in Places(L) : i # j /\ L[i] = L[j]
    BY <1>1, <1>3, CtxAssumption, FS_PigeonHole, Zenon
  <2> QED BY <2>1 DEF Distinct
<1> QED BY <1>1, <1>2, <1>3, <1>4

\* Following next_ept from the head of the list meets its structures one by
\* one, and nothing else.
LEMMA WalkChain ==
    ASSUME NEW L \in Seq(Ctx), Chain(L)
    PROVE  \A k \in 0 .. Cardinality(Ctx) : Walk[k] = IF k < Len(L) THEN L[k + 1] ELSE Null
<1> DEFINE C == 0 .. Cardinality(Ctx)
           g == [k \in C |-> IF k < Len(L) THEN L[k + 1] ELSE Null]
           F(f) == [n \in C |-> IF n = 0 THEN head
                                ELSE IF f[n - 1] = Null THEN Null ELSE ept[f[n - 1]].next]
<1>1. Len(L) \in Nat /\ Cardinality(Ctx) \in Nat /\ Len(L) <= Cardinality(Ctx)
  BY ChainShort DEF Chain
<1>2. \A i \in Places(L) : L[i] \in Ctx /\ L[i] # Null
  BY NullAssumption DEF Places
<1>3. g = F(g)
  <2>1. ASSUME NEW k \in C PROVE g[k] = F(g)[k]
    <3>1. CASE k = 0
      BY <1>1, <3>1 DEF Chain
    <3>2. CASE k # 0 /\ k - 1 < Len(L)
      <4>1. k - 1 \in C /\ k \in Places(L) /\ g[k - 1] = L[k]
        BY <1>1, <3>2 DEF Places
      <4>2. F(g)[k] = ept[L[k]].next
        BY <1>2, <3>2, <4>1
      <4> QED BY <1>1, <3>2, <4>1, <4>2 DEF Chain
    <3>3. CASE k # 0 /\ ~(k - 1 < Len(L))
      <4>1. k - 1 \in C /\ g[k - 1] = Null /\ ~(k < Len(L))
        BY <1>1, <3>3
      <4> QED BY <3>3, <4>1
    <3> QED BY <3>1, <3>2, <3>3
  <2> QED BY <2>1
<1>4. Walk = F(Walk)
  <2>1. Walk = CHOOSE f : f = F(f)
    BY DEF Walk
  <2> QED BY <1>3, <2>1, Zenon
<1>5. Walk = g
  <2> DEFINE T == {k \in C : Walk[k] # g[k]}
  <2>1. SUFFICES ASSUME T # {} PROVE FALSE
    BY <1>4
  <2>2. T \subseteq Nat
    BY <1>1
  <2>3. PICK k \in T : \A y \in T : k <= y
    BY <2>1, <2>2, LeastNumber, Zenon
  <2>4. k \in C /\ Walk[k] = F(Walk)[k] /\ g[k] = F(g)[k] /\ Walk[k] # g[k]
    BY <1>3, <1>4, <2>3, Zenon
  <2>5. k # 0
    BY <2>4
  <2>6. k - 1 \in C /\ k - 1 \notin T
    BY <1>1, <2>3, <2>4, <2>5
  <2>7. Walk[k - 1] = g[k - 1]
    BY <2>6
  <2> QED BY <2>4, <2>5, <2>7
<1> QED BY <1>5

\* What is on the list is on the chain.
LEMMA ListedChain ==
    ASSUME NEW L \in Seq(Ctx), Chain(L)
    PROVE  /\ Listed = {L[i] : i \in Places(L)}
           /\ Walk[Cardinality(Ctx)] = Null
           /\ Listed \subseteq Ctx
<1>1. Len(L) \in Nat /\ Cardinality(Ctx) \in Nat /\ Len(L) <= Cardinality(Ctx)
  BY ChainShort DEF Chain
<1>2. \A i \in Places(L) : L[i] \in Ctx /\ L[i] # Null
  BY NullAssumption DEF Places
<1>3. \A k \in 0 .. Cardinality(Ctx) : Walk[k] = IF k < Len(L) THEN L[k + 1] ELSE Null
  BY WalkChain
<1>4. ASSUME NEW x \in Listed PROVE \E i \in Places(L) : x = L[i]
  <2>1. PICK k \in 0 .. Cardinality(Ctx) : x = Walk[k] /\ x # Null
    BY DEF Listed
  <2>2. k < Len(L) /\ x = L[k + 1]
    BY <1>3, <2>1
  <2>3. k + 1 \in Places(L)
    BY <1>1, <2>2 DEF Places
  <2> QED BY <2>2, <2>3
<1>5. ASSUME NEW i \in Places(L) PROVE L[i] \in Listed
  <2>1. i - 1 \in 0 .. Cardinality(Ctx) /\ i - 1 < Len(L) /\ (i - 1) + 1 = i
    BY <1>1 DEF Places
  <2>2. Walk[i - 1] = L[i]
    BY <1>3, <2>1
  <2> QED BY <1>2, <2>1, <2>2 DEF Listed
<1>6. Walk[Cardinality(Ctx)] = Null
  BY <1>1, <1>3
<1> QED BY <1>2, <1>4, <1>5, <1>6

\* create_endpoint puts a structure that is not on the list in front of it,
\* with an address that no endpoint has.
LEMMA CreateKeepsList ==
    ASSUME TypeOK, ListInv, NEW x \in Ctx, NEW a \in Addr, NEW cb \in Callback,
           CreateEndpoint(x, a, cb)
    PROVE  ListInv'
<1>1. PICK L \in Seq(Ctx) : Chain(L) /\ AddrOnce(L)
  BY DEF ListInv
<1> DEFINE n == Len(L)
           M == [i \in 1 .. n + 1 |-> IF i = 1 THEN x ELSE L[i - 1]]
<1>2. n \in Nat /\ \A i \in Places(L) : L[i] \in Ctx
  BY DEF Places
<1>3. M \in Seq(Ctx) /\ Len(M) = n + 1
  BY <1>2, IsASeq DEF Places
<1>4. \A i \in Places(L) : L[i] # x /\ ept[L[i]].addr # a
  BY <1>1, ListedChain DEF CreateEndpoint, Search
<1>5. /\ head' = x /\ ept'[x] = [addr |-> a, rx_cb |-> cb, next |-> head]
      /\ \A i \in Places(L) : ept'[L[i]] = ept[L[i]]
  BY <1>2, <1>4 DEF CreateEndpoint, TypeOK
<1>6. Places(M) = 1 .. n + 1 /\ M[1] = x /\ 1 \in Places(M)
      /\ \A i \in Places(M) : i # 1 => i - 1 \in Places(L) /\ M[i] = L[i - 1]
  BY <1>2, <1>3 DEF Places
<1> HIDE DEF M
<1>7. Distinct(M)
  <2> SUFFICES ASSUME NEW i \in Places(M), NEW j \in Places(M), M[i] = M[j] PROVE i = j
    BY DEF Distinct
  <2>1. i = 1 <=> j = 1
    BY <1>4, <1>6
  <2>2. i # 1 => i - 1 = j - 1
    BY <1>1, <1>6, <2>1 DEF Chain, Distinct
  <2> QED BY <1>2, <1>6, <2>1, <2>2
<1>8. ASSUME NEW i \in Places(M)
      PROVE  ept'[M[i]].next = IF i = Len(M) THEN Null ELSE M[i + 1]
  <2>1. CASE i = 1
    <3>1. ept'[M[i]].next = head
      BY <1>5, <1>6, <2>1
    <3>2. head = IF n = 0 THEN Null ELSE L[1]
      BY <1>1 DEF Chain
    <3>3. n # 0 => 2 \in Places(M) /\ M[2] = L[1]
      BY <1>2, <1>6
    <3> QED BY <1>2, <1>3, <2>1, <3>1, <3>2, <3>3
  <2>2. CASE i # 1
    <3>1. i - 1 \in Places(L) /\ ept'[M[i]].next = ept[L[i - 1]].next
      BY <1>5, <1>6, <2>2
    <3>2. ept[L[i - 1]].next = IF i - 1 = n THEN Null ELSE L[(i - 1) + 1]
      BY <1>1, <3>1 DEF Chain
    <3>3. (i - 1) + 1 = i /\ (i - 1 # n => i + 1 \in Places(M) /\ i + 1 # 1 /\ M[i + 1] = L[(i + 1) - 1])
      BY <1>2, <1>6, <3>1
    <3>4. (i + 1) - 1 = i /\ (i = n + 1 <=> i - 1 = n)
      BY <1>2, <1>6
    <3> QED BY <1>3, <3>1, <3>2, <3>3, <3>4
  <2> QED BY <2>1, <2>2
<1>9. Chain(M)'
  BY <1>2, <1>3, <1>5, <1>6, <1>7, <1>8 DEF Chain
<1>10. AddrOnce(M)'
  <2> SUFFICES ASSUME NEW i \in Places(M), NEW j \in Places(M), ept'[M[i]].addr = ept'[M[j]].addr
               PROVE  i = j
    BY DEF AddrOnce
  <2>1. CASE i = 1 /\ j # 1
    BY <1>4, <1>5, <1>6, <2>1
  <2>2. CASE i # 1 /\ j = 1
    BY <1>4, <1>5, <1>6, <2>2
  <2>3. CASE i # 1 /\ j # 1
    <3>1. i - 1 = j - 1
      BY <1>1, <1>5, <1>6, <2>3 DEF AddrOnce
    <3> QED BY <1>6, <3>1
  <2> QED BY <2>1, <2>2, <2>3
<1> QED BY <1>3, <1>9, <1>10 DEF ListInv

\* delete_endpoint takes one structure off the list: its predecessor, or the
\* head, is linked to its successor.
LEMMA DeleteKeepsList ==
    ASSUME TypeOK, ListInv, NEW a \in Addr, DeleteEndpoint(a)
    PROVE  ListInv'
<1>1. PICK L \in Seq(Ctx) : Chain(L) /\ AddrOnce(L)
  BY DEF ListInv
<1>2. PICK x \in Search(a) :
        /\ head' = IF head = x THEN ept[x].next ELSE head
        /\ ept' = [y \in Ctx |->
                      IF y = x THEN [ept[x] EXCEPT !.next = Null]
                      ELSE IF y \in Listed /\ ept[y].next = x
                           THEN [ept[y] EXCEPT !.next = ept[x].next]
                      ELSE ept[y]]
  BY Zenon DEF DeleteEndpoint
<1> DEFINE n == Len(L)
<1>3. n \in Nat /\ \A i \in Places(L) : L[i] \in Ctx /\ L[i] \in Listed /\ L[i] # Null
  BY <1>1, ListedChain, NullAssumption DEF Places
<1>4. PICK k \in Places(L) : x = L[k]
  BY <1>1, <1>2, ListedChain DEF Search
<1>5. \A i, j \in Places(L) : L[i] = L[j] => i = j
  BY <1>1 DEF Chain, Distinct
<1>6. ASSUME NEW i \in Places(L), i # k
      PROVE  /\ ept'[L[i]].addr = ept[L[i]].addr
             /\ i + 1 = k => ept'[L[i]].next = ept[x].next
             /\ i + 1 # k => ept'[L[i]].next = ept[L[i]].next
  <2>1. L[i] \in Ctx /\ L[i] # x /\ L[i] \in Listed
    BY <1>3, <1>4, <1>5, <1>6
  <2>2. ept[L[i]].next = IF i = n THEN Null ELSE L[i + 1]
    BY <1>1 DEF Chain
  <2>3. i # n => i + 1 \in Places(L)
    BY <1>3 DEF Places
  <2>4. ept[L[i]].next = x <=> i + 1 = k
    BY <1>3, <1>4, <1>5, <2>2, <2>3 DEF Places
  <2>5. ept[L[i]] \in [addr : Addr \cup {Null}, rx_cb : Callback, next : Ctx \cup {Null}]
    BY <2>1 DEF TypeOK
  <2>6. ept'[L[i]] = IF ept[L[i]].next = x THEN [ept[L[i]] EXCEPT !.next = ept[x].next]
                     ELSE ept[L[i]]
    BY <1>2, <2>1
  <2> QED BY <2>4, <2>5, <2>6
<1> DEFINE M == [i \in 1 .. n - 1 |-> IF i < k THEN L[i] ELSE L[i + 1]]
           old(i) == IF i < k THEN i ELSE i + 1
<1>7. M \in Seq(Ctx) /\ Len(M) = n - 1
  <2>1. n - 1 \in Nat /\ \A i \in 1 .. n - 1 : M[i] \in Ctx
    BY <1>3, <1>4 DEF Places
  <2> QED BY <2>1, IsASeq
<1>8. /\ Places(M) = 1 .. n - 1 /\ k \in 1 .. n
      /\ \A i \in Places(M) : old(i) \in Places(L) /\ old(i) # k /\ M[i] = L[old(i)]
  BY <1>3, <1>4, <1>7 DEF Places
<1> HIDE DEF M
<1>9. Distinct(M)
  <2> SUFFICES ASSUME NEW i \in Places(M), NEW j \in Places(M), M[i] = M[j] PROVE i = j
    BY DEF Distinct
  <2>1. old(i) = old(j)
    BY <1>5, <1>8
  <2> QED BY <1>8, <2>1
<1>10. \A j \in Places(L) : ept[L[j]].next = IF j = n THEN Null ELSE L[j + 1]
  BY <1>1 DEF Chain
<1>11. ASSUME NEW i \in Places(M)
       PROVE  ept'[M[i]].next = IF i = Len(M) THEN Null ELSE M[i + 1]
  <2>0. i \in Int /\ k \in Int
    BY <1>8
  <2>1. i # n - 1 => i + 1 \in Places(M) /\ M[i + 1] = L[old(i + 1)]
    BY <1>3, <1>8
  <2>2. CASE i + 1 = k
    <3>1. ept'[M[i]].next = ept[x].next
      BY <1>6, <1>8, <2>2
    <3>2. ept[x].next = IF k = n THEN Null ELSE L[k + 1]
      BY <1>4, <1>10
    <3>3. old(i + 1) = k + 1
      BY <1>8, <2>2
    <3> QED BY <1>3, <1>7, <1>8, <2>1, <2>2, <3>1, <3>2, <3>3
  <2>3. CASE i + 1 < k
    <3>1. ept'[M[i]].next = ept[L[i]].next /\ ept[L[i]].next = L[i + 1]
      BY <1>3, <1>6, <1>8, <1>10, <2>3
    <3> QED BY <1>3, <1>7, <1>8, <2>1, <2>3, <3>1
  <2>4. CASE k <= i
    <3>0. i + 1 \in Places(L) /\ i + 1 # k /\ (i + 1) + 1 # k /\ M[i] = L[i + 1]
      BY <1>3, <1>8, <2>0, <2>4
    <3>1. ept'[M[i]].next = ept[L[i + 1]].next
      BY <1>6, <3>0
    <3>2. ept[L[i + 1]].next = IF i + 1 = n THEN Null ELSE L[(i + 1) + 1]
      BY <1>10, <3>0
    <3> QED BY <1>3, <1>7, <1>8, <2>1, <2>4, <3>1, <3>2
  <2>5. i + 1 = k \/ i + 1 < k \/ k <= i
    BY <2>0
  <2> QED BY <2>2, <2>3, <2>4, <2>5
<1>12. head' = IF Len(M) = 0 THEN Null ELSE M[1]
  <2>a. n \in Nat /\ n >= 1
    BY <1>3, <1>8
  <2>b. 1 \in 1 .. n /\ (n # 1 => 1 \in 1 .. n - 1 /\ 2 \in 1 .. n)
    <3>1. \A m \in Nat : m >= 1 => 1 \in 1 .. m /\ (m # 1 => 1 \in 1 .. m - 1 /\ 2 \in 1 .. m)
      OBVIOUS
    <3> QED BY <2>a, <3>1, Zenon
  <2>c. Places(L) = 1 .. n /\ Places(M) = 1 .. n - 1
    BY <1>8 DEF Places
  <2>0. n >= 1 /\ 1 \in Places(L) /\ (n # 1 => 1 \in Places(M) /\ 2 \in Places(L))
    BY <2>a, <2>b, <2>c
  <2>1. head = L[1] /\ 1 \in Places(L) /\ (n # 1 => 1 \in Places(M) /\ 2 \in Places(L))
    BY <1>1, <2>0 DEF Chain
  <2>2. CASE k = 1
    <3>1. head' = IF 1 = n THEN Null ELSE L[1 + 1]
      BY <1>2, <1>4, <1>10, <2>1, <2>2, Zenon
    <3> QED BY <1>3, <1>7, <1>8, <2>1, <2>2, <3>1
  <2>3. CASE k # 1
    <3>1. head' = L[1]
      BY <1>2, <1>4, <1>5, <2>1, <2>3
    <3> QED BY <1>3, <1>7, <1>8, <2>1, <2>3, <3>1
  <2> QED BY <2>2, <2>3
<1>13. AddrOnce(M)'
  <2> SUFFICES ASSUME NEW i \in Places(M), NEW j \in Places(M), ept'[M[i]].addr = ept'[M[j]].addr
               PROVE  i = j
    BY DEF AddrOnce
  <2>1. old(i) = old(j)
    BY <1>1, <1>6, <1>8 DEF AddrOnce
  <2> QED BY <1>8, <2>1
<1> QED BY <1>7, <1>9, <1>11, <1>12, <1>13, Zenon DEF ListInv, Chain

\* rebind_endpoint changes no link and no address.
LEMMA RebindKeepsList ==
    ASSUME TypeOK, ListInv, NEW a \in Addr, NEW cb \in Callback, RebindEndpoint(a, cb)
    PROVE  ListInv'
<1>1. PICK L \in Seq(Ctx) : Chain(L) /\ AddrOnce(L)
  BY DEF ListInv
<1>2. PICK x \in Search(a) : ept' = [ept EXCEPT ![x].rx_cb = cb]
  BY Zenon DEF RebindEndpoint
<1>3. x \in Ctx /\ \A i \in Places(L) : L[i] \in Ctx
  BY <1>1, ListedChain DEF Search, Places
<1>4. \A y \in Ctx : ept'[y].next = ept[y].next /\ ept'[y].addr = ept[y].addr
  BY <1>2, <1>3 DEF TypeOK
<1>5. head' = head
  BY DEF RebindEndpoint
<1>6. Chain(L)' /\ AddrOnce(L)'
  BY <1>1, <1>3, <1>4, <1>5 DEF Chain, AddrOnce
<1> QED BY <1>6 DEF ListInv

\* Only the three endpoint operations write the list.
LEMMA ListStep == TypeOK /\ ListInv /\ [Next]_vars => ListInv'
<1> SUFFICES ASSUME TypeOK, ListInv, [Next]_vars PROVE ListInv'
  OBVIOUS
<1>1. CASE UNCHANGED <<head, ept>>
  BY <1>1 DEF ListInv, Chain, AddrOnce
<1>2. ASSUME NEW a \in Addr, DeleteEndpoint(a) PROVE ListInv'
  BY <1>2, DeleteKeepsList
<1>3. ASSUME NEW a \in Addr, NEW cb \in Callback, RebindEndpoint(a, cb) PROVE ListInv'
  BY <1>3, RebindKeepsList
<1>4. ASSUME NEW a \in Addr, NEW cb \in Callback, NEW x \in Ctx, CreateEndpoint(x, a, cb)
      PROVE  ListInv'
  BY <1>4, CreateKeepsList
<1>5. \/ UNCHANGED <<head, ept>>
      \/ \E a \in Addr : DeleteEndpoint(a)
      \/ \E a \in Addr, cb \in Callback : RebindEndpoint(a, cb)
      \/ \E a \in Addr, cb \in Callback, x \in Ctx : CreateEndpoint(x, a, cb)
  BY Zenon DEF Next, SendStep, RxStep, vars, CreateMessage, CreateFail, SendHeader, SendNocopy, Notify,
         IntrEnable, BellDropped, RxEnter, RxEmpty, RxRecv, RxSearch, RxUndeliverable, RxCheck, RxCall,
         Destroy
<1> QED BY <1>1, <1>2, <1>3, <1>4, <1>5

-----------------------------------------------------------------------------
(* The buffers of the channel.                                             *)

InPool(b) == \E i \in Places(pool) : pool[i] = b
Got(b) == \E m \in received : m.buf = b

\* A buffer is in one place: the pool, a sender, the channel or the receiver.
BufInv ==
    /\ Distinct(pool)
    /\ \A i, j \in Places(chan) : chan[i].buf = chan[j].buf => i = j
    /\ \A m, n \in received : m.buf = n.buf => m = n
    /\ \A b \in Buffers : /\ InPool(b) => b \notin allocated /\ ~InChan(b) /\ ~Got(b)
                          /\ b \in allocated => ~InChan(b) /\ ~Got(b)
                          /\ InChan(b) => ~Got(b)

ChanTypeOK ==
    /\ pool \in Seq(Buffers) /\ allocated \subseteq Buffers
    /\ chan \in Seq(Message) /\ received \subseteq Message

\* alloc_try hands the head of the pool to a sender.
LEMMA AllocKeepsBuffers ==
    ASSUME ChanTypeOK, BufInv, Alloc
    PROVE  ChanTypeOK' /\ BufInv'
<1>1. /\ pool # <<>> /\ pool \in Seq(Buffers) /\ allocated' = allocated \cup {Head(pool)}
      /\ pool' = Tail(pool) /\ UNCHANGED <<chan, received>>
  BY DEF Alloc, ChanTypeOK
<1>2. /\ Head(pool) = pool[1] /\ Head(pool) \in Buffers /\ 1 \in Places(pool)
      /\ pool' \in Seq(Buffers)
      /\ \A i \in Places(pool') : i + 1 \in Places(pool) /\ pool'[i] = pool[i + 1]
  BY <1>1, TakeHead, Zenon
<1>3. \A i \in Places(pool') : i \in Nat \ {0}
  BY <1>2 DEF Places
<1>4. Distinct(pool')
  <2> SUFFICES ASSUME NEW i \in Places(pool'), NEW j \in Places(pool'), pool'[i] = pool'[j]
               PROVE  i = j
    BY DEF Distinct
  <2>1. i + 1 = j + 1
    BY <1>2 DEF BufInv, Distinct
  <2> QED BY <1>3, <2>1
<1>5. \A i \in Places(pool') : pool'[i] # Head(pool)
  <2> SUFFICES ASSUME NEW i \in Places(pool'), pool[i + 1] = pool[1] PROVE FALSE
    BY <1>2
  <2>1. i + 1 = 1
    BY <1>2 DEF BufInv, Distinct
  <2> QED BY <1>3, <2>1
<1>6. \A b \in Buffers : (InPool(b))' => InPool(b) /\ b # Head(pool)
  BY <1>2, <1>5 DEF InPool
<1>7. InPool(Head(pool))
  BY <1>2 DEF InPool
<1>8. \A b \in Buffers : (InChan(b)' <=> InChan(b)) /\ (Got(b)' <=> Got(b))
  BY <1>1 DEF InChan, Got
<1>9. \A b \in Buffers : /\ InPool(b)' => b \notin allocated' /\ ~InChan(b)' /\ ~Got(b)'
                         /\ b \in allocated' => ~InChan(b)' /\ ~Got(b)'
                         /\ InChan(b)' => ~Got(b)'
  BY <1>1, <1>2, <1>6, <1>7, <1>8 DEF BufInv
<1>10. ChanTypeOK'
  BY <1>1, <1>2 DEF ChanTypeOK
<1> QED BY <1>1, <1>4, <1>9, <1>10 DEF BufInv

\* send_try puts a sender's buffer at the end of the channel.
LEMMA SendKeepsBuffers ==
    ASSUME ChanTypeOK, BufInv, NEW m \in Message, Send(m)
    PROVE  ChanTypeOK' /\ BufInv'
<1>1. /\ m.buf \in allocated /\ m.buf \in Buffers /\ allocated' = allocated \ {m.buf}
      /\ chan' = Append(chan, m) /\ UNCHANGED <<pool, received>> /\ chan \in Seq(Message)
  BY DEF Send, ChanTypeOK
<1>2. /\ chan' \in Seq(Message)
      /\ \A i \in Places(chan') : \/ i \in Places(chan) /\ chan'[i] = chan[i]
                                  \/ i = Len(chan) + 1 /\ chan'[i] = m
  BY <1>1, AddLast, Zenon
<1>3. \A i \in Places(chan) : chan[i].buf # m.buf
  BY <1>1 DEF BufInv, InChan, Places
<1>4. \A i, j \in Places(chan') : chan'[i].buf = chan'[j].buf => i = j
  BY <1>2, <1>3 DEF BufInv
<1>5. \A b \in Buffers : InChan(b)' => InChan(b) \/ b = m.buf
  BY <1>2 DEF InChan, Places
<1>6. \A b \in Buffers : (InPool(b)' <=> InPool(b)) /\ (Got(b)' <=> Got(b))
  BY <1>1 DEF InPool, Got
<1>7. \A b \in Buffers : /\ InPool(b)' => b \notin allocated' /\ ~InChan(b)' /\ ~Got(b)'
                         /\ b \in allocated' => ~InChan(b)' /\ ~Got(b)'
                         /\ InChan(b)' => ~Got(b)'
  BY <1>1, <1>5, <1>6 DEF BufInv
<1>8. ChanTypeOK'
  BY <1>1, <1>2 DEF ChanTypeOK
<1> QED BY <1>1, <1>4, <1>7, <1>8, Zenon DEF BufInv

\* recv_try hands the head of the channel to the receiver.
LEMMA RecvKeepsBuffers ==
    ASSUME ChanTypeOK, BufInv, Recv
    PROVE  /\ ChanTypeOK' /\ BufInv'
           /\ Head(chan) \in Message /\ InChan(Head(chan).buf)
           /\ received' = received \cup {Head(chan)}
<1>1. /\ chan # <<>> /\ chan \in Seq(Message) /\ received' = received \cup {Head(chan)}
      /\ chan' = Tail(chan) /\ UNCHANGED <<pool, allocated>>
  BY DEF Recv, ChanTypeOK
<1> DEFINE h == Head(chan)
<1>2. /\ h = chan[1] /\ h \in Message /\ 1 \in Places(chan)
      /\ chan' \in Seq(Message)
      /\ \A i \in Places(chan') : i + 1 \in Places(chan) /\ chan'[i] = chan[i + 1]
  BY <1>1, TakeHead, Zenon
<1> HIDE DEF h
<1>3. h.buf \in Buffers /\ InChan(h.buf)
  BY <1>2 DEF Message, InChan, Places
<1>4. \A i \in Places(chan') : i \in Nat \ {0}
  BY <1>2 DEF Places
<1>5. \A i, j \in Places(chan') : chan'[i].buf = chan'[j].buf => i = j
  <2> SUFFICES ASSUME NEW i \in Places(chan'), NEW j \in Places(chan'), chan'[i].buf = chan'[j].buf
               PROVE  i = j
    OBVIOUS
  <2>1. i + 1 = j + 1
    BY <1>2 DEF BufInv
  <2> QED BY <1>4, <2>1
<1>6. \A i \in Places(chan') : chan'[i].buf # h.buf
  <2> SUFFICES ASSUME NEW i \in Places(chan'), chan[i + 1].buf = chan[1].buf PROVE FALSE
    BY <1>2
  <2>1. i + 1 = 1
    BY <1>2 DEF BufInv
  <2> QED BY <1>4, <2>1
<1>7. \A b \in Buffers : InChan(b)' => InChan(b) /\ b # h.buf
  BY <1>2, <1>6 DEF InChan, Places
<1>8. \A b \in Buffers : (InPool(b)' <=> InPool(b)) /\ (Got(b)' <=> Got(b) \/ b = h.buf)
  BY <1>1 DEF InPool, Got, h
<1>9. \A b \in Buffers : /\ InPool(b)' => b \notin allocated' /\ ~InChan(b)' /\ ~Got(b)'
                         /\ b \in allocated' => ~InChan(b)' /\ ~Got(b)'
                         /\ InChan(b)' => ~Got(b)'
  BY <1>1, <1>3, <1>7, <1>8 DEF BufInv
<1>10. \A m, n \in received' : m.buf = n.buf => m = n
  <2>1. \A m \in received : m.buf # h.buf
    BY <1>3 DEF BufInv, Got
  <2> QED BY <1>1, <2>1 DEF BufInv, h
<1>11. ChanTypeOK'
  BY <1>1, <1>2 DEF ChanTypeOK, h
<1>12. BufInv'
  BY <1>1, <1>5, <1>9, <1>10, Zenon DEF BufInv
<1> QED BY <1>1, <1>2, <1>3, <1>11, <1>12 DEF h

\* free_try puts a buffer the receiver is done with at the end of the pool.
LEMMA FreeKeepsBuffers ==
    ASSUME ChanTypeOK, BufInv, NEW m \in received, Free(m)
    PROVE  /\ ChanTypeOK' /\ BufInv'
           /\ \A b \in Buffers : Got(b) /\ b # m.buf => Got(b)'
<1>1. /\ m.buf \in Buffers /\ received' = received \ {m} /\ pool' = Append(pool, m.buf)
      /\ UNCHANGED <<allocated, chan>> /\ pool \in Seq(Buffers) /\ received \subseteq Message
  BY DEF Free, ChanTypeOK, Message
<1>2. /\ pool' \in Seq(Buffers)
      /\ \A i \in Places(pool') : \/ i \in Places(pool) /\ pool'[i] = pool[i]
                                  \/ i = Len(pool) + 1 /\ pool'[i] = m.buf
  BY <1>1, AddLast, Zenon
<1>3. Got(m.buf) /\ ~InPool(m.buf) /\ m.buf \notin allocated /\ ~InChan(m.buf)
  BY <1>1 DEF BufInv, Got
<1>4. Distinct(pool')
  BY <1>2, <1>3 DEF BufInv, Distinct, InPool
<1>5. \A b \in Buffers : InPool(b)' => InPool(b) \/ b = m.buf
  BY <1>2 DEF InPool
<1>6. \A b \in Buffers : (InChan(b)' <=> InChan(b)) /\ (Got(b)' <=> Got(b) /\ b # m.buf)
  BY <1>1 DEF InChan, Got, BufInv
<1>7. \A b \in Buffers : /\ InPool(b)' => b \notin allocated' /\ ~InChan(b)' /\ ~Got(b)'
                         /\ b \in allocated' => ~InChan(b)' /\ ~Got(b)'
                         /\ InChan(b)' => ~Got(b)'
  BY <1>1, <1>3, <1>5, <1>6 DEF BufInv
<1>8. ChanTypeOK'
  BY <1>1, <1>2 DEF ChanTypeOK
<1>9. \A n, k \in received' : n.buf = k.buf => n = k
  BY <1>1 DEF BufInv
<1> QED BY <1>1, <1>4, <1>6, <1>7, <1>8, <1>9 DEF BufInv

\* Every step is at most one operation of the channel.
LEMMA ChannelCases ==
    ASSUME TypeOK, [Next]_vars
    PROVE  \/ UNCHANGED chanVars
           \/ Alloc
           \/ \E m \in Message : Send(m)
           \/ Recv
           \/ \E m \in received : Free(m)
<1>1. ASSUME NEW t \in Sender, SendNocopy(t) PROVE \E m \in Message : Send(m)
  <2>1. Send([buf |-> snd[t].buf, len |-> ItemSize])
    BY <1>1 DEF SendNocopy
  <2>2. [buf |-> snd[t].buf, len |-> ItemSize] \in Message
    BY <2>1, DataAssumption DEF Send, Message, TypeOK
  <2> QED BY <2>1, <2>2
<1> QED
  BY <1>1, Zenon DEF Next, SendStep, RxStep, vars, chanVars, CreateMessage, CreateFail, SendHeader, Notify,
         DeleteEndpoint, RebindEndpoint, CreateEndpoint, IntrEnable, BellDropped, RxEnter,
         RxEmpty, RxRecv, RxSearch, RxUndeliverable, RxCheck, RxCall, Destroy

\* Every step keeps each buffer in one place.
LEMMA BufStep == TypeOK /\ BufInv /\ [Next]_vars => BufInv' /\ ChanTypeOK'
<1> SUFFICES ASSUME TypeOK, BufInv, [Next]_vars PROVE BufInv' /\ ChanTypeOK'
  OBVIOUS
<1>0. ChanTypeOK
  BY DEF TypeOK, ChanTypeOK
<1>1. CASE UNCHANGED chanVars
  BY <1>0, <1>1 DEF chanVars, BufInv, ChanTypeOK, InPool, InChan, Got
<1> QED BY <1>0, <1>1, ChannelCases, AllocKeepsBuffers, SendKeepsBuffers, RecvKeepsBuffers,
           FreeKeepsBuffers

-----------------------------------------------------------------------------
(* Senders, receiver and types.                                            *)

Busy(t) == snd[t].pc \in {"filling", "sending"}

\* The dispatcher works on a message that was received and not yet given to
\* an endpoint, and in interrupt mode stays on the endpoint list.
RxInv ==
    /\ \A b \in held : Got(b)
    /\ rx.pc \in {"search", "check", "call"} => Got(rx.buf) /\ rx.buf \notin held
    /\ rx.pc \in {"check", "call"} => rx.at \in Ctx
    /\ ~poll /\ rx.pc = "search" => rx.at \in Listed \cup {Null}
    /\ CalledIsListed

IInv == TypeOK /\ ListInv /\ BufInv /\ OneSenderPerBuffer /\ RxInv

\* Every step keeps the types; the dispatcher's buffer and endpoint are real.
LEMMA TypeStep == IInv /\ [Next]_vars => TypeOK'
<1> SUFFICES ASSUME IInv, [Next]_vars PROVE TypeOK'
  OBVIOUS
<1>0. /\ TypeOK /\ ChanTypeOK' /\ Sizes \subseteq Nat /\ SendSizes \subseteq Nat
      /\ LenMod \in Nat \ {0}
      /\ Listed \subseteq Ctx
  BY BufStep, ListedChain, DataAssumption DEF IInv, ListInv
<1> DEFINE H == [dst : Addr \cup {Null}, len : 0 .. LenMod - 1]
           S == [pc : {"idle", "filling", "sending", "notify"},
                 buf : Buffers \cup {Null}]
<1>c. \A n \in Nat : data_len(n) \in 0 .. LenMod - 1
  BY <1>0 DEF data_len
<1>a. hdr \in [Buffers -> H] /\ snd \in [Sender -> S]
  BY <1>0, Zenon DEF TypeOK
<1>1. ASSUME NEW t \in Sender, NEW n \in Sizes, CreateMessage(t, n) PROVE TypeOK'
  <2>1. Head(pool) \in Buffers
    BY <1>0, <1>1, TakeHead DEF CreateMessage, Alloc, TypeOK
  <2>2. data_len(n) \in 0 .. LenMod - 1
    BY <1>0, <1>c
  <2>3. hdr' \in [Buffers -> H]
    <3>1. hdr' = [hdr EXCEPT ![Head(pool)].len = data_len(n)]
      BY <1>1, Zenon DEF CreateMessage
    <3> QED BY <1>a, <2>1, <2>2, <3>1
  <2>4. snd' \in [Sender -> S]
    <3>1. snd' = [snd EXCEPT ![t] = [pc |-> "filling", buf |-> Head(pool)]]
      BY <1>1, Zenon DEF CreateMessage
    <3>2. [pc |-> "filling", buf |-> Head(pool)] \in S
      BY <2>1, <2>2
    <3> HIDE DEF S
    <3> QED BY <1>a, <3>1, <3>2, Zenon
  <2> QED BY <1>0, <1>1, <2>3, <2>4, Zenon DEF CreateMessage, TypeOK, ChanTypeOK
<1>2. ASSUME NEW t \in Sender, NEW n \in Sizes, CreateFail(t, n) PROVE TypeOK'
  BY <1>0, <1>2 DEF CreateFail, vars, TypeOK
<1>b. ASSUME NEW t \in Sender, NEW l \in {"sending", "notify"}, snd' = [snd EXCEPT ![t].pc = l]
      PROVE  snd' \in [Sender -> S]
  <2>1. [snd[t] EXCEPT !.pc = l] \in S
    BY <1>a
  <2> HIDE DEF S
  <2> QED BY <1>a, <1>b, <2>1
<1>3. ASSUME NEW t \in Sender, NEW dst \in Addr, NEW len \in SendSizes, SendHeader(t, dst, len)
      PROVE  TypeOK'
  <2>1. data_len(len) \in 0 .. LenMod - 1
    BY <1>0, <1>c
  <2>2. hdr' \in [Buffers -> H]
    <3>1. hdr' = [hdr EXCEPT ![snd[t].buf] = [dst |-> dst, len |-> data_len(len)]]
      BY <1>3, Zenon DEF SendHeader
    <3>2. [dst |-> dst, len |-> data_len(len)] \in H
      BY <2>1
    <3> HIDE DEF H
    <3> QED BY <1>a, <3>1, <3>2, Zenon
  <2>3. snd' \in [Sender -> S]
    BY <1>3, <1>b, Zenon DEF SendHeader
  <2> QED BY <1>0, <1>3, <2>2, <2>3, Zenon DEF SendHeader, TypeOK, ChanTypeOK
<1>4. ASSUME NEW t \in Sender, SendNocopy(t) PROVE TypeOK'
  <2>1. snd' \in [Sender -> S]
    BY <1>4, <1>b, Zenon DEF SendNocopy
  <2> QED BY <1>0, <1>4, <2>1, Zenon DEF SendNocopy, TypeOK, ChanTypeOK
<1>5. ASSUME NEW t \in Sender, Notify(t) PROVE TypeOK'
  BY <1>0, <1>5 DEF Notify, chanVars, Idle, TypeOK
<1>6. ASSUME NEW a \in Addr, DeleteEndpoint(a) PROVE TypeOK'
  <2>1. PICK x \in Search(a) :
          /\ head' = IF head = x THEN ept[x].next ELSE head
          /\ ept' = [y \in Ctx |->
                        IF y = x THEN [ept[x] EXCEPT !.next = Null]
                        ELSE IF y \in Listed /\ ept[y].next = x
                             THEN [ept[y] EXCEPT !.next = ept[x].next]
                        ELSE ept[y]]
    BY <1>6, Zenon DEF DeleteEndpoint
  <2>2. x \in Ctx
    BY <1>0, <2>1 DEF Search
  <2>3. head' \in Ctx \cup {Null}
    BY <1>0, <2>1, <2>2 DEF TypeOK
  <2>4. ept' \in [Ctx -> [addr : Addr \cup {Null}, rx_cb : Callback, next : Ctx \cup {Null}]]
    <3> DEFINE E == [addr : Addr \cup {Null}, rx_cb : Callback, next : Ctx \cup {Null}]
    <3>1. \A y \in Ctx : ept[y] \in E
      BY <1>0 DEF TypeOK
    <3>2. \A e \in E, z \in Ctx \cup {Null} : [e EXCEPT !.next = z] \in E
      OBVIOUS
    <3>3. ept[x].next \in Ctx \cup {Null}
      BY <2>2, <3>1
    <3> HIDE DEF E
    <3> QED BY <2>1, <2>2, <3>1, <3>2, <3>3 DEF E
  <2>5. UNCHANGED <<pool, allocated, chan, received, hdr, snd, rx, held, bell, enabled, poll, excuse>>
    BY <1>6 DEF DeleteEndpoint, chanVars
  <2> QED BY <1>0, <2>3, <2>4, <2>5 DEF TypeOK
<1>7. ASSUME NEW a \in Addr, NEW cb \in Callback, RebindEndpoint(a, cb) PROVE TypeOK'
  <2>1. ept' \in [Ctx -> [addr : Addr \cup {Null}, rx_cb : Callback, next : Ctx \cup {Null}]]
    <3> DEFINE E == [addr : Addr \cup {Null}, rx_cb : Callback, next : Ctx \cup {Null}]
    <3>1. PICK x : ept' = [ept EXCEPT ![x].rx_cb = cb]
      BY <1>7, Zenon DEF RebindEndpoint
    <3>2. ept \in [Ctx -> E] /\ \A e \in E : [e EXCEPT !.rx_cb = cb] \in E
      BY <1>0, Zenon DEF TypeOK
    <3> HIDE DEF E
    <3>3. ept' \in [Ctx -> E]
      BY <3>1, <3>2, Zenon
    <3> QED BY <3>3 DEF E
  <2>2. UNCHANGED <<pool, allocated, chan, received, hdr, snd, head, rx, held, bell, enabled, poll, excuse>>
    BY <1>7 DEF RebindEndpoint, chanVars
  <2> QED BY <1>0, <2>1, <2>2 DEF TypeOK
<1>8. ASSUME NEW a \in Addr, NEW cb \in Callback, NEW x \in Ctx, CreateEndpoint(x, a, cb)
      PROVE  TypeOK'
  BY <1>0, <1>8 DEF CreateEndpoint, chanVars, TypeOK
<1>9. CASE IntrEnable
  BY <1>0, <1>9 DEF IntrEnable, chanVars, TypeOK
<1>10. CASE BellDropped
  BY <1>0, <1>10, Zenon DEF BellDropped, chanVars, TypeOK
<1>11. CASE RxEnter
  BY <1>0, <1>11, Zenon DEF RxEnter, chanVars, TypeOK
<1>12. CASE RxEmpty
  BY <1>0, <1>12 DEF RxEmpty, After, RxOff, chanVars, TypeOK
<1>13. CASE RxRecv
  <2>1. Head(chan) \in Message
    BY <1>0, <1>13, TakeHead DEF RxRecv, Recv, TypeOK
  <2>2. Head(chan).buf \in Buffers
    BY <2>1 DEF Message
  <2> QED BY <1>0, <1>13, <2>2 DEF RxRecv, TypeOK, ChanTypeOK
<1>14. CASE RxSearch
  BY <1>0, <1>14, Zenon DEF RxSearch, chanVars, TypeOK
<1>15. CASE RxUndeliverable
  BY <1>0, <1>15 DEF RxUndeliverable, After, RxOff, chanVars, TypeOK
<1>16. CASE RxCall
  <2>1. rx.buf \in Buffers
    BY <1>0, <1>16 DEF RxCall, IInv, RxInv, Got, TypeOK, Message
  <2> QED BY <1>0, <1>16, <2>1 DEF RxCall, After, RxOff, chanVars, TypeOK
<1>19. CASE RxCheck
  BY <1>0, <1>19, Zenon DEF RxCheck, After, RxOff, chanVars, TypeOK
<1>17. ASSUME NEW m \in received, Destroy(m) PROVE TypeOK'
  BY <1>0, <1>17 DEF Destroy, TypeOK, ChanTypeOK
<1>18. CASE UNCHANGED vars
  BY <1>0, <1>18 DEF vars, TypeOK
<1> QED
  BY <1>1, <1>2, <1>3, <1>4, <1>5, <1>6, <1>7, <1>8, <1>9, <1>10, <1>11, <1>12, <1>13, <1>14,
     <1>15, <1>16, <1>17, <1>18, <1>19
  DEF Next, SendStep, RxStep

\* A buffer that create_message hands out is held by no other context, and
\* send_nocopy gives up the buffer of its own context only.
LEMMA SenderStep == IInv /\ [Next]_vars => OneSenderPerBuffer'
<1> SUFFICES ASSUME IInv, [Next]_vars PROVE OneSenderPerBuffer'
  OBVIOUS
<1>0. /\ snd \in [Sender -> [pc : {"idle", "filling", "sending", "notify"},
                             buf : Buffers \cup {Null}]]
      /\ allocated = {snd[t].buf : t \in {u \in Sender : Busy(u)}}
      /\ \A t, u \in Sender : Busy(t) /\ Busy(u) /\ snd[t].buf = snd[u].buf => t = u
  BY DEF IInv, TypeOK, OneSenderPerBuffer, Busy
<1>1. ASSUME /\ allocated' = {snd'[t].buf : t \in {u \in Sender : Busy(u)'}}
             /\ \A t, u \in Sender : Busy(t)' /\ Busy(u)' /\ snd'[t].buf = snd'[u].buf => t = u
      PROVE  OneSenderPerBuffer'
  BY <1>1 DEF OneSenderPerBuffer, Busy
<1>2. ASSUME NEW t \in Sender, NEW n \in Sizes, CreateMessage(t, n) PROVE OneSenderPerBuffer'
  <2> DEFINE h == Head(pool)
  <2>1. /\ ~Busy(t) /\ allocated' = allocated \cup {h}
        /\ snd' = [snd EXCEPT ![t] = [pc |-> "filling", buf |-> h]]
    BY <1>2 DEF CreateMessage, Alloc, Busy
  <2>2. h \notin allocated
    BY <1>2, TakeHead DEF CreateMessage, Alloc, IInv, BufInv, InPool, TypeOK
  <2> HIDE DEF h
  <2>3. snd'[t].buf = h /\ snd'[t].pc = "filling" /\ \A u \in Sender : u # t => snd'[u] = snd[u]
    BY <1>0, <2>1
  <2>4. Busy(t)' /\ \A u \in Sender : u # t => (Busy(u)' <=> Busy(u))
    BY <2>3 DEF Busy
  <2>5. \A u \in Sender : Busy(u) => snd[u].buf # h
    BY <1>0, <2>2
  <2>6. allocated' = {snd'[u].buf : u \in {v \in Sender : Busy(v)'}}
    BY <1>0, <2>1, <2>3, <2>4
  <2> QED BY <1>0, <1>1, <2>3, <2>4, <2>5, <2>6
<1>3. ASSUME NEW t \in Sender, SendNocopy(t) PROVE OneSenderPerBuffer'
  <2>1. /\ Busy(t) /\ allocated' = allocated \ {snd[t].buf}
        /\ snd' = [snd EXCEPT ![t].pc = "notify"]
    BY <1>3 DEF SendNocopy, Send, Busy
  <2>2. snd'[t].pc = "notify" /\ \A u \in Sender : u # t => snd'[u] = snd[u]
    BY <1>0, <2>1
  <2>3. ~Busy(t)' /\ \A u \in Sender : u # t => (Busy(u)' <=> Busy(u))
    BY <2>2 DEF Busy
  <2>4. allocated' = {snd'[u].buf : u \in {v \in Sender : Busy(v)'}}
    BY <1>0, <2>1, <2>2, <2>3
  <2> QED BY <1>0, <1>1, <2>2, <2>3, <2>4
<1>4. ASSUME NEW t \in Sender, UNCHANGED allocated,
             \A u \in Sender : u # t => snd'[u] = snd[u],
             (Busy(t) /\ Busy(t)' /\ snd'[t].buf = snd[t].buf) \/ (~Busy(t) /\ ~Busy(t)')
      PROVE  OneSenderPerBuffer'
  <2>1. \A u \in Sender : (Busy(u)' <=> Busy(u)) /\ (Busy(u) => snd'[u].buf = snd[u].buf)
    BY <1>4 DEF Busy
  <2>2. allocated' = {snd'[u].buf : u \in {v \in Sender : Busy(v)'}}
    BY <1>0, <1>4, <2>1
  <2> QED BY <1>0, <1>1, <2>1, <2>2
<1>5. ASSUME NEW t \in Sender, NEW dst \in Addr, NEW len \in SendSizes, SendHeader(t, dst, len)
      PROVE  OneSenderPerBuffer'
  <2>1. /\ snd[t].pc = "filling" /\ snd'[t].pc = "sending" /\ snd'[t].buf = snd[t].buf
        /\ UNCHANGED allocated /\ \A u \in Sender : u # t => snd'[u] = snd[u]
    BY <1>0, <1>5 DEF SendHeader, chanVars
  <2> QED BY <1>4, <2>1 DEF Busy
<1>6. ASSUME NEW t \in Sender, Notify(t) PROVE OneSenderPerBuffer'
  <2>1. /\ snd[t].pc = "notify" /\ snd'[t].pc = "idle"
        /\ UNCHANGED allocated /\ \A u \in Sender : u # t => snd'[u] = snd[u]
    BY <1>0, <1>6 DEF Notify, chanVars, Idle
  <2> QED BY <1>4, <2>1 DEF Busy
<1>7. CASE UNCHANGED <<allocated, snd>>
  BY <1>0, <1>1, <1>7 DEF Busy
<1>8. \/ UNCHANGED <<allocated, snd>>
      \/ \E t \in Sender : \/ SendNocopy(t) \/ Notify(t)
                           \/ \E n \in Sizes : CreateMessage(t, n)
                           \/ \E dst \in Addr, len \in SendSizes : SendHeader(t, dst, len)
  BY Zenon DEF Next, SendStep, RxStep, vars, chanVars, CreateFail, Recv, Free,
         DeleteEndpoint, RebindEndpoint, CreateEndpoint, IntrEnable, BellDropped, RxEnter,
         RxEmpty, RxRecv, RxSearch, RxUndeliverable, RxCheck, RxCall, Destroy
<1> QED BY <1>2, <1>3, <1>5, <1>6, <1>7, <1>8

\* Only create_message and send_nocopy write a header, that of a buffer in
\* the hands of their context.
LEMMA HeaderStep ==
    ASSUME IInv, [Next]_vars, NEW b \in Buffers, InChan(b) \/ Got(b)
    PROVE  hdr'[b] = hdr[b]
<1>0. b \notin allocated /\ ~InPool(b) /\ hdr \in [Buffers -> [dst : Addr \cup {Null}, len : 0 .. LenMod - 1]]
  BY DEF IInv, BufInv, TypeOK
<1>1. ASSUME NEW t \in Sender, NEW n \in Sizes, CreateMessage(t, n) PROVE hdr'[b] = hdr[b]
  <2>1. InPool(Head(pool))
    BY <1>1, TakeHead DEF CreateMessage, Alloc, IInv, InPool, TypeOK
  <2> QED BY <1>0, <1>1, <2>1 DEF CreateMessage
<1>2. ASSUME NEW t \in Sender, NEW dst \in Addr, NEW len \in SendSizes, SendHeader(t, dst, len)
      PROVE  hdr'[b] = hdr[b]
  <2>1. snd[t].buf \in allocated
    BY <1>2 DEF SendHeader, IInv, OneSenderPerBuffer
  <2> QED BY <1>0, <1>2, <2>1 DEF SendHeader
<1>3. \/ UNCHANGED hdr
      \/ \E t \in Sender, n \in Sizes : CreateMessage(t, n)
      \/ \E t \in Sender, dst \in Addr, len \in SendSizes : SendHeader(t, dst, len)
  BY Zenon DEF Next, SendStep, RxStep, vars, CreateFail, SendNocopy, Notify,
         DeleteEndpoint, RebindEndpoint, CreateEndpoint, IntrEnable, BellDropped, RxEnter,
         RxEmpty, RxRecv, RxSearch, RxUndeliverable, RxCheck, RxCall, Destroy
<1> QED BY <1>1, <1>2, <1>3

\* The list is what it was when neither the head nor a link changed.
LEMMA ListedStable ==
    ASSUME UNCHANGED <<head, ept>>
    PROVE  Listed' = Listed
<1>1. Walk' = Walk
  BY DEF Walk
<1> QED BY <1>1 DEF Listed

\* The list starts at its head and goes on at every link.
LEMMA ListedLinks ==
    ASSUME ListInv
    PROVE  /\ head \in Listed \cup {Null}
           /\ \A x \in Listed : ept[x].next \in Listed \cup {Null}
<1>1. PICK L \in Seq(Ctx) : Chain(L)
  BY DEF ListInv
<1>2. Listed = {L[i] : i \in Places(L)}
  BY <1>1, ListedChain
<1>3. Len(L) \in Nat
  BY <1>1
<1>4. Len(L) # 0 => 1 \in Places(L)
  BY <1>3 DEF Places
<1>5. \A i \in Places(L) : i # Len(L) => i + 1 \in Places(L)
  BY <1>3 DEF Places
<1> QED BY <1>1, <1>2, <1>4, <1>5 DEF Chain

\* A step outside the dispatcher that touches neither a received message nor
\* the list does not disturb it.
LEMMA RxUndisturbed ==
    ASSUME IInv, [Next]_vars, UNCHANGED <<received, head, ept, rx, held, poll>>
    PROVE  RxInv'
<1>1. Listed' = Listed
  BY ListedStable
<1>2. \A b : Got(b)' <=> Got(b)
  BY DEF Got
<1>3. rx.pc \in {"search", "check", "call"} => rx.buf \in Buffers /\ Got(rx.buf)
  BY DEF IInv, RxInv, Got, TypeOK, Message
<1>4. rx.pc \in {"search", "check", "call"} => hdr'[rx.buf] = hdr[rx.buf]
  BY <1>3, HeaderStep
<1>5. CalledIsListed'
  BY <1>1, <1>4 DEF IInv, RxInv, CalledIsListed, Search
<1> QED BY <1>1, <1>2, <1>5 DEF IInv, RxInv

\* Every step keeps the dispatcher on the list and on a received message.
LEMMA RxInvStep == IInv /\ [Next]_vars => RxInv'
<1> SUFFICES ASSUME IInv, [Next]_vars PROVE RxInv'
  OBVIOUS
<1>0. /\ TypeOK /\ RxInv /\ BufInv /\ ListInv /\ ChanTypeOK
      /\ rx \in [pc : {"off", "poll", "search", "check", "call", "fault"}, buf : Buffers \cup {Null},
                 at : Ctx \cup {Null}]
  BY DEF IInv, TypeOK, ChanTypeOK
<1>1. ASSUME UNCHANGED <<received, rx, held, poll>>, ThreadRuns PROVE RxInv'
  <2>1. \A b : Got(b)' <=> Got(b)
    BY <1>1 DEF Got
  <2> QED BY <1>0, <1>1, <2>1 DEF RxInv, CalledIsListed, ThreadRuns
<1>2. ASSUME rx'.pc \in {"off", "poll"}, UNCHANGED received, held' = held PROVE RxInv'
  <2>1. \A b : Got(b)' <=> Got(b)
    BY <1>2 DEF Got
  <2> QED BY <1>0, <1>2, <2>1 DEF RxInv, CalledIsListed
<1>3. CASE RxCall
  <2>1. \A b : Got(b)' <=> Got(b)
    BY <1>3 DEF RxCall, chanVars, Got
  <2>2. Got(rx.buf) /\ UNCHANGED poll /\ (~poll => ept[rx.at].rx_cb)
    BY <1>0, <1>3 DEF RxCall, RxInv, CalledIsListed
  <2>3. CASE rx' = After(0) /\ held' = held \cup {rx.buf}
    <3>1. rx'.pc \in {"off", "poll"}
      BY <2>3 DEF After, RxOff
    <3> QED BY <1>0, <2>1, <2>2, <2>3, <3>1 DEF RxInv, CalledIsListed
  <2>4. CASE rx' = [rx EXCEPT !.pc = "fault"] /\ held' = held /\ ~ept[rx.at].rx_cb
    <3>1. rx'.pc = "fault" /\ poll'
      BY <1>0, <2>2, <2>4
    <3> QED BY <1>0, <2>1, <2>4, <3>1 DEF RxInv, CalledIsListed
  <2> QED BY <1>3, <2>3, <2>4 DEF RxCall
<1>10. CASE RxCheck
  <2>1. /\ rx.pc = "check" /\ UNCHANGED <<received, hdr, head, ept, held, poll>>
        /\ rx' = IF ept[rx.at].rx_cb THEN [rx EXCEPT !.pc = "call"] ELSE After(0)
    BY <1>10 DEF RxCheck, chanVars
  <2>2. CASE ~ept[rx.at].rx_cb
    <3>1. rx'.pc \in {"off", "poll"}
      BY <2>1, <2>2 DEF After, RxOff
    <3> QED BY <1>2, <2>1, <3>1
  <2>3. CASE ept[rx.at].rx_cb
    <3>1. rx'.pc = "call" /\ rx'.buf = rx.buf /\ rx'.at = rx.at
      BY <1>0, <2>1, <2>3
    <3>2. Listed' = Listed /\ \A b : Got(b)' <=> Got(b)
      BY <2>1, ListedStable DEF Got
    <3>3. CalledIsListed'
      BY <1>0, <2>1, <2>3, <3>1, <3>2 DEF RxInv, CalledIsListed, Search
    <3> QED BY <1>0, <2>1, <3>1, <3>2, <3>3 DEF RxInv
  <2> QED BY <2>2, <2>3
<1>4. CASE RxRecv
  <2>1. /\ InChan(Head(chan).buf) /\ Head(chan).buf \in Buffers
        /\ received' = received \cup {Head(chan)}
    BY <1>0, <1>4, RecvKeepsBuffers DEF RxRecv, Message
  <2>2. rx'.pc = "search" /\ rx'.buf = Head(chan).buf /\ rx'.at = head
        /\ UNCHANGED <<held, head, ept>>
    BY <1>4 DEF RxRecv
  <2>3. Head(chan).buf \notin held
    BY <1>0, <2>1 DEF BufInv, RxInv
  <2>4. \A b : Got(b)' <=> Got(b) \/ b = Head(chan).buf
    BY <2>1 DEF Got
  <2>5. head \in Listed' \cup {Null}
    BY <1>0, <2>2, ListedStable, ListedLinks
  <2> QED BY <1>0, <2>2, <2>3, <2>4, <2>5 DEF RxInv, CalledIsListed
<1>5. CASE RxSearch
  <2>1. /\ rx.pc = "search" /\ rx.at # Null /\ UNCHANGED <<received, hdr, head, ept, held, poll>>
        /\ rx' = IF ept[rx.at].addr = hdr[rx.buf].dst
                 THEN [rx EXCEPT !.pc = "check"]
                 ELSE [rx EXCEPT !.at = ept[rx.at].next]
    BY <1>5 DEF RxSearch, chanVars
  <2>2. Listed' = Listed /\ \A b : Got(b)' <=> Got(b)
    BY <2>1, ListedStable DEF Got
  <2>3. Got(rx.buf) /\ rx.buf \notin held /\ rx.at \in Ctx
    BY <1>0, <2>1 DEF RxInv
  <2>4. ~poll => rx.at \in Listed /\ ept[rx.at].next \in Listed \cup {Null}
    BY <1>0, <2>1, ListedLinks DEF RxInv
  <2>5. CASE ept[rx.at].addr = hdr[rx.buf].dst
    <3>1. rx'.pc = "check" /\ rx'.buf = rx.buf /\ rx'.at = rx.at
      BY <1>0, <2>1, <2>5
    <3>2. ~poll => rx.at \in Search(hdr[rx.buf].dst)
      BY <2>4, <2>5 DEF Search
    <3>3. CalledIsListed'
      BY <2>1, <2>2, <3>1, <3>2 DEF CalledIsListed, Search
    <3> QED BY <1>0, <2>1, <2>2, <2>3, <3>1, <3>3 DEF RxInv
  <2>6. CASE ept[rx.at].addr # hdr[rx.buf].dst
    <3>1. rx'.pc = "search" /\ rx'.buf = rx.buf /\ rx'.at = ept[rx.at].next
      BY <1>0, <2>1, <2>6
    <3> QED BY <1>0, <2>1, <2>2, <2>3, <2>4, <3>1 DEF RxInv, CalledIsListed
  <2> QED BY <2>5, <2>6
<1>6. ASSUME NEW m \in received, Destroy(m) PROVE RxInv'
  <2>1. /\ m.buf \in held /\ held' = held \ {m.buf} /\ Free(m)
        /\ UNCHANGED <<hdr, head, ept, rx, poll>>
    BY <1>6 DEF Destroy
  <2>2. \A b \in Buffers : Got(b) /\ b # m.buf => Got(b)'
    BY <1>0, <2>1, FreeKeepsBuffers
  <2>3. Listed' = Listed
    BY <2>1, ListedStable
  <2>4. held \subseteq Buffers /\ (rx.pc \in {"search", "check", "call"} => rx.buf \in Buffers)
    BY <1>0 DEF TypeOK, RxInv, Got, Message
  <2>5. CalledIsListed'
    BY <1>0, <2>1, <2>3 DEF RxInv, CalledIsListed, Search
  <2> QED BY <1>0, <2>1, <2>2, <2>3, <2>4, <2>5 DEF RxInv
<1>7. ASSUME \E a \in Addr : \/ DeleteEndpoint(a)
                             \/ \E cb \in Callback : RebindEndpoint(a, cb)
                             \/ \E cb \in Callback, x \in Ctx : CreateEndpoint(x, a, cb)
      PROVE  RxInv'
  BY <1>1, <1>7 DEF DeleteEndpoint, RebindEndpoint, CreateEndpoint, chanVars
<1>8. CASE RxEnter \/ RxEmpty \/ RxUndeliverable
  <2>1. rx'.pc \in {"off", "poll"}
    BY <1>0, <1>8, Zenon DEF RxEnter, RxEmpty, RxUndeliverable, After, RxOff
  <2> QED BY <1>2, <1>8, <2>1, Zenon DEF RxEnter, RxEmpty, RxUndeliverable, chanVars
<1>9. \/ UNCHANGED <<received, head, ept, rx, held, poll>>
      \/ RxCheck \/ RxCall \/ RxRecv \/ RxSearch \/ RxEnter \/ RxEmpty \/ RxUndeliverable
      \/ \E m \in received : Destroy(m)
      \/ \E a \in Addr : \/ DeleteEndpoint(a)
                         \/ \E cb \in Callback : RebindEndpoint(a, cb)
                         \/ \E cb \in Callback, x \in Ctx : CreateEndpoint(x, a, cb)
  BY Zenon DEF Next, SendStep, RxStep, vars, chanVars, CreateMessage, CreateFail, SendHeader, SendNocopy,
         Notify, Alloc, Send, IntrEnable, BellDropped
<1> QED BY <1>3, <1>4, <1>5, <1>6, <1>7, <1>8, <1>9, <1>10, RxUndisturbed

-----------------------------------------------------------------------------
(* The theorems.                                                           *)

\* What init leaves behind: all buffers in the pool, nobody at work.
LEMMA InvInit == Init => IInv
<1> SUFFICES ASSUME Init PROVE IInv
  OBVIOUS
<1> USE DEF Init, ChanInit
<1>1. TypeOK
  <2>1. pool \in Seq(Buffers) /\ chan \in Seq(Message) /\ 0 \in 0 .. LenMod - 1
    BY PoolAssumption, DataAssumption
  <2>2. bell \in BOOLEAN /\ enabled \in BOOLEAN /\ poll \in BOOLEAN
    BY DataAssumption, Zenon
  <2>3. hdr \in [Buffers -> [dst : Addr \cup {Null}, len : 0 .. LenMod - 1]]
    BY <2>1
  <2>4. snd \in [Sender -> [pc : {"idle", "filling", "sending", "notify"},
                            buf : Buffers \cup {Null}]]
    BY <2>1 DEF Idle
  <2> QED BY <2>1, <2>2, <2>3, <2>4 DEF TypeOK, RxOff, Callback
<1>2. ListInv
  <2>1. <<>> \in Seq(Ctx) /\ Len(<<>>) = 0 /\ Places(<<>>) = {}
    BY DEF Places
  <2>2. Chain(<<>>) /\ AddrOnce(<<>>)
    BY <2>1 DEF Chain, AddrOnce, Distinct
  <2> QED BY <2>1, <2>2, Zenon DEF ListInv
<1>3. BufInv
  <2>1. Places(chan) = {} /\ Distinct(pool)
    BY PoolAssumption DEF Places, Distinct
  <2>2. \A b : ~InChan(b) /\ ~Got(b) /\ b \notin allocated
    BY <2>1, Zenon DEF InChan, Got, Places
  <2> QED BY <2>1, <2>2, Zenon DEF BufInv
<1>4. OneSenderPerBuffer
  BY DEF OneSenderPerBuffer, Idle
<1>5. RxInv
  BY DEF RxInv, RxOff, CalledIsListed
<1> QED BY <1>1, <1>2, <1>3, <1>4, <1>5 DEF IInv

\* The inductive invariant of RPMsg: the endpoint list is a chain, each buffer
\* is in one place and with one context, and the dispatcher works on a
\* received message.
THEOREM RpMsgInvariant == Spec => []IInv
<1>1. IInv /\ [Next]_vars => IInv'
  BY TypeStep, ListStep, BufStep, SenderStep, RxInvStep DEF IInv
<1> QED BY <1>1, InvInit, PTL DEF Spec

\* Types of the device, the endpoints and the messages; the length in a header
\* is a 16-bit number, and no more is known of it.
THEOREM TypeCorrect == Spec => []TypeOK
<1>1. IInv => TypeOK
  BY DEF IInv
<1> QED BY <1>1, RpMsgInvariant, PTL

\* The endpoint list ends, and has an address once, for any number of
\* endpoint structures in whatever order they are created, deleted and reused.
THEOREM EndpointListSound == Spec => []ListSound
<1>1. IInv => ListSound
  <2> SUFFICES ASSUME IInv PROVE ListSound
    OBVIOUS
  <2>1. PICK L \in Seq(Ctx) : Chain(L) /\ AddrOnce(L)
    BY DEF IInv, ListInv
  <2>2. Listed = {L[i] : i \in Places(L)} /\ Walk[Cardinality(Ctx)] = Null
    BY <2>1, ListedChain
  <2> QED BY <2>1, <2>2 DEF ListSound, AddrOnce
<1> QED BY <1>1, RpMsgInvariant, PTL

\* Every buffer between create_message and send_nocopy belongs to exactly one
\* context, for any number of tasks and interrupt handlers that send.
THEOREM SendersOwnBuffers == Spec => []OneSenderPerBuffer
<1>1. IInv => OneSenderPerBuffer
  BY DEF IInv
<1> QED BY <1>1, RpMsgInvariant, PTL

\* In interrupt mode rx_cb is that of a listed endpoint with the address the
\* message was sent to, and is not null when it is called, although the search,
\* the check and the call take no lock.
THEOREM DispatchedToItsEndpoint == Spec => []CalledIsListed
<1>1. IInv => CalledIsListed
  BY DEF IInv, RxInv
<1> QED BY <1>1, RpMsgInvariant, PTL

\* No step changes the header of a message that the receiver can see.
THEOREM HeadersAreStable == Spec => HeaderStable
<1>1. IInv /\ [Next]_vars =>
        [\A b \in Buffers :
           ((\E i \in 1 .. Len(chan) : chan[i].buf = b) \/ \E m \in received : m.buf = b)
             => hdr'[b] = hdr[b]]_vars
  BY HeaderStep DEF InChan, Got
<1> QED BY <1>1, RpMsgInvariant, PTL DEF Spec, HeaderStable

\* A message that waits after the callback has returned has its interrupt
\* pending, or about to be raised, unless an interrupt came before
\* intr_enable or a message found no endpoint.
THEOREM WaitingIsExcused == Spec => []WaitingOnlyExcused
<1>1. Init => WaitingOnlyExcused
  BY DEF Init, ChanInit, WaitingOnlyExcused, NothingLeftWaiting
<1>2. TypeOK /\ WaitingOnlyExcused /\ [Next]_vars => WaitingOnlyExcused'
  <2> SUFFICES ASSUME TypeOK, WaitingOnlyExcused, [Next]_vars, excuse' = {}, ~poll', rx'.pc = "off",
                      chan' # <<>>
               PROVE  bell' \/ \E t \in Sender : snd'[t].pc = "notify"
    BY Zenon DEF WaitingOnlyExcused, NothingLeftWaiting
  <2>0. /\ rx \in [pc : {"off", "poll", "search", "check", "call", "fault"}, buf : Buffers \cup {Null},
                   at : Ctx \cup {Null}]
        /\ snd \in [Sender -> [pc : {"idle", "filling", "sending", "notify"},
                               buf : Buffers \cup {Null}]]
    BY DEF TypeOK
  <2>1. ASSUME NEW t \in Sender, SendNocopy(t) PROVE snd'[t].pc = "notify"
    BY <2>0, <2>1 DEF SendNocopy
  <2>2. ASSUME NEW t \in Sender, Notify(t) PROVE bell'
    BY <2>2 DEF Notify
  <2>3. CASE /\ UNCHANGED <<chan, rx, poll>> /\ excuse = {} /\ (bell => bell')
             /\ \A t \in Sender : snd[t].pc = "notify" => snd'[t].pc = "notify"
    BY <2>3 DEF WaitingOnlyExcused, NothingLeftWaiting
  <2>4. ASSUME NEW t \in Sender, NEW n \in Sizes, CreateMessage(t, n)
        PROVE  bell' \/ \E u \in Sender : snd'[u].pc = "notify"
    BY <2>0, <2>3, <2>4 DEF CreateMessage, Alloc
  <2>5. ASSUME NEW t \in Sender, NEW dst \in Addr, NEW len \in SendSizes, SendHeader(t, dst, len)
        PROVE  bell' \/ \E u \in Sender : snd'[u].pc = "notify"
    BY <2>0, <2>3, <2>5 DEF SendHeader, chanVars
  <2>6. CASE BellDropped
    BY <2>6 DEF BellDropped
  <2>7. CASE RxEnter \/ RxRecv \/ RxSearch \/ RxUndeliverable \/ RxCheck \/ RxCall \/ RxEmpty
    <3>0. ~RxSearch
      BY <2>0 DEF RxSearch
    <3>1. ~RxEnter /\ ~RxRecv
      <4>1. RxEnter => rx'.pc = "poll"
        BY <2>0 DEF RxEnter
      <4>2. RxRecv => rx'.pc = "search"
        BY DEF RxRecv
      <4> QED BY <4>1, <4>2
    <3>2. ~RxUndeliverable /\ ~RxEmpty
      BY DEF RxUndeliverable, RxEmpty, chanVars
    <3>3. ~RxCheck /\ ~RxCall
      BY <2>0 DEF RxCheck, RxCall, After, RxOff
    <3> QED BY <2>7, <3>0, <3>1, <3>2, <3>3
  <2>8. ASSUME UNCHANGED <<chan, rx, poll, excuse, bell, snd>>
        PROVE  bell' \/ \E u \in Sender : snd'[u].pc = "notify"
    BY <2>3, <2>8
  <2>9. \/ UNCHANGED <<chan, rx, poll, excuse, bell, snd>>
        \/ BellDropped \/ RxEnter \/ RxRecv \/ RxSearch \/ RxUndeliverable \/ RxCheck \/ RxCall \/ RxEmpty
        \/ \E t \in Sender : \/ SendNocopy(t) \/ Notify(t)
                             \/ \E n \in Sizes : CreateMessage(t, n)
                             \/ \E dst \in Addr, len \in SendSizes : SendHeader(t, dst, len)
    BY DEF Next, SendStep, RxStep, vars, chanVars, CreateFail, DeleteEndpoint, RebindEndpoint,
           CreateEndpoint, IntrEnable, Destroy, Free
  <2> QED BY <2>1, <2>2, <2>4, <2>5, <2>6, <2>7, <2>8, <2>9, Zenon
<1> QED BY <1>1, <1>2, TypeCorrect, PTL DEF Spec
=============================================================================
